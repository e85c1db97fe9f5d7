-------------------------- MODULE MC_DurableSaver --------------------------
EXTENDS DurableSaver, TLC

CONSTANTS storage, writes, blobs, t1, t2

MCDicts == {storage, writes, blobs}
MCThreads == {t1, t2}

\* Files an earlier run of the saver closed: thread t1 with a checkpoint.
SyncedFiles == {(storage :> {t1}) @@ (writes :> {}) @@ (blobs :> {t1})}
=============================================================================
