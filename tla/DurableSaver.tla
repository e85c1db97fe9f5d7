---------------------------- MODULE DurableSaver ----------------------------
(***************************************************************************)
(* InMemorySaver built with a PersistentDict factory: storage, writes and  *)
(* blobs are three PersistentDicts, each with its own file, entered into   *)
(* the saver's ExitStack in that order (lines 92-95).  __exit__ unwinds    *)
(* the stack last-in first-out, closing blobs, then writes, then storage;  *)
(* a close that raises does not stop the ones after it.  A table's content *)
(* is the set of threads with entries in it: put adds the thread to blobs  *)
(* and storage, put_writes to writes, delete_thread removes it from all    *)
(* three.  The process may crash at any step and restart, loading the      *)
(* three files again.                                                      *)
(***************************************************************************)
EXTENDS PersistentDict, Sequences

CONSTANTS Storage, Writes, Blobs

VARIABLES
    stack,    \* the ExitStack's close callbacks still registered, next first
    exiting,  \* __exit__ has started and no with-block has begun since
    atExit    \* history: what the tables held when __exit__ last began

vars == <<pvars, stack, exiting, atExit>>

\* Lines 92-95 enter storage, writes, blobs; ExitStack pops the last first.
ExitOrder == <<Blobs, Writes, Storage>>

\* __init__ registers the three closes (lines 92-95).
DInit == Init /\ stack = ExitOrder /\ exiting = FALSE /\ atExit = mem

Running == Ready /\ ~exiting

SetMem(m) ==
    /\ mem' = m
    /\ UNCHANGED <<tmp, file, call, loaded, synced, crashes, failures, loadErr,
                   dirty, powerLosses, stack, exiting, atExit>>

\* put: the blobs of the new versions (348-351), then the checkpoint (352).
Put(t) ==
    /\ Running
    /\ SetMem([mem EXCEPT ![Blobs] = @ \cup {t}, ![Storage] = @ \cup {t}])

\* put_writes: entries under (thread, ns, checkpoint) (400-405).
PutWrites(t) ==
    /\ Running
    /\ SetMem([mem EXCEPT ![Writes] = @ \cup {t}])

\* delete_thread: storage (416-417), writes (418-420), blobs (421-423).
DeleteThread(t) ==
    /\ Running
    /\ t \in mem[Storage] \cup mem[Writes] \cup mem[Blobs]
    /\ SetMem([d \in Dicts |-> mem[d] \ {t}])

\* __exit__ -> self.stack.__exit__ (lines 100-107): it runs the callbacks
\* still registered, and the ones it runs are gone from the stack.
Exit ==
    /\ Running
    /\ exiting' = TRUE
    /\ atExit' = mem
    /\ UNCHANGED <<pvars, stack>>

\* `with saver:` again once __exit__ has returned: __enter__ (line 98) is
\* self.stack.__enter__(), which registers nothing.
Reenter ==
    /\ exiting /\ stack = <<>> /\ call = None
    /\ exiting' = FALSE
    /\ UNCHANGED <<pvars, stack, atExit>>

\* The next exit callback: that PersistentDict's close.
CloseNext ==
    /\ exiting /\ call = None /\ stack # <<>>
    /\ SyncOpen(Head(stack), TRUE)
    /\ stack' = Tail(stack)
    /\ UNCHANGED <<exiting, atExit>>

\* A crash, or the end of the process after __exit__, and a new start
\* with a new saver.
Restart ==
    /\ Crash
    /\ stack' = ExitOrder
    /\ exiting' = FALSE
    /\ UNCHANGED atExit

\* The process has exited and will not start again.
Stopped ==
    /\ exiting /\ stack = <<>> /\ call = None /\ crashes = MaxCrashes
    /\ UNCHANGED vars

DNext ==
    \/ (Dump \/ DumpFails \/ Move \/ \E d \in Dicts : Load(d)) /\ UNCHANGED <<stack, exiting, atExit>>
    \/ Restart
    \/ \E t \in Items : Put(t) \/ PutWrites(t) \/ DeleteThread(t)
    \/ Exit
    \/ Reenter
    \/ CloseNext
    \/ Stopped

DSpec == DInit /\ [][DNext]_vars

-----------------------------------------------------------------------------

\* Whenever the saver runs with its tables loaded, every thread that has a
\* checkpoint in storage has its blobs: what put and delete_thread keep in
\* memory must survive a restart from the three files.
CheckpointsHaveBlobs ==
    Running => mem[Storage] \subseteq mem[Blobs]

\* Once __exit__ has returned with no dump failing, every entry the tables
\* held when __exit__ began is in their files: leaving a with-block makes
\* what was put in it durable (spec: scoped release runs sync on every
\* exit path).  The ExitStack keeps no callbacks after its first unwinding.
ExitPersists ==
    exiting /\ stack = <<>> /\ call = None /\ failures = 0 =>
        \A d \in Dicts : atExit[d] \subseteq FileData(file[d])

=============================================================================
