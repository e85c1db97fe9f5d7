\* A saver on three PersistentDict files that puts, stages writes, deletes
\* threads and exits, with one crash (or restart) and one failing dump.
CONSTANTS
    storage = storage
    writes = writes
    blobs = blobs
    t1 = t1
    t2 = t2
    Absent = Absent
    EmptyFile = EmptyFile
    Torn = Torn
    None = None
    Storage = storage
    Writes = writes
    Blobs = blobs
    Dicts <- MCDicts
    Items <- MCThreads
    InitFiles <- SyncedFiles
    MaxCrashes = 1
    MaxFailures = 1
    MaxPowerLosses = 0
SPECIFICATION DSpec
INVARIANT CheckpointsHaveBlobs
