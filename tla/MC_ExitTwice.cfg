\* A saver on three PersistentDict files, starting from files an earlier
\* run closed, that may leave its with-block and enter it again; no crash,
\* no failing dump, no power loss.
CONSTANTS
    storage = storage
    writes = writes
    blobs = blobs
    t1 = t1
    t2 = t2
    Absent = Absent
    EmptyFile = EmptyFile
    Torn = Torn
    None = None
    Storage = storage
    Writes = writes
    Blobs = blobs
    Dicts <- MCDicts
    Items <- MCThreads
    InitFiles <- SyncedFiles
    MaxCrashes = 0
    MaxFailures = 0
    MaxPowerLosses = 0
SPECIFICATION DSpec
INVARIANT ExitPersists
