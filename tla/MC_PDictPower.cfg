\* One PersistentDict over two keys that starts from an existing file and
\* is synced and closed at any point, with one loss of power and the OS
\* writing renamed files back at any time (no process crash, no failures).
CONSTANTS
    d1 = d1
    i1 = i1
    i2 = i2
    Absent = Absent
    EmptyFile = EmptyFile
    Torn = Torn
    None = None
    Dicts <- MCDicts
    Items <- MCItems
    InitFiles <- ExistingFiles
    MaxCrashes = 0
    MaxFailures = 0
    MaxPowerLosses = 1
SPECIFICATION PowerSpec
PROPERTY LoadRestoresSync
