\* One PersistentDict over two keys, synced and closed at any point, with
\* up to two crashes and one failing dump, starting from an existing file.
CONSTANTS
    d1 = d1
    i1 = i1
    i2 = i2
    Absent = Absent
    EmptyFile = EmptyFile
    Torn = Torn
    None = None
    Dicts <- MCDicts
    Items <- MCItems
    InitFiles <- ExistingFiles
    MaxCrashes = 2
    MaxFailures = 1
    MaxPowerLosses = 0
SPECIFICATION Spec
PROPERTY LoadRestoresSync
