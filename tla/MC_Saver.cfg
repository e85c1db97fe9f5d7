\* Commits, forks, loads and deletes of one runner over two threads and two
\* namespaces, two channels and two values, up to three commits (enough for
\* a checkpoint with two children and for a chain of three).  No tasks:
\* the write buffer is checked by MC_Writes.cfg.
CONSTANTS
    Threads = {t1, t2}
    Namespaces = {n0, n1}
    Values = {v1, v2}
    Tasks = {}
    Runners = {r1}
    ERROR = ERROR
    x = x
    y = y
    Channels <- MCChannels
    WriteChannels <- MCWriteChannels
    WritesIdxMap <- MCWritesIdxMap
    MaxWrites = 1
    MaxCheckpoints = 3
    None = None
    Empty = Empty
    DeleteWhileActive = FALSE

SPECIFICATION Spec
INVARIANT TypeOK
INVARIANT VersionsResolve
INVARIANT NoOrphans
PROPERTY StoreSpec
SYMMETRY MCSymmetry
