\* Five list calls, each consumed item by item while up to four put,
\* delete_thread and get_tuple calls run before it or between its items.
CONSTANTS
    t1 = t1
    t2 = t2
    n0 = n0
    n1 = n1
    None = None
    Threads <- MCThreads
    Namespaces <- MCNamespaces
    Ids = {1, 2, 3}
    Metas <- MCMetas
    ArgsSet <- MCArgs
    OpsBefore = {"put", "delete", "get"}
    OpsDuring = {"put", "delete", "get"}
    MaxEnv = 4
SPECIFICATION Spec
INVARIANT ListMatchesReference
