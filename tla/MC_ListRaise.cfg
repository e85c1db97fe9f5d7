\* Any store four calls can build, then an async for over alist while
\* other coroutines only call aget_tuple between its items.
CONSTANTS
    t1 = t1
    t2 = t2
    n0 = n0
    n1 = n1
    None = None
    Threads <- MCThreads
    Namespaces <- MCNamespaces
    Ids = {1, 2, 3}
    Metas <- MCMetas
    ArgsSet <- MCArgs
    OpsBefore = {"put", "delete", "get"}
    OpsDuring = {"get"}
    MaxEnv = 4
SPECIFICATION Spec
INVARIANT NoListRaises
