--------------------------- MODULE MC_ListCursor ---------------------------
EXTENDS ListCursor

CONSTANTS t1, t2, n0, n1

MCThreads == {t1, t2}
MCNamespaces == {n0, n1}

\* Two metadata dicts a put may store, and a filter on both of their keys.
Loop == [source |-> "loop", step |-> 1]
Input == [source |-> "input", step |-> 1]
MCMetas == {Loop, Input}

Call(t, ns, id, before, f, lim) ==
    [thread |-> t, ns |-> ns, id |-> id, before |-> before, filter |-> f, limit |-> lim]

\* list(None), list(None, limit=1), list(None, filter=..., before=3),
\* list(t1 in namespace n1, limit=2), list(t2 at checkpoint 2).
MCArgs ==
    { Call(None, None, None, None, None, None),
      Call(None, None, None, None, None, 1),
      Call(None, None, None, 3, [source |-> "loop", step |-> 1], None),
      Call(t1, n1, None, None, None, 2),
      Call(t2, None, 2, None, None, 0) }
=============================================================================
