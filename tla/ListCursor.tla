----------------------------- MODULE ListCursor -----------------------------
(***************************************************************************)
(* InMemorySaver.list (and alist, which re-yields it) as a lazy generator  *)
(* that other calls interleave with.  Under asyncio every sync call that   *)
(* aput, adelete_thread or aget_tuple makes runs atomically, and the only  *)
(* points where another coroutine can run in the middle of a listing are   *)
(* the generator's yields: an `async for` consumer awaits between items.   *)
(* So the generator is a sequence of atomic segments, each running from a  *)
(* resume (Pull) to its next yield, and the environment steps (put,        *)
(* delete_thread, get_tuple's lookup) run only while it is suspended.      *)
(*                                                                         *)
(* Between two yields the generator holds two live dict iterators: over    *)
(* self.storage when list is called without a config, and over            *)
(* self.storage[thread_id].keys().  A CPython dict iterator raises         *)
(* RuntimeError on its next step when the dict's size changed, and visits  *)
(* keys in insertion order, skipping deleted slots.  self.storage is       *)
(* therefore kept as its entry array (keys, with None for a deleted slot), *)
(* and each thread's dict as an object with its namespace order, so that a *)
(* view captured before a delete_thread keeps reading the detached object. *)
(* Only self.storage is modelled: blobs and writes do not change what list *)
(* visits or whether it raises.                                            *)
(***************************************************************************)
EXTENDS Integers, Sequences, SequencesExt, FiniteSets

CONSTANTS
    Threads,        \* thread ids
    Namespaces,     \* checkpoint namespaces
    Ids,            \* checkpoint ids, 1..N in creation order
    Metas,          \* metadata dicts a put may store: [key -> value]
    ArgsSet,        \* list calls: [thread, ns, id, before, filter, limit]
    OpsBefore,      \* calls made before the listing: a subset of {"put", "delete", "get"}
    OpsDuring,      \* calls made while it is suspended between items
    MaxEnv,         \* bound on the environment's calls
    None

NoCkpts == [i \in Ids |-> None]

\* A fresh thread dict made by the defaultdict factory (line 89).
EmptyThread == [ns |-> [n \in Namespaces |-> None], order |-> <<>>]

VARIABLES
    store,    \* [entries: self.storage's key slots, tobj: thread -> object, tdict: objects]
    nextId,   \* id the next put takes
    env,      \* environment calls made
    args,     \* the arguments of the list call
    gen,      \* the generator's frame
    yielded,  \* <<thread, ns, id>> of every item yielded so far
    start,    \* self.storage when the generator body started
    quiet     \* no other call ran since the generator body started

vars == <<store, nextId, env, args, gen, yielded, start, quiet>>

Live(S, t) == S.tobj[t] # None

Size(S) == Cardinality({t \in Threads : Live(S, t)})

\* self.storage[t]: the defaultdict inserts a fresh thread dict when t is missing.
TouchThread(S, t) ==
    IF Live(S, t) THEN S
    ELSE [S EXCEPT !.tdict = Append(@, EmptyThread),
                   !.tobj[t] = Len(S.tdict) + 1,
                   !.entries = Append(@, t)]

\* self.storage[t][ns]: both defaultdict levels insert what is missing.
TouchNs(S, t, ns) ==
    LET S1 == TouchThread(S, t)
        o  == S1.tobj[t]
    IN  IF S1.tdict[o].ns[ns] # None THEN S1
        ELSE [S1 EXCEPT !.tdict[o].ns[ns] = NoCkpts,
                        !.tdict[o].order = Append(@, ns)]

\* `filter and not all(query_value == metadata.get(query_key) ...)`
FilterMatch(f, m) == f = None \/ \A k \in DOMAIN f : f[k] = m[k]

Init ==
    /\ store = [entries |-> <<>>, tobj |-> [t \in Threads |-> None], tdict |-> <<>>]
    /\ nextId = 1
    /\ env = 0
    /\ args \in ArgsSet
    /\ gen = [pc |-> "start", running |-> FALSE, tpos |-> 0, tn0 |-> 0,
              t |-> None, o |-> 0, npos |-> 0, nn0 |-> 0, ns |-> None,
              items |-> <<>>, limit |-> None]
    /\ yielded = <<>>
    /\ start = store
    /\ quiet = TRUE

-----------------------------------------------------------------------------
(* Other calls, each atomic on the event loop.                             *)

EnvAllowed(op) ==
    /\ env < MaxEnv
    /\ ~gen.running
    /\ op \in IF gen.pc = "start" THEN OpsBefore ELSE OpsDuring

EnvStep(S) ==
    /\ store' = S
    /\ env' = env + 1
    /\ quiet' = (quiet /\ gen.pc = "start")
    /\ UNCHANGED <<args, gen, yielded, start>>

\* put: self.storage[thread_id][checkpoint_ns].update({id: ...}) (line 352).
Put(t, ns, m) ==
    /\ EnvAllowed("put")
    /\ nextId \in Ids
    /\ LET S1 == TouchNs(store, t, ns)
       IN  EnvStep([S1 EXCEPT !.tdict[S1.tobj[t]].ns[ns][nextId] = m])
    /\ nextId' = nextId + 1

\* delete_thread: `if thread_id in self.storage: del self.storage[thread_id]`.
DeleteThread(t) ==
    /\ EnvAllowed("delete")
    /\ Live(store, t)
    /\ EnvStep([store EXCEPT !.tobj[t] = None,
                   !.entries = [i \in DOMAIN @ |-> IF @[i] = t THEN None ELSE @[i]]])
    /\ UNCHANGED nextId

\* get_tuple's lookup self.storage[thread_id][checkpoint_ns] (lines 149, 178),
\* taken only where it inserts something.
GetTuple(t, ns) ==
    /\ EnvAllowed("get")
    /\ TouchNs(store, t, ns) # store
    /\ EnvStep(TouchNs(store, t, ns))
    /\ UNCHANGED nextId

-----------------------------------------------------------------------------
(* The consumer and the generator.                                         *)

\* The consumer asks for the next item: the generator resumes.
Pull ==
    /\ ~gen.running
    /\ gen.pc \notin {"done", "raised"}
    /\ gen' = [gen EXCEPT !.running = TRUE]
    /\ UNCHANGED <<store, nextId, env, args, yielded, start, quiet>>

Raise == gen' = [gen EXCEPT !.pc = "raised", !.running = FALSE]

\* Lines 236-241: thread_ids is a one-tuple, or self.storage itself.
GenStart ==
    /\ gen.running /\ gen.pc = "start"
    /\ gen' = [gen EXCEPT !.pc = "next_thread", !.tpos = 0, !.tn0 = Size(store),
                          !.limit = args.limit]
    /\ start' = store
    /\ UNCHANGED <<store, nextId, env, args, yielded, quiet>>

\* The next slot of self.storage's entry array holding a key, after pos.
NextSlot(S, pos) ==
    LET later == {i \in DOMAIN S.entries : i > pos /\ S.entries[i] # None}
    IN  IF later = {} THEN 0 ELSE CHOOSE i \in later : \A j \in later : i <= j

\* Line 241: `for thread_id in thread_ids`.
NextThread ==
    /\ gen.running /\ gen.pc = "next_thread"
    /\ IF args.thread # None
       THEN gen' = IF gen.tpos = 0
                   THEN [gen EXCEPT !.t = args.thread, !.tpos = 1, !.pc = "ns_view"]
                   ELSE [gen EXCEPT !.pc = "done", !.running = FALSE]
       ELSE IF Size(store) # gen.tn0 THEN Raise
       ELSE LET i == NextSlot(store, gen.tpos)
            IN  gen' = IF i = 0
                       THEN [gen EXCEPT !.pc = "done", !.running = FALSE]
                       ELSE [gen EXCEPT !.t = store.entries[i], !.tpos = i,
                                        !.pc = "ns_view"]
    /\ UNCHANGED <<store, nextId, env, args, yielded, start, quiet>>

\* Line 242: `self.storage[thread_id].keys()` looks the thread up (inserting
\* it when missing) and keeps a live view of that dict object.
NsView ==
    /\ gen.running /\ gen.pc = "ns_view"
    /\ LET S1 == TouchThread(store, gen.t)
       IN  /\ store' = S1
           /\ gen' = [gen EXCEPT !.o = S1.tobj[gen.t], !.npos = 0,
                       !.nn0 = Len(S1.tdict[S1.tobj[gen.t]].order), !.pc = "next_ns"]
    /\ UNCHANGED <<nextId, env, args, yielded, start, quiet>>

\* Lines 243-247: `config_checkpoint_ns is not None and checkpoint_ns !=
\* config_checkpoint_ns`, and the namespace is skipped.
SkipNs(n) == args.ns # None /\ n # args.ns

\* Mutant of LimitReached: the break comes one item late.
LimitReachedLate(l) == l # None /\ l < 0

\* Lines 242-248: next namespace of the view, skipped unless it is the
\* config's checkpoint_ns.
NextNs ==
    /\ gen.running /\ gen.pc = "next_ns"
    /\ LET ord == store.tdict[gen.o].order
       IN  IF Len(ord) # gen.nn0 THEN Raise
           ELSE IF gen.npos >= Len(ord)
           THEN gen' = [gen EXCEPT !.pc = "next_thread"]
           ELSE gen' = [gen EXCEPT !.ns = ord[gen.npos + 1], !.npos = gen.npos + 1,
                          !.pc = IF SkipNs(ord[gen.npos + 1]) THEN "next_ns" ELSE "sorted"]
    /\ UNCHANGED <<store, nextId, env, args, yielded, start, quiet>>

\* Line 279: `limit is not None and limit <= 0`.
LimitReached(l) == l # None /\ l <= 0

\* Lines 250-257: a sorted snapshot, newest first, of
\* self.storage[thread_id][checkpoint_ns], looked up afresh.
Sorted ==
    /\ gen.running /\ gen.pc = "sorted"
    /\ LET S1 == TouchNs(store, gen.t, gen.ns)
           c  == S1.tdict[S1.tobj[gen.t]].ns[gen.ns]
       IN  /\ store' = S1
           /\ gen' = [gen EXCEPT !.pc = "next_ckpt",
                       !.items = SetToSortSeq({<<i, c[i]>> : i \in {j \in Ids : c[j] # None}},
                                              LAMBDA a, b : a[1] > b[1])]
    /\ UNCHANGED <<nextId, env, args, yielded, start, quiet>>

\* Lines 258-290: the filters on one checkpoint, then the limit, then yield.
NextCkpt ==
    /\ gen.running /\ gen.pc = "next_ckpt"
    /\ IF gen.items = <<>>
       THEN /\ gen' = [gen EXCEPT !.pc = "next_ns"]
            /\ UNCHANGED yielded
       ELSE LET id == Head(gen.items)[1]
                m  == Head(gen.items)[2]
            IN  IF \/ args.id # None /\ id # args.id
                   \/ args.before # None /\ id >= args.before
                   \/ ~FilterMatch(args.filter, m)
                THEN /\ gen' = [gen EXCEPT !.items = Tail(@)]
                     /\ UNCHANGED yielded
                ELSE IF LimitReached(gen.limit)
                THEN /\ gen' = [gen EXCEPT !.pc = "next_ns"]
                     /\ UNCHANGED yielded
                ELSE /\ gen' = [gen EXCEPT !.items = Tail(@), !.running = FALSE,
                                  !.limit = IF @ = None THEN None ELSE @ - 1]
                     /\ yielded' = Append(yielded, <<gen.t, gen.ns, id>>)
    /\ UNCHANGED <<store, nextId, env, args, start, quiet>>

GenStep == GenStart \/ NextThread \/ NsView \/ NextNs \/ Sorted \/ NextCkpt

\* The listing is over and no other call may still run.
Finished ==
    /\ gen.pc \in {"done", "raised"}
    /\ UNCHANGED vars

Next ==
    \/ \E t \in Threads, ns \in Namespaces, m \in Metas : Put(t, ns, m)
    \/ \E t \in Threads : DeleteThread(t)
    \/ \E t \in Threads, ns \in Namespaces : GetTuple(t, ns)
    \/ Pull
    \/ GenStep
    \/ Finished

Spec == Init /\ [][Next]_vars

-----------------------------------------------------------------------------
(* What list promises (spec 4.1), written as a whole-result definition:    *)
(* every matching checkpoint, thread by thread in self.storage order,      *)
(* namespace by namespace in insertion order, newest first, then the first *)
(* `limit` of them.                                                        *)

Matching(c, a) ==
    {i \in Ids : /\ c[i] # None
                 /\ a.id = None \/ i = a.id
                 /\ a.before = None \/ i < a.before
                 /\ FilterMatch(a.filter, c[i])}

Expected(S, a) ==
    LET Group(t, ns) ==
            SetToSortSeq({<<t, ns, i>> : i \in Matching(S.tdict[S.tobj[t]].ns[ns], a)},
                         LAMBDA x, y : x[3] > y[3])
        PerThread(t) ==
            IF ~Live(S, t) THEN <<>>
            ELSE LET ord == S.tdict[S.tobj[t]].order
                 IN  FlattenSeq([k \in DOMAIN ord |->
                                   IF a.ns = None \/ ord[k] = a.ns THEN Group(t, ord[k])
                                   ELSE <<>>])
        ts  == IF a.thread # None THEN <<a.thread>>
               ELSE SelectSeq(S.entries, LAMBDA e : e # None)
        all == FlattenSeq([k \in DOMAIN ts |-> PerThread(ts[k])])
    IN  IF a.limit = None THEN all
        ELSE IF a.limit <= 0 THEN <<>>
        ELSE SubSeq(all, 1, IF a.limit < Len(all) THEN a.limit ELSE Len(all))

Stored(S, k) ==
    /\ Live(S, k[1])
    /\ S.tdict[S.tobj[k[1]]].ns[k[2]] # None
    /\ S.tdict[S.tobj[k[1]]].ns[k[2]][k[3]] # None

-----------------------------------------------------------------------------
(* Properties                                                              *)

\* A listing that ran with no other call in between yields exactly the
\* matching checkpoints in the promised order (the loops of lines 241-290,
\* with the before/limit/filter checks and the break on an exhausted limit).
ListMatchesReference ==
    gen.pc = "done" /\ quiet => yielded = Expected(start, args)

\* list never raises, whatever other calls run while it is suspended (the
\* live iterators of lines 241 and 242).
NoListRaises == gen.pc # "raised"

\* Every item list yields is a checkpoint the store holds when it is yielded:
\* after delete_thread(T) nothing of T is observable via list (spec 8).
YieldsStored ==
    [][Len(yielded') > Len(yielded) => Stored(store', yielded'[Len(yielded')])]_yielded

=============================================================================
