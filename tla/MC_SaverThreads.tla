-------------------------- MODULE MC_SaverThreads --------------------------
(***************************************************************************)
(* Scenarios of concurrent saver calls for SaverThreads.  Each is a        *)
(* Script (the calls each Python thread makes, in order) and the store     *)
(* they start from (Preloaded, a state sequential puts leave behind).      *)
(***************************************************************************)
EXTENDS SaverThreads

CONSTANTS t1, t2, x, y, ERROR, v1, v2, k1, k2

MCIds == 1..3
MCVersions == 1..3
MCChannels == {x, y}
MCWriteChannels == {x, ERROR}
MCWritesIdxMap == ERROR :> -1

Vals(a, b) == (x :> a) @@ (y :> b)

PutCall(t, id, parent, vals, nv, vers) ==
    [op |-> "put", t |-> t, id |-> id, parent |-> parent, values |-> vals,
     nv |-> nv, versions |-> vers]
WritesCall(t, id, task, ws) ==
    [op |-> "put_writes", t |-> t, id |-> id, task |-> task, ws |-> ws]
GetCall(t, id) == [op |-> "get", t |-> t, id |-> id]
DeleteCall(t) == [op |-> "delete", t |-> t]

\* checkpoint 1 of a thread: x has version 1 with value v, y has no version
Root(v) == (1 :> [versions |-> Vals(1, None), parent |-> None, values |-> Vals(v, None)])
           @@ [id \in MCIds |-> None]

EmptyStore == [t \in {t1, t2} |-> None]
OneThread == [EmptyStore EXCEPT ![t1] = Root(v1)]
TwoThreads == [OneThread EXCEPT ![t2] = Root(v2)]

(* Calls that overlap on the same thread and checkpoint where the code   *)
(* has no lock to rely on: a runner commits checkpoints 2 and 3 of t1      *)
(* while a reader fetches t1's latest checkpoint and then checkpoint 1,    *)
(* and two tasks stage writes on checkpoint 1, whose write dict neither    *)
(* they nor the reader find at first; an admin deletes t2 and starts it    *)
(* afresh (a write staged on t2 first), its key snapshots taken while    *)
(* t1's blobs and writes are being added.                                 *)
PassScript ==
    ("runner" :> << PutCall(t1, 2, 1, Vals(v2, None), << <<x, 2>>, <<y, 2>> >>, Vals(2, 2)),
                    PutCall(t1, 3, 2, Vals(v2, v1), << <<y, 3>> >>, Vals(2, 3)) >>)
 @@ ("task_a" :> << WritesCall(t1, 1, k1, << <<x, v1>>, <<ERROR, v1>> >>) >>)
 @@ ("task_b" :> << WritesCall(t1, 1, k2, << <<x, v2>> >>) >>)
 @@ ("reader" :> << GetCall(t1, None), GetCall(t1, 1) >>)
 @@ ("admin"  :> << WritesCall(t2, 1, k1, << <<x, v1>> >>), DeleteCall(t2),
                    PutCall(t2, 1, None, Vals(v1, None), << <<x, 1>> >>, Vals(1, None)) >>)

(* Two runs of task k1 stage their first write for checkpoint 1 at once. *)
WritesRaceScript ==
    ("task_a" :> << WritesCall(t1, 1, k1, << <<x, v1>> >>) >>)
 @@ ("task_b" :> << WritesCall(t1, 1, k1, << <<x, v2>> >>) >>)

=============================================================================
