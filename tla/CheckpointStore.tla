--------------------------- MODULE CheckpointStore ---------------------------
(***************************************************************************)
(* What the checkpoint saver promises the execution engine that drives it, *)
(* stated without blobs or versions: every committed checkpoint is stored  *)
(* with exactly the channel values it was committed with, "latest" is the  *)
(* greatest checkpoint id of a (thread, namespace), pending writes of an   *)
(* ordinal index keep their first value and those of a reserved channel    *)
(* their last, and deleting a thread forgets everything stored under it.   *)
(*                                                                         *)
(* The engine is a set of Runners.  A runner loads a checkpoint (the latest *)
(* or a given one), then commits successors of it one step at a time and  *)
(* stages task writes against the checkpoint it holds.                     *)
(***************************************************************************)
EXTENDS Naturals, Sequences, FiniteSets

CONSTANTS
    Threads,        \* thread ids
    Namespaces,     \* checkpoint namespaces ("" and sub-graph namespaces)
    Channels,       \* channel names of the graph
    Values,         \* channel / write values
    Tasks,          \* task ids
    Runners,        \* engine instances that call the saver
    WriteChannels,  \* channels a task may write to, reserved ones included
    WritesIdxMap,   \* reserved channel -> its fixed negative write index
    MaxWrites,      \* most (channel, value) pairs in one put_writes call
    MaxCheckpoints, \* checkpoint ids are 1..MaxCheckpoints
    None,           \* absent value, id, checkpoint or write
    DeleteWhileActive \* may a thread be deleted while a runner holds it?

ASSUME DOMAIN WritesIdxMap \subseteq WriteChannels
ASSUME \A c \in DOMAIN WritesIdxMap : WritesIdxMap[c] < 0
ASSUME MaxWrites \in Nat \ {0} /\ MaxCheckpoints \in Nat \ {0}

Ids == 1..MaxCheckpoints
ChannelValues == [Channels -> Values \cup {None}]
WriteIdx == {WritesIdxMap[c] : c \in DOMAIN WritesIdxMap} \cup 0..(MaxWrites - 1)
WriteKey == Tasks \X WriteIdx
WriteEntry == [channel : WriteChannels, value : Values]
WriteBuffer == [WriteKey -> WriteEntry \cup {None}]
NoWrites == [k \in WriteKey |-> None]
\* the (channel, value) sequences one put_writes call may carry
WriteBatches == UNION {[1..n -> WriteChannels \X Values] : n \in 1..MaxWrites}

\* the write index of the i-th pair of a batch: fixed for reserved channels
IdxOf(ws, i) == IF ws[i][1] \in DOMAIN WritesIdxMap
                THEN WritesIdxMap[ws[i][1]] ELSE i - 1

Idle == [st |-> "idle", t |-> None, ns |-> None, req |-> None, id |-> None,
         vals |-> [c \in Channels |-> None], pw |-> NoWrites]

VARIABLES
    ckpt,     \* ckpt[t][ns][id]: [values, parent] or None
    pending,  \* pending[t][ns][id]: the write buffer of that checkpoint
    runner,   \* runner[r]: what engine instance r holds in memory
    nextId    \* the id the next committed checkpoint gets

vars == <<ckpt, pending, runner, nextId>>

Stored(t, ns) == {id \in Ids : ckpt[t][ns][id] # None}

TypeOK ==
    /\ ckpt \in [Threads -> [Namespaces -> [Ids ->
            [values : ChannelValues, parent : Ids \cup {None}] \cup {None}]]]
    /\ pending \in [Threads -> [Namespaces -> [Ids -> WriteBuffer]]]
    /\ nextId \in 1..(MaxCheckpoints + 1)

Init ==
    /\ ckpt = [t \in Threads |-> [ns \in Namespaces |-> [id \in Ids |-> None]]]
    /\ pending = [t \in Threads |-> [ns \in Namespaces |-> [id \in Ids |-> NoWrites]]]
    /\ runner = [r \in Runners |-> Idle]
    /\ nextId = 1

\* Runner r resumes (t, ns) from checkpoint id, or from nothing if id = None.
Resume(r, t, ns, req, id) ==
    runner' = [runner EXCEPT ![r] =
        [st |-> "active", t |-> t, ns |-> ns, req |-> req, id |-> id,
         vals |-> IF id = None THEN [c \in Channels |-> None]
                  ELSE ckpt[t][ns][id].values,
         pw |-> IF id = None THEN NoWrites ELSE pending[t][ns][id]]]

\* get without a checkpoint id: the greatest id stored, if any
LoadLatest(r, t, ns) ==
    /\ runner[r].st = "idle"
    /\ Resume(r, t, ns, None, IF Stored(t, ns) = {} THEN None
                        ELSE CHOOSE id \in Stored(t, ns) :
                                 \A j \in Stored(t, ns) : j <= id)
    /\ UNCHANGED <<ckpt, pending, nextId>>

\* get with a checkpoint id that is stored
LoadAt(r, t, ns, id) ==
    /\ runner[r].st = "idle"
    /\ id \in Stored(t, ns)
    /\ Resume(r, t, ns, id, id)
    /\ UNCHANGED <<ckpt, pending, nextId>>

\* put: a new checkpoint with values vals, child of the one r holds
Commit(r, vals) ==
    LET t == runner[r].t  ns == runner[r].ns IN
    /\ runner[r].st = "active"
    /\ nextId <= MaxCheckpoints
    /\ ckpt' = [ckpt EXCEPT ![t][ns][nextId] =
                    [values |-> vals, parent |-> runner[r].id]]
    /\ runner' = [runner EXCEPT ![r].id = nextId, ![r].vals = vals,
                                ![r].pw = NoWrites]
    /\ nextId' = nextId + 1
    /\ UNCHANGED pending

\* put_writes: per key, an ordinal index keeps its first value, a reserved
\* one takes the last pair of the batch that maps to it
Staged(buf, task, ws) ==
    [k \in WriteKey |->
        LET I == {i \in DOMAIN ws : <<task, IdxOf(ws, i)>> = k} IN
        IF I = {} \/ (k[2] >= 0 /\ buf[k] # None) THEN buf[k]
        ELSE LET i == CHOOSE i \in I : \A j \in I : j <= i IN
             [channel |-> ws[i][1], value |-> ws[i][2]]]

StageWrites(r, task, ws) ==
    LET t == runner[r].t  ns == runner[r].ns  id == runner[r].id IN
    /\ runner[r].st = "active"
    /\ id # None
    /\ pending' = [pending EXCEPT ![t][ns][id] = Staged(@, task, ws)]
    /\ UNCHANGED <<ckpt, runner, nextId>>

Finish(r) ==
    /\ runner[r].st = "active"
    /\ runner' = [runner EXCEPT ![r] = Idle]
    /\ UNCHANGED <<ckpt, pending, nextId>>

\* delete_thread: nothing stored under t survives
DeleteThread(t) ==
    /\ DeleteWhileActive \/ \A r \in Runners : runner[r].t # t
    /\ ckpt' = [ckpt EXCEPT ![t] = [ns \in Namespaces |-> [id \in Ids |-> None]]]
    /\ pending' = [pending EXCEPT ![t] = [ns \in Namespaces |-> [id \in Ids |-> NoWrites]]]
    /\ UNCHANGED <<runner, nextId>>

Next ==
    \/ \E r \in Runners, t \in Threads, ns \in Namespaces :
          \/ LoadLatest(r, t, ns)
          \/ \E id \in Ids : LoadAt(r, t, ns, id)
    \/ \E r \in Runners :
          \/ \E vals \in ChannelValues : Commit(r, vals)
          \/ \E task \in Tasks, ws \in WriteBatches : StageWrites(r, task, ws)
          \/ Finish(r)
    \/ \E t \in Threads : DeleteThread(t)

Spec == Init /\ [][Next]_vars

=============================================================================
