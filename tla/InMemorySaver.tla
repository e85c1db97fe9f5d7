---------------------------- MODULE InMemorySaver ----------------------------
(***************************************************************************)
(* InMemorySaver (libs/checkpoint/langgraph/checkpoint/memory/__init__.py) *)
(* with each method executed atomically, as it is when the async facade    *)
(* forwards to it from one event loop: none of the methods awaits.         *)
(*                                                                         *)
(* The three tables of the saver:                                          *)
(*   storage[t][ns][id] : the stored checkpoint (its channel_versions and  *)
(*                        parent id) or None               (lines 66-69)   *)
(*   writes[t][ns][id]  : (task, idx) -> (task, channel, value) (71-74)    *)
(*   blobs[t][ns][c][v] : the value of channel c at version v, the "empty" *)
(*                        sentinel, or None for a missing key    (75-80)   *)
(* The engine calling the saver is a set of runners, each holding in       *)
(* memory the checkpoint it resumed from: its id, channel values and       *)
(* channel versions.  A commit bumps the version of every channel the step *)
(* updated (get_next_version) and passes exactly those as new_versions, as *)
(* the engine does; the other channels keep the versions, and so the       *)
(* blobs, of earlier checkpoints.                                          *)
(*                                                                         *)
(* Serialization (serde) is an external codec assumed to round-trip, so a  *)
(* blob holds the value itself.  Metadata, task_path and the order of the  *)
(* pending-writes list are not modelled: no property here is about them.   *)
(***************************************************************************)
EXTENDS Naturals, Sequences, FiniteSets, SequencesExt

CONSTANTS
    Threads, Namespaces, Channels, Values, Tasks, Runners,
    WriteChannels, WritesIdxMap, MaxWrites, MaxCheckpoints,
    None,
    Empty,            \* the ("empty", b"") blob of a channel with no value
    DeleteWhileActive

ASSUME DOMAIN WritesIdxMap \subseteq WriteChannels
ASSUME \A c \in DOMAIN WritesIdxMap : WritesIdxMap[c] < 0
ASSUME MaxWrites \in Nat \ {0} /\ MaxCheckpoints \in Nat \ {0}

Ids == 1..MaxCheckpoints
\* A channel version "<prefix>.<random>" as <<prefix, random>>.  The random
\* part is abstracted by the id of the checkpoint being built: distinct for
\* distinct commits (random.random() collisions are neglected).
Versions == (1..MaxCheckpoints) \X Ids
ChannelVersions == [Channels -> Versions \cup {None}]
ChannelValues == [Channels -> Values \cup {None}]
WriteIdx == {WritesIdxMap[c] : c \in DOMAIN WritesIdxMap} \cup 0..(MaxWrites - 1)
WriteKey == Tasks \X WriteIdx
WriteTuple == [task : Tasks, channel : WriteChannels, value : Values]
WriteBuffer == [WriteKey -> WriteTuple \cup {None}]
NoWrites == [k \in WriteKey |-> None]
WriteBatches == UNION {[1..n -> WriteChannels \X Values] : n \in 1..MaxWrites}
Saved == [versions : ChannelVersions, parent : Ids \cup {None}]

Idle == [st |-> "idle", t |-> None, ns |-> None, req |-> None, id |-> None,
         vals |-> [c \in Channels |-> None], vers |-> [c \in Channels |-> None],
         pw |-> NoWrites]

VARIABLES storage, writes, blobs, runner, nextId

vars == <<storage, writes, blobs, runner, nextId>>

Stored(t, ns) == {id \in Ids : storage[t][ns][id] # None}

TypeOK ==
    /\ storage \in [Threads -> [Namespaces -> [Ids -> Saved \cup {None}]]]
    /\ writes \in [Threads -> [Namespaces -> [Ids -> WriteBuffer]]]
    /\ blobs \in [Threads -> [Namespaces -> [Channels ->
                    [Versions -> Values \cup {Empty, None}]]]]
    /\ nextId \in 1..(MaxCheckpoints + 1)

Init ==
    /\ storage = [t \in Threads |-> [ns \in Namespaces |-> [id \in Ids |-> None]]]
    /\ writes = [t \in Threads |-> [ns \in Namespaces |-> [id \in Ids |-> NoWrites]]]
    /\ blobs = [t \in Threads |-> [ns \in Namespaces |-> [c \in Channels |->
                    [v \in Versions |-> None]]]]
    /\ runner = [r \in Runners |-> Idle]
    /\ nextId = 1

(* _load_blobs: resolve each versioned channel in the blob table; a missing *)
(* key and the empty sentinel both leave the channel out.                   *)
LoadBlobs(t, ns, versions) ==
    [c \in Channels |->
        IF versions[c] = None THEN None
        ELSE IF blobs[t][ns][c][versions[c]] \in {None, Empty} THEN None
        ELSE blobs[t][ns][c][versions[c]]]

(* mutant: the prefix bumped by two instead of one *)
NextVersionSkip(current, h) ==
    <<(IF current = None THEN 0 ELSE current[1]) + 2, h>>

(* get_next_version: integer prefix of current (0 if absent) plus one, and  *)
(* a fresh random part h.                                                   *)
NextVersion(current, h) ==
    <<(IF current = None THEN 0 ELSE current[1]) + 1, h>>

(* the part of get_tuple after the checkpoint id is known: the engine keeps *)
(* its channel values, versions and pending writes                          *)
Resume(r, t, ns, req, id) ==
    runner' = [runner EXCEPT ![r] =
        [st |-> "active", t |-> t, ns |-> ns, req |-> req, id |-> id,
         vals |-> IF id = None THEN [c \in Channels |-> None]
                  ELSE LoadBlobs(t, ns, storage[t][ns][id].versions),
         vers |-> IF id = None THEN [c \in Channels |-> None]
                  ELSE storage[t][ns][id].versions,
         pw |-> IF id = None THEN NoWrites ELSE writes[t][ns][id]]]

(* mutant: the first id inserted instead of max(checkpoints.keys()) *)
LatestOldest(t, ns) ==
    IF Stored(t, ns) = {} THEN None
    ELSE CHOOSE id \in Stored(t, ns) : \A j \in Stored(t, ns) : id <= j

(* max(checkpoints.keys()) of (t, ns), or None when it holds none *)
Latest(t, ns) ==
    IF Stored(t, ns) = {} THEN None
    ELSE CHOOSE id \in Stored(t, ns) : \A j \in Stored(t, ns) : j <= id

(* get_tuple without checkpoint_id: the latest of (t, ns); None when there *)
(* is none, and the engine starts the thread from scratch.                 *)
LoadLatest(r, t, ns) ==
    /\ runner[r].st = "idle"
    /\ Resume(r, t, ns, None, Latest(t, ns))
    /\ UNCHANGED <<storage, writes, blobs, nextId>>

(* get_tuple with a checkpoint_id that is stored (time travel / fork) *)
LoadAt(r, t, ns, id) ==
    /\ runner[r].st = "idle"
    /\ id \in Stored(t, ns)
    /\ Resume(r, t, ns, id, id)
    /\ UNCHANGED <<storage, writes, blobs, nextId>>

(* mutant: no empty sentinel; a channel missing from channel_values gets  *)
(* no blob at its new version                                              *)
StoreBlobNoSentinel(vs, ver, v) ==
    IF v # None THEN [vs EXCEPT ![ver] = v] ELSE vs

(* one put of a blob: the channel's value, or Empty if it has none *)
StoreBlob(vs, ver, v) ==
    [vs EXCEPT ![ver] = IF v # None THEN v ELSE Empty]

(* The engine's step updated the channels in U to vals and calls put with   *)
(* new_versions = the bumped versions of U.  put stores a blob per new      *)
(* version (the value, or Empty if the channel has none), then the          *)
(* checkpoint with its parent = the id of the config it was called with.    *)
Commit(r, U, vals) ==
    LET cur == runner[r]
        t == cur.t
        ns == cur.ns
        newVersions == [c \in U |-> NextVersion(cur.vers[c], nextId)]
        vers == [c \in Channels |-> IF c \in U THEN newVersions[c] ELSE cur.vers[c]]
    IN
    /\ cur.st = "active"
    /\ nextId <= MaxCheckpoints
    /\ \A c \in Channels \ U : vals[c] = cur.vals[c]
    /\ blobs' = [blobs EXCEPT ![t][ns] =
                   [c \in Channels |->
                      IF c \in U THEN StoreBlob(@[c], newVersions[c], vals[c])
                      ELSE @[c]]]
    /\ storage' = [storage EXCEPT ![t][ns][nextId] =
                     [versions |-> vers, parent |-> cur.id]]
    /\ runner' = [runner EXCEPT ![r].id = nextId, ![r].vals = vals,
                                ![r].vers = vers, ![r].pw = NoWrites]
    /\ nextId' = nextId + 1
    /\ UNCHANGED writes

(* one iteration of the put_writes loop: the key is (task, WRITES_IDX_MAP   *)
(* index of the channel, or the position); an ordinal key already present   *)
(* is skipped, anything else is (over)written                               *)
WriteIdxOf(ws, i) == IF ws[i][1] \in DOMAIN WritesIdxMap
                     THEN WritesIdxMap[ws[i][1]] ELSE i - 1

(* mutant: an ordinal key already present is overwritten *)
PutWriteNoDedup(buf, task, ws, i) ==
    LET key == <<task, WriteIdxOf(ws, i)>> IN
    [buf EXCEPT ![key] = [task |-> task, channel |-> ws[i][1], value |-> ws[i][2]]]

PutWrite(buf, task, ws, i) ==
    LET key == <<task, WriteIdxOf(ws, i)>> IN
    IF key[2] >= 0 /\ buf[key] # None THEN buf
    ELSE [buf EXCEPT ![key] = [task |-> task, channel |-> ws[i][1], value |-> ws[i][2]]]

PutWrites(buf, task, ws) ==
    FoldLeftDomain(LAMBDA b, i : PutWrite(b, task, ws, i), buf, ws)

StageWrites(r, task, ws) ==
    LET t == runner[r].t  ns == runner[r].ns  id == runner[r].id IN
    /\ runner[r].st = "active"
    /\ id # None
    /\ writes' = [writes EXCEPT ![t][ns][id] = PutWrites(@, task, ws)]
    /\ UNCHANGED <<storage, blobs, runner, nextId>>

Finish(r) ==
    /\ runner[r].st = "active"
    /\ runner' = [runner EXCEPT ![r] = Idle]
    /\ UNCHANGED <<storage, writes, blobs, nextId>>

(* mutant: the blob sweep is left out *)
SweepBlobsSkipped(t) == blobs

(* the loop over list(self.blobs.keys()) deleting the keys of thread t *)
SweepBlobs(t) ==
    [blobs EXCEPT ![t] = [ns \in Namespaces |-> [c \in Channels |->
        [v \in Versions |-> None]]]]

(* delete_thread: the thread's storage entry, then every writes key and    *)
(* every blob key whose first component is t                               *)
DeleteThread(t) ==
    /\ DeleteWhileActive \/ \A r \in Runners : runner[r].t # t
    /\ storage' = [storage EXCEPT ![t] = [ns \in Namespaces |-> [id \in Ids |-> None]]]
    /\ writes' = [writes EXCEPT ![t] = [ns \in Namespaces |-> [id \in Ids |-> NoWrites]]]
    /\ blobs' = SweepBlobs(t)
    /\ UNCHANGED <<runner, nextId>>

Next ==
    \/ \E r \in Runners, t \in Threads, ns \in Namespaces :
          \/ LoadLatest(r, t, ns)
          \/ \E id \in Ids : LoadAt(r, t, ns, id)
    \/ \E r \in Runners :
          \/ \E U \in SUBSET Channels, vals \in ChannelValues : Commit(r, U, vals)
          \/ \E task \in Tasks, ws \in WriteBatches : StageWrites(r, task, ws)
          \/ Finish(r)
    \/ \E t \in Threads : DeleteThread(t)

Spec == Init /\ [][Next]_vars

-----------------------------------------------------------------------------
(***************************************************************************)
(* Properties.                                                             *)
(***************************************************************************)

(* Every channel version a stored checkpoint references resolves to a blob  *)
(* (a value or the empty sentinel) of the same thread and namespace.  put   *)
(* writes blobs only for new_versions, so this rests on the blobs of the    *)
(* unchanged channels, written by earlier puts, still being there;          *)
(* _load_blobs would silently drop a channel whose blob is missing.         *)
VersionsResolve ==
    \A t \in Threads, ns \in Namespaces, id \in Ids, c \in Channels :
        storage[t][ns][id] # None /\ storage[t][ns][id].versions[c] # None
            => blobs[t][ns][c][storage[t][ns][id].versions[c]] # None

(* Nothing outlives its checkpoint: every blob and every pending write is  *)
(* keyed under a (thread, namespace) and checkpoint that is stored.  Blobs  *)
(* and writes are only ever removed by delete_thread, so this needs its     *)
(* three sweeps to cover all of the thread's keys, and put and put_writes   *)
(* never to write under a thread that is gone.                              *)
NoOrphans ==
    /\ \A t \in Threads, ns \in Namespaces, c \in Channels, v \in Versions :
          blobs[t][ns][c][v] # None =>
             \E id \in Stored(t, ns) : storage[t][ns][id].versions[c] = v
    /\ \A t \in Threads, ns \in Namespaces, id \in Ids :
          writes[t][ns][id] # NoWrites => storage[t][ns][id] # None

(* The saver implements CheckpointStore: what get_tuple reconstructs from   *)
(* the checkpoint table and the blob table is exactly the values each       *)
(* checkpoint was committed with (round trip, with blobs shared between     *)
(* checkpoints by version), latest is the greatest id, put_writes keeps the *)
(* first value of an ordinal key and the last of a reserved one, and        *)
(* delete_thread forgets the thread.                                        *)
WriteEntries(buf) ==
    [k \in WriteKey |-> IF buf[k] = None THEN None
                        ELSE [channel |-> buf[k].channel, value |-> buf[k].value]]

Store == INSTANCE CheckpointStore WITH
    ckpt <- [t \in Threads |-> [ns \in Namespaces |-> [id \in Ids |->
                IF storage[t][ns][id] = None THEN None
                ELSE [values |-> LoadBlobs(t, ns, storage[t][ns][id].versions),
                      parent |-> storage[t][ns][id].parent]]]],
    pending <- [t \in Threads |-> [ns \in Namespaces |-> [id \in Ids |->
                WriteEntries(writes[t][ns][id])]]],
    runner <- [r \in Runners |->
                [st |-> runner[r].st, t |-> runner[r].t, ns |-> runner[r].ns,
                 req |-> runner[r].req,
                 id |-> runner[r].id, vals |-> runner[r].vals,
                 pw |-> WriteEntries(runner[r].pw)]]

StoreSpec == Store!Spec

=============================================================================
