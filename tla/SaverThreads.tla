---------------------------- MODULE SaverThreads ----------------------------
(***************************************************************************)
(* InMemorySaver called from several Python threads at once, as the        *)
(* synchronous engine does through its executor and as any host that       *)
(* shares one saver between threads does.  No method takes a lock, so each *)
(* method is split into the steps between which the interpreter may switch *)
(* threads: one step per access to a shared dict (a single dict read,      *)
(* write, membership test or key snapshot is atomic under the GIL).  A     *)
(* Python-level callback splits an access in two: the lambda that          *)
(* self.storage's defaultdict calls for a missing thread runs between the  *)
(* failed lookup and the store of the new inner dict.                      *)
(*                                                                         *)
(* Dict identity matters: a method that fetched self.storage[t] or         *)
(* self.writes[k] keeps using that object after another thread replaced or *)
(* deleted the entry.  Inner dicts are therefore objects, numbered by      *)
(* their position in tdict / wdict, and the tables map keys to objects.    *)
(*                                                                         *)
(* Each process runs a fixed script of calls (Script[p]); TLC explores     *)
(* every interleaving of the scripts.  One namespace: the races are per    *)
(* thread and per checkpoint, and checkpoint_ns only lengthens the keys.   *)
(***************************************************************************)
EXTENDS Integers, Sequences, FiniteSets, TLC

CONSTANTS
    Threads,        \* thread ids
    Ids,            \* checkpoint ids, ordered as the id strings are
    Channels,       \* channel names
    Versions,       \* channel versions
    Values,         \* channel and write values
    Tasks,          \* task ids
    WriteChannels,  \* channels a task may write to, reserved ones included
    WritesIdxMap,   \* reserved channel -> its fixed negative write index
    MaxWrites,      \* most pairs in one put_writes call
    None,           \* absent entry / Python None
    Empty,          \* the ("empty", b"") blob of a channel without a value
    Script,         \* Script[p]: the calls process p makes, in order
    Preloaded       \* Preloaded[t][id]: a checkpoint stored before the run

Procs == DOMAIN Script

ChannelValues == [Channels -> Values \cup {None}]
Saved == [versions : [Channels -> Versions \cup {None}], parent : Ids \cup {None}]
BlobKey == Threads \X Channels \X Versions
WriteIdx == {WritesIdxMap[c] : c \in DOMAIN WritesIdxMap} \cup 0..(MaxWrites - 1)
WriteKey == Tasks \X WriteIdx
NoWrites == [k \in WriteKey |-> None]
ThreadDict == [Ids -> Saved \cup {None}]
NoCheckpoints == [id \in Ids |-> None]

VARIABLES
    tobj,       \* tobj[t]: the inner dict object at self.storage[t], or None
    tdict,      \* tdict[o]: contents of inner dict object o (id -> saved)
    wobj,       \* wobj[<<t, id>>]: the dict object at self.writes[...]
    wdict,      \* wdict[o]: contents of write dict object o
    blobs,      \* blobs[<<t, c, v>>]: self.blobs, None if the key is absent
    ps,         \* ps[p]: program counter and locals of process p
    committed,  \* history: committed[<<t, id>>] the values a put stored
    returned,   \* history: the puts that returned, with delCount at start
    delCount,   \* history: delete_thread calls begun per thread
    reads       \* history: what each get_tuple returned

vars == <<tobj, tdict, wobj, wdict, blobs, ps, committed, returned,
          delCount, reads>>

Call(p) == Script[p][ps[p].ci]

\* first program counter of a call
Entry(call) ==
    CASE call.op = "put"        -> IF call.nv = <<>> THEN "put_fetch" ELSE "put_blob"
      [] call.op = "put_writes" -> "pw_get"
      [] call.op = "get"        -> "get_fetch"
      [] call.op = "delete"     -> "del_in"

\* locals of process p about to start its i-th call
Frame(p, i) ==
    [ci |-> i, pc |-> IF i <= Len(Script[p]) THEN Entry(Script[p][i]) ELSE "done",
     j |-> 1, o |-> None, w |-> None, keys |-> {}, saved |-> None,
     acc |-> [c \in Channels |-> None], n0 |-> None,
     dc |-> IF i <= Len(Script[p]) THEN delCount[Script[p][i].t] ELSE 0]

PreThreads == {t \in Threads : Preloaded[t] # None}
ObjOf == CHOOSE f \in [PreThreads -> 1..Cardinality(PreThreads)] :
             \A a, b \in PreThreads : f[a] = f[b] => a = b
PreSaved(t, id) == [versions |-> Preloaded[t][id].versions,
                    parent |-> Preloaded[t][id].parent]
\* the blob a stored checkpoint left for key k, if any
PreBlob(k) ==
    LET holders == {id \in Ids : k[1] \in PreThreads /\ Preloaded[k[1]][id] # None
                                 /\ Preloaded[k[1]][id].versions[k[2]] = k[3]}
    IN IF holders = {} THEN None
       ELSE LET v == Preloaded[k[1]][CHOOSE id \in holders : TRUE].values[k[2]]
            IN IF v = None THEN Empty ELSE v

Init ==
    /\ tobj = [t \in Threads |-> IF t \in PreThreads THEN ObjOf[t] ELSE None]
    /\ tdict = [n \in 1..Cardinality(PreThreads) |->
                  LET t == CHOOSE t \in PreThreads : ObjOf[t] = n IN
                  [id \in Ids |-> IF Preloaded[t][id] = None THEN None
                                  ELSE PreSaved(t, id)]]
    /\ wobj = [k \in Threads \X Ids |-> None]
    /\ wdict = <<>>
    /\ blobs = [k \in BlobKey |-> PreBlob(k)]
    /\ delCount = [t \in Threads |-> 0]
    /\ ps = [p \in Procs |-> Frame(p, 1)]
    /\ committed = [k \in Threads \X Ids |->
                      IF k[1] \in PreThreads /\ Preloaded[k[1]][k[2]] # None
                      THEN Preloaded[k[1]][k[2]].values ELSE None]
    /\ returned = {}
    /\ reads = {}

At(p, label) == ps[p].pc = label

\* the method returns; the process makes its next call
Return(p) == ps' = [ps EXCEPT ![p] = Frame(p, ps[p].ci + 1)]

\* an exception propagates out of the method and ends the process
Raise(p) == ps' = [ps EXCEPT ![p].pc = "raised"]

Goto(p, label) == ps' = [ps EXCEPT ![p].pc = label]

-----------------------------------------------------------------------------
(* put (lines 323-367) *)

\* serde.dumps_typed(values[k]) if k in values else ("empty", b"")
BlobOf(v) == IF v # None THEN v ELSE Empty

\* self.blobs[(thread_id, checkpoint_ns, k, v)] = the blob of values[k]
PutBlob(p) ==
    LET c == Call(p)  kv == c.nv[ps[p].j] IN
    /\ At(p, "put_blob")
    /\ blobs' = [blobs EXCEPT ![<<c.t, kv[1], kv[2]>>] = BlobOf(c.values[kv[1]])]
    /\ ps' = [ps EXCEPT ![p].j = @ + 1,
                        ![p].pc = IF ps[p].j < Len(c.nv) THEN "put_blob" ELSE "put_fetch"]
    /\ UNCHANGED <<tobj, tdict, wobj, wdict, committed, returned, delCount, reads>>

\* mutant: put always installs a fresh inner dict for the thread
PutFetchAlwaysNew(p) ==
    /\ At(p, "put_fetch")
    /\ Goto(p, "put_factory")
    /\ UNCHANGED <<tobj, tdict, wobj, wdict, blobs, committed, returned, delCount, reads>>

\* self.storage[thread_id]: found, or missing and the default factory runs
PutFetch(p) ==
    LET t == Call(p).t IN
    /\ At(p, "put_fetch")
    /\ IF tobj[t] # None
       THEN ps' = [ps EXCEPT ![p].o = tobj[t], ![p].pc = "put_update"]
       ELSE Goto(p, "put_factory")
    /\ UNCHANGED <<tobj, tdict, wobj, wdict, blobs, committed, returned, delCount, reads>>

\* defaultdict.__missing__ after the lambda returned: store the new inner
\* dict, overwriting whatever another thread stored meanwhile (put or get)
StorageMissing(p) ==
    LET n == Len(tdict) + 1 IN
    /\ ps[p].pc \in {"put_factory", "get_factory"}
    /\ tdict' = Append(tdict, NoCheckpoints)
    /\ tobj' = [tobj EXCEPT ![Call(p).t] = n]
    /\ ps' = [ps EXCEPT ![p].o = n,
                        ![p].pc = IF @ = "put_factory" THEN "put_update" ELSE "get_read"]
    /\ UNCHANGED <<wobj, wdict, blobs, committed, returned, delCount, reads>>

\* [checkpoint_ns].update({id: (checkpoint, metadata, parent)}) on the inner
\* dict fetched before the checkpoint was serialized; then return
PutUpdate(p) ==
    LET c == Call(p) IN
    /\ At(p, "put_update")
    /\ tdict' = [tdict EXCEPT ![ps[p].o][c.id] =
                    [versions |-> c.versions, parent |-> c.parent]]
    /\ committed' = [committed EXCEPT ![<<c.t, c.id>>] = c.values]
    /\ returned' = returned \cup {[t |-> c.t, id |-> c.id, dc |-> ps[p].dc]}
    /\ Return(p)
    /\ UNCHANGED <<tobj, wobj, wdict, blobs, delCount, reads>>

-----------------------------------------------------------------------------
(* put_writes (lines 369-405) *)

\* the inner key of the i-th pair: WRITES_IDX_MAP.get(c, idx)
WriteIdxOf(ws, i) == IF ws[i][1] \in DOMAIN WritesIdxMap
                     THEN WritesIdxMap[ws[i][1]] ELSE i - 1

\* outer_writes_ = self.writes.get(outer_key)
PwGet(p) ==
    LET c == Call(p) IN
    /\ At(p, "pw_get")
    /\ ps' = [ps EXCEPT ![p].w = wobj[<<c.t, c.id>>], ![p].pc = "pw_check"]
    /\ UNCHANGED <<tobj, tdict, wobj, wdict, blobs, committed, returned, delCount, reads>>

\* after pair j: the next pair, or return
NextPair(p) ==
    IF ps[p].j < Len(Call(p).ws)
    THEN ps' = [ps EXCEPT ![p].j = @ + 1, ![p].pc = "pw_check"]
    ELSE Return(p)

\* an ordinal key already in the dict fetched at the start is kept
Dedup(p, key) ==
    /\ key[2] >= 0
    /\ ps[p].w # None
    /\ wdict[ps[p].w] # NoWrites
    /\ wdict[ps[p].w][key] # None

\* if inner_key[1] >= 0 and outer_writes_ and inner_key in outer_writes_
PwCheck(p) ==
    LET c == Call(p)  key == <<c.task, WriteIdxOf(c.ws, ps[p].j)>> IN
    /\ At(p, "pw_check")
    /\ IF Dedup(p, key) THEN NextPair(p) ELSE Goto(p, "pw_store")
    /\ UNCHANGED <<tobj, tdict, wobj, wdict, blobs, committed, returned, delCount, reads>>

\* mutant: the store goes to the dict fetched as outer_writes_, creating a
\* new one for the key when that was None
WritesAtFetched(p, k) == ps[p].w

\* self.writes[outer_key]: looked up afresh at the store
WritesAt(p, k) == wobj[k]

\* self.writes[outer_key][inner_key] = (...): a fresh lookup, creating the
\* dict if the key is missing (dict() is C code: no switch inside)
PwStore(p) ==
    LET c == Call(p)  k == <<c.t, c.id>>  o == WritesAt(p, k)
        key == <<c.task, WriteIdxOf(c.ws, ps[p].j)>>
        entry == [channel |-> c.ws[ps[p].j][1], value |-> c.ws[ps[p].j][2]]
    IN
    /\ At(p, "pw_store")
    /\ IF o # None
       THEN /\ wdict' = [wdict EXCEPT ![o][key] = entry]
            /\ UNCHANGED wobj
       ELSE /\ wdict' = Append(wdict, [NoWrites EXCEPT ![key] = entry])
            /\ wobj' = [wobj EXCEPT ![k] = Len(wdict) + 1]
    /\ NextPair(p)
    /\ UNCHANGED <<tobj, tdict, blobs, committed, returned, delCount, reads>>

-----------------------------------------------------------------------------
(* get_tuple (lines 132-212) with _load_blobs (lines 120-130) *)

\* self.storage[thread_id]: found, or missing and the default factory runs
GetFetch(p) ==
    LET t == Call(p).t IN
    /\ At(p, "get_fetch")
    /\ IF tobj[t] # None
       THEN ps' = [ps EXCEPT ![p].o = tobj[t], ![p].pc = "get_read"]
       ELSE Goto(p, "get_factory")
    /\ UNCHANGED <<tobj, tdict, wobj, wdict, blobs, committed, returned, delCount, reads>>

\* the requested checkpoint of the fetched inner dict: .get(checkpoint_id),
\* or max(checkpoints.keys()) when no id is given
Requested(p) ==
    LET d == tdict[ps[p].o]  id == Call(p).id
        stored == {i \in Ids : d[i] # None}
    IN IF id # None THEN (IF d[id] # None THEN id ELSE None)
       ELSE IF stored = {} THEN None
       ELSE CHOOSE i \in stored : \A i2 \in stored : i2 <= i

\* no such checkpoint: return None; else unpack the saved tuple
GetRead(p) ==
    LET id == Requested(p) IN
    /\ At(p, "get_read")
    /\ IF id = None
       THEN Return(p)
       ELSE ps' = [ps EXCEPT ![p].saved = [id |-> id,
                                           versions |-> tdict[ps[p].o][id].versions],
                             ![p].pc = "get_wview"]
    /\ UNCHANGED <<tobj, tdict, wobj, wdict, blobs, committed, returned, delCount, reads>>

\* writes = self.writes[(thread_id, checkpoint_ns, checkpoint_id)].values():
\* a view of the write dict, created empty when there is none
GetWView(p) ==
    LET k == <<Call(p).t, ps[p].saved.id>>
        keys == {c \in Channels : ps[p].saved.versions[c] # None}
    IN
    /\ At(p, "get_wview")
    /\ IF wobj[k] # None
       THEN UNCHANGED <<wobj, wdict>>
       ELSE /\ wdict' = Append(wdict, NoWrites)
            /\ wobj' = [wobj EXCEPT ![k] = Len(wdict) + 1]
    /\ ps' = [ps EXCEPT ![p].w = IF wobj[k] # None THEN wobj[k] ELSE Len(wdict) + 1,
                        ![p].keys = keys, ![p].j = 0,
                        ![p].pc = IF keys = {} THEN "get_witer" ELSE "get_blob_in"]
    /\ UNCHANGED <<tobj, tdict, blobs, committed, returned, delCount, reads>>

\* the channel _load_blobs is at (dict order: some fixed order)
Channel(p) == CHOOSE c \in ps[p].keys : TRUE
BlobAt(p) == <<Call(p).t, Channel(p), ps[p].saved.versions[Channel(p)]>>
AfterBlob(p) == IF ps[p].keys = {Channel(p)} THEN "get_witer" ELSE "get_blob_in"

\* if kk in self.blobs
GetBlobIn(p) ==
    /\ At(p, "get_blob_in")
    /\ IF blobs[BlobAt(p)] # None
       THEN Goto(p, "get_blob_get")
       ELSE ps' = [ps EXCEPT ![p].keys = @ \ {Channel(p)}, ![p].pc = AfterBlob(p)]
    /\ UNCHANGED <<tobj, tdict, wobj, wdict, blobs, committed, returned, delCount, reads>>

\* mutant: the empty sentinel is returned as if it were a value
LoadedKeepEmpty(vv) == vv

\* if vv[0] != "empty": channel_values[k] = loads_typed(vv)
Loaded(vv) == IF vv = Empty THEN None ELSE vv

\* vv = self.blobs[kk] (KeyError if deleted since the test); the empty
\* sentinel leaves the channel out
GetBlobGet(p) ==
    LET vv == blobs[BlobAt(p)] IN
    /\ At(p, "get_blob_get")
    /\ IF vv = None
       THEN Raise(p)
       ELSE ps' = [ps EXCEPT ![p].acc[Channel(p)] = Loaded(vv),
                             ![p].keys = @ \ {Channel(p)}, ![p].pc = AfterBlob(p)]
    /\ UNCHANGED <<tobj, tdict, wobj, wdict, blobs, committed, returned, delCount, reads>>

\* one next() of the pending_writes comprehension over the writes view:
\* RuntimeError if the dict changed size since iteration began; at the end
\* the tuple is returned
GetWrites(p) ==
    LET size == Cardinality({key \in WriteKey : wdict[ps[p].w][key] # None})
        n == IF ps[p].n0 = None THEN size ELSE ps[p].n0
        s == ps[p].saved
    IN
    /\ At(p, "get_witer")
    /\ IF size # n
       THEN /\ Raise(p)
            /\ UNCHANGED reads
       ELSE IF ps[p].j >= n
       THEN /\ reads' = reads \cup {[t |-> Call(p).t, id |-> s.id, values |-> ps[p].acc]}
            /\ Return(p)
       ELSE /\ ps' = [ps EXCEPT ![p].j = @ + 1, ![p].n0 = n]
            /\ UNCHANGED reads
    /\ UNCHANGED <<tobj, tdict, wobj, wdict, blobs, committed, returned, delCount>>

-----------------------------------------------------------------------------
(* delete_thread (lines 407-423) *)

\* thread_id in self.storage
InStorage(t) == tobj[t] # None

\* if thread_id in self.storage
DelIn(p) ==
    LET t == Call(p).t IN
    /\ At(p, "del_in")
    /\ delCount' = [delCount EXCEPT ![t] = @ + 1]
    /\ Goto(p, IF InStorage(t) THEN "del_storage" ELSE "del_wkeys")
    /\ UNCHANGED <<tobj, tdict, wobj, wdict, blobs, committed, returned, reads>>

\* del self.storage[thread_id] (KeyError if another thread deleted it)
DelStorage(p) ==
    LET t == Call(p).t IN
    /\ At(p, "del_storage")
    /\ IF tobj[t] = None
       THEN /\ Raise(p)
            /\ UNCHANGED tobj
       ELSE /\ tobj' = [tobj EXCEPT ![t] = None]
            /\ Goto(p, "del_wkeys")
    /\ UNCHANGED <<tdict, wobj, wdict, blobs, committed, returned, delCount, reads>>

\* mutant: the sweep keeps every key, whatever its thread
OfThreadAny(k, t) == TRUE

\* if k[0] == thread_id
OfThread(k, t) == k[1] = t

\* list(self.writes.keys()), keeping the keys of the thread
DelWKeys(p) ==
    LET keys == {k \in DOMAIN wobj : wobj[k] # None /\ OfThread(k, Call(p).t)} IN
    /\ At(p, "del_wkeys")
    /\ ps' = [ps EXCEPT ![p].keys = keys,
                        ![p].pc = IF keys = {} THEN "del_bkeys" ELSE "del_w"]
    /\ UNCHANGED <<tobj, tdict, wobj, wdict, blobs, committed, returned, delCount, reads>>

\* del self.writes[k] for the next listed key (KeyError if already gone)
DelW(p) ==
    LET k == CHOOSE k \in ps[p].keys : TRUE IN
    /\ At(p, "del_w")
    /\ IF wobj[k] = None
       THEN /\ Raise(p)
            /\ UNCHANGED wobj
       ELSE /\ wobj' = [wobj EXCEPT ![k] = None]
            /\ ps' = [ps EXCEPT ![p].keys = @ \ {k},
                                ![p].pc = IF ps[p].keys = {k} THEN "del_bkeys" ELSE "del_w"]
    /\ UNCHANGED <<tobj, tdict, wdict, blobs, committed, returned, delCount, reads>>

\* list(self.blobs.keys()), keeping the keys of the thread
DelBKeys(p) ==
    LET keys == {k \in BlobKey : blobs[k] # None /\ OfThread(k, Call(p).t)} IN
    /\ At(p, "del_bkeys")
    /\ IF keys = {}
       THEN Return(p)
       ELSE ps' = [ps EXCEPT ![p].keys = keys, ![p].pc = "del_b"]
    /\ UNCHANGED <<tobj, tdict, wobj, wdict, blobs, committed, returned, delCount, reads>>

\* del self.blobs[k] for the next listed key (KeyError if already gone)
DelB(p) ==
    LET k == CHOOSE k \in ps[p].keys : TRUE IN
    /\ At(p, "del_b")
    /\ IF blobs[k] = None
       THEN /\ Raise(p)
            /\ UNCHANGED blobs
       ELSE /\ blobs' = [blobs EXCEPT ![k] = None]
            /\ IF ps[p].keys = {k}
               THEN Return(p)
               ELSE ps' = [ps EXCEPT ![p].keys = @ \ {k}]
    /\ UNCHANGED <<tobj, tdict, wobj, wdict, committed, returned, delCount, reads>>

-----------------------------------------------------------------------------

\* every script has run to its end or raised
Terminated ==
    /\ \A p \in Procs : ps[p].pc \in {"done", "raised"}
    /\ UNCHANGED vars

Next ==
    \/ \E p \in Procs :
          \/ PutBlob(p) \/ PutFetch(p) \/ StorageMissing(p) \/ PutUpdate(p)
          \/ PwGet(p) \/ PwCheck(p) \/ PwStore(p)
          \/ GetFetch(p) \/ GetRead(p) \/ GetWView(p)
          \/ GetBlobIn(p) \/ GetBlobGet(p)
          \/ GetWrites(p)
          \/ DelIn(p) \/ DelStorage(p) \/ DelWKeys(p) \/ DelW(p)
          \/ DelBKeys(p) \/ DelB(p)
    \/ Terminated

Spec == Init /\ [][Next]_vars

-----------------------------------------------------------------------------

Stored(t, id) == tobj[t] # None /\ tdict[tobj[t]][id] # None

(* Every version recorded by a checkpoint that storage holds resolves to a *)
(* blob while puts on one thread run beside a delete_thread of another:    *)
(* put writes the blobs before the checkpoint pointer, and the sweep of    *)
(* delete_thread removes only the keys of its own thread, taken from a     *)
(* snapshot that may already hold blobs of the other thread's puts.  (A    *)
(* sweep of the same thread as a put in flight breaks this; see README.)   *)
VersionsResolve ==
    \A t \in Threads, id \in Ids :
        Stored(t, id) =>
            \A c \in Channels :
                LET v == tdict[tobj[t]][id].versions[c] IN
                v # None => blobs[<<t, c, v>>] # None

(* A checkpoint whose put returned is still stored, unless a delete_thread *)
(* of its thread began after the put did: a later put on the same thread,  *)
(* reads and put_writes of that thread, and a delete and restart of another *)
(* thread must not lose it.  (Two calls finding one thread missing at once *)
(* make the factory of self.storage overwrite its dict; see README.)       *)
PutDurable ==
    \A r \in returned : delCount[r.t] = r.dc => Stored(r.t, r.id)

(* get_tuple returns a checkpoint with exactly the values it was put with, *)
(* also when it reads the latest checkpoint while a put on the same thread *)
(* is storing blobs and then the checkpoint, and resolves versions that    *)
(* an earlier put wrote.                                                   *)
ReadsCommitted ==
    \A r \in reads : r.values = committed[<<r.t, r.id>>]

(* A write, once in the dict at self.writes[(thread, ns, id)], stays in    *)
(* the dict at that key while the key lives: two tasks and a get_tuple may *)
(* each find the key missing, and the one that creates the dict must not   *)
(* have it replaced by another's.  put_writes stores through a fresh       *)
(* lookup of self.writes, not through the outer_writes_ it fetched.        *)
WritesKept ==
    [][\A k \in DOMAIN wobj, key \in WriteKey :
          wobj[k] # None /\ wdict[wobj[k]][key] # None /\ wobj'[k] # None =>
              wdict'[wobj'[k]][key] # None]_<<wobj, wdict>>

(* An ordinal (task, idx) write, once in a checkpoint's write dict, keeps  *)
(* its value while that dict lives: put_writes skips keys already present, *)
(* so a retried task cannot overwrite its first result -- unless two       *)
(* put_writes both pass the test before either stores.                     *)
OrdinalWriteOnce ==
    [][\A k \in DOMAIN wobj :
          wobj[k] # None /\ wobj'[k] = wobj[k] =>
             \A key \in WriteKey :
                key[2] >= 0 /\ wdict[wobj[k]][key] # None =>
                    wdict'[wobj[k]][key] = wdict[wobj[k]][key]]_<<wobj, wdict>>

=============================================================================
