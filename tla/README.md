# TLA+ models of the in-memory checkpoint saver

This directory models `src/libs/checkpoint/langgraph/checkpoint/memory/__init__.py`.
That file holds `InMemorySaver`, the checkpoint store an execution engine uses to
save graph state, and `PersistentDict`, a dict that writes itself to disk
atomically. The modules check what the saver promises its caller, and where it
stops promising it.

## 1. Inventory

### Components and their state

| Component | State (source lines) | Operations |
|---|---|---|
| Checkpoint Table | `storage[thread][ns][checkpoint_id] = (checkpoint bytes, metadata bytes, parent id)`, a nested `defaultdict` (65-69) | `get_tuple` (132-212), `list` (214-321), `put` (323-367), `delete_thread` (407-423) |
| Blob Table | `blobs[(thread, ns, channel, version)] = (type, bytes)` or the `("empty", b"")` sentinel (75-80) | written by `put` (348-351), read by `_load_blobs` (120-130), swept by `delete_thread` |
| Write Buffer | `writes[(thread, ns, checkpoint_id)][(task_id, idx)] = (task_id, channel, value bytes, task_path)` (70-74) | `put_writes` (369-405), read by `get_tuple`/`list`, swept by `delete_thread` |
| Version generator | none (uses `random`) | `get_next_version` (515-524) |
| Async facade | none | `aget_tuple`, `alist`, `aput`, `aput_writes`, `adelete_thread` (425-513) forward to the sync methods without awaiting |
| Context manager / factory | `ExitStack` over the three tables when they are `PersistentDict`s (82-118) | `__enter__`, `__exit__` |
| PersistentDict | the dict in memory, `filename`, `flag`, `mode`, `format`, the file and its `.tmp` (530-600) | `sync`, `close`, `dump`, `load`, `__exit__` |

External collaborators are the serde codec (`dumps_typed`/`loads_typed`), the
engine (it decides when to `put`, which `new_versions` to pass, and which
config to resume from), and `WRITES_IDX_MAP` (reserved channel names with
fixed negative write indices). None of them is in this repository.

### How the components interact

* `put` fans the changed channel values (`new_versions`) out into the Blob
  Table. Only then does it record the checkpoint in the Checkpoint Table,
  without its values and with `parent = config["checkpoint_id"]`. Channels
  that did not change keep their old version, so they reuse the blobs of
  earlier checkpoints.
* `get_tuple` / `list` read a checkpoint back. They resolve its
  `channel_versions` through `_load_blobs`, which skips both missing keys and
  the empty sentinel, and attach the write buffer of that exact checkpoint
  id.
* `put_writes` stages task writes against a checkpoint id. A reserved channel
  uses its fixed negative index and is always overwritten. Any other channel
  uses its position in the batch: if that key is already there, the write is
  dropped, so the first write wins.
* `delete_thread` deletes the thread's storage entry. It then sweeps `writes`
  and `blobs` over snapshots of their keys.
* None of the methods takes a lock. The async methods run on the event loop
  without yielding, so there each method is atomic. The synchronous engine
  submits `put` and `put_writes` to a thread pool, so there methods can
  interleave wherever the interpreter switches threads.

### What is hard

* **Blob sharing across checkpoints.** Whether a checkpoint reads back the
  values it was committed with depends on blobs written by *earlier* puts.
  That rests on the engine's `new_versions` discipline and on nothing
  deleting them in between.
* **Forks.** Two children of the same checkpoint bump the same channel from
  the same version. The random suffix keeps their blobs apart.
* **Two write-buffer regimes.** First-write-wins applies to ordinal keys, and
  last-write-wins to reserved keys.
* **Concurrency without locks.** Races are possible between `put_writes`
  check-then-store, `put`'s blobs-then-storage, and `delete_thread`'s sweeps
  over key snapshots. `list` iterates live dict keys lazily, and even a read
  (`get_tuple`, through `defaultdict`) inserts keys.
* **Crashes.** `PersistentDict.sync` uses a temp file and a rename. The
  saver closes three `PersistentDict`s one after another, so a crash can
  fall between them.

### Properties that make each component correct

* Checkpoint Table and facade: `get` after `put` returns the committed values
  (round trip). Latest is the greatest id. Lineage points to the checkpoint
  the caller resumed from. `list` is descending, respects `before` and
  `limit`, and never fails while it is being consumed.
* Blob Table: every version a stored checkpoint references resolves. A
  version key is never rewritten with a different value. No blob outlives
  its thread.
* Write Buffer: ordinal keys keep their first value, reserved keys their
  last, even under concurrent or retried calls. No write outlives its thread.
* Version generator: the prefix parses back, and string order matches
  integer order.
* PersistentDict: after any crash, `load` restores exactly what the last
  completed `sync` wrote. A missing file loads as empty.
* The saver over three `PersistentDict`s: after a restart, no checkpoint in
  storage lacks its blobs.

The hazards these properties aim at are listed, each at its line, under
`hazards` in `PROJECT.json`.

## 2. Plan

Modules, in the order they are built (the most important behaviour first):

1. `CheckpointStore` (done): the abstract specification. Checkpoints hold
   their values directly, and writes follow the two regimes. It has no blobs
   and no versions.
2. `InMemorySaver` + `MC_InMemorySaver` (done): the saver with atomic
   methods, driven by engine *runners*, and shown to implement
   `CheckpointStore` by a refinement mapping. The mapping sends a
   checkpoint's values to what `_load_blobs` reconstructs from the blob
   table.
3. `NextVersion` + `MC_NextVersion` (done): `get_next_version` at the level
   of strings.
4. `SaverThreads` + `MC_SaverThreads` (done): `get_tuple`, `put`,
   `put_writes` and `delete_thread` split at the points where Python threads
   interleave them, with scenario scripts of concurrent calls.
5. `ListCursor` + `MC_ListCursor` (done): `list`/`alist` as a generator
   consumed item by item while other coroutines run. It is checked against
   a whole-result reference definition.
6. `PersistentDict` + `MC_PersistentDict` (done): `sync`/`close`/`load`
   with crashes between steps and failing dumps.
7. `DurableSaver` + `MC_DurableSaver` (done): the saver's three tables as
   `PersistentDict`s, closed by the `ExitStack`, with a restart from the files.

8. A power-loss fault model for `PersistentDict` (done): `PowerSpec`.

Still open: a refinement of `CheckpointStore` by `SaverThreads` with
linearization points for its passing scenario.

## 3. Modules

### CheckpointStore (abstract)

This module states what the saver promises its engine. Its variables:

* `ckpt[t][ns][id]`: the values a checkpoint holds and its parent.
* `pending[t][ns][id]`: the checkpoint's write buffer.
* `runner[r]`: what engine instance `r` holds in memory. That is the
  checkpoint it resumed from (`req` is the id it asked for, `None` for
  latest), its values, and the pending writes it was given.
* `nextId`: the next checkpoint id. The engine's ids increase, like uuid6.

Its actions are the following:

* `LoadLatest` / `LoadAt`: `get_tuple` without and with an id.
* `Commit`: `put` stores the runner's new values as a child of what it holds.
* `StageWrites`: `put_writes`. This is where `Staged` states the two regimes
  as a set-based reference definition.
* `Finish`: the run ends.
* `DeleteThread`.

### InMemorySaver

The three tables are variables, keyed as in the code:

* `storage[t][ns][id]`: `[versions, parent]`.
* `writes[t][ns][id][(task, idx)]`.
* `blobs[t][ns][c][version]`: `None` means the key is missing, and `Empty`
  is the sentinel.

A version is `<<prefix, h>>`. `h`, the random part, is the id of the
checkpoint being committed, so it is fresh for every commit. This abstracts
`random.random()` and ignores collisions.

| Definition | Code |
|---|---|
| `LoadBlobs` | `_load_blobs` |
| `LoadLatest` (`Latest`), `LoadAt`, `Resume` | the two branches of `get_tuple` |
| `NextVersion` | `get_next_version` |
| `Commit` (`StoreBlob`) | the engine's step plus `put`. It bumps the versions of the updated channels, writes a blob (or `Empty`) per new version, then stores the checkpoint with `parent = ` the held id |
| `PutWrite` / `PutWrites` / `StageWrites` | the loop of `put_writes`, as a left fold over the batch |
| `DeleteThread` (`SweepBlobs`) | `delete_thread` |

Each action is a whole method. The refinement mapping `Store` sends
`ckpt[t][ns][id].values` to `LoadBlobs` of the stored versions, the write
buffers to their `(channel, value)` entries, and each runner to itself minus
its versions.

### NextVersion

A version is a sequence of character codes. Python compares `str` by code
point, and the module compares versions the same way (`StrLess`). The module
has these definitions:

* `GetNextVersion`: the three branches for `None`, `int` and `str`, then
  `int(current.split(".")[0]) + 1` (`BeforeFirstDot`, `ParseInt`), then
  `f"{next_v:0W}.{next_h:0S}"` (`DecimalDigits`, `ZeroPad`).
* `Floats`: the `repr()` of the random float. It is chosen from `0.0`,
  `0.5`, `0.123` and `1e-05`: two of these contain a dot, and one uses
  scientific notation.

### SaverThreads

Python threads share the saver, either the engine's executor threads or a
host's request threads. No method locks. The GIL makes a single dict read,
write, membership test or `list(keys())` atomic, but it can switch threads
between any two of them. Each method is therefore a sequence of steps, one
shared-dict access each. The step being executed is `ps[p].pc`, and the
locals it keeps are the rest of `ps[p]`. One access splits in two:
`self.storage[t]` for a missing thread runs the factory lambda (line 89),
which is Python code. So `defaultdict.__missing__` can switch threads between
the failed lookup (`PutFetch`/`GetFetch`) and the store of the new dict
(`StorageMissing`). That store overwrites whatever another thread stored
meanwhile.

Methods keep a dict they fetched even after another thread replaces or
deletes it:

* `put` fetches `self.storage[t][ns]` before it serializes the checkpoint.
* `put_writes` reads `outer_writes_` once.
* `get_tuple` keeps a live `.values()` view of the write dict.

So inner dicts are objects. `tobj[t]` and `wobj[<<t, id>>]` name the object
a table holds, and `tdict` / `wdict` hold every object ever created, detached
ones included.

| Definition | Code |
|---|---|
| `PutBlob`, `PutFetch`, `StorageMissing`, `PutUpdate` | `put` 348-367: one step per new version, then the fetch of the thread's dict, then the `update` |
| `PwGet`, `PwCheck` (`Dedup`), `PwStore` (`WritesAt`) | `put_writes` 394-405: `outer_writes_`, then per pair the skip test, then the store through a fresh `self.writes` lookup (which creates the dict if missing) |
| `GetFetch`, `GetRead` (`Requested`), `GetWView` | `get_tuple` 149-151 / 178-181 |
| `GetBlobIn`, `GetBlobGet` | `_load_blobs` 126-127: the test, then the read |
| `GetWrites` | one `next()` of the `pending_writes` comprehension (199); it raises when the dict changed size |
| `DelIn`, `DelStorage`, `DelWKeys`, `DelW`, `DelBKeys`, `DelB` (`OfThread`) | `delete_thread` 416-423 |

A process that raises stops at `"raised"`. There is one namespace, because
the races are per thread and per checkpoint. The history variables are:

* `committed`: the values each put stored.
* `returned`: the puts that returned, each with the count of `delete_thread`
  calls begun on its thread when the put started.
* `reads`: what each get returned.

They state the properties:

* `VersionsResolve`
* `PutDurable`: a returned put stays stored, unless a delete of its thread
  began after the put did.
* `ReadsCommitted`: a get returns exactly the values that were put.
* `WritesKept`: a write in the dict at a `self.writes` key stays in the
  dict at that key while the key lives.
* `OrdinalWriteOnce`: an ordinal write keeps its first value.

### ListCursor

`alist` re-yields `list`, and `list` is a generator. Under asyncio, the
sync call behind every other coroutine method runs atomically. So the only
place another call can run in the middle of a listing is between two items,
while the consumer awaits. The generator is a sequence of atomic
segments: `Pull` resumes it, and the steps below run until `NextCkpt`
yields or the generator ends. `Put`, `DeleteThread` and `GetTuple`'s lookup
run only while it is suspended (`EnvAllowed`). `OpsBefore` and `OpsDuring`
choose which calls the other coroutines make before and during the listing.

`store` holds `self.storage` as CPython lays it out:

* `entries`: the key slots of `self.storage` in insertion order. A deleted
  key leaves a `None` slot.
* `tobj[t]`: the thread dict object `t` maps to.
* `tdict[o]`: each such object, with its namespace keys in insertion order.

A dict iterator visits slots in order, skips deleted ones, and raises
`RuntimeError` on its next step if the dict's size changed since it started
(`Raise`). `TouchThread`/`TouchNs` are the `defaultdict` lookups, which
insert what is missing. `list` itself makes two of them, at lines 242 and
254.

| Definition | Code |
|---|---|
| `GenStart` | 236-240: `thread_ids` is a one-tuple or `self.storage` itself |
| `NextThread` (`NextSlot`) | 241: `for thread_id in thread_ids` |
| `NsView`, `NextNs` (`SkipNs`) | 242-248: the live `keys()` view and the namespace filter |
| `Sorted` | 249-257: the sorted snapshot, newest first |
| `NextCkpt` (`FilterMatch`, `LimitReached`) | 258-321: the id, `before` and metadata filters, the limit, the yield |

The yielded tuple is abstracted to `<<thread, ns, id>>`. Its values and
pending writes are what `get_tuple` loads (see `SaverThreads`). The ghost
`start` records the store when the body started, and `quiet` records
whether any call ran since then. `Expected` is a reference definition of
what spec 4.1 says `list` returns, written as a whole: all matching
checkpoints, thread by thread and namespace by namespace, newest first, then
the first `limit` of them. It uses `SetToSortSeq` and `FlattenSeq`.

### PersistentDict

`mem[d]` is the dict in memory, and `tmp[d]` and `file[d]` are its two
files. A content is a set of keys. A file can be `Absent`, `EmptyFile`,
`Torn` (a pickle cut short), or a complete pickle. One call runs at a time
(`call`):

| Definition | Code |
|---|---|
| `SyncOpen` | 553-558: `open(tempname, "wb")` truncates the `.tmp` |
| `Dump` / `DumpFails` | 560 with `dump` 580-584 / the `except` path 561-565 |
| `Move` | 566-572: the rename, and `clear()` when the call is `close` |
| `Load` | 586-600: missing file raises, empty file is `EOFError`, torn file is logged and re-raised, else `update` |
| `Mutate` | `d[k] = v` / `del d[k]` on the `defaultdict` |

`Crash` is the fault: memory and the call in progress are lost, and the
files stay as they are. After it, a new process constructs and loads each
dict. `synced[d]` is a ghost holding what the last completed sync wrote.

`PowerSpec` adds the second fault, a loss of power. `sync` never calls
`fsync`, so a renamed file's data reaches the disk only when the OS writes
it back (`Writeback`), and `dirty` holds the files renamed since then.
`PowerLoss` loses memory like `Crash` and may also leave any dirty file
with its directory entry and no data, a zero-byte file. `Spec` has no
power loss, and `pdict_crash` checks it.

### DurableSaver

`DurableSaver` extends `PersistentDict` with `Dicts = {storage, writes,
blobs}`. A table's content is the set of threads that have entries in it.

* `Put` adds the thread to blobs and storage, `PutWrites` to writes, and
  `DeleteThread` removes it from all three.
* `__init__` registers the three closes on the `ExitStack` (lines 92-95,
  `DInit`). `Exit` is `__exit__`. The stack unwinds in reverse entry order,
  so it closes blobs, then writes, then storage (`ExitOrder`,
  `CloseNext`). Each callback it runs is popped.
* A close whose dump raises does not stop the next close.
* `Reenter` is a later `with saver:`. `__enter__` (line 98) registers
  nothing, so the next `Exit` finds an empty stack.
* `Restart` is a crash, or the process ending, followed by a new start
  with a new saver.
* `atExit` is a history variable: the tables' contents when `__exit__`
  last began.

The factory is injected, and none is in this repository. The model assumes
the factory gives each table its own file and calls `load()` after
construction.

## 4. Runs

| Run | cfg | Checks | Result |
|---|---|---|---|
| `saver_store` | `MC_Saver.cfg` | `TypeOK`, `VersionsResolve`, `NoOrphans`, `StoreSpec` | pass, 315,704 states |
| `write_buffer` | `MC_Writes.cfg` | `StoreSpec` | pass, 2,690 states |
| `next_version` | `MC_NextVersion.cfg` | `PrefixRoundTrip`, `VersionsIncrease` | pass, 164 states |
| `threads_pass` | `MC_Threads.cfg` | `VersionsResolve`, `PutDurable`, `ReadsCommitted`, `WritesKept` | pass, 335,379 states |
| `writes_race` | `MC_WritesRace.cfg` | `OrdinalWriteOnce` | violation (finding) |
| `list_pass` | `MC_List.cfg` | `ListMatchesReference` | pass, 1,493,866 states |
| `list_raise` | `MC_ListRaise.cfg` | `NoListRaises` | violation (finding) |
| `list_stale` | `MC_ListStale.cfg` | `YieldsStored` | violation (finding) |
| `pdict_crash` | `MC_PDict.cfg` | `LoadRestoresSync` | pass, 1,346 states |
| `pdict_power_loss` | `MC_PDictPower.cfg` | `LoadRestoresSync` | violation (finding) |
| `exit_crash` | `MC_ExitCrash.cfg` | `CheckpointsHaveBlobs` | violation (finding) |
| `exit_twice` | `MC_ExitTwice.cfg` | `ExitPersists` | violation (finding) |

**`saver_store`** has two threads, two namespaces, one runner, channels
`x`, `y` and values `v1`, `v2`. It allows up to three commits and no tasks.
What it checks:

* Three commits are enough for a chain of three, and for a checkpoint with
  two children (a fork through `LoadAt`). A fork of a fork is not reached.
* The round trip through shared blobs holds: a channel that did not change
  is read back from the blob of an earlier put.
* Forks do not disturb each other's blobs.
* Threads and namespaces are isolated.
* Deletion leaves no orphans.

One runner is enough here because each method is atomic. A second runner
holding a stale checkpoint behaves like the same runner going back with
`LoadAt`. The environment does not delete a thread while a runner holds one
of its checkpoints; this is `DeleteWhileActive = FALSE`.

Runners, values, threads and namespaces are only compared for equality, so
the run uses symmetry over them. Its properties are all safety properties.

**`write_buffer`** has one checkpoint and one task. Each batch has up to two
`(channel, value)` pairs over `x` and the reserved `ERROR` (index -1). Two
pairs make position 1 exist, and a batch can name `ERROR` twice. A second
task only makes the keys disjoint, and it made the state space too large.

`DeleteWhileActive = TRUE` lets the environment delete a thread while a
runner still holds one of its checkpoints. TLC then finds this sequence:

1. The runner commits `c1` with both channels.
2. The thread is deleted.
3. The runner commits `c2` with only `x` updated.

`c2` references the version of `y` stored with `c1`, whose blob is gone, so
`get` would return `c2` without `y`. A typical case is a conversation
deleted while the agent is still streaming. This is the hazard at line 348
in `PROJECT.json`. It is not kept as a run: `list_stale` and `exit_crash`
show the same kind of delete-while-held outcome.

**`next_version`** uses a 2-digit prefix and a 6-character float field, with
prefixes up to 40. The prefix crosses 9 to 10, where an unpadded prefix
would sort before its predecessor. The ASSUME `MaxPrefix + 1 < 10^Width`
keeps the run inside the width; in the code that bound is 10^32 bumps.

**`threads_pass`** runs five threads concurrently, chosen so that calls
overlap on the same thread and the same checkpoint wherever the code is
safe without a lock:

* A runner puts checkpoints 2 and 3 of `t1`. Checkpoint 2 gives `y` a
  version with no value (the empty sentinel). Checkpoint 3 keeps `x` at
  checkpoint 2's version, so a read of it resolves a blob an earlier put
  wrote.
* A reader gets the latest checkpoint of `t1` while the runner commits, and
  then checkpoint 1.
* Two tasks (`k1` with `x` and the reserved `ERROR`, `k2` with `x`) stage
  writes on checkpoint 1, whose write dict does not exist at first. Each
  of them, and the reader's `get_tuple` of checkpoint 1, may find it
  missing and create it.
* An admin stages a write on `t2`, deletes `t2` while `t1`'s blobs and
  writes are being added (its key snapshots hold them), and puts `t2`
  afresh, through the factory path.

`VersionsResolve`, `PutDurable`, `ReadsCommitted` and `WritesKept` hold in
every interleaving. The reader's `get_tuple` of checkpoint 1 can raise
`RuntimeError` when a task adds a write during its pending-writes
iteration (line 199): that is reachable here, and no property of this run
is about it. The run exercises every step of every method.

The script leaves out the overlaps the code does not survive; each breaks
one of these properties (below). So this run shows what holds beside
them, not that the saver is thread-safe.

**`writes_race`** has exactly two threads, which make the smallest race:
the same task stages index 0 twice. Both calls pass the skip test before
either stores. Spec §5 requires the saver's methods to be individually
atomic, and this outcome cannot come from either sequential order of the
two calls. The same model also reaches races that are not kept as runs,
with two-process scripts of the matching calls:

* the first `put` of a new thread against `get_tuple` of it: the put fills
  the dict its own factory installed, the get's factory call then stores a
  fresh empty dict over it, and the checkpoint whose put returned is gone
  (`PutDurable`, with a `put` of `t1` in one process and a `get_tuple` of
  `t1` in another over an empty store);

* `put` against `delete_thread`: a blob is swept between put's blobs and
  its checkpoint (`VersionsResolve`).
* `get_tuple` against `delete_thread`: a checkpoint is returned without its
  values (`ReadsCommitted`).
* `get_tuple` against `put_writes`: `RuntimeError` in the pending-writes
  iteration (the process ends at `"raised"`).
* Two `delete_thread`s of one thread: `KeyError` (`"raised"`).

None of these is kept as a run: `writes_race` already shows that the
methods are not atomic under threads, and the number of runs is kept to
the distinct questions.

The defaultdict overwrite behind the first of these is CPython's:
`defaultdict.__missing__` stores the factory's result unconditionally,
whatever was stored while the factory ran. The race itself was not
reproduced against the package, whose dependencies are not installed here.

**`list_pass`** has two threads, two namespaces, ids 1..3, and two
metadata dicts. Other coroutines make up to four `put`, `delete_thread` and
`get_tuple` calls before the listing or between its items. It tries five
list calls:

* `list(None)`;
* `list(None, limit=1)`;
* `list(None, filter=..., before=3)` (the filter has two keys);
* `list(t1, ns=n1, limit=2)`, which skips `n0`;
* `list(t2 at checkpoint 2, limit=0)`.

These cover limits that cut across namespaces, a zero limit, the `before`
boundary, and AND filters. They also cover threads and namespaces that hold
nothing, which reads create.

`ListMatchesReference` compares every listing that ran undisturbed with
`Expected`. Termination is not checked: every loop of `list` is a
`for` over a sorted copy or over a live key iterator that raises when the
dict changes size, so no interleaving can make it run on.

**`list_raise`**: other coroutines only call `aget_tuple`. After a put of
`t1`, `alist(None)` yields that checkpoint. An `aget_tuple` of `t1` in the
other namespace then inserts an empty namespace into the dict the generator
is iterating, and the next item raises `RuntimeError`. A read alone breaks
a concurrent listing.

**`list_stale`**: `list(t1, ns=n1, limit=2)` yields checkpoint 2. Then
`adelete_thread(t1)` runs, and the listing goes on to yield checkpoint 1 of
the deleted thread from its sorted snapshot. Spec 8 says nothing of a
deleted thread is observable via `list`.

**`pdict_crash`** has one dict over two keys and starts from an existing
file (empty or synced before). It allows up to two crashes and one failing
dump, with syncs and closes at any point. A crash can hit the open, the
dump, the error path or the rename: every load still gets the last
completed sync.

**`pdict_power_loss`** runs `PowerSpec` with one power loss and no
crash. A close writes `{i1}` and renames it over the file, and the power
goes before the OS writes the data back. The file comes back with zero
bytes, and `load` takes the `EOFError` (line 595) for an empty file and
starts empty without an error. The rename is atomic, as its comment says,
but without an `fsync` of the temporary file before it, neither the old
nor the new contents survive. Spec 4.3 promises that the prior durable
state stays valid.

A first start with no file at all is not kept as a run. There `load` opens
a file that does not exist and raises `FileNotFoundError`, where spec 4.3
and spec 7 say a missing file loads as empty. The model reaches it with
`InitFiles` set to `Absent` files (`loadErr` becomes true). A unit test of
`load` reaches it too.

**`exit_crash`**: the saver starts from files that hold thread `t1`. It
deletes `t1` and exits. The blobs close writes a blobs file without `t1`,
then a crash comes before storage's close. After the restart, storage lists
`t1`'s checkpoint and its blobs are gone. A failing dump of one table leads
to the same outcome without a crash, because `ExitStack` runs the remaining
closes.

**`exit_twice`**: no crash, no failing dump. The saver leaves its `with`
block, and the three closes sync and clear the tables. It is entered
again, puts `t2` and exits. The `ExitStack` has no callbacks left, so
nothing is synced, and `t2` is not in the files the next process loads.
Spec 9 asks for scope operations that run `sync` on every exit path.

Every property of a passing run is checked against a mutant, listed in
`PROJECT.json`:

* `NextVersionSkip`: an off-by-one in the version bump.
* `StoreBlobNoSentinel` (of `StoreBlob`): `put` without the empty sentinel.
* `SweepBlobsSkipped` (of `SweepBlobs`): a missing blob sweep.
* `LatestOldest` (of `Latest`): the first id used for the latest checkpoint instead of
  the greatest.
* `PutWriteNoDedup`: the ordinal dedup dropped.
* `GetNextVersionUnpadded`: the prefix not zero-padded.
* `BeforeLastDot`: `rsplit` used instead of `split`.
* `OfThreadAny` (of `OfThread`): `delete_thread` sweeps keys of every thread.
* `PutFetchAlwaysNew`: `put` replaces the thread's dict.
* `LoadedKeepEmpty`: the sentinel is returned as a value.
* `WritesAtFetched` (of `WritesAt`): `put_writes` stores through the
  `outer_writes_` it fetched, creating a new dict when that was `None`.
* `LimitReachedLate`: `limit < 0` instead of `<= 0`, which yields one item
  too many.
* `SyncOpenInPlace`: the pickle is written straight into `filename`.

## 5. Fairness

No module assumes fairness. `list` was the candidate for a termination
property, but its loops cannot run on whatever the code does (see
`list_pass`), so such a property would hold by the shape of the code.

All modules check safety only:

* Every saver method is a bounded, non-blocking computation.
* `PersistentDict` has no step that must eventually happen: a process may
  never call `sync`.

## 6. Not modelled

* Serde is assumed to round-trip, so values are stored as they are.
  Metadata (`get_checkpoint_metadata`) is not modelled, and `task_path` is
  left out.
* The order of the `pending_writes` list (dict insertion order) is not
  modelled.
* In `ListCursor`, the yielded tuple is only `<<thread, ns, id>>`; blobs and
  writes are not modelled there. The `writes` entries `list` inserts (line
  285) are left out. A CPython dict resize that compacts deleted slots
  during a size-preserving delete-and-insert between two items is not
  modelled. Threads of the synchronous API iterating `list` are not
  modelled, only coroutines.
* In `SaverThreads`, the interleavings come from fixed scenarios, not from
  every possible call. Namespaces, metadata and the parent config are left
  out. The pending writes a get returns are only iterated, never compared.
  Free-threaded Python (no GIL) would split steps further; it is not
  modelled.
* `PersistentDict` models a power loss as the loss of a renamed file's
  data, the outcome that delayed allocation gives. A file system that could
  also lose the rename itself, leaving the old file, is not modelled; that
  outcome is old data rather than no data.
* `DurableSaver` abstracts the tables to the threads they hold. It assumes
  a factory with one file per table that loads at construction.
* `__enter__` and `__aenter__` return `self.stack.__enter__()`, which is the
  `ExitStack` and not the saver. So `with InMemorySaver(...) as s:` binds
  `s` to an object without `put` or `get_tuple`. A unit test shows this; it
  is noted here, not modelled.
* In `InMemorySaver`, runners resume only from stored ids. A `get_tuple` of
  an id that is not stored returns `None`. `SaverThreads` models that
  return (`GetRead`), and `ListCursor` models the empty entries the lookup
  inserts (`GetTuple`).
* Re-committing an existing checkpoint id (which the spec allows) is not
  generated: the engine's ids are fresh.
* Collisions of `random.random()` suffixes are neglected. Their
  probability is about 2^-53 per pair of forks.
