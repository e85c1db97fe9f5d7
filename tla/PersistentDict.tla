--------------------------- MODULE PersistentDict ---------------------------
(***************************************************************************)
(* PersistentDict: a defaultdict kept in memory and written to disk only   *)
(* by sync (and close = sync + clear).  sync opens filename.tmp, pickles   *)
(* the whole dict into it, removes it again if the dump raises, and        *)
(* otherwise renames it over filename; load updates the dict from the      *)
(* file.  The owning process may crash between any two of these steps:    *)
(* memory is lost, the files stay as they are.  A dict's content is the    *)
(* set of its keys (values never change what a property tells apart).     *)
(* The flag ("c") and mode (None) set in __init__ never change, so the     *)
(* read-only return of sync, the "n" return of load and chmod never run.  *)
(***************************************************************************)
EXTENDS Naturals, FiniteSets

CONSTANTS
    Dicts,        \* the PersistentDict objects of one process, one file each
    Items,        \* keys a dict may hold
    InitFiles,    \* what the files may hold when the process first starts
    MaxCrashes,   \* bound on crashes (and restarts)
    MaxFailures,  \* bound on dumps that raise (disk full, an I/O error)
    MaxPowerLosses, \* bound on losses of power (the OS loses unwritten data)
    Absent,       \* no file at that path
    EmptyFile,    \* a file of zero bytes
    Torn,         \* a pickle cut short by a crash or an error
    None

\* What a file stands for: a missing or empty file is an empty mapping (spec 4.3).
FileData(f) == IF f \in {Absent, EmptyFile} THEN {} ELSE f

VARIABLES
    mem,       \* mem[d]: the keys of dict d in memory
    tmp,       \* tmp[d]: filename.tmp of d
    file,      \* file[d]: filename of d
    call,      \* the sync or close in progress: [d, pc, closing], or None
    loaded,    \* dicts constructed and loaded since the process started
    synced,    \* synced[d]: what the last sync of d that completed wrote
    crashes,
    failures,
    loadErr,   \* a load raised
    dirty,     \* files renamed since the OS last wrote their data to disk
    powerLosses

pvars == <<mem, tmp, file, call, loaded, synced, crashes, failures, loadErr,
           dirty, powerLosses>>

Init ==
    /\ mem = [d \in Dicts |-> {}]
    /\ tmp = [d \in Dicts |-> Absent]
    /\ file \in InitFiles
    /\ call = None
    /\ loaded = {}
    /\ synced = [d \in Dicts |-> FileData(file[d])]
    /\ crashes = 0
    /\ failures = 0
    /\ loadErr = FALSE
    /\ dirty = {}
    /\ powerLosses = 0

\* The owner is between calls, with every dict loaded.
Ready == call = None /\ loaded = Dicts

\* d[i] = ... or del d[i] on the in-memory dict.
Mutate(d, i) ==
    /\ Ready
    /\ mem' = [mem EXCEPT ![d] = IF i \in @ THEN @ \ {i} ELSE @ \cup {i}]
    /\ UNCHANGED <<tmp, file, call, loaded, synced, crashes, failures, loadErr, dirty, powerLosses>>

\* Mutant of SyncOpen: the pickle is written straight into filename.
SyncOpenInPlace(d, closing) ==
    /\ Ready
    /\ tmp' = [tmp EXCEPT ![d] = Torn]
    /\ file' = [file EXCEPT ![d] = Torn]
    /\ call' = [d |-> d, pc |-> "dump", closing |-> closing]
    /\ UNCHANGED <<mem, loaded, synced, crashes, failures, loadErr, dirty, powerLosses>>

\* sync (or close): open(tempname, "wb") creates or truncates filename.tmp.
SyncOpen(d, closing) ==
    /\ Ready
    /\ tmp' = [tmp EXCEPT ![d] = Torn]
    /\ call' = [d |-> d, pc |-> "dump", closing |-> closing]
    /\ UNCHANGED <<mem, file, loaded, synced, crashes, failures, loadErr, dirty, powerLosses>>

\* self.dump(fileobj): pickle.dump(dict(self)) completes.
Dump ==
    /\ call # None /\ call.pc = "dump"
    /\ tmp' = [tmp EXCEPT ![call.d] = mem[call.d]]
    /\ call' = [call EXCEPT !.pc = "move"]
    /\ UNCHANGED <<mem, file, loaded, synced, crashes, failures, loadErr, dirty, powerLosses>>

\* The dump raises: os.remove(tempname), fileobj.close(), re-raise; close
\* does not reach clear().
DumpFails ==
    /\ call # None /\ call.pc = "dump"
    /\ failures < MaxFailures
    /\ tmp' = [tmp EXCEPT ![call.d] = Absent]
    /\ call' = None
    /\ failures' = failures + 1
    /\ UNCHANGED <<mem, file, loaded, synced, crashes, loadErr, dirty, powerLosses>>

\* shutil.move(tempname, filename) renames atomically; close then clears.
Move ==
    /\ call # None /\ call.pc = "move"
    /\ file' = [file EXCEPT ![call.d] = tmp[call.d]]
    /\ tmp' = [tmp EXCEPT ![call.d] = Absent]
    /\ synced' = [synced EXCEPT ![call.d] = tmp[call.d]]
    /\ mem' = IF call.closing THEN [mem EXCEPT ![call.d] = {}] ELSE mem
    /\ call' = None
    /\ dirty' = dirty \cup {call.d}
    /\ UNCHANGED <<loaded, crashes, failures, loadErr, powerLosses>>

\* The process dies (or ends) and starts again: memory is gone, files stay.
Crash ==
    /\ crashes < MaxCrashes
    /\ mem' = [d \in Dicts |-> {}]
    /\ call' = None
    /\ loaded' = {}
    /\ crashes' = crashes + 1
    /\ UNCHANGED <<tmp, file, synced, failures, loadErr, dirty, powerLosses>>

\* PersistentDict(filename=...) then load(): open raises FileNotFoundError
\* on a missing file, pickle.load raises EOFError (caught) on an empty one
\* and UnpicklingError (logged, re-raised) on a torn one, and otherwise the
\* dict is updated with what the file holds.
Load(d) ==
    /\ call = None
    /\ d \notin loaded
    /\ loaded' = loaded \cup {d}
    /\ loadErr' = (loadErr \/ file[d] \in {Absent, Torn})
    /\ mem' = IF file[d] \in {Absent, EmptyFile, Torn} THEN mem
              ELSE [mem EXCEPT ![d] = @ \cup file[d]]
    /\ UNCHANGED <<tmp, file, call, synced, crashes, failures, dirty, powerLosses>>

PStep ==
    \/ Dump \/ DumpFails \/ Move \/ Crash
    \/ \E d \in Dicts : Load(d)

Next ==
    \/ PStep
    \/ \E d \in Dicts, i \in Items : Mutate(d, i)
    \/ \E d \in Dicts, closing \in BOOLEAN : SyncOpen(d, closing)

Spec == Init /\ [][Next]_pvars

\* The OS writes a renamed file's data back to disk (some seconds later).
Writeback(d) ==
    /\ d \in dirty
    /\ dirty' = dirty \ {d}
    /\ UNCHANGED <<mem, tmp, file, call, loaded, synced, crashes, failures,
                   loadErr, powerLosses>>

\* The machine loses power and restarts.  As in Crash memory is gone, and
\* since sync never calls fsync, a file renamed after its data last reached
\* the disk may be left with a directory entry and no data: zero bytes.
PowerLoss ==
    /\ powerLosses < MaxPowerLosses
    /\ \E lost \in SUBSET dirty :
          file' = [d \in Dicts |-> IF d \in lost THEN EmptyFile ELSE file[d]]
    /\ mem' = [d \in Dicts |-> {}]
    /\ call' = None
    /\ loaded' = {}
    /\ dirty' = {}
    /\ powerLosses' = powerLosses + 1
    /\ UNCHANGED <<tmp, synced, crashes, failures, loadErr>>

PowerNext == Next \/ PowerLoss \/ \E d \in Dicts : Writeback(d)

PowerSpec == Init /\ [][PowerNext]_pvars

-----------------------------------------------------------------------------
(* Properties                                                              *)

\* Whatever step a crash interrupts (the open, the dump, the error path or
\* the rename), a restarted process that loads a dict gets exactly what the
\* last completed sync of it wrote: the destination is never half-written.
LoadRestoresSync ==
    [][\A d \in Dicts : d \notin loaded /\ d \in loaded' => mem'[d] = synced[d]]_pvars

=============================================================================
