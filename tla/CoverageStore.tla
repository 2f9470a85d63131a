---------------------------- MODULE CoverageStore ----------------------------
(***************************************************************************)
(* The child coverage store of one machine: gunicorn worker processes that *)
(* share one JSON file (federation/coverage.py), each with                 *)
(*   - an in-memory list, _child_coverage, replaced wholesale;             *)
(*   - its event loop, which writes through _with_coverage_write and       *)
(*     blocks there, so it has at most one write in progress;              *)
(*   - a watcher thread, _watch_child_coverage, polling the file's mtime;  *)
(*   - on a root AMS, the GIS watcher thread, which re-runs                *)
(*     _load_ams_provisioning after every GeoPackage reload.               *)
(* The writers of all processes are serialized by flock on a sidecar file; *)
(* the threads of one process interleave at every step below.  A process   *)
(* may be killed at any point (the kernel then drops its lock).            *)
(***************************************************************************)
EXTENDS CoverageList

CONSTANTS
  Workers,      \* worker processes
  Nobody,       \* the lock's owner when it is free
  NoFile,       \* the .tmp file when it does not exist
  Requests,     \* the edits one push or pull may ask for
  AmsFiles,     \* provisioning files an operator may have written
  RootAMS,      \* is this node a root AMS (LVF_ROOT_AMS)?
  ReadErrors,   \* may reading the coverage file fail?
  SaveErrors,   \* may writing it fail?
  CoarseMtime,  \* may two saves leave the same mtime?
  Up0,          \* workers that have already started in the initial state
  MaxWrites, MaxBoots, MaxReloads   \* bounds on what the environment does

ASSUME CoverageAssumption ==
  /\ Nobody \notin Workers
  /\ NoFile \notin Lists
  /\ Requests \subseteq Seq(SyncOperation)
  /\ AmsFiles \subseteq Lists
  /\ {RootAMS, ReadErrors, SaveErrors, CoarseMtime} \subseteq BOOLEAN
  /\ Up0 \subseteq Workers
  /\ RootAMS => Up0 = {}
  /\ {MaxWrites, MaxBoots, MaxReloads} \subseteq Nat

VARIABLES
  disk,      \* the coverage file's content
  mtime,     \* its modification time (0: no file yet)
  tmp,       \* the .tmp file that a save writes and renames
  lock,      \* the worker that holds the flock
  mem,       \* per worker: _child_coverage
  prov,      \* per worker: _ams_provisioning_cache
  baseline,  \* per worker: the mtime its watcher last saw
  pc,        \* per thread: where it is
  list,      \* per thread: its private list ("fresh", "merged")
  todo,      \* per thread: edits still to be made to that list
  writes, boots, reloads   \* counters for the bounds

vars == <<disk, mtime, tmp, lock, mem, prov, baseline, pc, list, todo,
          writes, boots, reloads>>
file == <<disk, mtime, tmp>>
counters == <<writes, boots, reloads>>

Loop(w) == <<w, "loop">>
Watch(w) == <<w, "watch">>
Gis(w) == <<w, "gis">>
Threads == Workers \X {"loop", "watch", "gis"}

Places == {"down", "boot", "idle", "wait", "read", "apply", "reassert",
           "replace", "publish", "unlock", "begin", "sleep", "merge"}

\* Where a writer is between taking the lock and giving it back.
Locked == {"read", "apply", "reassert", "replace", "publish", "unlock"}
Serving(w) == pc[Loop(w)] \notin {"down", "boot"}

TypeOK ==
  /\ disk \in Lists
  /\ mtime \in Nat
  /\ tmp \in Lists \cup {NoFile}
  /\ lock \in Workers \cup {Nobody}
  /\ mem \in [Workers -> Lists]
  /\ prov \in [Workers -> Lists]
  /\ baseline \in [Workers -> Nat]
  /\ pc \in [Threads -> Places]
  /\ list \in [Threads -> Lists]
  /\ todo \in [Threads -> Programs]
  /\ writes \in Nat /\ boots \in Nat /\ reloads \in Nat

Init ==
  /\ disk = <<>> /\ mtime = 0 /\ tmp = NoFile /\ lock = Nobody
  /\ mem = [w \in Workers |-> <<>>]
  /\ prov = [w \in Workers |-> <<>>]
  /\ baseline = [w \in Workers |-> 0]
  /\ pc = [t \in Threads |->
             IF t[1] \notin Up0 THEN "down"
             ELSE IF t[2] = "loop" THEN "idle" ELSE "sleep"]
  /\ list = [t \in Threads |-> <<>>]
  /\ todo = [t \in Threads |-> <<>>]
  /\ writes = 0 /\ boots = 0 /\ reloads = 0

Goto(t, place) == pc' = [pc EXCEPT ![t] = place]
Work(t, copy, program) ==
  /\ list' = [list EXCEPT ![t] = copy]
  /\ todo' = [todo EXCEPT ![t] = program]

\* _read_child_coverage_file: any error reads as the empty list.
ReadOutcomes == {disk} \cup (IF ReadErrors THEN {<<>>} ELSE {})

(***************************************************************************)
(* Start of a process: load the file, merge provisioning on a root AMS     *)
(* whose two provisioning files are valid (an empty AmsFile stands for a   *)
(* missing or invalid one), then serve and start the watcher thread.       *)
(***************************************************************************)
Boot(w) ==
  /\ pc[Loop(w)] = "down"
  /\ boots < MaxBoots
  /\ boots' = boots + 1
  /\ \E content \in ReadOutcomes, ams \in IF RootAMS THEN AmsFiles ELSE {<<>>} :
       /\ mem' = [mem EXCEPT ![w] = content]
       /\ prov' = [prov EXCEPT ![w] = ams]
       /\ Work(Loop(w), content, Asserts(ams))
  /\ pc' = [pc EXCEPT ![Loop(w)] = "boot", ![Gis(w)] = "sleep"]
  /\ UNCHANGED <<file, lock, baseline, writes, reloads>>

FinishBoot(w) ==
  /\ pc[Loop(w)] = "boot"
  /\ todo[Loop(w)] = <<>>
  /\ mem' = [mem EXCEPT ![w] = list[Loop(w)]]
  /\ Work(Loop(w), <<>>, <<>>)
  /\ pc' = [pc EXCEPT ![Loop(w)] = "idle", ![Watch(w)] = "begin"]
  /\ UNCHANGED <<file, lock, prov, baseline, counters>>

Crash(w) ==
  /\ pc[Loop(w)] # "down"
  /\ lock' = IF lock = w THEN Nobody ELSE lock
  /\ mem' = [mem EXCEPT ![w] = <<>>]
  /\ prov' = [prov EXCEPT ![w] = <<>>]
  /\ baseline' = [baseline EXCEPT ![w] = 0]
  /\ pc' = [t \in Threads |-> IF t[1] = w THEN "down" ELSE pc[t]]
  /\ list' = [t \in Threads |-> IF t[1] = w THEN <<>> ELSE list[t]]
  /\ todo' = [t \in Threads |-> IF t[1] = w THEN <<>> ELSE todo[t]]
  /\ UNCHANGED <<file, counters>>

(***************************************************************************)
(* A thread's next edit of its private list.                               *)
(***************************************************************************)
Edit(t) ==
  /\ pc[t] \in {"boot", "apply", "reassert", "merge"}
  /\ todo[t] # <<>>
  /\ ~Raises(list[t], Head(todo[t]))
  /\ Work(t, ApplyOp(list[t], Head(todo[t])), Tail(todo[t]))
  /\ UNCHANGED <<file, lock, mem, prov, baseline, pc, counters>>

(***************************************************************************)
(* A write: _with_coverage_write, called for an inbound push or a pull.    *)
(***************************************************************************)
Request(w) ==
  /\ pc[Loop(w)] = "idle"
  /\ writes < MaxWrites
  /\ writes' = writes + 1
  /\ \E program \in Requests : Work(Loop(w), <<>>, program)
  /\ Goto(Loop(w), "wait")
  /\ UNCHANGED <<file, lock, mem, prov, baseline, boots, reloads>>

\* Fault: a lock that excludes nobody.
LockFile_Shared(w) ==
  /\ pc[Loop(w)] = "wait"
  /\ lock' = w
  /\ Goto(Loop(w), "read")
  /\ UNCHANGED <<file, mem, prov, baseline, list, todo, counters>>

LockFile(w) ==
  /\ pc[Loop(w)] = "wait"
  /\ lock = Nobody
  /\ lock' = w
  /\ Goto(Loop(w), "read")
  /\ UNCHANGED <<file, mem, prov, baseline, list, todo, counters>>

\* Fault: the write starts from the list in memory.
ReadFile_FromMemory(w) ==
  /\ pc[Loop(w)] = "read"
  /\ list' = [list EXCEPT ![Loop(w)] = mem[w]]
  /\ Goto(Loop(w), "apply")
  /\ UNCHANGED <<file, lock, mem, prov, baseline, todo, counters>>

ReadFile(w) ==
  /\ pc[Loop(w)] = "read"
  /\ \E content \in ReadOutcomes : list' = [list EXCEPT ![Loop(w)] = content]
  /\ Goto(Loop(w), "apply")
  /\ UNCHANGED <<file, lock, mem, prov, baseline, todo, counters>>

\* Fault: the exception skips the release of the lock.
Abort_KeepsLock(w) ==
  /\ pc[Loop(w)] = "apply"
  /\ todo[Loop(w)] # <<>>
  /\ Raises(list[Loop(w)], Head(todo[Loop(w)]))
  /\ Work(Loop(w), <<>>, <<>>)
  /\ Goto(Loop(w), "idle")
  /\ UNCHANGED <<file, lock, mem, prov, baseline, counters>>

\* apply_fn raised: the lock is released, nothing is saved or published.
Abort(w) ==
  /\ pc[Loop(w)] = "apply"
  /\ todo[Loop(w)] # <<>>
  /\ Raises(list[Loop(w)], Head(todo[Loop(w)]))
  /\ Goto(Loop(w), "unlock")
  /\ UNCHANGED <<file, lock, mem, prov, baseline, list, todo, counters>>

\* Fault: the write forgets the provisioning.
Reassert_Nothing(w) ==
  /\ RootAMS
  /\ pc[Loop(w)] = "apply"
  /\ todo[Loop(w)] = <<>>
  /\ Goto(Loop(w), "reassert")
  /\ UNCHANGED <<file, lock, mem, prov, baseline, list, todo, counters>>

\* _reapply_ams_provisioning, with the cache as it is now.
Reassert(w) ==
  /\ RootAMS
  /\ pc[Loop(w)] = "apply"
  /\ todo[Loop(w)] = <<>>
  /\ todo' = [todo EXCEPT ![Loop(w)] = Asserts(prov[w])]
  /\ Goto(Loop(w), "reassert")
  /\ UNCHANGED <<file, lock, mem, prov, baseline, list, counters>>

\* _save_child_coverage_list: write the temporary file, rename it.  Either
\* half may fail; the exception is swallowed and the write goes on.
WriteTmp(w) ==
  /\ pc[Loop(w)] = IF RootAMS THEN "reassert" ELSE "apply"
  /\ todo[Loop(w)] = <<>>
  /\ tmp' = list[Loop(w)]
  /\ Goto(Loop(w), "replace")
  /\ UNCHANGED <<disk, mtime, lock, mem, prov, baseline, list, todo, counters>>

\* Fault: the save leaves the mtime as it was.
Replace_SameMtime(w) ==
  /\ pc[Loop(w)] = "replace"
  /\ disk' = tmp
  /\ tmp' = NoFile
  /\ Goto(Loop(w), "publish")
  /\ UNCHANGED <<mtime, lock, mem, prov, baseline, list, todo, counters>>

Replace(w) ==
  /\ pc[Loop(w)] = "replace"
  /\ disk' = tmp
  /\ tmp' = NoFile
  /\ mtime' \in {mtime + 1} \cup (IF CoarseMtime /\ mtime > 0 THEN {mtime} ELSE {})
  /\ Goto(Loop(w), "publish")
  /\ UNCHANGED <<lock, mem, prov, baseline, list, todo, counters>>

SaveFails(w) ==
  /\ SaveErrors
  /\ pc[Loop(w)] = "replace"
  /\ tmp' = NoFile
  /\ Goto(Loop(w), "publish")
  /\ UNCHANGED <<disk, mtime, lock, mem, prov, baseline, list, todo, counters>>

Publish(w) ==
  /\ pc[Loop(w)] = "publish"
  /\ mem' = [mem EXCEPT ![w] = list[Loop(w)]]
  /\ Goto(Loop(w), "unlock")
  /\ UNCHANGED <<file, lock, prov, baseline, list, todo, counters>>

Unlock(w) ==
  /\ pc[Loop(w)] = "unlock"
  /\ lock' = Nobody
  /\ Work(Loop(w), <<>>, <<>>)
  /\ Goto(Loop(w), "idle")
  /\ UNCHANGED <<file, mem, prov, baseline, counters>>

(***************************************************************************)
(* The watcher thread.                                                     *)
(***************************************************************************)
WatchBegin(w) ==
  /\ pc[Watch(w)] = "begin"
  /\ baseline' = [baseline EXCEPT ![w] = mtime]
  /\ Goto(Watch(w), "sleep")
  /\ UNCHANGED <<file, lock, mem, prov, list, todo, counters>>

WatchPoll(w) ==
  /\ pc[Watch(w)] = "sleep"
  /\ mtime # baseline[w]
  /\ baseline' = [baseline EXCEPT ![w] = mtime]
  /\ Goto(Watch(w), "read")
  /\ UNCHANGED <<file, lock, mem, prov, list, todo, counters>>

WatchRead(w) ==
  /\ pc[Watch(w)] = "read"
  /\ \E content \in ReadOutcomes :
       Work(Watch(w), content, IF RootAMS THEN Asserts(prov[w]) ELSE <<>>)
  /\ Goto(Watch(w), "merge")
  /\ UNCHANGED <<file, lock, mem, prov, baseline, counters>>

(***************************************************************************)
(* The GIS watcher thread on a root AMS: reload the provisioning files and *)
(* merge them onto a copy of the list in memory.                           *)
(***************************************************************************)
GisReload(w) ==
  /\ RootAMS
  /\ pc[Gis(w)] = "sleep"
  /\ reloads < MaxReloads
  /\ reloads' = reloads + 1
  /\ \E ams \in AmsFiles \ {<<>>} :
       /\ prov' = [prov EXCEPT ![w] = ams]
       /\ Work(Gis(w), mem[w], Asserts(ams))
  /\ Goto(Gis(w), "merge")
  /\ UNCHANGED <<file, lock, mem, baseline, writes, boots>>

\* Fault: the mtime is taken again after the reload.
PublishMerged_Restat(w, t) ==
  /\ pc[t] = "merge"
  /\ todo[t] = <<>>
  /\ mem' = [mem EXCEPT ![w] = list[t]]
  /\ baseline' = [baseline EXCEPT ![w] = mtime]
  /\ Work(t, <<>>, <<>>)
  /\ Goto(t, "sleep")
  /\ UNCHANGED <<file, lock, prov, counters>>

\* The watcher, or the GIS thread, swaps its merged list in.
PublishMerged(w, t) ==
  /\ pc[t] = "merge"
  /\ todo[t] = <<>>
  /\ mem' = [mem EXCEPT ![w] = list[t]]
  /\ Work(t, <<>>, <<>>)
  /\ Goto(t, "sleep")
  /\ UNCHANGED <<file, lock, prov, baseline, counters>>

-----------------------------------------------------------------------------
Write(w) ==
  \/ ReadFile(w) \/ Edit(Loop(w)) \/ Abort(w) \/ Reassert(w) \/ WriteTmp(w)
  \/ Replace(w) \/ SaveFails(w) \/ Publish(w) \/ Unlock(w)

WatchStep(w) ==
  \/ WatchBegin(w) \/ WatchPoll(w) \/ WatchRead(w) \/ Edit(Watch(w))
  \/ PublishMerged(w, Watch(w))

GisStep(w) == Edit(Gis(w)) \/ PublishMerged(w, Gis(w))

Next ==
  \E w \in Workers :
    \/ Boot(w) \/ FinishBoot(w) \/ Crash(w) \/ Request(w) \/ LockFile(w)
    \/ Write(w) \/ WatchStep(w) \/ GisReload(w) \/ GisStep(w)

\* A process keeps running its threads until it is killed, and the kernel
\* queues flock waiters, so a writer that waits gets the lock at last.
Fairness ==
  \A w \in Workers :
    /\ SF_vars(LockFile(w))
    /\ WF_vars(Write(w) \/ FinishBoot(w))
    /\ WF_vars(WatchStep(w))
    /\ WF_vars(GisStep(w))

Spec == Init /\ [][Next]_vars
FairSpec == Spec /\ Fairness

-----------------------------------------------------------------------------
\* The inductive invariant behind the theorems: exactly the lock's owner is
\* inside the critical section, the temporary file is the owner's private list
\* when it is renamed, and nothing is left to do to that list then.
LockInv == \A w \in Workers : pc[Loop(w)] \in Locked <=> lock = w
TmpInv ==
  \A w \in Workers : pc[Loop(w)] = "replace" =>
    tmp = list[Loop(w)] /\ todo[Loop(w)] = <<>>
ProgramInv ==
  \A w \in Workers :
    /\ pc[Loop(w)] \in {"wait", "read"} => todo[Loop(w)] \in Requests
    /\ RootAMS /\ pc[Loop(w)] # "down" => prov[w] \in AmsFiles
WriterInv == TypeOK /\ LockInv /\ TmpInv /\ ProgramInv

\* A write's transaction: what the lock holder has read and not yet committed.
NoTxn == [copy |-> NoFile, left |-> <<>>]
InTxn(w) == pc[Loop(w)] \in {"apply", "reassert", "replace"}
CurrentTxn ==
  IF lock # Nobody /\ InTxn(lock)
  THEN [copy |-> list[Loop(lock)], left |-> todo[Loop(lock)]]
  ELSE NoTxn

Ledger == INSTANCE CoverageLedger
            WITH store <- disk, txn <- CurrentTxn, Lossy <- ReadErrors,
                 AmsFiles <- IF RootAMS THEN AmsFiles ELSE {}

\* No write is lost or torn: over the lock, the shared .tmp file, kills, failed
\* saves and exceptions under the lock, the file evolves as by one transaction
\* at a time on the content the previous one left (README, Multi-worker safety:
\* "serialized with a cross-process file lock").
SerialWrites == Ledger!Spec

\* An entry of the file is never replaced by an older one, even when workers
\* receive its versions out of order (_upsert_child_coverage's stamp test made
\* on the content read under the lock).  For a node that is not a root AMS,
\* requests that never delete and re-add one key, and a file that can be read.
StampsNeverRegress ==
  [][\A i \in DOMAIN disk, j \in DOMAIN disk' :
       SameKey(disk[i], disk'[j])
         => disk'[j].last_updated >= disk[i].last_updated]_disk

\* On a node that is not a root AMS, no list holds two entries with one
\* (source, source_id): deletes and lookups act on the first match only.
KeysUnique == \A l \in {disk} \cup {mem[w] : w \in Workers} : UniqueKeys(l)

\* Every entry of the provisioning file a root AMS has loaded is in the memory
\* of its workers at every instant they serve, whatever children delete or
\* overwrite and whatever reads fail.  For an operator file that is valid and
\* does not change under the workers.
ProvisioningInMemory ==
  \A w \in Workers : Serving(w) => ToSet(prov[w]) \subseteq ToSet(mem[w])

\* A worker whose memory differs from the file is one whose watcher will see
\* it at its next poll: the watcher may publish an older list over its own
\* worker's newer one, but never and then sleep on the current mtime.  For
\* workers started before the first write, an error-free file and an mtime
\* that moves at every save.
StaleMemoryIsNoticed ==
  \A w \in Workers :
    pc[Watch(w)] = "sleep" /\ baseline[w] = mtime => mem[w] = disk

\* Workers converge on each other's writes (README.md:207): once writes
\* stop, the memory of every serving worker is and stays the file's content.
WorkersConverge == <>[](\A w \in Workers : Serving(w) => mem[w] = disk)

\* A worker that waits for the file lock completes its write (or dies),
\* whatever happens to the writers before it.
WritesEnd ==
  \A w \in Workers :
    pc[Loop(w)] = "wait" ~> pc[Loop(w)] \in {"idle", "down"}
=============================================================================
