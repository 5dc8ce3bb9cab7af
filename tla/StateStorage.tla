---------------------------- MODULE StateStorage ----------------------------
(***************************************************************************)
(* The files Tether keeps in its state directory: state.json, and beside   *)
(* it the audit trail of what was committed to it (src/storage.rs,         *)
(* src/state.rs, src/audit.rs).  The configuration and the Agent view      *)
(* preference are kept by the same functions.                              *)
(*                                                                         *)
(* Several processes load, edit and save under two advisory locks, one on  *)
(* the directory and one on a lock file.  A save writes and syncs a        *)
(* temporary file, renames it over the old one and syncs the directory.    *)
(* Each of these steps may fail, and the process or the whole machine may  *)
(* go down between any two of them.                                        *)
(***************************************************************************)
EXTENDS Naturals, Sequences

CONSTANTS
  Processes,    \* processes that use the state directory
  Nobody,       \* the holder of a lock that is free
  Marks,        \* bound: the updates that may be begun
  NoMark,       \* what garbage holds instead
  MaxEntries    \* the ceiling of the trail (MAX_AUDIT_ENTRIES)

ASSUME NobodyAssumption == Nobody \notin Processes
ASSUME NoMarkAssumption == NoMark \notin Marks
ASSUME CeilingAssumption == MaxEntries \in Nat \ {0}

Files == {"state", "trail"}

\* A content stands for a file of that schema; its marks are the updates it
\* reflects, or the transitions a trail lists.
Content ==
  [format : {"old", "current", "newer", "garbage"}, marks : Seq(Marks \cup {NoMark})]

Fresh(version) == [format |-> version, marks |-> <<>>]
Empty == Fresh("current")
Torn == [format |-> "garbage", marks |-> <<NoMark>>]

VARIABLES
  visible,    \* per file: what opening its path gives
  onDisk,     \* per file: the contents a loss of power may leave at its path
  dirLock,    \* who holds the lock on the directory
  fileLock,   \* per file: who holds its lock file
  proc,       \* per process: the operation it is inside
  begun,      \* updates that were begun
  acked       \* updates whose caller was told that they succeeded

vars == <<visible, onDisk, dirLock, fileLock, proc, begun, acked>>

Kinds == {"update", "load", "read", "record"}

Inside == {"load", "edit", "write", "sync", "rename", "settle", "leave"}

\* next is the content to save, goal whether that is a migration, temp what
\* the temporary file is worth.
Process ==
  [pc : {"idle", "enter", "lock"} \cup Inside, kind : Kinds,
   mark : Marks \cup {NoMark}, next : Content, goal : {"migrate", "save"},
   temp : {"none", "written", "synced"}, ok : BOOLEAN]

Idle ==
  [pc |-> "idle", kind |-> "read", mark |-> NoMark, next |-> Empty,
   goal |-> "save", temp |-> "none", ok |-> FALSE]

Called(kind, m) == [Idle EXCEPT !.pc = "enter", !.kind = kind, !.mark = m]

File(p) == IF proc[p].kind = "record" THEN "trail" ELSE "state"

At(p, pc) == proc[p].pc = pc
Become(p, entry) == proc' = [proc EXCEPT ![p] = entry]
Goto(p, pc) == Become(p, [proc[p] EXCEPT !.pc = pc])
GoToWork(p, pc, next, goal) ==
  Become(p, [proc[p] EXCEPT !.pc = pc, !.next = next, !.goal = goal])
GoWithTemp(p, pc, temp) == Become(p, [proc[p] EXCEPT !.pc = pc, !.temp = temp])
Conclude(p, ok) ==
  Become(p, [proc[p] EXCEPT !.pc = "leave", !.temp = "none", !.ok = ok])

-----------------------------------------------------------------------------
(* Locks *)

\* The kernel releases what a process holds when it is closed, or dies.  The
\* file is unlocked before the directory, and only who holds that could tell.
Released(p) ==
  /\ dirLock' = IF dirLock = p THEN Nobody ELSE dirLock
  /\ fileLock' = [f \in Files |-> IF fileLock[f] = p THEN Nobody ELSE fileLock[f]]

EnterDirectory(p) ==
  /\ At(p, "enter")
  /\ dirLock = Nobody
  /\ dirLock' = p
  /\ Goto(p, "lock")
  /\ UNCHANGED <<visible, onDisk, fileLock, begun, acked>>

LockFile(p) ==
  /\ At(p, "lock")
  /\ fileLock[File(p)] = Nobody
  /\ fileLock' = [fileLock EXCEPT ![File(p)] = p]
  /\ Goto(p, "load")
  /\ UNCHANGED <<visible, onDisk, dirLock, begun, acked>>

-----------------------------------------------------------------------------
(* Operations *)

\* StateStore::update and exclusive, load, and load_read_only.
Begin(p, kind) ==
  /\ At(p, "idle")
  /\ kind # "record"
  /\ \E m \in IF kind = "update" THEN Marks \ begun ELSE {NoMark} :
       /\ Become(p, Called(kind, m))
       /\ begun' = begun \cup ({m} \cap Marks)
  /\ UNCHANGED <<visible, onDisk, dirLock, fileLock, acked>>

Migrated(content) == [content EXCEPT !.format = "current"]

\* An older schema is migrated, and rewritten unless the load is read-only; a
\* newer one and garbage are refused (load_unlocked_with_migration).
LoadState(p) ==
  /\ At(p, "load") /\ proc[p].kind # "record"
  /\ LET found == visible["state"]
         after == IF proc[p].kind = "update" THEN "edit" ELSE "leave"
     IN  CASE found.format \in {"newer", "garbage"} -> Conclude(p, FALSE)
           [] found.format = "old" /\ proc[p].kind # "read" ->
                GoToWork(p, "write", Migrated(found), "migrate")
           [] OTHER -> GoToWork(p, after, Migrated(found), "save")
  /\ UNCHANGED <<visible, onDisk, dirLock, fileLock, begun, acked>>

\* A trail that cannot be read, for whatever reason, is renamed out of the way,
\* unless that fails too, and a new one is begun (record_at).
LoadTrail(p) ==
  /\ At(p, "load") /\ proc[p].kind = "record"
  /\ \/ /\ visible["trail"].format = "current"
        /\ GoToWork(p, "edit", visible["trail"], "save")
        /\ UNCHANGED <<visible, onDisk>>
     \/ /\ GoToWork(p, "edit", Empty, "save")
        /\ \/ /\ visible' = [visible EXCEPT !["trail"] = Empty]
              /\ onDisk' = [onDisk EXCEPT !["trail"] = @ \cup {Empty}]
           \/ UNCHANGED <<visible, onDisk>>
  /\ UNCHANGED <<dirLock, fileLock, begun, acked>>

\* What retention by age, and then the ceiling, may leave of the entries
\* (retain_bounded).
Retained(entries) ==
  {SubSeq(entries, first, Len(entries)) :
     first \in {i \in 1..Len(entries) + 1 : Len(entries) - i < MaxEntries}}

Edit(p) ==
  /\ At(p, "edit")
  /\ LET edited == Append(proc[p].next.marks, proc[p].mark)
     IN  \E marks \in IF proc[p].kind = "record" THEN Retained(edited) ELSE {edited} :
           GoToWork(p, "write", [proc[p].next EXCEPT !.marks = marks], "save")
  /\ UNCHANGED <<visible, onDisk, dirLock, fileLock, begun, acked>>

-----------------------------------------------------------------------------
(* The atomic write (atomic_write_prepared_mode_with) *)

WriteTemp(p) ==
  /\ At(p, "write")
  /\ GoWithTemp(p, "sync", "written")
  /\ UNCHANGED <<visible, onDisk, dirLock, fileLock, begun, acked>>

\* Mutant: the temporary file is not synced before it is renamed.
SyncTempLazily(p) ==
  /\ At(p, "sync")
  /\ Goto(p, "rename")
  /\ UNCHANGED <<visible, onDisk, dirLock, fileLock, begun, acked>>

SyncTemp(p) ==
  /\ At(p, "sync")
  /\ GoWithTemp(p, "rename", "synced")
  /\ UNCHANGED <<visible, onDisk, dirLock, fileLock, begun, acked>>

\* The rename is visible at once.  What a loss of power leaves of it is up to
\* the file system until the directory is synced.
Rename(p) ==
  /\ At(p, "rename")
  /\ visible' = [visible EXCEPT ![File(p)] = proc[p].next]
  /\ onDisk' = [onDisk EXCEPT ![File(p)] =
                  @ \cup {IF proc[p].temp = "synced" THEN proc[p].next ELSE Torn}]
  /\ GoWithTemp(p, "settle", "none")
  /\ UNCHANGED <<dirLock, fileLock, begun, acked>>

\* A migration that was saved goes on to the edit it was loaded for.
SyncDirectory(p) ==
  /\ At(p, "settle")
  /\ onDisk' = [onDisk EXCEPT ![File(p)] = {visible[File(p)]}]
  /\ IF proc[p].goal = "migrate" /\ proc[p].kind = "update"
     THEN Goto(p, "edit")
     ELSE Conclude(p, TRUE)
  /\ UNCHANGED <<visible, dirLock, fileLock, begun, acked>>

-----------------------------------------------------------------------------
(* How an operation ends *)

\* Mutant: the trail is written inside the update it is about.
LeaveRecordingInside(p) ==
  /\ At(p, "leave")
  /\ IF proc[p].kind = "update" /\ proc[p].ok
     THEN /\ acked' = acked \cup {proc[p].mark}
          /\ Become(p, Called("record", proc[p].mark))
          /\ UNCHANGED <<dirLock, fileLock>>
     ELSE Become(p, Idle) /\ Released(p) /\ UNCHANGED acked
  /\ UNCHANGED <<visible, onDisk, begun>>

\* Mutant: the transition is noted however its update ended.
LeaveNotingFailures(p) ==
  /\ At(p, "leave")
  /\ Released(p)
  /\ IF proc[p].kind = "update"
     THEN /\ acked' = IF proc[p].ok THEN acked \cup {proc[p].mark} ELSE acked
          /\ Become(p, Called("record", proc[p].mark))
     ELSE Become(p, Idle) /\ UNCHANGED acked
  /\ UNCHANGED <<visible, onDisk, begun>>

\* Both locks are released whatever happened.  A committed transition is then
\* noted in the trail, in an operation of its own; an update that is none, such
\* as a change of a title, is not.
Leave(p) ==
  /\ At(p, "leave")
  /\ Released(p)
  /\ IF proc[p].kind = "update" /\ proc[p].ok
     THEN /\ acked' = acked \cup {proc[p].mark}
          /\ \/ Become(p, Called("record", proc[p].mark))
             \/ Become(p, Idle)
     ELSE Become(p, Idle) /\ UNCHANGED acked
  /\ UNCHANGED <<visible, onDisk, begun>>

\* A lock cannot be taken.
FailsToLock(p) ==
  /\ proc[p].pc \in {"enter", "lock"}
  /\ Released(p)
  /\ Become(p, Idle)
  /\ UNCHANGED <<visible, onDisk, begun, acked>>

\* Mutant: a directory that could not be synced is no reason to worry anybody.
FailsQuietly(p) ==
  /\ proc[p].pc \in Inside
  /\ Conclude(p, proc[p].pc \in {"settle", "leave"})
  /\ UNCHANGED <<visible, onDisk, dirLock, fileLock, begun, acked>>

\* The edit is refused or a step fails.  Before the rename the temporary file
\* is removed and nothing happened (PreCommit); after it the update is there,
\* but is reported as failed (PostCommitDurability), as it is when a lock cannot
\* be released.
Fails(p) ==
  /\ proc[p].pc \in Inside
  /\ Conclude(p, FALSE)
  /\ UNCHANGED <<visible, onDisk, dirLock, fileLock, begun, acked>>

Dies(p) ==
  /\ ~At(p, "idle")
  /\ Released(p)
  /\ Become(p, Idle)
  /\ UNCHANGED <<visible, onDisk, begun, acked>>

PowerFails ==
  /\ visible' \in [Files -> UNION {onDisk[f] : f \in Files}]
  /\ \A f \in Files : visible'[f] \in onDisk[f]
  /\ onDisk' = [f \in Files |-> {visible'[f]}]
  /\ dirLock' = Nobody
  /\ fileLock' = [f \in Files |-> Nobody]
  /\ proc' = [p \in Processes |-> Idle]
  /\ UNCHANGED <<begun, acked>>

-----------------------------------------------------------------------------
(* Specification *)

\* The state file is absent, of an older version or of a newer one; the trail
\* is absent or cannot be read.
Init ==
  /\ visible \in [Files -> {Fresh(version) : version \in {"old", "current", "newer"}}]
  /\ visible["trail"].format # "old"
  /\ onDisk = [f \in Files |-> {visible[f]}]
  /\ dirLock = Nobody
  /\ fileLock = [f \in Files |-> Nobody]
  /\ proc = [p \in Processes |-> Idle]
  /\ begun = {}
  /\ acked = {}

Step(p) ==
  \/ EnterDirectory(p) \/ LockFile(p)
  \/ LoadState(p) \/ LoadTrail(p) \/ Edit(p)
  \/ WriteTemp(p) \/ SyncTemp(p) \/ Rename(p) \/ SyncDirectory(p)
  \/ Leave(p)

Fault(p) == FailsToLock(p) \/ Fails(p) \/ Dies(p)

Next ==
  \/ \E p \in Processes : (\E kind \in Kinds : Begin(p, kind)) \/ Step(p) \/ Fault(p)
  \/ PowerFails

Spec == Init /\ [][Next]_vars

\* A process that runs takes its steps, and the kernel serves the waiters of a
\* lock in their order.
Fairness ==
  \A p \in Processes : WF_vars(Step(p)) /\ SF_vars(EnterDirectory(p))

LiveSpec == Spec /\ Fairness

-----------------------------------------------------------------------------
(* Properties *)

\* Every variable keeps its type, and the locks are held by whom they admitted.
TypeOK ==
  /\ visible \in [Files -> Content]
  /\ onDisk \in [Files -> SUBSET Content]
  /\ dirLock \in Processes \cup {Nobody}
  /\ fileLock \in [Files -> Processes \cup {Nobody}]
  /\ proc \in [Processes -> Process]
  /\ begun \subseteq Marks
  /\ acked \subseteq Marks
  /\ \A p \in Processes :
       /\ dirLock = p <=> proc[p].pc \in Inside \cup {"lock"}
       /\ \A f \in Files : fileLock[f] = p <=> proc[p].pc \in Inside /\ f = File(p)

\* The state file, to those who use it, is one on which updates are atomic and
\* durable (with_advisory_lock_mode, atomic_write_prepared_mode_with).
Atomic ==
  INSTANCE AtomicFile WITH
    value <- visible["state"].marks,
    safe <- {content.marks : content \in onDisk["state"]}

StateIsAtomic == Atomic!Spec

\* An update that was reported as successful survives every failure, and every
\* later update by others (StateStore::update).
AckedIsKept == Atomic!AckedIsKept

\* The trail lists only transitions that were committed for good, whatever
\* fails between a transition and its line (note, record_at).
TrailIsTrue ==
  \A content \in onDisk["trail"] \cup {visible["trail"]} :
    \A i \in DOMAIN content.marks : content.marks[i] \in acked

\* Nobody waits for ever: a trail is written after the update it is about has
\* released its locks, and every failure releases them too.
EveryoneFinishes ==
  \A p \in Processes : proc[p].pc # "idle" ~> proc[p].pc = "idle"
=============================================================================
