------------------------- MODULE StateStorageProofs -------------------------
(***************************************************************************)
(* For any processes and updates: the state file implements AtomicFile,    *)
(* what was reported as saved is kept, and the trail lists nothing else.   *)
(*                                                                         *)
(* The argument: the two locks admit one process at a time (TypeOK), so    *)
(* what that process loaded is still what the path gives when it renames   *)
(* (Current); what is renamed was synced; and what is acknowledged is in   *)
(* everything a loss of power may leave (Durable).                         *)
(***************************************************************************)
EXTENDS StateStorage, SequenceTheorems, TLAPS

HasMark(m, marks) == \E i \in DOMAIN marks : marks[i] = m

Saving == {"write", "sync", "rename"}

\* What p is about to save is what p found, or that with p's update.
Current(p) ==
  LET latest == visible["state"].marks
      it == proc[p]
  IN  it.kind # "record" =>
        /\ it.pc = "edit" => it.kind = "update" /\ it.next.marks = latest
        /\ it.pc \in Saving =>
             it.next.marks = IF it.goal = "migrate" THEN latest
                                                    ELSE Append(latest, it.mark)
        /\ it.pc \in Saving /\ it.goal = "save" => it.kind = "update"
        /\ it.pc = "settle" => it.next.marks = latest
        /\ it.pc = "settle" /\ it.goal = "save" => HasMark(it.mark, latest)
        /\ it.pc = "settle" /\ it.goal = "save" => it.kind = "update"

\* What is acknowledged, or about to be, survives a loss of power.
Durable ==
  /\ \A f \in Files : visible[f] \in onDisk[f]
  /\ \A m \in acked : \A content \in onDisk["state"] : HasMark(m, content.marks)
  /\ \A p \in Processes :
       /\ At(p, "rename") => proc[p].temp = "synced"
       /\ At(p, "leave") /\ proc[p].kind = "update" /\ proc[p].ok =>
            \A content \in onDisk["state"] : HasMark(proc[p].mark, content.marks)

UpdateNames == \A p \in Processes : proc[p].kind = "update" => proc[p].mark \in Marks

StorageInv ==
  TypeOK /\ UpdateNames /\ Durable /\ \A p \in Processes : Current(p)

-----------------------------------------------------------------------------
(* Types and locks *)

LEMMA EmptyIsContent == Empty \in Content /\ Torn \in Content
BY DEF Fresh, Empty, Torn, Content

LEMMA IdleIsProcess == Idle \in Process
BY EmptyIsContent DEF Idle, Process, Inside, Kinds

\* What retention leaves is a sequence of some of the entries.
LEMMA RetainedEntries ==
  ASSUME NEW S, NEW entries \in Seq(S), NEW kept \in Retained(entries)
  PROVE  /\ kept \in Seq(S)
         /\ \A i \in DOMAIN kept : \E j \in DOMAIN entries : kept[i] = entries[j]
<1>1. PICK first \in 1..Len(entries) + 1 : kept = SubSeq(entries, first, Len(entries))
  BY DEF Retained
<1>2. first \in Nat /\ first >= 1 /\ Len(entries) \in Nat
  BY <1>1, LenProperties
<1> QED
  BY <1>1, <1>2, SubSeqProperties, LenProperties

LEMMA Start == Init => StorageInv
<1> SUFFICES ASSUME Init PROVE StorageInv
  OBVIOUS
<1> DEFINE Versions == {"old", "current", "newer"}
<1>a. \A version \in Versions : Fresh(version) \in Content
  BY DEF Fresh, Content
<1>b. {Fresh(version) : version \in Versions} \subseteq Content
  BY <1>a
<1>1. visible \in [Files -> Content]
  BY <1>b DEF Init
<1>2. TypeOK
  BY <1>1, IdleIsProcess, NobodyAssumption DEF Init, TypeOK, Idle, Inside
<1>3. UpdateNames /\ Durable /\ \A p \in Processes : Current(p)
  BY DEF Init, UpdateNames, Durable, Current, Idle, At, Saving
<1> QED
  BY <1>2, <1>3 DEF StorageInv

\* A step of one process leaves the entries of the others alone.
LEMMA OnlyItsEntry ==
  ASSUME TypeOK, NEW p \in Processes, NEW entry \in Process, Become(p, entry)
  PROVE  /\ proc' \in [Processes -> Process]
         /\ proc'[p] = entry
         /\ \A q \in Processes \ {p} : proc'[q] = proc[q]
BY DEF TypeOK, Become

\* A process that calls an operation has only its name, and its mark.
LEMMA Calls ==
  ASSUME NEW kind, NEW m
  PROVE  /\ Called(kind, m).pc = "enter" /\ Called(kind, m).kind = kind
         /\ Called(kind, m).mark = m /\ Called(kind, m).next = Empty
BY DEF Called, Idle

\* p takes a step inside the locks, in the operation it is in.
MovesInside(p) ==
  /\ proc' \in [Processes -> Process]
  /\ proc'[p].pc \in Inside
  /\ proc'[p].kind = proc[p].kind /\ proc'[p].mark = proc[p].mark
  /\ \A q \in Processes \ {p} : proc'[q] = proc[q]

\* The four ways to take such a step.
LEMMA GotoMoves ==
  ASSUME TypeOK, NEW p \in Processes, NEW pc \in Inside, Goto(p, pc)
  PROVE  /\ MovesInside(p) /\ proc'[p].pc = pc
         /\ proc'[p].next = proc[p].next /\ proc'[p].goal = proc[p].goal
         /\ proc'[p].temp = proc[p].temp
<1> DEFINE r == proc[p]
           entry == [r EXCEPT !.pc = pc]
<1>1. r \in Process
  BY DEF TypeOK
<1> HIDE DEF r
<1>2. /\ entry \in Process /\ entry.pc = pc /\ entry.kind = r.kind
      /\ entry.mark = r.mark /\ entry.next = r.next /\ entry.goal = r.goal
      /\ entry.temp = r.temp
  BY <1>1 DEF Process
<1>3. Become(p, entry)
  BY DEF Goto, r
<1> HIDE DEF entry
<1> QED
  BY <1>2, <1>3, OnlyItsEntry DEF MovesInside, r

LEMMA WorkMoves ==
  ASSUME TypeOK, NEW p \in Processes, NEW pc \in Inside, NEW next \in Content,
         NEW goal \in {"migrate", "save"}, GoToWork(p, pc, next, goal)
  PROVE  /\ MovesInside(p) /\ proc'[p].pc = pc
         /\ proc'[p].next = next /\ proc'[p].goal = goal
         /\ proc'[p].ok = proc[p].ok
<1> DEFINE r == proc[p]
           entry == [r EXCEPT !.pc = pc, !.next = next, !.goal = goal]
<1>1. r \in Process
  BY DEF TypeOK
<1> HIDE DEF r
<1>2. /\ entry \in Process /\ entry.pc = pc /\ entry.kind = r.kind
      /\ entry.mark = r.mark /\ entry.next = next /\ entry.goal = goal
      /\ entry.ok = r.ok
  BY <1>1 DEF Process
<1>3. Become(p, entry)
  BY DEF GoToWork, r
<1> HIDE DEF entry
<1> QED
  BY <1>2, <1>3, OnlyItsEntry DEF MovesInside, r

LEMMA TempMoves ==
  ASSUME TypeOK, NEW p \in Processes, NEW pc \in Inside,
         NEW temp \in {"none", "written", "synced"}, GoWithTemp(p, pc, temp)
  PROVE  /\ MovesInside(p) /\ proc'[p].pc = pc /\ proc'[p].temp = temp
         /\ proc'[p].next = proc[p].next /\ proc'[p].goal = proc[p].goal
<1> DEFINE r == proc[p]
           entry == [r EXCEPT !.pc = pc, !.temp = temp]
<1>1. r \in Process
  BY DEF TypeOK
<1> HIDE DEF r
<1>2. /\ entry \in Process /\ entry.pc = pc /\ entry.kind = r.kind
      /\ entry.mark = r.mark /\ entry.next = r.next /\ entry.goal = r.goal
      /\ entry.temp = temp
  BY <1>1 DEF Process
<1>3. Become(p, entry)
  BY DEF GoWithTemp, r
<1> HIDE DEF entry
<1> QED
  BY <1>2, <1>3, OnlyItsEntry DEF MovesInside, r

LEMMA ConcludeMoves ==
  ASSUME TypeOK, NEW p \in Processes, NEW ok \in BOOLEAN, Conclude(p, ok)
  PROVE  /\ MovesInside(p) /\ proc'[p].pc = "leave" /\ proc'[p].ok = ok
         /\ proc'[p].next = proc[p].next /\ proc'[p].goal = proc[p].goal
<1> DEFINE r == proc[p]
           entry == [r EXCEPT !.pc = "leave", !.temp = "none", !.ok = ok]
<1>1. r \in Process
  BY DEF TypeOK
<1> HIDE DEF r
<1>2. /\ entry \in Process /\ entry.pc = "leave" /\ entry.kind = r.kind
      /\ entry.mark = r.mark /\ entry.next = r.next /\ entry.goal = r.goal
  BY <1>1 DEF Process, Inside
<1>3. entry.ok = ok
  BY <1>1 DEF Process
<1>4. Become(p, entry)
  BY DEF Conclude, r
<1> HIDE DEF entry
<1> QED
  BY <1>2, <1>3, <1>4, OnlyItsEntry DEF MovesInside, r, Inside

\* An operation that stays inside needs no change of the locks.
LEMMA SameLocks ==
  ASSUME TypeOK, UpdateNames, NEW p \in Processes, MovesInside(p), proc[p].pc \in Inside,
         UNCHANGED <<dirLock, fileLock, begun, acked>>,
         visible' \in [Files -> Content], onDisk' \in [Files -> SUBSET Content]
  PROVE  TypeOK' /\ UpdateNames'
<1>1. \A q \in Processes :
        /\ dirLock' = q <=> proc'[q].pc \in Inside \cup {"lock"}
        /\ \A f \in Files : fileLock'[f] = q <=> proc'[q].pc \in Inside /\ f = File(q)'
  BY DEF TypeOK, MovesInside, File
<1> QED
  BY <1>1 DEF TypeOK, UpdateNames, MovesInside

\* Going idle, or to another operation's entrance, with the locks released.
LEMMA GivingUp ==
  ASSUME TypeOK, NEW p \in Processes, NEW entry \in Process, Become(p, entry),
         entry.pc \in {"idle", "enter"}, Released(p),
         acked' \subseteq Marks, UNCHANGED <<visible, onDisk, begun>>
  PROVE  TypeOK'
BY OnlyItsEntry, NobodyAssumption DEF TypeOK, File, Released, Inside

LEMMA MigratedContent ==
  ASSUME NEW content \in Content
  PROVE  Migrated(content) \in Content /\ Migrated(content).marks = content.marks
BY DEF Content, Migrated

\* What an edit saves: the update's mark is added, and a trail is cut back.
LEMMA Edits ==
  ASSUME TypeOK, NEW p \in Processes, Edit(p)
  PROVE  \E next \in Content :
           /\ GoToWork(p, "write", next, "save")
           /\ proc[p].kind # "record" =>
                next.marks = Append(proc[p].next.marks, proc[p].mark)
           /\ \A i \in DOMAIN next.marks :
                \/ next.marks[i] = proc[p].mark
                \/ \E j \in DOMAIN proc[p].next.marks :
                     next.marks[i] = proc[p].next.marks[j]
<1> DEFINE held == proc[p].next
           old == held.marks
           edited == Append(old, proc[p].mark)
<1>1. held \in Content /\ proc[p].mark \in Marks \cup {NoMark}
  BY DEF TypeOK, Process
<1>2. old \in Seq(Marks \cup {NoMark})
  BY <1>1 DEF Content
<1>3. /\ edited \in Seq(Marks \cup {NoMark})
      /\ \A i \in DOMAIN edited : edited[i] = proc[p].mark
                                    \/ \E j \in DOMAIN old : edited[i] = old[j]
  BY <1>1, <1>2, AppendProperties
<1>4. PICK marks \in IF proc[p].kind = "record" THEN Retained(edited) ELSE {edited} :
        GoToWork(p, "write", [held EXCEPT !.marks = marks], "save")
  BY DEF Edit
<1> HIDE DEF edited, old
<1>5. /\ marks \in Seq(Marks \cup {NoMark})
      /\ \A i \in DOMAIN marks : \E j \in DOMAIN edited : marks[i] = edited[j]
  <2>1. CASE proc[p].kind = "record"
    BY <1>3, <1>4, <2>1, RetainedEntries
  <2>2. CASE proc[p].kind # "record"
    BY <1>3, <1>4, <2>2
  <2> QED
    BY <2>1, <2>2
<1> DEFINE next == [held EXCEPT !.marks = marks]
<1>6. next \in Content /\ next.marks = marks
  BY <1>1, <1>5 DEF Content
<1>7. proc[p].kind # "record" => marks = edited
  BY <1>4
<1> HIDE DEF next
<1>8. /\ GoToWork(p, "write", next, "save")
      /\ proc[p].kind # "record" => next.marks = edited
      /\ \A i \in DOMAIN next.marks :
           \/ next.marks[i] = proc[p].mark
           \/ \E j \in DOMAIN old : next.marks[i] = old[j]
  BY <1>3, <1>4, <1>5, <1>6, <1>7 DEF next
<1> QED
  BY <1>6, <1>8 DEF edited, old

LEMMA TypeStep ==
  ASSUME TypeOK, UpdateNames, Next PROVE TypeOK' /\ UpdateNames'
<1> USE EmptyIsContent, IdleIsProcess, OnlyItsEntry
<1>1. ASSUME NEW p \in Processes, NEW kind \in Kinds, Begin(p, kind)
      PROVE  TypeOK' /\ UpdateNames'
  <2>1. PICK m \in Marks \cup {NoMark} :
          /\ kind = "update" => m \in Marks
          /\ Become(p, Called(kind, m))
          /\ begun' = begun \cup ({m} \cap Marks)
    BY <1>1 DEF Begin
  <2> DEFINE entry == Called(kind, m)
  <2>2. entry \in Process /\ entry.pc = "enter" /\ entry.kind = kind /\ entry.mark = m
    BY Calls DEF Called, Process, Idle
  <2> HIDE DEF entry
  <2>3. Become(p, entry) /\ proc[p].pc = "idle"
    BY <1>1, <2>1 DEF entry, Begin, At
  <2>4. UNCHANGED <<visible, onDisk, dirLock, fileLock, acked>> /\ begun' \subseteq Marks
    BY <1>1, <2>1 DEF Begin, TypeOK
  <2>5. \A q \in Processes :
          /\ dirLock' = q <=> proc'[q].pc \in Inside \cup {"lock"}
          /\ \A f \in Files : fileLock'[f] = q <=> proc'[q].pc \in Inside /\ f = File(q)'
    BY <2>2, <2>3, <2>4 DEF TypeOK, File, Inside
  <2> QED
    BY <2>1, <2>2, <2>3, <2>4, <2>5 DEF TypeOK, UpdateNames
<1>2. ASSUME NEW p \in Processes, EnterDirectory(p) PROVE TypeOK' /\ UpdateNames'
  <2> DEFINE entry == [proc[p] EXCEPT !.pc = "lock"]
  <2>1. entry \in Process /\ entry.pc = "lock" /\ entry.kind = proc[p].kind
          /\ entry.mark = proc[p].mark
    BY DEF TypeOK, Process
  <2>2. Become(p, entry) /\ proc[p].pc = "enter" /\ dirLock = Nobody /\ dirLock' = p
          /\ UNCHANGED <<visible, onDisk, fileLock, begun, acked>>
    BY <1>2 DEF EnterDirectory, Goto, At
  <2> HIDE DEF entry
  <2> QED
    BY <2>1, <2>2, NobodyAssumption DEF TypeOK, UpdateNames, File, Inside
<1>3. ASSUME NEW p \in Processes, LockFile(p) PROVE TypeOK' /\ UpdateNames'
  <2> DEFINE entry == [proc[p] EXCEPT !.pc = "load"]
  <2>1. entry \in Process /\ entry.pc = "load" /\ entry.kind = proc[p].kind
          /\ entry.mark = proc[p].mark
    BY DEF TypeOK, Process, Inside
  <2>2. Become(p, entry) /\ proc[p].pc = "lock" /\ fileLock[File(p)] = Nobody
          /\ fileLock' = [fileLock EXCEPT ![File(p)] = p]
          /\ UNCHANGED <<visible, onDisk, dirLock, begun, acked>>
    BY <1>3 DEF LockFile, Goto, At
  <2> HIDE DEF entry
  <2>3. File(p) \in Files /\ File(p)' = File(p)
    BY <2>1, <2>2 DEF File, Files
  <2>4. \A q \in Processes : File(q)' = File(q)
    BY <2>1, <2>2, <2>3 DEF File
  <2>5. \A q \in Processes : \A f \in Files :
          fileLock'[f] = q <=> proc'[q].pc \in Inside /\ f = File(q)
    BY <2>1, <2>2, <2>3, NobodyAssumption DEF TypeOK, Inside
  <2> QED
    BY <2>1, <2>2, <2>3, <2>4, <2>5, NobodyAssumption DEF TypeOK, UpdateNames, Inside
<1>4. ASSUME NEW p \in Processes, LoadState(p) PROVE TypeOK' /\ UpdateNames'
  <2>1. Migrated(visible["state"]) \in Content
    BY MigratedContent DEF TypeOK, Files
  <2>2. MovesInside(p)
    BY <1>4, <2>1, ConcludeMoves, WorkMoves DEF LoadState, Inside
  <2>3. proc[p].pc \in Inside /\ UNCHANGED <<visible, onDisk, dirLock, fileLock, begun, acked>>
    BY <1>4 DEF LoadState, At, Inside
  <2> QED
    BY <2>2, <2>3, SameLocks DEF TypeOK
<1>5. ASSUME NEW p \in Processes, LoadTrail(p) PROVE TypeOK' /\ UpdateNames'
  <2>1. visible["trail"] \in Content
    BY DEF TypeOK, Files
  <2>2. MovesInside(p)
    BY <1>5, <2>1, WorkMoves DEF LoadTrail, Inside
  <2>3. proc[p].pc \in Inside /\ UNCHANGED <<dirLock, fileLock, begun, acked>>
    BY <1>5 DEF LoadTrail, At, Inside
  <2>4. visible' \in [Files -> Content] /\ onDisk' \in [Files -> SUBSET Content]
    BY <1>5 DEF LoadTrail, TypeOK, Files
  <2> QED
    BY <2>2, <2>3, <2>4, SameLocks
<1>6. ASSUME NEW p \in Processes, Edit(p) PROVE TypeOK' /\ UpdateNames'
  <2>1. PICK next \in Content : GoToWork(p, "write", next, "save")
    BY <1>6, Edits
  <2>2. MovesInside(p)
    BY <2>1, WorkMoves DEF Inside
  <2>3. proc[p].pc \in Inside /\ UNCHANGED <<visible, onDisk, dirLock, fileLock, begun, acked>>
    BY <1>6 DEF Edit, At, Inside
  <2> QED
    BY <2>2, <2>3, SameLocks DEF TypeOK
<1>7. ASSUME NEW p \in Processes, WriteTemp(p) \/ SyncTemp(p)
      PROVE  TypeOK' /\ UpdateNames'
  <2>1. MovesInside(p)
    BY <1>7, TempMoves DEF WriteTemp, SyncTemp, Inside
  <2>2. proc[p].pc \in Inside /\ UNCHANGED <<visible, onDisk, dirLock, fileLock, begun, acked>>
    BY <1>7 DEF WriteTemp, SyncTemp, At, Inside
  <2> QED
    BY <2>1, <2>2, SameLocks DEF TypeOK
<1>8. ASSUME NEW p \in Processes, Rename(p) PROVE TypeOK' /\ UpdateNames'
  <2>1. MovesInside(p)
    BY <1>8, TempMoves DEF Rename, Inside
  <2>2. proc[p].pc \in Inside /\ UNCHANGED <<dirLock, fileLock, begun, acked>>
    BY <1>8 DEF Rename, At, Inside
  <2>3. proc[p].next \in Content /\ File(p) \in Files
    BY DEF TypeOK, Process, File, Files
  <2>4. visible' \in [Files -> Content] /\ onDisk' \in [Files -> SUBSET Content]
    BY <1>8, <2>3 DEF Rename, TypeOK
  <2> QED
    BY <2>1, <2>2, <2>4, SameLocks
<1>9. ASSUME NEW p \in Processes, SyncDirectory(p) PROVE TypeOK' /\ UpdateNames'
  <2>1. MovesInside(p)
    BY <1>9, GotoMoves, ConcludeMoves DEF SyncDirectory, Inside
  <2>2. proc[p].pc \in Inside /\ UNCHANGED <<visible, dirLock, fileLock, begun, acked>>
    BY <1>9 DEF SyncDirectory, At, Inside
  <2>3. visible' \in [Files -> Content] /\ onDisk' \in [Files -> SUBSET Content]
    BY <1>9, <2>2 DEF SyncDirectory, TypeOK, File, Files
  <2> QED
    BY <2>1, <2>2, <2>3, SameLocks
<1>10. ASSUME NEW p \in Processes, Leave(p) PROVE TypeOK' /\ UpdateNames'
  <2>1. PICK entry \in Process :
          /\ Become(p, entry)
          /\ entry.pc \in {"idle", "enter"} /\ entry.kind # "update"
    <3>1. Called("record", proc[p].mark) \in Process
      BY DEF TypeOK, Process, Called, Idle, Kinds
    <3>2. /\ Called("record", proc[p].mark).pc = "enter"
          /\ Called("record", proc[p].mark).kind = "record"
      BY Calls
    <3>3. Idle \in Process /\ Idle.pc = "idle" /\ Idle.kind = "read"
      BY EmptyIsContent DEF Idle, Process, Kinds
    <3> QED
      BY <1>10, <3>1, <3>2, <3>3 DEF Leave
  <2>2. acked' \subseteq Marks
    BY <1>10 DEF Leave, TypeOK, UpdateNames
  <2>3. Released(p) /\ UNCHANGED <<visible, onDisk, begun>>
    BY <1>10 DEF Leave
  <2> QED
    BY <2>1, <2>2, <2>3, GivingUp DEF TypeOK, UpdateNames
<1>11. ASSUME NEW p \in Processes, FailsToLock(p) \/ Dies(p)
       PROVE  TypeOK' /\ UpdateNames'
  <2>1. Become(p, Idle) /\ Released(p) /\ UNCHANGED <<visible, onDisk, begun, acked>>
    BY <1>11 DEF FailsToLock, Dies
  <2>2. Idle.pc = "idle" /\ Idle.kind = "read"
    BY DEF Idle
  <2> QED
    BY <2>1, <2>2, GivingUp DEF TypeOK, UpdateNames
<1>12. ASSUME NEW p \in Processes, Fails(p) PROVE TypeOK' /\ UpdateNames'
  <2>1. MovesInside(p)
    BY <1>12, ConcludeMoves DEF Fails
  <2>2. proc[p].pc \in Inside /\ UNCHANGED <<visible, onDisk, dirLock, fileLock, begun, acked>>
    BY <1>12 DEF Fails
  <2> QED
    BY <2>1, <2>2, SameLocks DEF TypeOK
<1>13. CASE PowerFails
  <2>1. visible' \in [Files -> Content] /\ onDisk' \in [Files -> SUBSET Content]
    BY <1>13 DEF PowerFails, TypeOK
  <2>2. Idle.pc = "idle" /\ Idle.kind = "read"
    BY DEF Idle
  <2> QED
    BY <1>13, <2>1, <2>2, NobodyAssumption DEF PowerFails, TypeOK, UpdateNames, Inside
<1> QED
  BY <1>1, <1>2, <1>3, <1>4, <1>5, <1>6, <1>7, <1>8, <1>9, <1>10, <1>11, <1>12, <1>13
  DEF Next, Step, Fault

\* Every variable keeps its type, and at any moment at most the process that
\* holds both locks is inside an operation.
THEOREM TypeCorrect == Spec => []TypeOK
<1>1. Init => TypeOK /\ UpdateNames
  BY Start DEF StorageInv
<1>2. TypeOK /\ UpdateNames /\ [Next]_vars => (TypeOK /\ UpdateNames)'
  <2> SUFFICES ASSUME TypeOK, UpdateNames, [Next]_vars PROVE (TypeOK /\ UpdateNames)'
    OBVIOUS
  <2>1. CASE Next
    BY <2>1, TypeStep
  <2>2. CASE UNCHANGED vars
    BY <2>2 DEF vars, TypeOK, UpdateNames, File
  <2> QED
    BY <2>1, <2>2
<1> QED
  BY <1>1, <1>2, PTL DEF Spec

-----------------------------------------------------------------------------
(* What is renamed is current, and what is acknowledged is durable *)

LEMMA Alone ==
  ASSUME TypeOK, NEW p \in Processes, NEW q \in Processes, p # q,
         proc[p].pc \in Inside
  PROVE  proc[q].pc \notin Inside
BY DEF TypeOK

\* Another process's step disturbs a saving process only by a rename, and it
\* cannot rename while that one holds the locks.
LEMMA OthersStayCurrent ==
  ASSUME NEW q \in Processes, Current(q), proc'[q] = proc[q],
         visible'["state"] = visible["state"] \/ proc[q].pc \notin Inside
  PROVE  Current(q)'
BY DEF Current, Inside, Saving

\* A step that leaves the files and the acknowledgements alone.
LEMMA DurableBesides ==
  ASSUME Durable, NEW p \in Processes,
         UNCHANGED <<visible, onDisk, acked>>,
         \A q \in Processes \ {p} : proc'[q] = proc[q],
         proc'[p].pc = "rename" => proc'[p].temp = "synced",
         proc'[p].pc = "leave" => ~proc'[p].ok \/ proc'[p].kind # "update"
  PROVE  Durable'
BY DEF Durable, At

LEMMA AppendedMark ==
  ASSUME NEW marks \in Seq(Marks \cup {NoMark}), NEW mark \in Marks \cup {NoMark}, NEW m,
         HasMark(m, marks) \/ m = mark
  PROVE  HasMark(m, Append(marks, mark))
<1> DEFINE longer == Append(marks, mark)
<1>1. /\ DOMAIN longer = 1..Len(marks) + 1 /\ longer[Len(marks) + 1] = mark
      /\ DOMAIN marks = 1..Len(marks) /\ Len(marks) \in Nat
      /\ \A i \in 1..Len(marks) : longer[i] = marks[i]
  BY AppendProperties, LenProperties
<1> HIDE DEF longer
<1>2. HasMark(m, longer)
  BY <1>1 DEF HasMark
<1> QED
  BY <1>2 DEF longer

LEMMA DurableStep ==
  ASSUME StorageInv, Next PROVE Durable' /\ \A q \in Processes : Current(q)'
<1> USE DEF StorageInv
<1>1. ASSUME NEW p \in Processes,
             \/ \E kind \in Kinds : Begin(p, kind)
             \/ EnterDirectory(p) \/ LockFile(p)
             \/ FailsToLock(p) \/ Dies(p)
      PROVE  Durable' /\ \A q \in Processes : Current(q)'
  <2>1. UNCHANGED <<visible, onDisk, acked>>
    BY <1>1 DEF Begin, EnterDirectory, LockFile, FailsToLock, Dies
  <2>0. PICK entry : Become(p, entry) /\ entry.pc \in {"enter", "lock", "load", "idle"}
    <3>1. CASE \E kind \in Kinds : Begin(p, kind)
      <4>1. PICK kind \in Kinds, m \in Marks \cup {NoMark} :
              Become(p, Called(kind, m))
        BY <3>1 DEF Begin
      <4>2. Called(kind, m).pc = "enter"
        BY Calls
      <4> QED
        BY <4>1, <4>2
    <3>2. CASE EnterDirectory(p) \/ LockFile(p)
      <4>1. proc[p] \in Process
        BY DEF TypeOK
      <4>2. \A pc \in {"lock", "load"} : [proc[p] EXCEPT !.pc = pc].pc = pc
        BY <4>1 DEF Process
      <4> QED
        BY <3>2, <4>2 DEF EnterDirectory, LockFile, Goto
    <3>3. CASE FailsToLock(p) \/ Dies(p)
      BY <3>3 DEF FailsToLock, Dies, Idle
    <3> QED
      BY <1>1, <3>1, <3>2, <3>3
  <2>2. /\ \A q \in Processes \ {p} : proc'[q] = proc[q]
        /\ proc'[p].pc \in {"enter", "lock", "load", "idle"}
    BY <2>0 DEF Become, TypeOK
  <2>3. Durable'
    BY <2>1, <2>2, DurableBesides
  <2>4. Current(p)'
    BY <2>2 DEF Current, Saving
  <2> QED
    BY <2>1, <2>2, <2>3, <2>4, OthersStayCurrent
<1>2. ASSUME NEW p \in Processes, LoadState(p)
      PROVE  Durable' /\ \A q \in Processes : Current(q)'
  <2> DEFINE found == visible["state"]
  <2>1. /\ found \in Content /\ Migrated(found) \in Content
        /\ Migrated(found).marks = found.marks
    BY MigratedContent DEF TypeOK, Files
  <2>2. UNCHANGED <<visible, onDisk, acked>> /\ proc[p].kind # "record"
    BY <1>2 DEF LoadState
  <2>3. \/ Conclude(p, FALSE)
        \/ GoToWork(p, "write", Migrated(found), "migrate")
        \/ proc[p].kind = "update" /\ GoToWork(p, "edit", Migrated(found), "save")
        \/ proc[p].kind # "update" /\ GoToWork(p, "leave", Migrated(found), "save")
    BY <1>2 DEF LoadState
  <2> HIDE DEF found
  <2>4. CASE Conclude(p, FALSE)
    <3>1. MovesInside(p) /\ proc'[p].pc = "leave" /\ proc'[p].ok = FALSE
      BY <2>4, ConcludeMoves
    <3> QED
      BY <2>2, <3>1, DurableBesides, OthersStayCurrent DEF MovesInside, Current, Saving
  <2>5. CASE GoToWork(p, "write", Migrated(found), "migrate")
    <3>1. /\ MovesInside(p) /\ proc'[p].pc = "write" /\ proc'[p].goal = "migrate"
          /\ proc'[p].next.marks = found.marks
      BY <2>1, <2>5, WorkMoves DEF Inside
    <3> QED
      BY <2>2, <3>1, DurableBesides, OthersStayCurrent DEF MovesInside, Current, Saving, found
  <2>6. CASE proc[p].kind = "update" /\ GoToWork(p, "edit", Migrated(found), "save")
    <3>1. /\ MovesInside(p) /\ proc'[p].pc = "edit"
          /\ proc'[p].next.marks = found.marks
      BY <2>1, <2>6, WorkMoves DEF Inside
    <3> QED
      BY <2>2, <2>6, <3>1, DurableBesides, OthersStayCurrent DEF MovesInside, Current, Saving, found
  <2>7. CASE proc[p].kind # "update" /\ GoToWork(p, "leave", Migrated(found), "save")
    <3>1. MovesInside(p) /\ proc'[p].pc = "leave"
      BY <2>1, <2>7, WorkMoves DEF Inside
    <3> QED
      BY <2>2, <2>7, <3>1, DurableBesides, OthersStayCurrent DEF MovesInside, Current, Saving
  <2> QED
    BY <2>3, <2>4, <2>5, <2>6, <2>7
<1>3. ASSUME NEW p \in Processes, LoadTrail(p)
      PROVE  Durable' /\ \A q \in Processes : Current(q)'
  <2>1. visible["trail"] \in Content
    BY DEF TypeOK, Files
  <2>2. MovesInside(p) /\ proc'[p].pc = "edit" /\ proc[p].kind = "record"
    BY <1>3, <2>1, EmptyIsContent, WorkMoves DEF LoadTrail, Inside
  <2>3. /\ visible'["state"] = visible["state"] /\ onDisk'["state"] = onDisk["state"]
        /\ acked' = acked /\ \A f \in Files : visible'[f] \in onDisk'[f]
    BY <1>3 DEF LoadTrail, TypeOK, Files, Durable
  <2>4. Durable'
    BY <2>2, <2>3 DEF Durable, MovesInside, At
  <2> QED
    BY <2>2, <2>3, <2>4, OthersStayCurrent DEF MovesInside, Current, Saving
<1>4. ASSUME NEW p \in Processes, Edit(p)
      PROVE  Durable' /\ \A q \in Processes : Current(q)'
  <2>1. PICK next \in Content :
          /\ GoToWork(p, "write", next, "save")
          /\ proc[p].kind # "record" =>
               next.marks = Append(proc[p].next.marks, proc[p].mark)
    BY <1>4, Edits
  <2>2. UNCHANGED <<visible, onDisk, acked>> /\ proc[p].pc = "edit"
    BY <1>4 DEF Edit, At
  <2>3. /\ MovesInside(p) /\ proc'[p].pc = "write" /\ proc'[p].goal = "save"
        /\ proc'[p].next = next
    BY <2>1, WorkMoves DEF Inside
  <2>4. Durable'
    BY <2>2, <2>3, DurableBesides DEF MovesInside
  <2>5. Current(p)'
    BY <2>1, <2>2, <2>3 DEF Current, MovesInside, Saving
  <2> QED
    BY <2>2, <2>3, <2>4, <2>5, OthersStayCurrent DEF MovesInside
<1>5. ASSUME NEW p \in Processes, WriteTemp(p) \/ SyncTemp(p)
      PROVE  Durable' /\ \A q \in Processes : Current(q)'
  <2>1. UNCHANGED <<visible, onDisk, acked>> /\ proc[p].pc \in Saving
    BY <1>5 DEF WriteTemp, SyncTemp, At, Saving
  <2>2. /\ MovesInside(p) /\ proc'[p].pc \in {"sync", "rename"}
        /\ proc'[p].pc = "rename" => proc'[p].temp = "synced"
        /\ proc'[p].next = proc[p].next /\ proc'[p].goal = proc[p].goal
    BY <1>5, TempMoves DEF WriteTemp, SyncTemp, Inside
  <2>3. Durable'
    BY <2>1, <2>2, DurableBesides DEF MovesInside
  <2>4. Current(p)'
    BY <2>1, <2>2 DEF Current, MovesInside, Saving
  <2> QED
    BY <2>1, <2>2, <2>3, <2>4, OthersStayCurrent DEF MovesInside
<1>6. ASSUME NEW p \in Processes, Rename(p)
      PROVE  Durable' /\ \A q \in Processes : Current(q)'
  <2> DEFINE it == proc[p]
           f == File(p)
  <2>1. /\ it.pc = "rename" /\ it.temp = "synced" /\ f \in Files /\ acked' = acked
        /\ visible' = [visible EXCEPT ![f] = it.next]
        /\ onDisk' = [onDisk EXCEPT ![f] = @ \cup {it.next}]
    BY <1>6 DEF Rename, Durable, At, File, Files
  <2>2. /\ MovesInside(p) /\ proc'[p].pc = "settle"
        /\ proc'[p].next = it.next /\ proc'[p].goal = it.goal
    BY <1>6, TempMoves DEF Rename, Inside
  <2>3. \A q \in Processes \ {p} : proc[q].pc \notin Inside
    BY <2>1, Alone DEF Inside
  <2>4. f = "state" => it.kind # "record" /\ it.next.marks =
          IF it.goal = "migrate" THEN visible["state"].marks
                                 ELSE Append(visible["state"].marks, it.mark)
    BY <2>1 DEF Current, Saving, File
  <2>5. /\ it.next \in Content /\ it.mark \in Marks \cup {NoMark}
        /\ visible["state"].marks \in Seq(Marks \cup {NoMark})
    BY DEF TypeOK, Process, Content, Files
  <2>6. \A m : HasMark(m, visible["state"].marks) \/ m = it.mark
                 => HasMark(m, Append(visible["state"].marks, it.mark))
    BY <2>5, AppendedMark
  <2>7. \A m \in acked : HasMark(m, visible["state"].marks)
    BY DEF Durable, Files
  <2>8. f = "state" => \A m \in acked : HasMark(m, it.next.marks)
    BY <2>4, <2>6, <2>7
  <2> HIDE DEF it, f
  <2>9. Durable'
    <3>1. \A g \in Files : visible'[g] \in onDisk'[g]
      BY <2>1 DEF Durable, TypeOK
    <3>2. \A m \in acked' : \A content \in onDisk'["state"] : HasMark(m, content.marks)
      BY <2>1, <2>8 DEF Durable, TypeOK
    <3>3. \A q \in Processes : proc'[q].pc \notin {"rename", "leave"}
      BY <2>2, <2>3 DEF MovesInside, Inside
    <3> QED
      BY <3>1, <3>2, <3>3 DEF Durable, At
  <2>10. Current(p)'
    <3>1. CASE it.kind = "record"
      BY <2>2, <3>1 DEF Current, MovesInside, it
    <3>2. CASE it.kind # "record"
      <4>1. f = "state" /\ visible'["state"] = it.next
        BY <2>1, <3>2 DEF f, it, File, TypeOK, Files
      <4>2. it.goal = "save" => it.kind = "update"
        BY <2>1, <3>2 DEF it, Current, Saving
      <4>3. it.goal = "save" => HasMark(it.mark, it.next.marks)
        BY <2>4, <2>6, <4>1
      <4> QED
        BY <2>2, <4>1, <4>2, <4>3 DEF Current, MovesInside, Saving, it
    <3> QED
      BY <3>1, <3>2
  <2> QED
    BY <2>2, <2>3, <2>9, <2>10, OthersStayCurrent DEF MovesInside
<1>7. ASSUME NEW p \in Processes, SyncDirectory(p)
      PROVE  Durable' /\ \A q \in Processes : Current(q)'
  <2> DEFINE it == proc[p]
           f == File(p)
  <2>1. /\ it.pc = "settle" /\ f \in Files /\ UNCHANGED <<visible, acked>>
        /\ onDisk' = [onDisk EXCEPT ![f] = {visible[f]}]
    BY <1>7 DEF SyncDirectory, At, File, Files
  <2>2. /\ MovesInside(p)
        /\ \/ /\ proc'[p].pc = "edit" /\ proc'[p].next = it.next
              /\ it.kind = "update" /\ it.goal = "migrate"
           \/ /\ proc'[p].pc = "leave"
              /\ ~(it.kind = "update" /\ it.goal = "migrate")
    BY <1>7, GotoMoves, ConcludeMoves DEF SyncDirectory, Inside
  <2>3. \A q \in Processes \ {p} : proc[q].pc \notin Inside
    BY <2>1, Alone DEF Inside
  <2>4. it.kind = "update" /\ it.goal # "migrate" => HasMark(it.mark, visible["state"].marks)
    BY <2>1 DEF Current, TypeOK, Process
  <2>5. it.kind = "update" => f = "state"
    BY DEF File
  <2>6. it.kind = "update" => it.next.marks = visible["state"].marks
    BY <2>1 DEF Current
  <2> HIDE DEF it, f
  <2>7. Durable'
    <3>1. \A g \in Files : visible'[g] \in onDisk'[g] /\ onDisk'[g] \subseteq onDisk[g]
      BY <2>1 DEF Durable, TypeOK
    <3>2. \A m \in acked' : \A content \in onDisk'["state"] : HasMark(m, content.marks)
      BY <2>1, <3>1 DEF Durable, Files
    <3>3. proc'[p].pc = "leave" /\ proc'[p].kind = "update" =>
            \A content \in onDisk'["state"] : HasMark(proc'[p].mark, content.marks)
      BY <2>1, <2>2, <2>4, <2>5 DEF MovesInside, it, TypeOK
    <3>4. proc'[p].pc # "rename" /\ \A q \in Processes \ {p} : proc'[q].pc \notin Inside
      BY <2>2, <2>3 DEF MovesInside
    <3> QED
      BY <3>1, <3>2, <3>3, <3>4 DEF Durable, At, Inside
  <2>8. Current(p)'
    BY <2>1, <2>2, <2>6 DEF Current, MovesInside, Saving, it
  <2> QED
    BY <2>1, <2>2, <2>7, <2>8, OthersStayCurrent DEF MovesInside
<1>8. ASSUME NEW p \in Processes, Leave(p)
      PROVE  Durable' /\ \A q \in Processes : Current(q)'
  <2>1. UNCHANGED <<visible, onDisk>> /\ At(p, "leave")
    BY <1>8 DEF Leave
  <2>0. PICK entry : Become(p, entry) /\ entry.pc \in {"enter", "idle"}
    <3>1. Called("record", proc[p].mark).pc = "enter" /\ Idle.pc = "idle"
      BY Calls DEF Idle
    <3> QED
      BY <1>8, <3>1 DEF Leave
  <2>2. /\ \A q \in Processes \ {p} : proc'[q] = proc[q]
        /\ proc'[p].pc \in {"enter", "idle"}
    BY <2>0 DEF Become, TypeOK
  <2>3. \A m \in acked' : \/ m \in acked
                          \/ m = proc[p].mark /\ proc[p].ok /\ proc[p].kind = "update"
    BY <1>8 DEF Leave
  <2>4. \A m \in acked' : \A content \in onDisk'["state"] : HasMark(m, content.marks)
    BY <2>1, <2>3 DEF Durable
  <2>5. Durable'
    BY <2>1, <2>2, <2>4 DEF Durable, At
  <2>6. Current(p)'
    BY <2>2 DEF Current, Saving
  <2> QED
    BY <2>1, <2>2, <2>5, <2>6, OthersStayCurrent
<1>9. ASSUME NEW p \in Processes, Fails(p)
      PROVE  Durable' /\ \A q \in Processes : Current(q)'
  <2>1. MovesInside(p) /\ proc'[p].pc = "leave" /\ proc'[p].ok = FALSE
    BY <1>9, ConcludeMoves DEF Fails
  <2>2. UNCHANGED <<visible, onDisk, acked>>
    BY <1>9 DEF Fails
  <2>3. Durable'
    BY <2>1, <2>2, DurableBesides DEF MovesInside
  <2>4. Current(p)'
    BY <2>1 DEF Current, Saving
  <2> QED
    BY <2>1, <2>2, <2>3, <2>4, OthersStayCurrent DEF MovesInside
<1>10. CASE PowerFails
  <2>1. Durable'
    BY <1>10 DEF PowerFails, Durable, Idle, At, Files
  <2>2. \A q \in Processes : Current(q)'
    BY <1>10 DEF PowerFails, Current, Idle, Saving
  <2> QED
    BY <2>1, <2>2
<1> QED
  BY <1>1, <1>2, <1>3, <1>4, <1>5, <1>6, <1>7, <1>8, <1>9, <1>10 DEF Next, Step, Fault

LEMMA StorageInvHolds == Spec => []StorageInv
<1>1. StorageInv /\ [Next]_vars => StorageInv'
  <2> SUFFICES ASSUME StorageInv, [Next]_vars PROVE StorageInv'
    OBVIOUS
  <2>1. CASE Next
    BY <2>1, TypeStep, DurableStep DEF StorageInv
  <2>2. CASE UNCHANGED vars
    BY <2>2 DEF vars, StorageInv, TypeOK, UpdateNames, File, Durable, At, Current
  <2> QED
    BY <2>1, <2>2
<1> QED
  BY <1>1, Start, PTL DEF Spec

\* An update that was reported as successful is never lost, whatever fails and
\* whoever saves after it.
THEOREM AckedStays == Spec => []AckedIsKept
<1>1. StorageInv => AckedIsKept
  <2> SUFFICES ASSUME StorageInv, NEW m \in acked
               PROVE  /\ HasMark(m, visible["state"].marks)
                      /\ \A v \in {content.marks : content \in onDisk["state"]} : HasMark(m, v)
    BY DEF AckedIsKept, Atomic!AckedIsKept, Atomic!In, HasMark
  <2> QED
    BY DEF StorageInv, Durable, Files
<1> QED
  BY <1>1, StorageInvHolds, PTL

-----------------------------------------------------------------------------
(* The state file implements AtomicFile *)

MarksOnDisk == {content.marks : content \in onDisk["state"]}

\* A step that leaves the state file alone is none of AtomicFile's.
LEMMA Stutters ==
  ASSUME visible'["state"] = visible["state"], onDisk'["state"] = onDisk["state"],
         acked' = acked
  PROVE  UNCHANGED Atomic!vars
BY DEF Atomic!vars

LEMMA MigrationStutters ==
  ASSUME visible'["state"].marks = visible["state"].marks, MarksOnDisk' = MarksOnDisk,
         acked' = acked
  PROVE  UNCHANGED Atomic!vars
BY DEF Atomic!vars, MarksOnDisk

LEMMA StepsAreAtomic ==
  ASSUME StorageInv, Next PROVE [Atomic!Next]_(Atomic!vars)
<1> USE DEF StorageInv
<1>1. ASSUME NEW p \in Processes,
             \/ \E kind \in Kinds : Begin(p, kind)
             \/ EnterDirectory(p) \/ LockFile(p) \/ LoadState(p) \/ LoadTrail(p)
             \/ Edit(p) \/ WriteTemp(p) \/ SyncTemp(p)
             \/ FailsToLock(p) \/ Fails(p) \/ Dies(p)
      PROVE  UNCHANGED Atomic!vars
  <2>1. /\ visible'["state"] = visible["state"] /\ onDisk'["state"] = onDisk["state"]
        /\ acked' = acked
    BY <1>1 DEF Begin, EnterDirectory, LockFile, LoadState, LoadTrail, Edit,
                WriteTemp, SyncTemp, FailsToLock, Fails, Dies, TypeOK, Files
  <2> QED
    BY <2>1, Stutters
<1>2. ASSUME NEW p \in Processes, Rename(p) PROVE [Atomic!Next]_(Atomic!vars)
  <2> DEFINE it == proc[p]
             latest == visible["state"]
  <2>1. /\ it.pc = "rename" /\ it.temp = "synced" /\ acked' = acked
        /\ visible' = [visible EXCEPT ![File(p)] = it.next]
        /\ onDisk' = [onDisk EXCEPT ![File(p)] = @ \cup {it.next}]
    BY <1>2 DEF Rename, Durable, At
  <2>2. CASE it.kind = "record"
    <3>1. visible'["state"] = latest /\ onDisk'["state"] = onDisk["state"]
      BY <2>1, <2>2 DEF File, TypeOK, Files
    <3> QED
      BY <2>1, <3>1, Stutters
  <2>3. CASE it.kind # "record"
    <3>1. visible'["state"] = it.next /\ onDisk'["state"] = onDisk["state"] \cup {it.next}
      BY <2>1, <2>3 DEF File, TypeOK, Files
    <3>2. /\ visible'["state"].marks = it.next.marks
          /\ MarksOnDisk' = MarksOnDisk \cup {it.next.marks}
      BY <3>1 DEF MarksOnDisk
    <3>3. latest.marks \in MarksOnDisk
      BY DEF Durable, MarksOnDisk, Files
    <3>4. CASE it.goal = "migrate"
      <4>1. it.next.marks = latest.marks
        BY <2>1, <2>3, <3>4 DEF Current, Saving
      <4>2. visible'["state"].marks = latest.marks /\ MarksOnDisk' = MarksOnDisk
        BY <3>2, <3>3, <4>1
      <4> QED
        BY <2>1, <4>2, MigrationStutters
    <3>5. CASE it.goal = "save"
      <4>1. it.next.marks = Append(latest.marks, it.mark) /\ it.kind = "update"
        BY <2>1, <2>3, <3>5 DEF Current, Saving
      <4>2. PICK m \in Marks : m = it.mark
        BY <4>1 DEF UpdateNames
      <4>3. Atomic!Update(m)
        BY <2>1, <3>2, <4>1, <4>2 DEF Atomic!Update, MarksOnDisk
      <4> QED
        BY <4>3 DEF Atomic!Next
    <3> QED
      BY <3>4, <3>5 DEF TypeOK, Process
  <2> QED
    BY <2>2, <2>3
<1>3. ASSUME NEW p \in Processes, SyncDirectory(p) PROVE [Atomic!Next]_(Atomic!vars)
  <2>1. UNCHANGED <<visible, acked>>
          /\ onDisk' = [onDisk EXCEPT ![File(p)] = {visible[File(p)]}]
    BY <1>3 DEF SyncDirectory
  <2>2. CASE proc[p].kind = "record"
    <3>1. visible'["state"] = visible["state"] /\ onDisk'["state"] = onDisk["state"]
      BY <2>1, <2>2 DEF File, TypeOK, Files
    <3> QED
      BY <2>1, <3>1, Stutters
  <2>3. CASE proc[p].kind # "record"
    <3>1. onDisk'["state"] = {visible["state"]}
      BY <2>1, <2>3 DEF File, TypeOK, Files
    <3>2. MarksOnDisk' = {visible["state"].marks}
      BY <3>1 DEF MarksOnDisk
    <3>3. Atomic!Settle
      BY <2>1, <3>2 DEF Atomic!Settle, MarksOnDisk
    <3> QED
      BY <3>3 DEF Atomic!Next
  <2> QED
    BY <2>2, <2>3
<1>4. ASSUME NEW p \in Processes, Leave(p) PROVE [Atomic!Next]_(Atomic!vars)
  <2> DEFINE m == proc[p].mark
  <2>1. UNCHANGED <<visible, onDisk>> /\ At(p, "leave")
    BY <1>4 DEF Leave
  <2>2. CASE acked' = acked
    BY <2>1, <2>2, Stutters
  <2>3. CASE acked' # acked
    <3>1. acked' = acked \cup {m} /\ proc[p].kind = "update" /\ proc[p].ok
      BY <1>4, <2>3 DEF Leave
    <3>2. m \in Marks /\ \A content \in onDisk["state"] : HasMark(m, content.marks)
      BY <2>1, <3>1 DEF UpdateNames, Durable
    <3>3. \A v \in MarksOnDisk : Atomic!In(m, v)
      BY <3>2 DEF MarksOnDisk, HasMark, Atomic!In
    <3>4. Atomic!Acknowledge(m)
      BY <2>1, <3>1, <3>3 DEF Atomic!Acknowledge, MarksOnDisk
    <3> QED
      BY <3>2, <3>4 DEF Atomic!Next
  <2> QED
    BY <2>2, <2>3
<1>5. CASE PowerFails
  <2>1. /\ visible'["state"] \in onDisk["state"] /\ onDisk'["state"] = {visible'["state"]}
        /\ acked' = acked
    BY <1>5 DEF PowerFails, Files
  <2>2. visible'["state"].marks \in MarksOnDisk /\ MarksOnDisk' = {visible'["state"].marks}
    BY <2>1 DEF MarksOnDisk
  <2>3. Atomic!LosePower
    BY <2>1, <2>2 DEF Atomic!LosePower, MarksOnDisk
  <2> QED
    BY <2>3 DEF Atomic!Next
<1> QED
  BY <1>1, <1>2, <1>3, <1>4, <1>5 DEF Next, Step, Fault

\* On the state file as its users see it, updates are atomic and durable.
THEOREM UpdatesAreAtomic == Spec => StateIsAtomic
<1>1. Init => Atomic!Init
  <2> SUFFICES ASSUME Init PROVE Atomic!Init
    OBVIOUS
  <2>1. visible["state"].marks = <<>> /\ onDisk["state"] = {visible["state"]} /\ acked = {}
    BY DEF Init, Fresh, Files
  <2> QED
    BY <2>1 DEF Atomic!Init
<1>2. StorageInv /\ [Next]_vars => [Atomic!Next]_(Atomic!vars)
  BY StepsAreAtomic, Stutters DEF vars
<1> QED
  BY <1>1, <1>2, StorageInvHolds, PTL DEF Spec, StateIsAtomic, Atomic!Spec

-----------------------------------------------------------------------------
(* The trail lists what was committed *)

Committed(marks) == \A i \in DOMAIN marks : marks[i] \in acked

RecordsCommitted ==
  \A p \in Processes :
    proc[p].kind = "record" => proc[p].mark \in acked /\ Committed(proc[p].next.marks)

TrailInv == TrailIsTrue /\ RecordsCommitted

\* A content that was there, or lists committed transitions only, may be there.
LEMMA TrailKept ==
  ASSUME TrailIsTrue, acked \subseteq acked',
         \A content \in onDisk'["trail"] \cup {visible'["trail"]} :
           \/ content \in onDisk["trail"] \cup {visible["trail"]}
           \/ Committed(content.marks)
  PROVE  TrailIsTrue'
BY DEF TrailIsTrue, Committed

\* Processes keep their mark and content, or take up ones that were committed.
LEMMA RecordsKept ==
  ASSUME RecordsCommitted, acked \subseteq acked', NEW p \in Processes,
         \A q \in Processes \ {p} : proc'[q] = proc[q],
         proc'[p].kind = "record" =>
           proc'[p].mark \in acked' /\ \A i \in DOMAIN proc'[p].next.marks :
                                         proc'[p].next.marks[i] \in acked'
  PROVE  RecordsCommitted'
BY DEF RecordsCommitted, Committed

LEMMA TrailStep ==
  ASSUME StorageInv, TrailInv, Next PROVE TrailInv'
<1> USE DEF TrailInv, StorageInv
<1>1. ASSUME NEW p \in Processes,
             \/ \E kind \in Kinds : Begin(p, kind)
             \/ FailsToLock(p) \/ Dies(p) \/ Leave(p)
      PROVE  TrailInv'
  <2>1. UNCHANGED <<visible, onDisk>> /\ acked \subseteq acked'
    BY <1>1 DEF Begin, FailsToLock, Dies, Leave
  <2>2. PICK entry :
          /\ Become(p, entry) /\ entry.next = Empty
          /\ entry.kind = "record" => entry.mark \in acked'
    <3>1. Idle.next = Empty /\ Idle.kind = "read"
      BY DEF Idle
    <3>2. CASE \E kind \in Kinds : Begin(p, kind)
      <4>1. PICK kind \in Kinds, m \in Marks \cup {NoMark} :
              /\ kind # "record"
              /\ Become(p, Called(kind, m))
        BY <3>2 DEF Begin
      <4>2. Called(kind, m).next = Empty /\ Called(kind, m).kind = kind
        BY Calls
      <4> QED
        BY <4>1, <4>2
    <3>4. CASE FailsToLock(p) \/ Dies(p)
      BY <3>1, <3>4 DEF FailsToLock, Dies
    <3>5. CASE Leave(p)
      <4>1. CASE Become(p, Idle)
        BY <3>1, <4>1
      <4>2. CASE Become(p, Called("record", proc[p].mark)) /\ proc[p].mark \in acked'
        <5>1. /\ Called("record", proc[p].mark).next = Empty
              /\ Called("record", proc[p].mark).mark = proc[p].mark
          BY Calls
        <5> QED
          BY <4>2, <5>1
      <4> QED
        BY <3>5, <4>1, <4>2 DEF Leave
    <3> QED
      BY <1>1, <3>2, <3>4, <3>5
  <2>3. /\ \A q \in Processes \ {p} : proc'[q] = proc[q]
        /\ proc'[p] = entry
    BY <2>2 DEF Become, TypeOK
  <2>4. \A i \in DOMAIN Empty.marks : Empty.marks[i] \in acked'
    BY DEF Empty, Fresh
  <2> QED
    BY <2>1, <2>2, <2>3, <2>4, TrailKept, RecordsKept
<1>2. ASSUME NEW p \in Processes, EnterDirectory(p) \/ LockFile(p) PROVE TrailInv'
  <2>1. UNCHANGED <<visible, onDisk, acked>>
    BY <1>2 DEF EnterDirectory, LockFile
  <2>2. proc[p] \in Process
    BY DEF TypeOK
  <2>3. \A pc : /\ [proc[p] EXCEPT !.pc = pc].next = proc[p].next
                /\ [proc[p] EXCEPT !.pc = pc].kind = proc[p].kind
                /\ [proc[p] EXCEPT !.pc = pc].mark = proc[p].mark
    BY <2>2 DEF Process
  <2>4. /\ \A q \in Processes \ {p} : proc'[q] = proc[q]
        /\ proc'[p].next = proc[p].next /\ proc'[p].kind = proc[p].kind
        /\ proc'[p].mark = proc[p].mark
    <3>1. PICK pc : proc' = [proc EXCEPT ![p] = [proc[p] EXCEPT !.pc = pc]]
      BY <1>2 DEF EnterDirectory, LockFile, Goto, Become
    <3>2. proc'[p] = [proc[p] EXCEPT !.pc = pc]
      BY <3>1 DEF TypeOK
    <3>3. \A q \in Processes \ {p} : proc'[q] = proc[q]
      BY <3>1 DEF TypeOK
    <3> QED
      BY <2>3, <3>2, <3>3
  <2> QED
    BY <2>1, <2>4, TrailKept, RecordsKept DEF RecordsCommitted, Committed
<1>3. ASSUME NEW p \in Processes, LoadState(p) PROVE TrailInv'
  <2>1. UNCHANGED <<visible, onDisk, acked>> /\ proc[p].kind # "record"
    BY <1>3 DEF LoadState
  <2>2. Migrated(visible["state"]) \in Content
    BY MigratedContent DEF TypeOK, Files
  <2>3. MovesInside(p)
    BY <1>3, <2>2, ConcludeMoves, WorkMoves DEF LoadState, Inside
  <2> QED
    BY <2>1, <2>3, TrailKept, RecordsKept DEF MovesInside
<1>4. ASSUME NEW p \in Processes, LoadTrail(p) PROVE TrailInv'
  <2>1. PICK next \in {visible["trail"], Empty} :
          /\ GoToWork(p, "edit", next, "save")
          /\ visible'["trail"] \in {visible["trail"], Empty}
          /\ onDisk'["trail"] \subseteq onDisk["trail"] \cup {Empty}
    BY <1>4 DEF LoadTrail, TypeOK, Files
  <2>2. acked' = acked /\ proc[p].kind = "record"
    BY <1>4 DEF LoadTrail
  <2>3. Committed(Empty.marks) /\ Committed(visible["trail"].marks)
    BY DEF Committed, Empty, Fresh, TrailIsTrue
  <2>4. next \in Content
    BY EmptyIsContent DEF TypeOK, Files
  <2>5. MovesInside(p) /\ proc'[p].next = next
    BY <2>1, <2>4, WorkMoves DEF Inside
  <2>6. TrailIsTrue'
    BY <2>1, <2>2, <2>3, TrailKept
  <2>7. proc[p].mark \in acked /\ Committed(next.marks)
    BY <2>2, <2>3 DEF RecordsCommitted
  <2>8. RecordsCommitted'
    BY <2>2, <2>5, <2>7, RecordsKept DEF MovesInside, Committed
  <2> QED
    BY <2>6, <2>8
<1>5. ASSUME NEW p \in Processes, Edit(p) PROVE TrailInv'
  <2>1. UNCHANGED <<visible, onDisk, acked>>
    BY <1>5 DEF Edit
  <2>2. PICK next \in Content :
          /\ GoToWork(p, "write", next, "save")
          /\ \A i \in DOMAIN next.marks :
               \/ next.marks[i] = proc[p].mark
               \/ \E j \in DOMAIN proc[p].next.marks :
                    next.marks[i] = proc[p].next.marks[j]
    BY <1>5, Edits
  <2>3. MovesInside(p) /\ proc'[p].next = next
    BY <2>2, WorkMoves DEF Inside
  <2>4. proc[p].kind = "record" => proc[p].mark \in acked /\ Committed(next.marks)
    BY <2>2 DEF RecordsCommitted, Committed
  <2>5. RecordsCommitted'
    BY <2>1, <2>3, <2>4, RecordsKept DEF MovesInside, Committed
  <2> QED
    BY <2>1, <2>5, TrailKept
<1>6. ASSUME NEW p \in Processes,
             WriteTemp(p) \/ SyncTemp(p) \/ Rename(p) \/ SyncDirectory(p) \/ Fails(p)
      PROVE  TrailInv'
  <2>1. acked' = acked
    BY <1>6 DEF WriteTemp, SyncTemp, Rename, SyncDirectory, Fails
  <2>2. MovesInside(p) /\ proc'[p].next = proc[p].next
    BY <1>6, TempMoves, GotoMoves, ConcludeMoves
    DEF WriteTemp, SyncTemp, Rename, SyncDirectory, Fails, Inside
  <2>3. RecordsCommitted'
    BY <2>1, <2>2, RecordsKept DEF MovesInside, RecordsCommitted, Committed
  <2>4. \A content \in onDisk'["trail"] \cup {visible'["trail"]} :
           \/ content \in onDisk["trail"] \cup {visible["trail"]}
           \/ Committed(content.marks)
    <3>1. CASE WriteTemp(p) \/ SyncTemp(p) \/ Fails(p)
      BY <3>1 DEF WriteTemp, SyncTemp, Fails
    <3>2. CASE SyncDirectory(p)
      BY <3>2 DEF SyncDirectory, TypeOK, Files, File
    <3>3. CASE Rename(p)
      <4>1. /\ visible' = [visible EXCEPT ![File(p)] = proc[p].next]
            /\ onDisk' = [onDisk EXCEPT ![File(p)] = @ \cup
                  {IF proc[p].temp = "synced" THEN proc[p].next ELSE Torn}]
            /\ proc[p].temp = "synced"
        BY <3>3 DEF Rename, Durable, At
      <4>2. proc[p].kind = "record" => Committed(proc[p].next.marks)
        BY DEF RecordsCommitted
      <4> QED
        BY <4>1, <4>2 DEF TypeOK, Files, File
    <3> QED
      BY <1>6, <3>1, <3>2, <3>3
  <2> QED
    BY <2>1, <2>3, <2>4, TrailKept
<1>7. CASE PowerFails
  <2>1. /\ visible'["trail"] \in onDisk["trail"] /\ onDisk'["trail"] = {visible'["trail"]}
        /\ acked' = acked
    BY <1>7 DEF PowerFails, Files
  <2>2. RecordsCommitted'
    BY <1>7 DEF PowerFails, RecordsCommitted, Idle
  <2> QED
    BY <2>1, <2>2, TrailKept
<1> QED
  BY <1>1, <1>2, <1>3, <1>4, <1>5, <1>6, <1>7 DEF Next, Step, Fault

\* The trail lists only transitions whose update was reported as successful,
\* also after a loss of power.
THEOREM TrailTellsTheTruth == Spec => []TrailIsTrue
<1>1. Init => TrailInv
  <2> SUFFICES ASSUME Init PROVE TrailInv
    OBVIOUS
  <2>1. visible["trail"].marks = <<>> /\ onDisk["trail"] = {visible["trail"]}
    BY DEF Init, Fresh, Files
  <2>2. TrailIsTrue
    BY <2>1 DEF TrailIsTrue
  <2>3. RecordsCommitted
    BY DEF Init, RecordsCommitted, Idle
  <2> QED
    BY <2>2, <2>3 DEF TrailInv
<1>2. StorageInv /\ TrailInv /\ [Next]_vars => TrailInv'
  <2> SUFFICES ASSUME StorageInv, TrailInv, [Next]_vars PROVE TrailInv'
    OBVIOUS
  <2>1. CASE Next
    BY <2>1, TrailStep
  <2>2. CASE UNCHANGED vars
    BY <2>2 DEF vars, TrailInv, TrailIsTrue, RecordsCommitted, Committed
  <2> QED
    BY <2>1, <2>2
<1> QED
  BY <1>1, <1>2, StorageInvHolds, PTL DEF Spec, TrailInv
=============================================================================
