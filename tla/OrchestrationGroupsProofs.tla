---------------------- MODULE OrchestrationGroupsProofs ----------------------
(***************************************************************************)
(* Proofs about Observer groups: that every variable keeps its type, that  *)
(* no edit, removal or prune leaves a group with a member or orchestrator  *)
(* whose record is gone, and that a membership which ended never returns.  *)
(***************************************************************************)
EXTENDS OrchestrationGroups, TLAPS

-----------------------------------------------------------------------------
(* Helpers *)

\* What the memberships in force are, without the union.
LEMMA InForce ==
  ASSUME NEW gs, NEW t
  PROVE  t \in Memberships(gs) <=>
           \E g \in GroupIds : gs[g] # NoGroup /\
             \E m \in gs[g].workers : t = <<g, m.session, m.membership>>
BY DEF Memberships

\* Saving one group changes that group and no other.
LEMMA SaveTyped ==
  ASSUME groups \in [GroupIds -> Group \cup {NoGroup}],
         NEW g \in GroupIds, NEW group \in Group \cup {NoGroup}, SaveGroup(g, group)
  PROVE  /\ groups' \in [GroupIds -> Group \cup {NoGroup}]
         /\ groups'[g] = group
         /\ \A h \in GroupIds : h # g => groups'[h] = groups[h]
BY DEF SaveGroup

\* The workers a person asked for become typed members.
LEMMA WorkerMembersTyped ==
  ASSUME minted \in Nat, NEW specs \in WorkerSpecs, NEW existing \in SUBSET Member
  PROVE  WorkerMembers(existing, specs) \in SUBSET Member
<1>1. DOMAIN specs \subseteq Sessions /\ \A s \in DOMAIN specs : specs[s] \in Capabilities
  BY DEF WorkerSpecs
<1>2. ASSUME NEW s \in SessionsOf(existing)
      PROVE  (CHOOSE m \in existing : m.session = s).membership \in Nat
  <2>1. \E m \in existing : m.session = s
    BY <1>2 DEF SessionsOf
  <2>2. (CHOOSE m \in existing : m.session = s) \in Member
    BY <2>1
  <2> QED BY <2>2 DEF Member
<1> QED BY <1>1, <1>2 DEF WorkerMembers, Member

\* Each of them either keeps the membership it has or gets the new one.
LEMMA WorkerMembersInherit ==
  ASSUME NEW specs \in WorkerSpecs, NEW existing \in SUBSET Member,
         NEW m \in WorkerMembers(existing, specs)
  PROVE  \/ \E n \in existing : n.session = m.session /\ n.membership = m.membership
         \/ m.membership = minted + 1
<1>1. PICK s \in DOMAIN specs :
        /\ m.session = s
        /\ m.membership = IF s \in SessionsOf(existing)
                          THEN (CHOOSE n \in existing : n.session = s).membership
                          ELSE minted + 1
  BY DEF WorkerMembers
<1>2. CASE s \in SessionsOf(existing)
  <2>1. \E n \in existing : n.session = s
    BY <1>2 DEF SessionsOf
  <2>2. /\ (CHOOSE n \in existing : n.session = s) \in existing
        /\ (CHOOSE n \in existing : n.session = s).session = s
    BY <2>1
  <2> QED BY <1>1, <1>2, <2>2
<1> QED BY <1>1, <1>2

\* Dropping workloads keeps the groups typed, and only takes members away.
LEMMA ReconciledTyped ==
  ASSUME groups \in [GroupIds -> Group \cup {NoGroup}], NEW dropped,
         DropFromGroups(dropped)
  PROVE  /\ groups' \in [GroupIds -> Group \cup {NoGroup}]
         /\ \A g \in GroupIds : groups'[g] # NoGroup =>
              /\ groups[g] # NoGroup
              /\ groups'[g].orchestrator = groups[g].orchestrator
              /\ groups'[g].orchestrator \notin dropped
              /\ groups'[g].workers = {m \in groups[g].workers : m.session \notin dropped}
BY NullAssumption DEF DropFromGroups, Reconciled, Grouped, Group

-----------------------------------------------------------------------------
(* Type correctness *)

RecordsOK ==
  /\ records \in [Sessions -> Record \cup {NoRecord}]
  /\ \A s \in Sessions : Recorded(s) =>
       (records[s].closed # "no" <=> records[s].status \in {"Ended", "Removed"})
GroupsOK == groups \in [GroupIds -> Group \cup {NoGroup}]
\* A plan is of a group, and an edit of one somebody was shown.
Editing(client) ==
  /\ client.doing \in {"editing", "acting"} => client.group \in GroupIds
  /\ client.doing = "editing" => client.view \in Group
ClientsOK ==
  clients \in [Clients -> Client] /\ \A c \in Clients : Editing(clients[c])
DepartedOK == departed \subseteq GroupIds \X Sessions \X Nat

Parts == RecordsOK /\ GroupsOK /\ minted \in 0..MaxEdits /\ ClientsOK

LEMMA PartsMakeTypeOK == (Parts /\ DepartedOK) => TypeOK
BY DEF Parts, RecordsOK, GroupsOK, ClientsOK, DepartedOK, TypeOK

LEMMA IdleTyped == Idle \in Client /\ Editing(Idle)
BY DEF Idle, Client, Editing

\* A process that takes something typed under review leaves all of them typed.
LEMMA ClientTyped ==
  ASSUME ClientsOK, NEW c \in Clients, NEW client \in Client, Editing(client),
         clients' = [clients EXCEPT ![c] = client]
  PROVE  ClientsOK'
BY DEF ClientsOK

LEMMA FinishTyped ==
  ASSUME ClientsOK, NEW c \in Clients, Finish(c)
  PROVE  ClientsOK'
BY IdleTyped, ClientTyped DEF Finish

LEMMA RecordTyped ==
  ASSUME RecordsOK, NEW s \in Sessions, NEW r \in Record,
         r.closed # "no" <=> r.status \in {"Ended", "Removed"},
         records' = [records EXCEPT ![s] = r]
  PROVE  RecordsOK'
BY DEF RecordsOK, Recorded

\* Ending and starting a workload, and pruning records.
LEMMA EndTyped ==
  ASSUME RecordsOK, NEW s \in Sessions, EndWorkload(s)
  PROVE  /\ RecordsOK'
         /\ \A t \in Sessions : (Recorded(t) /\ records[t].status # "Removed") =>
              (Recorded(t) /\ records[t].status # "Removed")'
<1>1. PICK r \in {Stopped(records[s]), [records[s] EXCEPT !.status = "Stopping"]} :
        records' = [records EXCEPT ![s] = r]
  BY DEF EndWorkload
<1>2. /\ records[s] \in Record
      /\ records[s].closed = "no"
  BY DEF EndWorkload, Stoppable, RecordsOK, Recorded, Record
<1>3. /\ r \in Record
      /\ r.closed # "no" <=> r.status \in {"Ended", "Removed"}
      /\ r.status # "Removed"
  BY <1>1, <1>2 DEF Stopped, Record
<1>4. RecordsOK'
  BY <1>1, <1>3, RecordTyped
<1> QED BY <1>1, <1>3, <1>4, NullAssumption DEF RecordsOK, Recorded

LEMMA StartTyped ==
  ASSUME RecordsOK, NEW s \in Sessions, StartWorkload(s)
  PROVE  /\ RecordsOK'
         /\ \A t \in Sessions : (Recorded(t) /\ records[t].status # "Removed") =>
              (Recorded(t) /\ records[t].status # "Removed")'
<1>1. PICK status \in {"Creating", "Running"} :
        records' = [records EXCEPT ![s] = [Restarted(records[s]) EXCEPT !.status = status]]
  BY DEF StartWorkload
<1>2. records[s] \in Record
  BY DEF StartWorkload, Restartable, RecordsOK, Recorded
<1> DEFINE r == [Restarted(records[s]) EXCEPT !.status = status]
<1>3. Restarted(records[s]) \in Record /\ Restarted(records[s]).closed = "no"
  <2> DEFINE k == records[s].incarnation + 1
  <2>1. k \in Nat
    BY <1>2 DEF Record
  <2>2. Restarted(records[s]) =
          [records[s] EXCEPT !.status = "Running", !.incarnation = k, !.closed = "no"]
    BY DEF Restarted
  <2> HIDE DEF k
  <2> QED BY <1>2, <2>1, <2>2 DEF Record
<1>4. /\ r \in Record
      /\ r.closed = "no" /\ r.status = status
  BY <1>3 DEF Record
<1> HIDE DEF r
<1>5. records' = [records EXCEPT ![s] = r]
  BY <1>1 DEF r
<1>6. RecordsOK'
  BY <1>4, <1>5, RecordTyped
<1> QED BY <1>4, <1>5, <1>6, NullAssumption DEF RecordsOK, Recorded

LEMMA PruneTyped ==
  ASSUME RecordsOK, GroupsOK, NEW dropped \in SUBSET Sessions, Prune(dropped)
  PROVE  /\ RecordsOK' /\ GroupsOK'
         /\ \A t \in Sessions \ dropped : records'[t] = records[t]
BY ReconciledTyped DEF Prune, RecordsOK, GroupsOK, Recorded

\* Every edit keeps the types.
LEMMA EditTyped ==
  ASSUME Parts, Edit
  PROVE  Parts'
<1> USE DEF Parts
<1> minted \in Nat /\ MaxEdits \in Nat
  BY LimitAssumption
<1>1. ASSUME NEW g \in GroupIds, NEW s \in Sessions, NEW specs \in WorkerSpecs,
             CreateGroup(g, s, specs)
      PROVE  Parts'
  <2>1. [orchestrator |-> s, workers |-> WorkerMembers({}, specs)] \in Group
    BY WorkerMembersTyped DEF Group
  <2>2. GroupsOK'
    BY <1>1, <2>1, SaveTyped DEF CreateGroup, GroupsOK
  <2> QED BY <1>1, <2>2 DEF CreateGroup, RecordsOK, ClientsOK, Recorded
<1>2. ASSUME NEW g \in GroupIds, NEW s \in Sessions, NEW caps \in Capabilities,
             AddWorker(g, s, caps)
      PROVE  Parts'
  <2>1. groups[g] \in Group
    BY <1>2 DEF AddWorker, Grouped, GroupsOK
  <2>2. [session |-> s, membership |-> minted + 1, capabilities |-> caps] \in Member
    BY DEF Member
  <2>3. [groups[g] EXCEPT !.workers = @ \cup
           {[session |-> s, membership |-> minted + 1, capabilities |-> caps]}] \in Group
    BY <2>1, <2>2 DEF Group
  <2>4. GroupsOK'
    BY <1>2, <2>3, SaveTyped DEF AddWorker, GroupsOK
  <2> QED BY <1>2, <2>4 DEF AddWorker, RecordsOK, ClientsOK, Recorded
<1>3. ASSUME NEW g \in GroupIds, NEW s \in Sessions, RemoveWorker(g, s)
      PROVE  Parts'
  <2>1. groups[g] \in Group
    BY <1>3 DEF RemoveWorker, Grouped, GroupsOK
  <2>2. [groups[g] EXCEPT !.workers = {m \in @ : m.session # s}] \in Group
    BY <2>1 DEF Group
  <2>3. GroupsOK'
    BY <1>3, <2>2, SaveTyped DEF RemoveWorker, GroupsOK
  <2> QED BY <1>3, <2>3 DEF RemoveWorker, RecordsOK, ClientsOK, Recorded
<1>4. ASSUME NEW g \in GroupIds, DeleteGroup(g)
      PROVE  Parts'
  BY <1>4, SaveTyped DEF DeleteGroup, GroupsOK, RecordsOK, ClientsOK, Recorded
<1>5. ASSUME NEW c \in Clients, NEW g \in GroupIds, Review(c, g)
      PROVE  Parts'
  <2> DEFINE client == [Idle EXCEPT !.doing = "editing", !.group = g, !.view = groups[g]]
  <2>1. groups[g] \in Group
    BY <1>5 DEF Review, Grouped, GroupsOK
  <2>2. client \in Client /\ Editing(client)
    BY <2>1 DEF Idle, Client, Editing
  <2>3. clients' = [clients EXCEPT ![c] = client]
    BY <1>5 DEF Review
  <2> HIDE DEF client
  <2>4. ClientsOK'
    BY <2>2, <2>3, ClientTyped
  <2> QED BY <1>5, <2>4 DEF Review, RecordsOK, GroupsOK, Recorded
<1>6. ASSUME NEW c \in Clients, StillReviewed(c)
      PROVE  clients[c].group \in GroupIds /\ groups[clients[c].group] \in Group
  BY <1>6 DEF StillReviewed, ClientsOK, Editing
<1>7. ASSUME NEW c \in Clients, NEW specs \in WorkerSpecs, ReplaceWorkers(c, specs)
      PROVE  Parts'
  <2> DEFINE g == clients[c].group
             group == [groups[g] EXCEPT !.workers = WorkerMembers(@, specs)]
  <2>1. g \in GroupIds /\ groups[g] \in Group
    BY <1>6, <1>7 DEF ReplaceWorkers
  <2>2. WorkerMembers(groups[g].workers, specs) \in SUBSET Member
    BY <2>1, WorkerMembersTyped DEF Group
  <2>3. group \in Group
    BY <2>1, <2>2 DEF Group
  <2>4. SaveGroup(g, group)
    BY <1>7 DEF ReplaceWorkers
  <2> HIDE DEF g, group
  <2>5. GroupsOK'
    BY <2>1, <2>3, <2>4, SaveTyped DEF GroupsOK
  <2>6. ClientsOK'
    BY <1>7, FinishTyped DEF ReplaceWorkers
  <2> QED BY <1>7, <2>5, <2>6 DEF ReplaceWorkers, RecordsOK, Recorded
<1>8. ASSUME NEW c \in Clients, NEW s \in Sessions, ReassignOrchestrator(c, s)
      PROVE  Parts'
  <2> DEFINE g == clients[c].group
             group == [orchestrator |-> s,
                       workers |-> {m \in groups[g].workers : m.session # s}]
  <2>1. g \in GroupIds /\ groups[g] \in Group
    BY <1>6, <1>8 DEF ReassignOrchestrator
  <2>2. group \in Group
    BY <2>1 DEF Group
  <2>3. SaveGroup(g, group)
    BY <1>8 DEF ReassignOrchestrator
  <2> HIDE DEF g, group
  <2>4. GroupsOK'
    BY <2>1, <2>2, <2>3, SaveTyped DEF GroupsOK
  <2>5. ClientsOK'
    BY <1>8, FinishTyped DEF ReassignOrchestrator
  <2> QED BY <1>8, <2>4, <2>5 DEF ReassignOrchestrator, RecordsOK, Recorded
<1>9. ASSUME NEW c \in Clients, DeleteReviewed(c)
      PROVE  Parts'
  <2>1. GroupsOK'
    BY <1>6, <1>9, SaveTyped DEF DeleteReviewed, GroupsOK
  <2> QED BY <1>9, <2>1, FinishTyped DEF DeleteReviewed, RecordsOK, Recorded
<1>10. ASSUME NEW c \in Clients, GiveUp(c)
       PROVE  Parts'
  BY <1>10, FinishTyped DEF GiveUp, RecordsOK, GroupsOK, Recorded
<1> QED BY <1>1, <1>2, <1>3, <1>4, <1>5, <1>7, <1>8, <1>9, <1>10 DEF Edit

\* So does every step of a group action.
LEMMA GroupActTyped ==
  ASSUME Parts, GroupAct
  PROVE  /\ Parts' /\ UNCHANGED <<groups, minted>>
         /\ \A t \in Sessions : (Recorded(t) /\ records[t].status # "Removed") =>
              (Recorded(t) /\ records[t].status # "Removed")'
<1> USE DEF Parts
<1>1. ASSUME NEW c \in Clients, NEW g \in GroupIds, NEW action \in {"stop", "restart"},
             PlanGroupAction(c, g, action)
      PROVE  ClientsOK' /\ UNCHANGED <<records, groups, minted>>
  <2> DEFINE todo == {m \in groups[g].workers : Plannable(action, m.session)}
             client == [Idle EXCEPT !.doing = "acting", !.group = g, !.action = action, !.todo = todo]
  <2>1. todo \in SUBSET Member
    BY <1>1 DEF PlanGroupAction, Grouped, GroupsOK, Group
  <2> HIDE DEF todo
  <2>2. client \in Client
    BY <2>1 DEF Idle, Client
  <2>3. client.doing = "acting" /\ client.group = g
    BY DEF Idle
  <2>4. Editing(client)
    BY <2>3 DEF Editing
  <2>5. clients' = [clients EXCEPT ![c] = client] /\ UNCHANGED <<records, groups, minted>>
    BY <1>1 DEF PlanGroupAction, todo
  <2> HIDE DEF client
  <2> QED BY <2>2, <2>4, <2>5, ClientTyped
<1>2. ASSUME NEW c \in Clients, NEW m \in clients[c].todo, CheckMember(c, m)
      PROVE  ClientsOK' /\ UNCHANGED <<records, groups, minted>>
  <2> DEFINE due == IF MembershipUnchanged(clients[c].group, m) THEN {m} ELSE {}
             client == [clients[c] EXCEPT !.todo = @ \ {m}, !.due = due]
  <2>1. clients[c] \in Client /\ clients[c].doing = "acting"
    BY <1>2 DEF ClientsOK, CheckMember
  <2>2. due \in SUBSET Member
    BY <2>1 DEF Client
  <2> HIDE DEF due
  <2>3. client \in Client
    BY <2>1, <2>2 DEF Client
  <2>4. Editing(client)
    <3>1. clients[c].group \in GroupIds
      BY <2>1 DEF ClientsOK, Editing
    <3>2. client.doing = "acting" /\ client.group = clients[c].group
      BY <2>1 DEF Client
    <3> QED
      BY <3>1, <3>2 DEF Editing
  <2>5. clients' = [clients EXCEPT ![c] = client] /\ UNCHANGED <<records, groups, minted>>
    BY <1>2 DEF CheckMember, due
  <2> HIDE DEF client
  <2> QED BY <2>3, <2>4, <2>5, ClientTyped
<1>3. ASSUME NEW c \in Clients, clients[c].doing = "acting",
             clients' = [clients EXCEPT ![c].due = {}]
      PROVE  ClientsOK'
  <2> DEFINE client == [clients[c] EXCEPT !.due = {}]
  <2>1. client \in Client /\ Editing(client)
    BY <1>3 DEF ClientsOK, Client, Editing
  <2>2. clients' = [clients EXCEPT ![c] = client]
    BY <1>3
  <2> HIDE DEF client
  <2> QED BY <2>1, <2>2, ClientTyped
<1>4. ASSUME NEW c \in Clients, NEW m \in clients[c].due, ActOnMember(c, m)
      PROVE  /\ ClientsOK' /\ UNCHANGED <<groups, minted>>
             /\ EndWorkload(m.session) \/ StartWorkload(m.session)
             /\ m.session \in Sessions
  BY <1>3, <1>4 DEF ActOnMember, ClientsOK, Client, Member
<1>5. ASSUME NEW c \in Clients, FailMember(c)
      PROVE  ClientsOK' /\ UNCHANGED <<records, groups, minted>>
  BY <1>3, <1>5 DEF FailMember
<1>6. ASSUME ClientsOK', UNCHANGED <<records, groups, minted>>
      PROVE  /\ Parts' /\ UNCHANGED <<groups, minted>>
             /\ \A t \in Sessions : (Recorded(t) /\ records[t].status # "Removed") =>
                  (Recorded(t) /\ records[t].status # "Removed")'
  BY <1>6 DEF RecordsOK, GroupsOK, Recorded
<1>7. ASSUME NEW c \in Clients, NEW m \in clients[c].due, ActOnMember(c, m)
      PROVE  /\ Parts' /\ UNCHANGED <<groups, minted>>
             /\ \A t \in Sessions : (Recorded(t) /\ records[t].status # "Removed") =>
                  (Recorded(t) /\ records[t].status # "Removed")'
  BY <1>4, <1>7, EndTyped, StartTyped DEF GroupsOK
<1> QED BY <1>1, <1>2, <1>5, <1>6, <1>7 DEF GroupAct

\* What remove_owned leaves.
LEMMA RemoveTyped ==
  ASSUME RecordsOK, GroupsOK, NEW s \in Sessions, RemoveWorkload(s)
  PROVE  /\ RecordsOK' /\ GroupsOK'
         /\ \A t \in Sessions \ {s} : records'[t] = records[t]
<1> DEFINE closed == IF records[s].closed = "no" THEN "recent" ELSE records[s].closed
           r == [records[s] EXCEPT !.status = "Removed", !.closed = closed]
<1>1. records[s] \in Record
  BY DEF RemoveWorkload, RecordsOK, Recorded
<1>2. closed \in {"recent", "old"}
  BY <1>1 DEF Record
<1>3. records' = [records EXCEPT ![s] = r]
  BY DEF RemoveWorkload, Removed
<1> HIDE DEF closed
<1>4. r \in Record /\ r.status = "Removed" /\ r.closed # "no"
  BY <1>1, <1>2 DEF Record
<1> HIDE DEF r
<1>5. RecordsOK'
  BY <1>3, <1>4, RecordTyped
<1> QED BY <1>3, <1>5, ReconciledTyped DEF RemoveWorkload, GroupsOK, RecordsOK

LEMMA SingleTyped ==
  ASSUME Parts, Single
  PROVE  Parts'
<1> USE DEF Parts
<1>1. ASSUME NEW s \in Sessions, StopWorkload(s) \/ RestartWorkload(s)
      PROVE  Parts'
  BY <1>1, EndTyped, StartTyped DEF StopWorkload, RestartWorkload, GroupsOK, ClientsOK
<1>2. ASSUME NEW s \in Sessions, RemoveWorkload(s)
      PROVE  Parts'
  BY <1>2, RemoveTyped DEF RemoveWorkload, ClientsOK
<1>3. ASSUME NEW s \in Sessions, Ages(s)
      PROVE  Parts'
  <2> DEFINE r == [records[s] EXCEPT !.closed = "old"]
  <2>1. records[s] \in Record /\ records[s].status \in {"Ended", "Removed"}
    BY <1>3 DEF Ages, RecordsOK, Recorded
  <2>2. r \in Record /\ r.closed = "old" /\ r.status \in {"Ended", "Removed"}
    BY <2>1 DEF Record
  <2>3. records' = [records EXCEPT ![s] = r]
    BY <1>3 DEF Ages
  <2> HIDE DEF r
  <2>4. RecordsOK'
    BY <2>2, <2>3, RecordTyped
  <2> QED BY <1>3, <2>4 DEF Ages, GroupsOK, ClientsOK
<1> QED BY <1>1, <1>2, <1>3 DEF Single

LEMMA PruningTyped ==
  ASSUME Parts, Pruning
  PROVE  Parts'
<1> USE DEF Parts
<1>1. ASSUME NEW c \in Clients, PreviewPrune(c)
      PROVE  Parts'
  <2> DEFINE candidates == {s \in Sessions : Recorded(s) /\ Prunable(records[s])}
             preview == {[session |-> s, record |-> records[s]] : s \in candidates}
             client == [Idle EXCEPT !.doing = "pruning", !.preview = preview]
  <2>1. preview \in SUBSET Candidate
    BY DEF RecordsOK, Recorded, Candidate
  <2> HIDE DEF preview
  <2>2. client \in Client /\ Editing(client)
    BY <2>1 DEF Idle, Client, Editing
  <2>3. clients' = [clients EXCEPT ![c] = client] /\ UNCHANGED <<records, groups, minted>>
    BY <1>1 DEF PreviewPrune, preview
  <2> HIDE DEF client
  <2>4. ClientsOK'
    BY <2>2, <2>3, ClientTyped
  <2> QED BY <2>3, <2>4 DEF RecordsOK, GroupsOK, Recorded
<1>2. ASSUME NEW c \in Clients, ApplyPrune(c)
      PROVE  Parts'
  <2> DEFINE dropped == SessionsOf({p \in clients[c].preview : UnchangedAndEligible(p)})
  <2>1. dropped \in SUBSET Sessions
    BY DEF SessionsOf, ClientsOK, Client, Candidate
  <2>2. Prune(dropped) /\ Finish(c) /\ UNCHANGED minted
    BY <1>2 DEF ApplyPrune
  <2> HIDE DEF dropped
  <2> QED BY <2>1, <2>2, PruneTyped, FinishTyped
<1>3. ASSUME AutomaticCleanup
      PROVE  Parts'
  <2> DEFINE dropped == {s \in Sessions :
               Recorded(s) /\ records[s].status = "Removed" /\ Prunable(records[s])}
  <2>1. Prune(dropped) /\ UNCHANGED <<minted, clients>>
    BY <1>3 DEF AutomaticCleanup
  <2> HIDE DEF dropped
  <2>2. dropped \in SUBSET Sessions
    BY DEF dropped
  <2> QED BY <2>1, <2>2, PruneTyped DEF ClientsOK
<1> QED BY <1>1, <1>2, <1>3 DEF Pruning

LEMMA InitTyped == Init => Parts /\ DepartedOK
BY LimitAssumption, IdleTyped, NullAssumption
   DEF Init, Parts, RecordsOK, GroupsOK, ClientsOK, DepartedOK, Record, Recorded

LEMMA MembershipsTyped ==
  ASSUME GroupsOK
  PROVE  Memberships(groups) \subseteq GroupIds \X Sessions \X Nat
BY DEF Memberships, GroupsOK, Group, Member

LEMMA StepTyped ==
  ASSUME Parts, DepartedOK, [Next]_vars
  PROVE  Parts' /\ DepartedOK'
<1>1. CASE Next
  <2>1. Parts'
    BY <1>1, EditTyped, GroupActTyped, SingleTyped, PruningTyped DEF Next
  <2>2. DepartedOK'
    BY <1>1, MembershipsTyped DEF Next, DepartedOK, Parts
  <2> QED BY <2>1, <2>2
<1>2. CASE UNCHANGED vars
  BY <1>2 DEF vars, Parts, DepartedOK, RecordsOK, GroupsOK, ClientsOK, Recorded
<1> QED BY <1>1, <1>2

LEMMA AlwaysTyped == Spec => [](Parts /\ DepartedOK)
<1>1. Parts /\ DepartedOK /\ [Next]_vars => Parts' /\ DepartedOK'
  BY StepTyped
<1> QED BY InitTyped, <1>1, PTL DEF Spec

\* Every variable has its type, whatever is edited, acted on and pruned in
\* whatever order, and no record that is saved contradicts itself about its end.
THEOREM TypeCorrect == Spec => []TypeOK
BY AlwaysTyped, PartsMakeTypeOK, PTL

-----------------------------------------------------------------------------
(* Returning workers *)

\* A member after the step was one before it, or has the number of this update.
Inherits ==
  \A g \in GroupIds : groups'[g] # NoGroup =>
    \A m \in groups'[g].workers :
      \/ /\ groups[g] # NoGroup
         /\ \E n \in groups[g].workers : n.session = m.session /\ n.membership = m.membership
      \/ minted' = minted + 1 /\ m.membership = minted + 1

\* Saving a group whose members are inherited is enough.
LEMMA SaveInherits ==
  ASSUME GroupsOK, NEW g \in GroupIds, NEW group \in Group \cup {NoGroup},
         SaveGroup(g, group),
         group # NoGroup => \A m \in group.workers :
           \/ /\ groups[g] # NoGroup
              /\ \E n \in groups[g].workers : n.session = m.session /\ n.membership = m.membership
           \/ minted' = minted + 1 /\ m.membership = minted + 1
  PROVE  Inherits
BY SaveTyped DEF GroupsOK, Inherits

LEMMA DropInherits ==
  ASSUME GroupsOK, NEW dropped, DropFromGroups(dropped)
  PROVE  Inherits
BY ReconciledTyped DEF GroupsOK, Inherits

LEMMA EditInherits ==
  ASSUME Parts, Edit
  PROVE  Inherits /\ minted' \in {minted, minted + 1}
<1> USE DEF Parts
<1> minted \in Nat
  BY LimitAssumption
<1>1. ASSUME NEW g \in GroupIds, NEW s \in Sessions, NEW specs \in WorkerSpecs,
             CreateGroup(g, s, specs)
      PROVE  Inherits /\ minted' = minted + 1
  <2> DEFINE workers == WorkerMembers({}, specs)
             group == [orchestrator |-> s, workers |-> workers]
  <2>1. group \in Group
    BY WorkerMembersTyped DEF Group
  <2>2. \A m \in workers : m.membership = minted + 1
    BY WorkerMembersInherit
  <2>3. SaveGroup(g, group) /\ minted' = minted + 1
    BY <1>1 DEF CreateGroup
  <2> HIDE DEF workers
  <2>4. \A m \in group.workers : m.membership = minted + 1
    BY <2>2
  <2> HIDE DEF group
  <2> QED BY <2>1, <2>3, <2>4, SaveInherits
<1>2. ASSUME NEW g \in GroupIds, NEW s \in Sessions, NEW caps \in Capabilities,
             AddWorker(g, s, caps)
      PROVE  Inherits /\ minted' = minted + 1
  <2> DEFINE new == [session |-> s, membership |-> minted + 1, capabilities |-> caps]
             group == [groups[g] EXCEPT !.workers = @ \cup {new}]
  <2>1. groups[g] \in Group /\ groups[g] # NoGroup
    BY <1>2 DEF AddWorker, Grouped, GroupsOK
  <2>2. new \in Member /\ new.membership = minted + 1
    BY DEF Member
  <2>3. SaveGroup(g, group) /\ minted' = minted + 1
    BY <1>2 DEF AddWorker
  <2> HIDE DEF new
  <2>4. group \in Group /\ group.workers = groups[g].workers \cup {new}
    BY <2>1, <2>2 DEF Group
  <2> HIDE DEF group
  <2> QED BY <2>1, <2>2, <2>3, <2>4, SaveInherits
<1>3. ASSUME NEW g \in GroupIds, NEW s \in Sessions, RemoveWorker(g, s)
      PROVE  Inherits /\ minted' = minted
  <2> DEFINE group == [groups[g] EXCEPT !.workers = {m \in @ : m.session # s}]
  <2>1. groups[g] \in Group /\ groups[g] # NoGroup
    BY <1>3 DEF RemoveWorker, Grouped, GroupsOK
  <2>2. group \in Group /\ group.workers \subseteq groups[g].workers
    BY <2>1 DEF Group
  <2>3. SaveGroup(g, group) /\ minted' = minted
    BY <1>3 DEF RemoveWorker
  <2> HIDE DEF group
  <2> QED BY <2>1, <2>2, <2>3, SaveInherits
<1>4. ASSUME NEW g \in GroupIds, DeleteGroup(g)
      PROVE  Inherits /\ minted' = minted
  BY <1>4, SaveInherits DEF DeleteGroup
<1>5. ASSUME UNCHANGED <<groups, minted>>
      PROVE  Inherits /\ minted' = minted
  BY <1>5 DEF Inherits
<1>6. ASSUME NEW c \in Clients, StillReviewed(c)
      PROVE  /\ clients[c].group \in GroupIds
             /\ groups[clients[c].group] \in Group
             /\ groups[clients[c].group] # NoGroup
  BY <1>6, NullAssumption DEF StillReviewed, ClientsOK, Editing
<1>7. ASSUME NEW c \in Clients, NEW specs \in WorkerSpecs, ReplaceWorkers(c, specs)
      PROVE  Inherits /\ minted' = minted + 1
  <2> DEFINE g == clients[c].group
             workers == WorkerMembers(groups[g].workers, specs)
             group == [groups[g] EXCEPT !.workers = workers]
  <2>1. g \in GroupIds /\ groups[g] \in Group /\ groups[g] # NoGroup
    BY <1>6, <1>7 DEF ReplaceWorkers
  <2>2. workers \in SUBSET Member
    BY <2>1, WorkerMembersTyped DEF Group
  <2>3. \A m \in workers :
          \/ \E n \in groups[g].workers : n.session = m.session /\ n.membership = m.membership
          \/ m.membership = minted + 1
    BY <2>1, WorkerMembersInherit DEF Group
  <2>4. SaveGroup(g, group) /\ minted' = minted + 1
    BY <1>7 DEF ReplaceWorkers
  <2> HIDE DEF workers
  <2>5. group \in Group /\ group.workers = workers
    BY <2>1, <2>2 DEF Group
  <2> HIDE DEF g, group
  <2> QED BY <2>1, <2>3, <2>4, <2>5, SaveInherits
<1>8. ASSUME NEW c \in Clients, NEW s \in Sessions, ReassignOrchestrator(c, s)
      PROVE  Inherits /\ minted' = minted
  <2> DEFINE g == clients[c].group
             group == [orchestrator |-> s,
                       workers |-> {m \in groups[g].workers : m.session # s}]
  <2>1. g \in GroupIds /\ groups[g] \in Group /\ groups[g] # NoGroup
    BY <1>6, <1>8 DEF ReassignOrchestrator
  <2>2. group \in Group /\ group.workers \subseteq groups[g].workers
    BY <2>1 DEF Group
  <2>3. SaveGroup(g, group) /\ minted' = minted
    BY <1>8 DEF ReassignOrchestrator
  <2> HIDE DEF g, group
  <2> QED BY <2>1, <2>2, <2>3, SaveInherits
<1>9. ASSUME NEW c \in Clients, DeleteReviewed(c)
      PROVE  Inherits /\ minted' = minted
  BY <1>6, <1>9, SaveInherits DEF DeleteReviewed
<1>10. CASE \E c \in Clients : GiveUp(c) \/ \E g \in GroupIds : Review(c, g)
  BY <1>5, <1>10 DEF GiveUp, Review
<1> QED BY <1>1, <1>2, <1>3, <1>4, <1>7, <1>8, <1>9, <1>10 DEF Edit

\* Nothing but an edit gives anybody a membership.
LEMMA OthersInherit ==
  ASSUME Parts, GroupAct \/ Single \/ Pruning
  PROVE  Inherits /\ minted' = minted
<1> USE DEF Parts
<1>1. CASE GroupAct
  BY <1>1, GroupActTyped DEF Inherits
<1>2. CASE Single
  BY <1>2, DropInherits
     DEF Single, StopWorkload, RestartWorkload, RemoveWorkload, Ages, Inherits
<1>3. CASE Pruning
  BY <1>3, DropInherits
     DEF Pruning, PreviewPrune, ApplyPrune, AutomaticCleanup, Prune, Inherits
<1> QED BY <1>1, <1>2, <1>3

\* Numbers only grow, and whoever left had one of those given so far.
Numbered ==
  \A t \in Memberships(groups) \cup departed : t[3] <= minted

ReturningInv == Numbered /\ ReturningWorkersAreNew

LEMMA ReturningStep ==
  ASSUME Parts, DepartedOK, ReturningInv, [Next]_vars
  PROVE  ReturningInv'
<1> minted \in Nat
  BY LimitAssumption DEF Parts
<1>1. CASE Next
  <2>1. Inherits /\ minted' \in {minted, minted + 1}
    BY <1>1, EditInherits, OthersInherit DEF Next
  <2>2. ASSUME NEW t \in Memberships(groups')
        PROVE  t \in Memberships(groups) \/ (minted' = minted + 1 /\ t[3] = minted + 1)
    <3>0. PICK g \in GroupIds : groups'[g] # NoGroup /\
            \E m \in groups'[g].workers : t = <<g, m.session, m.membership>>
      BY <2>2, InForce
    <3>1. PICK m \in groups'[g].workers : t = <<g, m.session, m.membership>>
      BY <3>0
    <3>2. CASE minted' = minted + 1 /\ m.membership = minted + 1
      BY <3>1, <3>2
    <3>3. CASE groups[g] # NoGroup /\
               \E n \in groups[g].workers : n.session = m.session /\ n.membership = m.membership
      BY <3>1, <3>3, InForce
    <3> QED BY <2>1, <3>0, <3>1, <3>2, <3>3 DEF Inherits
  <2>3. departed' = departed \cup (Memberships(groups) \ Memberships(groups'))
    BY <1>1 DEF Next
  <2>4. ASSUME NEW t \in Memberships(groups) \cup departed
        PROVE  t[3] \in Nat /\ t[3] <= minted
    BY MembershipsTyped DEF Parts, DepartedOK, ReturningInv, Numbered
  <2>5. Numbered'
    <3> SUFFICES ASSUME NEW t \in Memberships(groups') \cup departed'
                 PROVE  t[3] <= minted'
      BY DEF Numbered, Memberships
    <3> QED BY <2>1, <2>2, <2>3, <2>4
  <2>6. ReturningWorkersAreNew'
    <3> SUFFICES ASSUME NEW t \in Memberships(groups'), t \in departed'
                 PROVE  FALSE
      BY DEF ReturningWorkersAreNew, Memberships
    <3>1. t \in departed
      BY <2>3
    <3> QED BY <2>2, <2>4, <3>1 DEF ReturningInv, ReturningWorkersAreNew
  <2> QED BY <2>5, <2>6 DEF ReturningInv
<1>2. CASE UNCHANGED vars
  BY <1>2 DEF vars, ReturningInv, Numbered, ReturningWorkersAreNew, Memberships
<1> QED BY <1>1, <1>2

\* A worker that leaves a group and comes back, by whatever edits, is a new
\* authorization: no membership that ended is ever in force again.
THEOREM ReturningIsNew == Spec => []ReturningWorkersAreNew
<1>1. Init => ReturningInv
  BY InForce DEF Init, ReturningInv, Numbered, ReturningWorkersAreNew, Memberships
<1>2. Parts /\ DepartedOK /\ ReturningInv /\ [Next]_vars => ReturningInv'
  BY ReturningStep
<1>3. ReturningInv => ReturningWorkersAreNew
  BY DEF ReturningInv
<1> QED BY <1>1, <1>2, <1>3, AlwaysTyped, PTL DEF Spec

-----------------------------------------------------------------------------
(* Dangling members *)

Alive(s) == Recorded(s) /\ records[s].status # "Removed"
Named(group) == SessionsOf(group.workers) \cup {group.orchestrator}

LEMMA NamesAreSessions ==
  ASSUME NEW group \in Group
  PROVE  Named(group) \subseteq Sessions
BY DEF Named, SessionsOf, Group, Member

\* An edit that names only workloads that are there leaves nothing dangling.
LEMMA SaveNames ==
  ASSUME GroupsOK, NoDanglingMember, UNCHANGED records,
         NEW g \in GroupIds, NEW group \in Group \cup {NoGroup}, SaveGroup(g, group),
         group # NoGroup => \A s \in Named(group) : Alive(s)
  PROVE  NoDanglingMember'
<1>1. /\ groups'[g] = group
      /\ \A h \in GroupIds : h # g => groups'[h] = groups[h]
  BY SaveTyped DEF GroupsOK
<1>2. ASSUME NEW h \in GroupIds, groups'[h] # NoGroup, NEW s \in Named(groups'[h])
      PROVE  Alive(s)
  <2>1. CASE h = g
    BY <1>1, <1>2, <2>1
  <2>2. CASE h # g
    BY <1>1, <1>2, <2>2 DEF NoDanglingMember, Named, Alive, Grouped
  <2> QED BY <2>1, <2>2
<1> QED BY <1>2 DEF NoDanglingMember, Named, Alive, Grouped, Recorded, SessionsOf

\* A step on the records alone that keeps what is there leaves nothing dangling.
LEMMA KeepNames ==
  ASSUME GroupsOK, NoDanglingMember, UNCHANGED groups,
         \A s \in Sessions : Alive(s) => Alive(s)'
  PROVE  NoDanglingMember'
<1>1. ASSUME NEW g \in GroupIds, Grouped(g), NEW s \in Named(groups[g])
      PROVE  Alive(s)'
  BY <1>1, NamesAreSessions DEF NoDanglingMember, Named, Alive, Grouped, GroupsOK
<1> QED BY <1>1 DEF NoDanglingMember, Named, Alive, Grouped, Recorded, SessionsOf

\* Workloads that go are dropped from the groups in the same update.
LEMMA DropNames ==
  ASSUME GroupsOK, NoDanglingMember, NEW dropped \in SUBSET Sessions,
         DropFromGroups(dropped),
         \A t \in Sessions \ dropped : records'[t] = records[t]
  PROVE  NoDanglingMember'
<1>1. ASSUME NEW g \in GroupIds, groups'[g] # NoGroup, NEW s \in Named(groups'[g])
      PROVE  Alive(s)'
  <2>1. /\ groups[g] # NoGroup
        /\ groups'[g].orchestrator = groups[g].orchestrator
        /\ groups'[g].orchestrator \notin dropped
        /\ groups'[g].workers = {m \in groups[g].workers : m.session \notin dropped}
    BY <1>1, ReconciledTyped DEF GroupsOK
  <2>2. s \in Named(groups[g]) /\ s \notin dropped
    BY <1>1, <2>1 DEF Named, SessionsOf
  <2>3. s \in Sessions
    BY <2>1, <2>2, NamesAreSessions DEF GroupsOK
  <2>4. Alive(s)
    BY <2>1, <2>2 DEF NoDanglingMember, Named, Alive, Grouped
  <2> QED BY <2>2, <2>3, <2>4 DEF Alive, Recorded
<1>2. ASSUME NEW g \in GroupIds, Grouped(g)', NEW s \in Named(groups'[g])
      PROVE  (Recorded(s) /\ records[s].status # "Removed")'
  BY <1>1, <1>2 DEF Alive, Grouped
<1> QED BY <1>2 DEF NoDanglingMember, Named

LEMMA WorkerNames ==
  ASSUME NEW specs \in WorkerSpecs, NEW existing
  PROVE  SessionsOf(WorkerMembers(existing, specs)) = DOMAIN specs
<1> DEFINE members == WorkerMembers(existing, specs)
<1>1. \A m \in members : m.session \in DOMAIN specs
  BY DEF WorkerMembers
<1>2. ASSUME NEW s \in DOMAIN specs
      PROVE  \E m \in members : m.session = s
  <2> DEFINE kept == (CHOOSE m \in existing : m.session = s).membership
             number == IF s \in SessionsOf(existing) THEN kept ELSE minted + 1
             member == [session |-> s, membership |-> number, capabilities |-> specs[s]]
  <2>1. member \in members
    BY DEF WorkerMembers
  <2>2. member.session = s
    OBVIOUS
  <2> QED BY <2>1, <2>2
<1> HIDE DEF members
<1>3. SessionsOf(members) = DOMAIN specs
  BY <1>1, <1>2 DEF SessionsOf
<1> QED BY <1>3 DEF members

LEMMA EditNames ==
  ASSUME Parts, NoDanglingMember, Edit
  PROVE  NoDanglingMember'
<1> USE DEF Parts
<1> minted \in Nat
  BY LimitAssumption
<1>0. \A s \in Sessions : Eligible(s) => Alive(s)
  BY DEF Eligible, Alive
<1>1. ASSUME NEW g \in GroupIds, NEW s \in Sessions, NEW specs \in WorkerSpecs,
             CreateGroup(g, s, specs)
      PROVE  NoDanglingMember'
  <2> DEFINE group == [orchestrator |-> s, workers |-> WorkerMembers({}, specs)]
  <2>1. group \in Group
    BY WorkerMembersTyped DEF Group
  <2>2. Named(group) = DOMAIN specs \cup {s}
    BY WorkerNames DEF Named
  <2>3. /\ SaveGroup(g, group) /\ UNCHANGED records
        /\ \A t \in DOMAIN specs \cup {s} : Eligible(t)
    BY <1>1 DEF CreateGroup
  <2>4. \A t \in Named(group) : Alive(t)
    BY <2>2, <2>3 DEF Eligible, Alive
  <2> HIDE DEF group
  <2> QED BY <2>1, <2>3, <2>4, SaveNames
<1>2. ASSUME NEW g \in GroupIds, NEW s \in Sessions, NEW caps \in Capabilities,
             AddWorker(g, s, caps)
      PROVE  NoDanglingMember'
  <2> DEFINE new == [session |-> s, membership |-> minted + 1, capabilities |-> caps]
             group == [groups[g] EXCEPT !.workers = @ \cup {new}]
  <2>1. groups[g] \in Group /\ Grouped(g) /\ Alive(s)
    BY <1>0, <1>2 DEF AddWorker, Grouped, GroupsOK
  <2>2. new \in Member /\ new.session = s
    BY DEF Member
  <2>3. SaveGroup(g, group) /\ UNCHANGED records
    BY <1>2 DEF AddWorker
  <2> HIDE DEF new
  <2>4. /\ group \in Group /\ group.workers = groups[g].workers \cup {new}
        /\ group.orchestrator = groups[g].orchestrator
    BY <2>1, <2>2 DEF Group
  <2> HIDE DEF group
  <2>5. Named(group) \subseteq Named(groups[g]) \cup {s}
    BY <2>2, <2>4 DEF Named, SessionsOf
  <2>6. \A t \in Named(group) : Alive(t)
    BY <2>1, <2>5 DEF NoDanglingMember, Named, Alive
  <2> QED BY <2>3, <2>4, <2>6, SaveNames
<1>3. ASSUME NEW g \in GroupIds, NEW s \in Sessions, RemoveWorker(g, s)
      PROVE  NoDanglingMember'
  <2> DEFINE group == [groups[g] EXCEPT !.workers = {m \in @ : m.session # s}]
  <2>1. groups[g] \in Group /\ Grouped(g)
    BY <1>3 DEF RemoveWorker, Grouped, GroupsOK
  <2>2. /\ group \in Group /\ group.workers \subseteq groups[g].workers
        /\ group.orchestrator = groups[g].orchestrator
    BY <2>1 DEF Group
  <2>3. SaveGroup(g, group) /\ UNCHANGED records
    BY <1>3 DEF RemoveWorker
  <2> HIDE DEF group
  <2>4. \A t \in Named(group) : Alive(t)
    BY <2>1, <2>2 DEF NoDanglingMember, Named, Alive, SessionsOf
  <2> QED BY <2>2, <2>3, <2>4, SaveNames
<1>4. ASSUME NEW g \in GroupIds, SaveGroup(g, NoGroup), UNCHANGED records
      PROVE  NoDanglingMember'
  BY <1>4, SaveNames
<1>5. ASSUME UNCHANGED <<groups, records>>
      PROVE  NoDanglingMember'
  BY <1>5, KeepNames DEF Alive, Recorded
<1>6. ASSUME NEW c \in Clients, StillReviewed(c)
      PROVE  /\ clients[c].group \in GroupIds
             /\ groups[clients[c].group] \in Group
             /\ groups[clients[c].group] = clients[c].view
             /\ Grouped(clients[c].group)
  BY <1>6, NullAssumption DEF StillReviewed, ClientsOK, Editing, Grouped
<1>7. ASSUME NEW c \in Clients, NEW specs \in WorkerSpecs, ReplaceWorkers(c, specs)
      PROVE  NoDanglingMember'
  <2> DEFINE g == clients[c].group
             workers == WorkerMembers(groups[g].workers, specs)
             group == [groups[g] EXCEPT !.workers = workers]
  <2>1. g \in GroupIds /\ groups[g] \in Group /\ Grouped(g)
    BY <1>6, <1>7 DEF ReplaceWorkers
  <2>2. workers \in SUBSET Member /\ SessionsOf(workers) = DOMAIN specs
    BY <2>1, WorkerMembersTyped, WorkerNames DEF Group
  <2>3. /\ SaveGroup(g, group) /\ UNCHANGED records
        /\ \A s \in DOMAIN specs \ SessionsOf(groups[g].workers) : Eligible(s)
    BY <1>7 DEF ReplaceWorkers
  <2> HIDE DEF workers
  <2>4. /\ group \in Group /\ group.workers = workers
        /\ group.orchestrator = groups[g].orchestrator
    BY <2>1, <2>2 DEF Group
  <2> HIDE DEF g, group
  <2>5. \A s \in DOMAIN specs : Alive(s)
    BY <2>1, <2>3 DEF NoDanglingMember, Alive, Eligible
  <2>6. \A s \in Named(group) : Alive(s)
    BY <2>1, <2>2, <2>4, <2>5 DEF NoDanglingMember, Named, Alive
  <2> QED BY <2>1, <2>3, <2>4, <2>6, SaveNames
<1>8. ASSUME NEW c \in Clients, NEW s \in Sessions, ReassignOrchestrator(c, s)
      PROVE  NoDanglingMember'
  <2> DEFINE g == clients[c].group
             group == [orchestrator |-> s,
                       workers |-> {m \in groups[g].workers : m.session # s}]
  <2>1. g \in GroupIds /\ groups[g] \in Group /\ Grouped(g) /\ Alive(s)
    BY <1>0, <1>6, <1>8 DEF ReassignOrchestrator
  <2>2. group \in Group
    BY <2>1 DEF Group
  <2>3. SaveGroup(g, group) /\ UNCHANGED records
    BY <1>8 DEF ReassignOrchestrator
  <2>4. Named(group) \subseteq Named(groups[g]) \cup {s}
    BY DEF Named, SessionsOf
  <2> HIDE DEF g, group
  <2>5. \A t \in Named(group) : Alive(t)
    BY <2>1, <2>4 DEF NoDanglingMember, Named, Alive
  <2> QED BY <2>1, <2>2, <2>3, <2>5, SaveNames
<1> QED
  BY <1>1, <1>2, <1>3, <1>4, <1>5, <1>6, <1>7, <1>8
     DEF Edit, DeleteGroup, DeleteReviewed, GiveUp, Review

LEMMA OthersNames ==
  ASSUME Parts, NoDanglingMember, GroupAct \/ Single \/ Pruning
  PROVE  NoDanglingMember'
<1> USE DEF Parts
<1>1. CASE GroupAct
  BY <1>1, GroupActTyped, KeepNames DEF Alive
<1>2. ASSUME NEW s \in Sessions, StopWorkload(s) \/ RestartWorkload(s)
      PROVE  NoDanglingMember'
  BY <1>2, EndTyped, StartTyped, KeepNames DEF StopWorkload, RestartWorkload, Alive
<1>3. ASSUME NEW s \in Sessions, RemoveWorkload(s)
      PROVE  NoDanglingMember'
  BY <1>3, RemoveTyped, DropNames DEF RemoveWorkload
<1>4. ASSUME NEW s \in Sessions, Ages(s)
      PROVE  NoDanglingMember'
  <2> DEFINE r == [records[s] EXCEPT !.closed = "old"]
  <2>1. records[s] \in Record
    BY <1>4 DEF Ages, RecordsOK, Recorded
  <2>2. r \in Record /\ r.status = records[s].status
    BY <2>1 DEF Record
  <2>3. records' = [records EXCEPT ![s] = r] /\ UNCHANGED groups
    BY <1>4 DEF Ages
  <2> HIDE DEF r
  <2>4. \A t \in Sessions : Alive(t) => Alive(t)'
    BY <2>2, <2>3, NullAssumption DEF Alive, Recorded, RecordsOK
  <2> QED BY <2>3, <2>4, KeepNames
<1>5. ASSUME NEW dropped \in SUBSET Sessions, Prune(dropped)
      PROVE  NoDanglingMember'
  BY <1>5, PruneTyped, DropNames DEF Prune
<1>6. ASSUME NEW c \in Clients, ApplyPrune(c)
      PROVE  NoDanglingMember'
  <2> DEFINE dropped == SessionsOf({p \in clients[c].preview : UnchangedAndEligible(p)})
  <2>1. dropped \in SUBSET Sessions
    BY DEF SessionsOf, ClientsOK, Client, Candidate
  <2>2. Prune(dropped)
    BY <1>6 DEF ApplyPrune
  <2> HIDE DEF dropped
  <2> QED BY <1>5, <2>1, <2>2
<1>7. CASE AutomaticCleanup
  BY <1>5, <1>7 DEF AutomaticCleanup
<1>8. CASE \E c \in Clients : PreviewPrune(c)
  BY <1>8, KeepNames DEF PreviewPrune, Alive, Recorded
<1> QED BY <1>1, <1>2, <1>3, <1>4, <1>6, <1>7, <1>8 DEF Single, Pruning

LEMMA DanglingStep ==
  ASSUME Parts, NoDanglingMember, [Next]_vars
  PROVE  NoDanglingMember'
<1>1. CASE Next
  BY <1>1, EditNames, OthersNames DEF Next
<1>2. CASE UNCHANGED vars
  BY <1>2, KeepNames DEF vars, Alive, Recorded, Parts
<1> QED BY <1>1, <1>2

\* No order of edits, removals and prunes leaves a group that names a workload
\* without a record, or one that was removed.
THEOREM NothingDangles == Spec => []NoDanglingMember
<1>1. Init => NoDanglingMember
  BY DEF Init, NoDanglingMember, Grouped
<1>2. Parts /\ NoDanglingMember /\ [Next]_vars => NoDanglingMember'
  BY DanglingStep
<1> QED BY <1>1, <1>2, AlwaysTyped, PTL DEF Spec

-----------------------------------------------------------------------------
(* What a process finishes, and what it takes up *)

\* A process that had something under review, and has nothing now, finished it
\* itself.
LEMMA WhoFinishes ==
  ASSUME Parts, [Next]_vars, NEW c \in Clients,
         clients[c].doing # "idle", clients'[c] = Idle
  PROVE  \/ \E specs \in WorkerSpecs : ReplaceWorkers(c, specs)
         \/ \E s \in Sessions : ReassignOrchestrator(c, s)
         \/ DeleteReviewed(c) \/ GiveUp(c) \/ ApplyPrune(c)
<1>0. clients'[c] # clients[c] /\ \A d \in Clients : clients[d] \in Client
  BY DEF Idle, Parts, ClientsOK
<1>1. ASSUME NEW d \in Clients, NEW client, clients' = [clients EXCEPT ![d] = client]
      PROVE  d = c /\ client = Idle
  BY <1>0, <1>1 DEF Parts, ClientsOK
<1>2. CASE Edit
  <2>1. ASSUME NEW d \in Clients, NEW g \in GroupIds, Review(d, g)
        PROVE  FALSE
    BY <1>1, <2>1 DEF Review
  <2>2. ASSUME NEW d \in Clients, Finish(d)
        PROVE  d = c
    BY <1>1, <2>2 DEF Finish
  <2> QED
    BY <1>0, <1>2, <2>1, <2>2
       DEF Edit, CreateGroup, AddWorker, RemoveWorker, DeleteGroup, ReplaceWorkers,
           ReassignOrchestrator, DeleteReviewed, GiveUp
<1>3. CASE GroupAct
  <2>1. ASSUME NEW d \in Clients, NEW g \in GroupIds, NEW action \in {"stop", "restart"},
               PlanGroupAction(d, g, action)
        PROVE  FALSE
    BY <1>1, <2>1 DEF PlanGroupAction
  <2>2. ASSUME NEW d \in Clients, NEW m \in clients[d].todo, CheckMember(d, m)
        PROVE  FALSE
    <3> DEFINE due == IF MembershipUnchanged(clients[d].group, m) THEN {m} ELSE {}
    <3> HIDE DEF due
    <3>1. clients' = [clients EXCEPT ![d] = [clients[d] EXCEPT !.todo = @ \ {m}, !.due = due]]
          /\ clients[d].doing = "acting"
      BY <2>2 DEF CheckMember, due
    <3>2. [clients[d] EXCEPT !.todo = @ \ {m}, !.due = due] = Idle /\ d = c
      BY <1>1, <3>1
    <3>3. [clients[d] EXCEPT !.todo = @ \ {m}, !.due = due].doing = clients[d].doing
      BY <1>0 DEF Client
    <3> QED
      BY <3>1, <3>2, <3>3 DEF Idle
  <2>3. ASSUME NEW d \in Clients, clients[d].doing = "acting",
               clients' = [clients EXCEPT ![d].due = {}]
        PROVE  FALSE
    <3>1. clients' = [clients EXCEPT ![d] = [clients[d] EXCEPT !.due = {}]]
      BY <2>3
    <3>2. [clients[d] EXCEPT !.due = {}] = Idle
      BY <1>1, <3>1
    <3>3. [clients[d] EXCEPT !.due = {}].doing = clients[d].doing
      BY <1>0 DEF Client
    <3> QED
      BY <2>3, <3>2, <3>3 DEF Idle
  <2> QED
    BY <1>3, <2>1, <2>2, <2>3 DEF GroupAct, ActOnMember, FailMember
<1>4. CASE Single
  BY <1>0, <1>4 DEF Single, StopWorkload, RestartWorkload, RemoveWorkload, Ages
<1>5. CASE Pruning
  <2>1. ASSUME NEW d \in Clients, PreviewPrune(d)
        PROVE  FALSE
    BY <1>1, <2>1 DEF PreviewPrune
  <2>2. ASSUME NEW d \in Clients, ApplyPrune(d)
        PROVE  d = c
    BY <1>1, <2>2 DEF ApplyPrune, Finish
  <2> QED
    BY <1>0, <1>5, <2>1, <2>2 DEF Pruning, AutomaticCleanup
<1> QED
  BY <1>0, <1>2, <1>3, <1>4, <1>5 DEF Next, vars

\* PruneService::apply, for any records and clients: a prune drops only records
\* that are what somebody previewed, and what was restarted or ended anew since
\* stays.
THEOREM PrunesAreReviewed == Spec => PruneDropsWhatWasPreviewed
<1>1. ASSUME Parts, [Next]_vars, NEW c \in Clients,
             clients[c].doing = "pruning", clients'[c] = Idle,
             NEW s \in Sessions, Recorded(s), records'[s] = NoRecord
      PROVE  [session |-> s, record |-> records[s]] \in clients[c].preview
  <2>1. GiveUp(c) \/ ApplyPrune(c)
    BY <1>1, WhoFinishes DEF ReplaceWorkers, ReassignOrchestrator, DeleteReviewed, StillReviewed
  <2>2. ApplyPrune(c)
    BY <1>1, <2>1 DEF GiveUp, Recorded
  <2>3. s \in SessionsOf({p \in clients[c].preview : UnchangedAndEligible(p)})
    BY <1>1, <2>2 DEF ApplyPrune, Prune, Recorded
  <2>4. PICK p \in clients[c].preview : p.session = s /\ p.record = records[s]
    BY <2>3 DEF SessionsOf, UnchangedAndEligible
  <2>5. p \in Candidate
    <3>1. clients[c] \in Client
      BY <1>1 DEF Parts, ClientsOK
    <3> QED
      BY <2>4, <3>1 DEF Client
  <2>6. p = [session |-> s, record |-> records[s]]
    BY <2>4, <2>5 DEF Candidate
  <2> QED
    BY <2>4, <2>6
<1>2. Parts /\ [Next]_vars =>
        [\A c \in Clients : (clients[c].doing = "pruning" /\ clients'[c] = Idle) =>
           \A s \in Sessions : (Recorded(s) /\ records'[s] = NoRecord) =>
             [session |-> s, record |-> records[s]] \in clients[c].preview]_vars
  BY <1>1
<1> QED
  BY <1>2, AlwaysTyped, PTL DEF Spec, PruneDropsWhatWasPreviewed

\* The manager's edits (`current != expected`), for any groups and clients: no
\* edit takes away a worker, or a grant, that its author was not shown.
THEOREM EditsSpare == Spec => EditsSpareTheUnseen
<1>1. ASSUME Parts, [Next]_vars, NEW c \in Clients,
             clients[c].doing = "editing", clients'[c] = Idle,
             NEW g \in GroupIds, Grouped(g)
      PROVE  LET after == IF groups'[g] = NoGroup THEN {} ELSE groups'[g].workers
             IN  groups[g].workers \ after \subseteq clients[c].view.workers
  <2>1. groups[g] \in Group
    BY <1>1 DEF Parts, GroupsOK, Grouped
  <2>2. CASE groups'[g] = groups[g]
    BY <1>1, <2>2 DEF Grouped
  <2>3. CASE StillReviewed(c) /\ g = clients[c].group
    BY <2>3 DEF StillReviewed
  <2>4. ASSUME NEW group, StillReviewed(c), SaveGroup(clients[c].group, group),
               g # clients[c].group
        PROVE  groups'[g] = groups[g]
    BY <2>4 DEF SaveGroup, Parts, GroupsOK
  <2>5. \/ \E specs \in WorkerSpecs : ReplaceWorkers(c, specs)
        \/ \E s \in Sessions : ReassignOrchestrator(c, s)
        \/ DeleteReviewed(c) \/ GiveUp(c)
    BY <1>1, WhoFinishes DEF ApplyPrune
  <2>6. \/ UNCHANGED groups
        \/ StillReviewed(c) /\ \E group : SaveGroup(clients[c].group, group)
    BY <2>5 DEF ReplaceWorkers, ReassignOrchestrator, DeleteReviewed, GiveUp
  <2> QED
    BY <2>2, <2>3, <2>4, <2>6
<1>2. Parts /\ [Next]_vars =>
        [\A c \in Clients :
           (clients[c].doing = "editing" /\ clients'[c] = Idle) =>
             \A g \in GroupIds : Grouped(g) =>
               LET after == IF groups'[g] = NoGroup THEN {} ELSE groups'[g].workers
               IN  groups[g].workers \ after \subseteq clients[c].view.workers]_vars
  BY <1>1
<1> QED
  BY <1>2, AlwaysTyped, PTL DEF Spec, EditsSpareTheUnseen

\* Only a member whose membership is unchanged becomes due.
LEMMA WhatBecomesDue ==
  ASSUME Parts, [Next]_vars, NEW c \in Clients, NEW m \in clients'[c].due \ clients[c].due
  PROVE  /\ clients[c].group \in GroupIds /\ MembershipUnchanged(clients[c].group, m)
<1>0. clients'[c] # clients[c] /\ \A d \in Clients : clients[d] \in Client
  BY DEF Parts, ClientsOK
<1>1. ASSUME NEW d \in Clients, NEW client, clients' = [clients EXCEPT ![d] = client]
      PROVE  d = c /\ m \in client.due
  BY <1>0, <1>1 DEF Parts, ClientsOK
<1>2. ASSUME NEW d \in Clients, Finish(d)
      PROVE  FALSE
  BY <1>1, <1>2 DEF Finish, Idle
<1>3. CASE Edit
  <2>1. ASSUME NEW d \in Clients, NEW g \in GroupIds, Review(d, g)
        PROVE  FALSE
    <3>1. m \in [Idle EXCEPT !.doing = "editing", !.group = g, !.view = groups[g]].due
      BY <1>1, <2>1 DEF Review
    <3> QED
      BY <3>1 DEF Idle
  <2> QED
    BY <1>0, <1>2, <1>3, <2>1
       DEF Edit, CreateGroup, AddWorker, RemoveWorker, DeleteGroup, ReplaceWorkers,
           ReassignOrchestrator, DeleteReviewed, GiveUp
<1>4. CASE GroupAct
  <2>1. ASSUME NEW d \in Clients, NEW g \in GroupIds, NEW action \in {"stop", "restart"},
               PlanGroupAction(d, g, action)
        PROVE  FALSE
    <3> DEFINE todo == {n \in groups[g].workers : Plannable(action, n.session)}
    <3> HIDE DEF todo
    <3>1. m \in [Idle EXCEPT !.doing = "acting", !.group = g, !.action = action, !.todo = todo].due
      BY <1>1, <2>1 DEF PlanGroupAction, todo
    <3> QED
      BY <3>1 DEF Idle
  <2>2. ASSUME NEW d \in Clients, NEW n \in clients[d].todo, CheckMember(d, n)
        PROVE  clients[c].group \in GroupIds /\ MembershipUnchanged(clients[c].group, m)
    <3> DEFINE due == IF MembershipUnchanged(clients[d].group, n) THEN {n} ELSE {}
    <3> HIDE DEF due
    <3>1. clients' = [clients EXCEPT ![d] = [clients[d] EXCEPT !.todo = @ \ {n}, !.due = due]]
          /\ clients[d].doing = "acting"
      BY <2>2 DEF CheckMember, due
    <3>2. m \in [clients[d] EXCEPT !.todo = @ \ {n}, !.due = due].due /\ d = c
      BY <1>1, <3>1
    <3>3. [clients[d] EXCEPT !.todo = @ \ {n}, !.due = due].due = due
      BY <1>0 DEF Client
    <3>4. m \in due
      BY <3>2, <3>3
    <3> QED
      BY <3>1, <3>2, <3>4 DEF due, Parts, ClientsOK, Editing
  <2>3. ASSUME NEW d \in Clients, clients' = [clients EXCEPT ![d].due = {}]
        PROVE  FALSE
    <3>1. clients' = [clients EXCEPT ![d] = [clients[d] EXCEPT !.due = {}]]
      BY <2>3
    <3>2. m \in [clients[d] EXCEPT !.due = {}].due
      BY <1>1, <3>1
    <3> QED
      BY <1>0, <3>2 DEF Client
  <2> QED
    BY <1>4, <2>1, <2>2, <2>3 DEF GroupAct, ActOnMember, FailMember
<1>5. CASE Single
  BY <1>0, <1>5 DEF Single, StopWorkload, RestartWorkload, RemoveWorkload, Ages
<1>6. CASE Pruning
  <2>1. ASSUME NEW d \in Clients, PreviewPrune(d)
        PROVE  FALSE
    <3> DEFINE preview == {[session |-> s, record |-> records[s]] :
                             s \in {t \in Sessions : Recorded(t) /\ Prunable(records[t])}}
    <3> HIDE DEF preview
    <3>1. m \in [Idle EXCEPT !.doing = "pruning", !.preview = preview].due
      BY <1>1, <2>1 DEF PreviewPrune, preview
    <3> QED
      BY <3>1 DEF Idle
  <2> QED
    BY <1>0, <1>2, <1>6, <2>1 DEF Pruning, AutomaticCleanup, ApplyPrune
<1> QED
  BY <1>0, <1>3, <1>4, <1>5, <1>6 DEF Next, vars

\* act_on_member, for any groups and clients: what a group action takes up is in
\* the group, under a membership that never ended since somebody confirmed it.
THEOREM ConfirmedStay == Spec => ConfirmedMembersStayed
<1>1. ASSUME Parts, ReturningWorkersAreNew, [Next]_vars,
             NEW c \in Clients, NEW m \in clients'[c].due \ clients[c].due
      PROVE  /\ <<clients[c].group, m.session, m.membership>> \notin departed
             /\ m.session \in SessionsOf(groups[clients[c].group].workers)
  <2>1. /\ clients[c].group \in GroupIds
        /\ MembershipUnchanged(clients[c].group, m)
    BY <1>1, WhatBecomesDue
  <2>2. <<clients[c].group, m.session, m.membership>> \in Memberships(groups)
    BY <2>1, InForce DEF MembershipUnchanged, Grouped
  <2> QED
    BY <1>1, <2>1, <2>2 DEF ReturningWorkersAreNew, MembershipUnchanged, SessionsOf
<1>2. Parts /\ ReturningWorkersAreNew /\ [Next]_vars =>
        [\A c \in Clients : \A m \in clients'[c].due \ clients[c].due :
           /\ <<clients[c].group, m.session, m.membership>> \notin departed
           /\ m.session \in SessionsOf(groups[clients[c].group].workers)]_vars
  BY <1>1
<1> QED
  BY <1>2, AlwaysTyped, ReturningIsNew, PTL DEF Spec, ConfirmedMembersStayed

=============================================================================
