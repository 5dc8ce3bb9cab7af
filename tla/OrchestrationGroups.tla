------------------------- MODULE OrchestrationGroups -------------------------
(***************************************************************************)
(* Observer groups (src/orchestration.rs) over the session records of      *)
(* src/state.rs: an orchestrator, its workers, and the processes that edit *)
(* a group, stop or restart all of its workers, remove workloads, and      *)
(* prune closed records (PruneService of src/lifecycle.rs).                *)
(*                                                                         *)
(* Every edit is one store update.  What a person reviewed or confirmed,   *)
(* however, was read earlier: a manager's group, the plan of a group       *)
(* action and a prune preview are snapshots that other processes overtake. *)
(* What stopping, restarting and removing one workload goes through is     *)
(* TetherLifecycle; here they are the updates of the record they end in.   *)
(***************************************************************************)
EXTENDS Naturals, FiniteSets

CONSTANTS
  Sessions,         \* recorded workloads
  GroupIds,         \* names of groups
  Clients,          \* processes with something under review
  Capabilities,     \* what a worker may be granted (opaque)
  MaxWorkers,       \* OrchestrationGroup::MAX_WORKERS
  NoGroup,
  NoRecord,
  MaxEdits,         \* bound: memberships are minted by this many updates
  MaxIncarnations   \* bound: runs of one workload

ASSUME LimitAssumption ==
  MaxWorkers \in Nat /\ MaxEdits \in Nat /\ MaxIncarnations \in Nat

VARIABLES
  records,  \* per workload: its record, or NoRecord once pruned
  groups,   \* per name: the group, or NoGroup
  minted,   \* how many updates have minted membership ids
  clients,  \* per process: what it holds under review
  departed  \* history: the memberships that left a group

vars == <<records, groups, minted, clients, departed>>

-----------------------------------------------------------------------------
(* Data *)

\* A workload's `incarnation` stands for the fields that change with every
\* start (last_used_at, tmux_session_id); `closed` is closed_at, told apart by
\* whether the retention has passed.  `owned`: ownership proof and exact id.
Record ==
  [status : {"Creating", "Running", "Stopping", "Ended", "Removed"},
   owned : BOOLEAN, incarnation : Nat, closed : {"no", "recent", "old"}]

\* A membership id is minted by one update for one worker, so the pair of that
\* update's number and the worker names it.
Member == [session : Sessions, membership : Nat, capabilities : Capabilities]
Group == [orchestrator : Sessions, workers : SUBSET Member]

ASSUME NullAssumption == NoGroup \notin Group /\ NoRecord \notin Record

\* Workers asked for by a person: their capabilities, by session.
WorkerSpecs == UNION {[S -> Capabilities] : S \in SUBSET Sessions}

Candidate == [session : Sessions, record : Record]

\* `todo` are the confirmed members of a plan, `due` the one being acted on.
Client ==
  [doing : {"idle", "editing", "acting", "pruning"},
   group : GroupIds \cup {NoGroup},
   view : Group \cup {NoGroup},
   action : {"stop", "restart"},
   todo : SUBSET Member,
   due : SUBSET Member,
   preview : SUBSET Candidate]

Idle ==
  [doing |-> "idle", group |-> NoGroup, view |-> NoGroup, action |-> "stop",
   todo |-> {}, due |-> {}, preview |-> {}]

Recorded(s) == records[s] # NoRecord
Grouped(g) == groups[g] # NoGroup
SessionsOf(members) == {m.session : m \in members}

\* A workload that may be given a role (require_role_eligible_session).
Eligible(s) == Recorded(s) /\ records[s].status = "Running" /\ records[s].owned

WorkersValid(orchestrator, specs) ==
  orchestrator \notin DOMAIN specs /\ Cardinality(DOMAIN specs) <= MaxWorkers

\* Mutant: everyone asked for gets the membership of the first update.
MembersFromScratch(existing, specs) ==
  {[session |-> s, membership |-> 1, capabilities |-> specs[s]] : s \in DOMAIN specs}

\* The new worker list: whoever stays keeps its membership, the others get
\* one this update mints (worker_members).
WorkerMembers(existing, specs) ==
  LET Membership(s) ==
        IF s \in SessionsOf(existing)
        THEN (CHOOSE m \in existing : m.session = s).membership
        ELSE minted + 1
  IN  {[session |-> s, membership |-> Membership(s), capabilities |-> specs[s]] :
         s \in DOMAIN specs}

\* State::validate, which every save runs before it writes.
Valid(group) ==
  group # NoGroup =>
    /\ group.orchestrator \notin SessionsOf(group.workers)
    /\ Cardinality(SessionsOf(group.workers)) = Cardinality(group.workers)
    /\ Cardinality(group.workers) <= MaxWorkers

\* A process finished what it had under review.
Finish(c) == clients' = [clients EXCEPT ![c] = Idle]

\* One update of one group.
SaveGroup(g, group) == Valid(group) /\ groups' = [groups EXCEPT ![g] = group]

\* Mutant: only the workers go, a group outlives its orchestrator.
ReconciledWorkers(dropped) ==
  [g \in GroupIds |->
     IF ~Grouped(g) THEN NoGroup
     ELSE [groups[g] EXCEPT !.workers = {m \in @ : m.session \notin dropped}]]

\* An update that drops workloads from every group, and the groups they
\* orchestrate (reconcile_orchestration_groups).
Reconciled(dropped) ==
  [g \in GroupIds |->
     IF ~Grouped(g) \/ groups[g].orchestrator \in dropped THEN NoGroup
     ELSE [groups[g] EXCEPT !.workers = {m \in @ : m.session \notin dropped}]]

DropFromGroups(dropped) == groups' = Reconciled(dropped)

-----------------------------------------------------------------------------
(* Editing a group *)

\* `orchestration create`, and the manager's Create.
CreateGroup(g, orchestrator, specs) ==
  /\ ~Grouped(g)
  /\ WorkersValid(orchestrator, specs)
  /\ \A s \in DOMAIN specs \cup {orchestrator} : Eligible(s)
  /\ minted < MaxEdits
  /\ minted' = minted + 1
  /\ SaveGroup(g, [orchestrator |-> orchestrator, workers |-> WorkerMembers({}, specs)])
  /\ UNCHANGED <<records, clients>>

AddWorker(g, s, capabilities) ==
  /\ Grouped(g) /\ Eligible(s)
  /\ s # groups[g].orchestrator
  /\ s \notin SessionsOf(groups[g].workers)
  /\ Cardinality(groups[g].workers) < MaxWorkers
  /\ minted < MaxEdits
  /\ minted' = minted + 1
  /\ SaveGroup(g, [groups[g] EXCEPT !.workers = @ \cup
       {[session |-> s, membership |-> minted + 1, capabilities |-> capabilities]}])
  /\ UNCHANGED <<records, clients>>

RemoveWorker(g, s) ==
  /\ Grouped(g) /\ s \in SessionsOf(groups[g].workers)
  /\ SaveGroup(g, [groups[g] EXCEPT !.workers = {m \in @ : m.session # s}])
  /\ UNCHANGED <<records, minted, clients>>

DeleteGroup(g) ==
  /\ Grouped(g)
  /\ SaveGroup(g, NoGroup)
  /\ UNCHANGED <<records, minted, clients>>

\* The manager shows a group; whatever is confirmed there is an edit of it.
Review(c, g) ==
  /\ clients[c].doing = "idle" /\ Grouped(g)
  /\ clients' = [clients EXCEPT ![c] =
       [Idle EXCEPT !.doing = "editing", !.group = g, !.view = groups[g]]]
  /\ UNCHANGED <<records, groups, minted>>

\* Mutant: whatever the group has become.
StillThere(c) == clients[c].doing = "editing" /\ Grouped(clients[c].group)

\* The reviewed group is still the recorded one (`current != expected`).
StillReviewed(c) ==
  clients[c].doing = "editing" /\ groups[clients[c].group] = clients[c].view

ReplaceWorkers(c, specs) ==
  LET g == clients[c].group
  IN  /\ StillReviewed(c)
      /\ WorkersValid(clients[c].view.orchestrator, specs)
      /\ \A s \in DOMAIN specs \ SessionsOf(groups[g].workers) : Eligible(s)
      /\ minted < MaxEdits
      /\ minted' = minted + 1
      /\ SaveGroup(g, [groups[g] EXCEPT !.workers = WorkerMembers(@, specs)])
      /\ Finish(c) /\ UNCHANGED records

\* The new orchestrator stops being a worker in the same update.
ReassignOrchestrator(c, s) ==
  LET g == clients[c].group
  IN  /\ StillReviewed(c) /\ Eligible(s)
      /\ SaveGroup(g, [orchestrator |-> s,
                       workers |-> {m \in groups[g].workers : m.session # s}])
      /\ Finish(c) /\ UNCHANGED <<records, minted>>

DeleteReviewed(c) ==
  /\ StillReviewed(c)
  /\ SaveGroup(clients[c].group, NoGroup)
  /\ Finish(c) /\ UNCHANGED <<records, minted>>

\* The person leaves the manager, or the edit was refused.
GiveUp(c) ==
  /\ clients[c].doing # "idle"
  /\ Finish(c) /\ UNCHANGED <<records, groups, minted>>

-----------------------------------------------------------------------------
(* One workload at a time *)

Stopped(r) == [r EXCEPT !.status = "Ended", !.closed = "recent"]

Restarted(r) ==
  [r EXCEPT !.status = "Running", !.incarnation = @ + 1, !.closed = "no"]

Stoppable(s) ==
  Recorded(s) /\ records[s].owned /\ records[s].status \in {"Creating", "Running", "Stopping"}
Restartable(s) ==
  /\ Recorded(s) /\ records[s].owned /\ records[s].status \in {"Ended", "Creating"}
  /\ records[s].incarnation < MaxIncarnations

\* A Stop, or an observation that the workload is over: the record is Ended, or
\* a Stop got no further than its declaration.
EndWorkload(s) ==
  /\ Stoppable(s)
  /\ \E status \in {"Stopping", "Ended"} :
       records' = [records EXCEPT ![s] =
         IF status = "Ended" THEN Stopped(@) ELSE [@ EXCEPT !.status = "Stopping"]]

\* A restart reserves, and then runs or leaves its reservation behind.
StartWorkload(s) ==
  /\ Restartable(s)
  /\ \E status \in {"Creating", "Running"} :
       records' = [records EXCEPT ![s] = [Restarted(@) EXCEPT !.status = status]]

StopWorkload(s) == EndWorkload(s) /\ UNCHANGED <<groups, minted, clients>>

RestartWorkload(s) == StartWorkload(s) /\ UNCHANGED <<groups, minted, clients>>

Removed(r) ==
  [r EXCEPT !.status = "Removed", !.closed = IF r.closed = "no" THEN "recent" ELSE r.closed]

\* remove_owned: an ended workload, or any record without an ownership proof.
RemoveWorkload(s) ==
  /\ Recorded(s) /\ records[s].status # "Removed"
  /\ records[s].owned => records[s].status = "Ended"
  /\ records' = [records EXCEPT ![s] = Removed(@)]
  /\ DropFromGroups({s})
  /\ UNCHANGED <<minted, clients>>

\* The retention passes.
Ages(s) ==
  /\ Recorded(s) /\ records[s].closed = "recent"
  /\ records' = [records EXCEPT ![s].closed = "old"]
  /\ UNCHANGED <<groups, minted, clients>>

-----------------------------------------------------------------------------
(* Stopping or restarting all the workers of a group *)

\* Whether the plan acts on this member (plan_member).
Plannable(action, s) ==
  /\ Recorded(s) /\ records[s].owned
  /\ records[s].status \in
       (IF action = "stop" THEN {"Running", "Creating", "Stopping"} ELSE {"Ended", "Creating"})

PlanGroupAction(c, g, action) ==
  /\ clients[c].doing = "idle" /\ Grouped(g)
  /\ LET todo == {m \in groups[g].workers : Plannable(action, m.session)}
     IN  /\ todo # {}
         /\ clients' = [clients EXCEPT ![c] =
              [Idle EXCEPT !.doing = "acting", !.group = g, !.action = action, !.todo = todo]]
  /\ UNCHANGED <<records, groups, minted>>

\* Mutant: the worker is still in the group, whatever its membership.
SameWorker(g, m) == Grouped(g) /\ m.session \in SessionsOf(groups[g].workers)

MembershipUnchanged(g, m) ==
  /\ Grouped(g)
  /\ \E n \in groups[g].workers : n.session = m.session /\ n.membership = m.membership

\* The next member of the plan: acted on while its membership is unchanged,
\* skipped otherwise.
CheckMember(c, m) ==
  /\ clients[c].doing = "acting" /\ clients[c].due = {} /\ m \in clients[c].todo
  /\ clients' = [clients EXCEPT
       ![c].todo = @ \ {m},
       ![c].due = IF MembershipUnchanged(clients[c].group, m) THEN {m} ELSE {}]
  /\ UNCHANGED <<records, groups, minted>>

\* The single-workload operation on the member that is due, or its refusal.
ActOnMember(c, m) ==
  /\ clients[c].doing = "acting" /\ m \in clients[c].due
  /\ \/ clients[c].action = "stop" /\ EndWorkload(m.session)
     \/ clients[c].action = "restart" /\ StartWorkload(m.session)
  /\ clients' = [clients EXCEPT ![c].due = {}]
  /\ UNCHANGED <<groups, minted>>

FailMember(c) ==
  /\ clients[c].doing = "acting" /\ clients[c].due # {}
  /\ clients' = [clients EXCEPT ![c].due = {}]
  /\ UNCHANGED <<records, groups, minted>>

-----------------------------------------------------------------------------
(* Pruning *)

\* cleanup_eligibility, for a workload nobody asks a host about.
Prunable(r) == r.status \in {"Ended", "Removed"} /\ r.closed = "old"

PreviewPrune(c) ==
  /\ clients[c].doing = "idle"
  /\ LET candidates == {s \in Sessions : Recorded(s) /\ Prunable(records[s])}
     IN  /\ candidates # {}
         /\ clients' = [clients EXCEPT ![c] = [Idle EXCEPT !.doing = "pruning",
              !.preview = {[session |-> s, record |-> records[s]] : s \in candidates}]]
  /\ UNCHANGED <<records, groups, minted>>

\* Mutant: a candidate is compared by its id.
EligibleById(candidate) ==
  Recorded(candidate.session) /\ Prunable(records[candidate.session])

UnchangedAndEligible(candidate) ==
  /\ records[candidate.session] = candidate.record
  /\ Prunable(records[candidate.session])

Prune(sessions) ==
  /\ records' = [s \in Sessions |-> IF s \in sessions THEN NoRecord ELSE records[s]]
  /\ DropFromGroups(sessions)

ApplyPrune(c) ==
  /\ clients[c].doing = "pruning"
  /\ Prune(SessionsOf({p \in clients[c].preview : UnchangedAndEligible(p)}))
  /\ Finish(c) /\ UNCHANGED minted

\* Every start of the program drops the removed records of long ago.
AutomaticCleanup ==
  /\ Prune({s \in Sessions :
              Recorded(s) /\ records[s].status = "Removed" /\ Prunable(records[s])})
  /\ UNCHANGED <<minted, clients>>

-----------------------------------------------------------------------------

Init ==
  /\ records \in [Sessions -> {[status |-> "Running", owned |-> owned,
                                incarnation |-> 1, closed |-> "no"] : owned \in BOOLEAN}]
  /\ groups = [g \in GroupIds |-> NoGroup]
  /\ minted = 0
  /\ clients = [c \in Clients |-> Idle]
  /\ departed = {}

\* The memberships in force.
Memberships(gs) ==
  UNION {{<<g, m.session, m.membership>> : m \in gs[g].workers} :
           g \in {h \in GroupIds : gs[h] # NoGroup}}

Edit ==
  \/ \E g \in GroupIds :
       \/ \E s \in Sessions, specs \in WorkerSpecs : CreateGroup(g, s, specs)
       \/ \E s \in Sessions, caps \in Capabilities : AddWorker(g, s, caps)
       \/ \E s \in Sessions : RemoveWorker(g, s)
       \/ DeleteGroup(g)
  \/ \E c \in Clients :
       \/ \E g \in GroupIds : Review(c, g)
       \/ \E specs \in WorkerSpecs : ReplaceWorkers(c, specs)
       \/ \E s \in Sessions : ReassignOrchestrator(c, s)
       \/ DeleteReviewed(c)
       \/ GiveUp(c)

GroupAct ==
  \E c \in Clients :
    \/ \E g \in GroupIds, action \in {"stop", "restart"} : PlanGroupAction(c, g, action)
    \/ \E m \in clients[c].todo : CheckMember(c, m)
    \/ \E m \in clients[c].due : ActOnMember(c, m)
    \/ FailMember(c)

Single ==
  \E s \in Sessions :
    StopWorkload(s) \/ RestartWorkload(s) \/ RemoveWorkload(s) \/ Ages(s)

Pruning ==
  (\E c \in Clients : PreviewPrune(c) \/ ApplyPrune(c)) \/ AutomaticCleanup

Next ==
  /\ Edit \/ GroupAct \/ Single \/ Pruning
  /\ departed' = departed \cup (Memberships(groups) \ Memberships(groups'))

Spec == Init /\ [][Next]_vars

-----------------------------------------------------------------------------
(* Properties *)

\* Every variable has its type, and every record has a closing time exactly
\* when it is closed, as State::validate demands of what is saved.
TypeOK ==
  /\ records \in [Sessions -> Record \cup {NoRecord}]
  /\ \A s \in Sessions : Recorded(s) =>
       (records[s].closed # "no" <=> records[s].status \in {"Ended", "Removed"})
  /\ groups \in [GroupIds -> Group \cup {NoGroup}]
  /\ minted \in 0..MaxEdits
  /\ clients \in [Clients -> Client]
  /\ departed \subseteq GroupIds \X Sessions \X Nat

\* A group names only workloads that have a record which was not removed: an
\* edit, a remove and a prune in any order leave no dangling member and no
\* group without its orchestrator (reconcile_orchestration_groups).
NoDanglingMember ==
  \A g \in GroupIds : Grouped(g) =>
    \A s \in SessionsOf(groups[g].workers) \cup {groups[g].orchestrator} :
      Recorded(s) /\ records[s].status # "Removed"

\* A membership that ended never comes back: a worker that is removed and added
\* again, in an edit or with its whole group, is a new authorization.
ReturningWorkersAreNew == Memberships(groups) \cap departed = {}

\* Group actions take up only workers that were members all along since the
\* plan somebody confirmed (act_on_member).
ConfirmedMembersStayed ==
  [][\A c \in Clients : \A m \in clients'[c].due \ clients[c].due :
       /\ <<clients[c].group, m.session, m.membership>> \notin departed
       /\ m.session \in SessionsOf(groups[clients[c].group].workers)]_vars

\* No edit from the manager undoes what its author could not see: a worker that
\* joined, or was granted something else, after the review stays as it is.
EditsSpareTheUnseen ==
  [][\A c \in Clients :
       (clients[c].doing = "editing" /\ clients'[c] = Idle) =>
         \A g \in GroupIds : Grouped(g) =>
           LET after == IF groups'[g] = NoGroup THEN {} ELSE groups'[g].workers
           IN  groups[g].workers \ after \subseteq clients[c].view.workers]_vars

\* A prune drops only records somebody previewed as they are: a workload that
\* was restarted in between, and even one that ended again and aged, stays.
PruneDropsWhatWasPreviewed ==
  [][\A c \in Clients : (clients[c].doing = "pruning" /\ clients'[c] = Idle) =>
       \A s \in Sessions : (Recorded(s) /\ records'[s] = NoRecord) =>
         [session |-> s, record |-> records[s]] \in clients[c].preview]_vars
=============================================================================
