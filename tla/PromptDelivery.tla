---------------------------- MODULE PromptDelivery ----------------------------
(***************************************************************************)
(* Reviewed prompt delivery of Mission Control (src/mission_control.rs,    *)
(* src/orchestration.rs): a person reviews destinations and types SEND,    *)
(* and one thread per destination reads the state and Herdr's snapshot     *)
(* twice before it asks Herdr to write the prompt.  Between any two of     *)
(* these reads other processes edit the group, workloads end, and Herdr's  *)
(* panes are moved, renamed, replaced and closed; the answer may be late,  *)
(* lost, or an error.                                                      *)
(*                                                                         *)
(* What the surroundings do is bounded by MaxChanges steps in all.         *)
(***************************************************************************)
EXTENDS Naturals, FiniteSets

CONSTANTS
  Targets,           \* the workers of one group
  Panes,             \* Herdr's pane ids
  Names,             \* names a person may give an agent
  NoName,
  MaxPromptTargets,  \* MAX_PROMPT_TARGETS
  MaxSends,          \* bound: reviewed prompts
  MaxChanges         \* bound: steps of the surroundings

ASSUME LimitAssumption ==
  MaxPromptTargets \in Nat /\ MaxSends \in Nat /\ MaxChanges \in Nat

VARIABLES
  members,   \* per worker: its membership (0: none), its grant, its workload
  panes,     \* per pane id: the occupants Herdr has there, at most one
  surface,   \* what the Observer is doing, and the reviewed memberships
  threads,   \* per worker: the delivery thread of the current send
  requests,  \* prompts Herdr was asked to write
  changes,   \* steps the surroundings have taken; every one is a new epoch
  written,   \* history: which send reached which terminal
  proven,    \* history: terminals that were the exact, settled occupant of a
             \* reviewed membership in force at one instant since SEND
  told       \* history: the outcome reported for each destination of a send

vars == <<members, panes, surface, threads, requests, changes, written, proven, told>>

-----------------------------------------------------------------------------
(* Data *)

Member == [membership : Nat, prompt : BOOLEAN, running : BOOLEAN]

\* What Herdr knows of a pane: the tokens Tether reported on it (worker and
\* membership), and the terminal that occupies it.
Occupant ==
  [worker : Targets, membership : Nat, terminal : Nat, expected : BOOLEAN,
   name : Names \cup {NoName}, settled : BOOLEAN, seq : Nat]

\* What a snapshot found for a worker (AgentBinding).
Binding == [pane : Panes, terminal : Nat, name : Names \cup {NoName}, seq : Nat]
Outcomes == {"delivered", "stalled", "uncertain", "rejected"}

\* Where a thread is: before a load or a snapshot, before or after the request.
Points == {"idle", "load", "snapshot", "reload", "resnapshot", "send", "sent", "done"}

Thread == [at : Points, binding : SUBSET Binding, outcome : SUBSET Outcomes]

Request ==
  [send : Nat, worker : Targets, pane : Panes, name : Names \cup {NoName},
   state : {"asked", "refused", "failed", "written"}, terminal : Nat]

Resting == [at |-> "idle", binding |-> {}, outcome |-> {}]

Absent(t) == members[t].membership = 0
Reviewed(t) == surface.reviewed[t]
Chosen == {t \in Targets : Reviewed(t) # 0}
At(t, point) == surface.phase = "delivering" /\ threads[t].at = point

\* The state authorizes a prompt to the reviewed membership (member_expectation).
Expected(t) ==
  /\ members[t].membership # 0 /\ members[t].membership = Reviewed(t)
  /\ members[t].prompt /\ members[t].running

\* The panes that claim this membership, and what resolve_binding makes of them.
Exact(t) ==
  {p \in Panes : \E o \in panes[p] : o.worker = t /\ o.membership = Reviewed(t)}

Resolved(t) ==
  UNION {{[pane |-> p, terminal |-> o.terminal, name |-> o.name, seq |-> o.seq] :
            o \in {u \in panes[p] : u.expected /\ u.settled}} :
         p \in {q \in Panes : Exact(t) = {q}}}

\* Mutant: only the state of the agent is compared.
SameState(b, first) == b.seq = first.seq

\* The occupant the first snapshot found, in the same state
\* (is_occupied_by, state_change_seq).  A move to another pane is accepted.
SameOccupant(b, first) ==
  b.terminal = first.terminal /\ b.name = first.name /\ b.seq = first.seq

Step(t, thread) == threads' = [threads EXCEPT ![t] = thread]

Conclude(t, outcome) ==
  Step(t, [threads[t] EXCEPT !.at = "done", !.outcome = {outcome}])

-----------------------------------------------------------------------------
(* The Observer *)

\* `p`: the memberships are read before the person reviews (mission_targets).
Compose(S) ==
  /\ surface.phase = "idle" /\ surface.sends < MaxSends
  /\ S # {} /\ Cardinality(S) <= MaxPromptTargets
  /\ \A t \in S : ~Absent(t)
  /\ surface' = [surface EXCEPT !.phase = "reviewing",
       !.reviewed = [t \in Targets |-> IF t \in S THEN members[t].membership ELSE 0]]
  /\ UNCHANGED <<members, panes, threads, requests, changes, written, told>>

Cancel ==
  /\ surface.phase = "reviewing"
  /\ surface' = [surface EXCEPT !.phase = "idle"]
  /\ UNCHANGED <<members, panes, threads, requests, changes, written, told>>

Send ==
  /\ surface.phase = "reviewing"
  /\ surface' = [surface EXCEPT !.phase = "delivering", !.sends = @ + 1, !.armed = FALSE]
  /\ threads' = [t \in Targets |-> IF t \in Chosen THEN [Resting EXCEPT !.at = "load"] ELSE Resting]
  /\ UNCHANGED <<members, panes, requests, changes, written, told>>

\* Every thread is joined before any outcome is shown.
Report ==
  /\ surface.phase = "delivering"
  /\ \A t \in Chosen : threads[t].at = "done"
  /\ told' = told \cup
       UNION {{<<surface.sends, t, o>> : o \in threads[t].outcome} : t \in Chosen}
  /\ surface' = [surface EXCEPT !.phase = "idle", !.armed = FALSE]
  /\ threads' = [t \in Targets |-> Resting]
  /\ UNCHANGED <<members, panes, requests, changes, written>>

\* A second Quit closes the Observer; all its threads end with the process.
Quit ==
  /\ surface.phase = "delivering"
  /\ IF ~surface.armed
     THEN surface' = [surface EXCEPT !.armed = TRUE] /\ UNCHANGED <<told, threads>>
     ELSE /\ surface' = [surface EXCEPT !.phase = "idle", !.armed = FALSE]
          /\ told' = told \cup {<<surface.sends, t, "uncertain">> : t \in Chosen}
          /\ threads' = [t \in Targets |-> Resting]
  /\ UNCHANGED <<members, panes, requests, changes, written>>

\* Any other key.
Disarm ==
  /\ surface.armed
  /\ surface' = [surface EXCEPT !.armed = FALSE]
  /\ UNCHANGED <<members, panes, threads, requests, changes, written, told>>

-----------------------------------------------------------------------------
(* One delivery thread *)

\* authorize_binding and deliver_one load the state; an unreadable state, or
\* one that no longer authorizes, is a rejection.
Load(t) ==
  /\ \/ At(t, "load") /\ Expected(t) /\ Step(t, [threads[t] EXCEPT !.at = "snapshot"])
     \/ At(t, "reload") /\ Expected(t) /\ Step(t, [threads[t] EXCEPT !.at = "resnapshot"])
     \/ (At(t, "load") \/ At(t, "reload")) /\ Conclude(t, "rejected")
  /\ UNCHANGED <<members, panes, surface, requests, changes, written, told>>

\* The two snapshots; Herdr may also be unreachable.
Snapshot(t) ==
  /\ \/ /\ At(t, "snapshot")
        /\ \E b \in Resolved(t) :
             Step(t, [threads[t] EXCEPT !.at = "reload", !.binding = {b}])
     \/ /\ At(t, "resnapshot")
        /\ \E b \in Resolved(t), first \in threads[t].binding :
             /\ SameOccupant(b, first)
             /\ Step(t, [threads[t] EXCEPT !.at = "send", !.binding = {b}])
     \/ (At(t, "snapshot") \/ At(t, "resnapshot")) /\ Conclude(t, "rejected")
  /\ UNCHANGED <<members, panes, surface, requests, changes, written, told>>

\* agent.prompt names the agent, or else its pane.
Ask(t) ==
  /\ At(t, "send")
  /\ \E b \in threads[t].binding :
       requests' = requests \cup
         {[send |-> surface.sends, worker |-> t, pane |-> b.pane, name |-> b.name,
           state |-> "asked", terminal |-> 0]}
  /\ Step(t, [threads[t] EXCEPT !.at = "sent"])
  /\ UNCHANGED <<members, panes, surface, changes, written, told>>

\* Mutant: nothing bounds the wait for an answer.
UnansweredWaits(t) ==
  /\ At(t, "send")
  /\ Conclude(t, "uncertain")
  /\ UNCHANGED <<members, panes, surface, requests, changes, written, told>>

\* No answer that could be read: not connected, timed out, closed, not valid, or
\* an error that says nothing about delivery.
Unanswered(t) ==
  /\ At(t, "send") \/ At(t, "sent")
  /\ Conclude(t, "uncertain")
  /\ UNCHANGED <<members, panes, surface, requests, changes, written, told>>

\* Mutant: an error of the write itself counts as a refusal.
RefusedOrFailed(r) == r.state \in {"refused", "failed"}

\* Herdr's error comes from before any byte was written
\* (prompt_error_confirms_no_delivery).
ConfirmsNoDelivery(r) == r.state = "refused"

\* The agent Herdr answers with is the one that was authorized.
ConfirmsTarget(t, r) ==
  \E b \in threads[t].binding : \E o \in UNION {panes[p] : p \in Panes} :
    r.state = "written" /\ o.terminal = r.terminal /\ r.terminal = b.terminal /\ o.expected

Answered(t) ==
  /\ At(t, "sent")
  /\ \E r \in requests :
       /\ r.send = surface.sends /\ r.worker = t /\ r.state # "asked"
       /\ \/ ConfirmsNoDelivery(r) /\ Conclude(t, "rejected")
          \/ r.state = "written" /\ Conclude(t, "stalled")
          \/ ConfirmsTarget(t, r) /\ Conclude(t, "delivered")
          \/ ~ConfirmsNoDelivery(r) /\ ~ConfirmsTarget(t, r) /\ Conclude(t, "uncertain")
  /\ UNCHANGED <<members, panes, surface, requests, changes, written, told>>

ThreadStep(t) == Load(t) \/ Snapshot(t) \/ Ask(t) \/ Unanswered(t) \/ Answered(t)

-----------------------------------------------------------------------------
(* Herdr *)

\* The panes a request means when Herdr handles it.
Meant(r) == {p \in Panes : \E o \in panes[p] : IF r.name = NoName THEN p = r.pane ELSE o.name = r.name}

\* Herdr refuses before it writes, writes, or fails while it writes, which it may
\* do long after whoever asked has given up.
Handle(r) ==
  /\ r.state = "asked"
  /\ \/ /\ requests' = (requests \ {r}) \cup {[r EXCEPT !.state = "refused"]}
        /\ UNCHANGED written
     \/ \E p \in Meant(r) : \E o \in panes[p], state \in {"written", "failed"} :
          /\ Cardinality(Meant(r)) = 1
          /\ requests' = (requests \ {r}) \cup {[r EXCEPT !.state = state, !.terminal = o.terminal]}
          /\ written' = written \cup {<<r.send, r.worker, o.terminal>>}
     \/ /\ requests' = (requests \ {r}) \cup {[r EXCEPT !.state = "failed"]}
        /\ UNCHANGED written
  /\ UNCHANGED <<members, panes, surface, threads, changes, told>>

-----------------------------------------------------------------------------
(* The surroundings *)

Change == changes < MaxChanges /\ changes' = changes + 1
ChangeMember(t, member) ==
  members' = [members EXCEPT ![t] = member] /\ UNCHANGED panes
ChangePanes(new) == panes' = new /\ UNCHANGED members

\* The group is edited: a worker leaves, comes back as a new membership, or is
\* granted something else under the one it has.
MemberChanges(t) ==
  LET m == members[t]
  IN  \/ ~Absent(t) /\ ChangeMember(t, [m EXCEPT !.membership = 0])
      \/ Absent(t) /\ m.running /\ ChangeMember(t, [m EXCEPT !.membership = changes + 2])
      \/ ~Absent(t) /\ ChangeMember(t, [m EXCEPT !.prompt = ~@])
      \/ ChangeMember(t, [m EXCEPT !.running = ~@])

\* Mission Control opens a member in a new pane, and labels it.
Materialize(t, p) ==
  /\ panes[p] = {} /\ ~Absent(t)
  /\ ChangePanes([panes EXCEPT ![p] =
       {[worker |-> t, membership |-> members[t].membership, terminal |-> changes + 2,
         expected |-> TRUE, name |-> NoName, settled |-> TRUE, seq |-> 0]}])

PaneChanges(p) ==
  /\ panes[p] # {}
  /\ \/ ChangePanes([panes EXCEPT ![p] = {}])
     \/ \E q \in Panes : panes[q] = {} /\
          ChangePanes([panes EXCEPT ![q] = panes[p], ![p] = {}])
     \/ \E o \in panes[p] :
          \/ ChangePanes([panes EXCEPT ![p] =
               {[o EXCEPT !.terminal = changes + 2, !.name = NoName, !.seq = 0]}])
          \/ ChangePanes([panes EXCEPT ![p] = {[o EXCEPT !.settled = ~@, !.seq = @ + 1]}])
          \/ ChangePanes([panes EXCEPT ![p] = {[o EXCEPT !.expected = ~@]}])
          \/ \E n \in Names \cup {NoName} : n # o.name /\
               ChangePanes([panes EXCEPT ![p] = {[o EXCEPT !.name = n]}])

Surroundings ==
  /\ Change
  /\ \/ \E t \in Targets : MemberChanges(t)
     \/ \E t \in Targets, p \in Panes : Materialize(t, p)
     \/ \E p \in Panes : PaneChanges(p)
  /\ UNCHANGED <<surface, threads, requests, written, told>>

-----------------------------------------------------------------------------

\* Some panes hold agents of first memberships, some are not there.
Init ==
  /\ members = [t \in Targets |-> [membership |-> 1, prompt |-> TRUE, running |-> TRUE]]
  /\ \E t \in Targets, p \in Panes, n \in Names \cup {NoName} :
       panes = [q \in Panes |-> IF q # p THEN {} ELSE
         {[worker |-> t, membership |-> 1, terminal |-> 1, expected |-> TRUE,
           name |-> n, settled |-> TRUE, seq |-> 0]}]
  /\ surface = [phase |-> "idle", reviewed |-> [t \in Targets |-> 0], sends |-> 0, armed |-> FALSE]
  /\ threads = [t \in Targets |-> Resting]
  /\ requests = {} /\ changes = 0
  /\ written = {} /\ proven = {} /\ told = {}

\* What holds at this instant of the send under way.
ProvenNow ==
  UNION {{<<surface.sends, t, b.terminal>> : b \in Resolved(t)} :
           t \in {u \in Chosen : surface.phase = "delivering"
                                 /\ members[u].membership = Reviewed(u)}}

Next ==
  /\ \/ \E S \in SUBSET Targets : Compose(S)
     \/ Cancel \/ Send \/ Report \/ Quit \/ Disarm
     \/ \E t \in Targets : ThreadStep(t)
     \/ \E r \in requests : Handle(r)
     \/ Surroundings
  /\ proven' = proven \cup ProvenNow'

Spec == Init /\ [][Next]_vars

\* Threads run, every read and write of a socket has a timeout, and the Observer
\* polls for the outcome.
LiveSpec ==
  /\ Spec
  /\ \A t \in Targets : WF_vars(ThreadStep(t) /\ proven' = proven \cup ProvenNow')
  /\ WF_vars(Report /\ proven' = proven \cup ProvenNow')

-----------------------------------------------------------------------------
(* Properties *)

\* Every variable has its type; a thread that is done, and no other, has an
\* outcome, and one that asks Herdr knows whom for.
TypeOK ==
  /\ members \in [Targets -> Member]
  /\ \A p \in Panes : panes[p] \subseteq Occupant /\ Cardinality(panes[p]) <= 1
  /\ surface.phase \in {"idle", "reviewing", "delivering"} /\ surface.sends \in 0..MaxSends
  /\ threads \in [Targets -> Thread]
  /\ \A t \in Targets :
       /\ Cardinality(threads[t].outcome) = IF threads[t].at = "done" THEN 1 ELSE 0
       /\ threads[t].at \in {"send", "sent"} => Cardinality(threads[t].binding) = 1
  /\ requests \subseteq Request
  /\ told \subseteq Nat \X Targets \X Outcomes

\* Whatever is about to be sent was, at one instant since SEND, for the reviewed
\* membership in force, to its exact and settled occupant (deliver_one).
SendsWereAuthorized ==
  \A t \in Targets : (At(t, "send") \/ At(t, "sent")) =>
    \A b \in threads[t].binding : <<surface.sends, t, b.terminal>> \in proven

\* Nobody is misled into sending again, or into waiting: what was rejected never
\* reached an agent, not even later, what stalled did, and what was delivered
\* reached the agent that was authorized (TargetDelivery).
OutcomesAreTrue ==
  \A send \in 1..surface.sends, t \in Targets :
    LET reached == {w \in written : w[1] = send /\ w[2] = t}
    IN  /\ <<send, t, "rejected">> \in told => reached = {}
        /\ <<send, t, "stalled">> \in told => reached # {}
        /\ <<send, t, "delivered">> \in told => reached \cap proven # {}

\* A delivery never leaves the Observer busy: every input it gates comes back.
DeliveryEnds == (surface.phase = "delivering") ~> (surface.phase # "delivering")
=============================================================================
