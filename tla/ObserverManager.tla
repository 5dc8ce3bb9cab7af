--------------------------- MODULE ObserverManager ---------------------------
(***************************************************************************)
(* The screens of the Observer manager (src/observer_manager.rs).  They    *)
(* work on a snapshot of the groups and of the workloads that may join,    *)
(* take a key at a time, and end with one action for the loop in           *)
(* src/cli.rs to carry out, see FrontEnd.                                  *)
(***************************************************************************)
EXTENDS Integers, FiniteSets, SequencesExt

CONSTANTS
  SessionCount,  \* workloads there may be
  Hinted,        \* workloads with a Herdr agent hint
  MaxGroups      \* bound: ids of groups

Sessions == 1 .. SessionCount

GroupIds == 1 .. MaxGroups

ASSUME ManagerAssumption ==
  SessionCount \in Nat /\ Hinted \subseteq Sessions /\ MaxGroups \in Nat

VARIABLES
  groups,   \* the store: the groups in order
  running,  \* the store: running, exactly owned workloads
  screens   \* ObserverManagerState

managerVars == <<groups, running, screens>>

-----------------------------------------------------------------------------
(* Data *)

\* `rest` stands for the title and the capabilities other than prompt_agent.
Member(s, prompt, rest) == [session |-> s, prompt |-> prompt, rest |-> rest]
Group(id, orchestrator, workers) ==
  [id |-> id, orchestrator |-> orchestrator, workers |-> workers]

Of(group) == {group.workers[i].session : i \in DOMAIN group.workers}
MemberOf(group, s) == CHOOSE m \in ToSet(group.workers) : m.session = s
Ids(gs) == {gs[i].id : i \in DOMAIN gs}

NoGroup == Group(0, 0, <<>>)
NoAction ==
  [kind |-> "none", group |-> NoGroup, orchestrator |-> 0, workers |-> <<>>, filter |-> "All"]

\* set_agent_view's filter, by the entry of the action menu.
FilterAt == (3 :> "All") @@ (4 :> "NeedsAttention") @@ (5 :> "Remote")

\* candidate lists keep the order of the eligible workloads.
Candidates(set) == SetToSortSeq(set, LAMBDA s, t : s < t)

\* `granted` is history: the workloads p was pressed for since the candidates
\* were last listed for a new review.
Closed ==
  [screen |-> "none", groups |-> <<>>, eligible |-> {}, cands |-> <<>>,
   index |-> 0, group |-> 0, orchestrator |-> 0, selected |-> {}, prompts |-> {},
   connected |-> FALSE, review |-> "none", back |-> 0, granted |-> {},
   action |-> NoAction]

Opened(connected) ==
  [Closed EXCEPT !.screen = "Groups", !.groups = groups, !.eligible = running,
                 !.connected = connected]

Chosen == screens.groups[screens.group]
TakesKeys == screens.screen # "none" /\ screens.action = NoAction
OnScreen(screen) == TakesKeys /\ screens.screen = screen
AtEntry(screen, index) == OnScreen(screen) /\ screens.index = index

\* What review_labels lists, less the wording.
ListedOrchestrator ==
  IF screens.orchestrator # 0 THEN screens.orchestrator ELSE Chosen.orchestrator
ListedWorkers ==
  IF screens.review = "reassign"
  THEN SelectSeq(Chosen.workers, LAMBDA m : m.session # ListedOrchestrator)
  ELSE SelectSeq(screens.cands, LAMBDA s : s \in screens.selected)

\* item_labels, by their number.
ItemCount ==
  CASE screens.screen = "Groups" -> Len(screens.groups) + 1
    [] screens.screen \in {"CreateOrchestrator", "ChangeOrchestrator",
                           "CreateWorkers", "EditWorkers"} -> Len(screens.cands)
    [] screens.screen = "GroupActions" -> 8
    [] screens.screen = "ReviewTopology" -> 1 + Len(ListedWorkers)
         + (IF screens.review = "reassign" /\ screens.orchestrator \in Of(Chosen)
            THEN 1 ELSE 0)
    [] OTHER -> 1

Shows(new) == screens' = new /\ UNCHANGED <<groups, running>>
Leaves(action) == Shows([screens EXCEPT !.action = action])

-----------------------------------------------------------------------------
(* Keys *)

\* Previous and Next wrap around; the delete question takes no other key.
Move ==
  /\ TakesKeys /\ screens.screen # "ConfirmDelete"
  /\ \E by \in {-1, 1} :
       Shows([screens EXCEPT !.index = IF ItemCount = 0 THEN 0 ELSE (@ + by) % ItemCount])

OpenGroup ==
  /\ OnScreen("Groups") /\ screens.index < Len(screens.groups)
  /\ Shows([screens EXCEPT !.group = screens.index + 1, !.screen = "GroupActions", !.index = 0])

\* Mutant: the permissions chosen before are still there.
BeginCreateKeepingPrompts ==
  /\ OnScreen("Groups")
  /\ Shows([screens EXCEPT !.screen = "CreateOrchestrator",
              !.cands = Candidates(screens.eligible), !.index = 0, !.group = 0,
              !.orchestrator = 0, !.selected = {}, !.granted = {}])

\* n, or Enter on the last entry: there is no topology of fewer than two.
BeginCreate ==
  /\ OnScreen("Groups")
  /\ IF Cardinality(screens.eligible) < 2
     THEN Shows([screens EXCEPT !.index = Len(screens.groups)])
     ELSE Shows([screens EXCEPT !.screen = "CreateOrchestrator",
            !.cands = Candidates(screens.eligible), !.index = 0, !.group = 0,
            !.orchestrator = 0, !.selected = {}, !.prompts = {}, !.granted = {}])

ChooseOrchestrator ==
  /\ OnScreen("CreateOrchestrator") /\ screens.index < Len(screens.cands)
  /\ LET chosen == screens.cands[screens.index + 1]
     IN  Shows([screens EXCEPT !.orchestrator = chosen, !.screen = "CreateWorkers",
                  !.cands = Candidates(screens.eligible \ {chosen}),
                  !.selected = {}, !.index = 0])

\* e, or Enter on its entry: the members first, those that are unavailable
\* too, then who may join.
BeginEdit ==
  /\ OnScreen("GroupActions")
  /\ LET members == [i \in DOMAIN Chosen.workers |-> Chosen.workers[i].session]
         joining == screens.eligible \ ({Chosen.orchestrator} \cup Of(Chosen))
     IN  Shows([screens EXCEPT !.screen = "EditWorkers", !.index = 0,
                  !.cands = members \o Candidates(joining), !.selected = Of(Chosen),
                  !.prompts = {s \in Of(Chosen) : MemberOf(Chosen, s).prompt},
                  !.granted = {}])

BeginReassign ==
  /\ AtEntry("GroupActions", 2)
  /\ Shows([screens EXCEPT !.screen = "ChangeOrchestrator", !.index = 0,
              !.cands = Candidates(screens.eligible \ {Chosen.orchestrator}),
              !.orchestrator = 0])

Choosing == OnScreen("CreateWorkers") \/ OnScreen("EditWorkers")
AtCursor == screens.cands[screens.index + 1]
OnCandidate == Choosing /\ screens.index < Len(screens.cands)

\* A worker that is taken out loses the permission with it.
ToggleWorker ==
  /\ OnCandidate
  /\ IF AtCursor \in screens.selected
     THEN Shows([screens EXCEPT !.selected = @ \ {AtCursor}, !.prompts = @ \ {AtCursor}])
     ELSE Shows([screens EXCEPT !.selected = @ \cup {AtCursor}])

\* The permission needs Herdr, an agent hint and a worker that is selected;
\* it can be taken back without any of them.
TogglePrompt ==
  /\ OnCandidate
  /\ IF AtCursor \in screens.prompts
     THEN Shows([screens EXCEPT !.prompts = @ \ {AtCursor}])
     ELSE /\ screens.connected /\ AtCursor \in Hinted \cap screens.eligible
          /\ AtCursor \in screens.selected
          /\ Shows([screens EXCEPT !.prompts = @ \cup {AtCursor},
                                   !.granted = @ \cup {AtCursor}])

Reviews(kind, new) ==
  Shows([new EXCEPT !.review = kind, !.back = screens.index,
                    !.screen = "ReviewTopology", !.index = 0])

ReviewWorkers ==
  /\ Choosing /\ screens.selected # {}
  /\ Reviews(IF OnScreen("CreateWorkers") THEN "create" ELSE "replace", screens)

ReviewReplacement ==
  /\ OnScreen("ChangeOrchestrator") /\ screens.index < Len(screens.cands)
  /\ Reviews("reassign", [screens EXCEPT !.orchestrator = AtCursor])

\* A member who stays keeps its title and its other capabilities.
SelectedWorkers ==
  LET spec(s) ==
        Member(s, s \in screens.prompts,
               IF screens.group # 0 /\ s \in Of(Chosen) THEN MemberOf(Chosen, s).rest
               ELSE "default")
      chosen == SelectSeq(screens.cands, LAMBDA s : s \in screens.selected)
  IN  [i \in DOMAIN chosen |-> spec(chosen[i])]

\* The first id that no group in the snapshot has.
NextId == CHOOSE id \in 1 .. Len(screens.groups) + 1 :
  id \notin Ids(screens.groups) /\ \A j \in 1 .. id - 1 : j \in Ids(screens.groups)

Apply ==
  /\ OnScreen("ReviewTopology")
  /\ CASE screens.review = "create" ->
            NextId \in GroupIds /\
            Leaves([NoAction EXCEPT !.kind = "create", !.group.id = NextId,
                      !.orchestrator = screens.orchestrator, !.workers = SelectedWorkers])
       [] screens.review = "replace" ->
            Leaves([NoAction EXCEPT !.kind = "replace", !.group = Chosen,
                      !.workers = SelectedWorkers])
       [] OTHER ->
            Leaves([NoAction EXCEPT !.kind = "reassign", !.group = Chosen,
                      !.orchestrator = screens.orchestrator])

Launch == AtEntry("GroupActions", 0) /\ Leaves([NoAction EXCEPT !.kind = "launch", !.group = Chosen])

ShowInSidebar ==
  /\ OnScreen("GroupActions") /\ screens.index \in DOMAIN FilterAt
  /\ Leaves([NoAction EXCEPT !.kind = "view", !.group = Chosen,
                             !.filter = FilterAt[screens.index]])

RestoreSidebar == AtEntry("GroupActions", 6) /\ Leaves([NoAction EXCEPT !.kind = "clear"])

\* d, or Enter on its entry.
AskDelete == OnScreen("GroupActions") /\ Shows([screens EXCEPT !.screen = "ConfirmDelete", !.index = 0])

ConfirmDelete == OnScreen("ConfirmDelete") /\ Leaves([NoAction EXCEPT !.kind = "delete", !.group = Chosen])

DismissDelete == OnScreen("ConfirmDelete") /\ Shows([screens EXCEPT !.screen = "GroupActions", !.index = 5])

\* Esc or Backspace, per screen.
Back ==
  /\ TakesKeys /\ screens.screen # "ConfirmDelete"
  /\ CASE screens.screen = "Groups" -> Leaves([NoAction EXCEPT !.kind = "back"])
       [] screens.screen \in {"CreateOrchestrator", "GroupActions"} ->
            Shows([screens EXCEPT !.screen = "Groups",
                     !.index = IF screens.group = 0 THEN 0 ELSE screens.group - 1])
       [] screens.screen = "CreateWorkers" ->
            Shows([screens EXCEPT !.screen = "CreateOrchestrator", !.index = 0,
                     !.cands = Candidates(screens.eligible), !.selected = {}])
       [] screens.screen = "EditWorkers" ->
            Shows([screens EXCEPT !.screen = "GroupActions", !.index = 1, !.selected = {}])
       [] screens.screen = "ChangeOrchestrator" ->
            Shows([screens EXCEPT !.screen = "GroupActions", !.index = 2, !.orchestrator = 0])
       [] OTHER ->
            Shows([screens EXCEPT !.index = screens.back, !.review = "none",
                     !.screen = CASE screens.review = "create" -> "CreateWorkers"
                                  [] screens.review = "replace" -> "EditWorkers"
                                  [] OTHER -> "ChangeOrchestrator"])

Key ==
  \/ Move \/ OpenGroup \/ BeginCreate \/ ChooseOrchestrator \/ BeginEdit \/ BeginReassign
  \/ ToggleWorker \/ TogglePrompt \/ ReviewWorkers \/ ReviewReplacement \/ Apply
  \/ Launch \/ ShowInSidebar \/ RestoreSidebar \/ AskDelete \/ ConfirmDelete
  \/ DismissDelete \/ Back

-----------------------------------------------------------------------------
(* Properties *)

\* A permission to prompt in the topology that is applied is one that the
\* group gave already, or that somebody pressed p for while choosing
\* (toggle_prompt): "separate, explicit, and defaults off".
PermissionsAreExplicit ==
  \A i \in DOMAIN screens.action.workers :
    LET worker == screens.action.workers[i]
    IN  worker.prompt =>
          \/ worker.session \in screens.granted
          \/ \E m \in ToSet(screens.action.group.workers) :
               m.session = worker.session /\ m.prompt
=============================================================================
