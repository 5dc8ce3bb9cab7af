------------------------------ MODULE FrontEnd ------------------------------
(***************************************************************************)
(* The loop of `herdr-tether open` (src/cli.rs) that shows the picker and  *)
(* the Observer manager in turn and carries out what they end with: a      *)
(* workload put into a pane, a change of the groups in the store, of the   *)
(* Agents view, or Mission Control put into a pane.  A failure shows the   *)
(* screens again; the rest ends the process.  Other processes change the   *)
(* store, and a Herdr start restores the Agents view, meanwhile.           *)
(***************************************************************************)
EXTENDS ObserverManager

CONSTANTS
  Manager,       \* the process that runs the loop
  MaxActions,    \* bound: actions it carries out
  MaxReviews,    \* bound: openings of the manager that review a topology
  MaxOutside,    \* bound: changes of the store by others
  \* of AgentView and HerdrPlacement
  Procs, None, Panes, Source, Others, VerifyAttempts, MaxChanges

Filters == {"All", "NeedsAttention", "Remote"}

ASSUME FrontEndAssumption ==
  /\ Manager \in Procs /\ MaxActions \in Nat /\ MaxReviews \in Nat /\ MaxOutside \in Nat
  /\ Source \in Panes /\ VerifyAttempts \in Nat \ {0} /\ MaxChanges \in Nat
  /\ None \notin Procs \cup Others \cup {"shell", "starting", "attach"}

VARIABLES
  flow,     \* where the loop is, the action it carries out, and how many it did
  outside,  \* how often others changed the store
  preference, inForce, holder, call, unanswered, apart,  \* AgentView
  pane, job, closing, changes                            \* HerdrPlacement

INSTANCE AgentView
INSTANCE HerdrPlacement

sidebarVars == <<preference, inForce, holder, call, unanswered, apart>>
paneVars == <<pane, job, closing, changes>>
vars == <<managerVars, flow, outside, sidebarVars, paneVars>>

Init ==
  /\ groups = <<Group(1, 1, <<Member(2, FALSE, "custom")>>)>>
  /\ running = Sessions
  /\ screens = Closed /\ outside = 0
  /\ flow = [at |-> "picker", action |-> NoAction, cleared |-> FALSE, done |-> 0]
  /\ ViewInit /\ PlacementInit

GoesTo(at) == flow' = [flow EXCEPT !.at = at]
ShowsAgain == flow' = [flow EXCEPT !.at = "opening", !.action = NoAction, !.cleared = FALSE]
ToPicker == flow' = [flow EXCEPT !.at = "picker", !.action = NoAction]

\* Bounds: only the first MaxReviews openings of the manager go through the
\* topology screens, and a behaviour uses the view or the panes, which share
\* nothing.
Explored ==
  flow.done < MaxReviews
    \/ screens'.screen \notin {"CreateOrchestrator", "EditWorkers", "ChangeOrchestrator"}
ViewUnused == call[Manager] = Resting
PanesUnused == job = NoJob

-----------------------------------------------------------------------------
\* The picker ends with a workload to put into a pane, or with the manager.
PicksWorkload ==
  /\ flow.at = "picker" /\ flow.done < MaxActions /\ ViewUnused
  /\ \E placement \in Placements : Place(placement)
  /\ flow' = [flow EXCEPT !.at = "placing", !.done = @ + 1]
  /\ UNCHANGED <<managerVars, outside, sidebarVars>>

PicksManager ==
  /\ flow.at = "picker" /\ flow.done < MaxActions
  /\ ShowsAgain
  /\ UNCHANGED <<managerVars, outside, sidebarVars, paneVars>>

OpensManager ==
  /\ flow.at = "opening" /\ flow.done < MaxActions
  /\ GoesTo("manager")
  /\ \E connected \in BOOLEAN : screens' = Opened(connected)
  /\ UNCHANGED <<groups, running, outside, sidebarVars, paneVars>>

Takes(kinds, at) ==
  /\ screens.action.kind \in kinds
  /\ screens' = Closed
  /\ flow' = [flow EXCEPT !.at = at, !.action = screens.action, !.done = @ + 1]

TakesBack ==
  /\ screens.action.kind = "back" /\ screens' = Closed /\ ToPicker
  /\ UNCHANGED <<groups, running, outside, sidebarVars, paneVars>>

TakesChange ==
  /\ Takes({"create", "replace", "reassign"}, "storing")
  /\ UNCHANGED <<groups, running, outside, sidebarVars, paneVars>>

TakesView ==
  /\ PanesUnused /\ Takes({"view"}, "viewing")
  /\ BeginView(Manager, "set", [group |-> screens.action.group.id, filter |-> screens.action.filter],
               Ids(screens.groups))
  /\ UNCHANGED <<groups, running, outside, paneVars>>

TakesClear ==
  /\ PanesUnused /\ Takes({"clear"}, "viewing") /\ BeginView(Manager, "clear", None, {})
  /\ UNCHANGED <<groups, running, outside, paneVars>>

\* The view is cleared first, when it shows the group.
TakesDelete ==
  /\ PanesUnused /\ Takes({"delete"}, "clearing")
  /\ BeginView(Manager, "forget", [group |-> screens.action.group.id, filter |-> "All"], {})
  /\ UNCHANGED <<groups, running, outside, paneVars>>

\* Mission Control never takes the place of the pane it is launched from.
TakesLaunch ==
  /\ ViewUnused
  /\ Takes({"launch"}, "launching")
  /\ UNCHANGED <<groups, running, outside, sidebarVars, paneVars>>

\* Mission Control is launched for the group of that name.
Matches(id) == {i \in DOMAIN groups : groups[i].id = id}

\* The group as it was shown is still in the store.
Unchanged(expected) == {i \in DOMAIN groups : groups[i] = expected}

\* The store takes the change, unless the group is not as it was shown or the
\* update fails.
Stores ==
  /\ flow.at = "storing" /\ ShowsAgain
  /\ \/ /\ flow.action.kind = "create" /\ flow.action.group.id \notin Ids(groups)
        /\ {flow.action.orchestrator} \cup
             {flow.action.workers[i].session : i \in DOMAIN flow.action.workers} \subseteq running
        /\ groups' = Append(groups, Group(flow.action.group.id, flow.action.orchestrator,
                                          flow.action.workers))
     \/ /\ flow.action.kind = "replace"
        /\ \E i \in Unchanged(flow.action.group) :
             groups' = [groups EXCEPT ![i].workers = flow.action.workers]
     \/ /\ flow.action.kind = "reassign" /\ flow.action.orchestrator \in running
        /\ \E i \in Unchanged(flow.action.group) :
             groups' = [groups EXCEPT ![i] =
               Group(@.id, flow.action.orchestrator,
                     SelectSeq(@.workers, LAMBDA m : m.session # flow.action.orchestrator))]
     \/ UNCHANGED groups
  /\ UNCHANGED <<running, screens, outside, sidebarVars, paneVars>>

ViewReturned == call[Manager].step = "out"

ViewEnds ==
  /\ flow.at = "viewing" /\ ViewReturned /\ ShowsAgain
  /\ UNCHANGED <<managerVars, outside, sidebarVars, paneVars>>

\* A view that could not be cleared keeps its group.
ClearEnds ==
  /\ flow.at = "clearing" /\ ViewReturned
  /\ IF call[Manager].result = "refused" THEN ShowsAgain
     ELSE flow' = [flow EXCEPT !.at = "deleting", !.cleared = call[Manager].result = "applied"]
  /\ UNCHANGED <<managerVars, outside, sidebarVars, paneVars>>

Deletes ==
  /\ flow.at = "deleting"
  /\ \E i \in Unchanged(flow.action.group) : groups' = RemoveAt(groups, i)
  /\ ShowsAgain
  /\ UNCHANGED <<running, screens, outside, sidebarVars, paneVars>>

\* A refused delete shows the group in the sidebar again, unfiltered.
DeleteRefused ==
  /\ flow.at = "deleting"
  /\ IF flow.cleared
     THEN /\ GoesTo("viewing")
          /\ BeginView(Manager, "set", [group |-> flow.action.group.id, filter |-> "All"],
                       {flow.action.group.id})
     ELSE ShowsAgain /\ UNCHANGED sidebarVars
  /\ UNCHANGED <<managerVars, outside, paneVars>>

Launches ==
  /\ flow.at = "launching"
  /\ \/ /\ Matches(flow.action.group.id) # {} /\ GoesTo("placing")
        /\ \E placement \in Placements \ {"replace-current-pane"} : Place(placement)
     \/ ShowsAgain /\ UNCHANGED paneVars
  /\ UNCHANGED <<managerVars, outside, sidebarVars>>

PlacementEnds ==
  /\ flow.at = "placing" /\ job.at = "none"
  /\ IF job.result # "failed" THEN GoesTo("done")
     ELSE IF flow.action.kind = "launch" THEN ShowsAgain ELSE ToPicker
  /\ UNCHANGED <<managerVars, outside, sidebarVars, paneVars>>

\* The process vanishes; what it asked for stays asked.
ManagerDies ==
  /\ flow.at \in {"viewing", "clearing"} /\ DiesInView(Manager)
  /\ GoesTo("dead")
  /\ UNCHANGED <<managerVars, outside, paneVars>>

-----------------------------------------------------------------------------
\* Keys are read off a snapshot, the view and the panes share nothing with the
\* store: what others do meanwhile is left to the steps that may tell.
StoreMatters == flow.at \in {"opening", "storing", "deleting", "launching"}
ViewMatters == flow.at \in {"opening", "viewing", "clearing", "deleting", "dead"}

\* Another process edits or deletes a group, or a workload ends.
OthersChangeStore ==
  /\ StoreMatters /\ outside < MaxOutside /\ outside' = outside + 1
  /\ \/ \E i \in DOMAIN groups :
          \/ groups' = RemoveAt(groups, i) /\ UNCHANGED running
          \/ /\ groups[i].workers # <<>> /\ groups[i].workers[1].prompt = FALSE
             /\ groups' = [groups EXCEPT ![i].workers[1].prompt = TRUE] /\ UNCHANGED running
     \/ \E s \in running : running' = running \ {s} /\ UNCHANGED groups
  /\ UNCHANGED <<screens, flow, sidebarVars, paneVars>>

\* Herdr starts Tether to put the saved view in force, if there is one.
HerdrRestores ==
  /\ ViewMatters /\ preference # None
  /\ \E p \in Procs \ {Manager} : BeginView(p, "restore", None, Ids(groups))
  /\ UNCHANGED <<managerVars, flow, outside, paneVars>>

Presses == Key /\ Explored /\ UNCHANGED <<flow, outside, sidebarVars, paneVars>>

ViewGoesOn(p) == ViewMatters /\ ViewStep(p) /\ UNCHANGED <<managerVars, flow, outside, paneVars>>
PlacementGoesOn == PlaceStep /\ UNCHANGED <<managerVars, flow, outside, sidebarVars>>

ViewFaults ==
  /\ ViewMatters
  /\ HandlesLate \/ HerdrRestarts \/ \E p \in Procs \ {Manager} : DiesInView(p)
  /\ UNCHANGED <<managerVars, flow, outside, paneVars>>

PaneFaults ==
  /\ job.at # "none"
  /\ CommandStarts \/ LateClose \/ PaneChanges
  /\ UNCHANGED <<managerVars, flow, outside, sidebarVars>>

LoopStep ==
  \/ OpensManager \/ TakesBack \/ TakesChange \/ TakesView \/ TakesClear \/ TakesDelete
  \/ TakesLaunch \/ Stores \/ ViewEnds \/ ClearEnds \/ Deletes \/ DeleteRefused \/ Launches
  \/ PlacementEnds

Next ==
  \/ PicksWorkload \/ PicksManager \/ Presses \/ LoopStep \/ ManagerDies
  \/ (\E p \in Procs : ViewGoesOn(p)) \/ PlacementGoesOn
  \/ OthersChangeStore \/ HerdrRestores \/ ViewFaults \/ PaneFaults

Spec == Init /\ [][Next]_vars

\* The loop runs on while it waits for nothing; requests to Herdr have timeouts
\* (a child process is killed at its own), so whoever waits for the file's lock
\* gets it.
Fairness ==
  /\ WF_vars(LoopStep) /\ WF_vars(PlacementGoesOn)
  /\ \A p \in Procs : WF_vars(ViewGoesOn(p))

LiveSpec == Spec /\ Fairness

-----------------------------------------------------------------------------
\* Whatever Herdr answers, and however often, an action concludes: its screens,
\* or the end of the process, are reached again (request timeouts,
\* VERIFY_ATTEMPTS), unless Herdr starts over and over.
ActionsConclude ==
  <>[][~HerdrRestores]_vars =>
    (flow.at \in {"storing", "viewing", "clearing", "deleting", "launching", "placing"}
       ~> flow.at \in {"picker", "opening", "done", "dead"})
=============================================================================
