------------------------------ MODULE AgentView ------------------------------
(***************************************************************************)
(* Which group the Agents sidebar shows (src/agent_view.rs): a preference  *)
(* file and the view that Herdr has in force for this plugin.  A change    *)
(* saves the preference, asks Herdr, and puts the old preference back when *)
(* Herdr does not confirm, all under the advisory lock of the file.  Herdr *)
(* may refuse, stay silent and act later, or restart and forget the view;  *)
(* the process may die between any two of its steps.  A failed save may    *)
(* have put the new preference in place all the same: when the directory   *)
(* cannot be synced after the rename, the caller only sees an error.       *)
(***************************************************************************)
EXTENDS Naturals, FiniteSets

CONSTANTS
  GroupIds,    \* names of groups
  Filters,     \* AgentViewFilter
  Procs,       \* processes that use the service
  None         \* no preference, no view, nobody

VARIABLES
  preference,  \* the file: what to show, or None
  inForce,     \* Herdr: what it shows, or None
  holder,      \* who holds the file's lock, or None
  call,        \* per process: the call it is in
  unanswered,  \* requests that timed out and that Herdr may still handle
  apart        \* history: what may have set file and Herdr apart since the last
               \* confirmed change

\* A save or a rollback that failed and left the new preference in place, a
\* preference dropped because its group is gone, a start of Herdr; an outcome
\* nobody knows (a silence, a death after the save), or more than one of these.
ComesApart(cause) == apart' = IF apart \in {"nothing", cause} THEN cause ELSE "unknown"

Views == [group : GroupIds, filter : Filters]

\* `known` are the groups in the state the caller loaded before the call.
Resting ==
  [op |-> "none", step |-> "out", known |-> {}, want |-> None, found |-> None,
   result |-> "none"]

Went(p, step) == call' = [call EXCEPT ![p].step = step]

Returned(p, result) ==
  /\ call' = [call EXCEPT ![p] = [Resting EXCEPT !.op = call[p].op, !.result = result]]
  /\ holder' = None

ViewInit ==
  /\ preference = None /\ inForce = None /\ holder = None
  /\ call = [p \in Procs |-> Resting] /\ unanswered = {} /\ apart = "nothing"

-----------------------------------------------------------------------------
\* A call of set_group_filter ("set"), clear, clear_group_if_active
\* ("forget") or restore.  A group the caller does not know is refused at once.
BeginView(p, op, want, known) ==
  /\ call[p].step = "out"
  /\ call' = [call EXCEPT ![p] =
       [Resting EXCEPT !.op = op, !.known = known, !.want = want,
          !.step = IF op = "set" /\ want.group \notin known THEN "out" ELSE "locking",
          !.result = IF op = "set" /\ want.group \notin known THEN "refused" ELSE "none"]]
  /\ UNCHANGED <<preference, inForce, holder, unanswered, apart>>

IsShown(group) == IF preference = None THEN FALSE ELSE preference.group = group

\* Under the lock the preference is read, which may fail; an active group that
\* is another one, or no preference to restore, leaves nothing to do.
EnterView(p) ==
  /\ call[p].step = "locking" /\ holder = None
  /\ \/ Returned(p, "refused")
     \/ /\ \/ call[p].op = "forget" /\ ~IsShown(call[p].want.group)
           \/ call[p].op = "restore" /\ preference = None
        /\ Returned(p, "untouched")
     \/ /\ call[p].op = "restore" /\ preference # None
        /\ holder' = p
        /\ call' = [call EXCEPT ![p].step =
                      IF preference.group \in call[p].known THEN "asking" ELSE "dropping",
                    ![p].want = preference, ![p].found = preference]
     \/ /\ \/ call[p].op \in {"set", "clear"}
           \/ call[p].op = "forget" /\ IsShown(call[p].want.group)
        /\ holder' = p
        /\ call' = [call EXCEPT ![p].step = "saving", ![p].found = preference,
                                ![p].want = IF call[p].op = "set" THEN @ ELSE None]
  /\ UNCHANGED <<preference, inForce, unanswered, apart>>

\* restore drops the preference of a group that is gone, and does not ask: a
\* view in force stays.  A failed save may have dropped it as well.
DropView(p) ==
  /\ call[p].step = "dropping"
  /\ \/ /\ preference' = None
        /\ IF inForce = None THEN UNCHANGED apart ELSE ComesApart("groupgone")
        /\ \E result \in {"applied", "refused"} : Returned(p, result)
     \/ UNCHANGED <<preference, apart>> /\ Returned(p, "refused")
  /\ UNCHANGED <<inForce, unanswered>>

\* A save that fails ends the call, also when the file is already in place:
\* Herdr is not asked, and nothing is put back.
SaveView(p) ==
  /\ call[p].step = "saving"
  /\ \/ preference' = call[p].want /\ Went(p, "asking") /\ UNCHANGED <<holder, apart>>
     \/ preference' = call[p].want /\ Returned(p, "refused") /\ ComesApart("save")
     \/ UNCHANGED <<preference, apart>> /\ Returned(p, "refused")
  /\ UNCHANGED <<inForce, unanswered>>

\* Mutant: what Herdr refused is kept, to be restored at its next start.
KeptOnRefusal(p) == Returned(p, "refused")

\* Without a confirmation the preference that was found is put back; restore
\* changed none.
Unconfirmed(p) ==
  IF call[p].op = "restore" THEN Returned(p, "refused")
  ELSE Went(p, "undoing") /\ UNCHANGED holder

\* Herdr confirms, refuses (or there is no Herdr), or does not answer within
\* the timeout, when it may have acted, may act later, or never will.
AskHerdr(p) ==
  /\ call[p].step = "asking"
  /\ \/ /\ inForce' = call[p].want /\ Returned(p, "applied")
        /\ apart' = (IF unanswered = {} THEN "nothing" ELSE "unknown") /\ UNCHANGED unanswered
     \/ Unconfirmed(p) /\ UNCHANGED <<inForce, unanswered, apart>>
     \/ /\ Unconfirmed(p) /\ ComesApart("unknown")
        /\ \/ inForce' = call[p].want /\ UNCHANGED unanswered
           \/ unanswered' = unanswered \cup {call[p].want} /\ UNCHANGED inForce
  /\ UNCHANGED preference

\* The rollback, whose own save may fail before the file is in place.
UndoView(p) ==
  /\ call[p].step = "undoing" /\ Returned(p, "refused")
  /\ \/ preference' = call[p].found /\ UNCHANGED apart
     \/ UNCHANGED preference /\ ComesApart("save")
  /\ UNCHANGED <<inForce, unanswered>>

ViewStep(p) == EnterView(p) \/ DropView(p) \/ SaveView(p) \/ AskHerdr(p) \/ UndoView(p)

\* A death leaves the file as it is and gives the lock back; a request that was
\* already sent may still be handled.
DiesInView(p) ==
  /\ call[p].step # "out"
  /\ call' = [call EXCEPT ![p] = Resting]
  /\ holder' = IF holder = p THEN None ELSE holder
  /\ \/ UNCHANGED unanswered
     \/ call[p].step = "asking" /\ unanswered' = unanswered \cup {call[p].want}
  /\ IF \/ unanswered' # unanswered
        \/ call[p].step \in {"asking", "undoing"} /\ call[p].op # "restore"
     THEN ComesApart("unknown") ELSE UNCHANGED apart
  /\ UNCHANGED <<preference, inForce>>

HandlesLate ==
  /\ \E view \in unanswered : inForce' = view /\ unanswered' = unanswered \ {view}
  /\ UNCHANGED <<preference, holder, call, apart>>

HerdrRestarts ==
  /\ inForce # None \/ unanswered # {}
  /\ inForce' = None /\ unanswered' = {} /\ ComesApart("restart")
  /\ UNCHANGED <<preference, holder, call>>

-----------------------------------------------------------------------------
\* What the file and Herdr have in common after what came since the last
\* confirmed change.
Agrees(file) ==
  /\ apart = "nothing" => file = inForce
  /\ apart = "groupgone" => file = None
  /\ apart = "restart" => inForce = None

\* Between calls, the preference is the view in force, however many changes
\* were refused, unless since the last confirmed one: Herdr did not answer or a
\* call died once the preference was saved; a rollback failed; a save failed
\* with the new preference in place, which nobody then undoes; restore dropped
\* a group that is gone and left Herdr its view; or Herdr started again.  After
\* only a drop, nothing is to be restored; after only a restart, nothing is in
\* force until Tether restores it.
PreferenceIsInForce == holder = None => Agrees(preference)
=============================================================================
