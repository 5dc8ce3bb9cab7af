---------------------------- MODULE HerdrPlacement ----------------------------
(***************************************************************************)
(* Putting a command into a Herdr pane (src/herdr.rs, HerdrClient): a new  *)
(* split or tab, or in the place of the pane Tether was called from, which *)
(* is closed last and only when the destination was seen to run the        *)
(* command.  Every request is a child process of its own that may be       *)
(* refused, or time out and take effect all the same, then or later; the   *)
(* people at the panes go on meanwhile.                                    *)
(***************************************************************************)
EXTENDS Naturals, FiniteSets

CONSTANTS
  Panes,           \* panes there may be; one is where Tether was called
  Source,
  Others,          \* programs of other people
  None,            \* no pane
  VerifyAttempts,  \* VERIFY_ATTEMPTS
  MaxChanges       \* bound: changes at the panes that are not Tether's

VARIABLES
  pane,      \* per pane: None, "shell" (nothing in the foreground), "starting" (a command
             \* was handed to the shell), "attach" (it runs), or another program
  job,       \* the placement under way
  closing,   \* close requests that timed out and may still be handled
  changes    \* how often the panes changed by themselves

Placements == {"split-right", "split-down", "new-tab", "replace-current-pane"}

\* `identity` is the occupant captured before a replacement.
NoJob ==
  [at |-> "none", placement |-> "split-right", identity |-> None, dest |-> None,
   tries |-> 0, closes |-> FALSE, result |-> "none"]

Replacing == job.placement = "replace-current-pane"
Goes(at) == job' = [job EXCEPT !.at = at]
Ends(result) == job' = [job EXCEPT !.at = "none", !.result = result]

PlacementInit ==
  /\ pane \in [Panes -> {None, "shell"} \cup Others]
  /\ \A p \in Panes : pane[p] = None <=> p # Source
  /\ job = NoJob /\ closing = {} /\ changes = 0

-----------------------------------------------------------------------------
Place(placement) ==
  /\ job.at = "none" /\ pane[Source] # None
  /\ job' = [NoJob EXCEPT !.placement = placement,
               !.at = IF placement = "replace-current-pane" THEN "confirming" ELSE "splitting"]
  /\ UNCHANGED <<pane, closing, changes>>

\* confirm_replacement: what runs in the source is shown, and a person agrees
\* to end it; an idle shell needs no asking.
Confirm ==
  /\ job.at = "confirming"
  /\ \/ pane[Source] # None /\ Goes("capturing")
     \/ pane[Source] # "shell" /\ Ends("failed")
     \/ Ends("failed")
  /\ UNCHANGED <<pane, closing, changes>>

\* The exact occupant is captured by another request.
CaptureSource ==
  /\ job.at = "capturing"
  /\ \/ pane[Source] # None
        /\ job' = [job EXCEPT !.at = "splitting", !.identity = pane[Source]]
     \/ Ends("failed")
  /\ UNCHANGED <<pane, closing, changes>>

\* A split whose answer is lost leaves a pane that nobody can name.
Split ==
  /\ job.at = "splitting"
  /\ \E p \in {q \in Panes : pane[q] = None} :
       /\ pane[Source] # None \/ job.placement = "new-tab"
       /\ pane' = [pane EXCEPT ![p] = "shell"]
       /\ \/ job' = [job EXCEPT !.at = "running", !.dest = p]
          \/ Ends("failed")
  /\ UNCHANGED <<closing, changes>>

SplitFails == job.at = "splitting" /\ Ends("failed") /\ UNCHANGED <<pane, closing, changes>>

\* The command is handed to the shell of the destination, or the request
\* fails, whether or not it took effect.  The label before it never matters.
Run ==
  /\ job.at = "running"
  /\ \/ /\ pane[job.dest] # None
        /\ pane' = [pane EXCEPT ![job.dest] = "starting"]
        /\ \/ IF Replacing THEN Goes("verifying") ELSE Ends("placed")
           \/ Goes("removing")
     \/ UNCHANGED pane /\ Goes("removing")
  /\ UNCHANGED <<closing, changes>>

\* Mutant: the last attempt counts as a success.
VerifyGivesUpKindly ==
  /\ job.at = "verifying"
  /\ IF pane[job.dest] = "attach" \/ job.tries + 1 = VerifyAttempts
     THEN Goes("rechecking")
     ELSE job' = [job EXCEPT !.tries = @ + 1]
  /\ UNCHANGED <<pane, closing, changes>>

\* Mutant: failed inspections are not counted.
VerifyForever ==
  /\ job.at = "verifying"
  /\ \/ pane[job.dest] = "attach" /\ Goes("rechecking")
     \/ UNCHANGED job
  /\ UNCHANGED <<pane, closing, changes>>

\* The destination is asked for its process until it is the expected one, or
\* the attempts are used up; an inspection may fail.
Verify ==
  /\ job.at = "verifying"
  /\ \/ pane[job.dest] = "attach" /\ Goes("rechecking")
     \/ IF job.tries + 1 < VerifyAttempts
        THEN job' = [job EXCEPT !.tries = @ + 1]
        ELSE Goes("removing")
  /\ UNCHANGED <<pane, closing, changes>>

\* What a request to close p may come to: it closes it, it is refused, or
\* nobody knows, now or later.
Closes(p, closed, notClosed) ==
  \/ pane' = [pane EXCEPT ![p] = None] /\ closed /\ UNCHANGED closing
  \/ UNCHANGED <<pane, closing>> /\ notClosed
  \/ pane' = [pane EXCEPT ![p] = None] /\ notClosed /\ UNCHANGED closing
  \/ UNCHANGED pane /\ closing' = closing \cup {p} /\ notClosed

\* A destination that failed is removed, or named as one that was not.
RemoveDestination ==
  /\ job.at = "removing"
  /\ Closes(job.dest, Ends("failed"), Ends("failed"))
  /\ UNCHANGED changes

\* The source is closed only while its occupant is the captured one; else,
\* or when the inspection fails, it is kept and the person is warned.
Recheck ==
  /\ job.at = "rechecking"
  /\ \/ pane[Source] = job.identity /\ Goes("closing")
     \/ Ends("warned")
  /\ UNCHANGED <<pane, closing, changes>>

CloseSource ==
  /\ job.at = "closing"
  /\ Closes(Source, job' = [job EXCEPT !.at = "none", !.result = "placed", !.closes = TRUE],
            job' = [job EXCEPT !.at = "none", !.result = "warned", !.closes = TRUE])
  /\ UNCHANGED changes

PlaceStep ==
  Confirm \/ CaptureSource \/ Split \/ SplitFails \/ Run \/ Verify \/ RemoveDestination \/ Recheck \/ CloseSource

\* A command handed to a shell comes to run, or fails there.
CommandStarts ==
  /\ \E p \in {q \in Panes : pane[q] = "starting"}, to \in {"attach", "shell"} :
       pane' = [pane EXCEPT ![p] = to]
  /\ UNCHANGED <<job, closing, changes>>

LateClose ==
  /\ \E p \in closing : pane' = [pane EXCEPT ![p] = None] /\ closing' = closing \ {p}
  /\ UNCHANGED <<job, changes>>

\* A person starts or ends a program in a pane, or closes the pane.
PaneChanges ==
  /\ changes < MaxChanges /\ changes' = changes + 1
  /\ \E p \in {q \in Panes : pane[q] # None}, to \in {None, "shell"} \cup Others :
       pane' = [pane EXCEPT ![p] = to]
  /\ UNCHANGED <<job, closing>>

-----------------------------------------------------------------------------
\* A replacement that closed its source leaves the command running in its
\* destination, unless somebody else changed the panes meanwhile.
SourceClosesLast ==
  job.closes /\ changes = 0 => pane[job.dest] = "attach"
=============================================================================
