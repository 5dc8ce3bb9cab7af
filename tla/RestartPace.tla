----------------------------- MODULE RestartPace -----------------------------
(***************************************************************************)
(* How a record paces the restart of a workload that fails as soon as it   *)
(* starts (src/state.rs), while the workload is restarted, opened, stopped *)
(* and observed over and over (src/lifecycle.rs), the last of these by     *)
(* every refresh of a picker.                                              *)
(*                                                                         *)
(* Time is counted in ticks and instants are kept as ages: how many ticks  *)
(* ago they were, up to the Horizon, past which the code tells no two of   *)
(* them apart.  So behaviours are unbounded although the states are finite.*)
(***************************************************************************)
EXTENDS Naturals, Sequences, FiniteSets, Ordered

CONSTANTS
  FastFailureWindow,        \* FAST_FAILURE_WINDOW
  Pace,                     \* RESTART_PACE
  MaxPace,                  \* MAX_RESTART_PACE
  ImmediateFailureMemory,   \* IMMEDIATE_FAILURE_MEMORY
  MaxImmediateFailures      \* SessionRecord::MAX_IMMEDIATE_FAILURES

ASSUME DurationAssumption ==
  /\ FastFailureWindow \in Nat \ {0} /\ Pace \in Nat \ {0}
  /\ MaxPace \in Nat /\ Pace <= MaxPace
  /\ ImmediateFailureMemory \in Nat /\ MaxPace <= ImmediateFailureMemory
  /\ FastFailureWindow <= MaxPace
  /\ MaxImmediateFailures \in Nat \ {0}

VARIABLES
  record,  \* the workload's SessionRecord
  work,    \* what tmux holds of it
  loop     \* history: ages of the ends first recorded as immediate failures,
           \* one for each incarnation, since an end of another shape

paceVars == <<record, work, loop>>

Horizon == ImmediateFailureMemory + 1
Ages == 0..Horizon

\* A record of State::validate: ranFor is closed_at - last_used_at; it is settled when the record closes.
\* failures is immediate_failures, oldest first.
Record ==
  [status : {"Creating", "Running", "Stopping", "Ended"},
   used : Ages, closed : Ages, ranFor : Ages,
   exit : {"none", "success", "failure"},
   failures : UNION {[1..n -> Ages] : n \in 0..MaxImmediateFailures}]

-----------------------------------------------------------------------------
(* The record's own judgements *)

Remembered(failures) == {i \in DOMAIN failures : failures[i] <= ImmediateFailureMemory}

Recent(failures) == Cardinality(Remembered(failures))

\* A lifetime of zero is missing evidence (ended_immediately).
EndedImmediately(r) ==
  /\ r.status = "Ended" /\ r.exit = "failure"
  /\ r.ranFor > 0 /\ r.ranFor <= FastFailureWindow

ImmediateFailureRun(r) ==
  LET recorded == Recent(r.failures)
  IN  IF EndedImmediately(r) /\ recorded = 0 THEN 1 ELSE recorded

RestartWait(r) ==
  LET repeats == IF ImmediateFailureRun(r) = 0 THEN 0 ELSE ImmediateFailureRun(r) - 1
      wait == Pace * 2 ^ repeats
  IN  IF wait < MaxPace THEN wait ELSE MaxPace

\* paced_restart_until lies ahead.
Paced(r) == EndedImmediately(r) /\ r.closed < RestartWait(r)

\* The ceiling on the history, which drops the oldest entries.
Bounded(failures) ==
  IF Len(failures) > MaxImmediateFailures THEN Tail(failures) ELSE failures

\* note_immediate_failure
Noted(r) ==
  LET retained == AtPositions(r.failures, Remembered(r.failures))
  IN  [r EXCEPT !.failures = Bounded(Append(retained, r.closed))]

\* The judgement every recorded end makes of itself.
Judged(r) == IF EndedImmediately(r) THEN Noted(r) ELSE [r EXCEPT !.failures = <<>>]

\* The end of an incarnation enters the history once.
Remember(before, after) ==
  loop' = IF ~EndedImmediately(after) THEN <<>>
          ELSE IF before.status = "Ended" /\ EndedImmediately(before) THEN loop
          ELSE Bounded(Append(loop, after.closed))

-----------------------------------------------------------------------------
(* The workload *)

WorkEnds(outcome) ==
  /\ work = "running"
  /\ work' = outcome
  /\ UNCHANGED <<record, loop>>

\* Somebody else ends the session.
SessionEnds ==
  /\ work # "none"
  /\ work' = "none"
  /\ UNCHANGED <<record, loop>>

Older(age) == IF age < Horizon THEN age + 1 ELSE age

Tick ==
  /\ record' = [record EXCEPT
       !.used = Older(@), !.closed = Older(@),
       !.failures = [i \in DOMAIN @ |-> Older(@[i])]]
  /\ loop' = [i \in DOMAIN loop |-> Older(loop[i])]
  /\ UNCHANGED work

-----------------------------------------------------------------------------
(* Operations *)

Closed(r, exit) ==
  [r EXCEPT !.status = "Ended", !.closed = 0, !.ranFor = r.used, !.exit = exit]

\* Mutant: whoever observes the end moves it to the present.
ClosedAgain(r, exit) ==
  IF r.status = "Ended" THEN [r EXCEPT !.closed = 0, !.exit = exit] ELSE Closed(r, exit)

\* mark_ended keeps the moment an ended record already closed.
ClosedOnce(r, exit) ==
  IF r.status = "Ended" THEN [r EXCEPT !.exit = exit] ELSE Closed(r, exit)

\* observe_owned finds a dead pane or no session (mark_ended).
ObserveOver ==
  /\ work # "running"
  /\ LET ended == Judged(ClosedOnce(record, work))
     IN  record' = ended /\ Remember(record, ended)
  /\ UNCHANGED work

\* observe_owned finds the workload running.
ObserveRunning ==
  /\ work = "running" /\ record.status = "Creating"
  /\ record' = [record EXCEPT !.status = "Running"]
  /\ UNCHANGED <<work, loop>>

\* open_owned stamps last_used_at.
Open ==
  /\ record.status = "Running" /\ work = "running"
  /\ record' = [record EXCEPT !.used = 0]
  /\ UNCHANGED <<work, loop>>

\* stop_owned, from its declaration to finish_close: it records the exit of a
\* command that was over, and none for one it ended itself.
Stop ==
  /\ record.status \in {"Creating", "Running", "Stopping"}
  /\ LET exit == IF work = "running" THEN "none" ELSE work
         ended == Judged(Closed(record, exit))
     IN  record' = ended /\ Remember(record, ended)
  /\ work' = "none"

\* ensure_stopping, of a Stop that gets no further.
StopDeclares ==
  /\ record.status \in {"Creating", "Running"}
  /\ record' = [record EXCEPT !.status = "Stopping"]
  /\ UNCHANGED <<work, loop>>

\* A restart that is not paced reaps the dead session and reserves.
Reserve ==
  /\ record.status \in {"Ended", "Creating"} /\ ~Paced(record)
  /\ work # "running"
  /\ record' = [record EXCEPT !.status = "Creating", !.exit = "none"]
  /\ work' = "none"
  /\ UNCHANGED loop

CreateSession ==
  /\ record.status = "Creating" /\ work = "none"
  /\ work' = "running"
  /\ UNCHANGED <<record, loop>>

\* Mutant: a confirmed start forgets the failures before it.
PromoteForgets(r) == [r EXCEPT !.status = "Running", !.used = 0, !.failures = <<>>]

\* A confirmed start keeps the history (promote_running).
Promoted(r) == [r EXCEPT !.status = "Running", !.used = 0]

Activate ==
  /\ record.status = "Creating" /\ work # "none"
  /\ record' = Promoted(record)
  /\ UNCHANGED <<work, loop>>

-----------------------------------------------------------------------------

PaceInit ==
  /\ record = [status |-> "Running", used |-> 0, closed |-> 0, ranFor |-> 0,
               exit |-> "none", failures |-> <<>>]
  /\ work = "running"
  /\ loop = <<>>

Operation ==
  \/ ObserveOver \/ ObserveRunning \/ Open \/ Stop \/ StopDeclares
  \/ Reserve \/ CreateSession \/ Activate

PaceNext ==
  \/ Operation
  \/ \E outcome \in {"success", "failure"} : WorkEnds(outcome)
  \/ SessionEnds
  \/ Tick

PaceSpec == PaceInit /\ [][PaceNext]_paceVars

\* Time passes, whatever else happens.
PaceLiveSpec == PaceSpec /\ WF_paceVars(Tick)

-----------------------------------------------------------------------------
(* Properties *)

\* A loop is remembered through every restart and every confirmed start: the
\* run counts at least the incarnations that failed at once within the memory.
LoopIsRemembered == ImmediateFailureRun(record) >= Recent(loop)

\* A pace ends, however often the ended workload is observed meanwhile.
PaceEnds == Paced(record) ~> ~Paced(record)
=============================================================================
