---------------------------- MODULE BoundedProcess ----------------------------
(***************************************************************************)
(* How every command is run (run_bounded of src/status.rs): the caller     *)
(* spawns it in a process group of its own, empties its output and polls   *)
(* it until it exits, the deadline passes, or the caller is cancelled.     *)
(* The command writes, forks and exits, and signals interrupt the caller's *)
(* calls (src/interrupt.rs), between any two steps.                        *)
(*                                                                         *)
(* Output is one stream counted in chunks; the two streams are treated     *)
(* alike.  Descendants that leave the group are not modelled.              *)
(***************************************************************************)
EXTENDS Naturals

CONSTANTS
  PipeCapacity,   \* chunks the kernel holds
  MaxDrain,       \* MAX_DRAIN_BYTES_PER_TICK
  MaxCapture,     \* chunks the caller keeps
  MaxOutput       \* bound: chunks the command writes

ASSUME ProcessAssumption ==
  /\ PipeCapacity \in Nat \ {0} /\ MaxDrain \in Nat /\ PipeCapacity <= MaxDrain
  /\ MaxCapture \in Nat /\ MaxOutput \in Nat

VARIABLES
  child,     \* the command: it runs, is a zombie, or is reaped
  members,   \* it left processes of its group behind
  pipe,      \* chunks written and not read
  written,   \* all chunks it wrote
  kept,      \* Capture.bytes
  cut,       \* Capture.truncated
  drained,   \* chunks read in this tick
  caller,    \* where run_bounded is, what it will answer, and, as a history,
             \* whether its last read failed
  due,       \* the deadline passed
  stopping   \* the flag is set

processVars ==
  <<child, members, pipe, written, kept, cut, drained, caller, due, stopping>>

ProcessInit ==
  /\ child = "none" /\ members = FALSE
  /\ pipe = 0 /\ written = 0 /\ kept = 0 /\ cut = FALSE /\ drained = 0
  /\ caller = [at |-> "spawning", answer |-> "none", unread |-> FALSE]
  /\ due = FALSE /\ stopping \in BOOLEAN

CallerOnly == UNCHANGED <<child, members, pipe, written, kept, cut, drained, due, stopping>>

At(step) == caller' = [caller EXCEPT !.at = step]
AnswersWith(step, answer) == caller' = [caller EXCEPT !.at = step, !.answer = answer]

-----------------------------------------------------------------------------
(* The caller *)

Spawns ==
  /\ caller.at = "spawning"
  /\ \/ child' = "running" /\ At("draining")
     \/ child' = "running" /\ AnswersWith("killing", "Error")
     \/ AnswersWith("returned", "SpawnError") /\ UNCHANGED child
  /\ UNCHANGED <<members, pipe, written, kept, cut, drained, due, stopping>>

\* drain_pipe reads until the pipe is empty, or closed, or enough was read for
\* one tick; a read that is interrupted is made again at once.
Reads ==
  /\ caller.at \in {"draining", "emptying"}
  /\ pipe > 0 /\ drained < MaxDrain
  /\ pipe' = pipe - 1 /\ drained' = drained + 1
  /\ kept' = IF kept < MaxCapture THEN kept + 1 ELSE kept
  /\ cut' = (cut \/ kept >= MaxCapture)
  /\ UNCHANGED <<child, members, written, caller, due, stopping>>

Drained ==
  /\ caller.at \in {"draining", "emptying"}
  /\ pipe = 0 \/ drained >= MaxDrain
  /\ drained' = 0
  /\ IF caller.at = "draining" THEN At("looking") ELSE At("returned")
  /\ UNCHANGED <<child, members, pipe, written, kept, cut, due, stopping>>

\* A failure to read ends the command.  After its end, the failure is dropped
\* (`let _ = drain_pipe(..)`): the answer stands, and nothing is marked as cut.
ReadFails ==
  /\ \/ caller.at = "draining" /\ AnswersWith("killing", "Error")
     \/ /\ caller.at = "emptying"
        /\ caller' = [caller EXCEPT !.at = "returned", !.unread = TRUE]
  /\ CallerOnly

Looks ==
  /\ caller.at = "looking"
  /\ IF stopping THEN AnswersWith("killing", "Cancelled") ELSE At("polling")
  /\ CallerOnly

\* Mutant: an interrupted poll is made again, however late it is.
RetriesForever(late) == FALSE

\* The budget of a poll is the deadline of the command (Budget::Until).
BudgetSpent(late) == late

\* retry_interrupted, after a signal arrived instead of an answer.
Retries ==
  /\ caller.at = "interrupted"
  /\ IF BudgetSpent(due) THEN AnswersWith("killing", "TimedOut") ELSE At("polling")
  /\ CallerOnly

\* try_wait: the child exited, or it runs still, which is once more looked at
\* after a pause unless the deadline has passed.
Polls ==
  /\ caller.at = "polling"
  /\ \/ child = "zombie" /\ child' = "reaped" /\ AnswersWith("killing", "Completed")
     \/ child = "running" /\ due /\ AnswersWith("killing", "TimedOut") /\ UNCHANGED child
     \/ child = "running" /\ ~due /\ At("draining") /\ UNCHANGED child
     \/ At("interrupted") /\ UNCHANGED child
     \/ AnswersWith("killing", "Error") /\ UNCHANGED child
  /\ UNCHANGED <<members, pipe, written, kept, cut, drained, due, stopping>>

\* terminate_child, or kill_process_group for one that is reaped.
KillsGroup == child' = "reaped" /\ members' = FALSE

\* Mutant: what came since the last tick is left in the pipe.
ReturnsAtOnce(answer) == "returned"

\* What follows the end of the group: the pipe is emptied, unless there was an
\* error.
AfterKill(answer) == IF answer = "Error" THEN "returned" ELSE "emptying"

Kills ==
  /\ caller.at = "killing" /\ KillsGroup
  /\ At(AfterKill(caller.answer))
  /\ UNCHANGED <<pipe, written, kept, cut, drained, due, stopping>>

CallerStep ==
  Spawns \/ Reads \/ Drained \/ ReadFails \/ Looks \/ Polls \/ Retries \/ Kills

-----------------------------------------------------------------------------
(* The command, the clock and the flag *)

\* The command, or what it forked, writes while there is room.
Writes ==
  /\ child = "running" \/ members
  /\ pipe < PipeCapacity /\ written < MaxOutput
  /\ pipe' = pipe + 1 /\ written' = written + 1
  /\ UNCHANGED <<child, members, kept, cut, drained, caller, due, stopping>>

Forks ==
  /\ child = "running" /\ members' = TRUE
  /\ UNCHANGED <<child, pipe, written, kept, cut, drained, caller, due, stopping>>

MembersEnd ==
  /\ members /\ members' = FALSE
  /\ UNCHANGED <<child, pipe, written, kept, cut, drained, caller, due, stopping>>

Exits ==
  /\ child = "running" /\ child' = "zombie"
  /\ UNCHANGED <<members, pipe, written, kept, cut, drained, caller, due, stopping>>

DeadlineIsDue ==
  /\ caller.at \notin {"spawning", "returned"} /\ ~due /\ due' = TRUE
  /\ UNCHANGED <<child, members, pipe, written, kept, cut, drained, caller, stopping>>

FlagIsSet ==
  /\ ~stopping /\ caller.at # "returned" /\ stopping' = TRUE
  /\ UNCHANGED <<child, members, pipe, written, kept, cut, drained, caller, due>>

ProcessNext ==
  CallerStep \/ Writes \/ Forks \/ MembersEnd \/ Exits \/ DeadlineIsDue \/ FlagIsSet

ProcessSpec == ProcessInit /\ [][ProcessNext]_processVars

\* The caller runs on, and time passes; signals may arrive without end.
ProcessFairness == WF_processVars(CallerStep) /\ WF_processVars(DeadlineIsDue)

ProcessLiveSpec == ProcessSpec /\ ProcessFairness

-----------------------------------------------------------------------------
(* Properties *)

\* The output of a completed command is whole unless it is marked as cut, or the
\* last read failed, which nothing marks: then it lacks at most what a pipe holds.
\* The list of a host's sessions is believed on that ground (drain_pipe,
\* classify_result).
OnlyTheLastReadIsLost ==
  caller.at = "returned" /\ caller.answer = "Completed" /\ ~cut =>
    written - kept \in 0..(IF caller.unread THEN PipeCapacity ELSE 0)

\* Every call concludes, however many signals arrive and whatever the command
\* does: a retry never outlasts the deadline (Budget::Until, retry_interrupted).
CallConcludes == <>(caller.at = "returned")
=============================================================================
