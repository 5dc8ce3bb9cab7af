----------------------------- MODULE MCBackground -----------------------------
(***************************************************************************)
(* Four mechanisms that work beside the screens and share no state, each   *)
(* small enough that one run takes them all: a behaviour is one of theirs, *)
(* and the others stay as they begin.                                      *)
(***************************************************************************)
EXTENDS RestartPace, StatusService, BoundedProcess, HerdrEvents

CONSTANTS box, spare, w1, w2

Item(h, w) == [host |-> h, workload |-> w]

\* Requests to the status service: a host twice, with a workload twice, and one
\* without workloads; two hosts; one host with two workloads.
Requests ==
  {<<Item(box, w1), Item(box, w1), Item(spare, "none"), Item(box, w1)>>,
   <<Item(box, w1), Item(spare, w2)>>,
   <<Item(spare, w2), Item(spare, w1)>>}

\* Counting agrees with the recursion of the library.
ASSUME OrderedAssumption ==
  /\ \A S \in SUBSET (1..5) : InOrder(S) = SetToSortSeq(S, <)
  /\ \A n \in 0..4 : \A seq \in [1..n -> {1, 2, 3}] :
       AtPositions(seq, {i \in 1..n : seq[i] # 2}) = SelectSeq(seq, LAMBDA v : v # 2)

VARIABLE part

backgroundVars == <<part, paceVars, statusVars, processVars, eventVars>>

BackgroundInit ==
  /\ part \in {"pace", "status", "process", "events"}
  /\ PaceInit /\ EventInit
  /\ StatusInit
  /\ part # "status" => asked = [list |-> <<Item(spare, w2), Item(spare, w1)>>, resources |-> FALSE]
  /\ ProcessInit
  /\ part # "process" => ~stopping

Within(p) == part = p /\ UNCHANGED part
Pacing(A) ==
  Within("pace") /\ A /\ UNCHANGED <<statusVars, processVars, eventVars>>
Running(A) ==
  Within("process") /\ A /\ UNCHANGED <<paceVars, statusVars, eventVars>>

BackgroundNext ==
  \/ Pacing(PaceNext)
  \/ Running(ProcessNext)
  \/ /\ Within("status") /\ StatusNext
     /\ UNCHANGED <<paceVars, processVars, eventVars>>
  \/ /\ Within("events") /\ EventNext
     /\ UNCHANGED <<paceVars, statusVars, processVars>>

\* Time passes (PaceLiveSpec), and the caller of a command runs on
\* (ProcessFairness).
BackgroundFairness ==
  /\ WF_backgroundVars(Pacing(Tick))
  /\ WF_backgroundVars(Running(CallerStep)) /\ WF_backgroundVars(Running(DeadlineIsDue))

BackgroundSpec == BackgroundInit /\ [][BackgroundNext]_backgroundVars /\ BackgroundFairness

\* CallConcludes, in the behaviours in which a command is run: every call
\* concludes, however many signals arrive and whatever the command does
\* (Budget::Until, retry_interrupted).
CallsConclude == part = "process" => CallConcludes
=============================================================================
