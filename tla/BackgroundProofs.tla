---------------------------- MODULE BackgroundProofs ----------------------------
(***************************************************************************)
(* For any sizes of the pipe and of what is kept, any number of events and *)
(* broken connections, and any pace of restarts: a completed command loses *)
(* no output silently but in a last read that fails, Mission Control never *)
(* rests behind Herdr, and what a workload remembers of its failures is    *)
(* enough to see that it loops.                                            *)
(*                                                                         *)
(* The arguments: what was kept and what is in the pipe is all that was    *)
(* written, until something is cut, and the pipe holds no more than one    *)
(* last tick reads (PipeIsEmptied).  Every way into a subscription, and    *)
(* every way out of one, leaves a signal behind (Owed).  A record's        *)
(* failures, counted from the latest, match those of the loop and are no   *)
(* older (Covers), and both are in the order of time.                      *)
(***************************************************************************)
EXTENDS BoundedProcess, HerdrEvents, RestartPace, FiniteSetTheorems, SequenceTheorems, TLAPS

(* Running a command *)

Answered == {"none", "Error", "SpawnError", "Cancelled", "TimedOut", "Completed"}

CallerSteps == {"spawning", "draining", "looking", "polling", "interrupted", "killing",
                "emptying", "returned"}

Callers == [at : CallerSteps, answer : Answered, unread : BOOLEAN]

ProcessTypes ==
  /\ caller \in Callers
  /\ child \in {"none", "running", "zombie", "reaped"} /\ members \in BOOLEAN
  /\ pipe \in 0..PipeCapacity /\ written \in Nat /\ kept \in Nat /\ drained \in Nat
  /\ cut \in BOOLEAN /\ due \in BOOLEAN /\ stopping \in BOOLEAN

\* Nothing is lost but what is cut.
PipeIsCounted == ~cut => kept + pipe = written

\* Nobody writes any more.
Silent == child = "reaped" /\ members = FALSE

\* The last tick begins with nothing read, in a group that ended, and reads all
\* that the pipe can hold.
PipeIsEmptied ==
  /\ caller.at \in {"spawning", "looking", "polling", "interrupted"} => drained = 0
  /\ caller.at \in {"spawning", "draining", "looking", "polling", "interrupted"}
       => caller.answer = "none"
  /\ caller.at = "killing" /\ caller.answer # "Error" => drained = 0
  /\ caller.at = "emptying" => Silent /\ pipe + drained <= MaxDrain
  /\ caller.at = "returned" /\ caller.answer = "Completed" =>
       Silent /\ (pipe = 0 \/ caller.unread)

ProcessInv == ProcessTypes /\ PipeIsCounted /\ PipeIsEmptied

LEMMA ProcessStarts == ProcessInit => ProcessInv
<1> SUFFICES ASSUME ProcessInit PROVE ProcessInv
  OBVIOUS
<1>1. caller \in Callers
  BY DEF ProcessInit, Answered, CallerSteps, Callers
<1>2. pipe \in 0..PipeCapacity
  BY ProcessAssumption DEF ProcessInit
<1>3. ProcessTypes
  BY <1>1, <1>2 DEF ProcessInit, ProcessTypes
<1>4. PipeIsCounted /\ PipeIsEmptied
  BY DEF ProcessInit, PipeIsCounted, PipeIsEmptied
<1> QED
  BY <1>3, <1>4 DEF ProcessInv

\* A step of the caller alone, or of its child.
LEMMA CallerMoves ==
  ASSUME NEW step \in CallerSteps, caller \in Callers, At(step)
  PROVE  caller' \in Callers /\ caller'.at = step /\ caller'.answer = caller.answer
BY DEF At, Callers

LEMMA CallerStepKeeps ==
  ASSUME ProcessInv, CallerStep
  PROVE  ProcessInv'
<1> USE ProcessAssumption, CallerMoves
    DEF ProcessInv, ProcessTypes, PipeIsCounted, PipeIsEmptied, Silent, Answered,
        CallerSteps, Callers, AnswersWith, CallerOnly
<1>1. CASE Spawns
  BY <1>1 DEF Spawns
<1>2. CASE Reads
  <2>1. CASE kept < MaxCapture
    BY <1>2, <2>1 DEF Reads
  <2>2. CASE ~(kept < MaxCapture)
    <3>1. kept >= MaxCapture /\ kept' = kept
      BY <1>2, <2>2 DEF Reads
    <3>2. cut' = TRUE
      BY <1>2, <3>1, Zenon DEF Reads
    <3> QED
      BY <1>2, <3>1, <3>2 DEF Reads
  <2> QED
    BY <2>1, <2>2
<1>3. CASE Drained
  <2>1. CASE caller.at = "draining"
    BY <1>3, <2>1 DEF Drained
  <2>2. CASE caller.at = "emptying"
    <3>1. pipe = 0
      BY <1>3, <2>2 DEF Drained
    <3> QED
      BY <1>3, <2>2, <3>1 DEF Drained
  <2> QED
    BY <1>3, <2>1, <2>2 DEF Drained
<1>4. CASE ReadFails
  BY <1>4 DEF ReadFails
<1>5. CASE Looks
  BY <1>5 DEF Looks
<1>6. CASE Polls
  BY <1>6 DEF Polls
<1>7. CASE Retries
  BY <1>7 DEF Retries, BudgetSpent
<1>8. CASE Kills
  <2>1. PICK step \in {"returned", "emptying"} :
          At(step) /\ (step = "returned" <=> caller.answer = "Error")
    BY <1>8 DEF Kills, AfterKill
  <2>2. /\ caller'.at = step /\ caller'.answer = caller.answer
        /\ caller' \in Callers
    BY <2>1
  <2> QED
    <3>1. /\ child' = "reaped" /\ members' = FALSE /\ caller.at = "killing"
          /\ UNCHANGED <<pipe, written, kept, cut, drained, due, stopping>>
      BY <1>8 DEF Kills, KillsGroup
    <3>2. CASE step = "returned"
      BY <2>1, <2>2, <3>1, <3>2
    <3>3. CASE step = "emptying"
      <4>1. pipe' + drained' <= MaxDrain
        BY <2>1, <3>1, <3>3
      <4> QED
        BY <2>2, <3>1, <3>3, <4>1
    <3> QED
      BY <3>2, <3>3
<1> QED
  BY <1>1, <1>2, <1>3, <1>4, <1>5, <1>6, <1>7, <1>8 DEF CallerStep

LEMMA ProcessSteps ==
  ASSUME ProcessInv, [ProcessNext]_processVars
  PROVE  ProcessInv'
<1> USE ProcessAssumption
    DEF ProcessInv, ProcessTypes, PipeIsCounted, PipeIsEmptied, Silent
<1>1. CASE Writes
  BY <1>1 DEF Writes
<1>2. CASE Forks \/ MembersEnd \/ Exits
  BY <1>2 DEF Forks, MembersEnd, Exits
<1>3. CASE DeadlineIsDue \/ FlagIsSet
  BY <1>3 DEF DeadlineIsDue, FlagIsSet
<1>4. CASE UNCHANGED processVars
  BY <1>4 DEF processVars
<1> QED
  BY <1>1, <1>2, <1>3, <1>4, CallerStepKeeps DEF ProcessNext

\* drain_pipe and run_bounded, for any sizes: a completed command whose output
\* is not marked as cut has all of it kept, however it was written, forked,
\* exited and interrupted; or all but what a pipe holds, if the last read failed.
THEOREM OutputIsWholeIfRead == ProcessSpec => []OnlyTheLastReadIsLost
<1>1. ProcessInv => OnlyTheLastReadIsLost
  BY DEF ProcessInv, ProcessTypes, PipeIsCounted, PipeIsEmptied, OnlyTheLastReadIsLost
<1> QED
  BY <1>1, ProcessStarts, ProcessSteps, PTL DEF ProcessSpec

-----------------------------------------------------------------------------
(* Events *)

Pieces == [kind : {"ack", "event"}, part : {"whole", "head", "tail"}]

EventTypes ==
  /\ herdr \in [up : BOOLEAN, changes : Nat, breaks : Nat]
  /\ connected \in {"none", "asked", "subscribed"}
  /\ stream \in Seq(Pieces)
  /\ monitor \in [at : {"connecting", "awaiting", "reading", "pausing"}, partial : BOOLEAN,
                  before : BOOLEAN]
  /\ signals \in BOOLEAN
  /\ seen \in [change : Nat, at : {"idle", "refreshing", "shown"}, owes : BOOLEAN]

\* A line is sent as a whole, so that what is on its way never ends in a head.
LinesAreWhole == stream # <<>> => stream[Len(stream)].part # "head"

\* Something will tell, or the snapshot is up to date.
Owed ==
  \/ monitor.at # "reading" \/ connected # "subscribed" \/ stream # <<>>
  \/ signals \/ seen.at = "refreshing" \/ seen.owes
  \/ seen.change = herdr.changes

EventInv == EventTypes /\ LinesAreWhole /\ Owed

\* A line that is sent leaves something to read, with a whole end.
LEMMA Sending ==
  ASSUME EventInv, NEW kind \in {"ack", "event"}, NEW line \in Line(kind),
         stream' = stream \o line
  PROVE  stream' \in Seq(Pieces) /\ stream' # <<>> /\ LinesAreWhole'
<1>1. line \in Seq(Pieces) /\ Len(line) \in 1..2 /\ line[Len(line)].part # "head"
  <2>1. CASE line = <<[kind |-> kind, part |-> "whole"]>>
    BY <2>1 DEF Pieces
  <2>2. CASE line = <<[kind |-> kind, part |-> "head"], [kind |-> kind, part |-> "tail"]>>
    BY <2>2 DEF Pieces
  <2> QED
    BY <2>1, <2>2 DEF Line
<1>2. stream \in Seq(Pieces) /\ Len(stream) \in Nat
  BY DEF EventInv, EventTypes
<1>3. stream' \in Seq(Pieces) /\ Len(stream') = Len(stream) + Len(line)
  BY <1>1, <1>2
<1>4. stream'[Len(stream) + Len(line)] = line[Len(line)]
  <2> DEFINE n == Len(line)
  <2>1. n \in 1..2
    BY <1>1
  <2>2. Len(stream) + n \in 1..(Len(stream) + n) /\ ~(Len(stream) + n <= Len(stream))
        /\ (Len(stream) + n) - Len(stream) = n
    BY <1>2, <2>1
  <2>3. (stream \o line)[Len(stream) + n]
          = IF Len(stream) + n <= Len(stream) THEN stream[Len(stream) + n]
            ELSE line[(Len(stream) + n) - Len(stream)]
    BY <1>1, <1>2, <2>2, ConcatProperties, Zenon
  <2> QED
    BY <2>2, <2>3
<1>5. stream' # <<>>
  BY <1>1, <1>2, <1>3
<1> QED
  BY <1>1, <1>3, <1>4, <1>5 DEF LinesAreWhole

\* Reading a piece leaves the rest, which is not empty after a head.
LEMMA Receiving ==
  ASSUME EventInv, stream # <<>>
  PROVE  /\ Head(stream) \in Pieces /\ Tail(stream) \in Seq(Pieces)
         /\ Tail(stream) # <<>> => Tail(stream)[Len(Tail(stream))].part # "head"
         /\ Head(stream).part = "head" => Tail(stream) # <<>>
<1>1. stream \in Seq(Pieces) /\ Len(stream) \in Nat \ {0}
  BY DEF EventInv, EventTypes
<1>2. Head(stream) = stream[1] /\ stream[1] \in Pieces /\ Tail(stream) \in Seq(Pieces)
  BY <1>1
<1>3. /\ Len(Tail(stream)) = Len(stream) - 1
      /\ \A i \in 1..(Len(stream) - 1) : Tail(stream)[i] = stream[i + 1]
  BY <1>1
<1>4. stream[Len(stream)].part # "head"
  BY DEF EventInv, LinesAreWhole
<1>5. ASSUME Tail(stream) # <<>>
      PROVE  Tail(stream)[Len(Tail(stream))].part # "head"
  <2>1. Len(stream) - 1 \in 1..(Len(stream) - 1)
    BY <1>1, <1>2, <1>3, <1>5
  <2> QED
    BY <1>1, <1>3, <1>4, <2>1
<1>6. ASSUME Head(stream).part = "head"
      PROVE  Tail(stream) # <<>>
  <2>1. Len(stream) # 1
    BY <1>2, <1>4, <1>6
  <2>2. Len(Tail(stream)) # 0
    BY <1>1, <1>3, <2>1
  <2> QED
    BY <2>2, EmptySeq
<1> QED
  BY <1>2, <1>5, <1>6

LEMMA FailsTells ==
  ASSUME EventInv, Fails, UNCHANGED <<herdr, seen>>
  PROVE  EventInv'
BY DEF EventInv, EventTypes, LinesAreWhole, Owed, Fails

LEMMA MonitorSteps ==
  ASSUME EventInv, MonitorStep
  PROVE  EventInv'
<1> USE FailsTells
<1>1. CASE Connects
  BY <1>1 DEF Connects, EventInv, EventTypes, LinesAreWhole, Owed
<1>2. CASE Pauses
  BY <1>2 DEF Pauses, EventInv, EventTypes, LinesAreWhole, Owed
<1>3. CASE ReadsPiece
  <2> DEFINE piece == Head(stream)
             complete == piece.part = "whole" \/ (piece.part = "tail" /\ monitor.partial)
  <2>1. CASE piece.part = "head"
    <3>1. /\ monitor' = [monitor EXCEPT !.partial = TRUE]
          /\ stream' = Tail(stream) /\ UNCHANGED <<connected, signals, herdr, seen>>
          /\ stream # <<>>
      BY <1>3, <2>1 DEF ReadsPiece
    <3> QED
      BY <2>1, <3>1, Receiving DEF EventInv, EventTypes, LinesAreWhole, Owed
  <2>2. CASE piece.part # "head" /\ ~complete
    BY <1>3, <2>2 DEF ReadsPiece, Garbled
  <2>3. CASE piece.part # "head" /\ complete
    <3>1. /\ monitor' = [monitor EXCEPT !.at = "reading", !.partial = FALSE]
          /\ signals' = TRUE
          /\ stream' = Tail(stream) /\ UNCHANGED <<connected, herdr, seen>>
          /\ stream # <<>>
      BY <1>3, <2>3 DEF ReadsPiece, Resnapshots
    <3> QED
      BY <3>1, Receiving DEF EventInv, EventTypes, LinesAreWhole, Owed
  <2> QED
    BY <2>1, <2>2, <2>3
<1>4. CASE ReadTimesOut
  BY <1>4 DEF ReadTimesOut, EventInv, EventTypes, LinesAreWhole, Owed
<1>5. CASE StreamEnds
  BY <1>5 DEF StreamEnds
<1> QED
  BY <1>1, <1>2, <1>3, <1>4, <1>5 DEF MonitorStep

LEMMA HerdrSteps ==
  ASSUME EventInv, Acknowledges \/ Changes \/ Breaks \/ HerdrStarts
  PROVE  EventInv'
<1>1. CASE Acknowledges
  <2>1. stream' \in Seq(Pieces) /\ stream' # <<>> /\ LinesAreWhole'
    BY <1>1, Sending DEF Acknowledges
  <2> QED
    BY <1>1, <2>1 DEF Acknowledges, EventInv, EventTypes, Owed
<1>2. CASE Changes
  <2>1. CASE connected = "subscribed"
    <3>1. stream' \in Seq(Pieces) /\ stream' # <<>> /\ LinesAreWhole'
      BY <1>2, <2>1, Sending DEF Changes
    <3> QED
      BY <1>2, <3>1 DEF Changes, EventInv, EventTypes, Owed
  <2>2. CASE connected # "subscribed"
    BY <1>2, <2>2 DEF Changes, EventInv, EventTypes, LinesAreWhole, Owed
  <2> QED
    BY <2>1, <2>2
<1>3. CASE Breaks
  <2>1. herdr' \in [up : BOOLEAN, changes : Nat, breaks : Nat]
    <3>1. PICK up \in BOOLEAN : herdr' = [herdr EXCEPT !.up = up, !.breaks = @ + 1]
      BY <1>3 DEF Breaks
    <3> DEFINE h == [herdr EXCEPT !.up = up]
    <3>2. h \in [up : BOOLEAN, changes : Nat, breaks : Nat] /\ h.breaks = herdr.breaks
      BY DEF EventInv, EventTypes
    <3> HIDE DEF h
    <3>3. [h EXCEPT !.breaks = herdr.breaks + 1] \in [up : BOOLEAN, changes : Nat, breaks : Nat]
      BY <3>2
    <3> QED
      BY <3>1, <3>3, Zenon DEF h
  <2> QED
    BY <1>3, <2>1 DEF Breaks, EventInv, EventTypes, LinesAreWhole, Owed
<1>4. CASE HerdrStarts
  BY <1>4 DEF HerdrStarts, EventInv, EventTypes, LinesAreWhole, Owed
<1> QED
  BY <1>1, <1>2, <1>3, <1>4

LEMMA LoopSteps ==
  ASSUME EventInv, LoopRefreshes
  PROVE  EventInv'
<1>1. CASE TakesSignals \/ RefreshIsDue
  BY <1>1 DEF TakesSignals, RefreshIsDue, EventInv, EventTypes, LinesAreWhole, Owed
<1>2. CASE Refreshes
  <2>1. CASE seen' = [change |-> herdr.changes, at |-> "shown", owes |-> FALSE]
    BY <1>2, <2>1 DEF Refreshes, EventInv, EventTypes, LinesAreWhole, Owed
  <2>2. CASE seen' = [seen EXCEPT !.at = "idle", !.owes = TRUE]
    <3>1. /\ seen' \in [change : Nat, at : {"idle", "refreshing", "shown"}, owes : BOOLEAN]
          /\ seen'.owes
      BY <2>2 DEF EventInv, EventTypes
    <3> QED
      BY <1>2, <3>1 DEF Refreshes, EventInv, EventTypes, LinesAreWhole, Owed
  <2> QED
    BY <1>2, <2>1, <2>2 DEF Refreshes
<1>3. CASE Shows
  <2>1. /\ seen' \in [change : Nat, at : {"idle", "refreshing", "shown"}, owes : BOOLEAN]
        /\ seen'.change = seen.change /\ seen'.owes = seen.owes /\ seen.at = "shown"
    BY <1>3 DEF Shows, EventInv, EventTypes
  <2>2. CASE UNCHANGED <<connected, stream, monitor, signals>>
    BY <1>3, <2>1, <2>2 DEF Shows, EventInv, EventTypes, LinesAreWhole, Owed
  <2>3. CASE /\ connected' = "none" /\ stream' = <<>> /\ signals' = FALSE
             /\ monitor' = [at |-> "connecting", partial |-> FALSE, before |-> FALSE]
    <3>1. /\ stream' \in Seq(Pieces) /\ monitor'.at = "connecting"
          /\ monitor' \in [at : {"connecting", "awaiting", "reading", "pausing"},
                           partial : BOOLEAN, before : BOOLEAN]
      BY <2>3, EmptySeq
    <3> QED
      BY <1>3, <2>1, <2>3, <3>1 DEF Shows, EventInv, EventTypes, LinesAreWhole, Owed
  <2> QED
    BY <1>3, <2>2, <2>3 DEF Shows
<1> QED
  BY <1>1, <1>2, <1>3 DEF LoopRefreshes

LEMMA EventSteps ==
  ASSUME EventInv, [EventNext]_eventVars
  PROVE  EventInv'
<1>1. CASE UNCHANGED eventVars
  BY <1>1 DEF eventVars, EventInv, EventTypes, LinesAreWhole, Owed
<1> QED
  BY <1>1, MonitorSteps, HerdrSteps, LoopSteps DEF EventNext

\* run_subscription and read_bounded_line, for any number of changes and broken
\* connections: when nothing is under way that will tell it, Mission Control
\* shows what Herdr has.
THEOREM ShownIsUpToDate == EventSpec => []NothingIsMissed
<1>1. EventInit => EventInv
  <2> SUFFICES ASSUME EventInit PROVE EventInv
    OBVIOUS
  <2>1. herdr \in [up : BOOLEAN, changes : Nat, breaks : Nat] /\ stream \in Seq(Pieces)
    BY EmptySeq DEF EventInit
  <2>2. monitor \in [at : {"connecting", "awaiting", "reading", "pausing"},
                    partial : BOOLEAN, before : BOOLEAN]
    BY DEF EventInit
  <2>3. seen \in [change : Nat, at : {"idle", "refreshing", "shown"}, owes : BOOLEAN]
    BY DEF EventInit
  <2>4. LinesAreWhole /\ Owed
    BY DEF EventInit, LinesAreWhole, Owed
  <2> QED
    BY <2>1, <2>2, <2>3, <2>4 DEF EventInit, EventInv, EventTypes
<1>2. EventInv => NothingIsMissed
  BY DEF EventInv, EventTypes, Owed, NothingIsMissed
<1> QED
  BY <1>1, <1>2, EventSteps, PTL DEF EventSpec

-----------------------------------------------------------------------------
(* Pacing *)

\* The elements of an interval in their order.
LEMMA IntervalInOrder ==
  ASSUME NEW a \in Nat, NEW b \in Nat, NEW k \in 1..Cardinality(a..b)
  PROVE  InOrder(a..b)[k] = a + k - 1
<1> DEFINE below(i) == {j \in a..b : j < i}
<1>1. /\ a <= b /\ Cardinality(a..b) = b - a + 1 /\ k - 1 \in Nat
      /\ a + k - 1 \in a..b
  BY FS_Interval
<1>2. ASSUME NEW i \in a..b
      PROVE  Cardinality(below(i)) = i - a
  <2>1. below(i) = a..(i - 1)
    BY <1>2
  <2> HIDE DEF below
  <2>2. i - 1 \in Int /\ (a > i - 1 => i - a = 0)
    BY <1>2
  <2>3. Cardinality(a..(i - 1)) = IF a > i - 1 THEN 0 ELSE (i - 1) - a + 1
    BY <2>2, FS_Interval
  <2> QED
    BY <2>1, <2>2, <2>3
<1> HIDE DEF below
<1>3. \A i \in a..b : Cardinality(below(i)) = k - 1 <=> i = a + k - 1
  BY <1>1, <1>2
<1>4. InOrder(a..b)[k] = CHOOSE i \in a..b : Cardinality(below(i)) = k - 1
  BY DEF InOrder, below
<1> QED
  BY <1>1, <1>3, <1>4

\* The k-th from the end.
Latest(ages, k) == ages[Len(ages) - k + 1]

\* The latest are the youngest.
OldestFirst(ages) ==
  \A j, k \in 1..Len(ages) : j <= k => Latest(ages, j) <= Latest(ages, k)

\* What is remembered of a history is its end.
LEMMA Remembering ==
  ASSUME NEW ages \in Seq(Ages), OldestFirst(ages)
  PROVE  LET left == AtPositions(ages, Remembered(ages))
         IN  /\ left \in Seq(Ages) /\ Len(left) <= Len(ages)
             /\ \A k \in 1..Len(ages) :
                  Latest(ages, k) <= ImmediateFailureMemory => k <= Len(left)
             /\ \A k \in 1..Len(left) : Latest(left, k) = Latest(ages, k)
<1> DEFINE n == Len(ages)
           set == Remembered(ages)
           c == Cardinality(set)
           left == AtPositions(ages, set)
           first == n - c + 1
<1>1. n \in Nat /\ DOMAIN ages = 1..n /\ \A i \in 1..n : ages[i] \in Ages
  OBVIOUS
<1>2. IsFiniteSet(1..n) /\ Cardinality(1..n) = n
  <2>1. 1 \in Int /\ n \in Int /\ n \in Nat
    BY <1>1
  <2> HIDE DEF n
  <2>2. IsFiniteSet(1..n) /\ Cardinality(1..n) = IF 1 > n THEN 0 ELSE n - 1 + 1
    BY <2>1, FS_Interval
  <2> QED
    BY <2>1, <2>2
<1>3. set \in SUBSET (1..n)
  BY <1>1 DEF Remembered
<1>4. IsFiniteSet(set) /\ c <= n /\ c \in Nat
  BY <1>1, <1>2, <1>3, FS_Subset, FS_CardinalityType
<1>5. ASSUME NEW i \in 1..n, ages[i] <= ImmediateFailureMemory
      PROVE  i..n \subseteq set /\ n - i + 1 <= c
  <2>1. i..n \subseteq set
    <3> SUFFICES ASSUME NEW j \in i..n PROVE j \in set
      OBVIOUS
    <3>1. j \in 1..n /\ ages[j] <= ages[i]
      <4>1. /\ n - j + 1 \in 1..n /\ n - i + 1 \in 1..n /\ n - j + 1 <= n - i + 1
            /\ n - (n - j + 1) + 1 = j /\ n - (n - i + 1) + 1 = i
        BY <1>1
      <4> QED
        BY <1>1, <4>1 DEF OldestFirst, Latest
    <3> QED
      BY <1>1, <1>5, <3>1, DurationAssumption DEF Remembered, Ages, Horizon
  <2>2. Cardinality(i..n) = n - i + 1
    BY <1>1, FS_Interval
  <2> HIDE DEF c, set
  <2>3. Cardinality(i..n) <= Cardinality(set)
    BY <1>4, <2>1, FS_Subset
  <2> QED
    BY <2>1, <2>2, <2>3 DEF c
<1>6. set = first..n
  <2>1. set \subseteq first..n
    <3> SUFFICES ASSUME NEW i \in set PROVE i \in first..n
      OBVIOUS
    <3>1. i \in 1..n /\ ages[i] <= ImmediateFailureMemory
      BY <1>1 DEF Remembered
    <3>2. n - i + 1 <= c
      BY <1>5, <3>1
    <3> HIDE DEF c, set
    <3> QED
      BY <1>1, <1>4, <3>1, <3>2
  <2>2. first \in Int /\ Cardinality(first..n) = c /\ IsFiniteSet(first..n)
    <3>1. first \in Int /\ (first > n => c = 0) /\ n - first + 1 = c
      BY <1>1, <1>4
    <3> HIDE DEF first, c
    <3> QED
      BY <1>1, <3>1, FS_Interval
  <2> HIDE DEF set, first, c
  <2> QED
    BY <2>1, <2>2, FS_Subset DEF c
<1>7. first \in Nat
  BY <1>1, <1>4
<1>8. left = [k \in 1..c |-> ages[InOrder(set)[k]]]
  BY DEF AtPositions
<1>9. \A k \in 1..c : left[k] = ages[first + k - 1] /\ left[k] \in Ages
  <2> SUFFICES ASSUME NEW k \in 1..c
               PROVE  left[k] = ages[first + k - 1] /\ left[k] \in Ages
    OBVIOUS
  <2>1. InOrder(first..n)[k] = first + k - 1
    <3> HIDE DEF first
    <3>1. Cardinality(first..n) = c
      BY <1>6
    <3> HIDE DEF c, set
    <3> QED
      BY <1>1, <1>7, <3>1, IntervalInOrder
  <2>2. first + k - 1 \in 1..n
    BY <1>1, <1>4
  <2> QED
    BY <1>1, <1>6, <1>8, <2>1, <2>2
<1>10. left \in Seq(Ages) /\ Len(left) = c
  <2> HIDE DEF c, left
  <2> QED
    BY <1>4, <1>8, <1>9
<1>11. \A k \in 1..n : Latest(ages, k) <= ImmediateFailureMemory => k <= c
  <2> SUFFICES ASSUME NEW k \in 1..n, Latest(ages, k) <= ImmediateFailureMemory
               PROVE  k <= c
    OBVIOUS
  <2>1. n - k + 1 \in 1..n /\ n - (n - k + 1) + 1 = k
    BY <1>1
  <2> HIDE DEF c
  <2> QED
    BY <1>5, <2>1 DEF Latest
<1>12. \A k \in 1..c : Latest(left, k) = Latest(ages, k)
  <2> SUFFICES ASSUME NEW k \in 1..c PROVE Latest(left, k) = Latest(ages, k)
    OBVIOUS
  <2>1. c - k + 1 \in 1..c /\ first + (c - k + 1) - 1 = n - k + 1
    BY <1>1, <1>4
  <2> HIDE DEF c, left, first
  <2> QED
    BY <1>9, <1>10, <2>1 DEF Latest
<1> HIDE DEF c, left, n
<1>13. /\ left \in Seq(Ages) /\ Len(left) <= Len(ages)
       /\ \A k \in 1..Len(ages) :
            Latest(ages, k) <= ImmediateFailureMemory => k <= Len(left)
       /\ \A k \in 1..Len(left) : Latest(left, k) = Latest(ages, k)
  BY <1>4, <1>10, <1>11, <1>12 DEF n
<1> QED
  BY <1>13 DEF left

\* An age that is added comes after what is left, of which the oldest may go.
LEMMA Adding ==
  ASSUME NEW ages \in Seq(Ages), Len(ages) <= MaxImmediateFailures, NEW age \in Ages
  PROVE  LET longer == Bounded(Append(ages, age))
         IN  /\ longer \in Seq(Ages) /\ Len(longer) \in 1..MaxImmediateFailures
             /\ Latest(longer, 1) = age
             /\ \A k \in 2..Len(longer) :
                  k - 1 \in 1..Len(ages) /\ Latest(longer, k) = Latest(ages, k - 1)
             /\ \A k \in 2..MaxImmediateFailures : k - 1 <= Len(ages) => k <= Len(longer)
<1> USE DurationAssumption
<1> DEFINE all == Append(ages, age)
           n == Len(ages)
<1>1. /\ n \in Nat /\ all \in Seq(Ages) /\ Len(all) = n + 1 /\ all[n + 1] = age
      /\ \A i \in 1..n : all[i] = ages[i]
  OBVIOUS
<1>2. \A k \in 2..(n + 1) : Latest(all, k) = Latest(ages, k - 1) /\ k - 1 \in 1..n
  <2> HIDE DEF all
  <2> SUFFICES ASSUME NEW k \in 2..(n + 1)
               PROVE  Latest(all, k) = Latest(ages, k - 1) /\ k - 1 \in 1..n
    OBVIOUS
  <2>1. n + 1 - k + 1 = n - (k - 1) + 1 /\ n - (k - 1) + 1 \in 1..n /\ k - 1 \in 1..n
    BY <1>1
  <2> QED
    BY <1>1, <2>1 DEF Latest
<1>3. Latest(all, 1) = age
  BY <1>1 DEF Latest
<1>4. CASE n + 1 > MaxImmediateFailures
  <2> DEFINE rest == Tail(all)
  <2> HIDE DEF all
  <2>1. /\ Bounded(all) = rest /\ rest \in Seq(Ages) /\ Len(rest) = n
        /\ \A i \in 1..n : rest[i] = all[i + 1]
    BY <1>1, <1>4 DEF Bounded
  <2>2. n = MaxImmediateFailures
    BY <1>1, <1>4
  <2> HIDE DEF rest
  <2>3. \A k \in 1..n : Latest(rest, k) = Latest(all, k)
    <3> SUFFICES ASSUME NEW k \in 1..n PROVE Latest(rest, k) = Latest(all, k)
      OBVIOUS
    <3>1. n - k + 1 \in 1..n /\ (n + 1) - k + 1 = (n - k + 1) + 1
      BY <1>1
    <3> QED
      BY <1>1, <2>1, <3>1 DEF Latest
  <2> QED
    BY <1>1, <1>2, <1>3, <2>1, <2>2, <2>3 DEF all
<1>5. CASE ~(n + 1 > MaxImmediateFailures)
  <2>1. Bounded(all) = all
    BY <1>1, <1>5 DEF Bounded
  <2> HIDE DEF all
  <2> QED
    BY <1>1, <1>2, <1>3, <1>5, <2>1 DEF all
<1> QED
  BY <1>4, <1>5

-----------------------------------------------------------------------------
(* Pacing: what is remembered *)

Records ==
  [status : {"Creating", "Running", "Stopping", "Ended"},
   used : Ages, closed : Ages, ranFor : Ages,
   exit : {"none", "success", "failure"}, failures : Seq(Ages)]

PaceTypes ==
  /\ record \in Records /\ Len(record.failures) <= MaxImmediateFailures
  /\ work \in {"none", "running", "success", "failure"}
  /\ loop \in Seq(Ages) /\ Len(loop) <= MaxImmediateFailures

\* The record's history is in order, up to the last end.
InOrderOfTime ==
  /\ OldestFirst(record.failures)
  /\ \A k \in 1..Len(record.failures) : record.closed <= Latest(record.failures, k)

\* Counted from the end, whatever failed at once within the memory is matched by
\* a failure of the record that is no older.
Covers(failures, ends) ==
  \A k \in 1..Len(ends) :
    Latest(ends, k) <= ImmediateFailureMemory =>
      k <= Len(failures) /\ Latest(failures, k) <= Latest(ends, k)

\* The end of a record is the last of its loop, or there is none.
EndsTheLoop ==
  record.status = "Ended" =>
    IF EndedImmediately(record) THEN loop # <<>> /\ Latest(loop, 1) = record.closed
    ELSE loop = <<>>

PaceInv == PaceTypes /\ InOrderOfTime /\ Covers(record.failures, loop) /\ EndsTheLoop

\* One more failure, noted in a history that covers what was before it.
LEMMA Noting ==
  ASSUME NEW r \in Records, Len(r.failures) <= MaxImmediateFailures,
         OldestFirst(r.failures),
         \A k \in 1..Len(r.failures) : r.closed <= Latest(r.failures, k),
         NEW ends \in Seq(Ages), Len(ends) <= MaxImmediateFailures,
         Covers(r.failures, ends)
  PROVE  LET failures == Noted(r).failures
         IN  /\ Noted(r) = [r EXCEPT !.failures = failures]
             /\ failures \in Seq(Ages) /\ Len(failures) <= MaxImmediateFailures
             /\ OldestFirst(failures)
             /\ \A k \in 1..Len(failures) : r.closed <= Latest(failures, k)
             /\ Covers(failures, Bounded(Append(ends, r.closed)))
             /\ ends # <<>> /\ Latest(ends, 1) = r.closed => Covers(failures, ends)
<1> USE DurationAssumption
<1> DEFINE left == AtPositions(r.failures, Remembered(r.failures))
           failures == Bounded(Append(left, r.closed))
           more == Bounded(Append(ends, r.closed))
<1>1. r.failures \in Seq(Ages) /\ r.closed \in Ages
  BY DEF Records
<1>2. /\ left \in Seq(Ages) /\ Len(left) <= Len(r.failures)
      /\ \A k \in 1..Len(r.failures) :
           Latest(r.failures, k) <= ImmediateFailureMemory => k <= Len(left)
      /\ \A k \in 1..Len(left) : Latest(left, k) = Latest(r.failures, k)
  BY <1>1, Remembering
<1>3. Noted(r) = [r EXCEPT !.failures = failures] /\ Noted(r).failures = failures
  BY DEF Noted, Records
<1> HIDE DEF left
<1>4. Len(left) \in Nat /\ Len(r.failures) \in Nat /\ Len(ends) \in Nat
  BY <1>1, <1>2
<1>5. /\ failures \in Seq(Ages) /\ Len(failures) \in 1..MaxImmediateFailures
      /\ Latest(failures, 1) = r.closed
      /\ \A k \in 2..Len(failures) :
           k - 1 \in 1..Len(left) /\ Latest(failures, k) = Latest(left, k - 1)
      /\ \A k \in 2..MaxImmediateFailures : k - 1 <= Len(left) => k <= Len(failures)
  <2>1. Len(left) <= MaxImmediateFailures
    BY <1>2, <1>4
  <2> QED
    BY <1>1, <1>2, <2>1, Adding
<1>6. /\ more \in Seq(Ages) /\ Len(more) \in 1..MaxImmediateFailures
      /\ Latest(more, 1) = r.closed
      /\ \A k \in 2..Len(more) :
           k - 1 \in 1..Len(ends) /\ Latest(more, k) = Latest(ends, k - 1)
  BY <1>1, Adding
<1> HIDE DEF failures, more
\* Nothing that is noted is lost but for its age.
<1>7. \A k \in 2..Len(failures) :
        k - 1 \in 1..Len(r.failures) /\ Latest(failures, k) = Latest(r.failures, k - 1)
  BY <1>2, <1>4, <1>5
<1>8. \A k \in 2..MaxImmediateFailures :
        k - 1 <= Len(r.failures) /\ Latest(r.failures, k - 1) <= ImmediateFailureMemory
          => k <= Len(failures)
  BY <1>2, <1>4, <1>5
<1>9. \A k \in 1..Len(r.failures) : Latest(r.failures, k) \in Ages
  BY <1>1 DEF Latest
<1>10. \A k \in 1..Len(ends) : Latest(ends, k) \in Ages
  BY DEF Latest
<1>11. \A k \in 1..Len(failures) : r.closed <= Latest(failures, k)
  <2> SUFFICES ASSUME NEW k \in 1..Len(failures) PROVE r.closed <= Latest(failures, k)
    OBVIOUS
  <2>1. CASE k = 1
    BY <1>1, <1>5, <2>1 DEF Ages, Horizon
  <2>2. CASE k # 1
    BY <1>5, <1>7, <2>2
  <2> QED
    BY <2>1, <2>2
<1>12. OldestFirst(failures)
  <2> SUFFICES ASSUME NEW j \in 1..Len(failures), NEW k \in 1..Len(failures), j <= k
               PROVE  Latest(failures, j) <= Latest(failures, k)
    BY DEF OldestFirst
  <2>1. CASE j = 1
    BY <1>5, <1>11, <2>1
  <2>2. CASE j # 1
    <3>1. j \in 2..Len(failures) /\ k \in 2..Len(failures) /\ j - 1 <= k - 1
      BY <1>5, <2>2
    <3> QED
      BY <1>7, <3>1 DEF OldestFirst
  <2> QED
    BY <2>1, <2>2
<1>13. Covers(failures, more)
  <2> SUFFICES ASSUME NEW k \in 1..Len(more), Latest(more, k) <= ImmediateFailureMemory
               PROVE  k <= Len(failures) /\ Latest(failures, k) <= Latest(more, k)
    BY DEF Covers
  <2>1. CASE k = 1
    BY <1>1, <1>5, <1>6, <2>1 DEF Ages, Horizon
  <2>2. CASE k # 1
    <3>1. k \in 2..Len(more) /\ k \in 2..MaxImmediateFailures
      BY <1>6, <2>2
    <3>2. k - 1 \in 1..Len(ends) /\ Latest(more, k) = Latest(ends, k - 1)
      BY <1>6, <3>1
    <3>3. k - 1 <= Len(r.failures) /\ Latest(r.failures, k - 1) <= Latest(ends, k - 1)
      BY <3>2 DEF Covers
    <3>4. k - 1 \in 1..Len(r.failures)
      BY <1>4, <3>2, <3>3
    <3>5. Latest(r.failures, k - 1) <= ImmediateFailureMemory
      BY <1>9, <1>10, <3>2, <3>3, <3>4 DEF Ages, Horizon
    <3>6. k \in 2..Len(failures)
      BY <1>5, <1>8, <3>1, <3>3, <3>5
    <3> QED
      BY <1>5, <1>7, <3>2, <3>3, <3>6
  <2> QED
    BY <2>1, <2>2
<1>14. ASSUME ends # <<>>, Latest(ends, 1) = r.closed
       PROVE  Covers(failures, ends)
  <2> SUFFICES ASSUME NEW k \in 1..Len(ends), Latest(ends, k) <= ImmediateFailureMemory
               PROVE  k <= Len(failures) /\ Latest(failures, k) <= Latest(ends, k)
    BY DEF Covers
  <2>1. CASE k = 1
    BY <1>1, <1>5, <1>14, <2>1 DEF Ages, Horizon
  <2>2. CASE k # 1
    <3>1. k \in 2..Len(ends) /\ k \in 2..MaxImmediateFailures /\ k - 1 \in 1..Len(ends)
      BY <1>4, <2>2
    <3>2. k <= Len(r.failures) /\ Latest(r.failures, k) <= Latest(ends, k)
      BY <3>1 DEF Covers
    <3>3. k \in 1..Len(r.failures) /\ k - 1 \in 1..Len(r.failures) /\ k - 1 <= k
      BY <1>4, <3>1, <3>2
    <3>4. Latest(r.failures, k - 1) <= Latest(r.failures, k)
      BY <3>3 DEF OldestFirst
    <3>5. /\ Latest(r.failures, k - 1) <= Latest(ends, k)
          /\ Latest(r.failures, k - 1) <= ImmediateFailureMemory
      <4>1. /\ Latest(r.failures, k - 1) \in Nat /\ Latest(r.failures, k) \in Nat
            /\ Latest(ends, k) \in Nat /\ ImmediateFailureMemory \in Nat
        BY <1>9, <1>10, <3>3 DEF Ages, Horizon
      <4> QED
        BY <3>2, <3>4, <4>1
    <3>6. k \in 2..Len(failures)
      BY <1>4, <1>5, <1>8, <3>1, <3>3, <3>5
    <3> QED
      BY <1>5, <1>7, <3>5, <3>6
  <2> QED
    BY <2>1, <2>2
<1>15. Len(failures) <= MaxImmediateFailures
  BY <1>5
<1>16. Noted(r).failures \in Seq(Ages)
  BY <1>3, <1>5
<1> QED
  BY <1>3, <1>11, <1>12, <1>13, <1>14, <1>15, <1>16 DEF more

-----------------------------------------------------------------------------
(* Pacing: the steps *)

\* An end is judged once its moment and its exit are known.
LEMMA Ending ==
  ASSUME PaceInv, NEW r \in Records, r.status = "Ended", r.failures = record.failures,
         r.closed = record.closed \/ (r.closed = 0 /\ record.status # "Ended"),
         record' = Judged(r), Remember(record, Judged(r)),
         work' \in {"none", "running", "success", "failure"}
  PROVE  PaceInv'
<1> USE DurationAssumption
<1> DEFINE failures == record'.failures
<1>1. /\ \A k \in 1..Len(r.failures) : r.closed <= Latest(r.failures, k)
      /\ OldestFirst(r.failures) /\ r.failures \in Seq(Ages)
      /\ Len(r.failures) <= MaxImmediateFailures /\ Covers(r.failures, loop)
      /\ r.closed \in Ages /\ loop \in Seq(Ages) /\ Len(loop) <= MaxImmediateFailures
  <2>1. \A k \in 1..Len(r.failures) : Latest(r.failures, k) \in Ages
    BY DEF Records, Latest
  <2> QED
    BY <2>1 DEF PaceInv, PaceTypes, InOrderOfTime, Records, Ages, Horizon
<1>2. CASE EndedImmediately(r)
  <2>1. record' = [r EXCEPT !.failures = Noted(r).failures]
    BY <1>1, <1>2, Noting DEF Judged
  <2>2. failures = Noted(r).failures /\ record' \in Records
    BY <1>1, <2>1, Noting DEF Records
  <2>3. /\ record'.status = r.status /\ record'.closed = r.closed
        /\ EndedImmediately(record') /\ Judged(r) = record'
    BY <1>2, <2>1 DEF EndedImmediately, Records
  <2>4. /\ OldestFirst(failures) /\ Len(failures) <= MaxImmediateFailures
        /\ \A k \in 1..Len(failures) : record'.closed <= Latest(failures, k)
        /\ Covers(failures, Bounded(Append(loop, r.closed)))
        /\ loop # <<>> /\ Latest(loop, 1) = r.closed => Covers(failures, loop)
    BY <1>1, <2>2, <2>3, Noting
  <2>5. CASE record.status = "Ended" /\ EndedImmediately(record)
    <3>1. loop' = loop
      BY <2>3, <2>5 DEF Remember
    <3>2. loop # <<>> /\ Latest(loop, 1) = r.closed
      BY <2>5 DEF PaceInv, EndsTheLoop
    <3> QED
      BY <1>1, <2>2, <2>3, <2>4, <3>1, <3>2 DEF PaceInv, PaceTypes, InOrderOfTime, EndsTheLoop
  <2>6. CASE ~(record.status = "Ended" /\ EndedImmediately(record))
    <3>1. loop' = Bounded(Append(loop, r.closed))
      BY <2>3, <2>6 DEF Remember
    <3>2. /\ loop' \in Seq(Ages) /\ Len(loop') \in 1..MaxImmediateFailures
          /\ Latest(loop', 1) = r.closed
      BY <1>1, <3>1, Adding
    <3>3. loop' # <<>> /\ Len(loop') <= MaxImmediateFailures
      BY <3>2
    <3> QED
      BY <2>2, <2>3, <2>4, <3>1, <3>2, <3>3
      DEF PaceInv, PaceTypes, InOrderOfTime, EndsTheLoop
  <2> QED
    BY <2>5, <2>6
<1>3. CASE ~EndedImmediately(r)
  <2>1. record' = [r EXCEPT !.failures = <<>>]
    BY <1>3 DEF Judged
  <2>2. /\ record' \in Records /\ failures = <<>> /\ record'.status = "Ended"
        /\ ~EndedImmediately(record')
    <3>1. <<>> \in Seq(Ages)
      OBVIOUS
    <3>2. /\ record'.failures = <<>> /\ record'.status = r.status /\ record'.exit = r.exit
          /\ record'.ranFor = r.ranFor /\ record' \in Records
      BY <2>1, <3>1 DEF Records
    <3> QED
      BY <1>3, <3>2 DEF EndedImmediately
  <2>3. loop' = <<>>
    BY <2>2 DEF Remember
  <2>4. Len(<<>>) = 0 /\ <<>> \in Seq(Ages)
    OBVIOUS
  <2> QED
    BY <2>2, <2>3, <2>4
    DEF PaceInv, PaceTypes, InOrderOfTime, OldestFirst, Covers, EndsTheLoop
<1> QED
  BY <1>2, <1>3

\* A record that changes in nothing the history is about.
LEMMA Keeping ==
  ASSUME PaceInv, record' \in Records, record'.failures = record.failures,
         record'.closed = record.closed, loop' = loop,
         record'.status # "Ended" \/ record' = record,
         work' \in {"none", "running", "success", "failure"}
  PROVE  PaceInv'
<1>1. CASE record'.status # "Ended"
  BY <1>1 DEF PaceInv, PaceTypes, InOrderOfTime, EndsTheLoop
<1>2. CASE record' = record
  BY <1>2 DEF PaceInv, PaceTypes, InOrderOfTime, EndsTheLoop, EndedImmediately
<1> QED
  BY <1>1, <1>2

LEMMA Ticking ==
  ASSUME PaceInv, Tick
  PROVE  PaceInv'
<1> USE DurationAssumption
<1> DEFINE Aged(ages) == [i \in DOMAIN ages |-> Older(ages[i])]
<1>1. /\ \A a \in Ages : Older(a) \in Ages
      /\ \A a, b \in Ages : a <= b => Older(a) <= Older(b)
      /\ \A a \in Ages : Older(a) <= ImmediateFailureMemory => a <= ImmediateFailureMemory
  BY DEF Older, Ages, Horizon
<1>2. ASSUME NEW ages \in Seq(Ages)
      PROVE  /\ Aged(ages) \in Seq(Ages) /\ Len(Aged(ages)) = Len(ages)
             /\ \A k \in 1..Len(ages) : /\ Latest(ages, k) \in Ages
                                        /\ Latest(Aged(ages), k) = Older(Latest(ages, k))
  <2>1. Aged(ages) \in Seq(Ages) /\ Len(Aged(ages)) = Len(ages)
    BY <1>1
  <2>2. \A k \in 1..Len(ages) : Len(ages) - k + 1 \in DOMAIN ages
    OBVIOUS
  <2> QED
    BY <2>1, <2>2 DEF Latest
<1>3. /\ record.failures \in Seq(Ages) /\ loop \in Seq(Ages)
      /\ record.closed \in Ages /\ record.used \in Ages /\ record \in Records
  BY DEF PaceInv, PaceTypes, Records
<1> DEFINE failures == Aged(record.failures)
<1>4. /\ failures \in Seq(Ages) /\ Len(failures) = Len(record.failures)
      /\ \A k \in 1..Len(failures) :
           /\ Latest(record.failures, k) \in Ages
           /\ Latest(failures, k) = Older(Latest(record.failures, k))
  BY <1>2, <1>3
<1>5. /\ loop' \in Seq(Ages) /\ Len(loop') = Len(loop)
      /\ \A k \in 1..Len(loop') :
           Latest(loop, k) \in Ages /\ Latest(loop', k) = Older(Latest(loop, k))
  BY <1>2, <1>3 DEF Tick
<1>6. record' = [record EXCEPT !.used = Older(@), !.closed = Older(@), !.failures = failures]
  BY DEF Tick
<1> HIDE DEF failures
<1>7. /\ record' \in Records /\ record'.failures = failures
      /\ record'.closed = Older(record.closed) /\ record'.status = record.status
      /\ EndedImmediately(record') = EndedImmediately(record)
  BY <1>1, <1>3, <1>4, <1>6 DEF Records, EndedImmediately
<1>8. PaceTypes'
  BY <1>4, <1>5, <1>7 DEF PaceInv, PaceTypes, Tick
<1>9. InOrderOfTime'
  <2>1. OldestFirst(failures)
    BY <1>1, <1>4 DEF PaceInv, InOrderOfTime, OldestFirst
  <2>2. \A k \in 1..Len(failures) : record'.closed <= Latest(failures, k)
    BY <1>1, <1>3, <1>4, <1>7 DEF PaceInv, InOrderOfTime
  <2> QED
    BY <1>7, <2>1, <2>2 DEF InOrderOfTime
<1>10. Covers(failures, loop')
  <2> SUFFICES ASSUME NEW k \in 1..Len(loop'), Latest(loop', k) <= ImmediateFailureMemory
               PROVE  k <= Len(failures) /\ Latest(failures, k) <= Latest(loop', k)
    BY DEF Covers
  <2>1. k \in 1..Len(loop) /\ Latest(loop, k) <= ImmediateFailureMemory
    BY <1>1, <1>5
  <2>2. k <= Len(record.failures) /\ Latest(record.failures, k) <= Latest(loop, k)
    BY <2>1 DEF PaceInv, Covers
  <2>3. k \in 1..Len(failures)
    BY <1>4, <2>1, <2>2
  <2> QED
    BY <1>1, <1>4, <1>5, <2>2, <2>3
<1>11. EndsTheLoop'
  <2>1. loop = <<>> => loop' = <<>>
    BY <1>3, <1>5
  <2>2. loop # <<>> => loop' # <<>> /\ 1 \in 1..Len(loop')
    BY <1>3, <1>5
  <2> QED
    BY <1>5, <1>7, <2>1, <2>2 DEF PaceInv, EndsTheLoop
<1> QED
  BY <1>7, <1>8, <1>9, <1>10, <1>11 DEF PaceInv

LEMMA PaceSteps ==
  ASSUME PaceInv, [PaceNext]_paceVars
  PROVE  PaceInv'
<1> USE DurationAssumption
<1>1. /\ record \in Records /\ 0 \in Ages
      /\ work \in {"none", "running", "success", "failure"}
  BY DEF PaceInv, PaceTypes, Ages, Horizon
<1>2. CASE ObserveOver
  <2> DEFINE r == ClosedOnce(record, work)
  <2>1. work \in {"none", "success", "failure"}
    BY <1>1, <1>2 DEF ObserveOver
  <2>2. /\ r \in Records /\ r.status = "Ended" /\ r.failures = record.failures
        /\ r.closed = record.closed \/ (r.closed = 0 /\ record.status # "Ended")
    BY <1>1, <2>1 DEF ClosedOnce, Closed, Records
  <2>3. record' = Judged(r) /\ Remember(record, Judged(r)) /\ work' = work
    BY <1>2 DEF ObserveOver
  <2> HIDE DEF r
  <2> QED
    BY <1>1, <2>2, <2>3, Ending
<1>3. CASE Stop
  <2> DEFINE exit == IF work = "running" THEN "none" ELSE work
             r == Closed(record, exit)
  <2>1. /\ r \in Records /\ r.status = "Ended" /\ r.failures = record.failures
        /\ r.closed = 0 /\ record.status # "Ended"
    BY <1>1, <1>3 DEF Stop, Closed, Records
  <2>2. record' = Judged(r) /\ Remember(record, Judged(r)) /\ work' = "none"
    BY <1>3 DEF Stop
  <2> HIDE DEF r
  <2> QED
    BY <2>1, <2>2, Ending
<1>4. CASE ObserveRunning \/ Open \/ StopDeclares \/ Reserve \/ CreateSession \/ Activate
  <2>1. /\ record' \in Records /\ record'.failures = record.failures
        /\ record'.closed = record.closed /\ loop' = loop
        /\ record'.status # "Ended" \/ record' = record
        /\ work' \in {"none", "running", "success", "failure"}
    BY <1>1, <1>4
    DEF ObserveRunning, Open, StopDeclares, Reserve, CreateSession, Activate, Promoted, Records
  <2> QED
    BY <2>1, Keeping
<1>5. CASE Tick
  BY <1>5, Ticking
<1>6. CASE (\E outcome \in {"success", "failure"} : WorkEnds(outcome)) \/ SessionEnds
  BY <1>1, <1>6, Keeping DEF WorkEnds, SessionEnds
<1>7. CASE UNCHANGED paceVars
  BY <1>1, <1>7, Keeping DEF paceVars
<1> QED
  BY <1>2, <1>3, <1>4, <1>5, <1>6, <1>7 DEF PaceNext, Operation

\* What covers a loop counts at least as much of it.
LEMMA CoversCounts ==
  ASSUME NEW failures \in Seq(Ages), NEW ends \in Seq(Ages), Covers(failures, ends)
  PROVE  Recent(ends) <= Recent(failures) /\ Recent(failures) \in Nat
<1> USE DurationAssumption
<1> DEFINE n == Len(failures)
           m == Len(ends)
           S == Remembered(ends)
           T == Remembered(failures)
           match == [i \in S |-> n - m + i]
<1>1. n \in Nat /\ m \in Nat /\ T \in SUBSET (1..n) /\ S \in SUBSET (1..m)
  BY DEF Remembered
<1>2. IsFiniteSet(T) /\ Cardinality(T) \in Nat
  <2>1. IsFiniteSet(1..n)
    <3>1. 1 \in Int /\ n \in Int
      BY <1>1
    <3> HIDE DEF n
    <3> QED
      BY <3>1, FS_Interval
  <2> QED
    BY <1>1, <2>1, FS_Subset, FS_CardinalityType
<1>3. ASSUME NEW i \in S
      PROVE  n - m + i \in T
  <2> DEFINE k == m - i + 1
  <2>1. k \in 1..m /\ m - k + 1 = i /\ ends[i] <= ImmediateFailureMemory
    BY <1>1 DEF Remembered
  <2>2. Latest(ends, k) = ends[i]
    BY <2>1 DEF Latest
  <2>3. k <= n /\ Latest(failures, k) <= Latest(ends, k)
    BY <2>1, <2>2 DEF Covers
  <2>4. n - k + 1 \in 1..n /\ n - k + 1 = n - m + i
    <3>1. n \in Nat /\ m \in Nat /\ k \in 1..m /\ k <= n /\ m - k + 1 = i
      BY <1>1, <2>1, <2>3
    <3> HIDE DEF n, m, k
    <3> QED
      BY <3>1
  <2>5. failures[n - m + i] <= ends[i]
    BY <2>2, <2>3, <2>4 DEF Latest
  <2>6. failures[n - m + i] \in Ages /\ ends[i] \in Ages
    BY <1>1, <2>4
  <2>7. n - m + i \in DOMAIN failures /\ failures[n - m + i] <= ImmediateFailureMemory
    <3>1. /\ failures[n - m + i] \in Nat /\ ends[i] \in Nat
          /\ ImmediateFailureMemory \in Nat /\ n - m + i \in DOMAIN failures
      BY <1>1, <2>4, <2>6 DEF Ages, Horizon
    <3> HIDE DEF n, m
    <3> QED
      BY <2>1, <2>5, <3>1
  <2> QED
    BY <2>7 DEF Remembered
<1>4. match \in Injection(S, T)
  <2>1. match \in [S -> T]
    BY <1>3
  <2>2. \A i, j \in S : match[i] = match[j] => i = j
    BY <1>1
  <2> HIDE DEF match, S, T
  <2> QED
    BY <2>1, <2>2 DEF Injection, IsInjective
<1> HIDE DEF match, S, T
<1>5. Cardinality(S) <= Cardinality(T)
  BY <1>2, <1>4, FS_Injection
<1> QED
  BY <1>2, <1>5 DEF Recent, S, T

\* note_immediate_failure, mark_ended and promote_running, for any windows and
\* any ceiling: the failures that pace a restart are at least those of the loop,
\* whatever was observed, opened, stopped and restarted, and as time passes.
THEOREM LoopStaysRemembered == PaceSpec => []LoopIsRemembered
<1>1. PaceInit => PaceInv
  <2> SUFFICES ASSUME PaceInit PROVE PaceInv
    OBVIOUS
  <2>1. <<>> \in Seq(Ages) /\ Len(<<>>) = 0 /\ 0 \in Ages
    BY DurationAssumption DEF Ages, Horizon
  <2>2. record \in Records
    BY <2>1 DEF PaceInit, Records
  <2> QED
    BY <2>1, <2>2, DurationAssumption
    DEF PaceInit, PaceInv, PaceTypes, InOrderOfTime, OldestFirst, Covers, EndsTheLoop
<1>2. PaceInv => LoopIsRemembered
  <2> SUFFICES ASSUME PaceInv PROVE LoopIsRemembered
    OBVIOUS
  <2>1. Recent(loop) <= Recent(record.failures) /\ Recent(record.failures) \in Nat
    BY CoversCounts DEF PaceInv, PaceTypes, Records
  <2>2. Recent(loop) \in Nat
    <3>1. Covers(loop, loop)
      <4>1. \A k \in 1..Len(loop) : Latest(loop, k) \in Nat
        <5> SUFFICES ASSUME NEW k \in 1..Len(loop) PROVE Latest(loop, k) \in Nat
          OBVIOUS
        <5>1. loop \in Seq(Ages) /\ Len(loop) - k + 1 \in 1..Len(loop)
          BY DEF PaceInv, PaceTypes
        <5>2. loop[Len(loop) - k + 1] \in Ages
          BY <5>1
        <5> QED
          BY <5>2 DEF Latest, Ages
      <4> QED
        BY <4>1 DEF PaceInv, PaceTypes, Covers
    <3> QED
      BY <3>1, CoversCounts DEF PaceInv, PaceTypes
  <2> QED
    BY <2>1, <2>2 DEF LoopIsRemembered, ImmediateFailureRun
<1> QED
  BY <1>1, <1>2, PaceSteps, PTL DEF PaceSpec
=============================================================================
