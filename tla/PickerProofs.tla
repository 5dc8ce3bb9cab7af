---------------------------- MODULE PickerProofs ----------------------------
(***************************************************************************)
(* Proofs about the search and the refresh the picker starts, and about    *)
(* the picker itself, for any locations, workloads, groups and threads.    *)
(*                                                                         *)
(* The arguments: how a location ended is said before its channel closes   *)
(* (SearchInv), and what was taken is held by one worker until then        *)
(* (QueueInv).  A worker that tells of a workload asked its host while the *)
(* workload was what is told (StatusInv).  A screen past the list is about *)
(* the row it was opened on, and an answer about a workload is only kept   *)
(* while it is fresh (PickerInv).                                          *)
(***************************************************************************)
EXTENDS Discovery, Picker, StatusService, FiniteSetTheorems, SequenceTheorems, TLAPS

-----------------------------------------------------------------------------
(* Sequences by counting *)

\* The elements of a finite set of numbers, each once and in their order.
LEMMA InOrderIsSorted ==
  ASSUME NEW S \in SUBSET Nat, IsFiniteSet(S)
  PROVE  /\ InOrder(S) \in Seq(S) /\ Len(InOrder(S)) = Cardinality(S)
         /\ \A i \in S : \E k \in 1..Cardinality(S) : InOrder(S)[k] = i
         /\ \A j, k \in 1..Cardinality(S) : j < k => InOrder(S)[j] < InOrder(S)[k]
<1> DEFINE below(i) == {j \in S : j < i}
           c == Cardinality(S)
           place == [i \in S |-> Cardinality(below(i)) + 1]
<1>1. c \in Nat
  BY FS_CardinalityType
<1>2. ASSUME NEW i \in S
      PROVE  /\ IsFiniteSet(below(i)) /\ Cardinality(below(i)) \in Nat
             /\ Cardinality(below(i)) < c
  <2>1. below(i) \in SUBSET S /\ below(i) # S
    OBVIOUS
  <2> HIDE DEF below
  <2>2. IsFiniteSet(below(i)) /\ Cardinality(below(i)) <= c /\ Cardinality(below(i)) # c
    BY <2>1, FS_Subset
  <2>3. Cardinality(below(i)) \in Nat
    BY <2>2, FS_CardinalityType
  <2> QED
    BY <1>1, <2>2, <2>3
<1>3. ASSUME NEW i \in S, NEW j \in S, i < j
      PROVE  place[i] < place[j]
  <2>1. below(i) \in SUBSET below(j) /\ below(i) # below(j)
    <3>1. \A n \in S : n < i => n < j
      BY <1>3
    <3>2. i \in below(j) /\ i \notin below(i)
      BY <1>3
    <3> QED
      BY <3>1, <3>2
  <2> HIDE DEF below
  <2>2. /\ Cardinality(below(i)) <= Cardinality(below(j))
        /\ Cardinality(below(i)) # Cardinality(below(j))
    BY <1>2, <2>1, FS_Subset
  <2> QED
    BY <1>2, <2>2
<1>4. place \in Injection(S, 1..c)
  <2>1. place \in [S -> 1..c]
    BY <1>1, <1>2
  <2>2. \A i, j \in S : place[i] = place[j] => i = j
    <3> HIDE DEF place
    <3>1. \A i, j \in S : i < j \/ j < i \/ i = j
      OBVIOUS
    <3>2. \A i \in S : place[i] \in Nat
      BY <1>1, <2>1
    <3> QED
      BY <1>3, <3>1, <3>2
  <2> HIDE DEF place
  <2> QED
    BY <2>1, <2>2 DEF Injection, IsInjective
<1>5. place \in Surjection(S, 1..c)
  <2>1. IsFiniteSet(1..c) /\ Cardinality(1..c) = c
    <3>1. 1 \in Int /\ c \in Int
      BY <1>1
    <3> HIDE DEF c
    <3>2. IsFiniteSet(1..c) /\ Cardinality(1..c) = IF 1 > c THEN 0 ELSE c - 1 + 1
      BY <3>1, FS_Interval
    <3> QED
      BY <1>1, <3>2
  <2> HIDE DEF place
  <2> QED
    BY <1>4, <2>1, FS_Injection
<1>6. \A k \in 1..c : \E i \in S : Cardinality(below(i)) = k - 1
  <2> SUFFICES ASSUME NEW k \in 1..c PROVE \E i \in S : Cardinality(below(i)) = k - 1
    OBVIOUS
  <2>1. PICK i \in S : place[i] = k
    <3> HIDE DEF place
    <3> QED
      BY <1>5 DEF Surjection
  <2>2. Cardinality(below(i)) + 1 = k
    BY <2>1
  <2> HIDE DEF below
  <2> QED
    BY <1>2, <2>2
<1> DEFINE at(k) == CHOOSE i \in S : Cardinality(below(i)) = k - 1
<1>7. \A k \in 1..c : at(k) \in S /\ Cardinality(below(at(k))) = k - 1
  <2> HIDE DEF below
  <2> QED
    BY <1>6
<1>8. InOrder(S) = [k \in 1..c |-> at(k)]
  BY DEF InOrder
<1>9. \A k \in 1..c : place[at(k)] = k
  <2> SUFFICES ASSUME NEW k \in 1..c PROVE place[at(k)] = k
    OBVIOUS
  <2>1. place[at(k)] = Cardinality(below(at(k))) + 1
    BY <1>7
  <2> HIDE DEF at, below, place
  <2> QED
    BY <1>7, <2>1
<1> HIDE DEF at, below
<1>10. InOrder(S) \in Seq(S) /\ Len(InOrder(S)) = c
  <2> HIDE DEF c
  <2> QED
    BY <1>1, <1>7, <1>8
<1>11. ASSUME NEW i \in S
       PROVE  \E k \in 1..c : InOrder(S)[k] = i
  <2> HIDE DEF place
  <2>1. place[i] \in 1..c
    BY <1>4 DEF Injection
  <2>2. place[at(place[i])] = place[i] /\ at(place[i]) \in S
    BY <1>7, <1>9, <2>1
  <2>3. at(place[i]) = i
    BY <1>4, <2>2 DEF Injection, IsInjective
  <2> QED
    BY <1>8, <2>1, <2>3
<1>12. ASSUME NEW j \in 1..c, NEW k \in 1..c, j < k
       PROVE  InOrder(S)[j] < InOrder(S)[k]
  <2> HIDE DEF place
  <2>1. at(j) \in S /\ at(k) \in S /\ place[at(j)] = j /\ place[at(k)] = k
    BY <1>7, <1>9
  <2>2. ~(at(k) < at(j)) /\ at(k) # at(j)
    <3>1. at(k) < at(j) => place[at(k)] < place[at(j)]
      BY <1>3, <2>1
    <3>2. ~(k < j) /\ k # j
      BY <1>12
    <3> QED
      BY <2>1, <3>1, <3>2
  <2>3. at(j) < at(k)
    <3>1. at(j) \in Nat /\ at(k) \in Nat
      BY <2>1
    <3> QED
      BY <2>2, <3>1
  <2> QED
    BY <1>8, <2>3
<1> HIDE DEF place
<1> QED
  BY <1>10, <1>11, <1>12

\* What a sequence has at some positions.
LEMMA PositionsAreTaken ==
  ASSUME NEW T, NEW seq \in Seq(T), NEW positions \in SUBSET DOMAIN seq
  PROVE  LET taken == AtPositions(seq, positions)
         IN  /\ taken \in Seq(T)
             /\ \A k \in DOMAIN taken : \E i \in positions : taken[k] = seq[i]
             /\ \A i \in positions : \E k \in DOMAIN taken : taken[k] = seq[i]
<1> DEFINE c == Cardinality(positions)
           taken == AtPositions(seq, positions)
<1>1. DOMAIN seq = 1..Len(seq) /\ Len(seq) \in Nat
  OBVIOUS
<1>2. IsFiniteSet(positions) /\ positions \in SUBSET Nat
  <2>1. IsFiniteSet(1..Len(seq))
    BY <1>1, FS_Interval
  <2> QED
    BY <1>1, <2>1, FS_Subset
<1>3. c \in Nat
  BY <1>2, FS_CardinalityType
<1>4. /\ InOrder(positions) \in Seq(positions) /\ Len(InOrder(positions)) = c
      /\ \A i \in positions : \E k \in 1..c : InOrder(positions)[k] = i
  BY <1>2, InOrderIsSorted
<1>5. taken = [k \in 1..c |-> seq[InOrder(positions)[k]]]
  BY DEF AtPositions
<1> HIDE DEF c, taken
<1>6. \A k \in 1..c : InOrder(positions)[k] \in positions
  BY <1>4
<1>7. taken \in Seq(T)
  BY <1>1, <1>3, <1>5, <1>6
<1>8. \A i \in positions : \E k \in DOMAIN taken : taken[k] = seq[i]
  BY <1>4, <1>5
<1>9. \A k \in DOMAIN taken : \E i \in positions : taken[k] = seq[i]
  BY <1>5, <1>6
<1> QED
  BY <1>7, <1>8, <1>9 DEF taken

\* A sequence of some of these is one of these.
LEMMA Widened ==
  ASSUME NEW T, NEW S \in SUBSET T, NEW seq \in Seq(S)
  PROVE  seq \in Seq(T)
<1>1. Len(seq) \in Nat /\ seq \in [1..Len(seq) -> S]
  OBVIOUS
<1>2. seq \in [1..Len(seq) -> T]
  BY <1>1
<1> QED
  BY <1>1, <1>2

\* Two sequences, one after the other.
LEMMA Together ==
  ASSUME NEW T, NEW one \in Seq(T), NEW other \in Seq(T)
  PROVE  /\ one \o other \in Seq(T) /\ Len(one \o other) = Len(one) + Len(other)
         /\ DOMAIN (one \o other) = 1..Len(one \o other)
         /\ Len(one) \in Nat /\ Len(other) \in Nat
         /\ DOMAIN one = 1..Len(one) /\ DOMAIN other = 1..Len(other)
         /\ \A i \in 1..Len(one \o other) :
              (one \o other)[i] = IF i <= Len(one) THEN one[i] ELSE other[i - Len(one)]
OBVIOUS

-----------------------------------------------------------------------------
(* The search: types *)

Completions ==
  {"Complete", "Unavailable", "Malformed", "Error", "OutputLimit", "EntriesLimit",
   "ResultsLimit", "TimedOut"}

Outcomes == Completions \cup {"Cancelled"}

\* What a worker sends; a host is finished with a completion.
ScanReport ==
  {m \in [kind : {"repository", "rooterror", "hostfinished"}, location : Locations,
          completion : Completions \cup {"unset"}] :
     m.kind = "hostfinished" => m.completion \in Completions}

Scanner ==
  [at : {"idle", "scanning", "gone"}, location : Locations \cup {0}, allowance : Int,
   used : Nat, found : Nat, completion : Completions, todo : Seq(ScanReport), ends : BOOLEAN]

Supervisor ==
  [at : {"publishing", "returned", "recorded", "joining", "done"}, location : Locations,
   exceeded : BOOLEAN, published : Nat, overall : Outcomes]

Located(scanner) == scanner.at = "scanning" => scanner.location \in Locations

WorkersOK == worker \in [Workers -> Scanner] /\ \A w \in Workers : Located(worker[w])
SupervisorOK ==
  /\ supervisor \in Supervisor
  /\ supervisor.at = "publishing" => supervisor.overall \in Completions

SearchTypes ==
  /\ next \in Nat \ {0} /\ remaining \in Int
  /\ WorkersOK
  /\ channel \in [Locations -> ScanReport \cup {None}]
  /\ SupervisorOK
  /\ out \in Seq(ScanReport \cup {Finished})
  /\ cancelled \in BOOLEAN
  /\ completion \in Outcomes \cup {"unset"}
  /\ picker \in {"waiting", "cancelling", "cancelled", "dropped"}

-----------------------------------------------------------------------------
(* The search: what completeness rests on *)

\* cancel settles the outcome before any thread is told, and the supervisor
\* before it stops the workers.
IsSettledFirst ==
  (cancelled \/ picker # "waiting" \/ supervisor.at \in {"recorded", "joining", "done"})
    => completion # "unset"

\* Nobody decided how the run ends: it is neither cancelled nor over.
Undecided == completion = "unset" /\ supervisor.at = "publishing"

Published(m) == \E i \in DOMAIN out : out[i] = m

Concluded(l) == \E c \in Completions : Published(HostFinished(l, c))

\* How l ended is published, or waits to be.
Said(l) == channel[l].kind = "hostfinished" \/ Concluded(l)

Told == {l \in Locations : Said(l)}

\* A scan that ended says so with its last message.
EndIsSaid(scanner, reported) ==
  (scanner.at = "scanning" /\ scanner.ends) =>
    IF scanner.todo = <<>> THEN scanner.location \in reported
    ELSE scanner.todo[Len(scanner.todo)].kind = "hostfinished"

EndsAreSaid ==
  Undecided =>
    /\ \A w \in Workers : EndIsSaid(worker[w], Told)
    /\ closed \cap Locations \subseteq Told

TurnsAreOver ==
  Undecided =>
    /\ \A l \in Locations : l < supervisor.location => Concluded(l)
    /\ supervisor.overall = "Complete" =>
         \A l \in Locations, c \in Completions : Published(HostFinished(l, c)) => c = "Complete"

AllComplete == \A l \in Locations : Published(HostFinished(l, "Complete"))

CompleteIsEarned ==
  (\/ completion = "Complete"
   \/ completion = "unset" /\ supervisor.at = "returned" /\ supervisor.overall = "Complete")
    => AllComplete

SearchInv ==
  SearchTypes /\ IsSettledFirst /\ EndsAreSaid /\ TurnsAreOver /\ CompleteIsEarned

LEMMA SearchStarts == SearchInit => SearchInv
<1> SUFFICES ASSUME SearchInit PROVE SearchInv
  OBVIOUS
<1>1. Idle \in Scanner /\ Idle.at = "idle"
  BY EmptySeq DEF Idle, Scanner, Completions
<1>2. supervisor \in Supervisor /\ supervisor.location = 1
      /\ supervisor.overall = "Complete" /\ supervisor.at = "publishing"
  BY DiscoveryAssumption DEF SearchInit, Supervisor, Outcomes, Completions, Locations
<1>3. out \in Seq(ScanReport \cup {Finished}) /\ DOMAIN out = {}
  BY EmptySeq DEF SearchInit
<1>4. SearchTypes
  <2>1. WorkersOK
    BY <1>1 DEF SearchInit, WorkersOK, Located
  <2>2. SupervisorOK
    BY <1>2 DEF SupervisorOK, Completions
  <2>3. next \in Nat \ {0} /\ remaining \in Int
    BY DiscoveryAssumption DEF SearchInit
  <2> QED
    BY <1>3, <2>1, <2>2, <2>3 DEF SearchInit, SearchTypes
<1>5. \A l \in Locations : ~(l < 1)
  BY DEF Locations
<1> QED
  BY <1>1, <1>2, <1>3, <1>4, <1>5
     DEF SearchInit, SearchInv, IsSettledFirst, EndsAreSaid, EndIsSaid, TurnsAreOver,
         CompleteIsEarned, Published

-----------------------------------------------------------------------------
(* The search: workers *)

\* A step of one worker: it keeps what holds when the record it leaves behind
\* is typed, nothing that was said is lost, and an end is said.
LEMMA WorkerKeeps ==
  ASSUME SearchInv, NEW w \in Workers, NEW new \in Scanner, Located(new), Becomes(w, new),
         next' \in Nat \ {0}, remaining' \in Int,
         channel' \in [Locations -> ScanReport \cup {None}], UNCHANGED completion,
         Undecided => \A l \in Locations : channel[l].kind = "hostfinished" => channel'[l] = channel[l],
         Undecided => EndIsSaid(new, Told'),
         Undecided => (closed' \ closed) \cap Locations \subseteq Told
  PROVE  SearchInv'
<1> USE DEF SearchInv
<1>1. /\ UNCHANGED <<supervisor, out, cancelled, completion, picker, late>>
      /\ worker' = [worker EXCEPT ![w] = new]
  BY DEF Becomes
<1>2. \A m : Published(m)' <=> Published(m)
  BY <1>1 DEF Published
<1>3. \A l : Concluded(l)' <=> Concluded(l)
  BY <1>2 DEF Concluded, HostFinished
<1>4. Undecided' <=> Undecided
  BY <1>1 DEF Undecided
<1>5. Undecided => Told \subseteq Told'
  BY <1>3 DEF Told, Said
<1>6. SearchTypes'
  BY <1>1 DEF SearchTypes, WorkersOK, SupervisorOK, Located
<1>7. EndsAreSaid'
  <2> SUFFICES ASSUME Undecided
               PROVE  /\ \A v \in Workers : EndIsSaid(worker'[v], Told')
                      /\ closed' \cap Locations \subseteq Told'
    BY <1>4 DEF EndsAreSaid
  <2>1. ASSUME NEW v \in Workers, v # w
        PROVE  EndIsSaid(worker'[v], Told')
    <3>1. worker'[v] = worker[v] /\ Located(worker[v]) /\ EndIsSaid(worker[v], Told)
      BY <1>1, <2>1 DEF SearchTypes, WorkersOK, EndsAreSaid
    <3> QED
      BY <1>5, <3>1 DEF EndIsSaid, Located
  <2>2. EndIsSaid(worker'[w], Told')
    BY <1>1 DEF SearchTypes, WorkersOK
  <2>3. closed' \cap Locations \subseteq Told'
    BY <1>5 DEF EndsAreSaid
  <2> QED
    BY <2>1, <2>2, <2>3
<1>8. TurnsAreOver'
  BY <1>1, <1>2, <1>3, <1>4 DEF TurnsAreOver
<1>9. CompleteIsEarned'
  BY <1>1, <1>2 DEF CompleteIsEarned, AllComplete
<1> QED
  BY <1>1, <1>6, <1>7, <1>8, <1>9 DEF IsSettledFirst

\* The reports a scan has left to send.
LEMMA LastReports ==
  ASSUME NEW l \in Locations, NEW c \in Completions
  PROVE  /\ <<HostFinished(l, c)>> \in Seq(ScanReport)
         /\ <<HostFinished(l, c)>> # <<>>
         /\ <<HostFinished(l, c)>>[Len(<<HostFinished(l, c)>>)].kind = "hostfinished"
         /\ Repository(l) \in ScanReport /\ RootError(l) \in ScanReport /\ HostFinished(l, c) \in ScanReport
<1>1. HostFinished(l, c) \in ScanReport /\ HostFinished(l, c).kind = "hostfinished"
  BY DEF HostFinished, ScanReport
<1>2. Repository(l) = [kind |-> "repository", location |-> l, completion |-> "unset"]
      /\ RootError(l) = [kind |-> "rooterror", location |-> l, completion |-> "unset"]
  <2>1. \A kind : [None EXCEPT !.kind = kind] = [kind |-> kind, location |-> 0, completion |-> "unset"]
    BY DEF None
  <2>2. \A kind : [None EXCEPT !.kind = kind, !.location = l]
                   = [[None EXCEPT !.kind = kind] EXCEPT !.location = l]
    OBVIOUS
  <2>3. ASSUME NEW kind
        PROVE  [None EXCEPT !.kind = kind, !.location = l]
                 = [kind |-> kind, location |-> l, completion |-> "unset"]
    <3>1. [[kind |-> kind, location |-> 0, completion |-> "unset"] EXCEPT !.location = l]
            = [kind |-> kind, location |-> l, completion |-> "unset"]
      OBVIOUS
    <3> QED
      BY <2>1, <2>2, <3>1, Zenon
  <2> QED
    BY <2>3 DEF Repository, RootError
<1>3. Repository(l) \in ScanReport /\ RootError(l) \in ScanReport
  BY <1>2 DEF ScanReport
<1> HIDE DEF HostFinished
<1> QED
  BY <1>1, <1>3

LEMMA EndIsTyped ==
  ASSUME SearchInv, NEW w \in Workers, worker[w].at = "scanning", NEW c \in Completions
  PROVE  /\ Ended(w, c) \in Scanner /\ Ended(w, c).at = "scanning"
         /\ EndIsSaid(Ended(w, c), Told')
<1>1. worker[w] \in Scanner /\ worker[w].location \in Locations
  BY DEF SearchInv, SearchTypes, WorkersOK, Located
<1>2. <<HostFinished(worker[w].location, c)>> \in Seq(ScanReport)
  BY <1>1, LastReports
<1>3. Ended(w, c) \in Scanner /\ Ended(w, c).at = "scanning"
      /\ Ended(w, c).todo = <<HostFinished(worker[w].location, c)>>
  BY <1>1, <1>2 DEF Ended, Scanner
<1> QED
  BY <1>1, <1>3, LastReports DEF EndIsSaid

\* A scan that goes on, or that ends with what it has left to say.
LEMMA ScanKeeps ==
  ASSUME SearchInv, NEW w \in Workers, worker[w].at = "scanning",
         NEW new \in Scanner, new.location = worker[w].location, Scans(w, new),
         Undecided => EndIsSaid(new, Told'), UNCHANGED completion
  PROVE  SearchInv'
<1>1. Located(new) /\ next \in Nat \ {0} /\ remaining \in Int
      /\ channel \in [Locations -> ScanReport \cup {None}]
  BY DEF SearchInv, SearchTypes, WorkersOK, Located
<1> QED
  BY <1>1, WorkerKeeps DEF Scans

LEMMA EndKeeps ==
  ASSUME SearchInv, NEW w \in Workers, worker[w].at = "scanning",
         NEW c \in Completions, Scans(w, Ended(w, c))
  PROVE  SearchInv'
<1>1. Ended(w, c).location = worker[w].location /\ UNCHANGED completion
  BY DEF Ended, Scans, Becomes, SearchInv, SearchTypes, WorkersOK, Scanner
<1> QED
  BY <1>1, EndIsTyped, ScanKeeps

LEMMA TakeJobKeeps ==
  ASSUME SearchInv, NEW w \in Workers, TakeJob(w)
  PROVE  SearchInv'
<1> USE DEF SearchInv
<1>0. next \in Nat \ {0} /\ remaining \in Int /\ channel \in [Locations -> ScanReport \cup {None}]
      /\ LocationCount \in Nat
  BY DiscoveryAssumption DEF SearchTypes
<1>1. Idle \in Scanner /\ Idle.at = "idle" /\ Idle.ends = FALSE
  BY EmptySeq DEF Idle, Scanner, Completions
<1>2. CASE cancelled \/ next > LocationCount
  <2> DEFINE new == [Idle EXCEPT !.at = "gone"]
  <2>1. new \in Scanner /\ new.at = "gone"
    BY <1>1 DEF Scanner
  <2>2. Leaves(w)
    BY <1>2 DEF TakeJob
  <2>3. Becomes(w, new) /\ UNCHANGED <<next, remaining, channel, completion>>
    BY <2>2 DEF Leaves, Becomes
  <2>4. Undecided => next > LocationCount
    BY <1>2 DEF IsSettledFirst, Undecided
  <2>5. Undecided => (closed' \ closed) \cap Locations = {}
    BY <1>0, <2>2, <2>4 DEF Leaves, Locations
  <2>6. Located(new) /\ EndIsSaid(new, Told')
    BY <2>1 DEF Located, EndIsSaid
  <2> HIDE DEF new
  <2> QED
    BY <1>0, <2>1, <2>3, <2>5, <2>6, WorkerKeeps
<1>3. CASE ~(cancelled \/ next > LocationCount)
  <2> DEFINE share == Reserve(LocationCount - next + 1)
             new == [Idle EXCEPT !.at = "scanning", !.location = next, !.allowance = share]
  <2>1. share \in Int
    BY <1>0, <1>3 DEF Reserve
  <2>2. next \in Locations
    BY <1>0, <1>3 DEF Locations
  <2>3. next' = next + 1 /\ remaining' = remaining - share /\ Becomes(w, new)
        /\ UNCHANGED <<channel, closed, completion>>
    BY <1>3 DEF TakeJob, Becomes
  <2> HIDE DEF share
  <2>4. new \in Scanner /\ new.location = next /\ new.ends = FALSE
    BY <1>1, <2>1, <2>2 DEF Scanner
  <2>5. Located(new) /\ EndIsSaid(new, Told')
    BY <2>2, <2>4 DEF Located, EndIsSaid
  <2> HIDE DEF new
  <2>6. next' \in Nat \ {0} /\ remaining' \in Int
    BY <1>0, <2>1, <2>3
  <2> QED
    BY <1>0, <2>3, <2>4, <2>5, <2>6, WorkerKeeps
<1> QED
  BY <1>2, <1>3

LEMMA SendsKeeps ==
  ASSUME SearchInv, NEW w \in Workers, Sends(w)
  PROVE  SearchInv'
<1> USE DEF SearchInv
<1> DEFINE l == worker[w].location
           givesUp == cancelled \/ Disconnected
           rest == IF givesUp THEN <<>> ELSE Tail(worker[w].todo)
           new == [worker[w] EXCEPT !.todo = rest]
<1>0. next \in Nat \ {0} /\ remaining \in Int /\ channel \in [Locations -> ScanReport \cup {None}]
      /\ worker[w] \in Scanner /\ worker[w].at = "scanning" /\ l \in Locations
  BY DEF SearchTypes, WorkersOK, Located, Sends
<1>1. worker[w].todo \in Seq(ScanReport) /\ worker[w].todo # <<>>
  BY <1>0 DEF Sends, Scanner
<1>2. Head(worker[w].todo) \in ScanReport /\ rest \in Seq(ScanReport)
  BY <1>1, EmptySeq, HeadTailProperties
<1>3. new \in Scanner /\ new.at = "scanning" /\ new.location = l /\ new.todo = rest
      /\ new.ends = worker[w].ends
  BY <1>0, <1>2 DEF Scanner
<1>4. /\ Becomes(w, new)
      /\ UNCHANGED <<next, remaining, closed, completion>>
      /\ givesUp \/ channel[l] = None
      /\ channel' = (IF givesUp THEN channel ELSE [channel EXCEPT ![l] = Head(worker[w].todo)])
  BY DEF Sends, Becomes
<1>5. channel' \in [Locations -> ScanReport \cup {None}]
  BY <1>0, <1>2, <1>4
<1>6. Undecided => ~givesUp
  BY DEF IsSettledFirst, Undecided, Disconnected
<1>7. Undecided =>
        \A k \in Locations : channel[k].kind = "hostfinished" => channel'[k] = channel[k]
  BY <1>0, <1>4, <1>6 DEF None
<1>8. Undecided => EndIsSaid(new, Told')
  <2> SUFFICES ASSUME Undecided, worker[w].ends
               PROVE  IF rest = <<>> THEN l \in Told' ELSE rest[Len(rest)].kind = "hostfinished"
    BY <1>3 DEF EndIsSaid
  <2>1. worker[w].todo[Len(worker[w].todo)].kind = "hostfinished"
    BY <1>0, <1>1 DEF EndsAreSaid, EndIsSaid
  <2>2. rest = Tail(worker[w].todo) /\ channel'[l] = Head(worker[w].todo)
    BY <1>0, <1>4, <1>6
  <2>3. Len(rest) = Len(worker[w].todo) - 1
        /\ \A i \in 1 .. Len(rest) : rest[i] = worker[w].todo[i + 1]
    BY <1>1, <2>2, HeadTailProperties
  <2>4. CASE rest = <<>>
    <3>1. Len(worker[w].todo) = 1
      <4>1. Len(rest) = 0
        BY <2>4, EmptySeq
      <4>2. Len(worker[w].todo) \in Nat
        BY <1>1
      <4> HIDE DEF rest
      <4> QED
        BY <2>3, <4>1, <4>2
    <3> QED
      BY <1>0, <2>1, <2>2, <2>4, <3>1 DEF Told, Said
  <2>5. CASE rest # <<>>
    <3>1. Len(rest) \in 1 .. Len(rest)
      BY <1>2, <2>5, EmptySeq
    <3>2. rest[Len(rest)] = worker[w].todo[Len(worker[w].todo)]
      BY <1>1, <2>3, <3>1
    <3> QED
      BY <2>1, <2>5, <3>2
  <2> QED
    BY <2>4, <2>5
<1>9. Located(new)
  BY <1>0, <1>3 DEF Located
<1>10. next' \in Nat \ {0} /\ remaining' \in Int /\ UNCHANGED completion /\ Becomes(w, new)
       /\ (closed' \ closed) \cap Locations \subseteq Told
  BY <1>0, <1>4
<1> HIDE DEF new, l, rest, givesUp
<1> QED
  BY <1>3, <1>5, <1>7, <1>8, <1>9, <1>10, WorkerKeeps, Zenon

LEMMA EndsJobKeeps ==
  ASSUME SearchInv, NEW w \in Workers, EndsJob(w)
  PROVE  SearchInv'
<1>1. next \in Nat \ {0} /\ remaining \in Int /\ channel \in [Locations -> ScanReport \cup {None}]
  BY DEF SearchInv, SearchTypes
<1>2. Idle \in Scanner /\ Located(Idle) /\ EndIsSaid(Idle, Told')
  BY EmptySeq DEF Idle, Scanner, Completions, Located, EndIsSaid
<1>3. Undecided => worker[w].location \in Told
  BY DEF SearchInv, EndsAreSaid, EndIsSaid, EndsJob
<1>4. Becomes(w, Idle) /\ closed' = closed \cup {worker[w].location}
      /\ UNCHANGED <<next, remaining, channel, completion>>
  BY DEF EndsJob, Becomes
<1>5. next' \in Nat \ {0} /\ remaining' \in Int
      /\ channel' \in [Locations -> ScanReport \cup {None}] /\ UNCHANGED completion
  BY <1>1, <1>4
<1>6. /\ Undecided =>
           \A l \in Locations : channel[l].kind = "hostfinished" => channel'[l] = channel[l]
      /\ Undecided => EndIsSaid(Idle, Told')
      /\ Undecided => (closed' \ closed) \cap Locations \subseteq Told
  BY <1>2, <1>3, <1>4
<1>7. Becomes(w, Idle) /\ Idle \in Scanner /\ Located(Idle)
  BY <1>2, <1>4
<1> QED
  BY <1>5, <1>6, <1>7, WorkerKeeps, Zenon

LEMMA StopsLocalKeeps ==
  ASSUME SearchInv, NEW w \in Workers, StopsLocal(w)
  PROVE  SearchInv'
<1>1. worker[w] \in Scanner /\ worker[w].at = "scanning" /\ worker[w].completion \in Completions
  BY DEF SearchInv, SearchTypes, WorkersOK, StopsLocal, LocalScanning, Scanning, Scanner
<1>2. CASE cancelled /\ Scans(w, [worker[w] EXCEPT !.ends = TRUE])
  <2> DEFINE new == [worker[w] EXCEPT !.ends = TRUE]
  <2>1. new \in Scanner /\ new.location = worker[w].location
    BY <1>1 DEF Scanner
  <2>2. ~Undecided /\ UNCHANGED completion
    BY <1>2 DEF SearchInv, IsSettledFirst, Undecided, Scans, Becomes
  <2>3. Scans(w, new)
    BY <1>2
  <2> HIDE DEF new
  <2> QED
    BY <1>1, <2>1, <2>2, <2>3, ScanKeeps
<1>3. CASE \E c \in Completions : Scans(w, Ended(w, c))
  BY <1>1, <1>3, EndKeeps
<1> QED
  BY <1>1, <1>2, <1>3 DEF StopsLocal, Completions

LEMMA VisitsLocalKeeps ==
  ASSUME SearchInv, NEW w \in Workers, VisitsLocal(w), ~worker[w].ends
  PROVE  SearchInv'
<1> DEFINE l == worker[w].location
           seen == [worker[w] EXCEPT !.used = @ + 1]
<1>1. /\ worker[w] \in Scanner /\ worker[w].at = "scanning" /\ l \in Locations
      /\ worker[w].todo = <<>>
  BY DEF SearchInv, SearchTypes, WorkersOK, VisitsLocal, LocalScanning, Scanning, Located
<1>2. /\ seen \in Scanner /\ seen.at = "scanning" /\ seen.location = l
      /\ ~seen.ends /\ seen.todo = <<>> /\ seen.found \in Nat
  BY <1>1 DEF Scanner
<1> HIDE DEF seen
\* What it leaves behind does not end, or ends with what it says.
<1>3. ASSUME NEW new \in Scanner, new.location = l, Scans(w, new), EndIsSaid(new, Told')
      PROVE  SearchInv'
  <2>1. UNCHANGED completion
    BY <1>3 DEF Scans, Becomes
  <2> QED
    BY <1>1, <1>3, <2>1, ScanKeeps
<1>4. CASE Scans(w, seen)
  BY <1>2, <1>3, <1>4 DEF EndIsSaid
<1>5. CASE Scans(w, [seen EXCEPT !.completion = "Error"])
  <2> DEFINE new == [seen EXCEPT !.completion = "Error"]
  <2>1. new \in Scanner /\ new.location = l /\ ~new.ends
    BY <1>2 DEF Scanner, Completions
  <2>2. Scans(w, new)
    BY <1>5
  <2> HIDE DEF new
  <2> QED
    BY <1>3, <2>1, <2>2 DEF EndIsSaid
<1>6. CASE Scans(w, [seen EXCEPT !.completion = "Error",
                     !.todo = <<RootError(l), HostFinished(l, "Error")>>, !.ends = TRUE])
  <2> DEFINE todo == <<RootError(l), HostFinished(l, "Error")>>
             new == [seen EXCEPT !.completion = "Error", !.todo = todo, !.ends = TRUE]
  <2>1. "Error" \in Completions
    BY DEF Completions
  <2>2. /\ todo \in Seq(ScanReport) /\ todo # <<>>
        /\ todo[Len(todo)].kind = "hostfinished"
    <3>1. RootError(l) \in ScanReport /\ HostFinished(l, "Error") \in ScanReport
      BY <1>1, <2>1, LastReports
    <3>2. HostFinished(l, "Error").kind = "hostfinished"
      BY DEF HostFinished
    <3> QED
      BY <3>1, <3>2
  <2>3. Scans(w, new)
    BY <1>6
  <2> HIDE DEF todo
  <2>4. new \in Scanner /\ new.location = l /\ new.todo = todo
    <3> DEFINE u == [seen EXCEPT !.completion = "Error"]
               v == [u EXCEPT !.todo = todo]
    <3>1. u \in Scanner /\ u.location = l
      BY <1>2, <2>1 DEF Scanner
    <3> HIDE DEF u
    <3>2. v \in Scanner /\ v.location = l /\ v.todo = todo
      BY <2>2, <3>1 DEF Scanner
    <3> HIDE DEF v
    <3>3. new = [v EXCEPT !.ends = TRUE]
      BY Zenon DEF u, v
    <3>4. [v EXCEPT !.ends = TRUE] \in Scanner /\ [v EXCEPT !.ends = TRUE].location = l
          /\ [v EXCEPT !.ends = TRUE].todo = todo
      BY <3>2 DEF Scanner
    <3> QED
      BY <3>3, <3>4, Zenon
  <2> HIDE DEF new
  <2>5. EndIsSaid(new, Told')
    BY <2>2, <2>4 DEF EndIsSaid
  <2> QED
    BY <1>3, <2>3, <2>4, <2>5
<1>7. CASE Scans(w, [seen EXCEPT !.completion = "ResultsLimit"])
  <2> DEFINE new == [seen EXCEPT !.completion = "ResultsLimit"]
  <2>1. new \in Scanner /\ new.location = l /\ ~new.ends
    BY <1>2 DEF Scanner, Completions
  <2>2. Scans(w, new)
    BY <1>7
  <2> HIDE DEF new
  <2> QED
    BY <1>3, <2>1, <2>2 DEF EndIsSaid
<1>8. CASE Scans(w, [seen EXCEPT !.found = @ + 1, !.todo = <<Repository(l)>>])
  <2> DEFINE todo == <<Repository(l)>>
             new == [seen EXCEPT !.found = @ + 1, !.todo = todo]
  <2>1. "Error" \in Completions
    BY DEF Completions
  <2>2. todo \in Seq(ScanReport)
    BY <1>1, <2>1, LastReports
  <2>3. Scans(w, new)
    BY <1>8
  <2> HIDE DEF todo
  <2>4. new \in Scanner /\ new.location = l /\ ~new.ends
    <3> DEFINE u == [seen EXCEPT !.found = @ + 1]
    <3>1. u \in Scanner /\ u.location = l /\ ~u.ends
      BY <1>2 DEF Scanner
    <3>2. new = [u EXCEPT !.todo = todo]
      BY Zenon
    <3> HIDE DEF u
    <3>3. /\ [u EXCEPT !.todo = todo] \in Scanner
          /\ [u EXCEPT !.todo = todo].location = l /\ ~[u EXCEPT !.todo = todo].ends
      BY <2>2, <3>1 DEF Scanner
    <3> QED
      BY <3>2, <3>3, Zenon
  <2> HIDE DEF new
  <2> QED
    BY <1>3, <2>3, <2>4 DEF EndIsSaid
<1> QED
  BY <1>4, <1>5, <1>6, <1>7, <1>8 DEF VisitsLocal, seen

LEMMA ScansRemoteKeeps ==
  ASSUME SearchInv, NEW w \in Workers, ScansRemote(w)
  PROVE  SearchInv'
<1> DEFINE l == worker[w].location
<1>1. worker[w] \in Scanner /\ worker[w].at = "scanning" /\ l \in Locations
  BY DEF SearchInv, SearchTypes, WorkersOK, ScansRemote, Scanning, Located
<1>2. CASE cancelled /\ Scans(w, [worker[w] EXCEPT !.ends = TRUE])
  <2> DEFINE new == [worker[w] EXCEPT !.ends = TRUE]
  <2>1. new \in Scanner /\ new.location = worker[w].location
    BY <1>1 DEF Scanner
  <2>2. ~Undecided /\ UNCHANGED completion
    BY <1>2 DEF SearchInv, IsSettledFirst, Undecided, Scans, Becomes
  <2>3. Scans(w, new)
    BY <1>2
  <2> HIDE DEF new
  <2> QED
    BY <1>1, <2>1, <2>2, <2>3, ScanKeeps
<1>3. CASE \E c \in Completions : Scans(w, Ended(w, c))
  BY <1>1, <1>3, EndKeeps
<1>4. ASSUME NEW output \in ScriptOutputs(worker[w].allowance),
             Scans(w, [worker[w] EXCEPT !.ends = TRUE,
                         !.todo = [i \in 1 .. output.found |-> Repository(l)]
                                    \o <<HostFinished(l, Parsed(output))>>])
      PROVE  SearchInv'
  <2> DEFINE found == [i \in 1 .. output.found |-> Repository(l)]
             last == <<HostFinished(l, Parsed(output))>>
             todo == found \o last
             new == [worker[w] EXCEPT !.ends = TRUE, !.todo = todo]
  <2>1. output.found \in Nat
    BY <1>4 DEF ScriptOutputs
  <2>2. Parsed(output) \in Completions
    BY DEF Parsed, Completions
  <2>3. Repository(l) \in ScanReport /\ last \in Seq(ScanReport) /\ Len(last) = 1
        /\ last[1].kind = "hostfinished"
    BY <1>1, <2>2, LastReports DEF HostFinished
  <2>4. found \in Seq(ScanReport)
    BY <2>1, <2>3
  <2> HIDE DEF found, last
  <2>5. /\ todo \in Seq(ScanReport) /\ Len(todo) = Len(found) + 1
        /\ todo[Len(found) + 1] = last[1]
    <3>1. /\ todo \in Seq(ScanReport) /\ Len(todo) = Len(found) + Len(last)
          /\ \A i \in 1 .. Len(found) + Len(last) :
               todo[i] = IF i <= Len(found) THEN found[i] ELSE last[i - Len(found)]
      BY <2>3, <2>4, ConcatProperties
    <3>2. Len(found) \in Nat
      BY <2>4
    <3> HIDE DEF todo
    <3> QED
      BY <2>3, <3>1, <3>2
  <2>6. todo # <<>> /\ todo[Len(todo)].kind = "hostfinished"
    <3>1. Len(found) \in Nat
      BY <2>4
    <3> HIDE DEF todo
    <3> QED
      BY <2>3, <2>5, <3>1, EmptySeq
  <2>7. Scans(w, new)
    BY <1>4 DEF found, last
  <2> HIDE DEF todo
  <2>8. new \in Scanner /\ new.location = l /\ new.todo = todo
    BY <1>1, <2>5 DEF Scanner
  <2> HIDE DEF new
  <2>9. EndIsSaid(new, Told') /\ UNCHANGED completion
    BY <2>6, <2>7, <2>8 DEF EndIsSaid, Scans, Becomes
  <2> QED
    BY <1>1, <2>7, <2>8, <2>9, ScanKeeps
<1> QED
  BY <1>2, <1>3, <1>4 DEF ScansRemote, Completions

LEMMA WorkerStepKeeps ==
  ASSUME SearchInv, NEW w \in Workers, WorkerStep(w)
  PROVE  SearchInv'
<1>1. CASE NoAllowance(w)
  BY <1>1, EndKeeps DEF NoAllowance, Scanning, Completions
<1> QED
  BY <1>1, TakeJobKeeps, SendsKeeps, EndsJobKeeps, StopsLocalKeeps, VisitsLocalKeeps,
     ScansRemoteKeeps DEF WorkerStep

-----------------------------------------------------------------------------
(* The search: the supervisor, the picker and the clock *)

\* What was published stays published.
LEMMA Publishing ==
  ASSUME SearchTypes, NEW m \in ScanReport \cup {Finished}, out' = Append(out, m)
  PROVE  /\ out' \in Seq(ScanReport \cup {Finished})
         /\ \A n : Published(n)' <=> (Published(n) \/ n = m)
<1>1. /\ out \in Seq(ScanReport \cup {Finished}) /\ Len(out) \in Nat
      /\ DOMAIN out = 1 .. Len(out)
  BY DEF SearchTypes
<1>2. /\ out' \in Seq(ScanReport \cup {Finished})
      /\ Len(out') = Len(out) + 1 /\ DOMAIN out' = 1 .. Len(out) + 1
      /\ \A i \in 1 .. Len(out) : out'[i] = out[i]
      /\ out'[Len(out) + 1] = m
  BY <1>1, AppendProperties
<1>3. ASSUME NEW n PROVE Published(n)' <=> (Published(n) \/ n = m)
  <2>1. Published(n)' <=> \E i \in 1 .. Len(out) + 1 : out'[i] = n
    BY <1>2 DEF Published
  <2>2. Published(n) <=> \E i \in 1 .. Len(out) : out[i] = n
    BY <1>1 DEF Published
  <2>3. \A i \in 1 .. Len(out) + 1 : i \in 1 .. Len(out) \/ i = Len(out) + 1
    BY <1>1
  <2>4. Len(out) + 1 \in 1 .. Len(out) + 1 /\ 1 .. Len(out) \subseteq 1 .. Len(out) + 1
    BY <1>1
  <2> QED
    BY <1>2, <2>1, <2>2, <2>3, <2>4
<1> QED
  BY <1>2, <1>3

\* Once the run is decided, only what is published matters, and it stays.
LEMMA DecidedKeeps ==
  ASSUME SearchInv, SearchTypes', IsSettledFirst', ~Undecided',
         \A m : Published(m) => Published(m)',
         completion' = "Complete" => completion = "Complete",
         completion' = "unset" =>
           (supervisor'.at = "returned" /\ supervisor'.overall = "Complete" => AllComplete)
  PROVE  SearchInv'
BY DEF SearchInv, EndsAreSaid, TurnsAreOver, CompleteIsEarned, AllComplete

LEMMA WorkersStay ==
  ASSUME SearchInv, UNCHANGED <<worker, closed>>, Undecided, Undecided', Told \subseteq Told'
  PROVE  EndsAreSaid'
<1>1. ASSUME NEW w \in Workers
      PROVE  EndIsSaid(worker[w], Told')
  BY DEF SearchInv, EndsAreSaid, EndIsSaid
<1> QED
  BY <1>1 DEF SearchInv, EndsAreSaid

LEMMA LessSignificant ==
  ASSUME NEW a \in Completions, NEW b \in Completions
  PROVE  /\ MoreSignificant(a, b) \in Completions
         /\ MoreSignificant(a, b) = "Complete" => a = "Complete" /\ b = "Complete"
<1>1. \A c \in Completions : Priority[c] \in Nat /\ (Priority[c] <= 0 => c = "Complete")
  BY DEF Priority, Completions
<1>2. Priority["Complete"] = 0
  BY DEF Priority
<1> QED
  BY <1>1, <1>2 DEF MoreSignificant

\* A message the picker gets: a repository or an unreadable root.
LEMMA ReceivesOther ==
  ASSUME SearchInv, NEW m \in ScanReport, m.kind # "hostfinished", ~cancelled,
         channel[supervisor.location] = m, supervisor.at = "publishing",
         channel' = [channel EXCEPT ![supervisor.location] = None],
         out' = Append(out, m) \/ UNCHANGED out,
         supervisor' \in Supervisor, supervisor'.at = "publishing",
         supervisor'.location = supervisor.location, supervisor'.overall = supervisor.overall,
         UNCHANGED <<next, remaining, worker, closed, cancelled, completion, picker, late>>
  PROVE  SearchInv'
<1> USE DEF SearchInv
<1>1. /\ out' \in Seq(ScanReport \cup {Finished})
      /\ \A n : Published(n) => Published(n)'
      /\ \A n : n.kind = "hostfinished" => (Published(n)' => Published(n))
  <2>1. CASE out' = Append(out, m)
    BY <2>1, Publishing
  <2>2. CASE UNCHANGED out
    BY <2>2 DEF SearchTypes, Published
  <2> QED
    BY <2>1, <2>2
<1>2. SearchTypes'
  BY <1>1 DEF SearchTypes, WorkersOK, SupervisorOK, Located
<1>3. IsSettledFirst'
  BY DEF IsSettledFirst
<1>4. \A l \in Locations, c \in Completions :
        Published(HostFinished(l, c))' <=> Published(HostFinished(l, c))
  <2>1. \A l, c : HostFinished(l, c).kind = "hostfinished"
    BY DEF HostFinished
  <2> QED
    BY <1>1, <2>1, Zenon
<1>5. Undecided' <=> Undecided
  BY DEF Undecided
<1>6. \A l \in Locations : Concluded(l)' <=> Concluded(l)
  BY <1>4 DEF Concluded
<1>7. Told \subseteq Told'
  BY <1>6 DEF Told, Said, SearchTypes
<1>8. EndsAreSaid'
  BY <1>5, <1>7, WorkersStay DEF EndsAreSaid
<1>9. TurnsAreOver'
  BY <1>4, <1>5, <1>6 DEF TurnsAreOver
<1>10. CompleteIsEarned'
  <2>1. AllComplete => AllComplete'
    BY <1>1 DEF AllComplete
  <2> QED
    BY <2>1 DEF CompleteIsEarned
<1> QED
  BY <1>2, <1>3, <1>8, <1>9, <1>10

\* The message that a location is over, which the picker gets.
LEMMA ReceivesEnd ==
  ASSUME SearchInv, supervisor.at = "publishing", NEW c \in Completions,
         channel' = [channel EXCEPT ![supervisor.location] = None],
         out' = Append(out, HostFinished(supervisor.location, c)),
         supervisor' = [supervisor EXCEPT !.overall = MoreSignificant(@, c)],
         UNCHANGED <<next, remaining, worker, closed, cancelled, completion, picker, late>>
  PROVE  SearchInv'
<1> USE DEF SearchInv
<1> DEFINE l == supervisor.location
<1>0. l \in Locations /\ supervisor \in Supervisor /\ supervisor.overall \in Completions
  BY DEF SearchTypes, SupervisorOK, Supervisor
<1>1. HostFinished(l, c) \in ScanReport
  BY <1>0, LastReports
<1>2. out' \in Seq(ScanReport \cup {Finished})
      /\ \A n : Published(n)' <=> (Published(n) \/ n = HostFinished(l, c))
  BY <1>1, Publishing
<1>3. /\ supervisor' \in Supervisor /\ supervisor'.at = "publishing"
      /\ supervisor'.location = l
      /\ supervisor'.overall = MoreSignificant(supervisor.overall, c)
      /\ supervisor'.overall \in Completions
  BY <1>0, LessSignificant DEF Supervisor, Outcomes
<1>4. SearchTypes'
  BY <1>2, <1>3 DEF SearchTypes, WorkersOK, SupervisorOK, Located
<1>5. IsSettledFirst'
  BY <1>3 DEF IsSettledFirst
<1>6. Undecided' <=> Undecided
  BY <1>3 DEF Undecided
<1>7. \A k \in Locations : Concluded(k) => Concluded(k)'
  BY <1>2 DEF Concluded
<1>8. Concluded(l)'
  BY <1>2 DEF Concluded
<1>9. Told \subseteq Told'
  BY <1>7, <1>8 DEF Told, Said, SearchTypes
<1>10. EndsAreSaid'
  BY <1>6, <1>9, WorkersStay DEF EndsAreSaid
<1>11. TurnsAreOver'
  <2>1. ASSUME Undecided, NEW k \in Locations, k < supervisor'.location
        PROVE  Concluded(k)'
    BY <1>3, <1>7, <2>1 DEF TurnsAreOver
  <2>2. ASSUME Undecided, supervisor'.overall = "Complete", NEW k \in Locations,
               NEW d \in Completions, Published(HostFinished(k, d))'
        PROVE  d = "Complete"
    <3>1. supervisor.overall = "Complete" /\ c = "Complete"
      BY <1>0, <1>3, <2>2, LessSignificant
    <3>2. Published(HostFinished(k, d)) \/ HostFinished(k, d) = HostFinished(l, c)
      BY <1>2, <2>2
    <3>3. HostFinished(k, d) = HostFinished(l, c) => d = c
      BY DEF HostFinished
    <3> QED
      BY <2>2, <3>1, <3>2, <3>3 DEF TurnsAreOver
  <2> QED
    BY <1>6, <2>1, <2>2 DEF TurnsAreOver
<1>12. CompleteIsEarned'
  <2>1. AllComplete => AllComplete'
    BY <1>2 DEF AllComplete
  <2> QED
    BY <1>3, <2>1 DEF CompleteIsEarned
<1> QED
  BY <1>4, <1>5, <1>10, <1>11, <1>12

\* A run that returns is cancelled or dropped, or has an outcome of its own.
LEMMA ReturnKeeps ==
  ASSUME SearchInv, NEW outcome \in Outcomes, Returns(outcome), UNCHANGED out,
         channel' \in [Locations -> ScanReport \cup {None}],
         completion = "unset" /\ outcome = "Complete" => AllComplete,
         UNCHANGED <<next, remaining, worker, closed, cancelled, completion, picker, late>>
  PROVE  SearchInv'
<1> USE DEF SearchInv
<1>1. supervisor' \in Supervisor /\ supervisor'.at = "returned" /\ supervisor'.overall = outcome
  BY DEF Returns, Supervisor, SearchTypes, SupervisorOK
<1>2. SearchTypes'
  BY <1>1 DEF SearchTypes, WorkersOK, SupervisorOK, Located
<1>3. IsSettledFirst' /\ ~Undecided'
  BY <1>1 DEF IsSettledFirst, Undecided
<1>4. \A m : Published(m) => Published(m)'
  BY DEF Published
<1> QED
  BY <1>1, <1>2, <1>3, <1>4, DecidedKeeps

LEMMA ReceivesKeeps ==
  ASSUME SearchInv, Receives
  PROVE  SearchInv'
<1> DEFINE l == supervisor.location
           m == channel[l]
           c == IF supervisor.exceeded THEN "ResultsLimit" ELSE m.completion
<1>1. /\ supervisor.at = "publishing" /\ m # None
      /\ channel' = [channel EXCEPT ![l] = None]
      /\ UNCHANGED <<next, remaining, worker, closed, cancelled, completion, picker, late>>
      /\ \/ cancelled /\ Returns("Cancelled") /\ UNCHANGED out
         \/ ~cancelled /\ m.kind = "repository" /\ PublishesResult(m)
         \/ /\ ~cancelled /\ m.kind = "hostfinished"
            /\ \/ /\ picker = "dropped" /\ UNCHANGED out
                  /\ Returns(MoreSignificant(supervisor.overall, c))
               \/ /\ picker # "dropped"
                  /\ out' = Append(out, HostFinished(l, c))
                  /\ supervisor' = [supervisor EXCEPT !.overall = MoreSignificant(@, c)]
         \/ m.kind # "hostfinished" /\ ~cancelled /\ Publishes(m, supervisor)
  BY DEF Receives, Turn
<1>2. /\ l \in Locations /\ m \in ScanReport /\ supervisor \in Supervisor
      /\ supervisor.overall \in Completions
  BY <1>1 DEF SearchInv, SearchTypes, SupervisorOK, Supervisor
<1>3. channel' \in [Locations -> ScanReport \cup {None}]
  BY <1>1 DEF SearchInv, SearchTypes
<1>4. ASSUME m.kind = "hostfinished" PROVE c \in Completions
  BY <1>2, <1>4 DEF ScanReport, Completions
<1>5. picker = "dropped" => completion # "unset"
  BY DEF SearchInv, IsSettledFirst
<1>6. cancelled => completion # "unset"
  BY DEF SearchInv, IsSettledFirst
<1> HIDE DEF c, m, l
<1>7. CASE cancelled /\ Returns("Cancelled") /\ UNCHANGED out
  BY <1>1, <1>3, <1>6, <1>7, ReturnKeeps DEF Outcomes
<1>8. ASSUME ~cancelled, m.kind # "hostfinished", Publishes(m, supervisor)
      PROVE  SearchInv'
  <2>1. CASE picker = "dropped"
    BY <1>1, <1>2, <1>3, <1>5, <1>8, <2>1, ReturnKeeps DEF Publishes, Outcomes
  <2>2. CASE picker # "dropped"
    <3>1. out' = Append(out, m) /\ supervisor' = supervisor
      BY <1>8, <2>2 DEF Publishes
    <3> QED
      BY <1>1, <1>2, <1>8, <3>1, ReceivesOther DEF m, l
  <2> QED
    BY <2>1, <2>2
<1>9. ASSUME ~cancelled, m.kind = "repository", PublishesResult(m)
      PROVE  SearchInv'
  <2>1. CASE picker = "dropped" /\ supervisor.published < MaxResults
    BY <1>1, <1>2, <1>3, <1>5, <1>9, <2>1, ReturnKeeps DEF PublishesResult, Publishes, Outcomes
  <2>2. CASE picker # "dropped" /\ supervisor.published < MaxResults
    <3>1. out' = Append(out, m) /\ supervisor' = [supervisor EXCEPT !.published = @ + 1]
      BY <1>9, <2>2 DEF PublishesResult, Publishes
    <3>2. /\ supervisor' \in Supervisor /\ supervisor'.at = "publishing"
          /\ supervisor'.location = supervisor.location /\ supervisor'.overall = supervisor.overall
      BY <1>1, <1>2, <3>1 DEF Supervisor
    <3> QED
      BY <1>1, <1>2, <1>9, <3>1, <3>2, ReceivesOther DEF m, l
  <2>3. CASE ~(supervisor.published < MaxResults)
    <3>1. UNCHANGED out /\ supervisor' = [supervisor EXCEPT !.exceeded = TRUE]
      BY <1>9, <2>3 DEF PublishesResult
    <3>2. /\ supervisor' \in Supervisor /\ supervisor'.at = "publishing"
          /\ supervisor'.location = supervisor.location /\ supervisor'.overall = supervisor.overall
      BY <1>1, <1>2, <3>1 DEF Supervisor
    <3> QED
      BY <1>1, <1>2, <1>9, <3>1, <3>2, ReceivesOther DEF m, l
  <2> QED
    BY <2>1, <2>2, <2>3
<1>10. CASE /\ ~cancelled /\ m.kind = "hostfinished" /\ picker = "dropped" /\ UNCHANGED out
            /\ Returns(MoreSignificant(supervisor.overall, c))
  <2>1. MoreSignificant(supervisor.overall, c) \in Outcomes
    BY <1>2, <1>4, <1>10, LessSignificant DEF Outcomes
  <2> QED
    BY <1>1, <1>3, <1>5, <1>10, <2>1, ReturnKeeps
<1>11. CASE /\ ~cancelled /\ m.kind = "hostfinished"
            /\ out' = Append(out, HostFinished(l, c))
            /\ supervisor' = [supervisor EXCEPT !.overall = MoreSignificant(@, c)]
  BY <1>1, <1>4, <1>11, ReceivesEnd DEF l
<1> QED
  BY <1>1, <1>7, <1>8, <1>9, <1>10, <1>11

LEMMA NextLocationKeeps ==
  ASSUME SearchInv, NextLocation
  PROVE  SearchInv'
<1> USE DEF SearchInv
<1> DEFINE l == supervisor.location
<1>1. /\ supervisor.at = "publishing" /\ l \in closed /\ channel[l] = None
      /\ UNCHANGED <<next, remaining, worker, channel, closed, out, cancelled, completion,
                     picker, late>>
  BY DEF NextLocation
<1>2. /\ l \in Locations /\ supervisor \in Supervisor /\ supervisor.overall \in Completions
      /\ channel \in [Locations -> ScanReport \cup {None}] /\ LocationCount \in Nat \ {0}
  BY <1>1, DiscoveryAssumption DEF SearchTypes, SupervisorOK, Supervisor
\* How the location ended was said, and nothing waits in its channel.
<1>3. Undecided => Concluded(l)
  BY <1>1, <1>2 DEF EndsAreSaid, Told, Said, None
<1>4. Undecided => \A k \in Locations : k < l \/ k = l => Concluded(k)
  BY <1>3 DEF TurnsAreOver
<1>5. CASE supervisor.exceeded /\ Returns("ResultsLimit")
  BY <1>1, <1>2, <1>5, ReturnKeeps DEF Outcomes, Completions
<1>6. CASE l = LocationCount /\ Returns(supervisor.overall)
  <2>1. completion = "unset" /\ supervisor.overall = "Complete" => AllComplete
    <3> SUFFICES ASSUME completion = "unset", supervisor.overall = "Complete", NEW k \in Locations
                 PROVE  Published(HostFinished(k, "Complete"))
      BY DEF AllComplete
    <3>1. Undecided
      BY <1>1 DEF Undecided
    <3>2. k < l \/ k = l
      BY <1>2, <1>6 DEF Locations
    <3>3. PICK c \in Completions : Published(HostFinished(k, c))
      BY <1>4, <3>1, <3>2 DEF Concluded
    <3> QED
      BY <3>1, <3>3 DEF TurnsAreOver
  <2> QED
    BY <1>1, <1>2, <1>6, <2>1, ReturnKeeps DEF Outcomes
<1>7. CASE l # LocationCount /\ supervisor' = [supervisor EXCEPT !.location = @ + 1]
  <2>1. l + 1 \in Locations
    BY <1>2, <1>7 DEF Locations
  <2>2. /\ supervisor' \in Supervisor /\ supervisor'.at = "publishing"
        /\ supervisor'.location = l + 1 /\ supervisor'.overall = supervisor.overall
    BY <1>1, <1>2, <1>7, <2>1 DEF Supervisor
  <2>3. SearchTypes'
    BY <1>1, <2>2 DEF SearchTypes, WorkersOK, SupervisorOK, Located
  <2>4. \A n : Published(n)' <=> Published(n)
    BY <1>1 DEF Published
  <2>5. Undecided' <=> Undecided
    BY <1>1, <2>2 DEF Undecided
  <2>6. \A k : Concluded(k)' <=> Concluded(k)
    BY <2>4 DEF Concluded
  <2>7. EndsAreSaid'
    BY <1>1, <2>5, <2>6, WorkersStay DEF EndsAreSaid, Told, Said
  <2>8. TurnsAreOver'
    <3>1. \A k \in Locations : k < l + 1 => k < l \/ k = l
      BY <1>2 DEF Locations
    <3> QED
      BY <1>4, <2>2, <2>4, <2>5, <2>6, <3>1 DEF TurnsAreOver
  <2>9. CompleteIsEarned'
    BY <1>1, <2>2, <2>4 DEF CompleteIsEarned, AllComplete
  <2> QED
    BY <1>1, <2>2, <2>3, <2>7, <2>8, <2>9 DEF IsSettledFirst
<1> QED
  BY <1>5, <1>6, <1>7 DEF NextLocation

\* The outcome is recorded, unless there is one.
LEMMA RecordsOutcomeKeeps ==
  ASSUME SearchInv, RecordsOutcome
  PROVE  SearchInv'
<1> USE DEF SearchInv
<1>1. /\ UNCHANGED <<next, remaining, worker, channel, closed, out, cancelled, picker>>
      /\ supervisor.at = "returned" /\ supervisor' = [supervisor EXCEPT !.at = "recorded"]
      /\ completion' = IF completion = "unset" THEN supervisor.overall ELSE completion
  BY DEF RecordsOutcome
<1>2. supervisor \in Supervisor
  BY DEF SearchTypes, SupervisorOK
<1>3. /\ supervisor' \in Supervisor /\ supervisor'.at = "recorded"
      /\ supervisor'.overall = supervisor.overall
  BY <1>1, <1>2 DEF Supervisor
<1>4. completion' \in Outcomes
  BY <1>1, <1>2 DEF Supervisor, SearchTypes, Outcomes
<1>5. SearchTypes'
  BY <1>1, <1>3, <1>4 DEF SearchTypes, WorkersOK, SupervisorOK, Located
<1>6. completion' # "unset"
  BY <1>4 DEF Outcomes, Completions
<1>7. \A m : Published(m)' <=> Published(m)
  BY <1>1 DEF Published
<1>8. CompleteIsEarned'
  BY <1>1, <1>6, <1>7 DEF CompleteIsEarned, AllComplete
<1> QED
  BY <1>3, <1>5, <1>6, <1>8 DEF IsSettledFirst, EndsAreSaid, TurnsAreOver, Undecided

\* The workers are stopped and joined, and the picker is told.
LEMMA JoinsKeeps ==
  ASSUME SearchInv, StopsWorkers \/ Joins
  PROVE  SearchInv'
<1> USE DEF SearchInv
<1>1. /\ UNCHANGED <<next, remaining, worker, channel, closed, completion, picker>>
      /\ supervisor.at \in {"recorded", "joining"}
      /\ \/ supervisor' = [supervisor EXCEPT !.at = "joining"]
         \/ supervisor' = [supervisor EXCEPT !.at = "done"]
      /\ cancelled' \in BOOLEAN
      /\ UNCHANGED out \/ out' = Append(out, Finished)
  BY DEF StopsWorkers, Joins, SearchTypes
<1>2. supervisor \in Supervisor
  BY DEF SearchTypes, SupervisorOK
<1>3. supervisor' \in Supervisor /\ supervisor'.at \in {"joining", "done"}
  BY <1>1, <1>2 DEF Supervisor
<1>4. /\ out' \in Seq(ScanReport \cup {Finished})
      /\ \A m : Published(m) => Published(m)'
  <2>1. CASE out' = Append(out, Finished)
    BY <2>1, Publishing
  <2>2. CASE UNCHANGED out
    BY <2>2 DEF SearchTypes, Published
  <2> QED
    BY <1>1, <2>1, <2>2
<1>5. SearchTypes'
  BY <1>1, <1>3, <1>4 DEF SearchTypes, WorkersOK, SupervisorOK, Located
<1>6. completion # "unset"
  BY <1>1 DEF IsSettledFirst
<1> QED
  BY <1>1, <1>4, <1>5, <1>6, DecidedKeeps DEF IsSettledFirst, Undecided

\* The picker cancels or drops the run, and time passes.
LEMMA CancelsKeeps ==
  ASSUME SearchInv, Cancels \/ Drops \/ DeadlinePasses \/ UNCHANGED searchVars
  PROVE  SearchInv'
<1> USE DEF SearchInv
<1>1. UNCHANGED <<next, remaining, worker, channel, closed, supervisor, out>>
  BY DEF Cancels, Drops, DeadlinePasses, searchVars
<1>2. /\ picker' \in {"waiting", "cancelling", "cancelled", "dropped"}
      /\ cancelled' \in BOOLEAN
      /\ \/ completion' = completion
         \/ completion = "unset" /\ completion' = "Cancelled"
      /\ picker' # "waiting" \/ cancelled' =>
           completion' # "unset" \/ picker # "waiting" \/ cancelled
  <2>1. CASE Cancels
    BY <2>1 DEF Cancels, SearchTypes
  <2>2. CASE Drops
    BY <2>2 DEF Drops, SearchTypes
  <2>3. CASE UNCHANGED <<picker, cancelled, completion>>
    BY <2>3 DEF SearchTypes
  <2> QED
    BY <2>1, <2>2, <2>3 DEF DeadlinePasses, searchVars
<1>3. SearchTypes'
  BY <1>1, <1>2 DEF SearchTypes, WorkersOK, SupervisorOK, Located, Outcomes
<1>4. IsSettledFirst'
  BY <1>1, <1>2 DEF IsSettledFirst
<1>5. Undecided' => Undecided
  BY <1>1, <1>2 DEF Undecided
<1>6. \A m : Published(m)' <=> Published(m)
  BY <1>1 DEF Published
<1>7. \A l : (Concluded(l)' <=> Concluded(l)) /\ (Said(l)' <=> Said(l))
  BY <1>1, <1>6 DEF Concluded, Said
<1>8. EndsAreSaid'
  <2>1. Told \subseteq Told'
    BY <1>7 DEF Told
  <2> QED
    BY <1>1, <1>5, <2>1, WorkersStay DEF EndsAreSaid
<1>9. TurnsAreOver'
  BY <1>1, <1>5, <1>6, <1>7 DEF TurnsAreOver
<1>10. CompleteIsEarned'
  BY <1>1, <1>2, <1>6 DEF CompleteIsEarned, AllComplete
<1> QED
  BY <1>3, <1>4, <1>8, <1>9, <1>10

LEMMA SearchStep == SearchInv /\ [SearchNext]_searchVars => SearchInv'
BY WorkerStepKeeps, ReceivesKeeps, NextLocationKeeps, RecordsOutcomeKeeps, JoinsKeeps,
   CancelsKeeps DEF SearchNext, SupervisorStep

\* Discovery's outcome, for any locations, workers and limits: a run is complete
\* only when every location was published to its end and reported no limit and
\* no failure, whenever it was cancelled.
THEOREM SearchIsComplete == SearchSpec => []CompleteIsComplete
<1>1. SearchInv => CompleteIsComplete
  BY DEF SearchInv, CompleteIsEarned, AllComplete, Published, CompleteIsComplete
<1> QED
  BY SearchStarts, SearchStep, <1>1, PTL DEF SearchSpec

-----------------------------------------------------------------------------
(* The search: nobody waits for good *)

Holds(w, l) == worker[w].at = "scanning" /\ worker[w].location = l

AllGone == \A w \in Workers : worker[w].at = "gone"

\* A location that was taken is scanned, by one worker, until its sender is gone.
TakenAreHeld ==
  \A l \in Locations : l < next => l \in closed \/ \E w \in Workers : Holds(w, l)

HeldAreOpen ==
  \A w \in Workers : worker[w].at = "scanning" =>
    /\ worker[w].location < next /\ worker[w].location \notin closed
    /\ \A v \in Workers : Holds(v, worker[w].location) => v = w

\* No sender outlives the workers.
QueueIsDropped == AllGone => \A l \in Locations : l < next \/ l \in closed

ClosedWereTaken ==
  closed \subseteq Locations /\ \A l \in closed : l < next \/ AllGone

PassedAreClosed ==
  supervisor.at = "publishing" => \A l \in Locations : l < supervisor.location => l \in closed

\* A scan can be left out, or ended, whatever its allowance.
AllowancesAreNumbers ==
  remaining \in Nat /\ \A w \in Workers : worker[w].at = "scanning" => worker[w].allowance \in Nat

QueueInv ==
  /\ TakenAreHeld /\ HeldAreOpen /\ QueueIsDropped /\ ClosedWereTaken
  /\ PassedAreClosed /\ AllowancesAreNumbers
  /\ supervisor.at = "joining" => cancelled

\* A share is some of what is left.
LEMMA ShareIsLeft ==
  ASSUME NEW r \in Nat, NEW n \in Nat \ {0}
  PROVE  (r + n - 1) \div n \in 0..r
<1> DEFINE q == (r + n - 1) \div n
<1>1. q \in Int /\ n * q <= r + n - 1 /\ r + n - 1 < n * (q + 1)
  OBVIOUS
<1> HIDE DEF q
<1>2. q >= 0
  <2>1. SUFFICES ASSUME q + 1 <= 0 PROVE FALSE
    BY <1>1
  <2>2. n * (q + 1) <= 0
    BY <1>1, <2>1
  <2> QED
    BY <1>1, <2>2
<1>3. q <= r
  <2>1. SUFFICES ASSUME q >= r + 1 PROVE FALSE
    BY <1>1
  <2>2. n * q >= n * (r + 1)
    BY <1>1, <2>1
  <2>3. n * (r + 1) = n * r + n /\ n * r >= r
    OBVIOUS
  <2> QED
    BY <1>1, <2>2, <2>3
<1> QED
  BY <1>1, <1>2, <1>3 DEF q

LEMMA QueueStarts == Workers # {} /\ SearchInit => QueueInv
<1> SUFFICES ASSUME Workers # {}, SearchInit PROVE QueueInv
  OBVIOUS
<1>1. \A w \in Workers : worker[w].at = "idle"
  BY DEF SearchInit, Idle
<1>2. next = 1 /\ closed = {} /\ supervisor.at = "publishing" /\ supervisor.location = 1
      /\ remaining \in Nat
  BY DiscoveryAssumption DEF SearchInit
<1>3. \A l \in Locations : ~(l < 1)
  BY DEF Locations
<1> QED
  BY <1>1, <1>2, <1>3
     DEF QueueInv, TakenAreHeld, HeldAreOpen, QueueIsDropped, AllGone, ClosedWereTaken,
         PassedAreClosed, AllowancesAreNumbers

\* A worker that goes on with its scan holds what it held.
LEMMA GoingOnKeeps ==
  ASSUME SearchInv, QueueInv, NEW w \in Workers, worker[w].at = "scanning",
         NEW new, Becomes(w, new), UNCHANGED <<next, remaining, closed>>,
         new.at = "scanning", new.location = worker[w].location,
         new.allowance = worker[w].allowance
  PROVE  QueueInv'
<1>1. \A v \in Workers : /\ worker'[v].at = worker[v].at
                         /\ worker'[v].at = "scanning" =>
                              /\ worker'[v].location = worker[v].location
                              /\ worker'[v].allowance = worker[v].allowance
  BY DEF Becomes, SearchInv, SearchTypes, WorkersOK
<1>2. UNCHANGED <<next, remaining, closed, supervisor, cancelled>>
  BY DEF Becomes
<1>3. \A v \in Workers : \A l : Holds(v, l)' <=> Holds(v, l)
  BY <1>1 DEF Holds
<1>4. TakenAreHeld' /\ HeldAreOpen'
  BY <1>1, <1>2, <1>3 DEF QueueInv, TakenAreHeld, HeldAreOpen
<1>5. QueueIsDropped' /\ ClosedWereTaken' /\ PassedAreClosed' /\ AllowancesAreNumbers'
  BY <1>1, <1>2
     DEF QueueInv, QueueIsDropped, AllGone, ClosedWereTaken, PassedAreClosed,
         AllowancesAreNumbers
<1> QED
  BY <1>2, <1>4, <1>5 DEF QueueInv

\* Every step of a scan, and every message of it, is of that kind.
LEMMA ScanGoesOn ==
  ASSUME SearchInv, QueueInv, NEW w \in Workers,
         \/ Sends(w) \/ NoAllowance(w) \/ StopsLocal(w) \/ VisitsLocal(w) \/ ScansRemote(w)
  PROVE  QueueInv'
<1>1. worker[w] \in Scanner /\ worker[w].at = "scanning"
  BY DEF SearchInv, SearchTypes, WorkersOK, Sends, NoAllowance, StopsLocal, VisitsLocal,
         ScansRemote, LocalScanning, Scanning
<1> DEFINE Same(r) == /\ {"at", "location", "allowance"} \subseteq DOMAIN r
                      /\ r.at = "scanning" /\ r.location = worker[w].location
                      /\ r.allowance = worker[w].allowance
<1>2. ASSUME NEW new, Becomes(w, new), UNCHANGED <<next, remaining, closed>>, Same(new)
      PROVE  QueueInv'
  BY <1>1, <1>2, GoingOnKeeps
<1>3. /\ Same(worker[w])
      /\ \A r, x : Same(r) => /\ Same([r EXCEPT !.todo = x]) /\ Same([r EXCEPT !.ends = x])
                              /\ Same([r EXCEPT !.used = x]) /\ Same([r EXCEPT !.found = x])
                              /\ Same([r EXCEPT !.completion = x])
  BY <1>1 DEF Scanner
<1> HIDE DEF Same
<1>4. \A c : Same(Ended(w, c))
  BY <1>3 DEF Ended
<1>5. CASE Sends(w)
  BY <1>2, <1>3, <1>5 DEF Sends
<1>6. ASSUME NEW new, Scans(w, new), Same(new) PROVE QueueInv'
  BY <1>2, <1>6 DEF Scans
<1>7. CASE NoAllowance(w)
  BY <1>4, <1>6, <1>7 DEF NoAllowance
<1>8. CASE StopsLocal(w)
  BY <1>3, <1>4, <1>6, <1>8 DEF StopsLocal
<1>9. CASE VisitsLocal(w)
  <2> DEFINE l == worker[w].location
             seen == [worker[w] EXCEPT !.used = @ + 1]
             wrong == [seen EXCEPT !.completion = "Error"]
             ending == <<RootError(l), HostFinished(l, "Error")>>
             lost == [wrong EXCEPT !.todo = ending, !.ends = TRUE]
             full == [seen EXCEPT !.completion = "ResultsLimit"]
             more == [seen EXCEPT !.found = @ + 1, !.todo = <<Repository(l)>>]
  <2>1. Same(seen)
    BY <1>3
  <2>2. Scans(w, seen) \/ Scans(w, wrong) \/ Scans(w, lost) \/ Scans(w, full) \/ Scans(w, more)
    BY <1>9, Zenon DEF VisitsLocal
  <2> HIDE DEF seen
  <2>3. Same(wrong) /\ Same(full) /\ Same(more)
    BY <1>3, <2>1
  <2> HIDE DEF wrong
  <2>4. Same(lost)
    BY <1>3, <2>3
  <2> HIDE DEF lost, full, more
  <2> QED
    BY <1>6, <2>1, <2>2, <2>3, <2>4
<1>10. CASE ScansRemote(w)
  BY <1>3, <1>4, <1>6, <1>10 DEF ScansRemote
<1> QED
  BY <1>5, <1>7, <1>8, <1>9, <1>10

\* A worker takes the next location with a share, or leaves; the last one to
\* leave drops what nobody took.
LEMMA TakingKeeps ==
  ASSUME SearchInv, QueueInv, NEW w \in Workers, TakeJob(w)
  PROVE  QueueInv'
<1>1. /\ next \in Nat \ {0} /\ worker \in [Workers -> Scanner] /\ worker[w].at = "idle"
      /\ remaining \in Nat
  BY DEF SearchInv, SearchTypes, WorkersOK, TakeJob, QueueInv, AllowancesAreNumbers
<1>2. CASE cancelled \/ next > LocationCount
  <2>1. Leaves(w)
    BY <1>2 DEF TakeJob
  <2> DEFINE new == [Idle EXCEPT !.at = "gone"]
  <2>2. new.at = "gone"
    BY DEF Idle
  <2>3. worker' = [worker EXCEPT ![w] = new]
        /\ UNCHANGED <<next, remaining, supervisor, cancelled>>
    BY <2>1 DEF Leaves, Becomes
  <2> HIDE DEF new
  <2>4. /\ worker'[w].at = "gone"
        /\ \A v \in Workers : v # w => worker'[v] = worker[v]
    BY <1>1, <2>2, <2>3
  <2>5. \A v \in Workers : \A l : Holds(v, l)' <=> Holds(v, l)
    BY <1>1, <2>4 DEF Holds
  <2>6. closed \subseteq closed'
    BY <2>1 DEF Leaves
  <2>7. TakenAreHeld' /\ PassedAreClosed' /\ AllowancesAreNumbers'
    BY <2>3, <2>4, <2>5, <2>6
       DEF QueueInv, TakenAreHeld, PassedAreClosed, AllowancesAreNumbers
  <2>8. HeldAreOpen'
    <3>1. CASE \A v \in Workers \ {w} : worker[v].at = "gone"
      BY <2>4, <3>1 DEF HeldAreOpen
    <3>2. CASE ~\A v \in Workers \ {w} : worker[v].at = "gone"
      <4>1. closed' = closed
        BY <2>1, <3>2 DEF Leaves
      <4> QED
        BY <2>3, <2>4, <2>5, <4>1 DEF QueueInv, HeldAreOpen
    <3> QED
      BY <3>1, <3>2
  <2>9. QueueIsDropped'
    <3> SUFFICES ASSUME AllGone', NEW l \in Locations, ~(l < next)
                 PROVE  l \in closed'
      BY <2>3 DEF QueueIsDropped
    <3>1. \A v \in Workers \ {w} : worker[v].at = "gone"
      BY <2>4 DEF AllGone
    <3>2. closed' = closed \cup next .. LocationCount
      BY <2>1, <3>1 DEF Leaves
    <3>3. l \in next .. LocationCount
      BY <1>1, DiscoveryAssumption DEF Locations
    <3> QED
      BY <3>2, <3>3
  <2>10. ClosedWereTaken'
    <3>0. next .. LocationCount \subseteq Locations
      BY <1>1, DiscoveryAssumption DEF Locations
    <3>1. CASE \A v \in Workers \ {w} : worker[v].at = "gone"
      BY <2>1, <2>4, <3>0, <3>1 DEF QueueInv, ClosedWereTaken, AllGone, Leaves
    <3>2. CASE ~\A v \in Workers \ {w} : worker[v].at = "gone"
      <4>1. closed' = closed /\ ~AllGone
        BY <2>1, <3>2 DEF Leaves, AllGone
      <4> QED
        BY <2>3, <4>1 DEF QueueInv, ClosedWereTaken
    <3> QED
      BY <3>1, <3>2
  <2> QED
    BY <2>3, <2>7, <2>8, <2>9, <2>10 DEF QueueInv
<1>3. CASE ~(cancelled \/ next > LocationCount)
  <2> DEFINE share == Reserve(LocationCount - next + 1)
             new == [Idle EXCEPT !.at = "scanning", !.location = next, !.allowance = share]
  <2>1. share \in 0..remaining
    <3>1. LocationCount - next + 1 \in Nat \ {0}
      BY <1>1, <1>3, DiscoveryAssumption
    <3> QED
      BY <1>1, <3>1, ShareIsLeft DEF Reserve
  <2>2. new.at = "scanning" /\ new.location = next /\ new.allowance = share
    BY DEF Idle
  <2>3. /\ next' = next + 1 /\ remaining' = remaining - share
        /\ worker' = [worker EXCEPT ![w] = new]
        /\ UNCHANGED <<closed, supervisor, cancelled>>
    BY <1>3 DEF TakeJob, Becomes
  <2> HIDE DEF new, share
  <2>4. /\ worker'[w].at = "scanning" /\ worker'[w].location = next
        /\ worker'[w].allowance = share
        /\ \A v \in Workers : v # w => worker'[v] = worker[v]
    BY <1>1, <2>2, <2>3
  <2>5. \A v \in Workers : \A l : Holds(v, l)' <=> IF v = w THEN l = next ELSE Holds(v, l)
    BY <2>4 DEF Holds
  <2>6. ~Holds(w, 0) /\ \A l : ~Holds(w, l)
    BY <1>1 DEF Holds
  <2>7. TakenAreHeld'
    <3> SUFFICES ASSUME NEW l \in Locations, l < next'
                 PROVE  l \in closed' \/ \E v \in Workers : Holds(v, l)'
      BY DEF TakenAreHeld
    <3>1. l = next \/ l < next
      BY <1>1, <2>3 DEF Locations
    <3> QED
      BY <2>3, <2>5, <2>6, <3>1 DEF QueueInv, TakenAreHeld
  <2>8. HeldAreOpen'
    <3> SUFFICES ASSUME NEW v \in Workers, worker'[v].at = "scanning"
                 PROVE  /\ worker'[v].location < next' /\ worker'[v].location \notin closed'
                        /\ \A u \in Workers :
                             worker'[u].at = "scanning"
                               /\ worker'[u].location = worker'[v].location => u = v
      BY DEF HeldAreOpen, Holds
    <3>1. ~AllGone /\ next \notin closed
      BY <1>1 DEF QueueInv, ClosedWereTaken, AllGone
    <3>2. CASE v = w
      <4>1. \A u \in Workers : Holds(u, next) => FALSE
        BY <1>1 DEF QueueInv, HeldAreOpen, Holds
      <4> QED
        BY <1>1, <2>3, <2>4, <3>1, <3>2, <4>1 DEF Holds
    <3>3. CASE v # w
      <4>1. worker'[v] = worker[v] /\ worker[v].location < next /\ worker[v].location \notin closed
            /\ \A u \in Workers : Holds(u, worker[v].location) => u = v
        BY <2>4, <3>3 DEF QueueInv, HeldAreOpen
      <4>2. worker[v].location \in Locations
        BY <2>4, <3>3 DEF SearchInv, SearchTypes, WorkersOK, Located
      <4>3. worker[v].location # next /\ worker[v].location < next + 1
        BY <1>1, <4>1, <4>2 DEF Locations
      <4> QED
        BY <2>3, <2>4, <4>1, <4>3 DEF Holds
    <3> QED
      BY <3>2, <3>3
  <2>9. AllowancesAreNumbers' /\ PassedAreClosed'
    BY <1>1, <2>1, <2>3, <2>4 DEF QueueInv, PassedAreClosed, AllowancesAreNumbers
  <2>10. ~AllGone /\ ~AllGone'
    BY <1>1, <2>4 DEF AllGone
  <2>11. ClosedWereTaken'
    <3> SUFFICES ASSUME NEW l \in closed PROVE l < next + 1
      BY <2>3 DEF QueueInv, ClosedWereTaken
    <3>1. l < next /\ l \in Locations
      BY <2>10 DEF QueueInv, ClosedWereTaken
    <3> QED
      BY <1>1, <3>1 DEF Locations
  <2> QED
    BY <2>3, <2>7, <2>8, <2>9, <2>10, <2>11 DEF QueueInv, QueueIsDropped
<1> QED
  BY <1>2, <1>3

LEMMA EndingKeeps ==
  ASSUME SearchInv, QueueInv, NEW w \in Workers, EndsJob(w)
  PROVE  QueueInv'
<1> DEFINE here == worker[w].location
<1>1. /\ next \in Nat /\ worker \in [Workers -> Scanner]
      /\ worker[w].at = "scanning" /\ here \in Locations /\ here < next
  BY DEF SearchInv, SearchTypes, WorkersOK, Located, EndsJob, QueueInv, HeldAreOpen
<1>2. /\ worker' = [worker EXCEPT ![w] = Idle] /\ closed' = closed \cup {here}
      /\ UNCHANGED <<next, remaining, supervisor, cancelled>>
  BY DEF EndsJob, Becomes
<1> HIDE DEF here
<1>3. /\ worker'[w].at = "idle"
      /\ \A v \in Workers : v # w => worker'[v] = worker[v]
  BY <1>1, <1>2 DEF Idle
<1>4. TakenAreHeld'
  <2> SUFFICES ASSUME NEW l \in Locations, l < next, l \notin closed, l # here
               PROVE  \E v \in Workers : Holds(v, l)'
    BY <1>2 DEF TakenAreHeld
  <2>1. PICK v \in Workers : Holds(v, l)
    BY DEF QueueInv, TakenAreHeld
  <2>2. v # w
    BY <2>1 DEF Holds, here
  <2> QED
    BY <1>3, <2>1, <2>2 DEF Holds
<1>5. HeldAreOpen'
  <2> SUFFICES ASSUME NEW v \in Workers, worker'[v].at = "scanning"
               PROVE  /\ worker'[v].location < next' /\ worker'[v].location \notin closed'
                      /\ \A u \in Workers :
                           worker'[u].at = "scanning"
                             /\ worker'[u].location = worker'[v].location => u = v
    BY DEF HeldAreOpen, Holds
  <2>1. v # w /\ worker'[v] = worker[v]
    BY <1>3
  <2>2. /\ worker[v].location < next /\ worker[v].location \notin closed
        /\ \A u \in Workers : Holds(u, worker[v].location) => u = v
    BY <2>1 DEF QueueInv, HeldAreOpen
  <2>3. worker[v].location # here
    BY <1>1, <2>1, <2>2 DEF Holds, here
  <2> QED
    BY <1>2, <1>3, <2>1, <2>2, <2>3 DEF Holds
<1>6. ~AllGone' /\ ~AllGone
  BY <1>1, <1>3 DEF AllGone
<1>7. ClosedWereTaken'
  BY <1>1, <1>2, <1>6 DEF QueueInv, ClosedWereTaken
<1>8. PassedAreClosed' /\ AllowancesAreNumbers'
  BY <1>2, <1>3 DEF QueueInv, PassedAreClosed, AllowancesAreNumbers
<1> QED
  BY <1>2, <1>4, <1>5, <1>6, <1>7, <1>8 DEF QueueInv, QueueIsDropped

\* Of the queue the supervisor only learns which location is its turn.
LEMMA SupervisingKeeps ==
  ASSUME SearchInv, QueueInv, UNCHANGED <<next, remaining, worker, closed>>,
         PassedAreClosed', supervisor'.at = "joining" => cancelled'
  PROVE  QueueInv'
BY DEF QueueInv, TakenAreHeld, HeldAreOpen, Holds, QueueIsDropped, AllGone, ClosedWereTaken,
       AllowancesAreNumbers

LEMMA SupervisorKeepsQueue ==
  ASSUME SearchInv, QueueInv, SupervisorStep
  PROVE  QueueInv'
<1>1. supervisor \in Supervisor /\ UNCHANGED <<next, remaining, worker, closed>>
  BY DEF SearchInv, SearchTypes, SupervisorOK, SupervisorStep, Receives, NextLocation,
         RecordsOutcome, StopsWorkers, Joins
<1>2. ASSUME supervisor'.at \notin {"publishing", "joining"} PROVE QueueInv'
  BY <1>1, <1>2, SupervisingKeeps DEF PassedAreClosed
<1>3. \A outcome : Returns(outcome) => supervisor'.at = "returned"
  BY <1>1 DEF Returns, Supervisor
<1>4. CASE Receives
  <2> DEFINE Same(r) == /\ {"at", "location"} \subseteq DOMAIN r
                        /\ r.at = "publishing" /\ r.location = supervisor.location
  <2>1. /\ Same(supervisor)
        /\ \A r, x : Same(r) => /\ Same([r EXCEPT !.published = x])
                                /\ Same([r EXCEPT !.exceeded = x])
                                /\ Same([r EXCEPT !.overall = x])
    BY <1>1, <1>4 DEF Receives, Supervisor
  <2>2. ASSUME Same(supervisor') PROVE QueueInv'
    BY <1>1, <1>4, <2>2, SupervisingKeeps DEF QueueInv, PassedAreClosed, Receives
  <2> HIDE DEF Same
  <2>3. \A m, r : Publishes(m, r) /\ Same(r) => Same(supervisor') \/ supervisor'.at = "returned"
    BY <1>3 DEF Publishes
  <2>4. ASSUME NEW m, PublishesResult(m) PROVE Same(supervisor') \/ supervisor'.at = "returned"
    <3> DEFINE more == [supervisor EXCEPT !.published = @ + 1]
               full == [supervisor EXCEPT !.exceeded = TRUE]
    <3>1. Same(more) /\ Same(full)
      BY <2>1
    <3>2. Publishes(m, more) \/ supervisor' = full
      BY <2>4, Zenon DEF PublishesResult
    <3> HIDE DEF more, full
    <3> QED
      BY <2>3, <3>1, <3>2
  <2>5. Same(supervisor') \/ supervisor'.at = "returned"
    <3> DEFINE said(c) == [supervisor EXCEPT !.overall = MoreSignificant(@, c)]
    <3>1. \A c : Same(said(c))
      BY <2>1
    <3>2. \/ \E outcome : Returns(outcome)
          \/ \E m : PublishesResult(m) \/ Publishes(m, supervisor)
          \/ \E c : supervisor' = said(c)
      BY <1>4 DEF Receives, Turn
    <3> HIDE DEF said
    <3> QED
      BY <1>3, <2>1, <2>3, <2>4, <3>1, <3>2
  <2> QED
    BY <1>2, <2>2, <2>5
<1>5. CASE NextLocation
  <2>1. CASE \E outcome : Returns(outcome)
    BY <1>2, <1>3, <2>1
  <2>2. CASE supervisor' = [supervisor EXCEPT !.location = @ + 1]
    <3>1. /\ supervisor'.location = supervisor.location + 1 /\ supervisor'.at = "publishing"
          /\ supervisor.at = "publishing" /\ supervisor.location \in closed
      BY <1>1, <1>5, <2>2 DEF NextLocation, Supervisor
    <3>2. \A l \in Locations : l < supervisor.location + 1 =>
            l < supervisor.location \/ l = supervisor.location
      BY <1>1, DiscoveryAssumption DEF Supervisor, Locations
    <3>3. PassedAreClosed'
      BY <1>1, <3>1, <3>2 DEF QueueInv, PassedAreClosed
    <3> QED
      BY <1>1, <3>1, <3>3, SupervisingKeeps
  <2> QED
    BY <1>5, <2>1, <2>2 DEF NextLocation
<1>6. CASE RecordsOutcome \/ Joins
  <2>1. supervisor'.at \in {"recorded", "done"}
    BY <1>1, <1>6 DEF RecordsOutcome, Joins, Supervisor
  <2> QED
    BY <1>2, <2>1
<1>7. CASE StopsWorkers
  <2>1. supervisor'.at = "joining" /\ cancelled'
    BY <1>1, <1>7 DEF StopsWorkers, Supervisor
  <2> QED
    BY <1>1, <2>1, SupervisingKeeps DEF PassedAreClosed
<1> QED
  BY <1>4, <1>5, <1>6, <1>7 DEF SupervisorStep

LEMMA QueueStep ==
  Workers # {} /\ SearchInv /\ QueueInv /\ [SearchNext]_searchVars => QueueInv'
<1> SUFFICES ASSUME SearchInv, QueueInv, [SearchNext]_searchVars PROVE QueueInv'
  OBVIOUS
<1>1. ASSUME NEW w \in Workers, WorkerStep(w) PROVE QueueInv'
  BY <1>1, TakingKeeps, EndingKeeps, ScanGoesOn DEF WorkerStep
<1>2. CASE Cancels \/ Drops \/ DeadlinePasses \/ UNCHANGED searchVars
  <2>1. /\ UNCHANGED <<next, remaining, worker, closed, supervisor>>
        /\ cancelled => cancelled'
    BY <1>2 DEF Cancels, Drops, DeadlinePasses, searchVars
  <2>2. PassedAreClosed'
    BY <2>1 DEF QueueInv, PassedAreClosed
  <2> QED
    BY <2>1, <2>2, SupervisingKeeps DEF QueueInv
<1> QED
  BY <1>1, <1>2, SupervisorKeepsQueue DEF SearchNext

\* A worker may take a location or leave, say what it found to somebody who can
\* hear it or does not want to, go on scanning, or end its scan: these are the
\* guards of its steps.
WorkerMay(w) ==
  \/ worker[w].at = "idle"
  \/ /\ worker[w].at = "scanning" /\ worker[w].todo # <<>>
     /\ cancelled \/ Disconnected \/ channel[worker[w].location] = None
  \/ /\ worker[w].at = "scanning" /\ worker[w].todo = <<>>
     /\ worker[w].ends \/ worker[w].allowance \in Nat

\* The supervisor may receive or turn to the next location, conclude, and join
\* workers that left.
SupervisorMay ==
  \/ /\ supervisor.at = "publishing"
     /\ \/ channel[supervisor.location] # None
        \/ supervisor.location \in closed
  \/ supervisor.at \in {"returned", "recorded"}
  \/ supervisor.at = "joining" /\ AllGone

SomeoneMayGoOn == supervisor.at # "done" => SupervisorMay \/ \E w \in Workers : WorkerMay(w)

LEMMA NobodyWaitsForGood ==
  ASSUME Workers # {}, SearchInv, QueueInv
  PROVE  SomeoneMayGoOn
<1> SUFFICES ASSUME supervisor.at \in {"publishing", "joining"}, ~SupervisorMay
             PROVE  \E w \in Workers : WorkerMay(w)
  BY DEF SomeoneMayGoOn, SupervisorMay, SearchInv, SearchTypes, SupervisorOK, Supervisor
<1>1. \A w \in Workers : worker[w].at \in {"idle", "scanning", "gone"}
  BY DEF SearchInv, SearchTypes, WorkersOK, Scanner
<1>2. \A w \in Workers : worker[w].at = "scanning" => worker[w].allowance \in Nat
  BY DEF QueueInv, AllowancesAreNumbers
<1>3. CASE supervisor.at = "joining"
  <2>1. cancelled /\ \E w \in Workers : worker[w].at # "gone"
    BY <1>3 DEF SupervisorMay, AllGone, QueueInv
  <2> QED
    BY <1>1, <1>2, <2>1 DEF WorkerMay
<1>4. CASE supervisor.at = "publishing"
  <2> DEFINE turn == supervisor.location
  <2>1. /\ channel[turn] = None /\ turn \notin closed /\ turn \in Locations
        /\ next \in Nat \ {0}
    BY <1>4 DEF SupervisorMay, SearchInv, SearchTypes, SupervisorOK, Supervisor
  <2>2. CASE turn < next
    <3>1. PICK w \in Workers : Holds(w, turn)
      BY <2>1, <2>2 DEF QueueInv, TakenAreHeld
    <3> QED
      BY <1>2, <2>1, <3>1 DEF Holds, WorkerMay
  <2>3. CASE ~(turn < next)
    \* What nobody took yet, somebody will: who scans an earlier location would
    \* hold one whose turn is over.
    <3>1. ~AllGone
      BY <2>1, <2>3 DEF QueueInv, QueueIsDropped
    <3>2. PICK w \in Workers : worker[w].at # "gone"
      BY <3>1 DEF AllGone
    <3>3. worker[w].at # "scanning"
      <4> SUFFICES ASSUME worker[w].at = "scanning" PROVE FALSE
        OBVIOUS
      <4>1. /\ worker[w].location \in Locations
            /\ worker[w].location < next /\ worker[w].location \notin closed
        BY DEF SearchInv, SearchTypes, WorkersOK, Located, QueueInv, HeldAreOpen
      <4>2. worker[w].location < turn
        BY <2>1, <2>3, <4>1, DiscoveryAssumption DEF Locations
      <4> QED
        BY <1>4, <4>1, <4>2 DEF QueueInv, PassedAreClosed
    <3> QED
      BY <1>1, <3>2, <3>3 DEF WorkerMay
  <2> QED
    BY <2>2, <2>3
<1> QED
  BY <1>3, <1>4

\* As long as the run is not done, a guard of the supervisor or of a worker
\* holds, for any locations, limits and number of workers, and at least one,
\* as the service's clamp provides: nobody holds a full channel against a
\* supervisor that waits for another one (publish_outcomes, worker_loop).
THEOREM SearchIsNeverStuck ==
  ASSUME Workers # {}
  PROVE  SearchSpec => []SomeoneMayGoOn
<1>1. SearchSpec => []SearchInv
  BY SearchStarts, SearchStep, PTL DEF SearchSpec
<1>2. SearchInit => QueueInv
  BY QueueStarts
<1>3. SearchInv /\ QueueInv /\ [SearchNext]_searchVars => QueueInv'
  BY QueueStep
<1>4. SearchInv /\ QueueInv => SomeoneMayGoOn
  BY NobodyWaitsForGood
<1> QED
  BY <1>1, <1>2, <1>3, <1>4, PTL DEF SearchSpec

-----------------------------------------------------------------------------
(* The status refresh: types *)

EntryKind == [host : Hosts \cup {"none"}, workloads : Seq(Workloads)]
OneMessage ==
  [kind : {"Host", "Catalog", "Workload", "Health", "Resources"},
   workload : Workloads \cup {"none"}]
Statuses == {"Missing", "Ended", "Running", "Unknown", "TimedOut", "Error"}
Holdings == SessionShapes \cup {"unknown"}
Knowledge(values) == UNION {[ws -> values] : ws \in SUBSET Workloads}

Prober ==
  [at : {"waiting", "listing", "telling", "over"}, entry : EntryKind, todo : Seq(OneMessage),
   answer : Answers \cup {"none"},
   seen : Knowledge(Statuses), held : Knowledge(Holdings)]

StatusTypes ==
  /\ asked \in [list : HostLists, resources : BOOLEAN]
  /\ jobs \in Seq(EntryKind) /\ prober \in [Probers -> Prober]

LEMMA NormalizedIsTyped ==
  ASSUME NEW list \in HostLists
  PROVE  Normalized(list) \in Seq(EntryKind)
<1> DEFINE Items == [host : Hosts, workload : Workloads \cup {"none"}]
           Before(i) == 1..(i - 1)
           firsts == {i \in DOMAIN list : \A j \in Before(i) : list[j].host # list[i].host}
           hosts == AtPositions(list, firsts)
           ones(h) == {i \in DOMAIN list : /\ list[i].host = h /\ list[i].workload # "none"
                                           /\ \A j \in Before(i) : list[j] # list[i]}
           Of(h) == AtPositions(list, ones(h))
           WorkloadsOf(h) == [k \in DOMAIN Of(h) |-> Of(h)[k].workload]
<1>1. list \in Seq(Items)
  BY StatusAssumption
<1>2. hosts \in Seq(Items)
  <2>1. firsts \in SUBSET DOMAIN list
    OBVIOUS
  <2> HIDE DEF firsts, Items
  <2> QED
    BY <1>1, <2>1, PositionsAreTaken
<1>3. ASSUME NEW h
      PROVE  WorkloadsOf(h) \in Seq(Workloads)
  <2>1. ones(h) \in SUBSET DOMAIN list
    OBVIOUS
  <2>2. /\ Of(h) \in Seq(Items)
        /\ \A k \in DOMAIN Of(h) : \E i \in ones(h) : Of(h)[k] = list[i]
    <3> HIDE DEF ones, Items
    <3> QED
      BY <1>1, <2>1, PositionsAreTaken
  <2>3. \A k \in DOMAIN Of(h) : Of(h)[k].workload \in Workloads
    <3> SUFFICES ASSUME NEW k \in DOMAIN Of(h) PROVE Of(h)[k].workload \in Workloads
      OBVIOUS
    <3>1. PICK i \in ones(h) : Of(h)[k] = list[i]
      BY <2>2
    <3>2. i \in DOMAIN list /\ list[i].workload # "none"
      OBVIOUS
    <3>3. list[i] \in Items
      <4> HIDE DEF Items
      <4> QED
        BY <1>1, <3>2
    <3> QED
      BY <3>1, <3>2, <3>3
  <2> HIDE DEF Of
  <2> QED
    BY <2>2, <2>3
<1> HIDE DEF hosts, WorkloadsOf
<1>4. [n \in DOMAIN hosts |-> Entry(hosts[n].host, WorkloadsOf(hosts[n].host))] \in Seq(EntryKind)
  <2>1. \A n \in DOMAIN hosts :
          Entry(hosts[n].host, WorkloadsOf(hosts[n].host)) \in EntryKind
    <3> SUFFICES ASSUME NEW n \in DOMAIN hosts
                 PROVE  Entry(hosts[n].host, WorkloadsOf(hosts[n].host)) \in EntryKind
      OBVIOUS
    <3>1. hosts[n] \in Items
      <4> HIDE DEF Items
      <4> QED
        BY <1>2
    <3>2. hosts[n].host \in Hosts
      BY <3>1
    <3>3. WorkloadsOf(hosts[n].host) \in Seq(Workloads)
      BY <1>3
    <3> QED
      BY <3>2, <3>3 DEF Entry, EntryKind
  <2> HIDE DEF Items
  <2> QED
    BY <1>2, <2>1
<1>5. Normalized(list)
        = [n \in DOMAIN hosts |-> Entry(hosts[n].host, WorkloadsOf(hosts[n].host))]
  BY DEF Normalized, hosts, WorkloadsOf
<1> QED
  BY <1>4, <1>5

-----------------------------------------------------------------------------
(* The status refresh: what is known when a report is made *)

\* What is reported of a workload, with what its host held and answered.
IsTrueOf(what, was, by) ==
  /\ what = "Missing" => \/ by \in {"exit1", "clipped"}
                         \/ by = "listed" /\ was \in {"elsewhere", "absent"}
  /\ what = "Ended" => was = "ended"
  /\ what = "Running" => was \in {"running", "endedsplit"}

\* A worker that tells knows what it is about to tell of each workload.
KnowsWhatItTells(here) ==
  here.at = "telling" =>
    /\ here.todo # <<>>
    /\ DOMAIN here.held = DOMAIN here.seen
    /\ \A w \in DOMAIN here.seen : IsTrueOf(here.seen[w], here.held[w], here.answer)
    /\ \A i \in DOMAIN here.todo :
         here.todo[i].kind = "Workload" => here.todo[i].workload \in DOMAIN here.seen

StatusInv ==
  /\ StatusTypes
  /\ \A p \in Probers : KnowsWhatItTells(prober[p])
  /\ ReportsRestOnAnswers

LEMMA WaitingIsTyped == Waiting \in Prober /\ Waiting.at = "waiting"
<1>1. <<>> \in Seq(OneMessage) /\ <<>> \in Seq(Workloads)
  OBVIOUS
<1>2. <<>> \in Knowledge(Statuses) /\ <<>> \in Knowledge(Holdings)
  <2>1. \A values : <<>> \in [{} -> values]
    OBVIOUS
  <2>2. {} \in SUBSET Workloads
    OBVIOUS
  <2> QED
    BY <2>1, <2>2 DEF Knowledge
<1>3. Entry("none", <<>>) \in EntryKind
  BY <1>1 DEF Entry, EntryKind
<1> QED
  BY <1>1, <1>2, <1>3 DEF Waiting, Prober

\* A worker that goes on, and the others.
LEMMA ProberGoesOn ==
  ASSUME StatusInv, NEW p \in Probers, NEW here \in Prober, KnowsWhatItTells(here),
         NowDoes(p, here)
  PROVE  prober' \in [Probers -> Prober] /\ \A q \in Probers : KnowsWhatItTells(prober'[q])
BY DEF StatusInv, StatusTypes, NowDoes

\* Whatever a host holds and answers, it is classified by what the answer shows.
LEMMA AnswersAreTrue ==
  ASSUME NEW h, NEW answer \in Answers, NEW session \in SessionShapes,
         NEW shown \in MayPrint(answer, session)
  PROVE  /\ WorkloadStatus(h, answer, shown) \in Statuses
         /\ IsTrueOf(WorkloadStatus(h, answer, shown),
                     IF Reachability(h, answer) = "Reachable" THEN session ELSE "unknown", answer)
<1> DEFINE verdict == WorkloadStatus(h, answer, shown)
<1>1. verdict \in Statuses
  <2>1. Reachability(h, answer) \in {"Reachable", "Unreachable", "TimedOut", "Error"}
    BY DEF Reachability
  <2> QED
    BY <2>1 DEF WorkloadStatus, Statuses
<1>2. CASE answer \in {"listed", "clipped"}
  <2>1. Reachability(h, answer) = "Reachable"
    BY <1>2 DEF Reachability
  <2>2. CASE shown = "absent"
    <3>1. verdict = "Missing"
      BY <1>2, <2>2 DEF WorkloadStatus
    <3>2. answer = "listed" => session \in {"elsewhere", "absent"}
      BY <2>2 DEF MayPrint
    <3> QED
      BY <1>1, <1>2, <2>1, <3>1, <3>2 DEF IsTrueOf
  <2>3. CASE shown # "absent"
    <3>1. shown = session /\ session \in {"running", "ended", "endedsplit"}
      BY <2>3 DEF MayPrint, SessionShapes
    <3>2. verdict = IF session = "ended" THEN "Ended" ELSE "Running"
      BY <1>2, <3>1 DEF WorkloadStatus
    <3> QED
      BY <1>1, <2>1, <3>1, <3>2 DEF IsTrueOf
  <2> QED
    BY <2>2, <2>3
<1>3. CASE answer = "exit1"
  <2>1. verdict = "Missing"
    BY <1>3 DEF WorkloadStatus, Reachability
  <2> QED
    BY <1>1, <1>3, <2>1 DEF IsTrueOf
<1>4. CASE answer \notin {"listed", "clipped", "exit1"}
  <2>1. verdict \in {"Unknown", "TimedOut", "Error"}
    BY <1>4 DEF WorkloadStatus, Reachability, Answers
  <2> QED
    BY <1>1, <2>1 DEF IsTrueOf
<1> QED
  BY <1>2, <1>3, <1>4

LEMMA HealthIsTrue ==
  ASSUME NEW here, NEW content \in HealthContents(here)
  PROVE  /\ content[1] = "Serving" => content[2] = "serves"
         /\ content[1] = "NotServing" => content[2] = "fails"
<1>1. CASE Reach(here) # "Reachable"
  BY <1>1 DEF HealthContents
<1>2. CASE Reach(here) = "Reachable"
  <2>1. PICK serves \in BOOLEAN, o \in ProbeOutcomes(here.entry.host, TRUE)
                                         \cup ProbeOutcomes(here.entry.host, FALSE) :
          /\ o \in ProbeOutcomes(here.entry.host, serves)
          /\ content = <<HealthOf(here.entry.host, o), IF serves THEN "serves" ELSE "fails">>
    BY <1>2 DEF HealthContents
  <2> QED
    BY <2>1 DEF HealthOf, ProbeOutcomes
<1> QED
  BY <1>1, <1>2

-----------------------------------------------------------------------------
(* The status refresh: the steps *)

\* What holds of the messages of two lists holds of those of both together.
LEMMA Concatenated ==
  ASSUME NEW one \in Seq(OneMessage), NEW other \in Seq(OneMessage), NEW ws,
         \A i \in DOMAIN one : one[i].kind = "Workload" => one[i].workload \in ws,
         \A i \in DOMAIN other : other[i].kind = "Workload" => other[i].workload \in ws
  PROVE  /\ one \o other \in Seq(OneMessage) /\ Len(one \o other) = Len(one) + Len(other)
         /\ \A i \in DOMAIN (one \o other) :
              (one \o other)[i].kind = "Workload" => (one \o other)[i].workload \in ws
<1> DEFINE both == one \o other
<1>1. /\ both \in Seq(OneMessage) /\ Len(both) = Len(one) + Len(other)
      /\ \A i \in 1..Len(both) :
           both[i] = IF i <= Len(one) THEN one[i] ELSE other[i - Len(one)]
  <2> HIDE DEF OneMessage
  <2> QED
    OBVIOUS
<1> HIDE DEF both
<1>2. ASSUME NEW i \in DOMAIN both, both[i].kind = "Workload"
      PROVE  both[i].workload \in ws
  <2>1. i \in 1..Len(both) /\ Len(one) \in Nat /\ Len(other) \in Nat
    BY <1>1
  <2>2. CASE i <= Len(one)
    <3>1. i \in DOMAIN one /\ both[i] = one[i]
      BY <1>1, <2>1, <2>2
    <3> QED
      BY <1>2, <3>1
  <2>3. CASE ~(i <= Len(one))
    <3>1. i - Len(one) \in DOMAIN other /\ both[i] = other[i - Len(one)]
      BY <1>1, <2>1, <2>3
    <3> QED
      BY <1>2, <3>1
  <2> QED
    BY <2>2, <2>3
<1> QED
  BY <1>1, <1>2 DEF both

LEMMA ListsKeeps ==
  ASSUME StatusInv, NEW p \in Probers, Lists(p)
  PROVE  StatusInv'
<1> DEFINE here == prober[p]
           entry == here.entry
           h == entry.host
           ws == entry.workloads
<1>1. /\ UNCHANGED <<asked, jobs, told>> /\ here \in Prober /\ ws \in Seq(Workloads)
      /\ asked.resources \in BOOLEAN
  BY DEF Lists, StatusInv, StatusTypes, Prober, EntryKind
<1>2. CASE NowDoes(p, Waiting)
  <2>1. KnowsWhatItTells(Waiting)
    BY WaitingIsTyped DEF KnowsWhatItTells
  <2>2. prober' \in [Probers -> Prober] /\ \A q \in Probers : KnowsWhatItTells(prober'[q])
    BY <1>2, <2>1, WaitingIsTyped, ProberGoesOn
  <2> QED
    BY <1>1, <2>2 DEF StatusInv, StatusTypes, ReportsRestOnAnswers
<1>3. CASE ~NowDoes(p, Waiting)
  <2>1. PICK answer \in Answers, held \in [ToSet(ws) -> SessionShapes] :
          \E shown \in [DOMAIN held -> SessionShapes] :
             LET probed == AtPositions(ws, {i \in DOMAIN ws : ws[i] \in Probed})
                 seen == [w \in DOMAIN held |-> WorkloadStatus(h, answer, shown[w])]
                 usage == /\ asked.resources
                          /\ Reachability(h, answer) = "Reachable" =>
                               \E w \in DOMAIN seen : seen[w] = "Running"
             IN  /\ \A w \in DOMAIN held : shown[w] \in MayPrint(answer, held[w])
                 /\ NowDoes(p, [prober[p] EXCEPT
                      !.at = "telling", !.answer = answer, !.seen = seen,
                      !.held = IF Reachability(h, answer) = "Reachable" THEN held
                               ELSE [w \in DOMAIN held |-> "unknown"],
                      !.todo = <<[kind |-> "Host", workload |-> "none"],
                                 [kind |-> "Catalog", workload |-> "none"]>>
                                 \o OneEach("Workload", ws) \o OneEach("Health", probed)
                                 \o IF usage THEN OneEach("Resources", ws) ELSE <<>>])
    BY <1>3 DEF Lists
  <2>2. PICK shown \in [DOMAIN held -> SessionShapes] :
             LET probed == AtPositions(ws, {i \in DOMAIN ws : ws[i] \in Probed})
                 seen == [w \in DOMAIN held |-> WorkloadStatus(h, answer, shown[w])]
                 usage == /\ asked.resources
                          /\ Reachability(h, answer) = "Reachable" =>
                               \E w \in DOMAIN seen : seen[w] = "Running"
             IN  /\ \A w \in DOMAIN held : shown[w] \in MayPrint(answer, held[w])
                 /\ NowDoes(p, [prober[p] EXCEPT
                      !.at = "telling", !.answer = answer, !.seen = seen,
                      !.held = IF Reachability(h, answer) = "Reachable" THEN held
                               ELSE [w \in DOMAIN held |-> "unknown"],
                      !.todo = <<[kind |-> "Host", workload |-> "none"],
                                 [kind |-> "Catalog", workload |-> "none"]>>
                                 \o OneEach("Workload", ws) \o OneEach("Health", probed)
                                 \o IF usage THEN OneEach("Resources", ws) ELSE <<>>])
    BY <2>1
  <2> DEFINE probed == AtPositions(ws, {i \in DOMAIN ws : ws[i] \in Probed})
             seen == [w \in DOMAIN held |-> WorkloadStatus(h, answer, shown[w])]
             kept == IF Reachability(h, answer) = "Reachable" THEN held
                     ELSE [w \in DOMAIN held |-> "unknown"]
             usage == /\ asked.resources
                      /\ Reachability(h, answer) = "Reachable" =>
                           \E w \in DOMAIN seen : seen[w] = "Running"
             first == <<[kind |-> "Host", workload |-> "none"],
                        [kind |-> "Catalog", workload |-> "none"]>>
             last == IF usage THEN OneEach("Resources", ws) ELSE <<>>
             todo == first \o OneEach("Workload", ws) \o OneEach("Health", probed) \o last
             new == [here EXCEPT !.at = "telling", !.answer = answer, !.seen = seen,
                                 !.held = kept, !.todo = todo]
  <2>3. NowDoes(p, new) /\ \A w \in DOMAIN held : shown[w] \in MayPrint(answer, held[w])
    BY <2>2
  <2>4. ToSet(ws) \in SUBSET Workloads
    BY <1>1 DEF ToSet
  <2>5. /\ seen \in Knowledge(Statuses) /\ kept \in Knowledge(Holdings)
        /\ DOMAIN seen = ToSet(ws) /\ DOMAIN kept = ToSet(ws)
        /\ \A w \in ToSet(ws) : IsTrueOf(seen[w], kept[w], answer)
    <3>1. \A w \in ToSet(ws) :
            /\ WorkloadStatus(h, answer, shown[w]) \in Statuses
            /\ IsTrueOf(WorkloadStatus(h, answer, shown[w]),
                        IF Reachability(h, answer) = "Reachable" THEN held[w] ELSE "unknown",
                        answer)
      BY <2>3, AnswersAreTrue
    <3>2. seen \in [ToSet(ws) -> Statuses] /\ \A w \in ToSet(ws) :
            seen[w] = WorkloadStatus(h, answer, shown[w])
      BY <3>1
    <3>3. kept \in [ToSet(ws) -> Holdings] /\ \A w \in ToSet(ws) :
            kept[w] = IF Reachability(h, answer) = "Reachable" THEN held[w] ELSE "unknown"
      <4>1. CASE Reachability(h, answer) = "Reachable"
        BY <4>1 DEF Holdings
      <4>2. CASE Reachability(h, answer) # "Reachable"
        BY <4>2 DEF Holdings
      <4> QED
        BY <4>1, <4>2
    <3> HIDE DEF seen, kept
    <3> QED
      BY <2>4, <3>1, <3>2, <3>3 DEF Knowledge
  <2>7. probed \in Seq(Workloads)
    <3>1. {i \in DOMAIN ws : ws[i] \in Probed} \in SUBSET DOMAIN ws
      OBVIOUS
    <3> QED
      BY <1>1, <3>1, PositionsAreTaken
  <2>8. ASSUME NEW kind \in {"Workload", "Health", "Resources"}, NEW some \in Seq(Workloads)
        PROVE  OneEach(kind, some) \in Seq(OneMessage)
    <3>1. some \in [1..Len(some) -> Workloads] /\ DOMAIN some = 1..Len(some) /\ Len(some) \in Nat
      OBVIOUS
    <3>2. \A i \in 1..Len(some) : [kind |-> kind, workload |-> some[i]] \in OneMessage
      BY <3>1 DEF OneMessage
    <3> HIDE DEF OneMessage
    <3>3. OneEach(kind, some) \in [1..Len(some) -> OneMessage]
      BY <3>1, <3>2 DEF OneEach
    <3> QED
      BY <3>1, <3>3
  <2> HIDE DEF probed, seen, kept
  <2>9. /\ first \in Seq(OneMessage) /\ OneEach("Workload", ws) \in Seq(OneMessage)
        /\ OneEach("Health", probed) \in Seq(OneMessage) /\ last \in Seq(OneMessage)
        /\ Len(first) = 2
        /\ \A i \in 1..2 : first[i].kind # "Workload"
        /\ \A i \in DOMAIN OneEach("Workload", ws) :
             OneEach("Workload", ws)[i].workload \in ToSet(ws)
        /\ \A i \in DOMAIN OneEach("Health", probed) :
             OneEach("Health", probed)[i].kind # "Workload"
        /\ \A i \in DOMAIN last : last[i].kind # "Workload"
    <3>1. <<>> \in Seq(OneMessage) /\ DOMAIN <<>> = {}
      OBVIOUS
    <3> HIDE DEF usage
    <3>2. first \in Seq(OneMessage) /\ Len(first) = 2 /\ \A i \in 1..2 : first[i].kind # "Workload"
      BY DEF OneMessage
    <3>3. \A i \in DOMAIN OneEach("Workload", ws) :
             OneEach("Workload", ws)[i].workload \in ToSet(ws)
      BY DEF OneEach, ToSet
    <3>4. /\ OneEach("Workload", ws) \in Seq(OneMessage)
          /\ OneEach("Health", probed) \in Seq(OneMessage)
          /\ OneEach("Resources", ws) \in Seq(OneMessage)
      BY <1>1, <2>7, <2>8
    <3>5. /\ \A i \in DOMAIN OneEach("Health", probed) :
             OneEach("Health", probed)[i].kind # "Workload"
          /\ \A i \in DOMAIN OneEach("Resources", ws) :
             OneEach("Resources", ws)[i].kind # "Workload"
      BY DEF OneEach
    <3>6. last \in Seq(OneMessage) /\ \A i \in DOMAIN last : last[i].kind # "Workload"
      <4>1. CASE usage
        BY <3>4, <3>5, <4>1
      <4>2. CASE ~usage
        BY <3>1, <4>2
      <4> QED
        BY <4>1, <4>2
    <3> QED
      BY <3>2, <3>3, <3>4, <3>5, <3>6
  <2>10. /\ todo \in Seq(OneMessage) /\ todo # <<>>
         /\ \A i \in DOMAIN todo : todo[i].kind = "Workload" => todo[i].workload \in ToSet(ws)
    <3> DEFINE second == OneEach("Workload", ws)
               third == OneEach("Health", probed)
    <3> HIDE DEF second, third, first, last
    <3>1. /\ first \o second \in Seq(OneMessage) /\ Len(first \o second) = 2 + Len(second)
          /\ \A i \in DOMAIN (first \o second) :
               (first \o second)[i].kind = "Workload" =>
                 (first \o second)[i].workload \in ToSet(ws)
      <4>1. \A i \in DOMAIN first : first[i].kind # "Workload"
        BY <2>9
      <4> QED
        BY <2>9, <4>1, Concatenated DEF second
    <3> DEFINE two == first \o second
    <3> HIDE DEF two
    <3>2. /\ two \o third \in Seq(OneMessage) /\ Len(two \o third) = Len(two) + Len(third)
          /\ \A i \in DOMAIN (two \o third) :
               (two \o third)[i].kind = "Workload" => (two \o third)[i].workload \in ToSet(ws)
      BY <2>9, <3>1, Concatenated DEF third, two
    <3> DEFINE three == two \o third
    <3> HIDE DEF three
    <3>3. /\ three \o last \in Seq(OneMessage) /\ Len(three \o last) = Len(three) + Len(last)
          /\ \A i \in DOMAIN (three \o last) :
               (three \o last)[i].kind = "Workload" => (three \o last)[i].workload \in ToSet(ws)
      BY <2>9, <3>2, Concatenated DEF three
    <3>4. Len(three \o last) >= 2
      <4>1. /\ Len(second) \in Nat /\ Len(third) \in Nat /\ Len(last) \in Nat
        BY <2>9 DEF second, third
      <4>2. Len(two) = 2 + Len(second) /\ Len(three) = Len(two) + Len(third)
        BY <3>1, <3>2 DEF two, three
      <4> QED
        BY <3>3, <4>1, <4>2
    <3>5. todo = three \o last
      BY DEF three, two, second, third, first, last
    <3>6. todo # <<>>
      BY <3>4, <3>5
    <3> HIDE DEF todo
    <3> QED
      BY <3>3, <3>5, <3>6
  <2> HIDE DEF todo
  <2>11. /\ new \in Prober /\ new.at = "telling" /\ new.todo = todo /\ new.seen = seen
         /\ new.held = kept /\ new.answer = answer
    BY <1>1, <2>5, <2>10 DEF Prober
  <2>12. KnowsWhatItTells(new)
    BY <2>5, <2>10, <2>11 DEF KnowsWhatItTells
  <2>13. prober' \in [Probers -> Prober] /\ \A q \in Probers : KnowsWhatItTells(prober'[q])
    BY <2>3, <2>11, <2>12, ProberGoesOn
  <2> QED
    BY <1>1, <2>13 DEF StatusInv, StatusTypes, ReportsRestOnAnswers
<1> QED
  BY <1>2, <1>3

LEMMA TellsKeeps ==
  ASSUME StatusInv, NEW p \in Probers, Tells(p)
  PROVE  StatusInv'
<1> DEFINE here == prober[p]
<1>1. UNCHANGED <<asked, jobs>> /\ here \in Prober /\ KnowsWhatItTells(here) /\ here.at = "telling"
  BY DEF Tells, StatusInv, StatusTypes
<1>2. KnowsWhatItTells(Waiting)
  BY WaitingIsTyped DEF KnowsWhatItTells
<1>3. CASE Cancelled
  <2>1. NowDoes(p, Waiting) /\ told' = told
    BY <1>3 DEF Tells
  <2>2. prober' \in [Probers -> Prober] /\ \A q \in Probers : KnowsWhatItTells(prober'[q])
    BY <1>2, <2>1, WaitingIsTyped, ProberGoesOn
  <2> QED
    BY <1>1, <2>1, <2>2 DEF StatusInv, StatusTypes, ReportsRestOnAnswers
<1>4. CASE ~Cancelled
  <2>1. PICK content \in Contents(here) :
          /\ told' = told (+) SetToBag({Report(p, content[1], content[2])})
          /\ NowDoes(p, IF Len(here.todo) = 1 THEN Waiting ELSE [here EXCEPT !.todo = Tail(@)])
    BY <1>4 DEF Tells
  <2> DEFINE report == Report(p, content[1], content[2])
             first == Head(here.todo)
  <2>2. /\ here.todo \in Seq(OneMessage) /\ here.todo # <<>>
        /\ first = here.todo[1] /\ 1 \in DOMAIN here.todo
        /\ first.kind = "Workload" => first.workload \in DOMAIN here.seen
    <3>1. here.todo \in Seq(OneMessage) /\ here.todo # <<>>
      BY <1>1 DEF Prober, KnowsWhatItTells
    <3>2. first = here.todo[1] /\ 1 \in DOMAIN here.todo
      BY <3>1
    <3> QED
      BY <1>1, <3>1, <3>2 DEF KnowsWhatItTells
  <2>3. /\ report.kind = first.kind /\ report.status = content[1] /\ report.was = content[2]
        /\ report.by = here.answer
    BY DEF Report
  <2>4. /\ report.kind = "Workload" => IsTrueOf(report.status, report.was, report.by)
        /\ report.kind = "Health" =>
             /\ report.status = "Serving" => report.was = "serves"
             /\ report.status = "NotServing" => report.was = "fails"
    <3>1. CASE first.kind = "Workload"
      <4>1. content = <<here.seen[first.workload], here.held[first.workload]>>
        BY <2>1, <3>1 DEF Contents
      <4> QED
        BY <1>1, <2>2, <2>3, <3>1, <4>1 DEF KnowsWhatItTells
    <3>2. CASE first.kind = "Health"
      <4>1. content \in HealthContents(here)
        BY <2>1, <3>2 DEF Contents
      <4> QED
        BY <2>3, <3>2, <4>1, HealthIsTrue
    <3> QED
      BY <2>3, <3>1, <3>2
  <2>5. DOMAIN told' = DOMAIN told \cup {report}
    BY <2>1 DEF (+), SetToBag
  <2> HIDE DEF report
  <2>6. ReportsRestOnAnswers'
    BY <2>4, <2>5 DEF StatusInv, ReportsRestOnAnswers, IsTrueOf
  <2>7. CASE Len(here.todo) = 1
    <3>1. prober' \in [Probers -> Prober] /\ \A q \in Probers : KnowsWhatItTells(prober'[q])
      BY <1>2, <2>1, <2>7, WaitingIsTyped, ProberGoesOn
    <3> QED
      BY <1>1, <2>6, <3>1 DEF StatusInv, StatusTypes
  <2>8. CASE Len(here.todo) # 1
    <3> DEFINE rest == Tail(here.todo)
               new == [here EXCEPT !.todo = rest]
    <3>1. /\ rest \in Seq(OneMessage) /\ rest # <<>>
          /\ \A i \in DOMAIN rest :
               rest[i].kind = "Workload" => rest[i].workload \in DOMAIN here.seen
      <4>1. /\ rest \in Seq(OneMessage) /\ Len(rest) = Len(here.todo) - 1
            /\ Len(here.todo) \in Nat \ {0, 1}
            /\ \A i \in 1..Len(rest) : rest[i] = here.todo[i + 1]
        BY <2>2, <2>8
      <4> HIDE DEF rest
      <4>2. rest # <<>> /\ \A i \in DOMAIN rest : i \in 1..Len(rest) /\ i + 1 \in DOMAIN here.todo
        <5>1. /\ Len(rest) \in Nat /\ Len(rest) # 0 /\ DOMAIN rest = 1..Len(rest)
              /\ DOMAIN here.todo = 1..(Len(rest) + 1)
          BY <2>2, <4>1
        <5>2. rest # <<>>
          BY <5>1
        <5> QED
          BY <5>1, <5>2
      <4>3. \A j \in DOMAIN here.todo :
              here.todo[j].kind = "Workload" => here.todo[j].workload \in DOMAIN here.seen
        BY <1>1 DEF KnowsWhatItTells
      <4>4. ASSUME NEW i \in DOMAIN rest, rest[i].kind = "Workload"
            PROVE  rest[i].workload \in DOMAIN here.seen
        <5>1. rest[i] = here.todo[i + 1] /\ i + 1 \in DOMAIN here.todo
          BY <4>1, <4>2
        <5> QED
          BY <4>3, <4>4, <5>1
      <4> QED
        BY <4>1, <4>2, <4>4
    <3> HIDE DEF rest
    <3>2. /\ new \in Prober /\ new.at = "telling" /\ new.todo = rest /\ new.seen = here.seen
          /\ new.held = here.held /\ new.answer = here.answer
      BY <1>1, <3>1 DEF Prober
    <3>3. KnowsWhatItTells(new)
      BY <1>1, <3>1, <3>2 DEF KnowsWhatItTells
    <3>4. NowDoes(p, new)
      BY <2>1, <2>8 DEF rest
    <3>5. prober' \in [Probers -> Prober] /\ \A q \in Probers : KnowsWhatItTells(prober'[q])
      BY <3>2, <3>3, <3>4, ProberGoesOn
    <3> QED
      BY <1>1, <2>6, <3>5 DEF StatusInv, StatusTypes
  <2> QED
    BY <2>7, <2>8
<1> QED
  BY <1>3, <1>4

LEMMA TakesHostKeeps ==
  ASSUME StatusInv, NEW p \in Probers, TakesHost(p)
  PROVE  StatusInv'
<1>1. UNCHANGED <<asked, told>> /\ prober[p] \in Prober /\ prober[p].at = "waiting"
  BY DEF TakesHost, StatusInv, StatusTypes
<1>2. CASE Cancelled \/ jobs = <<>>
  <2> DEFINE new == [prober[p] EXCEPT !.at = "over"]
  <2>1. NowDoes(p, new) /\ jobs' = jobs
    BY <1>2 DEF TakesHost
  <2>2. new \in Prober /\ new.at = "over"
    BY <1>1 DEF Prober
  <2>3. prober' \in [Probers -> Prober] /\ \A q \in Probers : KnowsWhatItTells(prober'[q])
    BY <2>1, <2>2, ProberGoesOn DEF KnowsWhatItTells
  <2> QED
    BY <1>1, <2>1, <2>3 DEF StatusInv, StatusTypes, ReportsRestOnAnswers
<1>3. CASE ~(Cancelled \/ jobs = <<>>)
  <2> DEFINE new == [Waiting EXCEPT !.at = "listing", !.entry = Head(jobs)]
  <2>1. NowDoes(p, new) /\ jobs' = Tail(jobs) /\ jobs # <<>>
    BY <1>3 DEF TakesHost
  <2>2. jobs \in Seq(EntryKind) /\ Head(jobs) \in EntryKind /\ Tail(jobs) \in Seq(EntryKind)
    BY <2>1 DEF StatusInv, StatusTypes
  <2>3. new \in Prober /\ new.at = "listing"
    BY <2>2, WaitingIsTyped DEF Prober
  <2>4. prober' \in [Probers -> Prober] /\ \A q \in Probers : KnowsWhatItTells(prober'[q])
    BY <2>1, <2>3, ProberGoesOn DEF KnowsWhatItTells
  <2> QED
    BY <1>1, <2>1, <2>2, <2>4 DEF StatusInv, StatusTypes, ReportsRestOnAnswers
<1> QED
  BY <1>2, <1>3

\* classify_result and classify_health, for any hosts, workloads and workers and
\* any answers: a workload is told to run, to have ended, to serve or not to
\* serve only as it was, and to be missing only when the host answered.
THEOREM WhatIsToldWasAnswered == StatusSpec => []ReportsRestOnAnswers
<1>1. StatusInit => StatusInv
  <2> SUFFICES ASSUME StatusInit PROVE StatusInv
    OBVIOUS
  <2>1. jobs \in Seq(EntryKind)
    BY NormalizedIsTyped DEF StatusInit
  <2>2. DOMAIN told = {}
    BY DEF StatusInit, EmptyBag, SetToBag
  <2>3. \A p \in Probers : prober[p] \in Prober /\ KnowsWhatItTells(prober[p])
    BY WaitingIsTyped DEF StatusInit, KnowsWhatItTells
  <2> QED
    BY <2>1, <2>2, <2>3 DEF StatusInit, StatusInv, StatusTypes, ReportsRestOnAnswers
<1>2. StatusInv /\ [StatusNext]_statusVars => StatusInv'
  <2> SUFFICES ASSUME StatusInv, [StatusNext]_statusVars PROVE StatusInv'
    OBVIOUS
  <2>1. CASE Finishes \/ CancelsStatus \/ UNCHANGED statusVars
    BY <2>1 DEF Finishes, CancelsStatus, statusVars, StatusInv, StatusTypes, ReportsRestOnAnswers
  <2>2. CASE \E p \in Probers : TakesHost(p) \/ Lists(p) \/ Tells(p)
    BY <2>2, TakesHostKeeps, ListsKeeps, TellsKeeps
  <2> QED
    BY <2>1, <2>2 DEF StatusNext
<1>3. StatusInv => ReportsRestOnAnswers
  BY DEF StatusInv
<1> QED
  BY <1>1, <1>2, <1>3, PTL DEF StatusSpec

-----------------------------------------------------------------------------
(* The picker: what holds between two steps *)

Stages == {"Host", "Resource", "Directory", "Command", "Placement"}
RowKinds == {"owned", "external", "create", "none"}
Meanings ==
  [kind : {"none", "create", "external", "resume", "restart", "remove"}, id : Nat,
   group : Groups \cup {0}, directory : Groups \cup {0}]
Screens ==
  [stage : Stages, host : Nat \ {0}, row : Nat \ {0}, input : {"none", "path"},
   resume : Ids \cup {0}, restart : Ids \cup {0}, external : Externals \cup {0},
   directory : Groups \cup {0}, error : BOOLEAN, meant : Meanings]

\* The rows of a group are workloads of its destination.
AtHome(rs) ==
  /\ rs \in [Groups -> Seq(Ids)]
  /\ \A g \in Groups : \A i \in DOMAIN rs[g] : HomeOf[rs[g][i]] = g

PickerTypes ==
  /\ AtHome(rows) /\ status \in [Ids -> Kinds]
  /\ host \in [Names -> {"unknown", "reachable", "unreachable"}]
  /\ work \in [Ids -> {"unknown", "running", "other"}]
  /\ catalog \in [Names -> Seq(Externals)]
  /\ closing # NoModal => closing.id \in Ids
  /\ modal # NoModal => modal.id \in Ids
  /\ ui \in Screens

\* The cursor is on a host that is listed and, once a host is confirmed, on a
\* row of it.
CursorIsOnARow ==
  /\ ui.host \in DOMAIN ShownBy(rows)
  /\ ui.stage # "Host" => ui.row \in DOMAIN RowsBy(rows, catalog, Here)

\* On the way to the placement the screen keeps what it is for, on the host it
\* was chosen on.  Only rows of workloads do without that host being listed.
ScreenIsForWhatWasChosen ==
  /\ ui.stage = "Directory" =>
       /\ ui.resume = 0 /\ ui.restart = 0 /\ ui.external = 0
       /\ ui.meant.kind = "create" /\ ui.meant.id = 0 /\ ui.meant.group = Here
       /\ Here \in Effective
  /\ ui.stage \in {"Command", "Placement"} =>
       /\ Selection = ui.meant
       /\ Selection.kind = "create" => ui.directory = Here
       /\ Selection.kind \in {"create", "external"} => Here \in Effective
  /\ ui.stage = "Command" => ui.resume = 0 /\ ui.restart = 0 /\ ui.external = 0

\* What is acted on was told in the refresh under way.  A name is the answer of
\* one of its groups.
AnswersAreFresh ==
  /\ \A n \in Names :
       host[n] = "reachable" => \E g \in Groups : NameOf[g] = n /\ Row("host", g) \in fresh
  /\ \A w \in Ids :
       (Observable(rows, status, w) /\ work[w] = "running") => Row("work", w) \in fresh

PickerInv ==
  /\ PickerTypes
  /\ CursorIsOnARow
  /\ ScreenIsForWhatWasChosen
  /\ AnswersAreFresh

-----------------------------------------------------------------------------
(* The picker: its rows *)

\* A place found is one of the sequence, and what is there has one.
LEMMA PositionIsFound ==
  ASSUME NEW seq, Len(seq) \in Nat, NEW x
  PROVE  /\ Position(seq, x) \in 0..Len(seq)
         /\ Position(seq, x) # 0 => seq[Position(seq, x)] = x
         /\ \A i \in 1..Len(seq) : seq[i] = x => Position(seq, x) # 0
<1> DEFINE I == {i \in 1..Len(seq) : seq[i] = x}
<1>1. Position(seq, x) = IF I # {} THEN Min(I) ELSE 0
  BY DEF Position, SelectInSeq
<1>2. I # {} => Min(I) \in I
  <2> SUFFICES ASSUME I # {} PROVE Min(I) \in I
    OBVIOUS
  <2>1. I \in SUBSET Nat /\ IsFiniteSet(I)
    <3>1. IsFiniteSet(1..Len(seq))
      BY FS_Interval
    <3> QED
      BY <3>1, FS_Subset
  <2> DEFINE c == Cardinality(I)
             first == InOrder(I)[1]
  <2> HIDE DEF I
  <2>2. c \in Nat
    BY <2>1, FS_CardinalityType
  <2>3. /\ InOrder(I) \in Seq(I) /\ Len(InOrder(I)) = c
        /\ \A i \in I : \E k \in 1..c : InOrder(I)[k] = i
        /\ \A j, k \in 1..c : j < k => InOrder(I)[j] < InOrder(I)[k]
    BY <2>1, InOrderIsSorted
  <2>4. 1 \in 1..c
    BY <2>2, <2>3
  <2>5. first \in I
    BY <2>3, <2>4
  <2> HIDE DEF c
  <2>6. \A i \in I : first <= i
    <3> SUFFICES ASSUME NEW i \in I PROVE first <= i
      OBVIOUS
    <3>1. PICK k \in 1..c : InOrder(I)[k] = i
      BY <2>3
    <3>2. CASE k = 1
      <4>1. first = i /\ i \in Nat
        BY <2>1, <3>1, <3>2
      <4> HIDE DEF first
      <4> QED
        BY <4>1
    <3>3. CASE k # 1
      <4>1. 1 < k
        BY <2>2, <3>3
      <4>2. first < i
        BY <2>3, <2>4, <3>1, <4>1
      <4>3. first \in Nat /\ i \in Nat
        BY <2>1, <2>5
      <4> HIDE DEF first
      <4> QED
        BY <4>2, <4>3
    <3> QED
      BY <3>2, <3>3
  <2> HIDE DEF first
  <2> QED
    BY <2>5, <2>6 DEF Min
<1>3. CASE I = {}
  BY <1>1, <1>3
<1>4. CASE I # {}
  <2> DEFINE found == Min(I)
  <2>1. found \in I /\ Position(seq, x) = found
    BY <1>1, <1>2, <1>4
  <2> HIDE DEF found
  <2>2. found \in 1..Len(seq) /\ seq[found] = x
    BY <2>1
  <2> QED
    BY <2>1, <2>2
<1> QED
  BY <1>3, <1>4

\* The hosts that are listed: those of the configuration, and those with rows.
LEMMA HostsAreListed ==
  ASSUME NEW rs
  PROVE  /\ ShownBy(rs) \in Seq(Groups) /\ Len(ShownBy(rs)) \in Nat \ {0}
         /\ \A i \in DOMAIN ShownBy(rs) :
              ShownBy(rs)[i] \in Effective \/ rs[ShownBy(rs)[i]] # <<>>
         /\ \A g \in Groups :
              g \in Effective \/ rs[g] # <<>> => \E i \in DOMAIN ShownBy(rs) : ShownBy(rs)[i] = g
<1> DEFINE S == {g \in Groups : g \in Effective \/ rs[g] # <<>>}
<1>1. /\ S \in SUBSET Nat /\ IsFiniteSet(S) /\ 1 \in S /\ S \in SUBSET Groups
  <2>1. GroupCount \in Nat /\ 1 \in Effective /\ 1 \in Groups
    BY PickerAssumption DEF Groups
  <2>2. IsFiniteSet(Groups) /\ Groups \in SUBSET Nat
    BY <2>1, FS_Interval DEF Groups
  <2> QED
    BY <2>1, <2>2, FS_Subset
<1>2. /\ InOrder(S) \in Seq(S) /\ Len(InOrder(S)) = Cardinality(S)
      /\ \A g \in S : \E k \in 1..Cardinality(S) : InOrder(S)[k] = g
  <2> HIDE DEF S
  <2> QED
    BY <1>1, InOrderIsSorted
<1>3. ShownBy(rs) = InOrder(S)
  BY DEF ShownBy
<1>4. DOMAIN InOrder(S) = 1..Cardinality(S) /\ Len(InOrder(S)) \in Nat \ {0}
  <2> HIDE DEF S
  <2>1. PICK k \in 1..Cardinality(S) : InOrder(S)[k] = 1
    BY <1>1, <1>2
  <2>2. DOMAIN InOrder(S) = 1..Len(InOrder(S)) /\ Len(InOrder(S)) \in Nat
    BY <1>2
  <2> QED
    BY <1>2, <2>1, <2>2
<1>5. \A i \in DOMAIN InOrder(S) : InOrder(S)[i] \in S
  <2> HIDE DEF S
  <2> QED
    BY <1>2
<1>6. InOrder(S) \in Seq(Groups)
  <2> DEFINE order == InOrder(S)
  <2>1. /\ order \in Seq(S) /\ DOMAIN order = 1..Len(order) /\ Len(order) \in Nat
        /\ \A i \in DOMAIN order : order[i] \in Groups
    BY <1>1, <1>2, <1>4, <1>5
  <2> HIDE DEF order, S, Groups
  <2>2. order \in [1..Len(order) -> Groups]
    BY <2>1
  <2>3. order \in Seq(Groups)
    BY <2>1, <2>2
  <2> QED
    BY <2>3 DEF order
<1> QED
  BY <1>2, <1>3, <1>4, <1>5, <1>6

ShownRow == [kind : {"owned", "external", "create"}, id : Nat]

\* The rows of a group: its workloads, and on a configured host the sessions
\* there and "create" at the end.
LEMMA RowsAre ==
  ASSUME NEW rs, AtHome(rs), NEW cat \in [Names -> Seq(Externals)], NEW g \in Groups
  PROVE  LET list == RowsBy(rs, cat, g)
         IN  /\ list \in Seq(ShownRow) /\ Len(list) \in Nat
             /\ \A i \in DOMAIN rs[g] : i \in DOMAIN list /\ list[i] = Row("owned", rs[g][i])
             /\ \A i \in DOMAIN list :
                  /\ list[i].kind = "owned" =>
                       i \in DOMAIN rs[g] /\ list[i] = Row("owned", rs[g][i])
                  /\ list[i].kind = "external" => g \in Effective /\ list[i].id \in Externals
                  /\ list[i].kind = "create" => g \in Effective /\ list[i] = Create
             /\ g \in Effective => \E i \in DOMAIN list : list[i] = Create
             /\ g \in Effective \/ rs[g] # <<>> => Len(list) # 0
<1> DEFINE own == [i \in DOMAIN rs[g] |-> Row("owned", rs[g][i])]
           ext == [i \in DOMAIN cat[NameOf[g]] |-> Row("external", cat[NameOf[g]][i])]
           rest == IF g \in Effective THEN ext \o <<Create>> ELSE <<>>
           list == RowsBy(rs, cat, g)
<1>1. list = own \o rest
  BY DEF RowsBy
<1>2. rs[g] \in Seq(Ids) /\ cat[NameOf[g]] \in Seq(Externals)
  BY DEF AtHome, Names
<1>3. Ids \in SUBSET Nat /\ Externals \in SUBSET Nat
  BY PickerAssumption
<1>4. /\ own \in Seq(ShownRow) /\ Len(own) = Len(rs[g]) /\ DOMAIN own = DOMAIN rs[g]
      /\ DOMAIN rs[g] = 1..Len(rs[g]) /\ Len(rs[g]) \in Nat
      /\ \A i \in DOMAIN rs[g] : own[i] = Row("owned", rs[g][i])
  <2>1. \A i \in DOMAIN rs[g] : Row("owned", rs[g][i]) \in ShownRow
    <3> SUFFICES ASSUME NEW i \in DOMAIN rs[g] PROVE Row("owned", rs[g][i]) \in ShownRow
      OBVIOUS
    <3>1. rs[g][i] \in Ids
      BY <1>2
    <3> QED
      BY <1>3, <3>1 DEF Row, ShownRow
  <2> HIDE DEF ShownRow
  <2> QED
    BY <1>2, <2>1
<1>5. /\ ext \in Seq(ShownRow)
      /\ \A i \in DOMAIN ext : ext[i].kind = "external" /\ ext[i].id \in Externals
  <2>1. \A i \in DOMAIN cat[NameOf[g]] :
          /\ Row("external", cat[NameOf[g]][i]) \in ShownRow
          /\ cat[NameOf[g]][i] \in Externals
    <3> SUFFICES ASSUME NEW i \in DOMAIN cat[NameOf[g]]
                 PROVE  /\ Row("external", cat[NameOf[g]][i]) \in ShownRow
                        /\ cat[NameOf[g]][i] \in Externals
      OBVIOUS
    <3>1. cat[NameOf[g]][i] \in Externals
      BY <1>2
    <3> QED
      BY <1>3, <3>1 DEF Row, ShownRow
  <2> HIDE DEF ShownRow
  <2>2. ext \in Seq(ShownRow)
    BY <1>2, <2>1
  <2>3. \A i \in DOMAIN ext : ext[i].kind = "external" /\ ext[i].id \in Externals
    BY <2>1 DEF Row
  <2> QED
    BY <2>2, <2>3
<1>6. /\ rest \in Seq(ShownRow) /\ Len(rest) \in Nat
      /\ \A i \in DOMAIN rest :
           /\ rest[i].kind # "owned" /\ g \in Effective
           /\ rest[i].kind = "external" => rest[i].id \in Externals
           /\ rest[i].kind = "create" => rest[i] = Create
      /\ g \in Effective => Len(rest) # 0 /\ rest[Len(rest)] = Create
  <2> HIDE DEF ext
  <2>1. CASE g \notin Effective
    BY <2>1
  <2>2. CASE g \in Effective
    <3>1. Create \in ShownRow /\ Create.kind = "create"
      BY DEF Create, Row, ShownRow
    <3> HIDE DEF ShownRow
    <3>2. /\ rest \in Seq(ShownRow) /\ Len(rest) = Len(ext) + 1 /\ Len(ext) \in Nat
          /\ DOMAIN ext = 1..Len(ext)
          /\ \A i \in 1..Len(rest) : rest[i] = IF i <= Len(ext) THEN ext[i] ELSE Create
      <4> DEFINE end == <<Create>>
      <4>1. /\ ext \in Seq(ShownRow) /\ end \in Seq(ShownRow) /\ Len(end) = 1
            /\ end[1] = Create
        BY <1>5, <3>1
      <4>2. rest = ext \o end
        BY <2>2
      <4> HIDE DEF end, rest
      <4>3. /\ rest \in Seq(ShownRow) /\ Len(rest) = Len(ext) + Len(end)
            /\ Len(ext) \in Nat /\ DOMAIN ext = 1..Len(ext)
            /\ \A i \in 1..Len(rest) :
                 rest[i] = IF i <= Len(ext) THEN ext[i] ELSE end[i - Len(ext)]
        BY <4>1, <4>2, Together
      <4>4. \A i \in 1..Len(rest) : ~(i <= Len(ext)) => i - Len(ext) = 1
        BY <4>1, <4>3
      <4> QED
        BY <4>1, <4>3, <4>4
    <3> HIDE DEF rest
    <3>3. DOMAIN rest = 1..Len(rest) /\ Len(rest) # 0 /\ Len(rest) \in Nat
      BY <3>2
    <3>4. rest[Len(rest)] = Create
      BY <3>2, <3>3
    <3>5. \A i \in DOMAIN rest : (i \in DOMAIN ext /\ rest[i] = ext[i]) \/ rest[i] = Create
      BY <3>2, <3>3
    <3>6. ASSUME NEW i \in DOMAIN rest
          PROVE  /\ rest[i].kind # "owned"
                 /\ rest[i].kind = "external" => rest[i].id \in Externals
                 /\ rest[i].kind = "create" => rest[i] = Create
      <4>1. CASE i \in DOMAIN ext /\ rest[i] = ext[i]
        BY <1>5, <4>1
      <4>2. CASE rest[i] = Create
        BY <3>1, <4>2
      <4> QED
        BY <3>5, <4>1, <4>2
    <3> QED
      BY <2>2, <3>2, <3>3, <3>4, <3>6
  <2> QED
    BY <2>1, <2>2
<1> HIDE DEF own, rest
<1>7. /\ list \in Seq(ShownRow) /\ Len(list) = Len(own) + Len(rest)
      /\ DOMAIN list = 1..Len(list)
      /\ \A i \in 1..Len(list) : list[i] = IF i <= Len(own) THEN own[i] ELSE rest[i - Len(own)]
  <2> HIDE DEF ShownRow
  <2>1. own \in Seq(ShownRow) /\ rest \in Seq(ShownRow)
    BY <1>4, <1>6
  <2> QED
    BY <1>1, <2>1, Together
<1> HIDE DEF list
<1>8. \A i \in DOMAIN rs[g] : i \in DOMAIN list /\ list[i] = Row("owned", rs[g][i])
  BY <1>4, <1>6, <1>7
<1>9. ASSUME NEW i \in DOMAIN list
      PROVE  /\ list[i].kind = "owned" => i \in DOMAIN rs[g] /\ list[i] = Row("owned", rs[g][i])
             /\ list[i].kind = "external" => g \in Effective /\ list[i].id \in Externals
             /\ list[i].kind = "create" => g \in Effective /\ list[i] = Create
  <2>1. i \in 1..Len(list) /\ Len(own) \in Nat /\ Len(rest) \in Nat
    BY <1>4, <1>6, <1>7, <1>9
  <2>2. CASE i <= Len(own)
    <3>1. i \in DOMAIN rs[g] /\ list[i] = Row("owned", rs[g][i])
      BY <1>4, <1>7, <2>1, <2>2
    <3> QED
      BY <3>1 DEF Row
  <2>3. CASE ~(i <= Len(own))
    <3>1. i - Len(own) \in DOMAIN rest /\ list[i] = rest[i - Len(own)]
      <4>1. i - Len(own) \in 1..Len(rest)
        BY <1>7, <2>1, <2>3
      <4>2. DOMAIN rest = 1..Len(rest)
        BY <1>6
      <4> QED
        BY <1>7, <2>1, <2>3, <4>1, <4>2
    <3> QED
      BY <1>6, <3>1
  <2> QED
    BY <2>2, <2>3
<1>10. ASSUME g \in Effective
       PROVE  \E i \in DOMAIN list : list[i] = Create
  <2>1. Len(rest) # 0 /\ rest[Len(rest)] = Create
    BY <1>6, <1>10
  <2>2. /\ Len(list) \in 1..Len(list) /\ ~(Len(list) <= Len(own))
        /\ Len(list) - Len(own) = Len(rest)
    BY <1>4, <1>6, <1>7, <2>1
  <2> QED
    BY <1>7, <2>1, <2>2
<1>11. Len(list) \in Nat
  BY <1>4, <1>6, <1>7
<1>12. g \in Effective \/ rs[g] # <<>> => Len(list) # 0
  <2>1. rs[g] # <<>> => Len(rs[g]) # 0
    BY <1>2
  <2> QED
    BY <1>4, <1>6, <1>7, <2>1
<1> QED
  BY <1>7, <1>8, <1>9, <1>10, <1>11, <1>12 DEF list

\* Rows sorted are the same rows.
LEMMA SortedAreThose ==
  ASSUME NEW ids \in SUBSET Ids, NEW st
  PROVE  Sorted(ids, st) \in Seq(ids)
<1> DEFINE A == {w \in ids : Rank(st[w]) = 0}
           B == {w \in ids : Rank(st[w]) = 1}
<1>1. /\ A \in SUBSET Nat /\ IsFiniteSet(A) /\ A \in SUBSET ids
      /\ B \in SUBSET Nat /\ IsFiniteSet(B) /\ B \in SUBSET ids
  BY PickerAssumption, FS_Subset
<1>2. Sorted(ids, st) = InOrder(A) \o InOrder(B)
  BY DEF Sorted
<1> HIDE DEF A, B
<1>3. InOrder(A) \in Seq(ids) /\ InOrder(B) \in Seq(ids)
  BY <1>1, InOrderIsSorted, Widened
<1> QED
  BY <1>2, <1>3, Together

\* A row that is reconciled is the only one that may be new, and it is at home.
LEMMA ReconciledIsAtHome ==
  ASSUME AtHome(rows), NEW w \in Ids, NEW kind
  PROVE  /\ AtHome(Reconciled(w, kind))
         /\ \A g \in Groups : ToSet(Reconciled(w, kind)[g]) \subseteq ToSet(rows[g]) \cup {w}
<1> DEFINE h == HomeOf[w]
           old == rows[h]
           st == [status EXCEPT ![w] = kind]
           new == IF kind = "Gone" THEN AtPositions(old, {i \in DOMAIN old : old[i] # w})
                  ELSE Sorted(ToSet(old) \cup {w}, st)
           rs == [rows EXCEPT ![h] = new]
           some == ToSet(old) \cup {w}
<1>1. Reconciled(w, kind) = rs
  BY DEF Reconciled
<1>2. h \in Groups /\ rows \in [Groups -> Seq(Ids)] /\ old \in Seq(Ids)
  BY PickerAssumption DEF AtHome
<1>3. some \in SUBSET Ids /\ \A v \in some : HomeOf[v] = h
  BY <1>2 DEF ToSet, AtHome
<1>4. new \in Seq(some)
  <2>1. CASE kind = "Gone"
    <3> DEFINE kept == {i \in DOMAIN old : old[i] # w}
    <3>1. kept \in SUBSET DOMAIN old /\ new = AtPositions(old, kept)
      BY <2>1
    <3>2. old \in Seq(ToSet(old))
      <4> HIDE DEF old
      <4> QED
        BY <1>2 DEF ToSet
    <3> HIDE DEF kept, new, old
    <3>3. new \in Seq(ToSet(old))
      BY <3>1, <3>2, PositionsAreTaken
    <3> QED
      BY <3>3, Widened
  <2>2. CASE kind # "Gone"
    <3>1. new = Sorted(some, st)
      BY <2>2
    <3> HIDE DEF new, some, st
    <3> QED
      BY <1>3, <3>1, SortedAreThose
  <2> QED
    BY <2>1, <2>2
<1> HIDE DEF new, some
<1>5. new \in Seq(Ids) /\ \A i \in DOMAIN new : new[i] \in some
  BY <1>3, <1>4, Widened
<1> HIDE DEF h
<1>6. /\ rs \in [Groups -> Seq(Ids)] /\ rs[h] = new
      /\ \A g \in Groups : g # h => rs[g] = rows[g]
  BY <1>2, <1>5
<1> HIDE DEF rs
<1>7. \A g \in Groups : \A i \in DOMAIN rs[g] : HomeOf[rs[g][i]] = g
  BY <1>3, <1>5, <1>6 DEF AtHome
<1>8. \A g \in Groups : ToSet(rs[g]) \subseteq ToSet(rows[g]) \cup {w}
  BY <1>5, <1>6 DEF ToSet, some
<1> QED
  BY <1>1, <1>6, <1>7, <1>8 DEF AtHome

-----------------------------------------------------------------------------
(* The picker: the cursor *)

\* The host of the cursor, and the row under it.
LEMMA UnderTheCursor ==
  ASSUME PickerTypes, CursorIsOnARow
  PROVE  /\ Here \in Groups /\ NameOf[Here] \in Names
         /\ Here \in Effective \/ rows[Here] # <<>>
         /\ Under.kind \in RowKinds
         /\ Under.kind = "owned" =>
              /\ Under.id \in Ids /\ HomeOf[Under.id] = Here /\ Under.id \in ToSet(rows[Here])
              /\ Under = Row("owned", Under.id)
         /\ Under.kind = "external" => Here \in Effective /\ Under.id \in Externals
         /\ Under.kind = "create" => Here \in Effective /\ Under = Create
         /\ Under.kind = "none" => ui.stage = "Host" /\ Under = Row("none", 0)
<1> DEFINE shown == ShownBy(rows)
           list == RowsBy(rows, catalog, Here)
<1>1. /\ shown \in Seq(Groups)
      /\ \A i \in DOMAIN shown : shown[i] \in Effective \/ rows[shown[i]] # <<>>
  BY HostsAreListed
<1>2. /\ Here \in Groups /\ NameOf[Here] \in Names
      /\ Here \in Effective \/ rows[Here] # <<>>
  <2>1. Here = shown[ui.host] /\ ui.host \in DOMAIN shown
    BY DEF Here, CursorIsOnARow
  <2> HIDE DEF shown
  <2>2. Here \in Groups
    BY <1>1, <2>1
  <2> QED
    BY <1>1, <2>1, <2>2 DEF Names
<1>3. /\ list \in Seq(ShownRow)
      /\ \A i \in DOMAIN list :
           /\ list[i].kind = "owned" =>
                i \in DOMAIN rows[Here] /\ list[i] = Row("owned", rows[Here][i])
           /\ list[i].kind = "external" => Here \in Effective /\ list[i].id \in Externals
           /\ list[i].kind = "create" => Here \in Effective /\ list[i] = Create
  BY <1>2, RowsAre DEF PickerTypes
<1>4. Under = IF ui.row \in DOMAIN list THEN list[ui.row]
              ELSE IF Here \in Effective THEN Create ELSE Row("none", 0)
  BY DEF Under
<1> HIDE DEF list
<1>5. CASE ui.row \in DOMAIN list
  <2> DEFINE row == list[ui.row]
  <2>1. Under = row /\ row \in ShownRow
    BY <1>3, <1>4, <1>5
  <2> HIDE DEF row
  <2>2. row.kind \in {"owned", "external", "create"}
    BY <2>1 DEF ShownRow
  <2>3. ASSUME row.kind = "owned"
        PROVE  /\ row.id \in Ids /\ HomeOf[row.id] = Here /\ row.id \in ToSet(rows[Here])
               /\ row = Row("owned", row.id)
    <3>1. ui.row \in DOMAIN rows[Here] /\ row = Row("owned", rows[Here][ui.row])
      BY <1>3, <1>5, <2>3 DEF row
    <3>2. row.id = rows[Here][ui.row]
      BY <3>1 DEF Row
    <3>3. rows[Here] \in Seq(Ids) /\ HomeOf[rows[Here][ui.row]] = Here
      BY <1>2, <3>1 DEF PickerTypes, AtHome
    <3> QED
      BY <3>1, <3>2, <3>3 DEF ToSet
  <2>4. /\ row.kind = "external" => Here \in Effective /\ row.id \in Externals
        /\ row.kind = "create" => Here \in Effective /\ row = Create
    BY <1>3, <1>5 DEF row
  <2> QED
    BY <1>2, <2>1, <2>2, <2>3, <2>4 DEF RowKinds
<1>6. CASE ui.row \notin DOMAIN list
  <2>1. ui.stage = "Host"
    BY <1>6 DEF CursorIsOnARow, list
  <2>2. Create.kind = "create" /\ Row("none", 0).kind = "none"
    BY DEF Create, Row
  <2>3. CASE Here \in Effective
    BY <1>2, <1>4, <1>6, <2>1, <2>2, <2>3 DEF RowKinds
  <2>4. CASE Here \notin Effective
    BY <1>2, <1>4, <1>6, <2>1, <2>2, <2>4 DEF RowKinds
  <2> QED
    BY <2>3, <2>4
<1> QED
  BY <1>5, <1>6

\* The cursor moved, and the screen is otherwise as it was.
OnlyTheCursorMoved ==
  \E h, r \in Nat \ {0} : ui' = [ui EXCEPT !.host = h, !.row = r]

\* Where a row is, in a group that has rows.
LEMMA RowIndexIsARow ==
  ASSUME NEW rs, AtHome(rs), NEW cat \in [Names -> Seq(Externals)], NEW g \in Groups,
         g \in Effective \/ rs[g] # <<>>, NEW row
  PROVE  /\ RowIndex(rs, cat, g, row) \in DOMAIN RowsBy(rs, cat, g)
         /\ RowIndex(rs, cat, g, row) \in Nat \ {0}
         /\ row \in ToSet(RowsBy(rs, cat, g))
              => RowsBy(rs, cat, g)[RowIndex(rs, cat, g, row)] = row
<1> DEFINE list == RowsBy(rs, cat, g)
           at == Position(list, row)
<1>1. list \in Seq(ShownRow) /\ Len(list) \in Nat /\ Len(list) # 0 /\ DOMAIN list = 1..Len(list)
  BY RowsAre
<1>2. RowIndex(rs, cat, g, row) = IF at = 0 THEN Len(list) ELSE at
  BY DEF RowIndex
<1> HIDE DEF list
<1>3. /\ at \in 0..Len(list) /\ (at # 0 => list[at] = row)
      /\ \A i \in 1..Len(list) : list[i] = row => at # 0
  BY <1>1, PositionIsFound
<1>4. row \in ToSet(list) => at # 0
  BY <1>1, <1>3 DEF ToSet
<1> HIDE DEF at
<1> QED
  BY <1>1, <1>2, <1>3, <1>4 DEF list

\* A message that leaves the groups alone: the cursor is kept on its row.
LEMMA KeepsRowFollows ==
  ASSUME PickerTypes, CursorIsOnARow, catalog' \in [Names -> Seq(Externals)],
         rows' = rows, KeepsRow(rows, catalog')
  PROVE  CursorIsOnARow' /\ CursorFollows /\ OnlyTheCursorMoved /\ Here' = Here
<1>1. /\ Here \in Groups /\ (Here \in Effective \/ rows[Here] # <<>>)
      /\ Under.kind = "none" => ui.stage = "Host" /\ Under = Row("none", 0)
  BY UnderTheCursor
<1>2. ui \in Screens /\ AtHome(rows)
  BY DEF PickerTypes
<1> DEFINE index == RowIndex(rows, catalog', Here, Under)
           list == RowsBy(rows, catalog', Here)
<1>3. /\ index \in DOMAIN list /\ index \in Nat \ {0}
      /\ Under \in ToSet(list) => list[index] = Under
  BY <1>1, <1>2, RowIndexIsARow
<1>4. /\ list \in Seq(ShownRow)
      /\ \A i \in DOMAIN list : list[i].kind # "none"
  <2>1. list \in Seq(ShownRow)
    BY <1>1, <1>2, RowsAre
  <2> HIDE DEF list
  <2>2. ASSUME NEW i \in DOMAIN list PROVE list[i].kind # "none"
    <3>1. list[i] \in ShownRow
      BY <2>1
    <3> QED
      BY <3>1 DEF ShownRow
  <2> QED
    BY <2>1, <2>2
<1> HIDE DEF index, list
<1>5. CASE Under.kind = "none"
  <2>1. ui' = ui /\ Here' = Here
    BY <1>5 DEF KeepsRow, Here
  <2>2. Under \notin ToSet(list)
    BY <1>4, <1>5 DEF ToSet
  <2>3. OnlyTheCursorMoved
    BY <1>2, <2>1 DEF OnlyTheCursorMoved, Screens
  <2> QED
    BY <1>1, <1>5, <2>1, <2>2, <2>3 DEF CursorIsOnARow, CursorFollows, list
<1>6. CASE Under.kind # "none"
  <2>1. ui' = [ui EXCEPT !.row = index]
    BY <1>6 DEF KeepsRow, index
  <2>2. ui'.host = ui.host /\ ui'.row = index /\ ui'.stage = ui.stage
    BY <1>2, <2>1 DEF Screens
  <2>3. Here' = Here
    BY <2>2 DEF Here
  <2>4. RowsBy(rows', catalog', Here') = list
    BY <2>3 DEF list
  <2>5. Under' = list[index]
    BY <1>3, <2>2, <2>4 DEF Under
  <2>6. CursorIsOnARow'
    BY <1>3, <2>2, <2>4 DEF CursorIsOnARow
  <2>7. CursorFollows
    BY <1>3, <2>3, <2>5 DEF CursorFollows, list
  <2>8. OnlyTheCursorMoved
    BY <1>2, <1>3, <2>1 DEF OnlyTheCursorMoved, Screens
  <2> QED
    BY <2>3, <2>6, <2>7, <2>8
<1> QED
  BY <1>5, <1>6

\* A message that rearranges the groups: the cursor follows its row.
LEMMA RestoredFollows ==
  ASSUME PickerTypes, CursorIsOnARow, catalog' = catalog, AtHome(rows'), ui' = Restored(rows')
  PROVE  CursorIsOnARow' /\ CursorFollows /\ OnlyTheCursorMoved
<1> DEFINE rs == rows'
           shown == ShownBy(rs)
           kept == Position(shown, Here)
           index == IF kept = 0 THEN AtMost(ui.host, Len(shown)) ELSE kept
           w == Under.id
           g == shown[index]
           list == RowsBy(rs, catalog, g)
<1>1. /\ Here \in Groups
      /\ Under.kind \in RowKinds
      /\ Under.kind = "owned" =>
           w \in Ids /\ HomeOf[w] = Here /\ Under = Row("owned", w)
      /\ Under.kind = "external" => Here \in Effective
      /\ Under.kind = "create" => Here \in Effective /\ Under = Create
      /\ Under.kind = "none" => ui.stage = "Host" /\ Under = Row("none", 0)
  BY UnderTheCursor
<1>2. /\ ui \in Screens /\ ui.host \in Nat \ {0} /\ ui.row \in Nat \ {0}
      /\ catalog \in [Names -> Seq(Externals)]
  BY DEF PickerTypes, Screens
<1>3. /\ shown \in Seq(Groups) /\ Len(shown) \in Nat \ {0} /\ DOMAIN shown = 1..Len(shown)
      /\ \A i \in DOMAIN shown : shown[i] \in Effective \/ rs[shown[i]] # <<>>
      /\ \A h \in Groups :
           h \in Effective \/ rs[h] # <<>> => \E i \in DOMAIN shown : shown[i] = h
  BY HostsAreListed
<1>4. ShownBy(rows') = shown
  OBVIOUS
<1>5. \A h : /\ Position(shown, h) \in 0..Len(shown)
             /\ Position(shown, h) # 0 => shown[Position(shown, h)] = h
             /\ h \in ToSet(shown) => Position(shown, h) # 0
  <2> HIDE DEF shown
  <2> SUFFICES ASSUME NEW h
               PROVE  /\ Position(shown, h) \in 0..Len(shown)
                      /\ Position(shown, h) # 0 => shown[Position(shown, h)] = h
                      /\ h \in ToSet(shown) => Position(shown, h) # 0
    OBVIOUS
  <2> QED
    BY <1>3, PositionIsFound DEF ToSet
<1> HIDE DEF shown
<1>6. index \in DOMAIN shown /\ index \in Nat \ {0} /\ (Here \in ToSet(shown) => g = Here)
  BY <1>2, <1>3, <1>5 DEF AtMost
<1> HIDE DEF index
<1>7. g \in Groups /\ (g \in Effective \/ rs[g] # <<>>)
  BY <1>3, <1>6
<1> HIDE DEF g
<1>8. list \in Seq(ShownRow) /\ Len(list) \in Nat \ {0} /\ DOMAIN list = 1..Len(list)
  BY <1>2, <1>7, RowsAre
<1>9. CASE Under.kind = "owned" /\ w \in ToSet(rs[HomeOf[w]])
  <2> DEFINE at == Position(rs[Here], w)
             hostAt == Position(shown, Here)
  <2>1. HomeOf[w] = Here /\ Under = Row("owned", w) /\ w \in ToSet(rs[Here])
    BY <1>1, <1>9
  <2>2. ui' = [ui EXCEPT !.host = hostAt, !.row = at]
    <3>1. ui' = [ui EXCEPT !.host = Position(ShownBy(rs), HomeOf[w]),
                           !.row = Position(rs[HomeOf[w]], w)]
      BY <1>9 DEF Restored
    <3> QED
      BY <2>1, <3>1 DEF shown
  <2>3. rs[Here] \in Seq(Ids) /\ rs[Here] # <<>> /\ Len(rs[Here]) \in Nat
        /\ DOMAIN rs[Here] = 1..Len(rs[Here])
    BY <1>1, <2>1 DEF AtHome, ToSet
  <2>4. at \in DOMAIN rs[Here] /\ rs[Here][at] = w
    <3>1. /\ at \in 0..Len(rs[Here]) /\ (at # 0 => rs[Here][at] = w)
          /\ \A i \in 1..Len(rs[Here]) : rs[Here][i] = w => at # 0
      BY <2>3, PositionIsFound
    <3>2. at # 0
      BY <2>1, <2>3, <3>1 DEF ToSet
    <3> HIDE DEF at
    <3> QED
      BY <2>3, <3>1, <3>2
  <2>5. hostAt \in DOMAIN shown /\ shown[hostAt] = Here
    <3>1. Here \in ToSet(shown)
      BY <1>1, <1>3, <2>3 DEF ToSet
    <3> QED
      BY <1>3, <1>5, <3>1
  <2> HIDE DEF at, hostAt
  <2>6. at \in Nat \ {0} /\ hostAt \in Nat \ {0}
    BY <1>3, <2>3, <2>4, <2>5
  <2>7. ui'.host = hostAt /\ ui'.row = at /\ ui'.stage = ui.stage
    BY <1>2, <2>2 DEF Screens
  <2>8. Here' = Here
    BY <1>4, <2>5, <2>7 DEF Here
  <2> DEFINE own == RowsBy(rs, catalog, Here)
  <2>9. at \in DOMAIN own /\ own[at] = Row("owned", w)
    BY <1>1, <1>2, <2>4, RowsAre
  <2>10. RowsBy(rows', catalog', Here') = own
    BY <2>8
  <2> HIDE DEF own
  <2>11. Under' = Under
    BY <2>1, <2>7, <2>9, <2>10 DEF Under
  <2>12. CursorIsOnARow'
    BY <1>4, <2>5, <2>7, <2>9, <2>10 DEF CursorIsOnARow
  <2>13. OnlyTheCursorMoved
    BY <2>2, <2>6 DEF OnlyTheCursorMoved
  <2> QED
    BY <2>8, <2>11, <2>12, <2>13 DEF CursorFollows
<1>10. CASE ~(Under.kind = "owned" /\ w \in ToSet(rs[HomeOf[w]]))
  <2> DEFINE at == IF Under.kind \in {"external", "create"} THEN RowIndex(rs, catalog, g, Under)
                   ELSE AtMost(ui.row, Len(list))
  <2>1. ui' = [ui EXCEPT !.host = index, !.row = at]
    BY <1>10 DEF Restored, index, shown, g
  <2>2. at \in DOMAIN list /\ at \in Nat \ {0}
    <3>1. /\ RowIndex(rs, catalog, g, Under) \in DOMAIN list
          /\ RowIndex(rs, catalog, g, Under) \in Nat \ {0}
      BY <1>2, <1>7, RowIndexIsARow
    <3>2. AtMost(ui.row, Len(list)) \in DOMAIN list /\ AtMost(ui.row, Len(list)) \in Nat \ {0}
      <4> HIDE DEF list
      <4> QED
        BY <1>2, <1>8 DEF AtMost
    <3> QED
      BY <3>1, <3>2
  <2> HIDE DEF at
  <2>3. ui'.host = index /\ ui'.row = at /\ ui'.stage = ui.stage
    BY <1>2, <2>1 DEF Screens
  <2>4. Here' = g
    BY <1>4, <2>3 DEF Here, g
  <2>5. RowsBy(rows', catalog', Here') = list
    BY <2>4
  <2>6. CursorIsOnARow'
    BY <1>4, <1>6, <2>2, <2>3, <2>5 DEF CursorIsOnARow
  <2>7. Here \in ToSet(shown) => Here' = Here
    BY <1>6, <2>4
  <2>8. ASSUME Under \in ToSet(RowsBy(rs, catalog, Here))
        PROVE  Under' = Under
    <3> DEFINE own == RowsBy(rs, catalog, Here)
    <3>1. /\ own \in Seq(ShownRow)
          /\ \A i \in DOMAIN own : own[i].kind = "owned" =>
               i \in DOMAIN rs[Here] /\ own[i] = Row("owned", rs[Here][i])
      BY <1>1, <1>2, RowsAre
    <3> HIDE DEF own
    <3>2. PICK i \in DOMAIN own : own[i] = Under
      BY <2>8 DEF ToSet, own
    <3>3. Under.kind # "none"
      <4>1. Under \in ShownRow
        BY <3>1, <3>2
      <4> QED
        BY <4>1 DEF ShownRow
    <3>4. Under.kind # "owned"
      <4> SUFFICES ASSUME Under.kind = "owned" PROVE FALSE
        OBVIOUS
      <4>1. i \in DOMAIN rs[Here] /\ Under = Row("owned", rs[Here][i])
        BY <3>1, <3>2
      <4>2. w = rs[Here][i]
        BY <4>1 DEF Row
      <4> QED
        BY <1>1, <1>10, <4>1, <4>2 DEF ToSet
    <3>5. Under.kind \in {"external", "create"} /\ Here \in Effective
      BY <1>1, <3>3, <3>4 DEF RowKinds
    <3>6. g = Here
      BY <1>1, <1>3, <1>6, <3>5 DEF ToSet
    <3>7. at = RowIndex(rs, catalog, Here, Under)
      BY <3>5, <3>6 DEF at
    <3>8. own[at] = Under
      BY <1>1, <1>2, <2>8, <3>5, <3>7, RowIndexIsARow DEF own
    <3>9. list = own
      BY <3>6 DEF own
    <3> HIDE DEF list
    <3> QED
      BY <2>2, <2>3, <2>5, <3>8, <3>9 DEF Under
  <2>9. OnlyTheCursorMoved
    BY <1>6, <2>1, <2>2 DEF OnlyTheCursorMoved
  <2> QED
    BY <1>4, <2>6, <2>7, <2>8, <2>9 DEF CursorFollows
<1> QED
  BY <1>9, <1>10

-----------------------------------------------------------------------------
(* The picker: messages *)

LEMMA ScreenStays ==
  ASSUME PickerTypes, CursorIsOnARow, ScreenIsForWhatWasChosen, OnlyTheCursorMoved, CursorFollows
  PROVE  ScreenIsForWhatWasChosen' /\ ui' \in Screens
<1>1. PICK h \in Nat \ {0}, r \in Nat \ {0} : ui' = [ui EXCEPT !.host = h, !.row = r]
  BY DEF OnlyTheCursorMoved
<1>2. ui \in Screens
  BY DEF PickerTypes
<1>3. /\ ui' \in Screens
      /\ ui'.stage = ui.stage /\ ui'.resume = ui.resume /\ ui'.restart = ui.restart
      /\ ui'.external = ui.external /\ ui'.directory = ui.directory /\ ui'.meant = ui.meant
  BY <1>1, <1>2 DEF Screens
<1>4. Here \in Effective => Here' = Here
  <2>1. Effective \subseteq Groups
    BY PickerAssumption
  <2>2. Here \in Effective => Here \in ToSet(ShownBy(rows'))
    BY <2>1, HostsAreListed DEF ToSet
  <2> QED
    BY <2>2 DEF CursorFollows
<1>5. CASE Here' = Here
  <2>1. Selection' = Selection
    BY <1>3, <1>5 DEF Selection
  <2> QED
    BY <1>3, <1>5, <2>1 DEF ScreenIsForWhatWasChosen
<1>6. CASE Here \notin Effective
  <2>1. ui.stage # "Directory"
    BY <1>6 DEF ScreenIsForWhatWasChosen
  <2>2. CASE ui.stage \in {"Command", "Placement"}
    <3>1. /\ Selection = ui.meant /\ Selection.kind \notin {"create", "external"}
          /\ ui.stage = "Command" => ui.resume = 0 /\ ui.restart = 0 /\ ui.external = 0
      BY <1>6, <2>2 DEF ScreenIsForWhatWasChosen
    <3>2. ui.resume # 0 \/ ui.restart # 0
      BY <3>1 DEF Selection, Choice
    <3>3. Selection' = Selection
      BY <1>3, <3>2 DEF Selection
    <3> QED
      BY <1>3, <2>1, <3>1, <3>3 DEF ScreenIsForWhatWasChosen
  <2>3. CASE ui.stage \notin {"Command", "Placement"}
    BY <1>3, <2>1, <2>3 DEF ScreenIsForWhatWasChosen
  <2> QED
    BY <2>2, <2>3
<1> QED
  BY <1>3, <1>4, <1>5, <1>6

LEMMA HostAnswersKeeps ==
  ASSUME PickerInv, NEW g \in Groups, HostAnswers(g)
  PROVE  PickerInv' /\ CursorFollows
<1> USE DEF PickerInv
<1>1. /\ UNCHANGED <<rows, status, work, catalog, failed, closing, modal, exit>>
      /\ KeepsRow(rows, catalog)
  BY DEF HostAnswers
<1>2. catalog' \in [Names -> Seq(Externals)] /\ KeepsRow(rows, catalog')
  BY <1>1 DEF PickerTypes
<1>3. CursorIsOnARow' /\ CursorFollows /\ OnlyTheCursorMoved
  BY <1>1, <1>2, KeepsRowFollows
<1>4. ScreenIsForWhatWasChosen' /\ ui' \in Screens
  BY <1>3, ScreenStays
<1>5. PICK answer \in {"reachable", "unreachable"} :
        /\ host' = [host EXCEPT ![NameOf[g]] = answer]
        /\ fresh' = IF answer = "reachable" THEN fresh \cup {Row("host", g)} ELSE fresh
  BY DEF HostAnswers
<1>6. host' \in [Names -> {"unknown", "reachable", "unreachable"}]
  BY <1>5 DEF PickerTypes
<1>7. AnswersAreFresh'
  <2>1. ASSUME NEW n \in Names, host'[n] = "reachable"
        PROVE  \E h \in Groups : NameOf[h] = n /\ Row("host", h) \in fresh'
    <3>1. CASE n = NameOf[g]
      <4>1. answer = "reachable"
        BY <1>5, <2>1, <3>1 DEF PickerTypes
      <4> QED
        BY <1>5, <3>1, <4>1
    <3>2. CASE n # NameOf[g]
      <4>1. host[n] = "reachable"
        BY <1>5, <2>1, <3>2 DEF PickerTypes
      <4> QED
        BY <1>5, <2>1, <4>1 DEF AnswersAreFresh
    <3> QED
      BY <3>1, <3>2
  <2>2. \A w \in Ids :
          (Observable(rows', status', w) /\ work'[w] = "running") => Row("work", w) \in fresh'
    BY <1>1, <1>5 DEF AnswersAreFresh
  <2> QED
    BY <2>1, <2>2 DEF AnswersAreFresh
<1> QED
  BY <1>1, <1>2, <1>3, <1>4, <1>6, <1>7 DEF PickerTypes, AtHome

\* Nothing is known from nowhere: what is left of what was known.
LEMMA AnswersStay ==
  ASSUME AnswersAreFresh, UNCHANGED <<host, fresh>>,
         \A w \in Ids : (Observable(rows', status', w) /\ work'[w] = "running") =>
                          Observable(rows, status, w) /\ work[w] = "running"
  PROVE  AnswersAreFresh'
BY DEF AnswersAreFresh

LEMMA CatalogAnswersKeeps ==
  ASSUME PickerInv, NEW g \in Groups, CatalogAnswers(g)
  PROVE  PickerInv' /\ CursorFollows
<1> USE DEF PickerInv
<1>1. /\ UNCHANGED <<rows, status, host, work, failed, closing, modal, exit, fresh>>
      /\ KeepsRow(rows, catalog')
  BY DEF CatalogAnswers
<1>2. catalog' \in [Names -> Seq(Externals)]
  <2>1. PICK list \in Listings \cup {catalog[NameOf[g]]} :
          catalog' = [catalog EXCEPT ![NameOf[g]] = list]
    BY DEF CatalogAnswers
  <2>2. catalog \in [Names -> Seq(Externals)] /\ NameOf[g] \in Names
    BY DEF PickerTypes, Names
  <2>3. list \in Seq(Externals)
    <3>1. CASE list \in Listings
      <4>1. PICK some \in SUBSET Externals : list = InOrder(some)
        BY <3>1 DEF Listings
      <4>2. some \in SUBSET Nat /\ IsFiniteSet(some)
        BY PickerAssumption, FS_Subset
      <4>3. InOrder(some) \in Seq(some)
        BY <4>2, InOrderIsSorted
      <4> QED
        BY <4>1, <4>3, Widened
    <3>2. CASE list = catalog[NameOf[g]]
      BY <2>2, <3>2
    <3> QED
      BY <2>1, <3>1, <3>2
  <2> QED
    BY <2>1, <2>2, <2>3
<1>3. CursorIsOnARow' /\ CursorFollows /\ OnlyTheCursorMoved
  BY <1>1, <1>2, KeepsRowFollows
<1>4. ScreenIsForWhatWasChosen' /\ ui' \in Screens
  BY <1>3, ScreenStays
<1>5. AnswersAreFresh'
  BY <1>1, AnswersStay
<1> QED
  BY <1>1, <1>2, <1>3, <1>4, <1>5 DEF PickerTypes, AtHome

LEMMA WorkAnswersKeeps ==
  ASSUME PickerInv, NEW w \in Ids, WorkAnswers(w)
  PROVE  PickerInv' /\ CursorFollows
<1> USE DEF PickerInv
<1>1. UNCHANGED <<host, catalog, failed, closing, modal, exit>>
  BY DEF WorkAnswers
<1>2. work \in [Ids -> {"unknown", "running", "other"}] /\ status \in [Ids -> Kinds] /\ AtHome(rows)
  BY DEF PickerTypes
<1>3. catalog' \in [Names -> Seq(Externals)] /\ catalog' = catalog
  BY <1>1 DEF PickerTypes
<1>4. ASSUME AtHome(rows'), status' \in [Ids -> Kinds],
             work' \in [Ids -> {"unknown", "running", "other"}],
             CursorIsOnARow', CursorFollows, OnlyTheCursorMoved, AnswersAreFresh'
      PROVE  PickerInv' /\ CursorFollows
  <2>1. ScreenIsForWhatWasChosen' /\ ui' \in Screens
    BY <1>4, ScreenStays
  <2> QED
    BY <1>1, <1>3, <1>4, <2>1 DEF PickerTypes, AtHome
<1>5. CASE \E answer \in {"running", "other"} :
             /\ work' = [work EXCEPT ![w] = answer]
             /\ fresh' = IF answer = "running" THEN fresh \cup {Row("work", w)} ELSE fresh
             /\ KeepsRow(rows, catalog)
             /\ UNCHANGED <<rows, status>>
  <2>1. PICK answer \in {"running", "other"} :
             /\ work' = [work EXCEPT ![w] = answer]
             /\ fresh' = IF answer = "running" THEN fresh \cup {Row("work", w)} ELSE fresh
             /\ KeepsRow(rows, catalog)
             /\ UNCHANGED <<rows, status>>
    BY <1>5
  <2>2. CursorIsOnARow' /\ CursorFollows /\ OnlyTheCursorMoved
    BY <1>3, <2>1, KeepsRowFollows
  <2>3. ASSUME NEW v \in Ids, Observable(rows', status', v), work'[v] = "running"
        PROVE  Row("work", v) \in fresh'
    <3>1. Observable(rows, status, v)
      BY <2>1, <2>3
    <3>2. CASE v = w
      BY <1>2, <2>1, <2>3, <3>2
    <3>3. CASE v # w
      BY <1>2, <2>1, <2>3, <3>1, <3>3 DEF AnswersAreFresh
    <3> QED
      BY <3>2, <3>3
  <2>4. \A n \in Names : host'[n] = "reachable" =>
          \E h \in Groups : NameOf[h] = n /\ Row("host", h) \in fresh'
    BY <1>1, <2>1 DEF AnswersAreFresh
  <2>5. AnswersAreFresh'
    BY <2>3, <2>4 DEF AnswersAreFresh
  <2>6. AtHome(rows') /\ status' \in [Ids -> Kinds]
        /\ work' \in [Ids -> {"unknown", "running", "other"}]
    BY <1>2, <2>1
  <2> QED
    BY <1>4, <2>2, <2>5, <2>6
<1>6. CASE /\ work' = [work EXCEPT ![w] = "other"] /\ UNCHANGED fresh
           /\ \/ /\ status' = [status EXCEPT ![w] = "Ended"]
                 /\ KeepsRow(rows, catalog) /\ UNCHANGED rows
              \/ \E kind \in Kinds :
                   /\ status' = [status EXCEPT ![w] = kind]
                   /\ rows' = Reconciled(w, kind) /\ ui' = Restored(rows')
  <2>1. PICK kind \in Kinds : status' = [status EXCEPT ![w] = kind]
    BY <1>6 DEF Kinds
  <2>2. /\ AtHome(rows') /\ \A g \in Groups : ToSet(rows'[g]) \subseteq ToSet(rows[g]) \cup {w}
        /\ CursorIsOnARow' /\ CursorFollows /\ OnlyTheCursorMoved
    <3>1. CASE KeepsRow(rows, catalog) /\ UNCHANGED rows
      BY <1>2, <1>3, <3>1, KeepsRowFollows
    <3>2. CASE \E some \in Kinds : rows' = Reconciled(w, some) /\ ui' = Restored(rows')
      BY <1>2, <1>3, <3>2, ReconciledIsAtHome, RestoredFollows
    <3> QED
      BY <1>6, <3>1, <3>2
  <2>3. ASSUME NEW v \in Ids, Observable(rows', status', v), work'[v] = "running"
        PROVE  Observable(rows, status, v) /\ work[v] = "running"
    <3>1. v # w /\ work[v] = "running" /\ status'[v] = status[v]
      BY <1>2, <1>6, <2>1, <2>3
    <3>2. HomeOf[v] \in Groups
      BY PickerAssumption
    <3> QED
      BY <2>2, <2>3, <3>1, <3>2 DEF Observable
  <2>4. AnswersAreFresh'
    BY <1>1, <1>6, <2>3, AnswersStay
  <2>5. status' \in [Ids -> Kinds] /\ work' \in [Ids -> {"unknown", "running", "other"}]
    BY <1>2, <1>6, <2>1
  <2> QED
    BY <1>4, <2>2, <2>4, <2>5
<1> QED
  BY <1>5, <1>6 DEF WorkAnswers

LEMMA RefreshesKeeps ==
  ASSUME PickerTypes, NEW rs, NEW st, NEW ui1, Refreshes(rs, st, ui1), rows' = rs, status' = st
  PROVE  /\ AnswersAreFresh' /\ host' \in [Names -> {"unknown", "reachable", "unreachable"}]
         /\ work' \in [Ids -> {"unknown", "running", "other"}]
<1>1. /\ host' = [n \in Names |-> "unknown"]
      /\ work' = [w \in Ids |-> IF Observable(rs, st, w) THEN "unknown" ELSE work[w]]
  <2>1. work' = [w \in Ids |-> IF w \in {v \in Ids : Observable(rs, st, v)}
                               THEN "unknown" ELSE work[w]]
    BY DEF Refreshes
  <2> QED
    BY <2>1 DEF Refreshes, Stale
<1>2. AnswersAreFresh'
  BY <1>1 DEF AnswersAreFresh
<1> QED
  BY <1>1, <1>2 DEF PickerTypes

LEMMA CloseConcludesKeeps ==
  ASSUME PickerInv, CloseConcludes
  PROVE  PickerInv' /\ CursorFollows
<1> USE DEF PickerInv
<1>1. PICK error \in BOOLEAN, kind \in Kinds \cup {"unread"} :
        LET w == closing.id
            rs == IF kind = "unread" THEN rows ELSE Reconciled(w, kind)
            st == IF kind = "unread" THEN status ELSE [status EXCEPT ![w] = kind]
        IN  /\ rows' = rs /\ status' = st
            /\ modal' = IF error THEN closing ELSE NoModal
            /\ Refreshes(rs, st, Restored(rs))
  BY DEF CloseConcludes
<1>2. closing # NoModal /\ closing.id \in Ids /\ closing' = NoModal /\ catalog' = catalog
  BY DEF CloseConcludes, PickerTypes
<1>3. AtHome(rows') /\ status' \in [Ids -> Kinds]
  <2>1. AtHome(rows) /\ status \in [Ids -> Kinds]
    BY DEF PickerTypes
  <2>2. CASE kind = "unread"
    BY <1>1, <2>1, <2>2
  <2>3. CASE kind # "unread"
    BY <1>1, <1>2, <2>1, <2>3, ReconciledIsAtHome
  <2> QED
    BY <2>2, <2>3
<1>4. ui' = Restored(rows') /\ Refreshes(rows', status', ui')
  BY <1>1 DEF Refreshes
<1>5. CursorIsOnARow' /\ CursorFollows /\ OnlyTheCursorMoved
  BY <1>2, <1>3, <1>4, RestoredFollows
<1>6. ScreenIsForWhatWasChosen' /\ ui' \in Screens
  BY <1>5, ScreenStays
<1>7. /\ AnswersAreFresh' /\ host' \in [Names -> {"unknown", "reachable", "unreachable"}]
      /\ work' \in [Ids -> {"unknown", "running", "other"}]
  BY <1>4, RefreshesKeeps
<1>8. modal' # NoModal => modal'.id \in Ids
  BY <1>1, <1>2
<1> QED
  BY <1>2, <1>3, <1>5, <1>6, <1>7, <1>8 DEF PickerTypes, AtHome

LEMMA PaceEndsKeeps ==
  ASSUME PickerInv, NEW w \in Ids, PaceEnds(w)
  PROVE  PickerInv'
<1> USE DEF PickerInv
<1>1. /\ status' = [status EXCEPT ![w] = "Ended"]
      /\ UNCHANGED <<rows, host, work, catalog, failed, closing, modal, ui, exit, due, fresh>>
  BY DEF PaceEnds
<1>2. status' \in [Ids -> Kinds]
  BY <1>1 DEF PickerTypes, Kinds
<1>3. Here' = Here
  BY <1>1 DEF Here
<1>4. CursorIsOnARow' /\ ScreenIsForWhatWasChosen'
  BY <1>1, <1>3 DEF CursorIsOnARow, ScreenIsForWhatWasChosen, Selection
<1>5. \A v \in Ids : (Observable(rows', status', v) /\ work'[v] = "running") =>
                       Observable(rows, status, v) /\ work[v] = "running"
  BY <1>1 DEF Observable, PickerTypes
<1>6. AnswersAreFresh'
  BY <1>1, <1>5, AnswersStay
<1> QED
  BY <1>1, <1>2, <1>4, <1>6 DEF PickerTypes, AtHome

-----------------------------------------------------------------------------
(* The picker: keys *)

\* A key that changes the screen, and not what it shows.
LEMMA SeesKeeps ==
  ASSUME PickerInv, NEW new \in Screens, Sees(new), CursorIsOnARow', ScreenIsForWhatWasChosen'
  PROVE  PickerInv'
<1> USE DEF PickerInv
<1>1. ui' = new /\ UNCHANGED <<rows, status, host, work, catalog, fresh, closing, modal>>
  BY DEF Sees, board
<1>2. AnswersAreFresh'
  BY <1>1 DEF AnswersAreFresh, Observable
<1> QED
  BY <1>1, <1>2 DEF PickerTypes, AtHome

\* A screen that is left for another, with the cursor where it is.
LEMMA CursorStays ==
  ASSUME PickerInv, NEW new, Sees(new), new.host = ui.host, new.row = ui.row,
         new.stage = "Host" \/ ui.stage # "Host"
  PROVE  CursorIsOnARow' /\ Here' = Here
<1>1. ui' = new /\ UNCHANGED <<rows, catalog>>
  BY DEF Sees, board
<1>2. Here' = Here
  BY <1>1 DEF Here
<1> QED
  BY <1>1, <1>2 DEF PickerInv, CursorIsOnARow

LEMMA EndsKeeps ==
  ASSUME PickerInv, NEW how, Ends(how)
  PROVE  PickerInv'
<1> USE DEF PickerInv
<1>1. /\ rows' = [g \in Groups |-> <<>>] /\ status' = [w \in Ids |-> "Gone"]
      /\ host' = [n \in Names |-> "unknown"] /\ work' = [w \in Ids |-> "unknown"]
      /\ catalog' = [n \in Names |-> <<>>]
      /\ modal' = NoModal /\ closing' = closing /\ ui' = FirstScreen
  BY DEF Ends, Stale
<1>2. AtHome(rows') /\ catalog' \in [Names -> Seq(Externals)]
  <2>1. <<>> \in Seq(Ids) /\ <<>> \in Seq(Externals) /\ DOMAIN <<>> = {}
    OBVIOUS
  <2> QED
    BY <1>1, <2>1 DEF AtHome
<1>3. FirstScreen \in Screens /\ FirstScreen.host = 1 /\ FirstScreen.stage = "Host"
  BY DEF FirstScreen, Screens, Stages, Meanings, NoChoice, Choice
<1>4. CursorIsOnARow'
  <2>1. 1 \in DOMAIN ShownBy(rows')
    <3> DEFINE shown == ShownBy(rows')
    <3>1. shown \in Seq(Groups) /\ Len(shown) \in Nat \ {0}
      BY HostsAreListed
    <3> HIDE DEF shown
    <3>2. 1 \in DOMAIN shown
      BY <3>1
    <3> QED
      BY <3>2 DEF shown
  <2> QED
    BY <1>1, <1>3, <2>1 DEF CursorIsOnARow
<1>5. ScreenIsForWhatWasChosen'
  BY <1>1, <1>3 DEF ScreenIsForWhatWasChosen
<1>6. AnswersAreFresh'
  BY <1>1 DEF AnswersAreFresh
<1> QED
  BY <1>1, <1>2, <1>3, <1>4, <1>5, <1>6 DEF PickerTypes, Kinds, NoModal

LEMMA AnswersErrorKeeps ==
  ASSUME PickerInv, AnswersError
  PROVE  PickerInv'
<1> DEFINE new == [ui EXCEPT !.error = FALSE]
<1>1. CASE Ends("selected")
  BY <1>1, EndsKeeps
<1>2. CASE Sees(new)
  <2>1. ui \in Screens
    BY DEF PickerInv, PickerTypes
  <2>2. /\ new \in Screens
        /\ new.stage = ui.stage /\ new.host = ui.host /\ new.row = ui.row
        /\ new.resume = ui.resume /\ new.restart = ui.restart /\ new.external = ui.external
        /\ new.directory = ui.directory /\ new.meant = ui.meant
    BY <2>1 DEF Screens
  <2> HIDE DEF new
  <2>3. CursorIsOnARow' /\ Here' = Here
    BY <1>2, <2>2, CursorStays
  <2>4. ui' = new
    BY <1>2 DEF Sees
  <2>5. Selection' = Selection
    BY <2>2, <2>3, <2>4 DEF Selection
  <2>6. ScreenIsForWhatWasChosen'
    BY <2>2, <2>3, <2>4, <2>5 DEF ScreenIsForWhatWasChosen, PickerInv
  <2> QED
    BY <1>2, <2>2, <2>3, <2>6, SeesKeeps
<1> QED
  BY <1>1, <1>2 DEF AnswersError

\* One step on, or back, in a list, which has no end.
Turned(step, index, length) ==
  IF step = "next" THEN (index % length) + 1
  ELSE IF index = 1 THEN length ELSE index - 1

LEMMA TurnedIsInTheList ==
  ASSUME NEW length \in Nat \ {0}, NEW index \in 1..length, NEW step
  PROVE  Turned(step, index, length) \in 1..length
<1>1. index % length \in 0..(length - 1)
  OBVIOUS
<1> QED
  BY <1>1 DEF Turned

LEMMA MoveKeeps ==
  ASSUME PickerInv, Move
  PROVE  PickerInv'
<1>1. ui \in Screens /\ ui.host \in Nat \ {0} /\ ui.row \in Nat \ {0} /\ AtHome(rows)
      /\ catalog \in [Names -> Seq(Externals)]
  BY DEF PickerInv, PickerTypes, Screens
<1>2. PICK step \in {"previous", "next"} :
        \/ /\ ui.stage = "Host"
           /\ Sees([ui EXCEPT !.host = Turned(step, @, Len(ShownBy(rows)))])
        \/ /\ ui.stage = "Resource"
           /\ Sees([ui EXCEPT !.row = Turned(step, @, Len(RowsBy(rows, catalog, Here)))])
  BY DEF Move, Turned
<1>3. ASSUME NEW new \in Screens, Sees(new), CursorIsOnARow', new.stage \in {"Host", "Resource"}
      PROVE  PickerInv'
  <2>1. ui' = new
    BY <1>3 DEF Sees
  <2>2. ScreenIsForWhatWasChosen'
    BY <1>3, <2>1 DEF ScreenIsForWhatWasChosen
  <2> QED
    BY <1>3, <2>2, SeesKeeps
<1>4. CASE ui.stage = "Host" /\ Sees([ui EXCEPT !.host = Turned(step, @, Len(ShownBy(rows)))])
  <2> DEFINE shown == ShownBy(rows)
             to == Turned(step, ui.host, Len(shown))
             new == [ui EXCEPT !.host = to]
  <2>1. Len(shown) \in Nat \ {0} /\ DOMAIN shown = 1..Len(shown)
    <3>1. shown \in Seq(Groups) /\ Len(shown) \in Nat \ {0}
      BY HostsAreListed
    <3> HIDE DEF shown
    <3> QED
      BY <3>1
  <2>2. ui.host \in DOMAIN shown
    BY DEF PickerInv, CursorIsOnARow
  <2> HIDE DEF shown
  <2>3. to \in DOMAIN shown /\ to \in Nat \ {0}
    BY <2>1, <2>2, TurnedIsInTheList
  <2>4. Sees(new)
    BY <1>4 DEF shown
  <2> HIDE DEF to
  <2>5. new \in Screens /\ new.stage = "Host" /\ new.host = to
    BY <1>1, <1>4, <2>3 DEF Screens
  <2> HIDE DEF new
  <2>6. CursorIsOnARow'
    BY <2>3, <2>4, <2>5 DEF CursorIsOnARow, Sees, board, shown
  <2> QED
    BY <1>3, <2>4, <2>5, <2>6
<1>5. CASE /\ ui.stage = "Resource"
           /\ Sees([ui EXCEPT !.row = Turned(step, @, Len(RowsBy(rows, catalog, Here)))])
  <2> DEFINE list == RowsBy(rows, catalog, Here)
             to == Turned(step, ui.row, Len(list))
             new == [ui EXCEPT !.row = to]
  <2>1. Here \in Groups /\ (Here \in Effective \/ rows[Here] # <<>>)
    BY UnderTheCursor DEF PickerInv
  <2>2. Len(list) \in Nat \ {0} /\ DOMAIN list = 1..Len(list)
    <3>1. list \in Seq(ShownRow) /\ Len(list) \in Nat \ {0}
      BY <1>1, <2>1, RowsAre
    <3> HIDE DEF list
    <3> QED
      BY <3>1
  <2>3. ui.row \in DOMAIN list
    BY <1>5 DEF PickerInv, CursorIsOnARow
  <2> HIDE DEF list
  <2>4. to \in DOMAIN list /\ to \in Nat \ {0}
    BY <2>2, <2>3, TurnedIsInTheList
  <2>5. Sees(new)
    BY <1>5 DEF list
  <2> HIDE DEF to
  <2>6. new \in Screens /\ new.stage = "Resource" /\ new.host = ui.host /\ new.row = to
    BY <1>1, <1>5, <2>4 DEF Screens
  <2> HIDE DEF new
  <2>7. ui' = new /\ rows' = rows /\ catalog' = catalog
    BY <2>5 DEF Sees, board
  <2>8. Here' = Here
    BY <2>6, <2>7 DEF Here
  <2>9. CursorIsOnARow'
    BY <2>4, <2>6, <2>7, <2>8 DEF CursorIsOnARow, PickerInv, list
  <2> QED
    BY <1>3, <2>5, <2>6, <2>9
<1> QED
  BY <1>2, <1>4, <1>5

LEMMA RefreshKeeps ==
  ASSUME PickerInv, Refresh
  PROVE  PickerInv'
<1> USE DEF PickerInv
<1>1. /\ Refreshes(rows, status, ui) /\ ui' = ui
      /\ UNCHANGED <<rows, status, catalog, failed, closing, modal, exit>>
  BY DEF Refresh, Refreshes
<1>2. /\ AnswersAreFresh' /\ host' \in [Names -> {"unknown", "reachable", "unreachable"}]
      /\ work' \in [Ids -> {"unknown", "running", "other"}]
  BY <1>1, RefreshesKeeps
<1>3. Here' = Here
  BY <1>1 DEF Here
<1>4. CursorIsOnARow' /\ ScreenIsForWhatWasChosen'
  BY <1>1, <1>3 DEF CursorIsOnARow, ScreenIsForWhatWasChosen, Selection
<1> QED
  BY <1>1, <1>2, <1>4 DEF PickerTypes, AtHome

\* The close that is asked about, and the one under way.
LEMMA ModalKeeps ==
  ASSUME PickerInv, UNCHANGED <<board, ui>>,
         closing' # NoModal => closing'.id \in Ids, modal' # NoModal => modal'.id \in Ids
  PROVE  PickerInv'
<1> USE DEF PickerInv
<1>1. UNCHANGED <<rows, status, host, work, catalog, fresh, ui>>
  BY DEF board
<1>2. Here' = Here
  BY <1>1 DEF Here
<1>3. CursorIsOnARow' /\ ScreenIsForWhatWasChosen'
  BY <1>1, <1>2 DEF CursorIsOnARow, ScreenIsForWhatWasChosen, Selection
<1>4. AnswersAreFresh'
  BY <1>1 DEF AnswersAreFresh, Observable
<1> QED
  BY <1>1, <1>3, <1>4 DEF PickerTypes, AtHome

LEMMA CloseKeeps ==
  ASSUME PickerInv, Close \/ AnswersModal
  PROVE  PickerInv'
<1>1. CASE Close
  <2>1. Under.id \in Ids
    BY <1>1, UnderTheCursor DEF Close, PickerInv
  <2>2. modal'.id = Under.id /\ closing' = closing /\ UNCHANGED <<board, ui>>
    BY <1>1 DEF Close
  <2> QED
    BY <2>1, <2>2, ModalKeeps DEF PickerInv, PickerTypes
<1>2. CASE AnswersModal
  BY <1>2, ModalKeeps DEF AnswersModal, PickerInv, PickerTypes
<1> QED
  BY <1>1, <1>2

\* What is chosen on a screen, to compare it with another.
SameChoice(new) ==
  /\ new.resume = ui.resume /\ new.restart = ui.restart /\ new.external = ui.external
  /\ new.directory = ui.directory /\ new.meant = ui.meant

\* A page of the way to the placement is turned.
LEMMA PageIsTurned ==
  ASSUME PickerInv, NEW new \in Screens, Sees(new), new.host = ui.host, new.row = ui.row,
         new.stage # "Host", ui.stage # "Host",
         new.stage = "Directory" =>
           /\ new.resume = 0 /\ new.restart = 0 /\ new.external = 0
           /\ new.meant.kind = "create" /\ new.meant.id = 0 /\ new.meant.group = Here
           /\ Here \in Effective,
         new.stage \in {"Command", "Placement"} =>
           /\ new.resume = 0 /\ new.restart = 0 /\ new.external = 0 =>
                new.meant = Choice("create", 0, Here, Here) /\ new.directory = Here
           /\ new.resume = 0 /\ new.restart = 0 /\ new.external # 0 =>
                new.meant = Choice("external", new.external, Here, 0)
           /\ new.resume = 0 /\ new.restart = 0 => Here \in Effective
           /\ new.resume = 0 /\ new.restart # 0 => new.meant = Choice("restart", new.restart, 0, 0)
           /\ new.resume # 0 => new.meant = Choice("resume", new.resume, 0, 0),
         new.stage = "Command" => new.resume = 0 /\ new.restart = 0 /\ new.external = 0
  PROVE  PickerInv'
<1>1. CursorIsOnARow' /\ Here' = Here
  BY CursorStays
<1>2. ui' = new
  BY DEF Sees
<1>3. ASSUME new.stage \in {"Command", "Placement"}
      PROVE  /\ Selection' = new.meant
             /\ Selection'.kind = "create" => new.directory = Here
             /\ Selection'.kind \in {"create", "external"} => Here \in Effective
  <2>1. Selection' = IF new.resume # 0 THEN Choice("resume", new.resume, 0, 0)
                     ELSE IF new.restart # 0 THEN Choice("restart", new.restart, 0, 0)
                     ELSE IF new.external # 0 THEN Choice("external", new.external, Here, 0)
                     ELSE Choice("create", 0, Here, new.directory)
    BY <1>1, <1>2 DEF Selection
  <2>2. CASE new.resume # 0
    BY <1>3, <2>1, <2>2 DEF Choice
  <2>3. CASE new.resume = 0 /\ new.restart # 0
    BY <1>3, <2>1, <2>3 DEF Choice
  <2>4. CASE new.resume = 0 /\ new.restart = 0 /\ new.external # 0
    BY <1>3, <2>1, <2>4 DEF Choice
  <2>5. CASE new.resume = 0 /\ new.restart = 0 /\ new.external = 0
    BY <1>3, <2>1, <2>5 DEF Choice
  <2> QED
    BY <2>2, <2>3, <2>4, <2>5
<1>4. ScreenIsForWhatWasChosen'
  BY <1>1, <1>2, <1>3 DEF ScreenIsForWhatWasChosen
<1> QED
  BY <1>1, <1>4, SeesKeeps

\* What a screen on the way holds, in the same terms.
LEMMA PageHolds ==
  ASSUME PickerInv
  PROVE  /\ ui.stage = "Directory" =>
              /\ ui.resume = 0 /\ ui.restart = 0 /\ ui.external = 0
              /\ ui.meant = Choice("create", 0, Here, ui.meant.directory) /\ Here \in Effective
         /\ ui.stage \in {"Command", "Placement"} =>
              /\ ui.resume = 0 /\ ui.restart = 0 /\ ui.external = 0 =>
                   ui.meant = Choice("create", 0, Here, Here) /\ ui.directory = Here
              /\ ui.resume = 0 /\ ui.restart = 0 /\ ui.external # 0 =>
                   ui.meant = Choice("external", ui.external, Here, 0)
              /\ ui.resume = 0 /\ ui.restart = 0 => Here \in Effective
              /\ ui.resume = 0 /\ ui.restart # 0 => ui.meant = Choice("restart", ui.restart, 0, 0)
              /\ ui.resume # 0 => ui.meant = Choice("resume", ui.resume, 0, 0)
         /\ ui.stage = "Command" => ui.resume = 0 /\ ui.restart = 0 /\ ui.external = 0
<1>1. ui.meant \in Meanings
  BY DEF PickerInv, PickerTypes, Screens
<1>2. ASSUME ui.stage = "Directory"
      PROVE  /\ ui.resume = 0 /\ ui.restart = 0 /\ ui.external = 0
             /\ ui.meant = Choice("create", 0, Here, ui.meant.directory) /\ Here \in Effective
  <2>1. ui.meant.kind = "create" /\ ui.meant.id = 0 /\ ui.meant.group = Here
    BY <1>2 DEF PickerInv, ScreenIsForWhatWasChosen
  <2>2. ui.meant = Choice("create", 0, Here, ui.meant.directory)
    BY <1>1, <2>1 DEF Meanings, Choice
  <2> QED
    BY <1>2, <2>2 DEF PickerInv, ScreenIsForWhatWasChosen
<1>3. ASSUME ui.stage \in {"Command", "Placement"}
      PROVE  /\ ui.resume = 0 /\ ui.restart = 0 /\ ui.external = 0 =>
                  ui.meant = Choice("create", 0, Here, Here) /\ ui.directory = Here
             /\ ui.resume = 0 /\ ui.restart = 0 /\ ui.external # 0 =>
                  ui.meant = Choice("external", ui.external, Here, 0)
             /\ ui.resume = 0 /\ ui.restart = 0 => Here \in Effective
             /\ ui.resume = 0 /\ ui.restart # 0 => ui.meant = Choice("restart", ui.restart, 0, 0)
             /\ ui.resume # 0 => ui.meant = Choice("resume", ui.resume, 0, 0)
  <2>1. /\ Selection = ui.meant /\ (Selection.kind = "create" => ui.directory = Here)
        /\ Selection.kind \in {"create", "external"} => Here \in Effective
    BY <1>3 DEF PickerInv, ScreenIsForWhatWasChosen
  <2>2. CASE ui.resume # 0
    BY <2>1, <2>2 DEF Choice, Selection
  <2>3. CASE ui.resume = 0 /\ ui.restart # 0
    BY <2>1, <2>3 DEF Choice, Selection
  <2>4. CASE ui.resume = 0 /\ ui.restart = 0 /\ ui.external # 0
    BY <2>1, <2>4 DEF Choice, Selection
  <2>5. CASE ui.resume = 0 /\ ui.restart = 0 /\ ui.external = 0
    BY <2>1, <2>5 DEF Choice, Selection
  <2> QED
    BY <2>2, <2>3, <2>4, <2>5
<1> QED
  BY <1>2, <1>3 DEF PickerInv, ScreenIsForWhatWasChosen

LEMMA BackKeeps ==
  ASSUME PickerInv, Back
  PROVE  PickerInv'
<1>1. CASE ui.stage = "Host"
  BY <1>1, EndsKeeps DEF Back
<1>2. CASE ui.stage # "Host"
  <2> DEFINE stage == CASE ui.stage = "Resource" -> "Host"
                        [] ui.stage = "Directory" -> "Resource"
                        [] ui.stage = "Command" -> "Directory"
                        [] OTHER -> BeforePlacement
             left == IF stage \in {"Host", "Resource"} THEN NothingMeant(ui) ELSE ui
             new == [NothingChosen(left) EXCEPT !.stage = stage]
  <2>1. ui \in Screens
    BY DEF PickerInv, PickerTypes
  <2>2. Sees(new)
    BY <1>2 DEF Back
  <2>3. stage \in Stages
    BY DEF BeforePlacement, Stages
  <2>4. /\ left \in Screens /\ left.host = ui.host /\ left.row = ui.row
        /\ stage \notin {"Host", "Resource"} => left = ui
    BY <2>1 DEF NothingMeant, NoChoice, Choice, Screens, Meanings
  <2>5. /\ stage = "Host" => ui.stage = "Resource"
        /\ stage = "Directory" => ui.stage = "Command"
        /\ stage = "Command" =>
             /\ ui.stage = "Placement"
             /\ ui.resume = 0 /\ ui.restart = 0 /\ ui.external = 0
        /\ stage # "Placement"
    BY <1>2, <2>1 DEF BeforePlacement, Screens, Stages
  <2> HIDE DEF stage, left
  <2>6. /\ new \in Screens /\ new.stage = stage /\ new.host = ui.host /\ new.row = ui.row
        /\ new.resume = 0 /\ new.restart = 0 /\ new.external = 0
        /\ new.directory = left.directory /\ new.meant = left.meant
    BY <2>3, <2>4 DEF NothingChosen, Screens
  <2> HIDE DEF new
  <2>7. CASE stage = "Host"
    <3>1. CursorIsOnARow'
      BY <2>2, <2>6, <2>7, CursorStays
    <3>2. ScreenIsForWhatWasChosen'
      BY <2>2, <2>6, <2>7 DEF ScreenIsForWhatWasChosen, Sees
    <3> QED
      BY <2>2, <2>6, <3>1, <3>2, SeesKeeps
  <2>8. CASE stage = "Resource"
    BY <1>2, <2>2, <2>6, <2>8, PageIsTurned
  <2>9. CASE stage = "Directory"
    <3>1. /\ new.meant.kind = "create" /\ new.meant.id = 0 /\ new.meant.group = Here
          /\ Here \in Effective
      <4>1. new.meant = Choice("create", 0, Here, Here) /\ Here \in Effective
        BY <2>4, <2>5, <2>6, <2>9, PageHolds
      <4> QED
        BY <4>1 DEF Choice
    <3> QED
      BY <1>2, <2>2, <2>6, <2>9, <3>1, PageIsTurned
  <2>10. CASE stage = "Command"
    <3>1. /\ new.meant = Choice("create", 0, Here, Here) /\ Here \in Effective
          /\ new.directory = Here
      BY <2>4, <2>5, <2>6, <2>10, PageHolds
    <3> QED
      BY <1>2, <2>2, <2>6, <2>10, <3>1, PageIsTurned
  <2> QED
    BY <2>3, <2>5, <2>7, <2>8, <2>9, <2>10 DEF Stages
<1> QED
  BY <1>1, <1>2

LEMMA ConfirmHostKeeps ==
  ASSUME PickerInv, ConfirmHost
  PROVE  PickerInv'
<1> DEFINE new == [NothingChosen(ui) EXCEPT !.stage = "Resource", !.row = 1, !.directory = 0]
<1>1. ui \in Screens /\ AtHome(rows) /\ catalog \in [Names -> Seq(Externals)]
  BY DEF PickerInv, PickerTypes
<1>2. Sees(new)
  BY DEF ConfirmHost
<1>3. new \in Screens /\ new.stage = "Resource" /\ new.host = ui.host /\ new.row = 1
  <2> DEFINE clear == NothingChosen(ui)
  <2>1. clear \in Screens /\ clear.host = ui.host
    BY <1>1 DEF NothingChosen, Screens
  <2> HIDE DEF clear
  <2> DEFINE stage == "Resource"
             first == 1
             typed == 0
             page == [clear EXCEPT !.stage = stage, !.row = first, !.directory = typed]
  <2>2. stage \in Stages /\ first \in Nat \ {0} /\ typed \in Groups \cup {0} /\ new = page
    BY DEF Stages, clear
  <2> HIDE DEF stage, first, typed, new
  <2>3. page \in Screens /\ page.stage = stage /\ page.host = clear.host /\ page.row = first
    BY <2>1, <2>2 DEF Screens
  <2> QED
    BY <2>1, <2>2, <2>3 DEF stage, first
<1> HIDE DEF new
<1>4. ui' = new /\ rows' = rows /\ catalog' = catalog
  BY <1>2 DEF Sees, board
<1>5. Here' = Here
  BY <1>3, <1>4 DEF Here
<1>6. 1 \in DOMAIN RowsBy(rows, catalog, Here)
  <2> DEFINE list == RowsBy(rows, catalog, Here)
  <2>1. Here \in Groups /\ (Here \in Effective \/ rows[Here] # <<>>)
    BY UnderTheCursor DEF PickerInv
  <2>2. list \in Seq(ShownRow) /\ Len(list) \in Nat \ {0}
    BY <1>1, <2>1, RowsAre
  <2> HIDE DEF list
  <2>3. 1 \in DOMAIN list
    BY <2>2
  <2> QED
    BY <2>3 DEF list
<1>7. CursorIsOnARow'
  BY <1>3, <1>4, <1>5, <1>6 DEF CursorIsOnARow, PickerInv
<1>8. ScreenIsForWhatWasChosen'
  BY <1>3, <1>4 DEF ScreenIsForWhatWasChosen
<1> QED
  BY <1>2, <1>3, <1>7, <1>8, SeesKeeps

LEMMA ConfirmResourceKeeps ==
  ASSUME PickerInv, ConfirmResource
  PROVE  PickerInv'
<1> DEFINE clear == NothingChosen(ui)
<1>1. ui \in Screens /\ ui.stage = "Resource"
  BY DEF PickerInv, PickerTypes, ConfirmResource, At
<1>2. /\ Here \in Groups
      /\ Under.kind = "owned" => Under.id \in Ids
      /\ Under.kind = "external" => Here \in Effective /\ Under.id \in Externals
      /\ Under.kind = "create" => Here \in Effective
      /\ Under.kind \in RowKinds /\ Under.kind # "none"
  BY <1>1, UnderTheCursor DEF PickerInv
<1>3. Ids \in SUBSET (Nat \ {0}) /\ Externals \in SUBSET (Nat \ {0})
  BY PickerAssumption
<1>4. /\ clear \in Screens /\ clear.host = ui.host /\ clear.row = ui.row
      /\ clear.resume = 0 /\ clear.restart = 0 /\ clear.external = 0
  BY <1>1 DEF NothingChosen, Screens
<1> HIDE DEF clear
<1>5. CASE Under.kind = "owned"
  <2> DEFINE resume == IF Offered = "resume" THEN Under.id ELSE 0
             restart == IF Offered = "restart" THEN Under.id ELSE 0
             meant == Choice(Offered, Under.id, 0, 0)
             new == [clear EXCEPT !.stage = "Placement", !.resume = resume, !.restart = restart,
                                  !.meant = meant]
  <2>1. Offered \in {"resume", "restart"} /\ Sees(new)
    BY <1>5 DEF ConfirmResource, clear
  <2>2. Under.id \in Ids /\ Under.id # 0 /\ Under.id \in Nat
    BY <1>2, <1>3, <1>5
  <2>3. /\ resume \in Ids \cup {0} /\ restart \in Ids \cup {0} /\ meant \in Meanings
        /\ resume # 0 => meant = Choice("resume", resume, 0, 0)
        /\ restart # 0 => meant = Choice("restart", restart, 0, 0)
        /\ resume # 0 \/ restart # 0
    BY <2>1, <2>2 DEF Meanings, Choice
  <2> HIDE DEF resume, restart, meant
  <2>4. /\ new \in Screens /\ new.stage = "Placement" /\ new.host = ui.host /\ new.row = ui.row
        /\ new.resume = resume /\ new.restart = restart /\ new.meant = meant
    BY <1>4, <2>3 DEF Screens, Stages
  <2> HIDE DEF new
  <2> QED
    BY <1>1, <2>1, <2>3, <2>4, PageIsTurned
<1>6. CASE Under.kind = "external"
  <2> DEFINE some == Under.id
             meant == Choice("external", some, Here, 0)
             new == [clear EXCEPT !.stage = "Placement", !.external = some, !.meant = meant]
  <2>1. Sees(new)
    BY <1>6 DEF ConfirmResource, clear
  <2>2. some \in Externals /\ some \in Nat /\ some # 0 /\ Here \in Effective
    BY <1>2, <1>3, <1>6
  <2>3. meant \in Meanings
    BY <1>2, <2>2 DEF Meanings, Choice
  <2> DEFINE kept == meant
  <2> HIDE DEF some, kept
  <2>4. /\ new \in Screens /\ new.stage = "Placement" /\ new.host = ui.host /\ new.row = ui.row
        /\ new.resume = 0 /\ new.restart = 0 /\ new.external = some /\ new.meant = meant
    BY <1>4, <2>2, <2>3 DEF Screens, Stages
  <2> HIDE DEF new
  <2> QED
    BY <1>1, <2>1, <2>2, <2>4, PageIsTurned
<1>7. CASE Under.kind \notin {"owned", "external"}
  <2> DEFINE meant == Choice("create", 0, Here, 0)
             new == [clear EXCEPT !.stage = "Directory", !.directory = 0, !.meant = meant]
  <2>1. Sees(new)
    BY <1>7 DEF ConfirmResource, clear
  <2>2. Here \in Effective
    BY <1>2, <1>7 DEF RowKinds
  <2>3. /\ meant \in Meanings /\ meant.kind = "create" /\ meant.id = 0 /\ meant.group = Here
    BY <1>2 DEF Meanings, Choice
  <2> HIDE DEF meant
  <2>4. /\ new \in Screens /\ new.stage = "Directory" /\ new.host = ui.host /\ new.row = ui.row
        /\ new.resume = 0 /\ new.restart = 0 /\ new.external = 0 /\ new.meant = meant
    BY <1>4, <2>3 DEF Screens, Stages
  <2> HIDE DEF new
  <2> QED
    BY <1>1, <2>1, <2>2, <2>3, <2>4, PageIsTurned
<1> QED
  BY <1>5, <1>6, <1>7

\* A directory of the host, chosen or typed.
LEMMA TakingADirectory ==
  ASSUME PickerInv, ui.stage = "Directory"
  PROVE  /\ TakesDirectory \in Screens /\ TakesDirectory.stage = "Command"
         /\ TakesDirectory.host = ui.host /\ TakesDirectory.row = ui.row
         /\ TakesDirectory.resume = 0 /\ TakesDirectory.restart = 0
         /\ TakesDirectory.external = 0
         /\ TakesDirectory.directory = Here /\ Here \in Effective
         /\ TakesDirectory.meant = Choice("create", 0, Here, Here)
<1>1. ui \in Screens /\ Here \in Groups
  BY UnderTheCursor DEF PickerInv, PickerTypes
<1>2. /\ ui.resume = 0 /\ ui.restart = 0 /\ ui.external = 0
      /\ ui.meant = Choice("create", 0, Here, ui.meant.directory) /\ Here \in Effective
  BY PageHolds
<1> DEFINE meant == [ui.meant EXCEPT !.directory = Here]
           new == [ui EXCEPT !.stage = "Command", !.directory = Here, !.meant = meant]
<1>3. TakesDirectory = new
  BY <1>1 DEF TakesDirectory, Screens
<1>4. meant = Choice("create", 0, Here, Here) /\ meant \in Meanings
  <2>1. ui.meant \in Meanings
    BY <1>1 DEF Screens
  <2> QED
    BY <1>1, <1>2, <2>1 DEF Choice, Meanings
<1> HIDE DEF meant
<1>5. /\ new \in Screens /\ new.stage = "Command" /\ new.host = ui.host /\ new.row = ui.row
      /\ new.resume = ui.resume /\ new.restart = ui.restart /\ new.external = ui.external
      /\ new.directory = Here /\ new.meant = meant
  BY <1>1, <1>4 DEF Screens, Stages
<1> QED
  BY <1>2, <1>3, <1>4, <1>5

LEMMA ConfirmDirectoryKeeps ==
  ASSUME PickerInv, ConfirmDirectory
  PROVE  PickerInv'
<1>1. ui.stage = "Directory" /\ Sees(TakesDirectory)
  BY DEF ConfirmDirectory, At
<1> QED
  BY <1>1, TakingADirectory, PageIsTurned

LEMMA ConfirmCommandKeeps ==
  ASSUME PickerInv, ConfirmCommand
  PROVE  PickerInv'
<1> DEFINE new == [ui EXCEPT !.stage = "Placement"]
<1>1. ui \in Screens /\ ui.stage = "Command" /\ Sees(new)
  BY DEF PickerInv, PickerTypes, ConfirmCommand, At
<1>2. /\ new \in Screens /\ new.stage = "Placement" /\ new.host = ui.host /\ new.row = ui.row
      /\ SameChoice(new)
  BY <1>1 DEF Screens, Stages, SameChoice
<1> HIDE DEF new
<1> QED
  BY <1>1, <1>2, PageHolds, PageIsTurned DEF SameChoice

LEMMA TypesPathKeeps ==
  ASSUME PickerInv, TypesPath
  PROVE  PickerInv'
<1>1. ui \in Screens /\ ui.stage = "Directory"
  BY DEF PickerInv, PickerTypes, TypesPath
<1>2. ASSUME NEW input \in {"none", "path"}, Sees([ui EXCEPT !.input = input])
      PROVE  PickerInv'
  <2> DEFINE new == [ui EXCEPT !.input = input]
  <2>1. /\ new \in Screens /\ new.stage = "Directory" /\ new.host = ui.host /\ new.row = ui.row
        /\ SameChoice(new)
    BY <1>1 DEF Screens, SameChoice
  <2>2. Sees(new)
    BY <1>2
  <2> HIDE DEF new
  <2>3. /\ ui.resume = 0 /\ ui.restart = 0 /\ ui.external = 0 /\ Here \in Effective
        /\ ui.meant.kind = "create" /\ ui.meant.id = 0 /\ ui.meant.group = Here
    BY <1>1 DEF PickerInv, ScreenIsForWhatWasChosen
  <2> QED
    BY <1>1, <2>1, <2>2, <2>3, PageIsTurned DEF SameChoice
<1>3. CASE Sees([TakesDirectory EXCEPT !.input = "none"])
  <2> DEFINE taken == TakesDirectory
             new == [taken EXCEPT !.input = "none"]
  <2>1. Sees(new)
    BY <1>3
  <2>2. /\ taken \in Screens /\ taken.stage = "Command"
        /\ taken.host = ui.host /\ taken.row = ui.row
        /\ taken.resume = 0 /\ taken.restart = 0 /\ taken.external = 0
        /\ taken.directory = Here /\ Here \in Effective
        /\ taken.meant = Choice("create", 0, Here, Here)
    BY <1>1, TakingADirectory
  <2> HIDE DEF taken
  <2>3. /\ new \in Screens /\ new.stage = "Command"
        /\ new.host = ui.host /\ new.row = ui.row
        /\ new.resume = 0 /\ new.restart = 0 /\ new.external = 0
        /\ new.directory = Here /\ new.meant = Choice("create", 0, Here, Here)
    BY <2>2 DEF Screens
  <2> HIDE DEF new
  <2> QED
    BY <1>1, <2>1, <2>2, <2>3, PageIsTurned
<1> QED
  BY <1>2, <1>3 DEF TypesPath

-----------------------------------------------------------------------------
(* The picker: what holds of every behaviour *)

LEMMA PickerStarts == PickerInit => PickerInv
<1> SUFFICES ASSUME PickerInit PROVE PickerInv
  OBVIOUS
<1> USE DEF PickerInit
<1>1. status \in [Ids -> Kinds]
  OBVIOUS
<1>2. AtHome(rows)
  <2> DEFINE of(g) == {w \in Ids : HomeOf[w] = g /\ status[w] # "Gone"}
  <2>1. rows = [g \in Groups |-> Sorted(of(g), status)]
    OBVIOUS
  <2>2. ASSUME NEW g \in Groups
        PROVE  rows[g] \in Seq(Ids) /\ \A i \in DOMAIN rows[g] : HomeOf[rows[g][i]] = g
    <3>1. rows[g] = Sorted(of(g), status)
      BY <2>1
    <3>2. of(g) \in SUBSET Ids /\ \A w \in of(g) : HomeOf[w] = g
      OBVIOUS
    <3> HIDE DEF of
    <3>3. rows[g] \in Seq(of(g))
      BY <3>1, <3>2, SortedAreThose
    <3>4. rows[g] \in Seq(Ids)
      BY <3>2, <3>3, Widened
    <3> QED
      BY <3>2, <3>3, <3>4
  <2>3. rows \in [Groups -> Seq(Ids)]
    <3> HIDE DEF of
    <3> QED
      BY <2>1, <2>2
  <2> QED
    BY <2>2, <2>3 DEF AtHome
<1>3. catalog \in [Names -> Seq(Externals)]
  <2>1. <<>> \in Seq(Externals)
    OBVIOUS
  <2> QED
    BY <2>1
<1>4. ui \in Screens /\ ui.stage = "Host" /\ ui.host = 1
  <2>1. FirstScreen \in Screens /\ FirstScreen.host = 1 /\ FirstScreen.stage = "Host"
    BY DEF FirstScreen, Screens, Stages, Meanings, NoChoice, Choice
  <2>2. PICK error \in BOOLEAN : ui = [FirstScreen EXCEPT !.error = error]
    OBVIOUS
  <2> QED
    BY <2>1, <2>2 DEF Screens
<1>5. 1 \in DOMAIN ShownBy(rows)
  <2> DEFINE shown == ShownBy(rows)
  <2>1. shown \in Seq(Groups) /\ Len(shown) \in Nat \ {0}
    BY HostsAreListed
  <2> HIDE DEF shown
  <2>2. 1 \in DOMAIN shown
    BY <2>1
  <2> QED
    BY <2>2 DEF shown
<1>6. CursorIsOnARow /\ ScreenIsForWhatWasChosen
  BY <1>4, <1>5 DEF CursorIsOnARow, ScreenIsForWhatWasChosen
<1>7. AnswersAreFresh
  BY DEF AnswersAreFresh
<1> QED
  BY <1>1, <1>2, <1>3, <1>4, <1>6, <1>7 DEF PickerInv, PickerTypes

LEMMA PickerSteps == PickerInv /\ [PickerNext]_pickerVars => PickerInv'
<1> SUFFICES ASSUME PickerInv, [PickerNext]_pickerVars PROVE PickerInv'
  OBVIOUS
<1>1. CASE UNCHANGED pickerVars
  <2>1. UNCHANGED <<board, ui>> /\ closing' = closing /\ modal' = modal
    BY <1>1 DEF pickerVars, board
  <2> QED
    BY <2>1, ModalKeeps DEF PickerInv, PickerTypes
<1>2. CASE Message
  BY <1>2, HostAnswersKeeps, CatalogAnswersKeeps, WorkAnswersKeeps, PaceEndsKeeps,
     CloseConcludesKeeps DEF Message
<1>3. CASE Key
  <2>1. CASE AnswersError \/ Move \/ Refresh \/ Close \/ AnswersModal
    BY <2>1, AnswersErrorKeeps, MoveKeeps, RefreshKeeps, CloseKeeps
  <2>2. CASE Cancel \/ ManageObservers \/ ConfirmPlacement
    BY <2>2, EndsKeeps DEF Cancel, ManageObservers, ConfirmPlacement
  <2>3. CASE \/ Back \/ ConfirmHost \/ ConfirmResource \/ ConfirmDirectory
             \/ ConfirmCommand \/ TypesPath
    BY <2>3, BackKeeps, ConfirmHostKeeps, ConfirmResourceKeeps, ConfirmDirectoryKeeps,
       ConfirmCommandKeeps, TypesPathKeeps
  <2> QED
    BY <1>3, <2>1, <2>2, <2>3 DEF Key
<1> QED
  BY <1>1, <1>2, <1>3 DEF PickerNext

\* selection and back, for any groups, workloads and sessions: the placement
\* selects what was chosen on the way there, on the host it was chosen on.
THEOREM SelectionStaysWhatWasChosen == PickerSpec => []SelectionIsWhatWasChosen
<1>1. PickerInv => SelectionIsWhatWasChosen
  BY DEF PickerInv, ScreenIsForWhatWasChosen, SelectionIsWhatWasChosen
<1> QED
  BY <1>1, PickerStarts, PickerSteps, PTL DEF PickerSpec

\* Groups that have a name of their own: hosts of the configuration do, and a
\* retained group whose destination did not change its target under its name.
NamesAreOwn == \A g, h \in Groups : NameOf[g] = NameOf[h] => g = h

\* current_owned_action, while no two groups share a name: an action is offered
\* on what was told in the refresh under way, and by no other host.
THEOREM ActionsStayProven ==
  ASSUME NamesAreOwn
  PROVE  PickerSpec => []ActionsAreProven
<1>1. PickerInv => ActionsAreProven
  <2> SUFFICES ASSUME PickerInv, Offered # "none" PROVE
        /\ Row("host", Here) \in fresh
        /\ Offered = "resume" => Row("work", Under.id) \in fresh
    BY DEF ActionsAreProven
  <2>1. /\ Here \in Groups /\ NameOf[Here] \in Names
        /\ Under.kind = "owned" =>
             /\ Under.id \in Ids /\ HomeOf[Under.id] = Here /\ Under.id \in ToSet(rows[Here])
    BY UnderTheCursor DEF PickerInv
  <2>2. Under.kind = "owned" /\ Under.id \notin Legacy /\ host[NameOf[Here]] = "reachable"
    BY DEF Offered
  <2>3. PICK g \in Groups : NameOf[g] = NameOf[Here] /\ Row("host", g) \in fresh
    BY <2>1, <2>2 DEF PickerInv, AnswersAreFresh
  <2>4. g = Here
    BY <2>1, <2>3 DEF NamesAreOwn
  <2>5. ASSUME Offered = "resume" PROVE Row("work", Under.id) \in fresh
    <3>1. status[Under.id] = "Running" /\ work[Under.id] = "running"
      BY <2>2, <2>5 DEF Offered
    <3>2. Observable(rows, status, Under.id)
      BY <2>1, <2>2, <3>1 DEF Observable
    <3> QED
      BY <2>1, <2>2, <3>1, <3>2 DEF PickerInv, AnswersAreFresh
  <2> QED
    BY <2>3, <2>4, <2>5
<1> QED
  BY <1>1, PickerStarts, PickerSteps, PTL DEF PickerSpec

\* restore_selection and restore_resource_identity, for any groups, workloads
\* and sessions: no message moves the cursor off a row that is still there.
THEOREM CursorKeepsToItsRow == PickerSpec => CursorStaysOnItsRow
<1>1. PickerInv /\ [PickerNext]_pickerVars =>
        [(exit' = "none" /\ <<rows, catalog>>' # <<rows, catalog>>) => CursorFollows]_pickerVars
  <2> SUFFICES ASSUME PickerInv, PickerNext,
                      exit' = "none" /\ <<rows, catalog>>' # <<rows, catalog>>
               PROVE  CursorFollows
    OBVIOUS
  <2>1. CASE Key
    <3>1. ASSUME NEW how, Ends(how), how # "none" PROVE FALSE
      BY <3>1 DEF Ends
    <3>2. ASSUME NEW new, Sees(new) PROVE FALSE
      BY <3>2 DEF Sees, board
    <3>3. ~AnswersError /\ ~Cancel /\ ~ManageObservers /\ ~ConfirmPlacement
      BY <3>1, <3>2 DEF AnswersError, Cancel, ManageObservers, ConfirmPlacement
    <3>4. ~Move /\ ~ConfirmHost /\ ~ConfirmDirectory /\ ~ConfirmCommand /\ ~TypesPath
      BY <3>2 DEF Move, ConfirmHost, ConfirmDirectory, ConfirmCommand, TypesPath
    <3>5. ~ConfirmResource
      BY <3>2 DEF ConfirmResource
    <3>6. ~Back
      BY <3>1, <3>2 DEF Back
    <3>7. ~Refresh /\ ~Close /\ ~AnswersModal
      BY DEF Refresh, Close, AnswersModal, board
    <3> QED
      BY <2>1, <3>3, <3>4, <3>5, <3>6, <3>7 DEF Key
  <2>2. CASE Message
    <3>1. ASSUME NEW w \in Ids, PaceEnds(w) PROVE FALSE
      BY <3>1 DEF PaceEnds
    <3> QED
      BY <2>2, <3>1, HostAnswersKeeps, CatalogAnswersKeeps, WorkAnswersKeeps, CloseConcludesKeeps
      DEF Message
  <2> QED
    BY <2>1, <2>2 DEF PickerNext
<1> QED
  BY <1>1, PickerStarts, PickerSteps, PTL DEF PickerSpec, CursorStaysOnItsRow

=============================================================================
