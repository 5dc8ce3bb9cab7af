------------------------- MODULE PromptDeliveryProofs -------------------------
(***************************************************************************)
(* For any workers, panes and steps of the surroundings: a prompt is asked *)
(* for only at the occupant proven since SEND, and every outcome shown is  *)
(* true for good.                                                          *)
(*                                                                         *)
(* The argument: a membership that ended never returns (NewIds), so one    *)
(* that is in force at the second load was in force at the first snapshot, *)
(* and the occupant found there was proven then (Looked).  A send asks     *)
(* Herdr at most once for a worker, and only from the thread that is under *)
(* way (OneRequest, Asked), so what was refused is never written.          *)
(***************************************************************************)
EXTENDS PromptDelivery, FiniteSetTheorems, TLAPS

AtMostOne(S) == {{}} \cup {{x} : x \in S}

ThreadShape ==
  [at : Points, binding : AtMostOne(Binding), outcome : AtMostOne(Outcomes)]

Surface ==
  [phase : {"idle", "reviewing", "delivering"}, reviewed : [Targets -> Nat],
   sends : 0..MaxSends, armed : BOOLEAN]

TypeInv ==
  /\ members \in [Targets -> Member]
  /\ panes \in [Panes -> AtMostOne(Occupant)]
  /\ surface \in Surface
  /\ surface.phase = "reviewing" => surface.sends < MaxSends
  /\ surface.phase = "delivering" => surface.sends > 0
  /\ threads \in [Targets -> ThreadShape]
  /\ \A t \in Targets :
       /\ threads[t].outcome = {} <=> threads[t].at # "done"
       /\ threads[t].at \in {"send", "sent"} => threads[t].binding # {}
  /\ requests \subseteq Request
  /\ changes \in Nat
  /\ written \subseteq Nat \X Targets \X Nat
  /\ told \subseteq (1..MaxSends) \X Targets \X Outcomes

-----------------------------------------------------------------------------
(* Types *)

LEMMA RestingShape == Resting \in ThreadShape
BY DEF Resting, ThreadShape, AtMostOne, Points

\* A step of one thread changes its entry and no other.
LEMMA StepShape ==
  ASSUME TypeInv, NEW t \in Targets, NEW thread \in ThreadShape, Step(t, thread),
         thread.outcome = {} <=> thread.at # "done",
         thread.at \in {"send", "sent"} => thread.binding # {}
  PROVE  /\ threads' \in [Targets -> ThreadShape]
         /\ threads'[t] = thread /\ \A u \in Targets \ {t} : threads'[u] = threads[u]
         /\ \A u \in Targets :
              /\ threads'[u].outcome = {} <=> threads'[u].at # "done"
              /\ threads'[u].at \in {"send", "sent"} => threads'[u].binding # {}
BY DEF TypeInv, Step

LEMMA ConcludesShape ==
  ASSUME TypeInv, NEW t \in Targets, NEW outcome \in Outcomes
  PROVE  LET thread == [threads[t] EXCEPT !.at = "done", !.outcome = {outcome}]
         IN  /\ thread \in ThreadShape /\ thread.at = "done" /\ thread.outcome = {outcome}
             /\ thread.binding = threads[t].binding
<1>1. {outcome} \in AtMostOne(Outcomes)
  BY DEF AtMostOne
<1>2. "done" \in Points
  BY DEF Points
<1> QED
  BY <1>1, <1>2 DEF TypeInv, ThreadShape

\* What a snapshot finds is a binding to the one pane that claims the
\* membership, and to who is there.
LEMMA ResolvedBinding ==
  ASSUME TypeInv, NEW t \in Targets, NEW b \in Resolved(t)
  PROVE  b \in Binding
<1>1. PICK p \in Panes : \E o \in panes[p] :
        b = [pane |-> p, terminal |-> o.terminal, name |-> o.name, seq |-> o.seq]
  BY DEF Resolved
<1>2. panes[p] \subseteq Occupant
  BY DEF TypeInv, AtMostOne
<1> QED
  BY <1>1, <1>2 DEF Occupant, Binding

LEMMA OneOccupant ==
  ASSUME TypeInv, NEW p \in Panes
  PROVE  /\ panes[p] \subseteq Occupant
         /\ \A o \in panes[p] : panes[p] = {o} /\ o \in Occupant
BY DEF TypeInv, AtMostOne

LEMMA PanesChange ==
  ASSUME TypeInv, NEW p \in Panes, NEW o \in Occupant,
         ChangePanes([panes EXCEPT ![p] = {o}])
  PROVE  panes' \in [Panes -> AtMostOne(Occupant)]
BY DEF TypeInv, AtMostOne, ChangePanes

\* What happens to an occupant leaves it one.
LEMMA OccupantChanges ==
  ASSUME TypeInv, NEW o \in Occupant
  PROVE  /\ [o EXCEPT !.terminal = changes + 2, !.name = NoName, !.seq = 0] \in Occupant
         /\ [o EXCEPT !.settled = ~@, !.seq = @ + 1] \in Occupant
         /\ [o EXCEPT !.expected = ~@] \in Occupant
         /\ \A n \in Names \cup {NoName} : [o EXCEPT !.name = n] \in Occupant
<1>1. ASSUME NEW x \in BOOLEAN, NEW n \in Nat
      PROVE  [o EXCEPT !.settled = x, !.seq = n] \in Occupant
  <2> DEFINE u == [o EXCEPT !.settled = x]
  <2>1. u \in Occupant
    BY DEF Occupant
  <2> HIDE DEF u
  <2>2. [u EXCEPT !.seq = n] \in Occupant
    BY <2>1 DEF Occupant
  <2> QED
    BY <2>2 DEF u
<1>2. ASSUME NEW n \in Nat
      PROVE  [o EXCEPT !.terminal = n, !.name = NoName, !.seq = 0] \in Occupant
  <2> DEFINE u == [o EXCEPT !.terminal = n]
             v == [u EXCEPT !.name = NoName]
  <2>1. u \in Occupant
    BY DEF Occupant
  <2> HIDE DEF u
  <2>2. v \in Occupant
    BY <2>1 DEF Occupant
  <2> HIDE DEF v
  <2>3. [v EXCEPT !.seq = 0] \in Occupant
    BY <2>2 DEF Occupant
  <2> QED
    BY <2>3 DEF u, v
<1>3. /\ \A x \in BOOLEAN : [o EXCEPT !.expected = x] \in Occupant
      /\ \A n \in Names \cup {NoName} : [o EXCEPT !.name = n] \in Occupant
  BY DEF Occupant
<1>4. (~o.settled) \in BOOLEAN /\ (~o.expected) \in BOOLEAN
  OBVIOUS
<1>5. o.seq + 1 \in Nat /\ changes + 2 \in Nat
  BY DEF TypeInv, Occupant
<1> QED
  BY <1>1, <1>2, <1>3, <1>4, <1>5, Zenon

LEMMA PaneTypes ==
  ASSUME TypeInv, NEW p \in Panes, PaneChanges(p)
  PROVE  panes' \in [Panes -> AtMostOne(Occupant)] /\ members' = members
<1>1. members' = members
  BY DEF PaneChanges, ChangePanes
<1>2. CASE ChangePanes([panes EXCEPT ![p] = {}])
  BY <1>1, <1>2 DEF TypeInv, AtMostOne, ChangePanes
<1>3. CASE \E q \in Panes : ChangePanes([panes EXCEPT ![q] = panes[p], ![p] = {}])
  BY <1>1, <1>3 DEF TypeInv, AtMostOne, ChangePanes
<1>4. ASSUME NEW o \in panes[p], NEW to \in Occupant, ChangePanes([panes EXCEPT ![p] = {to}])
      PROVE  panes' \in [Panes -> AtMostOne(Occupant)]
  BY <1>4, PanesChange
<1> QED
  BY <1>1, <1>2, <1>3, <1>4, OneOccupant, OccupantChanges DEF PaneChanges

LEMMA MemberTypes ==
  ASSUME TypeInv, NEW t \in Targets, MemberChanges(t)
  PROVE  members' \in [Targets -> Member] /\ panes' = panes
<1> DEFINE m == members[t]
<1>1. m \in Member /\ changes \in Nat
  BY DEF TypeInv
<1>2. /\ [m EXCEPT !.membership = 0] \in Member
      /\ [m EXCEPT !.membership = changes + 2] \in Member
      /\ \A x \in BOOLEAN : /\ [m EXCEPT !.prompt = x] \in Member
                            /\ [m EXCEPT !.running = x] \in Member
  BY <1>1 DEF Member
<1>4. (~m.prompt) \in BOOLEAN /\ (~m.running) \in BOOLEAN
  OBVIOUS
<1>3. ASSUME NEW member \in Member, ChangeMember(t, member)
      PROVE  members' \in [Targets -> Member] /\ panes' = panes
  BY <1>3 DEF ChangeMember, TypeInv
<1> QED
  BY <1>2, <1>3, <1>4, Zenon DEF MemberChanges

LEMMA MaterializeTypes ==
  ASSUME TypeInv, NEW t \in Targets, NEW p \in Panes, Materialize(t, p)
  PROVE  panes' \in [Panes -> AtMostOne(Occupant)] /\ members' = members
<1> DEFINE o == [worker |-> t, membership |-> members[t].membership, terminal |-> changes + 2,
                 expected |-> TRUE, name |-> NoName, settled |-> TRUE, seq |-> 0]
<1>1. o \in Occupant
  BY DEF TypeInv, Member, Occupant
<1>2. ChangePanes([panes EXCEPT ![p] = {o}])
  BY DEF Materialize
<1> QED
  BY <1>1, <1>2, PanesChange DEF ChangePanes

\* What a request becomes when Herdr handles it.
LEMMA RequestTypes ==
  ASSUME TypeInv, NEW r \in requests
  PROVE  /\ [r EXCEPT !.state = "refused"] \in Request
         /\ [r EXCEPT !.state = "failed"] \in Request
         /\ \A p \in Panes : \A o \in panes[p] : \A state \in {"written", "failed"} :
              [r EXCEPT !.state = state, !.terminal = o.terminal] \in Request
<1>1. r \in Request
  BY DEF TypeInv
<1>2. \A p \in Panes : \A o \in panes[p] : o.terminal \in Nat
  BY OneOccupant DEF Occupant
<1> QED
  BY <1>1, <1>2 DEF Request

LEMMA HandleTypes ==
  ASSUME TypeInv, NEW r \in requests, Handle(r)
  PROVE  requests' \subseteq Request /\ written' \subseteq Nat \X Targets \X Nat
<1>1. r \in Request /\ requests \subseteq Request
  BY DEF TypeInv
<1>2. written' \subseteq Nat \X Targets \X Nat
  <2>1. ASSUME NEW p \in Panes, NEW o \in panes[p]
        PROVE  <<r.send, r.worker, o.terminal>> \in Nat \X Targets \X Nat
    BY <1>1, OneOccupant DEF Request, Occupant
  <2>2. Meant(r) \subseteq Panes
    BY DEF Meant
  <2> QED
    BY <2>1, <2>2 DEF Handle, TypeInv
<1>3. requests' \subseteq Request
  <2>1. \E new \in Request : requests' = (requests \ {r}) \cup {new}
    <3>1. Meant(r) \subseteq Panes
      BY DEF Meant
    <3>2. CASE \E p \in Meant(r) : \E o \in panes[p], state \in {"written", "failed"} :
                 requests' = (requests \ {r}) \cup {[r EXCEPT !.state = state, !.terminal = o.terminal]}
      <4>0. PICK p \in Meant(r) : \E o \in panes[p], state \in {"written", "failed"} :
                 requests' = (requests \ {r}) \cup {[r EXCEPT !.state = state, !.terminal = o.terminal]}
        BY <3>2
      <4>1. PICK o \in panes[p], state \in {"written", "failed"} :
                 requests' = (requests \ {r}) \cup {[r EXCEPT !.state = state, !.terminal = o.terminal]}
        BY <4>0
      <4>2. [r EXCEPT !.state = state, !.terminal = o.terminal] \in Request
        BY <3>1, RequestTypes
      <4> QED
        BY <4>1, <4>2
    <3> QED
      BY <3>2, RequestTypes, Zenon DEF Handle
  <2> QED
    BY <1>1, <2>1
<1> QED
  BY <1>2, <1>3

LEMMA SurfaceTypes ==
  ASSUME TypeInv,
         \/ \E S \in SUBSET Targets : Compose(S)
         \/ Cancel \/ Send \/ Report \/ Quit \/ Disarm
  PROVE  TypeInv'
<1> USE RestingShape, LimitAssumption
<1>1. CASE \E S \in SUBSET Targets : Compose(S)
  <2>1. PICK S \in SUBSET Targets : Compose(S)
    BY <1>1
  <2> DEFINE reviewed == [t \in Targets |-> IF t \in S THEN members[t].membership ELSE 0]
  <2>2. reviewed \in [Targets -> Nat]
    BY DEF TypeInv, Member
  <2> HIDE DEF reviewed
  <2>3. /\ surface'.phase = "reviewing" /\ surface'.reviewed = reviewed
        /\ surface'.sends = surface.sends /\ surface'.armed = surface.armed
        /\ surface' \in Surface
    BY <2>1, <2>2 DEF Compose, TypeInv, Surface, reviewed
  <2> QED
    BY <2>1, <2>3 DEF Compose, TypeInv
<1>2. CASE Cancel
  BY <1>2 DEF Cancel, TypeInv, Surface
<1>3. CASE Send
  <2>1. /\ threads' \in [Targets -> ThreadShape]
        /\ \A t \in Targets : threads'[t].at # "done" /\ threads'[t].outcome = {}
                             /\ threads'[t].at \notin {"send", "sent"}
    BY <1>3 DEF Send, Resting, ThreadShape, AtMostOne, Points
  <2> DEFINE u == [surface EXCEPT !.phase = "delivering"]
             v == [u EXCEPT !.sends = surface.sends + 1]
  <2>2. /\ u \in Surface /\ u.phase = "delivering" /\ u.sends = surface.sends
        /\ u.reviewed = surface.reviewed
    BY DEF TypeInv, Surface
  <2>3. surface.sends + 1 \in 1..MaxSends
    BY <1>3 DEF Send, TypeInv, Surface
  <2> HIDE DEF u
  <2>4. /\ v \in Surface /\ v.phase = "delivering" /\ v.sends = surface.sends + 1
        /\ v.reviewed = surface.reviewed
    BY <2>2, <2>3 DEF Surface
  <2> HIDE DEF v
  <2>5. LET w == [v EXCEPT !.armed = FALSE]
        IN  w \in Surface /\ w.phase = "delivering" /\ w.sends = surface.sends + 1
    BY <2>4 DEF Surface
  <2>6. surface' = [v EXCEPT !.armed = FALSE]
    BY <1>3, Zenon DEF Send, u, v
  <2>7. surface' \in Surface /\ surface'.phase = "delivering" /\ surface'.sends > 0
    BY <2>3, <2>5, <2>6
  <2> QED
    BY <1>3, <2>1, <2>7 DEF Send, TypeInv
<1>4. ASSUME threads' = [t \in Targets |-> Resting]
      PROVE  /\ threads' \in [Targets -> ThreadShape]
             /\ \A t \in Targets : threads'[t].at = "idle" /\ threads'[t].outcome = {}
  BY <1>4 DEF Resting
<1>5. CASE Report
  <2>1. \A t \in Targets : threads[t].outcome \subseteq Outcomes
    BY DEF TypeInv, ThreadShape, AtMostOne
  <2>2. surface.sends \in 1..MaxSends
    BY <1>5 DEF Report, TypeInv, Surface
  <2>3. told' \subseteq (1..MaxSends) \X Targets \X Outcomes
    BY <1>5, <2>1, <2>2 DEF Report, TypeInv, Chosen
  <2>4. surface' \in Surface /\ surface'.phase = "idle"
    BY <1>5 DEF Report, TypeInv, Surface
  <2> QED
    BY <1>4, <1>5, <2>3, <2>4 DEF Report, TypeInv
<1>6. CASE Quit
  <2>1. surface.sends \in 1..MaxSends
    BY <1>6 DEF Quit, TypeInv, Surface
  <2>2. told' \subseteq (1..MaxSends) \X Targets \X Outcomes
    BY <1>6, <2>1 DEF Quit, TypeInv, Surface, Chosen, Outcomes
  <2>3. CASE ~surface.armed
    BY <1>6, <2>3 DEF Quit, TypeInv, Surface
  <2>4. CASE surface.armed
    BY <1>6, <1>4, <2>2, <2>4 DEF Quit, TypeInv, Surface
  <2> QED
    BY <2>3, <2>4
<1>7. CASE Disarm
  BY <1>7 DEF Disarm, TypeInv, Surface
<1> QED
  BY <1>1, <1>2, <1>3, <1>5, <1>6, <1>7

\* Everything a thread can do: move on, or conclude.
Others(t) == \A u \in Targets \ {t} : threads'[u] = threads[u]

Moved(t, from, to, binding) ==
  /\ threads[t].at = from /\ threads'[t].at = to /\ threads'[t].binding = binding
  /\ threads'[t].outcome = {} /\ Others(t)

Concluded(t, outcome) ==
  /\ threads'[t].at = "done" /\ threads'[t].outcome = {outcome}
  /\ threads'[t].binding = threads[t].binding /\ Others(t)

LEMMA Moves ==
  ASSUME TypeInv, NEW t \in Targets, NEW from \in Points \ {"done"},
         NEW to \in Points \ {"done"}, NEW binding \in AtMostOne(Binding), At(t, from),
         to \in {"send", "sent"} => binding # {},
         NEW thread, Step(t, thread),
         thread = [at |-> to, binding |-> binding, outcome |-> {}],
         UNCHANGED <<members, panes, surface, changes, written, told>>, requests' \subseteq Request
  PROVE  TypeInv' /\ Moved(t, from, to, binding)
<1>1. thread \in ThreadShape /\ thread.at = to /\ thread.binding = binding /\ thread.outcome = {}
  BY DEF ThreadShape, AtMostOne
<1> QED
  BY <1>1, StepShape DEF TypeInv, Moved, Others, At

\* A thread that is not done has no outcome yet.
LEMMA MovesShape ==
  ASSUME TypeInv, NEW t \in Targets, NEW from \in Points \ {"done"}, At(t, from),
         NEW to \in Points
  PROVE  /\ [threads[t] EXCEPT !.at = to]
              = [at |-> to, binding |-> threads[t].binding, outcome |-> {}]
         /\ \A b \in Binding :
              [threads[t] EXCEPT !.at = to, !.binding = {b}]
                = [at |-> to, binding |-> {b}, outcome |-> {}]
<1> DEFINE u == [threads[t] EXCEPT !.at = to]
<1>1. threads[t] \in ThreadShape /\ threads[t].outcome = {}
  BY DEF TypeInv, At
<1>2. u = [at |-> to, binding |-> threads[t].binding, outcome |-> {}]
  BY <1>1 DEF ThreadShape
<1> HIDE DEF u
<1>3. ASSUME NEW b \in Binding
      PROVE  [u EXCEPT !.binding = {b}] = [at |-> to, binding |-> {b}, outcome |-> {}]
  BY <1>2
<1>4. ASSUME NEW b \in Binding
      PROVE  [threads[t] EXCEPT !.at = to, !.binding = {b}]
               = [at |-> to, binding |-> {b}, outcome |-> {}]
  BY <1>3, Zenon DEF u
<1> QED
  BY <1>2, <1>4 DEF u

LEMMA Concludes ==
  ASSUME TypeInv, NEW t \in Targets, NEW outcome \in Outcomes, Conclude(t, outcome),
         UNCHANGED <<members, panes, surface, requests, changes, written, told>>
  PROVE  TypeInv' /\ Concluded(t, outcome)
<1> DEFINE thread == [threads[t] EXCEPT !.at = "done", !.outcome = {outcome}]
<1>1. /\ thread \in ThreadShape /\ thread.at = "done" /\ thread.outcome = {outcome}
      /\ thread.binding = threads[t].binding
  BY ConcludesShape
<1>2. Step(t, thread)
  BY DEF Conclude
<1> HIDE DEF thread
<1> QED
  BY <1>1, <1>2, StepShape DEF TypeInv, Concluded, Others

LEMMA LoadSteps ==
  ASSUME TypeInv, NEW t \in Targets, Load(t)
  PROVE  /\ TypeInv'
         /\ \/ Moved(t, "load", "snapshot", threads[t].binding) /\ Expected(t)
            \/ Moved(t, "reload", "resnapshot", threads[t].binding) /\ Expected(t)
            \/ (At(t, "load") \/ At(t, "reload")) /\ Concluded(t, "rejected")
<1>1. threads[t].binding \in AtMostOne(Binding)
  BY DEF TypeInv, ThreadShape
<1>2. requests' \subseteq Request
  BY DEF Load, TypeInv
<1>3. CASE At(t, "load") /\ Expected(t) /\ Step(t, [threads[t] EXCEPT !.at = "snapshot"])
  <2>1. [threads[t] EXCEPT !.at = "snapshot"]
          = [at |-> "snapshot", binding |-> threads[t].binding, outcome |-> {}]
    BY <1>3, MovesShape DEF Points
  <2>2. TypeInv' /\ Moved(t, "load", "snapshot", threads[t].binding)
    BY <1>1, <1>2, <1>3, <2>1, Moves DEF Points, Load
  <2> QED
    BY <1>3, <2>2
<1>4. CASE At(t, "reload") /\ Expected(t) /\ Step(t, [threads[t] EXCEPT !.at = "resnapshot"])
  <2>1. [threads[t] EXCEPT !.at = "resnapshot"]
          = [at |-> "resnapshot", binding |-> threads[t].binding, outcome |-> {}]
    BY <1>4, MovesShape DEF Points
  <2>2. TypeInv' /\ Moved(t, "reload", "resnapshot", threads[t].binding)
    BY <1>1, <1>2, <1>4, <2>1, Moves DEF Points, Load
  <2> QED
    BY <1>4, <2>2
<1>5. CASE (At(t, "load") \/ At(t, "reload")) /\ Conclude(t, "rejected")
  <2>1. TypeInv' /\ Concluded(t, "rejected")
    BY <1>5, Concludes DEF Outcomes, Load
  <2> QED
    BY <1>5, <2>1
<1> QED
  BY <1>3, <1>4, <1>5 DEF Load

LEMMA SnapshotSteps ==
  ASSUME TypeInv, NEW t \in Targets, Snapshot(t)
  PROVE  /\ TypeInv'
         /\ \/ \E b \in Resolved(t) : Moved(t, "snapshot", "reload", {b})
            \/ \E b \in Resolved(t), first \in threads[t].binding :
                 SameOccupant(b, first) /\ Moved(t, "resnapshot", "send", {b})
            \/ (At(t, "snapshot") \/ At(t, "resnapshot")) /\ Concluded(t, "rejected")
<1>1. \A b \in Resolved(t) : {b} \in AtMostOne(Binding)
  BY ResolvedBinding DEF AtMostOne
<1>2. requests' \subseteq Request
  BY DEF Snapshot, TypeInv
<1>3. ASSUME NEW b \in Resolved(t), At(t, "snapshot"),
             Step(t, [threads[t] EXCEPT !.at = "reload", !.binding = {b}])
      PROVE  TypeInv' /\ Moved(t, "snapshot", "reload", {b})
  <2>1. [threads[t] EXCEPT !.at = "reload", !.binding = {b}]
          = [at |-> "reload", binding |-> {b}, outcome |-> {}]
    <3>1. b \in Binding /\ "snapshot" \in Points \ {"done"} /\ "resnapshot" \in Points \ {"done"}
      BY ResolvedBinding DEF Points
    <3>2. "reload" \in Points /\ "send" \in Points
      BY DEF Points
    <3> QED
      BY <1>3, <3>1, <3>2, MovesShape, Zenon
  <2> QED
    BY <1>1, <1>2, <1>3, <2>1, Moves DEF Points, Snapshot
<1>4. ASSUME NEW b \in Resolved(t), At(t, "resnapshot"),
             Step(t, [threads[t] EXCEPT !.at = "send", !.binding = {b}])
      PROVE  TypeInv' /\ Moved(t, "resnapshot", "send", {b})
  <2>1. [threads[t] EXCEPT !.at = "send", !.binding = {b}]
          = [at |-> "send", binding |-> {b}, outcome |-> {}]
    <3>1. b \in Binding /\ "snapshot" \in Points \ {"done"} /\ "resnapshot" \in Points \ {"done"}
      BY ResolvedBinding DEF Points
    <3>2. "reload" \in Points /\ "send" \in Points
      BY DEF Points
    <3> QED
      BY <1>4, <3>1, <3>2, MovesShape, Zenon
  <2> QED
    BY <1>1, <1>2, <1>4, <2>1, Moves DEF Points, Snapshot
<1>5. CASE (At(t, "snapshot") \/ At(t, "resnapshot")) /\ Conclude(t, "rejected")
  <2>1. TypeInv' /\ Concluded(t, "rejected")
    BY <1>5, Concludes DEF Outcomes, Snapshot
  <2> QED
    BY <1>5, <2>1
<1> QED
  BY <1>3, <1>4, <1>5 DEF Snapshot

LEMMA AskSteps ==
  ASSUME TypeInv, NEW t \in Targets, Ask(t)
  PROVE  /\ TypeInv' /\ Moved(t, "send", "sent", threads[t].binding)
         /\ \E r \in Request :
              /\ r.send = surface.sends /\ r.worker = t /\ r.state = "asked"
              /\ requests' = requests \cup {r}
<1>1. threads[t].binding \in AtMostOne(Binding) /\ threads[t].binding # {}
  BY DEF TypeInv, ThreadShape, Ask, At
<1>2. PICK b \in threads[t].binding : requests' = requests \cup
         {[send |-> surface.sends, worker |-> t, pane |-> b.pane, name |-> b.name,
           state |-> "asked", terminal |-> 0]}
  BY DEF Ask
<1>3. b \in Binding /\ surface.sends \in Nat
  BY <1>1 DEF AtMostOne, TypeInv, Surface
<1> DEFINE r == [send |-> surface.sends, worker |-> t, pane |-> b.pane, name |-> b.name,
                 state |-> "asked", terminal |-> 0]
<1>4. r \in Request /\ requests' = requests \cup {r}
  BY <1>2, <1>3 DEF Request, Binding
<1>5. requests' \subseteq Request
  BY <1>4 DEF TypeInv
<1>6. [threads[t] EXCEPT !.at = "sent"]
        = [at |-> "sent", binding |-> threads[t].binding, outcome |-> {}]
  BY MovesShape DEF Ask, Points
<1>7. TypeInv' /\ Moved(t, "send", "sent", threads[t].binding)
  BY <1>1, <1>5, <1>6, Moves DEF Ask, Points
<1> QED
  BY <1>4, <1>7

LEMMA ConcludingSteps ==
  ASSUME TypeInv, NEW t \in Targets, Unanswered(t) \/ Answered(t)
  PROVE  /\ TypeInv' /\ requests' = requests /\ (At(t, "send") \/ At(t, "sent"))
         /\ \/ Concluded(t, "uncertain")
            \/ At(t, "sent") /\ \E r \in requests :
                 /\ r.send = surface.sends /\ r.worker = t
                 /\ \/ r.state = "refused" /\ Concluded(t, "rejected")
                    \/ r.state = "written" /\ Concluded(t, "stalled")
                    \/ r.state = "written" /\ Concluded(t, "delivered")
                        /\ \E b \in threads[t].binding : r.terminal = b.terminal
BY Concludes DEF Unanswered, Answered, ConfirmsNoDelivery, ConfirmsTarget, Outcomes

LEMMA SurroundingTypes ==
  ASSUME TypeInv, Surroundings
  PROVE  TypeInv'
<1>1. members' \in [Targets -> Member] /\ panes' \in [Panes -> AtMostOne(Occupant)]
  BY PaneTypes, MemberTypes, MaterializeTypes DEF Surroundings, TypeInv
<1>2. changes' \in Nat
  BY DEF Surroundings, Change, TypeInv
<1> QED
  BY <1>1, <1>2 DEF Surroundings, TypeInv

LEMMA StepTypes ==
  ASSUME TypeInv, [Next]_vars
  PROVE  TypeInv'
<1>1. CASE \/ \E S \in SUBSET Targets : Compose(S)
           \/ Cancel \/ Send \/ Report \/ Quit \/ Disarm
  BY <1>1, SurfaceTypes
<1>2. ASSUME NEW t \in Targets, ThreadStep(t)
      PROVE  TypeInv'
  BY <1>2, LoadSteps, SnapshotSteps, AskSteps, ConcludingSteps DEF ThreadStep
<1>3. ASSUME NEW r \in requests, Handle(r)
      PROVE  TypeInv'
  BY <1>3, HandleTypes DEF Handle, TypeInv
<1>4. CASE UNCHANGED vars
  BY <1>4 DEF vars, TypeInv
<1> QED
  BY <1>1, <1>2, <1>3, <1>4, SurroundingTypes DEF Next

LEMMA InitTypes == Init => TypeInv
<1> SUFFICES ASSUME Init PROVE TypeInv
  OBVIOUS
<1>1. members \in [Targets -> Member]
  BY DEF Init, Member
<1>2. panes \in [Panes -> AtMostOne(Occupant)]
  <2>1. PICK t \in Targets, p \in Panes, n \in Names \cup {NoName} :
          panes = [q \in Panes |-> IF q # p THEN {} ELSE
            {[worker |-> t, membership |-> 1, terminal |-> 1, expected |-> TRUE,
              name |-> n, settled |-> TRUE, seq |-> 0]}]
    BY DEF Init
  <2> DEFINE o == [worker |-> t, membership |-> 1, terminal |-> 1, expected |-> TRUE,
                   name |-> n, settled |-> TRUE, seq |-> 0]
  <2>2. o \in Occupant
    BY DEF Occupant
  <2> QED
    BY <2>1, <2>2 DEF AtMostOne
<1>3. surface \in Surface /\ surface.phase = "idle"
  BY LimitAssumption DEF Init, Surface
<1>4. /\ threads \in [Targets -> ThreadShape]
      /\ \A t \in Targets : threads[t].at = "idle" /\ threads[t].outcome = {}
  BY RestingShape DEF Init, Resting
<1> QED
  BY <1>1, <1>2, <1>3, <1>4 DEF Init, TypeInv

THEOREM TypeInvariant == Spec => []TypeInv
BY InitTypes, StepTypes, PTL DEF Spec

\* Every variable keeps its type, whatever the workers, the panes and the bounds.
THEOREM TypeCorrect == Spec => []TypeOK
<1>1. TypeInv => TypeOK
  <2> SUFFICES ASSUME TypeInv PROVE TypeOK
    OBVIOUS
  <2>1. ASSUME NEW S, NEW x \in AtMostOne(S)
        PROVE  /\ x \subseteq S /\ Cardinality(x) <= 1
               /\ x = {} => Cardinality(x) = 0
               /\ x # {} => Cardinality(x) = 1
    BY FS_Singleton, FS_EmptySet DEF AtMostOne
  <2>2. \A p \in Panes : panes[p] \subseteq Occupant /\ Cardinality(panes[p]) <= 1
    BY <2>1 DEF TypeInv
  <2>3. threads \in [Targets -> Thread]
    BY <2>1 DEF TypeInv, ThreadShape, Thread
  <2>4. ASSUME NEW t \in Targets
        PROVE  /\ Cardinality(threads[t].outcome) = IF threads[t].at = "done" THEN 1 ELSE 0
               /\ threads[t].at \in {"send", "sent"} => Cardinality(threads[t].binding) = 1
    <3>1. threads[t].outcome \in AtMostOne(Outcomes) /\ threads[t].binding \in AtMostOne(Binding)
      BY DEF TypeInv, ThreadShape
    <3> QED
      BY <2>1, <3>1 DEF TypeInv
  <2>5. told \subseteq Nat \X Targets \X Outcomes
    <3>1. \A n \in 1..MaxSends : n \in Nat
      BY LimitAssumption
    <3> QED
      BY <3>1 DEF TypeInv
  <2> QED
    BY <2>2, <2>3, <2>4, <2>5 DEF TypeInv, TypeOK, Surface
<1> QED
  BY <1>1, TypeInvariant, PTL

-----------------------------------------------------------------------------
(* What is sent was proven *)

Authorized(t) ==
  \A b \in threads[t].binding : <<surface.sends, t, b.terminal>> \in proven

\* The next membership is newer than any that was ever reviewed.
NewIds ==
  \A t \in Targets : members[t].membership <= changes + 1 /\ Reviewed(t) <= changes + 1

\* Only a reviewed worker has a delivery thread.
ThreadsAreChosen ==
  surface.phase = "delivering" =>
    \A t \in Targets : threads[t].at # "idle" => Reviewed(t) # 0

\* The occupant of the first snapshot was proven if the reviewed membership is
\* still in force: it was in force then.
Looked ==
  \A t \in Targets :
    At(t, "reload") /\ members[t].membership = Reviewed(t) => Authorized(t)

Rechecked ==
  \A t \in Targets :
    At(t, "resnapshot") \/ At(t, "send") \/ At(t, "sent") => Authorized(t)

AuthInv == NewIds /\ ThreadsAreChosen /\ Looked /\ Rechecked

\* What is proven stays so.
LEMMA ProvenGrows ==
  ASSUME [Next]_vars
  PROVE  proven \subseteq proven'
BY DEF Next, vars

\* A thread that looks while its reviewed membership is in force proves what it finds.
LEMMA LookingProves ==
  ASSUME TypeInv, Next, UNCHANGED <<members, panes, surface>>, NEW t \in Targets,
         surface.phase = "delivering", Reviewed(t) # 0,
         members[t].membership = Reviewed(t), NEW b \in Resolved(t)
  PROVE  <<surface.sends, t, b.terminal>> \in proven'
<1>1. Resolved(t)' = Resolved(t)
  BY DEF Resolved, Exact, Reviewed
<1>2. ProvenNow' \subseteq proven'
  BY DEF Next
<1>3. t \in {u \in Chosen' : surface'.phase = "delivering"
                              /\ members'[u].membership = Reviewed(u)'}
  BY DEF Chosen, Reviewed
<1>4. <<surface.sends, t, b.terminal>> \in ProvenNow'
  BY <1>1, <1>3 DEF ProvenNow
<1> QED
  BY <1>2, <1>4

LEMMA ThreadStepTypes ==
  ASSUME TypeInv, NEW t \in Targets, ThreadStep(t)
  PROVE  /\ TypeInv' /\ UNCHANGED <<members, panes, surface, changes, written, told>>
         /\ surface.phase = "delivering" /\ threads[t].at # "idle" /\ Others(t)
<1>1. TypeInv' /\ Others(t)
  BY LoadSteps, SnapshotSteps, AskSteps, ConcludingSteps DEF ThreadStep, Moved, Concluded
<1>2. UNCHANGED <<members, panes, surface, changes, written, told>>
  BY DEF ThreadStep, Load, Snapshot, Ask, Unanswered, Answered
<1>3. surface.phase = "delivering" /\ threads[t].at # "idle"
  BY DEF ThreadStep, Load, Snapshot, Ask, Unanswered, Answered, At
<1> QED
  BY <1>1, <1>2, <1>3

\* What a thread step does to what the thread may assume.
LEMMA ThreadStepAuthorizes ==
  ASSUME TypeInv, AuthInv, Next, NEW t \in Targets, ThreadStep(t)
  PROVE  /\ At(t, "reload")' /\ members'[t].membership = Reviewed(t)' => Authorized(t)'
         /\ At(t, "resnapshot")' \/ At(t, "send")' \/ At(t, "sent")' => Authorized(t)'
<1>1. /\ UNCHANGED <<members, panes, surface>> /\ surface.phase = "delivering"
      /\ Reviewed(t) # 0 /\ proven \subseteq proven'
  BY ThreadStepTypes, ProvenGrows DEF AuthInv, ThreadsAreChosen
<1>2. CASE Load(t)
  <2>1. CASE Moved(t, "load", "snapshot", threads[t].binding)
    BY <2>1 DEF Moved, At
  <2>2. CASE Moved(t, "reload", "resnapshot", threads[t].binding) /\ Expected(t)
    <3>1. Authorized(t)
      BY <1>1, <2>2 DEF Moved, Expected, AuthInv, Looked, At
    <3> QED
      BY <1>1, <2>2, <3>1 DEF Moved, Authorized, At
  <2>3. CASE Concluded(t, "rejected")
    BY <2>3 DEF Concluded, At
  <2> QED
    BY <1>2, <2>1, <2>2, <2>3, LoadSteps
<1>3. CASE Snapshot(t)
  <2>1. ASSUME NEW b \in Resolved(t), Moved(t, "snapshot", "reload", {b})
        PROVE  /\ members'[t].membership = Reviewed(t)' => Authorized(t)'
               /\ threads'[t].at = "reload"
    <3>1. members'[t].membership = Reviewed(t)' => <<surface.sends, t, b.terminal>> \in proven'
      BY <1>1, LookingProves DEF Reviewed
    <3> QED
      BY <1>1, <2>1, <3>1 DEF Moved, Authorized
  <2>2. ASSUME NEW b \in Resolved(t), NEW first \in threads[t].binding,
               SameOccupant(b, first), Moved(t, "resnapshot", "send", {b})
        PROVE  Authorized(t)' /\ threads'[t].at = "send"
    <3>1. Authorized(t)
      BY <1>1, <2>2 DEF Moved, AuthInv, Rechecked, At
    <3>2. <<surface.sends, t, b.terminal>> \in proven
      BY <2>2, <3>1 DEF SameOccupant, Authorized
    <3> QED
      BY <1>1, <2>2, <3>2 DEF Moved, Authorized
  <2>3. CASE Concluded(t, "rejected")
    BY <2>3 DEF Concluded, At
  <2> QED
    BY <1>3, <2>1, <2>2, <2>3, SnapshotSteps DEF At
<1>4. CASE Ask(t)
  <2>1. Moved(t, "send", "sent", threads[t].binding)
    BY <1>4, AskSteps
  <2>2. Authorized(t)
    BY <1>1, <2>1 DEF Moved, AuthInv, Rechecked, At
  <2> QED
    BY <1>1, <2>1, <2>2 DEF Moved, Authorized, At
<1>5. CASE Unanswered(t) \/ Answered(t)
  <2>1. threads'[t].at = "done"
    BY <1>5, ConcludingSteps DEF Concluded
  <2> QED
    BY <2>1 DEF At
<1> QED
  BY <1>2, <1>3, <1>4, <1>5 DEF ThreadStep

\* While no thread moves and no send begins, what was proven is.
LEMMA AuthorizedStays ==
  ASSUME AuthInv, [Next]_vars, UNCHANGED threads, surface'.sends = surface.sends,
         NEW t \in Targets, Authorized(t)
  PROVE  Authorized(t)'
BY ProvenGrows DEF Authorized

\* A membership that is in force after a step of the surroundings, and was
\* reviewed before it, was in force.
LEMMA OldMembershipStays ==
  ASSUME TypeInv, AuthInv, Surroundings, NEW t \in Targets
  PROVE  /\ members'[t].membership <= changes' + 1
         /\ members'[t].membership = Reviewed(t) /\ Reviewed(t) # 0
              => members[t].membership = Reviewed(t)
<1>1. changes' = changes + 1 /\ changes \in Nat /\ Reviewed(t) \in Nat /\ members[t].membership \in Nat
  BY DEF Surroundings, Change, TypeInv, Surface, Member, Reviewed
<1>2. \/ members'[t].membership = members[t].membership
      \/ members'[t].membership = 0
      \/ members'[t].membership = changes + 2
  <2>1. ASSUME NEW u \in Targets, MemberChanges(u)
        PROVE  \/ members'[t].membership = members[t].membership
               \/ members'[t].membership = 0
               \/ members'[t].membership = changes + 2
    <3> DEFINE m == members[u]
    <3>1. m \in Member /\ members \in [Targets -> Member] /\ changes + 2 \in Nat
      BY <1>1 DEF TypeInv
    <3>2. /\ [m EXCEPT !.membership = 0].membership = 0
          /\ [m EXCEPT !.membership = changes + 2].membership = changes + 2
          /\ \A x \in BOOLEAN : /\ [m EXCEPT !.prompt = x].membership = m.membership
                                /\ [m EXCEPT !.running = x].membership = m.membership
      BY <3>1 DEF Member
    <3>3. (~m.prompt) \in BOOLEAN /\ (~m.running) \in BOOLEAN
      OBVIOUS
    <3>4. ASSUME NEW to, ChangeMember(u, to)
          PROVE  members'[t] = IF t = u THEN to ELSE members[t]
      BY <3>1, <3>4 DEF ChangeMember
    <3>5. PICK to : /\ ChangeMember(u, to)
                    /\ to.membership \in {m.membership, 0, changes + 2}
      BY <2>1, <3>2, <3>3, Zenon DEF MemberChanges
    <3> QED
      BY <3>4, <3>5
  <2>2. ASSUME NEW u \in Targets, NEW p \in Panes, Materialize(u, p)
        PROVE  members' = members
    BY <2>2 DEF Materialize, ChangePanes
  <2>3. ASSUME NEW p \in Panes, PaneChanges(p)
        PROVE  members' = members
    BY <2>3 DEF PaneChanges, ChangePanes
  <2> QED
    BY <2>1, <2>2, <2>3 DEF Surroundings
<1> QED
  BY <1>1, <1>2 DEF AuthInv, NewIds

LEMMA AuthSteps ==
  ASSUME TypeInv, AuthInv, [Next]_vars
  PROVE  AuthInv'
<1> USE DEF AuthInv
<1>0. TypeInv' /\ proven \subseteq proven'
  BY StepTypes, ProvenGrows
<1>1. ASSUME UNCHANGED <<members, changes, threads>>, surface'.phase # "delivering",
             \A t \in Targets : surface'.reviewed[t] <= changes + 1
      PROVE  AuthInv'
  BY <1>1 DEF NewIds, ThreadsAreChosen, Looked, Rechecked, At, Reviewed
<1>2. CASE \E S \in SUBSET Targets : Compose(S)
  <2>1. PICK S \in SUBSET Targets : Compose(S)
    BY <1>2
  <2> DEFINE reviewed == [t \in Targets |-> IF t \in S THEN members[t].membership ELSE 0]
  <2>2. \A t \in Targets : reviewed[t] <= changes + 1
    BY DEF NewIds, TypeInv
  <2>3. surface'.phase = "reviewing" /\ surface'.reviewed = reviewed
    <3> HIDE DEF reviewed
    <3>1. surface' = [surface EXCEPT !.phase = "reviewing", !.reviewed = reviewed]
      BY <2>1 DEF Compose, reviewed
    <3> QED
      BY <3>1 DEF TypeInv, Surface
  <2> HIDE DEF reviewed
  <2> QED
    BY <1>1, <2>1, <2>2, <2>3 DEF Compose
<1>3. CASE Cancel
  <2>1. surface'.phase = "idle" /\ surface'.reviewed = surface.reviewed
    BY <1>3 DEF Cancel, TypeInv, Surface
  <2> QED
    BY <1>1, <1>3, <2>1 DEF Cancel, NewIds, Reviewed
<1>4. ASSUME UNCHANGED <<members, changes>>, surface'.reviewed = surface.reviewed,
             \A t \in Targets : /\ threads'[t].at \in {"idle", "load"}
                                /\ threads'[t].at # "idle" => Reviewed(t) # 0
      PROVE  AuthInv'
  <2>1. NewIds' /\ ThreadsAreChosen'
    BY <1>4 DEF NewIds, ThreadsAreChosen, Reviewed
  <2>2. \A t \in Targets : threads'[t].at \notin {"reload", "resnapshot", "send", "sent"}
    BY <1>4
  <2>3. Looked' /\ Rechecked'
    BY <2>2 DEF Looked, Rechecked, At
  <2> QED
    BY <2>1, <2>3
<1>5. CASE Send
  <2>1. surface'.reviewed = surface.reviewed
    BY <1>5 DEF Send, TypeInv, Surface
  <2> QED
    BY <1>4, <1>5, <2>1 DEF Send, Chosen, Resting
<1>6. ASSUME threads' = [t \in Targets |-> Resting]
      PROVE  \A t \in Targets : threads'[t].at = "idle"
  BY <1>6 DEF Resting
<1>7. CASE Report
  <2>1. surface'.reviewed = surface.reviewed
    BY <1>7 DEF Report, TypeInv, Surface
  <2> QED
    BY <1>4, <1>6, <1>7, <2>1 DEF Report
<1>8. ASSUME UNCHANGED <<members, changes, threads>>, surface'.phase = surface.phase,
             surface'.reviewed = surface.reviewed, surface'.sends = surface.sends
      PROVE  AuthInv'
  BY <1>0, <1>8, AuthorizedStays DEF NewIds, ThreadsAreChosen, Looked, Rechecked, At, Reviewed
<1>9. CASE Quit
  <2>1. surface'.reviewed = surface.reviewed /\ surface'.sends = surface.sends
    BY <1>9 DEF Quit, TypeInv, Surface
  <2>2. CASE ~surface.armed
    <3>1. surface'.phase = surface.phase
      BY <1>9, <2>2 DEF Quit, TypeInv, Surface
    <3> QED
      BY <1>8, <1>9, <2>1, <2>2, <3>1 DEF Quit
  <2>3. CASE surface.armed
    BY <1>4, <1>6, <1>9, <2>1, <2>3 DEF Quit
  <2> QED
    BY <2>2, <2>3
<1>10. CASE Disarm
  <2>1. /\ surface'.reviewed = surface.reviewed /\ surface'.sends = surface.sends
        /\ surface'.phase = surface.phase
    BY <1>10 DEF Disarm, TypeInv, Surface
  <2> QED
    BY <1>8, <1>10, <2>1 DEF Disarm
<1>11. ASSUME Next, NEW t \in Targets, ThreadStep(t)
       PROVE  AuthInv'
  <2>1. /\ UNCHANGED <<members, panes, surface, changes>> /\ surface.phase = "delivering"
        /\ threads[t].at # "idle" /\ \A u \in Targets \ {t} : threads'[u] = threads[u]
    BY <1>11, ThreadStepTypes DEF Others
  <2>2. NewIds' /\ ThreadsAreChosen'
    BY <2>1 DEF NewIds, ThreadsAreChosen, Reviewed
  <2>3. ASSUME NEW u \in Targets \ {t}
        PROVE  /\ At(u, "reload")' /\ members'[u].membership = Reviewed(u)' => Authorized(u)'
               /\ At(u, "resnapshot")' \/ At(u, "send")' \/ At(u, "sent")' => Authorized(u)'
    BY <1>0, <2>1 DEF Looked, Rechecked, At, Reviewed, Authorized
  <2>4. ASSUME NEW u \in Targets
        PROVE  /\ At(u, "reload")' /\ members'[u].membership = Reviewed(u)' => Authorized(u)'
               /\ At(u, "resnapshot")' \/ At(u, "send")' \/ At(u, "sent")' => Authorized(u)'
    BY <1>11, <2>3, ThreadStepAuthorizes
  <2> QED
    BY <2>2, <2>4 DEF Looked, Rechecked
<1>12. ASSUME NEW r \in requests, Handle(r)
       PROVE  AuthInv'
  BY <1>8, <1>12 DEF Handle
<1>13. CASE Surroundings
  <2>1. UNCHANGED <<surface, threads>> /\ changes' = changes + 1 /\ changes \in Nat
        /\ \A t \in Targets : Reviewed(t) \in Nat
    BY <1>13 DEF Surroundings, Change, TypeInv, Surface, Reviewed
  <2>2. NewIds'
    BY <1>13, <2>1, OldMembershipStays DEF NewIds, Reviewed
  <2>3. ThreadsAreChosen' /\ Rechecked'
    BY <1>0, <2>1, AuthorizedStays DEF ThreadsAreChosen, Rechecked, At, Reviewed
  <2>4. Looked'
    BY <1>13, <2>1, OldMembershipStays, AuthorizedStays
       DEF Looked, ThreadsAreChosen, At, Reviewed
  <2> QED
    BY <2>2, <2>3, <2>4
<1>14. CASE UNCHANGED vars
  BY <1>8, <1>14 DEF vars
<1> QED
  BY <1>2, <1>3, <1>5, <1>7, <1>9, <1>10, <1>11, <1>12, <1>13, <1>14 DEF Next

LEMMA AuthInvariant == Spec => [](TypeInv /\ AuthInv)
<1>1. Init => AuthInv
  BY DEF Init, AuthInv, NewIds, ThreadsAreChosen, Looked, Rechecked, At, Reviewed, Member
<1> QED
  BY <1>1, InitTypes, StepTypes, AuthSteps, PTL DEF Spec

\* deliver_one and authorize_binding, for any workers, panes and steps of the
\* surroundings: what is about to be sent, or was, goes to an occupant that at
\* one instant since SEND was exact, settled, and of the reviewed membership
\* while that was in force.
THEOREM PromptsAreAuthorized == Spec => []SendsWereAuthorized
<1>1. TypeInv /\ AuthInv => SendsWereAuthorized
  BY DEF AuthInv, Rechecked, Authorized, SendsWereAuthorized
<1> QED
  BY <1>1, AuthInvariant, PTL

-----------------------------------------------------------------------------
(* What is told is true *)

For(r, send, t) == r.send = send /\ r.worker = t

\* A send asks Herdr at most once for a worker.
OneRequest ==
  \A r \in requests : \A q \in requests : For(q, r.send, r.worker) => q = r

\* Requests are of sends that began, and of the threads that asked.
Asked ==
  \A r \in requests :
    /\ r.send \in 1..surface.sends
    /\ r.send = surface.sends /\ surface.phase = "delivering"
         => threads[r.worker].at \in {"sent", "done"}

\* What was written was asked for; a request that says so was written.
Written ==
  /\ \A w \in written : \E r \in requests :
       For(r, w[1], w[2]) /\ r.state \in {"written", "failed"}
  /\ \A r \in requests :
       r.state = "written" => <<r.send, r.worker, r.terminal>> \in written

\* What an outcome claims of a send to a worker.
Holds(send, t, outcome) ==
  /\ outcome = "rejected" => \A r \in requests : For(r, send, t) => r.state = "refused"
  /\ outcome = "stalled" => \E n \in Nat : <<send, t, n>> \in written
  /\ outcome = "delivered" => \E n \in Nat : <<send, t, n>> \in written \cap proven

PendingHolds ==
  surface.phase = "delivering" =>
    \A t \in Targets : \A o \in threads[t].outcome : Holds(surface.sends, t, o)

\* What was told holds, and no more is asked for on its behalf.
ToldHolds ==
  \A send \in 1..MaxSends, t \in Targets, o \in Outcomes :
    <<send, t, o>> \in told =>
      /\ Holds(send, t, o) /\ send <= surface.sends
      /\ surface.phase = "delivering" => send < surface.sends

OutcomeInv == OneRequest /\ Asked /\ Written /\ PendingHolds /\ ToldHolds

\* A step that adds no request to a send keeps what holds of it.
LEMMA HoldsStays ==
  ASSUME NEW send, NEW t, NEW o, Holds(send, t, o), proven \subseteq proven',
         written \subseteq written',
         \A r \in requests' : For(r, send, t) => r \in requests
  PROVE  Holds(send, t, o)'
BY DEF Holds

\* The Observer's own steps leave the requests and the terminals alone.
LEMMA SurfaceOutcomes ==
  ASSUME TypeInv, OutcomeInv, [Next]_vars,
         \/ \E S \in SUBSET Targets : Compose(S)
         \/ Cancel \/ Send \/ Report \/ Quit \/ Disarm
  PROVE  OutcomeInv'
<1> USE DEF OutcomeInv
<1>0. UNCHANGED <<requests, written>> /\ proven \subseteq proven' /\ surface \in Surface
  BY ProvenGrows DEF Compose, Cancel, Send, Report, Quit, Disarm, TypeInv
<1>1. \A send, t, o : Holds(send, t, o) => Holds(send, t, o)'
  BY <1>0, HoldsStays
<1>2. OneRequest' /\ Written'
  BY <1>0 DEF OneRequest, Written
<1>3. ASSUME surface'.sends = surface.sends, surface'.phase # "delivering",
             \A send \in 1..MaxSends, t \in Targets, o \in Outcomes :
               <<send, t, o>> \in told' =>
                 <<send, t, o>> \in told \/ (Holds(send, t, o) /\ send = surface.sends)
      PROVE  OutcomeInv'
  <2>1. Asked'
    BY <1>0, <1>3 DEF Asked
  <2>2. ToldHolds'
    BY <1>1, <1>3 DEF ToldHolds, TypeInv, Surface
  <2> QED
    BY <1>2, <1>3, <2>1, <2>2 DEF PendingHolds
<1>4. CASE \E S \in SUBSET Targets : Compose(S)
  <2>1. surface'.sends = surface.sends /\ surface'.phase = "reviewing" /\ told' = told
    BY <1>0, <1>4 DEF Compose, Surface
  <2> QED
    BY <1>3, <2>1
<1>5. CASE Cancel
  <2>1. surface'.sends = surface.sends /\ surface'.phase = "idle" /\ told' = told
    BY <1>0, <1>5 DEF Cancel, Surface
  <2> QED
    BY <1>3, <2>1
<1>6. CASE Send
  <2>1. surface'.sends = surface.sends + 1 /\ told' = told /\ surface.sends \in Nat
    BY <1>0, <1>6, LimitAssumption DEF Send, Surface
  <2>2. \A t \in Targets : threads'[t].outcome = {}
    BY <1>6 DEF Send, Resting
  <2>3. Asked'
    BY <1>0, <2>1 DEF Asked
  <2>4. ToldHolds'
    BY <1>1, <2>1 DEF ToldHolds
  <2> QED
    BY <1>2, <2>2, <2>3, <2>4 DEF PendingHolds
<1>7. CASE Report
  <2>1. surface'.sends = surface.sends /\ surface'.phase = "idle" /\ surface.phase = "delivering"
    BY <1>0, <1>7 DEF Report, Surface
  <2>2. ASSUME NEW send \in 1..MaxSends, NEW t \in Targets, NEW o \in Outcomes,
               <<send, t, o>> \in told', <<send, t, o>> \notin told
        PROVE  Holds(send, t, o) /\ send = surface.sends
    <3>1. send = surface.sends /\ o \in threads[t].outcome
      BY <1>7, <2>2 DEF Report
    <3> QED
      BY <2>1, <3>1 DEF PendingHolds
  <2> QED
    BY <1>3, <2>1, <2>2
<1>8. CASE Quit
  <2>1. surface'.sends = surface.sends
    BY <1>0, <1>8 DEF Quit, Surface
  <2>2. CASE ~surface.armed
    <3>1. UNCHANGED <<told, threads>> /\ surface'.phase = surface.phase
      BY <1>0, <1>8, <2>2 DEF Quit, Surface
    <3> QED
      BY <1>0, <1>1, <1>2, <2>1, <3>1 DEF Asked, PendingHolds, ToldHolds
  <2>3. CASE surface.armed
    <3>1. surface'.phase = "idle"
      BY <1>0, <1>8, <2>3 DEF Quit, Surface
    <3>2. ASSUME NEW send \in 1..MaxSends, NEW t \in Targets, NEW o \in Outcomes,
                 <<send, t, o>> \in told', <<send, t, o>> \notin told
          PROVE  Holds(send, t, o) /\ send = surface.sends
      <4>1. send = surface.sends /\ o = "uncertain"
        BY <1>8, <2>3, <3>2 DEF Quit
      <4> QED
        BY <4>1 DEF Holds
    <3> QED
      BY <1>3, <2>1, <3>1, <3>2
  <2> QED
    BY <2>2, <2>3
<1>9. CASE Disarm
  <2>1. /\ surface'.sends = surface.sends /\ surface'.phase = surface.phase
        /\ UNCHANGED <<told, threads>>
    BY <1>0, <1>9 DEF Disarm, Surface
  <2> QED
    BY <1>0, <1>1, <1>2, <2>1 DEF Asked, PendingHolds, ToldHolds
<1> QED
  BY <1>4, <1>5, <1>6, <1>7, <1>8, <1>9

\* The threads ask Herdr, and conclude from what it answers.
LEMMA ThreadOutcomes ==
  ASSUME TypeInv, AuthInv, OutcomeInv, Next, NEW t \in Targets, ThreadStep(t)
  PROVE  OutcomeInv'
<1> USE DEF OutcomeInv
<1>0. /\ proven \subseteq proven' /\ surface.phase = "delivering" /\ TypeInv'
      /\ UNCHANGED <<members, panes, surface, changes, written, told>> /\ Others(t)
  BY ProvenGrows, ThreadStepTypes
<1>1. ASSUME requests' = requests, threads[t].at \in {"sent", "done"} => threads'[t].at \in {"sent", "done"},
             \A o \in threads'[t].outcome : Holds(surface.sends, t, o)
      PROVE  OutcomeInv'
  <2>1. \A send, u, o : Holds(send, u, o) => Holds(send, u, o)'
    BY <1>0, <1>1, HoldsStays
  <2>2. OneRequest' /\ Written'
    BY <1>0, <1>1 DEF OneRequest, Written
  <2>3. Asked'
    BY <1>0, <1>1 DEF Asked, Others, TypeInv, Request
  <2>4. PendingHolds'
    BY <1>0, <1>1, <2>1 DEF PendingHolds, Others
  <2>5. ToldHolds'
    BY <1>0, <2>1 DEF ToldHolds
  <2> QED
    BY <2>2, <2>3, <2>4, <2>5
<1>2. CASE Load(t) \/ Snapshot(t)
  <2>1. requests' = requests /\ threads[t].at \in {"load", "snapshot", "reload", "resnapshot"}
    BY <1>2 DEF Load, Snapshot, At
  <2>2. threads'[t].outcome \subseteq {"rejected"}
    BY <1>2, LoadSteps, SnapshotSteps DEF Moved, Concluded
  <2>3. Holds(surface.sends, t, "rejected")
    BY <1>0, <2>1 DEF Holds, For, Asked
  <2> QED
    BY <1>1, <2>1, <2>2, <2>3
<1>3. CASE Ask(t)
  <2>1. Moved(t, "send", "sent", threads[t].binding)
    BY <1>3, AskSteps
  <2>2. PICK r \in Request :
          /\ r.send = surface.sends /\ r.worker = t /\ r.state = "asked"
          /\ requests' = requests \cup {r}
    BY <1>3, AskSteps
  <2>3. \A q \in requests : ~For(q, surface.sends, t)
    BY <1>0, <2>1 DEF Asked, For, Moved
  <2>4. \A send, u, o : Holds(send, u, o) /\ (send # surface.sends \/ u # t) => Holds(send, u, o)'
    BY <1>0, <2>2, HoldsStays DEF For
  <2>5. OneRequest'
    BY <2>2, <2>3 DEF OneRequest, For
  <2>6. Asked'
    <3>1. surface.sends \in Nat /\ surface.sends > 0
      BY <1>0 DEF TypeInv, Surface
    <3>2. threads'[t].at = "sent" /\ \A u \in Targets : u # t => threads'[u].at = threads[u].at
      BY <2>1 DEF Moved, Others
    <3>3. ASSUME NEW q \in requests
          PROVE  /\ q.send \in 1..surface.sends
                 /\ q.send = surface.sends => threads'[q.worker].at \in {"sent", "done"}
      <4>1. q.worker \in Targets
        BY DEF TypeInv, Request
      <4> QED
        BY <1>0, <3>2, <4>1 DEF Asked
    <3>4. r.send \in 1..surface.sends
      BY <2>2, <3>1
    <3> QED
      BY <1>0, <2>2, <3>2, <3>3, <3>4 DEF Asked
  <2>7. Written'
    BY <1>0, <2>2 DEF Written
  <2>8. PendingHolds'
    BY <1>0, <2>1, <2>4 DEF PendingHolds, Moved, Others
  <2>9. ToldHolds'
    BY <1>0, <2>4 DEF ToldHolds, TypeInv, Surface
  <2> QED
    BY <2>5, <2>6, <2>7, <2>8, <2>9
<1>4. CASE Unanswered(t) \/ Answered(t)
  <2>1. requests' = requests /\ threads'[t].at = "done"
    BY <1>4, ConcludingSteps DEF Concluded
  <2>2. CASE Concluded(t, "uncertain")
    BY <1>1, <2>1, <2>2 DEF Concluded, Holds
  <2>3. ASSUME NEW r \in requests, At(t, "sent"), For(r, surface.sends, t)
        PROVE  /\ r.state = "refused" => Holds(surface.sends, t, "rejected")
               /\ r.state = "written" => Holds(surface.sends, t, "stalled")
               /\ r.state = "written" /\ (\E b \in threads[t].binding : r.terminal = b.terminal)
                    => Holds(surface.sends, t, "delivered")
    <3>1. r.terminal \in Nat
      BY DEF TypeInv, Request
    <3>2. r.state = "written" => <<surface.sends, t, r.terminal>> \in written
      BY <2>3 DEF Written, For
    <3>3. (\E b \in threads[t].binding : r.terminal = b.terminal)
             => <<surface.sends, t, r.terminal>> \in proven
      BY <2>3 DEF AuthInv, Rechecked, Authorized
    <3>4. r.state = "refused" => Holds(surface.sends, t, "rejected")
      BY <2>3 DEF Holds, OneRequest, For
    <3>5. r.state = "written" => Holds(surface.sends, t, "stalled")
      BY <3>1, <3>2 DEF Holds
    <3>6. r.state = "written" /\ (\E b \in threads[t].binding : r.terminal = b.terminal)
            => Holds(surface.sends, t, "delivered")
      BY <3>1, <3>2, <3>3 DEF Holds
    <3> QED
      BY <3>4, <3>5, <3>6
  <2> QED
    BY <1>1, <1>4, <2>1, <2>2, <2>3, ConcludingSteps DEF Concluded, For
<1> QED
  BY <1>2, <1>3, <1>4 DEF ThreadStep

\* Herdr acts once on what it was asked: it refuses it for good, or it does not.
LEMMA HandleOutcomes ==
  ASSUME TypeInv, OutcomeInv, [Next]_vars, NEW r \in requests, Handle(r)
  PROVE  OutcomeInv'
<1> USE DEF OutcomeInv
<1>0. /\ proven \subseteq proven' /\ UNCHANGED <<surface, threads, told>> /\ r.state = "asked"
      /\ r \in Request
  BY ProvenGrows DEF Handle, TypeInv
<1>1. PICK new \in Request :
        /\ requests' = (requests \ {r}) \cup {new}
        /\ new.send = r.send /\ new.worker = r.worker
        /\ \/ new.state \in {"refused", "failed"} /\ written' = written
           \/ /\ new.state \in {"written", "failed"}
              /\ written' = written \cup {<<r.send, r.worker, new.terminal>>}
  <2>1. CASE /\ requests' = (requests \ {r}) \cup {[r EXCEPT !.state = "refused"]}
             /\ UNCHANGED written
    <3>1. LET new == [r EXCEPT !.state = "refused"]
          IN  /\ new \in Request /\ new.send = r.send /\ new.worker = r.worker
              /\ new.state = "refused"
      BY <1>0 DEF Request
    <3> QED
      BY <2>1, <3>1
  <2>2. CASE /\ requests' = (requests \ {r}) \cup {[r EXCEPT !.state = "failed"]}
             /\ UNCHANGED written
    <3>1. LET new == [r EXCEPT !.state = "failed"]
          IN  /\ new \in Request /\ new.send = r.send /\ new.worker = r.worker
              /\ new.state = "failed"
      BY <1>0 DEF Request
    <3> QED
      BY <2>2, <3>1
  <2>3. ASSUME NEW p \in Meant(r), NEW o \in panes[p], NEW state \in {"written", "failed"},
               requests' = (requests \ {r}) \cup {[r EXCEPT !.state = state, !.terminal = o.terminal]},
               written' = written \cup {<<r.send, r.worker, o.terminal>>}
        PROVE  \E new \in Request :
                 /\ requests' = (requests \ {r}) \cup {new}
                 /\ new.send = r.send /\ new.worker = r.worker
                 /\ new.state \in {"written", "failed"}
                 /\ written' = written \cup {<<r.send, r.worker, new.terminal>>}
    <3> DEFINE u == [r EXCEPT !.state = state]
               new == [u EXCEPT !.terminal = o.terminal]
    <3>1. /\ u \in Request /\ u.send = r.send /\ u.worker = r.worker /\ u.state = state
          /\ o.terminal \in Nat
      BY <1>0, OneOccupant DEF Request, Meant, Occupant
    <3> HIDE DEF u
    <3>2. /\ new \in Request /\ new.send = r.send /\ new.worker = r.worker /\ new.state = state
          /\ new.terminal = o.terminal
      BY <3>1 DEF Request
    <3>3. requests' = (requests \ {r}) \cup {new}
      BY <2>3, Zenon DEF u
    <3> HIDE DEF new
    <3> QED
      BY <2>3, <3>2, <3>3
  <2> QED
    BY <2>1, <2>2, <2>3, Zenon DEF Handle
<1>2. ASSUME NEW send, NEW t, NEW o, Holds(send, t, o)
      PROVE  Holds(send, t, o)'
  <2>1. CASE o = "rejected"
    BY <1>0, <1>1, <1>2, <2>1 DEF Holds, For
  <2>2. CASE o # "rejected"
    BY <1>0, <1>1, <1>2, <2>2 DEF Holds
  <2> QED
    BY <2>1, <2>2
<1>3. OneRequest'
  BY <1>1 DEF OneRequest, For
<1>4. Asked'
  BY <1>0, <1>1 DEF Asked
<1>5. Written'
  <2>1. ASSUME NEW w \in written
        PROVE  \E q \in requests' : For(q, w[1], w[2]) /\ q.state \in {"written", "failed"}
    BY <1>0, <1>1 DEF Written
  <2>2. \A q \in requests \ {r} : q.state = "written" => <<q.send, q.worker, q.terminal>> \in written'
    BY <1>1 DEF Written
  <2>3. CASE new.state \in {"refused", "failed"} /\ written' = written
    BY <1>1, <2>1, <2>2, <2>3 DEF Written
  <2>4. CASE /\ new.state \in {"written", "failed"}
             /\ written' = written \cup {<<r.send, r.worker, new.terminal>>}
    <3>1. For(new, r.send, r.worker)
      BY <1>1 DEF For
    <3> QED
      BY <1>1, <2>1, <2>2, <2>4, <3>1 DEF Written
  <2> QED
    BY <1>1, <2>3, <2>4
<1>6. PendingHolds'
  BY <1>0, <1>2 DEF PendingHolds
<1>7. ToldHolds'
  BY <1>0, <1>2 DEF ToldHolds
<1> QED
  BY <1>3, <1>4, <1>5, <1>6, <1>7

LEMMA OutcomeSteps ==
  ASSUME TypeInv, AuthInv, OutcomeInv, [Next]_vars
  PROVE  OutcomeInv'
<1>1. ASSUME UNCHANGED <<requests, written, told, threads, surface>>
      PROVE  OutcomeInv'
  <2>1. \A send, t, o : Holds(send, t, o) => Holds(send, t, o)'
    BY <1>1, ProvenGrows, HoldsStays
  <2> QED
    BY <1>1, <2>1 DEF OutcomeInv, OneRequest, Asked, Written, PendingHolds, ToldHolds
<1> QED
  BY <1>1, SurfaceOutcomes, ThreadOutcomes, HandleOutcomes DEF Next, vars, Surroundings

LEMMA OutcomeInvariant == Spec => [](TypeInv /\ OutcomeInv)
<1>1. Init => OutcomeInv
  BY DEF Init, OutcomeInv, OneRequest, Asked, Written, PendingHolds, ToldHolds
<1> QED
  BY <1>1, AuthInvariant, OutcomeSteps, PTL DEF Spec

\* TargetDelivery, for any workers, panes and steps of the surroundings: an
\* outcome that was shown is true of what reached an agent, and stays true
\* however late Herdr handles what it was asked.
THEOREM OutcomesStayTrue == Spec => []OutcomesAreTrue
<1>1. TypeInv /\ OutcomeInv => OutcomesAreTrue
  <2> SUFFICES ASSUME TypeInv, OutcomeInv, NEW send \in 1..surface.sends, NEW t \in Targets
               PROVE  LET reached == {w \in written : w[1] = send /\ w[2] = t}
                      IN  /\ <<send, t, "rejected">> \in told => reached = {}
                          /\ <<send, t, "stalled">> \in told => reached # {}
                          /\ <<send, t, "delivered">> \in told => reached \cap proven # {}
    BY DEF OutcomesAreTrue
  <2>1. send \in 1..MaxSends
    BY LimitAssumption DEF TypeInv, Surface
  <2>2. \A o \in Outcomes : <<send, t, o>> \in told => Holds(send, t, o)
    BY <2>1 DEF OutcomeInv, ToldHolds
  <2>3. <<send, t, "rejected">> \in told => \A w \in written : ~(w[1] = send /\ w[2] = t)
    BY <2>2 DEF Outcomes, Holds, OutcomeInv, Written, For
  <2>4. <<send, t, "stalled">> \in told => \E w \in written : w[1] = send /\ w[2] = t
    BY <2>2 DEF Outcomes, Holds
  <2>5. <<send, t, "delivered">> \in told
          => \E w \in written : w[1] = send /\ w[2] = t /\ w \in proven
    BY <2>2 DEF Outcomes, Holds
  <2> QED
    BY <2>3, <2>4, <2>5
<1> QED
  BY <1>1, OutcomeInvariant, PTL

==============================================================================
