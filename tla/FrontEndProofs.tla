--------------------------- MODULE FrontEndProofs ---------------------------
(***************************************************************************)
(* Proofs about the loop of `herdr-tether open` and what it uses: the      *)
(* preference of the Agents view, the panes, and the manager's screens.    *)
(***************************************************************************)
EXTENDS FrontEnd, SequenceTheorems, TLAPS

-----------------------------------------------------------------------------
(* The Agents view *)

Shaped(c) ==
  c = [op |-> c.op, step |-> c.step, known |-> c.known, want |-> c.want,
       found |-> c.found, result |-> c.result]

CallsOK == call = [p \in Procs |-> call[p]] /\ \A p \in Procs : Shaped(call[p])

Locks(c) == c.step \in {"saving", "dropping", "asking", "undoing"}

\* The lock is held by the one call that is between its load and its end.
LockIsExclusive ==
  holder \in Procs \cup {None} /\ \A p \in Procs : Locks(call[p]) <=> holder = p

\* What a call under the lock knows of the file, and what the file has in common
\* with Herdr, or had before the call saved.
Follows(c) ==
  /\ c.step \in {"saving", "undoing"} => c.op # "restore"
  /\ c.step = "asking" => preference = c.want /\ (c.op = "restore" => c.found = c.want)
  /\ c.step \in {"saving", "dropping"} => Agrees(preference)
  /\ Locks(c) => Agrees(c.found)

ViewInv ==
  /\ CallsOK /\ LockIsExclusive
  /\ unanswered # {} => apart = "unknown"
  /\ \A p \in Procs : Follows(call[p])
  /\ PreferenceIsInForce

LEMMA RestingIsShaped == Shaped(Resting) /\ ~Locks(Resting) /\ Resting.step = "out"
BY DEF Shaped, Resting, Locks

LEMMA CallBecomes ==
  ASSUME CallsOK, NEW p \in Procs, NEW c, Shaped(c), call' = [call EXCEPT ![p] = c]
  PROVE  CallsOK' /\ call'[p] = c /\ \A q \in Procs \ {p} : call'[q] = call[q]
BY DEF CallsOK, Shaped

\* A call that has not got the lock, or leaves it alone.
LEMMA Outside ==
  ASSUME ViewInv, NEW p \in Procs, NEW c, Shaped(c), call' = [call EXCEPT ![p] = c],
         ~Locks(call[p]), ~Locks(c),
         UNCHANGED <<preference, inForce, holder, unanswered, apart>>
  PROVE  ViewInv'
<1>1. CallsOK' /\ call'[p] = c /\ \A q \in Procs \ {p} : call'[q] = call[q]
  BY CallBecomes DEF ViewInv
<1>2. LockIsExclusive'
  BY <1>1 DEF ViewInv, LockIsExclusive
<1>3. \A q \in Procs : Follows(call[q])'
  BY <1>1 DEF ViewInv, Follows, Locks, Agrees
<1> QED
  BY <1>1, <1>2, <1>3 DEF ViewInv, PreferenceIsInForce, Agrees

\* The call that gets the lock, or goes on under it.
LEMMA Inside ==
  ASSUME ViewInv, NEW p \in Procs, NEW c, Shaped(c), call' = [call EXCEPT ![p] = c],
         holder \in {None, p}, Locks(c), holder' = p,
         unanswered' # {} => apart' = "unknown", Follows(call[p])'
  PROVE  ViewInv'
<1>1. CallsOK' /\ call'[p] = c /\ \A q \in Procs \ {p} : call'[q] = call[q]
  BY CallBecomes DEF ViewInv
<1>2. \A q \in Procs \ {p} : ~Locks(call[q]) /\ holder' # q
  BY FrontEndAssumption DEF ViewInv, LockIsExclusive
<1>3. LockIsExclusive'
  BY <1>1, <1>2 DEF LockIsExclusive
<1>4. \A q \in Procs : Follows(call[q])'
  BY <1>1, <1>2 DEF Follows, Locks
<1>5. PreferenceIsInForce'
  BY FrontEndAssumption DEF PreferenceIsInForce
<1> QED
  BY <1>1, <1>3, <1>4, <1>5 DEF ViewInv

\* The call that gives the lock back.
LEMMA Leaving ==
  ASSUME ViewInv, NEW p \in Procs, NEW c, Shaped(c), call' = [call EXCEPT ![p] = c],
         holder \in {None, p}, ~Locks(c), holder' = None,
         unanswered' # {} => apart' = "unknown", Agrees(preference)'
  PROVE  ViewInv'
<1>1. CallsOK' /\ call'[p] = c /\ \A q \in Procs \ {p} : call'[q] = call[q]
  BY CallBecomes DEF ViewInv
<1>2. \A q \in Procs \ {p} : ~Locks(call[q])
  BY FrontEndAssumption DEF ViewInv, LockIsExclusive
<1>3. LockIsExclusive'
  BY <1>1, <1>2, FrontEndAssumption DEF LockIsExclusive
<1>4. \A q \in Procs : Follows(call[q])'
  BY <1>1, <1>2 DEF Follows, Locks
<1> QED
  BY <1>1, <1>3, <1>4 DEF ViewInv, PreferenceIsInForce

LEMMA BeginViewKeeps ==
  ASSUME ViewInv, NEW p \in Procs, NEW op, NEW want, NEW known, BeginView(p, op, want, known)
  PROVE  ViewInv'
<1> DEFINE c == [Resting EXCEPT !.op = op, !.known = known, !.want = want,
                   !.step = IF op = "set" /\ want.group \notin known THEN "out" ELSE "locking",
                   !.result = IF op = "set" /\ want.group \notin known THEN "refused" ELSE "none"]
<1>1. Shaped(c) /\ c.step \in {"out", "locking"}
  <2> DEFINE u == [Resting EXCEPT !.op = op, !.known = known]
  <2>1. u = [Resting EXCEPT !.op = op, !.known = known]
    OBVIOUS
  <2>2. c = [u EXCEPT !.want = want,
               !.step = IF op = "set" /\ want.group \notin known THEN "out" ELSE "locking",
               !.result = IF op = "set" /\ want.group \notin known THEN "refused" ELSE "none"]
    BY Zenon
  <2> HIDE DEF c, u
  <2>3. Shaped(u)
    BY <2>1, RestingIsShaped DEF Shaped
  <2> QED
    BY <2>2, <2>3 DEF Shaped
<1>2. ~Locks(call[p]) /\ call' = [call EXCEPT ![p] = c]
      /\ UNCHANGED <<preference, inForce, holder, unanswered, apart>>
  BY DEF BeginView, Locks
<1> HIDE DEF c
<1> QED
  BY <1>1, <1>2, Outside DEF Locks

\* What a call that returns leaves behind.
LEMMA ReturnedIsOut ==
  ASSUME NEW p \in Procs, NEW result, Returned(p, result)
  PROVE  \E c : Shaped(c) /\ ~Locks(c) /\ call' = [call EXCEPT ![p] = c] /\ holder' = None
<1> DEFINE c == [Resting EXCEPT !.op = call[p].op, !.result = result]
<1>1. c = [Resting EXCEPT !.op = call[p].op, !.result = result]
  OBVIOUS
<1>2. call' = [call EXCEPT ![p] = c] /\ holder' = None
  BY DEF Returned
<1> HIDE DEF c
<1>3. Shaped(c) /\ c.step = "out"
  BY <1>1, RestingIsShaped DEF Shaped
<1> QED
  BY <1>2, <1>3 DEF Locks

LEMMA ReturnsInView ==
  ASSUME ViewInv, NEW p \in Procs, NEW result, Returned(p, result), holder \in {None, p},
         unanswered' # {} => apart' = "unknown", Agrees(preference)'
  PROVE  ViewInv'
<1>1. PICK c : Shaped(c) /\ ~Locks(c) /\ call' = [call EXCEPT ![p] = c] /\ holder' = None
  BY ReturnedIsOut
<1> QED
  BY <1>1, Leaving

LEMMA EnterViewKeeps ==
  ASSUME ViewInv, NEW p \in Procs, EnterView(p)
  PROVE  ViewInv'
<1> DEFINE old == call[p]
<1>1. /\ old.step = "locking" /\ holder = None /\ Shaped(old)
      /\ UNCHANGED <<preference, inForce, unanswered, apart>>
      /\ (unanswered # {} => apart = "unknown") /\ Agrees(preference) /\ Agrees(preference)'
  BY DEF EnterView, ViewInv, CallsOK, PreferenceIsInForce, Agrees
<1>2. CASE Returned(p, "refused") \/ Returned(p, "untouched")
  BY <1>1, <1>2, ReturnsInView
<1>3. CASE /\ old.op = "restore" /\ holder' = p
           /\ call' = [call EXCEPT ![p].step =
                         IF preference.group \in call[p].known THEN "asking" ELSE "dropping",
                       ![p].want = preference, ![p].found = preference]
  <2> DEFINE step == IF preference.group \in old.known THEN "asking" ELSE "dropping"
             c == [old EXCEPT !.step = step, !.want = preference, !.found = preference]
  <2>1. step \in {"asking", "dropping"}
    OBVIOUS
  <2>2. call' = [call EXCEPT ![p] = c]
    BY <1>3 DEF ViewInv, CallsOK
  <2> HIDE DEF step
  <2>3. c = [old EXCEPT !.step = step, !.want = preference, !.found = preference]
    OBVIOUS
  <2> HIDE DEF c
  <2>4. /\ Shaped(c) /\ c.step = step /\ c.want = preference /\ c.found = preference
        /\ c.op = "restore"
    BY <1>1, <1>3, <2>3 DEF Shaped
  <2>5. call'[p] = c
    BY <2>2, <2>4, CallBecomes DEF ViewInv
  <2>6. Follows(call[p])'
    BY <1>1, <2>1, <2>4, <2>5 DEF Follows
  <2> QED
    BY <1>1, <1>3, <2>1, <2>2, <2>4, <2>6, Inside DEF Locks
<1>4. CASE /\ holder' = p /\ old.op # "restore"
           /\ call' = [call EXCEPT ![p].step = "saving", ![p].found = preference,
                                   ![p].want = IF call[p].op = "set" THEN @ ELSE None]
  <2> DEFINE want == IF old.op = "set" THEN old.want ELSE None
             c == [old EXCEPT !.step = "saving", !.want = want, !.found = preference]
  <2>1. call' = [call EXCEPT ![p] = c]
    BY <1>4 DEF ViewInv, CallsOK
  <2> HIDE DEF want
  <2>2. c = [old EXCEPT !.step = "saving", !.want = want, !.found = preference]
    OBVIOUS
  <2> HIDE DEF c
  <2>3. Shaped(c) /\ c.step = "saving" /\ c.found = preference /\ c.op # "restore"
    BY <1>1, <1>4, <2>2 DEF Shaped
  <2>4. call'[p] = c
    BY <2>1, <2>3, CallBecomes DEF ViewInv
  <2>5. Follows(call[p])'
    BY <1>1, <2>3, <2>4 DEF Follows
  <2> QED
    BY <1>1, <1>4, <2>1, <2>3, <2>5, Inside DEF Locks
<1> QED
  BY <1>2, <1>3, <1>4 DEF EnterView

\* The lock is held by a call that has entered.
LEMMA HolderIsIn ==
  ASSUME ViewInv, NEW p \in Procs, Locks(call[p])
  PROVE  holder = p /\ Shaped(call[p]) /\ Follows(call[p])
BY DEF ViewInv, LockIsExclusive, CallsOK

\* A call goes on under the lock.
LEMMA WentInside ==
  ASSUME ViewInv, NEW p \in Procs, NEW step, Went(p, step), UNCHANGED holder,
         Locks(call[p]), step \in {"asking", "undoing"},
         unanswered' # {} => apart' = "unknown",
         step = "asking" => preference' = call[p].want, call[p].op # "restore",
         \A found : found = call[p].found => Agrees(found)'
  PROVE  ViewInv'
<1> DEFINE c == [call[p] EXCEPT !.step = step]
<1>1. holder = p /\ Shaped(call[p])
  BY HolderIsIn
<1>2. call' = [call EXCEPT ![p] = c]
  BY DEF Went, ViewInv, CallsOK
<1>3. /\ Shaped(c) /\ c.step = step /\ c.found = call[p].found /\ c.want = call[p].want
      /\ c.op = call[p].op
  BY <1>1 DEF Shaped
<1> HIDE DEF c
<1>4. call'[p] = c
  BY <1>2, <1>3, CallBecomes DEF ViewInv
<1>5. Follows(call[p])'
  BY <1>3, <1>4 DEF Follows
<1>6. Locks(c)
  BY <1>3 DEF Locks
<1> QED
  BY <1>1, <1>2, <1>3, <1>5, <1>6, Inside

LEMMA SaveViewKeeps ==
  ASSUME ViewInv, NEW p \in Procs, SaveView(p)
  PROVE  ViewInv'
<1>1. Locks(call[p]) /\ call[p].step = "saving"
  BY DEF SaveView, Locks
<1>2. /\ holder = p /\ Follows(call[p]) /\ (unanswered # {} => apart = "unknown")
      /\ UNCHANGED <<inForce, unanswered>>
  BY <1>1, HolderIsIn DEF SaveView, ViewInv
<1>3. CASE preference' = call[p].want /\ Went(p, "asking") /\ UNCHANGED <<holder, apart>>
  <2>1. /\ \A found : found = call[p].found => Agrees(found)'
        /\ unanswered' # {} => apart' = "unknown"
    BY <1>1, <1>2, <1>3 DEF Follows, Agrees
  <2> QED
    BY <1>1, <1>2, <1>3, <2>1, WentInside DEF Follows
<1>4. CASE preference' = call[p].want /\ Returned(p, "refused") /\ ComesApart("save")
  <2>1. apart' \in {"save", "unknown"} /\ (apart = "unknown" => apart' = "unknown")
    BY <1>4 DEF ComesApart
  <2> QED
    BY <1>2, <1>4, <2>1, ReturnsInView DEF Agrees
<1>5. CASE UNCHANGED <<preference, apart>> /\ Returned(p, "refused")
  BY <1>1, <1>2, <1>5, ReturnsInView DEF Follows, Agrees
<1> QED
  BY <1>3, <1>4, <1>5 DEF SaveView

LEMMA DropViewKeeps ==
  ASSUME ViewInv, NEW p \in Procs, DropView(p)
  PROVE  ViewInv'
<1>1. Locks(call[p]) /\ call[p].step = "dropping"
  BY DEF DropView, Locks
<1>2. /\ holder = p /\ Follows(call[p]) /\ (unanswered # {} => apart = "unknown")
      /\ UNCHANGED <<inForce, unanswered>>
  BY <1>1, HolderIsIn DEF DropView, ViewInv
<1>3. ASSUME preference' = None, inForce = None, UNCHANGED apart, NEW result, Returned(p, result)
      PROVE  ViewInv'
  BY <1>2, <1>3, ReturnsInView DEF Agrees
<1>4. ASSUME preference' = None, ComesApart("groupgone"), NEW result, Returned(p, result)
      PROVE  ViewInv'
  <2>1. apart' \in {"groupgone", "unknown"} /\ (apart = "unknown" => apart' = "unknown")
    BY <1>4 DEF ComesApart
  <2> QED
    BY <1>2, <1>4, <2>1, ReturnsInView DEF Agrees
<1>5. CASE UNCHANGED <<preference, apart>> /\ Returned(p, "refused")
  BY <1>1, <1>2, <1>5, ReturnsInView DEF Follows, Agrees
<1> QED
  BY <1>3, <1>4, <1>5 DEF DropView

LEMMA AskHerdrKeeps ==
  ASSUME ViewInv, NEW p \in Procs, AskHerdr(p)
  PROVE  ViewInv'
<1>1. Locks(call[p]) /\ call[p].step = "asking" /\ UNCHANGED preference
  BY DEF AskHerdr, Locks
<1>2. holder = p /\ Follows(call[p]) /\ (unanswered # {} => apart = "unknown")
  BY <1>1, HolderIsIn DEF ViewInv
<1>3. CASE /\ inForce' = call[p].want /\ Returned(p, "applied")
           /\ apart' = (IF unanswered = {} THEN "nothing" ELSE "unknown") /\ UNCHANGED unanswered
  <2>1. unanswered' # {} => apart' = "unknown"
    BY <1>3
  <2>2. Agrees(preference)'
    BY <1>1, <1>2, <1>3 DEF Follows, Agrees
  <2> QED
    BY <1>2, <1>3, <2>1, <2>2, ReturnsInView
\* Without a confirmation, or with an outcome that nobody knows.
<1>4. ASSUME Unconfirmed(p), unanswered' # {} => apart' = "unknown",
             apart' = "unknown" \/ UNCHANGED <<inForce, apart>>
      PROVE  ViewInv'
  <2>1. \A found : found = call[p].found => Agrees(found)'
    BY <1>1, <1>2, <1>4 DEF Follows, Agrees
  <2>2. CASE call[p].op = "restore"
    <3>1. Agrees(preference)'
      BY <1>1, <1>2, <2>1, <2>2 DEF Follows, Agrees
    <3> QED
      BY <1>2, <1>4, <2>2, <3>1, ReturnsInView DEF Unconfirmed
  <2>3. CASE call[p].op # "restore"
    BY <1>1, <1>4, <2>1, <2>3, WentInside DEF Unconfirmed
  <2> QED
    BY <2>2, <2>3
<1>5. CASE Unconfirmed(p) /\ UNCHANGED <<inForce, unanswered, apart>>
  BY <1>2, <1>4, <1>5
<1>6. CASE Unconfirmed(p) /\ ComesApart("unknown")
  BY <1>4, <1>6 DEF ComesApart
<1> QED
  BY <1>3, <1>5, <1>6 DEF AskHerdr

LEMMA UndoViewKeeps ==
  ASSUME ViewInv, NEW p \in Procs, UndoView(p)
  PROVE  ViewInv'
<1>1. Locks(call[p]) /\ call[p].step = "undoing"
  BY DEF UndoView, Locks
<1>2. /\ holder = p /\ Follows(call[p]) /\ (unanswered # {} => apart = "unknown")
      /\ UNCHANGED <<inForce, unanswered>> /\ Returned(p, "refused")
  BY <1>1, HolderIsIn DEF UndoView, ViewInv
<1>3. CASE preference' = call[p].found /\ UNCHANGED apart
  BY <1>1, <1>2, <1>3, ReturnsInView DEF Follows, Agrees
<1>4. CASE UNCHANGED preference /\ ComesApart("save")
  <2>1. apart' \in {"save", "unknown"} /\ (apart = "unknown" => apart' = "unknown")
    BY <1>4 DEF ComesApart
  <2> QED
    BY <1>2, <1>4, <2>1, ReturnsInView DEF Agrees
<1> QED
  BY <1>3, <1>4 DEF UndoView

LEMMA DiesInViewKeeps ==
  ASSUME ViewInv, NEW p \in Procs, DiesInView(p)
  PROVE  ViewInv'
<1>1. /\ call[p].step # "out" /\ call' = [call EXCEPT ![p] = Resting]
      /\ holder' = IF holder = p THEN None ELSE holder
      /\ UNCHANGED <<preference, inForce>>
  BY DEF DiesInView
<1>2. \/ apart' = "unknown"
      \/ UNCHANGED <<unanswered, apart>>
         /\ (call[p].step \in {"asking", "undoing"} => call[p].op = "restore")
  BY DEF DiesInView, ComesApart
<1>3. CASE Locks(call[p])
  <2>1. holder = p /\ Follows(call[p]) /\ (unanswered # {} => apart = "unknown")
    BY <1>3, HolderIsIn DEF ViewInv
  <2>2. Agrees(preference)' /\ (unanswered' # {} => apart' = "unknown")
    BY <1>1, <1>2, <1>3, <2>1 DEF Follows, Locks, Agrees
  <2> QED
    BY <1>1, <2>1, <2>2, RestingIsShaped, Leaving
<1>4. CASE ~Locks(call[p])
  <2>1. holder # p
    BY <1>4 DEF ViewInv, LockIsExclusive
  <2>2. holder' = holder /\ UNCHANGED <<unanswered, apart>>
    BY <1>1, <1>4, <2>1 DEF DiesInView, Locks
  <2> QED
    BY <1>1, <1>4, <2>2, RestingIsShaped, Outside
<1> QED
  BY <1>3, <1>4

LEMMA HandlesLateKeeps ==
  ASSUME ViewInv, HandlesLate
  PROVE  ViewInv'
<1>1. UNCHANGED <<preference, holder, call, apart>> /\ apart = "unknown"
  BY DEF HandlesLate, ViewInv
<1> QED
  BY <1>1 DEF ViewInv, CallsOK, LockIsExclusive, Follows, Locks, PreferenceIsInForce, Agrees

LEMMA HerdrRestartsKeeps ==
  ASSUME ViewInv, HerdrRestarts
  PROVE  ViewInv'
<1>1. /\ UNCHANGED <<preference, holder, call>> /\ inForce' = None /\ unanswered' = {}
      /\ apart' \in {"restart", "unknown"}
  BY DEF HerdrRestarts, ComesApart
<1>2. \A file : Agrees(file)'
  BY <1>1 DEF Agrees
<1> QED
  BY <1>1, <1>2 DEF ViewInv, CallsOK, LockIsExclusive, Follows, Locks, PreferenceIsInForce

LEMMA ViewStarts == ViewInit => ViewInv
<1> SUFFICES ASSUME ViewInit PROVE ViewInv
  OBVIOUS
<1>1. \A p \in Procs : call[p] = Resting
  BY DEF ViewInit
<1> QED
  BY <1>1, RestingIsShaped, FrontEndAssumption
     DEF ViewInit, ViewInv, CallsOK, LockIsExclusive, Follows, PreferenceIsInForce, Agrees

-----------------------------------------------------------------------------
(* Panes *)

JobOK ==
  job = [at |-> job.at, placement |-> job.placement, identity |-> job.identity,
         dest |-> job.dest, tries |-> job.tries, closes |-> job.closes, result |-> job.result]

HasDestination == job.at \in {"running", "verifying", "removing", "rechecking", "closing"}

\* The source goes only in a replacement, whose destination was seen to run,
\* and which nothing that was left over from before can close.
PlaceInv ==
  /\ JobOK /\ DOMAIN pane = Panes /\ job.closes \in BOOLEAN
  /\ changes \in Nat
  /\ job.at # "none" => ~job.closes
  /\ job.at \in {"verifying", "rechecking", "closing"} => Replacing
  /\ HasDestination \/ job.closes => job.dest \in Panes
  /\ (HasDestination /\ Replacing) \/ job.closes => job.dest # Source
  /\ changes = 0 =>
       /\ \A p \in closing \ {Source} : p \in Panes /\ pane[p] # None
       /\ HasDestination \/ job.closes => job.dest \notin closing \ {Source}
       /\ HasDestination => job.dest = Source \/ pane[job.dest] # None
       /\ job.at \in {"rechecking", "closing"} \/ job.closes => pane[job.dest] = "attach"

LEMMA PlacementStarts == PlacementInit => PlaceInv
BY DEF PlacementInit, PlaceInv, JobOK, HasDestination, NoJob

LEMMA PlaceKeeps ==
  ASSUME PlaceInv, NEW placement, Place(placement)
  PROVE  PlaceInv'
<1> DEFINE at == IF placement = "replace-current-pane" THEN "confirming" ELSE "splitting"
<1>1. job' = [NoJob EXCEPT !.placement = placement, !.at = at]
      /\ UNCHANGED <<pane, closing, changes>>
  BY DEF Place
<1>2. at \in {"confirming", "splitting"}
  OBVIOUS
<1>3. NoJob = [at |-> NoJob.at, placement |-> NoJob.placement, identity |-> NoJob.identity,
               dest |-> NoJob.dest, tries |-> NoJob.tries, closes |-> NoJob.closes,
               result |-> NoJob.result] /\ NoJob.closes = FALSE
  BY DEF NoJob
<1> HIDE DEF at
<1>4. JobOK' /\ job'.at = at /\ job'.closes = FALSE
  BY <1>1, <1>3 DEF JobOK
<1> QED
  BY <1>1, <1>2, <1>4 DEF PlaceInv, HasDestination

\* A step that ends a placement, or goes on in one, with what it has.
LEMMA PlaceStepKeeps ==
  ASSUME PlaceInv, PlaceStep
  PROVE  PlaceInv'
<1> USE DEF PlaceInv, JobOK, HasDestination, Replacing
<1>1. CASE Confirm
  BY <1>1 DEF Confirm, Goes, Ends
<1>2. CASE CaptureSource
  BY <1>2 DEF CaptureSource, Ends
<1>3. CASE Split
  <2>1. PICK p \in {q \in Panes : pane[q] = None} :
          /\ pane[Source] # None \/ job.placement = "new-tab"
          /\ pane' = [pane EXCEPT ![p] = "shell"]
          /\ \/ job' = [job EXCEPT !.at = "running", !.dest = p]
             \/ Ends("failed")
    BY <1>3 DEF Split
  <2>2. job.at = "splitting" /\ UNCHANGED <<closing, changes>>
    BY <1>3 DEF Split
  <2>3. /\ DOMAIN pane' = Panes /\ pane'[p] = "shell" /\ "shell" # None
        /\ \A q \in Panes \ {p} : pane'[q] = pane[q]
    BY <2>1, FrontEndAssumption
  <2>4. CASE job' = [job EXCEPT !.at = "running", !.dest = p]
    <3>1. job'.at = "running" /\ job'.dest = p /\ job'.placement = job.placement
          /\ job'.closes = job.closes /\ JobOK'
      BY <2>4
    <3> QED
      BY <2>1, <2>2, <2>3, <3>1
  <2>5. CASE Ends("failed")
    BY <2>1, <2>2, <2>3, <2>5 DEF Ends
  <2> QED
    BY <2>1, <2>4, <2>5
<1>4. CASE SplitFails
  BY <1>4 DEF SplitFails, Ends
<1>5. CASE Run
  BY <1>5, FrontEndAssumption DEF Run, Goes, Ends
<1>6. CASE Verify
  BY <1>6 DEF Verify, Goes
<1>7. CASE RemoveDestination
  BY <1>7 DEF RemoveDestination, Closes, Ends
<1>8. CASE Recheck
  BY <1>8 DEF Recheck, Goes, Ends
<1>9. CASE CloseSource
  BY <1>9 DEF CloseSource, Closes
<1> QED
  BY <1>1, <1>2, <1>3, <1>4, <1>5, <1>6, <1>7, <1>8, <1>9 DEF PlaceStep

LEMMA PaneFaultsKeep ==
  ASSUME PlaceInv, CommandStarts \/ LateClose \/ PaneChanges
  PROVE  PlaceInv'
<1> USE DEF PlaceInv, JobOK, HasDestination, Replacing
<1>1. CASE CommandStarts
  BY <1>1, FrontEndAssumption DEF CommandStarts
<1>2. CASE LateClose
  BY <1>2 DEF LateClose
<1>3. CASE PaneChanges
  BY <1>3 DEF PaneChanges
<1> QED
  BY <1>1, <1>2, <1>3

-----------------------------------------------------------------------------
(* The manager's screens *)

Screens ==
  {"none", "Groups", "CreateOrchestrator", "CreateWorkers", "GroupActions", "EditWorkers",
   "ChangeOrchestrator", "ReviewTopology", "ConfirmDelete"}

Framed(sc) ==
  sc = [screen |-> sc.screen, groups |-> sc.groups, eligible |-> sc.eligible,
        cands |-> sc.cands, index |-> sc.index, group |-> sc.group,
        orchestrator |-> sc.orchestrator, selected |-> sc.selected, prompts |-> sc.prompts,
        connected |-> sc.connected, review |-> sc.review, back |-> sc.back,
        granted |-> sc.granted, action |-> sc.action]

Creating(sc) ==
  \/ sc.screen \in {"CreateOrchestrator", "CreateWorkers"}
  \/ sc.screen = "ReviewTopology" /\ sc.review = "create"
Editing(sc) ==
  \/ sc.screen = "EditWorkers"
  \/ sc.screen = "ReviewTopology" /\ sc.review = "replace"

Permits(group, s) == \E m \in ToSet(group.workers) : m.session = s /\ m.prompt

\* On the screens that lead to a topology, a permission that is set was pressed
\* for there, or the group that is edited gives it.
Given(sc) ==
  /\ Creating(sc) => sc.prompts \subseteq sc.granted
  /\ Editing(sc) =>
       \A s \in sc.prompts : s \in sc.granted \/ Permits(sc.groups[sc.group], s)

Explicit(sc) ==
  \A i \in DOMAIN sc.action.workers :
    sc.action.workers[i].prompt =>
      \/ sc.action.workers[i].session \in sc.granted
      \/ Permits(sc.action.group, sc.action.workers[i].session)

ScreensInv ==
  screens.screen \in Screens /\ Framed(screens) /\ Given(screens) /\ Explicit(screens)

LEMMA NoActionIsEmpty ==
  /\ NoAction = [kind |-> NoAction.kind, group |-> NoAction.group,
                 orchestrator |-> NoAction.orchestrator, workers |-> NoAction.workers,
                 filter |-> NoAction.filter]
  /\ DOMAIN NoAction.workers = {}
BY DEF NoAction

LEMMA ClosedIsGiven ==
  /\ Framed(Closed) /\ Given(Closed) /\ Explicit(Closed)
  /\ Closed.action = NoAction /\ Closed.prompts = {} /\ Closed.screen = "none"
BY NoActionIsEmpty DEF Closed, Framed, Given, Explicit, Creating, Editing

LEMMA OpenedIsGiven ==
  ASSUME NEW connected
  PROVE  /\ Framed(Opened(connected)) /\ Given(Opened(connected)) /\ Explicit(Opened(connected))
         /\ Opened(connected).screen = "Groups"
<1> DEFINE new == Opened(connected)
<1>1. new = [Closed EXCEPT !.screen = "Groups", !.groups = groups, !.eligible = running,
                           !.connected = connected]
  BY DEF Opened
<1> HIDE DEF new
<1>2. Framed(new) /\ new.screen = "Groups" /\ new.action = Closed.action
  BY <1>1, ClosedIsGiven DEF Framed
<1> QED
  BY <1>2, ClosedIsGiven, NoActionIsEmpty DEF new, Given, Explicit, Creating, Editing

\* A key that leaves the screens without an action.
LEMMA Remains ==
  ASSUME ScreensInv, TakesKeys, screens'.screen \in Screens, Framed(screens)', screens'.action = screens.action,
         Given(screens)'
  PROVE  ScreensInv'
BY NoActionIsEmpty DEF ScreensInv, TakesKeys, Explicit

\* A key that moves on with the same permissions.
LEMMA MovesOn ==
  ASSUME ScreensInv, TakesKeys, screens'.screen \in Screens, Framed(screens)', screens'.action = screens.action,
         screens'.prompts = screens.prompts, screens'.granted = screens.granted,
         screens'.groups = screens.groups,
         Creating(screens)' => Creating(screens),
         Editing(screens)' => Editing(screens) /\ screens'.group = screens.group
  PROVE  ScreensInv'
BY Remains DEF ScreensInv, Given

LEMMA Navigates ==
  ASSUME ScreensInv, Move \/ OpenGroup \/ BeginReassign \/ AskDelete \/ DismissDelete
  PROVE  ScreensInv'
<1> USE DEF ScreensInv, Framed, Screens, TakesKeys, OnScreen, AtEntry, Shows, Creating, Editing
<1>1. CASE Move
  BY <1>1, MovesOn DEF Move
<1>2. CASE OpenGroup
  BY <1>2, MovesOn DEF OpenGroup
<1>3. CASE BeginReassign
  BY <1>3, MovesOn DEF BeginReassign
<1>4. CASE AskDelete \/ DismissDelete
  BY <1>4, MovesOn DEF AskDelete, DismissDelete
<1> QED
  BY <1>1, <1>2, <1>3, <1>4

LEMMA BeginCreateKeeps ==
  ASSUME ScreensInv, BeginCreate
  PROVE  ScreensInv'
<1>1. CASE screens' = [screens EXCEPT !.index = Len(screens.groups)]
  BY <1>1, MovesOn
     DEF Screens, BeginCreate, ScreensInv, Framed, TakesKeys, OnScreen, Creating, Editing
<1>2. CASE screens' = [screens EXCEPT !.screen = "CreateOrchestrator",
            !.cands = Candidates(screens.eligible), !.index = 0, !.group = 0,
            !.orchestrator = 0, !.selected = {}, !.prompts = {}, !.granted = {}]
  <2> DEFINE mid == [screens EXCEPT !.screen = "CreateOrchestrator",
               !.cands = Candidates(screens.eligible), !.index = 0, !.group = 0]
  <2>1. mid = [screens EXCEPT !.screen = "CreateOrchestrator",
               !.cands = Candidates(screens.eligible), !.index = 0, !.group = 0]
    OBVIOUS
  <2>2. screens' = [mid EXCEPT !.orchestrator = 0, !.selected = {}, !.prompts = {}, !.granted = {}]
    BY <1>2, Zenon
  <2> HIDE DEF mid
  <2>3. Framed(mid) /\ mid.screen = "CreateOrchestrator" /\ mid.action = screens.action
    BY <2>1 DEF ScreensInv, Framed
  <2>4. Framed(screens)' /\ screens'.screen = "CreateOrchestrator"
        /\ screens'.action = screens.action /\ screens'.prompts = {}
    BY <2>2, <2>3 DEF Framed
  <2>5. Given(screens)'
    BY <2>4 DEF Given, Creating, Editing
  <2> QED
    BY <2>4, <2>5, Remains DEF Screens, BeginCreate, OnScreen
<1> QED
  BY <1>1, <1>2 DEF BeginCreate, Shows

LEMMA ChooseOrchestratorKeeps ==
  ASSUME ScreensInv, ChooseOrchestrator
  PROVE  ScreensInv'
<1> DEFINE chosen == screens.cands[screens.index + 1]
           cands == Candidates(screens.eligible \ {chosen})
<1>1. screens' = [screens EXCEPT !.orchestrator = chosen, !.screen = "CreateWorkers",
                    !.cands = cands, !.selected = {}, !.index = 0]
  BY DEF ChooseOrchestrator, Shows
<1> HIDE DEF cands, chosen
<1>2. /\ Framed(screens)' /\ screens'.screen = "CreateWorkers"
      /\ screens'.action = screens.action /\ screens'.prompts = screens.prompts
      /\ screens'.granted = screens.granted /\ screens'.groups = screens.groups
  BY <1>1 DEF ScreensInv, Framed
<1> QED
  BY <1>2, MovesOn DEF Screens, ChooseOrchestrator, OnScreen, Creating, Editing

LEMMA BeginEditKeeps ==
  ASSUME ScreensInv, BeginEdit
  PROVE  ScreensInv'
<1> DEFINE members == [i \in DOMAIN Chosen.workers |-> Chosen.workers[i].session]
           joining == screens.eligible \ ({Chosen.orchestrator} \cup Of(Chosen))
           cands == members \o Candidates(joining)
           given == {s \in Of(Chosen) : MemberOf(Chosen, s).prompt}
           of == Of(Chosen)
<1>1. screens' = [screens EXCEPT !.screen = "EditWorkers", !.index = 0, !.cands = cands,
                    !.selected = of, !.prompts = given, !.granted = {}]
  BY DEF BeginEdit, Shows
<1>2. ASSUME NEW s \in given PROVE Permits(Chosen, s)
  <2>1. PICK i \in DOMAIN Chosen.workers : s = Chosen.workers[i].session
    BY <1>2 DEF Of
  <2>2. Chosen.workers[i] \in ToSet(Chosen.workers)
    BY DEF ToSet
  <2>3. MemberOf(Chosen, s) \in ToSet(Chosen.workers) /\ MemberOf(Chosen, s).session = s
    BY <2>1, <2>2 DEF MemberOf
  <2> QED
    BY <1>2, <2>3 DEF Permits
<1> HIDE DEF cands, given, of
<1>3. /\ Framed(screens)' /\ screens'.screen = "EditWorkers"
      /\ screens'.action = screens.action /\ screens'.prompts = given
      /\ screens'.groups = screens.groups /\ screens'.group = screens.group
  BY <1>1 DEF ScreensInv, Framed
<1>4. Given(screens)'
  BY <1>2, <1>3 DEF Given, Creating, Editing, Chosen
<1> QED
  BY <1>3, <1>4, Remains DEF Screens, BeginEdit, OnScreen

LEMMA TogglesKeep ==
  ASSUME ScreensInv, ToggleWorker \/ TogglePrompt
  PROVE  ScreensInv'
<1> DEFINE s == AtCursor
<1>0. TakesKeys /\ Framed(screens) /\ Given(screens) /\ screens.screen \in Screens
  BY DEF ToggleWorker, TogglePrompt, OnCandidate, Choosing, OnScreen, ScreensInv
<1> HIDE DEF s
\* What stays set was given, and what is set was pressed for.
<1>1. ASSUME Framed(screens)', screens'.action = screens.action,
             screens'.screen = screens.screen, screens'.review = screens.review,
             screens'.groups = screens.groups, screens'.group = screens.group,
             screens.granted \subseteq screens'.granted,
             screens'.prompts \ screens.prompts \subseteq screens'.granted
      PROVE  ScreensInv'
  <2>1. Given(screens)'
    BY <1>0, <1>1 DEF Given, Creating, Editing
  <2> QED
    BY <1>0, <1>1, <2>1, Remains
<1>2. CASE screens' = [screens EXCEPT !.selected = @ \ {s}, !.prompts = @ \ {s}]
  BY <1>0, <1>1, <1>2 DEF Framed
<1>3. CASE screens' = [screens EXCEPT !.selected = @ \cup {s}]
  BY <1>0, <1>1, <1>3 DEF Framed
<1>4. CASE screens' = [screens EXCEPT !.prompts = @ \ {s}]
  BY <1>0, <1>1, <1>4 DEF Framed
<1>5. CASE screens' = [screens EXCEPT !.prompts = @ \cup {s}, !.granted = @ \cup {s}]
  BY <1>0, <1>1, <1>5 DEF Framed
<1> QED
  BY <1>2, <1>3, <1>4, <1>5 DEF ToggleWorker, TogglePrompt, Shows, s

LEMMA ReviewsKeep ==
  ASSUME ScreensInv, ReviewWorkers \/ ReviewReplacement
  PROVE  ScreensInv'
<1>0. TakesKeys /\ Framed(screens) /\ Given(screens)
  BY DEF ReviewWorkers, ReviewReplacement, Choosing, OnScreen, ScreensInv
<1>1. CASE ReviewWorkers
  <2> DEFINE kind == IF OnScreen("CreateWorkers") THEN "create" ELSE "replace"
  <2>1. screens' = [screens EXCEPT !.review = kind, !.back = screens.index,
                      !.screen = "ReviewTopology", !.index = 0]
    BY <1>1 DEF ReviewWorkers, Reviews, Shows
  <2>2. \/ kind = "create" /\ screens.screen = "CreateWorkers"
        \/ kind = "replace" /\ screens.screen = "EditWorkers"
    BY <1>1 DEF ReviewWorkers, Choosing, OnScreen
  <2> HIDE DEF kind
  <2>3. /\ Framed(screens)' /\ screens'.screen = "ReviewTopology" /\ screens'.review = kind
        /\ screens'.action = screens.action /\ screens'.prompts = screens.prompts
        /\ screens'.granted = screens.granted /\ screens'.groups = screens.groups
        /\ screens'.group = screens.group
    BY <1>0, <2>1 DEF Framed
  <2> QED
    BY <1>0, <2>2, <2>3, MovesOn DEF Screens, Creating, Editing
<1>2. CASE ReviewReplacement
  <2> DEFINE mid == [screens EXCEPT !.orchestrator = AtCursor]
  <2>1. mid = [screens EXCEPT !.orchestrator = AtCursor]
    OBVIOUS
  <2>2. screens' = [mid EXCEPT !.review = "reassign", !.back = screens.index,
                      !.screen = "ReviewTopology", !.index = 0]
    BY <1>2 DEF ReviewReplacement, Reviews, Shows
  <2> HIDE DEF mid
  <2>3. /\ Framed(mid) /\ mid.action = screens.action /\ mid.prompts = screens.prompts
        /\ mid.granted = screens.granted /\ mid.groups = screens.groups
    BY <1>0, <2>1 DEF Framed
  <2>4. /\ Framed(screens)' /\ screens'.screen = "ReviewTopology"
        /\ screens'.review = "reassign" /\ screens'.action = mid.action
        /\ screens'.prompts = mid.prompts /\ screens'.granted = mid.granted
        /\ screens'.groups = mid.groups
    BY <2>2, <2>3 DEF Framed
  <2> QED
    BY <1>0, <2>3, <2>4, MovesOn DEF Screens, Creating, Editing
<1> QED
  BY <1>1, <1>2

\* A screen that ends with an action.
LEMMA LeavesWith ==
  ASSUME ScreensInv, NEW action, Leaves(action),
         \A i \in DOMAIN action.workers : action.workers[i].prompt =>
           \/ action.workers[i].session \in screens.granted
           \/ Permits(action.group, action.workers[i].session)
  PROVE  ScreensInv'
<1>1. screens' = [screens EXCEPT !.action = action]
  BY DEF Leaves, Shows
<1>2. /\ Framed(screens)' /\ screens'.action = action
      /\ screens'.prompts = screens.prompts /\ screens'.granted = screens.granted
      /\ screens'.groups = screens.groups /\ screens'.group = screens.group
      /\ screens'.screen = screens.screen /\ screens'.review = screens.review
  BY <1>1 DEF ScreensInv, Framed
<1>3. Given(screens)'
  BY <1>2 DEF ScreensInv, Given, Creating, Editing
<1>4. Explicit(screens)'
  BY <1>2 DEF Explicit
<1> QED
  BY <1>2, <1>3, <1>4 DEF ScreensInv

LEMMA WhoIsSelected ==
  ASSUME NEW i \in DOMAIN SelectedWorkers, SelectedWorkers[i].prompt
  PROVE  SelectedWorkers[i].session \in screens.prompts
<1> DEFINE chosen == SelectSeq(screens.cands, LAMBDA s : s \in screens.selected)
           rest(s) == IF screens.group # 0 /\ s \in Of(Chosen) THEN MemberOf(Chosen, s).rest
                      ELSE "default"
<1>1. SelectedWorkers =
        [j \in DOMAIN chosen |-> Member(chosen[j], chosen[j] \in screens.prompts, rest(chosen[j]))]
  BY DEF SelectedWorkers
<1> HIDE DEF chosen, rest
<1> DEFINE prompt == chosen[i] \in screens.prompts
           kept == rest(chosen[i])
<1>2. SelectedWorkers[i] = Member(chosen[i], prompt, kept)
  BY <1>1
<1> HIDE DEF prompt, kept
<1>3. SelectedWorkers[i].session = chosen[i] /\ SelectedWorkers[i].prompt = prompt
  BY <1>2 DEF Member
<1>4. chosen[i] \in screens.prompts
  BY <1>3, Zenon DEF prompt
<1> QED
  BY <1>3, <1>4

LEMMA ApplyKeeps ==
  ASSUME ScreensInv, Apply
  PROVE  ScreensInv'
<1>0. screens.screen = "ReviewTopology" /\ Given(screens)
  BY DEF Apply, OnScreen, ScreensInv
<1>1. CASE screens.review = "create"
           /\ Leaves([NoAction EXCEPT !.kind = "create", !.group.id = NextId,
                        !.orchestrator = screens.orchestrator, !.workers = SelectedWorkers])
  <2> DEFINE action == [NoAction EXCEPT !.kind = "create", !.group.id = NextId,
                          !.orchestrator = screens.orchestrator, !.workers = SelectedWorkers]
  <2>1. action.workers = SelectedWorkers
    BY NoActionIsEmpty
  <2>2. Leaves(action)
    BY <1>1
  <2> HIDE DEF action
  <2>3. screens.prompts \subseteq screens.granted
    BY <1>0, <1>1 DEF Given, Creating
  <2> QED
    BY <2>1, <2>2, <2>3, WhoIsSelected, LeavesWith
<1>2. CASE screens.review = "replace"
           /\ Leaves([NoAction EXCEPT !.kind = "replace", !.group = Chosen,
                        !.workers = SelectedWorkers])
  <2> DEFINE action == [NoAction EXCEPT !.kind = "replace", !.group = Chosen,
                          !.workers = SelectedWorkers]
  <2>1. action.workers = SelectedWorkers /\ action.group = Chosen
    BY NoActionIsEmpty
  <2>2. Leaves(action)
    BY <1>2
  <2> HIDE DEF action
  <2>3. \A s \in screens.prompts : s \in screens.granted \/ Permits(Chosen, s)
    BY <1>0, <1>2 DEF Given, Editing, Chosen
  <2> QED
    BY <2>1, <2>2, <2>3, WhoIsSelected, LeavesWith
<1>3. CASE Leaves([NoAction EXCEPT !.kind = "reassign", !.group = Chosen,
                     !.orchestrator = screens.orchestrator])
  <2> DEFINE action == [NoAction EXCEPT !.kind = "reassign", !.group = Chosen,
                          !.orchestrator = screens.orchestrator]
  <2>1. action.workers = NoAction.workers
    BY NoActionIsEmpty
  <2>2. Leaves(action)
    BY <1>3
  <2> HIDE DEF action
  <2> QED
    BY <2>1, <2>2, NoActionIsEmpty, LeavesWith
<1> QED
  BY <1>1, <1>2, <1>3 DEF Apply

LEMMA OtherActionsKeep ==
  ASSUME ScreensInv, Launch \/ ShowInSidebar \/ RestoreSidebar \/ ConfirmDelete
  PROVE  ScreensInv'
<1>1. PICK action : Leaves(action) /\ action.workers = NoAction.workers
  <2>1. [NoAction EXCEPT !.kind = "launch", !.group = Chosen].workers = NoAction.workers
    BY NoActionIsEmpty
  <2>2. [NoAction EXCEPT !.kind = "view", !.group = Chosen,
                         !.filter = FilterAt[screens.index]].workers = NoAction.workers
    BY NoActionIsEmpty
  <2>3. [NoAction EXCEPT !.kind = "clear"].workers = NoAction.workers
    BY NoActionIsEmpty
  <2>4. [NoAction EXCEPT !.kind = "delete", !.group = Chosen].workers = NoAction.workers
    BY NoActionIsEmpty
  <2> QED
    BY <2>1, <2>2, <2>3, <2>4, Zenon
       DEF Launch, ShowInSidebar, RestoreSidebar, ConfirmDelete
<1> QED
  BY <1>1, NoActionIsEmpty, LeavesWith

LEMMA BackKeeps ==
  ASSUME ScreensInv, Back
  PROVE  ScreensInv'
<1>0. /\ TakesKeys /\ Framed(screens) /\ screens.screen \in Screens
      /\ screens.screen # "none" /\ screens.screen # "ConfirmDelete"
  BY DEF Back, TakesKeys, ScreensInv
<1>1. CASE Leaves([NoAction EXCEPT !.kind = "back"])
  <2> DEFINE action == [NoAction EXCEPT !.kind = "back"]
  <2>1. action.workers = NoAction.workers
    BY NoActionIsEmpty
  <2>2. Leaves(action)
    BY <1>1
  <2> HIDE DEF action
  <2> QED
    BY <2>1, <2>2, NoActionIsEmpty, LeavesWith
<1>2. CASE \E index : screens' = [screens EXCEPT !.screen = "Groups", !.index = index]
  BY <1>0, <1>2, MovesOn DEF Screens, Framed, Creating, Editing
<1>3. CASE screens.screen = "CreateWorkers"
           /\ screens' = [screens EXCEPT !.screen = "CreateOrchestrator", !.index = 0,
                            !.cands = Candidates(screens.eligible), !.selected = {}]
  BY <1>0, <1>3, MovesOn DEF Screens, Framed, Creating, Editing
<1>4. CASE screens' = [screens EXCEPT !.screen = "GroupActions", !.index = 1, !.selected = {}]
  BY <1>0, <1>4, MovesOn DEF Screens, Framed, Creating, Editing
<1>5. CASE screens' = [screens EXCEPT !.screen = "GroupActions", !.index = 2,
                                      !.orchestrator = 0]
  BY <1>0, <1>5, MovesOn DEF Screens, Framed, Creating, Editing
<1>6. CASE screens.screen = "ReviewTopology"
           /\ screens' = [screens EXCEPT !.index = screens.back, !.review = "none",
                     !.screen = CASE screens.review = "create" -> "CreateWorkers"
                                  [] screens.review = "replace" -> "EditWorkers"
                                  [] OTHER -> "ChangeOrchestrator"]
  <2> DEFINE screen == CASE screens.review = "create" -> "CreateWorkers"
                         [] screens.review = "replace" -> "EditWorkers"
                         [] OTHER -> "ChangeOrchestrator"
  <2>1. \/ screen = "CreateWorkers" /\ screens.review = "create"
        \/ screen = "EditWorkers" /\ screens.review = "replace"
        \/ screen = "ChangeOrchestrator"
    OBVIOUS
  <2>2. screens' = [screens EXCEPT !.index = screens.back, !.review = "none", !.screen = screen]
    BY <1>6
  <2> HIDE DEF screen
  <2>3. /\ Framed(screens)' /\ screens'.screen = screen /\ screens'.review = "none"
        /\ screens'.action = screens.action /\ screens'.prompts = screens.prompts
        /\ screens'.granted = screens.granted /\ screens'.groups = screens.groups
        /\ screens'.group = screens.group
    BY <1>0, <2>2 DEF Framed
  <2> QED
    BY <1>0, <1>6, <2>1, <2>3, MovesOn DEF Screens, Creating, Editing
<1> QED
  BY <1>0, <1>1, <1>2, <1>3, <1>4, <1>5, <1>6 DEF Back, Shows, Screens

LEMMA KeyKeeps ==
  ASSUME ScreensInv, Key
  PROVE  ScreensInv'
BY Navigates, BeginCreateKeeps, ChooseOrchestratorKeeps, BeginEditKeeps, TogglesKeep,
   ReviewsKeep, ApplyKeeps, OtherActionsKeep, BackKeeps DEF Key

-----------------------------------------------------------------------------
(* The loop *)

LEMMA LoopScreens ==
  ASSUME ScreensInv, [Next]_vars
  PROVE  ScreensInv'
<1>1. CASE UNCHANGED screens
  BY <1>1 DEF ScreensInv
<1>2. CASE screens' = Closed
  BY <1>2, ClosedIsGiven DEF ScreensInv, Screens
<1>3. ASSUME NEW connected \in BOOLEAN, screens' = Opened(connected)
      PROVE  ScreensInv'
  BY <1>3, OpenedIsGiven DEF ScreensInv, Screens
<1>4. CASE Presses
  BY <1>4, KeyKeeps DEF Presses
<1>5. CASE PicksWorkload \/ PicksManager \/ ManagerDies
  BY <1>1, <1>5 DEF PicksWorkload, PicksManager, ManagerDies, managerVars
<1>6. CASE LoopStep
  BY <1>1, <1>2, <1>3, <1>6
     DEF LoopStep, OpensManager, TakesBack, TakesChange, TakesView, TakesClear, TakesDelete,
         TakesLaunch, Takes, Stores, ViewEnds, ClearEnds, Deletes, DeleteRefused, Launches,
         PlacementEnds, managerVars
<1>7. CASE (\E p \in Procs : ViewGoesOn(p)) \/ PlacementGoesOn \/ OthersChangeStore
           \/ HerdrRestores \/ ViewFaults \/ PaneFaults
  BY <1>1, <1>7
     DEF ViewGoesOn, PlacementGoesOn, OthersChangeStore, HerdrRestores, ViewFaults, PaneFaults,
         managerVars
<1> QED
  BY <1>1, <1>4, <1>5, <1>6, <1>7 DEF Next, vars, managerVars

LEMMA LoopView ==
  ASSUME ViewInv, [Next]_vars
  PROVE  ViewInv'
<1>0. Manager \in Procs
  BY FrontEndAssumption
<1>1. CASE UNCHANGED sidebarVars
  BY <1>1
     DEF sidebarVars, ViewInv, CallsOK, LockIsExclusive, Follows, Locks, PreferenceIsInForce, Agrees
<1>2. ASSUME NEW p \in Procs, NEW op, NEW want, NEW known, BeginView(p, op, want, known)
      PROVE  ViewInv'
  BY <1>2, BeginViewKeeps
<1>3. ASSUME NEW p \in Procs, ViewStep(p)
      PROVE  ViewInv'
  BY <1>3, EnterViewKeeps, DropViewKeeps, SaveViewKeeps, AskHerdrKeeps, UndoViewKeeps
     DEF ViewStep
<1>4. CASE PicksWorkload \/ PicksManager \/ Presses
  BY <1>1, <1>4 DEF PicksWorkload, PicksManager, Presses
<1>5. CASE TakesView \/ TakesClear \/ TakesDelete
  BY <1>0, <1>2, <1>5 DEF TakesView, TakesClear, TakesDelete
<1>6. CASE DeleteRefused
  BY <1>0, <1>1, <1>2, <1>6 DEF DeleteRefused
<1>7. CASE LoopStep
  BY <1>1, <1>5, <1>6, <1>7
     DEF LoopStep, OpensManager, TakesBack, TakesChange, TakesLaunch, Stores, ViewEnds,
         ClearEnds, Deletes, Launches, PlacementEnds
<1>8. CASE ManagerDies
  BY <1>0, <1>8, DiesInViewKeeps DEF ManagerDies
<1>9. CASE \E p \in Procs : ViewGoesOn(p)
  BY <1>3, <1>9 DEF ViewGoesOn
<1>10. CASE HerdrRestores
  BY <1>2, <1>10 DEF HerdrRestores
<1>11. CASE ViewFaults
  BY <1>11, DiesInViewKeeps, HandlesLateKeeps, HerdrRestartsKeeps DEF ViewFaults
<1>12. CASE PlacementGoesOn \/ OthersChangeStore \/ PaneFaults
  BY <1>1, <1>12 DEF PlacementGoesOn, OthersChangeStore, PaneFaults
<1> QED
  BY <1>1, <1>4, <1>7, <1>8, <1>9, <1>10, <1>11, <1>12 DEF Next, vars

LEMMA LoopPanes ==
  ASSUME PlaceInv, [Next]_vars
  PROVE  PlaceInv'
<1>1. CASE UNCHANGED paneVars
  BY <1>1 DEF paneVars, PlaceInv, JobOK, HasDestination, Replacing
<1>2. CASE PicksWorkload
  BY <1>2, PlaceKeeps DEF PicksWorkload
<1>3. CASE Launches
  BY <1>1, <1>3, PlaceKeeps DEF Launches, paneVars
<1>4. CASE LoopStep
  BY <1>1, <1>3, <1>4
     DEF LoopStep, OpensManager, TakesBack, TakesChange, TakesView, TakesClear, TakesDelete,
         TakesLaunch, Stores, ViewEnds, ClearEnds, Deletes, DeleteRefused, PlacementEnds
<1>5. CASE PlacementGoesOn
  BY <1>5, PlaceStepKeeps DEF PlacementGoesOn
<1>6. CASE PaneFaults
  BY <1>6, PaneFaultsKeep DEF PaneFaults
<1>7. CASE PicksManager \/ Presses \/ ManagerDies \/ OthersChangeStore \/ HerdrRestores
           \/ ViewFaults \/ \E p \in Procs : ViewGoesOn(p)
  BY <1>1, <1>7
     DEF PicksManager, Presses, ManagerDies, OthersChangeStore, HerdrRestores, ViewFaults,
         ViewGoesOn
<1> QED
  BY <1>1, <1>2, <1>4, <1>5, <1>6, <1>7 DEF Next, vars

\* toggle_prompt, for any workloads and groups: on whatever way through the
\* screens, back and forth and from group to group, a permission to prompt in
\* the topology that is applied is one that the group gave already or that
\* somebody pressed p for.
THEOREM PermissionsArePressedFor == Spec => []PermissionsAreExplicit
<1>1. Init => ScreensInv
  BY ClosedIsGiven DEF Init, ScreensInv, Screens
<1>2. ScreensInv /\ [Next]_vars => ScreensInv'
  BY LoopScreens
<1>3. ScreensInv => PermissionsAreExplicit
  BY DEF ScreensInv, Explicit, Permits, PermissionsAreExplicit
<1> QED
  BY <1>1, <1>2, <1>3, PTL DEF Spec

\* The Agents view, for any processes: between calls the saved preference is
\* the view in force, whatever Herdr refused, except where one of the named
\* causes has parted the two since the last confirmed change: a save that
\* reported failure after its rename, a preference dropped with its group, a
\* view Herdr lost by restarting, and a request or a rollback whose outcome
\* nobody knows. After only a drop nothing is to be restored, and after only a
\* restart nothing is in force.
THEOREM SavedIsShown == Spec => []PreferenceIsInForce
<1>1. Init => ViewInv
  BY ViewStarts DEF Init
<1>2. ViewInv /\ [Next]_vars => ViewInv'
  BY LoopView
<1>3. ViewInv => PreferenceIsInForce
  BY DEF ViewInv
<1> QED
  BY <1>1, <1>2, <1>3, PTL DEF Spec

\* replace_current, for any panes and programs: as long as nobody else changes
\* the panes, a replacement that closed its source leaves the command running.
THEOREM SourceGoesLast == Spec => []SourceClosesLast
<1>1. Init => PlaceInv
  BY PlacementStarts DEF Init
<1>2. PlaceInv /\ [Next]_vars => PlaceInv'
  BY LoopPanes
<1>3. PlaceInv => SourceClosesLast
  BY DEF PlaceInv, SourceClosesLast
<1> QED
  BY <1>1, <1>2, <1>3, PTL DEF Spec

=============================================================================
