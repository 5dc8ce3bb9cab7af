-------------------------- MODULE ObserverSurface --------------------------
(***************************************************************************)
(* Mission Control while it is open (src/orchestration.rs, run_observer,   *)
(* and src/observer.rs): a thread that draws and decides, a thread that    *)
(* captures tmux output and a thread that samples agents through Herdr.    *)
(* Both ask through a queue of one and answer through a channel, so an     *)
(* answer may arrive after the membership, the workload or the pane it was *)
(* asked about is gone.                                                    *)
(*                                                                         *)
(* Output is abstracted to what authorized its reading and who read it;    *)
(* titles, latencies, pages and the clipping of output are left out, and   *)
(* the group fits on one page.  A failed load of the state changes no tile *)
(* and is a stutter here.                                                  *)
(***************************************************************************)
EXTENDS Naturals, FiniteSets, Sequences

CONSTANTS
  Workers,          \* sessions that may be in the group
  Occupants,        \* who may sit in a Herdr pane
  Prompted,         \* the workers whose membership allows prompting
  None,             \* "nothing there", for any optional part of the state
  MaxMemberships,   \* bound: memberships issued to one worker
  MaxIncarnations,  \* bound: incarnations of one workload
  MaxMoves,         \* bound: steps of the surroundings, and keys pressed
  MaxResults        \* bound: answers waiting in a channel

ASSUME ConstantsOK ==
  /\ IsFiniteSet(Workers) /\ IsFiniteSet(Occupants) /\ Occupants # {} /\ Prompted \subseteq Workers
  /\ MaxMemberships \in Nat \ {0} /\ MaxIncarnations \in Nat \ {0}
  /\ MaxMoves \in Nat /\ MaxResults \in Nat \ {0}

\* An optional part that is missing is told apart from every one that is there.
ASSUME NothingIsNoOne ==
  None \notin Occupants \cup [occupant : Occupants, inc : 1..MaxIncarnations]
                        \cup [member : 1..MaxMemberships, inc : 1..MaxIncarnations]

VARIABLES
  grouped,     \* the group still exists
  member,      \* its stored membership of each worker: is it in, its id, may it be observed
  work,        \* the worker's record: its phase and its incarnation
  panes,       \* the Herdr panes that carry the worker's tokens
  reachable,   \* Herdr answers
  moves,       \* how often the surroundings have moved and a key was pressed
  surface,     \* "open" or "closed"
  tile,        \* what the surface shows of each worker
  seen,        \* capture_fingerprints: the authorization at the last refresh
  bound,       \* bound_occupants: who was first seen live, and in which incarnation
  mark,        \* sampled_states: for which state a sample was asked within its window
  reading,     \* an explicit read the surface waits for
  asked, captured,             \* the capture thread: its queue and its answers
  wanted, sampling, samples,   \* the preview thread: its queue, its work, its answers
  told,        \* history: how often each failing end was announced
  shownLive    \* history: the occupants each incarnation was shown live with

world == <<grouped, member, work, panes, reachable>>
capturer == <<asked, captured>>
sampler == <<wanted, sampling, samples>>
shown == <<tile, seen, bound, mark, told, shownLive>>
vars == <<world, moves, surface, shown, reading, capturer, sampler>>

---------------------------------------------------------------------------
(* What the state and Herdr say now.                                       *)

Incarnation(w) == IF work[w].phase = "starting" THEN None ELSE work[w].inc

\* The authorization output of w may be read under, None when it may not:
\* membership, running incarnation and the capability to observe.
Authority(w) ==
  IF grouped /\ member[w].in /\ member[w].observe /\ work[w].phase = "running"
  THEN [member |-> member[w].id, inc |-> work[w].inc]
  ELSE None

\* The panes that carry w's current membership.
Exact(w) == {p \in panes[w] : p.member = member[w].id}

\* The one pane a membership resolves to, or why it does not.
Resolved(w) ==
  CASE panes[w] = {} -> [pane |-> None, agent |-> "detached", reason |-> None]
    [] panes[w] # {} /\ Exact(w) = {} ->
         [pane |-> None, agent |-> "stale", reason |-> "EarlierMembership"]
    [] Cardinality(Exact(w)) > 1 ->
         [pane |-> None, agent |-> "stale", reason |-> "AmbiguousClaim"]
    [] OTHER -> LET p == CHOOSE q \in Exact(w) : TRUE
                IN  [pane |-> p, agent |-> p.status, reason |-> None]

\* authorize_binding for a reader: authorized, and exactly one pane answers.
MayRead(w) == Authority(w) # None /\ reachable /\ Resolved(w).pane # None

---------------------------------------------------------------------------
(* A tile.                                                                 *)

AgentOf(agent, live, reason) == [agent |-> agent, live |-> live, reason |-> reason]

\* The occupant remembered for the incarnation that runs now.
Remembered(w) ==
  IF bound[w] # None /\ bound[w].inc = Incarnation(w) THEN bound[w].occupant ELSE None

\* What a refresh makes of w's agent: a pane that resolves is live only while
\* its occupant is the remembered one.
Agent(w) ==
  CASE ~reachable -> AgentOf("unreachable", FALSE, None)
    [] reachable /\ work[w].phase # "running" -> AgentOf("unknown", FALSE, None)
    [] OTHER ->
         LET r == Resolved(w) IN
         IF r.pane = None THEN AgentOf(r.agent, FALSE, r.reason)
         ELSE IF Remembered(w) \in {None, r.pane.occupant}
              THEN AgentOf(r.agent, TRUE, None)
              ELSE AgentOf("stale", FALSE, "ReplacedOccupant")

\* Mutant: an occupant is forgotten whenever nothing resolves.
NextBoundForgetful(w) ==
  CASE ~Agent(w).live -> None
    [] Agent(w).live /\ Remembered(w) # None -> bound[w]
    [] OTHER -> [occupant |-> Resolved(w).pane.occupant, inc |-> Incarnation(w)]

\* Whom the refresh remembers from now on; nothing that fails to resolve
\* makes it forget.
NextBound(w) ==
  IF Agent(w).live /\ Remembered(w) = None
  THEN [occupant |-> Resolved(w).pane.occupant, inc |-> Incarnation(w)]
  ELSE bound[w]

\* The projection of w, which carries no output.
Projection(w) ==
  LET a == Agent(w) IN
  [phase |-> work[w].phase, inc |-> Incarnation(w), observe |-> member[w].observe,
   agent |-> a.agent, live |-> a.live, reason |-> a.reason, observed |-> a.live,
   text |-> None, status |-> "Loading"]

Usable(t) == t.phase = "running" /\ t.inc # None /\ t.agent \notin {"unreachable", "stale"}
CanOpen(t) == Usable(t)
CanObserve(t) == Usable(t) /\ t.live /\ t.observe

\* The workers whose output tmux is asked for: those without a live agent.
Fallback(tiles) == {w \in Workers : tiles[w] # None /\ ~tiles[w].live}

\* Mutant: output goes on as long as there is an authorization.
SameEpochByPresence(w) == seen[w] # None /\ Authority(w) # None

\* Output goes on only within one exact authorization epoch.
SameEpoch(w) == seen[w] # None /\ seen[w] = Authority(w)

Blank(t) == [t EXCEPT !.text = None, !.status = "Loading"]

\* Puts the last frame's output, if any, back on a fresh projection.
CarryForward(fresh, old) == [fresh EXCEPT !.text = old.text, !.status = "Ready"]

\* A fresh projection without output takes over what the last frame knew of
\* the connection; a live agent whose Herdr is gone stays, as stale.
Update(fresh, old) ==
  LET lost == old.live /\ fresh.agent = "unreachable"
      kept == [fresh EXCEPT !.observed = @ \/ old.observed] IN
  IF lost
  THEN [kept EXCEPT !.live = TRUE, !.agent = "stale", !.reason = "Connection", !.status = "Stale"]
  ELSE IF old.status = "Stale" /\ fresh.live
  THEN kept
  ELSE [kept EXCEPT !.status = old.status]

NextTile(w) ==
  LET old == tile[w] IN
  CASE ~member[w].in -> None
    [] member[w].in /\ old = None -> Projection(w)
    [] OTHER -> IF SameEpoch(w)
                THEN IF old.text # None THEN CarryForward(Projection(w), old)
                                        ELSE Update(Projection(w), old)
                ELSE Update(Projection(w), Blank(old))

---------------------------------------------------------------------------
NoTiles == [w \in Workers |-> None]

Init ==
  /\ grouped = TRUE
  /\ member = [w \in Workers |-> [in |-> TRUE, id |-> 1, observe |-> TRUE]]
  /\ work \in [Workers -> [phase : {"running", "failed"}, inc : {1}]]
  /\ panes \in [Workers -> {{}, {[occupant |-> CHOOSE o \in Occupants : TRUE,
                                  member |-> 1, status |-> "working"]}}]
  /\ reachable = TRUE /\ moves = 0 /\ surface = "open" /\ reading = None
  /\ tile = NoTiles /\ seen = NoTiles /\ bound = NoTiles /\ mark = NoTiles
  /\ asked = None /\ captured = <<>>
  /\ wanted = {} /\ sampling = {} /\ samples = <<>>
  /\ told = [w \in Workers |-> [i \in 1..MaxIncarnations |-> 0]]
  /\ shownLive = [w \in Workers |-> {}]

---------------------------------------------------------------------------
(* The surroundings: other processes edit the group and drive the workload,*)
(* Herdr and its panes come and go.                                        *)

Counts == moves < MaxMoves /\ moves' = moves + 1

Moves == /\ surface = "open" /\ Counts
         /\ UNCHANGED <<surface, shown, reading, capturer, sampler>>

\* A worker leaves, returns with a new membership, or has its capability to
\* be observed changed under the membership it has.
EditGroup(w) ==
  /\ grouped /\ Moves
  /\ \/ member' = [member EXCEPT ![w].in = FALSE] /\ member[w].in
     \/ /\ ~member[w].in /\ member[w].id < MaxMemberships
        /\ member' = [member EXCEPT ![w].in = TRUE, ![w].id = @ + 1]
     \/ member' = [member EXCEPT ![w].observe = ~@] /\ member[w].in
  /\ UNCHANGED <<grouped, work, panes, reachable>>

DeleteGroup ==
  /\ grouped /\ Moves /\ grouped' = FALSE
  /\ UNCHANGED <<member, work, panes, reachable>>

\* A workload ends, badly or not, and is restarted as a new incarnation.
WorkMoves(w) ==
  /\ Moves
  /\ \/ /\ work[w].phase = "running"
        /\ \E end \in {"failed", "over"} : work' = [work EXCEPT ![w].phase = end]
     \/ /\ work[w].phase # "starting" /\ work[w].inc < MaxIncarnations
        /\ work' = [work EXCEPT ![w].phase = "starting", ![w].inc = @ + 1]
     \/ /\ work[w].phase = "starting"
        /\ \E to \in {"running", "over"} : work' = [work EXCEPT ![w].phase = to]
  /\ UNCHANGED <<grouped, member, panes, reachable>>

\* A pane appears, closes, or reports another state; whoever sits in it.
PaneMoves(w) ==
  /\ Moves
  /\ \/ \E p \in panes[w] : panes' = [panes EXCEPT ![w] = @ \ {p}]
     \/ /\ Cardinality(panes[w]) < 2
        /\ \E o \in Occupants \ {p.occupant : p \in panes[w]} :
             panes' = [panes EXCEPT
               ![w] = @ \cup {[occupant |-> o, member |-> member[w].id, status |-> "working"]}]
     \/ \E p \in panes[w], o \in Occupants \ {q.occupant : q \in panes[w]} :
          panes' = [panes EXCEPT ![w] = (@ \ {p}) \cup {[p EXCEPT !.occupant = o]}]
     \/ \E p \in panes[w] :
          panes' = [panes EXCEPT ![w] = (@ \ {p}) \cup
            {[p EXCEPT !.status = IF @ = "working" THEN "blocked" ELSE "working"]}]
  /\ UNCHANGED <<grouped, member, work, reachable>>

HerdrMoves ==
  /\ Moves /\ reachable' = ~reachable
  /\ UNCHANGED <<grouped, member, work, panes>>

\* Mutant: a sample is only taken again when the agent's state has changed.
SampleNeverAges(w) == FALSE /\ mark[w] # None /\ UNCHANGED vars

\* A sample's window passes (PREVIEW_MAX_AGE): as if it had never been taken.
SampleAges(w) ==
  /\ mark[w] # None /\ mark' = [mark EXCEPT ![w] = None]
  /\ UNCHANGED <<world, moves, surface, tile, seen, bound, told, shownLive, reading,
                 capturer, sampler>>

---------------------------------------------------------------------------
(* The thread that draws and decides.  It waits inside an explicit read.   *)

Free == surface = "open" /\ reading = None

\* The group is gone, or the user leaves: nothing of the view remains, and
\* both threads end.
Close ==
  /\ surface' = "closed" /\ reading' = None
  /\ tile' = NoTiles /\ seen' = NoTiles /\ bound' = NoTiles /\ mark' = NoTiles
  /\ asked' = None /\ captured' = <<>>
  /\ wanted' = {} /\ sampling' = {} /\ samples' = <<>>
  /\ UNCHANGED <<world, moves, told, shownLive>>

Leave == Free /\ Close

\* Mutant: a failed worker that was on the surface before is news.
IsNewsEveryTime(w) ==
  NextTile(w) # None /\ tile[w] # None /\ NextTile(w).phase = "failed"

\* A failing end is news once per incarnation, and not for a worker first seen.
IsNews(w) ==
  /\ NextTile(w) # None /\ tile[w] # None /\ NextTile(w).phase = "failed"
  /\ tile[w].phase # "failed" \/ tile[w].inc # NextTile(w).inc

\* The metadata of every member is projected again, what is still authorized
\* is carried forward, and the capture thread is asked unless it is behind.
\* By hand ("r") the surface also asks for every sample again.
Refresh(byHand) ==
  /\ Free /\ grouped
  /\ tile' = [w \in Workers |-> NextTile(w)]
  /\ seen' = [w \in Workers |-> Authority(w)]
  /\ bound' = [w \in Workers |-> IF member[w].in THEN NextBound(w) ELSE None]
  /\ IF byHand THEN Counts /\ mark' = NoTiles ELSE UNCHANGED <<moves, mark>>
  /\ asked' = IF asked # None THEN asked
              ELSE [visible |-> Fallback(tile'),
                    prints |-> [w \in {v \in Fallback(tile') : Authority(v) # None} |-> Authority(w)]]
  /\ told' = [w \in Workers |-> IF IsNews(w) THEN [told[w] EXCEPT ![work[w].inc] = @ + 1]
                                            ELSE told[w]]
  /\ shownLive' = [w \in Workers |->
       CASE tile'[w] = None -> {}
         [] tile'[w] # None /\ Agent(w).live ->
              shownLive[w] \cup {<<tile'[w].inc, Resolved(w).pane.occupant>>}
         [] OTHER -> shownLive[w]]
  /\ UNCHANGED <<world, surface, reading, captured, sampler>>

\* A refresh, or a merge, that finds the group deleted closes the surface.
FindDeleted == Free /\ ~grouped /\ Close

\* What one capture makes of a tile.
Captured(t, outcome, auth, prompted) ==
  CASE outcome = "ready" ->
         [t EXCEPT !.text = [auth |-> auth, by |-> "capture"],
                   !.status = "Ready", !.observed = TRUE]
    [] outcome = "unavailable" /\ t.text # None /\ t.observed ->
         [t EXCEPT !.agent = "stale", !.reason = "Retained", !.status = "Stale"]
    [] OTHER ->
         [t EXCEPT !.text = None, !.status = "Unavailable",
                   !.agent = IF prompted THEN "unreachable" ELSE @]

\* An answer for another set of tiles is dropped; of the others only what was
\* read under the authorization in force now is merged.
MergeCapture ==
  /\ Free /\ grouped /\ captured # <<>>
  /\ LET result == Head(captured)
         Takes(w) == /\ result.visible = Fallback(tile) /\ w \in DOMAIN result.got
                     /\ Authority(w) = result.got[w].auth IN
     tile' = [w \in Workers |->
       IF Takes(w) /\ tile[w] # None
       THEN Captured(tile[w], result.got[w].outcome, result.got[w].auth, w \in Prompted)
       ELSE tile[w]]
  /\ captured' = Tail(captured)
  /\ UNCHANGED <<world, moves, surface, seen, bound, mark, told, shownLive, reading,
                 asked, sampler>>

\* The tiles whose sample was never taken, is of another state, or has aged.
NeedsSample(w) ==
  /\ tile[w] # None /\ CanObserve(tile[w])
  /\ mark[w] # tile[w].agent

\* The mark is set when a sample is asked for, and the request dropped when
\* one is queued already.
AskSamples ==
  /\ Free
  /\ LET needed == {w \in Workers : NeedsSample(w)} IN
     /\ needed # {}
     /\ mark' = [w \in Workers |-> IF w \in needed THEN tile[w].agent ELSE mark[w]]
     /\ wanted' = IF wanted = {} THEN needed ELSE wanted
  /\ UNCHANGED <<world, moves, surface, tile, seen, bound, told, shownLive, reading,
                 capturer, sampling, samples>>

ReadBy(t, by, auth) == [t EXCEPT !.text = [auth |-> auth, by |-> by], !.status = "Ready"]

\* A sample goes to the tile of its worker, whatever happened meanwhile.
MergeSample ==
  /\ Free /\ samples # <<>>
  /\ LET s == Head(samples) IN
     tile' = IF tile[s.worker] = None THEN tile
             ELSE [tile EXCEPT ![s.worker] = ReadBy(@, "sample", s.auth)]
  /\ samples' = Tail(samples)
  /\ UNCHANGED <<world, moves, surface, seen, bound, mark, told, shownLive, reading,
                 capturer, wanted, sampling>>

\* "v": the surface authorizes a read of the worker and waits for Herdr.
StartRead(w) ==
  /\ Free /\ Counts /\ tile[w] # None /\ CanObserve(tile[w]) /\ MayRead(w)
  /\ reading' = [worker |-> w, auth |-> Authority(w)]
  /\ UNCHANGED <<world, surface, shown, capturer, sampler>>

FinishRead ==
  /\ surface = "open" /\ reading # None /\ reading' = None
  /\ \/ UNCHANGED tile
     \/ /\ reachable /\ tile[reading.worker] # None
        /\ tile' = [tile EXCEPT ![reading.worker] = ReadBy(@, "read", reading.auth)]
  /\ UNCHANGED <<world, moves, surface, seen, bound, mark, told, shownLive, capturer, sampler>>

\* "Enter": the worker is opened in a pane of its own, labelled with its
\* membership, and who was remembered for it is forgotten.  An open that
\* fails changes nothing here.
Open(w) ==
  /\ Free /\ Counts /\ tile[w] # None /\ CanOpen(tile[w])
  /\ grouped /\ member[w].in /\ work[w].phase = "running" /\ reachable
  /\ Cardinality(panes[w]) < 2
  /\ \E o \in Occupants \ {p.occupant : p \in panes[w]} :
       panes' = [panes EXCEPT
         ![w] = @ \cup {[occupant |-> o, member |-> member[w].id, status |-> "working"]}]
  /\ bound' = [bound EXCEPT ![w] = None]
  /\ shownLive' = [shownLive EXCEPT ![w] = {}]
  /\ UNCHANGED <<grouped, member, work, reachable, surface, tile, seen, mark, told,
                 reading, capturer, sampler>>

---------------------------------------------------------------------------
(* The capture thread: one request at a time, every answer in one message. *)
(* How long a request is under way is told apart by nothing from how long  *)
(* its answer waits in the channel, so taking and answering are one step.  *)

\* tmux answers for each worker the request may capture, and only for the
\* exact incarnation that was asked about.
Capture ==
  /\ surface = "open" /\ asked # None /\ Len(captured) < MaxResults
  /\ \E outcome \in [DOMAIN asked.prints -> {"ready", "unavailable"}] :
       /\ \A w \in DOMAIN outcome : outcome[w] = "ready" => work[w].inc = asked.prints[w].inc
       /\ captured' = Append(captured,
            [visible |-> asked.visible,
             got |-> [w \in DOMAIN outcome |-> [auth |-> asked.prints[w], outcome |-> outcome[w]]]])
  /\ asked' = None
  /\ UNCHANGED <<world, moves, surface, shown, reading, sampler>>

---------------------------------------------------------------------------
(* The preview thread: one worker after another is authorized against the  *)
(* state and the panes of the moment, and read; a sample that cannot be    *)
(* taken leaves no trace.  How long an answer is under way is told apart   *)
(* from how long it waits in the channel by nothing, so it is one step.    *)

TakeSamples ==
  /\ surface = "open" /\ wanted # {} /\ sampling = {}
  /\ sampling' = wanted /\ wanted' = {}
  /\ UNCHANGED <<world, moves, surface, shown, reading, capturer, samples>>

Sample(w) ==
  /\ surface = "open" /\ w \in sampling /\ Len(samples) < MaxResults
  /\ samples' = IF MayRead(w) THEN Append(samples, [worker |-> w, auth |-> Authority(w)])
                             ELSE samples
  /\ sampling' = sampling \ {w}
  /\ UNCHANGED <<world, moves, surface, shown, reading, capturer, wanted>>

---------------------------------------------------------------------------
Surroundings ==
  \/ \E w \in Workers : EditGroup(w) \/ WorkMoves(w) \/ PaneMoves(w)
  \/ DeleteGroup \/ HerdrMoves

Next ==
  \/ Surroundings
  \/ \E byHand \in BOOLEAN : Refresh(byHand)
  \/ FindDeleted \/ Leave \/ MergeCapture \/ AskSamples \/ MergeSample \/ FinishRead
  \/ \E w \in Workers : StartRead(w) \/ Open(w) \/ SampleAges(w) \/ Sample(w)
  \/ Capture \/ TakeSamples

Spec == Init /\ [][Next]_vars

\* The surface's loop comes by the clock, both channels and the marks on every
\* pass, before it looks at the next key; an explicit read and every request
\* to Herdr or tmux has a deadline, and only bounded many keys start one; the
\* threads take what they are sent; windows pass.
\* Nobody has to press a key, and the surroundings need not move.
Fairness ==
  /\ WF_vars(Refresh(FALSE)) /\ WF_vars(FindDeleted \/ FinishRead)
  /\ WF_vars(MergeCapture) /\ WF_vars(MergeSample) /\ WF_vars(AskSamples)
  /\ WF_vars(Capture) /\ WF_vars(TakeSamples) /\ \A w \in Workers : WF_vars(Sample(w))
  /\ \A w \in Workers : WF_vars(SampleAges(w))

LiveSpec == Spec /\ Fairness

---------------------------------------------------------------------------
(* Properties.                                                             *)

Prints == [member : 1..MaxMemberships, inc : 1..MaxIncarnations]
Texts == [auth : Prints, by : {"capture", "read", "sample"}]

\* Every variable has its type; the optional parts may be missing.
TypeOK ==
  /\ grouped \in BOOLEAN /\ reachable \in BOOLEAN /\ moves \in 0..MaxMoves
  /\ surface \in {"open", "closed"}
  /\ member \in [Workers -> [in : BOOLEAN, id : 1..MaxMemberships, observe : BOOLEAN]]
  /\ work \in [Workers -> [phase : {"starting", "running", "failed", "over"},
                           inc : 1..MaxIncarnations]]
  /\ \A w \in Workers :
       /\ panes[w] \subseteq [occupant : Occupants, member : 1..MaxMemberships,
                              status : {"working", "blocked"}]
       /\ seen[w] \in Prints \cup {None}
       /\ tile[w] # None => /\ tile[w].text \in Texts \cup {None}
                            /\ tile[w].live \in BOOLEAN /\ tile[w].observed \in BOOLEAN
                            /\ tile[w].status \in {"Loading", "Ready", "Unavailable", "Stale"}
       /\ told[w] \in [1..MaxIncarnations -> Nat]
  /\ Len(captured) <= MaxResults /\ Len(samples) <= MaxResults

\* What a refresh leaves on a tile may still be read: every text belongs to a
\* worker that is in the group, observable and running, and a capture or an
\* explicit read was made under exactly the membership and the incarnation
\* this refresh found.  (A sample may be older: MergeSample compares nothing.)
RefreshesShowTheirOwn ==
  [][(\E byHand \in BOOLEAN : Refresh(byHand)) =>
       \A w \in Workers : tile'[w] # None /\ tile'[w].text # None =>
         /\ Authority(w) # None
         /\ tile'[w].text.by # "sample" => tile'[w].text.auth = Authority(w)]_vars

\* Between two opens, one incarnation is shown live with one occupant: a pane
\* somebody else took is never taken for the agent, however the connection,
\* the pane or the membership went and came back meanwhile.
OneOccupantIsLive ==
  \A w \in Workers : \A a, b \in shownLive[w] : a[1] = b[1] => a[2] = b[2]

\* A failing end is announced at most once, whatever else the worker's
\* membership, connection and record go through.
FailuresAreToldOnce ==
  \A w \in Workers : \A i \in 1..MaxIncarnations : told[w][i] <= 1

\* A tile that stays live and observable shows output at last: a sample that
\* failed or was dropped is asked for again when its window has passed.
LiveTilesGetOutput ==
  \A w \in Workers :
    <>[](surface = "open" /\ MayRead(w) /\ tile[w] # None /\ CanObserve(tile[w]))
      => <>[](surface = "open" /\ tile[w] # None /\ tile[w].text # None)
=============================================================================
