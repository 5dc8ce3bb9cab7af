----------------------- MODULE ObserverSurfaceProofs -----------------------
(***************************************************************************)
(* Proofs about the observer surface, for any workers, any occupants and   *)
(* every value of the bounds: with one invariant, SurfaceInv, who is shown *)
(* live, which failing ends are told, and what a refresh leaves on a tile. *)
(*                                                                         *)
(* Nothing is assumed of the threads or of the surroundings; an answer may *)
(* come as late as it likes.  What is needed of a tile is its domain, so   *)
(* that an EXCEPT changes what it names.                                   *)
(***************************************************************************)
EXTENDS ObserverSurface, SequenceTheorems, TLAPS

\* A tile has its fields, whatever they hold.
Fields == {"phase", "inc", "observe", "agent", "live", "reason", "observed", "text", "status"}

IsTile(t) == DOMAIN t = Fields

\* No merge touches what a tile says of the work.
LEMMA CapturedKeeps ==
  ASSUME NEW t, IsTile(t), NEW outcome, NEW auth, NEW prompted
  PROVE  /\ IsTile(Captured(t, outcome, auth, prompted))
         /\ Captured(t, outcome, auth, prompted).phase = t.phase
         /\ Captured(t, outcome, auth, prompted).inc = t.inc
         /\ Captured(t, outcome, auth, prompted).text
              \in {None, t.text, [auth |-> auth, by |-> "capture"]}
BY DEF Captured, IsTile, Fields

LEMMA ReadByKeeps ==
  ASSUME NEW t, IsTile(t), NEW by, NEW auth
  PROVE  /\ IsTile(ReadBy(t, by, auth))
         /\ ReadBy(t, by, auth).phase = t.phase
         /\ ReadBy(t, by, auth).inc = t.inc
         /\ ReadBy(t, by, auth).text = [auth |-> auth, by |-> by]
BY DEF ReadBy, IsTile, Fields

LEMMA ProjectionSays ==
  ASSUME NEW w \in Workers
  PROVE  /\ IsTile(Projection(w))
         /\ Projection(w).phase = work[w].phase
         /\ Projection(w).inc = Incarnation(w)
         /\ Projection(w).text = None
BY DEF Projection, IsTile, Fields

LEMMA CarryForwardKeeps ==
  ASSUME NEW t, IsTile(t), NEW old
  PROVE  /\ IsTile(CarryForward(t, old))
         /\ CarryForward(t, old).phase = t.phase
         /\ CarryForward(t, old).inc = t.inc
         /\ CarryForward(t, old).text = old.text
BY DEF CarryForward, IsTile, Fields

LEMMA UpdateKeeps ==
  ASSUME NEW t, IsTile(t), NEW old
  PROVE  /\ IsTile(Update(t, old))
         /\ Update(t, old).phase = t.phase
         /\ Update(t, old).inc = t.inc
         /\ Update(t, old).text = t.text
BY DEF Update, IsTile, Fields

LEMMA NextTileSays ==
  ASSUME NEW w \in Workers, NextTile(w) # None
  PROVE  /\ member[w].in
         /\ IsTile(NextTile(w))
         /\ NextTile(w).phase = work[w].phase
         /\ NextTile(w).inc = Incarnation(w)
         /\ NextTile(w).text # None =>
              tile[w] # None /\ SameEpoch(w) /\ NextTile(w).text = tile[w].text
<1>1. CASE tile[w] = None
  BY <1>1, ProjectionSays DEF NextTile
<1>2. CASE tile[w] # None /\ SameEpoch(w) /\ tile[w].text # None
  <2>1. NextTile(w) = CarryForward(Projection(w), tile[w]) /\ member[w].in
    BY <1>2 DEF NextTile
  <2> QED
    BY <1>2, <2>1, ProjectionSays, CarryForwardKeeps
<1>3. CASE tile[w] # None /\ ~(SameEpoch(w) /\ tile[w].text # None)
  <2>1. /\ member[w].in
        /\ \E old : NextTile(w) = Update(Projection(w), old)
    BY <1>3 DEF NextTile
  <2> QED
    BY <2>1, ProjectionSays, UpdateKeeps
<1> QED
  BY <1>1, <1>2, <1>3

-----------------------------------------------------------------------------
(* What holds of the surface and of what it was told. *)

WorldOK ==
  /\ member \in [Workers -> [in : BOOLEAN, id : 1..MaxMemberships, observe : BOOLEAN]]
  /\ work \in [Workers -> [phase : {"starting", "running", "failed", "over"},
                           inc : 1..MaxIncarnations]]

PanesOK ==
  panes \in [Workers -> SUBSET [occupant : Occupants, member : 1..MaxMemberships,
                                status : {"working", "blocked"}]]

TilesOK ==
  /\ tile = [w \in Workers |-> tile[w]]
  /\ \A w \in Workers : tile[w] # None => IsTile(tile[w])

\* An authorization is of now or of before.
IsPast(w, auth) ==
  /\ auth \in Prints
  /\ auth.member <= member[w].id /\ auth.inc <= work[w].inc

\* An authorization is no older than the last refresh.
IsRecent(w, auth) ==
  /\ IsPast(w, auth)
  /\ seen[w] # None => seen[w].member <= auth.member /\ seen[w].inc <= auth.inc

SeenOK == \A w \in Workers : seen[w] # None => IsPast(w, seen[w])

TextsOK ==
  \A w \in Workers :
    tile[w] # None =>
      (tile[w].text # None => (tile[w].text.by # "sample" => IsRecent(w, tile[w].text.auth)))

ReadingOK ==
  reading # None => reading.worker \in Workers /\ IsRecent(reading.worker, reading.auth)

\* Output is asked for, and answered, under authorizations only.
Requests ==
  [visible : SUBSET Workers, prints : UNION {[W -> Prints] : W \in SUBSET Workers}]

Results ==
  [visible : SUBSET Workers,
   got : UNION {[W -> [auth : Prints, outcome : {"ready", "unavailable"}]] : W \in SUBSET Workers}]

AskedOK == asked # None => asked \in Requests

CapturedOK == captured \in Seq(Results)

\* A failing end that was told of is the last of its incarnation, and whoever
\* shows the worker shows that end.
ToldOK ==
  /\ told \in [Workers -> [1..MaxIncarnations -> Nat]]
  /\ \A w \in Workers : \A i \in 1..MaxIncarnations :
       /\ told[w][i] <= 1
       /\ i > work[w].inc => told[w][i] = 0
       /\ told[w][i] # 0 /\ i = work[w].inc =>
            /\ work[w].phase = "failed"
            /\ tile[w] # None => tile[w].phase = "failed" /\ tile[w].inc = i

\* Whoever was shown live in the incarnation that runs is remembered for it.
OccupantsOK ==
  /\ DOMAIN bound = Workers /\ DOMAIN shownLive = Workers
  /\ OneOccupantIsLive
  /\ surface = "open" =>
       \A w \in Workers : \A p \in shownLive[w] :
         /\ p[1] \in Nat /\ p[1] <= work[w].inc
         /\ p[1] = work[w].inc =>
              /\ bound[w] # None
              /\ bound[w].inc = p[1] /\ bound[w].occupant = p[2]
              /\ p[2] # None

SurfaceInv ==
  /\ WorldOK /\ PanesOK /\ TilesOK
  /\ SeenOK /\ TextsOK /\ ReadingOK /\ AskedOK /\ CapturedOK
  /\ ToldOK /\ OccupantsOK

-----------------------------------------------------------------------------
(* The surroundings move. *)

\* Memberships and incarnations are only ever counted up, and a failing end is
\* the last of its incarnation.
WorldAdvances ==
  \A w \in Workers :
    /\ member[w].id <= member'[w].id
    /\ \/ /\ work'[w].inc = work[w].inc
          /\ work[w].phase = "failed" => work'[w].phase = "failed"
       \/ work'[w].inc > work[w].inc

LEMMA StillWorld ==
  ASSUME WorldOK, UNCHANGED <<member, work>>
  PROVE  WorldOK' /\ WorldAdvances
BY DEF WorldOK, WorldAdvances

LEMMA EditAdvances ==
  ASSUME WorldOK, NEW w \in Workers, EditGroup(w)
  PROVE  WorldOK' /\ WorldAdvances
<1> DEFINE Members == [in : BOOLEAN, id : 1..MaxMemberships, observe : BOOLEAN]
<1>1. /\ UNCHANGED work
      /\ member \in [Workers -> Members] /\ member[w] \in Members
      /\ member[w].id \in Nat
  BY DEF EditGroup, WorldOK
<1>2. ASSUME NEW m \in Members, m.id >= member[w].id, member' = [member EXCEPT ![w] = m]
      PROVE  WorldOK' /\ WorldAdvances
  BY <1>1, <1>2 DEF WorldOK, WorldAdvances
<1>3. CASE member' = [member EXCEPT ![w].in = FALSE]
  <2> DEFINE out == FALSE
             m == [member[w] EXCEPT !.in = out]
  <2>1. member' = [member EXCEPT ![w] = m] /\ out \in BOOLEAN
    BY <1>1, <1>3
  <2> HIDE DEF out
  <2>2. m \in Members /\ m.id >= member[w].id
    BY <1>1, <2>1
  <2> HIDE DEF m
  <2> QED
    BY <1>2, <2>1, <2>2
<1>4. CASE /\ member[w].id < MaxMemberships
           /\ member' = [member EXCEPT ![w].in = TRUE, ![w].id = @ + 1]
  <2> DEFINE id == member[w].id + 1
             m == [member[w] EXCEPT !.in = TRUE, !.id = id]
  <2>1. id \in 1..MaxMemberships /\ id >= member[w].id
    BY <1>1, <1>4, ConstantsOK
  <2>2. member' = [member EXCEPT ![w] = m]
    BY <1>1, <1>4
  <2> HIDE DEF id
  <2>3. m \in Members /\ m.id = id
    BY <1>1, <2>1
  <2> HIDE DEF m
  <2> QED
    BY <1>2, <2>1, <2>2, <2>3
<1>5. CASE member' = [member EXCEPT ![w].observe = ~@]
  <2> DEFINE flipped == ~member[w].observe
             m == [member[w] EXCEPT !.observe = flipped]
  <2>1. flipped \in BOOLEAN
    OBVIOUS
  <2>2. member' = [member EXCEPT ![w] = m]
    BY <1>1, <1>5
  <2> HIDE DEF flipped
  <2>3. m \in Members /\ m.id >= member[w].id
    BY <1>1, <2>1
  <2> HIDE DEF m
  <2> QED
    BY <1>2, <2>2, <2>3
<1> QED
  BY <1>3, <1>4, <1>5 DEF EditGroup

LEMMA WorkAdvances ==
  ASSUME WorldOK, NEW w \in Workers, WorkMoves(w)
  PROVE  WorldOK' /\ WorldAdvances
<1> DEFINE Works == [phase : {"starting", "running", "failed", "over"},
                     inc : 1..MaxIncarnations]
<1>1. /\ UNCHANGED member
      /\ work \in [Workers -> Works] /\ work[w] \in Works
      /\ work[w].inc \in Nat
  BY DEF WorkMoves, WorldOK
<1>2. ASSUME NEW now \in Works, work' = [work EXCEPT ![w] = now],
             \/ now.inc = work[w].inc /\ work[w].phase # "failed"
             \/ now.inc > work[w].inc
      PROVE  WorldOK' /\ WorldAdvances
  BY <1>1, <1>2 DEF WorldOK, WorldAdvances
<1>3. ASSUME NEW to \in {"failed", "over", "running"}, work[w].phase # "failed",
             work' = [work EXCEPT ![w].phase = to]
      PROVE  WorldOK' /\ WorldAdvances
  <2> DEFINE now == [work[w] EXCEPT !.phase = to]
  <2>1. now \in Works /\ now.inc = work[w].inc /\ work' = [work EXCEPT ![w] = now]
    BY <1>1, <1>3
  <2> HIDE DEF now
  <2> QED
    BY <1>2, <1>3, <2>1
<1>4. CASE /\ work[w].inc < MaxIncarnations
           /\ work' = [work EXCEPT ![w].phase = "starting", ![w].inc = @ + 1]
  <2> DEFINE inc == work[w].inc + 1
             now == [work[w] EXCEPT !.phase = "starting", !.inc = inc]
  <2>1. inc \in 1..MaxIncarnations /\ inc > work[w].inc
    BY <1>1, <1>4, ConstantsOK
  <2>2. work' = [work EXCEPT ![w] = now]
    BY <1>1, <1>4
  <2> HIDE DEF inc
  <2>3. now \in Works /\ now.inc = inc
    BY <1>1, <2>1
  <2> HIDE DEF now
  <2> QED
    BY <1>2, <2>1, <2>2, <2>3
<1> QED
  BY <1>3, <1>4 DEF WorkMoves

\* A pane that appears is labelled with the worker's membership.
LEMMA PaneAppears ==
  ASSUME WorldOK, PanesOK, NEW w \in Workers, NEW o \in Occupants,
         panes' = [panes EXCEPT
           ![w] = @ \cup {[occupant |-> o, member |-> member[w].id, status |-> "working"]}]
  PROVE  PanesOK'
<1> DEFINE Panes == [occupant : Occupants, member : 1..MaxMemberships,
                     status : {"working", "blocked"}]
           q == [occupant |-> o, member |-> member[w].id, status |-> "working"]
<1>1. panes[w] \cup {q} \in SUBSET Panes
  BY DEF PanesOK, WorldOK
<1> QED
  BY <1>1 DEF PanesOK

\* A pane that changes keeps its label.
LEMMA PanesMove ==
  ASSUME WorldOK, PanesOK, NEW w \in Workers, PaneMoves(w)
  PROVE  PanesOK'
<1> DEFINE Panes == [occupant : Occupants, member : 1..MaxMemberships,
                     status : {"working", "blocked"}]
<1>1. panes[w] \subseteq Panes /\ member[w].id \in 1..MaxMemberships
  BY DEF PanesOK, WorldOK
<1>2. ASSUME NEW Q \in SUBSET Panes, panes' = [panes EXCEPT ![w] = Q]
      PROVE  PanesOK'
  BY <1>2 DEF PanesOK
<1>3. CASE \E p \in panes[w] : panes' = [panes EXCEPT ![w] = @ \ {p}]
  <2>1. PICK p \in panes[w] : panes' = [panes EXCEPT ![w] = panes[w] \ {p}]
    BY <1>3
  <2>2. panes[w] \ {p} \in SUBSET Panes
    BY <1>1
  <2> QED
    BY <1>2, <2>1, <2>2
<1>4. CASE \E o \in Occupants :
             panes' = [panes EXCEPT
               ![w] = @ \cup {[occupant |-> o, member |-> member[w].id, status |-> "working"]}]
  BY <1>4, PaneAppears
<1>5. CASE \E p \in panes[w], o \in Occupants :
             panes' = [panes EXCEPT ![w] = (@ \ {p}) \cup {[p EXCEPT !.occupant = o]}]
  <2>1. PICK p \in panes[w], o \in Occupants :
          panes' = [panes EXCEPT ![w] = (panes[w] \ {p}) \cup {[p EXCEPT !.occupant = o]}]
    BY <1>5
  <2> DEFINE q == [p EXCEPT !.occupant = o]
  <2>2. q \in Panes
    BY <1>1
  <2> HIDE DEF q
  <2>3. (panes[w] \ {p}) \cup {q} \in SUBSET Panes
    BY <1>1, <2>2
  <2> QED
    BY <1>2, <2>1, <2>3 DEF q
<1>6. CASE \E p \in panes[w] :
             panes' = [panes EXCEPT ![w] = (@ \ {p}) \cup
               {[p EXCEPT !.status = IF @ = "working" THEN "blocked" ELSE "working"]}]
  <2>1. PICK p \in panes[w] :
          panes' = [panes EXCEPT ![w] = (panes[w] \ {p}) \cup
            {[p EXCEPT !.status = IF @ = "working" THEN "blocked" ELSE "working"]}]
    BY <1>6
  <2> DEFINE q == [p EXCEPT !.status = IF @ = "working" THEN "blocked" ELSE "working"]
  <2>2. q \in Panes
    BY <1>1
  <2> HIDE DEF q
  <2>3. (panes[w] \ {p}) \cup {q} \in SUBSET Panes
    BY <1>1, <2>2
  <2> QED
    BY <1>2, <2>1, <2>3 DEF q
<1> QED
  BY <1>3, <1>4, <1>5, <1>6 DEF PaneMoves

LEMMA SurroundingsAdvance ==
  ASSUME WorldOK, PanesOK, Surroundings
  PROVE  /\ WorldOK' /\ WorldAdvances /\ PanesOK'
         /\ UNCHANGED <<surface, tile, seen, bound, told, shownLive, reading, asked, captured>>
<1>1. UNCHANGED <<surface, tile, seen, bound, told, shownLive, reading, asked, captured>>
  BY DEF Surroundings, EditGroup, WorkMoves, PaneMoves, DeleteGroup, HerdrMoves, Moves,
     shown, capturer
<1>2. CASE \E w \in Workers : EditGroup(w) \/ WorkMoves(w)
  <2>1. UNCHANGED panes
    BY <1>2 DEF EditGroup, WorkMoves
  <2> QED
    BY <1>1, <1>2, <2>1, EditAdvances, WorkAdvances DEF PanesOK
<1>3. CASE DeleteGroup \/ HerdrMoves \/ \E w \in Workers : PaneMoves(w)
  <2>1. UNCHANGED <<member, work>> /\ (UNCHANGED panes \/ \E w \in Workers : PaneMoves(w))
    BY <1>3 DEF PaneMoves, DeleteGroup, HerdrMoves
  <2>2. PanesOK'
    BY <2>1, PanesMove DEF PanesOK
  <2> QED
    BY <1>1, <2>1, <2>2, StillWorld
<1> QED
  BY <1>2, <1>3 DEF Surroundings

\* What is past stays past while the world moves.
PastNext(w, auth) ==
  /\ auth \in Prints
  /\ auth.member <= member'[w].id /\ auth.inc <= work'[w].inc

LEMMA PastStays ==
  ASSUME WorldOK, WorldOK', WorldAdvances, NEW w \in Workers, NEW auth, IsPast(w, auth)
  PROVE  PastNext(w, auth)
<1>1. /\ auth.member \in Nat /\ auth.inc \in Nat
      /\ member[w].id \in Nat /\ member'[w].id \in Nat
      /\ work[w].inc \in Nat /\ work'[w].inc \in Nat
  BY DEF WorldOK, IsPast, Prints
<1> QED
  BY <1>1 DEF WorldAdvances, IsPast, PastNext

\* The surroundings move beneath the surface, which keeps what it knows.
LEMMA WorldStep ==
  ASSUME SurfaceInv, WorldOK', PanesOK', WorldAdvances,
         UNCHANGED <<surface, tile, seen, bound, told, shownLive, reading, asked, captured>>
  PROVE  SurfaceInv'
<1> USE DEF SurfaceInv
<1>1. TilesOK' /\ AskedOK' /\ CapturedOK'
  BY DEF TilesOK, AskedOK, CapturedOK
<1>2. SeenOK'
  BY PastStays DEF SeenOK, PastNext, IsPast
<1>3. ASSUME NEW w \in Workers, NEW auth, IsRecent(w, auth)
      PROVE  PastNext(w, auth) /\ (seen[w] # None => seen[w].member <= auth.member
                                                  /\ seen[w].inc <= auth.inc)
  BY <1>3, PastStays DEF IsRecent
<1>4. TextsOK'
  BY <1>3 DEF TextsOK, IsRecent, PastNext, IsPast
<1>5. ReadingOK'
  BY <1>3 DEF ReadingOK, IsRecent, PastNext, IsPast
<1>6. ToldOK'
  <2>1. ASSUME NEW w \in Workers, NEW i \in 1..MaxIncarnations
        PROVE  /\ told[w][i] <= 1
               /\ i > work'[w].inc => told[w][i] = 0
               /\ told[w][i] # 0 /\ i = work'[w].inc =>
                    /\ work'[w].phase = "failed"
                    /\ tile[w] # None => tile[w].phase = "failed" /\ tile[w].inc = i
    <3>1. work[w].inc \in Nat /\ work'[w].inc \in Nat /\ i \in Nat
      BY DEF WorldOK
    <3> QED
      BY <3>1 DEF ToldOK, WorldAdvances
  <2> QED
    BY <2>1 DEF ToldOK
<1>7. OccupantsOK'
  <2>1. ASSUME surface = "open", NEW w \in Workers, NEW p \in shownLive[w]
        PROVE  /\ p[1] \in Nat /\ p[1] <= work'[w].inc
               /\ p[1] = work'[w].inc =>
                    /\ bound[w] # None
                    /\ bound[w].inc = p[1] /\ bound[w].occupant = p[2]
                    /\ p[2] # None
    <3>1. work[w].inc \in Nat /\ work'[w].inc \in Nat
      BY DEF WorldOK
    <3> QED
      BY <2>1, <3>1 DEF OccupantsOK, WorldAdvances
  <2> QED
    BY <2>1 DEF OccupantsOK, OneOccupantIsLive
<1> QED
  BY <1>1, <1>2, <1>4, <1>5, <1>6, <1>7

-----------------------------------------------------------------------------
(* The surface closes or refreshes. *)

LEMMA CloseStep ==
  ASSUME SurfaceInv, Close
  PROVE  SurfaceInv'
<1> USE DEF SurfaceInv, Close, world, NoTiles
<1>1. WorldOK' /\ PanesOK' /\ TilesOK' /\ SeenOK' /\ TextsOK' /\ ReadingOK' /\ AskedOK'
  BY DEF WorldOK, PanesOK, TilesOK, SeenOK, TextsOK, ReadingOK, AskedOK
<1>2. CapturedOK'
  BY EmptySeq DEF CapturedOK
<1>3. ToldOK'
  BY DEF ToldOK
<1>4. OccupantsOK'
  BY DEF OccupantsOK, OneOccupantIsLive
<1> QED
  BY <1>1, <1>2, <1>3, <1>4

\* Output may only be read under the membership and the incarnation of now.
LEMMA AuthorityIsNow ==
  ASSUME WorldOK, NEW w \in Workers, Authority(w) # None
  PROVE  /\ IsPast(w, Authority(w))
         /\ Authority(w).member = member[w].id /\ Authority(w).inc = work[w].inc
<1>1. Authority(w) = [member |-> member[w].id, inc |-> work[w].inc]
  BY DEF Authority
<1>2. /\ member[w].id \in 1..MaxMemberships /\ work[w].inc \in 1..MaxIncarnations
      /\ member[w].id \in Nat /\ work[w].inc \in Nat
  BY ConstantsOK DEF WorldOK
<1> QED
  BY <1>1, <1>2 DEF IsPast, Prints

\* Output that a refresh keeps was read under the authorization of now.
LEMMA KeptTextIsCurrent ==
  ASSUME SurfaceInv, NEW w \in Workers, NextTile(w) # None, NextTile(w).text # None
  PROVE  /\ Authority(w) # None
         /\ NextTile(w).text.by # "sample" =>
              /\ IsPast(w, NextTile(w).text.auth)
              /\ NextTile(w).text.auth = Authority(w)
<1>1. /\ tile[w] # None /\ seen[w] # None /\ seen[w] = Authority(w)
      /\ NextTile(w).text = tile[w].text
  BY NextTileSays DEF SameEpoch
<1>2. /\ Authority(w) # None
      /\ Authority(w) = [member |-> member[w].id, inc |-> work[w].inc]
  BY <1>1 DEF Authority
<1>3. ASSUME NextTile(w).text.by # "sample"
      PROVE  NextTile(w).text.auth = Authority(w) /\ IsPast(w, NextTile(w).text.auth)
  <2> DEFINE auth == tile[w].text.auth
  <2>1. IsRecent(w, auth)
    BY <1>1, <1>3 DEF SurfaceInv, TextsOK
  <2>2. /\ auth \in Prints /\ auth.member \in Nat /\ auth.inc \in Nat
        /\ member[w].id \in Nat /\ work[w].inc \in Nat
    BY <2>1 DEF IsRecent, IsPast, Prints, SurfaceInv, WorldOK
  <2>3. auth.member = member[w].id /\ auth.inc = work[w].inc
    BY <1>1, <1>2, <2>1, <2>2 DEF IsRecent, IsPast
  <2>4. auth = [member |-> auth.member, inc |-> auth.inc]
    BY <2>2 DEF Prints
  <2> HIDE DEF auth
  <2>5. auth = Authority(w) /\ IsPast(w, auth)
    BY <1>2, <2>1, <2>3, <2>4 DEF IsRecent
  <2> QED
    BY <1>1, <2>5 DEF auth
<1> QED
  BY <1>2, <1>3

LEMMA RefreshTexts ==
  ASSUME SurfaceInv, NEW byHand \in BOOLEAN, Refresh(byHand)
  PROVE  /\ WorldOK' /\ PanesOK' /\ TilesOK'
         /\ SeenOK' /\ TextsOK' /\ ReadingOK' /\ AskedOK' /\ CapturedOK'
<1>1. /\ UNCHANGED <<member, work, panes, reading, captured>>
      /\ tile' = [w \in Workers |-> NextTile(w)]
      /\ seen' = [w \in Workers |-> Authority(w)]
  BY DEF Refresh, world
<1>2. WorldOK' /\ PanesOK' /\ ReadingOK' /\ CapturedOK'
  <2>1. reading = None
    BY DEF Refresh, Free
  <2> QED
    BY <1>1, <2>1 DEF WorldOK, PanesOK, ReadingOK, CapturedOK, SurfaceInv
<1>3. TilesOK'
  BY <1>1, NextTileSays DEF TilesOK
<1>4. SeenOK'
  BY <1>1, AuthorityIsNow DEF SurfaceInv, SeenOK, IsPast
<1>5. TextsOK'
  <2>1. ASSUME NEW w \in Workers, NextTile(w) # None, NextTile(w).text # None,
               NextTile(w).text.by # "sample"
        PROVE  /\ IsPast(w, NextTile(w).text.auth)
               /\ Authority(w).member <= NextTile(w).text.auth.member
               /\ Authority(w).inc <= NextTile(w).text.auth.inc
    <3>1. IsPast(w, NextTile(w).text.auth) /\ NextTile(w).text.auth = Authority(w)
      BY <2>1, KeptTextIsCurrent
    <3>2. Authority(w).member \in Nat /\ Authority(w).inc \in Nat
      BY <3>1 DEF IsPast, Prints
    <3> QED
      BY <3>1, <3>2
  <2> QED
    BY <1>1, <2>1 DEF TextsOK, IsRecent, IsPast
<1>6. AskedOK'
  <2> DEFINE asking == {v \in Fallback(tile') : Authority(v) # None}
             request == [visible |-> Fallback(tile'), prints |-> [w \in asking |-> Authority(w)]]
  <2>1. asked' \in {asked, request}
    BY DEF Refresh
  <2>2. asking \in SUBSET Workers /\ Fallback(tile') \in SUBSET Workers
    BY DEF Fallback
  <2>3. [w \in asking |-> Authority(w)] \in [asking -> Prints]
    BY <2>2, AuthorityIsNow DEF SurfaceInv, IsPast
  <2>4. request \in Requests
    BY <2>2, <2>3 DEF Requests
  <2> HIDE DEF request
  <2> QED
    BY <2>1, <2>4 DEF SurfaceInv, AskedOK
<1> QED
  BY <1>2, <1>3, <1>4, <1>5, <1>6

\* A refresh tells of a failing end that is news, and of no other.
LEMMA RefreshTells ==
  ASSUME SurfaceInv, NEW byHand \in BOOLEAN, Refresh(byHand)
  PROVE  ToldOK'
<1>1. /\ UNCHANGED work
      /\ tile' = [w \in Workers |-> NextTile(w)]
      /\ told' = [w \in Workers |-> IF IsNews(w) THEN [told[w] EXCEPT ![work[w].inc] = @ + 1]
                                                ELSE told[w]]
  BY DEF Refresh, world
<1>2. ASSUME NEW w \in Workers, NextTile(w) # None
      PROVE  /\ NextTile(w).phase = work[w].phase
             /\ work[w].phase = "failed" => NextTile(w).inc = work[w].inc
  BY <1>2, NextTileSays DEF Incarnation
<1>3. ASSUME NEW w \in Workers, IsNews(w)
      PROVE  told[w][work[w].inc] = 0 /\ work[w].phase = "failed"
  <2>1. /\ NextTile(w) # None /\ tile[w] # None /\ work[w].phase = "failed"
        /\ tile[w].phase # "failed" \/ tile[w].inc # work[w].inc
    BY <1>2, <1>3 DEF IsNews
  <2>2. work[w].inc \in 1..MaxIncarnations
    BY DEF SurfaceInv, WorldOK
  <2> QED
    BY <2>1, <2>2 DEF SurfaceInv, ToldOK
<1>4. ASSUME NEW w \in Workers PROVE told'[w] \in [1..MaxIncarnations -> Nat]
  <2>1. told[w] \in [1..MaxIncarnations -> Nat] /\ work[w].inc \in 1..MaxIncarnations
    BY DEF SurfaceInv, ToldOK, WorldOK
  <2> DEFINE more == told[w][work[w].inc] + 1
  <2>2. more \in Nat
    <3>1. told[w][work[w].inc] \in Nat
      BY <2>1
    <3> QED
      BY <3>1
  <2>3. told'[w] \in {told[w], [told[w] EXCEPT ![work[w].inc] = more]}
    BY <1>1
  <2> HIDE DEF more
  <2> QED
    BY <2>1, <2>2, <2>3
<1>5. ASSUME NEW w \in Workers, NEW i \in 1..MaxIncarnations
      PROVE  /\ told'[w][i] <= 1
             /\ i > work[w].inc => told'[w][i] = 0
             /\ told'[w][i] # 0 /\ i = work[w].inc => work[w].phase = "failed"
  <2>1. /\ told[w] \in [1..MaxIncarnations -> Nat] /\ work[w].inc \in 1..MaxIncarnations
        /\ told[w][i] <= 1
        /\ i > work[w].inc => told[w][i] = 0
        /\ told[w][i] # 0 /\ i = work[w].inc => work[w].phase = "failed"
    BY DEF SurfaceInv, ToldOK, WorldOK
  <2>2. CASE IsNews(w)
    <3>1. /\ told'[w] = [told[w] EXCEPT ![work[w].inc] = told[w][work[w].inc] + 1]
          /\ told[w][work[w].inc] = 0 /\ work[w].phase = "failed"
      BY <1>1, <1>3, <2>2
    <3> QED
      BY <2>1, <3>1
  <2>3. CASE ~IsNews(w)
    BY <1>1, <2>1, <2>3
  <2> QED
    BY <2>2, <2>3
<1>6. ASSUME NEW w \in Workers, work[w].phase = "failed", NextTile(w) # None
      PROVE  NextTile(w).phase = "failed" /\ NextTile(w).inc = work[w].inc
  BY <1>2, <1>6
<1> QED
  BY <1>1, <1>4, <1>5, <1>6 DEF ToldOK

\* Whoever is live sits in a pane.
LEMMA LiveIsSomeone ==
  ASSUME PanesOK, NEW w \in Workers, Agent(w).live
  PROVE  Resolved(w).pane.occupant \in Occupants /\ Resolved(w).pane.occupant # None
<1>1. Resolved(w).pane # None
  BY DEF Agent, AgentOf
<1>2. Resolved(w).pane \in Exact(w)
  BY <1>1 DEF Resolved
<1> QED
  BY <1>2, NothingIsNoOne DEF Exact, PanesOK

\* A refresh shows live only whom it remembers, or remembers from now on.
LEMMA RefreshRemembers ==
  ASSUME SurfaceInv, NEW byHand \in BOOLEAN, Refresh(byHand)
  PROVE  OccupantsOK'
<1>1. /\ UNCHANGED <<member, work, surface>> /\ surface = "open"
      /\ tile' = [w \in Workers |-> NextTile(w)]
      /\ bound' = [w \in Workers |-> IF member[w].in THEN NextBound(w) ELSE None]
      /\ shownLive' = [w \in Workers |->
           CASE tile'[w] = None -> {}
             [] tile'[w] # None /\ Agent(w).live ->
                  shownLive[w] \cup {<<tile'[w].inc, Resolved(w).pane.occupant>>}
             [] OTHER -> shownLive[w]]
  BY DEF Refresh, world, Free
<1> DEFINE Matches(w, p) ==
             /\ bound'[w] # None
             /\ bound'[w].inc = p[1] /\ bound'[w].occupant = p[2] /\ p[2] # None
<1>2. ASSUME NEW w \in Workers, NEW p \in shownLive'[w]
      PROVE  /\ p[1] \in Nat /\ p[1] <= work[w].inc
             /\ p[1] = work[w].inc => Matches(w, p)
             /\ p[1] # work[w].inc => p \in shownLive[w]
  <2>1. work[w].inc \in Nat
    BY DEF SurfaceInv, WorldOK
  <2>2. NextTile(w) # None /\ member[w].in /\ bound'[w] = NextBound(w)
    BY <1>1, <1>2, NextTileSays
  <2>3. CASE p \in shownLive[w] /\ ~Agent(w).live
    BY <1>1, <2>1, <2>2, <2>3 DEF NextBound, SurfaceInv, OccupantsOK
  <2>4. CASE Agent(w).live
    <3> DEFINE who == Resolved(w).pane.occupant
    <3>1. /\ work[w].phase = "running"
          /\ Remembered(w) \in {None, who}
      BY <2>4 DEF Agent, AgentOf
    <3>2. Incarnation(w) = work[w].inc /\ NextTile(w).inc = work[w].inc
      BY <2>2, <3>1, NextTileSays DEF Incarnation
    <3>3. p \in shownLive[w] \/ p = <<work[w].inc, who>>
      BY <1>1, <1>2, <2>2, <2>4, <3>2
    <3>4. who # None
      BY <2>4, LiveIsSomeone DEF SurfaceInv
    <3>5. CASE Remembered(w) = None
      <4>1. bound'[w] = [occupant |-> who, inc |-> work[w].inc]
        BY <2>2, <2>4, <3>2, <3>5 DEF NextBound
      <4>2. bound'[w] # None
        <5>1. who \in Occupants /\ work[w].inc \in 1..MaxIncarnations
          BY <2>4, LiveIsSomeone DEF SurfaceInv, WorldOK
        <5>2. [occupant |-> who, inc |-> work[w].inc]
                \in [occupant : Occupants, inc : 1..MaxIncarnations]
          BY <5>1
        <5> QED
          BY <4>1, <5>2, NothingIsNoOne
      <4>3. ~(p \in shownLive[w] /\ p[1] = work[w].inc)
        BY <1>1, <3>2, <3>5 DEF Remembered, SurfaceInv, OccupantsOK
      <4> QED
        BY <1>1, <2>1, <3>3, <3>4, <4>1, <4>2, <4>3 DEF SurfaceInv, OccupantsOK
    <3>6. CASE Remembered(w) # None
      <4>1. /\ bound'[w] = bound[w] /\ bound[w] # None /\ bound[w].inc = work[w].inc
            /\ bound[w].occupant = who
        BY <2>2, <3>1, <3>2, <3>6 DEF NextBound, Remembered
      <4> QED
        BY <1>1, <2>1, <3>3, <3>4, <4>1 DEF SurfaceInv, OccupantsOK
    <3> QED
      BY <3>5, <3>6
  <2> QED
    BY <1>1, <1>2, <2>2, <2>3, <2>4
<1>3. OneOccupantIsLive'
  <2>1. ASSUME NEW w \in Workers, NEW a \in shownLive'[w], NEW b \in shownLive'[w], a[1] = b[1]
        PROVE  a[2] = b[2]
    <3>1. CASE a[1] = work[w].inc
      BY <1>2, <2>1, <3>1
    <3>2. CASE a[1] # work[w].inc
      BY <1>2, <2>1, <3>2 DEF SurfaceInv, OccupantsOK, OneOccupantIsLive
    <3> QED
      BY <3>1, <3>2
  <2> QED
    BY <2>1 DEF OneOccupantIsLive
<1> HIDE DEF Matches
<1>4. ASSUME NEW w \in Workers, NEW p \in shownLive'[w]
      PROVE  /\ p[1] \in Nat /\ p[1] <= work'[w].inc
             /\ p[1] = work'[w].inc =>
                  /\ bound'[w] # None
                  /\ bound'[w].inc = p[1] /\ bound'[w].occupant = p[2] /\ p[2] # None
  BY <1>1, <1>2 DEF Matches
<1> QED
  BY <1>1, <1>3, <1>4 DEF OccupantsOK

-----------------------------------------------------------------------------
(* Answers are merged, reads are made, workers are opened. *)

\* A step that only puts output on tiles, or takes it off, changes nothing
\* that is said of the work, and nobody's occupant.
LEMMA TileStep ==
  ASSUME SurfaceInv, UNCHANGED <<member, work, panes, surface, seen, bound, told, shownLive>>,
         TilesOK',
         \A w \in Workers : tile'[w] # None =>
           tile[w] # None /\ tile'[w].phase = tile[w].phase /\ tile'[w].inc = tile[w].inc
  PROVE  WorldOK' /\ PanesOK' /\ SeenOK' /\ ToldOK' /\ OccupantsOK'
<1> USE DEF SurfaceInv
<1>1. WorldOK' /\ PanesOK' /\ SeenOK'
  BY DEF WorldOK, PanesOK, SeenOK, IsPast
<1>2. ToldOK'
  <2>1. ASSUME NEW w \in Workers, NEW i \in 1..MaxIncarnations
        PROVE  /\ told[w][i] <= 1
               /\ i > work[w].inc => told[w][i] = 0
               /\ told[w][i] # 0 /\ i = work[w].inc =>
                    /\ work[w].phase = "failed"
                    /\ tile'[w] # None => tile'[w].phase = "failed" /\ tile'[w].inc = i
    BY DEF ToldOK
  <2> QED
    BY <2>1 DEF ToldOK
<1>3. OccupantsOK'
  BY DEF OccupantsOK, OneOccupantIsLive
<1> QED
  BY <1>1, <1>2, <1>3

\* Whatever may be read now is no older than the last refresh.
LEMMA AuthorityIsRecent ==
  ASSUME SurfaceInv, NEW w \in Workers, Authority(w) # None
  PROVE  IsRecent(w, Authority(w))
BY AuthorityIsNow DEF SurfaceInv, IsRecent, SeenOK, IsPast

LEMMA MergeCaptureStep ==
  ASSUME SurfaceInv, MergeCapture
  PROVE  SurfaceInv'
<1> DEFINE result == Head(captured)
           Takes(w) == /\ result.visible = Fallback(tile) /\ w \in DOMAIN result.got
                       /\ Authority(w) = result.got[w].auth
<1>1. /\ captured # <<>> /\ captured' = Tail(captured)
      /\ tile' = [w \in Workers |->
           IF Takes(w) /\ tile[w] # None
           THEN Captured(tile[w], result.got[w].outcome, result.got[w].auth, w \in Prompted)
           ELSE tile[w]]
      /\ UNCHANGED <<member, work, panes, surface, seen, bound, told, shownLive, reading, asked>>
  BY DEF MergeCapture, world
<1>2. captured \in Seq(Results)
  BY DEF SurfaceInv, CapturedOK
<1>3. result \in Results /\ captured' \in Seq(Results)
  BY <1>1, <1>2, HeadTailProperties
<1> HIDE DEF result
<1>4. ASSUME NEW w \in Workers, Takes(w)
      PROVE  IsRecent(w, result.got[w].auth)
  <2>1. result.got[w].auth \in Prints
    BY <1>3, <1>4 DEF Results
  <2>2. Authority(w) # None
    BY <1>4, <2>1, NothingIsNoOne DEF Prints
  <2> QED
    BY <1>4, <2>2, AuthorityIsRecent
<1>5. ASSUME NEW w \in Workers, Takes(w), tile[w] # None
      PROVE  /\ IsTile(tile'[w])
             /\ tile'[w].phase = tile[w].phase /\ tile'[w].inc = tile[w].inc
             /\ tile'[w].text \in
                  {None, tile[w].text, [auth |-> result.got[w].auth, by |-> "capture"]}
  <2>1. tile'[w] = Captured(tile[w], result.got[w].outcome, result.got[w].auth, w \in Prompted)
    BY <1>1, <1>5
  <2>2. IsTile(tile[w])
    BY <1>5 DEF SurfaceInv, TilesOK
  <2> QED
    BY <2>1, <2>2, CapturedKeeps
<1>6. ASSUME NEW w \in Workers, ~(Takes(w) /\ tile[w] # None) PROVE tile'[w] = tile[w]
  BY <1>1, <1>6
<1> HIDE DEF Takes
<1>7. TilesOK'
  BY <1>1, <1>5, <1>6 DEF SurfaceInv, TilesOK
<1>8. TextsOK'
  <2>1. ASSUME NEW w \in Workers, tile'[w] # None, tile'[w].text # None,
               tile'[w].text.by # "sample"
        PROVE  IsRecent(w, tile'[w].text.auth)
    <3>1. CASE tile'[w].text = tile[w].text /\ tile[w] # None
      BY <2>1, <3>1 DEF SurfaceInv, TextsOK
    <3>2. CASE Takes(w) /\ tile'[w].text = [auth |-> result.got[w].auth, by |-> "capture"]
      BY <1>4, <3>2
    <3> QED
      BY <1>5, <1>6, <2>1, <3>1, <3>2
  <2> QED
    BY <1>1, <2>1 DEF TextsOK, IsRecent, IsPast
<1>9. ReadingOK' /\ AskedOK' /\ CapturedOK'
  BY <1>1, <1>3 DEF SurfaceInv, ReadingOK, AskedOK, CapturedOK, IsRecent, IsPast
<1>10. WorldOK' /\ PanesOK' /\ SeenOK' /\ ToldOK' /\ OccupantsOK'
  <2>1. ASSUME NEW w \in Workers, tile'[w] # None
        PROVE  tile[w] # None /\ tile'[w].phase = tile[w].phase /\ tile'[w].inc = tile[w].inc
    BY <1>5, <1>6, <2>1
  <2> QED
    BY <1>1, <1>7, <2>1, TileStep
<1> QED
  BY <1>7, <1>8, <1>9, <1>10 DEF SurfaceInv

\* Output that was read for one worker goes to its tile.
LEMMA ReadStep ==
  ASSUME SurfaceInv, NEW v \in Workers, tile[v] # None, NEW by, NEW auth,
         by # "sample" => IsRecent(v, auth),
         tile' = [tile EXCEPT ![v] = ReadBy(@, by, auth)],
         UNCHANGED <<member, work, panes, surface, seen, bound, told, shownLive, asked, captured>>,
         reading' \in {None, reading}
  PROVE  SurfaceInv'
<1>1. /\ IsTile(tile'[v]) /\ tile'[v].phase = tile[v].phase /\ tile'[v].inc = tile[v].inc
      /\ tile'[v].text = [auth |-> auth, by |-> by]
  <2>1. tile'[v] = ReadBy(tile[v], by, auth) /\ IsTile(tile[v])
    BY DEF SurfaceInv, TilesOK
  <2> QED
    BY <2>1, ReadByKeeps
<1>2. DOMAIN tile' = Workers /\ \A w \in Workers \ {v} : tile'[w] = tile[w]
  BY DEF SurfaceInv, TilesOK
<1>3. TilesOK'
  BY <1>1, <1>2 DEF SurfaceInv, TilesOK
<1>4. TextsOK'
  <2>1. ASSUME NEW w \in Workers, tile'[w] # None, tile'[w].text # None,
               tile'[w].text.by # "sample"
        PROVE  IsRecent(w, tile'[w].text.auth)
    <3>1. CASE w = v
      BY <1>1, <2>1, <3>1
    <3>2. CASE w # v
      BY <1>2, <2>1, <3>2 DEF SurfaceInv, TextsOK
    <3> QED
      BY <3>1, <3>2
  <2> QED
    BY <2>1 DEF TextsOK, IsRecent, IsPast
<1>5. ReadingOK' /\ AskedOK' /\ CapturedOK'
  BY DEF SurfaceInv, ReadingOK, AskedOK, CapturedOK, IsRecent, IsPast
<1>6. WorldOK' /\ PanesOK' /\ SeenOK' /\ ToldOK' /\ OccupantsOK'
  BY <1>1, <1>2, <1>3, TileStep
<1> QED
  BY <1>3, <1>4, <1>5, <1>6 DEF SurfaceInv

\* What most steps leave alone.
StillSurface ==
  UNCHANGED <<member, work, panes, surface, tile, seen, bound, told, shownLive>>

LEMMA StillStep ==
  ASSUME SurfaceInv, StillSurface, ReadingOK', AskedOK', CapturedOK'
  PROVE  SurfaceInv'
<1> USE DEF SurfaceInv, StillSurface
<1>1. WorldOK' /\ PanesOK' /\ TilesOK' /\ SeenOK' /\ TextsOK'
  BY DEF WorldOK, PanesOK, TilesOK, SeenOK, TextsOK, IsRecent, IsPast
<1>2. ToldOK' /\ OccupantsOK'
  BY DEF ToldOK, OccupantsOK, OneOccupantIsLive
<1> QED
  BY <1>1, <1>2

LEMMA StartReadStep ==
  ASSUME SurfaceInv, NEW w \in Workers, StartRead(w)
  PROVE  SurfaceInv'
<1>1. /\ StillSurface /\ UNCHANGED <<asked, captured>> /\ MayRead(w)
      /\ reading' = [worker |-> w, auth |-> Authority(w)]
  BY DEF StartRead, StillSurface, world, shown, capturer
<1>2. IsRecent(w, Authority(w))
  BY <1>1, AuthorityIsRecent DEF MayRead
<1>3. ReadingOK'
  BY <1>1, <1>2 DEF ReadingOK, IsRecent, IsPast, StillSurface
<1> QED
  BY <1>1, <1>3, StillStep DEF SurfaceInv, AskedOK, CapturedOK

LEMMA CaptureStep ==
  ASSUME SurfaceInv, Capture
  PROVE  SurfaceInv'
<1>1. PICK outcome \in [DOMAIN asked.prints -> {"ready", "unavailable"}] :
        captured' = Append(captured,
          [visible |-> asked.visible,
           got |-> [w \in DOMAIN outcome |-> [auth |-> asked.prints[w], outcome |-> outcome[w]]]])
  BY DEF Capture
<1>2. StillSurface /\ UNCHANGED reading /\ asked # None /\ asked' = None
  BY DEF Capture, StillSurface, world, shown
<1>3. asked \in Requests
  BY <1>2 DEF SurfaceInv, AskedOK
<1>4. PICK W \in SUBSET Workers : asked.prints \in [W -> Prints]
  BY <1>3 DEF Requests
<1> DEFINE got == [w \in DOMAIN outcome |-> [auth |-> asked.prints[w], outcome |-> outcome[w]]]
           result == [visible |-> asked.visible, got |-> got]
<1>5. got \in [W -> [auth : Prints, outcome : {"ready", "unavailable"}]]
  BY <1>4
<1> HIDE DEF got
<1>6. result \in Results
  BY <1>3, <1>5 DEF Results, Requests
<1>7. captured' = Append(captured, result)
  BY <1>1 DEF got
<1> HIDE DEF result
<1>8. CapturedOK'
  BY <1>6, <1>7, AppendProperties DEF SurfaceInv, CapturedOK
<1>9. ReadingOK' /\ AskedOK'
  BY <1>2 DEF SurfaceInv, ReadingOK, AskedOK, IsRecent, IsPast, StillSurface
<1> QED
  BY <1>2, <1>8, <1>9, StillStep

LEMMA OpenStep ==
  ASSUME SurfaceInv, NEW w \in Workers, Open(w)
  PROVE  SurfaceInv'
<1> USE DEF SurfaceInv
<1>1. /\ UNCHANGED <<member, work, surface, tile, seen, told, reading, asked, captured>>
      /\ bound' = [bound EXCEPT ![w] = None]
      /\ shownLive' = [shownLive EXCEPT ![w] = {}]
      /\ \E o \in Occupants :
           panes' = [panes EXCEPT
             ![w] = @ \cup {[occupant |-> o, member |-> member[w].id, status |-> "working"]}]
  BY DEF Open, capturer
<1>2. WorldOK' /\ TilesOK' /\ SeenOK' /\ TextsOK' /\ ReadingOK' /\ AskedOK' /\ CapturedOK'
  BY <1>1 DEF WorldOK, TilesOK, SeenOK, TextsOK, ReadingOK, AskedOK, CapturedOK, IsRecent, IsPast
<1>3. ToldOK'
  BY <1>1 DEF ToldOK
<1>4. OccupantsOK'
  BY <1>1 DEF OccupantsOK, OneOccupantIsLive
<1>5. PanesOK'
  BY <1>1, PaneAppears
<1> QED
  BY <1>2, <1>3, <1>4, <1>5

-----------------------------------------------------------------------------
(* The theorems. *)

LEMMA SurfaceStep == SurfaceInv /\ [Next]_vars => SurfaceInv'
<1> SUFFICES ASSUME SurfaceInv, [Next]_vars PROVE SurfaceInv'
  OBVIOUS
<1>1. CASE Surroundings
  BY <1>1, SurroundingsAdvance, WorldStep DEF SurfaceInv
<1>2. CASE \E byHand \in BOOLEAN : Refresh(byHand)
  BY <1>2, RefreshTexts, RefreshTells, RefreshRemembers DEF SurfaceInv
<1>3. CASE FindDeleted \/ Leave
  BY <1>3, CloseStep DEF FindDeleted, Leave
<1>4. CASE MergeCapture
  BY <1>4, MergeCaptureStep
<1>5. ASSUME StillSurface, UNCHANGED <<reading, asked, captured>>
      PROVE  SurfaceInv'
  BY <1>5, StillStep DEF SurfaceInv, ReadingOK, AskedOK, CapturedOK, IsRecent, IsPast,
     StillSurface
<1>6. CASE AskSamples \/ TakeSamples \/ \E w \in Workers : SampleAges(w) \/ Sample(w)
  BY <1>5, <1>6 DEF AskSamples, TakeSamples, SampleAges, Sample, StillSurface, world, shown,
     capturer
<1>7. CASE MergeSample
  <2> DEFINE s == Head(samples)
  <2>1. /\ tile' = IF tile[s.worker] = None THEN tile
                   ELSE [tile EXCEPT ![s.worker] = ReadBy(@, "sample", s.auth)]
        /\ UNCHANGED <<member, work, panes, surface, seen, bound, told, shownLive, reading,
                       asked, captured>>
    BY <1>7 DEF MergeSample, world, capturer
  <2> HIDE DEF s
  <2>2. CASE tile' = tile
    BY <1>5, <2>1, <2>2 DEF StillSurface
  <2>3. CASE s.worker \in Workers /\ tile[s.worker] # None
    BY <2>1, <2>3, ReadStep
  <2>4. CASE s.worker \notin Workers
    <3>1. tile' = tile
      BY <2>1, <2>4 DEF SurfaceInv, TilesOK
    <3> QED
      BY <2>2, <3>1
  <2> QED
    BY <2>1, <2>2, <2>3, <2>4
<1>8. CASE \E w \in Workers : StartRead(w)
  BY <1>8, StartReadStep
<1>9. CASE FinishRead
  <2>1. /\ reading # None /\ reading' = None
        /\ UNCHANGED <<member, work, panes, surface, seen, bound, told, shownLive, asked,
                       captured>>
        /\ \/ UNCHANGED tile
           \/ /\ tile[reading.worker] # None
              /\ tile' = [tile EXCEPT ![reading.worker] = ReadBy(@, "read", reading.auth)]
    BY <1>9 DEF FinishRead, world, capturer
  <2>2. reading.worker \in Workers /\ IsRecent(reading.worker, reading.auth)
    BY <2>1 DEF SurfaceInv, ReadingOK
  <2>3. CASE UNCHANGED tile
    <3>1. ReadingOK' /\ AskedOK' /\ CapturedOK'
      BY <2>1 DEF SurfaceInv, ReadingOK, AskedOK, CapturedOK
    <3> QED
      BY <2>1, <2>3, <3>1, StillStep DEF StillSurface
  <2>4. CASE ~UNCHANGED tile
    BY <2>1, <2>2, <2>4, ReadStep
  <2> QED
    BY <2>3, <2>4
<1>10. CASE \E w \in Workers : Open(w)
  BY <1>10, OpenStep
<1>11. CASE Capture
  BY <1>11, CaptureStep
<1>12. CASE UNCHANGED vars
  BY <1>5, <1>12 DEF vars, StillSurface, world, shown, capturer
<1> QED
  BY <1>1, <1>2, <1>3, <1>4, <1>6, <1>7, <1>8, <1>9, <1>10, <1>11, <1>12 DEF Next

LEMMA SurfaceInit == Init => SurfaceInv
<1> SUFFICES ASSUME Init PROVE SurfaceInv
  OBVIOUS
<1> USE DEF Init
<1>0. 1 \in 1..MaxMemberships /\ 1 \in 1..MaxIncarnations
  BY ConstantsOK
<1>1. WorldOK
  BY <1>0 DEF WorldOK
<1>2. PanesOK
  <2> DEFINE first == CHOOSE o \in Occupants : TRUE
             pane == [occupant |-> first, member |-> 1, status |-> "working"]
  <2>1. first \in Occupants
    BY ConstantsOK
  <2>2. pane \in [occupant : Occupants, member : 1..MaxMemberships,
                  status : {"working", "blocked"}]
    BY <1>0, <2>1
  <2>3. panes \in [Workers -> {{}, {pane}}]
    OBVIOUS
  <2> HIDE DEF pane
  <2> QED
    BY <2>2, <2>3 DEF PanesOK
<1>3. TilesOK /\ SeenOK /\ TextsOK /\ ReadingOK /\ AskedOK
  BY DEF NoTiles, TilesOK, SeenOK, TextsOK, ReadingOK, AskedOK
<1>4. CapturedOK
  BY EmptySeq DEF CapturedOK
<1>5. ToldOK
  BY DEF ToldOK
<1>6. OccupantsOK
  BY DEF OccupantsOK, OneOccupantIsLive, NoTiles
<1> QED
  BY <1>1, <1>2, <1>3, <1>4, <1>5, <1>6 DEF SurfaceInv

\* Between two opens, one incarnation of a worker is shown live with one
\* occupant, whatever its panes, its membership and the connection go through
\* (run_observer's bound_occupants: Agent, NextBound).
THEOREM OneIsLive == Spec => []OneOccupantIsLive
<1>1. SurfaceInv => OneOccupantIsLive
  BY DEF SurfaceInv, OccupantsOK
<1> QED
  BY <1>1, SurfaceInit, SurfaceStep, PTL DEF Spec

\* A failing end is announced at most once, though membership, tiles and the
\* record come and go (IsNews compares a refreshed tile with the one before).
THEOREM FailuresAreNewsOnce == Spec => []FailuresAreToldOnce
<1>1. SurfaceInv => FailuresAreToldOnce
  BY DEF SurfaceInv, ToldOK, FailuresAreToldOnce
<1> QED
  BY <1>1, SurfaceInit, SurfaceStep, PTL DEF Spec

\* What a refresh leaves on a tile may still be read: its worker is a member,
\* observable and running, and output that was captured or read by hand was
\* read under exactly the membership and the incarnation the refresh found
\* (capture_fingerprints: SameEpoch, CarryForward; merge_capture).
THEOREM RefreshesShowWhatMayBeRead == Spec => RefreshesShowTheirOwn
<1>1. ASSUME SurfaceInv, NEW byHand \in BOOLEAN, Refresh(byHand),
             NEW w \in Workers, tile'[w] # None, tile'[w].text # None
      PROVE  /\ Authority(w) # None
             /\ tile'[w].text.by # "sample" => tile'[w].text.auth = Authority(w)
  <2>1. tile'[w] = NextTile(w)
    BY <1>1 DEF Refresh
  <2> QED
    BY <1>1, <2>1, KeptTextIsCurrent
<1>2. SurfaceInv /\ [Next]_vars =>
        [(\E byHand \in BOOLEAN : Refresh(byHand)) =>
           \A w \in Workers : tile'[w] # None /\ tile'[w].text # None =>
             /\ Authority(w) # None
             /\ tile'[w].text.by # "sample" => tile'[w].text.auth = Authority(w)]_vars
  BY <1>1
<1> QED
  BY <1>2, SurfaceInit, SurfaceStep, PTL DEF Spec, RefreshesShowTheirOwn
=============================================================================
