-------------------------------- MODULE Picker --------------------------------
(***************************************************************************)
(* The terminal picker (src/tui.rs): the rows it shows, the messages of    *)
(* the refresh under way that rearrange them, the close it runs on a       *)
(* thread, and the keys, which act on the row under a cursor that is kept  *)
(* as two positions.  StatusService and Discovery model who sends the      *)
(* messages; here each may come at any moment and in any order, once.  A   *)
(* refresh drops the channels of the one before it.                        *)
(*                                                                         *)
(* A group is a configured (effective) host, or one that is only retained  *)
(* because workloads of its destination remain.  Pruning is left out: no   *)
(* key begins it.                                                          *)
(***************************************************************************)
EXTENDS Naturals, FiniteSets, SequencesExt, Ordered

CONSTANTS
  GroupCount,   \* groups that may be shown, in the order they are
  Effective,    \* those of the configuration
  NameOf,       \* per group: the name of its host
  Ids,          \* workloads: numbers from 1, which also order rows of a kind
  HomeOf,       \* per workload: its group
  Legacy,       \* workloads without an ownership proof
  Externals,    \* sessions of the hosts that Tether does not own, numbered
  Started       \* sets of workloads that the state may hold at the start

Groups == 1 .. GroupCount
Names == {NameOf[g] : g \in Groups}

ASSUME PickerAssumption ==
  /\ GroupCount \in Nat \ {0} /\ 1 \in Effective /\ Effective \subseteq Groups
  /\ \A g \in Effective, h \in Groups \ Effective : g < h
  /\ \A g, h \in Effective : NameOf[g] = NameOf[h] => g = h
  /\ Ids \subseteq Nat \ {0} /\ IsFiniteSet(Ids) /\ Legacy \subseteq Ids
  /\ Externals \subseteq Nat \ {0} /\ IsFiniteSet(Externals)
  /\ HomeOf \in [Ids -> Groups]
  /\ Started \subseteq SUBSET Ids

VARIABLES
  rows,     \* per group: its owned rows, as workloads
  status,   \* per workload: what its row says, "Paced" for an end still paced
  host,     \* host_status, per NAME: unknown (or stale), reachable, unreachable
  work,     \* workload_status, per workload: unknown (or stale), running, other
  catalog,  \* catalogs, per NAME: the external rows
  failed,   \* close_failed
  closing,  \* pending_close, with its action
  modal,    \* close_modal, with close_modal_action
  ui,       \* stage, positions and what was chosen on the way
  exit,     \* how the picker ended
  due,      \* messages of this refresh still to come
  fresh     \* history: answers of this refresh

pickerVars ==
  <<rows, status, host, work, catalog, failed, closing, modal, ui, exit, due, fresh>>

board == <<rows, status, host, work, catalog, failed, due, fresh>>

NoModal == [id |-> 0, action |-> "none"]
\* A directory is taken for the group whose list it is of, or it is typed for.
Choice(kind, id, g, directory) ==
  [kind |-> kind, id |-> id, group |-> g, directory |-> directory]
NoChoice == Choice("none", 0, 0, 0)
Kinds == {"Running", "Ended", "Paced", "Stopping", "Gone"}

\* normal_status_group; rows of a kind are taken to be equally old.
Rank(s) == IF s \in {"Running", "Stopping"} THEN 0 ELSE 1
Sorted(ids, st) ==
  InOrder({w \in ids : Rank(st[w]) = 0}) \o InOrder({w \in ids : Rank(st[w]) = 1})

\* The hosts the picker lists; retained groups are listed with their rows.
ShownBy(rs) == InOrder({g \in Groups : g \in Effective \/ rs[g] # <<>>})
Position(seq, x) == SelectInSeq(seq, LAMBDA y : y = x)
AtMost(index, length) == IF index <= length THEN index ELSE IF length = 0 THEN 1 ELSE length

\* Rows of a group: owned, external, and "create".
Row(kind, id) == [kind |-> kind, id |-> id]
Create == Row("create", 0)
RowsBy(rs, cat, g) ==
  [i \in DOMAIN rs[g] |-> Row("owned", rs[g][i])]
    \o (IF g \in Effective
        THEN [i \in DOMAIN cat[NameOf[g]] |-> Row("external", cat[NameOf[g]][i])] \o <<Create>>
        ELSE <<>>)

\* The row under the cursor; past the rows, which the position may be on the
\* list of hosts, "create" is taken where it is offered.
Here == ShownBy(rows)[ui.host]
Under ==
  LET list == RowsBy(rows, catalog, Here)
  IN  IF ui.row \in DOMAIN list THEN list[ui.row]
      ELSE IF Here \in Effective THEN Create ELSE Row("none", 0)

-----------------------------------------------------------------------------
(* Refresh *)

Observable(rs, st, w) == w \in ToSet(rs[HomeOf[w]]) /\ st[w] = "Running" /\ w \notin Legacy

\* The rows of a host are listed by name, and only for a configured one.
Messages(rs, st) ==
  {Row("host", g) : g \in ToSet(ShownBy(rs))}
    \cup {Row("catalog", g) : g \in {h \in ToSet(ShownBy(rs)) :
                                      \E e \in Effective : NameOf[e] = NameOf[h]}}
    \cup {Row("work", w) : w \in {v \in Ids : Observable(rs, st, v)}}

\* Mutant: what was known of a host counts until it answers again.
KeepsAnswers(h) == h

Stale(h) == [n \in Names |-> "unknown"]

\* begin_refresh, begin_discovery and the two requests, for these rows.  The
\* answers of the refresh before are stale; the search starts over.
Refreshes(rs, st, ui1) ==
  LET asked == {w \in Ids : Observable(rs, st, w)}
  IN  /\ host' = Stale(host)
      /\ work' = [w \in Ids |-> IF w \in asked THEN "unknown" ELSE work[w]]
      /\ due' = Messages(rs, st)
      /\ fresh' = {}
      /\ ui' = ui1

FirstScreen ==
  [stage |-> "Host", host |-> 1, row |-> 1, input |-> "none", resume |-> 0, restart |-> 0,
   external |-> 0, directory |-> 0, error |-> FALSE, meant |-> NoChoice]

PickerInit ==
  /\ status \in {st \in [Ids -> Kinds] :
                  /\ {w \in Ids : st[w] # "Gone"} \in Started
                  /\ \A w \in Legacy : st[w] # "Paced"}
  /\ rows = [g \in Groups |-> Sorted({w \in Ids : HomeOf[w] = g /\ status[w] # "Gone"}, status)]
  /\ host = [n \in Names |-> "unknown"]
  /\ work = [w \in Ids |-> "unknown"]
  /\ catalog = [n \in Names |-> <<>>]
  /\ failed = {} /\ closing = NoModal /\ modal = NoModal /\ exit = "none"
  /\ \E error \in BOOLEAN : ui = [FirstScreen EXCEPT !.error = error]
  /\ due = Messages(rows, status)
  /\ fresh = {}

-----------------------------------------------------------------------------
(* Keeping the cursor on its row *)

\* restore_resource_identity: a row that is gone leaves the last one.
RowIndex(rs, cat, g, row) ==
  LET list == RowsBy(rs, cat, g)
      at == Position(list, row)
  IN  IF at = 0 THEN Len(list) ELSE at

\* Mutant: a message that rearranges rows leaves the positions alone.
StaysPut(rs) == [ui EXCEPT !.host = AtMost(@, Len(ShownBy(rs)))]

\* restore_selection, after rows were taken out or sorted again: an owned row is
\* followed to where it is; otherwise its host is, and the row on it.
Restored(rs) ==
  LET shown == ShownBy(rs)
      kept == Position(shown, Here)
      index == IF kept = 0 THEN AtMost(ui.host, Len(shown)) ELSE kept
      w == Under.id
  IN  IF Under.kind = "owned" /\ w \in ToSet(rs[HomeOf[w]])
      THEN [ui EXCEPT !.host = Position(shown, HomeOf[w]), !.row = Position(rs[HomeOf[w]], w)]
      ELSE [ui EXCEPT !.host = index,
              !.row = IF Under.kind \in {"external", "create"}
                      THEN RowIndex(rs, catalog, shown[index], Under)
                      ELSE AtMost(@, Len(RowsBy(rs, catalog, shown[index])))]

\* reconcile_owned_record: the row is taken out, and put back in its place
\* unless the workload is removed.
Reconciled(w, kind) ==
  LET g == HomeOf[w]
  IN  [rows EXCEPT ![g] =
        IF kind = "Gone" THEN AtPositions(@, {i \in DOMAIN @ : @[i] # w})
        ELSE Sorted(ToSet(@) \cup {w}, [status EXCEPT ![w] = kind])]

-----------------------------------------------------------------------------
(* Messages of the refresh under way *)

Open == exit = "none"
Comes(kind, id) == Open /\ Row(kind, id) \in due /\ due' = due \ {Row(kind, id)}

\* What apply_status ends with.
KeepsRow(rs, cat) ==
  ui' = IF Under.kind = "none" THEN ui ELSE [ui EXCEPT !.row = RowIndex(rs, cat, Here, Under)]

HostAnswers(g) ==
  /\ Comes("host", g)
  /\ \E answer \in {"reachable", "unreachable"} :
       /\ host' = [host EXCEPT ![NameOf[g]] = answer]
       /\ fresh' = IF answer = "reachable" THEN fresh \cup {Row("host", g)} ELSE fresh
  /\ KeepsRow(rows, catalog)
  /\ UNCHANGED <<rows, status, work, catalog, failed, closing, modal, exit>>

Listings == {InOrder(some) : some \in SUBSET Externals}

\* A listing that failed and names no session keeps the rows there are.
CatalogAnswers(g) ==
  /\ Comes("catalog", g)
  /\ \E list \in Listings \cup {catalog[NameOf[g]]} :
       catalog' = [catalog EXCEPT ![NameOf[g]] = list]
  /\ KeepsRow(rows, catalog')
  /\ UNCHANGED <<rows, status, host, work, failed, closing, modal, exit, fresh>>

\* A workload that ended or is missing is shown as ended.  It is observed then,
\* and unless that fails its row becomes what the record says.
WorkAnswers(w) ==
  /\ Comes("work", w)
  /\ \/ \E answer \in {"running", "other"} :
          /\ work' = [work EXCEPT ![w] = answer]
          /\ fresh' = IF answer = "running" THEN fresh \cup {Row("work", w)} ELSE fresh
          /\ KeepsRow(rows, catalog)
          /\ UNCHANGED <<rows, status>>
     \/ /\ work' = [work EXCEPT ![w] = "other"] /\ UNCHANGED fresh
        /\ \/ /\ status' = [status EXCEPT ![w] = "Ended"]
              /\ KeepsRow(rows, catalog) /\ UNCHANGED rows
           \/ \E kind \in Kinds :
                /\ status' = [status EXCEPT ![w] = kind]
                /\ rows' = Reconciled(w, kind) /\ ui' = Restored(rows')
  /\ UNCHANGED <<host, catalog, failed, closing, modal, exit>>

\* The thread of a close tells how it went and what the record says after, if
\* it could be read.  Everything is refreshed then.
CloseConcludes ==
  /\ Open /\ closing # NoModal
  /\ \E error \in BOOLEAN, kind \in Kinds \cup {"unread"} :
       LET w == closing.id
           rs == IF kind = "unread" THEN rows ELSE Reconciled(w, kind)
           st == IF kind = "unread" THEN status ELSE [status EXCEPT ![w] = kind]
       IN  /\ ~error =>
                kind \in (IF closing.action = "Stop" THEN {"Ended", "Paced", "Running", "Gone"}
                          ELSE {"Gone"})
           /\ rows' = rs /\ status' = st
           /\ failed' = IF error THEN failed \cup {w} ELSE failed \ {w}
           /\ modal' = IF error THEN closing ELSE NoModal
           /\ Refreshes(rs, st, Restored(rs))
  /\ closing' = NoModal
  /\ UNCHANGED <<catalog, exit>>

PaceEnds(w) ==
  /\ Open /\ status[w] = "Paced" /\ status' = [status EXCEPT ![w] = "Ended"]
  /\ UNCHANGED <<rows, host, work, catalog, failed, closing, modal, ui, exit, due, fresh>>

Message ==
  \/ \E g \in Groups : HostAnswers(g) \/ CatalogAnswers(g)
  \/ \E w \in Ids : WorkAnswers(w) \/ PaceEnds(w)
  \/ CloseConcludes

-----------------------------------------------------------------------------
(* Keys *)

Sees(new) == ui' = new /\ UNCHANGED <<board, closing, modal, exit>>

\* The state of a picker that ends is dropped, and its channels with it; the
\* thread of a close goes on.
Ends(how) ==
  /\ exit' = how /\ UNCHANGED closing
  /\ rows' = [g \in Groups |-> <<>>] /\ status' = [w \in Ids |-> "Gone"]
  /\ host' = Stale(host) /\ work' = [w \in Ids |-> "unknown"]
  /\ catalog' = [n \in Names |-> <<>>]
  /\ failed' = {} /\ due' = {} /\ fresh' = {} /\ modal' = NoModal /\ ui' = FirstScreen

\* A picker reopened after an operation failed asks first about that.
AnswersError ==
  /\ Open /\ ui.error
  /\ Ends("selected") \/ Sees([ui EXCEPT !.error = FALSE])

\* handle lets moves through while a close runs, and nothing else.
Free == Open /\ ~ui.error /\ closing = NoModal
OnRows == Free /\ modal = NoModal /\ ui.input = "none"
At(stage) == OnRows /\ ui.stage = stage

Move ==
  /\ Open /\ ~ui.error /\ modal = NoModal /\ ui.input = "none"
  /\ \E step \in {"previous", "next"} :
       LET Turned(index, length) ==
             IF step = "next" THEN (index % length) + 1
             ELSE IF index = 1 THEN length ELSE index - 1
       IN  \/ ui.stage = "Host" /\ Sees([ui EXCEPT !.host = Turned(@, Len(ShownBy(rows)))])
           \/ /\ ui.stage = "Resource"
              /\ Sees([ui EXCEPT !.row = Turned(@, Len(RowsBy(rows, catalog, Here)))])

Cancel == Free /\ Ends("cancelled")

ManageObservers == OnRows /\ Ends("selected")

Refresh ==
  /\ OnRows /\ Refreshes(rows, status, ui)
  /\ UNCHANGED <<rows, status, catalog, failed, closing, modal, exit>>

\* current_owned_action, and Remove for a row whose restart is paced.
Offered ==
  IF ui.stage # "Resource" \/ Under.kind # "owned" \/ Under.id \in Legacy
       \/ host[NameOf[Here]] # "reachable"
  THEN "none"
  ELSE CASE status[Under.id] = "Ended" -> "restart"
         [] status[Under.id] = "Paced" -> "remove"
         [] status[Under.id] = "Running" /\ work[Under.id] = "running" -> "resume"
         [] OTHER -> "none"

\* begin_close; a legacy row's metadata may always be removed.
Close ==
  /\ At("Resource") /\ Under.kind = "owned"
  /\ Under.id \in Legacy \/ Offered # "none"
  /\ modal' = [id |-> Under.id, action |-> IF Offered = "resume" THEN "Stop" ELSE "Remove"]
  /\ UNCHANGED <<board, closing, ui, exit>>

AnswersModal ==
  /\ Free /\ modal # NoModal
  /\ closing' \in {NoModal, modal} /\ modal' = NoModal
  /\ UNCHANGED <<board, ui, exit>>

\* The code keeps a directory that is left behind until the next workload to
\* create clears it; nothing reads it until then.
NothingMeant(at) ==
  [at EXCEPT !.directory = 0, !.meant = NoChoice]
NothingChosen(at) == [at EXCEPT !.resume = 0, !.restart = 0, !.external = 0]

\* Mutant: only a resumed row is left for the rows.
PlacementWithoutRestart == IF ui.resume # 0 THEN "Resource" ELSE "Command"

\* From the placement, a workload to create goes back to its command.
BeforePlacement ==
  IF ui.resume # 0 \/ ui.restart # 0 \/ ui.external # 0 THEN "Resource" ELSE "Command"

Back ==
  /\ OnRows
  /\ IF ui.stage = "Host" THEN Ends("cancelled")
     ELSE LET stage == CASE ui.stage = "Resource" -> "Host"
                         [] ui.stage = "Directory" -> "Resource"
                         [] ui.stage = "Command" -> "Directory"
                         [] OTHER -> BeforePlacement
              left == IF stage \in {"Host", "Resource"} THEN NothingMeant(ui) ELSE ui
          IN  Sees([NothingChosen(left) EXCEPT !.stage = stage])

ConfirmHost ==
  /\ At("Host")
  /\ Sees([NothingChosen(ui) EXCEPT !.stage = "Resource", !.row = 1,
             !.directory = 0])

ConfirmResource ==
  /\ At("Resource") /\ host[NameOf[Here]] # "unreachable"
  /\ LET clear == NothingChosen(ui)
     IN  CASE Under.kind = "owned" ->
                /\ Offered \in {"resume", "restart"} /\ Under.id \notin failed
                /\ Sees([clear EXCEPT !.stage = "Placement",
                     !.resume = IF Offered = "resume" THEN Under.id ELSE 0,
                     !.restart = IF Offered = "restart" THEN Under.id ELSE 0,
                     !.meant = Choice(Offered, Under.id, 0, 0)])
           [] Under.kind = "external" ->
                Sees([clear EXCEPT !.stage = "Placement", !.external = Under.id,
                     !.meant = Choice("external", Under.id, Here, 0)])
           [] OTHER ->
                Sees([clear EXCEPT !.stage = "Directory", !.directory = 0,
                     !.meant = Choice("create", 0, Here, 0)])

TakesDirectory == [ui EXCEPT !.stage = "Command", !.directory = Here, !.meant.directory = Here]

\* Directories, those a search found among them, are not told apart.
ConfirmDirectory == At("Directory") /\ Sees(TakesDirectory)

ConfirmCommand == At("Command") /\ Sees([ui EXCEPT !.stage = "Placement"])

TypesPath ==
  /\ Free /\ modal = NoModal /\ ui.stage = "Directory"
  /\ \/ ui.input = "none" /\ Sees([ui EXCEPT !.input = "path"])
     \/ ui.input = "path" /\ Sees([ui EXCEPT !.input = "none"])
     \/ ui.input = "path" /\ Sees([TakesDirectory EXCEPT !.input = "none"])

\* selection
Selection ==
  IF ui.resume # 0 THEN Choice("resume", ui.resume, 0, 0)
  ELSE IF ui.restart # 0 THEN Choice("restart", ui.restart, 0, 0)
  ELSE IF ui.external # 0 THEN Choice("external", ui.external, Here, 0)
  ELSE Choice("create", 0, Here, ui.directory)

ConfirmPlacement == At("Placement") /\ Ends("selected")

Key ==
  \/ AnswersError \/ Move \/ Cancel \/ ManageObservers \/ Refresh \/ Close \/ AnswersModal
  \/ Back \/ ConfirmHost \/ ConfirmResource \/ ConfirmDirectory \/ ConfirmCommand
  \/ ConfirmPlacement \/ TypesPath

PickerNext == Message \/ Key
PickerSpec == PickerInit /\ [][PickerNext]_pickerVars

-----------------------------------------------------------------------------
(* Properties *)

\* A message never moves the cursor to another host, or to another row, as long
\* as the one it is on is there: rows are sorted again, appear and disappear
\* while the user is about to press a key (restore_selection,
\* restore_resource_identity).
CursorFollows ==
  /\ Here \in ToSet(ShownBy(rows')) => Here' = Here
  /\ Under \in ToSet(RowsBy(rows', catalog', Here)) => Under' = Under
CursorStaysOnItsRow ==
  [][(exit' = "none" /\ <<rows, catalog>>' # <<rows, catalog>>) => CursorFollows]_pickerVars

\* What the placement screen is about to select is what was chosen on the way
\* there, on the host it was chosen on, whatever rearranged the rows since; a
\* workload to create has a directory of that host (selection, back).
SelectionIsWhatWasChosen ==
  ui.stage = "Placement" =>
    /\ Selection = ui.meant
    /\ Selection.kind = "create" => ui.directory = Here

\* Open, Restart, Stop and Remove are offered on a row only when the row's own
\* destination answered in this refresh, and Open and Stop only when it said
\* that the workload runs (begin_refresh, current_owned_action).
ActionsAreProven ==
  Offered # "none" =>
    /\ Row("host", Here) \in fresh
    /\ Offered = "resume" => Row("work", Under.id) \in fresh
=============================================================================
