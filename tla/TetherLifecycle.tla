--------------------------- MODULE TetherLifecycle ---------------------------
(***************************************************************************)
(* One Tether-owned workload: the record that src/state.rs persists, the   *)
(* tmux servers that may hold its session, and the Tether processes that   *)
(* create, stop, open, observe, restart and remove it (src/lifecycle.rs,   *)
(* and the create in src/cli.rs).                                          *)
(*                                                                         *)
(* A store update holds the advisory lock from its load to its save, so it *)
(* is one step.  Nothing is held between two updates, nor while tmux is    *)
(* asked, so every load, question, kill and update of an operation is a    *)
(* step of its own, and other processes, the workload itself and faults    *)
(* run in between.                                                         *)
(***************************************************************************)
EXTENDS Integers, FiniteSets

CONSTANTS
  Clients,          \* Tether processes (picker, CLI, orchestration commands)
  Sockets,          \* sockets a process's tmux may resolve from its environment
  NoSocket,         \* a record that names no socket
  Ops,              \* the operations processes may run
  Faults,           \* what else may happen, see AllFaults
  InitialKinds,     \* the records a behaviour may start from, see Init
  MaxIncarnations,  \* bound: tmux sessions created for the workload
  MaxRevisions      \* bound: no operation begins at this record revision

AllOps == {"create", "stop", "open", "observe", "restart", "remove"}

AllFaults ==
  {"crash",        \* a process vanishes, or its question to tmux fails
   "late",         \* a command times out, and may still run later
   "sshdrop",      \* the connection drops under a create: ssh exits 255
   "serverexit",   \* a tmux server without sessions exits
   "outside",      \* somebody else ends the session (tmux kill, reboot)
   "split"}        \* somebody else splits the session's window

AllKinds == {"absent", "pinned", "unpinned", "legacy"}

NoId == -1
Ids == Nat \cup {NoId}

ASSUME SocketAssumption == NoSocket \notin Sockets
ASSUME ChoiceAssumption ==
  Ops \subseteq AllOps /\ Faults \subseteq AllFaults /\ InitialKinds \subseteq AllKinds
ASSUME BoundAssumption == MaxIncarnations \in Nat /\ MaxRevisions \in Nat

VARIABLES
  record,   \* the workload's SessionRecord in state.json
  session,  \* per socket: the tmux session with the workload's name and proof
  nextId,   \* per socket: the next `$N` its server will hand out
  made,     \* how many sessions were created (numbers the incarnations)
  client,   \* per process: the operation it is running
  late      \* commands whose sender gave up, which may still run

vars == <<record, session, nextId, made, client, late>>

-----------------------------------------------------------------------------
(* Data *)

\* "Absent": not reserved yet.  "Dropped": the reservation was deleted again.
Statuses ==
  {"Absent", "Creating", "Running", "Stopping", "Ended", "Removed", "Dropped"}

\* rev stands for the fields that only take part in the comparison of a record
\* with its snapshot: last_used_at, closed_at, exit_status, immediate_failures.
Record ==
  [status : Statuses, sid : Ids, pane : Ids, socket : Sockets \cup {NoSocket},
   proof : BOOLEAN, rev : Nat]

\* work: "none" is no session, "gone" a session that outlived the launched pane.
\* active: the pane tmux reports for the session: the workload's own, or a
\* pane somebody split off, alive or dead.
Session ==
  [work : {"none", "running", "dead", "gone"}, inc : Nat, sid : Ids,
   remain : BOOLEAN, active : {"own", "live", "dead"}]

Answers == [state : {"Unasked", "Missing", "Running", "Ended"}, sid : Ids, inc : Nat]
Aims == [sid : Ids, inc : Nat]

Steps ==
  {"idle", "load", "ask", "asksession", "answered", "kill", "finish", "reserve",
   "reload", "create", "configure", "rollback", "drop", "activate", "retire"}

ClientState ==
  [pc : Steps, op : AllOps, env : Sockets \cup {NoSocket}, snap : Record,
   round : {1, 2}, answer : Answers, aim : Aims]

Commands ==
  [kind : {"kill", "create"}, op : AllOps, socket : Sockets, sid : Ids, inc : Nat]

AbsentRecord ==
  [status |-> "Absent", sid |-> NoId, pane |-> NoId, socket |-> NoSocket,
   proof |-> TRUE, rev |-> 0]

NoSession ==
  [work |-> "none", inc |-> 0, sid |-> NoId, remain |-> FALSE, active |-> "own"]

Unasked == [state |-> "Unasked", sid |-> NoId, inc |-> 0]
NoAim == [sid |-> NoId, inc |-> 0]

Idle ==
  [pc |-> "idle", op |-> "stop", env |-> NoSocket, snap |-> AbsentRecord,
   round |-> 1, answer |-> Unasked, aim |-> NoAim]

Exists(s) == session[s].work # "none"

\* Mutant: the server this process resolves, whatever the record names.
WhereThisProcessResolves(c) == client[c].env

\* The server a command of c about its snapshot runs on (backend_for).
Where(c) ==
  IF client[c].snap.socket = NoSocket THEN client[c].env ELSE client[c].snap.socket

At(c, op, pc) == client[c].op = op /\ client[c].pc = pc
Answered(c, op, round) == At(c, op, "answered") /\ client[c].round = round

Become(c, entry) == client' = [client EXCEPT ![c] = entry]
Goto(c, pc) == Become(c, [client[c] EXCEPT !.pc = pc])
GiveUp(c) == Become(c, Idle)
Save(r) == record' = r

-----------------------------------------------------------------------------
(* tmux, as the commands of src/tmux.rs use it *)

\* One question: about the launched pane when the record names it, else about
\* the session, which answers for its active pane (inspect_exact_spec,
\* classify_exact_inspect).
Answer(s, pane) ==
  LET it == session[s]
      Says(state) == [state |-> state, sid |-> it.sid, inc |-> it.inc]
      dead == IF pane # NoId \/ it.active = "own" THEN it.work = "dead"
                                                  ELSE it.active = "dead"
  IN  IF ~Exists(s) \/ (pane # NoId /\ (pane # it.sid \/ it.work = "gone"))
      THEN [state |-> "Missing", sid |-> NoId, inc |-> 0]
      ELSE Says(IF dead THEN "Ended" ELSE "Running")

\* Mutant: a session without the launched pane is an unclear answer.
WithoutItsPaneUnclear(answer) ==
  IF answer.state = "Missing" THEN answer ELSE [answer EXCEPT !.state = "Unknown"]

\* A pane that answered nothing inside a session that exists has ended
\* (workload_without_its_pane).
WithoutItsPane(answer) ==
  IF answer.state = "Missing" THEN answer ELSE [answer EXCEPT !.state = "Ended"]

\* Mutant: the guard compares the name and the proof only.
GuardAcceptsAnyIncarnation(s, sid) == Exists(s)

\* Whether the guard around a destructive command lets it run: the server
\* compares session id, name and proof when the command arrives (guarded_spec).
GuardAccepts(s, sid) == Exists(s) /\ session[s].sid = sid

DestroySession(s) == session' = [session EXCEPT ![s] = NoSession]

StartSession(s) ==
  /\ session' = [session EXCEPT ![s] =
                   [work |-> "running", inc |-> made + 1, sid |-> nextId[s],
                    remain |-> FALSE, active |-> "own"]]
  /\ nextId' = [nextId EXCEPT ![s] = @ + 1]
  /\ made' = made + 1

-----------------------------------------------------------------------------
(* Judgements the operations make about a snapshot and an answer *)

\* Mutant: the record only has to be there still.
SnapshotUnchecked(c) == record.status \notin {"Absent", "Dropped"}

\* The `current != &record` check every guarded update starts with.
SnapshotHolds(c) == record = client[c].snap

\* A snapshot that names no incarnation accepts any, one that does only its own.
IdentityMatches(c) ==
  client[c].snap.sid \in {NoId, client[c].answer.sid}

\* The second inspection must find the incarnation the first one found.
SameIncarnation(c) == client[c].answer.sid = client[c].aim.sid

AnswerIs(c, states) == client[c].answer.state \in states

AimAtAnswer(c) == [sid |-> client[c].answer.sid, inc |-> client[c].answer.inc]

\* Ask again, pinned to the incarnation just found.
AskAgain(c) ==
  Become(c, [client[c] EXCEPT !.pc = "ask", !.round = 2,
                              !.answer = Unasked, !.aim = AimAtAnswer(c)])

-----------------------------------------------------------------------------
(* Beginning an operation, and reading the record it works from *)

Begin(c, op, env) ==
  /\ client[c].pc = "idle"
  /\ op \in Ops \ {"create"}
  /\ record.status \notin {"Absent", "Dropped"}
  /\ record.rev < MaxRevisions
  /\ op = "restart" => made < MaxIncarnations
  \* the command dispatches on the status it reads before the service does
  /\ op = "restart" => record.status \in {"Ended", "Creating"}
  /\ Become(c, [client[c] EXCEPT !.pc = "load", !.op = op, !.env = env])
  /\ UNCHANGED <<record, session, nextId, made, late>>

\* Mutant: a workload that is being stopped cannot be stopped again.
LoadableUnlessStopping(op, r) ==
  /\ r.status \notin {"Absent", "Dropped"} /\ (r.proof \/ op = "remove")
  /\ op = "stop" => r.status \in {"Creating", "Running"}
  /\ op = "open" => r.status = "Running"
  /\ op = "remove" => r.status = "Ended"

\* What each operation accepts of the record it loads.
Loadable(op, r) ==
  /\ r.status \notin {"Absent", "Dropped"}
  /\ r.proof \/ op = "remove"
  /\ op = "stop" => r.status \notin {"Ended", "Removed"}
  /\ op = "open" => r.status = "Running"
  /\ op = "restart" => r.status # "Removed"
  /\ op = "remove" => r.status # "Removed" /\ (r.proof => r.status = "Ended")

Load(c) ==
  /\ client[c].pc = "load"
  /\ IF Loadable(client[c].op, record)
     THEN Become(c, [client[c] EXCEPT !.snap = record,
                                      !.pc = IF record.proof THEN "ask" ELSE "retire"])
     ELSE GiveUp(c)
  /\ UNCHANGED <<record, session, nextId, made, late>>

\* The question about the launched pane, or about the session.
Ask(c) ==
  /\ client[c].pc = "ask"
  /\ LET answer == Answer(Where(c), client[c].snap.pane)
     IN  IF client[c].snap.pane # NoId /\ answer.state = "Missing"
         THEN Goto(c, "asksession")
         ELSE Become(c, [client[c] EXCEPT !.pc = "answered", !.answer = answer])
  /\ UNCHANGED <<record, session, nextId, made, late>>

\* The launched pane answered nothing: is its session gone too?
AskSession(c) ==
  /\ client[c].pc = "asksession"
  /\ Become(c, [client[c] EXCEPT !.pc = "answered",
                                 !.answer = WithoutItsPane(Answer(Where(c), NoId))])
  /\ UNCHANGED <<record, session, nextId, made, late>>

-----------------------------------------------------------------------------
(* Stop *)

\* Persist Stopping before anything is ended (ensure_stopping).
StopDeclares(c) ==
  /\ Answered(c, "stop", 1)
  /\ IF (AnswerIs(c, {"Missing"}) \/ IdentityMatches(c)) /\ SnapshotHolds(c)
     THEN /\ Save([record EXCEPT !.status = "Stopping",
                                 !.sid = IF AnswerIs(c, {"Missing"}) THEN @
                                         ELSE client[c].answer.sid])
          /\ IF AnswerIs(c, {"Missing"}) THEN Goto(c, "finish") ELSE AskAgain(c)
     ELSE GiveUp(c) /\ UNCHANGED record
  /\ UNCHANGED <<session, nextId, made, late>>

StopVerifies(c) ==
  /\ Answered(c, "stop", 2)
  /\ CASE AnswerIs(c, {"Missing"}) -> Goto(c, "finish")
       [] ~AnswerIs(c, {"Missing"}) /\ SameIncarnation(c) -> Goto(c, "kill")
       [] OTHER -> GiveUp(c)
  /\ UNCHANGED <<record, session, nextId, made, late>>

\* The record a finished Stop finalizes: any Stopping one (finish_close).
Finishable == record.status = "Stopping"

FinishClose(c) ==
  /\ At(c, "stop", "finish")
  /\ IF Finishable
     THEN Save([record EXCEPT !.status = "Ended", !.rev = @ + 1])
     ELSE UNCHANGED record
  /\ GiveUp(c)
  /\ UNCHANGED <<session, nextId, made, late>>

-----------------------------------------------------------------------------
(* Open *)

OpenRecords(c) ==
  /\ Answered(c, "open", 1)
  /\ IF AnswerIs(c, {"Running"}) /\ IdentityMatches(c) /\ SnapshotHolds(c)
     THEN /\ Save([record EXCEPT !.sid = client[c].answer.sid, !.rev = @ + 1])
          /\ AskAgain(c)
     ELSE GiveUp(c) /\ UNCHANGED record
  /\ UNCHANGED <<session, nextId, made, late>>

\* The attach itself is guarded by tmux and changes nothing here.
OpenAttaches(c) ==
  /\ Answered(c, "open", 2)
  /\ GiveUp(c)
  /\ UNCHANGED <<record, session, nextId, made, late>>

-----------------------------------------------------------------------------
(* Observe *)

ObserveAlive(c) ==
  /\ Answered(c, "observe", 1)
  /\ AnswerIs(c, {"Running"})
  /\ IF /\ IdentityMatches(c) /\ SnapshotHolds(c)
        /\ client[c].snap.status \in {"Creating", "Running"}
     THEN Save([record EXCEPT !.status = "Running", !.sid = client[c].answer.sid])
     ELSE UNCHANGED record
  /\ GiveUp(c)
  /\ UNCHANGED <<session, nextId, made, late>>

\* Mutant: the end of a workload that is being stopped is left to its Stop.
EndableWhileRunning(c) == client[c].snap.status \in {"Creating", "Running", "Ended"}

\* Whose end may be recorded (mark_ended).
Endable(c) == client[c].snap.status # "Removed"

\* A record already Ended may be rewritten unchanged, or gain another recorded
\* failure (mark_ended, note_immediate_failure).
ObserveOver(c) ==
  /\ Answered(c, "observe", 1)
  /\ AnswerIs(c, {"Ended", "Missing"})
  /\ IF /\ AnswerIs(c, {"Missing"}) \/ IdentityMatches(c)
        /\ Endable(c) /\ SnapshotHolds(c)
     THEN \E rev \in {record.rev, record.rev + 1} :
            /\ record.status # "Ended" => rev = record.rev + 1
            /\ Save([record EXCEPT !.status = "Ended", !.rev = rev,
                                   !.sid = IF AnswerIs(c, {"Missing"}) THEN @
                                           ELSE client[c].answer.sid])
     ELSE UNCHANGED record
  /\ GiveUp(c)
  /\ UNCHANGED <<session, nextId, made, late>>

-----------------------------------------------------------------------------
(* Restart and remove: reaping what has ended *)

RestartPromotes(c) ==
  /\ Answered(c, "restart", 1)
  /\ AnswerIs(c, {"Running"})
  /\ IF /\ client[c].snap.status = "Creating" \/ client[c].snap.sid = client[c].answer.sid
        /\ SnapshotHolds(c)
     THEN Save([record EXCEPT !.status = "Running", !.sid = client[c].answer.sid,
                              !.rev = @ + 1])
     ELSE UNCHANGED record
  /\ GiveUp(c)
  /\ UNCHANGED <<session, nextId, made, late>>

AfterReap(c) == IF client[c].op = "restart" THEN "reserve" ELSE "retire"

\* The first answer of a restart that found no running work, or of a remove.
ReapInspects(c) ==
  /\ Answered(c, "restart", 1) \/ Answered(c, "remove", 1)
  /\ ~(client[c].op = "restart" /\ AnswerIs(c, {"Running"}))
  /\ CASE AnswerIs(c, {"Missing"}) -> Goto(c, AfterReap(c))
       [] AnswerIs(c, {"Ended"}) /\ IdentityMatches(c) -> AskAgain(c)
       [] OTHER -> GiveUp(c)
  /\ UNCHANGED <<record, session, nextId, made, late>>

ReapVerifies(c) ==
  /\ Answered(c, "restart", 2) \/ Answered(c, "remove", 2)
  /\ CASE AnswerIs(c, {"Missing"}) -> Goto(c, AfterReap(c))
       [] AnswerIs(c, {"Ended"}) /\ SameIncarnation(c) -> Goto(c, "kill")
       [] OTHER -> GiveUp(c)
  /\ UNCHANGED <<record, session, nextId, made, late>>

\* The guarded kill-session of stop, restart and remove, with its reply.
Kill(c) ==
  /\ client[c].pc = "kill"
  /\ IF GuardAccepts(Where(c), client[c].aim.sid)
     THEN /\ DestroySession(Where(c))
          /\ Goto(c, IF client[c].op = "stop" THEN "finish" ELSE AfterReap(c))
     ELSE GiveUp(c) /\ UNCHANGED session
  /\ UNCHANGED <<record, nextId, made, late>>

Retire(c) ==
  /\ At(c, "remove", "retire")
  /\ IF SnapshotHolds(c)
     THEN Save([record EXCEPT !.status = "Removed", !.rev = @ + 1])
     ELSE UNCHANGED record
  /\ GiveUp(c)
  /\ UNCHANGED <<session, nextId, made, late>>

-----------------------------------------------------------------------------
(* Create and restart: a reservation, a session, an activation *)

\* create_and_attach pushes a fresh reservation before it asks tmux.
CreateReserves(c, env) ==
  /\ client[c].pc = "idle"
  /\ "create" \in Ops
  /\ record.status = "Absent"
  /\ made < MaxIncarnations
  /\ Save([AbsentRecord EXCEPT !.status = "Creating"])
  /\ Become(c, [client[c] EXCEPT !.pc = "create", !.op = "create", !.env = env])
  /\ UNCHANGED <<session, nextId, made, late>>

\* Mutant: the closed incarnation's identity stays in the record.
ReservationKeepsIdentity ==
  [record EXCEPT !.status = "Creating", !.pane = NoId, !.socket = NoSocket]

\* A reservation forgets the incarnation, its pane and its socket.
Reservation ==
  [record EXCEPT !.status = "Creating", !.sid = NoId, !.pane = NoId, !.socket = NoSocket]

Reserve(c) ==
  /\ At(c, "restart", "reserve")
  /\ IF client[c].snap.status \in {"Ended", "Creating"} /\ SnapshotHolds(c)
     THEN /\ Save(Reservation)
          /\ Goto(c, "reload")
     ELSE GiveUp(c) /\ UNCHANGED record
  /\ UNCHANGED <<session, nextId, made, late>>

\* restart_owned reads its reservation back in a second transaction.
Reload(c) ==
  /\ At(c, "restart", "reload")
  /\ IF record.status \in {"Absent", "Dropped"}
     THEN GiveUp(c)
     ELSE Become(c, [client[c] EXCEPT !.snap = record, !.pc = "create"])
  /\ UNCHANGED <<record, session, nextId, made, late>>

\* A failure that proves nothing was created: create withdraws its
\* reservation, restart keeps it.
FailsForCertain(c) ==
  IF client[c].op = "create" THEN Goto(c, "drop") ELSE GiveUp(c)

\* new-session on the process's own socket; tmux refuses a name it already has.
CreateSession(c) ==
  /\ client[c].pc = "create"
  /\ IF Exists(client[c].env)
     THEN FailsForCertain(c) /\ UNCHANGED <<session, nextId, made>>
     ELSE /\ StartSession(client[c].env)
          /\ Become(c, [client[c] EXCEPT !.pc = "configure",
                          !.aim = [sid |-> nextId[client[c].env], inc |-> made + 1]])
  /\ UNCHANGED <<record, late>>

\* remain-on-exit, the directory check and the mouse option.  Any of them may
\* fail, before or after remain-on-exit was set.
Configure(c) ==
  /\ client[c].pc = "configure"
  /\ \E remains, succeeds \in BOOLEAN :
       /\ succeeds => remains
       /\ remains => GuardAccepts(client[c].env, client[c].aim.sid)
       /\ session' = IF remains THEN [session EXCEPT ![client[c].env].remain = TRUE]
                                ELSE session
       /\ Goto(c, IF succeeds THEN "activate" ELSE "rollback")
  /\ UNCHANGED <<record, nextId, made, late>>

\* A rollback that is rejected or finds nothing leaves the outcome uncertain.
Rollback(c) ==
  /\ client[c].pc = "rollback"
  /\ IF GuardAccepts(client[c].env, client[c].aim.sid)
     THEN DestroySession(client[c].env) /\ FailsForCertain(c)
     ELSE GiveUp(c) /\ UNCHANGED session
  /\ UNCHANGED <<record, nextId, made, late>>

\* Only an untouched reservation is withdrawn.
DropReservation(c) ==
  /\ At(c, "create", "drop")
  /\ IF record.status = "Creating" /\ record.sid = NoId
     THEN Save([AbsentRecord EXCEPT !.status = "Dropped"])
     ELSE UNCHANGED record
  /\ GiveUp(c)
  /\ UNCHANGED <<session, nextId, made, late>>

\* What an activation requires of the record: create looks at the reservation,
\* restart at the snapshot it reloaded (promote_running).
Activatable(c) ==
  IF client[c].op = "create" THEN record.status = "Creating" /\ record.sid = NoId
                             ELSE SnapshotHolds(c)

Activate(c) ==
  /\ client[c].pc = "activate"
  /\ IF Activatable(c)
     THEN Save([record EXCEPT !.status = "Running", !.sid = client[c].aim.sid,
                              !.pane = client[c].aim.sid, !.socket = client[c].env,
                              !.rev = @ + 1])
     ELSE UNCHANGED record
  /\ GiveUp(c)
  /\ UNCHANGED <<session, nextId, made, late>>

-----------------------------------------------------------------------------
(* Faults *)

\* Mutant: a question that failed counts as absence.
AbandonAsMissing(c) ==
  /\ "crash" \in Faults
  /\ client[c].pc = "ask"
  /\ Become(c, [client[c] EXCEPT !.pc = "answered",
                                 !.answer = [Unasked EXCEPT !.state = "Missing"]])
  /\ UNCHANGED <<record, session, nextId, made, late>>

\* The process dies, or a question of it fails or is answered Unknown.
Abandon(c) ==
  /\ "crash" \in Faults
  /\ client[c].pc # "idle"
  /\ GiveUp(c)
  /\ UNCHANGED <<record, session, nextId, made, late>>

\* A rollback belongs to a creation, whichever operation asked for it.
KillCommand(c) ==
  LET rollback == client[c].pc = "rollback"
  IN  [kind |-> "kill", op |-> IF rollback THEN "create" ELSE client[c].op,
       socket |-> IF rollback THEN client[c].env ELSE Where(c),
       sid |-> client[c].aim.sid, inc |-> client[c].aim.inc]

CreateCommand(c) ==
  [kind |-> "create", op |-> client[c].op, sid |-> NoId, inc |-> 0,
   socket |-> client[c].env]

\* run_bounded gives up after its timeout: the operation fails and a create's
\* outcome is uncertain, but what was sent may still run.
TimesOut(c) ==
  /\ "late" \in Faults
  /\ \/ /\ client[c].pc \in {"kill", "rollback"}
        /\ late' = late \cup {KillCommand(c)}
     \/ /\ client[c].pc = "create"
        /\ late' = late \cup {CreateCommand(c)}
  /\ GiveUp(c)
  /\ UNCHANGED <<record, session, nextId, made>>

\* ssh exits 255 under a create that the host may or may not have received.
\* That is a status like any other: creation counts as failed for certain.
SshDrops(c) ==
  /\ "sshdrop" \in Faults
  /\ client[c].pc = "create"
  /\ late' = late \cup {CreateCommand(c)}
  /\ FailsForCertain(c)
  /\ UNCHANGED <<record, session, nextId, made>>

LateKill(k) ==
  /\ k \in late /\ k.kind = "kill"
  /\ IF GuardAccepts(k.socket, k.sid) THEN DestroySession(k.socket)
                                      ELSE UNCHANGED session
  /\ late' = late \ {k}
  /\ UNCHANGED <<record, nextId, made, client>>

LateCreate(k) ==
  /\ k \in late /\ k.kind = "create"
  /\ made < MaxIncarnations
  /\ IF Exists(k.socket) THEN UNCHANGED <<session, nextId, made>>
                         ELSE StartSession(k.socket)
  /\ late' = late \ {k}
  /\ UNCHANGED <<record, client>>

-----------------------------------------------------------------------------
(* The workload, its session and its server *)

\* Without remain-on-exit tmux closes the pane, and the session with its last.
WorkExits(s) ==
  /\ session[s].work = "running"
  /\ session' = [session EXCEPT ![s] =
                   IF @.remain THEN [@ EXCEPT !.work = "dead"]
                   ELSE IF @.active = "own" THEN NoSession ELSE [@ EXCEPT !.work = "gone"]]
  /\ UNCHANGED <<record, nextId, made, client, late>>

SessionEndsOutside(s) ==
  /\ "outside" \in Faults
  /\ Exists(s)
  /\ DestroySession(s)
  /\ UNCHANGED <<record, nextId, made, client, late>>

\* Another pane is split off, exits, or the workload's own becomes active.
ActivePaneChanges(s) ==
  /\ "split" \in Faults
  /\ Exists(s)
  /\ \E pane \in {"own", "live", "dead"} :
       /\ pane = "own" => session[s].work # "gone"
       /\ session' = [session EXCEPT ![s].active = pane]
  /\ UNCHANGED <<record, nextId, made, client, late>>

\* Somebody closes the launched pane; the session survives on another.
LaunchedPaneCloses(s) ==
  /\ session[s].work \in {"running", "dead"}
  /\ session[s].active # "own"
  /\ session' = [session EXCEPT ![s].work = "gone"]
  /\ UNCHANGED <<record, nextId, made, client, late>>

\* A server whose last session is gone exits, and its successor counts anew.
ServerExits(s) ==
  /\ "serverexit" \in Faults
  /\ ~Exists(s)
  /\ nextId' = [nextId EXCEPT ![s] = 0]
  /\ UNCHANGED <<record, session, made, client, late>>

-----------------------------------------------------------------------------
(* Specification *)

\* "pinned" is a workload as create leaves it.  "unpinned" is one recorded
\* before panes and sockets were, "legacy" one without an ownership proof.
InitialRecord(kind, s) ==
  CASE kind = "absent" -> AbsentRecord
    [] kind = "pinned" -> [AbsentRecord EXCEPT !.status = "Running", !.sid = 0,
                                               !.pane = 0, !.socket = s]
    [] kind = "unpinned" -> [AbsentRecord EXCEPT !.status = "Running", !.sid = 0]
    [] kind = "legacy" -> [AbsentRecord EXCEPT !.status = "Running", !.sid = 0,
                                               !.proof = FALSE]

HasSession(kind) == kind \in {"pinned", "unpinned"}

FirstSession ==
  [work |-> "running", inc |-> 1, sid |-> 0, remain |-> TRUE, active |-> "own"]

Init ==
  /\ \E kind \in InitialKinds, s \in Sockets :
       /\ record = InitialRecord(kind, s)
       /\ session = [t \in Sockets |->
                       IF HasSession(kind) /\ t = s THEN FirstSession ELSE NoSession]
       /\ nextId = [t \in Sockets |-> IF HasSession(kind) /\ t = s THEN 1 ELSE 0]
       /\ made = IF HasSession(kind) THEN 1 ELSE 0
  /\ client = [c \in Clients |-> Idle]
  /\ late = {}

Step(c) ==
  \/ Load(c) \/ Ask(c) \/ AskSession(c)
  \/ StopDeclares(c) \/ StopVerifies(c) \/ FinishClose(c)
  \/ OpenRecords(c) \/ OpenAttaches(c)
  \/ ObserveAlive(c) \/ ObserveOver(c)
  \/ RestartPromotes(c) \/ ReapInspects(c) \/ ReapVerifies(c)
  \/ Kill(c) \/ Retire(c)
  \/ Reserve(c) \/ Reload(c) \/ CreateSession(c) \/ Configure(c) \/ Rollback(c)
  \/ DropReservation(c) \/ Activate(c)

Fault(c) == Abandon(c) \/ TimesOut(c) \/ SshDrops(c)

Outside(s) ==
  \/ WorkExits(s) \/ SessionEndsOutside(s) \/ ActivePaneChanges(s)
  \/ LaunchedPaneCloses(s) \/ ServerExits(s)

Next ==
  \/ \E c \in Clients :
       \/ \E env \in Sockets : CreateReserves(c, env) \/ (\E op \in Ops : Begin(c, op, env))
       \/ Step(c)
       \/ Fault(c)
  \/ \E k \in late : LateKill(k) \/ LateCreate(k)
  \/ \E s \in Sockets : Outside(s)

Spec == Init /\ [][Next]_vars

\* A process that runs takes its next step: every transport call is bounded by a
\* timeout, and the store's lock is held for one update at a time.
Fairness == \A c \in Clients : WF_vars(Step(c))

LiveSpec == Spec /\ Fairness

-----------------------------------------------------------------------------
(* Properties *)

\* Every variable keeps its type: records, sessions and processes are well formed.
TypeOK ==
  /\ record \in Record
  /\ session \in [Sockets -> Session]
  /\ nextId \in [Sockets -> Nat]
  /\ made \in Nat
  /\ client \in [Clients -> ClientState]
  /\ late \subseteq Commands

OutstandingKills ==
  {KillCommand(c) : c \in {d \in Clients : client[d].pc \in {"kill", "rollback"}}}
    \cup {k \in late : k.kind = "kill"}

\* Whenever a kill is about to be sent, or may still arrive late, the guard
\* around it lets it end only the incarnation its operation inspected
\* (guarded_spec, close_exact): no other process's restart in between can put
\* a newer incarnation in its way.
KillsHitTheirTarget ==
  \A k \in OutstandingKills :
    GuardAccepts(k.socket, k.sid) => session[k.socket].inc = k.inc

\* Restart and remove reap sessions whose work is over (restart_owned,
\* remove_owned): no kill of theirs, sent or late, can end work that runs.
ReapsSpareRunningWork ==
  \A k \in OutstandingKills :
    k.op \in {"restart", "remove"} /\ GuardAccepts(k.socket, k.sid)
      => session[k.socket].work # "running"

\* A Stop persists Stopping before it ends anything (ensure_stopping): while a
\* kill of a Stop can end running work, the record does not show it as Running.
StopIsDeclared ==
  \A k \in OutstandingKills :
    k.op = "stop" /\ GuardAccepts(k.socket, k.sid)
      /\ session[k.socket].work = "running" => record.status # "Running"

\* A record says Ended or Removed only of work that is over (mark_ended,
\* finish_close, remove_owned).
EndedIsTrue ==
  record.proof /\ record.status \in {"Ended", "Removed"}
    => \A s \in Sockets : session[s].work # "running"

Quiet == late = {} /\ \A c \in Clients : client[c].pc = "idle"

\* When nothing is in progress, work that runs can be acted on from its record:
\* Stop takes it, or a restart promotes it (lookup_owned, stop_owned,
\* restart_owned).  No interruption leaves it running out of Tether's reach.
RunningWorkIsActionable ==
  Quiet => \A s \in Sockets :
    session[s].work = "running" =>
      /\ record.socket \in {s, NoSocket}
      /\ \/ /\ record.status \in {"Creating", "Running", "Stopping"}
            /\ record.sid \in {NoId, session[s].sid}
         \/ record.status = "Ended" /\ record.sid = session[s].sid

\* No two servers hold a session of the workload at once: a retry promotes the
\* session there is instead of creating a duplicate (restart_owned).
OneIncarnation ==
  \A s, t \in Sockets : Exists(s) /\ Exists(t) => s = t

\* No process is interrupted: what looks like a fault is a step of its own, as
\* when it gives up because the record does not allow its operation.
Uninterrupted == [][\A c \in Clients : Fault(c) => Step(c)]_vars

KeptUp(op) == []<><<\E c \in Clients, env \in Sockets : Begin(c, op, env)>>_vars

\* However often a Stop was interrupted, and whatever races it, stopping again
\* concludes it (lookup_owned, ensure_stopping, finish_close).
StopsConclude ==
  KeptUp("stop") /\ <>Uninterrupted => <>[](record.status \in {"Ended", "Removed"})

\* Interruptions never wedge a record: once work is over and no process is
\* interrupted any more, looking at the workload again and again, as every
\* picker refresh does, settles its record (observe_owned, mark_ended).
OverWorkIsSettled ==
  /\ KeptUp("observe")
  /\ <>Uninterrupted
  /\ <>[](\A s \in Sockets : session[s].work # "running")
  => <>[](record.status \in {"Ended", "Removed"})

\* A removed record never changes again, so it never comes back to the picker.
RemovedIsFinal == [][record.status = "Removed" => record' = record]_vars
=============================================================================
