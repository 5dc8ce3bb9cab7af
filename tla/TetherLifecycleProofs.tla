----------------------- MODULE TetherLifecycleProofs -----------------------
(***************************************************************************)
(* Proofs about TetherLifecycle for any number of processes, sockets,      *)
(* incarnations and operations: types, and what the kills of a stop, a     *)
(* restart and a removal may end.  The last part is about processes that   *)
(* take turns: what their records say is true, and what runs stays within  *)
(* their reach.                                                            *)
(***************************************************************************)
EXTENDS TetherLifecycle, TLAPS

-----------------------------------------------------------------------------
(* Type correctness *)

USE DEF NoId, Ids

\* One process's entry keeps its type under every step of the process: what it
\* reads is typed because the record and the sessions are.
LEMMA ClientConstantsTyped ==
  /\ AbsentRecord \in Record
  /\ NoSession \in Session
  /\ Unasked \in Answers
  /\ NoAim \in Aims
  /\ Idle \in ClientState
BY DEF AbsentRecord, Record, Statuses, NoSession, Session, Unasked, Answers, NoAim,
       Aims, Idle, ClientState, Steps, AllOps

\* A process that is in an operation runs on a real socket, and so do its commands.
EnvOK ==
  \A c \in Clients : client[c].pc # "idle" => client[c].env \in Sockets

\* What tmux answers to any question is a well-formed answer.
LEMMA AnswerTyped ==
  ASSUME TypeOK, NEW s \in Sockets, NEW pane
  PROVE  /\ Answer(s, pane) \in Answers
         /\ WithoutItsPane(Answer(s, pane)) \in Answers
<1>1. session[s] \in Session
  BY DEF TypeOK
<1>2. Answer(s, pane) \in Answers
  BY <1>1 DEF Answer, Answers, Session
<1> QED
  BY <1>2 DEF WithoutItsPane, Answers

\* The server a process asks is one of the sockets.
LEMMA WhereTyped ==
  ASSUME TypeOK, EnvOK, NEW c \in Clients, client[c].pc # "idle"
  PROVE  Where(c) \in Sockets
<1>1. client[c].snap \in Record /\ client[c].env \in Sockets
  BY DEF TypeOK, EnvOK, ClientState
<1> QED
  BY <1>1 DEF Where, Record

\* Replacing one process's entry by a typed one keeps all of them typed.
LEMMA BecomeTyped ==
  ASSUME TypeOK, EnvOK, NEW c \in Clients, NEW entry \in ClientState,
         entry.pc # "idle" => entry.env \in Sockets,
         Become(c, entry)
  PROVE  client' \in [Clients -> ClientState] /\ EnvOK'
BY DEF TypeOK, EnvOK, Become

LEMMA GiveUpTyped ==
  ASSUME TypeOK, EnvOK, NEW c \in Clients, GiveUp(c)
  PROVE  client' \in [Clients -> ClientState] /\ EnvOK'
<1>1. Idle.pc # "idle" => Idle.env \in Sockets
  BY DEF Idle
<1> QED
  BY <1>1, BecomeTyped, ClientConstantsTyped DEF GiveUp

LEMMA GotoTyped ==
  ASSUME TypeOK, EnvOK, NEW c \in Clients, NEW pc \in Steps, Goto(c, pc),
         client[c].pc # "idle"
  PROVE  client' \in [Clients -> ClientState] /\ EnvOK'
<1> DEFINE entry == [client[c] EXCEPT !.pc = pc]
<1>1. entry \in ClientState /\ entry.env = client[c].env
  BY DEF TypeOK, ClientState
<1>2. entry.env \in Sockets
  BY <1>1 DEF EnvOK
<1> HIDE DEF entry
<1>3. Become(c, entry)
  BY DEF Goto, entry
<1> QED
  BY <1>1, <1>2, <1>3, BecomeTyped

LEMMA AskAgainTyped ==
  ASSUME TypeOK, EnvOK, NEW c \in Clients, AskAgain(c), client[c].pc # "idle"
  PROVE  client' \in [Clients -> ClientState] /\ EnvOK'
<1> DEFINE entry == [client[c] EXCEPT !.pc = "ask", !.round = 2,
                                      !.answer = Unasked, !.aim = AimAtAnswer(c)]
<1>1. AimAtAnswer(c) \in Aims
  BY DEF TypeOK, ClientState, Answers, Aims, AimAtAnswer
<1>2. entry \in ClientState /\ entry.env = client[c].env
  BY <1>1, ClientConstantsTyped DEF TypeOK, ClientState, Steps
<1>3. entry.env \in Sockets
  BY <1>2 DEF EnvOK
<1>4. Become(c, entry)
  BY DEF AskAgain
<1> HIDE DEF entry
<1> QED
  BY <1>2, <1>3, <1>4, BecomeTyped

\* A record stays well formed when any of these fields are overwritten.
LEMMA RecordWrites ==
  ASSUME NEW r \in Record, NEW status \in Statuses, NEW sid \in Ids, NEW pane \in Ids,
         NEW socket \in Sockets \cup {NoSocket}, NEW rev \in Nat
  PROVE  /\ [r EXCEPT !.status = status] \in Record
         /\ [r EXCEPT !.status = status, !.sid = sid] \in Record
         /\ [r EXCEPT !.status = status, !.rev = rev] \in Record
         /\ [r EXCEPT !.sid = sid, !.rev = rev] \in Record
         /\ [r EXCEPT !.status = status, !.sid = sid, !.rev = rev] \in Record
         /\ [r EXCEPT !.status = status, !.rev = rev, !.sid = sid] \in Record
         /\ [r EXCEPT !.status = status, !.sid = sid, !.pane = pane,
                      !.socket = socket] \in Record
         /\ [r EXCEPT !.status = status, !.sid = sid, !.pane = pane,
                      !.socket = socket, !.rev = rev] \in Record
BY DEF Record

\* Every store update writes a well-formed record.
LEMMA SaveTyped ==
  ASSUME TypeOK, EnvOK, NEW c \in Clients, client[c].pc # "idle",
         \/ StopDeclares(c) \/ FinishClose(c) \/ OpenRecords(c) \/ ObserveAlive(c)
         \/ ObserveOver(c) \/ RestartPromotes(c) \/ Retire(c) \/ Reserve(c)
         \/ DropReservation(c) \/ Activate(c)
  PROVE  record' \in Record
<1>1. /\ record \in Record /\ record.sid \in Ids /\ record.rev \in Nat
      /\ client[c] \in ClientState /\ client[c].env \in Sockets
  BY DEF TypeOK, EnvOK, Record
<1>2. client[c].answer.sid \in Ids /\ client[c].aim.sid \in Ids
  BY <1>1 DEF ClientState, Answers, Aims
<1>3. {"Creating", "Running", "Stopping", "Ended", "Removed"} \subseteq Statuses
  BY DEF Statuses
<1>4. record.rev + 1 \in Nat /\ NoId \in Ids
  BY <1>1
<1> DEFINE sid == IF AnswerIs(c, {"Missing"}) THEN record.sid ELSE client[c].answer.sid
<1>5. sid \in Ids
  BY <1>1, <1>2
<1>6. CASE StopDeclares(c)
  <2> DEFINE r == [record EXCEPT !.status = "Stopping", !.sid = sid]
  <2>1. record' \in {r, record}
    BY <1>6 DEF StopDeclares, Save
  <2>2. r \in Record
    BY <1>1, <1>2, <1>3, <1>4, <1>5, RecordWrites
  <2> HIDE DEF r
  <2> QED
    BY <1>1, <2>1, <2>2
<1>7. CASE FinishClose(c)
  <2> DEFINE r == [record EXCEPT !.status = "Ended", !.rev = record.rev + 1]
  <2>1. record' \in {r, record}
    BY <1>7 DEF FinishClose, Save
  <2>2. r \in Record
    BY <1>1, <1>2, <1>3, <1>4, <1>5, RecordWrites
  <2> HIDE DEF r
  <2> QED
    BY <1>1, <2>1, <2>2
<1>8. CASE OpenRecords(c)
  <2> DEFINE r == [record EXCEPT !.sid = client[c].answer.sid, !.rev = record.rev + 1]
  <2>1. record' \in {r, record}
    BY <1>8 DEF OpenRecords, Save
  <2>2. r \in Record
    BY <1>1, <1>2, <1>3, <1>4, <1>5, RecordWrites
  <2> HIDE DEF r
  <2> QED
    BY <1>1, <2>1, <2>2
<1>9. CASE ObserveAlive(c)
  <2> DEFINE r == [record EXCEPT !.status = "Running", !.sid = client[c].answer.sid]
  <2>1. record' \in {r, record}
    BY <1>9 DEF ObserveAlive, Save
  <2>2. r \in Record
    BY <1>1, <1>2, <1>3, <1>4, <1>5, RecordWrites
  <2> HIDE DEF r
  <2> QED
    BY <1>1, <2>1, <2>2
<1>10. CASE RestartPromotes(c)
  <2> DEFINE r == [record EXCEPT !.status = "Running", !.sid = client[c].answer.sid, !.rev = record.rev + 1]
  <2>1. record' \in {r, record}
    BY <1>10 DEF RestartPromotes, Save
  <2>2. r \in Record
    BY <1>1, <1>2, <1>3, <1>4, <1>5, RecordWrites
  <2> HIDE DEF r
  <2> QED
    BY <1>1, <2>1, <2>2
<1>11. CASE Retire(c)
  <2> DEFINE r == [record EXCEPT !.status = "Removed", !.rev = record.rev + 1]
  <2>1. record' \in {r, record}
    BY <1>11 DEF Retire, Save
  <2>2. r \in Record
    BY <1>1, <1>2, <1>3, <1>4, <1>5, RecordWrites
  <2> HIDE DEF r
  <2> QED
    BY <1>1, <2>1, <2>2
<1>12. CASE Reserve(c)
  <2> DEFINE r == [record EXCEPT !.status = "Creating", !.sid = NoId, !.pane = NoId, !.socket = NoSocket]
  <2>1. record' \in {r, record}
    BY <1>12 DEF Reserve, Reservation, Save
  <2>2. r \in Record
    BY <1>1, <1>2, <1>3, <1>4, <1>5, RecordWrites
  <2> HIDE DEF r
  <2> QED
    BY <1>1, <2>1, <2>2
<1>13. CASE Activate(c)
  <2> DEFINE r == [record EXCEPT !.status = "Running", !.sid = client[c].aim.sid,
                               !.pane = client[c].aim.sid, !.socket = client[c].env, !.rev = record.rev + 1]
  <2>1. record' \in {r, record}
    BY <1>13 DEF Activate, Save
  <2>2. client[c].env \in Sockets \cup {NoSocket}
    BY <1>1
  <2>3. r \in Record
    <3> DEFINE ours == client[c].aim.sid
               server == client[c].env
               rev == record.rev + 1
    <3>1. ours \in Ids /\ server \in Sockets \cup {NoSocket} /\ rev \in Nat
      BY <1>2, <1>4, <2>2
    <3> HIDE DEF ours, server, rev
    <3>2. [record EXCEPT !.status = "Running", !.sid = ours, !.pane = ours,
                         !.socket = server, !.rev = rev] \in Record
      BY <1>1, <1>3, <3>1, RecordWrites
    <3> QED
      BY <3>2 DEF ours, server, rev
  <2> HIDE DEF r
  <2> QED
    BY <1>1, <2>1, <2>3
<1>14. CASE ObserveOver(c)
  <2> DEFINE r(rev) == [record EXCEPT !.status = "Ended", !.rev = rev, !.sid = sid]
  <2>1. record' \in {r(record.rev), r(record.rev + 1), record}
    BY <1>14 DEF ObserveOver, Save
  <2>2. ASSUME NEW rev \in Nat
        PROVE  r(rev) \in Record
    BY <1>1, <1>3, <1>5, <2>2, RecordWrites
  <2> HIDE DEF r
  <2> QED
    BY <1>1, <1>4, <2>1, <2>2
<1>15. CASE DropReservation(c)
  <2> DEFINE r == [AbsentRecord EXCEPT !.status = "Dropped"]
  <2>1. record' \in {r, record}
    BY <1>15 DEF DropReservation, Save
  <2>2. r \in Record
    BY DEF Record, Statuses, AbsentRecord
  <2> HIDE DEF r
  <2> QED
    BY <1>1, <2>1, <2>2
<1> QED
  BY <1>6, <1>7, <1>8, <1>9, <1>10, <1>11, <1>12, <1>13, <1>14, <1>15

LEMMA StartSessionTyped ==
  ASSUME TypeOK, NEW s \in Sockets, StartSession(s)
  PROVE  session' \in [Sockets -> Session] /\ nextId' \in [Sockets -> Nat] /\ made' \in Nat
BY DEF TypeOK, StartSession, Session

LEMMA DestroySessionTyped ==
  ASSUME TypeOK, NEW s \in Sockets, DestroySession(s)
  PROVE  session' \in [Sockets -> Session]
BY ClientConstantsTyped DEF TypeOK, DestroySession

\* The steps that only load or ask: they touch the process's entry alone.
LEMMA LoadAndAskTyped ==
  ASSUME TypeOK, EnvOK, NEW c \in Clients, Load(c) \/ Ask(c) \/ AskSession(c)
  PROVE  TypeOK' /\ EnvOK'
<1>1. client[c].pc # "idle" /\ client[c] \in ClientState /\ client[c].env \in Sockets
  BY DEF Load, Ask, AskSession, TypeOK, EnvOK
<1>2. UNCHANGED <<record, session, nextId, made, late>>
  BY DEF Load, Ask, AskSession
<1>3. client' \in [Clients -> ClientState] /\ EnvOK'
  <2>1. CASE Load(c) /\ Loadable(client[c].op, record)
    <3> DEFINE entry == [client[c] EXCEPT !.snap = record,
                                          !.pc = IF record.proof THEN "ask" ELSE "retire"]
    <3>1. entry \in ClientState /\ entry.env = client[c].env
      BY <1>1 DEF ClientState, TypeOK, Steps
    <3>2. Become(c, entry)
      BY <2>1 DEF Load
    <3> HIDE DEF entry
    <3> QED
      BY <1>1, <3>1, <3>2, BecomeTyped
  <2>2. CASE Load(c) /\ ~Loadable(client[c].op, record)
    BY <2>2, GiveUpTyped DEF Load
  <2>3. CASE Ask(c)
    <3> DEFINE answer == Answer(Where(c), client[c].snap.pane)
               entry == [client[c] EXCEPT !.pc = "answered", !.answer = answer]
    <3>1. answer \in Answers
      BY <1>1, WhereTyped, AnswerTyped
    <3> HIDE DEF answer
    <3>2. entry \in ClientState /\ entry.env = client[c].env
      BY <1>1, <3>1 DEF ClientState, Steps
    <3>3. Goto(c, "asksession") \/ Become(c, entry)
      BY <2>3 DEF Ask, answer
    <3> HIDE DEF entry
    <3>4. CASE Goto(c, "asksession")
      BY <1>1, <3>4, GotoTyped DEF Steps
    <3>5. CASE Become(c, entry)
      BY <1>1, <3>2, <3>5, BecomeTyped
    <3> QED
      BY <3>3, <3>4, <3>5
  <2>4. CASE AskSession(c)
    <3> DEFINE answer == WithoutItsPane(Answer(Where(c), NoId))
               entry == [client[c] EXCEPT !.pc = "answered", !.answer = answer]
    <3>1. answer \in Answers
      BY <1>1, WhereTyped, AnswerTyped
    <3> HIDE DEF answer
    <3>2. entry \in ClientState /\ entry.env = client[c].env
      BY <1>1, <3>1 DEF ClientState, Steps
    <3>3. Become(c, entry)
      BY <2>4 DEF AskSession, answer
    <3> HIDE DEF entry
    <3> QED
      BY <1>1, <3>2, <3>3, BecomeTyped
  <2> QED
    BY <2>1, <2>2, <2>3, <2>4
<1> QED
  BY <1>2, <1>3 DEF TypeOK

\* The other steps of an operation.
LEMMA StepTyped ==
  ASSUME TypeOK, EnvOK, NEW c \in Clients, Step(c)
  PROVE  TypeOK' /\ EnvOK'
<1> USE DEF Answered, At
<1>1. CASE Load(c) \/ Ask(c) \/ AskSession(c)
  BY <1>1, LoadAndAskTyped
<1>2. CASE StopDeclares(c) \/ OpenRecords(c)
  <2>1. client[c].pc # "idle"
    BY <1>2 DEF StopDeclares, OpenRecords
  <2>2. Goto(c, "finish") \/ AskAgain(c) \/ GiveUp(c)
    BY <1>2 DEF StopDeclares, OpenRecords
  <2>3. client' \in [Clients -> ClientState] /\ EnvOK'
    BY <2>1, <2>2, GotoTyped, AskAgainTyped, GiveUpTyped DEF Steps
  <2>4. record' \in Record
    BY <1>2, <2>1, SaveTyped
  <2> QED
    BY <1>2, <2>3, <2>4 DEF TypeOK, StopDeclares, OpenRecords
<1>3. CASE StopVerifies(c) \/ ReapInspects(c) \/ ReapVerifies(c) \/ OpenAttaches(c)
  <2>1. client[c].pc # "idle"
    BY <1>3 DEF StopVerifies, ReapInspects, ReapVerifies, OpenAttaches
  <2>2. \/ Goto(c, "finish") \/ Goto(c, "kill") \/ Goto(c, AfterReap(c))
        \/ AskAgain(c) \/ GiveUp(c)
    BY <1>3 DEF StopVerifies, ReapInspects, ReapVerifies, OpenAttaches
  <2>3. AfterReap(c) \in Steps
    BY DEF AfterReap, Steps
  <2>4. client' \in [Clients -> ClientState] /\ EnvOK'
    BY <2>1, <2>2, <2>3, GotoTyped, AskAgainTyped, GiveUpTyped DEF Steps
  <2> QED
    BY <1>3, <2>4 DEF TypeOK, StopVerifies, ReapInspects, ReapVerifies, OpenAttaches
<1>4. CASE \/ FinishClose(c) \/ ObserveAlive(c) \/ ObserveOver(c) \/ RestartPromotes(c)
           \/ Retire(c) \/ DropReservation(c) \/ Activate(c)
  <2> USE DEF FinishClose, ObserveAlive, ObserveOver, RestartPromotes, Retire,
              DropReservation, Activate
  <2>1. client[c].pc # "idle" /\ GiveUp(c) /\ UNCHANGED <<session, nextId, made, late>>
    BY <1>4
  <2>2. record' \in Record
    BY <1>4, <2>1, SaveTyped
  <2> QED
    BY <2>1, <2>2, GiveUpTyped DEF TypeOK
<1>5. CASE Reserve(c)
  <2>1. client[c].pc # "idle" /\ (Goto(c, "reload") \/ GiveUp(c))
    BY <1>5 DEF Reserve, Reservation
  <2>2. record' \in Record
    BY <1>5, <2>1, SaveTyped
  <2>3. client' \in [Clients -> ClientState] /\ EnvOK'
    BY <2>1, GotoTyped, GiveUpTyped DEF Steps
  <2> QED
    BY <1>5, <2>2, <2>3 DEF TypeOK, Reserve, Reservation
<1>6. CASE Reload(c)
  <2> DEFINE entry == [client[c] EXCEPT !.snap = record, !.pc = "create"]
  <2>1. entry \in ClientState /\ entry.env = client[c].env
    <3>1. client[c] \in ClientState /\ record \in Record /\ "create" \in Steps
      BY DEF TypeOK, Steps
    <3> QED
      BY <3>1 DEF ClientState
  <2>2. client[c].env \in Sockets
    BY <1>6 DEF Reload, EnvOK
  <2>3. GiveUp(c) \/ Become(c, entry)
    BY <1>6 DEF Reload
  <2> HIDE DEF entry
  <2>4. client' \in [Clients -> ClientState] /\ EnvOK'
    BY <2>1, <2>2, <2>3, GiveUpTyped, BecomeTyped
  <2> QED
    BY <1>6, <2>4 DEF Reload, TypeOK
<1>7. CASE Kill(c) \/ Rollback(c)
  <2>1. client[c].pc # "idle" /\ client[c].env \in Sockets /\ Where(c) \in Sockets
    BY <1>7, WhereTyped DEF Kill, Rollback, EnvOK
  <2>2. session' \in [Sockets -> Session]
    BY <1>7, <2>1, DestroySessionTyped DEF Kill, Rollback, TypeOK
  <2>3. Goto(c, "finish") \/ Goto(c, AfterReap(c)) \/ Goto(c, "drop") \/ GiveUp(c)
    BY <1>7 DEF Kill, Rollback, FailsForCertain
  <2>4. AfterReap(c) \in Steps
    BY DEF AfterReap, Steps
  <2>5. client' \in [Clients -> ClientState] /\ EnvOK'
    BY <2>1, <2>3, <2>4, GotoTyped, GiveUpTyped DEF Steps
  <2> QED
    BY <1>7, <2>2, <2>5 DEF Kill, Rollback, TypeOK
<1>8. CASE CreateSession(c)
  <2>1. client[c].pc # "idle" /\ client[c].env \in Sockets
    BY <1>8 DEF CreateSession, EnvOK
  <2>2. CASE Exists(client[c].env)
    <3>1. Goto(c, "drop") \/ GiveUp(c)
      BY <1>8, <2>2 DEF CreateSession, FailsForCertain
    <3>2. client' \in [Clients -> ClientState] /\ EnvOK'
      BY <2>1, <3>1, GotoTyped, GiveUpTyped DEF Steps
    <3> QED
      BY <1>8, <2>2, <3>2 DEF CreateSession, TypeOK
  <2>3. CASE ~Exists(client[c].env)
    <3> DEFINE aim == [sid |-> nextId[client[c].env], inc |-> made + 1]
               entry == [client[c] EXCEPT !.pc = "configure", !.aim = aim]
    <3>1. aim \in Aims
      BY <2>1 DEF Aims, TypeOK
    <3>2. Become(c, entry)
      BY <1>8, <2>3 DEF CreateSession
    <3> HIDE DEF aim
    <3>3. entry \in ClientState /\ entry.env = client[c].env
      <4>1. client[c] \in ClientState /\ "configure" \in Steps
        BY DEF TypeOK, Steps
      <4> QED
        BY <3>1, <4>1 DEF ClientState
    <3> HIDE DEF entry
    <3>4. client' \in [Clients -> ClientState] /\ EnvOK'
      BY <2>1, <3>2, <3>3, BecomeTyped
    <3>5. StartSession(client[c].env) /\ UNCHANGED <<record, late>>
      BY <1>8, <2>3 DEF CreateSession
    <3> QED
      BY <2>1, <3>4, <3>5, StartSessionTyped DEF TypeOK
  <2> QED
    BY <2>2, <2>3
<1>9. CASE Configure(c)
  <2>1. client[c].pc # "idle" /\ client[c].env \in Sockets
    BY <1>9 DEF Configure, EnvOK
  <2>2. Goto(c, "activate") \/ Goto(c, "rollback")
    BY <1>9 DEF Configure
  <2>3. client' \in [Clients -> ClientState] /\ EnvOK'
    BY <2>1, <2>2, GotoTyped DEF Steps
  <2>4. [session EXCEPT ![client[c].env].remain = TRUE] \in [Sockets -> Session]
    BY <2>1 DEF TypeOK, Session
  <2>5. session' \in [Sockets -> Session]
    BY <1>9, <2>4 DEF Configure, TypeOK
  <2> QED
    BY <1>9, <2>3, <2>5 DEF Configure, TypeOK
<1> QED
  BY <1>1, <1>2, <1>3, <1>4, <1>5, <1>6, <1>7, <1>8, <1>9 DEF Step

\* An operation begins on a socket its process resolved.
LEMMA BeginTyped ==
  ASSUME TypeOK, EnvOK, NEW c \in Clients, NEW env \in Sockets,
         CreateReserves(c, env) \/ \E op \in Ops : Begin(c, op, env)
  PROVE  TypeOK' /\ EnvOK'
<1>1. PICK op \in AllOps, pc \in Steps :
        Become(c, [client[c] EXCEPT !.pc = pc, !.op = op, !.env = env])
  BY ChoiceAssumption DEF CreateReserves, Begin, AllOps, Steps
<1> DEFINE entry == [client[c] EXCEPT !.pc = pc, !.op = op, !.env = env]
<1>2. entry \in ClientState /\ entry.env \in Sockets
  <2>1. client[c] \in ClientState /\ env \in Sockets \cup {NoSocket}
    BY DEF TypeOK
  <2> QED
    BY <2>1 DEF ClientState
<1>3. Become(c, entry)
  BY <1>1
<1> HIDE DEF entry
<1>4. client' \in [Clients -> ClientState] /\ EnvOK'
  BY <1>2, <1>3, BecomeTyped
<1>5. record' \in Record /\ UNCHANGED <<session, nextId, made, late>>
  <2>1. [AbsentRecord EXCEPT !.status = "Creating"] \in Record
    BY DEF AbsentRecord, Record, Statuses
  <2> QED
    BY <2>1 DEF CreateReserves, Begin, Save, TypeOK
<1> QED
  BY <1>4, <1>5 DEF TypeOK

\* What a process leaves behind when it gives up on tmux is a command.
LEMMA CommandsTyped ==
  ASSUME TypeOK, EnvOK, NEW c \in Clients, client[c].pc # "idle"
  PROVE  KillCommand(c) \in Commands /\ CreateCommand(c) \in Commands
<1>1. client[c].env \in Sockets /\ Where(c) \in Sockets
  BY WhereTyped DEF EnvOK
<1>2. client[c].op \in AllOps /\ client[c].aim.sid \in Ids /\ client[c].aim.inc \in Nat
  BY DEF TypeOK, ClientState, Aims
<1> QED
  BY <1>1, <1>2 DEF KillCommand, CreateCommand, Commands, AllOps

LEMMA FaultTyped ==
  ASSUME TypeOK, EnvOK, NEW c \in Clients, Fault(c)
  PROVE  TypeOK' /\ EnvOK'
<1>1. client[c].pc # "idle" /\ (GiveUp(c) \/ Goto(c, "drop"))
  BY DEF Fault, Abandon, TimesOut, SshDrops, FailsForCertain
<1>2. client' \in [Clients -> ClientState] /\ EnvOK'
  BY <1>1, GiveUpTyped, GotoTyped DEF Steps
<1>3. late' \subseteq Commands
  BY <1>1, CommandsTyped DEF Fault, Abandon, TimesOut, SshDrops, TypeOK
<1>4. UNCHANGED <<record, session, nextId, made>>
  BY DEF Fault, Abandon, TimesOut, SshDrops
<1> QED
  BY <1>2, <1>3, <1>4 DEF TypeOK

LEMMA LateTyped ==
  ASSUME TypeOK, EnvOK, NEW k \in late, LateKill(k) \/ LateCreate(k)
  PROVE  TypeOK' /\ EnvOK'
<1>1. k.socket \in Sockets
  BY DEF TypeOK, Commands
<1>2. late' \subseteq Commands /\ UNCHANGED <<record, client>>
  BY DEF LateKill, LateCreate, TypeOK
<1>3. session' \in [Sockets -> Session] /\ nextId' \in [Sockets -> Nat] /\ made' \in Nat
  BY <1>1, StartSessionTyped, DestroySessionTyped DEF LateKill, LateCreate, TypeOK
<1> QED
  BY <1>2, <1>3 DEF TypeOK, EnvOK

LEMMA OutsideTyped ==
  ASSUME TypeOK, EnvOK, NEW s \in Sockets, Outside(s)
  PROVE  TypeOK' /\ EnvOK'
<1>1. UNCHANGED <<record, made, client, late>>
  BY DEF Outside, WorkExits, SessionEndsOutside, ActivePaneChanges, LaunchedPaneCloses,
         ServerExits
<1>2. nextId' \in [Sockets -> Nat]
  BY DEF Outside, WorkExits, SessionEndsOutside, ActivePaneChanges, LaunchedPaneCloses,
         ServerExits, TypeOK
<1>3. session' \in [Sockets -> Session]
  <2>1. CASE WorkExits(s)
    <3>1. /\ [session[s] EXCEPT !.work = "dead"] \in Session
          /\ [session[s] EXCEPT !.work = "gone"] \in Session
      BY DEF TypeOK, Session
    <3> QED
      BY <2>1, <3>1, ClientConstantsTyped DEF WorkExits, TypeOK
  <2>2. CASE SessionEndsOutside(s)
    BY <2>2, DestroySessionTyped DEF SessionEndsOutside
  <2>3. CASE ActivePaneChanges(s)
    BY <2>3 DEF ActivePaneChanges, TypeOK, Session
  <2>4. CASE LaunchedPaneCloses(s)
    BY <2>4 DEF LaunchedPaneCloses, TypeOK, Session
  <2>5. CASE ServerExits(s)
    BY <2>5 DEF ServerExits, TypeOK
  <2> QED
    BY <2>1, <2>2, <2>3, <2>4, <2>5 DEF Outside
<1> QED
  BY <1>1, <1>2, <1>3 DEF TypeOK, EnvOK

LEMMA InitTyped == Init => TypeOK /\ EnvOK
<1> SUFFICES ASSUME Init PROVE TypeOK /\ EnvOK
  OBVIOUS
<1>1. PICK kind \in InitialKinds, s \in Sockets :
        /\ record = InitialRecord(kind, s)
        /\ session = [t \in Sockets |->
                        IF HasSession(kind) /\ t = s THEN FirstSession ELSE NoSession]
        /\ nextId = [t \in Sockets |-> IF HasSession(kind) /\ t = s THEN 1 ELSE 0]
        /\ made = IF HasSession(kind) THEN 1 ELSE 0
  BY DEF Init
<1>2. record \in Record
  BY <1>1, ChoiceAssumption DEF InitialRecord, AllKinds, AbsentRecord, Record, Statuses
<1>3. session \in [Sockets -> Session]
  BY <1>1, ClientConstantsTyped DEF FirstSession, Session
<1>4. nextId \in [Sockets -> Nat] /\ made \in Nat
  BY <1>1
<1>5. client \in [Clients -> ClientState] /\ late \subseteq Commands /\ EnvOK
  BY ClientConstantsTyped DEF Init, EnvOK, Idle
<1> QED
  BY <1>2, <1>3, <1>4, <1>5 DEF TypeOK

LEMMA NextTyped == TypeOK /\ EnvOK /\ [Next]_vars => TypeOK' /\ EnvOK'
<1> SUFFICES ASSUME TypeOK, EnvOK, [Next]_vars PROVE TypeOK' /\ EnvOK'
  OBVIOUS
<1>1. ASSUME NEW c \in Clients, NEW env \in Sockets,
             CreateReserves(c, env) \/ \E op \in Ops : Begin(c, op, env)
      PROVE  TypeOK' /\ EnvOK'
  BY <1>1, BeginTyped
<1>2. ASSUME NEW c \in Clients, Step(c) PROVE TypeOK' /\ EnvOK'
  BY <1>2, StepTyped
<1>3. ASSUME NEW c \in Clients, Fault(c) PROVE TypeOK' /\ EnvOK'
  BY <1>3, FaultTyped
<1>4. ASSUME NEW k \in late, LateKill(k) \/ LateCreate(k) PROVE TypeOK' /\ EnvOK'
  BY <1>4, LateTyped
<1>5. ASSUME NEW s \in Sockets, Outside(s) PROVE TypeOK' /\ EnvOK'
  BY <1>5, OutsideTyped
<1>6. CASE UNCHANGED vars
  BY <1>6 DEF vars, TypeOK, EnvOK
<1> QED
  BY <1>1, <1>2, <1>3, <1>4, <1>5, <1>6 DEF Next

\* Records, sessions and processes stay well formed, and a process in the
\* middle of an operation always has a socket to ask.
THEOREM TypeCorrect == Spec => [](TypeOK /\ EnvOK)
BY InitTyped, NextTyped, PTL DEF Spec

-----------------------------------------------------------------------------
(* Kills hit their target *)

\* A server with a session alive keeps counting, so it never hands out a
\* session id twice: the theorem needs servers that do not exit.
ServersStay == "serverexit" \notin Faults

IdsBelowNext ==
  \A s \in Sockets : Exists(s) => session[s].sid \in Nat /\ session[s].sid < nextId[s]

\* At socket s, session id sid can only mean incarnation inc, now and later.
Names(s, sid, inc) ==
  sid < nextId[s] /\ (GuardAccepts(s, sid) => session[s].inc = inc)

PinnedOnWhere(c) ==
  \/ client[c].pc \in {"ask", "asksession", "answered"} /\ client[c].round = 2
  \/ client[c].pc = "kill"

\* What a process learned from tmux still names the incarnation it was about.
ProcessKnows(c) ==
  /\ client[c].pc \in {"idle", "load"} => client[c].round = 1
  /\ client[c].pc = "answered" =>
       Names(Where(c), client[c].answer.sid, client[c].answer.inc)
  /\ PinnedOnWhere(c) => Names(Where(c), client[c].aim.sid, client[c].aim.inc)
  /\ client[c].pc \in {"configure", "rollback"} =>
       Names(client[c].env, client[c].aim.sid, client[c].aim.inc)

LateKnows == \A k \in late : k.kind = "kill" => Names(k.socket, k.sid, k.inc)

KillInv ==
  /\ TypeOK /\ EnvOK /\ IdsBelowNext
  /\ \A c \in Clients : ProcessKnows(c)
  /\ LateKnows

\* What every step does to the servers: a session stays the one it is, or it is
\* gone, or its id is new.
ServersAdvance ==
  \A s \in Sockets :
    /\ nextId[s] <= nextId'[s]
    /\ Exists(s)' =>
         /\ session'[s].sid \in Nat /\ session'[s].sid < nextId'[s]
         /\ \/ session'[s].sid >= nextId[s]
            \/ /\ Exists(s) /\ session'[s].sid = session[s].sid
               /\ session'[s].inc = session[s].inc

LEMMA StartAdvances ==
  ASSUME TypeOK, IdsBelowNext, NEW s \in Sockets, StartSession(s)
  PROVE  ServersAdvance
BY DEF TypeOK, IdsBelowNext, StartSession, ServersAdvance, Exists

LEMMA DestroyAdvances ==
  ASSUME TypeOK, IdsBelowNext, NEW s \in Sockets, DestroySession(s), UNCHANGED nextId
  PROVE  ServersAdvance
BY DEF TypeOK, IdsBelowNext, DestroySession, ServersAdvance, Exists, NoSession

LEMMA StillAdvances ==
  ASSUME TypeOK, IdsBelowNext, UNCHANGED <<session, nextId>>
  PROVE  ServersAdvance
BY DEF TypeOK, IdsBelowNext, ServersAdvance, Exists

LEMMA NextAdvances ==
  ASSUME ServersStay, TypeOK, EnvOK, IdsBelowNext, Next
  PROVE  ServersAdvance
<1>1. ASSUME NEW c \in Clients, NEW env \in Sockets,
             CreateReserves(c, env) \/ \E op \in Ops : Begin(c, op, env)
      PROVE  ServersAdvance
  BY <1>1, StillAdvances DEF CreateReserves, Begin
<1>2. ASSUME NEW c \in Clients, Step(c) PROVE ServersAdvance
  <2>1. CASE Kill(c) \/ Rollback(c)
    <3>1. client[c].env \in Sockets /\ Where(c) \in Sockets
      BY <2>1, WhereTyped DEF Kill, Rollback, EnvOK
    <3> QED
      BY <2>1, <3>1, DestroyAdvances, StillAdvances DEF Kill, Rollback
  <2>2. CASE CreateSession(c)
    <3>1. client[c].env \in Sockets
      BY <2>2 DEF CreateSession, EnvOK
    <3> QED
      BY <2>2, <3>1, StartAdvances, StillAdvances DEF CreateSession
  <2>3. CASE Configure(c)
    <3>1. client[c].env \in Sockets
      BY <2>3 DEF Configure, EnvOK
    <3>2. UNCHANGED nextId
      BY <2>3 DEF Configure
    <3>3. session' = session \/ session' = [session EXCEPT ![client[c].env].remain = TRUE]
      BY <2>3 DEF Configure
    <3> QED
      BY <3>1, <3>2, <3>3 DEF ServersAdvance, TypeOK, Session, IdsBelowNext, Exists
  <2>4. CASE ~(Kill(c) \/ Rollback(c) \/ CreateSession(c) \/ Configure(c))
    <3>1. UNCHANGED <<session, nextId>>
      BY <1>2, <2>4 DEF Step, Load, Ask, AskSession, StopDeclares, StopVerifies,
         FinishClose, OpenRecords, OpenAttaches, ObserveAlive, ObserveOver,
         RestartPromotes, ReapInspects, ReapVerifies, Retire, Reserve, Reload,
         DropReservation, Activate
    <3> QED
      BY <3>1, StillAdvances
  <2> QED
    BY <2>1, <2>2, <2>3, <2>4
<1>3. ASSUME NEW c \in Clients, Fault(c) PROVE ServersAdvance
  BY <1>3, StillAdvances DEF Fault, Abandon, TimesOut, SshDrops
<1>4. ASSUME NEW k \in late, LateKill(k) \/ LateCreate(k) PROVE ServersAdvance
  <2>1. k.socket \in Sockets
    BY DEF TypeOK, Commands
  <2> QED
    BY <1>4, <2>1, StartAdvances, DestroyAdvances, StillAdvances DEF LateKill, LateCreate
<1>5. ASSUME NEW s \in Sockets, Outside(s) PROVE ServersAdvance
  <2>1. ~ServerExits(s)
    BY DEF ServersStay, ServerExits
  <2>2. UNCHANGED nextId
    BY <1>5, <2>1 DEF Outside, WorkExits, SessionEndsOutside, ActivePaneChanges,
       LaunchedPaneCloses
  <2>3. CASE SessionEndsOutside(s)
    BY <2>2, <2>3, DestroyAdvances DEF SessionEndsOutside
  <2>4. CASE WorkExits(s) \/ ActivePaneChanges(s) \/ LaunchedPaneCloses(s)
    <3>1. /\ Exists(s)
          /\ \A t \in Sockets \ {s} : session'[t] = session[t]
          /\ Exists(s)' => /\ session'[s].sid = session[s].sid
                           /\ session'[s].inc = session[s].inc
      BY <2>4 DEF WorkExits, ActivePaneChanges, LaunchedPaneCloses, TypeOK, Session,
         Exists, NoSession
    <3> QED
      BY <2>2, <3>1 DEF ServersAdvance, TypeOK, IdsBelowNext, Exists
  <2> QED
    BY <1>5, <2>1, <2>3, <2>4 DEF Outside
<1> QED
  BY <1>1, <1>2, <1>3, <1>4, <1>5 DEF Next

\* The same fact about the state after the step, free of primes on its arguments.
NamesNext(s, sid, inc) ==
  /\ sid < nextId'[s]
  /\ session'[s].work # "none" /\ session'[s].sid = sid => session'[s].inc = inc

LEMMA NamesStaysNext ==
  ASSUME TypeOK, TypeOK', IdsBelowNext, ServersAdvance, NEW s \in Sockets,
         NEW sid \in Ids, NEW inc, Names(s, sid, inc)
  PROVE  NamesNext(s, sid, inc)
<1>1. nextId[s] \in Nat /\ nextId'[s] \in Nat
  BY DEF TypeOK
<1> QED
  BY <1>1 DEF ServersAdvance, Names, NamesNext, GuardAccepts, Exists

\* What a process still knows after the servers moved, if its entry stays.
LEMMA KnowledgeStays ==
  ASSUME TypeOK, TypeOK', EnvOK, IdsBelowNext, ServersAdvance, NEW c \in Clients,
         client[c].pc # "idle", ProcessKnows(c)
  PROVE  /\ client[c].pc = "answered" =>
              NamesNext(Where(c), client[c].answer.sid, client[c].answer.inc)
         /\ PinnedOnWhere(c) => NamesNext(Where(c), client[c].aim.sid, client[c].aim.inc)
         /\ client[c].pc \in {"configure", "rollback"} =>
              NamesNext(client[c].env, client[c].aim.sid, client[c].aim.inc)
<1>1. Where(c) \in Sockets /\ client[c].env \in Sockets
  BY WhereTyped DEF EnvOK
<1>2. client[c].answer.sid \in Ids /\ client[c].aim.sid \in Ids
  BY DEF TypeOK, ClientState, Answers, Aims
<1> QED
  BY <1>1, <1>2, NamesStaysNext DEF ProcessKnows

\* A process whose entry a step leaves alone knows what it knew.
LEMMA UnmovedKnows ==
  ASSUME TypeOK, TypeOK', EnvOK, IdsBelowNext, ServersAdvance, NEW d \in Clients,
         client'[d] = client[d], ProcessKnows(d)
  PROVE  ProcessKnows(d)'
<1>1. CASE client[d].pc = "idle"
  BY <1>1 DEF ProcessKnows, PinnedOnWhere
<1>2. CASE client[d].pc # "idle"
  <2>1. Where(d)' = Where(d)
    BY DEF Where
  <2> QED
    BY <1>2, <2>1, KnowledgeStays DEF ProcessKnows, PinnedOnWhere, Names, NamesNext,
       GuardAccepts, Exists
<1> QED
  BY <1>1, <1>2

\* tmux names only incarnations it holds.
LEMMA AnswerNames ==
  ASSUME TypeOK, IdsBelowNext, NEW s \in Sockets, NEW pane
  PROVE  /\ Names(s, Answer(s, pane).sid, Answer(s, pane).inc)
         /\ Names(s, WithoutItsPane(Answer(s, pane)).sid, WithoutItsPane(Answer(s, pane)).inc)
<1> DEFINE answer == Answer(s, pane)
<1>1. \/ answer.sid = NoId
      \/ Exists(s) /\ answer.sid = session[s].sid /\ answer.inc = session[s].inc
  BY DEF Answer
<1>2. nextId[s] \in Nat
  BY DEF TypeOK
<1>3. Names(s, answer.sid, answer.inc)
  BY <1>1, <1>2 DEF Names, GuardAccepts, IdsBelowNext
<1>4. /\ WithoutItsPane(answer).sid = answer.sid
      /\ WithoutItsPane(answer).inc = answer.inc
  BY AnswerTyped DEF WithoutItsPane, Answers
<1> QED
  BY <1>3, <1>4

\* Leaving the steps at which something is known needs no knowledge.
LEMMA ForgettingKnows ==
  ASSUME NEW c \in Clients, TypeOK, GiveUp(c)
            \/ \E pc \in {"finish", "reserve", "reload", "create", "drop", "activate", "retire"} :
                 client'[c].pc = pc
  PROVE  ProcessKnows(c)'
BY DEF ProcessKnows, PinnedOnWhere, GiveUp, Become, Idle, TypeOK

LEMMA GotoKnows ==
  ASSUME TypeOK, TypeOK', EnvOK, IdsBelowNext, ServersAdvance, NEW c \in Clients,
         ProcessKnows(c), NEW pc, Goto(c, pc), client[c].pc # "idle",
         \/ pc \in {"finish", "reserve", "reload", "create", "drop", "activate", "retire"}
         \/ pc = "kill" /\ client[c].pc = "answered" /\ client[c].round = 2
         \/ pc = "asksession" /\ client[c].pc = "ask"
         \/ pc = "rollback" /\ client[c].pc = "configure"
  PROVE  ProcessKnows(c)'
<1>1. /\ client'[c].pc = pc /\ client'[c].round = client[c].round
      /\ client'[c].env = client[c].env /\ client'[c].aim = client[c].aim
      /\ client'[c].snap = client[c].snap
  BY DEF TypeOK, ClientState, Goto, Become
<1>2. Where(c)' = Where(c)
  BY <1>1 DEF Where
<1> QED
  BY <1>1, <1>2, KnowledgeStays DEF ProcessKnows, PinnedOnWhere, Names, NamesNext,
     GuardAccepts, Exists

LEMMA AskAgainKnows ==
  ASSUME TypeOK, TypeOK', EnvOK, IdsBelowNext, ServersAdvance, NEW c \in Clients,
         ProcessKnows(c), AskAgain(c), client[c].pc = "answered"
  PROVE  ProcessKnows(c)'
<1>1. /\ client'[c].pc = "ask" /\ client'[c].env = client[c].env
      /\ client'[c].aim.sid = client[c].answer.sid
      /\ client'[c].aim.inc = client[c].answer.inc
      /\ client'[c].snap = client[c].snap
  BY DEF TypeOK, ClientState, AskAgain, AimAtAnswer, Become
<1>2. Where(c)' = Where(c)
  BY <1>1 DEF Where
<1> QED
  BY <1>1, <1>2, KnowledgeStays DEF ProcessKnows, PinnedOnWhere, Names, NamesNext,
     GuardAccepts, Exists

\* A step that reads the record or asks tmux learns only what is true.
LEMMA ReadingKnows ==
  ASSUME TypeOK, TypeOK', EnvOK, IdsBelowNext, ServersAdvance, NEW c \in Clients,
         ProcessKnows(c), Load(c) \/ Ask(c) \/ AskSession(c)
  PROVE  ProcessKnows(c)'
<1>1. client[c].pc # "idle" /\ client[c] \in ClientState /\ Where(c) \in Sockets
  BY WhereTyped DEF Load, Ask, AskSession, TypeOK
<1>2. UNCHANGED <<session, nextId>>
  BY DEF Load, Ask, AskSession
<1>3. CASE Load(c)
  <2>1. client[c].round = 1
    BY <1>3 DEF Load, ProcessKnows
  <2>2. CASE ~Loadable(client[c].op, record)
    BY <1>3, <2>2, ForgettingKnows DEF Load
  <2>3. CASE Loadable(client[c].op, record)
    <3> DEFINE entry == [client[c] EXCEPT !.snap = record,
                                          !.pc = IF record.proof THEN "ask" ELSE "retire"]
    <3>1. entry.pc \in {"ask", "retire"} /\ entry.round = 1
      BY <1>1, <2>1 DEF ClientState
    <3>2. client'[c] = entry
      BY <1>3, <2>3 DEF Load, Become, TypeOK
    <3> HIDE DEF entry
    <3> QED
      BY <3>1, <3>2 DEF ProcessKnows, PinnedOnWhere
  <2> QED
    BY <2>2, <2>3
<1>4. CASE Ask(c) \/ AskSession(c)
  <2> DEFINE asked == Answer(Where(c), client[c].snap.pane)
             without == WithoutItsPane(Answer(Where(c), NoId))
  <2>1. /\ Names(Where(c), asked.sid, asked.inc) /\ asked.sid \in Ids
        /\ Names(Where(c), without.sid, without.inc) /\ without.sid \in Ids
    BY <1>1, AnswerNames, AnswerTyped DEF Answers
  <2>2. CASE Ask(c) /\ Goto(c, "asksession")
    BY <1>1, <2>2, GotoKnows DEF Ask
  <2> HIDE DEF asked, without
  <2>3. CASE ~(Ask(c) /\ Goto(c, "asksession"))
    <3>1. PICK answer \in {asked, without} :
            Become(c, [client[c] EXCEPT !.pc = "answered", !.answer = answer])
      BY <1>4, <2>3 DEF Ask, AskSession, asked, without
    <3>2. /\ client'[c].pc = "answered" /\ client'[c].answer = answer
          /\ client'[c].round = client[c].round /\ client'[c].aim = client[c].aim
          /\ client'[c].env = client[c].env /\ client'[c].snap = client[c].snap
      BY <1>1, <3>1 DEF Become, TypeOK, ClientState
    <3>3. Where(c)' = Where(c)
      BY <3>2 DEF Where
    <3>4. NamesNext(Where(c), answer.sid, answer.inc)
      BY <1>1, <2>1, NamesStaysNext
    <3>5. client[c].pc \in {"ask", "asksession"}
      BY <1>4 DEF Ask, AskSession
    <3> QED
      <4>1. Names(Where(c), client[c].answer.sid, client[c].answer.inc)'
        BY <3>2, <3>3, <3>4 DEF Names, NamesNext, GuardAccepts, Exists
      <4>2. PinnedOnWhere(c)' => PinnedOnWhere(c)
        BY <3>2, <3>5 DEF PinnedOnWhere
      <4>3. PinnedOnWhere(c) => NamesNext(Where(c), client[c].aim.sid, client[c].aim.inc)
        BY <1>1, KnowledgeStays
      <4>4. PinnedOnWhere(c)' => Names(Where(c), client[c].aim.sid, client[c].aim.inc)'
        BY <3>2, <3>3, <4>2, <4>3 DEF Names, NamesNext, GuardAccepts, Exists
      <4> QED
        BY <3>2, <4>1, <4>4 DEF ProcessKnows
  <2> QED
    BY <2>2, <2>3
<1> QED
  BY <1>3, <1>4

\* A new session is named by the id the server handed out for it.
LEMMA CreatingKnows ==
  ASSUME TypeOK, TypeOK', EnvOK, IdsBelowNext, NEW c \in Clients, CreateSession(c)
  PROVE  ProcessKnows(c)'
<1>1. client[c].pc # "idle" /\ client[c].env \in Sockets
  BY DEF CreateSession, EnvOK
<1>2. CASE Exists(client[c].env)
  <2>1. Goto(c, "drop") \/ GiveUp(c)
    BY <1>2 DEF CreateSession, FailsForCertain
  <2>2. CASE Goto(c, "drop")
    <3>1. client'[c].pc = "drop"
      BY <2>2 DEF Goto, Become, TypeOK, ClientState
    <3> QED
      BY <3>1 DEF ProcessKnows, PinnedOnWhere
  <2> QED
    BY <2>1, <2>2, ForgettingKnows
<1>3. CASE ~Exists(client[c].env)
  <2> DEFINE s == client[c].env
             aim == [sid |-> nextId[s], inc |-> made + 1]
             entry == [client[c] EXCEPT !.pc = "configure", !.aim = aim]
  <2>1. entry.pc = "configure" /\ entry.aim = aim /\ entry.env = s
    BY DEF TypeOK, ClientState
  <2>2. client'[c] = entry
    BY <1>3 DEF CreateSession, Become, TypeOK
  <2>3. nextId[s] < nextId'[s] /\ session'[s].inc = made + 1
    BY <1>1, <1>3 DEF CreateSession, StartSession, TypeOK
  <2> HIDE DEF entry
  <2> QED
    BY <2>1, <2>2, <2>3 DEF ProcessKnows, PinnedOnWhere, Names
<1> QED
  BY <1>2, <1>3

LEMMA StepKnows ==
  ASSUME TypeOK, TypeOK', EnvOK, IdsBelowNext, ServersAdvance, NEW c \in Clients,
         ProcessKnows(c), Step(c)
  PROVE  ProcessKnows(c)'
<1> USE DEF Answered, At
<1>1. CASE Load(c) \/ Ask(c) \/ AskSession(c)
  BY <1>1, ReadingKnows
<1>2. CASE StopDeclares(c) \/ OpenRecords(c)
  <2>1. client[c].pc = "answered" /\ (Goto(c, "finish") \/ AskAgain(c) \/ GiveUp(c))
    BY <1>2 DEF StopDeclares, OpenRecords
  <2> QED
    BY <2>1, GotoKnows, AskAgainKnows, ForgettingKnows
<1>3. CASE StopVerifies(c) \/ ReapVerifies(c)
  <2>1. client[c].pc = "answered" /\ client[c].round = 2
    BY <1>3 DEF StopVerifies, ReapVerifies
  <2>2. Goto(c, "finish") \/ Goto(c, "kill") \/ Goto(c, AfterReap(c)) \/ GiveUp(c)
    BY <1>3 DEF StopVerifies, ReapVerifies
  <2>3. AfterReap(c) \in {"reserve", "retire"}
    BY DEF AfterReap
  <2> QED
    BY <2>1, <2>2, <2>3, GotoKnows, ForgettingKnows
<1>4. CASE ReapInspects(c)
  <2>1. client[c].pc = "answered"
    BY <1>4 DEF ReapInspects
  <2>2. Goto(c, AfterReap(c)) \/ AskAgain(c) \/ GiveUp(c)
    BY <1>4 DEF ReapInspects
  <2>3. AfterReap(c) \in {"reserve", "retire"}
    BY DEF AfterReap
  <2> QED
    BY <2>1, <2>2, <2>3, GotoKnows, AskAgainKnows, ForgettingKnows
<1>5. CASE \/ OpenAttaches(c) \/ FinishClose(c) \/ ObserveAlive(c) \/ ObserveOver(c)
           \/ RestartPromotes(c) \/ Retire(c) \/ DropReservation(c) \/ Activate(c)
  <2>1. GiveUp(c)
    BY <1>5 DEF OpenAttaches, FinishClose, ObserveAlive, ObserveOver, RestartPromotes,
       Retire, DropReservation, Activate
  <2> QED
    BY <2>1, ForgettingKnows
<1>6. CASE Reserve(c)
  <2>1. client[c].pc # "idle" /\ (Goto(c, "reload") \/ GiveUp(c))
    BY <1>6 DEF Reserve
  <2> QED
    BY <2>1, GotoKnows, ForgettingKnows
<1>7. CASE Reload(c)
  <2> DEFINE entry == [client[c] EXCEPT !.snap = record, !.pc = "create"]
  <2>1. entry.pc = "create"
    BY DEF TypeOK, ClientState
  <2>2. GiveUp(c) \/ client'[c] = entry
    BY <1>7 DEF Reload, Become, TypeOK
  <2> HIDE DEF entry
  <2> QED
    BY <2>1, <2>2, ForgettingKnows
<1>8. CASE Kill(c) \/ Rollback(c)
  <2>1. client[c].pc # "idle"
    BY <1>8 DEF Kill, Rollback
  <2>2. Goto(c, "finish") \/ Goto(c, AfterReap(c)) \/ Goto(c, "drop") \/ GiveUp(c)
    BY <1>8 DEF Kill, Rollback, FailsForCertain
  <2>3. AfterReap(c) \in {"reserve", "retire"}
    BY DEF AfterReap
  <2> QED
    BY <2>1, <2>2, <2>3, GotoKnows, ForgettingKnows
<1>9. CASE CreateSession(c)
  BY <1>9, CreatingKnows
<1>10. CASE Configure(c)
  <2>1. client[c].pc = "configure" /\ (Goto(c, "activate") \/ Goto(c, "rollback"))
    BY <1>10 DEF Configure
  <2> QED
    BY <2>1, GotoKnows
<1> QED
  BY <1>1, <1>2, <1>3, <1>4, <1>5, <1>6, <1>7, <1>8, <1>9, <1>10 DEF Step

LEMMA BeginKnows ==
  ASSUME TypeOK, NEW c \in Clients, NEW env \in Sockets, ProcessKnows(c),
         CreateReserves(c, env) \/ \E op \in Ops : Begin(c, op, env)
  PROVE  ProcessKnows(c)'
<1>1. PICK op \in AllOps, pc \in {"load", "create"} :
        Become(c, [client[c] EXCEPT !.pc = pc, !.op = op, !.env = env])
  BY ChoiceAssumption DEF CreateReserves, Begin, AllOps
<1>2. client[c].round = 1
  BY DEF CreateReserves, Begin, ProcessKnows
<1> DEFINE entry == [client[c] EXCEPT !.pc = pc, !.op = op, !.env = env]
<1>3. entry.pc = pc /\ entry.round = 1
  BY <1>2 DEF TypeOK, ClientState
<1>4. client'[c] = entry
  BY <1>1 DEF Become, TypeOK
<1> HIDE DEF entry
<1> QED
  BY <1>3, <1>4 DEF ProcessKnows, PinnedOnWhere

LEMMA FaultKnows ==
  ASSUME TypeOK, NEW c \in Clients, Fault(c)
  PROVE  ProcessKnows(c)'
<1>1. GiveUp(c) \/ Goto(c, "drop")
  BY DEF Fault, Abandon, TimesOut, SshDrops, FailsForCertain
<1>2. CASE Goto(c, "drop")
  <2>1. client'[c].pc = "drop"
    BY <1>2 DEF Goto, Become, TypeOK, ClientState
  <2> QED
    BY <2>1, ForgettingKnows
<1> QED
  BY <1>1, <1>2, ForgettingKnows

\* A process moves only its own entry.
LEMMA OthersUnmoved ==
  ASSUME TypeOK, NEW c \in Clients, NEW d \in Clients, d # c,
         \/ Step(c) \/ Fault(c)
         \/ \E env \in Sockets : CreateReserves(c, env) \/ \E op \in Ops : Begin(c, op, env)
  PROVE  client'[d] = client[d]
<1>1. \E entry : Become(c, entry)
  <2> USE DEF GiveUp, Goto, AskAgain, FailsForCertain
  <2>1. CASE Step(c)
    <3>1. CASE Load(c) \/ Ask(c) \/ AskSession(c) \/ Reload(c) \/ CreateSession(c)
      BY <3>1 DEF Load, Ask, AskSession, Reload, CreateSession
    <3>2. CASE StopDeclares(c) \/ StopVerifies(c) \/ FinishClose(c)
      BY <3>2 DEF StopDeclares, StopVerifies, FinishClose
    <3>3. CASE OpenRecords(c) \/ OpenAttaches(c) \/ ObserveAlive(c) \/ ObserveOver(c)
      BY <3>3 DEF OpenRecords, OpenAttaches, ObserveAlive, ObserveOver
    <3>4. CASE RestartPromotes(c) \/ ReapInspects(c) \/ ReapVerifies(c) \/ Kill(c)
      BY <3>4 DEF RestartPromotes, ReapInspects, ReapVerifies, Kill
    <3>5. CASE Retire(c) \/ Reserve(c) \/ Rollback(c) \/ DropReservation(c) \/ Activate(c)
      BY <3>5 DEF Retire, Reserve, Rollback, DropReservation, Activate
    <3>6. CASE Configure(c)
      BY <3>6 DEF Configure
    <3> QED
      BY <2>1, <3>1, <3>2, <3>3, <3>4, <3>5, <3>6 DEF Step
  <2>2. CASE Fault(c)
    BY <2>2 DEF Fault, Abandon, TimesOut, SshDrops
  <2>3. CASE \E env \in Sockets : CreateReserves(c, env) \/ \E op \in Ops : Begin(c, op, env)
    BY <2>3 DEF CreateReserves, Begin
  <2> QED
    BY <2>1, <2>2, <2>3
<1> QED
  BY <1>1 DEF Become, TypeOK

\* Commands left behind by a process that gave up still name their incarnation.
LEMMA LateStays ==
  ASSUME TypeOK, TypeOK', EnvOK, IdsBelowNext, ServersAdvance, LateKnows,
         \A c \in Clients : ProcessKnows(c), Next
  PROVE  LateKnows'
<1>1. ASSUME NEW k \in late, k.kind = "kill"
      PROVE  Names(k.socket, k.sid, k.inc)'
  <2>1. k.socket \in Sockets /\ k.sid \in Ids
    BY DEF TypeOK, Commands
  <2>2. NamesNext(k.socket, k.sid, k.inc)
    BY <1>1, <2>1, NamesStaysNext DEF LateKnows
  <2> QED
    BY <2>2 DEF Names, NamesNext, GuardAccepts, Exists
<1>2. CASE late' \subseteq late
  BY <1>1, <1>2 DEF LateKnows
<1>3. CASE \E c \in Clients : Fault(c)
  <2>1. PICK c \in Clients : Fault(c)
    BY <1>3
  <2>2. CASE late' \subseteq late \cup {CreateCommand(c)}
    BY <1>1, <2>2 DEF LateKnows, CreateCommand
  <2>3. CASE late' = late \cup {KillCommand(c)} /\ client[c].pc \in {"kill", "rollback"}
    <3>1. /\ KillCommand(c).sid = client[c].aim.sid
          /\ KillCommand(c).inc = client[c].aim.inc
          /\ KillCommand(c).socket =
               IF client[c].pc = "rollback" THEN client[c].env ELSE Where(c)
      BY DEF KillCommand
    <3>2. NamesNext(KillCommand(c).socket, KillCommand(c).sid, KillCommand(c).inc)
      BY <2>3, <3>1, KnowledgeStays DEF PinnedOnWhere
    <3>3. ASSUME NEW k, k = KillCommand(c)
          PROVE  Names(k.socket, k.sid, k.inc)'
      BY <3>2, <3>3 DEF Names, NamesNext, GuardAccepts, Exists
    <3> QED
      BY <1>1, <2>3, <3>3 DEF LateKnows
  <2> QED
    BY <2>1, <2>2, <2>3 DEF Fault, Abandon, TimesOut, SshDrops
<1>4. CASE ~(\E c \in Clients : Fault(c))
  <2>1. late' \subseteq late
    BY <1>4 DEF Next, CreateReserves, Begin, Step, LateKill, LateCreate, Outside,
       Load, Ask, AskSession, StopDeclares, StopVerifies, FinishClose, OpenRecords,
       OpenAttaches, ObserveAlive, ObserveOver, RestartPromotes, ReapInspects,
       ReapVerifies, Kill, Retire, Reserve, Reload, CreateSession, Configure, Rollback,
       DropReservation, Activate, WorkExits, SessionEndsOutside, ActivePaneChanges,
       LaunchedPaneCloses, ServerExits
  <2> QED
    BY <1>2, <2>1
<1> QED
  BY <1>3, <1>4

LEMMA KillInvStep == ServersStay /\ KillInv /\ [Next]_vars => KillInv'
<1> SUFFICES ASSUME ServersStay, KillInv, [Next]_vars PROVE KillInv'
  OBVIOUS
<1>1. CASE UNCHANGED vars
  BY <1>1 DEF vars, KillInv, TypeOK, EnvOK, IdsBelowNext, ProcessKnows, PinnedOnWhere,
     LateKnows, Names, GuardAccepts, Exists, Where
<1>2. CASE Next
  <2>1. TypeOK' /\ EnvOK'
    BY NextTyped DEF KillInv
  <2>2. ServersAdvance
    BY <1>2, NextAdvances DEF KillInv
  <2>3. IdsBelowNext'
    BY <2>2 DEF ServersAdvance, IdsBelowNext
  <2>4. LateKnows'
    BY <1>2, <2>1, <2>2, LateStays DEF KillInv
  <2>5. ASSUME NEW d \in Clients PROVE ProcessKnows(d)'
    <3>1. CASE client'[d] = client[d]
      BY <2>1, <2>2, <3>1, UnmovedKnows DEF KillInv
    <3>2. ASSUME NEW c \in Clients,
                 \/ Step(c) \/ Fault(c)
                 \/ \E env \in Sockets :
                      CreateReserves(c, env) \/ \E op \in Ops : Begin(c, op, env)
          PROVE  ProcessKnows(d)'
      <4>1. CASE c = d
        BY <2>1, <2>2, <3>2, <4>1, StepKnows, FaultKnows, BeginKnows DEF KillInv
      <4>2. CASE c # d
        BY <3>1, <3>2, <4>2, OthersUnmoved DEF KillInv
      <4> QED
        BY <4>1, <4>2
    <3>3. CASE \E k \in late : LateKill(k) \/ LateCreate(k)
      BY <3>1, <3>3 DEF LateKill, LateCreate
    <3>4. CASE \E s \in Sockets : Outside(s)
      BY <3>1, <3>4 DEF Outside, WorkExits, SessionEndsOutside, ActivePaneChanges,
         LaunchedPaneCloses, ServerExits
    <3> QED
      BY <1>2, <3>2, <3>3, <3>4 DEF Next
  <2> QED
    BY <2>1, <2>3, <2>4, <2>5 DEF KillInv
<1> QED
  BY <1>1, <1>2

LEMMA KillInvInit == Init => KillInv
<1> SUFFICES ASSUME Init PROVE KillInv
  OBVIOUS
<1>1. TypeOK /\ EnvOK
  BY InitTyped
<1>2. IdsBelowNext
  BY DEF Init, IdsBelowNext, Exists, NoSession, FirstSession
<1>3. \A c \in Clients : ProcessKnows(c)
  BY DEF Init, ProcessKnows, PinnedOnWhere, Idle
<1>4. LateKnows
  BY DEF Init, LateKnows
<1> QED
  BY <1>1, <1>2, <1>3, <1>4 DEF KillInv

LEMMA KillInvSuffices == KillInv => KillsHitTheirTarget
<1> SUFFICES ASSUME KillInv, NEW k \in OutstandingKills, GuardAccepts(k.socket, k.sid)
             PROVE  session[k.socket].inc = k.inc
  BY DEF KillsHitTheirTarget
<1>1. CASE k \in late /\ k.kind = "kill"
  BY <1>1 DEF KillInv, LateKnows, Names
<1>2. ASSUME NEW c \in Clients, client[c].pc \in {"kill", "rollback"}, k = KillCommand(c)
      PROVE  session[k.socket].inc = k.inc
  BY <1>2 DEF KillInv, ProcessKnows, PinnedOnWhere, Names, KillCommand
<1> QED
  BY <1>1, <1>2 DEF OutstandingKills

\* While tmux servers keep running, no kill ever ends an incarnation other than
\* the one its operation inspected: not with any number of processes, sockets
\* and restarts, and not when a timed-out kill arrives late.
THEOREM KillsAreExact ==
  ASSUME ServersStay
  PROVE  Spec => []KillsHitTheirTarget
<1>1. Init => KillInv
  BY KillInvInit
<1>2. KillInv /\ [Next]_vars => KillInv'
  BY KillInvStep
<1>3. KillInv => KillsHitTheirTarget
  BY KillInvSuffices
<1> QED
  BY <1>1, <1>2, <1>3, PTL DEF Spec
-----------------------------------------------------------------------------
(* Reaps are harmless.  A restart or a removal kills what it was told has   *)
(* ended; ReapInv follows that knowledge from tmux's answer to the kill.    *)

\* Nobody splits the session's window, so the pane tmux reports for a session is
\* the workload's own.
WindowsStayWhole == "split" \notin Faults

OwnIsActive == \A s \in Sockets : Exists(s) => session[s].active = "own"

\* At socket s, session id sid names no running work, now and later.
Over(s, sid) ==
  sid < nextId[s] /\ (session[s].sid = sid => session[s].work # "running")

\* A record that names the launched pane names its session, by an id that the
\* server has handed out.
PaneIsOld(r, next) ==
  r.pane # NoId =>
    /\ r.status # "Creating"
    /\ r.sid = r.pane
    /\ r.socket # NoSocket
    /\ r.pane < next[r.socket]

\* What a process knows of the work it may reap.
ReaperKnows(c) ==
  /\ PaneIsOld(client[c].snap, nextId)
  /\ client[c].pc = "asksession" =>
       client[c].snap.pane # NoId /\ Over(Where(c), client[c].snap.pane)
  /\ client[c].pc = "answered" /\ AnswerIs(c, {"Ended"}) =>
       \/ Over(Where(c), client[c].answer.sid)
       \/ client[c].snap.pane # NoId /\ client[c].answer.sid # client[c].snap.pane
  /\ PinnedOnWhere(c) /\ client[c].snap.pane # NoId =>
       client[c].aim.sid = client[c].snap.pane
  /\ client[c].pc = "kill" /\ client[c].op \in {"restart", "remove"} =>
       Over(Where(c), client[c].aim.sid)
  /\ client[c].pc = "activate" => client[c].aim.sid < nextId[client[c].env]

LateReapsKnow ==
  \A k \in late :
    k.kind = "kill" /\ k.op \in {"restart", "remove"} => Over(k.socket, k.sid)

ReapInv ==
  /\ KillInv
  /\ OwnIsActive
  /\ PaneIsOld(record, nextId)
  /\ \A c \in Clients : ReaperKnows(c)
  /\ LateReapsKnow

-----------------------------------------------------------------------------
(* What every step does to the work, and to its windows *)

\* What every step does to the work: once over, it is over for good.
WorkAdvances ==
  \A s \in Sockets :
    session'[s].sid = session[s].sid /\ session[s].work # "running"
      => \/ session'[s].work # "running"
         \/ session'[s].sid = nextId[s] \/ session'[s].sid = NoId

LEMMA StartOwns ==
  ASSUME TypeOK, OwnIsActive, NEW s \in Sockets, StartSession(s)
  PROVE  OwnIsActive' /\ WorkAdvances
<1>1. /\ session' = [session EXCEPT ![s] =
                       [work |-> "running", inc |-> made + 1, sid |-> nextId[s],
                        remain |-> FALSE, active |-> "own"]]
      /\ session \in [Sockets -> Session]
  BY DEF StartSession, TypeOK
<1> QED
  BY <1>1 DEF OwnIsActive, WorkAdvances, Exists

LEMMA DestroyOwns ==
  ASSUME TypeOK, OwnIsActive, NEW s \in Sockets, DestroySession(s)
  PROVE  OwnIsActive' /\ WorkAdvances
BY DEF TypeOK, DestroySession, OwnIsActive, WorkAdvances, Exists, NoSession

LEMMA StillOwns ==
  ASSUME OwnIsActive, UNCHANGED session
  PROVE  OwnIsActive' /\ WorkAdvances
BY DEF OwnIsActive, WorkAdvances, Exists

LEMMA NextOwns ==
  ASSUME WindowsStayWhole, TypeOK, EnvOK, OwnIsActive, Next
  PROVE  OwnIsActive' /\ WorkAdvances
<1>1. ASSUME NEW c \in Clients, NEW env \in Sockets,
             CreateReserves(c, env) \/ \E op \in Ops : Begin(c, op, env)
      PROVE  OwnIsActive' /\ WorkAdvances
  BY <1>1, StillOwns DEF CreateReserves, Begin
<1>2. ASSUME NEW c \in Clients, Step(c) PROVE OwnIsActive' /\ WorkAdvances
  <2>1. CASE Kill(c) \/ Rollback(c)
    <3>1. client[c].env \in Sockets /\ Where(c) \in Sockets
      BY <2>1, WhereTyped DEF Kill, Rollback, EnvOK
    <3> QED
      BY <2>1, <3>1, DestroyOwns, StillOwns DEF Kill, Rollback
  <2>2. CASE CreateSession(c)
    <3>1. client[c].env \in Sockets
      BY <2>2 DEF CreateSession, EnvOK
    <3> QED
      BY <2>2, <3>1, StartOwns, StillOwns DEF CreateSession
  <2>3. CASE Configure(c)
    <3>1. client[c].env \in Sockets
      BY <2>3 DEF Configure, EnvOK
    <3>2. session' = session \/ session' = [session EXCEPT ![client[c].env].remain = TRUE]
      BY <2>3 DEF Configure
    <3> QED
      BY <3>1, <3>2 DEF WorkAdvances, OwnIsActive, TypeOK, Session, Exists
  <2>4. CASE ~(Kill(c) \/ Rollback(c) \/ CreateSession(c) \/ Configure(c))
    <3>1. UNCHANGED session
      BY <1>2, <2>4 DEF Step, Load, Ask, AskSession, StopDeclares, StopVerifies,
         FinishClose, OpenRecords, OpenAttaches, ObserveAlive, ObserveOver,
         RestartPromotes, ReapInspects, ReapVerifies, Retire, Reserve, Reload,
         DropReservation, Activate
    <3> QED
      BY <3>1, StillOwns
  <2> QED
    BY <2>1, <2>2, <2>3, <2>4
<1>3. ASSUME NEW c \in Clients, Fault(c) PROVE OwnIsActive' /\ WorkAdvances
  BY <1>3, StillOwns DEF Fault, Abandon, TimesOut, SshDrops
<1>4. ASSUME NEW k \in late, LateKill(k) \/ LateCreate(k)
      PROVE  OwnIsActive' /\ WorkAdvances
  <2>1. k.socket \in Sockets
    BY DEF TypeOK, Commands
  <2> QED
    BY <1>4, <2>1, StartOwns, DestroyOwns, StillOwns DEF LateKill, LateCreate
<1>5. ASSUME NEW s \in Sockets, Outside(s) PROVE OwnIsActive' /\ WorkAdvances
  <2>1. ~ActivePaneChanges(s)
    BY DEF WindowsStayWhole, ActivePaneChanges
  <2>2. CASE ServerExits(s)
    BY <2>2, StillOwns DEF ServerExits
  <2>3. CASE SessionEndsOutside(s)
    BY <2>3, DestroyOwns DEF SessionEndsOutside
  <2>4. CASE WorkExits(s) \/ LaunchedPaneCloses(s)
    <3>1. /\ \A t \in Sockets \ {s} : session'[t] = session[t]
          /\ Exists(s) /\ session'[s].work # "running"
          /\ Exists(s)' => session'[s].active = session[s].active
      BY <2>4 DEF WorkExits, LaunchedPaneCloses, TypeOK, Session, Exists, NoSession
    <3> QED
      BY <3>1 DEF WorkAdvances, OwnIsActive, Exists
  <2> QED
    BY <1>5, <2>1, <2>2, <2>3, <2>4 DEF Outside
<1> QED
  BY <1>1, <1>2, <1>3, <1>4, <1>5 DEF Next

\* The same fact about the state after the step, free of primes on its arguments.
OverNext(s, sid) ==
  sid < nextId'[s] /\ (session'[s].sid = sid => session'[s].work # "running")

LEMMA OverStaysNext ==
  ASSUME TypeOK, TypeOK', IdsBelowNext, ServersAdvance, WorkAdvances, NEW s \in Sockets,
         NEW sid \in Ids, Over(s, sid)
  PROVE  OverNext(s, sid)
<1>1. nextId[s] \in Nat /\ nextId'[s] \in Nat /\ nextId[s] <= nextId'[s]
  BY DEF TypeOK, ServersAdvance
<1>2. sid < nextId[s] /\ (session[s].sid = sid => session[s].work # "running")
  BY DEF Over
<1>3. sid < nextId'[s]
  BY <1>1, <1>2
<1>4. ASSUME session'[s].sid = sid, session'[s].work = "running" PROVE FALSE
  <2>1. Exists(s)'
    BY <1>4 DEF Exists
  <2>2. session'[s].sid \in Nat /\ session[s].sid = sid
    BY <1>1, <1>2, <1>4, <2>1 DEF ServersAdvance
  <2>3. session'[s].sid # nextId[s] /\ session'[s].sid # NoId
    BY <1>1, <1>2, <1>4, <2>2
  <2> QED
    BY <1>2, <1>4, <2>2, <2>3 DEF WorkAdvances
<1> QED
  BY <1>3, <1>4 DEF OverNext


-----------------------------------------------------------------------------
(* The pane a record names, and what a process knows of it *)

\* What a step of a process does to the pane a record names.
PaneMoves(c) ==
  \/ record' = record
  \/ record'.pane = NoId
  \/ /\ record'.pane = record.pane /\ record'.socket = record.socket
     /\ record'.status # "Creating" /\ record'.sid = record.sid
  \/ /\ client[c].pc = "activate"
     /\ record'.status = "Running" /\ record'.sid = client[c].aim.sid
     /\ record'.pane = client[c].aim.sid /\ record'.socket = client[c].env

LEMMA StepMovesPane ==
  ASSUME TypeOK, NEW c \in Clients, PaneIsOld(record, nextId), Step(c)
  PROVE  PaneMoves(c)
<1>1. record \in Record
  BY DEF TypeOK
<1> USE DEF Answered, At, Save, SnapshotHolds, IdentityMatches
<1>2. CASE UNCHANGED record
  BY <1>2 DEF PaneMoves
<1>3. CASE StopDeclares(c) /\ ~UNCHANGED record
  <2> DEFINE sid == IF AnswerIs(c, {"Missing"}) THEN record.sid ELSE client[c].answer.sid
  <2>1. /\ record' = [record EXCEPT !.status = "Stopping", !.sid = sid]
        /\ record.sid \in {NoId, sid}
    BY <1>3 DEF StopDeclares
  <2>2. record.pane # NoId => sid = record.sid
    BY <2>1 DEF PaneIsOld
  <2> HIDE DEF sid
  <2> QED
    BY <1>1, <2>1, <2>2 DEF PaneMoves, Record
<1>4. CASE (OpenRecords(c) \/ ObserveAlive(c)) /\ ~UNCHANGED record
  <2> DEFINE sid == client[c].answer.sid
  <2>1. /\ \/ record' = [record EXCEPT !.sid = sid, !.rev = record.rev + 1]
           \/ record' = [record EXCEPT !.status = "Running", !.sid = sid]
        /\ record.sid \in {NoId, sid}
    BY <1>4 DEF OpenRecords, ObserveAlive
  <2>2. record.pane # NoId => sid = record.sid /\ record.status # "Creating"
    BY <2>1 DEF PaneIsOld
  <2> HIDE DEF sid
  <2> QED
    BY <1>1, <2>1, <2>2 DEF PaneMoves, Record
<1>5. CASE ObserveOver(c) /\ ~UNCHANGED record
  <2> DEFINE sid == IF AnswerIs(c, {"Missing"}) THEN record.sid ELSE client[c].answer.sid
  <2>1. /\ \E rev : record' = [record EXCEPT !.status = "Ended", !.rev = rev, !.sid = sid]
        /\ record.sid \in {NoId, sid}
    BY <1>5 DEF ObserveOver
  <2>2. record.pane # NoId => sid = record.sid
    BY <2>1 DEF PaneIsOld
  <2> HIDE DEF sid
  <2> QED
    BY <1>1, <2>1, <2>2 DEF PaneMoves, Record
<1>6. CASE RestartPromotes(c) /\ ~UNCHANGED record
  <2> DEFINE sid == client[c].answer.sid
  <2>1. /\ record' = [record EXCEPT !.status = "Running", !.sid = sid, !.rev = record.rev + 1]
        /\ record.status = "Creating" \/ record.sid = sid
    BY <1>6 DEF RestartPromotes
  <2>2. record.pane # NoId => sid = record.sid
    BY <2>1 DEF PaneIsOld
  <2> HIDE DEF sid
  <2> QED
    BY <1>1, <2>1, <2>2 DEF PaneMoves, Record
<1>7. CASE (FinishClose(c) \/ Retire(c)) /\ ~UNCHANGED record
  <2>1. \E status \in {"Ended", "Removed"} :
          record' = [record EXCEPT !.status = status, !.rev = record.rev + 1]
    BY <1>7 DEF FinishClose, Retire
  <2> QED
    BY <1>1, <2>1 DEF PaneMoves, Record
<1>8. CASE (Reserve(c) \/ DropReservation(c)) /\ ~UNCHANGED record
  <2>1. \/ record' = [record EXCEPT !.status = "Creating", !.sid = NoId, !.pane = NoId,
                                    !.socket = NoSocket]
        \/ record' = [AbsentRecord EXCEPT !.status = "Dropped"]
    BY <1>8 DEF Reserve, Reservation, DropReservation
  <2> QED
    BY <1>1, <2>1 DEF PaneMoves, Record, AbsentRecord
<1>9. CASE Activate(c) /\ ~UNCHANGED record
  <2>1. /\ record' = [record EXCEPT !.status = "Running", !.sid = client[c].aim.sid,
                        !.pane = client[c].aim.sid, !.socket = client[c].env,
                        !.rev = record.rev + 1]
        /\ client[c].pc = "activate"
    BY <1>9 DEF Activate
  <2> QED
    BY <1>1, <2>1 DEF PaneMoves, Record
<1> QED
  BY <1>2, <1>3, <1>4, <1>5, <1>6, <1>7, <1>8, <1>9 DEF Step, Load, Ask, AskSession,
     StopVerifies, OpenAttaches, ReapInspects, ReapVerifies, Kill, Reload,
     CreateSession, Configure, Rollback

\* An id the server has handed out stays handed out.
OldNext(r) == PaneIsOld(r, nextId')

LEMMA PaneStaysOld ==
  ASSUME TypeOK, TypeOK', ServersAdvance, NEW r \in Record, PaneIsOld(r, nextId)
  PROVE  OldNext(r)
<1>1. CASE r.pane # NoId
  <2>1. r.socket \in Sockets /\ r.pane \in Int
    BY <1>1 DEF Record, PaneIsOld
  <2>2. nextId[r.socket] \in Nat /\ nextId'[r.socket] \in Nat
        /\ nextId[r.socket] <= nextId'[r.socket]
    BY <2>1 DEF TypeOK, ServersAdvance
  <2> QED
    BY <2>1, <2>2 DEF PaneIsOld, OldNext
<1> QED
  BY <1>1 DEF PaneIsOld, OldNext

LEMMA RecordPaneStaysOld ==
  ASSUME TypeOK, TypeOK', EnvOK, ServersAdvance, NEW c \in Clients, ReaperKnows(c),
         PaneIsOld(record, nextId), PaneMoves(c)
  PROVE  OldNext(record')
<1>1. OldNext(record) /\ record \in Record /\ record' \in Record
  BY PaneStaysOld DEF TypeOK
<1>2. CASE client[c].pc = "activate" /\ record'.status = "Running"
           /\ record'.sid = client[c].aim.sid
           /\ record'.pane = client[c].aim.sid /\ record'.socket = client[c].env
  <2>1. client[c].env \in Sockets /\ client[c].aim.sid \in Int
    BY <1>2 DEF EnvOK, TypeOK, ClientState, Aims
  <2>2. client[c].aim.sid < nextId[client[c].env]
    BY <1>2 DEF ReaperKnows
  <2>3. nextId[client[c].env] \in Nat /\ nextId'[client[c].env] \in Nat
        /\ nextId[client[c].env] <= nextId'[client[c].env]
    BY <2>1 DEF TypeOK, ServersAdvance
  <2>4. client[c].env # NoSocket
    BY <2>1, SocketAssumption
  <2> QED
    BY <1>2, <2>1, <2>2, <2>3, <2>4 DEF OldNext, PaneIsOld
<1>3. CASE /\ record'.pane = record.pane /\ record'.socket = record.socket
           /\ record'.status # "Creating" /\ record'.sid = record.sid
  BY <1>1, <1>3 DEF OldNext, PaneIsOld
<1> QED
  BY <1>1, <1>2, <1>3 DEF PaneMoves, OldNext, PaneIsOld

\* What the workload's end leaves a process knowing.
LEMMA ReaperStays ==
  ASSUME TypeOK, TypeOK', EnvOK, IdsBelowNext, ServersAdvance, WorkAdvances,
         NEW c \in Clients, client[c].pc # "idle", ReaperKnows(c)
  PROVE  /\ OldNext(client[c].snap)
         /\ client[c].pc = "asksession" =>
              client[c].snap.pane # NoId /\ OverNext(Where(c), client[c].snap.pane)
         /\ client[c].pc = "answered" /\ AnswerIs(c, {"Ended"}) =>
              \/ OverNext(Where(c), client[c].answer.sid)
              \/ client[c].snap.pane # NoId /\ client[c].answer.sid # client[c].snap.pane
         /\ client[c].pc = "kill" /\ client[c].op \in {"restart", "remove"} =>
              OverNext(Where(c), client[c].aim.sid)
         /\ client[c].pc = "activate" => client[c].aim.sid < nextId'[client[c].env]
<1>1. Where(c) \in Sockets /\ client[c].env \in Sockets
  BY WhereTyped DEF EnvOK
<1>2. /\ client[c].answer.sid \in Ids /\ client[c].aim.sid \in Ids
      /\ client[c].snap \in Record /\ client[c].snap.pane \in Ids
  BY DEF TypeOK, ClientState, Answers, Aims, Record
<1>3. nextId[client[c].env] \in Nat /\ nextId'[client[c].env] \in Nat
      /\ nextId[client[c].env] <= nextId'[client[c].env]
  BY <1>1 DEF TypeOK, ServersAdvance
<1>4. OldNext(client[c].snap)
  BY <1>2, PaneStaysOld DEF ReaperKnows
<1>5. client[c].pc = "activate" => client[c].aim.sid < nextId'[client[c].env]
  BY <1>2, <1>3 DEF ReaperKnows
<1> QED
  BY <1>1, <1>2, <1>4, <1>5, OverStaysNext DEF ReaperKnows

LEMMA UnmovedReaper ==
  ASSUME TypeOK, TypeOK', EnvOK, IdsBelowNext, ServersAdvance, WorkAdvances,
         NEW d \in Clients, client'[d] = client[d], ReaperKnows(d)
  PROVE  ReaperKnows(d)'
<1>1. CASE client[d].pc = "idle"
  <2>1. client[d].snap \in Record
    BY DEF TypeOK, ClientState
  <2>2. OldNext(client[d].snap)
    BY <2>1, PaneStaysOld DEF ReaperKnows
  <2> QED
    BY <1>1, <2>2 DEF ReaperKnows, PinnedOnWhere, OldNext
<1>2. CASE client[d].pc # "idle"
  <2>1. Where(d)' = Where(d) /\ (AnswerIs(d, {"Ended"})' = AnswerIs(d, {"Ended"}))
        /\ (PinnedOnWhere(d)' = PinnedOnWhere(d))
    BY DEF Where, AnswerIs, PinnedOnWhere
  <2> QED
    BY <1>2, <2>1, ReaperStays DEF ReaperKnows, Over, OverNext, OldNext
<1> QED
  BY <1>1, <1>2


\* Leaving the steps at which something is known needs no knowledge of the work.
LEMMA ForgettingReaps ==
  ASSUME TypeOK, NEW c \in Clients, GiveUp(c)
  PROVE  ReaperKnows(c)'
BY DEF ReaperKnows, PinnedOnWhere, GiveUp, Become, Idle, AbsentRecord, PaneIsOld, TypeOK

LEMMA GotoReaps ==
  ASSUME TypeOK, TypeOK', EnvOK, IdsBelowNext, ServersAdvance, WorkAdvances,
         NEW c \in Clients, ProcessKnows(c), ReaperKnows(c), NEW pc, Goto(c, pc),
         client[c].pc # "idle",
         \/ pc \in {"finish", "reserve", "reload", "create", "drop", "retire", "rollback"}
         \/ pc = "activate" /\ client[c].pc = "configure"
         \/ /\ pc = "kill"
            /\ client[c].op \in {"restart", "remove"} => OverNext(Where(c), client[c].aim.sid)
            /\ client[c].pc = "answered" /\ client[c].round = 2
  PROVE  ReaperKnows(c)'
<1>1. /\ client'[c].pc = pc /\ client'[c].round = client[c].round
      /\ client'[c].env = client[c].env /\ client'[c].aim = client[c].aim
      /\ client'[c].snap = client[c].snap /\ client'[c].op = client[c].op
  BY DEF TypeOK, ClientState, Goto, Become
<1>2. Where(c)' = Where(c)
  BY <1>1 DEF Where
<1>3. OldNext(client[c].snap)
  BY ReaperStays
<1>4. client[c].pc = "configure" => client[c].aim.sid < nextId'[client[c].env]
  BY KnowledgeStays DEF NamesNext
<1>5. pc = "kill" => PinnedOnWhere(c)
  BY DEF PinnedOnWhere
<1> QED
  BY <1>1, <1>2, <1>3, <1>4, <1>5 DEF ReaperKnows, PinnedOnWhere, OldNext, Over, OverNext

LEMMA AskAgainReaps ==
  ASSUME TypeOK, TypeOK', EnvOK, IdsBelowNext, ServersAdvance, WorkAdvances,
         NEW c \in Clients, ReaperKnows(c), AskAgain(c), client[c].pc = "answered",
         IdentityMatches(c)
  PROVE  ReaperKnows(c)'
<1>1. /\ client'[c].pc = "ask" /\ client'[c].aim.sid = client[c].answer.sid
      /\ client'[c].snap = client[c].snap
  BY DEF TypeOK, ClientState, AskAgain, AimAtAnswer, Become
<1>2. client[c].snap.pane # NoId => client[c].answer.sid = client[c].snap.pane
  BY DEF ReaperKnows, PaneIsOld, IdentityMatches
<1>3. OldNext(client[c].snap)
  BY ReaperStays
<1>4. client'[c].pc = "ask" /\ client'[c].snap.pane # NoId
        => client'[c].aim.sid = client'[c].snap.pane
  BY <1>1, <1>2
<1> QED
  BY <1>1, <1>3, <1>4 DEF ReaperKnows, PinnedOnWhere, OldNext

\* What a question tells of the work.
LEMMA AnswerTells ==
  ASSUME TypeOK, IdsBelowNext, OwnIsActive, NEW s \in Sockets, NEW pane \in Ids
  PROVE  /\ Answer(s, pane).state = "Ended" => Over(s, Answer(s, pane).sid)
         /\ pane # NoId /\ pane < nextId[s] /\ Answer(s, pane).state = "Missing"
              => Over(s, pane)
<1>1. session[s] \in Session
  BY DEF TypeOK
<1>2. ASSUME Answer(s, pane).state = "Ended"
      PROVE  Over(s, Answer(s, pane).sid)
  <2>1. /\ Exists(s) /\ Answer(s, pane).sid = session[s].sid
        /\ session[s].active = "own" => session[s].work = "dead"
    BY <1>2 DEF Answer
  <2>2. session[s].work = "dead" /\ session[s].sid < nextId[s]
    BY <2>1 DEF OwnIsActive, IdsBelowNext
  <2> QED
    BY <2>1, <2>2 DEF Over
<1>3. ASSUME pane # NoId, pane < nextId[s], Answer(s, pane).state = "Missing"
      PROVE  Over(s, pane)
  <2>1. ~Exists(s) \/ pane # session[s].sid \/ session[s].work = "gone"
    BY <1>3 DEF Answer
  <2> QED
    BY <1>3, <2>1 DEF Over, Exists
<1> QED
  BY <1>2, <1>3

LEMMA ReadingReaps ==
  ASSUME TypeOK, TypeOK', EnvOK, IdsBelowNext, OwnIsActive, ServersAdvance, WorkAdvances,
         PaneIsOld(record, nextId), NEW c \in Clients, ProcessKnows(c), ReaperKnows(c),
         Load(c) \/ Ask(c) \/ AskSession(c)
  PROVE  ReaperKnows(c)'
<1>1. client[c].pc # "idle" /\ client[c] \in ClientState /\ Where(c) \in Sockets
  BY WhereTyped DEF Load, Ask, AskSession, TypeOK
<1>2. UNCHANGED <<session, nextId>>
  BY DEF Load, Ask, AskSession
<1>3. CASE Load(c)
  <2>1. client[c].round = 1
    BY <1>3 DEF Load, ProcessKnows
  <2>2. CASE ~Loadable(client[c].op, record)
    BY <1>3, <2>2, ForgettingReaps DEF Load
  <2>3. CASE Loadable(client[c].op, record)
    <3> DEFINE entry == [client[c] EXCEPT !.snap = record,
                                          !.pc = IF record.proof THEN "ask" ELSE "retire"]
    <3>1. entry.pc \in {"ask", "retire"} /\ entry.round = 1 /\ entry.snap = record
      BY <1>1, <2>1 DEF ClientState
    <3>2. client'[c] = entry
      BY <1>3, <2>3 DEF Load, Become, TypeOK
    <3> HIDE DEF entry
    <3> QED
      BY <1>2, <3>1, <3>2 DEF ReaperKnows, PinnedOnWhere, PaneIsOld
  <2> QED
    BY <2>2, <2>3
<1>4. CASE Ask(c) /\ client[c].snap.pane # NoId
           /\ Answer(Where(c), client[c].snap.pane).state = "Missing"
  <2> DEFINE pane == client[c].snap.pane
  <2>1. Goto(c, "asksession") /\ client[c].pc = "ask"
    BY <1>4 DEF Ask
  <2>2. /\ client'[c].pc = "asksession" /\ client'[c].round = client[c].round
        /\ client'[c].env = client[c].env /\ client'[c].aim = client[c].aim
        /\ client'[c].snap = client[c].snap
    BY <1>1, <2>1 DEF Goto, Become, TypeOK, ClientState
  <2>3. Where(c)' = Where(c)
    BY <2>2 DEF Where
  <2>4. pane \in Ids /\ pane < nextId[Where(c)]
    <3>1. client[c].snap.socket = Where(c) /\ pane < nextId[client[c].snap.socket]
      BY <1>4 DEF ReaperKnows, PaneIsOld, Where
    <3> QED
      BY <1>1, <3>1 DEF ClientState, Record
  <2>5. Over(Where(c), pane)
    BY <1>1, <1>4, <2>4, AnswerTells
  <2>6. PinnedOnWhere(c)' => PinnedOnWhere(c)
    BY <2>1, <2>2 DEF PinnedOnWhere
  <2> QED
    BY <1>2, <1>4, <2>2, <2>3, <2>5, <2>6 DEF ReaperKnows, Over, PaneIsOld
<1>5. CASE (Ask(c) \/ AskSession(c))
           /\ ~(Ask(c) /\ client[c].snap.pane # NoId
                  /\ Answer(Where(c), client[c].snap.pane).state = "Missing")
  <2> DEFINE asked == Answer(Where(c), client[c].snap.pane)
             without == WithoutItsPane(Answer(Where(c), NoId))
  <2>1. /\ asked \in Answers /\ without \in Answers
        /\ asked.state = "Ended" => Over(Where(c), asked.sid)
    <3>1. client[c].snap.pane \in Ids
      BY <1>1 DEF ClientState, Record
    <3> QED
      BY <1>1, <3>1, AnswerTyped, AnswerTells
  <2> HIDE DEF asked, without
  <2>3. PICK answer \in {asked, without} :
          /\ Become(c, [client[c] EXCEPT !.pc = "answered", !.answer = answer])
          /\ AskSession(c) \/ answer = asked
    BY <1>5 DEF Ask, AskSession, asked, without
  <2>4. /\ client'[c].pc = "answered" /\ client'[c].answer = answer
        /\ client'[c].round = client[c].round /\ client'[c].aim = client[c].aim
        /\ client'[c].env = client[c].env /\ client'[c].snap = client[c].snap
    BY <1>1, <2>3 DEF Become, TypeOK, ClientState
  <2>5. Where(c)' = Where(c)
    BY <2>4 DEF Where
  <2>6. client[c].pc \in {"ask", "asksession"}
    BY <1>5 DEF Ask, AskSession
  <2>7. PinnedOnWhere(c)' => PinnedOnWhere(c)
    BY <2>4, <2>6 DEF PinnedOnWhere
  <2>8. answer.state = "Ended" =>
          \/ Over(Where(c), answer.sid)
          \/ client[c].snap.pane # NoId /\ answer.sid # client[c].snap.pane
    <3>1. CASE answer = asked
      BY <2>1, <3>1
    <3>2. CASE AskSession(c)
      <4>1. client[c].snap.pane # NoId /\ Over(Where(c), client[c].snap.pane)
        BY <3>2 DEF AskSession, ReaperKnows
      <4> QED
        BY <4>1
    <3> QED
      BY <2>3, <3>1, <3>2
  <2> QED
    BY <1>2, <2>4, <2>5, <2>7, <2>8 DEF ReaperKnows, Over, PaneIsOld, AnswerIs
<1> QED
  BY <1>3, <1>4, <1>5

LEMMA StepReaps ==
  ASSUME TypeOK, TypeOK', EnvOK, IdsBelowNext, OwnIsActive, ServersAdvance, WorkAdvances,
         PaneIsOld(record, nextId), NEW c \in Clients, ProcessKnows(c), ReaperKnows(c),
         Step(c), PaneIsOld(record, nextId)'
  PROVE  ReaperKnows(c)'
<1> USE DEF Answered, At
<1>1. CASE Load(c) \/ Ask(c) \/ AskSession(c)
  BY <1>1, ReadingReaps
<1>2. CASE StopDeclares(c) \/ OpenRecords(c)
  <2>1. client[c].pc = "answered"
    BY <1>2 DEF StopDeclares, OpenRecords
  <2>2. Goto(c, "finish") \/ (AskAgain(c) /\ IdentityMatches(c)) \/ GiveUp(c)
    BY <1>2 DEF StopDeclares, OpenRecords
  <2> QED
    BY <2>1, <2>2, GotoReaps, AskAgainReaps, ForgettingReaps
<1>3. CASE StopVerifies(c)
  <2>1. client[c].pc = "answered" /\ client[c].round = 2 /\ client[c].op = "stop"
    BY <1>3 DEF StopVerifies
  <2>2. Goto(c, "finish") \/ Goto(c, "kill") \/ GiveUp(c)
    BY <1>3 DEF StopVerifies
  <2> QED
    BY <2>1, <2>2, GotoReaps, ForgettingReaps
<1>4. CASE ReapVerifies(c)
  <2>1. client[c].pc = "answered" /\ client[c].round = 2
    BY <1>4 DEF ReapVerifies
  <2>2. \/ Goto(c, AfterReap(c)) \/ GiveUp(c)
        \/ Goto(c, "kill") /\ AnswerIs(c, {"Ended"}) /\ SameIncarnation(c)
    BY <1>4 DEF ReapVerifies
  <2>3. AfterReap(c) \in {"reserve", "retire"}
    BY DEF AfterReap
  <2>4. AnswerIs(c, {"Ended"}) /\ SameIncarnation(c) => OverNext(Where(c), client[c].aim.sid)
    <3>1. client[c].snap.pane # NoId => client[c].aim.sid = client[c].snap.pane
      BY <2>1 DEF ReaperKnows, PinnedOnWhere
    <3> QED
      BY <2>1, <3>1, ReaperStays DEF SameIncarnation
  <2> QED
    BY <2>1, <2>2, <2>3, <2>4, GotoReaps, ForgettingReaps
<1>5. CASE ReapInspects(c)
  <2>1. client[c].pc = "answered"
    BY <1>5 DEF ReapInspects
  <2>2. Goto(c, AfterReap(c)) \/ (AskAgain(c) /\ IdentityMatches(c)) \/ GiveUp(c)
    BY <1>5 DEF ReapInspects
  <2>3. AfterReap(c) \in {"reserve", "retire"}
    BY DEF AfterReap
  <2> QED
    BY <2>1, <2>2, <2>3, GotoReaps, AskAgainReaps, ForgettingReaps
<1>6. CASE \/ OpenAttaches(c) \/ FinishClose(c) \/ ObserveAlive(c) \/ ObserveOver(c)
           \/ RestartPromotes(c) \/ Retire(c) \/ DropReservation(c) \/ Activate(c)
  <2>1. GiveUp(c)
    BY <1>6 DEF OpenAttaches, FinishClose, ObserveAlive, ObserveOver, RestartPromotes,
       Retire, DropReservation, Activate
  <2> QED
    BY <2>1, ForgettingReaps
<1>7. CASE Reserve(c) \/ Kill(c) \/ Rollback(c)
  <2>1. /\ client[c].pc # "idle"
        /\ \/ Goto(c, "reload") \/ Goto(c, "finish") \/ Goto(c, AfterReap(c))
           \/ Goto(c, "drop") \/ GiveUp(c)
    BY <1>7 DEF Reserve, Kill, Rollback, FailsForCertain
  <2>2. AfterReap(c) \in {"reserve", "retire"}
    BY DEF AfterReap
  <2> QED
    BY <2>1, <2>2, GotoReaps, ForgettingReaps
<1>8. CASE Reload(c)
  <2> DEFINE entry == [client[c] EXCEPT !.snap = record, !.pc = "create"]
  <2>1. entry.pc = "create" /\ entry.snap = record
    BY DEF TypeOK, ClientState
  <2>2. GiveUp(c) \/ client'[c] = entry
    BY <1>8 DEF Reload, Become, TypeOK
  <2>3. UNCHANGED <<record, nextId>>
    BY <1>8 DEF Reload
  <2> HIDE DEF entry
  <2> QED
    BY <2>1, <2>2, <2>3, ForgettingReaps DEF ReaperKnows, PinnedOnWhere, PaneIsOld
<1>9. CASE CreateSession(c) /\ Exists(client[c].env)
  <2>1. client[c].pc # "idle" /\ (Goto(c, "drop") \/ GiveUp(c))
    BY <1>9 DEF CreateSession, FailsForCertain
  <2> QED
    BY <2>1, GotoReaps, ForgettingReaps
<1>10. CASE CreateSession(c) /\ ~Exists(client[c].env)
  <2> DEFINE aim == [sid |-> nextId[client[c].env], inc |-> made + 1]
             entry == [client[c] EXCEPT !.pc = "configure", !.aim = aim]
  <2>1. entry.pc = "configure" /\ entry.snap = client[c].snap
    BY DEF TypeOK, ClientState
  <2>2. client'[c] = entry /\ client[c].pc # "idle"
    BY <1>10 DEF CreateSession, Become, TypeOK
  <2> HIDE DEF entry
  <2>3. OldNext(client[c].snap)
    BY <2>2, ReaperStays
  <2> QED
    BY <2>1, <2>2, <2>3 DEF ReaperKnows, PinnedOnWhere, OldNext
<1>11. CASE Configure(c)
  <2>1. client[c].pc = "configure" /\ (Goto(c, "activate") \/ Goto(c, "rollback"))
    BY <1>11 DEF Configure
  <2> QED
    BY <2>1, GotoReaps
<1> QED
  BY <1>1, <1>2, <1>3, <1>4, <1>5, <1>6, <1>7, <1>8, <1>9, <1>10, <1>11 DEF Step


LEMMA BeginReaps ==
  ASSUME TypeOK, TypeOK', ServersAdvance, NEW c \in Clients, NEW env \in Sockets,
         ProcessKnows(c), ReaperKnows(c),
         CreateReserves(c, env) \/ \E op \in Ops : Begin(c, op, env)
  PROVE  ReaperKnows(c)' /\ (OldNext(record') \/ UNCHANGED record)
<1>1. PICK op \in AllOps, pc \in {"load", "create"} :
        Become(c, [client[c] EXCEPT !.pc = pc, !.op = op, !.env = env])
  BY ChoiceAssumption DEF CreateReserves, Begin, AllOps
<1>2. client[c].round = 1
  BY DEF CreateReserves, Begin, ProcessKnows
<1> DEFINE entry == [client[c] EXCEPT !.pc = pc, !.op = op, !.env = env]
<1>3. entry.pc = pc /\ entry.round = 1 /\ entry.snap = client[c].snap
  BY <1>2 DEF TypeOK, ClientState
<1>4. client'[c] = entry
  BY <1>1 DEF Become, TypeOK
<1> HIDE DEF entry
<1>5. OldNext(client[c].snap)
  BY PaneStaysOld DEF ReaperKnows, TypeOK, ClientState
<1>6. ReaperKnows(c)'
  BY <1>3, <1>4, <1>5 DEF ReaperKnows, PinnedOnWhere, OldNext
<1>7. OldNext(record') \/ UNCHANGED record
  BY DEF CreateReserves, Begin, Save, AbsentRecord, OldNext, PaneIsOld
<1> QED
  BY <1>6, <1>7

LEMMA FaultReaps ==
  ASSUME TypeOK, TypeOK', EnvOK, IdsBelowNext, ServersAdvance, WorkAdvances,
         NEW c \in Clients, ProcessKnows(c), ReaperKnows(c), Fault(c)
  PROVE  ReaperKnows(c)'
<1>1. client[c].pc # "idle" /\ (GiveUp(c) \/ Goto(c, "drop"))
  BY DEF Fault, Abandon, TimesOut, SshDrops, FailsForCertain
<1> QED
  BY <1>1, GotoReaps, ForgettingReaps

\* Only a process that gives up adds to what may run late.
LEMMA LateOnlyGrowsByFaults ==
  ASSUME Next, ~(\E c \in Clients : Fault(c))
  PROVE  late' \subseteq late
BY DEF Next, CreateReserves, Begin, Step, LateKill, LateCreate, Outside,
   Load, Ask, AskSession, StopDeclares, StopVerifies, FinishClose, OpenRecords,
   OpenAttaches, ObserveAlive, ObserveOver, RestartPromotes, ReapInspects,
   ReapVerifies, Kill, Retire, Reserve, Reload, CreateSession, Configure, Rollback,
   DropReservation, Activate, WorkExits, SessionEndsOutside, ActivePaneChanges,
   LaunchedPaneCloses, ServerExits

\* What may still run late reaps only what was over when its sender gave up.
LEMMA LateReapsStay ==
  ASSUME TypeOK, TypeOK', EnvOK, IdsBelowNext, ServersAdvance, WorkAdvances,
         LateReapsKnow, \A c \in Clients : ReaperKnows(c), Next
  PROVE  LateReapsKnow'
<1>1. ASSUME NEW k \in late, k.kind = "kill", k.op \in {"restart", "remove"}
      PROVE  Over(k.socket, k.sid)'
  <2>1. k.socket \in Sockets /\ k.sid \in Ids
    BY DEF TypeOK, Commands
  <2>2. OverNext(k.socket, k.sid)
    BY <1>1, <2>1, OverStaysNext DEF LateReapsKnow
  <2> QED
    BY <2>2 DEF Over, OverNext
<1>2. CASE late' \subseteq late
  BY <1>1, <1>2 DEF LateReapsKnow
<1>3. CASE \E c \in Clients : Fault(c)
  <2>1. PICK c \in Clients : Fault(c)
    BY <1>3
  <2>2. CASE late' \subseteq late \cup {CreateCommand(c)}
    BY <1>1, <2>2 DEF LateReapsKnow, CreateCommand
  <2>3. CASE late' = late \cup {KillCommand(c)} /\ client[c].pc \in {"kill", "rollback"}
    <3>1. /\ KillCommand(c).sid = client[c].aim.sid
          /\ KillCommand(c).op \in {"restart", "remove"} =>
               /\ client[c].pc = "kill" /\ client[c].op \in {"restart", "remove"}
               /\ KillCommand(c).socket = Where(c)
      BY <2>3 DEF KillCommand
    <3>2. KillCommand(c).op \in {"restart", "remove"} =>
            OverNext(KillCommand(c).socket, KillCommand(c).sid)
      BY <2>3, <3>1, ReaperStays
    <3>3. ASSUME NEW k, k = KillCommand(c), k.op \in {"restart", "remove"}
          PROVE  Over(k.socket, k.sid)'
      BY <3>2, <3>3 DEF Over, OverNext
    <3> QED
      BY <1>1, <2>3, <3>3 DEF LateReapsKnow
  <2> QED
    BY <2>1, <2>2, <2>3 DEF Fault, Abandon, TimesOut, SshDrops
<1>4. CASE ~(\E c \in Clients : Fault(c))
  BY <1>2, <1>4, LateOnlyGrowsByFaults
<1> QED
  BY <1>3, <1>4

LEMMA ReapInvStep ==
  ServersStay /\ WindowsStayWhole /\ ReapInv /\ [Next]_vars => ReapInv'
<1> SUFFICES ASSUME ServersStay, WindowsStayWhole, ReapInv, [Next]_vars PROVE ReapInv'
  OBVIOUS
<1>1. KillInv'
  BY KillInvStep DEF ReapInv
<1>2. CASE UNCHANGED vars
  <2>1. OwnIsActive' /\ PaneIsOld(record, nextId)' /\ LateReapsKnow'
    BY <1>2 DEF vars, ReapInv, OwnIsActive, Exists, PaneIsOld, LateReapsKnow, Over
  <2>2. ASSUME NEW c \in Clients PROVE ReaperKnows(c)'
    <3>1. ReaperKnows(c)
      BY DEF ReapInv
    <3> QED
      BY <1>2, <3>1 DEF vars, ReaperKnows, PinnedOnWhere, PaneIsOld, Over, Where, AnswerIs
  <2> QED
    BY <1>1, <2>1, <2>2 DEF ReapInv
<1>3. CASE Next
  <2>1. /\ TypeOK /\ EnvOK /\ IdsBelowNext /\ TypeOK' /\ EnvOK'
        /\ \A c \in Clients : ProcessKnows(c) /\ ReaperKnows(c)
        /\ OwnIsActive /\ PaneIsOld(record, nextId)
    BY <1>1 DEF ReapInv, KillInv
  <2>2. ServersAdvance /\ WorkAdvances /\ OwnIsActive'
    BY <1>3, <2>1, NextAdvances, NextOwns
  <2>3. LateReapsKnow'
    BY <1>3, <2>1, <2>2, LateReapsStay DEF ReapInv
  <2>4. PaneIsOld(record, nextId)'
    <3>1. OldNext(record)
      BY <2>1, <2>2, PaneStaysOld DEF TypeOK
    <3>2. CASE UNCHANGED record
      BY <3>1, <3>2 DEF OldNext, PaneIsOld
    <3>3. CASE \E c \in Clients : Step(c)
      BY <2>1, <2>2, <3>3, StepMovesPane, RecordPaneStaysOld DEF OldNext, PaneIsOld
    <3>4. CASE \E c \in Clients, env \in Sockets :
                 CreateReserves(c, env) \/ \E op \in Ops : Begin(c, op, env)
      BY <2>1, <2>2, <3>2, <3>4, BeginReaps DEF OldNext, PaneIsOld
    <3> QED
      BY <1>3, <3>2, <3>3, <3>4 DEF Next, Fault, Abandon, TimesOut, SshDrops, LateKill,
         LateCreate, Outside, WorkExits, SessionEndsOutside, ActivePaneChanges,
         LaunchedPaneCloses, ServerExits
  <2>5. ASSUME NEW d \in Clients PROVE ReaperKnows(d)'
    <3>1. CASE client'[d] = client[d]
      BY <2>1, <2>2, <3>1, UnmovedReaper
    <3>2. ASSUME NEW c \in Clients,
                 \/ Step(c) \/ Fault(c)
                 \/ \E env \in Sockets :
                      CreateReserves(c, env) \/ \E op \in Ops : Begin(c, op, env)
          PROVE  ReaperKnows(d)'
      <4>1. CASE c = d
        BY <2>1, <2>2, <2>4, <3>2, <4>1, StepReaps, FaultReaps, BeginReaps
      <4>2. CASE c # d
        BY <2>1, <3>1, <3>2, <4>2, OthersUnmoved
      <4> QED
        BY <4>1, <4>2
    <3>3. CASE \E k \in late : LateKill(k) \/ LateCreate(k)
      BY <3>1, <3>3 DEF LateKill, LateCreate
    <3>4. CASE \E s \in Sockets : Outside(s)
      BY <3>1, <3>4 DEF Outside, WorkExits, SessionEndsOutside, ActivePaneChanges,
         LaunchedPaneCloses, ServerExits
    <3> QED
      BY <1>3, <3>2, <3>3, <3>4 DEF Next
  <2> QED
    BY <1>1, <2>2, <2>3, <2>4, <2>5 DEF ReapInv
<1> QED
  BY <1>2, <1>3

LEMMA ReapInvInit == Init => ReapInv
<1> SUFFICES ASSUME Init PROVE ReapInv
  OBVIOUS
<1>1. PICK kind \in InitialKinds, s \in Sockets :
        /\ record = InitialRecord(kind, s)
        /\ session = [t \in Sockets |->
                        IF HasSession(kind) /\ t = s THEN FirstSession ELSE NoSession]
        /\ nextId = [t \in Sockets |-> IF HasSession(kind) /\ t = s THEN 1 ELSE 0]
  BY DEF Init
<1>2. KillInv
  BY KillInvInit
<1>3. OwnIsActive
  BY <1>1 DEF OwnIsActive, Exists, NoSession, FirstSession
<1>4. PaneIsOld(record, nextId)
  <2>1. s # NoSocket
    BY SocketAssumption
  <2>2. CASE kind = "pinned"
    <3>1. record.status = "Running" /\ record.sid = 0 /\ record.pane = 0 /\ record.socket = s
      BY <1>1, <2>2 DEF InitialRecord, AbsentRecord
    <3>2. nextId[s] = 1
      BY <1>1, <2>2 DEF HasSession
    <3> QED
      BY <2>1, <3>1, <3>2 DEF PaneIsOld
  <2>3. CASE kind # "pinned"
    <3>1. record.pane = NoId
      BY <1>1, <2>3, ChoiceAssumption DEF InitialRecord, AbsentRecord, AllKinds
    <3> QED
      BY <3>1 DEF PaneIsOld
  <2> QED
    BY <2>2, <2>3
<1>5. (\A c \in Clients : ReaperKnows(c)) /\ LateReapsKnow
  BY DEF Init, ReaperKnows, PinnedOnWhere, Idle, AbsentRecord, PaneIsOld, LateReapsKnow
<1> QED
  BY <1>2, <1>3, <1>4, <1>5 DEF ReapInv

LEMMA ReapInvSuffices == ReapInv => ReapsSpareRunningWork
<1> SUFFICES ASSUME ReapInv, NEW k \in OutstandingKills, k.op \in {"restart", "remove"},
                    GuardAccepts(k.socket, k.sid)
             PROVE  session[k.socket].work # "running"
  BY DEF ReapsSpareRunningWork
<1>1. CASE k \in late /\ k.kind = "kill"
  BY <1>1 DEF ReapInv, LateReapsKnow, Over, GuardAccepts
<1>2. ASSUME NEW c \in Clients, client[c].pc \in {"kill", "rollback"}, k = KillCommand(c)
      PROVE  session[k.socket].work # "running"
  BY <1>2 DEF ReapInv, ReaperKnows, Over, KillCommand, GuardAccepts
<1> QED
  BY <1>1, <1>2 DEF OutstandingKills

\* While tmux servers keep running and nobody splits the window, no restart and
\* no removal ever ends work that runs: not with any number of processes, not
\* after a crash, not for records that name no pane, and not when its kill
\* arrives late.
THEOREM ReapsAreHarmless ==
  ASSUME ServersStay, WindowsStayWhole
  PROVE  Spec => []ReapsSpareRunningWork
<1>1. Init => ReapInv
  BY ReapInvInit
<1>2. ReapInv /\ [Next]_vars => ReapInv'
  BY ReapInvStep
<1>3. ReapInv => ReapsSpareRunningWork
  BY ReapInvSuffices
<1> QED
  BY <1>1, <1>2, <1>3, PTL DEF Spec

-----------------------------------------------------------------------------
(* Stops declare themselves *)

\* Nobody restarts the workload: a restart promotes a record that is Stopping
\* back to Running while a kill of the Stop may still be under way.
RestartIsAbsent == "restart" \notin Ops

Declared == record.status \in {"Stopping", "Ended", "Removed"}

\* A Stop that may kill has been declared, and nothing else runs the work again.
StopperKnows(c) ==
  /\ client[c].op # "restart"
  /\ client[c].pc \in {"idle", "load"} => client[c].round = 1
  /\ client[c].pc \in {"create", "configure", "activate"} => client[c].op = "create"
  /\ client[c].op = "stop" /\ PinnedOnWhere(c) => Declared

DeclaredInv ==
  /\ TypeOK /\ EnvOK
  /\ \A c \in Clients : StopperKnows(c)
  /\ \A k \in late : k.kind = "kill" /\ k.op = "stop" => Declared

LEMMA StepDeclares ==
  ASSUME TypeOK, NEW c \in Clients, StopperKnows(c), Declared, Step(c)
  PROVE  Declared'
<1>1. record \in Record
  BY DEF TypeOK
<1> USE DEF Answered, At, Save, SnapshotHolds
<1>2. CASE UNCHANGED record
  BY <1>2 DEF Declared
<1>3. CASE StopDeclares(c) /\ ~UNCHANGED record
  BY <1>1, <1>3 DEF StopDeclares, Declared, Record
<1>4. CASE (FinishClose(c) \/ OpenRecords(c) \/ Retire(c)) /\ ~UNCHANGED record
  BY <1>1, <1>4 DEF FinishClose, OpenRecords, Retire, Declared, Record
<1>5. CASE ObserveOver(c) /\ ~UNCHANGED record
  BY <1>1, <1>5 DEF ObserveOver, Declared, Record
<1>6. ~(ObserveAlive(c) /\ ~UNCHANGED record)
  BY DEF ObserveAlive, Declared
<1>7. ~(RestartPromotes(c) \/ Reserve(c))
  BY DEF RestartPromotes, Reserve, StopperKnows
<1>8. ~(DropReservation(c) /\ ~UNCHANGED record)
  BY DEF DropReservation, Declared
<1>9. CASE Activate(c) /\ ~UNCHANGED record
  BY <1>9 DEF Activate, Activatable, Declared, StopperKnows
<1> QED
  BY <1>2, <1>3, <1>4, <1>5, <1>6, <1>7, <1>8, <1>9 DEF Step, Load, Ask, AskSession,
     StopVerifies, OpenAttaches, ReapInspects, ReapVerifies, Kill, Reload,
     CreateSession, Configure, Rollback

LEMMA StepStops ==
  ASSUME TypeOK, TypeOK', NEW c \in Clients, StopperKnows(c), Step(c)
  PROVE  StopperKnows(c)'
<1> USE DEF Answered, At
<1>1. client[c] \in ClientState
  BY DEF TypeOK
<1>2. CASE GiveUp(c)
  BY <1>2 DEF GiveUp, Become, Idle, StopperKnows, PinnedOnWhere, TypeOK
<1>3. ASSUME NEW pc, Goto(c, pc),
             \/ pc \in {"finish", "reserve", "rollback", "drop", "retire"}
             \/ pc = "asksession" /\ client[c].pc = "ask" /\ UNCHANGED record
             \/ pc = "activate" /\ client[c].pc = "configure"
             \/ pc = "kill" /\ client[c].pc = "answered" /\ client[c].round = 2
                  /\ UNCHANGED record
      PROVE  StopperKnows(c)'
  <2>1. /\ client'[c].pc = pc /\ client'[c].round = client[c].round
        /\ client'[c].op = client[c].op
    BY <1>1, <1>3 DEF Goto, Become, TypeOK, ClientState
  <2> QED
    BY <1>3, <2>1 DEF StopperKnows, PinnedOnWhere, Declared
<1>4. ASSUME AskAgain(c), client[c].op = "stop" => Declared'
      PROVE  StopperKnows(c)'
  <2>1. client'[c].pc = "ask" /\ client'[c].op = client[c].op
    BY <1>1, <1>4 DEF AskAgain, Become, TypeOK, ClientState
  <2>2. client[c].op # "restart"
    BY DEF StopperKnows
  <2> QED
    BY <1>4, <2>1, <2>2 DEF StopperKnows, PinnedOnWhere
<1>5. CASE Load(c) /\ ~GiveUp(c)
  <2> DEFINE entry == [client[c] EXCEPT !.snap = record,
                                        !.pc = IF record.proof THEN "ask" ELSE "retire"]
  <2>1. /\ entry.pc \in {"ask", "retire"} /\ entry.round = client[c].round
        /\ entry.op = client[c].op
    BY <1>1 DEF ClientState
  <2>2. client'[c] = entry /\ client[c].pc = "load"
    BY <1>5 DEF Load, Become, TypeOK
  <2> HIDE DEF entry
  <2> QED
    BY <2>1, <2>2 DEF StopperKnows, PinnedOnWhere
<1>6. CASE AskSession(c) \/ (Ask(c) /\ ~Goto(c, "asksession"))
  <2>1. PICK answer : Become(c, [client[c] EXCEPT !.pc = "answered", !.answer = answer])
    BY <1>6 DEF Ask, AskSession
  <2>2. /\ client'[c].pc = "answered" /\ client'[c].round = client[c].round
        /\ client'[c].op = client[c].op
    BY <1>1, <2>1 DEF Become, TypeOK, ClientState
  <2>3. client[c].pc \in {"ask", "asksession"} /\ UNCHANGED record
    BY <1>6 DEF Ask, AskSession
  <2> QED
    BY <2>2, <2>3 DEF StopperKnows, PinnedOnWhere, Declared
<1>7. CASE Ask(c) /\ Goto(c, "asksession")
  BY <1>3, <1>7 DEF Ask
<1>8. CASE StopDeclares(c)
  <2>1. Goto(c, "finish") \/ AskAgain(c) \/ GiveUp(c)
    BY <1>8 DEF StopDeclares
  <2>2. AskAgain(c) => Declared' \/ GiveUp(c) \/ Goto(c, "finish")
    <3>1. record \in Record
      BY DEF TypeOK
    <3>2. CASE UNCHANGED record /\ ~GiveUp(c)
      BY <1>8, <3>1, <3>2 DEF StopDeclares, Save, Declared, Record
    <3>3. CASE ~UNCHANGED record
      BY <1>8, <3>1, <3>3 DEF StopDeclares, Save, Declared, Record
    <3> QED
      BY <3>2, <3>3
  <2> QED
    BY <1>2, <1>3, <1>4, <2>1, <2>2
<1>9. CASE OpenRecords(c)
  <2>1. client[c].op = "open" /\ (AskAgain(c) \/ GiveUp(c))
    BY <1>9 DEF OpenRecords
  <2> QED
    BY <1>2, <1>4, <2>1
<1>10. CASE StopVerifies(c) \/ ReapVerifies(c)
  <2>1. client[c].pc = "answered" /\ client[c].round = 2 /\ UNCHANGED record
    BY <1>10 DEF StopVerifies, ReapVerifies
  <2>2. Goto(c, "finish") \/ Goto(c, "kill") \/ Goto(c, AfterReap(c)) \/ GiveUp(c)
    BY <1>10 DEF StopVerifies, ReapVerifies
  <2>3. AfterReap(c) \in {"reserve", "retire"}
    BY DEF AfterReap
  <2> QED
    BY <1>2, <1>3, <2>1, <2>2, <2>3
<1>11. CASE ReapInspects(c)
  <2>1. /\ client[c].op \in {"restart", "remove"}
        /\ Goto(c, AfterReap(c)) \/ AskAgain(c) \/ GiveUp(c)
    BY <1>11 DEF ReapInspects
  <2>2. AfterReap(c) \in {"reserve", "retire"}
    BY DEF AfterReap
  <2> QED
    BY <1>2, <1>3, <1>4, <2>1, <2>2
<1>12. CASE \/ OpenAttaches(c) \/ FinishClose(c) \/ ObserveAlive(c) \/ ObserveOver(c)
            \/ RestartPromotes(c) \/ Retire(c) \/ DropReservation(c) \/ Activate(c)
  BY <1>2, <1>12 DEF OpenAttaches, FinishClose, ObserveAlive, ObserveOver,
     RestartPromotes, Retire, DropReservation, Activate
<1>13. CASE Reserve(c) \/ Reload(c)
  BY <1>13 DEF Reserve, Reload, StopperKnows
<1>14. CASE Kill(c) \/ Rollback(c)
  <2>1. Goto(c, "finish") \/ Goto(c, AfterReap(c)) \/ Goto(c, "drop") \/ GiveUp(c)
    BY <1>14 DEF Kill, Rollback, FailsForCertain
  <2>2. AfterReap(c) \in {"reserve", "retire"}
    BY DEF AfterReap
  <2> QED
    BY <1>2, <1>3, <2>1, <2>2
<1>15. CASE CreateSession(c) /\ Exists(client[c].env)
  <2>1. Goto(c, "drop") \/ GiveUp(c)
    BY <1>15 DEF CreateSession, FailsForCertain
  <2> QED
    BY <1>2, <1>3, <2>1
<1>16. CASE CreateSession(c) /\ ~Exists(client[c].env)
  <2> DEFINE aim == [sid |-> nextId[client[c].env], inc |-> made + 1]
             entry == [client[c] EXCEPT !.pc = "configure", !.aim = aim]
  <2>1. entry.pc = "configure" /\ entry.op = client[c].op
    BY <1>1 DEF ClientState
  <2>2. client'[c] = entry /\ client[c].pc = "create"
    BY <1>16 DEF CreateSession, Become, TypeOK
  <2> HIDE DEF entry
  <2> QED
    BY <2>1, <2>2 DEF StopperKnows, PinnedOnWhere
<1>17. CASE Configure(c)
  <2>1. client[c].pc = "configure" /\ (Goto(c, "activate") \/ Goto(c, "rollback"))
    BY <1>17 DEF Configure
  <2> QED
    BY <1>3, <2>1
<1> QED
  BY <1>2, <1>5, <1>6, <1>7, <1>8, <1>9, <1>10, <1>11, <1>12, <1>13, <1>14, <1>15, <1>16,
     <1>17 DEF Step

LEMMA DeclaredStep ==
  RestartIsAbsent /\ DeclaredInv /\ [Next]_vars => DeclaredInv'
<1> SUFFICES ASSUME RestartIsAbsent, DeclaredInv, [Next]_vars PROVE DeclaredInv'
  OBVIOUS
<1>1. TypeOK /\ EnvOK /\ TypeOK' /\ EnvOK' /\ \A c \in Clients : StopperKnows(c)
  BY NextTyped DEF DeclaredInv
<1>2. CASE UNCHANGED vars
  BY <1>1, <1>2 DEF vars, DeclaredInv, StopperKnows, PinnedOnWhere, Declared
<1>3. CASE Next
  <2>1. Declared => Declared'
    <3>1. CASE \E c \in Clients : Step(c)
      BY <1>1, <3>1, StepDeclares
    <3>2. CASE \E c \in Clients, env \in Sockets :
                 CreateReserves(c, env) \/ \E op \in Ops : Begin(c, op, env)
      BY <3>2 DEF CreateReserves, Begin, Declared
    <3>3. CASE UNCHANGED record
      BY <3>3 DEF Declared
    <3> QED
      BY <1>3, <3>1, <3>2, <3>3 DEF Next, Fault, Abandon, TimesOut, SshDrops, LateKill,
         LateCreate, Outside, WorkExits, SessionEndsOutside, ActivePaneChanges,
         LaunchedPaneCloses, ServerExits
  <2>2. ASSUME NEW d \in Clients PROVE StopperKnows(d)'
    <3>1. CASE client'[d] = client[d]
      BY <1>1, <2>1, <3>1 DEF StopperKnows, PinnedOnWhere
    <3>2. ASSUME NEW c \in Clients,
                 \/ Step(c) \/ Fault(c)
                 \/ \E env \in Sockets :
                      CreateReserves(c, env) \/ \E op \in Ops : Begin(c, op, env)
          PROVE  StopperKnows(d)'
      <4>1. CASE c # d
        BY <1>1, <3>1, <3>2, <4>1, OthersUnmoved
      <4>2. CASE c = d /\ Step(c)
        BY <1>1, <4>2, StepStops
      <4>3. CASE c = d /\ Fault(c)
        <5>1. GiveUp(c) \/ Goto(c, "drop")
          BY <4>3 DEF Fault, Abandon, TimesOut, SshDrops, FailsForCertain
        <5>2. /\ client'[c].pc \in {"idle", "drop"}
              /\ client'[c].pc = "idle" => client'[c].round = 1
              /\ client'[c].op \in {"stop", client[c].op}
          BY <1>1, <5>1, <4>3 DEF GiveUp, Goto, Become, Idle, TypeOK, ClientState, Fault,
             Abandon, TimesOut, SshDrops
        <5> QED
          BY <1>1, <4>3, <5>2 DEF StopperKnows, PinnedOnWhere
      <4>4. CASE c = d /\ \E env \in Sockets :
                      CreateReserves(c, env) \/ \E op \in Ops : Begin(c, op, env)
        <5>1. PICK op \in Ops, env \in Sockets, pc \in {"load", "create"} :
                /\ Become(c, [client[c] EXCEPT !.pc = pc, !.op = op, !.env = env])
                /\ pc = "create" => op = "create"
                /\ client[c].pc = "idle"
          BY <4>4 DEF CreateReserves, Begin
        <5> DEFINE entry == [client[c] EXCEPT !.pc = pc, !.op = op, !.env = env]
        <5>2. entry.pc = pc /\ entry.op = op /\ entry.round = client[c].round
          BY <1>1 DEF TypeOK, ClientState
        <5>3. client'[c] = entry
          BY <1>1, <5>1 DEF Become, TypeOK
        <5> HIDE DEF entry
        <5>4. op # "restart" /\ client[c].round = 1
          BY <1>1, <5>1 DEF RestartIsAbsent, StopperKnows
        <5> QED
          BY <4>4, <5>1, <5>2, <5>3, <5>4 DEF StopperKnows, PinnedOnWhere
      <4> QED
        BY <3>2, <4>1, <4>2, <4>3, <4>4
    <3>3. CASE \E k \in late : LateKill(k) \/ LateCreate(k)
      BY <3>1, <3>3 DEF LateKill, LateCreate
    <3>4. CASE \E s \in Sockets : Outside(s)
      BY <3>1, <3>4 DEF Outside, WorkExits, SessionEndsOutside, ActivePaneChanges,
         LaunchedPaneCloses, ServerExits
    <3> QED
      BY <1>3, <3>2, <3>3, <3>4 DEF Next
  <2>3. ASSUME NEW k \in late', k.kind = "kill", k.op = "stop"
        PROVE  Declared'
    <3>1. CASE k \in late
      BY <2>1, <2>3, <3>1 DEF DeclaredInv
    <3>2. CASE k \notin late
      <4>1. PICK c \in Clients : Fault(c)
        BY <1>3, <2>3, <3>2, LateOnlyGrowsByFaults
      <4>2. k = KillCommand(c) /\ client[c].pc \in {"kill", "rollback"}
        BY <2>3, <3>2, <4>1 DEF Fault, Abandon, TimesOut, SshDrops, CreateCommand
      <4>3. client[c].pc = "kill" /\ client[c].op = "stop"
        BY <2>3, <4>2 DEF KillCommand
      <4> QED
        BY <1>1, <2>1, <4>3 DEF StopperKnows, PinnedOnWhere
    <3> QED
      BY <3>1, <3>2
  <2> QED
    BY <1>1, <2>2, <2>3 DEF DeclaredInv
<1> QED
  BY <1>2, <1>3

LEMMA DeclaredInit == Init => DeclaredInv
<1> SUFFICES ASSUME Init PROVE DeclaredInv
  OBVIOUS
<1>1. TypeOK /\ EnvOK
  BY InitTyped
<1> QED
  BY <1>1 DEF Init, DeclaredInv, StopperKnows, PinnedOnWhere, Idle

LEMMA DeclaredSuffices == DeclaredInv => StopIsDeclared
<1> SUFFICES ASSUME DeclaredInv, NEW k \in OutstandingKills, k.op = "stop"
             PROVE  record.status # "Running"
  BY DEF StopIsDeclared
<1>1. CASE k \in late /\ k.kind = "kill"
  BY <1>1 DEF DeclaredInv, Declared
<1>2. ASSUME NEW c \in Clients, client[c].pc \in {"kill", "rollback"}, k = KillCommand(c)
      PROVE  record.status # "Running"
  BY <1>2 DEF DeclaredInv, StopperKnows, PinnedOnWhere, Declared, KillCommand
<1> QED
  BY <1>1, <1>2 DEF OutstandingKills

\* As long as no restart promotes the workload in between, no kill of a Stop,
\* however late it arrives, can end work that the record shows as Running:
\* whatever else races it, the Stop has been declared and stays declared.
THEOREM StopsAreDeclared ==
  ASSUME RestartIsAbsent
  PROVE  Spec => []StopIsDeclared
<1>1. Init => DeclaredInv
  BY DeclaredInit
<1>2. DeclaredInv /\ [Next]_vars => DeclaredInv'
  BY DeclaredStep
<1>3. DeclaredInv => StopIsDeclared
  BY DeclaredSuffices
<1> QED
  BY <1>1, <1>2, <1>3, PTL DEF Spec

-----------------------------------------------------------------------------
(* One process at a time *)

\* The record, the answers and the commands of a process that nobody races stay
\* true of the one session there is: AloneInv says what the process knows at
\* each of its steps.

\* Windows stay whole, and there is one server to ask.
Simple == "split" \notin Faults /\ \A s, t \in Sockets : s = t

\* The commands of a process are answered; and where it may die in the middle
\* of a creation, or the record names no pane, things are simple.
AnswersArrive ==
  /\ Faults \cap {"late", "sshdrop"} = {}
  /\ "crash" \in Faults \/ "unpinned" \in InitialKinds => Simple

\* Whichever of the processes is at work, the others rest.
OneAtATime ==
  \A c, d \in Clients : c # d => client[c].pc = "idle" \/ client[d].pc = "idle"

NoneExists == \A s \in Sockets : ~Exists(s)
NothingRuns == \A s \in Sockets : session[s].work # "running"

\* A session, if there is one, has this id.
Is(sid) == \A s \in Sockets : Exists(s) => session[s].sid = sid

Creation == {"reload", "create", "configure", "activate", "rollback", "drop"}
Reading == {"ask", "asksession", "answered"}

\* A record's identities agree with each other.
RecordAgrees ==
  /\ record.pane # NoId => record.sid = record.pane /\ record.socket # NoSocket
  /\ record.status = "Creating" =>
       record.sid = NoId /\ record.pane = NoId /\ record.socket = NoSocket
  /\ record.status \in {"Absent", "Dropped"} => record.pane = NoId

\* The one session there may be is where, and what, the record says.
RecordNames ==
  \A s \in Sockets : Exists(s) =>
    /\ record.socket \in {s, NoSocket}
    /\ record.sid \in {NoId, session[s].sid}
    /\ record.pane = NoId => Simple

RecordIsTrue ==
  /\ record.status \in {"Ended", "Removed"} => NothingRuns
  /\ record.status \in {"Absent", "Dropped"} \/ ~record.proof => NoneExists

\* What the process knows while it looks at a workload.
LookerKnows(c) ==
  /\ client[c].pc \in {"idle", "load"} => client[c].round = 1
  /\ client[c].pc \in Reading \cup {"kill", "finish", "retire", "reserve"} =>
       /\ client[c].snap.socket = record.socket /\ client[c].snap.pane = record.pane
       /\ record.status \notin {"Absent", "Dropped"}
  /\ client[c].pc \in Reading /\ client[c].round = 1 => client[c].snap = record
  /\ client[c].pc \in Reading \cup {"kill", "reserve"} => record.proof
  /\ client[c].pc \in Reading /\ client[c].op = "open" => record.status = "Running"
  /\ client[c].pc \in Reading \cup {"kill", "retire", "reserve"}
       /\ client[c].op \in {"restart", "remove"} => client[c].snap = record
  /\ client[c].pc = "asksession" => NothingRuns
  /\ client[c].pc = "answered" =>
       /\ AnswerIs(c, {"Missing"}) => NoneExists
       /\ AnswerIs(c, {"Ended"}) => NothingRuns
       /\ ~AnswerIs(c, {"Missing"}) => Is(client[c].answer.sid)
  /\ client[c].pc \in Reading /\ client[c].round = 2 => Is(client[c].aim.sid)
  /\ client[c].pc = "kill" =>
       /\ Is(client[c].aim.sid)
       /\ client[c].op \in {"restart", "remove"} => NothingRuns
  /\ client[c].pc \in {"finish", "retire", "reserve"} => NoneExists

\* What it knows while it makes a session.
MakerKnows(c) ==
  client[c].pc \in Creation =>
    /\ record.status = "Creating" /\ record.proof
    /\ client[c].op \in {"create", "restart"}
    /\ client[c].pc \in {"reload", "create", "drop"} => NoneExists
    /\ client[c].op = "restart" /\ client[c].pc # "reload" => client[c].snap = record
    /\ client[c].pc \in {"configure", "activate", "rollback"} =>
         /\ client[c].aim.sid # NoId
         /\ \A s \in Sockets : Exists(s) => s = client[c].env /\ session[s].sid = client[c].aim.sid

AloneInv ==
  /\ TypeOK /\ EnvOK
  /\ late = {}
  /\ Simple => OwnIsActive
  /\ RecordAgrees /\ RecordIsTrue
  /\ (\A c \in Clients : client[c].pc \notin Creation) => RecordNames
  /\ \A c \in Clients : LookerKnows(c) /\ MakerKnows(c)

-----------------------------------------------------------------------------
LEMMA GotoIs ==
  ASSUME TypeOK, NEW c \in Clients, NEW pc, Goto(c, pc)
  PROVE  /\ client'[c].pc = pc
         /\ client'[c].op = client[c].op /\ client'[c].env = client[c].env
         /\ client'[c].snap = client[c].snap /\ client'[c].round = client[c].round
         /\ client'[c].answer = client[c].answer /\ client'[c].aim = client[c].aim
<1>1. client[c] \in ClientState /\ client' = [client EXCEPT ![c] = [client[c] EXCEPT !.pc = pc]]
  BY DEF TypeOK, Goto, Become
<1>2. client'[c] = [client[c] EXCEPT !.pc = pc]
  BY <1>1 DEF TypeOK
<1> QED
  BY <1>1, <1>2 DEF ClientState

LEMMA AskAgainIs ==
  ASSUME TypeOK, NEW c \in Clients, AskAgain(c)
  PROVE  /\ client'[c].pc = "ask" /\ client'[c].round = 2
         /\ client'[c].op = client[c].op /\ client'[c].env = client[c].env
         /\ client'[c].snap = client[c].snap
         /\ client'[c].aim.sid = client[c].answer.sid
<1> DEFINE aim == AimAtAnswer(c)
<1>1. aim.sid = client[c].answer.sid
  BY DEF AimAtAnswer
<1> HIDE DEF aim
<1>2. client'[c] = [client[c] EXCEPT !.pc = "ask", !.round = 2, !.answer = Unasked, !.aim = aim]
  BY DEF AskAgain, Become, TypeOK, aim
<1>3. client[c] \in ClientState
  BY DEF TypeOK
<1> QED
  BY <1>1, <1>2, <1>3 DEF ClientState

LEMMA GiveUpIs ==
  ASSUME TypeOK, NEW c \in Clients, GiveUp(c)
  PROVE  client'[c] = Idle /\ client'[c].pc = "idle" /\ client'[c].round = 1
BY DEF GiveUp, Become, Idle, TypeOK

\* A process that gives up knows nothing.
LEMMA ForgettingIsAlone ==
  ASSUME TypeOK, NEW c \in Clients, GiveUp(c)
  PROVE  LookerKnows(c)' /\ MakerKnows(c)'
BY GiveUpIs DEF LookerKnows, MakerKnows, Reading, Creation

\* What holds of the record and of the one process that may be at work.
Fits(c) ==
  /\ RecordAgrees /\ RecordIsTrue
  /\ client[c].pc \notin Creation => RecordNames
  /\ LookerKnows(c) /\ MakerKnows(c)

Lone(c) ==
  /\ AnswersArrive /\ TypeOK /\ EnvOK
  /\ Simple => OwnIsActive
  /\ Fits(c)

\* What a reading process asks is where the session is, if there is one.
LEMMA AsksAtHome ==
  ASSUME NEW c \in Clients, Lone(c), client[c].pc \in Reading \cup {"kill"},
         NEW s \in Sockets, Exists(s)
  PROVE  /\ s = Where(c)
         /\ record.pane # NoId => session[s].sid = record.pane
         /\ record.pane = NoId => session[s].active = "own"
<1>1. /\ client[c].snap.socket = record.socket
      /\ record.socket \in {s, NoSocket}
      /\ record.sid \in {NoId, session[s].sid}
      /\ record.pane = NoId => Simple
      /\ record.pane # NoId => record.sid = record.pane /\ record.socket # NoSocket
  BY DEF Lone, Fits, LookerKnows, RecordNames, RecordAgrees, Reading, Creation
<1>2. client[c].env \in Sockets
  BY DEF Lone, EnvOK, Reading
<1>3. s = Where(c)
  BY <1>1, <1>2, SocketAssumption DEF Where, Simple
<1> QED
  BY <1>1, <1>3 DEF Lone, OwnIsActive

LEMMA NothingElsewhere ==
  ASSUME NEW c \in Clients, Lone(c), client[c].pc \in Reading \cup {"kill"}
  PROVE  /\ ~Exists(Where(c)) => NoneExists
         /\ session[Where(c)].work # "running" => NothingRuns
  BY AsksAtHome DEF NoneExists, NothingRuns, Exists

\* A step that changes neither the record nor the sessions.
Looks == UNCHANGED <<record, session>>

LEMMA LooksKeep ==
  ASSUME Looks
  PROVE  /\ RecordAgrees => RecordAgrees'
         /\ RecordIsTrue => RecordIsTrue'
         /\ RecordNames => RecordNames'
         /\ NoneExists' = NoneExists /\ NothingRuns' = NothingRuns
BY DEF Looks, RecordAgrees, RecordIsTrue, RecordNames, NoneExists, NothingRuns, Exists

LEMMA LoadIsAlone ==
  ASSUME NEW c \in Clients, Lone(c), Load(c)
  PROVE  Fits(c)'
<1>1. Looks /\ client[c].pc = "load" /\ client[c].round = 1 /\ client[c] \in ClientState
  BY DEF Load, Looks, Lone, Fits, LookerKnows, TypeOK
<1>2. RecordAgrees' /\ RecordIsTrue' /\ RecordNames'
  BY <1>1, LooksKeep DEF Lone, Fits, Creation
<1>3. CASE ~Loadable(client[c].op, record)
  BY <1>2, <1>3, ForgettingIsAlone DEF Load, Lone, Fits
<1>4. CASE Loadable(client[c].op, record)
  <2> DEFINE entry == [client[c] EXCEPT !.snap = record,
                                        !.pc = IF record.proof THEN "ask" ELSE "retire"]
  <2>1. /\ entry.pc = IF record.proof THEN "ask" ELSE "retire"
        /\ entry.round = 1 /\ entry.snap = record /\ entry.op = client[c].op
    BY <1>1 DEF ClientState
  <2>2. client'[c] = entry
    BY <1>4 DEF Load, Become, Lone, TypeOK
  <2> HIDE DEF entry
  <2>3. /\ record.status \notin {"Absent", "Dropped"}
        /\ client[c].op = "open" => record.status = "Running"
    BY <1>4 DEF Loadable
  <2>4. /\ ~record.proof => NoneExists'
        /\ record.proof = (entry.pc = "ask")
    BY <1>1, <2>1, LooksKeep DEF Lone, Fits, RecordIsTrue, TypeOK, Record
  <2>5. LookerKnows(c)'
    BY <1>1, <2>1, <2>2, <2>3, <2>4 DEF LookerKnows, Looks, Reading
  <2>6. MakerKnows(c)'
    BY <2>1, <2>2 DEF MakerKnows, Creation
  <2> QED
    BY <1>2, <2>5, <2>6 DEF Fits
<1> QED
  BY <1>3, <1>4

LEMMA AskIsAlone ==
  ASSUME NEW c \in Clients, Lone(c), Ask(c) \/ AskSession(c)
  PROVE  Fits(c)'
<1>1. /\ Looks /\ client[c].pc \in {"ask", "asksession"}
      /\ client[c] \in ClientState
  BY DEF Ask, AskSession, Looks, Lone, TypeOK
<1>2. RecordAgrees' /\ RecordIsTrue' /\ RecordNames'
  BY <1>1, LooksKeep DEF Lone, Fits, Creation
<1>3. /\ client[c].snap.socket = record.socket /\ client[c].snap.pane = record.pane
      /\ record.status \notin {"Absent", "Dropped"} /\ record.proof
      /\ client[c].round = 1 \/ client[c].op \in {"restart", "remove"} =>
           client[c].snap = record
      /\ client[c].op = "open" => record.status = "Running"
      /\ client[c].round = 2 => Is(client[c].aim.sid)
  BY <1>1 DEF Lone, Fits, LookerKnows, Reading
<1>4. Where(c) \in Sockets /\ session[Where(c)] \in Session
  BY <1>1, WhereTyped DEF Lone, TypeOK
<1>5. CASE Goto(c, "asksession") /\ Ask(c) /\ Answer(Where(c), client[c].snap.pane).state = "Missing"
           /\ client[c].snap.pane # NoId
  <2>1. session[Where(c)].work # "running"
    BY <1>1, <1>3, <1>4, <1>5, AsksAtHome DEF Answer, Exists, Reading
  <2>2. NothingRuns'
    BY <1>1, <2>1, NothingElsewhere, LooksKeep DEF Reading
  <2>3. LookerKnows(c)'
    BY <1>1, <1>3, <1>5, <2>2, GotoIs DEF Lone, LookerKnows, Looks, Reading, Is, Exists
  <2>4. MakerKnows(c)'
    BY <1>5, GotoIs DEF Lone, MakerKnows, Creation
  <2> QED
    BY <1>2, <2>3, <2>4 DEF Fits
<1>6. ASSUME NEW answer, Become(c, [client[c] EXCEPT !.pc = "answered", !.answer = answer]),
             answer.state = "Missing" => NoneExists,
             answer.state = "Ended" => NothingRuns,
             answer.state # "Missing" => Is(answer.sid)
      PROVE  Fits(c)'
  <2> DEFINE entry == [client[c] EXCEPT !.pc = "answered", !.answer = answer]
  <2>1. /\ entry.pc = "answered" /\ entry.answer = answer
        /\ entry.round = client[c].round /\ entry.op = client[c].op
        /\ entry.snap = client[c].snap /\ entry.aim = client[c].aim
    BY <1>1 DEF ClientState
  <2>2. client'[c] = entry
    BY <1>6 DEF Become, Lone, TypeOK
  <2> HIDE DEF entry
  <2>3. LookerKnows(c)'
    BY <1>1, <1>3, <1>6, <2>1, <2>2, LooksKeep
    DEF LookerKnows, Looks, Reading, Is, Exists, AnswerIs
  <2>4. MakerKnows(c)'
    BY <2>1, <2>2 DEF MakerKnows, Creation
  <2> QED
    BY <1>2, <2>3, <2>4 DEF Fits
<1>7. CASE Ask(c) /\ ~(client[c].snap.pane # NoId
                         /\ Answer(Where(c), client[c].snap.pane).state = "Missing")
  <2> DEFINE answer == Answer(Where(c), client[c].snap.pane)
  <2>1. Become(c, [client[c] EXCEPT !.pc = "answered", !.answer = answer])
    BY <1>7 DEF Ask
  <2>2. answer.state = "Missing" => ~Exists(Where(c))
    BY <1>7, <1>3 DEF Answer
  <2>3. answer.state = "Ended" => session[Where(c)].work # "running"
    <3>1. CASE Exists(Where(c))
      BY <1>1, <1>3, <1>4, <3>1, AsksAtHome DEF Answer, Reading
    <3> QED
      BY <3>1 DEF Exists
  <2>4. answer.state # "Missing" => answer.sid = session[Where(c)].sid
    BY DEF Answer
  <2>5. answer.state # "Missing" => Is(answer.sid)
    BY <1>1, <2>4, AsksAtHome DEF Is, Reading
  <2> HIDE DEF answer
  <2> QED
    BY <1>1, <1>6, <2>1, <2>2, <2>3, <2>5, NothingElsewhere DEF Reading
<1>8. CASE AskSession(c)
  <2> DEFINE answer == WithoutItsPane(Answer(Where(c), NoId))
  <2>1. Become(c, [client[c] EXCEPT !.pc = "answered", !.answer = answer])
    BY <1>8 DEF AskSession
  <2>2. /\ answer.state = "Missing" => ~Exists(Where(c))
        /\ answer.state # "Missing" => answer.sid = session[Where(c)].sid
    BY DEF Answer, WithoutItsPane
  <2>3. NothingRuns
    BY <1>8 DEF AskSession, Lone, Fits, LookerKnows
  <2>4. answer.state # "Missing" => Is(answer.sid)
    BY <1>1, <2>2, AsksAtHome DEF Is, Reading
  <2> HIDE DEF answer
  <2> QED
    BY <1>1, <1>6, <2>1, <2>2, <2>3, <2>4, NothingElsewhere DEF Reading
<1> QED
  BY <1>5, <1>7, <1>8 DEF Ask

\* What an answer tells a process that decides on it.
LEMMA AnsweredIsAlone ==
  ASSUME NEW c \in Clients, Lone(c), client[c].pc = "answered"
  PROVE  /\ RecordAgrees /\ RecordIsTrue /\ RecordNames
         /\ record \in Record /\ client[c] \in ClientState
         /\ client[c].snap.socket = record.socket /\ client[c].snap.pane = record.pane
         /\ record.status \notin {"Absent", "Dropped"} /\ record.proof
         /\ client[c].round = 1 \/ client[c].op \in {"restart", "remove"} =>
              client[c].snap = record
         /\ client[c].op = "open" => record.status = "Running"
         /\ client[c].round = 2 => Is(client[c].aim.sid)
         /\ AnswerIs(c, {"Missing"}) => NoneExists
         /\ AnswerIs(c, {"Ended"}) => NothingRuns
         /\ ~AnswerIs(c, {"Missing"}) => Is(client[c].answer.sid)
BY DEF Lone, Fits, LookerKnows, Reading, Creation, TypeOK

LEMMA ActsIsAlone ==
  ASSUME NEW c \in Clients, Lone(c), client[c].pc \in Reading \cup {"kill"},
         NEW pc \in {"kill", "finish", "retire", "reserve"}, Goto(c, pc),
         RecordAgrees', RecordIsTrue', RecordNames',
         record'.socket = record.socket, record'.pane = record.pane,
         record'.status \notin {"Absent", "Dropped"}, record'.proof = record.proof,
         client[c].op \in {"restart", "remove"} => record' = record,
         pc = "kill" => /\ UNCHANGED session
                        /\ Is(client[c].aim.sid)
                        /\ client[c].op \in {"restart", "remove"} => NothingRuns,
         pc # "kill" => NoneExists'
  PROVE  Fits(c)'
<1>1. /\ client'[c].pc = pc /\ client'[c].op = client[c].op
      /\ client'[c].snap = client[c].snap /\ client'[c].aim = client[c].aim
  BY GotoIs DEF Lone
<1>2. /\ client[c].snap.socket = record.socket /\ client[c].snap.pane = record.pane
      /\ record.proof
      /\ client[c].op \in {"restart", "remove"} => client[c].snap = record
  BY DEF Lone, Fits, LookerKnows, Reading
<1>3. LookerKnows(c)'
  BY <1>1, <1>2 DEF LookerKnows, Reading, Is, NothingRuns, Exists
<1>4. MakerKnows(c)'
  BY <1>1 DEF MakerKnows, Creation
<1> QED
  BY <1>3, <1>4 DEF Fits

LEMMA AsksAgainIsAlone ==
  ASSUME NEW c \in Clients, Lone(c), client[c].pc = "answered", AskAgain(c),
         UNCHANGED session,
         RecordAgrees', RecordIsTrue', RecordNames',
         record'.socket = record.socket, record'.pane = record.pane,
         record'.status \notin {"Absent", "Dropped"}, record'.proof = record.proof,
         client[c].op \in {"restart", "remove"} => record' = record,
         client[c].op = "open" => record'.status = "Running",
         ~AnswerIs(c, {"Missing"})
  PROVE  Fits(c)'
<1>1. /\ client'[c].pc = "ask" /\ client'[c].op = client[c].op /\ client'[c].round = 2
      /\ client'[c].snap = client[c].snap
      /\ client'[c].aim.sid = client[c].answer.sid
  BY AskAgainIs DEF Lone
<1>2. /\ client[c].snap.socket = record.socket /\ client[c].snap.pane = record.pane
      /\ client[c].op \in {"restart", "remove"} => client[c].snap = record
      /\ Is(client[c].answer.sid) /\ record.proof
  BY AnsweredIsAlone
<1>3. LookerKnows(c)'
  BY <1>1, <1>2 DEF LookerKnows, Reading, Is, Exists
<1>4. MakerKnows(c)'
  BY <1>1 DEF MakerKnows, Creation
<1> QED
  BY <1>3, <1>4 DEF Fits

LEMMA DecidesIsAlone ==
  ASSUME NEW c \in Clients, Lone(c),
         OpenAttaches(c) \/ StopVerifies(c) \/ ReapInspects(c) \/ ReapVerifies(c)
  PROVE  Fits(c)'
<1>1. Looks /\ client[c].pc = "answered" /\ TypeOK /\ client[c].pc \in Reading
  BY DEF OpenAttaches, StopVerifies, ReapInspects, ReapVerifies, Looks, Answered, At, Lone,
     Reading
<1>2. RecordAgrees' /\ RecordIsTrue' /\ RecordNames'
  BY <1>1, LooksKeep, AnsweredIsAlone
<1>3. CASE GiveUp(c)
  BY <1>1, <1>2, <1>3, ForgettingIsAlone DEF Fits
<1>4. CASE ~GiveUp(c) /\ OpenAttaches(c)
  BY <1>4 DEF OpenAttaches
<1>5. CASE ~GiveUp(c) /\ StopVerifies(c)
  <2>1. /\ client[c].op = "stop" /\ client[c].round = 2
        /\ \/ AnswerIs(c, {"Missing"}) /\ Goto(c, "finish")
           \/ Goto(c, "kill")
    BY <1>5 DEF StopVerifies, Answered, At
  <2> QED
    BY <1>1, <1>2, <2>1, AnsweredIsAlone, ActsIsAlone, LooksKeep DEF Looks
<1>6. AfterReap(c) \in {"retire", "reserve"}
  BY DEF AfterReap
<1>7. CASE ~GiveUp(c) /\ ReapInspects(c)
  <2>1. \/ AnswerIs(c, {"Missing"}) /\ Goto(c, AfterReap(c))
        \/ AnswerIs(c, {"Ended"}) /\ AskAgain(c)
    BY <1>7 DEF ReapInspects
  <2>2. AnswerIs(c, {"Ended"}) => ~AnswerIs(c, {"Missing"})
    BY DEF AnswerIs
  <2> QED
    BY <1>1, <1>2, <1>6, <2>1, <2>2, AnsweredIsAlone, ActsIsAlone, AsksAgainIsAlone, LooksKeep
    DEF Looks
<1>8. CASE ~GiveUp(c) /\ ReapVerifies(c)
  <2>1. /\ client[c].round = 2
        /\ \/ AnswerIs(c, {"Missing"}) /\ Goto(c, AfterReap(c))
           \/ AnswerIs(c, {"Ended"}) /\ Goto(c, "kill")
    BY <1>8 DEF ReapVerifies, Answered
  <2> QED
    BY <1>1, <1>2, <1>6, <2>1, AnsweredIsAlone, ActsIsAlone, LooksKeep DEF Looks
<1> QED
  BY <1>3, <1>4, <1>5, <1>7, <1>8

\* An update that gives a record the id of the session, and leaves it its place.
LEMMA SavingIsAlone ==
  ASSUME NEW c \in Clients, Lone(c), client[c].pc = "answered", UNCHANGED session,
         record'.proof = record.proof,
         record'.socket = record.socket, record'.pane = record.pane,
         record'.status \in {"Running", "Stopping", "Ended"},
         record'.status = "Ended" => NothingRuns,
         \/ record'.sid = record.sid
         \/ ~AnswerIs(c, {"Missing"}) /\ record'.sid = client[c].answer.sid
              /\ record.sid \in {NoId, client[c].answer.sid}
         \/ ~AnswerIs(c, {"Missing"}) /\ record'.sid = client[c].answer.sid
              /\ record.status = "Creating"
  PROVE  RecordAgrees' /\ RecordIsTrue' /\ RecordNames'
<1>1. /\ RecordAgrees /\ RecordIsTrue /\ RecordNames
      /\ record.status \notin {"Absent", "Dropped"}
      /\ ~AnswerIs(c, {"Missing"}) => Is(client[c].answer.sid)
  BY AnsweredIsAlone
<1>2. RecordAgrees'
  BY <1>1 DEF RecordAgrees
<1>3. RecordIsTrue'
  BY <1>1 DEF RecordIsTrue, NothingRuns, NoneExists, Exists
<1>4. RecordNames'
  BY <1>1 DEF RecordNames, Is, Exists, RecordAgrees
<1> QED
  BY <1>2, <1>3, <1>4

LEMMA StopDeclaresIsAlone ==
  ASSUME NEW c \in Clients, Lone(c), StopDeclares(c)
  PROVE  Fits(c)'
<1>1. /\ client[c].pc = "answered" /\ client[c].round = 1 /\ client[c].op = "stop"
      /\ UNCHANGED session /\ client[c].pc \in Reading /\ TypeOK
  BY DEF StopDeclares, Answered, At, Reading, Lone
<1>2. client[c].snap = record /\ record \in Record
  BY <1>1, AnsweredIsAlone
<1>3. CASE GiveUp(c) /\ UNCHANGED record
  <2>1. RecordAgrees' /\ RecordIsTrue' /\ RecordNames'
    BY <1>1, <1>3, LooksKeep, AnsweredIsAlone DEF Looks
  <2> QED
    BY <1>1, <1>3, <2>1, ForgettingIsAlone DEF Fits
<1>4. CASE ~(GiveUp(c) /\ UNCHANGED record)
  <2> DEFINE sid == IF AnswerIs(c, {"Missing"}) THEN record.sid ELSE client[c].answer.sid
  <2>1. /\ record' = [record EXCEPT !.status = "Stopping", !.sid = sid]
        /\ \/ AnswerIs(c, {"Missing"}) /\ Goto(c, "finish")
           \/ ~AnswerIs(c, {"Missing"}) /\ IdentityMatches(c) /\ AskAgain(c)
    BY <1>4 DEF StopDeclares, Save
  <2>2. \/ sid = record.sid
        \/ /\ ~AnswerIs(c, {"Missing"}) /\ sid = client[c].answer.sid
           /\ record.sid \in {NoId, client[c].answer.sid}
    BY <1>2, <2>1 DEF IdentityMatches
  <2> HIDE DEF sid
  <2>3. /\ record'.status = "Stopping" /\ record'.sid = sid /\ record'.proof = record.proof
        /\ record'.socket = record.socket /\ record'.pane = record.pane
    BY <1>2, <2>1 DEF Record
  <2>4. RecordAgrees' /\ RecordIsTrue' /\ RecordNames'
    BY <1>1, <2>2, <2>3, SavingIsAlone
  <2>5. AnswerIs(c, {"Missing"}) => NoneExists'
    BY <1>1, AnsweredIsAlone DEF NoneExists, Exists
  <2> QED
    BY <1>1, <2>1, <2>3, <2>4, <2>5, ActsIsAlone, AsksAgainIsAlone
<1> QED
  BY <1>3, <1>4

LEMMA OpenRecordsIsAlone ==
  ASSUME NEW c \in Clients, Lone(c), OpenRecords(c)
  PROVE  Fits(c)'
<1>1. /\ client[c].pc = "answered" /\ client[c].round = 1 /\ client[c].op = "open"
      /\ UNCHANGED session /\ TypeOK
  BY DEF OpenRecords, Answered, At, Lone
<1>2. client[c].snap = record /\ record \in Record
  BY <1>1, AnsweredIsAlone
<1>3. CASE GiveUp(c) /\ UNCHANGED record
  <2>1. RecordAgrees' /\ RecordIsTrue' /\ RecordNames'
    BY <1>1, <1>3, LooksKeep, AnsweredIsAlone DEF Looks
  <2> QED
    BY <1>1, <1>3, <2>1, ForgettingIsAlone DEF Fits
<1>4. CASE ~(GiveUp(c) /\ UNCHANGED record)
  <2> DEFINE sid == client[c].answer.sid
             rev == record.rev + 1
  <2>1. /\ record' = [record EXCEPT !.sid = sid, !.rev = rev]
        /\ AnswerIs(c, {"Running"}) /\ IdentityMatches(c) /\ AskAgain(c)
    BY <1>4 DEF OpenRecords, Save
  <2>2. ~AnswerIs(c, {"Missing"}) /\ record.sid \in {NoId, client[c].answer.sid}
    BY <1>2, <2>1 DEF IdentityMatches, AnswerIs
  <2>3. record.status = "Running"
    BY <1>1, AnsweredIsAlone
  <2> HIDE DEF sid, rev
  <2>4. /\ record'.status = record.status /\ record'.sid = sid /\ record'.proof = record.proof
        /\ record'.socket = record.socket /\ record'.pane = record.pane
    BY <1>2, <2>1 DEF Record
  <2>5. RecordAgrees' /\ RecordIsTrue' /\ RecordNames'
    BY <1>1, <2>2, <2>3, <2>4, SavingIsAlone DEF sid
  <2> QED
    BY <1>1, <2>1, <2>2, <2>3, <2>4, <2>5, AsksAgainIsAlone
<1> QED
  BY <1>3, <1>4

\* The updates that end an operation.
LEMMA ConcludesIsAlone ==
  ASSUME NEW c \in Clients, Lone(c),
         ObserveAlive(c) \/ ObserveOver(c) \/ RestartPromotes(c)
  PROVE  Fits(c)'
<1>1. /\ client[c].pc = "answered" /\ client[c].round = 1
      /\ UNCHANGED session /\ TypeOK /\ GiveUp(c)
  BY DEF ObserveAlive, ObserveOver, RestartPromotes, Answered, At, Lone
<1>2. client[c].snap = record /\ record \in Record /\ RecordAgrees
  BY <1>1, AnsweredIsAlone
<1> SUFFICES RecordAgrees' /\ RecordIsTrue' /\ RecordNames'
  BY <1>1, ForgettingIsAlone DEF Fits
<1>3. CASE UNCHANGED record
  BY <1>1, <1>3, LooksKeep, AnsweredIsAlone DEF Looks
<1>4. CASE ObserveAlive(c) /\ ~UNCHANGED record
  <2> DEFINE sid == client[c].answer.sid
  <2>1. /\ record' = [record EXCEPT !.status = "Running", !.sid = sid]
        /\ AnswerIs(c, {"Running"}) /\ IdentityMatches(c)
    BY <1>4 DEF ObserveAlive, Save
  <2>2. ~AnswerIs(c, {"Missing"}) /\ record.sid \in {NoId, client[c].answer.sid}
    BY <1>2, <2>1 DEF IdentityMatches, AnswerIs
  <2> HIDE DEF sid
  <2>3. /\ record'.status = "Running" /\ record'.sid = sid /\ record'.proof = record.proof
        /\ record'.socket = record.socket /\ record'.pane = record.pane
    BY <1>2, <2>1 DEF Record
  <2> QED
    BY <1>1, <2>2, <2>3, SavingIsAlone DEF sid
<1>5. CASE ObserveOver(c) /\ ~UNCHANGED record
  <2> DEFINE sid == IF AnswerIs(c, {"Missing"}) THEN record.sid ELSE client[c].answer.sid
  <2>1. /\ \E rev \in {record.rev, record.rev + 1} :
             record' = [record EXCEPT !.status = "Ended", !.rev = rev, !.sid = sid]
        /\ AnswerIs(c, {"Missing"}) \/ IdentityMatches(c)
        /\ AnswerIs(c, {"Ended", "Missing"})
    BY <1>5 DEF ObserveOver, Save
  <2>2. \/ sid = record.sid
        \/ /\ ~AnswerIs(c, {"Missing"}) /\ sid = client[c].answer.sid
           /\ record.sid \in {NoId, client[c].answer.sid}
    BY <1>2, <2>1 DEF IdentityMatches
  <2>3. NothingRuns
    BY <1>1, <2>1, AnsweredIsAlone DEF AnswerIs, NothingRuns, NoneExists, Exists
  <2> HIDE DEF sid
  <2>4. /\ record'.status = "Ended" /\ record'.sid = sid /\ record'.proof = record.proof
        /\ record'.socket = record.socket /\ record'.pane = record.pane
    BY <1>2, <2>1 DEF Record
  <2> QED
    BY <1>1, <2>2, <2>3, <2>4, SavingIsAlone
<1>6. CASE RestartPromotes(c) /\ ~UNCHANGED record
  <2> DEFINE sid == client[c].answer.sid
             rev == record.rev + 1
  <2>1. /\ record' = [record EXCEPT !.status = "Running", !.sid = sid, !.rev = rev]
        /\ AnswerIs(c, {"Running"})
        /\ client[c].snap.status = "Creating" \/ client[c].snap.sid = sid
    BY <1>6 DEF RestartPromotes, Save
  <2>2. ~AnswerIs(c, {"Missing"})
    BY <2>1 DEF AnswerIs
  <2>3. record.status = "Creating" \/ record.sid = client[c].answer.sid
    BY <1>2, <2>1
  <2> HIDE DEF sid, rev
  <2>4. /\ record'.status = "Running" /\ record'.sid = sid /\ record'.proof = record.proof
        /\ record'.socket = record.socket /\ record'.pane = record.pane
    BY <1>2, <2>1 DEF Record
  <2> QED
    BY <1>1, <2>2, <2>3, <2>4, SavingIsAlone DEF sid
<1> QED
  BY <1>3, <1>4, <1>5, <1>6

LEMMA EndsIsAlone ==
  ASSUME NEW c \in Clients, Lone(c), FinishClose(c) \/ Retire(c)
  PROVE  Fits(c)'
<1>1. /\ client[c].pc \in {"finish", "retire"} /\ UNCHANGED session /\ TypeOK /\ GiveUp(c)
      /\ record \in Record
  BY DEF FinishClose, Retire, At, Lone, TypeOK
<1>2. /\ RecordAgrees /\ RecordIsTrue /\ RecordNames /\ NoneExists
      /\ record.status \notin {"Absent", "Dropped"}
  BY <1>1 DEF Lone, Fits, LookerKnows, Creation
<1> SUFFICES RecordAgrees' /\ RecordIsTrue' /\ RecordNames'
  BY <1>1, ForgettingIsAlone DEF Fits
<1>3. CASE UNCHANGED record
  BY <1>1, <1>2, <1>3, LooksKeep DEF Looks
<1>4. CASE ~UNCHANGED record
  <2> DEFINE rev == record.rev + 1
  <2>1. PICK status \in {"Ended", "Removed"} :
          record' = [record EXCEPT !.status = status, !.rev = rev]
    BY <1>4 DEF FinishClose, Retire, Save
  <2> HIDE DEF rev
  <2>2. /\ record'.status = status /\ record'.sid = record.sid
        /\ record'.socket = record.socket /\ record'.pane = record.pane
    BY <1>1, <2>1 DEF Record
  <2>3. NoneExists' /\ NothingRuns'
    BY <1>1, <1>2 DEF NoneExists, NothingRuns, Exists
  <2> QED
    BY <1>2, <2>2, <2>3 DEF RecordAgrees, RecordIsTrue, RecordNames, NoneExists
<1> QED
  BY <1>3, <1>4

LEMMA ReservesIsAlone ==
  ASSUME NEW c \in Clients, Lone(c), Reserve(c)
  PROVE  Fits(c)'
<1>1. /\ client[c].pc = "reserve" /\ client[c].op = "restart" /\ UNCHANGED session /\ TypeOK
      /\ record \in Record
  BY DEF Reserve, At, Lone, TypeOK
<1>2. /\ RecordAgrees /\ RecordIsTrue /\ RecordNames /\ NoneExists
      /\ record.status \notin {"Absent", "Dropped"} /\ record.proof
  BY <1>1 DEF Lone, Fits, LookerKnows, Creation
<1>3. CASE GiveUp(c) /\ UNCHANGED record
  BY <1>1, <1>2, <1>3, LooksKeep, ForgettingIsAlone DEF Looks, Fits
<1>4. CASE ~(GiveUp(c) /\ UNCHANGED record)
  <2>1. record' = Reservation /\ Goto(c, "reload")
    BY <1>4 DEF Reserve, Save
  <2>2. /\ record'.status = "Creating" /\ record'.sid = NoId
        /\ record'.socket = NoSocket /\ record'.pane = NoId /\ record'.proof
    BY <1>1, <1>2, <2>1 DEF Record, Reservation
  <2>3. client'[c].pc = "reload" /\ client'[c].op = "restart"
    BY <1>1, <2>1, GotoIs
  <2>4. NoneExists'
    BY <1>1, <1>2 DEF NoneExists, Exists
  <2> QED
    BY <1>1, <2>2, <2>3, <2>4
    DEF Fits, RecordAgrees, RecordIsTrue, Creation, LookerKnows, MakerKnows, Reading
<1> QED
  BY <1>3, <1>4

\* A step after which no session exists.
LEMMA EmptyIsTrue ==
  ASSUME NoneExists', UNCHANGED record, RecordAgrees
  PROVE  RecordAgrees' /\ RecordIsTrue' /\ RecordNames' /\ NothingRuns'
BY DEF NoneExists, RecordAgrees, RecordIsTrue, RecordNames, NothingRuns, Exists

LEMMA DestroyEmpties ==
  ASSUME TypeOK, NEW s \in Sockets, DestroySession(s),
         \A t \in Sockets : Exists(t) => t = s
  PROVE  NoneExists'
BY DEF TypeOK, DestroySession, NoneExists, Exists, NoSession

LEMMA KillIsAlone ==
  ASSUME NEW c \in Clients, Lone(c), Kill(c)
  PROVE  Fits(c)'
<1>1. /\ client[c].pc = "kill" /\ UNCHANGED record /\ TypeOK /\ EnvOK /\ RecordAgrees
      /\ client[c].op \in AllOps
      /\ record.status \notin {"Absent", "Dropped"}
  BY DEF Kill, Lone, Fits, LookerKnows, TypeOK, ClientState
<1>2. CASE GuardAccepts(Where(c), client[c].aim.sid)
  <2>1. DestroySession(Where(c)) /\ Where(c) \in Sockets
    BY <1>1, <1>2, WhereTyped DEF Kill
  <2>2. NoneExists'
    BY <1>1, <2>1, AsksAtHome, DestroyEmpties
  <2> DEFINE pc == IF client[c].op = "stop" THEN "finish" ELSE AfterReap(c)
  <2>3. pc \in {"finish", "retire", "reserve"} /\ Goto(c, pc)
    BY <1>2 DEF Kill, AfterReap
  <2> HIDE DEF pc
  <2> QED
    BY <1>1, <2>2, <2>3, EmptyIsTrue, ActsIsAlone
<1>3. CASE ~GuardAccepts(Where(c), client[c].aim.sid)
  <2>1. GiveUp(c) /\ Looks
    BY <1>1, <1>3 DEF Kill, Looks
  <2>2. RecordAgrees' /\ RecordIsTrue' /\ RecordNames'
    BY <1>1, <2>1, LooksKeep DEF Lone, Fits, Creation
  <2> QED
    BY <1>1, <2>1, <2>2, ForgettingIsAlone DEF Fits
<1> QED
  BY <1>2, <1>3

\* What a process knows while it makes a session.
LEMMA MakesIsAlone ==
  ASSUME NEW c \in Clients, Lone(c), client[c].pc \in Creation
  PROVE  /\ TypeOK /\ client[c] \in ClientState /\ client[c].env \in Sockets
         /\ nextId[client[c].env] \in Nat /\ client[c].aim.sid \in Ids
         /\ record \in Record /\ record.status = "Creating" /\ record.proof
         /\ record.sid = NoId /\ record.pane = NoId /\ record.socket = NoSocket
         /\ RecordAgrees /\ RecordIsTrue
         /\ client[c].op \in {"create", "restart"}
         /\ client[c].pc \in {"reload", "create", "drop"} => NoneExists
         /\ client[c].op = "restart" /\ client[c].pc # "reload" => client[c].snap = record
         /\ client[c].pc \in {"configure", "activate", "rollback"} =>
              /\ client[c].aim.sid # NoId
              /\ \A s \in Sockets :
                   Exists(s) => s = client[c].env /\ session[s].sid = client[c].aim.sid
BY DEF Lone, Fits, MakerKnows, RecordAgrees, Creation, EnvOK, TypeOK, ClientState, Aims

\* It goes on making one.
LEMMA GoesOnIsAlone ==
  ASSUME NEW c \in Clients, Lone(c), client[c].pc \in Creation, UNCHANGED record,
         client'[c].pc \in Creation \ {"reload"}, client'[c].op = client[c].op,
         client'[c].env = client[c].env,
         client[c].op = "restart" => client'[c].snap = record,
         client'[c].pc \in {"create", "drop"} => NoneExists',
         client'[c].pc \in {"configure", "activate", "rollback"} =>
           /\ client'[c].aim.sid # NoId
           /\ \A s \in Sockets :
                Exists(s)' => s = client[c].env /\ session'[s].sid = client'[c].aim.sid
  PROVE  Fits(c)'
<1>1. RecordAgrees' /\ RecordIsTrue'
  BY MakesIsAlone DEF RecordAgrees, RecordIsTrue
<1>2. MakerKnows(c)'
  BY MakesIsAlone DEF MakerKnows, Creation
<1>3. LookerKnows(c)'
  BY DEF LookerKnows, Creation, Reading
<1> QED
  BY <1>1, <1>2, <1>3 DEF Fits, Creation

\* It stops making one.
LEMMA StopsMakingIsAlone ==
  ASSUME NEW c \in Clients, Lone(c), client[c].pc \in Creation, UNCHANGED record,
         NoneExists', GiveUp(c)
  PROVE  Fits(c)'
BY MakesIsAlone, EmptyIsTrue, ForgettingIsAlone DEF Fits

LEMMA ReloadIsAlone ==
  ASSUME NEW c \in Clients, Lone(c), Reload(c)
  PROVE  Fits(c)'
<1>1. client[c].pc = "reload" /\ client[c].pc \in Creation /\ Looks
  BY DEF Reload, At, Creation, Looks
<1> DEFINE entry == [client[c] EXCEPT !.snap = record, !.pc = "create"]
<1>2. client'[c] = entry
  BY <1>1, MakesIsAlone DEF Reload, Become, TypeOK
<1>3. /\ entry.pc = "create" /\ entry.op = client[c].op /\ entry.env = client[c].env
      /\ entry.snap = record
  BY <1>1, MakesIsAlone DEF ClientState
<1> HIDE DEF entry
<1>4. NoneExists'
  BY <1>1, MakesIsAlone, LooksKeep
<1> QED
  BY <1>1, <1>2, <1>3, <1>4, GoesOnIsAlone DEF Looks, Creation

LEMMA CreateSessionIsAlone ==
  ASSUME NEW c \in Clients, Lone(c), CreateSession(c)
  PROVE  Fits(c)'
<1>1. client[c].pc = "create" /\ client[c].pc \in Creation /\ UNCHANGED record
  BY DEF CreateSession, Creation
<1>2. /\ NoneExists /\ client[c].env \in Sockets /\ nextId[client[c].env] \in Nat
      /\ TypeOK /\ client[c] \in ClientState
      /\ client[c].op = "restart" => client[c].snap = record
  BY <1>1, MakesIsAlone
<1> DEFINE aim == [sid |-> nextId[client[c].env], inc |-> made + 1]
           entry == [client[c] EXCEPT !.pc = "configure", !.aim = aim]
<1>3. StartSession(client[c].env) /\ Become(c, entry)
  BY <1>2 DEF CreateSession, NoneExists
<1>4. client'[c] = entry
  BY <1>2, <1>3 DEF Become, TypeOK
<1>5. aim.sid = nextId[client[c].env] /\ aim.sid # NoId
  BY <1>2
<1>6. \A s \in Sockets : Exists(s)' => s = client[c].env /\ session'[s].sid = aim.sid
  BY <1>2, <1>3, <1>5 DEF StartSession, Exists, NoneExists, TypeOK
<1> HIDE DEF aim
<1>7. /\ entry.pc = "configure" /\ entry.op = client[c].op /\ entry.env = client[c].env
      /\ entry.snap = client[c].snap /\ entry.aim = aim
  BY <1>2 DEF ClientState
<1> HIDE DEF entry
<1> QED
  BY <1>1, <1>2, <1>4, <1>5, <1>6, <1>7, GoesOnIsAlone DEF Creation

LEMMA ConfigureIsAlone ==
  ASSUME NEW c \in Clients, Lone(c), Configure(c)
  PROVE  Fits(c)'
<1>1. client[c].pc = "configure" /\ client[c].pc \in Creation /\ UNCHANGED record
  BY DEF Configure, Creation
<1>2. /\ TypeOK /\ client[c].env \in Sockets
      /\ client[c].op = "restart" => client[c].snap = record
      /\ client[c].aim.sid # NoId
      /\ \A s \in Sockets :
           Exists(s) => s = client[c].env /\ session[s].sid = client[c].aim.sid
  BY <1>1, MakesIsAlone
<1>3. PICK pc \in {"activate", "rollback"} : Goto(c, pc)
  BY DEF Configure
<1>4. \/ UNCHANGED session
      \/ session' = [session EXCEPT ![client[c].env].remain = TRUE]
  BY DEF Configure
<1>5. \A s \in Sockets : session'[s].work = session[s].work /\ session'[s].sid = session[s].sid
  BY <1>2, <1>4 DEF TypeOK, Session
<1>6. /\ client'[c].pc = pc /\ client'[c].op = client[c].op /\ client'[c].env = client[c].env
      /\ client'[c].snap = client[c].snap /\ client'[c].aim = client[c].aim
  BY <1>2, <1>3, GotoIs
<1> QED
  BY <1>1, <1>2, <1>3, <1>5, <1>6, GoesOnIsAlone DEF Exists, Creation

\* A failure that proves that nothing was created.
LEMMA FailsIsAlone ==
  ASSUME NEW c \in Clients, Lone(c), client[c].pc \in Creation \ {"reload"},
         UNCHANGED record, NoneExists', FailsForCertain(c)
  PROVE  Fits(c)'
<1>1. CASE client[c].op = "create"
  <2>1. Goto(c, "drop") /\ TypeOK
    BY <1>1 DEF FailsForCertain, Lone
  <2>2. client'[c].pc = "drop" /\ client'[c].op = client[c].op /\ client'[c].env = client[c].env
    BY <2>1, GotoIs
  <2> QED
    BY <1>1, <2>2, GoesOnIsAlone DEF Creation
<1> QED
  BY <1>1, StopsMakingIsAlone DEF FailsForCertain

LEMMA RollbackIsAlone ==
  ASSUME NEW c \in Clients, Lone(c), Rollback(c)
  PROVE  Fits(c)'
<1>1. client[c].pc = "rollback" /\ client[c].pc \in Creation /\ UNCHANGED record
  BY DEF Rollback, Creation
<1>2. /\ TypeOK /\ client[c].env \in Sockets
      /\ \A s \in Sockets :
           Exists(s) => s = client[c].env /\ session[s].sid = client[c].aim.sid
  BY <1>1, MakesIsAlone
<1>3. CASE GuardAccepts(client[c].env, client[c].aim.sid)
  <2>1. NoneExists' /\ FailsForCertain(c)
    BY <1>2, <1>3, DestroyEmpties DEF Rollback
  <2> QED
    BY <1>1, <2>1, FailsIsAlone
<1>4. CASE ~GuardAccepts(client[c].env, client[c].aim.sid)
  <2>1. GiveUp(c) /\ UNCHANGED session
    BY <1>4 DEF Rollback
  <2>2. NoneExists'
    BY <1>2, <1>4, <2>1 DEF NoneExists, GuardAccepts, Exists
  <2> QED
    BY <1>1, <2>1, <2>2, StopsMakingIsAlone
<1> QED
  BY <1>3, <1>4

LEMMA DropsIsAlone ==
  ASSUME NEW c \in Clients, Lone(c), DropReservation(c)
  PROVE  Fits(c)'
<1>1. client[c].pc = "drop" /\ client[c].pc \in Creation /\ UNCHANGED session /\ GiveUp(c)
  BY DEF DropReservation, At, Creation
<1>2. TypeOK /\ NoneExists'
  BY <1>1, MakesIsAlone DEF NoneExists, Exists
<1>3. record' = [AbsentRecord EXCEPT !.status = "Dropped"]
  BY <1>1, MakesIsAlone DEF DropReservation, Save
<1>4. record'.status = "Dropped" /\ record'.pane = NoId
  BY <1>3 DEF AbsentRecord
<1>5. RecordAgrees' /\ RecordIsTrue' /\ RecordNames'
  BY <1>2, <1>4 DEF RecordAgrees, RecordIsTrue, RecordNames, NoneExists
<1> QED
  BY <1>1, <1>2, <1>5, ForgettingIsAlone DEF Fits

LEMMA ActivatesIsAlone ==
  ASSUME NEW c \in Clients, Lone(c), Activate(c)
  PROVE  Fits(c)'
<1>1. client[c].pc = "activate" /\ client[c].pc \in Creation /\ UNCHANGED session /\ GiveUp(c)
  BY DEF Activate, Creation
<1>2. /\ TypeOK /\ record \in Record /\ client[c].env \in Sockets /\ client[c].aim.sid # NoId
      /\ record.status = "Creating" /\ RecordIsTrue
      /\ \A s \in Sockets :
           Exists(s) => s = client[c].env /\ session[s].sid = client[c].aim.sid
  BY <1>1, MakesIsAlone
<1> DEFINE sid == client[c].aim.sid
           socket == client[c].env
           rev == record.rev + 1
<1>3. record' = [record EXCEPT !.status = "Running", !.sid = sid, !.pane = sid,
                               !.socket = socket, !.rev = rev]
  BY <1>1, MakesIsAlone DEF Activate, Activatable, SnapshotHolds, Save
<1> HIDE DEF sid, socket, rev
<1>4. /\ record'.status = "Running" /\ record'.sid = sid /\ record'.pane = sid
      /\ record'.socket = socket /\ record'.proof = record.proof
  BY <1>2, <1>3 DEF Record
<1>5. socket # NoSocket
  BY <1>2, SocketAssumption DEF socket
<1>6. RecordAgrees' /\ RecordIsTrue' /\ RecordNames'
  BY <1>1, <1>2, <1>4, <1>5
  DEF RecordAgrees, RecordIsTrue, RecordNames, NoneExists, Exists, sid, socket
<1> QED
  BY <1>1, <1>2, <1>6, ForgettingIsAlone DEF Fits

LEMMA StepIsAlone ==
  ASSUME NEW c \in Clients, Lone(c), Step(c)
  PROVE  Fits(c)'
BY LoadIsAlone, AskIsAlone, DecidesIsAlone, StopDeclaresIsAlone, OpenRecordsIsAlone,
   ConcludesIsAlone, EndsIsAlone, ReservesIsAlone, KillIsAlone, ReloadIsAlone,
   CreateSessionIsAlone, ConfigureIsAlone, RollbackIsAlone, DropsIsAlone, ActivatesIsAlone
DEF Step

LEMMA BeginIsAlone ==
  ASSUME NEW c \in Clients, Lone(c), NEW env \in Sockets,
         CreateReserves(c, env) \/ \E op \in Ops : Begin(c, op, env)
  PROVE  Fits(c)'
<1>1. /\ client[c].pc = "idle" /\ client[c].round = 1 /\ UNCHANGED session /\ TypeOK
      /\ RecordAgrees /\ RecordIsTrue /\ RecordNames
      /\ client[c] \in ClientState
  BY DEF CreateReserves, Begin, Lone, Fits, LookerKnows, TypeOK, Creation
<1>2. CASE CreateReserves(c, env)
  <2> DEFINE entry == [client[c] EXCEPT !.pc = "create", !.op = "create", !.env = env]
  <2>1. client'[c] = entry
    BY <1>1, <1>2 DEF CreateReserves, Become, TypeOK
  <2>2. entry.pc = "create" /\ entry.op = "create"
    BY <1>1 DEF ClientState
  <2> HIDE DEF entry
  <2>3. record' = [AbsentRecord EXCEPT !.status = "Creating"]
    BY <1>2 DEF CreateReserves, Save
  <2>4. /\ record'.status = "Creating" /\ record'.sid = NoId /\ record'.pane = NoId
        /\ record'.socket = NoSocket /\ record'.proof
    BY <2>3 DEF AbsentRecord
  <2>5. NoneExists'
    BY <1>1, <1>2 DEF CreateReserves, RecordIsTrue, NoneExists, Exists
  <2>6. RecordAgrees' /\ RecordIsTrue'
    BY <2>4, <2>5 DEF RecordAgrees, RecordIsTrue
  <2> QED
    BY <2>1, <2>2, <2>4, <2>5, <2>6 DEF Fits, LookerKnows, MakerKnows, Creation, Reading
<1>3. ASSUME NEW op \in Ops, Begin(c, op, env) PROVE Fits(c)'
  <2> DEFINE entry == [client[c] EXCEPT !.pc = "load", !.op = op, !.env = env]
  <2>1. client'[c] = entry /\ Looks
    BY <1>1, <1>3 DEF Begin, Become, TypeOK, Looks
  <2>2. entry.pc = "load" /\ entry.round = 1
    BY <1>1 DEF ClientState
  <2> HIDE DEF entry
  <2>3. RecordAgrees' /\ RecordIsTrue' /\ RecordNames'
    BY <1>1, <2>1, LooksKeep
  <2> QED
    BY <2>1, <2>2, <2>3 DEF Fits, LookerKnows, MakerKnows, Creation, Reading
<1> QED
  BY <1>2, <1>3

\* A process that dies leaves a record that takes in what it was making.
LEMMA AbandonIsAlone ==
  ASSUME NEW c \in Clients, Lone(c), Abandon(c)
  PROVE  Fits(c)'
<1>1. Looks /\ GiveUp(c) /\ TypeOK /\ Simple
  BY DEF Abandon, Looks, Lone, AnswersArrive
<1>2. RecordAgrees' /\ RecordIsTrue'
  BY <1>1, LooksKeep DEF Lone, Fits
<1>3. RecordNames
  BY <1>1, MakesIsAlone DEF Lone, Fits, RecordNames
<1> QED
  BY <1>1, <1>2, <1>3, LooksKeep, ForgettingIsAlone DEF Fits

-----------------------------------------------------------------------------
\* Sessions only ever end from outside.
LEMMA OutsideShrinks ==
  ASSUME TypeOK, NEW s \in Sockets, Outside(s)
  PROVE  /\ UNCHANGED <<record, client, late>>
         /\ \A t \in Sockets :
              /\ Exists(t)' => Exists(t) /\ session'[t].sid = session[t].sid
              /\ session'[t].work = "running" => session[t].work = "running"
<1>1. CASE WorkExits(s)
  BY <1>1 DEF WorkExits, TypeOK, Session, Exists, NoSession
<1>2. CASE SessionEndsOutside(s)
  BY <1>2 DEF SessionEndsOutside, DestroySession, TypeOK, Session, Exists, NoSession
<1>3. CASE ActivePaneChanges(s)
  BY <1>3 DEF ActivePaneChanges, TypeOK, Session, Exists
<1>4. CASE LaunchedPaneCloses(s)
  BY <1>4 DEF LaunchedPaneCloses, TypeOK, Session, Exists
<1>5. CASE ServerExits(s)
  BY <1>5 DEF ServerExits, Exists
<1> QED
  BY <1>1, <1>2, <1>3, <1>4, <1>5 DEF Outside

LEMMA OutsideIsAlone ==
  ASSUME TypeOK, NEW s \in Sockets, Outside(s)
  PROVE  /\ RecordAgrees => RecordAgrees'
         /\ RecordIsTrue => RecordIsTrue'
         /\ RecordNames => RecordNames'
         /\ \A c \in Clients :
              /\ LookerKnows(c) => LookerKnows(c)'
              /\ MakerKnows(c) => MakerKnows(c)'
<1>1. /\ UNCHANGED <<record, client>>
      /\ \A t \in Sockets :
           /\ Exists(t)' => Exists(t) /\ session'[t].sid = session[t].sid
           /\ session'[t].work = "running" => session[t].work = "running"
  BY OutsideShrinks
<1>2. (NoneExists => NoneExists') /\ (NothingRuns => NothingRuns')
  BY <1>1 DEF NoneExists, NothingRuns
<1>3. /\ RecordAgrees => RecordAgrees'
      /\ RecordIsTrue => RecordIsTrue'
      /\ RecordNames => RecordNames'
  BY <1>1, <1>2 DEF RecordAgrees, RecordIsTrue, RecordNames
<1>4. \A sid : Is(sid) => \A t \in Sockets : Exists(t)' => session'[t].sid = sid
  BY <1>1 DEF Is
<1>5. ASSUME NEW c \in Clients, LookerKnows(c) PROVE LookerKnows(c)'
  BY <1>1, <1>2, <1>4, <1>5 DEF LookerKnows, Is, AnswerIs
<1>6. ASSUME NEW c \in Clients, MakerKnows(c) PROVE MakerKnows(c)'
  BY <1>1, <1>2, <1>6 DEF MakerKnows
<1> QED
  BY <1>3, <1>5, <1>6

\* A process that is at work, or begins to be, is the only one.
LEMMA OthersRest ==
  ASSUME TypeOK, OneAtATime, OneAtATime', NEW c \in Clients, NEW d \in Clients, d # c,
         \/ Step(c) \/ Fault(c)
         \/ \E env \in Sockets : CreateReserves(c, env) \/ \E op \in Ops : Begin(c, op, env)
  PROVE  client[d].pc = "idle" /\ client'[d] = client[d]
<1>1. client'[d] = client[d]
  BY OthersUnmoved
<1>2. CASE Step(c) \/ Fault(c)
  <2>1. client[c].pc # "idle"
    BY <1>2
    DEF Step, Fault, At, Answered, Load, Ask, AskSession, StopDeclares, StopVerifies,
        FinishClose, OpenRecords, OpenAttaches, ObserveAlive, ObserveOver, RestartPromotes,
        ReapInspects, ReapVerifies, Kill, Retire, Reserve, Reload, CreateSession, Configure,
        Rollback, DropReservation, Activate, Abandon, TimesOut, SshDrops
  <2> QED
    BY <1>1, <2>1 DEF OneAtATime
<1>3. ASSUME NEW env \in Sockets, CreateReserves(c, env) \/ \E op \in Ops : Begin(c, op, env)
      PROVE  client[d].pc = "idle"
  <2>1. client'[c].pc \in {"create", "load"}
    <3>1. client[c] \in ClientState /\ client \in [Clients -> ClientState]
      BY DEF TypeOK
    <3>2. CASE CreateReserves(c, env)
      <4> DEFINE entry == [client[c] EXCEPT !.pc = "create", !.op = "create", !.env = env]
      <4>1. entry.pc = "create"
        BY <3>1 DEF ClientState
      <4>2. client' = [client EXCEPT ![c] = entry]
        BY <3>2 DEF CreateReserves, Become
      <4> HIDE DEF entry
      <4> QED
        BY <3>1, <4>1, <4>2
    <3>3. ASSUME NEW op \in Ops, Begin(c, op, env) PROVE client'[c].pc = "load"
      <4> DEFINE entry == [client[c] EXCEPT !.pc = "load", !.op = op, !.env = env]
      <4>1. entry.pc = "load"
        BY <3>1 DEF ClientState
      <4>2. client' = [client EXCEPT ![c] = entry]
        BY <3>3 DEF Begin, Become
      <4> HIDE DEF entry
      <4> QED
        BY <3>1, <4>1, <4>2
    <3> QED
      BY <1>3, <3>2, <3>3
  <2> QED
    BY <1>1, <2>1 DEF OneAtATime
<1> QED
  BY <1>1, <1>2, <1>3

LEMMA AloneInvStep ==
  AnswersArrive /\ AloneInv /\ OneAtATime /\ OneAtATime' /\ [Next]_vars => AloneInv'
<1> SUFFICES ASSUME AnswersArrive, AloneInv, OneAtATime, OneAtATime', [Next]_vars
             PROVE  AloneInv'
  OBVIOUS
<1>1. TypeOK /\ EnvOK /\ TypeOK' /\ EnvOK' /\ late = {}
  BY NextTyped DEF AloneInv
<1>2. CASE UNCHANGED vars
  <2>1. Looks /\ UNCHANGED <<client, late>>
    BY <1>2 DEF vars, Looks
  <2>2. /\ Simple => OwnIsActive'
        /\ RecordAgrees' /\ RecordIsTrue' /\ (RecordNames => RecordNames')
    BY <2>1, LooksKeep DEF AloneInv, Looks, OwnIsActive, Exists
  <2>3. ASSUME NEW c \in Clients PROVE LookerKnows(c)' /\ MakerKnows(c)'
    BY <2>1, LooksKeep
    DEF Looks, AloneInv, LookerKnows, MakerKnows, Exists, Is, AnswerIs
  <2>4. ((\A c \in Clients : client[c].pc \notin Creation) => RecordNames)'
    BY <2>1, <2>2 DEF AloneInv
  <2>5. late' = {}
    BY <1>1, <2>1
  <2> QED
    BY <1>1, <2>2, <2>3, <2>4, <2>5 DEF AloneInv
<1>3. CASE Next
  <2>1. Simple => OwnIsActive'
    BY <1>1, <1>3, NextOwns DEF Simple, WindowsStayWhole, AloneInv
  <2>2. late' = {}
    BY <1>1, <1>3 DEF Next, AnswersArrive, CreateReserves, Begin, Step, Load, Ask, AskSession,
       StopDeclares, StopVerifies, FinishClose, OpenRecords, OpenAttaches, ObserveAlive,
       ObserveOver, RestartPromotes, ReapInspects, ReapVerifies, Kill, Retire, Reserve,
       Reload, CreateSession, Configure, Rollback, DropReservation, Activate, Fault, Abandon,
       TimesOut, SshDrops, Outside, WorkExits, SessionEndsOutside, ActivePaneChanges,
       LaunchedPaneCloses, ServerExits
  <2>3. ASSUME NEW c \in Clients,
               \/ Step(c) \/ Fault(c)
               \/ \E env \in Sockets :
                    CreateReserves(c, env) \/ \E op \in Ops : Begin(c, op, env)
        PROVE  AloneInv'
    <3>1. \A d \in Clients : d # c => client[d].pc = "idle" /\ client'[d] = client[d]
      BY <1>1, <2>3, OthersRest
    <3>2. Lone(c)
      BY <1>1, <3>1 DEF AloneInv, Lone, Fits, Creation
    <3>3. Fault(c) => Abandon(c)
      BY DEF Fault, TimesOut, SshDrops, AnswersArrive
    <3>4. Fits(c)'
      BY <2>3, <3>2, <3>3, StepIsAlone, AbandonIsAlone, BeginIsAlone
    <3>5. ASSUME NEW d \in Clients PROVE LookerKnows(d)' /\ MakerKnows(d)'
      <4>1. CASE d = c
        BY <3>4, <4>1 DEF Fits
      <4>2. CASE d # c
        BY <3>1, <4>2 DEF AloneInv, LookerKnows, MakerKnows, Reading, Creation
      <4> QED
        BY <4>1, <4>2
    <3> QED
      BY <1>1, <2>1, <2>2, <3>4, <3>5 DEF AloneInv, Fits
  <2>4. ASSUME NEW s \in Sockets, Outside(s) PROVE AloneInv'
    <3>1. UNCHANGED client
      BY <1>1, <2>4, OutsideShrinks
    <3> QED
      BY <1>1, <2>1, <2>2, <2>4, <3>1, OutsideIsAlone DEF AloneInv
  <2> QED
    BY <1>1, <1>3, <2>3, <2>4 DEF Next
<1> QED
  BY <1>2, <1>3

LEMMA AloneInvInit == AnswersArrive /\ Init => AloneInv
<1> SUFFICES ASSUME AnswersArrive, Init PROVE AloneInv
  OBVIOUS
<1>1. PICK kind \in InitialKinds, s \in Sockets :
        /\ record = InitialRecord(kind, s)
        /\ session = [t \in Sockets |->
                        IF HasSession(kind) /\ t = s THEN FirstSession ELSE NoSession]
  BY DEF Init
<1>2. TypeOK /\ EnvOK /\ late = {} /\ s # NoSocket
  BY InitTyped, SocketAssumption DEF Init
<1>3. OwnIsActive
  BY <1>1 DEF OwnIsActive, Exists, NoSession, FirstSession
<1>4. \A t \in Sockets :
        Exists(t) => kind \in {"pinned", "unpinned"} /\ t = s /\ session[t].sid = 0
  BY <1>1 DEF Exists, NoSession, FirstSession, HasSession
<1>5. RecordAgrees /\ RecordIsTrue /\ RecordNames
  <2>1. CASE kind \in {"pinned", "unpinned"}
    <3>1. /\ record.status = "Running" /\ record.sid = 0 /\ record.proof
          /\ \/ kind = "pinned" /\ record.pane = 0 /\ record.socket = s
             \/ kind = "unpinned" /\ record.pane = NoId /\ record.socket = NoSocket
      BY <1>1, <2>1 DEF InitialRecord, AbsentRecord
    <3>2. kind = "unpinned" => Simple
      BY DEF AnswersArrive
    <3> QED
      BY <1>2, <1>4, <3>1, <3>2 DEF RecordAgrees, RecordIsTrue, RecordNames
  <2>2. CASE kind \in {"absent", "legacy"}
    <3>1. /\ record.pane = NoId /\ record.status \in {"Absent", "Running"}
      BY <1>1, <2>2 DEF InitialRecord, AbsentRecord
    <3>2. NoneExists
      BY <1>4, <2>2 DEF NoneExists
    <3> QED
      BY <3>1, <3>2 DEF RecordAgrees, RecordIsTrue, RecordNames, NoneExists
  <2> QED
    BY <2>1, <2>2, ChoiceAssumption DEF AllKinds
<1>6. \A c \in Clients : LookerKnows(c) /\ MakerKnows(c)
  BY DEF Init, LookerKnows, MakerKnows, Idle, Reading, Creation
<1> QED
  BY <1>2, <1>3, <1>5, <1>6 DEF AloneInv

\* What a process knows about where a session may be rules out a second one.
\* What a process knows about where a session may be rules out a second one.
LEMMA AloneInvSuffices ==
  ASSUME AloneInv
  PROVE  /\ OneIncarnation /\ EndedIsTrue /\ RunningWorkIsActionable
         /\ ReapsSpareRunningWork
<1>1. OneIncarnation
  <2> SUFFICES ASSUME NEW s \in Sockets, NEW t \in Sockets, Exists(s), Exists(t)
               PROVE  s = t
    BY DEF OneIncarnation
  <2>1. CASE \A c \in Clients : client[c].pc \notin Creation
    <3>1. RecordNames /\ RecordAgrees
      BY <2>1 DEF AloneInv
    <3> QED
      BY <3>1 DEF RecordNames, RecordAgrees, Simple
  <2>2. ASSUME NEW c \in Clients, client[c].pc \in Creation PROVE s = t
    BY <2>2 DEF AloneInv, MakerKnows, Creation, NoneExists
  <2> QED
    BY <2>1, <2>2
<1>2. EndedIsTrue
  BY DEF AloneInv, RecordIsTrue, EndedIsTrue, NothingRuns
<1>3. RunningWorkIsActionable
  <2> SUFFICES ASSUME Quiet, NEW s \in Sockets, session[s].work = "running"
               PROVE  /\ record.socket \in {s, NoSocket}
                      /\ record.status \in {"Creating", "Running", "Stopping"}
                      /\ record.sid \in {NoId, session[s].sid}
    BY DEF RunningWorkIsActionable
  <2>1. RecordNames /\ RecordIsTrue /\ TypeOK
    BY DEF AloneInv, Quiet, Creation
  <2>2. record.status \in Statuses /\ Exists(s)
    BY <2>1 DEF TypeOK, Record, Exists
  <2> QED
    BY <2>1, <2>2 DEF RecordNames, RecordIsTrue, NothingRuns, NoneExists, Statuses
<1>4. ReapsSpareRunningWork
  <2> SUFFICES ASSUME NEW k \in OutstandingKills, k.op \in {"restart", "remove"},
                      GuardAccepts(k.socket, k.sid)
               PROVE  session[k.socket].work # "running"
    BY DEF ReapsSpareRunningWork
  <2>1. PICK c \in Clients : client[c].pc \in {"kill", "rollback"} /\ k = KillCommand(c)
    BY DEF AloneInv, OutstandingKills
  <2>2. client[c].pc = "kill" /\ client[c].op \in {"restart", "remove"}
    BY <2>1 DEF KillCommand
  <2>3. NothingRuns /\ record.proof
    BY <2>2 DEF AloneInv, LookerKnows
  <2>4. k.socket \in Sockets
    BY <2>1, <2>2, WhereTyped DEF AloneInv, KillCommand
  <2> QED
    BY <2>3, <2>4 DEF NothingRuns
<1> QED
  BY <1>1, <1>2, <1>3, <1>4

\* As long as processes take turns and their commands are answered, there is
\* never a second session, on whatever servers, and although anybody may end or
\* split one.  A process may die as well where there is one server to ask.
THEOREM LoneSessionIsOne ==
  ASSUME AnswersArrive
  PROVE  Spec /\ []OneAtATime => []OneIncarnation
<1>1. Init => AloneInv
  BY AloneInvInit
<1>2. AloneInv /\ OneAtATime /\ OneAtATime' /\ [Next]_vars => AloneInv'
  BY AloneInvStep
<1>3. AloneInv => OneIncarnation
  BY AloneInvSuffices
<1> QED
  BY <1>1, <1>2, <1>3, PTL DEF Spec

\* Under the same conditions a record says Ended or Removed only of work that
\* is over: the answers it was written from still hold.
THEOREM LoneEndIsTrue ==
  ASSUME AnswersArrive
  PROVE  Spec /\ []OneAtATime => []EndedIsTrue
<1>1. Init => AloneInv
  BY AloneInvInit
<1>2. AloneInv /\ OneAtATime /\ OneAtATime' /\ [Next]_vars => AloneInv'
  BY AloneInvStep
<1>3. AloneInv => EndedIsTrue
  BY AloneInvSuffices
<1> QED
  BY <1>1, <1>2, <1>3, PTL DEF Spec

\* Under the same conditions work that runs while nothing is in progress is
\* always where the record leads, and in a state that a stop takes or a restart
\* promotes, wherever an operation was interrupted.
THEOREM LoneWorkStaysActionable ==
  ASSUME AnswersArrive
  PROVE  Spec /\ []OneAtATime => []RunningWorkIsActionable
<1>1. Init => AloneInv
  BY AloneInvInit
<1>2. AloneInv /\ OneAtATime /\ OneAtATime' /\ [Next]_vars => AloneInv'
  BY AloneInvStep
<1>3. AloneInv => RunningWorkIsActionable
  BY AloneInvSuffices
<1> QED
  BY <1>1, <1>2, <1>3, PTL DEF Spec

\* Under the same conditions no restart and no removal ends work that runs,
\* although servers may exit and start to count anew, and windows may be split.
THEOREM LoneReapsAreHarmless ==
  ASSUME AnswersArrive
  PROVE  Spec /\ []OneAtATime => []ReapsSpareRunningWork
<1>1. Init => AloneInv
  BY AloneInvInit
<1>2. AloneInv /\ OneAtATime /\ OneAtATime' /\ [Next]_vars => AloneInv'
  BY AloneInvStep
<1>3. AloneInv => ReapsSpareRunningWork
  BY AloneInvSuffices
<1> QED
  BY <1>1, <1>2, <1>3, PTL DEF Spec
=============================================================================
