----------------------------- MODULE HerdrEvents -----------------------------
(***************************************************************************)
(* How Mission Control learns that something changed in Herdr: a thread    *)
(* holds a subscription on Herdr's socket and passes one signal on for     *)
(* each event (src/herdr_socket.rs); the loop of Mission Control empties   *)
(* the signals and reads a snapshot (src/orchestration.rs), which may      *)
(* bring another set of panes to watch and with it another subscription.   *)
(* Herdr stops and starts, a connection breaks, and an event arrives in    *)
(* pieces, between any two steps.                                          *)
(***************************************************************************)
EXTENDS Naturals, Sequences

CONSTANTS
  MaxHerdrChanges,  \* bound: changes in Herdr
  MaxBreaks,        \* bound: broken connections, and starts of Herdr
  MaxStream         \* bound: pieces on their way

ASSUME EventAssumption ==
  MaxHerdrChanges \in Nat /\ MaxBreaks \in Nat /\ MaxStream \in Nat

VARIABLES
  herdr,      \* Herdr: whether it runs, how often it changed, what broke
  connected,  \* its end of the connection: none, asked, or subscribed
  stream,     \* what is on its way to the thread, in pieces of lines
  monitor,    \* the thread, and whether it read the start of a line
  signals,    \* a signal is in the channel to the loop
  seen        \* the loop: the change its snapshot shows, and what it does

eventVars == <<herdr, connected, stream, monitor, signals, seen>>

\* A line comes whole or as a head and a tail.  A tail alone is no record.
Line(kind) == {<<[kind |-> kind, part |-> "whole"]>>,
               <<[kind |-> kind, part |-> "head"], [kind |-> kind, part |-> "tail"]>>}

EventInit ==
  /\ herdr = [up |-> TRUE, changes |-> 0, breaks |-> 0]
  /\ connected = "none" /\ stream = <<>>
  /\ monitor = [at |-> "connecting", partial |-> FALSE, before |-> FALSE]
  /\ signals = FALSE
  /\ seen = [change |-> 0, at |-> "idle", owes |-> FALSE]

-----------------------------------------------------------------------------
(* The thread *)

\* A subscription that ends says Disconnected, waits and tries again.
Fails ==
  /\ monitor' = [at |-> "pausing", partial |-> FALSE, before |-> TRUE]
  /\ signals' = TRUE /\ connected' = "none" /\ stream' = <<>>

Connects ==
  /\ monitor.at = "connecting"
  /\ IF herdr.up
     THEN /\ connected' = "asked" /\ monitor' = [monitor EXCEPT !.at = "awaiting"]
          /\ UNCHANGED <<stream, signals>>
     ELSE Fails
  /\ UNCHANGED <<herdr, seen>>

Pauses ==
  /\ monitor.at = "pausing" /\ monitor' = [monitor EXCEPT !.at = "connecting"]
  /\ UNCHANGED <<herdr, connected, stream, signals, seen>>

\* Mutant: only a subscription that replaces one asks for a snapshot.
ResnapshotsLater(before) == before

\* Every subscription asks for a snapshot once it is in force.
Resnapshots(before) == TRUE

\* A record that cannot be read ends the subscription.
Garbled == Fails

\* read_bounded_line keeps the start of a line only within one call: a read
\* that times out in between forgets it, and the rest is no record.  The
\* acknowledgement must be the first line, and in time.
ReadsPiece ==
  /\ monitor.at \in {"awaiting", "reading"} /\ stream # <<>>
  /\ LET piece == Head(stream)
         complete == piece.part = "whole" \/ (piece.part = "tail" /\ monitor.partial)
     IN  CASE piece.part = "head" ->
                /\ monitor' = [monitor EXCEPT !.partial = TRUE]
                /\ stream' = Tail(stream) /\ UNCHANGED <<connected, signals>>
           [] piece.part # "head" /\ ~complete -> Garbled
           [] OTHER ->
                /\ monitor' = [monitor EXCEPT !.at = "reading", !.partial = FALSE]
                /\ signals' = (signals \/ piece.kind = "event" \/ Resnapshots(monitor.before))
                /\ stream' = Tail(stream) /\ UNCHANGED connected
  /\ UNCHANGED <<herdr, seen>>

ReadTimesOut ==
  /\ monitor.at \in {"awaiting", "reading"}
  /\ \/ stream = <<>>
     \/ stream # <<>> /\ Head(stream).part = "tail"
  /\ IF monitor.at = "awaiting" THEN Fails
     ELSE /\ monitor' = [monitor EXCEPT !.partial = FALSE]
          /\ UNCHANGED <<connected, stream, signals>>
  /\ UNCHANGED <<herdr, seen>>

\* End of the stream: everything sent was read, or the rest was lost.
StreamEnds ==
  /\ monitor.at \in {"awaiting", "reading"} /\ connected = "none"
  /\ Fails /\ UNCHANGED <<herdr, seen>>

-----------------------------------------------------------------------------
(* Herdr *)

Acknowledges ==
  /\ herdr.up /\ connected = "asked" /\ connected' = "subscribed"
  /\ \E line \in Line("ack") : stream' = stream \o line
  /\ UNCHANGED <<herdr, monitor, signals, seen>>

\* A pane or an agent changes; subscribers are told.
Changes ==
  /\ herdr.up /\ herdr.changes < MaxHerdrChanges /\ Len(stream) < MaxStream
  /\ herdr' = [herdr EXCEPT !.changes = @ + 1]
  /\ IF connected = "subscribed" THEN \E line \in Line("event") : stream' = stream \o line
     ELSE UNCHANGED stream
  /\ UNCHANGED <<connected, monitor, signals, seen>>

\* The connection breaks, perhaps because Herdr stops.
Breaks ==
  /\ herdr.breaks < MaxBreaks
  /\ \E up \in BOOLEAN : herdr' = [herdr EXCEPT !.up = up, !.breaks = @ + 1]
  /\ connected' = "none"
  /\ UNCHANGED <<stream, monitor, signals, seen>>

HerdrStarts ==
  /\ ~herdr.up /\ herdr' = [herdr EXCEPT !.up = TRUE]
  /\ UNCHANGED <<connected, stream, monitor, signals, seen>>

-----------------------------------------------------------------------------
(* The loop *)

\* All signals are taken, and then one snapshot is read.  The timed refresh is
\* left out but for what a failed one owes: what is shown must not need it.
TakesSignals ==
  /\ seen.at = "idle" /\ signals
  /\ signals' = FALSE /\ seen' = [seen EXCEPT !.at = "refreshing"]
  /\ UNCHANGED <<herdr, connected, stream, monitor>>

RefreshIsDue ==
  /\ seen.at = "idle" /\ seen.owes /\ seen' = [seen EXCEPT !.at = "refreshing"]
  /\ UNCHANGED <<herdr, connected, stream, monitor, signals>>

\* A snapshot that cannot be read leaves what was shown, with a notice, until
\* the next refresh that is due.
Refreshes ==
  /\ seen.at = "refreshing"
  /\ \/ /\ herdr.up
        /\ seen' = [change |-> herdr.changes, at |-> "shown", owes |-> FALSE]
     \/ seen' = [seen EXCEPT !.at = "idle", !.owes = TRUE]
  /\ UNCHANGED <<herdr, connected, stream, monitor, signals>>

\* With other panes to watch, the subscription and its signals are dropped for
\* a new one.
Shows ==
  /\ seen.at = "shown" /\ seen' = [seen EXCEPT !.at = "idle"]
  /\ \/ UNCHANGED <<connected, stream, monitor, signals>>
     \/ /\ connected' = "none" /\ stream' = <<>> /\ signals' = FALSE
        /\ monitor' = [at |-> "connecting", partial |-> FALSE, before |-> FALSE]
  /\ UNCHANGED herdr

MonitorStep == Connects \/ Pauses \/ ReadsPiece \/ ReadTimesOut \/ StreamEnds
LoopRefreshes == TakesSignals \/ RefreshIsDue \/ Refreshes \/ Shows

EventNext ==
  MonitorStep \/ LoopRefreshes \/ Acknowledges \/ Changes \/ Breaks \/ HerdrStarts

EventSpec == EventInit /\ [][EventNext]_eventVars

-----------------------------------------------------------------------------
(* Properties *)

\* What Mission Control shows is behind Herdr only while something is under way
\* that will tell it, or a failed refresh is owed: no change falls between a
\* subscription that ended and the next, between a snapshot and the first
\* subscription, or into the half of a record that a timeout lost
\* (run_subscription, read_bounded_line).
NothingIsMissed ==
  monitor.at = "reading" /\ connected = "subscribed" /\ stream = <<>>
  /\ ~signals /\ seen.at = "idle" /\ ~seen.owes
    => seen.change = herdr.changes
=============================================================================
