---------------------------- MODULE StatusService ----------------------------
(***************************************************************************)
(* One refresh of the picker (src/status.rs): workers take hosts from a    *)
(* queue, ask each what its tmux holds, classify the answer, ask after the *)
(* health and the resources of its workloads, and report everything on one *)
(* channel.  The picker may cancel, or drop, the run between two steps.    *)
(*                                                                         *)
(* The list is asked of the server that the environment leads to, for all  *)
(* workloads of a host at once; a workload may live on another.  What a    *)
(* host holds and what it answers are chosen when it is asked, and kept    *)
(* with the report as a history: what a report says is compared with them. *)
(***************************************************************************)
EXTENDS Naturals, Sequences, FiniteSets, SequencesExt, Ordered

CONSTANTS
  Hosts,          \* destinations: a name and a target
  SshHosts,       \* those with a target
  Workloads,
  Probed,         \* those with a health command
  Probers,        \* worker threads
  HostLists       \* what a request may list, in order: workloads, each with its
                  \* host, and "none" for a host without

ASSUME StatusAssumption ==
  /\ SshHosts \subseteq Hosts /\ Probed \subseteq Workloads
  /\ IsFiniteSet(Probers) /\ Probers # {}
  /\ "none" \notin Workloads
  /\ \A list \in HostLists :
       list \in Seq([host : Hosts, workload : Workloads \cup {"none"}])

VARIABLES
  asked,      \* the request: its list, and whether it wants resources
  jobs,       \* the hosts of the normalized request nobody took
  prober,     \* per worker: what it does
  told,       \* the channel: a bag, as workers mix in any order
  finished,   \* Finished was sent
  given       \* what the picker did with the run: nothing, cancel, drop

statusVars == <<asked, jobs, prober, told, finished, given>>

\* The session of a workload: with its one pane, with another pane beside a
\* dead one, on a server at another socket, or nowhere.
SessionShapes == {"running", "ended", "endedsplit", "elsewhere", "absent"}

\* BoundedOutput of the list command: an exit status with what was printed, or
\* no exit status at all.  A clipped list lost its end in a read that failed,
\* and is not marked as cut (OnlyTheLastReadIsLost of BoundedProcess).  A host
\* may exit with 1 whatever it holds: no server, or an option or a socket that
\* tmux refuses.
Answers == {"listed", "clipped", "unreadable", "exit1", "exit255", "otherexit",
            "timedout", "spawnerror", "error"}

\* How a list shows a session.
MayPrint(answer, session) ==
  IF session = "elsewhere" THEN {"absent"}
  ELSE {session} \cup IF answer = "clipped" THEN {"absent"} ELSE {}

Entry(h, ws) == [host |-> h, workloads |-> ws]

\* normalize_status_hosts: a host once, where it first appears, with each of
\* its workloads once.
Normalized(list) ==
  LET Before(i) == 1..(i - 1)
      hosts == AtPositions(list,
        {i \in DOMAIN list : \A j \in Before(i) : list[j].host # list[i].host})
      Of(h) == AtPositions(list,
        {i \in DOMAIN list : /\ list[i].host = h /\ list[i].workload # "none"
                             /\ \A j \in Before(i) : list[j] # list[i]})
      WorkloadsOf(h) == [k \in DOMAIN Of(h) |-> Of(h)[k].workload]
  IN  [n \in DOMAIN hosts |-> Entry(hosts[n].host, WorkloadsOf(hosts[n].host))]

\* A worker with no job.  `todo` are the kinds of message it has left for its
\* host; `held` is the history of what was there, if the host was reached.
Waiting == [at |-> "waiting", entry |-> Entry("none", <<>>), todo |-> <<>>, answer |-> "none",
            seen |-> <<>>, held |-> <<>>]

StatusInit ==
  /\ asked \in [list : HostLists, resources : BOOLEAN]
  /\ jobs = Normalized(asked.list)
  /\ prober = [p \in Probers |-> Waiting]
  /\ told = EmptyBag /\ finished = FALSE /\ given = "nothing"

-----------------------------------------------------------------------------
(* Classification *)

\* Mutant: any failure of the command means that no server runs.
ReachabilityByExit(h, answer) ==
  CASE answer \in {"listed", "clipped", "unreadable", "exit1", "exit255", "otherexit"} -> "Reachable"
    [] answer = "timedout" -> "TimedOut"
    [] OTHER -> "Error"

\* Only ssh's own status tells of the connection.
Reachability(h, answer) ==
  CASE answer \in {"listed", "clipped", "unreadable", "exit1"} -> "Reachable"
    [] answer = "exit255" /\ h \in SshHosts -> "Unreachable"
    [] answer = "timedout" -> "TimedOut"
    [] OTHER -> "Error"

\* The status of a workload with this answer and this line: a dead pane is
\* an end only while the session has its one pane.
WorkloadStatus(h, answer, session) ==
  IF answer \in {"listed", "clipped"}
  THEN CASE session = "absent" -> "Missing"
         [] session = "ended" -> "Ended"
         [] OTHER -> "Running"
  ELSE CASE Reachability(h, answer) = "Reachable" ->
              IF answer = "unreadable" THEN "Unknown" ELSE "Missing"
         [] Reachability(h, answer) = "Unreachable" -> "Unknown"
         [] OTHER -> Reachability(h, answer)

\* classify_health, for a probe that ran to its end with this outcome.
HealthOf(h, outcome) ==
  CASE outcome = "success" -> "Serving"
    [] outcome = "failure" -> "NotServing"
    [] outcome = "exit255" /\ h \notin SshHosts -> "NotServing"
    [] OTHER -> "Unknown"

\* A probe says success or failure of itself; the shell, ssh, a signal and the
\* phase's deadline end it otherwise.
ProbeOutcomes(h, serves) ==
  {IF serves THEN "success" ELSE "failure", "unrunnable", "signal", "noanswer"}
    \cup IF h \in SshHosts \/ ~serves THEN {"exit255"} ELSE {}

-----------------------------------------------------------------------------
(* Workers *)

Cancelled == given # "nothing"

NowDoes(p, new) == prober' = [prober EXCEPT ![p] = new]

\* One message of a kind for each of these workloads.
OneEach(kind, ws) == [i \in DOMAIN ws |-> [kind |-> kind, workload |-> ws[i]]]

TakesHost(p) ==
  /\ prober[p].at = "waiting"
  /\ IF Cancelled \/ jobs = <<>>
     THEN NowDoes(p, [prober[p] EXCEPT !.at = "over"]) /\ UNCHANGED jobs
     ELSE /\ NowDoes(p, [Waiting EXCEPT !.at = "listing", !.entry = Head(jobs)])
          /\ jobs' = Tail(jobs)
  /\ UNCHANGED <<asked, told, finished, given>>

\* probe_host: a cancelled listing tells nothing.  Otherwise what there is to
\* say is settled here: a health probe follows for each configured workload,
\* and usage if it is wanted, and some workload runs or the host is out of reach.
Lists(p) ==
  /\ prober[p].at = "listing"
  /\ \/ Cancelled /\ NowDoes(p, Waiting)
     \/ /\ ~Cancelled
        /\ \E answer \in Answers, held \in [ToSet(prober[p].entry.workloads) -> SessionShapes] :
           \E shown \in [DOMAIN held -> SessionShapes] :
             LET entry == prober[p].entry
                 h == entry.host
                 ws == entry.workloads
                 probed == AtPositions(ws, {i \in DOMAIN ws : ws[i] \in Probed})
                 seen == [w \in DOMAIN held |-> WorkloadStatus(h, answer, shown[w])]
                 usage == /\ asked.resources
                          /\ Reachability(h, answer) = "Reachable" =>
                               \E w \in DOMAIN seen : seen[w] = "Running"
             IN  /\ \A w \in DOMAIN held : shown[w] \in MayPrint(answer, held[w])
                 /\ NowDoes(p, [prober[p] EXCEPT
                      !.at = "telling", !.answer = answer, !.seen = seen,
                      !.held = IF Reachability(h, answer) = "Reachable" THEN held
                               ELSE [w \in DOMAIN held |-> "unknown"],
                      !.todo = <<[kind |-> "Host", workload |-> "none"],
                                 [kind |-> "Catalog", workload |-> "none"]>>
                                 \o OneEach("Workload", ws) \o OneEach("Health", probed)
                                 \o IF usage THEN OneEach("Resources", ws) ELSE <<>>])
  /\ UNCHANGED <<asked, jobs, told, finished, given>>

Report(p, status, was) ==
  [kind |-> Head(prober[p].todo).kind, host |-> prober[p].entry.host,
   workload |-> Head(prober[p].todo).workload, status |-> status, was |-> was,
   by |-> prober[p].answer]

Reach(here) == Reachability(here.entry.host, here.answer)

\* What a message says, and what was true of its subject.  A host that cannot
\* be reached is not asked after health or usage.  Usage is known only of a
\* workload whose processes were seen, and unknown otherwise: never nothing.
HealthContents(here) ==
  IF Reach(here) # "Reachable" THEN {<<"Unknown", "any">>}
  ELSE UNION {{<<HealthOf(here.entry.host, o), IF serves THEN "serves" ELSE "fails">>
                 : o \in ProbeOutcomes(here.entry.host, serves)} : serves \in BOOLEAN}

UsageContents(here, w) ==
  {<<"Unknown", "any">>}
    \cup IF Reach(here) = "Reachable" /\ here.held[w] \notin {"elsewhere", "absent"}
         THEN {<<"Known", "any">>} ELSE {}

Contents(here) ==
  LET w == Head(here.todo).workload
  IN  CASE Head(here.todo).kind \in {"Host", "Catalog"} -> {<<Reach(here), "any">>}
        [] Head(here.todo).kind = "Workload" -> {<<here.seen[w], here.held[w]>>}
        [] Head(here.todo).kind = "Health" -> HealthContents(here)
        [] OTHER -> UsageContents(here, w)

\* A worker looks at the flag before each message: a run cancelled after the
\* look is as one cancelled after the message.  A probe that is cancelled, or
\* a send to a picker that is gone, ends the host.
Tells(p) ==
  /\ prober[p].at = "telling"
  /\ IF Cancelled THEN NowDoes(p, Waiting) /\ UNCHANGED told
     ELSE \E content \in Contents(prober[p]) :
            /\ told' = told (+) SetToBag({Report(p, content[1], content[2])})
            /\ NowDoes(p, IF Len(prober[p].todo) = 1 THEN Waiting
                          ELSE [prober[p] EXCEPT !.todo = Tail(@)])
  /\ UNCHANGED <<asked, jobs, finished, given>>

\* Another thread joins the workers and sends Finished.
Finishes ==
  /\ ~finished /\ \A p \in Probers : prober[p].at = "over"
  /\ finished' = TRUE
  /\ UNCHANGED <<asked, jobs, prober, told, given>>

CancelsStatus ==
  /\ given = "nothing" /\ ~finished /\ given' = "cancelled"
  /\ UNCHANGED <<asked, jobs, prober, told, finished>>

StatusNext ==
  (\E p \in Probers : TakesHost(p) \/ Lists(p) \/ Tells(p))
    \/ Finishes \/ CancelsStatus

StatusSpec == StatusInit /\ [][StatusNext]_statusVars

-----------------------------------------------------------------------------
(* Properties *)

\* A workload is told to run or to have ended only when it does or has, and not
\* to be serving only by its own probe.  It is told to be missing only when the
\* host answered: with a list of its server that has no line of it, or with exit
\* status 1; never because the way to the host failed.  This is no proof of
\* absence: the server may not be the workload's own, a list may have lost its
\* end, and 1 is also the status of a tmux that could not ask.  The picker asks
\* again before it acts (classify_result, classify_health).
ReportsRestOnAnswers ==
  \A r \in DOMAIN told :
    /\ r.kind = "Workload" =>
         /\ r.status = "Missing" =>
              \/ r.by \in {"exit1", "clipped"}
              \/ r.by = "listed" /\ r.was \in {"elsewhere", "absent"}
         /\ r.status = "Ended" => r.was = "ended"
         /\ r.status = "Running" => r.was \in {"running", "endedsplit"}
    /\ r.kind = "Health" =>
         /\ r.status = "Serving" => r.was = "serves"
         /\ r.status = "NotServing" => r.was = "fails"
=============================================================================
