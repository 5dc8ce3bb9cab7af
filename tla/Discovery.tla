------------------------------ MODULE Discovery ------------------------------
(***************************************************************************)
(* One search for repositories (src/discovery.rs): workers share a queue   *)
(* of locations and a budget of directory entries, and send what they find *)
(* through one bounded channel per location; a supervisor publishes the    *)
(* channels in the order of the request, so that what the picker lists     *)
(* does not depend on which host answers first.  The deadline may pass,    *)
(* and the picker may cancel or drop the run, between any two steps.       *)
(***************************************************************************)
EXTENDS Naturals, Sequences, FiniteSets, FiniteSetsExt

CONSTANTS
  LocationCount,  \* locations of the request, one root each
  Remote,         \* those scanned over ssh
  Workers,        \* worker threads
  MaxEntries,     \* DiscoveryLimits.max_entries
  MaxResults      \* DiscoveryLimits.max_results

Locations == 1 .. LocationCount

ASSUME DiscoveryAssumption ==
  /\ LocationCount \in Nat \ {0} /\ Remote \subseteq Locations
  /\ MaxEntries \in Nat \ {0} /\ MaxResults \in Nat \ {0}

VARIABLES
  next,        \* JobQueue: the first location nobody took
  remaining,   \* EntryReservations
  worker,      \* per worker: what it does
  channel,     \* per location: the message nobody received yet, or None
  closed,      \* locations whose sender is gone
  supervisor,  \* publish_outcomes and what follows it
  out,         \* everything sent to the picker
  cancelled,   \* the flag all threads look at
  completion,  \* DiscoveryRun.completion, "unset" for 0
  picker,      \* how far the picker is with cancelling
  late         \* the deadline has passed

searchVars ==
  <<next, remaining, worker, channel, closed, supervisor, out, cancelled, completion,
    picker, late>>

None == [kind |-> "none", location |-> 0, completion |-> "unset"]
Repository(l) == [None EXCEPT !.kind = "repository", !.location = l]
RootError(l) == [None EXCEPT !.kind = "rooterror", !.location = l]
HostFinished(l, c) == [kind |-> "hostfinished", location |-> l, completion |-> c]
Finished == [None EXCEPT !.kind = "finished"]

\* completion_priority; only locations time out or fail, only runs are cancelled.
Priority ==
  [c \in {"Complete", "Unavailable", "Malformed", "Error", "OutputLimit",
          "EntriesLimit", "ResultsLimit", "TimedOut"} |->
     CASE c = "Complete" -> 0 [] c = "Unavailable" -> 1 [] c = "Malformed" -> 2
       [] c = "Error" -> 3 [] c = "OutputLimit" -> 4 [] c = "EntriesLimit" -> 5
       [] c = "ResultsLimit" -> 6 [] OTHER -> 7]

MoreSignificant(a, b) == IF Priority[b] > Priority[a] THEN b ELSE a

\* `todo` are messages found and not sent; with `ends` the location is over
\* once they are.
Idle ==
  [at |-> "idle", location |-> 0, allowance |-> 0, used |-> 0, found |-> 0,
   completion |-> "Complete", todo |-> <<>>, ends |-> FALSE]

SearchInit ==
  /\ next = 1 /\ remaining = MaxEntries
  /\ worker = [w \in Workers |-> Idle]
  /\ channel = [l \in Locations |-> None] /\ closed = {}
  /\ supervisor = [at |-> "publishing", location |-> 1, exceeded |-> FALSE,
                   published |-> 0, overall |-> "Complete"]
  /\ out = <<>> /\ cancelled = FALSE /\ completion = "unset"
  /\ picker = "waiting" /\ late = FALSE

-----------------------------------------------------------------------------
(* Workers *)

Becomes(w, new) ==
  /\ worker' = [worker EXCEPT ![w] = new]
  /\ UNCHANGED <<supervisor, out, cancelled, completion, picker, late>>

\* The last worker to leave drops the queue, and the senders still in it.
Leaves(w) ==
  /\ Becomes(w, [Idle EXCEPT !.at = "gone"])
  /\ closed' = IF \A v \in Workers \ {w} : worker[v].at = "gone"
               THEN closed \cup next .. LocationCount ELSE closed
  /\ UNCHANGED <<next, remaining, channel>>

\* An even share of what is left, rounded up.
Reserve(jobs) == (remaining + jobs - 1) \div jobs

\* Mutant: the last location is scanned first.
TakeLastJob(w) ==
  /\ worker[w].at = "idle"
  /\ LET free == Locations \ (closed \cup {worker[v].location : v \in Workers})
     IN  IF cancelled \/ free = {} THEN Leaves(w)
         ELSE LET share == Reserve(Cardinality(free))
              IN  /\ remaining' = remaining - share
                  /\ Becomes(w, [Idle EXCEPT !.at = "scanning", !.location = Max(free),
                                   !.allowance = share])
                  /\ UNCHANGED <<next, channel, closed>>

TakeJob(w) ==
  /\ worker[w].at = "idle"
  /\ IF cancelled \/ next > LocationCount THEN Leaves(w)
     ELSE LET share == Reserve(LocationCount - next + 1)
          IN  /\ next' = next + 1 /\ remaining' = remaining - share
              /\ Becomes(w, [Idle EXCEPT !.at = "scanning", !.location = next,
                               !.allowance = share])
              /\ UNCHANGED <<channel, closed>>

Scans(w, new) ==
  Becomes(w, new) /\ UNCHANGED <<next, remaining, channel, closed>>

Ended(w, c) ==
  [worker[w] EXCEPT !.todo = <<HostFinished(worker[w].location, c)>>, !.ends = TRUE]

Scanning(w) == worker[w].at = "scanning" /\ worker[w].todo = <<>>

\* A location without an allowance is not scanned at all.
NoAllowance(w) ==
  /\ Scanning(w) /\ worker[w].allowance = 0
  /\ Scans(w, Ended(w, "EntriesLimit"))

\* LocalScan: an entry at a time.  It stops when cancelled (and then tells
\* nothing), at the results limit, after the deadline or at the end of its
\* allowance; or there is nothing left to visit.
LocalScanning(w) == Scanning(w) /\ worker[w].allowance > 0 /\ worker[w].location \notin Remote
StopsLocal(w) ==
  /\ LocalScanning(w)
  /\ \/ cancelled /\ Scans(w, [worker[w] EXCEPT !.ends = TRUE])
     \/ ~cancelled /\ late /\ worker[w].completion # "ResultsLimit" /\ Scans(w, Ended(w, "TimedOut"))
     \/ ~cancelled /\ ~late /\ worker[w].used = worker[w].allowance
        /\ worker[w].completion # "ResultsLimit" /\ Scans(w, Ended(w, "EntriesLimit"))
     \/ ~cancelled /\ Scans(w, Ended(w, worker[w].completion))

VisitsLocal(w) ==
  /\ LocalScanning(w) /\ ~cancelled /\ ~late
  /\ worker[w].used < worker[w].allowance /\ worker[w].completion # "ResultsLimit"
  /\ LET seen == [worker[w] EXCEPT !.used = @ + 1]
     IN  \/ Scans(w, seen)
         \/ Scans(w, [seen EXCEPT !.completion = "Error"])
         \/ worker[w].used = 0 /\ Scans(w, [seen EXCEPT !.completion = "Error",
              !.todo = <<RootError(worker[w].location), HostFinished(worker[w].location, "Error")>>,
              !.ends = TRUE])
         \/ Scans(w, IF worker[w].found >= MaxResults
                     THEN [seen EXCEPT !.completion = "ResultsLimit"]
                     ELSE [seen EXCEPT !.found = @ + 1,
                                       !.todo = <<Repository(worker[w].location)>>])

\* REMOTE_SCAN_SCRIPT prints the repositories it finds, a root it cannot read,
\* and the limit that ends it.
ScriptOutputs(allowance) ==
  {output \in [found : 0 .. Min({MaxResults, allowance}), error : BOOLEAN,
               limit : {"none", "results", "entries"}] :
     output.limit = "results" => output.found = MaxResults}

\* parse_remote, of an output that is whole; any other is Malformed.
Parsed(output) ==
  CASE output.limit = "results" -> "ResultsLimit"
    [] output.limit = "entries" -> "EntriesLimit"
    [] OTHER -> IF output.error THEN "Error" ELSE "Complete"

\* scan_remote: one bounded command, whose output is parsed when it ends.  It
\* was stopped by the flag (and tells nothing), timed out, failed, or found
\* repositories up to the limit.
ScansRemote(w) ==
  /\ Scanning(w) /\ worker[w].allowance > 0 /\ worker[w].location \in Remote
  /\ IF cancelled THEN Scans(w, [worker[w] EXCEPT !.ends = TRUE])
     ELSE \/ late /\ Scans(w, Ended(w, "TimedOut"))
          \/ /\ ~late
             /\ \E c \in {"Unavailable", "OutputLimit", "Malformed", "Error"} : Scans(w, Ended(w, c))
          \/ /\ ~late
             /\ \E output \in ScriptOutputs(worker[w].allowance) :
                  Scans(w, [worker[w] EXCEPT !.ends = TRUE,
                       !.todo = [i \in 1 .. output.found |-> Repository(worker[w].location)]
                                  \o <<HostFinished(worker[w].location, Parsed(output))>>])

\* send_scan gives up when cancelled, or when nobody receives any more; it
\* waits while the channel is full.  The last message closes the channel.
Disconnected == supervisor.at # "publishing"

Sends(w) ==
  /\ worker[w].at = "scanning" /\ worker[w].todo # <<>>
  /\ LET l == worker[w].location
         givesUp == cancelled \/ Disconnected
         rest == IF givesUp THEN <<>> ELSE Tail(worker[w].todo)
     IN  /\ givesUp \/ channel[l] = None
         /\ channel' = IF givesUp THEN channel ELSE [channel EXCEPT ![l] = Head(worker[w].todo)]
         /\ Becomes(w, [worker[w] EXCEPT !.todo = rest])
         /\ UNCHANGED <<next, remaining, closed>>

EndsJob(w) ==
  /\ worker[w].at = "scanning" /\ worker[w].todo = <<>> /\ worker[w].ends
  /\ Becomes(w, Idle) /\ closed' = closed \cup {worker[w].location}
  /\ UNCHANGED <<next, remaining, channel>>

WorkerStep(w) ==
  \/ TakeJob(w) \/ Sends(w) \/ EndsJob(w)
  \/ ~worker[w].ends /\ (NoAllowance(w) \/ StopsLocal(w) \/ VisitsLocal(w) \/ ScansRemote(w))

-----------------------------------------------------------------------------
(* The supervisor *)

Returns(outcome) ==
  supervisor' = [supervisor EXCEPT !.at = "returned", !.overall = outcome]

\* The picker gets a message, unless it dropped the run.
Publishes(message, new) ==
  IF picker = "dropped" THEN Returns(supervisor.overall) /\ UNCHANGED out
  ELSE out' = Append(out, message) /\ supervisor' = new

PublishesResult(message) ==
  IF supervisor.published < MaxResults
  THEN Publishes(message, [supervisor EXCEPT !.published = @ + 1])
  ELSE supervisor' = [supervisor EXCEPT !.exceeded = TRUE] /\ UNCHANGED out

\* Locations are published one after another.
Turn(at) == {at}

Receives ==
  /\ supervisor.at = "publishing"
  /\ \E l \in Turn(supervisor.location) :
     LET message == channel[l]
         c == IF supervisor.exceeded THEN "ResultsLimit" ELSE message.completion
     IN  /\ message # None
         /\ channel' = [channel EXCEPT ![l] = None]
         /\ CASE cancelled -> Returns("Cancelled") /\ UNCHANGED out
              [] ~cancelled /\ message.kind = "repository" -> PublishesResult(message)
              [] ~cancelled /\ message.kind = "hostfinished" ->
                   IF picker = "dropped"
                   THEN Returns(MoreSignificant(supervisor.overall, c)) /\ UNCHANGED out
                   ELSE /\ out' = Append(out, HostFinished(l, c))
                        /\ supervisor' = [supervisor EXCEPT !.overall = MoreSignificant(@, c)]
              [] OTHER -> Publishes(message, supervisor)
  /\ UNCHANGED <<next, remaining, worker, closed, cancelled, completion, picker, late>>

\* A channel is over when it is empty and its sender is gone.
NextLocation ==
  /\ supervisor.at = "publishing"
  /\ supervisor.location \in closed /\ channel[supervisor.location] = None
  /\ IF supervisor.exceeded THEN Returns("ResultsLimit")
     ELSE IF supervisor.location = LocationCount THEN Returns(supervisor.overall)
     ELSE supervisor' = [supervisor EXCEPT !.location = @ + 1]
  /\ UNCHANGED <<next, remaining, worker, channel, closed, out, cancelled, completion,
                 picker, late>>

\* The outcome is recorded if none is, the workers are stopped and joined, and
\* the last message is sent.
RecordsOutcome ==
  /\ supervisor.at = "returned"
  /\ supervisor' = [supervisor EXCEPT !.at = "recorded"]
  /\ completion' = IF completion = "unset" THEN supervisor.overall ELSE completion
  /\ UNCHANGED <<next, remaining, worker, channel, closed, out, cancelled, picker, late>>

StopsWorkers ==
  /\ supervisor.at = "recorded"
  /\ supervisor' = [supervisor EXCEPT !.at = "joining"] /\ cancelled' = TRUE
  /\ UNCHANGED <<next, remaining, worker, channel, closed, out, completion, picker, late>>

Joins ==
  /\ supervisor.at = "joining" /\ \A w \in Workers : worker[w].at = "gone"
  /\ supervisor' = [supervisor EXCEPT !.at = "done"]
  /\ out' = IF picker = "dropped" THEN out ELSE Append(out, Finished)
  /\ UNCHANGED <<next, remaining, worker, channel, closed, cancelled, completion, picker, late>>

SupervisorStep == Receives \/ NextLocation \/ RecordsOutcome \/ StopsWorkers \/ Joins

-----------------------------------------------------------------------------
(* The picker and the clock *)

\* Mutant: the threads are told before the outcome is settled.
FlagsFirst ==
  /\ \/ /\ picker = "waiting" /\ picker' = "cancelling"
        /\ cancelled' = TRUE /\ UNCHANGED completion
     \/ /\ picker = "cancelling" /\ picker' = "cancelled"
        /\ completion' = IF completion = "unset" THEN "Cancelled" ELSE completion
        /\ UNCHANGED cancelled
  /\ UNCHANGED <<next, remaining, worker, channel, closed, supervisor, out, late>>

\* cancel settles the outcome, and only then tells the threads.
Cancels ==
  /\ \/ /\ picker = "waiting" /\ picker' = "cancelling"
        /\ completion' = IF completion = "unset" THEN "Cancelled" ELSE completion
        /\ UNCHANGED cancelled
     \/ /\ picker = "cancelling" /\ picker' = "cancelled"
        /\ cancelled' = TRUE /\ UNCHANGED completion
  /\ UNCHANGED <<next, remaining, worker, channel, closed, supervisor, out, late>>

\* A dropped run is cancelled first.
Drops ==
  /\ picker = "cancelled" /\ picker' = "dropped"
  /\ UNCHANGED <<next, remaining, worker, channel, closed, supervisor, out, cancelled,
                 completion, late>>

DeadlinePasses ==
  /\ ~late /\ late' = TRUE
  /\ UNCHANGED <<next, remaining, worker, channel, closed, supervisor, out, cancelled,
                 completion, picker>>

SearchNext ==
  (\E w \in Workers : WorkerStep(w)) \/ SupervisorStep \/ Cancels \/ Drops \/ DeadlinePasses

SearchSpec == SearchInit /\ [][SearchNext]_searchVars

-----------------------------------------------------------------------------
(* Properties *)

\* The outcome is Complete only when every location was published to its end
\* and none reported a limit or a failure: a cancelled run, whose workers leave
\* without a word, is never taken for a complete one (cancel, publish_outcomes).
CompleteIsComplete ==
  completion = "Complete" =>
    \A l \in Locations : \E i \in DOMAIN out : out[i] = HostFinished(l, "Complete")

\* Every run goes on until it is done, whatever was found, timed out, cancelled
\* or dropped and however few workers there are: no worker holds a full channel
\* against a supervisor that waits for another one.  No step repeats, so a run
\* concludes.
SearchGoesOn ==
  supervisor.at # "done" => ENABLED SupervisorStep \/ \E w \in Workers : ENABLED WorkerStep(w)
=============================================================================
