------------------------- MODULE MCTetherLifecycle -------------------------
(***************************************************************************)
(* Instances of TetherLifecycle for TLC.  Processes are interchangeable,   *)
(* and so are sockets.                                                     *)
(*                                                                         *)
(* Everything that may happen at once is out of TLC's reach, and some of   *)
(* it breaks the properties in ways the README tells.  So a behaviour is   *)
(* within one of five scopes, chosen at the start: each combines what one  *)
(* question needs.                                                         *)
(***************************************************************************)
EXTENDS TetherLifecycle, TLC

Symmetry == Permutations(Clients) \cup Permutations(Sockets)

VARIABLE scope

Scope(alone, sockets, ops, faults, kinds, revisions) ==
  [alone |-> alone, sockets |-> sockets, ops |-> ops, faults |-> faults, kinds |-> kinds,
   revisions |-> revisions]

Deaths(s) ==
  Scope(TRUE, {s}, AllOps, {"crash", "outside", "serverexit"}, {"absent", "pinned", "legacy"}, 3)
Servers ==
  Scope(TRUE, Sockets, AllOps, {"outside", "serverexit", "split"}, {"absent", "pinned"}, 3)
OldRecords(s) ==
  Scope(TRUE, {s}, AllOps, {"crash", "late", "sshdrop", "split"}, {"absent", "unpinned"}, 2)
Pair(s) ==
  Scope(FALSE, {s}, AllOps \ {"create", "open"}, {"late"}, {"pinned"}, 2)

\* For what somebody who tries again, or looks again, can rely on.
Settling(s) ==
  Scope(FALSE, {s}, AllOps \ {"create", "restart"}, {"crash", "late", "outside"}, {"pinned"}, 3)

\* Scopes of one socket all take the same one, so sockets are not interchanged.
ScopeSymmetry == Permutations(Clients)

OneSocket == CHOOSE s \in Sockets : TRUE

InitWithin(scopes) ==
  /\ scope \in scopes
  /\ Init
  /\ \E kind \in scope.kinds, s \in scope.sockets :
       record = InitialRecord(kind, s) /\ (HasSession(kind) => Exists(s))

MayBegin(c) == scope.alone => \A d \in Clients \ {c} : client[d].pc = "idle"

ScopedNext ==
  /\ UNCHANGED scope
  /\ \/ \E c \in Clients :
          \/ /\ MayBegin(c) /\ record.rev < scope.revisions
             /\ \E env \in scope.sockets, op \in scope.ops :
                  IF op = "create" THEN CreateReserves(c, env) ELSE Begin(c, op, env)
          \/ Step(c)
          \/ "crash" \in scope.faults /\ Abandon(c)
          \/ "late" \in scope.faults /\ TimesOut(c)
          \/ "sshdrop" \in scope.faults /\ SshDrops(c)
     \/ \E k \in late : LateKill(k) \/ LateCreate(k)
     \/ \E s \in scope.sockets :
          \/ WorkExits(s) \/ LaunchedPaneCloses(s)
          \/ "outside" \in scope.faults /\ SessionEndsOutside(s)
          \/ "split" \in scope.faults /\ ActivePaneChanges(s)
          \/ "serverexit" \in scope.faults /\ ServerExits(s)

ScopedInit ==
  InitWithin({Deaths(OneSocket), Servers, OldRecords(OneSocket), Pair(OneSocket)})

ScopedSpec == ScopedInit /\ [][ScopedNext]_<<vars, scope>>

SettlingInit == InitWithin({Settling(OneSocket)})

SettlingSpec == SettlingInit /\ [][ScopedNext]_<<vars, scope>> /\ Fairness

ThisVersion == "unpinned" \notin scope.kinds

\* EndedIsTrue, for one process and records that name the launched pane: a
\* record says Ended or Removed only of work that is over (mark_ended,
\* finish_close, remove_owned), whether the process dies or asks another server.
EndedIsTrueOfPinned == ThisVersion /\ scope.alone => EndedIsTrue

\* ReapsSpareRunningWork, in the same scopes: no kill of a restart or a remove,
\* sent or late, can end work that runs (restart_owned, remove_owned).
ReapsSparePinnedWork == ThisVersion => ReapsSpareRunningWork

\* RunningWorkIsActionable, for one process at a time: no death of it leaves
\* running work out of reach (lookup_owned, stop_owned, restart_owned).
LoneWorkIsActionable == ThisVersion /\ scope.alone => RunningWorkIsActionable
=============================================================================
