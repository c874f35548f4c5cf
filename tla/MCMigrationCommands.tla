------------------------ MODULE MCMigrationCommands ------------------------
(* Instances of MigrationCommands for TLC. *)
EXTENDS MigrationCommands, TLC

CONSTANTS r1, r2, r3, c1, c2, q1

Routings == {0, 50}

ConfigureTo(c) == [op |-> "configure", cluster |-> c, dryRun |-> FALSE]
SetPhase(p)    == [op |-> "set-phase", target |-> p, acknowledged |-> TRUE, dryRun |-> FALSE]
MapQ(preview)  == [op |-> "queue configure", queue |-> q1, dryRun |-> preview]
Percent(p, preview) == [op |-> "set-percent", queue |-> q1, to |-> p, dryRun |-> preview]
Status         == [op |-> "status", dryRun |-> FALSE]
Finalize(preview) == [op |-> "finalize", dryRun |-> preview]

(* One command line of every kind, and those the local checks refuse. *)
EveryCommand ==
    { ConfigureTo(c1), ConfigureTo(c2), [ConfigureTo(c1) EXCEPT !.dryRun = TRUE],
      MapQ(TRUE), MapQ(FALSE),
      Percent(0, FALSE), Percent(50, TRUE), Percent(100, FALSE), Percent(101, FALSE),
      Status, Finalize(TRUE), Finalize(FALSE),
      [SetPhase("validate_queues") EXCEPT !.dryRun = TRUE],
      [SetPhase("cutover_concurrency_groups") EXCEPT !.acknowledged = FALSE] }
    \cup { SetPhase(p) : p \in Targets }

(* Routing changes racing the preparation/validation loop and the commitment. *)
RoutingRaces ==
    { MapQ(FALSE), Percent(50, FALSE), Percent(100, FALSE), Percent(100, TRUE),
      SetPhase("validate_queues"), SetPhase("prepare_queues"),
      SetPhase("cutover_concurrency_groups") }

(* Three runs race for routing, or two run any commands while the third is given one *)
(* that it refuses before its first request.                                          *)
Bystander == Percent(101, FALSE)
EveryLine == EveryCommand \cup RoutingRaces
MixedInit ==
    /\ Init
    /\ \/ \A r \in Runs : cmd[r] \in RoutingRaces
       \/ \E r \in Runs : cmd[r] = Bystander
MixedSpec == MixedInit /\ [][Next]_vars

Operators == Permutations(Runs)
=============================================================================
