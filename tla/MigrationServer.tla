-------------------------- MODULE MigrationServer --------------------------
(***************************************************************************)
(* The part of the Buildkite API that the migrator drives: one migration   *)
(* per organization with its phase and fixed destination, and one routed   *)
(* percentage per source queue.  The service is not in this repository; it *)
(* is modelled from the requests the client issues, the replies it handles *)
(* and what README.md tells operators to rely on.                          *)
(***************************************************************************)
EXTENDS Integers

CONSTANTS
    Clusters,       \* clusters a migration may have as its destination
    NoCluster,      \* the destination of an organization with no migration
    Queues,         \* source (unclustered) queue keys
    Unmapped,       \* routing of a source queue with no queue migration
    StartPercents   \* routed percentages queues may have initially

Percents == 0 .. 100

ASSUME ServerAssumption ==
    /\ NoCluster \notin Clusters
    /\ Unmapped \notin Percents
    /\ StartPercents \subseteq Percents

VARIABLES
    phase,          \* the phase of the organization's migration
    destination,    \* its fixed destination cluster
    routed          \* the routed percentage of every source queue

server == <<phase, destination, routed>>

(* Where each `migration set-phase <target>` request is legal. *)
LegalFrom == [ prepare_queues             |-> "validate_queues",
               validate_queues            |-> "prepare_queues",
               cutover_concurrency_groups |-> "validate_queues",
               migrate_pipelines          |-> "cutover_concurrency_groups",
               complete                   |-> "migrate_pipelines" ]

Targets   == { "prepare_queues", "validate_queues", "cutover_concurrency_groups",
               "migrate_pipelines", "complete" }
Phases    == Targets \cup {"unconfigured"}

(***************************************************************************)
(* The command lines of the CLI that concern the migration and its queues. *)
(* kong parses --to as any integer; the flags are free.                    *)
(***************************************************************************)
ConfigureCommand  == [op: {"configure"}, cluster: Clusters, dryRun: BOOLEAN]
StatusCommand     == [op: {"status"}, dryRun: BOOLEAN]
SetPhaseCommand   == [op: {"set-phase"}, target: Targets, acknowledged: BOOLEAN,
                      dryRun: BOOLEAN]
MapQueueCommand   == [op: {"queue configure"}, queue: Queues, dryRun: BOOLEAN]
SetPercentCommand == [op: {"set-percent"}, queue: Queues, to: Int, dryRun: BOOLEAN]
FinalizeCommand   == [op: {"finalize"}, dryRun: BOOLEAN]

AllCommands == ConfigureCommand \cup StatusCommand \cup SetPhaseCommand
               \cup MapQueueCommand \cup SetPercentCommand \cup FinalizeCommand

QueueCommands == MapQueueCommand \cup SetPercentCommand

ServerTypeOK ==
    /\ phase \in Phases
    /\ destination \in Clusters \cup {NoCluster}
    /\ routed \in [Queues -> Percents \cup {Unmapped}]

ServerInit ==
    /\ phase \in Phases
    /\ destination \in Clusters \cup {NoCluster}
    /\ phase = "unconfigured" <=> destination = NoCluster
    /\ routed \in [Queues -> StartPercents \cup {Unmapped}]
    /\ phase = "unconfigured" => \A q \in Queues : routed[q] = Unmapped

(***************************************************************************)
(* The service performs the request of command c.  It may refuse any       *)
(* request (permissions, readiness checks it alone knows), so these are    *)
(* the effects of the requests it accepts.  It does not range-check a      *)
(* percentage here: README.md documents that check for the CLI only.       *)
(***************************************************************************)
Configure(c) ==
    /\ c.op = "configure"
    /\ phase = "unconfigured"
    /\ phase' = "prepare_queues"
    /\ destination' = c.cluster
    /\ UNCHANGED routed

Transition(c) ==
    /\ c.op = "set-phase"
    /\ phase = LegalFrom[c.target]
    /\ phase' = c.target
    /\ UNCHANGED <<destination, routed>>

MapQueue(c) ==
    /\ c.op = "queue configure"
    /\ phase = "prepare_queues"
    /\ routed[c.queue] = Unmapped
    /\ routed' = [routed EXCEPT ![c.queue] = 0]
    /\ UNCHANGED <<phase, destination>>

SetPercent(c) ==
    /\ c.op = "set-percent"
    /\ phase = "prepare_queues"
    /\ routed[c.queue] # Unmapped
    /\ routed' = [routed EXCEPT ![c.queue] = c.to]
    /\ UNCHANGED <<phase, destination>>

FinalizeBlockedBuilds(c) ==
    /\ c.op = "finalize"
    /\ phase = "migrate_pipelines"
    /\ UNCHANGED server

Perform(c) == \/ Configure(c)
              \/ Transition(c)
              \/ MapQueue(c)
              \/ SetPercent(c)
              \/ FinalizeBlockedBuilds(c)
============================================================================
