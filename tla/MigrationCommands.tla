------------------------- MODULE MigrationCommands -------------------------
(***************************************************************************)
(* Concurrent invocations of the CLI against one organization migration.   *)
(* Every run is one process (cli.Run) that executes one command line: it   *)
(* reads what it checks with separate GET requests, then sends at most one *)
(* mutation, and reports success, a definite rejection, or an error that   *)
(* leaves open what the server did (a timeout, a signal, a lost or         *)
(* undecodable reply).  A request that was sent may be performed after its *)
(* run is gone.                                                            *)
(***************************************************************************)
EXTENDS MigrationServer

CONSTANTS
    Runs,       \* CLI processes
    Commands,   \* the command lines the runs are given
    Unread      \* a fact a run has not read

ASSUME CommandsAssumption ==
    /\ Commands \subseteq AllCommands
    /\ Unread \notin Phases
    /\ Unread \notin Clusters \cup {NoCluster}
    /\ Unread \notin Percents \cup {Unmapped}

VARIABLES
    cmd,        \* the command line of each run
    pc,         \* where each run is in its command
    seen,       \* the migration phase, destination and queue percentage it read
    wire,       \* its mutation request
    outcome,    \* the server's answer, and the percentage a PATCH replaced (history)
    held        \* percentages its queue had in prepare_queues while it ran (history)

run  == <<cmd, pc, seen, wire, outcome, held>>
vars == <<server, run>>

Reading  == {"read phase", "read percent", "resolve cluster", "require queue",
             "read status"}
Verdicts == {"success", "rejected", "unclear"}
Open     == Reading \cup {"send", "waiting"}
PCs      == {"idle"} \cup Open \cup Verdicts

Facts == [ phase       : Phases \cup {Unread},
           destination : Clusters \cup {NoCluster, Unread},
           percent     : Percents \cup {Unmapped, Unread} ]
NoFacts == [phase |-> Unread, destination |-> Unread, percent |-> Unread]

TypeOK ==
    /\ ServerTypeOK
    /\ cmd \in [Runs -> Commands]
    /\ pc \in [Runs -> PCs]
    /\ seen \in [Runs -> Facts]
    /\ wire \in [Runs -> {"unsent", "sent", "applied", "refused"}]
    /\ outcome \in [Runs -> Facts]
    /\ held \in [Runs -> SUBSET (Percents \cup {Unmapped})]

Init ==
    /\ ServerInit
    /\ cmd \in [Runs -> Commands]
    /\ pc = [r \in Runs |-> "idle"]
    /\ seen = [r \in Runs |-> NoFacts]
    /\ wire = [r \in Runs |-> "unsent"]
    /\ outcome = [r \in Runs |-> NoFacts]
    /\ held = [r \in Runs |-> {}]

(* History: what the queue of every run under way holds, while preparation is open. *)
Observe ==
    held' = [r \in Runs |->
                IF pc'[r] \in Open /\ phase' = "prepare_queues" /\ cmd[r] \in QueueCommands
                THEN held[r] \cup {routed'[cmd[r].queue]}
                ELSE held[r]]

Goto(r, label) == pc' = [pc EXCEPT ![r] = label]

----------------------------------------------------------------------------
(* Slip: the range check of --to is lost. *)
RejectsLocallyUnranged(c) ==
    \/ c.op \in {"configure", "set-phase", "finalize"} /\ c.dryRun
    \/ /\ c.op = "set-phase"
       /\ c.target = "cutover_concurrency_groups"
       /\ ~c.acknowledged

(* Slip: the commitment is sent without its acknowledgement. *)
RejectsLocallyUnacknowledged(c) ==
    \/ c.op \in {"configure", "set-phase", "finalize"} /\ c.dryRun
    \/ c.op = "set-percent" /\ c.to \notin Percents

(* A flag combination every command refuses before it sends a request. *)
RejectsLocally(c) ==
    \/ c.op \in {"configure", "set-phase", "finalize"} /\ c.dryRun
    \/ /\ c.op = "set-phase"
       /\ c.target = "cutover_concurrency_groups"
       /\ ~c.acknowledged
    \/ c.op = "set-percent" /\ c.to \notin Percents

(* Slip: the percentage is read without the phase check before it. *)
FirstStepUnprepared(c) == CASE c.op = "configure" -> "resolve cluster"
                            [] c.op = "status"    -> "read status"
                            [] c.op = "queue configure" -> "read phase"
                            [] c.op = "set-percent" -> "read percent"
                            [] OTHER -> "send"

FirstStep(c) == CASE c.op = "configure" -> "resolve cluster"
                  [] c.op = "status"    -> "read status"
                  [] c.op \in {"queue configure", "set-percent"} -> "read phase"
                  [] OTHER -> "send"

(* cli.Run up to the command's own checks; the organization is known from here on. *)
Launch(r) ==
    /\ pc[r] = "idle"
    /\ Goto(r, IF RejectsLocally(cmd[r]) THEN "rejected" ELSE FirstStep(cmd[r]))
    /\ UNCHANGED <<server, cmd, seen, wire, outcome>>
    /\ Observe

(* Slip: only commitment freezes routing, validation counts as preparation. *)
RequireUncommitted(r) ==
    /\ pc[r] = "read phase"
    /\ Goto(r, IF phase \notin {"prepare_queues", "validate_queues"} THEN "rejected"
               ELSE IF cmd[r].op = "set-percent" THEN "read percent"
               ELSE "resolve cluster")
    /\ seen' = [seen EXCEPT ![r].phase = phase, ![r].destination = destination]
    /\ UNCHANGED <<server, cmd, wire, outcome>>
    /\ Observe

RequireQueuePreparation(r) ==
    /\ pc[r] = "read phase"
    /\ Goto(r, IF phase # "prepare_queues" THEN "rejected"
               ELSE IF cmd[r].op = "set-percent" THEN "read percent"
               ELSE "resolve cluster")
    /\ seen' = [seen EXCEPT ![r].phase = phase, ![r].destination = destination]
    /\ UNCHANGED <<server, cmd, wire, outcome>>
    /\ Observe

GetQueueMigration(r) ==
    /\ pc[r] = "read percent"
    /\ Goto(r, IF routed[cmd[r].queue] = Unmapped THEN "rejected" ELSE "resolve cluster")
    /\ seen' = [seen EXCEPT ![r].percent = routed[cmd[r].queue],
                            ![r].destination = destination]
    /\ UNCHANGED <<server, cmd, wire, outcome>>
    /\ Observe

(* Whether a queue command ends after its reads: a preview, or nothing to change. *)
NothingToSend(r) ==
    \/ cmd[r].op \in {"queue configure", "set-percent"} /\ cmd[r].dryRun
    \/ cmd[r].op = "set-percent" /\ seen[r].percent = cmd[r].to

ResolveCluster(r) ==
    /\ pc[r] = "resolve cluster"
    /\ Goto(r, IF cmd[r].op = "queue configure" THEN "require queue"
               ELSE IF NothingToSend(r) THEN "success"
               ELSE "send")
    /\ UNCHANGED <<server, cmd, seen, wire, outcome>>
    /\ Observe

RequireClusterQueue(r) ==
    /\ pc[r] = "require queue"
    /\ Goto(r, IF NothingToSend(r) THEN "success" ELSE "send")
    /\ UNCHANGED <<server, cmd, seen, wire, outcome>>
    /\ Observe

GetMigration(r) ==
    /\ pc[r] = "read status"
    /\ Goto(r, IF phase = "unconfigured" THEN "rejected" ELSE "success")
    /\ seen' = [seen EXCEPT ![r].phase = phase, ![r].destination = destination]
    /\ UNCHANGED <<server, cmd, wire, outcome>>
    /\ Observe

Send(r) ==
    /\ pc[r] = "send"
    /\ Goto(r, "waiting")
    /\ wire' = [wire EXCEPT ![r] = "sent"]
    /\ UNCHANGED <<server, cmd, seen, outcome>>
    /\ Observe

(***************************************************************************)
(* The reply of an accepted request.  The commands that print a migration  *)
(* print the one in the reply; the others print what they read before.     *)
(***************************************************************************)
PrintsReply(c) == c.op \in {"configure", "set-phase"}

(* Slip: a conflict on configure is taken for "already configured as asked". *)
ReceiveConflictAsDone(r) ==
    /\ pc[r] = "waiting"
    /\ wire[r] \in {"applied", "refused"}
    /\ Goto(r, IF wire[r] = "applied" \/ cmd[r].op = "configure" THEN "success"
               ELSE "rejected")
    /\ seen' = IF cmd[r].op = "configure"
               THEN [seen EXCEPT ![r].destination = cmd[r].cluster]
               ELSE IF wire[r] = "applied" /\ PrintsReply(cmd[r])
               THEN [seen EXCEPT ![r].phase = outcome[r].phase,
                                 ![r].destination = outcome[r].destination]
               ELSE seen
    /\ UNCHANGED <<server, cmd, wire, outcome>>
    /\ Observe

Receive(r) ==
    /\ pc[r] = "waiting"
    /\ wire[r] \in {"applied", "refused"}
    /\ Goto(r, IF wire[r] = "applied" THEN "success" ELSE "rejected")
    /\ seen' = IF wire[r] = "applied" /\ PrintsReply(cmd[r])
               THEN [seen EXCEPT ![r].phase = outcome[r].phase,
                                 ![r].destination = outcome[r].destination]
               ELSE seen
    /\ UNCHANGED <<server, cmd, wire, outcome>>
    /\ Observe

(* Slip: a request that timed out is reported as one that had no effect. *)
GiveUpAsRejected(r) ==
    /\ pc[r] \in Open
    /\ Goto(r, "rejected")
    /\ UNCHANGED <<server, cmd, seen, wire, outcome>>
    /\ Observe

(* Slip: the request is out, so the run assumes it was accepted. *)
GiveUpAsSuccess(r) ==
    /\ pc[r] \in Open
    /\ Goto(r, IF pc[r] = "waiting" THEN "success" ELSE "rejected")
    /\ UNCHANGED <<server, cmd, seen, wire, outcome>>
    /\ Observe

(***************************************************************************)
(* The command context ends (root.Timeout, SIGINT), the connection fails,  *)
(* a reply is a gateway error or cannot be decoded, or the result cannot   *)
(* be printed.  Nothing is known about a request that is already out.      *)
(***************************************************************************)
GiveUp(r) ==
    /\ pc[r] \in Open
    /\ Goto(r, IF pc[r] = "waiting" THEN "unclear" ELSE "rejected")
    /\ UNCHANGED <<server, cmd, seen, wire, outcome>>
    /\ Observe

----------------------------------------------------------------------------
(* The server works on a request whenever it arrives, the run may be gone. *)
Accept(r) ==
    /\ wire[r] = "sent"
    /\ Perform(cmd[r])
    /\ wire' = [wire EXCEPT ![r] = "applied"]
    /\ outcome' = [outcome EXCEPT ![r] =
           [ phase |-> phase', destination |-> destination',
             percent |-> IF cmd[r].op = "set-percent" THEN routed[cmd[r].queue]
                         ELSE Unread ]]
    /\ UNCHANGED <<cmd, pc, seen>>
    /\ Observe

Refuse(r) ==
    /\ wire[r] = "sent"
    /\ wire' = [wire EXCEPT ![r] = "refused"]
    /\ UNCHANGED <<server, cmd, pc, seen, outcome>>
    /\ Observe

Command(r) ==
    \/ RequireQueuePreparation(r)
    \/ GetQueueMigration(r)
    \/ ResolveCluster(r)
    \/ RequireClusterQueue(r)
    \/ GetMigration(r)
    \/ Send(r)
    \/ Receive(r)
    \/ GiveUp(r)

Next == \E r \in Runs : Launch(r) \/ Command(r) \/ Accept(r) \/ Refuse(r)

Spec == Init /\ [][Next]_vars

----------------------------------------------------------------------------
(* Runs that print the destination cluster: all but finalize-blocked-builds. *)
PrintsDestination(c) == c.op # "finalize"

(***************************************************************************)
(* A run that ends with a definite rejection (a local check, a failed      *)
(* read, an API error for its mutation) changed nothing and never will.    *)
(***************************************************************************)
RejectionIsFinal ==
    \A r \in Runs : pc[r] = "rejected" => wire[r] \in {"unsent", "refused"}

(***************************************************************************)
(* `queue set-percent` that reports success, by a change or as a no-op,    *)
(* speaks of a moment during the run when preparation was open and the     *)
(* queue was routed at the requested percentage, although it reads the     *)
(* phase and the percentage with two requests and others write between.    *)
(***************************************************************************)
SetPercentTookHold ==
    \A r \in Runs :
        pc[r] = "success" /\ cmd[r].op = "set-percent" /\ ~cmd[r].dryRun
            => cmd[r].to \in held[r]

(***************************************************************************)
(* The percentage a run read after its phase check, printed as "from" in   *)
(* previews and results, is one the queue really had during the run while  *)
(* preparation was open: phase and percentage form a consistent snapshot.  *)
(***************************************************************************)
SnapshotIsConsistent ==
    \A r \in Runs : seen[r].percent # Unread => seen[r].percent \in held[r]

(***************************************************************************)
(* The destination a successful command prints is the migration's actual   *)
(* one: two operators who configure different destinations are not both    *)
(* told that they succeeded, and queue commands print no outdated cluster. *)
(***************************************************************************)
ReportedDestinationIsActual ==
    \A r \in Runs :
        pc[r] = "success" /\ PrintsDestination(cmd[r]) => seen[r].destination = destination

(***************************************************************************)
(* Whatever changes on the server was asked for by one command line that   *)
(* is no dry run and, for the irreversible commitment, acknowledges it.    *)
(***************************************************************************)
ChangesAreAuthorised ==
    [][server' # server =>
         \E r \in Runs :
            /\ wire[r] = "sent" /\ wire'[r] = "applied"
            /\ ~cmd[r].dryRun
            /\ phase' # phase /\ phase' = "cutover_concurrency_groups"
                 => cmd[r].acknowledged]_vars

(***************************************************************************)
(* "Say 'remains' or 'already' for a no-op rather than claiming a change"  *)
(* (.agents/skills/writing-cli-commands/SKILL.md:48): a set-percent that   *)
(* prints "Routing changed from a% to b%" replaced another percentage.     *)
(***************************************************************************)
NoOpNeverClaimsChange ==
    \A r \in Runs :
        /\ pc[r] = "success" /\ cmd[r].op = "set-percent" /\ ~cmd[r].dryRun
        /\ seen[r].percent # cmd[r].to
        => outcome[r].percent # cmd[r].to

----------------------------------------------------------------------------
(* The verdict an operator sees, without the steps in between. *)
VerdictOf(label) == IF label \in Open THEN "open" ELSE label

(* The runs implement commands that take effect at most once, at an instant. *)
Atomic == INSTANCE AtomicCommands
            WITH verdict <- [r \in Runs |-> VerdictOf(pc[r])],
                 taken   <- [r \in Runs |-> wire[r] = "applied"]

(***************************************************************************)
(* Every behaviour of the multi-request commands is one of the atomic      *)
(* specification: success is reported only for an effect that happened, a  *)
(* rejection only when none did or will, and no request takes effect twice.*)
(***************************************************************************)
ImplementsAtomicCommands == Atomic!Spec
============================================================================
