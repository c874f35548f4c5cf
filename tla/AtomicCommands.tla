--------------------------- MODULE AtomicCommands ---------------------------
(***************************************************************************)
(* What the migration commands promise to operators, without requests,     *)
(* reads or replies: a command takes effect at most once, at one instant   *)
(* between its start and its verdict, or later if the verdict leaves the   *)
(* effect open; its verdict is true of the effect.                         *)
(***************************************************************************)
EXTENDS MigrationServer

CONSTANTS Runs, Commands

VARIABLES
    cmd,        \* the command line of each run
    verdict,    \* "idle", "open", or what its operator was told
    taken,      \* whether its effect happened
    held        \* percentages its queue had in prepare_queues while it was open

atomicVars == <<server, cmd, verdict, taken, held>>

AtomicInit ==
    /\ ServerInit
    /\ cmd \in [Runs -> Commands]
    /\ verdict = [r \in Runs |-> "idle"]
    /\ taken = [r \in Runs |-> FALSE]
    /\ held = [r \in Runs |-> {}]

Watch ==
    held' = [r \in Runs |->
                IF verdict'[r] = "open" /\ phase' = "prepare_queues" /\ cmd[r] \in QueueCommands
                THEN held[r] \cup {routed'[cmd[r].queue]}
                ELSE held[r]]

(* What the operator must have asked for before anything may change. *)
Authorised(c) ==
    /\ ~c.dryRun
    /\ c.op = "set-phase" /\ c.target = "cutover_concurrency_groups" => c.acknowledged
    /\ c.op = "set-percent" => c.to \in Percents

Begin(r) ==
    /\ verdict[r] = "idle"
    /\ verdict' \in { [verdict EXCEPT ![r] = v] : v \in {"open", "rejected"} }
    /\ UNCHANGED <<server, cmd, taken>>
    /\ Watch

(* The one instant at which a command takes effect, never after a definite verdict. *)
Effect(r) ==
    /\ verdict[r] \in {"open", "unclear"}
    /\ ~taken[r]
    /\ Authorised(cmd[r])
    /\ Perform(cmd[r])
    /\ taken' = [taken EXCEPT ![r] = TRUE]
    /\ UNCHANGED <<cmd, verdict>>
    /\ Watch

(* Success is owed to an effect, to a preview, or to a queue already routed so. *)
Deserved(r) ==
    \/ taken[r]
    \/ cmd[r].op = "status"
    \/ cmd[r].op \in {"queue configure", "set-percent"} /\ cmd[r].dryRun
    \/ cmd[r].op = "set-percent" /\ cmd[r].to \in held[r]

End(r) ==
    /\ verdict[r] = "open"
    /\ \E v \in {"success", "rejected", "unclear"} :
          /\ v = "success" => Deserved(r)
          /\ v = "rejected" => ~taken[r]
          /\ verdict' = [verdict EXCEPT ![r] = v]
    /\ UNCHANGED <<server, cmd, taken>>
    /\ Watch

(* Steps inside a command, and requests refused: nothing an operator can see. *)
Inside == UNCHANGED <<server, cmd, verdict, taken>> /\ Watch

AtomicNext == Inside \/ \E r \in Runs : Begin(r) \/ Effect(r) \/ End(r)

Spec == AtomicInit /\ [][AtomicNext]_atomicVars
=============================================================================
