----------------------- MODULE MigrationCommandsProof -----------------------
(***************************************************************************)
(* Proofs about MigrationCommands for any runs, command lines, queues and  *)
(* clusters.  The inductive invariant is TypeOK and Reliance together:     *)
(* TypeOK alone is not inductive, since only the CLI's range check keeps a *)
(* routed percentage within 0..100.                                        *)
(***************************************************************************)
EXTENDS MigrationCommands, TLAPS

(***************************************************************************)
(* What a run under way may rely on, whatever the other runs and late      *)
(* requests do.  Sequencing ties its step to its request, Standing what it *)
(* read and the history of its queue to the server now.                    *)
(***************************************************************************)
StepsOf(c) ==
    CASE c.op = "configure"       -> {"resolve cluster", "send", "waiting"}
      [] c.op = "status"          -> {"read status"}
      [] c.op = "queue configure" -> {"read phase", "resolve cluster", "require queue",
                                      "send", "waiting"}
      [] c.op = "set-percent"     -> {"read phase", "read percent", "resolve cluster",
                                      "send", "waiting"}
      [] OTHER                    -> {"send", "waiting"}

Sequencing(r) ==
    /\ pc[r] \in Open => pc[r] \in StepsOf(cmd[r])
    /\ pc[r] \notin {"idle", "rejected"} => ~RejectsLocally(cmd[r])
    /\ pc[r] \in {"send", "waiting"} => ~cmd[r].dryRun
    /\ pc[r] \in {"idle", "send"} \cup Reading => wire[r] = "unsent"
    /\ pc[r] = "rejected" => wire[r] \in {"unsent", "refused"}
    /\ wire[r] = "sent" => pc[r] \in {"waiting", "unclear"}
    /\ wire[r] # "unsent" => ~cmd[r].dryRun /\ ~RejectsLocally(cmd[r])
    /\ pc[r] = "success" => \/ wire[r] = "applied"
                            \/ cmd[r].op = "status"
                            \/ NothingToSend(r)

Standing(r) ==
    /\ pc[r] \in Open \ {"read phase"} /\ cmd[r] \in QueueCommands
         => /\ routed[cmd[r].queue] \in held[r]
            /\ seen[r].destination = destination
            /\ destination # NoCluster
    /\ seen[r].percent # Unread => seen[r].percent \in held[r]
    /\ pc[r] = "waiting" /\ wire[r] = "applied" /\ cmd[r].op = "set-percent"
         => cmd[r].to \in held[r]
    /\ wire[r] = "applied" /\ PrintsReply(cmd[r])
         => outcome[r].destination = destination /\ destination # NoCluster
    /\ pc[r] = "success" /\ cmd[r].op = "set-percent" /\ ~cmd[r].dryRun
         => cmd[r].to \in held[r]
    /\ pc[r] = "success" /\ cmd[r].op # "finalize"
         => seen[r].destination = destination /\ destination # NoCluster

Reliance ==
    /\ phase = "unconfigured" <=> destination = NoCluster
    /\ \A r \in Runs : Sequencing(r) /\ Standing(r)

IInv == TypeOK /\ Reliance

(* The fields a command line has, and what its checks leave of --to. *)
LEMMA CommandFields ==
    ASSUME NEW c \in AllCommands
    PROVE  /\ c.dryRun \in BOOLEAN
           /\ c.op \in {"configure", "status", "set-phase", "queue configure",
                        "set-percent", "finalize"}
           /\ c.op = "configure" => c.cluster \in Clusters
           /\ c.op = "set-phase" => c.target \in Targets
           /\ c.op = "set-phase" => c.acknowledged \in BOOLEAN
           /\ c \in QueueCommands <=> c.op \in {"queue configure", "set-percent"}
           /\ c \in QueueCommands => c.queue \in Queues
           /\ c.op = "set-percent" /\ ~RejectsLocally(c) => c.to \in Percents
  BY DEF AllCommands, QueueCommands, ConfigureCommand, StatusCommand, SetPhaseCommand,
         MapQueueCommand, SetPercentCommand, FinalizeCommand, RejectsLocally

(* How the server may change: what every run can count on about a step. *)
ServerEvolves ==
    /\ ServerTypeOK'
    /\ phase' = "unconfigured" <=> destination' = NoCluster
    /\ destination # NoCluster => destination' = destination
    /\ \A q \in Queues : routed'[q] # routed[q] => phase' = "prepare_queues"

LEMMA PerformEvolves ==
    ASSUME ServerTypeOK, phase = "unconfigured" <=> destination = NoCluster,
           NEW c \in AllCommands, ~RejectsLocally(c), Perform(c)
    PROVE  ServerEvolves
  <1> USE ServerAssumption DEF ServerTypeOK, ServerEvolves, Phases, Targets
  <1>1. CASE Configure(c)
    BY <1>1, CommandFields DEF Configure
  <1>2. CASE Transition(c)
    <2>1. c.target \in Targets
      BY <1>2, CommandFields DEF Transition
    <2>2. /\ LegalFrom[c.target] # "unconfigured" /\ c.target # "unconfigured"
      BY <2>1 DEF LegalFrom
    <2> QED  BY <1>2, <2>1, <2>2 DEF Transition
  <1>3. CASE MapQueue(c)
    <2>1. c.queue \in Queues
      BY <1>3, CommandFields DEF MapQueue
    <2>2. 0 \in Percents
      BY DEF Percents
    <2>3. routed' \in [Queues -> Percents \cup {Unmapped}]
      BY <1>3, <2>1, <2>2 DEF MapQueue
    <2>4. phase = "prepare_queues" /\ UNCHANGED <<phase, destination>>
      BY <1>3 DEF MapQueue
    <2> QED  BY <2>3, <2>4
  <1>4. CASE SetPercent(c)
    <2>1. c.queue \in Queues /\ c.to \in Percents
      BY <1>4, CommandFields DEF SetPercent
    <2> QED  BY <1>4, <2>1 DEF SetPercent
  <1>5. CASE FinalizeBlockedBuilds(c)
    BY <1>5 DEF FinalizeBlockedBuilds, server
  <1> QED  BY <1>1, <1>2, <1>3, <1>4, <1>5 DEF Perform

LEMMA UnchangedEvolves ==
    ASSUME ServerTypeOK, phase = "unconfigured" <=> destination = NoCluster, UNCHANGED server
    PROVE  ServerEvolves
  BY DEF ServerTypeOK, ServerEvolves, server

(* The history only grows, and has what the queue of an open run holds now. *)
LEMMA ObserveGrows ==
    ASSUME TypeOK, ServerTypeOK', Observe, UNCHANGED cmd, NEW s \in Runs
    PROVE  /\ held' \in [Runs -> SUBSET (Percents \cup {Unmapped})]
           /\ held[s] \subseteq held'[s]
           /\ pc'[s] \in Open /\ phase' = "prepare_queues" /\ cmd[s] \in QueueCommands
                => routed'[cmd[s].queue] \in held'[s]
  <1>1. \A t \in Runs : cmd[t] \in QueueCommands
                          => routed'[cmd[t].queue] \in Percents \cup {Unmapped}
    BY CommandFields, CommandsAssumption DEF TypeOK, ServerTypeOK
  <1> QED  BY <1>1 DEF TypeOK, Observe

(* A run that takes no step, and whose request is not touched, keeps its standing. *)
LEMMA BystanderStands ==
    ASSUME IInv, ServerEvolves, Observe, UNCHANGED cmd, NEW s \in Runs,
           pc'[s] = pc[s], seen'[s] = seen[s], wire'[s] = wire[s], outcome'[s] = outcome[s]
    PROVE  Sequencing(s)' /\ Standing(s)'
  <1>1. Sequencing(s)'
    BY DEF IInv, Reliance, Sequencing, NothingToSend
  <1>2. /\ held[s] \subseteq held'[s]
        /\ pc'[s] \in Open /\ phase' = "prepare_queues" /\ cmd[s] \in QueueCommands
             => routed'[cmd[s].queue] \in held'[s]
    BY ObserveGrows DEF IInv, ServerEvolves
  <1>3. cmd[s] \in AllCommands /\ cmd'[s] = cmd[s]
    BY CommandsAssumption DEF IInv, TypeOK
  <1>4. Standing(s)
    BY DEF IInv, Reliance
  <1>5. ASSUME pc[s] \in Open \ {"read phase"}, cmd[s] \in QueueCommands
        PROVE  /\ routed'[cmd[s].queue] \in held'[s]
               /\ seen'[s].destination = destination' /\ destination' # NoCluster
    BY <1>2, <1>3, <1>4, <1>5, CommandFields DEF Standing, ServerEvolves
  <1> QED  BY <1>1, <1>2, <1>3, <1>4, <1>5 DEF Standing, ServerEvolves, PrintsReply

(* So a step of run r has to be examined for r alone. *)
LEMMA StepOfOne ==
    ASSUME IInv, ServerEvolves, Observe, UNCHANGED cmd, NEW r \in Runs,
           pc' \in [Runs -> PCs], seen' \in [Runs -> Facts],
           wire' \in [Runs -> {"unsent", "sent", "applied", "refused"}],
           outcome' \in [Runs -> Facts],
           \A s \in Runs \ {r} : /\ pc'[s] = pc[s] /\ seen'[s] = seen[s]
                                 /\ wire'[s] = wire[s] /\ outcome'[s] = outcome[s],
           Sequencing(r)', Standing(r)'
    PROVE  IInv'
  <1>1. TypeOK'
    <2>1. held' \in [Runs -> SUBSET (Percents \cup {Unmapped})]
      BY ObserveGrows DEF IInv, ServerEvolves
    <2>2. cmd' \in [Runs -> Commands]
      BY DEF IInv, TypeOK
    <2> QED  BY <2>1, <2>2 DEF TypeOK, ServerEvolves
  <1>2. \A s \in Runs \ {r} : Sequencing(s)' /\ Standing(s)'
    BY BystanderStands
  <1> QED  BY <1>1, <1>2 DEF IInv, Reliance, ServerEvolves

LEMMA InitEstablishes == Init => IInv
  <1> SUFFICES ASSUME Init PROVE IInv
    OBVIOUS
  <1>1. TypeOK
    BY ServerAssumption DEF Init, ServerInit, TypeOK, ServerTypeOK, PCs, Facts, NoFacts
  <1>2. \A r \in Runs : Sequencing(r) /\ Standing(r)
    BY CommandsAssumption
       DEF Init, Sequencing, Standing, Open, Reading, NoFacts, NothingToSend, Phases, Targets
  <1> QED  BY <1>1, <1>2 DEF Init, ServerInit, IInv, Reliance

(* What is known of a run r when a step of it leaves the server alone. *)
LEMMA OwnStep ==
    ASSUME IInv, UNCHANGED <<server, cmd>>, Observe, NEW r \in Runs
    PROVE  /\ ServerEvolves
           /\ cmd[r] \in AllCommands
           /\ held[r] \subseteq held'[r]
           /\ Sequencing(r) /\ Standing(r)
           /\ pc[r] \in PCs /\ seen[r] \in Facts /\ outcome[r] \in Facts
           /\ pc'[r] \in Open /\ phase' = "prepare_queues" /\ cmd[r] \in QueueCommands
                => routed'[cmd[r].queue] \in held'[r]
  <1>1. ServerEvolves
    BY UnchangedEvolves DEF IInv, TypeOK, Reliance
  <1>2. cmd[r] \in AllCommands
    BY CommandsAssumption DEF IInv, TypeOK
  <1> QED  BY <1>1, <1>2, ObserveGrows DEF IInv, TypeOK, Reliance, ServerEvolves

LEMMA FirstStepFits ==
    ASSUME NEW c \in AllCommands, ~RejectsLocally(c)
    PROVE  /\ FirstStep(c) \in StepsOf(c) \cap (Reading \cup {"send"})
           /\ FirstStep(c) = "send" => ~c.dryRun
           /\ c \in QueueCommands => FirstStep(c) = "read phase"
  <1>1. FirstStep(c) \in StepsOf(c) \cap (Reading \cup {"send"})
    BY CommandFields DEF FirstStep, StepsOf, Reading
  <1>2. FirstStep(c) = "send" => c.op \in {"set-phase", "finalize"}
    BY CommandFields DEF FirstStep
  <1>3. c.op \in {"set-phase", "finalize"} => ~c.dryRun
    BY DEF RejectsLocally
  <1>4. c \in QueueCommands => FirstStep(c) = "read phase"
    BY CommandFields DEF FirstStep
  <1> QED  BY <1>1, <1>2, <1>3, <1>4

(* The step a command is at says which commands it can be, and what comes next. *)
LEMMA StepsFit ==
    ASSUME NEW c \in AllCommands
    PROVE  /\ "read phase" \in StepsOf(c)
                => /\ c \in QueueCommands /\ "resolve cluster" \in StepsOf(c)
                   /\ c.op = "set-percent" => "read percent" \in StepsOf(c)
           /\ "read percent" \in StepsOf(c)
                => /\ c.op = "set-percent" /\ c \in QueueCommands
                   /\ "resolve cluster" \in StepsOf(c)
           /\ "resolve cluster" \in StepsOf(c)
                => /\ c.op \in {"configure", "queue configure", "set-percent"}
                   /\ "send" \in StepsOf(c)
                   /\ c.op = "queue configure" => "require queue" \in StepsOf(c)
           /\ "require queue" \in StepsOf(c)
                => c.op = "queue configure" /\ c \in QueueCommands /\ "send" \in StepsOf(c)
           /\ "read status" \in StepsOf(c) => c.op = "status"
           /\ "send" \in StepsOf(c) => "waiting" \in StepsOf(c)
           /\ "waiting" \in StepsOf(c) => c.op # "status"
  BY CommandFields DEF StepsOf

LEMMA LaunchPreserves ==
    ASSUME IInv, NEW r \in Runs, Launch(r)
    PROVE  IInv'
  <1> USE DEF Launch, Goto
  <1>1. /\ ServerEvolves /\ cmd[r] \in AllCommands /\ Sequencing(r) /\ Standing(r)
        /\ held[r] \subseteq held'[r]
    BY OwnStep
  <1>2. pc[r] = "idle" /\ pc'[r] = (IF RejectsLocally(cmd[r]) THEN "rejected"
                                   ELSE FirstStep(cmd[r]))
    BY DEF IInv, TypeOK
  <1>3. wire[r] = "unsent" /\ UNCHANGED <<wire, seen, outcome, cmd, routed, destination, phase>>
    BY <1>1, <1>2 DEF Sequencing, server
  <1>4. CASE RejectsLocally(cmd[r])
    <2>1. pc'[r] = "rejected"
      BY <1>2, <1>4
    <2>2. Sequencing(r)'
      BY <1>3, <2>1 DEF Sequencing, Open, Reading
    <2>3. Standing(r)'
      BY <1>1, <1>2, <1>3, <2>1 DEF Standing, Open, Reading
    <2>4. pc' \in [Runs -> PCs]
      BY <2>1 DEF IInv, TypeOK, PCs, Verdicts
    <2> QED  BY <1>1, <2>2, <2>3, <2>4, StepOfOne DEF IInv, TypeOK
  <1>5. CASE ~RejectsLocally(cmd[r])
    <2>1. /\ pc'[r] \in StepsOf(cmd[r]) \cap (Reading \cup {"send"})
          /\ pc'[r] = "send" => ~cmd[r].dryRun
          /\ cmd[r] \in QueueCommands => pc'[r] = "read phase"
      BY <1>1, <1>2, <1>5, FirstStepFits
    <2>2. Sequencing(r)'
      BY <1>3, <1>5, <2>1 DEF Sequencing, Open, Reading
    <2>3. Standing(r)'
      BY <1>1, <1>2, <1>3, <2>1 DEF Standing, Open, Reading
    <2>4. pc' \in [Runs -> PCs]
      BY <2>1 DEF IInv, TypeOK, PCs, Open
    <2> QED  BY <1>1, <2>2, <2>3, <2>4, StepOfOne DEF IInv, TypeOK
  <1> QED  BY <1>4, <1>5

LEMMA RequireQueuePreparationPreserves ==
    ASSUME IInv, NEW r \in Runs, RequireQueuePreparation(r)
    PROVE  IInv'
  <1> USE DEF RequireQueuePreparation, Goto
  <1>1. /\ ServerEvolves /\ cmd[r] \in AllCommands /\ Sequencing(r) /\ Standing(r)
        /\ held[r] \subseteq held'[r]
        /\ pc'[r] \in Open /\ phase' = "prepare_queues" /\ cmd[r] \in QueueCommands
             => routed'[cmd[r].queue] \in held'[r]
    BY OwnStep
  <1>2. UNCHANGED <<wire, outcome, cmd, routed, destination, phase>>
    BY DEF server
  <1>3. /\ pc[r] \in StepsOf(cmd[r]) /\ ~RejectsLocally(cmd[r]) /\ wire[r] = "unsent"
        /\ cmd[r] \in QueueCommands
    BY <1>1, StepsFit DEF Sequencing, Open, Reading
  <1>4. \/ pc'[r] = "rejected"
        \/ pc'[r] \in StepsOf(cmd[r]) \cap {"read percent", "resolve cluster"}
    BY <1>1, <1>3, StepsFit DEF IInv, TypeOK
  <1>5. /\ seen'[r].phase = phase /\ seen'[r].destination = destination
        /\ seen'[r].percent = seen[r].percent
        /\ seen' \in [Runs -> Facts]
    <2>1. seen \in [Runs -> Facts] /\ phase \in Phases /\ destination \in Clusters \cup {NoCluster}
      BY DEF IInv, TypeOK, ServerTypeOK
    <2>2. seen'[r] = [phase |-> phase, destination |-> destination, percent |-> seen[r].percent]
      BY <2>1 DEF Facts
    <2>3. seen'[r] \in Facts
      BY <2>1, <2>2 DEF Facts
    <2> QED  BY <2>1, <2>2, <2>3
  <1>6. pc'[r] # "rejected" => phase = "prepare_queues" /\ destination # NoCluster
    BY DEF IInv, TypeOK, Reliance
  <1>7. Sequencing(r)'
    BY <1>2, <1>3, <1>4 DEF Sequencing, Open, Reading
  <1>8. Standing(r)'
    BY <1>1, <1>2, <1>3, <1>4, <1>5, <1>6 DEF Standing, Open, Reading
  <1>9. pc' \in [Runs -> PCs]
    BY <1>4 DEF IInv, TypeOK, PCs, Open, Reading, Verdicts
  <1> QED  BY <1>1, <1>5, <1>7, <1>8, <1>9, StepOfOne DEF IInv, TypeOK

LEMMA GetQueueMigrationPreserves ==
    ASSUME IInv, NEW r \in Runs, GetQueueMigration(r)
    PROVE  IInv'
  <1> USE DEF GetQueueMigration, Goto
  <1>1. /\ ServerEvolves /\ cmd[r] \in AllCommands /\ Sequencing(r) /\ Standing(r)
        /\ held[r] \subseteq held'[r]
    BY OwnStep
  <1>2. UNCHANGED <<wire, outcome, cmd, routed, destination, phase>>
    BY DEF server
  <1>3. /\ pc[r] \in StepsOf(cmd[r]) /\ ~RejectsLocally(cmd[r]) /\ wire[r] = "unsent"
        /\ cmd[r] \in QueueCommands /\ pc[r] \in Open
    BY <1>1, StepsFit DEF Sequencing, Open, Reading
  <1>4. \/ pc'[r] = "rejected"
        \/ pc'[r] \in StepsOf(cmd[r]) \cap {"resolve cluster"}
    BY <1>1, <1>3, StepsFit DEF IInv, TypeOK
  <1>5. /\ seen'[r].phase = seen[r].phase /\ seen'[r].destination = destination
        /\ seen'[r].percent = routed[cmd[r].queue]
        /\ seen' \in [Runs -> Facts]
    <2>1. /\ seen \in [Runs -> Facts] /\ destination \in Clusters \cup {NoCluster}
          /\ routed[cmd[r].queue] \in Percents \cup {Unmapped}
      BY <1>1, <1>3, CommandFields DEF IInv, TypeOK, ServerTypeOK
    <2>2. seen'[r] = [phase |-> seen[r].phase, destination |-> destination,
                      percent |-> routed[cmd[r].queue]]
      BY <2>1 DEF Facts
    <2>3. seen'[r] \in Facts
      BY <2>1, <2>2 DEF Facts
    <2> QED  BY <2>1, <2>2, <2>3
  <1>6. routed[cmd[r].queue] \in held'[r] /\ destination # NoCluster
    BY <1>1, <1>3 DEF Standing
  <1>7. Sequencing(r)'
    BY <1>2, <1>3, <1>4 DEF Sequencing, Open, Reading
  <1>8. Standing(r)'
    BY <1>1, <1>2, <1>3, <1>4, <1>5, <1>6 DEF Standing, Open, Reading
  <1>9. pc' \in [Runs -> PCs]
    BY <1>4 DEF IInv, TypeOK, PCs, Open, Reading, Verdicts
  <1> QED  BY <1>1, <1>5, <1>7, <1>8, <1>9, StepOfOne DEF IInv, TypeOK

(* A queue command that ends after its reads tells the truth. *)
LEMMA NothingToSendIsTrue ==
    ASSUME IInv, NEW r \in Runs, NothingToSend(r), ~RejectsLocally(cmd[r])
    PROVE  /\ cmd[r] \in QueueCommands
           /\ cmd[r].op = "set-percent" /\ ~cmd[r].dryRun => cmd[r].to \in held[r]
           /\ cmd[r].op # "finalize" /\ cmd[r].op # "status"
  <1>1. cmd[r] \in AllCommands /\ Standing(r)
    BY CommandsAssumption DEF IInv, TypeOK, Reliance
  <1>2. cmd[r].op \in {"queue configure", "set-percent"}
    BY DEF NothingToSend
  <1>3. cmd[r] \in QueueCommands
    BY <1>1, <1>2, CommandFields
  <1>4. ASSUME cmd[r].op = "set-percent", ~cmd[r].dryRun  PROVE cmd[r].to \in held[r]
    <2>1. cmd[r].to \in Percents
      BY <1>1, <1>4, CommandFields
    <2>2. seen[r].percent = cmd[r].to
      BY <1>4 DEF NothingToSend
    <2> QED  BY <1>1, <2>1, <2>2, CommandsAssumption DEF Standing
  <1> QED  BY <1>2, <1>3, <1>4

LEMMA LookupPreserves ==
    ASSUME IInv, NEW r \in Runs, ResolveCluster(r) \/ RequireClusterQueue(r)
    PROVE  IInv'
  <1> USE DEF ResolveCluster, RequireClusterQueue, Goto
  <1>1. /\ ServerEvolves /\ cmd[r] \in AllCommands /\ Sequencing(r) /\ Standing(r)
        /\ held[r] \subseteq held'[r]
    BY OwnStep
  <1>2. UNCHANGED <<seen, wire, outcome, cmd, routed, destination, phase>>
    BY DEF server
  <1>3. /\ pc[r] \in StepsOf(cmd[r]) \cap {"resolve cluster", "require queue"}
        /\ ~RejectsLocally(cmd[r]) /\ wire[r] = "unsent" /\ pc[r] \in Open
    BY <1>1 DEF Sequencing, Open, Reading
  <1>4. CASE pc'[r] = "success"
    <2>1. NothingToSend(r)
      BY <1>4 DEF IInv, TypeOK
    <2>2. /\ cmd[r] \in QueueCommands
          /\ cmd[r].op = "set-percent" /\ ~cmd[r].dryRun => cmd[r].to \in held[r]
          /\ cmd[r].op # "finalize" /\ cmd[r].op # "status"
      BY <1>3, <2>1, NothingToSendIsTrue
    <2>3. NothingToSend(r)'
      BY <1>2, <2>1 DEF NothingToSend
    <2>4. Sequencing(r)'
      BY <1>2, <1>3, <1>4, <2>3 DEF Sequencing, Open, Reading
    <2>5. Standing(r)'
      BY <1>1, <1>2, <1>3, <1>4, <2>2 DEF Standing, Open, Reading
    <2>6. pc' \in [Runs -> PCs]
      BY <1>4 DEF IInv, TypeOK, PCs, Verdicts
    <2> QED  BY <1>1, <2>4, <2>5, <2>6, StepOfOne DEF IInv, TypeOK
  <1>5. CASE pc'[r] # "success"
    <2>1. pc'[r] \in StepsOf(cmd[r]) \cap {"require queue", "send"}
      BY <1>1, <1>3, <1>5, StepsFit, ZenonT(60) DEF IInv, TypeOK
    <2>2. pc'[r] = "send" => ~cmd[r].dryRun
      <3>1. pc'[r] = "send" => ~NothingToSend(r)
        BY DEF IInv, TypeOK
      <3>2. cmd[r].op \in {"configure", "queue configure", "set-percent"}
        BY <1>1, <1>3, StepsFit
      <3>3. cmd[r].op = "configure" => ~cmd[r].dryRun
        BY <1>3 DEF RejectsLocally
      <3>4. pc'[r] = "send" /\ cmd[r].op \in {"queue configure", "set-percent"}
              => ~cmd[r].dryRun
        BY <3>1 DEF NothingToSend
      <3> QED  BY <3>2, <3>3, <3>4
    <2>3. Sequencing(r)'
      BY <1>2, <1>3, <2>1, <2>2 DEF Sequencing, Open, Reading
    <2>4. Standing(r)'
      BY <1>1, <1>2, <1>3, <2>1 DEF Standing, Open, Reading
    <2>5. pc' \in [Runs -> PCs]
      BY <2>1 DEF IInv, TypeOK, PCs, Open, Reading
    <2> QED  BY <1>1, <2>3, <2>4, <2>5, StepOfOne DEF IInv, TypeOK
  <1> QED  BY <1>4, <1>5

LEMMA GetMigrationPreserves ==
    ASSUME IInv, NEW r \in Runs, GetMigration(r)
    PROVE  IInv'
  <1> USE DEF GetMigration, Goto
  <1>1. /\ ServerEvolves /\ cmd[r] \in AllCommands /\ Sequencing(r) /\ Standing(r)
        /\ held[r] \subseteq held'[r]
    BY OwnStep
  <1>2. UNCHANGED <<wire, outcome, cmd, routed, destination, phase>>
    BY DEF server
  <1>3. ~RejectsLocally(cmd[r]) /\ wire[r] = "unsent" /\ cmd[r].op = "status"
    BY <1>1, StepsFit DEF Sequencing, Open, Reading
  <1>4. pc'[r] \in {"rejected", "success"} /\ (pc'[r] = "success" => phase # "unconfigured")
    BY DEF IInv, TypeOK
  <1>5. /\ seen'[r].phase = phase /\ seen'[r].destination = destination
        /\ seen'[r].percent = seen[r].percent
        /\ seen' \in [Runs -> Facts]
    <2>1. seen \in [Runs -> Facts] /\ phase \in Phases /\ destination \in Clusters \cup {NoCluster}
      BY DEF IInv, TypeOK, ServerTypeOK
    <2>2. seen'[r] = [phase |-> phase, destination |-> destination, percent |-> seen[r].percent]
      BY <2>1 DEF Facts
    <2>3. seen'[r] \in Facts
      BY <2>1, <2>2 DEF Facts
    <2> QED  BY <2>1, <2>2, <2>3
  <1>6. pc'[r] # "rejected" => destination # NoCluster
    BY <1>4 DEF IInv, Reliance
  <1>7. Sequencing(r)'
    BY <1>2, <1>3, <1>4 DEF Sequencing, Open, Reading
  <1>8. Standing(r)'
    BY <1>1, <1>2, <1>3, <1>4, <1>5, <1>6 DEF Standing, Open, Reading
  <1>9. pc' \in [Runs -> PCs]
    BY <1>4 DEF IInv, TypeOK, PCs, Verdicts
  <1> QED  BY <1>1, <1>5, <1>7, <1>8, <1>9, StepOfOne DEF IInv, TypeOK

LEMMA SendPreserves ==
    ASSUME IInv, NEW r \in Runs, Send(r)
    PROVE  IInv'
  <1> USE DEF Send, Goto
  <1>1. /\ ServerEvolves /\ cmd[r] \in AllCommands /\ Sequencing(r) /\ Standing(r)
        /\ held[r] \subseteq held'[r]
    BY OwnStep
  <1>2. UNCHANGED <<seen, outcome, cmd, routed, destination, phase>>
    BY DEF server
  <1>3. /\ ~RejectsLocally(cmd[r]) /\ ~cmd[r].dryRun /\ "waiting" \in StepsOf(cmd[r])
    BY <1>1, StepsFit DEF Sequencing, Open, Reading
  <1>4. /\ pc'[r] = "waiting" /\ wire'[r] = "sent"
        /\ wire' \in [Runs -> {"unsent", "sent", "applied", "refused"}]
        /\ \A s \in Runs \ {r} : wire'[s] = wire[s]
    BY DEF IInv, TypeOK
  <1>5. Sequencing(r)'
    BY <1>2, <1>3, <1>4 DEF Sequencing, Open, Reading
  <1>6. Standing(r)'
    BY <1>1, <1>2, <1>4 DEF Standing, Open, Reading
  <1>7. pc' \in [Runs -> PCs]
    BY <1>4 DEF IInv, TypeOK, PCs, Open
  <1> QED  BY <1>1, <1>4, <1>5, <1>6, <1>7, StepOfOne DEF IInv, TypeOK

LEMMA GiveUpPreserves ==
    ASSUME IInv, NEW r \in Runs, GiveUp(r)
    PROVE  IInv'
  <1> USE DEF GiveUp, Goto
  <1>1. /\ ServerEvolves /\ cmd[r] \in AllCommands /\ Sequencing(r) /\ Standing(r)
        /\ held[r] \subseteq held'[r]
    BY OwnStep
  <1>2. UNCHANGED <<seen, wire, outcome, cmd, routed, destination, phase>>
    BY DEF server
  <1>3. \/ pc[r] = "waiting" /\ pc'[r] = "unclear"
        \/ pc[r] \in Reading \cup {"send"} /\ pc'[r] = "rejected"
    BY DEF IInv, TypeOK, Open
  <1>4. Sequencing(r)'
    BY <1>1, <1>2, <1>3 DEF Sequencing, Open, Reading
  <1>5. Standing(r)'
    BY <1>1, <1>2, <1>3 DEF Standing, Open, Reading
  <1>6. pc' \in [Runs -> PCs]
    BY <1>3 DEF IInv, TypeOK, PCs, Verdicts
  <1> QED  BY <1>1, <1>4, <1>5, <1>6, StepOfOne DEF IInv, TypeOK

LEMMA RefusePreserves ==
    ASSUME IInv, NEW r \in Runs, Refuse(r)
    PROVE  IInv'
  <1> USE DEF Refuse
  <1>1. /\ ServerEvolves /\ cmd[r] \in AllCommands /\ Sequencing(r) /\ Standing(r)
        /\ held[r] \subseteq held'[r]
    BY OwnStep
  <1>2. UNCHANGED <<seen, pc, outcome, cmd, routed, destination, phase>>
    BY DEF server
  <1>3. /\ wire'[r] = "refused"
        /\ wire' \in [Runs -> {"unsent", "sent", "applied", "refused"}]
        /\ \A s \in Runs \ {r} : wire'[s] = wire[s]
    BY DEF IInv, TypeOK
  <1>4. Sequencing(r)'
    BY <1>1, <1>2, <1>3 DEF Sequencing, Open, Reading
  <1>5. Standing(r)'
    <2>1. pc[r] \in {"waiting", "unclear"}
      BY <1>1 DEF Sequencing
    <2>2. pc'[r] \in Open /\ cmd[r] \in QueueCommands
            => /\ routed[cmd[r].queue] \in held'[r]
               /\ seen[r].destination = destination /\ destination # NoCluster
      BY <1>1, <1>2, <2>1 DEF Standing
    <2> QED  BY <1>1, <1>2, <1>3, <2>1, <2>2 DEF Standing, Open, Reading
  <1> QED  BY <1>1, <1>3, <1>4, <1>5, StepOfOne DEF IInv, TypeOK

LEMMA ReceivePreserves ==
    ASSUME IInv, NEW r \in Runs, Receive(r)
    PROVE  IInv'
  <1> USE DEF Receive, Goto
  <1>1. /\ ServerEvolves /\ cmd[r] \in AllCommands /\ Sequencing(r) /\ Standing(r)
        /\ held[r] \subseteq held'[r]
    BY OwnStep
  <1>2. UNCHANGED <<wire, outcome, cmd, routed, destination, phase>>
    BY DEF server
  <1>3. /\ cmd[r].op # "status" /\ pc[r] \in Open
        /\ ~RejectsLocally(cmd[r]) /\ ~cmd[r].dryRun
    BY <1>1, StepsFit DEF Sequencing, Open, Reading
  <1>4. \/ wire[r] = "applied" /\ pc'[r] = "success"
        \/ wire[r] = "refused" /\ pc'[r] = "rejected"
    BY DEF IInv, TypeOK
  <1>5. pc' \in [Runs -> PCs]
    BY <1>4 DEF IInv, TypeOK, PCs, Verdicts
  <1>6. Sequencing(r)'
    BY <1>1, <1>2, <1>3, <1>4 DEF Sequencing, Open, Reading
  <1>7. CASE wire[r] = "applied" /\ PrintsReply(cmd[r])
    <2>1. seen \in [Runs -> Facts] /\ outcome[r] \in Facts
      BY DEF IInv, TypeOK
    <2>2. seen'[r] = [phase |-> outcome[r].phase, destination |-> outcome[r].destination,
                      percent |-> seen[r].percent]
      BY <1>7, <2>1 DEF Facts
    <2>3. seen'[r] \in Facts /\ seen' \in [Runs -> Facts]
      BY <1>7, <2>1, <2>2 DEF Facts
    <2>4. \A s \in Runs \ {r} : seen'[s] = seen[s]
      BY <1>7, <2>1
    <2>5. cmd[r].op \in {"configure", "set-phase"}
      BY <1>7 DEF PrintsReply
    <2>6. /\ seen'[r].phase = outcome[r].phase /\ seen'[r].percent = seen[r].percent
          /\ seen'[r].destination = destination /\ destination # NoCluster
      BY <1>1, <1>7, <2>2 DEF Standing
    <2>7. Standing(r)'
      BY <1>1, <1>2, <1>4, <1>7, <2>5, <2>6 DEF Standing, Open, Reading
    <2> QED  BY <1>1, <1>5, <1>6, <2>3, <2>4, <2>7, StepOfOne DEF IInv, TypeOK
  <1>8. CASE ~(wire[r] = "applied" /\ PrintsReply(cmd[r]))
    <2>1. seen' = seen
      BY <1>8
    <2>2. pc'[r] = "success" /\ cmd[r].op # "finalize" => cmd[r] \in QueueCommands
      BY <1>1, <1>3, <1>4, <1>8, CommandFields DEF PrintsReply
    <2>3. Standing(r)'
      BY <1>1, <1>2, <1>3, <1>4, <2>1, <2>2 DEF Standing, Open, Reading
    <2> QED  BY <1>1, <1>5, <1>6, <2>1, <2>3, StepOfOne DEF IInv, TypeOK
  <1> QED  BY <1>7, <1>8

LEMMA AcceptPreserves ==
    ASSUME IInv, NEW r \in Runs, Accept(r)
    PROVE  IInv'
  <1> USE DEF Accept
  <1>1. cmd[r] \in AllCommands /\ Sequencing(r) /\ Standing(r)
    BY CommandsAssumption DEF IInv, TypeOK, Reliance
  <1>2. ~RejectsLocally(cmd[r]) /\ ~cmd[r].dryRun /\ pc[r] \in {"waiting", "unclear"}
    BY <1>1 DEF Sequencing
  <1>3. ServerEvolves
    BY <1>1, <1>2, PerformEvolves DEF IInv, TypeOK, Reliance
  <1>4. /\ held[r] \subseteq held'[r]
        /\ pc'[r] \in Open /\ phase' = "prepare_queues" /\ cmd[r] \in QueueCommands
             => routed'[cmd[r].queue] \in held'[r]
    BY <1>3, ObserveGrows DEF IInv, ServerEvolves
  <1>5. /\ wire'[r] = "applied"
        /\ wire' \in [Runs -> {"unsent", "sent", "applied", "refused"}]
        /\ \A s \in Runs \ {r} : wire'[s] = wire[s] /\ outcome'[s] = outcome[s]
    BY DEF IInv, TypeOK
  <1>6. /\ outcome'[r].phase = phase' /\ outcome'[r].destination = destination'
        /\ outcome' \in [Runs -> Facts]
    <2>1. cmd[r].op = "set-percent" => routed[cmd[r].queue] \in Percents \cup {Unmapped}
      BY <1>1, CommandFields DEF IInv, TypeOK, ServerTypeOK
    <2>2. outcome \in [Runs -> Facts]
      BY DEF IInv, TypeOK
    <2>3. outcome'[r] = [ phase |-> phase', destination |-> destination',
                          percent |-> IF cmd[r].op = "set-percent" THEN routed[cmd[r].queue]
                                      ELSE Unread ]
      BY <2>2
    <2>4. outcome'[r] \in Facts
      BY <1>3, <2>1, <2>3 DEF ServerEvolves, ServerTypeOK, Facts
    <2> QED  BY <2>2, <2>3, <2>4
  <1>7. Sequencing(r)'
    BY <1>1, <1>2, <1>5 DEF Sequencing, Open, Reading
  <1>8. PrintsReply(cmd[r]) => destination' # NoCluster
    <2>1. cmd[r].op = "configure" \/ cmd[r].op = "set-phase" => phase' # "unconfigured"
      <3>1. CASE Configure(cmd[r])
        BY <3>1 DEF Configure
      <3>2. CASE Transition(cmd[r])
        BY <1>1, <3>2, CommandFields DEF Transition, Targets
      <3> QED  BY <3>1, <3>2 DEF Perform, MapQueue, SetPercent, FinalizeBlockedBuilds
    <2> QED  BY <1>3, <2>1 DEF ServerEvolves, PrintsReply
  <1>9. cmd[r].op = "set-percent"
          => phase' = "prepare_queues" /\ routed'[cmd[r].queue] = cmd[r].to
    BY <1>1, CommandFields
       DEF Perform, Configure, Transition, MapQueue, SetPercent, FinalizeBlockedBuilds,
           IInv, TypeOK, ServerTypeOK
  <1>10. pc[r] \in Open /\ cmd[r] \in QueueCommands
           => /\ routed'[cmd[r].queue] \in held'[r]
              /\ seen[r].destination = destination' /\ destination' # NoCluster
    BY <1>1, <1>2, <1>3, <1>4, CommandFields DEF Standing, ServerEvolves
  <1>11. cmd[r].op = "set-percent" => cmd[r] \in QueueCommands
    BY <1>1, CommandFields
  <1>12. Standing(r)'
    BY <1>1, <1>2, <1>3, <1>4, <1>5, <1>6, <1>8, <1>9, <1>10, <1>11
       DEF Standing, ServerEvolves, Open, Reading
  <1> QED  BY <1>3, <1>5, <1>6, <1>7, <1>12, StepOfOne DEF IInv, TypeOK

LEMMA StepPreserves == IInv /\ [Next]_vars => IInv'
  <1> SUFFICES ASSUME IInv, [Next]_vars PROVE IInv'
    OBVIOUS
  <1>1. ASSUME NEW r \in Runs, Launch(r) \/ Command(r) \/ Accept(r) \/ Refuse(r)
        PROVE  IInv'
    BY <1>1, LaunchPreserves, RequireQueuePreparationPreserves, GetQueueMigrationPreserves,
       LookupPreserves, GetMigrationPreserves, SendPreserves, ReceivePreserves, GiveUpPreserves,
       AcceptPreserves, RefusePreserves DEF Command
  <1>2. CASE UNCHANGED vars
    <2>1. TypeOK'
      BY <1>2 DEF vars, run, server, IInv, TypeOK, ServerTypeOK
    <2>2. Reliance'
      BY <1>2, ZenonT(60) DEF vars, run, server, IInv, Reliance, Sequencing, Standing, NothingToSend
    <2> QED  BY <2>1, <2>2 DEF IInv
  <1> QED  BY <1>1, <1>2 DEF Next

(* The inductive invariant holds in every reachable state. *)
THEOREM Invariance == Spec => []IInv
  BY InitEstablishes, StepPreserves, PTL DEF Spec

(***************************************************************************)
(* Every variable keeps its type; in particular no queue is ever routed    *)
(* outside 0..100, although only the CLI checks --to.                      *)
(***************************************************************************)
THEOREM TypeCorrect == Spec => []TypeOK
  <1>1. IInv => TypeOK
    BY DEF IInv
  <1> QED  BY <1>1, Invariance, PTL

(* A definite rejection never hides an effect. *)
THEOREM RejectionTheorem == Spec => []RejectionIsFinal
  <1>1. IInv => RejectionIsFinal
    BY DEF IInv, Reliance, Sequencing, RejectionIsFinal
  <1> QED  BY <1>1, Invariance, PTL

(* set-percent reports success only of a percentage its queue had in preparation. *)
THEOREM SetPercentTheorem == Spec => []SetPercentTookHold
  <1>1. IInv => SetPercentTookHold
    BY DEF IInv, Reliance, Standing, SetPercentTookHold
  <1> QED  BY <1>1, Invariance, PTL

(* Phase check and percentage of every queue command are one snapshot. *)
THEOREM SnapshotTheorem == Spec => []SnapshotIsConsistent
  <1>1. IInv => SnapshotIsConsistent
    BY DEF IInv, Reliance, Standing, SnapshotIsConsistent
  <1> QED  BY <1>1, Invariance, PTL

(* Success names the destination the migration has, and has for good. *)
THEOREM DestinationTheorem == Spec => []ReportedDestinationIsActual
  <1>1. IInv => ReportedDestinationIsActual
    BY DEF IInv, Reliance, Standing, ReportedDestinationIsActual, PrintsDestination
  <1> QED  BY <1>1, Invariance, PTL

----------------------------------------------------------------------------
(* Only the service's work on a request changes the server. *)
LEMMA OnlyAcceptChanges ==
    ASSUME [Next]_vars
    PROVE  UNCHANGED server \/ \E r \in Runs : Accept(r)
  BY DEF Next, vars, Command, Launch, RequireQueuePreparation, GetQueueMigration, ResolveCluster,
         RequireClusterQueue, GetMigration, Send, Receive, GiveUp, Refuse

(* No step changes the server without a command line that authorises it. *)
THEOREM AuthorisationTheorem == Spec => ChangesAreAuthorised
  <1> DEFINE Asked(r) == /\ wire[r] = "sent" /\ wire'[r] = "applied"
                         /\ ~cmd[r].dryRun
                         /\ phase' # phase /\ phase' = "cutover_concurrency_groups"
                              => cmd[r].acknowledged
  <1>1. ASSUME IInv, NEW r \in Runs, Accept(r)
        PROVE  Asked(r)
    <2>1. wire[r] = "sent" /\ wire'[r] = "applied" /\ Perform(cmd[r])
      BY <1>1 DEF Accept, IInv, TypeOK
    <2>2. ~cmd[r].dryRun /\ ~RejectsLocally(cmd[r])
      BY <1>1, <2>1 DEF IInv, Reliance, Sequencing
    <2>3. ASSUME phase' # phase, phase' = "cutover_concurrency_groups"
          PROVE  cmd[r].op = "set-phase" /\ cmd[r].target = "cutover_concurrency_groups"
      BY <2>1, <2>3 DEF Perform, Configure, Transition, MapQueue, SetPercent,
                        FinalizeBlockedBuilds, server
    <2>4. ASSUME phase' # phase, phase' = "cutover_concurrency_groups"
          PROVE  cmd[r].acknowledged
      BY <2>2, <2>3, <2>4 DEF RejectsLocally
    <2> QED  BY <2>1, <2>2, <2>4
  <1>2. IInv /\ [Next]_vars => [server' # server => \E r \in Runs : Asked(r)]_vars
    BY <1>1, OnlyAcceptChanges
  <1> QED  BY <1>2, Invariance, PTL DEF Spec, ChangesAreAuthorised

----------------------------------------------------------------------------
(* The refinement of AtomicCommands: verdicts and effects of the mapping. *)
LEMMA Verdict ==
    ASSUME NEW p \in PCs
    PROVE  /\ VerdictOf(p) = "open" <=> p \in Open
           /\ p \notin Open => VerdictOf(p) = p
  BY DEF PCs, VerdictOf, Open, Reading, Verdicts

(* The abstract specification speaks of the same server. *)
LEMMA SameServer ==
    /\ Atomic!QueueCommands = QueueCommands
    /\ Atomic!Percents = Percents
    /\ Atomic!ServerInit <=> ServerInit
    /\ Atomic!server = server
  BY DEF Atomic!QueueCommands, QueueCommands, Atomic!MapQueueCommand, MapQueueCommand,
         Atomic!SetPercentCommand, SetPercentCommand, Atomic!Percents, Percents,
         Atomic!ServerInit, ServerInit, Atomic!Phases, Phases, Atomic!Targets, Targets,
         Atomic!server, server

LEMMA SamePerform ==
    ASSUME NEW c
    PROVE  Perform(c) => Atomic!Perform(c)
  <1>1. Atomic!LegalFrom = LegalFrom
    BY DEF Atomic!LegalFrom, LegalFrom
  <1> QED  BY <1>1 DEF Perform, Configure, Transition, MapQueue, SetPercent, FinalizeBlockedBuilds,
              Atomic!Perform, Atomic!Configure, Atomic!Transition, Atomic!MapQueue,
              Atomic!SetPercent, Atomic!FinalizeBlockedBuilds, server, Atomic!server

LEMMA WatchMaps ==
    ASSUME TypeOK', Observe
    PROVE  Atomic!Watch
  <1>1. \A r \in Runs : VerdictOf(pc'[r]) = "open" <=> pc'[r] \in Open
    BY Verdict DEF TypeOK
  <1>2. \A r \in Runs : [s \in Runs |-> VerdictOf(pc[s])]'[r] = VerdictOf(pc'[r])
    OBVIOUS
  <1> QED  BY <1>1, <1>2, SameServer DEF Observe, Atomic!Watch

LEMMA InitMaps == Init => Atomic!AtomicInit
  <1> SUFFICES ASSUME Init PROVE Atomic!AtomicInit
    OBVIOUS
  <1>1. VerdictOf("idle") = "idle"
    BY DEF VerdictOf, Open, Reading
  <1>2. \A r \in Runs : ~(wire[r] = "applied")
    BY DEF Init
  <1> QED  BY <1>1, <1>2, SameServer DEF Init, Atomic!AtomicInit

(* A step whose run stays open, and that changes nothing else, is invisible. *)
LEMMA InsideMaps ==
    ASSUME IInv, IInv', Observe, UNCHANGED <<server, cmd>>, NEW r \in Runs,
           pc[r] \in Open, pc'[r] \in Open,
           \A s \in Runs \ {r} : pc'[s] = pc[s],
           \A s \in Runs : wire'[s] = "applied" <=> wire[s] = "applied"
    PROVE  Atomic!Inside
  <1>1. \A s \in Runs : VerdictOf(pc'[s]) = VerdictOf(pc[s])
    BY DEF VerdictOf
  <1>2. [s \in Runs |-> VerdictOf(pc[s])]' = [s \in Runs |-> VerdictOf(pc[s])]
    BY <1>1
  <1>3. [s \in Runs |-> wire[s] = "applied"]' = [s \in Runs |-> wire[s] = "applied"]
    OBVIOUS
  <1>4. Atomic!Watch
    BY WatchMaps DEF IInv
  <1> QED  BY <1>2, <1>3, <1>4, SameServer DEF Atomic!Inside, Atomic!server, server

(* A step that ends run r with a verdict it deserves is the abstract End. *)
LEMMA EndMaps ==
    ASSUME IInv, IInv', Observe, UNCHANGED <<server, cmd, wire>>, NEW r \in Runs,
           pc[r] \in Open, pc'[r] \in Verdicts,
           pc' = [pc EXCEPT ![r] = pc'[r]],
           pc'[r] = "success" => \/ wire[r] = "applied"
                                 \/ cmd[r].op = "status"
                                 \/ cmd[r].op \in {"queue configure", "set-percent"} /\ cmd[r].dryRun
                                 \/ cmd[r].op = "set-percent" /\ cmd[r].to \in held[r],
           pc'[r] = "rejected" => wire[r] # "applied"
    PROVE  Atomic!End(r)
  <1> DEFINE verdict == [s \in Runs |-> VerdictOf(pc[s])]
             taken   == [s \in Runs |-> wire[s] = "applied"]
  <1>1. VerdictOf(pc[r]) = "open" /\ VerdictOf(pc'[r]) = pc'[r]
    BY DEF VerdictOf, Open, Reading, Verdicts
  <1>2. \A s \in Runs \ {r} : VerdictOf(pc'[s]) = VerdictOf(pc[s])
    BY DEF IInv, TypeOK
  <1>3. verdict' = [s \in Runs |-> VerdictOf(pc'[s])]
    OBVIOUS
  <1>4. verdict' = [verdict EXCEPT ![r] = pc'[r]]
    BY <1>1, <1>2, <1>3
  <1>5. taken' = taken /\ (taken[r] <=> wire[r] = "applied")
    OBVIOUS
  <1>6. Atomic!Watch
    BY WatchMaps DEF IInv
  <1>7. verdict[r] = "open"
    BY <1>1
  <1>8. pc'[r] = "success" => Atomic!Deserved(r)
    BY <1>5 DEF Atomic!Deserved
  <1>9. pc'[r] = "rejected" => ~taken[r]
    BY <1>5
  <1>10. pc'[r] \in {"success", "rejected", "unclear"}
    BY DEF Verdicts
  <1> HIDE DEF verdict, taken
  <1>11. \E v \in {"success", "rejected", "unclear"} :
           /\ v = "success" => Atomic!Deserved(r)
           /\ v = "rejected" => ~taken[r]
           /\ verdict' = [verdict EXCEPT ![r] = v]
    BY <1>4, <1>8, <1>9, <1>10
  <1> USE DEF verdict, taken
  <1> QED  BY <1>5, <1>6, <1>7, <1>11, SameServer DEF Atomic!End, Atomic!server, server

LEMMA AcceptMaps ==
    ASSUME IInv, IInv', NEW r \in Runs, Accept(r)
    PROVE  Atomic!Effect(r)
  <1>1. /\ wire[r] = "sent" /\ Perform(cmd[r]) /\ wire' = [wire EXCEPT ![r] = "applied"]
        /\ Observe /\ UNCHANGED <<cmd, pc>>
    BY DEF Accept
  <1>2. /\ pc[r] \in {"waiting", "unclear"} /\ ~cmd[r].dryRun /\ ~RejectsLocally(cmd[r])
    BY <1>1 DEF IInv, Reliance, Sequencing
  <1>3. VerdictOf(pc[r]) \in {"open", "unclear"}
    BY <1>2 DEF VerdictOf, Open, Reading
  <1>4. Atomic!Authorised(cmd[r])
    <2>1. cmd[r].op = "set-phase" /\ cmd[r].target = "cutover_concurrency_groups"
            => cmd[r].acknowledged
      BY <1>2 DEF RejectsLocally
    <2>2. cmd[r].op = "set-percent" => cmd[r].to \in Atomic!Percents
      BY <1>2, SameServer DEF RejectsLocally
    <2> QED  BY <1>2, <2>1, <2>2 DEF Atomic!Authorised
  <1>5. [s \in Runs |-> wire[s] = "applied"]'
          = [[s \in Runs |-> wire[s] = "applied"] EXCEPT ![r] = TRUE]
    BY <1>1 DEF IInv, TypeOK
  <1>6. [s \in Runs |-> VerdictOf(pc[s])]' = [s \in Runs |-> VerdictOf(pc[s])]
    BY <1>1
  <1>7. Atomic!Watch
    BY <1>1, WatchMaps DEF IInv
  <1>8. Atomic!Perform(cmd[r])
    BY <1>1, SamePerform
  <1>9. ~[s \in Runs |-> wire[s] = "applied"][r]
    BY <1>1
  <1>10. [s \in Runs |-> VerdictOf(pc[s])][r] \in {"open", "unclear"}
    BY <1>3
  <1> QED  BY <1>1, <1>4, <1>5, <1>6, <1>7, <1>8, <1>9, <1>10 DEF Atomic!Effect

LEMMA LaunchMaps ==
    ASSUME IInv, IInv', NEW r \in Runs, Launch(r)
    PROVE  Atomic!Begin(r)
  <1> DEFINE verdict == [s \in Runs |-> VerdictOf(pc[s])]
  <1>1. pc'[r] = "rejected" \/ pc'[r] \in Open
    <2>1. cmd[r] \in AllCommands
      BY CommandsAssumption DEF IInv, TypeOK
    <2> QED  BY <2>1, FirstStepFits DEF Launch, Goto, IInv, TypeOK, Open
  <1>2. VerdictOf(pc[r]) = "idle" /\ VerdictOf(pc'[r]) \in {"open", "rejected"}
    BY <1>1 DEF Launch, VerdictOf, Open, Reading
  <1>3. \A s \in Runs \ {r} : VerdictOf(pc'[s]) = VerdictOf(pc[s])
    BY DEF Launch, Goto, IInv, TypeOK
  <1>4. verdict' = [verdict EXCEPT ![r] = VerdictOf(pc'[r])]
    <2>1. verdict' = [s \in Runs |-> VerdictOf(pc'[s])]
      OBVIOUS
    <2> QED  BY <1>3, <2>1
  <1>5. verdict' \in {[verdict EXCEPT ![r] = v] : v \in {"open", "rejected"}}
    BY <1>2, <1>4
  <1>6. verdict[r] = "idle"
    BY <1>2
  <1>7. Atomic!Watch
    BY WatchMaps DEF IInv, Launch
  <1>8. [s \in Runs |-> wire[s] = "applied"]' = [s \in Runs |-> wire[s] = "applied"]
    BY DEF Launch
  <1> QED  BY <1>5, <1>6, <1>7, <1>8 DEF Launch, Atomic!Begin, Atomic!server, server

(* Steps inside a command. *)
LEMMA CommandMaps ==
    ASSUME IInv, IInv', NEW r \in Runs, Command(r)
    PROVE  Atomic!Inside \/ Atomic!End(r)
  <1>1. /\ UNCHANGED <<server, cmd>> /\ Observe
        /\ pc' = [pc EXCEPT ![r] = pc'[r]] /\ pc[r] \in Open /\ pc'[r] \in PCs
        /\ pc'[r] # "idle"
    BY DEF Command, RequireQueuePreparation, GetQueueMigration, ResolveCluster,
           RequireClusterQueue, GetMigration, Send, Receive, GiveUp, Goto, IInv, TypeOK, Open,
           Reading
  <1>2. \A s \in Runs \ {r} : pc'[s] = pc[s]
    BY <1>1 DEF IInv, TypeOK
  <1>3. CASE pc'[r] \in Open
    <2>1. \A s \in Runs : wire'[s] = "applied" <=> wire[s] = "applied"
      <3>1. CASE Send(r)
        <4>1. wire[r] = "unsent" /\ wire' = [wire EXCEPT ![r] = "sent"]
          BY <3>1 DEF Send, IInv, Reliance, Sequencing
        <4> QED  BY <4>1 DEF IInv, TypeOK
      <3>2. CASE UNCHANGED wire
        BY <3>2
      <3> QED  BY <3>1, <3>2 DEF Command, RequireQueuePreparation, GetQueueMigration,
                  ResolveCluster, RequireClusterQueue, GetMigration, Receive, GiveUp
    <2> QED  BY <1>1, <1>2, <1>3, <2>1, InsideMaps
  <1>4. CASE pc'[r] \notin Open
    <2>1. pc'[r] \in Verdicts
      BY <1>1, <1>4 DEF PCs
    <2>2. UNCHANGED wire
      BY <1>4 DEF Command, RequireQueuePreparation, GetQueueMigration, ResolveCluster,
                  RequireClusterQueue, GetMigration, Send, Receive, GiveUp, Goto, IInv, TypeOK,
                  Open
    <2>3. ASSUME pc'[r] = "success"
          PROVE  \/ wire[r] = "applied"
                 \/ cmd[r].op = "status"
                 \/ cmd[r].op \in {"queue configure", "set-percent"} /\ cmd[r].dryRun
                 \/ cmd[r].op = "set-percent" /\ cmd[r].to \in held[r]
      <3>1. CASE ResolveCluster(r) \/ RequireClusterQueue(r)
        <4>1. NothingToSend(r)
          BY <2>3, <3>1 DEF ResolveCluster, RequireClusterQueue, Goto, IInv, TypeOK
        <4>2. ~RejectsLocally(cmd[r])
          BY <1>1, <3>1 DEF ResolveCluster, RequireClusterQueue, IInv, Reliance, Sequencing
        <4>3. cmd[r].op = "set-percent" /\ ~cmd[r].dryRun => cmd[r].to \in held[r]
          BY <4>1, <4>2, NothingToSendIsTrue
        <4> QED  BY <4>1, <4>3 DEF NothingToSend
      <3>2. CASE Receive(r)
        BY <2>3, <3>2 DEF Receive, Goto, IInv, TypeOK
      <3>3. CASE GetMigration(r)
        <4>1. cmd[r] \in AllCommands /\ "read status" \in StepsOf(cmd[r])
          <5>1. pc[r] = "read status" /\ Sequencing(r) /\ cmd[r] \in Commands
            BY <3>3 DEF GetMigration, IInv, TypeOK, Reliance
          <5> QED  BY <5>1, CommandsAssumption DEF Sequencing, Open, Reading
        <4> QED  BY <4>1, StepsFit
      <3>4. CASE RequireQueuePreparation(r)
        <4>1. pc'[r] = (IF phase # "prepare_queues" THEN "rejected"
                        ELSE IF cmd[r].op = "set-percent" THEN "read percent"
                        ELSE "resolve cluster")
          BY <3>4 DEF RequireQueuePreparation, Goto, IInv, TypeOK
        <4> QED  BY <2>3, <4>1
      <3>5. CASE GetQueueMigration(r)
        BY <2>3, <3>5 DEF GetQueueMigration, Goto, IInv, TypeOK
      <3>6. CASE Send(r) \/ GiveUp(r)
        BY <2>3, <3>6 DEF Send, GiveUp, Goto, IInv, TypeOK
      <3> QED  BY <3>1, <3>2, <3>3, <3>4, <3>5, <3>6 DEF Command
    <2>4. pc'[r] = "rejected" => wire[r] # "applied"
      BY <2>2 DEF IInv, Reliance, Sequencing
    <2> QED  BY <1>1, <1>4, <2>1, <2>2, <2>3, <2>4, EndMaps
  <1> QED  BY <1>3, <1>4

LEMMA RefuseMaps ==
    ASSUME IInv, IInv', NEW r \in Runs, Refuse(r)
    PROVE  Atomic!Inside
  <1>1. [s \in Runs |-> wire[s] = "applied"]' = [s \in Runs |-> wire[s] = "applied"]
    BY DEF Refuse, IInv, TypeOK
  <1>2. [s \in Runs |-> VerdictOf(pc[s])]' = [s \in Runs |-> VerdictOf(pc[s])]
    BY DEF Refuse
  <1>3. Atomic!Watch
    BY WatchMaps DEF IInv, Refuse
  <1> QED  BY <1>1, <1>2, <1>3 DEF Refuse, Atomic!Inside, Atomic!server, server

(***************************************************************************)
(* The multi-request commands implement the atomic ones, for any number of *)
(* runs: every step is an abstract Begin, Effect, End or Inside step.      *)
(***************************************************************************)
THEOREM Refinement == Spec => ImplementsAtomicCommands
  <1>1. IInv /\ IInv' /\ [Next]_vars => [Atomic!AtomicNext]_(Atomic!atomicVars)
    <2> SUFFICES ASSUME IInv, IInv', [Next]_vars
                 PROVE  Atomic!AtomicNext \/ UNCHANGED Atomic!atomicVars
      OBVIOUS
    <2>1. ASSUME NEW r \in Runs, Launch(r) \/ Command(r) \/ Accept(r) \/ Refuse(r)
          PROVE  Atomic!AtomicNext
      BY <2>1, LaunchMaps, CommandMaps, AcceptMaps, RefuseMaps DEF Atomic!AtomicNext
    <2>2. CASE UNCHANGED vars
      BY <2>2 DEF vars, run, server, Atomic!atomicVars, Atomic!server
    <2> QED  BY <2>1, <2>2 DEF Next
  <1> QED  BY <1>1, InitMaps, Invariance, PTL DEF Spec, ImplementsAtomicCommands, Atomic!Spec

============================================================================
