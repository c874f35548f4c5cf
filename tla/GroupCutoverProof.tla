-------------------------- MODULE GroupCutoverProof --------------------------
(***************************************************************************)
(* Proofs about GroupCutover and RepeatedCutover, for any number of runs   *)
(* and clusters, with operators who run the command again at any time.     *)
(* None of the properties is inductive by itself: what a run reports is    *)
(* true because of where its request is, and that is bound to where the    *)
(* run is by Honest below.                                                 *)
(***************************************************************************)
EXTENDS RepeatedCutover, FiniteSetTheorems, TLAPS

Applied == {r \in Runs : wire[r] = "applied"}

(* How far a run is and what became of its request go together. *)
Honest(r) ==
    /\ pc[r] \in {"read migration", "resolve cluster"} => cmd[r] # "status"
    /\ pc[r] = "send" => cmd[r] = "cutover"
    /\ wire[r] # "unsent"
         => /\ cmd[r] = "cutover"
            /\ pc[r] \in {"waiting", "started", "blocked", "failed", "unclear"}
    /\ wire[r] = "sent" => pc[r] \in {"waiting", "unclear"}
    /\ wire[r] = "applied" <=> reply[r] = "forward_draining"
    /\ wire[r] = "refused" => reply[r] \in {"blocked", "error"}
    /\ pc[r] = "started" => wire[r] = "applied"
    /\ pc[r] \in {"blocked", "failed"} => wire[r] \in {"unsent", "refused"}

(* The dry run's answer is the service's rule, applied to the group it read. *)
Mirrors(r) ==
    cmd[r] = "dry run" /\ pc[r] \in {"proposed", "blocked"} /\ ~stale[r]
        => (pc[r] = "proposed" <=> could[r])

IInv ==
    /\ TypeOK
    /\ starts = Cardinality(Applied)
    /\ \A r \in Runs : Honest(r) /\ Mirrors(r)

----------------------------------------------------------------------------
(* The rule of the dry run and the service's are the same, for every group. *)
LEMMA BlockerIsTheRule ==
    ASSUME group \in Groups
    PROVE  MigrationBlocker(group) <=> ~CanStart
  <1>1. CASE group = NoGroup
    <2>1. group.state = "none"
      BY <1>1 DEF NoGroup
    <2> QED  BY <1>1, <2>1 DEF MigrationBlocker, CanStart
  <1>2. CASE group # NoGroup /\ group.state = "unclustered"
    BY <1>2 DEF MigrationBlocker, CanStart
  <1>3. CASE group # NoGroup /\ group.state # "unclustered"
    BY <1>3 DEF MigrationBlocker, CanStart
  <1> QED  BY <1>1, <1>2, <1>3

LEMMA SetsOfRunsAreFinite ==
    ASSUME NEW S \in SUBSET Runs
    PROVE  IsFiniteSet(S) /\ Cardinality(S) \in 0 .. Cardinality(Runs)
  BY CutoverAssumption, FS_Subset, FS_CardinalityType

(* What a step has to be examined for when it is one run's and starts nothing. *)
LEMMA StepOfOne ==
    ASSUME IInv, NEW r \in Runs,
           group' \in Groups, committed' \in BOOLEAN, quiet' \in BOOLEAN,
           UNCHANGED <<starts, cmd, Applied>>,
           pc' \in [Runs -> {"idle"} \cup Open \cup Verdicts],
           stale' \in [Runs -> BOOLEAN],
           wire' \in [Runs -> {"unsent", "sent", "applied", "refused"}],
           reply' \in [Runs -> Replies],
           could' \in [Runs -> BOOLEAN],
           \A s \in Runs \ {r} : /\ pc'[s] = pc[s] /\ stale'[s] = stale[s]
                                 /\ wire'[s] = wire[s] /\ reply'[s] = reply[s]
                                 /\ could'[s] = could[s],
           Honest(r)', Mirrors(r)'
    PROVE  IInv'
  <1>1. ASSUME NEW s \in Runs \ {r}
        PROVE  Honest(s)' /\ Mirrors(s)'
    <2>1. Honest(s) /\ Mirrors(s) /\ UNCHANGED <<pc[s], stale[s], wire[s], reply[s], could[s], cmd[s]>>
      BY DEF IInv
    <2>2. Honest(s)'
      BY <2>1 DEF Honest
    <2> QED  BY <2>1, <2>2 DEF Mirrors
  <1>2. TypeOK' /\ (starts = Cardinality(Applied))'
    BY DEF IInv, TypeOK
  <1> QED  BY <1>1, <1>2 DEF IInv

LEMMA InitEstablishes == Init => IInv
  <1> SUFFICES ASSUME Init PROVE IInv
    OBVIOUS
  <1>1. starts = Cardinality(Applied)
    <2>1. Applied = {}
      BY DEF Init, Applied
    <2> QED  BY <2>1, FS_EmptySet DEF Init
  <1>2. TypeOK
    <2>1. 0 \in 0 .. Cardinality(Runs)
      BY CutoverAssumption, FS_CardinalityType
    <2> QED  BY <2>1 DEF Init, TypeOK, Replies
  <1>3. \A r \in Runs : Honest(r) /\ Mirrors(r)
    BY DEF Init, Honest, Mirrors
  <1> QED  BY <1>1, <1>2, <1>3 DEF IInv

(* What the service and the organization do by themselves touches no run's honesty. *)
LEMMA SurroundingsPreserve ==
    ASSUME IInv, Progress \/ Commit \/ JobsChange \/ Rename
    PROVE  IInv'
  <1>1. UNCHANGED <<starts, cmd, pc, wire, reply, could>>
    BY DEF Progress, Commit, JobsChange, Rename, service
  <1>2. UNCHANGED Applied
    BY <1>1 DEF Applied
  <1>3. group' \in Groups
    <2>1. CASE Progress
      <3>1. group.state \in {"forward_draining", "forward_reconciling"}
        BY <2>1 DEF Progress, Successors
      <3>2. group \in [state: States, destination: Clusters]
        <4>1. group \in Groups /\ NoGroup.state = "none"
          BY DEF IInv, TypeOK, NoGroup
        <4> QED  BY <3>1, <4>1 DEF Groups
      <3>3. PICK s \in Successors[group.state] : group' = [group EXCEPT !.state = s]
        BY <2>1 DEF Progress
      <3>4. s \in States
        BY <3>1, <3>3 DEF Successors, States
      <3> QED  BY <3>2, <3>3, <3>4 DEF Groups
    <2>2. CASE Commit \/ JobsChange \/ Rename
      BY <2>2 DEF Commit, JobsChange, Rename, service, IInv, TypeOK
    <2> QED  BY <2>1, <2>2
  <1>4. /\ committed' \in BOOLEAN /\ quiet' \in BOOLEAN
        /\ stale' \in [Runs -> BOOLEAN]
        /\ \A r \in Runs : (stale[r] => stale'[r]) /\ (stale'[r] # stale[r] => pc[r] \in Open)
    BY DEF Progress, Commit, JobsChange, Rename, service, IInv, TypeOK
  <1>5. \A r \in Runs : Honest(r)'
    BY <1>1 DEF IInv, Honest
  <1>6. \A r \in Runs : Mirrors(r)'
    BY <1>1, <1>4 DEF IInv, TypeOK, Mirrors, Open
  <1>7. TypeOK'
    BY <1>1, <1>3, <1>4 DEF IInv, TypeOK
  <1> QED  BY <1>1, <1>2, <1>5, <1>6, <1>7 DEF IInv

----------------------------------------------------------------------------
(* What is known of run r before a step of its own. *)
LEMMA OwnStep ==
    ASSUME IInv, NEW r \in Runs
    PROVE  /\ Honest(r) /\ Mirrors(r)
           /\ pc[r] \in {"idle"} \cup Open \cup Verdicts
           /\ wire[r] \in {"unsent", "sent", "applied", "refused"}
           /\ reply[r] \in Replies
           /\ stale[r] \in BOOLEAN /\ could[r] \in BOOLEAN
           /\ cmd[r] \in {"cutover", "dry run", "status"}
  BY DEF IInv, TypeOK

(* The steps that only move a run on, and the reading of the group. *)
LEMMA ReadingPreserves ==
    ASSUME IInv, NEW r \in Runs,
           \/ Launch(r) \/ GetMigration(r) \/ ResolveCluster(r)
           \/ GetGroup(r) \/ ShowGroup(r) \/ ListClusters(r)
    PROVE  IInv'
  <1> USE DEF Launch, GetMigration, ResolveCluster, GetGroup, ShowGroup, ListClusters, Goto
  <1>1. /\ UNCHANGED <<service, cmd, stale, wire, reply>>
        /\ pc[r] \in {"idle", "read migration", "resolve cluster", "read group", "list clusters"}
        /\ \A s \in Runs \ {r} : pc'[s] = pc[s] /\ could'[s] = could[s]
    BY DEF IInv, TypeOK
  <1>2. wire[r] = "unsent"
    BY <1>1, OwnStep DEF Honest
  <1>3. could' \in [Runs -> BOOLEAN]
    <2>1. CanStart \in BOOLEAN
      BY DEF CanStart
    <2> QED  BY <2>1 DEF IInv, TypeOK
  <1>4. pc' \in [Runs -> {"idle"} \cup Open \cup Verdicts]
    <2>1. PICK l \in Open \cup Verdicts : pc' = [pc EXCEPT ![r] = l]
      BY DEF Open, Verdicts
    <2> QED  BY <2>1 DEF IInv, TypeOK
  <1>5. /\ pc'[r] \notin {"started", "waiting"}
        /\ pc'[r] = "send" => cmd[r] = "cutover"
        /\ pc'[r] \in {"read migration", "resolve cluster"} => cmd[r] # "status"
    <2>1. pc \in [Runs -> {"idle"} \cup Open \cup Verdicts]
      BY DEF IInv, TypeOK
    <2>2. cmd[r] \in {"cutover", "dry run", "status"}
      BY OwnStep
    <2>3. pc[r] \in {"read migration", "resolve cluster"} => cmd[r] # "status"
      BY OwnStep DEF Honest
    <2> QED  BY <2>1, <2>2, <2>3
  <1>6. Honest(r)'
    BY <1>1, <1>2, <1>5, OwnStep DEF Honest, service
  <1>7. Mirrors(r)'
    <2>1. CASE GetGroup(r)
      <3>1. group \in Groups
        BY DEF IInv, TypeOK
      <3>2. could'[r] = CanStart
        BY <2>1 DEF IInv, TypeOK
      <3>3. ~stale[r] /\ cmd[r] = "dry run"
               => pc'[r] = IF MigrationBlocker(group) THEN "blocked" ELSE "proposed"
        BY <2>1 DEF Found, IInv, TypeOK
      <3>4. cmd'[r] = cmd[r] /\ stale'[r] = stale[r]
        BY <1>1
      <3> QED  BY <3>1, <3>2, <3>3, <3>4, BlockerIsTheRule DEF Mirrors
    <2>2. CASE \/ Launch(r) \/ GetMigration(r) \/ ResolveCluster(r)
               \/ ShowGroup(r) \/ ListClusters(r)
      <3>1. pc'[r] \notin {"proposed", "blocked"}
        BY <2>2 DEF IInv, TypeOK
      <3> QED  BY <3>1 DEF Mirrors
    <2> QED  BY <2>1, <2>2
  <1>8. UNCHANGED Applied
    BY <1>1 DEF Applied
  <1> QED  BY <1>1, <1>3, <1>4, <1>6, <1>7, <1>8, StepOfOne DEF IInv, TypeOK, service

LEMMA SendPreserves ==
    ASSUME IInv, NEW r \in Runs, Send(r)
    PROVE  IInv'
  <1>1. /\ pc[r] = "send" /\ pc'[r] = "waiting" /\ wire'[r] = "sent"
        /\ UNCHANGED <<service, cmd, stale, reply, could>>
        /\ \A s \in Runs \ {r} : pc'[s] = pc[s] /\ wire'[s] = wire[s]
        /\ pc' \in [Runs -> {"idle"} \cup Open \cup Verdicts]
        /\ wire' \in [Runs -> {"unsent", "sent", "applied", "refused"}]
    BY DEF Send, Goto, IInv, TypeOK, Open
  <1>2. wire[r] = "unsent" /\ cmd[r] = "cutover" /\ reply[r] # "forward_draining"
    BY <1>1, OwnStep DEF Honest
  <1>3. UNCHANGED Applied
    BY <1>1, <1>2 DEF Applied
  <1>4. Honest(r)' /\ Mirrors(r)'
    BY <1>1, <1>2 DEF Honest, Mirrors
  <1> QED  BY <1>1, <1>3, <1>4, StepOfOne DEF IInv, TypeOK, service

(* The one step that starts a cutover: one more request is applied. *)
LEMMA AcceptPreserves ==
    ASSUME IInv, NEW r \in Runs, Accept(r)
    PROVE  IInv'
  <1>1. /\ wire[r] = "sent" /\ wire'[r] = "applied" /\ reply'[r] = "forward_draining"
        /\ starts' = starts + 1
        /\ UNCHANGED <<committed, quiet, cmd, pc, stale, could>>
        /\ \A s \in Runs \ {r} : wire'[s] = wire[s] /\ reply'[s] = reply[s]
        /\ wire' \in [Runs -> {"unsent", "sent", "applied", "refused"}]
        /\ reply' \in [Runs -> Replies]
    BY DEF Accept, IInv, TypeOK, Replies
  <1>2. Applied' = Applied \cup {r} /\ r \notin Applied
    BY <1>1 DEF Applied
  <1>3. Cardinality(Applied') = Cardinality(Applied) + 1
    <2>1. Applied \in SUBSET Runs
      BY DEF Applied
    <2> QED  BY <1>2, <2>1, SetsOfRunsAreFinite, FS_AddElement
  <1>4. starts' = Cardinality(Applied') /\ starts' \in 0 .. Cardinality(Runs)
    <2>1. Cardinality(Applied') \in 0 .. Cardinality(Runs)
      <3>1. Applied' \in SUBSET Runs
        BY DEF Applied
      <3> QED  BY <3>1, SetsOfRunsAreFinite
    <2> QED  BY <1>1, <1>3, <2>1 DEF IInv
  <1>5. group' \in Groups
    BY CutoverAssumption DEF Accept, Groups, States
  <1>6. TypeOK'
    BY <1>1, <1>4, <1>5 DEF IInv, TypeOK
  <1>7. \A s \in Runs : Honest(s)' /\ Mirrors(s)'
    <2>1. ASSUME NEW s \in Runs
          PROVE  Honest(s)' /\ Mirrors(s)'
      <3>1. Mirrors(s)' /\ Honest(s)
        BY <1>1 DEF IInv, Mirrors
      <3>2. CASE s = r
        BY <1>1, <3>1, <3>2 DEF Honest
      <3>3. CASE s # r
        BY <1>1, <3>1, <3>3 DEF Honest
      <3> QED  BY <3>1, <3>2, <3>3
    <2> QED  BY <2>1
  <1> QED  BY <1>4, <1>6, <1>7 DEF IInv

LEMMA RefusePreserves ==
    ASSUME IInv, NEW r \in Runs, Refuse(r)
    PROVE  IInv'
  <1>1. PICK a \in {"blocked", "error"} : reply' = [reply EXCEPT ![r] = a]
    BY DEF Refuse
  <1>2. /\ wire[r] = "sent" /\ wire'[r] = "refused" /\ reply'[r] = a
        /\ UNCHANGED <<service, cmd, pc, stale, could>>
        /\ \A s \in Runs \ {r} : wire'[s] = wire[s] /\ reply'[s] = reply[s]
        /\ wire' \in [Runs -> {"unsent", "sent", "applied", "refused"}]
        /\ reply' \in [Runs -> Replies]
    BY <1>1 DEF Refuse, IInv, TypeOK, Replies
  <1>3. UNCHANGED Applied
    BY <1>2 DEF Applied
  <1>4. Honest(r)' /\ Mirrors(r)'
    BY <1>1, <1>2, OwnStep DEF Honest, Mirrors
  <1> QED  BY <1>2, <1>3, <1>4, StepOfOne DEF IInv, TypeOK, service

(* A run ends with the verdict its request earned, or with none. *)
LEMMA EndingPreserves ==
    ASSUME IInv, NEW r \in Runs, Receive(r) \/ GiveUp(r)
    PROVE  IInv'
  <1> USE DEF Receive, GiveUp, Goto
  <1>1. /\ UNCHANGED <<service, cmd, stale, wire, reply, could>>
        /\ \A s \in Runs \ {r} : pc'[s] = pc[s]
    BY DEF IInv, TypeOK
  <1>2. UNCHANGED Applied
    BY <1>1 DEF Applied
  <1>3. /\ Honest(r)' /\ Mirrors(r)'
        /\ pc'[r] \in Verdicts
    <2>1. CASE Receive(r) /\ wire[r] = "applied"
      <3>1. pc'[r] = "started"
        <4>1. reply[r] = "forward_draining"
          BY <2>1, OwnStep DEF Honest
        <4>2. pc' = [pc EXCEPT ![r] = "started"]
          BY <2>1, <4>1
        <4> QED  BY <4>2 DEF IInv, TypeOK
      <3>2. cmd[r] = "cutover"
        BY <2>1, OwnStep DEF Honest
      <3> QED  BY <1>1, <2>1, <3>1, <3>2, OwnStep, ZenonT(60) DEF Honest, Mirrors, Verdicts
    <2>2. CASE Receive(r) /\ wire[r] = "refused"
      <3>1. reply[r] \in {"blocked", "error"} /\ cmd[r] = "cutover"
        BY <2>2, OwnStep DEF Honest
      <3>2. pc'[r] \in {"blocked", "failed"}
        <4>1. CASE reply[r] = "blocked"
          BY <2>2, <4>1 DEF IInv, TypeOK
        <4>2. CASE reply[r] = "error"
          BY <2>2, <4>2 DEF IInv, TypeOK
        <4> QED  BY <3>1, <4>1, <4>2
      <3> QED  BY <1>1, <2>2, <3>1, <3>2, OwnStep DEF Honest, Mirrors, Verdicts
    <2>3. CASE GiveUp(r) /\ pc[r] = "waiting"
      <3>1. pc'[r] = "unclear"
        BY <2>3 DEF IInv, TypeOK
      <3>2. Honest(r) /\ UNCHANGED <<cmd, wire, reply>>
        BY <1>1, OwnStep DEF service
      <3>3. Honest(r)'
        BY <2>3, <3>1, <3>2 DEF Honest
      <3> QED  BY <3>1, <3>3 DEF Mirrors, Verdicts
    <2>4. CASE GiveUp(r) /\ pc[r] # "waiting"
      <3>1. pc'[r] = "failed" /\ pc[r] \in Open \ {"waiting"}
        BY <2>4 DEF IInv, TypeOK
      <3> QED  BY <1>1, <3>1, OwnStep DEF Honest, Mirrors, Verdicts, Open
    <2> QED  BY <2>1, <2>2, <2>3, <2>4
  <1>4. pc' \in [Runs -> {"idle"} \cup Open \cup Verdicts]
    BY <1>3 DEF IInv, TypeOK
  <1> QED  BY <1>1, <1>2, <1>3, <1>4, StepOfOne DEF IInv, TypeOK, service

(* The new process has nothing on the wire; what its predecessor started is no longer counted. *)
LEMMA RepeatPreserves ==
    ASSUME IInv, NEW r \in Runs, Repeat(r)
    PROVE  IInv'
  <1>1. /\ pc'[r] = "idle" /\ wire'[r] = "unsent" /\ reply'[r] = "none"
        /\ starts' = starts - (IF wire[r] = "applied" THEN 1 ELSE 0)
        /\ UNCHANGED <<group, committed, quiet, cmd>>
        /\ \A s \in Runs \ {r} : /\ pc'[s] = pc[s] /\ wire'[s] = wire[s] /\ reply'[s] = reply[s]
                                 /\ stale'[s] = stale[s] /\ could'[s] = could[s]
    BY DEF Repeat, Goto, IInv, TypeOK
  <1>2. /\ pc' \in [Runs -> {"idle"} \cup Open \cup Verdicts]
        /\ wire' \in [Runs -> {"unsent", "sent", "applied", "refused"}]
        /\ reply' \in [Runs -> Replies]
        /\ stale' \in [Runs -> BOOLEAN] /\ could' \in [Runs -> BOOLEAN]
    BY DEF Repeat, Goto, IInv, TypeOK, Replies
  <1>3. Applied' = Applied \ {r}
    BY <1>1 DEF Applied
  <1>4. starts' = Cardinality(Applied') /\ starts' \in 0 .. Cardinality(Runs)
    <2>1. starts = Cardinality(Applied) /\ starts \in 0 .. Cardinality(Runs)
      BY DEF IInv, TypeOK
    <2>2. CASE wire[r] = "applied"
      <3>1. r \in Applied
        BY <2>2 DEF Applied
      <3>2. Applied \in SUBSET Runs /\ Applied' \in SUBSET Runs
        BY DEF Applied
      <3>3. Cardinality(Applied') = Cardinality(Applied) - 1
        BY <1>3, <3>1, <3>2, SetsOfRunsAreFinite, FS_RemoveElement
      <3>4. Cardinality(Applied') \in 0 .. Cardinality(Runs)
        BY <3>2, SetsOfRunsAreFinite
      <3> QED  BY <1>1, <2>1, <2>2, <3>3, <3>4
    <2>3. CASE wire[r] # "applied"
      <3>1. Applied' = Applied
        BY <1>3, <2>3 DEF Applied
      <3> QED  BY <1>1, <2>1, <2>3, <3>1
    <2> QED  BY <2>2, <2>3
  <1>5. TypeOK'
    BY <1>1, <1>2, <1>4 DEF IInv, TypeOK
  <1>6. ASSUME NEW s \in Runs
        PROVE  Honest(s)' /\ Mirrors(s)'
    <2>1. Honest(s) /\ Mirrors(s)
      BY DEF IInv
    <2>2. CASE s = r
      BY <1>1, <2>2 DEF Honest, Mirrors
    <2>3. CASE s # r
      BY <1>1, <2>1, <2>3 DEF Honest, Mirrors
    <2> QED  BY <2>2, <2>3
  <1> QED  BY <1>4, <1>5, <1>6 DEF IInv

----------------------------------------------------------------------------
(* The invariant is inductive for the runs and for the operators who repeat them. *)
THEOREM Inductive == RepeatSpec => []IInv
  <1>1. IInv /\ [RepeatNext]_vars => IInv'
    <2> SUFFICES ASSUME IInv, [RepeatNext]_vars PROVE IInv'
      OBVIOUS
    <2>1. CASE Progress \/ Commit \/ JobsChange \/ Rename
      BY <2>1, SurroundingsPreserve
    <2>2. ASSUME NEW r \in Runs, Step(r) PROVE IInv'
      BY <2>2, ReadingPreserves, SendPreserves, AcceptPreserves, RefusePreserves, EndingPreserves
         DEF Step
    <2>3. ASSUME NEW r \in Runs, Repeat(r) PROVE IInv'
      BY <2>3, RepeatPreserves
    <2>4. CASE UNCHANGED vars
      <3>1. UNCHANGED <<group, committed, quiet, starts, cmd, pc, stale, wire, reply, could>>
        BY <2>4 DEF vars, service
      <3>2. UNCHANGED Applied
        BY <3>1 DEF Applied
      <3>3. TypeOK' /\ \A r \in Runs : Honest(r)' /\ Mirrors(r)'
        BY <3>1 DEF IInv, TypeOK, Honest, Mirrors
      <3> QED  BY <3>1, <3>2, <3>3 DEF IInv
    <2> QED  BY <2>1, <2>2, <2>3, <2>4 DEF RepeatNext, Next
  <1> QED  BY <1>1, InitEstablishes, PTL DEF RepeatSpec

(* Every state of the model is one the program and the service can be in. *)
THEOREM TypeCorrect == RepeatSpec => []TypeOK
  <1>1. IInv => TypeOK
    BY DEF IInv
  <1> QED  BY <1>1, Inductive, PTL

(***************************************************************************)
(* "Cutover rejected without changes" is true for ever: a run that reports *)
(* a blocked cutover or a failure, a preview and a status have no request  *)
(* that took or will take effect.                                          *)
(***************************************************************************)
THEOREM RejectionsChangeNothing == RepeatSpec => []RejectedWithoutChanges
  <1>1. IInv => RejectedWithoutChanges
    <2> SUFFICES ASSUME IInv, NEW r \in Runs, cmd[r] # "cutover" \/ pc[r] \in {"blocked", "failed"}
                 PROVE  wire[r] \in {"unsent", "refused"}
      BY DEF RejectedWithoutChanges
    <2> QED  BY OwnStep DEF Honest
  <1> QED  BY <1>1, Inductive, PTL

(***************************************************************************)
(* Every "cutover started" stands for a start of its own, however many     *)
(* operators ask for the same group, at the same time or again.            *)
(***************************************************************************)
THEOREM ReportsAreStarts == RepeatSpec => []OneReportPerStart
  <1>1. IInv => OneReportPerStart
    <2> SUFFICES ASSUME IInv
                 PROVE  Cardinality({r \in Runs : pc[r] = "started"}) <= starts
      BY DEF OneReportPerStart
    <2>1. {r \in Runs : pc[r] = "started"} \subseteq Applied
      BY OwnStep DEF Honest, Applied
    <2>2. IsFiniteSet(Applied)
      <3>1. Applied \in SUBSET Runs
        BY DEF Applied
      <3> QED  BY <3>1, SetsOfRunsAreFinite
    <2>3. Cardinality({r \in Runs : pc[r] = "started"}) <= Cardinality(Applied)
      BY <2>1, <2>2, FS_Subset
    <2> QED  BY <2>3 DEF IInv
  <1> QED  BY <1>1, Inductive, PTL

(***************************************************************************)
(* The dry run proposes a cutover if and only if the service would have    *)
(* taken the group at the moment of the read.                              *)
(***************************************************************************)
THEOREM PreviewIsTheRule == RepeatSpec => []DryRunAgrees
  <1>1. IInv => DryRunAgrees
    BY DEF IInv, Mirrors, DryRunAgrees
  <1> QED  BY <1>1, Inductive, PTL
=============================================================================
