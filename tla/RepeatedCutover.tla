-------------------------- MODULE RepeatedCutover --------------------------
(***************************************************************************)
(* Operators who run the cutover again: after a rejection, once its        *)
(* blockers are resolved, after an unclear outcome, and after a cutover    *)
(* that was cancelled.                                                     *)
(***************************************************************************)
EXTENDS GroupCutover

(* The same command line in a new process; a request still under way keeps its run. *)
Repeat(r) ==
    /\ cmd[r] = "cutover" /\ pc[r] \in Verdicts /\ wire[r] # "sent"
    /\ Goto(r, "idle")
    /\ stale' = [stale EXCEPT ![r] = FALSE]
    /\ wire' = [wire EXCEPT ![r] = "unsent"]
    /\ reply' = [reply EXCEPT ![r] = "none"]
    /\ could' = [could EXCEPT ![r] = FALSE]
    /\ starts' = starts - (IF wire[r] = "applied" THEN 1 ELSE 0)
    /\ UNCHANGED <<group, committed, quiet, cmd>>

RepeatNext == Next \/ \E r \in Runs : Repeat(r)

(* A process does not hang, and its requests do not fail every time. *)
RunFairness(r) ==
    /\ WF_vars(Repeat(r)) /\ WF_vars(Launch(r))
    /\ SF_vars(GetMigration(r)) /\ SF_vars(ResolveCluster(r)) /\ SF_vars(Send(r))
    /\ WF_vars(pc[r] = "waiting" /\ GiveUp(r))

(* The service does not refuse every time, nor is every cutover cancelled. *)
ServiceFairness ==
    /\ \A r \in Runs : SF_vars(Accept(r)) /\ WF_vars(Refuse(r))
    /\ SF_vars(Progress /\ group'.state = "forward_reconciling")
    /\ WF_vars(Progress /\ group'.state = "clustered")

RepeatSpec ==
    /\ Init /\ [][RepeatNext]_vars
    /\ \A r \in Runs : RunFairness(r)
    /\ ServiceFairness

(***************************************************************************)
(* "Rerun the command for any group that was rejected once its blockers    *)
(* are resolved": if the phase and the queues eventually stay in favour of *)
(* a cutover, and the organization is not renamed for ever, an operator    *)
(* who repeats the command gets a group of the right destination into the  *)
(* cluster, whatever became of the earlier requests and replies.           *)
(***************************************************************************)
RepetitionGetsThere ==
    /\ \E r \in Runs : cmd[r] = "cutover"
    /\ group.destination = Destination
    /\ <>[](committed /\ quiet)
    /\ <>[](\A r \in Runs : ~stale[r])
    => <>(group.state = "clustered")
=============================================================================
