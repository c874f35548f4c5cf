---------------------------- MODULE GroupCutover ----------------------------
(***************************************************************************)
(* The cutover of one concurrency group, requested, previewed and          *)
(* inspected by concurrent runs of the CLI.  A cutover is not reversible   *)
(* once the group is clustered; the service decides whether it may start,  *)
(* and the dry run decides with a copy of its rule on a state it read.     *)
(* Replies get lost, operators run the command again, requests arrive      *)
(* late, and an organization renamed under a run makes its groups          *)
(* look absent.                                                            *)
(***************************************************************************)
EXTENDS Integers, FiniteSets

CONSTANTS
    Runs,           \* CLI processes
    Clusters,
    Destination     \* the fixed destination of the organization's migration

ASSUME CutoverAssumption ==
    /\ IsFiniteSet(Runs)
    /\ Destination \in Clusters

VARIABLES
    group,      \* the group's migration in the service
    committed,  \* whether the organization's phase allows cutovers
    quiet,      \* whether no queue of the group blocks a cutover
    starts,     \* cutovers that were started (history)
    cmd,        \* what each run was asked for
    pc,         \* where it is
    stale,      \* whether its organization slug went out of use (and it does not refresh it)
    wire,       \* its cutover request
    reply,      \* the answer to it: the group's state, a blocked cutover, or another error
    could       \* whether a cutover could start when the run read the group (history)

service == <<group, committed, quiet, starts>>
vars    == <<service, cmd, pc, stale, wire, reply, could>>

States   == {"unclustered", "forward_draining", "forward_reconciling", "clustered"}
NoGroup  == [state |-> "none", destination |-> Destination]
Groups   == {NoGroup} \cup [state: States, destination: Clusters]
Open     == {"read migration", "resolve cluster", "read group", "list clusters", "send", "waiting"}
Verdicts == {"started", "blocked", "proposed", "shown", "absent", "failed", "unclear"}
Replies  == {"none", "forward_draining", "blocked", "error"}

TypeOK ==
    /\ group \in Groups
    /\ committed \in BOOLEAN /\ quiet \in BOOLEAN
    /\ starts \in 0 .. Cardinality(Runs)
    /\ cmd \in [Runs -> {"cutover", "dry run", "status"}]
    /\ pc \in [Runs -> {"idle"} \cup Open \cup Verdicts]
    /\ stale \in [Runs -> BOOLEAN]
    /\ wire \in [Runs -> {"unsent", "sent", "applied", "refused"}]
    /\ reply \in [Runs -> Replies]
    /\ could \in [Runs -> BOOLEAN]

Init ==
    /\ group \in Groups
    /\ committed \in BOOLEAN /\ quiet \in BOOLEAN
    /\ group # NoGroup => committed
    /\ starts = 0
    /\ cmd \in [Runs -> {"cutover", "dry run", "status"}]
    /\ pc = [r \in Runs |-> "idle"]
    /\ stale = [r \in Runs |-> FALSE]
    /\ wire = [r \in Runs |-> "unsent"]
    /\ reply = [r \in Runs |-> "none"]
    /\ could = [r \in Runs |-> FALSE]

Goto(r, label) == pc' = [pc EXCEPT ![r] = label]

----------------------------------------------------------------------------
(* The service: which groups may start a cutover, and what happens to it then. *)
CanStart ==
    \/ group = NoGroup
    \/ group.state = "unclustered" /\ group.destination = Destination

(* How a cutover goes on; it may be cancelled before routing switches. *)
Successors == [ forward_draining    |-> {"forward_reconciling", "unclustered"},
                forward_reconciling |-> {"clustered"} ]

Progress ==
    /\ group.state \in DOMAIN Successors
    /\ \E s \in Successors[group.state] : group' = [group EXCEPT !.state = s]
    /\ UNCHANGED <<committed, quiet, starts, cmd, pc, stale, wire, reply, could>>

Commit ==
    /\ committed' = TRUE
    /\ UNCHANGED <<group, quiet, starts, cmd, pc, stale, wire, reply, could>>

JobsChange ==
    /\ quiet' \in BOOLEAN
    /\ UNCHANGED <<group, committed, starts, cmd, pc, stale, wire, reply, could>>

(* The organization is renamed: runs that discovered its slug themselves keep the old one. *)
Rename ==
    /\ stale' \in [Runs -> BOOLEAN]
    /\ \A r \in Runs : /\ stale[r] => stale'[r]
                       /\ stale'[r] # stale[r] => pc[r] \in Open
    /\ UNCHANGED <<service, cmd, pc, wire, reply, could>>

----------------------------------------------------------------------------
Launch(r) ==
    /\ pc[r] = "idle"
    /\ Goto(r, IF cmd[r] = "status" THEN "read group" ELSE "read migration")
    /\ UNCHANGED <<service, cmd, stale, wire, reply, could>>

GetMigration(r) ==
    /\ pc[r] = "read migration"
    /\ Goto(r, IF stale[r] THEN "failed" ELSE "resolve cluster")
    /\ UNCHANGED <<service, cmd, stale, wire, reply, could>>

(* Slip: a group that has a migration is looked at first, as for the dry run. *)
ResolveClusterOfNewGroup(r) ==
    /\ pc[r] = "resolve cluster"
    /\ Goto(r, IF stale[r] THEN "failed"
               ELSE IF cmd[r] = "dry run" \/ group # NoGroup THEN "read group" ELSE "send")
    /\ UNCHANGED <<service, cmd, stale, wire, reply, could>>

ResolveCluster(r) ==
    /\ pc[r] = "resolve cluster"
    /\ Goto(r, IF stale[r] THEN "failed"
               ELSE IF cmd[r] = "dry run" THEN "read group" ELSE "send")
    /\ UNCHANGED <<service, cmd, stale, wire, reply, could>>

(* Slip: an unclustered group may start whatever its migration's destination is. *)
MigrationBlockerOfState(g) == g.state \notin {"none", "unclustered"}

(* concurrencyGroupMigrationBlockerFor: whether it names a reason. *)
MigrationBlocker(g) ==
    CASE g = NoGroup               -> FALSE
      [] g.state = "unclustered"   -> g.destination # Destination
      [] OTHER                     -> TRUE

(* Slip: a 404 is not told from a group, whose state is then read from nothing. *)
GetGroupUnguarded(r) ==
    /\ pc[r] = "read group" /\ cmd[r] = "dry run"
    /\ Goto(r, IF stale[r] \/ group = NoGroup THEN "panic"
               ELSE IF MigrationBlocker(group) THEN "blocked" ELSE "proposed")
    /\ could' = [could EXCEPT ![r] = CanStart]
    /\ UNCHANGED <<service, cmd, stale, wire, reply>>

(* The group as a run finds it: a 404 counts as a group that was never cut over. *)
Found(r) == IF stale[r] THEN NoGroup ELSE group

(* The dry run decides with its copy of the rule. *)
GetGroup(r) ==
    /\ pc[r] = "read group" /\ cmd[r] = "dry run"
    /\ Goto(r, IF MigrationBlocker(Found(r)) THEN "blocked" ELSE "proposed")
    /\ could' = [could EXCEPT ![r] = CanStart]
    /\ UNCHANGED <<service, cmd, stale, wire, reply>>

(* `status` of one group; as JSON it is printed as it was read, without the cluster's name. *)
ShowGroup(r) ==
    /\ pc[r] = "read group" /\ cmd[r] = "status"
    /\ \/ Found(r) = NoGroup /\ Goto(r, "absent")
       \/ Found(r) # NoGroup /\ \E next \in {"shown", "list clusters"} : Goto(r, next)
    /\ UNCHANGED <<service, cmd, stale, wire, reply, could>>

(* concurrencyGroupClusterNames *)
ListClusters(r) ==
    /\ pc[r] = "list clusters"
    /\ Goto(r, IF stale[r] THEN "failed" ELSE "shown")
    /\ UNCHANGED <<service, cmd, stale, wire, reply, could>>

Send(r) ==
    /\ pc[r] = "send"
    /\ Goto(r, "waiting")
    /\ wire' = [wire EXCEPT ![r] = "sent"]
    /\ UNCHANGED <<service, cmd, stale, reply, could>>

(* The service takes the request, which may be late, or refuses it without changes. *)
Accept(r) ==
    /\ wire[r] = "sent" /\ ~stale[r]
    /\ committed /\ quiet /\ CanStart
    /\ group' = [state |-> "forward_draining", destination |-> Destination]
    /\ starts' = starts + 1
    /\ wire' = [wire EXCEPT ![r] = "applied"]
    /\ reply' = [reply EXCEPT ![r] = "forward_draining"]
    /\ UNCHANGED <<committed, quiet, cmd, pc, stale, could>>

Refuse(r) ==
    /\ wire[r] = "sent"
    /\ wire' = [wire EXCEPT ![r] = "refused"]
    /\ reply' \in { [reply EXCEPT ![r] = a] :
                      a \in IF stale[r] THEN {"error"} ELSE {"blocked", "error"} }
    /\ UNCHANGED <<service, cmd, pc, stale, could>>

(* Slip: a cutover already in progress is taken for the one that was asked for. *)
ReceiveInProgressAsStarted(r) ==
    /\ pc[r] = "waiting" /\ wire[r] \in {"applied", "refused"}
    /\ Goto(r, IF reply[r] = "forward_draining" \/ (reply[r] = "blocked" /\ ~CanStart)
               THEN "started"
               ELSE IF reply[r] = "blocked" THEN "blocked" ELSE "failed")
    /\ UNCHANGED <<service, cmd, stale, wire, reply, could>>

(* A 409 is a blocked cutover if its body says so; other errors are reported as such. *)
Receive(r) ==
    /\ pc[r] = "waiting" /\ wire[r] \in {"applied", "refused"}
    /\ Goto(r, CASE reply[r] = "forward_draining" -> "started"
                 [] reply[r] = "blocked"          -> "blocked"
                 [] reply[r] = "error"            -> "failed")
    /\ UNCHANGED <<service, cmd, stale, wire, reply, could>>

(* Slip: a lost reply is reported like a blocked cutover. *)
GiveUpAsBlocked(r) ==
    /\ pc[r] \in Open
    /\ Goto(r, IF pc[r] = "waiting" THEN "blocked" ELSE "failed")
    /\ UNCHANGED <<service, cmd, stale, wire, reply, could>>

(* Timeout, signal, lost connection, or a reply without the group's state. *)
GiveUp(r) ==
    /\ pc[r] \in Open
    /\ Goto(r, IF pc[r] = "waiting" THEN "unclear" ELSE "failed")
    /\ UNCHANGED <<service, cmd, stale, wire, reply, could>>

Step(r) == \/ Launch(r) \/ GetMigration(r) \/ ResolveCluster(r)
           \/ GetGroup(r) \/ ShowGroup(r) \/ ListClusters(r)
           \/ Send(r) \/ Accept(r) \/ Refuse(r) \/ Receive(r) \/ GiveUp(r)

Next == Progress \/ Commit \/ JobsChange \/ Rename \/ \E r \in Runs : Step(r)

Spec == Init /\ [][Next]_vars

----------------------------------------------------------------------------
(***************************************************************************)
(* "Cutover rejected without changes": a run that reports a blocked        *)
(* cutover or another failure has no request that took or will take        *)
(* effect, however late it arrives; and neither has a preview or a status, *)
(* which take the same first steps.                                        *)
(***************************************************************************)
RejectedWithoutChanges ==
    \A r \in Runs : cmd[r] # "cutover" \/ pc[r] \in {"blocked", "failed"}
        => wire[r] \in {"unsent", "refused"}

(***************************************************************************)
(* "Cutover to the ... cluster started": every report stands for a start   *)
(* of its own, also when operators ask again after a lost reply or at the  *)
(* same time; nobody else's cutover is reported as one's own.              *)
(***************************************************************************)
OneReportPerStart == Cardinality({r \in Runs : pc[r] = "started"}) <= starts

(***************************************************************************)
(* The dry run mirrors the service's rule: it proposes the cutover if and  *)
(* only if the group's migration allowed one at that moment, unless the    *)
(* organization was renamed under it, when the group only looks absent.    *)
(***************************************************************************)
DryRunAgrees ==
    \A r \in Runs : cmd[r] = "dry run" /\ pc[r] \in {"proposed", "blocked"} /\ ~stale[r]
        => (pc[r] = "proposed" <=> could[r])
=============================================================================
