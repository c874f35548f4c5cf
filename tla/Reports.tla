------------------------------ MODULE Reports ------------------------------
(***************************************************************************)
(* What becomes of an assessment by the service: `pipeline readiness`, the *)
(* dry run of `pipeline move`, and the 409 of a concurrency-group cutover  *)
(* are checked by the client, counted and printed in loops over the        *)
(* blockers and their reasons, and end in an exit status.  The service may *)
(* send statuses and reasons of the future, blockers without reasons or    *)
(* names, and the output may break off.                                    *)
(***************************************************************************)
EXTENDS Integers, Sequences

CONSTANTS
    Kinds,          \* of assessments, of "readiness", "move", "cutover"
    Statuses,       \* of readiness: the known ones and others
    Queues,         \* queue keys; NoName is that of a nameless queue
    Reasons,        \* why a queue blocks
    GroupReasons,   \* why a concurrency group blocks
    NoName,
    MaxBlockers,    \* bound: blocking queues in an answer
    MaxGroups,      \* bound: blocking groups in an answer
    MaxReasons      \* bound: reasons of one blocker

AGroup   == "a_concurrency_group"
OwnGroup == "the_group"    \* whose cutover is asked for
NoReason == "reason_unavailable"

ASSUME ReportsAssumption ==
    /\ Kinds \subseteq {"readiness", "move", "cutover"}
    /\ NoName \in Queues /\ Queues \cap {OwnGroup, AGroup} = {}
    /\ NoReason \notin Reasons \cup GroupReasons
    /\ MaxBlockers \in Nat /\ MaxGroups \in Nat /\ MaxReasons \in Nat

VARIABLES
    kind, json,
    answer,     \* the service's
    stage,      \* what is done next, or "ended"
    at, nth,    \* the blocker and the reason that a loop has come to
    count,      \* the number of conditions
    rows,       \* the blockers printed: queue or group, and reason
    steps,      \* the next steps
    verdict     \* the error, or "ok" for exit status 0

reportVars == <<kind, json, answer, stage, at, nth, count, rows, steps, verdict>>

KnownStatuses == {"blocked", "no_known_blockers"}

UpTo(S, n)      == UNION { [1 .. k -> S] : k \in 0 .. n }
Blockers(N, R)  == [name: N, reasons: UpTo(R, MaxReasons)]
QueueLists      == UpTo(Blockers(Queues, Reasons), MaxBlockers)
GroupLists      == UpTo(Blockers({AGroup}, GroupReasons), MaxGroups)

(* What may be wrong with the destination and the refresh times. *)
Fields == {"complete", "missing", "bad_refresh_time"}

Answers(k) ==
    IF k = "cutover"
    THEN [status: {"not_ready", ""}, queues: QueueLists, groups: {<<>>},
          migration: BOOLEAN, named: {TRUE}, fields: {"complete"}]
    ELSE [status: Statuses, queues: QueueLists, groups: GroupLists,
          migration: {FALSE}, named: BOOLEAN, fields: Fields]

(* The loops, each followed by the next. *)
Loops == {"count_groups", "count_queues", "queue_rows", "group_rows", "steps"}

ReportTypeOK ==
    /\ kind \in Kinds /\ json \in BOOLEAN /\ answer \in Answers(kind)
    /\ stage \in Loops \cup {"check", "status", "observations", "exit", "ended"}
    /\ at \in Nat \ {0} /\ nth \in Nat \ {0} /\ count \in Nat
    /\ rows \in Seq((Queues \cup {OwnGroup, AGroup})
                    \X (Reasons \cup GroupReasons \cup {"migration", NoReason}))
    /\ steps \in Seq((Queues \cup {OwnGroup}) \X (Reasons \cup {"migration"}))
    /\ verdict \in {"none", "ok", "known_blockers", "unknown_status", "invalid_answer",
                    "rejected", "bad_time", "write_failed"}

ReportInit ==
    /\ kind \in Kinds /\ json \in BOOLEAN
    /\ answer \in Answers(kind)
    /\ stage = "check" /\ at = 1 /\ nth = 1
    /\ count = 0 /\ rows = <<>> /\ steps = <<>> /\ verdict = "none"

Goto(s)   == stage' = s /\ at' = 1 /\ nth' = 1 /\ UNCHANGED <<kind, json, answer, verdict>>
Finish(v) == stage' = "ended" /\ verdict' = v /\ UNCHANGED <<kind, json, answer, at, nth>>

----------------------------------------------------------------------------
(* GetPipelineReadiness and StartConcurrencyGroupCutover: answers that are taken for an assessment. *)
Valid ==
    IF kind = "cutover" THEN answer.status # ""
    ELSE answer.status \in KnownStatuses => answer.fields = "complete"

(* The dry run of a move that is not blocked says so and proposes it; all JSON is the answer itself. *)
InOneWrite == json \/ (kind = "move" /\ answer.status = "no_known_blockers")

(* The blocker of a group that is migrated already is counted, printed and remedied first. *)
OwnRow == IF answer.migration THEN <<<<OwnGroup, "migration">>>> ELSE <<>>

Check ==
    /\ stage = "check"
    /\ CASE ~Valid -> Finish(IF kind = "cutover" THEN "rejected" ELSE "invalid_answer")
         [] Valid /\ InOneWrite  -> Goto("exit")
         [] Valid /\ ~InOneWrite -> Goto("count_groups")
    /\ count' = IF Valid /\ ~InOneWrite THEN Len(OwnRow) ELSE 0
    /\ UNCHANGED <<rows, steps>>

(* What a loop goes through. *)
List  == IF stage \in {"count_groups", "group_rows"} THEN answer.groups ELSE answer.queues
Ended == at > Len(List)

Weight(blocker) == IF blocker.reasons = <<>> THEN 1 ELSE Len(blocker.reasons)

CountBlocker ==
    /\ stage \in {"count_groups", "count_queues"} /\ ~Ended
    /\ count' = count + Weight(List[at])
    /\ at' = at + 1
    /\ UNCHANGED <<kind, json, answer, stage, nth, rows, steps, verdict>>

GroupsCounted == stage = "count_groups" /\ Ended /\ Goto("count_queues") /\ UNCHANGED <<count, rows, steps>>
QueuesCounted == stage = "count_queues" /\ Ended /\ Goto("status") /\ UNCHANGED <<count, rows, steps>>

(* The assessment with the number of conditions, and the migration's section. *)
PrintStatus ==
    /\ stage = "status"
    /\ Goto("queue_rows")
    /\ rows' = OwnRow
    /\ UNCHANGED <<count, steps>>

(* A blocker without reasons has one row all the same. *)
Row == LET b == List[at] IN <<b.name, IF b.reasons = <<>> THEN NoReason ELSE b.reasons[nth]>>

NextReason ==
    /\ IF nth < Len(List[at].reasons) THEN nth' = nth + 1 /\ at' = at ELSE nth' = 1 /\ at' = at + 1
    /\ UNCHANGED <<kind, json, answer, stage, count, verdict>>

PrintRow ==
    /\ stage \in {"queue_rows", "group_rows"} /\ ~Ended
    /\ rows' = Append(rows, Row)
    /\ NextReason
    /\ UNCHANGED steps

QueuesPrinted == stage = "queue_rows" /\ Ended /\ Goto("group_rows") /\ UNCHANGED <<count, rows, steps>>
GroupsPrinted == stage = "group_rows" /\ Ended /\ Goto("observations") /\ UNCHANGED <<count, rows, steps>>

(* Refresh times are printed for pipelines only; a missing one is "unavailable". *)
PrintObservations ==
    /\ stage = "observations"
    /\ IF answer.fields = "bad_refresh_time" THEN Finish("bad_time") /\ steps' = steps
       ELSE Goto("steps") /\ steps' = OwnRow
    /\ UNCHANGED <<count, rows>>

----------------------------------------------------------------------------
(* What an operator can be told to do about a row of a queue. *)
Remedies == IF kind = "cutover" THEN {"routing_incomplete", "migration_missing", "recent_source_jobs"}
            ELSE {"routing_incomplete", "migration_missing", "active_source_jobs"}

HasRemedy(row) ==
    \/ row = <<OwnGroup, "migration">>
    \/ /\ row[1] \in Queues \ {NoName} /\ row[2] \in Remedies \cap Reasons
       /\ row[2] = "active_source_jobs" => answer.named

(* Slip: what has been said of one queue is not said of another. *)
AppendNewReason(actions, action) ==
    IF \E i \in DOMAIN actions : actions[i][2] = action[2] THEN actions ELSE Append(actions, action)

(* appendAction *)
AppendNew(actions, action) ==
    IF \E i \in DOMAIN actions : actions[i] = action THEN actions ELSE Append(actions, action)

AddStep ==
    /\ stage = "steps" /\ ~Ended
    /\ steps' = IF HasRemedy(Row) THEN AppendNew(steps, Row) ELSE steps
    /\ NextReason
    /\ UNCHANGED rows

PrintSteps == stage = "steps" /\ Ended /\ Goto("exit") /\ UNCHANGED <<count, rows, steps>>

(* Slip: the exit status tells nothing of the assessment when it is printed as JSON. *)
ExitStatusOfText ==
    IF json \/ (kind # "cutover" /\ answer.status = "no_known_blockers") THEN "ok"
    ELSE IF kind \in {"cutover", "move"} \/ answer.status = "blocked" THEN "known_blockers"
    ELSE "unknown_status"

ExitStatus ==
    IF kind # "cutover" /\ answer.status = "no_known_blockers" THEN "ok"
    ELSE IF kind \in {"cutover", "move"} \/ answer.status = "blocked" THEN "known_blockers"
    ELSE "unknown_status"

Exit ==
    /\ stage = "exit"
    /\ Finish(ExitStatus)
    /\ UNCHANGED <<count, rows, steps>>

(* Standard output is closed: the first write that fails ends the command.  Tables are      *)
(* written when they are complete, and next steps when there are any.                       *)
WriteFails ==
    /\ \/ stage \in {"status", "observations"}
       \/ stage \in {"queue_rows", "group_rows"} /\ List # <<>> /\ (at = 1 \/ Ended)
       \/ stage = "steps" /\ Ended /\ steps # <<>>
       \/ stage = "exit" /\ InOneWrite
    /\ Finish("write_failed")
    /\ UNCHANGED <<count, rows, steps>>

ReportNext ==
    \/ Check \/ CountBlocker \/ GroupsCounted \/ QueuesCounted \/ PrintStatus
    \/ PrintRow \/ QueuesPrinted \/ GroupsPrinted \/ PrintObservations
    \/ AddStep \/ PrintSteps \/ Exit \/ WriteFails

ReportSpec == ReportInit /\ [][ReportNext]_reportVars

----------------------------------------------------------------------------
(* "Blocked by n known conditions" is followed by n rows in the tables and the migration's section. *)
CountIsRows == stage \in {"observations", "steps", "exit"} => count = Len(rows)

(* The report is printed in full, or in one write. *)
Delivered == stage \in {"exit", "ended"} /\ verdict \notin {"write_failed", "bad_time"}

(* The next steps are those of the rows that have one, none lost or repeated, each where the row first is. *)
StepsFollowRows ==
    Delivered =>
        /\ { steps[i] : i \in DOMAIN steps } = { rows[x] : x \in { y \in DOMAIN rows : HasRemedy(rows[y]) } }
        /\ \A i, j \in DOMAIN steps : i < j =>
              \E x \in DOMAIN rows : rows[x] = steps[i] /\ \A y \in DOMAIN rows : rows[y] = steps[j] => x < y

(***************************************************************************)
(* The three parts of a report that are computed apart agree: the number   *)
(* of conditions is that of the rows, blockers without reasons included,   *)
(* and the next steps are those of the rows, also when queues share a      *)
(* reason, or a queue is listed twice or has no name.                      *)
(***************************************************************************)
ReportAgreesWithItself == CountIsRows /\ StepsFollowRows

(***************************************************************************)
(* Exit status 0 means that a known, unblocked assessment was delivered in *)
(* full, as text or as JSON; such an assessment ends in nothing else       *)
(* unless the output breaks off; and an answer with a known status that    *)
(* the client lets through does not fail in the middle of the report.      *)
(***************************************************************************)
ExitTellsAssessment ==
    /\ stage = "ended" /\ verdict # "write_failed" =>
          (verdict = "ok" <=> kind # "cutover" /\ answer.status = "no_known_blockers" /\ answer.fields = "complete")
    /\ verdict = "bad_time" => answer.status \notin KnownStatuses
=============================================================================
