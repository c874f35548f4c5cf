----------------------------- MODULE AtomicMove -----------------------------
(***************************************************************************)
(* What `pipeline move` promises, without slugs, lookups, replays or       *)
(* replies: at most one pipeline moves, once, at an instant when the       *)
(* command is open or has ended without knowing; a preview moves nothing;  *)
(* success names the pipeline that moved, failure means that none did.     *)
(***************************************************************************)
EXTENDS Sequences

CONSTANTS Pipelines

VARIABLES
    dryRun,
    verdict,    \* "open", or what the operator was told
    told,       \* the pipelines named in that
    moves       \* the pipelines the command moved, in order

atomicVars == <<dryRun, verdict, told, moves>>

AtomicInit == dryRun \in BOOLEAN /\ verdict = "open" /\ told = {} /\ moves = <<>>

Take(p) ==
    /\ verdict \in {"open", "unclear"} /\ ~dryRun
    /\ moves = <<>>
    /\ moves' = <<p>>
    /\ UNCHANGED <<dryRun, verdict, told>>

EndMoved(p) ==
    /\ verdict = "open" /\ moves = <<p>>
    /\ verdict' = "moved" /\ told' = {p}
    /\ UNCHANGED <<dryRun, moves>>

EndPreviewed(p) ==
    /\ verdict = "open" /\ dryRun
    /\ verdict' = "previewed" /\ told' = {p}
    /\ UNCHANGED <<dryRun, moves>>

EndFailed ==
    /\ verdict = "open" /\ moves = <<>>
    /\ verdict' = "failed"
    /\ UNCHANGED <<dryRun, told, moves>>

EndUnclear ==
    /\ verdict = "open" /\ ~dryRun
    /\ verdict' = "unclear"
    /\ UNCHANGED <<dryRun, told, moves>>

AtomicNext ==
    \/ \E p \in Pipelines : Take(p) \/ EndMoved(p) \/ EndPreviewed(p)
    \/ EndFailed \/ EndUnclear

Spec == AtomicInit /\ [][AtomicNext]_atomicVars
=============================================================================
