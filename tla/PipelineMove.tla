---------------------------- MODULE PipelineMove ----------------------------
(***************************************************************************)
(* One `pipeline move`, or its dry run: the identifier is tried as a slug, *)
(* a 404 leads to a lookup by ID or name and a second try, and a 404 under *)
(* a cached organization first refreshes the organization and repeats the  *)
(* request.  Other people rename, create and delete pipelines meanwhile.   *)
(* The lookup reads its list at one instant; Listings has its pages.       *)
(***************************************************************************)
EXTENDS Integers, Sequences, FiniteSets

CONSTANTS
    Pipelines,      \* the pipelines, by their IDs
    Labels,         \* slugs and names
    Identifiers,    \* what the operator may type
    None,           \* no slug, no organization
    MaxChanges      \* bound: changes by other people

ASSUME MoveAssumption ==
    /\ Identifiers \subseteq Labels \cup Pipelines
    /\ Labels \cap Pipelines = {}
    /\ None \notin Labels \cup Pipelines \cup Nat
    /\ MaxChanges \in Nat

VARIABLES
    slugOf,         \* slug of each pipeline, None if it does not exist
    nameOf,
    destination,    \* of the migration: "none", "inaccessible" or "set"
    clustered,      \* pipelines that have been assigned to it
    org,            \* how often the organization has been renamed
    changes,
    identifier, dryRun,
    held,           \* the client's organization
    cached,         \* whether it came from the cache file
    pc,             \* what the command does next, or its verdict
    round,          \* which call of run() it is in
    target,         \* the slug in its request
    wire,           \* the request that is out, or its reply
    told,           \* the pipelines a verdict names
    moves,          \* the pipelines this command moved (history)
    meant,          \* pipelines that the identifier named at some time (history)
    owners,         \* pipelines with the identifier as slug all along (history)
    handed,         \* pipelines that came by the target after the lookup (history)
    reasons         \* what stood in the command's way (history)

service == <<slugOf, nameOf, destination, clustered, org, changes>>
command == <<identifier, dryRun, held, cached, pc, round, target, told>>
history == <<moves, meant, owners, handed, reasons>>
vars    == <<service, command, wire, history>>

Verdicts == {"moved", "previewed", "failed", "unclear"}

(* isUUID *)
IsID(value) == value \in Pipelines

BySlug(slugs, label) == { p \in Pipelines : slugs[p] = label }
ByName(slugs, names, label) == { p \in Pipelines : slugs[p] # None /\ names[p] = label }

(* What the identifier names, as slug, ID or name. *)
NamedNow(slugs, names) ==
    BySlug(slugs, identifier) \cup ByName(slugs, names, identifier)
        \cup { p \in Pipelines : p = identifier /\ slugs[p] # None }

Quiet    == [kind |-> "none", org |-> None, target |-> None, pipelines |-> {}]
Request  == [Quiet EXCEPT !.kind = "sent", !.org = held, !.target = target]
Reply(kind, ps) == [Quiet EXCEPT !.kind = kind, !.pipelines = ps]

TypeOK ==
    /\ slugOf \in [Pipelines -> Labels \cup {None}] /\ nameOf \in [Pipelines -> Labels]
    /\ \A p, q \in Pipelines : slugOf[p] = slugOf[q] /\ slugOf[p] # None => p = q
    /\ destination \in {"none", "inaccessible", "set"}
    /\ clustered \subseteq Pipelines /\ org \in 0 .. MaxChanges + 1 /\ changes \in 0 .. MaxChanges
    /\ identifier \in Identifiers /\ dryRun \in BOOLEAN
    /\ held \in (0 .. org) \cup {None} /\ cached \in BOOLEAN
    /\ pc \in {"ask", "waiting", "discover", "lookup"} \cup Verdicts
    /\ round \in 1 .. 2 /\ target \in Labels \cup Pipelines
    /\ wire.kind \in {"none", "sent", "ok", "no pipeline", "not configured", "no destination", "refused"}
    /\ wire.pipelines \subseteq Pipelines /\ told \subseteq Pipelines
    /\ cached => round = 1 /\ pc \notin {"discover", "lookup"}
    /\ round = 1 => target = identifier
    /\ pc = "waiting" <=> wire.kind # "none" /\ pc \notin Verdicts

(* Slip: the identifier is looked up before it is tried. *)
FirstStepLookup == "lookup"

(* The identifier is tried as it is. *)
FirstStep == "ask"

Init ==
    /\ slugOf \in [Pipelines -> Labels \cup {None}] /\ nameOf \in [Pipelines -> Labels]
    /\ \A p, q \in Pipelines : slugOf[p] = slugOf[q] /\ slugOf[p] # None => p = q
    /\ destination \in {"none", "inaccessible", "set"}
    /\ clustered = {} /\ org = 1 /\ changes = 0
    /\ identifier \in Identifiers /\ dryRun \in BOOLEAN
    /\ held \in {0, 1} /\ cached \in BOOLEAN /\ (~cached => held = org)
    /\ pc = FirstStep /\ round = 1 /\ target = identifier /\ wire = Quiet /\ told = {}
    /\ moves = <<>> /\ handed = {} /\ reasons = {}
    /\ meant = NamedNow(slugOf, nameOf) /\ owners = BySlug(slugOf, identifier)

----------------------------------------------------------------------------
(* Other people. *)
Change(slugs, names, dest, renames) ==
    /\ changes < MaxChanges /\ changes' = changes + 1
    /\ pc \notin Verdicts \/ wire.kind = "sent"
    /\ slugOf' = slugs /\ nameOf' = names /\ destination' = dest /\ org' = org + renames
    /\ meant' = meant \cup NamedNow(slugs, names)
    /\ owners' = owners \cap BySlug(slugs, identifier)
    /\ handed' = IF round = 2 THEN handed \cup (BySlug(slugs, target) \ BySlug(slugOf, target)) ELSE handed
    /\ UNCHANGED <<clustered, command, wire, moves, reasons>>

(* A pipeline gets another slug, or its first: created, renamed. *)
ChangeSlug == \E p \in Pipelines, l \in Labels :
    /\ BySlug(slugOf, l) = {}
    /\ Change([slugOf EXCEPT ![p] = l], nameOf, destination, 0)

DeletePipeline == \E p \in Pipelines :
    /\ slugOf[p] # None
    /\ Change([slugOf EXCEPT ![p] = None], nameOf, destination, 0)

ChangeName == \E p \in Pipelines, l \in Labels :
    /\ slugOf[p] # None /\ nameOf[p] # l
    /\ Change(slugOf, [nameOf EXCEPT ![p] = l], destination, 0)

(* The migration is configured, and the token's access to its cluster comes and goes. *)
ChangeDestination == \E d \in {"inaccessible", "set"} :
    /\ d # destination
    /\ Change(slugOf, nameOf, d, 0)

RenameOrganization == Change(slugOf, nameOf, destination, 1)

----------------------------------------------------------------------------
(* The service answers a request; which of several reasons for a 404 it gives is its own. *)
Refusals ==
    IF wire.org # org THEN {"no pipeline"}
    ELSE { r \in {"not configured", "no destination", "no pipeline", "refused"} :
              CASE r = "not configured" -> destination = "none"
                [] r = "no destination" -> destination = "inaccessible"
                [] r = "no pipeline"    -> BySlug(slugOf, wire.target) = {}
                [] OTHER                -> TRUE }

Refuse ==
    /\ wire.kind = "sent"
    /\ \E r \in Refusals :
          /\ wire' = Reply(r, {})
          /\ reasons' = reasons \cup ({r} \ {"no pipeline", "not configured"})
    /\ UNCHANGED <<service, command, moves, meant, owners, handed>>

(* GET answers an assessment, PATCH moves the pipeline. *)
Accept ==
    /\ wire.kind = "sent" /\ wire.org = org /\ destination = "set"
    /\ \E p \in BySlug(slugOf, wire.target) :
          /\ wire' = Reply("ok", {p})
          /\ IF dryRun THEN UNCHANGED <<clustered, moves>>
             ELSE clustered' = clustered \cup {p} /\ moves' = Append(moves, p)
    /\ UNCHANGED <<slugOf, nameOf, destination, org, changes, command, meant, owners, handed, reasons>>

----------------------------------------------------------------------------
(* MovePipeline or GetPipelineReadiness under the client's organization. *)
Ask ==
    /\ pc = "ask"
    /\ pc' = "waiting" /\ wire' = Request
    /\ UNCHANGED <<service, identifier, dryRun, held, cached, round, target, told, history>>

NotFounds == {"no pipeline", "not configured", "no destination"}

(* doWithHeaders looks at a 404 first: a cached organization may be the reason for it. *)
Refreshes(kind) == cached /\ kind \in NotFounds

(* It is dropped, file and all, and asked for again. *)
Invalidate ==
    /\ pc = "waiting" /\ Refreshes(wire.kind)
    /\ pc' = "discover" /\ held' = None /\ cached' = FALSE /\ wire' = Quiet
    /\ UNCHANGED <<service, identifier, dryRun, round, target, told, history>>

(* Slip: the organization still counts as cached when the request is repeated. *)
DiscoverAsCached ==
    /\ pc = "discover"
    /\ pc' = "ask" /\ held' = org /\ cached' = TRUE
    /\ UNCHANGED <<service, identifier, dryRun, round, target, wire, told, history>>

Discover ==
    /\ pc = "discover"
    /\ pc' = "ask" /\ held' = org
    /\ UNCHANGED <<service, identifier, dryRun, cached, round, target, wire, told, history>>

(* A discovery that is itself answered 404 passes for an unknown pipeline. *)
DiscoverNothing ==
    /\ pc = "discover"
    /\ pc' = "lookup" /\ reasons' = reasons \cup {"discovery"}
    /\ UNCHANGED <<service, identifier, dryRun, held, cached, round, target, wire, told,
                   moves, meant, owners, handed>>

(* Slip: an identifier is a slug or it is nothing. *)
FallsBackNever(kind) == FALSE

(* runWithPipelineIdentifierFallback: the errors that lead to a lookup, once. *)
FallsBack(kind) == round = 1 /\ kind \in NotFounds \ {"not configured"}

Receive ==
    /\ pc = "waiting" /\ wire.kind \notin {"none", "sent"}
    /\ ~Refreshes(wire.kind)
    /\ wire' = Quiet
    /\ told' = wire.pipelines
    /\ pc' = CASE wire.kind = "ok"     -> IF dryRun THEN "previewed" ELSE "moved"
               [] FallsBack(wire.kind) -> "lookup"
               [] OTHER                -> "failed"
    /\ UNCHANGED <<service, identifier, dryRun, held, cached, round, target, history>>

(* Slip: what the service's filter lets through is taken for a match. *)
MatchesAll == { p \in Pipelines : slugOf[p] # None }

(* ResolvePipelineSlug: the pipeline with the ID, or those with exactly this name. *)
Matches == IF IsID(identifier) THEN { p \in Pipelines : p = identifier /\ slugOf[p] # None }
           ELSE ByName(slugOf, nameOf, identifier)

Lookup ==
    /\ pc = "lookup"
    /\ IF held = org /\ Cardinality(Matches) = 1
       THEN /\ pc' = "ask" /\ round' = 2
            /\ \E p \in Matches : target' = slugOf[p]
       ELSE pc' = "failed" /\ UNCHANGED <<round, target>>
    /\ UNCHANGED <<service, identifier, dryRun, held, cached, wire, told, history>>

(* Slip: any error of the first call leads to the lookup, that of a lost reply too. *)
GiveUpOrLookUp ==
    /\ pc \notin Verdicts
    /\ pc' = IF round = 1 THEN "lookup" ELSE IF pc = "waiting" /\ ~dryRun THEN "unclear" ELSE "failed"
    /\ wire' = IF pc' = "lookup" THEN Quiet ELSE wire
    /\ reasons' = reasons \cup {"gave up"}
    /\ UNCHANGED <<service, identifier, dryRun, held, cached, round, target, told,
                   moves, meant, owners, handed>>

(* Timeout, signal, a failed discovery or lookup; a reply that is lost or has no cluster_id. *)
GiveUp ==
    /\ pc \notin Verdicts
    /\ pc' = IF pc = "waiting" /\ ~dryRun THEN "unclear" ELSE "failed"
    /\ reasons' = reasons \cup {"gave up"}
    /\ UNCHANGED <<service, identifier, dryRun, held, cached, round, target, told, wire,
                   moves, meant, owners, handed>>

Others  == \/ ChangeSlug \/ DeletePipeline \/ ChangeName
           \/ ChangeDestination \/ RenameOrganization
Answer  == Accept \/ Refuse
Proceed == Ask \/ Invalidate \/ Discover \/ DiscoverNothing \/ Receive \/ Lookup \/ GiveUp
Next    == Others \/ Answer \/ Proceed

Spec == Init /\ [][Next]_vars

(* The service answers, or the command's timeout ends the wait; the process does not hang. *)
FairSpec == Spec /\ WF_vars(Answer) /\ WF_vars(Proceed)

----------------------------------------------------------------------------
(***************************************************************************)
(* Whatever is looked up, replayed or lost, at most one pipeline moves,    *)
(* once; never after a definite verdict or for a dry run; and the verdict  *)
(* is true of it.                                                          *)
(***************************************************************************)
Atomic == INSTANCE AtomicMove
          WITH verdict <- IF pc \in Verdicts THEN pc ELSE "open"

ImplementsAtomicMove == Atomic!Spec

(***************************************************************************)
(* A pipeline that moves was named by the identifier, as slug, ID or name, *)
(* at some time during the command; the one exception is a pipeline that   *)
(* is given the slug of the one that was found, between lookup and move.   *)
(***************************************************************************)
OnlyTheOneMeant ==
    [][\A p \in Pipelines : moves' = Append(moves, p) => p \in meant \cup handed]_vars

(***************************************************************************)
(* A slug goes before a name: while a pipeline has the identifier as its   *)
(* slug, no other one moves.  The exception is that of the code, which     *)
(* takes any 404 for an unknown pipeline: the first answer was about an    *)
(* inaccessible destination, and access came back before the second.       *)
(***************************************************************************)
SlugGoesFirst ==
    [][\A p \in Pipelines, q \in owners :
          moves' = Append(moves, p) /\ p # q => "no destination" \in reasons]_vars

(***************************************************************************)
(* An identifier that names one pipeline is enough, under a stale cached   *)
(* organization too: while nothing changes, a command that was answered    *)
(* throughout and met no refusal fails only for want of a destination.     *)
(***************************************************************************)
UnambiguousGetsThere ==
    pc = "failed" /\ changes = 0 /\ reasons = {} =>
        \/ destination # "set"
        \/ Cardinality(IF owners # {} THEN owners ELSE NamedNow(slugOf, nameOf)) # 1

(***************************************************************************)
(* Refresh, lookup and replay do not go round in circles.                  *)
(***************************************************************************)
EveryCommandEnds == <>(pc \in Verdicts)
=============================================================================
