-------------------------- MODULE PipelineMoveProof --------------------------
(***************************************************************************)
(* Proofs about PipelineMove, for any pipelines, labels and identifiers    *)
(* and any number of changes by other people: that it implements           *)
(* AtomicMove step by step, which pipelines can move, and when a command   *)
(* may fail.  The invariant has one part for each of these; all of them    *)
(* say what a request, a reply or a lookup under way still stands for when *)
(* the world has moved on since it was made.                               *)
(***************************************************************************)
EXTENDS PipelineMove, TLAPS

(* The organization is renamed by a change at most; the histories are about pipelines. *)
Shape ==
    /\ TypeOK
    /\ org <= changes + 1
    /\ meant \subseteq Pipelines /\ owners \subseteq Pipelines /\ handed \subseteq Pipelines

(* Where the one move of a command is on record: in its reply, then in its verdict. *)
Ledger ==
    /\ moves # <<>> => \E p \in Pipelines : moves = <<p>>
    /\ dryRun \/ wire.kind = "sent" \/ pc = "failed" => moves = <<>>
    /\ moves # <<>> => wire.kind = "ok" \/ pc \in Verdicts
    /\ wire.kind = "ok" => \E p \in Pipelines : wire.pipelines = {p} /\ (dryRun \/ moves = <<p>>)
    /\ wire.kind # "ok" => wire.pipelines = {}
    /\ pc \in {"moved", "previewed", "failed"} => dryRun \/ wire.kind = "none"
    /\ pc \notin Verdicts => told = {}

(* Whom the slug of a request can stand for. *)
Naming ==
    /\ NamedNow(slugOf, nameOf) \subseteq meant
    /\ BySlug(slugOf, target) \subseteq meant \cup handed
    /\ wire.kind = "sent" => wire.target = target /\ (pc = "waiting" => wire.org = held)

(* A lookup that can succeed was not due while a pipeline had the identifier as its slug. *)
Passed == owners = {} \/ "no destination" \in reasons

Precedence ==
    /\ owners \subseteq BySlug(slugOf, identifier)
    /\ wire.kind \in {"no destination", "refused"} => wire.kind \in reasons
    /\ pc = "waiting" /\ wire.kind = "no pipeline" /\ ~cached /\ round = 1 /\ held = org => Passed
    /\ pc = "lookup" /\ held = org => Passed
    /\ pc = "discover" => held = None
    /\ round = 2 => Passed

(* As long as nothing changes and no refusal is met. *)
Calm == changes = 0 /\ reasons = {}

Undisturbed ==
    /\ changes = 0 => org = 1 /\ owners = BySlug(slugOf, identifier)
    /\ changes = 0 /\ round = 2 => BySlug(slugOf, target) # {}
    /\ changes = 0 /\ wire.kind = "not configured" => destination = "none"
    /\ Calm /\ ~cached /\ pc # "discover" => held = org
    /\ Calm /\ ~cached /\ pc = "waiting" /\ wire.kind = "no pipeline" => BySlug(slugOf, target) = {}
    /\ Calm /\ pc = "lookup" => BySlug(slugOf, identifier) = {}
    /\ UnambiguousGetsThere

IInv == Shape /\ Ledger /\ Naming /\ Precedence /\ Undisturbed

----------------------------------------------------------------------------
LEMMA WireFacts ==
    /\ Quiet.kind = "none" /\ Quiet.pipelines = {}
    /\ Request.kind = "sent" /\ Request.pipelines = {}
    /\ Request.org = held /\ Request.target = target
    /\ \A kind, ps : Reply(kind, ps).kind = kind /\ Reply(kind, ps).pipelines = ps
  BY DEF Quiet, Request, Reply

(* The predicates of the model mean pipelines; two of them never share a slug. *)
LEMMA SlugFacts ==
    ASSUME NEW slugs, NEW names, NEW label
    PROVE  /\ BySlug(slugs, label) \subseteq Pipelines
           /\ \A x \in Pipelines : x \in BySlug(slugs, label) <=> slugs[x] = label
           /\ NamedNow(slugs, names) \subseteq Pipelines
           /\ BySlug(slugs, identifier) \subseteq NamedNow(slugs, names)
  BY DEF BySlug, NamedNow, ByName

DistinctSlugs(slugs) ==
    \A p, q \in Pipelines : slugs[p] = slugs[q] /\ slugs[p] # None => p = q

LEMMA Inputs ==
    ASSUME Shape
    PROVE  /\ slugOf \in [Pipelines -> Labels \cup {None}] /\ nameOf \in [Pipelines -> Labels]
           /\ DistinctSlugs(slugOf)
           /\ identifier \in Labels \cup Pipelines /\ target \in Labels \cup Pipelines
           /\ None \notin Labels \cup Pipelines
           /\ org \in Nat /\ changes \in Nat /\ changes <= MaxChanges /\ MaxChanges \in Nat
           /\ None \notin Nat /\ held \in (0 .. org) \cup {None}
           /\ round \in {1, 2} /\ (round = 1 => target = identifier)
  <1>1. /\ slugOf \in [Pipelines -> Labels \cup {None}] /\ nameOf \in [Pipelines -> Labels]
        /\ DistinctSlugs(slugOf)
    BY DEF Shape, TypeOK, DistinctSlugs
  <1>2. /\ identifier \in Identifiers /\ target \in Labels \cup Pipelines
        /\ org \in 0 .. MaxChanges + 1 /\ changes \in 0 .. MaxChanges
        /\ held \in (0 .. org) \cup {None}
        /\ round \in 1 .. 2 /\ (round = 1 => target = identifier)
    BY DEF Shape, TypeOK
  <1> QED  BY <1>1, <1>2, MoveAssumption

(* All that a change by other people does. *)
LEMMA OthersFacts ==
    ASSUME Shape, Others
    PROVE  /\ slugOf' \in [Pipelines -> Labels \cup {None}] /\ nameOf' \in [Pipelines -> Labels]
           /\ DistinctSlugs(slugOf')
           /\ destination' \in {"none", "inaccessible", "set"}
           /\ org' \in {org, org + 1} /\ changes' = changes + 1 /\ changes' <= MaxChanges
           /\ pc \notin Verdicts \/ wire.kind = "sent"
           /\ meant' = meant \cup NamedNow(slugOf', nameOf')
           /\ owners' = owners \cap BySlug(slugOf', identifier)
           /\ handed' = IF round = 2
                        THEN handed \cup (BySlug(slugOf', target) \ BySlug(slugOf, target))
                        ELSE handed
           /\ UNCHANGED <<clustered, command, wire, moves, reasons>>
  <1>1. /\ slugOf \in [Pipelines -> Labels \cup {None}] /\ nameOf \in [Pipelines -> Labels]
        /\ DistinctSlugs(slugOf) /\ destination \in {"none", "inaccessible", "set"}
        /\ org \in Nat /\ changes \in Nat /\ MaxChanges \in Nat
    BY Inputs DEF Shape, TypeOK
  <1>3. CASE ChangeSlug
    <2>1. PICK p \in Pipelines, l \in Labels :
             BySlug(slugOf, l) = {} /\ Change([slugOf EXCEPT ![p] = l], nameOf, destination, 0)
      BY <1>3 DEF ChangeSlug
    <2>2. \A x \in Pipelines : slugOf[x] # l
      BY <2>1 DEF BySlug
    <2>3. DistinctSlugs([slugOf EXCEPT ![p] = l])
      BY <1>1, <2>2 DEF DistinctSlugs
    <2> QED  BY <1>1, <2>1, <2>3 DEF Change
  <1>4. CASE DeletePipeline
    <2>1. PICK p \in Pipelines : Change([slugOf EXCEPT ![p] = None], nameOf, destination, 0)
      BY <1>4 DEF DeletePipeline
    <2>2. DistinctSlugs([slugOf EXCEPT ![p] = None])
      BY <1>1 DEF DistinctSlugs
    <2>3. [slugOf EXCEPT ![p] = None] \in [Pipelines -> Labels \cup {None}]
      BY <1>1
    <2> QED  BY <1>1, <2>1, <2>2, <2>3 DEF Change
  <1>5. CASE ChangeName
    BY <1>1, <1>5 DEF ChangeName, Change
  <1>6. CASE ChangeDestination
    BY <1>1, <1>6 DEF ChangeDestination, Change
  <1>7. CASE RenameOrganization
    BY <1>1, <1>7 DEF RenameOrganization, Change
  <1> QED  BY <1>3, <1>4, <1>5, <1>6, <1>7 DEF Others

LEMMA OthersPreserve ==
    ASSUME IInv, Others
    PROVE  IInv'
  <1>1. Shape /\ Ledger /\ Naming /\ Precedence /\ Undisturbed
    BY DEF IInv
  <1>2. /\ slugOf' \in [Pipelines -> Labels \cup {None}] /\ nameOf' \in [Pipelines -> Labels]
        /\ DistinctSlugs(slugOf')
        /\ destination' \in {"none", "inaccessible", "set"}
        /\ org' \in {org, org + 1} /\ changes' = changes + 1 /\ changes' <= MaxChanges
        /\ meant' = meant \cup NamedNow(slugOf', nameOf')
        /\ owners' = owners \cap BySlug(slugOf', identifier)
        /\ handed' = IF round = 2
                     THEN handed \cup (BySlug(slugOf', target) \ BySlug(slugOf, target))
                     ELSE handed
        /\ UNCHANGED <<clustered, command, wire, moves, reasons>>
    BY <1>1, OthersFacts
  <1>3. UNCHANGED <<identifier, dryRun, held, cached, pc, round, target, told>>
    BY <1>2 DEF command
  <1>4. org \in Nat /\ changes \in Nat /\ None \notin Nat /\ held \in (0 .. org) \cup {None}
    BY <1>1, Inputs
  <1>5. BySlug(slugOf', identifier) \subseteq NamedNow(slugOf', nameOf')
        /\ NamedNow(slugOf', nameOf') \subseteq Pipelines
        /\ BySlug(slugOf', target) \subseteq Pipelines
    BY SlugFacts
  <1>6. Shape'
    <2>1. /\ org' \in 0 .. MaxChanges + 1 /\ changes' \in 0 .. MaxChanges /\ org' <= changes' + 1
          /\ held' \in (0 .. org') \cup {None}
      BY <1>1, <1>2, <1>3, <1>4, MoveAssumption DEF Shape
    <2>2. meant' \subseteq Pipelines /\ owners' \subseteq Pipelines /\ handed' \subseteq Pipelines
      BY <1>1, <1>2, <1>5 DEF Shape
    <2>3. TypeOK'
      BY <1>1, <1>2, <1>3, <2>1 DEF Shape, TypeOK, DistinctSlugs
    <2> QED  BY <2>1, <2>2, <2>3 DEF Shape
  <1>7. Ledger'
    BY <1>1, <1>2, <1>3 DEF Ledger
  <1>8. Naming'
    <2>1. NamedNow(slugOf, nameOf)' = NamedNow(slugOf', nameOf')
      BY <1>3 DEF NamedNow
    <2>2. BySlug(slugOf', target) \subseteq meant' \cup handed'
      <3>1. CASE round = 1
        <4>1. target = identifier
          BY <1>1, <3>1, Inputs
        <4> QED  BY <1>2, <1>5, <4>1
      <3>2. CASE round = 2
        BY <1>1, <1>2, <3>2 DEF Naming
      <3> QED  BY <1>1, <3>1, <3>2, Inputs
    <2> QED  BY <1>1, <1>2, <1>3, <2>1, <2>2 DEF Naming
  <1>9. Precedence'
    <2>1. Passed => Passed'
      BY <1>2 DEF Passed
    <2>2. held' = org' => held = org
      BY <1>2, <1>3, <1>4
    <2> QED  BY <1>1, <1>2, <1>3, <2>1, <2>2 DEF Precedence
  <1>10. Undisturbed'
    <2>1. changes' # 0
      BY <1>2, <1>4
    <2> QED  BY <2>1 DEF Undisturbed, Calm, UnambiguousGetsThere
  <1> QED  BY <1>6, <1>7, <1>8, <1>9, <1>10 DEF IInv

----------------------------------------------------------------------------
(* A refusal under the organization in use tells the truth about its reason. *)
LEMMA RefusalFacts ==
    ASSUME NEW r \in Refusals
    PROVE  /\ r \in {"not configured", "no destination", "no pipeline", "refused"}
           /\ wire.org # org => r = "no pipeline"
           /\ wire.org = org /\ r = "not configured" => destination = "none"
           /\ wire.org = org /\ r = "no pipeline" => BySlug(slugOf, wire.target) = {}
  <1>1. CASE wire.org # org
    BY <1>1 DEF Refusals
  <1>2. CASE wire.org = org
    <2>1. /\ r \in {"not configured", "no destination", "no pipeline", "refused"}
          /\ CASE r = "not configured" -> destination = "none"
               [] r = "no destination" -> destination = "inaccessible"
               [] r = "no pipeline"    -> BySlug(slugOf, wire.target) = {}
               [] OTHER                -> TRUE
      BY <1>2 DEF Refusals
    <2>2. r = "not configured" => destination = "none"
      BY <2>1
    <2>3. r = "no pipeline" => BySlug(slugOf, wire.target) = {}
      BY <2>1
    <2> QED  BY <1>2, <2>1, <2>2, <2>3
  <1> QED  BY <1>1, <1>2

LEMMA RefusePreserves ==
    ASSUME IInv, Refuse
    PROVE  IInv'
  <1>1. Shape /\ Ledger /\ Naming /\ Precedence /\ Undisturbed
    BY DEF IInv
  <1>2. PICK r \in Refusals :
          /\ wire' = Reply(r, {})
          /\ reasons' = reasons \cup ({r} \ {"no pipeline", "not configured"})
    BY DEF Refuse
  <1>3. /\ wire.kind = "sent"
        /\ UNCHANGED <<slugOf, nameOf, destination, clustered, org, changes, identifier, dryRun, held,
                       cached, pc, round, target, told, moves, meant, owners, handed>>
    BY DEF Refuse, service, command
  <1>4. /\ wire'.kind = r /\ wire'.pipelines = {}
        /\ r \in {"not configured", "no destination", "no pipeline", "refused"}
        /\ wire.org # org => r = "no pipeline"
        /\ wire.org = org /\ r = "not configured" => destination = "none"
        /\ wire.org = org /\ r = "no pipeline" => BySlug(slugOf, wire.target) = {}
    BY <1>2, WireFacts, RefusalFacts
  <1>5. Shape'
    BY <1>1, <1>3, <1>4, ZenonT(60) DEF Shape, TypeOK
  <1>6. Ledger'
    BY <1>1, <1>3, <1>4 DEF Ledger
  <1>7. Naming'
    BY <1>1, <1>3, <1>4 DEF Naming, NamedNow
  <1>8. ASSUME pc = "waiting", r = "no pipeline", held = org
        PROVE  BySlug(slugOf, target) = {}
    BY <1>1, <1>3, <1>4, <1>8 DEF Naming
  <1>9. Precedence'
    <2>1. Passed => Passed'
      BY <1>2, <1>3 DEF Passed
    <2>2. pc = "waiting" /\ r = "no pipeline" /\ round = 1 /\ held = org => Passed'
      BY <1>1, <1>3, <1>8, Inputs DEF Precedence, Passed
    <2>3. r \in {"no destination", "refused"} => r \in reasons'
      BY <1>2
    <2> QED  BY <1>1, <1>3, <1>4, <2>1, <2>2, <2>3 DEF Precedence
  <1>10. Undisturbed'
    <2>1. /\ Calm' => Calm
          /\ reasons' = {} => reasons = {}
      BY <1>2, <1>3 DEF Calm
    <2>2. /\ changes = 0 /\ r = "not configured" => destination = "none"
          /\ Calm /\ ~cached /\ pc = "waiting" /\ r = "no pipeline" => BySlug(slugOf, target) = {}
      BY <1>1, <1>4, <1>8 DEF Undisturbed
    <2>3. UnambiguousGetsThere'
      BY <1>1, <1>3, <2>1 DEF Undisturbed, UnambiguousGetsThere, NamedNow
    <2> QED  BY <1>1, <1>3, <1>4, <2>1, <2>2, <2>3 DEF Undisturbed
  <1> QED  BY <1>5, <1>6, <1>7, <1>9, <1>10 DEF IInv

(* The service does once what the request asks for, and a preview changes nothing. *)
LEMMA AcceptFacts ==
    ASSUME IInv, Accept
    PROVE  \E p \in Pipelines :
             /\ slugOf[p] = target
             /\ wire.kind = "sent" /\ wire'.kind = "ok" /\ wire'.pipelines = {p}
             /\ moves = <<>> /\ moves' = IF dryRun THEN <<>> ELSE <<p>>
             /\ clustered' \subseteq Pipelines
             /\ UNCHANGED <<slugOf, nameOf, destination, org, changes, identifier, dryRun, held,
                            cached, pc, round, target, told, meant, owners, handed, reasons>>
  <1>1. PICK p \in BySlug(slugOf, wire.target) :
          /\ wire' = Reply("ok", {p})
          /\ IF dryRun THEN UNCHANGED <<clustered, moves>>
             ELSE clustered' = clustered \cup {p} /\ moves' = Append(moves, p)
    BY DEF Accept
  <1>2. /\ wire.kind = "sent" /\ wire.target = target /\ moves = <<>>
        /\ clustered \subseteq Pipelines
    BY DEF Accept, IInv, Naming, Ledger, Shape, TypeOK
  <1>3. p \in Pipelines /\ slugOf[p] = target
    BY <1>1, <1>2 DEF BySlug
  <1>4. wire'.kind = "ok" /\ wire'.pipelines = {p}
    BY <1>1, WireFacts
  <1>5. moves' = IF dryRun THEN <<>> ELSE <<p>>
    BY <1>1, <1>2
  <1> QED  BY <1>1, <1>2, <1>3, <1>4, <1>5 DEF Accept, command

LEMMA AcceptPreserves ==
    ASSUME IInv, Accept
    PROVE  IInv'
  <1>1. Shape /\ Ledger /\ Naming /\ Precedence /\ Undisturbed
    BY DEF IInv
  <1>2. PICK p \in Pipelines :
          /\ wire.kind = "sent" /\ wire'.kind = "ok" /\ wire'.pipelines = {p}
          /\ moves = <<>> /\ moves' = IF dryRun THEN <<>> ELSE <<p>>
          /\ clustered' \subseteq Pipelines
          /\ UNCHANGED <<slugOf, nameOf, destination, org, changes, identifier, dryRun, held,
                         cached, pc, round, target, told, meant, owners, handed, reasons>>
    BY AcceptFacts
  <1>3. Shape'
    BY <1>1, <1>2 DEF Shape, TypeOK
  <1>4. Ledger'
    BY <1>1, <1>2 DEF Ledger
  <1>5. Naming' /\ Precedence'
    BY <1>1, <1>2 DEF Naming, NamedNow, Precedence, Passed
  <1>6. Undisturbed'
    BY <1>1, <1>2 DEF Undisturbed, Calm, UnambiguousGetsThere, NamedNow
  <1> QED  BY <1>3, <1>4, <1>5, <1>6 DEF IInv

----------------------------------------------------------------------------
(* The steps of the command itself leave the service and most of the histories alone. *)
LEMMA AskPreserves ==
    ASSUME IInv, Ask
    PROVE  IInv'
  <1>1. Shape /\ Ledger /\ Naming /\ Precedence /\ Undisturbed
    BY DEF IInv
  <1>2. /\ pc = "ask" /\ pc' = "waiting" /\ wire' = Request
        /\ UNCHANGED <<slugOf, nameOf, destination, clustered, org, changes, identifier, dryRun, held,
                       cached, round, target, told, moves, meant, owners, handed, reasons>>
    BY DEF Ask, service, history
  <1>3. wire'.kind = "sent" /\ wire'.pipelines = {} /\ wire'.org = held /\ wire'.target = target
    BY <1>2, WireFacts
  <1>4. wire.kind = "none"
    BY <1>1, <1>2 DEF Shape, TypeOK, Verdicts
  <1>5. Shape'
    BY <1>1, <1>2, <1>3 DEF Shape, TypeOK, Verdicts
  <1>6. Ledger'
    BY <1>1, <1>2, <1>3, <1>4 DEF Ledger, Verdicts
  <1>7. Naming' /\ Precedence'
    BY <1>1, <1>2, <1>3 DEF Naming, NamedNow, Precedence, Passed
  <1>8. Undisturbed'
    BY <1>1, <1>2, <1>3 DEF Undisturbed, Calm, UnambiguousGetsThere
  <1> QED  BY <1>5, <1>6, <1>7, <1>8 DEF IInv

LEMMA InvalidatePreserves ==
    ASSUME IInv, Invalidate
    PROVE  IInv'
  <1>1. Shape /\ Ledger /\ Naming /\ Precedence /\ Undisturbed
    BY DEF IInv
  <1>2. /\ pc = "waiting" /\ pc' = "discover" /\ held' = None /\ cached' = FALSE /\ wire' = Quiet
        /\ cached /\ wire.kind \in {"no pipeline", "not configured", "no destination"}
        /\ UNCHANGED <<slugOf, nameOf, destination, clustered, org, changes, identifier, dryRun,
                       round, target, told, moves, meant, owners, handed, reasons>>
    BY DEF Invalidate, Refreshes, NotFounds, service, history
  <1>3. wire'.kind = "none" /\ wire'.pipelines = {}
    BY <1>2, WireFacts
  <1>4. round = 1
    BY <1>1, <1>2 DEF Shape, TypeOK
  <1>5. Shape'
    BY <1>1, <1>2, <1>3 DEF Shape, TypeOK, Verdicts
  <1>6. Ledger'
    BY <1>1, <1>2, <1>3 DEF Ledger, Verdicts
  <1>7. Naming' /\ Precedence'
    BY <1>1, <1>2, <1>3, <1>4 DEF Naming, NamedNow, Precedence, Passed
  <1>8. Undisturbed'
    BY <1>1, <1>2, <1>3, <1>4 DEF Undisturbed, Calm, UnambiguousGetsThere
  <1> QED  BY <1>5, <1>6, <1>7, <1>8 DEF IInv

LEMMA DiscoverPreserves ==
    ASSUME IInv, Discover
    PROVE  IInv'
  <1>1. Shape /\ Ledger /\ Naming /\ Precedence /\ Undisturbed
    BY DEF IInv
  <1>2. /\ pc = "discover" /\ pc' = "ask" /\ held' = org
        /\ UNCHANGED <<slugOf, nameOf, destination, clustered, org, changes, identifier, dryRun, cached,
                       round, target, wire, told, moves, meant, owners, handed, reasons>>
    BY DEF Discover, service, history
  <1>3. wire.kind = "none"
    BY <1>1, <1>2 DEF Shape, TypeOK, Verdicts
  <1>4. Shape'
    <2>1. org \in Nat
      BY <1>1, Inputs
    <2>2. held' \in (0 .. org') \cup {None}
      BY <1>2, <2>1
    <2> QED  BY <1>1, <1>2, <2>2 DEF Shape, TypeOK, Verdicts
  <1>5. Ledger'
    BY <1>1, <1>2, <1>3 DEF Ledger, Verdicts
  <1>6. Naming' /\ Precedence'
    BY <1>1, <1>2, <1>3 DEF Naming, NamedNow, Precedence, Passed
  <1>7. Undisturbed'
    BY <1>1, <1>2, <1>3 DEF Undisturbed, Calm, UnambiguousGetsThere
  <1> QED  BY <1>4, <1>5, <1>6, <1>7 DEF IInv

(* The lookup that follows cannot succeed: it has no organization to look in. *)
LEMMA DiscoverNothingPreserves ==
    ASSUME IInv, DiscoverNothing
    PROVE  IInv'
  <1>1. Shape /\ Ledger /\ Naming /\ Precedence /\ Undisturbed
    BY DEF IInv
  <1>2. /\ pc = "discover" /\ pc' = "lookup" /\ reasons' = reasons \cup {"discovery"}
        /\ UNCHANGED <<slugOf, nameOf, destination, clustered, org, changes, identifier, dryRun, held,
                       cached, round, target, wire, told, moves, meant, owners, handed>>
    BY DEF DiscoverNothing, service
  <1>3. wire.kind = "none" /\ ~cached
    BY <1>1, <1>2 DEF Shape, TypeOK, Verdicts
  <1>4. held # org
    BY <1>1, <1>2, Inputs DEF Precedence
  <1>5. Shape'
    BY <1>1, <1>2, <1>3 DEF Shape, TypeOK, Verdicts
  <1>6. Ledger'
    BY <1>1, <1>2, <1>3 DEF Ledger, Verdicts
  <1>7. Naming'
    BY <1>1, <1>2, <1>3 DEF Naming, NamedNow
  <1>8. Precedence'
    <2>1. Passed => Passed'
      BY <1>2 DEF Passed
    <2> QED  BY <1>1, <1>2, <1>3, <1>4, <2>1 DEF Precedence
  <1>9. Undisturbed'
    <2>1. reasons' # {}
      BY <1>2
    <2> QED  BY <1>1, <1>2, <1>3, <2>1 DEF Undisturbed, Calm, UnambiguousGetsThere
  <1> QED  BY <1>5, <1>6, <1>7, <1>8, <1>9 DEF IInv

(* The three ways a reply is taken: as the answer, as an unknown identifier, as a failure. *)
LEMMA ReceiveFacts ==
    ASSUME IInv, Receive
    PROVE  /\ pc = "waiting" /\ wire'.kind = "none" /\ wire'.pipelines = {} /\ told' = wire.pipelines
           /\ \/ /\ wire.kind = "ok"
                 /\ pc' = IF dryRun THEN "previewed" ELSE "moved"
              \/ /\ wire.kind \in {"no pipeline", "no destination"} /\ round = 1 /\ ~cached
                 /\ pc' = "lookup"
              \/ /\ wire.kind = "no pipeline" => round = 2 /\ ~cached
                 /\ wire.kind \in {"no pipeline", "no destination", "not configured", "refused"}
                 /\ pc' = "failed"
           /\ UNCHANGED <<slugOf, nameOf, destination, clustered, org, changes, identifier, dryRun, held,
                          cached, round, target, moves, meant, owners, handed, reasons>>
  <1>1. /\ pc = "waiting" /\ wire' = Quiet /\ told' = wire.pipelines
        /\ wire.kind \notin {"none", "sent"}
        /\ ~(cached /\ wire.kind \in {"no pipeline", "not configured", "no destination"})
        /\ UNCHANGED <<slugOf, nameOf, destination, clustered, org, changes, identifier, dryRun, held,
                       cached, round, target, moves, meant, owners, handed, reasons>>
    BY DEF Receive, Refreshes, NotFounds, service, history
  <1>2. /\ wire.kind \in {"ok", "no pipeline", "not configured", "no destination", "refused"}
        /\ round \in {1, 2} /\ (cached => round = 1) /\ cached \in BOOLEAN
    BY <1>1, Inputs DEF IInv, Shape, TypeOK
  <1>3. FallsBack(wire.kind) <=> round = 1 /\ wire.kind \in {"no pipeline", "no destination"}
    BY DEF FallsBack, NotFounds
  <1>4. CASE wire.kind = "ok"
    <2>1. pc' = IF dryRun THEN "previewed" ELSE "moved"
      BY <1>3, <1>4 DEF Receive
    <2> QED  BY <1>1, <1>4, <2>1, WireFacts
  <1>5. CASE FallsBack(wire.kind)
    <2>1. pc' = "lookup"
      BY <1>3, <1>5 DEF Receive
    <2> QED  BY <1>1, <1>2, <1>3, <1>5, <2>1, WireFacts
  <1>6. CASE wire.kind # "ok" /\ ~FallsBack(wire.kind)
    <2>1. pc' = "failed"
      BY <1>6 DEF Receive
    <2> QED  BY <1>1, <1>2, <1>3, <1>6, <2>1, WireFacts
  <1> QED  BY <1>4, <1>5, <1>6

LEMMA ReceivePreserves ==
    ASSUME IInv, Receive
    PROVE  IInv'
  <1>1. Shape /\ Ledger /\ Naming /\ Precedence /\ Undisturbed
    BY DEF IInv
  <1>2. /\ pc = "waiting" /\ wire'.kind = "none" /\ wire'.pipelines = {} /\ told' = wire.pipelines
        /\ UNCHANGED <<slugOf, nameOf, destination, clustered, org, changes, identifier, dryRun, held,
                       cached, round, target, moves, meant, owners, handed, reasons>>
    BY ReceiveFacts
  <1>3. pc \notin Verdicts
    BY <1>2 DEF Verdicts
  <1>4. CASE wire.kind = "ok" /\ pc' = IF dryRun THEN "previewed" ELSE "moved"
    <2>1. pc' \in {"previewed", "moved"}
      BY <1>4
    <2>2. PICK p \in Pipelines : wire.pipelines = {p} /\ (dryRun \/ moves = <<p>>)
      BY <1>1, <1>4 DEF Ledger
    <2>3. Shape'
      BY <1>1, <1>2, <1>3, <2>1, <2>2 DEF Shape, TypeOK, Verdicts
    <2>4. Ledger'
      BY <1>1, <1>2, <2>1 DEF Ledger, Verdicts
    <2>5. Naming' /\ Precedence'
      BY <1>1, <1>2, <2>1 DEF Naming, NamedNow, Precedence, Passed
    <2>6. Undisturbed'
      BY <1>1, <1>2, <2>1 DEF Undisturbed, Calm, UnambiguousGetsThere
    <2> QED  BY <2>3, <2>4, <2>5, <2>6 DEF IInv
  <1>5. CASE /\ wire.kind \in {"no pipeline", "no destination"} /\ round = 1 /\ ~cached
             /\ pc' = "lookup"
    <2>1. moves = <<>> /\ wire.pipelines = {} /\ target = identifier
      BY <1>1, <1>3, <1>5, Inputs DEF Ledger
    <2>2. Shape'
      BY <1>1, <1>2, <1>3, <1>5, <2>1 DEF Shape, TypeOK, Verdicts
    <2>3. Ledger'
      BY <1>1, <1>2, <1>5, <2>1 DEF Ledger, Verdicts
    <2>4. Naming'
      BY <1>1, <1>2 DEF Naming, NamedNow
    <2>5. Precedence'
      BY <1>1, <1>2, <1>5 DEF Precedence, Passed
    <2>6. Undisturbed'
      <3>1. Calm => BySlug(slugOf, identifier) = {}
        BY <1>1, <1>2, <1>5, <2>1 DEF Precedence, Undisturbed, Calm
      <3> QED  BY <1>1, <1>2, <1>5, <3>1 DEF Undisturbed, Calm, UnambiguousGetsThere
    <2> QED  BY <2>2, <2>3, <2>4, <2>5, <2>6 DEF IInv
  <1>6. CASE /\ wire.kind = "no pipeline" => round = 2 /\ ~cached
             /\ wire.kind \in {"no pipeline", "no destination", "not configured", "refused"}
             /\ pc' = "failed"
    <2>1. moves = <<>> /\ wire.pipelines = {}
      BY <1>1, <1>3, <1>6 DEF Ledger
    <2>2. Shape'
      BY <1>1, <1>2, <1>3, <1>6, <2>1 DEF Shape, TypeOK, Verdicts
    <2>3. Ledger'
      BY <1>1, <1>2, <1>6, <2>1 DEF Ledger, Verdicts
    <2>4. Naming' /\ Precedence'
      BY <1>1, <1>2, <1>6 DEF Naming, NamedNow, Precedence, Passed
    <2>5. changes = 0 /\ reasons = {} => destination # "set"
      <3>1. CASE wire.kind = "not configured"
        BY <1>1, <3>1 DEF Undisturbed
      <3>2. CASE wire.kind = "no pipeline"
        BY <1>1, <1>2, <1>6, <3>2 DEF Undisturbed, Calm
      <3>3. CASE wire.kind \in {"no destination", "refused"}
        BY <1>1, <3>3 DEF Precedence
      <3> QED  BY <1>6, <3>1, <3>2, <3>3
    <2>6. Undisturbed'
      BY <1>1, <1>2, <1>6, <2>5 DEF Undisturbed, Calm, UnambiguousGetsThere
    <2> QED  BY <2>2, <2>3, <2>4, <2>6 DEF IInv
  <1> QED  BY <1>4, <1>5, <1>6, ReceiveFacts

(* What ResolvePipelineSlug looks for is what the identifier names beside a slug. *)
LEMMA MatchesAreNamed ==
    ASSUME Shape
    PROVE  /\ Matches \subseteq NamedNow(slugOf, nameOf)
           /\ \A p \in Matches : p \in Pipelines /\ slugOf[p] # None
           /\ BySlug(slugOf, identifier) = {} => Matches = NamedNow(slugOf, nameOf)
  <1>1. /\ nameOf \in [Pipelines -> Labels]
        /\ identifier \in Labels \cup Pipelines /\ Labels \cap Pipelines = {}
    BY Inputs, MoveAssumption
  <1>2. CASE identifier \in Pipelines
    <2>1. \A p \in Pipelines : nameOf[p] # identifier
      BY <1>1, <1>2
    <2> QED  BY <1>2, <2>1 DEF Matches, NamedNow, ByName, IsID
  <1>3. CASE identifier \notin Pipelines
    BY <1>3 DEF Matches, NamedNow, ByName, IsID
  <1> QED  BY <1>2, <1>3

LEMMA LookupPreserves ==
    ASSUME IInv, Lookup
    PROVE  IInv'
  <1>1. Shape /\ Ledger /\ Naming /\ Precedence /\ Undisturbed
    BY DEF IInv
  <1>2. /\ pc = "lookup"
        /\ UNCHANGED <<slugOf, nameOf, destination, clustered, org, changes, identifier, dryRun, held,
                       cached, wire, told, moves, meant, owners, handed, reasons>>
    BY DEF Lookup, service, history
  <1>3. wire.kind = "none" /\ ~cached
    BY <1>1, <1>2 DEF Shape, TypeOK, Verdicts
  <1>4. moves = <<>>
    BY <1>1, <1>2, <1>3 DEF Ledger, Verdicts
  <1>5. CASE held = org /\ Cardinality(Matches) = 1
    <2>1. PICK p \in Matches : target' = slugOf[p]
      BY <1>5 DEF Lookup
    <2>2. pc' = "ask" /\ round' = 2
      BY <1>5 DEF Lookup
    <2>3. p \in Pipelines /\ slugOf[p] # None /\ p \in meant
      BY <1>1, MatchesAreNamed DEF Naming
    <2>4. target' \in Labels
      BY <1>1, <2>1, <2>3, Inputs
    <2>5. BySlug(slugOf, target') = {p}
      BY <1>1, <2>1, <2>3, Inputs DEF DistinctSlugs, BySlug
    <2>6. Shape'
      BY <1>1, <1>2, <1>3, <2>2, <2>4 DEF Shape, TypeOK, Verdicts
    <2>7. Ledger'
      BY <1>1, <1>2, <1>3, <1>4, <2>2 DEF Ledger, Verdicts
    <2>8. Naming'
      BY <1>1, <1>2, <1>3, <2>3, <2>5 DEF Naming, NamedNow
    <2>9. Precedence'
      BY <1>1, <1>2, <1>3, <1>5, <2>2 DEF Precedence, Passed
    <2>10. Undisturbed'
      BY <1>1, <1>2, <1>3, <2>2, <2>5 DEF Undisturbed, Calm, UnambiguousGetsThere
    <2> QED  BY <2>6, <2>7, <2>8, <2>9, <2>10 DEF IInv
  <1>6. CASE ~(held = org /\ Cardinality(Matches) = 1)
    <2>1. pc' = "failed" /\ UNCHANGED <<round, target>>
      BY <1>6 DEF Lookup
    <2>2. Shape'
      BY <1>1, <1>2, <1>3, <2>1 DEF Shape, TypeOK, Verdicts
    <2>3. Ledger'
      BY <1>1, <1>2, <1>3, <1>4, <2>1 DEF Ledger, Verdicts
    <2>4. Naming' /\ Precedence'
      BY <1>1, <1>2, <1>3, <2>1 DEF Naming, NamedNow, Precedence, Passed
    <2>5. Calm => owners = {} /\ Cardinality(NamedNow(slugOf, nameOf)) # 1
      <3>1. Calm => owners = {} /\ held = org /\ BySlug(slugOf, identifier) = {}
        BY <1>1, <1>2, <1>3 DEF Undisturbed, Calm
      <3> QED  BY <1>1, <1>6, <3>1, MatchesAreNamed
    <2>6. Undisturbed'
      <3>1. NamedNow(slugOf, nameOf)' = NamedNow(slugOf, nameOf)
        BY <1>2 DEF NamedNow
      <3>2. UnambiguousGetsThere'
        BY <1>2, <2>5, <3>1 DEF Calm, UnambiguousGetsThere
      <3> QED  BY <1>1, <1>2, <1>3, <2>1, <3>2 DEF Undisturbed, Calm
    <2> QED  BY <2>2, <2>3, <2>4, <2>6 DEF IInv
  <1> QED  BY <1>5, <1>6

LEMMA GiveUpPreserves ==
    ASSUME IInv, GiveUp
    PROVE  IInv'
  <1>1. Shape /\ Ledger /\ Naming /\ Precedence /\ Undisturbed
    BY DEF IInv
  <1>2. /\ pc \notin Verdicts
        /\ pc' = IF pc = "waiting" /\ ~dryRun THEN "unclear" ELSE "failed"
        /\ reasons' = reasons \cup {"gave up"}
        /\ UNCHANGED <<slugOf, nameOf, destination, clustered, org, changes, identifier, dryRun, held,
                       cached, round, target, told, wire, moves, meant, owners, handed>>
    BY DEF GiveUp, service
  <1>3. pc' \in {"unclear", "failed"}
    BY <1>2
  <1>4. pc' = "failed" => dryRun \/ wire.kind = "none"
    BY <1>1, <1>2 DEF Shape, TypeOK
  <1>5. Shape'
    BY <1>1, <1>2, <1>3, ZenonT(60) DEF Shape, TypeOK, Verdicts
  <1>6. Ledger'
    BY <1>1, <1>2, <1>3, <1>4 DEF Ledger, Verdicts
  <1>7. Naming'
    BY <1>1, <1>2, <1>3 DEF Naming, NamedNow
  <1>8. Precedence'
    <2>1. Passed => Passed'
      BY <1>2 DEF Passed
    <2> QED  BY <1>1, <1>2, <1>3, <2>1 DEF Precedence
  <1>9. Undisturbed'
    <2>1. reasons' # {}
      BY <1>2
    <2> QED  BY <1>1, <1>2, <1>3, <2>1 DEF Undisturbed, Calm, UnambiguousGetsThere
  <1> QED  BY <1>5, <1>6, <1>7, <1>8, <1>9 DEF IInv

----------------------------------------------------------------------------
LEMMA InitEstablishes == Init => IInv
  <1> SUFFICES ASSUME Init PROVE IInv
    OBVIOUS
  <1>1. /\ pc = "ask" /\ wire.kind = "none" /\ wire.pipelines = {} /\ moves = <<>> /\ told = {}
        /\ round = 1 /\ target = identifier /\ changes = 0 /\ org = 1 /\ reasons = {} /\ handed = {}
        /\ meant = NamedNow(slugOf, nameOf) /\ owners = BySlug(slugOf, identifier)
        /\ held \in {0, 1} /\ (~cached => held = org)
    BY WireFacts DEF Init, FirstStep
  <1>2. Shape
    <2>1. /\ org \in 0 .. MaxChanges + 1 /\ changes \in 0 .. MaxChanges /\ org <= changes + 1
          /\ held \in (0 .. org) \cup {None} /\ round \in 1 .. 2
          /\ identifier \in Labels \cup Pipelines
      BY <1>1, MoveAssumption DEF Init
    <2>2. meant \subseteq Pipelines /\ owners \subseteq Pipelines /\ handed \subseteq Pipelines
      BY <1>1, SlugFacts
    <2>3. TypeOK
      BY <1>1, <2>1 DEF Init, TypeOK, Verdicts
    <2> QED  BY <2>1, <2>2, <2>3 DEF Shape
  <1>3. Ledger
    BY <1>1 DEF Ledger, Verdicts
  <1>4. Naming
    BY <1>1, SlugFacts DEF Naming
  <1>5. Precedence
    BY <1>1 DEF Precedence
  <1>6. Undisturbed
    BY <1>1 DEF Undisturbed, Calm, UnambiguousGetsThere
  <1> QED  BY <1>2, <1>3, <1>4, <1>5, <1>6 DEF IInv

(* The invariant is inductive, under everything that other people change meanwhile. *)
THEOREM Inductive == Spec => []IInv
  <1>1. IInv /\ [Next]_vars => IInv'
    <2> SUFFICES ASSUME IInv, [Next]_vars PROVE IInv'
      OBVIOUS
    <2>1. CASE Others
      BY <2>1, OthersPreserve
    <2>2. CASE Answer
      BY <2>2, AcceptPreserves, RefusePreserves DEF Answer
    <2>3. CASE Proceed
      BY <2>3, AskPreserves, InvalidatePreserves, DiscoverPreserves, DiscoverNothingPreserves,
         ReceivePreserves, LookupPreserves, GiveUpPreserves
         DEF Proceed
    <2>4. CASE UNCHANGED vars
      <3>1. UNCHANGED <<slugOf, nameOf, destination, clustered, org, changes, identifier, dryRun, held,
                        cached, pc, round, target, wire, told, moves, meant, owners, handed, reasons>>
        BY <2>4 DEF vars, service, command, history
      <3>2. Shape' /\ Ledger'
        <4>1. TypeOK'
          BY <3>1, ZenonT(60) DEF IInv, Shape, TypeOK
        <4>2. Ledger'
          BY <3>1 DEF IInv, Ledger
        <4> QED  BY <3>1, <4>1, <4>2 DEF IInv, Shape
      <3>3. Naming' /\ Precedence'
        BY <3>1 DEF IInv, Naming, NamedNow, Precedence, Passed
      <3>4. Undisturbed'
        BY <3>1 DEF IInv, Undisturbed, Calm, UnambiguousGetsThere, NamedNow
      <3> QED  BY <3>2, <3>3, <3>4 DEF IInv
    <2> QED  BY <2>1, <2>2, <2>3, <2>4 DEF Next
  <1> QED  BY <1>1, InitEstablishes, PTL DEF Spec

(* No two pipelines share a slug, and only a cached organization may be out of use at first. *)
THEOREM TypeCorrect == Spec => []TypeOK
  <1>1. IInv => TypeOK
    BY DEF IInv, Shape
  <1> QED  BY <1>1, Inductive, PTL

(***************************************************************************)
(* An identifier that names one pipeline is enough: a command that met no  *)
(* change and no refusal fails for want of a destination only.             *)
(***************************************************************************)
THEOREM UnambiguousSuffices == Spec => []UnambiguousGetsThere
  <1>1. IInv => UnambiguousGetsThere
    BY DEF IInv, Undisturbed
  <1> QED  BY <1>1, Inductive, PTL

----------------------------------------------------------------------------
(* Moving is the business of one action. *)
LEMMA OnlyAcceptMoves ==
    ASSUME IInv, [Next]_vars, NEW p \in Pipelines, moves' = Append(moves, p)
    PROVE  Accept /\ slugOf[p] = target
  <1>1. moves \in Seq(Pipelines)
    <2>1. CASE moves = <<>>
      BY <2>1
    <2>2. CASE moves # <<>>
      <3>1. PICK x \in Pipelines : moves = <<x>>
        BY <2>2 DEF IInv, Ledger
      <3> QED  BY <3>1
    <2> QED  BY <2>1, <2>2
  <1>2. moves' # moves
    <2>1. Len(Append(moves, p)) = Len(moves) + 1 /\ Len(moves) \in Nat
      BY <1>1
    <2> QED  BY <2>1
  <1>3. Accept
    <2>1. Others => UNCHANGED moves
      BY OthersFacts DEF IInv
    <2>2. Refuse \/ Proceed => UNCHANGED moves
      BY DEF Refuse, Proceed, Ask, Invalidate, Discover, DiscoverNothing, Receive, Lookup, GiveUp,
             history
    <2>3. UNCHANGED vars => UNCHANGED moves
      BY DEF vars, history
    <2> QED  BY <1>2, <2>1, <2>2, <2>3 DEF Next, Answer
  <1>4. PICK x \in Pipelines :
          slugOf[x] = target /\ moves = <<>> /\ moves' = IF dryRun THEN <<>> ELSE <<x>>
    BY <1>3, AcceptFacts
  <1>5. moves' = <<p>> /\ moves' = <<x>>
    <2>1. Append(<<>>, p) = <<p>>
      OBVIOUS
    <2>2. moves' = <<p>>
      BY <1>4, <2>1
    <2>3. moves' = <<x>>
      BY <1>2, <1>4
    <2> QED  BY <2>2, <2>3
  <1>6. p = x
    BY <1>5
  <1> QED  BY <1>3, <1>4, <1>6

(***************************************************************************)
(* Whatever is renamed, created or deleted between the steps of the        *)
(* command, a pipeline that moves was named by the identifier at some      *)
(* time, or was handed the slug of one that was.                           *)
(***************************************************************************)
THEOREM MovesWhatWasMeant == Spec => OnlyTheOneMeant
  <1>1. IInv /\ [Next]_vars
           => [\A p \in Pipelines : moves' = Append(moves, p) => p \in meant \cup handed]_vars
    <2> SUFFICES ASSUME IInv, [Next]_vars, NEW p \in Pipelines, moves' = Append(moves, p)
                 PROVE  p \in meant \cup handed
      OBVIOUS
    <2>1. p \in BySlug(slugOf, target)
      BY OnlyAcceptMoves DEF BySlug
    <2> QED  BY <2>1 DEF IInv, Naming
  <1> QED  BY <1>1, Inductive, PTL DEF Spec, OnlyTheOneMeant

(***************************************************************************)
(* A slug goes before a name: another pipeline than the one with this slug *)
(* moves only after an answer about a destination out of reach.            *)
(***************************************************************************)
THEOREM SlugsGoFirst == Spec => SlugGoesFirst
  <1>1. IInv /\ [Next]_vars
           => [\A p \in Pipelines, q \in owners :
                  moves' = Append(moves, p) /\ p # q => "no destination" \in reasons]_vars
    <2> SUFFICES ASSUME IInv, [Next]_vars, NEW p \in Pipelines, NEW q \in owners,
                        moves' = Append(moves, p), p # q
                 PROVE  "no destination" \in reasons
      OBVIOUS
    <2>1. slugOf[p] = target
      BY OnlyAcceptMoves
    <2>2. q \in Pipelines /\ slugOf[q] = identifier
      BY DEF IInv, Precedence, BySlug
    <2>3. CASE round = 1
      <3>1. slugOf[p] = slugOf[q] /\ slugOf[p] # None
        BY <2>1, <2>2, <2>3, Inputs DEF IInv
      <3> QED  BY <2>2, <3>1, Inputs DEF IInv, DistinctSlugs
    <2>4. CASE round = 2
      BY <2>4 DEF IInv, Precedence, Passed
    <2> QED  BY <2>3, <2>4, Inputs DEF IInv
  <1> QED  BY <1>1, Inductive, PTL DEF Spec, SlugGoesFirst

----------------------------------------------------------------------------
LEMMA InitRefines == Init => Atomic!AtomicInit
  BY DEF Init, FirstStep, Verdicts, Atomic!AtomicInit

(* Accept is the instant of the move, the last steps of the command are its verdicts. *)
LEMMA NextRefines == IInv /\ [Next]_vars => [Atomic!AtomicNext]_(Atomic!atomicVars)
  <1> SUFFICES ASSUME IInv, [Next]_vars
               PROVE  Atomic!AtomicNext \/ UNCHANGED Atomic!atomicVars
    OBVIOUS
  <1> USE DEF Atomic!AtomicNext, Atomic!atomicVars
  <1>1. CASE Others \/ Refuse \/ Ask \/ Invalidate \/ Discover \/ DiscoverNothing
    <2>1. UNCHANGED <<dryRun, told, moves>>
      BY <1>1, OthersFacts
         DEF IInv, command, history, Refuse, Ask, Invalidate, Discover, DiscoverNothing
    <2>2. UNCHANGED pc \/ (pc \notin Verdicts /\ pc' \notin Verdicts)
      BY <1>1, OthersFacts
         DEF IInv, command, Refuse, Ask, Invalidate, Discover, DiscoverNothing, Verdicts
    <2> QED  BY <2>1, <2>2
  <1>2. CASE Accept
    <2>1. PICK p \in Pipelines :
            /\ wire.kind = "sent"
            /\ moves = <<>> /\ moves' = IF dryRun THEN <<>> ELSE <<p>>
            /\ UNCHANGED <<dryRun, pc, told>>
      BY <1>2, AcceptFacts
    <2>2. CASE dryRun
      BY <2>1, <2>2
    <2>3. CASE ~dryRun
      <3>1. pc \in Verdicts => pc = "unclear"
        BY <2>1, <2>3 DEF IInv, Ledger, Verdicts
      <3>2. Atomic!Take(p)
        BY <2>1, <2>3, <3>1 DEF Atomic!Take
      <3> QED  BY <3>2
    <2> QED  BY <2>2, <2>3 DEF IInv, Shape, TypeOK
  <1>3. CASE Receive
    <2>1. /\ pc \notin Verdicts /\ told' = wire.pipelines
          /\ UNCHANGED <<dryRun, moves>>
      BY <1>3, ReceiveFacts DEF Verdicts
    <2>2. CASE wire.kind = "ok" /\ pc' = IF dryRun THEN "previewed" ELSE "moved"
      <3>1. PICK p \in Pipelines : wire.pipelines = {p} /\ (dryRun \/ moves = <<p>>)
        BY <2>2 DEF IInv, Ledger
      <3>2. dryRun => Atomic!EndPreviewed(p)
        BY <2>1, <2>2, <3>1 DEF Atomic!EndPreviewed, Verdicts
      <3>3. ~dryRun => Atomic!EndMoved(p)
        BY <2>1, <2>2, <3>1 DEF Atomic!EndMoved, Verdicts
      <3> QED  BY <3>2, <3>3
    <2>3. CASE wire.kind # "ok" /\ pc' \in {"lookup", "failed"}
      <3>1. told' = told /\ moves = <<>>
        BY <1>3, <2>1, <2>3, ReceiveFacts DEF IInv, Ledger
      <3>2. pc' = "failed" => Atomic!EndFailed
        BY <2>1, <3>1 DEF Atomic!EndFailed, Verdicts
      <3> QED  BY <2>1, <2>3, <3>1, <3>2 DEF Verdicts
    <2> QED  BY <1>3, <2>2, <2>3, ReceiveFacts
  <1>4. CASE Lookup
    <2>1. /\ pc = "lookup" /\ pc' \in {"ask", "failed"}
          /\ UNCHANGED <<dryRun, told, moves>>
      BY <1>4 DEF Lookup, history
    <2>2. moves = <<>>
      BY <2>1 DEF IInv, Shape, TypeOK, Ledger, Verdicts
    <2>3. pc' = "failed" => Atomic!EndFailed
      BY <2>1, <2>2 DEF Atomic!EndFailed, Verdicts
    <2> QED  BY <2>1, <2>3 DEF Verdicts
  <1>5. CASE GiveUp
    <2>1. /\ pc \notin Verdicts
          /\ pc' = IF pc = "waiting" /\ ~dryRun THEN "unclear" ELSE "failed"
          /\ UNCHANGED <<dryRun, told, moves>>
      BY <1>5 DEF GiveUp
    <2>2. CASE pc = "waiting" /\ ~dryRun
      BY <2>1, <2>2 DEF Atomic!EndUnclear, Verdicts
    <2>3. CASE ~(pc = "waiting" /\ ~dryRun)
      <3>1. moves = <<>>
        BY <2>1, <2>3 DEF IInv, Shape, TypeOK, Ledger
      <3> QED  BY <2>1, <2>3, <3>1 DEF Atomic!EndFailed, Verdicts
    <2> QED  BY <2>2, <2>3
  <1>6. CASE UNCHANGED vars
    BY <1>6 DEF vars, command, history
  <1> QED  BY <1>1, <1>2, <1>3, <1>4, <1>5, <1>6 DEF Next, Answer, Proceed

(***************************************************************************)
(* `pipeline move` implements AtomicMove: at most one pipeline moves,      *)
(* once, never for a dry run or after a definite verdict, and what the     *)
(* operator is told is true of it.                                         *)
(***************************************************************************)
THEOREM Implements == Spec => ImplementsAtomicMove
  <1>1. Init => Atomic!AtomicInit
    BY InitRefines
  <1>2. IInv /\ [Next]_vars => [Atomic!AtomicNext]_(Atomic!atomicVars)
    BY NextRefines
  <1> QED  BY <1>1, <1>2, Inductive, PTL DEF Spec, ImplementsAtomicMove, Atomic!Spec

----------------------------------------------------------------------------
(***************************************************************************)
(* How many steps of the command and answers of the service are left: at   *)
(* most three requests, each sent, answered and read, with a refresh after *)
(* the first and a lookup before the last; and a late answer at the end.   *)
(***************************************************************************)
Effort ==
    IF pc \in Verdicts THEN IF wire.kind = "sent" THEN 1 ELSE 0
    ELSE IF pc = "lookup" THEN 5
    ELSE IF pc = "discover" THEN 9
    ELSE (IF cached THEN 10 ELSE IF round = 1 THEN 6 ELSE 2)
           + (IF pc = "ask" THEN 2 ELSE IF wire.kind = "sent" THEN 1 ELSE 0)

LEMMA EffortIsBounded == IInv => Effort \in 0 .. 12 /\ (Effort = 0 => pc \in Verdicts)
  BY DEF Effort

(* A refresh, a lookup or a repeated request leads on, never back. *)
LEMMA EffortShrinks ==
    ASSUME IInv, Answer \/ Proceed
    PROVE  Effort' < Effort
  <1>1. /\ cached => round = 1 /\ pc \notin {"discover", "lookup"}
        /\ pc \in {"ask", "waiting", "discover", "lookup"} \cup Verdicts
        /\ round \in {1, 2} /\ cached \in BOOLEAN
        /\ pc = "waiting" <=> wire.kind # "none" /\ pc \notin Verdicts
    BY Inputs DEF IInv, Shape, TypeOK
  <1> USE DEF Effort, Verdicts
  <1>2. CASE Answer
    <2>1. /\ wire.kind = "sent" /\ wire'.kind # "sent"
          /\ UNCHANGED <<pc, cached, round>>
      <3>1. CASE Accept
        BY <3>1, WireFacts DEF Accept, command
      <3>2. CASE Refuse
        <4>1. PICK kind \in Refusals : wire' = Reply(kind, {})
          BY <3>2 DEF Refuse
        <4>2. kind # "sent"
          BY DEF Refusals
        <4> QED  BY <3>2, <4>1, <4>2, WireFacts DEF Refuse, command
      <3> QED  BY <1>2, <3>1, <3>2 DEF Answer
    <2> QED  BY <1>1, <2>1
  <1>3. CASE Ask
    BY <1>1, <1>3, WireFacts DEF Ask
  <1>4. CASE Invalidate
    BY <1>1, <1>4, WireFacts DEF Invalidate, Refreshes
  <1>5. CASE Discover \/ DiscoverNothing
    BY <1>1, <1>5 DEF Discover, DiscoverNothing
  <1>6. CASE Receive
    <2>1. /\ pc = "waiting" /\ wire.kind # "sent" /\ wire'.kind = "none"
          /\ UNCHANGED <<cached, round>>
          /\ pc' \in Verdicts \/ (pc' = "lookup" /\ round = 1)
      <3>1. wire.kind # "sent"
        BY <1>6 DEF Receive
      <3> QED  BY <1>6, <3>1, ReceiveFacts
    <2> QED  BY <1>1, <2>1
  <1>7. CASE Lookup
    BY <1>1, <1>7 DEF Lookup
  <1>8. CASE GiveUp
    <2>1. pc \notin Verdicts /\ pc' \in Verdicts /\ UNCHANGED wire
      BY <1>8 DEF GiveUp
    <2>2. pc # "waiting" => wire.kind # "sent"
      BY <1>1, <2>1
    <2>3. Effort' = IF wire.kind = "sent" THEN 1 ELSE 0
      BY <2>1
    <2>4. Effort > (IF wire.kind = "sent" THEN 1 ELSE 0)
      BY <1>1, <2>1, <2>2
    <2> QED  BY <2>3, <2>4
  <1> QED  BY <1>2, <1>3, <1>4, <1>5, <1>6, <1>7, <1>8 DEF Proceed

(***************************************************************************)
(* Refresh, lookup and replay do not go round in circles: every step of    *)
(* the command and every answer brings it nearer to its end, and nothing   *)
(* that other people change takes it back.  With that, EveryCommandEnds    *)
(* asks of fairness only that the command takes its next step.             *)
(***************************************************************************)
THEOREM EveryStepCounts ==
    Spec => [][Effort' < Effort \/ (Others /\ Effort' = Effort)]_vars
  <1>1. IInv /\ [Next]_vars => [Effort' < Effort \/ (Others /\ Effort' = Effort)]_vars
    <2> SUFFICES ASSUME IInv, Next
                 PROVE  Effort' < Effort \/ (Others /\ Effort' = Effort)
      OBVIOUS
    <2>1. CASE Others
      <3>1. UNCHANGED <<pc, cached, round, wire>>
        BY <2>1, OthersFacts DEF IInv, command
      <3> QED  BY <2>1, <3>1 DEF Effort
    <2>2. CASE Answer \/ Proceed
      BY <2>2, EffortShrinks
    <2> QED  BY <2>1, <2>2 DEF Next
  <1> QED  BY <1>1, Inductive, PTL DEF Spec

(* A command takes twelve steps at most, and one with none left has its verdict. *)
THEOREM StepsAreFew == Spec => [](Effort \in 0 .. 12 /\ (Effort = 0 => pc \in Verdicts))
  <1> QED  BY EffortIsBounded, Inductive, PTL
=============================================================================
