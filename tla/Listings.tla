------------------------------ MODULE Listings ------------------------------
(***************************************************************************)
(* One command reads a list of clusters, cluster queues, pipelines or      *)
(* migrations page by page, to show it or to find the item that an         *)
(* identifier names, while other people create, delete and rename items.   *)
(* Nothing ties the pages to one instant: an offset page shifts with       *)
(* every item that comes or goes before it.                                *)
(***************************************************************************)
EXTENDS Pages

CONSTANTS
    Items,          \* IDs, positive numbers in list order
    Names,          \* names and queue keys, numbers too: a name may look like an ID
    PageSize,       \* per_page
    Readings,       \* what the command may read the list for
    MaxChanges      \* bound: changes of the list

ASSUME ListingsAssumption ==
    /\ IsFiniteSet(Items) /\ Items \subseteq Nat \ {0} /\ Names # {}
    /\ PageSize \in Nat \ {0}
    /\ MaxChanges \in Nat
    /\ Readings \subseteq {"cluster", "queue", "pipeline", "migrations"}

VARIABLES
    present,    \* the items that exist
    deleted,    \* those that are gone for good
    name,       \* the items' names
    changes,    \* how often the list changed
    reading,    \* what the command reads the list for
    identifier, \* what it looks for
    next,       \* the page it asks for next; 0 after the last one
    matched,    \* how often each item was taken for a match
    result,     \* its answer
    seen,       \* how often each item was on a page (history)
    entered,    \* items that came into the list during the reading (history)
    left,       \* items that went out of it (history)
    everNamed   \* items that the identifier named at some time (history)

list    == <<present, deleted, name, changes>>
command == <<reading, identifier, next, matched, result>>
history == <<seen, entered, left, everNamed>>
vars    == <<list, command, history>>

Verdict(k) == [kind |-> k, item |-> 0]
Found(i)   == [kind |-> "found", item |-> i]

TypeOK ==
    /\ present \subseteq Items /\ deleted \subseteq Items \ present
    /\ name \in [Items -> Names]
    /\ changes \in 0 .. MaxChanges
    /\ reading \in Readings /\ identifier \in Items \cup Names
    /\ next \in Nat
    /\ \A i \in Items : matched[i] \in 0 .. seen[i]
    /\ result \in { Verdict(k) : k \in {"open", "none", "multiple", "listed", "failed"} }
                  \cup { Found(i) : i \in Items }
    /\ \A i \in Items : seen[i] \in 0 .. Cardinality(Items) + MaxChanges
    /\ entered \subseteq Items /\ left \subseteq Items /\ everNamed \subseteq Items

(* Migrations come with cursors, everything else with offsets. *)
Cursor == reading = "migrations"

(* isUUID: whether the identifier has the form of an ID. *)
LooksLikeID == identifier \in Items

(* The list that is paged: the service filters pipelines by name, and only then. *)
Listed(there, named) ==
    IF reading = "pipeline" /\ ~LooksLikeID
    THEN { i \in there : named[i] = identifier } ELSE there

(* Slip: a cluster is looked for by its name only. *)
MatchesByName(i, named) == reading # "migrations" /\ named[i] = identifier

(* Items that are kept as candidates when their page is read. *)
Matches(i, named) ==
    \/ reading \in {"cluster", "queue", "pipeline"} /\ named[i] = identifier
    \/ reading = "cluster" /\ i = identifier

(* Items that end the reading on the spot: a queue by key, a pipeline by ID. *)
Settles(i, named) ==
    \/ reading = "queue" /\ named[i] = identifier
    \/ reading = "pipeline" /\ i = identifier

(* What a reader of one instant would find. *)
Named(there, named) == { i \in there : Matches(i, named) \/ Settles(i, named) }

Init ==
    /\ present \in SUBSET Items
    /\ deleted = {}
    /\ name \in [Items -> Names]
    /\ changes = 0
    /\ reading \in Readings
    /\ identifier \in IF reading = "migrations" THEN {CHOOSE n \in Names : TRUE}
                      ELSE IF reading = "queue" THEN Names ELSE Items \cup Names
    /\ next = IF Cursor THEN 0 ELSE 1
    /\ matched = [i \in Items |-> 0]
    /\ result = Verdict("open")
    /\ seen = [i \in Items |-> 0]
    /\ entered = {} /\ left = {}
    /\ everNamed = Named(present, name)

----------------------------------------------------------------------------
(* Other people's changes, as far as they matter to the command. *)
Change(there, named) ==
    /\ result.kind = "open" /\ changes < MaxChanges
    /\ changes' = changes + 1
    /\ present' = there /\ name' = named
    /\ entered' = entered \cup (Listed(there, named) \ Listed(present, name))
    /\ left' = left \cup (Listed(present, name) \ Listed(there, named))
    /\ everNamed' = everNamed \cup Named(there, named)
    /\ UNCHANGED <<command, seen>>

Create == \E i \in Items \ (present \cup deleted) :
    /\ Change(present \cup {i}, name)
    /\ UNCHANGED deleted

Delete == \E i \in present :
    /\ Change(present \ {i}, name)
    /\ deleted' = deleted \cup {i}

Rename == \E i \in present, n \in Names :
    /\ n # name[i]
    /\ Change(present, [name EXCEPT ![i] = n])
    /\ UNCHANGED deleted

----------------------------------------------------------------------------
(* The page asked for and the link that comes with it. *)
Page == IF Cursor THEN CursorPage(Listed(present, name), next, PageSize)
        ELSE OffsetPage(Listed(present, name), next, PageSize)

NextPage == IF Cursor THEN CursorNext(Listed(present, name), next, PageSize)
            ELSE OffsetNext(Listed(present, name), next, PageSize)

(* Slip: the first match is the answer, whether or not there are more. *)
ConcludeFirst(found) ==
    IF reading = "migrations" THEN {Verdict("listed")}
    ELSE IF \A i \in Items : found[i] = 0 THEN {Verdict("none")}
    ELSE { Found(i) : i \in { j \in Items : found[j] > 0 } }

(* What the matches amount to after the last page. *)
Conclude(found) ==
    LET only == { i \in Items : found[i] = 1 /\ \A j \in Items \ {i} : found[j] = 0 } IN
    IF reading = "migrations" THEN {Verdict("listed")}
    ELSE IF \A i \in Items : found[i] = 0 THEN {Verdict("none")}
    ELSE IF only = {} THEN {Verdict("multiple")}
    ELSE { Found(i) : i \in only }

Read(following) ==
    /\ result.kind = "open"
    /\ seen' = [i \in Items |-> seen[i] + IF i \in Page THEN 1 ELSE 0]
    /\ matched' = [i \in Items |-> matched[i] + IF i \in Page /\ Matches(i, name) THEN 1 ELSE 0]
    /\ next' = following
    /\ LET settled == { i \in Page : Settles(i, name) } IN
          result' \in IF settled # {} THEN { Found(i) : i \in settled }
                      ELSE IF following = 0 THEN Conclude(matched') ELSE {Verdict("open")}
    /\ UNCHANGED <<list, reading, identifier, entered, left, everNamed>>

(* Slip: the link to the next page is not followed. *)
ReadFirstPage == Read(0)

(* One turn of the loops over pages: collect, stop early, or go on to the next link. *)
ReadPage == Read(NextPage)

(* A request fails: the listing ends without an answer. *)
Fail ==
    /\ result.kind = "open"
    /\ result' = Verdict("failed")
    /\ UNCHANGED <<list, reading, identifier, next, matched, history>>

Next == Create \/ Delete \/ Rename \/ ReadPage \/ Fail

Spec == Init /\ [][Next]_vars

----------------------------------------------------------------------------
Complete == result.kind \in {"none", "multiple", "listed"}
Steady   == Listed(present, name) \ (entered \cup left)     \* in the list all along

(***************************************************************************)
(* Which mistakes a listing can make, and why: an item that was there all  *)
(* along is missed only if one before it went, and is met twice only if    *)
(* one before it came.  A cursor misses and repeats nothing.               *)
(***************************************************************************)
ShiftsExplainErrors ==
    Complete =>
        \A i \in Steady :
            /\ seen[i] = 0 => ~Cursor /\ \E j \in left : j < i
            /\ seen[i] > 1 => ~Cursor /\ \E j \in entered : j < i

(***************************************************************************)
(* Over a list that does not change, ResolveCluster, RequireClusterQueue   *)
(* and ResolvePipelineSlug answer as their messages say: an item named by  *)
(* ID or name, none, or several; a pipeline's ID wins over a name that     *)
(* looks like it, and other names need to be unique.                       *)
(***************************************************************************)
AnswersAsNamed ==
    changes = 0 /\ result.kind \in {"found", "none", "multiple"} =>
        LET named == Named(present, name)
            byID  == IF reading = "pipeline" THEN named \cap {identifier} ELSE {}
        IN  IF byID # {} THEN result = Found(identifier)
            ELSE /\ result.kind = "none" <=> named = {}
                 /\ result.kind = "multiple" <=> Cardinality(named) > 1 /\ reading # "queue"
                 /\ result.kind = "found" => result.item \in named

(***************************************************************************)
(* Whatever changes: the item that is answered was named by the identifier *)
(* during the reading, and one that bore the identifier as its ID, or as   *)
(* the name searched for, all along is passed over only after a removal    *)
(* before it; so a name is taken for unique wrongly only then.             *)
(***************************************************************************)
OverlooksOnlyAfterRemoval ==
    /\ result.kind = "found" => result.item \in everNamed
    /\ result.kind \in {"found", "none"} /\ reading \in {"cluster", "pipeline"} =>
          \A i \in Steady :
              result # Found(i) /\ (i = identifier \/ (reading = "pipeline" /\ ~LooksLikeID))
                  => \E j \in left : j < i
=============================================================================
