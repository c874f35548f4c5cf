---------------------------- MODULE StatusReport ----------------------------
(***************************************************************************)
(* `queue status` and `concurrency-group status` join two listings: the    *)
(* migrations, each with the ID of its destination cluster, and the        *)
(* clusters, for the names.  Queue status lists the clusters first, group  *)
(* status the migrations; clusters and migrations change in between.       *)
(***************************************************************************)
EXTENDS Pages

CONSTANTS
    Migrations,     \* keys of queues or groups, positive numbers in list order
    Clusters,       \* IDs, positive numbers in list order
    Names,          \* cluster names
    None,           \* no migration, no cluster, no name
    PageSize,
    MaxChanges      \* bound: changes by others

ASSUME StatusAssumption ==
    /\ IsFiniteSet(Migrations) /\ Migrations \subseteq Nat \ {0}
    /\ IsFiniteSet(Clusters) /\ Clusters \subseteq Nat \ {0}
    /\ None \notin Names /\ None \notin Clusters
    /\ PageSize \in Nat \ {0} /\ MaxChanges \in Nat

VARIABLES
    destination,    \* [Migrations -> Clusters \cup {None}]
    nameOf,         \* [Clusters -> Names \cup {None}]
    changes,
    cmd,            \* the command: what it lists, one migration or all, and whether as JSON
    pc,             \* the request it sends next
    next,           \* the page of that request
    rows,           \* destinations of the migrations it has read
    names,          \* cluster names it has read: the map clusterNames
    calledBy,       \* names each cluster had during the run (history)
    created,        \* clusters created during the run (history)
    removed,        \* clusters deleted during the run (history)
    kept            \* migrations that have been there from the start (history)

service == <<destination, nameOf, changes>>
history == <<calledBy, created, removed, kept>>
vars    == <<service, cmd, pc, next, rows, names, history>>

Existing == { c \in Clusters : nameOf[c] # None }
Started  == { m \in Migrations : destination[m] # None }

Commands == [of: {"queues", "groups"}, only: Migrations \cup {None}, json: BOOLEAN]

TypeOK ==
    /\ destination \in [Migrations -> Clusters \cup {None}]
    /\ \A m \in Started : destination[m] \in Existing \cup removed
    /\ nameOf \in [Clusters -> Names \cup {None}]
    /\ changes \in 0 .. MaxChanges
    /\ cmd \in Commands
    /\ pc \in {"clusters", "migrations", "migration", "shown", "absent", "failed"}
    /\ next \in Nat
    /\ rows \in [Migrations -> Clusters \cup {None}]
    /\ names \in [Clusters -> Names \cup {None}]
    /\ \A m \in Migrations : rows[m] = None \/ cmd.only \in {m, None}
    /\ kept \subseteq Started

MigrationsOrOne == IF cmd.only # None THEN "migration" ELSE "migrations"

Init ==
    /\ nameOf \in [Clusters -> Names \cup {None}]
    /\ destination \in [Migrations -> Existing \cup {None}]
    /\ changes = 0
    /\ cmd \in Commands
    /\ pc = IF cmd.of = "queues" THEN "clusters" ELSE MigrationsOrOne
    /\ next = IF cmd.of = "queues" THEN 1 ELSE 0
    /\ rows = [m \in Migrations |-> None]
    /\ names = [c \in Clusters |-> None]
    /\ calledBy = [c \in Clusters |-> {nameOf[c]} \ {None}]
    /\ created = {} /\ removed = {}
    /\ kept = Started

----------------------------------------------------------------------------
Change ==
    /\ pc \in {"clusters", "migrations", "migration"} /\ changes < MaxChanges
    /\ changes' = changes + 1
    /\ UNCHANGED <<cmd, pc, next, rows, names>>

(* A cluster is created, renamed or deleted; IDs are not used again. *)
NameCluster == \E c \in Clusters \ removed, n \in Names :
    /\ Change /\ n # nameOf[c]
    /\ nameOf' = [nameOf EXCEPT ![c] = n]
    /\ calledBy' = [calledBy EXCEPT ![c] = @ \cup {n}]
    /\ created' = IF nameOf[c] = None THEN created \cup {c} ELSE created
    /\ UNCHANGED <<destination, removed, kept>>

DeleteCluster == \E c \in Existing :
    /\ Change
    /\ nameOf' = [nameOf EXCEPT ![c] = None]
    /\ removed' = removed \cup {c}
    /\ UNCHANGED <<destination, calledBy, created, kept>>

StartMigration == \E m \in Migrations \ Started, c \in Existing :
    /\ Change
    /\ destination' = [destination EXCEPT ![m] = c]
    /\ UNCHANGED <<nameOf, history>>

(* A migration is taken back; a started cutover can be, and the API deletes queue migrations. *)
StopMigration == \E m \in Started :
    /\ Change
    /\ destination' = [destination EXCEPT ![m] = None]
    /\ kept' = kept \ {m}
    /\ UNCHANGED <<nameOf, calledBy, created, removed>>

----------------------------------------------------------------------------
Goto(label, page) == pc' = label /\ next' = page

(* What follows the migrations: group status looks the names up unless nothing needs them. *)
AfterMigrations(found) ==
    IF cmd.of = "groups" /\ ~cmd.json /\ found # {} THEN "clusters" ELSE "shown"

(* Slip: migrations come in offset pages, as clusters do. *)
ListMigrationsByOffset ==
    /\ pc = "migrations"
    /\ LET page  == OffsetPage(Started, next + 1, PageSize)
           found == page \cup { m \in Migrations : rows[m] # None }
           link  == OffsetNext(Started, next + 1, PageSize)
       IN  /\ rows' = [m \in Migrations |-> IF m \in page THEN destination[m] ELSE rows[m]]
           /\ IF link # 0 THEN Goto("migrations", next + 1) ELSE Goto(AfterMigrations(found), 1)
    /\ UNCHANGED <<service, cmd, names, history>>

ListMigrations ==
    /\ pc = "migrations"
    /\ LET page  == CursorPage(Started, next, PageSize)
           found == page \cup { m \in Migrations : rows[m] # None }
           link  == CursorNext(Started, next, PageSize)
       IN  /\ rows' = [m \in Migrations |-> IF m \in page THEN destination[m] ELSE rows[m]]
           /\ IF link # 0 THEN Goto("migrations", link) ELSE Goto(AfterMigrations(found), 1)
    /\ UNCHANGED <<service, cmd, names, history>>

(* One migration; a 404 is an error of queue status and an answer of group status. *)
GetMigration ==
    /\ pc = "migration"
    /\ IF destination[cmd.only] = None
       THEN /\ Goto(IF cmd.of = "groups" THEN "absent" ELSE "failed", 0)
            /\ UNCHANGED rows
       ELSE /\ Goto(AfterMigrations({cmd.only}), 1)
            /\ rows' = [rows EXCEPT ![cmd.only] = destination[cmd.only]]
    /\ UNCHANGED <<service, cmd, names, history>>

AfterClusters == IF cmd.of = "groups" THEN "shown" ELSE MigrationsOrOne

(* Slip: each page replaces the names of the page before. *)
ListClustersAfresh ==
    /\ pc = "clusters"
    /\ LET page == OffsetPage(Existing, next, PageSize)
           link == OffsetNext(Existing, next, PageSize)
       IN  /\ names' = [c \in Clusters |-> IF c \in page THEN nameOf[c] ELSE None]
           /\ IF link # 0 THEN Goto("clusters", link) ELSE Goto(AfterClusters, 0)
    /\ UNCHANGED <<service, cmd, rows, history>>

(* Slip: names are kept by position, for a list that does not shift. *)
ListClustersInPlace ==
    /\ pc = "clusters"
    /\ LET page == OffsetPage(Existing, next, PageSize)
           link == OffsetNext(Existing, next, PageSize)
       IN  /\ names' = [c \in Clusters |-> IF c = next /\ page # {}
                                           THEN nameOf[CHOOSE d \in page : TRUE] ELSE names[c]]
           /\ IF link # 0 THEN Goto("clusters", link) ELSE Goto(AfterClusters, 0)
    /\ UNCHANGED <<service, cmd, rows, history>>

ListClusters ==
    /\ pc = "clusters"
    /\ LET page == OffsetPage(Existing, next, PageSize)
           link == OffsetNext(Existing, next, PageSize)
       IN  /\ names' = [c \in Clusters |-> IF c \in page THEN nameOf[c] ELSE names[c]]
           /\ IF link # 0 THEN Goto("clusters", link) ELSE Goto(AfterClusters, 0)
    /\ UNCHANGED <<service, cmd, rows, history>>

Fail ==
    /\ pc \in {"clusters", "migrations", "migration"}
    /\ Goto("failed", 0)
    /\ UNCHANGED <<service, cmd, rows, names, history>>

Next == \/ NameCluster \/ DeleteCluster \/ StartMigration \/ StopMigration
        \/ ListMigrations \/ GetMigration \/ ListClusters \/ Fail

Spec == Init /\ [][Next]_vars

----------------------------------------------------------------------------
(* The destination that is printed for migration m: a name if there is one, or else the ID. *)
Shown(m) == IF names[rows[m]] # None THEN names[rows[m]] ELSE rows[m]

WithNames == cmd.of = "queues" \/ ~cmd.json
Printed   == IF pc = "shown" /\ WithNames THEN { m \in Migrations : rows[m] # None } ELSE {}

(***************************************************************************)
(* A destination is never printed under another cluster's name: the name   *)
(* in a row was one that this row's cluster had during the command.        *)
(***************************************************************************)
DestinationsUnderTheirNames ==
    \A m \in Printed : Shown(m) \in calledBy[rows[m]] \cup {rows[m]}

(***************************************************************************)
(* An ID stands in for a name only for reasons that the order of the two   *)
(* listings leaves: the cluster went, or shifted when an earlier one did,  *)
(* or (queue status, which lists the clusters first) came too late.        *)
(***************************************************************************)
IDsOnlyForCause ==
    \A m \in Printed :
        names[rows[m]] = None =>
            \/ \E c \in removed : c <= rows[m]
            \/ cmd.of = "queues" /\ rows[m] \in created

(***************************************************************************)
(* A full listing shows every migration that was there all along, with its *)
(* destination, whatever is started and taken back between its pages.      *)
(***************************************************************************)
EveryMigrationIsShown ==
    pc = "shown" /\ cmd.only = None => \A m \in kept : rows[m] = destination[m]
=============================================================================
