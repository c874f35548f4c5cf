-------------------------- MODULE StatusReportProof --------------------------
(***************************************************************************)
(* Proofs about StatusReport, for any migrations and clusters, pages of    *)
(* any size and any number of changes between the pages.  The invariant    *)
(* counts: a cluster that has not been read is still at or behind the      *)
(* offset of the next page, and a migration that stays has been read if it *)
(* is not behind the cursor.                                               *)
(***************************************************************************)
EXTENDS StatusReport, FiniteSetTheorems, WellFoundedInduction, TLAPS

Shape ==
    /\ TypeOK
    /\ calledBy \in [Clusters -> SUBSET Names]
    /\ created \subseteq Clusters /\ removed \subseteq Clusters

(* The names a cluster goes by, at the service and in the report, are names it has had. *)
Called == \A c \in Clusters : nameOf[c] \in calledBy[c] \cup {None} /\ names[c] \in calledBy[c] \cup {None}

(* The order of the two listings, and what a row names. *)
Ordered ==
    /\ pc = "migrations" => cmd.only = None
    /\ pc = "migration" => cmd.only # None
    /\ pc = "clusters" => next >= 1
    /\ \A m \in Migrations : rows[m] # None => rows[m] \in Existing \cup removed
    /\ cmd.of = "groups" /\ pc \in {"migration", "migrations"} => \A c \in Clusters : names[c] = None

(* The migrations that stay are read up to the cursor. *)
ReadInOrder ==
    cmd.only = None =>
        /\ pc = "migrations" => \A m \in kept : m <= next => rows[m] = destination[m]
        /\ pc = "shown" \/ (pc = "clusters" /\ cmd.of = "groups") =>
              \A m \in kept : rows[m] = destination[m]

(* A cluster that has nothing to excuse its ID in place of its name. *)
Owed(c) ==
    /\ c \in Existing /\ \A d \in removed : d > c
    /\ c \notin created \/ (cmd.of = "groups" /\ \E m \in Migrations : rows[m] = c)

Position(c) == Cardinality({ d \in Existing : d < c })

AllTold == \A c \in Clusters : Owed(c) => names[c] # None

NothingPassedOver ==
    /\ pc = "clusters" =>
          \A c \in Clusters : Owed(c) /\ names[c] = None => (next - 1) * PageSize <= Position(c)
    /\ cmd.of = "queues" /\ pc \in {"migration", "migrations", "shown"} => AllTold
    /\ cmd.of = "groups" /\ ~cmd.json /\ pc = "shown" => AllTold \/ \A m \in Migrations : rows[m] = None

IInv == Shape /\ Called /\ Ordered /\ ReadInOrder /\ NothingPassedOver

----------------------------------------------------------------------------
(* Numbers have a least, and finite sets of them a greatest. *)
LEMMA LeastExists ==
    ASSUME NEW S \in SUBSET Nat, S # {}
    PROVE  \E m \in S : \A s \in S : m <= s
  <1> DEFINE Less == OpToRel(<, Nat)
  <1>1. PICK m \in S : \A s \in S : <<s, m>> \notin Less
    <2>1. IsWellFoundedOn(Less, Nat)
      BY NatLessThanWellFounded
    <2> HIDE DEF Less
    <2> QED  BY <2>1, WFMin
  <1>2. \A s \in S : ~(s < m)
    BY <1>1 DEF OpToRel
  <1> QED  BY <1>2

(* Induction over the finite sets, as their being well-founded. *)
LEMMA GreatestExists ==
    ASSUME NEW S \in SUBSET Nat, IsFiniteSet(S), S # {}
    PROVE  \E m \in S : \A s \in S : s <= m
  <1> DEFINE Finite   == FiniteSubsetsOf(Nat)
             Smaller  == StrictSubsetOrdering(Nat)
             Topless  == { A \in Finite : A # {} /\ ~\E m \in A : \A s \in A : s <= m }
  <1>1. SUFFICES ASSUME Topless # {} PROVE FALSE
    BY DEF FiniteSubsetsOf
  <1>2. PICK A \in Topless : \A B \in Topless : <<B, A>> \notin Smaller
    <2>1. IsWellFoundedOn(Smaller, Finite)
      BY FS_StrictSubsetOrderingWellFounded
    <2>2. Topless \subseteq Finite
      OBVIOUS
    <2> HIDE DEF Finite, Smaller, Topless
    <2> QED  BY <1>1, <2>1, <2>2, WFMin
  <1>3. PICK a \in A : TRUE
    OBVIOUS
  <1>4. /\ A \in SUBSET Nat /\ IsFiniteSet(A) /\ A \ {a} \in SUBSET Nat
        /\ IsFiniteSet(A \ {a}) /\ A \ {a} # A
    BY <1>3, FS_RemoveElement DEF FiniteSubsetsOf
  <1>5. A \ {a} \notin Topless
    BY <1>2, <1>4 DEF StrictSubsetOrdering, FiniteSubsetsOf
  <1>6. A \ {a} # {}
    BY <1>2, <1>3, <1>4
  <1>7. PICK g \in A \ {a} : \A s \in A \ {a} : s <= g
    BY <1>4, <1>5, <1>6 DEF FiniteSubsetsOf
  <1> QED  BY <1>2, <1>3, <1>4, <1>7

----------------------------------------------------------------------------
(* Counting in finite sets of numbers. *)
LEMMA BeforeIsCounted ==
    ASSUME NEW S \in SUBSET Nat, IsFiniteSet(S), NEW i \in Nat
    PROVE  /\ Cardinality(S) \in Nat /\ Cardinality({ j \in S : j < i }) \in Nat
           /\ i \in S => Cardinality({ j \in S : j < i }) < Cardinality(S)
           /\ \A k \in Nat : i <= k => Cardinality({ j \in S : j < i }) <= Cardinality({ j \in S : j < k })
           /\ (\A j \in S : ~(j < i)) => Cardinality({ j \in S : j < i }) = 0
  <1> DEFINE Before(k) == { j \in S : j < k }
  <1>1. \A k \in Nat : /\ Before(k) \in SUBSET S /\ IsFiniteSet(Before(k))
                       /\ Cardinality(Before(k)) \in Nat /\ Cardinality(Before(k)) <= Cardinality(S)
                       /\ Cardinality(S) = Cardinality(Before(k)) => S = Before(k)
    <2> TAKE k \in Nat
    <2>1. Before(k) \in SUBSET S
      OBVIOUS
    <2> HIDE DEF Before
    <2> QED  BY <2>1, FS_Subset, FS_CardinalityType
  <1>2. Cardinality(S) \in Nat
    BY FS_CardinalityType
  <1>3. ASSUME i \in S PROVE Cardinality(Before(i)) < Cardinality(S)
    <2>1. S # Before(i)
      BY <1>3
    <2> HIDE DEF Before
    <2> QED  BY <1>1, <1>2, <2>1
  <1>4. ASSUME NEW k \in Nat, i <= k PROVE Cardinality(Before(i)) <= Cardinality(Before(k))
    <2>1. Before(i) \in SUBSET Before(k)
      <3>1. ASSUME NEW j \in S, j < i PROVE j < k
        BY <1>4, <3>1
      <3> QED  BY <3>1
    <2> HIDE DEF Before
    <2> QED  BY <1>1, <2>1, FS_Subset
  <1>5. ASSUME \A j \in S : ~(j < i) PROVE Cardinality(Before(i)) = 0
    <2>1. Before(i) = {}
      BY <1>5
    <2> QED  BY <2>1, FS_EmptySet
  <1> QED  BY <1>1, <1>2, <1>3, <1>4, <1>5

(* A page of a cursor has what comes next after the cursor, up to the cursor of the page after it. *)
LEMMA CursorCovers ==
    ASSUME NEW S \in SUBSET (Nat \ {0}), IsFiniteSet(S), NEW last \in Nat, NEW size \in Nat \ {0}
    PROVE  /\ CursorPage(S, last, size) \subseteq { i \in S : i > last }
           /\ CursorNext(S, last, size) \in Nat
           /\ CursorNext(S, last, size) = 0 => CursorPage(S, last, size) = { i \in S : i > last }
           /\ CursorNext(S, last, size) # 0 =>
                 \A i \in S : last < i /\ i <= CursorNext(S, last, size) => i \in CursorPage(S, last, size)
  <1> DEFINE rest == { i \in S : i > last }
             page == CursorPage(S, last, size)
             link == CursorNext(S, last, size)
             before(i) == Cardinality({ j \in rest : j < i })
  <1>1. rest \in SUBSET Nat /\ IsFiniteSet(rest)
    <2>1. rest \in SUBSET S
      OBVIOUS
    <2> HIDE DEF rest
    <2> QED  BY <2>1, FS_Subset
  <1>2. page = { i \in rest : 0 <= before(i) /\ before(i) < 0 + size }
    BY DEF CursorPage, Slice
  <1>3. /\ Cardinality(rest) \in Nat
        /\ \A i \in Nat : /\ before(i) \in Nat
                          /\ i \in rest => before(i) < Cardinality(rest)
                          /\ \A k \in Nat : i <= k => before(i) <= before(k)
                          /\ (\A j \in rest : ~(j < i)) => before(i) = 0
    <2>1. Cardinality(rest) \in Nat
      BY <1>1, FS_CardinalityType
    <2>2. ASSUME NEW i \in Nat
          PROVE  /\ before(i) \in Nat
                 /\ i \in rest => before(i) < Cardinality(rest)
                 /\ \A k \in Nat : i <= k => before(i) <= before(k)
                 /\ (\A j \in rest : ~(j < i)) => before(i) = 0
      <3> HIDE DEF rest
      <3> QED  BY <1>1, BeforeIsCounted
    <2> QED  BY <2>1, <2>2
  <1>4. CASE Cardinality(rest) <= size
    <2>1. link = 0
      <3>1. ~(Cardinality(rest) > size)
        BY <1>3, <1>4
      <3> QED  BY <3>1 DEF CursorNext
    <2>2. page = rest
      <3>1. ASSUME NEW i \in rest PROVE 0 <= before(i) /\ before(i) < 0 + size
        <4>1. i \in Nat
          BY <1>1
        <4> HIDE DEF rest, before
        <4>2. before(i) \in Nat /\ before(i) < Cardinality(rest)
          BY <1>3, <4>1
        <4> QED  BY <1>3, <1>4, <4>2
      <3> HIDE DEF rest, before, page
      <3> QED  BY <1>2, <3>1
    <2> QED  BY <2>1, <2>2
  <1>5. CASE ~(Cardinality(rest) <= size)
    <2>1. page # {}
      <3>1. rest # {}
        BY <1>1, <1>5, FS_EmptySet
      <3>2. PICK m \in rest : \A s \in rest : m <= s
        <4> HIDE DEF rest
        <4> QED  BY <1>1, <3>1, LeastExists
      <3>3. before(m) = 0
        <4> HIDE DEF rest, before
        <4> QED  BY <1>1, <1>3, <3>2
      <3> HIDE DEF rest, before, page
      <3> QED  BY <1>2, <3>2, <3>3
    <2>2. page \in SUBSET rest /\ page \in SUBSET Nat /\ IsFiniteSet(page)
      <3> HIDE DEF rest, before, page
      <3> QED  BY <1>1, <1>2, FS_Subset
    <2>3. link = CHOOSE i \in page : \A j \in page : j <= i
      <3>1. Cardinality(rest) > size
        BY <1>3, <1>5
      <3> QED  BY <3>1 DEF CursorNext
    <2>4. link \in page /\ \A j \in page : j <= link
      <3> HIDE DEF page, link
      <3> QED  BY <2>1, <2>2, <2>3, GreatestExists
    <2>5. ASSUME NEW i \in rest, i <= link PROVE i \in page
      <3> HIDE DEF rest, page, link, before
      <3> QED  BY <1>1, <1>2, <1>3, <2>2, <2>4, <2>5
    <2>6. link # 0 /\ link \in Nat
      BY <2>2, <2>4
    <2>7. \A i \in S : last < i /\ i <= link => i \in page
      <3>1. ASSUME NEW i \in S, last < i PROVE i \in rest
        BY <3>1
      <3> HIDE DEF rest, page, link
      <3> QED  BY <2>5, <3>1
    <2> QED  BY <2>2, <2>6, <2>7
  <1> QED  BY <1>4, <1>5

(* An offset page has what is at or behind its offset, or else it is behind the next one. *)
LEMMA OffsetCovers ==
    ASSUME NEW S \in SUBSET Nat, IsFiniteSet(S), NEW n \in Nat \ {0}, NEW size \in Nat \ {0},
           NEW i \in S, (n - 1) * size <= Cardinality({ j \in S : j < i })
    PROVE  /\ i \notin OffsetPage(S, n, size) => n * size <= Cardinality({ j \in S : j < i })
           /\ OffsetNext(S, n, size) = 0 => i \in OffsetPage(S, n, size)
  <1> DEFINE before == Cardinality({ j \in S : j < i })
  <1>1. before \in Nat /\ Cardinality(S) \in Nat /\ before < Cardinality(S)
    BY BeforeIsCounted
  <1>2. (n - 1) * size + size = n * size /\ n * size \in Nat
    OBVIOUS
  <1>3. i \in OffsetPage(S, n, size) <=> before < (n - 1) * size + size
    BY DEF OffsetPage, Slice
  <1>4. OffsetNext(S, n, size) = 0 => ~(Cardinality(S) > n * size)
    BY DEF OffsetNext
  <1>5. (n - 1) * size <= before
    OBVIOUS
  <1>6. /\ ~(before < (n - 1) * size + size) => n * size <= before
        /\ Cardinality(S) <= n * size => before < (n - 1) * size + size
    <2> HIDE DEF before
    <2> QED  BY <1>1, <1>2, <1>5
  <1> QED  BY <1>1, <1>2, <1>3, <1>4, <1>6

----------------------------------------------------------------------------
Labels == {"clusters", "migrations", "migration", "shown", "absent", "failed"}

LEMMA Inputs ==
    ASSUME Shape
    PROVE  /\ Existing \in SUBSET Clusters /\ Existing \in SUBSET Nat /\ IsFiniteSet(Existing)
           /\ Started \in SUBSET (Nat \ {0}) /\ Started \in SUBSET Migrations /\ IsFiniteSet(Started)
           /\ Clusters \in SUBSET (Nat \ {0}) /\ Migrations \in SUBSET (Nat \ {0})
           /\ None \notin Names /\ None \notin Clusters
           /\ PageSize \in Nat \ {0} /\ MaxChanges \in Nat /\ next \in Nat
           /\ cmd \in Commands /\ pc \in Labels
           /\ nameOf \in [Clusters -> Names \cup {None}] /\ names \in [Clusters -> Names \cup {None}]
           /\ destination \in [Migrations -> Clusters \cup {None}]
           /\ rows \in [Migrations -> Clusters \cup {None}]
           /\ changes \in Nat /\ changes <= MaxChanges
           /\ created \in SUBSET Clusters /\ removed \in SUBSET Clusters /\ kept \in SUBSET Started
  <1>1. /\ Existing \in SUBSET Clusters /\ Started \in SUBSET Migrations
        /\ IsFiniteSet(Clusters) /\ IsFiniteSet(Migrations)
        /\ Clusters \in SUBSET (Nat \ {0}) /\ Migrations \in SUBSET (Nat \ {0})
    BY StatusAssumption DEF Existing, Started
  <1>2. IsFiniteSet(Existing) /\ IsFiniteSet(Started)
    BY <1>1, FS_Subset
  <1>3. /\ Existing \in SUBSET Nat /\ Started \in SUBSET (Nat \ {0})
    BY <1>1
  <1>4. /\ cmd \in Commands /\ pc \in Labels /\ next \in Nat
        /\ nameOf \in [Clusters -> Names \cup {None}] /\ names \in [Clusters -> Names \cup {None}]
        /\ destination \in [Migrations -> Clusters \cup {None}]
        /\ rows \in [Migrations -> Clusters \cup {None}]
        /\ changes \in 0 .. MaxChanges
        /\ created \in SUBSET Clusters /\ removed \in SUBSET Clusters /\ kept \in SUBSET Started
    BY DEF Shape, TypeOK, Labels
  <1>5. PageSize \in Nat \ {0} /\ MaxChanges \in Nat /\ None \notin Names /\ None \notin Clusters
    BY StatusAssumption
  <1>6. changes \in Nat /\ changes <= MaxChanges
    BY <1>4, <1>5
  <1> QED  BY <1>1, <1>2, <1>3, <1>4, <1>5, <1>6

LEMMA PositionIsCounted ==
    ASSUME Shape, NEW c \in Clusters
    PROVE  Position(c) \in Nat
  BY Inputs, BeforeIsCounted DEF Position

LEMMA InitEstablishes == Init => IInv
  <1> SUFFICES ASSUME Init PROVE IInv
    OBVIOUS
  <1>1. /\ cmd \in Commands /\ changes = 0 /\ rows = [m \in Migrations |-> None]
        /\ names = [c \in Clusters |-> None] /\ created = {} /\ removed = {} /\ kept = Started
        /\ nameOf \in [Clusters -> Names \cup {None}]
        /\ destination \in [Migrations -> Existing \cup {None}]
        /\ calledBy = [c \in Clusters |-> {nameOf[c]} \ {None}]
    BY DEF Init
  <1>2. \/ cmd.of = "queues" /\ pc = "clusters" /\ next = 1
        \/ cmd.of = "groups" /\ cmd.only # None /\ pc = "migration" /\ next = 0
        \/ cmd.of = "groups" /\ cmd.only = None /\ pc = "migrations" /\ next = 0
    <2>1. cmd.of \in {"queues", "groups"} /\ "queues" # "groups"
      BY <1>1 DEF Commands
    <2>2. CASE cmd.of = "queues"
      BY <2>2 DEF Init, MigrationsOrOne
    <2>3. CASE cmd.of = "groups" /\ cmd.only # None
      BY <2>3 DEF Init, MigrationsOrOne
    <2>4. CASE cmd.of = "groups" /\ cmd.only = None
      BY <2>4 DEF Init, MigrationsOrOne
    <2> QED  BY <2>1, <2>2, <2>3, <2>4
  <1>3. Shape
    <2>1. Existing \in SUBSET Clusters /\ \A m \in Started : destination[m] \in Existing \cup removed
      BY <1>1 DEF Existing, Started
    <2>2. destination \in [Migrations -> Clusters \cup {None}] /\ MaxChanges \in Nat
      BY <1>1, <2>1, StatusAssumption
    <2>3. TypeOK
      BY <1>1, <1>2, <2>1, <2>2 DEF TypeOK
    <2> QED  BY <1>1, <2>3 DEF Shape
  <1>4. Called /\ Ordered
    BY <1>1, <1>2 DEF Called, Ordered
  <1>5. ReadInOrder
    BY <1>2, <1>3, Inputs DEF ReadInOrder
  <1>6. NothingPassedOver
    <2>1. pc = "clusters" => next = 1 /\ (next - 1) * PageSize = 0
      BY <1>2, StatusAssumption
    <2> QED  BY <1>2, <1>3, <2>1, PositionIsCounted DEF NothingPassedOver
  <1> QED  BY <1>3, <1>4, <1>5, <1>6 DEF IInv

----------------------------------------------------------------------------
(* Changes by others: nothing new is owed, and nothing that is owed moves forward. *)
LEMMA ChangePreserves ==
    ASSUME IInv, Shape', Called', Change,
           UNCHANGED <<cmd, pc, next, rows, names>>,
           Existing \subseteq Existing' \cup removed', removed \subseteq removed',
           \A m \in kept' : m \in kept /\ destination'[m] = destination[m],
           \A c \in Clusters : Owed(c)' => Owed(c) /\ Position(c) <= Position(c)'
    PROVE  IInv'
  <1>1. Ordered'
    BY DEF IInv, Ordered
  <1>2. ReadInOrder'
    BY DEF IInv, ReadInOrder
  <1>3. NothingPassedOver'
    <2>1. pc # "shown"
      BY DEF Change
    <2>2. ASSUME NEW c \in Clusters, Owed(c)', names[c] = None, pc = "clusters"
          PROVE  (next - 1) * PageSize <= Position(c)'
      <3>1. (next - 1) * PageSize <= Position(c) /\ Position(c) <= Position(c)'
        BY <2>2 DEF IInv, NothingPassedOver
      <3>2. Position(c) \in Nat /\ Position(c)' \in Nat
        <4>1. Existing' \in SUBSET Clusters /\ IsFiniteSet(Clusters) /\ Clusters \in SUBSET Nat
          BY StatusAssumption DEF Existing
        <4>2. Position(c)' \in Nat
          BY <4>1, FS_Subset, BeforeIsCounted DEF Position
        <4> QED  BY <4>2, PositionIsCounted DEF IInv
      <3>3. (next - 1) * PageSize \in Int
        BY Inputs DEF IInv
      <3> QED  BY <3>1, <3>2, <3>3
    <2>3. cmd.of = "queues" /\ pc \in {"migration", "migrations"} => AllTold'
      BY DEF IInv, NothingPassedOver, AllTold
    <2> QED  BY <2>1, <2>2, <2>3 DEF NothingPassedOver
  <1> QED  BY <1>1, <1>2, <1>3 DEF IInv

LEMMA NameClusterPreserves ==
    ASSUME IInv, NameCluster
    PROVE  IInv'
  <1>1. PICK c \in Clusters \ removed, n \in Names :
           /\ Change /\ n # nameOf[c]
           /\ nameOf' = [nameOf EXCEPT ![c] = n]
           /\ calledBy' = [calledBy EXCEPT ![c] = @ \cup {n}]
           /\ created' = IF nameOf[c] = None THEN created \cup {c} ELSE created
           /\ UNCHANGED <<destination, removed, kept>>
    BY DEF NameCluster
  <1>2. /\ changes < MaxChanges /\ changes' = changes + 1
        /\ UNCHANGED <<cmd, pc, next, rows, names>>
    BY <1>1 DEF Change
  <1>3. /\ Existing' = Existing \cup {c} /\ Started' = Started
        /\ nameOf' \in [Clusters -> Names \cup {None}]
    BY <1>1, Inputs DEF IInv, Existing, Started
  <1>4. TypeOK'
    BY <1>1, <1>2, <1>3, Inputs DEF IInv, Shape, TypeOK
  <1>5. Shape'
    BY <1>1, <1>4 DEF IInv, Shape
  <1>6. Called'
    BY <1>1, <1>2, Inputs DEF IInv, Shape, Called
  <1>7. ASSUME NEW x \in Clusters, Owed(x)' PROVE Owed(x) /\ Position(x) <= Position(x)'
    <2>1. /\ x \in Existing' /\ \A d \in removed : d > x
          /\ x \notin created' \/ (cmd.of = "groups" /\ \E m \in Migrations : rows[m] = x)
      BY <1>1, <1>2, <1>7 DEF Owed
    <2>2. Owed(x)
      <3>1. CASE nameOf[c] # None
        BY <1>1, <1>3, <2>1, <3>1 DEF Owed, Existing
      <3>2. CASE nameOf[c] = None
        <4>1. c \notin Existing /\ \A m \in Migrations : rows[m] # c
          BY <1>1, <3>2, Inputs DEF IInv, Ordered, Existing
        <4> QED  BY <1>1, <1>3, <2>1, <3>2, <4>1 DEF Owed
      <3> QED  BY <3>1, <3>2
    <2>3. { d \in Existing : d < x } \in SUBSET { d \in Existing' : d < x }
      BY <1>3
    <2>4. IsFiniteSet({ d \in Existing' : d < x })
      <3>1. IsFiniteSet(Existing')
        BY <1>3, Inputs, FS_AddElement DEF IInv
      <3>2. { d \in Existing' : d < x } \in SUBSET Existing'
        OBVIOUS
      <3> QED  BY <3>1, <3>2, FS_Subset
    <2> QED  BY <2>2, <2>3, <2>4, FS_Subset DEF Position
  <1> QED  BY <1>1, <1>2, <1>3, <1>5, <1>6, <1>7, ChangePreserves

LEMMA DeleteClusterPreserves ==
    ASSUME IInv, DeleteCluster
    PROVE  IInv'
  <1>1. PICK c \in Existing :
           /\ Change
           /\ nameOf' = [nameOf EXCEPT ![c] = None]
           /\ removed' = removed \cup {c}
           /\ UNCHANGED <<destination, calledBy, created, kept>>
    BY DEF DeleteCluster
  <1>2. /\ changes < MaxChanges /\ changes' = changes + 1
        /\ UNCHANGED <<cmd, pc, next, rows, names>>
    BY <1>1 DEF Change
  <1>3. /\ Existing' = Existing \ {c} /\ Started' = Started /\ c \in Clusters
        /\ nameOf' \in [Clusters -> Names \cup {None}]
    BY <1>1, Inputs DEF IInv, Existing, Started
  <1>4. TypeOK'
    BY <1>1, <1>2, <1>3, Inputs DEF IInv, Shape, TypeOK
  <1>5. Shape'
    BY <1>1, <1>3, <1>4 DEF IInv, Shape
  <1>6. Called'
    BY <1>1, <1>2, <1>3, Inputs DEF IInv, Shape, Called
  <1>7. ASSUME NEW x \in Clusters, Owed(x)' PROVE Owed(x) /\ Position(x) <= Position(x)'
    <2>1. /\ x \in Existing' /\ \A d \in removed' : d > x
          /\ x \notin created \/ (cmd.of = "groups" /\ \E m \in Migrations : rows[m] = x)
      BY <1>1, <1>2, <1>7 DEF Owed
    <2>2. Owed(x)
      BY <1>1, <1>3, <2>1 DEF Owed
    <2>3. c > x /\ c \in Nat /\ x \in Nat
      BY <1>1, <1>3, <2>1, Inputs DEF IInv
    <2>4. { d \in Existing' : d < x } = { d \in Existing : d < x }
      BY <1>3, <2>3
    <2>5. Position(x)' = Position(x)
      BY <2>4 DEF Position
    <2> QED  BY <2>2, <2>5, PositionIsCounted DEF IInv
  <1> QED  BY <1>1, <1>2, <1>3, <1>5, <1>6, <1>7, ChangePreserves

LEMMA MigrationChangePreserves ==
    ASSUME IInv, StartMigration \/ StopMigration
    PROVE  IInv'
  <1>1. /\ Change /\ changes < MaxChanges /\ changes' = changes + 1
        /\ UNCHANGED <<cmd, pc, next, rows, names, nameOf, calledBy, created, removed>>
    BY DEF StartMigration, StopMigration, Change, history
  <1>2. PICK m \in Migrations, to \in Existing \cup {None} :
           /\ destination' = [destination EXCEPT ![m] = to]
           /\ \/ m \notin Started /\ kept' = kept
              \/ to = None /\ kept' = kept \ {m}
    BY DEF StartMigration, StopMigration, Started, history
  <1>3. Existing' = Existing
    BY <1>1 DEF Existing
  <1>4. /\ destination' \in [Migrations -> Clusters \cup {None}]
        /\ \A k \in kept' : k \in kept /\ k \in Migrations /\ destination'[k] = destination[k]
    BY <1>2, Inputs DEF IInv
  <1>5. TypeOK'
    <2>1. \A k \in Started' : destination'[k] \in Existing' \cup removed'
      BY <1>1, <1>2, <1>3, Inputs DEF IInv, Shape, TypeOK, Started
    <2>2. kept' \subseteq Started'
      BY <1>4, Inputs DEF IInv, Started
    <2> QED  BY <1>1, <1>4, <2>1, <2>2, Inputs DEF IInv, Shape, TypeOK
  <1>6. Shape'
    BY <1>1, <1>5 DEF IInv, Shape
  <1>7. Called'
    BY <1>1 DEF IInv, Called
  <1>8. ASSUME NEW x \in Clusters, Owed(x)' PROVE Owed(x) /\ Position(x) <= Position(x)'
    <2>1. Owed(x) /\ Position(x)' = Position(x)
      BY <1>1, <1>3, <1>8 DEF Owed, Position
    <2> QED  BY <2>1, PositionIsCounted DEF IInv
  <1> QED  BY <1>1, <1>3, <1>4, <1>6, <1>7, <1>8, ChangePreserves

----------------------------------------------------------------------------
(* The command's own requests. *)
LEMMA ListMigrationsPreserves ==
    ASSUME IInv, ListMigrations
    PROVE  IInv'
  <1> DEFINE page  == CursorPage(Started, next, PageSize)
             found == page \cup { m \in Migrations : rows[m] # None }
             link  == CursorNext(Started, next, PageSize)
  <1>1. /\ pc = "migrations" /\ cmd.only = None
        /\ rows' = [m \in Migrations |-> IF m \in page THEN destination[m] ELSE rows[m]]
        /\ IF link # 0 THEN Goto("migrations", link) ELSE Goto(AfterMigrations(found), 1)
        /\ UNCHANGED <<service, cmd, names, history>>
    BY DEF ListMigrations, IInv, Ordered
  <1>2. /\ page \subseteq { m \in Started : m > next } /\ link \in Nat
        /\ link = 0 => page = { m \in Started : m > next }
        /\ link # 0 => \A m \in Started : next < m /\ m <= link => m \in page
    BY Inputs, CursorCovers DEF IInv
  <1>3. /\ UNCHANGED <<destination, nameOf, changes, calledBy, created, removed, kept, cmd, names>>
        /\ Existing' = Existing /\ Started' = Started
    BY <1>1 DEF service, history, Existing, Started
  <1>4. \A m \in Migrations : m \in page => m \in Started /\ destination[m] \in Clusters
    BY <1>2, Inputs DEF IInv, Started
  <1> HIDE DEF page, link
  <1>5. /\ rows' \in [Migrations -> Clusters \cup {None}]
        /\ \A m \in Migrations : rows'[m] = IF m \in page THEN destination[m] ELSE rows[m]
    BY <1>1, <1>4, Inputs DEF IInv
  <1>6. \/ link # 0 /\ pc' = "migrations" /\ next' = link
        \/ /\ link = 0 /\ next' = 1
           /\ \/ pc' = "clusters" /\ cmd.of = "groups"
              \/ pc' = "shown" /\ (cmd.of = "groups" /\ ~cmd.json => found = {})
    BY <1>1 DEF Goto, AfterMigrations
  <1>7. Shape'
    <2>1. \A m \in Started' : destination'[m] \in Existing' \cup removed'
      BY <1>3 DEF IInv, Shape, TypeOK
    <2>2. pc' \in Labels /\ next' \in Nat
      BY <1>2, <1>6 DEF Labels
    <2>3. TypeOK'
      BY <1>1, <1>3, <1>5, <2>1, <2>2 DEF IInv, Shape, TypeOK, Labels
    <2> QED  BY <1>3, <2>3 DEF IInv, Shape
  <1>8. Called'
    BY <1>3 DEF IInv, Called
  <1>9. Ordered'
    <2>1. \A m \in Migrations : rows'[m] # None => rows'[m] \in Existing \cup removed
      BY <1>4, <1>5 DEF IInv, Ordered, Shape, TypeOK
    <2> QED  BY <1>1, <1>3, <1>6, <2>1 DEF IInv, Ordered
  <1>10. ReadInOrder'
    <2>1. ASSUME NEW m \in kept, link = 0 \/ m <= link PROVE rows'[m] = destination[m]
      <3>1. m \in Started /\ m \in Migrations /\ m \in Nat /\ next \in Nat
        BY Inputs DEF IInv
      <3>2. CASE m <= next
        BY <1>1, <1>5, <3>1, <3>2 DEF IInv, ReadInOrder
      <3>3. CASE ~(m <= next)
        <4>1. m > next /\ next < m
          BY <3>1, <3>3
        <4>2. m \in page
          BY <1>2, <2>1, <3>1, <4>1
        <4> QED  BY <1>5, <3>1, <4>2
      <3> QED  BY <3>2, <3>3
    <2> QED  BY <1>1, <1>3, <1>6, <2>1 DEF ReadInOrder
  <1>11. NothingPassedOver'
    <2>1. pc' = "clusters" => (next' - 1) * PageSize = 0
      BY <1>6, Inputs DEF IInv
    <2>2. \A c \in Clusters : Position(c)' = Position(c) /\ Position(c) \in Nat
      BY <1>3, PositionIsCounted DEF Position, IInv
    <2>3. cmd.of = "queues" => (AllTold <=> AllTold')
      BY <1>3 DEF AllTold, Owed
    <2>4. found = {} => \A m \in Migrations : rows'[m] = None
      BY <1>5
    <2> QED  BY <1>1, <1>3, <1>6, <2>1, <2>2, <2>3, <2>4 DEF IInv, NothingPassedOver
  <1> QED  BY <1>7, <1>8, <1>9, <1>10, <1>11 DEF IInv

LEMMA GetMigrationPreserves ==
    ASSUME IInv, GetMigration
    PROVE  IInv'
  <1>1. /\ pc = "migration" /\ cmd.only # None /\ cmd.only \in Migrations
        /\ UNCHANGED <<destination, nameOf, changes, calledBy, created, removed, kept, cmd, names>>
        /\ Existing' = Existing /\ Started' = Started
    BY Inputs DEF GetMigration, service, history, IInv, Ordered, Existing, Started, Commands
  <1>2. \/ pc' \in {"absent", "failed"} /\ next' = 0 /\ rows' = rows
        \/ /\ destination[cmd.only] # None /\ rows' = [rows EXCEPT ![cmd.only] = destination[cmd.only]]
           /\ next' = 1
           /\ \/ pc' = "clusters" /\ cmd.of = "groups"
              \/ pc' = "shown" /\ (cmd.of = "groups" => cmd.json)
    BY DEF GetMigration, Goto, AfterMigrations
  <1>3. /\ rows' \in [Migrations -> Clusters \cup {None}]
        /\ \A m \in Migrations : rows'[m] = rows[m] \/ (m = cmd.only /\ m \in Started /\ rows'[m] = destination[m])
    BY <1>1, <1>2, Inputs DEF IInv, Started
  <1>4. Shape'
    <2>1. \A m \in Started' : destination'[m] \in Existing' \cup removed'
      BY <1>1 DEF IInv, Shape, TypeOK
    <2>2. pc' \in Labels /\ next' \in Nat
      BY <1>2 DEF Labels
    <2>3. TypeOK'
      BY <1>1, <1>3, <2>1, <2>2 DEF IInv, Shape, TypeOK, Labels
    <2> QED  BY <1>1, <2>3 DEF IInv, Shape
  <1>5. Called'
    BY <1>1 DEF IInv, Called
  <1>6. Ordered'
    <2>1. \A m \in Migrations : rows'[m] # None => rows'[m] \in Existing \cup removed
      BY <1>3 DEF IInv, Ordered, Shape, TypeOK
    <2> QED  BY <1>1, <1>2, <2>1 DEF IInv, Ordered
  <1>7. ReadInOrder'
    BY <1>1 DEF ReadInOrder
  <1>8. NothingPassedOver'
    <2>1. pc' = "clusters" => (next' - 1) * PageSize = 0
      BY <1>2, Inputs DEF IInv
    <2>2. \A c \in Clusters : Position(c)' = Position(c) /\ Position(c) \in Nat
      BY <1>1, PositionIsCounted DEF Position, IInv
    <2>3. cmd.of = "queues" => (AllTold <=> AllTold')
      BY <1>1 DEF AllTold, Owed
    <2> QED  BY <1>1, <1>2, <2>1, <2>2, <2>3 DEF IInv, NothingPassedOver
  <1> QED  BY <1>4, <1>5, <1>6, <1>7, <1>8 DEF IInv

LEMMA ListClustersPreserves ==
    ASSUME IInv, ListClusters
    PROVE  IInv'
  <1> DEFINE page == OffsetPage(Existing, next, PageSize)
             link == OffsetNext(Existing, next, PageSize)
  <1>1. /\ pc = "clusters" /\ next \in Nat \ {0}
        /\ names' = [c \in Clusters |-> IF c \in page THEN nameOf[c] ELSE names[c]]
        /\ IF link # 0 THEN Goto("clusters", next + 1) ELSE Goto(AfterClusters, 0)
        /\ link = 0 \/ link = next + 1
        /\ UNCHANGED <<service, cmd, rows, history>>
    <2>1. pc = "clusters" /\ next \in Nat \ {0}
      BY Inputs DEF ListClusters, IInv, Ordered
    <2>2. link = 0 \/ link = next + 1
      BY DEF OffsetNext
    <2> QED  BY <2>1, <2>2 DEF ListClusters
  <1>2. /\ UNCHANGED <<destination, nameOf, changes, calledBy, created, removed, kept, cmd, rows>>
        /\ Existing' = Existing /\ Started' = Started
    BY <1>1 DEF service, history, Existing, Started
  <1>3. ASSUME NEW c \in Existing, (next - 1) * PageSize <= Position(c)
        PROVE  /\ c \notin page => next * PageSize <= Position(c)
               /\ link = 0 => c \in page
    BY <1>1, <1>3, Inputs, OffsetCovers DEF IInv, Position
  <1> HIDE DEF page, link
  <1>4. /\ names' \in [Clusters -> Names \cup {None}]
        /\ \A c \in Clusters : names'[c] = IF c \in page THEN nameOf[c] ELSE names[c]
    BY <1>1, Inputs DEF IInv
  <1>5. \/ link # 0 /\ pc' = "clusters" /\ next' = next + 1
        \/ /\ link = 0 /\ next' = 0
           /\ \/ pc' = "shown" /\ cmd.of = "groups"
              \/ pc' = "migration" /\ cmd.of = "queues" /\ cmd.only # None
              \/ pc' = "migrations" /\ cmd.of = "queues" /\ cmd.only = None
    <2>1. cmd.of \in {"queues", "groups"}
      BY Inputs DEF IInv, Commands
    <2> QED  BY <1>1, <2>1 DEF Goto, AfterClusters, MigrationsOrOne
  <1>6. Shape'
    <2>1. \A m \in Started' : destination'[m] \in Existing' \cup removed'
      BY <1>2 DEF IInv, Shape, TypeOK
    <2>2. pc' \in Labels /\ next' \in Nat
      BY <1>1, <1>5 DEF Labels
    <2>3. TypeOK'
      BY <1>2, <1>4, <2>1, <2>2 DEF IInv, Shape, TypeOK, Labels
    <2> QED  BY <1>2, <2>3 DEF IInv, Shape
  <1>7. Called'
    BY <1>2, <1>4 DEF IInv, Called
  <1>8. Ordered'
    BY <1>1, <1>2, <1>5 DEF IInv, Ordered
  <1>9. ReadInOrder'
    <2>1. \A m \in kept : m \in Nat \ {0}
      BY Inputs DEF IInv
    <2>2. "queues" # "groups"
      OBVIOUS
    <2> QED  BY <1>1, <1>2, <1>5, <2>1, <2>2 DEF IInv, ReadInOrder
  <1>10. NothingPassedOver'
    <2>1. \A c \in Clusters : /\ Owed(c)' <=> Owed(c)
                              /\ Position(c)' = Position(c) /\ Position(c) \in Nat
      BY <1>2, PositionIsCounted DEF Owed, Position, IInv
    <2>2. ASSUME NEW c \in Clusters, Owed(c), names'[c] = None
          PROVE  next * PageSize <= Position(c) /\ link # 0
      <3>1. c \in Existing /\ nameOf[c] # None
        BY <2>2 DEF Owed, Existing
      <3>2. c \notin page /\ names[c] = None
        BY <1>4, <2>2, <3>1
      <3> QED  BY <1>1, <1>3, <2>2, <3>1, <3>2 DEF IInv, NothingPassedOver
    <2>3. link = 0 => AllTold'
      BY <2>1, <2>2 DEF AllTold
    <2>4. CASE link # 0 /\ pc' = "clusters" /\ next' = next + 1
      <3>1. (next' - 1) * PageSize = next * PageSize
        <4>1. next' - 1 = next
          BY <1>1, <2>4
        <4> QED  BY <4>1
      <3> QED  BY <2>1, <2>2, <2>4, <3>1 DEF NothingPassedOver
    <2>5. CASE link = 0 /\ pc' # "clusters"
      BY <2>3, <2>5 DEF NothingPassedOver
    <2> QED  BY <1>5, <2>4, <2>5
  <1> QED  BY <1>6, <1>7, <1>8, <1>9, <1>10 DEF IInv

LEMMA FailPreserves ==
    ASSUME IInv, Fail
    PROVE  IInv'
  <1>1. /\ pc' = "failed" /\ next' = 0
        /\ UNCHANGED <<destination, nameOf, changes, calledBy, created, removed, kept, cmd, rows, names>>
        /\ Existing' = Existing /\ Started' = Started
    BY DEF Fail, Goto, service, history, Existing, Started
  <1>2. TypeOK'
    BY <1>1 DEF IInv, Shape, TypeOK
  <1> QED  BY <1>1, <1>2 DEF IInv, Shape, Called, Ordered, ReadInOrder, NothingPassedOver

----------------------------------------------------------------------------
(* The invariant is inductive. *)
THEOREM Inductive == Spec => []IInv
  <1>1. IInv /\ UNCHANGED vars => IInv'
    BY DEF vars, service, history, IInv, Shape, TypeOK, Existing, Started, Called, Ordered,
       ReadInOrder, NothingPassedOver, AllTold, Owed, Position
  <1>2. IInv /\ [Next]_vars => IInv'
    BY <1>1, NameClusterPreserves, DeleteClusterPreserves, MigrationChangePreserves,
       ListMigrationsPreserves, GetMigrationPreserves, ListClustersPreserves, FailPreserves
       DEF Next
  <1> QED  BY <1>2, InitEstablishes, PTL DEF Spec

(* What is read are clusters and names, and a migration's cluster exists or did. *)
THEOREM TypeCorrect == Spec => []TypeOK
  <1>1. IInv => TypeOK
    BY DEF IInv, Shape
  <1> QED  BY <1>1, Inductive, PTL

(* A destination is never printed under another cluster's name. *)
THEOREM NamesAreTheirs == Spec => []DestinationsUnderTheirNames
  <1>1. ASSUME IInv PROVE DestinationsUnderTheirNames
    <2>1. \A m \in Printed : m \in Migrations /\ rows[m] \in Clusters
      BY <1>1, Inputs DEF IInv, Printed
    <2> QED  BY <1>1, <2>1 DEF IInv, Called, DestinationsUnderTheirNames, Shown
  <1> QED  BY <1>1, Inductive, PTL

(* An ID stands in for a name only for a cluster that went, shifted, or came too late. *)
THEOREM IDsHaveTheirCause == Spec => []IDsOnlyForCause
  <1>1. ASSUME IInv PROVE IDsOnlyForCause
    <2> SUFFICES ASSUME NEW m \in Printed, names[rows[m]] = None,
                        \A c \in removed : ~(c <= rows[m]),
                        ~(cmd.of = "queues" /\ rows[m] \in created)
                 PROVE  FALSE
      BY DEF IDsOnlyForCause
    <2>1. /\ pc = "shown" /\ (cmd.of = "queues" \/ ~cmd.json)
          /\ m \in Migrations /\ rows[m] # None
      BY DEF Printed, WithNames
    <2>2. /\ rows[m] \in Clusters /\ rows[m] \in Nat /\ cmd.of \in {"queues", "groups"}
          /\ \A c \in removed : c \in Nat
      BY <1>1, <2>1, Inputs DEF IInv, Commands
    <2>3. rows[m] \in Existing
      BY <1>1, <2>1, <2>2 DEF IInv, Ordered
    <2>4. \A c \in removed : c > rows[m]
      BY <2>2
    <2>5. Owed(rows[m])
      BY <2>1, <2>2, <2>3, <2>4 DEF Owed
    <2>6. AllTold
      BY <1>1, <2>1, <2>2 DEF IInv, NothingPassedOver
    <2> QED  BY <2>2, <2>5, <2>6 DEF AllTold
  <1> QED  BY <1>1, Inductive, PTL

(* A full listing shows every migration that was there all along. *)
THEOREM NoMigrationIsMissed == Spec => []EveryMigrationIsShown
  <1>1. IInv => EveryMigrationIsShown
    BY DEF IInv, ReadInOrder, EveryMigrationIsShown
  <1> QED  BY <1>1, Inductive, PTL
=============================================================================
