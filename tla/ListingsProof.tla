---------------------------- MODULE ListingsProof ----------------------------
(***************************************************************************)
(* Proofs about Listings, for any items and names, pages of any size and   *)
(* any number of changes between the pages.  The invariant keeps, for each *)
(* item that has been in the list all along, its position against the      *)
(* offset of the next page: an item that was not read is behind it unless  *)
(* one before it went, and an item that was read is before it unless one   *)
(* came.  What was taken for a match follows from what was read.           *)
(***************************************************************************)
EXTENDS Listings, FiniteSetTheorems, WellFoundedInduction, TLAPS

Open      == result.kind = "open"
Here      == Listed(present, name)
Position(i) == Cardinality({ j \in Here : j < i })

Shape ==
    /\ TypeOK
    /\ seen \in [Items -> Nat] /\ matched \in [Items -> Nat]
    /\ Open /\ ~Cursor => next >= 1
    /\ changes = 0 => entered = {} /\ left = {}

(* Where an offset listing is, and what it has read of the items that stay. *)
Offsets ==
    Open /\ ~Cursor =>
        /\ next = 1 \/ next <= Cardinality(Items)
        /\ \A i \in Items : seen[i] <= next - 1
        /\ \A i \in Steady :
              /\ seen[i] = 0 => (next - 1) * PageSize <= Position(i) \/ \E j \in left : j < i
              /\ seen[i] # 0 => Position(i) < (next - 1) * PageSize \/ \E j \in entered : j < i
              /\ seen[i] > 1 => \E j \in entered : j < i

(* A cursor has read once what is not behind it, and nothing else. *)
Cursors ==
    Open /\ Cursor =>
        /\ \A i \in Items : seen[i] <= 1 /\ (seen[i] # 0 => i <= next)
        /\ \A i \in Steady : i <= next => seen[i] = 1

(* Matches are of items that were read and that the identifier named. *)
Tally ==
    /\ Named(present, name) \subseteq everNamed
    /\ \A i \in Items :
          /\ matched[i] # 0 => i \in everNamed
          /\ reading = "cluster" /\ i = identifier => matched[i] = seen[i]
          /\ reading = "pipeline" /\ ~LooksLikeID => matched[i] = seen[i]
          /\ Open /\ reading = "pipeline" /\ i = identifier => seen[i] = 0
          /\ Open /\ reading = "queue" => matched[i] = 0
          /\ changes = 0 => /\ seen[i] # 0 => i \in Here
                            /\ matched[i] = IF Matches(i, name) THEN seen[i] ELSE 0

IInv ==
    /\ Shape /\ Offsets /\ Cursors /\ Tally
    /\ ShiftsExplainErrors /\ AnswersAsNamed /\ OverlooksOnlyAfterRemoval

----------------------------------------------------------------------------
(* Numbers have a least, and finite sets of them a greatest. *)
LEMMA LeastExists ==
    ASSUME NEW S \in SUBSET Nat, S # {}
    PROVE  \E m \in S : \A s \in S : m <= s
  <1> DEFINE Less == OpToRel(<, Nat)
  <1>1. PICK m \in S : \A s \in S : <<s, m>> \notin Less
    <2>1. IsWellFoundedOn(Less, Nat)
      BY NatLessThanWellFounded
    <2> HIDE DEF Less
    <2> QED  BY <2>1, WFMin
  <1>2. \A s \in S : ~(s < m)
    BY <1>1 DEF OpToRel
  <1> QED  BY <1>2

(* Induction over the finite sets, as their being well-founded. *)
LEMMA GreatestExists ==
    ASSUME NEW S \in SUBSET Nat, IsFiniteSet(S), S # {}
    PROVE  \E m \in S : \A s \in S : s <= m
  <1> DEFINE Finite   == FiniteSubsetsOf(Nat)
             Smaller  == StrictSubsetOrdering(Nat)
             Topless  == { A \in Finite : A # {} /\ ~\E m \in A : \A s \in A : s <= m }
  <1>1. SUFFICES ASSUME Topless # {} PROVE FALSE
    BY DEF FiniteSubsetsOf
  <1>2. PICK A \in Topless : \A B \in Topless : <<B, A>> \notin Smaller
    <2>1. IsWellFoundedOn(Smaller, Finite)
      BY FS_StrictSubsetOrderingWellFounded
    <2>2. Topless \subseteq Finite
      OBVIOUS
    <2> HIDE DEF Finite, Smaller, Topless
    <2> QED  BY <1>1, <2>1, <2>2, WFMin
  <1>3. PICK a \in A : TRUE
    OBVIOUS
  <1>4. /\ A \in SUBSET Nat /\ IsFiniteSet(A) /\ A \ {a} \in SUBSET Nat
        /\ IsFiniteSet(A \ {a}) /\ A \ {a} # A
    BY <1>3, FS_RemoveElement DEF FiniteSubsetsOf
  <1>5. A \ {a} \notin Topless
    BY <1>2, <1>4 DEF StrictSubsetOrdering, FiniteSubsetsOf
  <1>6. A \ {a} # {}
    BY <1>2, <1>3, <1>4
  <1>7. PICK g \in A \ {a} : \A s \in A \ {a} : s <= g
    BY <1>4, <1>5, <1>6 DEF FiniteSubsetsOf
  <1> QED  BY <1>2, <1>3, <1>4, <1>7

----------------------------------------------------------------------------
(* Counting in finite sets of numbers. *)
LEMMA BeforeIsCounted ==
    ASSUME NEW S \in SUBSET Nat, IsFiniteSet(S), NEW i \in Nat
    PROVE  /\ Cardinality(S) \in Nat /\ Cardinality({ j \in S : j < i }) \in Nat
           /\ i \in S => Cardinality({ j \in S : j < i }) < Cardinality(S)
           /\ \A k \in Nat : i <= k => Cardinality({ j \in S : j < i }) <= Cardinality({ j \in S : j < k })
           /\ (\A j \in S : ~(j < i)) => Cardinality({ j \in S : j < i }) = 0
  <1> DEFINE Before(k) == { j \in S : j < k }
  <1>1. \A k \in Nat : /\ Before(k) \in SUBSET S /\ IsFiniteSet(Before(k))
                       /\ Cardinality(Before(k)) \in Nat /\ Cardinality(Before(k)) <= Cardinality(S)
                       /\ Cardinality(S) = Cardinality(Before(k)) => S = Before(k)
    <2> TAKE k \in Nat
    <2>1. Before(k) \in SUBSET S
      OBVIOUS
    <2> HIDE DEF Before
    <2> QED  BY <2>1, FS_Subset, FS_CardinalityType
  <1>2. Cardinality(S) \in Nat
    BY FS_CardinalityType
  <1>3. ASSUME i \in S PROVE Cardinality(Before(i)) < Cardinality(S)
    <2>1. S # Before(i)
      BY <1>3
    <2> HIDE DEF Before
    <2> QED  BY <1>1, <1>2, <2>1
  <1>4. ASSUME NEW k \in Nat, i <= k PROVE Cardinality(Before(i)) <= Cardinality(Before(k))
    <2>1. Before(i) \in SUBSET Before(k)
      <3>1. ASSUME NEW j \in S, j < i PROVE j < k
        BY <1>4, <3>1
      <3> QED  BY <3>1
    <2> HIDE DEF Before
    <2> QED  BY <1>1, <2>1, FS_Subset
  <1>5. ASSUME \A j \in S : ~(j < i) PROVE Cardinality(Before(i)) = 0
    <2>1. Before(i) = {}
      BY <1>5
    <2> QED  BY <2>1, FS_EmptySet
  <1> QED  BY <1>1, <1>2, <1>3, <1>4, <1>5

(* A page of a cursor has what comes next after the cursor, up to the cursor of the page after it. *)
LEMMA CursorCovers ==
    ASSUME NEW S \in SUBSET (Nat \ {0}), IsFiniteSet(S), NEW last \in Nat, NEW size \in Nat \ {0}
    PROVE  /\ CursorPage(S, last, size) \subseteq { i \in S : i > last }
           /\ CursorNext(S, last, size) \in Nat
           /\ CursorNext(S, last, size) = 0 => CursorPage(S, last, size) = { i \in S : i > last }
           /\ CursorNext(S, last, size) # 0 => CursorNext(S, last, size) > last
           /\ CursorNext(S, last, size) # 0 =>
                 \A i \in S : i \in CursorPage(S, last, size) <=>
                                  last < i /\ i <= CursorNext(S, last, size)
  <1> DEFINE rest == { i \in S : i > last }
             page == CursorPage(S, last, size)
             link == CursorNext(S, last, size)
             before(i) == Cardinality({ j \in rest : j < i })
  <1>1. rest \in SUBSET Nat /\ IsFiniteSet(rest)
    <2>1. rest \in SUBSET S
      OBVIOUS
    <2> HIDE DEF rest
    <2> QED  BY <2>1, FS_Subset
  <1>2. page = { i \in rest : 0 <= before(i) /\ before(i) < 0 + size }
    BY DEF CursorPage, Slice
  <1>3. /\ Cardinality(rest) \in Nat
        /\ \A i \in Nat : /\ before(i) \in Nat
                          /\ i \in rest => before(i) < Cardinality(rest)
                          /\ \A k \in Nat : i <= k => before(i) <= before(k)
                          /\ (\A j \in rest : ~(j < i)) => before(i) = 0
    <2>1. Cardinality(rest) \in Nat
      BY <1>1, FS_CardinalityType
    <2>2. ASSUME NEW i \in Nat
          PROVE  /\ before(i) \in Nat
                 /\ i \in rest => before(i) < Cardinality(rest)
                 /\ \A k \in Nat : i <= k => before(i) <= before(k)
                 /\ (\A j \in rest : ~(j < i)) => before(i) = 0
      <3> HIDE DEF rest
      <3> QED  BY <1>1, BeforeIsCounted
    <2> QED  BY <2>1, <2>2
  <1>4. CASE Cardinality(rest) <= size
    <2>1. link = 0
      <3>1. ~(Cardinality(rest) > size)
        BY <1>3, <1>4
      <3> QED  BY <3>1 DEF CursorNext
    <2>2. page = rest
      <3>1. ASSUME NEW i \in rest PROVE 0 <= before(i) /\ before(i) < 0 + size
        <4>1. i \in Nat
          BY <1>1
        <4> HIDE DEF rest, before
        <4>2. before(i) \in Nat /\ before(i) < Cardinality(rest)
          BY <1>3, <4>1
        <4> QED  BY <1>3, <1>4, <4>2
      <3> HIDE DEF rest, before, page
      <3> QED  BY <1>2, <3>1
    <2> QED  BY <2>1, <2>2
  <1>5. CASE ~(Cardinality(rest) <= size)
    <2>1. page # {}
      <3>1. rest # {}
        BY <1>1, <1>5, FS_EmptySet
      <3>2. PICK m \in rest : \A s \in rest : m <= s
        <4> HIDE DEF rest
        <4> QED  BY <1>1, <3>1, LeastExists
      <3>3. before(m) = 0
        <4> HIDE DEF rest, before
        <4> QED  BY <1>1, <1>3, <3>2
      <3> HIDE DEF rest, before, page
      <3> QED  BY <1>2, <3>2, <3>3
    <2>2. page \in SUBSET rest /\ page \in SUBSET Nat /\ IsFiniteSet(page)
      <3> HIDE DEF rest, before, page
      <3> QED  BY <1>1, <1>2, FS_Subset
    <2>3. link = CHOOSE i \in page : \A j \in page : j <= i
      <3>1. Cardinality(rest) > size
        BY <1>3, <1>5
      <3> QED  BY <3>1 DEF CursorNext
    <2>4. link \in page /\ \A j \in page : j <= link
      <3> HIDE DEF page, link
      <3> QED  BY <2>1, <2>2, <2>3, GreatestExists
    <2>5. ASSUME NEW i \in rest, i <= link PROVE i \in page
      <3> HIDE DEF rest, page, link, before
      <3> QED  BY <1>1, <1>2, <1>3, <2>2, <2>4, <2>5
    <2>6. link # 0 /\ link \in Nat
      BY <2>2, <2>4
    <2>7. \A i \in S : last < i /\ i <= link => i \in page
      <3>1. ASSUME NEW i \in S, last < i PROVE i \in rest
        BY <3>1
      <3> HIDE DEF rest, page, link
      <3> QED  BY <2>5, <3>1
    <2>8. \A i \in page : i \in S /\ last < i /\ i <= link
      <3>1. \A i \in rest : i \in S /\ last < i
        OBVIOUS
      <3> HIDE DEF rest, page, link
      <3> QED  BY <2>2, <2>4, <3>1
    <2>9. link > last
      <3>1. \A i \in rest : i > last
        OBVIOUS
      <3> HIDE DEF rest, page, link
      <3> QED  BY <2>2, <2>4, <3>1
    <2> QED  BY <2>2, <2>6, <2>7, <2>8, <2>9
  <1> QED  BY <1>4, <1>5

(* The items of an offset page, and whether there is one more. *)
LEMMA OffsetCovers ==
    ASSUME NEW S \in SUBSET Nat, IsFiniteSet(S), NEW n \in Nat \ {0}, NEW size \in Nat \ {0}
    PROVE  /\ OffsetPage(S, n, size) \subseteq S
           /\ \A i \in S :
                 LET before == Cardinality({ j \in S : j < i })
                 IN  /\ before \in Nat
                     /\ i \in OffsetPage(S, n, size) <=> (n - 1) * size <= before /\ before < n * size
                     /\ OffsetNext(S, n, size) = 0 => before < n * size
           /\ OffsetNext(S, n, size) # 0 => OffsetNext(S, n, size) = n + 1 /\ n < Cardinality(S)
  <1>1. /\ (n - 1) * size + size = n * size /\ n * size \in Nat /\ n <= n * size
        /\ Cardinality(S) \in Nat
    <2>1. n * size = n + n * (size - 1) /\ n * (size - 1) \in Nat
      OBVIOUS
    <2> QED  BY <2>1, FS_CardinalityType
  <1>2. ASSUME NEW i \in S
        PROVE  LET before == Cardinality({ j \in S : j < i })
               IN  /\ before \in Nat
                   /\ i \in OffsetPage(S, n, size) <=> (n - 1) * size <= before /\ before < n * size
                   /\ OffsetNext(S, n, size) = 0 => before < n * size
    <2> DEFINE before == Cardinality({ j \in S : j < i })
    <2>1. before \in Nat /\ before < Cardinality(S)
      BY BeforeIsCounted
    <2>2. i \in OffsetPage(S, n, size) <=> (n - 1) * size <= before /\ before < (n - 1) * size + size
      BY DEF OffsetPage, Slice
    <2>3. OffsetNext(S, n, size) = 0 => ~(Cardinality(S) > n * size)
      BY DEF OffsetNext
    <2>4. OffsetNext(S, n, size) = 0 => before < n * size
      <3> HIDE DEF before
      <3> QED  BY <1>1, <2>1, <2>3
    <2> QED  BY <1>1, <2>1, <2>2, <2>4
  <1>3. OffsetPage(S, n, size) \subseteq S
    BY DEF OffsetPage, Slice
  <1>4. OffsetNext(S, n, size) # 0 => OffsetNext(S, n, size) = n + 1 /\ Cardinality(S) > n * size
    BY DEF OffsetNext
  <1> QED  BY <1>1, <1>2, <1>3, <1>4

----------------------------------------------------------------------------
LEMMA Inputs ==
    ASSUME Shape
    PROVE  /\ present \in SUBSET Items /\ deleted \in SUBSET Items /\ name \in [Items -> Names]
           /\ Items \in SUBSET (Nat \ {0}) /\ IsFiniteSet(Items) /\ Cardinality(Items) \in Nat
           /\ Here \in SUBSET present /\ Here \in SUBSET Nat /\ IsFiniteSet(Here)
           /\ Cardinality(Here) <= Cardinality(Items) /\ Cardinality(Here) \in Nat
           /\ PageSize \in Nat \ {0} /\ next \in Nat /\ MaxChanges \in Nat
           /\ changes \in Nat /\ changes <= MaxChanges
           /\ reading \in {"cluster", "queue", "pipeline", "migrations"}
           /\ entered \in SUBSET Items /\ left \in SUBSET Items /\ Steady \in SUBSET Here
  <1>1. /\ Items \in SUBSET (Nat \ {0}) /\ IsFiniteSet(Items)
        /\ PageSize \in Nat \ {0} /\ MaxChanges \in Nat
        /\ reading \in {"cluster", "queue", "pipeline", "migrations"}
    BY ListingsAssumption DEF Shape, TypeOK
  <1>2. /\ present \in SUBSET Items /\ deleted \in SUBSET Items /\ name \in [Items -> Names]
        /\ next \in Nat /\ changes \in 0 .. MaxChanges
        /\ entered \in SUBSET Items /\ left \in SUBSET Items
    BY DEF Shape, TypeOK
  <1>3. Here \in SUBSET present /\ Steady \in SUBSET Here
    BY DEF Here, Listed, Steady
  <1>4. Here \in SUBSET Items /\ Here \in SUBSET Nat
    BY <1>1, <1>2, <1>3
  <1>5. /\ IsFiniteSet(Here) /\ Cardinality(Here) <= Cardinality(Items)
        /\ Cardinality(Here) \in Nat /\ Cardinality(Items) \in Nat
    BY <1>1, <1>4, FS_Subset, FS_CardinalityType
  <1>6. changes \in Nat /\ changes <= MaxChanges
    BY <1>1, <1>2
  <1> QED  BY <1>1, <1>2, <1>3, <1>4, <1>5, <1>6

LEMMA PositionIsCounted ==
    ASSUME Shape, NEW i \in Items
    PROVE  Position(i) \in Nat
  BY Inputs, BeforeIsCounted DEF Position

LEMMA InitEstablishes == Init => IInv
  <1> SUFFICES ASSUME Init PROVE IInv
    OBVIOUS
  <1>1. /\ result = [kind |-> "open", item |-> 0] /\ changes = 0 /\ entered = {} /\ left = {}
        /\ seen = [i \in Items |-> 0] /\ matched = [i \in Items |-> 0]
        /\ next = IF Cursor THEN 0 ELSE 1
        /\ everNamed = Named(present, name)
        /\ present \in SUBSET Items /\ deleted = {} /\ name \in [Items -> Names] /\ reading \in Readings
    BY DEF Init, Verdict
  <1>2. Shape
    <2>1. identifier \in Items \cup Names
      BY ListingsAssumption DEF Init
    <2>2. everNamed \subseteq Items
      BY <1>1 DEF Named
    <2>3. Cardinality(Items) + MaxChanges \in Nat /\ MaxChanges \in Nat
      BY ListingsAssumption, FS_CardinalityType
    <2>4. TypeOK
      BY <1>1, <2>1, <2>2, <2>3 DEF TypeOK, Verdict
    <2> QED  BY <1>1, <2>4 DEF Shape
  <1>3. Offsets
    <2>1. ~Cursor => (next - 1) * PageSize = 0
      BY <1>1, ListingsAssumption
    <2> QED  BY <1>1, <1>2, <2>1, PositionIsCounted, Inputs DEF Offsets, Open
  <1>4. Cursors
    BY <1>1, <1>2, Inputs DEF Cursors
  <1>5. Tally
    BY <1>1 DEF Tally
  <1>6. ShiftsExplainErrors /\ AnswersAsNamed /\ OverlooksOnlyAfterRemoval
    BY <1>1 DEF ShiftsExplainErrors, AnswersAsNamed, OverlooksOnlyAfterRemoval, Complete
  <1> QED  BY <1>2, <1>3, <1>4, <1>5, <1>6 DEF IInv

(* A change of the list: what stays keeps its place, unless one before it came or went. *)
LEMMA ChangePreserves ==
    ASSUME IInv, Create \/ Delete \/ Rename
    PROVE  IInv'
  <1>1. PICK there \in SUBSET Items, named \in [Items -> Names] : Change(there, named)
    <2> USE Inputs DEF IInv
    <2>1. CASE Create
      BY <2>1 DEF Create
    <2>2. CASE Delete
      BY <2>2 DEF Delete
    <2>3. CASE Rename
      BY <2>3 DEF Rename
    <2> QED  BY <2>1, <2>2, <2>3
  <1>2. /\ Open /\ changes < MaxChanges /\ changes' = changes + 1
        /\ present' = there /\ name' = named
        /\ entered' = entered \cup (Here' \ Here) /\ left' = left \cup (Here \ Here')
        /\ everNamed' = everNamed \cup Named(there, named)
        /\ UNCHANGED <<reading, identifier, next, matched, result, seen>>
    BY <1>1 DEF Change, Here, Listed, LooksLikeID, command, Open
  <1>3. Here' \in SUBSET Items /\ Here' \in SUBSET Nat /\ IsFiniteSet(Here')
    <2>1. Here' \in SUBSET Items
      BY <1>2 DEF Here, Listed
    <2> QED  BY <2>1, Inputs, FS_Subset DEF IInv
  <1>4. Shape'
    <2>1. deleted' \subseteq Items \ present'
      <3>1. deleted \subseteq Items \ present /\ present \in SUBSET Items
        BY DEF IInv, Shape, TypeOK
      <3>2. CASE Create
        BY <3>1, <3>2 DEF Create, Change
      <3>3. CASE Delete
        BY <3>1, <3>3 DEF Delete, Change
      <3>4. CASE Rename
        BY <3>1, <3>4 DEF Rename, Change
      <3> QED  BY <3>2, <3>3, <3>4
    <2>2. changes' \in 0 .. MaxChanges /\ changes' # 0
      BY <1>2, Inputs DEF IInv
    <2>3. Named(there, named) \subseteq Items
      BY DEF Named
    <2>4. TypeOK'
      BY <1>2, <1>3, <2>1, <2>2, <2>3, Inputs DEF IInv, Shape, TypeOK
    <2> QED  BY <1>2, <2>2, <2>4 DEF IInv, Shape, Open, Cursor
  <1>5. \A i \in Steady' : i \in Steady /\ i \in Items /\ i \in Here /\ i \in Here'
    BY <1>2, Inputs DEF IInv, Steady, Here
  <1>6. ASSUME NEW i \in Items
        PROVE  /\ Position(i) \in Nat /\ Position(i)' \in Nat
               /\ (\A j \in left' : ~(j < i)) => Position(i) <= Position(i)'
               /\ (\A j \in entered' : ~(j < i)) => Position(i)' <= Position(i)
    <2>1. Position(i) \in Nat /\ Position(i)' \in Nat
      BY <1>3, Inputs, BeforeIsCounted DEF IInv, Position
    <2>2. /\ { j \in Here : j < i } \in SUBSET Here /\ { j \in Here' : j < i } \in SUBSET Here'
          /\ IsFiniteSet({ j \in Here : j < i }) /\ IsFiniteSet({ j \in Here' : j < i })
      BY <1>3, Inputs, FS_Subset DEF IInv
    <2>3. ASSUME \A j \in left' : ~(j < i) PROVE Position(i) <= Position(i)'
      <3>1. { j \in Here : j < i } \in SUBSET { j \in Here' : j < i }
        BY <1>2, <2>3
      <3> QED  BY <2>2, <3>1, FS_Subset DEF Position
    <2>4. ASSUME \A j \in entered' : ~(j < i) PROVE Position(i)' <= Position(i)
      <3>1. { j \in Here' : j < i } \in SUBSET { j \in Here : j < i }
        BY <1>2, <2>4
      <3> QED  BY <2>2, <3>1, FS_Subset DEF Position
    <2> QED  BY <2>1, <2>3, <2>4
  <1>7. Offsets'
    <2> SUFFICES ASSUME ~Cursor PROVE Offsets'
      BY <1>2 DEF Offsets, Cursor
    <2>1. (next - 1) * PageSize \in Int
      BY Inputs DEF IInv
    <2>2. ASSUME NEW i \in Steady'
          PROVE  /\ seen[i] = 0 => (next - 1) * PageSize <= Position(i)' \/ \E j \in left' : j < i
                 /\ seen[i] # 0 => Position(i)' < (next - 1) * PageSize \/ \E j \in entered' : j < i
                 /\ seen[i] > 1 => \E j \in entered' : j < i
      <3>1. /\ seen[i] = 0 => (next - 1) * PageSize <= Position(i) \/ \E j \in left : j < i
            /\ seen[i] # 0 => Position(i) < (next - 1) * PageSize \/ \E j \in entered : j < i
            /\ seen[i] > 1 => \E j \in entered : j < i
        BY <1>2, <1>5 DEF IInv, Offsets
      <3>2. left \subseteq left' /\ entered \subseteq entered'
        BY <1>2
      <3> QED  BY <1>5, <1>6, <2>1, <3>1, <3>2
    <2> QED  BY <1>2, <2>2 DEF IInv, Offsets
  <1>8. Cursors'
    BY <1>2, <1>5 DEF IInv, Cursors, Cursor, Open
  <1>9. Tally'
    <2>1. Named(present, name)' \subseteq everNamed'
      BY <1>2 DEF Named, Matches, Settles
    <2>2. changes' # 0
      BY <1>2, Inputs DEF IInv
    <2> QED  BY <1>2, <2>1, <2>2 DEF IInv, Tally, LooksLikeID, Open
  <1>10. (ShiftsExplainErrors /\ AnswersAsNamed /\ OverlooksOnlyAfterRemoval)'
    BY <1>2 DEF ShiftsExplainErrors, AnswersAsNamed, OverlooksOnlyAfterRemoval, Complete, Open
  <1> QED  BY <1>4, <1>7, <1>8, <1>9, <1>10 DEF IInv

----------------------------------------------------------------------------
(* One turn of a loop over pages. *)
LEMMA PageFacts ==
    ASSUME IInv, Open
    PROVE  /\ Page \subseteq Here /\ NextPage \in Nat
           /\ Cursor =>
                 /\ \A i \in Page : i > next
                 /\ NextPage = 0 => \A i \in Here : i > next => i \in Page
                 /\ NextPage # 0 => NextPage > next
                 /\ NextPage # 0 =>
                       \A i \in Here : i \in Page <=> next < i /\ i <= NextPage
           /\ ~Cursor =>
                 /\ \A i \in Here :
                       /\ Position(i) \in Nat
                       /\ i \in Page <=> (next - 1) * PageSize <= Position(i) /\ Position(i) < next * PageSize
                       /\ NextPage = 0 => Position(i) < next * PageSize
                 /\ NextPage # 0 => NextPage = next + 1 /\ next < Cardinality(Items)
  <1>1. Shape
    BY DEF IInv
  <1>2. CASE Cursor
    <2>1. Page = CursorPage(Here, next, PageSize) /\ NextPage = CursorNext(Here, next, PageSize)
      BY <1>2 DEF Page, NextPage, Here
    <2>2. Here \in SUBSET (Nat \ {0})
      BY <1>1, Inputs
    <2>3. /\ Page \subseteq { i \in Here : i > next } /\ NextPage \in Nat
          /\ NextPage = 0 => Page = { i \in Here : i > next }
          /\ NextPage # 0 => NextPage > next
          /\ NextPage # 0 => \A i \in Here : i \in Page <=> next < i /\ i <= NextPage
      BY <1>1, <2>1, <2>2, Inputs, CursorCovers
    <2> QED  BY <1>2, <2>3
  <1>3. CASE ~Cursor
    <2>1. Page = OffsetPage(Here, next, PageSize) /\ NextPage = OffsetNext(Here, next, PageSize)
      BY <1>3 DEF Page, NextPage, Here
    <2>2. next \in Nat \ {0}
      BY <1>1, <1>3, Inputs DEF Shape
    <2>3. /\ OffsetPage(Here, next, PageSize) \subseteq Here
          /\ \A i \in Here :
                /\ Position(i) \in Nat
                /\ i \in OffsetPage(Here, next, PageSize)
                      <=> (next - 1) * PageSize <= Position(i) /\ Position(i) < next * PageSize
                /\ OffsetNext(Here, next, PageSize) = 0 => Position(i) < next * PageSize
          /\ OffsetNext(Here, next, PageSize) # 0 =>
                OffsetNext(Here, next, PageSize) = next + 1 /\ next < Cardinality(Here)
      BY <1>1, <2>2, Inputs, OffsetCovers DEF Position
    <2>4. NextPage # 0 => NextPage = next + 1 /\ next < Cardinality(Items)
      BY <1>1, <2>1, <2>3, Inputs
    <2> QED  BY <1>3, <2>1, <2>2, <2>3, <2>4
  <1> QED  BY <1>2, <1>3

(* The counts after the page. *)
LEMMA ReadFacts ==
    ASSUME IInv, ReadPage
    PROVE  /\ Open /\ next' = NextPage
           /\ UNCHANGED <<present, deleted, name, changes, reading, identifier, entered, left, everNamed>>
           /\ Here' = Here /\ Steady' = Steady /\ \A i \in Items : Position(i)' = Position(i)
           /\ seen' \in [Items -> Nat] /\ matched' \in [Items -> Nat]
           /\ \A i \in Items :
                 /\ i \in Page => seen'[i] = seen[i] + 1
                 /\ i \notin Page => seen'[i] = seen[i]
                 /\ i \in Page /\ Matches(i, name) => matched'[i] = matched[i] + 1
                 /\ i \notin Page \/ ~Matches(i, name) => matched'[i] = matched[i]
  <1>1. /\ Open /\ next' = NextPage
        /\ seen' = [i \in Items |-> seen[i] + IF i \in Page THEN 1 ELSE 0]
        /\ matched' = [i \in Items |-> matched[i] + IF i \in Page /\ Matches(i, name) THEN 1 ELSE 0]
        /\ UNCHANGED <<present, deleted, name, changes, reading, identifier, entered, left, everNamed>>
    BY DEF ReadPage, Read, Open, list
  <1>2. Here' = Here /\ Steady' = Steady
    BY <1>1 DEF Here, Listed, Steady, LooksLikeID
  <1>3. \A i \in Items : Position(i)' = Position(i)
    BY <1>2 DEF Position
  <1>4. seen \in [Items -> Nat] /\ matched \in [Items -> Nat]
    BY DEF IInv, Shape
  <1>5. ASSUME NEW i \in Items
        PROVE  /\ seen'[i] \in Nat /\ matched'[i] \in Nat
               /\ i \in Page => seen'[i] = seen[i] + 1
               /\ i \notin Page => seen'[i] = seen[i]
               /\ i \in Page /\ Matches(i, name) => matched'[i] = matched[i] + 1
               /\ i \notin Page \/ ~Matches(i, name) => matched'[i] = matched[i]
    <2>1. /\ seen'[i] = seen[i] + IF i \in Page THEN 1 ELSE 0
          /\ matched'[i] = matched[i] + IF i \in Page /\ Matches(i, name) THEN 1 ELSE 0
      BY <1>1
    <2> QED  BY <1>4, <2>1
  <1>6. seen' \in [Items -> Nat] /\ matched' \in [Items -> Nat]
    BY <1>1, <1>5
  <1> QED  BY <1>1, <1>2, <1>3, <1>5, <1>6

(* The three ends of a turn. *)
LEMMA Verdicts ==
    ASSUME IInv, ReadPage
    PROVE  \/ \E i \in Page : Settles(i, name) /\ result' = Found(i)
           \/ /\ \A i \in Page : ~Settles(i, name)
              /\ NextPage = 0 /\ result' \in Conclude(matched')
           \/ /\ \A i \in Page : ~Settles(i, name)
              /\ NextPage # 0 /\ result' = Verdict("open")
  <1> DEFINE settled == { i \in Page : Settles(i, name) }
  <1>1. result' \in IF settled # {} THEN { Found(i) : i \in settled }
                    ELSE IF NextPage = 0 THEN Conclude(matched') ELSE {Verdict("open")}
    BY DEF ReadPage, Read
  <1>2. CASE settled # {}
    BY <1>1, <1>2
  <1>3. CASE settled = {}
    <2>1. \A i \in Page : ~Settles(i, name)
      BY <1>3
    <2> HIDE DEF settled
    <2> QED  BY <1>1, <1>3, <2>1
  <1> QED  BY <1>2, <1>3

(* What is counted of the items that stay, while the reading goes on and when it is over. *)
LEMMA ReadKeepsCounts ==
    ASSUME IInv, ReadPage
    PROVE  /\ \A i \in Items : seen'[i] <= Cardinality(Items)
           /\ Open' => NextPage # 0
           /\ NextPage # 0 => (Open' /\ ~Cursor => next' >= 1) /\ Offsets' /\ Cursors'
           /\ NextPage = 0 =>
                 \A i \in Steady : /\ seen'[i] = 0 => ~Cursor /\ \E j \in left : j < i
                                   /\ seen'[i] > 1 => ~Cursor /\ \E j \in entered : j < i
  <1>1. /\ next \in Nat /\ Cardinality(Items) \in Nat /\ IsFiniteSet(Items)
        /\ PageSize \in Nat \ {0} /\ Steady \in SUBSET Here /\ Here \in SUBSET Items
        /\ Items \in SUBSET (Nat \ {0}) /\ left \in SUBSET Items /\ entered \in SUBSET Items
        /\ seen \in [Items -> Nat] /\ Open
    BY Inputs, ReadFacts DEF IInv, Shape
  <1>2. Open' => NextPage # 0
    <2>1. \A i : Found(i).kind # "open"
      BY DEF Found
    <2>2. \A r \in Conclude(matched') : r.kind # "open"
      BY DEF Conclude, Found, Verdict
    <2> QED  BY <2>1, <2>2, Verdicts DEF Open
  <1>3. \A i \in Items : Cardinality(Items) >= 1
    <2> TAKE i \in Items
    <2>1. Cardinality(Items) # 0
      BY <1>1, FS_EmptySet
    <2> QED  BY <1>1, <2>1
  <1>4. /\ \A i \in Items : /\ i \in Page => seen'[i] = seen[i] + 1
                            /\ i \notin Page => seen'[i] = seen[i]
                            /\ seen[i] \in Nat
        /\ next' = NextPage /\ NextPage \in Nat /\ Page \subseteq Here
        /\ UNCHANGED <<entered, left, reading>> /\ Steady' = Steady
        /\ Cursor' = Cursor /\ \A i \in Items : Position(i)' = Position(i)
    BY <1>1, ReadFacts, PageFacts DEF Cursor
  <1>5. CASE Cursor
    <2>1. /\ \A i \in Items : seen[i] <= 1 /\ (seen[i] # 0 => i <= next)
          /\ \A i \in Steady : i <= next => seen[i] = 1
      BY <1>1, <1>5 DEF IInv, Cursors
    <2>2. /\ \A i \in Page : i > next
          /\ NextPage = 0 => \A i \in Here : i > next => i \in Page
          /\ NextPage # 0 => NextPage > next
          /\ NextPage # 0 => \A i \in Here : i \in Page <=> next < i /\ i <= NextPage
      BY <1>1, <1>5, PageFacts
    <2>3. ASSUME NEW i \in Items
          PROVE  /\ seen'[i] <= 1
                 /\ NextPage # 0 /\ seen'[i] # 0 => i <= NextPage
      <3>1. CASE i \in Page
        <4>1. i \in Nat /\ next < i /\ seen[i] = 0
          BY <1>1, <1>4, <2>1, <2>2, <3>1
        <4> QED  BY <1>4, <2>2, <3>1, <4>1
      <3>2. CASE i \notin Page
        BY <1>1, <1>4, <2>1, <2>2, <3>2
      <3> QED  BY <3>1, <3>2
    <2>4. ASSUME NEW i \in Steady, NextPage = 0 \/ i <= NextPage PROVE seen'[i] = 1
      <3>1. CASE i <= next
        <4>1. i \notin Page /\ seen[i] = 1
          BY <1>1, <2>1, <2>2, <3>1
        <4> QED  BY <1>1, <1>4, <4>1
      <3>2. CASE ~(i <= next)
        <4>1. i \in Page /\ i \in Items /\ i \in Nat
          BY <1>1, <2>2, <2>4, <3>2
        <4>2. seen[i] = 0
          BY <1>1, <2>1, <3>2, <4>1
        <4> QED  BY <1>4, <4>1, <4>2
      <3> QED  BY <3>1, <3>2
    <2>5. NextPage # 0 => Offsets' /\ Cursors'
      BY <1>4, <1>5, <2>3, <2>4 DEF Offsets, Cursors
    <2>6. \A i \in Items : seen'[i] <= Cardinality(Items)
      BY <1>1, <1>3, <1>4, <2>3
    <2> QED  BY <1>2, <1>5, <2>4, <2>5, <2>6
  <1>6. CASE ~Cursor
    <2> DEFINE low == (next - 1) * PageSize
               high == next * PageSize
    <2>1. /\ next = 1 \/ next <= Cardinality(Items)
          /\ \A i \in Items : seen[i] <= next - 1
          /\ \A i \in Steady :
                /\ seen[i] = 0 => low <= Position(i) \/ \E j \in left : j < i
                /\ seen[i] # 0 => Position(i) < low \/ \E j \in entered : j < i
                /\ seen[i] > 1 => \E j \in entered : j < i
      BY <1>1, <1>6 DEF IInv, Offsets
    <2>2. /\ \A i \in Here :
                /\ Position(i) \in Nat
                /\ i \in Page <=> low <= Position(i) /\ Position(i) < high
                /\ NextPage = 0 => Position(i) < high
          /\ NextPage # 0 => NextPage = next + 1 /\ next < Cardinality(Items)
      BY <1>1, <1>6, PageFacts
    <2>3. low \in Int /\ high \in Int /\ low <= high
      <3>1. low + PageSize = high
        BY <1>1
      <3>2. low \in Int /\ high \in Int
        BY <1>1
      <3> QED  BY <1>1, <3>1, <3>2
    <2> HIDE DEF low, high
    <2>4. ASSUME NEW i \in Items PROVE seen'[i] <= next /\ seen'[i] <= Cardinality(Items)
      BY <1>1, <1>3, <1>4, <2>1
    <2>5. ASSUME NEW i \in Steady
          PROVE  /\ seen'[i] = 0 => high <= Position(i) \/ \E j \in left : j < i
                 /\ seen'[i] # 0 => Position(i) < high \/ \E j \in entered : j < i
                 /\ seen'[i] > 1 => \E j \in entered : j < i
      <3>1. i \in Items /\ i \in Here /\ Position(i) \in Nat /\ seen[i] \in Nat
        BY <1>1, <2>2
      <3>2. CASE i \in Page
        BY <1>4, <2>1, <2>2, <2>3, <3>1, <3>2
      <3>3. CASE i \notin Page
        BY <1>4, <2>1, <2>2, <2>3, <3>1, <3>3
      <3> QED  BY <3>2, <3>3
    <2>6. ASSUME NextPage # 0 PROVE Offsets' /\ Cursors' /\ next' >= 1
      <3>1. next' = next + 1 /\ next' - 1 = next /\ next' <= Cardinality(Items) /\ next' >= 1
        BY <1>1, <1>4, <2>2, <2>6
      <3>2. (next' - 1) * PageSize = high
        BY <3>1 DEF high
      <3>3. Offsets'
        BY <1>1, <1>4, <2>4, <2>5, <3>1, <3>2 DEF Offsets
      <3> QED  BY <1>4, <1>6, <3>1, <3>3 DEF Cursors
    <2>7. ASSUME NextPage = 0, NEW i \in Steady, seen'[i] = 0 PROVE \E j \in left : j < i
      <3>1. i \in Here /\ Position(i) < high /\ Position(i) \in Nat
        BY <1>1, <2>2, <2>7
      <3> QED  BY <2>3, <2>5, <2>7, <3>1
    <2> QED  BY <1>2, <1>6, <2>4, <2>5, <2>6, <2>7
  <1> QED  BY <1>5, <1>6

LEMMA ReadKeepsShape ==
    ASSUME IInv, ReadPage
    PROVE  Shape'
  <1>1. /\ UNCHANGED <<present, deleted, name, changes, reading, identifier, entered, left, everNamed>>
        /\ next' = NextPage /\ NextPage \in Nat
        /\ seen' \in [Items -> Nat] /\ matched' \in [Items -> Nat]
    BY ReadFacts, PageFacts
  <1>2. ASSUME NEW i \in Items
        PROVE  matched'[i] \in 0 .. seen'[i] /\ seen'[i] \in 0 .. Cardinality(Items) + MaxChanges
    <2>1. /\ matched[i] \in 0 .. seen[i] /\ seen[i] \in Nat /\ matched[i] \in Nat
          /\ seen'[i] \in Nat /\ matched'[i] \in Nat
      BY <1>1 DEF IInv, Shape, TypeOK
    <2>2. matched'[i] <= seen'[i]
      BY <2>1, ReadFacts
    <2>3. seen'[i] <= Cardinality(Items) /\ Cardinality(Items) \in Nat /\ MaxChanges \in Nat
      BY ReadKeepsCounts, Inputs DEF IInv
    <2> QED  BY <2>1, <2>2, <2>3
  <1>3. result' \in { Verdict(k) : k \in {"open", "none", "multiple", "listed", "failed"} }
                    \cup { Found(i) : i \in Items }
    <2>1. Page \subseteq Items
      BY ReadFacts, PageFacts, Inputs DEF IInv
    <2>2. Conclude(matched') \subseteq { Verdict(k) : k \in {"none", "multiple", "listed"} }
                                       \cup { Found(i) : i \in Items }
      BY DEF Conclude
    <2> QED  BY <2>1, <2>2, Verdicts
  <1>4. TypeOK'
    BY <1>1, <1>2, <1>3 DEF IInv, Shape, TypeOK
  <1>5. Open' /\ ~Cursor' => next' >= 1
    BY <1>1, ReadKeepsCounts DEF Cursor
  <1> QED  BY <1>1, <1>4, <1>5 DEF IInv, Shape

LEMMA ReadKeepsTally ==
    ASSUME IInv, ReadPage
    PROVE  Tally'
  <1>1. /\ UNCHANGED <<present, name, changes, reading, identifier, everNamed>> /\ Here' = Here /\ Open
        /\ \A i \in Items :
              /\ i \in Page => seen'[i] = seen[i] + 1
              /\ i \notin Page => seen'[i] = seen[i]
              /\ i \in Page /\ Matches(i, name) => matched'[i] = matched[i] + 1
              /\ i \notin Page \/ ~Matches(i, name) => matched'[i] = matched[i]
              /\ seen[i] \in Nat /\ matched[i] \in Nat
    BY ReadFacts DEF IInv, Shape
  <1>2. Named(present, name)' = Named(present, name) /\ Named(present, name) \subseteq everNamed
    BY <1>1 DEF IInv, Tally, Named, Matches, Settles
  <1>3. Page \subseteq Here /\ Here \subseteq present
    BY <1>1, PageFacts, Inputs DEF IInv
  <1>4. Open' => \A i \in Page : ~Settles(i, name)
    <2>1. \A i : Found(i).kind # "open"
      BY DEF Found
    <2> QED  BY <2>1, Verdicts DEF Open
  <1>5. ASSUME NEW i \in Items
        PROVE  /\ matched'[i] # 0 => i \in everNamed
               /\ reading = "cluster" /\ i = identifier => matched'[i] = seen'[i]
               /\ reading = "pipeline" /\ ~LooksLikeID => matched'[i] = seen'[i]
               /\ Open' /\ reading = "pipeline" /\ i = identifier => seen'[i] = 0
               /\ Open' /\ reading = "queue" => matched'[i] = 0
               /\ changes = 0 => /\ seen'[i] # 0 => i \in Here
                                 /\ matched'[i] = IF Matches(i, name) THEN seen'[i] ELSE 0
    <2>1. /\ matched[i] # 0 => i \in everNamed
          /\ reading = "cluster" /\ i = identifier => matched[i] = seen[i]
          /\ reading = "pipeline" /\ ~LooksLikeID => matched[i] = seen[i]
          /\ reading = "pipeline" /\ i = identifier => seen[i] = 0
          /\ reading = "queue" => matched[i] = 0
          /\ changes = 0 => /\ seen[i] # 0 => i \in Here
                            /\ matched[i] = IF Matches(i, name) THEN seen[i] ELSE 0
      BY <1>1 DEF IInv, Tally
    <2>2. i \in Page /\ Matches(i, name) => i \in everNamed
      BY <1>2, <1>3 DEF Named
    <2>3. reading = "cluster" /\ i = identifier => Matches(i, name)
      BY DEF Matches
    <2>4. reading = "pipeline" /\ ~LooksLikeID /\ i \in Here => Matches(i, name)
      BY DEF Matches, Here, Listed
    <2>5. /\ reading = "pipeline" /\ i = identifier => Settles(i, name)
          /\ reading = "queue" /\ Matches(i, name) => Settles(i, name)
      BY DEF Matches, Settles
    <2>6. CASE i \in Page /\ Matches(i, name)
      BY <1>1, <1>3, <1>4, <2>1, <2>2, <2>5, <2>6
    <2>7. CASE i \in Page /\ ~Matches(i, name)
      BY <1>1, <1>3, <1>4, <2>1, <2>3, <2>4, <2>5, <2>7
    <2>8. CASE i \notin Page
      BY <1>1, <2>1, <2>8
    <2> QED  BY <2>6, <2>7, <2>8
  <1> QED
    <2>1. \A i : Matches(i, name)' <=> Matches(i, name)
      BY <1>1 DEF Matches
    <2>2. LooksLikeID' <=> LooksLikeID
      BY <1>1 DEF LooksLikeID
    <2> QED  BY <1>1, <1>2, <1>5, <2>1, <2>2 DEF Tally

(* The last page tells what is complete; a page before it at most what settles the search. *)
LEMMA Conclusions ==
    /\ \A r \in Conclude(matched') :
          /\ r.kind \in {"listed", "none", "multiple", "found"}
          /\ r.kind = "listed" <=> reading = "migrations"
          /\ r.kind = "none" => \A i \in Items : matched'[i] = 0
          /\ r.kind = "multiple" =>
                /\ \E i \in Items : matched'[i] # 0
                /\ ~\E i \in Items : matched'[i] = 1 /\ \A j \in Items \ {i} : matched'[j] = 0
          /\ r.kind = "found" =>
                \E i \in Items : r = Found(i) /\ matched'[i] = 1 /\ \A j \in Items \ {i} : matched'[j] = 0
    /\ \A i : Found(i).kind = "found" /\ Found(i).item = i
    /\ \A i, j : Found(i) = Found(j) => i = j
    /\ Verdict("open").kind = "open"
  <1>1. /\ \A i : Found(i).kind = "found" /\ Found(i).item = i
        /\ \A k : Verdict(k).kind = k
    BY DEF Found, Verdict
  <1>2. \A i, j : Found(i) = Found(j) => i = j
    BY <1>1
  <1>3. ASSUME NEW r \in Conclude(matched')
        PROVE  \/ reading = "migrations" /\ r = Verdict("listed")
               \/ /\ reading # "migrations" /\ r = Verdict("none")
                  /\ \A i \in Items : matched'[i] = 0
               \/ /\ reading # "migrations" /\ r = Verdict("multiple")
                  /\ \E i \in Items : matched'[i] # 0
                  /\ ~\E i \in Items : matched'[i] = 1 /\ \A j \in Items \ {i} : matched'[j] = 0
               \/ /\ reading # "migrations"
                  /\ \E i \in Items :
                        r = Found(i) /\ matched'[i] = 1 /\ \A j \in Items \ {i} : matched'[j] = 0
    BY DEF Conclude
  <1> QED  BY <1>1, <1>2, <1>3

LEMMA ReadExplains ==
    ASSUME IInv, ReadPage
    PROVE  ShiftsExplainErrors' /\ OverlooksOnlyAfterRemoval'
  <1>1. /\ UNCHANGED <<present, name, reading, identifier, entered, left, everNamed>>
        /\ Steady' = Steady /\ Steady \subseteq Items /\ Open
        /\ Cursor' = Cursor /\ LooksLikeID' = LooksLikeID
    BY ReadFacts, Inputs DEF IInv, Cursor, LooksLikeID
  <1>2. CASE \E k \in Page : Settles(k, name) /\ result' = Found(k)
    <2>1. PICK k \in Page : Settles(k, name) /\ result' = Found(k)
      BY <1>2
    <2>2. k \in present /\ k \in Items
      BY <1>1, PageFacts, Inputs DEF IInv
    <2>3. result'.kind = "found" /\ result'.item = k
      BY <2>1, Conclusions
    <2>4. k \in everNamed
      BY <2>1, <2>2 DEF IInv, Tally, Named
    <2>5. reading # "cluster" /\ (reading = "pipeline" => k = identifier /\ LooksLikeID)
      BY <2>1, <2>2 DEF Settles, LooksLikeID
    <2>6. ShiftsExplainErrors'
      BY <2>3 DEF ShiftsExplainErrors, Complete
    <2> QED  BY <1>1, <2>1, <2>3, <2>4, <2>5, <2>6 DEF OverlooksOnlyAfterRemoval
  <1>3. CASE /\ \A i \in Page : ~Settles(i, name)
             /\ NextPage = 0 /\ result' \in Conclude(matched')
    <2>1. \A i \in Steady : /\ seen'[i] = 0 => ~Cursor /\ \E j \in left : j < i
                            /\ seen'[i] > 1 => ~Cursor /\ \E j \in entered : j < i
      BY <1>3, ReadKeepsCounts
    <2>2. ShiftsExplainErrors'
      BY <1>1, <2>1 DEF ShiftsExplainErrors
    <2>3. result'.kind = "found" =>
             \E k \in Items : /\ result' = Found(k) /\ matched'[k] = 1
                              /\ \A j \in Items \ {k} : matched'[j] = 0
      BY <1>3, Conclusions
    <2>4. result'.kind = "found" => result'.item \in everNamed'
      BY <2>3, ReadKeepsTally, Conclusions DEF Tally
    <2>5. ASSUME NEW i \in Steady, result' # Found(i), result'.kind \in {"found", "none"},
                 reading \in {"cluster", "pipeline"},
                 i = identifier \/ (reading = "pipeline" /\ ~LooksLikeID)
          PROVE  \E j \in left : j < i
      <3>1. SUFFICES ASSUME seen'[i] # 0 PROVE FALSE
        BY <2>1
      <3>2. i \in Items /\ "cluster" # "pipeline"
        BY <1>1
      <3>3. CASE reading = "pipeline" /\ i = identifier
        <4>1. seen[i] = 0
          BY <1>1, <3>2, <3>3 DEF IInv, Tally
        <4>2. i \in Page
          BY <3>1, <3>2, <4>1, ReadFacts
        <4> QED  BY <1>3, <3>3, <4>2 DEF Settles
      <3>4. CASE ~(reading = "pipeline" /\ i = identifier)
        <4>1. \/ reading' = "cluster" /\ i = identifier'
              \/ reading' = "pipeline" /\ ~LooksLikeID'
          BY <1>1, <2>5, <3>4
        <4>2. matched'[i] = seen'[i]
          BY <3>2, <4>1, ReadKeepsTally DEF Tally
        <4>3. result'.kind # "none"
          BY <1>3, <3>1, <3>2, <4>2, Conclusions
        <4> QED  BY <2>3, <2>5, <3>1, <3>2, <4>2, <4>3
      <3> QED  BY <3>3, <3>4
    <2> QED  BY <1>1, <2>2, <2>4, <2>5 DEF OverlooksOnlyAfterRemoval
  <1>4. CASE result' = Verdict("open")
    BY <1>4, Conclusions DEF ShiftsExplainErrors, OverlooksOnlyAfterRemoval, Complete
  <1> QED  BY <1>2, <1>3, <1>4, Verdicts

LEMMA HowMany ==
    ASSUME NEW S, IsFiniteSet(S)
    PROVE  /\ S = {} => ~(Cardinality(S) > 1)
           /\ (\E x : S = {x}) => ~(Cardinality(S) > 1)
           /\ S # {} /\ (~\E x : S = {x}) => Cardinality(S) > 1
  <1>1. /\ Cardinality(S) \in Nat /\ (Cardinality(S) = 0 <=> S = {})
        /\ Cardinality(S) = 1 <=> \E x : S = {x}
    BY FS_CardinalityType, FS_EmptySet, FS_Singleton
  <1> QED  BY <1>1

(* Over a list that does not change, what was read is what is there, and each item once. *)
LEMMA ReadAnswers ==
    ASSUME IInv, ReadPage
    PROVE  AnswersAsNamed'
  <1> DEFINE named == Named(present, name)
             byID  == IF reading = "pipeline" THEN named \cap {identifier} ELSE {}
  <1>1. /\ UNCHANGED <<present, name, changes, reading, identifier>> /\ Open
        /\ Here' = Here /\ Named(present, name)' = named
    BY ReadFacts DEF Named, Matches, Settles
  <1>2. SUFFICES ASSUME changes = 0, result'.kind \in {"found", "none", "multiple"}
                 PROVE  IF byID # {} THEN result' = Found(identifier)
                        ELSE /\ result'.kind = "none" <=> named = {}
                             /\ result'.kind = "multiple" <=> Cardinality(named) > 1 /\ reading # "queue"
                             /\ result'.kind = "found" => result'.item \in named
    BY <1>1 DEF AnswersAsNamed
  <1>3. /\ present \in SUBSET Items /\ IsFiniteSet(named) /\ named \in SUBSET present
        /\ Here \in SUBSET present
        /\ reading \in {"cluster", "queue", "pipeline", "migrations"}
    <2>1. named \in SUBSET present /\ present \in SUBSET Items /\ IsFiniteSet(Items)
      BY Inputs DEF IInv, Named
    <2> HIDE DEF named
    <2>2. IsFiniteSet(named)
      BY <2>1, FS_Subset
    <2> QED  BY <2>1, <2>2, Inputs DEF IInv
  <1>4. CASE \E k \in Page : Settles(k, name) /\ result' = Found(k)
    <2>1. PICK k \in Page : Settles(k, name) /\ result' = Found(k)
      BY <1>4
    <2>2. k \in named
      BY <1>1, <1>3, <2>1, PageFacts DEF Named
    <2>3. result'.kind = "found" /\ result'.item = k
      BY <2>1, Conclusions
    <2>4. reading = "queue" \/ (reading = "pipeline" /\ k = identifier)
      BY <2>1 DEF Settles
    <2> HIDE DEF named
    <2> QED  BY <2>1, <2>2, <2>3, <2>4
  <1>5. CASE /\ \A i \in Page : ~Settles(i, name)
             /\ NextPage = 0 /\ result' \in Conclude(matched')
    <2>1. Steady = Here /\ entered = {} /\ left = {}
      BY <1>2 DEF IInv, Shape, Steady, Here
    <2>2. \A i \in Here : seen'[i] = 1
      <3>1. \A i \in Here : seen'[i] # 0 /\ ~(seen'[i] > 1)
        BY <1>5, <2>1, ReadKeepsCounts
      <3>2. \A i \in Here : seen'[i] \in Nat
        BY <1>3, ReadFacts
      <3> QED  BY <3>1, <3>2
    <2>3. \A i \in Items : matched'[i] = IF i \in Here /\ Matches(i, name) THEN 1 ELSE 0
      <3>1. \A i \in Items : /\ seen'[i] # 0 => i \in Here
                             /\ matched'[i] = IF Matches(i, name)' THEN seen'[i] ELSE 0
        BY <1>1, <1>2, ReadKeepsTally DEF Tally
      <3>2. \A i : Matches(i, name)' <=> Matches(i, name)
        BY <1>1 DEF Matches
      <3> QED  BY <2>2, <3>1, <3>2
    <2>4. reading = "pipeline" => identifier \notin Here
      <3> SUFFICES ASSUME reading = "pipeline", identifier \in Here PROVE FALSE
        OBVIOUS
      <3>1. identifier \in Items /\ seen[identifier] = 0
        BY <1>1, <1>3 DEF IInv, Tally
      <3>2. identifier \in Page
        BY <2>2, <3>1, ReadFacts
      <3> QED  BY <1>5, <3>2 DEF Settles
    <2>5. reading = "pipeline" => identifier \notin present
      BY <1>3, <2>4 DEF Here, Listed, LooksLikeID
    <2>6. named = { i \in Here : Matches(i, name) }
      <3>1. ASSUME NEW i \in named PROVE i \in Here /\ Matches(i, name)
        <4>1. i \in present /\ (Matches(i, name) \/ Settles(i, name))
          BY DEF Named
        <4>2. Matches(i, name)
          BY <2>5, <4>1 DEF Matches, Settles
        <4>3. i \in Here
          BY <1>3, <2>5, <4>1, <4>2 DEF Matches, Here, Listed, LooksLikeID
        <4> QED  BY <4>2, <4>3
      <3> QED  BY <1>3, <3>1 DEF Named
    <2>7. byID = {}
      BY <1>3, <2>5
    <2>8. \A i \in Items : (matched'[i] = 0 <=> i \notin named) /\ (matched'[i] = 1 <=> i \in named)
      BY <2>3, <2>6
    <2>9. reading = "queue" => named = {}
      <3> SUFFICES ASSUME reading = "queue", NEW i \in named PROVE FALSE
        OBVIOUS
      <3>1. i \in Items /\ matched[i] = 0 /\ matched'[i] = 1 /\ Matches(i, name)
        BY <1>1, <1>3, <2>6, <2>8 DEF IInv, Tally
      <3>2. i \in Page
        BY <3>1, ReadFacts
      <3> QED  BY <1>5, <3>1, <3>2 DEF Matches, Settles
    <2> HIDE DEF named, byID
    <2>10. CASE result'.kind = "none"
      <3>1. named = {}
        BY <1>3, <1>5, <2>8, <2>10, Conclusions
      <3> QED  BY <2>7, <2>10, <3>1, HowMany, FS_EmptySet
    <2>11. CASE result'.kind = "multiple"
      <3>1. named # {}
        BY <1>5, <2>8, <2>11, Conclusions
      <3>2. ~\E x : named = {x}
        <4> SUFFICES ASSUME NEW x, named = {x} PROVE FALSE
          OBVIOUS
        <4>1. x \in Items /\ matched'[x] = 1 /\ \A j \in Items \ {x} : matched'[j] = 0
          BY <1>3, <2>8
        <4> QED  BY <1>5, <2>11, <4>1, Conclusions
      <3> QED  BY <1>3, <2>7, <2>9, <2>11, <3>1, <3>2, HowMany
    <2>12. CASE result'.kind = "found"
      <3>1. PICK i \in Items : /\ result' = Found(i) /\ matched'[i] = 1
                               /\ \A j \in Items \ {i} : matched'[j] = 0
        BY <1>5, <2>12, Conclusions
      <3>2. named = {i}
        BY <1>3, <2>8, <3>1
      <3>3. result'.item = i
        BY <3>1, Conclusions
      <3> QED  BY <1>3, <2>7, <2>12, <3>2, <3>3, HowMany
    <2> QED  BY <1>2, <2>10, <2>11, <2>12
  <1>6. CASE result' = Verdict("open")
    BY <1>2, <1>6, Conclusions
  <1> QED  BY <1>4, <1>5, <1>6, Verdicts

LEMMA ReadPreserves ==
    ASSUME IInv, ReadPage
    PROVE  IInv'
  <1>1. Shape' /\ Tally' /\ ShiftsExplainErrors' /\ OverlooksOnlyAfterRemoval' /\ AnswersAsNamed'
    BY ReadKeepsShape, ReadKeepsTally, ReadExplains, ReadAnswers
  <1>2. Offsets' /\ Cursors'
    <2>1. CASE NextPage # 0
      BY <2>1, ReadKeepsCounts
    <2>2. CASE NextPage = 0
      BY <2>2, ReadKeepsCounts DEF Offsets, Cursors
    <2> QED  BY <2>1, <2>2
  <1> QED  BY <1>1, <1>2 DEF IInv

LEMMA FailPreserves ==
    ASSUME IInv, Fail
    PROVE  IInv'
  <1>1. /\ UNCHANGED <<present, deleted, name, changes, reading, identifier, next, matched, seen,
                       entered, left, everNamed>>
        /\ result' = Verdict("failed") /\ result'.kind = "failed" /\ Open
    BY DEF Fail, list, history, Verdict, Open
  <1>2. TypeOK'
    BY <1>1 DEF IInv, Shape, TypeOK
  <1>3. Shape' /\ Offsets' /\ Cursors'
    BY <1>1, <1>2 DEF IInv, Shape, Offsets, Cursors, Open
  <1>4. Tally'
    <2>1. /\ Named(present, name)' = Named(present, name) /\ Here' = Here
          /\ (LooksLikeID' <=> LooksLikeID) /\ \A i : Matches(i, name)' <=> Matches(i, name)
      BY <1>1 DEF Named, Matches, Settles, Here, Listed, LooksLikeID
    <2> QED  BY <1>1, <2>1 DEF IInv, Tally, Open
  <1>5. (ShiftsExplainErrors /\ AnswersAsNamed /\ OverlooksOnlyAfterRemoval)'
    BY <1>1 DEF ShiftsExplainErrors, AnswersAsNamed, OverlooksOnlyAfterRemoval, Complete
  <1> QED  BY <1>3, <1>4, <1>5 DEF IInv

----------------------------------------------------------------------------
(* The invariant is inductive. *)
THEOREM Inductive == Spec => []IInv
  <1>1. IInv /\ UNCHANGED vars => IInv'
    BY DEF vars, list, command, history, IInv, Shape, TypeOK, Offsets, Cursors, Tally, Open, Here,
       Position, Listed, LooksLikeID, Cursor, Steady, Named, Matches, Settles, Complete,
       ShiftsExplainErrors, AnswersAsNamed, OverlooksOnlyAfterRemoval
  <1>2. IInv /\ [Next]_vars => IInv'
    BY <1>1, ChangePreserves, ReadPreserves, FailPreserves DEF Next
  <1> QED  BY <1>2, InitEstablishes, PTL DEF Spec

(* Among others: a reading ends after no more pages than there can be items. *)
THEOREM TypeCorrect == Spec => []TypeOK
  <1>1. IInv => TypeOK
    BY DEF IInv, Shape
  <1> QED  BY <1>1, Inductive, PTL

(* An item is missed only if one before it went, and met twice only if one before it came. *)
THEOREM ErrorsAreExplained == Spec => []ShiftsExplainErrors
  <1>1. IInv => ShiftsExplainErrors
    BY DEF IInv
  <1> QED  BY <1>1, Inductive, PTL

(* Over a list that does not change, the answers are what their messages say. *)
THEOREM AnswersAreRight == Spec => []AnswersAsNamed
  <1>1. IInv => AnswersAsNamed
    BY DEF IInv
  <1> QED  BY <1>1, Inductive, PTL

(***************************************************************************)
(* Whatever changes, an answer was named by the identifier, and an item    *)
(* that was named all along is passed over only after a removal before it. *)
(***************************************************************************)
THEOREM OverlookedOnlyForCause == Spec => []OverlooksOnlyAfterRemoval
  <1>1. IInv => OverlooksOnlyAfterRemoval
    BY DEF IInv
  <1> QED  BY <1>1, Inductive, PTL
=============================================================================
