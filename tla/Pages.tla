------------------------------- MODULE Pages -------------------------------
(***************************************************************************)
(* How the service cuts a list into pages.  Items are numbers, in the      *)
(* order of the list.  An offset page is found by counting items from the  *)
(* front at the time of the request, a cursor page by the last item of     *)
(* the page before it.                                                     *)
(***************************************************************************)
EXTENDS Integers, FiniteSets

(* The items of S at the positions after `skipped`, at most `size` of them. *)
Slice(S, skipped, size) ==
    { i \in S : LET before == Cardinality({ j \in S : j < i })
                IN  skipped <= before /\ before < skipped + size }

(* Page n, from 1; a link to the next page while there are items after it. *)
OffsetPage(S, n, size) == Slice(S, (n - 1) * size, size)
OffsetNext(S, n, size) == IF Cardinality(S) > n * size THEN n + 1 ELSE 0

(* The page after item `last`, 0 for the first page; the next cursor is its last item. *)
CursorPage(S, last, size) == Slice({ i \in S : i > last }, 0, size)
CursorNext(S, last, size) ==
    IF Cardinality({ i \in S : i > last }) > size
    THEN CHOOSE i \in CursorPage(S, last, size) : \A j \in CursorPage(S, last, size) : j <= i
    ELSE 0
=============================================================================
