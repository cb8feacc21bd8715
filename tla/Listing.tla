------------------------------ MODULE Listing ------------------------------
(***************************************************************************)
(* Lists made by sorting and filtering: what sort_by, a stable sort, a       *)
(* binary-searched insertion and Vec::retain leave.                        *)
(***************************************************************************)
EXTENDS Integers, FiniteSets

\* The elements of a finite set in order; before[x] is the set of those that
\* come before x.
Listed(before) ==
  [n \in 1 .. Cardinality(DOMAIN before) |->
     CHOOSE x \in DOMAIN before : Cardinality(before[x]) = n - 1]

\* A set of positions in increasing order.
Ascending(at) == Listed([i \in at |-> {j \in at : j < i}])

\* The elements of a sequence at some positions, in the order they have.
Picked(v, at) ==
  LET order == Ascending(at) IN [n \in DOMAIN order |-> v[order[n]]]

=============================================================================
