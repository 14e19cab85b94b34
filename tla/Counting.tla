------------------------------ MODULE Counting -------------------------------
(***************************************************************************)
(* Sums and places in an order, both as numbers of elements, which the     *)
(* provers can reason about where they cannot about a fold; and the        *)
(* greatest value of a column, and what it is divided by.                  *)
(***************************************************************************)
EXTENDS Integers, FiniteSets, FiniteSetsExt

\* The sum of what f counts, f[x] for each x.
SumOf(f) == Cardinality(UNION {{x} \X (1..f[x]) : x \in DOMAIN f})

\* How many of the numbers in S come before n.
Place(n, S) == Cardinality({m \in S : m < n})

\* The greatest of a field over a table that has rows.
Largest(table, field) == Max({table[i][field] : i \in DOMAIN table})

\* "v or 1.0", for a denominator
OrOne(v) == IF v = 0 THEN 1 ELSE v
=============================================================================
