------------------------------ MODULE Totals -------------------------------
(***************************************************************************)
(* What the entries of a function add up to.  It is counted: each number n *)
(* of the function stands for n units.                                     *)
(***************************************************************************)
EXTENDS Naturals, FiniteSets

Units(f) == UNION {{x} \X (1 .. f[x]) : x \in DOMAIN f}

Total(f) == Cardinality(Units(f))
=============================================================================
