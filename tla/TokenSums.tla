----------------------------- MODULE TokenSums -----------------------------
(***************************************************************************)
(* The sum of a function of natural numbers over a finite set: the total   *)
(* of a mapping(address => uint256).  Every account u holding f[u] tokens  *)
(* is given the f[u] numbered tokens <<u, 1>>, ..., <<u, f[u]>>, and the   *)
(* sum is the number of tokens.  A cardinality, unlike a fold, can be      *)
(* reasoned about with the theorems of FiniteSetTheorems.                  *)
(***************************************************************************)
EXTENDS Naturals, FiniteSets

(* The numbered tokens of account u in the mapping f. *)
UnitsOf(f, u) == {<<u, i>> : i \in 1..f[u]}

(* All the tokens of the mapping f. *)
Units(f) == UNION {UnitsOf(f, u) : u \in DOMAIN f}

Sum(f) == Cardinality(Units(f))
============================================================================
