------------------------------ MODULE Rankings ------------------------------
(***************************************************************************)
(* Python's sorted(): the elements of a finite set, each behind as many as  *)
(* come before it.  Before is a strict order that leaves nothing undecided. *)
(***************************************************************************)
EXTENDS Integers, FiniteSets

Ranked(S, Before(_, _)) ==
  LET places == {[x |-> x, ahead |-> Cardinality({y \in S : Before(y, x)})] : x \in S}
  IN  [i \in 1..Cardinality(S) |-> (CHOOSE p \in places : p.ahead = i - 1).x]
=============================================================================
