------------------------------ MODULE Folding ------------------------------
(***************************************************************************)
(* A fold over a sequence, as a recursive function, so that it can be      *)
(* proved about; FoldProofs has the induction.                             *)
(***************************************************************************)
EXTENDS Integers, Sequences

(* FoldLeft that evaluates each intermediate result once: binding it by a  *)
(* quantifier keeps TLC from re-evaluating it wherever Op mentions it.     *)
Folded(Op(_, _), base, seq) ==
  LET run[i \in 0..Len(seq)] ==
        IF i = 0 THEN base ELSE CHOOSE v \in {Op(acc, seq[i]) : acc \in {run[i - 1]}} : TRUE
  IN  run[Len(seq)]

(* What a sequence has of a set, in its order.                             *)
Chosen(s, good) == Folded(LAMBDA kept, x : IF x \in good THEN Append(kept, x) ELSE kept, <<>>, s)
=============================================================================
