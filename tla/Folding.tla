------------------------------ MODULE Folding ------------------------------
(***************************************************************************)
(* Folds whose operators are handed values.  FoldLeft hands its operator   *)
(* expressions still to be evaluated, which costs TLC an evaluation for    *)
(* every use; here each value is worked out once.                          *)
(***************************************************************************)
EXTENDS Naturals, Sequences

\* Op of x, with x evaluated once, wherever Op uses it.
With(x, Op(_)) == CHOOSE z \in {Op(y) : y \in {x}} : TRUE

\* Op over a sequence, from x.
Fold(Op(_, _), x, seq) ==
    LET after[k \in 0..Len(seq)] ==
            IF k = 0 THEN x ELSE With(after[k - 1], LAMBDA y : Op(y, seq[k]))
    IN  after[Len(seq)]

\* Op n times, from x.
Repeat(Op(_), x, n) ==
    LET step(y, k) == Op(y) IN Fold(step, x, [k \in 1..n |-> k])

=============================================================================
