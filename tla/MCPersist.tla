----------------------------- MODULE MCPersist ------------------------------
(* Three threads of one process, whose backend computes in f64; GaussianNB  *)
(* in f32, which writes floats of both widths, and in f64, and a model with *)
(* no floats.                                                               *)
EXTENDS Persist, TLC

CONSTANTS t1, t2, t3, p1

MCKinds == {[class |-> "gaussian_nb", arm |-> 4, widths |-> {4, 8}],
            [class |-> "gaussian_nb", arm |-> 8, widths |-> {8}],
            [class |-> "binarizer", arm |-> 4, widths |-> {}]}
AllInOne == [t \in {t1, t2, t3} |-> p1]
Symmetry == Permutations({t1, t2, t3})
=============================================================================
