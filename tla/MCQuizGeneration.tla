-------------------------- MODULE MCQuizGeneration --------------------------
(***************************************************************************)
(* Instances of QuizGeneration for TLC.                                    *)
(***************************************************************************)
EXTENDS QuizGeneration, TLC

CONSTANTS u1, u2, m1, m2

(* Two users with a material each. *)
TwoOwners == (m1 :> u1) @@ (m2 :> u2)

(* Quiz sets are interchangeable, and so are the threads of the pool. *)
PoolSymmetry == Permutations(Sets) \cup Permutations(Workers)
=============================================================================
