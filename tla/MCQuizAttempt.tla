----------------------------- MODULE MCQuizAttempt -----------------------------
(***************************************************************************)
(* A small instance of QuizAttempt for model checking: a paper of two      *)
(* essays, where one assessment leaves the other to do, and a paper of one *)
(* short answer.                                                           *)
(***************************************************************************)
EXTENDS QuizAttempt

CONSTANTS s, e, f   \* a short-answer question and two essays

SmallPapers == {<<e, f>>, <<s>>}

=============================================================================
