------------------------- MODULE GenerationLifecycle -------------------------
(***************************************************************************)
(* What quiz generation promises its users, whatever runs behind it: a     *)
(* user has at most one quiz set being generated, a set is settled once,   *)
(* as READY or FAILED, and its owner is told exactly once, in the step     *)
(* that settles it. QuizGeneration implements this specification.          *)
(***************************************************************************)
EXTENDS Naturals, FiniteSets

CONSTANTS Sets,         \* identities of quiz sets
          Users         \* accounts

VARIABLES status,       \* quiz set -> status, "ABSENT" before it is accepted
          owner,        \* quiz set -> the user it was accepted for
          told          \* quiz set -> notifications its owner has received

vars == <<status, owner, told>>

Terminal == {"READY", "FAILED"}
Active(u) == {s \in Sets : status[s] = "GENERATING" /\ owner[s] = u}

Init ==
  /\ status = [s \in Sets |-> "ABSENT"]
  /\ owner \in [Sets -> Users]
  /\ told = [s \in Sets |-> 0]

(* A user's request becomes a quiz set being generated. *)
Accept(s, u) ==
  /\ status[s] = "ABSENT"
  /\ Active(u) = {}
  /\ status' = [status EXCEPT ![s] = "GENERATING"]
  /\ owner' = [owner EXCEPT ![s] = u]
  /\ UNCHANGED told

(* Some sets reach an outcome; their owners are told in the same step. *)
Settle(S, outcome) ==
  /\ S # {}
  /\ \A s \in S : status[s] = "GENERATING"
  /\ status' = [s \in Sets |-> IF s \in S THEN outcome ELSE status[s]]
  /\ told' = [s \in Sets |-> IF s \in S THEN told[s] + 1 ELSE told[s]]
  /\ UNCHANGED owner

Next ==
  \/ \E s \in Sets, u \in Users : Accept(s, u)
  \/ \E S \in SUBSET Sets, outcome \in Terminal : Settle(S, outcome)

Spec == Init /\ [][Next]_vars
=============================================================================
