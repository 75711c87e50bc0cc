-------------------------- MODULE MCPushRegistration --------------------------
(***************************************************************************)
(* Instances of PushRegistration for TLC.  One run checks three of them,   *)
(* and the first choice is which: in "leaving" an account logs out while   *)
(* its installation registers; in "moving" two accounts take two           *)
(* installations and a token from each other; in "renewing" they take one  *)
(* installation with two tokens, one request after the other.              *)
(***************************************************************************)
EXTENDS PushRegistration, TLC

CONSTANTS i1, i2, a, b, s1, k1, k2

VARIABLE scenario   \* "leaving", "moving" or "renewing"

(* s1 is a session of the account a, every other one of b.                 *)
TwoAccounts == [s \in Sessions |-> IF s = s1 THEN a ELSE b]

Content(kind, i, u, tok) ==
  [kind |-> kind, installation |-> i, user |-> u, token |-> tok]

Leaving == {Content("GRANT", i1, a, k1), Content("DENY", i1, a, None)}
Taking ==
  {Content("GRANT", i1, a, k1), Content("GRANT", i1, b, k1), Content("REVOKE", i1, a, None)}
Moving == Taking \cup {Content("GRANT", i2, a, k1), Content("GRANT", i2, b, k1)}
Renewing == Taking \cup {Content("GRANT", i1, a, k2)}
Everything == Leaving \cup Moving \cup Renewing

(* What each scenario wants, with how many operations, at most how many    *)
(* requests at a time.                                                     *)
Wanted ==
  [leaving |-> [contents |-> Leaving, operations |-> 2, requests |-> 2],
   moving |-> [contents |-> Moving, operations |-> 2, requests |-> 2],
   renewing |-> [contents |-> Renewing, operations |-> 3, requests |-> 1]][scenario]
MayIntend == Cardinality({o \in Operations : intent[o].kind # "NONE"}) < Wanted.operations
MayOpen == Cardinality({t \in Threads : stage[t] # "idle"}) < Wanted.requests

MCInit == Init /\ scenario \in {"leaving", "moving", "renewing"}

(* Sessions and requests fail and end in "leaving", accounts end and time  *)
(* runs out in the others.                                                 *)
SessionsMove(s) ==
  \/ scenario = "leaving" /\ (Rotate(s) \/ Lapse(s) \/ LogOut(s) \/ GiveUp(s))
  \/ Inspect(s) \/ End(s) \/ CleanUp(s)
Requested(t) ==
  \/ MayOpen /\ \E o \in Operations, s \in Sessions : Open(t, o, s)
  \/ View(t) \/ Retry(t) \/ Reject(t)
  \/ Replay(t) \/ Conflict(t) \/ Register(t) \/ Disable(t) \/ DenyUnknown(t)
  \/ Check(t) \/ Compensate(t) \/ (scenario = "leaving" /\ Fail(t))

MCNext ==
  /\ \/ \E t \in Threads : Requested(t)
     \/ \E o \in Operations :
          \/ MayIntend /\ \E c \in Wanted.contents : Intend(o, c)
          \/ scenario # "leaving" /\ (Expire(o) \/ Purge(o))
          \/ Revoke(o)
     \/ \E i \in Installations : Refuse(i) \/ (scenario # "leaving" /\ PurgeDevice(i))
     \/ scenario # "leaving" /\ \E u \in Users : Withdraw(u) \/ RevokeAll(u)
     \/ \E s \in Sessions : SessionsMove(s)
  /\ UNCHANGED scenario

MCSpec == MCInit /\ [][MCNext]_<<scenario, vars>>

(* Threads are interchangeable, and so are the names of operations.        *)
Symmetry == Permutations(Threads) \cup Permutations(Operations)
=============================================================================
