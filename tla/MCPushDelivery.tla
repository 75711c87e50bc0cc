---------------------------- MODULE MCPushDelivery ----------------------------
(***************************************************************************)
(* Instances of PushDelivery for TLC.  One run checks two of them; the     *)
(* first choice is which.  In "rivals" two workers and the mishaps contend *)
(* for one delivery, in "batch" one worker takes two deliveries at a time  *)
(* and nothing fails.                                                      *)
(***************************************************************************)
EXTENDS PushDelivery

CONSTANTS v1, w1, d1

VARIABLE scenario   \* "rivals" or "batch"

MCvars == <<scenario, vars>>

(* All deliveries go to one device: they share its registrations.          *)
OneDevice == [d \in Deliveries |-> v1]

(* Who takes part: the rows that are ever enqueued, the workers that run.  *)
Rows == IF scenario = "rivals" THEN {d1} ELSE Deliveries
Running == IF scenario = "rivals" THEN Workers ELSE {w1}
Fails == scenario = "rivals"

MCInit == Init /\ scenario \in {"rivals", "batch"}

MCNext ==
  /\ \/ \E d \in Rows : Enqueue(d) \/ ComesDue(d) \/ Expires(d) \/ Ages(d) \/ (Fails /\ (Retain(d) \/ Lapses(d)))
     \/ \E v \in Devices : Register(v) \/ Revoke(v) \/ (Fails /\ DeleteDevice(v))
     \/ \E w \in Running : Step(w) \/ (Fails /\ (Abort(w) \/ Crash(w)))
  /\ UNCHANGED scenario

(* Fairness of PushDelivery, for those that take part.                     *)
Runs(w) == w \in Running /\ Step(w) /\ UNCHANGED scenario
Passes(A) == A /\ UNCHANGED scenario

MCSpec ==
  /\ MCInit /\ [][MCNext]_MCvars
  /\ \A w \in Workers : WF_MCvars(Runs(w))
  /\ \A d \in Deliveries :
       /\ WF_MCvars(Passes(ComesDue(d))) /\ WF_MCvars(Passes(Lapses(d)))
       /\ WF_MCvars(Passes(Expires(d))) /\ SF_MCvars(Passes(Ages(d)))
=============================================================================
