----------------------------- MODULE PushLifecycle -----------------------------
(***************************************************************************)
(* What the server promises of one push delivery, whatever the workers do: *)
(* it is tried at most MaxAttempts times, it is never tried again once the *)
(* provider's ticket is on record, and once it has ended it has ended.     *)
(* PushDelivery implements this specification.                             *)
(***************************************************************************)
EXTENDS Naturals

CONSTANTS Deliveries,   \* rows of the outbox
          MaxAttempts   \* how often a delivery may be tried

VARIABLES phase,        \* delivery -> its phase
          tries         \* delivery -> attempts so far

vars == <<phase, tries>>

Phases == {"absent", "waiting", "trying", "ticketed", "ended", "deleted"}

Init ==
  /\ phase = [d \in Deliveries |-> "absent"]
  /\ tries = [d \in Deliveries |-> 0]

(* One delivery moves; how the phases may follow each other. *)
Moves(d, next) ==
  \/ phase[d] = "absent" /\ next = "waiting"
  \/ phase[d] = "waiting" /\ next = "ended"
  \/ phase[d] = "trying" /\ next \in {"waiting", "ticketed", "ended"}
  \/ phase[d] = "ticketed" /\ next = "ended"
  \/ phase[d] # "absent" /\ next = "deleted"

Advance(S, next) ==
  /\ \A d \in S : Moves(d, next[d])
  /\ phase' = [d \in Deliveries |-> IF d \in S THEN next[d] ELSE phase[d]]
  /\ UNCHANGED tries

(* Some waiting deliveries are tried and others given up, in one transaction. *)
Try(S, E) ==
  /\ S \cap E = {}
  /\ \A d \in S : phase[d] = "waiting" /\ tries[d] < MaxAttempts
  /\ \A d \in E : phase[d] = "waiting"
  /\ phase' = [d \in Deliveries |-> IF d \in S THEN "trying"
                                     ELSE IF d \in E THEN "ended" ELSE phase[d]]
  /\ tries' = [d \in Deliveries |-> IF d \in S THEN tries[d] + 1 ELSE tries[d]]

Next ==
  \/ \E S \in SUBSET Deliveries, next \in [Deliveries -> Phases] : Advance(S, next)
  \/ \E S, E \in SUBSET Deliveries : Try(S, E)

Spec == Init /\ [][Next]_vars
=============================================================================
