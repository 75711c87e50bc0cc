------------------------------ MODULE PushDelivery ------------------------------
(***************************************************************************)
(* Push deliveries: rows of an outbox that scheduler threads of the server *)
(* processes claim under a lease, check against the device, hand to the    *)
(* provider in batches, and settle by the provider's tickets and receipts. *)
(* Leases run out, processes die, answers are lost and devices change      *)
(* between any two transactions.                                           *)
(*                                                                         *)
(* Every transaction is one action. Time is not counted: a lease, a delay, *)
(* the hour a delivery lives and the day a ticket lives may end between    *)
(* any two actions, in the orders the code's instants allow.               *)
(***************************************************************************)
EXTENDS Integers, FiniteSets

CONSTANTS
  Deliveries,        \* rows of push_deliveries
  Devices,           \* rows of push_devices
  DeviceOf,          \* delivery -> its device
  Workers,           \* scheduler threads, one per server process
  NoWorker,          \* holder of an unclaimed row
  MaxAttempts,       \* MAX_SEND_ATTEMPTS, 8 in the code
  BatchSize,         \* rows one transaction takes
  MaxRegistrations,  \* bound: how often a device gets a new binding or token
  MaxMishaps         \* bound: crashes and failed transactions

ASSUME DeviceAssumption == DeviceOf \in [Deliveries -> Devices]
ASSUME FiniteAssumption == IsFiniteSet(Deliveries) /\ IsFiniteSet(Workers)
ASSUME NoWorkerAssumption == NoWorker \notin Workers
ASSUME MaxAssumption == MaxAttempts \in Nat \ {0} /\ BatchSize \in Nat \ {0}
ASSUME BoundAssumption == MaxRegistrations \in Nat /\ MaxMishaps \in Nat

Waiting == {"PENDING", "RETRY_WAIT"}
Claimed == {"SENDING", "RECEIPT_CHECKING"}
Ended == {"PROVIDER_ACCEPTED", "FAILED", "EXPIRED", "CANCELLED", "UNKNOWN"}
States == {"ABSENT", "TICKET_ACCEPTED", "DELETED"} \cup Waiting \cup Claimed \cup Ended

VARIABLES
  (* push_deliveries *)
  state,      \* delivery -> state
  attempts,   \* delivery -> attempt_count
  holder,     \* delivery -> worker of its attempt_id. An attempt_id is fresh for
              \* each claim; a worker has one batch at a time, so it stands for it.
  snapshot,   \* delivery -> registration (binding, token version) it was made for
  due,        \* rows whose next_attempt_at or receipt_next_at has come
  lapsed,     \* claimed rows whose lease_until has passed
  expired,    \* rows whose expires_at has passed
  aged,       \* rows whose ticket is older than the receipts' lifetime
  (* push_devices *)
  registration, \* device -> number of its latest binding and token version
  active,       \* the ACTIVE devices
  deleted,      \* devices whose row is gone
  (* workers *)
  stage,      \* worker -> what it does next
  batch,      \* worker -> claimed rows it has yet to prepare
  ready,      \* worker -> rows it has prepared, posted or looks up
  address,    \* worker -> delivery -> registration whose token the message carries
  late,       \* worker -> rows the gateway refused to post as expired
  mishaps,    \* crashes and failures so far
  (* history *)
  posted,     \* delivery -> messages handed to the provider
  postedTo,   \* delivery -> registrations whose token they carried
  refused     \* <<device, registration>> the provider called not registered

row == <<state, attempts, holder, snapshot, due, lapsed, expired, aged>>
device == <<registration, active, deleted>>
worker == <<stage, batch, ready, address, late>>
history == <<posted, postedTo, refused>>
vars == <<state, attempts, holder, snapshot, due, lapsed, expired, aged,
          registration, active, deleted, stage, batch, ready, address, late,
          mishaps, posted, postedTo, refused>>

Init ==
  /\ state = [d \in Deliveries |-> "ABSENT"]
  /\ attempts = [d \in Deliveries |-> 0]
  /\ holder = [d \in Deliveries |-> NoWorker]
  /\ snapshot = [d \in Deliveries |-> 0]
  /\ due = {} /\ lapsed = {} /\ expired = {} /\ aged = {}
  /\ registration = [v \in Devices |-> 1]
  /\ active = Devices
  /\ deleted = {}
  /\ stage = [w \in Workers |-> "recover"]
  /\ batch = [w \in Workers |-> {}]
  /\ ready = [w \in Workers |-> {}]
  /\ address = [w \in Workers |-> [d \in Deliveries |-> 0]]
  /\ late = [w \in Workers |-> {}]
  /\ mishaps = 0
  /\ posted = [d \in Deliveries |-> 0]
  /\ postedTo = [d \in Deliveries |-> {}]
  /\ refused = {}

-------------------------------------------------------------------------------
(* Rows and devices                                                          *)

(* The transaction that settles a quiz set saves a delivery for each ACTIVE
   device of the user. *)
Enqueue(d) ==
  /\ state[d] = "ABSENT"
  /\ DeviceOf[d] \in active
  /\ state' = [state EXCEPT ![d] = "PENDING"]
  /\ snapshot' = [snapshot EXCEPT ![d] = registration[DeviceOf[d]]]
  /\ due' = due \cup {d}
  /\ UNCHANGED <<attempts, holder, lapsed, expired, aged, device, worker, mishaps,
                 history>>

(* The device gets a new binding (another account, a reactivation) or a new token. *)
Register(v) ==
  /\ v \notin deleted
  /\ registration[v] < MaxRegistrations
  /\ registration' = [registration EXCEPT ![v] = @ + 1]
  /\ active' = active \cup {v}
  /\ UNCHANGED <<row, deleted, worker, mishaps, history>>

(* The device is revoked or disabled, or its user's account stops being ACTIVE. *)
Revoke(v) ==
  /\ v \in active
  /\ active' = active \ {v}
  /\ UNCHANGED <<row, registration, deleted, worker, mishaps, history>>

Remove(gone) ==
  /\ state' = [d \in Deliveries |-> IF d \in gone THEN "DELETED" ELSE state[d]]
  /\ holder' = [d \in Deliveries |-> IF d \in gone THEN NoWorker ELSE holder[d]]
  /\ lapsed' = lapsed \ gone

(* Withdrawal of the account or retention removes the device, and with it its
   deliveries, whoever works on them. *)
DeleteDevice(v) ==
  /\ v \notin deleted
  /\ deleted' = deleted \cup {v}
  /\ active' = active \ {v}
  /\ Remove({d \in Deliveries : DeviceOf[d] = v /\ state[d] # "ABSENT"})
  /\ UNCHANGED <<attempts, snapshot, due, expired, aged, registration, worker, mishaps,
                 history>>

(* Retention removes a delivery after 30 days, whatever its state: longer than it and
   its ticket live. *)
Retain(d) ==
  /\ \/ state[d] \in Ended
     \/ state[d] \in Waiting \cup {"SENDING"} /\ d \in expired
     \/ state[d] \in {"TICKET_ACCEPTED", "RECEIPT_CHECKING"} /\ d \in aged
  /\ Remove({d})
  /\ UNCHANGED <<attempts, snapshot, due, expired, aged, device, worker, mishaps, history>>

(* Time. nextSendRetry gives instants before expires_at only, and receipt_next_at
   is at most the end of the ticket's life. *)
ComesDue(d) ==
  /\ state[d] \in {"RETRY_WAIT", "TICKET_ACCEPTED"}
  /\ d \notin due
  /\ due' = due \cup {d}
  /\ UNCHANGED <<state, attempts, holder, snapshot, lapsed, expired, aged, device,
                 worker, mishaps, history>>

Lapses(d) ==
  /\ state[d] \in Claimed
  /\ d \notin lapsed
  /\ lapsed' = lapsed \cup {d}
  /\ UNCHANGED <<state, attempts, holder, snapshot, due, expired, aged, device,
                 worker, mishaps, history>>

Expires(d) ==
  /\ state[d] = "SENDING" \/ (state[d] \in Waiting /\ d \in due)
  /\ d \notin expired
  /\ expired' = expired \cup {d}
  /\ UNCHANGED <<state, attempts, holder, snapshot, due, lapsed, aged, device,
                 worker, mishaps, history>>

Ages(d) ==
  /\ state[d] = "RECEIPT_CHECKING" \/ (state[d] = "TICKET_ACCEPTED" /\ d \in due)
  /\ d \notin aged
  /\ aged' = aged \cup {d}
  /\ UNCHANGED <<state, attempts, holder, snapshot, due, lapsed, expired, device,
                 worker, mishaps, history>>

-------------------------------------------------------------------------------
(* Workers. A tick recovers leases, sends what is due, then checks receipts. *)

At(w, s) == stage[w] = s

(* LIMIT: as many of the rows as one transaction takes. *)
Limited(S) ==
  {T \in SUBSET S : Cardinality(T) = IF Cardinality(S) < BatchSize
                                     THEN Cardinality(S) ELSE BatchSize}

(* Slip: a lost receipt check is taken for a lost message. *)
Recovered_SendsAgain(d) ==
  IF attempts[d] >= MaxAttempts THEN "FAILED"
  ELSE IF d \in expired THEN "EXPIRED" ELSE "RETRY_WAIT"

(* What becomes of a claimed row whose lease ran out. *)
Recovered(d) ==
  IF state[d] = "SENDING"
  THEN IF attempts[d] >= MaxAttempts THEN "FAILED"
       ELSE IF d \in expired THEN "EXPIRED" ELSE "RETRY_WAIT"
  ELSE IF d \in aged THEN "UNKNOWN" ELSE "TICKET_ACCEPTED"

(* Slip: only lost messages are recovered. *)
Recoverable_SendOnly == {d \in Deliveries : state[d] = "SENDING" /\ d \in lapsed}

Recoverable == {d \in Deliveries : state[d] \in Claimed /\ d \in lapsed}

RecoverLeases(w) ==
  /\ At(w, "recover")
  /\ \E R \in Limited(Recoverable) :
       /\ state' = [d \in Deliveries |-> IF d \in R THEN Recovered(d) ELSE state[d]]
       /\ holder' = [d \in Deliveries |-> IF d \in R THEN NoWorker ELSE holder[d]]
       /\ due' = due \cup {d \in R : Recovered(d) \in {"RETRY_WAIT", "TICKET_ACCEPTED"}}
       /\ lapsed' = lapsed \ R
  /\ stage' = [stage EXCEPT ![w] = "claim"]
  /\ UNCHANGED <<attempts, snapshot, expired, aged, device, batch, ready, address, late,
                 mishaps, history>>

Unclaimable == {d \in expired : state[d] \in Waiting}
Exhausted == {d \in Deliveries : state[d] \in Waiting /\ attempts[d] >= MaxAttempts}

Claimable ==
  {d \in due \ expired : state[d] \in Waiting /\ attempts[d] < MaxAttempts}

(* Slip: only a first attempt counts. *)
Counted_First(d) == IF state[d] = "PENDING" THEN attempts[d] + 1 ELSE attempts[d]

Counted(d) == attempts[d] + 1

(* claimSend closes what has expired, fails what has no attempts left, and claims what
   is due. *)
ClaimSend(w) ==
  /\ At(w, "claim")
  /\ \E E \in Limited(Unclaimable) :
       \E F \in Limited(Exhausted \ E), S \in Limited(Claimable) :
         /\ state' = [d \in Deliveries |-> IF d \in E THEN "EXPIRED"
                                            ELSE IF d \in F THEN "FAILED"
                                            ELSE IF d \in S THEN "SENDING" ELSE state[d]]
         /\ holder' = [d \in Deliveries |-> IF d \in S THEN w ELSE holder[d]]
         /\ attempts' = [d \in Deliveries |-> IF d \in S THEN Counted(d) ELSE attempts[d]]
         /\ batch' = [batch EXCEPT ![w] = S]
         /\ stage' = [stage EXCEPT ![w] = IF S = {} THEN "receipts" ELSE "prepare"]
  /\ UNCHANGED <<snapshot, due, lapsed, expired, aged, device, ready, address, late,
                 mishaps, history>>

Holds_Unfenced(w, d) == holder[d] # NoWorker  \* slip: the attempt is not compared

(* The row is still this worker's. *)
Holds(w, d) == holder[d] = w

Current_AnyBinding(d) == DeviceOf[d] \in active  \* slip: any registration will do

(* The device still is what the delivery was made for. *)
Current(d) ==
  /\ DeviceOf[d] \in active
  /\ registration[DeviceOf[d]] = snapshot[d]

(* The worker ends a row it holds with state s. *)
Release(d, s) ==
  /\ state' = [state EXCEPT ![d] = s]
  /\ holder' = [holder EXCEPT ![d] = NoWorker]
  /\ lapsed' = lapsed \ {d}

NextStage(w, rest, s) == stage' = [stage EXCEPT ![w] = IF rest = {} THEN s ELSE @]

(* prepareSend locks the row and reads the device beside it: a row lost to another
   attempt or to time is left alone, an expired one and one whose device changed
   end here, any other is ready to be sent. *)
Usable(w, d) == Holds(w, d) /\ d \notin lapsed

Prepare(w, d) ==
  /\ At(w, "prepare")
  /\ d \in batch[w]
  /\ batch' = [batch EXCEPT ![w] = @ \ {d}]
  /\ NextStage(w, batch'[w], "renew")
  /\ \/ /\ ~Usable(w, d)
        /\ UNCHANGED <<state, holder, lapsed, ready, address>>
     \/ /\ Usable(w, d) /\ d \in expired
        /\ Release(d, "EXPIRED")
        /\ UNCHANGED <<ready, address>>
     \/ /\ Usable(w, d) /\ d \notin expired /\ ~Current(d)
        /\ Release(d, "CANCELLED")
        /\ UNCHANGED <<ready, address>>
     \/ /\ Usable(w, d) /\ d \notin expired /\ Current(d)
        /\ ready' = [ready EXCEPT ![w] = @ \cup {d}]
        /\ address' = [address EXCEPT ![w][d] = registration[DeviceOf[d]]]
        /\ UNCHANGED <<state, holder, lapsed>>
  /\ UNCHANGED <<attempts, snapshot, due, expired, aged, device, late, mishaps, history>>

(* renewSendLeases keeps the rows it could still renew; with none the tick moves on. *)
Renew(w) ==
  /\ At(w, "renew")
  /\ ready' = [ready EXCEPT ![w] = {d \in ready[w] : Usable(w, d)}]
  /\ stage' = [stage EXCEPT ![w] = IF ready'[w] = {} THEN "receipts" ELSE "post"]
  /\ UNCHANGED <<row, device, batch, address, late, mishaps, history>>

(* The gateway drops what has expired meanwhile and posts the rest. *)
Post(w) ==
  LET sent == ready[w] \ expired IN
  /\ At(w, "post")
  /\ late' = [late EXCEPT ![w] = ready[w] \cap expired]
  /\ posted' = [d \in Deliveries |-> IF d \in sent THEN posted[d] + 1 ELSE posted[d]]
  /\ postedTo' = [d \in Deliveries |-> IF d \in sent THEN postedTo[d] \cup {address[w][d]}
                                        ELSE postedTo[d]]
  /\ stage' = [stage EXCEPT ![w] = "record"]
  /\ UNCHANGED <<row, device, batch, ready, address, mishaps, refused>>

(* The worker is done with d. *)
Done(w, d, next) ==
  /\ ready' = [ready EXCEPT ![w] = @ \ {d}]
  /\ NextStage(w, ready'[w], next)
  /\ UNCHANGED <<batch, address, late>>

(* A result for a row that is no longer this attempt's changes nothing. *)
RecordStale(w, d) ==
  /\ \/ At(w, "record") /\ Done(w, d, "receipts")
     \/ At(w, "lookup") /\ Done(w, d, "recover")
  /\ d \in ready[w]
  /\ ~Holds(w, d)
  /\ UNCHANGED <<row, device, mishaps, history>>

(* The provider gives a ticket. *)
RecordTicket(w, d) ==
  /\ At(w, "record") /\ d \in ready[w] \ late[w] /\ Holds(w, d)
  /\ Release(d, "TICKET_ACCEPTED")
  /\ due' = due \ {d}
  /\ Done(w, d, "receipts")
  /\ UNCHANGED <<attempts, snapshot, expired, aged, device, mishaps, history>>

(* Throttled, unreachable, no answer, an answer that cannot be read: another try,
   unless this was the last or it would come too late. Whether the provider has
   taken the message is unknown. *)
RecordRetry(w, d) ==
  /\ At(w, "record") /\ d \in ready[w] \ late[w] /\ Holds(w, d)
  /\ \E s \in IF attempts[d] >= MaxAttempts THEN {"FAILED"}
               ELSE IF d \in expired THEN {"EXPIRED"} ELSE {"RETRY_WAIT", "EXPIRED"} :
       Release(d, s)
  /\ due' = due \ {d}
  /\ Done(w, d, "receipts")
  /\ UNCHANGED <<attempts, snapshot, expired, aged, device, mishaps, history>>

(* deactivateMatchingDevice: only while the device is what the delivery was made for. *)
Deactivated(d) == IF Current(d) THEN {DeviceOf[d]} ELSE {}

(* The provider refuses the token, in its ticket or in its receipt. *)
RecordInvalidToken(w, d) ==
  /\ \/ At(w, "record") /\ d \notin late[w] /\ Done(w, d, "receipts")
     \/ At(w, "lookup") /\ Done(w, d, "recover")
  /\ d \in ready[w]
  /\ Holds(w, d)
  /\ Release(d, "FAILED")
  /\ refused' = refused \cup {<<DeviceOf[d], snapshot[d]>>}
  /\ active' = active \ Deactivated(d)
  /\ UNCHANGED <<attempts, snapshot, due, expired, aged, registration, deleted, mishaps,
                 posted, postedTo>>

(* Any other refusal, in the ticket or in the receipt. *)
RecordFailure(w, d) ==
  /\ \/ At(w, "record") /\ Done(w, d, "receipts")
     \/ At(w, "lookup") /\ Done(w, d, "recover")
  /\ d \in ready[w]
  /\ Holds(w, d)
  /\ Release(d, IF At(w, "record") /\ d \in late[w] THEN "EXPIRED" ELSE "FAILED")
  /\ UNCHANGED <<attempts, snapshot, due, expired, aged, device, mishaps, history>>

Checkable == {d \in due \ aged : state[d] = "TICKET_ACCEPTED"}
Unanswered == {d \in aged : state[d] = "TICKET_ACCEPTED"}

(* claimReceipts closes tickets past their life and claims those due for a check. *)
ClaimReceipts(w) ==
  /\ At(w, "receipts")
  /\ \E E \in Limited(Unanswered), S \in Limited(Checkable) :
       /\ state' = [d \in Deliveries |-> IF d \in E THEN "UNKNOWN"
                                          ELSE IF d \in S THEN "RECEIPT_CHECKING"
                                          ELSE state[d]]
       /\ holder' = [d \in Deliveries |-> IF d \in S THEN w ELSE holder[d]]
       /\ ready' = [ready EXCEPT ![w] = S]
       /\ stage' = [stage EXCEPT ![w] = IF S = {} THEN "recover" ELSE "lookup"]
  /\ UNCHANGED <<attempts, snapshot, due, lapsed, expired, aged, device, batch, address,
                 late, mishaps, history>>

RecordReceipt(w, d) ==
  /\ At(w, "lookup") /\ d \in ready[w] /\ Holds(w, d)
  /\ Release(d, "PROVIDER_ACCEPTED")
  /\ Done(w, d, "recover")
  /\ UNCHANGED <<attempts, snapshot, due, expired, aged, device, mishaps, history>>

(* No receipt yet, or none that could be read: asked again until the ticket is too
   old. *)
RecordNoReceipt(w, d) ==
  /\ At(w, "lookup") /\ d \in ready[w] /\ Holds(w, d)
  /\ Release(d, IF d \in aged THEN "UNKNOWN" ELSE "TICKET_ACCEPTED")
  /\ due' = due \ {d}
  /\ Done(w, d, "recover")
  /\ UNCHANGED <<attempts, snapshot, expired, aged, device, mishaps, history>>

(* The worker forgets what it was doing and goes on at next. *)
Forget(w, next) ==
  /\ stage' = [stage EXCEPT ![w] = next]
  /\ batch' = [batch EXCEPT ![w] = {}]
  /\ ready' = [ready EXCEPT ![w] = {}]
  /\ late' = [late EXCEPT ![w] = {}]
  /\ mishaps' = mishaps + 1
  /\ UNCHANGED <<row, device, address, history>>

(* A transaction of the worker fails; "safely" ends this part of the tick. *)
Abort(w) ==
  /\ mishaps < MaxMishaps
  /\ Forget(w, IF At(w, "recover") THEN "claim"
               ELSE IF stage[w] \in {"receipts", "lookup"} THEN "recover" ELSE "receipts")

(* The process dies and starts again. *)
Crash(w) ==
  /\ mishaps < MaxMishaps
  /\ Forget(w, "recover")

-------------------------------------------------------------------------------
Time(d) == ComesDue(d) \/ Lapses(d) \/ Expires(d) \/ Ages(d)

Record(w, d) ==
  \/ RecordStale(w, d) \/ RecordTicket(w, d) \/ RecordRetry(w, d)
  \/ RecordInvalidToken(w, d) \/ RecordFailure(w, d)
  \/ RecordReceipt(w, d) \/ RecordNoReceipt(w, d)

Step(w) ==
  \/ RecoverLeases(w) \/ ClaimSend(w) \/ Renew(w) \/ Post(w) \/ ClaimReceipts(w)
  \/ \E d \in Deliveries : Prepare(w, d) \/ Record(w, d)

Next ==
  \/ \E d \in Deliveries : Enqueue(d) \/ Retain(d) \/ Time(d)
  \/ \E v \in Devices : Register(v) \/ Revoke(v) \/ DeleteDevice(v)
  \/ \E w \in Workers : Step(w) \/ Abort(w) \/ Crash(w)

Spec == Init /\ [][Next]_vars

(* The scheduler runs tick after tick, and time passes. A ticket alternates between
   waiting and being checked, and grows old in either: strong fairness for its age. *)
Fairness ==
  /\ \A w \in Workers : WF_vars(Step(w))
  /\ \A d \in Deliveries :
       /\ WF_vars(ComesDue(d)) /\ WF_vars(Lapses(d)) /\ WF_vars(Expires(d))
       /\ SF_vars(Ages(d))

FairSpec == Spec /\ Fairness

-------------------------------------------------------------------------------
(* Properties                                                                *)

Stages == {"recover", "claim", "prepare", "renew", "post", "record", "receipts", "lookup"}

(* Rows, devices and workers hold values of their columns and fields. *)
TypeOK ==
  /\ state \in [Deliveries -> States]
  /\ attempts \in [Deliveries -> 0..MaxAttempts]
  /\ holder \in [Deliveries -> Workers \cup {NoWorker}]
  /\ snapshot \in [Deliveries -> Nat]
  /\ due \subseteq Deliveries /\ lapsed \subseteq Deliveries
  /\ expired \subseteq Deliveries /\ aged \subseteq Deliveries
  /\ registration \in [Devices -> Nat]
  /\ active \subseteq Devices /\ deleted \subseteq Devices
  /\ stage \in [Workers -> Stages]
  /\ batch \in [Workers -> SUBSET Deliveries]
  /\ ready \in [Workers -> SUBSET Deliveries]
  /\ address \in [Workers -> [Deliveries -> Nat]]
  /\ late \in [Workers -> SUBSET Deliveries]
  /\ mishaps \in 0..MaxMishaps
  /\ posted \in [Deliveries -> Nat]
  /\ postedTo \in [Deliveries -> SUBSET Nat]
  /\ refused \in SUBSET (Devices \X Nat)

(* Workers that may still post d. *)
MayPost(d) ==
  {w \in Workers : stage[w] \in {"prepare", "renew", "post"} /\ d \in batch[w] \cup ready[w]}

(* Every message to the provider is paid for by an attempt of its row, so the
   provider sees a delivery at most MaxAttempts times, whatever workers lose. *)
PostsArePaid == \A d \in Deliveries : posted[d] + Cardinality(MayPost(d)) <= attempts[d]

(* No row waits with its attempts used up: it would neither be sent nor failed by
   the worker that used the last. *)
NoneExhausted == \A d \in Deliveries : state[d] \in Waiting => attempts[d] < MaxAttempts

(* A message only carries the token of the registration the delivery was made for,
   never that of the device's next account. *)
WellAddressed == \A d \in Deliveries : postedTo[d] \subseteq {snapshot[d]}

(* A row is claimed exactly while it names the attempt that claimed it. *)
ClaimsHaveHolders == \A d \in Deliveries : state[d] \in Claimed <=> holder[d] # NoWorker

(* While a lease lives only the worker that holds it moves the row (a late result
   of an earlier attempt and the recovery of leases do not), unless the row goes
   with its device. *)
MovesUnderLease(d) ==
  \/ state'[d] = "DELETED"
  \/ \E w \in Workers : /\ w = holder[d]
                        /\ d \in batch[w] \cup ready[w]
                        /\ d \notin batch'[w] \cup ready'[w]

LeaseRespected ==
  [][\A d \in Deliveries :
       (holder[d] # NoWorker /\ d \notin lapsed /\ state'[d] # state[d]) =>
         MovesUnderLease(d)]_vars

(* Delivery takes a device out of service only for a token the provider refused: a
   device that registered anew while the answer was under way stays ACTIVE. *)
OnlyRefusedDropped ==
  [][\A v \in active \ active' :
       Revoke(v) \/ DeleteDevice(v) \/ <<v, registration[v]>> \in refused']_vars

(* Every delivery ends, even if the workers that claim it die. *)
EveryDeliveryEnds ==
  \A d \in Deliveries : (state[d] = "PENDING") ~> (state[d] \in Ended \cup {"DELETED"})

(* A row does not stay claimed by a worker that forgot it. *)
ClaimsAreFreed ==
  \A d \in Deliveries : (state[d] \in Claimed) ~> (holder[d] = NoWorker)

Phase(s) ==
  CASE s = "ABSENT" -> "absent"
    [] s \in Waiting -> "waiting"
    [] s = "SENDING" -> "trying"
    [] s \in {"TICKET_ACCEPTED", "RECEIPT_CHECKING"} -> "ticketed"
    [] s \in Ended -> "ended"
    [] s = "DELETED" -> "deleted"

(* Deliveries keep the promise of PushLifecycle. *)
Lifecycle == INSTANCE PushLifecycle WITH
  phase <- [d \in Deliveries |-> Phase(state[d])],
  tries <- attempts
ImplementsLifecycle == Lifecycle!Spec

-------------------------------------------------------------------------------
(* What the runs check, a name for each question                             *)

(* Claims and attempts agree: every message is paid for, every claim names its attempt,
   and no row waits that nobody may try. *)
ClaimsAreSound == TypeOK /\ PostsArePaid /\ ClaimsHaveHolders /\ NoneExhausted

(* A late result moves neither a row that is not its own nor a device that has
   registered anew. *)
LateIsIdle == LeaseRespected /\ OnlyRefusedDropped

(* Deliveries end and their claims with them. *)
DeliveriesEnd == EveryDeliveryEnds /\ ClaimsAreFreed
=============================================================================
