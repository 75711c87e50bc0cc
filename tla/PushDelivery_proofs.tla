------------------------- MODULE PushDelivery_proofs -------------------------
(***************************************************************************)
(* Proofs that every behaviour of PushDelivery keeps its invariants and    *)
(* the promise of PushLifecycle, for any number of deliveries, devices,    *)
(* workers, attempts, crashes and registrations.                           *)
(***************************************************************************)
EXTENDS PushDelivery, FiniteSetTheorems, TLAPS

USE DeviceAssumption, FiniteAssumption, NoWorkerAssumption, MaxAssumption,
    BoundAssumption

(* Nothing has happened yet to a row that does not exist. *)
Fresh ==
  \A d \in Deliveries : state[d] = "ABSENT" =>
    /\ attempts[d] = 0
    /\ postedTo[d] = {}
    /\ \A w \in Workers : d \notin batch[w] \cup ready[w]

(* Rows a worker has in hand, by what it does next. *)
Shape ==
  \A w \in Workers :
    /\ stage[w] \in {"recover", "claim"} => ready[w] = {}
    /\ stage[w] # "prepare" => batch[w] = {}
    /\ batch[w] \cap ready[w] = {}

(* A row in hand that is still the worker's is in the state it was claimed for. *)
Held ==
  \A w \in Workers, d \in Deliveries :
    (d \in batch[w] \cup ready[w] /\ holder[d] = w) =>
      state[d] = IF stage[w] = "lookup" THEN "RECEIPT_CHECKING" ELSE "SENDING"

Posting == {"prepare", "renew", "post"}

(* A message not yet posted carries the token the delivery was made for. *)
Addressed ==
  \A w \in Workers, d \in Deliveries :
    (stage[w] \in Posting /\ d \in ready[w]) => address[w][d] = snapshot[d]

(* The inductive invariant, in the parts that steps disturb separately. *)
RowsInv == ClaimsHaveHolders /\ NoneExhausted /\ Fresh
WorkInv == Shape /\ Held
AddressInv == Addressed /\ WellAddressed
IInv == TypeOK /\ RowsInv /\ WorkInv /\ AddressInv /\ PostsArePaid

-------------------------------------------------------------------------------
(* What steps do, whichever action takes them.                               *)

(* Time passes, or devices change. *)
Elsewhere ==
  /\ UNCHANGED <<state, attempts, holder, snapshot, deleted, worker, mishaps, history>>
  /\ due' \subseteq Deliveries /\ lapsed \subseteq lapsed' /\ lapsed' \subseteq Deliveries
  /\ expired' \subseteq Deliveries /\ aged' \subseteq Deliveries
  /\ registration' \in [Devices -> Nat]
  /\ active' \subseteq Devices

(* Rows are deleted. *)
Deletes(gone) ==
  /\ Remove(gone)
  /\ \A d \in gone : state[d] # "ABSENT"
  /\ active' \subseteq Devices /\ deleted' \subseteq Devices
  /\ UNCHANGED <<attempts, snapshot, due, expired, aged, registration, worker, mishaps,
                 history>>

(* A worker closes the rows E and F and claims the rows S. *)
Claims(w, E, F, S) ==
  /\ E \subseteq Unclaimable /\ F \subseteq Exhausted \ E /\ S \subseteq Claimable
  /\ state' = [d \in Deliveries |-> IF d \in E THEN "EXPIRED"
                                     ELSE IF d \in F THEN "FAILED"
                                     ELSE IF d \in S THEN "SENDING" ELSE state[d]]
  /\ holder' = [d \in Deliveries |-> IF d \in S THEN w ELSE holder[d]]
  /\ attempts' = [d \in Deliveries |-> IF d \in S THEN Counted(d) ELSE attempts[d]]
  /\ batch' = [batch EXCEPT ![w] = S]
  /\ stage[w] = "claim"
  /\ stage' = [stage EXCEPT ![w] = IF S = {} THEN "receipts" ELSE "prepare"]
  /\ UNCHANGED <<snapshot, due, lapsed, expired, aged, device, ready, address, late,
                 mishaps, history>>

(* A worker is done with preparing a row: it has lost the row, closes it with s, or
   has it ready. *)
Prepares(w, d) ==
  /\ stage[w] = "prepare"
  /\ d \in batch[w]
  /\ batch' = [batch EXCEPT ![w] = @ \ {d}]
  /\ NextStage(w, batch'[w], "renew")
  /\ UNCHANGED <<attempts, snapshot, due, expired, aged, device, late, mishaps, history>>
Skips(w, d) == Prepares(w, d) /\ UNCHANGED <<state, holder, lapsed, ready, address>>
Closes(w, d, s) ==
  /\ Prepares(w, d)
  /\ Usable(w, d)
  /\ Release(d, s)
  /\ UNCHANGED <<ready, address>>
Readies(w, d) ==
  /\ Prepares(w, d)
  /\ Usable(w, d)
  /\ Current(d)
  /\ ready' = [ready EXCEPT ![w] = @ \cup {d}]
  /\ address' = [address EXCEPT ![w][d] = registration[DeviceOf[d]]]
  /\ UNCHANGED <<state, holder, lapsed>>

(* A worker is done with a row it has lost. *)
Drops(w, d) ==
  /\ stage[w] \in {"record", "lookup"}
  /\ d \in ready[w]
  /\ Done(w, d, IF stage[w] = "record" THEN "receipts" ELSE "recover")
  /\ UNCHANGED <<row, device, mishaps, history>>

(* A worker settles a row it holds with state s. *)
Settles(w, d, s) ==
  /\ stage[w] \in {"record", "lookup"}
  /\ d \in ready[w]
  /\ Holds(w, d)
  /\ s \in Ended \cup {"RETRY_WAIT", "TICKET_ACCEPTED"}
  /\ s = "RETRY_WAIT" => stage[w] = "record" /\ attempts[d] < MaxAttempts
  /\ Release(d, s)
  /\ due' \subseteq Deliveries
  /\ Done(w, d, IF stage[w] = "record" THEN "receipts" ELSE "recover")
  /\ refused' \in SUBSET (Devices \X Nat)
  /\ active' \subseteq Devices
  /\ UNCHANGED <<attempts, snapshot, expired, aged, registration, deleted, mishaps,
                 posted, postedTo>>

(* A worker forgets what it had in hand. *)
Forgets(w) ==
  /\ mishaps < MaxMishaps
  /\ \E next \in {"recover", "claim", "receipts"} : Forget(w, next)

Effect ==
  \/ UNCHANGED vars
  \/ Elsewhere
  \/ \E gone \in SUBSET Deliveries : Deletes(gone)
  \/ \E d \in Deliveries : Enqueue(d)
  \/ \E w \in Workers :
       \/ RecoverLeases(w) \/ Renew(w) \/ Post(w) \/ ClaimReceipts(w) \/ Forgets(w)
       \/ \E E, F, S \in SUBSET Deliveries : Claims(w, E, F, S)
       \/ \E d \in Deliveries :
            \/ Skips(w, d) \/ Readies(w, d) \/ Drops(w, d)
            \/ \E s \in {"EXPIRED", "CANCELLED"} : Closes(w, d, s)
            \/ \E s \in States : Settles(w, d, s)

LEMMA StepEffect ==
  ASSUME TypeOK, [Next]_vars
  PROVE  Effect
  <1>1. ASSUME NEW d \in Deliveries, Enqueue(d)
        PROVE  Effect
    BY <1>1 DEF Effect
  <1>2. ASSUME NEW d \in Deliveries, Retain(d)
        PROVE  Effect
    <2>1. Deletes({d})
      BY <1>2
         DEF Retain, Deletes, Remove, device, worker, history, TypeOK, Ended, Waiting
    <2>. QED
      BY <2>1 DEF Effect
  <1>3. ASSUME NEW d \in Deliveries, Time(d)
        PROVE  Effect
    <2>1. Elsewhere
      BY <1>3
         DEF Time, ComesDue, Lapses, Expires, Ages, Elsewhere, TypeOK, device, worker,
             history
    <2>. QED
      BY <2>1 DEF Effect
  <1>4. ASSUME NEW v \in Devices, Register(v) \/ Revoke(v)
        PROVE  Effect
    <2>1. CASE Register(v)
      <3>1. registration[v] \in Nat
        BY DEF TypeOK
      <3>2. registration' \in [Devices -> Nat] /\ active' \subseteq Devices
        BY <2>1, <3>1 DEF Register, TypeOK
      <3>3. /\ UNCHANGED <<state, attempts, holder, snapshot, due, lapsed, expired, aged>>
            /\ UNCHANGED <<deleted, worker, mishaps, history>>
        BY <2>1 DEF Register, row
      <3>4. Elsewhere
        BY <3>2, <3>3 DEF Elsewhere, TypeOK, worker, history
      <3>. QED
        BY <3>4 DEF Effect
    <2>2. CASE Revoke(v)
      <3>1. /\ UNCHANGED <<state, attempts, holder, snapshot, due, lapsed, expired, aged>>
            /\ UNCHANGED <<registration, deleted, worker, mishaps, history>>
        BY <2>2 DEF Revoke, row
      <3>2. active' \subseteq Devices
        BY <2>2 DEF Revoke, TypeOK
      <3>3. Elsewhere
        BY <3>1, <3>2 DEF Elsewhere, TypeOK, worker, history
      <3>. QED
        BY <3>3 DEF Effect
    <2>. QED
      BY <1>4, <2>1, <2>2
  <1>5. ASSUME NEW v \in Devices, DeleteDevice(v)
        PROVE  Effect
    <2>. DEFINE gone == {d \in Deliveries : DeviceOf[d] = v /\ state[d] # "ABSENT"}
    <2>1. Deletes(gone)
      BY <1>5 DEF DeleteDevice, Deletes, Remove, worker, history, TypeOK
    <2>. QED
      BY <2>1 DEF Effect
  <1>6. ASSUME NEW w \in Workers, Abort(w) \/ Crash(w)
        PROVE  Effect
    <2>1. Forgets(w)
      BY <1>6 DEF Abort, Crash, Forgets
    <2>. QED
      BY <2>1 DEF Effect
  <1>7. ASSUME NEW w \in Workers,
               RecoverLeases(w) \/ ClaimSend(w) \/ Renew(w) \/ Post(w) \/ ClaimReceipts(w)
        PROVE  Effect
    <2>1. CASE ClaimSend(w)
      <3>1. PICK E \in Limited(Unclaimable) :
              \E F \in Limited(Exhausted \ E), S \in Limited(Claimable) : Claims(w, E, F, S)
        BY <2>1 DEF ClaimSend, Claims, At, Limited
      <3>2. PICK F \in Limited(Exhausted \ E), S \in Limited(Claimable) : Claims(w, E, F, S)
        BY <3>1
      <3>3. /\ E \in SUBSET Deliveries /\ F \in SUBSET Deliveries
            /\ S \in SUBSET Deliveries
        BY DEF Limited, Unclaimable, Exhausted, Claimable, TypeOK
      <3>. QED
        BY <3>2, <3>3 DEF Effect
    <2>. QED
      BY <1>7, <2>1 DEF Effect
  <1>8. ASSUME NEW w \in Workers, NEW d \in Deliveries, Prepare(w, d) \/ RecordStale(w, d)
        PROVE  Effect
    <2>1. CASE Prepare(w, d)
      <3>1. Prepares(w, d)
        BY <2>1 DEF Prepare, Prepares, At
      <3>2. Skips(w, d) \/ Closes(w, d, "EXPIRED") \/ Closes(w, d, "CANCELLED")
              \/ Readies(w, d)
        BY <2>1, <3>1 DEF Prepare, Skips, Closes, Readies
      <3>. QED
        BY <3>2 DEF Effect
    <2>2. CASE RecordStale(w, d)
      <3>1. Drops(w, d)
        BY <2>2 DEF RecordStale, Drops, At
      <3>. QED
        BY <3>1 DEF Effect
    <2>. QED
      BY <1>8, <2>1, <2>2
  <1>9. ASSUME NEW w \in Workers, NEW d \in Deliveries,
               RecordTicket(w, d) \/ RecordReceipt(w, d) \/ RecordNoReceipt(w, d)
        PROVE  Effect
    <2>1. \E s \in States : Settles(w, d, s)
      BY <1>9
         DEF RecordTicket, RecordReceipt, RecordNoReceipt, Settles, At, device, history,
             TypeOK, Ended, States
    <2>. QED
      BY <2>1 DEF Effect
  <1>10. ASSUME NEW w \in Workers, NEW d \in Deliveries, RecordRetry(w, d)
         PROVE  Effect
    <2>1. attempts[d] \in 0..MaxAttempts
      BY DEF TypeOK
    <2>2. PICK s \in {"FAILED", "EXPIRED", "RETRY_WAIT"} :
            /\ Release(d, s)
            /\ s = "RETRY_WAIT" => attempts[d] < MaxAttempts
      BY <1>10, <2>1 DEF RecordRetry
    <2>3. Settles(w, d, s)
      BY <1>10, <2>2 DEF RecordRetry, Settles, At, device, history, TypeOK, Ended
    <2>4. s \in States
      BY DEF States, Ended, Waiting
    <2>. QED
      BY <2>3, <2>4 DEF Effect
  <1>11. ASSUME NEW w \in Workers, NEW d \in Deliveries, RecordFailure(w, d)
         PROVE  Effect
    <2>1. \E s \in States : Settles(w, d, s)
      BY <1>11
         DEF RecordFailure, Settles, At, device, history, TypeOK, Ended, States
    <2>. QED
      BY <2>1 DEF Effect
  <1>12. ASSUME NEW w \in Workers, NEW d \in Deliveries, RecordInvalidToken(w, d)
         PROVE  Effect
    <2>1. <<DeviceOf[d], snapshot[d]>> \in Devices \X Nat
      BY DEF TypeOK
    <2>2. Settles(w, d, "FAILED")
      BY <1>12, <2>1 DEF RecordInvalidToken, Settles, At, TypeOK, Ended
    <2>3. "FAILED" \in States
      BY DEF States, Ended
    <2>. QED
      BY <2>2, <2>3 DEF Effect
  <1>13. CASE UNCHANGED vars
    BY <1>13 DEF Effect
  <1>. QED
    BY <1>1, <1>2, <1>3, <1>4, <1>5, <1>6, <1>7, <1>8, <1>9, <1>10, <1>11, <1>12, <1>13
       DEF Next, Step, Record

-------------------------------------------------------------------------------
(* Type correctness.                                                         *)

LEMMA TypeStep ==
  ASSUME TypeOK, Effect
  PROVE  TypeOK'
  <1>1. CASE UNCHANGED vars
    BY <1>1 DEF TypeOK, vars
  <1>2. CASE Elsewhere
    BY <1>2 DEF Elsewhere, TypeOK, worker, history
  <1>3. ASSUME NEW gone \in SUBSET Deliveries, Deletes(gone)
        PROVE  TypeOK'
    BY <1>3 DEF Deletes, Remove, TypeOK, worker, history, States
  <1>4. ASSUME NEW d \in Deliveries, Enqueue(d)
        PROVE  TypeOK'
    BY <1>4 DEF Enqueue, TypeOK, device, worker, history, States, Waiting
  <1>5. ASSUME NEW w \in Workers, RecoverLeases(w)
        PROVE  TypeOK'
    <2>1. \A d \in Deliveries : Recovered(d) \in States
      BY DEF Recovered, States, Waiting, Ended
    <2>2. \A R \in Limited(Recoverable) : R \subseteq Deliveries
      BY DEF Limited, Recoverable
    <2>. QED
      BY <1>5, <2>1, <2>2 DEF RecoverLeases, TypeOK, device, history, Stages
  <1>6. ASSUME NEW w \in Workers, NEW E \in SUBSET Deliveries, NEW F \in SUBSET Deliveries,
               NEW S \in SUBSET Deliveries, Claims(w, E, F, S)
        PROVE  TypeOK'
    <2>1. \A d \in S : Counted(d) \in 0..MaxAttempts
      BY <1>6 DEF Claims, Claimable, Counted, TypeOK
    <2>2. state' \in [Deliveries -> States]
      BY <1>6 DEF Claims, TypeOK, States, Ended, Claimed
    <2>3. /\ attempts' \in [Deliveries -> 0..MaxAttempts]
          /\ holder' \in [Deliveries -> Workers \cup {NoWorker}]
      BY <1>6, <2>1 DEF Claims, TypeOK
    <2>4. stage' \in [Workers -> Stages] /\ batch' \in [Workers -> SUBSET Deliveries]
      BY <1>6 DEF Claims, TypeOK, Stages
    <2>. QED
      BY <1>6, <2>2, <2>3, <2>4 DEF Claims, TypeOK, device, history
  <1>7. ASSUME NEW w \in Workers, Renew(w)
        PROVE  TypeOK'
    BY <1>7 DEF Renew, TypeOK, row, device, history, Stages
  <1>8. ASSUME NEW w \in Workers, Post(w)
        PROVE  TypeOK'
    BY <1>8 DEF Post, TypeOK, row, device, Stages
  <1>9. ASSUME NEW w \in Workers, ClaimReceipts(w)
        PROVE  TypeOK'
    <2>1. \A S \in Limited(Checkable) : S \subseteq Deliveries
      BY DEF Limited, Checkable, TypeOK
    <2>2. {"UNKNOWN", "RECEIPT_CHECKING"} \subseteq States
      BY DEF States, Ended, Claimed
    <2>. QED
      BY <1>9, <2>1, <2>2 DEF ClaimReceipts, TypeOK, device, history, Stages
  <1>10. ASSUME NEW w \in Workers, Forgets(w)
         PROVE  TypeOK'
    BY <1>10 DEF Forgets, Forget, TypeOK, row, device, history, Stages
  <1>11. ASSUME NEW w \in Workers, NEW d \in Deliveries, Skips(w, d)
         PROVE  TypeOK'
    BY <1>11 DEF Skips, Prepares, NextStage, TypeOK, device, history, Stages
  <1>14. ASSUME NEW w \in Workers, NEW d \in Deliveries, NEW s \in {"EXPIRED", "CANCELLED"},
                Closes(w, d, s)
         PROVE  TypeOK'
    BY <1>14
       DEF Closes, Prepares, Release, NextStage, TypeOK, device, history, Stages, States,
           Ended
  <1>15. ASSUME NEW w \in Workers, NEW d \in Deliveries, Readies(w, d)
         PROVE  TypeOK'
    <2>1. registration[DeviceOf[d]] \in Nat
      BY DEF TypeOK
    <2>2. address' \in [Workers -> [Deliveries -> Nat]]
      BY <1>15, <2>1 DEF Readies, TypeOK
    <2>3. ready' \in [Workers -> SUBSET Deliveries]
      BY <1>15 DEF Readies, TypeOK
    <2>4. batch' \in [Workers -> SUBSET Deliveries] /\ stage' \in [Workers -> Stages]
      BY <1>15 DEF Readies, Prepares, NextStage, TypeOK, Stages
    <2>. QED
      BY <1>15, <2>2, <2>3, <2>4 DEF Readies, Prepares, TypeOK, device, history
  <1>12. ASSUME NEW w \in Workers, NEW d \in Deliveries, Drops(w, d)
         PROVE  TypeOK'
    BY <1>12 DEF Drops, Done, NextStage, TypeOK, row, device, history, Stages
  <1>13. ASSUME NEW w \in Workers, NEW d \in Deliveries, NEW s \in States,
                Settles(w, d, s)
         PROVE  TypeOK'
    BY <1>13 DEF Settles, Release, Done, NextStage, TypeOK, Stages
  <1>. QED
    BY <1>1, <1>2, <1>3, <1>4, <1>5, <1>6, <1>7, <1>8, <1>9, <1>10, <1>11, <1>12, <1>13,
       <1>14, <1>15
       DEF Effect

-------------------------------------------------------------------------------
(* Claims, attempts and rows that do not exist yet.                          *)

LEMMA RowsStep ==
  ASSUME TypeOK, RowsInv, Effect
  PROVE  RowsInv'
  <1>1. CASE UNCHANGED vars
    BY <1>1 DEF RowsInv, ClaimsHaveHolders, NoneExhausted, Fresh, vars
  <1>2. CASE Elsewhere
    BY <1>2 DEF Elsewhere, RowsInv, ClaimsHaveHolders, NoneExhausted, Fresh, worker, history
  <1>3. ASSUME NEW gone \in SUBSET Deliveries, Deletes(gone)
        PROVE  RowsInv'
    BY <1>3
       DEF Deletes, Remove, RowsInv, ClaimsHaveHolders, NoneExhausted, Fresh, worker,
           history, Claimed, Waiting
  <1>4. ASSUME NEW d \in Deliveries, Enqueue(d)
        PROVE  RowsInv'
    BY <1>4
       DEF Enqueue, TypeOK, RowsInv, ClaimsHaveHolders, NoneExhausted, Fresh, worker,
           history, Claimed, Waiting
  <1>5. ASSUME NEW w \in Workers, RecoverLeases(w)
        PROVE  RowsInv'
    <2>1. PICK R \in Limited(Recoverable) :
            /\ state' = [d \in Deliveries |-> IF d \in R THEN Recovered(d) ELSE state[d]]
            /\ holder' = [d \in Deliveries |-> IF d \in R THEN NoWorker ELSE holder[d]]
      BY <1>5 DEF RecoverLeases
    <2>2. ASSUME NEW d \in Deliveries
          PROVE  /\ Recovered(d) \notin Claimed \cup {"ABSENT"}
                 /\ Recovered(d) \in Waiting => attempts[d] < MaxAttempts
      BY DEF Recovered, Claimed, Waiting, TypeOK
    <2>3. ClaimsHaveHolders'
      BY <2>1, <2>2 DEF RowsInv, ClaimsHaveHolders
    <2>4. NoneExhausted'
      BY <1>5, <2>1, <2>2 DEF RecoverLeases, RowsInv, NoneExhausted
    <2>5. Fresh'
      BY <1>5, <2>1, <2>2 DEF RecoverLeases, RowsInv, Fresh, history
    <2>. QED
      BY <2>3, <2>4, <2>5 DEF RowsInv
  <1>6. ASSUME NEW w \in Workers, NEW E \in SUBSET Deliveries, NEW F \in SUBSET Deliveries,
               NEW S \in SUBSET Deliveries, Claims(w, E, F, S)
        PROVE  RowsInv'
    <2>1. \A d \in S : state[d] \in Waiting /\ d \notin E /\ d \notin F
      BY <1>6 DEF Claims, Claimable, Exhausted, Unclaimable, TypeOK
    <2>2. \A d \in E \cup F : state[d] \in Waiting
      BY <1>6 DEF Claims, Exhausted, Unclaimable
    <2>3. ClaimsHaveHolders'
      BY <1>6, <2>1, <2>2 DEF Claims, RowsInv, ClaimsHaveHolders, Claimed, Waiting
    <2>4. NoneExhausted'
      BY <1>6, <2>1 DEF Claims, RowsInv, NoneExhausted, Waiting
    <2>5. Fresh'
      BY <1>6, <2>1, <2>2 DEF Claims, TypeOK, RowsInv, Fresh, history, Waiting
    <2>. QED
      BY <2>3, <2>4, <2>5 DEF RowsInv
  <1>7. ASSUME NEW w \in Workers, Renew(w)
        PROVE  RowsInv'
    BY <1>7
       DEF Renew, TypeOK, RowsInv, ClaimsHaveHolders, NoneExhausted, Fresh, row, history
  <1>8. ASSUME NEW w \in Workers, Post(w)
        PROVE  RowsInv'
    BY <1>8 DEF Post, TypeOK, RowsInv, ClaimsHaveHolders, NoneExhausted, Fresh, row
  <1>9. ASSUME NEW w \in Workers, ClaimReceipts(w)
        PROVE  RowsInv'
    <2>1. PICK E \in Limited(Unanswered), S \in Limited(Checkable) :
            /\ state' = [d \in Deliveries |-> IF d \in E THEN "UNKNOWN"
                                               ELSE IF d \in S THEN "RECEIPT_CHECKING"
                                               ELSE state[d]]
            /\ holder' = [d \in Deliveries |-> IF d \in S THEN w ELSE holder[d]]
            /\ ready' = [ready EXCEPT ![w] = S]
      BY <1>9 DEF ClaimReceipts
    <2>2. /\ \A d \in E : state[d] = "TICKET_ACCEPTED" /\ d \notin S
          /\ \A d \in S : state[d] = "TICKET_ACCEPTED"
      BY DEF Limited, Unanswered, Checkable
    <2>3. ClaimsHaveHolders'
      BY <2>1, <2>2 DEF RowsInv, ClaimsHaveHolders, Claimed
    <2>4. NoneExhausted'
      BY <1>9, <2>1 DEF ClaimReceipts, RowsInv, NoneExhausted, Waiting
    <2>5. Fresh'
      BY <1>9, <2>1, <2>2 DEF ClaimReceipts, TypeOK, RowsInv, Fresh, history
    <2>. QED
      BY <2>3, <2>4, <2>5 DEF RowsInv
  <1>10. ASSUME NEW w \in Workers, Forgets(w)
         PROVE  RowsInv'
    BY <1>10
       DEF Forgets, Forget, TypeOK, RowsInv, ClaimsHaveHolders, NoneExhausted, Fresh, row,
           history
  <1>11. ASSUME NEW w \in Workers, NEW d \in Deliveries, Skips(w, d)
         PROVE  RowsInv'
    BY <1>11
       DEF Skips, Prepares, TypeOK, RowsInv, ClaimsHaveHolders, NoneExhausted, Fresh,
           history
  <1>12. ASSUME NEW w \in Workers, NEW d \in Deliveries, NEW s \in {"EXPIRED", "CANCELLED"},
                Closes(w, d, s)
         PROVE  RowsInv'
    BY <1>12
       DEF Closes, Prepares, Release, TypeOK, RowsInv, ClaimsHaveHolders, NoneExhausted,
           Fresh, history, Claimed, Waiting
  <1>13. ASSUME NEW w \in Workers, NEW d \in Deliveries, Readies(w, d)
         PROVE  RowsInv'
    BY <1>13
       DEF Readies, Prepares, TypeOK, RowsInv, ClaimsHaveHolders, NoneExhausted, Fresh,
           history
  <1>14. ASSUME NEW w \in Workers, NEW d \in Deliveries, Drops(w, d)
         PROVE  RowsInv'
    BY <1>14
       DEF Drops, Done, TypeOK, RowsInv, ClaimsHaveHolders, NoneExhausted, Fresh, row,
           history
  <1>15. ASSUME NEW w \in Workers, NEW d \in Deliveries, NEW s \in States,
                Settles(w, d, s)
         PROVE  RowsInv'
    BY <1>15
       DEF Settles, Release, Done, TypeOK, RowsInv, ClaimsHaveHolders, NoneExhausted, Fresh,
           Claimed, Waiting, Ended
  <1>. QED
    BY <1>1, <1>2, <1>3, <1>4, <1>5, <1>6, <1>7, <1>8, <1>9, <1>10, <1>11, <1>12, <1>13,
       <1>14, <1>15
       DEF Effect

-------------------------------------------------------------------------------
(* What workers have in hand.                                                *)

LEMMA WorkStep ==
  ASSUME TypeOK, RowsInv, WorkInv, Effect
  PROVE  WorkInv'
  <1>1. CASE UNCHANGED vars
    BY <1>1 DEF WorkInv, Shape, Held, vars
  <1>2. CASE Elsewhere
    BY <1>2 DEF Elsewhere, WorkInv, Shape, Held, worker, history
  <1>3. ASSUME NEW gone \in SUBSET Deliveries, Deletes(gone)
        PROVE  WorkInv'
    BY <1>3 DEF Deletes, Remove, TypeOK, WorkInv, Shape, Held, worker, history
  <1>4. ASSUME NEW d \in Deliveries, Enqueue(d)
        PROVE  WorkInv'
    BY <1>4 DEF Enqueue, TypeOK, RowsInv, Fresh, WorkInv, Shape, Held, worker
  <1>5. ASSUME NEW w \in Workers, RecoverLeases(w)
        PROVE  WorkInv'
    <2>1. PICK R \in Limited(Recoverable) :
            /\ state' = [d \in Deliveries |-> IF d \in R THEN Recovered(d) ELSE state[d]]
            /\ holder' = [d \in Deliveries |-> IF d \in R THEN NoWorker ELSE holder[d]]
      BY <1>5 DEF RecoverLeases
    <2>2. Shape'
      BY <1>5 DEF RecoverLeases, At, TypeOK, WorkInv, Shape
    <2>3. Held'
      BY <1>5, <2>1 DEF RecoverLeases, At, TypeOK, WorkInv, Held
    <2>. QED
      BY <2>2, <2>3 DEF WorkInv
  <1>6. ASSUME NEW w \in Workers, NEW E \in SUBSET Deliveries, NEW F \in SUBSET Deliveries,
               NEW S \in SUBSET Deliveries, Claims(w, E, F, S)
        PROVE  WorkInv'
    <2>1. \A d \in S : d \notin E /\ d \notin F
      BY <1>6 DEF Claims, Claimable, Exhausted, Unclaimable, TypeOK
    <2>2. \A d \in E \cup F : holder[d] = NoWorker
      BY <1>6
         DEF Claims, Exhausted, Unclaimable, RowsInv, ClaimsHaveHolders, Claimed, Waiting
    <2>3. Shape'
      BY <1>6 DEF Claims, TypeOK, WorkInv, Shape
    <2>4. Held'
      BY <1>6, <2>1, <2>2 DEF Claims, TypeOK, WorkInv, Shape, Held
    <2>. QED
      BY <2>3, <2>4 DEF WorkInv
  <1>7. ASSUME NEW w \in Workers, Renew(w)
        PROVE  WorkInv'
    BY <1>7 DEF Renew, At, TypeOK, WorkInv, Shape, Held, row
  <1>8. ASSUME NEW w \in Workers, Post(w)
        PROVE  WorkInv'
    BY <1>8 DEF Post, At, TypeOK, WorkInv, Shape, Held, row
  <1>9. ASSUME NEW w \in Workers, ClaimReceipts(w)
        PROVE  WorkInv'
    <2>1. PICK E \in Limited(Unanswered), S \in Limited(Checkable) :
            /\ state' = [d \in Deliveries |-> IF d \in E THEN "UNKNOWN"
                                               ELSE IF d \in S THEN "RECEIPT_CHECKING"
                                               ELSE state[d]]
            /\ holder' = [d \in Deliveries |-> IF d \in S THEN w ELSE holder[d]]
            /\ ready' = [ready EXCEPT ![w] = S]
            /\ stage' = [stage EXCEPT ![w] = IF S = {} THEN "recover" ELSE "lookup"]
      BY <1>9 DEF ClaimReceipts
    <2>2. \A d \in E : holder[d] = NoWorker /\ d \notin S
      BY DEF Limited, Unanswered, Checkable, RowsInv, ClaimsHaveHolders, Claimed, TypeOK
    <2>3. Shape'
      BY <1>9, <2>1 DEF ClaimReceipts, At, TypeOK, WorkInv, Shape
    <2>4. Held'
      BY <1>9, <2>1, <2>2, SMTT(30) DEF ClaimReceipts, At, TypeOK, WorkInv, Shape, Held
    <2>. QED
      BY <2>3, <2>4 DEF WorkInv
  <1>10. ASSUME NEW w \in Workers, Forgets(w)
         PROVE  WorkInv'
    BY <1>10 DEF Forgets, Forget, TypeOK, WorkInv, Shape, Held, row
  <1>11. ASSUME NEW w \in Workers, NEW d \in Deliveries, Skips(w, d)
         PROVE  WorkInv'
    BY <1>11 DEF Skips, Prepares, NextStage, TypeOK, WorkInv, Shape, Held
  <1>12. ASSUME NEW w \in Workers, NEW d \in Deliveries, NEW s \in {"EXPIRED", "CANCELLED"},
                Closes(w, d, s)
         PROVE  WorkInv'
    BY <1>12
       DEF Closes, Prepares, Release, NextStage, TypeOK, WorkInv, Shape, Held
  <1>13. ASSUME NEW w \in Workers, NEW d \in Deliveries, Readies(w, d)
         PROVE  WorkInv'
    BY <1>13 DEF Readies, Prepares, NextStage, TypeOK, WorkInv, Shape, Held
  <1>14. ASSUME NEW w \in Workers, NEW d \in Deliveries, Drops(w, d)
         PROVE  WorkInv'
    BY <1>14 DEF Drops, Done, NextStage, TypeOK, WorkInv, Shape, Held, row
  <1>15. ASSUME NEW w \in Workers, NEW d \in Deliveries, NEW s \in States,
                Settles(w, d, s)
         PROVE  WorkInv'
    BY <1>15 DEF Settles, Release, Done, NextStage, TypeOK, WorkInv, Shape, Held
  <1>. QED
    BY <1>1, <1>2, <1>3, <1>4, <1>5, <1>6, <1>7, <1>8, <1>9, <1>10, <1>11, <1>12, <1>13,
       <1>14, <1>15
       DEF Effect

-------------------------------------------------------------------------------
(* Addresses.                                                                *)

LEMMA AddressStep ==
  ASSUME TypeOK, RowsInv, WorkInv, AddressInv, Effect
  PROVE  AddressInv'
  <1>1. CASE UNCHANGED vars
    BY <1>1 DEF AddressInv, Addressed, WellAddressed, vars
  <1>2. CASE Elsewhere
    BY <1>2 DEF Elsewhere, AddressInv, Addressed, WellAddressed, worker, history
  <1>3. ASSUME NEW gone \in SUBSET Deliveries, Deletes(gone)
        PROVE  AddressInv'
    BY <1>3 DEF Deletes, AddressInv, Addressed, WellAddressed, worker, history
  <1>4. ASSUME NEW d \in Deliveries, Enqueue(d)
        PROVE  AddressInv'
    BY <1>4
       DEF Enqueue, TypeOK, RowsInv, Fresh, AddressInv, Addressed, WellAddressed, worker,
           history
  <1>5. ASSUME NEW w \in Workers, RecoverLeases(w)
        PROVE  AddressInv'
    BY <1>5
       DEF RecoverLeases, TypeOK, AddressInv, Addressed, WellAddressed, Posting, history
  <1>6. ASSUME NEW w \in Workers, NEW E \in SUBSET Deliveries, NEW F \in SUBSET Deliveries,
               NEW S \in SUBSET Deliveries, Claims(w, E, F, S)
        PROVE  AddressInv'
    BY <1>6
       DEF Claims, TypeOK, WorkInv, Shape, AddressInv, Addressed, WellAddressed, Posting,
           history
  <1>7. ASSUME NEW w \in Workers, Renew(w)
        PROVE  AddressInv'
    BY <1>7
       DEF Renew, At, TypeOK, AddressInv, Addressed, WellAddressed, Posting, row, history
  <1>8. ASSUME NEW w \in Workers, Post(w)
        PROVE  AddressInv'
    <2>1. Addressed'
      BY <1>8 DEF Post, TypeOK, AddressInv, Addressed, Posting, row
    <2>2. \A d \in ready[w] : address[w][d] = snapshot[d]
      BY <1>8 DEF Post, At, TypeOK, AddressInv, Addressed, Posting
    <2>3. WellAddressed'
      BY <1>8, <2>2 DEF Post, TypeOK, AddressInv, WellAddressed, row
    <2>. QED
      BY <2>1, <2>3 DEF AddressInv
  <1>9. ASSUME NEW w \in Workers, ClaimReceipts(w)
        PROVE  AddressInv'
    BY <1>9
       DEF ClaimReceipts, TypeOK, AddressInv, Addressed, WellAddressed, Posting, history
  <1>10. ASSUME NEW w \in Workers, Forgets(w)
         PROVE  AddressInv'
    BY <1>10
       DEF Forgets, Forget, TypeOK, AddressInv, Addressed, WellAddressed, Posting, row,
           history
  <1>11. ASSUME NEW w \in Workers, NEW d \in Deliveries, Skips(w, d)
         PROVE  AddressInv'
    BY <1>11
       DEF Skips, Prepares, NextStage, TypeOK, AddressInv, Addressed, WellAddressed,
           Posting, history
  <1>12. ASSUME NEW w \in Workers, NEW d \in Deliveries, NEW s \in {"EXPIRED", "CANCELLED"},
                Closes(w, d, s)
         PROVE  AddressInv'
    BY <1>12
       DEF Closes, Prepares, NextStage, TypeOK, AddressInv, Addressed, WellAddressed,
           Posting, history
  <1>13. ASSUME NEW w \in Workers, NEW d \in Deliveries, Readies(w, d)
         PROVE  AddressInv'
    BY <1>13
       DEF Readies, Prepares, Current, NextStage, TypeOK, AddressInv, Addressed,
           WellAddressed, Posting, history
  <1>14. ASSUME NEW w \in Workers, NEW d \in Deliveries, Drops(w, d)
         PROVE  AddressInv'
    BY <1>14
       DEF Drops, Done, NextStage, TypeOK, AddressInv, Addressed, WellAddressed, Posting,
           row, history
  <1>15. ASSUME NEW w \in Workers, NEW d \in Deliveries, NEW s \in States,
                Settles(w, d, s)
         PROVE  AddressInv'
    BY <1>15
       DEF Settles, Done, NextStage, TypeOK, AddressInv, Addressed, WellAddressed, Posting
  <1>. QED
    BY <1>1, <1>2, <1>3, <1>4, <1>5, <1>6, <1>7, <1>8, <1>9, <1>10, <1>11, <1>12, <1>13,
       <1>14, <1>15
       DEF Effect

-------------------------------------------------------------------------------
(* Messages and attempts.                                                    *)

LEMMA PostersFinite ==
  ASSUME NEW d \in Deliveries
  PROVE  IsFiniteSet(MayPost(d)) /\ Cardinality(MayPost(d)) \in Nat
  BY FS_Subset, FS_CardinalityType DEF MayPost

(* Losing workers that might post keeps every message paid. *)
LEMMA PaidKept ==
  ASSUME PostsArePaid, TypeOK, UNCHANGED <<posted, attempts>>,
         \A d \in Deliveries : MayPost(d)' \subseteq MayPost(d)
  PROVE  PostsArePaid'
  <1>1. ASSUME NEW d \in Deliveries
        PROVE  (posted[d] + Cardinality(MayPost(d)) <= attempts[d])'
    <2>1. /\ Cardinality(MayPost(d)') <= Cardinality(MayPost(d))
          /\ Cardinality(MayPost(d)') \in Nat
      BY PostersFinite, FS_Subset, FS_CardinalityType
    <2>2. posted[d] + Cardinality(MayPost(d)) <= attempts[d]
      BY DEF PostsArePaid
    <2>. QED
      BY <2>1, <2>2, PostersFinite DEF TypeOK
  <1>. QED
    BY <1>1 DEF PostsArePaid

LEMMA PaidStep ==
  ASSUME TypeOK, WorkInv, PostsArePaid, Effect
  PROVE  PostsArePaid'
  <1>1. CASE UNCHANGED vars
    BY <1>1, PaidKept DEF vars, MayPost
  <1>2. CASE Elsewhere
    BY <1>2, PaidKept DEF Elsewhere, MayPost, worker, history
  <1>3. ASSUME NEW gone \in SUBSET Deliveries, Deletes(gone)
        PROVE  PostsArePaid'
    BY <1>3, PaidKept DEF Deletes, MayPost, worker, history
  <1>4. ASSUME NEW d \in Deliveries, Enqueue(d)
        PROVE  PostsArePaid'
    BY <1>4, PaidKept DEF Enqueue, MayPost, worker, history
  <1>5. ASSUME NEW w \in Workers, RecoverLeases(w)
        PROVE  PostsArePaid'
    BY <1>5, PaidKept DEF RecoverLeases, MayPost, TypeOK, history
  <1>6. ASSUME NEW w \in Workers, NEW E \in SUBSET Deliveries, NEW F \in SUBSET Deliveries,
               NEW S \in SUBSET Deliveries, Claims(w, E, F, S)
        PROVE  PostsArePaid'
    <2>1. ASSUME NEW d \in Deliveries
          PROVE  (posted[d] + Cardinality(MayPost(d)) <= attempts[d])'
      <3>1. posted[d] + Cardinality(MayPost(d)) <= attempts[d]
        BY DEF PostsArePaid
      <3>2. CASE d \in S
        <4>1. MayPost(d)' \subseteq MayPost(d) \cup {w}
          BY <1>6 DEF Claims, TypeOK, MayPost
        <4>2. /\ IsFiniteSet(MayPost(d) \cup {w})
              /\ Cardinality(MayPost(d) \cup {w}) <= Cardinality(MayPost(d)) + 1
              /\ Cardinality(MayPost(d) \cup {w}) \in Nat
          <5>1. /\ IsFiniteSet(MayPost(d) \cup {w})
                /\ Cardinality(MayPost(d) \cup {w})
                     = IF w \in MayPost(d) THEN Cardinality(MayPost(d))
                       ELSE Cardinality(MayPost(d)) + 1
            BY PostersFinite, FS_AddElement
          <5>. QED
            BY <5>1, PostersFinite
        <4>3. /\ Cardinality(MayPost(d)') <= Cardinality(MayPost(d) \cup {w})
              /\ Cardinality(MayPost(d)') \in Nat
          BY <4>1, <4>2, FS_Subset, FS_CardinalityType
        <4>4. posted'[d] = posted[d] /\ attempts'[d] = attempts[d] + 1
          BY <1>6, <3>2 DEF Claims, Counted, history
        <4>. QED
          BY <3>1, <4>2, <4>3, <4>4, PostersFinite DEF TypeOK
      <3>3. CASE d \notin S
        <4>1. MayPost(d)' \subseteq MayPost(d)
          BY <1>6, <3>3 DEF Claims, TypeOK, MayPost, WorkInv, Shape
        <4>2. /\ Cardinality(MayPost(d)') <= Cardinality(MayPost(d))
              /\ Cardinality(MayPost(d)') \in Nat
          BY <4>1, PostersFinite, FS_Subset, FS_CardinalityType
        <4>3. posted'[d] = posted[d] /\ attempts'[d] = attempts[d]
          BY <1>6, <3>3 DEF Claims, history
        <4>. QED
          BY <3>1, <4>2, <4>3, PostersFinite DEF TypeOK
      <3>. QED
        BY <3>2, <3>3
    <2>. QED
      BY <2>1 DEF PostsArePaid
  <1>7. ASSUME NEW w \in Workers, Renew(w)
        PROVE  PostsArePaid'
    BY <1>7, PaidKept DEF Renew, At, MayPost, TypeOK, row, history
  <1>8. ASSUME NEW w \in Workers, Post(w)
        PROVE  PostsArePaid'
    <2>1. ASSUME NEW d \in Deliveries
          PROVE  (posted[d] + Cardinality(MayPost(d)) <= attempts[d])'
      <3>1. posted[d] + Cardinality(MayPost(d)) <= attempts[d]
        BY DEF PostsArePaid
      <3>2. attempts'[d] = attempts[d]
        BY <1>8 DEF Post, row
      <3>3. MayPost(d)' \subseteq MayPost(d) \ {w}
        BY <1>8 DEF Post, TypeOK, MayPost
      <3>4. IsFiniteSet(MayPost(d) \ {w}) /\ Cardinality(MayPost(d) \ {w}) \in Nat
        BY PostersFinite, FS_Subset, FS_CardinalityType
      <3>5. /\ Cardinality(MayPost(d)') <= Cardinality(MayPost(d) \ {w})
            /\ Cardinality(MayPost(d)') \in Nat
        BY <3>3, <3>4, FS_Subset, FS_CardinalityType
      <3>6. CASE d \in ready[w] \ expired
        <4>1. w \in MayPost(d)
          BY <1>8, <3>6 DEF Post, At, MayPost
        <4>2. Cardinality(MayPost(d) \ {w}) = Cardinality(MayPost(d)) - 1
          BY <4>1, PostersFinite, FS_RemoveElement
        <4>3. posted'[d] = posted[d] + 1
          BY <1>8, <3>6 DEF Post
        <4>. QED
          BY <3>1, <3>2, <3>5, <4>2, <4>3, PostersFinite DEF TypeOK
      <3>7. CASE d \notin ready[w] \ expired
        <4>1. Cardinality(MayPost(d) \ {w}) <= Cardinality(MayPost(d))
          BY PostersFinite, FS_Subset
        <4>2. posted'[d] = posted[d]
          BY <1>8, <3>7 DEF Post
        <4>. QED
          BY <3>1, <3>2, <3>4, <3>5, <4>1, <4>2, PostersFinite DEF TypeOK
      <3>. QED
        BY <3>6, <3>7
    <2>. QED
      BY <2>1 DEF PostsArePaid
  <1>9. ASSUME NEW w \in Workers, ClaimReceipts(w)
        PROVE  PostsArePaid'
    BY <1>9, PaidKept DEF ClaimReceipts, MayPost, TypeOK, history
  <1>10. ASSUME NEW w \in Workers, Forgets(w)
         PROVE  PostsArePaid'
    BY <1>10, PaidKept DEF Forgets, Forget, MayPost, TypeOK, row, history
  <1>11. ASSUME NEW w \in Workers, NEW d \in Deliveries, Skips(w, d)
         PROVE  PostsArePaid'
    BY <1>11, PaidKept DEF Skips, Prepares, NextStage, MayPost, TypeOK, history
  <1>12. ASSUME NEW w \in Workers, NEW d \in Deliveries, NEW s \in {"EXPIRED", "CANCELLED"},
                Closes(w, d, s)
         PROVE  PostsArePaid'
    BY <1>12, PaidKept DEF Closes, Prepares, NextStage, MayPost, TypeOK, history
  <1>13. ASSUME NEW w \in Workers, NEW d \in Deliveries, Readies(w, d)
         PROVE  PostsArePaid'
    BY <1>13, PaidKept DEF Readies, Prepares, NextStage, MayPost, TypeOK, history
  <1>14. ASSUME NEW w \in Workers, NEW d \in Deliveries, Drops(w, d)
         PROVE  PostsArePaid'
    BY <1>14, PaidKept DEF Drops, Done, NextStage, MayPost, TypeOK, row, history
  <1>15. ASSUME NEW w \in Workers, NEW d \in Deliveries, NEW s \in States,
                Settles(w, d, s)
         PROVE  PostsArePaid'
    BY <1>15, PaidKept DEF Settles, Done, NextStage, MayPost, TypeOK
  <1>. QED
    BY <1>1, <1>2, <1>3, <1>4, <1>5, <1>6, <1>7, <1>8, <1>9, <1>10, <1>11, <1>12, <1>13,
       <1>14, <1>15
       DEF Effect

-------------------------------------------------------------------------------
(* The invariants of every behaviour.                                        *)

LEMMA InitIInv == Init => IInv
  <1>. SUFFICES ASSUME Init PROVE IInv
    OBVIOUS
  <1>1. TypeOK
    BY DEF Init, TypeOK, States, Stages
  <1>2. RowsInv
    BY DEF Init, RowsInv, ClaimsHaveHolders, NoneExhausted, Fresh, Claimed, Waiting
  <1>3. WorkInv /\ AddressInv
    BY DEF Init, WorkInv, Shape, Held, AddressInv, Addressed, WellAddressed
  <1>4. ASSUME NEW d \in Deliveries
        PROVE  posted[d] + Cardinality(MayPost(d)) <= attempts[d]
    <2>1. MayPost(d) = {}
      BY DEF Init, MayPost
    <2>. QED
      BY <2>1, FS_EmptySet DEF Init
  <1>. QED
    BY <1>1, <1>2, <1>3, <1>4 DEF IInv, PostsArePaid

LEMMA NextIInv == IInv /\ [Next]_vars => IInv'
  BY StepEffect, TypeStep, RowsStep, WorkStep, AddressStep, PaidStep DEF IInv

(* The inductive invariant holds in every behaviour. *)
THEOREM Invariance == Spec => []IInv
  BY InitIInv, NextIInv, PTL DEF Spec

(* Rows, devices and workers keep to their types; in particular no row is tried more
   than MaxAttempts times. *)
THEOREM TypeCorrect == Spec => []TypeOK
  <1>1. IInv => TypeOK
    BY DEF IInv
  <1>. QED
    BY <1>1, Invariance, PTL

(* However often workers die, lose their lease or their answer, the provider gets no
   more messages for a delivery than its row counts attempts. *)
THEOREM PaidSafe == Spec => []PostsArePaid
  <1>1. IInv => PostsArePaid
    BY DEF IInv
  <1>. QED
    BY <1>1, Invariance, PTL

(* No message carries a token of a registration the delivery was not made for. *)
THEOREM AddressSafe == Spec => []WellAddressed
  <1>1. IInv => WellAddressed
    BY DEF IInv, AddressInv
  <1>. QED
    BY <1>1, Invariance, PTL

(* No row waits for an attempt it does not have. *)
THEOREM ExhaustedSafe == Spec => []NoneExhausted
  <1>1. IInv => NoneExhausted
    BY DEF IInv, RowsInv
  <1>. QED
    BY <1>1, Invariance, PTL

(* A row is claimed exactly while it names the attempt that claimed it. *)
THEOREM HoldersSafe == Spec => []ClaimsHaveHolders
  <1>1. IInv => ClaimsHaveHolders
    BY DEF IInv, RowsInv
  <1>. QED
    BY <1>1, Invariance, PTL

-------------------------------------------------------------------------------
(* Leases.                                                                   *)

LEMMA LeaseStep ==
  ASSUME TypeOK, RowsInv, WorkInv, Effect,
         NEW d \in Deliveries, holder[d] # NoWorker, d \notin lapsed, state'[d] # state[d]
  PROVE  MovesUnderLease(d)
  <1>. state[d] \in Claimed
    BY DEF RowsInv, ClaimsHaveHolders
  <1>1. CASE UNCHANGED vars
    BY <1>1 DEF vars
  <1>2. CASE Elsewhere
    BY <1>2 DEF Elsewhere
  <1>3. ASSUME NEW gone \in SUBSET Deliveries, Deletes(gone)
        PROVE  MovesUnderLease(d)
    BY <1>3 DEF Deletes, Remove, MovesUnderLease
  <1>4. ASSUME NEW e \in Deliveries, Enqueue(e)
        PROVE  FALSE
    BY <1>4 DEF Enqueue, TypeOK, Claimed
  <1>5. ASSUME NEW w \in Workers, RecoverLeases(w)
        PROVE  FALSE
    BY <1>5 DEF RecoverLeases, Limited, Recoverable
  <1>6. ASSUME NEW w \in Workers, NEW E \in SUBSET Deliveries, NEW F \in SUBSET Deliveries,
               NEW S \in SUBSET Deliveries, Claims(w, E, F, S)
        PROVE  FALSE
    BY <1>6 DEF Claims, Unclaimable, Exhausted, Claimable, Claimed, Waiting
  <1>7. ASSUME NEW w \in Workers, Renew(w) \/ Post(w) \/ Forgets(w)
        PROVE  FALSE
    BY <1>7 DEF Renew, Post, Forgets, Forget, row
  <1>8. ASSUME NEW w \in Workers, ClaimReceipts(w)
        PROVE  FALSE
    BY <1>8 DEF ClaimReceipts, Limited, Unanswered, Checkable, Claimed
  <1>9. ASSUME NEW w \in Workers, NEW e \in Deliveries,
               Skips(w, e) \/ Readies(w, e) \/ Drops(w, e)
        PROVE  FALSE
    BY <1>9 DEF Skips, Readies, Drops, row
  <1>10. ASSUME NEW w \in Workers, NEW e \in Deliveries, NEW s \in {"EXPIRED", "CANCELLED"},
                Closes(w, e, s)
         PROVE  MovesUnderLease(d)
    <2>1. e = d /\ w = holder[d]
      BY <1>10 DEF Closes, Usable, Holds, Release, TypeOK
    <2>2. d \in batch[w] /\ d \notin ready[w]
      BY <1>10, <2>1 DEF Closes, Prepares, WorkInv, Shape
    <2>3. d \notin batch'[w] /\ ready'[w] = ready[w]
      BY <1>10, <2>1 DEF Closes, Prepares, TypeOK
    <2>. QED
      BY <2>1, <2>2, <2>3 DEF MovesUnderLease
  <1>11. ASSUME NEW w \in Workers, NEW e \in Deliveries, NEW s \in States, Settles(w, e, s)
         PROVE  MovesUnderLease(d)
    <2>1. e = d /\ w = holder[d]
      BY <1>11 DEF Settles, Holds, Release, TypeOK
    <2>2. d \in ready[w] /\ batch[w] = {}
      BY <1>11, <2>1 DEF Settles, WorkInv, Shape
    <2>3. d \notin ready'[w] /\ batch'[w] = batch[w]
      BY <1>11, <2>1 DEF Settles, Done, TypeOK
    <2>. QED
      BY <2>1, <2>2, <2>3 DEF MovesUnderLease
  <1>. QED
    BY <1>1, <1>2, <1>3, <1>4, <1>5, <1>6, <1>7, <1>8, <1>9, <1>10, <1>11 DEF Effect

(* While a lease lives nobody but its holder moves the row, short of deleting it. *)
THEOREM LeaseSafe == Spec => LeaseRespected
  <1>1. IInv /\ [Next]_vars =>
          [\A d \in Deliveries :
             (holder[d] # NoWorker /\ d \notin lapsed /\ state'[d] # state[d]) =>
               MovesUnderLease(d)]_vars
    BY StepEffect, LeaseStep DEF IInv
  <1>. QED
    BY <1>1, Invariance, PTL DEF Spec, LeaseRespected

-------------------------------------------------------------------------------
(* Devices taken out of service.                                             *)

(* The provider refused the token v is registered with. *)
RefusedNow(v) == <<v, registration[v]>> \in refused'

LEMMA DropStep ==
  ASSUME TypeOK, [Next]_vars, NEW v \in active \ active'
  PROVE  Revoke(v) \/ DeleteDevice(v) \/ RefusedNow(v)
  <1>1. CASE UNCHANGED active
    BY <1>1
  <1>2. ASSUME NEW u \in Devices, Register(u) \/ Revoke(u) \/ DeleteDevice(u)
        PROVE  Revoke(v) \/ DeleteDevice(v)
    <2>1. CASE Register(u)
      BY <2>1 DEF Register
    <2>2. CASE Revoke(u)
      <3>1. v = u
        BY <2>2 DEF Revoke
      <3>. QED
        BY <2>2, <3>1
    <2>3. CASE DeleteDevice(u)
      <3>1. v = u
        BY <2>3 DEF DeleteDevice
      <3>. QED
        BY <2>3, <3>1
    <2>. QED
      BY <1>2, <2>1, <2>2, <2>3
  <1>3. ASSUME NEW w \in Workers, NEW d \in Deliveries, RecordInvalidToken(w, d)
        PROVE  RefusedNow(v)
    <2>1. v \in Deactivated(d)
      BY <1>3 DEF RecordInvalidToken
    <2>2. v = DeviceOf[d] /\ registration[v] = snapshot[d]
      BY <2>1 DEF Deactivated, Current
    <2>. QED
      BY <1>3, <2>2 DEF RecordInvalidToken, RefusedNow
  <1>4. ASSUME NEW d \in Deliveries, Enqueue(d) \/ Retain(d) \/ Time(d)
        PROVE  UNCHANGED active
    BY <1>4 DEF Enqueue, Retain, Time, ComesDue, Lapses, Expires, Ages, device
  <1>5. ASSUME NEW w \in Workers,
               \/ RecoverLeases(w) \/ ClaimSend(w) \/ Renew(w) \/ Post(w)
               \/ ClaimReceipts(w) \/ Abort(w) \/ Crash(w)
        PROVE  UNCHANGED active
    BY <1>5 DEF RecoverLeases, ClaimSend, Renew, Post, ClaimReceipts, Abort, Crash, Forget,
                device
  <1>6. ASSUME NEW w \in Workers, NEW d \in Deliveries,
               \/ Prepare(w, d) \/ RecordStale(w, d) \/ RecordTicket(w, d)
               \/ RecordRetry(w, d) \/ RecordFailure(w, d) \/ RecordReceipt(w, d)
               \/ RecordNoReceipt(w, d)
        PROVE  UNCHANGED active
    BY <1>6 DEF Prepare, RecordStale, RecordTicket, RecordRetry, RecordFailure,
                RecordReceipt, RecordNoReceipt, device
  <1>7. CASE UNCHANGED vars
    BY <1>7, <1>1 DEF vars
  <1>. QED
    BY <1>1, <1>2, <1>3, <1>4, <1>5, <1>6, <1>7 DEF Next, Step, Record

(* Only a token the provider refused, and that the device still has, takes the device
   out of service. *)
THEOREM DevicesSafe == Spec => OnlyRefusedDropped
  <1>1. IInv /\ [Next]_vars =>
          [\A v \in active \ active' :
             Revoke(v) \/ DeleteDevice(v) \/ <<v, registration[v]>> \in refused']_vars
    BY DropStep DEF IInv, RefusedNow
  <1>. QED
    BY <1>1, Invariance, PTL DEF Spec, OnlyRefusedDropped

-------------------------------------------------------------------------------
(* The promise of PushLifecycle.                                             *)

LEMMA PhaseType == \A s \in States : Phase(s) \in Lifecycle!Phases
  BY DEF Phase, States, Waiting, Claimed, Ended, Lifecycle!Phases

LEMMA AdvanceStep ==
  ASSUME TypeOK, TypeOK', attempts' = attempts,
         \A d \in Deliveries : \/ state'[d] = state[d]
                               \/ Phase(state'[d]) = Phase(state[d])
                               \/ Lifecycle!Moves(d, Phase(state'[d]))
  PROVE  [Lifecycle!Next]_(Lifecycle!vars)
  <1>. DEFINE S == {d \in Deliveries : Phase(state'[d]) # Phase(state[d])}
              next == [d \in Deliveries |-> Phase(state'[d])]
  <1>1. next \in [Deliveries -> Lifecycle!Phases]
    BY PhaseType DEF TypeOK
  <1>2. \A d \in S : Lifecycle!Moves(d, next[d])
    OBVIOUS
  <1>3. [d \in Deliveries |-> Phase(state'[d])]
          = [d \in Deliveries |-> IF d \in S THEN next[d]
                                  ELSE [e \in Deliveries |-> Phase(state[e])][d]]
    OBVIOUS
  <1>4. Lifecycle!Advance(S, next)
    BY <1>2, <1>3 DEF Lifecycle!Advance
  <1>5. S \in SUBSET Deliveries
    OBVIOUS
  <1>. HIDE DEF S, next
  <1>. QED
    BY <1>1, <1>4, <1>5 DEF Lifecycle!Next

LEMMA LifecycleStep ==
  ASSUME TypeOK, TypeOK', RowsInv, WorkInv, Effect
  PROVE  [Lifecycle!Next]_(Lifecycle!vars)
  <1>1. CASE UNCHANGED vars
    BY <1>1, AdvanceStep DEF vars
  <1>2. CASE Elsewhere
    BY <1>2, AdvanceStep DEF Elsewhere
  <1>3. ASSUME NEW gone \in SUBSET Deliveries, Deletes(gone)
        PROVE  [Lifecycle!Next]_(Lifecycle!vars)
    <2>1. \A d \in gone : Phase(state[d]) # "absent"
      BY <1>3 DEF Deletes, TypeOK, Phase, States, Waiting, Claimed, Ended
    <2>2. Phase("DELETED") = "deleted"
      BY DEF Phase, Waiting, Ended
    <2>. QED
      BY <1>3, <2>1, <2>2, AdvanceStep DEF Deletes, Remove, Lifecycle!Moves
  <1>4. ASSUME NEW d \in Deliveries, Enqueue(d)
        PROVE  [Lifecycle!Next]_(Lifecycle!vars)
    <2>1. Phase(state[d]) = "absent" /\ Phase("PENDING") = "waiting"
      BY <1>4 DEF Enqueue, Phase, Waiting, Ended
    <2>. QED
      BY <1>4, <2>1, AdvanceStep DEF Enqueue, TypeOK, Lifecycle!Moves
  <1>5. ASSUME NEW w \in Workers, RecoverLeases(w)
        PROVE  [Lifecycle!Next]_(Lifecycle!vars)
    <2>1. PICK R \in Limited(Recoverable) :
            state' = [d \in Deliveries |-> IF d \in R THEN Recovered(d) ELSE state[d]]
      BY <1>5 DEF RecoverLeases
    <2>2. ASSUME NEW d \in Deliveries, state'[d] # state[d]
          PROVE  \/ Phase(state'[d]) = Phase(state[d])
                 \/ Lifecycle!Moves(d, Phase(state'[d]))
      <3>1. state'[d] = Recovered(d) /\ state[d] \in Claimed
        BY <2>1, <2>2 DEF Limited, Recoverable
      <3>. QED
        BY <3>1 DEF Recovered, Phase, Claimed, Waiting, Ended, Lifecycle!Moves
    <2>. QED
      BY <1>5, <2>2, AdvanceStep DEF RecoverLeases
  <1>6. ASSUME NEW w \in Workers, NEW E \in SUBSET Deliveries, NEW F \in SUBSET Deliveries,
               NEW S \in SUBSET Deliveries, Claims(w, E, F, S)
        PROVE  [Lifecycle!Next]_(Lifecycle!vars)
    <2>1. S \cap (E \cup F) = {}
      BY <1>6 DEF Claims, Claimable, Exhausted, Unclaimable, TypeOK
    <2>2. /\ \A d \in S : Phase(state[d]) = "waiting" /\ attempts[d] < MaxAttempts
          /\ \A d \in E \cup F : Phase(state[d]) = "waiting"
      <3>1. \A s \in Waiting : Phase(s) = "waiting"
        BY DEF Phase, Waiting, Ended
      <3>2. /\ \A d \in S : state[d] \in Waiting /\ attempts[d] < MaxAttempts
            /\ \A d \in E \cup F : state[d] \in Waiting
        BY <1>6 DEF Claims, Claimable, Exhausted, Unclaimable
      <3>. QED
        BY <3>1, <3>2
    <2>3. /\ Phase("SENDING") = "trying"
          /\ Phase("EXPIRED") = "ended" /\ Phase("FAILED") = "ended"
      BY DEF Phase, Waiting, Ended
    <2>4. [d \in Deliveries |-> Phase(state'[d])]
            = [d \in Deliveries |-> IF d \in S THEN "trying"
                                    ELSE IF d \in E \cup F THEN "ended"
                                    ELSE [e \in Deliveries |-> Phase(state[e])][d]]
      <3>1. ASSUME NEW d \in Deliveries
            PROVE  Phase(state'[d]) = IF d \in S THEN "trying"
                                      ELSE IF d \in E \cup F THEN "ended"
                                      ELSE Phase(state[d])
        <4>1. state'[d] = IF d \in E THEN "EXPIRED" ELSE IF d \in F THEN "FAILED"
                          ELSE IF d \in S THEN "SENDING" ELSE state[d]
          BY <1>6 DEF Claims
        <4>. QED
          BY <2>1, <2>3, <4>1
      <3>. QED
        BY <3>1
    <2>5. attempts' = [d \in Deliveries |-> IF d \in S THEN attempts[d] + 1
                                            ELSE attempts[d]]
      BY <1>6 DEF Claims, Counted
    <2>6. Lifecycle!Try(S, E \cup F)
      BY <2>1, <2>2, <2>4, <2>5 DEF Lifecycle!Try
    <2>. QED
      BY <2>6 DEF Lifecycle!Next
  <1>7. ASSUME NEW w \in Workers, Renew(w) \/ Post(w) \/ Forgets(w)
        PROVE  [Lifecycle!Next]_(Lifecycle!vars)
    <2>1. UNCHANGED <<state, attempts>>
      BY <1>7 DEF Renew, Post, Forgets, Forget, row
    <2>. QED
      BY <2>1, AdvanceStep
  <1>8. ASSUME NEW w \in Workers, ClaimReceipts(w)
        PROVE  [Lifecycle!Next]_(Lifecycle!vars)
    <2>1. ASSUME NEW d \in Deliveries, state'[d] # state[d]
          PROVE  /\ state[d] = "TICKET_ACCEPTED"
                 /\ state'[d] \in {"UNKNOWN", "RECEIPT_CHECKING"}
      BY <1>8, <2>1 DEF ClaimReceipts, Limited, Unanswered, Checkable
    <2>2. ASSUME NEW d \in Deliveries, state'[d] # state[d]
          PROVE  \/ Phase(state'[d]) = Phase(state[d])
                 \/ Lifecycle!Moves(d, Phase(state'[d]))
      BY <2>1, <2>2 DEF Phase, Waiting, Ended, Lifecycle!Moves
    <2>. QED
      BY <1>8, <2>2, AdvanceStep DEF ClaimReceipts
  <1>9. ASSUME NEW w \in Workers, NEW d \in Deliveries,
               Skips(w, d) \/ Readies(w, d) \/ Drops(w, d)
        PROVE  [Lifecycle!Next]_(Lifecycle!vars)
    <2>1. UNCHANGED <<state, attempts>>
      BY <1>9 DEF Skips, Readies, Prepares, Drops, row
    <2>. QED
      BY <2>1, AdvanceStep
  <1>10. ASSUME NEW w \in Workers, NEW d \in Deliveries, NEW s \in {"EXPIRED", "CANCELLED"},
                Closes(w, d, s)
         PROVE  [Lifecycle!Next]_(Lifecycle!vars)
    <2>1. state[d] = "SENDING"
      BY <1>10 DEF Closes, Prepares, Usable, Holds, WorkInv, Held
    <2>2. Phase(state[d]) = "trying" /\ Phase(s) = "ended"
      BY <2>1 DEF Phase, Waiting, Ended
    <2>. QED
      BY <1>10, <2>2, AdvanceStep DEF Closes, Prepares, Release, TypeOK, Lifecycle!Moves
  <1>11. ASSUME NEW w \in Workers, NEW d \in Deliveries, NEW s \in States, Settles(w, d, s)
         PROVE  [Lifecycle!Next]_(Lifecycle!vars)
    <2>1. state[d] = IF stage[w] = "lookup" THEN "RECEIPT_CHECKING" ELSE "SENDING"
      BY <1>11 DEF Settles, Holds, WorkInv, Held
    <2>2. Phase(s) = Phase(state[d]) \/ Lifecycle!Moves(d, Phase(s))
      BY <1>11, <2>1 DEF Settles, Phase, Waiting, Ended, Lifecycle!Moves
    <2>. QED
      BY <1>11, <2>2, AdvanceStep DEF Settles, Release, TypeOK
  <1>. QED
    BY <1>1, <1>2, <1>3, <1>4, <1>5, <1>6, <1>7, <1>8, <1>9, <1>10, <1>11 DEF Effect

LEMMA LifecycleInit == Init => Lifecycle!Init
  BY DEF Init, Lifecycle!Init, Phase, Waiting, Ended

(* Whatever workers lose, a delivery is tried at most MaxAttempts times, never again
   after the provider's ticket, and ends once. *)
THEOREM Refinement == Spec => ImplementsLifecycle
  <1>1. IInv /\ [Next]_vars => [Lifecycle!Next]_(Lifecycle!vars)
    BY StepEffect, TypeStep, LifecycleStep DEF IInv
  <1>. QED
    BY <1>1, LifecycleInit, Invariance, PTL DEF Spec, ImplementsLifecycle, Lifecycle!Spec

-------------------------------------------------------------------------------
(* The questions of the runs, for every value of the constants               *)

(* Every message is paid for, every claim names its attempt, no row waits that nobody
   may try. *)
THEOREM ClaimsSafe == Spec => []ClaimsAreSound
  <1>. QED
    BY TypeCorrect, PaidSafe, HoldersSafe, ExhaustedSafe, PTL DEF ClaimsAreSound

(* Late results move neither rows that are not theirs nor devices that registered anew. *)
THEOREM LateResultsAreIdle == Spec => LateIsIdle
  <1>. QED
    BY LeaseSafe, DevicesSafe DEF LateIsIdle
=============================================================================
