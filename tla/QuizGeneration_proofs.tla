------------------------ MODULE QuizGeneration_proofs ------------------------
(***************************************************************************)
(* Proofs that every behaviour of QuizGeneration keeps its invariants, for *)
(* any number of sets, users, materials, threads and restarts.             *)
(***************************************************************************)
EXTENDS QuizGeneration, FiniteSetTheorems, SequenceTheorems, TLAPS

USE OwnerAssumption, InputsAssumption, NoSetAssumption, SetsAssumption,
    WorkersAssumption, QueueAssumption, EpochAssumption

(* Everything TypeOK says except the upper bound of the semaphore. *)
TypeInv ==
  /\ status \in [Sets -> Statuses]
  /\ failureCode \in [Sets -> FailureCodes]
  /\ createdIn \in [Sets -> Nat]
  /\ material \in [Sets -> Materials]
  /\ snapshot \in [Sets -> Contents]
  /\ notifications \in [Sets -> Nat]
  /\ content \in [Materials -> Contents]
  /\ epoch \in Nat /\ recovered \in BOOLEAN
  /\ permits \in Nat
  /\ request \in [Sets -> {"idle", "reserved", "committed", "closed"}]
  /\ future \in [Sets -> {"none", "new", "cancelled", "done", "rejected"}]
  /\ startedAt \subseteq Sets /\ begun \subseteq Sets /\ tracked \subseteq Sets
  /\ released \subseteq Sets /\ toCancel \subseteq Sets /\ stranded \subseteq Sets
  /\ queue \in Seq(Sets)
  /\ place \in [Workers -> Places]
  /\ job \in [Workers -> Sets \cup {NoSet}]
  /\ short \subseteq Workers

LEMMA CapacityIsNat == Capacity \in Nat
  BY FS_CardinalityType DEF Capacity

(* A thread that works has a set to work for. *)
LEMMA BusyJob ==
  ASSUME \A w \in Workers : ThreadOK(w), NEW w \in Workers, place[w] \in Busy
  PROVE  job[w] \in Sets
  BY DEF ThreadOK

LEMMA SettleType ==
  ASSUME TypeInv, NEW s \in Sets, NEW final \in Statuses, NEW reason \in FailureCodes,
         Settle(s, final, reason)
  PROVE  /\ status' \in [Sets -> Statuses]
         /\ failureCode' \in [Sets -> FailureCodes]
         /\ notifications' \in [Sets -> Nat]
  <1>1. CASE Generating(s)
    <2>1. /\ status' = [status EXCEPT ![s] = final]
          /\ failureCode' = [failureCode EXCEPT ![s] = reason]
          /\ notifications' = [notifications EXCEPT ![s] = @ + 1]
      BY <1>1 DEF Settle
    <2>2. notifications' \in [Sets -> Nat]
      BY <2>1 DEF TypeInv
    <2>. QED
      BY <2>1, <2>2 DEF TypeInv
  <1>2. CASE ~Generating(s)
    BY <1>2 DEF Settle, Generating, TypeInv, outcome
  <1>. QED
    BY <1>1, <1>2

LEMMA TypeStep ==
  ASSUME TypeInv, \A w \in Workers : ThreadOK(w), [Next]_vars
  PROVE  TypeInv'
  <1>1. ASSUME NEW s \in Sets, Reserve(s)
         PROVE  TypeInv'
    BY <1>1
       DEF Reserve, db, input, outcome, process, task, thread, TypeInv,
          Statuses, FailureCodes, Places
  <1>2. ASSUME NEW s \in Sets, Refuse(s)
         PROVE  TypeInv'
    BY <1>2
       DEF Refuse, db, input, outcome, process, task, thread, TypeInv,
          Statuses, FailureCodes, Places
  <1>3. ASSUME NEW s \in Sets, NEW m \in Materials, Accept(s, m)
         PROVE  TypeInv'
    BY <1>3
       DEF Accept, InsertRow, process, task, thread, TypeInv, Statuses,
          FailureCodes, Places
  <1>4. ASSUME NEW s \in Sets, NEW m \in Materials, AcceptUnacknowledged(s, m)
         PROVE  TypeInv'
    BY <1>4
       DEF AcceptUnacknowledged, InsertRow, process, task, thread, TypeInv,
          Statuses, FailureCodes, Places
  <1>5. ASSUME NEW m \in Materials, NEW c \in Contents, UpdateContent(m, c)
         PROVE  TypeInv'
    BY <1>5
       DEF UpdateContent, input, outcome, process, task, thread, TypeInv,
          Statuses, FailureCodes, Places
  <1>6. ASSUME NEW s \in Sets, Schedule(s)
         PROVE  TypeInv'
    <2>1. CASE \E w \in Workers : Give(w, s) /\ UNCHANGED queue
      BY <2>1, <1>6 DEF Schedule, Give, db, input, outcome, process, TypeInv, Places
    <2>2. CASE queue' = Append(queue, s) /\ UNCHANGED thread
      BY <2>2, <1>6 DEF Schedule, thread, db, input, outcome, process, TypeInv
    <2>. QED
      BY <2>1, <2>2, <1>6 DEF Schedule
  <1>7. ASSUME NEW s \in Sets, ScheduleRejected(s)
         PROVE  TypeInv'
    BY <1>7
       DEF ScheduleRejected, db, input, outcome, process, thread, TypeInv,
          Statuses, FailureCodes, Places
  <1>8. ASSUME NEW s \in Sets, Cancel(s)
         PROVE  TypeInv'
    BY <1>8
       DEF Cancel, CancelReleases, CancelledFuture, db, input, outcome,
          process, thread, TypeInv, Statuses, FailureCodes, Places
  <1>9. ASSUME NEW w \in Workers, Take(w)
         PROVE  TypeInv'
    BY <1>9
       DEF Take, Give, At, db, input, outcome, process, task, TypeInv,
          Statuses, FailureCodes, Places
  <1>11. ASSUME NEW w \in Workers, Run(w)
         PROVE  TypeInv'
    BY <1>11
       DEF Run, At, Move, db, input, outcome, process, task, TypeInv,
          Statuses, FailureCodes, Places
  <1>12. ASSUME NEW w \in Workers, Begin(w)
         PROVE  TypeInv'
    <2>1. job[w] \in Sets
      BY <1>12, BusyJob DEF Begin, At, Busy, Working
    <2>. QED
      BY <2>1, <1>12
         DEF Begin, At, Move, db, input, outcome, process, TypeInv, Statuses,
            FailureCodes, Places
  <1>13. ASSUME NEW w \in Workers, MarkStarted(w)
         PROVE  TypeInv'
    <2>1. job[w] \in Sets
      BY <1>13, BusyJob DEF MarkStarted, At, Busy, Working
    <2>2. CASE Generating(job[w])
      <3>1. startedAt' = startedAt \cup {job[w]} /\ place' = [place EXCEPT ![w] = "first"]
            /\ UNCHANGED <<job, short>>
        BY <2>2, <1>13 DEF MarkStarted, Move
      <3>2. place' \in [Workers -> Places] /\ startedAt' \subseteq Sets
        BY <2>1, <3>1 DEF TypeInv, Places
      <3>. QED
        BY <3>1, <3>2, <1>13 DEF MarkStarted, input, outcome, process, task, TypeInv
    <2>3. CASE ~Generating(job[w])
      BY <2>1, <2>3, <1>13 DEF MarkStarted, Move, input, outcome, process, task, TypeInv, Places
    <2>. QED
      BY <2>2, <2>3
  <1>14. ASSUME NEW w \in Workers, DatabaseFails(w)
         PROVE  TypeInv'
    BY <1>14
       DEF DatabaseFails, Move, db, input, outcome, process, task, TypeInv,
          Statuses, FailureCodes, Places
  <1>15. ASSUME NEW w \in Workers, CommitUnacknowledged(w)
         PROVE  TypeInv'
    <2>1. job[w] \in Sets
      BY <1>15, BusyJob DEF CommitUnacknowledged, At, Busy, Working
    <2>2. /\ status' \in [Sets -> Statuses]
          /\ failureCode' \in [Sets -> FailureCodes]
          /\ notifications' \in [Sets -> Nat]
      BY <2>1, <1>15, SettleType
         DEF CommitUnacknowledged, outcome, TypeInv, Statuses, FailureCodes
    <2>3. startedAt' \subseteq Sets
      BY <2>1, <1>15 DEF CommitUnacknowledged, TypeInv
    <2>. QED
      BY <2>2, <2>3, <1>15 DEF CommitUnacknowledged, Move, input, process, task, TypeInv, Places
  <1>16. ASSUME NEW w \in Workers, Complete(w)
         PROVE  TypeInv'
    <2>1. job[w] \in Sets
      BY <1>16, BusyJob DEF Complete, At, Busy, Working
    <2>2. /\ status' \in [Sets -> Statuses]
          /\ failureCode' \in [Sets -> FailureCodes]
          /\ notifications' \in [Sets -> Nat]
      BY <2>1, <1>16, SettleType DEF Complete, Statuses, FailureCodes
    <2>. QED
      BY <2>1, <2>2, <1>16 DEF Complete, Move, input, process, task, TypeInv, Places
  <1>17. ASSUME NEW w \in Workers, Fail(w)
         PROVE  TypeInv'
    <2>1. job[w] \in Sets
      BY <1>17, BusyJob DEF Fail, At, Busy, Working
    <2>2. /\ status' \in [Sets -> Statuses]
          /\ failureCode' \in [Sets -> FailureCodes]
          /\ notifications' \in [Sets -> Nat]
      BY <2>1, <1>17, SettleType DEF Fail, Statuses, FailureCodes
    <2>. QED
      BY <2>1, <2>2, <1>17 DEF Fail, Move, input, process, task, TypeInv, Places
  <1>18. ASSUME NEW w \in Workers, FailSwallowed(w)
         PROVE  TypeInv'
    <2>1. job[w] \in Sets
      BY <1>18, BusyJob DEF FailSwallowed, At, Busy, Working
    <2>. QED
      BY <2>1, <1>18
         DEF FailSwallowed, Move, Generating, db, input, outcome, process,
            task, TypeInv, Statuses, FailureCodes, Places
  <1>19. ASSUME NEW w \in Workers, Finish(w)
         PROVE  TypeInv'
    <2>1. job[w] \in Sets
      BY <1>19, BusyJob DEF Finish, At, Busy, Working
    <2>. QED
      BY <2>1, <1>19
         DEF Finish, FinishReleases, Drop, At, db, input, outcome, process,
            TypeInv, Statuses, FailureCodes, Places
  <1>20. ASSUME NEW w \in Workers, Return(w)
         PROVE  TypeInv'
    BY <1>20
       DEF Return, At, Move, db, input, outcome, process, task, TypeInv,
          Statuses, FailureCodes, Places
  <1>21. ASSUME NEW w \in Workers, ModelFails(w)
         PROVE  TypeInv'
    BY <1>21
       DEF ModelFails, Move, db, input, outcome, process, task, TypeInv,
          Statuses, FailureCodes, Places
  <1>22. ASSUME NEW w \in Workers, ModelSuffices(w)
         PROVE  TypeInv'
    BY <1>22
       DEF ModelSuffices, Move, db, input, outcome, process, task, TypeInv,
          Statuses, FailureCodes, Places
  <1>23. ASSUME NEW w \in Workers, NEW b \in BOOLEAN, FirstFallsShort(w, b)
         PROVE  TypeInv'
    BY <1>23
       DEF FirstFallsShort, At, db, input, outcome, process, task, TypeInv,
          Statuses, FailureCodes, Places
  <1>24. ASSUME NEW w \in Workers, NEW b \in BOOLEAN, SecondFallsShort(w, b)
         PROVE  TypeInv'
    BY <1>24
       DEF SecondFallsShort, Move, At, db, input, outcome, process, task,
          TypeInv, Statuses, FailureCodes, Places
  <1>25. ASSUME NEW S \in SUBSET Sets, FailStale(S)
         PROVE  TypeInv'
    BY <1>25
       DEF FailStale, FailAll, FailRows, Started, Generating, input, process,
          task, thread, TypeInv, Statuses, FailureCodes, Places
  <1>26. CASE RecoverAtStartup
    BY <1>26
       DEF RecoverAtStartup, FailAll, FailRows, Interrupted, Generating,
          input, task, thread, TypeInv, Statuses, FailureCodes, Places
  <1>27. CASE Restart
    <2>1. request' \in [Sets -> {"idle", "reserved", "committed", "closed"}]
      BY <1>27 DEF Restart, TypeInv
    <2>2. queue' \in Seq(Sets) /\ permits' \in Nat
      BY <1>27, CapacityIsNat DEF Restart
    <2>3. /\ future' \in [Sets -> {"none", "new", "cancelled", "done", "rejected"}]
          /\ place' \in [Workers -> Places]
          /\ job' \in [Workers -> Sets \cup {NoSet}]
      BY <1>27 DEF Restart, Places
    <2>4. epoch' \in Nat
      BY <1>27 DEF Restart, TypeInv
    <2>7. recovered' \in BOOLEAN
      BY <1>27 DEF Restart
    <2>5. UNCHANGED <<status, failureCode, startedAt, createdIn, material, snapshot,
                      notifications, content>>
      BY <1>27 DEF Restart, db, input, outcome
    <2>6. /\ begun' = {} /\ tracked' = {} /\ released' = {} /\ short' = {}
          /\ toCancel' = {} /\ stranded' = {}
      BY <1>27 DEF Restart
    <2>. QED
      BY <2>1, <2>2, <2>3, <2>4, <2>5, <2>6, <2>7 DEF TypeInv
  <1>28. CASE UNCHANGED vars
    BY <1>28
       DEF vars, TypeInv, Statuses, FailureCodes, Places
  <1>. QED
    BY <1>1, <1>2, <1>3, <1>4, <1>5, <1>6, <1>7, <1>8, <1>9, <1>11,
       <1>12, <1>13, <1>14, <1>15, <1>16, <1>17, <1>18, <1>19, <1>20, <1>21,
       <1>22, <1>23, <1>24, <1>25, <1>26, <1>27, <1>28
       DEF Next, Requests, Listener, ThreadStep, ModelStep

(* What a working thread works for has been through its request. *)
LEMMA BusyClosed ==
  ASSUME TypeInv, RowsAndTasks, \A w \in Workers : ThreadOK(w),
         NEW w \in Workers, place[w] \in Busy
  PROVE  job[w] \in Sets /\ request[job[w]] = "closed"
  BY DEF ThreadOK, RowsAndTasks

(* Rows, requests and tasks stay in step. *)
LEMMA RowsStep ==
  ASSUME TypeInv, RowsAndTasks, QueueOK, \A w \in Workers : ThreadOK(w), [Next]_vars
  PROVE  RowsAndTasks'
  <1>1. ASSUME NEW s \in Sets, Reserve(s)
         PROVE  RowsAndTasks'
    BY <1>1
       DEF Reserve, db, input, outcome, process, task, thread, TypeInv,
          RowsAndTasks
  <1>2. ASSUME NEW s \in Sets, Refuse(s)
         PROVE  RowsAndTasks'
    BY <1>2
       DEF Refuse, db, input, outcome, process, task, thread, TypeInv,
          RowsAndTasks
  <1>3. ASSUME NEW s \in Sets, NEW m \in Materials, Accept(s, m)
         PROVE  RowsAndTasks'
    BY <1>3
       DEF Accept, InsertRow, process, task, thread, TypeInv, RowsAndTasks
  <1>4. ASSUME NEW s \in Sets, NEW m \in Materials, AcceptUnacknowledged(s, m)
         PROVE  RowsAndTasks'
    BY <1>4
       DEF AcceptUnacknowledged, InsertRow, process, task, thread, TypeInv,
          RowsAndTasks
  <1>5. ASSUME NEW m \in Materials, NEW c \in Contents, UpdateContent(m, c)
         PROVE  RowsAndTasks'
    BY <1>5
       DEF UpdateContent, input, outcome, process, task, thread, TypeInv,
          RowsAndTasks
  <1>6. ASSUME NEW s \in Sets, Schedule(s)
         PROVE  RowsAndTasks'
    BY <1>6
       DEF Schedule, Give, db, input, outcome, process, thread, TypeInv,
          RowsAndTasks
  <1>7. ASSUME NEW s \in Sets, ScheduleRejected(s)
         PROVE  RowsAndTasks'
    BY <1>7
       DEF ScheduleRejected, db, input, outcome, process, thread, TypeInv,
          RowsAndTasks
  <1>8. ASSUME NEW s \in Sets, Cancel(s)
         PROVE  RowsAndTasks'
    BY <1>8
       DEF Cancel, CancelReleases, CancelledFuture, db, input, outcome,
          process, thread, TypeInv, RowsAndTasks
  <1>9. ASSUME NEW w \in Workers, Take(w)
         PROVE  RowsAndTasks'
    BY <1>9
       DEF Take, Give, At, db, input, outcome, process, task, TypeInv,
          RowsAndTasks
  <1>11. ASSUME NEW w \in Workers, Run(w)
         PROVE  RowsAndTasks'
    BY <1>11
       DEF Run, At, Move, db, input, outcome, process, task, TypeInv,
          RowsAndTasks
  <1>12. ASSUME NEW w \in Workers, Begin(w)
         PROVE  RowsAndTasks'
    <2>1. /\ job[w] \in Sets
          /\ request[job[w]] = "closed"
      BY <1>12, BusyClosed DEF Begin, At, Busy, Working
    <2>. QED
      BY <2>1, <1>12 DEF Begin, Move, db, input, outcome, process, TypeInv, RowsAndTasks
  <1>13. ASSUME NEW w \in Workers, MarkStarted(w)
         PROVE  RowsAndTasks'
    <2>1. /\ job[w] \in Sets
          /\ request[job[w]] = "closed"
      BY <1>13, BusyClosed DEF MarkStarted, At, Busy, Working
    <2>2. job[w] \in begun
      BY <1>13 DEF MarkStarted, At, ThreadOK, Busy, Working
    <2>3. UNCHANGED <<createdIn, epoch, request, status, future, begun, tracked, released,
                      toCancel>>
      BY <1>13 DEF MarkStarted, input, outcome, process, task
    <2>4. startedAt' = startedAt \/ startedAt' = startedAt \cup {job[w]}
      BY <1>13 DEF MarkStarted
    <2>. QED
      BY <2>1, <2>2, <2>3, <2>4 DEF TypeInv, RowsAndTasks
  <1>14. ASSUME NEW w \in Workers, DatabaseFails(w)
         PROVE  RowsAndTasks'
    BY <1>14
       DEF DatabaseFails, Move, db, input, outcome, process, task, TypeInv,
          RowsAndTasks
  <1>15. ASSUME NEW w \in Workers, CommitUnacknowledged(w)
         PROVE  RowsAndTasks'
    <2>1. /\ job[w] \in Sets
          /\ request[job[w]] = "closed"
      BY <1>15, BusyClosed DEF CommitUnacknowledged, At, Busy, Working
    <2>2. job[w] \in begun
      BY <1>15 DEF CommitUnacknowledged, At, ThreadOK, Busy, Working
    <2>3. UNCHANGED <<createdIn, epoch, request, future, begun, tracked, released, toCancel>>
      BY <1>15 DEF CommitUnacknowledged, input, process, task
    <2>4. startedAt' = startedAt \/ startedAt' = startedAt \cup {job[w]}
      BY <1>15 DEF CommitUnacknowledged
    <2>5. \A t \in Sets : request[t] # "closed" => status'[t] = status[t]
      BY <2>1, <1>15 DEF CommitUnacknowledged, Settle, outcome, TypeInv
    <2>. QED
      BY <2>1, <2>2, <2>3, <2>4, <2>5 DEF TypeInv, RowsAndTasks
  <1>16. ASSUME NEW w \in Workers, Complete(w)
         PROVE  RowsAndTasks'
    BY <1>16
       DEF Complete, Settle, At, Move, Generating, input, outcome, process,
          task, TypeInv, RowsAndTasks
  <1>17. ASSUME NEW w \in Workers, Fail(w)
         PROVE  RowsAndTasks'
    BY <1>17
       DEF Fail, Settle, At, Move, Generating, input, outcome, process, task,
          TypeInv, RowsAndTasks
  <1>18. ASSUME NEW w \in Workers, FailSwallowed(w)
         PROVE  RowsAndTasks'
    BY <1>18
       DEF FailSwallowed, Move, Generating, db, input, outcome, process, task,
          TypeInv, RowsAndTasks
  <1>19. ASSUME NEW w \in Workers, Finish(w)
         PROVE  RowsAndTasks'
    <2>1. /\ job[w] \in Sets
          /\ request[job[w]] = "closed"
      BY <1>19, BusyClosed DEF Finish, At, Busy, Working
    <2>2. UNCHANGED <<createdIn, epoch, request, status, begun, startedAt, toCancel>>
      BY <1>19 DEF Finish, db, input, outcome, process
    <2>3. /\ tracked' \subseteq tracked
          /\ released' \subseteq released \cup {job[w]}
          /\ \A t \in Sets \ {job[w]} : future'[t] = future[t]
      BY <1>19, <2>1 DEF Finish, TypeInv
    <2>. QED
      BY <2>1, <2>2, <2>3 DEF TypeInv, RowsAndTasks
  <1>20. ASSUME NEW w \in Workers, Return(w)
         PROVE  RowsAndTasks'
    BY <1>20
       DEF Return, At, Move, db, input, outcome, process, task, TypeInv,
          RowsAndTasks
  <1>21. ASSUME NEW w \in Workers, ModelFails(w)
         PROVE  RowsAndTasks'
    BY <1>21
       DEF ModelFails, Move, db, input, outcome, process, task, TypeInv,
          RowsAndTasks
  <1>22. ASSUME NEW w \in Workers, ModelSuffices(w)
         PROVE  RowsAndTasks'
    BY <1>22
       DEF ModelSuffices, Move, db, input, outcome, process, task, TypeInv,
          RowsAndTasks
  <1>23. ASSUME NEW w \in Workers, NEW b \in BOOLEAN, FirstFallsShort(w, b)
         PROVE  RowsAndTasks'
    BY <1>23
       DEF FirstFallsShort, At, db, input, outcome, process, task, TypeInv,
          RowsAndTasks
  <1>24. ASSUME NEW w \in Workers, NEW b \in BOOLEAN, SecondFallsShort(w, b)
         PROVE  RowsAndTasks'
    BY <1>24
       DEF SecondFallsShort, Move, At, db, input, outcome, process, task,
          TypeInv, RowsAndTasks
  <1>25. ASSUME NEW S \in SUBSET Sets, FailStale(S)
         PROVE  RowsAndTasks'
    BY <1>25
       DEF FailStale, FailAll, FailRows, Started, Generating, input, process,
          task, thread, TypeInv, RowsAndTasks
  <1>26. CASE RecoverAtStartup
    BY <1>26
       DEF RecoverAtStartup, FailAll, FailRows, Interrupted, Generating,
          input, task, thread, TypeInv, RowsAndTasks
  <1>27. CASE Restart
    BY <1>27
       DEF Restart, db, input, outcome, TypeInv, RowsAndTasks
  <1>28. CASE UNCHANGED vars
    BY <1>28
       DEF vars, TypeInv, RowsAndTasks
  <1>. QED
    BY <1>1, <1>2, <1>3, <1>4, <1>5, <1>6, <1>7, <1>8, <1>9, <1>11,
       <1>12, <1>13, <1>14, <1>15, <1>16, <1>17, <1>18, <1>19, <1>20, <1>21,
       <1>22, <1>23, <1>24, <1>25, <1>26, <1>27, <1>28
       DEF Next, Requests, Listener, ThreadStep, ModelStep

(* The queue keeps its tasks new and distinct. *)
LEMMA QueueStep ==
  ASSUME TypeInv, RowsAndTasks, QueueOK, \A w \in Workers : ThreadOK(w), [Next]_vars
  PROVE  QueueOK'
  <1>1. ASSUME NEW s \in Sets, Reserve(s)
         PROVE  QueueOK'
    BY <1>1
       DEF Reserve, db, input, outcome, process, task, thread, TypeInv,
          QueueOK
  <1>2. ASSUME NEW s \in Sets, Refuse(s)
         PROVE  QueueOK'
    BY <1>2
       DEF Refuse, db, input, outcome, process, task, thread, TypeInv, QueueOK
  <1>3. ASSUME NEW s \in Sets, NEW m \in Materials, Accept(s, m)
         PROVE  QueueOK'
    BY <1>3
       DEF Accept, InsertRow, process, task, thread, TypeInv, QueueOK
  <1>4. ASSUME NEW s \in Sets, NEW m \in Materials, AcceptUnacknowledged(s, m)
         PROVE  QueueOK'
    BY <1>4
       DEF AcceptUnacknowledged, InsertRow, process, task, thread, TypeInv,
          QueueOK
  <1>5. ASSUME NEW m \in Materials, NEW c \in Contents, UpdateContent(m, c)
         PROVE  QueueOK'
    BY <1>5
       DEF UpdateContent, input, outcome, process, task, thread, TypeInv,
          QueueOK
  <1>6. ASSUME NEW s \in Sets, Schedule(s)
         PROVE  QueueOK'
    <2>1. \A i \in DOMAIN queue : queue[i] # s
      BY <1>6 DEF Schedule, QueueOK, RowsAndTasks
    <2>2. /\ \A t \in Sets \ {s} : future'[t] = future[t]
          /\ future'[s] = "new"
          /\ UNCHANGED <<begun, released>>
          /\ s \notin begun \cup released
      BY <1>6 DEF Schedule, TypeInv, RowsAndTasks
    <2>3. \A i \in DOMAIN queue : queue[i] \in Sets
      BY DEF TypeInv
    <2>4. CASE UNCHANGED queue
      BY <2>1, <2>2, <2>3, <2>4 DEF QueueOK
    <2>5. CASE queue' = Append(queue, s)
      <3>1. /\ DOMAIN queue' = 1 .. Len(queue) + 1
            /\ DOMAIN queue = 1 .. Len(queue)
            /\ \A i \in 1 .. Len(queue) : queue'[i] = queue[i]
            /\ queue'[Len(queue) + 1] = s
            /\ Len(queue) \in Nat
        BY <2>5, AppendProperties, LenProperties DEF TypeInv
      <3>2. \A i \in DOMAIN queue' : i \in DOMAIN queue \/ (i = Len(queue) + 1 /\ queue'[i] = s)
        BY <3>1
      <3>. QED
        BY <2>1, <2>2, <2>3, <3>1, <3>2 DEF QueueOK
    <2>. QED
      BY <2>4, <2>5, <1>6 DEF Schedule
  <1>7. ASSUME NEW s \in Sets, ScheduleRejected(s)
         PROVE  QueueOK'
    <2>1. \A i \in DOMAIN queue : queue[i] # s
      BY <1>7 DEF ScheduleRejected, QueueOK, RowsAndTasks
    <2>3. \A i \in DOMAIN queue : queue[i] \in Sets
      BY DEF TypeInv
    <2>2. /\ UNCHANGED <<queue, begun>>
          /\ released' = released \cup {s}
          /\ \A t \in Sets \ {s} : future'[t] = future[t]
      BY <1>7 DEF ScheduleRejected, TypeInv
    <2>. QED
      BY <2>1, <2>2, <2>3 DEF QueueOK
  <1>8. ASSUME NEW s \in Sets, Cancel(s)
         PROVE  QueueOK'
    BY <1>8
       DEF Cancel, CancelReleases, CancelledFuture, db, input, outcome,
          process, thread, TypeInv, QueueOK, RowsAndTasks
  <1>9. ASSUME NEW w \in Workers, Take(w)
         PROVE  QueueOK'
    <2>1. /\ DOMAIN queue = 1 .. Len(queue)
          /\ DOMAIN queue' = 1 .. Len(queue) - 1
          /\ Len(queue) \in Nat
          /\ \A i \in 1 .. Len(queue) - 1 : queue'[i] = queue[i + 1]
      BY <1>9, HeadTailProperties, LenProperties DEF Take, TypeInv
    <2>2. UNCHANGED <<future, begun, released>>
      BY <1>9 DEF Take, task
    <2>. QED
      BY <2>1, <2>2 DEF QueueOK
  <1>11. ASSUME NEW w \in Workers, Run(w)
         PROVE  QueueOK'
    BY <1>11
       DEF Run, At, Move, db, input, outcome, process, task, TypeInv, QueueOK
  <1>12. ASSUME NEW w \in Workers, Begin(w)
         PROVE  QueueOK'
    BY <1>12
       DEF Begin, At, Move, db, input, outcome, process, TypeInv, QueueOK,
          ThreadOK, Busy, Working
  <1>13. ASSUME NEW w \in Workers, MarkStarted(w)
         PROVE  QueueOK'
    BY <1>13
       DEF MarkStarted, At, Move, Generating, input, outcome, process, task,
          TypeInv, QueueOK
  <1>14. ASSUME NEW w \in Workers, DatabaseFails(w)
         PROVE  QueueOK'
    BY <1>14
       DEF DatabaseFails, Move, db, input, outcome, process, task, TypeInv,
          QueueOK
  <1>15. ASSUME NEW w \in Workers, CommitUnacknowledged(w)
         PROVE  QueueOK'
    BY <1>15
       DEF CommitUnacknowledged, Settle, At, Move, Generating, input, outcome,
          process, task, TypeInv, QueueOK
  <1>16. ASSUME NEW w \in Workers, Complete(w)
         PROVE  QueueOK'
    BY <1>16
       DEF Complete, Settle, At, Move, Generating, input, outcome, process,
          task, TypeInv, QueueOK
  <1>17. ASSUME NEW w \in Workers, Fail(w)
         PROVE  QueueOK'
    BY <1>17
       DEF Fail, Settle, At, Move, Generating, input, outcome, process, task,
          TypeInv, QueueOK
  <1>18. ASSUME NEW w \in Workers, FailSwallowed(w)
         PROVE  QueueOK'
    BY <1>18
       DEF FailSwallowed, Move, Generating, db, input, outcome, process, task,
          TypeInv, QueueOK
  <1>19. ASSUME NEW w \in Workers, Finish(w)
         PROVE  QueueOK'
    BY <1>19
       DEF Finish, FinishReleases, Drop, At, db, input, outcome, process,
          TypeInv, QueueOK, ThreadOK, Busy, Working
  <1>20. ASSUME NEW w \in Workers, Return(w)
         PROVE  QueueOK'
    BY <1>20
       DEF Return, At, Move, db, input, outcome, process, task, TypeInv,
          QueueOK
  <1>21. ASSUME NEW w \in Workers, ModelFails(w)
         PROVE  QueueOK'
    BY <1>21
       DEF ModelFails, Move, db, input, outcome, process, task, TypeInv,
          QueueOK
  <1>22. ASSUME NEW w \in Workers, ModelSuffices(w)
         PROVE  QueueOK'
    BY <1>22
       DEF ModelSuffices, Move, db, input, outcome, process, task, TypeInv,
          QueueOK
  <1>23. ASSUME NEW w \in Workers, NEW b \in BOOLEAN, FirstFallsShort(w, b)
         PROVE  QueueOK'
    BY <1>23
       DEF FirstFallsShort, At, db, input, outcome, process, task, TypeInv,
          QueueOK
  <1>24. ASSUME NEW w \in Workers, NEW b \in BOOLEAN, SecondFallsShort(w, b)
         PROVE  QueueOK'
    BY <1>24
       DEF SecondFallsShort, Move, At, db, input, outcome, process, task,
          TypeInv, QueueOK
  <1>25. ASSUME NEW S \in SUBSET Sets, FailStale(S)
         PROVE  QueueOK'
    BY <1>25
       DEF FailStale, FailAll, FailRows, Started, Generating, input, process,
          task, thread, TypeInv, QueueOK
  <1>26. CASE RecoverAtStartup
    BY <1>26
       DEF RecoverAtStartup, FailAll, FailRows, Interrupted, Generating,
          input, task, thread, TypeInv, QueueOK
  <1>27. CASE Restart
    BY <1>27
       DEF Restart, db, input, outcome, TypeInv, QueueOK
  <1>28. CASE UNCHANGED vars
    BY <1>28
       DEF vars, TypeInv, QueueOK
  <1>. QED
    BY <1>1, <1>2, <1>3, <1>4, <1>5, <1>6, <1>7, <1>8, <1>9, <1>11,
       <1>12, <1>13, <1>14, <1>15, <1>16, <1>17, <1>18, <1>19, <1>20, <1>21,
       <1>22, <1>23, <1>24, <1>25, <1>26, <1>27, <1>28
       DEF Next, Requests, Listener, ThreadStep, ModelStep

(* Threads keep their tasks to themselves. *)
LEMMA ThreadsStep ==
  ASSUME TypeInv, RowsAndTasks, QueueOK, \A w \in Workers : ThreadOK(w), [Next]_vars
  PROVE  \A w \in Workers : ThreadOK(w)'
  <1>1. ASSUME NEW s \in Sets, Reserve(s)
         PROVE  \A v \in Workers : ThreadOK(v)'
    BY <1>1
       DEF Reserve, db, input, outcome, process, task, thread, TypeInv,
          ThreadOK, Busy, Working
  <1>2. ASSUME NEW s \in Sets, Refuse(s)
         PROVE  \A v \in Workers : ThreadOK(v)'
    BY <1>2
       DEF Refuse, db, input, outcome, process, task, thread, TypeInv,
          ThreadOK, Busy, Working
  <1>3. ASSUME NEW s \in Sets, NEW m \in Materials, Accept(s, m)
         PROVE  \A v \in Workers : ThreadOK(v)'
    BY <1>3
       DEF Accept, InsertRow, process, task, thread, TypeInv, ThreadOK, Busy,
          Working
  <1>4. ASSUME NEW s \in Sets, NEW m \in Materials, AcceptUnacknowledged(s, m)
         PROVE  \A v \in Workers : ThreadOK(v)'
    BY <1>4
       DEF AcceptUnacknowledged, InsertRow, process, task, thread, TypeInv,
          ThreadOK, Busy, Working
  <1>5. ASSUME NEW m \in Materials, NEW c \in Contents, UpdateContent(m, c)
         PROVE  \A v \in Workers : ThreadOK(v)'
    BY <1>5
       DEF UpdateContent, input, outcome, process, task, thread, TypeInv,
          ThreadOK, Busy, Working
  <1>6. ASSUME NEW s \in Sets, Schedule(s)
         PROVE  \A v \in Workers : ThreadOK(v)'
    <2>1. /\ future[s] = "none"
          /\ s \notin begun \cup released
      BY <1>6 DEF Schedule, RowsAndTasks
    <2>2. \A v \in Workers : job[v] # s
      BY <2>1 DEF ThreadOK
    <2>3. /\ \A t \in Sets \ {s} : future'[t] = future[t]
          /\ future'[s] = "new"
          /\ UNCHANGED <<begun, released>>
      BY <1>6 DEF Schedule, TypeInv
    <2>4. CASE \E w \in Workers : place[w] = "unborn" /\ Give(w, s) /\ UNCHANGED queue
      <3>1. PICK w \in Workers : place[w] = "unborn" /\ Give(w, s) /\ UNCHANGED queue
        BY <2>4
      <3>2. /\ place'[w] = "taken" /\ job'[w] = s
            /\ \A v \in Workers \ {w} : place'[v] = place[v] /\ job'[v] = job[v]
        BY <3>1 DEF Give, TypeInv
      <3>3. \A i \in DOMAIN queue : queue[i] # s
        BY <2>1 DEF QueueOK
      <3>. QED
        BY <2>1, <2>2, <2>3, <3>1, <3>2, <3>3 DEF ThreadOK, Busy, Working
    <2>5. CASE queue' = Append(queue, s) /\ UNCHANGED thread
      <3>1. \A i \in DOMAIN queue' : queue'[i] = s \/ \E j \in DOMAIN queue : queue'[i] = queue[j]
        BY <2>5, AppendProperties, LenProperties DEF TypeInv
      <3>2. UNCHANGED <<place, job>>
        BY <2>5 DEF thread
      <3>. QED
        BY <2>1, <2>2, <2>3, <3>1, <3>2 DEF ThreadOK
    <2>. QED
      BY <2>4, <2>5, <1>6 DEF Schedule
  <1>7. ASSUME NEW s \in Sets, ScheduleRejected(s)
         PROVE  \A v \in Workers : ThreadOK(v)'
    BY <1>7
       DEF ScheduleRejected, db, input, outcome, process, thread, TypeInv,
          ThreadOK, Busy, Working, RowsAndTasks
  <1>8. ASSUME NEW s \in Sets, Cancel(s)
         PROVE  \A v \in Workers : ThreadOK(v)'
    BY <1>8
       DEF Cancel, CancelReleases, CancelledFuture, db, input, outcome,
          process, thread, TypeInv, ThreadOK, Busy, Working, RowsAndTasks
  <1>9. ASSUME NEW w \in Workers, Take(w)
         PROVE  \A v \in Workers : ThreadOK(v)'
    <2> DEFINE s == Head(queue)
    <2>1. /\ s \in Sets
          /\ s = queue[1] /\ 1 \in DOMAIN queue
          /\ \A i \in DOMAIN queue' : i + 1 \in DOMAIN queue /\ queue'[i] = queue[i + 1]
          /\ \A i \in DOMAIN queue' : i + 1 # 1
      BY <1>9, HeadTailProperties, LenProperties DEF Take, TypeInv
    <2>2. /\ future[s] = "new"
          /\ s \notin begun \cup released
          /\ \A i \in DOMAIN queue' : queue'[i] # s
      BY <2>1 DEF QueueOK
    <2>3. \A v \in Workers : job[v] # s
      BY <2>1, <2>2 DEF ThreadOK
    <2>4. UNCHANGED <<future, begun, released>>
      BY <1>9 DEF Take, task
    <2>5. /\ place[w] = "idle"
          /\ place'[w] = "taken" /\ job'[w] = s
          /\ \A v \in Workers \ {w} : place'[v] = place[v] /\ job'[v] = job[v]
      BY <1>9 DEF Take, At, Give, TypeInv
    <2> HIDE DEF s
    <2>. QED
      BY <2>1, <2>2, <2>3, <2>4, <2>5 DEF ThreadOK, Busy, Working
  <1>11. ASSUME NEW w \in Workers, Run(w)
         PROVE  \A v \in Workers : ThreadOK(v)'
    BY <1>11
       DEF Run, At, Move, db, input, outcome, process, task, TypeInv,
          ThreadOK, Busy, Working
  <1>12. ASSUME NEW w \in Workers, Begin(w)
         PROVE  \A v \in Workers : ThreadOK(v)'
    BY <1>12
       DEF Begin, At, Move, db, input, outcome, process, TypeInv, ThreadOK,
          Busy, Working
  <1>13. ASSUME NEW w \in Workers, MarkStarted(w)
         PROVE  \A v \in Workers : ThreadOK(v)'
    BY <1>13
       DEF MarkStarted, At, Move, Generating, input, outcome, process, task,
          TypeInv, ThreadOK, Busy, Working
  <1>14. ASSUME NEW w \in Workers, DatabaseFails(w)
         PROVE  \A v \in Workers : ThreadOK(v)'
    BY <1>14
       DEF DatabaseFails, Move, db, input, outcome, process, task, TypeInv,
          ThreadOK, Busy, Working
  <1>15. ASSUME NEW w \in Workers, CommitUnacknowledged(w)
         PROVE  \A v \in Workers : ThreadOK(v)'
    BY <1>15
       DEF CommitUnacknowledged, Settle, At, Move, Generating, input, outcome,
          process, task, TypeInv, ThreadOK, Busy, Working
  <1>16. ASSUME NEW w \in Workers, Complete(w)
         PROVE  \A v \in Workers : ThreadOK(v)'
    BY <1>16
       DEF Complete, Settle, At, Move, Generating, input, outcome, process,
          task, TypeInv, ThreadOK, Busy, Working
  <1>17. ASSUME NEW w \in Workers, Fail(w)
         PROVE  \A v \in Workers : ThreadOK(v)'
    BY <1>17
       DEF Fail, Settle, At, Move, Generating, input, outcome, process, task,
          TypeInv, ThreadOK, Busy, Working
  <1>18. ASSUME NEW w \in Workers, FailSwallowed(w)
         PROVE  \A v \in Workers : ThreadOK(v)'
    BY <1>18
       DEF FailSwallowed, Move, Generating, db, input, outcome, process, task,
          TypeInv, ThreadOK, Busy, Working
  <1>19. ASSUME NEW w \in Workers, Finish(w)
         PROVE  \A v \in Workers : ThreadOK(v)'
    BY <1>19
       DEF Finish, FinishReleases, Drop, At, db, input, outcome, process,
          TypeInv, ThreadOK, Busy, Working
  <1>20. ASSUME NEW w \in Workers, Return(w)
         PROVE  \A v \in Workers : ThreadOK(v)'
    BY <1>20
       DEF Return, At, Move, db, input, outcome, process, task, TypeInv,
          ThreadOK, Busy, Working
  <1>21. ASSUME NEW w \in Workers, ModelFails(w)
         PROVE  \A v \in Workers : ThreadOK(v)'
    BY <1>21
       DEF ModelFails, Move, db, input, outcome, process, task, TypeInv,
          ThreadOK, Busy, Working
  <1>22. ASSUME NEW w \in Workers, ModelSuffices(w)
         PROVE  \A v \in Workers : ThreadOK(v)'
    BY <1>22
       DEF ModelSuffices, Move, db, input, outcome, process, task, TypeInv,
          ThreadOK, Busy, Working
  <1>23. ASSUME NEW w \in Workers, NEW b \in BOOLEAN, FirstFallsShort(w, b)
         PROVE  \A v \in Workers : ThreadOK(v)'
    BY <1>23
       DEF FirstFallsShort, At, db, input, outcome, process, task, TypeInv,
          ThreadOK, Busy, Working
  <1>24. ASSUME NEW w \in Workers, NEW b \in BOOLEAN, SecondFallsShort(w, b)
         PROVE  \A v \in Workers : ThreadOK(v)'
    BY <1>24
       DEF SecondFallsShort, Move, At, db, input, outcome, process, task,
          TypeInv, ThreadOK, Busy, Working
  <1>25. ASSUME NEW S \in SUBSET Sets, FailStale(S)
         PROVE  \A v \in Workers : ThreadOK(v)'
    BY <1>25
       DEF FailStale, FailAll, FailRows, Started, Generating, input, process,
          task, thread, TypeInv, ThreadOK, Busy, Working
  <1>26. CASE RecoverAtStartup
    BY <1>26
       DEF RecoverAtStartup, FailAll, FailRows, Interrupted, Generating,
          input, task, thread, TypeInv, ThreadOK, Busy, Working
  <1>27. CASE Restart
    BY <1>27
       DEF Restart, db, input, outcome, TypeInv, ThreadOK, Busy, Working
  <1>28. CASE UNCHANGED vars
    BY <1>28
       DEF vars, TypeInv, ThreadOK, Busy, Working
  <1>. QED
    BY <1>1, <1>2, <1>3, <1>4, <1>5, <1>6, <1>7, <1>8, <1>9, <1>11,
       <1>12, <1>13, <1>14, <1>15, <1>16, <1>17, <1>18, <1>19, <1>20, <1>21,
       <1>22, <1>23, <1>24, <1>25, <1>26, <1>27, <1>28
       DEF Next, Requests, Listener, ThreadStep, ModelStep

(* Only tasks that have begun are cancelled. *)
LEMMA CancelledStep ==
  ASSUME TypeInv, RowsAndTasks, QueueOK, \A w \in Workers : ThreadOK(w),
         OnlyBegunCancelled, [Next]_vars
  PROVE  OnlyBegunCancelled'
  <1>1. ASSUME NEW s \in Sets, Reserve(s)
         PROVE  OnlyBegunCancelled'
    BY <1>1
       DEF Reserve, db, input, outcome, process, task, thread, TypeInv,
          OnlyBegunCancelled
  <1>2. ASSUME NEW s \in Sets, Refuse(s)
         PROVE  OnlyBegunCancelled'
    BY <1>2
       DEF Refuse, db, input, outcome, process, task, thread, TypeInv,
          OnlyBegunCancelled
  <1>3. ASSUME NEW s \in Sets, NEW m \in Materials, Accept(s, m)
         PROVE  OnlyBegunCancelled'
    BY <1>3
       DEF Accept, InsertRow, process, task, thread, TypeInv,
          OnlyBegunCancelled
  <1>4. ASSUME NEW s \in Sets, NEW m \in Materials, AcceptUnacknowledged(s, m)
         PROVE  OnlyBegunCancelled'
    BY <1>4
       DEF AcceptUnacknowledged, InsertRow, process, task, thread, TypeInv,
          OnlyBegunCancelled
  <1>5. ASSUME NEW m \in Materials, NEW c \in Contents, UpdateContent(m, c)
         PROVE  OnlyBegunCancelled'
    BY <1>5
       DEF UpdateContent, input, outcome, process, task, thread, TypeInv,
          OnlyBegunCancelled
  <1>6. ASSUME NEW s \in Sets, Schedule(s)
         PROVE  OnlyBegunCancelled'
    BY <1>6
       DEF Schedule, Give, db, input, outcome, process, thread, TypeInv,
          OnlyBegunCancelled
  <1>7. ASSUME NEW s \in Sets, ScheduleRejected(s)
         PROVE  OnlyBegunCancelled'
    BY <1>7
       DEF ScheduleRejected, db, input, outcome, process, thread, TypeInv,
          OnlyBegunCancelled
  <1>8. ASSUME NEW s \in Sets, Cancel(s)
         PROVE  OnlyBegunCancelled'
    BY <1>8
       DEF Cancel, CancelReleases, CancelledFuture, db, input, outcome,
          process, thread, TypeInv, OnlyBegunCancelled, RowsAndTasks
  <1>9. ASSUME NEW w \in Workers, Take(w)
         PROVE  OnlyBegunCancelled'
    BY <1>9
       DEF Take, Give, At, db, input, outcome, process, task, TypeInv,
          OnlyBegunCancelled
  <1>11. ASSUME NEW w \in Workers, Run(w)
         PROVE  OnlyBegunCancelled'
    BY <1>11
       DEF Run, At, Move, db, input, outcome, process, task, TypeInv,
          OnlyBegunCancelled
  <1>12. ASSUME NEW w \in Workers, Begin(w)
         PROVE  OnlyBegunCancelled'
    BY <1>12
       DEF Begin, At, Move, db, input, outcome, process, TypeInv,
          OnlyBegunCancelled
  <1>13. ASSUME NEW w \in Workers, MarkStarted(w)
         PROVE  OnlyBegunCancelled'
    BY <1>13
       DEF MarkStarted, At, Move, Generating, input, outcome, process, task,
          TypeInv, OnlyBegunCancelled
  <1>14. ASSUME NEW w \in Workers, DatabaseFails(w)
         PROVE  OnlyBegunCancelled'
    BY <1>14
       DEF DatabaseFails, Move, db, input, outcome, process, task, TypeInv,
          OnlyBegunCancelled
  <1>15. ASSUME NEW w \in Workers, CommitUnacknowledged(w)
         PROVE  OnlyBegunCancelled'
    BY <1>15
       DEF CommitUnacknowledged, Settle, At, Move, Generating, input, outcome,
          process, task, TypeInv, OnlyBegunCancelled
  <1>16. ASSUME NEW w \in Workers, Complete(w)
         PROVE  OnlyBegunCancelled'
    BY <1>16
       DEF Complete, Settle, At, Move, Generating, input, outcome, process,
          task, TypeInv, OnlyBegunCancelled
  <1>17. ASSUME NEW w \in Workers, Fail(w)
         PROVE  OnlyBegunCancelled'
    BY <1>17
       DEF Fail, Settle, At, Move, Generating, input, outcome, process, task,
          TypeInv, OnlyBegunCancelled
  <1>18. ASSUME NEW w \in Workers, FailSwallowed(w)
         PROVE  OnlyBegunCancelled'
    BY <1>18
       DEF FailSwallowed, Move, Generating, db, input, outcome, process, task,
          TypeInv, OnlyBegunCancelled
  <1>19. ASSUME NEW w \in Workers, Finish(w)
         PROVE  OnlyBegunCancelled'
    BY <1>19
       DEF Finish, FinishReleases, Drop, At, db, input, outcome, process,
          TypeInv, OnlyBegunCancelled
  <1>20. ASSUME NEW w \in Workers, Return(w)
         PROVE  OnlyBegunCancelled'
    BY <1>20
       DEF Return, At, Move, db, input, outcome, process, task, TypeInv,
          OnlyBegunCancelled
  <1>21. ASSUME NEW w \in Workers, ModelFails(w)
         PROVE  OnlyBegunCancelled'
    BY <1>21
       DEF ModelFails, Move, db, input, outcome, process, task, TypeInv,
          OnlyBegunCancelled
  <1>22. ASSUME NEW w \in Workers, ModelSuffices(w)
         PROVE  OnlyBegunCancelled'
    BY <1>22
       DEF ModelSuffices, Move, db, input, outcome, process, task, TypeInv,
          OnlyBegunCancelled
  <1>23. ASSUME NEW w \in Workers, NEW b \in BOOLEAN, FirstFallsShort(w, b)
         PROVE  OnlyBegunCancelled'
    BY <1>23
       DEF FirstFallsShort, At, db, input, outcome, process, task, TypeInv,
          OnlyBegunCancelled
  <1>24. ASSUME NEW w \in Workers, NEW b \in BOOLEAN, SecondFallsShort(w, b)
         PROVE  OnlyBegunCancelled'
    BY <1>24
       DEF SecondFallsShort, Move, At, db, input, outcome, process, task,
          TypeInv, OnlyBegunCancelled
  <1>25. ASSUME NEW S \in SUBSET Sets, FailStale(S)
         PROVE  OnlyBegunCancelled'
    BY <1>25
       DEF FailStale, FailAll, FailRows, Started, Generating, input, process,
          task, thread, TypeInv, OnlyBegunCancelled
  <1>26. CASE RecoverAtStartup
    BY <1>26
       DEF RecoverAtStartup, FailAll, FailRows, Interrupted, Generating,
          input, task, thread, TypeInv, OnlyBegunCancelled
  <1>27. CASE Restart
    BY <1>27
       DEF Restart, db, input, outcome, TypeInv, OnlyBegunCancelled
  <1>28. CASE UNCHANGED vars
    BY <1>28
       DEF vars, TypeInv, OnlyBegunCancelled
  <1>. QED
    BY <1>1, <1>2, <1>3, <1>4, <1>5, <1>6, <1>7, <1>8, <1>9, <1>11,
       <1>12, <1>13, <1>14, <1>15, <1>16, <1>17, <1>18, <1>19, <1>20, <1>21,
       <1>22, <1>23, <1>24, <1>25, <1>26, <1>27, <1>28
       DEF Next, Requests, Listener, ThreadStep, ModelStep

(* The body of a material outlives the generations that use it. *)
LEMMA ContentStep ==
  ASSUME TypeInv, RowsAndTasks, QueueOK, \A w \in Workers : ThreadOK(w),
         ContentFrozen, [Next]_vars
  PROVE  ContentFrozen'
  <1>1. ASSUME NEW s \in Sets, Reserve(s)
         PROVE  ContentFrozen'
    BY <1>1
       DEF Reserve, db, input, outcome, process, task, thread, TypeInv,
          ContentFrozen, Generating
  <1>2. ASSUME NEW s \in Sets, Refuse(s)
         PROVE  ContentFrozen'
    BY <1>2
       DEF Refuse, db, input, outcome, process, task, thread, TypeInv,
          ContentFrozen, Generating
  <1>3. ASSUME NEW s \in Sets, NEW m \in Materials, Accept(s, m)
         PROVE  ContentFrozen'
    BY <1>3
       DEF Accept, InsertRow, process, task, thread, TypeInv, ContentFrozen,
          Generating
  <1>4. ASSUME NEW s \in Sets, NEW m \in Materials, AcceptUnacknowledged(s, m)
         PROVE  ContentFrozen'
    BY <1>4
       DEF AcceptUnacknowledged, InsertRow, process, task, thread, TypeInv,
          ContentFrozen, Generating
  <1>5. ASSUME NEW m \in Materials, NEW c \in Contents, UpdateContent(m, c)
         PROVE  ContentFrozen'
    BY <1>5
       DEF UpdateContent, input, outcome, process, task, thread, TypeInv,
          ContentFrozen, Generating, ActiveOn
  <1>6. ASSUME NEW s \in Sets, Schedule(s)
         PROVE  ContentFrozen'
    BY <1>6
       DEF Schedule, Give, db, input, outcome, process, thread, TypeInv,
          ContentFrozen, Generating
  <1>7. ASSUME NEW s \in Sets, ScheduleRejected(s)
         PROVE  ContentFrozen'
    BY <1>7
       DEF ScheduleRejected, db, input, outcome, process, thread, TypeInv,
          ContentFrozen, Generating
  <1>8. ASSUME NEW s \in Sets, Cancel(s)
         PROVE  ContentFrozen'
    BY <1>8
       DEF Cancel, CancelReleases, CancelledFuture, db, input, outcome,
          process, thread, TypeInv, ContentFrozen, Generating
  <1>9. ASSUME NEW w \in Workers, Take(w)
         PROVE  ContentFrozen'
    BY <1>9
       DEF Take, Give, At, db, input, outcome, process, task, TypeInv,
          ContentFrozen, Generating
  <1>11. ASSUME NEW w \in Workers, Run(w)
         PROVE  ContentFrozen'
    BY <1>11
       DEF Run, At, Move, db, input, outcome, process, task, TypeInv,
          ContentFrozen, Generating
  <1>12. ASSUME NEW w \in Workers, Begin(w)
         PROVE  ContentFrozen'
    BY <1>12
       DEF Begin, At, Move, db, input, outcome, process, TypeInv,
          ContentFrozen, Generating
  <1>13. ASSUME NEW w \in Workers, MarkStarted(w)
         PROVE  ContentFrozen'
    BY <1>13
       DEF MarkStarted, At, Move, Generating, input, outcome, process, task,
          TypeInv, ContentFrozen
  <1>14. ASSUME NEW w \in Workers, DatabaseFails(w)
         PROVE  ContentFrozen'
    BY <1>14
       DEF DatabaseFails, Move, db, input, outcome, process, task, TypeInv,
          ContentFrozen, Generating
  <1>15. ASSUME NEW w \in Workers, CommitUnacknowledged(w)
         PROVE  ContentFrozen'
    <2>1. job[w] \in Sets
      BY <1>15, BusyJob DEF CommitUnacknowledged, At, Busy, Working
    <2>. QED
      BY <2>1, <1>15
         DEF CommitUnacknowledged, Settle, At, Move, Generating, input,
            outcome, process, task, TypeInv, ContentFrozen, Generating
  <1>16. ASSUME NEW w \in Workers, Complete(w)
         PROVE  ContentFrozen'
    <2>1. job[w] \in Sets
      BY <1>16, BusyJob DEF Complete, At, Busy, Working
    <2>. QED
      BY <2>1, <1>16
         DEF Complete, Settle, At, Move, Generating, input, outcome, process,
            task, TypeInv, ContentFrozen, Generating
  <1>17. ASSUME NEW w \in Workers, Fail(w)
         PROVE  ContentFrozen'
    <2>1. job[w] \in Sets
      BY <1>17, BusyJob DEF Fail, At, Busy, Working
    <2>. QED
      BY <2>1, <1>17
         DEF Fail, Settle, At, Move, Generating, input, outcome, process,
            task, TypeInv, ContentFrozen, Generating
  <1>18. ASSUME NEW w \in Workers, FailSwallowed(w)
         PROVE  ContentFrozen'
    BY <1>18
       DEF FailSwallowed, Move, Generating, db, input, outcome, process, task,
          TypeInv, ContentFrozen
  <1>19. ASSUME NEW w \in Workers, Finish(w)
         PROVE  ContentFrozen'
    BY <1>19
       DEF Finish, FinishReleases, Drop, At, db, input, outcome, process,
          TypeInv, ContentFrozen, Generating
  <1>20. ASSUME NEW w \in Workers, Return(w)
         PROVE  ContentFrozen'
    BY <1>20
       DEF Return, At, Move, db, input, outcome, process, task, TypeInv,
          ContentFrozen, Generating
  <1>21. ASSUME NEW w \in Workers, ModelFails(w)
         PROVE  ContentFrozen'
    BY <1>21
       DEF ModelFails, Move, db, input, outcome, process, task, TypeInv,
          ContentFrozen, Generating
  <1>22. ASSUME NEW w \in Workers, ModelSuffices(w)
         PROVE  ContentFrozen'
    BY <1>22
       DEF ModelSuffices, Move, db, input, outcome, process, task, TypeInv,
          ContentFrozen, Generating
  <1>23. ASSUME NEW w \in Workers, NEW b \in BOOLEAN, FirstFallsShort(w, b)
         PROVE  ContentFrozen'
    BY <1>23
       DEF FirstFallsShort, At, db, input, outcome, process, task, TypeInv,
          ContentFrozen, Generating
  <1>24. ASSUME NEW w \in Workers, NEW b \in BOOLEAN, SecondFallsShort(w, b)
         PROVE  ContentFrozen'
    BY <1>24
       DEF SecondFallsShort, Move, At, db, input, outcome, process, task,
          TypeInv, ContentFrozen, Generating
  <1>25. ASSUME NEW S \in SUBSET Sets, FailStale(S)
         PROVE  ContentFrozen'
    BY <1>25
       DEF FailStale, FailAll, FailRows, Started, Generating, input, process,
          task, thread, TypeInv, ContentFrozen
  <1>26. CASE RecoverAtStartup
    BY <1>26
       DEF RecoverAtStartup, FailAll, FailRows, Interrupted, Generating,
          input, task, thread, TypeInv, ContentFrozen
  <1>27. CASE Restart
    BY <1>27
       DEF Restart, db, input, outcome, TypeInv, ContentFrozen, Generating
  <1>28. CASE UNCHANGED vars
    BY <1>28
       DEF vars, TypeInv, ContentFrozen, Generating
  <1>. QED
    BY <1>1, <1>2, <1>3, <1>4, <1>5, <1>6, <1>7, <1>8, <1>9, <1>11,
       <1>12, <1>13, <1>14, <1>15, <1>16, <1>17, <1>18, <1>19, <1>20, <1>21,
       <1>22, <1>23, <1>24, <1>25, <1>26, <1>27, <1>28
       DEF Next, Requests, Listener, ThreadStep, ModelStep

(* A row is settled and reported in one step. *)
LEMMA ToldStep ==
  ASSUME TypeInv, RowsAndTasks, QueueOK, \A w \in Workers : ThreadOK(w),
         ToldOnce, [Next]_vars
  PROVE  ToldOnce'
  <1>1. ASSUME NEW s \in Sets, Reserve(s)
         PROVE  ToldOnce'
    BY <1>1
       DEF Reserve, db, input, outcome, process, task, thread, TypeInv,
          ToldOnce, Generating, Terminal
  <1>2. ASSUME NEW s \in Sets, Refuse(s)
         PROVE  ToldOnce'
    BY <1>2
       DEF Refuse, db, input, outcome, process, task, thread, TypeInv,
          ToldOnce, Generating, Terminal
  <1>3. ASSUME NEW s \in Sets, NEW m \in Materials, Accept(s, m)
         PROVE  ToldOnce'
    BY <1>3
       DEF Accept, InsertRow, process, task, thread, TypeInv, ToldOnce,
          Generating, Terminal, RowsAndTasks
  <1>4. ASSUME NEW s \in Sets, NEW m \in Materials, AcceptUnacknowledged(s, m)
         PROVE  ToldOnce'
    BY <1>4
       DEF AcceptUnacknowledged, InsertRow, process, task, thread, TypeInv,
          ToldOnce, Generating, Terminal, RowsAndTasks
  <1>5. ASSUME NEW m \in Materials, NEW c \in Contents, UpdateContent(m, c)
         PROVE  ToldOnce'
    BY <1>5
       DEF UpdateContent, input, outcome, process, task, thread, TypeInv,
          ToldOnce, Generating, Terminal
  <1>6. ASSUME NEW s \in Sets, Schedule(s)
         PROVE  ToldOnce'
    BY <1>6
       DEF Schedule, Give, db, input, outcome, process, thread, TypeInv,
          ToldOnce, Generating, Terminal
  <1>7. ASSUME NEW s \in Sets, ScheduleRejected(s)
         PROVE  ToldOnce'
    BY <1>7
       DEF ScheduleRejected, db, input, outcome, process, thread, TypeInv,
          ToldOnce, Generating, Terminal
  <1>8. ASSUME NEW s \in Sets, Cancel(s)
         PROVE  ToldOnce'
    BY <1>8
       DEF Cancel, CancelReleases, CancelledFuture, db, input, outcome,
          process, thread, TypeInv, ToldOnce, Generating, Terminal
  <1>9. ASSUME NEW w \in Workers, Take(w)
         PROVE  ToldOnce'
    BY <1>9
       DEF Take, Give, At, db, input, outcome, process, task, TypeInv,
          ToldOnce, Generating, Terminal
  <1>11. ASSUME NEW w \in Workers, Run(w)
         PROVE  ToldOnce'
    BY <1>11
       DEF Run, At, Move, db, input, outcome, process, task, TypeInv,
          ToldOnce, Generating, Terminal
  <1>12. ASSUME NEW w \in Workers, Begin(w)
         PROVE  ToldOnce'
    BY <1>12
       DEF Begin, At, Move, db, input, outcome, process, TypeInv, ToldOnce,
          Generating, Terminal
  <1>13. ASSUME NEW w \in Workers, MarkStarted(w)
         PROVE  ToldOnce'
    BY <1>13
       DEF MarkStarted, At, Move, Generating, input, outcome, process, task,
          TypeInv, ToldOnce, Terminal
  <1>14. ASSUME NEW w \in Workers, DatabaseFails(w)
         PROVE  ToldOnce'
    BY <1>14
       DEF DatabaseFails, Move, db, input, outcome, process, task, TypeInv,
          ToldOnce, Generating, Terminal
  <1>15. ASSUME NEW w \in Workers, CommitUnacknowledged(w)
         PROVE  ToldOnce'
    <2>1. job[w] \in Sets
      BY <1>15, BusyJob DEF CommitUnacknowledged, At, Busy, Working
    <2>. QED
      BY <2>1, <1>15
         DEF CommitUnacknowledged, Settle, At, Move, Generating, input,
            outcome, process, task, TypeInv, ToldOnce, Generating, Terminal
  <1>16. ASSUME NEW w \in Workers, Complete(w)
         PROVE  ToldOnce'
    <2>1. job[w] \in Sets
      BY <1>16, BusyJob DEF Complete, At, Busy, Working
    <2>2. CASE Generating(job[w])
      <3>1. /\ status' = [status EXCEPT ![job[w]] = "READY"]
            /\ notifications' = [notifications EXCEPT ![job[w]] = @ + 1]
        BY <2>2, <1>16 DEF Complete, Settle
      <3>. QED
        BY <2>1, <2>2, <3>1 DEF TypeInv, ToldOnce, Generating, Terminal
    <2>3. CASE ~Generating(job[w])
      BY <2>3, <1>16 DEF Complete, Settle, outcome, ToldOnce
    <2>. QED
      BY <2>2, <2>3
  <1>17. ASSUME NEW w \in Workers, Fail(w)
         PROVE  ToldOnce'
    <2>1. job[w] \in Sets
      BY <1>17, BusyJob DEF Fail, At, Busy, Working
    <2>. QED
      BY <2>1, <1>17
         DEF Fail, Settle, At, Move, Generating, input, outcome, process,
            task, TypeInv, ToldOnce, Generating, Terminal
  <1>18. ASSUME NEW w \in Workers, FailSwallowed(w)
         PROVE  ToldOnce'
    BY <1>18
       DEF FailSwallowed, Move, Generating, db, input, outcome, process, task,
          TypeInv, ToldOnce, Terminal
  <1>19. ASSUME NEW w \in Workers, Finish(w)
         PROVE  ToldOnce'
    BY <1>19
       DEF Finish, FinishReleases, Drop, At, db, input, outcome, process,
          TypeInv, ToldOnce, Generating, Terminal
  <1>20. ASSUME NEW w \in Workers, Return(w)
         PROVE  ToldOnce'
    BY <1>20
       DEF Return, At, Move, db, input, outcome, process, task, TypeInv,
          ToldOnce, Generating, Terminal
  <1>21. ASSUME NEW w \in Workers, ModelFails(w)
         PROVE  ToldOnce'
    BY <1>21
       DEF ModelFails, Move, db, input, outcome, process, task, TypeInv,
          ToldOnce, Generating, Terminal
  <1>22. ASSUME NEW w \in Workers, ModelSuffices(w)
         PROVE  ToldOnce'
    BY <1>22
       DEF ModelSuffices, Move, db, input, outcome, process, task, TypeInv,
          ToldOnce, Generating, Terminal
  <1>23. ASSUME NEW w \in Workers, NEW b \in BOOLEAN, FirstFallsShort(w, b)
         PROVE  ToldOnce'
    BY <1>23
       DEF FirstFallsShort, At, db, input, outcome, process, task, TypeInv,
          ToldOnce, Generating, Terminal
  <1>24. ASSUME NEW w \in Workers, NEW b \in BOOLEAN, SecondFallsShort(w, b)
         PROVE  ToldOnce'
    BY <1>24
       DEF SecondFallsShort, Move, At, db, input, outcome, process, task,
          TypeInv, ToldOnce, Generating, Terminal
  <1>25. ASSUME NEW S \in SUBSET Sets, FailStale(S)
         PROVE  ToldOnce'
    BY <1>25
       DEF FailStale, FailAll, FailRows, Started, Generating, input, process,
          task, thread, TypeInv, ToldOnce, Terminal
  <1>26. CASE RecoverAtStartup
    BY <1>26
       DEF RecoverAtStartup, FailAll, FailRows, Interrupted, Generating,
          input, task, thread, TypeInv, ToldOnce, Terminal
  <1>27. CASE Restart
    BY <1>27
       DEF Restart, db, input, outcome, TypeInv, ToldOnce, Generating,
          Terminal
  <1>28. CASE UNCHANGED vars
    BY <1>28
       DEF vars, TypeInv, ToldOnce, Generating, Terminal
  <1>. QED
    BY <1>1, <1>2, <1>3, <1>4, <1>5, <1>6, <1>7, <1>8, <1>9, <1>11,
       <1>12, <1>13, <1>14, <1>15, <1>16, <1>17, <1>18, <1>19, <1>20, <1>21,
       <1>22, <1>23, <1>24, <1>25, <1>26, <1>27, <1>28
       DEF Next, Requests, Listener, ThreadStep, ModelStep

(* What Append adds and what it leaves. *)
LEMMA Appended ==
  ASSUME NEW S, NEW q \in Seq(S), NEW e \in S
  PROVE  /\ \A i \in DOMAIN q : i \in DOMAIN Append(q, e) /\ Append(q, e)[i] = q[i]
         /\ \E i \in DOMAIN Append(q, e) : Append(q, e)[i] = e
  <1>1. /\ DOMAIN q = 1 .. Len(q)
        /\ DOMAIN Append(q, e) = 1 .. Len(q) + 1
        /\ Len(q) \in Nat
    BY AppendProperties, LenProperties
  <1>2. \A i \in DOMAIN q : i \in DOMAIN Append(q, e) /\ Append(q, e)[i] = q[i]
    BY <1>1, AppendProperties
  <1>3. Len(q) + 1 \in DOMAIN Append(q, e) /\ Append(q, e)[Len(q) + 1] = e
    BY <1>1, AppendProperties
  <1>. QED
    BY <1>2, <1>3

(* A thread that moves on within its task keeps every set in hand. *)
LEMMA MoveKeeps ==
  ASSUME TypeInv, SomebodyWillSettle, NEW w \in Workers, NEW p, p # "finally",
         place' = [place EXCEPT ![w] = p],
         UNCHANGED <<job, queue, request, createdIn, epoch, recovered, stranded>>,
         startedAt \subseteq startedAt',
         \A t \in Sets : status'[t] = "GENERATING" => status[t] = "GENERATING"
  PROVE  SomebodyWillSettle'
  <1>1. \A t \in Sets : AtWork(t) => AtWork(t)'
    BY DEF AtWork, TypeInv
  <1>2. Queued' = Queued
    BY DEF Queued
  <1>. QED
    BY <1>1, <1>2 DEF SomebodyWillSettle, HasKeeper, Generating

(* A thread that comes to its finally block leaves its set to others. *)
LEMMA ArriveKeeps ==
  ASSUME TypeInv, SomebodyWillSettle, NEW w \in Workers,
         place' = [place EXCEPT ![w] = "finally"],
         UNCHANGED <<job, queue, request, createdIn, epoch, recovered, startedAt>>,
         stranded \subseteq stranded',
         \A t \in Sets : status'[t] = "GENERATING" => status[t] = "GENERATING",
         job[w] \in Sets,
         status'[job[w]] = "GENERATING" => job[w] \in startedAt \cup stranded'
  PROVE  SomebodyWillSettle'
  <1>1. \A t \in Sets : t # job[w] /\ AtWork(t) => AtWork(t)'
    BY DEF AtWork, TypeInv
  <1>2. Queued' = Queued
    BY DEF Queued
  <1>. QED
    BY <1>1, <1>2 DEF SomebodyWillSettle, HasKeeper, Generating

(* A step that leaves the threads and the queue alone. *)
LEMMA StayKeeps ==
  ASSUME TypeInv, SomebodyWillSettle,
         UNCHANGED <<place, job, queue, createdIn, epoch, startedAt>>,
         stranded \subseteq stranded',
         \A t \in Sets : status'[t] = "GENERATING" =>
           /\ status[t] = "GENERATING"
           /\ request[t] = "committed" => request'[t] = "committed" \/ t \in stranded'
           /\ recovered' => recovered \/ createdIn[t] >= epoch
  PROVE  SomebodyWillSettle'
  <1>1. \A t \in Sets : AtWork(t)' <=> AtWork(t)
    BY DEF AtWork
  <1>2. Queued' = Queued
    BY DEF Queued
  <1>. QED
    BY <1>1, <1>2 DEF SomebodyWillSettle, HasKeeper, Generating, TypeInv

(* Every set being generated keeps somebody to settle it. *)
LEMMA SomebodyStep ==
  ASSUME TypeInv, RowsAndTasks, QueueOK, \A w \in Workers : ThreadOK(w),
         OnlyBegunCancelled, SomebodyWillSettle, [Next]_vars
  PROVE  SomebodyWillSettle'
  <1>1. ASSUME NEW s \in Sets, Reserve(s)
         PROVE  SomebodyWillSettle'
    BY <1>1, StayKeeps
       DEF Reserve, db, input, outcome, process, task, thread, TypeInv
  <1>2. ASSUME NEW s \in Sets, Refuse(s)
         PROVE  SomebodyWillSettle'
    BY <1>2, StayKeeps
       DEF Refuse, db, input, outcome, process, task, thread, TypeInv
  <1>3. ASSUME NEW s \in Sets, NEW m \in Materials, Accept(s, m)
         PROVE  SomebodyWillSettle'
    <2>1. \A t \in Sets : AtWork(t)' <=> AtWork(t)
      BY <1>3 DEF Accept, InsertRow, thread, AtWork
    <2>2. Queued' = Queued
      BY <1>3 DEF Accept, InsertRow, Queued
    <2>3. HasKeeper(s)'
      BY <1>3 DEF Accept, HasKeeper, TypeInv
    <2>4. ASSUME NEW t \in Sets, t # s, Generating(t)'
          PROVE  HasKeeper(t)'
      <3>1. Generating(t) /\ request'[t] = request[t] /\ createdIn'[t] = createdIn[t]
        BY <2>4, <1>3 DEF Accept, InsertRow, Generating, TypeInv
      <3>. QED
        BY <2>1, <2>2, <3>1, <1>3 DEF Accept, InsertRow, process, SomebodyWillSettle, HasKeeper
    <2>. QED
      BY <2>3, <2>4 DEF SomebodyWillSettle
  <1>4. ASSUME NEW s \in Sets, NEW m \in Materials, AcceptUnacknowledged(s, m)
         PROVE  SomebodyWillSettle'
    <2>1. \A t \in Sets : AtWork(t)' <=> AtWork(t)
      BY <1>4 DEF AcceptUnacknowledged, InsertRow, thread, AtWork
    <2>2. Queued' = Queued
      BY <1>4 DEF AcceptUnacknowledged, InsertRow, Queued
    <2>3. HasKeeper(s)'
      BY <1>4 DEF AcceptUnacknowledged, HasKeeper, TypeInv
    <2>4. ASSUME NEW t \in Sets, t # s, Generating(t)'
          PROVE  HasKeeper(t)'
      <3>1. Generating(t) /\ request'[t] = request[t] /\ createdIn'[t] = createdIn[t]
        BY <2>4, <1>4 DEF AcceptUnacknowledged, InsertRow, Generating, TypeInv
      <3>. QED
        BY <2>1, <2>2, <3>1, <1>4 DEF AcceptUnacknowledged, InsertRow, process, SomebodyWillSettle, HasKeeper
    <2>. QED
      BY <2>3, <2>4 DEF SomebodyWillSettle
  <1>5. ASSUME NEW m \in Materials, NEW c \in Contents, UpdateContent(m, c)
         PROVE  SomebodyWillSettle'
    BY <1>5, StayKeeps
       DEF UpdateContent, input, outcome, process, task, thread, db, TypeInv
  <1>6. ASSUME NEW s \in Sets, Schedule(s)
         PROVE  SomebodyWillSettle'
    <2>1. s \in Queued' \/ AtWork(s)'
      <3>1. CASE \E w \in Workers : place[w] = "unborn" /\ Give(w, s) /\ UNCHANGED queue
        BY <3>1 DEF Give, AtWork, TypeInv
      <3>2. CASE queue' = Append(queue, s)
        <4>1. PICK i \in DOMAIN queue' : queue'[i] = s
          BY <3>2, Appended DEF TypeInv
        <4>. QED
          BY <4>1 DEF Queued
      <3>. QED
        BY <3>1, <3>2, <1>6 DEF Schedule
    <2>2. ASSUME NEW t \in Sets, t \in Queued \/ AtWork(t)
          PROVE  t \in Queued' \/ AtWork(t)'
      <3>1. CASE \E w \in Workers : place[w] = "unborn" /\ Give(w, s) /\ UNCHANGED queue
        <4>1. PICK w \in Workers : place[w] = "unborn" /\ Give(w, s) /\ UNCHANGED queue
          BY <3>1
        <4>2. job[w] = NoSet
          BY <4>1 DEF ThreadOK, Busy, Working
        <4>3. Queued' = Queued
          BY <4>1 DEF Queued
        <4>4. AtWork(t) => AtWork(t)'
          BY <4>1, <4>2 DEF AtWork, Give, TypeInv
        <4>. QED
          BY <2>2, <4>3, <4>4
      <3>2. CASE queue' = Append(queue, s) /\ UNCHANGED thread
        <4>1. AtWork(t) => AtWork(t)'
          BY <3>2 DEF AtWork, thread
        <4>2. t \in Queued => t \in Queued'
          BY <3>2, Appended DEF Queued, TypeInv
        <4>. QED
          BY <2>2, <4>1, <4>2
      <3>. QED
        BY <3>1, <3>2, <1>6 DEF Schedule
    <2>3. ASSUME NEW t \in Sets, t # s
          PROVE  request'[t] = request[t]
      BY <2>3, <1>6 DEF Schedule, TypeInv
    <2>4. UNCHANGED <<status, startedAt, createdIn, epoch, recovered, stranded>>
      BY <1>6 DEF Schedule, db, input, outcome, process
    <2>. QED
      BY <2>1, <2>2, <2>3, <2>4 DEF SomebodyWillSettle, HasKeeper, Generating
  <1>7. ASSUME NEW s \in Sets, ScheduleRejected(s)
         PROVE  SomebodyWillSettle'
    BY <1>7, StayKeeps
       DEF ScheduleRejected, db, input, outcome, process, thread, TypeInv
  <1>8. ASSUME NEW s \in Sets, Cancel(s)
         PROVE  SomebodyWillSettle'
    BY <1>8, StayKeeps
       DEF Cancel, CancelReleases, CancelledFuture, db, input, outcome,
          process, thread, TypeInv
  <1>9. ASSUME NEW w \in Workers, Take(w)
         PROVE  SomebodyWillSettle'
    <2>1. job[w] = NoSet
      BY <1>9 DEF Take, At, ThreadOK, Busy, Working
    <2>2. ASSUME NEW t \in Sets, t \in Queued
          PROVE  t \in Queued' \/ AtWork(t)'
      <3>1. PICK i \in DOMAIN queue : queue[i] = t
        BY <2>2 DEF Queued
      <3>2. CASE i = 1
        BY <3>1, <3>2, <1>9, HeadTailProperties, SMTT(30) DEF Take, Give, AtWork, TypeInv
      <3>3. CASE i # 1
        <4>1. i - 1 \in DOMAIN queue' /\ queue'[i - 1] = t
          BY <3>1, <3>3, <1>9, HeadTailProperties, LenProperties, SMTT(30) DEF Take, TypeInv
        <4>. QED
          BY <4>1 DEF Queued
      <3>. QED
        BY <3>2, <3>3
    <2>3. \A t \in Sets : AtWork(t) => AtWork(t)'
      BY <2>1, <1>9 DEF Take, Give, AtWork, TypeInv
    <2>4. UNCHANGED <<status, request, startedAt, createdIn, epoch, recovered, stranded>>
      BY <1>9 DEF Take, db, input, outcome, process
    <2>. QED
      BY <2>2, <2>3, <2>4 DEF SomebodyWillSettle, HasKeeper, Generating
  <1>11. ASSUME NEW w \in Workers, Run(w)
         PROVE  SomebodyWillSettle'
    BY <1>11, MoveKeeps
       DEF Run, At, Move, db, input, outcome, process
  <1>12. ASSUME NEW w \in Workers, Begin(w)
         PROVE  SomebodyWillSettle'
    BY <1>12, MoveKeeps
       DEF Begin, At, Move, db, input, outcome, process
  <1>13. ASSUME NEW w \in Workers, MarkStarted(w)
         PROVE  SomebodyWillSettle'
    <2>1. job[w] \in Sets
      BY <1>13, BusyJob DEF MarkStarted, At, Busy, Working
    <2>2. CASE Generating(job[w])
      BY <2>2, <1>13, MoveKeeps DEF MarkStarted, Move, input, outcome, process
    <2>3. CASE ~Generating(job[w])
      BY <2>1, <2>3, <1>13, ArriveKeeps DEF MarkStarted, Move, Generating, input, outcome, process
    <2>. QED
      BY <2>2, <2>3
  <1>14. ASSUME NEW w \in Workers, DatabaseFails(w)
         PROVE  SomebodyWillSettle'
    BY <1>14, MoveKeeps
       DEF DatabaseFails, Move, db, input, outcome, process
  <1>15. ASSUME NEW w \in Workers, CommitUnacknowledged(w)
         PROVE  SomebodyWillSettle'
    <2>1. job[w] \in Sets
      BY <1>15, BusyJob DEF CommitUnacknowledged, At, Busy, Working
    <2>2. \A t \in Sets : status'[t] = "GENERATING" => status[t] = "GENERATING"
      BY <2>1, <1>15 DEF CommitUnacknowledged, Settle, Generating, outcome, TypeInv
    <2>3. startedAt \subseteq startedAt'
      BY <1>15 DEF CommitUnacknowledged
    <2>. QED
      BY <2>2, <2>3, <1>15, MoveKeeps DEF CommitUnacknowledged, Move, input, process
  <1>16. ASSUME NEW w \in Workers, Complete(w)
         PROVE  SomebodyWillSettle'
    <2>1. job[w] \in Sets
      BY <1>16, BusyJob DEF Complete, At, Busy, Working
    <2>2. /\ \A t \in Sets : status'[t] = "GENERATING" => status[t] = "GENERATING"
          /\ status'[job[w]] # "GENERATING"
      BY <2>1, <1>16 DEF Complete, Settle, Generating, outcome, TypeInv
    <2>. QED
      BY <2>1, <2>2, <1>16, ArriveKeeps DEF Complete, Move, input, process
  <1>17. ASSUME NEW w \in Workers, Fail(w)
         PROVE  SomebodyWillSettle'
    <2>1. job[w] \in Sets
      BY <1>17, BusyJob DEF Fail, At, Busy, Working
    <2>2. /\ \A t \in Sets : status'[t] = "GENERATING" => status[t] = "GENERATING"
          /\ status'[job[w]] # "GENERATING"
      BY <2>1, <1>17 DEF Fail, Settle, Generating, outcome, TypeInv
    <2>. QED
      BY <2>1, <2>2, <1>17, ArriveKeeps DEF Fail, Move, input, process
  <1>18. ASSUME NEW w \in Workers, FailSwallowed(w)
         PROVE  SomebodyWillSettle'
    <2>1. job[w] \in Sets
      BY <1>18, BusyJob DEF FailSwallowed, At, Busy, Working
    <2>. QED
      BY <2>1, <1>18, ArriveKeeps
         DEF FailSwallowed, Move, Generating, db, input, outcome, process, TypeInv
  <1>19. ASSUME NEW w \in Workers, Finish(w)
         PROVE  SomebodyWillSettle'
    <2>1. place[w] = "finally"
      BY <1>19 DEF Finish, At
    <2>2. \A t \in Sets : AtWork(t) => AtWork(t)'
      BY <2>1, <1>19 DEF Finish, Drop, AtWork, TypeInv
    <2>3. Queued' = Queued
      BY <1>19 DEF Finish, Queued
    <2>4. UNCHANGED <<status, request, startedAt, createdIn, epoch, recovered, stranded>>
      BY <1>19 DEF Finish, db, input, outcome, process
    <2>. QED
      BY <2>2, <2>3, <2>4 DEF SomebodyWillSettle, HasKeeper, Generating
  <1>20. ASSUME NEW w \in Workers, Return(w)
         PROVE  SomebodyWillSettle'
    <2>1. job[w] = NoSet
      BY <1>20 DEF Return, At, ThreadOK, Busy, Working
    <2>2. \A t \in Sets : AtWork(t) => AtWork(t)'
      BY <2>1, <1>20 DEF Return, Move, AtWork, TypeInv
    <2>3. Queued' = Queued
      BY <1>20 DEF Return, Queued
    <2>4. UNCHANGED <<status, request, startedAt, createdIn, epoch, recovered, stranded>>
      BY <1>20 DEF Return, db, input, outcome, process
    <2>. QED
      BY <2>2, <2>3, <2>4 DEF SomebodyWillSettle, HasKeeper, Generating
  <1>21. ASSUME NEW w \in Workers, ModelFails(w)
         PROVE  SomebodyWillSettle'
    BY <1>21, MoveKeeps
       DEF ModelFails, Move, db, input, outcome, process
  <1>22. ASSUME NEW w \in Workers, ModelSuffices(w)
         PROVE  SomebodyWillSettle'
    BY <1>22, MoveKeeps
       DEF ModelSuffices, Move, db, input, outcome, process
  <1>23. ASSUME NEW w \in Workers, NEW b \in BOOLEAN, FirstFallsShort(w, b)
         PROVE  SomebodyWillSettle'
    BY <1>23, MoveKeeps
       DEF FirstFallsShort, At, db, input, outcome, process
  <1>24. ASSUME NEW w \in Workers, NEW b \in BOOLEAN, SecondFallsShort(w, b)
         PROVE  SomebodyWillSettle'
    <2>1. PICK p \in {"failSource", "failGeneration"} : place' = [place EXCEPT ![w] = p]
      BY <1>24 DEF SecondFallsShort, Move
    <2>. QED
      BY <2>1, <1>24, MoveKeeps DEF SecondFallsShort, Move, db, input, outcome, process
  <1>25. ASSUME NEW S \in SUBSET Sets, FailStale(S)
         PROVE  SomebodyWillSettle'
    BY <1>25, StayKeeps
       DEF FailStale, FailAll, FailRows, input, process, thread, TypeInv
  <1>26. CASE RecoverAtStartup
    <2>1. \A t \in Sets : status'[t] = "GENERATING" => status[t] = "GENERATING" /\ createdIn[t] >= epoch
      BY <1>26 DEF RecoverAtStartup, FailAll, FailRows, Interrupted, Generating, TypeInv
    <2>. QED
      BY <2>1, <1>26, StayKeeps DEF RecoverAtStartup, input, thread, TypeInv
  <1>27. CASE Restart
    <2>1. \A t \in Sets : createdIn'[t] < epoch' /\ ~recovered'
      BY <1>27 DEF Restart, db, input, TypeInv, RowsAndTasks
    <2>. QED
      BY <2>1 DEF SomebodyWillSettle, HasKeeper
  <1>28. CASE UNCHANGED vars
    <2>1. Queued' = Queued /\ \A t \in Sets : AtWork(t)' <=> AtWork(t)
      BY <1>28 DEF vars, Queued, AtWork
    <2>. QED
      BY <2>1, <1>28 DEF vars, SomebodyWillSettle, HasKeeper, Generating
  <1>. QED
    BY <1>1, <1>2, <1>3, <1>4, <1>5, <1>6, <1>7, <1>8, <1>9, <1>11,
       <1>12, <1>13, <1>14, <1>15, <1>16, <1>17, <1>18, <1>19, <1>20, <1>21,
       <1>22, <1>23, <1>24, <1>25, <1>26, <1>27, <1>28
       DEF Next, Requests, Listener, ThreadStep, ModelStep

(* One permit goes out, or one comes back, or none moves. *)
LEMMA PermitMoves ==
  ASSUME TypeInv, PermitsConserved,
         \/ UNCHANGED <<Holding, permits>>
         \/ \E s \in Sets \ Holding : Holding' = Holding \cup {s} /\ permits' = permits - 1
         \/ \E s \in Holding : Holding' = Holding \ {s} /\ permits' = permits + 1
  PROVE  PermitsConserved'
  <1>1. IsFiniteSet(Holding) /\ Cardinality(Holding) \in Nat
    BY FS_Subset, FS_CardinalityType DEF Holding
  <1>2. CASE UNCHANGED <<Holding, permits>>
    BY <1>2 DEF PermitsConserved
  <1>3. CASE \E s \in Sets \ Holding : Holding' = Holding \cup {s} /\ permits' = permits - 1
    <2>1. Cardinality(Holding') = Cardinality(Holding) + 1
      BY <1>1, <1>3, FS_AddElement
    <2>. QED
      BY <1>1, <1>3, <2>1 DEF PermitsConserved, TypeInv
  <1>4. CASE \E s \in Holding : Holding' = Holding \ {s} /\ permits' = permits + 1
    <2>1. Cardinality(Holding') = Cardinality(Holding) - 1
      BY <1>1, <1>4, FS_RemoveElement
    <2>. QED
      BY <1>1, <1>4, <2>1 DEF PermitsConserved, TypeInv
  <1>. QED
    BY <1>2, <1>3, <1>4

(* The semaphore and the holders of its permits always add up. *)
LEMMA PermitsStep ==
  ASSUME TypeInv, RowsAndTasks, QueueOK, \A w \in Workers : ThreadOK(w),
         PermitsConserved, [Next]_vars
  PROVE  PermitsConserved'
  <1>1. ASSUME NEW s \in Sets, Reserve(s)
         PROVE  PermitsConserved'
    <2>1. s \notin Holding /\ Holding' = Holding \cup {s}
      BY <1>1 DEF Reserve, Holding, task, TypeInv, RowsAndTasks
    <2>. QED
      BY <2>1, <1>1, PermitMoves DEF Reserve
  <1>2. ASSUME NEW s \in Sets, Refuse(s)
         PROVE  PermitsConserved'
    <2>1. s \in Holding /\ Holding' = Holding \ {s}
      BY <1>2 DEF Refuse, Holding, task, TypeInv, RowsAndTasks
    <2>. QED
      BY <2>1, <1>2, PermitMoves DEF Refuse
  <1>3. ASSUME NEW s \in Sets, NEW m \in Materials, Accept(s, m)
         PROVE  PermitsConserved'
    <2>1. Holding' = Holding
      BY <1>3 DEF Accept, InsertRow, Holding, task, TypeInv
    <2>. QED
      BY <2>1, <1>3, PermitMoves DEF Accept
  <1>4. ASSUME NEW s \in Sets, NEW m \in Materials, AcceptUnacknowledged(s, m)
         PROVE  PermitsConserved'
    <2>1. s \in Holding /\ Holding' = Holding \ {s}
      BY <1>4 DEF AcceptUnacknowledged, InsertRow, Holding, task, TypeInv, RowsAndTasks
    <2>. QED
      BY <2>1, <1>4, PermitMoves DEF AcceptUnacknowledged
  <1>5. ASSUME NEW m \in Materials, NEW c \in Contents, UpdateContent(m, c)
         PROVE  PermitsConserved'
    <2>1. UNCHANGED <<permits, request, future, released>>
      BY <1>5 DEF UpdateContent, task
    <2>. QED
      BY <2>1, PermitMoves DEF Holding
  <1>6. ASSUME NEW s \in Sets, Schedule(s)
         PROVE  PermitsConserved'
    <2>1. Holding' = Holding
      BY <1>6 DEF Schedule, Holding, TypeInv, RowsAndTasks
    <2>. QED
      BY <2>1, <1>6, PermitMoves DEF Schedule
  <1>7. ASSUME NEW s \in Sets, ScheduleRejected(s)
         PROVE  PermitsConserved'
    <2>1. s \in Holding /\ Holding' = Holding \ {s}
      BY <1>7 DEF ScheduleRejected, Holding, TypeInv, RowsAndTasks
    <2>. QED
      BY <2>1, <1>7, PermitMoves DEF ScheduleRejected
  <1>8. ASSUME NEW s \in Sets, Cancel(s)
         PROVE  PermitsConserved'
    <2>1. UNCHANGED <<request, permits, released>>
      BY <1>8 DEF Cancel, CancelReleases, RowsAndTasks
    <2>2. \A t \in Sets : future'[t] = "none" <=> future[t] = "none"
      BY <1>8 DEF Cancel, CancelledFuture, TypeInv
    <2>. QED
      BY <2>1, <2>2, PermitMoves DEF Holding
  <1>9. ASSUME NEW w \in Workers, Take(w)
         PROVE  PermitsConserved'
    <2>1. UNCHANGED <<permits, request, future, released>>
      BY <1>9 DEF Take, task
    <2>. QED
      BY <2>1, PermitMoves DEF Holding
  <1>11. ASSUME NEW w \in Workers, Run(w)
         PROVE  PermitsConserved'
    <2>1. UNCHANGED <<permits, request, future, released>>
      BY <1>11 DEF Run, task
    <2>. QED
      BY <2>1, PermitMoves DEF Holding
  <1>12. ASSUME NEW w \in Workers, Begin(w)
         PROVE  PermitsConserved'
    <2>1. UNCHANGED <<permits, request, future, released>>
      BY <1>12 DEF Begin
    <2>. QED
      BY <2>1, PermitMoves DEF Holding
  <1>13. ASSUME NEW w \in Workers, MarkStarted(w)
         PROVE  PermitsConserved'
    <2>1. UNCHANGED <<permits, request, future, released>>
      BY <1>13 DEF MarkStarted, task
    <2>. QED
      BY <2>1, PermitMoves DEF Holding
  <1>14. ASSUME NEW w \in Workers, DatabaseFails(w)
         PROVE  PermitsConserved'
    <2>1. UNCHANGED <<permits, request, future, released>>
      BY <1>14 DEF DatabaseFails, task
    <2>. QED
      BY <2>1, PermitMoves DEF Holding
  <1>15. ASSUME NEW w \in Workers, CommitUnacknowledged(w)
         PROVE  PermitsConserved'
    <2>1. UNCHANGED <<permits, request, future, released>>
      BY <1>15 DEF CommitUnacknowledged, task
    <2>. QED
      BY <2>1, PermitMoves DEF Holding
  <1>16. ASSUME NEW w \in Workers, Complete(w)
         PROVE  PermitsConserved'
    <2>1. UNCHANGED <<permits, request, future, released>>
      BY <1>16 DEF Complete, task
    <2>. QED
      BY <2>1, PermitMoves DEF Holding
  <1>17. ASSUME NEW w \in Workers, Fail(w)
         PROVE  PermitsConserved'
    <2>1. UNCHANGED <<permits, request, future, released>>
      BY <1>17 DEF Fail, task
    <2>. QED
      BY <2>1, PermitMoves DEF Holding
  <1>18. ASSUME NEW w \in Workers, FailSwallowed(w)
         PROVE  PermitsConserved'
    <2>1. UNCHANGED <<permits, request, future, released>>
      BY <1>18 DEF FailSwallowed, task
    <2>. QED
      BY <2>1, PermitMoves DEF Holding
  <1>19. ASSUME NEW w \in Workers, Finish(w)
         PROVE  PermitsConserved'
    <2>1. /\ job[w] \in Sets
          /\ request[job[w]] = "closed"
          /\ future[job[w]] \in {"new", "cancelled"}
          /\ job[w] \notin released
      BY <1>19, BusyClosed DEF Finish, At, ThreadOK, Busy, Working
    <2>2. /\ released' = released \cup {job[w]} /\ permits' = permits + 1
          /\ UNCHANGED request
          /\ \A t \in Sets \ {job[w]} : future'[t] = future[t]
      BY <2>1, <1>19 DEF Finish, FinishReleases, TypeInv
    <2>3. job[w] \in Holding /\ Holding' = Holding \ {job[w]}
      BY <2>1, <2>2 DEF Holding
    <2>. QED
      BY <2>2, <2>3, PermitMoves
  <1>20. ASSUME NEW w \in Workers, Return(w)
         PROVE  PermitsConserved'
    <2>1. UNCHANGED <<permits, request, future, released>>
      BY <1>20 DEF Return, task
    <2>. QED
      BY <2>1, PermitMoves DEF Holding
  <1>21. ASSUME NEW w \in Workers, ModelFails(w)
         PROVE  PermitsConserved'
    <2>1. UNCHANGED <<permits, request, future, released>>
      BY <1>21 DEF ModelFails, task
    <2>. QED
      BY <2>1, PermitMoves DEF Holding
  <1>22. ASSUME NEW w \in Workers, ModelSuffices(w)
         PROVE  PermitsConserved'
    <2>1. UNCHANGED <<permits, request, future, released>>
      BY <1>22 DEF ModelSuffices, task
    <2>. QED
      BY <2>1, PermitMoves DEF Holding
  <1>23. ASSUME NEW w \in Workers, NEW b \in BOOLEAN, FirstFallsShort(w, b)
         PROVE  PermitsConserved'
    <2>1. UNCHANGED <<permits, request, future, released>>
      BY <1>23 DEF FirstFallsShort, task
    <2>. QED
      BY <2>1, PermitMoves DEF Holding
  <1>24. ASSUME NEW w \in Workers, NEW b \in BOOLEAN, SecondFallsShort(w, b)
         PROVE  PermitsConserved'
    <2>1. UNCHANGED <<permits, request, future, released>>
      BY <1>24 DEF SecondFallsShort, task
    <2>. QED
      BY <2>1, PermitMoves DEF Holding
  <1>25. ASSUME NEW S \in SUBSET Sets, FailStale(S)
         PROVE  PermitsConserved'
    <2>1. UNCHANGED <<permits, request, future, released>>
      BY <1>25 DEF FailStale, task
    <2>. QED
      BY <2>1, PermitMoves DEF Holding
  <1>26. CASE RecoverAtStartup
    <2>1. UNCHANGED <<permits, request, future, released>>
      BY <1>26 DEF RecoverAtStartup, task
    <2>. QED
      BY <2>1, PermitMoves DEF Holding
  <1>27. CASE Restart
    <2>1. Holding' = {}
      BY <1>27 DEF Restart, Holding, TypeInv
    <2>2. permits' = Capacity /\ Cardinality({}) = 0
      BY <1>27, FS_EmptySet DEF Restart
    <2>. QED
      BY <2>1, <2>2, CapacityIsNat DEF PermitsConserved
  <1>28. CASE UNCHANGED vars
    <2>1. UNCHANGED <<permits, request, future, released>>
      BY <1>28 DEF vars
    <2>. QED
      BY <2>1, PermitMoves DEF Holding
  <1>. QED
    BY <1>1, <1>2, <1>3, <1>4, <1>5, <1>6, <1>7, <1>8, <1>9, <1>11,
       <1>12, <1>13, <1>14, <1>15, <1>16, <1>17, <1>18, <1>19, <1>20, <1>21,
       <1>22, <1>23, <1>24, <1>25, <1>26, <1>27, <1>28
       DEF Next, Requests, Listener, ThreadStep, ModelStep

-------------------------------------------------------------------------------
(* TypeOK is TypeInv once the permits add up. *)
LEMMA TypeBound == TypeOK <=> TypeInv /\ permits \in 0..Capacity
  BY CapacityIsNat DEF TypeOK, TypeInv

LEMMA BoundFromPermits ==
  ASSUME TypeInv, PermitsConserved
  PROVE  TypeOK
  <1>1. Cardinality(Holding) \in Nat
    BY FS_Subset, FS_CardinalityType DEF Holding
  <1>. QED
    BY <1>1, CapacityIsNat, TypeBound DEF TypeInv, PermitsConserved

LEMMA InitIInv == Init => IInv
  <1> SUFFICES ASSUME Init PROVE IInv
    OBVIOUS
  <1>1. TypeInv
    <2>1. material \in [Sets -> Materials] /\ snapshot \in [Sets -> Contents]
      BY DEF Init
    <2>2. recovered \in BOOLEAN
      BY DEF Init
    <2>3. queue \in Seq(Sets) /\ permits \in Nat
      BY CapacityIsNat DEF Init
    <2>4. place \in [Workers -> Places] /\ job \in [Workers -> Sets \cup {NoSet}]
      BY DEF Init, Places
    <2>. QED
      BY <2>1, <2>2, <2>3, <2>4 DEF Init, TypeInv, Statuses, FailureCodes
  <1>2. RowsAndTasks /\ QueueOK /\ \A w \in Workers : ThreadOK(w)
    BY DEF Init, RowsAndTasks, QueueOK, ThreadOK, Busy, Working
  <1>3. PermitsConserved
    <2>1. Holding = {} /\ permits = Capacity
      BY DEF Init, Holding
    <2>. QED
      BY <2>1, FS_EmptySet, CapacityIsNat DEF PermitsConserved
  <1>4. OnlyBegunCancelled /\ ContentFrozen /\ ToldOnce /\ SomebodyWillSettle
    BY DEF Init, OnlyBegunCancelled, ContentFrozen, ToldOnce, SomebodyWillSettle,
       Generating, Terminal
  <1>. QED
    BY <1>1, <1>2, <1>3, <1>4, BoundFromPermits DEF IInv

LEMMA NextIInv == IInv /\ [Next]_vars => IInv'
  <1> SUFFICES ASSUME IInv, [Next]_vars PROVE IInv'
    OBVIOUS
  <1>1. /\ TypeInv /\ RowsAndTasks /\ QueueOK
        /\ \A w \in Workers : ThreadOK(w)
    BY TypeBound DEF IInv
  <1>2. TypeInv' /\ PermitsConserved'
    BY <1>1, TypeStep, PermitsStep DEF IInv
  <1>3. TypeOK'
    <2>1. Cardinality(Holding') \in Nat
      BY <1>2, FS_Subset, FS_CardinalityType DEF Holding
    <2>. QED
      BY <1>2, <2>1, CapacityIsNat DEF TypeOK, TypeInv, PermitsConserved
  <1>4. RowsAndTasks' /\ QueueOK' /\ \A w \in Workers : ThreadOK(w)'
    BY <1>1, RowsStep, QueueStep, ThreadsStep
  <1>5. OnlyBegunCancelled' /\ ContentFrozen' /\ ToldOnce' /\ SomebodyWillSettle'
    BY <1>1, CancelledStep, ContentStep, ToldStep, SomebodyStep DEF IInv
  <1>. QED
    BY <1>2, <1>3, <1>4, <1>5 DEF IInv

(* Every reachable state satisfies the inductive invariant. *)
THEOREM Invariance == Spec => []IInv
  BY InitIInv, NextIInv, PTL DEF Spec

(* Rows, tasks and threads keep their types, and the semaphore never offers more
   than its capacity. *)
THEOREM TypeCorrect == Spec => []TypeOK
  <1>1. IInv => TypeOK
    BY DEF IInv
  <1>. QED
    BY <1>1, Invariance, PTL

(* No permit is lost or returned twice. *)
THEOREM PermitsSafe == Spec => []PermitsConserved
  <1>1. IInv => PermitsConserved
    BY DEF IInv
  <1>. QED
    BY <1>1, Invariance, PTL

(* Whatever works or waits still has its permit out. *)
THEOREM WorkSafe == Spec => []WorkHoldsPermit
  <1>1. IInv => WorkHoldsPermit
    BY DEF IInv, WorkHoldsPermit, ThreadOK, Busy, QueueOK, Queued
  <1>. QED
    BY <1>1, Invariance, PTL

(* Recovery cancels no task that still waits. *)
THEOREM CancelSafe == Spec => []OnlyBegunCancelled
  <1>1. IInv => OnlyBegunCancelled
    BY DEF IInv
  <1>. QED
    BY <1>1, Invariance, PTL

(* The material of a set being generated keeps the body sent to the model. *)
THEOREM ContentSafe == Spec => []ContentFrozen
  <1>1. IInv => ContentFrozen
    BY DEF IInv
  <1>. QED
    BY <1>1, Invariance, PTL

(* Every settled set is reported once. *)
THEOREM ToldSafe == Spec => []ToldOnce
  <1>1. IInv => ToldOnce
    BY DEF IInv
  <1>. QED
    BY <1>1, Invariance, PTL

(* No set is left in GENERATING except through the stranding the code has. *)
THEOREM NoOrphan == Spec => []SomebodyWillSettle
  <1>1. IInv => SomebodyWillSettle
    BY DEF IInv
  <1>. QED
    BY <1>1, Invariance, PTL

-------------------------------------------------------------------------------
(* What a step does to the rows: it leaves the outcomes alone and may record a
   start, inserts a row, or settles some of the sets being generated. *)
Records ==
  /\ UNCHANGED <<material, status, failureCode, notifications>>
  /\ \/ UNCHANGED startedAt
     \/ \E s \in Sets : Generating(s) /\ startedAt' = startedAt \cup {s}

Inserts(s, m) ==
  /\ status[s] = "ABSENT"
  /\ InsertRow(s, m)

SettlesRows(S, final, reason) ==
  /\ S # {}
  /\ \A s \in S : Generating(s)
  /\ status' = [s \in Sets |-> IF s \in S THEN final ELSE status[s]]
  /\ failureCode' = [s \in Sets |-> IF s \in S THEN reason ELSE failureCode[s]]
  /\ notifications' = [s \in Sets |-> IF s \in S THEN notifications[s] + 1
                                       ELSE notifications[s]]
  /\ UNCHANGED <<material, startedAt>>

RowEffect ==
  \/ Records
  \/ \E s \in Sets, m \in Materials : Inserts(s, m)
  \/ \E S \in SUBSET Sets, final \in Terminal, reason \in FailureCodes :
       SettlesRows(S, final, reason)

LEMMA SettleEffect ==
  ASSUME TypeInv, NEW s \in Sets, NEW final \in Terminal, NEW reason \in FailureCodes,
         Settle(s, final, reason), UNCHANGED <<material, startedAt>>
  PROVE  RowEffect
  <1>1. CASE Generating(s)
    <2>1. /\ status' = [status EXCEPT ![s] = final]
          /\ failureCode' = [failureCode EXCEPT ![s] = reason]
          /\ notifications' = [notifications EXCEPT ![s] = @ + 1]
      BY <1>1 DEF Settle
    <2>2. SettlesRows({s}, final, reason)
      BY <1>1, <2>1 DEF SettlesRows, TypeInv
    <2>3. {s} \in SUBSET Sets
      OBVIOUS
    <2>. QED
      BY <2>2, <2>3 DEF RowEffect
  <1>2. CASE ~Generating(s)
    BY <1>2 DEF Settle, outcome, RowEffect, Records
  <1>. QED
    BY <1>1, <1>2

LEMMA FailAllEffect ==
  ASSUME TypeInv, NEW S \in SUBSET Sets, \A s \in S : Generating(s), FailAll(S),
         UNCHANGED <<material, startedAt>>
  PROVE  RowEffect
  <1>1. CASE S = {}
    <2>1. UNCHANGED <<status, failureCode, notifications>>
      BY <1>1 DEF FailAll, FailRows, TypeInv
    <2>. QED
      BY <2>1 DEF RowEffect, Records
  <1>2. CASE S # {}
    <2>1. SettlesRows(S, "FAILED", "GENERATION_FAILED")
      BY <1>2 DEF FailAll, FailRows, SettlesRows
    <2>. QED
      BY <2>1 DEF RowEffect, Terminal, FailureCodes
  <1>. QED
    BY <1>1, <1>2

LEMMA StepEffect ==
  ASSUME TypeInv, RowsAndTasks, \A w \in Workers : ThreadOK(w), [Next]_vars
  PROVE  RowEffect
  <1>1. ASSUME NEW s \in Sets, Reserve(s) \/ Refuse(s)
        PROVE  RowEffect
    BY <1>1 DEF Reserve, Refuse, db, input, outcome, RowEffect, Records
  <1>2. ASSUME NEW s \in Sets, NEW m \in Materials,
               Accept(s, m) \/ AcceptUnacknowledged(s, m)
        PROVE  RowEffect
    BY <1>2 DEF Accept, AcceptUnacknowledged, RowsAndTasks, RowEffect, Inserts
  <1>3. ASSUME NEW m \in Materials, NEW c \in Contents, UpdateContent(m, c)
        PROVE  RowEffect
    BY <1>3 DEF UpdateContent, input, outcome, RowEffect, Records
  <1>4. ASSUME NEW s \in Sets, Listener(s)
        PROVE  RowEffect
    BY <1>4 DEF Listener, Schedule, ScheduleRejected, db, input, outcome, RowEffect,
                Records
  <1>5. ASSUME NEW s \in Sets, Cancel(s)
        PROVE  RowEffect
    BY <1>5 DEF Cancel, db, input, outcome, RowEffect, Records
  <1>6. ASSUME NEW w \in Workers,
               Take(w) \/ Run(w) \/ Begin(w) \/ DatabaseFails(w)
        PROVE  RowEffect
    BY <1>6 DEF Take, Run, Begin, DatabaseFails, db, input, outcome,
                RowEffect, Records
  <1>7. ASSUME NEW w \in Workers, FailSwallowed(w) \/ Finish(w) \/ Return(w)
        PROVE  RowEffect
    BY <1>7 DEF FailSwallowed, Finish, Return, db, input, outcome, RowEffect, Records
  <1>8. ASSUME NEW w \in Workers, ModelStep(w)
        PROVE  RowEffect
    BY <1>8 DEF ModelStep, ModelFails, ModelSuffices, FirstFallsShort,
                SecondFallsShort, db, input, outcome, RowEffect, Records
  <1>9. ASSUME NEW w \in Workers, MarkStarted(w)
        PROVE  RowEffect
    <2>1. job[w] \in Sets
      BY <1>9, BusyJob DEF MarkStarted, At, Busy, Working
    <2>2. CASE Generating(job[w])
      BY <2>1, <2>2, <1>9 DEF MarkStarted, input, outcome, RowEffect, Records
    <2>3. CASE ~Generating(job[w])
      BY <2>3, <1>9 DEF MarkStarted, input, outcome, RowEffect, Records
    <2>. QED
      BY <2>2, <2>3
  <1>10. ASSUME NEW w \in Workers, CommitUnacknowledged(w)
         PROVE  RowEffect
    <2>1. job[w] \in Sets
      BY <1>10, BusyJob DEF CommitUnacknowledged, At, Busy, Working
    <2>2. CASE At(w, "mark")
      <3>1. Generating(job[w]) /\ startedAt' = startedAt \cup {job[w]} /\ UNCHANGED outcome
        BY <2>2, <1>10 DEF CommitUnacknowledged, At
      <3>. QED
        BY <2>1, <3>1, <1>10 DEF CommitUnacknowledged, input, outcome, RowEffect, Records
    <2>3. CASE ~At(w, "mark")
      <3>1. Settle(job[w], "READY", "NONE") /\ UNCHANGED <<material, startedAt>>
        BY <2>3, <1>10 DEF CommitUnacknowledged, input
      <3>. QED
        BY <2>1, <3>1, SettleEffect DEF Terminal, FailureCodes
    <2>. QED
      BY <2>2, <2>3
  <1>11. ASSUME NEW w \in Workers, Complete(w)
         PROVE  RowEffect
    <2>1. job[w] \in Sets
      BY <1>11, BusyJob DEF Complete, At, Busy, Working
    <2>2. Settle(job[w], "READY", "NONE") /\ UNCHANGED <<material, startedAt>>
      BY <1>11 DEF Complete, input
    <2>. QED
      BY <2>1, <2>2, SettleEffect DEF Terminal, FailureCodes
  <1>12. ASSUME NEW w \in Workers, Fail(w)
         PROVE  RowEffect
    <2>1. job[w] \in Sets
      BY <1>12, BusyJob DEF Fail, Busy, Working
    <2>2. UNCHANGED <<material, startedAt>>
      BY <1>12 DEF Fail, input
    <2>3. CASE At(w, "failSource")
      <3>1. Settle(job[w], "FAILED", "SOURCE_INSUFFICIENT")
        BY <2>3, <1>12 DEF Fail
      <3>. QED
        BY <2>1, <2>2, <3>1, SettleEffect DEF Terminal, FailureCodes
    <2>4. CASE ~At(w, "failSource")
      <3>1. Settle(job[w], "FAILED", "GENERATION_FAILED")
        BY <2>4, <1>12 DEF Fail
      <3>. QED
        BY <2>1, <2>2, <3>1, SettleEffect DEF Terminal, FailureCodes
    <2>. QED
      BY <2>3, <2>4
  <1>13. ASSUME NEW S \in SUBSET Sets, FailStale(S)
         PROVE  RowEffect
    BY <1>13, FailAllEffect DEF FailStale, Started, input
  <1>14. CASE RecoverAtStartup
    <2>1. /\ Interrupted \in SUBSET Sets /\ \A s \in Interrupted : Generating(s)
          /\ FailAll(Interrupted) /\ UNCHANGED <<material, startedAt>>
      BY <1>14 DEF RecoverAtStartup, Interrupted, input
    <2>. QED
      BY <2>1, FailAllEffect
  <1>15. CASE Restart
    BY <1>15 DEF Restart, db, input, outcome, RowEffect, Records
  <1>16. CASE UNCHANGED vars
    BY <1>16 DEF vars, RowEffect, Records
  <1>. QED
    BY <1>1, <1>2, <1>3, <1>4, <1>5, <1>6, <1>7, <1>8, <1>9, <1>10, <1>11, <1>12,
       <1>13, <1>14, <1>15, <1>16 DEF Next, Requests, ThreadStep

LEMMA FinalStep ==
  ASSUME TypeInv, RowEffect, NEW s \in Sets, status[s] \in Terminal
  PROVE  /\ status'[s] = status[s]
         /\ failureCode'[s] = failureCode[s]
         /\ s \in startedAt' <=> s \in startedAt
  <1>1. CASE Records
    BY <1>1 DEF Records, Generating, Terminal
  <1>2. ASSUME NEW t \in Sets, NEW m \in Materials, Inserts(t, m)
        PROVE  /\ status'[s] = status[s]
               /\ failureCode'[s] = failureCode[s]
               /\ s \in startedAt' <=> s \in startedAt
    BY <1>2 DEF Inserts, InsertRow, TypeInv, Terminal
  <1>3. ASSUME NEW S \in SUBSET Sets, NEW final \in Terminal,
               NEW reason \in FailureCodes, SettlesRows(S, final, reason)
        PROVE  /\ status'[s] = status[s]
               /\ failureCode'[s] = failureCode[s]
               /\ s \in startedAt' <=> s \in startedAt
    BY <1>3 DEF SettlesRows, Generating, Terminal
  <1>. QED
    BY <1>1, <1>2, <1>3 DEF RowEffect

(* No step changes the outcome, the failure code or the start of a settled set. *)
THEOREM OutcomeIsFinal == Spec => SettledIsFinal
  <1>1. IInv /\ [Next]_vars =>
          [\A s \in Sets : status[s] \in Terminal =>
             /\ status'[s] = status[s]
             /\ failureCode'[s] = failureCode[s]
             /\ s \in startedAt' <=> s \in startedAt]_vars
    BY TypeBound, StepEffect, FinalStep DEF IInv
  <1>. QED
    BY <1>1, Invariance, PTL DEF Spec, SettledIsFinal

-------------------------------------------------------------------------------
(* Refinement                                                                *)

LEMMA LifecycleStep ==
  ASSUME TypeInv, RowEffect
  PROVE  [Lifecycle!Next]_(Lifecycle!vars)
  <1>1. CASE Records
    BY <1>1 DEF Records, Lifecycle!vars
  <1>2. ASSUME NEW s \in Sets, NEW m \in Materials, Inserts(s, m)
        PROVE  Lifecycle!Next
    <2>1. Lifecycle!Active(OwnerOf[m]) = {}
      BY <1>2 DEF Inserts, InsertRow, ActiveOf, Generating, Lifecycle!Active
    <2>2. [t \in Sets |-> OwnerOf[material'[t]]]
            = [[t \in Sets |-> OwnerOf[material[t]]] EXCEPT ![s] = OwnerOf[m]]
      BY <1>2 DEF Inserts, InsertRow, TypeInv
    <2>3. Lifecycle!Accept(s, OwnerOf[m])
      BY <1>2, <2>1, <2>2 DEF Inserts, InsertRow, Lifecycle!Accept
    <2>4. OwnerOf[m] \in Users
      OBVIOUS
    <2>. QED
      BY <2>3, <2>4 DEF Lifecycle!Next
  <1>3. ASSUME NEW S \in SUBSET Sets, NEW final \in Terminal,
               NEW reason \in FailureCodes, SettlesRows(S, final, reason)
        PROVE  Lifecycle!Next
    <2>1. Lifecycle!Settle(S, final)
      BY <1>3 DEF SettlesRows, Generating, Lifecycle!Settle
    <2>2. final \in Lifecycle!Terminal
      BY DEF Terminal, Lifecycle!Terminal
    <2>. QED
      BY <2>1, <2>2 DEF Lifecycle!Next
  <1>. QED
    BY <1>1, <1>2, <1>3 DEF RowEffect

LEMMA LifecycleInit == Init => Lifecycle!Init
  BY DEF Init, Lifecycle!Init

(* Whatever is lost, late or restarted, what users see is the promise of
   GenerationLifecycle: one set in generation per user, settled once, told in the
   same step. *)
THEOREM Refinement == Spec => ImplementsLifecycle
  <1>1. IInv /\ [Next]_vars => [Lifecycle!Next]_(Lifecycle!vars)
    BY TypeBound, StepEffect, LifecycleStep DEF IInv
  <1>. QED
    BY <1>1, LifecycleInit, Invariance, PTL DEF Spec, ImplementsLifecycle, Lifecycle!Spec

-------------------------------------------------------------------------------
(* The questions of the runs, for every value of the constants               *)

(* Permits, threads and queue agree, however requests, threads and the recovery job
   interleave. *)
THEOREM PoolSafe == Spec => []PoolIsSound
  <1>. QED
    BY TypeCorrect, PermitsSafe, WorkSafe, CancelSafe, PTL DEF PoolIsSound

(* A set under way keeps its body and has somebody who will settle it. *)
THEOREM GeneratingSafe == Spec => []GeneratingIsKept
  <1>. QED
    BY ContentSafe, NoOrphan, PTL DEF GeneratingIsKept

(* Outcomes come as GenerationLifecycle promises and stay. *)
THEOREM OutcomesSafe == Spec => OutcomesAreKept
  <1>. QED
    BY Refinement, OutcomeIsFinal DEF OutcomesAreKept
=============================================================================
