---------------------------- MODULE QuizGeneration ----------------------------
(***************************************************************************)
(* Quiz generation on the server: a request reserves a slot of the         *)
(* process-wide semaphore, a transaction inserts the GENERATING quiz set,  *)
(* the AFTER_COMMIT listener hands a tracked FutureTask to a bounded       *)
(* thread pool, a pool thread asks the language model and settles the set, *)
(* while a periodic job fails stale sets and cancels their tasks, material *)
(* edits are refused, the database loses calls and the process restarts.   *)
(*                                                                         *)
(* Rows of the database survive a restart; the semaphore, tasks, queue     *)
(* and threads do not.                                                     *)
(***************************************************************************)
EXTENDS Integers, Sequences, FiniteSets

CONSTANTS
  Sets,            \* quiz set identities, one per request that gets through
  NoSet,           \* the set of a thread that has none
  Materials,       \* learning materials
  Users,           \* accounts
  OwnerOf,         \* material -> the user who owns it
  Contents,        \* bodies a material can have (a content revision names one)
  Workers,         \* threads of the pool: core size = max size
  QueueCapacity,   \* capacity of the pool's queue
  MaxEpoch         \* bound: the process starts at most MaxEpoch + 1 times

ASSUME OwnerAssumption == OwnerOf \in [Materials -> Users]
ASSUME InputsAssumption == Materials # {} /\ Contents # {}
ASSUME NoSetAssumption == NoSet \notin Sets
ASSUME SetsAssumption == IsFiniteSet(Sets)
ASSUME WorkersAssumption == IsFiniteSet(Workers) /\ Workers # {}
ASSUME QueueAssumption == QueueCapacity \in Nat \ {0}   \* 0 would be a hand-off
ASSUME EpochAssumption == MaxEpoch \in Nat

Statuses == {"ABSENT", "GENERATING", "READY", "FAILED"}
Terminal == {"READY", "FAILED"}
FailureCodes == {"NONE", "GENERATION_FAILED", "SOURCE_INSUFFICIENT"}

(* Permits of the semaphore: one per pool thread and one per queue place. *)
Capacity == Cardinality(Workers) + QueueCapacity

VARIABLES
  (* rows of the database *)
  status,          \* quiz set -> status of its row, "ABSENT" without one
  failureCode,     \* quiz set -> failure code, "NONE" unless FAILED
  startedAt,       \* the quiz sets whose generation_started_at is not null
  createdIn,       \* quiz set -> the start of the process that created the row
  material,        \* quiz set -> its learning material
  snapshot,        \* quiz set -> the body its generation request carries
  notifications,   \* quiz set -> number of notification rows for it
  content,         \* material -> its present body
  (* the process *)
  epoch,           \* which start of the process this is
  recovered,       \* has the startup recovery of this process run?
  permits,         \* available permits of the semaphore
  request,         \* quiz set -> progress of the HTTP request that creates it
  future,          \* quiz set -> state of its FutureTask
  begun,           \* tasks whose "started" flag is set
  tracked,         \* tasks the registry knows
  released,        \* tasks whose permit is back
  queue,           \* the pool's queue
  place,           \* pool thread -> where it is
  job,             \* pool thread -> the set it works for
  short,           \* threads whose first batch called the source insufficient
  toCancel,        \* sets the recovery job failed and has yet to cancel
  stranded         \* sets left GENERATING with nobody to settle them before
                   \* the next start (history)

input == <<createdIn, material, snapshot>>     \* written by the insert only
outcome == <<status, failureCode, notifications>>
db == <<input, outcome, startedAt, content>>
process == <<epoch, recovered>>
task == <<future, begun, tracked, released>>
thread == <<place, job, short>>
vars == <<status, failureCode, startedAt, createdIn, material, snapshot,
          notifications, content, epoch, recovered, permits, request, future,
          begun, tracked, released, queue, place, job, short, toCancel, stranded>>

Generating(s) == status[s] = "GENERATING"
ActiveOf(u) == {s \in Sets : Generating(s) /\ OwnerOf[material[s]] = u}
ActiveOn(m) == {s \in Sets : Generating(s) /\ material[s] = m}

Init ==
  /\ status = [s \in Sets |-> "ABSENT"]
  /\ failureCode = [s \in Sets |-> "NONE"]
  /\ startedAt = {}
  /\ createdIn = [s \in Sets |-> 0]
  /\ material = [s \in Sets |-> CHOOSE m \in Materials : TRUE]
  /\ snapshot = [s \in Sets |-> CHOOSE c \in Contents : TRUE]
  /\ notifications = [s \in Sets |-> 0]
  /\ content \in [Materials -> Contents]
  /\ epoch = 0
  /\ recovered = FALSE
  /\ permits = Capacity
  /\ request = [s \in Sets |-> "idle"]
  /\ future = [s \in Sets |-> "none"]
  /\ begun = {} /\ tracked = {} /\ released = {}
  /\ queue = <<>>
  /\ place = [w \in Workers |-> "unborn"]
  /\ job = [w \in Workers |-> NoSet]
  /\ short = {}
  /\ toCancel = {}
  /\ stranded = {}

-------------------------------------------------------------------------------
(* Requests                                                                  *)

(* accept takes a permit before it touches the database; with none left the
   request ends as GENERATION_UNAVAILABLE and changes nothing. *)
Reserve(s) ==
  /\ request[s] = "idle"
  /\ permits > 0
  /\ permits' = permits - 1
  /\ request' = [request EXCEPT ![s] = "reserved"]
  /\ UNCHANGED <<db, process, task, queue, thread, toCancel, stranded>>

(* The acceptance transaction commits: the material is locked and belongs to
   the user, the client's content revision is the present one, and the unique
   index on the user's GENERATING row accepts the insert. *)
InsertRow(s, m) ==
  /\ ActiveOf(OwnerOf[m]) = {}
  /\ status' = [status EXCEPT ![s] = "GENERATING"]
  /\ createdIn' = [createdIn EXCEPT ![s] = epoch]
  /\ material' = [material EXCEPT ![s] = m]
  /\ snapshot' = [snapshot EXCEPT ![s] = content[m]]
  /\ UNCHANGED <<failureCode, startedAt, notifications, content, process, task,
                 queue, thread, toCancel>>

Accept(s, m) ==
  /\ request[s] = "reserved"
  /\ InsertRow(s, m)
  /\ request' = [request EXCEPT ![s] = "committed"]
  /\ UNCHANGED <<permits, stranded>>

(* Slip: only the paths that saw no row return the permit. *)
AcceptUnacknowledged_KeepsPermit(s, m) ==
  /\ request[s] = "reserved"
  /\ InsertRow(s, m)
  /\ request' = [request EXCEPT ![s] = "closed"]
  /\ stranded' = stranded \cup {s}
  /\ UNCHANGED permits

(* The commit succeeds in the database but its answer is lost: the caller sees
   an exception, returns the permit, and the listener is never called. *)
AcceptUnacknowledged(s, m) ==
  /\ request[s] = "reserved"
  /\ InsertRow(s, m)
  /\ request' = [request EXCEPT ![s] = "closed"]
  /\ permits' = permits + 1
  /\ stranded' = stranded \cup {s}

(* Any other end of the transaction (unknown material, CONTENT_REVISION_CONFLICT,
   GENERATION_ACTIVE, a database error) inserts nothing and returns the permit. *)
Refuse(s) ==
  /\ request[s] = "reserved"
  /\ request' = [request EXCEPT ![s] = "idle"]
  /\ permits' = permits + 1
  /\ UNCHANGED <<db, process, task, queue, thread, toCancel, stranded>>

(* A pool thread receives a task. *)
Give(w, s) ==
  /\ place' = [place EXCEPT ![w] = "taken"]
  /\ job' = [job EXCEPT ![w] = s]
  /\ UNCHANGED short

(* The AFTER_COMMIT listener. A thread pool below its core size starts a thread
   for the task, otherwise the task is queued. *)
Schedule(s) ==
  /\ request[s] = "committed"
  /\ request' = [request EXCEPT ![s] = "closed"]
  /\ future' = [future EXCEPT ![s] = "new"]
  /\ tracked' = tracked \cup {s}
  /\ \/ \E w \in Workers : place[w] = "unborn" /\ Give(w, s) /\ UNCHANGED queue
     \/ /\ \A w \in Workers : place[w] # "unborn"
        /\ Len(queue) < QueueCapacity
        /\ queue' = Append(queue, s)
        /\ UNCHANGED thread
  /\ UNCHANGED <<db, process, permits, begun, released, toCancel, stranded>>

(* All threads exist and the queue is full: AbortPolicy rejects, the registry
   forgets and cancels the task and returns its permit. The listener then calls
   failGeneration, which is @Transactional(REQUIRED) and joins the transaction
   whose completion is being reported: it is over, the locking query is refused
   for want of a transaction, and failSafely swallows the exception. The row
   stays GENERATING. *)
ScheduleRejected(s) ==
  /\ request[s] = "committed"
  /\ \A w \in Workers : place[w] # "unborn"
  /\ Len(queue) >= QueueCapacity
  /\ request' = [request EXCEPT ![s] = "closed"]
  /\ future' = [future EXCEPT ![s] = "rejected"]
  /\ released' = released \cup {s}
  /\ permits' = permits + 1
  /\ stranded' = stranded \cup {s}
  /\ UNCHANGED <<db, process, begun, tracked, queue, thread, toCancel>>

(* Slip: the edit does not look for a set being generated. *)
UpdateContent_Unlocked(m, c) ==
  /\ content' = [content EXCEPT ![m] = c]
  /\ UNCHANGED <<input, outcome, startedAt, process, permits, request, task, queue,
                 thread, toCancel, stranded>>

(* A user edits the body of a material; refused while a set of it generates. *)
UpdateContent(m, c) ==
  /\ ActiveOn(m) = {}
  /\ content' = [content EXCEPT ![m] = c]
  /\ UNCHANGED <<input, outcome, startedAt, process, permits, request, task, queue,
                 thread, toCancel, stranded>>

-------------------------------------------------------------------------------
(* The pool and the worker                                                   *)

At(w, p) == place[w] = p
Move(w, p) == place' = [place EXCEPT ![w] = p] /\ UNCHANGED <<job, short>>

(* A thread is done with its task. *)
Drop(w, p) ==
  /\ place' = [place EXCEPT ![w] = p]
  /\ job' = [job EXCEPT ![w] = NoSet]
  /\ short' = short \ {w}

(* An idle thread polls the queue. *)
Take(w) ==
  /\ At(w, "idle")
  /\ queue # <<>>
  /\ Give(w, Head(queue))
  /\ queue' = Tail(queue)
  /\ UNCHANGED <<db, process, permits, request, task, toCancel, stranded>>

(* FutureTask.run has found the task new and is about to call it; a cancellation
   may still come in before the call's first statement sets "started". (run also
   skips a cancelled task, but none is cancelled before it begins, see
   OnlyBegunCancelled.) *)
Run(w) ==
  /\ At(w, "taken")
  /\ future[job[w]] = "new"
  /\ Move(w, "called")
  /\ UNCHANGED <<db, process, permits, request, task, queue, toCancel, stranded>>

Begin(w) ==
  /\ At(w, "called")
  /\ begun' = begun \cup {job[w]}
  /\ Move(w, "mark")
  /\ UNCHANGED <<db, process, permits, request, future, tracked, released, queue,
                 toCancel, stranded>>

(* markStarted: a set no longer GENERATING ends the task; the first call sets
   generationStartedAt. *)
MarkStarted(w) ==
  /\ At(w, "mark")
  /\ IF Generating(job[w])
     THEN startedAt' = startedAt \cup {job[w]} /\ Move(w, "first")
     ELSE Move(w, "finally") /\ UNCHANGED startedAt
  /\ UNCHANGED <<input, outcome, content, process, permits, request, task, queue,
                 toCancel, stranded>>

(* The transaction of markStarted or of complete fails: the exception leads to
   failSafely. *)
DatabaseFails(w) ==
  /\ place[w] \in {"mark", "complete"}
  /\ Move(w, "failGeneration")
  /\ UNCHANGED <<db, process, permits, request, task, queue, toCancel, stranded>>

(* Slip: the status is not looked at again under the lock. *)
Settle_Unchecked(s, final, reason) ==
  /\ status' = [status EXCEPT ![s] = final]
  /\ failureCode' = [failureCode EXCEPT ![s] = reason]
  /\ notifications' = [notifications EXCEPT ![s] = @ + 1]

(* complete and failGeneration: under the row lock a set still GENERATING gets
   its outcome and its notification; a settled one is left alone. *)
Settle(s, final, reason) ==
  IF Generating(s)
  THEN /\ status' = [status EXCEPT ![s] = final]
       /\ failureCode' = [failureCode EXCEPT ![s] = reason]
       /\ notifications' = [notifications EXCEPT ![s] = @ + 1]
  ELSE UNCHANGED outcome

(* The transaction of markStarted or of complete commits, but its answer is
   lost: the same exception, with the row changed. *)
CommitUnacknowledged(w) ==
  /\ \/ /\ At(w, "mark")
        /\ Generating(job[w])
        /\ startedAt' = startedAt \cup {job[w]}
        /\ UNCHANGED outcome
     \/ /\ At(w, "complete")
        /\ Settle(job[w], "READY", "NONE")
        /\ UNCHANGED startedAt
  /\ Move(w, "failGeneration")
  /\ UNCHANGED <<input, content, process, permits, request, task, queue, toCancel, stranded>>

(* The language model fails, times out, or the call is interrupted. *)
ModelFails(w) ==
  /\ place[w] \in {"first", "second"}
  /\ Move(w, "failGeneration")
  /\ UNCHANGED <<db, process, permits, request, task, queue, toCancel, stranded>>

(* A batch brings the valid questions to the minimum. *)
ModelSuffices(w) ==
  /\ place[w] \in {"first", "second"}
  /\ Move(w, "complete")
  /\ UNCHANGED <<db, process, permits, request, task, queue, toCancel, stranded>>

(* The first batch is short: a supplement is asked for. insufficient: the model
   called the source insufficient. *)
FirstFallsShort(w, insufficient) ==
  /\ At(w, "first")
  /\ place' = [place EXCEPT ![w] = "second"]
  /\ short' = IF insufficient THEN short \cup {w} ELSE short
  /\ UNCHANGED job
  /\ UNCHANGED <<db, process, permits, request, task, queue, toCancel, stranded>>

(* The supplement is short too: SOURCE_INSUFFICIENT when both batches said so. *)
SecondFallsShort(w, insufficient) ==
  /\ At(w, "second")
  /\ Move(w, IF w \in short /\ insufficient THEN "failSource" ELSE "failGeneration")
  /\ UNCHANGED <<db, process, permits, request, task, queue, toCancel, stranded>>

Complete(w) ==
  /\ At(w, "complete")
  /\ Settle(job[w], "READY", "NONE")
  /\ Move(w, "finally")
  /\ UNCHANGED <<input, startedAt, content, process, permits, request, task, queue,
                 toCancel, stranded>>

Fail(w) ==
  /\ place[w] \in {"failGeneration", "failSource"}
  /\ Settle(job[w], "FAILED",
            IF At(w, "failSource") THEN "SOURCE_INSUFFICIENT" ELSE "GENERATION_FAILED")
  /\ Move(w, "finally")
  /\ UNCHANGED <<input, startedAt, content, process, permits, request, task, queue,
                 toCancel, stranded>>

(* failSafely swallows a failure of failGeneration. A set whose start was
   recorded is left to the recovery job; one whose start was not is not. *)
FailSwallowed(w) ==
  /\ place[w] \in {"failGeneration", "failSource"}
  /\ Move(w, "finally")
  /\ stranded' = IF Generating(job[w]) /\ job[w] \notin startedAt
                 THEN stranded \cup {job[w]} ELSE stranded
  /\ UNCHANGED <<db, process, permits, request, task, queue, toCancel>>

(* Slip: only a task the registry still knows returns its permit. *)
FinishReleases_Tracked(s) == s \in tracked /\ s \notin released

(* complete returns the permit; the AtomicBoolean lets that happen once. *)
FinishReleases(s) == s \notin released

(* The task's finally block: forget the task, return its permit. *)
Finish(w) ==
  LET s == job[w] IN
  /\ At(w, "finally")
  /\ IF FinishReleases(s)
     THEN permits' = permits + 1 /\ released' = released \cup {s}
     ELSE UNCHANGED <<permits, released>>
  /\ tracked' = tracked \ {s}
  /\ future' = [future EXCEPT ![s] = IF @ = "new" THEN "done" ELSE @]
  /\ Drop(w, "returning")
  /\ UNCHANGED <<db, process, request, begun, queue, toCancel, stranded>>

(* Only now does the thread go back to the queue: the permit went first. *)
Return(w) ==
  /\ At(w, "returning")
  /\ Move(w, "idle")
  /\ UNCHANGED <<db, process, permits, request, task, queue, toCancel, stranded>>

-------------------------------------------------------------------------------
(* Recovery and restart                                                      *)

(* The rows of S are failed. *)
FailRows(S) ==
  /\ status' = [s \in Sets |-> IF s \in S THEN "FAILED" ELSE status[s]]
  /\ failureCode' = [s \in Sets |-> IF s \in S THEN "GENERATION_FAILED"
                                     ELSE failureCode[s]]

(* Slip: the recovery does not save a notification. *)
FailAll_Silent(S) == FailRows(S) /\ UNCHANGED notifications

FailAll(S) ==
  /\ FailRows(S)
  /\ notifications' = [s \in Sets |-> IF s \in S THEN notifications[s] + 1
                                       ELSE notifications[s]]

(* One run of the recovery job fails, in one transaction, the sets whose recorded
   start is older than the limit; how long an execution has lasted is left open,
   so S is any of the started ones. *)
Started == {s \in startedAt : Generating(s)}

FailStale(S) ==
  /\ toCancel = {}
  /\ S # {}
  /\ S \subseteq Started
  /\ FailAll(S)
  /\ toCancel' = S
  /\ UNCHANGED <<input, startedAt, content, process, permits, request, task, queue,
                 thread, stranded>>

(* Then it cancels their tasks, one by one. The permit of a task that has begun
   is left to the task's own finally block. *)
CancelledFuture_Kept(f) == f  \* slip: the task is forgotten, not cancelled

CancelledFuture(f) == IF f = "new" THEN "cancelled" ELSE f

CancelReleases(s) == s \notin begun \cup released

Cancel(s) ==
  /\ s \in toCancel
  /\ toCancel' = toCancel \ {s}
  /\ tracked' = tracked \ {s}
  /\ future' = IF s \in tracked THEN [future EXCEPT ![s] = CancelledFuture(@)]
               ELSE future
  /\ IF s \in tracked /\ CancelReleases(s)
     THEN permits' = permits + 1 /\ released' = released \cup {s}
     ELSE UNCHANGED <<permits, released>>
  /\ UNCHANGED <<db, process, request, begun, queue, thread, stranded>>

(* The process dies and starts again: memory is lost, rows stay. *)
Restart ==
  /\ epoch < MaxEpoch
  /\ epoch' = epoch + 1
  /\ recovered' = FALSE
  /\ permits' = Capacity
  /\ request' = [s \in Sets |->
                   IF request[s] = "reserved" THEN "idle"
                   ELSE IF request[s] = "committed" THEN "closed" ELSE request[s]]
  /\ future' = [s \in Sets |-> "none"]
  /\ begun' = {} /\ tracked' = {} /\ released' = {}
  /\ queue' = <<>>
  /\ place' = [w \in Workers |-> "unborn"]
  /\ job' = [w \in Workers |-> NoSet]
  /\ short' = {}
  /\ toCancel' = {}
  /\ stranded' = {}
  /\ UNCHANGED db

(* ApplicationReady: every set created before this process is failed. Requests
   are served before this runs, so younger sets may exist. *)
Interrupted == {s \in Sets : Generating(s) /\ createdIn[s] < epoch}

RecoverAtStartup ==
  /\ ~recovered
  /\ recovered' = TRUE
  /\ FailAll(Interrupted)
  /\ UNCHANGED <<input, startedAt, content, epoch, permits, request, task, queue,
                 thread, toCancel, stranded>>

-------------------------------------------------------------------------------
Requests ==
  \/ \E s \in Sets : Reserve(s) \/ Refuse(s)
  \/ \E s \in Sets, m \in Materials : Accept(s, m) \/ AcceptUnacknowledged(s, m)
  \/ \E m \in Materials, c \in Contents : UpdateContent(m, c)

Listener(s) == Schedule(s) \/ ScheduleRejected(s)

(* What a thread does by itself; the language model answers in ModelStep. *)
ThreadStep(w) ==
  \/ Take(w) \/ Run(w) \/ Begin(w)
  \/ MarkStarted(w) \/ DatabaseFails(w) \/ CommitUnacknowledged(w)
  \/ Complete(w) \/ Fail(w) \/ FailSwallowed(w)
  \/ Finish(w) \/ Return(w)

ModelStep(w) ==
  \/ ModelFails(w) \/ ModelSuffices(w)
  \/ \E b \in BOOLEAN : FirstFallsShort(w, b) \/ SecondFallsShort(w, b)

Next ==
  \/ Requests
  \/ \E s \in Sets : Listener(s) \/ Cancel(s)
  \/ \E w \in Workers : ThreadStep(w) \/ ModelStep(w)
  \/ \E S \in SUBSET Sets : FailStale(S)
  \/ RecoverAtStartup
  \/ Restart

Spec == Init /\ [][Next]_vars

(* Fairness. Committed requests reach their listener, threads go on by
   themselves, the scheduler runs the recovery job again and again, so a set that
   stays started is found stale at last, and cancels what it failed; the startup
   event is delivered. The language model may never answer: only a call whose
   task was cancelled, hence interrupted, returns. *)
InterruptedCall(w) ==
  /\ place[w] \in {"first", "second"}
  /\ future[job[w]] = "cancelled"
  /\ ModelFails(w)

Fairness ==
  /\ \A s \in Sets : WF_vars(Listener(s)) /\ WF_vars(Cancel(s))
  /\ \A s \in Sets : WF_vars(\E S \in SUBSET Sets : s \in S /\ FailStale(S))
  /\ \A w \in Workers : WF_vars(ThreadStep(w)) /\ WF_vars(InterruptedCall(w))
  /\ WF_vars(RecoverAtStartup)

FairSpec == Spec /\ Fairness

-------------------------------------------------------------------------------
(* Properties                                                                *)

Places == {"unborn", "idle", "taken", "called", "mark", "first", "second",
           "complete", "failGeneration", "failSource", "finally", "returning"}

(* Every variable holds values the rows, objects and threads can hold. *)
TypeOK ==
  /\ status \in [Sets -> Statuses]
  /\ failureCode \in [Sets -> FailureCodes]
  /\ createdIn \in [Sets -> Nat]
  /\ material \in [Sets -> Materials]
  /\ snapshot \in [Sets -> Contents]
  /\ notifications \in [Sets -> Nat]
  /\ content \in [Materials -> Contents]
  /\ epoch \in Nat /\ recovered \in BOOLEAN
  /\ permits \in 0..Capacity
  /\ request \in [Sets -> {"idle", "reserved", "committed", "closed"}]
  /\ future \in [Sets -> {"none", "new", "cancelled", "done", "rejected"}]
  /\ startedAt \subseteq Sets /\ begun \subseteq Sets /\ tracked \subseteq Sets
  /\ released \subseteq Sets /\ toCancel \subseteq Sets /\ stranded \subseteq Sets
  /\ queue \in Seq(Sets)
  /\ place \in [Workers -> Places]
  /\ job \in [Workers -> Sets \cup {NoSet}]
  /\ short \subseteq Workers

Queued == {queue[i] : i \in DOMAIN queue}
Working == {"called", "mark", "first", "second", "complete", "failGeneration",
            "failSource", "finally"}

(* Sets whose request or task has a permit out. *)
Holding == {s \in Sets : \/ request[s] \in {"reserved", "committed"}
                        \/ (future[s] # "none" /\ s \notin released)}

(* The semaphore neither leaks a permit nor gets one back twice, whether a
   request is refused, a task is rejected, ends, or is cancelled while it ends
   (QuizGenerationTaskRegistry.execute, cancel, complete, release). *)
PermitsConserved == permits + Cardinality(Holding) = Capacity

(* A pool thread never works for a set whose permit is already back: what runs
   and what waits stays within the capacity the semaphore stands for. *)
WorkHoldsPermit ==
  /\ \A w \in Workers : place[w] \in Working => job[w] \notin released
  /\ Queued \cap released = {}

(* The recovery job never cancels a task still waiting in the queue: only a task
   that has begun can have the recorded start the job looks for. *)
OnlyBegunCancelled == \A s \in Sets : future[s] = "cancelled" => s \in begun

(* While a set is generated its material keeps the body the model was given
   (the acceptance snapshot against LearningMaterialUpdateService.update). *)
ContentFrozen ==
  \A s \in Sets : Generating(s) => content[material[s]] = snapshot[s]

(* A settled set has one notification, any other none: late workers, the recovery
   job and the startup recovery race for the same row. *)
ToldOnce ==
  \A s \in Sets : notifications[s] = IF status[s] \in Terminal THEN 1 ELSE 0

(* A set in GENERATING has somebody who will settle it: its listener, a queue
   place, a thread, the recovery job (its start is recorded), the startup
   recovery, or else it is one of the sets the code is known to strand. *)
AtWork(s) == \E w \in Workers : job[w] = s /\ place[w] # "finally"
HasKeeper(s) ==
  \/ request[s] = "committed"
  \/ s \in Queued
  \/ AtWork(s)
  \/ s \in startedAt
  \/ createdIn[s] < epoch /\ ~recovered
  \/ s \in stranded

SomebodyWillSettle == \A s \in Sets : Generating(s) => HasKeeper(s)

(* The listener settles a set whose task the pool rejects. *)
RejectedIsFailed ==
  \A s \in Sets : future[s] = "rejected" => status[s] = "FAILED"

(* What is settled stays as it is: a late model answer, a late failure or a late
   recovery changes neither the outcome nor the failure code nor the start. *)
SettledIsFinal ==
  [][\A s \in Sets : status[s] \in Terminal =>
       /\ status'[s] = status[s]
       /\ failureCode'[s] = failureCode[s]
       /\ s \in startedAt' <=> s \in startedAt]_vars

(* An accepted set is settled at last, even when its model call never returns,
   unless it is stranded. *)
Settles == \A s \in Sets : Generating(s) ~> (~Generating(s) \/ s \in stranded)

(* A restart frees every set of the earlier processes, stranded ones included. *)
RestartSettles ==
  \A s \in Sets : (Generating(s) /\ createdIn[s] < epoch) ~> ~Generating(s)

(* A permit taken for an accepted set always comes back. *)
PermitComesBack == \A s \in Sets : request[s] = "committed" ~> s \notin Holding

-------------------------------------------------------------------------------
(* The inductive invariant behind the safety properties                      *)

Busy == Working \cup {"taken"}

(* What a row, its request and its task have to do with each other. *)
RowsAndTasks ==
  /\ \A s \in Sets :
       /\ createdIn[s] <= epoch
       /\ request[s] \in {"idle", "reserved"} => status[s] = "ABSENT"
       /\ request[s] # "closed" =>
            /\ s \notin startedAt \cup begun \cup tracked \cup released
            /\ future[s] = "none"
  /\ startedAt \cap tracked \subseteq begun
  /\ toCancel \subseteq startedAt

(* What waits in the queue is new and waits there once. *)
QueueOK ==
  \A i \in DOMAIN queue :
    /\ future[queue[i]] = "new"
    /\ queue[i] \notin begun \cup released
    /\ \A j \in DOMAIN queue : queue[i] = queue[j] => i = j

(* A thread that has a task has it alone, and its permit is still out. *)
ThreadOK(w) ==
  IF place[w] \in Busy
  THEN /\ job[w] \in Sets
       /\ future[job[w]] \in {"new", "cancelled"}
       /\ job[w] \notin released
       /\ job[w] \in begun <=> place[w] \notin {"taken", "called"}
       /\ \A i \in DOMAIN queue : queue[i] # job[w]
       /\ \A v \in Workers : job[v] = job[w] => v = w
  ELSE job[w] = NoSet

IInv ==
  /\ TypeOK
  /\ RowsAndTasks
  /\ QueueOK
  /\ \A w \in Workers : ThreadOK(w)
  /\ PermitsConserved
  /\ OnlyBegunCancelled
  /\ ContentFrozen
  /\ ToldOnce
  /\ SomebodyWillSettle

(* Quiz generation keeps the promise of GenerationLifecycle. *)
Lifecycle == INSTANCE GenerationLifecycle WITH
  owner <- [s \in Sets |-> OwnerOf[material[s]]],
  told <- notifications
ImplementsLifecycle == Lifecycle!Spec

-------------------------------------------------------------------------------
(* What the runs check, a name for each question                             *)

(* Permits, threads and queue agree: no permit is lost or doubled, nothing works or
   waits without one, and only what has begun is cancelled. *)
PoolIsSound == TypeOK /\ PermitsConserved /\ WorkHoldsPermit /\ OnlyBegunCancelled

(* A set under way is made of the body its material still has, and has somebody who
   will settle it. *)
GeneratingIsKept == ContentFrozen /\ SomebodyWillSettle

(* Outcomes come as GenerationLifecycle promises and are never changed again. *)
OutcomesAreKept == ImplementsLifecycle /\ SettledIsFinal

(* Every set is settled: in its process unless it is stranded there, and at the latest
   by the start of the next. *)
EverySetSettles == Settles /\ RestartSettles
=============================================================================
