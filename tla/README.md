# Open.md in TLA+

Open.md turns learning material into quizzes. A Spring Boot server (`server/`) keeps accounts, materials,
quiz sets and attempts in MySQL and short-lived state in Redis; it asks a language model for the questions
and the Expo push service to reach phones. A React web application (`web/`) is the user interface, and an
Expo shell (`app/`) shows it on a phone and registers the phone for pushes. This directory holds TLA+ models
of the parts whose correctness depends on order, concurrency or failure, the TLC runs that check them, and
the theorems TLAPS proves about them.

`tlc -config <run>.cfg <module>` checks a run and `tlapm <module>_proofs.tla` checks proofs. `PROJECT.json`
lists the runs, the source lines of every definition, the hazards, and for every property a mutant (a plausible
slip of the code, kept beside the definition it changes and marked `slip`) that breaks it.

## Inventory

## Inventory

| Component | State | Operations | What is hard | What makes it correct | Status |
|---|---|---|---|---|---|
| Quiz generation (`server/.../quiz/service/QuizGeneration*`) | `quiz_sets`, `notifications` rows; semaphore, task registry, thread pool in memory | accept, listener, worker, stale recovery, startup recovery, material edit | threads, commit then hand-off, crash, lost answers, late model answers | one active set per user, settled once, told once, permits conserved, every set settled at last | modelled, proved |
| Push delivery (`server/.../push/service/PushDelivery*`, `PushOutboxService`, `push/repository`) | `push_deliveries` rows with leases and attempts | enqueue, claim, prepare, fence, send, record, receipts, recover, expire, retain | two workers, crash around the provider call, leases that run out, retries, token changes | no stale worker records, at most 8 attempts, terminal is final, no send to a device that moved | modelled, proved |
| Push registration (`PushDeviceTransaction`, `PushDeviceService`, lifecycle; refresh sessions as far as they matter) | `push_devices`, `push_device_operations` rows | register, revoke, token move, session revocation | retried and reordered client calls, a session that ends while it registers | operations idempotent, revision monotone, one ACTIVE device per token | modelled, proved |
| Browser sessions (`web/src/features/auth/model`, `server/.../auth`, Redis refresh sessions) | per tab: epoch, user, access token, cached user, requests; shared: the cookie; server: sessions | bootstrap, log-in, sign-up, refresh, log-out, withdrawal, protected requests with a retry | late answers of an ended identity, two tabs on one cookie, rotation with reuse detection | one identity per tab, no token without its login, no session ended by the browser's own refreshes | modelled |
| Phone shell: device registration (`app/src/push/pushRegistrationCoordinator`, `web/src/shared/native/pushSession`) | durable record, storage queue, registration queue, timers; page's request chain; server row | register, revoke, retry, session end, token and permission change | restarts, lost answers, account switch, contexts captured before an await | the record holds only what the server gave, nothing is forgotten, the last wish settles | modelled |
| Phone shell: opened notifications (`app/src/push/pushOpen*`, `web/src/shared/native/pushOpen*`) | durable opens, the OS's last response; page's IndexedDB records and read intents | capture, deliver, present, acknowledge, mark read, clean up | cold start, reload between two writes, account switch, failing storage | a tap is not forgotten, is shown to its account only and once, and ends | modelled |
| Phone shell: documents, navigation, bridge (`app/src/shell/OpenMdWebView`, `bridgeProtocol`, `nativeBridge`) | screen, documents, nonces, sessions, scripts and events under way | load, fail, retry, renderer death, back, hello/ready/ack | events of a document that is gone, scripts that run in the next one | a session never spans two documents, a shown document gets in touch | modelled |
| Quiz attempts, grading, reviews (`web/src/pages/quiz`, `QuizAttemptSubmissionService`, `EssayAssessmentService`, `GradingOverrideService`, `QuizReviewService`) | attempts and grades; page scenes, requests of mounted and left pages | solve, submit, assess, correct, review | answers of requests of a left page, repeated submissions | nothing unassessed is passed over, an identifier stands for one set of answers | modelled |
| Quiz entry and generation notices (`QuizRoutePages`, `QuizFlowPage`, `features/notification`) | consent record, awaited and delivered sets in storage; queries; page | ask, consent, retry, wait, notify | edits while the page is open, cached data followed before it is renewed, several tabs | only agreed text is sent, no awaited set is lost, nobody is told twice | modelled, proved |
| Sign-up (`TwoStepSignUpService`, `RedisEmailVerificationStore`) | verification codes, sign-up credentials in Redis, users | request code, verify, complete | resend races, attempts limit | a code is used once, attempts bounded | not modelled |
| Learning materials (`learningmaterial/`) | `learning_materials` rows with idempotency key | create, update, query, delete | concurrent retries of one creation | one material per key | partly: edits are actions of `QuizGeneration` and `QuizEntry` |
| Notifications (`notification/`) | `notifications` rows, read marks | list, read, read all | rows created while reading all | read is final | partly: written in `QuizGeneration`, fetched in `QuizEntry`, read in `PushOpen` |
| Notion integration (`integration/notion`) | connections, OAuth state in Redis | connect, callback, import, disconnect | one-time state, refresh and revoke races | state used once, no token kept after disconnect | not modelled |
| Generation policy, candidate validation | none | apportion questions, accept a batch | rounding | counts add up | not modelled: pure functions unit tests reach |
| Home visits (`homevisit/`) | visit rows | record, count | | one row per user and day | not modelled: one `INSERT IGNORE` |
| Other web pages (`web/src/pages`) | React view state | render, edit | | | not modelled |
| Deployment (`infra/`, `scripts/`) | files and services | deploy, renew, back up | | | not modelled: operations outside the program |

### How the components meet

- A **request** of the web or the phone carries an access token of a session (Redis) and works on rows of its
  user (MySQL). Withdrawal locks the user's row, as registrations do, and ends the sessions afterwards.
- **Quiz generation** locks its learning material against edits and writes its notification in the transaction
  that settles the set. The same transaction enqueues one delivery for each ACTIVE device of the user.
- **Push delivery** reads the device beside the delivery's row and takes a device out of service when the provider
  refuses its token.
- **Push registration** is called by the phone's shell through the page in its WebView; logout and withdrawal call its
  lifecycle. That the pair of binding and token version names one address for ever is proved there (`AddressIsUnique`)
  and taken for granted by `PushDelivery`, which numbers registrations.
- The **phone's coordinators** talk to the page over the **bridge**. `WebShell` shows that a bridge session belongs to one
  document and comes up again; `PhoneRegistration` and `PushOpen` take that as their channel: messages arrive in order
  while both ends are up, and a page is replaced as a whole.
- The **page's session** in `PhoneRegistration` and `PushOpen` is one tab of `BrowserSession` with its epochs, reduced to what the phone hears of it.
- **Quiz entry** hands the route of a READY set to **quiz attempts**, and sees of quiz generation what its answers say:
  one generation at a time, the revision check, the outcome and its notification.

### Modules

| Component | Specification | Instance for TLC | Abstract specification | Proofs |
|---|---|---|---|---|
| Quiz generation | `QuizGeneration` | `MCQuizGeneration` | `GenerationLifecycle` | `QuizGeneration_proofs` |
| Push delivery | `PushDelivery` | `MCPushDelivery` | `PushLifecycle` | `PushDelivery_proofs` |
| Push registration | `PushRegistration` | `MCPushRegistration` | | `PushRegistration_proofs` |
| Browser sessions | `BrowserSession` | (its cfg) | | `BrowserSession_proofs` |
| Device registration of the phone | `PhoneRegistration` | (its cfg) | | `PhoneRegistration_proofs` |
| Opened notifications; documents and bridge | `PushOpen`; `WebShell` | `MCPhoneShell` | | `PhoneShell_proofs` |
| Quiz attempts | `QuizAttempt` | `MCQuizAttempt` | | `QuizAttempt_proofs` |
| Quiz entry | `QuizEntry` | (its cfg) | | `QuizEntry_proofs` |

Every operation, transaction, handler or continuation is one action. Parameters are CONSTANTS with named assumptions,
and no module uses a RECURSIVE operator. Where a run asks several questions of one part at once, their conjunction has a name
(`PoolIsSound`, `RowsAreSound`, ...) at the end of the module; the parts keep names of their own.

## Quiz generation

**Modules.** `GenerationLifecycle` (abstract), `QuizGeneration` (detailed), `MCQuizGeneration` (instances),
`QuizGeneration_proofs`.

**State.** Rows: `status`, `failureCode`, `startedAt` (the sets whose `generation_started_at` is set), `createdIn` (the
start of the process that created the row, for the comparison of `created_at` with the process start), `material`,
`snapshot` (the body copied at acceptance), `notifications`, and `content` of each material. Process: `permits` of the
semaphore, `request` (reserved, committed, closed), `future`/`begun`/`tracked`/`released` (the `FutureTask`, its "started"
flag, the registry's map, the permit's `AtomicBoolean`), the pool's `queue`, and for each thread its `place`, `job` and
whether its first batch called the source insufficient (`short`). `toCancel` is what the recovery job has failed and has
yet to cancel. `stranded` is history.

**Actions.**

| Action | Code |
|---|---|
| `Reserve`, `Accept`, `Refuse`, `AcceptUnacknowledged` | `QuizGenerationService.accept`: permit, transaction, the two ways out; the last is a commit whose answer is lost |
| `Schedule`, `ScheduleRejected` | `QuizGenerationWorker`'s AFTER_COMMIT listener and `QuizGenerationTaskRegistry.execute` on a bounded pool |
| `UpdateContent` | `LearningMaterialUpdateService.update` |
| `Take`, `Run`, `Begin`, `MarkStarted`, `ModelSuffices`, `FirstFallsShort`, `SecondFallsShort`, `ModelFails`, `Complete`, `Fail`, `FailSwallowed`, `DatabaseFails`, `CommitUnacknowledged`, `Finish`, `Return` | a pool thread from `FutureTask.run` to the pool's queue, the worker's two batches and the persistence service's transactions |
| `FailStale`, `Cancel` | `QuizGenerationRecovery`: one transaction fails stale sets, then each task is cancelled |
| `Restart`, `RecoverAtStartup` | process death and `QuizGenerationStartupRecovery` |

**Runs.**

| Run | Instance | Distinct states | Shows |
|---|---|---|---|
| `QuizGenerationContention` | 4 sets, 2 users with a material each, 2 threads, queue of 1, one process | 1.95 million | `PoolIsSound` (types, `PermitsConserved`, `WorkHoldsPermit`, `OnlyBegunCancelled`), `ToldOnce` |
| `QuizGenerationProgress` | 2 sets, 1 thread, queue of 1, 2 bodies, one restart | 254 thousand | `GeneratingIsKept` (`ContentFrozen`, `SomebodyWillSettle`), `OutcomesAreKept` (`SettledIsFinal`, `ImplementsLifecycle`), `EverySetSettles` (`Settles`, `RestartSettles`), `PermitComesBack` |
| `QuizGenerationRejected` | 3 sets, 1 thread | violation | `RejectedIsFailed`, see Findings |

*Bounds.* Four sets on three permits are the fewest with which two threads and the queue are full and the pool rejects a
task, which needs one thread between `Finish` and `Return`. Two users with a material each are the fewest for two active
sets. Two bodies tell a frozen material from an edited one. With one thread and two sets a set waits behind a model call
that never returns. `MaxEpoch = 1` gives one restart, so rows of an earlier process meet requests of the new one. A
restart clears everything but the rows, and a row a restart did not settle is treated the same at the next. Sets and threads
are interchangeable (`PoolSymmetry`), which is used for the run without liveness only. CHECK_DEADLOCK is off: when every set has been used and the last process has settled what it can,
nothing more happens.

*Fairness.* Weak fairness for the listener (Spring calls it after every commit), for each step of a pool thread, for the
startup event, for the recovery job (a fixed-delay schedule that finds every set that stays started) and for the cancellation of
what it failed. None for the language model: a call may never answer. Only a call whose task was cancelled, hence
interrupted, returns (`InterruptedCall`). Requests and edits are never fair.

*What the model says.* `SomebodyWillSettle` names who will settle each GENERATING set and leaves three kinds to the next
process start: a commit whose answer was lost, a task the pool rejected, and a worker whose `markStarted` and
`failGeneration` both failed. `stranded` collects exactly these, and `Settles` is stated up to it; `RestartSettles` says that the
next start frees them.

**Proofs.** All safety properties of the runs and the refinement, for any number of sets, users, materials, threads, queue
places and restarts, from the assumptions named in the module (finitely many sets and threads, at least one thread, a
queue of at least one place). The inductive invariant `IInv` adds to the properties: `RowsAndTasks` (a request that is not
closed has no task, a failed set to be cancelled has begun), `QueueOK` (what waits is new, unreleased and waits once) and
`ThreadOK` (a working thread has its set alone, with its permit out). Without the last two, `PermitsConserved` is not
inductive: a permit could be returned for a set that another thread or queue place still holds. `PermitMoves` counts the permits by
how the set `Holding` changes in a step. The settling steps are summed up in `StepEffect`, from which both
`OutcomeIsFinal` and the refinement follow.

## Push delivery

**Modules.** `PushLifecycle` (abstract), `PushDelivery` (detailed), `MCPushDelivery`, `PushDelivery_proofs`.

**State.** Rows of `push_deliveries`: `state`, `attempts`, `holder` (the worker behind `attempt_id`), `snapshot` (the registration
they were made for); rows of `push_devices`: `registration` (a number for each pair of binding and token version),
`active`, `deleted`. Time is not counted: `due`, `lapsed`, `expired` and `aged` say which instants have passed for a row, and each may pass
between any two steps in the orders the policy's instants allow. Workers: `stage`, `batch`, `ready`, `address` (whose
token the message carries), `late`. History: `posted`, `postedTo`, `refused`.

**Actions.** One per transaction of `PushDeliveryTransaction` and `PushDeliveryClaimStore` and one for the call of the gateway: `RecoverLeases`,
`ClaimSend`, `Prepare`, `Renew`, `Post`, the `Record...` family (ticket, retry, invalid token, failure, stale), `ClaimReceipts`, `RecordReceipt`,
`RecordNoReceipt`; `Enqueue` (the outbox); `Register`, `Revoke`, `DeleteDevice`, `Retain` (what others do to the rows);
`ComesDue`, `Lapses`, `Expires`, `Ages`; `Abort` (a transaction fails and `safely` ends this part of the tick) and `Crash`.
The provider's answers are nondeterministic: any delivery may get a ticket, a retryable or final refusal, or no
answer at all, and the message may have been delivered in each of these cases.

**Runs.**

| Run | Instance | Distinct states | Shows |
|---|---|---|---|
| `PushDelivery`, scenario "rivals" | 1 delivery, 2 workers, 2 attempts, 2 registrations, 1 crash or failed transaction | 274 thousand with "batch" | `ClaimsAreSound` (types, `PostsArePaid`, `ClaimsHaveHolders`, `NoneExhausted`), `WellAddressed`, `LateIsIdle` (`LeaseRespected`, `OnlyRefusedDropped`), `ImplementsLifecycle`, `DeliveriesEnd` (`EveryDeliveryEnds`, `ClaimsAreFreed`) |
| `PushDelivery`, scenario "batch" | 2 deliveries to 1 device, 1 worker, batches of 2, nothing fails | | the same |

*Bounds.* One run checks two scenarios; its first choice (`scenario` of `MCPushDelivery`) is which. In "rivals" two workers suffice for
every race over one row: the one that lost it and the one that has it. In "batch" what one row of a batch does to the others is
the question. `MaxAttempts = 2` tells a first attempt, a retry and the last one apart (8 in the code). `MaxRegistrations = 2` gives the
registration a delivery was made for and another one. `BatchSize = 2` lets part of a batch drop out. `MaxMishaps = 1`: lapsing leases
already give the effects of a slow worker any number of times, a crash adds the forgetting.

*Fairness.* Weak fairness for a worker's next step: the scheduler runs tick after tick, with sending enabled. Weak fairness for
the instants too, since each stays possible until it passes, but for the day after which a receipt is given up: it can pass in two
states between which a row may alternate (`TICKET_ACCEPTED`, `RECEIPT_CHECKING`), hence strong fairness for `Ages`. Devices, crashes and
retention are never fair. With sending switched off nothing closes a delivery but retention, and the liveness properties do not apply.

**Proofs.** Every safety property of the runs and the refinement of `PushLifecycle`, for any number of deliveries, devices, workers,
attempts and mishaps. `IInv` adds `Shape` (which rows a worker can have in hand at which stage), `Held` (a row in hand
that is still the worker's is in the state it was claimed for), `Addressed` (a message not yet posted carries the token the
delivery was made for) and `Fresh`. `PostsArePaid` counts the workers that may still post a row: it is inductive only
because each claim both counts an attempt and adds one poster.

## Push registration

**Modules.** `PushRegistration`, `MCPushRegistration`, `PushRegistration_proofs`.

**State.** `device` (rows of `push_devices` by installation), `bindings` (binding ids given out), `log` (rows of
`push_device_operations`), `withdrawn` users; in Redis the `live` sessions and the `generation` of their refresh token; the
client's `intent` behind each operation id; for each server thread its `stage` (opened, viewed, committed, lapsed), the operation and
session it serves and the rows it has read (`seen`); for each session what its `logout` does next and how many rotations
the token it `carried` has seen. The rest is history for the properties.

**Actions.** `Open`, `View`, `Retry`, `Reject`, `Replay`, `Conflict`, `Register`, `Disable`, `DenyUnknown`, `Check`,
`Compensate`, `Fail` are `PushDeviceService.register` with `PushDeviceTransaction.register`: session check, the transaction's
reading half, its writing half by outcome, the second session check and its compensation. `Revoke` is the
installation's own revocation. `LogOut`, `Inspect`, `End`, `CleanUp`, `GiveUp` are `AuthService.logout`; `Rotate`, `Lapse`, `Withdraw`, `RevokeAll`,
`Refuse`, `Purge`, `PurgeDevice`, `Expire` are what sessions, accounts, the provider, retention and time do. An intent can be sent any
number of times, in any order, by several threads: lost answers, retries and duplicates are all in that.

*Abstractions.* The writing half is one action: it holds the locks of its rows and of the user's row. The operation's log row is
looked up in it rather than in `View`: the user's lock keeps other registrations of the user out and `Purge` waits.
`Reject` and `Retry` are open, since any transaction may fail. A registration is sent by its own installation with the
right key; rate limits are left out. `Refuse` takes any ACTIVE installation down; `PushDelivery` models when the server does so.
`PurgeDevice` waits for earlier operations to be purged, because 30 days are more than 7 and 7 days more than 24 hours.

**Runs.**

| Run | Instance | Distinct states | Shows |
|---|---|---|---|
| `PushRegistration`, scenario "leaving" | 1 installation, an account whose session logs out, rotates or lapses, 2 operations, 2 threads, 1 mishap | 1.57 million, all three | `RowsAreSound` (types, `TokenIsUnique`, `AddressIsUnique`), `EndedIsSilent` (`LoggedOutIsSilent`, `WithdrawnHasNothing`), `DoneOnce` (`OnceOnly`, `SameAnswer`), `ChangesOnlyItsOwn` (`KeepsToItsUser`, `LateRevokeIsIdle`) |
| scenario "moving" | 2 installations, 1 token, 2 accounts, one withdraws, 2 operations, 2 threads | | the same |
| scenario "renewing" | 1 installation, 2 tokens, 2 accounts, one withdraws, 3 operations, one after the other | | the same |
| `PushRegistrationLogoutRotated` | 1 installation, 1 session, 1 rotation | violation | `EveryLogoutSilences`, see Findings |

*Bounds.* `Contents` lists what clients may want; each scenario of `MCPushRegistration` lists the wants its question needs, any operation
can carry any of them. `Withdrawing`, `LoggingOut` and `Lapsing` name the accounts and sessions to which these things happen,
`MaxRotations` and `MaxMishaps` how often. Two threads are enough for a registration and one that overtakes it; in "renewing" the
order of transactions is the question, so one request at a time and three operations: bind, take over, come back. Threads and
operations are interchangeable. CHECK_DEADLOCK is off: when every intent has expired and every session is over, nothing more happens.

*Fairness.* None: the runs' questions are safety. A registration whose client gives up owes nobody anything.

**Proofs.** Every safety property of the passing runs, for any number of installations, accounts, sessions, tokens, operations, threads,
rotations and mishaps. `IInv` consists of `Intended`/`Requested` (well-formed intents and requests), `Addressed` and
`Named` (a binding in use was given out, to one installation and one account; the binding a revocation names belongs to its
account), `SessionInv` (a session whose logout has cleaned up is over), `Locks` (a viewed registration excludes the withdrawal of its user), `LogInv`, `ChangesInv` (what has changed its
installation once is in the log, purged, of a withdrawn account or, for a revocation, names a binding that is in use nowhere) and
`AnswerInv` (the one answer of an operation is the log's, and every transaction that might give another sees its row). `AddressIsUnique` is what
`PushDelivery` takes for granted when it numbers registrations.

## Browser sessions

**Module.** `BrowserSession`, checked from `BrowserSession.cfg`.

**State.** `doc[t]`: the module state of a tab's document, one record (epoch and user of `authContext.ts`, whether it may refresh, the
phase of `authPhaseStore.ts`, the token vault, the cached user `me`, the flow that is under way and the epoch it began in, the
refresh in flight, the protected requests). `cookie` is shared by the tabs, `sessions` are the server's refresh sessions, `wire` and `post` the
requests in flight, `news` the broadcasts of a log-out. `foreign` is history: the tabs in whose browser another tab's answer, or a late one of their own, has
put another account's cookie.

**Actions.** `Bootstrap`, `BeginSession`, `RetryLoad`, `Logout`, `Request` (the person and the page's start); `SendRefresh`,
`ServeRefresh`, `RefreshAnswered`, `RefreshLost` (`executeRefresh` behind `navigator.locks`, and the server's rotation with its reuse detection);
`ServePost`, `SessionAnswered`, `SessionRefused`, `SessionLost`, `SendLogout`, `LogoutAnswered`, `LogoutLost` (log-in, sign-up with its recovery by refresh,
log-out); `SendRequest`, `ReceiveAnswer`, `Retry`, `CompleteWithdrawal` (protected requests, their one retry, withdrawal); `HearSessionEnded`, `Expire`,
`Reload`. A continuation remembers the epoch it started under and does nothing under another, as `isCurrentAuthContext` has it.

*Abstractions.* The server's inspection and rotation are one step (they are one Redis script each; the second decides). A request that was
given up waiting for has been served or never will be. Awaits that only yield to the microtask queue end no step. One session operation at
a time in a tab, as its forms allow. An access token carries its user and nothing else; expiry of refresh sessions is
in `PushRegistration`. Without `navigator.locks` (`HasLocks = FALSE`, not instantiated by a run) every tab has a slot of its own.

**Runs.** `BrowserSession`: two tabs, two accounts, two sessions, any three acts, faults, expiries or reloads, with every
interleaving of the requests in flight (290 thousand distinct states): `NothingIsLeft` (types, `EndedMeansEmpty`), `OneIdentity`,
`TokenNeedsLogin`, `NoReuseWithoutLoss`, `TransitionsEnd` (`BootstrapEnds`, `LogoutEndsSession`). `BrowserSessionSwitch`: a violation, see Findings.

*Bounds.* A race has an operation, the one that overtakes it and at most one fault: three events. Two tabs and two accounts are the fewest with which another
tab's log-in changes this tab's cookie to another account. CHECK_DEADLOCK is off: after the last event nothing more happens.

*Fairness.* Weak fairness for sending, serving and answering of every request and for the effects and continuations of a loaded page: every request of
the client has a timeout. None for what the person does, for expiries, reloads and lost answers.

**Proofs** (`BrowserSession_proofs`), for any number of tabs, accounts, sessions and events. The inductive invariant is `IInv`. Its core is `Doc(d)`, which speaks of one document alone, so
that each of the document's operations is proved once, without the rest of the browser: a refresh is waited for only where one is allowed (`RefreshIsAllowed`), a request that can still go on carries the
present epoch and was sent with the present token (`RequestsAreCurrent`), each flow has its phase and those that drop the identity have dropped it (`FlowFits`), outside a session only the load of the user is
under way (`RequestsFit`). `EndedMeansEmpty` and `TokenNeedsLogin` are not inductive without these: an answer of an earlier identity would fill an ended page. `OneIdentity` needs `Own(d)` (what was answered under
the present epoch is the token's account's) and, of the browser, `CookieIsOwn`: the cookie, and a refresh under the present epoch, are of the token's account in every tab that is not `foreign`. `FlightsFit` ties requests in flight
to their document: a refresh with the present epoch belongs to a document that may still refresh, so its answer is never used after a log-out. `NoReuseWithoutLoss` needs
`Rotation`: with locks one refresh is out at a time; unless an answer was lost every token in the browser is its session's current one, save a cookie that the answer on its way is about to replace, and the token of a log-in's
answer is of a session nobody else holds a token of. `LocksPreventReuse` assumes `HasLocks`, as the property is about it; the other theorems do not. The other assumptions are `BrowserAssumption` and
`ValuesAssumption` (the value that means "none" is no number, token or account). The lemmas `DocStep` (a step of one document), `TabStep` (a step that ends what a tab has in flight) and `CookieStored` carry the
invariant through most actions; rotation, log-in and the answer of a refresh have steps of their own.

## Device registration of the phone

**Modules.** `PhoneRegistration`, checked from `PhoneRegistration.cfg`; `PhoneRegistration_proofs`.

**State.** `store` is the durable record of `pushStorage.ts` (installation, binding, pending registration, acknowledgement, revokes);
`phone` the coordinator (its auth, its generation, the request it awaits, its registration queue and its storage queue with the continuation behind each
entry, timers, attempts); `page` the WebView's document as the coordinator sees it; `writes` the page's chain of HTTP requests; `rows` and
`log` the server's installations and logged operations. History: `issued`, `known`, `ended`, `disturbed`.

**Actions.** Each storage operation with its continuation is one action (`StartRegistration`, `ClearPending`, `LoadForState`, `RotateInstallation`, `SavePending`,
`ResumePending`, `LoadForResult`, `DropPending`, `Bind`, `LoadForEnding`, `SaveEnding`, `LoadForFlush`, `LoadForRevoke`, `RemoveRevoke`,
`ReplaceRevoke`), so that the other continuations come between; `ResolveTarget` is the provider's answer, `FireTimer` a retry,
`DropRequest`/`Serve`/`Deliver` the page's chain and the server, `Connect`, `Boot`, `Logout`, `Withdrawn`, `StopWaiting` the bridge and the page's session;
`LogIn`, `BeginEnd`, `Foreground`, `ChangeTarget` the user; `ProviderFails`, `StorageFails`, `Restart`, `Reload`, `RowChanges` the faults.

*Abstractions.* A log-in advances the epoch once here and twice in the code. Timers fire only when the storage queue is empty and the page is not busy:
they are longer than those. Token versions, conflicts between holders of a token (`PushRegistration` has both) and the cap of 32 requests are left out.
The revocations of the record are a set, and those
sent at once join the page's chain in some order of theirs; the code keeps a list and sends them in its order. `disturbed` says that the app's storage failed or the row changed without the phone hearing of it; the liveness
properties excuse that.

**Run.** `PhoneRegistration`: two accounts, two tokens, an app that is new or was registered in an earlier run, any two events, one of them possibly a
lost request or answer (750 thousand states): `RecordIsGenuine` (types, `StoredBindingIsGenuine`), `NoBindingForgotten`, `EndedStaysEnded`, `RegistrationSettles`, `RevokesSettle`.

*Bounds.* `MAX_IN_SESSION_RETRIES` has its value 3; each RETRY result uses two attempts, which leaves one real resend: hence
`MaxLosses = 1`, more losses in one session really are not repaired before the next. Two events put any act between the steps of another's consequences. `known` holds the bindings
the phone has held, less those that a late rotation has let go of (see Observations): with four events such a rotation can be reached, and `NoBindingForgotten` then speaks of all others.

*Fairness.* Weak fairness for the storage, the provider, the timers, the page's requests and the bridge: the JavaScript of both ends runs and requests end.

**Proofs** (`PhoneRegistration_proofs`), for any accounts, tokens, number of events, losses and retries: `RecordIsGenuine`, `NoBindingForgotten` and `EndedStaysEnded`. The inductive invariant is `IInv`, of
`TypeInv` and three layers on it.

`TypeInv` gives every operation in the storage's queue, message, timer and answer its type, with no number above those drawn. Beside the types it needs that the coordinator knows the page's state while
connected (`AuthInv`), that whoever has ended is neither in the page nor in the record (`EndedInv`: a result is bound only for the account that the page is in, which the end has left), that operations that follow a
load find the record there (`StoreThere`), and that only the first registration of the queue is under way (`BusyInv`). A step of the storage loses the head of the queue and may gain one operation, sends messages and
arms timers; the lemmas `Turn...`, `Here...` and `Settles` show that whatever does that keeps the parts, so each action has only to show what it enqueues, sends and stores. The same
lemmas give the shape of a step: `NextIs` says that every step is the server's (`Serve`) or `Onward`: what is new in the queue is its last operation and comes from the head that was taken or from the first answer, new messages
carry what is on record, and each field of the record stays or is what the operation taken says. The layers are then proved twice, of `Onward` (`...Moving`) and of `Serve` (`...Serving`), and not of
thirty-odd actions.

- `GenuineInv`. An operation's number is of one registration wherever it is kept (record, queued save or bind, request: `RegistrationsOne`) and of no revocation (`NumbersApart`); a save that waits has been sent nowhere
  (`SaveInv`); a bind that waits fits the installation of the record (`BindInv`); and every result that is logged, answered or waiting in the queue, under the number of a registration, is a binding issued with that
  registration's token (`ResultsAreGenuine`). Hence `StoredBindingIsGenuine`.
- `RevokesInv`. A binding is issued for one installation (`IssuedOnce`, `RowsInv`), a revocation is of a binding of its installation (`RevocationsOwned`) and its number is its own (`RevocationsOne`); once anyone has heard
  that it succeeded the binding stands at no installation (`RevokedAreDead`), so `RemoveRevoke` loses nothing, and one that replaces another is of the same binding (`ReplaceInv`).
- `ForgetInv`. A success that could still take the place of the record's binding tells of that very binding, if it stands at the server (`ReplacedAreDead`: the server renews a binding in place for its
  account and ends it for another). What a NOT_FOUND was about is nothing the phone holds or has been told of, from the server to the rotation (`MissedWrite`, `MissedLoad`, `MissedRotate`): results that come later stand behind it in the storage's queue. With
  `RequestInv` (the answer that the coordinator awaits is about the installation it asked for) these give `NoBindingForgotten`, which is not inductive alone: a late bind or rotation would drop a binding that stands.

TLC checked each part, and the shape of the steps, on the run's instance before the proof. The assumption that nothing is no binding, registration or record (`RecordAssumption`) is the only one besides `PhoneAssumption`.

## Opened notifications; documents and bridge

**Modules.** `PushOpen` and `WebShell`, checked by one run from `MCPhoneShell`: they share the app's process and no state, so the first choice of the run
is which of them moves.

**`PushOpen`, state.** The app: `sdk` (the response the operating system remembers), `pending` (durable opens), `owners` (bindings whose owner is known), `phone` (the coordinator with its
storage queue). The page: `page` (session, open tasks, read rounds), `records` and `reads` in IndexedDB. The server: whose notification it is, whether it was `deleted`
or `marked`.

**`PushOpen`, actions.** `Tap`, `ResolveCapture`, `AppendOpen` (capture), `ResolveOwner`, `OwnDelivered`, `Flush` (delivery), `ReadRecord`, `Fetch`, `FetchTarget`, `Navigated`, `Complete` (the page's
task for one open), `LoadForAck`, `RemoveOpen`, `RecordOwner`, `RemoveForUser` (acknowledgement and clean-up), `PutRead`, `RemoveRead`, `Timer` (read intents), `Activate`, `ClearUser`,
`Connect`, `Boot`, `LogIn`, `LogOut`, `Withdraw`, `Leave`, and the faults `StorageFails`, `TaskFails`, `PutReadFails`, `Reload`, `Restart`, `Age`, `Delete`.

*Abstractions.* Each account has one binding. `pending` is a set whose members carry their order of capture (`at`), in which `GoOn` sends them. The run has one open. The load of a round of
reads is one step with its start. A replaced page leaves its last IndexedDB write done or undone. The person taps more slowly than the storage writes. `acceptAck` for
an open without an owner cannot be reached. The cap of 32 opens is left out.

**`WebShell`, state.** `shell` (screen, session number, nonces issued, addresses, what it accepted), `view` (the document in the WebView and its end of the bridge), `coming` (the
load under way), `inbox` (reports and messages the shell has yet to handle), `scripts` (injected and yet to run).

**`WebShell`, actions.** `Commit`, `FinishLoad`, `CommitError`, `LoadFails`, `RendererGone`, `Navigate`, `MovesTo`, `OpenWindow` (the WebView); `PageBoots`, `ReadyTimer`, `AuthChanges`
(the page); `RunScript`; `HandleEvent` (one report or message by its kind); `Retry`, `HardwareBack` (the person).

*Abstractions.* Reports and messages arrive in the order in which they happened; a load that is replaced does not report its end; the events of an
unmounted WebView are dropped with it. The script before content always carries the first nonce and may not run. `goBack` is one of the view's own
navigations. Left out: `canGoBack`, external links, errors of subresources, redirects, re-runs of React effects. The page's ready timer of one
second is longer than what the shell needs to answer.

**Run.** `PhoneShell`: one open, two accounts, three events, or two acts on the bridge: `OpensAreSound` (types, `OnlyTheOwner`), `TapNotForgotten`, `DoneIsDone` (`NotShownAgain`, `RemovedWhenDone`),
`OpensSettle`, `ReadsSettle`; `BridgeIsSound` (types, `AcceptedIsOwn`, `SelectedIsOwn`, `ConnectedIsShown`), `BridgeComesUp`.

*Bounds.* A tap, its consequences and two disturbances; two acts on the bridge are a load and what overtakes it.

*Fairness.* Weak fairness for the progress of storage, tasks, reads and bridge together, and for the page's timer; for the shell, that loads get on, pages run and events are handled. Finitely many such steps
follow each event, so one weak fairness for all of them suffices.

**Proofs** (`PhoneShell_proofs`) of `PushOpen`, for all sets of accounts and opens and any number of events: `OpensAreSound`, `TapNotForgotten`, `DoneIsDone`. Between the steps of a capture, a delivery or an
acknowledgement anything may be queued, so the inductive invariant `OpenInv` bounds what every operation in the queue will find. Of removals: one is queued only for an open that is recorded as done, withdrawn
or too old (`AckInv`), and what it removes has its owner (`RemovalInv`). Of withdrawals: the account has left for good, and no registration behind one brings back its ownership (`OrderInv`). Of deliveries that wait for an owner: nobody logs in behind
them, the items name their true owners or none (`ItemsInv`), and while somebody is logged in, an item without an owner that is no longer pending is theirs, or its owner can no longer be learned, or it was too old (`LostInv`, `RemovedInv`). That
exception is what the proof forced: see the observation on `pushOpenCoordinator.ts:166`. Of captures: until one is carried out its open is named nowhere else (`CaptureInv`), and the tap is in the system's memory, in the queue or in the list (`TapInv`, `MemoryInv`). A
queue that loses its head and may gain one operation keeps each of these parts by one `Shift` lemma; `OuterStep` and `StorageStep` put the parts together for steps outside and inside the storage, so each action has only to
show what it enqueues. TLC checked `OpenInv` first, with two accounts, for one open and four events and for two opens and three events.

**Proofs** (`PhoneShell_proofs`) of `WebShell`, for any number of navigations, failures and acts. Documents are numbered in the order of their starts. The inductive invariant `BridgeInv` says that starts are
reported in that order (`StartsInOrder`), that whatever a document posts comes after its own start or that start has been handled (`StartedBefore`), and that a nonce reaches no document older
than its session's (`NotBefore`: of the page, of calls and bridge scripts under way). A call that is trusted under the present nonce therefore comes from the latest document the shell was told of, so every greeting answers
the session's document (`ScriptsAreOwn`) and so does every state told in a session (`StatesAreOwn`). The bridge script of a load needs `LoadsAreLate`: a load is reported of no document older than those started before the
report, because a failed load leaves the old document marked as loaded. The first nonce is in every document's first script; that it does no harm is what `NotBefore` has to allow for.

## Quiz attempts

**Modules.** `QuizAttempt`, `MCQuizAttempt`, `QuizAttempt_proofs`.

**State.** The server's `attempts` under their identifiers (rows, answers, final outcomes) and the order in which they `ended`; the browser's route (`at`, `subject`, `restart`), its
query (`fetching`, `pendCache`), the mounted `page` with its scene, sheets and locks, and `calls`: the requests of mounted and left pages.

**Actions.** The person's (`OpenQuiz`, `Leave`, `Refocus`, `SetAnswer`, `RequestSubmit`, `SubmitSheet`, `SubmissionErrorScreen`, `ChooseOutcome`, `SaveEssay`, `OpenCorrection`, `SaveCorrection`, `PressReview`,
`ResumeReview`, `EnterReview`), the answers of the routes' queries (`PendingFetched`, `ResultFetched`, `ReviewFetched`, `LatestFetched`), and for each request its answer
(`SubmitAnswered`, `EssayAnswered`, `CorrectionAnswered`, `ReviewAnswered`), which serves it (`Submit`, `Assess`, `Override`, `StartReview`) or finds it refused. `AnswerLost` is a
request served or not, without an answer.

*Abstractions.* PARTIAL counts as INCORRECT. Moving between questions and opening sheets that change nothing are folded into the acts they precede. The server's locks serve the
requests of one account one at a time. There is one review session. Staleness of the result route's cache and hard reloads are not modelled.

**Run.** `QuizAttempt`: a paper of two essays or of one short answer, two attempts and a review, three acts (an opening, a changed answer, an
assessment, a correction, a review), two requests in flight, one lost answer: `AttemptTypeOK`, `NothingSkipped`, `RetryRepeatsItself`, `ReviewOnlyFromHere`, `RequestsSettle`.

*Bounds.* Two essays are the fewest of which one assessment leaves another; three acts leave a page, come back and act there. *Fairness.* Weak fairness for the queries and for the
answers of each kind of request: the client's requests have timeouts. The person owes nothing.

**Proofs** (`QuizAttempt_proofs`), for any papers, any number of attempts, requests, acts and losses. The inductive invariant is `IInv`. `ServerInv`: an attempt's marks are over its rows, a review has a source and no mark
before it is submitted, and the completed attempts are the ended ones, each once. `PageInv` ties the page to the server: its answers are over its paper, a page that assesses an attempt lists every essay of it without a
mark (`Lists`), a page that shows a result shows a completed attempt. `CallsInv` says the same of what is in flight: an assessment lists every essay that will still be without a mark when it is served, an answer that
said "completed" stays true. `HereInv` ties a request to the page that waits for it: one submission or one assessment at a time, from the scene it was sent in, about the attempt the page is about. Without it
`NothingSkipped` is not inductive: an assessment of one attempt would replace the list of another. `DrawnInv`: an identifier is drawn once, and the record under it, every submission in flight under it and the
page's unanswered request have the same answers. `RouteInv`: what a route shows exists. The server takes nothing back (`Grown`): rows stay, an essay with a mark keeps one, a completed attempt
stays completed; most of the invariant outlives a step for that reason alone, whoever made it (`CallRests`, `PageRests`, `RouteRests`). Every operation of the server is proved once (`SubmitKeeps`,
`AssessKeeps`, `OverrideKeeps`, `StartReviewKeeps`) and serves the answered request and the one whose answer is lost. `InOrder`, the query that lists rows in their order, is a recursive function; that it is defined
and returns exactly the rows asked for (`TakenExists`, `InOrderTaken`) is proved by the least index at which it would not be (`Least`, `UpTo`), and so is that a new page's mark is new (`FreshIsNew`).
`ReviewsOpenWhereAsked` is the action property `ReviewOnlyFromHere`. The assumptions are that the identifiers are 1..n, that a paper is a sequence, that the bounds are numbers, and that the value that
means "none" is no identifier, outcome or record (`ValuesAssumption`).

## Quiz entry

**Module.** `QuizEntry`, checked from `QuizEntry.cfg`.

**State.** The server's `content` and `sets`; the browser's storage (`record` of the last agreement, `pending` and `delivered` sets), its caches (`activeSeen`, `held`, `setSeen`, `noteSeen`), the
open `route` with its queries `asking` and `failed`, the mounted page `flow`, and its `requests`. History: `consented`, `shown`.

**Actions.** `VisitMaterial`, `Leave`, `Reload`, `TryAgain`, `StartGeneration`, `ConfirmGeneration`, `CancelDisclosure`, `ReturnToConditions`, `RetryGeneration`, `EditedHere` (the person);
`ActiveFetched`, `MaterialFetched`, `SetFetched`, `FetchFails` (queries); `Looked`, `LookFails`, `CreateAccepted`, `CreateConflicts`, `CreateOutdated`, `CreateFails` (requests); `ClearPending`,
`NotesFetched`, `ClaimSnackbar`, `OtherTabClaims` (notices); `OtherGenerates`, `Settle`, `EditedThere` (the world). `Render` is React's step after each of them: the page stays while it is mounted from the
same data and is replaced otherwise, and then leaves its requests behind.

*Abstractions.* The other device generates from other materials only. All notifications are unread and fit the first page; they are asked for when invalidated or mounted. The tabs are in the
foreground, storage works. The refusal STATUS_UNAVAILABLE cannot be reached. The requested conditions and cached error states after a remount are left out. Two requests are
outstanding at most.

**Run.** `QuizEntry`: two sets, two revisions, two openings or reloads, one failed or unanswered request: `EntryIsSound` (types, `KnownIsPending`, `NotNotifiedTwice`), `ConsentedContent`,
`OutcomesArrive` (`GenerationShown`, `OutcomeIsTold`).

*Bounds.* Two sets tell the one that was asked for from another device's; two revisions the agreed one from an edited one; two openings bring the person back.

*Fairness.* Weak fairness for the server's settling, the queries and the list of awaited sets together, which are finitely many steps after each act; strong fairness for the snackbar's
claim, whose effect runs whenever a generation scene does not hold it back.

**Proofs** (`QuizEntry_proofs`). The inductive invariant is `IInv`, of three parts. `WorldInv` is the type of the server, storage and caches with `KnownIsPending`, `HeardIsMade` (a set that
the route, a cache or an answer names has been made, and a status heard as settled is settled) and `ToldIsDelivered` (a set that was told of once is in the delivered list). `PageInv` is the type of the
mounted page and its requests. `AgreedInv` carries consent: `ConsentedContent` alone is not inductive, because a request that is still out, or one that a retry repeats, carries
the revision it was made for; `RequestsAgreed` says that every outstanding request carries an agreed one, `PageAgreed` that a page past its dialog is mounted from one,
`RecordIsAgreed` that the stored agreement was given. The only assumption is `ValuesAssumption`: the values that mean "none" are no revision, no set and no record.

## Findings

1. **A set whose task the pool rejects is not failed** (`QuizGenerationRejected`). The worker TRD (`trd-llm-quiz-generation-worker.md:81,115,127`)
   promises a separate transaction that settles it. The listener runs in AFTER_COMMIT and calls a method with the default
   propagation, which joins the completed transaction; the locking query is refused and the exception swallowed. The set stays
   GENERATING until the next process start. No shutdown is needed: a permit returns before its thread does.
2. **A logout that meets a rotation leaves the installation registered** (`PushRegistrationLogoutRotated`). The contract
   (`contract-api-push-notifications.md:115`) releases the session's installations on a successful logout; `AuthService.logout` does so only if `inspect` returned the session.
3. **A refresh may change a tab's account within one epoch** (`BrowserSessionSwitch`). After another tab has logged in as another account, a tab's next
   refresh uses the shared cookie and gets that account's token, which `authRefresh.ts` keeps in the context of the old one. `authContext.ts:22` says that
   identity transitions advance the epoch, `trd-authentication.md:196` that private caches are removed when the session is replaced. `OneIdentity` is therefore stated of tabs to
   which this has not happened (`foreign`).

## Observations

Differences met while modelling that no run is about. The models do what the code does.

- An operation sent again is refused, not replayed, once its installation's row went and came back for another account (`PushDeviceTransaction.java:180`, against
  `contract-api-push-notifications.md:75`); it is never carried out twice.
- The coordinator acknowledges to the page a registration whose pending entry a new token has just cleared, so that the record does not have it. The token's own
  registration follows.
- A refresh that a tab began before another tab's log-out ended its session answers whatever the tab has become: the browser stores its cookie. If the tab has logged in as another
  account by then, the old account's cookie replaces the new one (`authRefresh.ts` discards the answer, not its `Set-Cookie`). `foreign` names this tab too.
- A revoke that expects an older revision is refused again and again, and the check for one already captured prevents a fresh one; `RevokesSettle` names this case.
- A second registration may ask for the state of an installation that a first one's NOT_FOUND has meanwhile replaced and bound. When its own NOT_FOUND comes (its first request was lost, the timer sent it again), `acceptStateResult`
  rotates whatever installation is present (`pushRegistrationCoordinator.ts:261-269`): the new one's binding is dropped without a revocation while it stands at the server. TLC finds this with one account, one token, one loss and
  four events; `RotateInstallation` takes such a binding out of `known`.
- A delivery that waits for the owner of an open goes on with an open removed meanwhile (`pushOpenCoordinator.ts:166`). A log-in of another account before the storage answers would get
  it, against `plan-quiz-push-notifications.md:98`; the model takes a log-in to be slower.
- The same `?? pending` (`pushOpenCoordinator.ts:166`): an open that a flush drops as older than 90 days while its delivery waits for the owner keeps no owner there, passes `deliveryContext` and is sent to whichever
  account is logged in, although `pushOpenSession.ts:36` says that native sends only the selected binding's known owner. `OnlyTheOwner` excepts such opens (`t.open \in old`); without the exception TLC finds the case at four events.
- `ShellStateView.tsx:28` says that recovery starts from the first screen; `retry` loads the last visible address (`OpenMdWebView.tsx:509-516`).
- `setAnswer` forgets the identifier of a submission (`QuizFlowPage.tsx:422`): an edited retry after a lost answer records a second attempt. `trd-quiz-solving.md:28-29` speaks of the same
  identifier and payload, and `RetryRepeatsItself` holds because the identifier changes with the answers.
- The message of a failed assessment says that nothing was saved (`QuizFlowPage.tsx:553`); when only the answer was lost, it was.
- `onSuccess` of a create navigates to the set after the person has left the page (`QuizRoutePages.tsx:297-314`), against `flow-quiz-generation-notifications.md:27`: an observer of a mutation
  that unmounts keeps its options' callbacks. A cached active set is followed before it is renewed, to a set that may have settled (`QuizRoutePages.tsx:259-271`), against `flow-quiz-solving.md:129`.
- On a FAILED set's route the effect at `QuizFlowPage.tsx:288` replaces every outcome of a new request by the old failure (`Display`). Leaving the route while a retry looks for an active set cancels
  the look, which reads as none: the retry posts all the same (`Left`).

## What is proved

`*_proofs` modules hold, for every value of the constants allowed by the named assumptions, the safety properties listed under "theorems" in `PROJECT.json`; the paragraphs
**Proofs** above give the inductive invariants. The theorems named after the properties that the runs list (`PoolSafe`, `GeneratingSafe`, `OutcomesSafe`, `ClaimsSafe`, `LateResultsAreIdle`,
`RowsAreAlwaysSound`, `EndedStaysSilent`, `OperationsAreDoneOnce`, `RequestsKeepToTheirs`) combine those of the parts.

## Only model-checked

- Liveness under fairness is out of the proof system's reach: `EverySetSettles`, `PermitComesBack`, `DeliveriesEnd`, `TransitionsEnd`, `RegistrationSettles`, `RevokesSettle`, `OpensSettle`, `ReadsSettle`,
  `BridgeComesUp`, `RequestsSettle`, `OutcomesArrive`.
- The three violated properties are counterexamples and have nothing to prove.

## Not modelled

- Sign-up: codes and credentials are keys of one e-mail address in Redis. Its end, which opens a session in a browser, is an action of `BrowserSession`. Places that deserve a model: the confirmation stores
  the credential and then removes the code (`TwoStepSignUpService.java:145`), a failed e-mail cancels its code after a resend has issued another (`:111`), the fifth wrong code against a resend that
  resets the count (`RedisEmailVerificationStore.java:29`).
- Learning materials: the idempotent creation by overlapping retries (`JpaLearningMaterialCreationStore.java:31`) and its replay after an edit (`LearningMaterialService.java:87`).
- Notifications: marking all up to one while others arrive (`NotificationService.java:111`), cursors.
- Notion: exchange, refresh and revocation of tokens at the provider around one row (`NotionConnectionService.java:143,150,262`).
- Quiz attempts of one account on two devices: an override while a review is open (`GradingOverrideService.java:66`), a review that starts while another main attempt completes (`QuizReviewService.java:228`). `QuizAttempt` has one
  browser, whose requests the server's locks serve one at a time.
- A withdrawal between the two steps of a log-in that writes and then lists its session (`RedisRefreshSessionStore.java:94`), and a rotation by an account read as active before (`AuthService.java:63`).
- In the modelled parts: the `SOURCE_INSUFFICIENT` branch of `complete`, which the worker's own check makes unreachable; the wording of
  failures; the values of delays and jitter (only their order with the other instants); rate limits and installation keys; what each section above lists.
- Generation policy and candidate validation: pure functions over one request or one answer, which unit tests reach.
- Home visits (one `INSERT IGNORE` and a count), the other web pages (view state around single requests), and deployment (operations outside the program).
- The providers (language model, Expo, Notion, mail) are the nondeterministic answers of the steps that call them.

Next in line, were the project to go on: the two-device races over attempts with the lock order of `QuizAttemptLockService`, sign-up, the creation of materials, Notion.
