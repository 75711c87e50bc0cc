--------------------------- MODULE PhoneRegistration ---------------------------
(***************************************************************************)
(* The registration of a phone for push notifications, at the phone's end: *)
(* the app's coordinator (app/src/push/pushRegistrationCoordinator), its   *)
(* durable record (pushStorage), the page in the WebView that carries out  *)
(* the coordinator's requests with the user's session (web/src/shared/     *)
(* native/pushSession, pushApi), and the server's row for the installation.*)
(*                                                                         *)
(* The coordinator is one record: what it has in memory, its queue of      *)
(* storage operations (each with the continuation that follows it) and its *)
(* queue of registrations.  A page is replaced as a whole: it starts again *)
(* at epoch 0, and the coordinator is disconnected from the one before.    *)
(* Bridge messages arrive at once and in order while both ends are up.  A  *)
(* log-in advances the epoch once here, by two in the code.                *)
(***************************************************************************)
EXTENDS Integers, Sequences, FiniteSets, SequencesExt

CONSTANTS
  Accounts,    \* the users of this phone
  Earlier,     \* the one it may be registered for from an earlier run
  Tokens,      \* the push tokens the provider may give
  None,        \* nothing: no user, no binding, permission denied
  MaxRetries,  \* MAX_IN_SESSION_RETRIES
  MaxEvents,   \* bound: acts of the user, changes of token, faults, restarts, losses
  MaxLosses    \* bound: lost requests and answers, operations that came too late

ASSUME PhoneAssumption ==
  /\ None \notin Accounts \cup Tokens /\ Earlier \in Accounts /\ Tokens # {}
  /\ MaxRetries \in Nat /\ MaxEvents \in Nat /\ MaxLosses \in Nat

(* PushStorageState and its parts; none of them is mistaken for nothing.   *)
Bindings == [id : Nat, user : Accounts, revision : Nat, token : Tokens \cup {None}]
Registrations == [operation : Nat, epoch : Nat, user : Accounts, expected : Nat,
                  token : Tokens \cup {None}]
Revokes == [installation : Nat, operation : Nat, binding : Nat, expected : Nat]
Acks == [operation : Nat, installation : Nat, user : Accounts, epoch : Nat, binding : Nat,
         revision : Nat]
Records == [installation : Nat, binding : Bindings \cup {None},
            pending : Registrations \cup {None}, revokes : SUBSET Revokes, ack : Acks \cup {None}]
ASSUME RecordAssumption == None \notin Bindings \cup Registrations \cup Records

VARIABLES
  store,    \* the durable record of the app, or None
  phone,    \* the coordinator
  page,     \* the document in the WebView
  writes,   \* the page's chain of HTTP requests
  cookie,   \* the account whose session the page's cookie names, or None
  target,   \* the token the provider gives now, None when permission is denied
  rows,     \* the server's row of each installation
  log,      \* the operations the server remembers, with their results
  gone,     \* withdrawn accounts
  ids,      \* operations, requests and bindings numbered so far
  events,   \* what MaxEvents and MaxLosses bound
  issued,   \* history: what the server has registered
  known,    \* history: bindings the phone has held, less those of a late rotation
  ended,    \* history: accounts whose session's end the phone has acknowledged
  disturbed \* history: the storage disturbed, or the row changed unheard

vars == <<store, phone, page, writes, cookie, target, rows, log, gone, ids, events,
          issued, known, ended, disturbed>>

NoRow == [user |-> None, session |-> 0, binding |-> 0, revision |-> 0, token |-> None]
Answer(outcome, code, installation, user, revision, binding) ==
  [outcome |-> outcome, code |-> code, installation |-> installation, user |-> user,
   revision |-> revision, binding |-> binding]
NewPhone ==
  [connected |-> FALSE, auth |-> None, last |-> None, generation |-> 0, request |-> None,
   regs |-> <<>>, queue |-> <<>>, timers |-> {}, attempts |-> {}, out |-> {}]
NewPage(session) ==
  [phase |-> "bootstrapping", epoch |-> 0, user |-> None, ending |-> FALSE,
   waiting |-> FALSE, reason |-> "LOGOUT", session |-> session]

Bump(p) == [p EXCEPT !.generation = @ + 1, !.request = None]
Send(p, message) == IF p.connected THEN [p EXCEPT !.out = @ \cup {message}] ELSE p
Enqueue(p, operation) == [p EXCEPT !.queue = Append(@, operation)]
Spent == events.acts + events.losses >= MaxEvents
Count(n) == ~Spent /\ events' = [events EXCEPT !.acts = @ + n]
Lose == ~Spent /\ events.losses < MaxLosses /\ events' = [events EXCEPT !.losses = @ + 1]

---------------------------------------------------------------------------
(* The coordinator's memory                                                *)

(* matchesCurrentAuth                                                      *)
Matches(p, c) ==
  /\ c.generation = p.generation
  /\ p.auth # None /\ p.auth.phase = "authenticated"
  /\ p.auth.epoch = c.epoch /\ p.auth.user = c.user

(* A timer carries what its callback has captured.                         *)
Armed(p, key) == \E t \in p.timers : t.key = key
Attempts(p, key) == Cardinality({a \in p.attempts : a.key = key})
ScheduleRetries(p, timers) ==
  LET due == {t \in timers : ~Armed(p, t.key) /\ Attempts(p, t.key) < MaxRetries} IN
  [p EXCEPT !.timers = @ \cup due,
            !.attempts = @ \cup {[key |-> t.key, number |-> Attempts(p, t.key) + 1] : t \in due}]
ScheduleRetry(p, key, carried) == ScheduleRetries(p, {[key |-> key, carried |-> carried]})
ClearScheduledRetry(p, key) == [p EXCEPT !.timers = {t \in @ : t.key # key}]
ClearRetry(p, key) ==
  [ClearScheduledRetry(p, key) EXCEPT !.attempts = {a \in @ : a.key # key}]

Key(kind, id) == [kind |-> kind, id |-> id]

Disconnect(p) ==
  [Bump(p) EXCEPT !.connected = FALSE, !.auth = None, !.last = None,
                  !.timers = {}, !.attempts = {}]

(* decideAuthState, then the coordinator's acceptAuthState.                *)
AcceptAuthState(p, next) ==
  LET refused == /\ p.auth # None /\ next # p.auth
                 /\ next.epoch <= p.auth.epoch
      kept == [p EXCEPT !.auth = next,
                        !.last = IF next.phase = "authenticated" THEN next ELSE @] IN
  IF refused THEN p
  ELSE IF next.phase # "authenticated" \/ (p.auth # None /\ next # p.auth) THEN Bump(kept)
  ELSE kept

RequestRegistration(p, epoch) ==
  [p EXCEPT !.regs = Append(@, [epoch |-> epoch, generation |-> p.generation, busy |-> FALSE])]

RefreshRegistration(p) ==
  IF p.auth # None /\ p.auth.phase = "authenticated"
  THEN RequestRegistration(p, p.auth.epoch) ELSE p

(* Messages to the page.                                                   *)
SendStateRequest(p, c) ==
  IF p.request # c \/ ~Matches(p, c) THEN p
  ELSE ScheduleRetry(
         Send(p, [type |-> "STATE", epoch |-> c.epoch, id |-> c.id, body |-> c.installation]),
         Key("state", c.id), c)

SendPendingRegistration(p, installation, pending) ==
  ScheduleRetry(
    Send(p, [type |-> "DEVICE", epoch |-> pending.epoch, id |-> pending.operation,
             body |-> [installation |-> installation, pending |-> pending]]),
    Key("register", pending.operation), pending)

FlushPendingRevokes(p, revokes) ==
  LET message(r) == [type |-> "REVOKE", epoch |-> 0, id |-> r.operation, body |-> r] IN
  ScheduleRetries([p EXCEPT !.out = IF p.connected THEN @ \cup {message(r) : r \in revokes} ELSE @],
                  {[key |-> Key("revoke", r.operation), carried |-> r] : r \in revokes})
SendPendingRevoke(p, revoke) == FlushPendingRevokes(p, {revoke})

SendRegistrationAck(p, operation) ==
  Send(p, [type |-> "ACK", epoch |-> 0, id |-> operation, body |-> None])

(* What the coordinator has sent joins the page's chain, unless a request  *)
(* with the same key is in it; revocations sent at once do so in some order*)
(* of theirs.  An end's acknowledgement ends the waiting.                  *)
SameKey(m, n) == m.type = n.type /\ m.epoch = n.epoch /\ m.id = n.id
Chained(chain, messages) ==
  LET new == {m \in messages : /\ m.type \notin {"ACK", "ENDED"}
                               /\ \A i \in DOMAIN chain : ~SameKey(chain[i].message, m)} IN
  chain \o SetToSeq({[message |-> m, served |-> FALSE, epoch |-> 0, answer |-> None] : m \in new})

Sent(p, chain, document) ==
  /\ phone' = [p EXCEPT !.out = {}]
  /\ writes' = Chained(chain, p.out)
  /\ page' = IF \E m \in p.out : m.type = "ENDED" /\ m.id = document.session
             THEN [document EXCEPT !.waiting = FALSE] ELSE document
Settle(p) == Sent(p, writes, page)

---------------------------------------------------------------------------
(* Storage operations: the head of the queue, with its continuation        *)

At(kind) == phone.queue # <<>> /\ Head(phone.queue).kind = kind
Operation == Head(phone.queue)
Rest == [phone EXCEPT !.queue = Tail(@)]
NextRegistration(p) == [p EXCEPT !.regs = Tail(@)]

Recorded(installation) ==
  [installation |-> installation, binding |-> None, pending |-> None, revokes |-> {},
   ack |-> None]

(* getOrCreateInstallation                                                 *)
Installed == IF store = None THEN Recorded(Len(rows) + 1) ELSE store
WithInstallation ==
  /\ store' = Installed
  /\ rows' = IF store = None THEN Append(rows, NoRow) ELSE rows

(* sameRegistration                                                        *)
SameRegistration(pending, c) ==
  pending.epoch = c.epoch /\ pending.user = c.user /\ pending.token = c.token

AskState(p, c, rotate, installation) ==
  LET request == [c EXCEPT !.id = ids + 1, !.rotate = rotate, !.installation = installation] IN
  SendStateRequest([p EXCEPT !.request = request], request)

(* startRegistration, up to the answer of the provider.                    *)
ResolveTarget ==
  LET r == Head(phone.regs)
      c == [id |-> 0, epoch |-> r.epoch, user |-> phone.auth.user,
            generation |-> r.generation, token |-> target, rotate |-> FALSE,
            installation |-> 0] IN
  /\ phone.regs # <<>> /\ ~Head(phone.regs).busy
  /\ IF phone.auth = None \/ ~phone.connected THEN Settle(NextRegistration(phone))
     ELSE IF ~Matches(phone, c) THEN Settle(NextRegistration(phone))
     ELSE Settle(Enqueue([ClearRetry(phone, Key("provider", r.epoch)) EXCEPT
                            !.regs[1].busy = TRUE],
                         [kind |-> "create", context |-> c]))
  /\ UNCHANGED <<store, cookie, target, rows, log, gone, ids, events, issued, known, ended,
                 disturbed>>

ProviderFails ==
  LET r == Head(phone.regs)
      p == NextRegistration(phone) IN
  /\ phone.regs # <<>> /\ ~Head(phone.regs).busy
  /\ phone.auth # None /\ Count(1)
  /\ Settle(IF Matches(phone, [epoch |-> r.epoch, user |-> phone.auth.user,
                               generation |-> r.generation])
            THEN ScheduleRetry(p, Key("provider", r.epoch), [epoch |-> r.epoch]) ELSE p)
  /\ UNCHANGED <<store, cookie, target, rows, log, gone, ids, issued, known, ended,
                 disturbed>>

(* Its second part: the installation is there.                             *)
StartRegistration ==
  LET c == Operation.context
      rotate == \/ Installed.binding # None \/ Installed.pending # None
                \/ Installed.ack # None /\ Installed.ack.revision > 0 IN
  /\ At("create")
  /\ WithInstallation
  /\ IF ~Matches(phone, c) THEN Settle(NextRegistration(Rest)) /\ UNCHANGED ids
     ELSE IF Installed.pending # None /\ SameRegistration(Installed.pending, c)
     THEN /\ Settle(NextRegistration(
               SendPendingRegistration(Rest, Installed.installation, Installed.pending)))
          /\ UNCHANGED ids
     ELSE IF Installed.pending # None
     THEN /\ Settle(Enqueue(Rest, [kind |-> "clear", context |-> c, rotate |-> rotate,
                                   installation |-> Installed.installation]))
          /\ UNCHANGED ids
     ELSE /\ Settle(AskState(NextRegistration(Rest), c, rotate, Installed.installation))
          /\ ids' = ids + 1
  /\ UNCHANGED <<cookie, target, log, gone, events, issued, known, ended, disturbed>>

ClearPending ==
  /\ At("clear")
  /\ store' = [store EXCEPT !.pending = None]
  /\ Settle(AskState(NextRegistration(Rest), Operation.context, Operation.rotate,
                     Operation.installation))
  /\ ids' = ids + 1
  /\ UNCHANGED <<cookie, target, rows, log, gone, events, issued, known, ended,
                 disturbed>>

(* acceptStateResult, after its load, and the two updates that may follow. *)
Pending(c, revision) ==
  [operation |-> ids + 1, epoch |-> c.epoch, user |-> c.user, expected |-> revision,
   token |-> c.token]

LoadForState ==
  LET c == Operation.context
      answer == Operation.answer
      save == [kind |-> "save", context |-> c, pending |-> Pending(c, answer.revision)] IN
  /\ At("stateLoad")
  /\ IF store = None \/ ~Matches(phone, c) THEN Settle(Rest) /\ UNCHANGED ids
     ELSE IF answer.outcome = "NOT_FOUND" /\ c.rotate
     THEN Settle(Enqueue(Rest, [kind |-> "rotate", context |-> c])) /\ UNCHANGED ids
     ELSE Settle(Enqueue(Rest, save)) /\ ids' = ids + 1
  /\ UNCHANGED <<store, cookie, target, rows, log, gone, events, issued, known, ended,
                 disturbed>>

(* The answer may be about an installation that was replaced meanwhile: the*)
(* present one's binding is then let go of while it stands.                *)
RotateInstallation ==
  LET c == Operation.context IN
  /\ At("rotate")
  /\ store' = [store EXCEPT !.installation = Len(rows) + 1, !.binding = None,
                            !.pending = None]
  /\ rows' = Append(rows, NoRow)
  /\ Settle(Enqueue(Rest, [kind |-> "save", context |-> c, pending |-> Pending(c, 0)]))
  /\ ids' = ids + 1
  /\ known' = IF c.installation = store.installation \/ store.binding = None THEN known
              ELSE known \ {store.binding.id}
  /\ UNCHANGED <<cookie, target, log, gone, events, issued, ended, disturbed>>

SavePending ==
  LET pending == Operation.pending IN
  /\ At("save")
  /\ store' = [store EXCEPT !.pending = pending]
  /\ Settle(IF Matches(phone, Operation.context)
            THEN SendPendingRegistration(Rest, store.installation, pending) ELSE Rest)
  /\ UNCHANGED <<cookie, target, rows, log, gone, ids, events, issued, known, ended,
                 disturbed>>

ResumePending ==
  LET pending == store.pending IN
  /\ At("resume")
  /\ Settle(IF store # None /\ pending # None /\ pending.operation = Operation.operation
               /\ Matches(phone, [epoch |-> pending.epoch, user |-> pending.user,
                                  generation |-> phone.generation])
            THEN SendPendingRegistration(Rest, store.installation, pending) ELSE Rest)
  /\ UNCHANGED <<store, cookie, target, rows, log, gone, ids, events, issued, known, ended,
                 disturbed>>

---------------------------------------------------------------------------
(* acceptRegistrationResult                                                *)

Context(pending, generation) ==
  [epoch |-> pending.epoch, user |-> pending.user, generation |-> generation]

(* The result says what the pending operation could have led to.           *)
Plausible(answer, pending) ==
  /\ answer.installation = store.installation /\ answer.user = pending.user
  /\ answer.revision >= pending.expected
  /\ answer.binding # 0 => pending.token # None

(* The success of an operation that is done already is acknowledged again. *)
DoneAlready(o) ==
  /\ store.pending = None /\ store.ack # None /\ o.answer.outcome = "SUCCESS"
  /\ store.ack = [operation |-> o.operation, installation |-> o.answer.installation,
                  user |-> o.answer.user, epoch |-> o.epoch, binding |-> o.answer.binding,
                  revision |-> o.answer.revision]
  /\ Matches(phone, Context(store.ack, o.generation))

LoadForResult ==
  LET o == Operation
      pending == store.pending
      key == Key("register", o.operation) IN
  /\ At("resultLoad")
  /\ Settle(
       IF store = None THEN Rest
       ELSE IF DoneAlready(o) THEN SendRegistrationAck(Rest, o.operation)
       ELSE IF pending = None THEN Rest
       ELSE IF \/ pending.operation # o.operation \/ pending.epoch # o.epoch
               \/ ~Matches(phone, Context(pending, o.generation)) THEN Rest
       ELSE IF o.answer.outcome = "RETRY"
       THEN ScheduleRetry(ClearScheduledRetry(Rest, key), key, pending)
       ELSE IF o.answer.outcome = "FAILED"
       THEN Enqueue(ClearRetry(Rest, key),
                    [kind |-> "drop", pending |-> pending])
       ELSE IF ~Plausible(o.answer, pending) THEN Rest
       ELSE Enqueue(Rest, [kind |-> "bind", pending |-> pending, answer |-> o.answer,
                           generation |-> o.generation]))
  /\ UNCHANGED <<store, cookie, target, rows, log, gone, ids, events, issued, known, ended,
                 disturbed>>

(* Refusals are conflicts and expiries here: the registration starts again.*)
DropPending ==
  LET pending == Operation.pending IN
  /\ At("drop")
  /\ store' = IF store.pending # None /\ store.pending.operation = pending.operation
              THEN [store EXCEPT !.pending = None] ELSE store
  /\ Settle(ScheduleRetry(Rest, Key("reconcile", pending.operation), [epoch |-> pending.epoch]))
  /\ UNCHANGED <<cookie, target, rows, log, gone, ids, events, issued, known, ended,
                 disturbed>>

StillPending(o) ==
  /\ store.pending # None /\ store.pending.operation = o.pending.operation
  /\ Matches(phone, Context(o.pending, o.generation))

(* Slip: the revision that was expected, not the one the server gave.      *)
Bound_Slip(o) ==
  [id |-> o.answer.binding, user |-> o.pending.user, revision |-> o.pending.expected,
   token |-> o.pending.token]

Bound(o) ==
  [id |-> o.answer.binding, user |-> o.pending.user, revision |-> o.answer.revision,
   token |-> o.pending.token]

Bind ==
  LET o == Operation
      pending == o.pending
      answer == o.answer
      stored == StillPending(o)
      acknowledged == Matches(phone, Context(pending, o.generation)) IN
  /\ At("bind")
  /\ store' = IF ~stored THEN store ELSE
       [store EXCEPT
          !.binding = IF answer.binding = 0 THEN None ELSE Bound(o),
          !.pending = None,
          !.ack = [operation |-> pending.operation, installation |-> answer.installation,
                   user |-> pending.user, epoch |-> pending.epoch,
                   binding |-> answer.binding, revision |-> answer.revision]]
  /\ known' = IF stored /\ answer.binding # 0 THEN known \cup {answer.binding} ELSE known
  /\ Settle(IF acknowledged
            THEN SendRegistrationAck(ClearRetry(Rest, Key("register", pending.operation)),
                                     pending.operation)
            ELSE Rest)
  /\ UNCHANGED <<cookie, target, rows, log, gone, ids, events, issued, ended, disturbed>>

---------------------------------------------------------------------------
(* captureSessionEnding, after its first part (CaptureSessionEnding below) *)

LoadForEnding ==
  /\ At("endCreate")
  /\ WithInstallation
  /\ Settle(Enqueue(Rest, [Operation EXCEPT !.kind = "ending"]))
  /\ UNCHANGED <<cookie, target, log, gone, ids, events, issued, known, ended,
                 disturbed>>

AlreadyCaptured == \E r \in store.revokes : r.binding = store.binding.id

(* Slip: a registration under way is left to replace the binding.          *)
OwnBinding_Slip(o) ==
  store.binding # None /\ store.binding.user = o.user /\ store.pending = None

OwnBinding(o) == store.binding # None /\ store.binding.user = o.user

(* The binding of the account becomes a revocation to be sent; only then   *)
(* is the end acknowledged.                                                *)
SaveEnding ==
  LET o == Operation
      own == OwnBinding(o)
      revokes == IF own /\ ~AlreadyCaptured
                 THEN store.revokes \cup
                        {[installation |-> store.installation, operation |-> ids + 1,
                          binding |-> store.binding.id, expected |-> store.binding.revision]}
                 ELSE store.revokes IN
  /\ At("ending")
  /\ store' = [store EXCEPT
       !.binding = IF own THEN None ELSE @, !.revokes = revokes,
       !.ack = IF o.reason = "WITHDRAWAL" /\ @ # None /\ @.user = o.user THEN None ELSE @]
  /\ ids' = IF revokes = store.revokes THEN ids ELSE ids + 1
  /\ Settle(FlushPendingRevokes(
       Send(Rest, [type |-> "ENDED", epoch |-> o.epoch, id |-> o.session, body |-> None]),
       revokes))
  /\ ended' = IF page.user = o.user THEN ended ELSE ended \cup {o.user}
  /\ UNCHANGED <<cookie, target, rows, log, gone, events, issued, known, disturbed>>

(* Slip: only the end itself sends what is to be revoked.                  *)
LoadForFlush_Slip ==
  /\ At("flushLoad")
  /\ Settle(Rest)
  /\ UNCHANGED <<store, cookie, target, rows, log, gone, ids, events, issued, known, ended,
                 disturbed>>

LoadForFlush ==
  /\ At("flushLoad")
  /\ Settle(IF store = None THEN Rest ELSE FlushPendingRevokes(Rest, store.revokes))
  /\ UNCHANGED <<store, cookie, target, rows, log, gone, ids, events, issued, known, ended,
                 disturbed>>

---------------------------------------------------------------------------
(* acceptRevokeResult                                                      *)

RevokesOf(operation) ==
  IF store = None THEN {} ELSE {r \in store.revokes : r.operation = operation}

(* Slip: whatever the answer, the revocation is done with.                 *)
Revoked_Slip(answer) == answer.outcome # "RETRY"

Revoked(answer) == answer.outcome = "SUCCESS"

LoadForRevoke ==
  LET o == Operation
      key == Key("revoke", o.operation)
      replaced == o.answer.code = "EXPIRED" IN
  /\ At("revokeLoad")
  /\ IF RevokesOf(o.operation) = {} THEN Settle(Rest) /\ UNCHANGED ids
     ELSE LET revoke == CHOOSE r \in RevokesOf(o.operation) : TRUE IN
          IF Revoked(o.answer)
          THEN /\ Settle(Enqueue(Rest, [kind |-> "revokeDone", operation |-> o.operation]))
               /\ UNCHANGED ids
          ELSE IF o.answer.outcome = "RETRY"
          THEN /\ Settle(ScheduleRetry(ClearScheduledRetry(Rest, key), key, revoke))
               /\ UNCHANGED ids
          ELSE IF replaced
          THEN /\ Settle(Enqueue(ClearRetry(Rest, key),
                    [kind |-> "revokeReplace", operation |-> o.operation,
                     revoke |-> [revoke EXCEPT !.operation = ids + 1]]))
               /\ ids' = ids + 1
          ELSE Settle(ClearRetry(Rest, key)) /\ UNCHANGED ids
  /\ UNCHANGED <<store, cookie, target, rows, log, gone, events, issued, known, ended,
                 disturbed>>

RemoveRevoke ==
  LET o == Operation IN
  /\ At("revokeDone")
  /\ store' = [store EXCEPT !.revokes = {r \in @ : r.operation # o.operation}]
  /\ Settle(ClearRetry(Rest, Key("revoke", o.operation)))
  /\ UNCHANGED <<cookie, target, rows, log, gone, ids, events, issued, known, ended,
                 disturbed>>

ReplaceRevoke ==
  LET o == Operation IN
  /\ At("revokeReplace")
  /\ store' = [store EXCEPT !.revokes =
       {IF r.operation = o.operation THEN o.revoke ELSE r : r \in @}]
  /\ Settle(SendPendingRevoke(Rest, o.revoke))
  /\ UNCHANGED <<cookie, target, rows, log, gone, ids, events, issued, known, ended,
                 disturbed>>

(* The secure store refuses: what was to follow does not happen.           *)
StorageFails ==
  /\ phone.queue # <<>> /\ Count(1)
  /\ disturbed' = TRUE
  /\ Settle(IF Operation.kind \in {"create", "clear"} THEN NextRegistration(Rest) ELSE Rest)
  /\ UNCHANGED <<store, cookie, target, rows, log, gone, ids, issued, known, ended>>

(* A timer's callback.  Timers are longer than a request's timeout and much*)
(* longer than the storage takes: one does not fire while the page is busy *)
(* with its request, or while the storage is.                              *)
Waited(t) ==
  \A i \in DOMAIN writes :
    ~(writes[i].message.id = t.key.id /\ t.key.kind \in {"state", "register", "revoke"})

FireTimer(t) ==
  LET p == [phone EXCEPT !.timers = @ \ {t}]
      c == t.carried IN
  /\ t \in phone.timers /\ Waited(t) /\ phone.queue = <<>>
  /\ Settle(CASE t.key.kind \in {"provider", "reconcile"} -> RequestRegistration(p, c.epoch)
              [] t.key.kind = "state" -> SendStateRequest(p, c)
              [] t.key.kind = "register" ->
                   Enqueue(p, [kind |-> "resume", operation |-> c.operation])
              [] t.key.kind = "revoke" -> SendPendingRevoke(p, c))
  /\ UNCHANGED <<store, cookie, target, rows, log, gone, ids, events, issued, known, ended,
                 disturbed>>

---------------------------------------------------------------------------
(* The server                                                              *)

(* A deactivated row keeps its owner and its revision, which grows.        *)
Deactivated(row) ==
  IF row.binding = 0 THEN row
  ELSE [NoRow EXCEPT !.user = row.user, !.revision = row.revision + 1]

Stands(i) == rows[i].user # None
Logged(operation) == \E l \in log : l.operation = operation
Result(operation) == (CHOOSE l \in log : l.operation = operation).answer

(* What a request does to the row of its installation, and its answer.     *)
ServeState(i) ==
  [row |-> rows[i], logged |-> FALSE,
   answer |-> IF Stands(i)
              THEN Answer("SUCCESS", "", i, page.user, rows[i].revision, rows[i].binding)
              ELSE Answer("NOT_FOUND", "", i, page.user, 0, 0)]

ServeDevice(i, pending) ==
  LET row == rows[i]
      new == [user |-> page.user, session |-> cookie.session,
              binding |-> IF row.binding # 0 /\ row.user = page.user THEN row.binding ELSE ids + 1,
              revision |-> row.revision + 1, token |-> pending.token]
      off == Deactivated(row)
      Done(r) == [row |-> r, logged |-> TRUE,
                  answer |-> Answer("SUCCESS", "", i, page.user, r.revision, r.binding)] IN
  CASE Stands(i) /\ Logged(pending.operation) ->
         [row |-> row, logged |-> FALSE, answer |-> Result(pending.operation)]
    [] pending.token = None /\ ~Stands(i) ->
         [row |-> row, logged |-> FALSE, answer |-> Answer("SUCCESS", "", i, page.user, 0, 0)]
    [] pending.expected # row.revision /\ ~(Stands(i) /\ Logged(pending.operation))
         /\ (Stands(i) \/ pending.token # None) ->
         [row |-> row, logged |-> FALSE,
          answer |-> Answer("FAILED", "CONFLICT", i, page.user, 0, 0)]
    [] OTHER -> Done(IF pending.token = None THEN off ELSE new)

ServeRevoke(i, revoke) ==
  LET row == rows[i] IN
  CASE ~Stands(i) ->
         [row |-> row, logged |-> FALSE, answer |-> Answer("SUCCESS", "", i, None, 0, 0)]
    [] Stands(i) /\ Logged(revoke.operation) ->
         [row |-> row, logged |-> FALSE, answer |-> Result(revoke.operation)]
    [] Stands(i) /\ ~Logged(revoke.operation) /\ row.binding = revoke.binding
         /\ row.revision # revoke.expected ->
         [row |-> row, logged |-> FALSE, answer |-> Answer("FAILED", "CONFLICT", i, None, 0, 0)]
    [] OTHER ->
         [row |-> IF row.binding = revoke.binding THEN Deactivated(row) ELSE row,
          logged |-> TRUE, answer |-> Answer("SUCCESS", "", i, None, 0, 0)]

Installation(m) ==
  CASE m.type = "STATE" -> m.body
    [] m.type = "DEVICE" -> m.body.installation
    [] m.type = "REVOKE" -> m.body.installation

Served(m) ==
  CASE m.type = "STATE" -> ServeState(m.body)
    [] m.type = "DEVICE" -> ServeDevice(m.body.installation, m.body.pending)
    [] m.type = "REVOKE" -> ServeRevoke(m.body.installation, m.body)

(* execute: the request of a context that has gone is dropped.             *)
Executable(m) ==
  \/ m.type = "REVOKE"
  \/ /\ ~page.ending /\ page.phase = "authenticated" /\ page.user # None
     /\ m.epoch = page.epoch

DropRequest ==
  /\ writes # <<>> /\ ~Head(writes).served /\ ~Executable(Head(writes).message)
  /\ writes' = Tail(writes)
  /\ UNCHANGED <<store, phone, page, cookie, target, rows, log, gone, ids, events, issued,
                 known, ended, disturbed>>

Answered(answer) ==
  writes' = [writes EXCEPT ![1].served = TRUE, ![1].epoch = page.epoch, ![1].answer = answer]

(* The server carries the request out.  The answer may be lost, the request*)
(* may never come, or the operation may be a day old by then.              *)
Serve ==
  LET m == Head(writes).message
      i == Installation(m)
      s == Served(m)
      Effect ==
        /\ rows' = [rows EXCEPT ![i] = s.row]
        /\ log' = IF s.logged THEN log \cup {[operation |-> m.id, answer |-> s.answer]} ELSE log
        /\ ids' = IF s.row.binding > ids THEN s.row.binding ELSE ids
        /\ issued' = IF m.type = "DEVICE" /\ s.row.binding # 0
                     THEN issued \cup {[installation |-> i, user |-> s.row.user,
                                        id |-> s.row.binding, revision |-> s.row.revision,
                                        token |-> s.row.token]}
                     ELSE issued
      Lost(code) == Answer(IF code = "" THEN "RETRY" ELSE "FAILED", code, i, None, 0, 0) IN
  /\ writes # <<>> /\ ~Head(writes).served /\ Executable(m)
  /\ \/ Effect /\ Answered(s.answer) /\ UNCHANGED events
     \/ Effect /\ Answered(Lost("")) /\ Lose
     \/ /\ \/ Answered(Lost(""))
           \/ m.type # "STATE" /\ Answered(Lost("EXPIRED"))
        /\ Lose /\ UNCHANGED <<rows, log, ids, issued>>
  /\ UNCHANGED <<store, phone, page, cookie, target, gone, known, ended, disturbed>>

(* The answer reaches the coordinator, unless the page's context is another*)
(* by now: acceptStateResult, acceptRegistrationResult, acceptRevokeResult *)
(* up to their first await.  Slip: the request is done with before it is   *)
(* known to be answered.                                                   *)
AcceptStateResult_Slip(m, answer) ==
  LET c == phone.request
      key == Key("state", m.id)
      done == [ClearRetry(phone, key) EXCEPT !.request = None] IN
  IF phone.request = None THEN phone
  ELSE IF c.id # m.id \/ c.epoch # m.epoch \/ ~Matches(phone, c) THEN phone
  ELSE IF answer.outcome = "RETRY" THEN ScheduleRetry(done, key, c)
  ELSE Enqueue(done, [kind |-> "stateLoad", context |-> c, answer |-> answer])

AcceptStateResult(m, answer) ==
  LET c == phone.request
      key == Key("state", m.id)
      done == [ClearRetry(phone, key) EXCEPT !.request = None] IN
  IF phone.request = None THEN phone
  ELSE IF c.id # m.id \/ c.epoch # m.epoch \/ ~Matches(phone, c) THEN phone
  ELSE IF answer.outcome = "RETRY"
  THEN ScheduleRetry(ClearScheduledRetry(phone, key), key, c)
  ELSE Enqueue(done, [kind |-> "stateLoad", context |-> c, answer |-> answer])

Deliver ==
  LET w == Head(writes)
      m == w.message IN
  /\ writes # <<>> /\ w.served
  /\ Sent(CASE m.type # "REVOKE" /\ w.epoch # page.epoch -> phone
            [] m.type = "STATE" /\ w.epoch = page.epoch -> AcceptStateResult(m, w.answer)
            [] m.type = "DEVICE" /\ w.epoch = page.epoch ->
                 Enqueue(phone, [kind |-> "resultLoad", operation |-> m.id, epoch |-> m.epoch,
                                 answer |-> w.answer, generation |-> phone.generation])
            [] m.type = "REVOKE" ->
                 Enqueue(phone, [kind |-> "revokeLoad", operation |-> m.id,
                                 answer |-> w.answer]),
          Tail(writes), page)
  /\ UNCHANGED <<store, cookie, target, rows, log, gone, ids, events, issued, known, ended,
                 disturbed>>

---------------------------------------------------------------------------
(* The page and its session                                                *)

AuthPayload(document) ==
  [epoch |-> document.epoch, user |-> document.user,
   phase |-> IF document.phase = "authenticated" THEN "authenticated"
             ELSE IF document.phase = "anonymous" THEN "anonymous" ELSE "bootstrapping"]

(* sendAuth: the context, and in a session a registration.                 *)
SendAuth(p, document) ==
  LET told == AcceptAuthState(p, AuthPayload(document)) IN
  IF ~p.connected THEN p
  ELSE IF document.phase = "authenticated" THEN RequestRegistration(told, document.epoch)
  ELSE told

(* The bridge is up: the coordinator is connected, what is to be revoked is*)
(* sent, and the page's push session tells the context.                    *)
Connect ==
  /\ ~phone.connected
  /\ Settle(SendAuth(Enqueue([Disconnect(phone) EXCEPT !.connected = TRUE],
                             [kind |-> "flushLoad"]), page))
  /\ UNCHANGED <<store, cookie, target, rows, log, gone, ids, events, issued, known, ended,
                 disturbed>>

Enter(document) == Sent(SendAuth(phone, document), writes, document)

Boot ==
  /\ page.phase = "bootstrapping"
  /\ IF cookie = None
     THEN Enter([page EXCEPT !.phase = "anonymous", !.epoch = @ + 1]) /\ UNCHANGED ended
     ELSE /\ Enter([page EXCEPT !.phase = "authenticated", !.epoch = @ + 1, !.user = cookie.user])
          /\ ended' = ended \ {cookie.user}
  /\ UNCHANGED <<store, cookie, target, rows, log, gone, ids, events, issued, known,
                 disturbed>>

LogIn(u) ==
  /\ page.phase = "anonymous" /\ u \notin gone /\ Count(1)
  /\ cookie' = [user |-> u, session |-> ids + 1]
  /\ ids' = ids + 1
  /\ Enter([page EXCEPT !.phase = "authenticated", !.epoch = @ + 1, !.user = u, !.ending = FALSE])
  /\ ended' = ended \ {u}
  /\ UNCHANGED <<store, target, rows, log, gone, issued, known, disturbed>>

CaptureSessionEnding(p, document, reason) ==
  IF p.last = None THEN p
  ELSE IF p.last.epoch # document.epoch THEN p
  ELSE Enqueue(Bump(p), [kind |-> "endCreate", user |-> p.last.user, reason |-> reason,
                         epoch |-> document.epoch, session |-> document.session])

(* logoutCurrentSession, completeAccountWithdrawal: the app is told of the *)
(* end first, then of the context without a user.                          *)
BeginEnd(reason) ==
  LET captured == IF phone.connected THEN CaptureSessionEnding(phone, page, reason) ELSE phone
      left == [page EXCEPT !.phase = "leaving", !.epoch = @ + 1, !.user = None,
                           !.ending = phone.connected, !.waiting = phone.connected,
                           !.reason = reason] IN
  /\ page.phase = "authenticated" /\ Count(1)
  /\ Sent(SendAuth(captured, left), writes, left)
  /\ IF reason = "LOGOUT" THEN UNCHANGED <<cookie, rows, gone>>
     ELSE /\ gone' = gone \cup {page.user}
          /\ cookie' = None
          /\ rows' = [i \in DOMAIN rows |-> IF rows[i].user = page.user THEN NoRow ELSE rows[i]]
  /\ UNCHANGED <<store, target, log, ids, issued, known, ended, disturbed>>

(* The page waits for the app no longer than 1.5 seconds.                  *)
StopWaiting ==
  /\ page.waiting
  /\ page' = [page EXCEPT !.waiting = FALSE]
  /\ UNCHANGED <<store, phone, writes, cookie, target, rows, log, gone, ids, events, issued,
                 known, ended, disturbed>>

Replaced(p) == Sent(Disconnect(p), <<>>, NewPage(page.session + 1))

(* The log-out's request ends the session and revokes what it registered,  *)
(* or does not come; the page is replaced.                                 *)
Logout ==
  /\ page.phase = "leaving" /\ page.reason = "LOGOUT" /\ ~page.waiting
  /\ \/ /\ cookie' = None /\ UNCHANGED events
        /\ rows' = [i \in DOMAIN rows |-> IF rows[i].session = cookie.session
                                          THEN Deactivated(rows[i]) ELSE rows[i]]
     \/ Count(1) /\ UNCHANGED <<cookie, rows>>
  /\ Replaced(phone)
  /\ UNCHANGED <<store, target, log, gone, ids, issued, known, ended, disturbed>>

Withdrawn ==
  /\ page.phase = "leaving" /\ page.reason = "WITHDRAWAL" /\ ~page.waiting
  /\ Enter([page EXCEPT !.phase = "anonymous", !.epoch = @ + 1])
  /\ UNCHANGED <<store, cookie, target, rows, log, gone, ids, events, issued, known, ended,
                 disturbed>>

---------------------------------------------------------------------------
(* The phone and the world                                                 *)

Reload ==
  /\ Count(1) /\ Replaced(phone)
  /\ UNCHANGED <<store, cookie, target, rows, log, gone, ids, issued, known, ended,
                 disturbed>>

(* The app's process ends: what is not in the record is gone.              *)
Restart ==
  /\ Count(1) /\ Replaced(NewPhone)
  /\ UNCHANGED <<store, cookie, target, rows, log, gone, ids, issued, known, ended,
                 disturbed>>

Foreground ==
  /\ Count(1) /\ Settle(RefreshRegistration(phone))
  /\ UNCHANGED <<store, cookie, target, rows, log, gone, ids, issued, known, ended,
                 disturbed>>

(* A new token is heard of; who changes the permission comes back to the app.*)
ChangeTarget(t) ==
  /\ t # target /\ Count(1)
  /\ target' = t
  /\ Settle(RefreshRegistration(phone))
  /\ UNCHANGED <<store, cookie, rows, log, gone, ids, issued, known, ended, disturbed>>

(* The provider refuses the token; retention removes a silent row.         *)
RowChanges(i) ==
  /\ Stands(i) /\ Count(1) /\ disturbed' = TRUE
  /\ rows' = [rows EXCEPT ![i] = IF @.binding # 0 THEN Deactivated(@) ELSE NoRow]
  /\ UNCHANGED <<store, phone, page, writes, cookie, target, log, gone, ids, issued, known,
                 ended>>

---------------------------------------------------------------------------
(* The app is new, or was registered for an account in an earlier run, by  *)
(* whose end the token may have changed.                                   *)
FirstToken == CHOOSE t \in Tokens : TRUE

Init ==
  /\ \/ store = None /\ cookie = None /\ rows = <<>> /\ issued = {} /\ known = {} /\ ids = 0
        /\ target = FirstToken
     \/ LET u == Earlier
              t == FirstToken
              binding == [id |-> 1, user |-> u, revision |-> 1, token |-> t] IN
          /\ store = [Recorded(1) EXCEPT !.binding = binding,
                        !.ack = [operation |-> 2, installation |-> 1, user |-> u,
                                 epoch |-> 1, binding |-> 1, revision |-> 1]]
          /\ cookie = [user |-> u, session |-> 3]
          /\ rows = <<[user |-> u, session |-> 3, binding |-> 1, revision |-> 1, token |-> t]>>
          /\ issued = {[installation |-> 1, user |-> u, id |-> 1, revision |-> 1, token |-> t]}
          /\ known = {1} /\ ids = 3
          /\ target \in Tokens
  /\ phone = NewPhone /\ page = NewPage(0) /\ writes = <<>>
  /\ log = {} /\ gone = {} /\ events = [acts |-> 0, losses |-> 0]
  /\ ended = {} /\ disturbed = FALSE

Storage ==
  \/ StartRegistration \/ ClearPending \/ LoadForState \/ RotateInstallation
  \/ SavePending \/ ResumePending \/ LoadForResult \/ DropPending \/ Bind
  \/ LoadForEnding \/ SaveEnding \/ LoadForFlush
  \/ LoadForRevoke \/ RemoveRevoke \/ ReplaceRevoke

Bridge == Connect \/ Boot \/ Withdrawn \/ Logout \/ StopWaiting

Fault == ProviderFails \/ StorageFails \/ Restart \/ Reload
         \/ \E i \in DOMAIN rows : RowChanges(i)

User == \/ \E u \in Accounts : LogIn(u)
        \/ \E reason \in {"LOGOUT", "WITHDRAWAL"} : BeginEnd(reason)
        \/ Foreground \/ \E t \in Tokens \cup {None} : ChangeTarget(t)

Timers == \E t \in phone.timers : FireTimer(t)

Next == Storage \/ ResolveTarget \/ DropRequest \/ Serve \/ Deliver \/ Timers
        \/ Bridge \/ Fault \/ User

(* The JavaScript of both ends runs, requests end, timers fire.            *)
Fairness ==
  /\ WF_vars(Storage) /\ WF_vars(ResolveTarget) /\ WF_vars(Timers)
  /\ WF_vars(DropRequest) /\ WF_vars(Serve) /\ WF_vars(Deliver)
  /\ WF_vars(Connect) /\ WF_vars(Boot) /\ WF_vars(Withdrawn) /\ WF_vars(Logout)

Spec == Init /\ [][Next]_vars /\ Fairness

---------------------------------------------------------------------------
(* Every variable holds a value of its type.                               *)
TypeOK ==
  /\ store # None => store \in Records /\ store.installation \in 1..Len(rows)
  /\ phone.regs \in Seq([epoch : Nat, generation : Nat, busy : BOOLEAN])
  /\ phone.out = {} /\ phone.generation \in Nat
  /\ page \in [phase : {"bootstrapping", "anonymous", "authenticated", "leaving"},
               epoch : Nat, user : Accounts \cup {None}, ending : BOOLEAN, waiting : BOOLEAN,
               reason : {"LOGOUT", "WITHDRAWAL"}, session : Nat]
  /\ rows \in Seq([user : Accounts \cup {None}, session : Nat, binding : Nat, revision : Nat,
                   token : Tokens \cup {None}])
  /\ cookie # None => cookie \in [user : Accounts, session : Nat]
  /\ target \in Tokens \cup {None} /\ gone \subseteq Accounts /\ ended \subseteq Accounts
  /\ ids \in Nat /\ events \in [acts : 0..MaxEvents, losses : 0..MaxLosses]
  /\ disturbed \in BOOLEAN

(* The binding in the record is one the server gave: to that account, for  *)
(* that installation and token, at that revision, however late, repeated or*)
(* crossed the results were.                                               *)
StoredBindingIsGenuine ==
  store # None => (store.binding # None =>
    [installation |-> store.installation, user |-> store.binding.user, id |-> store.binding.id,
     revision |-> store.binding.revision, token |-> store.binding.token] \in issued)

(* A binding the phone has held does not stay alive unknown to it: it is   *)
(* the active one or still to be revoked, until the server has ended it.   *)
NoBindingForgotten ==
  \A i \in DOMAIN rows :
    rows[i].binding \in known =>
      \/ store.binding # None /\ store.binding.id = rows[i].binding
      \/ \E r \in store.revokes : r.binding = rows[i].binding

(* Once the end of an account's session is captured, no late result gives  *)
(* the phone a binding of the account, until it logs in again.             *)
EndedStaysEnded ==
  \A u \in ended : store.binding # None => store.binding.user # u

(* Under a session that stays, the phone ends up registered: with the token*)
(* of the day, as the server has it.                                       *)
Registered ==
  store # None /\ store.binding # None
  /\ store.binding.user = page.user /\ store.binding.token = target
  /\ LET row == rows[store.installation] IN
     row.binding = store.binding.id /\ row.token = target /\ row.revision = store.binding.revision
RegistrationSettles ==
  <>[](page.phase = "authenticated" /\ phone.connected /\ target # None /\ ~disturbed)
    => <>[]Registered

(* Under a bridge that stays, what is to be revoked is revoked, or the row *)
(* has moved on to another revision of the binding.                        *)
RevokesSettle ==
  <>[](phone.connected /\ ~disturbed) =>
    <>[](store # None => \A revoke \in store.revokes :
           /\ rows[revoke.installation].binding = revoke.binding
           /\ rows[revoke.installation].revision # revoke.expected)

(* The record is of its type and holds the server's bindings only.         *)
RecordIsGenuine == TypeOK /\ StoredBindingIsGenuine
=============================================================================
