------------------------------- MODULE PushOpen -------------------------------
(***************************************************************************)
(* A push notification that the user opens, from the tap on the phone until*)
(* it has been shown, recorded and marked as read: the app's coordinator   *)
(* (app/src/push/pushOpenCoordinator) with its durable list of opens       *)
(* (pushOpenStorage), the page's session (web/src/shared/native/           *)
(* pushOpenSession) with its IndexedDB (pushOpenStore), and the server's   *)
(* notification.                                                           *)
(*                                                                         *)
(* Each account has one binding.  The coordinator's storage operations wait*)
(* in one queue, each with its continuation; messages between the app and  *)
(* the page arrive at once and in order while the bridge is up.  A load    *)
(* that only tells which SDK responses to clear is one step with the write *)
(* that follows it.                                                        *)
(***************************************************************************)
EXTENDS Integers, Sequences, FiniteSets

CONSTANTS
  Accounts,    \* the users of this phone
  Opens,       \* the taps on notifications that may happen, one each
  None,        \* nobody, nothing
  MaxEvents    \* bound: taps, acts of the user, faults, reloads, restarts

ASSUME OpenAssumption == None \notin Accounts \cup Opens /\ MaxEvents \in Nat

VARIABLES
  of,        \* the account that each opened notification is of
  sdk,       \* the last response that the operating system remembers
  pending,   \* the durable opens of the app, numbered in the order of their capture
  owners,    \* accounts whose binding the app knows the owner of
  phone,     \* the coordinator
  page,      \* the document in the WebView
  cookie,    \* the account whose session the page's cookie names, or None
  records,   \* the page's durable records of opens that are done
  reads,     \* its durable intents to mark notifications as read
  old,       \* opens captured more than 90 days ago
  deleted,   \* opens whose notification is gone from the server
  gone,      \* withdrawn accounts
  events,    \* what MaxEvents bounds
  tapped,    \* history: the opens that have happened
  marked,    \* history: the opens whose notification is marked as read
  disturbed  \* history: a storage has failed

vars == <<of, sdk, pending, owners, phone, page, cookie, records, reads, old, deleted,
          gone, events, tapped, marked, disturbed>>
durable == <<pending, owners>>
web == <<records, reads>>
world == <<of, cookie, old, deleted, gone, tapped>>

Count == events < MaxEvents /\ events' = events + 1

NewPhone == [connected |-> FALSE, generation |-> 0, auth |-> None, delivered |-> {},
             queue |-> <<>>]
NewPage == [phase |-> "bootstrapping", epoch |-> 0, user |-> None, pending |-> {},
            tasks |-> {}, presented |-> {}, prompted |-> {}, reading |-> None,
            clearing |-> {}]

---------------------------------------------------------------------------
(* The page: receive, open, resume                                         *)

Current(c) == page.phase = "authenticated" /\ page.epoch = c.epoch

(* open, up to its first await, of messages about as many opens.           *)
OpenEach(document, messages) ==
  LET fresh == {m \in messages : \A t \in document.tasks : t.open # m.open}
      current == {m \in fresh : m.epoch = document.epoch} IN
  IF document.phase = "anonymous"
  THEN [document EXCEPT !.prompted = @ \cup {m.open : m \in messages}]
  ELSE IF document.phase # "authenticated" THEN document
  ELSE [document EXCEPT !.pending = @ \ (fresh \ current),
                        !.tasks = @ \cup
          {[open |-> m.open, epoch |-> document.epoch, user |-> document.user,
            step |-> "record", found |-> TRUE] : m \in current}]

Receive(document, messages) ==
  LET others == {n \in document.pending : \A m \in messages : m.open # n.open} IN
  OpenEach([document EXCEPT !.pending = others \cup messages], messages)

(* flushReads: a round over the intents of the user, with the load that it *)
(* begins with.                                                            *)
NextRead(document, c, left) ==
  IF left = {} THEN [document EXCEPT !.reading = None]
  ELSE LET r == CHOOSE r \in left : TRUE IN
       [document EXCEPT !.reading =
          [epoch |-> c.epoch, user |-> c.user, left |-> left \ {r}, at |-> r,
           step |-> "put"]]
FlushReads(document, intents) ==
  IF document.phase # "authenticated" \/ document.reading # None THEN document
  ELSE NextRead(document, document, {r \in intents : r[1] = document.user})

(* Slip: only opens are resumed.                                           *)
Resume_Slip(document) == OpenEach(document, document.pending)

Resume(document) == FlushReads(OpenEach(document, document.pending), reads)

---------------------------------------------------------------------------
(* The coordinator                                                         *)

Enqueue(p, operation) == [p EXCEPT !.queue = Append(@, operation)]
At(kind) == phone.queue # <<>> /\ Head(phone.queue).kind = kind
Operation == Head(phone.queue)
Rest == [phone EXCEPT !.queue = Tail(@)]
Authenticated(p) == p.auth # None /\ p.auth.user # None

(* resolveNativeBindingOwner                                               *)
OwnerOf(o) == IF of[o] \in owners THEN of[o] ELSE None

(* deliveryContext: in which session, and whether an open may be sent to it*)
(* at all.  Slip: whoever is logged in may see it.                         *)
Context(p) ==
  IF Authenticated(p) THEN [phase |-> "authenticated", epoch |-> p.auth.epoch]
  ELSE [phase |-> "anonymous", epoch |-> 0]

MayReceive_Slip(p, item) == TRUE

MayReceive(p, item) == Authenticated(p) => item.owner \in {None, p.auth.user}

(* deliver, or what is left of it after it has asked for the owner of an   *)
(* item: the items are sent in their order, up to one whose owner must be  *)
(* asked for first, or none once the bridge was down.                      *)
First(items) == CHOOSE x \in items : \A y \in items : x.at <= y.at

GoOn(p, items, generation, asked) ==
  LET may == {x \in items : MayReceive(p, x)}
      unknown == {x \in may : Authenticated(p) /\ x.owner = None /\ x.open \notin asked}
      rest == {x \in items : \E y \in unknown : y.at <= x.at}
      same == generation = p.generation
      key(x) == <<x.open, Context(p)>>
      sent == {x \in may \ rest : same /\ key(x) \notin p.delivered}
      left == IF same \/ may \subseteq rest THEN rest ELSE {}
      q == [p EXCEPT !.delivered = @ \cup {key(x) : x \in sent}] IN
  /\ phone' = IF left = {} THEN q
              ELSE Enqueue(q, [kind |-> "resolve", items |-> left, generation |-> generation])
  /\ page' = Receive(page, {[open |-> x.open, epoch |-> Context(p).epoch] : x \in sent})

Deliver(p, items) ==
  IF p.connected THEN GoOn(p, items, p.generation, {}) ELSE phone' = p /\ UNCHANGED page

(* An authentication state is a new object each time it is told.           *)
SameAuth(p, o) == p.auth = o.auth /\ p.generation = o.generation

(* acceptAck, up to its first await.                                       *)
AcceptAck(p, open, context) ==
  IF Authenticated(p) /\ p.auth.user = context.user /\ p.auth.epoch = context.epoch
  THEN Enqueue(p, [kind |-> "ackLoad", open |-> open, auth |-> p.auth,
                   generation |-> p.generation])
  ELSE p

Disconnect(p) ==
  [p EXCEPT !.connected = FALSE, !.generation = @ + 1, !.auth = None, !.delivered = {}]

(* Slip: the state is kept, and what is pending waits for the next tap.    *)
AcceptAuthState_Slip(p, document) ==
  IF ~p.connected THEN p
  ELSE [p EXCEPT !.auth = [user |-> document.user, epoch |-> document.epoch]]

AcceptAuthState(p, document) ==
  IF ~p.connected THEN p
  ELSE Enqueue([p EXCEPT !.auth = [user |-> document.user, epoch |-> document.epoch]],
               [kind |-> "flush"])

Find(open) == {x \in pending : x.open = open}
SetOwner(open) ==
  {IF x.open = open THEN [x EXCEPT !.owner = of[open]] ELSE x : x \in pending}
ClearResponses(opens) == IF sdk \in opens THEN None ELSE sdk

---------------------------------------------------------------------------
(* Captures: an open is in the record before anything is done with it      *)

Captured == \A i \in DOMAIN phone.queue : phone.queue[i].kind \notin {"capture", "append"}

(* A person taps no faster than the secure store writes.                   *)
Tap(o) ==
  /\ o \notin tapped /\ Captured /\ Count
  /\ tapped' = tapped \cup {o} /\ sdk' = o
  /\ phone' = Enqueue(phone, [kind |-> "capture", open |-> o])
  /\ UNCHANGED <<of, durable, page, cookie, web, old, deleted, gone, marked, disturbed>>

ResolveCapture ==
  /\ At("capture")
  /\ phone' = Enqueue(Rest, [kind |-> "append", open |-> Operation.open,
                             owner |-> OwnerOf(Operation.open)])
  /\ UNCHANGED <<sdk, durable, page, web, world, events, marked, disturbed>>

AppendOpen ==
  LET o == Operation
      last == IF pending = {} THEN 0 ELSE (CHOOSE x \in pending : \A y \in pending : y.at <= x.at).at
      new == {[open |-> o.open, owner |-> o.owner, at |-> last + 1]} IN
  /\ At("append")
  /\ pending' = IF Find(o.open) # {} THEN pending ELSE pending \cup new
  /\ Deliver(Rest, IF Find(o.open) # {} THEN Find(o.open) ELSE new)
  /\ UNCHANGED <<sdk, owners, web, world, events, marked, disturbed>>

(* The loop of deliver goes on with the owner that it asked for.           *)
ResolveOwner ==
  LET o == Operation
      item == First(o.items) IN
  /\ At("resolve")
  /\ IF OwnerOf(item.open) = None THEN GoOn(Rest, o.items \ {item}, o.generation, {})
     ELSE /\ phone' = Enqueue(Rest, [o EXCEPT !.kind = "own"])
          /\ UNCHANGED page
  /\ UNCHANGED <<sdk, durable, web, world, events, marked, disturbed>>

OwnDelivered ==
  LET o == Operation
      item == First(o.items)
      owned == IF Find(item.open) = {} THEN item ELSE [item EXCEPT !.owner = of[item.open]] IN
  /\ At("own")
  /\ pending' = SetOwner(item.open)
  /\ GoOn(Rest, (o.items \ {item}) \cup {owned}, o.generation, {item.open})
  /\ UNCHANGED <<sdk, owners, web, world, events, marked, disturbed>>

(* What is not too old is kept.                                            *)
Kept(item) == item.open \notin old

(* flush: what is older than 90 days goes, the rest is delivered.          *)
Flush ==
  LET kept == {x \in pending : Kept(x)} IN
  /\ At("flush")
  /\ pending' = kept
  /\ sdk' = ClearResponses(old)
  /\ Deliver(Rest, kept)
  /\ UNCHANGED <<owners, web, world, events, marked, disturbed>>

(* A registration has given the account's binding.                         *)
RecordOwner ==
  /\ At("activated")
  /\ owners' = owners \cup {Operation.user}
  /\ phone' = Enqueue(Rest, [kind |-> "flush"])
  /\ UNCHANGED <<sdk, pending, page, web, world, events, marked, disturbed>>

(* handleWithdrawal                                                        *)
RemoveForUser ==
  LET u == Operation.user
      Own(item) == item.owner = u \/ (of[item.open] = u /\ u \in owners)
      removed == {x.open : x \in {y \in pending : Own(y)}} IN
  /\ At("withdrawal")
  /\ pending' = {x \in pending : ~Own(x)}
  /\ owners' = owners \ {u}
  /\ sdk' = ClearResponses(removed)
  /\ phone' = [Rest EXCEPT !.delivered = {d \in @ : d[1] \notin removed}]
  /\ UNCHANGED <<page, web, world, events, marked, disturbed>>

---------------------------------------------------------------------------
(* acceptAck, after its load.  It asks for an owner that is not known, but *)
(* an open is sent to a session only with its owner stored.                *)

LoadForAck ==
  LET o == Operation
      done == SameAuth(phone, o) /\ \E x \in Find(o.open) : x.owner = o.auth.user IN
  /\ At("ackLoad")
  /\ sdk' = IF done THEN ClearResponses({o.open}) ELSE sdk
  /\ phone' = IF done THEN Enqueue(Rest, [kind |-> "remove", open |-> o.open])
              ELSE Rest
  /\ UNCHANGED <<durable, page, web, world, events, marked, disturbed>>

RemoveOpen ==
  /\ At("remove")
  /\ pending' = {x \in pending : x.open # Operation.open}
  /\ phone' = Rest
  /\ UNCHANGED <<sdk, owners, page, web, world, events, marked, disturbed>>

StorageFails ==
  /\ phone.queue # <<>> /\ Count
  /\ phone' = Rest /\ disturbed' = TRUE
  /\ UNCHANGED <<sdk, durable, page, web, world, marked>>

---------------------------------------------------------------------------
(* The page's tasks: record, notification, target, navigation, completion  *)

Finish(document, t) == [document EXCEPT !.tasks = @ \ {t}]
Go(document, t, step) == [document EXCEPT !.tasks = (@ \ {t}) \cup {[t EXCEPT !.step = step]}]
Ack(document, t) == [document EXCEPT !.pending = {n \in @ : n.open # t.open}]
Key(t) == <<t.user, t.open>>
Recorded(t) == \E r \in records : r.user = t.user /\ r.open = t.open

(* Slip: a reloaded page forgets to look for the record.                   *)
Completed_Slip(t) == FALSE

Completed(t) == Recorded(t)

ReadRecord(t) ==
  /\ t \in page.tasks /\ t.step = "record"
  /\ IF Current(t) /\ Completed(t)
     THEN /\ page' = Finish(Ack(page, t), t)
          /\ phone' = AcceptAck(phone, t.open, t)
     ELSE /\ page' = IF Current(t) THEN Go(page, t, "fetch") ELSE Finish(page, t)
          /\ UNCHANGED phone
  /\ UNCHANGED <<sdk, durable, web, world, events, marked, disturbed>>

(* It is shown at most once in the life of a page.                         *)
Presented(document, t) == Key(t) \in document.presented
Present(document, t) == Go(document, t, IF Presented(document, t) THEN "complete" ELSE "navigate")

Visible(t) == t.user = of[t.open] /\ t.open \notin deleted /\ t.user \notin gone

Fetch(t) ==
  /\ t \in page.tasks /\ t.step = "fetch"
  /\ page' = IF ~Current(t) THEN Finish(page, t)
             ELSE IF Visible(t) THEN Go(page, t, "target")
             ELSE LET missing == [t EXCEPT !.found = FALSE] IN
                  Present([page EXCEPT !.tasks = (@ \ {t}) \cup {missing}], missing)
  /\ UNCHANGED <<sdk, durable, phone, web, world, events, marked, disturbed>>

(* Whether its target is there decides only where the page goes.           *)
FetchTarget(t) ==
  /\ t \in page.tasks /\ t.step = "target"
  /\ page' = IF Current(t) THEN Present(page, t) ELSE Finish(page, t)
  /\ UNCHANGED <<sdk, durable, phone, web, world, events, marked, disturbed>>

(* Slip: the open is acknowledged once it is seen.                         *)
Navigated_Slip(t) ==
  /\ t \in page.tasks /\ t.step = "navigate"
  /\ page' = IF Current(t)
             THEN [Go(page, t, "complete") EXCEPT !.presented = @ \cup {Key(t)}]
             ELSE Finish(page, t)
  /\ phone' = IF Current(t) THEN AcceptAck(phone, t.open, t) ELSE phone
  /\ UNCHANGED <<sdk, durable, web, world, events, marked, disturbed>>

Navigated(t) ==
  /\ t \in page.tasks /\ t.step = "navigate"
  /\ page' = IF Current(t)
             THEN [Go(page, t, "complete") EXCEPT !.presented = @ \cup {Key(t)}]
             ELSE Finish(page, t)
  /\ UNCHANGED <<sdk, durable, phone, web, world, events, marked, disturbed>>

(* What the completion writes, for the user and the open it was done for.  *)
Written(t) ==
  /\ records' = records \cup {[user |-> t.user, open |-> t.open, found |-> t.found]}
  /\ reads' = IF t.found THEN reads \cup {Key(t)} ELSE reads

Complete(t) ==
  /\ t \in page.tasks /\ t.step = "complete"
  /\ Written(t)
  /\ page' = FlushReads(Finish(IF Current(t) THEN Ack(page, t) ELSE page, t), reads')
  /\ phone' = IF Current(t) THEN AcceptAck(phone, t.open, t) ELSE phone
  /\ UNCHANGED <<sdk, durable, world, events, marked, disturbed>>

(* A request, the navigation or the page's storage fails.                  *)
TaskFails(t) ==
  /\ t \in page.tasks /\ Count
  /\ page' = Finish(page, t)
  /\ UNCHANGED <<sdk, durable, phone, web, world, marked, disturbed>>

---------------------------------------------------------------------------
(* The page's read intents, one request at a time                          *)

Reading(step) == page.reading # None /\ page.reading.step = step
Idle == [page EXCEPT !.reading = None]
Onward == IF Current(page.reading) THEN NextRead(page, page.reading, page.reading.left)
          ELSE Idle

(* The server marks it, or refuses it for good, when it is gone.           *)
PutRead ==
  LET c == page.reading IN
  /\ Reading("put")
  /\ IF Visible([user |-> c.user, open |-> c.at[2]])
     THEN marked' = marked \cup {c.at[2]} ELSE UNCHANGED marked
  /\ page' = IF Current(c) THEN [page EXCEPT !.reading.step = "done"] ELSE Idle
  /\ UNCHANGED <<sdk, durable, phone, web, world, events, disturbed>>

(* Another attempt waits until a later round.                              *)
PutReadFails ==
  /\ Reading("put") /\ Count
  /\ page' = Onward
  /\ UNCHANGED <<sdk, durable, phone, web, world, marked, disturbed>>

RemoveRead ==
  /\ Reading("done")
  /\ reads' = reads \ {page.reading.at}
  /\ page' = Onward
  /\ UNCHANGED <<sdk, durable, phone, records, world, events, marked, disturbed>>

(* Every five seconds, online again, visible again.                        *)
Timer ==
  /\ page' = Resume(page)
  /\ UNCHANGED <<sdk, durable, phone, web, world, events, marked, disturbed>>

---------------------------------------------------------------------------
(* Sessions, documents, the app                                            *)

Enter(p, document) ==
  /\ phone' = AcceptAuthState(p, document)
  /\ page' = Resume(document)

(* The bridge is up: what is pending is flushed, for nobody in particular  *)
(* until the authentication state is told.                                 *)
Connect ==
  /\ ~phone.connected
  /\ phone' = AcceptAuthState(
       Enqueue([Disconnect(phone) EXCEPT !.connected = TRUE], [kind |-> "flush"]), page)
  /\ UNCHANGED <<sdk, durable, page, web, world, events, marked, disturbed>>

Boot ==
  /\ page.phase = "bootstrapping"
  /\ Enter(phone, IF cookie = None
                  THEN [page EXCEPT !.phase = "anonymous", !.epoch = @ + 1]
                  ELSE [page EXCEPT !.phase = "authenticated", !.epoch = @ + 1,
                                    !.user = cookie])
  /\ UNCHANGED <<sdk, durable, web, world, events, marked, disturbed>>

(* The person logs in, which takes longer than a delivery that waits for   *)
(* the owner of an open.  (Such a delivery goes on with an open that is no *)
(* longer pending, whose owner it then does not know: the login of another *)
(* account before it ends would receive the open.)                         *)
LogIn(u) ==
  /\ \A i \in DOMAIN phone.queue : phone.queue[i].kind \notin {"resolve", "own"}
  /\ page.phase = "anonymous" /\ u \notin gone /\ Count
  /\ cookie' = u
  /\ Enter(phone, [page EXCEPT !.phase = "authenticated", !.epoch = @ + 1, !.user = u])
  /\ UNCHANGED <<of, sdk, durable, web, old, deleted, gone, tapped, marked, disturbed>>

(* A page that is replaced leaves its last write done or undone.           *)
Replaced(p) ==
  /\ phone' = Disconnect(p)
  /\ page' = NewPage
  /\ \/ UNCHANGED web
     \/ \E t \in page.tasks : t.step = "complete" /\ Written(t)

LogOut ==
  /\ page.phase = "authenticated" /\ Count
  /\ cookie' = None
  /\ Enter(phone, [page EXCEPT !.phase = "leaving", !.epoch = @ + 1, !.user = None])
  /\ UNCHANGED <<of, sdk, durable, web, old, deleted, gone, tapped, marked, disturbed>>

Leave ==
  /\ page.phase = "leaving" /\ Replaced(phone)
  /\ UNCHANGED <<sdk, durable, world, events, marked, disturbed>>

Withdraw ==
  LET p == IF phone.connected
           THEN Enqueue(phone, [kind |-> "withdrawal", user |-> page.user]) ELSE phone IN
  /\ page.phase = "authenticated" /\ Count
  /\ cookie' = None /\ gone' = gone \cup {page.user}
  /\ Enter(p, [page EXCEPT !.phase = "anonymous", !.epoch = @ + 1, !.user = None,
                           !.clearing = {page.user}])
  /\ UNCHANGED <<of, sdk, durable, web, old, deleted, tapped, marked, disturbed>>

(* clearPushOpenUser                                                       *)
ClearUser(u) ==
  /\ u \in page.clearing
  /\ page' = [page EXCEPT !.clearing = {}]
  /\ records' = {r \in records : r.user # u}
  /\ reads' = {r \in reads : r[1] # u}
  /\ UNCHANGED <<sdk, durable, phone, world, events, marked, disturbed>>

Reload ==
  /\ Count /\ Replaced(phone)
  /\ UNCHANGED <<sdk, durable, world, marked, disturbed>>

(* The app starts again, with the last response of the operating system.   *)
Restart ==
  /\ Count
  /\ Replaced([NewPhone EXCEPT !.queue =
       IF sdk = None THEN <<>> ELSE <<[kind |-> "capture", open |-> sdk]>>])
  /\ UNCHANGED <<sdk, durable, world, marked, disturbed>>

Activate(u) ==
  /\ u \notin owners /\ page.user = u /\ page.phase = "authenticated" /\ phone.connected
  /\ \A i \in DOMAIN phone.queue : phone.queue[i].kind # "activated"
  /\ phone' = Enqueue(phone, [kind |-> "activated", user |-> u])
  /\ UNCHANGED <<sdk, durable, page, web, world, events, marked, disturbed>>

Age ==
  /\ pending # {} /\ Count
  /\ old' = old \cup {x.open : x \in pending}
  /\ UNCHANGED <<of, sdk, durable, phone, page, cookie, web, deleted, gone, tapped, marked,
                 disturbed>>

Delete(o) ==
  /\ o \in tapped \ deleted /\ Count
  /\ deleted' = deleted \cup {o}
  /\ UNCHANGED <<of, sdk, durable, phone, page, cookie, web, old, gone, tapped, marked,
                 disturbed>>

---------------------------------------------------------------------------
Init ==
  /\ of \in [Opens -> Accounts]
  /\ of[CHOOSE o \in Opens : TRUE] = CHOOSE u \in Accounts : TRUE   \* without loss of generality
  /\ owners \in SUBSET Accounts /\ cookie \in Accounts \cup {None}
  /\ sdk = None /\ pending = {} /\ phone = NewPhone /\ page = NewPage
  /\ records = {} /\ reads = {} /\ old = {} /\ deleted = {} /\ gone = {}
  /\ events = 0 /\ tapped = {} /\ marked = {} /\ disturbed = FALSE

Storage == \/ ResolveCapture \/ AppendOpen \/ ResolveOwner \/ OwnDelivered \/ Flush
           \/ RecordOwner \/ RemoveForUser \/ LoadForAck \/ RemoveOpen
Task == \E t \in page.tasks :
          ReadRecord(t) \/ Fetch(t) \/ FetchTarget(t) \/ Navigated(t) \/ Complete(t)
Reads == PutRead \/ RemoveRead
Bridge == Connect \/ Boot \/ Leave
User == \/ \E o \in Opens : Tap(o)
        \/ \E u \in Accounts : LogIn(u)
        \/ LogOut \/ Withdraw
Faults == StorageFails \/ PutReadFails \/ \E t \in page.tasks : TaskFails(t)
World == Reload \/ Restart \/ Age \/ \E o \in Opens : Delete(o)
Activation == \E u \in Accounts : Activate(u)
Clearing == \E u \in Accounts : ClearUser(u)

Next == Storage \/ Task \/ Reads \/ Timer \/ Bridge \/ Activation \/ Clearing
        \/ User \/ Faults \/ World

(* The storages answer, requests end, the bridge comes up: finitely many   *)
(* such steps follow an event.  The page's timer goes on.                  *)
Progress == Storage \/ Task \/ Reads \/ Bridge
Fairness == WF_vars(Progress) /\ WF_vars(Timer)

Spec == Init /\ [][Next]_vars /\ Fairness

---------------------------------------------------------------------------
(* Every variable holds a value of its type.                               *)
TypeOK ==
  /\ pending \subseteq [open : Opens, owner : Accounts \cup {None}, at : Nat]
  /\ sdk \in tapped \cup {None}
  /\ owners \subseteq Accounts /\ gone \subseteq Accounts
  /\ cookie \in Accounts \cup {None}
  /\ page.phase \in {"bootstrapping", "anonymous", "authenticated", "leaving"}
  /\ page.user \in Accounts \cup {None} /\ page.epoch \in Nat
  /\ \A m \in page.pending : m.open \in tapped /\ m.epoch \in Nat
  /\ \A t \in page.tasks : t.user \in Accounts
  /\ records \subseteq [user : Accounts, open : Opens, found : BOOLEAN]
  /\ reads \subseteq Accounts \X Opens
  /\ tapped \subseteq Opens /\ marked \subseteq tapped /\ events \in 0..MaxEvents

(* An open is carried out, shown and recorded in no account but the one it *)
(* is of, whoever logs in while it waits, or it has meanwhile been dropped *)
(* as older than 90 days (a delivery that asks for its owner at that moment*)
(* then no longer learns it).                                              *)
OnlyTheOwner ==
  /\ \A t \in page.tasks : t.open \in old \/ t.user = of[t.open]
  /\ \A r \in records : r.open \in old \/ r.user = of[r.open]

(* An open that happened is not forgotten before it is done: the operating *)
(* system, the capture under way or the record has it, unless its account  *)
(* is withdrawn, it is 90 days old, or the storage failed.                 *)
TapNotForgotten ==
  \A o \in tapped :
    \/ sdk = o \/ Find(o) # {}
    \/ \E i \in DOMAIN phone.queue :
         phone.queue[i].kind \in {"capture", "append"} /\ phone.queue[i].open = o
    \/ \E r \in records : r.open = o
    \/ of[o] \in gone \/ o \in old \/ disturbed

(* What is done is not shown again: no page goes to an open's destination  *)
(* once its completion is recorded, however it was replaced meanwhile.     *)
NotShownAgain ==
  [][\A t \in page'.tasks \ page.tasks :
       t.step = "navigate" => ~\E r \in records : r.user = t.user /\ r.open = t.open]_vars

(* An open goes from the durable list once it is recorded as done, its     *)
(* account is withdrawn, or it is 90 days old.                             *)
RemovedWhenDone ==
  [][\A x \in pending :
       (\A y \in pending' : y.open # x.open) =>
         \/ \E r \in records : r.open = x.open
         \/ of[x.open] \in gone \/ x.open \in old]_vars

(* In its account's session that stays, an open is carried out: it leaves  *)
(* the list, and the operating system's memory.                            *)
Owned(o) == /\ page.phase = "authenticated" /\ page.user = of[o] /\ of[o] \in owners
            /\ phone.connected /\ ~disturbed
OpensSettle ==
  \A o \in Opens : <>[](o \in tapped /\ Owned(o)) => <>[](Find(o) = {} /\ sdk # o)

(* In a session that stays, what was opened ends up marked as read.        *)
ReadsSettle ==
  \A o \in Opens : ~<>[](<<of[o], o>> \in reads /\ Owned(o))

(* Opens are of their type and with their owners.                          *)
OpensAreSound == TypeOK /\ OnlyTheOwner

(* What is done is done: it is not shown again, and only then, or if it is *)
(* given up for good, does it leave the durable list.                      *)
DoneIsDone == NotShownAgain /\ RemovedWhenDone
=============================================================================
