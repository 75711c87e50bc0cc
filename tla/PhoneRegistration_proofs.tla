------------------------ MODULE PhoneRegistration_proofs ------------------------
EXTENDS PhoneRegistration, FiniteSetTheorems, SequenceTheorems, TLAPS

(***************************************************************************)
(* The inductive invariant.  Data, with the numbers used so far and the    *)
(* installations: every number is at most n, every installation at most k. *)
(***************************************************************************)
Pend(n) == [operation : 0 .. n, epoch : Nat, user : Accounts, expected : Nat,
            token : Tokens \cup {None}]
Rev(n, k) == [installation : 1 .. k, operation : 0 .. n, binding : 1 .. n, expected : Nat]
Ans(n, k) == [outcome : {"SUCCESS", "NOT_FOUND", "FAILED", "RETRY"},
              code : {"", "CONFLICT", "EXPIRED"}, installation : 1 .. k,
              user : Accounts \cup {None}, revision : Nat, binding : 0 .. n]
Ctx(n, k) == [id : 0 .. n, epoch : Nat, user : Accounts, generation : Nat,
              token : Tokens \cup {None}, rotate : BOOLEAN, installation : 0 .. k]
Asked(n, k) == {c \in Ctx(n, k) : c.installation # 0}

CreateOp(n, k) == [kind : {"create"}, context : Ctx(n, k)]
ClearOp(n, k) == [kind : {"clear"}, context : Ctx(n, k), rotate : BOOLEAN, installation : 1 .. k]
StateOp(n, k) == [kind : {"stateLoad"}, context : Asked(n, k), answer : Ans(n, k)]
RotateOp(n, k) == [kind : {"rotate"}, context : Asked(n, k)]
SaveOp(n, k) == [kind : {"save"}, context : Asked(n, k), pending : Pend(n)]
ResumeOp(n) == [kind : {"resume"}, operation : 0 .. n]
ResultOp(n, k) == [kind : {"resultLoad"}, operation : 0 .. n, epoch : Nat, answer : Ans(n, k),
                   generation : Nat]
DropOp(n) == [kind : {"drop"}, pending : Pend(n)]
BindOp(n, k) == [kind : {"bind"}, pending : Pend(n), answer : Ans(n, k), generation : Nat]
EndOp == [kind : {"endCreate", "ending"}, user : Accounts, reason : {"LOGOUT", "WITHDRAWAL"},
          epoch : Nat, session : Nat]
FlushOp == [kind : {"flushLoad"}]
RevokeOp(n, k) == [kind : {"revokeLoad"}, operation : 0 .. n, answer : Ans(n, k)]
DoneOp(n) == [kind : {"revokeDone"}, operation : 0 .. n]
ReplaceOp(n, k) == [kind : {"revokeReplace"}, operation : 0 .. n, revoke : Rev(n, k)]
StoreOp(n, k) ==
  CreateOp(n, k) \cup ClearOp(n, k) \cup StateOp(n, k) \cup RotateOp(n, k) \cup SaveOp(n, k)
    \cup ResumeOp(n) \cup ResultOp(n, k) \cup DropOp(n) \cup BindOp(n, k) \cup EndOp \cup FlushOp
    \cup RevokeOp(n, k) \cup DoneOp(n) \cup ReplaceOp(n, k)

Auth == {a \in [epoch : Nat, user : Accounts \cup {None},
                phase : {"bootstrapping", "anonymous", "authenticated"}] :
           a.phase = "authenticated" => a.user \in Accounts}
Login == {a \in Auth : a.phase = "authenticated"}
Reg == [epoch : Nat, generation : Nat, busy : BOOLEAN]
AgainTimer == [key : [kind : {"provider", "reconcile"}, id : Nat], carried : [epoch : Nat]]
StateTimer(n, k) == [key : [kind : {"state"}, id : 0 .. n], carried : Asked(n, k)]
RegisterTimer(n) == [key : [kind : {"register"}, id : 0 .. n], carried : Pend(n)]
RevokeTimer(n, k) == [key : [kind : {"revoke"}, id : 0 .. n], carried : Rev(n, k)]
Timer(n, k) == AgainTimer \cup StateTimer(n, k) \cup RegisterTimer(n) \cup RevokeTimer(n, k)

StateMsg(n, k) == [type : {"STATE"}, epoch : Nat, id : 0 .. n, body : 1 .. k]
DeviceMsg(n, k) ==
  {m \in [type : {"DEVICE"}, epoch : Nat, id : 0 .. n,
          body : [installation : 1 .. k, pending : Pend(n)]] : m.id = m.body.pending.operation}
RevokeMsg(n, k) ==
  {m \in [type : {"REVOKE"}, epoch : Nat, id : 0 .. n, body : Rev(n, k)] : m.id = m.body.operation}
Message(n, k) == StateMsg(n, k) \cup DeviceMsg(n, k) \cup RevokeMsg(n, k)
Request(n, k) == [message : Message(n, k), served : BOOLEAN, epoch : Nat, answer : Ans(n, k) \cup {None}]
Held(n) == [id : 1 .. n, user : Accounts, revision : Nat, token : Tokens \cup {None}]
Row(n) == {r \in [user : Accounts \cup {None}, session : Nat, binding : 0 .. n, revision : Nat,
                  token : Tokens \cup {None}] : r.binding # 0 => r.user # None}
Issue(n, k) == [installation : 1 .. k, user : Accounts, id : 1 .. n, revision : Nat,
                token : Tokens \cup {None}]
Logs(n, k) == [operation : 0 .. n, answer : Ans(n, k)]

(* Short names for what the queues hold.                                   *)
Q == DOMAIN phone.queue
Is(i, kind) == phone.queue[i].kind = kind
W == DOMAIN writes
Type(i) == writes[i].message.type

Signal == [type : {"ACK", "ENDED"}, epoch : Nat, id : Nat, body : {None}]
Outgoing(n, k) == Message(n, k) \cup Signal

Coordinator(p, n, k) ==
  /\ DOMAIN p = {"connected", "auth", "last", "generation", "request", "regs", "queue",
                 "timers", "attempts", "out"}
  /\ p.connected \in BOOLEAN /\ p.generation \in Nat
  /\ p.auth \in Auth \cup {None} /\ p.last \in Login \cup {None}
  /\ p.request \in Asked(n, k) \cup {None}
  /\ p.regs \in Seq(Reg)
  /\ p.queue \in Seq(StoreOp(n, k))
  /\ p.timers \subseteq Timer(n, k)
  /\ p.out \subseteq Outgoing(n, k) /\ IsFiniteSet(p.out)
PhoneTyped == Coordinator(phone, ids, Len(rows)) /\ phone.out = {}
StoreTyped ==
  store # None =>
    /\ store \in Records /\ store.installation \in 1 .. Len(rows)
    /\ store.binding \in Held(ids) \cup {None}
    /\ store.pending \in Pend(ids) \cup {None}
    /\ store.revokes \subseteq Rev(ids, Len(rows)) /\ IsFiniteSet(store.revokes)
PageTyped ==
  /\ page \in [phase : {"bootstrapping", "anonymous", "authenticated", "leaving"},
               epoch : Nat, user : Accounts \cup {None}, ending : BOOLEAN, waiting : BOOLEAN,
               reason : {"LOGOUT", "WITHDRAWAL"}, session : Nat]
  /\ IF page.phase = "authenticated" THEN page.user \in Accounts ELSE page.user = None
  /\ cookie # None => cookie \in [user : Accounts, session : Nat]
  /\ page.phase = "authenticated" => cookie \in [user : Accounts, session : Nat]
WorldTyped ==
  /\ ids \in Nat /\ rows \in Seq(Row(ids)) /\ target \in Tokens \cup {None}
  /\ gone \subseteq Accounts /\ ended \subseteq Accounts /\ disturbed \in BOOLEAN
  /\ log \subseteq Logs(ids, Len(rows)) /\ issued \subseteq Issue(ids, Len(rows))
  /\ known \subseteq 1 .. ids
  /\ events \in [acts : Nat, losses : Nat] /\ events.acts \in Nat /\ events.losses \in 0 .. MaxLosses
  /\ events.acts + events.losses <= MaxEvents
WritesTyped ==
  /\ writes \in Seq(Request(ids, Len(rows)))
  /\ \A i \in W : writes[i].served =>
       /\ i = 1 /\ writes[i].answer \in Ans(ids, Len(rows))
       /\ Type(i) = "DEVICE" => writes[i].answer.outcome \in {"SUCCESS", "FAILED", "RETRY"}

(* The coordinator knows what the page is in.                              *)
AuthInv ==
  IF phone.connected THEN phone.auth = AuthPayload(page) ELSE phone.auth = None
EndedInv ==
  \A u \in ended :
    page.user # u /\ store # None /\ (store.binding # None => store.binding.user # u)

(* Operations that follow a load of the record.                            *)
Follows == {"clear", "rotate", "save", "drop", "bind", "ending", "revokeDone", "revokeReplace"}
StoreThere == \A i \in Q : phone.queue[i].kind \in Follows => store # None

(* The registration at the head is busy while its operation is queued.     *)
Busy == {"create", "clear"}
BusyInv ==
  /\ \A i \in Q : phone.queue[i].kind \in Busy => phone.regs # <<>> /\ phone.regs[1].busy
  /\ \A i, j \in Q : phone.queue[i].kind \in Busy /\ phone.queue[j].kind \in Busy => i = j
ResultInv ==
  \A i \in Q : Is(i, "resultLoad") => phone.queue[i].answer.outcome \in {"SUCCESS", "FAILED", "RETRY"}
LogInv == \A l \in log : l.answer.outcome = "SUCCESS"

Typed == PhoneTyped /\ StoreTyped /\ PageTyped /\ WorldTyped /\ WritesTyped
TypeInv ==
  Typed /\ AuthInv /\ EndedInv /\ StoreThere /\ BusyInv /\ ResultInv /\ LogInv

---------------------------------------------------------------------------
(***************************************************************************)
(* What the numbers are of.  Registrations that may yet be answered or     *)
(* bound, what is known of their results, and what is to be revoked.       *)
(***************************************************************************)
Registering ==
  (IF store = None THEN {} ELSE {store.pending} \ {None})
    \cup {phone.queue[i].pending : i \in {j \in Q : Is(j, "save") \/ Is(j, "bind")}}
    \cup {writes[i].message.body.pending : i \in {j \in W : Type(j) = "DEVICE"}}
ToldOf(n, a) == [operation |-> n, answer |-> a]
Told ==
  log
    \cup {ToldOf(writes[i].message.id, writes[i].answer) :
            i \in {j \in W : Type(j) = "DEVICE" /\ writes[j].served}}
    \cup {ToldOf(phone.queue[i].operation, phone.queue[i].answer) :
            i \in {j \in Q : Is(j, "resultLoad")}}
    \cup {ToldOf(phone.queue[i].pending.operation, phone.queue[i].answer) :
            i \in {j \in Q : Is(j, "bind")}}
Revocations ==
  (IF store = None THEN {} ELSE store.revokes)
    \cup {phone.queue[i].revoke : i \in {j \in Q : Is(j, "revokeReplace")}}
    \cup {writes[i].message.body : i \in {j \in W : Type(j) = "REVOKE"}}
    \cup {t.carried : t \in {s \in phone.timers : s.key.kind = "revoke"}}

RegistrationsOne ==
  \A p, q \in Registering : p.operation = q.operation => p = q
NumbersApart ==
  \A r \in Revocations : \A p \in Registering : p.operation # r.operation

Unused(i, n) ==
  /\ \A t \in Told : t.operation # n
  /\ \A j \in W : Type(j) = "DEVICE" => writes[j].message.id # n
  /\ \A j \in Q : j # i /\ Is(j, "save") => phone.queue[j].pending.operation # n
  /\ store.pending # None => store.pending.operation # n
SaveInv == \A i \in Q : Is(i, "save") => Unused(i, phone.queue[i].pending.operation)
Bindable(o) ==
  /\ o.answer.user = o.pending.user /\ o.answer.outcome = "SUCCESS"
  /\ store.pending # None /\ store.pending.operation = o.pending.operation =>
       store.installation = o.answer.installation
BindInv == \A i \in Q : Is(i, "bind") => Bindable(phone.queue[i])
Issues(a, token) ==
    [installation |-> a.installation, user |-> a.user, id |-> a.binding, revision |-> a.revision,
     token |-> token]
ResultsAreGenuine ==
  \A t \in Told : \A p \in Registering :
    t.operation = p.operation => (t.answer.binding # 0 => Issues(t.answer, p.token) \in issued)

Owned(k, b) == \E e \in issued : e.installation = k /\ e.id = b
Dead(b) == \A k \in DOMAIN rows : rows[k].binding # b
IssuedOnce == \A e, f \in issued : e.id = f.id => e.installation = f.installation
RowsInv == \A k \in DOMAIN rows : rows[k].binding # 0 => Owned(k, rows[k].binding)
RevocationsOwned == \A r \in Revocations : Owned(r.installation, r.binding)
RevocationsOne == \A r, s \in Revocations : r.operation = s.operation => r = s
RevokeDone(n) ==
  \/ \E l \in log : l.operation = n
  \/ \E i \in W : /\ Type(i) = "REVOKE" /\ writes[i].message.id = n
                  /\ writes[i].served /\ writes[i].answer.outcome = "SUCCESS"
  \/ \E i \in Q : /\ Is(i, "revokeLoad") /\ phone.queue[i].operation = n
                  /\ phone.queue[i].answer.outcome = "SUCCESS"
  \/ \E i \in Q : Is(i, "revokeDone") /\ phone.queue[i].operation = n
RevokedAreDead == \A r \in Revocations : RevokeDone(r.operation) => Dead(r.binding)
ReplaceInv ==
  \A i \in Q : Is(i, "revokeReplace") => \A r \in Revocations :
    r.operation = phone.queue[i].operation => r.binding = phone.queue[i].revoke.binding

StandsOver(n, a) ==
  /\ store # None /\ store.pending # None /\ store.pending.operation = n
  /\ store.binding # None /\ a.installation = store.installation
  /\ rows[store.installation].binding = store.binding.id
ReplacedAreDead ==
  \A t \in Told :
    t.answer.outcome = "SUCCESS" /\ StandsOver(t.operation, t.answer) =>
      t.answer.binding = store.binding.id
Tells(j, kind, b) == Is(j, kind) /\ phone.queue[j].answer.binding = b
MissedWrite ==
  \A i \in W : Type(i) = "STATE" /\ writes[i].served /\ writes[i].answer.outcome = "NOT_FOUND" =>
    LET b == rows[writes[i].message.body].binding IN
    b # 0 => b \notin known /\ \A j \in Q : ~Tells(j, "resultLoad", b) /\ ~Tells(j, "bind", b)
MissedLoad ==
  \A i \in Q : Is(i, "stateLoad") /\ phone.queue[i].answer.outcome = "NOT_FOUND" =>
    LET b == rows[phone.queue[i].context.installation].binding IN
    b # 0 => b \notin known /\ \A j \in Q : ~Tells(j, "bind", b) /\ (Tells(j, "resultLoad", b) => j > i)
MissedRotate ==
  \A i \in Q : Is(i, "rotate") =>
    LET b == rows[phone.queue[i].context.installation].binding IN
    b # 0 => b \notin known /\ \A j \in Q : Tells(j, "bind", b) => j > i
MissingInv == MissedWrite /\ MissedLoad /\ MissedRotate
RequestInv ==
  \A i \in W : Type(i) = "STATE" /\ phone.request # None /\ phone.request.id = writes[i].message.id =>
    writes[i].message.body = phone.request.installation
KnownInv == store = None => known = {}

(***************************************************************************)
(* A step of anyone but the server.                                        *)
(***************************************************************************)
Taken == phone.queue[1]
Takes(d, kind) == d = 1 /\ 1 \in Q /\ Is(1, kind)
Revoking(r) == (store' # None /\ r \in store'.revokes) \/ r \in Revocations
MsgFits(m, rq) ==
  /\ m.type = "STATE" => m.id = rq.id /\ m.body = rq.installation
  /\ m.type = "DEVICE" => store' # None /\ m.body.pending = store'.pending
  /\ m.type = "REVOKE" => Revoking(m.body)
TimerFits(t) == t.key.kind = "revoke" => Revoking(t.carried)
RequestFits(rq) == rq \in {None, phone.request} \/ rq.id = ids + 1
Answers(x, type) ==
  /\ 1 \in W /\ writes[1].served /\ Type(1) = type /\ x.answer = writes[1].answer
OpFits(x, d) ==
  /\ x.kind = "save" => x.pending.operation = ids + 1 /\ (Takes(d, "stateLoad") \/ Takes(d, "rotate"))
  /\ x.kind = "bind" =>
       /\ Takes(d, "resultLoad") /\ store # None /\ store.pending # None /\ x.pending = store.pending
       /\ x.answer = Taken.answer /\ x.pending.operation = Taken.operation /\ x.answer.outcome = "SUCCESS"
       /\ x.answer.installation = store.installation /\ x.answer.user = x.pending.user
  /\ x.kind = "resultLoad" => Answers(x, "DEVICE") /\ x.operation = writes[1].message.id
  /\ x.kind = "revokeLoad" => Answers(x, "REVOKE") /\ x.operation = writes[1].message.id
  /\ x.kind = "stateLoad" =>
       /\ Answers(x, "STATE") /\ phone.request # None /\ x.context = phone.request
       /\ phone.request.id = writes[1].message.id
  /\ x.kind = "rotate" =>
       /\ Takes(d, "stateLoad") /\ x.context = Taken.context /\ Taken.answer.outcome = "NOT_FOUND"
  /\ x.kind = "revokeDone" =>
       Takes(d, "revokeLoad") /\ x.operation = Taken.operation /\ Taken.answer.outcome = "SUCCESS"
  /\ x.kind = "revokeReplace" =>
       /\ Takes(d, "revokeLoad") /\ store # None
       /\ \E r \in store.revokes : r.operation = x.operation /\ x.revoke = [r EXCEPT !.operation = ids + 1]
QueueFits(d) ==
  \A i \in DOMAIN phone'.queue :
    \/ i + d \in Q /\ phone'.queue[i] = phone.queue[i + d]
    \/ i + d = Len(phone.queue) + 1 /\ OpFits(phone'.queue[i], d)
WritesFit ==
  \A i \in DOMAIN writes' :
    (\E j \in W : writes'[i] = writes[j]) \/ (~writes'[i].served /\ MsgFits(writes'[i].message, phone'.request))
Coming(d) ==
  /\ QueueFits(d) /\ WritesFit /\ RequestFits(phone'.request)
  /\ \A t \in phone'.timers : TimerFits(t)

RowsFit ==
  /\ Len(rows) <= Len(rows')
  /\ \A k \in DOMAIN rows' : rows'[k].binding # 0 => k \in DOMAIN rows /\ rows'[k].binding = rows[k].binding
WorldFits == log' = log /\ issued' = issued /\ ids <= ids' /\ RowsFit
Binds(d) ==
  /\ Takes(d, "bind") /\ store # None /\ store.pending # None /\ store' # None
  /\ store.pending.operation = Taken.pending.operation
  /\ store'.pending = None /\ store'.installation = store.installation
  /\ store'.binding = IF Taken.answer.binding = 0 THEN None ELSE Bound(Taken)
PendingFits(d) ==
  store' # None /\ store'.pending # None =>
    /\ store # None /\ store'.installation = store.installation
    /\ store'.pending = store.pending \/ (Takes(d, "save") /\ store'.pending = Taken.pending)
BindingFits(d) ==
  store' # None /\ store'.binding # None =>
    \/ store # None /\ store'.binding = store.binding /\ store'.installation = store.installation
    \/ Binds(d) /\ Taken.answer.binding # 0
Letting == [installation |-> store.installation, operation |-> ids + 1,
            binding |-> store.binding.id, expected |-> store.binding.revision]
RevokesFit(d) ==
  store' # None => \A r \in store'.revokes :
    \/ store # None /\ r \in store.revokes
    \/ Takes(d, "ending") /\ store # None /\ store.binding # None /\ r = Letting
    \/ Takes(d, "revokeReplace") /\ r = Taken.revoke
RevokesKept(d) ==
  \A r \in store.revokes :
    \/ r \in store'.revokes
    \/ Takes(d, "revokeReplace") /\ r.operation = Taken.operation /\ Taken.revoke \in store'.revokes
    \/ Takes(d, "revokeDone") /\ r.operation = Taken.operation
Rotates(d) ==
  /\ Takes(d, "rotate")
  /\ Taken.context.installation = store.installation \/ store.binding.id \notin known'
BindingKept(d) ==
  store.binding # None =>
    \/ store'.binding = store.binding
    \/ \E s \in store'.revokes : s.binding = store.binding.id
    \/ Binds(d) \/ Rotates(d)
KnownFits(d) ==
  \A b \in known' : b \in known \/ (Binds(d) /\ b = Taken.answer.binding /\ b # 0)
StoreFits(d) ==
  /\ PendingFits(d) /\ BindingFits(d) /\ RevokesFit(d) /\ KnownFits(d)
  /\ store # None => store' # None /\ RevokesKept(d) /\ BindingKept(d)
Onward == \E d \in {0, 1} : Coming(d) /\ WorldFits /\ StoreFits(d)

(* What the coordinator has in hand to send, and the timers it has set.    *)
SendsFit(p) ==
  /\ \A m \in p.out : MsgFits(m, p.request)
  /\ \A t \in p.timers : TimerFits(t)
  /\ RequestFits(p.request)
MoreFits(M, T, rq) == (\A m \in M : MsgFits(m, rq)) /\ (\A t \in T : TimerFits(t))
AddsFit(N, d) == \A x \in N : OpFits(x, d)

---------------------------------------------------------------------------
(* Sequences.                                                              *)
LEMMA SeqLen ==
  ASSUME NEW S, NEW q \in Seq(S)
  PROVE  Len(q) \in Nat /\ DOMAIN q = 1 .. Len(q) /\ \A i \in DOMAIN q : q[i] \in S
OBVIOUS

LEMMA SeqAppend ==
  ASSUME NEW S, NEW q \in Seq(S), NEW x \in S
  PROVE  /\ Append(q, x) \in Seq(S) /\ Len(Append(q, x)) = Len(q) + 1 /\ Len(q) \in Nat
         /\ DOMAIN q = 1 .. Len(q) /\ DOMAIN Append(q, x) = 1 .. (Len(q) + 1)
         /\ \A i \in 1 .. Len(q) : Append(q, x)[i] = q[i]
         /\ Append(q, x)[Len(q) + 1] = x
OBVIOUS

LEMMA SeqTail ==
  ASSUME NEW S, NEW q \in Seq(S), q # <<>>
  PROVE  /\ Tail(q) \in Seq(S) /\ Len(Tail(q)) = Len(q) - 1 /\ Len(q) \in Nat \ {0}
         /\ DOMAIN q = 1 .. Len(q) /\ DOMAIN Tail(q) = 1 .. (Len(q) - 1)
         /\ \A i \in 1 .. (Len(q) - 1) : Tail(q)[i] = q[i + 1]
         /\ Head(q) = q[1] /\ q[1] \in S /\ 1 \in DOMAIN q
OBVIOUS

LEMMA SeqWider ==
  ASSUME NEW S, NEW T, S \subseteq T, NEW q \in Seq(S)
  PROVE  q \in Seq(T)
OBVIOUS

---------------------------------------------------------------------------
(* Data: what kind a thing is tells what it carries.                       *)
LEMMA OpKinds ==
  ASSUME NEW n, NEW k, NEW o \in StoreOp(n, k)
  PROVE  /\ o.kind = "create" => o \in CreateOp(n, k)
         /\ o.kind = "clear" => o \in ClearOp(n, k)
         /\ o.kind = "stateLoad" => o \in StateOp(n, k)
         /\ o.kind = "rotate" => o \in RotateOp(n, k)
         /\ o.kind = "save" => o \in SaveOp(n, k)
         /\ o.kind = "resume" => o \in ResumeOp(n)
         /\ o.kind = "resultLoad" => o \in ResultOp(n, k)
         /\ o.kind = "drop" => o \in DropOp(n)
         /\ o.kind = "bind" => o \in BindOp(n, k)
         /\ o.kind \in {"endCreate", "ending"} => o \in EndOp
         /\ o.kind = "revokeLoad" => o \in RevokeOp(n, k)
         /\ o.kind = "revokeDone" => o \in DoneOp(n)
         /\ o.kind = "revokeReplace" => o \in ReplaceOp(n, k)
BY DEF StoreOp, CreateOp, ClearOp, StateOp, RotateOp, SaveOp, ResumeOp, ResultOp, DropOp, BindOp,
       EndOp, FlushOp, RevokeOp, DoneOp, ReplaceOp

LEMMA TimerKinds ==
  ASSUME NEW n, NEW k, NEW t \in Timer(n, k)
  PROVE  /\ t.key.kind \in {"provider", "reconcile", "state", "register", "revoke"}
         /\ t.key.kind \in {"provider", "reconcile"} => t \in AgainTimer
         /\ t.key.kind = "state" => t \in StateTimer(n, k)
         /\ t.key.kind = "register" => t \in RegisterTimer(n)
         /\ t.key.kind = "revoke" => t \in RevokeTimer(n, k)
BY DEF Timer, AgainTimer, StateTimer, RegisterTimer, RevokeTimer

LEMMA MessageKinds ==
  ASSUME NEW n, NEW k, NEW m \in Outgoing(n, k)
  PROVE  /\ m.type \in {"STATE", "DEVICE", "REVOKE", "ACK", "ENDED"}
         /\ m.type \in {"STATE", "DEVICE", "REVOKE"} <=> m \in Message(n, k)
         /\ m.type = "STATE" => m \in StateMsg(n, k)
         /\ m.type = "DEVICE" => m \in DeviceMsg(n, k)
         /\ m.type = "REVOKE" => m \in RevokeMsg(n, k)
BY DEF Outgoing, Message, Signal, StateMsg, DeviceMsg, RevokeMsg

(* Numbers only grow.                                                      *)
LEMMA Wider ==
  ASSUME NEW n \in Nat, NEW k \in Nat, NEW N \in Nat, NEW K \in Nat, n <= N, k <= K
  PROVE  /\ Pend(n) \subseteq Pend(N) /\ Rev(n, k) \subseteq Rev(N, K)
         /\ Ans(n, k) \subseteq Ans(N, K) /\ Asked(n, k) \subseteq Asked(N, K)
         /\ StoreOp(n, k) \subseteq StoreOp(N, K) /\ Timer(n, k) \subseteq Timer(N, K)
         /\ Message(n, k) \subseteq Message(N, K) /\ Outgoing(n, k) \subseteq Outgoing(N, K)
         /\ Request(n, k) \subseteq Request(N, K)
         /\ Held(n) \subseteq Held(N) /\ Row(n) \subseteq Row(N)
         /\ Issue(n, k) \subseteq Issue(N, K) /\ Logs(n, k) \subseteq Logs(N, K)
<1>1. 0 .. n \subseteq 0 .. N /\ 1 .. n \subseteq 1 .. N /\ 0 .. k \subseteq 0 .. K /\ 1 .. k \subseteq 1 .. K
  OBVIOUS
<1>2. Pend(n) \subseteq Pend(N)
  BY <1>1 DEF Pend
<1>3. Rev(n, k) \subseteq Rev(N, K)
  BY <1>1 DEF Rev
<1>4. Ans(n, k) \subseteq Ans(N, K)
  BY <1>1 DEF Ans
<1>5. Ctx(n, k) \subseteq Ctx(N, K)
  BY <1>1 DEF Ctx
<1>6. Asked(n, k) \subseteq Asked(N, K)
  BY <1>5 DEF Asked
<1>7. StoreOp(n, k) \subseteq StoreOp(N, K)
  <2>1. CreateOp(n, k) \subseteq CreateOp(N, K)
    BY <1>5 DEF CreateOp
  <2>2. ClearOp(n, k) \subseteq ClearOp(N, K)
    BY <1>1, <1>5 DEF ClearOp
  <2>3. StateOp(n, k) \subseteq StateOp(N, K)
    BY <1>4, <1>6 DEF StateOp
  <2>4. RotateOp(n, k) \subseteq RotateOp(N, K)
    BY <1>6 DEF RotateOp
  <2>5. SaveOp(n, k) \subseteq SaveOp(N, K)
    BY <1>2, <1>6 DEF SaveOp
  <2>6. ResumeOp(n) \subseteq ResumeOp(N)
    BY <1>1 DEF ResumeOp
  <2>7. ResultOp(n, k) \subseteq ResultOp(N, K)
    BY <1>1, <1>4 DEF ResultOp
  <2>8. DropOp(n) \subseteq DropOp(N)
    BY <1>2 DEF DropOp
  <2>9. BindOp(n, k) \subseteq BindOp(N, K)
    BY <1>2, <1>4 DEF BindOp
  <2>10. RevokeOp(n, k) \subseteq RevokeOp(N, K)
    BY <1>1, <1>4 DEF RevokeOp
  <2>11. DoneOp(n) \subseteq DoneOp(N)
    BY <1>1 DEF DoneOp
  <2>12. ReplaceOp(n, k) \subseteq ReplaceOp(N, K)
    BY <1>1, <1>3 DEF ReplaceOp
  <2> QED
    BY <2>1, <2>2, <2>3, <2>4, <2>5, <2>6, <2>7, <2>8, <2>9, <2>10, <2>11, <2>12 DEF StoreOp
<1>8. Timer(n, k) \subseteq Timer(N, K)
  <2>1. StateTimer(n, k) \subseteq StateTimer(N, K)
    BY <1>1, <1>6 DEF StateTimer
  <2>2. RegisterTimer(n) \subseteq RegisterTimer(N)
    BY <1>1, <1>2 DEF RegisterTimer
  <2>3. RevokeTimer(n, k) \subseteq RevokeTimer(N, K)
    BY <1>1, <1>3 DEF RevokeTimer
  <2> QED
    BY <2>1, <2>2, <2>3 DEF Timer
<1>9. Message(n, k) \subseteq Message(N, K)
  <2>1. StateMsg(n, k) \subseteq StateMsg(N, K)
    BY <1>1 DEF StateMsg
  <2>2. DeviceMsg(n, k) \subseteq DeviceMsg(N, K)
    BY <1>1, <1>2 DEF DeviceMsg
  <2>3. RevokeMsg(n, k) \subseteq RevokeMsg(N, K)
    BY <1>1, <1>3 DEF RevokeMsg
  <2> QED
    BY <2>1, <2>2, <2>3 DEF Message
<1>10. Request(n, k) \subseteq Request(N, K)
  BY <1>4, <1>9 DEF Request
<1>11. Held(n) \subseteq Held(N) /\ Row(n) \subseteq Row(N) /\ Issue(n, k) \subseteq Issue(N, K)
  BY <1>1 DEF Held, Row, Issue
<1>12. Logs(n, k) \subseteq Logs(N, K)
  BY <1>1, <1>4 DEF Logs
<1> QED
  BY <1>2, <1>3, <1>4, <1>6, <1>7, <1>8, <1>9, <1>10, <1>11, <1>12 DEF Outgoing

LEMMA CoordinatorWider ==
  ASSUME NEW n \in Nat, NEW k \in Nat, NEW N \in Nat, NEW K \in Nat, n <= N, k <= K,
         NEW p, Coordinator(p, n, k)
  PROVE  Coordinator(p, N, K)
<1>1. p.queue \in Seq(StoreOp(N, K))
  BY Wider, SeqWider DEF Coordinator
<1> QED
  BY <1>1, Wider DEF Coordinator

---------------------------------------------------------------------------
(* What the coordinator's functions change.  Quiet: only what it has sent, *)
(* its timers and the attempts it has counted.                             *)
Quiet(p, q) ==
  /\ q.connected = p.connected /\ q.auth = p.auth /\ q.last = p.last
  /\ q.generation = p.generation /\ q.request = p.request /\ q.regs = p.regs
  /\ q.queue = p.queue
Grows(p, q, M, T, n, k) ==
  /\ Coordinator(q, n, k) /\ Quiet(p, q)
  /\ q.out \subseteq p.out \cup M /\ q.timers \subseteq p.timers \cup T

LEMMA GrowsTwice ==
  ASSUME NEW n, NEW k, NEW p, NEW q, NEW r, NEW M, NEW T, NEW M2, NEW T2,
         Grows(p, q, M, T, n, k), Grows(q, r, M2, T2, n, k)
  PROVE  Grows(p, r, M \cup M2, T \cup T2, n, k)
BY DEF Grows, Quiet

LEMMA Sends ==
  ASSUME NEW n, NEW k, NEW p, Coordinator(p, n, k), NEW m \in Outgoing(n, k)
  PROVE  Grows(p, Send(p, m), {m}, {}, n, k)
<1>1. CASE p.connected
  <2> PICK q : q = Send(p, m)
    OBVIOUS
  <2>1. /\ DOMAIN q = DOMAIN p /\ q.out = p.out \cup {m}
        /\ \A f \in DOMAIN p : f # "out" => q[f] = p[f]
    BY <1>1 DEF Send, Coordinator
  <2>2. IsFiniteSet(q.out)
    BY <2>1, FS_AddElement DEF Coordinator
  <2> QED
    BY <2>1, <2>2 DEF Grows, Quiet, Coordinator
<1>2. CASE ~p.connected
  BY <1>2 DEF Send, Grows, Quiet
<1> QED
  BY <1>1, <1>2

LEMMA Retries ==
  ASSUME NEW n, NEW k, NEW p, Coordinator(p, n, k), NEW ts \in SUBSET Timer(n, k)
  PROVE  Grows(p, ScheduleRetries(p, ts), {}, ts, n, k)
<1> PICK q : q = ScheduleRetries(p, ts)
  OBVIOUS
<1>1. /\ DOMAIN q = DOMAIN p /\ q.timers \subseteq p.timers \cup ts
      /\ \A f \in DOMAIN p : f \notin {"timers", "attempts"} => q[f] = p[f]
  BY DEF ScheduleRetries, Coordinator
<1> QED
  BY <1>1 DEF Grows, Quiet, Coordinator

LEMMA RetriesOne ==
  ASSUME NEW n, NEW k, NEW p, Coordinator(p, n, k), NEW key, NEW carried,
         [key |-> key, carried |-> carried] \in Timer(n, k)
  PROVE  Grows(p, ScheduleRetry(p, key, carried), {}, {[key |-> key, carried |-> carried]}, n, k)
BY Retries DEF ScheduleRetry

LEMMA Clears ==
  ASSUME NEW n, NEW k, NEW p, Coordinator(p, n, k), NEW key
  PROVE  /\ Grows(p, ClearScheduledRetry(p, key), {}, {}, n, k)
         /\ Grows(p, ClearRetry(p, key), {}, {}, n, k)
<1> PICK q : q = ClearScheduledRetry(p, key)
  OBVIOUS
<1> PICK r : r = ClearRetry(p, key)
  OBVIOUS
<1>1. /\ DOMAIN q = DOMAIN p /\ q.timers \subseteq p.timers
      /\ \A f \in DOMAIN p : f # "timers" => q[f] = p[f]
  BY DEF ClearScheduledRetry, Coordinator
<1>2. /\ DOMAIN r = DOMAIN q
      /\ \A f \in DOMAIN q : f # "attempts" => r[f] = q[f]
  BY <1>1 DEF ClearRetry
<1>3. Grows(p, q, {}, {}, n, k)
  BY <1>1 DEF Grows, Quiet, Coordinator
<1>4. Grows(q, r, {}, {}, n, k)
  BY <1>2, <1>3 DEF Grows, Quiet, Coordinator
<1> QED
  BY <1>3, <1>4, GrowsTwice

LEMMA StateRequests ==
  ASSUME NEW n, NEW k, NEW p, Coordinator(p, n, k), NEW c \in Asked(n, k), k \in Nat
  PROVE  Grows(p, SendStateRequest(p, c),
               {[type |-> "STATE", epoch |-> c.epoch, id |-> c.id, body |-> c.installation]},
               {[key |-> Key("state", c.id), carried |-> c]}, n, k)
<1> PICK m : m = [type |-> "STATE", epoch |-> c.epoch, id |-> c.id, body |-> c.installation]
  OBVIOUS
<1> PICK t : t = [key |-> Key("state", c.id), carried |-> c]
  OBVIOUS
<1>1. m \in Outgoing(n, k)
  BY DEF Outgoing, Message, StateMsg, Asked, Ctx
<1>2. t \in Timer(n, k)
  BY DEF Timer, StateTimer, Asked, Ctx, Key
<1>3. CASE p.request # c \/ ~Matches(p, c)
  BY <1>3 DEF SendStateRequest, Grows, Quiet
<1>4. CASE ~(p.request # c \/ ~Matches(p, c))
  <2> PICK q : q = Send(p, m)
    OBVIOUS
  <2>1. Grows(p, q, {m}, {}, n, k)
    BY <1>1, Sends
  <2>2. Grows(q, ScheduleRetry(q, Key("state", c.id), c), {}, {t}, n, k)
    BY <1>2, <2>1, RetriesOne DEF Grows
  <2> QED
    BY <1>4, <2>1, <2>2, GrowsTwice DEF SendStateRequest
<1> QED
  BY <1>3, <1>4

LEMMA RegistrationRequests ==
  ASSUME NEW n, NEW k, NEW p, Coordinator(p, n, k), NEW i \in 1 .. k, NEW pending \in Pend(n)
  PROVE  Grows(p, SendPendingRegistration(p, i, pending),
               {[type |-> "DEVICE", epoch |-> pending.epoch, id |-> pending.operation,
                 body |-> [installation |-> i, pending |-> pending]]},
               {[key |-> Key("register", pending.operation), carried |-> pending]}, n, k)
<1> PICK m : m = [type |-> "DEVICE", epoch |-> pending.epoch, id |-> pending.operation,
                  body |-> [installation |-> i, pending |-> pending]]
  OBVIOUS
<1> PICK t : t = [key |-> Key("register", pending.operation), carried |-> pending]
  OBVIOUS
<1>0. pending.operation \in 0 .. n /\ pending.epoch \in Nat
  BY DEF Pend
<1>1. m \in Outgoing(n, k)
  <2>1. m \in DeviceMsg(n, k)
    BY <1>0 DEF DeviceMsg
  <2> QED
    BY <2>1 DEF Outgoing, Message
<1>2. t \in Timer(n, k)
  BY <1>0 DEF Timer, RegisterTimer, Key
<1> PICK q : q = Send(p, m)
  OBVIOUS
<1>3. Grows(p, q, {m}, {}, n, k)
  BY <1>1, Sends
<1>4. Grows(q, ScheduleRetry(q, Key("register", pending.operation), pending), {}, {t}, n, k)
  BY <1>2, <1>3, RetriesOne DEF Grows
<1> QED
  BY <1>3, <1>4, GrowsTwice DEF SendPendingRegistration

RevokeMessage(r) == [type |-> "REVOKE", epoch |-> 0, id |-> r.operation, body |-> r]
RevokeRetry(r) == [key |-> Key("revoke", r.operation), carried |-> r]

LEMMA Flushes ==
  ASSUME NEW n \in Nat, NEW k, NEW p, Coordinator(p, n, k), NEW rs \in SUBSET Rev(n, k),
         IsFiniteSet(rs)
  PROVE  Grows(p, FlushPendingRevokes(p, rs), {RevokeMessage(r) : r \in rs},
               {RevokeRetry(r) : r \in rs}, n, k)
<1> DEFINE M == {RevokeMessage(r) : r \in rs}
           T == {RevokeRetry(r) : r \in rs}
<1>1. M \subseteq Outgoing(n, k) /\ T \subseteq Timer(n, k)
  BY DEF Outgoing, Message, RevokeMsg, RevokeMessage, Timer, RevokeTimer, RevokeRetry, Rev, Key
<1>2. IsFiniteSet(M)
  <2>1. [r \in rs |-> RevokeMessage(r)] \in Surjection(rs, M)
    BY DEF Surjection
  <2> QED
    BY <2>1, FS_Surjection
<1> PICK q : q = [p EXCEPT !.out = IF p.connected THEN @ \cup M ELSE @]
  OBVIOUS
<1>3. q = [p EXCEPT !.out = IF p.connected
                            THEN @ \cup {[type |-> "REVOKE", epoch |-> 0, id |-> r.operation,
                                          body |-> r] : r \in rs} ELSE @]
  BY DEF RevokeMessage
<1>4. T = {[key |-> Key("revoke", r.operation), carried |-> r] : r \in rs}
  BY DEF RevokeRetry
<1>5. FlushPendingRevokes(p, rs) = ScheduleRetries(q, T)
  BY <1>3, <1>4 DEF FlushPendingRevokes
<1> HIDE DEF M, T
<1>6. /\ DOMAIN q = DOMAIN p /\ q.out \subseteq p.out \cup M
      /\ q.out = p.out \cup M \/ q.out = p.out
      /\ \A f \in DOMAIN p : f # "out" => q[f] = p[f]
  BY DEF Coordinator
<1>7. IsFiniteSet(q.out)
  BY <1>2, <1>6, FS_Union DEF Coordinator
<1>8. Grows(p, q, M, {}, n, k)
  BY <1>1, <1>6, <1>7 DEF Grows, Quiet, Coordinator
<1>9. Grows(q, ScheduleRetries(q, T), {}, T, n, k)
  <2>1. Coordinator(q, n, k) /\ T \in SUBSET Timer(n, k)
    BY <1>1, <1>8 DEF Grows
  <2> HIDE <1>5
  <2> QED
    BY <2>1, Retries
<1>10. Grows(p, FlushPendingRevokes(p, rs), M, T, n, k)
  BY <1>5, <1>8, <1>9, GrowsTwice
<1> QED
  BY <1>10 DEF M, T

LEMMA Acks_ ==
  ASSUME NEW n \in Nat, NEW k, NEW p, Coordinator(p, n, k), NEW operation \in Nat
  PROVE  Grows(p, SendRegistrationAck(p, operation),
               {[type |-> "ACK", epoch |-> 0, id |-> operation, body |-> None]}, {}, n, k)
<1>1. [type |-> "ACK", epoch |-> 0, id |-> operation, body |-> None] \in Outgoing(n, k)
  BY DEF Outgoing, Signal
<1> QED
  BY <1>1, Sends DEF SendRegistrationAck

---------------------------------------------------------------------------
(* The functions that change more.                                         *)
Fields == {"connected", "auth", "last", "generation", "request", "regs", "queue", "timers",
           "attempts", "out"}
Others(p, q, fs) == \A f \in Fields \ fs : q[f] = p[f]

LEMMA Enqueues ==
  ASSUME NEW n, NEW k, NEW p, Coordinator(p, n, k), NEW o \in StoreOp(n, k)
  PROVE  /\ Coordinator(Enqueue(p, o), n, k) /\ Others(p, Enqueue(p, o), {"queue"})
         /\ Enqueue(p, o).queue = Append(p.queue, o)
<1>1. Append(p.queue, o) \in Seq(StoreOp(n, k))
  BY SeqAppend DEF Coordinator
<1> QED
  BY <1>1 DEF Enqueue, Coordinator, Others, Fields

LEMMA Bumps ==
  ASSUME NEW n, NEW k, NEW p, Coordinator(p, n, k)
  PROVE  /\ Coordinator(Bump(p), n, k) /\ Others(p, Bump(p), {"generation", "request"})
         /\ Bump(p).request = None /\ Bump(p).generation = p.generation + 1
<1> PICK q : q = Bump(p)
  OBVIOUS
<1> PICK g : g = p.generation + 1
  OBVIOUS
<1>1. q = [p EXCEPT !.generation = g, !.request = None]
  BY DEF Bump
<1>2. /\ DOMAIN q = DOMAIN p /\ q.generation = g /\ q.request = None
      /\ \A f \in DOMAIN p : f \notin {"generation", "request"} => q[f] = p[f]
  BY <1>1 DEF Coordinator
<1>3. g \in Nat
  BY DEF Coordinator
<1> QED
  BY <1>2, <1>3 DEF Coordinator, Others, Fields

LEMMA Disconnects ==
  ASSUME NEW n, NEW k, NEW p, Coordinator(p, n, k)
  PROVE  /\ Coordinator(Disconnect(p), n, k)
         /\ Disconnect(p).connected = FALSE /\ Disconnect(p).auth = None
         /\ Disconnect(p).last = None /\ Disconnect(p).request = None
         /\ Disconnect(p).timers = {} /\ Disconnect(p).generation = p.generation + 1
         /\ Others(p, Disconnect(p),
                   {"connected", "auth", "last", "generation", "request", "timers", "attempts"})
<1> PICK b : b = Bump(p)
  OBVIOUS
<1>1. /\ Coordinator(b, n, k) /\ Others(p, b, {"generation", "request"}) /\ b.request = None
      /\ b.generation = p.generation + 1
  BY Bumps
<1> PICK q : q = [b EXCEPT !.connected = FALSE, !.auth = None, !.last = None,
                           !.timers = {}, !.attempts = {}]
  OBVIOUS
<1>2. q = Disconnect(p)
  BY DEF Disconnect
<1>3. /\ DOMAIN q = DOMAIN b /\ q.connected = FALSE /\ q.auth = None /\ q.last = None
      /\ q.timers = {} /\ q.request = b.request /\ q.generation = b.generation /\ q.regs = b.regs
      /\ q.queue = b.queue /\ q.out = b.out
  BY <1>1 DEF Coordinator
<1>4. Coordinator(q, n, k)
  BY <1>1, <1>3 DEF Coordinator
<1> QED
  BY <1>1, <1>2, <1>3, <1>4 DEF Others, Fields

LEMMA RegsNext ==
  ASSUME NEW n, NEW k, NEW p, Coordinator(p, n, k), p.regs # <<>>
  PROVE  /\ Coordinator(NextRegistration(p), n, k) /\ Others(p, NextRegistration(p), {"regs"})
         /\ NextRegistration(p).regs = Tail(p.regs)
<1>1. Tail(p.regs) \in Seq(Reg)
  BY SeqTail DEF Coordinator
<1> QED
  BY <1>1 DEF NextRegistration, Coordinator, Others, Fields

LEMMA RegsMore ==
  ASSUME NEW n, NEW k, NEW p, Coordinator(p, n, k), NEW e \in Nat
  PROVE  /\ Coordinator(RequestRegistration(p, e), n, k)
         /\ Others(p, RequestRegistration(p, e), {"regs"})
         /\ RequestRegistration(p, e).regs =
              Append(p.regs, [epoch |-> e, generation |-> p.generation, busy |-> FALSE])
<1>1. [epoch |-> e, generation |-> p.generation, busy |-> FALSE] \in Reg
  BY DEF Coordinator, Reg
<1>2. Append(p.regs, [epoch |-> e, generation |-> p.generation, busy |-> FALSE]) \in Seq(Reg)
  BY <1>1, SeqAppend DEF Coordinator
<1> QED
  BY <1>2 DEF RequestRegistration, Coordinator, Others, Fields

(* More registrations asked for, none done.                                *)
RegsKept(p, q) ==
  \/ q.regs = p.regs
  \/ \E r \in Reg : q.regs = Append(p.regs, r)
LEMMA Refreshes ==
  ASSUME NEW n, NEW k, NEW p, Coordinator(p, n, k)
  PROVE  /\ Coordinator(RefreshRegistration(p), n, k)
         /\ Others(p, RefreshRegistration(p), {"regs"}) /\ RegsKept(p, RefreshRegistration(p))
<1>1. CASE p.auth # None /\ p.auth.phase = "authenticated"
  <2>1. p.auth.epoch \in Nat /\ p.generation \in Nat
    BY <1>1 DEF Coordinator, Auth
  <2> PICK q : q = RequestRegistration(p, p.auth.epoch)
    OBVIOUS
  <2> PICK r : r = [epoch |-> p.auth.epoch, generation |-> p.generation, busy |-> FALSE]
    OBVIOUS
  <2>2. r \in Reg
    BY <2>1 DEF Reg
  <2>3. Coordinator(q, n, k) /\ Others(p, q, {"regs"}) /\ q.regs = Append(p.regs, r)
    BY <2>1, RegsMore
  <2>4. q = RefreshRegistration(p)
    BY <1>1 DEF RefreshRegistration
  <2> QED
    BY <2>2, <2>3, <2>4 DEF RegsKept
<1>2. CASE ~(p.auth # None /\ p.auth.phase = "authenticated")
  BY <1>2 DEF RefreshRegistration, RegsKept, Others
<1> QED
  BY <1>1, <1>2

(* A context that is not refused is taken.                                 *)
LEMMA Accepts ==
  ASSUME NEW n, NEW k, NEW p, Coordinator(p, n, k), NEW next \in Auth
  PROVE  /\ Coordinator(AcceptAuthState(p, next), n, k)
         /\ Others(p, AcceptAuthState(p, next), {"auth", "last", "generation", "request"})
         /\ p.auth = None \/ next.epoch > p.auth.epoch => AcceptAuthState(p, next).auth = next
         /\ AcceptAuthState(p, next).request \in {None, p.request}
<1> PICK l : l = IF next.phase = "authenticated" THEN next ELSE p.last
  OBVIOUS
<1> PICK q : q = [p EXCEPT !.auth = next, !.last = l]
  OBVIOUS
<1>1. /\ DOMAIN q = DOMAIN p /\ q.auth = next /\ q.last \in Login \cup {None}
      /\ \A f \in DOMAIN p \ {"auth", "last"} : q[f] = p[f]
  BY DEF Coordinator, Login
<1>2. Coordinator(q, n, k) /\ Others(p, q, {"auth", "last"})
  BY <1>1 DEF Coordinator, Others, Fields
<1> PICK b : b = Bump(q)
  OBVIOUS
<1>3. /\ Coordinator(b, n, k) /\ Others(p, b, {"auth", "last", "generation", "request"})
      /\ b.auth = next /\ b.request = None
  <2>1. Coordinator(b, n, k) /\ Others(q, b, {"generation", "request"}) /\ b.request = None
    BY <1>2, Bumps
  <2>2. b.auth = q.auth
    BY <2>1 DEF Others, Fields
  <2> QED
    BY <1>1, <1>2, <2>1, <2>2 DEF Others
<1>0. q = [p EXCEPT !.auth = next, !.last = IF next.phase = "authenticated" THEN next ELSE @]
  OBVIOUS
<1>4. AcceptAuthState(p, next) \in {p, q, b}
  <2> DEFINE refused == p.auth # None /\ next # p.auth /\ next.epoch <= p.auth.epoch
             out == next.phase # "authenticated" \/ (p.auth # None /\ next # p.auth)
  <2>1. AcceptAuthState(p, next) = IF refused THEN p ELSE IF out THEN b ELSE q
    BY <1>0, Zenon DEF AcceptAuthState
  <2> QED
    BY <2>1
<1>5. p.auth = None \/ next.epoch > p.auth.epoch => AcceptAuthState(p, next) \in {q, b}
  <2>1. p.auth # None => p.auth.epoch \in Nat /\ next.epoch \in Nat
    BY DEF Coordinator, Auth
  <2> DEFINE refused == p.auth # None /\ next # p.auth /\ next.epoch <= p.auth.epoch
             out == next.phase # "authenticated" \/ (p.auth # None /\ next # p.auth)
  <2>2. AcceptAuthState(p, next) = IF refused THEN p ELSE IF out THEN b ELSE q
    BY <1>0, Zenon DEF AcceptAuthState
  <2> QED
    BY <2>1, <2>2
<1>6. p.request = q.request
  BY <1>2 DEF Others, Fields
<1> QED
  BY <1>1, <1>2, <1>3, <1>4, <1>5, <1>6 DEF Others

---------------------------------------------------------------------------
(* What the coordinator has sent, in the page's chain.                     *)
LEMMA SetToSeqFacts ==
  ASSUME NEW S, IsFiniteSet(S)
  PROVE  /\ Cardinality(S) \in Nat
         /\ SetToSeq(S) \in Seq(S) /\ Len(SetToSeq(S)) = Cardinality(S)
         /\ DOMAIN SetToSeq(S) = 1 .. Cardinality(S)
<1> PICK c : c = Cardinality(S)
  OBVIOUS
<1>1. c \in Nat /\ ExistsBijection(1 .. c, S)
  BY FS_CardinalityType
<1>2. \E f \in [1 .. c -> S] : IsInjective(f)
  <2>1. PICK f : f \in Bijection(1 .. c, S)
    BY <1>1 DEF ExistsBijection
  <2>2. f \in [1 .. c -> S] /\ \A a, b \in 1 .. c : f[a] = f[b] => a = b
    BY <2>1 DEF Bijection, Injection, IsInjective
  <2> QED
    BY <2>2 DEF IsInjective
<1>3. SetToSeq(S) \in [1 .. c -> S]
  BY <1>2, Zenon DEF SetToSeq
<1> QED
  BY <1>1, <1>3

Fresh(m) == [message |-> m, served |-> FALSE, epoch |-> 0, answer |-> None]
Longer(chain, longer, M) ==
  /\ DOMAIN chain \subseteq DOMAIN longer /\ \A i \in DOMAIN chain : longer[i] = chain[i]
  /\ \A i \in DOMAIN longer \ DOMAIN chain : \E m \in M : longer[i] = Fresh(m)

LEMMA Chains ==
  ASSUME NEW n \in Nat, NEW k \in Nat, NEW chain \in Seq(Request(n, k)),
         NEW M \in SUBSET Outgoing(n, k), IsFiniteSet(M)
  PROVE  /\ Chained(chain, M) \in Seq(Request(n, k))
         /\ Longer(chain, Chained(chain, M), M \cap Message(n, k))
<1> PICK new : new = {m \in M : /\ m.type \notin {"ACK", "ENDED"}
                                /\ \A i \in DOMAIN chain : ~SameKey(chain[i].message, m)}
  OBVIOUS
<1>1. new \subseteq M \cap Message(n, k) /\ IsFiniteSet(new)
  <2>1. IsFiniteSet(new)
    BY FS_Subset
  <2> QED
    BY <2>1, MessageKinds
<1> PICK added : added = {Fresh(m) : m \in new}
  OBVIOUS
<1>2. IsFiniteSet(added) /\ added \subseteq Request(n, k)
  <2>1. [m \in new |-> Fresh(m)] \in Surjection(new, added)
    BY DEF Surjection
  <2>2. IsFiniteSet(added)
    BY <1>1, <2>1, FS_Surjection
  <2>3. ASSUME NEW m \in new
        PROVE  Fresh(m) \in Request(n, k)
    <3>1. m \in Message(n, k)
      BY <1>1
    <3> QED
      BY <3>1 DEF Fresh, Request
  <2> QED
    BY <2>2, <2>3
<1> PICK s : s = SetToSeq(added)
  OBVIOUS
<1>3. s \in Seq(added) /\ Len(s) \in Nat /\ DOMAIN s = 1 .. Len(s)
  BY <1>2, SetToSeqFacts
<1>4. Chained(chain, M) = chain \o s
  <2>1. added = {[message |-> m, served |-> FALSE, epoch |-> 0, answer |-> None] : m \in new}
    BY DEF Fresh
  <2> QED
    BY <2>1, Zenon DEF Chained
<1>5. s \in Seq(Request(n, k))
  BY <1>2, <1>3, SeqWider
<1> PICK l : l = chain \o s
  OBVIOUS
<1>6. /\ l \in Seq(Request(n, k)) /\ DOMAIN l = 1 .. (Len(chain) + Len(s))
      /\ Len(chain) \in Nat /\ DOMAIN chain = 1 .. Len(chain)
      /\ \A i \in 1 .. Len(chain) : l[i] = chain[i]
      /\ \A i \in 1 .. Len(s) : l[Len(chain) + i] = s[i]
  BY <1>3, <1>5
<1>7. ASSUME NEW i \in DOMAIN l \ DOMAIN chain
      PROVE  \E m \in M \cap Message(n, k) : l[i] = Fresh(m)
  <2>1. i - Len(chain) \in 1 .. Len(s)
    BY <1>3, <1>6, <1>7
  <2>2. l[i] = s[i - Len(chain)]
    <3> PICK j : j = i - Len(chain)
      OBVIOUS
    <3>1. i = Len(chain) + j
      BY <1>6, <1>7
    <3> QED
      BY <2>1, <3>1, <1>6
  <2>3. l[i] \in added
    BY <1>3, <2>1, <2>2, SeqLen
  <2> QED
    BY <2>3, <1>1
<1>8. Longer(chain, l, M \cap Message(n, k))
  <2>1. DOMAIN chain \subseteq DOMAIN l /\ \A i \in DOMAIN chain : l[i] = chain[i]
    BY <1>3, <1>6
  <2> QED
    BY <2>1, <1>7 DEF Longer
<1> QED
  BY <1>4, <1>6, <1>8

PageType ==
  [phase : {"bootstrapping", "anonymous", "authenticated", "leaving"},
   epoch : Nat, user : Accounts \cup {None}, ending : BOOLEAN, waiting : BOOLEAN,
   reason : {"LOGOUT", "WITHDRAWAL"}, session : Nat]
SamePage(d, e) ==
  /\ e.phase = d.phase /\ e.epoch = d.epoch /\ e.user = d.user /\ e.ending = d.ending
  /\ e.reason = d.reason /\ e.session = d.session

LEMMA Sendings ==
  ASSUME NEW n \in Nat, NEW k \in Nat, NEW p, Coordinator(p, n, k),
         NEW chain \in Seq(Request(n, k)), NEW d \in PageType, Sent(p, chain, d)
  PROVE  /\ Coordinator(phone', n, k) /\ Others(p, phone', {"out"}) /\ phone'.out = {}
         /\ writes' \in Seq(Request(n, k))
         /\ Longer(chain, writes', p.out \cap Message(n, k))
         /\ page' \in PageType /\ SamePage(d, page')
<1>1. phone' = [p EXCEPT !.out = {}]
  BY DEF Sent
<1>2. IsFiniteSet({})
  BY FS_EmptySet
<1>3. Coordinator(phone', n, k) /\ Others(p, phone', {"out"}) /\ phone'.out = {}
  BY <1>1, <1>2 DEF Coordinator, Others, Fields
<1>4. writes' = Chained(chain, p.out)
  BY DEF Sent
<1>5. p.out \in SUBSET Outgoing(n, k) /\ IsFiniteSet(p.out)
  BY DEF Coordinator
<1>6. page' = d \/ page' = [d EXCEPT !.waiting = FALSE]
  BY DEF Sent
<1>7. page' \in PageType /\ SamePage(d, page')
  BY <1>6 DEF PageType, SamePage
<1> QED
  BY <1>3, <1>4, <1>5, <1>7, Chains

---------------------------------------------------------------------------
(* The coordinator's functions that an action calls as a whole.            *)
LEMMA AsksState ==
  ASSUME NEW n \in Nat, NEW k \in Nat, NEW p, Coordinator(p, n, k), NEW c \in Ctx(n, k),
         NEW rotate \in BOOLEAN, NEW i \in 1 .. k, ids < n, ids \in Nat,
         NEW q, q = AskState(p, c, rotate, i)
  PROVE  /\ Coordinator(q, n, k)
         /\ Others(p, q, {"request", "out", "timers", "attempts"})
         /\ q.request \in Asked(n, k) /\ q.request.id = ids + 1
         /\ q.out \subseteq p.out \cup {[type |-> "STATE", epoch |-> q.request.epoch,
                                         id |-> q.request.id, body |-> q.request.installation]}
         /\ q.timers \subseteq
              p.timers \cup {[key |-> Key("state", q.request.id), carried |-> q.request]}
<1> PICK g : g = ids + 1
  OBVIOUS
<1> PICK request : request = [c EXCEPT !.id = g, !.rotate = rotate, !.installation = i]
  OBVIOUS
<1>0. g \in 0 .. n /\ request.id = g
  BY DEF Ctx
<1>1. request \in Asked(n, k)
  <2>1. i \in 0 .. k /\ i # 0
    OBVIOUS
  <2>2. request \in Ctx(n, k)
    BY <1>0, <2>1 DEF Ctx
  <2>3. request.installation = i
    BY DEF Ctx
  <2> QED
    BY <2>1, <2>2, <2>3 DEF Asked
<1> PICK r : r = [p EXCEPT !.request = request]
  OBVIOUS
<1>2. Coordinator(r, n, k) /\ Others(p, r, {"request"}) /\ r.request = request
  BY <1>1 DEF Coordinator, Others, Fields
<1>3. q = SendStateRequest(r, request)
  BY DEF AskState
<1>a. k \in Nat
  OBVIOUS
<1>4. Grows(r, q, {[type |-> "STATE", epoch |-> request.epoch, id |-> request.id,
                    body |-> request.installation]},
            {[key |-> Key("state", request.id), carried |-> request]}, n, k)
  BY ONLY <1>1, <1>2, <1>3, <1>a, StateRequests
<1>5. q.request = request
  BY <1>2, <1>4 DEF Grows, Quiet
<1>6. Others(p, q, {"request", "out", "timers", "attempts"})
  BY <1>2, <1>4 DEF Grows, Quiet, Others, Fields
<1>7. r.out = p.out /\ r.timers = p.timers
  BY <1>2 DEF Others, Fields
<1>8. /\ q.out \subseteq p.out \cup {[type |-> "STATE", epoch |-> request.epoch,
                                     id |-> request.id, body |-> request.installation]}
      /\ q.timers \subseteq p.timers \cup {[key |-> Key("state", request.id), carried |-> request]}
      /\ Coordinator(q, n, k)
  BY ONLY <1>4, <1>7 DEF Grows
<1> QED
  BY <1>0, <1>1, <1>5, <1>6, <1>8

EndQueued(a, b) == b = a \/ \E o \in EndOp : o.kind = "endCreate" /\ b = Append(a, o)
LEMMA Captures ==
  ASSUME NEW n \in Nat, NEW k \in Nat, NEW p, Coordinator(p, n, k), NEW d \in PageType,
         NEW reason \in {"LOGOUT", "WITHDRAWAL"}, NEW q, q = CaptureSessionEnding(p, d, reason)
  PROVE  /\ Coordinator(q, n, k) /\ Others(p, q, {"generation", "request", "queue"})
         /\ q.request \in {None, p.request} /\ EndQueued(p.queue, q.queue)
<1>1. CASE p.last = None
  BY <1>1 DEF CaptureSessionEnding, Others, EndQueued
<1>2. CASE p.last # None /\ p.last.epoch # d.epoch
  BY <1>2 DEF CaptureSessionEnding, Others, EndQueued
<1>3. CASE p.last # None /\ p.last.epoch = d.epoch
  <2> PICK o : o = [kind |-> "endCreate", user |-> p.last.user, reason |-> reason,
                    epoch |-> d.epoch, session |-> d.session]
    OBVIOUS
  <2>1. o \in EndOp /\ o.kind = "endCreate"
    BY <1>3 DEF EndOp, PageType, Coordinator, Login, Auth
  <2>2. o \in StoreOp(n, k)
    BY <2>1 DEF StoreOp
  <2> PICK b : b = Bump(p)
    OBVIOUS
  <2>3. /\ Coordinator(b, n, k) /\ Others(p, b, {"generation", "request"}) /\ b.request = None
    BY Bumps
  <2>4. q = Enqueue(b, o)
    BY <1>3 DEF CaptureSessionEnding
  <2>5. Coordinator(q, n, k) /\ Others(b, q, {"queue"}) /\ q.queue = Append(b.queue, o)
    BY <2>2, <2>3, <2>4, Enqueues
  <2>6. b.queue = p.queue /\ q.request = b.request
    BY <2>3, <2>5 DEF Others, Fields
  <2>7. Others(p, q, {"generation", "request", "queue"})
    BY <2>3, <2>5 DEF Others
  <2> QED
    BY <2>1, <2>3, <2>5, <2>6, <2>7 DEF EndQueued
<1> QED
  BY <1>1, <1>2, <1>3

Context_(d) == IF d.phase = "authenticated" THEN d.user \in Accounts ELSE d.user = None
LEMMA AuthSent ==
  ASSUME NEW n \in Nat, NEW k \in Nat, NEW p, Coordinator(p, n, k), NEW d \in PageType,
         Context_(d)
  PROVE  LET q == SendAuth(p, d) IN
         /\ AuthPayload(d) \in Auth
         /\ Coordinator(q, n, k)
         /\ Others(p, q, {"auth", "last", "generation", "request", "regs"})
         /\ ~p.connected => q = p
         /\ p.connected /\ (p.auth = None \/ d.epoch > p.auth.epoch) => q.auth = AuthPayload(d)
         /\ RegsKept(p, q) /\ q.request \in {None, p.request}
<1> PICK q : q = SendAuth(p, d)
  OBVIOUS
<1> PICK a : a = AuthPayload(d)
  OBVIOUS
<1>1. a \in Auth /\ a.epoch = d.epoch
  BY DEF AuthPayload, Auth, PageType, Context_
<1> PICK t : t = AcceptAuthState(p, a)
  OBVIOUS
<1>2. /\ Coordinator(t, n, k) /\ Others(p, t, {"auth", "last", "generation", "request"})
      /\ p.auth = None \/ d.epoch > p.auth.epoch => t.auth = a
      /\ t.request \in {None, p.request}
  BY <1>1, Accepts
<1> PICK r : r = RequestRegistration(t, d.epoch)
  OBVIOUS
<1>3. d.epoch \in Nat
  BY DEF PageType
<1>4. /\ Coordinator(r, n, k) /\ Others(t, r, {"regs"})
      /\ r.regs = Append(t.regs, [epoch |-> d.epoch, generation |-> t.generation, busy |-> FALSE])
  BY <1>2, <1>3, RegsMore
<1>5. t.regs = p.regs /\ r.auth = t.auth /\ r.request = t.request
  BY <1>2, <1>4 DEF Others, Fields
<1>6. [epoch |-> d.epoch, generation |-> t.generation, busy |-> FALSE] \in Reg
  BY <1>2, <1>3 DEF Reg, Coordinator
<1>7. RegsKept(p, t) /\ RegsKept(p, r)
  BY <1>4, <1>5, <1>6 DEF RegsKept
<1>8. Others(p, r, {"auth", "last", "generation", "request", "regs"})
  BY <1>2, <1>4 DEF Others
<1>9. q = IF ~p.connected THEN p ELSE IF d.phase = "authenticated" THEN r ELSE t
  BY DEF SendAuth
<1>10. Others(p, t, {"auth", "last", "generation", "request", "regs"})
  BY <1>2 DEF Others
<1>11. Others(p, p, {"auth", "last", "generation", "request", "regs"}) /\ RegsKept(p, p)
  BY DEF Others, RegsKept
<1> HIDE DEF Others, RegsKept, Coordinator
<1>12. CASE ~p.connected
  BY <1>1, <1>9, <1>11, <1>12
<1>13. CASE p.connected /\ d.phase = "authenticated"
  BY <1>1, <1>2, <1>4, <1>5, <1>7, <1>8, <1>9, <1>13
<1>14. CASE p.connected /\ d.phase # "authenticated"
  BY <1>1, <1>2, <1>7, <1>9, <1>10, <1>14
<1> QED
  BY <1>12, <1>13, <1>14

---------------------------------------------------------------------------
(* The queue after a step: d operations have left its head, and one of N   *)
(* may have come at its end.                                               *)
Moves(q, r, d, N) ==
  /\ \A i \in DOMAIN r :
       \/ i + d \in DOMAIN q /\ r[i] = q[i + d]
       \/ i + d = Len(q) + 1 /\ r[i] \in N
  /\ \A i \in DOMAIN q : i > d => i - d \in DOMAIN r /\ r[i - d] = q[i]

LEMMA QueueMoves ==
  ASSUME NEW S, NEW q \in Seq(S)
  PROVE  /\ Moves(q, q, 0, {})
         /\ \A x \in S : Moves(q, Append(q, x), 0, {x})
         /\ q # <<>> => Moves(q, Tail(q), 1, {})
         /\ q # <<>> => \A x \in S : Moves(q, Append(Tail(q), x), 1, {x})
<1>1. Len(q) \in Nat /\ DOMAIN q = 1 .. Len(q)
  OBVIOUS
<1>2. Moves(q, q, 0, {})
  BY <1>1 DEF Moves
<1>3. ASSUME NEW x \in S
      PROVE  Moves(q, Append(q, x), 0, {x})
  <2> PICK r : r = Append(q, x)
    OBVIOUS
  <2>1. /\ DOMAIN r = 1 .. (Len(q) + 1)
        /\ \A i \in 1 .. Len(q) : r[i] = q[i]
        /\ r[Len(q) + 1] = x
    BY SeqAppend
  <2> QED
    BY <1>1, <2>1 DEF Moves
<1>4. ASSUME q # <<>>
      PROVE  Moves(q, Tail(q), 1, {})
  <2> PICK r : r = Tail(q)
    OBVIOUS
  <2>1. /\ DOMAIN r = 1 .. (Len(q) - 1)
        /\ \A i \in 1 .. (Len(q) - 1) : r[i] = q[i + 1]
    BY <1>4, SeqTail
  <2> QED
    BY <1>1, <2>1 DEF Moves
<1>5. ASSUME NEW x \in S, q # <<>>
      PROVE  Moves(q, Append(Tail(q), x), 1, {x})
  <2> PICK p : p = Tail(q)
    OBVIOUS
  <2>1. /\ p \in Seq(S) /\ Len(p) = Len(q) - 1 /\ DOMAIN p = 1 .. (Len(q) - 1)
        /\ \A i \in 1 .. (Len(q) - 1) : p[i] = q[i + 1]
    BY <1>5, SeqTail
  <2> PICK r : r = Append(p, x)
    OBVIOUS
  <2>2. /\ DOMAIN r = 1 .. (Len(p) + 1)
        /\ \A i \in 1 .. Len(p) : r[i] = p[i]
        /\ r[Len(p) + 1] = x
    BY <2>1, SeqAppend
  <2> QED
    BY <1>1, <2>1, <2>2 DEF Moves
<1> QED
  BY <1>2, <1>3, <1>4, <1>5

(* What an action makes of the coordinator: typed, in the same context,    *)
(* with the queue moved on.                                                *)
Turn(p, n, k, d, N) ==
  /\ Coordinator(p, n, k)
  /\ p.connected = phone.connected /\ p.auth = phone.auth
  /\ Moves(phone.queue, p.queue, d, N)

LEMMA Heads ==
  ASSUME TypeInv, phone.queue # <<>>
  PROVE  /\ Turn(Rest, ids, Len(rows), 1, {}) /\ Others(phone, Rest, {"queue"})
         /\ Rest.queue = Tail(phone.queue)
         /\ Operation = phone.queue[1] /\ 1 \in Q
         /\ Operation \in StoreOp(ids, Len(rows))
         /\ ids \in Nat /\ Len(rows) \in Nat
<1>0. Coordinator(phone, ids, Len(rows)) /\ ids \in Nat /\ Len(rows) \in Nat
  BY DEF TypeInv, Typed, PhoneTyped, WorldTyped
<1> PICK q : q = phone.queue
  OBVIOUS
<1> PICK t : t = Tail(q)
  OBVIOUS
<1>1. q \in Seq(StoreOp(ids, Len(rows))) /\ q # <<>>
  BY <1>0 DEF Coordinator
<1>2. t \in Seq(StoreOp(ids, Len(rows))) /\ Moves(q, t, 1, {})
  BY <1>1, SeqTail, QueueMoves
<1>3. Head(q) = q[1] /\ 1 \in DOMAIN q /\ q[1] \in StoreOp(ids, Len(rows))
  BY <1>1, SeqTail
<1>4. Rest = [phone EXCEPT !.queue = t]
  BY DEF Rest
<1>5. Coordinator(Rest, ids, Len(rows)) /\ Others(phone, Rest, {"queue"}) /\ Rest.queue = t
  BY <1>0, <1>2, <1>4 DEF Coordinator, Others, Fields
<1>6. Rest.connected = phone.connected /\ Rest.auth = phone.auth
  BY <1>5 DEF Others, Fields
<1> QED
  BY <1>0, <1>2, <1>3, <1>5, <1>6 DEF Turn, Operation, Q

(* A turn goes on.                                                         *)
LEMMA TurnGrows ==
  ASSUME NEW n, NEW k, NEW d, NEW N, NEW p, Turn(p, n, k, d, N), NEW q, NEW M, NEW T,
         Grows(p, q, M, T, n, k)
  PROVE  Turn(q, n, k, d, N) /\ q.regs = p.regs
BY DEF Turn, Grows, Quiet

LEMMA TurnWider ==
  ASSUME NEW n \in Nat, NEW k \in Nat, NEW n2 \in Nat, NEW k2 \in Nat, n <= n2, k <= k2,
         NEW d, NEW N, NEW p, Turn(p, n, k, d, N)
  PROVE  Turn(p, n2, k2, d, N)
BY CoordinatorWider DEF Turn

LEMMA TurnEnqueues ==
  ASSUME TypeInv, phone.queue # <<>>,
         NEW n, NEW k, NEW p, Coordinator(p, n, k), NEW o \in StoreOp(n, k),
         p.connected = phone.connected, p.auth = phone.auth, p.queue = Tail(phone.queue)
  PROVE  /\ Turn(Enqueue(p, o), n, k, 1, {o}) /\ Enqueue(p, o).regs = p.regs
         /\ Others(p, Enqueue(p, o), {"queue"})
<1> PICK e : e = Enqueue(p, o)
  OBVIOUS
<1>1. Coordinator(e, n, k) /\ Others(p, e, {"queue"}) /\ e.queue = Append(p.queue, o)
  BY ONLY Coordinator(p, n, k), o \in StoreOp(n, k), e = Enqueue(p, o), Enqueues
<1>2. e.connected = p.connected /\ e.auth = p.auth /\ e.regs = p.regs
  BY <1>1 DEF Others, Fields
<1> PICK q : q = phone.queue
  OBVIOUS
<1> PICK x : x = o
  OBVIOUS
<1>3. q \in Seq(StoreOp(ids, Len(rows)) \cup {x}) /\ q # <<>>
  BY SeqWider DEF TypeInv, Typed, PhoneTyped, Coordinator
<1>4. Moves(q, Append(Tail(q), x), 1, {x})
  BY <1>3, QueueMoves
<1> QED
  BY <1>1, <1>2, <1>4 DEF Turn

LEMMA TurnAppends ==
  ASSUME TypeInv,
         NEW n, NEW k, NEW p, Coordinator(p, n, k), NEW o \in StoreOp(n, k),
         p.connected = phone.connected, p.auth = phone.auth, p.queue = phone.queue
  PROVE  /\ Turn(Enqueue(p, o), n, k, 0, {o}) /\ Enqueue(p, o).regs = p.regs
         /\ Others(p, Enqueue(p, o), {"queue"})
<1> PICK e : e = Enqueue(p, o)
  OBVIOUS
<1>1. Coordinator(e, n, k) /\ Others(p, e, {"queue"}) /\ e.queue = Append(p.queue, o)
  BY ONLY Coordinator(p, n, k), o \in StoreOp(n, k), e = Enqueue(p, o), Enqueues
<1>2. e.connected = p.connected /\ e.auth = p.auth /\ e.regs = p.regs
  BY <1>1 DEF Others, Fields
<1> PICK q : q = phone.queue
  OBVIOUS
<1> PICK x : x = o
  OBVIOUS
<1>3. q \in Seq(StoreOp(ids, Len(rows)) \cup {x})
  BY SeqWider DEF TypeInv, Typed, PhoneTyped, Coordinator
<1>4. Moves(q, Append(q, x), 0, {x})
  BY <1>3, QueueMoves
<1> QED
  BY <1>1, <1>2, <1>4 DEF Turn

---------------------------------------------------------------------------
(* The queue's invariants over a turn.                                     *)
Bounds(n, k) == n \in Nat /\ k \in Nat /\ ids <= n /\ Len(rows) <= k
LEMMA QueueTurns ==
  ASSUME TypeInv, NEW d \in {0, 1}, NEW N, Moves(phone.queue, phone'.queue, d, N),
         store # None => store' # None,
         \A x \in N : /\ x.kind \in Follows => store' # None
                      /\ x.kind = "resultLoad" => x.answer.outcome \in {"SUCCESS", "FAILED", "RETRY"}
  PROVE  StoreThere' /\ ResultInv'
<1>1. ASSUME NEW i \in DOMAIN phone'.queue
      PROVE  /\ phone'.queue[i].kind \in Follows => store' # None
             /\ phone'.queue[i].kind = "resultLoad" =>
                  phone'.queue[i].answer.outcome \in {"SUCCESS", "FAILED", "RETRY"}
  <2>1. CASE i + d \in DOMAIN phone.queue /\ phone'.queue[i] = phone.queue[i + d]
    BY <2>1 DEF TypeInv, StoreThere, ResultInv, Is, Q
  <2>2. CASE phone'.queue[i] \in N
    BY <2>2
  <2> QED
    BY <2>1, <2>2 DEF Moves
<1> QED
  BY <1>1 DEF StoreThere, ResultInv, Is, Q

(* No registration that waits for the storage is left in the queue.        *)
Free(d) == \A i \in Q : i > d => phone.queue[i].kind \notin Busy
BusyWell(p, d, N) ==
  /\ RegsKept(phone, p) \/ Free(d)
  /\ \A x \in N : x.kind \in Busy => Free(d) /\ p.regs # <<>> /\ p.regs[1].busy

LEMMA HeadBusy ==
  ASSUME TypeInv, phone.queue # <<>>, phone.queue[1].kind \in Busy
  PROVE  Free(1) /\ phone.regs # <<>> /\ phone.regs[1].busy
<1>1. Len(phone.queue) \in Nat /\ Q = 1 .. Len(phone.queue) /\ 1 \in Q
  BY SeqLen, SeqTail DEF TypeInv, Typed, PhoneTyped, Coordinator, Q
<1>2. \A i, j \in Q : phone.queue[i].kind \in Busy /\ phone.queue[j].kind \in Busy => i = j
  BY DEF TypeInv, BusyInv
<1>3. phone.regs # <<>> /\ phone.regs[1].busy
  BY <1>1 DEF TypeInv, BusyInv
<1> QED
  BY <1>1, <1>2, <1>3 DEF Free

LEMMA BusyTurns ==
  ASSUME TypeInv, NEW d \in {0, 1}, NEW N, NEW S, NEW p, BusyWell(p, d, N),
         Moves(phone.queue, phone'.queue, d, N), phone'.queue \in Seq(S), phone'.regs = p.regs
  PROVE  BusyInv'
<1>0. Len(phone.queue) \in Nat /\ Q = 1 .. Len(phone.queue) /\ phone.regs \in Seq(Reg)
  BY SeqLen DEF TypeInv, Typed, PhoneTyped, Coordinator, Q
<1>1. ASSUME NEW i \in DOMAIN phone'.queue, phone'.queue[i].kind \in Busy
      PROVE  /\ i \in Nat \ {0}
             /\ \/ i + d \in Q /\ phone.queue[i + d].kind \in Busy
                \/ i + d = Len(phone.queue) + 1 /\ Free(d) /\ p.regs # <<>> /\ p.regs[1].busy
  <2>1. i \in Nat \ {0}
    BY SeqLen
  <2> QED
    BY <1>1, <2>1 DEF Moves, Q, BusyWell
<1>2. CASE Free(d)
  <2>1. ASSUME NEW i \in DOMAIN phone'.queue, phone'.queue[i].kind \in Busy
        PROVE  i + d = Len(phone.queue) + 1 /\ p.regs # <<>> /\ p.regs[1].busy /\ i \in Nat
    <3>1. i \in Nat \ {0} /\ (i + d \in Q => i + d > d)
      BY <1>0, <1>1, <2>1
    <3> QED
      BY <1>1, <1>2, <2>1, <3>1 DEF Free
  <2>2. ASSUME NEW i \in DOMAIN phone'.queue, NEW j \in DOMAIN phone'.queue,
               phone'.queue[i].kind \in Busy, phone'.queue[j].kind \in Busy
        PROVE  i = j
    BY <1>0, <2>1, <2>2
  <2> QED
    BY <2>1, <2>2 DEF BusyInv, Q
<1>3. CASE ~Free(d)
  <2>0. RegsKept(phone, p)
    BY <1>3 DEF BusyWell
  <2>1. phone.regs # <<>> => phone'.regs # <<>> /\ phone'.regs[1] = phone.regs[1]
    <3>1. CASE phone'.regs = phone.regs
      BY <3>1
    <3>2. ASSUME NEW r \in Reg, phone'.regs = Append(phone.regs, r)
          PROVE  phone.regs # <<>> => phone'.regs # <<>> /\ phone'.regs[1] = phone.regs[1]
      BY <1>0, <3>2, SeqAppend
    <3> QED
      BY <2>0, <3>1, <3>2 DEF RegsKept
  <2>2. ASSUME NEW i \in DOMAIN phone'.queue, phone'.queue[i].kind \in Busy
        PROVE  phone'.regs # <<>> /\ phone'.regs[1].busy
    BY <1>1, <1>3, <2>1, <2>2 DEF TypeInv, BusyInv
  <2>3. ASSUME NEW i \in DOMAIN phone'.queue, NEW j \in DOMAIN phone'.queue,
               phone'.queue[i].kind \in Busy, phone'.queue[j].kind \in Busy
        PROVE  i = j
    <3>1. i + d = j + d
      BY <1>1, <1>3, <2>3 DEF TypeInv, BusyInv
    <3> QED
      BY <1>1, <2>3, <3>1
  <2> QED
    BY <2>2, <2>3 DEF BusyInv, Q
<1> QED
  BY <1>2, <1>3

ServedWell(chain, n, k) ==
  \A i \in DOMAIN chain : chain[i].served =>
    /\ i = 1 /\ chain[i].answer \in Ans(n, k)
    /\ chain[i].message.type = "DEVICE" => chain[i].answer.outcome \in {"SUCCESS", "FAILED", "RETRY"}

(* What has been sent is sent, and nothing else of the page changes.       *)
LEMMA Settles ==
  ASSUME TypeInv, NEW n \in Nat, NEW k \in Nat, ids' = n, Len(rows') = k,
         NEW d \in {0, 1}, NEW N, NEW p, Turn(p, n, k, d, N),
         NEW chain \in Seq(Request(n, k)), ServedWell(chain, n, k), Sent(p, chain, page),
         store # None => store' # None,
         \A x \in N : /\ x.kind \in Follows => store' # None
                      /\ x.kind = "resultLoad" => x.answer.outcome \in {"SUCCESS", "FAILED", "RETRY"},
         BusyWell(p, d, N), cookie' = cookie
  PROVE  /\ PhoneTyped' /\ PageTyped' /\ WritesTyped' /\ AuthInv' /\ StoreThere' /\ ResultInv'
         /\ page'.user = page.user
         /\ BusyInv'
<1>0. page \in PageType
  BY DEF TypeInv, Typed, PageTyped, PageType
<1>1. /\ Coordinator(phone', n, k) /\ Others(p, phone', {"out"}) /\ phone'.out = {}
      /\ writes' \in Seq(Request(n, k))
      /\ Longer(chain, writes', p.out \cap Message(n, k))
      /\ page' \in PageType /\ SamePage(page, page')
  BY <1>0, Sendings DEF Turn
<1>2. PhoneTyped'
  BY <1>1 DEF PhoneTyped
<1>3. /\ phone'.connected = phone.connected /\ phone'.auth = phone.auth
      /\ phone'.queue = p.queue /\ phone'.regs = p.regs
  BY <1>1 DEF Turn, Others, Fields
<1>4. PageTyped'
  BY <1>1 DEF TypeInv, Typed, PageTyped, PageType, SamePage
<1>5. AuthInv'
  <2>1. AuthPayload(page') = AuthPayload(page)
    BY <1>1 DEF SamePage, AuthPayload
  <2> QED
    BY <1>3, <2>1 DEF TypeInv, AuthInv, AuthPayload
<1>6. WritesTyped'
  <2>1. ASSUME NEW i \in DOMAIN writes', writes'[i].served
        PROVE  i \in DOMAIN chain /\ writes'[i] = chain[i]
    BY <1>1, <2>1 DEF Longer, Fresh
  <2>2. ASSUME NEW i \in DOMAIN writes', writes'[i].served
        PROVE  /\ i = 1 /\ writes'[i].answer \in Ans(n, k)
               /\ writes'[i].message.type = "DEVICE" =>
                    writes'[i].answer.outcome \in {"SUCCESS", "FAILED", "RETRY"}
    BY <2>1, <2>2 DEF ServedWell
  <2> QED
    BY <1>1, <2>2 DEF WritesTyped, W, Type
<1>7. Moves(phone.queue, phone'.queue, d, N)
  BY <1>3 DEF Turn
<1>8. StoreThere' /\ ResultInv'
  BY <1>7, QueueTurns
<1>9. BusyInv'
  <2>1. phone'.queue \in Seq(StoreOp(n, k))
    BY <1>1 DEF Coordinator
  <2> QED
    BY <1>3, <1>7, <2>1, BusyTurns
<1>10. page'.user = page.user
  BY <1>1 DEF SamePage
<1> QED
  BY <1>2, <1>4, <1>5, <1>6, <1>8, <1>9, <1>10

LEMMA ServedWells ==
  ASSUME TypeInv, NEW n \in Nat, NEW k \in Nat, ids <= n, Len(rows) <= k
  PROVE  /\ writes \in Seq(Request(n, k)) /\ ServedWell(writes, n, k)
         /\ writes # <<>> => Tail(writes) \in Seq(Request(n, k)) /\ ServedWell(Tail(writes), n, k)
<1>1. Request(ids, Len(rows)) \subseteq Request(n, k) /\ Ans(ids, Len(rows)) \subseteq Ans(n, k)
      /\ ids \in Nat /\ Len(rows) \in Nat
  BY Wider DEF TypeInv, Typed, WorldTyped
<1>2. writes \in Seq(Request(n, k))
  BY <1>1, SeqWider DEF TypeInv, Typed, WritesTyped
<1>3. ServedWell(writes, n, k)
  BY <1>1 DEF TypeInv, Typed, WritesTyped, ServedWell, W, Type
<1>4. ASSUME writes # <<>>
      PROVE  Tail(writes) \in Seq(Request(n, k)) /\ ServedWell(Tail(writes), n, k)
  <2> PICK t : t = Tail(writes)
    OBVIOUS
  <2> PICK w : w = writes
    OBVIOUS
  <2>1. /\ t \in Seq(Request(n, k)) /\ Len(w) \in Nat /\ DOMAIN w = 1 .. Len(w)
        /\ DOMAIN t = 1 .. (Len(w) - 1)
        /\ \A i \in 1 .. (Len(w) - 1) : t[i] = w[i + 1]
    BY <1>2, <1>4, SeqTail
  <2>2. \A i \in DOMAIN t : ~t[i].served
    BY <2>1, <1>3 DEF ServedWell
  <2> QED
    BY <2>1, <2>2 DEF ServedWell
<1> QED
  BY <1>2, <1>3, <1>4

(* Steps of the coordinator alone.                                         *)
Aside == <<store, cookie, rows, log, gone, issued, known, ended>>
(* What an action has made of the coordinator and the page's chain, once   *)
(* it is sent, is what may come.                                           *)
Within(chain) == \A i \in DOMAIN chain : \E j \in W : chain[i] = writes[j]
LEMMA WithinWrites ==
  ASSUME TypeInv
  PROVE  /\ Within(writes) /\ Within(<<>>)
         /\ writes # <<>> => Within(Tail(writes))
<1>1. Within(writes) /\ Within(<<>>)
  BY DEF Within, W
<1>2. ASSUME writes # <<>>
      PROVE  Within(Tail(writes))
  <2> PICK w : w = writes
    OBVIOUS
  <2> PICK t : t = Tail(w)
    OBVIOUS
  <2>1. /\ Len(w) \in Nat \ {0} /\ DOMAIN w = 1 .. Len(w) /\ DOMAIN t = 1 .. (Len(w) - 1)
        /\ \A i \in 1 .. (Len(w) - 1) : t[i] = w[i + 1]
    BY <1>2, SeqTail DEF TypeInv, Typed, WritesTyped
  <2>2. ASSUME NEW i \in DOMAIN t
        PROVE  \E j \in W : t[i] = writes[j]
    <3>1. i + 1 \in DOMAIN w /\ t[i] = w[i + 1]
      BY <2>1
    <3> QED
      BY <3>1 DEF W
  <2> QED
    BY <2>2 DEF Within
<1> QED
  BY <1>1, <1>2

QueueComes(p, d) ==
  \A i \in DOMAIN p.queue :
    \/ i + d \in Q /\ p.queue[i] = phone.queue[i + d]
    \/ i + d = Len(phone.queue) + 1 /\ OpFits(p.queue[i], d)
LEMMA Comes ==
  ASSUME NEW n \in Nat, NEW k \in Nat, NEW d, NEW p, Coordinator(p, n, k), QueueComes(p, d), SendsFit(p),
         NEW chain \in Seq(Request(n, k)), Within(chain), NEW e \in PageType, Sent(p, chain, e)
  PROVE  Coming(d)
<1>1. /\ Others(p, phone', {"out"}) /\ Longer(chain, writes', p.out \cap Message(n, k))
  BY Sendings
<1>2. phone'.queue = p.queue /\ phone'.request = p.request /\ phone'.timers = p.timers
  BY <1>1 DEF Others, Fields
<1>3. QueueFits(d)
  BY <1>2 DEF QueueComes, QueueFits
<1>4. WritesFit
  <2>1. ASSUME NEW i \in DOMAIN writes', i \notin DOMAIN chain
        PROVE  ~writes'[i].served /\ MsgFits(writes'[i].message, phone'.request)
    <3> PICK m \in p.out : writes'[i] = Fresh(m)
      BY <1>1, <2>1 DEF Longer
    <3>1. writes'[i].message = m /\ writes'[i].served = FALSE
      BY DEF Fresh
    <3>2. MsgFits(m, p.request)
      BY DEF SendsFit
    <3> QED
      BY <1>2, <3>1, <3>2
  <2>2. ASSUME NEW i \in DOMAIN writes', i \in DOMAIN chain
        PROVE  \E j \in W : writes'[i] = writes[j]
    BY <1>1, <2>2 DEF Longer, Within
  <2> QED
    BY <2>1, <2>2 DEF WritesFit
<1>5. RequestFits(phone'.request) /\ \A t \in phone'.timers : TimerFits(t)
  BY <1>2 DEF SendsFit
<1> QED
  BY <1>3, <1>4, <1>5 DEF Coming

LEMMA TurnComes ==
  ASSUME NEW n \in Nat, NEW k \in Nat, NEW d \in {0, 1}, NEW N, NEW p, Turn(p, n, k, d, N),
         SendsFit(p), AddsFit(N, d),
         NEW chain \in Seq(Request(n, k)), Within(chain), NEW e \in PageType, Sent(p, chain, e)
  PROVE  Coming(d)
<1>1. QueueComes(p, d)
  BY DEF Turn, Moves, AddsFit, QueueComes, Q
<1> QED
  BY <1>1, Comes DEF Turn

(* A step that leaves the record and the server alone.                     *)
LEMMA AsideFits ==
  ASSUME TypeInv, Aside' = Aside, ids' \in {ids, ids + 1}, NEW d
  PROVE  WorldFits /\ StoreFits(d)
<1>0. /\ store' = store /\ rows' = rows /\ log' = log /\ issued' = issued /\ known' = known
      /\ ids \in Nat /\ rows \in Seq(Row(ids))
  BY DEF Aside, TypeInv, Typed, WorldTyped
<1>1. WorldFits
  <2>1. Len(rows) <= Len(rows') /\ ids <= ids'
    BY <1>0
  <2>2. RowsFit
    BY <1>0, <2>1 DEF RowsFit
  <2> QED
    BY <1>0, <2>1, <2>2 DEF WorldFits
<1>2. PendingFits(d) /\ BindingFits(d) /\ RevokesFit(d) /\ KnownFits(d)
  BY <1>0 DEF PendingFits, BindingFits, RevokesFit, KnownFits
<1>3. store # None => store' # None /\ RevokesKept(d) /\ BindingKept(d)
  BY <1>0 DEF RevokesKept, BindingKept
<1> QED
  BY <1>1, <1>2, <1>3 DEF StoreFits

LEMMA Quietly ==
  ASSUME TypeInv, Aside' = Aside, ids' \in {ids, ids + 1},
         target' \in Tokens \cup {None}, disturbed' \in BOOLEAN,
         events' \in [acts : Nat, losses : Nat] /\ events'.acts \in Nat /\ events'.losses \in 0 .. MaxLosses,
         events'.acts + events'.losses <= MaxEvents,
         NEW d \in {0, 1}, NEW N, NEW p, Turn(p, ids', Len(rows), d, N),
         NEW chain, chain = writes \/ (writes # <<>> /\ chain = Tail(writes)), Sent(p, chain, page),
         \A x \in N : /\ x.kind \in Follows => store # None
                      /\ x.kind = "resultLoad" => x.answer.outcome \in {"SUCCESS", "FAILED", "RETRY"},
         BusyWell(p, d, N)
  PROVE  TypeInv'
<1>0. ids \in Nat /\ ids' \in Nat /\ ids <= ids' /\ Len(rows) \in Nat /\ rows' = rows
  BY DEF TypeInv, Typed, WorldTyped, Aside
<1> PICK n : n = ids'
  OBVIOUS
<1> PICK k : k = Len(rows)
  OBVIOUS
<1>1. chain \in Seq(Request(n, k)) /\ ServedWell(chain, n, k)
  <2>1. n \in Nat /\ k \in Nat /\ ids <= n /\ Len(rows) <= k
    BY <1>0
  <2>2. /\ writes \in Seq(Request(n, k)) /\ ServedWell(writes, n, k)
        /\ writes # <<>> => Tail(writes) \in Seq(Request(n, k)) /\ ServedWell(Tail(writes), n, k)
    BY <2>1, ServedWells
  <2> QED
    BY <2>2
<1>2. /\ n \in Nat /\ k \in Nat /\ ids' = n /\ Len(rows') = k /\ Turn(p, n, k, d, N)
      /\ chain \in Seq(Request(n, k)) /\ ServedWell(chain, n, k)
  BY <1>0, <1>1
<1>3. /\ PhoneTyped' /\ PageTyped' /\ WritesTyped' /\ AuthInv' /\ StoreThere' /\ ResultInv'
      /\ page'.user = page.user
      /\ BusyInv'
  <2>1. store' = store /\ cookie' = cookie
    BY DEF Aside
  <2> QED
    BY <1>2, <2>1, Settles
<1>4. /\ Pend(ids) \subseteq Pend(n) /\ Rev(ids, k) \subseteq Rev(n, k) /\ Held(ids) \subseteq Held(n)
      /\ Row(ids) \subseteq Row(n) /\ Issue(ids, k) \subseteq Issue(n, k)
      /\ Logs(ids, k) \subseteq Logs(n, k) /\ 1 .. ids \subseteq 1 .. n
  <2>1. ids \in Nat /\ n \in Nat /\ k \in Nat /\ ids <= n /\ k <= k
    BY <1>0, <1>2
  <2>2. 1 .. ids \subseteq 1 .. n
    BY ONLY <2>1
  <2> QED
    BY ONLY <2>1, <2>2, Wider
<1>5. StoreTyped'
  BY <1>4, <1>0 DEF TypeInv, Typed, StoreTyped, Aside
<1>6. WorldTyped'
  <2>1. rows \in Seq(Row(n))
    BY <1>4, SeqWider DEF TypeInv, Typed, WorldTyped
  <2> QED
    BY <1>0, <1>4, <2>1 DEF TypeInv, Typed, WorldTyped, Aside
<1>7. EndedInv'
  BY <1>3 DEF TypeInv, EndedInv, Aside
<1>8. LogInv'
  BY DEF TypeInv, LogInv, Aside
<1>9. BusyInv'
  BY <1>3
<1> QED
  BY <1>3, <1>5, <1>6, <1>7, <1>8, <1>9 DEF TypeInv, Typed

---------------------------------------------------------------------------
(* The coordinator in the middle of an action, the queue's head taken (or  *)
(* not), with what may be added.                                           *)
Here(p, n, k, d) ==
  /\ Coordinator(p, n, k) /\ p.connected = phone.connected /\ p.auth = phone.auth
  /\ SendsFit(p)
  /\ IF d = 0 THEN p.queue = phone.queue ELSE phone.queue # <<>> /\ p.queue = Tail(phone.queue)
RegsWell(p, d) == RegsKept(phone, p) \/ Free(d)
NewWell(N, s) ==
  \A x \in N : /\ x.kind \in Follows => s # None
               /\ x.kind = "resultLoad" => x.answer.outcome \in {"SUCCESS", "FAILED", "RETRY"}
Well(p, n, k, d, N) ==
  /\ Turn(p, n, k, d, N) /\ BusyWell(p, d, N) /\ NewWell(N, store)
  /\ SendsFit(p) /\ AddsFit(N, d)

(* What fits goes on to fit.                                               *)
LEMMA FitsStay ==
  ASSUME NEW p, NEW q, NEW fs, Others(p, q, fs), SendsFit(p),
         "out" \notin fs, "timers" \notin fs, "request" \notin fs
  PROVE  SendsFit(q) /\ q.request = p.request
<1>1. q.out = p.out /\ q.timers = p.timers /\ q.request = p.request
  BY DEF Others, Fields
<1> QED
  BY <1>1 DEF SendsFit

LEMMA FitsGrow ==
  ASSUME NEW n, NEW k, NEW p, NEW q, NEW M, NEW T, Grows(p, q, M, T, n, k), SendsFit(p),
         MoreFits(M, T, p.request)
  PROVE  SendsFit(q)
<1>1. q.request = p.request /\ q.out \subseteq p.out \cup M /\ q.timers \subseteq p.timers \cup T
  BY DEF Grows, Quiet
<1> QED
  BY <1>1 DEF SendsFit, MoreFits

(* Before it begins.                                                       *)
LEMMA FitsFirst ==
  ASSUME TypeInv, NEW p, p.out = {}, p.timers \subseteq phone.timers, p.request \in {None, phone.request}
  PROVE  SendsFit(p)
<1>1. \A t \in p.timers : TimerFits(t)
  BY DEF TimerFits, Revoking, Revocations
<1> QED
  BY <1>1 DEF SendsFit, RequestFits

LEMMA HereWell ==
  ASSUME TypeInv, NEW n, NEW k, NEW d \in {0, 1}, NEW p, Here(p, n, k, d), RegsWell(p, d)
  PROVE  Well(p, n, k, d, {})
<1> PICK q : q = phone.queue
  OBVIOUS
<1>1. q \in Seq(StoreOp(ids, Len(rows)))
  BY DEF TypeInv, Typed, PhoneTyped, Coordinator
<1>2. Moves(q, q, 0, {}) /\ (q # <<>> => Moves(q, Tail(q), 1, {}))
  BY <1>1, QueueMoves
<1>3. Moves(q, p.queue, d, {})
  BY <1>2 DEF Here
<1> QED
  BY <1>3 DEF Well, Turn, BusyWell, NewWell, Here, RegsWell, AddsFit

LEMMA HereEnqueues ==
  ASSUME TypeInv, NEW n, NEW k, NEW d \in {0, 1}, NEW p, Here(p, n, k, d), RegsWell(p, d),
         NEW o \in StoreOp(n, k), o.kind \in Follows => store # None,
         o.kind = "resultLoad" => o.answer.outcome \in {"SUCCESS", "FAILED", "RETRY"},
         o.kind \in Busy => Free(d) /\ p.regs # <<>> /\ p.regs[1].busy, OpFits(o, d)
  PROVE  Well(Enqueue(p, o), n, k, d, {o})
<1>1. /\ Turn(Enqueue(p, o), n, k, d, {o}) /\ Enqueue(p, o).regs = p.regs
      /\ Others(p, Enqueue(p, o), {"queue"})
  <2>1. CASE d = 0
    BY <2>1, TurnAppends DEF Here
  <2>2. CASE d = 1
    BY <2>2, TurnEnqueues DEF Here
  <2> QED
    BY <2>1, <2>2
<1>2. SendsFit(p)
  BY DEF Here
<1>3. SendsFit(Enqueue(p, o))
  BY <1>1, <1>2, FitsStay
<1>4. AddsFit({o}, d)
  BY DEF AddsFit
<1> QED
  BY <1>1, <1>3, <1>4 DEF Well, BusyWell, NewWell, RegsWell, RegsKept

LEMMA WellGrows ==
  ASSUME NEW n, NEW k, NEW d, NEW N, NEW p, Well(p, n, k, d, N), NEW q, NEW M, NEW T,
         Grows(p, q, M, T, n, k), MoreFits(M, T, p.request)
  PROVE  Well(q, n, k, d, N)
<1>1. SendsFit(q)
  BY FitsGrow DEF Well
<1> QED
  BY <1>1, TurnGrows DEF Well, BusyWell, RegsKept

LEMMA HereGrows ==
  ASSUME NEW n, NEW k, NEW d, NEW p, Here(p, n, k, d), RegsWell(p, d), NEW q, NEW M, NEW T,
         Grows(p, q, M, T, n, k), MoreFits(M, T, p.request)
  PROVE  /\ Here(q, n, k, d) /\ RegsWell(q, d) /\ Coordinator(q, n, k) /\ q.regs = p.regs
         /\ q.request = p.request
<1>1. SendsFit(q)
  BY FitsGrow DEF Here
<1> QED
  BY <1>1 DEF Here, Grows, Quiet, RegsWell, RegsKept

LEMMA HereStarts ==
  ASSUME TypeInv, NEW n \in Nat, NEW k \in Nat, ids <= n, Len(rows) <= k
  PROVE  /\ Here(phone, n, k, 0) /\ RegsWell(phone, 0) /\ Coordinator(phone, n, k)
         /\ phone.queue # <<>> =>
              /\ Here(Rest, n, k, 1) /\ RegsWell(Rest, 1) /\ Rest.regs = phone.regs
              /\ Rest.out = {} /\ Rest.timers = phone.timers /\ Rest.request = phone.request
              /\ Coordinator(Rest, n, k)
<1>0. ids \in Nat /\ Len(rows) \in Nat /\ Coordinator(phone, ids, Len(rows))
  BY DEF TypeInv, Typed, PhoneTyped, WorldTyped
<1>00. SendsFit(phone)
  <2>1. phone.out = {}
    BY DEF TypeInv, Typed, PhoneTyped
  <2> QED
    BY <2>1, FitsFirst
<1>1. Here(phone, n, k, 0) /\ RegsWell(phone, 0)
  BY <1>0, <1>00, CoordinatorWider DEF Here, RegsWell, RegsKept
<1>2. ASSUME phone.queue # <<>>
      PROVE  /\ Here(Rest, n, k, 1) /\ RegsWell(Rest, 1) /\ Rest.regs = phone.regs
             /\ Rest.out = {} /\ Rest.timers = phone.timers /\ Rest.request = phone.request
  <2>1. /\ Turn(Rest, ids, Len(rows), 1, {}) /\ Others(phone, Rest, {"queue"})
        /\ Rest.queue = Tail(phone.queue)
    BY <1>2, Heads
  <2>2. /\ Rest.regs = phone.regs /\ Rest.out = phone.out /\ Rest.timers = phone.timers
        /\ Rest.request = phone.request
    BY <2>1 DEF Others, Fields
  <2>4. SendsFit(Rest) /\ Rest.out = {}
    BY <1>00, <2>2 DEF SendsFit, TypeInv, Typed, PhoneTyped
  <2>3. Coordinator(Rest, n, k)
    BY <1>0, <2>1, CoordinatorWider DEF Turn
  <2> QED
    BY <1>2, <2>1, <2>2, <2>3, <2>4 DEF Here, Turn, RegsWell, RegsKept
<1> QED
  BY <1>1, <1>2 DEF Here

LEMMA HereNext ==
  ASSUME NEW n, NEW k, NEW d, NEW p, Here(p, n, k, d), Free(d), p.regs # <<>>
  PROVE  /\ Here(NextRegistration(p), n, k, d) /\ RegsWell(NextRegistration(p), d)
         /\ Coordinator(NextRegistration(p), n, k) /\ NextRegistration(p).out = p.out
         /\ NextRegistration(p).timers = p.timers /\ NextRegistration(p).request = p.request
<1> PICK r : r = NextRegistration(p)
  OBVIOUS
<1>1. Coordinator(r, n, k) /\ Others(p, r, {"regs"})
  <2>1. Coordinator(p, n, k)
    BY DEF Here
  <2> QED
    BY <2>1, RegsNext
<1>2. /\ r.connected = p.connected /\ r.auth = p.auth /\ r.queue = p.queue
      /\ r.out = p.out /\ r.timers = p.timers /\ r.request = p.request
  BY <1>1 DEF Others, Fields
<1>3. SendsFit(r)
  BY <1>2 DEF Here, SendsFit
<1> QED
  BY <1>1, <1>2, <1>3 DEF Here, RegsWell

LEMMA Counted ==
  ASSUME TypeInv
  PROVE  /\ Count(1) \/ Lose \/ UNCHANGED events =>
              /\ events' \in [acts : Nat, losses : Nat] /\ events'.acts \in Nat
              /\ events'.losses \in 0 .. MaxLosses /\ events'.acts + events'.losses <= MaxEvents
<1>1. /\ events \in [acts : Nat, losses : Nat] /\ events.acts \in Nat /\ events.losses \in 0 .. MaxLosses
      /\ events.acts + events.losses <= MaxEvents /\ MaxEvents \in Nat /\ MaxLosses \in Nat
  BY PhoneAssumption DEF TypeInv, Typed, WorldTyped
<1>2. CASE Count(1)
  <2> PICK a : a = events.acts + 1
    OBVIOUS
  <2>1. events' = [events EXCEPT !.acts = a] /\ a \in Nat /\ a + events.losses <= MaxEvents
    BY <1>1, <1>2 DEF Count, Spent
  <2> QED
    BY <1>1, <2>1
<1>3. CASE Lose
  <2> PICK a : a = events.losses + 1
    OBVIOUS
  <2>1. /\ events' = [events EXCEPT !.losses = a] /\ a \in 0 .. MaxLosses
        /\ events.acts + a <= MaxEvents
    BY <1>1, <1>3 DEF Lose, Spent
  <2> QED
    BY <1>1, <2>1
<1> QED
  BY <1>1, <1>2, <1>3

(* A step of the coordinator alone, from what it makes of the coordinator. *)
LEMMA Alone ==
  ASSUME TypeInv, Aside' = Aside, NEW n \in {ids, ids + 1}, ids' = n,
         target' \in Tokens \cup {None}, disturbed' \in BOOLEAN,
         Count(1) \/ Lose \/ UNCHANGED events,
         NEW d \in {0, 1}, NEW N, NEW p, Well(p, n, Len(rows), d, N),
         NEW chain, chain = writes \/ (writes # <<>> /\ chain = Tail(writes)), Sent(p, chain, page)
  PROVE  TypeInv' /\ Onward
<1>1. /\ events' \in [acts : Nat, losses : Nat] /\ events'.acts \in Nat
      /\ events'.losses \in 0 .. MaxLosses /\ events'.acts + events'.losses <= MaxEvents
  BY Counted
<1>2. /\ Turn(p, ids', Len(rows), d, N) /\ BusyWell(p, d, N)
      /\ \A x \in N : /\ x.kind \in Follows => store # None
                      /\ x.kind = "resultLoad" => x.answer.outcome \in {"SUCCESS", "FAILED", "RETRY"}
  BY DEF Well, NewWell
<1>3. TypeInv'
  BY <1>1, <1>2, Quietly
<1>4. n \in Nat /\ Len(rows) \in Nat /\ ids <= n /\ page \in PageType
  BY DEF TypeInv, Typed, WorldTyped, PageTyped, PageType
<1>5. chain \in Seq(Request(n, Len(rows)))
  BY <1>4, ServedWells
<1>6. Coming(d)
  BY <1>4, <1>5, TurnComes, WithinWrites DEF Well
<1>7. WorldFits /\ StoreFits(d)
  BY AsideFits
<1> QED
  BY <1>3, <1>6, <1>7 DEF Onward

LEMMA Numbers ==
  ASSUME TypeInv
  PROVE  /\ ids \in Nat /\ ids + 1 \in Nat /\ ids <= ids /\ ids <= ids + 1 /\ Len(rows) \in Nat
         /\ Len(rows) <= Len(rows) /\ target \in Tokens \cup {None} /\ disturbed \in BOOLEAN
         /\ phone.regs \in Seq(Reg) /\ phone.generation \in Nat
BY DEF TypeInv, Typed, WorldTyped, PhoneTyped, Coordinator

LEMMA AloneSettles ==
  ASSUME TypeInv, Aside' = Aside, NEW n, NEW k, k = Len(rows), ids' = n, n = ids \/ n = ids + 1,
         target' = target \/ target' \in Tokens \cup {None},
         disturbed' = disturbed \/ disturbed' = TRUE, Count(1) \/ Lose \/ UNCHANGED events,
         \E p, N : (Well(p, n, k, 0, N) \/ Well(p, n, k, 1, N)) /\ Settle(p)
  PROVE  TypeInv' /\ Onward
<1> PICK p, N : (Well(p, n, k, 0, N) \/ Well(p, n, k, 1, N)) /\ Settle(p)
  OBVIOUS
<1> PICK d \in {0, 1} : Well(p, n, k, d, N)
  OBVIOUS
<1>1. target' \in Tokens \cup {None} /\ disturbed' \in BOOLEAN /\ n \in {ids, ids + 1}
  BY Numbers
<1>2. Sent(p, writes, page) /\ Well(p, n, Len(rows), d, N)
  BY DEF Settle
<1> QED
  BY <1>1, <1>2, Alone


LEMMA HeadTaken ==
  ASSUME TypeInv, phone.queue # <<>>
  PROVE  Taken = Operation /\ Takes(1, Operation.kind)
BY Heads DEF Taken, Takes, Is

LEMMA NoMore ==
  ASSUME NEW rq
  PROVE  MoreFits({}, {}, rq)
BY DEF MoreFits
---------------------------------------------------------------------------
(* The actions of the coordinator, one by one.                             *)
LEMMA ResolveTargetTyped ==
  ASSUME TypeInv, ResolveTarget
  PROVE  TypeInv' /\ Onward
<1> PICK k : k = Len(rows)
  OBVIOUS
<1> PICK r : r = phone.regs[1]
  OBVIOUS
<1>1. /\ phone.regs # <<>> /\ ~r.busy /\ r = Head(phone.regs) /\ r \in Reg
  BY SeqTail, Numbers DEF ResolveTarget
<1>2. Free(0)
  BY <1>1 DEF Free, TypeInv, BusyInv, Q
<1>3. Here(phone, ids, k, 0) /\ RegsWell(phone, 0) /\ Coordinator(phone, ids, k) /\ k \in Nat /\ ids \in Nat
  BY HereStarts, Numbers
<1> PICK p : p = NextRegistration(phone)
  OBVIOUS
<1>4. Well(p, ids, k, 0, {})
  BY <1>1, <1>2, <1>3, HereNext, HereWell
<1> PICK c : c = [id |-> 0, epoch |-> r.epoch, user |-> phone.auth.user,
                  generation |-> r.generation, token |-> target, rotate |-> FALSE,
                  installation |-> 0]
  OBVIOUS
<1> PICK key : key = Key("provider", r.epoch)
  OBVIOUS
<1> PICK e : e = ClearRetry(phone, key)
  OBVIOUS
<1> PICK b : b = [e EXCEPT !.regs[1].busy = TRUE]
  OBVIOUS
<1> PICK o : o = [kind |-> "create", context |-> c]
  OBVIOUS
<1>5. ASSUME Matches(phone, c)
      PROVE  Well(Enqueue(b, o), ids, k, 0, {o})
  <2>1. o \in StoreOp(ids, k)
    <3>1. phone.auth.user \in Accounts
      BY <1>3, <1>5 DEF Matches, Coordinator, Auth
    <3>2. c \in Ctx(ids, k)
      BY <1>1, <1>3, <3>1, Numbers DEF Ctx, Reg
    <3> QED
      BY <3>2 DEF StoreOp, CreateOp
  <2>2. Grows(phone, e, {}, {}, ids, k)
    BY <1>3, Clears
  <2>3. Here(e, ids, k, 0) /\ Coordinator(e, ids, k) /\ e.regs = phone.regs
    BY <1>3, <2>2, HereGrows, NoMore
  <2> PICK g : g = [e.regs EXCEPT ![1].busy = TRUE]
    OBVIOUS
  <2>4. g \in Seq(Reg) /\ g # <<>> /\ g[1].busy
    <3>1. e.regs \in Seq(Reg) /\ e.regs # <<>>
      BY <1>1, <2>3, Numbers
    <3>2. 1 \in DOMAIN e.regs /\ e.regs[1] \in Reg
      BY <3>1, SeqTail
    <3>w. PICK w : w = [e.regs[1] EXCEPT !.busy = TRUE]
      OBVIOUS
    <3>3. w \in Reg /\ w.busy
      BY <3>2, <3>w DEF Reg
    <3>4. g = [e.regs EXCEPT ![1] = w]
      BY <3>w
    <3> QED
      BY ONLY <3>1, <3>2, <3>3, <3>4
  <2>5. b = [e EXCEPT !.regs = g]
    OBVIOUS
  <2>6. Coordinator(b, ids, k) /\ Others(e, b, {"regs"}) /\ b.regs = g
    BY <2>3, <2>4, <2>5 DEF Coordinator, Others, Fields
  <2>7. Here(b, ids, k, 0)
    <3>1. SendsFit(e) /\ "out" \notin {"regs"} /\ "timers" \notin {"regs"} /\ "request" \notin {"regs"}
      BY <2>3 DEF Here
    <3>2. SendsFit(b)
      BY <2>6, <3>1, FitsStay
    <3> QED
      BY <2>3, <2>6, <3>2 DEF Here, Others, Fields
  <2>8. RegsWell(b, 0)
    BY <1>2 DEF RegsWell
  <2>9. o.kind = "create" /\ o.kind \notin Follows /\ o.kind # "resultLoad"
    BY DEF Follows
  <2>10. Free(0) /\ b.regs # <<>> /\ b.regs[1].busy
    BY <1>2, <2>4, <2>6
  <2>11. 0 \in {0, 1}
    OBVIOUS
  <2>12. OpFits(o, 0)
    BY DEF OpFits
  <2> QED
    BY <2>1, <2>7, <2>8, <2>9, <2>10, <2>11, <2>12, HereEnqueues
<1>6. \E q, N : (Well(q, ids, k, 0, N) \/ Well(q, ids, k, 1, N)) /\ Settle(q)
  <2>1. \/ Settle(p)
        \/ Matches(phone, c) /\ Settle(Enqueue(b, o))
    BY <1>1 DEF ResolveTarget
  <2> QED
    BY <1>4, <1>5, <2>1
<1>7. Aside' = Aside /\ ids' = ids /\ target' = target /\ disturbed' = disturbed /\ events' = events
  BY DEF ResolveTarget, Aside
<1> QED
  BY <1>6, <1>7, AloneSettles

LEMMA ProviderFailsTyped ==
  ASSUME TypeInv, ProviderFails
  PROVE  TypeInv' /\ Onward
<1> PICK k : k = Len(rows)
  OBVIOUS
<1> PICK r : r = phone.regs[1]
  OBVIOUS
<1>1. /\ phone.regs # <<>> /\ ~r.busy /\ r = Head(phone.regs) /\ r \in Reg
  BY SeqTail, Numbers DEF ProviderFails
<1>2. Free(0)
  BY <1>1 DEF Free, TypeInv, BusyInv, Q
<1>3. Here(phone, ids, k, 0) /\ RegsWell(phone, 0) /\ Coordinator(phone, ids, k) /\ k \in Nat /\ ids \in Nat
  BY HereStarts, Numbers
<1> PICK p : p = NextRegistration(phone)
  OBVIOUS
<1>4. Well(p, ids, k, 0, {}) /\ Coordinator(p, ids, k)
  BY <1>1, <1>2, <1>3, HereNext, HereWell
<1> PICK s : s = ScheduleRetry(p, Key("provider", r.epoch), [epoch |-> r.epoch])
  OBVIOUS
<1>5. [key |-> Key("provider", r.epoch), carried |-> [epoch |-> r.epoch]] \in Timer(ids, k)
  BY <1>1 DEF Timer, AgainTimer, Key, Reg
<1>6. Well(s, ids, k, 0, {})
  <2>1. Grows(p, s, {}, {[key |-> Key("provider", r.epoch), carried |-> [epoch |-> r.epoch]]}, ids, k)
    BY <1>4, <1>5, RetriesOne
  <2>2. MoreFits({}, {[key |-> Key("provider", r.epoch), carried |-> [epoch |-> r.epoch]]}, p.request)
    BY DEF MoreFits, TimerFits, Key
  <2> QED
    BY <1>4, <2>1, <2>2, WellGrows
<1>7. Settle(p) \/ Settle(s)
  BY <1>1 DEF ProviderFails
<1>8. Aside' = Aside /\ ids' = ids /\ target' = target /\ disturbed' = disturbed /\ Count(1)
  BY DEF ProviderFails, Aside
<1>9. \E q, N : (Well(q, ids, k, 0, N) \/ Well(q, ids, k, 1, N)) /\ Settle(q)
  BY <1>4, <1>6, <1>7
<1> QED
  BY <1>8, <1>9, AloneSettles

LEMMA LoadForStateTyped ==
  ASSUME TypeInv, LoadForState
  PROVE  TypeInv' /\ Onward
<1> PICK k : k = Len(rows)
  OBVIOUS
<1>0. phone.queue # <<>> /\ Operation.kind = "stateLoad"
  BY DEF LoadForState, At, Operation
<1> PICK oo : oo = Operation
  OBVIOUS
<1>1. oo \in StateOp(ids, k)
  BY <1>0, Heads, OpKinds
<1> PICK c : c = oo.context
  OBVIOUS
<1>2. c \in Asked(ids, k) /\ oo.answer.revision \in Nat
  BY <1>1 DEF StateOp, Ans
<1>3. ids \in Nat /\ ids + 1 \in Nat /\ k \in Nat /\ ids <= ids + 1 /\ k <= k /\ ids <= ids
  BY Numbers
<1> PICK N1 : N1 = ids + 1
  OBVIOUS
<1>4. Here(Rest, ids, k, 1) /\ RegsWell(Rest, 1) /\ Here(Rest, N1, k, 1)
  BY <1>0, <1>3, HereStarts
<1>5. Well(Rest, ids, k, 1, {})
  BY <1>4, HereWell
<1> PICK o : o = [kind |-> "rotate", context |-> c]
  OBVIOUS
<1>t. Taken = oo /\ Takes(1, "stateLoad")
  BY <1>0, HeadTaken
<1>6. store # None /\ oo.answer.outcome = "NOT_FOUND" => Well(Enqueue(Rest, o), ids, k, 1, {o})
  <2>1. o \in StoreOp(ids, k)
    BY <1>2 DEF StoreOp, RotateOp
  <2>2. oo.answer.outcome = "NOT_FOUND" => OpFits(o, 1)
    BY <1>t DEF OpFits
  <2> QED
    BY <1>4, <2>1, <2>2, HereEnqueues DEF Busy
<1> PICK s : s = [kind |-> "save", context |-> c, pending |-> Pending(c, oo.answer.revision)]
  OBVIOUS
<1>7. store # None => Well(Enqueue(Rest, s), N1, k, 1, {s})
  <2>1. Pending(c, oo.answer.revision) \in Pend(N1)
    BY <1>2, <1>3 DEF Pending, Pend, Asked, Ctx
  <2>2. c \in Asked(N1, k)
    BY <1>2, <1>3, Wider
  <2>3. s \in StoreOp(N1, k)
    BY <2>1, <2>2 DEF StoreOp, SaveOp
  <2>4. OpFits(s, 1)
    BY <1>t DEF OpFits, Pending
  <2> QED
    BY <1>4, <2>3, <2>4, HereEnqueues DEF Busy
<1>8. \/ Settle(Rest) /\ ids' = ids
      \/ /\ store # None /\ oo.answer.outcome = "NOT_FOUND" /\ Settle(Enqueue(Rest, o))
         /\ ids' = ids
      \/ store # None /\ Settle(Enqueue(Rest, s)) /\ ids' = N1
  BY DEF LoadForState
<1>9. Aside' = Aside /\ target' = target /\ disturbed' = disturbed /\ events' = events
  BY DEF LoadForState, Aside
<1> PICK n : /\ n = ids \/ n = ids + 1
             /\ ids' = n
             /\ \E q, N : (Well(q, n, k, 0, N) \/ Well(q, n, k, 1, N)) /\ Settle(q)
  BY <1>5, <1>6, <1>7, <1>8
<1> QED
  BY <1>9, AloneSettles

LEMMA ResumePendingTyped ==
  ASSUME TypeInv, ResumePending
  PROVE  TypeInv' /\ Onward
<1> PICK k : k = Len(rows)
  OBVIOUS
<1>0. phone.queue # <<>>
  BY DEF ResumePending, At
<1>1. Here(Rest, ids, k, 1) /\ RegsWell(Rest, 1) /\ Coordinator(Rest, ids, k)
  BY <1>0, HereStarts, Numbers
<1>2. Well(Rest, ids, k, 1, {})
  BY <1>1, HereWell
<1> PICK s : s = SendPendingRegistration(Rest, store.installation, store.pending)
  OBVIOUS
<1>3. ASSUME store # None, store.pending # None
      PROVE  Well(s, ids, k, 1, {})
  <2>1. store.installation \in 1 .. k /\ store.pending \in Pend(ids)
    BY <1>3 DEF TypeInv, Typed, StoreTyped
  <2> PICK m : m = [type |-> "DEVICE", epoch |-> store.pending.epoch, id |-> store.pending.operation,
                 body |-> [installation |-> store.installation, pending |-> store.pending]]
    OBVIOUS
  <2> PICK u : u = [key |-> Key("register", store.pending.operation), carried |-> store.pending]
    OBVIOUS
  <2>2. Grows(Rest, s, {m}, {u}, ids, k)
    BY <1>1, <2>1, RegistrationRequests
  <2>3. MoreFits({m}, {u}, Rest.request)
    BY <1>3 DEF MoreFits, MsgFits, TimerFits, Key, ResumePending
  <2> QED
    BY <1>2, <2>2, <2>3, WellGrows
<1>4. \/ Settle(Rest)
      \/ store # None /\ store.pending # None /\ Settle(s)
  <2> DEFINE ours == /\ store # None /\ store.pending # None
                     /\ store.pending.operation = Operation.operation
                     /\ Matches(phone, [epoch |-> store.pending.epoch, user |-> store.pending.user,
                                        generation |-> phone.generation])
  <2>1. Settle(IF ours THEN s ELSE Rest)
    BY Zenon DEF ResumePending
  <2>2. ours => store # None /\ store.pending # None
    OBVIOUS
  <2> HIDE DEF ours
  <2> QED
    BY <2>1, <2>2
<1>5. Aside' = Aside /\ ids' = ids /\ target' = target /\ disturbed' = disturbed /\ events' = events
  BY DEF ResumePending, Aside
<1>6. \E q, N : (Well(q, ids, k, 0, N) \/ Well(q, ids, k, 1, N)) /\ Settle(q)
  BY <1>2, <1>3, <1>4
<1> QED
  BY <1>5, <1>6, AloneSettles

LEMMA LoadForResultTyped ==
  ASSUME TypeInv, LoadForResult
  PROVE  TypeInv' /\ Onward
<1> PICK k : k = Len(rows)
  OBVIOUS
<1>0. phone.queue # <<>> /\ Operation.kind = "resultLoad"
  BY DEF LoadForResult, At, Operation
<1> PICK o : o = Operation
  OBVIOUS
<1>1. o \in ResultOp(ids, k)
  BY <1>0, Heads, OpKinds
<1>2. o.operation \in 0 .. ids /\ o.answer \in Ans(ids, k) /\ o.generation \in Nat
  BY <1>1 DEF ResultOp
<1>3. Here(Rest, ids, k, 1) /\ RegsWell(Rest, 1) /\ Coordinator(Rest, ids, k) /\ ids \in Nat
  BY <1>0, HereStarts, Numbers
<1>4. Well(Rest, ids, k, 1, {})
  BY <1>3, HereWell
<1> PICK pending : pending = store.pending
  OBVIOUS
<1> PICK key : key = Key("register", o.operation)
  OBVIOUS
<1> PICK e : e = ClearScheduledRetry(Rest, key)
  OBVIOUS
<1> PICK f : f = ClearRetry(Rest, key)
  OBVIOUS
<1>5. Grows(Rest, e, {}, {}, ids, k) /\ Grows(Rest, f, {}, {}, ids, k)
  BY <1>3, Clears
<1> PICK ack : ack = SendRegistrationAck(Rest, o.operation)
  OBVIOUS
<1>6. Well(ack, ids, k, 1, {})
  <2>1. o.operation \in Nat
    BY <1>2, <1>3
  <2> PICK m : m = [type |-> "ACK", epoch |-> 0, id |-> o.operation, body |-> None]
    OBVIOUS
  <2>2. Grows(Rest, ack, {m}, {}, ids, k)
    BY <1>3, <2>1, Acks_
  <2>3. MoreFits({m}, {}, Rest.request)
    BY DEF MoreFits, MsgFits
  <2> QED
    BY <1>4, <2>2, <2>3, WellGrows
<1>7. store # None /\ pending # None => pending \in Pend(ids)
  BY DEF TypeInv, Typed, StoreTyped
<1> PICK again : again = ScheduleRetry(e, key, pending)
  OBVIOUS
<1>8. ASSUME pending \in Pend(ids)
      PROVE  Well(again, ids, k, 1, {})
  <2>1. [key |-> key, carried |-> pending] \in Timer(ids, k)
    BY <1>2, <1>8 DEF Timer, RegisterTimer, Key
  <2>2. Grows(e, again, {}, {[key |-> key, carried |-> pending]}, ids, k)
    BY <1>5, <2>1, RetriesOne DEF Grows
  <2>3. MoreFits({}, {[key |-> key, carried |-> pending]}, e.request)
    BY DEF MoreFits, TimerFits, Key
  <2>4. Well(e, ids, k, 1, {})
    BY <1>4, <1>5, NoMore, WellGrows
  <2> QED
    BY <2>2, <2>3, <2>4, WellGrows
<1> PICK drop : drop = [kind |-> "drop", pending |-> pending]
  OBVIOUS
<1>9. ASSUME store # None, pending \in Pend(ids)
      PROVE  Well(Enqueue(f, drop), ids, k, 1, {drop})
  <2>1. drop \in StoreOp(ids, k)
    BY <1>9 DEF StoreOp, DropOp
  <2>2. Here(f, ids, k, 1) /\ RegsWell(f, 1)
    BY <1>3, <1>5, HereGrows, NoMore
  <2>3. OpFits(drop, 1)
    BY DEF OpFits
  <2> QED
    BY <1>9, <2>1, <2>2, <2>3, HereEnqueues DEF Busy
<1> PICK bind : bind = [kind |-> "bind", pending |-> pending, answer |-> o.answer,
                        generation |-> o.generation]
  OBVIOUS
<1>a. ASSUME store # None, pending # None, pending.operation = o.operation,
             o.answer.outcome \notin {"RETRY", "FAILED"}, Plausible(o.answer, pending)
      PROVE  OpFits(bind, 1)
  <2>1. Taken = o /\ Takes(1, "resultLoad")
    BY <1>0, HeadTaken
  <2>2. o.answer.outcome = "SUCCESS"
    BY <1>0, <1>a, Heads DEF TypeInv, ResultInv, Is
  <2> QED
    BY <1>a, <2>1, <2>2 DEF OpFits, Plausible
<1>10. ASSUME store # None, pending \in Pend(ids), OpFits(bind, 1)
       PROVE  Well(Enqueue(Rest, bind), ids, k, 1, {bind})
  <2>1. bind \in StoreOp(ids, k)
    BY <1>2, <1>10 DEF StoreOp, BindOp
  <2> QED
    BY <1>3, <1>10, <2>1, HereEnqueues DEF Busy
<1>11. \/ Settle(Rest) \/ Settle(ack)
       \/ /\ store # None /\ pending # None
          /\ \/ Settle(again) \/ Settle(Enqueue(f, drop))
             \/ OpFits(bind, 1) /\ Settle(Enqueue(Rest, bind))
  <2> DEFINE drops == o.answer.outcome = "FAILED"
             fits == Plausible(o.answer, pending)
             ours == ~(\/ pending.operation # o.operation \/ pending.epoch # o.epoch
                       \/ ~Matches(phone, Context(pending, o.generation)))
  <2>1. Settle(IF store = None THEN Rest
               ELSE IF DoneAlready(o) THEN ack
               ELSE IF pending = None THEN Rest
               ELSE IF ~ours THEN Rest
               ELSE IF o.answer.outcome = "RETRY" THEN again
               ELSE IF drops THEN Enqueue(f, drop)
               ELSE IF ~fits THEN Rest
               ELSE Enqueue(Rest, bind))
    BY Zenon DEF LoadForResult
  <2>2. ASSUME store # None, pending # None, ours, o.answer.outcome # "RETRY", ~drops, fits
        PROVE  OpFits(bind, 1)
    BY <1>a, <2>2
  <2> HIDE DEF drops, fits, ours
  <2> QED
    BY <2>1, <2>2
<1>12. Aside' = Aside /\ ids' = ids /\ target' = target /\ disturbed' = disturbed /\ events' = events
  BY DEF LoadForResult, Aside
<1>13. \E q, N : (Well(q, ids, k, 0, N) \/ Well(q, ids, k, 1, N)) /\ Settle(q)
  BY <1>4, <1>6, <1>7, <1>8, <1>9, <1>10, <1>11, Zenon
<1> QED
  BY <1>12, <1>13, AloneSettles

LEMMA RevokesSent ==
  ASSUME NEW rs, \A r \in rs : Revoking(r), NEW rq
  PROVE  MoreFits({RevokeMessage(r) : r \in rs}, {RevokeRetry(r) : r \in rs}, rq)
<1>1. ASSUME NEW r \in rs
      PROVE  MsgFits(RevokeMessage(r), rq) /\ TimerFits(RevokeRetry(r))
  BY DEF RevokeMessage, RevokeRetry, MsgFits, TimerFits
<1> QED
  BY <1>1 DEF MoreFits

LEMMA LoadForFlushTyped ==
  ASSUME TypeInv, LoadForFlush
  PROVE  TypeInv' /\ Onward
<1> PICK k : k = Len(rows)
  OBVIOUS
<1>0. phone.queue # <<>>
  BY DEF LoadForFlush, At
<1>1. Here(Rest, ids, k, 1) /\ RegsWell(Rest, 1) /\ Coordinator(Rest, ids, k) /\ ids \in Nat
  BY <1>0, HereStarts, Numbers
<1>2. Well(Rest, ids, k, 1, {})
  BY <1>1, HereWell
<1> PICK f : f = FlushPendingRevokes(Rest, store.revokes)
  OBVIOUS
<1>3. ASSUME store # None
      PROVE  Well(f, ids, k, 1, {})
  <2>1. store.revokes \in SUBSET Rev(ids, k) /\ IsFiniteSet(store.revokes)
    BY <1>3 DEF TypeInv, Typed, StoreTyped
  <2> PICK rs : rs = store.revokes
    OBVIOUS
  <2>2. Grows(Rest, f, {RevokeMessage(r) : r \in rs}, {RevokeRetry(r) : r \in rs}, ids, k)
    BY <1>1, <2>1, Flushes
  <2>3. \A r \in rs : Revoking(r)
    BY <1>3 DEF Revoking, LoadForFlush
  <2>4. MoreFits({RevokeMessage(r) : r \in rs}, {RevokeRetry(r) : r \in rs}, Rest.request)
    BY <2>3, RevokesSent
  <2> QED
    BY <1>2, <2>2, <2>4, WellGrows
<1>4. Settle(Rest) \/ (store # None /\ Settle(f))
  <2>1. CASE store = None
    BY <2>1 DEF LoadForFlush
  <2>2. CASE store # None
    BY <2>2 DEF LoadForFlush
  <2> QED
    BY <2>1, <2>2
<1>5. Aside' = Aside /\ ids' = ids /\ target' = target /\ disturbed' = disturbed /\ events' = events
  BY DEF LoadForFlush, Aside
<1>6. \E q, N : (Well(q, ids, k, 0, N) \/ Well(q, ids, k, 1, N)) /\ Settle(q)
  BY <1>2, <1>3, <1>4
<1> QED
  BY <1>5, <1>6, AloneSettles

LEMMA LoadForRevokeTyped ==
  ASSUME TypeInv, LoadForRevoke
  PROVE  TypeInv' /\ Onward
<1> PICK k : k = Len(rows)
  OBVIOUS
<1>0. phone.queue # <<>> /\ Operation.kind = "revokeLoad"
  BY DEF LoadForRevoke, At, Operation
<1> PICK o : o = Operation
  OBVIOUS
<1>1. o \in RevokeOp(ids, k)
  BY <1>0, Heads, OpKinds
<1>2. o.operation \in 0 .. ids /\ o.answer \in Ans(ids, k)
  BY <1>1 DEF RevokeOp
<1> PICK N1 : N1 = ids + 1
  OBVIOUS
<1>3. /\ Here(Rest, ids, k, 1) /\ RegsWell(Rest, 1) /\ Coordinator(Rest, ids, k) /\ ids \in Nat
      /\ Here(Rest, N1, k, 1) /\ Coordinator(Rest, N1, k) /\ N1 \in Nat /\ k \in Nat /\ ids <= N1
  BY <1>0, HereStarts, Numbers
<1>4. Well(Rest, ids, k, 1, {})
  BY <1>3, HereWell
<1> PICK key : key = Key("revoke", o.operation)
  OBVIOUS
<1> PICK e : e = ClearScheduledRetry(Rest, key)
  OBVIOUS
<1> PICK f : f = ClearRetry(Rest, key)
  OBVIOUS
<1>5. Grows(Rest, e, {}, {}, ids, k) /\ Grows(Rest, f, {}, {}, ids, k) /\ Grows(Rest, f, {}, {}, N1, k)
  BY <1>3, Clears
<1>6. Well(f, ids, k, 1, {})
  BY <1>4, <1>5, NoMore, WellGrows
<1> PICK revoke : revoke = CHOOSE r \in RevokesOf(o.operation) : TRUE
  OBVIOUS
<1>7. ASSUME RevokesOf(o.operation) # {}
      PROVE  /\ store # None /\ revoke \in Rev(ids, k) /\ revoke \in store.revokes
             /\ revoke.operation = o.operation
  <2>1. revoke \in RevokesOf(o.operation)
    BY <1>7
  <2> QED
    BY <2>1 DEF RevokesOf, TypeInv, Typed, StoreTyped
<1>t. Taken = o /\ Takes(1, "revokeLoad")
  BY <1>0, HeadTaken
<1> PICK done : done = [kind |-> "revokeDone", operation |-> o.operation]
  OBVIOUS
<1>8. ASSUME store # None, o.answer.outcome = "SUCCESS"
      PROVE  Well(Enqueue(Rest, done), ids, k, 1, {done})
  <2>1. done \in StoreOp(ids, k)
    BY <1>2 DEF StoreOp, DoneOp
  <2>2. OpFits(done, 1)
    BY <1>8, <1>t DEF OpFits
  <2> QED
    BY <1>3, <1>8, <2>1, <2>2, HereEnqueues DEF Busy
<1> PICK again : again = ScheduleRetry(e, key, revoke)
  OBVIOUS
<1>9. ASSUME revoke \in Rev(ids, k), store # None, revoke \in store.revokes
      PROVE  Well(again, ids, k, 1, {})
  <2>1. [key |-> key, carried |-> revoke] \in Timer(ids, k)
    BY <1>2, <1>9 DEF Timer, RevokeTimer, Key
  <2>2. Coordinator(e, ids, k) /\ again = ScheduleRetry(e, key, revoke)
    BY <1>5 DEF Grows
  <2>3. Grows(e, again, {}, {[key |-> key, carried |-> revoke]}, ids, k)
    BY ONLY <2>1, <2>2, RetriesOne
  <2>4. MoreFits({}, {[key |-> key, carried |-> revoke]}, e.request)
    BY <1>9 DEF MoreFits, TimerFits, Revoking, LoadForRevoke
  <2>5. Well(e, ids, k, 1, {})
    BY <1>4, <1>5, NoMore, WellGrows
  <2> QED
    BY <2>3, <2>4, <2>5, WellGrows
<1> PICK new : new = [revoke EXCEPT !.operation = N1]
  OBVIOUS
<1> PICK repl : repl = [kind |-> "revokeReplace", operation |-> o.operation, revoke |-> new]
  OBVIOUS
<1>10. ASSUME store # None, revoke \in Rev(ids, k), revoke \in store.revokes,
              revoke.operation = o.operation
       PROVE  Well(Enqueue(f, repl), N1, k, 1, {repl})
  <2>1. revoke \in Rev(N1, k)
    BY <1>3, <1>10, Wider
  <2>2. new \in Rev(N1, k)
    BY <1>3, <2>1 DEF Rev
  <2>3. repl \in StoreOp(N1, k)
    BY <1>2, <1>3, <2>2 DEF StoreOp, ReplaceOp
  <2>4. Here(f, N1, k, 1) /\ RegsWell(f, 1)
    BY <1>3, <1>5, HereGrows, NoMore
  <2>5. OpFits(repl, 1)
    <3>1. /\ repl.kind = "revokeReplace" /\ repl.operation = o.operation
          /\ repl.revoke = [revoke EXCEPT !.operation = ids + 1]
      OBVIOUS
    <3>2. \E r \in store.revokes : /\ r.operation = repl.operation
                                   /\ repl.revoke = [r EXCEPT !.operation = ids + 1]
      BY <1>10, <3>1
    <3> QED
      BY <1>10, <1>t, <3>1, <3>2 DEF OpFits
  <2> QED
    BY <1>10, <2>3, <2>4, <2>5, HereEnqueues DEF Busy
<1>11. \/ (Settle(Rest) \/ Settle(f)) /\ ids' = ids
       \/ /\ RevokesOf(o.operation) # {} /\ ids' = ids
          /\ \/ o.answer.outcome = "SUCCESS" /\ Settle(Enqueue(Rest, done))
             \/ Settle(again)
       \/ RevokesOf(o.operation) # {} /\ Settle(Enqueue(f, repl)) /\ ids' = N1
  BY DEF LoadForRevoke, Revoked
<1>12. Aside' = Aside /\ target' = target /\ disturbed' = disturbed /\ events' = events
  BY DEF LoadForRevoke, Aside
<1> PICK n : /\ n = ids \/ n = ids + 1
             /\ ids' = n
             /\ \E q, N : (Well(q, n, k, 0, N) \/ Well(q, n, k, 1, N)) /\ Settle(q)
  BY <1>4, <1>6, <1>7, <1>8, <1>9, <1>10, <1>11
<1> QED
  BY <1>12, AloneSettles

LEMMA FireTimerTyped ==
  ASSUME TypeInv, NEW t \in phone.timers, FireTimer(t)
  PROVE  TypeInv' /\ Onward
<1> PICK k : k = Len(rows)
  OBVIOUS
<1> PICK p : p = [phone EXCEPT !.timers = @ \ {t}]
  OBVIOUS
<1> PICK c : c = t.carried
  OBVIOUS
<1>1. Here(phone, ids, k, 0) /\ Coordinator(phone, ids, k) /\ ids \in Nat /\ k \in Nat
  BY HereStarts, Numbers
<1>2. Coordinator(p, ids, k) /\ Others(phone, p, {"timers"})
  BY <1>1 DEF Coordinator, Others, Fields
<1>3. Here(p, ids, k, 0) /\ RegsWell(p, 0)
  <2>1. p.out = {} /\ p.timers \subseteq phone.timers /\ p.request = phone.request
    BY <1>1, <1>2 DEF Others, Fields, Coordinator, TypeInv, Typed, PhoneTyped
  <2>2. SendsFit(p)
    BY <2>1, FitsFirst
  <2> QED
    BY <1>2, <2>2 DEF Here, Others, Fields, RegsWell, RegsKept
<1>4. Well(p, ids, k, 0, {})
  BY <1>3, HereWell
<1>5. t \in Timer(ids, k)
  BY <1>1 DEF Coordinator
<1>6. Aside' = Aside /\ ids' = ids /\ target' = target /\ disturbed' = disturbed /\ events' = events
  BY DEF FireTimer, Aside
<1>7. \E q, N : (Well(q, ids, k, 0, N) \/ Well(q, ids, k, 1, N)) /\ Settle(q)
  <2>1. CASE t.key.kind \in {"provider", "reconcile"}
    <3> PICK q : q = RequestRegistration(p, c.epoch)
      OBVIOUS
    <3>1. c.epoch \in Nat
      BY <1>5, <2>1, TimerKinds DEF AgainTimer
    <3>2. /\ Coordinator(q, ids, k) /\ Others(p, q, {"regs"})
          /\ q.regs = Append(p.regs, [epoch |-> c.epoch, generation |-> p.generation, busy |-> FALSE])
      BY <1>2, <3>1, RegsMore
    <3>3. [epoch |-> c.epoch, generation |-> p.generation, busy |-> FALSE] \in Reg
      BY <1>2, <3>1 DEF Reg, Coordinator
    <3>4. p.regs = phone.regs
      BY <1>2 DEF Others, Fields
    <3>5. Here(q, ids, k, 0)
      <4>1. SendsFit(q)
        BY <1>3, <3>2, FitsStay DEF Here
      <4> QED
        BY <1>3, <3>2, <4>1 DEF Here, Others, Fields
    <3>6. RegsWell(q, 0)
      BY <3>2, <3>3, <3>4 DEF RegsWell, RegsKept
    <3>7. Settle(q)
      BY <2>1 DEF FireTimer
    <3> QED
      BY <3>5, <3>6, <3>7, HereWell
  <2>2. CASE t.key.kind = "state"
    <3> PICK q : q = SendStateRequest(p, c)
      OBVIOUS
    <3>1. c \in Asked(ids, k)
      BY <1>5, <2>2, TimerKinds DEF StateTimer
    <3>2. Well(q, ids, k, 0, {})
      <4> PICK m : m = [type |-> "STATE", epoch |-> c.epoch, id |-> c.id, body |-> c.installation]
        OBVIOUS
      <4> PICK u : u = [key |-> Key("state", c.id), carried |-> c]
        OBVIOUS
      <4>1. Grows(p, q, {m}, {u}, ids, k)
        BY <1>1, <1>2, <3>1, StateRequests
      <4>2. CASE p.request = c
        <5>1. MoreFits({m}, {u}, p.request)
          BY <4>2 DEF MoreFits, MsgFits, TimerFits, Key
        <5> QED
          BY <1>4, <4>1, <5>1, WellGrows
      <4>3. CASE p.request # c
        BY <1>4, <4>3 DEF SendStateRequest
      <4> QED
        BY <4>2, <4>3
    <3>3. Settle(q)
      BY <2>2 DEF FireTimer
    <3> QED
      BY <3>2, <3>3
  <2>3. CASE t.key.kind = "register"
    <3> PICK o : o = [kind |-> "resume", operation |-> c.operation]
      OBVIOUS
    <3>1. c \in Pend(ids)
      BY <1>5, <2>3, TimerKinds DEF RegisterTimer
    <3>2. o \in StoreOp(ids, k)
      BY <3>1 DEF StoreOp, ResumeOp, Pend
    <3>3. Well(Enqueue(p, o), ids, k, 0, {o})
      <4>1. OpFits(o, 0)
        BY DEF OpFits
      <4> QED
        BY <1>3, <3>2, <4>1, HereEnqueues DEF Follows, Busy
    <3>4. Settle(Enqueue(p, o))
      BY <2>3 DEF FireTimer
    <3> QED
      BY <3>3, <3>4
  <2>4. CASE t.key.kind = "revoke"
    <3> PICK q : q = SendPendingRevoke(p, c)
      OBVIOUS
    <3>0. c \in Rev(ids, k)
      BY <1>5, <2>4, TimerKinds DEF RevokeTimer
    <3>1. {c} \in SUBSET Rev(ids, k) /\ IsFiniteSet({c})
      BY <3>0, FS_Singleton
    <3>2. Well(q, ids, k, 0, {})
      <4> PICK rs : rs = {c}
        OBVIOUS
      <4>1. Grows(p, q, {RevokeMessage(r) : r \in rs}, {RevokeRetry(r) : r \in rs}, ids, k)
        BY <1>1, <1>2, <3>1, Flushes DEF SendPendingRevoke
      <4>2. \A r \in rs : Revoking(r)
        BY <2>4 DEF Revoking, Revocations
      <4>3. MoreFits({RevokeMessage(r) : r \in rs}, {RevokeRetry(r) : r \in rs}, p.request)
        BY <4>2, RevokesSent
      <4> QED
        BY <1>4, <4>1, <4>3, WellGrows
    <3>3. Settle(q)
      BY <2>4 DEF FireTimer
    <3> QED
      BY <3>2, <3>3
  <2> QED
    BY <1>5, <2>1, <2>2, <2>3, <2>4, TimerKinds
<1> QED
  BY <1>6, <1>7, AloneSettles

LEMMA RefreshesTyped ==
  ASSUME TypeInv, Aside' = Aside, ids' = ids, Count(1), disturbed' = disturbed,
         target' = target \/ target' \in Tokens \cup {None}, Settle(RefreshRegistration(phone))
  PROVE  TypeInv' /\ Onward
<1> PICK k : k = Len(rows)
  OBVIOUS
<1> PICK q : q = RefreshRegistration(phone)
  OBVIOUS
<1>1. Here(phone, ids, k, 0) /\ Coordinator(phone, ids, k)
  BY HereStarts, Numbers
<1>2. Coordinator(q, ids, k) /\ Others(phone, q, {"regs"}) /\ RegsKept(phone, q)
  BY <1>1, Refreshes
<1>3. Here(q, ids, k, 0) /\ RegsWell(q, 0)
  <2>1. SendsFit(q)
    BY <1>1, <1>2, FitsStay DEF Here
  <2> QED
    BY <1>1, <1>2, <2>1 DEF Here, Others, Fields, RegsWell
<1>4. Well(q, ids, k, 0, {})
  BY <1>3, HereWell
<1>5. \E p, N : (Well(p, ids, k, 0, N) \/ Well(p, ids, k, 1, N)) /\ Settle(p)
  BY <1>4
<1> QED
  BY <1>5, AloneSettles

LEMMA StorageFailsTyped ==
  ASSUME TypeInv, StorageFails
  PROVE  TypeInv' /\ Onward
<1> PICK k : k = Len(rows)
  OBVIOUS
<1>0. phone.queue # <<>>
  BY DEF StorageFails
<1>1. Here(Rest, ids, k, 1) /\ RegsWell(Rest, 1) /\ Rest.regs = phone.regs
  BY <1>0, HereStarts, Numbers
<1>2. Well(Rest, ids, k, 1, {})
  BY <1>1, HereWell
<1> PICK q : q = NextRegistration(Rest)
  OBVIOUS
<1>3. ASSUME Operation.kind \in Busy
      PROVE  Well(q, ids, k, 1, {})
  <2>1. Free(1) /\ phone.regs # <<>>
    BY <1>0, <1>3, Heads, HeadBusy
  <2> QED
    BY <1>1, <2>1, HereNext, HereWell
<1>4. Settle(Rest) \/ (Operation.kind \in Busy /\ Settle(q))
  BY DEF StorageFails, Busy
<1>5. Aside' = Aside /\ ids' = ids /\ target' = target /\ disturbed' = TRUE /\ Count(1)
  BY DEF StorageFails, Aside
<1>6. \E p, N : (Well(p, ids, k, 0, N) \/ Well(p, ids, k, 1, N)) /\ Settle(p)
  BY <1>2, <1>3, <1>4
<1> QED
  BY <1>5, <1>6, AloneSettles

LEMMA DeliverTyped ==
  ASSUME TypeInv, Deliver
  PROVE  TypeInv' /\ Onward
<1> PICK k : k = Len(rows)
  OBVIOUS
<1> PICK w : w = Head(writes)
  OBVIOUS
<1> PICK m : m = w.message
  OBVIOUS
<1>0. writes # <<>> /\ w.served
  BY DEF Deliver
<1>1. w = writes[1] /\ 1 \in W /\ w \in Request(ids, k)
  BY <1>0, SeqTail DEF TypeInv, Typed, WritesTyped, W
<1>2. w.answer \in Ans(ids, k) /\ (m.type = "DEVICE" => w.answer.outcome \in {"SUCCESS", "FAILED", "RETRY"})
  BY <1>0, <1>1 DEF TypeInv, Typed, WritesTyped, Type
<1>3. /\ m \in Message(ids, k) /\ m \in Outgoing(ids, k) /\ m.type \in {"STATE", "DEVICE", "REVOKE"}
      /\ m.id \in 0 .. ids /\ m.epoch \in Nat
  BY <1>1 DEF Request, Message, Outgoing, StateMsg, DeviceMsg, RevokeMsg
<1>4. Here(phone, ids, k, 0) /\ RegsWell(phone, 0) /\ Coordinator(phone, ids, k) /\ ids \in Nat /\ k \in Nat
  BY HereStarts, Numbers
<1>5. Well(phone, ids, k, 0, {})
  BY <1>4, HereWell
<1> PICK a : a = AcceptStateResult(m, w.answer)
  OBVIOUS
<1>f. m = writes[1].message /\ 1 \in W /\ writes[1].served /\ m.type = Type(1)
  BY <1>0, <1>1 DEF Type
<1>6. m.type = "STATE" => \E N : Well(a, ids, k, 0, N)
  <2> SUFFICES ASSUME m.type = "STATE"
               PROVE  \E N : Well(a, ids, k, 0, N)
    OBVIOUS
  <2> PICK c : c = phone.request
    OBVIOUS
  <2> PICK key : key = Key("state", m.id)
    OBVIOUS
  <2> PICK e : e = ClearRetry(phone, key)
    OBVIOUS
  <2> PICK done : done = [e EXCEPT !.request = None]
    OBVIOUS
  <2> PICK f : f = ClearScheduledRetry(phone, key)
    OBVIOUS
  <2> PICK again : again = ScheduleRetry(f, key, c)
    OBVIOUS
  <2> PICK o : o = [kind |-> "stateLoad", context |-> c, answer |-> w.answer]
    OBVIOUS
  <2>1. a = phone \/ (c # None /\ c.id = m.id /\ (a = again \/ a = Enqueue(done, o)))
    <3> DEFINE other == c.id # m.id \/ c.epoch # m.epoch \/ ~Matches(phone, c)
               retry == w.answer.outcome = "RETRY"
    <3>1. a = IF c = None THEN phone ELSE IF other THEN phone ELSE IF retry THEN again
              ELSE Enqueue(done, o)
      BY Zenon DEF AcceptStateResult
    <3>2. ~other => c.id = m.id
      OBVIOUS
    <3> HIDE DEF other, retry
    <3> QED
      BY <3>1, <3>2
  <2>2. c # None => c \in Asked(ids, k)
    BY <1>4 DEF Coordinator
  <2>3. Grows(phone, e, {}, {}, ids, k) /\ Grows(phone, f, {}, {}, ids, k)
    BY <1>4, Clears
  <2>4. ASSUME c \in Asked(ids, k)
        PROVE  Well(again, ids, k, 0, {})
    <3>1. [key |-> key, carried |-> c] \in Timer(ids, k)
      BY <1>3, <2>4 DEF Timer, StateTimer, Key
    <3>2. Grows(f, again, {}, {[key |-> key, carried |-> c]}, ids, k)
      BY <2>3, <3>1, RetriesOne DEF Grows
    <3>3. MoreFits({}, {[key |-> key, carried |-> c]}, f.request)
      BY DEF MoreFits, TimerFits, Key
    <3>4. Well(f, ids, k, 0, {})
      BY <1>5, <2>3, NoMore, WellGrows
    <3> QED
      BY <3>2, <3>3, <3>4, WellGrows
  <2>5. ASSUME c \in Asked(ids, k), c # None, c.id = m.id
        PROVE  Well(Enqueue(done, o), ids, k, 0, {o})
    <3>1. o \in StoreOp(ids, k)
      BY <1>2, <2>5 DEF StoreOp, StateOp
    <3>2. Here(e, ids, k, 0) /\ RegsWell(e, 0) /\ Coordinator(e, ids, k)
      BY <1>4, <2>3, HereGrows, NoMore
    <3>3. Coordinator(done, ids, k) /\ Others(e, done, {"request"})
      BY <3>2 DEF Coordinator, Others, Fields
    <3>4. Here(done, ids, k, 0) /\ RegsWell(done, 0)
      <4>1. done.out = {} /\ done.timers \subseteq phone.timers /\ done.request = None
        <5>1. e.out \subseteq phone.out /\ e.timers \subseteq phone.timers
          BY <2>3 DEF Grows
        <5>2. done.out = e.out /\ done.timers = e.timers /\ done.request = None
          BY <3>2, <3>3 DEF Others, Fields, Coordinator
        <5> QED
          BY <5>1, <5>2 DEF TypeInv, Typed, PhoneTyped
      <4>2. SendsFit(done)
        BY <4>1, FitsFirst
      <4> QED
        BY <3>2, <3>3, <4>2 DEF Here, Others, Fields, RegsWell, RegsKept
    <3>5. OpFits(o, 0)
      BY <1>1, <1>f, <2>5 DEF OpFits, Answers
    <3> QED
      BY <3>1, <3>4, <3>5, HereEnqueues DEF Follows, Busy
  <2> QED
    BY <1>5, <2>1, <2>2, <2>4, <2>5
<1> PICK o : o = [kind |-> "resultLoad", operation |-> m.id, epoch |-> m.epoch,
                  answer |-> w.answer, generation |-> phone.generation]
  OBVIOUS
<1>7. m.type = "DEVICE" => Well(Enqueue(phone, o), ids, k, 0, {o})
  <2>1. o \in StoreOp(ids, k)
    BY <1>2, <1>3, Numbers DEF StoreOp, ResultOp
  <2>2. m.type = "DEVICE" => OpFits(o, 0)
    BY <1>1, <1>f DEF OpFits, Answers
  <2> QED
    BY <1>2, <1>4, <2>1, <2>2, HereEnqueues DEF Follows, Busy
<1> PICK r : r = [kind |-> "revokeLoad", operation |-> m.id, answer |-> w.answer]
  OBVIOUS
<1>8. m.type = "REVOKE" => Well(Enqueue(phone, r), ids, k, 0, {r})
  <2>1. r \in StoreOp(ids, k)
    BY <1>2, <1>3 DEF StoreOp, RevokeOp
  <2>2. m.type = "REVOKE" => OpFits(r, 0)
    BY <1>1, <1>f DEF OpFits, Answers
  <2> QED
    BY <1>4, <2>1, <2>2, HereEnqueues DEF Follows, Busy
<1>9. \E p, N : Well(p, ids, k, 0, N) /\ Sent(p, Tail(writes), page)
  <2>1. CASE m.type # "REVOKE" /\ w.epoch # page.epoch
    <3>1. Sent(phone, Tail(writes), page)
      BY <2>1 DEF Deliver
    <3> QED
      BY <1>5, <3>1
  <2>2. CASE m.type = "STATE" /\ w.epoch = page.epoch
    <3>1. Sent(a, Tail(writes), page)
      BY <2>2 DEF Deliver
    <3> QED
      BY <1>6, <2>2, <3>1
  <2>3. CASE m.type = "DEVICE" /\ w.epoch = page.epoch
    <3>1. Sent(Enqueue(phone, o), Tail(writes), page)
      BY <2>3 DEF Deliver
    <3> QED
      BY <1>7, <2>3, <3>1
  <2>4. CASE m.type = "REVOKE"
    <3>1. Sent(Enqueue(phone, r), Tail(writes), page)
      BY <2>4 DEF Deliver
    <3> QED
      BY <1>8, <2>4, <3>1
  <2> QED
    BY <1>3, <2>1, <2>2, <2>3, <2>4
<1>10. Aside' = Aside /\ ids' = ids /\ target' = target /\ disturbed' = disturbed /\ events' = events
  BY DEF Deliver, Aside
<1> PICK p, N : Well(p, ids, k, 0, N) /\ Sent(p, Tail(writes), page)
  BY <1>9
<1> PICK d : d = 0
  OBVIOUS
<1> PICK chain : chain = Tail(writes)
  OBVIOUS
<1>11. Well(p, ids, Len(rows), d, N) /\ Sent(p, chain, page) /\ d \in {0, 1}
  OBVIOUS
<1>12. chain = writes \/ (writes # <<>> /\ chain = Tail(writes))
  BY <1>0
<1> PICK n \in {ids, ids + 1} : n = ids
  OBVIOUS
<1>13. Well(p, n, Len(rows), d, N) /\ ids' = n
  BY <1>10, <1>11
<1>14. target' \in Tokens \cup {None} /\ disturbed' \in BOOLEAN
  BY <1>10, Numbers
<1> QED
  BY <1>10, <1>11, <1>12, <1>13, <1>14, Alone

---------------------------------------------------------------------------
(* The actions that change the record.                                     *)
Grown(n, k) ==
  /\ n = ids \/ n = ids + 1
  /\ ids' = n /\ Len(rows') = k
  /\ rows' = rows \/ rows' = Append(rows, NoRow)

Well1(p, n, k, N) ==
  /\ Turn(p, n, k, 1, N) /\ BusyWell(p, 1, N)
  /\ \A s : s # None => NewWell(N, s)
  /\ SendsFit(p) /\ AddsFit(N, 1)

LEMMA HereWell1 ==
  ASSUME TypeInv, NEW n, NEW k, NEW p, Here(p, n, k, 1), RegsWell(p, 1)
  PROVE  Well1(p, n, k, {})
<1> PICK d : d = 1
  OBVIOUS
<1>1. Well(p, n, k, d, {})
  BY HereWell
<1> QED
  BY <1>1 DEF Well, Well1, NewWell, AddsFit

LEMMA HereEnqueues1 ==
  ASSUME TypeInv, NEW n, NEW k, NEW p, Here(p, n, k, 1), RegsWell(p, 1),
         NEW o \in StoreOp(n, k), o.kind # "resultLoad",
         o.kind \in Busy => Free(1) /\ p.regs # <<>> /\ p.regs[1].busy, OpFits(o, 1)
  PROVE  Well1(Enqueue(p, o), n, k, {o})
<1>1. /\ Turn(Enqueue(p, o), n, k, 1, {o}) /\ Enqueue(p, o).regs = p.regs
      /\ Others(p, Enqueue(p, o), {"queue"})
  BY TurnEnqueues DEF Here
<1>2. SendsFit(p)
  BY DEF Here
<1>3. SendsFit(Enqueue(p, o))
  BY <1>1, <1>2, FitsStay
<1>4. AddsFit({o}, 1)
  BY DEF AddsFit
<1> QED
  BY <1>1, <1>3, <1>4 DEF Well1, BusyWell, NewWell, RegsWell, RegsKept

LEMMA WellGrows1 ==
  ASSUME NEW n, NEW k, NEW N, NEW p, Well1(p, n, k, N), NEW q, NEW M, NEW T,
         Grows(p, q, M, T, n, k), MoreFits(M, T, p.request)
  PROVE  Well1(q, n, k, N)
<1>1. SendsFit(q)
  BY FitsGrow DEF Well1
<1> QED
  BY <1>1, TurnGrows DEF Well1, BusyWell, RegsKept

LEMMA HereAsks ==
  ASSUME TypeInv, NEW n, NEW k \in Nat, n = ids + 1, NEW p, Here(p, n, k, 1), RegsWell(p, 1),
         p.out = {}, p.timers \subseteq phone.timers,
         NEW c \in Ctx(n, k), NEW rotate \in BOOLEAN, NEW i \in 1 .. k
  PROVE  Well1(AskState(p, c, rotate, i), n, k, {})
<1> PICK q : q = AskState(p, c, rotate, i)
  OBVIOUS
<1>1. ids \in Nat /\ n \in Nat /\ ids < n /\ Coordinator(p, n, k)
  BY Numbers DEF Here
<1> PICK rq : rq = q.request
  OBVIOUS
<1> PICK m : m = [type |-> "STATE", epoch |-> rq.epoch, id |-> rq.id, body |-> rq.installation]
  OBVIOUS
<1> PICK t : t = [key |-> Key("state", rq.id), carried |-> rq]
  OBVIOUS
<1>2. /\ Coordinator(q, n, k) /\ Others(p, q, {"request", "out", "timers", "attempts"})
      /\ rq.id = ids + 1 /\ q.out \subseteq p.out \cup {m} /\ q.timers \subseteq p.timers \cup {t}
  BY <1>1, AsksState
<1>5. SendsFit(q)
  <2>1. MsgFits(m, rq)
    BY DEF MsgFits
  <2>2. TimerFits(t)
    BY DEF TimerFits, Key
  <2>3. RequestFits(rq)
    BY <1>2 DEF RequestFits
  <2>4. \A s \in phone.timers : TimerFits(s)
    BY DEF TimerFits, Revoking, Revocations
  <2> QED
    BY <1>2, <2>1, <2>2, <2>3, <2>4 DEF SendsFit
<1>3. q.connected = p.connected /\ q.auth = p.auth /\ q.queue = p.queue /\ q.regs = p.regs
  BY <1>2 DEF Others, Fields
<1>4. Here(q, n, k, 1) /\ RegsWell(q, 1)
  BY <1>2, <1>3, <1>5 DEF Here, RegsWell, RegsKept
<1> QED
  BY <1>4, HereWell1

LEMMA Stored ==
  ASSUME TypeInv, NEW n, NEW k, Grown(n, k), StoreTyped', store' # None,
         UNCHANGED <<cookie, target, log, gone, events, issued, disturbed>>,
         known' \subseteq 1 .. n, ended' \subseteq Accounts, EndedInv',
         \E p, N : Well1(p, n, k, N) /\ Settle(p)
  PROVE  TypeInv' /\ Coming(1)
<1>0. ids \in Nat /\ Len(rows) \in Nat /\ rows \in Seq(Row(ids))
  BY Numbers DEF TypeInv, Typed, WorldTyped
<1>1. /\ n \in Nat /\ ids <= n /\ k \in Nat /\ Len(rows) <= k /\ rows' \in Seq(Row(n))
      /\ ids' = n /\ Len(rows') = k
  <2>1. n \in Nat /\ ids <= n /\ ids' = n
    BY <1>0 DEF Grown
  <2>2. rows \in Seq(Row(n))
    BY <1>0, <2>1, Wider, SeqWider
  <2>3. CASE rows' = rows
    BY <1>0, <2>1, <2>2, <2>3 DEF Grown
  <2>4. CASE rows' = Append(rows, NoRow)
    <3>1. NoRow \in Row(n)
      BY <2>1 DEF NoRow, Row
    <3> QED
      BY <1>0, <2>1, <2>2, <2>4, <3>1, SeqAppend DEF Grown
  <2> QED
    BY <2>3, <2>4 DEF Grown
<1>2. writes \in Seq(Request(n, k)) /\ ServedWell(writes, n, k)
  BY <1>1, ServedWells
<1> PICK p, N : /\ Settle(p) /\ Turn(p, n, k, 1, N) /\ BusyWell(p, 1, N) /\ NewWell(N, store')
                /\ SendsFit(p) /\ AddsFit(N, 1)
  BY DEF Well1
<1> PICK d : d = 1
  OBVIOUS
<1> PICK chain : chain = writes
  OBVIOUS
<1>3. /\ d \in {0, 1} /\ Turn(p, n, k, d, N) /\ BusyWell(p, d, N) /\ Sent(p, chain, page)
      /\ chain \in Seq(Request(n, k)) /\ ServedWell(chain, n, k) /\ cookie' = cookie
  BY <1>2 DEF Settle
<1>4. \A x \in N : /\ x.kind \in Follows => store' # None
                   /\ x.kind = "resultLoad" => x.answer.outcome \in {"SUCCESS", "FAILED", "RETRY"}
  BY DEF NewWell
<1>5. /\ PhoneTyped' /\ PageTyped' /\ WritesTyped' /\ AuthInv' /\ StoreThere' /\ ResultInv'
      /\ BusyInv'
  BY <1>1, <1>3, <1>4, Settles
<1>6. WorldTyped'
  <2>1. Issue(ids, Len(rows)) \subseteq Issue(n, k) /\ Logs(ids, Len(rows)) \subseteq Logs(n, k)
    BY <1>0, <1>1, Wider
  <2> QED
    BY <1>1, <2>1 DEF TypeInv, Typed, WorldTyped
<1>7. LogInv'
  BY DEF TypeInv, LogInv
<1>8. Coming(d)
  <2>1. Within(chain) /\ page \in PageType
    BY WithinWrites DEF TypeInv, Typed, PageTyped, PageType
  <2> QED
    BY <1>1, <1>3, <2>1, TurnComes
<1> QED
  BY <1>5, <1>6, <1>7, <1>8 DEF TypeInv, Typed

RecordType(n, k) ==
  [installation : 1 .. k, binding : Held(n) \cup {None}, pending : Pend(n) \cup {None},
   revokes : SUBSET Rev(n, k), ack : Acks \cup {None}]
RecordWell(s, n, k) == s \in RecordType(n, k) /\ IsFiniteSet(s.revokes)

LEMMA RecordWells ==
  ASSUME NEW n \in Nat, NEW k \in Nat, NEW s, RecordWell(s, n, k)
  PROVE  s \in Records /\ s # None
<1>1. Held(n) \subseteq Bindings
  BY DEF Held, Bindings
<1>2. Pend(n) \subseteq Registrations
  BY DEF Pend, Registrations
<1>3. Rev(n, k) \subseteq Revokes
  BY DEF Rev, Revokes
<1>4. s \in Records
  BY <1>1, <1>2, <1>3 DEF Records, RecordWell, RecordType
<1> QED
  BY <1>4, RecordAssumption

(* A new record is typed.                                                  *)
LEMMA RecordIs ==
  ASSUME NEW n \in Nat, NEW k \in Nat, n = ids', k = Len(rows'), RecordWell(store', n, k)
  PROVE  StoreTyped' /\ store' # None
<1>1. store' \in Records /\ store' # None
  BY RecordWells
<1> QED
  BY <1>1 DEF StoreTyped, RecordWell, RecordType

LEMMA RecordKept ==
  ASSUME TypeInv, store # None, NEW n \in Nat, NEW k \in Nat, ids <= n, Len(rows) <= k
  PROVE  RecordWell(store, n, k)
<1>1. store \in RecordType(ids, Len(rows))
  BY DEF TypeInv, Typed, StoreTyped, Records, RecordType
<1>2. RecordType(ids, Len(rows)) \subseteq RecordType(n, k)
  <2>1. ids \in Nat /\ Len(rows) \in Nat /\ n \in Nat /\ k \in Nat /\ ids <= n /\ Len(rows) <= k
    BY Numbers
  <2>2. /\ Held(ids) \subseteq Held(n) /\ Pend(ids) \subseteq Pend(n)
        /\ Rev(ids, Len(rows)) \subseteq Rev(n, k)
    BY ONLY <2>1, Wider
  <2>3. 1 .. Len(rows) \subseteq 1 .. k
    BY ONLY <2>1
  <2> QED
    BY <2>2, <2>3 DEF RecordType
<1> QED
  BY <1>1, <1>2 DEF RecordWell, TypeInv, Typed, StoreTyped

(* What the record and the server's rows become.                           *)
LEMMA WorldGrows ==
  ASSUME TypeInv, NEW n, NEW k, Grown(n, k), log' = log, issued' = issued
  PROVE  WorldFits
<1>0. ids \in Nat /\ ids <= ids' /\ rows \in Seq(Row(ids)) /\ NoRow.binding = 0
  BY Numbers DEF Grown, TypeInv, Typed, WorldTyped, NoRow
<1>1. CASE rows' = rows
  BY <1>0, <1>1 DEF WorldFits, RowsFit
<1>2. CASE rows' = Append(rows, NoRow)
  <2> PICK q : q = rows
    OBVIOUS
  <2> PICK z : z = Append(q, NoRow)
    OBVIOUS
  <2>1. NoRow \in Row(ids)
    BY <1>0 DEF NoRow, Row
  <2>2. /\ Len(z) = Len(q) + 1 /\ Len(q) \in Nat /\ DOMAIN q = 1 .. Len(q)
        /\ DOMAIN z = 1 .. (Len(q) + 1) /\ \A i \in 1 .. Len(q) : z[i] = q[i]
        /\ z[Len(q) + 1] = NoRow
    BY <1>0, <2>1, SeqAppend
  <2>3. \A i \in DOMAIN z : z[i].binding # 0 => i \in DOMAIN q /\ z[i].binding = q[i].binding
    BY <1>0, <2>2
  <2> QED
    BY <1>0, <1>2, <2>2, <2>3 DEF WorldFits, RowsFit
<1> QED
  BY <1>1, <1>2 DEF Grown

LEMMA RecordIsRecord ==
  ASSUME TypeInv, store # None
  PROVE  DOMAIN store = {"installation", "binding", "pending", "revokes", "ack"}
BY DEF TypeInv, Typed, StoreTyped, Records

LEMMA RegistrationSent ==
  ASSUME store' # None, NEW pending, pending = store'.pending, NEW i, NEW rq
  PROVE  MoreFits({[type |-> "DEVICE", epoch |-> pending.epoch, id |-> pending.operation,
                    body |-> [installation |-> i, pending |-> pending]]},
                  {[key |-> Key("register", pending.operation), carried |-> pending]}, rq)
<1> PICK m : m = [type |-> "DEVICE", epoch |-> pending.epoch, id |-> pending.operation,
                  body |-> [installation |-> i, pending |-> pending]]
  OBVIOUS
<1> PICK u : u = [key |-> Key("register", pending.operation), carried |-> pending]
  OBVIOUS
<1>1. MsgFits(m, rq) /\ TimerFits(u)
  BY DEF MsgFits, TimerFits, Key
<1> QED
  BY <1>1 DEF MoreFits

(* The record keeps all but what is said of its pending registration.      *)
LEMMA PendingOnly ==
  ASSUME TypeInv, store # None, store' # None, known' = known, NEW p,
         store' = [store EXCEPT !.pending = p] \/ store' = store,
         p = None \/ (Takes(1, "save") /\ p = Taken.pending)
  PROVE  StoreFits(1)
<1> PICK s : s = store'
  OBVIOUS
<1>1. /\ s.installation = store.installation /\ s.binding = store.binding /\ s.revokes = store.revokes
      /\ s.pending = store.pending \/ s.pending = p
  BY RecordIsRecord
<1>2. PendingFits(1)
  BY <1>1 DEF PendingFits
<1>3. BindingFits(1) /\ RevokesFit(1) /\ KnownFits(1)
  BY <1>1 DEF BindingFits, RevokesFit, KnownFits
<1>4. RevokesKept(1) /\ BindingKept(1)
  BY <1>1 DEF RevokesKept, BindingKept
<1> QED
  BY <1>2, <1>3, <1>4 DEF StoreFits
LEMMA EndedKept ==
  ASSUME TypeInv, NEW p, Settle(p), ended' = ended, store' # None,
         store # None => store'.binding \in {None, store.binding}
  PROVE  EndedInv'
<1>1. page' = page \/ page' = [page EXCEPT !.waiting = FALSE]
  BY DEF Settle, Sent
<1>2. page'.user = page.user
  BY <1>1 DEF TypeInv, Typed, PageTyped
<1> QED
  BY <1>2 DEF TypeInv, EndedInv

LEMMA Installs ==
  ASSUME TypeInv, WithInstallation
  PROVE  /\ store' = Installed /\ store' # None /\ Len(rows') \in Nat /\ Len(rows) <= Len(rows')
         /\ Installed.installation \in 1 .. Len(rows')
         /\ Installed.pending \in Pend(ids) \cup {None}
         /\ rows' = rows \/ rows' = Append(rows, NoRow)
         /\ RecordWell(Installed, ids, Len(rows'))
         /\ store # None => store' = store
<1>0. Len(rows) \in Nat /\ ids \in Nat
  BY Numbers
<1>1. CASE store # None
  <2>1. Installed = store /\ store' = store /\ rows' = rows
    BY <1>1 DEF WithInstallation, Installed
  <2>2. RecordWell(store, ids, Len(rows))
    BY <1>0, <1>1, RecordKept
  <2> QED
    BY <1>0, <1>1, <2>1, <2>2 DEF RecordWell, RecordType
<1>2. CASE store = None
  <2> PICK k : k = Len(rows) + 1
    OBVIOUS
  <2>1. Installed = Recorded(k) /\ store' = Recorded(k) /\ rows' = Append(rows, NoRow)
    BY <1>2 DEF WithInstallation, Installed
  <2>2. Len(rows') = k /\ k \in Nat
    <3>1. rows \in Seq(Row(ids)) /\ NoRow \in Row(ids)
      BY <1>0 DEF TypeInv, Typed, WorldTyped, NoRow, Row
    <3> QED
      BY <1>0, <2>1, <3>1, SeqAppend
  <2>3. RecordWell(Recorded(k), ids, k)
    BY <1>0, <2>2, FS_EmptySet DEF RecordWell, RecordType, Recorded
  <2>4. Recorded(k) # None
    BY <1>0, <2>2, <2>3, RecordWells
  <2> QED
    BY <1>0, <1>2, <2>1, <2>2, <2>3, <2>4 DEF RecordWell, RecordType
<1> QED
  BY <1>1, <1>2

LEMMA InstallFits ==
  ASSUME TypeInv, WithInstallation, known' = known
  PROVE  StoreFits(1)
<1>1. store' # None /\ (store # None => store' = store)
  BY Installs
<1>2. CASE store # None
  BY <1>1, <1>2 DEF StoreFits, PendingFits, BindingFits, RevokesFit, KnownFits, RevokesKept, BindingKept
<1>3. CASE store = None
  <2>1. store' = Recorded(Len(rows) + 1)
    BY <1>3 DEF WithInstallation, Installed
  <2>2. store'.pending = None /\ store'.binding = None /\ store'.revokes = {}
    BY <2>1 DEF Recorded
  <2> QED
    BY <1>3, <2>2 DEF StoreFits, PendingFits, BindingFits, RevokesFit, KnownFits
<1> QED
  BY <1>2, <1>3

LEMMA StartRegistrationTyped ==
  ASSUME TypeInv, StartRegistration
  PROVE  TypeInv' /\ Onward
<1>0. phone.queue # <<>> /\ Operation.kind = "create" /\ WithInstallation
  BY DEF StartRegistration, At, Operation
<1> PICK k : k = Len(rows')
  OBVIOUS
<1> PICK N1 : N1 = ids + 1
  OBVIOUS
<1> PICK s : s = Installed
  OBVIOUS
<1>1. /\ store' = s /\ store' # None /\ k \in Nat /\ Len(rows) <= k /\ s.installation \in 1 .. k
      /\ s.pending \in Pend(ids) \cup {None}
      /\ rows' = rows \/ rows' = Append(rows, NoRow)
      /\ RecordWell(s, ids, k) /\ (store # None => store' = store)
  BY <1>0, Installs
<1>2. ids \in Nat /\ N1 \in Nat /\ ids <= N1 /\ ids <= ids /\ Len(rows) \in Nat
  BY Numbers
<1> PICK o : o = Operation
  OBVIOUS
<1> PICK c : c = o.context
  OBVIOUS
<1>3. o \in CreateOp(ids, Len(rows)) /\ Free(1) /\ phone.regs # <<>> /\ phone.regs[1].busy
  BY <1>0, Heads, OpKinds, HeadBusy DEF Busy
<1>4. c \in Ctx(ids, k) /\ c \in Ctx(N1, k)
  BY <1>1, <1>2, <1>3 DEF CreateOp, Ctx
<1>5. /\ Here(Rest, ids, k, 1) /\ RegsWell(Rest, 1) /\ Rest.regs = phone.regs /\ Here(Rest, N1, k, 1)
      /\ Coordinator(Rest, ids, k) /\ Rest.out = {} /\ Rest.timers = phone.timers
  BY <1>0, <1>1, <1>2, HereStarts
<1> PICK rotate : rotate = (\/ s.binding # None \/ s.pending # None
                            \/ s.ack # None /\ s.ack.revision > 0)
  OBVIOUS
<1>6. rotate \in BOOLEAN
  OBVIOUS
<1> PICK a1 : a1 = NextRegistration(Rest)
  OBVIOUS
<1>7. /\ Well1(a1, ids, k, {}) /\ Here(a1, N1, k, 1) /\ RegsWell(a1, 1)
      /\ a1.out = {} /\ a1.timers = phone.timers
  <2>1. Here(a1, ids, k, 1) /\ RegsWell(a1, 1) /\ a1.out = {} /\ a1.timers = phone.timers
    BY <1>3, <1>5, HereNext
  <2>2. Here(a1, N1, k, 1)
    BY <1>3, <1>5, HereNext
  <2> QED
    BY <2>1, <2>2, HereWell1
<1> PICK g : g = SendPendingRegistration(Rest, s.installation, s.pending)
  OBVIOUS
<1> PICK a2 : a2 = NextRegistration(g)
  OBVIOUS
<1>8. s.pending # None => Well1(a2, ids, k, {})
  <2> SUFFICES ASSUME s.pending # None
               PROVE  Well1(a2, ids, k, {})
    OBVIOUS
  <2>1. s.pending \in Pend(ids)
    BY <1>1
  <2>2. Here(g, ids, k, 1) /\ g.regs = Rest.regs
    <3> PICK pending : pending = s.pending
      OBVIOUS
    <3> PICK M : M = {[type |-> "DEVICE", epoch |-> pending.epoch, id |-> pending.operation,
                       body |-> [installation |-> s.installation, pending |-> pending]]}
      OBVIOUS
    <3> PICK T : T = {[key |-> Key("register", pending.operation), carried |-> pending]}
      OBVIOUS
    <3>1. Grows(Rest, g, M, T, ids, k)
      BY <1>1, <1>5, <2>1, RegistrationRequests
    <3>2. MoreFits(M, T, Rest.request)
      BY <1>1, RegistrationSent
    <3> QED
      BY <1>5, <3>1, <3>2, HereGrows
  <2> QED
    BY <1>3, <1>5, <2>2, HereNext, HereWell1
<1> PICK clear : clear = [kind |-> "clear", context |-> c, rotate |-> rotate,
                          installation |-> s.installation]
  OBVIOUS
<1> PICK a3 : a3 = Enqueue(Rest, clear)
  OBVIOUS
<1>9. Well1(a3, ids, k, {clear})
  <2>1. clear \in StoreOp(ids, k)
    BY <1>1, <1>4, <1>6 DEF StoreOp, ClearOp
  <2>2. OpFits(clear, 1)
    BY DEF OpFits
  <2> QED
    BY <1>3, <1>5, <2>1, <2>2, HereEnqueues1
<1> PICK a4 : a4 = AskState(a1, c, rotate, s.installation)
  OBVIOUS
<1>10. Well1(a4, N1, k, {})
  BY <1>1, <1>4, <1>6, <1>7, HereAsks
<1>11. \/ Settle(a1) /\ ids' = ids
       \/ s.pending # None /\ Settle(a2) /\ ids' = ids
       \/ Settle(a3) /\ ids' = ids
       \/ Settle(a4) /\ ids' = N1
  <2> DEFINE lost == ~Matches(phone, c)
             same == s.pending # None /\ SameRegistration(s.pending, c)
  <2>0. rotate = (\/ Installed.binding # None \/ Installed.pending # None
                  \/ Installed.ack # None /\ Installed.ack.revision > 0)
    OBVIOUS
  <2>1. IF lost THEN Settle(a1) /\ UNCHANGED ids
        ELSE IF same THEN Settle(a2) /\ UNCHANGED ids
        ELSE IF s.pending # None THEN Settle(a3) /\ UNCHANGED ids
        ELSE Settle(a4) /\ ids' = N1
    BY Zenon DEF StartRegistration
  <2>2. same => s.pending # None
    OBVIOUS
  <2> HIDE DEF lost, same
  <2> QED
    BY <2>1, <2>2
<1> PICK n : /\ n = ids \/ n = N1
             /\ ids' = n
             /\ \E p, N : Well1(p, n, k, N) /\ Settle(p)
  BY <1>7, <1>8, <1>9, <1>10, <1>11
<1>12. Grown(n, k)
  BY <1>1 DEF Grown
<1>13. RecordWell(s, n, k)
  BY <1>1, <1>2, Wider DEF RecordWell, RecordType
<1>14. StoreTyped'
  BY <1>1, <1>2, <1>13, RecordIs
<1>15. EndedInv'
  <2> PICK p : Settle(p)
    OBVIOUS
  <2> QED
    BY <1>1, EndedKept DEF StartRegistration
<1>16. known' \subseteq 1 .. n /\ ended' \subseteq Accounts
  BY <1>2 DEF StartRegistration, TypeInv, Typed, WorldTyped
<1>17. TypeInv' /\ Coming(1)
  BY <1>1, <1>12, <1>14, <1>15, <1>16, Stored DEF StartRegistration
<1>18. WorldFits /\ StoreFits(1)
  BY <1>0, <1>12, WorldGrows, InstallFits DEF StartRegistration
<1> QED
  BY <1>17, <1>18 DEF Onward

LEMMA ClearPendingTyped ==
  ASSUME TypeInv, ClearPending
  PROVE  TypeInv' /\ Onward
<1>0. phone.queue # <<>> /\ Operation.kind = "clear"
  BY DEF ClearPending, At, Operation
<1> PICK k : k = Len(rows)
  OBVIOUS
<1> PICK n : n = ids + 1
  OBVIOUS
<1>1. ids \in Nat /\ n \in Nat /\ ids <= n /\ k \in Nat /\ k <= k
  BY Numbers
<1> PICK o : o = Operation
  OBVIOUS
<1>2. o \in ClearOp(ids, k) /\ Free(1) /\ phone.regs # <<>>
  BY <1>0, Heads, OpKinds, HeadBusy DEF Busy
<1>3. /\ o.context \in Ctx(ids, k) /\ o.context \in Ctx(n, k) /\ o.rotate \in BOOLEAN
      /\ o.installation \in 1 .. k
  BY <1>1, <1>2 DEF ClearOp, Ctx
<1>4. store # None
  BY <1>0, Heads DEF TypeInv, StoreThere, Follows
<1>5. /\ Here(Rest, n, k, 1) /\ RegsWell(Rest, 1) /\ Rest.regs = phone.regs
      /\ Rest.out = {} /\ Rest.timers = phone.timers
  BY <1>0, <1>1, HereStarts
<1> PICK a : a = NextRegistration(Rest)
  OBVIOUS
<1>6. Here(a, n, k, 1) /\ RegsWell(a, 1) /\ a.out = {} /\ a.timers = phone.timers
  BY <1>2, <1>5, HereNext
<1> PICK q : q = AskState(a, o.context, o.rotate, o.installation)
  OBVIOUS
<1>7. Well1(q, n, k, {}) /\ Settle(q)
  BY <1>1, <1>3, <1>6, HereAsks DEF ClearPending
<1>8. RecordWell(store', n, k) /\ store'.binding = store.binding
  <2>1. RecordWell(store, n, k) /\ store' = [store EXCEPT !.pending = None]
    BY <1>1, <1>4, RecordKept DEF ClearPending
  <2> QED
    BY <2>1 DEF RecordWell, RecordType
<1>9. StoreTyped' /\ store' # None
  BY <1>1, <1>8, RecordIs DEF ClearPending
<1>10. EndedInv'
  BY <1>7, <1>8, <1>9, EndedKept DEF ClearPending
<1>11. Grown(n, k)
  BY DEF ClearPending, Grown
<1>12. known' \subseteq 1 .. n /\ ended' \subseteq Accounts
  BY <1>1 DEF ClearPending, TypeInv, Typed, WorldTyped
<1>fit. WorldFits /\ StoreFits(1)
  <2>1. WorldFits
    BY <1>11, WorldGrows DEF ClearPending
  <2>2. store' = [store EXCEPT !.pending = None] /\ known' = known
    BY DEF ClearPending
  <2> QED
    BY <1>4, <1>9, <2>1, <2>2, PendingOnly
<1>done. TypeInv' /\ Coming(1)
  BY <1>7, <1>9, <1>10, <1>11, <1>12, Stored DEF ClearPending
<1> QED
  BY <1>fit, <1>done DEF Onward

LEMMA RotateInstallationTyped ==
  ASSUME TypeInv, RotateInstallation
  PROVE  TypeInv' /\ Onward
<1>0. phone.queue # <<>> /\ Operation.kind = "rotate"
  BY DEF RotateInstallation, At, Operation
<1> PICK k : k = Len(rows')
  OBVIOUS
<1> PICK n : n = ids + 1
  OBVIOUS
<1>1. ids \in Nat /\ n \in Nat /\ ids <= n /\ k = Len(rows) + 1 /\ k \in Nat /\ Len(rows) <= k
      /\ rows' = Append(rows, NoRow)
  <2>1. rows' = Append(rows, NoRow) /\ rows \in Seq(Row(ids)) /\ NoRow \in Row(ids)
    BY Numbers DEF RotateInstallation, TypeInv, Typed, WorldTyped, NoRow, Row
  <2> QED
    BY <2>1, Numbers, SeqAppend
<1> PICK o : o = Operation
  OBVIOUS
<1> PICK c : c = o.context
  OBVIOUS
<1>2. c \in Asked(ids, Len(rows))
  BY <1>0, Heads, OpKinds DEF RotateOp
<1>3. c \in Asked(n, k) /\ Pending(c, 0) \in Pend(n)
  <2>1. Asked(ids, Len(rows)) \subseteq Asked(n, k)
    BY <1>1, Numbers, Wider
  <2>2. c.epoch \in Nat /\ c.user \in Accounts /\ c.token \in Tokens \cup {None}
    BY <1>2 DEF Asked, Ctx
  <2>3. n \in 0 .. n /\ 0 \in Nat
    BY <1>1
  <2>4. Pending(c, 0) \in Pend(n)
    BY <2>2, <2>3 DEF Pending, Pend
  <2> QED
    BY <1>2, <2>1, <2>4
<1>4. store # None
  BY <1>0, Heads DEF TypeInv, StoreThere, Follows
<1>5. Here(Rest, n, k, 1) /\ RegsWell(Rest, 1) /\ Rest.regs = phone.regs
  BY <1>0, <1>1, HereStarts
<1> PICK s : s = [kind |-> "save", context |-> c, pending |-> Pending(c, 0)]
  OBVIOUS
<1> PICK q : q = Enqueue(Rest, s)
  OBVIOUS
<1>7. Well1(q, n, k, {s}) /\ Settle(q)
  <2>1. s \in StoreOp(n, k)
    BY <1>3 DEF StoreOp, SaveOp
  <2>2. s.pending.operation = ids + 1 /\ s.kind = "save"
    BY DEF Pending
  <2>3. Takes(1, "rotate")
    BY <1>0, HeadTaken
  <2>4. OpFits(s, 1)
    BY <2>2, <2>3 DEF OpFits
  <2> QED
    BY <1>5, <2>1, <2>4, HereEnqueues1 DEF Busy, RotateInstallation
<1>8. RecordWell(store', n, k) /\ store'.binding = None
  <2>1. RecordWell(store, n, k) /\ store' = [store EXCEPT !.installation = k, !.binding = None,
                            !.pending = None]
    BY <1>1, <1>4, RecordKept DEF RotateInstallation
  <2>2. k \in 1 .. k
    BY <1>1, Numbers
  <2> QED
    BY <2>1, <2>2 DEF RecordWell, RecordType
<1>9. StoreTyped' /\ store' # None
  BY <1>1, <1>8, RecordIs DEF RotateInstallation
<1>10. EndedInv'
  BY <1>7, <1>8, <1>9, EndedKept DEF RotateInstallation
<1>11. Grown(n, k)
  BY <1>1 DEF RotateInstallation, Grown
<1>12. known' \subseteq 1 .. n /\ ended' \subseteq Accounts
  BY <1>1 DEF RotateInstallation, TypeInv, Typed, WorldTyped
<1>fit. WorldFits /\ StoreFits(1)
  <2>1. WorldFits
    BY <1>11, WorldGrows DEF RotateInstallation
  <2>2. Takes(1, "rotate") /\ Taken.context = c
    BY <1>0, HeadTaken
  <2> PICK z : z = store'
    OBVIOUS
  <2>3. z.binding = None /\ z.pending = None /\ z.revokes = store.revokes
    BY <1>4, RecordIsRecord DEF RotateInstallation
  <2>4. known' = IF c.installation = store.installation \/ store.binding = None THEN known
                 ELSE known \ {store.binding.id}
    BY DEF RotateInstallation
  <2>5. KnownFits(1)
    BY <2>4 DEF KnownFits
  <2>6. BindingKept(1)
    BY <2>2, <2>4 DEF BindingKept, Rotates
  <2>7. PendingFits(1) /\ BindingFits(1) /\ RevokesFit(1) /\ RevokesKept(1)
    BY <1>4, <2>3 DEF PendingFits, BindingFits, RevokesFit, RevokesKept
  <2> QED
    BY <1>9, <2>1, <2>5, <2>6, <2>7 DEF StoreFits
<1>done. TypeInv' /\ Coming(1)
  BY <1>7, <1>9, <1>10, <1>11, <1>12, Stored DEF RotateInstallation
<1> QED
  BY <1>fit, <1>done DEF Onward

LEMMA SavePendingTyped ==
  ASSUME TypeInv, SavePending
  PROVE  TypeInv' /\ Onward
<1>0. phone.queue # <<>> /\ Operation.kind = "save"
  BY DEF SavePending, At, Operation
<1> PICK k : k = Len(rows)
  OBVIOUS
<1> PICK n : n = ids
  OBVIOUS
<1>1. n \in Nat /\ ids <= n /\ k \in Nat /\ Len(rows) <= k
  BY Numbers
<1> PICK pending : pending = Operation.pending
  OBVIOUS
<1>2. pending \in Pend(n)
  BY <1>0, Heads, OpKinds DEF SaveOp
<1>4. store # None
  BY <1>0, Heads DEF TypeInv, StoreThere, Follows
<1>5. Here(Rest, n, k, 1) /\ RegsWell(Rest, 1) /\ Rest.regs = phone.regs /\ Coordinator(Rest, n, k)
  BY <1>0, <1>1, HereStarts
<1>6. Well1(Rest, n, k, {})
  BY <1>5, HereWell1
<1>7. RecordWell(store, n, k) /\ store.installation \in 1 .. k
  BY <1>1, <1>4, RecordKept DEF RecordWell, RecordType
<1> PICK g : g = SendPendingRegistration(Rest, store.installation, pending)
  OBVIOUS
<1>s. store' = [store EXCEPT !.pending = pending] /\ store'.pending = pending
  BY <1>4, RecordIsRecord DEF SavePending
<1>n. store' # None
  <2>1. RecordWell(store', n, k)
    BY <1>2, <1>7, <1>s DEF RecordWell, RecordType
  <2> QED
    BY <1>1, <2>1, RecordWells
<1>8. Well1(g, n, k, {})
  <2> PICK M : M = {[type |-> "DEVICE", epoch |-> pending.epoch, id |-> pending.operation,
                     body |-> [installation |-> store.installation, pending |-> pending]]}
    OBVIOUS
  <2> PICK T : T = {[key |-> Key("register", pending.operation), carried |-> pending]}
    OBVIOUS
  <2>1. Grows(Rest, g, M, T, n, k)
    BY <1>2, <1>5, <1>7, RegistrationRequests
  <2>2. MoreFits(M, T, Rest.request)
    BY <1>s, <1>n, RegistrationSent
  <2> QED
    BY <1>6, <2>1, <2>2, WellGrows1
<1>9. \E p : Well1(p, n, k, {}) /\ Settle(p)
  <2>1. CASE Matches(phone, Operation.context)
    BY <1>8, <2>1 DEF SavePending
  <2>2. CASE ~Matches(phone, Operation.context)
    BY <1>6, <2>2 DEF SavePending
  <2> QED
    BY <2>1, <2>2
<1>10. RecordWell(store', n, k) /\ store'.binding = store.binding
  <2>1. store' = [store EXCEPT !.pending = pending]
    BY DEF SavePending
  <2> QED
    BY <1>2, <1>7, <2>1 DEF RecordWell, RecordType
<1>11. StoreTyped' /\ store' # None
  BY <1>1, <1>10, RecordIs DEF SavePending
<1>12. EndedInv'
  BY <1>9, <1>10, <1>11, EndedKept DEF SavePending
<1>13. Grown(n, k)
  BY DEF SavePending, Grown
<1>14. known' \subseteq 1 .. n /\ ended' \subseteq Accounts
  BY <1>1 DEF SavePending, TypeInv, Typed, WorldTyped
<1>fit. WorldFits /\ StoreFits(1)
  <2>1. WorldFits
    BY <1>13, WorldGrows DEF SavePending
  <2>2. Takes(1, "save") /\ pending = Taken.pending
    BY <1>0, HeadTaken
  <2>3. known' = known
    BY DEF SavePending
  <2> QED
    BY <1>4, <1>11, <1>s, <2>1, <2>2, <2>3, PendingOnly
<1>done. TypeInv' /\ Coming(1)
  BY <1>9, <1>11, <1>12, <1>13, <1>14, Stored DEF SavePending
<1> QED
  BY <1>fit, <1>done DEF Onward

LEMMA DropPendingTyped ==
  ASSUME TypeInv, DropPending
  PROVE  TypeInv' /\ Onward
<1>0. phone.queue # <<>> /\ Operation.kind = "drop"
  BY DEF DropPending, At, Operation
<1> PICK k : k = Len(rows)
  OBVIOUS
<1> PICK n : n = ids
  OBVIOUS
<1>1. n \in Nat /\ ids <= n /\ k \in Nat /\ Len(rows) <= k
  BY Numbers
<1> PICK pending : pending = Operation.pending
  OBVIOUS
<1>2. pending \in Pend(n)
  BY <1>0, Heads, OpKinds DEF DropOp
<1>4. store # None
  BY <1>0, Heads DEF TypeInv, StoreThere, Follows
<1>5. Here(Rest, n, k, 1) /\ RegsWell(Rest, 1) /\ Rest.regs = phone.regs /\ Coordinator(Rest, n, k)
  BY <1>0, <1>1, HereStarts
<1>6. Well1(Rest, n, k, {})
  BY <1>5, HereWell1
<1> PICK key : key = Key("reconcile", pending.operation)
  OBVIOUS
<1> PICK carried : carried = [epoch |-> pending.epoch]
  OBVIOUS
<1> PICK g : g = ScheduleRetry(Rest, key, carried)
  OBVIOUS
<1>8. Well1(g, n, k, {}) /\ Settle(g)
  <2>1. [key |-> key, carried |-> carried] \in Timer(n, k)
    BY <1>2, <1>1 DEF Timer, AgainTimer, Key, Pend
  <2>2. Grows(Rest, g, {}, {[key |-> key, carried |-> carried]}, n, k)
    BY <1>5, <2>1, RetriesOne
  <2>3. MoreFits({}, {[key |-> key, carried |-> carried]}, Rest.request)
    BY DEF MoreFits, TimerFits, Key
  <2> QED
    BY <1>6, <2>2, <2>3, WellGrows1 DEF DropPending
<1>10. RecordWell(store', n, k) /\ store'.binding = store.binding
  <2>1. store' = store \/ store' = [store EXCEPT !.pending = None]
    BY DEF DropPending
  <2>2. RecordWell(store, n, k)
    BY <1>1, <1>4, RecordKept
  <2> QED
    BY <2>1, <2>2 DEF RecordWell, RecordType
<1>11. StoreTyped' /\ store' # None
  BY <1>1, <1>10, RecordIs DEF DropPending
<1>12. EndedInv'
  BY <1>8, <1>10, <1>11, EndedKept DEF DropPending
<1>13. Grown(n, k)
  BY DEF DropPending, Grown
<1>14. known' \subseteq 1 .. n /\ ended' \subseteq Accounts
  BY <1>1 DEF DropPending, TypeInv, Typed, WorldTyped
<1>fit. WorldFits /\ StoreFits(1)
  <2>1. WorldFits
    BY <1>13, WorldGrows DEF DropPending
  <2>2. store' = [store EXCEPT !.pending = None] \/ store' = store
    BY DEF DropPending
  <2>3. known' = known
    BY DEF DropPending
  <2> QED
    BY <1>4, <1>11, <2>1, <2>2, <2>3, PendingOnly
<1>done. TypeInv' /\ Coming(1)
  BY <1>8, <1>11, <1>12, <1>13, <1>14, Stored DEF DropPending
<1> QED
  BY <1>fit, <1>done DEF Onward

LEMMA BindIs ==
  ASSUME TypeInv, Bind, NEW o, o = Operation, store' # None
  PROVE  /\ Takes(1, "bind") /\ Taken = o /\ store # None
         /\ ~StillPending(o) => store' = store /\ known' = known
         /\ StillPending(o) =>
              /\ store.pending # None /\ store.pending.operation = o.pending.operation
              /\ store'.pending = None /\ store'.installation = store.installation
              /\ store'.revokes = store.revokes
              /\ store'.binding = IF o.answer.binding = 0 THEN None ELSE Bound(o)
              /\ known' = IF o.answer.binding # 0 THEN known \cup {o.answer.binding} ELSE known
<1>0. phone.queue # <<>> /\ Operation.kind = "bind"
  BY DEF Bind, At, Operation
<1>1. store # None
  BY <1>0, Heads DEF TypeInv, StoreThere, Follows
<1>2. Takes(1, "bind") /\ Taken = o
  BY <1>0, HeadTaken
<1>3. ASSUME ~StillPending(o)
      PROVE  store' = store /\ known' = known
  BY <1>3 DEF Bind
<1>4. ASSUME StillPending(o)
      PROVE  /\ store'.pending = None /\ store'.installation = store.installation
             /\ store'.revokes = store.revokes
             /\ store'.binding = IF o.answer.binding = 0 THEN None ELSE Bound(o)
             /\ known' = IF o.answer.binding # 0 THEN known \cup {o.answer.binding} ELSE known
  <2> PICK b : b = IF o.answer.binding = 0 THEN None ELSE Bound(o)
    OBVIOUS
  <2> PICK ack : ack = [operation |-> o.pending.operation, installation |-> o.answer.installation,
                 user |-> o.pending.user, epoch |-> o.pending.epoch,
                 binding |-> o.answer.binding, revision |-> o.answer.revision]
    OBVIOUS
  <2>1. store' = [store EXCEPT !.binding = b, !.pending = None, !.ack = ack]
    BY <1>4 DEF Bind
  <2>2. known' = IF o.answer.binding # 0 THEN known \cup {o.answer.binding} ELSE known
    BY <1>4 DEF Bind
  <2> QED
    BY <1>1, <2>1, <2>2, RecordIsRecord
<1> QED
  BY <1>1, <1>2, <1>3, <1>4 DEF StillPending

LEMMA BindFits ==
  ASSUME TypeInv, Bind, store' # None
  PROVE  StoreFits(1)
<1> PICK o : o = Operation
  OBVIOUS
<1> PICK s : s = store'
  OBVIOUS
<1>0. Takes(1, "bind") /\ Taken = o /\ store # None
  BY BindIs
<1>1. CASE ~StillPending(o)
  <2>1. store' = store /\ known' = known
    BY <1>1, BindIs
  <2> QED
    BY <1>0, <2>1 DEF StoreFits, PendingFits, BindingFits, RevokesFit, KnownFits, RevokesKept,
                      BindingKept
<1>2. CASE StillPending(o)
  <2>1. /\ store.pending # None /\ store.pending.operation = o.pending.operation
        /\ store'.pending = None /\ store'.installation = store.installation
        /\ store'.revokes = store.revokes
        /\ store'.binding = IF o.answer.binding = 0 THEN None ELSE Bound(o)
        /\ known' = IF o.answer.binding # 0 THEN known \cup {o.answer.binding} ELSE known
    BY <1>2, BindIs
  <2>2. Binds(1)
    BY <1>0, <2>1 DEF Binds
  <2>3. PendingFits(1) /\ RevokesFit(1) /\ RevokesKept(1)
    BY <1>0, <2>1 DEF PendingFits, RevokesFit, RevokesKept
  <2>4. BindingFits(1)
    BY <1>0, <2>1, <2>2 DEF BindingFits
  <2>5. KnownFits(1) /\ BindingKept(1)
    BY <1>0, <2>1, <2>2 DEF KnownFits, BindingKept
  <2> QED
    BY <2>3, <2>4, <2>5 DEF StoreFits
<1> QED
  BY <1>1, <1>2

LEMMA BindTyped ==
  ASSUME TypeInv, Bind
  PROVE  TypeInv' /\ Onward
<1>0. phone.queue # <<>> /\ Operation.kind = "bind"
  BY DEF Bind, At, Operation
<1> PICK k : k = Len(rows)
  OBVIOUS
<1> PICK n : n = ids
  OBVIOUS
<1>1. n \in Nat /\ ids <= n /\ k \in Nat /\ Len(rows) <= k
  BY Numbers
<1> PICK o : o = Operation
  OBVIOUS
<1> PICK pending : pending = o.pending
  OBVIOUS
<1> PICK answer : answer = o.answer
  OBVIOUS
<1>2. pending \in Pend(n) /\ answer \in Ans(n, k) /\ o.generation \in Nat
  BY <1>0, Heads, OpKinds DEF BindOp
<1>4. store # None
  BY <1>0, Heads DEF TypeInv, StoreThere, Follows
<1>5. Here(Rest, n, k, 1) /\ RegsWell(Rest, 1) /\ Rest.regs = phone.regs /\ Coordinator(Rest, n, k)
  BY <1>0, <1>1, HereStarts
<1>6. Well1(Rest, n, k, {})
  BY <1>5, HereWell1
<1> PICK f : f = ClearRetry(Rest, Key("register", pending.operation))
  OBVIOUS
<1> PICK g : g = SendRegistrationAck(f, pending.operation)
  OBVIOUS
<1>8. Well1(g, n, k, {})
  <2>1. Grows(Rest, f, {}, {}, n, k)
    BY <1>5, Clears
  <2>2. Well1(f, n, k, {}) /\ Coordinator(f, n, k)
    BY <1>6, <2>1, NoMore, WellGrows1 DEF Grows
  <2>3. pending.operation \in Nat
    BY <1>1, <1>2 DEF Pend
  <2> PICK m : m = [type |-> "ACK", epoch |-> 0, id |-> pending.operation, body |-> None]
    OBVIOUS
  <2>4. Grows(f, g, {m}, {}, n, k)
    BY <1>1, <2>2, <2>3, Acks_
  <2>5. MoreFits({m}, {}, f.request)
    BY DEF MoreFits, MsgFits
  <2> QED
    BY <2>2, <2>4, <2>5, WellGrows1
<1> PICK stored : stored = StillPending(o)
  OBVIOUS
<1>9. \E p : Well1(p, n, k, {}) /\ Settle(p)
  <2>1. CASE Matches(phone, Context(pending, o.generation))
    BY <1>8, <2>1 DEF Bind
  <2>2. CASE ~Matches(phone, Context(pending, o.generation))
    BY <1>6, <2>2 DEF Bind
  <2> QED
    BY <2>1, <2>2
<1>10. RecordWell(store, n, k)
  BY <1>1, <1>4, RecordKept
<1>11. \/ store' = store /\ known' = known
       \/ /\ stored /\ store'.binding \in {None, Bound(o)} /\ RecordWell(store', n, k)
          /\ known' \subseteq known \cup (1 .. n)
  <2>1. CASE ~stored
    BY <2>1 DEF Bind
  <2>2. CASE stored
    <3> PICK b : b = IF answer.binding = 0 THEN None ELSE Bound(o)
      OBVIOUS
    <3> PICK ack : ack = [operation |-> pending.operation, installation |-> answer.installation,
                   user |-> pending.user, epoch |-> pending.epoch,
                   binding |-> answer.binding, revision |-> answer.revision]
      OBVIOUS
    <3>1. store' = [store EXCEPT !.binding = b, !.pending = None, !.ack = ack]
      BY <2>2 DEF Bind
    <3>2. /\ pending.operation \in 0 .. n /\ pending.user \in Accounts /\ pending.epoch \in Nat
          /\ pending.token \in Tokens \cup {None}
      BY <1>2 DEF Pend
    <3>3. answer.binding \in 0 .. n /\ answer.installation \in 1 .. k /\ answer.revision \in Nat
      BY <1>2 DEF Ans
    <3>a. ack \in Acks
      <4>1. pending.operation \in Nat /\ answer.installation \in Nat /\ answer.binding \in Nat
        BY <1>1, <3>2, <3>3
      <4> QED
        BY <3>2, <3>3, <4>1 DEF Acks
    <3>4. b \in Held(n) \cup {None} /\ b \in {None, Bound(o)}
      <4>1. answer.binding # 0 => Bound(o) \in Held(n)
        BY <1>1, <3>2, <3>3 DEF Bound, Held
      <4> QED
        BY <4>1
    <3>5. store'.binding = b /\ RecordWell(store', n, k)
      <4>1. store \in RecordType(n, k) /\ IsFiniteSet(store.revokes)
        BY <1>10 DEF RecordWell
      <4> PICK s : s = store'
        OBVIOUS
      <4>a. /\ DOMAIN s = DOMAIN store /\ s.binding = b /\ s.pending = None /\ s.ack = ack
            /\ s.installation = store.installation /\ s.revokes = store.revokes
        BY <3>1, <4>1 DEF RecordType
      <4>b. s = [installation |-> store.installation, binding |-> b, pending |-> None,
                 revokes |-> store.revokes, ack |-> ack]
        BY <3>1, <4>1 DEF RecordType
      <4>2. store' \in RecordType(n, k) /\ store'.binding = b /\ store'.revokes = store.revokes
        BY <3>a, <3>4, <4>1, <4>a, <4>b DEF RecordType
      <4> QED
        BY <4>1, <4>2 DEF RecordWell
    <3>6. known' \subseteq known \cup (1 .. n)
      BY <1>1, <2>2, <3>3 DEF Bind
    <3> QED
      BY <2>2, <3>4, <3>5, <3>6
  <2> QED
    BY <2>1, <2>2
<1>12. StoreTyped' /\ store' # None
  BY <1>1, <1>10, <1>11, RecordIs DEF Bind
<1>13. EndedInv'
  <2> PICK p : Settle(p)
    BY <1>9
  <2>1. page' = page \/ page' = [page EXCEPT !.waiting = FALSE]
    BY DEF Settle, Sent
  <2>2. page'.user = page.user
    BY <2>1 DEF TypeInv, Typed, PageTyped
  <2>3. ended' = ended
    BY DEF Bind
  <2>4. CASE store' = store
    BY <1>4, <2>2, <2>3, <2>4 DEF TypeInv, EndedInv
  <2>5. CASE stored /\ store'.binding \in {None, Bound(o)}
    <3>1. phone.auth # None /\ phone.auth.user = pending.user
      BY <2>5 DEF StillPending, Matches, Context
    <3>2. phone.auth = AuthPayload(page)
      BY <3>1 DEF TypeInv, AuthInv
    <3>3. page.user = pending.user
      BY <3>1, <3>2 DEF AuthPayload
    <3>4. Bound(o).user = pending.user
      BY DEF Bound
    <3> QED
      BY <1>12, <2>2, <2>3, <2>5, <3>3, <3>4 DEF TypeInv, EndedInv
  <2> QED
    BY <1>11, <2>4, <2>5
<1>14. Grown(n, k)
  BY DEF Bind, Grown
<1>15. known' \subseteq 1 .. n /\ ended' \subseteq Accounts
  <2>1. known \subseteq 1 .. n /\ ended' = ended
    BY DEF Bind, TypeInv, Typed, WorldTyped
  <2> QED
    BY <1>11, <2>1 DEF TypeInv, Typed, WorldTyped
<1>fit. WorldFits /\ StoreFits(1)
  <2>1. WorldFits
    BY <1>14, WorldGrows DEF Bind
  <2> QED
    BY <1>12, <2>1, BindFits
<1>done. TypeInv' /\ Coming(1)
  BY <1>9, <1>12, <1>13, <1>14, <1>15, Stored DEF Bind
<1> QED
  BY <1>fit, <1>done DEF Onward

LEMMA LoadForEndingTyped ==
  ASSUME TypeInv, LoadForEnding
  PROVE  TypeInv' /\ Onward
<1>0. phone.queue # <<>> /\ Operation.kind = "endCreate" /\ WithInstallation
  BY DEF LoadForEnding, At, Operation
<1> PICK k : k = Len(rows')
  OBVIOUS
<1> PICK n : n = ids
  OBVIOUS
<1> PICK s : s = Installed
  OBVIOUS
<1>1. /\ store' = s /\ store' # None /\ k \in Nat /\ Len(rows) <= k
      /\ rows' = rows \/ rows' = Append(rows, NoRow)
      /\ RecordWell(s, n, k) /\ (store # None => store' = store)
  BY <1>0, Installs
<1>2. n \in Nat /\ ids <= n /\ Len(rows) \in Nat
  BY Numbers
<1> PICK o : o = Operation
  OBVIOUS
<1> PICK e : e = [o EXCEPT !.kind = "ending"]
  OBVIOUS
<1>3. e \in StoreOp(n, k) /\ e.kind = "ending"
  <2>1. o \in EndOp
    BY <1>0, Heads, OpKinds
  <2>2. e \in EndOp /\ e.kind = "ending"
    BY <2>1 DEF EndOp
  <2> QED
    BY <2>2 DEF StoreOp
<1>4. Here(Rest, n, k, 1) /\ RegsWell(Rest, 1)
  BY <1>0, <1>1, <1>2, HereStarts
<1>5. Well1(Enqueue(Rest, e), n, k, {e}) /\ Settle(Enqueue(Rest, e))
  <2>1. OpFits(e, 1)
    BY <1>3 DEF OpFits
  <2> QED
    BY <1>3, <1>4, <2>1, HereEnqueues1 DEF Busy, LoadForEnding
<1>6. StoreTyped'
  BY <1>1, <1>2, RecordIs DEF LoadForEnding
<1>7. EndedInv'
  BY <1>1, <1>5, EndedKept DEF LoadForEnding
<1>8. Grown(n, k)
  BY <1>1 DEF Grown, LoadForEnding
<1>9. known' \subseteq 1 .. n /\ ended' \subseteq Accounts
  BY <1>2 DEF LoadForEnding, TypeInv, Typed, WorldTyped
<1>fit. WorldFits /\ StoreFits(1)
  BY <1>0, <1>8, WorldGrows, InstallFits DEF LoadForEnding
<1>done. TypeInv' /\ Coming(1)
  BY <1>1, <1>5, <1>6, <1>7, <1>8, <1>9, Stored DEF LoadForEnding
<1> QED
  BY <1>fit, <1>done DEF Onward

(* What an end leaves to be revoked.                                       *)
EndRevokes(o) ==
  IF OwnBinding(o) /\ ~AlreadyCaptured THEN store.revokes \cup {Letting} ELSE store.revokes
EndSaved(o) ==
  [store EXCEPT
     !.binding = IF OwnBinding(o) THEN None ELSE @, !.revokes = EndRevokes(o),
     !.ack = IF o.reason = "WITHDRAWAL" /\ @ # None /\ @.user = o.user THEN None ELSE @]

LEMMA EndRevokesTyped ==
  ASSUME TypeInv, store # None, NEW o, NEW n, n = IF EndRevokes(o) = store.revokes THEN ids ELSE ids + 1
  PROVE  /\ EndRevokes(o) \in SUBSET Rev(n, Len(rows)) /\ IsFiniteSet(EndRevokes(o))
         /\ n = ids \/ n = ids + 1
<1> PICK k : k = Len(rows)
  OBVIOUS
<1>1. ids \in Nat /\ k \in Nat /\ n \in Nat /\ ids <= n /\ (n = ids \/ n = ids + 1)
  BY Numbers
<1>2. RecordWell(store, n, k) /\ RecordWell(store, ids, k)
  BY <1>1, RecordKept
<1>3. CASE EndRevokes(o) = store.revokes
  BY <1>1, <1>2, <1>3 DEF RecordWell, RecordType
<1>4. CASE EndRevokes(o) # store.revokes
  <2>1. n = ids + 1 /\ OwnBinding(o) /\ EndRevokes(o) = store.revokes \cup {Letting}
    BY <1>4 DEF EndRevokes
  <2>2. store.binding \in Held(ids) /\ store.installation \in 1 .. k
    BY <1>2, <2>1 DEF OwnBinding, RecordWell, RecordType
  <2>3. n \in 0 .. n /\ store.binding.id \in 1 .. n /\ store.binding.revision \in Nat
    BY <1>1, <2>1, <2>2 DEF Held
  <2>4. Letting \in Rev(n, k)
    BY <2>1, <2>2, <2>3 DEF Letting, Rev
  <2>5. IsFiniteSet(EndRevokes(o))
    BY <1>2, <2>1, FS_AddElement DEF RecordWell
  <2>6. store.revokes \subseteq Rev(n, k)
    BY <1>2 DEF RecordWell, RecordType
  <2> QED
    BY <1>1, <2>1, <2>4, <2>5, <2>6
<1> QED
  BY <1>3, <1>4

LEMMA EndSavedTyped ==
  ASSUME TypeInv, store # None, NEW o, NEW n, n = IF EndRevokes(o) = store.revokes THEN ids ELSE ids + 1
  PROVE  /\ RecordWell(EndSaved(o), n, Len(rows))
         /\ EndSaved(o).binding = IF OwnBinding(o) THEN None ELSE store.binding
         /\ EndSaved(o).revokes = EndRevokes(o) /\ EndSaved(o).pending = store.pending
         /\ EndSaved(o).installation = store.installation
<1> PICK k : k = Len(rows)
  OBVIOUS
<1>1. EndRevokes(o) \in SUBSET Rev(n, k) /\ IsFiniteSet(EndRevokes(o)) /\ (n = ids \/ n = ids + 1)
  BY EndRevokesTyped
<1>2. RecordWell(store, n, k)
  BY <1>1, Numbers, RecordKept
<1> PICK rs : rs = EndRevokes(o)
  OBVIOUS
<1> PICK b : b = IF OwnBinding(o) THEN None ELSE store.binding
  OBVIOUS
<1> PICK a : a = IF o.reason = "WITHDRAWAL" /\ store.ack # None /\ store.ack.user = o.user
                 THEN None ELSE store.ack
  OBVIOUS
<1> PICK s : s = [store EXCEPT !.binding = b, !.revokes = rs, !.ack = a]
  OBVIOUS
<1>3. EndSaved(o) = s
  BY DEF EndSaved
<1>4. store \in RecordType(n, k)
  BY <1>2 DEF RecordWell
<1>5. b \in Held(n) \cup {None} /\ a \in Acks \cup {None}
  BY <1>4 DEF RecordType
<1>6. s = [installation |-> store.installation, binding |-> b, pending |-> store.pending,
           revokes |-> rs, ack |-> a]
  BY <1>4 DEF RecordType
<1>7. s \in RecordType(n, k) /\ s.revokes = rs
  BY <1>1, <1>4, <1>5, <1>6 DEF RecordType
<1> QED
  BY <1>1, <1>3, <1>6, <1>7 DEF RecordWell

LEMMA SaveEndingIs ==
  ASSUME TypeInv, SaveEnding
  PROVE  LET o == Operation IN
         /\ phone.queue # <<>> /\ o.kind = "ending" /\ o \in EndOp /\ store # None
         /\ store' = EndSaved(o)
         /\ ids' = IF EndRevokes(o) = store.revokes THEN ids ELSE ids + 1
         /\ Settle(FlushPendingRevokes(
              Send(Rest, [type |-> "ENDED", epoch |-> o.epoch, id |-> o.session, body |-> None]),
              EndRevokes(o)))
         /\ ended' = IF page.user = o.user THEN ended ELSE ended \cup {o.user}
<1>1. phone.queue # <<>> /\ Operation.kind = "ending"
  BY DEF SaveEnding, At, Operation
<1>2. Operation \in EndOp
  BY <1>1, Heads, OpKinds
<1>3. store # None
  BY <1>1, Heads DEF TypeInv, StoreThere, Follows
<1>4. EndRevokes(Operation) = IF OwnBinding(Operation) /\ ~AlreadyCaptured
                 THEN store.revokes \cup
                        {[installation |-> store.installation, operation |-> ids + 1,
                          binding |-> store.binding.id, expected |-> store.binding.revision]}
                 ELSE store.revokes
  BY DEF EndRevokes, Letting
<1>5. /\ store' = EndSaved(Operation)
      /\ ids' = IF EndRevokes(Operation) = store.revokes THEN ids ELSE ids + 1
      /\ Settle(FlushPendingRevokes(
              Send(Rest, [type |-> "ENDED", epoch |-> Operation.epoch, id |-> Operation.session,
                          body |-> None]), EndRevokes(Operation)))
      /\ ended' = IF page.user = Operation.user THEN ended ELSE ended \cup {Operation.user}
  BY <1>4, Zenon DEF SaveEnding, EndSaved
<1> QED
  BY <1>1, <1>2, <1>3, <1>5

LEMMA EndFits ==
  ASSUME TypeInv, store # None, NEW o, store' = EndSaved(o), store' # None, known' = known,
         Takes(1, "ending"), NEW n, n = IF EndRevokes(o) = store.revokes THEN ids ELSE ids + 1
  PROVE  StoreFits(1)
<1>1. /\ store'.binding = IF OwnBinding(o) THEN None ELSE store.binding
      /\ store'.revokes = EndRevokes(o) /\ store'.pending = store.pending
      /\ store'.installation = store.installation
  BY EndSavedTyped
<1>2. /\ store.revokes \subseteq EndRevokes(o)
      /\ \A r \in EndRevokes(o) : r \in store.revokes \/ (r = Letting /\ OwnBinding(o))
  BY DEF EndRevokes
<1>3. PendingFits(1) /\ BindingFits(1) /\ KnownFits(1)
  BY <1>1 DEF PendingFits, BindingFits, KnownFits
<1>4. RevokesFit(1) /\ RevokesKept(1)
  BY <1>1, <1>2 DEF RevokesFit, RevokesKept, OwnBinding
<1>5. ASSUME OwnBinding(o)
      PROVE  \E s \in EndRevokes(o) : s.binding = store.binding.id
  <2>1. CASE AlreadyCaptured
    BY <1>2, <2>1 DEF AlreadyCaptured
  <2>2. CASE ~AlreadyCaptured
    <3>1. Letting \in EndRevokes(o) /\ Letting.binding = store.binding.id
      BY <1>5, <2>2 DEF EndRevokes, Letting
    <3> QED
      BY <3>1
  <2> QED
    BY <2>1, <2>2
<1>6. BindingKept(1)
  BY <1>1, <1>5 DEF BindingKept
<1> QED
  BY <1>3, <1>4, <1>6 DEF StoreFits

LEMMA SaveEndingTyped ==
  ASSUME TypeInv, SaveEnding
  PROVE  TypeInv' /\ Onward
<1> PICK o : o = Operation
  OBVIOUS
<1> PICK rs : rs = EndRevokes(o)
  OBVIOUS
<1> PICK k : k = Len(rows)
  OBVIOUS
<1> PICK n : n = IF rs = store.revokes THEN ids ELSE ids + 1
  OBVIOUS
<1> PICK m : m = [type |-> "ENDED", epoch |-> o.epoch, id |-> o.session, body |-> None]
  OBVIOUS
<1>0. /\ phone.queue # <<>> /\ o \in EndOp /\ store # None
      /\ store' = EndSaved(o) /\ ids' = n
      /\ Settle(FlushPendingRevokes(Send(Rest, m), rs))
      /\ ended' = IF page.user = o.user THEN ended ELSE ended \cup {o.user}
  BY SaveEndingIs
<1>1. /\ rs \in SUBSET Rev(n, k) /\ IsFiniteSet(rs) /\ (n = ids \/ n = ids + 1)
      /\ RecordWell(store', n, k) /\ store'.binding = (IF OwnBinding(o) THEN None ELSE store.binding)
  BY <1>0, EndRevokesTyped, EndSavedTyped
<1>2. n \in Nat /\ ids <= n /\ k \in Nat /\ Len(rows) <= k
  BY <1>1, Numbers
<1>3. Here(Rest, n, k, 1) /\ RegsWell(Rest, 1) /\ Coordinator(Rest, n, k)
  BY <1>0, <1>2, HereStarts
<1> PICK s : s = Send(Rest, m)
  OBVIOUS
<1> PICK g : g = FlushPendingRevokes(s, rs)
  OBVIOUS
<1>4. Well1(g, n, k, {}) /\ Settle(g)
  <2>1. m \in Outgoing(n, k)
    BY <1>0 DEF EndOp, Outgoing, Signal
  <2>2. Grows(Rest, s, {m}, {}, n, k)
    BY <1>3, <2>1, Sends
  <2>3. Well1(s, n, k, {}) /\ Coordinator(s, n, k)
    <3>1. MoreFits({m}, {}, Rest.request)
      BY DEF MoreFits, MsgFits
    <3>2. Well1(Rest, n, k, {})
      BY <1>3, HereWell1
    <3> QED
      BY <2>2, <3>1, <3>2, WellGrows1 DEF Grows
  <2> PICK M : M = {RevokeMessage(r) : r \in rs}
    OBVIOUS
  <2> PICK T : T = {RevokeRetry(r) : r \in rs}
    OBVIOUS
  <2>4. Grows(s, g, M, T, n, k)
    BY <1>1, <1>2, <2>3, Flushes
  <2>5. store'.revokes = rs /\ store' # None
    <3>1. store'.revokes = rs /\ RecordWell(store', n, k)
      BY <1>0, <1>1, EndSavedTyped
    <3> QED
      BY <1>2, <3>1, RecordWells
  <2>6. \A r \in rs : Revoking(r)
    BY <2>5 DEF Revoking
  <2>7. MoreFits(M, T, s.request)
    BY <2>6, RevokesSent
  <2> QED
    BY <1>0, <2>3, <2>4, <2>7, WellGrows1
<1>5. StoreTyped' /\ store' # None
  BY <1>0, <1>1, <1>2, RecordIs DEF SaveEnding
<1>6. EndedInv'
  <2>1. page' = page \/ page' = [page EXCEPT !.waiting = FALSE]
    BY <1>4 DEF Settle, Sent
  <2>2. page'.user = page.user
    BY <2>1 DEF TypeInv, Typed, PageTyped
  <2>3. ASSUME NEW u \in ended'
        PROVE  page'.user # u /\ (store'.binding # None => store'.binding.user # u)
    <3>1. CASE u \in ended
      BY <1>0, <1>1, <2>2, <3>1 DEF TypeInv, EndedInv
    <3>2. CASE u = o.user /\ page.user # o.user
      BY <1>1, <2>2, <3>2 DEF OwnBinding
    <3> QED
      BY <1>0, <3>1, <3>2
  <2> QED
    BY <1>5, <2>3 DEF EndedInv
<1>7. Grown(n, k)
  BY <1>0, <1>1 DEF Grown, SaveEnding
<1>8. known' \subseteq 1 .. n /\ ended' \subseteq Accounts
  <2>1. o.user \in Accounts
    BY <1>0 DEF EndOp
  <2> QED
    BY <1>0, <1>2, <2>1 DEF SaveEnding, TypeInv, Typed, WorldTyped
<1>fit. WorldFits /\ StoreFits(1)
  <2>1. WorldFits
    BY <1>7, WorldGrows DEF SaveEnding
  <2>2. o.kind = "ending"
    BY SaveEndingIs
  <2>3. Takes(1, "ending")
    BY <1>0, <2>2, HeadTaken
  <2>4. known' = known
    BY DEF SaveEnding
  <2>5. StoreFits(1)
    BY <1>0, <1>5, <2>3, <2>4, EndFits
  <2> QED
    BY <2>1, <2>5
<1>done. TypeInv' /\ Coming(1)
  BY <1>4, <1>5, <1>6, <1>7, <1>8, Stored DEF SaveEnding
<1> QED
  BY <1>fit, <1>done DEF Onward

LEMMA RevokesChange ==
  ASSUME TypeInv, store # None, NEW rs \in SUBSET Rev(ids, Len(rows)), IsFiniteSet(rs),
         store' = [store EXCEPT !.revokes = rs], rows' = rows, ids' = ids
  PROVE  /\ StoreTyped' /\ store' # None /\ store'.binding = store.binding /\ store'.revokes = rs
         /\ store'.pending = store.pending /\ store'.installation = store.installation
<1> PICK k : k = Len(rows)
  OBVIOUS
<1> PICK n : n = ids
  OBVIOUS
<1>1. n \in Nat /\ k \in Nat /\ RecordWell(store, n, k)
  BY Numbers, RecordKept
<1> PICK s : s = store'
  OBVIOUS
<1>2. s = [installation |-> store.installation, binding |-> store.binding, pending |-> store.pending,
           revokes |-> rs, ack |-> store.ack]
  BY <1>1 DEF RecordWell, RecordType
<1>3. RecordWell(store', n, k)
  BY <1>1, <1>2 DEF RecordWell, RecordType
<1> QED
  BY <1>1, <1>2, <1>3, RecordIs

LEMMA RemoveRevokeTyped ==
  ASSUME TypeInv, RemoveRevoke
  PROVE  TypeInv' /\ Onward
<1> PICK o : o = Operation
  OBVIOUS
<1> PICK k : k = Len(rows)
  OBVIOUS
<1> PICK n : n = ids
  OBVIOUS
<1>0. phone.queue # <<>> /\ o.kind = "revokeDone"
  BY DEF RemoveRevoke, At, Operation
<1>1. store # None
  BY <1>0, Heads DEF TypeInv, StoreThere, Follows
<1>2. n \in Nat /\ ids <= n /\ k \in Nat /\ Len(rows) <= k
  BY Numbers
<1>3. Here(Rest, n, k, 1) /\ RegsWell(Rest, 1) /\ Coordinator(Rest, n, k)
  BY <1>0, <1>2, HereStarts
<1> PICK g : g = ClearRetry(Rest, Key("revoke", o.operation))
  OBVIOUS
<1>4. Well1(g, n, k, {}) /\ Settle(g)
  <2>1. Grows(Rest, g, {}, {}, n, k)
    BY <1>3, Clears
  <2> QED
    BY <1>3, <2>1, NoMore, HereWell1, WellGrows1 DEF RemoveRevoke
<1> PICK rs : rs = {r \in store.revokes : r.operation # o.operation}
  OBVIOUS
<1>5. rs \in SUBSET Rev(ids, Len(rows)) /\ IsFiniteSet(rs)
  BY <1>1, FS_Subset DEF TypeInv, Typed, StoreTyped
<1>6. StoreTyped' /\ store' # None /\ store'.binding = store.binding
  BY <1>1, <1>5, RevokesChange DEF RemoveRevoke
<1>7. EndedInv'
  BY <1>4, <1>6, EndedKept DEF RemoveRevoke
<1>8. Grown(n, k)
  BY DEF Grown, RemoveRevoke
<1>9. known' \subseteq 1 .. n /\ ended' \subseteq Accounts
  BY DEF RemoveRevoke, TypeInv, Typed, WorldTyped
<1>fit. WorldFits /\ StoreFits(1)
  <2>1. WorldFits
    BY <1>8, WorldGrows DEF RemoveRevoke
  <2>2. Takes(1, "revokeDone") /\ Taken = o
    BY <1>0, HeadTaken
  <2>3. /\ store'.binding = store.binding /\ store'.revokes = rs
        /\ store'.pending = store.pending /\ store'.installation = store.installation
        /\ known' = known
    BY <1>1, <1>5, RevokesChange DEF RemoveRevoke
  <2>4. PendingFits(1) /\ BindingFits(1) /\ KnownFits(1) /\ BindingKept(1)
    BY <1>1, <2>3 DEF PendingFits, BindingFits, KnownFits, BindingKept
  <2>5. RevokesFit(1) /\ RevokesKept(1)
    BY <1>1, <2>2, <2>3 DEF RevokesFit, RevokesKept
  <2> QED
    BY <1>6, <2>1, <2>4, <2>5 DEF StoreFits
<1>done. TypeInv' /\ Coming(1)
  BY <1>4, <1>6, <1>7, <1>8, <1>9, Stored DEF RemoveRevoke
<1> QED
  BY <1>fit, <1>done DEF Onward

LEMMA ReplaceRevokeTyped ==
  ASSUME TypeInv, ReplaceRevoke
  PROVE  TypeInv' /\ Onward
<1> PICK o : o = Operation
  OBVIOUS
<1> PICK k : k = Len(rows)
  OBVIOUS
<1> PICK n : n = ids
  OBVIOUS
<1>0. phone.queue # <<>> /\ o.kind = "revokeReplace"
  BY DEF ReplaceRevoke, At, Operation
<1>1. store # None
  BY <1>0, Heads DEF TypeInv, StoreThere, Follows
<1>2. n \in Nat /\ ids <= n /\ k \in Nat /\ Len(rows) <= k
  BY Numbers
<1>3. Here(Rest, n, k, 1) /\ RegsWell(Rest, 1) /\ Coordinator(Rest, n, k)
  BY <1>0, <1>2, HereStarts
<1> PICK c : c = o.revoke
  OBVIOUS
<1>c. c \in Rev(n, k)
  BY <1>0, Heads, OpKinds DEF ReplaceOp
<1> PICK g : g = SendPendingRevoke(Rest, c)
  OBVIOUS
<1>4. Well1(g, n, k, {}) /\ Settle(g)
  <2>1. {c} \in SUBSET Rev(n, k) /\ IsFiniteSet({c})
    BY <1>c, FS_Singleton
  <2> PICK N : N = {c}
    OBVIOUS
  <2> PICK M : M = {RevokeMessage(r) : r \in N}
    OBVIOUS
  <2> PICK T : T = {RevokeRetry(r) : r \in N}
    OBVIOUS
  <2>2. Grows(Rest, g, M, T, n, k)
    BY <1>2, <1>3, <2>1, Flushes DEF SendPendingRevoke
  <2>3. c \in Revocations
    <3>1. Taken = o /\ Takes(1, "revokeReplace")
      BY <1>0, HeadTaken
    <3> QED
      BY <3>1 DEF Taken, Takes, Revocations
  <2>4. MoreFits(M, T, Rest.request)
    BY <2>3, RevokesSent DEF Revoking
  <2> QED
    BY <1>3, <2>2, <2>4, HereWell1, WellGrows1 DEF ReplaceRevoke
<1> PICK old : old = store.revokes
  OBVIOUS
<1> DEFINE f(r) == IF r.operation = o.operation THEN c ELSE r
<1> PICK rs : rs = {f(r) : r \in old}
  OBVIOUS
<1>5. rs \in SUBSET Rev(ids, Len(rows)) /\ IsFiniteSet(rs)
  <2>1. old \subseteq Rev(n, k) /\ IsFiniteSet(old)
    BY <1>1 DEF TypeInv, Typed, StoreTyped
  <2>2. [r \in old |-> f(r)] \in Surjection(old, rs)
    BY DEF Surjection
  <2>3. IsFiniteSet(rs)
    BY <2>1, <2>2, FS_Surjection
  <2> QED
    BY <1>c, <2>1, <2>3
<1>6. StoreTyped' /\ store' # None /\ store'.binding = store.binding
  <2>1. store' = [store EXCEPT !.revokes = rs]
    BY DEF ReplaceRevoke
  <2> QED
    BY <1>1, <1>5, <2>1, RevokesChange DEF ReplaceRevoke
<1>7. EndedInv'
  BY <1>4, <1>6, EndedKept DEF ReplaceRevoke
<1>8. Grown(n, k)
  BY DEF Grown, ReplaceRevoke
<1>9. known' \subseteq 1 .. n /\ ended' \subseteq Accounts
  BY DEF ReplaceRevoke, TypeInv, Typed, WorldTyped
<1>fit. WorldFits /\ StoreFits(1)
  <2>1. WorldFits
    BY <1>8, WorldGrows DEF ReplaceRevoke
  <2>2. Takes(1, "revokeReplace") /\ Taken = o
    BY <1>0, HeadTaken
  <2>0. store' = [store EXCEPT !.revokes = rs] /\ rows' = rows /\ ids' = ids /\ known' = known
    BY DEF ReplaceRevoke
  <2>3. /\ store'.binding = store.binding /\ store'.revokes = rs
        /\ store'.pending = store.pending /\ store'.installation = store.installation
    BY <1>1, <1>5, <2>0, RevokesChange
  <2>4. PendingFits(1) /\ BindingFits(1) /\ KnownFits(1) /\ BindingKept(1)
    BY <1>1, <2>0, <2>3 DEF PendingFits, BindingFits, KnownFits, BindingKept
  <2>5. \A r \in rs : r \in old \/ r = c
    OBVIOUS
  <2>6. \A r \in old : r \in rs \/ (r.operation = o.operation /\ c \in rs)
    OBVIOUS
  <2>7. RevokesFit(1) /\ RevokesKept(1)
    BY <1>1, <2>2, <2>3, <2>5, <2>6 DEF RevokesFit, RevokesKept
  <2> QED
    BY <1>6, <2>1, <2>4, <2>7 DEF StoreFits
<1>done. TypeInv' /\ Coming(1)
  BY <1>4, <1>6, <1>7, <1>8, <1>9, Stored DEF ReplaceRevoke
<1> QED
  BY <1>fit, <1>done DEF Onward

---------------------------------------------------------------------------
(* The page's steps.                                                       *)
LEMMA Enters ==
  ASSUME TypeInv, NEW n \in Nat, NEW k \in Nat, ids' = n, Len(rows') = k, store' = store,
         NEW p, Coordinator(p, n, k), NEW chain \in Seq(Request(n, k)), ServedWell(chain, n, k),
         NEW d \in PageType, Context_(d), Sent(p, chain, d),
         cookie' # None => cookie' \in [user : Accounts, session : Nat],
         d.phase = "authenticated" => cookie' \in [user : Accounts, session : Nat],
         IF p.connected THEN p.auth = AuthPayload(d) ELSE p.auth = None,
         \/ p.queue = <<>>
         \/ /\ RegsKept(phone, p)
            /\ \/ p.queue = phone.queue
               \/ \E o \in StoreOp(n, k) : /\ o.kind \in {"endCreate", "flushLoad"}
                                           /\ p.queue = Append(phone.queue, o)
  PROVE  /\ PhoneTyped' /\ PageTyped' /\ WritesTyped' /\ AuthInv' /\ StoreThere' /\ ResultInv'
         /\ BusyInv' /\ SamePage(d, page')
<1>1. /\ Coordinator(phone', n, k) /\ Others(p, phone', {"out"}) /\ phone'.out = {}
      /\ writes' \in Seq(Request(n, k))
      /\ Longer(chain, writes', p.out \cap Message(n, k))
      /\ page' \in PageType /\ SamePage(d, page')
  BY Sendings
<1>2. PhoneTyped'
  BY <1>1 DEF PhoneTyped
<1>3. /\ phone'.connected = p.connected /\ phone'.auth = p.auth
      /\ phone'.queue = p.queue /\ phone'.regs = p.regs
  BY <1>1 DEF Others, Fields
<1>4. PageTyped'
  BY <1>1 DEF PageTyped, PageType, SamePage, Context_
<1>5. AuthInv'
  <2>1. AuthPayload(page') = AuthPayload(d)
    BY <1>1 DEF SamePage, AuthPayload
  <2> QED
    BY <1>3, <2>1 DEF AuthInv, AuthPayload
<1>6. WritesTyped'
  <2>1. ASSUME NEW i \in DOMAIN writes', writes'[i].served
        PROVE  i \in DOMAIN chain /\ writes'[i] = chain[i]
    BY <1>1, <2>1 DEF Longer, Fresh
  <2>2. ASSUME NEW i \in DOMAIN writes', writes'[i].served
        PROVE  /\ i = 1 /\ writes'[i].answer \in Ans(n, k)
               /\ writes'[i].message.type = "DEVICE" =>
                    writes'[i].answer.outcome \in {"SUCCESS", "FAILED", "RETRY"}
    BY <2>1, <2>2 DEF ServedWell
  <2> QED
    BY <1>1, <2>2 DEF WritesTyped, W, Type
<1>7. StoreThere' /\ ResultInv' /\ BusyInv'
  <2>1. CASE p.queue = <<>>
    BY <1>3, <2>1 DEF StoreThere, ResultInv, BusyInv, Q
  <2>2. CASE p.queue # <<>>
    <3> PICK q : q = phone.queue
      OBVIOUS
    <3> PICK S : S = StoreOp(ids, Len(rows)) \cup StoreOp(n, k)
      OBVIOUS
    <3>1. q \in Seq(S)
      <4>1. q \in Seq(StoreOp(ids, Len(rows))) /\ StoreOp(ids, Len(rows)) \subseteq S
        BY DEF TypeInv, Typed, PhoneTyped, Coordinator
      <4> QED
        BY <4>1, SeqWider
    <3>2. \E N : /\ Moves(q, p.queue, 0, N)
                 /\ \A x \in N : x.kind \in {"endCreate", "flushLoad"}
      <4>1. CASE p.queue = q
        <5>1. Moves(q, p.queue, 0, {})
          BY <3>1, <4>1, QueueMoves
        <5> QED
          BY <5>1
      <4>2. ASSUME NEW o \in StoreOp(n, k), o.kind \in {"endCreate", "flushLoad"},
                   p.queue = Append(q, o)
            PROVE  Moves(q, p.queue, 0, {o}) /\ \A x \in {o} : x.kind \in {"endCreate", "flushLoad"}
        BY <3>1, <4>2, QueueMoves
      <4>3. p.queue = q \/ \E o \in StoreOp(n, k) : /\ o.kind \in {"endCreate", "flushLoad"}
                                                    /\ p.queue = Append(q, o)
        BY <2>2
      <4>4. ASSUME NEW o \in StoreOp(n, k), o.kind \in {"endCreate", "flushLoad"},
                   p.queue = Append(q, o)
            PROVE  \E N : /\ Moves(q, p.queue, 0, N)
                          /\ \A x \in N : x.kind \in {"endCreate", "flushLoad"}
        <5>1. Moves(q, p.queue, 0, {o})
          BY <4>2, <4>4
        <5>2. \A x \in {o} : x.kind \in {"endCreate", "flushLoad"}
          BY <4>4
        <5> QED
          BY <5>1, <5>2
      <4> QED
        BY <4>1, <4>3, <4>4, Zenon
    <3> PICK N : /\ Moves(q, p.queue, 0, N)
                 /\ \A x \in N : x.kind \in {"endCreate", "flushLoad"}
      BY <3>2
    <3> PICK d0 : d0 = 0
      OBVIOUS
    <3>3. /\ d0 \in {0, 1} /\ Moves(phone.queue, phone'.queue, d0, N)
          /\ \A x \in N : x.kind \notin Follows /\ x.kind # "resultLoad" /\ x.kind \notin Busy
      BY <1>3 DEF Follows, Busy
    <3>4. StoreThere' /\ ResultInv'
      BY <3>3, QueueTurns
    <3>5. BusyWell(p, d0, N)
      BY <2>2, <3>3 DEF BusyWell
    <3>6. phone'.queue \in Seq(StoreOp(n, k))
      BY <1>1 DEF Coordinator
    <3> QED
      BY <1>3, <3>3, <3>4, <3>5, <3>6, BusyTurns
  <2> QED
    BY <2>1, <2>2
<1> QED
  BY <1>1, <1>2, <1>4, <1>5, <1>6, <1>7

(* What such a step sends is nothing, or what was to be sent.              *)
NoneLater(p) == p.out = {} /\ p.timers \subseteq phone.timers /\ p.request \in {None, phone.request}

LEMMA PageComes ==
  ASSUME TypeInv, NEW n \in Nat, NEW k \in Nat, NEW p, Coordinator(p, n, k), NoneLater(p),
         NEW chain \in Seq(Request(n, k)), Within(chain), NEW e \in PageType, Sent(p, chain, e),
         \/ p.queue = <<>> \/ p.queue = phone.queue
         \/ \E o \in StoreOp(n, k) : /\ o.kind \in {"endCreate", "flushLoad"}
                                    /\ p.queue = Append(phone.queue, o)
  PROVE  Coming(0)
<1> PICK q : q = phone.queue
  OBVIOUS
<1> PICK S : S = StoreOp(ids, Len(rows)) \cup StoreOp(n, k)
  OBVIOUS
<1>0. q \in Seq(S) /\ Len(q) \in Nat /\ DOMAIN q = 1 .. Len(q)
  <2>1. q \in Seq(StoreOp(ids, Len(rows))) /\ StoreOp(ids, Len(rows)) \subseteq S
    BY DEF TypeInv, Typed, PhoneTyped, Coordinator
  <2> QED
    BY <2>1, SeqWider, SeqLen
<1>1. CASE p.queue = <<>>
  <2>1. QueueComes(p, 0)
    BY <1>1 DEF QueueComes
  <2> QED
    BY <2>1, FitsFirst, Comes DEF NoneLater
<1>2. CASE p.queue = q
  <2>1. \A i \in DOMAIN q : i + 0 = i
    BY <1>0
  <2>2. QueueComes(p, 0)
    BY <1>2, <2>1 DEF QueueComes, Q
  <2> QED
    BY <2>2, FitsFirst, Comes DEF NoneLater
<1>3. ASSUME NEW o \in StoreOp(n, k), o.kind \in {"endCreate", "flushLoad"}, p.queue = Append(q, o)
      PROVE  Coming(0)
  <2>1. OpFits(o, 0)
    BY <1>3 DEF OpFits
  <2> PICK r : r = Append(q, o)
    OBVIOUS
  <2>2. /\ DOMAIN r = 1 .. (Len(q) + 1) /\ \A i \in 1 .. Len(q) : r[i] = q[i]
        /\ r[Len(q) + 1] = o
    BY <1>0, SeqAppend
  <2>3. \A i \in DOMAIN r : (i + 0 \in DOMAIN q /\ r[i] = q[i + 0]) \/ (i + 0 = Len(q) + 1 /\ r[i] = o)
    BY <1>0, <2>2
  <2>4. QueueComes(p, 0)
    BY <1>3, <2>1, <2>3 DEF QueueComes, Q
  <2> QED
    BY <2>4, FitsFirst, Comes DEF NoneLater
<1> QED
  BY <1>1, <1>2, <1>3

(* It leaves the record alone, and the rows but for those that are ended.  *)
LEMMA RecordStays ==
  ASSUME TypeInv, store' = store, known' = known, NEW d
  PROVE  StoreFits(d)
BY DEF StoreFits, PendingFits, BindingFits, RevokesFit, KnownFits, RevokesKept, BindingKept

LEMMA RowsSame ==
  ASSUME TypeInv, rows' = rows
  PROVE  RowsFit
BY Numbers DEF RowsFit

(* What a step of the page, the user or the server leaves as typed.        *)
LEMMA Remains ==
  ASSUME TypeInv, NEW n \in Nat, ids <= n, ids' = n, rows' \in Seq(Row(n)), Len(rows') = Len(rows),
         store' = store, target' = target, gone' \subseteq Accounts, ended' \subseteq ended,
         disturbed' = disturbed \/ disturbed' = TRUE, log' = log, issued' = issued, known' = known,
         Count(1) \/ Lose \/ UNCHANGED events,
         page'.user \notin ended'
  PROVE  StoreTyped' /\ WorldTyped' /\ EndedInv' /\ LogInv'
<1>0. ids \in Nat /\ Len(rows) \in Nat /\ target \in Tokens \cup {None} /\ disturbed \in BOOLEAN
  BY Numbers
<1> PICK k : k = Len(rows)
  OBVIOUS
<1>1. /\ Pend(ids) \subseteq Pend(n) /\ Rev(ids, k) \subseteq Rev(n, k) /\ Held(ids) \subseteq Held(n)
      /\ Issue(ids, k) \subseteq Issue(n, k)
      /\ Logs(ids, k) \subseteq Logs(n, k) /\ 1 .. ids \subseteq 1 .. n
  BY <1>0, Wider
<1>2. StoreTyped'
  BY <1>0, <1>1 DEF TypeInv, Typed, StoreTyped
<1>3. /\ events' \in [acts : Nat, losses : Nat] /\ events'.acts \in Nat
      /\ events'.losses \in 0 .. MaxLosses /\ events'.acts + events'.losses <= MaxEvents
  BY Counted
<1>4. WorldTyped'
  BY <1>0, <1>1, <1>3 DEF TypeInv, Typed, WorldTyped
<1>5. EndedInv'
  BY DEF TypeInv, EndedInv
<1>6. LogInv'
  BY DEF TypeInv, LogInv
<1> QED
  BY <1>2, <1>4, <1>5, <1>6

LEMMA PageKnown ==
  ASSUME TypeInv
  PROVE  /\ page \in PageType /\ Context_(page) /\ page.epoch \in Nat
         /\ page.user \notin ended /\ None \notin ended /\ None \notin Accounts
         /\ rows \in Seq(Row(ids)) /\ Len(rows) \in Nat /\ ids \in Nat
         /\ cookie # None => cookie \in [user : Accounts, session : Nat]
         /\ page.phase = "authenticated" =>
              cookie \in [user : Accounts, session : Nat] /\ page.user \in Accounts
         /\ gone \subseteq Accounts /\ ended \subseteq Accounts
BY PhoneAssumption DEF TypeInv, Typed, PageTyped, WorldTyped, PageType, Context_, EndedInv

(* The page goes on to a next context, and tells of it.                    *)
Entering(p, n, k) ==
  /\ Coordinator(p, n, k) /\ RegsKept(phone, p) /\ NoneLater(p)
  /\ p.connected = phone.connected /\ p.auth = phone.auth
  /\ \/ p.queue = phone.queue
     \/ \E o \in StoreOp(n, k) : o.kind \in {"endCreate", "flushLoad"} /\ p.queue = Append(phone.queue, o)

LEMMA EntersNext ==
  ASSUME TypeInv, NEW n \in Nat, ids <= n, ids' = n, rows' \in Seq(Row(n)), Len(rows') = Len(rows),
         store' = store, target' = target, gone' \subseteq Accounts, ended' \subseteq ended,
         UNCHANGED disturbed, log' = log, issued' = issued, known' = known,
         Count(1) \/ Lose \/ UNCHANGED events,
         NEW p, Entering(p, n, Len(rows)), p.regs = phone.regs, RowsFit,
         NEW d \in PageType, Context_(d), d.epoch = page.epoch + 1, d.user \notin ended',
         cookie' # None => cookie' \in [user : Accounts, session : Nat],
         d.phase = "authenticated" => cookie' \in [user : Accounts, session : Nat],
         Sent(SendAuth(p, d), writes, d)
  PROVE  TypeInv' /\ Onward
<1> PICK k : k = Len(rows)
  OBVIOUS
<1>0. k \in Nat /\ Len(rows') = k /\ ids <= n /\ Len(rows) <= k
  BY PageKnown
<1> PICK q : q = SendAuth(p, d)
  OBVIOUS
<1> PICK a : a = AuthPayload(d)
  OBVIOUS
<1>1. /\ Coordinator(q, n, k)
      /\ Others(p, q, {"auth", "last", "generation", "request", "regs"})
      /\ ~p.connected => q = p
      /\ p.connected /\ (p.auth = None \/ d.epoch > p.auth.epoch) => q.auth = a
      /\ RegsKept(p, q) /\ q.request \in {None, p.request}
  BY <1>0, AuthSent DEF Entering
<1>2. /\ q.connected = p.connected /\ q.queue = p.queue /\ q.out = p.out /\ q.timers = p.timers
  BY <1>1 DEF Others, Fields
<1>3. IF q.connected THEN q.auth = a ELSE q.auth = None
  <2>1. CASE p.connected
    <3>1. p.auth.epoch = page.epoch
      BY <2>1 DEF Entering, TypeInv, AuthInv, AuthPayload
    <3>2. page.epoch \in Nat
      BY PageKnown
    <3> QED
      BY <1>1, <1>2, <2>1, <3>1, <3>2
  <2>2. CASE ~p.connected
    BY <1>1, <1>2, <2>2 DEF Entering, TypeInv, AuthInv
  <2> QED
    BY <2>1, <2>2
<1>4. RegsKept(phone, q)
  BY <1>1 DEF RegsKept
<1> PICK chain : chain = writes
  OBVIOUS
<1>5. chain \in Seq(Request(n, k)) /\ ServedWell(chain, n, k)
  BY <1>0, ServedWells
<1>6. /\ PhoneTyped' /\ PageTyped' /\ WritesTyped' /\ AuthInv' /\ StoreThere' /\ ResultInv'
      /\ BusyInv' /\ SamePage(d, page')
  BY <1>0, <1>1, <1>2, <1>3, <1>4, <1>5, Enters DEF Entering
<1>7. page'.user \notin ended'
  BY <1>6 DEF SamePage
<1>8. StoreTyped' /\ WorldTyped' /\ EndedInv' /\ LogInv'
  BY <1>7, Remains
<1>9. Coming(0)
  <2>1. NoneLater(q)
    BY <1>1, <1>2 DEF Entering, NoneLater
  <2>2. Within(chain)
    BY WithinWrites
  <2>3. \/ q.queue = phone.queue
        \/ \E o \in StoreOp(n, k) : /\ o.kind \in {"endCreate", "flushLoad"}
                                   /\ q.queue = Append(phone.queue, o)
    BY <1>2 DEF Entering
  <2> QED
    BY <1>0, <1>1, <1>5, <2>1, <2>2, <2>3, PageComes
<1>10. WorldFits /\ StoreFits(0)
  BY RecordStays DEF WorldFits
<1> QED
  BY <1>6, <1>8, <1>9, <1>10 DEF TypeInv, Typed, Onward

LEMMA EnteringPhone ==
  ASSUME TypeInv, NEW n \in Nat, ids <= n
  PROVE  Entering(phone, n, Len(rows))
<1>1. Coordinator(phone, n, Len(rows))
  BY HereStarts, Numbers
<1>2. NoneLater(phone)
  BY DEF NoneLater, TypeInv, Typed, PhoneTyped
<1> QED
  BY <1>1, <1>2 DEF Entering, RegsKept

LEMMA BootTyped ==
  ASSUME TypeInv, Boot
  PROVE  TypeInv' /\ Onward
<1>0. /\ page \in PageType /\ Context_(page) /\ page.epoch \in Nat /\ ids \in Nat /\ ids <= ids
      /\ rows \in Seq(Row(ids)) /\ page.phase = "bootstrapping" /\ page.user = None
      /\ gone \subseteq Accounts /\ None \notin ended
      /\ cookie # None => cookie \in [user : Accounts, session : Nat]
  BY PageKnown DEF Boot, Context_
<1>1. Entering(phone, ids, Len(rows))
  BY <1>0, EnteringPhone
<1> PICK e : e = page.epoch + 1
  OBVIOUS
<1>2. CASE cookie = None
  <2> PICK d : d = [page EXCEPT !.phase = "anonymous", !.epoch = e]
    OBVIOUS
  <2>a. d = [phase |-> "anonymous", epoch |-> e, user |-> None, ending |-> page.ending,
              waiting |-> page.waiting, reason |-> page.reason, session |-> page.session]
    BY <1>0 DEF PageType
  <2>b. e \in Nat
    BY <1>0
  <2>1. d \in PageType /\ Context_(d) /\ d.epoch = e /\ d.user = None /\ d.phase = "anonymous"
    BY <1>0, <2>a, <2>b DEF PageType, Context_
  <2>2. Sent(SendAuth(phone, d), writes, d) /\ ended' = ended
    BY <1>2 DEF Boot, Enter
  <2> QED
    BY <1>0, <1>1, <2>1, <2>2, RowsSame, EntersNext DEF Boot
<1>3. CASE cookie # None
  <2> PICK u : u = cookie.user
    OBVIOUS
  <2>0. u \in Accounts /\ cookie \in [user : Accounts, session : Nat]
    BY <1>0, <1>3
  <2> PICK d : d = [page EXCEPT !.phase = "authenticated", !.epoch = e, !.user = u]
    OBVIOUS
  <2>a. d = [phase |-> "authenticated", epoch |-> e, user |-> u, ending |-> page.ending,
              waiting |-> page.waiting, reason |-> page.reason, session |-> page.session]
    BY <1>0 DEF PageType
  <2>b. e \in Nat
    BY <1>0
  <2>1. d \in PageType /\ Context_(d) /\ d.epoch = e /\ d.user = u /\ d.phase = "authenticated"
    BY <1>0, <2>0, <2>a, <2>b DEF PageType, Context_
  <2>2. Sent(SendAuth(phone, d), writes, d) /\ ended' = ended \ {u}
    BY <1>3 DEF Boot, Enter
  <2> QED
    BY <1>0, <1>1, <2>0, <2>1, <2>2, RowsSame, EntersNext DEF Boot
<1> QED
  BY <1>2, <1>3

LEMMA LogInTyped ==
  ASSUME TypeInv, NEW u \in Accounts, LogIn(u)
  PROVE  TypeInv' /\ Onward
<1> PICK n : n = ids + 1
  OBVIOUS
<1>0. /\ page \in PageType /\ page.epoch \in Nat /\ n \in Nat /\ ids <= n /\ ids' = n
      /\ rows \in Seq(Row(ids)) /\ gone \subseteq Accounts
  BY PageKnown DEF LogIn
<1>1. Entering(phone, n, Len(rows)) /\ rows \in Seq(Row(n))
  BY <1>0, EnteringPhone, PageKnown, Wider, SeqWider
<1> PICK e : e = page.epoch + 1
  OBVIOUS
<1> PICK d : d = [page EXCEPT !.phase = "authenticated", !.epoch = e, !.user = u, !.ending = FALSE]
  OBVIOUS
<1>a. d = [phase |-> "authenticated", epoch |-> e, user |-> u, ending |-> FALSE,
            waiting |-> page.waiting, reason |-> page.reason, session |-> page.session]
  BY <1>0 DEF PageType
<1>b. e \in Nat
  BY <1>0
<1>2. d \in PageType /\ Context_(d) /\ d.epoch = e /\ d.user = u /\ d.phase = "authenticated"
  BY <1>0, <1>a, <1>b DEF PageType, Context_
<1>3. Sent(SendAuth(phone, d), writes, d) /\ ended' = ended \ {u}
  BY DEF LogIn, Enter
<1>4. cookie' \in [user : Accounts, session : Nat]
  BY <1>0 DEF LogIn
<1> QED
  BY <1>0, <1>1, <1>2, <1>3, <1>4, RowsSame, EntersNext DEF LogIn

LEMMA WithdrawnTyped ==
  ASSUME TypeInv, Withdrawn
  PROVE  TypeInv' /\ Onward
<1>0. /\ page \in PageType /\ Context_(page) /\ page.epoch \in Nat /\ ids \in Nat /\ ids <= ids
      /\ rows \in Seq(Row(ids)) /\ page.phase = "leaving" /\ page.user = None
      /\ gone \subseteq Accounts /\ None \notin ended
      /\ cookie # None => cookie \in [user : Accounts, session : Nat]
  BY PageKnown DEF Withdrawn, Context_
<1>1. Entering(phone, ids, Len(rows))
  BY <1>0, EnteringPhone
<1> PICK e : e = page.epoch + 1
  OBVIOUS
<1> PICK d : d = [page EXCEPT !.phase = "anonymous", !.epoch = e]
  OBVIOUS
<1>a. d = [phase |-> "anonymous", epoch |-> e, user |-> None, ending |-> page.ending,
            waiting |-> page.waiting, reason |-> page.reason, session |-> page.session]
  BY <1>0 DEF PageType
<1>b. e \in Nat
  BY <1>0
<1>2. d \in PageType /\ Context_(d) /\ d.epoch = e /\ d.user = None /\ d.phase = "anonymous"
  BY <1>0, <1>a, <1>b DEF PageType, Context_
<1>3. Sent(SendAuth(phone, d), writes, d) /\ ended' = ended
  BY DEF Withdrawn, Enter
<1> QED
  BY <1>0, <1>1, <1>2, <1>3, RowsSame, EntersNext DEF Withdrawn

LEMMA RowsMapped ==
  ASSUME NEW n, NEW f \in [Row(n) -> Row(n)], rows \in Seq(Row(n)),
         rows' = [i \in DOMAIN rows |-> f[rows[i]]],
         \A r \in Row(n) : f[r].binding \in {0, r.binding}
  PROVE  rows' \in Seq(Row(n)) /\ Len(rows') = Len(rows) /\ RowsFit
<1>1. Len(rows) \in Nat /\ DOMAIN rows = 1 .. Len(rows) /\ \A i \in DOMAIN rows : rows[i] \in Row(n)
  BY SeqLen
<1>2. rows' = [i \in 1 .. Len(rows) |-> f[rows[i]]]
  BY <1>1
<1>3. \A i \in 1 .. Len(rows) : f[rows[i]] \in Row(n)
  BY <1>1
<1>4. rows' \in Seq(Row(n)) /\ Len(rows') = Len(rows)
  BY <1>1, <1>2, <1>3
<1>5. \A i \in DOMAIN rows' : i \in DOMAIN rows /\ rows'[i].binding \in {0, rows[i].binding}
  BY <1>1, <1>2
<1>6. RowsFit
  BY <1>1, <1>4, <1>5 DEF RowsFit
<1> QED
  BY <1>4, <1>6

LEMMA Deactivates ==
  ASSUME NEW n \in Nat, NEW r \in Row(n)
  PROVE  Deactivated(r) \in Row(n) /\ NoRow \in Row(n) /\ Deactivated(r).binding = 0
<1>1. NoRow \in Row(n)
  BY DEF NoRow, Row
<1>2. r.binding = 0 => Deactivated(r) = r
  BY DEF Deactivated
<1>3. r.binding # 0 => Deactivated(r) = [user |-> r.user, session |-> 0, binding |-> 0,
                                         revision |-> r.revision + 1, token |-> None]
  BY DEF Deactivated, NoRow
<1>4. r.user \in Accounts \cup {None} /\ r.revision + 1 \in Nat
  BY DEF Row
<1> QED
  BY <1>1, <1>2, <1>3, <1>4 DEF Row

LEMMA BeginEndTyped ==
  ASSUME TypeInv, NEW reason \in {"LOGOUT", "WITHDRAWAL"}, BeginEnd(reason)
  PROVE  TypeInv' /\ Onward
<1>0. /\ page \in PageType /\ Context_(page) /\ page.epoch \in Nat /\ ids \in Nat /\ ids <= ids
      /\ rows \in Seq(Row(ids)) /\ Len(rows) \in Nat /\ page.user \in Accounts
      /\ cookie \in [user : Accounts, session : Nat]
      /\ gone \subseteq Accounts /\ None \notin ended
  BY PageKnown DEF BeginEnd
<1> PICK n : n = ids
  OBVIOUS
<1> PICK k : k = Len(rows)
  OBVIOUS
<1> PICK e : e = page.epoch + 1
  OBVIOUS
<1> PICK c : c = IF phone.connected THEN CaptureSessionEnding(phone, page, reason) ELSE phone
  OBVIOUS
<1> PICK d : d = [page EXCEPT !.phase = "leaving", !.epoch = e, !.user = None,
                              !.ending = phone.connected, !.waiting = phone.connected,
                              !.reason = reason]
  OBVIOUS
<1>1. Coordinator(phone, n, k) /\ phone.connected \in BOOLEAN
  BY <1>0, HereStarts DEF Coordinator
<1>2. Entering(c, n, k) /\ c.regs = phone.regs
  <2>1. CASE phone.connected
    <3>1. /\ Coordinator(c, n, k) /\ Others(phone, c, {"generation", "request", "queue"})
          /\ c.request \in {None, phone.request}
          /\ \/ c.queue = phone.queue
             \/ \E o \in EndOp : o.kind = "endCreate" /\ c.queue = Append(phone.queue, o)
      <4>1. /\ n \in Nat /\ k \in Nat /\ Coordinator(phone, n, k) /\ page \in PageType
            /\ reason \in {"LOGOUT", "WITHDRAWAL"} /\ c = CaptureSessionEnding(phone, page, reason)
        BY <1>0, <1>1, <2>1
      <4> PICK z : z = CaptureSessionEnding(phone, page, reason)
        OBVIOUS
      <4>0. z = CaptureSessionEnding(phone, page, reason)
        OBVIOUS
      <4>2. /\ Coordinator(z, n, k) /\ Others(phone, z, {"generation", "request", "queue"})
            /\ EndQueued(phone.queue, z.queue) /\ z.request \in {None, phone.request}
        BY ONLY <4>0, <4>1, Captures
      <4> QED
        BY <4>1, <4>2 DEF EndQueued
    <3>2. EndOp \subseteq StoreOp(n, k)
      BY DEF StoreOp
    <3>3. /\ c.regs = phone.regs /\ c.connected = phone.connected /\ c.auth = phone.auth
          /\ c.out = phone.out /\ c.timers = phone.timers
      BY <3>1 DEF Others, Fields
    <3>4. NoneLater(c)
      BY <3>1, <3>3 DEF NoneLater, TypeInv, Typed, PhoneTyped
    <3> QED
      BY <3>1, <3>2, <3>3, <3>4 DEF Entering, RegsKept
  <2>2. CASE ~phone.connected
    BY <1>0, <2>2, EnteringPhone
  <2> QED
    BY <2>1, <2>2
<1>3. d \in PageType /\ Context_(d) /\ d.epoch = e /\ d.user = None /\ d.phase = "leaving"
  <2>1. d = [phase |-> "leaving", epoch |-> e, user |-> None, ending |-> phone.connected,
             waiting |-> phone.connected, reason |-> reason, session |-> page.session]
    BY <1>0 DEF PageType
  <2>2. e \in Nat
    BY <1>0
  <2> QED
    BY <1>0, <1>1, <2>1, <2>2 DEF PageType, Context_
<1>4. Sent(SendAuth(c, d), writes, d)
  BY Zenon DEF BeginEnd
<1>5. rows' \in Seq(Row(n)) /\ Len(rows') = Len(rows) /\ RowsFit
  <2>1. CASE rows' = rows
    BY <1>0, <2>1, RowsSame
  <2>2. CASE rows' = [i \in DOMAIN rows |-> IF rows[i].user = page.user THEN NoRow ELSE rows[i]]
    <3> PICK f : f = [r \in Row(n) |-> IF r.user = page.user THEN NoRow ELSE r]
      OBVIOUS
    <3>1. NoRow \in Row(n)
      BY <1>0 DEF NoRow, Row
    <3>2. f \in [Row(n) -> Row(n)] /\ \A r \in Row(n) : f[r].binding \in {0, r.binding}
      BY <3>1 DEF NoRow
    <3>3. \A i \in DOMAIN rows : rows[i] \in Row(n)
      BY <1>0, SeqLen
    <3>4. rows' = [i \in DOMAIN rows |-> f[rows[i]]]
      BY <2>2, <3>3
    <3>5. rows \in Seq(Row(n))
      BY <1>0
    <3> QED
      BY ONLY <3>2, <3>4, <3>5, RowsMapped
  <2> QED
    BY <2>1, <2>2 DEF BeginEnd
<1>6. cookie' # None => cookie' \in [user : Accounts, session : Nat]
  BY <1>0 DEF BeginEnd
<1>7. gone' \subseteq Accounts
  BY <1>0 DEF BeginEnd
<1>8. /\ ids' = n /\ store' = store /\ target' = target /\ UNCHANGED disturbed /\ log' = log
      /\ issued' = issued /\ known' = known /\ Count(1) /\ ended' = ended
  BY DEF BeginEnd
<1>9. d.phase # "authenticated" /\ d.user \notin ended' /\ ended' \subseteq ended
  BY <1>0, <1>3, <1>8
<1> QED
  BY <1>0, <1>2, <1>3, <1>4, <1>5, <1>6, <1>7, <1>8, <1>9, EntersNext

(* The bridge goes down, with a new document.                              *)
LEMMA ReplacedTyped ==
  ASSUME TypeInv, NEW p, p = phone \/ p = NewPhone, Replaced(p),
         rows' \in Seq(Row(ids)), Len(rows') = Len(rows), RowsFit,
         UNCHANGED <<store, target, log, gone, ids, issued, known, ended, disturbed>>,
         cookie' = cookie \/ cookie' = None, Count(1) \/ UNCHANGED events
  PROVE  TypeInv' /\ Onward
<1>0. /\ page \in PageType /\ ids \in Nat /\ ids <= ids /\ None \notin ended
      /\ Len(rows) \in Nat /\ gone \subseteq Accounts
      /\ cookie # None => cookie \in [user : Accounts, session : Nat]
  BY PageKnown
<1> PICK k : k = Len(rows)
  OBVIOUS
<1> PICK n : n = ids
  OBVIOUS
<1>1. Coordinator(p, n, k) /\ (p = NewPhone => p.queue = <<>>)
  <2>1. CASE p = phone
    <3>1. NewPhone.queue = <<>>
      BY DEF NewPhone
    <3> QED
      BY <1>0, <2>1, <3>1, HereStarts
  <2>2. CASE p = NewPhone
    BY <2>2, FS_EmptySet DEF NewPhone, Coordinator
  <2> QED
    BY <2>1, <2>2
<1> PICK q : q = Disconnect(p)
  OBVIOUS
<1>2. /\ Coordinator(q, n, k) /\ q.connected = FALSE /\ q.auth = None
      /\ Others(p, q, {"connected", "auth", "last", "generation", "request", "timers", "attempts"})
      /\ q.request = None /\ q.timers = {}
  BY <1>1, Disconnects
<1>3. q.queue = p.queue /\ q.regs = p.regs /\ q.out = p.out
  BY <1>2 DEF Others, Fields
<1>4. q.queue = <<>> \/ (RegsKept(phone, q) /\ q.queue = phone.queue)
  BY <1>1, <1>3 DEF RegsKept
<1> PICK d : d = NewPage(page.session + 1)
  OBVIOUS
<1>5. d \in PageType /\ Context_(d) /\ d.phase = "bootstrapping" /\ d.user = None
  BY <1>0 DEF NewPage, PageType, Context_
<1> PICK chain : chain = <<>>
  OBVIOUS
<1>6. chain \in Seq(Request(n, k)) /\ ServedWell(chain, n, k)
  BY DEF ServedWell
<1>7. Sent(q, chain, d)
  BY DEF Replaced
<1>8. cookie' # None => cookie' \in [user : Accounts, session : Nat]
  BY <1>0
<1>9. /\ PhoneTyped' /\ PageTyped' /\ WritesTyped' /\ AuthInv' /\ StoreThere' /\ ResultInv'
      /\ BusyInv' /\ SamePage(d, page')
  <2>1. ids' = n /\ Len(rows') = k /\ n \in Nat /\ k \in Nat /\ store' = store
    BY <1>0
  <2>2. IF q.connected THEN q.auth = AuthPayload(d) ELSE q.auth = None
    BY <1>2
  <2> QED
    BY <1>2, <1>4, <1>5, <1>6, <1>7, <1>8, <2>1, <2>2, Enters
<1>10. page'.user \notin ended'
  BY <1>0, <1>5, <1>9 DEF SamePage
<1>11. StoreTyped' /\ WorldTyped' /\ EndedInv' /\ LogInv'
  BY <1>0, <1>10, Remains
<1>12. Coming(0)
  <2>1. NoneLater(q)
    BY <1>2, <1>3 DEF NoneLater, NewPhone, TypeInv, Typed, PhoneTyped
  <2>2. Within(chain)
    BY DEF Within
  <2>3. n \in Nat /\ k \in Nat /\ (q.queue = <<>> \/ q.queue = phone.queue)
    BY <1>0, <1>4
  <2> QED
    BY <1>2, <1>5, <1>6, <1>7, <2>1, <2>2, <2>3, PageComes
<1>13. WorldFits /\ StoreFits(0)
  BY <1>0, RecordStays DEF WorldFits
<1> QED
  BY <1>9, <1>11, <1>12, <1>13 DEF TypeInv, Typed, Onward

LEMMA LogoutTyped ==
  ASSUME TypeInv, Logout
  PROVE  TypeInv' /\ Onward
<1>0. rows \in Seq(Row(ids)) /\ ids \in Nat
  BY PageKnown
<1>1. rows' \in Seq(Row(ids)) /\ Len(rows') = Len(rows) /\ RowsFit
  <2>1. CASE rows' = rows
    BY <1>0, <2>1, RowsSame
  <2>2. CASE rows' = [i \in DOMAIN rows |-> IF rows[i].session = cookie.session
                                            THEN Deactivated(rows[i]) ELSE rows[i]]
    <3> PICK f : f = [r \in Row(ids) |-> IF r.session = cookie.session THEN Deactivated(r) ELSE r]
      OBVIOUS
    <3>1. f \in [Row(ids) -> Row(ids)] /\ \A r \in Row(ids) : f[r].binding \in {0, r.binding}
      BY <1>0, Deactivates
    <3>2. \A i \in DOMAIN rows : rows[i] \in Row(ids)
      BY <1>0, SeqLen
    <3>3. rows' = [i \in DOMAIN rows |-> f[rows[i]]]
      BY <2>2, <3>2
    <3> QED
      BY <1>0, <3>1, <3>3, RowsMapped
  <2> QED
    BY <2>1, <2>2 DEF Logout
<1>2. cookie' = cookie \/ cookie' = None
  BY DEF Logout
<1>3. Count(1) \/ UNCHANGED events
  BY DEF Logout
<1> QED
  BY <1>1, <1>2, <1>3, ReplacedTyped DEF Logout

LEMMA ReloadTyped ==
  ASSUME TypeInv, Reload \/ Restart
  PROVE  TypeInv' /\ Onward
<1>0. rows \in Seq(Row(ids))
  BY PageKnown
<1> PICK p : (p = phone \/ p = NewPhone) /\ Replaced(p)
  BY DEF Reload, Restart
<1> QED
  BY <1>0, RowsSame, ReplacedTyped DEF Reload, Restart

LEMMA ConnectTyped ==
  ASSUME TypeInv, Connect
  PROVE  TypeInv' /\ Onward
<1>0. /\ page \in PageType /\ Context_(page) /\ ids \in Nat /\ ids <= ids /\ page.user \notin ended
      /\ Len(rows) \in Nat /\ rows \in Seq(Row(ids)) /\ gone \subseteq Accounts
      /\ cookie # None => cookie \in [user : Accounts, session : Nat]
      /\ page.phase = "authenticated" => cookie \in [user : Accounts, session : Nat]
  BY PageKnown
<1> PICK k : k = Len(rows)
  OBVIOUS
<1> PICK n : n = ids
  OBVIOUS
<1>1. Coordinator(phone, n, k)
  BY <1>0, HereStarts
<1> PICK z : z = Disconnect(phone)
  OBVIOUS
<1>2. /\ Coordinator(z, n, k) /\ z.auth = None /\ z.request = None /\ z.timers = {}
      /\ Others(phone, z, {"connected", "auth", "last", "generation", "request", "timers", "attempts"})
  BY <1>1, Disconnects
<1> PICK y : y = [z EXCEPT !.connected = TRUE]
  OBVIOUS
<1>3. Coordinator(y, n, k) /\ Others(z, y, {"connected"}) /\ y.connected = TRUE
  BY <1>2 DEF Coordinator, Others, Fields
<1> PICK o : o = [kind |-> "flushLoad"]
  OBVIOUS
<1>4. o \in StoreOp(n, k) /\ o.kind = "flushLoad"
  BY DEF StoreOp, FlushOp
<1> PICK x : x = Enqueue(y, o)
  OBVIOUS
<1>5. Coordinator(x, n, k) /\ Others(y, x, {"queue"}) /\ x.queue = Append(y.queue, o)
  <2>1. Coordinator(y, n, k) /\ o \in StoreOp(n, k) /\ x = Enqueue(y, o)
    BY <1>3, <1>4
  <2> QED
    BY ONLY <2>1, Enqueues
<1>6. /\ x.queue = Append(phone.queue, o) /\ x.regs = phone.regs /\ x.auth = None /\ x.connected = TRUE
      /\ x.out = phone.out /\ x.request = None /\ x.timers = {}
  <2>1. z.queue = phone.queue /\ z.regs = phone.regs /\ z.out = phone.out
    BY ONLY <1>2 DEF Others, Fields
  <2>2. /\ y.queue = z.queue /\ y.regs = z.regs /\ y.auth = z.auth /\ y.out = z.out
        /\ y.request = z.request /\ y.timers = z.timers
    BY ONLY <1>3 DEF Others, Fields
  <2>3. /\ x.regs = y.regs /\ x.auth = y.auth /\ x.connected = y.connected /\ x.out = y.out
        /\ x.request = y.request /\ x.timers = y.timers
    BY ONLY <1>5 DEF Others, Fields
  <2> QED
    BY <1>2, <1>3, <1>5, <2>1, <2>2, <2>3
<1> PICK q : q = SendAuth(x, page)
  OBVIOUS
<1>7. /\ Coordinator(q, n, k)
      /\ Others(x, q, {"auth", "last", "generation", "request", "regs"})
      /\ q.auth = AuthPayload(page)
      /\ RegsKept(x, q) /\ q.request \in {None, x.request}
  <2>1. /\ n \in Nat /\ k \in Nat /\ Coordinator(x, n, k) /\ page \in PageType /\ Context_(page)
        /\ x.connected /\ x.auth = None /\ q = SendAuth(x, page)
    BY <1>0, <1>5, <1>6
  <2> QED
    BY ONLY <2>1, AuthSent
<1>8. /\ q.connected = TRUE /\ q.queue = Append(phone.queue, o) /\ RegsKept(phone, q)
      /\ q.out = phone.out /\ q.timers = {}
  <2>1. q.connected = x.connected /\ q.queue = x.queue /\ q.out = x.out /\ q.timers = x.timers
    BY <1>7 DEF Others, Fields
  <2> QED
    BY <1>6, <1>7, <2>1 DEF RegsKept
<1> PICK chain : chain = writes
  OBVIOUS
<1> PICK d : d = page
  OBVIOUS
<1>9. chain \in Seq(Request(n, k)) /\ ServedWell(chain, n, k)
  BY <1>0, ServedWells
<1>10. Sent(q, chain, d)
  BY Zenon DEF Connect, Settle
<1>11. /\ PhoneTyped' /\ PageTyped' /\ WritesTyped' /\ AuthInv' /\ StoreThere' /\ ResultInv'
       /\ BusyInv' /\ SamePage(d, page')
  <2>1. /\ ids' = n /\ Len(rows') = k /\ n \in Nat /\ k \in Nat /\ store' = store /\ cookie' = cookie
    BY <1>0 DEF Connect
  <2>2. \E a \in StoreOp(n, k) : a.kind \in {"endCreate", "flushLoad"} /\ q.queue = Append(phone.queue, a)
    BY <1>4, <1>8
  <2> QED
    <3>1. /\ TypeInv /\ n \in Nat /\ k \in Nat /\ ids' = n /\ Len(rows') = k /\ store' = store
          /\ Coordinator(q, n, k) /\ chain \in Seq(Request(n, k)) /\ ServedWell(chain, n, k)
          /\ d \in PageType /\ Context_(d) /\ Sent(q, chain, d)
          /\ q.connected = TRUE /\ q.auth = AuthPayload(d) /\ RegsKept(phone, q)
      BY <1>0, <1>7, <1>8, <1>9, <1>10, <2>1
    <3>2. /\ cookie' # None => cookie' \in [user : Accounts, session : Nat]
          /\ d.phase = "authenticated" => cookie' \in [user : Accounts, session : Nat]
      BY <1>0, <2>1
    <3> QED
      BY ONLY <2>2, <3>1, <3>2, Enters
<1>12. page'.user \notin ended'
  BY <1>0, <1>11 DEF SamePage, Connect
<1>13. StoreTyped' /\ WorldTyped' /\ EndedInv' /\ LogInv'
  BY <1>0, <1>12, Remains DEF Connect
<1>14. Coming(0)
  <2>1. NoneLater(q)
    BY <1>6, <1>7, <1>8 DEF NoneLater, TypeInv, Typed, PhoneTyped
  <2>2. Within(chain) /\ n \in Nat /\ k \in Nat
    BY <1>0, WithinWrites
  <2>3. \E a \in StoreOp(n, k) : a.kind \in {"endCreate", "flushLoad"} /\ q.queue = Append(phone.queue, a)
    BY <1>4, <1>8
  <2>4. Coordinator(q, n, k) /\ d \in PageType
    BY <1>0, <1>7
  <2> QED
    BY <1>9, <1>10, <2>1, <2>2, <2>3, <2>4, PageComes
<1>15. WorldFits /\ StoreFits(0)
  <2>1. /\ store' = store /\ known' = known /\ log' = log /\ issued' = issued /\ rows' = rows
        /\ ids' = ids
    BY DEF Connect
  <2> QED
    BY <1>0, <2>1, RecordStays, RowsSame DEF WorldFits
<1> QED
  BY <1>11, <1>13, <1>14, <1>15 DEF TypeInv, Typed, Onward

(* A step that leaves the coordinator as it is.                            *)
LEMMA PhoneStays ==
  ASSUME TypeInv, phone' = phone, writes' = writes \/ (writes # <<>> /\ writes' = Tail(writes))
  PROVE  Coming(0)
<1>1. SendsFit(phone)
  <2>1. phone.out = {}
    BY DEF TypeInv, Typed, PhoneTyped
  <2> QED
    BY <2>1, FitsFirst
<1>2. RequestFits(phone'.request) /\ \A t \in phone'.timers : TimerFits(t)
  BY <1>1 DEF SendsFit
<1>3. QueueFits(0)
  <2> PICK q : q = phone.queue
    OBVIOUS
  <2>1. \A i \in DOMAIN q : i + 0 = i
    <3>1. q \in Seq(StoreOp(ids, Len(rows)))
      BY DEF TypeInv, Typed, PhoneTyped, Coordinator
    <3> QED
      BY <3>1, SeqLen
  <2> QED
    BY <2>1 DEF QueueFits, Q
<1>4. WritesFit
  BY WithinWrites DEF WritesFit, Within
<1> QED
  BY <1>2, <1>3, <1>4 DEF Coming

LEMMA StopWaitingTyped ==
  ASSUME TypeInv, StopWaiting
  PROVE  TypeInv' /\ Onward
<1>1. page' = [page EXCEPT !.waiting = FALSE]
  BY DEF StopWaiting
<1>2. page' \in PageType /\ SamePage(page, page')
  BY <1>1, PageKnown DEF PageType, SamePage
<1>3. PageTyped'
  BY <1>2 DEF StopWaiting, TypeInv, Typed, PageTyped, SamePage, PageType
<1>4. AuthInv'
  BY <1>2 DEF StopWaiting, TypeInv, AuthInv, AuthPayload, SamePage
<1>5. EndedInv'
  BY <1>2 DEF StopWaiting, TypeInv, EndedInv, SamePage
<1>6. PhoneTyped' /\ StoreTyped' /\ WorldTyped' /\ WritesTyped'
  BY DEF StopWaiting, TypeInv, Typed, PhoneTyped, StoreTyped, WorldTyped, WritesTyped, Coordinator, W, Type
<1>7. StoreThere' /\ BusyInv' /\ ResultInv' /\ LogInv'
  BY DEF StopWaiting, TypeInv, StoreThere, BusyInv, ResultInv, LogInv, Q, Is
<1>8. Coming(0)
  BY PhoneStays DEF StopWaiting
<1>9. WorldFits /\ StoreFits(0)
  BY Numbers, RecordStays, RowsSame DEF WorldFits, StopWaiting
<1> QED
  BY <1>3, <1>4, <1>5, <1>6, <1>7, <1>8, <1>9 DEF TypeInv, Typed, Onward

(* A step that leaves the phone, its record, the page and the numbers.     *)
LEMMA Leaves ==
  ASSUME TypeInv, UNCHANGED <<store, phone, page, cookie>>, NEW n \in Nat, ids <= n, ids' = n,
         Len(rows') = Len(rows), WritesTyped', WorldTyped', LogInv', ended' = ended
  PROVE  TypeInv'
<1> PICK k : k = Len(rows)
  OBVIOUS
<1>0. ids \in Nat /\ k \in Nat
  BY Numbers
<1>1. /\ Pend(ids) \subseteq Pend(n) /\ Rev(ids, k) \subseteq Rev(n, k) /\ Held(ids) \subseteq Held(n)
  BY <1>0, Wider
<1>2. StoreTyped'
  BY <1>0, <1>1 DEF TypeInv, Typed, StoreTyped
<1>3. PhoneTyped'
  <2>1. Coordinator(phone, n, k) /\ phone.out = {}
    BY <1>0, CoordinatorWider DEF TypeInv, Typed, PhoneTyped
  <2> QED
    BY <2>1 DEF PhoneTyped
<1>4. PageTyped'
  BY DEF TypeInv, Typed, PageTyped
<1>5. AuthInv' /\ EndedInv' /\ StoreThere' /\ BusyInv' /\ ResultInv'
  BY DEF TypeInv, AuthInv, AuthPayload, EndedInv, StoreThere, BusyInv, ResultInv, Q, Is
<1> QED
  BY <1>2, <1>3, <1>4, <1>5 DEF TypeInv, Typed

LEMMA DropRequestTyped ==
  ASSUME TypeInv, DropRequest
  PROVE  TypeInv' /\ Onward
<1>0. writes # <<>> /\ writes' = Tail(writes) /\ ids \in Nat /\ Len(rows) \in Nat
  BY Numbers DEF DropRequest
<1>1. Tail(writes) \in Seq(Request(ids, Len(rows))) /\ ServedWell(Tail(writes), ids, Len(rows))
  BY <1>0, ServedWells
<1>2. WritesTyped'
  BY <1>0, <1>1 DEF DropRequest, WritesTyped, ServedWell, W, Type
<1>3. WorldTyped' /\ LogInv'
  BY DEF DropRequest, TypeInv, Typed, WorldTyped, LogInv
<1> PICK n : n = ids
  OBVIOUS
<1>4. TypeInv'
  BY <1>0, <1>2, <1>3, Leaves DEF DropRequest
<1>5. Coming(0)
  BY PhoneStays DEF DropRequest
<1>6. WorldFits /\ StoreFits(0)
  BY Numbers, RecordStays, RowsSame DEF WorldFits, DropRequest
<1> QED
  BY <1>4, <1>5, <1>6 DEF Onward

LEMMA RowChangesTyped ==
  ASSUME TypeInv, NEW i \in DOMAIN rows, RowChanges(i)
  PROVE  TypeInv' /\ Onward
<1>0. rows \in Seq(Row(ids)) /\ ids \in Nat /\ Len(rows) \in Nat
  BY PageKnown
<1> PICK r : r = IF rows[i].binding # 0 THEN Deactivated(rows[i]) ELSE NoRow
  OBVIOUS
<1>1. r \in Row(ids) /\ r.binding = 0
  <2>1. rows[i] \in Row(ids)
    BY <1>0, SeqLen
  <2>2. Deactivated(rows[i]) \in Row(ids) /\ Deactivated(rows[i]).binding = 0 /\ NoRow \in Row(ids)
    <3>1. \A x \in Row(ids) : Deactivated(x) \in Row(ids) /\ NoRow \in Row(ids) /\ Deactivated(x).binding = 0
      BY <1>0, Deactivates
    <3> QED
      BY <2>1, <3>1
  <2>3. NoRow.binding = 0
    BY DEF NoRow
  <2> QED
    BY <2>2, <2>3
<1>2. rows' = [rows EXCEPT ![i] = r]
  BY DEF RowChanges
<1>3. rows' \in Seq(Row(ids)) /\ Len(rows') = Len(rows)
  BY <1>0, <1>1, <1>2
<1> PICK n : n = ids
  OBVIOUS
<1>4. StoreTyped' /\ WorldTyped' /\ EndedInv' /\ LogInv'
  <2>1. page'.user \notin ended'
    BY PageKnown DEF RowChanges
  <2>2. gone' \subseteq Accounts
    BY PageKnown DEF RowChanges
  <2> QED
    BY <1>0, <1>3, <2>1, <2>2, Remains DEF RowChanges
<1>5. WritesTyped'
  BY <1>3 DEF RowChanges, TypeInv, Typed, WritesTyped, W, Type
<1>6. TypeInv'
  BY <1>0, <1>3, <1>4, <1>5, Leaves DEF RowChanges
<1>7. Coming(0)
  BY PhoneStays DEF RowChanges
<1>8. RowsFit
  <2>1. DOMAIN rows' = DOMAIN rows
    BY <1>2
  <2>2. \A j \in DOMAIN rows : rows'[j] = rows[j] \/ rows'[j].binding = 0
    BY <1>1, <1>2
  <2> QED
    BY <1>0, <1>3, <2>1, <2>2 DEF RowsFit
<1>9. WorldFits /\ StoreFits(0)
  BY <1>0, <1>8, RecordStays DEF WorldFits, RowChanges
<1> QED
  BY <1>6, <1>7, <1>9 DEF Onward

---------------------------------------------------------------------------
(* The server's step.                                                      *)
Newest(s) == IF s.row.binding > ids THEN s.row.binding ELSE ids
ServesWell(s, k) ==
  /\ Newest(s) \in {ids, ids + 1} /\ s.row \in Row(Newest(s)) /\ s.answer \in Ans(Newest(s), k)
  /\ s.logged \in BOOLEAN /\ (s.logged => s.answer.outcome = "SUCCESS")

LEMMA ServesWellIs ==
  ASSUME ids \in Nat, NEW k, NEW s, NEW n \in {ids, ids + 1}, s.row \in Row(n), s.answer \in Ans(n, k),
         s.logged \in BOOLEAN, s.logged => s.answer.outcome = "SUCCESS",
         n = ids \/ s.row.binding = n
  PROVE  ServesWell(s, k)
<1>1. s.row.binding \in 0 .. n
  BY DEF Row
<1>2. Newest(s) = n
  BY <1>1 DEF Newest
<1> QED
  BY <1>2 DEF ServesWell

LEMMA RowIs ==
  ASSUME NEW n, NEW r \in Row(n)
  PROVE  /\ r.user \in Accounts \cup {None} /\ r.session \in Nat /\ r.binding \in 0 .. n
         /\ r.revision \in Nat /\ r.token \in Tokens \cup {None} /\ (r.binding # 0 => r.user # None)
BY DEF Row

LEMMA Results ==
  ASSUME TypeInv, NEW operation, Logged(operation)
  PROVE  /\ Result(operation) \in Ans(ids, Len(rows)) /\ Result(operation).outcome = "SUCCESS"
         /\ \E l \in log : l.operation = operation /\ l.answer = Result(operation)
<1> PICK x : x = CHOOSE l \in log : l.operation = operation
  OBVIOUS
<1>1. x \in log /\ x.operation = operation
  BY DEF Logged
<1>2. Result(operation) = x.answer
  BY DEF Result
<1>3. log \subseteq Logs(ids, Len(rows)) /\ \A l \in log : l.answer.outcome = "SUCCESS"
  BY DEF TypeInv, Typed, WorldTyped, LogInv
<1>4. x.answer \in Ans(ids, Len(rows)) /\ x.answer.outcome = "SUCCESS"
  BY <1>1, <1>3 DEF Logs
<1> QED
  BY <1>1, <1>2, <1>4

LEMMA StateServed ==
  ASSUME TypeInv, NEW i \in 1 .. Len(rows), page.user \in Accounts
  PROVE  ServesWell(ServeState(i), Len(rows))
<1>1. rows[i] \in Row(ids) /\ ids \in Nat /\ 0 \in 0 .. ids
  BY PageKnown, SeqLen
<1> PICK s : s = ServeState(i)
  OBVIOUS
<1>2. s.row = rows[i] /\ s.logged = FALSE /\ s.row \in Row(ids)
  BY <1>1 DEF ServeState
<1>3. s.answer \in Ans(ids, Len(rows))
  <2>1. \/ s.answer = Answer("SUCCESS", "", i, page.user, rows[i].revision, rows[i].binding)
        \/ s.answer = Answer("NOT_FOUND", "", i, page.user, 0, 0)
    BY DEF ServeState
  <2> PICK row : row = rows[i]
    OBVIOUS
  <2>2. row.revision \in Nat /\ row.binding \in 0 .. ids
    BY <1>1, RowIs
  <2>3. /\ Answer("SUCCESS", "", i, page.user, row.revision, row.binding) \in Ans(ids, Len(rows))
        /\ Answer("NOT_FOUND", "", i, page.user, 0, 0) \in Ans(ids, Len(rows))
    BY <1>1, <2>2 DEF Answer, Ans
  <2> QED
    BY <2>1, <2>3
<1> QED
  BY <1>1, <1>2, <1>3, ServesWellIs

LEMMA DeviceServed ==
  ASSUME TypeInv, NEW i \in 1 .. Len(rows), NEW pending \in Pend(ids), page.phase = "authenticated"
  PROVE  /\ ServesWell(ServeDevice(i, pending), Len(rows))
         /\ ServeDevice(i, pending).answer.outcome \in {"SUCCESS", "FAILED"}
<1>0. /\ rows[i] \in Row(ids) /\ ids \in Nat /\ page.user \in Accounts /\ Len(rows) \in Nat
      /\ cookie \in [user : Accounts, session : Nat] /\ None \notin Accounts /\ 0 \in 0 .. ids
  BY PageKnown, SeqLen
<1> PICK k : k = Len(rows)
  OBVIOUS
<1> PICK row : row = rows[i]
  OBVIOUS
<1> PICK b : b = IF row.binding # 0 /\ row.user = page.user THEN row.binding ELSE ids + 1
  OBVIOUS
<1>n. PICK new : new = [user |-> page.user, session |-> cookie.session, binding |-> b,
                        revision |-> row.revision + 1, token |-> pending.token]
  OBVIOUS
<1> PICK off : off = Deactivated(row)
  OBVIOUS
<1> PICK kept : kept = IF pending.token = None THEN off ELSE new
  OBVIOUS
<1> PICK s : s = ServeDevice(i, pending)
  OBVIOUS
<1>1. \/ /\ Logged(pending.operation)
         /\ s = [row |-> row, logged |-> FALSE, answer |-> Result(pending.operation)]
      \/ s = [row |-> row, logged |-> FALSE, answer |-> Answer("SUCCESS", "", i, page.user, 0, 0)]
      \/ s = [row |-> row, logged |-> FALSE,
              answer |-> Answer("FAILED", "CONFLICT", i, page.user, 0, 0)]
      \/ s = [row |-> kept, logged |-> TRUE,
              answer |-> Answer("SUCCESS", "", i, page.user, kept.revision, kept.binding)]
  BY <1>n DEF ServeDevice
<1>3. CASE /\ Logged(pending.operation)
           /\ s = [row |-> row, logged |-> FALSE, answer |-> Result(pending.operation)]
  <2>1. /\ s.row = row /\ s.logged = FALSE /\ s.answer \in Ans(ids, k) /\ s.answer.outcome = "SUCCESS"
    BY <1>3, Results
  <2> QED
    BY <1>0, <2>1, ServesWellIs
<1>4. CASE s = [row |-> row, logged |-> FALSE, answer |-> Answer("SUCCESS", "", i, page.user, 0, 0)]
  <2> PICK a : a = Answer("SUCCESS", "", i, page.user, 0, 0)
    OBVIOUS
  <2>1. s.row = row /\ s.logged = FALSE /\ s.answer = a
    BY ONLY <1>4, a = Answer("SUCCESS", "", i, page.user, 0, 0)
  <2>2. a \in Ans(ids, k) /\ a.outcome = "SUCCESS"
    BY <1>0 DEF Answer, Ans
  <2> QED
    BY <1>0, <2>1, <2>2, ServesWellIs
<1>5. CASE s = [row |-> row, logged |-> FALSE,
                answer |-> Answer("FAILED", "CONFLICT", i, page.user, 0, 0)]
  <2> PICK a : a = Answer("FAILED", "CONFLICT", i, page.user, 0, 0)
    OBVIOUS
  <2>1. s.row = row /\ s.logged = FALSE /\ s.answer = a
    BY ONLY <1>5, a = Answer("FAILED", "CONFLICT", i, page.user, 0, 0)
  <2>2. a \in Ans(ids, k) /\ a.outcome = "FAILED"
    BY <1>0 DEF Answer, Ans
  <2> QED
    BY <1>0, <2>1, <2>2, ServesWellIs
<1>6. CASE s = [row |-> kept, logged |-> TRUE,
                answer |-> Answer("SUCCESS", "", i, page.user, kept.revision, kept.binding)]
  <2>1. \E n \in {ids, ids + 1} : kept \in Row(n) /\ (n = ids \/ kept.binding = n)
    <3>0. row.binding \in 0 .. ids /\ row.revision + 1 \in Nat
      BY <1>0, RowIs
    <3>1. CASE pending.token = None
      BY <1>0, <3>1, Deactivates
    <3>2. CASE pending.token # None
      <4>1. cookie.session \in Nat /\ pending.token \in Tokens \cup {None}
        BY <1>0 DEF Pend
      <4>2. CASE b = ids + 1
        <5> PICK n : n = ids + 1
          OBVIOUS
        <5>1. b \in 0 .. n
          BY <1>0, <4>2
        <5>2. new \in Row(n) /\ new.binding = n
          BY <1>n, <1>0, <3>0, <4>1, <4>2, <5>1 DEF Row
        <5> QED
          BY <3>2, <5>2
      <4>3. CASE b # ids + 1
        <5>1. b \in 0 .. ids
          BY <3>0, <4>3
        <5>2. new \in Row(ids)
          BY <1>n, <1>0, <3>0, <4>1, <5>1 DEF Row
        <5> QED
          BY <3>2, <5>2
      <4> QED
        BY <4>2, <4>3
    <3> QED
      BY <3>1, <3>2
  <2> PICK n \in {ids, ids + 1} : kept \in Row(n) /\ (n = ids \/ kept.binding = n)
    BY <2>1
  <2>2. kept.revision \in Nat /\ kept.binding \in 0 .. n /\ n \in Nat
    BY <1>0, RowIs
  <2> PICK a : a = Answer("SUCCESS", "", i, page.user, kept.revision, kept.binding)
    OBVIOUS
  <2>3. s.row = kept /\ s.logged = TRUE /\ s.answer = a
    BY ONLY <1>6, a = Answer("SUCCESS", "", i, page.user, kept.revision, kept.binding)
  <2>4. a \in Ans(n, k) /\ a.outcome = "SUCCESS"
    BY <1>0, <2>2 DEF Answer, Ans
  <2> QED
    BY <1>0, <2>3, <2>4, ServesWellIs
<1> QED
  BY <1>1, <1>3, <1>4, <1>5, <1>6

LEMMA RevokeServed ==
  ASSUME TypeInv, NEW i \in 1 .. Len(rows), NEW revoke \in Rev(ids, Len(rows))
  PROVE  ServesWell(ServeRevoke(i, revoke), Len(rows))
<1>0. rows[i] \in Row(ids) /\ ids \in Nat /\ Len(rows) \in Nat /\ 0 \in 0 .. ids
  BY PageKnown, SeqLen
<1> PICK k : k = Len(rows)
  OBVIOUS
<1> PICK row : row = rows[i]
  OBVIOUS
<1> PICK off : off = IF row.binding = revoke.binding THEN Deactivated(row) ELSE row
  OBVIOUS
<1>1. off \in Row(ids)
  BY <1>0, Deactivates
<1> PICK s : s = ServeRevoke(i, revoke)
  OBVIOUS
<1> PICK yes : yes = Answer("SUCCESS", "", i, None, 0, 0)
  OBVIOUS
<1> PICK no : no = Answer("FAILED", "CONFLICT", i, None, 0, 0)
  OBVIOUS
<1>2. \/ s = [row |-> row, logged |-> FALSE, answer |-> yes]
      \/ /\ Logged(revoke.operation)
         /\ s = [row |-> row, logged |-> FALSE, answer |-> Result(revoke.operation)]
      \/ s = [row |-> row, logged |-> FALSE, answer |-> no]
      \/ s = [row |-> off, logged |-> TRUE, answer |-> yes]
  BY DEF ServeRevoke
<1>3. /\ yes \in Ans(ids, k) /\ yes.outcome = "SUCCESS" /\ no \in Ans(ids, k)
  BY <1>0 DEF Answer, Ans
<1>4. /\ s.row \in Row(ids) /\ s.answer \in Ans(ids, k) /\ s.logged \in BOOLEAN
      /\ (s.logged => s.answer.outcome = "SUCCESS")
  <2>1. CASE s = [row |-> row, logged |-> FALSE, answer |-> yes]
    <3>1. s.row = row /\ s.logged = FALSE /\ s.answer = yes
      BY ONLY <2>1
    <3> QED
      BY <1>0, <1>3, <3>1
  <2>2. CASE /\ Logged(revoke.operation)
             /\ s = [row |-> row, logged |-> FALSE, answer |-> Result(revoke.operation)]
    <3>1. s.row = row /\ s.logged = FALSE /\ s.answer = Result(revoke.operation)
      BY ONLY <2>2
    <3> QED
      BY <1>0, <2>2, <3>1, Results
  <2>3. CASE s = [row |-> row, logged |-> FALSE, answer |-> no]
    <3>1. s.row = row /\ s.logged = FALSE /\ s.answer = no
      BY ONLY <2>3
    <3> QED
      BY <1>0, <1>3, <3>1
  <2>4. CASE s = [row |-> off, logged |-> TRUE, answer |-> yes]
    <3>1. s.row = off /\ s.logged = TRUE /\ s.answer = yes
      BY ONLY <2>4
    <3> QED
      BY <1>1, <1>3, <3>1
  <2> QED
    BY <1>2, <2>1, <2>2, <2>3, <2>4
<1> QED
  BY <1>0, <1>4, ServesWellIs

LEMMA MessageServed ==
  ASSUME TypeInv, NEW m \in Message(ids, Len(rows)), Executable(m)
  PROVE  /\ Installation(m) \in 1 .. Len(rows) /\ ServesWell(Served(m), Len(rows))
         /\ m.type = "DEVICE" => Served(m).answer.outcome \in {"SUCCESS", "FAILED"}
         /\ m.type = "STATE" => Installation(m) = m.body /\ Served(m) = ServeState(m.body)
         /\ m.type = "DEVICE" => /\ Installation(m) = m.body.installation
                                 /\ Served(m) = ServeDevice(m.body.installation, m.body.pending)
                                 /\ m.body.pending \in Pend(ids) /\ m.id = m.body.pending.operation
         /\ m.type = "REVOKE" => /\ Installation(m) = m.body.installation
                                 /\ Served(m) = ServeRevoke(m.body.installation, m.body)
                                 /\ m.body \in Rev(ids, Len(rows)) /\ m.id = m.body.operation
         /\ m.type \in {"STATE", "DEVICE", "REVOKE"} /\ m.id \in 0 .. ids
         /\ m.type # "REVOKE" => page.phase = "authenticated" /\ page.user \in Accounts
<1>0. m \in Outgoing(ids, Len(rows))
  BY DEF Outgoing
<1>1. CASE m.type = "STATE"
  <2>1. m \in StateMsg(ids, Len(rows)) /\ m.body \in 1 .. Len(rows) /\ m.id \in 0 .. ids
    BY <1>0, <1>1, MessageKinds DEF StateMsg
  <2>2. Installation(m) = m.body /\ Served(m) = ServeState(m.body)
    BY <1>1 DEF Installation, Served
  <2>3. page.phase = "authenticated" /\ page.user \in Accounts
    BY <1>1, PageKnown DEF Executable
  <2> QED
    BY <1>1, <2>1, <2>2, <2>3, StateServed
<1>2. CASE m.type = "DEVICE"
  <2>1. /\ m.body.installation \in 1 .. Len(rows) /\ m.body.pending \in Pend(ids) /\ m.id \in 0 .. ids
        /\ m.id = m.body.pending.operation
    BY <1>0, <1>2, MessageKinds DEF DeviceMsg
  <2>2. Installation(m) = m.body.installation /\ Served(m) = ServeDevice(m.body.installation, m.body.pending)
    BY <1>2 DEF Installation, Served
  <2>3. page.phase = "authenticated" /\ page.user \in Accounts
    BY <1>2, PageKnown DEF Executable
  <2> QED
    BY <1>2, <2>1, <2>2, <2>3, DeviceServed
<1>3. CASE m.type = "REVOKE"
  <2>1. /\ m.body \in Rev(ids, Len(rows)) /\ m.id \in 0 .. ids /\ m.id = m.body.operation
        /\ m.body.installation \in 1 .. Len(rows)
    BY <1>0, <1>3, MessageKinds DEF RevokeMsg, Rev
  <2>2. Installation(m) = m.body.installation /\ Served(m) = ServeRevoke(m.body.installation, m.body)
    BY <1>3 DEF Installation, Served
  <2> QED
    BY <1>3, <2>1, <2>2, RevokeServed
<1> QED
  BY <1>0, <1>1, <1>2, <1>3, MessageKinds

(* What the step comes to.                                                 *)
Lost(i, code) == Answer(IF code = "" THEN "RETRY" ELSE "FAILED", code, i, None, 0, 0)
Effect(m, s) ==
  /\ rows' = [rows EXCEPT ![Installation(m)] = s.row]
  /\ log' = IF s.logged THEN log \cup {[operation |-> m.id, answer |-> s.answer]} ELSE log
  /\ ids' = Newest(s)
  /\ issued' = IF m.type = "DEVICE" /\ s.row.binding # 0
               THEN issued \cup {[installation |-> Installation(m), user |-> s.row.user,
                                  id |-> s.row.binding, revision |-> s.row.revision,
                                  token |-> s.row.token]}
               ELSE issued

LEMMA ServeIs ==
  ASSUME TypeInv, Serve
  PROVE  \E m, s, a :
           /\ m = writes[1].message /\ s = Served(m) /\ m \in Message(ids, Len(rows)) /\ Executable(m)
           /\ 1 \in W /\ ~writes[1].served
           /\ \/ Effect(m, s) /\ a = s.answer /\ UNCHANGED events
              \/ Effect(m, s) /\ a = Lost(Installation(m), "") /\ Lose
              \/ /\ a = Lost(Installation(m), "") \/ (m.type # "STATE" /\ a = Lost(Installation(m), "EXPIRED"))
                 /\ Lose /\ UNCHANGED <<rows, log, ids, issued>>
           /\ Answered(a)
           /\ UNCHANGED <<store, phone, page, cookie, target, gone, known, ended, disturbed>>
<1>0. writes # <<>> /\ writes \in Seq(Request(ids, Len(rows)))
  BY DEF Serve, TypeInv, Typed, WritesTyped
<1>1. Head(writes) = writes[1] /\ 1 \in W /\ writes[1].message \in Message(ids, Len(rows))
  <2>1. Head(writes) = writes[1] /\ 1 \in DOMAIN writes /\ writes[1] \in Request(ids, Len(rows))
    BY <1>0, SeqTail
  <2> QED
    BY <2>1 DEF W, Request
<1> PICK m : m = writes[1].message
  OBVIOUS
<1>2. m = Head(writes).message
  BY <1>1
<1> PICK s : s = Served(m)
  OBVIOUS
<1>3. /\ \/ Effect(m, s) /\ Answered(s.answer) /\ UNCHANGED events
         \/ Effect(m, s) /\ Answered(Lost(Installation(m), "")) /\ Lose
         \/ /\ Answered(Lost(Installation(m), "")) \/ (m.type # "STATE" /\ Answered(Lost(Installation(m), "EXPIRED")))
            /\ Lose /\ UNCHANGED <<rows, log, ids, issued>>
      /\ Executable(m) /\ ~Head(writes).served
      /\ UNCHANGED <<store, phone, page, cookie, target, gone, known, ended, disturbed>>
  BY <1>2, Zenon DEF Serve, Effect, Lost, Newest
<1> QED
  BY <1>1, <1>3

LEMMA AnsweredTyped ==
  ASSUME TypeInv, NEW n \in Nat, ids <= n, ids' = n, Len(rows') = Len(rows), 1 \in W,
         NEW a \in Ans(n, Len(rows)), Answered(a),
         writes[1].message.type = "DEVICE" => a.outcome \in {"SUCCESS", "FAILED", "RETRY"}
  PROVE  /\ WritesTyped' /\ W' = W /\ writes'[1].message = writes[1].message
         /\ writes'[1].served = TRUE /\ writes'[1].answer = a
         /\ \A j \in W : j # 1 => writes'[j] = writes[j]
<1> PICK k : k = Len(rows)
  OBVIOUS
<1>1. writes \in Seq(Request(n, k)) /\ ServedWell(writes, n, k)
  BY Numbers, ServedWells
<1>w. PICK w : w = [writes[1] EXCEPT !.served = TRUE, !.epoch = page.epoch, !.answer = a]
  OBVIOUS
<1>2. writes' = [writes EXCEPT ![1] = w]
  BY <1>w DEF Answered
<1>3. /\ w \in Request(n, k) /\ w.answer = a /\ w.message = writes[1].message /\ w.served = TRUE
  <2>1. writes[1] \in Request(n, k) /\ page.epoch \in Nat
    BY <1>1, SeqLen, PageKnown DEF W
  <2> QED
    BY <1>w, <2>1 DEF Request
<1>4. /\ writes' \in Seq(Request(n, k)) /\ DOMAIN writes' = DOMAIN writes /\ writes'[1] = w
      /\ \A j \in DOMAIN writes : j # 1 => writes'[j] = writes[j]
  BY <1>1, <1>2, <1>3 DEF W
<1>5. WritesTyped'
  BY <1>1, <1>3, <1>4 DEF WritesTyped, ServedWell, W, Type
<1> QED
  BY <1>3, <1>4, <1>5 DEF W

LEMMA EffectTyped ==
  ASSUME TypeInv, NEW m \in Message(ids, Len(rows)), NEW s, s = Served(m), Executable(m), Effect(m, s),
         Count(1) \/ Lose \/ UNCHANGED events,
         UNCHANGED <<target, gone, known, ended, disturbed>>
  PROVE  /\ Newest(s) \in Nat /\ ids <= Newest(s) /\ ids' = Newest(s) /\ Len(rows') = Len(rows)
         /\ s.answer \in Ans(Newest(s), Len(rows)) /\ WorldTyped' /\ LogInv'
<1> PICK k : k = Len(rows)
  OBVIOUS
<1> PICK i : i = Installation(m)
  OBVIOUS
<1> PICK n : n = Newest(s)
  OBVIOUS
<1>0. /\ i \in 1 .. k /\ ServesWell(s, k) /\ m.id \in 0 .. ids /\ ids \in Nat /\ k \in Nat
      /\ rows \in Seq(Row(ids))
  BY MessageServed, PageKnown
<1>1. /\ n \in {ids, ids + 1} /\ s.row \in Row(n) /\ s.answer \in Ans(n, k)
      /\ s.logged \in BOOLEAN /\ (s.logged => s.answer.outcome = "SUCCESS")
  BY <1>0 DEF ServesWell
<1>2. n \in Nat /\ ids <= n /\ m.id \in 0 .. n
  BY <1>0, <1>1
<1>3. ids' = n
  BY DEF Effect
<1>4. rows' \in Seq(Row(n)) /\ Len(rows') = k
  <2>1. rows \in Seq(Row(n))
    BY <1>0, <1>2, Wider, SeqWider
  <2>2. rows' = [rows EXCEPT ![i] = s.row]
    BY DEF Effect
  <2> QED
    BY <1>0, <1>1, <2>1, <2>2
<1>5. issued' \subseteq Issue(n, k)
  <2>1. issued \subseteq Issue(n, k)
    BY <1>0, <1>2, Wider DEF TypeInv, Typed, WorldTyped
  <2> PICK x : x = [installation |-> i, user |-> s.row.user, id |-> s.row.binding,
                    revision |-> s.row.revision, token |-> s.row.token]
    OBVIOUS
  <2>2. s.row.binding # 0 => x \in Issue(n, k)
    <3>1. /\ s.row.user \in Accounts \cup {None} /\ s.row.binding \in 0 .. n
          /\ s.row.revision \in Nat /\ s.row.token \in Tokens \cup {None}
          /\ s.row.binding # 0 => s.row.user # None
      BY <1>1, RowIs
    <3>2. s.row.binding # 0 => s.row.user \in Accounts /\ s.row.binding \in 1 .. n
      BY <1>2, <3>1
    <3> QED
      BY <1>0, <3>1, <3>2 DEF Issue
  <2>3. issued' = issued \/ (s.row.binding # 0 /\ issued' = issued \cup {x})
    BY DEF Effect
  <2> QED
    BY <2>1, <2>2, <2>3
<1>6. log' \subseteq Logs(n, k) /\ LogInv'
  <2>1. log \subseteq Logs(n, k) /\ LogInv
    BY <1>0, <1>2, Wider DEF TypeInv, Typed, WorldTyped
  <2> PICK x : x = [operation |-> m.id, answer |-> s.answer]
    OBVIOUS
  <2>2. x \in Logs(n, k) /\ x.answer = s.answer
    BY <1>1, <1>2 DEF Logs
  <2>3. log' = log \/ (s.logged /\ log' = log \cup {x})
    BY <1>1 DEF Effect
  <2> QED
    BY <1>1, <2>1, <2>2, <2>3 DEF LogInv
<1>7. WorldTyped'
  <2>1. /\ events' \in [acts : Nat, losses : Nat] /\ events'.acts \in Nat
        /\ events'.losses \in 0 .. MaxLosses /\ events'.acts + events'.losses <= MaxEvents
    BY Counted
  <2>2. /\ known \subseteq 1 .. n /\ target \in Tokens \cup {None} /\ disturbed \in BOOLEAN
        /\ gone \subseteq Accounts /\ ended \subseteq Accounts
    BY <1>0, <1>2 DEF TypeInv, Typed, WorldTyped
  <2> QED
    BY <1>2, <1>3, <1>4, <1>5, <1>6, <2>1, <2>2 DEF WorldTyped
<1> QED
  BY <1>1, <1>2, <1>3, <1>4, <1>6, <1>7

LEMMA LostIs ==
  ASSUME NEW n \in Nat, NEW k, NEW i \in 1 .. k
  PROVE  /\ Lost(i, "") \in Ans(n, k) /\ Lost(i, "").outcome = "RETRY" /\ Lost(i, "").binding = 0
         /\ Lost(i, "EXPIRED") \in Ans(n, k) /\ Lost(i, "EXPIRED").outcome = "FAILED"
         /\ Lost(i, "EXPIRED").binding = 0
<1>1. Lost(i, "") = Answer("RETRY", "", i, None, 0, 0)
  BY DEF Lost
<1>2. Lost(i, "EXPIRED") = Answer("FAILED", "EXPIRED", i, None, 0, 0)
  BY DEF Lost
<1>3. Answer("RETRY", "", i, None, 0, 0) \in Ans(n, k) /\ Answer("FAILED", "EXPIRED", i, None, 0, 0) \in Ans(n, k)
  BY DEF Answer, Ans
<1>4. /\ Answer("RETRY", "", i, None, 0, 0).outcome = "RETRY"
      /\ Answer("RETRY", "", i, None, 0, 0).binding = 0
      /\ Answer("FAILED", "EXPIRED", i, None, 0, 0).outcome = "FAILED"
      /\ Answer("FAILED", "EXPIRED", i, None, 0, 0).binding = 0
  BY DEF Answer
<1> QED
  BY ONLY <1>1, <1>2, <1>3, <1>4

LEMMA ServeTyped ==
  ASSUME TypeInv, Serve
  PROVE  TypeInv'
<1>p. PICK m, s, a :
      /\ m = writes[1].message /\ s = Served(m) /\ m \in Message(ids, Len(rows)) /\ Executable(m)
      /\ 1 \in W /\ ~writes[1].served
      /\ \/ Effect(m, s) /\ a = s.answer /\ UNCHANGED events
         \/ Effect(m, s) /\ a = Lost(Installation(m), "") /\ Lose
         \/ /\ a = Lost(Installation(m), "") \/ (m.type # "STATE" /\ a = Lost(Installation(m), "EXPIRED"))
            /\ Lose /\ UNCHANGED <<rows, log, ids, issued>>
      /\ Answered(a)
      /\ UNCHANGED <<store, phone, page, cookie, target, gone, known, ended, disturbed>>
  BY ServeIs
<1> PICK k : k = Len(rows)
  OBVIOUS
<1> PICK i : i = Installation(m)
  OBVIOUS
<1>0. /\ i \in 1 .. k /\ (m.type = "DEVICE" => s.answer.outcome \in {"SUCCESS", "FAILED"})
      /\ ids \in Nat
  BY <1>p, MessageServed, PageKnown
<1>1. \E n \in Nat : /\ ids <= n /\ ids' = n /\ Len(rows') = k /\ WorldTyped' /\ LogInv'
                     /\ a \in Ans(n, k) /\ (m.type = "DEVICE" => a.outcome \in {"SUCCESS", "FAILED", "RETRY"})
  <2>1. CASE Effect(m, s) /\ (a = s.answer \/ a = Lost(i, "")) /\ (Lose \/ UNCHANGED events)
    <3> PICK n : n = Newest(s)
      OBVIOUS
    <3>1. /\ n \in Nat /\ ids <= n /\ ids' = n /\ Len(rows') = k
          /\ s.answer \in Ans(n, k) /\ WorldTyped' /\ LogInv'
      BY <1>p, <2>1, EffectTyped
    <3>2. Lost(i, "") \in Ans(n, k) /\ Lost(i, "").outcome = "RETRY"
      BY <1>0, <3>1, LostIs
    <3>3. a \in Ans(n, k) /\ (m.type = "DEVICE" => a.outcome \in {"SUCCESS", "FAILED", "RETRY"})
      BY <1>0, <2>1, <3>1, <3>2
    <3> QED
      BY <3>1, <3>3
  <2>2. CASE /\ a = Lost(i, "") \/ a = Lost(i, "EXPIRED")
             /\ Lose /\ UNCHANGED <<rows, log, ids, issued>>
    <3>1. a \in Ans(ids, k) /\ a.outcome \in {"RETRY", "FAILED"}
      BY <1>0, <2>2, LostIs
    <3>2. /\ events' \in [acts : Nat, losses : Nat] /\ events'.acts \in Nat
          /\ events'.losses \in 0 .. MaxLosses /\ events'.acts + events'.losses <= MaxEvents
      BY <2>2, Counted
    <3>3. /\ target' = target /\ gone' = gone /\ known' = known /\ ended' = ended
          /\ disturbed' = disturbed
      BY <1>p
    <3>4. WorldTyped'
      BY <2>2, <3>2, <3>3 DEF TypeInv, Typed, WorldTyped
    <3>5. LogInv'
      BY <2>2 DEF TypeInv, LogInv
    <3> PICK n : n = ids
      OBVIOUS
    <3>6. n \in Nat /\ n <= n /\ ids <= n
      BY <1>0
    <3>7. ids' = n /\ Len(rows') = k /\ a \in Ans(n, k)
      BY Zenon, <2>2, <3>1
    <3> QED
      BY <3>1, <3>4, <3>5, <3>6, <3>7
  <2> QED
    BY <1>p, <2>1, <2>2
<1>2. PICK n \in Nat :
         /\ ids <= n /\ ids' = n /\ Len(rows') = k /\ WorldTyped' /\ LogInv'
         /\ a \in Ans(n, k) /\ (m.type = "DEVICE" => a.outcome \in {"SUCCESS", "FAILED", "RETRY"})
  BY <1>1
<1>3. WritesTyped'
  BY <1>p, <1>2, AnsweredTyped
<1> QED
  BY <1>p, <1>2, <1>3, Leaves

---------------------------------------------------------------------------
(* The invariant.                                                          *)
LEMMA FirstTyped ==
  ASSUME Init
  PROVE  TypeInv
<1>0. /\ Earlier \in Accounts /\ None \notin Accounts /\ None \notin Tokens /\ MaxEvents \in Nat /\ MaxLosses \in Nat
      /\ FirstToken \in Tokens
  BY PhoneAssumption DEF FirstToken
<1> PICK t : t = FirstToken
  OBVIOUS
<1>a. /\ phone = NewPhone /\ page = NewPage(0) /\ writes = <<>>
      /\ log = {} /\ gone = {} /\ events = [acts |-> 0, losses |-> 0]
      /\ ended = {} /\ disturbed = FALSE
  BY DEF Init
<1>1. /\ Len(rows) \in Nat /\ ids \in Nat /\ StoreTyped /\ WorldTyped
      /\ cookie # None => cookie \in [user : Accounts, session : Nat]
  <2>1. CASE store = None /\ cookie = None /\ rows = <<>> /\ issued = {} /\ known = {} /\ ids = 0
             /\ target = FirstToken
    <3>1. /\ events \in [acts : Nat, losses : Nat] /\ events.acts = 0 /\ events.losses = 0
          /\ gone = {} /\ ended = {} /\ disturbed = FALSE /\ log = {}
      BY <1>a
    <3>2. /\ 0 \in Nat /\ 0 \in 0 .. MaxLosses /\ 0 + 0 <= MaxEvents /\ target \in Tokens
          /\ <<>> \in Seq(Row(0)) /\ Len(<<>>) \in Nat
      BY <1>0, <2>1
    <3>3. WorldTyped
      BY <2>1, <3>1, <3>2 DEF WorldTyped
    <3> QED
      BY <2>1, <3>2, <3>3 DEF StoreTyped
  <2>2. CASE LET u == Earlier
                 binding == [id |-> 1, user |-> u, revision |-> 1, token |-> t] IN
          /\ store = [Recorded(1) EXCEPT !.binding = binding,
                        !.ack = [operation |-> 2, installation |-> 1, user |-> u,
                                 epoch |-> 1, binding |-> 1, revision |-> 1]]
          /\ cookie = [user |-> u, session |-> 3]
          /\ rows = <<[user |-> u, session |-> 3, binding |-> 1, revision |-> 1, token |-> t]>>
          /\ issued = {[installation |-> 1, user |-> u, id |-> 1, revision |-> 1, token |-> t]}
          /\ known = {1} /\ ids = 3
          /\ target \in Tokens
    <3> PICK u : u = Earlier
      OBVIOUS
    <3> PICK r : r = [user |-> u, session |-> 3, binding |-> 1, revision |-> 1, token |-> t]
      OBVIOUS
    <3>1. rows = <<r>> /\ Len(rows) = 1 /\ rows[1] = r /\ DOMAIN rows = {1}
      BY <2>2
    <3>2. r \in Row(3)
      BY <1>0 DEF Row
    <3>3. rows \in Seq(Row(3))
      BY <3>1, <3>2
    <3> PICK b : b = [id |-> 1, user |-> u, revision |-> 1, token |-> t]
      OBVIOUS
    <3> PICK ack : ack = [operation |-> 2, installation |-> 1, user |-> u,
                          epoch |-> 1, binding |-> 1, revision |-> 1]
      OBVIOUS
    <3>4. store = [installation |-> 1, binding |-> b, pending |-> None, revokes |-> {}, ack |-> ack]
      BY <2>2 DEF Recorded
    <3>5. b \in Held(3) /\ ack \in Acks
      BY <1>0 DEF Held, Acks
    <3>6. RecordWell(store, 3, 1)
      BY <3>4, <3>5, FS_EmptySet DEF RecordWell, RecordType
    <3>7. store \in Records
      BY <3>6, RecordWells
    <3>8. ids = 3
      BY <2>2
    <3>9. StoreTyped
      BY <3>1, <3>6, <3>7, <3>8 DEF StoreTyped, RecordWell, RecordType
    <3>10. issued \subseteq Issue(3, 1)
      BY <1>0, <2>2 DEF Issue
    <3>11. /\ events \in [acts : Nat, losses : Nat] /\ events.acts = 0 /\ events.losses = 0
           /\ gone = {} /\ ended = {} /\ disturbed = FALSE /\ log = {}
      BY <1>a
    <3>12. known \subseteq 1 .. 3 /\ target \in Tokens
      BY <2>2
    <3>13. 0 \in Nat /\ 0 \in 0 .. MaxLosses /\ 0 + 0 <= MaxEvents /\ 3 \in Nat
      BY <1>0
    <3>14. WorldTyped
      BY <3>1, <3>3, <3>8, <3>10, <3>11, <3>12, <3>13 DEF WorldTyped
    <3> QED
      BY <1>0, <2>2, <3>1, <3>8, <3>9, <3>14
  <2> QED
    BY <2>1, <2>2 DEF Init
<1>2. PhoneTyped
  <2>1. /\ DOMAIN phone = {"connected", "auth", "last", "generation", "request", "regs", "queue",
                            "timers", "attempts", "out"}
        /\ phone.connected = FALSE /\ phone.generation = 0 /\ phone.auth = None /\ phone.last = None
        /\ phone.request = None /\ phone.regs = <<>> /\ phone.queue = <<>> /\ phone.timers = {}
        /\ phone.out = {}
    BY <1>a DEF NewPhone
  <2>2. 0 \in Nat /\ <<>> \in Seq(Reg) /\ <<>> \in Seq(StoreOp(ids, Len(rows))) /\ IsFiniteSet({})
    BY FS_EmptySet
  <2> QED
    BY <2>1, <2>2 DEF PhoneTyped, Coordinator
<1>3. PageTyped
  <2>1. page = [phase |-> "bootstrapping", epoch |-> 0, user |-> None, ending |-> FALSE,
                waiting |-> FALSE, reason |-> "LOGOUT", session |-> 0]
    BY <1>a DEF NewPage
  <2> QED
    BY <1>1, <2>1 DEF PageTyped
<1>4. WritesTyped
  BY <1>a DEF WritesTyped, W, Type
<1>5. AuthInv /\ EndedInv /\ StoreThere /\ BusyInv /\ ResultInv /\ LogInv
  <2>1. phone.connected = FALSE /\ phone.auth = None /\ Q = {} /\ ended = {} /\ log = {}
    BY <1>a DEF NewPhone, Q
  <2> QED
    <3>1. AuthInv
      BY <2>1 DEF AuthInv
    <3>2. EndedInv /\ LogInv
      BY <2>1 DEF EndedInv, LogInv
    <3>3. StoreThere /\ BusyInv /\ ResultInv
      BY <2>1 DEF StoreThere, BusyInv, ResultInv
    <3> QED
      BY <3>1, <3>2, <3>3
<1> QED
  BY <1>1, <1>2, <1>3, <1>4, <1>5 DEF TypeInv, Typed

LEMMA NextIs ==
  ASSUME TypeInv, [Next]_vars
  PROVE  TypeInv' /\ (Onward \/ Serve)
<1>1. CASE Next
  <2>1. CASE Storage
    BY <2>1, StartRegistrationTyped, ClearPendingTyped, LoadForStateTyped, RotateInstallationTyped,
       SavePendingTyped, ResumePendingTyped, LoadForResultTyped, DropPendingTyped, BindTyped,
       LoadForEndingTyped, SaveEndingTyped, LoadForFlushTyped, LoadForRevokeTyped, RemoveRevokeTyped,
       ReplaceRevokeTyped DEF Storage
  <2>2. CASE Bridge
    BY <2>2, ConnectTyped, BootTyped, WithdrawnTyped, LogoutTyped, StopWaitingTyped DEF Bridge
  <2>3. CASE Fault
    BY <2>3, ProviderFailsTyped, StorageFailsTyped, ReloadTyped, RowChangesTyped DEF Fault
  <2>4. CASE User
    <3>1. CASE Foreground
      BY <3>1, RefreshesTyped DEF Foreground, Aside
    <3>2. ASSUME NEW t \in Tokens \cup {None}, ChangeTarget(t)
          PROVE  TypeInv' /\ Onward
      BY <3>2, RefreshesTyped DEF ChangeTarget, Aside
    <3> QED
      BY <2>4, <3>1, <3>2, LogInTyped, BeginEndTyped DEF User
  <2>5. CASE Timers
    BY <2>5, FireTimerTyped DEF Timers
  <2> QED
    BY <1>1, <2>1, <2>2, <2>3, <2>4, <2>5, ResolveTargetTyped, DropRequestTyped, ServeTyped, DeliverTyped
       DEF Next
<1>2. CASE UNCHANGED vars
  <2>0. /\ phone' = phone /\ store' = store /\ page' = page /\ cookie' = cookie /\ ids' = ids
        /\ rows' = rows /\ writes' = writes /\ known' = known /\ log' = log /\ issued' = issued
    BY <1>2 DEF vars
  <2>1. PhoneTyped' /\ StoreTyped' /\ PageTyped'
    <3>1. PhoneTyped'
      BY <2>0 DEF TypeInv, Typed, PhoneTyped, Coordinator
    <3>2. StoreTyped'
      BY <2>0 DEF TypeInv, Typed, StoreTyped
    <3>3. PageTyped'
      BY <2>0 DEF TypeInv, Typed, PageTyped
    <3> QED
      BY <3>1, <3>2, <3>3
  <2>2. WorldTyped' /\ WritesTyped'
    BY <1>2 DEF vars, TypeInv, Typed, WorldTyped, WritesTyped, W, Type
  <2>3. AuthInv' /\ EndedInv' /\ StoreThere' /\ BusyInv' /\ ResultInv' /\ LogInv'
    BY <1>2 DEF vars, TypeInv, AuthInv, AuthPayload, EndedInv, StoreThere, BusyInv, ResultInv, LogInv, Q, Is
  <2>4. Onward
    <3>1. Coming(0)
      BY <2>0, PhoneStays
    <3>2. StoreFits(0)
      BY <2>0, RecordStays
    <3>3. WorldFits
      BY <2>0, RowsSame, Numbers DEF WorldFits
    <3> QED
      BY <3>1, <3>2, <3>3 DEF Onward
  <2> QED
    BY <2>1, <2>2, <2>3, <2>4 DEF TypeInv, Typed
<1> QED
  BY <1>1, <1>2

(* The typed invariant holds throughout.                                   *)
THEOREM Invariance == Spec => []TypeInv
<1>1. Init => TypeInv
  BY FirstTyped
<1>2. TypeInv /\ [Next]_vars => TypeInv'
  BY NextIs
<1> QED
  BY <1>1, <1>2, PTL DEF Spec

(* Every variable holds a value of its type.                               *)
THEOREM TypeCorrect == Spec => []TypeOK
<1>1. TypeInv => TypeOK
  <2> SUFFICES ASSUME TypeInv
               PROVE  TypeOK
    OBVIOUS
  <2>1. rows \in Seq([user : Accounts \cup {None}, session : Nat, binding : Nat, revision : Nat,
                      token : Tokens \cup {None}])
    <3>1. Row(ids) \subseteq [user : Accounts \cup {None}, session : Nat, binding : Nat, revision : Nat,
                              token : Tokens \cup {None}]
      BY DEF Row
    <3> QED
      BY <3>1, SeqWider, PageKnown
  <2>2. events \in [acts : 0 .. MaxEvents, losses : 0 .. MaxLosses]
    <3>1. /\ events \in [acts : Nat, losses : Nat] /\ events.losses \in 0 .. MaxLosses
          /\ events.acts + events.losses <= MaxEvents /\ MaxEvents \in Nat /\ MaxLosses \in Nat
      BY PhoneAssumption DEF TypeInv, Typed, WorldTyped
    <3>2. events.acts \in 0 .. MaxEvents
      BY <3>1
    <3> QED
      BY <3>1, <3>2
  <2> QED
    BY <2>1, <2>2 DEF TypeInv, Typed, StoreTyped, PhoneTyped, Coordinator, PageTyped, WorldTyped, TypeOK, Reg
<1> QED
  BY <1>1, Invariance, PTL

(* Once the end of an account's session is captured, no late result gives  *)
(* the phone a binding of the account, until it logs in again.             *)
THEOREM EndsAreFinal == Spec => []EndedStaysEnded
<1>1. TypeInv => EndedStaysEnded
  BY DEF TypeInv, EndedInv, EndedStaysEnded
<1> QED
  BY <1>1, Invariance, PTL

---------------------------------------------------------------------------
(* What is being registered, told and revoked, as conditions.              *)
Registers(p) ==
  \/ store # None /\ p = store.pending /\ p # None
  \/ \E i \in Q : (Is(i, "save") \/ Is(i, "bind")) /\ p = phone.queue[i].pending
  \/ \E i \in W : Type(i) = "DEVICE" /\ p = writes[i].message.body.pending
Tells_(t) ==
  \/ t \in log
  \/ \E i \in W : Type(i) = "DEVICE" /\ writes[i].served /\ t = ToldOf(writes[i].message.id, writes[i].answer)
  \/ \E i \in Q : Is(i, "resultLoad") /\ t = ToldOf(phone.queue[i].operation, phone.queue[i].answer)
  \/ \E i \in Q : Is(i, "bind") /\ t = ToldOf(phone.queue[i].pending.operation, phone.queue[i].answer)
Revokes_(r) ==
  \/ store # None /\ r \in store.revokes
  \/ \E i \in Q : Is(i, "revokeReplace") /\ r = phone.queue[i].revoke
  \/ \E i \in W : Type(i) = "REVOKE" /\ r = writes[i].message.body
  \/ \E t \in phone.timers : t.key.kind = "revoke" /\ r = t.carried

LEMMA RegisteringIs ==
  ASSUME NEW p
  PROVE  (p \in Registering <=> Registers(p)) /\ (p \in Registering' <=> Registers(p)')
<1>1. p \in Registering <=> Registers(p)
  BY DEF Registering, Registers, Q, Is, W, Type
<1>2. p \in Registering' <=> Registers(p)'
  BY DEF Registering, Registers, Q, Is, W, Type
<1> QED
  BY <1>1, <1>2

LEMMA ToldIs ==
  ASSUME NEW t
  PROVE  (t \in Told <=> Tells_(t)) /\ (t \in Told' <=> Tells_(t)')
<1>1. t \in Told <=> Tells_(t)
  BY DEF Told, Tells_, Q, Is, W, Type
<1>2. t \in Told' <=> Tells_(t)'
  BY DEF Told, Tells_, Q, Is, W, Type
<1> QED
  BY <1>1, <1>2

LEMMA RevocationsIs ==
  ASSUME NEW r
  PROVE  (r \in Revocations <=> Revokes_(r)) /\ (r \in Revocations' <=> Revokes_(r)')
<1>1. r \in Revocations <=> Revokes_(r)
  BY DEF Revocations, Revokes_, Q, Is, W, Type
<1>2. r \in Revocations' <=> Revokes_(r)'
  BY DEF Revocations, Revokes_, Q, Is, W, Type
<1> QED
  BY <1>1, <1>2

(* The numbers in hand have been used.                                     *)
LEMMA OpsHeld ==
  ASSUME TypeInv, NEW i \in Q
  PROVE  /\ Is(i, "save") => phone.queue[i].pending \in Pend(ids)
         /\ Is(i, "bind") => phone.queue[i].pending \in Pend(ids) /\ phone.queue[i].answer \in Ans(ids, Len(rows))
         /\ Is(i, "resultLoad") => phone.queue[i].operation \in 0 .. ids /\ phone.queue[i].answer \in Ans(ids, Len(rows))
         /\ Is(i, "revokeLoad") => phone.queue[i].operation \in 0 .. ids /\ phone.queue[i].answer \in Ans(ids, Len(rows))
         /\ Is(i, "revokeDone") => phone.queue[i].operation \in 0 .. ids
         /\ Is(i, "revokeReplace") => /\ phone.queue[i].operation \in 0 .. ids
                                      /\ phone.queue[i].revoke \in Rev(ids, Len(rows))
         /\ Is(i, "stateLoad") => /\ phone.queue[i].context.installation \in 1 .. Len(rows)
                                  /\ phone.queue[i].answer \in Ans(ids, Len(rows))
         /\ Is(i, "rotate") => phone.queue[i].context.installation \in 1 .. Len(rows)
<1> PICK o : o = phone.queue[i]
  OBVIOUS
<1>1. o \in StoreOp(ids, Len(rows)) /\ Len(rows) \in Nat
  BY Numbers DEF TypeInv, Typed, PhoneTyped, Coordinator, Q
<1>2. \A c \in Asked(ids, Len(rows)) : c.installation \in 1 .. Len(rows)
  BY <1>1 DEF Asked, Ctx
<1> QED
  BY <1>1, <1>2, OpKinds DEF Is, SaveOp, BindOp, ResultOp, RevokeOp, DoneOp, ReplaceOp, StateOp, RotateOp

LEMMA WritesHeld ==
  ASSUME TypeInv, NEW i \in W
  PROVE  /\ writes[i] \in Request(ids, Len(rows)) /\ writes[i].message \in Message(ids, Len(rows))
         /\ Type(i) \in {"STATE", "DEVICE", "REVOKE"} /\ writes[i].message.id \in 0 .. ids
         /\ Type(i) = "STATE" => writes[i].message.body \in 1 .. Len(rows)
         /\ Type(i) = "DEVICE" => /\ writes[i].message.body.pending \in Pend(ids)
                                  /\ writes[i].message.body.installation \in 1 .. Len(rows)
                                  /\ writes[i].message.id = writes[i].message.body.pending.operation
         /\ Type(i) = "REVOKE" => /\ writes[i].message.body \in Rev(ids, Len(rows))
                                  /\ writes[i].message.id = writes[i].message.body.operation
         /\ writes[i].served => i = 1 /\ writes[i].answer \in Ans(ids, Len(rows))
<1> PICK m : m = writes[i].message
  OBVIOUS
<1>1. /\ writes[i] \in Request(ids, Len(rows)) /\ m \in Message(ids, Len(rows))
      /\ writes[i].served => i = 1 /\ writes[i].answer \in Ans(ids, Len(rows))
  <2>1. writes \in Seq(Request(ids, Len(rows))) /\ Len(rows) \in Nat /\ i \in DOMAIN writes
    BY Numbers DEF TypeInv, Typed, WritesTyped, W
  <2>2. writes[i] \in Request(ids, Len(rows))
    BY <2>1
  <2>3. m \in Message(ids, Len(rows))
    BY <2>2 DEF Request
  <2>4. writes[i].served => i = 1 /\ writes[i].answer \in Ans(ids, Len(rows))
    BY DEF TypeInv, Typed, WritesTyped
  <2> QED
    BY <2>2, <2>3, <2>4
<1>2. m \in Outgoing(ids, Len(rows))
  BY <1>1 DEF Outgoing
<1>3. m.id \in 0 .. ids
  BY <1>1 DEF Message, StateMsg, DeviceMsg, RevokeMsg
<1>4. m.type \in {"STATE", "DEVICE", "REVOKE"}
  BY <1>1, <1>2, MessageKinds
<1>5. /\ m.type = "STATE" => m.body \in 1 .. Len(rows)
      /\ m.type = "DEVICE" => /\ m.body.pending \in Pend(ids) /\ m.body.installation \in 1 .. Len(rows)
                              /\ m.id = m.body.pending.operation
      /\ m.type = "REVOKE" => m.body \in Rev(ids, Len(rows)) /\ m.id = m.body.operation
  BY <1>2, MessageKinds DEF StateMsg, DeviceMsg, RevokeMsg
<1> QED
  BY <1>1, <1>3, <1>4, <1>5 DEF Type

LEMMA NumbersHeld ==
  ASSUME TypeInv
  PROVE  /\ \A p \in Registering : p \in Pend(ids) /\ p.operation \in 0 .. ids
         /\ \A t \in Told : t.operation \in 0 .. ids /\ t.answer \in Ans(ids, Len(rows))
         /\ \A r \in Revocations : /\ r \in Rev(ids, Len(rows)) /\ r.operation \in 0 .. ids
                                   /\ r.binding \in 1 .. ids
         /\ \A n : RevokeDone(n) => n \in 0 .. ids
<1>1. ASSUME NEW p \in Registering
      PROVE  p \in Pend(ids) /\ p.operation \in 0 .. ids
  <2>1. Registers(p)
    BY RegisteringIs
  <2>2. p \in Pend(ids)
    BY <2>1, OpsHeld, WritesHeld DEF Registers, TypeInv, Typed, StoreTyped
  <2> QED
    BY <2>2 DEF Pend
<1>l. log \subseteq Logs(ids, Len(rows))
  BY DEF TypeInv, Typed, WorldTyped
<1>2. ASSUME NEW t \in Told
      PROVE  t.operation \in 0 .. ids /\ t.answer \in Ans(ids, Len(rows))
  <2>1. Tells_(t)
    BY ToldIs
  <2>2. \A p \in Pend(ids) : p.operation \in 0 .. ids
    BY DEF Pend
  <2> QED
    BY <1>l, <2>1, <2>2, OpsHeld, WritesHeld DEF Tells_, ToldOf, Logs
<1>3. ASSUME NEW r \in Revocations
      PROVE  /\ r \in Rev(ids, Len(rows)) /\ r.operation \in 0 .. ids /\ r.binding \in 1 .. ids
  <2>1. Revokes_(r)
    BY RevocationsIs
  <2>2. \A t \in phone.timers : t.key.kind = "revoke" => t.carried \in Rev(ids, Len(rows))
    BY TimerKinds DEF TypeInv, Typed, PhoneTyped, Coordinator, RevokeTimer
  <2>3. r \in Rev(ids, Len(rows))
    BY <2>1, <2>2, OpsHeld, WritesHeld DEF Revokes_, TypeInv, Typed, StoreTyped
  <2> QED
    BY <2>3 DEF Rev
<1>4. ASSUME NEW n, RevokeDone(n)
      PROVE  n \in 0 .. ids
  BY <1>4, <1>l, OpsHeld, WritesHeld DEF RevokeDone, Logs
<1> QED
  BY <1>1, <1>2, <1>3, <1>4
---------------------------------------------------------------------------
(* A step of anyone but the server: what it brings.                        *)
Moving(d) == TypeInv /\ TypeInv' /\ d \in {0, 1} /\ Coming(d) /\ WorldFits /\ StoreFits(d)
IsLast(i, d) == i + d = Len(phone.queue) + 1
Stays(i, d) == i + d \in Q /\ phone'.queue[i] = phone.queue[i + d]

LEMMA OnwardMoves ==
  ASSUME TypeInv, TypeInv', Onward
  PROVE  \E d : Moving(d)
BY DEF Onward, Moving

LEMMA QueueMoving ==
  ASSUME NEW d, Moving(d)
  PROVE  /\ \A i \in Q' : i \in Nat \ {0} /\ (Stays(i, d) \/ (IsLast(i, d) /\ OpFits(phone'.queue[i], d)))
         /\ \A i \in Q : i \in 1 .. Len(phone.queue)
         /\ Len(phone.queue) \in Nat /\ d \in {0, 1} /\ ids \in Nat /\ Len(rows) \in Nat
         /\ Takes(d, "bind") => 1 \in Q /\ d = 1
<1>1. /\ phone'.queue \in Seq(StoreOp(ids', Len(rows'))) /\ phone.queue \in Seq(StoreOp(ids, Len(rows)))
      /\ QueueFits(d) /\ d \in {0, 1} /\ ids \in Nat /\ Len(rows) \in Nat
  BY Numbers DEF Moving, Coming, TypeInv, Typed, PhoneTyped, Coordinator
<1>2. \A i \in DOMAIN phone'.queue : i \in Nat \ {0}
  BY <1>1
<1> QED
  BY <1>1, <1>2 DEF QueueFits, Q, Stays, IsLast, Takes

LEMMA DeviceHolds ==
  ASSUME NEW n \in Nat, NEW k, NEW x \in Request(n, k), x.message.type = "DEVICE"
  PROVE  x.message.body.pending \in Pend(n) /\ x.message.body.pending # None
<1>1. x.message \in Outgoing(n, k)
  BY DEF Request, Outgoing
<1>2. x.message \in DeviceMsg(n, k)
  BY <1>1, MessageKinds
<1>3. x.message.body.pending \in Pend(n)
  BY <1>2 DEF DeviceMsg
<1>4. Pend(n) \subseteq Registrations
  BY DEF Pend, Registrations
<1> QED
  BY <1>3, <1>4, RecordAssumption

(* A registration that was not there is of the one save that was queued.   *)
LEMMA PendingMoving ==
  ASSUME NEW d, Moving(d)
  PROVE  /\ store' # None /\ store'.pending # None => store'.pending \in Registering
         /\ \A i \in W' : Type(i)' = "DEVICE" =>
              writes'[i].message.body.pending \in Registering
              /\ ((\E j \in W : writes'[i] = writes[j])
                  \/ (store' # None /\ store'.pending # None
                      /\ writes'[i].message.body.pending = store'.pending))
<1>1. ASSUME store' # None, store'.pending # None
      PROVE  store'.pending \in Registering
  <2>1. /\ store # None
        /\ store'.pending = store.pending \/ (Takes(d, "save") /\ store'.pending = Taken.pending)
    BY <1>1 DEF Moving, StoreFits, PendingFits
  <2> PICK p : p = store'.pending
    OBVIOUS
  <2>2. Registers(p)
    BY <1>1, <2>1 DEF Registers, Takes, Taken
  <2> QED
    BY <2>2, RegisteringIs
<1>2. ASSUME NEW i \in W', Type(i)' = "DEVICE"
      PROVE  writes'[i].message.body.pending \in Registering
             /\ ((\E j \in W : writes'[i] = writes[j])
                 \/ (store' # None /\ store'.pending # None
                     /\ writes'[i].message.body.pending = store'.pending))
  <2> PICK p : p = writes'[i].message.body.pending
    OBVIOUS
  <2>1. (\E j \in W : writes'[i] = writes[j]) \/ (~writes'[i].served /\ MsgFits(writes'[i].message, phone'.request))
    BY DEF Moving, Coming, WritesFit, W
  <2>2. CASE \E j \in W : writes'[i] = writes[j]
    <3>1. Registers(p)
      BY <1>2, <2>2 DEF Registers, Type
    <3> QED
      BY <2>2, <3>1, RegisteringIs
  <2>3. CASE MsgFits(writes'[i].message, phone'.request)
    <3>1. store' # None /\ p = store'.pending
      BY <1>2, <2>3 DEF MsgFits, Type
    <3>2. p # None
      <4>1. writes' \in Seq(Request(ids', Len(rows'))) /\ ids' \in Nat
        BY DEF Moving, TypeInv, Typed, WritesTyped, WorldTyped
      <4>2. writes'[i] \in Request(ids', Len(rows')) /\ writes'[i].message.type = "DEVICE"
        BY <1>2, <4>1 DEF W, Type
      <4> QED
        BY <4>1, <4>2, DeviceHolds
    <3> QED
      BY <1>1, <3>1, <3>2
  <2> QED
    BY <2>1, <2>2, <2>3
<1> QED
  BY <1>1, <1>2

(* A save that is new: the last operation, under a number that is new.     *)
NewSave(d, p) ==
  \E i \in Q' : /\ IsLast(i, d) /\ Is(i, "save")' /\ p = phone'.queue[i].pending /\ p.operation = ids + 1
                /\ Takes(d, "stateLoad") \/ Takes(d, "rotate")
LEMMA RegisteringMoving ==
  ASSUME NEW d, Moving(d), NEW p \in Registering'
  PROVE  p \in Registering \/ NewSave(d, p)
<1>1. Registers(p)'
  BY RegisteringIs
<1>2. CASE store' # None /\ p = store'.pending /\ p # None
  BY <1>2, PendingMoving
<1>3. ASSUME NEW i \in Q', (Is(i, "save") \/ Is(i, "bind"))' /\ p = phone'.queue[i].pending
      PROVE  p \in Registering \/ NewSave(d, p)
  <2>1. CASE Stays(i, d)
    <3>1. Registers(p)
      BY <1>3, <2>1 DEF Stays, Registers, Is
    <3> QED
      BY <3>1, RegisteringIs
  <2>2. CASE IsLast(i, d) /\ OpFits(phone'.queue[i], d)
    <3>1. CASE Is(i, "save")'
      BY <1>3, <2>2, <3>1 DEF OpFits, Is, NewSave
    <3>2. CASE Is(i, "bind")'
      <4>1. store # None /\ store.pending # None /\ p = store.pending
        BY <1>3, <2>2, <3>2 DEF OpFits, Is
      <4>2. Registers(p)
        BY <4>1 DEF Registers
      <4> QED
        BY <4>2, RegisteringIs
    <3> QED
      BY <1>3, <3>1, <3>2
  <2> QED
    BY <2>1, <2>2, QueueMoving
<1>4. ASSUME NEW i \in W', Type(i)' = "DEVICE", p = writes'[i].message.body.pending
      PROVE  p \in Registering
  BY <1>4, PendingMoving
<1> QED
  BY <1>1, <1>2, <1>3, <1>4 DEF Registers

LEMMA ToldMoving ==
  ASSUME NEW d, Moving(d), NEW t \in Told'
  PROVE  t \in Told
<1>1. Tells_(t)'
  BY ToldIs
<1>2. CASE t \in log'
  <2>1. t \in log
    BY <1>2 DEF Moving, WorldFits
  <2> QED
    BY <2>1, ToldIs DEF Tells_
<1>3. ASSUME NEW i \in W', Type(i)' = "DEVICE", writes'[i].served,
             t = ToldOf(writes'[i].message.id, writes'[i].answer)
      PROVE  t \in Told
  <2>1. \E j \in W : writes'[i] = writes[j]
    BY <1>3 DEF Moving, Coming, WritesFit, W
  <2>2. Tells_(t)
    BY <1>3, <2>1 DEF Tells_, Type
  <2> QED
    BY <2>2, ToldIs
<1>4. ASSUME NEW i \in Q', \/ Is(i, "resultLoad")' /\ t = ToldOf(phone'.queue[i].operation, phone'.queue[i].answer)
                           \/ Is(i, "bind")' /\ t = ToldOf(phone'.queue[i].pending.operation, phone'.queue[i].answer)
      PROVE  t \in Told
  <2>1. CASE Stays(i, d)
    <3>1. Tells_(t)
      BY <1>4, <2>1 DEF Stays, Tells_, Is
    <3> QED
      BY <3>1, ToldIs
  <2>2. CASE OpFits(phone'.queue[i], d)
    <3>1. CASE Is(i, "resultLoad")' /\ t = ToldOf(phone'.queue[i].operation, phone'.queue[i].answer)
      <4>1. /\ 1 \in W /\ writes[1].served /\ Type(1) = "DEVICE"
            /\ t = ToldOf(writes[1].message.id, writes[1].answer)
        BY <2>2, <3>1 DEF OpFits, Answers, Is
      <4>2. Tells_(t)
        BY <4>1 DEF Tells_
      <4> QED
        BY <4>2, ToldIs
    <3>2. CASE Is(i, "bind")' /\ t = ToldOf(phone'.queue[i].pending.operation, phone'.queue[i].answer)
      <4>1. 1 \in Q /\ Is(1, "resultLoad") /\ t = ToldOf(phone.queue[1].operation, phone.queue[1].answer)
        BY <2>2, <3>2 DEF OpFits, Is, Takes, Taken
      <4>2. Tells_(t)
        BY <4>1 DEF Tells_
      <4> QED
        BY <4>2, ToldIs
    <3> QED
      BY <1>4, <3>1, <3>2
  <2> QED
    BY <2>1, <2>2, QueueMoving
<1> QED
  BY <1>1, <1>2, <1>3, <1>4 DEF Tells_

(* A revocation that is new: of the binding let go, or one that replaces.  *)
LetGo(d, r) ==
  Takes(d, "ending") /\ store # None /\ store.binding # None /\ r = Letting
NewReplace(d, r) ==
  \E i \in Q' : /\ IsLast(i, d) /\ Is(i, "revokeReplace")' /\ r = phone'.queue[i].revoke
                /\ Takes(d, "revokeLoad") /\ store # None
                /\ \E s \in store.revokes : s.operation = phone'.queue[i].operation
                                            /\ r = [s EXCEPT !.operation = ids + 1]
LEMMA RevokingMoving ==
  ASSUME NEW d, Moving(d), NEW r, Revoking(r)
  PROVE  r \in Revocations \/ LetGo(d, r)
<1>1. CASE store' # None /\ r \in store'.revokes
  <2>1. \/ store # None /\ r \in store.revokes
        \/ LetGo(d, r)
        \/ Takes(d, "revokeReplace") /\ r = Taken.revoke
    BY <1>1 DEF Moving, StoreFits, RevokesFit, LetGo
  <2>2. LetGo(d, r) \/ Revokes_(r)
    BY <2>1 DEF Takes, Taken, Revokes_
  <2> QED
    BY <2>2, RevocationsIs
<1> QED
  BY <1>1 DEF Revoking

LEMMA RevocationsMoving ==
  ASSUME NEW d, Moving(d), NEW r \in Revocations'
  PROVE  r \in Revocations \/ LetGo(d, r) \/ NewReplace(d, r)
<1>1. Revokes_(r)'
  BY RevocationsIs
<1>2. CASE store' # None /\ r \in store'.revokes
  BY <1>2, RevokingMoving DEF Revoking
<1>3. ASSUME NEW i \in Q', Is(i, "revokeReplace")', r = phone'.queue[i].revoke
      PROVE  r \in Revocations \/ NewReplace(d, r)
  <2>1. CASE Stays(i, d)
    <3>1. Revokes_(r)
      BY <1>3, <2>1 DEF Stays, Revokes_, Is
    <3> QED
      BY <3>1, RevocationsIs
  <2>2. CASE IsLast(i, d) /\ OpFits(phone'.queue[i], d)
    BY <1>3, <2>2 DEF OpFits, Is, NewReplace
  <2> QED
    BY <2>1, <2>2, QueueMoving
<1>4. ASSUME NEW i \in W', Type(i)' = "REVOKE", r = writes'[i].message.body
      PROVE  r \in Revocations \/ LetGo(d, r)
  <2>1. CASE \E j \in W : writes'[i] = writes[j]
    <3>1. Revokes_(r)
      BY <1>4, <2>1 DEF Revokes_, Type
    <3> QED
      BY <3>1, RevocationsIs
  <2>2. CASE MsgFits(writes'[i].message, phone'.request)
    <3>1. Revoking(r)
      BY <1>4, <2>2 DEF MsgFits, Type
    <3> QED
      BY <3>1, RevokingMoving
  <2> QED
    BY <2>1, <2>2 DEF Moving, Coming, WritesFit, W
<1>5. ASSUME NEW t \in phone'.timers, t.key.kind = "revoke", r = t.carried
      PROVE  r \in Revocations \/ LetGo(d, r)
  <2>1. Revoking(r)
    BY <1>5 DEF Moving, Coming, TimerFits
  <2> QED
    BY <2>1, RevokingMoving
<1> QED
  BY <1>1, <1>2, <1>3, <1>4, <1>5 DEF Revokes_
---------------------------------------------------------------------------
(* What a step of anyone but the server keeps.                             *)
LEMMA RevokeFresh ==
  ASSUME NEW d, Moving(d), NEW r, LetGo(d, r) \/ NewReplace(d, r)
  PROVE  /\ r.operation = ids + 1
         /\ LetGo(d, r) => r.installation = store.installation /\ r.binding = store.binding.id
         /\ NewReplace(d, r) => \E s \in Revocations : s.installation = r.installation /\ s.binding = r.binding
<1>1. CASE LetGo(d, r)
  <2>1. r = Letting
    BY <1>1 DEF LetGo
  <2>2. r.operation = ids + 1 /\ r.installation = store.installation /\ r.binding = store.binding.id
    BY <2>1 DEF Letting
  <2>3. ~NewReplace(d, r)
    BY <1>1 DEF LetGo, NewReplace, Takes, Is
  <2> QED
    BY <2>2, <2>3
<1>2. CASE NewReplace(d, r)
  <2>1. PICK s : store # None /\ s \in store.revokes /\ r = [s EXCEPT !.operation = ids + 1]
    BY <1>2 DEF NewReplace
  <2>2. Revokes_(s)
    BY <2>1 DEF Revokes_
  <2>3. s \in Revocations
    BY <2>2, RevocationsIs
  <2>4. s \in Rev(ids, Len(rows))
    BY <2>3, NumbersHeld DEF Moving
  <2>5. r.operation = ids + 1 /\ r.installation = s.installation /\ r.binding = s.binding
    BY <2>1, <2>4 DEF Rev
  <2>6. ~LetGo(d, r)
    BY <1>2 DEF LetGo, NewReplace, Takes, Is
  <2> QED
    BY <2>3, <2>5, <2>6
<1> QED
  BY <1>1, <1>2

LEMMA DoneMoving ==
  ASSUME NEW d, Moving(d), NEW n, RevokeDone(n)'
  PROVE  RevokeDone(n)
<1>1. CASE \E l \in log' : l.operation = n
  BY <1>1 DEF Moving, WorldFits, RevokeDone
<1>2. ASSUME NEW i \in W', Type(i)' = "REVOKE", writes'[i].message.id = n, writes'[i].served,
             writes'[i].answer.outcome = "SUCCESS"
      PROVE  RevokeDone(n)
  BY <1>2 DEF Moving, Coming, WritesFit, W, Type, RevokeDone
<1>3. ASSUME NEW i \in Q', Is(i, "revokeLoad")', phone'.queue[i].operation = n,
             phone'.queue[i].answer.outcome = "SUCCESS"
      PROVE  RevokeDone(n)
  <2>1. CASE Stays(i, d)
    BY <1>3, <2>1 DEF Stays, RevokeDone, Is
  <2>2. CASE OpFits(phone'.queue[i], d)
    BY <1>3, <2>2 DEF OpFits, Is, Answers, RevokeDone
  <2> QED
    BY <2>1, <2>2, QueueMoving
<1>4. ASSUME NEW i \in Q', Is(i, "revokeDone")', phone'.queue[i].operation = n
      PROVE  RevokeDone(n)
  <2>1. CASE Stays(i, d)
    BY <1>4, <2>1 DEF Stays, RevokeDone, Is
  <2>2. CASE OpFits(phone'.queue[i], d)
    BY <1>4, <2>2 DEF OpFits, Is, Takes, Taken, RevokeDone
  <2> QED
    BY <2>1, <2>2, QueueMoving
<1> QED
  BY <1>1, <1>2, <1>3, <1>4 DEF RevokeDone

LEMMA RowsMoving ==
  ASSUME NEW d, Moving(d), NEW k \in DOMAIN rows', rows'[k].binding # 0
  PROVE  k \in DOMAIN rows /\ rows'[k].binding = rows[k].binding
BY DEF Moving, WorldFits, RowsFit

LEMMA RegistrationsMoving ==
  ASSUME NEW d, Moving(d), RegistrationsOne
  PROVE  RegistrationsOne'
<1> SUFFICES ASSUME NEW p \in Registering', NEW q \in Registering', p.operation = q.operation
             PROVE  p = q
  BY DEF RegistrationsOne
<1>1. /\ p \in Registering \/ NewSave(d, p)
      /\ q \in Registering \/ NewSave(d, q)
  <2>1. p \in Registering \/ NewSave(d, p)
    BY RegisteringMoving
  <2>2. q \in Registering \/ NewSave(d, q)
    BY RegisteringMoving
  <2> QED
    BY <2>1, <2>2
<1>2. /\ p \in Registering => p.operation # ids + 1
      /\ q \in Registering => q.operation # ids + 1
  BY NumbersHeld, QueueMoving DEF Moving
<1>3. CASE NewSave(d, p) /\ NewSave(d, q)
  BY <1>3, QueueMoving DEF NewSave, IsLast
<1> QED
  BY <1>1, <1>2, <1>3 DEF NewSave, RegistrationsOne

LEMMA ApartMoving ==
  ASSUME NEW d, Moving(d), NumbersApart
  PROVE  NumbersApart'
<1> SUFFICES ASSUME NEW r \in Revocations', NEW p \in Registering'
             PROVE  p.operation # r.operation
  BY DEF NumbersApart
<1>1. p \in Registering \/ NewSave(d, p)
  BY RegisteringMoving
<1>2. r \in Revocations \/ LetGo(d, r) \/ NewReplace(d, r)
  BY RevocationsMoving
<1>3. /\ p \in Registering => p.operation # ids + 1
      /\ r \in Revocations => r.operation # ids + 1
  BY NumbersHeld, QueueMoving DEF Moving
<1>4. NewSave(d, p) => ~LetGo(d, r) /\ ~NewReplace(d, r)
  BY DEF NewSave, LetGo, NewReplace, Takes, Is
<1> QED
  BY <1>1, <1>2, <1>3, <1>4, RevokeFresh DEF NumbersApart, NewSave

(* No number of a registration still to be saved has been used.            *)
LEMMA SaveMoving ==
  ASSUME NEW d, Moving(d), SaveInv
  PROVE  SaveInv'
<1> SUFFICES ASSUME NEW i \in Q', Is(i, "save")'
             PROVE  Unused(i, phone.queue[i].pending.operation)'
  BY DEF SaveInv
<1> PICK n : n = phone'.queue[i].pending.operation
  OBVIOUS
<1>0. /\ \A t \in Told' : t \in Told
      /\ \A p \in Registering : p.operation \in 0 .. ids
      /\ \A t \in Told : t.operation \in 0 .. ids
      /\ ids \in Nat
  BY NumbersHeld, ToldMoving, QueueMoving DEF Moving
<1>w. \A j \in W' : Type(j)' = "DEVICE" => writes'[j].message.id = writes'[j].message.body.pending.operation
  <2> TAKE j \in W'
  <2> HAVE Type(j)' = "DEVICE"
  <2>1. writes' \in Seq(Request(ids', Len(rows')))
    BY DEF Moving, TypeInv, Typed, WritesTyped
  <2>2. writes'[j] \in Request(ids', Len(rows')) /\ writes'[j].message.type = "DEVICE"
    BY <2>1 DEF W, Type
  <2>3. writes'[j].message \in Outgoing(ids', Len(rows'))
    BY <2>2 DEF Request, Outgoing
  <2> QED
    BY <2>2, <2>3, MessageKinds DEF DeviceMsg
<1>1. CASE IsLast(i, d) /\ OpFits(phone'.queue[i], d)
  <2>1. n = ids + 1
    BY <1>1 DEF OpFits, Is
  <2>2. \A t \in Told' : t.operation # n
    BY <1>0, <2>1
  <2>3. \A j \in W' : Type(j)' = "DEVICE" => writes'[j].message.id # n
    BY <1>0, <1>w, <2>1, PendingMoving
  <2>4. \A j \in Q' : j # i /\ Is(j, "save")' => phone'.queue[j].pending.operation # n
    <3> TAKE j \in Q'
    <3> HAVE j # i /\ Is(j, "save")'
    <3>1. Stays(j, d)
      BY <1>1, QueueMoving DEF IsLast
    <3>2. Is(j + d, "save") /\ j + d \in Q /\ phone'.queue[j] = phone.queue[j + d]
      BY <3>1 DEF Stays, Is
    <3>3. Registers(phone'.queue[j].pending)
      BY <3>2 DEF Registers
    <3> QED
      BY <1>0, <2>1, <3>3, RegisteringIs
  <2>5. store' # None /\ store'.pending # None => store'.pending.operation # n
    BY <1>0, <2>1, PendingMoving
  <2>6. store' # None
    BY DEF Moving, TypeInv, StoreThere, Follows, Is
  <2> QED
    BY <2>2, <2>3, <2>4, <2>5, <2>6 DEF Unused
<1>2. CASE Stays(i, d)
  <2>0. Is(i + d, "save") /\ i + d \in Q /\ phone'.queue[i] = phone.queue[i + d]
    BY <1>2 DEF Stays, Is
  <2>1. Unused(i + d, n)
    BY <2>0 DEF SaveInv
  <2>2. n # ids + 1
    <3>1. Registers(phone'.queue[i].pending)
      BY <2>0 DEF Registers
    <3> QED
      BY <1>0, <3>1, RegisteringIs
  <2>3. store' # None /\ store'.pending # None => store'.pending.operation # n
    <3> SUFFICES ASSUME store' # None, store'.pending # None
                 PROVE  store'.pending.operation # n
      OBVIOUS
    <3>1. store'.pending = store.pending \/ (Takes(d, "save") /\ store'.pending = Taken.pending)
      BY DEF Moving, StoreFits, PendingFits
    <3>2. CASE store'.pending = store.pending
      BY <2>1, <3>2 DEF Unused
    <3>3. CASE Takes(d, "save") /\ store'.pending = Taken.pending
      <4>1. 1 # i + d /\ 1 \in Q /\ Is(1, "save")
        BY <3>3, QueueMoving DEF Takes
      <4> QED
        BY <2>1, <3>3, <4>1 DEF Unused, Taken
    <3> QED
      BY <3>1, <3>2, <3>3
  <2>4. \A t \in Told' : t.operation # n
    BY <1>0, <2>1 DEF Unused
  <2>5. \A j \in W' : Type(j)' = "DEVICE" => writes'[j].message.id # n
    <3> TAKE j \in W'
    <3> HAVE Type(j)' = "DEVICE"
    <3>1. CASE \E h \in W : writes'[j] = writes[h]
      BY <2>1, <3>1 DEF Unused, Type
    <3>2. CASE store' # None /\ store'.pending # None /\ writes'[j].message.body.pending = store'.pending
      BY <1>w, <2>3, <3>2
    <3> QED
      BY <3>1, <3>2, PendingMoving
  <2>6. \A j \in Q' : j # i /\ Is(j, "save")' => phone'.queue[j].pending.operation # n
    <3> TAKE j \in Q'
    <3> HAVE j # i /\ Is(j, "save")'
    <3>1. CASE Stays(j, d)
      <4>1. Is(j + d, "save") /\ j + d \in Q /\ phone'.queue[j] = phone.queue[j + d] /\ j + d # i + d
        BY <3>1, QueueMoving DEF Stays, Is
      <4> QED
        BY <2>1, <4>1 DEF Unused
    <3>2. CASE OpFits(phone'.queue[j], d)
      BY <2>2, <3>2 DEF OpFits, Is
    <3> QED
      BY <3>1, <3>2, QueueMoving
  <2>7. store' # None
    BY DEF Moving, TypeInv, StoreThere, Follows, Is
  <2> QED
    BY <2>3, <2>4, <2>5, <2>6, <2>7 DEF Unused
<1> QED
  BY <1>1, <1>2, QueueMoving

(* A bind that is pending is of the installation of the record.            *)
LEMMA BindMoving ==
  ASSUME NEW d, Moving(d), SaveInv, BindInv
  PROVE  BindInv'
<1> SUFFICES ASSUME NEW i \in Q', Is(i, "bind")'
             PROVE  Bindable(phone.queue[i])'
  BY DEF BindInv
<1> PICK o : o = phone'.queue[i]
  OBVIOUS
<1>0. o.kind = "bind"
  BY DEF Is
<1>1. /\ o.answer.user = o.pending.user /\ o.answer.outcome = "SUCCESS"
      /\ store' # None /\ store'.pending # None /\ store'.pending.operation = o.pending.operation =>
           store'.installation = o.answer.installation
  <2>1. CASE OpFits(o, d)
    <3>1. /\ store # None /\ o.answer.outcome = "SUCCESS" /\ o.answer.installation = store.installation
          /\ o.answer.user = o.pending.user
      BY <1>0, <2>1 DEF OpFits
    <3>2. store' # None /\ store'.pending # None => store'.installation = store.installation
      BY DEF Moving, StoreFits, PendingFits
    <3> QED
      BY <3>1, <3>2
  <2>2. CASE Stays(i, d)
    <3>1. i + d \in Q /\ Is(i + d, "bind") /\ o = phone.queue[i + d]
      BY <1>0, <2>2 DEF Stays, Is
    <3>2. Bindable(o)
      BY <3>1 DEF BindInv
    <3>3. ASSUME store' # None, store'.pending # None, store'.pending.operation = o.pending.operation
          PROVE  store'.installation = o.answer.installation
      <4>1. /\ store # None /\ store'.installation = store.installation
            /\ store'.pending = store.pending \/ (Takes(d, "save") /\ store'.pending = Taken.pending)
        BY <3>3 DEF Moving, StoreFits, PendingFits
      <4>2. CASE store'.pending = store.pending
        BY <3>2, <3>3, <4>1, <4>2 DEF Bindable
      <4>3. CASE Takes(d, "save") /\ store'.pending = Taken.pending
        <5>1. Unused(1, o.pending.operation)
          BY <3>3, <4>3 DEF SaveInv, Takes, Taken
        <5> PICK t : t = ToldOf(o.pending.operation, o.answer)
          OBVIOUS
        <5>2. Tells_(t)
          BY <3>1 DEF Tells_
        <5>3. t \in Told /\ t.operation = o.pending.operation
          BY <5>2, ToldIs DEF ToldOf
        <5> QED
          BY <5>1, <5>3 DEF Unused
      <4> QED
        BY <4>1, <4>2, <4>3
    <3> QED
      BY <3>2, <3>3 DEF Bindable
  <2> QED
    BY <2>1, <2>2, QueueMoving
<1>2. store' # None
  BY DEF Moving, TypeInv, StoreThere, Follows, Is
<1> QED
  BY <1>1, <1>2 DEF Bindable

LEMMA ResultsMoving ==
  ASSUME NEW d, Moving(d), ResultsAreGenuine
  PROVE  ResultsAreGenuine'
<1> SUFFICES ASSUME NEW t \in Told', NEW p \in Registering', t.operation = p.operation, t.answer.binding # 0
             PROVE  Issues(t.answer, p.token) \in issued'
  BY DEF ResultsAreGenuine, Issues
<1>1. t \in Told /\ t.operation \in 0 .. ids /\ ids \in Nat
  BY ToldMoving, NumbersHeld, QueueMoving DEF Moving
<1>2. p \in Registering
  BY <1>1, RegisteringMoving DEF NewSave
<1> QED
  BY <1>1, <1>2 DEF ResultsAreGenuine, Moving, WorldFits

(* The binding that the phone binds is the one its result tells of.        *)
LEMMA BindsGenuine ==
  ASSUME TypeInv, NEW d, Binds(d), BindInv, ResultsAreGenuine, Taken.answer.binding # 0
  PROVE  /\ store.installation = Taken.answer.installation /\ Taken.answer.outcome = "SUCCESS"
         /\ ToldOf(Taken.pending.operation, Taken.answer) \in Told
         /\ store' # None /\ store'.installation = store.installation
         /\ store'.binding # None /\ store'.binding.id = Taken.answer.binding
         /\ [installation |-> store'.installation, user |-> store'.binding.user, id |-> store'.binding.id,
             revision |-> store'.binding.revision, token |-> store'.binding.token] \in issued
<1> PICK o : o = Taken
  OBVIOUS
<1>1. /\ 1 \in Q /\ Is(1, "bind") /\ o = phone.queue[1] /\ store # None /\ store.pending # None /\ store' # None
      /\ store.pending.operation = o.pending.operation /\ store'.installation = store.installation
      /\ store'.binding = Bound(o)
  BY DEF Binds, Takes, Taken
<1>2. /\ o.answer.user = o.pending.user /\ o.answer.outcome = "SUCCESS" /\ store.installation = o.answer.installation
  BY <1>1 DEF BindInv, Bindable
<1> PICK t : t = ToldOf(o.pending.operation, o.answer)
  OBVIOUS
<1>3. t \in Told /\ t.operation = o.pending.operation /\ t.answer = o.answer
  <2>1. Tells_(t)
    BY <1>1 DEF Tells_
  <2> QED
    BY <2>1, ToldIs DEF ToldOf
<1>4. o.pending \in Registering
  <2>1. Registers(o.pending)
    BY <1>1 DEF Registers
  <2> QED
    BY <2>1, RegisteringIs
<1>5. Issues(o.answer, o.pending.token) \in issued
  BY <1>3, <1>4 DEF ResultsAreGenuine
<1>6. /\ store'.binding.id = o.answer.binding /\ store'.binding.user = o.pending.user
      /\ store'.binding.revision = o.answer.revision /\ store'.binding.token = o.pending.token
  BY <1>1 DEF Bound
<1>7. store'.binding # None
  <2>1. o.pending \in Pend(ids) /\ o.answer \in Ans(ids, Len(rows)) /\ ids \in Nat
    BY <1>1, OpsHeld, Numbers
  <2>2. o.answer.binding \in 0 .. ids /\ o.answer.revision \in Nat
    BY <2>1 DEF Ans
  <2>3. o.pending.user \in Accounts /\ o.pending.token \in Tokens \cup {None}
    BY <2>1 DEF Pend
  <2>4. o.answer.binding \in Nat
    BY <2>1, <2>2
  <2>5. Bound(o) \in Bindings
    BY <2>2, <2>3, <2>4 DEF Bound, Bindings
  <2> QED
    BY <1>1, <2>5, RecordAssumption
<1> QED
  BY <1>1, <1>2, <1>3, <1>5, <1>6, <1>7 DEF Issues

LEMMA GenuineMoving ==
  ASSUME NEW d, Moving(d), BindInv, ResultsAreGenuine, StoredBindingIsGenuine
  PROVE  StoredBindingIsGenuine'
<1> SUFFICES ASSUME store' # None, store'.binding # None
             PROVE  [installation |-> store'.installation, user |-> store'.binding.user, id |-> store'.binding.id,
                     revision |-> store'.binding.revision, token |-> store'.binding.token] \in issued'
  BY DEF StoredBindingIsGenuine
<1>1. issued' = issued
  BY DEF Moving, WorldFits
<1>2. \/ store # None /\ store'.binding = store.binding /\ store'.installation = store.installation
      \/ Binds(d) /\ Taken.answer.binding # 0
  BY DEF Moving, StoreFits, BindingFits
<1>3. CASE Binds(d) /\ Taken.answer.binding # 0
  BY <1>1, <1>3, BindsGenuine DEF Moving
<1> QED
  BY <1>1, <1>2, <1>3 DEF StoredBindingIsGenuine

(* What is to be revoked.                                                  *)
LEMMA OwnedMoving ==
  ASSUME NEW d, Moving(d), RevocationsOwned, StoredBindingIsGenuine
  PROVE  RevocationsOwned'
<1> SUFFICES ASSUME NEW r \in Revocations'
             PROVE  \E e \in issued : e.installation = r.installation /\ e.id = r.binding
  BY DEF RevocationsOwned, Owned, Moving, WorldFits
<1>1. CASE r \in Revocations
  BY <1>1 DEF RevocationsOwned, Owned
<1>2. CASE LetGo(d, r)
  <2>1. store # None /\ store.binding # None /\ r.installation = store.installation /\ r.binding = store.binding.id
    BY <1>2, RevokeFresh DEF LetGo
  <2> PICK e : e = [installation |-> store.installation, user |-> store.binding.user, id |-> store.binding.id,
                    revision |-> store.binding.revision, token |-> store.binding.token]
    OBVIOUS
  <2>2. e \in issued /\ e.installation = store.installation /\ e.id = store.binding.id
    BY <2>1 DEF StoredBindingIsGenuine
  <2> QED
    BY <2>1, <2>2
<1>3. CASE NewReplace(d, r)
  BY <1>3, RevokeFresh DEF RevocationsOwned, Owned
<1> QED
  BY <1>1, <1>2, <1>3, RevocationsMoving

LEMMA RevocationsOneMoving ==
  ASSUME NEW d, Moving(d), RevocationsOne
  PROVE  RevocationsOne'
<1> SUFFICES ASSUME NEW r \in Revocations', NEW s \in Revocations', r.operation = s.operation
             PROVE  r = s
  BY DEF RevocationsOne
<1>1. r \in Revocations \/ LetGo(d, r) \/ NewReplace(d, r)
  BY RevocationsMoving
<1>2. s \in Revocations \/ LetGo(d, s) \/ NewReplace(d, s)
  BY RevocationsMoving
<1>3. /\ r \in Revocations => r.operation # ids + 1
      /\ s \in Revocations => s.operation # ids + 1
  BY NumbersHeld, QueueMoving DEF Moving
<1>4. LetGo(d, r) \/ NewReplace(d, r) => r.operation = ids + 1
  BY RevokeFresh
<1>5. LetGo(d, s) \/ NewReplace(d, s) => s.operation = ids + 1
  BY RevokeFresh
<1>6. CASE LetGo(d, r)
  <2>1. LetGo(d, s)
    BY <1>2, <1>3, <1>4, <1>6 DEF LetGo, NewReplace, Takes, Is
  <2> QED
    BY <1>6, <2>1 DEF LetGo
<1>7. CASE NewReplace(d, r)
  <2>1. NewReplace(d, s)
    BY <1>2, <1>3, <1>4, <1>7 DEF LetGo, NewReplace, Takes, Is
  <2> QED
    <3> PICK i \in Q' : IsLast(i, d) /\ r = phone'.queue[i].revoke
      BY <1>7 DEF NewReplace
    <3> PICK j \in Q' : IsLast(j, d) /\ s = phone'.queue[j].revoke
      BY <2>1 DEF NewReplace
    <3>1. i = j
      BY QueueMoving DEF IsLast
    <3> QED
      BY <3>1
<1>8. CASE r \in Revocations
  <2>1. s \in Revocations
    BY <1>2, <1>3, <1>5, <1>8
  <2> QED
    BY <1>8, <2>1 DEF RevocationsOne
<1> QED
  BY <1>1, <1>6, <1>7, <1>8

LEMMA DeadMoving ==
  ASSUME NEW d, Moving(d), RevokedAreDead
  PROVE  RevokedAreDead'
<1> SUFFICES ASSUME NEW r \in Revocations', RevokeDone(r.operation)', NEW k \in DOMAIN rows'
             PROVE  rows'[k].binding # r.binding
  BY DEF RevokedAreDead, Dead
<1>1. RevokeDone(r.operation)
  BY DoneMoving
<1>2. r.operation # ids + 1
  BY <1>1, NumbersHeld, QueueMoving DEF Moving
<1>3. r \in Revocations
  BY <1>2, RevocationsMoving, RevokeFresh
<1>4. r.binding # 0
  BY <1>3, NumbersHeld, QueueMoving DEF Moving
<1>5. \A h \in DOMAIN rows : rows[h].binding # r.binding
  BY <1>1, <1>3 DEF RevokedAreDead, Dead
<1> QED
  BY <1>4, <1>5, RowsMoving

LEMMA ReplaceMoving ==
  ASSUME NEW d, Moving(d), RevocationsOne, ReplaceInv
  PROVE  ReplaceInv'
<1> SUFFICES ASSUME NEW i \in Q', Is(i, "revokeReplace")', NEW r \in Revocations',
                    r.operation = phone'.queue[i].operation
             PROVE  r.binding = phone'.queue[i].revoke.binding
  BY DEF ReplaceInv
<1> PICK o : o = phone'.queue[i]
  OBVIOUS
<1>1. r \in Revocations \/ r.operation = ids + 1
  BY RevocationsMoving, RevokeFresh
<1>2. CASE Stays(i, d)
  <2>1. i + d \in Q /\ Is(i + d, "revokeReplace") /\ o = phone.queue[i + d]
    BY <1>2 DEF Stays, Is
  <2>2. o.operation # ids + 1
    BY <2>1, OpsHeld, QueueMoving DEF Moving
  <2> QED
    BY <1>1, <2>1, <2>2 DEF ReplaceInv
<1>3. CASE OpFits(o, d)
  <2>1. store # None /\ \E s \in store.revokes : s.operation = o.operation /\ o.revoke = [s EXCEPT !.operation = ids + 1]
    BY <1>3 DEF OpFits, Is
  <2> PICK s \in store.revokes : s.operation = o.operation /\ o.revoke = [s EXCEPT !.operation = ids + 1]
    BY <2>1
  <2>2. Revokes_(s)
    BY <2>1 DEF Revokes_
  <2>3. s \in Revocations
    BY <2>2, RevocationsIs
  <2>4. s \in Rev(ids, Len(rows)) /\ s.operation # ids + 1
    BY <2>3, NumbersHeld, QueueMoving DEF Moving
  <2>5. o.revoke.binding = s.binding
    BY <2>4 DEF Rev
  <2>6. r = s
    BY <1>1, <2>3, <2>4 DEF RevocationsOne
  <2> QED
    BY <2>5, <2>6
<1> QED
  BY <1>2, <1>3, QueueMoving

LEMMA ReplacedMoving ==
  ASSUME NEW d, Moving(d), SaveInv, ReplacedAreDead
  PROVE  ReplacedAreDead'
<1> SUFFICES ASSUME NEW t \in Told', t.answer.outcome = "SUCCESS",
                    store' # None, store'.pending # None, store'.pending.operation = t.operation,
                    store'.binding # None, t.answer.installation = store'.installation,
                    rows'[store'.installation].binding = store'.binding.id
             PROVE  t.answer.binding = store'.binding.id
  BY DEF ReplacedAreDead, StandsOver
<1>1. t \in Told
  BY ToldMoving
<1>2. /\ store # None /\ store'.installation = store.installation
      /\ store'.pending = store.pending \/ (Takes(d, "save") /\ store'.pending = Taken.pending)
  BY DEF Moving, StoreFits, PendingFits
<1>3. ~(Takes(d, "save") /\ store'.pending = Taken.pending)
  <2> SUFFICES ASSUME Takes(d, "save"), store'.pending = Taken.pending
               PROVE  FALSE
    OBVIOUS
  <2>1. Unused(1, t.operation)
    BY DEF SaveInv, Takes, Taken
  <2> QED
    BY <1>1, <2>1 DEF Unused
<1>4. store'.binding = store.binding
  BY DEF Moving, StoreFits, BindingFits, Binds
<1>5. store.installation \in DOMAIN rows' /\ store'.binding.id # 0
  <2>1. /\ store'.installation \in 1 .. Len(rows') /\ store'.binding \in Held(ids') \cup {None}
        /\ rows' \in Seq(Row(ids')) /\ ids' \in Nat
    BY DEF Moving, TypeInv, Typed, StoreTyped, WorldTyped
  <2> QED
    BY <1>2, <2>1 DEF Held
<1>6. rows[store.installation].binding = store.binding.id
  BY <1>2, <1>4, <1>5, RowsMoving
<1> QED
  BY <1>1, <1>2, <1>3, <1>4, <1>6 DEF ReplacedAreDead, StandsOver

(* A binding that a load has not found is not told of.                     *)
LEMMA TellsMoving ==
  ASSUME NEW d, Moving(d), NEW b
  PROVE  /\ \A j \in Q' : Tells(j, "bind", b)' =>
              \/ j + d \in Q /\ Tells(j + d, "bind", b)
              \/ IsLast(j, d) /\ d = 1 /\ 1 \in Q /\ Tells(1, "resultLoad", b)
         /\ \A j \in Q' : Tells(j, "resultLoad", b)' =>
              \/ j + d \in Q /\ Tells(j + d, "resultLoad", b)
              \/ IsLast(j, d) /\ 1 \in W /\ writes[1].served /\ Type(1) = "DEVICE"
         /\ b \in known' => b \in known \/ (d = 1 /\ 1 \in Q /\ Tells(1, "bind", b))
<1>1. ASSUME NEW j \in Q', Tells(j, "bind", b)'
      PROVE  \/ j + d \in Q /\ Tells(j + d, "bind", b)
             \/ IsLast(j, d) /\ d = 1 /\ 1 \in Q /\ Tells(1, "resultLoad", b)
  <2>1. CASE Stays(j, d)
    BY <1>1, <2>1 DEF Stays, Tells, Is
  <2>2. CASE IsLast(j, d) /\ OpFits(phone'.queue[j], d)
    BY <1>1, <2>2 DEF OpFits, Tells, Is, Takes, Taken
  <2> QED
    BY <2>1, <2>2, QueueMoving
<1>2. ASSUME NEW j \in Q', Tells(j, "resultLoad", b)'
      PROVE  \/ j + d \in Q /\ Tells(j + d, "resultLoad", b)
             \/ IsLast(j, d) /\ 1 \in W /\ writes[1].served /\ Type(1) = "DEVICE"
  <2>1. CASE Stays(j, d)
    BY <1>2, <2>1 DEF Stays, Tells, Is
  <2>2. CASE IsLast(j, d) /\ OpFits(phone'.queue[j], d)
    BY <1>2, <2>2 DEF OpFits, Tells, Is, Answers
  <2> QED
    BY <2>1, <2>2, QueueMoving
<1>3. ASSUME b \in known'
      PROVE  b \in known \/ (d = 1 /\ 1 \in Q /\ Tells(1, "bind", b))
  BY <1>3 DEF Moving, StoreFits, KnownFits, Binds, Takes, Taken, Tells
<1> QED
  BY <1>1, <1>2, <1>3

LEMMA MissedWriteMoving ==
  ASSUME NEW d, Moving(d), MissedWrite
  PROVE  MissedWrite'
<1> SUFFICES ASSUME NEW i \in W', Type(i)' = "STATE", writes'[i].served, writes'[i].answer.outcome = "NOT_FOUND",
                    NEW b, b = rows'[writes'[i].message.body].binding, b # 0
             PROVE  /\ b \notin known'
                    /\ \A j \in Q' : ~Tells(j, "resultLoad", b)' /\ ~Tells(j, "bind", b)'
  BY DEF MissedWrite
<1> PICK k : k = writes'[i].message.body
  OBVIOUS
<1>1. PICK h \in W : writes'[i] = writes[h]
  BY DEF Moving, Coming, WritesFit, W
<1>2. Type(h) = "STATE" /\ writes[h].served /\ writes[h].answer.outcome = "NOT_FOUND" /\ k = writes[h].message.body
  BY <1>1 DEF Type
<1>3. h = 1 /\ k \in 1 .. Len(rows)
  BY <1>2, WritesHeld DEF Moving
<1>4. b = rows[k].binding
  <2>1. k \in DOMAIN rows'
    BY <1>3 DEF Moving, WorldFits, RowsFit, TypeInv, Typed, WorldTyped
  <2> QED
    BY <2>1, RowsMoving
<1>5. b \notin known /\ \A j \in Q : ~Tells(j, "resultLoad", b) /\ ~Tells(j, "bind", b)
  BY <1>2, <1>4 DEF MissedWrite
<1> QED
  BY <1>2, <1>3, <1>5, TellsMoving

LEMMA MissedLoadMoving ==
  ASSUME NEW d, Moving(d), MissedWrite, MissedLoad, RequestInv
  PROVE  MissedLoad'
<1> SUFFICES ASSUME NEW i \in Q', Is(i, "stateLoad")', phone'.queue[i].answer.outcome = "NOT_FOUND",
                    NEW b, b = rows'[phone'.queue[i].context.installation].binding, b # 0
             PROVE  /\ b \notin known'
                    /\ \A j \in Q' : ~Tells(j, "bind", b)' /\ (Tells(j, "resultLoad", b)' => j > i)
  BY DEF MissedLoad
<1> PICK o : o = phone'.queue[i]
  OBVIOUS
<1> PICK k : k = o.context.installation
  OBVIOUS
<1>r. k \in 1 .. Len(rows) => b = rows[k].binding
  <2> HAVE k \in 1 .. Len(rows)
  <2>1. k \in DOMAIN rows'
    BY DEF Moving, WorldFits, RowsFit, TypeInv, Typed, WorldTyped
  <2> QED
    BY <2>1, RowsMoving
<1>1. CASE Stays(i, d)
  <2>1. i + d \in Q /\ Is(i + d, "stateLoad") /\ o = phone.queue[i + d]
    BY <1>1 DEF Stays, Is
  <2>2. k \in 1 .. Len(rows)
    BY <2>1, OpsHeld DEF Moving
  <2>3. b \notin known /\ \A j \in Q : ~Tells(j, "bind", b) /\ (Tells(j, "resultLoad", b) => j > i + d)
    BY <1>r, <2>1, <2>2 DEF MissedLoad
  <2>4. b \notin known'
    BY <2>3, TellsMoving
  <2>5. ASSUME NEW j \in Q'
        PROVE  ~Tells(j, "bind", b)' /\ (Tells(j, "resultLoad", b)' => j > i)
    <3>1. i \in Nat \ {0} /\ j \in Nat \ {0} /\ Len(phone.queue) \in Nat /\ d \in {0, 1}
          /\ i + d \in 1 .. Len(phone.queue)
      BY <2>1, QueueMoving
    <3>2. ~Tells(j, "bind", b)'
      <4>1. ~(j + d \in Q /\ Tells(j + d, "bind", b))
        BY <2>3
      <4>2. ~(d = 1 /\ 1 \in Q /\ Tells(1, "resultLoad", b))
        BY <2>3, <3>1
      <4> QED
        BY <4>1, <4>2, TellsMoving
    <3>3. Tells(j, "resultLoad", b)' => j > i
      <4>1. j + d \in Q /\ Tells(j + d, "resultLoad", b) => j > i
        BY <2>3, <3>1
      <4>2. IsLast(j, d) => j > i
        BY <3>1 DEF IsLast
      <4> QED
        BY <4>1, <4>2, TellsMoving
    <3> QED
      BY <3>2, <3>3
  <2> QED
    BY <2>4, <2>5
<1>2. CASE IsLast(i, d) /\ OpFits(o, d)
  <2>1. /\ 1 \in W /\ writes[1].served /\ Type(1) = "STATE" /\ writes[1].answer.outcome = "NOT_FOUND"
        /\ phone.request # None /\ o.context = phone.request /\ phone.request.id = writes[1].message.id
    BY <1>2 DEF OpFits, Answers, Is
  <2>2. k = writes[1].message.body /\ k \in 1 .. Len(rows)
    BY <2>1, WritesHeld DEF RequestInv, Moving
  <2>3. b \notin known /\ \A j \in Q : ~Tells(j, "resultLoad", b) /\ ~Tells(j, "bind", b)
    BY <1>r, <2>1, <2>2 DEF MissedWrite
  <2>4. b \notin known'
    BY <2>3, TellsMoving
  <2>5. ASSUME NEW j \in Q'
        PROVE  ~Tells(j, "bind", b)' /\ ~Tells(j, "resultLoad", b)'
    BY <2>1, <2>3, TellsMoving
  <2> QED
    BY <2>4, <2>5
<1> QED
  BY <1>1, <1>2, QueueMoving

LEMMA MissedRotateMoving ==
  ASSUME NEW d, Moving(d), MissedLoad, MissedRotate
  PROVE  MissedRotate'
<1> SUFFICES ASSUME NEW i \in Q', Is(i, "rotate")',
                    NEW b, b = rows'[phone'.queue[i].context.installation].binding, b # 0
             PROVE  /\ b \notin known'
                    /\ \A j \in Q' : Tells(j, "bind", b)' => j > i
  BY DEF MissedRotate
<1> PICK o : o = phone'.queue[i]
  OBVIOUS
<1> PICK k : k = o.context.installation
  OBVIOUS
<1>r. k \in 1 .. Len(rows) => b = rows[k].binding
  <2> HAVE k \in 1 .. Len(rows)
  <2>1. k \in DOMAIN rows'
    BY DEF Moving, WorldFits, RowsFit, TypeInv, Typed, WorldTyped
  <2> QED
    BY <2>1, RowsMoving
<1>1. CASE Stays(i, d)
  <2>1. i + d \in Q /\ Is(i + d, "rotate") /\ o = phone.queue[i + d]
    BY <1>1 DEF Stays, Is
  <2>2. k \in 1 .. Len(rows)
    BY <2>1, OpsHeld DEF Moving
  <2>3. b \notin known /\ \A j \in Q : Tells(j, "bind", b) => j > i + d
    BY <1>r, <2>1, <2>2 DEF MissedRotate
  <2>0. i \in Nat \ {0} /\ Len(phone.queue) \in Nat /\ d \in {0, 1} /\ i + d \in 1 .. Len(phone.queue)
    BY <2>1, QueueMoving
  <2>4. b \notin known'
    <3>1. ~(d = 1 /\ 1 \in Q /\ Tells(1, "bind", b))
      BY <2>0, <2>3
    <3> QED
      BY <2>3, <3>1, TellsMoving
  <2>5. ASSUME NEW j \in Q', Tells(j, "bind", b)'
        PROVE  j > i
    <3>1. j \in Nat \ {0}
      BY QueueMoving
    <3>2. j + d \in Q /\ Tells(j + d, "bind", b) => j > i
      BY <2>0, <2>3, <3>1
    <3>3. IsLast(j, d) => j > i
      BY <2>0, <3>1 DEF IsLast
    <3> QED
      BY <2>5, <3>2, <3>3, TellsMoving
  <2> QED
    BY <2>4, <2>5
<1>2. CASE IsLast(i, d) /\ OpFits(o, d)
  <2>1. /\ 1 \in Q /\ Is(1, "stateLoad") /\ o.context = phone.queue[1].context
        /\ phone.queue[1].answer.outcome = "NOT_FOUND"
    BY <1>2 DEF OpFits, Takes, Taken, Is
  <2>2. k \in 1 .. Len(rows)
    BY <2>1, OpsHeld DEF Moving
  <2>3. b \notin known /\ \A j \in Q : ~Tells(j, "bind", b) /\ (Tells(j, "resultLoad", b) => j > 1)
    BY <1>r, <2>1, <2>2 DEF MissedLoad
  <2>4. b \notin known'
    BY <2>1, <2>3, TellsMoving DEF Tells, Is
  <2>5. ASSUME NEW j \in Q'
        PROVE  ~Tells(j, "bind", b)'
    BY <2>1, <2>3, TellsMoving DEF Tells, Is
  <2> QED
    BY <2>4, <2>5
<1> QED
  BY <1>1, <1>2, QueueMoving

LEMMA RequestMoving ==
  ASSUME NEW d, Moving(d), RequestInv
  PROVE  RequestInv'
<1> SUFFICES ASSUME NEW i \in W', Type(i)' = "STATE", phone'.request # None,
                    phone'.request.id = writes'[i].message.id
             PROVE  writes'[i].message.body = phone'.request.installation
  BY DEF RequestInv
<1>1. CASE \E j \in W : writes'[i] = writes[j]
  <2> PICK j \in W : writes'[i] = writes[j]
    BY <1>1
  <2>1. Type(j) = "STATE" /\ writes[j].message.id \in 0 .. ids /\ ids \in Nat
    BY WritesHeld, QueueMoving DEF Moving, Type
  <2>2. phone'.request = phone.request
    BY <2>1 DEF Moving, Coming, RequestFits
  <2> QED
    BY <2>1, <2>2 DEF RequestInv
<1>2. CASE MsgFits(writes'[i].message, phone'.request)
  BY <1>2 DEF MsgFits, Type
<1> QED
  BY <1>1, <1>2 DEF Moving, Coming, WritesFit, W

LEMMA KnownMoving ==
  ASSUME NEW d, Moving(d), KnownInv
  PROVE  KnownInv'
<1> SUFFICES ASSUME store' = None, NEW b \in known'
             PROVE  FALSE
  BY DEF KnownInv
<1>1. store = None
  BY DEF Moving, StoreFits
<1>2. b \in known
  BY <1>1 DEF Moving, StoreFits, KnownFits, Binds
<1> QED
  BY <1>1, <1>2 DEF KnownInv

(* The binding that the phone gives up for another is dead by then.        *)
LEMMA OwnedOnce ==
  ASSUME IssuedOnce, NEW i, NEW j, NEW b, Owned(i, b), Owned(j, b)
  PROVE  i = j
BY DEF IssuedOnce, Owned

LEMMA StoredOwned ==
  ASSUME StoredBindingIsGenuine, store # None, store.binding # None
  PROVE  Owned(store.installation, store.binding.id)
<1> PICK e : e = [installation |-> store.installation, user |-> store.binding.user, id |-> store.binding.id,
                  revision |-> store.binding.revision, token |-> store.binding.token]
  OBVIOUS
<1>1. e \in issued /\ e.installation = store.installation /\ e.id = store.binding.id
  BY DEF StoredBindingIsGenuine
<1> QED
  BY <1>1 DEF Owned

LEMMA ForgottenMoving ==
  ASSUME NEW d, Moving(d), BindInv, ResultsAreGenuine, StoredBindingIsGenuine, IssuedOnce, RowsInv,
         RevokedAreDead, ReplaceInv, ReplacedAreDead, MissedRotate, KnownInv, NoBindingForgotten
  PROVE  NoBindingForgotten'
<1> SUFFICES ASSUME NEW i \in DOMAIN rows', rows'[i].binding \in known'
             PROVE  \/ store'.binding # None /\ store'.binding.id = rows'[i].binding
                    \/ \E r \in store'.revokes : r.binding = rows'[i].binding
  BY DEF NoBindingForgotten
<1> PICK b : b = rows'[i].binding
  OBVIOUS
<1>0. b # 0 /\ i \in DOMAIN rows /\ rows[i].binding = b
  <2>1. b # 0
    BY DEF Moving, TypeInv, Typed, WorldTyped
  <2> QED
    BY <2>1, RowsMoving
<1>1. Owned(i, b)
  BY <1>0 DEF RowsInv
<1>2. CASE b \notin known
  <2>1. Binds(d) /\ b = Taken.answer.binding
    BY <1>2 DEF Moving, StoreFits, KnownFits
  <2> QED
    BY <1>0, <2>1, BindsGenuine DEF Moving
<1>3. CASE b \in known
  <2>0. store # None /\ store' # None
    BY <1>3 DEF KnownInv, Moving, StoreFits
  <2>1. CASE store.binding # None /\ store.binding.id = b
    <3>0. i = store.installation
      <4>1. Owned(store.installation, b)
        BY <2>0, <2>1, StoredOwned
      <4> QED
        BY <1>1, <4>1, OwnedOnce
    <3>1. \/ store'.binding = store.binding
          \/ \E s \in store'.revokes : s.binding = store.binding.id
          \/ Binds(d) \/ Rotates(d)
      BY <2>0, <2>1 DEF Moving, StoreFits, BindingKept
    <3>2. CASE Binds(d)
      <4> PICK t : t = ToldOf(Taken.pending.operation, Taken.answer)
        OBVIOUS
      <4>1. /\ 1 \in Q /\ Is(1, "bind") /\ store.pending # None
            /\ store.pending.operation = Taken.pending.operation
        BY <3>2 DEF Binds, Takes
      <4>2. Taken.answer.outcome = "SUCCESS" /\ store.installation = Taken.answer.installation
        BY <4>1 DEF BindInv, Bindable, Taken
      <4>3. t \in Told /\ t.operation = Taken.pending.operation /\ t.answer = Taken.answer
        <5>1. Tells_(t)
          BY <4>1 DEF Tells_, Taken
        <5> QED
          BY <5>1, ToldIs DEF ToldOf
      <4>4. Taken.answer.binding = b
        BY <1>0, <2>0, <2>1, <3>0, <4>1, <4>2, <4>3 DEF ReplacedAreDead, StandsOver
      <4> QED
        BY <1>0, <3>2, <4>4, BindsGenuine DEF Moving
    <3>3. CASE Rotates(d)
      <4>1. 1 \in Q /\ Is(1, "rotate")
        BY <3>3 DEF Rotates, Takes
      <4>2. CASE Taken.context.installation = store.installation
        BY <1>0, <1>3, <3>0, <4>1, <4>2 DEF MissedRotate, Taken
      <4> QED
        BY <2>1, <3>3, <4>2 DEF Rotates
    <3> QED
      BY <2>1, <3>1, <3>2, <3>3
  <2>2. ASSUME NEW r \in store.revokes, r.binding = b
        PROVE  \E s \in store'.revokes : s.binding = b
    <3>0. r \in Revocations
      <4>1. Revokes_(r)
        BY <2>0 DEF Revokes_
      <4> QED
        BY <4>1, RevocationsIs
    <3>1. \/ r \in store'.revokes
          \/ Takes(d, "revokeReplace") /\ r.operation = Taken.operation /\ Taken.revoke \in store'.revokes
          \/ Takes(d, "revokeDone") /\ r.operation = Taken.operation
      BY <2>0 DEF Moving, StoreFits, RevokesKept
    <3>2. CASE Takes(d, "revokeReplace") /\ r.operation = Taken.operation /\ Taken.revoke \in store'.revokes
      <4>1. r.binding = Taken.revoke.binding
        BY <3>0, <3>2 DEF ReplaceInv, Takes, Taken
      <4> QED
        BY <2>2, <3>2, <4>1
    <3>3. CASE Takes(d, "revokeDone") /\ r.operation = Taken.operation
      <4>1. RevokeDone(r.operation)
        BY <3>3 DEF RevokeDone, Takes, Taken
      <4>2. Dead(b)
        BY <2>2, <3>0, <4>1 DEF RevokedAreDead
      <4> QED
        BY <1>0, <4>2 DEF Dead
    <3> QED
      BY <2>2, <3>1, <3>2, <3>3
  <2> QED
    BY <1>0, <1>3, <2>1, <2>2 DEF NoBindingForgotten
<1> QED
  BY <1>2, <1>3

(* The invariant, whole: the results and what is bound of them; what is    *)
(* revoked; and that nothing is forgotten.                                 *)
GenuineInv ==
  /\ RegistrationsOne /\ NumbersApart /\ SaveInv /\ BindInv /\ ResultsAreGenuine
  /\ StoredBindingIsGenuine
RevokesInv ==
  /\ IssuedOnce /\ RowsInv /\ RevocationsOwned /\ RevocationsOne /\ RevokedAreDead /\ ReplaceInv
ForgetInv ==
  /\ ReplacedAreDead /\ MissingInv /\ RequestInv /\ KnownInv /\ NoBindingForgotten

LEMMA OnwardKeeps ==
  ASSUME NEW d, Moving(d), GenuineInv, RevokesInv, ForgetInv
  PROVE  GenuineInv' /\ RevokesInv' /\ ForgetInv'
<1>0. /\ RegistrationsOne /\ NumbersApart /\ SaveInv /\ BindInv /\ ResultsAreGenuine
      /\ StoredBindingIsGenuine
      /\ IssuedOnce /\ RowsInv /\ RevocationsOwned /\ RevocationsOne /\ RevokedAreDead /\ ReplaceInv
      /\ ReplacedAreDead /\ MissedWrite /\ MissedLoad /\ MissedRotate /\ RequestInv /\ KnownInv
      /\ NoBindingForgotten
  BY DEF GenuineInv, RevokesInv, ForgetInv, MissingInv
<1>1. GenuineInv'
  BY <1>0, RegistrationsMoving, ApartMoving, SaveMoving, BindMoving, ResultsMoving, GenuineMoving
  DEF GenuineInv
<1>2. IssuedOnce'
  BY <1>0 DEF IssuedOnce, Moving, WorldFits
<1>3. RowsInv'
  BY <1>0, RowsMoving DEF RowsInv, Owned, Moving, WorldFits
<1>4. RevokesInv'
  BY <1>0, <1>2, <1>3, OwnedMoving, RevocationsOneMoving, DeadMoving, ReplaceMoving DEF RevokesInv
<1>5. MissingInv'
  BY <1>0, MissedWriteMoving, MissedLoadMoving, MissedRotateMoving DEF MissingInv
<1>6. ForgetInv'
  BY <1>0, <1>5, ReplacedMoving, RequestMoving, KnownMoving, ForgottenMoving DEF ForgetInv
<1> QED
  BY <1>1, <1>4, <1>6
---------------------------------------------------------------------------
(* A step of the server: the first write is answered.                      *)
Missed(a) == a.outcome \in {"RETRY", "FAILED"} /\ a.binding = 0
Serving(m, s, a) ==
  /\ TypeInv /\ TypeInv' /\ m = writes[1].message /\ m \in Message(ids, Len(rows))
  /\ 1 \in W /\ ~writes[1].served /\ s = Served(m) /\ Executable(m)
  /\ W' = W /\ writes'[1].message = m /\ writes'[1].served /\ writes'[1].answer = a
  /\ \A j \in W : j # 1 => writes'[j] = writes[j]
  /\ store' = store /\ phone' = phone /\ known' = known
  /\ \/ Effect(m, s) /\ (a = s.answer \/ Missed(a))
     \/ UNCHANGED <<rows, log, ids, issued>> /\ Missed(a)

LEMMA ServeMoves ==
  ASSUME TypeInv, TypeInv', Serve
  PROVE  \E m, s, a : Serving(m, s, a)
<1>p. PICK m, s, a :
      /\ m = writes[1].message /\ s = Served(m) /\ m \in Message(ids, Len(rows)) /\ Executable(m)
      /\ 1 \in W /\ ~writes[1].served
      /\ \/ Effect(m, s) /\ a = s.answer /\ UNCHANGED events
         \/ Effect(m, s) /\ a = Lost(Installation(m), "") /\ Lose
         \/ /\ a = Lost(Installation(m), "") \/ (m.type # "STATE" /\ a = Lost(Installation(m), "EXPIRED"))
            /\ Lose /\ UNCHANGED <<rows, log, ids, issued>>
      /\ Answered(a)
      /\ UNCHANGED <<store, phone, page, cookie, target, gone, known, ended, disturbed>>
  BY ServeIs
<1>1. writes' = [writes EXCEPT ![1].served = TRUE, ![1].epoch = page.epoch, ![1].answer = a]
  BY <1>p DEF Answered
<1>2. writes[1] \in Request(ids, Len(rows)) /\ 1 \in DOMAIN writes
  BY <1>p, WritesHeld DEF W
<1>3. /\ DOMAIN writes' = DOMAIN writes /\ writes'[1].message = m /\ writes'[1].served /\ writes'[1].answer = a
      /\ \A j \in DOMAIN writes : j # 1 => writes'[j] = writes[j]
  BY <1>1, <1>2, <1>p DEF Request
<1>4. Missed(Lost(Installation(m), "")) /\ Missed(Lost(Installation(m), "EXPIRED"))
  BY DEF Missed, Lost, Answer
<1>5. \/ Effect(m, s) /\ (a = s.answer \/ Missed(a))
      \/ UNCHANGED <<rows, log, ids, issued>> /\ Missed(a)
  BY <1>p, <1>4
<1> QED
  BY <1>p, <1>3, <1>5 DEF Serving, W

LEMMA StateForms ==
  ASSUME TypeInv, NEW i \in 1 .. Len(rows), NEW s, s = ServeState(i)
  PROVE  /\ s.row = rows[i] /\ s.logged = FALSE
         /\ s.answer.outcome = "NOT_FOUND" => rows[i].binding = 0
<1>1. rows[i] \in Row(ids)
  BY PageKnown
<1>2. rows[i].user = None => rows[i].binding = 0
  BY <1>1, RowIs
<1>3. s.row = rows[i] /\ s.logged = FALSE
  BY DEF ServeState
<1> PICK a : a = Answer("SUCCESS", "", i, page.user, rows[i].revision, rows[i].binding)
  OBVIOUS
<1>4. Stands(i) => s.answer = a
  BY DEF ServeState
<1>5. a.outcome = "SUCCESS"
  BY DEF Answer
<1> QED
  BY <1>2, <1>3, <1>4, <1>5 DEF Stands

(* What a request for a device comes to.                                   *)
Again(s, i, n) == Logged(n) /\ s.row = rows[i] /\ s.logged = FALSE /\ s.answer = Result(n)
Nothing(s, i) ==
  /\ s.row = rows[i] /\ rows[i].binding = 0 /\ s.logged = FALSE
  /\ s.answer.installation = i /\ s.answer.binding = 0
Conflicts(s, i) == s.row = rows[i] /\ s.logged = FALSE /\ s.answer.outcome = "FAILED" /\ s.answer.binding = 0
Enrolled(s, i, token) ==
  /\ s.answer.installation = i /\ s.answer.binding = s.row.binding
  /\ s.row.binding \in {0, rows[i].binding, ids + 1}
  /\ s.row.binding # 0 => /\ s.row.user = s.answer.user /\ s.row.revision = s.answer.revision
                          /\ s.row.token = token

LEMMA DeviceForms ==
  ASSUME TypeInv, NEW i \in 1 .. Len(rows), NEW pending \in Pend(ids), page.phase = "authenticated",
         NEW s, s = ServeDevice(i, pending)
  PROVE  \/ Again(s, i, pending.operation) \/ Nothing(s, i) \/ Conflicts(s, i)
         \/ Enrolled(s, i, pending.token)
<1>0. /\ rows[i] \in Row(ids) /\ ids \in Nat /\ page.user \in Accounts /\ Len(rows) \in Nat
  BY PageKnown, SeqLen
<1> PICK row : row = rows[i]
  OBVIOUS
<1> PICK b : b = IF row.binding # 0 /\ row.user = page.user THEN row.binding ELSE ids + 1
  OBVIOUS
<1>n. PICK new : new = [user |-> page.user, session |-> cookie.session, binding |-> b,
                        revision |-> row.revision + 1, token |-> pending.token]
  OBVIOUS
<1> PICK off : off = Deactivated(row)
  OBVIOUS
<1> PICK kept : kept = IF pending.token = None THEN off ELSE new
  OBVIOUS
<1>1. \/ /\ Logged(pending.operation)
         /\ s = [row |-> row, logged |-> FALSE, answer |-> Result(pending.operation)]
      \/ /\ ~Stands(i)
         /\ s = [row |-> row, logged |-> FALSE, answer |-> Answer("SUCCESS", "", i, page.user, 0, 0)]
      \/ s = [row |-> row, logged |-> FALSE,
              answer |-> Answer("FAILED", "CONFLICT", i, page.user, 0, 0)]
      \/ s = [row |-> kept, logged |-> TRUE,
              answer |-> Answer("SUCCESS", "", i, page.user, kept.revision, kept.binding)]
  BY <1>n DEF ServeDevice
<1>3. CASE /\ Logged(pending.operation)
           /\ s = [row |-> row, logged |-> FALSE, answer |-> Result(pending.operation)]
  BY <1>3 DEF Again
<1>4. CASE /\ ~Stands(i)
           /\ s = [row |-> row, logged |-> FALSE, answer |-> Answer("SUCCESS", "", i, page.user, 0, 0)]
  <2>1. rows[i].binding = 0
    BY <1>0, <1>4, RowIs DEF Stands
  <2> PICK a : a = Answer("SUCCESS", "", i, page.user, 0, 0)
    OBVIOUS
  <2>2. s.row = row /\ s.logged = FALSE /\ s.answer = a
    BY ONLY <1>4, a = Answer("SUCCESS", "", i, page.user, 0, 0)
  <2>3. a.installation = i /\ a.binding = 0
    BY DEF Answer
  <2> QED
    BY <2>1, <2>2, <2>3 DEF Nothing
<1>5. CASE s = [row |-> row, logged |-> FALSE,
                answer |-> Answer("FAILED", "CONFLICT", i, page.user, 0, 0)]
  <2> PICK a : a = Answer("FAILED", "CONFLICT", i, page.user, 0, 0)
    OBVIOUS
  <2>2. s.row = row /\ s.logged = FALSE /\ s.answer = a
    BY ONLY <1>5, a = Answer("FAILED", "CONFLICT", i, page.user, 0, 0)
  <2>3. a.outcome = "FAILED" /\ a.binding = 0
    BY DEF Answer
  <2> QED
    BY <2>2, <2>3 DEF Conflicts
<1>6. CASE s = [row |-> kept, logged |-> TRUE,
                answer |-> Answer("SUCCESS", "", i, page.user, kept.revision, kept.binding)]
  <2> PICK a : a = Answer("SUCCESS", "", i, page.user, kept.revision, kept.binding)
    OBVIOUS
  <2>2. s.row = kept /\ s.answer = a
    BY ONLY <1>6, a = Answer("SUCCESS", "", i, page.user, kept.revision, kept.binding)
  <2>3. a.installation = i /\ a.binding = kept.binding /\ a.user = page.user /\ a.revision = kept.revision
    BY DEF Answer
  <2>4. kept.binding \in {0, row.binding, ids + 1}
    BY <1>0, <1>n, Deactivates
  <2>5. kept.binding # 0 => kept.user = page.user /\ kept.token = pending.token
    BY <1>0, <1>n, Deactivates
  <2> QED
    BY <2>2, <2>3, <2>4, <2>5 DEF Enrolled
<1> QED
  BY <1>1, <1>3, <1>4, <1>5, <1>6

(* What a revocation comes to.                                             *)
Off(s, i, b) == s.row.binding \in {0, rows[i].binding} /\ s.row.binding # b
LEMMA RevokeForms ==
  ASSUME TypeInv, NEW i \in 1 .. Len(rows), NEW revoke \in Rev(ids, Len(rows)),
         NEW s, s = ServeRevoke(i, revoke)
  PROVE  \/ s.row = rows[i] /\ rows[i].binding = 0
         \/ s.row = rows[i] /\ Logged(revoke.operation)
         \/ s.row = rows[i] /\ s.logged = FALSE /\ s.answer.outcome = "FAILED"
         \/ Off(s, i, revoke.binding)
<1>0. rows[i] \in Row(ids) /\ ids \in Nat /\ revoke.binding # 0
  BY PageKnown DEF Rev
<1> PICK row : row = rows[i]
  OBVIOUS
<1> PICK off : off = IF row.binding = revoke.binding THEN Deactivated(row) ELSE row
  OBVIOUS
<1> PICK yes : yes = Answer("SUCCESS", "", i, None, 0, 0)
  OBVIOUS
<1> PICK no : no = Answer("FAILED", "CONFLICT", i, None, 0, 0)
  OBVIOUS
<1>1. \/ ~Stands(i) /\ s = [row |-> row, logged |-> FALSE, answer |-> yes]
      \/ /\ Logged(revoke.operation)
         /\ s = [row |-> row, logged |-> FALSE, answer |-> Result(revoke.operation)]
      \/ s = [row |-> row, logged |-> FALSE, answer |-> no]
      \/ s = [row |-> off, logged |-> TRUE, answer |-> yes]
  BY DEF ServeRevoke
<1>2. no.outcome = "FAILED"
  BY DEF Answer
<1>3. ~Stands(i) => rows[i].binding = 0
  BY <1>0, RowIs DEF Stands
<1>4. off.binding \in {0, row.binding} /\ off.binding # revoke.binding
  BY <1>0, Deactivates
<1>5. CASE ~Stands(i) /\ s = [row |-> row, logged |-> FALSE, answer |-> yes]
  <2>1. s.row = row
    BY ONLY <1>5
  <2> QED
    BY <1>3, <1>5, <2>1
<1>6. CASE /\ Logged(revoke.operation)
           /\ s = [row |-> row, logged |-> FALSE, answer |-> Result(revoke.operation)]
  <2>1. s.row = row
    BY ONLY <1>6
  <2> QED
    BY <1>6, <2>1
<1>7. CASE s = [row |-> row, logged |-> FALSE, answer |-> no]
  <2>1. s.row = row /\ s.logged = FALSE /\ s.answer = no
    BY ONLY <1>7
  <2> QED
    BY <1>2, <2>1
<1>8. CASE s = [row |-> off, logged |-> TRUE, answer |-> yes]
  <2>1. s.row = off
    BY ONLY <1>8
  <2> QED
    BY <1>4, <2>1 DEF Off
<1> QED
  BY <1>1, <1>5, <1>6, <1>7, <1>8
---------------------------------------------------------------------------
(* What the server's step moves.                                           *)
LEMMA ServingKnown ==
  ASSUME NEW m, NEW s, NEW a, Serving(m, s, a)
  PROVE  /\ Installation(m) \in 1 .. Len(rows) /\ DOMAIN rows = 1 .. Len(rows) /\ DOMAIN rows' = DOMAIN rows
         /\ m.type \in {"STATE", "DEVICE", "REVOKE"} /\ ids \in Nat /\ Len(rows) \in Nat /\ m.id \in 0 .. ids
         /\ m.type = "STATE" => m.body \in 1 .. Len(rows) /\ Installation(m) = m.body /\ s = ServeState(m.body)
         /\ m.type = "DEVICE" =>
              /\ Installation(m) = m.body.installation /\ s = ServeDevice(m.body.installation, m.body.pending)
              /\ m.body.pending \in Pend(ids) /\ m.id = m.body.pending.operation
              /\ m.body.pending \in Registering /\ page.phase = "authenticated"
         /\ m.type = "REVOKE" =>
              /\ Installation(m) = m.body.installation /\ s = ServeRevoke(m.body.installation, m.body)
              /\ m.body \in Rev(ids, Len(rows)) /\ m.id = m.body.operation /\ m.body \in Revocations
         /\ issued \subseteq issued' /\ log \subseteq log'
         /\ Effect(m, s) => /\ rows' = [rows EXCEPT ![Installation(m)] = s.row] /\ rows'[Installation(m)] = s.row
                            /\ \A k \in DOMAIN rows : k # Installation(m) => rows'[k] = rows[k]
<1>0. TypeInv /\ m \in Message(ids, Len(rows)) /\ Executable(m) /\ s = Served(m) /\ m = writes[1].message /\ 1 \in W
  BY DEF Serving
<1>1. /\ Installation(m) \in 1 .. Len(rows) /\ m.type \in {"STATE", "DEVICE", "REVOKE"} /\ m.id \in 0 .. ids
      /\ m.type = "STATE" => Installation(m) = m.body /\ s = ServeState(m.body)
      /\ m.type = "DEVICE" => /\ Installation(m) = m.body.installation
                              /\ s = ServeDevice(m.body.installation, m.body.pending)
                              /\ m.body.pending \in Pend(ids) /\ m.id = m.body.pending.operation
      /\ m.type = "REVOKE" => /\ Installation(m) = m.body.installation
                              /\ s = ServeRevoke(m.body.installation, m.body)
                              /\ m.body \in Rev(ids, Len(rows)) /\ m.id = m.body.operation
      /\ m.type # "REVOKE" => page.phase = "authenticated"
  BY <1>0, MessageServed
<1>2. ids \in Nat /\ Len(rows) \in Nat /\ rows \in Seq(Row(ids)) /\ DOMAIN rows = 1 .. Len(rows)
  BY <1>0, PageKnown
<1>3. m.type = "DEVICE" => m.body.pending \in Registering
  <2> HAVE m.type = "DEVICE"
  <2>1. Registers(m.body.pending)
    BY <1>0 DEF Registers, Type
  <2> QED
    BY <2>1, RegisteringIs
<1>4. m.type = "REVOKE" => m.body \in Revocations
  <2> HAVE m.type = "REVOKE"
  <2>1. Revokes_(m.body)
    BY <1>0 DEF Revokes_, Type
  <2> QED
    BY <2>1, RevocationsIs
<1>5. issued \subseteq issued' /\ log \subseteq log'
  <2>1. CASE Effect(m, s)
    BY <2>1 DEF Effect
  <2>2. CASE UNCHANGED <<rows, log, ids, issued>>
    BY <2>2
  <2> QED
    BY <2>1, <2>2 DEF Serving
<1>6. Effect(m, s) => /\ rows' = [rows EXCEPT ![Installation(m)] = s.row] /\ rows'[Installation(m)] = s.row
                      /\ \A k \in DOMAIN rows : k # Installation(m) => rows'[k] = rows[k]
  BY <1>1, <1>2 DEF Effect
<1>7. DOMAIN rows' = DOMAIN rows
  <2>1. CASE Effect(m, s)
    BY <2>1 DEF Effect
  <2>2. CASE UNCHANGED <<rows, log, ids, issued>>
    BY <2>2
  <2> QED
    BY <2>1, <2>2 DEF Serving
<1> QED
  BY <1>1, <1>2, <1>3, <1>4, <1>5, <1>6, <1>7

LEMMA ServingForms ==
  ASSUME NEW m, NEW s, NEW a, Serving(m, s, a), NEW i, i = Installation(m)
  PROVE  /\ m.type = "STATE" =>
              s.row = rows[i] /\ s.logged = FALSE /\ (s.answer.outcome = "NOT_FOUND" => rows[i].binding = 0)
         /\ m.type = "DEVICE" => \/ Again(s, i, m.id) \/ Nothing(s, i) \/ Conflicts(s, i)
                                 \/ Enrolled(s, i, m.body.pending.token)
         /\ m.type = "REVOKE" =>
              \/ s.row = rows[i] /\ rows[i].binding = 0
              \/ s.row = rows[i] /\ Logged(m.id)
              \/ s.row = rows[i] /\ s.logged = FALSE /\ s.answer.outcome = "FAILED"
              \/ Off(s, i, m.body.binding)
<1>0. i \in 1 .. Len(rows) /\ TypeInv
  BY ServingKnown DEF Serving
<1>1. CASE m.type = "STATE"
  <2>1. s = ServeState(i)
    BY <1>1, ServingKnown
  <2> QED
    BY <1>0, <1>1, <2>1, StateForms
<1>2. CASE m.type = "DEVICE"
  <2> PICK p : p = m.body.pending
    OBVIOUS
  <2>1. s = ServeDevice(i, p) /\ p \in Pend(ids) /\ m.id = p.operation /\ page.phase = "authenticated"
    BY <1>2, ServingKnown
  <2>2. \/ Again(s, i, p.operation) \/ Nothing(s, i) \/ Conflicts(s, i) \/ Enrolled(s, i, p.token)
    BY <1>0, <2>1, DeviceForms
  <2> QED
    BY <1>2, <2>1, <2>2
<1>3. CASE m.type = "REVOKE"
  <2> PICK r : r = m.body
    OBVIOUS
  <2>1. s = ServeRevoke(i, r) /\ r \in Rev(ids, Len(rows)) /\ m.id = r.operation
    BY <1>3, ServingKnown
  <2>2. \/ s.row = rows[i] /\ rows[i].binding = 0
        \/ s.row = rows[i] /\ Logged(r.operation)
        \/ s.row = rows[i] /\ s.logged = FALSE /\ s.answer.outcome = "FAILED"
        \/ Off(s, i, r.binding)
    BY <1>0, <2>1, RevokeForms
  <2> QED
    BY <1>3, <2>1, <2>2
<1> QED
  BY <1>1, <1>2, <1>3

(* The rows: a binding is left, ended or new, and one that is new is       *)
(* issued for its installation.                                            *)
LEMMA ServingRows ==
  ASSUME NEW m, NEW s, NEW a, Serving(m, s, a)
  PROVE  /\ Effect(m, s) => s.row.binding \in {0, rows[Installation(m)].binding, ids + 1}
         /\ Effect(m, s) /\ m.type # "DEVICE" => s.row.binding \in {0, rows[Installation(m)].binding}
         /\ \A k \in DOMAIN rows : rows'[k].binding \in {0, rows[k].binding, ids + 1}
         /\ \A k \in DOMAIN rows :
              rows'[k].binding \in {0, rows[k].binding}
              \/ \E e \in issued' : e.installation = k /\ e.id = rows'[k].binding
         /\ \A e \in issued' :
              e \in issued
              \/ (Effect(m, s) /\ e.installation = Installation(m) /\ e.id = s.row.binding /\ e.id # 0)
<1> PICK i : i = Installation(m)
  OBVIOUS
<1>0. /\ i \in 1 .. Len(rows) /\ i \in DOMAIN rows /\ TypeInv /\ ids \in Nat
      /\ m.type \in {"STATE", "DEVICE", "REVOKE"}
  BY ServingKnown DEF Serving
<1>1. m.type = "STATE" => s.row = rows[i]
  BY ServingForms
<1>2. m.type = "REVOKE" => s.row.binding \in {0, rows[i].binding}
  BY ServingForms DEF Off
<1>3. m.type = "DEVICE" => s.row.binding \in {0, rows[i].binding, ids + 1}
  BY ServingForms DEF Again, Nothing, Conflicts, Enrolled
<1>4. CASE Effect(m, s)
  <2>1. rows'[i] = s.row /\ \A k \in DOMAIN rows : k # i => rows'[k] = rows[k]
    BY <1>4, ServingKnown
  <2> PICK x : x = [installation |-> i, user |-> s.row.user, id |-> s.row.binding,
                    revision |-> s.row.revision, token |-> s.row.token]
    OBVIOUS
  <2>2. issued' = IF m.type = "DEVICE" /\ s.row.binding # 0 THEN issued \cup {x} ELSE issued
    BY <1>4 DEF Effect
  <2>3. x.installation = i /\ x.id = s.row.binding
    OBVIOUS
  <2>4. \A e \in issued' : e \in issued \/ (e.installation = i /\ e.id = s.row.binding /\ e.id # 0)
    BY <2>2, <2>3
  <2>5. m.type = "DEVICE" /\ s.row.binding # 0 => \E e \in issued' : e.installation = i /\ e.id = s.row.binding
    BY <2>2, <2>3
  <2>6. \A k \in DOMAIN rows : rows'[k].binding \in {0, rows[k].binding, ids + 1}
    BY <1>0, <1>1, <1>2, <1>3, <2>1
  <2>7. \A k \in DOMAIN rows : rows'[k].binding \in {0, rows[k].binding}
              \/ \E e \in issued' : e.installation = k /\ e.id = rows'[k].binding
    BY <1>0, <1>1, <1>2, <2>1, <2>5
  <2> QED
    BY <1>0, <1>1, <1>2, <1>3, <1>4, <2>4, <2>6, <2>7
<1>5. CASE UNCHANGED <<rows, log, ids, issued>> /\ ~Effect(m, s)
  BY <1>5
<1> QED
  BY <1>4, <1>5 DEF Serving

LEMMA ServingSame ==
  ASSUME NEW m, NEW s, NEW a, Serving(m, s, a)
  PROVE  /\ \A p \in Registering' : p \in Registering
         /\ \A r \in Revocations' : r \in Revocations
         /\ \A j \in W : writes'[j].message = writes[j].message /\ Type(j)' = Type(j)
         /\ Q' = Q /\ W' = W
<1>1. \A j \in W : writes'[j].message = writes[j].message
  BY DEF Serving
<1>2. phone' = phone /\ store' = store /\ W' = W
  BY DEF Serving
<1>3. ASSUME NEW p \in Registering'
      PROVE  p \in Registering
  <2>1. Registers(p)'
    BY RegisteringIs
  <2>2. Registers(p)
    BY <1>1, <1>2, <2>1 DEF Registers, Q, Is, Type
  <2> QED
    BY <2>2, RegisteringIs
<1>4. ASSUME NEW r \in Revocations'
      PROVE  r \in Revocations
  <2>1. Revokes_(r)'
    BY RevocationsIs
  <2>2. Revokes_(r)
    BY <1>1, <1>2, <2>1 DEF Revokes_, Q, Is, Type
  <2> QED
    BY <2>2, RevocationsIs
<1> QED
  BY <1>1, <1>2, <1>3, <1>4 DEF Q, Type

(* A result that is new is the one of the request served.                  *)
LEMMA ServingTold ==
  ASSUME NEW m, NEW s, NEW a, Serving(m, s, a), NEW t \in Told'
  PROVE  \/ t \in Told
         \/ /\ t.operation = m.id
            /\ \/ m.type = "REVOKE"
               \/ m.type = "DEVICE" /\ (Missed(t.answer) \/ (Effect(m, s) /\ t.answer = s.answer))
<1>1. Tells_(t)'
  BY ToldIs
<1>2. CASE t \in log'
  <2>1. CASE Effect(m, s)
    <3> PICK x : x = [operation |-> m.id, answer |-> s.answer]
      OBVIOUS
    <3>1. log' = IF s.logged THEN log \cup {x} ELSE log
      BY <2>1 DEF Effect
    <3>2. CASE t \in log
      BY <3>2, ToldIs DEF Tells_
    <3>3. CASE t = x /\ s.logged
      <4>1. m.type # "STATE"
        BY <3>3, ServingForms
      <4> QED
        BY <2>1, <3>3, <4>1, ServingKnown
    <3> QED
      BY <1>2, <3>1, <3>2, <3>3
  <2>2. CASE UNCHANGED <<rows, log, ids, issued>>
    BY <1>2, <2>2, ToldIs DEF Tells_
  <2> QED
    BY <2>1, <2>2 DEF Serving
<1>3. ASSUME NEW i \in W', Type(i)' = "DEVICE", writes'[i].served,
             t = ToldOf(writes'[i].message.id, writes'[i].answer)
      PROVE  \/ t \in Told
             \/ /\ t.operation = m.id
                /\ m.type = "DEVICE" /\ (Missed(t.answer) \/ (Effect(m, s) /\ t.answer = s.answer))
  <2>1. CASE i = 1
    <3>1. t.operation = m.id /\ t.answer = a /\ m.type = "DEVICE"
      BY <1>3, <2>1 DEF Serving, ToldOf, Type
    <3> QED
      BY <3>1 DEF Serving
  <2>2. CASE i # 1
    <3>1. i \in W /\ writes'[i] = writes[i]
      BY <2>2 DEF Serving
    <3>2. Tells_(t)
      BY <1>3, <3>1 DEF Tells_, Type
    <3> QED
      BY <3>2, ToldIs
  <2> QED
    BY <2>1, <2>2
<1>4. ASSUME NEW i \in Q', \/ Is(i, "resultLoad")' /\ t = ToldOf(phone'.queue[i].operation, phone'.queue[i].answer)
                           \/ Is(i, "bind")' /\ t = ToldOf(phone'.queue[i].pending.operation, phone'.queue[i].answer)
      PROVE  t \in Told
  <2>1. Tells_(t)
    BY <1>4 DEF Serving, Tells_, Q, Is
  <2> QED
    BY <2>1, ToldIs
<1> QED
  BY <1>1, <1>2, <1>3, <1>4 DEF Tells_

LEMMA ServingDone ==
  ASSUME NEW m, NEW s, NEW a, Serving(m, s, a), NEW n, RevokeDone(n)'
  PROVE  \/ RevokeDone(n)
         \/ /\ n = m.id
            /\ \/ m.type = "DEVICE"
               \/ m.type = "REVOKE" /\ Effect(m, s) /\ (s.logged \/ s.answer.outcome = "SUCCESS")
<1>1. ASSUME NEW l \in log', l.operation = n
      PROVE  \/ RevokeDone(n)
             \/ /\ n = m.id
                /\ \/ m.type = "DEVICE"
                   \/ m.type = "REVOKE" /\ Effect(m, s) /\ s.logged
  <2>1. CASE Effect(m, s)
    <3> PICK x : x = [operation |-> m.id, answer |-> s.answer]
      OBVIOUS
    <3>1. log' = IF s.logged THEN log \cup {x} ELSE log
      BY <2>1 DEF Effect
    <3>2. CASE l \in log
      BY <1>1, <3>2 DEF RevokeDone
    <3>3. CASE l = x /\ s.logged
      <4>1. m.type # "STATE"
        BY <3>3, ServingForms
      <4> QED
        BY <1>1, <2>1, <3>3, <4>1, ServingKnown
    <3> QED
      BY <3>1, <3>2, <3>3
  <2>2. CASE UNCHANGED <<rows, log, ids, issued>>
    BY <1>1, <2>2 DEF RevokeDone
  <2> QED
    BY <2>1, <2>2 DEF Serving
<1>2. ASSUME NEW i \in W', Type(i)' = "REVOKE", writes'[i].message.id = n, writes'[i].served,
             writes'[i].answer.outcome = "SUCCESS"
      PROVE  \/ RevokeDone(n)
             \/ /\ n = m.id /\ m.type = "REVOKE" /\ Effect(m, s) /\ s.answer.outcome = "SUCCESS"
  <2>1. CASE i = 1
    <3>1. n = m.id /\ m.type = "REVOKE" /\ a.outcome = "SUCCESS"
      BY <1>2, <2>1 DEF Serving, Type
    <3> QED
      BY <3>1 DEF Serving, Missed
  <2>2. CASE i # 1
    <3>1. i \in W /\ writes'[i] = writes[i]
      BY <2>2 DEF Serving
    <3> QED
      BY <1>2, <3>1 DEF RevokeDone, Type
  <2> QED
    BY <2>1, <2>2
<1>3. CASE \/ \E i \in Q' : /\ Is(i, "revokeLoad")' /\ phone'.queue[i].operation = n
                            /\ phone'.queue[i].answer.outcome = "SUCCESS"
           \/ \E i \in Q' : Is(i, "revokeDone")' /\ phone'.queue[i].operation = n
  BY <1>3 DEF Serving, RevokeDone, Q, Is
<1> QED
  BY <1>1, <1>2, <1>3 DEF RevokeDone
---------------------------------------------------------------------------
(* What a step of the server keeps.                                        *)
LEMMA LoggedTold ==
  ASSUME TypeInv, NEW n, Logged(n)
  PROVE  RevokeDone(n) /\ \E t \in Told : t.operation = n /\ t.answer = Result(n)
<1>1. PICK l \in log : l.operation = n /\ l.answer = Result(n)
  BY Results
<1>2. l \in Told
  BY ToldIs DEF Tells_
<1> QED
  BY <1>1, <1>2 DEF RevokeDone

LEMMA GenuineServing ==
  ASSUME NEW m, NEW s, NEW a, Serving(m, s, a), GenuineInv
  PROVE  GenuineInv'
<1>0. /\ RegistrationsOne /\ NumbersApart /\ SaveInv /\ BindInv /\ ResultsAreGenuine
      /\ StoredBindingIsGenuine
  BY DEF GenuineInv
<1>s. /\ \A p \in Registering' : p \in Registering
      /\ \A r \in Revocations' : r \in Revocations
      /\ \A j \in W : writes'[j].message = writes[j].message /\ Type(j)' = Type(j)
      /\ Q' = Q /\ W' = W /\ phone' = phone /\ store' = store
      /\ issued \subseteq issued'
  BY ServingSame, ServingKnown DEF Serving
<1>1. RegistrationsOne' /\ NumbersApart'
  BY <1>0, <1>s DEF RegistrationsOne, NumbersApart
<1>2. SaveInv'
  <2> SUFFICES ASSUME NEW i \in Q', Is(i, "save")'
               PROVE  Unused(i, phone.queue[i].pending.operation)'
    BY DEF SaveInv
  <2> PICK n : n = phone.queue[i].pending.operation
    OBVIOUS
  <2>1. i \in Q /\ Is(i, "save") /\ Unused(i, n)
    BY <1>0, <1>s DEF SaveInv, Is
  <2>2. ASSUME NEW t \in Told', t.operation = n
        PROVE  FALSE
    <3>1. n = m.id /\ m.type \in {"DEVICE", "REVOKE"}
      BY <2>1, <2>2, ServingTold DEF Unused
    <3>2. m.type # "DEVICE"
      BY <2>1, <3>1 DEF Unused, Serving, Type
    <3>3. phone.queue[i].pending \in Registering
      <4>1. Registers(phone.queue[i].pending)
        BY <2>1 DEF Registers
      <4> QED
        BY <4>1, RegisteringIs
    <3> QED
      <4>1. m.body \in Revocations /\ m.id = m.body.operation
        BY <3>1, <3>2, ServingKnown
      <4> QED
        BY <1>0, <3>1, <3>3, <4>1 DEF NumbersApart
  <2> QED
    BY <1>s, <2>1, <2>2 DEF Unused, Is
<1>3. BindInv'
  BY <1>0, <1>s DEF BindInv, Bindable, Is
<1>4. ResultsAreGenuine'
  <2> SUFFICES ASSUME NEW t \in Told', NEW p \in Registering', t.operation = p.operation, t.answer.binding # 0
               PROVE  Issues(t.answer, p.token) \in issued'
    BY DEF ResultsAreGenuine, Issues
  <2>0. p \in Registering
    BY <1>s
  <2>1. CASE t \in Told
    BY <1>0, <1>s, <2>0, <2>1 DEF ResultsAreGenuine
  <2>2. CASE t.operation = m.id /\ m.type = "REVOKE"
    <3>1. m.body \in Revocations /\ m.id = m.body.operation
      BY <2>2, ServingKnown
    <3> QED
      BY <1>0, <2>0, <2>2, <3>1 DEF NumbersApart
  <2>3. CASE t.operation = m.id /\ m.type = "DEVICE" /\ Effect(m, s) /\ t.answer = s.answer
    <3>1. p = m.body.pending
      <4>1. m.body.pending \in Registering /\ m.id = m.body.pending.operation
        BY <2>3, ServingKnown
      <4> QED
        BY <1>0, <2>0, <2>3, <4>1 DEF RegistrationsOne
    <3> PICK i : i = Installation(m)
      OBVIOUS
    <3>2. Again(s, i, m.id) \/ Enrolled(s, i, p.token)
      BY <2>3, <3>1, ServingForms DEF Nothing, Conflicts
    <3>3. CASE Again(s, i, m.id)
      <4>1. PICK l \in Told : l.operation = m.id /\ l.answer = s.answer
        BY <3>3, LoggedTold DEF Again, Serving
      <4> QED
        BY <1>0, <1>s, <2>0, <2>3, <4>1 DEF ResultsAreGenuine
    <3>4. CASE Enrolled(s, i, p.token)
      <4>1. /\ s.row.binding # 0 /\ s.answer.installation = i /\ s.answer.binding = s.row.binding
            /\ s.row.user = s.answer.user /\ s.row.revision = s.answer.revision /\ s.row.token = p.token
        BY <2>3, <3>4 DEF Enrolled
      <4>2. [installation |-> i, user |-> s.row.user, id |-> s.row.binding,
             revision |-> s.row.revision, token |-> s.row.token] \in issued'
        BY <2>3, <4>1 DEF Effect
      <4> QED
        BY <2>3, <4>1, <4>2 DEF Issues
    <3> QED
      BY <3>2, <3>3, <3>4
  <2> QED
    BY <2>1, <2>2, <2>3, ServingTold DEF Missed
<1>5. StoredBindingIsGenuine'
  BY <1>0, <1>s DEF StoredBindingIsGenuine
<1> QED
  BY <1>1, <1>2, <1>3, <1>4, <1>5 DEF GenuineInv

LEMMA RevokesServing ==
  ASSUME NEW m, NEW s, NEW a, Serving(m, s, a), GenuineInv, RevokesInv
  PROVE  RevokesInv'
<1>0. /\ NumbersApart
      /\ IssuedOnce /\ RowsInv /\ RevocationsOwned /\ RevocationsOne /\ RevokedAreDead /\ ReplaceInv
  BY DEF GenuineInv, RevokesInv
<1>s. /\ \A r \in Revocations' : r \in Revocations
      /\ Q' = Q /\ phone' = phone /\ issued \subseteq issued' /\ DOMAIN rows' = DOMAIN rows /\ TypeInv
      /\ ids \in Nat
  BY ServingSame, ServingKnown DEF Serving
<1> PICK i : i = Installation(m)
  OBVIOUS
<1>i. i \in DOMAIN rows
  BY ServingKnown
<1>t. \A e \in issued : e.id \in 1 .. ids
  BY <1>s DEF TypeInv, Typed, WorldTyped, Issue
<1>1. IssuedOnce'
  <2>1. ASSUME NEW e \in issued', NEW f \in issued, e.id = f.id
        PROVE  e.installation = f.installation
    <3>1. CASE e \in issued
      BY <1>0, <2>1, <3>1 DEF IssuedOnce
    <3>2. CASE Effect(m, s) /\ e.installation = i /\ e.id = s.row.binding /\ e.id # 0
      <4>0. s.row.binding \in {0, rows[i].binding, ids + 1}
        BY <3>2, ServingRows
      <4>f. f.id # ids + 1
        BY <1>s, <1>t
      <4>1. e.id = rows[i].binding
        BY <2>1, <3>2, <4>0, <4>f
      <4>2. PICK g \in issued : g.installation = i /\ g.id = e.id
        BY <1>0, <1>i, <3>2, <4>1 DEF RowsInv, Owned
      <4> QED
        BY <1>0, <2>1, <3>2, <4>2 DEF IssuedOnce
    <3> QED
      BY <3>1, <3>2, ServingRows
  <2>2. \A e \in issued' : e \in issued \/ e.installation = i
    BY ServingRows
  <2> QED
    BY <2>1, <2>2 DEF IssuedOnce
<1>2. RowsInv'
  <2> SUFFICES ASSUME NEW k \in DOMAIN rows', rows'[k].binding # 0
               PROVE  \E e \in issued' : e.installation = k /\ e.id = rows'[k].binding
    BY DEF RowsInv, Owned
  <2>1. CASE rows'[k].binding = rows[k].binding
    BY <1>0, <1>s, <2>1 DEF RowsInv, Owned
  <2> QED
    BY <1>s, <2>1, ServingRows
<1>3. RevocationsOwned'
  BY <1>0, <1>s DEF RevocationsOwned, Owned
<1>4. RevocationsOne'
  BY <1>0, <1>s DEF RevocationsOne
<1>5. RevokedAreDead'
  <2> SUFFICES ASSUME NEW r \in Revocations', RevokeDone(r.operation)', NEW k \in DOMAIN rows'
               PROVE  rows'[k].binding # r.binding
    BY DEF RevokedAreDead, Dead
  <2>0. r \in Revocations /\ k \in DOMAIN rows /\ r.binding \in 1 .. ids
    BY <1>s, NumbersHeld
  <2>1. rows'[k].binding = r.binding => rows[k].binding = r.binding
    BY <1>s, <2>0, ServingRows
  <2>2. CASE RevokeDone(r.operation)
    BY <1>0, <2>0, <2>1, <2>2 DEF RevokedAreDead, Dead
  <2>3. CASE r.operation = m.id /\ m.type = "DEVICE"
    BY <1>0, <2>0, <2>3, ServingKnown DEF NumbersApart
  <2>4. CASE /\ r.operation = m.id /\ m.type = "REVOKE" /\ Effect(m, s)
             /\ s.logged \/ s.answer.outcome = "SUCCESS"
    <3>1. r = m.body /\ i = r.installation
      BY <1>0, <2>0, <2>4, ServingKnown DEF RevocationsOne
    <3>2. Owned(i, r.binding)
      BY <1>0, <2>0, <3>1 DEF RevocationsOwned
    <3>3. rows[k].binding = r.binding => k = i
      <4>1. rows[k].binding = r.binding => Owned(k, r.binding)
        BY <1>0, <1>s, <2>0 DEF RowsInv
      <4> QED
        BY <1>0, <3>2, <4>1, OwnedOnce
    <3>4. CASE s.row = rows[i] /\ rows[i].binding = 0
      BY <1>s, <2>0, <2>1, <3>3, <3>4
    <3>5. CASE Logged(m.id)
      BY <1>s, <2>2, <2>4, <3>5, LoggedTold
    <3>6. CASE Off(s, i, r.binding)
      BY <2>1, <2>4, <3>3, <3>6, ServingKnown DEF Off
    <3> QED
      BY <2>4, <3>1, <3>4, <3>5, <3>6, ServingForms
  <2> QED
    BY <2>2, <2>3, <2>4, ServingDone
<1>6. ReplaceInv'
  BY <1>0, <1>s DEF ReplaceInv, Is
<1> QED
  BY <1>1, <1>2, <1>3, <1>4, <1>5, <1>6 DEF RevokesInv

LEMMA ForgetServing ==
  ASSUME NEW m, NEW s, NEW a, Serving(m, s, a), GenuineInv, RevokesInv, ForgetInv
  PROVE  ForgetInv'
<1>0. /\ RegistrationsOne /\ NumbersApart
      /\ ReplacedAreDead /\ MissedWrite /\ MissedLoad /\ MissedRotate /\ RequestInv /\ KnownInv
      /\ NoBindingForgotten
  BY DEF GenuineInv, ForgetInv, MissingInv
<1>s. /\ \A j \in W : writes'[j].message = writes[j].message /\ Type(j)' = Type(j)
      /\ Q' = Q /\ W' = W /\ phone' = phone /\ store' = store /\ known' = known
      /\ DOMAIN rows' = DOMAIN rows /\ DOMAIN rows = 1 .. Len(rows) /\ TypeInv /\ ids \in Nat
      /\ \A k \in DOMAIN rows : rows'[k].binding \in {0, rows[k].binding, ids + 1}
  BY ServingSame, ServingKnown, ServingRows DEF Serving
<1> PICK i : i = Installation(m)
  OBVIOUS
<1>k. known \subseteq 1 .. ids
  BY <1>s DEF TypeInv, Typed, WorldTyped
  (* An old number is of the same row as before. *)
<1>r. \A k \in DOMAIN rows : rows'[k].binding \in 1 .. ids => rows[k].binding = rows'[k].binding
  BY <1>s
<1>1. ReplacedAreDead'
  <2> SUFFICES ASSUME NEW t \in Told', t.answer.outcome = "SUCCESS",
                      store # None, store.pending # None, store.pending.operation = t.operation,
                      store.binding # None, t.answer.installation = store.installation,
                      rows'[store.installation].binding = store.binding.id
               PROVE  t.answer.binding = store.binding.id
    BY <1>s DEF ReplacedAreDead, StandsOver
  <2>0. /\ store.installation \in DOMAIN rows /\ store.binding.id \in 1 .. ids
        /\ store.binding.id # 0
    BY <1>s DEF TypeInv, Typed, StoreTyped, Held
  <2>1. rows[store.installation].binding = store.binding.id
    BY <1>r, <2>0
  <2>p. store.pending \in Registering
    <3>1. Registers(store.pending)
      BY DEF Registers
    <3> QED
      BY <3>1, RegisteringIs
  <2>2. CASE t \in Told
    BY <1>0, <2>1, <2>2 DEF ReplacedAreDead, StandsOver
  <2>3. CASE t.operation = m.id /\ m.type = "REVOKE"
    <3>1. m.body \in Revocations /\ m.id = m.body.operation
      BY <2>3, ServingKnown
    <3> QED
      BY <1>0, <2>3, <2>p, <3>1 DEF NumbersApart
  <2>4. CASE t.operation = m.id /\ m.type = "DEVICE" /\ Effect(m, s) /\ t.answer = s.answer
    <3>1. CASE Again(s, i, m.id)
      <4>1. PICK l \in Told : l.operation = m.id /\ l.answer = s.answer
        BY <1>s, <3>1, LoggedTold DEF Again
      <4> QED
        BY <1>0, <2>1, <2>4, <4>1 DEF ReplacedAreDead, StandsOver
    <3>2. CASE Nothing(s, i)
      <4>1. i = store.installation /\ rows[i].binding = 0
        BY <2>4, <3>2 DEF Nothing
      <4> QED
        BY <2>0, <2>1, <4>1
    <3>3. CASE Conflicts(s, i)
      BY <2>4, <3>3 DEF Conflicts
    <3>4. CASE Enrolled(s, i, m.body.pending.token)
      <4>1. i = store.installation /\ s.answer.binding = s.row.binding
        BY <2>4, <3>4 DEF Enrolled
      <4>2. rows'[i] = s.row
        BY <2>4, ServingKnown
      <4> QED
        BY <2>4, <4>1, <4>2
    <3> QED
      BY <2>4, <3>1, <3>2, <3>3, <3>4, ServingForms
  <2> QED
    BY <2>2, <2>3, <2>4, ServingTold DEF Missed
  (* Nothing is told of a number that is new.    *)
<1>n. \A j \in Q : ~Tells(j, "resultLoad", ids + 1) /\ ~Tells(j, "bind", ids + 1)
  <2>1. ASSUME NEW x \in Ans(ids, Len(rows))
        PROVE  x.binding # ids + 1
    <3>1. x.binding \in 0 .. ids
      BY DEF Ans
    <3>2. ids \in Nat
      BY <1>s
    <3> QED
      BY <3>1, <3>2
  <2> QED
    BY <1>s, <2>1, OpsHeld DEF Tells
<1>2. MissedWrite'
  <2> SUFFICES ASSUME NEW j \in W', Type(j)' = "STATE", writes'[j].served, writes'[j].answer.outcome = "NOT_FOUND",
                      rows'[writes'[j].message.body].binding # 0
               PROVE  FALSE
    BY DEF MissedWrite
  <2>1. j = 1
    <3>1. j # 1 => j \in W /\ writes'[j] = writes[j]
      BY DEF Serving
    <3> QED
      BY <1>s, <3>1, WritesHeld
  <2>2. m.type = "STATE" /\ a.outcome = "NOT_FOUND" /\ writes'[j].message.body = m.body
    BY <2>1 DEF Serving, Type
  <2>3. Effect(m, s) /\ s.answer.outcome = "NOT_FOUND"
    BY <2>2 DEF Serving, Missed
  <2>4. i = m.body /\ s.row = rows[i] /\ rows[i].binding = 0
    <3>1. i = m.body
      BY <2>2, ServingKnown
    <3>2. s.row = rows[i] /\ rows[i].binding = 0
      BY <2>2, <2>3, ServingForms
    <3> QED
      BY <3>1, <3>2
  <2>5. rows'[i] = s.row
    BY <2>3, ServingKnown
  <2> QED
    BY <2>2, <2>4, <2>5
<1>3. MissedLoad'
  <2> SUFFICES ASSUME NEW j \in Q, Is(j, "stateLoad"), phone.queue[j].answer.outcome = "NOT_FOUND",
                      NEW b, b = rows'[phone.queue[j].context.installation].binding, b # 0
               PROVE  /\ b \notin known
                      /\ \A h \in Q : ~Tells(h, "bind", b) /\ (Tells(h, "resultLoad", b) => h > j)
    BY <1>s DEF MissedLoad, Is, Tells
  <2> PICK k : k = phone.queue[j].context.installation
    OBVIOUS
  <2>1. k \in DOMAIN rows
    BY <1>s, OpsHeld
  <2>2. b = rows[k].binding \/ b = ids + 1
    BY <1>s, <2>1
  <2>3. CASE b = rows[k].binding
    BY <1>0, <2>3 DEF MissedLoad
  <2>4. CASE b = ids + 1
    <3>1. b \notin known
      BY <1>k, <1>s, <2>4
    <3> QED
      BY <1>n, <2>4, <3>1
  <2> QED
    BY <2>2, <2>3, <2>4
<1>4. MissedRotate'
  <2> SUFFICES ASSUME NEW j \in Q, Is(j, "rotate"),
                      NEW b, b = rows'[phone.queue[j].context.installation].binding, b # 0
               PROVE  b \notin known /\ \A h \in Q : Tells(h, "bind", b) => h > j
    BY <1>s DEF MissedRotate, Is, Tells
  <2> PICK k : k = phone.queue[j].context.installation
    OBVIOUS
  <2>1. k \in DOMAIN rows
    BY <1>s, OpsHeld
  <2>2. b = rows[k].binding \/ b = ids + 1
    BY <1>s, <2>1
  <2>3. CASE b = rows[k].binding
    BY <1>0, <2>3 DEF MissedRotate
  <2>4. CASE b = ids + 1
    <3>1. b \notin known
      BY <1>k, <1>s, <2>4
    <3> QED
      BY <1>n, <2>4, <3>1
  <2> QED
    BY <2>2, <2>3, <2>4
<1>5. RequestInv' /\ KnownInv'
  BY <1>0, <1>s DEF RequestInv, KnownInv
<1>6. NoBindingForgotten'
  <2> SUFFICES ASSUME NEW k \in DOMAIN rows', rows'[k].binding \in known
               PROVE  \/ store.binding # None /\ store.binding.id = rows'[k].binding
                      \/ \E r \in store.revokes : r.binding = rows'[k].binding
    BY <1>s DEF NoBindingForgotten
  <2>1. k \in DOMAIN rows /\ rows[k].binding = rows'[k].binding
    BY <1>k, <1>r, <1>s
  <2> QED
    BY <1>0, <2>1 DEF NoBindingForgotten
<1> QED
  BY <1>1, <1>2, <1>3, <1>4, <1>5, <1>6 DEF ForgetInv, MissingInv
---------------------------------------------------------------------------
(* The invariant that is inductive, and what it is for.                    *)
IInv == TypeInv /\ GenuineInv /\ RevokesInv /\ ForgetInv

LEMMA FirstKeeps ==
  ASSUME Init
  PROVE  IInv
<1>0. TypeInv
  BY FirstTyped
<1>a. /\ phone.queue = <<>> /\ phone.timers = {} /\ writes = <<>> /\ log = {} /\ Q = {} /\ W = {}
  BY DEF Init, NewPhone, Q, W
<1>b. store # None => store.pending = None /\ store.revokes = {}
  BY DEF Init, Recorded
<1>1. Registering = {} /\ Told = {} /\ Revocations = {}
  <2>1. \A p : ~Registers(p)
    BY <1>a, <1>b DEF Registers
  <2>2. \A t : ~Tells_(t)
    BY <1>a DEF Tells_
  <2>3. \A r : ~Revokes_(r)
    BY <1>a, <1>b DEF Revokes_
  <2>4. ASSUME NEW p \in Registering
        PROVE  FALSE
    BY <2>1, RegisteringIs
  <2>5. ASSUME NEW t \in Told
        PROVE  FALSE
    BY <2>2, ToldIs
  <2>6. ASSUME NEW r \in Revocations
        PROVE  FALSE
    BY <2>3, RevocationsIs
  <2> QED
    BY <2>4, <2>5, <2>6
<1>2. /\ RegistrationsOne /\ NumbersApart /\ SaveInv /\ BindInv /\ ResultsAreGenuine
      /\ RevocationsOwned /\ RevocationsOne /\ RevokedAreDead /\ ReplaceInv
      /\ ReplacedAreDead /\ MissingInv /\ RequestInv
  BY <1>a, <1>1 DEF RegistrationsOne, NumbersApart, SaveInv, BindInv, ResultsAreGenuine,
     RevocationsOwned, RevocationsOne, RevokedAreDead, ReplaceInv, ReplacedAreDead, MissingInv,
     MissedWrite, MissedLoad, MissedRotate, RequestInv
<1>3. StoredBindingIsGenuine /\ IssuedOnce /\ RowsInv /\ KnownInv /\ NoBindingForgotten
  <2>1. CASE store = None /\ rows = <<>> /\ issued = {} /\ known = {}
    BY <2>1 DEF StoredBindingIsGenuine, IssuedOnce, RowsInv, KnownInv, NoBindingForgotten
  <2>2. CASE ~(store = None /\ rows = <<>> /\ issued = {} /\ known = {})
    <3> PICK e : e = [installation |-> 1, user |-> Earlier, id |-> 1, revision |-> 1, token |-> FirstToken]
      OBVIOUS
    <3> PICK b : b = [id |-> 1, user |-> Earlier, revision |-> 1, token |-> FirstToken]
      OBVIOUS
    <3> PICK r : r = [user |-> Earlier, session |-> 3, binding |-> 1, revision |-> 1, token |-> FirstToken]
      OBVIOUS
    <3> PICK ack : ack = [operation |-> 2, installation |-> 1, user |-> Earlier, epoch |-> 1, binding |-> 1,
                          revision |-> 1]
      OBVIOUS
    <3>0. store = [installation |-> 1, binding |-> b, pending |-> None, revokes |-> {}, ack |-> ack]
      BY <2>2 DEF Init, Recorded
    <3>1. /\ store.installation = 1 /\ store.binding = b /\ rows = <<r>> /\ issued = {e}
      BY <2>2 DEF Init, Recorded
    <3>2. DOMAIN rows = {1} /\ rows[1].binding = 1
      BY <3>1
    <3>3. e.id = 1 /\ e.installation = 1 /\ b.id = 1 /\ b \in Bindings
      BY PhoneAssumption DEF Bindings, FirstToken
    <3>4. b # None
      BY <3>3, RecordAssumption
    <3>5. StoredBindingIsGenuine
      <4>1. [installation |-> store.installation, user |-> store.binding.user, id |-> store.binding.id,
             revision |-> store.binding.revision, token |-> store.binding.token] = e
        BY <3>1
      <4> QED
        BY <3>1, <4>1 DEF StoredBindingIsGenuine
    <3>6. IssuedOnce /\ RowsInv
      BY <3>1, <3>2, <3>3 DEF IssuedOnce, RowsInv, Owned
    <3>7. NoBindingForgotten
      BY <3>1, <3>2, <3>3, <3>4 DEF NoBindingForgotten
    <3>8. store # None
      <4>1. b \in Bindings /\ ack \in Acks
        BY <3>3, PhoneAssumption DEF Acks
      <4>2. store \in Records
        BY <3>0, <4>1 DEF Records
      <4> QED
        BY <4>2, RecordAssumption
    <3> QED
      BY <3>5, <3>6, <3>7, <3>8 DEF KnownInv
  <2> QED
    BY <2>1, <2>2
<1> QED
  BY <1>0, <1>2, <1>3 DEF IInv, GenuineInv, RevokesInv, ForgetInv

LEMMA NextKeeps ==
  ASSUME IInv, [Next]_vars
  PROVE  IInv'
<1>0. TypeInv /\ GenuineInv /\ RevokesInv /\ ForgetInv
  BY DEF IInv
<1>1. TypeInv' /\ (Onward \/ Serve)
  BY <1>0, NextIs
<1>2. CASE Onward
  <2>1. PICK d : Moving(d)
    BY <1>0, <1>1, <1>2, OnwardMoves
  <2> QED
    BY <1>0, <1>1, <2>1, OnwardKeeps DEF IInv
<1>3. CASE Serve
  <2>1. PICK m, s, a : Serving(m, s, a)
    BY <1>0, <1>1, <1>3, ServeMoves
  <2> QED
    BY <1>0, <1>1, <2>1, GenuineServing, RevokesServing, ForgetServing DEF IInv
<1> QED
  BY <1>1, <1>2, <1>3

(* The whole invariant holds throughout: the types, the results and what   *)
(* is bound of them, what is revoked, and that nothing is forgotten.       *)
THEOREM InvarianceWhole == Spec => []IInv
<1>1. Init => IInv
  BY FirstKeeps
<1>2. IInv /\ [Next]_vars => IInv'
  BY NextKeeps
<1> QED
  BY <1>1, <1>2, PTL DEF Spec

(* The binding on record is one that the server issued, to the account and *)
(* with the token and the revision on record: whatever answers were lost,  *)
(* late or of another account, none has been bound in place of another.    *)
THEOREM RecordGenuine == Spec => []RecordIsGenuine
<1>1. IInv => StoredBindingIsGenuine
  BY DEF IInv, GenuineInv
<1>2. TypeOK /\ StoredBindingIsGenuine => RecordIsGenuine
  BY DEF RecordIsGenuine
<1> QED
  BY <1>1, <1>2, InvarianceWhole, TypeCorrect, PTL

(* A binding that the phone has held and that is alive on the server is on *)
(* record, as the active one or as one to be revoked.                      *)
THEOREM NothingForgotten == Spec => []NoBindingForgotten
<1>1. IInv => NoBindingForgotten
  BY DEF IInv, ForgetInv
<1> QED
  BY <1>1, InvarianceWhole, PTL
=============================================================================
