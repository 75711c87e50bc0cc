---------------------------- MODULE PushRegistration ----------------------------
(***************************************************************************)
(* The registration of app installations for push: which account, session  *)
(* and token each installation is bound to. Requests of several sessions   *)
(* change the same rows while sessions end, accounts withdraw, answers are *)
(* lost and requests are sent again.                                       *)
(*                                                                         *)
(* A registration checks its session, runs a transaction and checks the    *)
(* session again. The transaction locks the user's row, reads which rows   *)
(* it needs (View), then locks and changes them and commits: the second    *)
(* half is one action per outcome, since nobody sees inside it.            *)
(* Installation keys are always the right ones; rate limits are left out.  *)
(***************************************************************************)
EXTENDS Integers, FiniteSets

CONSTANTS
  Installations, Users, Tokens, Sessions,
  UserOf,        \* session -> its user
  Operations,    \* operationIds
  Threads,       \* server threads that carry out registrations
  None,          \* no value
  Contents,      \* bound: what clients may want of an installation
  Withdrawing,   \* bound: the accounts that may withdraw
  LoggingOut,    \* bound: the sessions that may log out
  Lapsing,       \* bound: the sessions that may end of themselves
  MaxRotations,  \* bound: rotations of a session's refresh token
  MaxMishaps     \* bound: crashes and failures after a commit

ASSUME UserAssumption == UserOf \in [Sessions -> Users]
ASSUME NothingAssumption ==
  None \notin Installations \cup Users \cup Tokens \cup Sessions \cup Operations
ASSUME ContentAssumption ==
  \A c \in Contents :
    /\ c \in [kind : {"GRANT", "DENY", "REVOKE"}, installation : Installations,
              user : Users, token : Tokens \cup {None}]
    /\ (c.kind = "GRANT") = (c.token # None)
ASSUME BoundAssumption ==
  /\ Withdrawing \subseteq Users /\ LoggingOut \subseteq Sessions /\ Lapsing \subseteq Sessions
  /\ MaxRotations \in Nat /\ MaxMishaps \in Nat

VARIABLES
  (* MySQL *)
  device,      \* installation -> row of push_devices
  bindings,    \* binding ids given out
  log,         \* operation -> row of push_device_operations
  withdrawn,   \* users who are WITHDRAWN
  (* Redis *)
  live,        \* sessions whose key exists
  generation,  \* session -> rotations of its refresh token
  (* clients and time *)
  intent,      \* operation -> what the client wants, fixed when first sent
  expired,     \* operations issued 24 hours ago
  purged,      \* operations whose log row has outlived its 7 days
  (* registrations *)
  stage,       \* thread -> what it does next
  task,        \* thread -> operation
  session,     \* thread -> session of the request
  again,       \* threads that repeat a failed transaction
  seen,        \* thread -> installations its transaction will lock
  (* logouts *)
  logout,      \* session -> what its logout does next
  carried,     \* session -> rotations behind the token the logout carries
  mishaps,
  (* history *)
  issued,      \* addresses given out, with the user and token they stand for
  changes,     \* operation -> how often it changed its installation
  answers,     \* operation -> results given for it once it is in the log
  orphaned,    \* logged operations whose installation's row or whose account has gone
  silenced,    \* sessions whose logout has cleaned up
  missed       \* sessions whose compensation a mishap cut short afterwards

database == <<device, bindings, log, withdrawn>>
redis == <<live, generation>>
client == <<intent, expired, purged>>
thread == <<stage, task, session, again, seen>>
logouts == <<logout, carried>>
history == <<issued, changes, answers, orphaned, silenced, missed>>
vars == <<device, bindings, log, withdrawn, live, generation, intent, expired, purged,
          stage, task, session, again, seen, logout, carried, mishaps, issued, changes,
          answers, orphaned, silenced, missed>>

NoDevice ==
  [status |-> "ABSENT", user |-> None, session |-> None, binding |-> 0,
   revision |-> 0, version |-> 0, token |-> None]
NoIntent ==
  [kind |-> "NONE", installation |-> None, user |-> None, token |-> None,
   expected |-> 0, binding |-> 0]
Result(outcome, revision, binding) ==
  [outcome |-> outcome, revision |-> revision, binding |-> binding]
Refusal == Result("REVISION_CONFLICT", 0, 0)
Unlogged == [subject |-> None, result |-> Refusal]

Init ==
  /\ device = [i \in Installations |-> NoDevice]
  /\ bindings = 0
  /\ log = [o \in Operations |-> Unlogged]
  /\ withdrawn = {}
  /\ live = Sessions
  /\ generation = [s \in Sessions |-> 0]
  /\ intent = [o \in Operations |-> NoIntent]
  /\ expired = {} /\ purged = {}
  /\ stage = [t \in Threads |-> "idle"]
  /\ task = [t \in Threads |-> None]
  /\ session = [t \in Threads |-> None]
  /\ again = {}
  /\ seen = [t \in Threads |-> {}]
  /\ logout = [s \in Sessions |-> "none"]
  /\ carried = [s \in Sessions |-> 0]
  /\ mishaps = 0
  /\ issued = {}
  /\ changes = [o \in Operations |-> 0]
  /\ answers = [o \in Operations |-> {}]
  /\ orphaned = {}
  /\ silenced = {} /\ missed = {}

Stands(i) == device[i].status # "ABSENT"
Active(i) == device[i].status = "ACTIVE"
Holds(i, tok) == tok # None /\ device[i].token = tok
Logged(o) == log[o].subject # None
LoggedAt(rows) == {o \in Operations : answers[o] # {} /\ intent[o].installation \in rows}
Wants(t) == intent[task[t]]
Target(t) == Wants(t).installation

(* Every result of a transaction for an operation that is or was in the log. *)
Answer(o, result) == answers' = [answers EXCEPT ![o] = @ \cup {result}]
AnswerAgain(o, result) == IF answers[o] = {} THEN UNCHANGED answers ELSE Answer(o, result)

-------------------------------------------------------------------------------
(* The rows                                                                  *)

(* An account keeps its binding while it stays bound; else it gets a new one. *)
Binding(i, u) ==
  IF Active(i) /\ device[i].user = u THEN device[i].binding ELSE bindings + 1

(* Slip: a new token does not count. *)
Version_Unchanged(i, tok) == IF Stands(i) THEN device[i].version ELSE 1

Version(i, tok) ==
  IF ~Stands(i) THEN 1
  ELSE IF device[i].token # tok THEN device[i].version + 1 ELSE device[i].version

Registered(i, u, s, tok) ==
  [status |-> "ACTIVE", user |-> u, session |-> s, binding |-> Binding(i, u),
   revision |-> device[i].revision + 1, version |-> Version(i, tok), token |-> tok]

(* Deactivation leaves the owner and the counters, nothing else. *)
Deactivated(i, status) ==
  IF Active(i)
  THEN [status |-> status, user |-> device[i].user, session |-> None, binding |-> 0,
        revision |-> device[i].revision + 1, version |-> device[i].version, token |-> None]
  ELSE device[i]

(* revokeSession *)
RevokedFor(s) ==
  [i \in Installations |->
     IF device[i].session = s THEN Deactivated(i, "REVOKED") ELSE device[i]]

-------------------------------------------------------------------------------
(* Clients and time                                                          *)

(* The client reads the installation's status and fixes what it wants. *)
Intend(o, c) ==
  /\ intent[o].kind = "NONE"
  /\ c.user \notin withdrawn
  /\ c.kind = "REVOKE" => Active(c.installation) /\ device[c.installation].user = c.user
  /\ intent' = [intent EXCEPT ![o] =
       [kind |-> c.kind, installation |-> c.installation, user |-> c.user,
        token |-> c.token, expected |-> device[c.installation].revision,
        binding |-> IF c.kind = "REVOKE" THEN device[c.installation].binding ELSE 0]]
  /\ UNCHANGED <<database, redis, expired, purged, thread, logouts, mishaps, history>>

(* validateOperationTime *)
Fresh(o) == o \notin expired

Expire(o) ==
  /\ intent[o].kind # "NONE"
  /\ o \notin expired
  /\ expired' = expired \cup {o}
  /\ UNCHANGED <<database, redis, intent, purged, thread, logouts, mishaps, history>>

(* Retention, 7 days after the operation: no transaction lasts that long. *)
Purge(o) ==
  /\ o \in expired \ purged
  /\ \A t \in Threads : stage[t] = "viewed" => task[t] # o
  /\ purged' = purged \cup {o}
  /\ log' = [log EXCEPT ![o] = Unlogged]
  /\ UNCHANGED <<device, bindings, withdrawn, redis, intent, expired, thread, logouts,
                 mishaps, history>>

(* Retention, 30 days after the installation fell silent: what was wanted of it
   before is purged by then. *)
PurgeDevice(i) ==
  /\ device[i].status \in {"DISABLED", "REVOKED"}
  /\ \A o \in Operations :
       intent[o].kind # "NONE" /\ intent[o].installation = i
         /\ intent[o].expected < device[i].revision => o \in purged
  /\ device' = [device EXCEPT ![i] = NoDevice]
  /\ orphaned' = orphaned \cup LoggedAt({i})
  /\ UNCHANGED <<bindings, log, withdrawn, redis, client, thread, logouts, mishaps,
                 issued, changes, answers, silenced, missed>>

(* The provider calls the token not registered. *)
Refuse(i) ==
  /\ Active(i)
  /\ device' = [device EXCEPT ![i] = Deactivated(i, "REVOKED")]
  /\ UNCHANGED <<bindings, log, withdrawn, redis, client, thread, logouts, mishaps,
                 history>>

(* No registration holds the lock on the user's row. *)
Unlocked(u) == \A t \in Threads : stage[t] = "viewed" => Wants(t).user # u

(* The account withdraws. Its row is locked like a registration's, and its push
   rows go in the same transaction. *)
Withdraw(u) ==
  LET rows == {i \in Installations : device[i].user = u} IN
  /\ u \in Withdrawing \ withdrawn
  /\ Unlocked(u)
  /\ withdrawn' = withdrawn \cup {u}
  /\ device' = [i \in Installations |-> IF i \in rows THEN NoDevice ELSE device[i]]
  /\ log' = [o \in Operations |-> IF log[o].subject = u THEN Unlogged ELSE log[o]]
  /\ orphaned' = orphaned \cup LoggedAt(rows) \cup {o \in Operations : log[o].subject = u}
  /\ UNCHANGED <<bindings, redis, client, thread, logouts, mishaps, issued, changes,
                 answers, silenced, missed>>

-------------------------------------------------------------------------------
(* Registration                                                              *)

At(t, s) == stage[t] = s

Leave(t) ==
  /\ stage' = [stage EXCEPT ![t] = "idle"]
  /\ task' = [task EXCEPT ![t] = None]
  /\ session' = [session EXCEPT ![t] = None]
  /\ again' = again \ {t}
  /\ seen' = [seen EXCEPT ![t] = {}]

(* A request arrives, perhaps one that was sent before; its session is active. *)
Open(t, o, s) ==
  /\ At(t, "idle")
  /\ intent[o].kind \in {"GRANT", "DENY"}
  /\ intent[o].user = UserOf[s]
  /\ s \in live
  /\ stage' = [stage EXCEPT ![t] = "opened"]
  /\ task' = [task EXCEPT ![t] = o]
  /\ session' = [session EXCEPT ![t] = s]
  /\ UNCHANGED <<again, seen, database, redis, client, logouts, mishaps, history>>

(* The transaction locks the ACTIVE user, checks the operation's age and reads which
   rows it needs: the installation's and the one that holds the token. *)
View(t) ==
  /\ At(t, "opened")
  /\ Unlocked(Wants(t).user)
  /\ Wants(t).user \notin withdrawn
  /\ Fresh(task[t])
  /\ stage' = [stage EXCEPT ![t] = "viewed"]
  /\ seen' = [seen EXCEPT ![t] =
       {i \in Installations :
          Stands(i) /\ (i = Target(t) \/ Holds(i, Wants(t).token))}]
  /\ UNCHANGED <<task, session, again, database, redis, client, logouts, mishaps, history>>

(* The transaction fails, or would break a unique key, and is run once more. *)
Retry(t) ==
  /\ At(t, "viewed")
  /\ t \notin again
  /\ stage' = [stage EXCEPT ![t] = "opened"]
  /\ seen' = [seen EXCEPT ![t] = {}]
  /\ again' = again \cup {t}
  /\ UNCHANGED <<task, session, database, redis, client, logouts, mishaps, history>>

(* The request is refused or fails without a commit. *)
Reject(t) ==
  /\ At(t, "opened") \/ At(t, "viewed")
  /\ Leave(t)
  /\ UNCHANGED <<database, redis, client, logouts, mishaps, history>>

(* The rows the transaction has locked: a row that was not there to be read is not. *)
Present(t) == Target(t) \in seen[t] /\ Stands(Target(t))
Holders(t) ==
  {i \in seen[t] \ {Target(t)} : Holds(i, Wants(t).token)}

Replayed(t) == Present(t) /\ Logged(task[t])

Stale(t) ==
  IF Present(t) THEN Wants(t).expected # device[Target(t)].revision
  ELSE Wants(t).kind = "GRANT" /\ Wants(t).expected # 0

(* Another account holds the token. *)
Taken(t) == \E i \in Holders(t) : device[i].user # Wants(t).user

(* Slip: the log has no unique key. *)
Collides_LoggedTwice(t) ==
  \/ ~Present(t) /\ Stands(Target(t))
  \/ \E i \in Installations \ (Holders(t) \cup {Target(t)}) :
       device[i].token = Wants(t).token

(* A unique key would be broken: the installation's, the token's or the log's. *)
Collides(t) ==
  \/ ~Present(t) /\ Stands(Target(t))
  \/ \E i \in Installations \ (Holders(t) \cup {Target(t)}) :
       device[i].token = Wants(t).token
  \/ Logged(task[t])

Commit(t) ==
  /\ stage' = [stage EXCEPT ![t] = "committed"]
  /\ seen' = [seen EXCEPT ![t] = {}]
  /\ UNCHANGED <<task, session, again>>

Replay(t) ==
  /\ At(t, "viewed")
  /\ Replayed(t)
  /\ Commit(t)
  /\ Answer(task[t], log[task[t]].result)
  /\ UNCHANGED <<database, redis, client, logouts, mishaps, issued, changes, orphaned,
                 silenced, missed>>

Conflict(t) ==
  /\ At(t, "viewed")
  /\ ~Replayed(t)
  /\ Stale(t) \/ Taken(t)
  /\ Leave(t)
  /\ AnswerAgain(task[t], Refusal)
  /\ UNCHANGED <<database, redis, client, logouts, mishaps, issued, changes, orphaned,
                 silenced, missed>>

(* What the transaction writes to the log for operation o of user u. *)
Log(o, u, result) ==
  /\ log' = [log EXCEPT ![o] = [subject |-> u, result |-> result]]
  /\ Answer(o, result)

(* GRANTED: the installation is bound to the session's account, and a row of the same
   account that holds the token gives it up. *)
Register(t) ==
  LET i == Target(t)
      o == task[t]
      row == Registered(i, Wants(t).user, session[t], Wants(t).token)
  IN
  /\ At(t, "viewed")
  /\ Wants(t).kind = "GRANT"
  /\ ~Replayed(t) /\ ~Stale(t) /\ ~Taken(t) /\ ~Collides(t)
  /\ Commit(t)
  /\ device' = [j \in Installations |->
       IF j = i THEN row
       ELSE IF j \in Holders(t) THEN Deactivated(j, "REVOKED") ELSE device[j]]
  /\ bindings' = IF row.binding > bindings THEN row.binding ELSE bindings
  /\ issued' = issued \cup {[binding |-> row.binding, version |-> row.version,
                              user |-> row.user, token |-> row.token]}
  /\ changes' = [changes EXCEPT ![o] = @ + 1]
  /\ Log(o, row.user, Result("ACTIVE", row.revision, row.binding))
  /\ UNCHANGED <<withdrawn, redis, client, logouts, mishaps, orphaned, silenced, missed>>

(* DENIED, for an installation that is registered. *)
Disable(t) ==
  LET i == Target(t)
      o == task[t]
      row == Deactivated(i, "DISABLED")
  IN
  /\ At(t, "viewed")
  /\ Wants(t).kind = "DENY"
  /\ Present(t) /\ ~Replayed(t) /\ ~Stale(t) /\ ~Logged(o)
  /\ Commit(t)
  /\ device' = [device EXCEPT ![i] = row]
  /\ changes' = IF Active(i) THEN [changes EXCEPT ![o] = @ + 1] ELSE changes
  /\ Log(o, Wants(t).user, Result(row.status, row.revision, 0))
  /\ UNCHANGED <<bindings, withdrawn, redis, client, logouts, mishaps, issued, orphaned,
                 silenced, missed>>

(* DENIED, for an installation that is not: the answer is not kept. *)
DenyUnknown(t) ==
  /\ At(t, "viewed")
  /\ Wants(t).kind = "DENY"
  /\ ~Present(t)
  /\ Commit(t)
  /\ AnswerAgain(task[t], Result("DISABLED", 0, 0))
  /\ UNCHANGED <<database, redis, client, logouts, mishaps, issued, changes, orphaned,
                 silenced, missed>>

(* Slip: the session is checked once, before the transaction. *)
Check_Once(t) ==
  /\ At(t, "committed")
  /\ Leave(t)
  /\ UNCHANGED <<database, redis, client, logouts, mishaps, history>>

(* After the commit the session is checked again. *)
Check(t) ==
  /\ At(t, "committed")
  /\ \/ session[t] \in live /\ Leave(t)
     \/ /\ session[t] \notin live
        /\ stage' = [stage EXCEPT ![t] = "lapsed"]
        /\ UNCHANGED <<task, session, again, seen>>
  /\ UNCHANGED <<database, redis, client, logouts, mishaps, history>>

Compensate(t) ==
  /\ At(t, "lapsed")
  /\ device' = RevokedFor(session[t])
  /\ Leave(t)
  /\ UNCHANGED <<bindings, log, withdrawn, redis, client, logouts, mishaps, history>>

(* The process dies, or Redis or MySQL fails, after the commit. *)
Fail(t) ==
  /\ At(t, "committed") \/ At(t, "lapsed")
  /\ mishaps < MaxMishaps
  /\ mishaps' = mishaps + 1
  /\ missed' = IF session[t] \in silenced THEN missed \cup {session[t]} ELSE missed
  /\ Leave(t)
  /\ UNCHANGED <<database, redis, client, logouts, issued, changes, answers, orphaned,
                 silenced>>

-------------------------------------------------------------------------------
(* Revocation by the installation itself, in one transaction under its row's lock. *)

(* Slip: the binding the client means is not compared. *)
Bound_Any(o) == TRUE

Bound(o) == intent[o].binding = device[intent[o].installation].binding

Revoke(o) ==
  LET i == intent[o].installation
      result == Result(IF Bound(o) THEN "REVOKED" ELSE "NOT_BOUND", 0, 0)
  IN
  /\ intent[o].kind = "REVOKE"
  /\ Stands(i)
  /\ Fresh(o)
  /\ \/ /\ Logged(o)
        /\ Answer(o, log[o].result)
        /\ UNCHANGED <<device, log, changes>>
     \/ /\ ~Logged(o)
        /\ Bound(o) => intent[o].expected = device[i].revision
        /\ device' = IF Bound(o)
                     THEN [device EXCEPT ![i] = Deactivated(i, "REVOKED")] ELSE device
        /\ changes' = IF Bound(o) /\ Active(i) THEN [changes EXCEPT ![o] = @ + 1] ELSE changes
        /\ Log(o, device[i].user, result)
     \/ /\ ~Logged(o)
        /\ Bound(o) /\ intent[o].expected # device[i].revision
        /\ AnswerAgain(o, Refusal)
        /\ UNCHANGED <<device, log, changes>>
  /\ UNCHANGED <<bindings, withdrawn, redis, client, thread, logouts, mishaps, issued,
                 orphaned, silenced, missed>>

-------------------------------------------------------------------------------
(* Sessions                                                                  *)

Rotate(s) ==
  /\ s \in live
  /\ UserOf[s] \notin withdrawn
  /\ generation[s] < MaxRotations
  /\ generation' = [generation EXCEPT ![s] = @ + 1]
  /\ UNCHANGED <<live, database, client, thread, logouts, mishaps, history>>

(* A session's lifetime ends; its installations stay registered. *)
Lapse(s) ==
  /\ s \in live \cap Lapsing
  /\ live' = live \ {s}
  /\ UNCHANGED <<generation, database, client, thread, logouts, mishaps, history>>

(* After a withdrawal has committed its sessions are ended. *)
RevokeAll(u) ==
  /\ u \in withdrawn
  /\ \E s \in live : UserOf[s] = u
  /\ live' = {s \in live : UserOf[s] # u}
  /\ UNCHANGED <<generation, database, client, thread, logouts, mishaps, history>>

LogoutAt(s, from, to) ==
  /\ logout[s] = from
  /\ logout' = [logout EXCEPT ![s] = to]

(* The client sends the refresh token it holds. *)
LogOut(s) ==
  /\ s \in LoggingOut
  /\ LogoutAt(s, "none", "sent")
  /\ carried' = [carried EXCEPT ![s] = generation[s]]
  /\ UNCHANGED <<database, redis, client, thread, mishaps, history>>

(* inspect: a token that was rotated away ends the session. *)
Inspect(s) ==
  /\ LogoutAt(s, "sent",
       IF s \in live /\ carried[s] = generation[s] THEN "verified" ELSE "unverified")
  /\ live' = IF carried[s] = generation[s] THEN live ELSE live \ {s}
  /\ UNCHANGED <<generation, carried, database, client, thread, mishaps, history>>

(* revoke: the token is the current one or a used one, and ends the session. *)
End(s) ==
  /\ \/ LogoutAt(s, "verified", "ended")
     \/ LogoutAt(s, "unverified", "answered")
  /\ live' = live \ {s}
  /\ UNCHANGED <<generation, carried, database, client, thread, mishaps, history>>

CleanUp(s) ==
  /\ LogoutAt(s, "ended", "answered")
  /\ device' = RevokedFor(s)
  /\ silenced' = silenced \cup {s}
  /\ UNCHANGED <<carried, bindings, log, withdrawn, redis, client, thread, mishaps, issued,
                 changes, answers, orphaned, missed>>

(* Both tries of the cleanup fail, which is logged, or the process dies. *)
GiveUp(s) ==
  /\ mishaps < MaxMishaps
  /\ mishaps' = mishaps + 1
  /\ \/ LogoutAt(s, "ended", "answered")
     \/ \E stop \in {"sent", "verified", "unverified", "ended"} : LogoutAt(s, stop, "lost")
  /\ UNCHANGED <<carried, database, redis, client, thread, history>>

-------------------------------------------------------------------------------
Request(t) ==
  \/ \E o \in Operations, s \in Sessions : Open(t, o, s)
  \/ View(t) \/ Retry(t) \/ Reject(t)
  \/ Replay(t) \/ Conflict(t) \/ Register(t) \/ Disable(t) \/ DenyUnknown(t)
  \/ Check(t) \/ Compensate(t) \/ Fail(t)

Next ==
  \/ \E t \in Threads : Request(t)
  \/ \E o \in Operations :
       (\E c \in Contents : Intend(o, c)) \/ Expire(o) \/ Purge(o) \/ Revoke(o)
  \/ \E i \in Installations : PurgeDevice(i) \/ Refuse(i)
  \/ \E u \in Users : Withdraw(u) \/ RevokeAll(u)
  \/ \E s \in Sessions :
       Rotate(s) \/ Lapse(s) \/ LogOut(s) \/ Inspect(s) \/ End(s) \/ CleanUp(s) \/ GiveUp(s)

Spec == Init /\ [][Next]_vars

-------------------------------------------------------------------------------
(* Properties                                                                *)

Results ==
  [outcome : {"ACTIVE", "DISABLED", "REVOKED", "NOT_BOUND", "REVISION_CONFLICT"},
   revision : Nat, binding : Nat]
Rows ==
  [status : {"ABSENT", "ACTIVE", "DISABLED", "REVOKED"}, user : Users \cup {None},
   session : Sessions \cup {None}, binding : Nat, revision : Nat, version : Nat,
   token : Tokens \cup {None}]
Intents ==
  [kind : {"NONE", "GRANT", "DENY", "REVOKE"}, installation : Installations \cup {None},
   user : Users \cup {None}, token : Tokens \cup {None}, expected : Nat, binding : Nat]

(* The check V12 puts on the rows (chk_push_devices_shape): an ACTIVE row is complete,
   another has neither session nor binding nor token. *)
WellShaped(r) ==
  /\ r.status # "ABSENT" => r.user # None /\ r.revision > 0
  /\ IF r.status = "ACTIVE" THEN r.session # None /\ r.binding > 0 /\ r.token # None
     ELSE r.session = None /\ r.binding = 0 /\ r.token = None

(* The types, with the rows' shape. *)
TypeOK ==
  /\ device \in [Installations -> Rows]
  /\ \A i \in Installations : WellShaped(device[i])
  /\ bindings \in Nat
  /\ log \in [Operations -> [subject : Users \cup {None}, result : Results]]
  /\ withdrawn \subseteq Users
  /\ live \subseteq Sessions /\ generation \in [Sessions -> Nat]
  /\ intent \in [Operations -> Intents]
  /\ purged \subseteq expired /\ expired \subseteq Operations
  /\ stage \in [Threads -> {"idle", "opened", "viewed", "committed", "lapsed"}]
  /\ task \in [Threads -> Operations \cup {None}]
  /\ session \in [Threads -> Sessions \cup {None}]
  /\ again \subseteq Threads
  /\ seen \in [Threads -> SUBSET Installations]
  /\ logout \in [Sessions -> {"none", "sent", "verified", "unverified", "ended",
                              "answered", "lost"}]
  /\ carried \in [Sessions -> Nat]
  /\ mishaps \in Nat
  /\ issued \subseteq [binding : Nat, version : Nat, user : Users, token : Tokens]
  /\ changes \in [Operations -> Nat]
  /\ answers \in [Operations -> SUBSET Results]
  /\ orphaned \subseteq Operations
  /\ silenced \subseteq Sessions /\ missed \subseteq Sessions

(* Once a logout has cleaned up, no installation stays bound to its session, short of one
   a registration is about to take back. The registration may have begun before the
   logout and commit after its cleanup (PushDeviceService.java:62). *)
Rescued(s) == \E t \in Threads : stage[t] \in {"committed", "lapsed"} /\ session[t] = s

LoggedOutIsSilent ==
  \A i \in Installations :
    Active(i) /\ device[i].session \in silenced \ missed => Rescued(device[i].session)

(* A withdrawn account leaves no push row behind, whatever registrations were on their
   way when it withdrew (PushDeviceLifecycleService.deleteForUser). *)
WithdrawnHasNothing ==
  /\ \A i \in Installations : device[i].user \notin withdrawn
  /\ \A o \in Operations : log[o].subject \notin withdrawn

(* A delivery knows its device by binding and token version. That pair stands for one
   account and one token for ever, across accounts, tokens and installations that come
   and go. *)
AddressIsUnique ==
  \A a, b \in issued :
    a.binding = b.binding /\ a.version = b.version => a.user = b.user /\ a.token = b.token

(* No two installations hold a token. *)
TokenIsUnique ==
  \A i, j \in Installations :
    Active(i) /\ Active(j) /\ device[i].token = device[j].token => i = j

(* However often an operation is sent, it changes its installation once: the log, the
   revision and the operation's age have to cover for each other's gaps. *)
OnceOnly == \A o \in Operations : changes[o] <= 1

(* Sent again, an operation gets the answer it got, as long as its installation's row and
   the account it was logged for stand. *)
SameAnswer == \A o \in Operations \ orphaned : Cardinality(answers[o]) <= 1

(* The contract's words: a logout that succeeded has released the session's
   installations. *)
EveryLogoutSilences ==
  \A i \in Installations :
    Active(i) /\ logout[device[i].session] = "answered" => Rescued(device[i].session)

(* A registration touches its own installation, and others only of the same account. *)
KeepsToItsUser ==
  [][\A t \in Threads : Register(t) =>
       \A j \in Installations \ {Target(t)} :
         device'[j] # device[j] => device[j].user = Wants(t).user]_vars

(* A late revocation takes down only what its account registered: in between the
   installation may have gone and come back, at the same revision, for another account
   (PushDeviceTransaction.java:299). *)
LateRevokeIsIdle ==
  [][\A o \in Operations : Revoke(o) =>
       \A i \in Installations :
         device'[i] # device[i] => device[i].user = intent[o].user]_vars

(* What the runs check, a name for each question.                            *)

(* At no time do two installations share a token, and no two registrations ever get the
   same address; the rows keep the shape the schema checks. *)
RowsAreSound == TypeOK /\ TokenIsUnique /\ AddressIsUnique

(* What has ended receives nothing: no installation is left to a session that logged out
   or to an account that withdrew. *)
EndedIsSilent == LoggedOutIsSilent /\ WithdrawnHasNothing

(* An operation is done once and answered alike however often it is sent. *)
DoneOnce == OnceOnly /\ SameAnswer

(* No request, however late, changes what belongs to another account. *)
ChangesOnlyItsOwn == KeepsToItsUser /\ LateRevokeIsIdle
=============================================================================
