------------------------ MODULE PushRegistration_proofs ------------------------
(***************************************************************************)
(* Proofs that every behaviour of PushRegistration keeps its invariants,   *)
(* for any number of installations, accounts, sessions, tokens, operations *)
(* and concurrent requests.                                                *)
(***************************************************************************)
EXTENDS PushRegistration, FiniteSetTheorems, TLAPS

USE UserAssumption, NothingAssumption, ContentAssumption, BoundAssumption

Busy(t) == stage[t] # "idle"

(* What a client wants of an installation is well-formed, and names a binding that was
   given out. *)
Intended ==
  \A o \in Operations : intent[o].kind # "NONE" =>
    /\ intent[o].installation \in Installations
    /\ intent[o].user \in Users
    /\ (intent[o].kind = "GRANT") = (intent[o].token # None)
    /\ intent[o].kind = "REVOKE" => intent[o].binding \in 1 .. bindings

(* A request under way carries a registration. *)
Requested ==
  \A t \in Threads : Busy(t) =>
    /\ task[t] \in Operations
    /\ session[t] \in Sessions
    /\ Wants(t).kind \in {"GRANT", "DENY"}

(* The binding a revocation names was given out to its account alone. *)
Named ==
  \A o \in Operations : intent[o].kind = "REVOKE" =>
    \A a \in issued : a.binding = intent[o].binding => a.user = intent[o].user

(* Bindings in use were given out, to one installation each; what was given out under a
   binding in use belongs to its user and is no newer than its row. *)
Addressed ==
  /\ \A i \in Installations : Active(i) =>
       /\ device[i].binding \in 1 .. bindings
       /\ [binding |-> device[i].binding, version |-> device[i].version,
           user |-> device[i].user, token |-> device[i].token] \in issued
  /\ \A i, j \in Installations :
       Active(i) /\ Active(j) /\ device[i].binding = device[j].binding => i = j
  /\ \A a \in issued : a.binding <= bindings
  /\ \A a \in issued, i \in Installations :
       Active(i) /\ a.binding = device[i].binding =>
         a.version <= device[i].version /\ a.user = device[i].user

-------------------------------------------------------------------------------
(* Types                                                                     *)

RowOK(r) == r \in Rows /\ WellShaped(r)

LEMMA NoDeviceOK == RowOK(NoDevice)
BY DEF RowOK, Rows, WellShaped, NoDevice

(* A deactivated row is well-formed and holds nothing. *)
LEMMA DeactivatedOK ==
  ASSUME TypeOK, NEW i \in Installations, NEW st \in {"DISABLED", "REVOKED"}
  PROVE  /\ RowOK(Deactivated(i, st))
         /\ Deactivated(i, st).status # "ACTIVE"
         /\ Deactivated(i, st).status = "ABSENT" => ~Stands(i)
         /\ Deactivated(i, st).user = device[i].user
<1>1. RowOK(device[i])
  BY DEF TypeOK, RowOK
<1>2. CASE ~Active(i)
  <2>1. Deactivated(i, st) = device[i]
    BY <1>2 DEF Deactivated
  <2> QED BY <1>1, <1>2, <2>1 DEF Active, Stands
<1>3. CASE Active(i)
  BY <1>1, <1>3 DEF Deactivated, Active, RowOK, Rows, WellShaped
<1> QED BY <1>2, <1>3

(* One well-formed row takes the place of another. *)
LEMMA RowReplaced ==
  ASSUME device \in [Installations -> Rows], \A j \in Installations : WellShaped(device[j]),
         NEW i \in Installations, NEW r, RowOK(r), device' = [device EXCEPT ![i] = r]
  PROVE  /\ device' \in [Installations -> Rows]
         /\ \A j \in Installations : WellShaped(device'[j])
<1>1. r \in Rows /\ WellShaped(r)
  BY DEF RowOK
<1>2. \A j \in Installations : device'[j] = IF j = i THEN r ELSE device[j]
  OBVIOUS
<1> QED BY <1>1, <1>2

(* A registered row is well-formed and ACTIVE. *)
LEMMA RegisteredOK ==
  ASSUME TypeOK, NEW i \in Installations, NEW u \in Users, NEW s \in Sessions,
         NEW tok \in Tokens
  PROVE  /\ RowOK(Registered(i, u, s, tok))
         /\ Registered(i, u, s, tok).status = "ACTIVE"
         /\ Registered(i, u, s, tok).user = u
         /\ Registered(i, u, s, tok).session = s
         /\ Registered(i, u, s, tok).token = tok
         /\ Registered(i, u, s, tok).binding = Binding(i, u)
         /\ Registered(i, u, s, tok).version = Version(i, tok)
         /\ Binding(i, u) \in Nat \ {0} /\ Version(i, tok) \in Nat
<1>1. RowOK(device[i]) /\ bindings \in Nat
  BY DEF TypeOK, RowOK
<1>2. Binding(i, u) \in Nat \ {0}
  BY <1>1 DEF Binding, Active, RowOK, Rows, WellShaped
<1>3. Version(i, tok) \in Nat
  BY <1>1 DEF Version, Stands, RowOK, Rows
<1>4. device[i].revision \in Nat
  BY <1>1 DEF RowOK, Rows
<1> QED BY <1>2, <1>3, <1>4 DEF Registered, RowOK, Rows, WellShaped

LEMMA RevokedForOK ==
  ASSUME TypeOK, NEW s \in Sessions
  PROVE  RevokedFor(s) \in [Installations -> Rows]
         /\ \A i \in Installations : WellShaped(RevokedFor(s)[i])
<1>1. \A i \in Installations : RowOK(RevokedFor(s)[i])
  <2> TAKE i \in Installations
  <2>1. RowOK(device[i])
    BY DEF TypeOK, RowOK
  <2>2. RowOK(Deactivated(i, "REVOKED"))
    BY DeactivatedOK
  <2> QED BY <2>1, <2>2 DEF RevokedFor
<1> QED BY <1>1 DEF RevokedFor, RowOK

LEMMA ResultOK ==
  ASSUME NEW x \in {"ACTIVE", "DISABLED", "REVOKED", "NOT_BOUND", "REVISION_CONFLICT"},
         NEW r \in Nat, NEW bd \in Nat
  PROVE  Result(x, r, bd) \in Results
BY DEF Result, Results

Logs == [subject : Users \cup {None}, result : Results]

LEMMA UnloggedOK == Unlogged \in Logs /\ Refusal \in Results
BY DEF Unlogged, Refusal, Result, Results, Logs

LEMMA AnswerOK ==
  ASSUME TypeOK, NEW o \in Operations, NEW r \in Results,
         Answer(o, r) \/ AnswerAgain(o, r)
  PROVE  answers' \in [Operations -> SUBSET Results]
BY DEF TypeOK, Answer, AnswerAgain

LEMMA LogOK ==
  ASSUME TypeOK, NEW o \in Operations, NEW u \in Users, NEW r \in Results, Log(o, u, r)
  PROVE  /\ answers' \in [Operations -> SUBSET Results]
         /\ log' \in [Operations -> Logs]
BY DEF TypeOK, Answer, Log, Logs

(* The parts of the state the actions that are alike leave alone. *)
LEMMA TypeStep ==
  ASSUME TypeOK, Intended, Requested, [Next]_vars
  PROVE  TypeOK'
<1> USE DEF TypeOK, WellShaped
<1>1. ASSUME NEW t \in Threads, NEW o \in Operations, NEW s \in Sessions, Open(t, o, s)
      PROVE TypeOK'
  BY <1>1 DEF Open, At, database, redis, client, logouts, history
<1>2. ASSUME NEW t \in Threads, View(t) PROVE TypeOK'
  BY <1>2 DEF View, At, database, redis, client, logouts, history
<1>3. ASSUME NEW t \in Threads, Retry(t) PROVE TypeOK'
  BY <1>3 DEF Retry, At, database, redis, client, logouts, history
<1>4. ASSUME NEW t \in Threads, Reject(t) PROVE TypeOK'
  BY <1>4 DEF Reject, Leave, At, database, redis, client, logouts, history
<1>5. ASSUME NEW t \in Threads, Replay(t) PROVE TypeOK'
  <2>1. task[t] \in Operations
    BY <1>5 DEF Replay, At, Busy, Requested
  <2>2. log[task[t]].result \in Results
    BY <2>1
  <2>3. answers' \in [Operations -> SUBSET Results]
    BY <1>5, <2>1, <2>2, AnswerOK DEF Replay
  <2> QED BY <1>5, <2>3 DEF Replay, Commit, At, database, redis, client, logouts
<1>6. ASSUME NEW t \in Threads, Conflict(t) PROVE TypeOK'
  <2>1. task[t] \in Operations
    BY <1>6 DEF Conflict, At, Busy, Requested
  <2>2. answers' \in [Operations -> SUBSET Results]
    BY <1>6, <2>1, UnloggedOK, AnswerOK DEF Conflict
  <2> QED BY <1>6, <2>2 DEF Conflict, Leave, At, database, redis, client, logouts
<1>7. ASSUME NEW t \in Threads, Register(t) PROVE TypeOK'
  <2> DEFINE i == Target(t)
             o == task[t]
             u == Wants(t).user
             tok == Wants(t).token
             r == Registered(i, u, session[t], tok)
  <2>1. /\ o \in Operations /\ i \in Installations /\ u \in Users /\ tok \in Tokens
        /\ session[t] \in Sessions
    BY <1>7 DEF Register, At, Busy, Requested, Intended, Wants, Target, Intents
  <2> HIDE DEF i, o, u, tok
  <2>2. /\ RowOK(r) /\ r.binding \in Nat /\ r.version \in Nat /\ r.revision \in Nat
        /\ r.user = u /\ r.token = tok
    BY <2>1, RegisteredOK DEF RowOK, Rows
  <2> HIDE DEF r
  <2>3. /\ device' = [j \in Installations |->
             IF j = i THEN r
             ELSE IF j \in Holders(t) THEN Deactivated(j, "REVOKED") ELSE device[j]]
        /\ bindings' = IF r.binding > bindings THEN r.binding ELSE bindings
        /\ issued' = issued \cup {[binding |-> r.binding, version |-> r.version,
                                   user |-> r.user, token |-> r.token]}
        /\ changes' = [changes EXCEPT ![o] = @ + 1]
        /\ Log(o, r.user, Result("ACTIVE", r.revision, r.binding))
    BY <1>7 DEF Register, i, o, u, tok, r
  <2>4. \A j \in Installations : RowOK(device'[j])
    <3> TAKE j \in Installations
    <3>1. RowOK(device[j]) /\ RowOK(Deactivated(j, "REVOKED"))
      BY DeactivatedOK DEF RowOK
    <3> QED BY <2>2, <2>3, <3>1
  <2>5. /\ device' \in [Installations -> Rows]
        /\ \A j \in Installations : WellShaped(device'[j])
    BY <2>3, <2>4 DEF RowOK
  <2>6. /\ answers' \in [Operations -> SUBSET Results] /\ log' \in [Operations -> Logs]
    BY <2>1, <2>2, <2>3, ResultOK, LogOK
  <2>7. /\ bindings' \in Nat /\ changes' \in [Operations -> Nat]
        /\ issued' \subseteq [binding : Nat, version : Nat, user : Users, token : Tokens]
    BY <2>1, <2>2, <2>3
  <2> QED BY <1>7, <2>5, <2>6, <2>7 DEF Register, Commit, At, redis, client, logouts, Logs
<1>8. ASSUME NEW t \in Threads, Disable(t) PROVE TypeOK'
  <2> DEFINE i == Target(t)
             o == task[t]
             r == Deactivated(i, "DISABLED")
  <2>1. o \in Operations /\ i \in Installations /\ Wants(t).user \in Users
    BY <1>8 DEF Disable, At, Busy, Requested, Intended, Wants, Target, Intents
  <2>2. Stands(i)
    BY <1>8 DEF Disable, Present
  <2> HIDE DEF i, o
  <2>3. RowOK(r) /\ r.status \in {"DISABLED", "REVOKED"} /\ r.revision \in Nat
    BY <2>1, <2>2, DeactivatedOK DEF RowOK, Rows, Deactivated, Active, Stands
  <2> HIDE DEF r
  <2>4. /\ device' = [device EXCEPT ![i] = r]
        /\ changes' = IF Active(i) THEN [changes EXCEPT ![o] = @ + 1] ELSE changes
        /\ Log(o, Wants(t).user, Result(r.status, r.revision, 0))
    BY <1>8 DEF Disable, i, o, r
  <2>5. /\ answers' \in [Operations -> SUBSET Results] /\ log' \in [Operations -> Logs]
    BY <2>1, <2>3, <2>4, ResultOK, LogOK
  <2>6. /\ device' \in [Installations -> Rows]
        /\ \A j \in Installations : WellShaped(device'[j])
    BY <2>1, <2>3, <2>4 DEF RowOK
  <2>7. changes' \in [Operations -> Nat]
    BY <2>1, <2>4
  <2> QED BY <1>8, <2>5, <2>6, <2>7 DEF Disable, Commit, At, redis, client, logouts, Logs
<1>9. ASSUME NEW t \in Threads, DenyUnknown(t) PROVE TypeOK'
  <2>1. task[t] \in Operations
    BY <1>9 DEF DenyUnknown, At, Busy, Requested
  <2>2. answers' \in [Operations -> SUBSET Results]
    BY <1>9, <2>1, ResultOK, AnswerOK DEF DenyUnknown
  <2> QED BY <1>9, <2>2 DEF DenyUnknown, Commit, At, database, redis, client, logouts
<1>10. ASSUME NEW t \in Threads, Check(t) PROVE TypeOK'
  BY <1>10 DEF Check, Leave, At, database, redis, client, logouts, history
<1>11. ASSUME NEW t \in Threads, Compensate(t) PROVE TypeOK'
  <2>1. session[t] \in Sessions
    BY <1>11 DEF Compensate, At, Busy, Requested
  <2>2. /\ device' \in [Installations -> Rows]
        /\ \A j \in Installations : WellShaped(device'[j])
    BY <1>11, <2>1, RevokedForOK DEF Compensate
  <2> QED BY <1>11, <2>2 DEF Compensate, Leave, At, redis, client, logouts, history
<1>12. ASSUME NEW t \in Threads, Fail(t) PROVE TypeOK'
  <2>1. session[t] \in Sessions
    BY <1>12 DEF Fail, At, Busy, Requested
  <2> QED BY <1>12, <2>1 DEF Fail, Leave, At, database, redis, client, logouts
<1>13. ASSUME NEW o \in Operations, NEW c \in Contents, Intend(o, c) PROVE TypeOK'
  <2>1. /\ device[c.installation] \in Rows /\ c.kind \in {"GRANT", "DENY", "REVOKE"}
        /\ c.user \in Users /\ c.token \in Tokens \cup {None} /\ c.installation \in Installations
    OBVIOUS
  <2>2. /\ device[c.installation].revision \in Nat
        /\ device[c.installation].binding \in Nat
    BY <2>1 DEF Rows
  <2>3. intent' \in [Operations -> Intents]
    BY <1>13, <2>1, <2>2 DEF Intend, Intents
  <2> QED BY <1>13, <2>3 DEF Intend, database, redis, thread, logouts, history
<1>14. ASSUME NEW o \in Operations, Expire(o) PROVE TypeOK'
  BY <1>14 DEF Expire, database, redis, thread, logouts, history
<1>15. ASSUME NEW o \in Operations, Purge(o) PROVE TypeOK'
  BY <1>15, UnloggedOK DEF Purge, redis, thread, logouts, history, Logs
<1>16. ASSUME NEW o \in Operations, Revoke(o) PROVE TypeOK'
  <2> DEFINE i == intent[o].installation
  <2>1. i \in Installations
    BY <1>16 DEF Revoke, Intended
  <2>2. device[i].user \in Users
    BY <1>16, <2>1 DEF Revoke, Rows, Stands
  <2>3. /\ device' \in [Installations -> Rows]
        /\ \A j \in Installations : WellShaped(device'[j])
    <3>1. RowOK(Deactivated(i, "REVOKED"))
      BY <2>1, DeactivatedOK
    <3>2. UNCHANGED device \/ device' = [device EXCEPT ![i] = Deactivated(i, "REVOKED")]
      BY <1>16 DEF Revoke
    <3>3. CASE UNCHANGED device
      BY <3>3
    <3>4. CASE device' = [device EXCEPT ![i] = Deactivated(i, "REVOKED")]
      BY <2>1, <3>1, <3>4, RowReplaced
    <3> QED BY <3>2, <3>3, <3>4
  <2>4. changes' \in [Operations -> Nat]
    BY <1>16 DEF Revoke
  <2>5. /\ answers' \in [Operations -> SUBSET Results] /\ log' \in [Operations -> Logs]
    <3>1. CASE Answer(o, log[o].result) /\ UNCHANGED log
      BY <3>1, AnswerOK DEF Logs
    <3>2. CASE AnswerAgain(o, Refusal) /\ UNCHANGED log
      BY <3>2, AnswerOK, UnloggedOK DEF Logs
    <3>3. CASE Log(o, device[i].user, Result(IF Bound(o) THEN "REVOKED" ELSE "NOT_BOUND", 0, 0))
      BY <2>2, <3>3, LogOK, ResultOK
    <3> QED BY <1>16, <3>1, <3>2, <3>3 DEF Revoke
  <2> QED BY <1>16, <2>3, <2>4, <2>5 DEF Revoke, redis, client, thread, logouts, Logs
<1>17. ASSUME NEW i \in Installations, PurgeDevice(i) PROVE TypeOK'
  BY <1>17, NoDeviceOK DEF PurgeDevice, LoggedAt, redis, client, thread, logouts, RowOK
<1>18. ASSUME NEW i \in Installations, Refuse(i) PROVE TypeOK'
  BY <1>18, DeactivatedOK DEF Refuse, RowOK, redis, client, thread, logouts, history
<1>19. ASSUME NEW u \in Users, Withdraw(u) PROVE TypeOK'
  <2>1. log' \in [Operations -> Logs]
    BY <1>19, UnloggedOK DEF Withdraw, Logs
  <2>2. /\ device' \in [Installations -> Rows]
        /\ \A j \in Installations : WellShaped(device'[j])
    BY <1>19, NoDeviceOK DEF Withdraw, RowOK
  <2> QED BY <1>19, <2>1, <2>2 DEF Withdraw, LoggedAt, redis, client, thread, logouts, Logs
<1>20. ASSUME NEW u \in Users, RevokeAll(u) PROVE TypeOK'
  BY <1>20 DEF RevokeAll, database, client, thread, logouts, history
<1>21. ASSUME NEW s \in Sessions, Rotate(s) \/ Lapse(s) PROVE TypeOK'
  BY <1>21 DEF Rotate, Lapse, database, client, thread, logouts, history
<1>22. ASSUME NEW s \in Sessions, LogOut(s) \/ Inspect(s) \/ End(s) PROVE TypeOK'
  <2>1. CASE LogOut(s)
    BY <2>1 DEF LogOut, LogoutAt, database, redis, client, thread, history
  <2>2. CASE Inspect(s)
    BY <2>2 DEF Inspect, LogoutAt, database, redis, client, thread, history
  <2>3. CASE End(s)
    BY <2>3 DEF End, LogoutAt, database, redis, client, thread, history
  <2> QED BY <1>22, <2>1, <2>2, <2>3
<1>23. ASSUME NEW s \in Sessions, CleanUp(s) PROVE TypeOK'
  <2>1. /\ device' \in [Installations -> Rows]
        /\ \A j \in Installations : WellShaped(device'[j])
    BY <1>23, RevokedForOK DEF CleanUp
  <2> QED BY <1>23, <2>1 DEF CleanUp, LogoutAt, redis, client, thread
<1>24. ASSUME NEW s \in Sessions, GiveUp(s) PROVE TypeOK'
  BY <1>24 DEF GiveUp, LogoutAt, database, redis, client, thread, history
<1>25. CASE UNCHANGED vars
  BY <1>25 DEF vars
<1> QED
  BY <1>1, <1>2, <1>3, <1>4, <1>5, <1>6, <1>7, <1>8, <1>9, <1>10, <1>11, <1>12, <1>13,
     <1>14, <1>15, <1>16, <1>17, <1>18, <1>19, <1>20, <1>21, <1>22, <1>23, <1>24, <1>25
  DEF Next, Request

-------------------------------------------------------------------------------
(* What steps do, whichever action takes them.                               *)

(* Nothing is registered: rows stay, are deactivated or go, and what was answered for one
   that goes is orphaned. *)
Fades ==
  /\ bindings' = bindings /\ issued' = issued
  /\ \A i \in Installations :
       \/ device'[i] = device[i]
       \/ device'[i].status # "ACTIVE" /\ device'[i].user \in {device[i].user, None}
  /\ \A i \in Installations :
       Stands(i) /\ device'[i].status = "ABSENT" => LoggedAt({i}) \subseteq orphaned'

LEMMA RevokedForFades ==
  ASSUME TypeOK, NEW s \in Sessions, device' = RevokedFor(s), UNCHANGED <<bindings, issued>>
  PROVE  /\ Fades
         /\ \A i \in Installations : device'[i].status = "ACTIVE" => device'[i].session # s
<1> SUFFICES ASSUME NEW i \in Installations
             PROVE  /\ \/ device'[i] = device[i]
                       \/ /\ device'[i].status # "ACTIVE"
                          /\ device'[i].user \in {device[i].user, None}
                    /\ device'[i].status = "ACTIVE" => device'[i].session # s
                    /\ ~(Stands(i) /\ device'[i].status = "ABSENT")
  BY DEF Fades
<1>1. device'[i] = IF device[i].session = s THEN Deactivated(i, "REVOKED") ELSE device[i]
  BY DEF RevokedFor
<1> QED BY <1>1, DeactivatedOK DEF Stands

LEMMA DeviceStep ==
  ASSUME TypeOK, Intended, Requested, [Next]_vars
  PROVE  Fades \/ \E t \in Threads : Register(t)
<1>1. ASSUME UNCHANGED <<device, bindings, issued>> PROVE Fades
  BY <1>1 DEF Fades, Stands
<1>2. ASSUME NEW t \in Threads, Disable(t) PROVE Fades
  <2>1. Target(t) \in Installations
    BY <1>2 DEF Disable, At, Busy, Requested, Intended, Wants, Target
  <2> QED BY <1>2, <2>1, DeactivatedOK DEF Disable, Fades, Stands, TypeOK
<1>3. ASSUME NEW t \in Threads, Compensate(t) PROVE Fades
  <2>1. session[t] \in Sessions
    BY <1>3 DEF Compensate, At, Busy, Requested
  <2> QED BY <1>3, <2>1, RevokedForFades DEF Compensate, history
<1>4. ASSUME NEW o \in Operations, Revoke(o) PROVE Fades
  <2>1. intent[o].installation \in Installations
    BY <1>4 DEF Revoke, Intended
  <2>2. \/ UNCHANGED device
        \/ device' = [device EXCEPT ![intent[o].installation] =
                        Deactivated(intent[o].installation, "REVOKED")]
    BY <1>4 DEF Revoke
  <2> QED BY <1>4, <2>1, <2>2, DeactivatedOK DEF Revoke, Fades, Stands, TypeOK
<1>5. ASSUME NEW i \in Installations, PurgeDevice(i) PROVE Fades
  BY <1>5 DEF PurgeDevice, NoDevice, Fades, Stands, TypeOK
<1>6. ASSUME NEW i \in Installations, Refuse(i) PROVE Fades
  BY <1>6, DeactivatedOK DEF Refuse, Fades, Stands, TypeOK, history
<1>7. ASSUME NEW u \in Users, Withdraw(u) PROVE Fades
  BY <1>7 DEF Withdraw, NoDevice, Fades, Stands, LoggedAt, TypeOK
<1>8. ASSUME NEW s \in Sessions, CleanUp(s) PROVE Fades
  BY <1>8, RevokedForFades DEF CleanUp
<1>9. ASSUME NEW t \in Threads, Request(t) PROVE Fades \/ Register(t)
  <2>1. CASE \E o \in Operations, s \in Sessions : Open(t, o, s)
    BY <1>1, <2>1 DEF Open, database, history
  <2>2. CASE View(t) \/ Retry(t) \/ Reject(t) \/ Check(t)
    BY <1>1, <2>2 DEF View, Retry, Reject, Check, database, history
  <2>3. CASE Replay(t) \/ Conflict(t) \/ DenyUnknown(t) \/ Fail(t)
    BY <1>1, <2>3 DEF Replay, Conflict, DenyUnknown, Fail, database
  <2> QED BY <1>2, <1>3, <1>9, <2>1, <2>2, <2>3 DEF Request
<1>10. ASSUME NEW o \in Operations, (\E c \in Contents : Intend(o, c)) \/ Expire(o) \/ Purge(o)
       PROVE Fades
  BY <1>1, <1>10 DEF Intend, Expire, Purge, database, history
<1>11. ASSUME NEW u \in Users, RevokeAll(u) PROVE Fades
  BY <1>1, <1>11 DEF RevokeAll, database, history
<1>12. ASSUME NEW s \in Sessions, Rotate(s) \/ Lapse(s) \/ LogOut(s) \/ Inspect(s) \/ End(s) \/ GiveUp(s)
       PROVE Fades
  BY <1>1, <1>12 DEF Rotate, Lapse, LogOut, Inspect, End, GiveUp, database, history
<1>13. CASE UNCHANGED vars
  BY <1>1, <1>13 DEF vars
<1> QED
  BY <1>4, <1>5, <1>6, <1>7, <1>8, <1>9, <1>10, <1>11, <1>12, <1>13 DEF Next

LEMMA RegisterStep ==
  ASSUME TypeOK, Intended, Requested, NEW t \in Threads, Register(t)
  PROVE  /\ Target(t) \in Installations /\ Wants(t).user \in Users /\ Wants(t).token \in Tokens
         /\ session[t] \in Sessions /\ task[t] \in Operations
         /\ device'[Target(t)] =
              Registered(Target(t), Wants(t).user, session[t], Wants(t).token)
         /\ \A j \in Installations \ {Target(t)} :
              IF j \in Holders(t)
              THEN device'[j].status # "ACTIVE" /\ device'[j].user = device[j].user
              ELSE device'[j] = device[j]
<1>1. /\ task[t] \in Operations /\ session[t] \in Sessions
      /\ Target(t) \in Installations /\ Wants(t).user \in Users /\ Wants(t).token \in Tokens
  BY DEF Register, At, Busy, Requested, Intended, Wants, Target, Intents, TypeOK
<1>2. device' = [j \in Installations |->
        IF j = Target(t) THEN Registered(Target(t), Wants(t).user, session[t], Wants(t).token)
        ELSE IF j \in Holders(t) THEN Deactivated(j, "REVOKED") ELSE device[j]]
  BY DEF Register
<1> QED BY <1>1, <1>2, DeactivatedOK

LEMMA IntentStep ==
  ASSUME [Next]_vars
  PROVE  UNCHANGED intent \/ \E o \in Operations, c \in Contents : Intend(o, c)
<1>1. ASSUME NEW t \in Threads, Request(t) PROVE UNCHANGED intent
  BY <1>1 DEF Request, Open, View, Retry, Reject, Replay, Conflict, Register, Disable,
              DenyUnknown, Check, Compensate, Fail, client
<1>2. ASSUME NEW o \in Operations, Expire(o) \/ Purge(o) \/ Revoke(o)
      PROVE UNCHANGED intent
  BY <1>2 DEF Expire, Purge, Revoke, client
<1>3. ASSUME NEW i \in Installations, PurgeDevice(i) \/ Refuse(i) PROVE UNCHANGED intent
  BY <1>3 DEF PurgeDevice, Refuse, client
<1>4. ASSUME NEW u \in Users, Withdraw(u) \/ RevokeAll(u) PROVE UNCHANGED intent
  BY <1>4 DEF Withdraw, RevokeAll, client
<1>5. ASSUME NEW s \in Sessions, Rotate(s) \/ Lapse(s) \/ LogOut(s) \/ Inspect(s) \/ End(s)
                                 \/ CleanUp(s) \/ GiveUp(s)
      PROVE UNCHANGED intent
  BY <1>5 DEF Rotate, Lapse, LogOut, Inspect, End, CleanUp, GiveUp, client
<1> QED BY <1>1, <1>2, <1>3, <1>4, <1>5 DEF Next, vars

(* What a client wants does not change once it was sent. *)
LEMMA IntentsStand ==
  ASSUME TypeOK, [Next]_vars, NEW o \in Operations, intent[o].kind # "NONE"
  PROVE  intent'[o] = intent[o]
BY IntentStep DEF Intend, TypeOK

-------------------------------------------------------------------------------
(* Addresses                                                                 *)

LEMMA IntendedStep ==
  ASSUME TypeOK, Intended, Requested, Addressed, TypeOK', [Next]_vars
  PROVE  Intended'
<1>1. bindings <= bindings'
  <2>1. CASE Fades
    BY <2>1 DEF Fades, TypeOK
  <2>2. ASSUME NEW t \in Threads, Register(t) PROVE bindings <= bindings'
    BY <2>2 DEF Register, TypeOK
  <2> QED BY <2>1, <2>2, DeviceStep
<1>2. ASSUME UNCHANGED intent PROVE Intended'
  BY <1>1, <1>2 DEF Intended, TypeOK
<1>3. ASSUME NEW o \in Operations, NEW c \in Contents, Intend(o, c) PROVE Intended'
  <2>1. c.installation \in Installations /\ c.user \in Users
    OBVIOUS
  <2>2. c.kind = "REVOKE" => device[c.installation].binding \in 1 .. bindings
    BY <1>3, <2>1 DEF Intend, Addressed
  <2> QED BY <1>1, <1>3, <2>1, <2>2 DEF Intend, Intended, TypeOK, database
<1> QED BY <1>2, <1>3, IntentStep

(* Only requests change what requests are at. *)
LEMMA OnlyRequests ==
  ASSUME [Next]_vars, ~ \E r \in Threads : Request(r)
  PROVE  UNCHANGED thread
<1>1. ASSUME NEW o \in Operations,
             (\E c \in Contents : Intend(o, c)) \/ Expire(o) \/ Purge(o) \/ Revoke(o)
      PROVE UNCHANGED thread
  BY <1>1 DEF Intend, Expire, Purge, Revoke
<1>2. ASSUME NEW i \in Installations, PurgeDevice(i) \/ Refuse(i)
      PROVE UNCHANGED thread
  BY <1>2 DEF PurgeDevice, Refuse
<1>3. ASSUME NEW u \in Users, Withdraw(u) \/ RevokeAll(u) PROVE UNCHANGED thread
  BY <1>3 DEF Withdraw, RevokeAll
<1>4. ASSUME NEW s \in Sessions, Rotate(s) \/ Lapse(s) \/ LogOut(s) \/ Inspect(s)
                                 \/ End(s) \/ CleanUp(s) \/ GiveUp(s)
      PROVE UNCHANGED thread
  BY <1>4 DEF Rotate, Lapse, LogOut, Inspect, End, CleanUp, GiveUp
<1>5. CASE UNCHANGED vars
  BY <1>5 DEF vars, thread
<1> QED BY <1>1, <1>2, <1>3, <1>4, <1>5 DEF Next

(* What a step does to a request: it stays as it is, ends, arrives, reads its rows, or
   goes on for the same operation and session. *)
LEMMA ThreadStep ==
  ASSUME TypeOK, [Next]_vars, NEW t \in Threads
  PROVE  \/ /\ stage'[t] = stage[t] /\ task'[t] = task[t]
            /\ session'[t] = session[t] /\ seen'[t] = seen[t]
         \/ stage'[t] = "idle"
         \/ \E o \in Operations, s \in Sessions : Open(t, o, s)
         \/ View(t)
         \/ /\ Busy(t) /\ task'[t] = task[t] /\ session'[t] = session[t]
            /\ stage'[t] \in {"opened", "committed", "lapsed"}
<1> USE DEF TypeOK
<1>1. ASSUME UNCHANGED thread
      PROVE  /\ stage'[t] = stage[t] /\ task'[t] = task[t]
             /\ session'[t] = session[t] /\ seen'[t] = seen[t]
  BY <1>1 DEF thread
<1>2. ASSUME NEW r \in Threads, \E o \in Operations, s \in Sessions : Open(r, o, s)
      PROVE  \/ /\ stage'[t] = stage[t] /\ task'[t] = task[t]
                /\ session'[t] = session[t] /\ seen'[t] = seen[t]
             \/ \E o \in Operations, s \in Sessions : Open(t, o, s)
  <2>1. PICK o \in Operations, s \in Sessions : Open(r, o, s)
    BY <1>2
  <2>2. CASE r = t
    BY <2>1, <2>2
  <2>3. CASE r # t
    BY <2>1, <2>3 DEF Open
  <2> QED BY <2>2, <2>3
<1>3. ASSUME NEW r \in Threads, View(r)
      PROVE  \/ /\ stage'[t] = stage[t] /\ task'[t] = task[t]
                /\ session'[t] = session[t] /\ seen'[t] = seen[t]
             \/ View(t)
  <2>1. CASE r = t
    BY <1>3, <2>1
  <2>2. CASE r # t
    BY <1>3, <2>2 DEF View
  <2> QED BY <2>1, <2>2
<1>4. ASSUME NEW r \in Threads, Leave(r)
      PROVE  \/ /\ stage'[t] = stage[t] /\ task'[t] = task[t]
                /\ session'[t] = session[t] /\ seen'[t] = seen[t]
             \/ stage'[t] = "idle"
  BY <1>4 DEF Leave
<1>5. ASSUME NEW r \in Threads, Retry(r) \/ (Commit(r) /\ At(r, "viewed"))
      PROVE  \/ /\ stage'[t] = stage[t] /\ task'[t] = task[t]
                /\ session'[t] = session[t] /\ seen'[t] = seen[t]
             \/ /\ Busy(t) /\ task'[t] = task[t] /\ session'[t] = session[t]
                /\ stage'[t] \in {"opened", "committed", "lapsed"}
  BY <1>5 DEF Retry, Commit, At, Busy
<1>6. ASSUME NEW r \in Threads, Check(r)
      PROVE  \/ /\ stage'[t] = stage[t] /\ task'[t] = task[t]
                /\ session'[t] = session[t] /\ seen'[t] = seen[t]
             \/ stage'[t] = "idle"
             \/ /\ Busy(t) /\ task'[t] = task[t] /\ session'[t] = session[t]
                /\ stage'[t] \in {"opened", "committed", "lapsed"}
  BY <1>4, <1>6 DEF Check, At, Busy
<1>7. ASSUME NEW r \in Threads, Request(r)
      PROVE  \/ \E o \in Operations, s \in Sessions : Open(r, o, s)
             \/ View(r) \/ Leave(r) \/ Retry(r) \/ (Commit(r) /\ At(r, "viewed")) \/ Check(r)
  <2>1. CASE \E o \in Operations, s \in Sessions : Open(r, o, s)
    BY <2>1
  <2>2. CASE View(r) \/ Retry(r) \/ Check(r)
    BY <2>2
  <2>3. CASE Reject(r) \/ Conflict(r) \/ Compensate(r) \/ Fail(r)
    BY <2>3 DEF Reject, Conflict, Compensate, Fail
  <2>4. CASE Replay(r) \/ Register(r) \/ Disable(r) \/ DenyUnknown(r)
    BY <2>4 DEF Replay, Register, Disable, DenyUnknown
  <2> QED BY <1>7, <2>1, <2>2, <2>3, <2>4 DEF Request
<1>8. ASSUME ~ \E r \in Threads : Request(r) PROVE UNCHANGED thread
  BY <1>8, OnlyRequests
<1> QED BY <1>1, <1>2, <1>3, <1>4, <1>5, <1>6, <1>7, <1>8

LEMMA RequestedStep ==
  ASSUME TypeOK, Requested, [Next]_vars
  PROVE  Requested'
<1> SUFFICES ASSUME NEW t \in Threads, stage'[t] # "idle"
             PROVE  /\ task'[t] \in Operations
                    /\ session'[t] \in Sessions
                    /\ intent'[task'[t]].kind \in {"GRANT", "DENY"}
  BY DEF Requested, Busy, Wants
<1>1. ASSUME Busy(t), task'[t] = task[t], session'[t] = session[t]
      PROVE  /\ task'[t] \in Operations
             /\ session'[t] \in Sessions
             /\ intent'[task'[t]].kind \in {"GRANT", "DENY"}
  <2>1. /\ task[t] \in Operations /\ session[t] \in Sessions
        /\ intent[task[t]].kind \in {"GRANT", "DENY"}
    BY <1>1 DEF Requested, Wants
  <2>2. intent'[task[t]] = intent[task[t]]
    BY <2>1, IntentsStand
  <2> QED BY <1>1, <2>1, <2>2
<1>2. ASSUME NEW o \in Operations, NEW s \in Sessions, Open(t, o, s)
      PROVE  /\ task'[t] \in Operations
             /\ session'[t] \in Sessions
             /\ intent'[task'[t]].kind \in {"GRANT", "DENY"}
  BY <1>2 DEF Open, TypeOK, client
<1>3. ASSUME View(t)
      PROVE  Busy(t) /\ task'[t] = task[t] /\ session'[t] = session[t]
  BY <1>3 DEF View, At, Busy
<1> QED BY <1>1, <1>2, <1>3, ThreadStep DEF Busy

(* A registration binds an installation to an address of its own: the one the account
   had with a newer version if the token is new, or one never given out before. *)
LEMMA RegisteredAddress ==
  ASSUME TypeOK, Addressed, NEW i \in Installations, NEW u \in Users, NEW tok \in Tokens
  PROVE  LET b == Binding(i, u)
             v == Version(i, tok)
         IN \/ b = bindings + 1
            \/ /\ Active(i) /\ device[i].user = u /\ b = device[i].binding
               /\ \/ device[i].token = tok /\ v = device[i].version
                  \/ device[i].token # tok /\ v = device[i].version + 1
BY DEF Binding, Version, Active, Stands, Addressed

LEMMA AddressedStep ==
  ASSUME TypeOK, Intended, Requested, Addressed, AddressIsUnique, [Next]_vars
  PROVE  Addressed' /\ AddressIsUnique'
<1>1. CASE Fades
  <2>1. /\ bindings' = bindings /\ issued' = issued
        /\ \A i \in Installations : device'[i].status = "ACTIVE" => device'[i] = device[i]
    BY <1>1 DEF Fades
  <2>2. Addressed'
    BY <2>1 DEF Addressed, Active
  <2> QED BY <2>1, <2>2 DEF AddressIsUnique
<1>2. ASSUME NEW t \in Threads, Register(t) PROVE Addressed' /\ AddressIsUnique'
  <2> DEFINE i == Target(t)
             u == Wants(t).user
             tok == Wants(t).token
             r == Registered(i, u, session[t], tok)
             new == [binding |-> r.binding, version |-> r.version, user |-> r.user,
                     token |-> r.token]
  <2>1. /\ i \in Installations /\ u \in Users /\ tok \in Tokens /\ session[t] \in Sessions
        /\ device'[i] = r
        /\ \A j \in Installations \ {i} :
             device'[j].status = "ACTIVE" => device'[j] = device[j]
    BY <1>2, RegisterStep
  <2>2. /\ bindings' = IF r.binding > bindings THEN r.binding ELSE bindings
        /\ issued' = issued \cup {new}
    BY <1>2 DEF Register
  <2>3. /\ r.user = u /\ r.token = tok /\ r.binding \in Nat \ {0} /\ r.version \in Nat
        /\ \/ r.binding = bindings + 1
           \/ /\ device[i].status = "ACTIVE" /\ device[i].user = u
              /\ r.binding = device[i].binding
              /\ \/ device[i].token = tok /\ r.version = device[i].version
                 \/ device[i].token # tok /\ r.version = device[i].version + 1
    BY <2>1, RegisteredOK, RegisteredAddress DEF Active
  <2>4. /\ bindings \in Nat
        /\ \A a \in issued : a.binding \in Nat /\ a.version \in Nat
        /\ \A j \in Installations : device[j].binding \in Nat /\ device[j].version \in Nat
    BY DEF TypeOK, Rows
  <2>5. \A j \in Installations : device[j].status = "ACTIVE" =>
          /\ device[j].binding \in 1 .. bindings
          /\ [binding |-> device[j].binding, version |-> device[j].version,
              user |-> device[j].user, token |-> device[j].token] \in issued
    BY DEF Addressed, Active
  <2>6. \A j, k \in Installations :
          device[j].status = "ACTIVE" /\ device[k].status = "ACTIVE"
            /\ device[j].binding = device[k].binding => j = k
    BY DEF Addressed, Active
  <2>7. /\ \A a \in issued : a.binding <= bindings
        /\ \A a \in issued, j \in Installations :
             device[j].status = "ACTIVE" /\ a.binding = device[j].binding =>
               a.version <= device[j].version /\ a.user = device[j].user
    BY DEF Addressed, Active
  <2> HIDE DEF i, u, tok, r
  <2>8. \A j \in Installations : device'[j].status = "ACTIVE" =>
          /\ device'[j].binding \in 1 .. bindings'
          /\ [binding |-> device'[j].binding, version |-> device'[j].version,
              user |-> device'[j].user, token |-> device'[j].token] \in issued'
    <3> TAKE j \in Installations
    <3>1. CASE j = i
      BY <2>1, <2>2, <2>3, <2>4, <2>5, <3>1
    <3>2. CASE j # i
      BY <2>1, <2>2, <2>3, <2>4, <2>5, <3>2
    <3> QED BY <3>1, <3>2
  <2>9. \A j, k \in Installations :
          device'[j].status = "ACTIVE" /\ device'[k].status = "ACTIVE"
            /\ device'[j].binding = device'[k].binding => j = k
    <3>1. \A j \in Installations \ {i} :
            device'[j].status = "ACTIVE" => device'[j].binding # r.binding
      <4> SUFFICES ASSUME NEW j \in Installations, j # i, device'[j].status = "ACTIVE",
                          device'[j].binding = r.binding
                   PROVE  FALSE
        OBVIOUS
      <4>1. device[j].status = "ACTIVE" /\ device[j].binding = r.binding
        BY <2>1
      <4>2. r.binding # bindings + 1
        <5>1. device[j].binding \in 1 .. bindings
          BY <2>5, <4>1
        <5> QED BY <2>4, <4>1, <5>1
      <4>3. device[i].status = "ACTIVE" /\ r.binding = device[i].binding
        BY <2>3, <4>2
      <4> QED BY <2>1, <2>6, <4>1, <4>3
    <3>2. \A j, k \in Installations \ {i} :
            device'[j].status = "ACTIVE" /\ device'[k].status = "ACTIVE"
              /\ device'[j].binding = device'[k].binding => j = k
      BY <2>1, <2>6
    <3> QED BY <2>1, <3>1, <3>2
  <2>10. \A a \in issued' : a.binding <= bindings'
    BY <2>2, <2>3, <2>4, <2>7
  <2>11. \A a \in issued', j \in Installations :
           device'[j].status = "ACTIVE" /\ a.binding = device'[j].binding =>
             a.version <= device'[j].version /\ a.user = device'[j].user
    <3> SUFFICES ASSUME NEW a \in issued', NEW j \in Installations,
                        device'[j].status = "ACTIVE", a.binding = device'[j].binding
                 PROVE  a.version <= device'[j].version /\ a.user = device'[j].user
      OBVIOUS
    <3>1. CASE a = new /\ j = i
      BY <2>1, <2>3, <3>1
    <3>2. CASE a = new /\ j # i
      <4>1. device'[i].status = "ACTIVE" /\ device'[j].binding = device'[i].binding
        BY <2>1, <2>3, <3>2, RegisteredOK DEF r
      <4>2. j = i
        BY <2>1, <2>9, <4>1
      <4> QED BY <3>2, <4>2
    <3>3. CASE a \in issued /\ j = i
      <4>1. r.binding # bindings + 1
        BY <2>1, <2>4, <2>7, <3>3
      <4> QED BY <2>1, <2>3, <2>4, <2>7, <3>3, <4>1
    <3>4. CASE a \in issued /\ j # i
      BY <2>1, <2>7, <3>4
    <3> QED BY <2>2, <3>1, <3>2, <3>3, <3>4
  <2>12. \A a, b \in issued' :
           a.binding = b.binding /\ a.version = b.version => a.user = b.user /\ a.token = b.token
    <3>1. \A a \in issued : a.binding = new.binding /\ a.version = new.version =>
            a.user = new.user /\ a.token = new.token
      <4> SUFFICES ASSUME NEW a \in issued, a.binding = r.binding, a.version = r.version
                   PROVE  a.user = r.user /\ a.token = r.token
        OBVIOUS
      <4>1. r.binding # bindings + 1
        BY <2>4, <2>7
      <4>2. /\ device[i].status = "ACTIVE" /\ device[i].user = u
            /\ a.version <= device[i].version
        BY <2>1, <2>3, <2>7, <4>1
      <4>3. device[i].token = tok /\ r.version = device[i].version
        BY <2>1, <2>3, <2>4, <4>1, <4>2
      <4>4. [binding |-> r.binding, version |-> r.version, user |-> u, token |-> tok] \in issued
        BY <2>1, <2>3, <2>5, <4>1, <4>2, <4>3
      <4> QED BY <2>3, <4>4 DEF AddressIsUnique
    <3> QED BY <2>2, <3>1 DEF AddressIsUnique
  <2> QED BY <2>8, <2>9, <2>10, <2>11, <2>12 DEF Addressed, Active, AddressIsUnique
<1> QED BY <1>1, <1>2, DeviceStep

LEMMA NamedStep ==
  ASSUME TypeOK, Intended, Requested, Addressed, Named, [Next]_vars
  PROVE  Named'
<1> SUFFICES ASSUME NEW o \in Operations, intent'[o].kind = "REVOKE",
                    NEW a \in issued', a.binding = intent'[o].binding
             PROVE  a.user = intent'[o].user
  BY DEF Named
<1>1. CASE intent[o].kind = "NONE"
  <2>1. PICK q \in Operations, c \in Contents : Intend(q, c)
    BY <1>1, IntentStep
  <2>2. /\ q = o /\ intent'[o].user = c.user
        /\ intent'[o].binding = device[c.installation].binding
        /\ Active(c.installation) /\ device[c.installation].user = c.user
        /\ c.installation \in Installations /\ issued' = issued
    BY <1>1, <2>1 DEF Intend, TypeOK, history
  <2> QED BY <2>2 DEF Addressed
<1>2. CASE intent[o].kind # "NONE"
  <2>1. intent'[o] = intent[o]
    BY <1>2, IntentsStand
  <2>2. CASE a \in issued
    BY <2>1, <2>2 DEF Named
  <2>3. ASSUME NEW t \in Threads, Register(t), a \notin issued PROVE a.user = intent[o].user
    <3> DEFINE i == Target(t)
               u == Wants(t).user
    <3>1. i \in Installations /\ u \in Users /\ Wants(t).token \in Tokens
          /\ session[t] \in Sessions
      BY <2>3, RegisterStep
    <3>2. a.binding = Binding(i, u) /\ a.user = u
      BY <2>3, <3>1, RegisteredOK DEF Register
    <3>3. intent[o].binding \in 1 .. bindings /\ bindings \in Nat
      BY <1>2, <2>1 DEF Intended, TypeOK
    <3>4. Active(i) /\ device[i].user = u /\ a.binding = device[i].binding
      BY <2>1, <3>2, <3>3 DEF Binding
    <3>5. [binding |-> device[i].binding, version |-> device[i].version,
           user |-> device[i].user, token |-> device[i].token] \in issued
      BY <3>1, <3>4 DEF Addressed
    <3>6. device[i].user = intent[o].user
      BY <2>1, <3>2, <3>4, <3>5 DEF Named
    <3> QED BY <3>2, <3>4, <3>6
  <2>4. issued' = issued \/ \E t \in Threads : Register(t)
    BY DeviceStep DEF Fades
  <2> QED BY <2>1, <2>2, <2>3, <2>4
<1> QED BY <1>1, <1>2

LEMMA TokenStep ==
  ASSUME TypeOK, Intended, Requested, TokenIsUnique, [Next]_vars
  PROVE  TokenIsUnique'
<1>1. CASE Fades
  BY <1>1 DEF Fades, TokenIsUnique, Active
<1>2. ASSUME NEW t \in Threads, Register(t) PROVE TokenIsUnique'
  <2>1. /\ Target(t) \in Installations /\ Wants(t).token \in Tokens
        /\ device'[Target(t)].token = Wants(t).token
        /\ \A j \in Installations \ {Target(t)} : device'[j].status = "ACTIVE" =>
             j \notin Holders(t) /\ device'[j] = device[j]
    BY <1>2, RegisterStep, RegisteredOK
  <2>2. \A j \in Installations \ (Holders(t) \cup {Target(t)}) :
          device[j].token # Wants(t).token
    BY <1>2 DEF Register, Collides
  <2> QED BY <2>1, <2>2 DEF TokenIsUnique, Active
<1> QED BY <1>1, <1>2, DeviceStep

-------------------------------------------------------------------------------
(* Sessions                                                                  *)

(* A session whose logout has got past revoke is over for good. *)
SessionInv ==
  /\ silenced \cap live = {}
  /\ \A s \in Sessions : logout[s] = "ended" => s \notin live
  /\ LoggedOutIsSilent

LEMMA SessionsStep ==
  ASSUME TypeOK, [Next]_vars
  PROVE  /\ live' \subseteq live
         /\ \A s \in Sessions :
              logout'[s] = "ended" => logout[s] = "ended" \/ s \notin live'
         /\ silenced' = silenced \/ \E s \in Sessions : CleanUp(s)
         /\ missed \subseteq missed'
<1> USE DEF TypeOK
<1>1. ASSUME UNCHANGED <<live, logout, silenced, missed>>
      PROVE  /\ live' \subseteq live
             /\ \A s \in Sessions :
                  logout'[s] = "ended" => logout[s] = "ended" \/ s \notin live'
             /\ silenced' = silenced \/ \E s \in Sessions : CleanUp(s)
             /\ missed \subseteq missed'
  BY <1>1
<1>2. ASSUME NEW t \in Threads, Request(t)
      PROVE  UNCHANGED <<live, logout, silenced>> /\ missed \subseteq missed'
  <2>1. CASE \E o \in Operations, s \in Sessions : Open(t, o, s)
    BY <2>1 DEF Open, redis, logouts, history
  <2>2. CASE View(t) \/ Retry(t) \/ Reject(t) \/ Check(t) \/ Compensate(t)
    BY <2>2 DEF View, Retry, Reject, Check, Compensate, redis, logouts, history
  <2>3. CASE Replay(t) \/ Conflict(t) \/ Register(t) \/ Disable(t) \/ DenyUnknown(t)
    BY <2>3 DEF Replay, Conflict, Register, Disable, DenyUnknown, redis, logouts
  <2>4. CASE Fail(t)
    BY <2>4 DEF Fail, redis, logouts
  <2> QED BY <1>2, <2>1, <2>2, <2>3, <2>4 DEF Request
<1>3. ASSUME NEW o \in Operations,
             (\E c \in Contents : Intend(o, c)) \/ Expire(o) \/ Purge(o) \/ Revoke(o)
      PROVE UNCHANGED <<live, logout, silenced, missed>>
  BY <1>3 DEF Intend, Expire, Purge, Revoke, redis, logouts, history
<1>4. ASSUME NEW i \in Installations, PurgeDevice(i) \/ Refuse(i)
      PROVE UNCHANGED <<live, logout, silenced, missed>>
  BY <1>4 DEF PurgeDevice, Refuse, redis, logouts, history
<1>5. ASSUME NEW u \in Users, Withdraw(u) \/ RevokeAll(u)
      PROVE live' \subseteq live /\ UNCHANGED <<logout, silenced, missed>>
  BY <1>5 DEF Withdraw, RevokeAll, redis, logouts, history
<1>6. ASSUME NEW s \in Sessions, Rotate(s) \/ Lapse(s)
      PROVE live' \subseteq live /\ UNCHANGED <<logout, silenced, missed>>
  BY <1>6 DEF Rotate, Lapse, redis, logouts, history
<1>7. ASSUME NEW s \in Sessions, LogOut(s) \/ Inspect(s) \/ GiveUp(s)
      PROVE  /\ live' \subseteq live
             /\ \A q \in Sessions : logout'[q] = "ended" => logout[q] = "ended"
             /\ UNCHANGED <<silenced, missed>>
  BY <1>7 DEF LogOut, Inspect, GiveUp, LogoutAt, redis, history
<1>8. ASSUME NEW s \in Sessions, End(s)
      PROVE  /\ live' \subseteq live
             /\ \A q \in Sessions :
                  logout'[q] = "ended" => logout[q] = "ended" \/ q \notin live'
             /\ UNCHANGED <<silenced, missed>>
  BY <1>8 DEF End, LogoutAt, history
<1>9. ASSUME NEW s \in Sessions, CleanUp(s)
      PROVE  /\ live' = live /\ missed' = missed
             /\ \A q \in Sessions : logout'[q] = "ended" => logout[q] = "ended"
  BY <1>9 DEF CleanUp, LogoutAt, redis
<1>10. CASE UNCHANGED vars
  BY <1>1, <1>10 DEF vars
<1> QED BY <1>1, <1>2, <1>3, <1>4, <1>5, <1>6, <1>7, <1>8, <1>9, <1>10 DEF Next

(* A request that has committed is left only after a check that found its session alive,
   a compensation, or a failure. *)
LEMMA CommittedStep ==
  ASSUME TypeOK, [Next]_vars, NEW t \in Threads, stage[t] \in {"committed", "lapsed"}
  PROVE  \/ stage'[t] \in {"committed", "lapsed"} /\ session'[t] = session[t]
         \/ session[t] \in live
         \/ Compensate(t)
         \/ Fail(t)
<1> SUFFICES ASSUME ~ Compensate(t), ~ Fail(t), session[t] \notin live
             PROVE  stage'[t] \in {"committed", "lapsed"} /\ session'[t] = session[t]
  OBVIOUS
<1> USE DEF TypeOK
<1>1. CASE UNCHANGED <<stage, session>>
  BY <1>1
<1>2. ASSUME NEW r \in Threads, Request(r)
      PROVE  stage'[t] \in {"committed", "lapsed"} /\ session'[t] = session[t]
  <2>1. CASE Check(r)
    BY <2>1 DEF Check, Leave, At
  <2>2. CASE Compensate(r) \/ Fail(r)
    <3>1. r # t
      BY <2>2
    <3> QED BY <2>2, <3>1 DEF Compensate, Fail, Leave
  <2>3. CASE \E o \in Operations, s \in Sessions : Open(r, o, s)
    BY <2>3 DEF Open, At
  <2>4. CASE View(r) \/ Retry(r) \/ Reject(r) \/ Conflict(r)
    BY <2>4 DEF View, Retry, Reject, Conflict, Leave, At
  <2>5. CASE Replay(r) \/ Register(r) \/ Disable(r) \/ DenyUnknown(r)
    BY <2>5 DEF Replay, Register, Disable, DenyUnknown, Commit, At
  <2> QED BY <1>2, <2>1, <2>2, <2>3, <2>4, <2>5 DEF Request
<1>3. ASSUME ~ \E r \in Threads : Request(r) PROVE UNCHANGED thread
  BY <1>3, OnlyRequests
<1> QED BY <1>1, <1>2, <1>3 DEF thread

LEMMA SilenceStep ==
  ASSUME TypeOK, Intended, Requested, SessionInv, TypeOK', [Next]_vars
  PROVE  SessionInv'
<1>1. \A s \in Sessions : logout'[s] = "ended" => s \notin live'
  BY SessionsStep DEF SessionInv
<1>2. silenced' \cap live' = {}
  <2>1. ASSUME NEW s \in Sessions, CleanUp(s) PROVE silenced' = silenced \cup {s} /\ s \notin live
    BY <2>1 DEF CleanUp, LogoutAt, SessionInv
  <2> QED BY <2>1, SessionsStep DEF SessionInv
<1>3. LoggedOutIsSilent'
  <2> SUFFICES ASSUME NEW i \in Installations, device'[i].status = "ACTIVE",
                      device'[i].session \in silenced' \ missed'
               PROVE  Rescued(device[i].session)'
    BY DEF LoggedOutIsSilent, Active
  <2> DEFINE s == device'[i].session
  <2>1. s \in Sessions
    BY DEF TypeOK
  <2>2. ASSUME NEW t \in Threads, Register(t), i = Target(t) PROVE Rescued(device[i].session)'
    <3>1. s = session[t]
      BY <2>2, RegisterStep, RegisteredOK
    <3>2. stage'[t] = "committed" /\ session'[t] = session[t]
      BY <2>2 DEF Register, Commit, TypeOK
    <3> QED BY <3>1, <3>2 DEF Rescued
  <2>3. ASSUME device'[i] = device[i], s \in silenced PROVE Rescued(device[i].session)'
    <3>1. PICK t \in Threads : stage[t] \in {"committed", "lapsed"} /\ session[t] = s
      BY <2>3, SessionsStep DEF SessionInv, LoggedOutIsSilent, Active, Rescued
    <3>2. s \notin live
      BY <2>3 DEF SessionInv
    <3>3. ~ Compensate(t)
      <4> SUFFICES ASSUME Compensate(t) PROVE FALSE
        OBVIOUS
      <4>1. device' = RevokedFor(s) /\ UNCHANGED <<bindings, issued>>
        BY <3>1 DEF Compensate, history
      <4> QED BY <2>1, <4>1, RevokedForFades
    <3>4. ~ Fail(t)
      BY <2>3, <3>1 DEF Fail
    <3>5. stage'[t] \in {"committed", "lapsed"} /\ session'[t] = session[t]
      BY <3>1, <3>2, <3>3, <3>4, CommittedStep
    <3> QED BY <3>1, <3>5 DEF Rescued
  <2>4. s \in silenced
    <3>1. ASSUME NEW q \in Sessions, CleanUp(q), s = q PROVE FALSE
      BY <3>1, RevokedForFades DEF CleanUp
    <3>2. ASSUME NEW q \in Sessions, CleanUp(q) PROVE silenced' = silenced \cup {q}
      BY <3>2 DEF CleanUp
    <3> QED BY <3>1, <3>2, SessionsStep
  <2>5. CASE Fades
    BY <2>3, <2>4, <2>5 DEF Fades
  <2>6. ASSUME NEW t \in Threads, Register(t), i # Target(t) PROVE device'[i] = device[i]
    BY <2>6, RegisterStep
  <2> QED BY <2>2, <2>3, <2>4, <2>5, <2>6, DeviceStep
<1> QED BY <1>1, <1>2, <1>3 DEF SessionInv

-------------------------------------------------------------------------------
(* The lock on the user's row                                                *)

(* Of a user's registrations one at a time is inside its transaction, where the user is
   not withdrawn and the operation's row is still kept. *)
Locks ==
  /\ \A t \in Threads : At(t, "viewed") =>
       Wants(t).user \notin withdrawn /\ task[t] \notin purged
  /\ \A t, r \in Threads :
       At(t, "viewed") /\ At(r, "viewed") /\ Wants(t).user = Wants(r).user => t = r

LEMMA WithdrawnStep ==
  ASSUME [Next]_vars
  PROVE  \/ UNCHANGED <<withdrawn, purged>>
         \/ \E u \in Users : Withdraw(u)
         \/ \E o \in Operations : Purge(o)
<1>1. ASSUME NEW t \in Threads, Request(t) PROVE UNCHANGED <<withdrawn, purged>>
  <2>1. CASE \E o \in Operations, s \in Sessions : Open(t, o, s)
    BY <2>1 DEF Open, database, client
  <2>2. CASE View(t) \/ Retry(t) \/ Reject(t) \/ Check(t) \/ Fail(t) \/ Compensate(t)
    BY <2>2 DEF View, Retry, Reject, Check, Fail, Compensate, database, client
  <2>3. CASE Replay(t) \/ Conflict(t) \/ Register(t) \/ Disable(t) \/ DenyUnknown(t)
    BY <2>3 DEF Replay, Conflict, Register, Disable, DenyUnknown, database, client
  <2> QED BY <1>1, <2>1, <2>2, <2>3 DEF Request
<1>2. ASSUME NEW o \in Operations, (\E c \in Contents : Intend(o, c)) \/ Expire(o) \/ Revoke(o)
      PROVE UNCHANGED <<withdrawn, purged>>
  BY <1>2 DEF Intend, Expire, Revoke, database, client
<1>3. ASSUME NEW i \in Installations, PurgeDevice(i) \/ Refuse(i)
      PROVE UNCHANGED <<withdrawn, purged>>
  BY <1>3 DEF PurgeDevice, Refuse, client
<1>4. ASSUME NEW u \in Users, RevokeAll(u) PROVE UNCHANGED <<withdrawn, purged>>
  BY <1>4 DEF RevokeAll, database, client
<1>5. ASSUME NEW s \in Sessions, Rotate(s) \/ Lapse(s) \/ LogOut(s) \/ Inspect(s) \/ End(s)
                                 \/ CleanUp(s) \/ GiveUp(s)
      PROVE UNCHANGED <<withdrawn, purged>>
  BY <1>5 DEF Rotate, Lapse, LogOut, Inspect, End, CleanUp, GiveUp, database, client
<1>6. CASE UNCHANGED vars
  BY <1>6 DEF vars
<1> QED BY <1>1, <1>2, <1>3, <1>4, <1>5, <1>6 DEF Next

LEMMA LocksStep ==
  ASSUME TypeOK, Requested, Locks, [Next]_vars
  PROVE  Locks'
<1>1. \A t \in Threads : stage'[t] = "viewed" =>
        View(t) \/ (At(t, "viewed") /\ task'[t] = task[t])
  BY ThreadStep DEF At, Open, TypeOK
<1>2. \A t \in Threads : stage'[t] = "viewed" =>
        task'[t] = task[t] /\ Wants(t)' = Wants(t) /\ task[t] \in Operations
  <2> SUFFICES ASSUME NEW t \in Threads, stage'[t] = "viewed"
               PROVE  task'[t] = task[t] /\ Wants(t)' = Wants(t) /\ task[t] \in Operations
    OBVIOUS
  <2>1. task'[t] = task[t] /\ Busy(t)
    BY <1>1 DEF View, At, Busy
  <2>2. task[t] \in Operations /\ intent[task[t]].kind # "NONE"
    BY <2>1 DEF Requested, Wants
  <2>3. intent'[task[t]] = intent[task[t]]
    BY <2>2, IntentsStand
  <2> QED BY <2>1, <2>2, <2>3 DEF Wants
<1>3. ASSUME NEW r \in Threads, View(r) PROVE Locks'
  <2>1. /\ Wants(r).user \notin withdrawn /\ task[r] \notin purged
        /\ \A t \in Threads : At(t, "viewed") => Wants(t).user # Wants(r).user
        /\ withdrawn' = withdrawn /\ purged' = purged
    BY <1>3 DEF View, Fresh, Unlocked, At, TypeOK, database, client
  <2>2. \A t \in Threads : stage'[t] = "viewed" => t = r \/ At(t, "viewed")
    BY <1>3 DEF View, At, TypeOK
  <2> QED BY <1>2, <2>1, <2>2 DEF Locks, At
<1>4. ASSUME ~ \E r \in Threads : View(r) PROVE Locks'
  <2>1. \A t \in Threads : stage'[t] = "viewed" => At(t, "viewed")
    BY <1>1, <1>4
  <2>2. CASE UNCHANGED <<withdrawn, purged>>
    BY <1>2, <2>1, <2>2 DEF Locks, At
  <2>3. ASSUME NEW u \in Users, Withdraw(u) PROVE Locks'
    <3>1. /\ withdrawn' = withdrawn \cup {u} /\ purged' = purged
          /\ \A t \in Threads : At(t, "viewed") => Wants(t).user # u
      BY <2>3 DEF Withdraw, Unlocked, At, client
    <3> QED BY <1>2, <2>1, <3>1 DEF Locks, At
  <2>4. ASSUME NEW o \in Operations, Purge(o) PROVE Locks'
    <3>1. /\ withdrawn' = withdrawn /\ purged' = purged \cup {o}
          /\ \A t \in Threads : At(t, "viewed") => task[t] # o
      BY <2>4 DEF Purge, At
    <3> QED BY <1>2, <2>1, <3>1 DEF Locks, At
  <2> QED BY <2>2, <2>3, <2>4, WithdrawnStep
<1> QED BY <1>3, <1>4

-------------------------------------------------------------------------------
(* The log                                                                   *)

(* Transaction t records operation o, which was not in the log. *)
Records(t, o) ==
  /\ At(t, "viewed") /\ task[t] = o /\ ~Logged(o)
  /\ Register(t) \/ Disable(t)
  /\ log'[o].subject = Wants(t).user
  /\ changes'[o] \in {changes[o], changes[o] + 1}

(* A revocation records operation o, which was not in the log. *)
RecordsRevoke(o) ==
  LET i == intent[o].installation IN
  /\ Revoke(o) /\ ~Logged(o)
  /\ log'[o].subject = device[i].user
  /\ \/ changes'[o] = changes[o]
     \/ /\ changes'[o] = changes[o] + 1
        /\ Bound(o) /\ Active(i)
        /\ device' = [device EXCEPT ![i] = Deactivated(i, "REVOKED")]

(* What a step may do to an operation's row of the log and to its effects. *)
LEMMA LogStep ==
  ASSUME TypeOK, Intended, Requested, [Next]_vars, NEW o \in Operations
  PROVE  \/ log'[o] = log[o] /\ changes'[o] = changes[o]
         \/ Purge(o)
         \/ /\ changes'[o] = changes[o]
            /\ \E u \in Users : Withdraw(u)
            /\ log'[o] = Unlogged /\ log[o].subject \in withdrawn'
         \/ \E t \in Threads : Records(t, o)
         \/ RecordsRevoke(o)
<1> DEFINE Kept == log'[o] = log[o] /\ changes'[o] = changes[o]
<1>1. ASSUME NEW t \in Threads, Register(t) \/ Disable(t) PROVE Kept \/ Records(t, o)
  <2>1. task[t] \in Operations /\ Wants(t).user \in Users
    BY <1>1 DEF Register, Disable, At, Busy, Requested, Intended, Wants
  <2>2. CASE task[t] # o
    BY <1>1, <2>1, <2>2 DEF Register, Disable, Log, TypeOK
  <2>3. CASE task[t] = o
    <3>1. CASE Register(t)
      <4>1. Registered(Target(t), Wants(t).user, session[t], Wants(t).token).user = Wants(t).user
        BY DEF Registered
      <4> QED BY <2>1, <2>3, <3>1, <4>1 DEF Register, Records, Collides, Log, TypeOK
    <3>2. CASE Disable(t)
      BY <2>1, <2>3, <3>2 DEF Disable, Records, Log, TypeOK
    <3> QED BY <1>1, <3>1, <3>2
  <2> QED BY <2>2, <2>3
<1>2. ASSUME NEW t \in Threads, Request(t) PROVE Kept \/ Records(t, o)
  <2>1. CASE \E q \in Operations, s \in Sessions : Open(t, q, s)
    BY <2>1 DEF Open, database, history
  <2>2. CASE View(t) \/ Retry(t) \/ Reject(t) \/ Check(t) \/ Compensate(t)
    BY <2>2 DEF View, Retry, Reject, Check, Compensate, database, history
  <2>3. CASE Replay(t) \/ Conflict(t) \/ DenyUnknown(t) \/ Fail(t)
    BY <2>3 DEF Replay, Conflict, DenyUnknown, Fail, database
  <2> QED BY <1>1, <1>2, <2>1, <2>2, <2>3 DEF Request
<1>3. ASSUME NEW q \in Operations, (\E c \in Contents : Intend(q, c)) \/ Expire(q)
      PROVE Kept
  BY <1>3 DEF Intend, Expire, database, history
<1>4. ASSUME NEW q \in Operations, Purge(q) PROVE Kept \/ Purge(o)
  <2>1. CASE q = o
    BY <1>4, <2>1
  <2>2. CASE q # o
    BY <1>4, <2>2 DEF Purge, TypeOK, history
  <2> QED BY <2>1, <2>2
<1>5. ASSUME NEW q \in Operations, Revoke(q) PROVE Kept \/ RecordsRevoke(o)
  <2>1. CASE q # o
    <3>1. log'[o] = log[o]
      BY <1>5, <2>1 DEF Revoke, Log, TypeOK
    <3>2. changes'[o] = changes[o]
      BY <1>5, <2>1 DEF Revoke, TypeOK
    <3> QED BY <3>1, <3>2
  <2>2. CASE q = o
    <3>1. CASE UNCHANGED <<device, log, changes>>
      BY <3>1
    <3>2. CASE ~ UNCHANGED <<device, log, changes>>
      <4>1. /\ ~Logged(o)
            /\ device' = IF Bound(o)
                  THEN [device EXCEPT ![intent[o].installation] =
                          Deactivated(intent[o].installation, "REVOKED")]
                  ELSE device
            /\ changes' = IF Bound(o) /\ Active(intent[o].installation)
                          THEN [changes EXCEPT ![o] = @ + 1] ELSE changes
            /\ Log(o, device[intent[o].installation].user,
                   Result(IF Bound(o) THEN "REVOKED" ELSE "NOT_BOUND", 0, 0))
        BY <1>5, <2>2, <3>2 DEF Revoke
      <4>2. log'[o].subject = device[intent[o].installation].user
        BY <4>1 DEF Log, TypeOK
      <4>3. CASE Bound(o) /\ Active(intent[o].installation)
        BY <1>5, <2>2, <4>1, <4>2, <4>3 DEF RecordsRevoke, TypeOK
      <4>4. CASE ~ (Bound(o) /\ Active(intent[o].installation))
        BY <1>5, <2>2, <4>1, <4>2, <4>4 DEF RecordsRevoke
      <4> QED BY <4>3, <4>4
    <3> QED BY <3>1, <3>2
  <2> QED BY <2>1, <2>2
<1>6. ASSUME NEW i \in Installations, PurgeDevice(i) \/ Refuse(i) PROVE Kept
  BY <1>6 DEF PurgeDevice, Refuse, history
<1>7. ASSUME NEW u \in Users, Withdraw(u)
      PROVE  Kept \/ ( /\ changes'[o] = changes[o]
                       /\ log'[o] = Unlogged /\ log[o].subject \in withdrawn')
  BY <1>7 DEF Withdraw
<1>8. ASSUME NEW u \in Users, RevokeAll(u) PROVE Kept
  BY <1>8 DEF RevokeAll, database, history
<1>9. ASSUME NEW s \in Sessions, Rotate(s) \/ Lapse(s) \/ LogOut(s) \/ Inspect(s) \/ End(s)
                                 \/ GiveUp(s)
      PROVE Kept
  BY <1>9 DEF Rotate, Lapse, LogOut, Inspect, End, GiveUp, database, history
<1>10. ASSUME NEW s \in Sessions, CleanUp(s) PROVE Kept
  BY <1>10 DEF CleanUp
<1>11. CASE UNCHANGED vars
  BY <1>11 DEF vars
<1> QED
  BY <1>2, <1>3, <1>4, <1>5, <1>6, <1>7, <1>8, <1>9, <1>10, <1>11 DEF Next

(* The log's rows belong to operations that were sent; a registration's belongs to the
   account that sent it. *)
LogInv ==
  \A o \in Operations : Logged(o) =>
    /\ intent[o].kind # "NONE"
    /\ intent[o].kind \in {"GRANT", "DENY"} => log[o].subject = intent[o].user

LEMMA RecordsFacts ==
  ASSUME TypeOK, Intended, Requested, Locks, NEW t \in Threads, NEW o \in Operations,
         Records(t, o)
  PROVE  /\ intent[o].kind \in {"GRANT", "DENY"} /\ Wants(t) = intent[o]
         /\ intent[o].user \in Users \ withdrawn /\ o \notin purged
         /\ log'[o].subject = intent[o].user
<1>1. task[t] = o /\ Wants(t) = intent[o] /\ Busy(t)
  BY DEF Records, Wants, At, Busy
<1>2. intent[o].kind \in {"GRANT", "DENY"}
  BY <1>1 DEF Requested
<1> QED BY <1>1, <1>2 DEF Intended, Locks, Records

LEMMA LogInvStep ==
  ASSUME TypeOK, Intended, Requested, Locks, LogInv, [Next]_vars
  PROVE  LogInv'
<1> SUFFICES ASSUME NEW o \in Operations, log'[o].subject # None
             PROVE  /\ intent'[o].kind # "NONE"
                    /\ intent'[o].kind \in {"GRANT", "DENY"} => log'[o].subject = intent'[o].user
  BY DEF LogInv, Logged
<1>1. CASE log'[o] = log[o]
  <2>1. /\ intent[o].kind # "NONE"
        /\ intent[o].kind \in {"GRANT", "DENY"} => log[o].subject = intent[o].user
    BY <1>1 DEF LogInv, Logged
  <2>2. intent'[o] = intent[o]
    BY <2>1, IntentsStand
  <2> QED BY <1>1, <2>1, <2>2
<1>2. CASE Purge(o)
  BY <1>2 DEF Purge, Unlogged, TypeOK
<1>3. CASE log'[o] = Unlogged
  BY <1>3 DEF Unlogged
<1>4. ASSUME NEW t \in Threads, Records(t, o)
      PROVE  intent'[o].kind # "NONE" /\ log'[o].subject = intent'[o].user
  <2>1. intent[o].kind \in {"GRANT", "DENY"} /\ log'[o].subject = intent[o].user
    BY <1>4, RecordsFacts
  <2> QED BY <2>1, IntentsStand
<1>5. CASE RecordsRevoke(o)
  <2>1. intent[o].kind = "REVOKE"
    BY <1>5 DEF RecordsRevoke, Revoke
  <2> QED BY <2>1, IntentsStand
<1> QED BY <1>1, <1>2, <1>3, <1>4, <1>5, LogStep

LEMMA WithdrawnHasNothingStep ==
  ASSUME TypeOK, Intended, Requested, Locks, WithdrawnHasNothing, [Next]_vars
  PROVE  WithdrawnHasNothing'
<1> USE DEF TypeOK
<1>1. ASSUME NEW u \in Users, Withdraw(u) PROVE WithdrawnHasNothing'
  <2>1. \A i \in Installations : device'[i].user \notin withdrawn \cup {u}
    BY <1>1 DEF Withdraw, NoDevice, WithdrawnHasNothing
  <2>2. \A o \in Operations : log'[o].subject \notin withdrawn \cup {u}
    BY <1>1 DEF Withdraw, Unlogged, WithdrawnHasNothing
  <2> QED BY <1>1, <2>1, <2>2 DEF Withdraw, WithdrawnHasNothing
<1>2. ASSUME withdrawn' = withdrawn PROVE WithdrawnHasNothing'
  <2>1. \A i \in Installations : device'[i].user \notin withdrawn
    <3>1. CASE Fades
      BY <3>1 DEF Fades, WithdrawnHasNothing
    <3>2. ASSUME NEW t \in Threads, Register(t)
          PROVE  \A i \in Installations : device'[i].user \notin withdrawn
      <4>1. Wants(t).user \notin withdrawn
        BY <3>2 DEF Register, Locks
      <4>2. device'[Target(t)].user = Wants(t).user
        <5>1. device'[Target(t)] =
                Registered(Target(t), Wants(t).user, session[t], Wants(t).token)
          BY <3>2, RegisterStep
        <5> QED BY <5>1 DEF Registered
      <4>3. \A j \in Installations \ {Target(t)} : device'[j].user = device[j].user
        BY <3>2, RegisterStep
      <4> QED BY <4>1, <4>2, <4>3 DEF WithdrawnHasNothing
    <3> QED BY <3>1, <3>2, DeviceStep
  <2>2. \A o \in Operations : log'[o].subject \notin withdrawn
    <3> TAKE o \in Operations
    <3>1. CASE log'[o] = log[o]
      BY <3>1 DEF WithdrawnHasNothing
    <3>2. CASE Purge(o) \/ log'[o] = Unlogged
      BY <3>2 DEF Purge, Unlogged
    <3>3. ASSUME NEW t \in Threads, Records(t, o) PROVE log'[o].subject \notin withdrawn
      BY <3>3, RecordsFacts
    <3>4. CASE RecordsRevoke(o)
      BY <3>4 DEF RecordsRevoke, Revoke, Intended, WithdrawnHasNothing
    <3> QED BY <3>1, <3>2, <3>3, <3>4, LogStep
  <2> QED BY <1>2, <2>1, <2>2 DEF WithdrawnHasNothing
<1>3. withdrawn' = withdrawn \/ \E u \in Users : Withdraw(u)
  BY WithdrawnStep DEF Purge
<1> QED BY <1>1, <1>2, <1>3

-------------------------------------------------------------------------------
(* What an operation has changed                                             *)

(* An operation that has changed its installation cannot do it again: a registration is in
   the log, or too old, or its account is gone; what a revocation took down is unbound. *)
ChangesInv ==
  \A o \in Operations : changes[o] # 0 =>
    /\ changes[o] = 1
    /\ intent[o].kind # "NONE"
    /\ intent[o].kind \in {"GRANT", "DENY"} =>
         Logged(o) \/ o \in purged \/ intent[o].user \in withdrawn
    /\ intent[o].kind = "REVOKE" =>
         \A i \in Installations : Active(i) => device[i].binding # intent[o].binding

(* A binding that is in use nowhere is never used again. *)
LEMMA BindingsGone ==
  ASSUME TypeOK, Intended, Requested, [Next]_vars, NEW b \in 1 .. bindings,
         \A i \in Installations : Active(i) => device[i].binding # b
  PROVE  \A i \in Installations : device'[i].status = "ACTIVE" => device'[i].binding # b
<1>1. CASE Fades
  BY <1>1 DEF Fades, Active
<1>2. ASSUME NEW t \in Threads, Register(t)
      PROVE \A i \in Installations : device'[i].status = "ACTIVE" => device'[i].binding # b
  <2>1. device'[Target(t)].binding # b
    <3>1. /\ Target(t) \in Installations
          /\ device'[Target(t)].binding = Binding(Target(t), Wants(t).user)
      BY <1>2, RegisterStep, RegisteredOK
    <3>2. bindings \in Nat
      BY DEF TypeOK
    <3> QED BY <3>1, <3>2 DEF Binding
  <2> QED BY <1>2, <2>1, RegisterStep DEF Active
<1> QED BY <1>1, <1>2, DeviceStep

LEMMA Monotone ==
  ASSUME TypeOK, [Next]_vars
  PROVE  withdrawn \subseteq withdrawn' /\ purged \subseteq purged'
BY WithdrawnStep DEF Withdraw, Purge, client

LEMMA ChangesStep ==
  ASSUME TypeOK, Intended, Requested, Addressed, Locks, LogInv, ChangesInv, [Next]_vars
  PROVE  ChangesInv'
<1> SUFFICES ASSUME NEW o \in Operations, changes'[o] # 0
             PROVE  /\ changes'[o] = 1
                    /\ intent'[o].kind # "NONE"
                    /\ intent'[o].kind \in {"GRANT", "DENY"} =>
                         \/ log'[o].subject # None
                         \/ o \in purged'
                         \/ intent'[o].user \in withdrawn'
                    /\ intent'[o].kind = "REVOKE" =>
                         \A i \in Installations :
                           device'[i].status = "ACTIVE" => device'[i].binding # intent'[o].binding
  BY DEF ChangesInv, Logged, Active
<1> DEFINE Over == /\ changes'[o] = 1
                   /\ intent'[o].kind # "NONE"
                   /\ intent'[o].kind \in {"GRANT", "DENY"} =>
                        \/ log'[o].subject # None
                        \/ o \in purged'
                        \/ intent'[o].user \in withdrawn'
                   /\ intent'[o].kind = "REVOKE" =>
                        \A i \in Installations :
                          device'[i].status = "ACTIVE" => device'[i].binding # intent'[o].binding
<1>1. ASSUME changes'[o] = changes[o],
             \/ log'[o].subject = log[o].subject
             \/ o \in purged'
             \/ log[o].subject \in withdrawn'
             \/ log'[o].subject # None
      PROVE  Over
  <2>1. intent[o].kind # "NONE" /\ changes[o] = 1
    BY <1>1 DEF ChangesInv
  <2>2. intent'[o] = intent[o]
    BY <2>1, IntentsStand
  <2>3. intent[o].kind \in {"GRANT", "DENY"} =>
          log'[o].subject # None \/ o \in purged' \/ intent[o].user \in withdrawn'
    BY <1>1, Monotone DEF ChangesInv, LogInv, Logged
  <2>4. ASSUME intent[o].kind = "REVOKE"
        PROVE  \A i \in Installations :
                 device'[i].status = "ACTIVE" => device'[i].binding # intent[o].binding
    <3>1. intent[o].binding \in 1 .. bindings
      BY <2>4 DEF Intended
    <3>2. \A i \in Installations : Active(i) => device[i].binding # intent[o].binding
      BY <1>1, <2>4 DEF ChangesInv
    <3> HIDE DEF ChangesInv
    <3> QED BY <3>1, <3>2, BindingsGone
  <2> QED BY <1>1, <2>1, <2>2, <2>3, <2>4
<1>2. ASSUME NEW t \in Threads, Records(t, o) PROVE Over
  <2>1. /\ intent[o].kind \in {"GRANT", "DENY"} /\ intent[o].user \in Users \ withdrawn
        /\ o \notin purged /\ log'[o].subject = intent[o].user
    BY <1>2, RecordsFacts
  <2>2. changes[o] = 0
    BY <1>2, <2>1 DEF ChangesInv, Records
  <2>3. changes'[o] = 1
    BY <1>2, <2>2 DEF Records
  <2>4. intent'[o] = intent[o]
    BY <2>1, IntentsStand
  <2>5. log'[o].subject # None
    BY <2>1
  <2> QED BY <2>1, <2>3, <2>4, <2>5
<1>3. ASSUME RecordsRevoke(o), changes'[o] # changes[o] PROVE Over
  <2> DEFINE j == intent[o].installation
  <2>1. /\ intent[o].kind = "REVOKE" /\ j \in Installations
        /\ intent[o].binding = device[j].binding /\ device[j].status = "ACTIVE"
        /\ changes'[o] = changes[o] + 1
        /\ device' = [device EXCEPT ![j] = Deactivated(j, "REVOKED")]
    BY <1>3 DEF RecordsRevoke, Revoke, Bound, Active, Intended
  <2>2. changes'[o] = 1
    BY <2>1 DEF ChangesInv, Active
  <2>3. intent'[o] = intent[o]
    BY <2>1, IntentsStand
  <2>4. \A i \in Installations :
          device'[i].status = "ACTIVE" => device'[i].binding # intent[o].binding
    <3>1. device'[j].status # "ACTIVE"
      BY <2>1, DeactivatedOK DEF TypeOK
    <3>2. \A i \in Installations \ {j} : device'[i] = device[i]
      BY <2>1 DEF TypeOK
    <3> QED BY <2>1, <3>1, <3>2 DEF Addressed, Active
  <2> QED BY <2>1, <2>2, <2>3, <2>4
<1>4. ASSUME RecordsRevoke(o) PROVE log'[o].subject # None
  BY <1>4 DEF RecordsRevoke, Revoke, Stands, Intended, TypeOK, WellShaped
<1>5. CASE Purge(o)
  <2>1. o \in purged' /\ changes'[o] = changes[o]
    BY <1>5 DEF Purge, history
  <2> QED BY <1>1, <2>1
<1> QED BY <1>1, <1>2, <1>3, <1>4, <1>5, LogStep

-------------------------------------------------------------------------------
(* What an operation was answered                                            *)

(* The one answer of an operation is the log's while its row is kept, and every
   transaction that might give another sees the installation's row. *)
AnswerInv ==
  /\ \A o \in Operations : Logged(o) => answers[o] # {}
  /\ \A o \in Operations \ orphaned : answers[o] # {} =>
       /\ intent[o].kind # "NONE" /\ Stands(intent[o].installation)
       /\ o \notin purged => Logged(o) /\ answers[o] = {log[o].result}
       /\ \E r \in Results : answers[o] = {r}
       /\ \A t \in Threads : At(t, "viewed") /\ task[t] = o => Target(t) \in seen[t]

LEMMA AnswerInvIsEnough == AnswerInv => SameAnswer
<1> SUFFICES ASSUME AnswerInv, NEW o \in Operations \ orphaned
             PROVE  Cardinality(answers[o]) <= 1
  BY DEF SameAnswer
<1>1. CASE answers[o] = {}
  BY <1>1, FS_EmptySet
<1>2. CASE answers[o] # {}
  <2>1. PICK r \in Results : answers[o] = {r}
    BY <1>2 DEF AnswerInv
  <2>2. Cardinality({r}) = 1
    BY FS_Singleton
  <2>3. Cardinality(answers[o]) = 1
    BY <2>1, <2>2
  <2> QED BY <2>3
<1> QED BY <1>1, <1>2

(* Where an answer may come from. *)
Repeats(t, o) ==
  /\ At(t, "viewed") /\ task[t] = o /\ answers[o] \subseteq answers'[o]
  /\ \/ Replayed(t) /\ answers'[o] = answers[o] \cup {log[o].result}
     \/ ~Replayed(t) /\ answers[o] # {} /\ Conflict(t)
     \/ ~Present(t) /\ answers[o] # {}

RepeatsRevoke(o) ==
  /\ Revoke(o) /\ answers[o] \subseteq answers'[o]
  /\ \/ Logged(o) /\ answers'[o] = answers[o] \cup {log[o].result}
     \/ ~Logged(o) /\ answers[o] # {}

LEMMA AnswerStep ==
  ASSUME TypeOK, Intended, Requested, [Next]_vars, NEW o \in Operations
  PROVE  /\ orphaned \subseteq orphaned'
         /\ \/ /\ answers'[o] = answers[o]
               /\ \/ log'[o] = log[o]
                  \/ log'[o] = Unlogged /\ o \in purged' \cup orphaned'
            \/ /\ log'[o] = log[o] /\ answers[o] \subseteq answers'[o]
               /\ RepeatsRevoke(o) \/ \E t \in Threads : Repeats(t, o)
            \/ /\ answers'[o] = answers[o] \cup {log'[o].result}
               /\ RecordsRevoke(o) \/ \E t \in Threads : Records(t, o)
<1> DEFINE Kept == answers'[o] = answers[o] /\ log'[o] = log[o]
<1>1. ASSUME NEW t \in Threads, Register(t) \/ Disable(t)
      PROVE  \/ Kept
             \/ Records(t, o) /\ answers'[o] = answers[o] \cup {log'[o].result}
  <2>1. task[t] \in Operations /\ Wants(t).user \in Users
    BY <1>1 DEF Register, Disable, At, Busy, Requested, Intended, Wants
  <2>2. CASE task[t] # o
    BY <1>1, <2>1, <2>2 DEF Register, Disable, Log, Answer, TypeOK
  <2>3. CASE task[t] = o
    <3>1. answers'[o] = answers[o] \cup {log'[o].result}
      BY <1>1, <2>1, <2>3 DEF Register, Disable, Log, Answer, TypeOK
    <3>2. CASE Register(t)
      <4>1. Registered(Target(t), Wants(t).user, session[t], Wants(t).token).user = Wants(t).user
        BY DEF Registered
      <4> QED BY <2>1, <2>3, <3>1, <3>2, <4>1 DEF Register, Records, Collides, Log, TypeOK
    <3>3. CASE Disable(t)
      BY <2>1, <2>3, <3>1, <3>3 DEF Disable, Records, Log, TypeOK
    <3> QED BY <1>1, <3>2, <3>3
  <2> QED BY <2>2, <2>3
<1>2. ASSUME NEW t \in Threads, Replay(t) \/ Conflict(t) \/ DenyUnknown(t)
      PROVE  Kept \/ (Repeats(t, o) /\ log'[o] = log[o])
  <2>1. task[t] \in Operations
    BY <1>2 DEF Replay, Conflict, DenyUnknown, At, Busy, Requested
  <2>2. log' = log
    BY <1>2 DEF Replay, Conflict, DenyUnknown, database
  <2>3. CASE task[t] # o
    BY <1>2, <2>1, <2>2, <2>3 DEF Replay, Conflict, DenyUnknown, Answer, AnswerAgain, TypeOK
  <2>4. CASE task[t] = o
    <3>1. CASE Replay(t)
      BY <2>2, <2>4, <3>1 DEF Replay, Answer, Repeats, TypeOK
    <3>2. CASE Conflict(t)
      <4>1. answers' = answers \/ (answers[o] # {} /\ answers[o] \subseteq answers'[o])
        BY <2>1, <2>4, <3>2 DEF Conflict, Answer, AnswerAgain, TypeOK
      <4>2. At(t, "viewed") /\ ~Replayed(t)
        BY <3>2 DEF Conflict
      <4> QED BY <2>2, <2>4, <3>2, <4>1, <4>2 DEF Repeats
    <3>3. CASE DenyUnknown(t)
      <4>1. answers' = answers \/ (answers[o] # {} /\ answers[o] \subseteq answers'[o])
        BY <2>1, <2>4, <3>3 DEF DenyUnknown, Answer, AnswerAgain, TypeOK
      <4>2. At(t, "viewed") /\ ~Present(t)
        BY <3>3 DEF DenyUnknown
      <4> QED BY <2>2, <2>4, <4>1, <4>2 DEF Repeats
    <3> QED BY <1>2, <3>1, <3>2, <3>3
  <2> QED BY <2>3, <2>4
<1>3. ASSUME NEW t \in Threads, Request(t)
      PROVE  /\ orphaned' = orphaned
             /\ \/ Kept
                \/ Repeats(t, o) /\ log'[o] = log[o]
                \/ Records(t, o) /\ answers'[o] = answers[o] \cup {log'[o].result}
  <2>1. CASE \E q \in Operations, s \in Sessions : Open(t, q, s)
    BY <2>1 DEF Open, database, history
  <2>2. CASE View(t) \/ Retry(t) \/ Reject(t) \/ Check(t) \/ Compensate(t)
    BY <2>2 DEF View, Retry, Reject, Check, Compensate, database, history
  <2>3. CASE Fail(t)
    BY <2>3 DEF Fail, database
  <2>4. CASE Replay(t) \/ Conflict(t) \/ DenyUnknown(t)
    <3>1. orphaned' = orphaned
      BY <2>4 DEF Replay, Conflict, DenyUnknown
    <3> QED BY <1>2, <2>4, <3>1
  <2>5. CASE Register(t) \/ Disable(t)
    <3>1. orphaned' = orphaned
      BY <2>5 DEF Register, Disable
    <3> QED BY <1>1, <2>5, <3>1
  <2> QED BY <1>3, <2>1, <2>2, <2>3, <2>4, <2>5 DEF Request
<1>4. ASSUME NEW q \in Operations, (\E c \in Contents : Intend(q, c)) \/ Expire(q)
      PROVE Kept /\ orphaned' = orphaned
  BY <1>4 DEF Intend, Expire, database, history
<1>5. ASSUME NEW q \in Operations, Purge(q)
      PROVE  /\ answers' = answers /\ orphaned' = orphaned
             /\ log'[o] = log[o] \/ (log'[o] = Unlogged /\ o \in purged')
  BY <1>5 DEF Purge, history, TypeOK
<1>6. ASSUME NEW q \in Operations, Revoke(q)
      PROVE  /\ orphaned' = orphaned
             /\ \/ Kept
                \/ RepeatsRevoke(o) /\ log'[o] = log[o]
                \/ RecordsRevoke(o) /\ answers'[o] = answers[o] \cup {log'[o].result}
  <2>1. orphaned' = orphaned
    BY <1>6 DEF Revoke
  <2>2. CASE q # o
    BY <1>6, <2>1, <2>2 DEF Revoke, Log, Answer, AnswerAgain, TypeOK
  <2>3. CASE q = o
    <3>1. CASE Logged(o)
      BY <1>6, <2>1, <2>3, <3>1 DEF Revoke, Answer, RepeatsRevoke, TypeOK
    <3>2. CASE ~Logged(o) /\ AnswerAgain(o, Refusal) /\ UNCHANGED log
      BY <1>6, <2>1, <2>3, <3>2 DEF Answer, AnswerAgain, RepeatsRevoke, TypeOK
    <3>3. CASE ~Logged(o) /\ ~(AnswerAgain(o, Refusal) /\ UNCHANGED log)
      <4>1. /\ device' = IF Bound(o)
                  THEN [device EXCEPT ![intent[o].installation] =
                          Deactivated(intent[o].installation, "REVOKED")]
                  ELSE device
            /\ changes' = IF Bound(o) /\ Active(intent[o].installation)
                          THEN [changes EXCEPT ![o] = @ + 1] ELSE changes
            /\ Log(o, device[intent[o].installation].user,
                   Result(IF Bound(o) THEN "REVOKED" ELSE "NOT_BOUND", 0, 0))
        BY <1>6, <2>3, <3>3 DEF Revoke
      <4>2. /\ log'[o].subject = device[intent[o].installation].user
            /\ answers'[o] = answers[o] \cup {log'[o].result}
        BY <4>1 DEF Log, Answer, TypeOK
      <4>3. RecordsRevoke(o)
        <5>1. CASE Bound(o) /\ Active(intent[o].installation)
          BY <1>6, <2>3, <3>3, <4>1, <4>2, <5>1 DEF RecordsRevoke, TypeOK
        <5>2. CASE ~ (Bound(o) /\ Active(intent[o].installation))
          BY <1>6, <2>3, <3>3, <4>1, <4>2, <5>2 DEF RecordsRevoke
        <5> QED BY <5>1, <5>2
      <4> QED BY <2>1, <4>2, <4>3
    <3> QED BY <3>1, <3>2, <3>3
  <2> QED BY <2>2, <2>3
<1>7. ASSUME NEW i \in Installations, PurgeDevice(i) \/ Refuse(i)
      PROVE Kept /\ orphaned \subseteq orphaned'
  BY <1>7 DEF PurgeDevice, Refuse, history
<1>8. ASSUME NEW u \in Users, Withdraw(u)
      PROVE  /\ answers' = answers /\ orphaned \subseteq orphaned'
             /\ log'[o] = log[o] \/ (log'[o] = Unlogged /\ o \in orphaned')
  BY <1>8 DEF Withdraw
<1>9. ASSUME NEW u \in Users, RevokeAll(u) PROVE Kept /\ orphaned' = orphaned
  BY <1>9 DEF RevokeAll, database, history
<1>10. ASSUME NEW s \in Sessions, Rotate(s) \/ Lapse(s) \/ LogOut(s) \/ Inspect(s) \/ End(s)
                                  \/ GiveUp(s)
       PROVE Kept /\ orphaned' = orphaned
  BY <1>10 DEF Rotate, Lapse, LogOut, Inspect, End, GiveUp, database, history
<1>11. ASSUME NEW s \in Sessions, CleanUp(s) PROVE Kept /\ orphaned' = orphaned
  BY <1>11 DEF CleanUp
<1>12. CASE UNCHANGED vars
  BY <1>12 DEF vars
<1>13. CASE \E t \in Threads : Request(t)
  <2>1. PICK t \in Threads : Request(t)
    BY <1>13
  <2>2. orphaned \subseteq orphaned'
    BY <1>3, <2>1
  <2>3. CASE Kept
    BY <2>2, <2>3
  <2>4. CASE Repeats(t, o) /\ log'[o] = log[o]
    <3>1. answers[o] \subseteq answers'[o]
      BY <2>4 DEF Repeats
    <3> QED BY <2>2, <2>4, <3>1
  <2>5. CASE Records(t, o) /\ answers'[o] = answers[o] \cup {log'[o].result}
    BY <2>2, <2>5
  <2> QED BY <1>3, <2>1, <2>3, <2>4, <2>5
<1>14. CASE \E q \in Operations :
              (\E c \in Contents : Intend(q, c)) \/ Expire(q) \/ Purge(q) \/ Revoke(q)
  <2>1. PICK q \in Operations :
          (\E c \in Contents : Intend(q, c)) \/ Expire(q) \/ Purge(q) \/ Revoke(q)
    BY <1>14
  <2>2. CASE (\E c \in Contents : Intend(q, c)) \/ Expire(q)
    BY <1>4, <2>2
  <2>3. CASE Purge(q)
    BY <1>5, <2>3
  <2>4. CASE Revoke(q)
    <3>1. orphaned \subseteq orphaned'
      BY <1>6, <2>4
    <3>2. CASE RepeatsRevoke(o) /\ log'[o] = log[o]
      <4>1. answers[o] \subseteq answers'[o]
        BY <3>2 DEF RepeatsRevoke
      <4> QED BY <3>1, <3>2, <4>1
    <3> QED BY <1>6, <2>4, <3>1, <3>2
  <2> QED BY <2>1, <2>2, <2>3, <2>4
<1>15. CASE \E i \in Installations : PurgeDevice(i) \/ Refuse(i)
  BY <1>7, <1>15
<1>16. CASE \E u \in Users : Withdraw(u) \/ RevokeAll(u)
  BY <1>8, <1>9, <1>16
<1>17. CASE \E s \in Sessions : Rotate(s) \/ Lapse(s) \/ LogOut(s) \/ Inspect(s) \/ End(s)
                                 \/ CleanUp(s) \/ GiveUp(s)
  BY <1>10, <1>11, <1>17
<1> QED BY <1>12, <1>13, <1>14, <1>15, <1>16, <1>17 DEF Next

LEMMA AnswerInvStep ==
  ASSUME TypeOK, Intended, Requested, Locks, LogInv, AnswerInv, TypeOK', [Next]_vars
  PROVE  AnswerInv'
<1>0. ASSUME NEW o \in Operations, log'[o].subject # None PROVE answers'[o] # {}
  BY <1>0, AnswerStep, SMTT(30) DEF AnswerInv, Logged, Unlogged
<1> SUFFICES ASSUME NEW o \in Operations, o \notin orphaned', answers'[o] # {}
             PROVE  /\ intent'[o].kind # "NONE"
                    /\ device'[intent'[o].installation].status # "ABSENT"
                    /\ o \notin purged' =>
                         log'[o].subject # None /\ answers'[o] = {log'[o].result}
                    /\ \E r \in Results : answers'[o] = {r}
                    /\ \A t \in Threads : stage'[t] = "viewed" /\ task'[t] = o =>
                         intent'[o].installation \in seen'[t]
  BY <1>0 DEF AnswerInv, Stands, Logged, At, Target, Wants
<1>1. o \notin orphaned
  BY AnswerStep
(* A transaction that could answer differently would have to miss the row. *)
<1>2. ASSUME answers[o] # {}
      PROVE  /\ ~ RepeatsRevoke(o) \/ answers'[o] = answers[o]
             /\ \A t \in Threads : Repeats(t, o) => answers'[o] = answers[o]
             /\ ~ RecordsRevoke(o) /\ ~ \E t \in Threads : Records(t, o)
  <2>1. o \notin purged => Logged(o) /\ answers[o] = {log[o].result}
    BY <1>1, <1>2 DEF AnswerInv
  <2>2. Revoke(o) => o \notin purged
    BY DEF Revoke, Fresh, TypeOK
  <2>3. \A t \in Threads : At(t, "viewed") /\ task[t] = o =>
          o \notin purged /\ Present(t) /\ Replayed(t)
    <3> TAKE t \in Threads
    <3> HAVE At(t, "viewed") /\ task[t] = o
    <3>1. o \notin purged
      BY DEF Locks
    <3>2. Target(t) = intent[o].installation
      BY DEF Target, Wants
    <3>3. Stands(Target(t)) /\ Target(t) \in seen[t]
      BY <1>1, <1>2, <3>2 DEF AnswerInv
    <3> QED BY <2>1, <3>1, <3>3 DEF Present, Replayed
  <2>4. ~ RepeatsRevoke(o) \/ answers'[o] = answers[o]
    BY <2>1, <2>2 DEF RepeatsRevoke
  <2>5. ASSUME NEW t \in Threads, Repeats(t, o) PROVE answers'[o] = answers[o]
    BY <2>1, <2>3, <2>5 DEF Repeats
  <2>6. ~ RecordsRevoke(o)
    BY <2>1, <2>2 DEF RecordsRevoke
  <2>7. ASSUME NEW t \in Threads, Records(t, o) PROVE FALSE
    BY <2>1, <2>3, <2>7 DEF Records
  <2> QED BY <2>4, <2>5, <2>6, <2>7
(* No repetition answers what was not answered before, short of a row of the log. *)
<1>3. ASSUME answers[o] # {}
      PROVE  /\ answers'[o] = answers[o] /\ intent'[o] = intent[o]
             /\ log'[o] = log[o] \/ o \in purged'
             /\ intent[o].kind # "NONE" /\ Stands(intent[o].installation)
  <2>1. intent[o].kind # "NONE" /\ Stands(intent[o].installation)
    BY <1>1, <1>3 DEF AnswerInv
  <2>2. intent'[o] = intent[o]
    BY <2>1, IntentsStand
  <2> QED BY <1>2, <1>3, <2>1, <2>2, AnswerStep
<1>4. ASSUME answers[o] # {}
      PROVE  /\ device'[intent[o].installation].status # "ABSENT"
             /\ \A t \in Threads : stage'[t] = "viewed" /\ task'[t] = o =>
                  intent[o].installation \in seen'[t]
  <2> DEFINE i == intent[o].installation
  <2>1. i \in Installations /\ Stands(i)
    BY <1>3, <1>4 DEF Intended
  <2>2. device'[i].status # "ABSENT"
    <3>1. CASE Fades
      <4>1. o \in LoggedAt({i})
        BY <1>4 DEF LoggedAt
      <4> QED BY <2>1, <3>1, <4>1 DEF Fades
    <3>2. ASSUME NEW t \in Threads, Register(t) PROVE device'[i].status # "ABSENT"
      <4>1. CASE i = Target(t)
        BY <3>2, <4>1, RegisterStep, RegisteredOK
      <4>2. CASE i # Target(t) /\ i \notin Holders(t)
        BY <2>1, <3>2, <4>2, RegisterStep DEF Stands
      <4>3. CASE i # Target(t) /\ i \in Holders(t)
        <5>1. device'[i] = Deactivated(i, "REVOKED")
          BY <2>1, <3>2, <4>3 DEF Register
        <5> QED BY <2>1, <5>1, DeactivatedOK
      <4> QED BY <4>1, <4>2, <4>3
    <3> QED BY <3>1, <3>2, DeviceStep
  <2>3. ASSUME NEW t \in Threads, stage'[t] = "viewed", task'[t] = o
        PROVE  i \in seen'[t]
    <3>1. CASE View(t)
      <4>1. task[t] = o
        BY <2>3, <3>1 DEF View
      <4> QED BY <2>1, <3>1, <4>1 DEF View, Target, Wants, TypeOK
    <3>2. CASE stage'[t] = stage[t] /\ task'[t] = task[t] /\ seen'[t] = seen[t]
      BY <1>1, <1>4, <2>3, <3>2 DEF AnswerInv, At, Target, Wants
    <3>3. CASE \E q \in Operations, s \in Sessions : Open(t, q, s)
      BY <2>3, <3>3 DEF Open, TypeOK
    <3> QED BY <2>3, <3>1, <3>2, <3>3, ThreadStep
  <2> QED BY <2>2, <2>3
<1>5. CASE answers[o] # {}
  <2>1. o \notin purged' => o \notin purged
    BY Monotone
  <2>2. /\ o \notin purged => log[o].subject # None /\ answers[o] = {log[o].result}
        /\ \E r \in Results : answers[o] = {r}
    BY <1>1, <1>5 DEF AnswerInv, Logged
  <2> QED BY <1>3, <1>4, <1>5, <2>1, <2>2
<1>6. ASSUME answers[o] = {}, answers'[o] = {log'[o].result},
             RecordsRevoke(o) \/ \E t \in Threads : Records(t, o)
      PROVE  /\ intent[o].kind # "NONE" /\ intent'[o] = intent[o]
             /\ log'[o].subject # None
             /\ device'[intent[o].installation].status # "ABSENT"
             /\ \A t \in Threads : stage'[t] = "viewed" /\ task'[t] = o =>
                  intent[o].installation \in seen'[t]
  <2> DEFINE i == intent[o].installation
  <2>1. CASE RecordsRevoke(o)
    <3>1. intent[o].kind = "REVOKE" /\ Stands(i) /\ i \in Installations
      BY <2>1 DEF RecordsRevoke, Revoke, Intended
    <3>2. intent'[o] = intent[o]
      BY <3>1, IntentsStand
    <3>3. log'[o].subject # None
      BY <2>1, <3>1 DEF RecordsRevoke, Stands, TypeOK, WellShaped
    <3>4. device'[i].status # "ABSENT"
      <4>1. UNCHANGED device \/ device' = [device EXCEPT ![i] = Deactivated(i, "REVOKED")]
        BY <2>1 DEF RecordsRevoke, Revoke
      <4> QED BY <3>1, <4>1, DeactivatedOK DEF Stands, TypeOK
    <3>5. ASSUME NEW t \in Threads, stage'[t] = "viewed", task'[t] = o PROVE FALSE
      <4>1. stage[t] = "viewed" /\ task[t] = o
        BY <2>1, <3>5 DEF RecordsRevoke, Revoke, thread
      <4> QED BY <3>1, <4>1 DEF Requested, Busy, Wants
    <3> QED BY <3>1, <3>2, <3>3, <3>4, <3>5
  <2>2. ASSUME NEW t \in Threads, Records(t, o)
        PROVE  /\ intent[o].kind # "NONE" /\ intent'[o] = intent[o]
               /\ log'[o].subject # None
               /\ device'[intent[o].installation].status # "ABSENT"
               /\ \A r \in Threads : stage'[r] = "viewed" /\ task'[r] = o =>
                    intent[o].installation \in seen'[r]
    <3>1. /\ intent[o].kind \in {"GRANT", "DENY"} /\ Wants(t) = intent[o]
          /\ log'[o].subject = intent[o].user /\ intent[o].user \in Users
      BY <2>2, RecordsFacts
    <3>2. intent'[o] = intent[o] /\ i = Target(t) /\ i \in Installations
      BY <3>1, IntentsStand DEF Target, Intended
    <3>3. device'[i].status # "ABSENT"
      <4>1. CASE Register(t)
        BY <3>2, <4>1, RegisterStep, RegisteredOK
      <4>2. CASE Disable(t)
        <5>1. Stands(i) /\ device' = [device EXCEPT ![i] = Deactivated(i, "DISABLED")]
          BY <3>2, <4>2 DEF Disable, Present
        <5> QED BY <3>2, <5>1, DeactivatedOK DEF TypeOK
      <4> QED BY <2>2, <4>1, <4>2 DEF Records
    <3>4. ASSUME NEW r \in Threads, stage'[r] = "viewed", task'[r] = o PROVE FALSE
      <4>1. stage'[t] = "committed" /\ (r # t => stage'[r] = stage[r] /\ task'[r] = task[r])
        BY <2>2 DEF Records, Register, Disable, Commit, TypeOK
      <4>2. At(r, "viewed") /\ Wants(r) = Wants(t) /\ r # t
        BY <2>2, <3>4, <4>1 DEF At, Wants, Records
      <4> QED BY <2>2, <4>2 DEF Locks, Records
    <3> QED BY <3>1, <3>2, <3>3, <3>4
  <2> QED BY <1>6, <2>1, <2>2
<1>7. CASE answers[o] = {}
  <2>1. ~ RepeatsRevoke(o) /\ ~ Logged(o)
    BY <1>7 DEF RepeatsRevoke, AnswerInv
  <2>2. ASSUME NEW t \in Threads, Repeats(t, o) PROVE answers'[o] = {}
    BY <1>7, <2>1, <2>2 DEF Repeats, Replayed
  <2>3. /\ answers'[o] = answers[o] \cup {log'[o].result}
        /\ RecordsRevoke(o) \/ \E t \in Threads : Records(t, o)
    BY <1>7, <2>1, <2>2, AnswerStep
  <2>4. answers'[o] = {log'[o].result} /\ log'[o].result \in Results
    BY <1>7, <2>3 DEF TypeOK
  <2> QED BY <1>6, <1>7, <2>3, <2>4
<1> QED BY <1>5, <1>7

-------------------------------------------------------------------------------
(* The inductive invariant and the theorems                                  *)

IInv ==
  /\ TypeOK
  /\ Intended /\ Requested
  /\ Addressed /\ Named /\ AddressIsUnique /\ TokenIsUnique
  /\ SessionInv
  /\ Locks /\ WithdrawnHasNothing
  /\ LogInv /\ ChangesInv /\ AnswerInv

LEMMA InitIInv == Init => IInv
<1> SUFFICES ASSUME Init PROVE IInv
  OBVIOUS
<1> USE DEF Init
<1>1. TypeOK
  BY NoDeviceOK, UnloggedOK
  DEF TypeOK, RowOK, Logs, Intents, NoIntent
<1>2. Intended /\ Requested
  BY DEF Intended, Requested, NoIntent, Busy
<1>3. Addressed /\ Named /\ AddressIsUnique /\ TokenIsUnique
  BY DEF Addressed, Named, AddressIsUnique, TokenIsUnique, Active, NoDevice
<1>4. SessionInv
  BY DEF SessionInv, LoggedOutIsSilent
<1>5. Locks /\ WithdrawnHasNothing
  BY DEF Locks, At, WithdrawnHasNothing
<1>6. LogInv /\ ChangesInv /\ AnswerInv
  BY DEF LogInv, ChangesInv, AnswerInv, Logged, Unlogged
<1> QED BY <1>1, <1>2, <1>3, <1>4, <1>5, <1>6 DEF IInv

LEMMA NextIInv == IInv /\ [Next]_vars => IInv'
<1> SUFFICES ASSUME IInv, [Next]_vars PROVE IInv'
  OBVIOUS
<1> USE DEF IInv
<1>1. TypeOK' BY TypeStep
<1>2. Intended' BY <1>1, IntendedStep
<1>3. Requested' BY RequestedStep
<1>4. Addressed' /\ AddressIsUnique' BY AddressedStep
<1>5. TokenIsUnique' BY TokenStep
<1>6. SessionInv' BY <1>1, SilenceStep
<1>7. Locks' BY LocksStep
<1>8. WithdrawnHasNothing' BY WithdrawnHasNothingStep
<1>9. LogInv' BY LogInvStep
<1>10. ChangesInv' BY ChangesStep
<1>11. AnswerInv' BY <1>1, AnswerInvStep
<1>12. Named' BY NamedStep
<1> QED
  BY <1>1, <1>2, <1>3, <1>4, <1>5, <1>6, <1>7, <1>8, <1>9, <1>10, <1>11, <1>12

(* The invariant on which the theorems below rest holds of every behaviour. *)
THEOREM Invariance == Spec => []IInv
BY InitIInv, NextIInv, PTL DEF Spec

(* Every state is well-typed and every row has the shape V12 demands. *)
THEOREM TypeCorrect == Spec => []TypeOK
<1>1. IInv => TypeOK
  BY DEF IInv
<1> QED BY <1>1, Invariance, PTL

(* The pair of binding and token version a delivery keeps stands for one account and one
   token for ever (PushDevice.register). *)
THEOREM AddressesAreUnique == Spec => []AddressIsUnique
<1>1. IInv => AddressIsUnique
  BY DEF IInv
<1> QED BY <1>1, Invariance, PTL

(* No two ACTIVE installations hold a token (PushDeviceTransaction.register). *)
THEOREM TokensAreUnique == Spec => []TokenIsUnique
<1>1. IInv => TokenIsUnique
  BY DEF IInv
<1> QED BY <1>1, Invariance, PTL

(* After a logout's cleanup no installation stays bound to its session, but for one that a
   registration is about to take back (PushDeviceService.register). *)
THEOREM LogoutSilences == Spec => []LoggedOutIsSilent
<1>1. IInv => LoggedOutIsSilent
  BY DEF IInv, SessionInv
<1> QED BY <1>1, Invariance, PTL

(* A withdrawn account leaves no push row (PushDeviceLifecycleService.deleteForUser). *)
THEOREM WithdrawalLeavesNothing == Spec => []WithdrawnHasNothing
<1>1. IInv => WithdrawnHasNothing
  BY DEF IInv
<1> QED BY <1>1, Invariance, PTL

(* However often an operation is sent, it changes its installation once
   (PushDeviceTransaction.register, revoke). *)
THEOREM ChangesOnce == Spec => []OnceOnly
<1>1. IInv => OnceOnly
  BY DEF IInv, ChangesInv, OnceOnly, TypeOK
<1> QED BY <1>1, Invariance, PTL

(* Sent again, an operation gets the answer it got while its installation's row and its
   account stand (PushDeviceTransaction.register, revoke). *)
THEOREM AnswersTheSame == Spec => []SameAnswer
<1>1. IInv => SameAnswer
  BY AnswerInvIsEnough DEF IInv
<1> QED BY <1>1, Invariance, PTL

(* A registration touches other installations only of its own account
   (PushDeviceTransaction.moveTokenIfAllowed). *)
THEOREM RegistersItsOwn == Spec => KeepsToItsUser
<1>1. ASSUME IInv, [Next]_vars
      PROVE  [\A t \in Threads : Register(t) =>
                \A j \in Installations \ {Target(t)} :
                  device'[j] # device[j] => device[j].user = Wants(t).user]_vars
  <2> SUFFICES ASSUME NEW t \in Threads, Register(t), NEW j \in Installations \ {Target(t)},
                      device'[j] # device[j]
               PROVE  device[j].user = Wants(t).user
    OBVIOUS
  <2>1. TypeOK /\ Intended /\ Requested
    BY <1>1 DEF IInv
  <2>2. IF j \in Holders(t)
        THEN device'[j].status # "ACTIVE" /\ device'[j].user = device[j].user
        ELSE device'[j] = device[j]
    BY <2>1, RegisterStep
  <2> QED BY <2>2 DEF Register, Taken
<1> QED BY <1>1, Invariance, PTL DEF Spec, KeepsToItsUser

(* A revocation takes down only what its own account registered
   (PushDeviceTransaction.revoke). *)
THEOREM RevokesItsOwn == Spec => LateRevokeIsIdle
<1>1. ASSUME IInv, [Next]_vars
      PROVE  [\A o \in Operations : Revoke(o) =>
                \A i \in Installations :
                  device'[i] # device[i] => device[i].user = intent[o].user]_vars
  <2> SUFFICES ASSUME NEW o \in Operations, Revoke(o), NEW i \in Installations,
                      device'[i] # device[i]
               PROVE  device[i].user = intent[o].user
    OBVIOUS
  <2>1. /\ intent[o].kind = "REVOKE" /\ Bound(o)
        /\ device' = [device EXCEPT ![intent[o].installation] =
                        Deactivated(intent[o].installation, "REVOKED")]
    BY DEF Revoke
  <2>2. i = intent[o].installation
    BY <1>1, <2>1 DEF IInv, TypeOK
  <2>3. device[i].binding = intent[o].binding /\ Active(i)
    BY <2>1, <2>2 DEF Bound, Deactivated
  <2>4. [binding |-> device[i].binding, version |-> device[i].version,
         user |-> device[i].user, token |-> device[i].token] \in issued
    BY <1>1, <2>3 DEF IInv, Addressed
  <2> QED BY <1>1, <2>1, <2>3, <2>4 DEF IInv, Named
<1> QED BY <1>1, Invariance, PTL DEF Spec, LateRevokeIsIdle

-------------------------------------------------------------------------------
(* The questions of the runs, for every value of the constants               *)

(* Rows keep their shape, a token is in one installation, an address means one account
   and one token for ever. *)
THEOREM RowsAreAlwaysSound == Spec => []RowsAreSound
<1> QED BY TypeCorrect, TokensAreUnique, AddressesAreUnique, PTL DEF RowsAreSound

(* Neither a session that logged out nor an account that withdrew keeps anything. *)
THEOREM EndedStaysSilent == Spec => []EndedIsSilent
<1> QED BY LogoutSilences, WithdrawalLeavesNothing, PTL DEF EndedIsSilent

(* An operation is done once and answered alike. *)
THEOREM OperationsAreDoneOnce == Spec => []DoneOnce
<1> QED BY ChangesOnce, AnswersTheSame, PTL DEF DoneOnce

(* No request changes what belongs to another account, however late it is. *)
THEOREM RequestsKeepToTheirs == Spec => ChangesOnlyItsOwn
<1> QED BY RegistersItsOwn, RevokesItsOwn DEF ChangesOnlyItsOwn
=============================================================================
