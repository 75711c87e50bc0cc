--------------------------- MODULE PhoneShell_proofs ---------------------------
(***************************************************************************)
(* What the run PhoneShell checks of the phone shell, proved.              *)
(*                                                                         *)
(* Of the shell around the web client, for every number of navigations,    *)
(* failures and acts: a session of the bridge never spans two documents.   *)
(* The argument follows a document's number.  Every document's start is    *)
(* reported before anything that it posts, and the starts are reported in  *)
(* the order of the numbers.  A nonce reaches only its session's document  *)
(* and later ones; whoever posts under the present session's nonce is      *)
(* therefore the latest document whose start was handled: the session's.   *)
(*                                                                         *)
(* Of the opened notifications, for every set of accounts and of           *)
(* notifications and every number of events: an opened notification        *)
(* reaches only its owner's page, and none is lost without a reason.  The  *)
(* argument follows the storage operations still queued: what each of them *)
(* will do to the pending opens is bounded by what stands behind it.       *)
(***************************************************************************)
EXTENDS PushOpen, WebShell, FiniteSetTheorems, WellFoundedInduction, TLAPS

(***************************************************************************)
(* The inductive invariant.                                                *)
(***************************************************************************)
Start == [kind : {"start"}, doc : Nat, url : Internal]
Report == [kind : {"load", "error", "httpError", "moved"}, url : Internal]
Gone == [kind : {"gone"}]
ReadyCall == [kind : {"WEB_READY"}, nonce : Nat, doc : Nat, call : Nat \X Nat]
StateTold == [kind : {"AUTH_STATE"}, nonce : Nat, doc : Nat, session : Nat, epoch : Nat]
Event == Start \cup Report \cup Gone \cup ReadyCall \cup StateTold

BridgeSent == [kind : {"bridge"}, nonce : Nat]
HelloSent == [kind : {"HELLO"}, nonce : Nat, session : Nat, replyTo : Nat \X Nat]
FeatureSent == [kind : {"feature"}, nonce : Nat, session : Nat, epoch : Nat]
ReplaceSent == [kind : {"replace"}, nonce : Nat, url : Internal]
Script == BridgeSent \cup HelloSent \cup FeatureSent \cup ReplaceSent

(* The shell: its session is the number of the documents it was told of.   *)
ShellInv ==
  /\ DOMAIN shell = {"state", "session", "issued", "enabled", "connected", "accepted", "loadFailed",
                     "documentVisible", "pendingUrl", "visibleUrl", "failedUrl", "documentUrl"}
  /\ shell.state \in {"loading", "ready", "load-error", "renderer-error"}
  /\ shell.issued \in Seq(Nat)
  /\ shell.session = IF Len(shell.issued) = 0 THEN 1 ELSE Len(shell.issued)
  /\ shell.connected \in {0, shell.session}
  /\ shell.pendingUrl \in Internal /\ shell.visibleUrl \in Internal /\ shell.documentUrl \in Internal
  /\ shell.failedUrl \in Internal \cup {Missing}
  /\ shell.enabled \/ shell.connected # 0 => shell.state = "ready" /\ ~shell.loadFailed
  /\ shell.accepted # Missing =>
       Len(shell.issued) # 0 /\ shell.accepted.doc = shell.issued[shell.session]

(* What the shell was told of a start, or has yet to handle before the     *)
(* event at n.                                                             *)
StartAt(j) == inbox[j].kind = "start"
Issued(d) == \E m \in DOMAIN shell.issued : shell.issued[m] = d
StartedBefore(d, n) == Issued(d) \/ \E j \in DOMAIN inbox : j < n /\ StartAt(j) /\ inbox[j].doc = d
Started(d) == StartedBefore(d, Len(inbox) + 1)

(* A nonce reaches the session's document and later ones only.             *)
NotBefore(nonce, d) == nonce \in DOMAIN shell.issued => shell.issued[nonce] <= d

IssuedInOrder ==
  \A m, n \in DOMAIN shell.issued : m < n => shell.issued[m] < shell.issued[n]
StartsInOrder ==
  \A i \in DOMAIN inbox : StartAt(i) =>
    /\ inbox[i].doc <= coming.doc
    /\ \A m \in DOMAIN shell.issued : shell.issued[m] < inbox[i].doc
    /\ \A j \in DOMAIN inbox : j < i /\ StartAt(j) => inbox[j].doc < inbox[i].doc

(* Until the first start is handled, it is what the shell handles next.    *)
FirstStart ==
  Len(shell.issued) = 0 => Len(inbox) # 0 /\ StartAt(1) /\ shell.state = "loading"

(* A call under a nonce; a state told in a session.                        *)
CallsAreOwn ==
  \A i \in DOMAIN inbox : inbox[i].kind = "WEB_READY" =>
    /\ StartedBefore(inbox[i].doc, i) /\ inbox[i].call[1] = inbox[i].doc
    /\ NotBefore(inbox[i].nonce, inbox[i].doc) /\ inbox[i].nonce <= shell.session
SessionOf(session, d) == session \in DOMAIN shell.issued /\ shell.issued[session] = d
StatesAreOwn ==
  \A i \in DOMAIN inbox : inbox[i].kind = "AUTH_STATE" => SessionOf(inbox[i].session, inbox[i].doc)

(* A load is reported of a document that is no older than those started    *)
(* before the report.                                                      *)
LoadsAreLate ==
  \A i \in DOMAIN inbox : inbox[i].kind = "load" =>
    /\ \A m \in DOMAIN shell.issued : shell.issued[m] <= view.doc
    /\ \A j \in DOMAIN inbox : j < i /\ StartAt(j) => inbox[j].doc <= view.doc

ComingInv ==
  /\ DOMAIN coming = {"doc", "url"}
  /\ coming.doc \in Nat \ {0} /\ coming.url \in Internal \cup {Missing}
  /\ Started(coming.doc)
  /\ \A m \in DOMAIN shell.issued : shell.issued[m] <= coming.doc

(* A page that may be in the WebView now: what is its own, and its load.   *)
PageOwn(p) ==
  /\ DOMAIN p = {"doc", "url", "nonce", "loaded", "broken", "booted", "ready", "tries", "armed",
                 "selected", "epoch", "told"}
  /\ p.doc \in Nat /\ p.nonce \in Nat /\ p.ready \in Nat /\ p.tries \in 0..3
  /\ p.selected \in Nat /\ p.epoch \in Nat
  /\ p.nonce <= shell.session /\ NotBefore(p.nonce, p.doc)
  /\ p.doc <= coming.doc
  /\ p.doc # 0 => Started(p.doc)
  /\ p.nonce # 0 \/ p.armed \/ p.booted => p.doc # 0
  /\ p.selected # 0 => SessionOf(p.selected, p.doc)
PageLoads(p) ==
  p.doc # 0 /\ ~p.loaded => p.url \in Internal /\ (~Loading => p.doc = coming.doc)
ViewInv == PageOwn(view) /\ PageLoads(view)

(* The scripts under way: a bridge script for no earlier document than its *)
(* session's, a greeting for the session's document.                       *)
ScriptsAreOwn ==
  \A i \in DOMAIN scripts :
    /\ scripts[i].kind = "bridge" =>
         scripts[i].nonce \in DOMAIN shell.issued /\ shell.issued[scripts[i].nonce] <= view.doc
    /\ scripts[i].kind = "HELLO" => SessionOf(scripts[i].session, scripts[i].replyTo[1])

Typed == inbox \in Seq(Event) /\ scripts \in Seq(Script)

BridgeInv ==
  /\ Typed /\ ShellInv /\ ComingInv /\ ViewInv
  /\ IssuedInOrder /\ StartsInOrder /\ FirstStart
  /\ CallsAreOwn /\ StatesAreOwn /\ LoadsAreLate /\ ScriptsAreOwn

(***************************************************************************)
(* Kinds of events and of scripts, and sequences.                          *)
(***************************************************************************)
LEMMA EventFields ==
  ASSUME NEW e \in Event
  PROVE  /\ e.kind = "start" => e \in Start
         /\ e.kind \in {"load", "error", "httpError", "moved"} => e \in Report
         /\ e.kind = "gone" => e \in Gone
         /\ e.kind = "WEB_READY" => e \in ReadyCall
         /\ e.kind = "AUTH_STATE" => e \in StateTold
         /\ e.kind \in {"start", "load", "error", "httpError", "moved", "gone", "WEB_READY", "AUTH_STATE"}
<1>1. CASE e \in Start
  BY <1>1 DEF Start
<1>2. CASE e \in Report
  BY <1>2 DEF Report
<1>3. CASE e \in Gone
  BY <1>3 DEF Gone
<1>4. CASE e \in ReadyCall
  BY <1>4 DEF ReadyCall
<1>5. CASE e \in StateTold
  BY <1>5 DEF StateTold
<1> QED
  BY <1>1, <1>2, <1>3, <1>4, <1>5 DEF Event

LEMMA ScriptFields ==
  ASSUME NEW s \in Script
  PROVE  /\ s.kind = "bridge" => s \in BridgeSent
         /\ s.kind = "HELLO" => s \in HelloSent
         /\ s.kind = "feature" => s \in FeatureSent
         /\ s.kind = "replace" => s \in ReplaceSent
         /\ s.kind \in {"bridge", "HELLO", "feature", "replace"}
<1>1. CASE s \in BridgeSent
  BY <1>1 DEF BridgeSent
<1>2. CASE s \in HelloSent
  BY <1>2 DEF HelloSent
<1>3. CASE s \in FeatureSent
  BY <1>3 DEF FeatureSent
<1>4. CASE s \in ReplaceSent
  BY <1>4 DEF ReplaceSent
<1> QED
  BY <1>1, <1>2, <1>3, <1>4 DEF Script

LEMMA AppendAt ==
  ASSUME NEW S, NEW q \in Seq(S), NEW x \in S
  PROVE  /\ Append(q, x) \in Seq(S) /\ Len(Append(q, x)) = Len(q) + 1 /\ Len(q) \in Nat
         /\ DOMAIN q = 1..Len(q) /\ DOMAIN Append(q, x) = 1..(Len(q) + 1)
         /\ \A i \in 1..Len(q) : Append(q, x)[i] = q[i]
         /\ Append(q, x)[Len(q) + 1] = x
         /\ q \o <<x>> = Append(q, x)
OBVIOUS

LEMMA TailAt ==
  ASSUME NEW S, NEW q \in Seq(S), q # <<>>
  PROVE  /\ Tail(q) \in Seq(S) /\ Len(Tail(q)) = Len(q) - 1 /\ Len(q) \in Nat \ {0}
         /\ DOMAIN q = 1..Len(q) /\ DOMAIN Tail(q) = 1..(Len(q) - 1)
         /\ \A i \in 1..(Len(q) - 1) : Tail(q)[i] = q[i + 1]
         /\ Head(q) = q[1] /\ q[1] \in S
OBVIOUS

LEMMA EmptyAdds ==
  ASSUME NEW S, NEW q \in Seq(S)
  PROVE  q \o <<>> = q /\ Len(q) \in Nat /\ DOMAIN q = 1..Len(q) /\ \A i \in 1..Len(q) : q[i] \in S
OBVIOUS

LEMMA OneEvent ==
  ASSUME NEW S, NEW x \in S
  PROVE  <<x>> \in Seq(S) /\ Len(<<x>>) = 1 /\ DOMAIN <<x>> = 1..1 /\ <<x>>[1] = x
OBVIOUS

(***************************************************************************)
(* What a step adds to the inbox: nothing, or one event that is its own.   *)
(***************************************************************************)
(* An event that a document of the number d may report or post now.        *)
Fits(e, d) ==
  /\ e \in Event
  /\ e.kind # "start"
  /\ e.kind = "WEB_READY" =>
       Started(e.doc) /\ e.call[1] = e.doc /\ NotBefore(e.nonce, e.doc) /\ e.nonce <= shell.session
  /\ e.kind = "AUTH_STATE" => SessionOf(e.session, e.doc)
  /\ e.kind = "load" =>
       /\ \A m \in DOMAIN shell.issued : shell.issued[m] <= d
       /\ \A j \in DOMAIN inbox : StartAt(j) => inbox[j].doc <= d

(* What a step of the page posts.                                          *)
Posts(posted, d) == posted = <<>> \/ \E e : posted = <<e>> /\ Fits(e, d)

LEMMA InboxGrows ==
  ASSUME BridgeInv, UNCHANGED <<shell.issued, shell.session, shell.state>>,
         view'.doc \in Nat, view.doc <= view'.doc,
         \/ UNCHANGED <<inbox, coming.doc>>
         \/ \E e : inbox' = Append(inbox, e) /\ Fits(e, view'.doc) /\ UNCHANGED coming.doc
         \/ \E e \in Start : /\ inbox' = Append(inbox, e)
                             /\ e.doc = coming.doc + 1 /\ coming'.doc = coming.doc + 1
  PROVE  /\ inbox' \in Seq(Event) /\ StartsInOrder' /\ FirstStart'
         /\ CallsAreOwn' /\ StatesAreOwn' /\ LoadsAreLate'
         /\ \A d : Started(d) => Started(d)'
         /\ Started(coming.doc)' /\ coming.doc <= coming'.doc
         /\ \A m \in DOMAIN shell.issued : shell.issued[m] <= coming'.doc
<1> DEFINE
  Grown ==
    /\ inbox' \in Seq(Event) /\ StartsInOrder' /\ FirstStart'
    /\ CallsAreOwn' /\ StatesAreOwn' /\ LoadsAreLate'
    /\ \A d : Started(d) => Started(d)'
    /\ Started(coming.doc)' /\ coming.doc <= coming'.doc
    /\ \A m \in DOMAIN shell.issued : shell.issued[m] <= coming'.doc
<1>0. /\ inbox \in Seq(Event) /\ Len(inbox) \in Nat /\ DOMAIN inbox = 1..Len(inbox)
      /\ \A i \in DOMAIN inbox : inbox[i] \in Event
      /\ shell.issued \in Seq(Nat) /\ \A m \in DOMAIN shell.issued : shell.issued[m] \in Nat
      /\ coming.doc \in Nat /\ view.doc \in Nat
  <2>1. inbox \in Seq(Event) /\ shell.issued \in Seq(Nat)
    BY DEF BridgeInv, Typed, ShellInv
  <2>2. coming.doc \in Nat /\ view.doc \in Nat
    BY DEF BridgeInv, ComingInv, ViewInv, PageOwn
  <2> QED
    BY <2>1, <2>2, EmptyAdds
<1>1. CASE UNCHANGED <<inbox, coming.doc>>
  <2>1. \A d, n : StartedBefore(d, n) <=> StartedBefore(d, n)'
    BY <1>1 DEF StartedBefore, Issued, StartAt
  <2>2. StartsInOrder' /\ FirstStart'
    BY <1>1 DEF BridgeInv, StartsInOrder, FirstStart, StartAt
  <2>3. CallsAreOwn' /\ StatesAreOwn'
    <3>1. \A i \in DOMAIN inbox : inbox[i].kind = "WEB_READY" => StartedBefore(inbox[i].doc, i)'
      BY <1>1, <2>1 DEF BridgeInv, CallsAreOwn
    <3> QED
      BY <1>1, <3>1 DEF BridgeInv, CallsAreOwn, StatesAreOwn, NotBefore, SessionOf, StartedBefore, Issued, StartAt
  <2>4. LoadsAreLate'
    <3> SUFFICES ASSUME NEW i \in DOMAIN inbox, inbox[i].kind = "load"
                 PROVE  /\ \A m \in DOMAIN shell.issued : shell.issued[m] <= view'.doc
                        /\ \A j \in DOMAIN inbox : j < i /\ StartAt(j) => inbox[j].doc <= view'.doc
      BY <1>1 DEF LoadsAreLate, StartAt
    <3>1. \A j \in DOMAIN inbox : StartAt(j) => inbox[j].doc \in Nat
      BY <1>0, EventFields DEF StartAt, Start
    <3> QED
      BY <1>0, <3>1 DEF BridgeInv, LoadsAreLate
  <2> QED
    BY <1>0, <1>1, <2>1, <2>2, <2>3, <2>4 DEF BridgeInv, ComingInv, Started, StartedBefore, Issued, StartAt
<1>2. ASSUME NEW e, inbox' = Append(inbox, e), e \in Event,
             \/ Fits(e, view'.doc) /\ UNCHANGED coming.doc
             \/ e \in Start /\ e.doc = coming.doc + 1 /\ coming'.doc = coming.doc + 1
      PROVE  Grown
  <2> DEFINE n == Len(inbox)
  <2>1. /\ inbox' \in Seq(Event) /\ DOMAIN inbox' = 1..(n + 1) /\ Len(inbox') = n + 1
        /\ \A i \in 1..n : inbox'[i] = inbox[i]
        /\ inbox'[n + 1] = e
    <3>1. inbox \in Seq(Event) /\ e \in Event /\ inbox' = Append(inbox, e)
      BY <1>0, <1>2
    <3> QED
      BY <3>1, AppendAt
  <2>2. n \in Nat /\ DOMAIN inbox = 1..n
    BY <1>0
  <2> HIDE DEF n
  <2>3. \A d, i : i \in 1..(n + 1) => (StartedBefore(d, i) <=> StartedBefore(d, i)')
    BY <2>1, <2>2 DEF StartedBefore, Issued, StartAt
  <2>4. \A d : Started(d) <=> StartedBefore(d, n + 1)
    BY DEF Started, n
  <2>5. \A d : Started(d) => Started(d)'
    BY <2>1, <2>2, <2>4 DEF Started, StartedBefore, Issued, StartAt
  <2>6. \A d : e \in Start /\ d = e.doc => Started(d)'
    BY <2>1, <2>2 DEF Started, StartedBefore, StartAt, Start
  <2>14. \/ coming'.doc = coming.doc
         \/ e \in Start /\ e.doc = coming.doc + 1 /\ coming'.doc = coming.doc + 1
    BY <1>2
  <2>7. coming.doc <= coming'.doc /\ Started(coming.doc)'
    <3>1. Started(coming.doc)
      BY DEF BridgeInv, ComingInv
    <3>2. PICK c : c = coming'.doc
      OBVIOUS
    <3>3. (Started(c))' => Started(coming.doc)'
      BY <3>2 DEF Started, StartedBefore, Issued
    <3>4. Started(c)'
      BY <2>5, <2>6, <2>14, <3>1, <3>2
    <3> QED
      BY <1>0, <2>14, <3>3, <3>4
  <2>8. \A m \in DOMAIN shell.issued : shell.issued[m] <= coming'.doc
    BY <1>0, <2>14 DEF BridgeInv, ComingInv
  <2>9. StartsInOrder'
    <3> SUFFICES ASSUME NEW i \in 1..(n + 1), inbox'[i].kind = "start"
                 PROVE  /\ inbox'[i].doc <= coming'.doc
                        /\ \A m \in DOMAIN shell.issued : shell.issued[m] < inbox'[i].doc
                        /\ \A j \in 1..(n + 1) : j < i /\ inbox'[j].kind = "start" => inbox'[j].doc < inbox'[i].doc
      BY <2>1 DEF StartsInOrder, StartAt
    <3>1. CASE i \in 1..n
      <4>1. inbox[i] \in Start /\ StartAt(i) /\ inbox'[i] = inbox[i]
        BY <1>0, <2>1, <2>2, <3>1, EventFields DEF StartAt
      <4>2. inbox[i].doc \in Nat
        BY <4>1 DEF Start
      <4>3. inbox[i].doc <= coming'.doc
        <5>1. inbox[i].doc <= coming.doc
          BY <2>2, <3>1, <4>1 DEF BridgeInv, StartsInOrder
        <5> QED
          BY <1>0, <2>14, <4>2, <5>1
      <4> QED
        BY <2>1, <2>2, <3>1, <4>1, <4>3 DEF BridgeInv, StartsInOrder, StartAt
    <3>2. CASE i = n + 1
      <4>1. e \in Start /\ e.doc = coming.doc + 1 /\ coming'.doc = coming.doc + 1
        BY <1>2, <2>1, <3>2 DEF Fits
      <4>2. \A j \in 1..n : inbox[j].kind = "start" => inbox[j].doc \in Nat /\ inbox[j].doc <= coming.doc
        BY <1>0, <2>2, EventFields DEF BridgeInv, StartsInOrder, StartAt, Start
      <4>3. \A m \in DOMAIN shell.issued : shell.issued[m] < e.doc
        BY <1>0, <4>1 DEF BridgeInv, ComingInv
      <4> QED
        BY <1>0, <2>1, <2>2, <3>2, <4>1, <4>2, <4>3
    <3> QED
      BY <2>2, <3>1, <3>2
  <2>10. FirstStart'
    BY <2>1, <2>2 DEF BridgeInv, FirstStart, StartAt, n
  <2>11. CallsAreOwn'
    <3> SUFFICES ASSUME NEW i \in DOMAIN inbox', (inbox[i])'.kind = "WEB_READY"
                 PROVE  /\ StartedBefore(inbox[i].doc, i)' /\ (inbox[i].call[1] = inbox[i].doc)'
                        /\ NotBefore(inbox[i].nonce, inbox[i].doc)' /\ (inbox[i].nonce <= shell.session)'
      BY DEF CallsAreOwn
    <3>0. PICK x : x = inbox'[i] /\ x.kind = "WEB_READY" /\ i \in 1..(n + 1)
      BY <2>1
    <3>1. StartedBefore(x.doc, i) /\ x.call[1] = x.doc /\ NotBefore(x.nonce, x.doc) /\ x.nonce <= shell.session
      <4>1. CASE i \in 1..n
        BY <2>1, <2>2, <3>0, <4>1 DEF BridgeInv, CallsAreOwn
      <4>2. CASE i = n + 1
        BY <1>2, <2>1, <2>4, <3>0, <4>2 DEF Fits, Start
      <4> QED
        BY <2>2, <4>1, <4>2
    <3>2. StartedBefore(x.doc, i)'
      BY <2>3, <3>0, <3>1
    <3>3. NotBefore(x.nonce, x.doc)'
      BY <3>1 DEF NotBefore
    <3>4. StartedBefore(inbox[i].doc, i)'
      BY <3>0, <3>2 DEF StartedBefore, Issued, StartAt
    <3> QED
      BY <3>0, <3>1, <3>3, <3>4 DEF NotBefore
  <2>12. StatesAreOwn'
    <3> SUFFICES ASSUME NEW i \in 1..(n + 1), inbox'[i].kind = "AUTH_STATE"
                 PROVE  SessionOf(inbox'[i].session, inbox'[i].doc)
      BY <2>1 DEF StatesAreOwn, SessionOf
    <3>1. CASE i \in 1..n
      BY <2>1, <2>2, <3>1 DEF BridgeInv, StatesAreOwn
    <3>2. CASE i = n + 1
      BY <1>2, <2>1, <3>2 DEF Fits, Start
    <3> QED
      BY <2>2, <3>1, <3>2
  <2>13. LoadsAreLate'
    <3> SUFFICES ASSUME NEW i \in 1..(n + 1), inbox'[i].kind = "load"
                 PROVE  /\ \A m \in DOMAIN shell.issued : shell.issued[m] <= view'.doc
                        /\ \A j \in 1..(n + 1) : j < i /\ inbox'[j].kind = "start" => inbox'[j].doc <= view'.doc
      BY <2>1 DEF LoadsAreLate, StartAt
    <3>1. CASE i \in 1..n
      <4>1. \A j \in 1..n : inbox[j].kind = "start" => inbox[j].doc \in Nat
        BY <1>0, <2>2, EventFields DEF Start
      <4>2. /\ \A m \in DOMAIN shell.issued : shell.issued[m] <= view.doc
            /\ \A j \in 1..n : j < i /\ inbox[j].kind = "start" => inbox[j].doc <= view.doc
        BY <2>1, <2>2, <3>1 DEF BridgeInv, LoadsAreLate, StartAt
      <4> QED
        <5>1. \A x \in Nat : x <= view.doc => x <= view'.doc
          BY <1>0
        <5>2. \A m \in DOMAIN shell.issued : shell.issued[m] <= view'.doc
          BY <1>0, <4>2, <5>1
        <5>3. \A j \in 1..(n + 1) : j < i => j \in 1..n /\ inbox'[j] = inbox[j]
          BY <2>1, <2>2, <3>1
        <5> QED
          BY <4>1, <4>2, <5>1, <5>2, <5>3
    <3>2. CASE i = n + 1
      <4>1. Fits(e, view'.doc)
        BY <1>2, <2>1, <3>2 DEF Start
      <4> QED
        BY <2>1, <2>2, <3>2, <4>1 DEF Fits, StartAt
    <3> QED
      BY <2>2, <3>1, <3>2
  <2> QED
    BY <2>1, <2>5, <2>7, <2>8, <2>9, <2>10, <2>11, <2>12, <2>13
<1>3. \A e : Fits(e, view'.doc) => e \in Event
  BY DEF Fits
<1>4. \A e \in Start : e \in Event
  BY DEF Event
<1> HIDE DEF Grown
<1>5. CASE \E e : inbox' = Append(inbox, e) /\ Fits(e, view'.doc) /\ UNCHANGED coming.doc
  <2>1. PICK e : inbox' = Append(inbox, e) /\ Fits(e, view'.doc) /\ UNCHANGED coming.doc
    BY <1>5
  <2>3. \/ Fits(e, view'.doc) /\ UNCHANGED coming.doc
        \/ e \in Start /\ e.doc = coming.doc + 1 /\ coming'.doc = coming.doc + 1
    BY <2>1
  <2>4. inbox' = Append(inbox, e)
    BY <2>1
  <2>2. e \in Event
    BY <2>1, <1>3
  <2> QED
    BY <1>2, <2>2, <2>3, <2>4 DEF Grown
<1>6. CASE \E e \in Start : inbox' = Append(inbox, e) /\ e.doc = coming.doc + 1 /\ coming'.doc = coming.doc + 1
  <2>1. PICK e \in Start : inbox' = Append(inbox, e) /\ e.doc = coming.doc + 1 /\ coming'.doc = coming.doc + 1
    BY <1>6
  <2>2. e \in Event
    BY <1>4
  <2>3. \/ Fits(e, view'.doc) /\ UNCHANGED coming.doc
        \/ e \in Start /\ e.doc = coming.doc + 1 /\ coming'.doc = coming.doc + 1
    BY <2>1
  <2>4. inbox' = Append(inbox, e)
    BY <2>1
  <2> QED
    BY <1>2, <2>2, <2>3, <2>4 DEF Grown
<1> QED
  BY <1>1, <1>5, <1>6 DEF Grown

(***************************************************************************)
(* A step of the WebView or of the person: what is under way grows by at   *)
(* most one event, and a page that may be there is there.                  *)
(***************************************************************************)
LEMMA ScriptsRest ==
  ASSUME BridgeInv, UNCHANGED shell.issued, view'.doc \in Nat, view.doc <= view'.doc,
         scripts' = scripts \/ (scripts # <<>> /\ scripts' = Tail(scripts))
  PROVE  scripts' \in Seq(Script) /\ ScriptsAreOwn'
<1>1. scripts \in Seq(Script) /\ shell.issued \in Seq(Nat) /\ view.doc \in Nat
  BY DEF BridgeInv, Typed, ShellInv, ViewInv, PageOwn
<1>2. \A m \in DOMAIN shell.issued : shell.issued[m] \in Nat
  BY <1>1
<1>3. scripts' \in Seq(Script) /\ \A i \in DOMAIN scripts' : \E j \in DOMAIN scripts : scripts'[i] = scripts[j]
  <2>1. CASE scripts' = scripts
    BY <1>1, <2>1
  <2>2. CASE scripts # <<>> /\ scripts' = Tail(scripts)
    <3>1. /\ Tail(scripts) \in Seq(Script) /\ Len(scripts) \in Nat \ {0} /\ DOMAIN scripts = 1..Len(scripts)
          /\ DOMAIN Tail(scripts) = 1..(Len(scripts) - 1)
          /\ \A i \in 1..(Len(scripts) - 1) : Tail(scripts)[i] = scripts[i + 1]
      BY <1>1, <2>2, TailAt
    <3>2. \A i \in 1..(Len(scripts) - 1) : i + 1 \in 1..Len(scripts)
      BY <3>1
    <3> QED
      BY <2>2, <3>1, <3>2
  <2> QED
    BY <2>1, <2>2
<1>4. ASSUME NEW i \in DOMAIN scripts'
      PROVE  /\ scripts'[i].kind = "bridge" =>
                  scripts'[i].nonce \in DOMAIN shell.issued /\ shell.issued[scripts'[i].nonce] <= view'.doc
             /\ scripts'[i].kind = "HELLO" => SessionOf(scripts'[i].session, scripts'[i].replyTo[1])
  <2>1. PICK j \in DOMAIN scripts : scripts'[i] = scripts[j]
    BY <1>3
  <2>2. /\ scripts[j].kind = "bridge" =>
             scripts[j].nonce \in DOMAIN shell.issued /\ shell.issued[scripts[j].nonce] <= view.doc
        /\ scripts[j].kind = "HELLO" => SessionOf(scripts[j].session, scripts[j].replyTo[1])
    BY DEF BridgeInv, ScriptsAreOwn
  <2> QED
    BY <1>1, <1>2, <2>1, <2>2
<1> QED
  BY <1>3, <1>4 DEF ScriptsAreOwn, SessionOf

LEMMA Moves ==
  ASSUME BridgeInv, UNCHANGED <<shell.issued, shell.session, shell.state>>, ShellInv',
         scripts' \in Seq(Script), ScriptsAreOwn',
         DOMAIN coming' = {"doc", "url"}, coming'.url \in Internal \cup {Missing},
         NEW p, view' = p, PageOwn(p), PageLoads(p)', view.doc <= p.doc,
         \/ UNCHANGED <<inbox, coming.doc>>
         \/ \E e : inbox' = Append(inbox, e) /\ Fits(e, p.doc) /\ UNCHANGED coming.doc
         \/ \E e \in Start : /\ inbox' = Append(inbox, e)
                             /\ e.doc = coming.doc + 1 /\ coming'.doc = coming.doc + 1
  PROVE  BridgeInv'
<1>1. p.doc \in Nat
  BY DEF PageOwn
<1>2. \/ UNCHANGED <<inbox, coming.doc>>
      \/ \E e : inbox' = Append(inbox, e) /\ Fits(e, view'.doc) /\ UNCHANGED coming.doc
      \/ \E e \in Start : /\ inbox' = Append(inbox, e)
                          /\ e.doc = coming.doc + 1 /\ coming'.doc = coming.doc + 1
  OBVIOUS
<1>3. view'.doc \in Nat /\ view.doc <= view'.doc
  BY <1>1
<1>4. /\ inbox' \in Seq(Event) /\ StartsInOrder' /\ FirstStart'
      /\ CallsAreOwn' /\ StatesAreOwn' /\ LoadsAreLate'
      /\ \A d : Started(d) => Started(d)'
      /\ Started(coming.doc)' /\ coming.doc <= coming'.doc
      /\ \A m \in DOMAIN shell.issued : shell.issued[m] <= coming'.doc
  BY <1>2, <1>3, InboxGrows
<1>5. coming.doc \in Nat \ {0} /\ coming'.doc \in Nat \ {0}
  BY <1>2 DEF BridgeInv, ComingInv
<1>6. ComingInv'
  BY <1>4, <1>5 DEF ComingInv
<1>7. PageOwn(p)'
  <2>1. p.doc <= coming'.doc
    BY <1>1, <1>4, <1>5 DEF PageOwn
  <2>2. p.doc # 0 => Started(p.doc)'
    BY <1>4 DEF PageOwn
  <2> QED
    BY <2>1, <2>2 DEF PageOwn, NotBefore, SessionOf
<1>8. ViewInv'
  <2>1. PageOwn(p)' => PageOwn(view)'
    BY DEF PageOwn, NotBefore, SessionOf, Started, StartedBefore, Issued, StartAt
  <2>2. PageLoads(p)' => PageLoads(view)'
    BY DEF PageLoads
  <2> QED
    BY <1>7, <2>1, <2>2 DEF ViewInv
<1>9. IssuedInOrder'
  BY DEF BridgeInv, IssuedInOrder
<1> QED
  BY <1>4, <1>6, <1>8, <1>9 DEF BridgeInv, Typed

(* The parts of the state that most steps leave alone.                     *)
LEMMA ShellRests ==
  ASSUME BridgeInv, UNCHANGED shell
  PROVE  ShellInv' /\ UNCHANGED <<shell.issued, shell.session, shell.state>>
BY DEF BridgeInv, ShellInv

(* A new document's start.                                                 *)
LEMMA StartKeeps ==
  ASSUME BridgeInv, NEW url \in Internal, StartDocument(url, inbox), UNCHANGED view,
         UNCHANGED <<shell.issued, shell.session, shell.state>>, ShellInv',
         scripts' = scripts \/ (scripts # <<>> /\ scripts' = Tail(scripts))
  PROVE  BridgeInv'
<1>1. coming.doc \in Nat /\ PageOwn(view) /\ view.doc \in Nat
  BY DEF BridgeInv, ComingInv, ViewInv, PageOwn
<1>2. PICK e : e = [kind |-> "start", doc |-> coming.doc + 1, url |-> url]
  OBVIOUS
<1>3. e \in Start /\ e.doc = coming.doc + 1 /\ inbox' = Append(inbox, e)
  BY <1>1, <1>2 DEF Start, StartDocument
<1>4. DOMAIN coming' = {"doc", "url"} /\ coming'.url = url /\ coming'.doc = coming.doc + 1
  BY DEF StartDocument
<1>5. PICK p : p = view
  OBVIOUS
<1>6. PageLoads(p)'
  BY <1>4, <1>5, ShellAssumption DEF BridgeInv, ViewInv, PageLoads, Loading, Internal, Addresses, ClassifyNavigation
<1>7. scripts' \in Seq(Script) /\ ScriptsAreOwn'
  BY <1>1, ScriptsRest
<1>8. view' = p /\ PageOwn(p) /\ view.doc <= p.doc
  BY <1>1, <1>5
<1>9. coming'.url \in Internal \cup {Missing}
  BY <1>4
<1>10. \E x \in Start : inbox' = Append(inbox, x) /\ x.doc = coming.doc + 1 /\ coming'.doc = coming.doc + 1
  BY <1>3, <1>4
<1> QED
  BY <1>4, <1>6, <1>7, <1>8, <1>9, <1>10, Moves

LEMMA ReportFits ==
  ASSUME NEW kind \in {"error", "httpError", "moved"}, NEW url \in Internal, NEW d
  PROVE  Fits([kind |-> kind, url |-> url], d) /\ Fits([kind |-> "gone"], d)
<1>1. [kind |-> kind, url |-> url] \in Event
  <2>1. [kind |-> kind, url |-> url] \in Report
    BY DEF Report
  <2> QED
    BY <2>1 DEF Event
<1>2. [kind |-> "gone"] \in Event
  <2>1. [kind |-> "gone"] \in Gone
    BY DEF Gone
  <2> QED
    BY <2>1 DEF Event
<1> QED
  BY <1>1, <1>2 DEF Fits

(* A document that takes the place of another is the one that started last. *)
LEMMA FreshPage ==
  ASSUME BridgeInv, NEW p,
         DOMAIN p = {"doc", "url", "nonce", "loaded", "broken", "booted", "ready", "tries", "armed",
                     "selected", "epoch", "told"},
         p.doc = coming.doc, p.nonce \in {0, 1}, p.ready = 0, p.tries = 0, p.armed = FALSE,
         p.booted = FALSE, p.selected = 0, p.epoch = 0
  PROVE  PageOwn(p) /\ view.doc <= p.doc
<1>1. /\ coming.doc \in Nat \ {0} /\ Started(coming.doc)
      /\ \A m \in DOMAIN shell.issued : shell.issued[m] <= coming.doc
  BY DEF BridgeInv, ComingInv
<1>2. shell.session \in Nat \ {0}
  BY EmptyAdds DEF BridgeInv, ShellInv
<1>3. view.doc <= coming.doc
  BY DEF BridgeInv, ViewInv, PageOwn
<1> QED
  BY <1>1, <1>2, <1>3 DEF PageOwn, NotBefore

(* A load that is over.                                                    *)
LEMMA OverTyped ==
  ASSUME BridgeInv, LoadIsOver
  PROVE  DOMAIN coming' = {"doc", "url"} /\ coming'.url = Missing /\ coming'.doc = coming.doc
BY DEF BridgeInv, ComingInv, LoadIsOver

LEMMA SameScripts ==
  ASSUME BridgeInv, UNCHANGED <<shell, scripts>>, view'.doc \in Nat, view.doc <= view'.doc
  PROVE  scripts' \in Seq(Script) /\ ScriptsAreOwn'
BY ScriptsRest

LEMMA CommitKeeps == ASSUME BridgeInv, Commit PROVE BridgeInv'
<1>1. PICK nonce \in {0, 1} :
         view' = [NoDocument EXCEPT !.doc = coming.doc, !.url = coming.url, !.nonce = nonce]
  BY DEF Commit, FirstNonce
<1>2. PICK p : p = [NoDocument EXCEPT !.doc = coming.doc, !.url = coming.url, !.nonce = nonce]
  OBVIOUS
<1>3. PageOwn(p) /\ view.doc <= p.doc
  BY <1>2, FreshPage DEF NoDocument
<1>4. DOMAIN coming' = {"doc", "url"} /\ coming'.url = Missing /\ coming'.doc = coming.doc
  BY OverTyped DEF Commit
<1>5. PageLoads(p)'
  BY <1>2, <1>4 DEF NoDocument, PageLoads, BridgeInv, ComingInv, Commit, Loading
<1>6. view' = p /\ p.doc \in Nat
  BY <1>1, <1>2, <1>3 DEF PageOwn
<1>7. scripts' \in Seq(Script) /\ ScriptsAreOwn'
  BY <1>3, <1>6, SameScripts DEF Commit
<1>8. UNCHANGED <<inbox, coming.doc>> /\ ShellInv' /\ UNCHANGED <<shell.issued, shell.session, shell.state>>
  BY <1>4, ShellRests DEF Commit
<1>9. coming'.url \in Internal \cup {Missing}
  BY <1>4
<1> QED
  BY <1>3, <1>4, <1>5, <1>6, <1>7, <1>8, <1>9, Moves

(* A report of the WebView, with the page after it.                        *)
LEMMA Reports ==
  ASSUME BridgeInv, UNCHANGED <<shell, scripts>>, NEW e, inbox' = Append(inbox, e),
         NEW p, view' = p, PageOwn(p), PageLoads(p)', view.doc <= p.doc, Fits(e, p.doc),
         DOMAIN coming' = {"doc", "url"}, coming'.url \in Internal \cup {Missing}, coming'.doc = coming.doc
  PROVE  BridgeInv'
<1>1. p.doc \in Nat
  BY DEF PageOwn
<1>2. scripts' \in Seq(Script) /\ ScriptsAreOwn'
  BY <1>1, SameScripts
<1>3. ShellInv' /\ UNCHANGED <<shell.issued, shell.session, shell.state>>
  BY ShellRests
<1>4. \E x : inbox' = Append(inbox, x) /\ Fits(x, p.doc) /\ UNCHANGED coming.doc
  OBVIOUS
<1> QED
  BY <1>2, <1>3, <1>4, Moves

LEMMA CommitErrorKeeps == ASSUME BridgeInv, CommitError PROVE BridgeInv'
<1>1. PICK p : p = [NoDocument EXCEPT !.doc = coming.doc, !.url = coming.url, !.broken = TRUE]
  OBVIOUS
<1>2. PageOwn(p) /\ view.doc <= p.doc
  BY <1>1, FreshPage DEF NoDocument
<1>3. DOMAIN coming' = {"doc", "url"} /\ coming'.url = Missing /\ coming'.doc = coming.doc
  BY OverTyped DEF CommitError
<1>4. coming.url \in Internal
  BY DEF CommitError, Loading, BridgeInv, ComingInv
<1>5. PageLoads(p)'
  BY <1>1, <1>3, <1>4 DEF NoDocument, PageLoads
<1>6. PICK e : e = [kind |-> "httpError", url |-> coming.url]
  OBVIOUS
<1>7. Fits(e, p.doc)
  BY <1>4, <1>6, ReportFits
<1>8. view' = p /\ inbox' = Append(inbox, e) /\ UNCHANGED <<shell, scripts>>
  BY <1>1, <1>6 DEF CommitError
<1>9. coming'.url \in Internal \cup {Missing}
  BY <1>3
<1> QED
  BY <1>2, <1>3, <1>5, <1>7, <1>8, <1>9, Reports

LEMMA LoadFailsKeeps == ASSUME BridgeInv, LoadFails PROVE BridgeInv'
<1>1. DOMAIN coming' = {"doc", "url"} /\ coming'.url = Missing /\ coming'.doc = coming.doc
  BY OverTyped DEF LoadFails
<1>2. PICK p : /\ p = view'
               /\ \/ p = [view EXCEPT !.loaded = TRUE]
                  \/ p = [NoDocument EXCEPT !.doc = coming.doc, !.broken = TRUE, !.loaded = TRUE]
  BY DEF LoadFails
<1>3. PageOwn(p) /\ view.doc <= p.doc /\ p.loaded
  <2>1. CASE p = [view EXCEPT !.loaded = TRUE]
    BY <2>1 DEF BridgeInv, ViewInv, PageOwn
  <2>2. CASE p = [NoDocument EXCEPT !.doc = coming.doc, !.broken = TRUE, !.loaded = TRUE]
    BY <2>2, FreshPage DEF NoDocument
  <2> QED
    BY <1>2, <2>1, <2>2
<1>4. coming.url \in Internal
  BY DEF LoadFails, Loading, BridgeInv, ComingInv
<1>5. PageLoads(p)'
  BY <1>3 DEF PageLoads
<1>6. PICK e : e = [kind |-> "error", url |-> coming.url]
  OBVIOUS
<1>7. Fits(e, p.doc)
  BY <1>4, <1>6, ReportFits
<1>8. view' = p /\ inbox' = Append(inbox, e) /\ UNCHANGED <<shell, scripts>>
  BY <1>2, <1>6 DEF LoadFails
<1>9. coming'.url \in Internal \cup {Missing}
  BY <1>1
<1> QED
  BY <1>1, <1>3, <1>5, <1>7, <1>8, <1>9, Reports

(* A load is reported of the document that started last.                   *)
LEMMA FinishLoadKeeps == ASSUME BridgeInv, FinishLoad PROVE BridgeInv'
<1>1. PICK p : p = [view EXCEPT !.loaded = TRUE]
  OBVIOUS
<1>2. PageOwn(p) /\ p.doc = view.doc /\ p.loaded /\ view.doc \in Nat
  BY <1>1 DEF BridgeInv, ViewInv, PageOwn
<1>3. view.url \in Internal /\ view.doc = coming.doc
  BY DEF FinishLoad, BridgeInv, ViewInv, PageLoads
<1>4. PICK e : e = [kind |-> "load", url |-> view.url]
  OBVIOUS
<1>5. Fits(e, p.doc)
  <2>1. e \in Event
    BY <1>3, <1>4 DEF Report, Event
  <2>2. \A m \in DOMAIN shell.issued : shell.issued[m] <= p.doc
    BY <1>2, <1>3 DEF BridgeInv, ComingInv
  <2>3. \A j \in DOMAIN inbox : StartAt(j) => inbox[j].doc <= p.doc
    BY <1>2, <1>3 DEF BridgeInv, StartsInOrder
  <2> QED
    BY <1>4, <2>1, <2>2, <2>3 DEF Fits
<1>6. PageLoads(p)'
  BY <1>2 DEF PageLoads
<1>7. view' = p /\ inbox' = Append(inbox, e) /\ UNCHANGED <<shell, scripts, coming>> /\ view.doc <= p.doc
  BY <1>1, <1>2, <1>4 DEF FinishLoad
<1>8. DOMAIN coming' = {"doc", "url"} /\ coming'.url \in Internal \cup {Missing} /\ coming'.doc = coming.doc
  BY <1>7 DEF BridgeInv, ComingInv
<1> QED
  BY <1>2, <1>5, <1>6, <1>7, <1>8, Reports

LEMMA MovesToKeeps == ASSUME BridgeInv, NEW url \in Internal, MovesTo(url) PROVE BridgeInv'
<1>1. PICK p : p = [view EXCEPT !.url = url]
  OBVIOUS
<1>2. PageOwn(p) /\ p.doc = view.doc /\ view.doc \in Nat
  BY <1>1 DEF BridgeInv, ViewInv, PageOwn
<1>3. PICK e : e = [kind |-> "moved", url |-> url]
  OBVIOUS
<1>4. Fits(e, p.doc)
  BY <1>3, ReportFits
<1>5. view' = p /\ inbox' = Append(inbox, e) /\ UNCHANGED <<shell, scripts, coming>> /\ view.doc <= p.doc
  BY <1>1, <1>2, <1>3 DEF MovesTo
<1>6. PageLoads(p)'
  BY <1>1, <1>5 DEF BridgeInv, ViewInv, PageLoads, PageOwn, Loading
<1>7. DOMAIN coming' = {"doc", "url"} /\ coming'.url \in Internal \cup {Missing} /\ coming'.doc = coming.doc
  BY <1>5 DEF BridgeInv, ComingInv
<1> QED
  BY <1>2, <1>4, <1>5, <1>6, <1>7, Reports

LEMMA RendererGoneKeeps == ASSUME BridgeInv, RendererGone PROVE BridgeInv'
<1>1. PICK p : p = [NoDocument EXCEPT !.doc = coming.doc, !.broken = TRUE, !.loaded = TRUE]
  OBVIOUS
<1>2. PageOwn(p) /\ view.doc <= p.doc /\ p.loaded
  BY <1>1, FreshPage DEF NoDocument
<1>3. DOMAIN coming' = {"doc", "url"} /\ coming'.url = Missing /\ coming'.doc = coming.doc
  BY OverTyped DEF RendererGone
<1>4. PICK e : e = [kind |-> "gone"]
  OBVIOUS
<1>5. Home \in Internal
  BY ShellAssumption DEF Internal, Addresses, ClassifyNavigation
<1>6. Fits(e, p.doc)
  BY <1>4, <1>5, ReportFits
<1>7. PageLoads(p)'
  BY <1>2 DEF PageLoads
<1>8. view' = p /\ inbox' = Append(inbox, e) /\ UNCHANGED <<shell, scripts>>
  BY <1>1, <1>4 DEF RendererGone
<1>9. coming'.url \in Internal \cup {Missing}
  BY <1>3
<1> QED
  BY <1>2, <1>3, <1>6, <1>7, <1>8, <1>9, Reports

LEMMA NavigateKeeps == ASSUME BridgeInv, NEW url \in Internal, Navigate(url) PROVE BridgeInv'
BY ShellRests, StartKeeps DEF Navigate

LEMMA OpenWindowKeeps == ASSUME BridgeInv, NEW url \in Internal, OpenWindow(url) PROVE BridgeInv'
<1>1. shell' = [shell EXCEPT !.documentUrl = url]
  BY DEF OpenWindow
<1>2. ShellInv' /\ UNCHANGED <<shell.issued, shell.session, shell.state>>
  BY <1>1 DEF BridgeInv, ShellInv
<1> QED
  BY <1>2, StartKeeps DEF OpenWindow

(***************************************************************************)
(* The page's end of the bridge.                                           *)
(***************************************************************************)
(* What a page that is there posts in its session.                         *)
LEMMA PostFits ==
  ASSUME BridgeInv, NEW p, PageOwn(p), p.doc # 0
  PROVE  /\ Fits(Ready(p), p.doc)
         /\ p.selected # 0 => Fits(AuthState(p), p.doc)
<1>1. /\ p.doc \in Nat /\ p.nonce \in Nat /\ p.ready \in Nat /\ p.selected \in Nat /\ p.epoch \in Nat
      /\ p.nonce <= shell.session /\ NotBefore(p.nonce, p.doc) /\ Started(p.doc)
  BY DEF PageOwn
<1>2. Ready(p) = [kind |-> "WEB_READY", nonce |-> p.nonce, doc |-> p.doc, call |-> <<p.doc, p.ready>>]
  <2>1. PICK m : m = [kind |-> "WEB_READY", nonce |-> 0, doc |-> 0, call |-> Call(p)]
    OBVIOUS
  <2>2. Ready(p) = [m EXCEPT !.nonce = p.nonce, !.doc = p.doc]
    BY <2>1 DEF Ready, Posted
  <2> QED
    BY <2>1, <2>2 DEF Call
<1>3. AuthState(p) = [kind |-> "AUTH_STATE", nonce |-> p.nonce, doc |-> p.doc, session |-> p.selected,
                      epoch |-> p.epoch]
  <2>1. PICK m : m = [kind |-> "AUTH_STATE", nonce |-> 0, doc |-> 0, session |-> p.selected, epoch |-> p.epoch]
    OBVIOUS
  <2>2. AuthState(p) = [m EXCEPT !.nonce = p.nonce, !.doc = p.doc]
    BY <2>1 DEF AuthState, Posted
  <2> QED
    BY <2>1, <2>2
<1>4. Ready(p) \in Event
  <2>1. <<p.doc, p.ready>> \in Nat \X Nat
    BY <1>1
  <2>2. Ready(p) \in ReadyCall
    BY <1>1, <1>2, <2>1 DEF ReadyCall
  <2> QED
    BY <2>2 DEF Event
<1>5. AuthState(p) \in Event
  <2>1. AuthState(p) \in StateTold
    BY <1>1, <1>3 DEF StateTold
  <2> QED
    BY <2>1 DEF Event
<1>6. Fits(Ready(p), p.doc)
  <2>1. Ready(p).kind = "WEB_READY" /\ Ready(p).doc = p.doc /\ Ready(p).nonce = p.nonce
    BY <1>2
  <2>2. Ready(p).call[1] = p.doc
    BY <1>2
  <2> QED
    BY <1>1, <1>4, <2>1, <2>2 DEF Fits
<1>7. ASSUME p.selected # 0 PROVE Fits(AuthState(p), p.doc)
  <2>1. AuthState(p).kind = "AUTH_STATE" /\ AuthState(p).doc = p.doc /\ AuthState(p).session = p.selected
    BY <1>3
  <2>2. SessionOf(p.selected, p.doc)
    BY <1>7 DEF PageOwn
  <2> QED
    BY <1>5, <2>1, <2>2 DEF Fits
<1> QED
  BY <1>6, <1>7

(* A step of the page leaves a page that may be there, of the same         *)
(* document and load, and posts what is its own.                           *)
Keeps(step, p) ==
  /\ PageOwn(step.page) /\ step.page.doc = p.doc /\ step.page.url = p.url /\ step.page.loaded = p.loaded
  /\ Posts(step.posted, p.doc)

LEMMA QuietKeeps ==
  ASSUME NEW q, NEW p, PageOwn(q), q.doc = p.doc, q.url = p.url, q.loaded = p.loaded
  PROVE  Keeps(Step(q, <<>>), p)
BY DEF Keeps, Step, Posts

LEMMA PostKeeps ==
  ASSUME NEW q, NEW p, NEW e, PageOwn(q), q.doc = p.doc, q.url = p.url, q.loaded = p.loaded, Fits(e, p.doc)
  PROVE  Keeps(Step(q, <<e>>), p)
<1>1. Step(q, <<e>>).page = q /\ Step(q, <<e>>).posted = <<e>>
  BY DEF Step
<1>2. Posts(<<e>>, p.doc)
  BY DEF Posts
<1> QED
  BY <1>1, <1>2 DEF Keeps

LEMMA SendReadyKeeps ==
  ASSUME BridgeInv, NEW p, PageOwn(p), p.doc # 0
  PROVE  Keeps(SendReady(p), p)
<1>1. CASE p.tries < 3
  <2>1. PICK q : q = [p EXCEPT !.tries = p.tries + 1, !.armed = TRUE]
    OBVIOUS
  <2>2. PageOwn(q) /\ q.doc = p.doc /\ q.url = p.url /\ q.loaded = p.loaded
    BY <1>1, <2>1 DEF PageOwn
  <2>3. SendReady(p) = Step(q, <<Ready(q)>>)
    BY <1>1, <2>1 DEF SendReady, PageOwn
  <2>4. Fits(Ready(q), p.doc)
    <3>1. Fits(Ready(q), q.doc)
      BY <2>2, PostFits
    <3> QED
      BY <2>2, <3>1
  <2> QED
    BY <2>2, <2>3, <2>4, PostKeeps
<1>2. CASE ~(p.tries < 3)
  <2>1. PICK q : q = [p EXCEPT !.armed = FALSE]
    OBVIOUS
  <2>2. PageOwn(q) /\ q.doc = p.doc /\ q.url = p.url /\ q.loaded = p.loaded
    BY <2>1 DEF PageOwn
  <2>3. SendReady(p) = Step(q, <<>>)
    BY <1>2, <2>1 DEF SendReady
  <2> QED
    BY <2>2, <2>3, QuietKeeps
<1> QED
  BY <1>1, <1>2

LEMMA BeginKeeps ==
  ASSUME BridgeInv, NEW p, PageOwn(p), p.doc # 0
  PROVE  Keeps(Begin(p), p)
<1>1. PICK q : q = [p EXCEPT !.armed = FALSE, !.selected = 0, !.tries = 0]
  OBVIOUS
<1>2. q = [Reset(p) EXCEPT !.tries = 0]
  BY <1>1 DEF Reset, PageOwn
<1>3. PageOwn(q) /\ q.doc = p.doc /\ q.url = p.url /\ q.loaded = p.loaded /\ q.ready \in Nat
  BY <1>1 DEF PageOwn
<1>4. CASE p.nonce = 0
  <2>1. Begin(p) = Step(q, <<>>)
    BY <1>2, <1>4 DEF Begin
  <2> QED
    BY <1>3, <2>1, QuietKeeps
<1>5. CASE p.nonce # 0
  <2>1. PICK r : r = [q EXCEPT !.ready = q.ready + 1]
    OBVIOUS
  <2>2. PageOwn(r) /\ r.doc = p.doc /\ r.url = p.url /\ r.loaded = p.loaded
    BY <1>3, <2>1 DEF PageOwn
  <2>3. Begin(p) = SendReady(r)
    BY <1>2, <1>3, <1>5, <2>1 DEF Begin
  <2>4. Keeps(SendReady(r), r)
    BY <2>2, SendReadyKeeps
  <2> QED
    BY <2>2, <2>3, <2>4 DEF Keeps
<1> QED
  BY <1>4, <1>5

(* A greeting opens the session only of the document whose call it answers. *)
LEMMA ReceiveKeeps ==
  ASSUME BridgeInv, NEW p, PageOwn(p), p.doc # 0, NEW s \in Script,
         s.kind = "HELLO" => SessionOf(s.session, s.replyTo[1])
  PROVE  Keeps(PageReceives(p, s), p)
<1>1. CASE p.selected = 0 /\ AnswersCall(p, s)
  <2>1. s.kind = "HELLO" /\ s.replyTo = <<p.doc, p.ready>>
    BY <1>1 DEF AnswersCall, Call
  <2>2. s.session \in Nat
    BY <2>1, ScriptFields DEF HelloSent
  <2>3. SessionOf(s.session, p.doc)
    BY <2>1
  <2>4. PICK q : q = [p EXCEPT !.armed = FALSE, !.selected = s.session]
    OBVIOUS
  <2>5. PageOwn(q) /\ q.doc = p.doc /\ q.url = p.url /\ q.loaded = p.loaded /\ q.selected = s.session
    BY <2>2, <2>3, <2>4 DEF PageOwn
  <2>6. PageReceives(p, s) = Step(q, <<AuthState(q)>>)
    BY <1>1, <2>4 DEF PageReceives
  <2>7. s.session # 0
    <3>1. DOMAIN shell.issued = 1..Len(shell.issued)
      BY EmptyAdds DEF BridgeInv, ShellInv
    <3> QED
      BY <2>3, <3>1 DEF SessionOf
  <2>8. Fits(AuthState(q), p.doc)
    <3>1. Fits(AuthState(q), q.doc)
      BY <2>5, <2>7, PostFits
    <3> QED
      BY <2>5, <3>1
  <2> QED
    BY <2>5, <2>6, <2>8, PostKeeps
<1>2. CASE p.selected # 0 /\ OwnMessage(p, s)
  <2>1. PICK q : q = [p EXCEPT !.told = s.epoch]
    OBVIOUS
  <2>2. PageOwn(q) /\ q.doc = p.doc /\ q.url = p.url /\ q.loaded = p.loaded
    BY <2>1 DEF PageOwn
  <2>3. PageReceives(p, s) = Step(q, <<>>)
    BY <1>2, <2>1 DEF PageReceives
  <2> QED
    BY <2>2, <2>3, QuietKeeps
<1>3. CASE ~(p.selected = 0 /\ AnswersCall(p, s)) /\ ~(p.selected # 0 /\ OwnMessage(p, s))
  <2>1. PageReceives(p, s) = Step(p, <<>>)
    BY <1>3 DEF PageReceives
  <2> QED
    BY <2>1, QuietKeeps
<1> QED
  BY <1>1, <1>2, <1>3

LEMMA PageDoesKeeps ==
  ASSUME BridgeInv, NEW step, NEW p, PageDoes(step), Keeps(step, p), UNCHANGED <<shell, coming>>,
         p.doc = view.doc, p.url = view.url, p.loaded = view.loaded,
         scripts' = scripts \/ (scripts # <<>> /\ scripts' = Tail(scripts))
  PROVE  BridgeInv'
<1>1. PICK q : q = step.page
  OBVIOUS
<1>2. view' = q /\ PageOwn(q) /\ q.doc = view.doc /\ q.url = view.url /\ q.loaded = view.loaded
  BY <1>1 DEF PageDoes, Keeps
<1>3. inbox \in Seq(Event)
  BY DEF BridgeInv, Typed
<1>4. UNCHANGED inbox \/ \E e : inbox' = Append(inbox, e) /\ Fits(e, q.doc)
  <2>1. inbox' = inbox \o step.posted /\ Posts(step.posted, q.doc)
    BY <1>2 DEF PageDoes, Keeps
  <2>2. CASE step.posted = <<>>
    BY <1>3, <2>1, <2>2, EmptyAdds
  <2>3. CASE \E e : step.posted = <<e>> /\ Fits(e, q.doc)
    <3>1. PICK e : step.posted = <<e>> /\ Fits(e, q.doc)
      BY <2>3
    <3>2. e \in Event
      BY <3>1 DEF Fits
    <3>3. inbox \o <<e>> = Append(inbox, e)
      BY <1>3, <3>2, AppendAt
    <3> QED
      BY <2>1, <3>1, <3>3
  <2> QED
    BY <2>1, <2>2, <2>3 DEF Posts
<1>5. view.doc \in Nat /\ view.doc <= q.doc /\ q.doc \in Nat
  BY <1>2 DEF PageOwn
<1>6. scripts' \in Seq(Script) /\ ScriptsAreOwn'
  BY <1>2, <1>5, ScriptsRest
<1>7. ShellInv' /\ UNCHANGED <<shell.issued, shell.session, shell.state>>
  BY ShellRests
<1>8. DOMAIN coming' = {"doc", "url"} /\ coming'.url \in Internal \cup {Missing} /\ UNCHANGED coming.doc
  BY DEF BridgeInv, ComingInv
<1>9. PageLoads(q)'
  BY <1>2 DEF BridgeInv, ViewInv, PageLoads, Loading
<1> QED
  BY <1>2, <1>4, <1>5, <1>6, <1>7, <1>8, <1>9, Moves

LEMMA PageBootsKeeps == ASSUME BridgeInv, PageBoots PROVE BridgeInv'
<1>1. PICK p : p = [view EXCEPT !.booted = TRUE]
  OBVIOUS
<1>2. PageOwn(p) /\ p.doc # 0 /\ p.doc = view.doc /\ p.url = view.url /\ p.loaded = view.loaded
  BY <1>1 DEF PageBoots, BridgeInv, ViewInv, PageOwn
<1>3. Keeps(Begin(p), p)
  BY <1>2, BeginKeeps
<1>4. PageDoes(Begin(p)) /\ UNCHANGED <<shell, coming, scripts>>
  BY <1>1 DEF PageBoots
<1> QED
  BY <1>2, <1>3, <1>4, PageDoesKeeps

LEMMA ReadyTimerKeeps == ASSUME BridgeInv, ReadyTimer PROVE BridgeInv'
<1>1. PICK p : p = view
  OBVIOUS
<1>2. PageOwn(p) /\ p.doc # 0
  BY <1>1 DEF ReadyTimer, BridgeInv, ViewInv, PageOwn
<1>3. Keeps(SendReady(p), p)
  BY <1>2, SendReadyKeeps
<1>4. PageDoes(SendReady(p)) /\ UNCHANGED <<shell, coming, scripts>>
  BY <1>1 DEF ReadyTimer
<1> QED
  BY <1>1, <1>3, <1>4, PageDoesKeeps

LEMMA AuthChangesKeeps == ASSUME BridgeInv, AuthChanges PROVE BridgeInv'
<1>1. PICK p : p = [view EXCEPT !.epoch = view.epoch + 1]
  OBVIOUS
<1>2. /\ PageOwn(p) /\ p.doc # 0 /\ p.doc = view.doc /\ p.url = view.url /\ p.loaded = view.loaded
      /\ p.selected = view.selected
  BY <1>1 DEF AuthChanges, BridgeInv, ViewInv, PageOwn
<1>3. UNCHANGED <<shell, coming, scripts>>
  BY DEF AuthChanges
<1>4. CASE view.selected # 0
  <2>1. PageDoes(Step(p, <<AuthState(p)>>))
    BY <1>1, <1>2, <1>4 DEF AuthChanges
  <2>2. Fits(AuthState(p), p.doc)
    BY <1>2, <1>4, PostFits
  <2>3. Keeps(Step(p, <<AuthState(p)>>), p)
    BY <1>2, <2>2, PostKeeps
  <2> QED
    BY <1>2, <1>3, <2>1, <2>3, PageDoesKeeps
<1>5. CASE view.selected = 0
  <2>1. PageDoes(Step(p, <<>>))
    BY <1>1, <1>2, <1>5 DEF AuthChanges
  <2>2. Keeps(Step(p, <<>>), p)
    BY <1>2, QuietKeeps
  <2> QED
    BY <1>2, <1>3, <2>1, <2>2, PageDoesKeeps
<1> QED
  BY <1>4, <1>5

(***************************************************************************)
(* The scripts.                                                            *)
(***************************************************************************)
LEMMA RunScriptKeeps == ASSUME BridgeInv, RunScript PROVE BridgeInv'
<1>1. PICK s : s = Head(scripts)
  OBVIOUS
<1>2. /\ s \in Script /\ scripts # <<>> /\ scripts' = Tail(scripts) /\ UNCHANGED shell
      /\ s.kind = "bridge" => s.nonce \in DOMAIN shell.issued /\ shell.issued[s.nonce] <= view.doc
      /\ s.kind = "HELLO" => SessionOf(s.session, s.replyTo[1])
  <2>1. scripts \in Seq(Script) /\ scripts # <<>> /\ scripts' = Tail(scripts) /\ UNCHANGED shell
    BY DEF BridgeInv, Typed, RunScript
  <2>2. Head(scripts) = scripts[1] /\ scripts[1] \in Script /\ 1 \in DOMAIN scripts
    BY <2>1, TailAt
  <2> QED
    BY <1>1, <2>1, <2>2 DEF BridgeInv, ScriptsAreOwn
<1>3. /\ PageOwn(view) /\ view.doc \in Nat /\ coming.doc \in Nat
      /\ DOMAIN coming = {"doc", "url"} /\ coming.url \in Internal \cup {Missing}
  BY DEF BridgeInv, ViewInv, ComingInv, PageOwn
<1>4. CASE s.kind = "bridge" /\ view.doc # 0
  <2>1. PICK p : p = [view EXCEPT !.nonce = s.nonce]
    OBVIOUS
  <2>2. s.nonce \in Nat /\ s.nonce <= shell.session
    <3>1. shell.session = (IF Len(shell.issued) = 0 THEN 1 ELSE Len(shell.issued)) /\ shell.issued \in Seq(Nat)
      BY DEF BridgeInv, ShellInv
    <3>2. DOMAIN shell.issued = 1..Len(shell.issued) /\ Len(shell.issued) \in Nat
      BY <3>1, EmptyAdds
    <3> QED
      BY <1>2, <1>4, <3>1, <3>2
  <2>3. /\ PageOwn(p) /\ p.doc # 0 /\ p.doc = view.doc /\ p.url = view.url /\ p.loaded = view.loaded
        /\ p.booted = view.booted
    BY <1>2, <1>3, <1>4, <2>1, <2>2 DEF PageOwn, NotBefore
  <2>4. UNCHANGED coming /\ PageDoes(IF view.booted THEN Begin(p) ELSE Step(p, <<>>))
    BY <1>1, <1>4, <2>1 DEF RunScript
  <2>5. CASE view.booted
    <3>1. Keeps(Begin(p), p) /\ PageDoes(Begin(p))
      BY <2>3, <2>4, <2>5, BeginKeeps
    <3> QED
      BY <1>2, <2>3, <2>4, <3>1, PageDoesKeeps
  <2>6. CASE ~view.booted
    <3>1. Keeps(Step(p, <<>>), p) /\ PageDoes(Step(p, <<>>))
      BY <2>3, <2>4, <2>6, QuietKeeps
    <3> QED
      BY <1>2, <2>3, <2>4, <3>1, PageDoesKeeps
  <2> QED
    BY <2>5, <2>6
<1>5. CASE s.kind \in {"HELLO", "feature"} /\ view.booted /\ view.nonce = s.nonce
  <2>1. PICK p : p = view
    OBVIOUS
  <2>2. PageOwn(p) /\ p.doc # 0
    BY <1>3, <1>5, <2>1 DEF PageOwn
  <2>3. PageDoes(PageReceives(p, s)) /\ UNCHANGED coming
    BY <1>1, <1>5, <2>1 DEF RunScript
  <2>4. Keeps(PageReceives(p, s), p)
    BY <1>2, <2>2, ReceiveKeeps
  <2> QED
    BY <1>2, <2>1, <2>3, <2>4, PageDoesKeeps
<1>6. CASE s.kind = "replace" /\ view.doc # 0 /\ ~view.broken
  <2>1. StartDocument(s.url, inbox) /\ UNCHANGED view
    BY <1>1, <1>6 DEF RunScript
  <2>2. s.url \in Internal
    BY <1>2, <1>6, ScriptFields DEF ReplaceSent
  <2>3. ShellInv' /\ UNCHANGED <<shell.issued, shell.session, shell.state>>
    BY <1>2, ShellRests
  <2> QED
    BY <1>2, <2>1, <2>2, <2>3, StartKeeps
<1>7. CASE /\ ~(s.kind = "bridge" /\ view.doc # 0)
           /\ ~(s.kind \in {"HELLO", "feature"} /\ view.booted /\ view.nonce = s.nonce)
           /\ ~(s.kind = "replace" /\ view.doc # 0 /\ ~view.broken)
  <2>1. UNCHANGED <<view, coming, inbox>>
    BY <1>1, <1>7 DEF RunScript
  <2>2. PICK p : p = view
    OBVIOUS
  <2>3. scripts' \in Seq(Script) /\ ScriptsAreOwn'
    BY <1>2, <1>3, <2>1, ScriptsRest
  <2>4. ShellInv' /\ UNCHANGED <<shell.issued, shell.session, shell.state>>
    BY <1>2, ShellRests
  <2>5. PageLoads(p)'
    BY <2>1, <2>2 DEF BridgeInv, ViewInv, PageLoads, Loading
  <2>6. view' = p /\ PageOwn(p) /\ view.doc <= p.doc /\ UNCHANGED <<inbox, coming.doc>>
    BY <1>3, <2>1, <2>2
  <2>7. DOMAIN coming' = {"doc", "url"} /\ coming'.url \in Internal \cup {Missing}
    BY <1>3, <2>1
  <2> QED
    BY <2>3, <2>4, <2>5, <2>6, <2>7, Moves
<1> QED
  BY <1>4, <1>5, <1>6, <1>7

LEMMA HardwareBackKeeps == ASSUME BridgeInv, HardwareBack PROVE BridgeInv'
<1>1. PICK s : s = [kind |-> "replace", nonce |-> 0, url |-> BackFallback(shell)]
  OBVIOUS
<1>2. Home \in Internal
  BY ShellAssumption DEF Internal, Addresses, ClassifyNavigation
<1>3. s \in Script /\ s.kind = "replace"
  <2>1. s \in ReplaceSent
    BY <1>1, <1>2 DEF ReplaceSent, HardwareBack, BackFallback
  <2> QED
    BY <1>1, <2>1 DEF Script
<1>4. UNCHANGED <<shell, view, coming, inbox>> /\ scripts' = scripts \o <<s>>
  BY <1>1 DEF HardwareBack, Injects
<1>5. scripts \in Seq(Script)
  BY DEF BridgeInv, Typed
<1>6. scripts' \in Seq(Script) /\ ScriptsAreOwn'
  <2>1. /\ scripts' \in Seq(Script) /\ DOMAIN scripts' = 1..(Len(scripts) + 1) /\ Len(scripts) \in Nat
        /\ DOMAIN scripts = 1..Len(scripts)
        /\ \A i \in 1..Len(scripts) : scripts'[i] = scripts[i]
        /\ scripts'[Len(scripts) + 1] = s
    BY <1>3, <1>4, <1>5, AppendAt
  <2>2. \A i \in DOMAIN scripts' : i \in DOMAIN scripts \/ scripts'[i].kind = "replace"
    BY <1>3, <2>1
  <2>3. \A i \in DOMAIN scripts : scripts'[i] = scripts[i]
    BY <2>1
  <2> QED
    BY <1>4, <2>1, <2>2, <2>3 DEF BridgeInv, ScriptsAreOwn, SessionOf
<1>7. PICK p : p = view
  OBVIOUS
<1>8. ShellInv' /\ UNCHANGED <<shell.issued, shell.session, shell.state>>
  BY <1>4, ShellRests
<1>9. PageLoads(p)'
  BY <1>4, <1>7 DEF BridgeInv, ViewInv, PageLoads, Loading
<1>10. view' = p /\ PageOwn(p) /\ view.doc <= p.doc /\ UNCHANGED <<inbox, coming.doc>>
  BY <1>4, <1>7 DEF BridgeInv, ViewInv, PageOwn
<1>11. DOMAIN coming' = {"doc", "url"} /\ coming'.url \in Internal \cup {Missing}
  BY <1>4 DEF BridgeInv, ComingInv
<1> QED
  BY <1>6, <1>8, <1>9, <1>10, <1>11, Moves

(* A new WebView: nothing of the old one is under way.                     *)
LEMMA RetryKeeps == ASSUME BridgeInv, Retry PROVE BridgeInv'
<1>1. PICK url : url = RetryUrl(shell)
  OBVIOUS
<1>2. Home \in Internal
  BY ShellAssumption DEF Internal, Addresses, ClassifyNavigation
<1>3. url \in Internal
  BY <1>1, <1>2 DEF BridgeInv, ShellInv, RetryUrl
<1>4. /\ shell' = [shell EXCEPT !.documentVisible = FALSE, !.failedUrl = Missing, !.loadFailed = FALSE,
                                !.pendingUrl = url, !.documentUrl = url, !.state = "loading"]
      /\ view' = NoDocument /\ scripts' = <<>> /\ shell.state \in {"load-error", "renderer-error"}
      /\ StartDocument(url, <<>>)
  BY <1>1 DEF Retry, ErrorShown
<1>5. UNCHANGED <<shell.issued, shell.session>> /\ shell.issued \in Seq(Nat) /\ ShellInv'
  <2>1. UNCHANGED <<shell.issued, shell.session>> /\ shell.issued \in Seq(Nat)
    BY <1>4 DEF BridgeInv, ShellInv
  <2>2. ~shell.enabled /\ shell.connected = 0
    BY <1>4 DEF BridgeInv, ShellInv
  <2> QED
    BY <1>3, <1>4, <2>1, <2>2 DEF BridgeInv, ShellInv
<1>6. Len(shell.issued) # 0 /\ shell.session \in Nat \ {0}
  <2>1. Len(shell.issued) # 0
    BY <1>4 DEF BridgeInv, FirstStart
  <2> QED
    BY <1>5, <2>1, EmptyAdds DEF BridgeInv, ShellInv
<1>7. PICK e : e = [kind |-> "start", doc |-> coming.doc + 1, url |-> url]
  OBVIOUS
<1>8. coming.doc \in Nat \ {0} /\ \A m \in DOMAIN shell.issued : shell.issued[m] <= coming.doc
  BY DEF BridgeInv, ComingInv
<1>9. e \in Start /\ e \in Event /\ e.kind = "start" /\ e.doc = coming.doc + 1
  BY <1>3, <1>7, <1>8 DEF Start, Event
<1>10. inbox' = <<e>>
  BY <1>4, <1>7 DEF StartDocument
<1>11. inbox' \in Seq(Event) /\ Len(inbox') = 1 /\ DOMAIN inbox' = 1..1 /\ inbox'[1] = e
  BY <1>9, <1>10, OneEvent
<1>12. DOMAIN coming' = {"doc", "url"} /\ coming'.doc = coming.doc + 1 /\ coming'.url = url
  BY <1>4 DEF StartDocument
<1>13. \A m \in DOMAIN shell.issued : shell.issued[m] \in Nat
  BY <1>5
<1>14. ComingInv'
  <2>1. Started(coming.doc)'
    BY <1>9, <1>11, <1>12 DEF Started, StartedBefore, StartAt
  <2>2. \A m \in DOMAIN shell.issued : shell.issued[m] <= coming.doc + 1
    BY <1>8, <1>13
  <2> QED
    BY <1>3, <1>5, <1>8, <1>12, <2>1, <2>2 DEF ComingInv
<1>15. ViewInv'
  <2>1. PICK p : p = NoDocument
    OBVIOUS
  <2>2. view' = p /\ DOMAIN p = {"doc", "url", "nonce", "loaded", "broken", "booted", "ready", "tries",
                                 "armed", "selected", "epoch", "told"}
        /\ p.doc = 0 /\ p.nonce = 0 /\ p.ready = 0 /\ p.tries = 0 /\ p.selected = 0 /\ p.epoch = 0
        /\ p.armed = FALSE /\ p.booted = FALSE
    BY <1>4, <2>1 DEF NoDocument
  <2>3. 0 \notin DOMAIN shell.issued
    BY <1>5, EmptyAdds
  <2>4. PageOwn(view)'
    BY <1>5, <1>6, <1>8, <1>12, <2>2, <2>3 DEF PageOwn, NotBefore
  <2>5. PageLoads(view)'
    BY <2>2 DEF PageLoads
  <2> QED
    BY <2>4, <2>5 DEF ViewInv
<1>16. IssuedInOrder' /\ FirstStart'
  BY <1>5, <1>6 DEF BridgeInv, IssuedInOrder, FirstStart
<1>17. StartsInOrder'
  <2>1. \A m \in DOMAIN shell.issued : shell.issued[m] < coming.doc + 1
    BY <1>8, <1>13
  <2>2. \A j \in DOMAIN inbox' : j = 1 /\ inbox'[j] = e
    BY <1>11
  <2> QED
    BY <1>5, <1>8, <1>9, <1>12, <2>1, <2>2 DEF StartsInOrder, StartAt
<1>18. CallsAreOwn' /\ StatesAreOwn' /\ LoadsAreLate'
  <2>1. \A i \in DOMAIN inbox' : inbox'[i].kind = "start"
    BY <1>9, <1>11
  <2> QED
    BY <2>1 DEF CallsAreOwn, StatesAreOwn, LoadsAreLate
<1>19. scripts' \in Seq(Script) /\ ScriptsAreOwn'
  BY <1>4 DEF ScriptsAreOwn
<1> QED
  BY <1>5, <1>11, <1>14, <1>15, <1>16, <1>17, <1>18, <1>19 DEF BridgeInv, Typed

(***************************************************************************)
(* The shell handles the first event.                                      *)
(***************************************************************************)
(* What it is told of a start it has handled; everything else comes nearer. *)
LEMMA Handled ==
  ASSUME BridgeInv, inbox # <<>>, inbox' = Tail(inbox), UNCHANGED <<view, coming>>, NEW h, h = inbox[1],
         \/ h.kind # "start" /\ UNCHANGED <<shell.issued, shell.session>>
         \/ /\ h.kind = "start" /\ shell'.issued = Append(shell.issued, h.doc)
            /\ shell'.session = IF Len(shell.issued) = 0 THEN 1 ELSE shell.session + 1
  PROVE  /\ inbox' \in Seq(Event) /\ IssuedInOrder' /\ StartsInOrder' /\ FirstStart'
         /\ CallsAreOwn' /\ StatesAreOwn' /\ LoadsAreLate' /\ ComingInv' /\ ViewInv'
         /\ shell'.issued \in Seq(Nat) /\ shell'.session = Len(shell'.issued) /\ shell'.session \in Nat \ {0}
         /\ \A m \in DOMAIN shell.issued : m \in DOMAIN shell'.issued /\ shell'.issued[m] = shell.issued[m]
         /\ \A s, d : SessionOf(s, d) => SessionOf(s, d)'
<1>0. /\ inbox \in Seq(Event) /\ shell.issued \in Seq(Nat)
      /\ shell.session = IF Len(shell.issued) = 0 THEN 1 ELSE Len(shell.issued)
      /\ coming.doc \in Nat \ {0} /\ view.doc \in Nat /\ view.nonce \in Nat
  BY DEF BridgeInv, Typed, ShellInv, ComingInv, ViewInv, PageOwn
<1>1. PICK n \in Nat \ {0} : n = Len(inbox)
  BY <1>0, TailAt
<1>2. /\ inbox' \in Seq(Event) /\ Len(inbox') = n - 1 /\ DOMAIN inbox = 1..n /\ DOMAIN inbox' = 1..(n - 1)
      /\ \A i \in 1..(n - 1) : inbox'[i] = inbox[i + 1]
  <2>1. /\ Tail(inbox) \in Seq(Event) /\ Len(Tail(inbox)) = Len(inbox) - 1
        /\ DOMAIN inbox = 1..Len(inbox) /\ DOMAIN Tail(inbox) = 1..(Len(inbox) - 1)
        /\ \A i \in 1..(Len(inbox) - 1) : Tail(inbox)[i] = inbox[i + 1]
    BY <1>0, TailAt
  <2> QED
    BY <1>1, <2>1
<1>3. h \in Event /\ \A i \in 1..n : inbox[i] \in Event
  BY <1>0, <1>1, EmptyAdds
<1>4. PICK k \in Nat : k = Len(shell.issued)
  BY <1>0, EmptyAdds
<1>5. DOMAIN shell.issued = 1..k /\ \A m \in 1..k : shell.issued[m] \in Nat
  BY <1>0, <1>4, EmptyAdds
<1>6. \A i \in 1..n : inbox[i].kind = "start" => inbox[i].doc \in Nat
  BY <1>3, EventFields DEF Start
<1>7. k = 0 => h.kind = "start"
  BY <1>4 DEF BridgeInv, FirstStart, StartAt
<1>8. /\ shell'.issued \in Seq(Nat) /\ \A m \in 1..k : shell'.issued[m] = shell.issued[m]
      /\ \/ h.kind # "start" /\ DOMAIN shell'.issued = 1..k /\ Len(shell'.issued) = k /\ k # 0
         \/ /\ h.kind = "start" /\ DOMAIN shell'.issued = 1..(k + 1) /\ Len(shell'.issued) = k + 1
            /\ shell'.issued[k + 1] = h.doc
  <2>1. CASE h.kind # "start"
    BY <1>0, <1>4, <1>5, <1>7, <2>1
  <2>2. CASE h.kind = "start"
    <3>1. h.doc \in Nat /\ shell'.issued = Append(shell.issued, h.doc)
      BY <1>1, <1>6, <2>2
    <3> QED
      BY <1>0, <1>4, <2>2, <3>1, AppendAt
  <2> QED
    BY <2>1, <2>2
<1>9. /\ shell'.session = Len(shell'.issued) /\ shell'.session \in Nat \ {0}
      /\ shell.session <= shell'.session /\ shell.session \in Nat \ {0}
  <2>1. PICK v \in Nat : v = shell.session /\ v = IF k = 0 THEN 1 ELSE k
    BY <1>0, <1>4
  <2>2. CASE h.kind # "start"
    <3>1. Len(shell'.issued) = k /\ k # 0 /\ shell'.session = v
      BY <1>8, <2>1, <2>2
    <3> QED
      BY <2>1, <3>1
  <2>3. CASE h.kind = "start"
    <3>1. Len(shell'.issued) = k + 1 /\ shell'.session = IF k = 0 THEN 1 ELSE v + 1
      BY <1>4, <1>8, <2>1, <2>3
    <3> QED
      BY <2>1, <3>1
  <2> QED
    BY <2>2, <2>3
<1>10. \A m \in DOMAIN shell.issued : m \in DOMAIN shell'.issued /\ shell'.issued[m] = shell.issued[m]
  BY <1>5, <1>8
<1>11. \A s, d : SessionOf(s, d) => SessionOf(s, d)'
  BY <1>10 DEF SessionOf
<1>12. \A m \in DOMAIN shell'.issued :
          \/ m \in DOMAIN shell.issued /\ shell'.issued[m] = shell.issued[m]
          \/ m = k + 1 /\ h.kind = "start" /\ shell'.issued[m] = h.doc
  BY <1>5, <1>8
<1>13. \A d : \A i \in 1..n : StartedBefore(d, i + 1) => StartedBefore(d, i)'
  <2> SUFFICES ASSUME NEW d, NEW i \in 1..n, StartedBefore(d, i + 1) PROVE StartedBefore(d, i)'
    OBVIOUS
  <2>1. CASE Issued(d)
    BY <1>10, <2>1 DEF StartedBefore, Issued
  <2>2. CASE \E j \in DOMAIN inbox : j < i + 1 /\ StartAt(j) /\ inbox[j].doc = d
    <3>1. PICK j \in 1..n : j < i + 1 /\ inbox[j].kind = "start" /\ inbox[j].doc = d
      BY <1>2, <2>2 DEF StartAt
    <3>2. CASE j = 1
      <4>1. k + 1 \in DOMAIN shell'.issued /\ shell'.issued[k + 1] = d
        BY <1>8, <3>1, <3>2
      <4> QED
        BY <4>1 DEF StartedBefore, Issued
    <3>3. CASE j # 1
      <4>1. j - 1 \in 1..(n - 1) /\ j - 1 < i /\ inbox'[j - 1] = inbox[j]
        BY <1>2, <3>1, <3>3
      <4> QED
        BY <1>2, <3>1, <4>1 DEF StartedBefore, StartAt
    <3> QED
      BY <3>2, <3>3
  <2> QED
    BY <2>1, <2>2 DEF StartedBefore
<1>14. \A d : Started(d) => Started(d)'
  <2> SUFFICES ASSUME NEW d, Started(d) PROVE Started(d)'
    OBVIOUS
  <2>1. StartedBefore(d, n + 1) /\ n \in 1..n
    BY <1>1 DEF Started
  <2>2. StartedBefore(d, n)'
    BY <1>13, <2>1
  <2>3. Len(inbox') + 1 = n
    BY <1>1, <1>2
  <2> QED
    BY <2>2, <2>3 DEF Started, StartedBefore, Issued, StartAt
(* What a nonce reaches, when the first session's document is told of.     *)
<1>15. \A nonce, d : \A i \in 1..(n + 1) :
          NotBefore(nonce, d) /\ nonce <= shell.session /\ StartedBefore(d, i) => NotBefore(nonce, d)'
  <2> SUFFICES ASSUME NEW nonce, NEW d, NEW i \in 1..(n + 1), NotBefore(nonce, d), nonce <= shell.session,
                      StartedBefore(d, i), nonce \in DOMAIN shell'.issued
               PROVE  shell'.issued[nonce] <= d
    BY DEF NotBefore
  <2>1. CASE nonce \in DOMAIN shell.issued
    BY <1>10, <2>1 DEF NotBefore
  <2>2. CASE nonce \notin DOMAIN shell.issued
    <3>1. nonce = k + 1 /\ h.kind = "start" /\ shell'.issued[nonce] = h.doc
      BY <1>12, <2>2
    <3>2. k = 0
      BY <1>0, <1>4, <3>1
    <3>3. PICK j \in 1..n : inbox[j].kind = "start" /\ inbox[j].doc = d
      BY <1>2, <1>5, <3>2 DEF StartedBefore, Issued, StartAt
    <3>4. 1 < j => h.doc < d
      BY <1>2, <3>1, <3>3 DEF BridgeInv, StartsInOrder, StartAt
    <3>5. h.doc \in Nat /\ d \in Nat
      BY <1>1, <1>6, <3>1, <3>3
    <3> QED
      BY <3>1, <3>3, <3>4, <3>5
  <2> QED
    BY <2>1, <2>2
<1>16. IssuedInOrder'
  <2> SUFFICES ASSUME NEW m \in DOMAIN shell'.issued, NEW l \in DOMAIN shell'.issued, m < l
               PROVE  shell'.issued[m] < shell'.issued[l]
    BY DEF IssuedInOrder
  <2>1. CASE l \in DOMAIN shell.issued
    <3>1. m \in 1..(k + 1) /\ l \in 1..k
      <4>1. l \in 1..k
        BY <1>5, <2>1
      <4>2. DOMAIN shell'.issued = 1..k \/ DOMAIN shell'.issued = 1..(k + 1)
        BY <1>8
      <4> QED
        BY <4>1, <4>2
    <3>2. m \in DOMAIN shell.issued
      BY <1>5, <3>1
    <3> QED
      BY <1>10, <2>1, <3>2 DEF BridgeInv, IssuedInOrder
  <2>2. CASE l \notin DOMAIN shell.issued
    <3>1. h.kind = "start" /\ shell'.issued[l] = h.doc /\ l = k + 1 /\ m \in DOMAIN shell.issued
      BY <1>5, <1>8, <1>12, <2>2
    <3>2. shell.issued[m] < inbox[1].doc
      BY <1>1, <1>2, <3>1 DEF BridgeInv, StartsInOrder, StartAt
    <3> QED
      BY <1>10, <3>1, <3>2
  <2> QED
    BY <2>1, <2>2
<1>17. StartsInOrder'
  <2> SUFFICES ASSUME NEW i \in 1..(n - 1), inbox'[i].kind = "start"
               PROVE  /\ inbox'[i].doc <= coming.doc
                      /\ \A m \in DOMAIN shell'.issued : shell'.issued[m] < inbox'[i].doc
                      /\ \A j \in 1..(n - 1) : j < i /\ inbox'[j].kind = "start" => inbox'[j].doc < inbox'[i].doc
    BY <1>2 DEF StartsInOrder, StartAt
  <2>1. i + 1 \in 1..n /\ inbox'[i] = inbox[i + 1]
    BY <1>1, <1>2
  <2>2. /\ inbox[i + 1].doc <= coming.doc
        /\ \A m \in DOMAIN shell.issued : shell.issued[m] < inbox[i + 1].doc
        /\ \A j \in 1..n : j < i + 1 /\ inbox[j].kind = "start" => inbox[j].doc < inbox[i + 1].doc
    BY <1>2, <2>1 DEF BridgeInv, StartsInOrder, StartAt
  <2>3. h.kind = "start" => h.doc < inbox[i + 1].doc
    BY <1>1, <2>2
  <2>4. \A m \in DOMAIN shell'.issued : shell'.issued[m] < inbox'[i].doc
    BY <1>12, <2>1, <2>2, <2>3
  <2>5. \A j \in 1..(n - 1) : j < i /\ inbox'[j].kind = "start" => inbox'[j].doc < inbox'[i].doc
    <3> SUFFICES ASSUME NEW j \in 1..(n - 1), j < i, inbox'[j].kind = "start"
                 PROVE  inbox'[j].doc < inbox'[i].doc
      OBVIOUS
    <3>1. j + 1 \in 1..n /\ j + 1 < i + 1 /\ inbox'[j] = inbox[j + 1]
      BY <1>1, <1>2
    <3> QED
      BY <2>1, <2>2, <3>1
  <2> QED
    BY <2>1, <2>2, <2>4, <2>5
<1>18. FirstStart'
  BY <1>4, <1>8 DEF FirstStart
<1>19. CallsAreOwn'
  <2> SUFFICES ASSUME NEW i \in DOMAIN inbox', (inbox[i])'.kind = "WEB_READY"
               PROVE  /\ StartedBefore(inbox[i].doc, i)' /\ (inbox[i].call[1] = inbox[i].doc)'
                      /\ NotBefore(inbox[i].nonce, inbox[i].doc)' /\ (inbox[i].nonce <= shell.session)'
    BY DEF CallsAreOwn
  <2>1. PICK x : x = inbox'[i] /\ x = inbox[i + 1] /\ x.kind = "WEB_READY"
    BY <1>2
  <2>2. i \in 1..n /\ i + 1 \in 1..n
    BY <1>1, <1>2
  <2>3. StartedBefore(x.doc, i + 1) /\ x.call[1] = x.doc /\ NotBefore(x.nonce, x.doc) /\ x.nonce <= shell.session
    BY <1>2, <2>1, <2>2 DEF BridgeInv, CallsAreOwn
  <2>4. StartedBefore(x.doc, i)'
    BY <1>13, <2>2, <2>3
  <2>5. NotBefore(x.nonce, x.doc)'
    <3>1. i + 1 \in 1..(n + 1)
      BY <2>2
    <3> QED
      BY <1>15, <2>3, <3>1
  <2>6. x.nonce <= shell'.session
    <3>1. x.nonce \in Nat
      BY <1>3, <2>1, <2>2, EventFields DEF ReadyCall
    <3> QED
      BY <1>9, <2>3, <3>1
  <2>7. StartedBefore(inbox[i].doc, i)'
    BY <2>1, <2>4 DEF StartedBefore, Issued, StartAt
  <2> QED
    BY <2>1, <2>3, <2>5, <2>6, <2>7 DEF NotBefore
<1>20. StatesAreOwn'
  <2> SUFFICES ASSUME NEW i \in 1..(n - 1), inbox'[i].kind = "AUTH_STATE"
               PROVE  SessionOf(inbox[i].session, inbox[i].doc)'
    BY <1>2 DEF StatesAreOwn
  <2>1. PICK x : x = inbox'[i] /\ x = inbox[i + 1]
    BY <1>2
  <2>2. i + 1 \in 1..n
    BY <1>1
  <2>3. SessionOf(x.session, x.doc)
    BY <1>2, <2>1, <2>2 DEF BridgeInv, StatesAreOwn
  <2>4. SessionOf(x.session, x.doc)'
    BY <1>11, <2>3
  <2> QED
    BY <2>1, <2>4 DEF SessionOf
<1>21. LoadsAreLate'
  <2> SUFFICES ASSUME NEW i \in 1..(n - 1), inbox'[i].kind = "load"
               PROVE  /\ \A m \in DOMAIN shell'.issued : shell'.issued[m] <= view.doc
                      /\ \A j \in 1..(n - 1) : j < i /\ inbox'[j].kind = "start" => inbox'[j].doc <= view.doc
    BY <1>2 DEF LoadsAreLate, StartAt
  <2>1. i + 1 \in 1..n /\ inbox'[i] = inbox[i + 1]
    BY <1>1, <1>2
  <2>2. /\ \A m \in DOMAIN shell.issued : shell.issued[m] <= view.doc
        /\ \A j \in 1..n : j < i + 1 /\ inbox[j].kind = "start" => inbox[j].doc <= view.doc
    BY <1>2, <2>1 DEF BridgeInv, LoadsAreLate, StartAt
  <2>3. h.kind = "start" => h.doc <= view.doc
    BY <1>1, <2>2
  <2>4. \A j \in 1..(n - 1) : j < i /\ inbox'[j].kind = "start" => inbox'[j].doc <= view.doc
    <3> SUFFICES ASSUME NEW j \in 1..(n - 1), j < i, inbox'[j].kind = "start"
                 PROVE  inbox'[j].doc <= view.doc
      OBVIOUS
    <3>1. j + 1 \in 1..n /\ j + 1 < i + 1 /\ inbox'[j] = inbox[j + 1]
      BY <1>1, <1>2
    <3> QED
      BY <2>2, <3>1
  <2> QED
    BY <1>12, <2>2, <2>3, <2>4
<1>22. ComingInv'
  <2>1. Started(coming.doc)'
    <3>1. PICK c : c = coming.doc
      OBVIOUS
    <3>2. Started(c)'
      BY <1>14, <3>1 DEF BridgeInv, ComingInv
    <3> QED
      BY <3>1, <3>2 DEF Started, StartedBefore, Issued
  <2>2. h.kind = "start" => h.doc <= coming.doc
    BY <1>1, <1>2 DEF BridgeInv, StartsInOrder, StartAt
  <2>3. \A m \in DOMAIN shell'.issued : shell'.issued[m] <= coming.doc
    BY <1>12, <2>2 DEF BridgeInv, ComingInv
  <2> QED
    BY <2>1, <2>3 DEF BridgeInv, ComingInv
<1>23. ViewInv'
  <2>1. PICK p : p = view
    OBVIOUS
  <2>2. PageOwn(p) /\ PageLoads(p)
    BY <2>1 DEF BridgeInv, ViewInv
  <2>3. p.doc # 0 => Started(p.doc)'
    BY <1>14, <2>2 DEF PageOwn
  <2>4. NotBefore(p.nonce, p.doc)'
    <3>1. CASE p.nonce = 0
      BY <1>8, <3>1 DEF NotBefore
    <3>2. CASE p.nonce # 0
      <4>1. StartedBefore(p.doc, n + 1) /\ NotBefore(p.nonce, p.doc) /\ p.nonce <= shell.session
        BY <1>1, <2>2, <3>2 DEF PageOwn, Started
      <4>2. n + 1 \in 1..(n + 1)
        BY <1>1
      <4> QED
        BY <1>15, <4>1, <4>2
    <3> QED
      BY <3>1, <3>2
  <2>5. p.nonce \in Nat /\ p.nonce <= shell'.session
    BY <1>9, <2>2 DEF PageOwn
  <2>6. p.selected # 0 => SessionOf(p.selected, p.doc)'
    BY <1>11, <2>2 DEF PageOwn
  <2>7. PageOwn(p)'
    BY <2>2, <2>3, <2>4, <2>5, <2>6 DEF PageOwn
  <2>8. PageOwn(p)' => PageOwn(view)'
    BY <2>1 DEF PageOwn, NotBefore, SessionOf, Started, StartedBefore, Issued
  <2>9. PageLoads(view)'
    BY <2>1, <2>2 DEF PageLoads, Loading
  <2> QED
    BY <2>7, <2>8, <2>9 DEF ViewInv
<1> QED
  BY <1>2, <1>8, <1>9, <1>10, <1>11, <1>16, <1>17, <1>18, <1>19, <1>20, <1>21, <1>22, <1>23

(* Whatever the shell then takes for its state and injects.                *)
LEMMA EventKeeps ==
  ASSUME BridgeInv, inbox # <<>>, inbox' = Tail(inbox), UNCHANGED <<view, coming>>, NEW h, h = inbox[1],
         \/ h.kind # "start" /\ UNCHANGED <<shell.issued, shell.session>>
         \/ /\ h.kind = "start" /\ shell'.issued = Append(shell.issued, h.doc)
            /\ shell'.session = IF Len(shell.issued) = 0 THEN 1 ELSE shell.session + 1,
         shell'.issued \in Seq(Nat) /\ shell'.session = Len(shell'.issued) /\ shell'.session \in Nat \ {0}
           => ShellInv',
         \/ UNCHANGED scripts
         \/ \E s \in Script :
              /\ scripts' = Append(scripts, s)
              /\ s.kind = "bridge" =>
                   s.nonce \in DOMAIN shell.issued /\ shell.issued[s.nonce] <= view.doc
              /\ s.kind = "HELLO" => SessionOf(s.session, s.replyTo[1])
  PROVE  BridgeInv'
<1>1. /\ inbox' \in Seq(Event) /\ IssuedInOrder' /\ StartsInOrder' /\ FirstStart'
      /\ CallsAreOwn' /\ StatesAreOwn' /\ LoadsAreLate' /\ ComingInv' /\ ViewInv'
      /\ shell'.issued \in Seq(Nat) /\ shell'.session = Len(shell'.issued) /\ shell'.session \in Nat \ {0}
      /\ \A m \in DOMAIN shell.issued : m \in DOMAIN shell'.issued /\ shell'.issued[m] = shell.issued[m]
      /\ \A s, d : SessionOf(s, d) => SessionOf(s, d)'
  BY Handled
<1>2. ShellInv'
  BY <1>1
<1>3. scripts \in Seq(Script)
  BY DEF BridgeInv, Typed
<1>4. /\ scripts' \in Seq(Script)
      /\ \A i \in DOMAIN scripts' :
           /\ scripts'[i].kind = "bridge" =>
                scripts'[i].nonce \in DOMAIN shell.issued /\ shell.issued[scripts'[i].nonce] <= view.doc
           /\ scripts'[i].kind = "HELLO" => SessionOf(scripts'[i].session, scripts'[i].replyTo[1])
  <2>1. CASE UNCHANGED scripts
    BY <1>3, <2>1 DEF BridgeInv, ScriptsAreOwn
  <2>2. CASE \E s \in Script :
              /\ scripts' = Append(scripts, s)
              /\ s.kind = "bridge" =>
                   s.nonce \in DOMAIN shell.issued /\ shell.issued[s.nonce] <= view.doc
              /\ s.kind = "HELLO" => SessionOf(s.session, s.replyTo[1])
    <3>1. PICK s \in Script :
              /\ scripts' = Append(scripts, s)
              /\ s.kind = "bridge" =>
                   s.nonce \in DOMAIN shell.issued /\ shell.issued[s.nonce] <= view.doc
              /\ s.kind = "HELLO" => SessionOf(s.session, s.replyTo[1])
      BY <2>2
    <3>2. /\ scripts' \in Seq(Script) /\ DOMAIN scripts' = 1..(Len(scripts) + 1) /\ Len(scripts) \in Nat
          /\ DOMAIN scripts = 1..Len(scripts)
          /\ \A i \in 1..Len(scripts) : scripts'[i] = scripts[i]
          /\ scripts'[Len(scripts) + 1] = s
      BY <1>3, <3>1, AppendAt
    <3>3. \A i \in DOMAIN scripts' : \/ i \in DOMAIN scripts /\ scripts'[i] = scripts[i]
                                     \/ scripts'[i] = s
      BY <3>2
    <3> QED
      BY <3>1, <3>2, <3>3 DEF BridgeInv, ScriptsAreOwn
  <2> QED
    BY <2>1, <2>2
<1>5. ScriptsAreOwn'
  <2> SUFFICES ASSUME NEW i \in DOMAIN scripts'
               PROVE  /\ scripts'[i].kind = "bridge" =>
                           /\ scripts'[i].nonce \in DOMAIN shell'.issued
                           /\ shell'.issued[scripts'[i].nonce] <= view.doc
                      /\ scripts'[i].kind = "HELLO" =>
                           SessionOf(scripts[i].session, scripts[i].replyTo[1])'
    BY DEF ScriptsAreOwn
  <2>1. PICK s : s = scripts'[i]
    OBVIOUS
  <2>2. s.kind = "HELLO" => SessionOf(s.session, s.replyTo[1])'
    BY <1>1, <1>4, <2>1
  <2>3. s.kind = "bridge" => s.nonce \in DOMAIN shell'.issued /\ shell'.issued[s.nonce] <= view.doc
    BY <1>1, <1>4, <2>1
  <2> QED
    BY <2>1, <2>2, <2>3 DEF SessionOf
<1> QED
  BY <1>1, <1>2, <1>4, <1>5 DEF BridgeInv, Typed

LEMMA HandleEventKeeps == ASSUME BridgeInv, HandleEvent PROVE BridgeInv'
<1>1. PICK h : h = inbox[1]
  OBVIOUS
<1>2. inbox # <<>> /\ inbox' = Tail(inbox) /\ UNCHANGED <<view, coming>>
  BY DEF HandleEvent
<1>3. inbox \in Seq(Event) /\ h \in Event /\ Head(inbox) = h /\ 1 \in DOMAIN inbox
  BY <1>1, <1>2, TailAt DEF BridgeInv, Typed
<1>4. shell.issued \in Seq(Nat) /\ DOMAIN shell.issued = 1..Len(shell.issued) /\ Len(shell.issued) \in Nat
  BY EmptyAdds DEF BridgeInv, ShellInv
<1>5. (shell.issued = <<>>) <=> (Len(shell.issued) = 0)
  BY <1>4
(* A new session, without anything of the one before.                      *)
<1>6. CASE h.kind = "start"
  <2>1. shell' = LoadStarted(shell, h) /\ UNCHANGED scripts
    BY <1>3, <1>6 DEF HandleEvent, Shows
  <2>2. h.url \in Internal
    BY <1>3, <1>6, EventFields DEF Start
  <2>3. PICK n : n = IF shell.issued = <<>> THEN shell.session ELSE shell.session + 1
    OBVIOUS
  <2>4. PICK q : q = Append(shell.issued, h.doc)
    OBVIOUS
  <2>5. PICK state \in {shell.state, "loading"} : state = IF shell.documentVisible THEN shell.state ELSE "loading"
    OBVIOUS
  <2>6. shell' = [shell EXCEPT !.enabled = FALSE, !.connected = 0, !.pendingUrl = h.url, !.loadFailed = FALSE,
                               !.accepted = Missing, !.session = n, !.issued = q, !.state = state]
    BY <2>1, <2>3, <2>4, <2>5 DEF LoadStarted, Disconnected, BridgeInv, ShellInv
  <2>7. shell'.issued = Append(shell.issued, h.doc) /\ shell'.session = n
    BY <2>4, <2>6 DEF BridgeInv, ShellInv
  <2>8. n = IF Len(shell.issued) = 0 THEN 1 ELSE shell.session + 1
    BY <1>5, <2>3 DEF BridgeInv, ShellInv
  <2>9. ASSUME shell'.issued \in Seq(Nat), shell'.session = Len(shell'.issued), shell'.session \in Nat \ {0}
        PROVE  ShellInv'
    <3>1. DOMAIN shell' = DOMAIN shell /\ shell'.state = state
          /\ shell'.connected = 0 /\ shell'.enabled = FALSE /\ shell'.accepted = Missing
          /\ shell'.pendingUrl = h.url /\ shell'.visibleUrl = shell.visibleUrl
          /\ shell'.documentUrl = shell.documentUrl /\ shell'.failedUrl = shell.failedUrl
      BY <2>6 DEF BridgeInv, ShellInv
    <3> QED
      BY <2>2, <2>5, <2>9, <3>1 DEF BridgeInv, ShellInv
  <2> QED
    BY <1>1, <1>2, <1>6, <2>1, <2>7, <2>8, <2>9, EventKeeps
(* Otherwise the session stays.                                            *)
<1>7. ASSUME h.kind # "start", NEW s, shell' = s, s.issued = shell.issued, s.session = shell.session,
             DOMAIN s = DOMAIN shell, s.state \in {"loading", "ready", "load-error", "renderer-error"},
             s.connected \in {0, shell.session},
             s.pendingUrl \in Internal, s.visibleUrl \in Internal, s.documentUrl \in Internal,
             s.failedUrl \in Internal \cup {Missing},
             s.enabled \/ s.connected # 0 => s.state = "ready" /\ ~s.loadFailed,
             s.accepted = shell.accepted \/ s.accepted.doc = shell.issued[shell.session],
             \/ UNCHANGED scripts
             \/ \E x \in Script :
                  /\ scripts' = Append(scripts, x)
                  /\ x.kind = "bridge" =>
                       x.nonce \in DOMAIN shell.issued /\ shell.issued[x.nonce] <= view.doc
                  /\ x.kind = "HELLO" => SessionOf(x.session, x.replyTo[1])
      PROVE  BridgeInv'
  <2>1. UNCHANGED <<shell.issued, shell.session>>
    BY <1>7
  <2>2. ASSUME shell'.session = Len(shell'.issued), shell'.session \in Nat \ {0} PROVE ShellInv'
    <3>1. shell.session = Len(shell.issued) /\ Len(shell.issued) # 0
      BY <2>1, <2>2
    <3>2. shell'.accepted # Missing => shell'.accepted.doc = shell.issued[shell.session]
      BY <1>7 DEF BridgeInv, ShellInv
    <3> QED
      BY <1>7, <3>1, <3>2 DEF BridgeInv, ShellInv
  <2> QED
    BY <1>1, <1>2, <1>7, <2>1, <2>2, EventKeeps
<1>8. h.kind # "start" => Len(shell.issued) # 0 /\ shell.session = Len(shell.issued) /\ shell.session \in Nat
  BY <1>1, <1>4 DEF BridgeInv, ShellInv, FirstStart, StartAt
<1>9. CASE h.kind = "load" /\ ~shell.loadFailed
  <2>1. PICK s : s = [shell EXCEPT !.visibleUrl = h.url, !.documentVisible = TRUE, !.failedUrl = Missing,
                                   !.enabled = TRUE, !.state = "ready"]
    OBVIOUS
  <2>2. PICK x : x = [kind |-> "bridge", nonce |-> shell.session]
    OBVIOUS
  <2>3. shell' = s /\ scripts' = scripts \o <<x>>
    BY <1>3, <1>9, <2>1, <2>2 DEF HandleEvent, Injects, Loaded, BridgeScript
  <2>4. h.url \in Internal
    BY <1>3, <1>9, EventFields DEF Report
  <2>5. x \in Script /\ x.kind = "bridge" /\ x.nonce \in DOMAIN shell.issued /\ shell.issued[x.nonce] <= view.doc
    <3>1. x \in BridgeSent
      BY <1>8, <1>9, <2>2 DEF BridgeSent
    <3>2. \A m \in DOMAIN shell.issued : shell.issued[m] <= view.doc
      BY <1>1, <1>3, <1>9 DEF BridgeInv, LoadsAreLate
    <3>3. shell.session \in DOMAIN shell.issued
      BY <1>4, <1>8, <1>9
    <3> QED
      BY <2>2, <3>1, <3>2, <3>3 DEF Script
  <2>6. scripts' = Append(scripts, x)
    BY <2>3, <2>5, AppendAt DEF BridgeInv, Typed
  <2>7. /\ s.issued = shell.issued /\ s.session = shell.session /\ DOMAIN s = DOMAIN shell
        /\ s.state = "ready" /\ s.connected \in {0, shell.session}
        /\ s.pendingUrl \in Internal /\ s.visibleUrl \in Internal /\ s.documentUrl \in Internal
        /\ s.failedUrl = Missing /\ s.accepted = shell.accepted /\ ~s.loadFailed
    BY <1>9, <2>1, <2>4 DEF BridgeInv, ShellInv
  <2> QED
    BY <1>7, <1>9, <2>3, <2>5, <2>6, <2>7
<1>10. ASSUME h.kind \in {"error", "httpError"}, shell' = LoadErrorShown(shell, h.url), UNCHANGED scripts
       PROVE  BridgeInv'
  <2>1. PICK s : s = LoadErrorShown(shell, h.url)
    OBVIOUS
  <2>2. h.url \in Internal
    BY <1>3, <1>10, EventFields DEF Report
  <2>3. s = [shell EXCEPT !.enabled = FALSE, !.connected = 0, !.failedUrl = h.url, !.loadFailed = TRUE,
                          !.state = "load-error"]
    BY <2>1 DEF LoadErrorShown, Disconnected, BridgeInv, ShellInv
  <2>4. /\ s.issued = shell.issued /\ s.session = shell.session /\ DOMAIN s = DOMAIN shell
        /\ s.state = "load-error" /\ s.connected = 0 /\ s.enabled = FALSE
        /\ s.pendingUrl \in Internal /\ s.visibleUrl \in Internal /\ s.documentUrl \in Internal
        /\ s.failedUrl \in Internal /\ s.accepted = shell.accepted
    BY <2>2, <2>3 DEF BridgeInv, ShellInv
  <2> QED
    BY <1>7, <1>10, <2>1, <2>4
<1>11. CASE h.kind = "gone"
  <2>1. PICK s : s = RendererErrorShown(shell)
    OBVIOUS
  <2>2. s = [shell EXCEPT !.enabled = FALSE, !.connected = 0, !.loadFailed = TRUE, !.state = "renderer-error"]
    BY <2>1 DEF RendererErrorShown, Disconnected, BridgeInv, ShellInv
  <2>3. shell' = s /\ UNCHANGED scripts
    BY <1>3, <1>11, <2>1 DEF HandleEvent, Shows
  <2>4. /\ s.issued = shell.issued /\ s.session = shell.session /\ DOMAIN s = DOMAIN shell
        /\ s.state = "renderer-error" /\ s.connected = 0 /\ s.enabled = FALSE
        /\ s.pendingUrl \in Internal /\ s.visibleUrl \in Internal /\ s.documentUrl \in Internal
        /\ s.failedUrl \in Internal \cup {Missing} /\ s.accepted = shell.accepted
    BY <2>2 DEF BridgeInv, ShellInv
  <2> QED
    BY <1>7, <1>11, <2>3, <2>4
<1>12. CASE h.kind = "moved"
  <2>1. PICK s : s = [shell EXCEPT !.visibleUrl = h.url]
    OBVIOUS
  <2>2. shell' = s /\ UNCHANGED scripts
    BY <1>3, <1>12, <2>1 DEF HandleEvent, Shows
  <2>3. h.url \in Internal
    BY <1>3, <1>12, EventFields DEF Report
  <2>4. /\ s.issued = shell.issued /\ s.session = shell.session /\ DOMAIN s = DOMAIN shell
        /\ s.state = shell.state /\ s.connected = shell.connected /\ s.enabled = shell.enabled
        /\ s.pendingUrl \in Internal /\ s.visibleUrl \in Internal /\ s.documentUrl \in Internal
        /\ s.failedUrl \in Internal \cup {Missing} /\ s.accepted = shell.accepted
        /\ s.loadFailed = shell.loadFailed
    BY <2>1, <2>3 DEF BridgeInv, ShellInv
  <2>5. shell.enabled \/ shell.connected # 0 => shell.state = "ready" /\ ~shell.loadFailed
    BY DEF BridgeInv, ShellInv
  <2>6. /\ shell.state \in {"loading", "ready", "load-error", "renderer-error"}
        /\ shell.connected \in {0, shell.session}
    BY DEF BridgeInv, ShellInv
  <2> QED
    BY <1>7, <1>12, <2>2, <2>4, <2>5, <2>6
(* Who calls under the session's nonce is the session's document.          *)
<1>13. CASE h.kind = "WEB_READY" /\ Trusted(shell, h)
  <2>1. PICK s : s = [shell EXCEPT !.connected = shell.session]
    OBVIOUS
  <2>2. PICK x : x = [kind |-> "HELLO", nonce |-> shell.session, session |-> shell.session, replyTo |-> h.call]
    OBVIOUS
  <2>3. shell' = s /\ scripts' = scripts \o <<x>>
    BY <1>3, <1>13, <2>1, <2>2 DEF HandleEvent, Injects, Greeted, Greeting
  <2>4. x \in Script /\ x.kind = "HELLO" /\ SessionOf(x.session, x.replyTo[1])
    <3>1. h.call \in Nat \X Nat /\ h.doc \in Nat
      BY <1>3, <1>13, EventFields DEF ReadyCall
    <3>2. x \in HelloSent
      BY <1>8, <1>13, <2>2, <3>1 DEF HelloSent
    <3>3. StartedBefore(h.doc, 1) /\ h.call[1] = h.doc /\ NotBefore(shell.session, h.doc)
      BY <1>1, <1>3, <1>13 DEF BridgeInv, CallsAreOwn, Trusted
    <3>4. DOMAIN inbox = 1..Len(inbox) /\ Len(inbox) \in Nat
      BY <1>3, EmptyAdds
    <3>5. PICK m \in DOMAIN shell.issued : shell.issued[m] = h.doc
      BY <3>3, <3>4 DEF StartedBefore, Issued
    <3>6. shell.session \in DOMAIN shell.issued /\ shell.issued[shell.session] <= h.doc
      BY <1>4, <1>8, <1>13, <3>3 DEF NotBefore
    <3>7. m < shell.session => shell.issued[m] < shell.issued[shell.session]
      BY <3>6 DEF BridgeInv, IssuedInOrder
    <3>8. shell.session \in Nat /\ shell.issued[m] \in Nat /\ shell.issued[shell.session] \in Nat /\ m \in 1..shell.session
      BY <1>4, <1>8, <1>13, <3>6
    <3>9. m = shell.session
      BY <3>5, <3>6, <3>7, <3>8
    <3> QED
      BY <2>2, <3>2, <3>3, <3>5, <3>6, <3>9 DEF Script, SessionOf
  <2>5. scripts' = Append(scripts, x)
    BY <2>3, <2>4, AppendAt DEF BridgeInv, Typed
  <2>6. /\ s.issued = shell.issued /\ s.session = shell.session /\ DOMAIN s = DOMAIN shell
        /\ s.state = "ready" /\ s.connected = shell.session /\ ~s.loadFailed
        /\ s.pendingUrl \in Internal /\ s.visibleUrl \in Internal /\ s.documentUrl \in Internal
        /\ s.failedUrl \in Internal \cup {Missing} /\ s.accepted = shell.accepted
    BY <1>13, <2>1 DEF BridgeInv, ShellInv, Trusted
  <2> QED
    BY <1>7, <1>13, <2>3, <2>4, <2>5, <2>6
<1>14. CASE h.kind = "AUTH_STATE" /\ Trusted(shell, h) /\ OfSession(shell, h) /\ DecideAuthState(shell, h)
  <2>1. PICK s : s = [shell EXCEPT !.accepted = [doc |-> h.doc, epoch |-> h.epoch]]
    OBVIOUS
  <2>2. shell' = s /\ scripts' = scripts \o Question(shell, h)
    BY <1>3, <1>14, <2>1 DEF HandleEvent, Injects, AuthAccepted
  <2>3. h.doc = shell.issued[shell.session] /\ h.epoch \in Nat
    <3>1. SessionOf(h.session, h.doc)
      BY <1>1, <1>3, <1>14 DEF BridgeInv, StatesAreOwn
    <3>2. h.epoch \in Nat
      BY <1>3, <1>14, EventFields DEF StateTold
    <3> QED
      BY <1>14, <3>1, <3>2 DEF SessionOf, OfSession
  <2>4. PICK x : x = [kind |-> "feature", nonce |-> shell.session, session |-> shell.session, epoch |-> h.epoch]
    OBVIOUS
  <2>5. x \in Script /\ x.kind = "feature"
    <3>1. x \in FeatureSent
      BY <1>8, <1>14, <2>3, <2>4 DEF FeatureSent
    <3> QED
      BY <2>4, <3>1 DEF Script
  <2>6. UNCHANGED scripts \/ scripts' = Append(scripts, x)
    <3>1. Question(shell, h) = <<>> \/ Question(shell, h) = <<x>>
      BY <2>4 DEF Question
    <3>2. scripts \in Seq(Script)
      BY DEF BridgeInv, Typed
    <3>3. scripts \o <<>> = scripts /\ scripts \o <<x>> = Append(scripts, x)
      BY <2>5, <3>2, AppendAt, EmptyAdds
    <3> QED
      BY <2>2, <3>1, <3>3
  <2>7. /\ s.issued = shell.issued /\ s.session = shell.session /\ DOMAIN s = DOMAIN shell
        /\ s.state = shell.state /\ s.connected = shell.connected /\ s.enabled = shell.enabled
        /\ s.pendingUrl \in Internal /\ s.visibleUrl \in Internal /\ s.documentUrl \in Internal
        /\ s.failedUrl \in Internal \cup {Missing} /\ s.accepted.doc = shell.issued[shell.session]
        /\ s.loadFailed = shell.loadFailed
    BY <2>1, <2>3 DEF BridgeInv, ShellInv
  <2>8. /\ shell.enabled \/ shell.connected # 0 => shell.state = "ready" /\ ~shell.loadFailed
        /\ shell.state \in {"loading", "ready", "load-error", "renderer-error"}
        /\ shell.connected \in {0, shell.session}
    BY DEF BridgeInv, ShellInv
  <2>9. \/ UNCHANGED scripts
        \/ \E y \in Script :
             /\ scripts' = Append(scripts, y)
             /\ y.kind = "bridge" =>
                  y.nonce \in DOMAIN shell.issued /\ shell.issued[y.nonce] <= view.doc
             /\ y.kind = "HELLO" => SessionOf(y.session, y.replyTo[1])
    BY <2>5, <2>6
  <2> QED
    BY <1>7, <1>14, <2>2, <2>7, <2>8, <2>9
<1>15. CASE h.kind # "start" /\ UNCHANGED <<shell, scripts>>
  <2>1. PICK s : s = shell
    OBVIOUS
  <2>2. /\ s.state \in {"loading", "ready", "load-error", "renderer-error"}
        /\ s.connected \in {0, shell.session} /\ s.pendingUrl \in Internal /\ s.visibleUrl \in Internal
        /\ s.documentUrl \in Internal /\ s.failedUrl \in Internal \cup {Missing}
        /\ s.enabled \/ s.connected # 0 => s.state = "ready" /\ ~s.loadFailed
    BY <2>1 DEF BridgeInv, ShellInv
  <2> QED
    BY <1>7, <1>15, <2>1, <2>2
<1>16. \/ h.kind = "start"
       \/ h.kind = "load" /\ ~shell.loadFailed
       \/ h.kind \in {"error", "httpError"} /\ shell' = LoadErrorShown(shell, h.url) /\ UNCHANGED scripts
       \/ h.kind = "gone" \/ h.kind = "moved"
       \/ h.kind = "WEB_READY" /\ Trusted(shell, h)
       \/ h.kind = "AUTH_STATE" /\ Trusted(shell, h) /\ OfSession(shell, h) /\ DecideAuthState(shell, h)
       \/ h.kind # "start" /\ UNCHANGED <<shell, scripts>>
  BY <1>3 DEF HandleEvent, Shows
<1> QED
  BY <1>6, <1>9, <1>10, <1>11, <1>12, <1>13, <1>14, <1>15, <1>16

(***************************************************************************)
(* The theorems.                                                           *)
(***************************************************************************)
LEMMA ShellStarts == ShellInit => BridgeInv
<1> SUFFICES ASSUME ShellInit PROVE BridgeInv
  OBVIOUS
<1>1. Home \in Internal
  BY ShellAssumption DEF Internal, Addresses, ClassifyNavigation
<1>2. PICK e : e = [kind |-> "start", doc |-> 1, url |-> Home]
  OBVIOUS
<1>3. e \in Event /\ e.kind = "start" /\ e.doc = 1
  BY <1>1, <1>2 DEF Start, Event
<1>4. inbox \in Seq(Event) /\ Len(inbox) = 1 /\ DOMAIN inbox = 1..1 /\ inbox[1] = e
  BY <1>2, <1>3, OneEvent DEF ShellInit
<1>5. PICK s : s = NewShell
  OBVIOUS
<1>6. /\ shell = s
      /\ DOMAIN s = {"state", "session", "issued", "enabled", "connected", "accepted", "loadFailed",
                     "documentVisible", "pendingUrl", "visibleUrl", "failedUrl", "documentUrl"}
      /\ s.state = "loading" /\ s.session = 1 /\ s.issued = <<>> /\ s.enabled = FALSE /\ s.connected = 0
      /\ s.accepted = Missing /\ s.pendingUrl = Home /\ s.visibleUrl = Home /\ s.documentUrl = Home
      /\ s.failedUrl = Missing
  BY <1>5 DEF ShellInit, NewShell
<1>7. PICK p : p = NoDocument
  OBVIOUS
<1>8. /\ view = p
      /\ DOMAIN p = {"doc", "url", "nonce", "loaded", "broken", "booted", "ready", "tries", "armed",
                     "selected", "epoch", "told"}
      /\ p.doc = 0 /\ p.nonce = 0 /\ p.ready = 0 /\ p.tries = 0 /\ p.selected = 0 /\ p.epoch = 0
      /\ p.armed = FALSE /\ p.booted = FALSE
  BY <1>7 DEF ShellInit, NoDocument
<1>9. PICK c : c = [doc |-> 1, url |-> Home]
  OBVIOUS
<1>10. coming = c /\ DOMAIN c = {"doc", "url"} /\ c.doc = 1 /\ c.url = Home
  BY <1>9 DEF ShellInit
<1>11. ShellInv
  <2>1. shell.issued \in Seq(Nat) /\ Len(shell.issued) = 0
    BY <1>6
  <2> QED
    BY <1>1, <1>6, <2>1 DEF ShellInv
<1>12. DOMAIN shell.issued = {}
  BY <1>6
<1>13. ComingInv
  BY <1>1, <1>3, <1>4, <1>10, <1>12 DEF ComingInv, Started, StartedBefore, StartAt
<1>14. ViewInv
  BY <1>6, <1>8, <1>10, <1>12 DEF ViewInv, PageOwn, PageLoads, NotBefore
<1>15. IssuedInOrder /\ FirstStart
  BY <1>3, <1>4, <1>6, <1>12 DEF IssuedInOrder, FirstStart, StartAt
<1>16. StartsInOrder
  BY <1>3, <1>4, <1>10, <1>12 DEF StartsInOrder, StartAt
<1>17. CallsAreOwn /\ StatesAreOwn /\ LoadsAreLate
  BY <1>3, <1>4 DEF CallsAreOwn, StatesAreOwn, LoadsAreLate
<1>18. scripts \in Seq(Script) /\ ScriptsAreOwn
  BY DEF ShellInit, ScriptsAreOwn
<1> QED
  BY <1>4, <1>11, <1>13, <1>14, <1>15, <1>16, <1>17, <1>18 DEF BridgeInv, Typed

LEMMA ShellKeeps == BridgeInv /\ [ShellNext]_shellVars => BridgeInv'
<1> SUFFICES ASSUME BridgeInv, [ShellNext]_shellVars PROVE BridgeInv'
  OBVIOUS
<1>1. CASE ShellRuns
  BY <1>1, CommitKeeps, FinishLoadKeeps, PageBootsKeeps, ReadyTimerKeeps, RunScriptKeeps, HandleEventKeeps
     DEF ShellRuns
<1>2. ASSUME NEW url \in Internal, Navigate(url) \/ MovesTo(url) \/ OpenWindow(url) PROVE BridgeInv'
  BY <1>2, NavigateKeeps, MovesToKeeps, OpenWindowKeeps
<1>3. CASE ShellDisturbed
  BY <1>2, <1>3, CommitErrorKeeps, LoadFailsKeeps, RendererGoneKeeps, AuthChangesKeeps, RetryKeeps,
     HardwareBackKeeps DEF ShellDisturbed
<1>4. CASE UNCHANGED shellVars
  <2>1. UNCHANGED <<shell, view, coming, inbox, scripts>>
    BY <1>4 DEF shellVars
  <2>2. PICK p : p = view
    OBVIOUS
  <2>3. PageOwn(p) /\ view.doc <= p.doc /\ view.doc \in Nat
    BY <2>2 DEF BridgeInv, ViewInv, PageOwn
  <2>4. scripts' \in Seq(Script) /\ ScriptsAreOwn'
    BY <2>1, <2>2, <2>3, ScriptsRest
  <2>5. ShellInv' /\ UNCHANGED <<shell.issued, shell.session, shell.state>>
    BY <2>1, ShellRests
  <2>6. PageLoads(p)'
    BY <2>1, <2>2 DEF BridgeInv, ViewInv, PageLoads, Loading
  <2>7. DOMAIN coming' = {"doc", "url"} /\ coming'.url \in Internal \cup {Missing}
    BY <2>1 DEF BridgeInv, ComingInv
  <2>8. view' = p /\ UNCHANGED <<inbox, coming.doc>>
    BY <2>1, <2>2
  <2> QED
    BY <2>3, <2>4, <2>5, <2>6, <2>7, <2>8, Moves
<1> QED
  BY <1>1, <1>3, <1>4 DEF ShellNext

(* The inductive invariant: documents' starts are reported in order and    *)
(* before what the documents post, a nonce reaches no document older than  *)
(* its session's, and a greeting answers the session's document.           *)
THEOREM BridgeInvariance == ShellSpec => []BridgeInv
<1> QED
  BY ShellStarts, ShellKeeps, PTL DEF ShellSpec

(* Whatever loads, fails, dies, is retried or moves, what the shell takes  *)
(* for the session's state was said by the session's document, the page's  *)
(* session was opened for its document, and the coordinators talk only     *)
(* while the document is shown (OpenMdWebView.tsx, bridgeProtocol.ts).     *)
THEOREM BridgeSound == ShellSpec => []BridgeIsSound
<1>1. BridgeInv => BridgeIsSound
  <2> SUFFICES ASSUME BridgeInv PROVE BridgeIsSound
    OBVIOUS
  <2>1. shell.session \in Nat \ {0} /\ shell.issued \in Seq(Nat)
    BY EmptyAdds DEF BridgeInv, ShellInv
  <2>2. ShellTypeOK
    BY <2>1 DEF ShellTypeOK, BridgeInv, ShellInv, ViewInv, PageOwn
  <2>3. AcceptedIsOwn /\ ConnectedIsShown
    BY DEF AcceptedIsOwn, ConnectedIsShown, BridgeInv, ShellInv
  <2>4. SelectedIsOwn
    BY DEF SelectedIsOwn, BridgeInv, ViewInv, PageOwn, SessionOf
  <2> QED
    BY <2>2, <2>3, <2>4 DEF BridgeIsSound
<1> QED
  BY <1>1, BridgeInvariance, PTL

(***************************************************************************)
(* The inductive invariant of the opened notifications.                    *)
(***************************************************************************)
Item == [open : Opens, owner : Accounts \cup {None}, at : Nat]
Session == [user : Accounts \cup {None}, epoch : Nat]
CaptureOp == [kind : {"capture"}, open : Opens]
AppendOp == [kind : {"append"}, open : Opens, owner : Accounts \cup {None}]
AskOp == [kind : {"resolve", "own"}, items : SUBSET Item, generation : Nat]
FlushOp == [kind : {"flush"}]
UserOp == [kind : {"activated", "withdrawal"}, user : Accounts]
LoggedIn == [user : Accounts, epoch : Nat] \ {None}
AckOp == [kind : {"ackLoad"}, open : Opens, auth : LoggedIn, generation : Nat]
RemoveOp == [kind : {"remove"}, open : Opens]
StoreOp == CaptureOp \cup AppendOp \cup AskOp \cup FlushOp \cup UserOp \cup AckOp \cup RemoveOp

Stages == {"record", "fetch", "target", "navigate", "complete"}
PageTask == [open : Opens, epoch : Nat, user : Accounts, step : Stages, found : BOOLEAN]
Message == [open : Opens, epoch : Nat]
Round == [epoch : Nat, user : Accounts \cup {None}, left : SUBSET (Accounts \X tapped),
          at : Accounts \X tapped, step : {"put", "done"}]

PhoneTyped ==
  /\ DOMAIN phone = {"connected", "generation", "auth", "delivered", "queue"}
  /\ phone.connected \in BOOLEAN /\ phone.generation \in Nat
  /\ phone.auth \in Session \cup {None}
  /\ phone.queue \in Seq(StoreOp)
DataTyped ==
  /\ of \in [Opens -> Accounts]
  /\ pending \subseteq Item /\ IsFiniteSet(pending) /\ sdk \in tapped \cup {None}
  /\ owners \subseteq Accounts /\ gone \subseteq Accounts
  /\ cookie \in Accounts \cup {None}
  /\ records \subseteq [user : Accounts, open : Opens, found : BOOLEAN]
  /\ reads \subseteq Accounts \X tapped
  /\ tapped \subseteq Opens /\ marked \subseteq tapped /\ events \in 0..MaxEvents
  /\ \A x \in pending : x.open \in tapped

(* A document: what it was sent, it was sent in a session that knew the    *)
(* open for its own, or it was sent in an earlier one; a task that goes on *)
(* has found no record of its open, and no open has two tasks.             *)
PageTyped(d) ==
  /\ DOMAIN d = {"phase", "epoch", "user", "pending", "tasks", "presented", "prompted",
                 "reading", "clearing"}
  /\ d.phase \in {"bootstrapping", "anonymous", "authenticated", "leaving"}
  /\ d.epoch \in Nat /\ d.user \in Accounts \cup {None}
  /\ d.pending \subseteq Message /\ d.tasks \subseteq PageTask
  /\ d.clearing \subseteq Accounts
  /\ d.reading \in Round \cup {None}
Names(d) == {m.open : m \in d.pending} \cup {t.open : t \in d.tasks}
PageOK(d) ==
  /\ PageTyped(d)
  /\ Names(d) \subseteq tapped
  /\ (d.phase = "authenticated") = (d.user # None)
  /\ \A m \in d.pending :
       /\ m.epoch <= d.epoch
       /\ d.phase = "authenticated" /\ m.epoch = d.epoch => m.open \in old \/ d.user = of[m.open]
  /\ \A t \in d.tasks : t.open \in old \/ t.user = of[t.open]
  /\ \A t \in d.tasks : t.step \in {"fetch", "target", "navigate"} => ~Recorded(t)
  /\ \A t, s \in d.tasks : t.open = s.open => t = s

(* The storage's queue.                                                    *)
Q == DOMAIN phone.queue
Is(i, kind) == phone.queue[i].kind = kind
Asks(i) == phone.queue[i].kind \in {"resolve", "own"}
Acks(i) == phone.queue[i].kind \in {"ackLoad", "remove"}
OpenAt(i) == phone.queue[i].open
UserAt(i) == phone.queue[i].user
ItemsAt(i) == phone.queue[i].items
Mentions(op) ==
  IF op.kind \in {"capture", "append", "ackLoad", "remove"} THEN {op.open}
  ELSE IF op.kind \in {"resolve", "own"} THEN {x.open : x \in op.items} ELSE {}
IsPending(o) == \E x \in pending : x.open = o
Excuse(o) == (\E r \in records : r.open = o) \/ of[o] \in gone \/ o \in old

(* What is known of an item's owner is true; each open is there once.      *)
TrueOwner(x) == x.owner \in {None, of[x.open]}
Distinct(items) == \A x, y \in items : x.open = y.open => x = y
AskOK(op) ==
  /\ \A x \in op.items : TrueOwner(x)
  /\ Distinct(op.items) /\ op.items # {}
  /\ op.generation <= phone.generation
  /\ ~phone.connected => op.generation < phone.generation
ItemsInv ==
  /\ \A x \in pending : TrueOwner(x)
  /\ Distinct(pending)
  /\ \A i \in Q : Is(i, "append") => TrueOwner(phone.queue[i])
  /\ \A i \in Q : Asks(i) => AskOK(phone.queue[i])

(* The coordinator hears of every session of the page that it talks to.    *)
SessionInv ==
  /\ page.phase = "authenticated" => page.user = cookie /\ page.epoch > 0
  /\ cookie \notin gone /\ page.clearing \subseteq gone
  /\ phone.connected => phone.auth = [user |-> page.user, epoch |-> page.epoch]
  /\ ~phone.connected => phone.auth = None

(* A capture is at the head of the queue, or nobody knows of its open yet. *)
CaptureInv ==
  \A i \in Q :
    /\ Mentions(phone.queue[i]) \subseteq tapped
    /\ Is(i, "capture") =>
         /\ OpenAt(i) \notin Names(page)
         /\ \A j \in Q : j # i => OpenAt(i) \notin Mentions(phone.queue[j])
         /\ i = 1 \/ ~IsPending(OpenAt(i))

(* The order of the queue: appends before the acknowledgements of their    *)
(* open, removals and activations before the withdrawal of their account,  *)
(* and withdrawals before all that asks for owners, unless nobody is there.*)
OrderInv ==
  /\ \A i, j \in Q : Is(i, "append") /\ Acks(j) /\ OpenAt(i) = OpenAt(j) => i < j
  /\ \A j, k \in Q : Is(j, "remove") /\ Is(k, "withdrawal") /\ UserAt(k) = of[OpenAt(j)] => j < k
  /\ \A j, k \in Q : Is(j, "activated") /\ Is(k, "withdrawal") /\ UserAt(j) = UserAt(k) => j < k
  /\ \A k \in Q : Is(k, "withdrawal") => UserAt(k) \in gone
AskOrder ==
  cookie # None =>
    \A i, k \in Q : Asks(i) /\ Is(k, "withdrawal") => Is(i, "resolve") /\ k < i

(* What is to be removed has an owner, and stays until it is.              *)
RemovalInv ==
  \A j \in Q : Is(j, "remove") /\ OpenAt(j) \notin old =>
    /\ \A x \in pending : x.open = OpenAt(j) => x.owner # None
    /\ \A i \in Q : Is(i, "append") /\ OpenAt(i) = OpenAt(j) => IsPending(OpenAt(j))

(* A delivery that has asked, or will ask, for the owner of an open that is*)
(* no longer in the record: whoever is there is its owner, or there will be*)
(* no answer.                                                              *)
Expelled(u) == u \in gone /\ u \notin owners /\ \A j \in Q : Is(j, "activated") => UserAt(j) # u
Unowned(x) == x.owner = None /\ x.open \notin old
LostInv ==
  cookie # None =>
    \A i \in Q : Asks(i) => \A x \in ItemsAt(i) : Unowned(x) =>
      cookie = of[x.open] \/ IsPending(x.open) \/ Expelled(of[x.open])
AskedInv == cookie # None => \A i \in Q : Is(i, "own") => of[First(ItemsAt(i)).open] \in owners
RemovedInv ==
  cookie # None =>
    \A i, j \in Q : Asks(i) /\ Is(j, "remove") => \A x \in ItemsAt(i) :
      Unowned(x) /\ OpenAt(j) = x.open => cookie = of[x.open]

(* What is done is recorded before it is acknowledged, and a tap is in the *)
(* queue, in the record, or done.                                          *)
AckInv == \A i \in Q : Acks(i) => Excuse(OpenAt(i))
Captures(i) == phone.queue[i].kind \in {"capture", "append"}
MemoryInv == \A i \in Q : Captures(i) => sdk = OpenAt(i) \/ Excuse(OpenAt(i)) \/ disturbed
TapInv ==
  \A o \in tapped :
    \/ IsPending(o) \/ Excuse(o) \/ disturbed
    \/ \E i \in Q : Captures(i) /\ OpenAt(i) = o

RecordInv == \A r \in records : r.open \in old \/ r.user = of[r.open]

QueueInv ==
  /\ PhoneTyped /\ ItemsInv /\ OrderInv /\ AskOrder /\ RemovalInv /\ LostInv /\ AskedInv
  /\ RemovedInv
DoneInv == AckInv /\ MemoryInv /\ TapInv
OpenInv == DataTyped /\ PageOK(page) /\ RecordInv /\ SessionInv /\ CaptureInv /\ QueueInv /\ DoneInv

(***************************************************************************)
(* Data: the storage's operations, its queue, and the first of some items. *)
(***************************************************************************)
LEMMA OpFields ==
  ASSUME NEW op \in StoreOp
  PROVE  /\ op.kind \in {"capture", "append", "resolve", "own", "flush", "activated", "withdrawal",
                         "ackLoad", "remove"}
         /\ op.kind \in {"capture", "append", "ackLoad", "remove"} => op.open \in Opens
         /\ op.kind = "append" => op.owner \in Accounts \cup {None}
         /\ op.kind \in {"activated", "withdrawal"} => op.user \in Accounts
         /\ op.kind \in {"resolve", "own"} =>
              op.items \in SUBSET Item /\ op.generation \in Nat /\ op \in AskOp
         /\ op.kind = "ackLoad" => op.auth \in LoggedIn /\ op.generation \in Nat
<1>1. CASE op \in CaptureOp
  BY <1>1 DEF CaptureOp
<1>2. CASE op \in AppendOp
  BY <1>2 DEF AppendOp
<1>3. CASE op \in AskOp
  BY <1>3 DEF AskOp
<1>4. CASE op \in FlushOp
  BY <1>4 DEF FlushOp
<1>5. CASE op \in UserOp
  BY <1>5 DEF UserOp
<1>6. CASE op \in AckOp
  BY <1>6 DEF AckOp
<1>7. CASE op \in RemoveOp
  BY <1>7 DEF RemoveOp
<1> QED
  BY <1>1, <1>2, <1>3, <1>4, <1>5, <1>6, <1>7 DEF StoreOp

LEMMA QueueAppend ==
  ASSUME NEW S, NEW q \in Seq(S), NEW x \in S
  PROVE  /\ Append(q, x) \in Seq(S) /\ Len(Append(q, x)) = Len(q) + 1 /\ Len(q) \in Nat
         /\ DOMAIN q = 1..Len(q) /\ DOMAIN Append(q, x) = 1..(Len(q) + 1)
         /\ \A i \in 1..Len(q) : Append(q, x)[i] = q[i]
         /\ Append(q, x)[Len(q) + 1] = x
OBVIOUS

LEMMA QueueTail ==
  ASSUME NEW S, NEW q \in Seq(S), q # <<>>
  PROVE  /\ Tail(q) \in Seq(S) /\ Len(Tail(q)) = Len(q) - 1 /\ Len(q) \in Nat \ {0}
         /\ DOMAIN q = 1..Len(q) /\ DOMAIN Tail(q) = 1..(Len(q) - 1)
         /\ \A i \in 1..(Len(q) - 1) : Tail(q)[i] = q[i + 1]
         /\ Head(q) = q[1] /\ q[1] \in S
OBVIOUS

LEMMA QueueLen ==
  ASSUME NEW S, NEW q \in Seq(S)
  PROVE  Len(q) \in Nat /\ DOMAIN q = 1..Len(q) /\ \A i \in DOMAIN q : q[i] \in S
OBVIOUS

(* A set of natural numbers that is not empty has a least one: initial     *)
(* segments are well ordered by inclusion.                                 *)
LEMMA LeastOf ==
  ASSUME NEW T \in SUBSET Nat, NEW n \in T
  PROVE  \E m \in T : \A k \in T : m <= k
<1> DEFINE S == 0 .. n
           Up == {0 .. k : k \in {j \in T : j <= n}}
<1>1. IsWellFoundedOn(StrictSubsetOrdering(S), FiniteSubsetsOf(S))
  BY FS_StrictSubsetOrderingWellFounded
<1>2. Up \subseteq FiniteSubsetsOf(S)
  <2> SUFFICES ASSUME NEW j \in T, j <= n
               PROVE  0 .. j \in FiniteSubsetsOf(S)
    OBVIOUS
  <2>1. IsFiniteSet(0 .. j) /\ 0 .. j \subseteq S
    BY FS_Interval
  <2> QED
    BY <2>1 DEF FiniteSubsetsOf
<1>3. Up # {}
  OBVIOUS
<1>4. PICK x \in Up : \A y \in Up : <<y, x>> \notin StrictSubsetOrdering(S)
  <2> HIDE DEF Up, S
  <2> QED
    BY <1>1, <1>2, <1>3, WFMin
<1>5. PICK m \in T : m <= n /\ x = 0 .. m
  BY <1>4
<1>6. ASSUME NEW k \in T, k < m
      PROVE  FALSE
  <2>1. 0 .. k \in Up
    BY <1>5, <1>6
  <2>2. <<0 .. k, x>> \in StrictSubsetOrdering(S)
    BY <1>5, <1>6 DEF StrictSubsetOrdering
  <2> QED
    BY <2>1, <2>2, <1>4
<1> QED
  BY <1>5, <1>6

LEMMA FirstOf ==
  ASSUME NEW items \in SUBSET Item, items # {}
  PROVE  First(items) \in items
<1> DEFINE T == {x.at : x \in items}
<1>1. PICK y \in items : TRUE
  OBVIOUS
<1>2. T \in SUBSET Nat /\ y.at \in T
  BY <1>1 DEF Item
<1>3. PICK m \in T : \A k \in T : m <= k
  <2> HIDE DEF T
  <2> QED
    BY <1>2, LeastOf
<1>4. \E x \in items : \A z \in items : x.at <= z.at
  BY <1>3
<1> QED
  BY <1>4 DEF First

(***************************************************************************)
(* The queue after a step: d operations have left its head, and others of  *)
(* N have come at its end.                                                 *)
(***************************************************************************)
Shift(d, N) ==
  /\ \A i \in DOMAIN phone'.queue :
       \/ i + d \in Q /\ phone'.queue[i] = phone.queue[i + d]
       \/ i + d \notin Q /\ phone'.queue[i] \in N
  /\ \A i \in Q : i > d => i - d \in DOMAIN phone'.queue

LEMMA Shifts ==
  ASSUME PhoneTyped
  PROVE  /\ phone'.queue = phone.queue => phone'.queue \in Seq(StoreOp) /\ Shift(0, {})
         /\ \A x \in StoreOp : phone'.queue = Append(phone.queue, x) =>
              phone'.queue \in Seq(StoreOp) /\ Shift(0, {x})
         /\ \A x, y \in StoreOp : phone'.queue = Append(Append(phone.queue, x), y) =>
              phone'.queue \in Seq(StoreOp) /\ Shift(0, {x, y})
         /\ phone.queue # <<>> /\ phone'.queue = Tail(phone.queue) =>
              phone'.queue \in Seq(StoreOp) /\ Shift(1, {})
         /\ \A x \in StoreOp : phone.queue # <<>> /\ phone'.queue = Append(Tail(phone.queue), x) =>
              phone'.queue \in Seq(StoreOp) /\ Shift(1, {x})
         /\ phone'.queue = <<>> => phone'.queue \in Seq(StoreOp) /\ Shift(Len(phone.queue), {})
         /\ \A x \in StoreOp : phone'.queue = <<x>> =>
              phone'.queue \in Seq(StoreOp) /\ Shift(Len(phone.queue), {x})
         /\ Len(phone.queue) \in Nat /\ Q = 1 .. Len(phone.queue)
<1> PICK q : q = phone.queue
  OBVIOUS
<1> PICK r : r = phone'.queue
  OBVIOUS
<1>0. q \in Seq(StoreOp)
  BY DEF PhoneTyped
<1>1. Len(q) \in Nat /\ DOMAIN q = 1 .. Len(q)
  BY <1>0, QueueLen
<1>2. r = q => r \in Seq(StoreOp) /\ Shift(0, {})
  BY <1>0, <1>1 DEF Shift, Q
<1>3. ASSUME NEW x \in StoreOp, r = Append(q, x)
      PROVE  r \in Seq(StoreOp) /\ Shift(0, {x})
  <2>1. /\ r \in Seq(StoreOp) /\ DOMAIN r = 1 .. (Len(q) + 1)
        /\ \A i \in 1 .. Len(q) : r[i] = q[i]
        /\ r[Len(q) + 1] = x
    BY <1>0, <1>3, QueueAppend
  <2> QED
    BY <1>1, <2>1 DEF Shift, Q
<1>4. ASSUME NEW x \in StoreOp, NEW y \in StoreOp, r = Append(Append(q, x), y)
      PROVE  r \in Seq(StoreOp) /\ Shift(0, {x, y})
  <2> PICK p : p = Append(q, x)
    OBVIOUS
  <2>1. /\ p \in Seq(StoreOp) /\ Len(p) = Len(q) + 1 /\ DOMAIN p = 1 .. (Len(q) + 1)
        /\ \A i \in 1 .. Len(q) : p[i] = q[i]
        /\ p[Len(q) + 1] = x
    BY <1>0, QueueAppend
  <2>2. r = Append(p, y)
    BY <1>4
  <2>3. /\ r \in Seq(StoreOp) /\ DOMAIN r = 1 .. (Len(p) + 1)
        /\ \A i \in 1 .. Len(p) : r[i] = p[i]
        /\ r[Len(p) + 1] = y
    BY <2>1, <2>2, QueueAppend
  <2> QED
    BY <1>1, <2>1, <2>3 DEF Shift, Q
<1>5. ASSUME q # <<>>, r = Tail(q)
      PROVE  r \in Seq(StoreOp) /\ Shift(1, {})
  <2>1. /\ r \in Seq(StoreOp) /\ DOMAIN r = 1 .. (Len(q) - 1)
        /\ \A i \in 1 .. (Len(q) - 1) : r[i] = q[i + 1]
    BY <1>0, <1>5, QueueTail
  <2> QED
    BY <1>1, <2>1 DEF Shift, Q
<1>6. ASSUME NEW x \in StoreOp, q # <<>>, r = Append(Tail(q), x)
      PROVE  r \in Seq(StoreOp) /\ Shift(1, {x})
  <2> PICK p : p = Tail(q)
    OBVIOUS
  <2>1. /\ p \in Seq(StoreOp) /\ Len(p) = Len(q) - 1 /\ DOMAIN p = 1 .. (Len(q) - 1)
        /\ \A i \in 1 .. (Len(q) - 1) : p[i] = q[i + 1]
    BY <1>0, <1>6, QueueTail
  <2>2. r = Append(p, x)
    BY <1>6
  <2>3. /\ r \in Seq(StoreOp) /\ DOMAIN r = 1 .. (Len(p) + 1)
        /\ \A i \in 1 .. Len(p) : r[i] = p[i]
        /\ r[Len(p) + 1] = x
    BY <2>1, <2>2, QueueAppend
  <2> QED
    BY <1>1, <2>1, <2>3 DEF Shift, Q
<1>7. r = <<>> => r \in Seq(StoreOp) /\ Shift(Len(q), {})
  BY <1>1 DEF Shift, Q
<1>8. ASSUME NEW x \in StoreOp, r = <<x>>
      PROVE  r \in Seq(StoreOp) /\ Shift(Len(q), {x})
  <2>1. DOMAIN r = 1 .. 1 /\ r[1] = x
    BY <1>8
  <2>2. r \in Seq(StoreOp)
    BY <1>8
  <2> QED
    BY <1>1, <2>1, <2>2 DEF Shift, Q
<1> QED
  BY <1>1, <1>2, <1>3, <1>4, <1>5, <1>6, <1>7, <1>8 DEF Q

LEMMA OrderShift ==
  ASSUME QueueInv, PhoneTyped', NEW d \in Nat, NEW N, Shift(d, N), of' = of, gone \subseteq gone',
         \A op \in N : op.kind = "append" =>
           N = {op} /\ \A j \in Q : Acks(j) => OpenAt(j) # op.open,
         \A op \in N : op.kind = "remove" =>
           N = {op} /\ \A k \in Q : Is(k, "withdrawal") => UserAt(k) # of[op.open],
         \A op \in N : op.kind = "activated" =>
           N = {op} /\ \A k \in Q : Is(k, "withdrawal") => UserAt(k) # op.user,
         \A op \in N : op.kind = "withdrawal" => op.user \in gone'
  PROVE  OrderInv'
<1> PICK r : r = phone'.queue
  OBVIOUS
<1> PICK q : q = phone.queue
  OBVIOUS
<1>0. /\ DOMAIN r \subseteq Nat \ {0} /\ DOMAIN q = 1 .. Len(q) /\ Len(q) \in Nat
      /\ \A i \in DOMAIN r : \/ i + d \in DOMAIN q /\ r[i] = q[i + d]
                             \/ i + d \notin DOMAIN q /\ r[i] \in N
  <2>1. q \in Seq(StoreOp) /\ r \in Seq(StoreOp)
    BY DEF QueueInv, PhoneTyped
  <2> QED
    BY <2>1, QueueLen DEF Shift, Q
<1>1. ASSUME NEW i \in DOMAIN r, NEW j \in DOMAIN r, r[i].kind = "append",
             r[j].kind \in {"ackLoad", "remove"}, r[i].open = r[j].open
      PROVE  i < j
  <2>1. \A m, n \in DOMAIN q : q[m].kind = "append" /\ q[n].kind \in {"ackLoad", "remove"}
          /\ q[m].open = q[n].open => m < n
    BY DEF QueueInv, OrderInv, Q, Is, Acks, OpenAt
  <2>2. \A op \in N : op.kind = "append" =>
          N = {op} /\ \A m \in DOMAIN q : q[m].kind \in {"ackLoad", "remove"} => q[m].open # op.open
    BY DEF Q, Acks, OpenAt
  <2>3. CASE i + d \in DOMAIN q /\ r[i] = q[i + d] /\ j + d \in DOMAIN q /\ r[j] = q[j + d]
    BY <1>0, <1>1, <2>1, <2>3
  <2>4. CASE i + d \in DOMAIN q /\ j + d \notin DOMAIN q
    BY <1>0, <2>4
  <2>5. CASE i + d \notin DOMAIN q /\ r[i] \in N
    <3>1. N = {r[i]}
      BY <1>1, <2>2, <2>5
    <3>2. j + d \in DOMAIN q /\ r[j] = q[j + d]
      BY <1>0, <1>1, <3>1
    <3> QED
      BY <1>1, <2>2, <2>5, <3>2
  <2> QED
    BY <1>0, <2>3, <2>4, <2>5
<1>2. ASSUME NEW j \in DOMAIN r, NEW k \in DOMAIN r, r[j].kind = "remove", r[k].kind = "withdrawal",
             r[k].user = of[r[j].open]
      PROVE  j < k
  <2>1. \A m, n \in DOMAIN q : q[m].kind = "remove" /\ q[n].kind = "withdrawal"
          /\ q[n].user = of[q[m].open] => m < n
    BY DEF QueueInv, OrderInv, Q, Is, OpenAt, UserAt
  <2>2. \A op \in N : op.kind = "remove" =>
          N = {op} /\ \A m \in DOMAIN q : q[m].kind = "withdrawal" => q[m].user # of[op.open]
    BY DEF Q, Is, UserAt
  <2>3. CASE j + d \in DOMAIN q /\ r[j] = q[j + d] /\ k + d \in DOMAIN q /\ r[k] = q[k + d]
    BY <1>0, <1>2, <2>1, <2>3
  <2>4. CASE j + d \in DOMAIN q /\ k + d \notin DOMAIN q
    BY <1>0, <2>4
  <2>5. CASE j + d \notin DOMAIN q /\ r[j] \in N
    <3>1. N = {r[j]}
      BY <1>2, <2>2, <2>5
    <3>2. k + d \in DOMAIN q /\ r[k] = q[k + d]
      BY <1>0, <1>2, <3>1
    <3> QED
      BY <1>2, <2>2, <2>5, <3>2
  <2> QED
    BY <1>0, <2>3, <2>4, <2>5
<1>3. ASSUME NEW j \in DOMAIN r, NEW k \in DOMAIN r, r[j].kind = "activated", r[k].kind = "withdrawal",
             r[j].user = r[k].user
      PROVE  j < k
  <2>1. \A m, n \in DOMAIN q : q[m].kind = "activated" /\ q[n].kind = "withdrawal"
          /\ q[m].user = q[n].user => m < n
    BY DEF QueueInv, OrderInv, Q, Is, UserAt
  <2>2. \A op \in N : op.kind = "activated" =>
          N = {op} /\ \A m \in DOMAIN q : q[m].kind = "withdrawal" => q[m].user # op.user
    BY DEF Q, Is, UserAt
  <2>3. CASE j + d \in DOMAIN q /\ r[j] = q[j + d] /\ k + d \in DOMAIN q /\ r[k] = q[k + d]
    BY <1>0, <1>3, <2>1, <2>3
  <2>4. CASE j + d \in DOMAIN q /\ k + d \notin DOMAIN q
    BY <1>0, <2>4
  <2>5. CASE j + d \notin DOMAIN q /\ r[j] \in N
    <3>1. N = {r[j]}
      BY <1>3, <2>2, <2>5
    <3>2. k + d \in DOMAIN q /\ r[k] = q[k + d]
      BY <1>0, <1>3, <3>1
    <3> QED
      BY <1>3, <2>2, <2>5, <3>2
  <2> QED
    BY <1>0, <2>3, <2>4, <2>5
<1>4. ASSUME NEW k \in DOMAIN r, r[k].kind = "withdrawal"
      PROVE  r[k].user \in gone'
  <2>1. \A n \in DOMAIN q : q[n].kind = "withdrawal" => q[n].user \in gone
    BY DEF QueueInv, OrderInv, Q, Is, UserAt
  <2> QED
    BY <1>0, <1>4, <2>1
<1> QED
  BY <1>1, <1>2, <1>3, <1>4 DEF OrderInv, Q, Is, Acks, OpenAt, UserAt

(* Nobody logs in while the queue asks for owners.                         *)
CookieStays(N) ==
  \/ cookie' \in {None, cookie}
  \/ (\A i \in Q : ~Asks(i)) /\ \A op \in N : op.kind \notin {"resolve", "own"}

LEMMA AskShift ==
  ASSUME QueueInv, PhoneTyped', NEW d \in Nat, NEW N, Shift(d, N), CookieStays(N),
         \A op \in N : op.kind = "own" /\ cookie' # None =>
           N = {op} /\ \A k \in Q : Is(k, "withdrawal") => k <= d,
         \A op \in N : op.kind = "withdrawal" => cookie' = None
  PROVE  AskOrder'
<1> PICK r : r = phone'.queue
  OBVIOUS
<1> PICK q : q = phone.queue
  OBVIOUS
<1>0. /\ DOMAIN r \subseteq Nat \ {0} /\ DOMAIN q = 1 .. Len(q) /\ Len(q) \in Nat
      /\ \A i \in DOMAIN r : \/ i + d \in DOMAIN q /\ r[i] = q[i + d]
                             \/ i + d \notin DOMAIN q /\ r[i] \in N
      /\ \A i \in DOMAIN r : r[i].kind = "resolve" => r[i].kind # "own"
  <2>1. q \in Seq(StoreOp) /\ r \in Seq(StoreOp)
    BY DEF QueueInv, PhoneTyped
  <2> QED
    BY <2>1, QueueLen DEF Shift, Q
<1> SUFFICES ASSUME cookie' # None, NEW i \in DOMAIN r, NEW k \in DOMAIN r,
                    r[i].kind \in {"resolve", "own"}, r[k].kind = "withdrawal"
             PROVE  r[i].kind = "resolve" /\ k < i
  BY DEF AskOrder, Q, Is, Asks
<1>1. r[k].kind # "own" /\ r[k].kind # "resolve"
  OBVIOUS
<1>2. k + d \in DOMAIN q /\ r[k] = q[k + d]
  BY <1>0
<1>3. \A op \in N : op.kind = "own" => \A n \in DOMAIN q : q[n].kind = "withdrawal" => n <= d
  BY DEF Q, Is
<1>4. \A m \in DOMAIN q : q[m].kind \in {"resolve", "own"} => cookie' = cookie
  BY DEF CookieStays, Q, Asks
<1>5. cookie # None => \A m, n \in DOMAIN q : q[m].kind \in {"resolve", "own"} /\ q[n].kind = "withdrawal" =>
        q[m].kind = "resolve" /\ n < m
  BY DEF QueueInv, AskOrder, Q, Asks, Is
<1>6. CASE i + d \in DOMAIN q /\ r[i] = q[i + d]
  <2>1. cookie # None
    BY <1>4, <1>6
  <2> QED
    BY <1>0, <1>2, <1>5, <1>6, <2>1
<1>7. CASE i + d \notin DOMAIN q /\ r[i] \in N
  BY <1>0, <1>2, <1>3, <1>7
<1> QED
  BY <1>0, <1>6, <1>7

LEMMA Shifted ==
  ASSUME PhoneTyped, PhoneTyped', NEW d \in Nat, NEW N, Shift(d, N)
  PROVE  /\ Q \subseteq Nat \ {0} /\ Q' \subseteq Nat \ {0}
         /\ \A i \in Q : phone.queue[i] \in StoreOp
         /\ \A i \in Q' : phone'.queue[i] \in StoreOp
         /\ \A i \in Q' : \/ i + d \in Q /\ i + d > d /\ phone'.queue[i] = phone.queue[i + d]
                          \/ i + d \notin Q /\ phone'.queue[i] \in N
         /\ \A i \in Q : i > d => i - d \in Q' /\ phone'.queue[i - d] = phone.queue[i]
<1> PICK q : q = phone.queue
  OBVIOUS
<1> PICK r : r = phone'.queue
  OBVIOUS
<1>1. q \in Seq(StoreOp) /\ r \in Seq(StoreOp)
  BY DEF PhoneTyped
<1>2. /\ DOMAIN q = 1 .. Len(q) /\ Len(q) \in Nat /\ DOMAIN r = 1 .. Len(r) /\ Len(r) \in Nat
      /\ (\A i \in DOMAIN q : q[i] \in StoreOp) /\ \A i \in DOMAIN r : r[i] \in StoreOp
  BY <1>1, QueueLen
<1>3. /\ \A i \in DOMAIN r : \/ i + d \in DOMAIN q /\ r[i] = q[i + d]
                             \/ i + d \notin DOMAIN q /\ r[i] \in N
      /\ \A i \in DOMAIN q : i > d => i - d \in DOMAIN r
  BY DEF Shift, Q
<1>4. \A i \in DOMAIN q : i > d => r[i - d] = q[i]
  <2> TAKE i \in DOMAIN q
  <2> HAVE i > d
  <2>1. i - d \in DOMAIN r /\ (i - d) + d = i
    BY <1>2, <1>3
  <2> QED
    BY <1>3, <2>1
<1> QED
  BY <1>2, <1>3, <1>4 DEF Q

LEMMA ItemsShift ==
  ASSUME QueueInv, PhoneTyped', NEW d \in Nat, NEW N, Shift(d, N), of' = of,
         \A x \in pending' : TrueOwner(x), Distinct(pending'),
         phone.generation <= phone'.generation,
         ~phone'.connected => ~phone.connected \/ phone.generation < phone'.generation,
         \A op \in N : op.kind = "append" => TrueOwner(op),
         \A op \in N : op.kind \in {"resolve", "own"} => AskOK(op)'
  PROVE  ItemsInv'
<1>0. PhoneTyped
  BY DEF QueueInv
<1>1. \A x \in pending' : TrueOwner(x)'
  BY DEF TrueOwner
<1>2. Distinct(pending')
  OBVIOUS
<1>3. ASSUME NEW i \in Q', phone'.queue[i].kind = "append"
      PROVE  (TrueOwner(phone.queue[i]))'
  <2>1. \A j \in Q : phone.queue[j].kind = "append" => TrueOwner(phone.queue[j])
    BY DEF QueueInv, ItemsInv, Is
  <2>2. TrueOwner(phone'.queue[i])
    BY <1>0, <1>3, <2>1, Shifted
  <2> QED
    BY <2>2 DEF TrueOwner
<1>4. ASSUME NEW i \in Q', phone'.queue[i].kind \in {"resolve", "own"}
      PROVE  (AskOK(phone.queue[i]))'
  <2>1. \A j \in Q : phone.queue[j].kind \in {"resolve", "own"} => AskOK(phone.queue[j])
    BY DEF QueueInv, ItemsInv, Asks
  <2> PICK op : op = phone'.queue[i]
    OBVIOUS
  <2>2. CASE op \in N
    BY <1>4, <2>2
  <2>3. CASE AskOK(op) /\ op \in StoreOp
    <3>1. op.generation \in Nat /\ phone.generation \in Nat /\ phone'.generation \in Nat
      BY <1>0, <1>4, <2>3, OpFields DEF PhoneTyped
    <3>2. /\ op.generation <= phone'.generation
          /\ ~phone'.connected => op.generation < phone'.generation
      BY <2>3, <3>1 DEF AskOK
    <3> QED
      BY <2>3, <3>2 DEF AskOK, TrueOwner, Distinct
  <2> QED
    BY <1>0, <1>4, <2>1, <2>2, <2>3, Shifted
<1> QED
  BY <1>1, <1>2, <1>3, <1>4 DEF ItemsInv, Is, Asks, Q

LEMMA RemovalShift ==
  ASSUME QueueInv, PhoneTyped', NEW d \in Nat, NEW N, Shift(d, N), old \subseteq old',
         \A x \in pending' : x.owner = None /\ x.open \notin old' =>
           \/ \E y \in pending : y.open = x.open /\ y.owner = None
           \/ \A j \in Q : Is(j, "remove") => OpenAt(j) # x.open,
         \A i, j \in Q : i > d /\ j > d /\ Is(i, "append") /\ Is(j, "remove") /\ OpenAt(i) = OpenAt(j)
           /\ IsPending(OpenAt(j)) /\ OpenAt(j) \notin old' => \E y \in pending' : y.open = OpenAt(j),
         \A op \in N : op.kind = "append" =>
           N = {op} /\ \A j \in Q : Is(j, "remove") => OpenAt(j) # op.open,
         \A op \in N : op.kind = "remove" /\ op.open \notin old' =>
           /\ \A x \in pending' : x.open = op.open => x.owner # None
           /\ \E x \in pending' : x.open = op.open
  PROVE  RemovalInv'
<1>0. PhoneTyped
  BY DEF QueueInv
<1>1. SUFFICES ASSUME NEW j \in Q', phone'.queue[j].kind = "remove", phone'.queue[j].open \notin old'
               PROVE  /\ \A x \in pending' : x.open = phone'.queue[j].open => x.owner # None
                      /\ \A i \in Q' : phone'.queue[i].kind = "append" /\ phone'.queue[i].open = phone'.queue[j].open =>
                           \E x \in pending' : x.open = phone'.queue[j].open
  BY DEF RemovalInv, Is, OpenAt, IsPending
<1> PICK op : op = phone'.queue[j]
  OBVIOUS
<1>2. CASE op \in N
  BY <1>1, <1>2
<1>3. ASSUME NEW k \in Q, k > d, op = phone.queue[k]
      PROVE  /\ \A x \in pending' : x.open = op.open => x.owner # None
             /\ \A i \in Q' : phone'.queue[i].kind = "append" /\ phone'.queue[i].open = op.open =>
                  \E x \in pending' : x.open = op.open
  <2>0. Is(k, "remove") /\ OpenAt(k) = op.open /\ op.open \notin old' /\ op.open \notin old
    BY <1>1, <1>3 DEF Is, OpenAt
  <2>1. \A x \in pending : x.open = op.open => x.owner # None
    BY <2>0 DEF QueueInv, RemovalInv
  <2>2. ASSUME NEW i \in Q', phone'.queue[i].kind = "append", phone'.queue[i].open = op.open
        PROVE  \E x \in pending' : x.open = op.open
    <3>1. phone'.queue[i] \notin N
      BY <2>0, <2>2
    <3>2. PICK m \in Q : m > d /\ phone'.queue[i] = phone.queue[m]
      BY <1>0, <3>1, Shifted
    <3>3. Is(m, "append") /\ OpenAt(m) = OpenAt(k)
      BY <2>0, <2>2, <3>2 DEF Is, OpenAt
    <3>4. IsPending(OpenAt(k))
      BY <2>0, <3>3 DEF QueueInv, RemovalInv
    <3> QED
      BY <1>3, <2>0, <3>2, <3>3, <3>4
  <2> QED
    BY <2>0, <2>1, <2>2
<1> QED
  BY <1>0, <1>2, <1>3, Shifted

LEMMA LostShift ==
  ASSUME QueueInv, PhoneTyped', NEW d \in Nat, NEW N, Shift(d, N), CookieStays(N),
         of' = of, old \subseteq old', gone \subseteq gone',
         \A u \in owners' \ owners : u \in gone => \E j \in Q : Is(j, "activated") /\ UserAt(j) = u,
         \A op \in N : op.kind = "activated" => op.user \notin gone,
         \A i \in Q : i > d /\ Asks(i) => \A x \in ItemsAt(i) :
           /\ x.owner = None /\ x.open \notin old' /\ cookie' # None /\ IsPending(x.open)
           => \/ cookie' = of[x.open] \/ \E y \in pending' : y.open = x.open
              \/ of[x.open] \in gone' /\ of[x.open] \notin owners'
                 /\ \A j \in Q' : phone'.queue[j].kind = "activated" => phone'.queue[j].user # of[x.open],
         \A op \in N : op.kind \in {"resolve", "own"} /\ cookie' # None => \A x \in op.items :
           x.owner = None /\ x.open \notin old' =>
             \/ cookie' = of[x.open] \/ \E y \in pending' : y.open = x.open
             \/ of[x.open] \in gone' /\ of[x.open] \notin owners'
                /\ \A j \in Q' : phone'.queue[j].kind = "activated" => phone'.queue[j].user # of[x.open]
  PROVE  LostInv'
<1>0. PhoneTyped
  BY DEF QueueInv
<1> DEFINE Out(u) == u \in gone' /\ u \notin owners'
                     /\ \A j \in Q' : phone'.queue[j].kind = "activated" => phone'.queue[j].user # u
<1>1. ASSUME NEW u, Expelled(u)
      PROVE  Out(u)
  <2>1. u \in gone /\ u \notin owners /\ \A j \in Q : phone.queue[j].kind = "activated" => phone.queue[j].user # u
    BY <1>1 DEF Expelled, Is, UserAt
  <2>2. u \notin owners'
    BY <2>1 DEF Is, UserAt
  <2>3. ASSUME NEW j \in Q', phone'.queue[j].kind = "activated"
        PROVE  phone'.queue[j].user # u
    BY <1>0, <2>1, <2>3, Shifted
  <2> QED
    BY <2>1, <2>2, <2>3
<1>2. SUFFICES ASSUME cookie' # None, NEW i \in Q', phone'.queue[i].kind \in {"resolve", "own"},
                      NEW x \in phone'.queue[i].items, x.owner = None, x.open \notin old'
               PROVE  cookie' = of[x.open] \/ (\E y \in pending' : y.open = x.open) \/ Out(of[x.open])
  BY DEF LostInv, Asks, ItemsAt, Unowned, Expelled, IsPending, Is, UserAt
<1> PICK op : op = phone'.queue[i]
  OBVIOUS
<1>3. CASE op \in N
  BY <1>2, <1>3
<1>4. ASSUME NEW k \in Q, k > d, op = phone.queue[k]
      PROVE  cookie' = of[x.open] \/ (\E y \in pending' : y.open = x.open) \/ Out(of[x.open])
  <2>1. Asks(k) /\ x \in ItemsAt(k) /\ Unowned(x)
    BY <1>2, <1>4 DEF Asks, ItemsAt, Unowned
  <2>2. cookie' = cookie /\ cookie # None
    BY <1>2, <2>1 DEF CookieStays
  <2>3. cookie = of[x.open] \/ IsPending(x.open) \/ Expelled(of[x.open])
    BY <2>1, <2>2 DEF QueueInv, LostInv
  <2>4. CASE Expelled(of[x.open])
    BY <1>1, <2>4
  <2>5. CASE IsPending(x.open)
    BY <1>2, <1>4, <2>1, <2>5
  <2> QED
    BY <2>2, <2>3, <2>4, <2>5
<1> QED
  BY <1>0, <1>3, <1>4, Shifted

LEMMA AskedShift ==
  ASSUME QueueInv, PhoneTyped', NEW d \in Nat, NEW N, Shift(d, N), CookieStays(N),
         of' = of, old \subseteq old',
         \/ owners \subseteq owners' \/ cookie' = None
         \/ \A i \in Q : i > d => ~Is(i, "own"),
         \A op \in N : op.kind = "own" /\ cookie' # None => of[First(op.items).open] \in owners',
         \A op \in N : op.kind \in {"resolve", "own"} /\ cookie' # None =>
           /\ N = {op}
           /\ \A x \in op.items : x.owner = None /\ x.open \notin old' =>
                \A j \in Q : Is(j, "remove") /\ OpenAt(j) = x.open => cookie' = of[x.open],
         \A op \in N : op.kind = "remove" /\ cookie' # None =>
           /\ N = {op}
           /\ \A i \in Q : Asks(i) => \A x \in ItemsAt(i) :
                x.owner = None /\ x.open \notin old' /\ x.open = op.open => cookie' = of[x.open]
  PROVE  AskedInv' /\ RemovedInv'
<1>0. PhoneTyped
  BY DEF QueueInv
<1>1. AskedInv'
  <2> SUFFICES ASSUME cookie' # None, NEW i \in Q', phone'.queue[i].kind = "own"
               PROVE  of[First(phone'.queue[i].items).open] \in owners'
    BY DEF AskedInv, Is, ItemsAt, First
  <2> PICK op : op = phone'.queue[i]
    OBVIOUS
  <2>1. CASE op \in N
    BY <2>1
  <2>2. ASSUME NEW k \in Q, k > d, op = phone.queue[k]
        PROVE  of[First(op.items).open] \in owners'
    <3>1. Is(k, "own") /\ ItemsAt(k) = op.items /\ Asks(k)
      BY <2>2 DEF Is, ItemsAt, Asks
    <3>2. cookie' = cookie
      BY <3>1 DEF CookieStays
    <3>3. of[First(op.items).open] \in owners
      BY <3>1, <3>2 DEF QueueInv, AskedInv
    <3> QED
      BY <2>2, <3>1, <3>3
  <2> QED
    BY <1>0, <2>1, <2>2, Shifted
<1>2. RemovedInv'
  <2> SUFFICES ASSUME cookie' # None, NEW i \in Q', NEW j \in Q', phone'.queue[i].kind \in {"resolve", "own"},
                      phone'.queue[j].kind = "remove", NEW x \in phone'.queue[i].items,
                      x.owner = None, x.open \notin old', phone'.queue[j].open = x.open
               PROVE  cookie' = of[x.open]
    BY DEF RemovedInv, Asks, Is, ItemsAt, Unowned, OpenAt
  <2> PICK op : op = phone'.queue[i]
    OBVIOUS
  <2> PICK rm : rm = phone'.queue[j]
    OBVIOUS
  <2>1. /\ op \in N \/ \E k \in Q : op = phone.queue[k]
        /\ rm \in N \/ \E k \in Q : rm = phone.queue[k]
    BY <1>0, Shifted
  <2>2. CASE op \in N /\ rm \in N
    BY <2>2
  <2>3. ASSUME NEW k \in Q, rm = phone.queue[k], op \in N
        PROVE  cookie' = of[x.open]
    BY <2>3 DEF Is, OpenAt
  <2>4. ASSUME NEW k \in Q, op = phone.queue[k], rm \in N
        PROVE  cookie' = of[x.open]
    BY <2>4 DEF Asks, ItemsAt
  <2>5. ASSUME NEW k \in Q, op = phone.queue[k], NEW m \in Q, rm = phone.queue[m]
        PROVE  cookie' = of[x.open]
    <3>1. Asks(k) /\ x \in ItemsAt(k) /\ Unowned(x) /\ Is(m, "remove") /\ OpenAt(m) = x.open
      BY <2>5 DEF Asks, ItemsAt, Unowned, Is, OpenAt
    <3>2. cookie' = cookie
      BY <3>1 DEF CookieStays
    <3> QED
      BY <3>1, <3>2 DEF QueueInv, RemovedInv
  <2> QED
    BY <2>1, <2>2, <2>3, <2>4, <2>5
<1> QED
  BY <1>1, <1>2

LEMMA DoneShift ==
  ASSUME PhoneTyped, DoneInv, PhoneTyped', NEW d \in Nat, NEW N, Shift(d, N), of' = of,
         \A o \in Opens : Excuse(o) => Excuse(o)', disturbed => disturbed',
         \A op \in N : op.kind \in {"ackLoad", "remove"} => Excuse(op.open)',
         \A i \in Q : i > d /\ Captures(i) /\ sdk = OpenAt(i) =>
           \A o \in Opens : o = OpenAt(i) => sdk' = o \/ Excuse(o)',
         \A op \in N : op.kind \in {"capture", "append"} => sdk' = op.open \/ Excuse(op.open)' \/ disturbed',
         tapped' \subseteq Opens,
         \A o \in tapped' : o \notin tapped \/ IsPending(o) =>
           \/ Excuse(o)' \/ disturbed' \/ (\E x \in pending' : x.open = o)
           \/ \E k \in Q' : phone'.queue[k].kind \in {"capture", "append"} /\ phone'.queue[k].open = o,
         \A i \in Q : i <= d /\ Captures(i) => \A o \in Opens : o = OpenAt(i) =>
           \/ Excuse(o)' \/ disturbed' \/ (\E x \in pending' : x.open = o)
           \/ \E k \in Q' : phone'.queue[k].kind \in {"capture", "append"} /\ phone'.queue[k].open = o
  PROVE  DoneInv'
<1>1. AckInv'
  <2> SUFFICES ASSUME NEW i \in Q', phone'.queue[i].kind \in {"ackLoad", "remove"}
               PROVE  (Excuse(phone.queue[i].open))'
    BY DEF AckInv, Acks, OpenAt
  <2> PICK op : op = phone'.queue[i]
    OBVIOUS
  <2> PICK o : o = op.open
    OBVIOUS
  <2>0. op \in StoreOp /\ op.kind \in {"ackLoad", "remove"}
    BY Shifted
  <2>1. o \in Opens
    BY <2>0, OpFields
  <2>2. \A k \in Q : op = phone.queue[k] => Excuse(o)
    BY <2>0 DEF DoneInv, AckInv, Acks, OpenAt
  <2>3. op \in N => Excuse(op.open)'
    BY <2>0
  <2>4. op \in N => Excuse(o)'
    BY <2>3 DEF Excuse
  <2>5. Excuse(o)'
    BY <2>1, <2>2, <2>4, Shifted
  <2> QED
    BY <2>5 DEF Excuse
<1>2. MemoryInv'
  <2> SUFFICES ASSUME NEW i \in Q', phone'.queue[i].kind \in {"capture", "append"}
               PROVE  (sdk = phone.queue[i].open \/ Excuse(phone.queue[i].open) \/ disturbed)'
    BY DEF MemoryInv, Captures, OpenAt
  <2> PICK op : op = phone'.queue[i]
    OBVIOUS
  <2> PICK o : o = op.open
    OBVIOUS
  <2>0. op \in StoreOp /\ op.kind \in {"capture", "append"}
    BY Shifted
  <2>1. o \in Opens
    BY <2>0, OpFields
  <2>2. ASSUME NEW k \in Q, k > d, op = phone.queue[k]
        PROVE  sdk' = o \/ Excuse(o)' \/ disturbed'
    <3>1. Captures(k) /\ OpenAt(k) = o
      BY <2>0, <2>2 DEF Captures, OpenAt
    <3>2. sdk = o \/ Excuse(o) \/ disturbed
      BY <3>1 DEF DoneInv, MemoryInv
    <3>3. sdk = o => sdk' = o \/ Excuse(o)'
      BY <2>1, <2>2, <3>1
    <3> QED
      BY <2>1, <3>2, <3>3
  <2>3. ASSUME op \in N
        PROVE  sdk' = o \/ Excuse(o)' \/ disturbed'
    <3>1. sdk' = op.open \/ Excuse(op.open)' \/ disturbed'
      BY <2>0, <2>3
    <3> QED
      BY <3>1 DEF Excuse
  <2>4. sdk' = o \/ Excuse(o)' \/ disturbed'
    BY <2>2, <2>3, Shifted
  <2> QED
    BY <2>4 DEF Excuse
<1>3. TapInv'
  <2> SUFFICES ASSUME NEW o \in tapped'
               PROVE  \/ (\E x \in pending' : x.open = o) \/ Excuse(o)' \/ disturbed'
                      \/ \E k \in Q' : phone'.queue[k].kind \in {"capture", "append"} /\ phone'.queue[k].open = o
    BY DEF TapInv, IsPending, Captures, OpenAt
  <2>1. CASE o \notin tapped \/ IsPending(o)
    BY <2>1
  <2>2. CASE Excuse(o) \/ disturbed
    BY <2>2
  <2>3. ASSUME NEW i \in Q, Captures(i), OpenAt(i) = o
        PROVE  \/ (\E x \in pending' : x.open = o) \/ Excuse(o)' \/ disturbed'
               \/ \E k \in Q' : phone'.queue[k].kind \in {"capture", "append"} /\ phone'.queue[k].open = o
    <3>1. CASE i <= d
      BY <2>3, <3>1
    <3>2. CASE i > d
      <4>1. i - d \in Q' /\ phone'.queue[i - d] = phone.queue[i]
        BY <3>2, Shifted
      <4> QED
        BY <2>3, <4>1 DEF Captures, OpenAt
    <3>3. i \in Nat
      BY Shifted
    <3> QED
      BY <3>1, <3>2, <3>3
  <2> QED
    BY <2>1, <2>2, <2>3 DEF DoneInv, TapInv
<1> QED
  BY <1>1, <1>2, <1>3 DEF DoneInv

LEMMA CaptureShift ==
  ASSUME PhoneTyped, CaptureInv, PhoneTyped', NEW d \in Nat, NEW N, Shift(d, N), tapped \subseteq tapped',
         \A i \in Q : i > d /\ Is(i, "capture") => \A o \in Opens : o = OpenAt(i) =>
           /\ o \notin Names(page)'
           /\ ~IsPending(o) => \A x \in pending' : x.open # o,
         \A op \in N : Mentions(op) \subseteq tapped',
         \A i \in Q : i > d /\ Is(i, "capture") => \A op \in N : OpenAt(i) \notin Mentions(op),
         \A op \in N : op.kind = "capture" =>
           /\ Len(phone'.queue) = Len(phone.queue) - d + 1
           /\ op.open \notin Names(page)'
           /\ \A j \in Q : j > d => op.open \notin Mentions(phone.queue[j])
           /\ d = Len(phone.queue) \/ \A x \in pending' : x.open # op.open
  PROVE  CaptureInv'
<1>0. /\ Q' = 1 .. Len(phone'.queue) /\ Len(phone'.queue) \in Nat
      /\ Q = 1 .. Len(phone.queue) /\ Len(phone.queue) \in Nat
  BY QueueLen DEF PhoneTyped, Q
<1>1. ASSUME NEW i \in Q'
      PROVE  (Mentions(phone.queue[i]) \subseteq tapped)'
  <2> PICK op : op = phone'.queue[i]
    OBVIOUS
  <2>1. Mentions(op) \subseteq tapped'
    <3>1. \A k \in Q : Mentions(phone.queue[k]) \subseteq tapped
      BY DEF CaptureInv
    <3> QED
      BY <3>1, Shifted
  <2> QED
    BY <2>1 DEF Mentions
<1>2. ASSUME NEW i \in Q', phone'.queue[i].kind = "capture"
      PROVE  /\ (OpenAt(i) \notin Names(page))'
             /\ \A j \in Q' : j # i => (OpenAt(i) \notin Mentions(phone.queue[j]))'
             /\ i = 1 \/ (~IsPending(OpenAt(i)))'
  <2> PICK op : op = phone'.queue[i]
    OBVIOUS
  <2> PICK o : o = op.open
    OBVIOUS
  <2>0. o \in Opens
    BY <1>2, Shifted, OpFields
  <2>1. SUFFICES /\ o \notin Names(page)'
                 /\ \A j \in Q' : \A p : j # i /\ p = phone'.queue[j] => o \notin Mentions(p)
                 /\ i = 1 \/ \A x \in pending' : x.open # o
    <3> PICK P : P = Names(page)'
      OBVIOUS
    <3>1. /\ o \notin P
          /\ \A j \in Q' : \A p : j # i /\ p = phone'.queue[j] => o \notin Mentions(p)
          /\ i = 1 \/ \A x \in pending' : x.open # o
      BY <2>1
    <3>2. \A j \in Q' : j # i => (OpenAt(i) \notin Mentions(phone.queue[j]))'
      BY <3>1 DEF OpenAt, Mentions
    <3>3. i = 1 \/ (~IsPending(OpenAt(i)))'
      BY <3>1 DEF OpenAt, IsPending
    <3>4. (OpenAt(i) \notin Names(page))'
      BY <3>1 DEF OpenAt
    <3> QED
      BY <3>2, <3>3, <3>4
  <2>2. ASSUME NEW k \in Q, k = i + d, op = phone.queue[k]
        PROVE  /\ o \notin Names(page)'
               /\ \A j \in Q' : \A p : j # i /\ p = phone'.queue[j] => o \notin Mentions(p)
               /\ i = 1 \/ \A x \in pending' : x.open # o
    <3>1. Is(k, "capture") /\ OpenAt(k) = o /\ k > d
      BY <1>0, <1>2, <2>2 DEF Is, OpenAt
    <3>2. o \notin Names(page)'
      BY <2>0, <3>1
    <3>3. /\ \A j \in Q : j # k => o \notin Mentions(phone.queue[j])
          /\ k = 1 \/ ~IsPending(o)
      BY <3>1 DEF CaptureInv
    <3>4. i = 1 \/ \A x \in pending' : x.open # o
      BY <1>0, <2>0, <2>2, <3>1, <3>3
    <3>5. ASSUME NEW j \in Q', NEW p, j # i, p = phone'.queue[j]
          PROVE  o \notin Mentions(p)
      <4>1. CASE j + d \in Q /\ p = phone.queue[j + d]
        BY <1>0, <2>2, <3>3, <3>5, <4>1
      <4>2. CASE p \in N
        BY <3>1, <4>2
      <4> QED
        BY <3>5, <4>1, <4>2, Shifted
    <3> QED
      BY <3>2, <3>4, <3>5
  <2>3. ASSUME op \in N, i + d \notin Q
        PROVE  /\ o \notin Names(page)'
               /\ \A j \in Q' : \A p : j # i /\ p = phone'.queue[j] => o \notin Mentions(p)
               /\ i = 1 \/ \A x \in pending' : x.open # o
    <3>1. /\ Len(phone'.queue) = Len(phone.queue) - d + 1
          /\ o \notin Names(page)'
          /\ \A j \in Q : j > d => o \notin Mentions(phone.queue[j])
          /\ d = Len(phone.queue) \/ \A x \in pending' : x.open # o
      BY <1>2, <2>3
    <3>2. i = Len(phone'.queue)
      BY <1>0, <2>3, <3>1
    <3>3. ASSUME NEW j \in Q', NEW p, j # i, p = phone'.queue[j]
          PROVE  o \notin Mentions(p)
      <4>1. j + d \in Q /\ j + d > d
        BY <1>0, <3>1, <3>2, <3>3
      <4>2. p = phone.queue[j + d]
        BY <3>3, <4>1, Shifted
      <4> QED
        BY <3>1, <4>1, <4>2
    <3> QED
      BY <1>0, <3>1, <3>2, <3>3
  <2> QED
    BY <1>0, <2>2, <2>3, Shifted
<1> QED
  BY <1>1, <1>2 DEF CaptureInv, Is

(***************************************************************************)
(* The page's handlers keep a document sound.                              *)
(***************************************************************************)
Same(d, e) ==
  /\ e.phase = d.phase /\ e.epoch = d.epoch /\ e.user = d.user /\ e.clearing = d.clearing

LEMMA OpenEachOK ==
  ASSUME NEW d, PageOK(d), DataTyped, NEW M \in SUBSET Message,
         \A m \in M : m.open \in tapped,
         \A m \in M : d.phase = "authenticated" /\ m.epoch = d.epoch => m.open \in old \/ d.user = of[m.open]
  PROVE  /\ PageOK(OpenEach(d, M)) /\ Same(d, OpenEach(d, M))
         /\ Names(OpenEach(d, M)) \subseteq Names(d) \cup {m.open : m \in M}
<1> PICK e : e = OpenEach(d, M)
  OBVIOUS
<1> DEFINE fresh == {m \in M : \A t \in d.tasks : t.open # m.open}
           now == {m \in fresh : m.epoch = d.epoch}
           added == {[open |-> m.open, epoch |-> d.epoch, user |-> d.user,
                      step |-> "record", found |-> TRUE] : m \in now}
<1>0. PageTyped(d)
  BY DEF PageOK
<1>1. CASE d.phase = "anonymous"
  <2>1. e = [d EXCEPT !.prompted = @ \cup {m.open : m \in M}]
    BY <1>1 DEF OpenEach
  <2>2. /\ PageTyped(e) /\ Same(d, e) /\ e.pending = d.pending /\ e.tasks = d.tasks
    BY <1>0, <2>1 DEF PageTyped, Same
  <2>3. PageOK(e) /\ Names(e) = Names(d)
    BY <2>2 DEF PageOK, Names, Same
  <2> QED
    BY <2>2, <2>3
<1>2. CASE d.phase # "authenticated" /\ d.phase # "anonymous"
  BY <1>2 DEF OpenEach, Same
<1>3. CASE d.phase = "authenticated"
  <2>1. e = [d EXCEPT !.pending = @ \ (fresh \ now), !.tasks = @ \cup added]
    BY <1>3 DEF OpenEach
  <2>2. d.user \in Accounts
    BY <1>0, <1>3 DEF PageOK, PageTyped
  <2>3. added \subseteq PageTask
    <3> SUFFICES ASSUME NEW m \in now
                 PROVE  [open |-> m.open, epoch |-> d.epoch, user |-> d.user,
                         step |-> "record", found |-> TRUE] \in PageTask
      OBVIOUS
    <3>1. m.open \in Opens /\ d.epoch \in Nat
      BY <1>0 DEF Message, PageTyped
    <3> QED
      BY <2>2, <3>1 DEF PageTask, Stages
  <2>4. /\ \A t \in added : t.step = "record" /\ t.user = d.user /\ \A s \in d.tasks : s.open # t.open
        /\ \A t, s \in added : t.open = s.open => t = s
        /\ \A t \in added : \E m \in now : t.open = m.open
    <3>1. ASSUME NEW t \in added
          PROVE  \E m \in now : t = [open |-> m.open, epoch |-> d.epoch, user |-> d.user,
                                     step |-> "record", found |-> TRUE]
      OBVIOUS
    <3>2. \A m \in now : \A s \in d.tasks : s.open # m.open
      OBVIOUS
    <3> HIDE DEF now, added
    <3>3. ASSUME NEW t \in added
          PROVE  \E m \in now : /\ t.open = m.open /\ t.step = "record" /\ t.user = d.user
                                /\ t = [open |-> t.open, epoch |-> d.epoch, user |-> d.user,
                                        step |-> "record", found |-> TRUE]
      <4>1. PICK m \in now : t = [open |-> m.open, epoch |-> d.epoch, user |-> d.user,
                                  step |-> "record", found |-> TRUE]
        BY <3>1
      <4>2. t.open = m.open /\ t.step = "record" /\ t.user = d.user
        BY <4>1
      <4> QED
        BY <4>1, <4>2
    <3>4. \A t, s \in added : t.open = s.open => t = s
      <4> SUFFICES ASSUME NEW t \in added, NEW s \in added, t.open = s.open
                   PROVE  t = s
        OBVIOUS
      <4> QED
        BY <3>3
    <3>5. \A t \in added : \A s \in d.tasks : s.open # t.open
      BY <3>2, <3>3
    <3> QED
      BY <3>3, <3>4, <3>5
  <2> HIDE DEF fresh, now, added
  <2>5. PICK P \in SUBSET d.pending : e = [d EXCEPT !.pending = P, !.tasks = @ \cup added]
    BY <2>1
  <2>6. /\ PageTyped(e) /\ Same(d, e) /\ e.pending = P /\ e.tasks = d.tasks \cup added
    BY <1>0, <2>3, <2>5 DEF PageTyped, Same
  <2>7. \A t \in added : t.open \in old \/ t.user = of[t.open]
    BY <1>3, <2>4 DEF now, fresh
  <2>8. Names(e) \subseteq Names(d) \cup {m.open : m \in M}
    BY <2>4, <2>6 DEF Names, now, fresh
  <2>9. Names(e) \subseteq tapped
    BY <2>8 DEF PageOK
  <2>10. \A t, s \in e.tasks : t.open = s.open => t = s
    BY <2>4, <2>6 DEF PageOK
  <2>11. \A t \in e.tasks : t.step \in {"fetch", "target", "navigate"} => ~Recorded(t)
    BY <2>4, <2>6 DEF PageOK
  <2>12. \A m \in e.pending :
       /\ m.epoch <= e.epoch
       /\ e.phase = "authenticated" /\ m.epoch = e.epoch => m.open \in old \/ e.user = of[m.open]
    BY <2>6 DEF PageOK, Same
  <2>13. \A t \in e.tasks : t.open \in old \/ t.user = of[t.open]
    BY <2>6, <2>7 DEF PageOK
  <2>14. (e.phase = "authenticated") = (e.user # None)
    BY <2>6 DEF PageOK, Same
  <2> QED
    BY <2>6, <2>8, <2>9, <2>10, <2>11, <2>12, <2>13, <2>14 DEF PageOK
<1> QED
  BY <1>1, <1>2, <1>3

LEMMA LessOK ==
  ASSUME NEW d, PageOK(d), NEW e, PageTyped(e), Same(d, e),
         e.pending \subseteq d.pending, e.tasks \subseteq d.tasks
  PROVE  PageOK(e) /\ Names(e) \subseteq Names(d)
BY DEF PageOK, Names, Same

LEMMA ReceiveOK ==
  ASSUME NEW d, PageOK(d), DataTyped, NEW M \in SUBSET Message,
         \A m \in M : m.open \in tapped /\ m.epoch <= d.epoch,
         \A m \in M : d.phase = "authenticated" /\ m.epoch = d.epoch => m.open \in old \/ d.user = of[m.open]
  PROVE  /\ PageOK(Receive(d, M)) /\ Same(d, Receive(d, M))
         /\ Names(Receive(d, M)) \subseteq Names(d) \cup {m.open : m \in M}
<1> DEFINE others == {n \in d.pending : \A m \in M : m.open # n.open}
<1> PICK e : e = [d EXCEPT !.pending = others \cup M]
  OBVIOUS
<1>1. Receive(d, M) = OpenEach(e, M)
  BY DEF Receive
<1>2. PageTyped(d) /\ others \subseteq d.pending
  BY DEF PageOK
<1> HIDE DEF others
<1>3. PageTyped(e) /\ Same(d, e) /\ e.pending = others \cup M /\ e.tasks = d.tasks
  BY <1>2 DEF PageTyped, Same
<1>4. Names(e) \subseteq Names(d) \cup {m.open : m \in M}
  BY <1>2, <1>3 DEF Names
<1>5. \A m \in e.pending :
       /\ m.epoch <= e.epoch
       /\ e.phase = "authenticated" /\ m.epoch = e.epoch => m.open \in old \/ e.user = of[m.open]
  BY <1>2, <1>3 DEF PageOK, Same
<1>6. PageOK(e)
  <2>1. Names(e) \subseteq tapped
    BY <1>4 DEF PageOK
  <2>2. (e.phase = "authenticated") = (e.user # None)
    BY <1>3 DEF PageOK, Same
  <2> QED
    BY <1>3, <1>5, <2>1, <2>2 DEF PageOK
<1>7. \A m \in M : e.phase = "authenticated" /\ m.epoch = e.epoch => m.open \in old \/ e.user = of[m.open]
  BY <1>3 DEF Same
<1>8. /\ PageOK(OpenEach(e, M)) /\ Same(e, OpenEach(e, M))
      /\ Names(OpenEach(e, M)) \subseteq Names(e) \cup {m.open : m \in M}
  BY <1>6, <1>7, OpenEachOK
<1>9. Same(d, OpenEach(e, M))
  BY <1>3, <1>8 DEF Same
<1> QED
  BY <1>1, <1>4, <1>8, <1>9

LEMMA NextReadOK ==
  ASSUME NEW d, PageOK(d), NEW c, c.epoch \in Nat, c.user \in Accounts \cup {None},
         NEW left \in SUBSET (Accounts \X tapped)
  PROVE  LET e == NextRead(d, c, left) IN
         PageOK(e) /\ Same(d, e) /\ e.pending = d.pending /\ e.tasks = d.tasks
<1> PICK e : e = NextRead(d, c, left)
  OBVIOUS
<1>0. PageTyped(d)
  BY DEF PageOK
<1>1. PICK r \in Round \cup {None} : e = [d EXCEPT !.reading = r]
  <2>1. CASE left = {}
    BY <2>1 DEF NextRead
  <2>2. CASE left # {}
    <3> DEFINE p == CHOOSE p \in left : TRUE
    <3>1. p \in left
      BY <2>2
    <3>2. [epoch |-> c.epoch, user |-> c.user, left |-> left \ {p}, at |-> p, step |-> "put"] \in Round
      BY <3>1 DEF Round
    <3> QED
      BY <2>2, <3>2 DEF NextRead
  <2> QED
    BY <2>1, <2>2
<1>2. PageTyped(e) /\ Same(d, e) /\ e.pending = d.pending /\ e.tasks = d.tasks
  BY <1>0, <1>1 DEF PageTyped, Same
<1>3. PageOK(e)
  BY <1>2, LessOK
<1> QED
  BY <1>2, <1>3

LEMMA FlushReadsOK ==
  ASSUME NEW d, PageOK(d), NEW intents \in SUBSET (Accounts \X tapped)
  PROVE  LET e == FlushReads(d, intents) IN
         PageOK(e) /\ Same(d, e) /\ e.pending = d.pending /\ e.tasks = d.tasks
<1>1. d.epoch \in Nat /\ d.user \in Accounts \cup {None}
  BY DEF PageOK, PageTyped
<1> DEFINE left == {r \in intents : r[1] = d.user}
<1>2. left \in SUBSET (Accounts \X tapped)
  OBVIOUS
<1>3. LET e == NextRead(d, d, left) IN
      PageOK(e) /\ Same(d, e) /\ e.pending = d.pending /\ e.tasks = d.tasks
  <2> HIDE DEF left
  <2> QED
    BY <1>1, <1>2, NextReadOK
<1> QED
  BY <1>3 DEF FlushReads, Same

LEMMA ResumeOK ==
  ASSUME NEW d, PageOK(d), DataTyped
  PROVE  PageOK(Resume(d)) /\ Same(d, Resume(d)) /\ Names(Resume(d)) \subseteq Names(d)
<1> PICK e : e = OpenEach(d, d.pending)
  OBVIOUS
<1> PICK f : f = Resume(d)
  OBVIOUS
<1>1. /\ d.pending \in SUBSET Message
      /\ \A m \in d.pending : m.open \in tapped
      /\ \A m \in d.pending : d.phase = "authenticated" /\ m.epoch = d.epoch => m.open \in old \/ d.user = of[m.open]
      /\ {m.open : m \in d.pending} \subseteq Names(d)
  BY DEF PageOK, PageTyped, Names
<1>2. PageOK(e) /\ Same(d, e) /\ Names(e) \subseteq Names(d)
  BY <1>1, OpenEachOK
<1>3. f = FlushReads(e, reads) /\ reads \in SUBSET (Accounts \X tapped)
  BY DEF Resume, DataTyped
<1>4. PageOK(f) /\ Same(e, f) /\ f.pending = e.pending /\ f.tasks = e.tasks
  BY <1>2, <1>3, FlushReadsOK
<1> QED
  BY <1>2, <1>4 DEF Same, Names

LEMMA NewPageOK ==
  PageOK(NewPage) /\ Names(NewPage) = {} /\ NewPage.phase = "bootstrapping" /\ NewPage.user = None
    /\ NewPage.epoch = 0
BY DEF PageOK, PageTyped, Names, NewPage

(* A document stays sound while the world around it moves on.              *)
LEMMA PagePersists ==
  ASSUME NEW d, PageOK(d), of' = of, old \subseteq old', tapped \subseteq tapped',
         gone \subseteq gone',
         \A r \in records' : r \in records \/ \A t \in d.tasks : t.open # r.open
  PROVE  PageOK(d)' /\ Names(d)' = Names(d)
<1>1. PageTyped(d)'
  <2>1. PageTyped(d)
    BY DEF PageOK
  <2>2. Round \subseteq Round'
    BY DEF Round
  <2> QED
    BY <2>1, <2>2 DEF PageTyped
<1>2. Names(d)' = Names(d)
  BY DEF Names
<1>3. \A t \in d.tasks : Recorded(t)' => Recorded(t)
  BY DEF Recorded
<1>4. \A t \in d.tasks : t.step \in {"fetch", "target", "navigate"} => ~Recorded(t)'
  BY <1>3 DEF PageOK
<1> QED
  BY <1>1, <1>2, <1>4 DEF PageOK

(***************************************************************************)
(* A step that leaves the record of opens alone: of the page, of the       *)
(* person, of the time, or an operation that fails.                        *)
(***************************************************************************)
Outer(op) ==
  \/ op.kind = "flush"
  \/ op.kind = "withdrawal" /\ cookie' = None /\ op.user \in gone'
  \/ op.kind = "activated" /\ op.user \notin gone
  \/ op.kind = "ackLoad" /\ op.open \in Names(page) /\ Excuse(op.open)'

LEMMA OuterStep ==
  ASSUME OpenInv, DataTyped', PhoneTyped', RecordInv', SessionInv', NEW d \in Nat, NEW N, Shift(d, N),
         of' = of, pending' = pending, tapped' = tapped, sdk' = sdk, old \subseteq old', gone \subseteq gone',
         owners \subseteq owners',
         \A u \in owners' \ owners : \E j \in Q : Is(j, "activated") /\ UserAt(j) = u,
         \A o \in Opens : Excuse(o) => Excuse(o)', disturbed => disturbed',
         cookie' \in {None, cookie} \/ \A i \in Q : ~Asks(i),
         phone.generation <= phone'.generation,
         ~phone'.connected => ~phone.connected \/ phone.generation < phone'.generation,
         \A i \in Q : i <= d /\ Captures(i) => disturbed',
         \A op \in N : Outer(op),
         \A op \in N : op.kind = "activated" => N = {op},
         NEW e, page' = e, PageOK(e)', Names(e) \subseteq Names(page)
  PROVE  OpenInv'
<1>0. PhoneTyped /\ QueueInv /\ DoneInv /\ CaptureInv /\ PageOK(page)
  BY DEF OpenInv, QueueInv
<1>1. \A op \in N : op.kind \in {"flush", "withdrawal", "activated", "ackLoad"}
  BY DEF Outer
<1>2. \A op \in N : op.kind \notin {"resolve", "own", "append", "remove", "capture"}
  BY <1>1
<1>3. CookieStays(N)
  BY <1>2 DEF CookieStays
<1>4. \A k \in Q : Is(k, "withdrawal") => UserAt(k) \in gone
  BY <1>0 DEF QueueInv, OrderInv
<1>5. OrderInv'
  <2>1. \A op \in N : op.kind = "activated" =>
           N = {op} /\ \A k \in Q : Is(k, "withdrawal") => UserAt(k) # op.user
    BY <1>4 DEF Outer
  <2>2. \A op \in N : op.kind = "withdrawal" => op.user \in gone'
    BY DEF Outer
  <2> QED
    BY <1>0, <1>2, <2>1, <2>2, OrderShift
<1>6. AskOrder'
  <2>1. \A op \in N : op.kind = "withdrawal" => cookie' = None
    BY DEF Outer
  <2> QED
    BY <1>0, <1>2, <1>3, <2>1, AskShift
<1>7. ItemsInv'
  <2>1. (\A x \in pending' : TrueOwner(x)) /\ Distinct(pending')
    BY <1>0 DEF QueueInv, ItemsInv
  <2> QED
    BY <1>0, <1>2, <2>1, ItemsShift
<1>8. RemovalInv'
  <2>1. \A x \in pending' : x.owner = None /\ x.open \notin old' =>
           \/ \E y \in pending : y.open = x.open /\ y.owner = None
           \/ \A j \in Q : Is(j, "remove") => OpenAt(j) # x.open
    OBVIOUS
  <2>2. \A i, j \in Q : i > d /\ j > d /\ Is(i, "append") /\ Is(j, "remove") /\ OpenAt(i) = OpenAt(j)
           /\ IsPending(OpenAt(j)) /\ OpenAt(j) \notin old' => \E y \in pending' : y.open = OpenAt(j)
    BY DEF IsPending
  <2> QED
    BY <1>0, <1>2, <2>1, <2>2, RemovalShift
<1>9. LostInv'
  <2>1. \A op \in N : op.kind = "activated" => op.user \notin gone
    BY DEF Outer
  <2>2. \A i \in Q : i > d /\ Asks(i) => \A x \in ItemsAt(i) :
           /\ x.owner = None /\ x.open \notin old' /\ cookie' # None /\ IsPending(x.open)
           => \/ cookie' = of[x.open] \/ \E y \in pending' : y.open = x.open
              \/ of[x.open] \in gone' /\ of[x.open] \notin owners'
                 /\ \A j \in Q' : phone'.queue[j].kind = "activated" => phone'.queue[j].user # of[x.open]
    BY DEF IsPending
  <2>3. \A u \in owners' \ owners : u \in gone => \E j \in Q : Is(j, "activated") /\ UserAt(j) = u
    OBVIOUS
  <2> QED
    BY <1>0, <1>2, <1>3, <2>1, <2>2, <2>3, LostShift
<1>10. AskedInv' /\ RemovedInv'
  BY <1>0, <1>2, <1>3, AskedShift
<1>11. DoneInv'
  <2>1. \A op \in N : op.kind \in {"ackLoad", "remove"} => Excuse(op.open)'
    BY <1>2 DEF Outer
  <2>2. \A o \in tapped' : o \notin tapped \/ IsPending(o) => \E x \in pending' : x.open = o
    BY DEF IsPending
  <2>3. tapped' \subseteq Opens
    BY DEF DataTyped
  <2> QED
    BY <1>0, <1>2, <2>1, <2>2, <2>3, DoneShift
<1>12. CaptureInv'
  <2>1. Names(page)' = Names(e)
    <3> PICK P : P = Names(e)
      OBVIOUS
    <3> QED
      BY DEF Names
  <2>2. \A i \in Q : Is(i, "capture") => OpenAt(i) \notin Names(page)
    BY <1>0 DEF CaptureInv
  <2>3. \A op \in N : Mentions(op) \subseteq Names(page)
    BY <1>1 DEF Outer, Mentions
  <2>4. Names(page) \subseteq tapped
    BY <1>0 DEF PageOK
  <2>5. \A i \in Q : i > d /\ Is(i, "capture") => \A o \in Opens : o = OpenAt(i) =>
           /\ o \notin Names(page)'
           /\ ~IsPending(o) => \A x \in pending' : x.open # o
    BY <2>1, <2>2 DEF IsPending
  <2> QED
    BY <1>0, <1>2, <2>2, <2>3, <2>4, <2>5, CaptureShift
<1>13. PageOK(page)'
  BY DEF PageOK, PageTyped, Names
<1> QED
  BY <1>5, <1>6, <1>7, <1>8, <1>9, <1>10, <1>11, <1>12, <1>13 DEF OpenInv, QueueInv

LEMMA PhoneAppends ==
  ASSUME PhoneTyped, NEW op \in StoreOp, phone' = Enqueue(phone, op)
  PROVE  /\ PhoneTyped' /\ Shift(0, {op})
         /\ phone'.connected = phone.connected /\ phone'.auth = phone.auth
         /\ phone'.generation = phone.generation
<1>1. /\ phone' = [phone EXCEPT !.queue = Append(phone.queue, op)]
      /\ DOMAIN phone = {"connected", "generation", "auth", "delivered", "queue"}
  BY DEF Enqueue, PhoneTyped
<1>2. /\ phone'.queue = Append(phone.queue, op)
      /\ phone'.connected = phone.connected /\ phone'.auth = phone.auth
      /\ phone'.generation = phone.generation
      /\ DOMAIN phone' = {"connected", "generation", "auth", "delivered", "queue"}
  BY <1>1
<1>3. phone'.queue \in Seq(StoreOp) /\ Shift(0, {op})
  BY <1>2, Shifts
<1> QED
  BY <1>2, <1>3 DEF PhoneTyped

(* The page moves on, and may acknowledge what is recorded as done.        *)
LEMMA PageStep ==
  ASSUME OpenInv, DataTyped', RecordInv', records \subseteq records',
         UNCHANGED <<of, sdk, pending, owners, cookie, old, gone, tapped, disturbed>>,
         \/ phone' = phone
         \/ \E o \in Names(page) : \E c : phone' = AcceptAck(phone, o, c) /\ Excuse(o)',
         NEW e, page' = e, PageOK(e)', Same(page, e), Names(e) \subseteq Names(page)
  PROVE  OpenInv'
<1>0. /\ PhoneTyped /\ PageOK(page) /\ SessionInv
      /\ Names(page) \subseteq Opens
  BY DEF OpenInv, QueueInv, PageOK, DataTyped
<1>1. PICK N : /\ PhoneTyped' /\ Shift(0, N)
               /\ phone'.connected = phone.connected /\ phone'.auth = phone.auth
               /\ phone'.generation = phone.generation
               /\ \A op \in N : op.kind = "ackLoad" /\ op.open \in Names(page) /\ Excuse(op.open)'
  <2>1. CASE phone' = phone
    <3>1. PhoneTyped' /\ Shift(0, {})
      BY <1>0, <2>1, Shifts DEF PhoneTyped
    <3> QED
      BY <2>1, <3>1
  <2>2. ASSUME NEW o \in Names(page), NEW c, phone' = AcceptAck(phone, o, c), Excuse(o)', phone' # phone
        PROVE  \E N : /\ PhoneTyped' /\ Shift(0, N)
               /\ phone'.connected = phone.connected /\ phone'.auth = phone.auth
               /\ phone'.generation = phone.generation
               /\ \A op \in N : op.kind = "ackLoad" /\ op.open \in Names(page) /\ Excuse(op.open)'
    <3> PICK op : op = [kind |-> "ackLoad", open |-> o, auth |-> phone.auth, generation |-> phone.generation]
      OBVIOUS
    <3>1. phone' = Enqueue(phone, op) /\ Authenticated(phone)
      BY <2>2 DEF AcceptAck
    <3>2. /\ phone.auth \in LoggedIn
          /\ phone.generation \in Nat /\ o \in Opens
      BY <1>0, <3>1 DEF PhoneTyped, Authenticated, Session, LoggedIn
    <3>3. op \in AckOp
      BY <3>2 DEF AckOp
    <3>4. op \in StoreOp /\ op.kind = "ackLoad" /\ op.open = o
      BY <3>3 DEF StoreOp
    <3>5. \A x \in {op} : x.kind = "ackLoad" /\ x.open \in Names(page) /\ Excuse(x.open)'
      BY <2>2, <3>4 DEF Excuse
    <3>6. /\ PhoneTyped' /\ Shift(0, {op})
          /\ phone'.connected = phone.connected /\ phone'.auth = phone.auth
          /\ phone'.generation = phone.generation
      BY <1>0, <3>1, <3>4, PhoneAppends
    <3> WITNESS {op}
    <3> QED
      BY <3>5, <3>6
  <2> QED
    BY <2>1, <2>2
<1>2. SessionInv'
  BY <1>0, <1>1 DEF SessionInv, Same
<1>3. \A op \in N : Outer(op) /\ op.kind # "activated"
  BY <1>1 DEF Outer
<1>4. \A o \in Opens : Excuse(o) => Excuse(o)'
  BY DEF Excuse
<1>5. \A i \in Q : i <= 0 /\ Captures(i) => disturbed'
  BY <1>0, Shifts
<1>6. phone.generation \in Nat
  BY <1>0 DEF PhoneTyped
<1> QED
  BY <1>1, <1>2, <1>3, <1>4, <1>5, <1>6, OuterStep

LEMMA GoOK ==
  ASSUME NEW d, PageOK(d), NEW t \in d.tasks, NEW u \in PageTask, u.open = t.open, u.user = t.user,
         u.step \in {"fetch", "target", "navigate"} => ~Recorded(t),
         NEW e, PageTyped(e), Same(d, e), e.pending \subseteq d.pending,
         e.tasks = (d.tasks \ {t}) \cup {u}
  PROVE  PageOK(e) /\ Names(e) \subseteq Names(d)
<1>1. Names(e) \subseteq Names(d)
  BY DEF Names
<1>2. \A s, r \in e.tasks : s.open = r.open => s = r
  BY DEF PageOK
<1>3. \A s \in e.tasks : s.step \in {"fetch", "target", "navigate"} => ~Recorded(s)
  BY DEF PageOK, Recorded
<1>4. \A s \in e.tasks : s.open \in old \/ s.user = of[s.open]
  BY DEF PageOK
<1>5. \A m \in e.pending :
       /\ m.epoch <= e.epoch
       /\ e.phase = "authenticated" /\ m.epoch = e.epoch => m.open \in old \/ e.user = of[m.open]
  BY DEF PageOK, Same
<1>6. Names(e) \subseteq tapped /\ (e.phase = "authenticated") = (e.user # None)
  BY <1>1 DEF PageOK, Same
<1> QED
  BY <1>1, <1>2, <1>3, <1>4, <1>5, <1>6 DEF PageOK

LEMMA TaskIs ==
  ASSUME PageOK(page), NEW t \in page.tasks
  PROVE  /\ t \in PageTask /\ t.open \in tapped /\ t.open \in Names(page) /\ t.user \in Accounts
         /\ t.open \in Opens /\ t.found \in BOOLEAN
BY DEF PageOK, PageTyped, Names, PageTask

LEMMA FinishOK ==
  ASSUME PageOK(page), NEW t \in page.tasks
  PROVE  /\ PageOK(Finish(page, t)) /\ Same(page, Finish(page, t))
         /\ Names(Finish(page, t)) \subseteq Names(page)
         /\ PageOK(Finish(Ack(page, t), t)) /\ Same(page, Finish(Ack(page, t), t))
         /\ Names(Finish(Ack(page, t), t)) \subseteq Names(page)
         /\ \A s \in Finish(page, t).tasks \cup Finish(Ack(page, t), t).tasks : s.open # t.open
<1> PICK d : d = page
  OBVIOUS
<1> PICK e : e = Finish(d, t)
  OBVIOUS
<1> PICK f : f = Finish(Ack(d, t), t)
  OBVIOUS
<1>0. PageTyped(d)
  BY DEF PageOK
<1>1. e = [d EXCEPT !.tasks = @ \ {t}]
  BY DEF Finish
<1>2. PageTyped(e) /\ Same(d, e) /\ e.pending = d.pending /\ e.tasks = d.tasks \ {t}
  BY <1>0, <1>1 DEF PageTyped, Same
<1>3. PICK P \in SUBSET d.pending : f = [d EXCEPT !.pending = P, !.tasks = @ \ {t}]
  <2>1. Ack(d, t) = [d EXCEPT !.pending = {n \in @ : n.open # t.open}]
    BY DEF Ack
  <2> QED
    BY <1>0, <2>1 DEF Finish, PageTyped
<1>4. PageTyped(f) /\ Same(d, f) /\ f.pending = P /\ f.tasks = d.tasks \ {t}
  BY <1>0, <1>3 DEF PageTyped, Same
<1>5. \A s \in d.tasks \ {t} : s.open # t.open
  BY DEF PageOK
<1> QED
  BY <1>2, <1>4, <1>5, LessOK

LEMMA GoIs ==
  ASSUME NEW d, PageOK(d), NEW t \in d.tasks, NEW s \in Stages,
         s \in {"fetch", "target", "navigate"} => ~Recorded(t)
  PROVE  LET e == Go(d, t, s) IN PageOK(e) /\ Same(d, e) /\ Names(e) \subseteq Names(d)
<1> PICK u : u = [t EXCEPT !.step = s]
  OBVIOUS
<1> PICK e : e = Go(d, t, s)
  OBVIOUS
<1>0. PageTyped(d) /\ t \in PageTask
  BY DEF PageOK, PageTyped
<1>1. u \in PageTask /\ u.open = t.open /\ u.user = t.user /\ u.step = s
  BY <1>0 DEF PageTask
<1>2. e = [d EXCEPT !.tasks = (@ \ {t}) \cup {u}]
  BY DEF Go
<1>3. PageTyped(e) /\ Same(d, e) /\ e.pending = d.pending /\ e.tasks = (d.tasks \ {t}) \cup {u}
  BY <1>0, <1>1, <1>2 DEF PageTyped, Same
<1> QED
  BY <1>1, <1>3, GoOK

(* A page-only step.                                                       *)
LEMMA PageGoes ==
  ASSUME OpenInv, UNCHANGED <<sdk, durable, phone, web, world, disturbed>>,
         marked' \subseteq tapped, events' \in 0 .. MaxEvents,
         NEW e, page' = e, PageOK(e), Same(page, e), Names(e) \subseteq Names(page)
  PROVE  OpenInv'
<1>1. DataTyped'
  BY DEF OpenInv, DataTyped, durable, web, world
<1>2. RecordInv'
  BY DEF OpenInv, RecordInv, web, world
<1>3. PageOK(e)'
  BY PagePersists DEF web, world
<1> QED
  BY <1>1, <1>2, <1>3, PageStep DEF durable, web, world

LEMMA FetchKeeps == ASSUME OpenInv, NEW t, Fetch(t) PROVE OpenInv'
<1>0. /\ t \in page.tasks /\ t.step = "fetch" /\ PageOK(page) /\ ~Recorded(t) /\ PageTyped(page)
      /\ UNCHANGED <<sdk, durable, phone, web, world, disturbed>>
      /\ marked' \subseteq tapped /\ events' \in 0 .. MaxEvents
  BY DEF Fetch, OpenInv, PageOK, DataTyped
<1> PICK d : d = page
  OBVIOUS
<1>1. CASE ~Current(t)
  BY <1>0, <1>1, FinishOK, PageGoes DEF Fetch
<1>2. CASE Current(t) /\ Visible(t)
  <2>1. page' = Go(d, t, "target")
    BY <1>2 DEF Fetch
  <2>2. LET e == Go(d, t, "target") IN PageOK(e) /\ Same(d, e) /\ Names(e) \subseteq Names(d)
    BY <1>0, GoIs DEF Stages
  <2> QED
    BY <1>0, <2>1, <2>2, PageGoes
<1>3. CASE Current(t) /\ ~Visible(t)
  <2> PICK u : u = [t EXCEPT !.found = FALSE]
    OBVIOUS
  <2> PICK e : e = [d EXCEPT !.tasks = (@ \ {t}) \cup {u}]
    OBVIOUS
  <2>0. t \in PageTask
    BY <1>0, TaskIs
  <2>1. u \in PageTask /\ u.open = t.open /\ u.user = t.user /\ u.step = t.step
    BY <2>0 DEF PageTask
  <2>2. PageTyped(e) /\ Same(d, e) /\ e.pending = d.pending /\ e.tasks = (d.tasks \ {t}) \cup {u}
    BY <1>0, <2>1 DEF PageTyped, Same
  <2>3. PageOK(e) /\ Names(e) \subseteq Names(d)
    BY <1>0, <2>1, <2>2, GoOK
  <2>4. u \in e.tasks /\ ~Recorded(u)
    BY <1>0, <2>1, <2>2 DEF Recorded
  <2>5. PICK s \in {"complete", "navigate"} : page' = Go(e, u, s)
    BY <1>3 DEF Fetch, Present
  <2>6. LET f == Go(e, u, s) IN PageOK(f) /\ Same(e, f) /\ Names(f) \subseteq Names(e)
    <3>1. s \in Stages
      BY DEF Stages
    <3> QED
      BY <2>3, <2>4, <3>1, GoIs
  <2>7. LET f == Go(e, u, s) IN Same(d, f) /\ Names(f) \subseteq Names(d)
    BY <2>2, <2>3, <2>6 DEF Same
  <2> QED
    BY <1>0, <2>5, <2>6, <2>7, PageGoes
<1> QED
  BY <1>1, <1>2, <1>3

LEMMA FetchTargetKeeps == ASSUME OpenInv, NEW t, FetchTarget(t) PROVE OpenInv'
<1>0. /\ t \in page.tasks /\ t.step = "target" /\ PageOK(page) /\ ~Recorded(t)
      /\ UNCHANGED <<sdk, durable, phone, web, world, disturbed>>
      /\ marked' \subseteq tapped /\ events' \in 0 .. MaxEvents
  BY DEF FetchTarget, OpenInv, PageOK, DataTyped
<1> PICK d : d = page
  OBVIOUS
<1>1. CASE ~Current(t)
  BY <1>0, <1>1, FinishOK, PageGoes DEF FetchTarget
<1>2. CASE Current(t)
  <2>1. PICK s \in {"complete", "navigate"} : page' = Go(d, t, s)
    BY <1>2 DEF FetchTarget, Present
  <2>2. LET e == Go(d, t, s) IN PageOK(e) /\ Same(d, e) /\ Names(e) \subseteq Names(d)
    <3>1. s \in Stages
      BY DEF Stages
    <3> QED
      BY <1>0, <3>1, GoIs
  <2> QED
    BY <1>0, <2>1, <2>2, PageGoes
<1> QED
  BY <1>1, <1>2

LEMMA NavigatedKeeps == ASSUME OpenInv, NEW t, Navigated(t) PROVE OpenInv'
<1>0. /\ t \in page.tasks /\ PageOK(page)
      /\ UNCHANGED <<sdk, durable, phone, web, world, disturbed>>
      /\ marked' \subseteq tapped /\ events' \in 0 .. MaxEvents
  BY DEF Navigated, OpenInv, PageOK, DataTyped
<1> PICK d : d = page
  OBVIOUS
<1>1. CASE ~Current(t)
  BY <1>0, <1>1, FinishOK, PageGoes DEF Navigated
<1>2. CASE Current(t)
  <2> PICK e : e = Go(d, t, "complete")
    OBVIOUS
  <2>1. PICK f : f = page' /\ f = [e EXCEPT !.presented = @ \cup {Key(t)}]
    BY <1>2 DEF Navigated
  <2>2. PageOK(e) /\ Same(d, e) /\ Names(e) \subseteq Names(d) /\ PageTyped(e)
    BY <1>0, GoIs DEF Stages, PageOK
  <2>3. PageTyped(f) /\ Same(e, f) /\ f.pending = e.pending /\ f.tasks = e.tasks
    BY <2>1, <2>2 DEF PageTyped, Same
  <2>4. PageOK(f) /\ Names(f) \subseteq Names(e)
    BY <2>2, <2>3, LessOK
  <2>5. Same(d, f) /\ Names(f) \subseteq Names(d)
    BY <2>2, <2>3, <2>4 DEF Same
  <2> QED
    BY <1>0, <2>1, <2>4, <2>5, PageGoes
<1> QED
  BY <1>1, <1>2

LEMMA TaskFailsKeeps == ASSUME OpenInv, NEW t, TaskFails(t) PROVE OpenInv'
<1>0. /\ t \in page.tasks /\ PageOK(page) /\ page' = Finish(page, t)
      /\ UNCHANGED <<sdk, durable, phone, web, world, disturbed>>
      /\ marked' \subseteq tapped /\ events' \in 0 .. MaxEvents
  BY OpenAssumption DEF TaskFails, OpenInv, DataTyped, Count
<1> QED
  BY <1>0, FinishOK, PageGoes

LEMMA TimerKeeps == ASSUME OpenInv, Timer PROVE OpenInv'
<1>0. /\ PageOK(page) /\ DataTyped /\ page' = Resume(page)
      /\ UNCHANGED <<sdk, durable, phone, web, world, disturbed>>
      /\ marked' \subseteq tapped /\ events' \in 0 .. MaxEvents
  BY DEF Timer, OpenInv, DataTyped
<1> QED
  BY <1>0, ResumeOK, PageGoes

LEMMA ReadRecordKeeps == ASSUME OpenInv, NEW t, ReadRecord(t) PROVE OpenInv'
<1>0. /\ t \in page.tasks /\ PageOK(page) /\ DataTyped
      /\ UNCHANGED <<sdk, durable, web, world, events, marked, disturbed>>
      /\ marked' \subseteq tapped /\ events' \in 0 .. MaxEvents
  BY DEF ReadRecord, OpenInv, PageOK, DataTyped
<1> PICK d : d = page
  OBVIOUS
<1>1. CASE Current(t) /\ Completed(t)
  <2> PICK e : e = Finish(Ack(d, t), t)
    OBVIOUS
  <2>1. page' = e /\ phone' = AcceptAck(phone, t.open, t)
    BY <1>1 DEF ReadRecord
  <2>2. PageOK(e) /\ Same(d, e) /\ Names(e) \subseteq Names(d)
    BY <1>0, FinishOK
  <2>3. PageOK(e)'
    BY <1>0, <2>2, PagePersists DEF web, world
  <2>4. t.open \in Names(page)
    BY <1>0, TaskIs
  <2>5. Excuse(t.open)'
    BY <1>0, <1>1 DEF Completed, Recorded, Excuse, web
  <2>6. DataTyped' /\ RecordInv'
    BY <1>0 DEF OpenInv, DataTyped, RecordInv, durable, web, world
  <2>7. \E o \in Names(page) : \E c : phone' = AcceptAck(phone, o, c) /\ Excuse(o)'
    BY <2>1, <2>4, <2>5
  <2> QED
    BY <1>0, <2>1, <2>2, <2>3, <2>6, <2>7, PageStep DEF durable, web, world
<1>2. CASE ~Current(t)
  <2>1. page' = Finish(d, t) /\ UNCHANGED phone
    BY <1>2 DEF ReadRecord
  <2> QED
    BY <1>0, <2>1, FinishOK, PageGoes
<1>3. CASE Current(t) /\ ~Completed(t)
  <2>1. page' = Go(d, t, "fetch") /\ UNCHANGED phone
    BY <1>3 DEF ReadRecord
  <2>2. LET e == Go(d, t, "fetch") IN PageOK(e) /\ Same(d, e) /\ Names(e) \subseteq Names(d)
    BY <1>0, <1>3, GoIs DEF Stages, Completed
  <2> QED
    BY <1>0, <2>1, <2>2, PageGoes
<1> QED
  BY <1>1, <1>2, <1>3


LEMMA CompleteKeeps == ASSUME OpenInv, NEW t, Complete(t) PROVE OpenInv'
<1>0. /\ t \in page.tasks /\ PageOK(page) /\ DataTyped /\ Written(t)
      /\ UNCHANGED <<sdk, durable, world, events, marked, disturbed>>
  BY DEF Complete, OpenInv
<1> PICK R : R = reads'
  OBVIOUS
<1> PICK f : f = Finish(IF Current(t) THEN Ack(page, t) ELSE page, t)
  OBVIOUS
<1> PICK e : e = FlushReads(f, R)
  OBVIOUS
<1>1. /\ PageOK(f) /\ Same(page, f) /\ Names(f) \subseteq Names(page)
      /\ \A s \in f.tasks : s.open # t.open
  BY <1>0, FinishOK
<1>2. /\ t.open \in tapped /\ t.open \in Names(page) /\ t.user \in Accounts /\ t.open \in Opens
      /\ t.found \in BOOLEAN /\ (t.open \in old \/ t.user = of[t.open])
  BY <1>0, TaskIs DEF PageOK
<1>3. R \in SUBSET (Accounts \X tapped)
  BY <1>0, <1>2 DEF Written, Key, DataTyped
<1>4. PageOK(e) /\ Same(f, e) /\ e.pending = f.pending /\ e.tasks = f.tasks
  BY <1>1, <1>3, FlushReadsOK
<1>5. Same(page, e) /\ Names(e) \subseteq Names(page)
  BY <1>1, <1>4 DEF Same, Names
<1> PICK new : new = [user |-> t.user, open |-> t.open, found |-> t.found]
  OBVIOUS
<1>6. records' = records \cup {new} /\ new.open = t.open /\ new.user = t.user
      /\ new \in [user : Accounts, open : Opens, found : BOOLEAN]
  BY <1>0, <1>2 DEF Written
<1>7. PageOK(e)'
  <2>1. \A r \in records' : r \in records \/ \A s \in e.tasks : s.open # r.open
    BY <1>1, <1>4, <1>6
  <2> QED
    BY <1>0, <1>4, <2>1, PagePersists DEF world
<1>8. DataTyped'
  BY <1>0, <1>3, <1>6 DEF DataTyped, durable, world
<1>9. RecordInv'
  BY <1>0, <1>2, <1>6 DEF OpenInv, RecordInv, world
<1>10. Excuse(t.open)'
  BY <1>6 DEF Excuse
<1>11. page' = e
  BY DEF Complete
<1>12. phone' = phone \/ \E o \in Names(page) : \E c : phone' = AcceptAck(phone, o, c) /\ Excuse(o)'
  BY <1>2, <1>10 DEF Complete
<1> QED
  BY <1>0, <1>5, <1>6, <1>7, <1>8, <1>9, <1>11, <1>12, PageStep DEF durable, world

(* The rounds over the read intents: of the document, only the round moves.*)
LEMMA RoundOK ==
  ASSUME NEW d, PageOK(d), NEW r \in Round \cup {None}
  PROVE  LET e == [d EXCEPT !.reading = r] IN PageOK(e) /\ Same(d, e) /\ Names(e) \subseteq Names(d)
<1> PICK e : e = [d EXCEPT !.reading = r]
  OBVIOUS
<1>1. PageTyped(e) /\ Same(d, e) /\ e.pending = d.pending /\ e.tasks = d.tasks
  BY DEF PageOK, PageTyped, Same
<1> QED
  BY <1>1, LessOK

LEMMA OnwardOK ==
  ASSUME PageOK(page), page.reading # None
  PROVE  /\ PageOK(Onward) /\ Same(page, Onward) /\ Names(Onward) \subseteq Names(page)
         /\ PageOK(Idle) /\ Same(page, Idle) /\ Names(Idle) \subseteq Names(page)
         /\ page.reading \in Round
<1> PICK c : c = page.reading
  OBVIOUS
<1>1. c \in Round
  BY DEF PageOK, PageTyped
<1>2. c.epoch \in Nat /\ c.user \in Accounts \cup {None} /\ c.left \in SUBSET (Accounts \X tapped)
  BY <1>1 DEF Round
<1>3. LET e == NextRead(page, c, c.left) IN
        PageOK(e) /\ Same(page, e) /\ e.pending = page.pending /\ e.tasks = page.tasks
  BY <1>2, NextReadOK
<1>4. PageOK(Idle) /\ Same(page, Idle) /\ Names(Idle) \subseteq Names(page)
  BY RoundOK DEF Idle
<1> QED
  BY <1>1, <1>3, <1>4 DEF Onward, Names

LEMMA PutReadKeeps == ASSUME OpenInv, PutRead PROVE OpenInv'
<1>0. /\ PageOK(page) /\ page.reading # None /\ DataTyped
      /\ UNCHANGED <<sdk, durable, phone, web, world, events, disturbed>>
  BY DEF OpenInv, PutRead, Reading
<1> PICK c : c = page.reading
  OBVIOUS
<1>1. c \in Round
  BY <1>0, OnwardOK
<1>2. c.at[2] \in tapped
  BY <1>1 DEF Round
<1>3. marked' \subseteq tapped /\ events' \in 0 .. MaxEvents
  BY <1>0, <1>2 DEF PutRead, DataTyped
<1>4. CASE page' = Idle
  BY <1>0, <1>3, <1>4, OnwardOK, PageGoes
<1>5. CASE page' # Idle
  <2> PICK r : r = [c EXCEPT !.step = "done"]
    OBVIOUS
  <2>1. r \in Round
    BY <1>1 DEF Round
  <2>2. page' = [page EXCEPT !.reading = r]
    BY <1>5 DEF PutRead
  <2> QED
    BY <1>0, <1>3, <2>1, <2>2, RoundOK, PageGoes
<1> QED
  BY <1>4, <1>5

LEMMA PutReadFailsKeeps == ASSUME OpenInv, PutReadFails PROVE OpenInv'
<1>0. /\ PageOK(page) /\ page.reading # None /\ page' = Onward
      /\ UNCHANGED <<sdk, durable, phone, web, world, disturbed>>
      /\ marked' \subseteq tapped /\ events' \in 0 .. MaxEvents
  BY OpenAssumption DEF PutReadFails, Reading, OpenInv, DataTyped, Count
<1> QED
  BY <1>0, OnwardOK, PageGoes

LEMMA RemoveReadKeeps == ASSUME OpenInv, RemoveRead PROVE OpenInv'
<1>0. /\ PageOK(page) /\ page.reading # None /\ DataTyped /\ RecordInv
      /\ reads' \subseteq reads
      /\ UNCHANGED <<sdk, durable, phone, records, world, events, marked, disturbed>>
  BY DEF OpenInv, RemoveRead, Reading
<1> PICK e : e = page'
  OBVIOUS
<1>1. PageOK(e) /\ Same(page, e) /\ Names(e) \subseteq Names(page)
  BY <1>0, OnwardOK DEF RemoveRead
<1>2. PageOK(e)'
  BY <1>0, <1>1, PagePersists DEF world
<1>3. DataTyped' /\ RecordInv'
  BY <1>0 DEF DataTyped, RecordInv, durable, world
<1> QED
  BY <1>0, <1>1, <1>2, <1>3, PageStep DEF durable, world

(***************************************************************************)
(* The acts of the person, and the documents.                              *)
(***************************************************************************)
LEMMA FlushIs ==
  /\ [kind |-> "flush"] \in StoreOp /\ Mentions([kind |-> "flush"]) = {}
  /\ [kind |-> "flush"].kind = "flush"
BY DEF StoreOp, FlushOp, Mentions

LEMMA UserOpIs ==
  ASSUME NEW u \in Accounts, NEW kind \in {"activated", "withdrawal"},
         NEW op, op = [kind |-> kind, user |-> u]
  PROVE  op \in StoreOp /\ op.kind = kind /\ op.user = u
BY DEF StoreOp, UserOp

LEMMA PhoneTail ==
  ASSUME PhoneTyped, phone.queue # <<>>
  PROVE  /\ DOMAIN Rest = {"connected", "generation", "auth", "delivered", "queue"}
         /\ Rest.connected = phone.connected /\ Rest.generation = phone.generation
         /\ Rest.auth = phone.auth /\ Rest.delivered = phone.delivered
         /\ Rest.queue = Tail(phone.queue)
         /\ phone' = Rest => PhoneTyped' /\ Shift(1, {})
         /\ \A op \in StoreOp : phone' = Enqueue(Rest, op) =>
              /\ PhoneTyped' /\ Shift(1, {op})
              /\ phone'.connected = phone.connected /\ phone'.generation = phone.generation
              /\ phone'.auth = phone.auth
<1> PICK R : R = Rest
  OBVIOUS
<1>1. R = [phone EXCEPT !.queue = Tail(phone.queue)]
  BY DEF Rest
<1>2. /\ DOMAIN R = {"connected", "generation", "auth", "delivered", "queue"}
      /\ R.connected = phone.connected /\ R.generation = phone.generation
      /\ R.auth = phone.auth /\ R.delivered = phone.delivered
      /\ R.queue = Tail(phone.queue)
  BY <1>1 DEF PhoneTyped
<1>3. ASSUME phone' = R
      PROVE  PhoneTyped' /\ Shift(1, {})
  <2>1. phone'.queue \in Seq(StoreOp) /\ Shift(1, {})
    BY <1>2, <1>3, Shifts
  <2> QED
    BY <1>2, <1>3, <2>1 DEF PhoneTyped
<1>4. ASSUME NEW op \in StoreOp, phone' = Enqueue(R, op)
      PROVE  /\ PhoneTyped' /\ Shift(1, {op})
             /\ phone'.connected = phone.connected /\ phone'.generation = phone.generation
             /\ phone'.auth = phone.auth
  <2>1. phone' = [R EXCEPT !.queue = Append(R.queue, op)]
    BY <1>4 DEF Enqueue
  <2>2. /\ phone'.queue = Append(Tail(phone.queue), op)
        /\ phone'.connected = phone.connected /\ phone'.auth = phone.auth
        /\ phone'.generation = phone.generation
        /\ DOMAIN phone' = {"connected", "generation", "auth", "delivered", "queue"}
    BY <1>2, <2>1
  <2>3. phone'.queue \in Seq(StoreOp) /\ Shift(1, {op})
    BY <2>2, Shifts
  <2> QED
    BY <2>2, <2>3 DEF PhoneTyped
<1> QED
  BY <1>2, <1>3, <1>4

(* What the coordinator makes of the state that a document tells.          *)
Told(d, N) ==
  /\ PhoneTyped' /\ Shift(0, N)
  /\ phone'.connected = phone.connected /\ phone'.generation = phone.generation
  /\ phone'.connected => phone'.auth = [user |-> d.user, epoch |-> d.epoch]
  /\ ~phone'.connected => phone'.auth = None

LEMMA AuthIsTold ==
  ASSUME PhoneTyped, NEW d, d.user \in Accounts \cup {None}, d.epoch \in Nat,
         ~phone.connected => phone.auth = None, phone' = AcceptAuthState(phone, d)
  PROVE  \E N : Told(d, N) /\ \A op \in N : op.kind = "flush"
<1>1. CASE ~phone.connected
  <2>1. phone' = phone
    BY <1>1 DEF AcceptAuthState
  <2>2. PhoneTyped' /\ Shift(0, {})
    BY <2>1, Shifts DEF PhoneTyped
  <2> WITNESS {}
  <2> QED
    BY <1>1, <2>1, <2>2 DEF Told
<1>2. CASE phone.connected
  <2> PICK fl : fl = [kind |-> "flush"]
    OBVIOUS
  <2> PICK a : a = [user |-> d.user, epoch |-> d.epoch]
    OBVIOUS
  <2>1. phone' = [[phone EXCEPT !.auth = a] EXCEPT !.queue = Append(@, fl)]
    BY <1>2 DEF AcceptAuthState, Enqueue
  <2>2. /\ phone'.queue = Append(phone.queue, fl)
        /\ phone'.connected = phone.connected /\ phone'.auth = a
        /\ phone'.generation = phone.generation
        /\ DOMAIN phone' = {"connected", "generation", "auth", "delivered", "queue"}
    BY <2>1 DEF PhoneTyped
  <2>3. a \in Session
    BY DEF Session
  <2>4. phone'.queue \in Seq(StoreOp) /\ Shift(0, {fl})
    BY <2>2, Shifts, FlushIs
  <2>5. PhoneTyped'
    BY <2>2, <2>3, <2>4 DEF PhoneTyped
  <2> WITNESS {fl}
  <2> QED
    BY <1>2, <2>2, <2>4, <2>5, FlushIs DEF Told
<1> QED
  BY <1>1, <1>2

(* A document enters its next session.                                     *)
Enters(d) ==
  /\ PageTyped(d) /\ d.epoch = page.epoch + 1
  /\ d.pending = page.pending /\ d.tasks = page.tasks
  /\ (d.phase = "authenticated") = (d.user # None)

LEMMA EnterPage ==
  ASSUME PageOK(page), DataTyped, NEW d, Enters(d)
  PROVE  PageOK(Resume(d)) /\ Same(d, Resume(d)) /\ Names(Resume(d)) \subseteq Names(page)
<1>1. page.epoch \in Nat /\ \A m \in page.pending : m.epoch \in Nat
  BY DEF PageOK, PageTyped, Message
<1>2. \A m \in d.pending : m.epoch <= d.epoch /\ m.epoch # d.epoch
  BY <1>1 DEF PageOK, Enters
<1>3. Names(d) = Names(page)
  BY DEF Names, Enters
<1>4. PageOK(d)
  BY <1>2, <1>3 DEF PageOK, Enters
<1> QED
  BY <1>3, <1>4, ResumeOK

LEMMA EnterKeeps ==
  ASSUME OpenInv, DataTyped', NEW d, Enters(d), page' = Resume(d),
         UNCHANGED <<of, sdk, pending, owners, records, reads, old, tapped, disturbed>>,
         gone \subseteq gone', cookie' \notin gone', d.clearing \subseteq gone',
         d.phase = "authenticated" => d.user = cookie',
         cookie' \in {None, cookie} \/ \A i \in Q : ~Asks(i),
         NEW N, Told(d, N),
         \A op \in N : op.kind = "flush" \/ (op.kind = "withdrawal" /\ cookie' = None /\ op.user \in gone')
  PROVE  OpenInv'
<1> PICK e : e = Resume(d)
  OBVIOUS
<1>0. PageOK(page) /\ DataTyped /\ RecordInv /\ SessionInv /\ PhoneTyped
  BY DEF OpenInv, QueueInv
<1>1. PageOK(e) /\ Same(d, e) /\ Names(e) \subseteq Names(page)
  BY <1>0, EnterPage
<1>2. PageOK(e)'
  BY <1>1, PagePersists
<1>3. RecordInv'
  BY <1>0 DEF RecordInv
<1>4. d.epoch > 0
  BY <1>0 DEF Enters, PageOK, PageTyped
<1>5. SessionInv'
  BY <1>1, <1>4 DEF SessionInv, Same, Told
<1>6. \A op \in N : Outer(op) /\ op.kind # "activated"
  BY DEF Outer
<1>7. \A o \in Opens : Excuse(o) => Excuse(o)'
  BY DEF Excuse
<1>8. \A i \in Q : i <= 0 /\ Captures(i) => disturbed'
  BY <1>0, Shifts
<1>9. phone.generation \in Nat
  BY <1>0 DEF PhoneTyped
<1> QED
  BY <1>1, <1>2, <1>3, <1>5, <1>6, <1>7, <1>8, <1>9, OuterStep DEF Told

LEMMA BootKeeps == ASSUME OpenInv, Boot PROVE OpenInv'
<1>0. /\ PageOK(page) /\ DataTyped /\ SessionInv /\ PhoneTyped
      /\ UNCHANGED <<sdk, durable, web, world, events, marked, disturbed>>
  BY DEF OpenInv, Boot, QueueInv
<1> PICK d : d = IF cookie = None
                  THEN [page EXCEPT !.phase = "anonymous", !.epoch = @ + 1]
                  ELSE [page EXCEPT !.phase = "authenticated", !.epoch = @ + 1,
                                    !.user = cookie]
  OBVIOUS
<1>1. Enters(d) /\ d.clearing = page.clearing /\ (d.phase = "authenticated" => d.user = cookie)
  <2>1. CASE cookie = None
    BY <1>0, <2>1 DEF Enters, PageOK, PageTyped, Boot
  <2>2. CASE cookie # None
    BY <1>0, <2>2 DEF Enters, PageOK, PageTyped, DataTyped
  <2> QED
    BY <2>1, <2>2
<1>2. page' = Resume(d) /\ phone' = AcceptAuthState(phone, d)
  BY DEF Boot, Enter
<1>3. d.user \in Accounts \cup {None} /\ d.epoch \in Nat
  BY <1>1 DEF Enters, PageTyped
<1>4. PICK N : Told(d, N) /\ \A op \in N : op.kind = "flush"
  BY <1>0, <1>2, <1>3, AuthIsTold DEF SessionInv
<1>5. DataTyped'
  BY <1>0 DEF DataTyped, durable, web, world
<1>6. cookie' \notin gone' /\ d.clearing \subseteq gone' /\ (d.phase = "authenticated" => d.user = cookie')
  BY <1>0, <1>1 DEF SessionInv, world
<1> QED
  BY <1>0, <1>1, <1>2, <1>4, <1>5, <1>6, EnterKeeps DEF durable, web, world

LEMMA LogInKeeps == ASSUME OpenInv, NEW u \in Accounts, LogIn(u) PROVE OpenInv'
<1>0. /\ PageOK(page) /\ DataTyped /\ SessionInv /\ PhoneTyped
      /\ UNCHANGED <<of, sdk, durable, web, old, deleted, gone, tapped, marked, disturbed>>
      /\ cookie' = u /\ u \notin gone /\ events' \in 0 .. MaxEvents
      /\ \A i \in Q : ~Asks(i)
  BY OpenAssumption DEF OpenInv, LogIn, QueueInv, Q, Asks, DataTyped, Count
<1> PICK d : d = [page EXCEPT !.phase = "authenticated", !.epoch = @ + 1, !.user = u]
  OBVIOUS
<1>1. Enters(d) /\ d.clearing = page.clearing /\ d.user = u
  BY <1>0, OpenAssumption DEF Enters, PageOK, PageTyped
<1>2. page' = Resume(d) /\ phone' = AcceptAuthState(phone, d)
  BY DEF LogIn, Enter
<1>3. d.user \in Accounts \cup {None} /\ d.epoch \in Nat
  BY <1>1 DEF Enters, PageTyped
<1>4. PICK N : Told(d, N) /\ \A op \in N : op.kind = "flush"
  BY <1>0, <1>2, <1>3, AuthIsTold DEF SessionInv
<1>5. DataTyped'
  BY <1>0 DEF DataTyped, durable, web
<1>6. cookie' \notin gone' /\ d.clearing \subseteq gone' /\ d.user = cookie'
  BY <1>0, <1>1 DEF SessionInv
<1> QED
  BY <1>0, <1>1, <1>2, <1>4, <1>5, <1>6, EnterKeeps DEF durable, web

LEMMA LogOutKeeps == ASSUME OpenInv, LogOut PROVE OpenInv'
<1>0. /\ PageOK(page) /\ DataTyped /\ SessionInv /\ PhoneTyped
      /\ UNCHANGED <<of, sdk, durable, web, old, deleted, gone, tapped, marked, disturbed>>
      /\ cookie' = None /\ events' \in 0 .. MaxEvents
  BY OpenAssumption DEF OpenInv, LogOut, QueueInv, DataTyped, Count
<1> PICK d : d = [page EXCEPT !.phase = "leaving", !.epoch = @ + 1, !.user = None]
  OBVIOUS
<1>1. Enters(d) /\ d.clearing = page.clearing /\ d.phase # "authenticated"
  BY <1>0 DEF Enters, PageOK, PageTyped
<1>2. page' = Resume(d) /\ phone' = AcceptAuthState(phone, d)
  BY DEF LogOut, Enter
<1>3. d.user \in Accounts \cup {None} /\ d.epoch \in Nat
  BY <1>1 DEF Enters, PageTyped
<1>4. PICK N : Told(d, N) /\ \A op \in N : op.kind = "flush"
  BY <1>0, <1>2, <1>3, AuthIsTold DEF SessionInv
<1>5. DataTyped'
  BY <1>0 DEF DataTyped, durable, web
<1>6. cookie' \notin gone' /\ d.clearing \subseteq gone'
  BY <1>0, <1>1, OpenAssumption DEF SessionInv, DataTyped
<1> QED
  BY <1>0, <1>1, <1>2, <1>4, <1>5, <1>6, EnterKeeps DEF durable, web

LEMMA WithdrawKeeps == ASSUME OpenInv, Withdraw PROVE OpenInv'
<1> PICK u : u = page.user
  OBVIOUS
<1>0. /\ PageOK(page) /\ DataTyped /\ SessionInv /\ PhoneTyped
      /\ UNCHANGED <<of, sdk, durable, web, old, deleted, tapped, marked, disturbed>>
      /\ cookie' = None /\ gone' = gone \cup {u} /\ events' \in 0 .. MaxEvents
      /\ page.phase = "authenticated"
  BY OpenAssumption DEF OpenInv, Withdraw, QueueInv, DataTyped, Count
<1>1. u \in Accounts
  BY <1>0 DEF PageOK, PageTyped
<1> PICK d : d = [page EXCEPT !.phase = "anonymous", !.epoch = @ + 1, !.user = None,
                           !.clearing = {u}]
  OBVIOUS
<1>2. Enters(d) /\ d.clearing = {u} /\ d.phase # "authenticated" /\ d.user = None /\ d.epoch \in Nat
  BY <1>0, <1>1 DEF Enters, PageOK, PageTyped
<1> PICK w : w = [kind |-> "withdrawal", user |-> u]
  OBVIOUS
<1> PICK fl : fl = [kind |-> "flush"]
  OBVIOUS
<1> PICK a : a = [user |-> None, epoch |-> d.epoch]
  OBVIOUS
<1>3. w \in StoreOp /\ w.kind = "withdrawal" /\ w.user = u
  BY <1>1, UserOpIs
<1>4. page' = Resume(d)
  BY DEF Withdraw, Enter
<1>5. \E N : Told(d, N) /\ \A op \in N : op.kind = "flush" \/ op = w
  <2>1. CASE ~phone.connected
    <3>1. phone' = phone
      BY <2>1 DEF Withdraw, Enter, AcceptAuthState
    <3>2. PhoneTyped' /\ Shift(0, {})
      BY <1>0, <3>1, Shifts DEF PhoneTyped
    <3> WITNESS {}
    <3> QED
      BY <1>0, <2>1, <3>1, <3>2 DEF SessionInv, Told
  <2>2. CASE phone.connected
    <3> PICK p : p = Enqueue(phone, w)
      OBVIOUS
    <3>1. p = [phone EXCEPT !.queue = Append(phone.queue, w)]
      BY DEF Enqueue
    <3>2. /\ p.connected /\ p.queue = Append(phone.queue, w) /\ p.generation = phone.generation
          /\ DOMAIN p = {"connected", "generation", "auth", "delivered", "queue"}
      BY <1>0, <2>2, <3>1 DEF PhoneTyped
    <3>3. phone' = [[p EXCEPT !.auth = a] EXCEPT !.queue = Append(@, fl)]
      BY <1>2, <2>2, <3>2 DEF Withdraw, Enter, AcceptAuthState, Enqueue
    <3>4. /\ phone'.queue = Append(Append(phone.queue, w), fl)
          /\ phone'.connected = phone.connected /\ phone'.auth = a
          /\ phone'.generation = phone.generation
          /\ DOMAIN phone' = {"connected", "generation", "auth", "delivered", "queue"}
      BY <2>2, <3>2, <3>3
    <3>5. a \in Session
      BY <1>2 DEF Session
    <3>6. phone'.queue \in Seq(StoreOp) /\ Shift(0, {w, fl})
      BY <1>0, <1>3, <3>4, Shifts, FlushIs
    <3>7. PhoneTyped'
      BY <1>0, <3>4, <3>5, <3>6 DEF PhoneTyped
    <3> WITNESS {w, fl}
    <3> QED
      BY <1>2, <2>2, <3>4, <3>6, <3>7, FlushIs DEF Told
  <2> QED
    BY <2>1, <2>2
<1>6. PICK N : Told(d, N) /\ \A op \in N : op.kind = "flush" \/ op = w
  BY <1>5
<1>7. DataTyped'
  BY <1>0, <1>1 DEF DataTyped, durable, web
<1>8. cookie' \notin gone' /\ d.clearing \subseteq gone' /\ gone \subseteq gone' /\ u \in gone'
  BY <1>0, <1>1, <1>2, OpenAssumption DEF SessionInv, DataTyped
<1>9. \A op \in N : op.kind = "flush" \/ (op.kind = "withdrawal" /\ cookie' = None /\ op.user \in gone')
  <2>1. w.kind = "withdrawal" /\ cookie' = None /\ w.user \in gone'
    BY <1>0, <1>3, <1>8
  <2>2. \A op \in N : op.kind = "flush" \/ op = w
    BY <1>6
  <2> QED
    BY <2>1, <2>2
<1>10. /\ UNCHANGED <<of, sdk, pending, owners, records, reads, old, tapped, disturbed>>
       /\ cookie' \in {None, cookie} \/ \A i \in Q : ~Asks(i)
       /\ d.phase = "authenticated" => d.user = cookie'
  BY <1>0, <1>2 DEF durable, web
<1> QED
  BY <1>2, <1>4, <1>6, <1>7, <1>8, <1>9, <1>10, EnterKeeps

(* A document that is replaced.                                            *)
LEMMA ReplacedWeb ==
  ASSUME OpenInv, UNCHANGED <<sdk, durable, world, marked, disturbed>>, events' \in 0 .. MaxEvents,
         UNCHANGED web \/ \E t \in page.tasks : t.step = "complete" /\ Written(t)
  PROVE  /\ DataTyped' /\ RecordInv' /\ (\A o \in Opens : Excuse(o) => Excuse(o)')
         /\ \A e : e = NewPage => PageOK(e)'
<1>0. DataTyped /\ RecordInv /\ PageOK(page)
  BY DEF OpenInv
<1>1. ASSUME UNCHANGED web
      PROVE  DataTyped' /\ RecordInv' /\ (\A o \in Opens : Excuse(o) => Excuse(o)')
  BY <1>0, <1>1 DEF DataTyped, RecordInv, Excuse, durable, world, web
<1>2. ASSUME NEW t \in page.tasks, Written(t)
      PROVE  DataTyped' /\ RecordInv' /\ (\A o \in Opens : Excuse(o) => Excuse(o)')
  <2> PICK new : new = [user |-> t.user, open |-> t.open, found |-> t.found]
    OBVIOUS
  <2>1. /\ t.open \in tapped /\ t.user \in Accounts /\ t.open \in Opens
        /\ t.found \in BOOLEAN /\ (t.open \in old \/ t.user = of[t.open])
    BY <1>0, TaskIs DEF PageOK
  <2>2. reads' \subseteq Accounts \X tapped
    BY <1>0, <1>2, <2>1 DEF Written, Key, DataTyped
  <2>3. records' = records \cup {new} /\ new.open = t.open /\ new.user = t.user
        /\ new \in [user : Accounts, open : Opens, found : BOOLEAN]
    BY <1>2, <2>1 DEF Written
  <2>4. DataTyped'
    BY <1>0, <2>2, <2>3 DEF DataTyped, durable, world
  <2>5. RecordInv'
    BY <1>0, <2>1, <2>3 DEF RecordInv, world
  <2>6. \A o \in Opens : Excuse(o) => Excuse(o)'
    BY <2>3 DEF Excuse, world
  <2> QED
    BY <2>4, <2>5, <2>6
<1>3. ASSUME NEW e, e = NewPage
      PROVE  PageOK(e)'
  <2>1. PageOK(e) /\ e.tasks = {}
    BY <1>3, NewPageOK DEF NewPage
  <2> QED
    BY <2>1, PagePersists DEF world
<1> QED
  BY <1>1, <1>2, <1>3

LEMMA ReplacedKeeps ==
  ASSUME OpenInv, Replaced(phone), UNCHANGED <<sdk, durable, world, marked, disturbed>>,
         events' \in 0 .. MaxEvents
  PROVE  OpenInv'
<1>0. PhoneTyped /\ DataTyped /\ SessionInv /\ PageOK(page)
  BY DEF OpenInv, QueueInv
<1> PICK e : e = NewPage
  OBVIOUS
<1>1. DataTyped' /\ RecordInv' /\ (\A o \in Opens : Excuse(o) => Excuse(o)') /\ PageOK(e)'
  BY ReplacedWeb DEF Replaced
<1>2. /\ page' = e /\ Names(e) = {} /\ e.phase = "bootstrapping" /\ e.user = None /\ e.clearing = {}
  BY NewPageOK DEF Replaced, NewPage
<1>3. /\ phone'.queue = phone.queue /\ phone'.connected = FALSE /\ phone'.auth = None
      /\ phone'.generation = phone.generation + 1 /\ phone.generation \in Nat
      /\ DOMAIN phone' = {"connected", "generation", "auth", "delivered", "queue"}
  BY <1>0 DEF Replaced, Disconnect, PhoneTyped
<1>4. phone'.queue \in Seq(StoreOp) /\ Shift(0, {})
  BY <1>0, <1>3, Shifts
<1>5. PhoneTyped'
  <2>1. phone'.connected \in BOOLEAN
    BY <1>3, Zenon
  <2>2. phone'.generation \in Nat /\ phone'.auth \in Session \cup {None}
    BY <1>3
  <2> QED
    BY <1>3, <1>4, <2>1, <2>2 DEF PhoneTyped
<1>6. SessionInv'
  BY <1>0, <1>2, <1>3 DEF SessionInv, world
<1>7. /\ UNCHANGED <<of, pending, tapped, sdk, old, gone, owners, cookie, disturbed>>
  BY DEF durable, world
<1> PICK N : N = {}
  OBVIOUS
<1> PICK d : d = 0
  OBVIOUS
<1>8. Shift(d, N) /\ d \in Nat /\ \A op \in N : Outer(op) /\ (op.kind = "activated" => N = {op})
  BY <1>4
<1>9. \A i \in Q : i <= d /\ Captures(i) => disturbed'
  BY <1>0, Shifts
<1>10. /\ cookie' \in {None, cookie} /\ phone.generation <= phone'.generation
       /\ ~phone'.connected => ~phone.connected \/ phone.generation < phone'.generation
       /\ \A u \in owners' \ owners : \E j \in Q : Is(j, "activated") /\ UserAt(j) = u
       /\ Names(e) \subseteq Names(page)
  BY <1>2, <1>3, <1>7
<1> QED
  BY <1>1, <1>2, <1>5, <1>6, <1>7, <1>8, <1>9, <1>10, OuterStep

LEMMA LeaveKeeps == ASSUME OpenInv, Leave PROVE OpenInv'
BY ReplacedKeeps DEF Leave, OpenInv, DataTyped

LEMMA ReloadKeeps == ASSUME OpenInv, Reload PROVE OpenInv'
BY ReplacedKeeps, OpenAssumption DEF Reload, OpenInv, DataTyped, Count

(* A step in which the document stays as it is.                            *)
LEMMA StaysKeeps ==
  ASSUME OpenInv, DataTyped', UNCHANGED <<of, sdk, pending, page, cookie, records, gone, tapped>>,
         old \subseteq old', disturbed => disturbed', owners \subseteq owners',
         \A u \in owners' \ owners : \E j \in Q : Is(j, "activated") /\ UserAt(j) = u,
         NEW d \in Nat, NEW N, Shift(d, N), PhoneTyped', SessionInv',
         phone.generation <= phone'.generation,
         ~phone'.connected => ~phone.connected \/ phone.generation < phone'.generation,
         \A i \in Q : i <= d /\ Captures(i) => disturbed',
         \A op \in N : Outer(op),
         \A op \in N : op.kind = "activated" => N = {op}
  PROVE  OpenInv'
<1> PICK e : e = page
  OBVIOUS
<1>0. PageOK(e) /\ RecordInv
  BY DEF OpenInv
<1>1. PageOK(e)' /\ page' = e /\ Names(e) \subseteq Names(page)
  BY <1>0, PagePersists
<1>2. RecordInv'
  BY <1>0 DEF RecordInv
<1>3. \A o \in Opens : Excuse(o) => Excuse(o)'
  BY DEF Excuse
<1> QED
  BY <1>1, <1>2, <1>3, OuterStep

LEMMA PhoneStays ==
  ASSUME PhoneTyped, UNCHANGED phone
  PROVE  PhoneTyped' /\ Shift(0, {}) /\ \A i \in Q : i > 0
BY Shifts DEF PhoneTyped

LEMMA AgeKeeps == ASSUME OpenInv, Age PROVE OpenInv'
<1>0. PhoneTyped /\ DataTyped /\ SessionInv
  BY DEF OpenInv, QueueInv
<1>1. /\ UNCHANGED <<of, sdk, pending, owners, phone, page, cookie, records, reads, gone, tapped,
                     marked, disturbed>>
      /\ old \subseteq old' /\ events' \in 0 .. MaxEvents
  BY <1>0, OpenAssumption DEF Age, durable, web, DataTyped, Count
<1>2. DataTyped' /\ SessionInv'
  BY <1>0, <1>1 DEF DataTyped, SessionInv
<1>3. PhoneTyped' /\ Shift(0, {}) /\ \A i \in Q : i > 0
  BY <1>0, <1>1, PhoneStays
<1>4. phone.generation \in Nat
  BY <1>0 DEF PhoneTyped
<1>5. \A i \in Q : i <= 0 /\ Captures(i) => disturbed'
  BY <1>0, Shifts
<1> QED
  BY <1>1, <1>2, <1>3, <1>4, <1>5, StaysKeeps

LEMMA DeleteKeeps == ASSUME OpenInv, NEW o, Delete(o) PROVE OpenInv'
<1>0. PhoneTyped /\ DataTyped /\ SessionInv
  BY DEF OpenInv, QueueInv
<1>1. /\ UNCHANGED <<of, sdk, pending, owners, phone, page, cookie, records, reads, old, gone,
                     tapped, marked, disturbed>>
      /\ events' \in 0 .. MaxEvents
  BY <1>0, OpenAssumption DEF Delete, durable, web, DataTyped, Count
<1>2. DataTyped' /\ SessionInv'
  BY <1>0, <1>1 DEF DataTyped, SessionInv
<1>3. PhoneTyped' /\ Shift(0, {})
  BY <1>0, <1>1, PhoneStays
<1>4. phone.generation \in Nat
  BY <1>0 DEF PhoneTyped
<1>5. \A i \in Q : i <= 0 /\ Captures(i) => disturbed'
  BY <1>0, Shifts
<1> QED
  BY <1>1, <1>2, <1>3, <1>4, <1>5, StaysKeeps

LEMMA StorageFailsKeeps == ASSUME OpenInv, StorageFails PROVE OpenInv'
<1>0. PhoneTyped /\ DataTyped /\ SessionInv /\ phone.queue # <<>>
  BY DEF OpenInv, QueueInv, StorageFails
<1>1. /\ UNCHANGED <<of, sdk, pending, owners, page, cookie, records, reads, old, gone,
                     tapped, marked>>
      /\ events' \in 0 .. MaxEvents /\ disturbed' = TRUE /\ phone' = Rest
  BY <1>0, OpenAssumption DEF StorageFails, durable, web, world, DataTyped, Count
<1>2. PhoneTyped' /\ Shift(1, {}) /\ phone'.connected = phone.connected
      /\ phone'.generation = phone.generation /\ phone'.auth = phone.auth
  BY <1>0, <1>1, PhoneTail
<1>3. DataTyped' /\ SessionInv'
  BY <1>0, <1>1, <1>2 DEF DataTyped, SessionInv
<1>4. phone.generation \in Nat
  BY <1>0 DEF PhoneTyped
<1> QED
  BY <1>1, <1>2, <1>3, <1>4, StaysKeeps

LEMMA ActivateKeeps == ASSUME OpenInv, NEW u \in Accounts, Activate(u) PROVE OpenInv'
<1>0. PhoneTyped /\ DataTyped /\ SessionInv
  BY DEF OpenInv, QueueInv
<1> PICK op : op = [kind |-> "activated", user |-> u]
  OBVIOUS
<1>1. /\ UNCHANGED <<of, sdk, pending, owners, page, cookie, records, reads, old, gone,
                     tapped, marked, events, disturbed>>
      /\ phone' = Enqueue(phone, op) /\ u \notin gone
  BY <1>0 DEF Activate, durable, web, world, SessionInv
<1>2. op \in StoreOp /\ op.kind = "activated" /\ op.user = u
  BY UserOpIs
<1>3. /\ PhoneTyped' /\ Shift(0, {op}) /\ phone'.connected = phone.connected
      /\ phone'.generation = phone.generation /\ phone'.auth = phone.auth
  BY <1>0, <1>1, <1>2, PhoneAppends
<1>4. DataTyped' /\ SessionInv'
  BY <1>0, <1>1, <1>3 DEF DataTyped, SessionInv
<1>5. phone.generation \in Nat
  BY <1>0 DEF PhoneTyped
<1>6. \A i \in Q : i <= 0 /\ Captures(i) => disturbed'
  BY <1>0, Shifts
<1>7. Outer(op)
  BY <1>1, <1>2 DEF Outer
<1> QED
  BY <1>1, <1>3, <1>4, <1>5, <1>6, <1>7, StaysKeeps

(* The operation at the head of the queue.                                 *)
LEMMA HeadIs ==
  ASSUME PhoneTyped, phone.queue # <<>>
  PROVE  /\ Operation = phone.queue[1] /\ 1 \in Q /\ Operation \in StoreOp
         /\ Q = 1 .. Len(phone.queue) /\ Len(phone.queue) \in Nat \ {0}
BY QueueTail DEF PhoneTyped, Operation, Q

LEMMA RecordOwnerKeeps == ASSUME OpenInv, RecordOwner PROVE OpenInv'
<1>0. /\ PhoneTyped /\ DataTyped /\ SessionInv /\ phone.queue # <<>>
      /\ Operation.kind = "activated"
  BY DEF OpenInv, QueueInv, RecordOwner, At, Operation
<1> PICK fl : fl = [kind |-> "flush"]
  OBVIOUS
<1> PICK u : u = Operation.user
  OBVIOUS
<1>1. u \in Accounts /\ Is(1, "activated") /\ UserAt(1) = u /\ 1 \in Q
  BY <1>0, HeadIs, OpFields DEF Is, UserAt
<1>2. /\ UNCHANGED <<of, sdk, pending, page, cookie, records, reads, old, gone,
                     tapped, marked, events, disturbed>>
      /\ phone' = Enqueue(Rest, fl) /\ owners' = owners \cup {u}
  BY <1>0 DEF RecordOwner, web, world
<1>3. /\ PhoneTyped' /\ Shift(1, {fl}) /\ phone'.connected = phone.connected
      /\ phone'.generation = phone.generation /\ phone'.auth = phone.auth
  BY <1>0, <1>2, FlushIs, PhoneTail
<1>4. DataTyped' /\ SessionInv'
  BY <1>0, <1>1, <1>2, <1>3 DEF DataTyped, SessionInv
<1>5. phone.generation \in Nat
  BY <1>0 DEF PhoneTyped
<1>6. \A i \in Q : i <= 1 /\ Captures(i) => disturbed'
  BY <1>0, <1>1, HeadIs DEF Captures, Is
<1>7. Outer(fl) /\ fl.kind # "activated"
  BY DEF Outer
<1> QED
  BY <1>1, <1>2, <1>3, <1>4, <1>5, <1>6, <1>7, StaysKeeps

LEMMA AckUndone ==
  ASSUME OpenInv, At("ackLoad"), phone' = Rest,
         UNCHANGED <<sdk, durable, page, web, world, events, marked, disturbed>>
  PROVE  OpenInv'
<1>0. /\ PhoneTyped /\ DataTyped /\ SessionInv /\ phone.queue # <<>>
      /\ Operation.kind = "ackLoad"
  BY DEF OpenInv, QueueInv, At, Operation
<1>1. PhoneTyped' /\ Shift(1, {}) /\ phone'.connected = phone.connected
      /\ phone'.generation = phone.generation /\ phone'.auth = phone.auth
  BY <1>0, PhoneTail
<1>2. DataTyped' /\ SessionInv'
  BY <1>0, <1>1 DEF DataTyped, SessionInv, durable, web, world
<1>3. phone.generation \in Nat
  BY <1>0 DEF PhoneTyped
<1>4. \A i \in Q : i <= 1 /\ Captures(i) => disturbed'
  BY <1>0, HeadIs DEF Captures
<1> QED
  BY <1>1, <1>2, <1>3, <1>4, StaysKeeps DEF durable, web, world

LEMMA ClearUserKeeps == ASSUME OpenInv, NEW u, ClearUser(u) PROVE OpenInv'
<1>0. /\ PhoneTyped /\ DataTyped /\ SessionInv /\ RecordInv /\ PageOK(page)
      /\ u \in page.clearing /\ u \in gone
  BY DEF OpenInv, QueueInv, ClearUser, SessionInv
<1> PICK e : e = [page EXCEPT !.clearing = {}]
  OBVIOUS
<1>1. /\ UNCHANGED <<of, sdk, pending, owners, phone, cookie, old, gone, tapped, marked, events,
                     disturbed>>
      /\ page' = e /\ records' = {r \in records : r.user # u} /\ reads' \subseteq reads
  BY DEF ClearUser, durable, world
<1>2. DataTyped' /\ RecordInv'
  BY <1>0, <1>1 DEF DataTyped, RecordInv
<1>3. /\ PageTyped(e) /\ e.phase = page.phase /\ e.epoch = page.epoch /\ e.user = page.user
      /\ e.pending = page.pending /\ e.tasks = page.tasks /\ e.clearing = {}
  BY <1>0 DEF PageOK, PageTyped
<1>4. PageOK(e) /\ Names(e) = Names(page)
  BY <1>0, <1>3 DEF PageOK, Names
<1>5. PageOK(e)'
  BY <1>1, <1>4, PagePersists
<1>6. SessionInv'
  BY <1>0, <1>1, <1>3 DEF SessionInv
<1>7. \A o \in Opens : Excuse(o) => Excuse(o)'
  <2> SUFFICES ASSUME NEW r \in records, r.user = u
               PROVE  r.open \in old \/ of[r.open] \in gone
    BY <1>1 DEF Excuse
  <2> QED
    BY <1>0 DEF RecordInv
<1>8. PhoneTyped' /\ Shift(0, {})
  BY <1>0, <1>1, PhoneStays
<1>9. phone.generation \in Nat
  BY <1>0 DEF PhoneTyped
<1>10. \A i \in Q : i <= 0 /\ Captures(i) => disturbed'
  BY <1>0, Shifts
<1> QED
  BY <1>1, <1>2, <1>4, <1>5, <1>6, <1>7, <1>8, <1>9, <1>10, OuterStep

LEMMA ConnectKeeps == ASSUME OpenInv, Connect PROVE OpenInv'
<1>0. PhoneTyped /\ DataTyped /\ SessionInv /\ PageOK(page) /\ ~phone.connected
  BY DEF OpenInv, QueueInv, Connect
<1> PICK fl : fl = [kind |-> "flush"]
  OBVIOUS
<1> PICK a : a = [user |-> page.user, epoch |-> page.epoch]
  OBVIOUS
<1> PICK c : c = [Disconnect(phone) EXCEPT !.connected = TRUE]
  OBVIOUS
<1> PICK p : p = Enqueue(c, fl)
  OBVIOUS
<1>1. /\ c.connected = TRUE /\ c.generation = phone.generation + 1 /\ c.queue = phone.queue
      /\ DOMAIN c = {"connected", "generation", "auth", "delivered", "queue"}
  BY <1>0 DEF Disconnect, PhoneTyped
<1>2. /\ p.connected = TRUE /\ p.generation = phone.generation + 1 /\ p.queue = Append(phone.queue, fl)
      /\ DOMAIN p = {"connected", "generation", "auth", "delivered", "queue"}
  BY <1>1 DEF Enqueue
<1>3. phone' = [[p EXCEPT !.auth = a] EXCEPT !.queue = Append(@, fl)]
  BY <1>2 DEF Connect, AcceptAuthState, Enqueue
<1>4. /\ phone'.connected = TRUE /\ phone'.generation = phone.generation + 1
      /\ phone'.queue = Append(Append(phone.queue, fl), fl) /\ phone'.auth = a
      /\ DOMAIN phone' = {"connected", "generation", "auth", "delivered", "queue"}
  BY <1>2, <1>3
<1>5. a \in Session /\ phone.generation \in Nat
  BY <1>0 DEF PageOK, PageTyped, Session, PhoneTyped
<1>6. phone'.queue \in Seq(StoreOp) /\ Shift(0, {fl, fl})
  BY <1>0, <1>4, FlushIs, Shifts
<1>7. PhoneTyped'
  <2>1. phone'.connected \in BOOLEAN
    BY <1>4, Zenon
  <2>2. phone'.generation \in Nat /\ phone'.auth \in Session \cup {None}
    BY <1>4, <1>5
  <2> QED
    BY <1>4, <1>6, <2>1, <2>2 DEF PhoneTyped
<1>8. UNCHANGED <<of, sdk, pending, owners, page, cookie, records, reads, old, gone,
                  tapped, marked, events, disturbed>>
  BY DEF Connect, durable, web, world
<1>9. DataTyped' /\ SessionInv'
  BY <1>0, <1>4, <1>8 DEF DataTyped, SessionInv
<1>10. \A i \in Q : i <= 0 /\ Captures(i) => disturbed'
  BY <1>0, Shifts
<1>11. Outer(fl) /\ fl.kind # "activated"
  BY DEF Outer
<1>12. phone.generation <= phone'.generation /\ phone'.connected
  BY <1>4, <1>5
<1>13. PICK N : Shift(0, N) /\ \A op \in N : Outer(op) /\ op.kind # "activated"
  BY <1>6, <1>11
<1> QED
  BY <1>7, <1>8, <1>9, <1>10, <1>12, <1>13, StaysKeeps

(***************************************************************************)
(* Captures, and the app's next start.                                     *)
(***************************************************************************)
LEMMA CaptureMoves ==
  ASSUME OpenInv, UNCHANGED <<of, pending, owners, page, cookie, records, reads, old, gone>>,
         tapped \subseteq tapped', NEW d \in Nat, NEW op, op.kind \in {"capture", "append"},
         Shift(d, {op}), PhoneTyped', phone'.connected = phone.connected,
         phone'.generation = phone.generation, phone'.auth = phone.auth,
         op.kind = "append" => TrueOwner(op) /\ \A j \in Q : Acks(j) => OpenAt(j) # op.open
  PROVE  QueueInv' /\ SessionInv' /\ RecordInv' /\ PageOK(page)' /\ Names(page)' = Names(page)
<1>0. PhoneTyped /\ QueueInv /\ SessionInv /\ RecordInv /\ PageOK(page) /\ phone.generation \in Nat
  BY DEF OpenInv, QueueInv, PhoneTyped
<1> PICK N : N = {op}
  OBVIOUS
<1>1. Shift(d, N) /\ \A n \in N : n = op
  OBVIOUS
<1>2. \A n \in N : n.kind \notin {"resolve", "own", "remove", "activated", "withdrawal"}
  BY <1>1
<1>3. CookieStays(N)
  BY DEF CookieStays
<1>4. OrderInv'
  BY <1>0, <1>1, <1>2, OrderShift
<1>5. AskOrder'
  BY <1>0, <1>1, <1>2, <1>3, AskShift
<1>6. ItemsInv'
  <2>1. (\A x \in pending' : TrueOwner(x)) /\ Distinct(pending')
    BY <1>0 DEF QueueInv, ItemsInv
  <2>2. ~phone'.connected => ~phone.connected
    OBVIOUS
  <2> QED
    BY <1>0, <1>1, <1>2, <2>1, <2>2, ItemsShift
<1>7. RemovalInv'
  <2>1. \A n \in N : n.kind = "append" => N = {n} /\ \A j \in Q : Is(j, "remove") => OpenAt(j) # n.open
    BY <1>1 DEF Is, Acks
  <2>2. \A x \in pending' : \E y \in pending : y.open = x.open /\ y.owner = x.owner
    OBVIOUS
  <2>3. \A o : IsPending(o) => \E y \in pending' : y.open = o
    BY DEF IsPending
  <2> QED
    BY <1>0, <1>1, <1>2, <2>1, <2>2, <2>3, RemovalShift
<1>8. LostInv'
  <2>1. \A o : IsPending(o) => \E y \in pending' : y.open = o
    BY DEF IsPending
  <2> QED
    BY <1>0, <1>1, <1>2, <1>3, <2>1, LostShift
<1>9. AskedInv' /\ RemovedInv'
  BY <1>0, <1>1, <1>2, <1>3, AskedShift
<1>10. SessionInv' /\ RecordInv'
  BY <1>0 DEF SessionInv, RecordInv
<1> PICK e : e = page
  OBVIOUS
<1>11. PageOK(e)' /\ page' = e /\ Names(e)' = Names(e)
  BY <1>0, PagePersists
<1>12. PageOK(page)' /\ Names(page)' = Names(page)
  BY <1>11 DEF PageOK, PageTyped, Names
<1> QED
  BY <1>4, <1>5, <1>6, <1>7, <1>8, <1>9, <1>10, <1>12 DEF QueueInv

LEMMA TapKeeps == ASSUME OpenInv, NEW o \in Opens, Tap(o) PROVE OpenInv'
<1>0. /\ PhoneTyped /\ DataTyped /\ CaptureInv /\ DoneInv /\ PageOK(page)
      /\ o \notin tapped /\ tapped' = tapped \cup {o} /\ sdk' = o
      /\ UNCHANGED <<of, pending, owners, page, cookie, records, reads, old, deleted, gone, marked,
                     disturbed>>
      /\ events' \in 0 .. MaxEvents /\ \A i \in Q : ~Captures(i)
  BY OpenAssumption DEF OpenInv, QueueInv, Tap, durable, web, Captured, Captures, Q, DataTyped, Count
<1> PICK op : op = [kind |-> "capture", open |-> o]
  OBVIOUS
<1>1. op \in StoreOp /\ op.kind = "capture" /\ op.open = o /\ Mentions(op) = {o}
  BY DEF StoreOp, CaptureOp, Mentions
<1>2. phone' = Enqueue(phone, op)
  BY DEF Tap
<1>3. /\ PhoneTyped' /\ Shift(0, {op}) /\ phone'.connected = phone.connected
      /\ phone'.generation = phone.generation /\ phone'.auth = phone.auth
  BY <1>0, <1>1, <1>2, PhoneAppends
<1>4. QueueInv' /\ SessionInv' /\ RecordInv' /\ PageOK(page)' /\ Names(page)' = Names(page)
  BY <1>0, <1>1, <1>3, CaptureMoves
<1>5. DataTyped'
  BY <1>0 DEF DataTyped
<1>6. phone'.queue = Append(phone.queue, op)
  BY <1>0, <1>2 DEF Enqueue, PhoneTyped
<1>7. /\ Len(phone.queue) \in Nat /\ Len(phone'.queue) = Len(phone.queue) - 0 + 1
      /\ Len(phone.queue) + 1 \in Q' /\ phone'.queue[Len(phone.queue) + 1] = op
  BY <1>0, <1>1, <1>6, QueueAppend DEF PhoneTyped, Q
<1>8. \A x \in Opens : Excuse(x) => Excuse(x)'
  BY <1>0 DEF Excuse
<1>9. DoneInv'
  <2>1. \E k \in Q' : phone'.queue[k].kind \in {"capture", "append"} /\ phone'.queue[k].open = o
    BY <1>1, <1>7
  <2>2. \A x \in tapped' : x \notin tapped \/ IsPending(x) =>
           \/ \E y \in pending' : y.open = x
           \/ \E k \in Q' : phone'.queue[k].kind \in {"capture", "append"} /\ phone'.queue[k].open = x
    BY <1>0, <2>1 DEF IsPending
  <2>3. tapped' \subseteq Opens
    BY <1>5 DEF DataTyped
  <2> QED
    BY <1>0, <1>1, <1>3, <1>8, <2>2, <2>3, DoneShift
<1>10. CaptureInv'
  <2>1. \A i \in Q : ~Is(i, "capture") /\ Mentions(phone.queue[i]) \subseteq tapped
    BY <1>0 DEF Captures, Is, CaptureInv
  <2>2. o \notin Names(page)'
    BY <1>0, <1>4 DEF PageOK
  <2>3. \A x \in pending' : x.open # o
    BY <1>0 DEF DataTyped
  <2> QED
    BY <1>0, <1>1, <1>3, <1>7, <2>1, <2>2, <2>3, CaptureShift
<1> QED
  BY <1>4, <1>5, <1>9, <1>10 DEF OpenInv

LEMMA ResolveCaptureKeeps == ASSUME OpenInv, ResolveCapture PROVE OpenInv'
<1> PICK o : o = Operation.open
  OBVIOUS
<1> PICK op : op = [kind |-> "append", open |-> o, owner |-> OwnerOf(o)]
  OBVIOUS
<1>0. /\ PhoneTyped /\ DataTyped /\ CaptureInv /\ DoneInv /\ PageOK(page) /\ phone.queue # <<>>
      /\ Operation.kind = "capture" /\ phone' = Enqueue(Rest, op)
      /\ UNCHANGED <<of, sdk, pending, owners, page, cookie, records, reads, old, deleted, gone,
                     tapped, marked, events, disturbed>>
  BY DEF OpenInv, QueueInv, ResolveCapture, At, Operation, durable, web, world
<1>1. /\ 1 \in Q /\ Is(1, "capture") /\ OpenAt(1) = o /\ o \in Opens /\ Operation = phone.queue[1]
      /\ Q = 1 .. Len(phone.queue) /\ Len(phone.queue) \in Nat \ {0} /\ Captures(1)
  BY <1>0, HeadIs, OpFields DEF Is, OpenAt, Captures
<1>2. OwnerOf(o) \in {None, of[o]} /\ OwnerOf(o) \in Accounts \cup {None}
  BY <1>0, <1>1 DEF OwnerOf, DataTyped
<1>3. /\ op \in StoreOp /\ op.kind = "append" /\ op.open = o /\ op.owner = OwnerOf(o)
      /\ Mentions(op) = {o} /\ TrueOwner(op)
  BY <1>1, <1>2 DEF StoreOp, AppendOp, Mentions, TrueOwner
<1>4. /\ PhoneTyped' /\ Shift(1, {op}) /\ phone'.connected = phone.connected
      /\ phone'.generation = phone.generation /\ phone'.auth = phone.auth
  BY <1>0, <1>3, PhoneTail
<1>5. \A j \in Q : j # 1 => o \notin Mentions(phone.queue[j])
  BY <1>0, <1>1 DEF CaptureInv
<1>6. \A j \in Q : Acks(j) => OpenAt(j) # op.open
  BY <1>1, <1>3, <1>5 DEF Acks, Is, OpenAt, Mentions
<1>7. QueueInv' /\ SessionInv' /\ RecordInv' /\ PageOK(page)' /\ Names(page)' = Names(page)
  BY <1>0, <1>3, <1>4, <1>6, CaptureMoves
<1>8. DataTyped'
  BY <1>0 DEF DataTyped
<1>9. \A x \in Opens : Excuse(x) => Excuse(x)'
  BY <1>0 DEF Excuse
<1>10. \E k \in Q' : phone'.queue[k].kind \in {"capture", "append"} /\ phone'.queue[k].open = o
  <2>1. phone'.queue = Append(Tail(phone.queue), op)
    BY <1>0, PhoneTail DEF Enqueue
  <2>2. Tail(phone.queue) \in Seq(StoreOp)
    BY <1>0, QueueTail DEF PhoneTyped
  <2>3. \E k \in Q' : phone'.queue[k] = op
    BY <1>3, <2>1, <2>2, QueueAppend DEF Q
  <2> QED
    BY <1>3, <2>3
<1>11. DoneInv'
  <2>1. \A x \in tapped' : x \notin tapped \/ IsPending(x) => \E y \in pending' : y.open = x
    BY <1>0 DEF IsPending
  <2>2. sdk' = op.open \/ Excuse(op.open)' \/ disturbed'
    BY <1>0, <1>1, <1>3, <1>9 DEF DoneInv, MemoryInv
  <2>3. tapped' \subseteq Opens
    BY <1>8 DEF DataTyped
  <2>4. \A i \in Q : i <= 1 => i = 1
    BY <1>1
  <2> QED
    <3>1. \A i \in Q : i <= 1 /\ Captures(i) => \A x \in Opens : x = OpenAt(i) =>
            \E k \in Q' : phone'.queue[k].kind \in {"capture", "append"} /\ phone'.queue[k].open = x
      BY <1>1, <1>10, <2>4
    <3>2. \A n \in {op} : n.kind \in {"capture", "append"} => sdk' = n.open \/ Excuse(n.open)' \/ disturbed'
      BY <2>2 DEF Excuse
    <3>3. \A n \in {op} : n.kind \notin {"ackLoad", "remove"}
      BY <1>3
    <3>4. PICK N : N = {op}
      OBVIOUS
    <3>5. of' = of /\ sdk' = sdk /\ disturbed' = disturbed /\ tapped' = tapped
      BY <1>0
    <3> QED
      BY <1>0, <1>4, <1>9, <2>1, <2>3, <3>1, <3>2, <3>3, <3>4, <3>5, DoneShift
<1>12. CaptureInv'
  <2>1. \A i \in Q : Is(i, "capture") => OpenAt(i) \in Mentions(phone.queue[i])
    BY DEF Is, OpenAt, Mentions
  <2>2. \A i \in Q : i > 1 /\ Is(i, "capture") => \A x \in Opens : x = OpenAt(i) =>
           /\ x \notin Names(page)'
           /\ ~IsPending(x) => \A y \in pending' : y.open # x
    BY <1>0, <1>7 DEF CaptureInv, IsPending
  <2>3. \A i \in Q : i > 1 /\ Is(i, "capture") => OpenAt(i) # o
    BY <1>5, <2>1
  <2>4. o \in tapped
    BY <1>0, <1>1, <2>1 DEF CaptureInv
  <2> QED
    BY <1>0, <1>1, <1>3, <1>4, <2>2, <2>3, <2>4, CaptureShift
<1> QED
  BY <1>7, <1>8, <1>11, <1>12 DEF OpenInv

LEMMA RestartKeeps == ASSUME OpenInv, Restart PROVE OpenInv'
<1>0. /\ PhoneTyped /\ DataTyped /\ SessionInv /\ PageOK(page) /\ DoneInv
      /\ UNCHANGED <<sdk, durable, world, marked, disturbed>> /\ events' \in 0 .. MaxEvents
      /\ UNCHANGED web \/ \E t \in page.tasks : t.step = "complete" /\ Written(t)
  BY OpenAssumption DEF OpenInv, QueueInv, Restart, Replaced, DataTyped, Count
<1> PICK e : e = NewPage
  OBVIOUS
<1>1. DataTyped' /\ RecordInv' /\ (\A o \in Opens : Excuse(o) => Excuse(o)') /\ PageOK(e)'
  BY <1>0, ReplacedWeb
<1>2. /\ page' = e /\ Names(e) = {} /\ e.phase = "bootstrapping" /\ e.user = None /\ e.clearing = {}
  BY NewPageOK DEF Replaced, Restart, NewPage
<1> PICK cap : cap = [kind |-> "capture", open |-> sdk]
  OBVIOUS
<1>3. /\ phone'.queue = IF sdk = None THEN <<>> ELSE <<cap>>
      /\ phone'.connected = FALSE /\ phone'.auth = None /\ phone'.generation = 1
      /\ DOMAIN phone' = {"connected", "generation", "auth", "delivered", "queue"}
  BY DEF Restart, Replaced, Disconnect, NewPhone
<1>4. sdk # None => cap \in StoreOp /\ Mentions(cap) = {sdk}
  BY <1>0 DEF StoreOp, CaptureOp, DataTyped, Mentions
<1>5. phone'.queue \in Seq(StoreOp)
  <2>1. CASE sdk = None
    BY <1>0, <1>3, <2>1, Shifts
  <2>2. CASE sdk # None
    BY <1>0, <1>3, <1>4, <2>2, Shifts
  <2> QED
    BY <2>1, <2>2
<1>6. PhoneTyped'
  <2>1. phone'.connected \in BOOLEAN
    BY <1>3, Zenon
  <2>2. phone'.generation \in Nat
    BY <1>3
  <2> QED
    BY <1>3, <1>5, <2>1, <2>2 DEF PhoneTyped
<1>7. /\ \A i \in Q' : i = 1 /\ sdk # None /\ phone'.queue[i] = cap
      /\ sdk # None => 1 \in Q' /\ phone'.queue[1] = cap
  BY <1>3 DEF Q
<1>8. cap.kind = "capture" /\ cap.open = sdk
  OBVIOUS
<1>9. \A i \in Q' : phone'.queue[i].kind = "capture" /\ phone'.queue[i].open = sdk
  BY <1>7, <1>8
<1>10. \A i \in Q' : phone'.queue[i].kind \notin {"append", "resolve", "own", "remove", "ackLoad",
                                                   "withdrawal", "activated"}
  BY <1>9
<1>11. ItemsInv'
  <2>1. (\A x \in pending' : TrueOwner(x)') /\ Distinct(pending')
    BY <1>0 DEF OpenInv, QueueInv, ItemsInv, TrueOwner, Distinct, world, durable
  <2> QED
    BY <1>10, <2>1 DEF ItemsInv, Is, Asks, Distinct
<1>12. OrderInv' /\ AskOrder'
  BY <1>10 DEF OrderInv, AskOrder, Is, Asks, Acks
<1>13. RemovalInv' /\ LostInv' /\ AskedInv' /\ RemovedInv'
  BY <1>10 DEF RemovalInv, LostInv, AskedInv, RemovedInv, Is, Asks
<1>14. SessionInv'
  BY <1>0, <1>2, <1>3 DEF SessionInv, world
<1>15. Names(page)' = {} /\ PageOK(page)'
  <2>1. Names(page)' = Names(e)'
    BY <1>2 DEF Names
  <2>2. Names(e)' = Names(e)
    BY DEF Names
  <2> QED
    BY <1>1, <1>2, <2>1, <2>2 DEF PageOK, PageTyped, Names
<1>16. CaptureInv'
  <2>1. \A i \in Q' : phone'.queue[i] = cap /\ i = 1 /\ sdk # None
    BY <1>7
  <2>2. \A i \in Q' : Mentions(phone'.queue[i]) \subseteq tapped'
    BY <1>0, <1>4, <2>1 DEF DataTyped, world
  <2> QED
    BY <1>15, <2>1, <2>2 DEF CaptureInv, Mentions
<1>17. AckInv'
  BY <1>10 DEF AckInv, Acks
<1>18. MemoryInv'
  BY <1>0, <1>9 DEF MemoryInv, Captures, OpenAt
<1>19. TapInv'
  <2> SUFFICES ASSUME NEW o \in tapped
               PROVE  \/ IsPending(o)' \/ Excuse(o)' \/ disturbed'
                      \/ \E i \in Q' : phone'.queue[i].kind = "capture" /\ phone'.queue[i].open = o
    BY <1>0 DEF TapInv, world, Captures, OpenAt
  <2>0. o \in Opens
    BY <1>0 DEF DataTyped
  <2>1. CASE IsPending(o)
    BY <1>0, <2>1 DEF IsPending, durable
  <2>2. CASE Excuse(o) \/ disturbed
    BY <1>0, <1>1, <2>0, <2>2
  <2>3. ASSUME NEW i \in Q, Captures(i), OpenAt(i) = o, ~Excuse(o), ~disturbed
        PROVE  \E k \in Q' : phone'.queue[k].kind = "capture" /\ phone'.queue[k].open = o
    <3>1. sdk = o
      BY <1>0, <2>3 DEF DoneInv, MemoryInv
    <3>2. o # None
      BY <2>0, OpenAssumption
    <3> QED
      BY <1>7, <1>8, <3>1, <3>2
  <2> QED
    BY <1>0, <2>1, <2>2, <2>3 DEF DoneInv, TapInv
<1> QED
  BY <1>1, <1>6, <1>11, <1>12, <1>13, <1>14, <1>15, <1>16, <1>17, <1>18, <1>19
     DEF OpenInv, QueueInv, DoneInv

(***************************************************************************)
(* A delivery: what it sends, and what it leaves until it knows an owner.  *)
(***************************************************************************)
Delivered(items, generation, N, e) ==
  /\ PhoneTyped' /\ Shift(1, N)
  /\ phone'.connected = phone.connected /\ phone'.generation = phone.generation
  /\ phone'.auth = phone.auth
  /\ \A op \in N : /\ N = {op} /\ op.kind = "resolve" /\ op.generation = generation
                   /\ op.items \subseteq items /\ op.items # {}
  /\ page' = e /\ PageOK(e) /\ Same(page, e)
  /\ Names(e) \subseteq Names(page) \cup {x.open : x \in items}

(* What a delivery may be of.                                              *)
Deliverable(items, generation) ==
  /\ items \in SUBSET Item /\ generation \in Nat
  /\ \A x \in items : TrueOwner(x) /\ x.open \in tapped
  /\ Distinct(items)
  /\ generation <= phone.generation
  /\ ~phone.connected => generation < phone.generation

LEMMA GoOnDoes ==
  ASSUME OpenInv, phone.queue # <<>>, NEW items, NEW generation, NEW asked,
         Deliverable(items, generation), GoOn(Rest, items, generation, asked),
         \A x \in items : x.open \in asked /\ x.owner = None /\ Authenticated(phone) =>
           x.open \in old \/ phone.auth.user = of[x.open]
  PROVE  \E N, e : Delivered(items, generation, N, e)
<1>0. PhoneTyped /\ DataTyped /\ SessionInv /\ PageOK(page)
  BY DEF OpenInv, QueueInv
<1> PICK p : p = Rest
  OBVIOUS
<1>1. /\ DOMAIN p = {"connected", "generation", "auth", "delivered", "queue"}
      /\ p.connected = phone.connected /\ p.generation = phone.generation
      /\ p.auth = phone.auth /\ p.queue = Tail(phone.queue)
  BY <1>0, PhoneTail
<1> PICK may : may = {x \in items : MayReceive(p, x)}
  OBVIOUS
<1> PICK unknown : unknown = {x \in may : Authenticated(p) /\ x.owner = None /\ x.open \notin asked}
  OBVIOUS
<1> PICK rest : rest = {x \in items : \E y \in unknown : y.at <= x.at}
  OBVIOUS
<1> PICK sent : sent = {x \in may \ rest :
                          generation = p.generation /\ <<x.open, Context(p)>> \notin p.delivered}
  OBVIOUS
<1> PICK left : left = IF generation = p.generation \/ may \subseteq rest THEN rest ELSE {}
  OBVIOUS
<1> PICK q : q = [p EXCEPT !.delivered = @ \cup {<<x.open, Context(p)>> : x \in sent}]
  OBVIOUS
<1> PICK M : M = {[open |-> x.open, epoch |-> Context(p).epoch] : x \in sent}
  OBVIOUS
<1> PICK op : op = [kind |-> "resolve", items |-> left, generation |-> generation]
  OBVIOUS
<1>2. /\ phone' = IF left = {} THEN q ELSE Enqueue(q, op)
      /\ page' = Receive(page, M)
  BY DEF GoOn
<1>3. sent \subseteq items /\ left \subseteq items /\ \A x \in sent : MayReceive(p, x) /\ x \notin unknown
  <2>1. \A x \in items : x.at <= x.at
    BY DEF Deliverable, Item
  <2> QED
    BY <2>1
<1>4. /\ DOMAIN q = {"connected", "generation", "auth", "delivered", "queue"}
      /\ q.connected = phone.connected /\ q.generation = phone.generation
      /\ q.auth = phone.auth /\ q.queue = Tail(phone.queue)
  BY <1>1
<1>5. \E N : /\ PhoneTyped' /\ Shift(1, N) /\ phone'.connected = phone.connected
             /\ phone'.generation = phone.generation /\ phone'.auth = phone.auth
             /\ \A x \in N : /\ N = {x} /\ x.kind = "resolve" /\ x.generation = generation
                             /\ x.items \subseteq items /\ x.items # {}
  <2>1. CASE left = {}
    <3>1. phone'.queue = Tail(phone.queue) /\ phone' = q
      BY <1>2, <1>4, <2>1
    <3>2. phone'.queue \in Seq(StoreOp) /\ Shift(1, {})
      BY <1>0, <3>1, Shifts
    <3>3. PhoneTyped'
      BY <1>0, <1>4, <3>1, <3>2 DEF PhoneTyped
    <3> WITNESS {}
    <3> QED
      BY <1>4, <3>1, <3>2, <3>3
  <2>2. CASE left # {}
    <3>1. op.kind = "resolve" /\ op.items = left /\ op.generation = generation
      OBVIOUS
    <3>2. op \in AskOp
      BY <1>3 DEF AskOp, Deliverable
    <3>3. op \in StoreOp
      BY <3>2 DEF StoreOp
    <3>4. phone' = [q EXCEPT !.queue = Append(q.queue, op)]
      BY <1>2, <2>2 DEF Enqueue
    <3>5. /\ phone'.queue = Append(Tail(phone.queue), op)
          /\ phone'.connected = phone.connected /\ phone'.auth = phone.auth
          /\ phone'.generation = phone.generation
          /\ DOMAIN phone' = {"connected", "generation", "auth", "delivered", "queue"}
      BY <1>4, <3>4
    <3>6. phone'.queue \in Seq(StoreOp) /\ Shift(1, {op})
      BY <1>0, <3>3, <3>5, Shifts
    <3>7. PhoneTyped'
      BY <1>0, <3>5, <3>6 DEF PhoneTyped
    <3>8. \A x \in {op} : /\ {op} = {x} /\ x.kind = "resolve" /\ x.generation = generation
                          /\ x.items \subseteq items /\ x.items # {}
      BY <1>3, <2>2, <3>1
    <3> PICK W : W = {op}
      OBVIOUS
    <3>9. Shift(1, W) /\ \A x \in W : /\ W = {x} /\ x.kind = "resolve" /\ x.generation = generation
                                     /\ x.items \subseteq items /\ x.items # {}
      BY <3>6, <3>8
    <3> QED
      BY <3>5, <3>7, <3>9, ZenonT(60)
  <2> QED
    BY <2>1, <2>2
<1>6. Authenticated(p) <=> Authenticated(phone)
  BY <1>1 DEF Authenticated
<1>7. Authenticated(phone) => /\ phone.connected /\ phone.auth.user = page.user
                              /\ phone.auth.epoch = page.epoch /\ page.user # None
  BY <1>0 DEF SessionInv, Authenticated
<1>8. ~Authenticated(phone) => Context(p).epoch = 0
  BY <1>6 DEF Context
<1>9. page.epoch \in Nat /\ Context(p).epoch \in Nat /\ Context(p).epoch <= page.epoch
  <2>1. page.epoch \in Nat
    BY <1>0 DEF PageOK, PageTyped
  <2>2. CASE Authenticated(phone)
    BY <1>1, <1>6, <1>7, <2>1, <2>2 DEF Context
  <2>3. CASE ~Authenticated(phone)
    BY <1>6, <2>1, <2>3 DEF Context
  <2> QED
    BY <2>1, <2>2, <2>3
<1>10. \A x \in sent : phone.connected
  <2>1. phone.generation \in Nat /\ generation \in Nat
    BY <1>0 DEF PhoneTyped, Deliverable
  <2> QED
    BY <1>1, <2>1 DEF Deliverable
<1>11. ASSUME NEW x \in sent, page.phase = "authenticated", Context(p).epoch = page.epoch
       PROVE  x.open \in old \/ page.user = of[x.open]
  <2>1. page.epoch > 0
    BY <1>0, <1>11 DEF SessionInv
  <2>2. Authenticated(phone) /\ phone.auth.user = page.user
    BY <1>7, <1>8, <1>9, <1>11, <2>1
  <2>3. x.owner \in {None, page.user}
    BY <1>1, <1>3, <1>6, <2>2 DEF MayReceive
  <2>4. CASE x.owner # None
    BY <1>3, <2>3, <2>4 DEF Deliverable, TrueOwner
  <2>5. CASE x.owner = None
    <3>1. x.open \in asked
      BY <1>3, <1>6, <2>2, <2>5
    <3> QED
      BY <1>3, <2>2, <2>5, <3>1
  <2> QED
    BY <2>4, <2>5
<1>12. ASSUME NEW m \in M
       PROVE  /\ m \in Message /\ m.open \in tapped /\ m.epoch <= page.epoch
              /\ m.open \in {x.open : x \in items}
              /\ page.phase = "authenticated" /\ m.epoch = page.epoch =>
                   m.open \in old \/ page.user = of[m.open]
  <2>1. PICK x \in sent : m = [open |-> x.open, epoch |-> Context(p).epoch]
    OBVIOUS
  <2>2. m.open = x.open /\ m.epoch = Context(p).epoch
    BY <2>1
  <2>3. x \in items /\ x.open \in tapped /\ x.open \in Opens
    BY <1>3 DEF Deliverable, Item
  <2>4. m \in Message
    BY <1>9, <2>1, <2>3 DEF Message
  <2> QED
    BY <1>9, <1>11, <2>2, <2>3, <2>4
<1>13. M \in SUBSET Message
  BY <1>12
<1>14. {m.open : m \in M} \subseteq {x.open : x \in items}
  BY <1>12
<1>15. LET e == Receive(page, M) IN
         /\ PageOK(e) /\ Same(page, e)
         /\ Names(e) \subseteq Names(page) \cup {m.open : m \in M}
  BY <1>0, <1>12, <1>13, ReceiveOK
<1>16. PICK e : /\ page' = e /\ PageOK(e) /\ Same(page, e)
                /\ Names(e) \subseteq Names(page) \cup {x.open : x \in items}
  BY <1>2, <1>14, <1>15
<1> QED
  BY <1>5, <1>16 DEF Delivered

LEMMA DeliverDoes ==
  ASSUME OpenInv, phone.queue # <<>>, NEW items, Deliverable(items, phone.generation) \/ ~phone.connected,
         Deliver(Rest, items)
  PROVE  \E N, e : /\ Delivered(items, phone.generation, N, e)
                   /\ N = {} \/ Deliverable(items, phone.generation)
<1>0. PhoneTyped /\ PageOK(page)
  BY DEF OpenInv, QueueInv
<1>1. Rest.connected = phone.connected /\ Rest.generation = phone.generation
  BY <1>0, PhoneTail
<1>2. CASE phone.connected
  <2>1. GoOn(Rest, items, phone.generation, {})
    BY <1>1, <1>2 DEF Deliver
  <2> QED
    BY <1>2, <2>1, GoOnDoes
<1>3. CASE ~phone.connected
  <2>1. phone' = Rest /\ page' = page
    BY <1>1, <1>3 DEF Deliver
  <2>2. PhoneTyped' /\ Shift(1, {}) /\ phone'.connected = phone.connected
      /\ phone'.generation = phone.generation /\ phone'.auth = phone.auth
    BY <1>0, <1>1, <2>1, PhoneTail
  <2>3. PICK e : e = page
    OBVIOUS
  <2>4. page' = e /\ PageOK(e) /\ Same(page, e) /\ Names(e) \subseteq Names(page)
    BY <1>0, <2>1, <2>3 DEF Same
  <2>5. Delivered(items, phone.generation, {}, e)
    BY <2>2, <2>4 DEF Delivered
  <2> QED
    BY <2>5
<1> QED
  BY <1>2, <1>3

(***************************************************************************)
(* An operation of the storage that changes the record of opens.           *)
(***************************************************************************)
Lingers(o) == \E x \in pending' : x.open = o
Forever(u) == u \in gone /\ u \notin owners' /\ \A j \in Q : j > 1 /\ Is(j, "activated") => UserAt(j) # u

LEMMA StorageStep ==
  ASSUME OpenInv, DataTyped', UNCHANGED <<of, cookie, records, old, gone, tapped, disturbed>>,
         owners' \subseteq owners, NEW N, PhoneTyped', Shift(1, N),
         phone'.connected = phone.connected, phone'.generation = phone.generation,
         phone'.auth = phone.auth,
         NEW e, page' = e, PageOK(e), Same(page, e),
         \A x \in pending' : TrueOwner(x), Distinct(pending'),
         \A x \in pending' : x.owner = None /\ x.open \notin old =>
           \/ \E y \in pending : y.open = x.open /\ y.owner = None
           \/ \A j \in Q : Is(j, "remove") => OpenAt(j) # x.open,
         \A i, j \in Q : i > 1 /\ j > 1 /\ Is(i, "append") /\ Is(j, "remove") /\ OpenAt(i) = OpenAt(j)
           /\ IsPending(OpenAt(j)) /\ OpenAt(j) \notin old => Lingers(OpenAt(j)),
         \A i \in Q : i > 1 /\ Asks(i) => \A x \in ItemsAt(i) :
           Unowned(x) /\ cookie # None /\ IsPending(x.open) =>
             cookie = of[x.open] \/ Lingers(x.open) \/ Forever(of[x.open]),
         owners' = owners \/ cookie = None \/ \A i \in Q : i > 1 => ~Is(i, "own"),
         \A o \in tapped : IsPending(o) => Excuse(o) \/ Lingers(o),
         \A i \in Q : i <= 1 /\ Captures(i) => Lingers(OpenAt(i)),
         \A i \in Q : i > 1 /\ Is(i, "capture") => OpenAt(i) \notin Names(e) /\
           (~IsPending(OpenAt(i)) => ~Lingers(OpenAt(i))),
         \A o \in Opens : sdk = o => sdk' = o \/ Excuse(o),
         \A op \in N : N = {op} /\ op.kind \in {"resolve", "own", "remove"},
         \A op \in N : Mentions(op) \subseteq tapped,
         \A i \in Q : i > 1 /\ Is(i, "capture") => \A op \in N : OpenAt(i) \notin Mentions(op),
         \A op \in N : op.kind \in {"resolve", "own"} =>
           /\ AskOK(op)
           /\ cookie # None => \A x \in op.items : Unowned(x) =>
                /\ cookie = of[x.open] \/ Lingers(x.open) \/ Forever(of[x.open])
                /\ \A j \in Q : Is(j, "remove") /\ OpenAt(j) = x.open => cookie = of[x.open],
         \A op \in N : op.kind = "own" /\ cookie # None =>
           of[First(op.items).open] \in owners' /\ \A k \in Q : ~Is(k, "withdrawal"),
         \A op \in N : op.kind = "remove" =>
           /\ Excuse(op.open) /\ cookie = of[op.open]
           /\ Lingers(op.open) /\ \A x \in pending' : x.open = op.open => x.owner # None
  PROVE  OpenInv'
<1>0. /\ PhoneTyped /\ QueueInv /\ DoneInv /\ CaptureInv /\ SessionInv /\ RecordInv /\ DataTyped
      /\ phone.generation \in Nat /\ 1 \in Nat /\ Q \subseteq Nat \ {0}
  BY Shifts DEF OpenInv, QueueInv, PhoneTyped
<1>1. CookieStays(N)
  BY DEF CookieStays
<1>2. \A op \in N : op.kind \notin {"append", "activated", "withdrawal", "capture", "ackLoad"}
  OBVIOUS
<1>3. OrderInv'
  <2>1. \A op \in N : op.kind = "remove" =>
           N = {op} /\ \A k \in Q : Is(k, "withdrawal") => UserAt(k) # of[op.open]
    BY <1>0 DEF SessionInv, QueueInv, OrderInv
  <2> QED
    BY <1>0, <1>2, <2>1, OrderShift
<1>4. AskOrder'
  BY <1>0, <1>1, <1>2, AskShift
<1>5. ItemsInv'
  <2>1. \A op \in N : op.kind \in {"resolve", "own"} => AskOK(op)'
    BY DEF AskOK, TrueOwner, Distinct
  <2>2. phone.generation <= phone'.generation /\ (~phone'.connected => ~phone.connected)
    BY <1>0
  <2> QED
    BY <1>0, <1>2, <2>1, <2>2, ItemsShift
<1>6. RemovalInv'
  <2>1. \A op \in N : op.kind = "remove" /\ op.open \notin old' =>
           /\ \A x \in pending' : x.open = op.open => x.owner # None
           /\ \E x \in pending' : x.open = op.open
    BY DEF Lingers
  <2>2. \A i, j \in Q : i > 1 /\ j > 1 /\ Is(i, "append") /\ Is(j, "remove") /\ OpenAt(i) = OpenAt(j)
           /\ IsPending(OpenAt(j)) /\ OpenAt(j) \notin old' => \E y \in pending' : y.open = OpenAt(j)
    BY DEF Lingers
  <2>3. \A x \in pending' : x.owner = None /\ x.open \notin old' =>
           \/ \E y \in pending : y.open = x.open /\ y.owner = None
           \/ \A j \in Q : Is(j, "remove") => OpenAt(j) # x.open
    OBVIOUS
  <2> QED
    BY <1>0, <1>2, <2>1, <2>2, <2>3, RemovalShift
<1>7. ASSUME NEW u, Forever(u)
      PROVE  u \in gone' /\ u \notin owners'
             /\ \A j \in Q' : phone'.queue[j].kind = "activated" => phone'.queue[j].user # u
  <2>1. \A j \in Q' : \/ j + 1 \in Q /\ j + 1 > 1 /\ phone'.queue[j] = phone.queue[j + 1]
                      \/ phone'.queue[j] \in N
    BY <1>0, Shifted
  <2> QED
    BY <1>2, <1>7, <2>1 DEF Forever, Is, UserAt
<1>8. LostInv'
  <2>1. \A i \in Q : i > 1 /\ Asks(i) => \A x \in ItemsAt(i) :
           /\ x.owner = None /\ x.open \notin old' /\ cookie' # None /\ IsPending(x.open)
           => \/ cookie' = of[x.open] \/ \E y \in pending' : y.open = x.open
              \/ of[x.open] \in gone' /\ of[x.open] \notin owners'
                 /\ \A j \in Q' : phone'.queue[j].kind = "activated" => phone'.queue[j].user # of[x.open]
    BY <1>7 DEF Lingers, Unowned
  <2>2. \A op \in N : op.kind \in {"resolve", "own"} /\ cookie' # None => \A x \in op.items :
           x.owner = None /\ x.open \notin old' =>
             \/ cookie' = of[x.open] \/ \E y \in pending' : y.open = x.open
             \/ of[x.open] \in gone' /\ of[x.open] \notin owners'
                /\ \A j \in Q' : phone'.queue[j].kind = "activated" => phone'.queue[j].user # of[x.open]
    BY <1>7 DEF Lingers, Unowned
  <2>3. \A u \in owners' \ owners : u \in gone => \E j \in Q : Is(j, "activated") /\ UserAt(j) = u
    OBVIOUS
  <2> QED
    BY <1>0, <1>1, <1>2, <2>1, <2>2, <2>3, LostShift
<1>9. AskedInv' /\ RemovedInv'
  <2>1. \/ owners \subseteq owners' \/ cookie' = None
        \/ \A i \in Q : i > 1 => ~Is(i, "own")
    OBVIOUS
  <2>2. \A op \in N : op.kind \in {"resolve", "own"} /\ cookie' # None =>
           /\ N = {op}
           /\ \A x \in op.items : x.owner = None /\ x.open \notin old' =>
                \A j \in Q : Is(j, "remove") /\ OpenAt(j) = x.open => cookie' = of[x.open]
    BY DEF Unowned
  <2>3. \A op \in N : op.kind = "remove" /\ cookie' # None =>
           /\ N = {op}
           /\ \A i \in Q : Asks(i) => \A x \in ItemsAt(i) :
                x.owner = None /\ x.open \notin old' /\ x.open = op.open => cookie' = of[x.open]
    OBVIOUS
  <2>4. \A op \in N : op.kind = "own" /\ cookie' # None => of[First(op.items).open] \in owners'
    OBVIOUS
  <2> QED
    BY <1>0, <1>1, <1>2, <2>1, <2>2, <2>3, <2>4, AskedShift
<1>10. \A o \in Opens : Excuse(o) <=> Excuse(o)'
  BY DEF Excuse
<1>11. DoneInv'
  <2>1. \A op \in N : op.kind = "remove" => op.open \in Opens
    BY <1>0 DEF Mentions, DataTyped
  <2>2. \A op \in N : op.kind \in {"ackLoad", "remove"} => Excuse(op.open)'
    BY <1>2, <1>10, <2>1
  <2>3. \A i \in Q : i > 1 /\ Captures(i) /\ sdk = OpenAt(i) =>
           \A o \in Opens : o = OpenAt(i) => sdk' = o \/ Excuse(o)'
    BY <1>10
  <2>4. \A o \in tapped' : o \notin tapped \/ IsPending(o) =>
           Excuse(o)' \/ \E x \in pending' : x.open = o
    BY <1>0, <1>10 DEF Lingers, DataTyped
  <2>5. \A i \in Q : i <= 1 /\ Captures(i) => \A o \in Opens : o = OpenAt(i) =>
           \E x \in pending' : x.open = o
    BY DEF Lingers
  <2>6. tapped' \subseteq Opens
    BY DEF DataTyped
  <2>7. \A o \in Opens : Excuse(o) => Excuse(o)'
    BY <1>10
  <2> QED
    BY <1>0, <1>2, <2>2, <2>3, <2>4, <2>5, <2>6, <2>7, DoneShift
<1>12. /\ PageOK(page)' /\ Names(page)' = Names(e)
  <2>1. PageOK(e)' /\ Names(e)' = Names(e)
    BY PagePersists
  <2> QED
    BY <2>1 DEF PageOK, PageTyped, Names
<1>13. CaptureInv'
  <2>1. \A i \in Q : i > 1 /\ Is(i, "capture") => \A o \in Opens : o = OpenAt(i) =>
           /\ o \notin Names(page)'
           /\ ~IsPending(o) => \A x \in pending' : x.open # o
    BY <1>12 DEF Lingers
  <2> QED
    BY <1>0, <1>2, <2>1, CaptureShift
<1>14. SessionInv' /\ RecordInv'
  BY <1>0 DEF SessionInv, RecordInv, Same
<1> QED
  BY <1>3, <1>4, <1>5, <1>6, <1>8, <1>9, <1>11, <1>12, <1>13, <1>14 DEF OpenInv, QueueInv

LEMMA DeliverStep ==
  ASSUME OpenInv, DataTyped', UNCHANGED <<of, owners, cookie, records, old, gone, tapped, disturbed>>,
         NEW items, NEW generation, NEW N, NEW e, Delivered(items, generation, N, e),
         N = {} \/ Deliverable(items, generation),
         \A x \in items : x.open \in tapped,
         \A x \in pending' : TrueOwner(x), Distinct(pending'),
         \A x \in pending' : x.owner = None /\ x.open \notin old =>
           \/ \E y \in pending : y.open = x.open /\ y.owner = None
           \/ \A j \in Q : Is(j, "remove") => OpenAt(j) # x.open,
         \A o : IsPending(o) /\ o \notin old => Lingers(o),
         \A i \in Q : i <= 1 /\ Captures(i) => Lingers(OpenAt(i)),
         \A i \in Q : i > 1 /\ Is(i, "capture") =>
           /\ \A x \in items : OpenAt(i) # x.open
           /\ ~IsPending(OpenAt(i)) => ~Lingers(OpenAt(i)),
         \A o \in Opens : sdk = o => sdk' = o \/ o \in old,
         cookie # None => \A x \in items : Unowned(x) =>
                /\ cookie = of[x.open] \/ Lingers(x.open) \/ Forever(of[x.open])
                /\ \A j \in Q : Is(j, "remove") /\ OpenAt(j) = x.open => cookie = of[x.open]
  PROVE  OpenInv'
<1>0. /\ PhoneTyped' /\ Shift(1, N) /\ phone'.connected = phone.connected
      /\ phone'.generation = phone.generation /\ phone'.auth = phone.auth
      /\ page' = e /\ PageOK(e) /\ Same(page, e)
      /\ Names(e) \subseteq Names(page) \cup {x.open : x \in items} /\ CaptureInv
  BY DEF Delivered, OpenInv
<1>1. \A op \in N : /\ N = {op} /\ op.kind = "resolve" /\ op.generation = generation
                    /\ op.items \subseteq items /\ op.items # {}
  BY DEF Delivered
<1>2. \A op \in N : Mentions(op) = {x.open : x \in op.items}
  BY <1>1 DEF Mentions
<1>3. \A op \in N : Mentions(op) \subseteq tapped
  BY <1>1, <1>2
<1>4. \A i \in Q : i > 1 /\ Is(i, "capture") => \A op \in N : OpenAt(i) \notin Mentions(op)
  BY <1>1, <1>2
<1>5. \A op \in N : AskOK(op)
  BY <1>1 DEF AskOK, Deliverable, Distinct
<1>6. \A op \in N :
        cookie # None => \A x \in op.items : Unowned(x) =>
                /\ cookie = of[x.open] \/ Lingers(x.open) \/ Forever(of[x.open])
                /\ \A j \in Q : Is(j, "remove") /\ OpenAt(j) = x.open => cookie = of[x.open]
  BY <1>1
<1>7. \A i \in Q : i > 1 /\ Is(i, "capture") => OpenAt(i) \notin Names(e) /\
           (~IsPending(OpenAt(i)) => ~Lingers(OpenAt(i)))
  BY <1>0 DEF CaptureInv
<1>8. \A o \in Opens : sdk = o => sdk' = o \/ Excuse(o)
  BY DEF Excuse
<1>9. \A o \in tapped : IsPending(o) => Excuse(o) \/ Lingers(o)
  BY DEF Excuse
<1>10. \A i, j \in Q : i > 1 /\ j > 1 /\ Is(i, "append") /\ Is(j, "remove") /\ OpenAt(i) = OpenAt(j)
           /\ IsPending(OpenAt(j)) /\ OpenAt(j) \notin old => Lingers(OpenAt(j))
  OBVIOUS
<1>11. \A i \in Q : i > 1 /\ Asks(i) => \A x \in ItemsAt(i) :
           Unowned(x) /\ cookie # None /\ IsPending(x.open) =>
             cookie = of[x.open] \/ Lingers(x.open) \/ Forever(of[x.open])
  BY DEF Unowned
<1>12. \A op \in N : op.kind # "own" /\ op.kind # "remove" /\ N = {op} /\ op.kind \in {"resolve", "own", "remove"}
  BY <1>1
<1> QED
  BY <1>0, <1>3, <1>4, <1>5, <1>6, <1>7, <1>8, <1>9, <1>10, <1>11, <1>12, StorageStep

(* What has asked for owners, at the head of the queue.                    *)
LEMMA AskHead ==
  ASSUME OpenInv, phone.queue # <<>>, Operation.kind \in {"resolve", "own"}
  PROVE  /\ 1 \in Q /\ Asks(1) /\ ItemsAt(1) = Operation.items /\ ~Captures(1)
         /\ Deliverable(Operation.items, Operation.generation)
         /\ Operation.items # {} /\ First(Operation.items) \in Operation.items
         /\ \A i \in Q : i > 1 /\ Is(i, "capture") => \A x \in Operation.items : OpenAt(i) # x.open
<1>0. PhoneTyped /\ QueueInv /\ CaptureInv
  BY DEF OpenInv, QueueInv
<1> PICK o : o = Operation
  OBVIOUS
<1>1. /\ o = phone.queue[1] /\ 1 \in Q /\ o.items \in SUBSET Item /\ o.generation \in Nat
      /\ o.kind \in {"resolve", "own"}
  BY <1>0, HeadIs, OpFields
<1>2. Asks(1) /\ ItemsAt(1) = o.items /\ ~Captures(1) /\ ~Is(1, "capture")
  BY <1>1 DEF Asks, ItemsAt, Captures, Is
<1>3. AskOK(o)
  BY <1>0, <1>1, <1>2 DEF QueueInv, ItemsInv
<1>4. Mentions(o) = {x.open : x \in o.items}
  BY <1>1 DEF Mentions
<1>5. \A x \in o.items : x.open \in tapped
  BY <1>0, <1>1, <1>4 DEF CaptureInv
<1>6. \A i \in Q : i > 1 /\ Is(i, "capture") => \A x \in o.items : OpenAt(i) # x.open
  BY <1>0, <1>1, <1>4 DEF CaptureInv
<1>7. o.items # {} /\ First(o.items) \in o.items
  BY <1>1, <1>3, FirstOf DEF AskOK
<1> QED
  BY <1>1, <1>2, <1>3, <1>5, <1>6, <1>7 DEF Deliverable, AskOK

LEMMA ResolveOwnerKeeps == ASSUME OpenInv, ResolveOwner PROVE OpenInv'
<1> PICK o : o = Operation
  OBVIOUS
<1> PICK item : item = First(o.items)
  OBVIOUS
<1>0. /\ PhoneTyped /\ DataTyped /\ QueueInv /\ CaptureInv /\ PageOK(page)
      /\ phone.queue # <<>> /\ o.kind = "resolve"
      /\ UNCHANGED <<of, sdk, pending, owners, cookie, records, reads, old, deleted, gone,
                     tapped, marked, events, disturbed>>
  BY DEF OpenInv, QueueInv, ResolveOwner, At, Operation, durable, web, world
<1>1. /\ 1 \in Q /\ Asks(1) /\ ItemsAt(1) = o.items /\ ~Captures(1)
      /\ Deliverable(o.items, o.generation) /\ item \in o.items
      /\ \A i \in Q : i > 1 /\ Is(i, "capture") => \A x \in o.items : OpenAt(i) # x.open
  BY <1>0, AskHead
<1>2. DataTyped'
  BY <1>0 DEF DataTyped
<1>3. (\A x \in pending' : TrueOwner(x)) /\ Distinct(pending')
  BY <1>0 DEF QueueInv, ItemsInv
<1>4. \A u : Expelled(u) => Forever(u)
  BY <1>0 DEF Expelled, Forever
<1>5. \A x : IsPending(x) <=> Lingers(x)
  BY <1>0 DEF IsPending, Lingers
<1>6. cookie # None => \A x \in o.items : Unowned(x) =>
                /\ cookie = of[x.open] \/ Lingers(x.open) \/ Forever(of[x.open])
                /\ \A j \in Q : Is(j, "remove") /\ OpenAt(j) = x.open => cookie = of[x.open]
  BY <1>0, <1>1, <1>4, <1>5 DEF QueueInv, LostInv, RemovedInv
<1>7. \A i \in Q : i <= 1 => ~Captures(i)
  BY <1>0, <1>1, HeadIs
<1>8. \A x \in pending' : x.owner = None /\ x.open \notin old =>
           \E y \in pending : y.open = x.open /\ y.owner = None
  BY <1>0
<1>9. CASE OwnerOf(item.open) = None
  <2> PICK items : items = o.items \ {item}
    OBVIOUS
  <2>1. GoOn(Rest, items, o.generation, {})
    BY <1>9 DEF ResolveOwner
  <2>2. Deliverable(items, o.generation)
    BY <1>1 DEF Deliverable, Distinct
  <2>3. PICK N, e : Delivered(items, o.generation, N, e)
    BY <1>0, <2>1, <2>2, GoOnDoes
  <2>4. \A x \in items : x \in o.items /\ x.open \in tapped
    BY <1>1 DEF Deliverable
  <2> QED
    BY <1>0, <1>1, <1>2, <1>3, <1>5, <1>6, <1>7, <1>8, <2>2, <2>3, <2>4, DeliverStep
<1>10. CASE OwnerOf(item.open) # None
  <2> PICK op : op = [o EXCEPT !.kind = "own"]
    OBVIOUS
  <2>1. phone' = Enqueue(Rest, op) /\ page' = page
    BY <1>10 DEF ResolveOwner
  <2>2. o \in AskOp
    BY <1>0, HeadIs, OpFields
  <2>3. /\ op \in StoreOp /\ op.kind = "own" /\ op.items = o.items /\ op.generation = o.generation
    BY <2>2 DEF AskOp, StoreOp
  <2>4. /\ PhoneTyped' /\ Shift(1, {op}) /\ phone'.connected = phone.connected
        /\ phone'.generation = phone.generation /\ phone'.auth = phone.auth
    BY <1>0, <2>1, <2>3, PhoneTail
  <2> PICK e : e = page
    OBVIOUS
  <2>5. page' = e /\ PageOK(e) /\ Same(page, e) /\ Names(e) = Names(page)
    BY <1>0, <2>1 DEF Same
  <2>6. AskOK(op) /\ Mentions(op) = {x.open : x \in o.items}
    BY <1>1, <2>3 DEF AskOK, Deliverable, Mentions
  <2>7. of[item.open] \in owners /\ First(op.items) = item
    BY <1>10, <2>3 DEF OwnerOf
  <2>8. cookie # None => \A k \in Q : ~Is(k, "withdrawal")
    <3> SUFFICES ASSUME cookie # None, NEW k \in Q, Is(k, "withdrawal")
                 PROVE  FALSE
      OBVIOUS
    <3>1. k < 1
      BY <1>0, <1>1 DEF QueueInv, AskOrder
    <3>2. k \in 1 .. Len(phone.queue)
      BY <1>0, HeadIs
    <3> QED
      BY <3>1, <3>2
  <2>9. \A i \in Q : i > 1 /\ Is(i, "capture") => OpenAt(i) \notin Names(e) /\
           (~IsPending(OpenAt(i)) => ~Lingers(OpenAt(i))) /\ OpenAt(i) \notin Mentions(op)
    BY <1>0, <1>1, <1>5, <2>5, <2>6 DEF CaptureInv
  <2>10. Mentions(op) \subseteq tapped
    BY <1>1, <2>6 DEF Deliverable
  <2>11. \A x \in tapped : IsPending(x) => Lingers(x)
    BY <1>5
  <2>12. \A i, j \in Q : i > 1 /\ j > 1 /\ Is(i, "append") /\ Is(j, "remove") /\ OpenAt(i) = OpenAt(j)
           /\ IsPending(OpenAt(j)) /\ OpenAt(j) \notin old => Lingers(OpenAt(j))
    BY <1>5
  <2>13. \A i \in Q : i > 1 /\ Asks(i) => \A x \in ItemsAt(i) :
           Unowned(x) /\ cookie # None /\ IsPending(x.open) =>
             cookie = of[x.open] \/ Lingers(x.open) \/ Forever(of[x.open])
    BY <1>5
  <2> PICK N : N = {op}
    OBVIOUS
  <2>14. /\ Shift(1, N)
         /\ \A n \in N : N = {n} /\ n.kind = "own" /\ n.kind \in {"resolve", "own", "remove"}
         /\ \A n \in N : n.items = o.items /\ AskOK(n) /\ Mentions(n) \subseteq tapped
         /\ \A n \in N : cookie # None =>
              of[First(n.items).open] \in owners' /\ \A k \in Q : ~Is(k, "withdrawal")
         /\ \A i \in Q : i > 1 /\ Is(i, "capture") => \A n \in N : OpenAt(i) \notin Mentions(n)
    <3>1. \A n \in N : n = op
      OBVIOUS
    <3> QED
      BY <1>0, <2>3, <2>4, <2>6, <2>7, <2>8, <2>9, <2>10, <3>1
  <2>15. \A x \in Opens : sdk = x => sdk' = x
    BY <1>0
  <2> QED
    BY <1>0, <1>1, <1>2, <1>3, <1>6, <1>7, <1>8, <2>4, <2>5, <2>9, <2>11, <2>12, <2>13, <2>14, <2>15,
       StorageStep, ZenonT(60)
<1> QED
  BY <1>9, <1>10

LEMMA OwnDeliveredKeeps == ASSUME OpenInv, OwnDelivered PROVE OpenInv'
<1> PICK o : o = Operation
  OBVIOUS
<1> PICK item : item = First(o.items)
  OBVIOUS
<1> PICK owned : owned = IF Find(item.open) = {} THEN item ELSE [item EXCEPT !.owner = of[item.open]]
  OBVIOUS
<1> PICK items : items = (o.items \ {item}) \cup {owned}
  OBVIOUS
<1>0. /\ PhoneTyped /\ DataTyped /\ QueueInv /\ CaptureInv /\ PageOK(page) /\ SessionInv
      /\ phone.queue # <<>> /\ o.kind = "own" /\ phone.queue[1].kind = "own"
      /\ UNCHANGED <<of, sdk, owners, cookie, records, reads, old, deleted, gone,
                     tapped, marked, events, disturbed>>
      /\ pending' = SetOwner(item.open) /\ GoOn(Rest, items, o.generation, {item.open})
  BY HeadIs DEF OpenInv, QueueInv, OwnDelivered, At, Operation, web, world
<1>1. /\ 1 \in Q /\ Asks(1) /\ ItemsAt(1) = o.items /\ ~Captures(1) /\ Is(1, "own")
      /\ Deliverable(o.items, o.generation) /\ item \in o.items
      /\ \A i \in Q : i > 1 /\ Is(i, "capture") => \A x \in o.items : OpenAt(i) # x.open
  BY <1>0, AskHead DEF Is
<1>2. item \in Item /\ item.open \in Opens /\ of[item.open] \in Accounts
  BY <1>0, <1>1 DEF Deliverable, Item, DataTyped
<1>3. owned \in Item /\ owned.open = item.open /\ (owned.owner = of[item.open] \/ owned = item)
  BY <1>2 DEF Item
<1>4. Deliverable(items, o.generation)
  <2>1. items \in SUBSET Item
    BY <1>1, <1>3 DEF Deliverable
  <2>2. ASSUME NEW x \in items
        PROVE  TrueOwner(x) /\ x.open \in tapped
    <3>1. CASE x = owned
      BY <1>1, <1>3, <3>1 DEF Deliverable, TrueOwner
    <3>2. CASE x # owned
      BY <1>1, <3>2 DEF Deliverable
    <3> QED
      BY <3>1, <3>2
  <2>3. Distinct(items)
    <3>1. \A x, y \in o.items : x.open = y.open => x = y
      BY <1>1 DEF Deliverable, Distinct
    <3>2. \A x \in items : x = owned \/ (x \in o.items /\ x.open # owned.open)
      BY <1>1, <1>3, <3>1
    <3>3. ASSUME NEW x \in items, NEW y \in items, x.open = y.open
          PROVE  x = y
      BY <3>1, <3>2, <3>3, Zenon
    <3> QED
      BY <3>3 DEF Distinct
  <2> QED
    BY <1>1, <2>1, <2>2, <2>3 DEF Deliverable
<1> PICK it : it = item.open
  OBVIOUS
<1> PICK own : own = of[it]
  OBVIOUS
<1> DEFINE f(y) == IF y.open = it THEN [y EXCEPT !.owner = own] ELSE y
<1>41. pending' = {f(y) : y \in pending}
  BY <1>0 DEF SetOwner
<1>42. \A y \in pending : /\ f(y).open = y.open /\ f(y).at = y.at /\ f(y) \in Item
                          /\ f(y) = y \/ f(y).owner = of[y.open]
  BY <1>0, <1>2 DEF DataTyped, Item
<1> HIDE DEF f
<1>5. \A x \in pending' : \E y \in pending : x.open = y.open /\ x.at = y.at /\
         (x = y \/ (x.owner = of[x.open] /\ x \in Item))
  BY <1>41, <1>42
<1>6. \A y \in pending : \E x \in pending' : x.open = y.open
  BY <1>41, <1>42
<1>7. DataTyped'
  <2>1. pending' \subseteq Item
    BY <1>0, <1>5 DEF DataTyped
  <2>2. IsFiniteSet(pending')
    <3> PICK P : P = pending
      OBVIOUS
    <3>1. pending' = {f(y) : y \in P}
      BY <1>41
    <3>2. IsFiniteSet(P)
      BY <1>0 DEF DataTyped
    <3>3. PICK g : g = [y \in P |-> f(y)]
      OBVIOUS
    <3>4. {f(y) : y \in P} = {g[y] : y \in P}
      BY <3>3
    <3>5. g \in Surjection(P, {f(y) : y \in P})
      BY <3>3 DEF Surjection
    <3> QED
      BY <3>1, <3>2, <3>5, FS_Surjection
  <2>3. \A x \in pending' : x.open \in tapped
    BY <1>0, <1>5 DEF DataTyped
  <2> QED
    BY <1>0, <2>1, <2>2, <2>3 DEF DataTyped
<1>8. (\A x \in pending' : TrueOwner(x)) /\ Distinct(pending')
  <2>1. (\A x \in pending : TrueOwner(x)) /\ Distinct(pending)
    BY <1>0 DEF QueueInv, ItemsInv
  <2>2. Distinct(pending')
    BY <1>41, <1>42, <2>1 DEF Distinct
  <2> QED
    BY <1>5, <2>1, <2>2 DEF TrueOwner
<1>9. \A u : Expelled(u) => Forever(u) /\ u \notin owners
  BY <1>0 DEF Expelled, Forever
<1>10. \A x : IsPending(x) <=> Lingers(x)
  BY <1>5, <1>6 DEF IsPending, Lingers
<1>11. cookie # None => \A x \in o.items : Unowned(x) =>
                /\ cookie = of[x.open] \/ Lingers(x.open) \/ Forever(of[x.open])
                /\ \A j \in Q : Is(j, "remove") /\ OpenAt(j) = x.open => cookie = of[x.open]
  BY <1>0, <1>1, <1>9, <1>10 DEF QueueInv, LostInv, RemovedInv
<1>12. \A x \in items : Unowned(x) => x \in o.items
  BY <1>1, <1>2, <1>3, OpenAssumption DEF Unowned
<1>13. \A x \in items : x.open \in {item.open} /\ x.owner = None /\ Authenticated(phone) =>
           x.open \in old \/ phone.auth.user = of[x.open]
  <2> SUFFICES ASSUME NEW x \in items, x.open = item.open, x.owner = None, Authenticated(phone),
                      x.open \notin old
               PROVE  phone.auth.user = of[x.open]
    OBVIOUS
  <2>1. x = item
    BY <1>1, <1>2, <1>3, OpenAssumption DEF Deliverable, Distinct
  <2>2. owned = item
    BY <1>3, <1>4, <2>1 DEF Deliverable, Distinct
  <2>3. ~IsPending(x.open)
    <3>1. CASE Find(item.open) # {}
      BY <1>2, <2>1, <2>2, <3>1, OpenAssumption DEF Item
    <3>2. CASE Find(item.open) = {}
      BY <2>1, <3>2 DEF Find, IsPending
    <3> QED
      BY <3>1, <3>2
  <2>4. phone.auth.user = cookie /\ cookie # None
    BY <1>0 DEF SessionInv, Authenticated, PageOK
  <2>5. of[item.open] \in owners
    BY <1>0, <1>1, <2>4 DEF QueueInv, AskedInv
  <2>6. Unowned(x) /\ x \in ItemsAt(1)
    BY <1>1, <2>1 DEF Unowned
  <2>7. cookie = of[x.open] \/ Expelled(of[x.open])
    BY <1>0, <1>1, <2>3, <2>4, <2>6 DEF QueueInv, LostInv
  <2> QED
    BY <1>9, <2>1, <2>4, <2>5, <2>7
<1>14. PICK N, e : Delivered(items, o.generation, N, e)
  BY <1>0, <1>4, <1>13, GoOnDoes, ZenonT(60)
<1>15. \A i \in Q : i <= 1 => ~Captures(i)
  BY <1>0, <1>1, HeadIs
<1>16. \A x \in pending' : x.owner = None /\ x.open \notin old =>
           \E y \in pending : y.open = x.open /\ y.owner = None
  BY <1>0, <1>5, OpenAssumption DEF DataTyped
<1>17. \A i \in Q : i > 1 /\ Is(i, "capture") => \A x \in items : OpenAt(i) # x.open
  <2>1. \A x \in items : \E y \in o.items : y.open = x.open
    BY <1>1, <1>3
  <2> QED
    BY <1>1, <2>1
<1>18. \A x \in items : x.open \in tapped
  BY <1>4 DEF Deliverable
<1> QED
  BY <1>0, <1>4, <1>7, <1>8, <1>10, <1>11, <1>12, <1>14, <1>15, <1>16, <1>17, <1>18, DeliverStep

LEMMA MostOf ==
  ASSUME NEW items \in SUBSET Item, IsFiniteSet(items), items # {}
  PROVE  \E x \in items : \A y \in items : y.at <= x.at
<1> DEFINE Later(n) == {x \in items : x.at > n}
           Up == {Later(x.at) : x \in items}
<1>0. \A x \in items : x.at \in Nat
  BY DEF Item
<1>1. IsWellFoundedOn(StrictSubsetOrdering(items), FiniteSubsetsOf(items))
  BY FS_StrictSubsetOrderingWellFounded
<1>2. Up \subseteq FiniteSubsetsOf(items)
  <2> SUFFICES ASSUME NEW x \in items
               PROVE  Later(x.at) \in FiniteSubsetsOf(items)
    OBVIOUS
  <2>1. Later(x.at) \subseteq items
    OBVIOUS
  <2>2. IsFiniteSet(Later(x.at))
    <3> HIDE DEF Later
    <3> QED
      BY <2>1, FS_Subset
  <2> QED
    BY <2>1, <2>2 DEF FiniteSubsetsOf
<1>3. Up # {}
  OBVIOUS
<1>4. PICK S \in Up : \A R \in Up : <<R, S>> \notin StrictSubsetOrdering(items)
  <2> HIDE DEF Up
  <2> QED
    BY <1>1, <1>2, <1>3, WFMin
<1>5. PICK x \in items : S = Later(x.at)
  BY <1>4
<1>6. ASSUME NEW y \in items, ~(y.at <= x.at)
      PROVE  FALSE
  <2>1. y.at > x.at
    BY <1>0, <1>6
  <2>2. Later(y.at) \subseteq Later(x.at) /\ y \in Later(x.at) /\ y \notin Later(y.at)
    BY <1>0, <2>1
  <2>3. <<Later(y.at), S>> \in StrictSubsetOrdering(items)
    BY <1>5, <2>2 DEF StrictSubsetOrdering
  <2> QED
    BY <1>4, <2>3
<1> QED
  BY <1>6

LEMMA AppendOpenKeeps == ASSUME OpenInv, AppendOpen PROVE OpenInv'
<1> PICK o : o = Operation
  OBVIOUS
<1> PICK top : top = CHOOSE x \in pending : \A y \in pending : y.at <= x.at
  OBVIOUS
<1> PICK last : (pending = {} => last = 0) /\ (pending # {} => last = top.at)
  <2>1. CASE pending = {}
    BY <2>1
  <2>2. CASE pending # {}
    BY <2>2
  <2> QED
    BY <2>1, <2>2
<1> PICK new : new = [open |-> o.open, owner |-> o.owner, at |-> last + 1]
  OBVIOUS
<1> PICK items : items = IF Find(o.open) # {} THEN Find(o.open) ELSE {new}
  OBVIOUS
<1>0. /\ PhoneTyped /\ DataTyped /\ QueueInv /\ CaptureInv /\ PageOK(page)
      /\ phone.queue # <<>> /\ o.kind = "append"
      /\ UNCHANGED <<of, sdk, owners, cookie, records, reads, old, deleted, gone,
                     tapped, marked, events, disturbed>>
      /\ pending' = IF Find(o.open) # {} THEN pending ELSE pending \cup {new}
      /\ Deliver(Rest, items)
  BY DEF OpenInv, QueueInv, AppendOpen, At, Operation, web, world
<1>1. /\ 1 \in Q /\ o = phone.queue[1] /\ Is(1, "append") /\ OpenAt(1) = o.open /\ Captures(1)
      /\ ~Is(1, "capture")
      /\ o.open \in Opens /\ o.owner \in Accounts \cup {None} /\ Mentions(o) = {o.open}
      /\ Q = 1 .. Len(phone.queue)
  BY <1>0, HeadIs, OpFields DEF Is, OpenAt, Captures, Mentions
<1>2. TrueOwner(o) /\ o.open \in tapped
  BY <1>0, <1>1 DEF QueueInv, ItemsInv, CaptureInv
<1>3. last \in Nat
  <2>1. CASE pending = {}
    BY <2>1
  <2>2. CASE pending # {}
    <3>1. \E x \in pending : \A y \in pending : y.at <= x.at
      BY <1>0, <2>2, MostOf DEF DataTyped
    <3>2. top \in pending
      BY <3>1
    <3> QED
      BY <1>0, <2>2, <3>2 DEF DataTyped, Item
  <2> QED
    BY <2>1, <2>2
<1>4. new \in Item /\ new.open = o.open /\ new.owner = o.owner /\ TrueOwner(new)
  BY <1>1, <1>2, <1>3 DEF Item, TrueOwner
<1>5. Find(o.open) = {} <=> ~IsPending(o.open)
  BY DEF Find, IsPending
<1>6. DataTyped'
  <2>1. IsFiniteSet(pending \cup {new})
    BY <1>0, FS_AddElement DEF DataTyped
  <2>2. pending' \subseteq Item /\ IsFiniteSet(pending') /\ \A x \in pending' : x.open \in tapped
    BY <1>0, <1>2, <1>4, <2>1 DEF DataTyped
  <2> QED
    BY <1>0, <2>2 DEF DataTyped
<1>7. (\A x \in pending : TrueOwner(x)) /\ Distinct(pending)
  BY <1>0 DEF QueueInv, ItemsInv
<1>8. (\A x \in pending' : TrueOwner(x)) /\ Distinct(pending')
  <2>1. CASE Find(o.open) # {}
    BY <1>0, <1>7, <2>1
  <2>2. CASE Find(o.open) = {}
    <3>1. \A x \in pending : x.open # new.open
      BY <1>4, <1>5, <2>2 DEF IsPending
    <3>2. pending' = pending \cup {new}
      BY <1>0, <2>2
    <3>3. ASSUME NEW x \in pending', NEW y \in pending', x.open = y.open
          PROVE  x = y
      BY <1>7, <3>1, <3>2, <3>3 DEF Distinct
    <3>4. \A x \in pending' : TrueOwner(x)
      BY <1>4, <1>7, <3>2
    <3> QED
      BY <3>3, <3>4 DEF Distinct
  <2> QED
    BY <2>1, <2>2
<1>9. items \subseteq pending' /\ \A x \in items : x.open = o.open
  BY <1>0, <1>4 DEF Find
<1>10. items \in SUBSET Item /\ Distinct(items) /\ \A x \in items : TrueOwner(x) /\ x.open \in tapped
  BY <1>2, <1>6, <1>8, <1>9 DEF DataTyped, Distinct
<1>11. phone.generation \in Nat
  BY <1>0 DEF PhoneTyped
<1>12. Deliverable(items, phone.generation) \/ ~phone.connected
  <2>1. phone.generation <= phone.generation
    BY <1>11
  <2> QED
    BY <1>10, <1>11, <2>1 DEF Deliverable
<1>13. PICK N, e : /\ Delivered(items, phone.generation, N, e)
                   /\ N = {} \/ Deliverable(items, phone.generation)
  BY <1>0, <1>12, DeliverDoes
<1>14. \A j \in Q : Is(j, "remove") /\ OpenAt(j) = o.open =>
         o.open \in old \/ (IsPending(o.open) /\ \A x \in pending : x.open = o.open => x.owner # None)
  BY <1>0, <1>1 DEF QueueInv, RemovalInv
<1>15. \A x \in pending' : x.owner = None /\ x.open \notin old =>
           \/ \E y \in pending : y.open = x.open /\ y.owner = None
           \/ \A j \in Q : Is(j, "remove") => OpenAt(j) # x.open
  BY <1>0, <1>4, <1>5, <1>14
<1>16. \A x : IsPending(x) => Lingers(x)
  BY <1>0 DEF IsPending, Lingers
<1>17. Lingers(o.open) /\ \A x : Lingers(x) => IsPending(x) \/ x = o.open
  BY <1>0, <1>4 DEF IsPending, Lingers, Find
<1>18. \A i \in Q : i <= 1 /\ Captures(i) => Lingers(OpenAt(i))
  BY <1>1, <1>17
<1>19. \A i \in Q : i > 1 /\ Is(i, "capture") =>
           /\ \A x \in items : OpenAt(i) # x.open
           /\ ~IsPending(OpenAt(i)) => ~Lingers(OpenAt(i))
  <2>1. \A i \in Q : i > 1 /\ Is(i, "capture") => OpenAt(i) # o.open
    BY <1>0, <1>1 DEF CaptureInv
  <2> QED
    BY <1>9, <1>17, <2>1
<1>20. \A x \in items : Unowned(x) =>
                /\ Lingers(x.open)
                /\ \A j \in Q : Is(j, "remove") => OpenAt(j) # x.open
  BY <1>0, <1>5, <1>9, <1>14, <1>17 DEF Unowned, Find
<1> QED
  BY <1>0, <1>6, <1>8, <1>10, <1>13, <1>15, <1>16, <1>18, <1>19, <1>20, DeliverStep

LEMMA FlushKeeps == ASSUME OpenInv, Flush PROVE OpenInv'
<1> PICK items : items = {x \in pending : Kept(x)}
  OBVIOUS
<1>0. /\ PhoneTyped /\ DataTyped /\ QueueInv /\ CaptureInv /\ PageOK(page)
      /\ phone.queue # <<>> /\ Operation.kind = "flush"
      /\ UNCHANGED <<of, owners, cookie, records, reads, old, deleted, gone,
                     tapped, marked, events, disturbed>>
      /\ pending' = items /\ Deliver(Rest, items) /\ sdk' = ClearResponses(old)
  BY DEF OpenInv, QueueInv, Flush, At, Operation, web, world
<1>1. 1 \in Q /\ ~Captures(1) /\ ~Is(1, "capture") /\ Q = 1 .. Len(phone.queue)
  BY <1>0, HeadIs DEF Captures, Is
<1>2. items \subseteq pending /\ \A x \in pending : x.open \notin old => x \in items
  BY DEF Kept
<1>3. DataTyped'
  <2>1. IsFiniteSet(items)
    BY <1>0, <1>2, FS_Subset DEF DataTyped
  <2>2. sdk' \in {sdk, None}
    BY <1>0 DEF ClearResponses
  <2> QED
    BY <1>0, <1>2, <2>1, <2>2 DEF DataTyped
<1>4. (\A x \in pending' : TrueOwner(x)) /\ Distinct(pending')
  BY <1>0, <1>2 DEF QueueInv, ItemsInv, Distinct
<1>5. items \in SUBSET Item /\ \A x \in items : x.open \in tapped
  BY <1>0, <1>2 DEF DataTyped
<1>6. phone.generation \in Nat
  BY <1>0 DEF PhoneTyped
<1>7. Deliverable(items, phone.generation) \/ ~phone.connected
  BY <1>0, <1>4, <1>5, <1>6 DEF Deliverable
<1>8. PICK N, e : /\ Delivered(items, phone.generation, N, e)
                  /\ N = {} \/ Deliverable(items, phone.generation)
  BY <1>0, <1>7, DeliverDoes
<1>9. \A x : IsPending(x) /\ x \notin old => Lingers(x)
  BY <1>0, <1>2 DEF IsPending, Lingers
<1>10. \A x : Lingers(x) => IsPending(x)
  BY <1>0, <1>2 DEF IsPending, Lingers
<1>11. \A i \in Q : i > 1 /\ Is(i, "capture") =>
           /\ \A x \in items : OpenAt(i) # x.open
           /\ ~IsPending(OpenAt(i)) => ~Lingers(OpenAt(i))
  <2>1. \A i \in Q : i > 1 /\ Is(i, "capture") => ~IsPending(OpenAt(i))
    BY <1>0, <1>1 DEF CaptureInv
  <2> QED
    BY <1>2, <1>10, <2>1 DEF IsPending
<1>12. \A x \in items : Unowned(x) =>
                /\ Lingers(x.open)
                /\ \A j \in Q : Is(j, "remove") => OpenAt(j) # x.open
  BY <1>0, <1>2 DEF Unowned, Lingers, QueueInv, RemovalInv
<1>13. \A x \in Opens : sdk = x => sdk' = x \/ x \in old
  BY <1>0 DEF ClearResponses
<1>14. \A i \in Q : i <= 1 => ~Captures(i)
  BY <1>1
<1>15. \A x \in pending' : x.owner = None /\ x.open \notin old =>
           \/ \E y \in pending : y.open = x.open /\ y.owner = None
           \/ \A j \in Q : Is(j, "remove") => OpenAt(j) # x.open
  BY <1>0, <1>2
<1>16. \A x \in items : x.open \in tapped
  BY <1>5
<1>17. UNCHANGED <<of, owners, cookie, records, old, gone, tapped, disturbed>>
  BY <1>0
<1>18. cookie # None => \A x \in items : Unowned(x) =>
                /\ cookie = of[x.open] \/ Lingers(x.open) \/ Forever(of[x.open])
                /\ \A j \in Q : Is(j, "remove") /\ OpenAt(j) = x.open => cookie = of[x.open]
  BY <1>12
<1> QED
  BY <1>3, <1>4, <1>8, <1>9, <1>11, <1>13, <1>14, <1>15, <1>16, <1>17, <1>18, DeliverStep

(* An operation that ends what it does, and leaves the page alone.         *)
LEMMA RemoveOpenKeeps == ASSUME OpenInv, RemoveOpen PROVE OpenInv'
<1> PICK o : o = Operation.open
  OBVIOUS
<1> PICK e : e = page
  OBVIOUS
<1>0. /\ PhoneTyped /\ DataTyped /\ QueueInv /\ CaptureInv /\ PageOK(page) /\ DoneInv
      /\ phone.queue # <<>> /\ Operation.kind = "remove"
      /\ UNCHANGED <<of, sdk, owners, page, cookie, records, reads, old, deleted, gone,
                     tapped, marked, events, disturbed>>
      /\ pending' = {x \in pending : x.open # o} /\ phone' = Rest
  BY DEF OpenInv, QueueInv, RemoveOpen, At, Operation, web, world
<1>1. /\ 1 \in Q /\ ~Captures(1) /\ Is(1, "remove") /\ Acks(1) /\ OpenAt(1) = o
      /\ Q = 1 .. Len(phone.queue)
  BY <1>0, HeadIs DEF Captures, Is, Acks, OpenAt
<1>2. /\ PhoneTyped' /\ Shift(1, {}) /\ phone'.connected = phone.connected
      /\ phone'.generation = phone.generation /\ phone'.auth = phone.auth
  BY <1>0, PhoneTail
<1>3. DataTyped'
  <2>1. IsFiniteSet(pending') /\ pending' \subseteq pending
    BY <1>0, FS_Subset DEF DataTyped
  <2> QED
    BY <1>0, <2>1 DEF DataTyped
<1>4. (\A x \in pending' : TrueOwner(x)) /\ Distinct(pending') /\ \A x \in pending' : x \in pending
  BY <1>0 DEF QueueInv, ItemsInv, Distinct
<1>5. Excuse(o)
  BY <1>0, <1>1 DEF DoneInv, AckInv
<1>6. \A x : Lingers(x) <=> IsPending(x) /\ x # o
  BY <1>0 DEF IsPending, Lingers
<1>7. \A i, j \in Q : i > 1 /\ j > 1 /\ Is(i, "append") /\ Is(j, "remove") /\ OpenAt(i) = OpenAt(j)
           /\ IsPending(OpenAt(j)) /\ OpenAt(j) \notin old => Lingers(OpenAt(j))
  <2>1. \A i \in Q : Is(i, "append") /\ OpenAt(i) = o => i < 1
    BY <1>0, <1>1 DEF QueueInv, OrderInv
  <2> QED
    BY <1>1, <1>6, <2>1
<1>8. \A i \in Q : i > 1 /\ Asks(i) => \A x \in ItemsAt(i) :
           Unowned(x) /\ cookie # None /\ IsPending(x.open) =>
             cookie = of[x.open] \/ Lingers(x.open) \/ Forever(of[x.open])
  BY <1>0, <1>1, <1>6 DEF QueueInv, RemovedInv
<1>9. \A x \in tapped : IsPending(x) => Excuse(x) \/ Lingers(x)
  BY <1>5, <1>6
<1>10. \A i \in Q : i > 1 /\ Is(i, "capture") => OpenAt(i) \notin Names(e) /\
           (~IsPending(OpenAt(i)) => ~Lingers(OpenAt(i)))
  BY <1>0, <1>6 DEF CaptureInv
<1>11. page' = e /\ PageOK(e) /\ Same(page, e)
  BY <1>0 DEF Same
<1>12. \A i \in Q : i <= 1 => ~Captures(i)
  BY <1>1
<1> QED
  BY <1>0, <1>2, <1>3, <1>4, <1>7, <1>8, <1>9, <1>10, <1>11, <1>12, StorageStep

LEMMA LoadForAckKeeps == ASSUME OpenInv, LoadForAck PROVE OpenInv'
<1> PICK a : a = Operation
  OBVIOUS
<1> PICK o : o = a.open
  OBVIOUS
<1> PICK e : e = page
  OBVIOUS
<1> PICK op : op = [kind |-> "remove", open |-> o]
  OBVIOUS
<1>0. /\ PhoneTyped /\ DataTyped /\ QueueInv /\ CaptureInv /\ PageOK(page) /\ DoneInv /\ SessionInv
      /\ phone.queue # <<>> /\ a.kind = "ackLoad" /\ At("ackLoad")
      /\ UNCHANGED <<of, pending, owners, page, cookie, records, reads, old, deleted, gone,
                     tapped, marked, events, disturbed>>
  BY DEF OpenInv, QueueInv, LoadForAck, At, Operation, web, world, durable
<1>1. CASE ~(SameAuth(phone, a) /\ \E x \in Find(o) : x.owner = a.auth.user)
  <2>1. phone' = Rest /\ UNCHANGED <<sdk, durable, page, web, world, events, marked, disturbed>>
    BY <1>1 DEF LoadForAck
  <2> QED
    BY <1>0, <2>1, AckUndone
<1>2. CASE SameAuth(phone, a) /\ \E x \in Find(o) : x.owner = a.auth.user
  <2>0. phone' = Enqueue(Rest, op) /\ sdk' = ClearResponses({o})
    BY <1>2 DEF LoadForAck
  <2>1. /\ 1 \in Q /\ ~Captures(1) /\ Acks(1) /\ OpenAt(1) = o /\ a = phone.queue[1]
        /\ Q = 1 .. Len(phone.queue) /\ o \in Opens /\ a.auth \in LoggedIn
        /\ Mentions(a) = {o} /\ ~Is(1, "own")
    BY <1>0, HeadIs, OpFields DEF Captures, Is, Acks, OpenAt, Mentions
  <2>2. op \in StoreOp /\ op.kind = "remove" /\ op.open = o /\ Mentions(op) = {o}
    BY <2>1 DEF StoreOp, RemoveOp, Mentions
  <2>3. /\ PhoneTyped' /\ Shift(1, {op}) /\ phone'.connected = phone.connected
        /\ phone'.generation = phone.generation /\ phone'.auth = phone.auth
    BY <1>0, <2>0, <2>2, PhoneTail
  <2>4. DataTyped'
    <3>1. sdk' \in {sdk, None}
      BY <2>0 DEF ClearResponses
    <3> QED
      BY <1>0, <3>1 DEF DataTyped
  <2>5. PICK y \in pending : y.open = o /\ y.owner = a.auth.user
    BY <1>2 DEF Find
  <2>6. /\ a.auth.user \in Accounts /\ phone.auth = a.auth /\ phone.auth.user # None
        /\ phone.auth # None
    BY <1>2, <2>1, OpenAssumption DEF SameAuth, LoggedIn
  <2>7. y.owner # None /\ y.owner = of[o]
    BY <1>0, <2>5, <2>6 DEF QueueInv, ItemsInv, TrueOwner
  <2>8. cookie = of[o]
    <3>1. phone.auth = [user |-> page.user, epoch |-> page.epoch]
      BY <1>0, <2>6 DEF SessionInv
    <3> QED
      <4>0. phone.auth.user = page.user
        BY <3>1
      <4>1. page.user # None /\ page.user = of[o]
        BY <2>5, <2>6, <2>7, <4>0
      <4>2. page.user = cookie
        BY <1>0, <4>1 DEF SessionInv, PageOK
      <4> QED
        BY <4>1, <4>2
  <2>9. Excuse(o) /\ o \in tapped
    BY <1>0, <2>1 DEF DoneInv, AckInv, CaptureInv
  <2>10. \A x \in pending : x.open = o => x.owner # None
    BY <1>0, <2>5, <2>7 DEF QueueInv, ItemsInv, Distinct
  <2>11. \A x : IsPending(x) <=> Lingers(x)
    BY <1>0 DEF IsPending, Lingers
  <2>12. Lingers(o)
    BY <2>5, <2>11 DEF IsPending
  <2>13. (\A x \in pending' : TrueOwner(x)) /\ Distinct(pending')
    BY <1>0 DEF QueueInv, ItemsInv
  <2> PICK N : N = {op}
    OBVIOUS
  <2>14. /\ Shift(1, N)
         /\ \A n \in N : N = {n} /\ n.kind = "remove" /\ n.open = o /\ Mentions(n) = {o}
         /\ \A n \in N : n.kind \notin {"resolve", "own"} /\ n.kind \in {"resolve", "own", "remove"}
    BY <2>2, <2>3
  <2>15. \A i \in Q : i > 1 /\ Is(i, "capture") => OpenAt(i) # o /\ OpenAt(i) \notin Names(e)
    BY <1>0, <2>1 DEF CaptureInv
  <2>16. page' = e /\ PageOK(e) /\ Same(page, e)
    BY <1>0 DEF Same
  <2>17. \A i \in Q : i <= 1 => ~Captures(i)
    BY <2>1
  <2>18. \A x \in Opens : sdk = x => sdk' = x \/ Excuse(x)
    BY <2>0, <2>9 DEF ClearResponses
  <2> QED
    BY <1>0, <2>3, <2>4, <2>8, <2>9, <2>10, <2>11, <2>12, <2>13, <2>14, <2>15, <2>16, <2>17, <2>18,
       StorageStep
<1> QED
  BY <1>1, <1>2

LEMMA RemoveForUserKeeps == ASSUME OpenInv, RemoveForUser PROVE OpenInv'
<1> PICK u : u = Operation.user
  OBVIOUS
<1> PICK e : e = page
  OBVIOUS
<1> DEFINE Own(item) == item.owner = u \/ (of[item.open] = u /\ u \in owners)
<1> PICK removed : removed = {x.open : x \in {y \in pending : Own(y)}}
  OBVIOUS
<1>0. /\ PhoneTyped /\ DataTyped /\ QueueInv /\ CaptureInv /\ PageOK(page) /\ DoneInv
      /\ phone.queue # <<>> /\ Operation.kind = "withdrawal"
      /\ UNCHANGED <<of, page, cookie, records, reads, old, deleted, gone,
                     tapped, marked, events, disturbed>>
      /\ pending' = {x \in pending : ~Own(x)} /\ owners' = owners \ {u}
      /\ sdk' = ClearResponses(removed)
      /\ phone' = [Rest EXCEPT !.delivered = {d \in @ : d[1] \notin removed}]
  BY DEF OpenInv, QueueInv, RemoveForUser, At, Operation, web, world
<1>1. /\ 1 \in Q /\ ~Captures(1) /\ Is(1, "withdrawal") /\ UserAt(1) = u
      /\ Q = 1 .. Len(phone.queue) /\ u \in Accounts
  BY <1>0, HeadIs, OpFields DEF Captures, Is, UserAt
<1>2. u \in gone
  BY <1>0, <1>1 DEF QueueInv, OrderInv
<1>3. /\ phone'.queue = Tail(phone.queue) /\ phone'.connected = phone.connected
      /\ phone'.generation = phone.generation /\ phone'.auth = phone.auth
      /\ DOMAIN phone' = {"connected", "generation", "auth", "delivered", "queue"}
  BY <1>0, PhoneTail
<1>4. phone'.queue \in Seq(StoreOp) /\ Shift(1, {})
  BY <1>0, <1>3, Shifts
<1>5. PhoneTyped'
  BY <1>0, <1>3, <1>4 DEF PhoneTyped
<1>6. \A x \in pending : Own(x) => of[x.open] = u
  BY <1>0, <1>1, OpenAssumption DEF QueueInv, ItemsInv, TrueOwner
<1> HIDE DEF Own
<1>7. DataTyped'
  <2>1. pending' \subseteq pending
    BY <1>0
  <2>2. IsFiniteSet(pending')
    BY <1>0, <2>1, FS_Subset DEF DataTyped
  <2>3. sdk' \in {sdk, None}
    BY <1>0 DEF ClearResponses
  <2> QED
    BY <1>0, <2>1, <2>2, <2>3 DEF DataTyped
<1>8. (\A x \in pending' : TrueOwner(x)) /\ Distinct(pending') /\ \A x \in pending' : x \in pending
  BY <1>0 DEF QueueInv, ItemsInv, Distinct
<1>9. \A x : /\ Lingers(x) => IsPending(x)
             /\ IsPending(x) => Lingers(x) \/ of[x] = u
  BY <1>0, <1>6 DEF IsPending, Lingers
<1>10. \A i, j \in Q : i > 1 /\ j > 1 /\ Is(i, "append") /\ Is(j, "remove") /\ OpenAt(i) = OpenAt(j)
           /\ IsPending(OpenAt(j)) /\ OpenAt(j) \notin old => Lingers(OpenAt(j))
  <2>1. \A j \in Q : Is(j, "remove") /\ of[OpenAt(j)] = u => j < 1
    BY <1>0, <1>1 DEF QueueInv, OrderInv
  <2> QED
    BY <1>1, <1>9, <2>1
<1>11. Forever(u)
  <2>1. \A j \in Q : Is(j, "activated") /\ UserAt(j) = u => j < 1
    BY <1>0, <1>1 DEF QueueInv, OrderInv
  <2> QED
    BY <1>0, <1>1, <1>2, <2>1 DEF Forever
<1>12. \A i \in Q : i > 1 /\ Asks(i) => \A x \in ItemsAt(i) :
           Unowned(x) /\ cookie # None /\ IsPending(x.open) =>
             cookie = of[x.open] \/ Lingers(x.open) \/ Forever(of[x.open])
  BY <1>9, <1>11
<1>13. cookie = None \/ \A i \in Q : i > 1 => ~Is(i, "own")
  <2>1. cookie # None => \A i \in Q : Asks(i) => Is(i, "resolve")
    BY <1>0, <1>1 DEF QueueInv, AskOrder
  <2> QED
    BY <2>1 DEF Asks, Is
<1>14. \A x : of[x] = u => Excuse(x)
  BY <1>2 DEF Excuse
<1>15. \A x \in tapped : IsPending(x) => Excuse(x) \/ Lingers(x)
  BY <1>9, <1>14
<1>16. \A i \in Q : i > 1 /\ Is(i, "capture") => OpenAt(i) \notin Names(e) /\
           (~IsPending(OpenAt(i)) => ~Lingers(OpenAt(i)))
  BY <1>0, <1>9 DEF CaptureInv
<1>17. page' = e /\ PageOK(e) /\ Same(page, e)
  BY <1>0 DEF Same
<1>18. \A x \in Opens : sdk = x => sdk' = x \/ Excuse(x)
  BY <1>0, <1>6, <1>14 DEF ClearResponses
<1>19. \A i \in Q : i <= 1 => ~Captures(i)
  BY <1>1
<1>20. owners' \subseteq owners
  BY <1>0
<1> QED
  BY <1>0, <1>3, <1>4, <1>5, <1>7, <1>8, <1>10, <1>12, <1>13, <1>15, <1>16, <1>17, <1>18, <1>19,
     <1>20, StorageStep

(***************************************************************************)
(* The theorems.                                                           *)
(***************************************************************************)
LEMMA InitOK == Init => OpenInv
<1> SUFFICES ASSUME Init
             PROVE  OpenInv
  OBVIOUS
<1>1. phone.queue = <<>> /\ phone.connected = FALSE /\ phone.auth = None /\ phone.generation = 0
      /\ DOMAIN phone = {"connected", "generation", "auth", "delivered", "queue"}
  BY DEF Init, NewPhone
<1>2. PhoneTyped
  <2>1. phone.connected \in BOOLEAN
    BY <1>1, Zenon
  <2>2. phone.queue \in Seq(StoreOp) /\ phone.generation \in Nat
    BY <1>1
  <2> QED
    BY <1>1, <2>1, <2>2 DEF PhoneTyped
<1>3. Q = {}
  BY <1>1 DEF Q
<1>4. DataTyped
  BY OpenAssumption, FS_EmptySet DEF Init, DataTyped
<1>5. PageOK(page) /\ page.phase = "bootstrapping" /\ page.clearing = {}
  BY NewPageOK DEF Init, NewPage
<1>6. RecordInv
  BY DEF Init, RecordInv
<1>7. SessionInv
  BY <1>1, <1>5 DEF Init, SessionInv
<1>8. CaptureInv
  BY <1>3 DEF CaptureInv
<1>9. ItemsInv /\ OrderInv /\ AskOrder /\ RemovalInv /\ LostInv /\ AskedInv /\ RemovedInv
  BY <1>3 DEF Init, ItemsInv, Distinct, OrderInv, AskOrder, RemovalInv, LostInv, AskedInv, RemovedInv
<1>10. DoneInv
  BY <1>3 DEF Init, DoneInv, AckInv, MemoryInv, TapInv
<1> QED
  BY <1>2, <1>4, <1>5, <1>6, <1>7, <1>8, <1>9, <1>10 DEF OpenInv, QueueInv

LEMMA StutterKeeps == ASSUME OpenInv, UNCHANGED vars PROVE OpenInv'
<1>1. /\ UNCHANGED <<of, sdk, pending, owners, phone, page, cookie, records, reads, old, deleted, gone,
                     tapped, marked, events, disturbed>>
      /\ DataTyped /\ SessionInv /\ PhoneTyped
  BY DEF vars, OpenInv, QueueInv
<1>2. DataTyped' /\ SessionInv'
  BY <1>1 DEF DataTyped, SessionInv
<1>3. PhoneTyped' /\ Shift(0, {})
  BY <1>1, PhoneStays
<1>4. phone.generation \in Nat
  BY <1>1 DEF PhoneTyped
<1>5. \A i \in Q : i <= 0 /\ Captures(i) => disturbed'
  BY <1>1, Shifts
<1> QED
  BY <1>1, <1>2, <1>3, <1>4, <1>5, StaysKeeps

LEMMA NextOK == OpenInv /\ [Next]_vars => OpenInv'
<1> SUFFICES ASSUME OpenInv, [Next]_vars
             PROVE  OpenInv'
  OBVIOUS
<1>1. CASE Storage
  BY <1>1, ResolveCaptureKeeps, AppendOpenKeeps, ResolveOwnerKeeps, OwnDeliveredKeeps, FlushKeeps,
     RecordOwnerKeeps, RemoveForUserKeeps, LoadForAckKeeps, RemoveOpenKeeps DEF Storage
<1>2. CASE Task
  BY <1>2, ReadRecordKeeps, FetchKeeps, FetchTargetKeeps, NavigatedKeeps, CompleteKeeps DEF Task
<1>3. CASE Reads
  BY <1>3, PutReadKeeps, RemoveReadKeeps DEF Reads
<1>4. CASE Timer
  BY <1>4, TimerKeeps
<1>5. CASE Bridge
  BY <1>5, ConnectKeeps, BootKeeps, LeaveKeeps DEF Bridge
<1>6. CASE Activation \/ Clearing
  BY <1>6, ActivateKeeps, ClearUserKeeps DEF Activation, Clearing
<1>7. CASE User
  BY <1>7, TapKeeps, LogInKeeps, LogOutKeeps, WithdrawKeeps DEF User
<1>8. CASE Faults
  BY <1>8, StorageFailsKeeps, PutReadFailsKeeps, TaskFailsKeeps DEF Faults
<1>9. CASE World
  BY <1>9, ReloadKeeps, RestartKeeps, AgeKeeps, DeleteKeeps DEF World
<1>10. CASE UNCHANGED vars
  BY <1>10, StutterKeeps
<1> QED
  BY <1>1, <1>2, <1>3, <1>4, <1>5, <1>6, <1>7, <1>8, <1>9, <1>10 DEF Next

(* The inductive invariant of the opened notifications.                    *)
THEOREM OpenInvariance == Spec => []OpenInv
<1> QED
  BY InitOK, NextOK, PTL DEF Spec

(* Opens are of their type, and no account is shown, or has recorded, what *)
(* another account opened, unless it was dropped as too old meanwhile.     *)
THEOREM OpensSound == Spec => []OpensAreSound
<1>1. OpenInv => OpensAreSound
  <2> SUFFICES ASSUME OpenInv
               PROVE  OpensAreSound
    OBVIOUS
  <2>1. DataTyped /\ PageOK(page) /\ RecordInv /\ PageTyped(page)
    BY DEF OpenInv, PageOK
  <2>2. \A m \in page.pending : m.open \in tapped /\ m.epoch \in Nat
    BY <2>1 DEF PageOK, PageTyped, Names, Message
  <2>3. \A t \in page.tasks : t.user \in Accounts
    BY <2>1 DEF PageTyped, PageTask
  <2>4. TypeOK
    BY <2>1, <2>2, <2>3 DEF TypeOK, DataTyped, PageTyped, Item
  <2>5. OnlyTheOwner
    BY <2>1 DEF OnlyTheOwner, PageOK, RecordInv
  <2> QED
    BY <2>4, <2>5 DEF OpensAreSound
<1> QED
  BY OpenInvariance, <1>1, PTL

(* A tap is remembered until it is done, whatever is restarted meanwhile.  *)
THEOREM TapsRemembered == Spec => []TapNotForgotten
<1>1. OpenInv => TapNotForgotten
  BY DEF OpenInv, DoneInv, TapInv, TapNotForgotten, IsPending, Find, Excuse, Captures, OpenAt, Q
<1> QED
  BY OpenInvariance, <1>1, PTL

(* Records go only when those of a user are cleared, and the tasks stay.   *)
LEMMA RecordsStay ==
  ASSUME [Next]_vars, OpenInv
  PROVE  records \subseteq records' \/ page'.tasks = page.tasks
<1>1. CASE Clearing
  <2>1. PICK u : ClearUser(u)
    BY <1>1 DEF Clearing
  <2> QED
    BY <2>1 DEF ClearUser, OpenInv, PageOK, PageTyped
<1>2. CASE Storage
  BY <1>2 DEF Storage, ResolveCapture, AppendOpen, ResolveOwner, OwnDelivered, Flush, RecordOwner,
              RemoveForUser, LoadForAck, RemoveOpen, web
<1>3. CASE Task
  BY <1>3 DEF Task, ReadRecord, Fetch, FetchTarget, Navigated, Complete, Written, web
<1>4. CASE Reads \/ Timer
  BY <1>4 DEF Reads, PutRead, RemoveRead, Timer, web
<1>5. CASE Bridge
  BY <1>5 DEF Bridge, Connect, Boot, Leave, Replaced, Written, web
<1>6. CASE Activation \/ User \/ Faults
  BY <1>6 DEF Activation, Activate, User, Tap, LogIn, LogOut, Withdraw, Faults, StorageFails,
              PutReadFails, TaskFails, web
<1>7. CASE World
  BY <1>7 DEF World, Reload, Restart, Age, Delete, Replaced, Written, web
<1>8. CASE UNCHANGED vars
  BY <1>8 DEF vars
<1> QED
  BY <1>1, <1>2, <1>3, <1>4, <1>5, <1>6, <1>7, <1>8 DEF Next

(* What leaves the durable list is done, or given up for good.             *)
LEMMA DoneLeave ==
  ASSUME [Next]_vars, OpenInv, NEW x \in pending, \A y \in pending' : y.open # x.open
  PROVE  Excuse(x.open)
<1>0. /\ PhoneTyped /\ QueueInv /\ DoneInv /\ DataTyped
  BY DEF OpenInv, QueueInv
<1>1. pending' # pending
  OBVIOUS
<1>2. CASE AppendOpen
  BY <1>2 DEF AppendOpen
<1>3. CASE OwnDelivered
  <2>1. PICK it : pending' = SetOwner(it)
    BY <1>3 DEF OwnDelivered
  <2>2. \A y \in pending : (IF y.open = it THEN [y EXCEPT !.owner = of[it]] ELSE y).open = y.open
    BY <1>0 DEF DataTyped, Item
  <2> QED
    BY <2>1, <2>2 DEF SetOwner
<1>4. CASE Flush
  <2>1. x.open \in old
    BY <1>4 DEF Flush, Kept
  <2> QED
    BY <2>1 DEF Excuse
<1>5. CASE RemoveForUser
  <2> PICK u : u = Operation.user
    OBVIOUS
  <2>1. phone.queue # <<>> /\ Operation.kind = "withdrawal"
    BY <1>5 DEF RemoveForUser, At, Operation
  <2>2. 1 \in Q /\ Is(1, "withdrawal") /\ UserAt(1) = u /\ u \in Accounts
    BY <1>0, <2>1, HeadIs, OpFields DEF Is, UserAt
  <2>3. u \in gone
    BY <1>0, <2>2 DEF QueueInv, OrderInv
  <2>4. x.owner = u \/ of[x.open] = u
    BY <1>5 DEF RemoveForUser
  <2>5. of[x.open] = u
    BY <1>0, <2>2, <2>4, OpenAssumption DEF QueueInv, ItemsInv, TrueOwner
  <2> QED
    BY <2>3, <2>5 DEF Excuse
<1>6. CASE RemoveOpen
  <2>1. phone.queue # <<>> /\ Operation.kind = "remove"
    BY <1>6 DEF RemoveOpen, At, Operation
  <2>2. 1 \in Q /\ Acks(1) /\ OpenAt(1) = Operation.open
    BY <1>0, <2>1, HeadIs DEF Acks, OpenAt
  <2>3. x.open = Operation.open
    BY <1>6 DEF RemoveOpen
  <2> QED
    BY <1>0, <2>2, <2>3 DEF DoneInv, AckInv
<1>7. AppendOpen \/ OwnDelivered \/ Flush \/ RemoveForUser \/ RemoveOpen
  <2>1. CASE Storage
    BY <1>1, <2>1 DEF Storage, ResolveCapture, ResolveOwner, RecordOwner, LoadForAck, durable
  <2>2. CASE Task
    BY <1>1, <2>2 DEF Task, ReadRecord, Fetch, FetchTarget, Navigated, Complete, durable
  <2>3. CASE Reads \/ Timer
    BY <1>1, <2>3 DEF Reads, PutRead, RemoveRead, Timer, durable
  <2>4. CASE Bridge
    BY <1>1, <2>4 DEF Bridge, Connect, Boot, Leave, durable
  <2>5. CASE Activation \/ User \/ Faults \/ Clearing
    BY <1>1, <2>5 DEF Activation, Activate, User, Tap, LogIn, LogOut, Withdraw, Faults, StorageFails,
                PutReadFails, TaskFails, Clearing, ClearUser, durable
  <2>6. CASE World
    BY <1>1, <2>6 DEF World, Reload, Restart, Age, Delete, durable
  <2>7. CASE UNCHANGED vars
    BY <1>1, <2>7 DEF vars
  <2> QED
    BY <2>1, <2>2, <2>3, <2>4, <2>5, <2>6, <2>7 DEF Next
<1> QED
  BY <1>2, <1>3, <1>4, <1>5, <1>6, <1>7

(* What is done is not shown again, and an open leaves the durable list    *)
(* only once it is done or given up for good.                              *)
THEOREM DoneStaysDone == Spec => DoneIsDone
<1>1. ASSUME OpenInv, OpenInv', [Next]_vars, NEW t \in page'.tasks \ page.tasks, t.step = "navigate"
      PROVE  ~\E r \in records : r.user = t.user /\ r.open = t.open
  <2>1. ~Recorded(t)'
    BY <1>1 DEF OpenInv, PageOK
  <2>2. records \subseteq records'
    BY <1>1, RecordsStay
  <2> QED
    BY <2>1, <2>2 DEF Recorded
<1>2. ASSUME OpenInv, [Next]_vars, NEW x \in pending, \A y \in pending' : y.open # x.open
      PROVE  \/ \E r \in records : r.open = x.open
             \/ of[x.open] \in gone \/ x.open \in old
  BY <1>2, DoneLeave DEF Excuse
<1> DEFINE Shown == \A t \in page'.tasks \ page.tasks :
              t.step = "navigate" => ~\E r \in records : r.user = t.user /\ r.open = t.open
           Left == \A x \in pending :
              (\A y \in pending' : y.open # x.open) =>
                \/ \E r \in records : r.open = x.open
                \/ of[x.open] \in gone \/ x.open \in old
<1>3. OpenInv /\ OpenInv' /\ [Next]_vars => Shown
  BY <1>1
<1>4. OpenInv /\ [Next]_vars => Left
  BY <1>2
<1>5. Spec => [][Shown]_vars /\ [][Left]_vars
  <2> HIDE DEF Shown, Left
  <2> QED
    BY OpenInvariance, <1>3, <1>4, PTL DEF Spec
<1> QED
  BY <1>5 DEF DoneIsDone, NotShownAgain, RemovedWhenDone

=============================================================================
