------------------------ MODULE BrowserSession_proofs ------------------------
(***************************************************************************)
(* Proofs of the safety of BrowserSession for any number of tabs, accounts,*)
(* sessions and events: a tab holds one identity, the end of a session     *)
(* leaves nothing on its page, no token outlives its identity, and a       *)
(* browser with locks never brings a used token back.                      *)
(***************************************************************************)
EXTENDS BrowserSession, SequenceTheorems, TLAPS

USE BrowserAssumption, ValuesAssumption

Boot == {"bootstrapping", "bootstrap-error"}
Leaving == {"logoutNative", "logoutPost", "withdrawNative"}

---------------------------------------------------------------------------
(* What holds of one document, whatever the rest of the browser does       *)

(* A refresh is waited for only under an identity that may refresh.        *)
RefreshIsAllowed(d) ==
  d.refresh # None => d.refresh <= d.epoch /\ (d.refresh = d.epoch => d.allowed)

(* A request that can still go on belongs to the present identity, and a   *)
(* request that was sent under it was sent with its token.                 *)
RequestsAreCurrent(d) == \A k \in Kinds :
  /\ d.requests[k].epoch <= d.epoch
  /\ d.requests[k].step = "refreshing" => d.allowed /\ d.requests[k].epoch = d.epoch
  /\ d.requests[k].step = "ready" => d.vault # None /\ d.requests[k].epoch = d.epoch
  /\ d.requests[k].step = "answered" /\ d.requests[k].epoch = d.epoch => d.vault # None

(* A flow belongs to a phase; one that drops the identity has dropped it.  *)
FlowFits(d) ==
  /\ d.flow \in {"bootRefresh", "bootLoad"} => d.phase = "bootstrapping"
  /\ d.flow \in {"loginPost", "loginLoad", "recoverRefresh"} => d.phase = "anonymous"
  /\ d.flow \in Leaving \cup {"loginPost"} => d.vault = None /\ ~d.allowed
  /\ d.flow \in Leaving /\ d.phase = "authenticated" => d.since = d.epoch

(* Outside a session only the load of the user is under way.               *)
RequestsFit(d) ==
  /\ d.requests["nickname"].step # "paused"
  /\ d.phase \in Boot => d.allowed /\ d.requests["withdraw"].step = "idle"
  /\ d.phase # "authenticated" /\ d.requests["nickname"].step # "idle" =>
       d.requests["nickname"].step = "answered" /\ d.requests["nickname"].epoch < d.epoch
  /\ d.phase = "anonymous" /\ d.requests["me"].step # "idle" =>
       \/ d.flow = "loginLoad"
       \/ /\ d.flow = "withdrawNative" /\ d.since = d.epoch
          /\ d.requests["me"].step \in {"answered", "paused"} /\ d.requests["me"].epoch < d.epoch

(* EndedMeansEmpty and TokenNeedsLogin of one document.                    *)
EmptyOrOwned(d) ==
  /\ d.user # None => d.vault # None
  /\ d.phase = "anonymous" => d.user = None /\ d.me = None
  /\ d.phase = "authenticated" /\ d.user = None => d.flow \in Leaving
  /\ d.vault # None /\ ~d.allowed =>
       d.phase = "anonymous" /\ (d.flow = "loginLoad" \/ d.loginError)

Doc(d) ==
  /\ d \in Document
  /\ RefreshIsAllowed(d) /\ RequestsAreCurrent(d)
  /\ FlowFits(d) /\ RequestsFit(d) /\ EmptyOrOwned(d)

(* The user, the cached user and what was answered are the token's.        *)
Own(d) ==
  /\ d.user # None => d.user = d.vault.user /\ d.me \in {d.user, None}
  /\ \A k \in Kinds :
       d.requests[k].step = "answered" /\ d.requests[k].epoch = d.epoch
         /\ d.requests[k].answer \in Accounts => d.requests[k].answer = d.vault.user

(* What a document's own operations keep: the account of its token, its    *)
(* permission to refresh while the epoch stays, a session request's flow.  *)
Follows(d, e) ==
  /\ e.vault # None => d.vault # None /\ e.vault.user = d.vault.user
  /\ \/ e.epoch = d.epoch /\ e.allowed = d.allowed
     \/ e.epoch > d.epoch
  /\ d.flow \in {"loginPost", "logoutPost"} => e.flow = d.flow

---------------------------------------------------------------------------
(* The inductive invariant                                                 *)

Tokens == [session : Nat \ {0}, number : Nat]
Wires == {Idle} \cup [step : {"sent", "served"}, epoch : Nat, token : Tokens \cup {None}]
Posts ==
  {Idle} \cup [step : {"sent"}, kind : {"login", "signUp"}, account : Accounts]
         \cup [step : {"sent"}, kind : {"logout"}, token : Tokens \cup {None}]
         \cup [step : {"served"}, kind : {"login", "signUp"}, token : Tokens]
         \cup [step : {"served"}, kind : {"refused"}, token : Tokens \cup {None}]
         \cup [step : {"served"}, kind : {"logout"}, token : {None}]
Session == [user : Accounts, number : Nat, live : BOOLEAN]

ServerTypes ==
  /\ sessions \in Seq(Session)
  /\ withdrawn \in [Accounts -> Tabs \cup {None}] /\ cookie \in Tokens \cup {None}
  /\ wire \in [Tabs -> Wires] /\ post \in [Tabs -> Posts]
  /\ news \subseteq Tabs /\ foreign \subseteq Tabs
  /\ events \in 0..MaxEvents /\ lost \in BOOLEAN /\ reused \in BOOLEAN

(* A token in the browser is of a session that was opened.                 *)
Opened(token) == token # None => token.session \in 1..Len(sessions)
NewToken(t) == post[t] # Idle /\ post[t].step = "served" /\ post[t].kind \in {"login", "signUp"}
TokensAreOpened ==
  /\ Opened(cookie)
  /\ \A t \in Tabs : wire[t] # Idle => Opened(wire[t].token)
  /\ \A t \in Tabs : NewToken(t) => Opened(post[t].token)

Documents ==
  /\ doc \in [Tabs -> Document]
  /\ \A t \in Tabs : Doc(doc[t])
  /\ \A t \in Tabs \ foreign : Own(doc[t])

(* What is in flight fits the document that sent it.                       *)
FlightsFit == \A t \in Tabs :
  /\ wire[t] # Idle => /\ wire[t].epoch <= doc[t].epoch
                       /\ wire[t].epoch = doc[t].epoch => doc[t].allowed
  /\ post[t] # Idle => IF post[t].kind = "logout" THEN doc[t].flow = "logoutPost"
                       ELSE doc[t].flow = "loginPost"

(* The cookie, and a refresh under the present identity, are of the        *)
(* token's account, until an answer puts another's into the browser.       *)
CookieIsOwn == \A t \in Tabs \ foreign :
  doc[t].vault # None =>
    /\ cookie # None => UserOf(cookie) = doc[t].vault.user
    /\ wire[t] # Idle /\ wire[t].epoch = doc[t].epoch /\ wire[t].token # None =>
         UserOf(wire[t].token) = doc[t].vault.user

Current(token) == token # None => token.number = sessions[token.session].number
Replacing(t) == wire[t] # Idle /\ wire[t].step = "served" /\ wire[t].token # None

(* With locks there is one refresh at a time.  Unless an answer was lost,  *)
(* every token in the browser is its session's current one, but for the    *)
(* cookie that an answer is about to replace; and a log-in's token is of a *)
(* session of its own.                                                     *)
OneRefresh == \A t, u \in Tabs : wire[t] # Idle /\ wire[u] # Idle => t = u
TokensAreCurrent ==
  /\ \A t \in Tabs : wire[t] # Idle => Current(wire[t].token)
  /\ \A t \in Tabs : NewToken(t) => Current(post[t].token)
  /\ Current(cookie) \/ \E t \in Tabs : Replacing(t) /\ wire[t].token.session = cookie.session
NewSessionsAreNew == \A t \in Tabs : NewToken(t) =>
  /\ cookie # None => cookie.session # post[t].token.session
  /\ \A u \in Tabs : wire[u] # Idle /\ wire[u].token # None =>
       wire[u].token.session # post[t].token.session
  /\ \A u \in Tabs \ {t} : NewToken(u) => post[u].token.session # post[t].token.session

Rotation == HasLocks =>
  OneRefresh /\ ~reused /\ (~lost => TokensAreCurrent /\ NewSessionsAreNew)

IInv == ServerTypes /\ TokensAreOpened /\ Documents /\ FlightsFit /\ CookieIsOwn /\ Rotation

---------------------------------------------------------------------------
(* The document's operations                                               *)

(* A document that nothing but its flow, its phase or its error changes.   *)
LEMMA NewDocumentIsSound == Doc(NewDocument) /\ Own(NewDocument)
  BY DEF Doc, Own, NewDocument, NoRequest, Document, RequestState, Flows, Loading, Kinds, RefreshIsAllowed,
         RequestsAreCurrent, FlowFits, RequestsFit, EmptyOrOwned, Leaving, Boot

LEMMA RequestsTyped ==
  ASSUME NEW d, d \in Document
  PROVE  /\ d.requests \in [Kinds -> RequestState]
         /\ \A k \in Kinds : d.requests[k] \in RequestState
         /\ d.epoch \in Nat
  BY DEF Document

LEMMA FieldsTyped ==
  ASSUME NEW d, d \in Document
  PROVE  /\ d.user \in Accounts \cup {None} /\ d.me \in Accounts \cup {None} /\ d.allowed \in BOOLEAN
         /\ d.phase \in {"bootstrapping", "bootstrap-error", "authenticated", "anonymous"}
         /\ d.vault \in [user : Accounts, fresh : BOOLEAN] \cup {None} /\ d.flow \in Flows
         /\ d.since \in Nat /\ d.refresh \in Nat \cup {None} /\ d.loginError \in BOOLEAN
  BY DEF Document

LEMMA AbandonedTyped ==
  ASSUME NEW requests \in [Kinds -> RequestState]
  PROVE  Abandoned(requests) \in [Kinds -> RequestState]
  BY DEF Abandoned, RequestState, NoRequest

(* The end of a session.                                                   *)
LEMMA EndKeeps ==
  ASSUME NEW d, Doc(d)
  PROVE  /\ Doc(EndLocalSession(d)) /\ Own(EndLocalSession(d))
         /\ Follows(d, EndLocalSession(d))
<1> DEFINE e == EndLocalSession(d)
<1>1. e \in Document
  <2> DEFINE r == [Abandoned(d.requests) EXCEPT !["me"] = NoRequest]
  <2>1. NoRequest \in RequestState
    BY DEF NoRequest, RequestState
  <2>2. r \in [Kinds -> RequestState]
    BY <2>1, RequestsTyped, AbandonedTyped DEF Doc
  <2>3. e = [d EXCEPT !.epoch = d.epoch + 1, !.user = None, !.allowed = FALSE, !.requests = r,
                      !.vault = None, !.phase = "anonymous", !.me = None,
                      !.flow = IF d.flow \in Loading THEN "none" ELSE d.flow]
    BY DEF Doc, Document, EndLocalSession, AdvanceAuthContext
  <2> HIDE DEF r
  <2>4. (IF d.flow \in Loading THEN "none" ELSE d.flow) \in Flows /\ d.epoch + 1 \in Nat
    BY FieldsTyped, RequestsTyped DEF Doc, Flows
  <2> QED
    BY <2>2, <2>3, <2>4, ZenonT(30) DEF Doc, Document
<1>2. /\ e.epoch = d.epoch + 1 /\ e.user = None /\ e.allowed = FALSE /\ e.vault = None
      /\ e.phase = "anonymous" /\ e.me = None /\ e.refresh = d.refresh
      /\ e.flow = (IF d.flow \in Loading THEN "none" ELSE d.flow)
  BY DEF Doc, Document, EndLocalSession, AdvanceAuthContext
<1>3. \A k \in Kinds : e.requests[k] = IF k = "me" \/ d.requests[k].step \in {"refreshing", "ready"}
                                        THEN NoRequest ELSE d.requests[k]
  BY RequestsTyped DEF Doc, Document, EndLocalSession, AdvanceAuthContext, Abandoned, Kinds
<1>4. RefreshIsAllowed(e)
  BY <1>1, <1>2 DEF Doc, Document, RefreshIsAllowed
<1>5. RequestsAreCurrent(e) /\ RequestsFit(e)
  BY <1>1, <1>2, <1>3, RequestsTyped DEF Doc, RequestState, RequestsAreCurrent, RequestsFit, NoRequest, Kinds, Boot
<1>6. FlowFits(e) /\ EmptyOrOwned(e)
  BY <1>2 DEF Doc, FlowFits, EmptyOrOwned, Leaving, Loading
<1>7. Own(e)
  BY <1>2, <1>3, RequestsTyped DEF Doc, Own, RequestsAreCurrent, NoRequest, RequestState
<1>8. Follows(d, e)
  BY <1>2, RequestsTyped DEF Doc, Follows, Loading
<1> QED
  BY <1>1, <1>4, <1>5, <1>6, <1>7, <1>8 DEF Doc

(* What two documents that differ in a request, and perhaps in what is     *)
(* waited for, have in common.                                             *)
SameBut(d, e, k) ==
  /\ e \in Document
  /\ e.epoch = d.epoch /\ e.user = d.user /\ e.allowed = d.allowed /\ e.phase = d.phase
  /\ e.vault = d.vault /\ e.me = d.me /\ e.flow = d.flow /\ e.since = d.since
  /\ e.loginError = d.loginError
  /\ \A j \in Kinds \ {k} : e.requests[j] = d.requests[j]

LEMMA SetRequest ==
  ASSUME NEW d, d \in Document, NEW k \in Kinds, NEW r \in RequestState
  PROVE  /\ SameBut(d, [d EXCEPT !.requests[k] = r], k)
         /\ [d EXCEPT !.requests[k] = r].requests[k] = r
         /\ [d EXCEPT !.requests[k] = r].refresh = d.refresh
<1>1. [d.requests EXCEPT ![k] = r] \in [Kinds -> RequestState]
  BY RequestsTyped
<1>2. [d EXCEPT !.requests[k] = r] = [d EXCEPT !.requests = [d.requests EXCEPT ![k] = r]]
  BY DEF Document
<1>3. /\ [d EXCEPT !.requests = [d.requests EXCEPT ![k] = r]] \in Document
      /\ [d EXCEPT !.requests = [d.requests EXCEPT ![k] = r]].requests = [d.requests EXCEPT ![k] = r]
  BY <1>1 DEF Document
<1> QED
  BY <1>1, <1>2, <1>3, RequestsTyped DEF Document, SameBut

LEMMA RequestedEffect ==
  ASSUME NEW d, d \in Document, NEW k \in Kinds
  PROVE  /\ SameBut(d, Requested(d, k), k)
         /\ Requested(d, k).requests[k].epoch = d.epoch
         /\ IF ShouldRefreshAccessToken(d)
            THEN Requested(d, k).requests[k].step = "refreshing" /\ Requested(d, k).refresh = d.epoch
            ELSE Requested(d, k).requests[k].step = "ready" /\ Requested(d, k).refresh = d.refresh
<1> DEFINE request == [NoRequest EXCEPT !.epoch = d.epoch, !.again = (d.requests[k].step = "paused")]
           waiting == [request EXCEPT !.step = "refreshing"]
           ready == [request EXCEPT !.step = "ready"]
           asked == [d EXCEPT !.refresh = d.epoch]
<1>1. waiting \in RequestState /\ ready \in RequestState
  BY RequestsTyped DEF NoRequest, RequestState
<1>2. waiting.epoch = d.epoch /\ waiting.step = "refreshing" /\ ready.epoch = d.epoch /\ ready.step = "ready"
  BY DEF NoRequest
<1>3. asked \in Document /\ SameBut(d, asked, k) /\ asked.refresh = d.epoch
  BY RequestsTyped DEF Document, SameBut
<1>4. Requested(d, k) = IF ShouldRefreshAccessToken(d) THEN [asked EXCEPT !.requests[k] = waiting]
                        ELSE [d EXCEPT !.requests[k] = ready]
  BY DEF Requested, Document
<1> HIDE DEF waiting, ready, asked
<1>5. CASE ShouldRefreshAccessToken(d)
  BY <1>1, <1>2, <1>3, <1>4, <1>5, SetRequest DEF SameBut
<1>6. CASE ~ShouldRefreshAccessToken(d)
  BY <1>1, <1>2, <1>4, <1>6, SetRequest
<1> QED
  BY <1>5, <1>6

(* A request that the interceptor lets pass.                               *)
LEMMA RequestedKeeps ==
  ASSUME NEW d, Doc(d), NEW k \in Kinds, CanRequest(d),
         d.phase = "authenticated"
           \/ (k = "withdraw" /\ d.requests[k].step # "idle")
           \/ (k = "me" /\ (d.phase = "anonymous" => d.flow = "loginLoad"))
  PROVE  /\ Doc(Requested(d, k)) /\ (Own(d) => Own(Requested(d, k)))
         /\ Follows(d, Requested(d, k))
<1> DEFINE e == Requested(d, k)
<1>1. SameBut(d, e, k)
  BY RequestedEffect DEF Doc
<1>2. e.requests[k].epoch = d.epoch /\ e.requests[k].step \in {"refreshing", "ready"}
  BY RequestedEffect DEF Doc
<1>3. /\ e.requests[k].step = "refreshing" => d.allowed
      /\ e.requests[k].step = "ready" => d.vault # None
      /\ e.refresh = d.refresh \/ (e.refresh = d.epoch /\ d.allowed)
  BY RequestedEffect DEF Doc, CanRequest, ShouldRefreshAccessToken
<1> HIDE DEF e
<1>4. RefreshIsAllowed(e)
  BY <1>1, <1>3, RequestsTyped DEF SameBut, Doc, RefreshIsAllowed
<1>5. RequestsAreCurrent(e)
  BY <1>1, <1>2, <1>3, RequestsTyped DEF SameBut, Doc, RequestsAreCurrent
<1>6. RequestsFit(e)
  BY <1>1, <1>2, <1>3, RequestsTyped DEF SameBut, Doc, RequestsFit, Kinds, Boot
<1>7. FlowFits(e) /\ EmptyOrOwned(e) /\ Follows(d, e)
  BY <1>1 DEF SameBut, Doc, FlowFits, EmptyOrOwned, Follows
<1>8. Own(d) => Own(e)
  BY <1>1, <1>2, RequestsTyped DEF SameBut, Doc, Own
<1> QED
  BY <1>1, <1>4, <1>5, <1>6, <1>7, <1>8 DEF Doc, SameBut, e

(* The load of the user at the end of a log-in or a bootstrap.             *)
LEMMA LoadKeeps ==
  ASSUME NEW d, Doc(d), NEW flow \in {"bootLoad", "loginLoad"},
         flow = "bootLoad" => d.phase = "bootstrapping" /\ CanRequest(d),
         flow = "loginLoad" => d.phase = "anonymous",
         d.flow \in {"none", "bootRefresh", "recoverRefresh"},
         CanRequest(d) \/ d.requests["me"].step = "idle",
         d.vault # None /\ ~d.allowed => d.loginError
  PROVE  /\ Doc(Load(d, flow)) /\ (Own(d) => Own(Load(d, flow)))
         /\ Follows(d, Load(d, flow))
<1> DEFINE e == Load(d, flow)
<1>1. CASE CanRequest(d)
  <2> DEFINE q == Requested(d, "me")
  <2>1. SameBut(d, q, "me") /\ "me" \in Kinds
    BY RequestedEffect DEF Doc, Kinds
  <2>2. q.requests["me"].epoch = d.epoch /\ q.requests["me"].step \in {"refreshing", "ready"}
    BY RequestedEffect, <2>1 DEF Doc
  <2>3. /\ q.requests["me"].step = "refreshing" => d.allowed
        /\ q.requests["me"].step = "ready" => d.vault # None
        /\ q.refresh = d.refresh \/ (q.refresh = d.epoch /\ d.allowed)
    BY RequestedEffect, <1>1, <2>1 DEF Doc, CanRequest, ShouldRefreshAccessToken
  <2>4. e = [q EXCEPT !.flow = flow, !.since = d.epoch]
    BY <1>1 DEF Load
  <2> HIDE DEF q
  <2>5. /\ e \in Document /\ e.requests = q.requests /\ e.refresh = q.refresh
        /\ e.flow = flow /\ e.since = d.epoch
        /\ e.epoch = d.epoch /\ e.user = d.user /\ e.allowed = d.allowed /\ e.phase = d.phase
        /\ e.vault = d.vault /\ e.me = d.me /\ e.loginError = d.loginError
    <3>1. q \in Document /\ d.epoch \in Nat /\ flow \in Flows
      BY <2>1, RequestsTyped DEF SameBut, Doc, Flows, Loading
    <3>2. /\ e \in Document /\ e.requests = q.requests /\ e.refresh = q.refresh
          /\ e.flow = flow /\ e.since = d.epoch
          /\ e.epoch = q.epoch /\ e.user = q.user /\ e.allowed = q.allowed /\ e.phase = q.phase
          /\ e.vault = q.vault /\ e.me = q.me /\ e.loginError = q.loginError
      BY <2>4, <3>1 DEF Document
    <3> QED
      BY <2>1, <3>2 DEF SameBut
  <2>6. \A j \in Kinds \ {"me"} : e.requests[j] = d.requests[j]
    BY <2>1, <2>5 DEF SameBut
  <2> HIDE DEF e
  <2>7. RefreshIsAllowed(e) /\ RequestsAreCurrent(e)
    BY <2>1, <2>2, <2>3, <2>5, <2>6, RequestsTyped DEF Doc, RefreshIsAllowed, RequestsAreCurrent
  <2>8. RequestsFit(e)
    BY <2>1, <2>2, <2>5, <2>6, RequestsTyped DEF Doc, RequestsFit, Kinds, Boot
  <2>9. FlowFits(e) /\ EmptyOrOwned(e) /\ Follows(d, e)
    BY <2>5 DEF Doc, FlowFits, EmptyOrOwned, Follows, Leaving
  <2>10. Own(d) => Own(e)
    BY <2>1, <2>2, <2>5, <2>6, RequestsTyped DEF Doc, Own
  <2> QED
    BY <2>5, <2>7, <2>8, <2>9, <2>10 DEF Doc, e
<1>2. CASE ~CanRequest(d)
  <2>1. e = [d EXCEPT !.flow = "none"]
    BY <1>2 DEF Load
  <2>2. /\ e \in Document /\ e.requests = d.requests /\ e.refresh = d.refresh
        /\ e.flow = "none" /\ e.since = d.since
        /\ e.epoch = d.epoch /\ e.user = d.user /\ e.allowed = d.allowed /\ e.phase = d.phase
        /\ e.vault = d.vault /\ e.me = d.me /\ e.loginError = d.loginError
    BY <2>1 DEF Doc, Document, Flows
  <2> HIDE DEF e
  <2>3. RefreshIsAllowed(e) /\ RequestsAreCurrent(e) /\ Own(d) => Own(e)
    BY <2>2 DEF Doc, RefreshIsAllowed, RequestsAreCurrent, Own
  <2>4. RequestsFit(e) /\ FlowFits(e) /\ EmptyOrOwned(e) /\ Follows(d, e)
    BY <1>2, <2>2 DEF Doc, RequestsFit, FlowFits, EmptyOrOwned, Follows, Leaving, CanRequest
  <2> QED
    BY <2>2, <2>3, <2>4 DEF Doc, RefreshIsAllowed, RequestsAreCurrent, Own, e
<1> QED
  BY <1>1, <1>2

(* A request fails, or is to be tried once more.                           *)
LEMMA FailedKeeps ==
  ASSUME NEW d, Doc(d), NEW k \in Kinds, NEW code, d.requests[k].step # "idle"
  PROVE  /\ Doc(Failed(d, k, code)) /\ (Own(d) => Own(Failed(d, k, code)))
         /\ Follows(d, Failed(d, k, code))
<1> DEFINE idle == [d EXCEPT !.requests[k] = NoRequest]
           pause == [NoRequest EXCEPT !.step = "paused"]
           paused == [d EXCEPT !.requests[k] = pause]
<1>1. NoRequest \in RequestState /\ pause \in RequestState /\ pause.epoch = 0 /\ pause.step = "paused"
      /\ NoRequest.step = "idle" /\ NoRequest.epoch = 0
  BY DEF NoRequest, RequestState
<1>2. SameBut(d, idle, k) /\ idle.requests[k] = NoRequest /\ idle.refresh = d.refresh
  BY <1>1, SetRequest DEF Doc
<1>3. SameBut(d, paused, k) /\ paused.requests[k] = pause /\ paused.refresh = d.refresh
  BY <1>1, SetRequest DEF Doc
<1>4. Failed(d, k, code) =
        IF code = "error" /\ k # "nickname" /\ ~d.requests[k].again THEN paused
        ELSE IF k # "me" \/ d.flow \notin {"bootLoad", "loginLoad"} THEN idle
        ELSE IF code = "AUTH_005" THEN EndLocalSession(idle)
        ELSE IF d.flow = "bootLoad"
             THEN [idle EXCEPT !.flow = "none", !.phase = "bootstrap-error"]
             ELSE [idle EXCEPT !.flow = "none", !.loginError = TRUE]
  BY DEF Failed
<1> HIDE DEF idle, pause, paused
<1>5. /\ Doc(idle) /\ (Own(d) => Own(idle)) /\ Follows(d, idle)
  <2>1. RefreshIsAllowed(idle) /\ RequestsAreCurrent(idle)
    BY <1>1, <1>2, RequestsTyped DEF SameBut, Doc, RefreshIsAllowed, RequestsAreCurrent
  <2>2. RequestsFit(idle)
    BY <1>1, <1>2, RequestsTyped DEF SameBut, Doc, RequestsFit, Kinds
  <2>3. FlowFits(idle) /\ EmptyOrOwned(idle) /\ Follows(d, idle)
    BY <1>2, RequestsTyped DEF SameBut, Doc, FlowFits, EmptyOrOwned, Follows
  <2>4. Own(d) => Own(idle)
    BY <1>1, <1>2 DEF SameBut, Own
  <2> QED
    BY <1>2, <2>1, <2>2, <2>3, <2>4 DEF Doc, SameBut
<1>6. k # "nickname" => Doc(paused) /\ (Own(d) => Own(paused)) /\ Follows(d, paused)
  <2>1. RefreshIsAllowed(paused) /\ RequestsAreCurrent(paused)
    BY <1>1, <1>3, RequestsTyped DEF SameBut, Doc, RefreshIsAllowed, RequestsAreCurrent
  <2>2. k # "nickname" => RequestsFit(paused)
    BY <1>1, <1>3, RequestsTyped DEF SameBut, Doc, RequestsFit, Kinds, Boot, RequestState
  <2>3. FlowFits(paused) /\ EmptyOrOwned(paused) /\ Follows(d, paused)
    BY <1>3, RequestsTyped DEF SameBut, Doc, FlowFits, EmptyOrOwned, Follows
  <2>4. Own(d) => Own(paused)
    BY <1>1, <1>3 DEF SameBut, Own
  <2> QED
    BY <1>3, <2>1, <2>2, <2>3, <2>4 DEF Doc, SameBut
<1>7. Doc(EndLocalSession(idle)) /\ Own(EndLocalSession(idle)) /\ Follows(idle, EndLocalSession(idle))
  BY <1>5, EndKeeps
<1>8. CASE k = "me" /\ d.flow = "bootLoad"
  <2> DEFINE e == [idle EXCEPT !.flow = "none", !.phase = "bootstrap-error"]
  <2>1. /\ e \in Document /\ e.requests = idle.requests /\ e.refresh = d.refresh
        /\ e.flow = "none" /\ e.phase = "bootstrap-error" /\ e.since = d.since
        /\ e.epoch = d.epoch /\ e.user = d.user /\ e.allowed = d.allowed
        /\ e.vault = d.vault /\ e.me = d.me /\ e.loginError = d.loginError
    BY <1>2 DEF SameBut, Document, Flows
  <2> HIDE DEF e
  <2>2. RefreshIsAllowed(e) /\ RequestsAreCurrent(e) /\ (Own(d) => Own(e))
    BY <1>5, <1>2, <2>1 DEF SameBut, Doc, RefreshIsAllowed, RequestsAreCurrent, Own
  <2>3. RequestsFit(e) /\ FlowFits(e) /\ EmptyOrOwned(e) /\ Follows(d, e)
    BY <1>5, <1>2, <1>8, <2>1 DEF SameBut, Doc, RequestsFit, FlowFits, EmptyOrOwned, Follows, Boot, Leaving
  <2>4. Doc(e)
    BY <2>1, <2>2, <2>3 DEF Doc
  <2> QED
    BY <1>2, <1>4, <1>5, <1>6, <1>7, <1>8, <2>2, <2>3, <2>4 DEF e, Follows, SameBut
<1>9. CASE k = "me" /\ d.flow = "loginLoad"
  <2> DEFINE e == [idle EXCEPT !.flow = "none", !.loginError = TRUE]
  <2>1. /\ e \in Document /\ e.requests = idle.requests /\ e.refresh = d.refresh
        /\ e.flow = "none" /\ e.phase = d.phase /\ e.since = d.since
        /\ e.epoch = d.epoch /\ e.user = d.user /\ e.allowed = d.allowed
        /\ e.vault = d.vault /\ e.me = d.me /\ e.loginError = TRUE
    BY <1>2 DEF SameBut, Document, Flows
  <2> HIDE DEF e
  <2>2. RefreshIsAllowed(e) /\ RequestsAreCurrent(e) /\ (Own(d) => Own(e))
    BY <1>5, <1>2, <2>1 DEF SameBut, Doc, RefreshIsAllowed, RequestsAreCurrent, Own
  <2>3. RequestsFit(e) /\ FlowFits(e) /\ EmptyOrOwned(e) /\ Follows(d, e)
    BY <1>1, <1>5, <1>2, <1>9, <2>1 DEF SameBut, Doc, RequestsFit, FlowFits, EmptyOrOwned, Follows, Boot, Leaving
  <2>4. Doc(e)
    BY <2>1, <2>2, <2>3 DEF Doc
  <2> QED
    BY <1>4, <1>5, <1>6, <1>7, <1>9, <1>2, <2>2, <2>3, <2>4 DEF e, Follows, SameBut
<1>10. CASE k # "me" \/ d.flow \notin {"bootLoad", "loginLoad"}
  BY <1>4, <1>5, <1>6, <1>10
<1> QED
  BY <1>8, <1>9, <1>10

(* The answer of a request of the present identity.                        *)
LEMMA DeliveredKeeps ==
  ASSUME NEW d, Doc(d), NEW k \in Kinds, NEW user \in Accounts,
         d.requests[k].step = "answered", d.requests[k].epoch = d.epoch,
         Own(d) => user = d.vault.user
  PROVE  /\ Doc(Delivered(d, k, user)) /\ (Own(d) => Own(Delivered(d, k, user)))
         /\ Follows(d, Delivered(d, k, user))
<1> DEFINE idle == [d EXCEPT !.requests[k] = NoRequest]
           known == [idle EXCEPT !.me = user]
<1>1. NoRequest \in RequestState /\ NoRequest.step = "idle" /\ NoRequest.epoch = 0
  BY DEF NoRequest, RequestState
<1>2. SameBut(d, idle, k) /\ idle.requests[k] = NoRequest /\ idle.refresh = d.refresh
  BY <1>1, SetRequest DEF Doc
<1>3. d.vault # None /\ d.flow \notin Leaving \cup {"loginPost"}
  BY DEF Doc, RequestsAreCurrent, FlowFits
<1>4. k = "nickname" => d.phase = "authenticated"
  BY RequestsTyped DEF Doc, RequestsFit
<1>5. k = "me" /\ d.phase = "anonymous" => d.flow = "loginLoad"
  BY <1>3, RequestsTyped DEF Doc, RequestsFit, Leaving
<1>6. k = "withdraw" => d.phase \notin Boot
  BY RequestsTyped DEF Doc, RequestsFit
<1> HIDE DEF idle
<1>7. /\ known \in Document /\ known.requests = idle.requests /\ known.refresh = d.refresh
      /\ known.flow = d.flow /\ known.phase = d.phase /\ known.since = d.since
      /\ known.epoch = d.epoch /\ known.user = d.user /\ known.allowed = d.allowed
      /\ known.vault = d.vault /\ known.me = user /\ known.loginError = d.loginError
  BY <1>2 DEF SameBut, Document
<1> HIDE DEF known
<1>8. d.phase # "anonymous" =>
        Doc(known) /\ (Own(d) => Own(known)) /\ Follows(d, known)
  <2>1. RefreshIsAllowed(known) /\ RequestsAreCurrent(known)
    BY <1>1, <1>2, <1>7, RequestsTyped DEF SameBut, Doc, RefreshIsAllowed, RequestsAreCurrent
  <2>2. d.phase # "anonymous" => RequestsFit(known)
    BY <1>1, <1>2, <1>7, RequestsTyped DEF SameBut, Doc, RequestsFit, Kinds
  <2>3. d.phase # "anonymous" => FlowFits(known) /\ EmptyOrOwned(known) /\ Follows(d, known)
    BY <1>7, RequestsTyped DEF Doc, FlowFits, EmptyOrOwned, Follows
  <2>4. Own(d) => Own(known)
    BY <1>1, <1>2, <1>7 DEF SameBut, Own
  <2> QED
    BY <1>7, <2>1, <2>2, <2>3, <2>4 DEF Doc
<1>9. CASE k = "me" /\ d.flow \in {"bootLoad", "loginLoad"}
  <2> DEFINE e == Delivered(d, k, user)
  <2>1. e = [AdvanceAuthContext(known, user, TRUE) EXCEPT !.phase = "authenticated", !.flow = "none"]
    BY <1>9 DEF Delivered, idle, known
  <2>2. AdvanceAuthContext(known, user, TRUE) =
          [known EXCEPT !.epoch = d.epoch + 1, !.user = user, !.allowed = TRUE,
                        !.requests = Abandoned(idle.requests)]
    BY <1>7 DEF AdvanceAuthContext, Document
  <2>3. Abandoned(idle.requests) \in [Kinds -> RequestState]
    BY <1>2, AbandonedTyped, RequestsTyped DEF SameBut
  <2>4. /\ e \in Document /\ e.requests = Abandoned(idle.requests) /\ e.refresh = d.refresh
        /\ e.flow = "none" /\ e.phase = "authenticated" /\ e.since = d.since
        /\ e.epoch = d.epoch + 1 /\ e.user = user /\ e.allowed = TRUE
        /\ e.vault = d.vault /\ e.me = user /\ e.loginError = d.loginError
    <3> DEFINE r == Abandoned(idle.requests)
    <3> HIDE DEF r, e
    <3>1. e = [known EXCEPT !.epoch = d.epoch + 1, !.user = user, !.allowed = TRUE,
                        !.requests = r, !.phase = "authenticated", !.flow = "none"]
      BY <1>7, <2>1, <2>2 DEF r, Document
    <3>2. r \in [Kinds -> RequestState] /\ d.epoch + 1 \in Nat
      BY <2>3, RequestsTyped DEF r, Doc
    <3> QED
      BY <1>7, <3>1, <3>2 DEF Document, Flows, r
  <2>5. \A j \in Kinds : e.requests[j] = IF j = k \/ d.requests[j].step \in {"refreshing", "ready"}
                                          THEN NoRequest ELSE d.requests[j]
    BY <1>1, <1>2, <2>4, RequestsTyped DEF SameBut, Abandoned
  <2> HIDE DEF e
  <2>6. RefreshIsAllowed(e) /\ RequestsAreCurrent(e) /\ (Own(d) => Own(e))
    <3>1. RefreshIsAllowed(e)
      BY <2>4, RequestsTyped, FieldsTyped DEF Doc, RefreshIsAllowed
    <3>2. \A j \in Kinds : /\ e.requests[j].epoch \in Nat /\ e.requests[j].epoch <= d.epoch
                            /\ e.requests[j].step \notin {"refreshing", "ready"}
      BY <1>1, <2>5, RequestsTyped DEF Doc, RequestsAreCurrent, RequestState
    <3>3. RequestsAreCurrent(e)
      BY <2>4, <3>2, RequestsTyped DEF Doc, RequestsAreCurrent
    <3>4. Own(d) => Own(e)
      BY <2>4, <3>2, RequestsTyped DEF Doc, Own
    <3> QED
      BY <3>1, <3>3, <3>4
  <2>7. RequestsFit(e)
    BY <1>1, <2>4, <2>5, RequestsTyped DEF Doc, RequestsFit, Boot, Kinds
  <2>8. FlowFits(e) /\ EmptyOrOwned(e) /\ Follows(d, e)
    <3>1. FlowFits(e) /\ EmptyOrOwned(e)
      BY <1>3, <2>4 DEF FlowFits, EmptyOrOwned, Leaving
    <3> QED
      BY <1>9, <2>4, <3>1, RequestsTyped DEF Doc, Follows
  <2> QED
    BY <2>4, <2>6, <2>7, <2>8 DEF Doc, e
<1>10. CASE k = "me" /\ d.flow \notin {"bootLoad", "loginLoad"}
  <2>1. Delivered(d, k, user) = known
    BY <1>10 DEF Delivered, idle, known
  <2> QED
    BY <1>5, <1>8, <1>10, <2>1
<1>11. CASE k = "nickname"
  <2>1. CASE known.requests["me"].step = "idle" /\ CanRequest(known)
    <3>1. Delivered(d, k, user) = Requested(known, "me")
      BY <1>2, <1>7, <1>11, <2>1 DEF Delivered, idle, known, SameBut, Kinds
    <3>2. /\ Doc(Requested(known, "me")) /\ (Own(known) => Own(Requested(known, "me")))
          /\ Follows(known, Requested(known, "me"))
      BY <1>4, <1>7, <1>8, <1>11, <2>1, RequestedKeeps DEF Kinds
    <3> QED
      BY <1>4, <1>7, <1>8, <1>11, <3>1, <3>2 DEF Follows
  <2>2. CASE ~(known.requests["me"].step = "idle" /\ CanRequest(known))
    <3>1. Delivered(d, k, user) = known
      BY <1>2, <1>7, <1>11, <2>2 DEF Delivered, idle, known, SameBut, Kinds
    <3> QED
      BY <1>4, <1>8, <1>11, <3>1
  <2> QED
    BY <2>1, <2>2
<1>12. CASE k = "withdraw"
  <2> DEFINE e == Delivered(d, k, user)
  <2>1. e = [AdvanceAuthContext(idle, None, FALSE) EXCEPT
               !.vault = None, !.flow = "withdrawNative", !.since = d.epoch + 1]
    BY <1>12 DEF Delivered, idle
  <2>2. AdvanceAuthContext(idle, None, FALSE) =
          [idle EXCEPT !.epoch = d.epoch + 1, !.user = None, !.allowed = FALSE,
                       !.requests = Abandoned(idle.requests)]
    BY <1>2 DEF AdvanceAuthContext, Document, SameBut
  <2>3. Abandoned(idle.requests) \in [Kinds -> RequestState]
    BY <1>2, AbandonedTyped, RequestsTyped DEF SameBut
  <2>4. /\ e \in Document /\ e.requests = Abandoned(idle.requests) /\ e.refresh = d.refresh
        /\ e.flow = "withdrawNative" /\ e.phase = d.phase /\ e.since = d.epoch + 1
        /\ e.epoch = d.epoch + 1 /\ e.user = None /\ e.allowed = FALSE
        /\ e.vault = None /\ e.me = d.me /\ e.loginError = d.loginError
    <3> DEFINE r == Abandoned(idle.requests)
    <3> HIDE DEF r, e
    <3>1. e = [idle EXCEPT !.epoch = d.epoch + 1, !.user = None, !.allowed = FALSE,
                        !.requests = r, !.vault = None, !.flow = "withdrawNative", !.since = d.epoch + 1]
      BY <1>2, <2>1, <2>2 DEF r, Document, SameBut
    <3>2. r \in [Kinds -> RequestState] /\ d.epoch + 1 \in Nat
      BY <2>3, RequestsTyped DEF r, Doc
    <3> QED
      BY <1>2, <3>1, <3>2 DEF Document, Flows, r, SameBut
  <2>5. \A j \in Kinds : e.requests[j] = IF j = k \/ d.requests[j].step \in {"refreshing", "ready"}
                                          THEN NoRequest ELSE d.requests[j]
    BY <1>1, <1>2, <2>4, RequestsTyped DEF SameBut, Abandoned
  <2> HIDE DEF e
  <2>6. RefreshIsAllowed(e) /\ RequestsAreCurrent(e) /\ (Own(d) => Own(e))
    <3>1. RefreshIsAllowed(e)
      BY <2>4, RequestsTyped, FieldsTyped DEF Doc, RefreshIsAllowed
    <3>2. \A j \in Kinds : /\ e.requests[j].epoch \in Nat /\ e.requests[j].epoch <= d.epoch
                            /\ e.requests[j].step \notin {"refreshing", "ready"}
      BY <1>1, <2>5, RequestsTyped DEF Doc, RequestsAreCurrent, RequestState
    <3>3. RequestsAreCurrent(e)
      BY <2>4, <3>2, RequestsTyped DEF Doc, RequestsAreCurrent
    <3>4. Own(d) => Own(e)
      BY <2>4, <3>2, RequestsTyped DEF Doc, Own
    <3> QED
      BY <3>1, <3>3, <3>4
  <2>7. RequestsFit(e)
    <3>1. e.phase = "anonymous" /\ e.requests["me"].step # "idle" =>
            e.requests["me"].step \in {"answered", "paused"} /\ e.requests["me"].epoch < e.epoch
      BY <1>1, <2>4, <2>5, RequestsTyped DEF Doc, RequestsAreCurrent, Kinds, RequestState
    <3>2. /\ e.requests["nickname"].step # "paused"
          /\ e.phase # "authenticated" /\ e.requests["nickname"].step # "idle" =>
                e.requests["nickname"].step = "answered" /\ e.requests["nickname"].epoch < e.epoch
      <4>1. "nickname" \in Kinds /\ d.requests["nickname"] \in RequestState /\ d.epoch \in Nat
        BY RequestsTyped DEF Doc, Kinds
      <4>2. e.requests["nickname"] = d.requests["nickname"] \/ e.requests["nickname"].step = "idle"
        BY <1>1, <2>5, <4>1
      <4>3. d.requests["nickname"].epoch \in Nat
        BY <4>1 DEF RequestState
      <4> QED
        BY <2>4, <4>1, <4>2, <4>3 DEF Doc, RequestsFit
    <3> QED
      BY <1>6, <1>12, <2>4, <3>1, <3>2 DEF RequestsFit, Boot
  <2>8. FlowFits(e) /\ EmptyOrOwned(e) /\ Follows(d, e)
    BY <1>3, <1>12, <2>4, RequestsTyped DEF Doc, FlowFits, EmptyOrOwned, Follows, Leaving
  <2> QED
    BY <2>4, <2>6, <2>7, <2>8 DEF Doc, e
<1> QED
  BY <1>9, <1>10, <1>11, <1>12 DEF Kinds

(* The document after a refresh that succeeded.                            *)
LEMMA RefreshedKeeps ==
  ASSUME NEW d, Doc(d), d.allowed, NEW user \in Accounts
  PROVE  LET e == Refreshed(d, user) IN
         /\ Doc(e) /\ e.epoch = d.epoch /\ e.allowed = d.allowed
         /\ e.vault # None => e.vault.user = user
         /\ Own(d) /\ (d.vault = None \/ d.vault.user = user) => Own(e)
         /\ d.flow \notin {"loginPost", "logoutPost"}
<1> DEFINE r == [k \in Kinds |-> IF d.requests[k].step = "refreshing"
                                 THEN [d.requests[k] EXCEPT !.step = "ready"] ELSE d.requests[k]]
           v == [user |-> user, fresh |-> TRUE]
           kept == [d EXCEPT !.vault = v, !.refresh = None, !.requests = r]
           again == [kept EXCEPT !.me = None]
<1>1. /\ r \in [Kinds -> RequestState]
      /\ \A k \in Kinds :
           /\ r[k].epoch = d.requests[k].epoch /\ r[k].answer = d.requests[k].answer
           /\ r[k].step = IF d.requests[k].step = "refreshing" THEN "ready" ELSE d.requests[k].step
  BY RequestsTyped DEF Doc, RequestState
<1>2. v \in [user : Accounts, fresh : BOOLEAN] /\ v # None /\ v.user = user /\ v.fresh = TRUE
  <2>1. v \in [user : Accounts, fresh : BOOLEAN] /\ v.user = user /\ v.fresh = TRUE
    OBVIOUS
  <2> HIDE DEF v
  <2> QED
    BY <2>1
<1>3. Refreshed(d, user) = CASE d.flow = "bootRefresh" -> Load(kept, "bootLoad")
                             [] d.flow = "recoverRefresh" -> Load(again, "loginLoad")
                             [] OTHER -> kept
  BY DEF Refreshed
<1> HIDE DEF r, v
<1>4. /\ kept \in Document /\ kept.requests = r /\ kept.refresh = None /\ kept.vault = v
      /\ kept.epoch = d.epoch /\ kept.user = d.user /\ kept.allowed = d.allowed /\ kept.phase = d.phase
      /\ kept.me = d.me /\ kept.flow = d.flow /\ kept.since = d.since /\ kept.loginError = d.loginError
  BY <1>1, <1>2 DEF Doc, Document
<1> HIDE DEF kept
<1>5. d.flow \notin Leaving \cup {"loginPost"}
  BY DEF Doc, FlowFits
<1>6. Doc(kept)
  <2>1. RefreshIsAllowed(kept) /\ RequestsAreCurrent(kept)
    BY <1>1, <1>2, <1>4, RequestsTyped DEF Doc, RefreshIsAllowed, RequestsAreCurrent, RequestState
  <2>2. RequestsFit(kept)
    BY <1>1, <1>4, <1>5, RequestsTyped DEF Doc, RequestsFit, Kinds, Leaving
  <2>3. FlowFits(kept) /\ EmptyOrOwned(kept)
    BY <1>2, <1>4, <1>5 DEF Doc, FlowFits, EmptyOrOwned
  <2> QED
    BY <1>4, <2>1, <2>2, <2>3 DEF Doc
<1>7. Own(d) /\ (d.vault = None \/ d.vault.user = user) => Own(kept)
  BY <1>1, <1>2, <1>4 DEF Doc, EmptyOrOwned, RequestsAreCurrent, Own
<1>8. CanRequest(kept)
  BY <1>2, <1>4 DEF CanRequest, ShouldRefreshAccessToken
<1>9. CASE d.flow = "bootRefresh"
  <2>1. /\ Doc(Load(kept, "bootLoad")) /\ (Own(kept) => Own(Load(kept, "bootLoad")))
        /\ Follows(kept, Load(kept, "bootLoad"))
    BY <1>4, <1>6, <1>8, <1>9, LoadKeeps DEF Doc, FlowFits
  <2>2. Load(kept, "bootLoad").epoch = d.epoch /\ Load(kept, "bootLoad").allowed = d.allowed
    <3>1. SameBut(kept, Requested(kept, "me"), "me")
      BY <1>4, RequestedEffect DEF Kinds
    <3> QED
      BY <1>4, <1>8, <3>1 DEF Load, SameBut, Document
  <2> QED
    BY <1>2, <1>3, <1>4, <1>5, <1>7, <1>9, <2>1, <2>2 DEF Follows
<1>10. CASE d.flow = "recoverRefresh"
  <2>1. /\ again \in Document /\ again.requests = r /\ again.refresh = None /\ again.vault = v
        /\ again.epoch = d.epoch /\ again.user = d.user /\ again.allowed = d.allowed
        /\ again.phase = d.phase /\ again.me = None /\ again.flow = d.flow
        /\ again.since = d.since /\ again.loginError = d.loginError
    BY <1>4 DEF Document
  <2> HIDE DEF again
  <2>2. Doc(again) /\ (Own(kept) => Own(again)) /\ CanRequest(again)
    <3>1. RefreshIsAllowed(again) /\ RequestsAreCurrent(again) /\ (Own(kept) => Own(again)) /\ CanRequest(again)
      BY <1>4, <1>6, <1>8, <2>1 DEF Doc, RefreshIsAllowed, RequestsAreCurrent, Own, CanRequest, ShouldRefreshAccessToken
    <3>2. RequestsFit(again) /\ FlowFits(again) /\ EmptyOrOwned(again)
      BY <1>4, <1>6, <2>1 DEF Doc, RequestsFit, FlowFits, EmptyOrOwned
    <3> QED
      BY <2>1, <3>1, <3>2 DEF Doc
  <2>3. /\ Doc(Load(again, "loginLoad")) /\ (Own(again) => Own(Load(again, "loginLoad")))
        /\ Follows(again, Load(again, "loginLoad"))
    BY <1>10, <2>1, <2>2, LoadKeeps DEF Doc, FlowFits
  <2>4. Load(again, "loginLoad").epoch = d.epoch /\ Load(again, "loginLoad").allowed = d.allowed
    <3>1. SameBut(again, Requested(again, "me"), "me")
      BY <2>1, RequestedEffect DEF Kinds
    <3> QED
      BY <2>1, <2>2, <3>1 DEF Load, SameBut, Document
  <2> QED
    BY <1>2, <1>3, <1>5, <1>7, <1>10, <2>1, <2>2, <2>3, <2>4 DEF Follows, again
<1>11. CASE d.flow \notin {"bootRefresh", "recoverRefresh"}
  BY <1>2, <1>3, <1>4, <1>5, <1>6, <1>7, <1>11 DEF Leaving
<1> QED
  BY <1>9, <1>10, <1>11

(* The document after a refresh without an answer.                         *)
LEMMA FollowsTwice ==
  ASSUME NEW d, NEW e, NEW f, Doc(d), Doc(e), Doc(f), Follows(d, e), Follows(e, f)
  PROVE  Follows(d, f)
  BY RequestsTyped DEF Follows, Doc

LEMMA FailWaitingKeeps ==
  ASSUME NEW d, Doc(d), NEW k \in Kinds
  PROVE  /\ Doc(FailWaiting(d, k)) /\ (Own(d) => Own(FailWaiting(d, k)))
         /\ Follows(d, FailWaiting(d, k))
  BY FailedKeeps DEF FailWaiting, Follows

LEMMA ForgetRefresh ==
  ASSUME NEW d, Doc(d)
  PROVE  LET over == [d EXCEPT !.refresh = None] IN
         /\ Doc(over) /\ (Own(d) => Own(over)) /\ Follows(d, over)
         /\ over.requests = d.requests /\ over.refresh = None /\ over.vault = d.vault
         /\ over.epoch = d.epoch /\ over.user = d.user /\ over.allowed = d.allowed /\ over.phase = d.phase
         /\ over.me = d.me /\ over.flow = d.flow /\ over.since = d.since /\ over.loginError = d.loginError
<1> DEFINE over == [d EXCEPT !.refresh = None]
<1>1. /\ over \in Document /\ over.requests = d.requests /\ over.refresh = None /\ over.vault = d.vault
      /\ over.epoch = d.epoch /\ over.user = d.user /\ over.allowed = d.allowed /\ over.phase = d.phase
      /\ over.me = d.me /\ over.flow = d.flow /\ over.since = d.since /\ over.loginError = d.loginError
  BY DEF Doc, Document
<1> HIDE DEF over
<1>2. RefreshIsAllowed(over) /\ RequestsAreCurrent(over) /\ (Own(d) => Own(over)) /\ Follows(d, over)
  BY <1>1 DEF Doc, RefreshIsAllowed, RequestsAreCurrent, Own, Follows
<1>3. RequestsFit(over) /\ FlowFits(over) /\ EmptyOrOwned(over)
  BY <1>1 DEF Doc, RequestsFit, FlowFits, EmptyOrOwned
<1> QED
  BY <1>1, <1>2, <1>3 DEF Doc, over

LEMMA RefreshFailedKeeps ==
  ASSUME NEW d, Doc(d)
  PROVE  /\ Doc(RefreshFailed(d)) /\ (Own(d) => Own(RefreshFailed(d)))
         /\ d.allowed => Follows(d, RefreshFailed(d))
<1> DEFINE over == [d EXCEPT !.refresh = None]
<1>1. /\ over \in Document /\ over.requests = d.requests /\ over.refresh = None /\ over.vault = d.vault
      /\ over.epoch = d.epoch /\ over.user = d.user /\ over.allowed = d.allowed /\ over.phase = d.phase
      /\ over.me = d.me /\ over.flow = d.flow /\ over.since = d.since /\ over.loginError = d.loginError
  BY ForgetRefresh DEF Doc
<1>2. RefreshFailed(d) =
        CASE d.flow = "bootRefresh" -> [over EXCEPT !.flow = "none", !.phase = "bootstrap-error"]
          [] d.flow = "recoverRefresh" -> [over EXCEPT !.flow = "none"]
          [] OTHER -> FailWaiting(FailWaiting(FailWaiting(over, "me"), "nickname"), "withdraw")
  BY DEF RefreshFailed
<1>3. Doc(over) /\ (Own(d) => Own(over)) /\ Follows(d, over)
  BY ForgetRefresh
<1> HIDE DEF over
<1>4. CASE d.flow = "bootRefresh"
  <2> DEFINE e == [over EXCEPT !.flow = "none", !.phase = "bootstrap-error"]
  <2>1. /\ e \in Document /\ e.requests = d.requests /\ e.refresh = None /\ e.vault = d.vault
        /\ e.epoch = d.epoch /\ e.user = d.user /\ e.allowed = d.allowed /\ e.phase = "bootstrap-error"
        /\ e.me = d.me /\ e.flow = "none" /\ e.since = d.since /\ e.loginError = d.loginError
    BY <1>1 DEF Document, Flows
  <2> HIDE DEF e
  <2>2. RefreshIsAllowed(e) /\ RequestsAreCurrent(e) /\ (Own(d) => Own(e)) /\ Follows(d, e)
    BY <1>4, <2>1 DEF Doc, RefreshIsAllowed, RequestsAreCurrent, Own, Follows
  <2>3. RequestsFit(e) /\ FlowFits(e) /\ EmptyOrOwned(e)
    BY <1>4, <2>1 DEF Doc, RequestsFit, FlowFits, EmptyOrOwned, Boot, Leaving
  <2> QED
    BY <1>2, <1>4, <2>1, <2>2, <2>3 DEF Doc, e
<1>5. CASE d.flow = "recoverRefresh"
  <2> DEFINE e == [over EXCEPT !.flow = "none"]
  <2>1. /\ e \in Document /\ e.requests = d.requests /\ e.refresh = None /\ e.vault = d.vault
        /\ e.epoch = d.epoch /\ e.user = d.user /\ e.allowed = d.allowed /\ e.phase = d.phase
        /\ e.me = d.me /\ e.flow = "none" /\ e.since = d.since /\ e.loginError = d.loginError
    BY <1>1 DEF Document, Flows
  <2> HIDE DEF e
  <2>2. RefreshIsAllowed(e) /\ RequestsAreCurrent(e) /\ (Own(d) => Own(e)) /\ Follows(d, e)
    BY <1>5, <2>1 DEF Doc, RefreshIsAllowed, RequestsAreCurrent, Own, Follows
  <2>3. RequestsFit(e) /\ FlowFits(e) /\ EmptyOrOwned(e)
    BY <1>5, <2>1 DEF Doc, RequestsFit, FlowFits, EmptyOrOwned, Leaving
  <2> QED
    BY <1>2, <1>5, <2>1, <2>2, <2>3 DEF Doc, e
<1>6. CASE d.flow \notin {"bootRefresh", "recoverRefresh"}
  <2> DEFINE a == FailWaiting(over, "me")
             b == FailWaiting(a, "nickname")
             c == FailWaiting(b, "withdraw")
  <2>1. Doc(a) /\ (Own(over) => Own(a)) /\ Follows(over, a)
    BY <1>3, FailWaitingKeeps DEF Kinds
  <2> HIDE DEF a
  <2>2. Doc(b) /\ (Own(a) => Own(b)) /\ Follows(a, b)
    BY <2>1, FailWaitingKeeps DEF Kinds
  <2> HIDE DEF b
  <2>3. Doc(c) /\ (Own(b) => Own(c)) /\ Follows(b, c)
    BY <2>2, FailWaitingKeeps DEF Kinds
  <2>4. RefreshFailed(d) = c
    BY <1>2, <1>6 DEF a, b
  <2> HIDE DEF c
  <2>5. Follows(d, c)
    BY <1>3, <2>1, <2>2, <2>3, FollowsTwice
  <2> QED
    BY <1>3, <2>1, <2>2, <2>3, <2>4, <2>5
<1> QED
  BY <1>4, <1>5, <1>6

(* The response interceptor.                                               *)
LEMMA AnsweredKeeps ==
  ASSUME NEW d, Doc(d), NEW k \in Kinds, d.requests[k].step = "answered"
  PROVE  /\ Doc(Answered(d, k)) /\ (Own(d) => Own(Answered(d, k)))
         /\ Follows(d, Answered(d, k))
<1> DEFINE r == d.requests[k]
           idle == [d EXCEPT !.requests[k] = NoRequest]
           retry == [r EXCEPT !.step = "refreshing", !.retried = TRUE]
           asked == [d EXCEPT !.refresh = d.epoch]
<1>1. NoRequest \in RequestState /\ NoRequest.step = "idle" /\ NoRequest.epoch = 0
  BY DEF NoRequest, RequestState
<1>2. CASE r.epoch # d.epoch
  <2>1. SameBut(d, idle, k) /\ idle.requests[k] = NoRequest /\ idle.refresh = d.refresh
    BY <1>1, SetRequest DEF Doc
  <2>2. Answered(d, k) = idle
    BY <1>2 DEF Answered
  <2> HIDE DEF idle
  <2>3. RefreshIsAllowed(idle) /\ RequestsAreCurrent(idle)
    BY <1>1, <2>1, RequestsTyped DEF SameBut, Doc, RefreshIsAllowed, RequestsAreCurrent
  <2>4. RequestsFit(idle)
    BY <1>1, <2>1, RequestsTyped DEF SameBut, Doc, RequestsFit, Kinds
  <2>5. FlowFits(idle) /\ EmptyOrOwned(idle) /\ Follows(d, idle)
    BY <2>1, RequestsTyped DEF SameBut, Doc, FlowFits, EmptyOrOwned, Follows
  <2>6. Own(d) => Own(idle)
    BY <1>1, <2>1 DEF SameBut, Own
  <2> QED
    BY <2>1, <2>2, <2>3, <2>4, <2>5, <2>6 DEF Doc, SameBut
<1>3. CASE r.epoch = d.epoch /\ r.answer \in Accounts
  <2>1. Answered(d, k) = Delivered(d, k, r.answer) /\ (Own(d) => r.answer = d.vault.user)
    BY <1>3 DEF Answered, Own
  <2> QED
    BY <1>3, <2>1, DeliveredKeeps
<1>4. CASE r.epoch = d.epoch /\ r.answer \notin Accounts /\ (r.answer = "error" \/ r.retried \/ ~d.allowed)
  <2>1. \E code : Answered(d, k) = Failed(d, k, code)
    BY <1>4 DEF Answered
  <2> QED
    BY <2>1, FailedKeeps
<1>5. CASE r.epoch = d.epoch /\ r.answer \notin Accounts /\ r.answer # "error" /\ ~r.retried /\ d.allowed
  <2>1. retry \in RequestState /\ retry.epoch = d.epoch /\ retry.step = "refreshing"
    BY <1>5, RequestsTyped, ZenonT(30) DEF Doc, RequestState
  <2>2. Answered(d, k) = [asked EXCEPT !.requests[k] = retry]
    BY <1>5 DEF Answered, Doc, Document
  <2>3. asked \in Document /\ SameBut(d, asked, k) /\ asked.refresh = d.epoch
    BY RequestsTyped DEF Doc, Document, SameBut
  <2> DEFINE e == [asked EXCEPT !.requests[k] = retry]
  <2> HIDE DEF asked, retry
  <2>4. SameBut(asked, e, k) /\ e.requests[k] = retry /\ e.refresh = d.epoch
    BY <2>1, <2>3, SetRequest
  <2>5. SameBut(d, e, k)
    BY <2>3, <2>4 DEF SameBut
  <2> HIDE DEF e
  <2>6. RefreshIsAllowed(e) /\ RequestsAreCurrent(e)
    BY <1>5, <2>1, <2>4, <2>5, RequestsTyped DEF SameBut, Doc, RefreshIsAllowed, RequestsAreCurrent
  <2>7. RequestsFit(e)
    BY <1>5, <2>1, <2>4, <2>5, RequestsTyped DEF SameBut, Doc, RequestsFit, Kinds, Boot
  <2>8. FlowFits(e) /\ EmptyOrOwned(e) /\ Follows(d, e)
    BY <2>5, RequestsTyped DEF SameBut, Doc, FlowFits, EmptyOrOwned, Follows
  <2>9. Own(d) => Own(e)
    BY <2>1, <2>4, <2>5 DEF SameBut, Own
  <2> QED
    BY <2>2, <2>5, <2>6, <2>7, <2>8, <2>9 DEF Doc, SameBut, e
<1> QED
  BY <1>2, <1>3, <1>4, <1>5

(* The person's acts and the ends of session operations.                   *)
LEMMA BootstrapKeeps ==
  ASSUME NEW d, Doc(d), d.phase \in Boot, d.flow = "none",
         NEW e, e = [d EXCEPT !.phase = "bootstrapping", !.flow = "bootRefresh",
                              !.since = d.epoch, !.refresh = d.epoch]
  PROVE  Doc(e) /\ (Own(d) => Own(e)) /\ Follows(d, e)
<1>1. /\ e \in Document /\ e.requests = d.requests /\ e.refresh = d.epoch /\ e.vault = d.vault
      /\ e.epoch = d.epoch /\ e.user = d.user /\ e.allowed = d.allowed /\ e.phase = "bootstrapping"
      /\ e.me = d.me /\ e.flow = "bootRefresh" /\ e.since = d.epoch /\ e.loginError = d.loginError
  BY RequestsTyped DEF Doc, Document, Flows, Loading
<1>2. RefreshIsAllowed(e) /\ RequestsAreCurrent(e) /\ (Own(d) => Own(e)) /\ Follows(d, e)
  BY <1>1, RequestsTyped DEF Doc, RefreshIsAllowed, RequestsAreCurrent, RequestsFit, Own, Follows
<1>3. RequestsFit(e) /\ FlowFits(e) /\ EmptyOrOwned(e)
  BY <1>1 DEF Doc, RequestsFit, FlowFits, EmptyOrOwned, Boot, Leaving
<1> QED
  BY <1>1, <1>2, <1>3 DEF Doc

(* The identity is dropped: by a log-in or a log-out, or by a sign-up that *)
(* asks whether its cookie came.                                           *)
LEMMA DropKeeps ==
  ASSUME NEW d, Doc(d), NEW e, e \in Document,
         e.epoch = d.epoch + 1, e.user = None, e.vault = None, e.requests = Abandoned(d.requests),
         e.phase = d.phase, e.me = d.me,
         \/ /\ d.phase = "anonymous" /\ d.flow = "none" /\ e.flow = "loginPost" /\ ~e.allowed
            /\ e.refresh = d.refresh
         \/ /\ d.phase = "authenticated" /\ d.flow = "none" /\ e.flow = "logoutNative" /\ ~e.allowed
            /\ e.refresh = d.refresh /\ e.since = e.epoch
         \/ /\ d.flow = "loginPost" /\ e.flow = "recoverRefresh" /\ e.allowed /\ e.refresh = e.epoch
  PROVE  Doc(e) /\ Own(e) /\ e.epoch > d.epoch
<1>1. \A k \in Kinds : e.requests[k] = IF d.requests[k].step \in {"refreshing", "ready"}
                                        THEN NoRequest ELSE d.requests[k]
  BY RequestsTyped DEF Doc, Abandoned
<1>2. NoRequest.epoch = 0 /\ NoRequest.step = "idle"
  BY DEF NoRequest
<1>3. \A k \in Kinds : /\ e.requests[k].epoch \in Nat /\ e.requests[k].epoch <= d.epoch
                       /\ e.requests[k].step \notin {"refreshing", "ready"}
  BY <1>1, <1>2, RequestsTyped DEF Doc, RequestsAreCurrent, RequestState
<1>4. d.epoch \in Nat /\ e.epoch > d.epoch
  BY RequestsTyped DEF Doc
<1>5. d.flow = "loginPost" => d.phase = "anonymous"
  BY DEF Doc, FlowFits
<1>6. RefreshIsAllowed(e)
  BY <1>4, FieldsTyped DEF Doc, RefreshIsAllowed
<1>7. RequestsAreCurrent(e) /\ Own(e)
  BY <1>3, <1>4 DEF RequestsAreCurrent, Own
<1>8. RequestsFit(e)
  <2>1. "me" \in Kinds /\ "nickname" \in Kinds /\ "withdraw" \in Kinds
    BY DEF Kinds
  <2>2. d.phase # "authenticated" => d.phase = "anonymous"
    BY <1>5
  <2>3. d.phase = "anonymous" => d.requests["me"].step = "idle"
    BY <1>5 DEF Doc, RequestsFit
  <2>4. d.phase = "anonymous" => e.requests["me"].step = "idle"
    BY <1>1, <1>2, <2>1, <2>3
  <2>5. \/ e.requests["nickname"] = d.requests["nickname"] \/ e.requests["nickname"].step = "idle"
    BY <1>1, <1>2, <2>1
  <2>6. d.requests["nickname"].step # "paused"
    BY DEF Doc, RequestsFit
  <2>7. e.requests["nickname"].step # "paused"
    BY <2>5, <2>6
  <2>8. e.phase # "authenticated" /\ e.requests["nickname"].step # "idle" =>
          e.requests["nickname"].step = "answered" /\ e.requests["nickname"].epoch < e.epoch
    BY <1>3, <1>4, <2>1, <2>5 DEF Doc, RequestsFit
  <2> QED
    BY <2>2, <2>4, <2>7, <2>8 DEF RequestsFit, Boot
<1>9. FlowFits(e) /\ EmptyOrOwned(e)
  BY <1>5 DEF Doc, FlowFits, EmptyOrOwned, Leaving
<1> QED
  BY <1>4, <1>6, <1>7, <1>8, <1>9 DEF Doc

(* An operation whose flow is over and whose context is gone.              *)
LEMMA FlowEndKeeps ==
  ASSUME NEW d, Doc(d), d.flow \in Leaving \cup {"loginPost"}, d.phase # "authenticated",
         d.requests["me"].step = "idle" \/ d.flow # "withdrawNative",
         NEW e, \E error \in BOOLEAN : e = [d EXCEPT !.flow = "none", !.loginError = error]
  PROVE  /\ Doc(e) /\ (Own(d) => Own(e)) /\ e.vault = d.vault
         /\ e.epoch = d.epoch /\ e.allowed = d.allowed /\ e.user = d.user
<1>0. PICK error \in BOOLEAN : e = [d EXCEPT !.flow = "none", !.loginError = error]
  OBVIOUS
<1>1. /\ e \in Document /\ e.requests = d.requests /\ e.refresh = d.refresh /\ e.vault = d.vault
      /\ e.epoch = d.epoch /\ e.user = d.user /\ e.allowed = d.allowed /\ e.phase = d.phase
      /\ e.me = d.me /\ e.flow = "none" /\ e.since = d.since /\ e.loginError = error
  BY <1>0 DEF Doc, Document, Flows
<1>2. RefreshIsAllowed(e) /\ RequestsAreCurrent(e) /\ (Own(d) => Own(e))
  BY <1>1 DEF Doc, RefreshIsAllowed, RequestsAreCurrent, Own
<1>3. RequestsFit(e) /\ FlowFits(e) /\ EmptyOrOwned(e)
  BY <1>1 DEF Doc, RequestsFit, FlowFits, EmptyOrOwned, Leaving
<1> QED
  BY <1>1, <1>2, <1>3 DEF Doc

LEMMA LogoutSentKeeps ==
  ASSUME NEW d, Doc(d), d.flow = "logoutNative", NEW e, e = [d EXCEPT !.flow = "logoutPost"]
  PROVE  Doc(e) /\ (Own(d) => Own(e)) /\ e.vault = d.vault
         /\ e.epoch = d.epoch /\ e.allowed = d.allowed /\ e.user = d.user
<1>1. /\ e \in Document /\ e.requests = d.requests /\ e.refresh = d.refresh /\ e.vault = d.vault
      /\ e.epoch = d.epoch /\ e.user = d.user /\ e.allowed = d.allowed /\ e.phase = d.phase
      /\ e.me = d.me /\ e.flow = "logoutPost" /\ e.since = d.since /\ e.loginError = d.loginError
  BY DEF Doc, Document, Flows
<1>2. RefreshIsAllowed(e) /\ RequestsAreCurrent(e) /\ (Own(d) => Own(e))
  BY <1>1 DEF Doc, RefreshIsAllowed, RequestsAreCurrent, Own
<1>3. RequestsFit(e) /\ FlowFits(e) /\ EmptyOrOwned(e)
  BY <1>1 DEF Doc, RequestsFit, FlowFits, EmptyOrOwned, Leaving
<1> QED
  BY <1>1, <1>2, <1>3 DEF Doc

(* The token comes within thirty seconds of its end.                       *)
LEMMA ExpireKeeps ==
  ASSUME NEW d, Doc(d), d.vault # None, NEW e, e = [d EXCEPT !.vault.fresh = FALSE]
  PROVE  Doc(e) /\ (Own(d) => Own(e)) /\ Follows(d, e)
<1> DEFINE v == [d.vault EXCEPT !.fresh = FALSE]
<1>1. v \in [user : Accounts, fresh : BOOLEAN] /\ v.user = d.vault.user
  BY FieldsTyped DEF Doc
<1>2. e = [d EXCEPT !.vault = v]
  BY DEF Doc, Document
<1> HIDE DEF v
<1>3. v # None
  BY <1>1
<1>4. /\ e \in Document /\ e.requests = d.requests /\ e.refresh = d.refresh /\ e.vault = v
      /\ e.epoch = d.epoch /\ e.user = d.user /\ e.allowed = d.allowed /\ e.phase = d.phase
      /\ e.me = d.me /\ e.flow = d.flow /\ e.since = d.since /\ e.loginError = d.loginError
  BY <1>1, <1>2 DEF Doc, Document
<1>5. RefreshIsAllowed(e) /\ RequestsAreCurrent(e)
  BY <1>3, <1>4 DEF Doc, RefreshIsAllowed, RequestsAreCurrent
<1>6. Own(d) => Own(e)
  BY <1>1, <1>4 DEF Own
<1>7. Follows(d, e)
  BY <1>1, <1>4 DEF Follows
<1>8. RequestsFit(e) /\ FlowFits(e) /\ EmptyOrOwned(e)
  BY <1>3, <1>4 DEF Doc, RequestsFit, FlowFits, EmptyOrOwned
<1> QED
  BY <1>4, <1>5, <1>6, <1>7, <1>8 DEF Doc

(* A request that the server has answered, or that is to be tried again.   *)
LEMMA ServedKeeps ==
  ASSUME NEW d, Doc(d), NEW k \in Kinds, d.requests[k].step = "ready",
         NEW code \in {d.vault.user, "error", "expired"},
         NEW e, e = [d EXCEPT !.requests[k].step = "answered", !.requests[k].answer = code]
  PROVE  Doc(e) /\ (Own(d) => Own(e)) /\ Follows(d, e)
<1> DEFINE r == [d.requests[k] EXCEPT !.step = "answered", !.answer = code]
<1>1. d.vault # None /\ d.vault.user \in Accounts
  BY FieldsTyped DEF Doc, RequestsAreCurrent
<1>2. r \in RequestState /\ r.step = "answered" /\ r.answer = code /\ r.epoch = d.epoch
  BY <1>1, RequestsTyped DEF Doc, RequestsAreCurrent, RequestState
<1>3. e = [d EXCEPT !.requests[k] = r]
  BY RequestsTyped, ZenonT(30) DEF Doc, Document, RequestState
<1> HIDE DEF r
<1>4. SameBut(d, e, k) /\ e.requests[k] = r /\ e.refresh = d.refresh
  <2>1. d \in Document /\ r \in RequestState
    BY <1>2 DEF Doc
  <2>2. /\ SameBut(d, [d EXCEPT !.requests[k] = r], k)
        /\ [d EXCEPT !.requests[k] = r].requests[k] = r
        /\ [d EXCEPT !.requests[k] = r].refresh = d.refresh
    BY <2>1, SetRequest
  <2> QED
    BY <1>3, <2>2
<1>5. RefreshIsAllowed(e) /\ RequestsAreCurrent(e)
  BY <1>1, <1>2, <1>4, RequestsTyped DEF SameBut, Doc, RefreshIsAllowed, RequestsAreCurrent
<1>6. RequestsFit(e)
  BY <1>2, <1>4, RequestsTyped DEF SameBut, Doc, RequestsFit, Kinds
<1>7. FlowFits(e) /\ EmptyOrOwned(e) /\ Follows(d, e)
  BY <1>4, RequestsTyped DEF SameBut, Doc, FlowFits, EmptyOrOwned, Follows
<1>8. Own(d) => Own(e)
  BY <1>2, <1>4 DEF SameBut, Own
<1> QED
  BY <1>4, <1>5, <1>6, <1>7, <1>8 DEF Doc, SameBut

LEMMA AgainKeeps ==
  ASSUME NEW d, Doc(d), NEW k \in Kinds, d.requests[k].step = "paused",
         NEW e, e = [d EXCEPT !.requests[k].again = TRUE]
  PROVE  Doc(e) /\ (Own(d) => Own(e)) /\ Follows(d, e) /\ e.requests[k].step = "paused"
<1> DEFINE r == [d.requests[k] EXCEPT !.again = TRUE]
<1>1. r \in RequestState /\ r.step = "paused" /\ r.epoch = d.requests[k].epoch
  <2>1. d.requests[k] \in RequestState
    BY RequestsTyped DEF Doc
  <2> QED
    BY <2>1 DEF RequestState
<1>2. e = [d EXCEPT !.requests[k] = r]
  BY RequestsTyped DEF Doc, Document, RequestState
<1> HIDE DEF r
<1>3. SameBut(d, e, k) /\ e.requests[k] = r /\ e.refresh = d.refresh
  <2>1. d \in Document /\ r \in RequestState
    BY <1>1 DEF Doc
  <2>2. /\ SameBut(d, [d EXCEPT !.requests[k] = r], k)
        /\ [d EXCEPT !.requests[k] = r].requests[k] = r
        /\ [d EXCEPT !.requests[k] = r].refresh = d.refresh
    BY <2>1, SetRequest
  <2> QED
    BY <1>2, <2>2
<1>4. RefreshIsAllowed(e) /\ RequestsAreCurrent(e)
  BY <1>1, <1>3, RequestsTyped DEF SameBut, Doc, RefreshIsAllowed, RequestsAreCurrent
<1>5. RequestsFit(e)
  BY <1>1, <1>3, RequestsTyped DEF SameBut, Doc, RequestsFit, Kinds
<1>6. FlowFits(e) /\ EmptyOrOwned(e) /\ Follows(d, e)
  BY <1>3, RequestsTyped DEF SameBut, Doc, FlowFits, EmptyOrOwned, Follows
<1>7. Own(d) => Own(e)
  BY <1>1, <1>3 DEF SameBut, Own
<1> QED
  BY <1>1, <1>3, <1>4, <1>5, <1>6, <1>7 DEF Doc, SameBut

(* The log-in's token, and the load of its user.                           *)
(* What the answer of a log-in does to a document before the user is read. *)
LoggedIn(d, kept, user) ==
  /\ kept \in Document /\ kept.refresh = d.refresh /\ kept.vault = [user |-> user, fresh |-> TRUE]
  /\ kept.epoch = d.epoch /\ kept.user = d.user /\ kept.allowed = d.allowed /\ kept.phase = d.phase
  /\ kept.me = None /\ kept.flow = d.flow /\ kept.since = d.since /\ kept.loginError = d.loginError
  /\ \A j \in Kinds \ {"me"} : kept.requests[j] = d.requests[j]

LEMMA LoginKeeps ==
  ASSUME NEW d, Doc(d), d.flow = "loginPost", NEW user \in Accounts, NEW kept, LoggedIn(d, kept, user)
  PROVE  LET e == Load(kept, "loginLoad") IN
         /\ Doc(e) /\ Own(e) /\ e.vault # None /\ e.vault.user = user
         /\ e.epoch = d.epoch /\ e.allowed = d.allowed
<1> DEFINE v == [user |-> user, fresh |-> TRUE]
           q == Requested(kept, "me")
           e == Load(kept, "loginLoad")
<1>1. "me" \in Kinds
  BY DEF Kinds
<1>2. v \in [user : Accounts, fresh : BOOLEAN] /\ v.user = user /\ v.fresh = TRUE
  OBVIOUS
<1>3. \A j \in Kinds \ {"me"} : kept.requests[j] = d.requests[j]
  BY DEF LoggedIn
<1>6. /\ kept \in Document /\ kept.refresh = d.refresh /\ kept.vault = v
      /\ kept.epoch = d.epoch /\ kept.user = d.user /\ kept.allowed = d.allowed /\ kept.phase = d.phase
      /\ kept.me = None /\ kept.flow = d.flow /\ kept.since = d.since /\ kept.loginError = d.loginError
  BY DEF LoggedIn
<1> HIDE DEF v
<1>5. v # None
  BY <1>2
<1>7. ~ShouldRefreshAccessToken(kept)
  BY <1>2, <1>5, <1>6 DEF ShouldRefreshAccessToken
<1>8. /\ SameBut(kept, q, "me") /\ q.requests["me"].epoch = d.epoch
      /\ q.requests["me"].step = "ready" /\ q.refresh = d.refresh
  BY <1>1, <1>6, <1>7, RequestedEffect
<1>9. e = [q EXCEPT !.flow = "loginLoad", !.since = d.epoch]
  BY <1>6, <1>7 DEF Load, CanRequest
<1> HIDE DEF q, e
<1>10. /\ e \in Document /\ e.requests = q.requests /\ e.refresh = d.refresh /\ e.vault = v
       /\ e.epoch = d.epoch /\ e.user = d.user /\ e.allowed = d.allowed /\ e.phase = d.phase
       /\ e.me = None /\ e.flow = "loginLoad" /\ e.since = d.epoch /\ e.loginError = d.loginError
  <2>1. q \in Document /\ d.epoch \in Nat
    BY <1>8, RequestsTyped DEF SameBut, Doc
  <2>2. /\ e \in Document /\ e.requests = q.requests /\ e.refresh = q.refresh
        /\ e.flow = "loginLoad" /\ e.since = d.epoch
        /\ e.epoch = q.epoch /\ e.user = q.user /\ e.allowed = q.allowed /\ e.phase = q.phase
        /\ e.vault = q.vault /\ e.me = q.me /\ e.loginError = q.loginError
    <3>1. "loginLoad" \in Flows
      BY DEF Flows, Loading
    <3> QED
      BY <1>9, <2>1, <3>1 DEF Document
  <2> QED
    BY <1>6, <1>8, <2>2 DEF SameBut
<1>11. \A j \in Kinds \ {"me"} : e.requests[j] = d.requests[j]
  BY <1>3, <1>6, <1>8, <1>10 DEF SameBut
<1>12. d.vault = None /\ ~d.allowed /\ d.phase = "anonymous" /\ d.user = None
  BY DEF Doc, FlowFits, EmptyOrOwned
<1>13. RefreshIsAllowed(e) /\ RequestsAreCurrent(e)
  BY <1>1, <1>5, <1>8, <1>10, <1>11, RequestsTyped DEF Doc, RefreshIsAllowed, RequestsAreCurrent
<1>14. Own(e)
  BY <1>1, <1>8, <1>10, <1>11, <1>12 DEF Doc, Own, RequestsAreCurrent
<1>15. RequestsFit(e)
  BY <1>8, <1>10, <1>11, <1>12, RequestsTyped DEF Doc, RequestsFit, Kinds, Boot
<1>16. FlowFits(e) /\ EmptyOrOwned(e)
  BY <1>10, <1>12 DEF FlowFits, EmptyOrOwned, Leaving
<1> QED
  BY <1>2, <1>5, <1>10, <1>13, <1>14, <1>15, <1>16 DEF Doc, e

---------------------------------------------------------------------------
(* The steps                                                               *)

(* The sessions that were open keep their user and their current token.    *)
SameSessions ==
  /\ sessions' \in Seq(Session) /\ Len(sessions') >= Len(sessions)
  /\ \A i \in 1..Len(sessions) :
       sessions'[i].user = sessions[i].user /\ sessions'[i].number = sessions[i].number

LEMMA SessionsTyped ==
  ASSUME sessions \in Seq(Session)
  PROVE  /\ Len(sessions) \in Nat /\ DOMAIN sessions = 1..Len(sessions)
         /\ \A i \in 1..Len(sessions) : sessions[i] \in Session
  OBVIOUS

LEMMA UnchangedSessions ==
  ASSUME sessions \in Seq(Session), sessions' = sessions
  PROVE  SameSessions
  BY SessionsTyped DEF SameSessions

LEMMA EndingKeeps ==
  ASSUME sessions \in Seq(Session), NEW token, token.session \in 1..Len(sessions),
         sessions' = Ending(token)
  PROVE  SameSessions
<1> DEFINE i == token.session
           s == [sessions[i] EXCEPT !.live = FALSE]
<1>0. s \in Session /\ sessions' = [sessions EXCEPT ![i] = s]
  BY SessionsTyped DEF Ending, Session
<1>1. sessions' \in Seq(Session) /\ Len(sessions') = Len(sessions)
  <2> HIDE DEF s
  <2> QED
    BY <1>0, ExceptSeq
<1>2. \A j \in 1..Len(sessions) :
        sessions'[j].user = sessions[j].user /\ sessions'[j].number = sessions[j].number
  BY <1>0, SessionsTyped DEF Session
<1> QED
  BY <1>1, <1>2, SessionsTyped DEF SameSessions

LEMMA FlightsTyped ==
  ASSUME ServerTypes, NEW t \in Tabs
  PROVE  /\ wire[t] \in Wires /\ post[t] \in Posts
         /\ wire[t] # Idle => /\ wire[t].step \in {"sent", "served"} /\ wire[t].epoch \in Nat
                              /\ wire[t].token \in Tokens \cup {None}
         /\ NewToken(t) => post[t].token \in Tokens
  BY DEF ServerTypes, Wires, Posts, Idle, NewToken

LEMMA OpenedStays ==
  ASSUME SameSessions, sessions \in Seq(Session), TokensAreOpened,
         UNCHANGED <<cookie, wire, post>>
  PROVE  TokensAreOpened'
  BY SessionsTyped DEF SameSessions, TokensAreOpened, Opened, NewToken

LEMMA DocumentsStep ==
  ASSUME Documents, NEW t \in Tabs, NEW e, Doc(e), doc' = [doc EXCEPT ![t] = e],
         t \notin foreign' => Own(e), foreign \subseteq foreign' \cup {t}
  PROVE  Documents'
  BY DEF Documents, Doc

LEMMA RotationStays ==
  ASSUME IInv, SameSessions, UNCHANGED <<cookie, wire, post, lost, reused>>
  PROVE  Rotation'
<1>1. TokensAreCurrent => TokensAreCurrent'
  BY SessionsTyped, FlightsTyped
     DEF IInv, ServerTypes, SameSessions, TokensAreOpened, Opened, TokensAreCurrent, Current, NewToken, Replacing
<1>2. OneRefresh => OneRefresh'
  BY DEF OneRefresh
<1>3. NewSessionsAreNew => NewSessionsAreNew'
  BY DEF NewSessionsAreNew, NewToken
<1> QED
  BY <1>1, <1>2, <1>3 DEF IInv, Rotation

(* A step of one document, in which nothing in flight takes part.          *)
LEMMA DocStep ==
  ASSUME IInv, NEW t \in Tabs, NEW e, Doc(e), Own(doc[t]) => Own(e), Follows(doc[t], e),
         doc' = [doc EXCEPT ![t] = e], SameSessions,
         UNCHANGED <<cookie, wire, post, foreign, lost, reused>>,
         withdrawn' \in [Accounts -> Tabs \cup {None}], news' \subseteq Tabs, events' \in 0..MaxEvents
  PROVE  IInv'
<1>1. ServerTypes'
  BY DEF IInv, ServerTypes, SameSessions
<1>2. TokensAreOpened'
  BY OpenedStays DEF IInv, ServerTypes
<1>3. Documents'
  BY DocumentsStep DEF IInv, Documents
<1>4. doc[t].epoch \in Nat /\ e.epoch \in Nat /\ doc'[t] = e
  BY RequestsTyped DEF IInv, Documents, Doc
<1>5. FlightsFit'
  BY <1>4, FlightsTyped DEF IInv, FlightsFit, Follows, Documents
<1>6. CookieIsOwn'
  <2>1. \A token : token \in Tokens /\ Opened(token) => UserOf(token)' = UserOf(token)
    BY DEF SameSessions, Opened, UserOf, Tokens
  <2>2. ASSUME NEW u \in Tabs \ foreign, doc'[u].vault # None
        PROVE  doc[u].vault # None /\ doc'[u].vault.user = doc[u].vault.user
    BY <2>2, <1>4 DEF IInv, Documents, Follows
  <2>3. ASSUME NEW u \in Tabs \ foreign, doc'[u].vault # None, cookie # None
        PROVE  UserOf(cookie)' = doc'[u].vault.user
    BY <2>1, <2>2, <2>3 DEF IInv, CookieIsOwn, TokensAreOpened, ServerTypes
  <2>4. ASSUME NEW u \in Tabs \ foreign, doc'[u].vault # None, wire[u] # Idle,
               wire[u].epoch = doc'[u].epoch, wire[u].token # None
        PROVE  UserOf(wire[u].token)' = doc'[u].vault.user
    <3>1. wire[u].epoch = doc[u].epoch
      BY <2>4, <1>4, FlightsTyped DEF IInv, FlightsFit, Follows, Documents
    <3> QED
      BY <3>1, <2>1, <2>2, <2>4, FlightsTyped DEF IInv, CookieIsOwn, TokensAreOpened
  <2> QED
    BY <2>3, <2>4 DEF CookieIsOwn, UserOf
<1>7. Rotation'
  BY RotationStays
<1> QED
  BY <1>1, <1>2, <1>3, <1>5, <1>6, <1>7 DEF IInv

(* The steps of a document alone: the page's start, the person's acts that *)
(* send nothing yet, answers, second tries, and the end that is heard of.  *)
LEMMA OwnSteps ==
  ASSUME IInv, NEW t \in Tabs
  PROVE  /\ Bootstrap(t) \/ RetryLoad(t) \/ Logout(t) \/ Expire(t) => IInv'
         /\ CompleteWithdrawal(t) \/ HearSessionEnded(t) => IInv'
<1> DEFINE d == doc[t]
<1>1. Doc(d) /\ d \in Document /\ doc \in [Tabs -> Document] /\ d.epoch \in Nat
  BY RequestsTyped DEF IInv, Documents, Doc
<1>2. /\ withdrawn \in [Accounts -> Tabs \cup {None}] /\ news \subseteq Tabs /\ events \in 0..MaxEvents
      /\ events < MaxEvents => events + 1 \in 0..MaxEvents
      /\ sessions' = sessions => SameSessions
  BY UnchangedSessions DEF IInv, ServerTypes
<1>3. ASSUME Bootstrap(t) PROVE IInv'
  <2> DEFINE e == [d EXCEPT !.phase = "bootstrapping", !.flow = "bootRefresh",
                            !.since = d.epoch, !.refresh = d.epoch]
  <2>1. d.phase \in Boot /\ d.flow = "none" /\ doc' = [doc EXCEPT ![t] = e]
    BY <1>3 DEF Bootstrap, Boot
  <2>2. Doc(e) /\ (Own(d) => Own(e)) /\ Follows(d, e)
    BY <1>1, <2>1, BootstrapKeeps
  <2> HIDE DEF e
  <2> QED
    BY <1>2, <1>3, <2>1, <2>2, DocStep DEF Bootstrap
<1>4. ASSUME RetryLoad(t) PROVE IInv'
  <2> DEFINE e == Load(d, "loginLoad")
  <2>1. d.phase = "anonymous" /\ d.flow = "none" /\ d.loginError /\ doc' = [doc EXCEPT ![t] = e]
    BY <1>4 DEF RetryLoad, PublicPages
  <2>2. d.requests["me"].step = "idle"
    BY <1>1, <2>1 DEF Doc, RequestsFit
  <2>3. Doc(e) /\ (Own(d) => Own(e)) /\ Follows(d, e)
    BY <1>1, <2>1, <2>2, LoadKeeps
  <2> HIDE DEF e
  <2> QED
    BY <1>2, <1>4, <2>1, <2>3, DocStep DEF RetryLoad
<1>5. ASSUME Logout(t) PROVE IInv'
  <2> DEFINE r == Abandoned(d.requests)
             e == [d EXCEPT !.epoch = d.epoch + 1, !.user = None, !.allowed = FALSE, !.requests = r,
                            !.vault = None, !.flow = "logoutNative", !.since = d.epoch + 1]
  <2>1. d.phase = "authenticated" /\ d.flow = "none"
    BY <1>5 DEF Logout, PrivatePages
  <2>2. doc' = [doc EXCEPT ![t] = e]
    BY <1>1, <1>5 DEF Logout, AdvanceAuthContext, Document
  <2>3. r \in [Kinds -> RequestState]
    BY <1>1, AbandonedTyped, RequestsTyped
  <2>4. /\ e \in Document /\ e.epoch = d.epoch + 1 /\ e.user = None /\ e.vault = None
        /\ e.requests = r /\ e.phase = d.phase /\ e.me = d.me /\ e.flow = "logoutNative"
        /\ e.allowed = FALSE /\ e.refresh = d.refresh /\ e.since = d.epoch + 1
    <3> HIDE DEF r
    <3>1. "logoutNative" \in Flows /\ d.epoch + 1 \in Nat
      BY <1>1 DEF Flows
    <3> QED
      BY <1>1, <2>3, <3>1 DEF Document
  <2> HIDE DEF e
  <2>5. Doc(e) /\ Own(e) /\ e.epoch > d.epoch
    BY <1>1, <2>1, <2>4, DropKeeps
  <2>6. Follows(d, e)
    BY <2>1, <2>4, <2>5 DEF Follows
  <2> QED
    BY <1>2, <1>5, <2>2, <2>5, <2>6, DocStep DEF Logout
<1>6. ASSUME HearSessionEnded(t) PROVE IInv'
  <2> DEFINE e == EndLocalSession(d)
  <2>1. Doc(e) /\ Own(e) /\ Follows(d, e)
    BY <1>1, EndKeeps
  <2>2. doc' = [doc EXCEPT ![t] = e] /\ news' \subseteq Tabs
    BY <1>2, <1>6 DEF HearSessionEnded
  <2> HIDE DEF e
  <2> QED
    BY <1>2, <1>6, <2>1, <2>2, DocStep DEF HearSessionEnded
<1>7. ASSUME CompleteWithdrawal(t) PROVE IInv'
  <2> DEFINE c == [d EXCEPT !.flow = "none"]
  <2>1. d.flow = "withdrawNative" /\ news' \subseteq Tabs
    BY <1>2, <1>7 DEF CompleteWithdrawal
  <2>2. CASE d.since = d.epoch
    <3> DEFINE f == EndLocalSession(d)
               e == EndLocalSession(c)
    <3>1. doc' = [doc EXCEPT ![t] = e]
      BY <1>1, <1>7, <2>2 DEF CompleteWithdrawal, Document
    <3>2. Doc(f) /\ Own(f) /\ Follows(d, f)
      BY <1>1, EndKeeps
    <3>3. /\ f.flow = "withdrawNative" /\ f.phase = "anonymous" /\ f.requests["me"].step = "idle"
          /\ f.loginError = d.loginError /\ f.loginError \in BOOLEAN
      <4>1. f.requests = [Abandoned(d.requests) EXCEPT !["me"] = NoRequest]
        BY <1>1 DEF EndLocalSession, AdvanceAuthContext, Document
      <4>2. f.requests["me"] = NoRequest
        BY <1>1, <4>1, AbandonedTyped, RequestsTyped DEF Kinds
      <4> QED
        BY <1>1, <2>1, <4>2, FieldsTyped DEF EndLocalSession, AdvanceAuthContext, Document, Loading, NoRequest
    <3>4. e = [f EXCEPT !.flow = "none", !.loginError = f.loginError]
      <4> DEFINE r == [Abandoned(d.requests) EXCEPT !["me"] = NoRequest]
      <4>1. f = [d EXCEPT !.epoch = d.epoch + 1, !.user = None, !.allowed = FALSE, !.requests = r,
                          !.vault = None, !.phase = "anonymous", !.me = None]
        BY <1>1, <2>1 DEF EndLocalSession, AdvanceAuthContext, Document, Loading
      <4>2. e = [d EXCEPT !.epoch = d.epoch + 1, !.user = None, !.allowed = FALSE, !.requests = r,
                          !.vault = None, !.phase = "anonymous", !.me = None, !.flow = "none"]
        BY <1>1, <2>1 DEF EndLocalSession, AdvanceAuthContext, Document, Loading
      <4> HIDE DEF r, e, f
      <4> QED
        BY <1>1, <4>1, <4>2 DEF Document
    <3> HIDE DEF e, f
    <3>8. \E error \in BOOLEAN : e = [f EXCEPT !.flow = "none", !.loginError = error]
      BY <3>3, <3>4
    <3>7. f.flow \in Leaving \cup {"loginPost"} /\ f.phase # "authenticated"
      BY <3>3 DEF Leaving
    <3>5. Doc(e) /\ Own(e) /\ e.vault = f.vault /\ e.epoch = f.epoch /\ e.allowed = f.allowed
      BY <3>2, <3>3, <3>7, <3>8, FlowEndKeeps
    <3>6. Follows(d, e)
      BY <2>1, <3>2, <3>5 DEF Follows
    <3> QED
      BY <1>2, <1>7, <2>1, <3>1, <3>5, <3>6, DocStep DEF CompleteWithdrawal
  <2>3. CASE d.since # d.epoch
    <3> DEFINE e == [d EXCEPT !.flow = "none", !.loginError = d.loginError]
    <3>1. doc' = [doc EXCEPT ![t] = e] /\ news' = news
      BY <1>1, <1>7, <2>3, ZenonT(30) DEF CompleteWithdrawal, Document
    <3>2. d.phase # "authenticated" /\ d.requests["me"].step = "idle"
      <4>1. d.phase # "authenticated" /\ ~d.allowed
        BY <1>1, <2>1, <2>3 DEF Doc, FlowFits, Leaving
      <4>2. d.phase = "anonymous"
        BY <1>1, <4>1, FieldsTyped DEF Doc, RequestsFit, Boot
      <4> QED
        BY <1>1, <2>1, <2>3, <4>2 DEF Doc, RequestsFit
    <3>3. d.loginError \in BOOLEAN
      BY <1>1, FieldsTyped
    <3>6. d.flow \in Leaving \cup {"loginPost"}
      BY <2>1 DEF Leaving
    <3>4. Doc(e) /\ (Own(d) => Own(e)) /\ e.vault = d.vault /\ e.epoch = d.epoch /\ e.allowed = d.allowed
      <4>1. \E error \in BOOLEAN : e = [d EXCEPT !.flow = "none", !.loginError = error]
        BY <3>3
      <4> HIDE DEF d, e
      <4> QED
        BY <1>1, <3>2, <3>6, <4>1, FlowEndKeeps
    <3> HIDE DEF e
    <3>5. Follows(d, e)
      BY <2>1, <3>4 DEF Follows
    <3> QED
      BY <1>2, <1>7, <2>1, <3>1, <3>4, <3>5, DocStep DEF CompleteWithdrawal
  <2> QED
    BY <2>2, <2>3
<1>8. ASSUME Expire(t) PROVE IInv'
  <2> DEFINE e == [d EXCEPT !.vault.fresh = FALSE]
  <2>1. d.vault # None /\ doc' = [doc EXCEPT ![t] = e]
    BY <1>1, <1>8 DEF Expire, ShouldRefreshAccessToken
  <2>2. Doc(e) /\ (Own(d) => Own(e)) /\ Follows(d, e)
    BY <1>1, <2>1, ExpireKeeps
  <2> HIDE DEF e
  <2> QED
    BY <1>2, <1>8, <2>1, <2>2, DocStep DEF Expire
<1> QED
  BY <1>3, <1>4, <1>5, <1>6, <1>7, <1>8

(* The steps of one protected request.                                     *)
LEMMA RequestSteps ==
  ASSUME IInv, NEW t \in Tabs, NEW k \in Kinds
  PROVE  Request(t, k) \/ SendRequest(t, k) \/ ReceiveAnswer(t, k) \/ Retry(t, k) => IInv'
<1> DEFINE d == doc[t]
<1>1. Doc(d) /\ d \in Document /\ doc \in [Tabs -> Document] /\ d.requests[k] \in RequestState
  BY RequestsTyped DEF IInv, Documents, Doc
<1>2. /\ withdrawn \in [Accounts -> Tabs \cup {None}] /\ news \subseteq Tabs /\ events \in 0..MaxEvents
      /\ events < MaxEvents => events + 1 \in 0..MaxEvents
      /\ sessions' = sessions => SameSessions
  BY UnchangedSessions DEF IInv, ServerTypes
<1>3. ASSUME Request(t, k) PROVE IInv'
  <2> DEFINE e == Requested(d, k)
  <2>1. d.phase = "authenticated" /\ CanRequest(d) /\ doc' = [doc EXCEPT ![t] = e]
    BY <1>3 DEF Request, PrivatePages
  <2>2. Doc(e) /\ (Own(d) => Own(e)) /\ Follows(d, e)
    BY <1>1, <2>1, RequestedKeeps
  <2> HIDE DEF e
  <2> QED
    BY <1>2, <1>3, <2>1, <2>2, DocStep DEF Request
<1>4. ASSUME SendRequest(t, k) PROVE IInv'
  <2> DEFINE user == d.vault.user
  <2>1. d.requests[k].step = "ready" /\ UNCHANGED <<cookie, wire, post, news, foreign, lost, reused>>
    BY <1>4 DEF SendRequest
  <2>2. user \in Accounts
    BY <1>1, <2>1, FieldsTyped DEF Doc, RequestsAreCurrent
  <2>3. PICK code \in {user, "error", "expired"} :
          doc' = [doc EXCEPT ![t].requests[k].step = "answered", ![t].requests[k].answer = code]
    BY <1>4 DEF SendRequest
  <2>4. \/ sessions' = sessions /\ withdrawn' = withdrawn
        \/ /\ withdrawn' = [withdrawn EXCEPT ![user] = t]
           /\ sessions' = [s \in DOMAIN sessions |->
                             [sessions[s] EXCEPT !.live = @ /\ sessions[s].user # user]]
    BY <1>4 DEF SendRequest
  <2>5. withdrawn' \in [Accounts -> Tabs \cup {None}] /\ events' \in 0..MaxEvents
    BY <1>2, <1>4, <2>2, <2>4 DEF SendRequest
  <2>6. SameSessions
    <3>1. sessions \in Seq(Session)
      BY DEF IInv, ServerTypes
    <3>2. CASE sessions' = [s \in DOMAIN sessions |->
                             [sessions[s] EXCEPT !.live = @ /\ sessions[s].user # user]]
      <4>1. \A i \in 1..Len(sessions) :
              /\ sessions'[i] = [sessions[i] EXCEPT !.live = sessions[i].live /\ sessions[i].user # user]
              /\ (sessions[i].live /\ sessions[i].user # user) \in BOOLEAN
        BY <3>1, <3>2, SessionsTyped
      <4>2. \A i \in 1..Len(sessions) :
              /\ sessions'[i] \in Session
              /\ sessions'[i].user = sessions[i].user /\ sessions'[i].number = sessions[i].number
        <5> TAKE i \in 1..Len(sessions)
        <5>1. sessions[i] \in Session
          BY <3>1, SessionsTyped
        <5> QED
          BY <4>1, <5>1 DEF Session
      <4>3. sessions' \in Seq(Session) /\ Len(sessions') = Len(sessions)
        BY <3>1, <3>2, <4>2, SessionsTyped
      <4> QED
        BY <3>1, <4>2, <4>3, SessionsTyped DEF SameSessions
    <3> QED
      BY <1>2, <2>4, <3>2
  <2> DEFINE e == [d EXCEPT !.requests[k].step = "answered", !.requests[k].answer = code]
  <2>7. doc' = [doc EXCEPT ![t] = e]
    BY <1>1, <2>3 DEF Document, RequestState
  <2>8. Doc(e) /\ (Own(d) => Own(e)) /\ Follows(d, e)
    BY <1>1, <2>1, <2>3, ServedKeeps
  <2> HIDE DEF e
  <2> QED
    BY <1>2, <2>1, <2>5, <2>6, <2>7, <2>8, DocStep
<1>5. ASSUME ReceiveAnswer(t, k) PROVE IInv'
  <2> DEFINE e == Answered(d, k)
  <2>1. d.requests[k].step = "answered" /\ doc' = [doc EXCEPT ![t] = e]
    BY <1>5 DEF ReceiveAnswer
  <2>2. Doc(e) /\ (Own(d) => Own(e)) /\ Follows(d, e)
    BY <1>1, <2>1, AnsweredKeeps
  <2> HIDE DEF e
  <2> QED
    BY <1>2, <1>5, <2>1, <2>2, DocStep DEF ReceiveAnswer
<1>6. ASSUME Retry(t, k) PROVE IInv'
  <2> DEFINE c == [d EXCEPT !.requests[k].again = TRUE]
             e == IF CanRequest(d) THEN Requested(d, k) ELSE Failed(c, k, "AUTH_CONTEXT_CHANGED")
  <2>1. d.requests[k].step = "paused" /\ doc' = [doc EXCEPT ![t] = e]
    BY <1>6 DEF Retry
  <2>2. CASE CanRequest(d)
    <3>1. k = "me" \/ k = "withdraw"
      BY <1>1, <2>1 DEF Doc, RequestsFit, Kinds
    <3>2. k = "me" /\ d.phase = "anonymous" => d.flow = "loginLoad"
      <4>1. d.flow = "withdrawNative" => ~CanRequest(d)
        BY <1>1 DEF Doc, FlowFits, Leaving, CanRequest, ShouldRefreshAccessToken
      <4> QED
        BY <1>1, <2>1, <2>2, <4>1 DEF Doc, RequestsFit
    <3> QED
      BY <1>1, <1>2, <1>6, <2>1, <2>2, <3>1, <3>2, RequestedKeeps, DocStep DEF Retry
  <2>3. CASE ~CanRequest(d)
    <3>1. Doc(c) /\ (Own(d) => Own(c)) /\ Follows(d, c) /\ c.requests[k].step = "paused"
      BY <1>1, <2>1, AgainKeeps
    <3> HIDE DEF c
    <3>2. Doc(e) /\ (Own(c) => Own(e)) /\ Follows(c, e)
      BY <2>3, <3>1, FailedKeeps
    <3>3. Doc(e) /\ (Own(d) => Own(e)) /\ Follows(d, e)
      BY <1>1, <3>1, <3>2, FollowsTwice
    <3> HIDE DEF e
    <3> QED
      BY <1>2, <1>6, <2>1, <3>3, DocStep DEF Retry
  <2> QED
    BY <2>2, <2>3
<1> QED
  BY <1>3, <1>4, <1>5, <1>6

(* The sessions that were open keep their user.                            *)
SameUsers ==
  /\ Len(sessions') >= Len(sessions)
  /\ \A i \in 1..Len(sessions) : sessions'[i].user = sessions[i].user

(* What is in flight is of the account that it was of.                     *)
LEMMA CookieStaysOwn ==
  ASSUME IInv, SameUsers, cookie' \in {cookie, None},
         \A u \in Tabs \ foreign' : doc'[u].vault # None =>
           u \notin foreign /\ doc[u].vault # None /\ doc'[u].vault.user = doc[u].vault.user,
         \A u \in Tabs \ foreign' :
           wire'[u] # Idle /\ wire'[u].epoch = doc'[u].epoch /\ wire'[u].token # None =>
             /\ wire[u] # Idle /\ wire[u].epoch = doc[u].epoch /\ wire[u].token # None
             /\ wire'[u].token.session = wire[u].token.session
  PROVE  CookieIsOwn'
<1> SUFFICES ASSUME NEW u \in Tabs \ foreign', doc'[u].vault # None
             PROVE  /\ cookie' # None => sessions'[cookie'.session].user = doc'[u].vault.user
                    /\ wire'[u] # Idle /\ wire'[u].epoch = doc'[u].epoch /\ wire'[u].token # None =>
                         sessions'[wire'[u].token.session].user = doc'[u].vault.user
  BY DEF CookieIsOwn, UserOf
<1>1. /\ cookie # None => sessions[cookie.session].user = doc[u].vault.user
      /\ wire[u] # Idle /\ wire[u].epoch = doc[u].epoch /\ wire[u].token # None =>
           sessions[wire[u].token.session].user = doc[u].vault.user
  BY DEF IInv, CookieIsOwn, UserOf
<1>2. /\ cookie # None => cookie.session \in 1..Len(sessions)
      /\ wire[u] # Idle /\ wire[u].token # None => wire[u].token.session \in 1..Len(sessions)
  BY DEF IInv, TokensAreOpened, Opened
<1> QED
  BY <1>1, <1>2 DEF SameUsers

(* A refresh is sent with the cookie.                                      *)
LEMMA SendRefreshStep ==
  ASSUME IInv, NEW t \in Tabs, SendRefresh(t)
  PROVE  IInv'
<1> DEFINE w == [step |-> "sent", epoch |-> doc[t].epoch, token |-> cookie]
<1>1. /\ doc[t].refresh = doc[t].epoch /\ LockFree(t) /\ wire' = [wire EXCEPT ![t] = w]
      /\ UNCHANGED <<sessions, withdrawn, cookie, doc, post, news, foreign, events, lost, reused>>
  BY DEF SendRefresh
<1>2. Doc(doc[t]) /\ doc[t].epoch \in Nat /\ doc \in [Tabs -> Document]
  BY RequestsTyped DEF IInv, Documents, Doc
<1>3. /\ w \in Wires /\ w # Idle /\ w.step = "sent" /\ w.epoch = doc[t].epoch /\ w.token = cookie
      /\ cookie \in Tokens \cup {None} /\ wire \in [Tabs -> Wires]
  BY <1>2 DEF IInv, ServerTypes, Wires, Idle
<1> HIDE DEF w
<1>4. \A u \in Tabs : wire'[u] = IF u = t THEN w ELSE wire[u]
  BY <1>1, <1>3
<1>5. ServerTypes' /\ Documents'
  BY <1>1, <1>3 DEF IInv, ServerTypes, Documents
<1>6. TokensAreOpened'
  BY <1>1, <1>3, <1>4 DEF IInv, TokensAreOpened, Opened, NewToken
<1>7. FlightsFit'
  BY <1>1, <1>2, <1>3, <1>4 DEF IInv, FlightsFit, Doc, RefreshIsAllowed
<1>8. CookieIsOwn'
  BY <1>1, <1>3, <1>4 DEF IInv, CookieIsOwn, UserOf
<1>9. Rotation'
  <2> SUFFICES ASSUME HasLocks
               PROVE  OneRefresh' /\ ~reused' /\ (~lost' => TokensAreCurrent' /\ NewSessionsAreNew')
    BY DEF Rotation
  <2>1. OneRefresh /\ ~reused /\ (~lost => TokensAreCurrent /\ NewSessionsAreNew)
    BY DEF IInv, Rotation
  <2>2. \A u \in Tabs : wire[u] = Idle
    BY <1>1 DEF LockFree
  <2>3. OneRefresh'
    BY <1>4, <2>2 DEF OneRefresh
  <2>4. TokensAreCurrent => Current(cookie)
    BY <2>2 DEF TokensAreCurrent, Replacing
  <2>5. TokensAreCurrent => TokensAreCurrent'
    BY <1>1, <1>3, <1>4, <2>2, <2>4 DEF TokensAreCurrent, Current, NewToken
  <2>6. NewSessionsAreNew => NewSessionsAreNew'
    BY <1>1, <1>3, <1>4, <2>2 DEF NewSessionsAreNew, NewToken
  <2> QED
    BY <1>1, <2>1, <2>3, <2>5, <2>6
<1> QED
  BY <1>5, <1>6, <1>7, <1>8, <1>9 DEF IInv

(* The server rotates the token or refuses it.                             *)
LEMMA ServeRefreshStep ==
  ASSUME IInv, NEW t \in Tabs, ServeRefresh(t)
  PROVE  IInv'
<1> DEFINE token == wire[t].token
           next == [token EXCEPT !.number = @ + 1]
           i == token.session
           s == [sessions[i] EXCEPT !.number = @ + 1]
<1>1. /\ wire[t].step = "sent"
      /\ UNCHANGED <<withdrawn, cookie, doc, post, news, foreign, events, lost>>
  BY DEF ServeRefresh
<1>2. /\ wire \in [Tabs -> Wires] /\ wire[t] # Idle /\ wire[t].epoch \in Nat /\ token \in Tokens \cup {None}
      /\ sessions \in Seq(Session) /\ Opened(token)
  BY <1>1, FlightsTyped DEF IInv, ServerTypes, TokensAreOpened, Idle
<1>3. token # None => token \in Tokens /\ i \in 1..Len(sessions) /\ sessions[i] \in Session
                      /\ token.number \in Nat /\ sessions[i].number \in Nat
  BY <1>2, SessionsTyped DEF Opened, Tokens, Session
<1>4. token # None => /\ next \in Tokens /\ next.session = i /\ next.number = token.number + 1 /\ next # None
  BY <1>3 DEF Tokens
<1>5. CASE Refreshable(token)
  <2> DEFINE w == [step |-> "served", epoch |-> wire[t].epoch, token |-> next]
  <2>1. /\ sessions' = [sessions EXCEPT ![i].number = @ + 1]
        /\ wire' = [wire EXCEPT ![t] = w] /\ reused' = reused
    BY <1>5 DEF ServeRefresh
  <2>2. token # None /\ ~Used(token)
    BY <1>5 DEF Refreshable
  <2>3. w \in Wires /\ w # Idle /\ w.step = "served" /\ w.epoch = wire[t].epoch /\ w.token = next
    BY <1>2, <1>4, <2>2 DEF Wires, Idle
  <2> HIDE DEF w, next
  <2>4. \A u \in Tabs : wire'[u] = IF u = t THEN w ELSE wire[u]
    BY <1>2, <2>1
  <2>5. s \in Session /\ s.user = sessions[i].user /\ s.number = sessions[i].number + 1
        /\ sessions' = [sessions EXCEPT ![i] = s]
    BY <1>3, <2>1, <2>2 DEF Session
  <2>6. /\ sessions' \in Seq(Session) /\ Len(sessions') = Len(sessions)
        /\ \A j \in 1..Len(sessions) : sessions'[j] = IF j = i THEN s ELSE sessions[j]
    <3> HIDE DEF s, i
    <3> QED
      BY <1>2, <1>3, <2>2, <2>5, ExceptSeq
  <2>7. \A j \in 1..Len(sessions) : sessions'[j].user = sessions[j].user
    BY <2>5, <2>6
  <2>8. ServerTypes' /\ Documents'
    BY <1>1, <1>2, <2>1, <2>3, <2>6 DEF IInv, ServerTypes, Documents
  <2>9. TokensAreOpened'
    BY <1>1, <1>3, <1>4, <2>2, <2>3, <2>4, <2>6 DEF IInv, TokensAreOpened, Opened, NewToken
  <2>10. FlightsFit'
    BY <1>1, <1>2, <2>3, <2>4 DEF IInv, FlightsFit
  <2>11. CookieIsOwn'
    <3>1. SameUsers
      BY <2>6, <2>7, SessionsTyped, <1>2 DEF SameUsers
    <3> QED
      BY <1>1, <1>2, <1>4, <2>2, <2>3, <2>4, <3>1, CookieStaysOwn
  <2>12. Rotation'
    <3> SUFFICES ASSUME HasLocks
                 PROVE  OneRefresh' /\ ~reused' /\ (~lost' => TokensAreCurrent' /\ NewSessionsAreNew')
      BY DEF Rotation
    <3>1. OneRefresh /\ ~reused /\ (~lost => TokensAreCurrent /\ NewSessionsAreNew)
      BY DEF IInv, Rotation
    <3>2. \A u \in Tabs \ {t} : wire[u] = Idle
      BY <1>2, <3>1 DEF OneRefresh
    <3>3. OneRefresh'
      BY <2>4, <3>2 DEF OneRefresh
    <3>4. NewSessionsAreNew => NewSessionsAreNew'
      BY <1>1, <1>2, <1>3, <1>4, <2>2, <2>3, <2>4, <3>2 DEF NewSessionsAreNew, NewToken
    <3>5. ASSUME TokensAreCurrent, NewSessionsAreNew PROVE TokensAreCurrent'
      <4>1. token.number = sessions[i].number
        BY <1>2, <2>2, <3>5 DEF TokensAreCurrent, Current
      <4>2. \A u \in Tabs : wire'[u] # Idle => wire'[u].token.number = sessions'[wire'[u].token.session].number
        BY <1>3, <1>4, <2>2, <2>3, <2>4, <2>5, <2>6, <3>2, <4>1
      <4>3. \A u \in Tabs : NewToken(u)' => post'[u].token.number = sessions'[post'[u].token.session].number
        <5> TAKE u \in Tabs
        <5> HAVE NewToken(u)'
        <5>1. NewToken(u) /\ post'[u] = post[u]
          BY <1>1 DEF NewToken
        <5>2. post[u].token \in Tokens /\ post[u].token.session \in 1..Len(sessions)
              /\ post[u].token # None
          BY <5>1, FlightsTyped DEF IInv, TokensAreOpened, Opened, Tokens
        <5>3. post[u].token.session # i
          BY <1>2, <2>2, <3>5, <5>1 DEF NewSessionsAreNew
        <5>4. Current(post[u].token)
          BY <3>5, <5>1 DEF TokensAreCurrent
        <5> QED
          BY <2>6, <5>1, <5>2, <5>3, <5>4 DEF Current
      <4>4. Current(cookie)' \/ \E u \in Tabs : Replacing(u)' /\ wire'[u].token.session = cookie'.session
        <5>1. Current(cookie)
          BY <1>1, <1>2, <3>2, <3>5 DEF TokensAreCurrent, Replacing
        <5>2. CASE cookie = None
          BY <1>1, <5>2 DEF Current
        <5>3. CASE cookie # None /\ cookie.session = i
          BY <1>1, <1>4, <2>2, <2>3, <2>4, <5>3 DEF Replacing
        <5>4. CASE cookie # None /\ cookie.session # i
          BY <1>1, <2>6, <5>1, <5>4 DEF Current, IInv, TokensAreOpened, Opened
        <5> QED
          BY <5>2, <5>3, <5>4
      <4> QED
        BY <4>2, <4>3, <4>4 DEF TokensAreCurrent, Current
    <3> QED
      BY <1>1, <2>1, <3>1, <3>3, <3>4, <3>5
  <2> QED
    BY <2>8, <2>9, <2>10, <2>11, <2>12 DEF IInv
<1>6. CASE ~Refreshable(token)
  <2> DEFINE w == [step |-> "served", epoch |-> wire[t].epoch, token |-> None]
  <2>1. /\ sessions' = sessions \/ (token # None /\ sessions' = Ending(token))
        /\ wire' = [wire EXCEPT ![t] = w]
        /\ reused' = (reused \/ (token # None /\ Used(token)
                                 /\ sessions[token.session].live /\ ~lost))
    BY <1>6 DEF ServeRefresh
  <2>2. SameSessions
    BY <1>2, <1>3, <2>1, EndingKeeps, UnchangedSessions
  <2>3. w \in Wires /\ w # Idle /\ w.step = "served" /\ w.epoch = wire[t].epoch /\ w.token = None
    BY <1>2 DEF Wires, Idle
  <2> HIDE DEF w
  <2>4. \A u \in Tabs : wire'[u] = IF u = t THEN w ELSE wire[u]
    BY <1>2, <2>1
  <2>5. ServerTypes' /\ Documents'
    <3>1. reused' \in BOOLEAN
      BY <2>1 DEF IInv, ServerTypes
    <3> QED
      BY <1>1, <1>2, <2>1, <2>2, <2>3, <3>1 DEF IInv, ServerTypes, Documents, SameSessions
  <2>6. TokensAreOpened'
    BY <1>1, <1>2, <2>2, <2>3, <2>4, SessionsTyped DEF IInv, TokensAreOpened, Opened, NewToken, SameSessions
  <2>7. FlightsFit'
    BY <1>1, <1>2, <2>3, <2>4 DEF IInv, FlightsFit
  <2>8. CookieIsOwn'
    <3>1. SameUsers
      BY <2>2 DEF SameSessions, SameUsers
    <3> QED
      BY <1>1, <1>2, <2>3, <2>4, <3>1, CookieStaysOwn
  <2>9. Rotation'
    <3> SUFFICES ASSUME HasLocks
                 PROVE  OneRefresh' /\ ~reused' /\ (~lost' => TokensAreCurrent' /\ NewSessionsAreNew')
      BY DEF Rotation
    <3>1. OneRefresh /\ ~reused /\ (~lost => TokensAreCurrent /\ NewSessionsAreNew)
      BY DEF IInv, Rotation
    <3>2. \A u \in Tabs \ {t} : wire[u] = Idle
      BY <1>2, <3>1 DEF OneRefresh
    <3>3. OneRefresh'
      BY <2>4, <3>2 DEF OneRefresh
    <3>4. ~reused'
      <4>1. ~lost /\ token # None => token.number = sessions[token.session].number
        BY <1>2, <3>1 DEF TokensAreCurrent, Current
      <4>2. ~lost /\ token # None => ~Used(token)
        BY <1>3, <4>1 DEF Used
      <4> QED
        BY <2>1, <3>1, <4>2
    <3>5. NewSessionsAreNew => NewSessionsAreNew'
      BY <1>1, <2>3, <2>4, <3>2 DEF NewSessionsAreNew, NewToken
    <3>6. ASSUME TokensAreCurrent PROVE TokensAreCurrent'
      <4>1. Current(cookie)
        BY <1>1, <1>2, <3>2, <3>6 DEF TokensAreCurrent, Replacing
      <4>2. cookie' # None => cookie'.number = sessions'[cookie'.session].number
        BY <1>1, <2>2, <4>1 DEF Current, SameSessions, IInv, TokensAreOpened, Opened
      <4>3. \A u \in Tabs : wire'[u] # Idle => wire'[u].token = None
        BY <2>3, <2>4, <3>2
      <4>4. ASSUME NEW u \in Tabs, NewToken(u)'
            PROVE  post'[u].token.number = sessions'[post'[u].token.session].number
        <5>1. NewToken(u) /\ post'[u] = post[u]
          BY <1>1, <4>4 DEF NewToken
        <5>2. post[u].token # None /\ post[u].token.session \in 1..Len(sessions)
          BY <5>1, FlightsTyped DEF IInv, TokensAreOpened, Opened, Tokens
        <5> QED
          BY <2>2, <3>6, <5>1, <5>2 DEF SameSessions, TokensAreCurrent, Current
      <4> QED
        BY <4>2, <4>3, <4>4 DEF TokensAreCurrent, Current
    <3> QED
      BY <1>1, <3>1, <3>3, <3>4, <3>5, <3>6
  <2> QED
    BY <2>5, <2>6, <2>7, <2>8, <2>9 DEF IInv
<1> QED
  BY <1>5, <1>6

(* A step of one tab that ends what it has in flight or keeps it, and      *)
(* brings no new token into the browser.                                   *)
LEMMA TabStep ==
  ASSUME IInv, NEW t \in Tabs, NEW e, Doc(e), doc' = [doc EXCEPT ![t] = e],
         SameSessions, withdrawn' = withdrawn, cookie' \in {cookie, None},
         news' \subseteq Tabs, events' \in 0..MaxEvents, lost' \in BOOLEAN, reused' = reused,
         foreign' \in {foreign, foreign \ {t}}, t \notin foreign' => Own(e),
         \/ wire' = wire /\ lost' = lost /\ (\/ e.epoch > doc[t].epoch
                                             \/ e.epoch = doc[t].epoch /\ e.allowed = doc[t].allowed)
         \/ wire' = [wire EXCEPT ![t] = Idle] /\ lost' = (lost \/ Replacing(t)),
         post' \in [Tabs -> Posts], \A u \in Tabs \ {t} : post'[u] = post[u],
         NewToken(t)' => post'[t] = post[t],
         post'[t] # Idle => e.flow = (IF post'[t].kind = "logout" THEN "logoutPost" ELSE "loginPost"),
         e.vault = None \/ (foreign' = foreign /\ doc[t].vault # None /\ e.vault.user = doc[t].vault.user)
  PROVE  IInv'
<1>1. /\ wire \in [Tabs -> Wires] /\ post \in [Tabs -> Posts] /\ doc \in [Tabs -> Document]
      /\ doc[t].epoch \in Nat /\ e.epoch \in Nat /\ Idle \in Wires
  BY RequestsTyped DEF IInv, ServerTypes, Documents, Doc, Wires
<1>2. /\ \A u \in Tabs : doc'[u] = IF u = t THEN e ELSE doc[u]
      /\ \A u \in Tabs \ {t} : wire'[u] = wire[u]
      /\ wire'[t] # Idle => wire'[t] = wire[t] /\ (\/ e.epoch > doc[t].epoch
                                                   \/ e.epoch = doc[t].epoch /\ e.allowed = doc[t].allowed)
  BY <1>1
<1>3. ServerTypes'
  <2>1. wire' \in [Tabs -> Wires]
    BY <1>1
  <2> QED
    BY <2>1 DEF IInv, ServerTypes, SameSessions
<1>4. \A u \in Tabs : NewToken(u)' => NewToken(u) /\ post'[u] = post[u]
  BY <1>2 DEF NewToken
<1>5. TokensAreOpened'
  BY <1>2, <1>4, SessionsTyped DEF IInv, ServerTypes, TokensAreOpened, Opened, SameSessions
<1>6. Documents'
  BY DocumentsStep DEF IInv
<1>7. FlightsFit'
  BY <1>1, <1>2, FlightsTyped DEF IInv, FlightsFit
<1>8. CookieIsOwn'
  <2>1. SameUsers
    BY DEF SameSessions, SameUsers
  <2>2. \A u \in Tabs \ foreign' : doc'[u].vault # None =>
          u \notin foreign /\ doc[u].vault # None /\ doc'[u].vault.user = doc[u].vault.user
    BY <1>2
  <2>3. \A u \in Tabs : wire'[u] # Idle /\ wire'[u].epoch = doc'[u].epoch =>
          wire'[u] = wire[u] /\ wire[u].epoch = doc[u].epoch
    BY <1>1, <1>2, FlightsTyped DEF IInv, FlightsFit
  <2> QED
    BY <2>1, <2>2, <2>3, CookieStaysOwn
<1>9. Rotation'
  <2> SUFFICES ASSUME HasLocks
               PROVE  OneRefresh' /\ ~reused' /\ (~lost' => TokensAreCurrent' /\ NewSessionsAreNew')
    BY DEF Rotation
  <2>1. OneRefresh /\ ~reused /\ (~lost => TokensAreCurrent /\ NewSessionsAreNew)
    BY DEF IInv, Rotation
  <2>2. \A u \in Tabs : wire'[u] # Idle => wire'[u] = wire[u]
    BY <1>2
  <2>3. OneRefresh'
    BY <2>1, <2>2 DEF OneRefresh
  <2>4. ASSUME ~lost' PROVE NewSessionsAreNew'
    BY <1>4, <2>1, <2>2, <2>4 DEF NewSessionsAreNew
  <2>5. ASSUME ~lost' PROVE TokensAreCurrent'
    <3>1. TokensAreCurrent
      BY <2>1, <2>5
    <3>2. \A u \in Tabs : Replacing(u) => wire'[u] = wire[u]
      BY <1>2, <2>5
    <3>3. \A u \in Tabs : wire'[u] # Idle /\ wire'[u].token # None =>
            wire'[u].token.number = sessions'[wire'[u].token.session].number
      BY <2>2, <3>1 DEF TokensAreCurrent, Current, IInv, TokensAreOpened, Opened, SameSessions
    <3>4. ASSUME NEW u \in Tabs, NewToken(u)', post'[u].token # None
          PROVE  post'[u].token.number = sessions'[post'[u].token.session].number
      BY <1>4, <3>1, <3>4 DEF TokensAreCurrent, Current, IInv, TokensAreOpened, Opened, SameSessions
    <3>5. CASE cookie' = None
      BY <3>3, <3>4, <3>5 DEF TokensAreCurrent, Current
    <3>6. CASE cookie' = cookie /\ cookie # None
      <4>1. cookie.number = sessions[cookie.session].number =>
              cookie'.number = sessions'[cookie'.session].number
        BY <3>6 DEF IInv, TokensAreOpened, Opened, SameSessions
      <4>2. \A u \in Tabs : Replacing(u) /\ wire[u].token.session = cookie.session =>
              Replacing(u)' /\ wire'[u].token.session = cookie'.session
        BY <3>2, <3>6 DEF Replacing
      <4> QED
        BY <3>1, <3>3, <3>4, <4>1, <4>2 DEF TokensAreCurrent, Current
    <3> QED
      BY <3>5, <3>6
  <2> QED
    BY <2>1, <2>3, <2>4, <2>5
<1> QED
  BY <1>3, <1>5, <1>6, <1>7, <1>8, <1>9 DEF IInv

LEMMA IdlePost ==
  ASSUME post \in [Tabs -> Posts], NEW t \in Tabs, post' = [post EXCEPT ![t] = Idle]
  PROVE  /\ post' \in [Tabs -> Posts] /\ post'[t] = Idle /\ \A u \in Tabs \ {t} : post'[u] = post[u]
         /\ ~NewToken(t)'
<1>1. Idle \in Posts
  BY DEF Posts
<1>2. post'[t] = Idle
  OBVIOUS
<1> QED
  BY <1>1, <1>2 DEF NewToken

(* A refresh whose answer is lost, and a page that is loaded again.        *)
LEMMA EndingSteps ==
  ASSUME IInv, NEW t \in Tabs
  PROVE  (RefreshLost(t) => IInv') /\ (Reload(t) => IInv')
<1> DEFINE d == doc[t]
<1>0. post \in [Tabs -> Posts]
  BY DEF IInv, ServerTypes
<1>1. /\ Doc(d) /\ (t \notin foreign => Own(d)) /\ doc \in [Tabs -> Document]
      /\ sessions \in Seq(Session) /\ news \subseteq Tabs /\ events \in 0..MaxEvents
      /\ events < MaxEvents => events + 1 \in 0..MaxEvents
      /\ sessions' = sessions => SameSessions
      /\ wire[t] # Idle => wire[t].step \in {"sent", "served"}
      /\ lost \in BOOLEAN
  BY UnchangedSessions, FlightsTyped DEF IInv, Documents, ServerTypes, Posts
<1>2. ASSUME RefreshLost(t) PROVE IInv'
  <2> DEFINE e == IF wire[t].epoch = d.epoch THEN RefreshFailed(d) ELSE d
  <2>1. /\ wire[t] # Idle /\ doc' = [doc EXCEPT ![t] = e] /\ wire' = [wire EXCEPT ![t] = Idle]
        /\ lost' = (lost \/ Replacing(t)) /\ events' \in 0..MaxEvents
        /\ UNCHANGED <<sessions, withdrawn, cookie, post, news, foreign, reused>>
    BY <1>1, <1>2 DEF RefreshLost, Replacing
  <2>2. wire[t].epoch = d.epoch => d.allowed
    BY <2>1 DEF IInv, FlightsFit
  <2>3. Doc(e) /\ (Own(d) => Own(e)) /\ Follows(d, e)
    BY <1>1, <2>2, RefreshFailedKeeps DEF Follows
  <2> HIDE DEF e
  <2>4. post[t] # Idle => e.flow = (IF post[t].kind = "logout" THEN "logoutPost" ELSE "loginPost")
    BY <2>3 DEF IInv, FlightsFit, Follows
  <2>5. post' \in [Tabs -> Posts] /\ post' = post
    BY <1>0, <1>2 DEF RefreshLost
  <2>7. lost' \in BOOLEAN
    BY <2>1
  <2>6. e.vault # None => d.vault # None /\ e.vault.user = d.vault.user
    BY <2>3 DEF Follows
  <2> QED
    BY <1>1, <2>1, <2>3, <2>4, <2>5, <2>6, <2>7, TabStep
<1>3. ASSUME Reload(t) PROVE IInv'
  <2>1. /\ doc' = [doc EXCEPT ![t] = NewDocument] /\ wire' = [wire EXCEPT ![t] = Idle]
        /\ post' = [post EXCEPT ![t] = Idle] /\ foreign' = foreign \ {t}
        /\ lost' = (lost \/ Replacing(t)) /\ events' \in 0..MaxEvents /\ news' \subseteq Tabs
        /\ UNCHANGED <<sessions, withdrawn, cookie, reused>>
    BY <1>1, <1>3 DEF Reload, Reloading, Replacing
  <2>2. /\ post' \in [Tabs -> Posts] /\ post'[t] = Idle /\ \A u \in Tabs \ {t} : post'[u] = post[u]
        /\ ~NewToken(t)'
    <3>1. post' = [post EXCEPT ![t] = Idle]
      BY <2>1
    <3> QED
      BY <1>0, <3>1, IdlePost
  <2>4. lost' \in BOOLEAN
    BY <2>1
  <2>3. NewDocument.vault = None
    BY DEF NewDocument
  <2> QED
    BY <1>1, <2>1, <2>2, <2>3, <2>4, NewDocumentIsSound, TabStep
<1> QED
  BY <1>2, <1>3

(* The steps of a log-out.                                                 *)
LEMMA LogoutSteps ==
  ASSUME IInv, NEW t \in Tabs
  PROVE  (SendLogout(t) => IInv') /\ (LogoutAnswered(t) \/ LogoutLost(t) => IInv')
<1> DEFINE d == doc[t]
<1>0. post \in [Tabs -> Posts]
  BY DEF IInv, ServerTypes
<1>1. /\ Doc(d) /\ (t \notin foreign => Own(d)) /\ doc \in [Tabs -> Document] /\ d \in Document
      /\ sessions \in Seq(Session) /\ news \subseteq Tabs /\ events \in 0..MaxEvents
      /\ events < MaxEvents => events + 1 \in 0..MaxEvents
      /\ sessions' = sessions => SameSessions
      /\ wire[t] # Idle => wire[t].step \in {"sent", "served"}
      /\ lost \in BOOLEAN /\ cookie \in Tokens \cup {None}
  BY UnchangedSessions, FlightsTyped DEF IInv, Documents, Doc, ServerTypes, Posts
<1>2. post[t] # Idle => d.flow \in {"loginPost", "logoutPost"}
  BY DEF IInv, FlightsFit
<1>3. ASSUME d.flow \in {"logoutNative", "logoutPost"}, d.since # d.epoch,
             doc' = [doc EXCEPT ![t].flow = "none"]
      PROVE  \E e : /\ Doc(e) /\ (Own(d) => Own(e)) /\ e.vault = None /\ doc' = [doc EXCEPT ![t] = e]
                    /\ e.epoch = d.epoch /\ e.allowed = d.allowed
  <2> DEFINE e == [d EXCEPT !.flow = "none", !.loginError = d.loginError]
  <2>1. doc' = [doc EXCEPT ![t] = e] /\ d.loginError \in BOOLEAN
    BY <1>1, <1>3, FieldsTyped DEF Document
  <2>2. d.flow \in Leaving /\ d.phase # "authenticated" /\ d.vault = None
    BY <1>1, <1>3 DEF Doc, FlowFits, Leaving
  <2>3. \E error \in BOOLEAN : e = [d EXCEPT !.flow = "none", !.loginError = error]
    BY <2>1
  <2> HIDE DEF e
  <2>4. d.flow \in Leaving \cup {"loginPost"} /\ (d.requests["me"].step = "idle" \/ d.flow # "withdrawNative")
    BY <1>3, <2>2
  <2>5. Doc(e) /\ (Own(d) => Own(e)) /\ e.vault = d.vault /\ e.epoch = d.epoch /\ e.allowed = d.allowed
    BY <1>1, <2>2, <2>3, <2>4, FlowEndKeeps
  <2> QED
    BY <2>1, <2>2, <2>5
<1>4. ASSUME SendLogout(t) PROVE IInv'
  <2>1. /\ d.flow = "logoutNative" /\ post[t] = Idle
        /\ UNCHANGED <<sessions, withdrawn, cookie, wire, news, foreign, events, lost, reused>>
    BY <1>2, <1>4 DEF SendLogout
  <2>2. CASE d.since = d.epoch
    <3> DEFINE e == [d EXCEPT !.flow = "logoutPost"]
               p == [step |-> "sent", kind |-> "logout", token |-> cookie]
    <3>1. doc' = [doc EXCEPT ![t] = e] /\ post' = [post EXCEPT ![t] = p]
      BY <1>1, <1>4, <2>2 DEF SendLogout
    <3>2. Doc(e) /\ (Own(d) => Own(e)) /\ e.vault = d.vault /\ e.epoch = d.epoch /\ e.allowed = d.allowed
      BY <1>1, <2>1, LogoutSentKeeps
    <3>3. e.flow = "logoutPost" /\ d.vault = None
      BY <1>1, <2>1 DEF Document, Doc, FlowFits, Leaving
    <3>4. p \in Posts /\ p.kind = "logout"
      BY <1>1 DEF Posts
    <3> HIDE DEF e, p
    <3>5. /\ post' \in [Tabs -> Posts] /\ post'[t] = p /\ \A u \in Tabs \ {t} : post'[u] = post[u]
      BY <1>0, <3>1, <3>4
    <3>6. ~NewToken(t)'
      BY <3>4, <3>5 DEF NewToken
    <3> QED
      BY <1>1, <2>1, <3>1, <3>2, <3>3, <3>4, <3>5, <3>6, TabStep
  <2>3. CASE d.since # d.epoch
    <3>1. doc' = [doc EXCEPT ![t].flow = "none"] /\ post' = post
      BY <1>4, <2>3 DEF SendLogout
    <3>3. post' \in [Tabs -> Posts] /\ post'[t] = Idle
      <4>1. post[t] = Idle
        BY <2>1
      <4> QED
        BY <1>0, <3>1, <4>1
    <3>2. PICK e : /\ Doc(e) /\ (Own(d) => Own(e)) /\ e.vault = None /\ doc' = [doc EXCEPT ![t] = e]
                   /\ e.epoch = d.epoch /\ e.allowed = d.allowed
      BY <1>3, <2>1, <2>3, <3>1
    <3> QED
      BY <1>1, <2>1, <3>1, <3>2, <3>3, TabStep
  <2> QED
    BY <2>2, <2>3
<1>5. ASSUME LogoutAnswered(t) \/ LogoutLost(t) PROVE IInv'
  <2>1. /\ d.flow = "logoutPost" /\ post[t] # Idle /\ LogoutEnds(t) /\ cookie' \in {cookie, None}
        /\ events' \in 0..MaxEvents /\ UNCHANGED <<sessions, withdrawn, reused>>
    <3>1. post[t] # Idle /\ post[t].kind = "logout"
      BY <1>5 DEF LogoutAnswered, LogoutLost, Idle
    <3> QED
      BY <1>1, <1>5, <3>1 DEF LogoutAnswered, LogoutLost, IInv, FlightsFit
  <2>2. post' = [post EXCEPT ![t] = Idle] /\ news' \subseteq Tabs
    BY <1>1, <2>1 DEF LogoutEnds, Reloading
  <2>5. /\ post' \in [Tabs -> Posts] /\ post'[t] = Idle /\ \A u \in Tabs \ {t} : post'[u] = post[u]
        /\ ~NewToken(t)'
    BY <1>0, <2>2, IdlePost
  <2>3. CASE d.since = d.epoch
    <3>1. /\ doc' = [doc EXCEPT ![t] = NewDocument] /\ wire' = [wire EXCEPT ![t] = Idle]
          /\ foreign' = foreign \ {t} /\ lost' = (lost \/ Replacing(t)) /\ lost' \in BOOLEAN
      BY <1>1, <2>1, <2>3 DEF LogoutEnds, Reloading, Replacing
    <3>2. NewDocument.vault = None
      BY DEF NewDocument
    <3> QED
      BY <1>1, <2>1, <2>2, <2>5, <3>1, <3>2, NewDocumentIsSound, TabStep
  <2>4. CASE d.since # d.epoch
    <3>1. doc' = [doc EXCEPT ![t].flow = "none"] /\ UNCHANGED <<wire, news, foreign, lost>>
      BY <2>1, <2>4 DEF LogoutEnds
    <3>2. PICK e : /\ Doc(e) /\ (Own(d) => Own(e)) /\ e.vault = None /\ doc' = [doc EXCEPT ![t] = e]
                   /\ e.epoch = d.epoch /\ e.allowed = d.allowed
      BY <1>3, <2>1, <2>4, <3>1
    <3> QED
      BY <1>1, <2>1, <2>2, <2>5, <3>1, <3>2, TabStep
  <2> QED
    BY <2>3, <2>4
<1> QED
  BY <1>4, <1>5

(* The steps of a log-in or a sign-up that bring no token.                 *)
LEMMA LoginSteps ==
  ASSUME IInv, NEW t \in Tabs
  PROVE  /\ \A a \in Accounts, kind \in {"login", "signUp"} : BeginSession(t, kind, a) => IInv'
         /\ SessionRefused(t) => IInv'
         /\ SessionLost(t) => IInv'
<1> DEFINE d == doc[t]
<1>0. post \in [Tabs -> Posts]
  BY DEF IInv, ServerTypes
<1>1. /\ Doc(d) /\ (t \notin foreign => Own(d)) /\ doc \in [Tabs -> Document] /\ d \in Document
      /\ sessions \in Seq(Session) /\ news \subseteq Tabs /\ events \in 0..MaxEvents
      /\ events < MaxEvents => events + 1 \in 0..MaxEvents
      /\ sessions' = sessions => SameSessions
      /\ lost \in BOOLEAN
      /\ d.epoch \in Nat
  BY UnchangedSessions, RequestsTyped DEF IInv, Documents, Doc, ServerTypes, Posts
<1>2. Abandoned(d.requests) \in [Kinds -> RequestState]
  BY <1>1, AbandonedTyped, RequestsTyped
<1>3. ASSUME d.flow = "loginPost", NEW e, \E error \in BOOLEAN : e = [d EXCEPT !.flow = "none", !.loginError = error]
      PROVE  Doc(e) /\ (Own(d) => Own(e)) /\ e.vault = None /\ e.epoch = d.epoch /\ e.allowed = d.allowed
  <2>1. d.vault = None /\ d.phase # "authenticated"
    BY <1>1, <1>3 DEF Doc, FlowFits
  <2>2. d.flow \in Leaving \cup {"loginPost"} /\ d.flow # "withdrawNative"
    BY <1>3
  <2> QED
    BY <1>1, <1>3, <2>1, <2>2, FlowEndKeeps
<1>4. ASSUME NEW a \in Accounts, NEW kind \in {"login", "signUp"}, BeginSession(t, kind, a)
      PROVE  IInv'
  <2> DEFINE r == Abandoned(d.requests)
             e == [d EXCEPT !.epoch = d.epoch + 1, !.user = None, !.allowed = FALSE, !.requests = r,
                            !.vault = None, !.flow = "loginPost", !.since = d.epoch + 1, !.loginError = FALSE]
             p == [step |-> "sent", kind |-> kind, account |-> a]
  <2>1. d.phase = "anonymous" /\ d.flow = "none" /\ post' = [post EXCEPT ![t] = p] /\ events' \in 0..MaxEvents
        /\ UNCHANGED <<sessions, withdrawn, cookie, wire, news, foreign, lost, reused>>
    BY <1>1, <1>4 DEF BeginSession, PublicPages
  <2>2. doc' = [doc EXCEPT ![t] = e]
    BY <1>1, <1>4 DEF BeginSession, AdvanceAuthContext, Document
  <2>3. /\ e \in Document /\ e.epoch = d.epoch + 1 /\ e.user = None /\ e.vault = None
        /\ e.requests = r /\ e.phase = d.phase /\ e.me = d.me /\ e.flow = "loginPost"
        /\ e.allowed = FALSE /\ e.refresh = d.refresh
    <3> HIDE DEF r
    <3>1. "loginPost" \in Flows /\ d.epoch + 1 \in Nat /\ r \in [Kinds -> RequestState]
      BY <1>1, <1>2 DEF Flows, r
    <3> QED
      BY <1>1, <3>1 DEF Document
  <2> HIDE DEF e
  <2>4. Doc(e) /\ Own(e) /\ e.epoch > d.epoch
    BY <1>1, <2>1, <2>3, DropKeeps
  <2>5. p \in Posts /\ p.kind # "logout" /\ p.step = "sent"
    BY DEF Posts
  <2> HIDE DEF p
  <2>6. /\ post' \in [Tabs -> Posts] /\ post'[t] = p /\ \A u \in Tabs \ {t} : post'[u] = post[u]
    BY <1>0, <2>1, <2>5
  <2>7. ~NewToken(t)'
    BY <2>5, <2>6 DEF NewToken
  <2> QED
    BY <1>1, <2>1, <2>2, <2>3, <2>4, <2>5, <2>6, <2>7, TabStep
<1>5. ASSUME SessionRefused(t) PROVE IInv'
  <2> DEFINE e == [d EXCEPT !.flow = "none", !.loginError = d.loginError]
  <2>1. /\ d.flow = "loginPost" /\ post' = [post EXCEPT ![t] = Idle]
        /\ UNCHANGED <<sessions, withdrawn, cookie, wire, news, foreign, events, lost, reused>>
    BY <1>5 DEF SessionRefused, IInv, FlightsFit, Idle
  <2>2. doc' = [doc EXCEPT ![t] = e] /\ d.loginError \in BOOLEAN
    BY <1>1, <1>5, FieldsTyped DEF SessionRefused, Document
  <2>3. \E error \in BOOLEAN : e = [d EXCEPT !.flow = "none", !.loginError = error]
    BY <2>2
  <2> HIDE DEF e
  <2>4. Doc(e) /\ (Own(d) => Own(e)) /\ e.vault = None /\ e.epoch = d.epoch /\ e.allowed = d.allowed
    BY <1>3, <2>1, <2>3
  <2>5. /\ post' \in [Tabs -> Posts] /\ post'[t] = Idle /\ \A u \in Tabs \ {t} : post'[u] = post[u]
        /\ ~NewToken(t)'
    BY <1>0, <2>1, IdlePost
  <2> QED
    BY <1>1, <2>1, <2>2, <2>4, <2>5, TabStep
<1>6. ASSUME SessionLost(t) PROVE IInv'
  <2>1. /\ d.flow = "loginPost" /\ post' = [post EXCEPT ![t] = Idle] /\ events' \in 0..MaxEvents
        /\ UNCHANGED <<sessions, withdrawn, cookie, wire, news, foreign, lost, reused>>
    BY <1>1, <1>6 DEF SessionLost, IInv, FlightsFit
  <2>2. /\ post' \in [Tabs -> Posts] /\ post'[t] = Idle /\ \A u \in Tabs \ {t} : post'[u] = post[u]
        /\ ~NewToken(t)'
    BY <1>0, <2>1, IdlePost
  <2>3. CASE post[t].kind = "signUp" /\ d.since = d.epoch
    <3> DEFINE r == Abandoned(d.requests)
               e == [d EXCEPT !.epoch = d.epoch + 1, !.user = None, !.allowed = TRUE, !.requests = r,
                              !.flow = "recoverRefresh", !.since = d.epoch + 1, !.refresh = d.epoch + 1]
    <3>1. doc' = [doc EXCEPT ![t] = e]
      BY <1>1, <1>6, <2>3 DEF SessionLost, AdvanceAuthContext, Document
    <3>2. d.vault = None
      BY <1>1, <2>1 DEF Doc, FlowFits
    <3>3. /\ e \in Document /\ e.epoch = d.epoch + 1 /\ e.user = None /\ e.vault = None
          /\ e.requests = r /\ e.phase = d.phase /\ e.me = d.me /\ e.flow = "recoverRefresh"
          /\ e.allowed = TRUE /\ e.refresh = e.epoch
      <4> HIDE DEF r
      <4>1. "recoverRefresh" \in Flows /\ d.epoch + 1 \in Nat /\ r \in [Kinds -> RequestState]
        BY <1>1, <1>2 DEF Flows, Loading, r
      <4> QED
        BY <1>1, <3>2, <4>1, ZenonT(30) DEF Document
    <3> HIDE DEF e
    <3>4. Doc(e) /\ Own(e) /\ e.epoch > d.epoch
      BY <1>1, <2>1, <3>3, DropKeeps
    <3> QED
      BY <1>1, <2>1, <2>2, <3>1, <3>3, <3>4, TabStep
  <2>4. CASE ~(post[t].kind = "signUp" /\ d.since = d.epoch)
    <3> DEFINE e == [d EXCEPT !.flow = "none", !.loginError = (d.since = d.epoch)]
    <3>1. doc' = [doc EXCEPT ![t] = e]
      BY <1>6, <2>4 DEF SessionLost
    <3>2. \E error \in BOOLEAN : e = [d EXCEPT !.flow = "none", !.loginError = error]
      <4>1. (d.since = d.epoch) \in BOOLEAN
        OBVIOUS
      <4> HIDE DEF d
      <4> QED
        BY <4>1
    <3> HIDE DEF e
    <3>3. Doc(e) /\ (Own(d) => Own(e)) /\ e.vault = None /\ e.epoch = d.epoch /\ e.allowed = d.allowed
      BY <1>3, <2>1, <3>2
    <3> QED
      BY <1>1, <2>1, <2>2, <3>1, <3>3, TabStep
  <2> QED
    BY <2>3, <2>4
<1> QED
  BY <1>4, <1>5, <1>6

(* The server answers a log-out or a log-in.                               *)
LEMMA ServePostStep ==
  ASSUME IInv, NEW t \in Tabs, ServePost(t)
  PROVE  IInv'
<1> DEFINE d == doc[t]
           p == post[t]
<1>0. /\ post \in [Tabs -> Posts] /\ p \in Posts /\ sessions \in Seq(Session) /\ cookie \in Tokens \cup {None}
      /\ wire \in [Tabs -> Wires] /\ withdrawn \in [Accounts -> Tabs \cup {None}]
  BY DEF IInv, ServerTypes
<1>1. Doc(d) /\ (t \notin foreign => Own(d)) /\ doc \in [Tabs -> Document]
  BY DEF IInv, Documents
<1>2. /\ p.step = "sent" /\ p # Idle
      /\ UNCHANGED <<withdrawn, cookie, doc, wire, news, foreign, events, lost, reused>>
  BY DEF ServePost, Idle
<1>3. /\ p.kind = "logout" => p.token \in Tokens \cup {None} /\ d.flow = "logoutPost"
      /\ p.kind # "logout" => p.kind \in {"login", "signUp"} /\ p.account \in Accounts /\ d.flow = "loginPost"
  BY <1>0, <1>2 DEF Posts, IInv, FlightsFit, Idle
<1>4. d.vault = None
  BY <1>1, <1>3 DEF Doc, FlowFits, Leaving
<1>5. doc' = [doc EXCEPT ![t] = d] /\ events' \in 0..MaxEvents /\ news' \subseteq Tabs
  BY <1>1, <1>2 DEF IInv, ServerTypes
<1>6. ASSUME SameSessions, NEW q \in Posts, post' = [post EXCEPT ![t] = q], q # Idle,
             q.kind = "logout" <=> p.kind = "logout", q.kind \in {"refused", "logout"}
      PROVE  IInv'
  <2>1. /\ post' \in [Tabs -> Posts] /\ post'[t] = q /\ \A u \in Tabs \ {t} : post'[u] = post[u]
    BY <1>0, <1>6
  <2>2. ~NewToken(t)'
    BY <1>6, <2>1 DEF NewToken
  <2>3. lost' \in BOOLEAN /\ lost' = lost
    BY <1>2 DEF IInv, ServerTypes
  <2> QED
    BY <1>1, <1>2, <1>3, <1>4, <1>5, <1>6, <2>1, <2>2, <2>3, TabStep
<1>7. CASE p.kind = "logout"
  <2> DEFINE q == [step |-> "served", kind |-> "logout", token |-> None]
  <2>1. /\ sessions' = IF p.token = None THEN sessions ELSE Ending(p.token)
        /\ post' = [post EXCEPT ![t] = q]
    BY <1>7 DEF ServePost
  <2>2. q \in Posts /\ q # Idle /\ q.kind = "logout"
    BY DEF Posts, Idle
  <2> HIDE DEF q
  <2>3. SameSessions
    <3>1. CASE p.token # None /\ p.token.session \notin 1..Len(sessions)
      <4>1. Ending(p.token) = sessions
        BY <1>0, <3>1, SessionsTyped DEF Ending
      <4> QED
        BY <1>0, <2>1, <3>1, <4>1, UnchangedSessions
    <3> QED
      BY <1>0, <2>1, <3>1, EndingKeeps, UnchangedSessions
  <2> QED
    BY <1>6, <1>7, <2>1, <2>2, <2>3
<1>8. CASE p.kind # "logout" /\ withdrawn[p.account] # None
  <2> DEFINE q == [step |-> "served", kind |-> "refused", token |-> cookie]
  <2>1. sessions' = sessions /\ post' = [post EXCEPT ![t] = q]
    BY <1>8 DEF ServePost
  <2>2. q \in Posts /\ q # Idle /\ q.kind = "refused"
    BY <1>0 DEF Posts, Idle
  <2> HIDE DEF q
  <2>3. SameSessions
    BY <1>0, <2>1, UnchangedSessions
  <2> QED
    BY <1>6, <1>8, <2>1, <2>2, <2>3
<1>9. CASE p.kind # "logout" /\ withdrawn[p.account] = None
  <2> DEFINE n == Len(sessions) + 1
             s == [user |-> p.account, number |-> 0, live |-> TRUE]
             k == [session |-> n, number |-> 0]
             q == [step |-> "served", kind |-> p.kind, token |-> k]
  <2>1. sessions' = Append(sessions, s) /\ post' = [post EXCEPT ![t] = q]
    BY <1>9 DEF ServePost
  <2>2. s \in Session /\ s.number = 0
    BY <1>3, <1>9 DEF Session
  <2>3. k \in Tokens /\ k.session = n /\ k.number = 0
    BY <1>0 DEF Tokens
  <2> HIDE DEF k, s
  <2>4. q \in Posts /\ q # Idle /\ q.kind = p.kind /\ q.token = k
    BY <1>3, <1>9, <2>3 DEF Posts, Idle
  <2> HIDE DEF q
  <2>5. /\ sessions' \in Seq(Session) /\ Len(sessions') = n /\ sessions'[n] = s
        /\ \A i \in 1..Len(sessions) : sessions'[i] = sessions[i]
    BY <1>0, <2>1, <2>2
  <2>6. SameSessions /\ SameUsers
    BY <1>0, <2>5, SessionsTyped DEF SameSessions, SameUsers
  <2>7. /\ post' \in [Tabs -> Posts] /\ post'[t] = q /\ \A u \in Tabs \ {t} : post'[u] = post[u]
    BY <1>0, <2>1, <2>4
  <2>8. \A u \in Tabs : NewToken(u)' => \/ u = t /\ post'[u].token = k
                                        \/ u # t /\ NewToken(u) /\ post'[u] = post[u]
    BY <2>4, <2>7 DEF NewToken
  <2>9. ServerTypes' /\ Documents'
    BY <1>2, <2>5, <2>7 DEF IInv, ServerTypes, Documents
  <2>10. TokensAreOpened'
    <3>1. Len(sessions) \in Nat /\ k # None
      BY <1>0, <2>3 DEF Tokens
    <3> QED
      BY <1>2, <2>3, <2>5, <2>8, <3>1 DEF IInv, TokensAreOpened, Opened
  <2>11. FlightsFit'
    BY <1>2, <1>3, <1>9, <2>4, <2>7 DEF IInv, FlightsFit
  <2>12. CookieIsOwn'
    BY <1>2, <2>6, CookieStaysOwn
  <2>13. Rotation'
    <3> SUFFICES ASSUME HasLocks
                 PROVE  OneRefresh' /\ ~reused' /\ (~lost' => TokensAreCurrent' /\ NewSessionsAreNew')
      BY DEF Rotation
    <3>1. OneRefresh /\ ~reused /\ (~lost => TokensAreCurrent /\ NewSessionsAreNew)
      BY DEF IInv, Rotation
    <3>2. OneRefresh'
      BY <1>2, <3>1 DEF OneRefresh
    <3>3. ASSUME NewSessionsAreNew PROVE NewSessionsAreNew'
      <4>1. n \notin 1..Len(sessions)
        BY <1>0
      <4>2. /\ cookie # None => cookie.session # n
            /\ \A u \in Tabs : wire[u] # Idle /\ wire[u].token # None => wire[u].token.session # n
            /\ \A u \in Tabs : NewToken(u) => post[u].token.session # n
        BY <4>1, FlightsTyped DEF IInv, TokensAreOpened, Opened, Tokens
      <4> HIDE DEF n
      <4>3. ASSUME NEW u \in Tabs, NewToken(u)'
            PROVE  /\ cookie' # None => cookie'.session # post'[u].token.session
                   /\ \A v \in Tabs : wire'[v] # Idle /\ wire'[v].token # None =>
                        wire'[v].token.session # post'[u].token.session
        BY <1>2, <2>3, <2>8, <3>3, <4>2, <4>3 DEF NewSessionsAreNew
      <4>4. ASSUME NEW u \in Tabs, NewToken(u)', NEW v \in Tabs \ {u}, NewToken(v)'
            PROVE  post'[v].token.session # post'[u].token.session
        BY <2>3, <2>8, <3>3, <4>2, <4>4 DEF NewSessionsAreNew
      <4> QED
        BY <4>3, <4>4 DEF NewSessionsAreNew
    <3>4. ASSUME TokensAreCurrent PROVE TokensAreCurrent'
      <4>1. \A u \in Tabs : wire'[u] # Idle /\ wire'[u].token # None =>
              wire'[u].token.number = sessions'[wire'[u].token.session].number
        BY <1>2, <2>5, <3>4 DEF TokensAreCurrent, Current, IInv, TokensAreOpened, Opened
      <4>2. ASSUME NEW u \in Tabs, NewToken(u)', post'[u].token # None
            PROVE  post'[u].token.number = sessions'[post'[u].token.session].number
        BY <2>2, <2>3, <2>5, <2>8, <3>4, <4>2 DEF TokensAreCurrent, Current, IInv, TokensAreOpened, Opened
      <4>3. Current(cookie) => (cookie' # None => cookie'.number = sessions'[cookie'.session].number)
        BY <1>2, <2>5 DEF Current, IInv, TokensAreOpened, Opened
      <4>4. \A u \in Tabs : Replacing(u) /\ wire[u].token.session = cookie.session =>
              Replacing(u)' /\ wire'[u].token.session = cookie'.session
        BY <1>2 DEF Replacing
      <4> QED
        BY <3>4, <4>1, <4>2, <4>3, <4>4 DEF TokensAreCurrent, Current
    <3> QED
      BY <1>2, <3>1, <3>2, <3>3, <3>4
  <2> QED
    BY <2>9, <2>10, <2>11, <2>12, <2>13 DEF IInv
<1> QED
  BY <1>7, <1>8, <1>9

LEMMA NoTokenIsOwn ==
  ASSUME NEW d, Doc(d), d.vault = None
  PROVE  Own(d)
  BY DEF Doc, Own, EmptyOrOwned, RequestsAreCurrent

(* A cookie that an answer stores is that of every tab that is not marked. *)
LEMMA CookieStored ==
  ASSUME IInv, NEW t \in Tabs, NEW token \in Tokens \cup {None}, Opened(token), StoreCookie(t, token)
  PROVE  /\ cookie' = token /\ foreign' \subseteq Tabs /\ foreign \subseteq foreign' \cup {t}
         /\ token # None => sessions[token.session].user \in Accounts
         /\ \A u \in Tabs \ foreign' :
              u # t /\ token # None /\ doc[u].vault # None =>
                doc[u].vault.user = sessions[token.session].user
         /\ t \notin foreign' => /\ t \notin foreign \/ doc[t].flow = "loginPost"
                                 /\ token # None /\ doc[t].vault # None =>
                                      doc[t].vault.user = sessions[token.session].user
<1>1. /\ cookie' = token /\ foreign' \subseteq Tabs /\ foreign \subseteq foreign' \cup {t}
      /\ t \notin foreign' => /\ t \notin foreign \/ doc[t].flow = "loginPost"
                              /\ token # None /\ doc[t].vault # None =>
                                   doc[t].vault.user = sessions[token.session].user
      /\ \A u \in Tabs \ foreign' : u # t => u \notin foreign
      /\ \A u \in Tabs \ foreign' : u # t /\ token # None => doc[u].user = sessions[token.session].user
  BY DEF StoreCookie, UserOf, IInv, ServerTypes
<1>2. token # None => sessions[token.session].user \in Accounts
  BY SessionsTyped DEF IInv, ServerTypes, Opened, Session
<1>3. \A u \in Tabs \ foreign' : u # t /\ token # None /\ doc[u].vault # None =>
        doc[u].vault.user = sessions[token.session].user
  BY <1>1, <1>2 DEF IInv, Documents, Own
<1> QED
  BY <1>1, <1>2, <1>3

(* A log-in is answered with a token of its own.                           *)
LEMMA SessionAnsweredStep ==
  ASSUME IInv, NEW t \in Tabs, SessionAnswered(t)
  PROVE  IInv'
<1> DEFINE d == doc[t]
           token == post[t].token
           user == sessions[token.session].user
<1>0. /\ post \in [Tabs -> Posts] /\ sessions \in Seq(Session) /\ doc \in [Tabs -> Document]
      /\ wire \in [Tabs -> Wires]
  BY DEF IInv, ServerTypes, Documents
<1>1. /\ NewToken(t) /\ post' = [post EXCEPT ![t] = Idle] /\ StoreCookie(t, token)
      /\ UNCHANGED <<sessions, withdrawn, wire, news, events, lost, reused>>
  BY DEF SessionAnswered, NewToken, Idle
<1>2. token \in Tokens /\ token # None /\ Opened(token) /\ d.flow = "loginPost"
  BY <1>1, FlightsTyped DEF IInv, FlightsFit, TokensAreOpened, NewToken, Tokens
<1>3. Doc(d) /\ d \in Document /\ d.epoch \in Nat
  BY RequestsTyped DEF IInv, Documents, Doc
<1>4. d.vault = None /\ ~d.allowed /\ d.phase # "authenticated"
  BY <1>2, <1>3 DEF Doc, FlowFits
<1>5. /\ cookie' = token /\ foreign' \subseteq Tabs /\ foreign \subseteq foreign' \cup {t}
      /\ user \in Accounts
      /\ \A u \in Tabs \ foreign' : u # t /\ doc[u].vault # None => doc[u].vault.user = user
  BY <1>1, <1>2, CookieStored
<1>6. /\ post' \in [Tabs -> Posts] /\ post'[t] = Idle /\ \A u \in Tabs \ {t} : post'[u] = post[u]
      /\ ~NewToken(t)'
  BY <1>0, <1>1, IdlePost
<1>7. \E e : /\ Doc(e) /\ Own(e) /\ (e.vault # None => e.vault.user = user)
             /\ e.epoch = d.epoch /\ e.allowed = d.allowed /\ doc' = [doc EXCEPT ![t] = e]
  <2>1. CASE d.since = d.epoch
    <3> DEFINE kept == [d EXCEPT !.vault = [user |-> user, fresh |-> TRUE],
                                 !.me = None, !.requests["me"] = NoRequest]
               e == Load(kept, "loginLoad")
    <3>1. doc' = [doc EXCEPT ![t] = e]
      BY <2>1 DEF SessionAnswered, UserOf
    <3>2. Doc(e) /\ Own(e) /\ e.vault # None /\ e.vault.user = user
          /\ e.epoch = d.epoch /\ e.allowed = d.allowed
      <4> DEFINE v == [user |-> user, fresh |-> TRUE]
                 cleared == [d EXCEPT !.requests["me"] = NoRequest]
      <4>1. NoRequest \in RequestState /\ "me" \in Kinds
        BY DEF NoRequest, RequestState, Kinds
      <4>2. v \in [user : Accounts, fresh : BOOLEAN] /\ Doc(d) /\ d.flow = "loginPost" /\ user \in Accounts
        BY <1>2, <1>3, <1>5
      <4>3. kept = [cleared EXCEPT !.vault = v, !.me = None]
        BY <1>3 DEF Document
      <4>4. SameBut(d, cleared, "me") /\ cleared.refresh = d.refresh
        BY <1>3, <4>1, SetRequest
      <4> HIDE DEF v, cleared, kept
      <4>5. /\ kept \in Document /\ kept.requests = cleared.requests /\ kept.refresh = d.refresh /\ kept.vault = v
            /\ kept.epoch = d.epoch /\ kept.user = d.user /\ kept.allowed = d.allowed /\ kept.phase = d.phase
            /\ kept.me = None /\ kept.flow = d.flow /\ kept.since = d.since /\ kept.loginError = d.loginError
        BY <4>2, <4>3, <4>4 DEF SameBut, Document
      <4>6. LoggedIn(d, kept, user)
        BY <4>4, <4>5 DEF LoggedIn, SameBut, v
      <4> HIDE DEF user, d
      <4> QED
        BY <4>2, <4>6, LoginKeeps
    <3> HIDE DEF e
    <3> QED
      BY <3>1, <3>2
  <2>2. CASE d.since # d.epoch
    <3> DEFINE e == [d EXCEPT !.flow = "none", !.loginError = d.loginError]
    <3>1. doc' = [doc EXCEPT ![t] = e] /\ d.loginError \in BOOLEAN
      <4>1. e = [d EXCEPT !.flow = "none"]
        BY <1>3 DEF Document
      <4> QED
        BY <1>3, <2>2, <4>1, FieldsTyped DEF SessionAnswered
    <3>2. \E error \in BOOLEAN : e = [d EXCEPT !.flow = "none", !.loginError = error]
      BY <3>1
    <3>3. d.flow \in Leaving \cup {"loginPost"} /\ d.flow # "withdrawNative"
      BY <1>2
    <3> HIDE DEF e
    <3>4. Doc(e) /\ e.vault = None /\ e.epoch = d.epoch /\ e.allowed = d.allowed
      BY <1>3, <1>4, <3>2, <3>3, FlowEndKeeps
    <3>5. Own(e)
      BY <3>4, NoTokenIsOwn
    <3> QED
      BY <3>1, <3>4, <3>5
  <2> QED
    BY <2>1, <2>2
<1>8. PICK e : /\ Doc(e) /\ Own(e) /\ (e.vault # None => e.vault.user = user)
               /\ e.epoch = d.epoch /\ e.allowed = d.allowed /\ doc' = [doc EXCEPT ![t] = e]
  BY <1>7
<1>9. \A u \in Tabs : doc'[u] = IF u = t THEN e ELSE doc[u]
  BY <1>0, <1>8
<1>10. ServerTypes'
  BY <1>1, <1>2, <1>5, <1>6 DEF IInv, ServerTypes
<1>11. TokensAreOpened'
  BY <1>1, <1>2, <1>5, <1>6 DEF IInv, TokensAreOpened, Opened, NewToken
<1>12. Documents'
  BY <1>5, <1>8, DocumentsStep DEF IInv
<1>13. FlightsFit'
  BY <1>1, <1>6, <1>8, <1>9 DEF IInv, FlightsFit
<1>14. CookieIsOwn'
  <2> SUFFICES ASSUME NEW u \in Tabs \ foreign', doc'[u].vault # None
               PROVE  /\ cookie' # None => sessions'[cookie'.session].user = doc'[u].vault.user
                      /\ wire'[u] # Idle /\ wire'[u].epoch = doc'[u].epoch /\ wire'[u].token # None =>
                           sessions'[wire'[u].token.session].user = doc'[u].vault.user
    BY DEF CookieIsOwn, UserOf
  <2>1. CASE u = t
    BY <1>1, <1>4, <1>5, <1>8, <1>9, <2>1 DEF IInv, FlightsFit
  <2>2. CASE u # t
    BY <1>1, <1>5, <1>9, <2>2 DEF IInv, CookieIsOwn, UserOf
  <2> QED
    BY <2>1, <2>2
<1>15. Rotation'
  <2> SUFFICES ASSUME HasLocks
               PROVE  OneRefresh' /\ ~reused' /\ (~lost' => TokensAreCurrent' /\ NewSessionsAreNew')
    BY DEF Rotation
  <2>1. OneRefresh /\ ~reused /\ (~lost => TokensAreCurrent /\ NewSessionsAreNew)
    BY DEF IInv, Rotation
  <2>2. OneRefresh'
    BY <1>1, <2>1 DEF OneRefresh
  <2>3. \A u \in Tabs : NewToken(u)' => u # t /\ NewToken(u) /\ post'[u] = post[u]
    BY <1>6 DEF NewToken
  <2>4. ASSUME NewSessionsAreNew PROVE NewSessionsAreNew'
    BY <1>1, <1>2, <1>5, <2>3, <2>4 DEF NewSessionsAreNew
  <2>5. ASSUME TokensAreCurrent PROVE TokensAreCurrent'
    <3>1. cookie' # None => cookie'.number = sessions'[cookie'.session].number
      BY <1>1, <1>2, <1>5, <2>5 DEF TokensAreCurrent, Current
    <3>2. \A u \in Tabs : wire'[u] # Idle /\ wire'[u].token # None =>
            wire'[u].token.number = sessions'[wire'[u].token.session].number
      BY <1>1, <2>5 DEF TokensAreCurrent, Current
    <3>3. \A u \in Tabs : NewToken(u)' /\ post'[u].token # None =>
            post'[u].token.number = sessions'[post'[u].token.session].number
      BY <1>1, <2>3, <2>5 DEF TokensAreCurrent, Current
    <3> QED
      BY <3>1, <3>2, <3>3 DEF TokensAreCurrent, Current
  <2> QED
    BY <1>1, <2>1, <2>2, <2>4, <2>5
<1> QED
  BY <1>10, <1>11, <1>12, <1>13, <1>14, <1>15 DEF IInv

(* A refresh is answered.                                                  *)
LEMMA RefreshAnsweredStep ==
  ASSUME IInv, NEW t \in Tabs, RefreshAnswered(t)
  PROVE  IInv'
<1> DEFINE d == doc[t]
           token == wire[t].token
           user == sessions[token.session].user
<1>0. /\ post \in [Tabs -> Posts] /\ sessions \in Seq(Session) /\ doc \in [Tabs -> Document]
      /\ wire \in [Tabs -> Wires]
  BY DEF IInv, ServerTypes, Documents
<1>1. /\ wire[t].step = "served" /\ wire[t] # Idle /\ wire' = [wire EXCEPT ![t] = Idle]
      /\ StoreCookie(t, token)
      /\ UNCHANGED <<sessions, withdrawn, post, news, events, lost, reused>>
  BY DEF RefreshAnswered, Idle
<1>2. /\ token \in Tokens \cup {None} /\ Opened(token)
      /\ wire[t].epoch = d.epoch => d.allowed
  BY <1>1, FlightsTyped DEF IInv, FlightsFit, TokensAreOpened
<1>3. Doc(d) /\ d \in Document /\ (t \notin foreign => Own(d))
  BY DEF IInv, Documents, Doc
<1>4. /\ cookie' = token /\ foreign' \subseteq Tabs /\ foreign \subseteq foreign' \cup {t}
      /\ token # None => user \in Accounts
      /\ \A u \in Tabs \ foreign' : u # t /\ token # None /\ doc[u].vault # None => doc[u].vault.user = user
      /\ t \notin foreign' => t \notin foreign \/ d.flow = "loginPost"
      /\ t \notin foreign' /\ token # None /\ d.vault # None => d.vault.user = user
  BY <1>1, <1>2, CookieStored
<1>5. t \notin foreign' => Own(d)
  BY <1>3, <1>4, NoTokenIsOwn DEF Doc, FlowFits
<1>6. /\ \A u \in Tabs : wire'[u] = IF u = t THEN Idle ELSE wire[u]
      /\ wire' \in [Tabs -> Wires]
  BY <1>0, <1>1 DEF Wires
<1>7. \E e : /\ Doc(e) /\ (t \notin foreign' => Own(e)) /\ doc' = [doc EXCEPT ![t] = e]
             /\ t \notin foreign' /\ e.vault # None /\ token # None => e.vault.user = user
             /\ d.flow \in {"loginPost", "logoutPost"} => e.flow = d.flow
  <2>1. CASE wire[t].epoch # d.epoch
    <3>1. doc' = [doc EXCEPT ![t] = d]
      BY <2>1 DEF RefreshAnswered
    <3> QED
      BY <1>3, <1>4, <1>5, <3>1
  <2>2. CASE wire[t].epoch = d.epoch /\ token = None
    <3> DEFINE over == [d EXCEPT !.refresh = None]
               e == EndLocalSession(over)
    <3>1. doc' = [doc EXCEPT ![t] = e]
      BY <2>2 DEF RefreshAnswered
    <3>2. Doc(over) /\ Follows(d, over)
      BY <1>3, ForgetRefresh
    <3> HIDE DEF over
    <3>3. Doc(e) /\ Own(e) /\ Follows(over, e)
      BY <3>2, EndKeeps
    <3> HIDE DEF e
    <3>4. d.flow \in {"loginPost", "logoutPost"} => e.flow = d.flow
      BY <3>2, <3>3 DEF Follows
    <3> QED
      BY <2>2, <3>1, <3>3, <3>4
  <2>3. CASE wire[t].epoch = d.epoch /\ token # None
    <3> DEFINE e == Refreshed(d, user)
    <3>1. doc' = [doc EXCEPT ![t] = e]
      BY <2>3 DEF RefreshAnswered, UserOf
    <3>2. /\ Doc(e) /\ (e.vault # None => e.vault.user = user)
          /\ Own(d) /\ (d.vault = None \/ d.vault.user = user) => Own(e)
          /\ d.flow \notin {"loginPost", "logoutPost"}
      <4> HIDE DEF user
      <4> QED
        BY <1>2, <1>3, <1>4, <2>3, RefreshedKeeps
    <3> HIDE DEF e
    <3> QED
      BY <1>4, <1>5, <2>3, <3>1, <3>2
  <2> QED
    BY <2>1, <2>2, <2>3
<1>8. PICK e : /\ Doc(e) /\ (t \notin foreign' => Own(e)) /\ doc' = [doc EXCEPT ![t] = e]
               /\ t \notin foreign' /\ e.vault # None /\ token # None => e.vault.user = user
               /\ d.flow \in {"loginPost", "logoutPost"} => e.flow = d.flow
  BY <1>7
<1>9. \A u \in Tabs : doc'[u] = IF u = t THEN e ELSE doc[u]
  BY <1>0, <1>8
<1>10. ServerTypes'
  BY <1>1, <1>2, <1>4, <1>6 DEF IInv, ServerTypes
<1>11. TokensAreOpened'
  BY <1>1, <1>2, <1>4, <1>6 DEF IInv, TokensAreOpened, Opened, NewToken
<1>12. Documents'
  BY <1>4, <1>8, DocumentsStep DEF IInv
<1>13. FlightsFit'
  BY <1>1, <1>6, <1>8, <1>9 DEF IInv, FlightsFit
<1>14. CookieIsOwn'
  <2> SUFFICES ASSUME NEW u \in Tabs \ foreign', doc'[u].vault # None
               PROVE  /\ cookie' # None => sessions'[cookie'.session].user = doc'[u].vault.user
                      /\ wire'[u] # Idle /\ wire'[u].epoch = doc'[u].epoch /\ wire'[u].token # None =>
                           sessions'[wire'[u].token.session].user = doc'[u].vault.user
    BY DEF CookieIsOwn, UserOf
  <2>1. CASE u = t
    BY <1>1, <1>4, <1>6, <1>8, <1>9, <2>1
  <2>2. CASE u # t
    BY <1>1, <1>4, <1>6, <1>9, <2>2 DEF IInv, CookieIsOwn, UserOf
  <2> QED
    BY <2>1, <2>2
<1>15. Rotation'
  <2> SUFFICES ASSUME HasLocks
               PROVE  OneRefresh' /\ ~reused' /\ (~lost' => TokensAreCurrent' /\ NewSessionsAreNew')
    BY DEF Rotation
  <2>1. OneRefresh /\ ~reused /\ (~lost => TokensAreCurrent /\ NewSessionsAreNew)
    BY DEF IInv, Rotation
  <2>2. \A u \in Tabs : wire'[u] = Idle
    BY <1>1, <1>6, <2>1 DEF OneRefresh
  <2>3. OneRefresh'
    BY <2>2 DEF OneRefresh
  <2>4. \A u \in Tabs : NewToken(u)' => NewToken(u) /\ post'[u] = post[u]
    BY <1>1 DEF NewToken
  <2>5. ASSUME NewSessionsAreNew PROVE NewSessionsAreNew'
    BY <1>1, <1>4, <2>2, <2>4, <2>5 DEF NewSessionsAreNew
  <2>6. ASSUME TokensAreCurrent PROVE TokensAreCurrent'
    <3>1. cookie' # None => cookie'.number = sessions'[cookie'.session].number
      BY <1>1, <1>4, <2>6 DEF TokensAreCurrent, Current
    <3>2. \A u \in Tabs : NewToken(u)' /\ post'[u].token # None =>
            post'[u].token.number = sessions'[post'[u].token.session].number
      BY <1>1, <2>4, <2>6 DEF TokensAreCurrent, Current
    <3> QED
      BY <2>2, <3>1, <3>2 DEF TokensAreCurrent, Current
  <2> QED
    BY <1>1, <2>1, <2>3, <2>5, <2>6
<1> QED
  BY <1>10, <1>11, <1>12, <1>13, <1>14, <1>15 DEF IInv

LEMMA StepKeeps ==
  ASSUME IInv, [Next]_vars
  PROVE  IInv'
<1>1. CASE UNCHANGED vars
  <2>1. ServerTypes' /\ TokensAreOpened' /\ Documents' /\ FlightsFit'
    BY <1>1 DEF vars, IInv, ServerTypes, TokensAreOpened, Opened, NewToken, Documents, FlightsFit
  <2>2. CookieIsOwn'
    BY <1>1 DEF vars, IInv, CookieIsOwn, UserOf
  <2>3. Rotation'
    BY <1>1 DEF vars, IInv, Rotation, OneRefresh, TokensAreCurrent, Current, Replacing, NewToken, NewSessionsAreNew
  <2> QED
    BY <2>1, <2>2, <2>3 DEF IInv
<1>2. ASSUME NEW t \in Tabs, Answers(t) PROVE IInv'
  <2>1. CASE SendRefresh(t) \/ ServeRefresh(t) \/ RefreshAnswered(t)
    BY <2>1, SendRefreshStep, ServeRefreshStep, RefreshAnsweredStep
  <2>2. CASE ServePost(t) \/ SessionAnswered(t) \/ SessionRefused(t)
    BY <2>2, ServePostStep, SessionAnsweredStep, LoginSteps
  <2>3. CASE LogoutAnswered(t) \/ SendLogout(t)
    BY <2>3, LogoutSteps
  <2>4. CASE CompleteWithdrawal(t) \/ HearSessionEnded(t)
    BY <2>4, OwnSteps
  <2>5. CASE \E k \in Kinds : SendRequest(t, k) \/ ReceiveAnswer(t, k) \/ Retry(t, k)
    BY <2>5, RequestSteps
  <2> QED
    BY <1>2, <2>1, <2>2, <2>3, <2>4, <2>5 DEF Answers
<1>3. ASSUME NEW t \in Tabs, Faults(t) PROVE IInv'
  BY <1>3, EndingSteps, LoginSteps, LogoutSteps DEF Faults
<1>4. ASSUME NEW t \in Tabs, UserActs(t) PROVE IInv'
  <2>1. CASE Bootstrap(t) \/ RetryLoad(t) \/ Logout(t) \/ Expire(t)
    BY <2>1, OwnSteps
  <2>2. CASE \E a \in Accounts, kind \in {"login", "signUp"} : BeginSession(t, kind, a)
    BY <2>2, LoginSteps
  <2>3. CASE \E k \in Kinds : Request(t, k)
    BY <2>3, RequestSteps
  <2>4. CASE Reload(t)
    BY <2>4, EndingSteps
  <2> QED
    BY <1>4, <2>1, <2>2, <2>3, <2>4 DEF UserActs
<1> QED
  BY <1>1, <1>2, <1>3, <1>4 DEF Next

LEMMA InitSound == Init => IInv
<1> SUFFICES ASSUME Init PROVE IInv
  OBVIOUS
<1>1. /\ withdrawn = [a \in Accounts |-> None] /\ doc = [t \in Tabs |-> NewDocument]
      /\ wire = [t \in Tabs |-> Idle] /\ post = [t \in Tabs |-> Idle]
      /\ news = {} /\ foreign = {} /\ events = 0 /\ lost = FALSE /\ reused = FALSE
  BY DEF Init
<1>2. /\ \A t \in Tabs : wire[t] = Idle /\ post[t] = Idle /\ doc[t] = NewDocument /\ ~NewToken(t)
      /\ NewDocument \in Document /\ NewDocument.vault = None
  BY <1>1, NewDocumentIsSound DEF NewToken, Doc, NewDocument
<1>3. /\ sessions \in Seq(Session) /\ cookie \in Tokens \cup {None} /\ Opened(cookie) /\ Current(cookie)
  <2>1. CASE sessions = <<[user |-> Earlier, number |-> 0, live |-> TRUE]>> /\ cookie = [session |-> 1, number |-> 0]
    BY <2>1 DEF Session, Tokens, Opened, Current
  <2>2. CASE sessions = <<>> /\ cookie = None
    BY <2>2 DEF Opened, Current
  <2> QED
    BY <2>1, <2>2 DEF Init
<1>4. ServerTypes
  <2>1. /\ wire \in [Tabs -> Wires] /\ post \in [Tabs -> Posts]
        /\ withdrawn \in [Accounts -> Tabs \cup {None}]
    BY <1>1 DEF Wires, Posts
  <2>2. lost \in BOOLEAN /\ reused \in BOOLEAN
    BY <1>1
  <2>3. news \subseteq Tabs /\ foreign \subseteq Tabs /\ events \in 0..MaxEvents
    BY <1>1
  <2> QED
    BY <1>3, <2>1, <2>2, <2>3 DEF ServerTypes
<1>5. TokensAreOpened
  BY <1>2, <1>3 DEF TokensAreOpened
<1>6. Documents
  BY <1>1, <1>2, NewDocumentIsSound DEF Documents
<1>7. FlightsFit /\ CookieIsOwn
  BY <1>2 DEF FlightsFit, CookieIsOwn
<1>8. Rotation
  BY <1>1, <1>2, <1>3 DEF Rotation, OneRefresh, TokensAreCurrent, NewSessionsAreNew
<1> QED
  BY <1>4, <1>5, <1>6, <1>7, <1>8 DEF IInv

---------------------------------------------------------------------------
(* The results                                                             *)

(* Every reachable state satisfies the inductive invariant: what each      *)
(* document holds fits its phase and epoch, and the cookie and every       *)
(* request in flight fit the document they belong to.                      *)
THEOREM Invariance == Spec => []IInv
<1>1. Init => IInv
  BY InitSound
<1>2. IInv /\ [Next]_vars => IInv'
  BY StepKeeps
<1> QED
  BY <1>1, <1>2, PTL DEF Spec

LEMMA InvariantParts ==
  ASSUME IInv
  PROVE  NothingIsLeft /\ OneIdentity /\ TokenNeedsLogin /\ (HasLocks => NoReuseWithoutLoss)
<1>1. TypeOK
  <2>1. doc \in [Tabs -> Document] /\ Tokens = Token /\ Session = [user : Accounts, number : Nat, live : BOOLEAN]
    BY DEF IInv, Documents, Tokens, Token, Session
  <2>2. \A t \in Tabs : wire[t] = Idle \/
          wire[t] \in [step : {"sent", "served"}, epoch : Nat, token : Token \cup {None}]
    BY <2>1 DEF IInv, ServerTypes, Wires
  <2>3. \A t \in Tabs : \/ post[t] = Idle
                        \/ post[t] \in [step : {"sent"}, kind : {"login", "signUp"}, account : Accounts]
                        \/ post[t] \in [step : {"sent", "served"}, token : Token \cup {None},
                                        kind : {"login", "signUp", "refused", "logout"}]
    BY <2>1 DEF IInv, ServerTypes, Posts
  <2> QED
    BY <2>1, <2>2, <2>3 DEF TypeOK, IInv, ServerTypes
<1>2. EndedMeansEmpty /\ TokenNeedsLogin
  BY DEF IInv, Documents, Doc, EmptyOrOwned, EndedMeansEmpty, TokenNeedsLogin, Leaving
<1>3. OneIdentity
  BY DEF IInv, Documents, Doc, EmptyOrOwned, Own, OneIdentity
<1>4. HasLocks => NoReuseWithoutLoss
  BY DEF IInv, Rotation, NoReuseWithoutLoss
<1> QED
  BY <1>1, <1>2, <1>3, <1>4 DEF NothingIsLeft

(* Every variable keeps its type, and the page of an ended session holds   *)
(* no user: no answer, retry or refresh of an earlier identity fills it,   *)
(* and a page of a session without its user is leaving it.                 *)
THEOREM NothingLeft == Spec => []NothingIsLeft
  BY Invariance, InvariantParts, PTL

(* The identity, the token and the cached user of a page are one account's *)
(* until another tab's or a late answer's cookie is another account's.     *)
THEOREM IdentityIsOne == Spec => []OneIdentity
  BY Invariance, InvariantParts, PTL

(* A document that may not refresh holds a token only while it logs in or  *)
(* after that log-in failed to load the user.                              *)
THEOREM TokensNeedLogins == Spec => []TokenNeedsLogin
  BY Invariance, InvariantParts, PTL

(* In a browser with locks no tab's refresh brings back a token that       *)
(* another has used, whatever the number of tabs, unless an answer was     *)
(* lost on its way: the server ends no session for the reuse.              *)
THEOREM LocksPreventReuse ==
  ASSUME HasLocks
  PROVE  Spec => []NoReuseWithoutLoss
<1>1. IInv => NoReuseWithoutLoss
  BY InvariantParts
<1> QED
  BY <1>1, Invariance, PTL
=============================================================================
