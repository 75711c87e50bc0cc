--------------------------- MODULE BrowserSession ---------------------------
(***************************************************************************)
(* The web client's session: the tabs of one browser, the access token and *)
(* the identity each tab holds in memory (web/src/features/auth/model), the*)
(* refresh cookie they share, and the server's refresh sessions.           *)
(*                                                                         *)
(* A tab's document is one record.  Its identity is a context: an epoch    *)
(* that grows with every change of identity, and the user.  A continuation *)
(* remembers the epoch it started under and does nothing under another.    *)
(* An await is a boundary between two actions; awaits that only yield to   *)
(* the microtask queue (the cancellation of queries) are not.  A request   *)
(* that a tab gives up waiting for has been served or never will be.       *)
(***************************************************************************)
EXTENDS Integers, Sequences, FiniteSets

CONSTANTS
  Tabs,         \* the browser's tabs
  Accounts,     \* the users who log in from this browser
  Earlier,      \* the one whose cookie an earlier visit may have left
  None,         \* no user, no token, no cookie
  HasLocks,     \* whether the browser has navigator.locks
  MaxSessions,  \* bound: refresh sessions the server opens
  MaxEvents     \* bound: acts of the user, expiries, reloads, lost or failed answers

ASSUME BrowserAssumption ==
  /\ None \notin Accounts /\ Earlier \in Accounts
  /\ HasLocks \in BOOLEAN
  /\ MaxSessions \in Nat /\ MaxEvents \in Nat

(* The value that says that there is none is no number, token or account,  *)
(* and no account is called like an error.                                 *)
ASSUME ValuesAssumption ==
  /\ None \notin Nat
  /\ None \notin [user : Accounts, fresh : BOOLEAN]
  /\ None \notin [session : Nat \ {0}, number : Nat]
  /\ Accounts \cap {"error", "expired"} = {}

VARIABLES
  sessions,   \* the server's refresh sessions: user, current token, still listed
  withdrawn,  \* for each account the tab whose request withdrew it, or None
  cookie,     \* the refresh token in the browser's cookie jar, or None
  doc,        \* the document of each tab
  wire,       \* each tab's refresh request in flight
  post,       \* each tab's log-in, sign-up or log-out request in flight
  news,       \* tabs to which a "session-ended" broadcast is still to be delivered
  foreign,    \* history: tabs whose cookie a later answer has changed to another account's
  events,     \* what MaxEvents bounds
  lost,       \* history: the answer of a rotation was lost
  reused      \* history: a session was ended because a used token came back, none lost

vars == <<sessions, withdrawn, cookie, doc, wire, post, news, foreign,
          events, lost, reused>>

Kinds == {"me", "nickname", "withdraw"}
Idle == [step |-> "idle"]
NoRequest == [step |-> "idle", epoch |-> 0, retried |-> FALSE, again |-> FALSE, answer |-> None]

(* The module state of a newly loaded page.                                *)
NewDocument ==
  [epoch |-> 0, user |-> None, allowed |-> TRUE, phase |-> "bootstrapping",
   vault |-> None, me |-> None, flow |-> "none", since |-> 0, refresh |-> None,
   loginError |-> FALSE, requests |-> [k \in Kinds |-> NoRequest]]

---------------------------------------------------------------------------
(* The document's own operations                                           *)

(* A request still waiting for a refresh, or about to be sent, fails with  *)
(* no effect once the identity it was made under is gone.                  *)
Abandoned(requests) ==
  [k \in Kinds |-> IF requests[k].step \in {"refreshing", "ready"}
                   THEN NoRequest ELSE requests[k]]

AdvanceAuthContext(d, user, allowRefresh) ==
  [d EXCEPT !.epoch = @ + 1, !.user = user, !.allowed = allowRefresh,
            !.requests = Abandoned(@)]

(* The gates: the private pages, and the log-in and sign-up pages.         *)
PrivatePages(d) == d.phase = "authenticated"
PublicPages(d) == d.phase = "anonymous"

(* Continuations that wait for the refresh or for /users/me.               *)
Loading == {"bootRefresh", "bootLoad", "loginLoad", "recoverRefresh"}

(* Slip: the phase is left as it was.                                      *)
EndLocalSession_Slip(d) ==
  [AdvanceAuthContext(d, None, FALSE) EXCEPT
     !.vault = None, !.me = None, !.requests["me"] = NoRequest,
     !.flow = IF @ \in Loading THEN "none" ELSE @]

(* The document forgets its user, its token and what it was loading.      *)
EndLocalSession(d) ==
  [AdvanceAuthContext(d, None, FALSE) EXCEPT
     !.vault = None, !.phase = "anonymous", !.me = None,
     !.requests["me"] = NoRequest,
     !.flow = IF @ \in Loading THEN "none" ELSE @]

ShouldRefreshAccessToken(d) == d.vault = None \/ ~d.vault.fresh

(* The request interceptor, up to its first await.  A document that may    *)
(* not refresh and has no fresh token rejects the request at once.         *)
CanRequest(d) == ~ShouldRefreshAccessToken(d) \/ d.allowed

Requested(d, k) ==
  LET request == [NoRequest EXCEPT !.epoch = d.epoch, !.again = (d.requests[k].step = "paused")] IN
  IF ShouldRefreshAccessToken(d)
  THEN [d EXCEPT !.refresh = d.epoch,
                 !.requests[k] = [request EXCEPT !.step = "refreshing"]]
  ELSE [d EXCEPT !.requests[k] = [request EXCEPT !.step = "ready"]]

(* loadAndActivateCurrentUser, up to the answer of /users/me.              *)
Load(d, flow) ==
  IF CanRequest(d)
  THEN [Requested(d, "me") EXCEPT !.flow = flow, !.since = d.epoch]
  ELSE [d EXCEPT !.flow = "none"]

(* A request of the current identity fails.  The user's query and the      *)
(* withdrawal are tried once more after a network or server error          *)
(* (shouldRetryQuery, shouldRetryAccountWithdrawal).                       *)
Failed(d, k, code) ==
  LET idle == [d EXCEPT !.requests[k] = NoRequest] IN
  IF code = "error" /\ k # "nickname" /\ ~d.requests[k].again
  THEN [d EXCEPT !.requests[k] = [NoRequest EXCEPT !.step = "paused"]]
  ELSE IF k # "me" \/ d.flow \notin {"bootLoad", "loginLoad"} THEN idle
  ELSE IF code = "AUTH_005" THEN EndLocalSession(idle)
  ELSE IF d.flow = "bootLoad"
       THEN [idle EXCEPT !.flow = "none", !.phase = "bootstrap-error"]
       ELSE [idle EXCEPT !.flow = "none", !.loginError = TRUE]

(* What the answer of a protected request does: /users/me fills the cache  *)
(* and, at the end of a log-in or a bootstrap, gives the document its      *)
(* identity; a renamed user replaces the cached one, which is then read    *)
(* again; a withdrawal starts the end of the session.                      *)
Delivered(d, k, user) ==
  LET idle == [d EXCEPT !.requests[k] = NoRequest]
      known == [idle EXCEPT !.me = user] IN
  CASE k = "me" ->
         IF d.flow \in {"bootLoad", "loginLoad"}
         THEN [AdvanceAuthContext(known, user, TRUE) EXCEPT
                 !.phase = "authenticated", !.flow = "none"]
         ELSE known
    [] k = "nickname" ->
         IF d.requests["me"].step = "idle" /\ CanRequest(known)
         THEN Requested(known, "me") ELSE known
    [] k = "withdraw" ->
         [AdvanceAuthContext(idle, None, FALSE) EXCEPT
            !.vault = None, !.flow = "withdrawNative", !.since = d.epoch + 1]

---------------------------------------------------------------------------
(* The server's refresh sessions and the cookie                            *)

UserOf(token) == sessions[token.session].user

(* A used token is recognised before the session is looked up, and ends it.*)
Used(token) == token.number < sessions[token.session].number
Ending(token) == [sessions EXCEPT ![token.session].live = FALSE]
Refreshable(token) ==
  /\ token # None /\ ~Used(token) /\ sessions[token.session].live
  /\ withdrawn[UserOf(token)] = None

(* The browser stores the cookie of an answer whatever the page does with  *)
(* the answer.  The other tabs then hold a foreign cookie if the account   *)
(* is not theirs, and so does a tab that a late answer of its own reaches  *)
(* under another account; a tab that logs in holds its own again.          *)
StoreCookie(t, token) ==
  LET Other(u) == IF u # t THEN doc[u].user # UserOf(token)
                  ELSE doc[t].vault # None /\ doc[t].vault.user # UserOf(token) IN
  /\ cookie' = token
  /\ foreign' = (IF doc[t].flow = "loginPost" THEN foreign \ {t} ELSE foreign)
                 \cup {u \in Tabs : token # None /\ Other(u)}

---------------------------------------------------------------------------
(* Refresh: one operation per document and context, one request per browser*)

(* Slip: only the tab's own requests are serialised.                       *)
LockFree_Slip(t) == wire[t] = Idle

(* The lock is the browser's; without locks a tab serialises only itself.  *)
LockFree(t) == IF HasLocks THEN \A u \in Tabs : wire[u] = Idle ELSE wire[t] = Idle

(* executeRefresh, once the lock is granted.  A refresh whose context is   *)
(* gone is rejected without a request.                                     *)
SendRefresh(t) ==
  /\ doc[t].refresh = doc[t].epoch
  /\ LockFree(t)
  /\ wire' = [wire EXCEPT ![t] = [step |-> "sent", epoch |-> doc[t].epoch,
                                  token |-> cookie]]
  /\ UNCHANGED <<sessions, withdrawn, cookie, doc, post, news, foreign,
                 events, lost, reused>>

(* inspect and rotate: the token is replaced by the next one; a used one   *)
(* or that of a withdrawn user ends the session; any other is refused.     *)
ServeRefresh(t) ==
  LET token == wire[t].token
      next == [token EXCEPT !.number = @ + 1] IN
  /\ wire[t].step = "sent"
  /\ IF Refreshable(token)
     THEN /\ sessions' = [sessions EXCEPT ![token.session].number = @ + 1]
          /\ wire' = [wire EXCEPT ![t] = [step |-> "served", epoch |-> @.epoch, token |-> next]]
          /\ UNCHANGED reused
     ELSE /\ sessions' = IF token # None /\ (Used(token) \/ withdrawn[UserOf(token)] # None)
                         THEN Ending(token) ELSE sessions
          /\ wire' = [wire EXCEPT ![t] = [step |-> "served", epoch |-> @.epoch, token |-> None]]
          /\ reused' = (reused \/ (token # None /\ Used(token)
                                   /\ sessions[token.session].live /\ ~lost))
  /\ UNCHANGED <<withdrawn, cookie, doc, post, news, foreign, events, lost>>

(* The refresh succeeded: the new token is kept, and what waited for it    *)
(* goes on.                                                                *)
Refreshed(d, user) ==
  LET kept == [d EXCEPT !.vault = [user |-> user, fresh |-> TRUE], !.refresh = None,
                        !.requests = [k \in Kinds |->
                           IF d.requests[k].step = "refreshing"
                           THEN [d.requests[k] EXCEPT !.step = "ready"] ELSE d.requests[k]]] IN
  CASE d.flow = "bootRefresh" -> Load(kept, "bootLoad")
    [] d.flow = "recoverRefresh" -> Load([kept EXCEPT !.me = None], "loginLoad")
    [] OTHER -> kept

FailWaiting(d, k) ==
  IF d.requests[k].step = "refreshing" THEN Failed(d, k, "error") ELSE d

(* Slip: only the requests that waited are told.                           *)
RefreshFailed_Slip(d) ==
  FailWaiting(FailWaiting(FailWaiting([d EXCEPT !.refresh = None], "me"), "nickname"), "withdraw")

(* The refresh failed without an answer: what waited for it fails, the     *)
(* token and the caches stay.                                              *)
RefreshFailed(d) ==
  LET over == [d EXCEPT !.refresh = None] IN
  CASE d.flow = "bootRefresh" -> [over EXCEPT !.flow = "none", !.phase = "bootstrap-error"]
    [] d.flow = "recoverRefresh" -> [over EXCEPT !.flow = "none"]
    [] OTHER -> FailWaiting(FailWaiting(FailWaiting(over, "me"), "nickname"), "withdraw")

(* Slip: the answer is used whatever the document has become.              *)
RefreshAnswered_Slip(t) ==
  LET d == doc[t]
      w == wire[t] IN
  /\ w.step = "served"
  /\ wire' = [wire EXCEPT ![t] = Idle]
  /\ StoreCookie(t, w.token)
  /\ doc' = [doc EXCEPT ![t] =
               IF w.token = None THEN EndLocalSession([d EXCEPT !.refresh = None])
               ELSE Refreshed(d, UserOf(w.token))]
  /\ UNCHANGED <<sessions, withdrawn, post, news, events, lost, reused>>

(* executeRefresh goes on; a document of another identity by now does      *)
(* nothing with the answer.                                                *)
RefreshAnswered(t) ==
  LET d == doc[t]
      w == wire[t] IN
  /\ w.step = "served"
  /\ wire' = [wire EXCEPT ![t] = Idle]
  /\ StoreCookie(t, w.token)
  /\ doc' = [doc EXCEPT ![t] =
               IF w.epoch # d.epoch THEN d
               ELSE IF w.token = None THEN EndLocalSession([d EXCEPT !.refresh = None])
               ELSE Refreshed(d, UserOf(w.token))]
  /\ UNCHANGED <<sessions, withdrawn, post, news, events, lost, reused>>

RefreshLost(t) ==
  /\ wire[t] # Idle /\ events < MaxEvents
  /\ events' = events + 1
  /\ lost' = (lost \/ (wire[t].step = "served" /\ wire[t].token # None))
  /\ wire' = [wire EXCEPT ![t] = Idle]
  /\ doc' = [doc EXCEPT ![t] = IF wire[t].epoch = @.epoch THEN RefreshFailed(@) ELSE @]
  /\ UNCHANGED <<sessions, withdrawn, cookie, post, news, foreign, reused>>

---------------------------------------------------------------------------
(* Protected requests                                                      *)

(* The interceptor's second half and the server.  The token's user is all  *)
(* the server looks at: an access token outlives its refresh session.  A   *)
(* withdrawal that comes again under its request identifier is answered as *)
(* the first time; its answer may be lost after the server has withdrawn.  *)
SendRequest(t, k) ==
  LET user == doc[t].vault.user
      Answer(code) == doc' = [doc EXCEPT ![t].requests[k].step = "answered",
                                         ![t].requests[k].answer = code]
      Stands == withdrawn[user] = None \/ (k = "withdraw" /\ withdrawn[user] = t)
      Withdrawal == /\ withdrawn' = [withdrawn EXCEPT ![user] = t]
                    /\ sessions' = [s \in DOMAIN sessions |->
                          [sessions[s] EXCEPT !.live = @ /\ sessions[s].user # user]] IN
  /\ doc[t].requests[k].step = "ready"
  /\ \/ /\ Answer(IF Stands THEN user ELSE "expired")
        /\ IF k = "withdraw" /\ Stands THEN Withdrawal ELSE UNCHANGED <<sessions, withdrawn>>
        /\ UNCHANGED events
     \/ /\ events < MaxEvents /\ events' = events + 1
        /\ \/ \E code \in {"error", "expired"} : Answer(code)
              /\ UNCHANGED <<sessions, withdrawn>>
           \/ k = "withdraw" /\ Stands /\ Answer("error") /\ Withdrawal
  /\ UNCHANGED <<cookie, wire, post, news, foreign, lost, reused>>

(* Slip: the response interceptor does not compare the contexts.           *)
Answered_Slip(d, k) ==
  LET r == d.requests[k] IN
  IF r.answer \in Accounts THEN Delivered(d, k, r.answer)
  ELSE IF r.answer = "error" THEN Failed(d, k, "error")
  ELSE IF r.retried THEN Failed(d, k, "AUTH_005")
  ELSE IF ~d.allowed THEN Failed(d, k, "AUTH_CONTEXT_CHANGED")
  ELSE [d EXCEPT !.refresh = d.epoch,
                 !.requests[k] = [r EXCEPT !.step = "refreshing", !.retried = TRUE]]

(* The response interceptor: nothing of an answer is used under another    *)
(* identity, a 401 is retried once behind a refresh.                       *)
Answered(d, k) ==
  LET r == d.requests[k] IN
  IF r.epoch # d.epoch THEN [d EXCEPT !.requests[k] = NoRequest]
  ELSE IF r.answer \in Accounts THEN Delivered(d, k, r.answer)
  ELSE IF r.answer = "error" THEN Failed(d, k, "error")
  ELSE IF r.retried THEN Failed(d, k, "AUTH_005")
  ELSE IF ~d.allowed THEN Failed(d, k, "AUTH_CONTEXT_CHANGED")
  ELSE [d EXCEPT !.refresh = d.epoch,
                 !.requests[k] = [r EXCEPT !.step = "refreshing", !.retried = TRUE]]

ReceiveAnswer(t, k) ==
  /\ doc[t].requests[k].step = "answered"
  /\ doc' = [doc EXCEPT ![t] = Answered(@, k)]
  /\ UNCHANGED <<sessions, withdrawn, cookie, wire, post, news, foreign,
                 events, lost, reused>>

(* The second try, under whatever identity the document has by then.       *)
Retry(t, k) ==
  /\ doc[t].requests[k].step = "paused"
  /\ doc' = [doc EXCEPT ![t] =
       IF CanRequest(@) THEN Requested(@, k)
       ELSE Failed([@ EXCEPT !.requests[k].again = TRUE], k, "AUTH_CONTEXT_CHANGED")]
  /\ UNCHANGED <<sessions, withdrawn, cookie, wire, post, news, foreign,
                 events, lost, reused>>

---------------------------------------------------------------------------
(* The session operations                                                  *)

(* AuthBootstrap's effect, and the retry button of its error page.         *)
Bootstrap(t) ==
  /\ doc[t].phase \in {"bootstrapping", "bootstrap-error"} /\ doc[t].flow = "none"
  /\ doc' = [doc EXCEPT ![t].phase = "bootstrapping", ![t].flow = "bootRefresh",
                        ![t].since = doc[t].epoch, ![t].refresh = doc[t].epoch]
  /\ UNCHANGED <<sessions, withdrawn, cookie, wire, post, news, foreign,
                 events, lost, reused>>

(* The log-in and sign-up buttons: the identity is dropped first.          *)
BeginSession(t, kind, a) ==
  /\ PublicPages(doc[t]) /\ doc[t].flow = "none"
  /\ events < MaxEvents /\ events' = events + 1
  /\ Len(sessions) < MaxSessions
  /\ doc' = [doc EXCEPT ![t] = [AdvanceAuthContext(@, None, FALSE) EXCEPT
               !.vault = None, !.flow = "loginPost", !.since = doc[t].epoch + 1,
               !.loginError = FALSE]]
  /\ post' = [post EXCEPT ![t] = [step |-> "sent", kind |-> kind, account |-> a]]
  /\ UNCHANGED <<sessions, withdrawn, cookie, wire, news, foreign, lost, reused>>

(* The log-in page offers to load the user again after a log-in that met a *)
(* network or server error.                                                *)
RetryLoad(t) ==
  /\ PublicPages(doc[t]) /\ doc[t].flow = "none" /\ doc[t].loginError
  /\ events < MaxEvents /\ events' = events + 1
  /\ doc' = [doc EXCEPT ![t] = Load(@, "loginLoad")]
  /\ UNCHANGED <<sessions, withdrawn, cookie, wire, post, news, foreign,
                 lost, reused>>

(* Log-out: the identity and the token go first, then the native shell is  *)
(* given time to keep what it must (pushSession), then the cookie is sent. *)
Logout(t) ==
  /\ PrivatePages(doc[t]) /\ doc[t].flow = "none"
  /\ events < MaxEvents /\ events' = events + 1
  /\ doc' = [doc EXCEPT ![t] = [AdvanceAuthContext(@, None, FALSE) EXCEPT
               !.vault = None, !.flow = "logoutNative", !.since = doc[t].epoch + 1]]
  /\ UNCHANGED <<sessions, withdrawn, cookie, wire, post, news, foreign,
                 lost, reused>>

SendLogout(t) ==
  /\ doc[t].flow = "logoutNative"
  /\ IF doc[t].since = doc[t].epoch
     THEN /\ doc' = [doc EXCEPT ![t].flow = "logoutPost"]
          /\ post' = [post EXCEPT ![t] = [step |-> "sent", kind |-> "logout", token |-> cookie]]
     ELSE /\ doc' = [doc EXCEPT ![t].flow = "none"]
          /\ UNCHANGED post
  /\ UNCHANGED <<sessions, withdrawn, cookie, wire, news, foreign, events, lost, reused>>

(* The server: a log-in opens a session, unless the account is withdrawn   *)
(* (a sign-up has just created it); a log-out ends the one its token names *)
(* and expires the cookie in any case.                                     *)
ServePost(t) ==
  LET p == post[t] IN
  /\ p.step = "sent"
  /\ IF p.kind = "logout"
     THEN /\ sessions' = IF p.token = None THEN sessions ELSE Ending(p.token)
          /\ post' = [post EXCEPT ![t] = [step |-> "served", kind |-> "logout", token |-> None]]
     ELSE IF withdrawn[p.account] # None
     THEN /\ post' = [post EXCEPT ![t] = [step |-> "served", kind |-> "refused", token |-> cookie]]
          /\ UNCHANGED sessions
     ELSE /\ sessions' = Append(sessions, [user |-> p.account, number |-> 0, live |-> TRUE])
          /\ post' = [post EXCEPT ![t] =
                [step |-> "served", kind |-> p.kind,
                 token |-> [session |-> Len(sessions) + 1, number |-> 0]]]
  /\ UNCHANGED <<withdrawn, cookie, doc, wire, news, foreign, events, lost, reused>>

(* The log-in's answer: the token is kept, the caches of whoever was there *)
(* are cleared, and the user is loaded.                                    *)
SessionAnswered(t) ==
  LET d == doc[t]
      kept == [d EXCEPT !.vault = [user |-> UserOf(post[t].token), fresh |-> TRUE],
                        !.me = None, !.requests["me"] = NoRequest] IN
  /\ post[t].step = "served" /\ post[t].kind \in {"login", "signUp"}
  /\ post' = [post EXCEPT ![t] = Idle]
  /\ StoreCookie(t, post[t].token)
  /\ doc' = [doc EXCEPT ![t] = IF d.since = d.epoch THEN Load(kept, "loginLoad")
                               ELSE [d EXCEPT !.flow = "none"]]
  /\ UNCHANGED <<sessions, withdrawn, wire, news, events, lost, reused>>

SessionRefused(t) ==
  /\ post[t].step = "served" /\ post[t].kind = "refused"
  /\ post' = [post EXCEPT ![t] = Idle]
  /\ doc' = [doc EXCEPT ![t].flow = "none"]
  /\ UNCHANGED <<sessions, withdrawn, cookie, wire, news, foreign, events, lost, reused>>

(* No answer.  A sign-up asks the refresh endpoint whether the cookie came *)
(* (recoverCompletedSignUpSession); a log-in shows its error.              *)
SessionLost(t) ==
  LET d == doc[t] IN
  /\ post[t] # Idle /\ post[t].kind \in {"login", "signUp"}
  /\ events < MaxEvents /\ events' = events + 1
  /\ post' = [post EXCEPT ![t] = Idle]
  /\ doc' = [doc EXCEPT ![t] =
       IF post[t].kind = "signUp" /\ d.since = d.epoch
       THEN [AdvanceAuthContext(d, None, TRUE) EXCEPT
               !.flow = "recoverRefresh", !.since = d.epoch + 1, !.refresh = d.epoch + 1]
       ELSE [d EXCEPT !.flow = "none", !.loginError = (d.since = d.epoch)]]
  /\ UNCHANGED <<sessions, withdrawn, cookie, wire, news, foreign, lost, reused>>

(* A page that is loaded again starts from nothing: its requests are       *)
(* abandoned, and an answer not yet received is lost with its cookie.      *)
Reloading(t) ==
  /\ doc' = [doc EXCEPT ![t] = NewDocument]
  /\ wire' = [wire EXCEPT ![t] = Idle]
  /\ post' = [post EXCEPT ![t] = Idle]
  /\ foreign' = foreign \ {t}
  /\ lost' = (lost \/ (wire[t] # Idle /\ wire[t].step = "served" /\ wire[t].token # None))

(* The end of a log-out, answered or not, if the context is still its own: *)
(* the local session ends, the other tabs are told, the page is replaced.  *)
LogoutEnds(t) ==
  IF doc[t].since = doc[t].epoch
  THEN /\ news' = (news \cup Tabs) \ {t}
       /\ Reloading(t)
  ELSE /\ doc' = [doc EXCEPT ![t].flow = "none"]
       /\ post' = [post EXCEPT ![t] = Idle]
       /\ UNCHANGED <<wire, news, foreign, lost>>

LogoutAnswered(t) ==
  /\ post[t].step = "served" /\ post[t].kind = "logout"
  /\ cookie' = None
  /\ LogoutEnds(t)
  /\ UNCHANGED <<sessions, withdrawn, events, reused>>

(* The local session ends without an answer too.                           *)
LogoutLost(t) ==
  /\ post[t] # Idle /\ post[t].kind = "logout"
  /\ events < MaxEvents /\ events' = events + 1
  /\ LogoutEnds(t)
  /\ UNCHANGED <<sessions, withdrawn, cookie, reused>>

(* completeAccountWithdrawal, after the native shell's time.               *)
CompleteWithdrawal(t) ==
  LET d == [doc[t] EXCEPT !.flow = "none"] IN
  /\ doc[t].flow = "withdrawNative"
  /\ IF d.since = d.epoch
     THEN /\ doc' = [doc EXCEPT ![t] = EndLocalSession(d)]
          /\ news' = news \cup (Tabs \ {t})
     ELSE /\ doc' = [doc EXCEPT ![t] = d]
          /\ UNCHANGED news
  /\ UNCHANGED <<sessions, withdrawn, cookie, wire, post, foreign, events, lost, reused>>

HearSessionEnded(t) ==
  /\ t \in news
  /\ news' = news \ {t}
  /\ doc' = [doc EXCEPT ![t] = EndLocalSession(@)]
  /\ UNCHANGED <<sessions, withdrawn, cookie, wire, post, foreign, events, lost, reused>>

(* A protected request of a page: /users/me read again on focus, a new     *)
(* nickname, a withdrawal.                                                 *)
Request(t, k) ==
  /\ PrivatePages(doc[t]) /\ doc[t].flow = "none"
  /\ doc[t].requests[k].step = "idle"
  /\ events < MaxEvents /\ events' = events + 1
  /\ CanRequest(doc[t])
  /\ doc' = [doc EXCEPT ![t] = Requested(@, k)]
  /\ UNCHANGED <<sessions, withdrawn, cookie, wire, post, news, foreign,
                 lost, reused>>

(* Time passes: the access token comes within thirty seconds of its end.   *)
Expire(t) ==
  /\ ~ShouldRefreshAccessToken(doc[t])
  /\ events < MaxEvents /\ events' = events + 1
  /\ doc' = [doc EXCEPT ![t].vault.fresh = FALSE]
  /\ UNCHANGED <<sessions, withdrawn, cookie, wire, post, news, foreign,
                 lost, reused>>

Reload(t) ==
  /\ events < MaxEvents /\ events' = events + 1
  /\ Reloading(t)
  /\ news' = news \ {t}
  /\ UNCHANGED <<sessions, withdrawn, cookie, reused>>

---------------------------------------------------------------------------
(* At first the browser may hold the cookie of an earlier visit.           *)
Init ==
  /\ \/ /\ sessions = <<[user |-> Earlier, number |-> 0, live |-> TRUE]>>
        /\ cookie = [session |-> 1, number |-> 0]
     \/ sessions = <<>> /\ cookie = None
  /\ withdrawn = [a \in Accounts |-> None]
  /\ doc = [t \in Tabs |-> NewDocument]
  /\ wire = [t \in Tabs |-> Idle] /\ post = [t \in Tabs |-> Idle]
  /\ news = {} /\ foreign = {}
  /\ events = 0
  /\ lost = FALSE /\ reused = FALSE

Answers(t) ==
  \/ SendRefresh(t) \/ ServeRefresh(t) \/ RefreshAnswered(t)
  \/ ServePost(t) \/ SessionAnswered(t) \/ SessionRefused(t) \/ LogoutAnswered(t)
  \/ \E k \in Kinds : SendRequest(t, k) \/ ReceiveAnswer(t, k) \/ Retry(t, k)
  \/ SendLogout(t) \/ CompleteWithdrawal(t) \/ HearSessionEnded(t)

Faults(t) == RefreshLost(t) \/ SessionLost(t) \/ LogoutLost(t)

UserActs(t) ==
  \/ Bootstrap(t)
  \/ \E a \in Accounts, kind \in {"login", "signUp"} : BeginSession(t, kind, a)
  \/ RetryLoad(t) \/ Logout(t)
  \/ \E k \in Kinds : Request(t, k)
  \/ Expire(t) \/ Reload(t)

Next == \E t \in Tabs : Answers(t) \/ Faults(t) \/ UserActs(t)

(* The browser runs the effects and continuations of a loaded page; every  *)
(* request is answered or fails within its timeout.                        *)
Fairness == \A t \in Tabs :
  /\ WF_vars(doc[t].phase = "bootstrapping" /\ Bootstrap(t))
  /\ WF_vars(SendRefresh(t)) /\ WF_vars(ServeRefresh(t)) /\ WF_vars(RefreshAnswered(t))
  /\ WF_vars(ServePost(t)) /\ WF_vars(SessionAnswered(t)) /\ WF_vars(SessionRefused(t))
  /\ WF_vars(LogoutAnswered(t)) /\ WF_vars(SendLogout(t))
  /\ WF_vars(CompleteWithdrawal(t)) /\ WF_vars(HearSessionEnded(t))
  /\ \A k \in Kinds : WF_vars(SendRequest(t, k)) /\ WF_vars(ReceiveAnswer(t, k))
                     /\ WF_vars(Retry(t, k))

Spec == Init /\ [][Next]_vars /\ Fairness

---------------------------------------------------------------------------
Token == [session : Nat \ {0}, number : Nat]
Flows == {"none", "loginPost", "logoutNative", "logoutPost", "withdrawNative"} \cup Loading
RequestState ==
  [step : {"idle", "refreshing", "ready", "answered", "paused"}, epoch : Nat, retried : BOOLEAN,
   again : BOOLEAN, answer : Accounts \cup {None, "error", "expired"}]
Document ==
  [epoch : Nat, user : Accounts \cup {None}, allowed : BOOLEAN,
   phase : {"bootstrapping", "bootstrap-error", "authenticated", "anonymous"},
   vault : [user : Accounts, fresh : BOOLEAN] \cup {None},
   me : Accounts \cup {None}, flow : Flows, since : Nat, refresh : Nat \cup {None},
   loginError : BOOLEAN, requests : [Kinds -> RequestState]]

(* Every variable holds a value of its type.                               *)
TypeOK ==
  /\ sessions \in Seq([user : Accounts, number : Nat, live : BOOLEAN])
  /\ withdrawn \in [Accounts -> Tabs \cup {None}] /\ cookie \in Token \cup {None}
  /\ doc \in [Tabs -> Document]
  /\ \A t \in Tabs : wire[t] = Idle \/
       wire[t] \in [step : {"sent", "served"}, epoch : Nat, token : Token \cup {None}]
  /\ \A t \in Tabs : \/ post[t] = Idle
                     \/ post[t] \in [step : {"sent"}, kind : {"login", "signUp"}, account : Accounts]
                     \/ post[t] \in [step : {"sent", "served"}, token : Token \cup {None},
                                     kind : {"login", "signUp", "refused", "logout"}]
  /\ news \subseteq Tabs /\ foreign \subseteq Tabs
  /\ events \in 0..MaxEvents
  /\ lost \in BOOLEAN /\ reused \in BOOLEAN

(* A tab's identity, its access token and its cached user are one account's*)
(* as long as no other tab and no late answer has put another account's    *)
(* cookie into the browser: nothing else of an earlier identity is kept.   *)
OneIdentity == \A t \in Tabs \ foreign :
  doc[t].phase = "authenticated" /\ doc[t].user # None =>
    /\ doc[t].vault # None => doc[t].vault.user = doc[t].user
    /\ doc[t].me \in {doc[t].user, None}

(* A page that shows no session holds none of an earlier one: whatever was *)
(* in flight when it ended, the cached user stays empty; and the page of a *)
(* session either has its user or is on its way to end it.                 *)
EndedMeansEmpty == \A t \in Tabs :
  /\ doc[t].phase = "anonymous" => doc[t].user = None /\ doc[t].me = None
  /\ doc[t].phase = "authenticated" /\ doc[t].user = None =>
       doc[t].flow \in {"logoutNative", "logoutPost", "withdrawNative"}

(* No token outlives its identity: a document that may not refresh holds a *)
(* token only while it is logging in, or after the load of the user failed.*)
TokenNeedsLogin == \A t \in Tabs :
  doc[t].vault # None /\ ~doc[t].allowed =>
    doc[t].phase = "anonymous" /\ (doc[t].flow = "loginLoad" \/ doc[t].loginError)

(* The lock serialises the browser's refreshes: unless an answer was lost, *)
(* no session is ended because a used token came back.                     *)
NoReuseWithoutLoss == ~reused

(* The start of a page ends, in a session, without one, or in an error.    *)
BootstrapEnds == \A t \in Tabs :
  doc[t].phase = "bootstrapping" ~> doc[t].phase # "bootstrapping"

(* A log-out that was begun leaves the page of the session.                *)
LogoutEndsSession == \A t \in Tabs :
  doc[t].flow = "logoutNative" ~> doc[t].phase # "authenticated"

(* "Identity transitions advance the epoch": while a document's epoch      *)
(* stays, its token does not pass from one account to another.             *)
IdentityTransitionsAdvanceTheEpoch == [][\A t \in Tabs :
  doc[t].vault # None /\ doc'[t].vault # None
    /\ doc'[t].vault.user # doc[t].vault.user => doc'[t].epoch # doc[t].epoch]_vars

(***************************************************************************)
(* What the run checks of several parts under one name.                    *)
(***************************************************************************)

(* A session leaves nothing behind on the page that it ended on.           *)
NothingIsLeft == TypeOK /\ EndedMeansEmpty

(* A page that starts or leaves gets where it is going.                    *)
TransitionsEnd == BootstrapEnds /\ LogoutEndsSession
=============================================================================
