------------------------------- MODULE WebShell -------------------------------
(***************************************************************************)
(* The app's shell around the web client: the loading of documents into    *)
(* its WebView, the screens that cover it, and the bridge over which a     *)
(* document and the shell agree on a session and exchange messages         *)
(* (app/src/shell/OpenMdWebView.tsx, app/src/push/bridgeProtocol.ts,       *)
(* web/src/shared/native/nativeBridge.ts).                                 *)
(*                                                                         *)
(* The shell and the WebView run side by side.  What the WebView reports   *)
(* and what its documents post reach the shell in the order in which it    *)
(* happened; the scripts that the shell injects run in their order, each   *)
(* in whichever document is there by then.  A load that a newer one        *)
(* replaces does not report its end.                                       *)
(***************************************************************************)
EXTENDS Naturals, Sequences

CONSTANTS
  Home,      \* the configured address
  Guide,     \* a page whose way back is the shell's
  Outside,   \* an address of another origin
  Missing,   \* no document, no address, no state
  MaxActs    \* bound: navigations, failures, changes of the session, the person's acts

ASSUME ShellAssumption ==
  /\ Home # Guide /\ Outside \notin {Home, Guide} /\ Missing \notin {Home, Guide, Outside}
  /\ MaxActs \in Nat

VARIABLES
  shell,    \* the app's component
  view,     \* the WebView's document, and the page in it
  coming,   \* the document that started to load last, without an address once that is over
  inbox,    \* what the shell has yet to handle: reports and posted messages
  scripts,  \* the scripts that have yet to run
  acts      \* what MaxActs bounds

shellVars == <<shell, view, coming, inbox, scripts, acts>>

(***************************************************************************)
(* Addresses.                                                              *)
(***************************************************************************)
Addresses == {Home, Guide, Outside}
ClassifyNavigation(url) == IF url = Outside THEN "external" ELSE "internal"
Internal == {url \in Addresses : ClassifyNavigation(url) = "internal"}

(* What the configured address must be for the WebView to open at all.     *)
ResolveWebUrl(url) == url \in Internal

BackFallback(s) == IF s.state = "ready" /\ s.visibleUrl = Guide THEN Home ELSE Missing

RetryUrl(s) ==
  LET failed == IF s.state = "renderer-error" THEN s.visibleUrl ELSE s.failedUrl
  IN IF failed # Missing THEN failed ELSE Home

(***************************************************************************)
(* The documents.  Each loads under a number of its own.                   *)
(***************************************************************************)
NoDocument ==
  [doc |-> 0, url |-> Missing, nonce |-> 0, loaded |-> FALSE, broken |-> FALSE, booted |-> FALSE,
   ready |-> 0, tries |-> 0, armed |-> FALSE, selected |-> 0, epoch |-> 0, told |-> Missing]

NewShell ==
  [state |-> "loading", session |-> 1, issued |-> <<>>, enabled |-> FALSE, connected |-> 0,
   accepted |-> Missing, loadFailed |-> FALSE, documentVisible |-> FALSE,
   pendingUrl |-> Home, visibleUrl |-> Home, failedUrl |-> Missing, documentUrl |-> Home]

(* The script that runs before a document's own has the first nonce, for   *)
(* the component is not made again; on some systems it does not run.       *)
FirstNonce == 1
Loading == coming.url # Missing
LoadIsOver == coming' = [coming EXCEPT !.url = Missing]

StartDocument(url, sent) ==
  /\ coming' = [doc |-> coming.doc + 1, url |-> url]
  /\ inbox' = Append(sent, [kind |-> "start", doc |-> coming.doc + 1, url |-> url])

Act == acts < MaxActs /\ acts' = acts + 1

(***************************************************************************)
(* The page's end of the bridge.  A step of the page gives the page after  *)
(* it and what it posted; without the shell's facade nothing is posted.    *)
(***************************************************************************)
Step(p, posted) == [page |-> p, posted |-> posted]
Posted(p, message) == [message EXCEPT !.nonce = p.nonce, !.doc = p.doc]
Call(p) == <<p.doc, p.ready>>
Ready(p) == Posted(p, [kind |-> "WEB_READY", nonce |-> 0, doc |-> 0, call |-> Call(p)])
AuthState(p) ==
  Posted(p, [kind |-> "AUTH_STATE", nonce |-> 0, doc |-> 0, session |-> p.selected, epoch |-> p.epoch])

SendReady(p) ==
  IF p.tries < 3
  THEN LET sent == [p EXCEPT !.tries = @ + 1, !.armed = TRUE] IN Step(sent, <<Ready(sent)>>)
  ELSE Step([p EXCEPT !.armed = FALSE], <<>>)

Reset(p) == [p EXCEPT !.armed = FALSE, !.selected = 0]

(* Slip: the attempts are not counted anew.                                *)
Begin_Slip(p) ==
  LET idle == Reset(p)
  IN IF p.nonce = 0 THEN Step(idle, <<>>) ELSE SendReady([idle EXCEPT !.ready = @ + 1])

Begin(p) ==
  LET idle == [Reset(p) EXCEPT !.tries = 0]
  IN IF p.nonce = 0 THEN Step(idle, <<>>) ELSE SendReady([idle EXCEPT !.ready = @ + 1])

(* A greeting that answers the latest call opens the session, and the page *)
(* says who is logged in; in a session the messages are its own.           *)
AnswersCall(p, message) == message.kind = "HELLO" /\ message.replyTo = Call(p)
OwnMessage(p, message) == message.kind = "feature" /\ message.session = p.selected
PageReceives(p, message) ==
  CASE p.selected = 0 /\ AnswersCall(p, message) ->
         LET open == [p EXCEPT !.armed = FALSE, !.selected = message.session]
         IN Step(open, <<AuthState(open)>>)
    [] p.selected # 0 /\ OwnMessage(p, message) ->
         Step([p EXCEPT !.told = message.epoch], <<>>)
    [] OTHER -> Step(p, <<>>)

(***************************************************************************)
(* The WebView.                                                            *)
(***************************************************************************)
(* A link or a script of the page opens another document; the shell lets   *)
(* its own origin through.                                                 *)
ShouldStartLoad(url) == ClassifyNavigation(url) = "internal"
Navigate(url) ==
  /\ view.doc # 0 /\ ShouldStartLoad(url) /\ Act
  /\ StartDocument(url, inbox)
  /\ UNCHANGED <<shell, view, scripts>>

(* The document arrives, or the server answers with an error's page.       *)
Commit ==
  /\ Loading /\ LoadIsOver
  /\ \E nonce \in {0, FirstNonce} :
       view' = [NoDocument EXCEPT !.doc = coming.doc, !.url = coming.url, !.nonce = nonce]
  /\ UNCHANGED <<shell, inbox, scripts, acts>>

CommitError ==
  /\ Loading /\ LoadIsOver /\ Act
  /\ view' = [NoDocument EXCEPT !.doc = coming.doc, !.url = coming.url, !.broken = TRUE]
  /\ inbox' = Append(inbox, [kind |-> "httpError", url |-> coming.url])
  /\ UNCHANGED <<shell, scripts>>

(* Nothing answers: the document that was there stays, or makes way for a  *)
(* page of the WebView's own.                                              *)
LoadFails ==
  /\ Loading /\ LoadIsOver /\ Act
  /\ inbox' = Append(inbox, [kind |-> "error", url |-> coming.url])
  /\ view' \in {[view EXCEPT !.loaded = TRUE],
                [NoDocument EXCEPT !.doc = coming.doc, !.broken = TRUE, !.loaded = TRUE]}
  /\ UNCHANGED <<shell, scripts>>

FinishLoad ==
  /\ view.doc # 0 /\ ~view.loaded /\ ~Loading
  /\ view' = [view EXCEPT !.loaded = TRUE]
  /\ inbox' = Append(inbox, [kind |-> "load", url |-> view.url])
  /\ UNCHANGED <<shell, coming, scripts, acts>>

(* The page moves without a new document.                                  *)
MovesTo(url) ==
  /\ view.booted /\ url # view.url /\ Act
  /\ view' = [view EXCEPT !.url = url]
  /\ inbox' = Append(inbox, [kind |-> "moved", url |-> url])
  /\ UNCHANGED <<shell, coming, scripts>>

RendererGone ==
  /\ view.doc # 0 /\ Act
  /\ view' = [NoDocument EXCEPT !.doc = coming.doc, !.broken = TRUE, !.loaded = TRUE]
  /\ LoadIsOver
  /\ inbox' = Append(inbox, [kind |-> "gone"])
  /\ UNCHANGED <<shell, scripts>>

(***************************************************************************)
(* The page's own steps.                                                   *)
(***************************************************************************)
PageDoes(step) == view' = step.page /\ inbox' = inbox \o step.posted

PageBoots ==
  /\ view.doc # 0 /\ ~view.broken /\ ~view.booted
  /\ PageDoes(Begin([view EXCEPT !.booted = TRUE]))
  /\ UNCHANGED <<shell, coming, scripts, acts>>

(* A second passes: more than the shell needs for what it has been sent.   *)
ReadyTimer ==
  /\ view.armed /\ inbox = <<>>
  /\ PageDoes(SendReady(view))
  /\ UNCHANGED <<shell, coming, scripts, acts>>

(* Somebody logs in or out: a new epoch.                                   *)
AuthChanges ==
  /\ view.booted /\ Act
  /\ LET p == [view EXCEPT !.epoch = @ + 1]
     IN PageDoes(Step(p, IF p.selected # 0 THEN <<AuthState(p)>> ELSE <<>>))
  /\ UNCHANGED <<shell, coming, scripts>>

(* The first script of the shell runs: it renews the facade, dispatches a  *)
(* message if the document has its nonce, or replaces the address.         *)
RunScript ==
  /\ scripts # <<>> /\ scripts' = Tail(scripts)
  /\ LET script == Head(scripts)
         renewed == [view EXCEPT !.nonce = script.nonce]
     IN CASE script.kind = "bridge" /\ view.doc # 0 ->
               PageDoes(IF view.booted THEN Begin(renewed) ELSE Step(renewed, <<>>)) /\ UNCHANGED coming
          [] script.kind \in {"HELLO", "feature"} /\ view.booted /\ view.nonce = script.nonce ->
               PageDoes(PageReceives(view, script)) /\ UNCHANGED coming
          [] script.kind = "replace" /\ view.doc # 0 /\ ~view.broken ->
               StartDocument(script.url, inbox) /\ UNCHANGED view
          [] OTHER -> UNCHANGED <<view, coming, inbox>>
  /\ UNCHANGED <<shell, acts>>

(***************************************************************************)
(* The shell handles what the WebView reports.                             *)
(***************************************************************************)
Disconnected(s) == [s EXCEPT !.enabled = FALSE, !.connected = 0]

(* Slip: what the last document said of its session stays.                 *)
LoadStarted_Slip(s, e) ==
  [Disconnected(s) EXCEPT
     !.pendingUrl = e.url, !.loadFailed = FALSE,
     !.session = IF s.issued = <<>> THEN @ ELSE @ + 1, !.issued = Append(@, e.doc),
     !.state = IF s.documentVisible THEN @ ELSE "loading"]

(* Every document but the first has a session and a nonce of its own.      *)
LoadStarted(s, e) ==
  [Disconnected(s) EXCEPT
     !.pendingUrl = e.url, !.loadFailed = FALSE, !.accepted = Missing,
     !.session = IF s.issued = <<>> THEN @ ELSE @ + 1, !.issued = Append(@, e.doc),
     !.state = IF s.documentVisible THEN @ ELSE "loading"]

LoadErrorShown(s, url) ==
  [Disconnected(s) EXCEPT !.failedUrl = url, !.loadFailed = TRUE, !.state = "load-error"]

IsPendingError(s, e) == e.url = s.pendingUrl

RendererErrorShown(s) == [Disconnected(s) EXCEPT !.loadFailed = TRUE, !.state = "renderer-error"]

BridgeScript(s) == [kind |-> "bridge", nonce |-> s.session]
Loaded(s, e) ==
  [s EXCEPT !.visibleUrl = e.url, !.documentVisible = TRUE, !.failedUrl = Missing,
            !.enabled = TRUE, !.state = "ready"]

(* A message counts only with the bridge enabled and the document's nonce. *)
Trusted(s, e) == s.enabled /\ e.nonce = s.session

(* A call is greeted; the first of a session connects the coordinators.    *)
Greeting(s, e) == [kind |-> "HELLO", nonce |-> s.session, session |-> s.session, replyTo |-> e.call]
Greeted(s, e) == [s EXCEPT !.connected = s.session]

(* Of the session's messages, the state of an older epoch is refused.      *)
OfSession(s, e) == e.session = s.session
DecideAuthState(s, e) == s.accepted = Missing \/ s.accepted.epoch <= e.epoch

(* The coordinators ask the page for what goes with the state.             *)
Question(s, e) ==
  IF s.connected = s.session
  THEN <<[kind |-> "feature", nonce |-> s.session, session |-> s.session, epoch |-> e.epoch]>>
  ELSE <<>>
AuthAccepted(s, e) == [s EXCEPT !.accepted = [doc |-> e.doc, epoch |-> e.epoch]]

Shows(s) == shell' = s /\ UNCHANGED scripts
Injects(s, injected) == shell' = s /\ scripts' = scripts \o injected

HandleEvent ==
  /\ inbox # <<>> /\ inbox' = Tail(inbox)
  /\ LET e == Head(inbox)
     IN CASE e.kind = "start" -> Shows(LoadStarted(shell, e))
          [] e.kind = "load" /\ ~shell.loadFailed -> Injects(Loaded(shell, e), <<BridgeScript(shell)>>)
          [] e.kind = "error" -> Shows(LoadErrorShown(shell, e.url))
          [] e.kind = "httpError" /\ IsPendingError(shell, e) -> Shows(LoadErrorShown(shell, e.url))
          [] e.kind = "gone" -> Shows(RendererErrorShown(shell))
          [] e.kind = "moved" -> Shows([shell EXCEPT !.visibleUrl = e.url])
          [] e.kind = "WEB_READY" /\ Trusted(shell, e) -> Injects(Greeted(shell, e), <<Greeting(shell, e)>>)
          [] e.kind = "AUTH_STATE" /\ Trusted(shell, e) /\ OfSession(shell, e)
            /\ DecideAuthState(shell, e) ->
               Injects(AuthAccepted(shell, e), Question(shell, e))
          [] OTHER -> UNCHANGED <<shell, scripts>>
  /\ UNCHANGED <<view, coming, acts>>

(***************************************************************************)
(* What the person does with the shell.                                    *)
(***************************************************************************)
(* A new WebView takes the old one's place.                                *)
ErrorShown == shell.state \in {"load-error", "renderer-error"}
Retry ==
  /\ ErrorShown /\ Act
  /\ LET url == RetryUrl(shell)
     IN /\ shell' = [shell EXCEPT !.documentVisible = FALSE, !.failedUrl = Missing,
                                  !.loadFailed = FALSE, !.pendingUrl = url, !.documentUrl = url,
                                  !.state = "loading"]
        /\ StartDocument(url, <<>>)
  /\ view' = NoDocument /\ scripts' = <<>>

(* A link to a new window opens in this one, if it is not the address that *)
(* the component already has.                                              *)
OpenWindow(url) ==
  /\ view.booted /\ ClassifyNavigation(url) = "internal" /\ url # shell.documentUrl /\ Act
  /\ shell' = [shell EXCEPT !.documentUrl = url]
  /\ StartDocument(url, inbox)
  /\ UNCHANGED <<view, scripts>>

HardwareBack ==
  /\ BackFallback(shell) # Missing /\ Act
  /\ Injects(shell, <<[kind |-> "replace", nonce |-> 0, url |-> BackFallback(shell)]>>)
  /\ UNCHANGED <<view, coming, inbox>>

(***************************************************************************)
(* The specification.                                                      *)
(***************************************************************************)
ShellInit ==
  /\ ResolveWebUrl(Home)
  /\ shell = NewShell /\ view = NoDocument
  /\ coming = [doc |-> 1, url |-> Home]
  /\ inbox = <<[kind |-> "start", doc |-> 1, url |-> Home]>>
  /\ scripts = <<>> /\ acts = 0

(* The WebView gets on with a load, the page runs, events are handled and  *)
(* scripts run: finitely many steps between two acts.                      *)
ShellRuns == Commit \/ FinishLoad \/ PageBoots \/ ReadyTimer \/ RunScript \/ HandleEvent

ShellDisturbed ==
  \/ \E url \in Internal : Navigate(url) \/ MovesTo(url) \/ OpenWindow(url)
  \/ CommitError \/ LoadFails \/ RendererGone \/ AuthChanges \/ Retry \/ HardwareBack

ShellNext == ShellRuns \/ ShellDisturbed
ShellSpec == ShellInit /\ [][ShellNext]_shellVars /\ WF_shellVars(ShellRuns)

(***************************************************************************)
(* Properties.                                                             *)
(***************************************************************************)
ShellTypeOK ==
  /\ shell.state \in {"loading", "ready", "load-error", "renderer-error"}
  /\ shell.session \in Nat \ {0} /\ shell.issued \in Seq(Nat) /\ shell.connected \in {0, shell.session}
  /\ {shell.pendingUrl, shell.visibleUrl, shell.documentUrl} \subseteq Internal
  /\ shell.failedUrl \in Internal \cup {Missing}
  /\ view.tries \in 0..3 /\ view.nonce \in 0..shell.session
  /\ view.doc <= coming.doc

(* What the shell takes for the session's state was said by the document   *)
(* that is loaded in the session: nothing of an earlier one is left.       *)
AcceptedIsOwn ==
  shell.accepted # Missing => shell.accepted.doc = shell.issued[shell.session]

(* A page's session is the one that was opened for its document.           *)
SelectedIsOwn == view.selected # 0 => shell.issued[view.selected] = view.doc

(* The coordinators talk to a document only while its screen is up.        *)
ConnectedIsShown ==
  shell.enabled \/ shell.connected # 0 => shell.state = "ready" /\ ~shell.loadFailed

(* All three: a session never spans two documents.                         *)
BridgeIsSound == ShellTypeOK /\ AcceptedIsOwn /\ SelectedIsOwn /\ ConnectedIsShown

(* The page and the shell are in one session, and the shell has answered   *)
(* the page's present state.                                               *)
InTouch ==
  /\ view.selected = shell.session /\ shell.connected = shell.session
  /\ shell.accepted # Missing /\ shell.accepted.epoch = view.epoch
  /\ view.told = view.epoch

(* The loading screen goes, and a shown document that stays gets in touch  *)
(* with the shell, however often the handshake was cut short.              *)
NoError == shell.state \in {"loading", "ready"}
BridgeComesUp == NoError ~> ~NoError \/ (shell.state = "ready" /\ (InTouch \/ view.broken))

=============================================================================
