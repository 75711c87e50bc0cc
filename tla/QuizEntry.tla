------------------------------- MODULE QuizEntry -------------------------------
(***************************************************************************)
(* Asking for a quiz: the material's route with its conditions and its     *)
(* consent to send the text away, the set's route that waits for the       *)
(* generation, and the notifications that tell the outcome elsewhere       *)
(* (web/src/pages/quiz, web/src/features/notification).  One account, one  *)
(* material and one browser: the quiz routes are open in one of its tabs,  *)
(* its other tabs only show notifications.                                 *)
(*                                                                         *)
(* A request is served when its answer arrives; one whose answer is lost   *)
(* has been served or never will be.  The tabs are in the foreground and   *)
(* the browser's storage works.                                            *)
(***************************************************************************)
EXTENDS Naturals, FiniteSets

CONSTANTS
  SetIds,      \* the quiz sets that can be made
  Revisions,   \* the contents 1..n of the material, in their order
  Nil,         \* nothing there, or an empty answer
  Unheard,     \* a query that has no data yet
  MaxVisits,   \* how often the person opens a route or reloads the tab
  MaxFaults    \* how many requests fail or lose their answers

ASSUME EntryAssumption ==
  /\ IsFiniteSet(SetIds) /\ IsFiniteSet(Revisions)
  /\ Revisions = 1 .. Cardinality(Revisions) /\ Revisions # {}
  /\ MaxVisits \in Nat /\ MaxFaults \in Nat

Statuses == {"GENERATING", "READY", "FAILED"}
SetRow == [status : Statuses, rev : Revisions, by : {"here", "there"}]
Origin == [at : SetIds \cup {"material"}, status : Statuses \cup {"NONE"}, rev : Revisions \cup {Unheard}]
FlowState ==
  [scene : {"CONDITIONS", "GENERATION", "READY"}, gen : Statuses \cup {"REQUEST_FAILED"},
   dialog : BOOLEAN, starting : BOOLEAN, confirmed : BOOLEAN]
CreateRequest == [slot : {1, 2}, rev : Revisions, looks : BOOLEAN, again : BOOLEAN, live : BOOLEAN]

(* The values that say that there is none differ from those that are one.  *)
ASSUME ValuesAssumption ==
  /\ SetIds \cap {"elsewhere", "material"} = {}
  /\ Nil \notin Revisions /\ Nil \notin SetIds
  /\ Nil \notin SetRow /\ Nil \notin Origin /\ Nil \notin FlowState
  /\ Unheard \notin Revisions /\ Unheard \notin SetIds /\ Unheard \notin Statuses
  /\ Unheard # Nil

VARIABLES
  content,     \* the server's material: its present revision
  sets,        \* the server's quiz sets
  consented,   \* the revisions the person has agreed to send
  record,      \* storage: the revision of the last agreement
  pending,     \* storage: the sets whose generation this browser waits for
  delivered,   \* storage: the sets whose snackbar has been claimed
  shown,       \* how many snackbars have told of each set
  noteSeen,    \* cache: the unread notifications
  noteStale,   \* the notifications were invalidated
  route,       \* "elsewhere", "material" or the set whose route is open
  asking,      \* the open route's queries that are under way
  failed,      \* the open route's queries that ended in an error
  activeSeen,  \* cache: the material's active set
  held,        \* cache: the material's revision and whether it is agreed to
  setSeen,     \* cache: the status of each set
  flow,        \* the mounted page, Nil while the route loads or failed
  requests,    \* the page's requests, of pages that were left too
  visits, faults

entryVars == <<content, sets, consented, record, pending, delivered, shown, noteSeen,
               noteStale, route, asking, failed, activeSeen, held, setSeen, flow,
               requests, visits, faults>>

serverVars == <<content, sets>>
storageVars == <<consented, record, pending, delivered>>
noteVars == <<shown, noteSeen, noteStale>>
queryVars == <<asking, failed, activeSeen, held, setSeen>>

(***************************************************************************)
(* The server.                                                             *)
(***************************************************************************)
Made(id) == sets[id] # Nil
Generating(id) == Made(id) /\ sets[id].status = "GENERATING"
Settled(id) == Made(id) /\ sets[id].status # "GENERATING"
Busy == \E id \in SetIds : Generating(id)
(* Every set that has settled is told of in the first page of notifications. *)
Unread == {id \in SetIds : Settled(id)}

Unmade == {id \in SetIds : ~Made(id)}
NextId == CHOOSE id \in Unmade : TRUE

(* The material's own generation, as the active query answers. *)
ActiveSet ==
  LET own == {id \in SetIds : Generating(id) /\ sets[id].by = "here"}
  IN IF own = {} THEN Nil ELSE CHOOSE id \in own : TRUE

Accept(rev, by) == sets' = [sets EXCEPT ![NextId] = [status |-> "GENERATING", rev |-> rev, by |-> by]]

(* Another device asks for a quiz, of another material. *)
OtherGenerates ==
  /\ ~Busy /\ Unmade # {}
  /\ Accept(1, "there")
  /\ UNCHANGED <<content, storageVars, noteVars, route, queryVars, flow, requests, visits, faults>>

(* A generation ends, in success or failure; how another material's ends   *)
(* makes no difference here.                                               *)
Settle(id) ==
  /\ Generating(id)
  /\ \E s \in {"READY"} \cup (IF sets[id].by = "here" THEN {"FAILED"} ELSE {}) : sets' = [sets EXCEPT ![id].status = s]
  /\ UNCHANGED <<content, storageVars, noteVars, route, queryVars, flow, requests, visits, faults>>

(* While a quiz is made of it the material cannot be edited. *)
Editable == ActiveSet = Nil /\ content + 1 \in Revisions

EditedThere ==
  /\ Editable
  /\ content' = content + 1
  /\ UNCHANGED <<sets, storageVars, noteVars, route, queryVars, flow, requests, visits, faults>>

(* Edited on this browser, the answer replaces what the cache held. *)
EditedHere ==
  /\ Editable /\ route = "elsewhere"
  /\ content' = content + 1 /\ held' = content + 1
  /\ UNCHANGED <<sets, storageVars, noteVars, route, asking, failed, activeSeen, setSeen,
                 flow, requests, visits, faults>>

(***************************************************************************)
(* What the open route shows.                                              *)
(***************************************************************************)
HasConfirmed(rev) == record = rev

(* The data the page is mounted from; Nil while the route loads or failed. *)
(* Only a page that can ask for a quiz needs the material.                 *)
Source(r, status, rev) == [at |-> r, status |-> status, rev |-> rev]
MountedFrom(r, active, rev, seen, errors) ==
  CASE r = "elsewhere" -> Nil
    [] r = "material" /\ active = Nil /\ rev # Unheard /\ errors = {} -> Source(r, "NONE", rev)
    [] r \in SetIds /\ seen[r] \in {"GENERATING", "READY"} /\ "set" \notin errors ->
         Source(r, seen[r], Unheard)
    [] r \in SetIds /\ seen[r] = "FAILED" /\ rev # Unheard /\ errors = {} -> Source(r, "FAILED", rev)
    [] OTHER -> Nil

Mounted == MountedFrom(route, activeSeen, held, setSeen, failed)

InitialScene(status) ==
  CASE status = "NONE" -> "CONDITIONS" [] status = "READY" -> "READY" [] OTHER -> "GENERATION"

(* Without a set the screen of the making is ready for a request.          *)
GenerationState(status) == IF status = "NONE" THEN "GENERATING" ELSE status

FlowPage(from, agreed) ==
  [scene |-> InitialScene(from.status),
   gen |-> GenerationState(from.status),
   dialog |-> FALSE, starting |-> FALSE, confirmed |-> from.rev = agreed]

(* A page that is replaced leaves its requests behind.  Leaving the route  *)
(* also cancels the look for an active set that a retry waits for; it then *)
(* reads as none and the retry goes on to create.                          *)
Left(reqs) == {[c EXCEPT !.live = FALSE, !.looks = c.looks /\ route' = route] : c \in reqs}

(* Slip: another revision keeps the page and its consent.                  *)
Render_Slip(reqs) ==
  LET now == MountedFrom(route', activeSeen', held', setSeen', failed')
  IN IF now # Nil /\ Mounted # Nil /\ now.at = Mounted.at /\ now.status = Mounted.status
     THEN requests' = reqs /\ UNCHANGED flow
     ELSE /\ requests' = Left(reqs)
          /\ flow' = IF now = Nil THEN Nil ELSE FlowPage(now, record)

(* React's step after the queries or the route have changed: the page      *)
(* stays while it is mounted from the same data and is replaced otherwise. *)
Render(reqs) ==
  LET now == MountedFrom(route', activeSeen', held', setSeen', failed')
  IN IF now = Mounted THEN requests' = reqs /\ UNCHANGED flow
     ELSE /\ requests' = Left(reqs)
          /\ flow' = IF now = Nil THEN Nil ELSE FlowPage(now, record)

SavePending(id) == pending' = pending \cup {id}

(* Opening a set's route asks for the set, and for a failed one also for   *)
(* the material; leaving a route cancels its queries.                      *)
GoToSet(id) ==
  /\ route' = id /\ failed' = {}
  /\ asking' = {"set"} \cup (IF setSeen[id] = "FAILED" /\ held = Unheard THEN {"material"} ELSE {})
  /\ SavePending(id)

(***************************************************************************)
(* Routes.                                                                 *)
(***************************************************************************)
Visit == visits < MaxVisits /\ visits' = visits + 1

(* The cached answer of the active query is followed before it is renewed. *)
VisitMaterial ==
  /\ Visit
  /\ IF activeSeen \in SetIds THEN GoToSet(activeSeen)
     ELSE /\ route' = "material" /\ failed' = {}
          /\ \E stale \in {TRUE, held = Unheard} :
               asking' = {"active"} \cup (IF stale THEN {"material"} ELSE {})
          /\ UNCHANGED pending
  /\ UNCHANGED <<activeSeen, held, setSeen>>
  /\ Render(requests)
  /\ UNCHANGED <<serverVars, consented, record, delivered, noteVars, faults>>

Leave ==
  /\ route # "elsewhere"
  /\ route' = "elsewhere" /\ asking' = {} /\ failed' = {}
  /\ UNCHANGED <<activeSeen, held, setSeen>>
  /\ Render(requests)
  /\ UNCHANGED <<serverVars, storageVars, noteVars, visits, faults>>

(* Only the storage survives a reload of the tab. *)
Reload ==
  /\ Visit
  /\ activeSeen' = Unheard /\ held' = Unheard /\ setSeen' = [id \in SetIds |-> Unheard]
  /\ asking' = CASE route = "elsewhere" -> {} [] route = "material" -> {"active", "material"}
                 [] OTHER -> {"set"}
  /\ failed' = {} /\ flow' = Nil /\ requests' = {}
  /\ noteSeen' = {} /\ noteStale' = TRUE
  /\ UNCHANGED <<serverVars, storageVars, shown, route, faults>>

(***************************************************************************)
(* Answers to the open route's queries.                                    *)
(***************************************************************************)
Answered(q) == asking' = asking \ {q} /\ failed' = failed \ {q}

(* The material's page follows an active set to its route. *)
FollowActive(active) ==
  /\ activeSeen' = active
  /\ IF active # Nil THEN GoToSet(active) ELSE Answered("active") /\ UNCHANGED <<pending, route>>
  /\ UNCHANGED <<held, setSeen>>

ActiveFetched ==
  /\ "active" \in asking
  /\ FollowActive(ActiveSet)
  /\ Render(requests)
  /\ UNCHANGED <<serverVars, consented, record, delivered, noteVars, visits, faults>>

MaterialFetched ==
  /\ "material" \in asking
  /\ held' = content /\ Answered("material")
  /\ UNCHANGED <<activeSeen, setSeen, route>>
  /\ Render(requests)
  /\ UNCHANGED <<serverVars, storageVars, noteVars, visits, faults>>

(* A set is asked for by its route, and again while it is being made; so   *)
(* does the notification runtime with the sets it waits for.               *)
Polled(id) == Made(id) /\ setSeen[id] \in {Unheard, "GENERATING"}
SetFetched(id) ==
  /\ \/ route = id /\ "set" \in asking
     \/ (route = id \/ id \in pending) /\ Polled(id)
  /\ LET status == sets[id].status
     IN /\ setSeen' = [setSeen EXCEPT ![id] = status]
        /\ IF route = id
           THEN /\ asking' = (asking \ {"set"}) \cup
                     (IF status = "FAILED" /\ held = Unheard THEN {"material"} ELSE {})
                /\ failed' = failed \ {"set"}
                /\ pending' = IF status = "GENERATING" THEN pending \cup {id} ELSE pending
           ELSE UNCHANGED <<asking, failed, pending>>
  /\ UNCHANGED <<activeSeen, held, route>>
  /\ Render(requests)
  /\ UNCHANGED <<serverVars, consented, record, delivered, noteVars, visits, faults>>

FetchFails(q) ==
  /\ q \in asking \/ (q = "set" /\ route \in SetIds /\ Polled(route))
  /\ faults < MaxFaults /\ faults' = faults + 1
  /\ asking' = asking \ {q} /\ failed' = failed \cup {q}
  /\ UNCHANGED <<activeSeen, held, setSeen, route>>
  /\ Render(requests)
  /\ UNCHANGED <<serverVars, storageVars, noteVars, visits>>

TryAgain ==
  /\ ~(failed \subseteq asking)
  /\ asking' = asking \cup failed
  /\ UNCHANGED <<serverVars, storageVars, noteVars, route, failed, activeSeen, held, setSeen,
                 flow, requests, visits, faults>>

(***************************************************************************)
(* The page.                                                               *)
(***************************************************************************)
OnPage == UNCHANGED <<serverVars, delivered, pending, noteVars, route, queryVars, visits, faults>>

(* On a failed set's route the page goes on showing that failure: there    *)
(* every outcome of a request gives way to what the query says.            *)
Display(g) == IF route = "material" THEN g ELSE setSeen[route]

Slots == {1, 2} \ {c.slot : c \in requests}
Request(looks) ==
  /\ Slots # {}
  /\ requests' = requests \cup
       {[slot |-> CHOOSE n \in Slots : \A i \in Slots : n <= i, rev |-> held, looks |-> looks,
         again |-> looks, live |-> TRUE]}

RequestGeneration(page) ==
  /\ Request(FALSE)
  /\ flow' = [page EXCEPT !.starting = TRUE, !.scene = "GENERATION", !.gen = Display("GENERATING")]

ConditionsScreen == flow # Nil /\ flow.scene = "CONDITIONS" /\ ~flow.starting
GenerationScreen == flow # Nil /\ flow.scene = "GENERATION"
GenerationError == GenerationScreen /\ flow.gen # "GENERATING"
DisclosureDialog == ConditionsScreen /\ flow.dialog

(* Only a request that got no answer is sent again from its error; from    *)
(* any other the way leads back to the conditions.                         *)
RecoveryMode == IF flow.gen = "REQUEST_FAILED" THEN "RETRY_REQUEST" ELSE "RETURN_TO_CONDITIONS"

StartGeneration ==
  /\ ConditionsScreen /\ ~flow.dialog
  /\ IF flow.confirmed THEN RequestGeneration(flow)
     ELSE flow' = [flow EXCEPT !.dialog = TRUE] /\ UNCHANGED requests
  /\ UNCHANGED <<consented, record>> /\ OnPage

ConfirmGeneration ==
  /\ DisclosureDialog
  /\ record' = held /\ consented' = consented \cup {held}
  /\ RequestGeneration([flow EXCEPT !.confirmed = TRUE])
  /\ OnPage

CancelDisclosure ==
  /\ DisclosureDialog
  /\ flow' = [flow EXCEPT !.dialog = FALSE]
  /\ UNCHANGED <<consented, record, requests>> /\ OnPage

(* The screen's back button goes to the conditions from every error, ... *)
ReturnToConditions ==
  /\ GenerationError
  /\ flow' = [flow EXCEPT !.scene = "CONDITIONS"]
  /\ UNCHANGED <<consented, record, requests>> /\ OnPage

(* ... and a request is sent again once the server says that no set of the *)
(* material is being made.                                                 *)
RetryGeneration ==
  /\ GenerationError /\ RecoveryMode = "RETRY_REQUEST"
  /\ Request(TRUE)
  /\ flow' = [flow EXCEPT !.gen = "GENERATING"]
  /\ UNCHANGED <<consented, record>> /\ OnPage

(***************************************************************************)
(* Answers to the page's requests.                                         *)
(***************************************************************************)
Looked(c) ==
  /\ c \in requests /\ c.looks
  /\ FollowActive(ActiveSet)
  /\ Render((requests \ {c}) \cup (IF ActiveSet = Nil THEN {[c EXCEPT !.looks = FALSE]} ELSE {}))
  /\ UNCHANGED <<serverVars, consented, record, delivered, noteVars, visits, faults>>

LookFails(c) ==
  /\ c \in requests /\ c.looks
  /\ faults < MaxFaults /\ faults' = faults + 1
  /\ failed' = failed \cup {"active"}
  /\ UNCHANGED <<asking, activeSeen, held, setSeen, route>>
  /\ Render(requests \ {c})
  /\ UNCHANGED <<serverVars, storageVars, noteVars, visits>>

Outdated(c) == content # c.rev
ActiveConflict(c) == ~Outdated(c) /\ Busy
Acceptable(c) == ~Outdated(c) /\ ~Busy /\ Unmade # {}

(* The set that was made is waited for and shown, wherever the person is. *)
CreateAccepted(c) ==
  /\ c \in requests /\ ~c.looks /\ Acceptable(c)
  /\ Accept(c.rev, "here") /\ GoToSet(NextId)
  /\ UNCHANGED <<content, consented, record, delivered, activeSeen, held, setSeen>>
  /\ Render(requests \ {c})
  /\ UNCHANGED <<noteVars, visits, faults>>

Ended(c, ended) ==
  /\ requests' = requests \ {c}
  /\ flow' = IF c.live THEN [ended EXCEPT !.starting = FALSE, !.dialog = FALSE] ELSE flow
  /\ UNCHANGED <<content, storageVars, noteVars, route, failed, activeSeen, held, setSeen, visits>>

(* Refused because another generation is under way. *)
CreateConflicts(c) ==
  /\ c \in requests /\ ~c.looks /\ ActiveConflict(c)
  /\ Ended(c, [flow EXCEPT !.scene = "CONDITIONS"])
  /\ UNCHANGED <<sets, asking, faults>>

(* Refused because the material has changed: the page asks for the         *)
(* material and stays locked until that is answered.  A retry has no       *)
(* special case for it.                                                    *)
CreateOutdated(c) ==
  /\ c \in requests /\ ~c.looks /\ Outdated(c)
  /\ IF c.live /\ ~c.again
     THEN /\ requests' = requests \ {c}
          /\ flow' = [flow EXCEPT !.confirmed = FALSE, !.scene = "CONDITIONS"]
          /\ asking' = asking \cup {"material"}
          /\ UNCHANGED <<content, storageVars, noteVars, route, failed, activeSeen, held, setSeen, visits>>
     ELSE Ended(c, [flow EXCEPT !.gen = Display("REQUEST_FAILED")]) /\ UNCHANGED asking
  /\ UNCHANGED <<sets, faults>>

(* The answer is lost, or the server refuses for another reason. *)
CreateFails(c) ==
  /\ c \in requests /\ ~c.looks
  /\ faults < MaxFaults /\ faults' = faults + 1
  /\ UNCHANGED sets \/ (Acceptable(c) /\ Accept(c.rev, "here"))
  /\ Ended(c, [flow EXCEPT !.gen = Display("REQUEST_FAILED")])
  /\ UNCHANGED asking

(***************************************************************************)
(* Notifications.                                                          *)
(***************************************************************************)
SceneUp == flow # Nil /\ flow.scene = "GENERATION"

(* Slip: the notifications are not asked for again. *)
ClearPending_Slip(id) ==
  /\ id \in pending /\ setSeen[id] \in {"READY", "FAILED"}
  /\ pending' = pending \ {id}
  /\ UNCHANGED <<serverVars, consented, record, delivered, shown, noteSeen, noteStale, route,
                 queryVars, flow, requests, visits, faults>>

(* A set seen settled is no longer waited for; its notification is. *)
ClearPending(id) ==
  /\ id \in pending /\ setSeen[id] \in {"READY", "FAILED"}
  /\ pending' = pending \ {id} /\ noteStale' = TRUE
  /\ UNCHANGED <<serverVars, consented, record, delivered, shown, noteSeen, route,
                 queryVars, flow, requests, visits, faults>>

NotesFetched ==
  /\ noteStale
  /\ noteSeen' = Unread /\ noteStale' = FALSE
  /\ UNCHANGED <<serverVars, storageVars, shown, route, queryVars, flow, requests, visits, faults>>

(* Slip: tells of what was claimed before too. *)
Claim_Slip(seen) ==
  /\ ~(seen \subseteq delivered)
  /\ delivered' = delivered \cup seen
  /\ shown' = [id \in SetIds |-> shown[id] + (IF id \in seen THEN 1 ELSE 0)]
  /\ UNCHANGED <<serverVars, consented, record, pending, noteSeen, noteStale, route, queryVars,
                 flow, requests, visits, faults>>

(* An effect claims what its tab's query holds, under a lock over the      *)
(* tabs; one snackbar tells of all that were new.                          *)
Claim(seen) ==
  /\ ~(seen \subseteq delivered)
  /\ delivered' = delivered \cup seen
  /\ shown' = [id \in SetIds |-> shown[id] + (IF id \in seen \ delivered THEN 1 ELSE 0)]
  /\ UNCHANGED <<serverVars, consented, record, pending, noteSeen, noteStale, route, queryVars,
                 flow, requests, visits, faults>>

(* A generation scene holds the snackbar back. *)
ClaimSnackbar == ~SceneUp /\ Claim(noteSeen)

(* Another tab claims what it has just fetched. *)
OtherTabClaims == Claim(Unread)

(***************************************************************************)
(* The specification.                                                      *)
(***************************************************************************)
EntryInit ==
  /\ content = 1 /\ sets = [id \in SetIds |-> Nil]
  /\ consented = {} /\ record = Nil /\ pending = {} /\ delivered = {}
  /\ shown = [id \in SetIds |-> 0] /\ noteSeen = {} /\ noteStale = FALSE
  /\ route = "elsewhere" /\ asking = {} /\ failed = {}
  /\ activeSeen = Unheard /\ held = Unheard /\ setSeen = [id \in SetIds |-> Unheard]
  /\ flow = Nil /\ requests = {} /\ visits = 0 /\ faults = 0

Server ==
  \/ OtherGenerates
  \/ \E id \in SetIds : Settle(id)
  \/ EditedThere

Person ==
  \/ EditedHere \/ VisitMaterial \/ Leave \/ Reload
  \/ TryAgain \/ StartGeneration \/ ConfirmGeneration \/ CancelDisclosure
  \/ ReturnToConditions \/ RetryGeneration

Queries ==
  \/ ActiveFetched \/ MaterialFetched \/ \E id \in SetIds : SetFetched(id)
  \/ \E q \in {"active", "material", "set"} : FetchFails(q)

Creation(c) ==
  Looked(c) \/ LookFails(c) \/ CreateAccepted(c) \/ CreateConflicts(c) \/ CreateOutdated(c) \/ CreateFails(c)

Notifications ==
  \/ \E id \in SetIds : ClearPending(id)
  \/ NotesFetched \/ ClaimSnackbar \/ OtherTabClaims

EntryNext == Server \/ Person \/ Queries \/ (\E c \in requests : Creation(c)) \/ Notifications

(* The server settles what it makes, queries under way are answered and    *)
(* those of a set being made repeated: each a matter of finitely many      *)
(* steps.  An effect runs whenever its dependencies let it, so a claim is  *)
(* made if it is possible again and again.                                 *)
Progress ==
  \/ \E id \in SetIds : Settle(id) \/ SetFetched(id) \/ ClearPending(id)
  \/ ActiveFetched \/ MaterialFetched \/ NotesFetched

EntryFairness == WF_entryVars(Progress) /\ SF_entryVars(ClaimSnackbar)

EntrySpec == EntryInit /\ [][EntryNext]_entryVars /\ EntryFairness

(***************************************************************************)
(* Properties.                                                             *)
(***************************************************************************)
EntryTypeOK ==
  /\ content \in Revisions /\ consented \subseteq Revisions /\ record \in Revisions \cup {Nil}
  /\ sets \in [SetIds -> {Nil} \cup SetRow]
  /\ pending \subseteq SetIds /\ delivered \subseteq SetIds
  /\ noteSeen \subseteq SetIds
  /\ route \in SetIds \cup {"elsewhere", "material"}
  /\ asking \cup failed \subseteq {"active", "material", "set"}
  /\ activeSeen \in SetIds \cup {Nil, Unheard} /\ held \in Revisions \cup {Unheard}
  /\ setSeen \in [SetIds -> Statuses \cup {Unheard}]
  /\ flow \in FlowState \cup {Nil} /\ (flow = Nil <=> Mounted = Nil)
  /\ requests \subseteq CreateRequest
  /\ \A c \in requests : c.live => flow # Nil

(* No text is sent away that the person has not agreed to send: whatever   *)
(* is edited meanwhile, here or elsewhere, a set asked for on this browser *)
(* is made of a revision that was confirmed in the dialog.                 *)
ConsentedContent == \A id \in SetIds : Made(id) /\ sets[id].by = "here" => sets[id].rev \in consented

(* While the browser believes that a set is being made and it is, the set  *)
(* is on the list of those it waits for: leaving, reloading and the end of *)
(* another one never take it off.                                          *)
KnownIsPending ==
  \A id \in SetIds : Generating(id) /\ (activeSeen = id \/ setSeen[id] = "GENERATING" \/ route = id)
                       => id \in pending

(* Over all tabs a settled set is told of by at most one snackbar. *)
NotNotifiedTwice == \A id \in SetIds : shown[id] <= 1

(* The three together: the entry's bookkeeping is sound. *)
EntryIsSound == EntryTypeOK /\ KnownIsPending /\ NotNotifiedTwice

(* On the route of a set that has settled the page comes to show it,       *)
(* unless the person leaves or the route shows an error to try again.      *)
GenerationShown ==
  \A id \in SetIds :
    (route = id /\ Settled(id))
      ~> (route # id \/ failed # {}
            \/ (flow # Nil /\ Mounted.status = sets[id].status /\ ~(SceneUp /\ flow.gen = "GENERATING")))

(* What this browser waits for settles and is told, unless a generation    *)
(* scene stays up and takes the snackbar's place.                          *)
OutcomeIsTold ==
  \/ <>[]SceneUp
  \/ \A id \in SetIds :
       (id \in pending) ~> (Settled(id) /\ id \in delivered)

(* Both: nobody waits in vain for a generation. *)
OutcomesArrive == GenerationShown /\ OutcomeIsTold

=============================================================================
