--------------------------- MODULE QuizEntry_proofs ---------------------------
(***************************************************************************)
(* Proofs that every behaviour of QuizEntry keeps its books (EntryIsSound) *)
(* and sends away only what was agreed to (ConsentedContent), for any      *)
(* number of sets, revisions, visits and faults.                           *)
(***************************************************************************)
EXTENDS QuizEntry, FiniteSetTheorems, TLAPS

USE ValuesAssumption

(* The type invariant, in the part of the server, storage and caches and   *)
(* the part of the page.                                                   *)
WorldTypes ==
  /\ content \in Revisions /\ consented \subseteq Revisions /\ record \in Revisions \cup {Nil}
  /\ sets \in [SetIds -> {Nil} \cup SetRow]
  /\ pending \subseteq SetIds /\ delivered \subseteq SetIds
  /\ noteSeen \subseteq SetIds
  /\ route \in SetIds \cup {"elsewhere", "material"}
  /\ asking \cup failed \subseteq {"active", "material", "set"}
  /\ activeSeen \in SetIds \cup {Nil, Unheard} /\ held \in Revisions \cup {Unheard}
  /\ setSeen \in [SetIds -> Statuses \cup {Unheard}]
PageTypes ==
  /\ flow \in FlowState \cup {Nil} /\ (flow = Nil <=> Mounted = Nil)
  /\ requests \subseteq CreateRequest

(* What the browser has heard of has been made, and what it has heard has  *)
(* settled stays settled.                                                  *)
HeardIsMade ==
  /\ route \in SetIds => Made(route)
  /\ activeSeen \in SetIds => Made(activeSeen)
  /\ \A id \in SetIds : setSeen[id] # Unheard => Made(id)
  /\ \A id \in SetIds : setSeen[id] \in {"READY", "FAILED"} => Settled(id)

(* A snackbar tells of what was delivered. *)
ToldIsDelivered ==
  /\ shown \in [SetIds -> Nat]
  /\ \A id \in SetIds : shown[id] <= 1 /\ (id \notin delivered => shown[id] = 0)

(* The agreement on record was given. *)
RecordIsAgreed == record # Nil => record \in consented

(* What requests carry was agreed to; those of the page in front carry     *)
(* what it is mounted from.                                                *)
CanAsk == flow # Nil /\ Mounted.status \in {"NONE", "FAILED"}
RequestsAgreed ==
  \A c \in requests : c.rev \in consented /\ (c.live => CanAsk /\ c.rev = held)

(* A page that shows a set being made or ready asks for nothing; any other *)
(* is confirmed, or sends again, only what was agreed to.                  *)
PageAgreed ==
  flow # Nil =>
    \/ /\ Mounted.status \in {"GENERATING", "READY"}
       /\ flow.gen = Mounted.status /\ flow.scene = InitialScene(Mounted.status)
    \/ /\ CanAsk
       /\ flow.confirmed \/ flow.gen = "REQUEST_FAILED" => held \in consented

(* The inductive invariant, in the parts that steps disturb separately. *)
WorldInv == WorldTypes /\ HeardIsMade /\ KnownIsPending /\ ToldIsDelivered
PageInv == PageTypes /\ RequestsAgreed /\ PageAgreed
AgreedInv == RecordIsAgreed /\ ConsentedContent
IInv == WorldInv /\ PageInv /\ AgreedInv

-------------------------------------------------------------------------------
(* What a page is mounted from.                                              *)

(* The four kinds of data a page is mounted from, and none. *)
LEMMA MountedKinds ==
  ASSUME NEW r \in SetIds \cup {"elsewhere", "material"}, NEW active,
         NEW rev \in Revisions \cup {Unheard},
         NEW seen \in [SetIds -> Statuses \cup {Unheard}], NEW errors,
         NEW m, m = MountedFrom(r, active, rev, seen, errors)
  PROVE  \/ m = Nil
         \/ m = Source(r, "NONE", rev) /\ r = "material" /\ rev \in Revisions
         \/ m = Source(r, "FAILED", rev) /\ r \in SetIds /\ seen[r] = "FAILED" /\ rev \in Revisions
         \/ m = Source(r, seen[r], Unheard) /\ r \in SetIds /\ seen[r] \in {"GENERATING", "READY"}
<1>1. CASE r = "elsewhere"
  BY <1>1 DEF MountedFrom
<1>2. CASE r = "material"
  BY <1>2 DEF MountedFrom
<1>3. CASE r \in SetIds
  BY <1>3 DEF MountedFrom, Statuses
<1> QED
  BY <1>1, <1>2, <1>3

(* What the page is mounted from has its type, and asks for a quiz of the  *)
(* revision that the cache holds.                                          *)
MountedSound ==
  /\ Mounted \in Origin \cup {Nil}
  /\ Mounted # Nil =>
       /\ Mounted.at = route
       /\ \/ Mounted.status \in {"NONE", "FAILED"} /\ Mounted.rev = held /\ held \in Revisions
          \/ Mounted.status \in {"GENERATING", "READY"} /\ Mounted.rev = Unheard

LEMMA MountedNow == WorldTypes => MountedSound
<1> SUFFICES ASSUME WorldTypes PROVE MountedSound
  OBVIOUS
<1>1. \/ Mounted = Nil
      \/ Mounted = Source(route, "NONE", held) /\ route = "material" /\ held \in Revisions
      \/ Mounted = Source(route, "FAILED", held) /\ route \in SetIds /\ setSeen[route] = "FAILED" /\ held \in Revisions
      \/ Mounted = Source(route, setSeen[route], Unheard) /\ route \in SetIds /\ setSeen[route] \in {"GENERATING", "READY"}
  BY MountedKinds DEF WorldTypes, Mounted
<1> QED
  BY <1>1 DEF Source, Origin, Statuses, MountedSound

LEMMA MountedNext == WorldTypes' => MountedSound'
<1> SUFFICES ASSUME WorldTypes' PROVE MountedSound'
  OBVIOUS
<1>1. \/ Mounted' = Nil
      \/ Mounted' = Source(route', "NONE", held') /\ route' = "material" /\ held' \in Revisions
      \/ Mounted' = Source(route', "FAILED", held') /\ route' \in SetIds /\ setSeen'[route'] = "FAILED" /\ held' \in Revisions
      \/ Mounted' = Source(route', setSeen'[route'], Unheard) /\ route' \in SetIds /\ setSeen'[route'] \in {"GENERATING", "READY"}
  BY MountedKinds DEF WorldTypes, Mounted
<1> QED
  BY <1>1 DEF Source, Origin, Statuses, MountedSound

(* The same page is mounted as long as nothing changes that it is mounted  *)
(* from.                                                                   *)
LEMMA MountedSame ==
  ASSUME UNCHANGED <<route, activeSeen, held, setSeen, failed>>
  PROVE  Mounted' = Mounted
  BY DEF Mounted

(* A display of an error or a failure is never of a request that failed on *)
(* the route of a set.                                                     *)
LEMMA DisplayType ==
  ASSUME WorldTypes, PageTypes, NEW g \in Statuses \cup {"REQUEST_FAILED"}, CanAsk
  PROVE  /\ Display(g) \in Statuses \cup {"REQUEST_FAILED"}
         /\ Display(g) = "REQUEST_FAILED" => g = "REQUEST_FAILED"
<1>1. \/ Mounted = Nil
      \/ Mounted = Source(route, "NONE", held) /\ route = "material" /\ held \in Revisions
      \/ Mounted = Source(route, "FAILED", held) /\ route \in SetIds /\ setSeen[route] = "FAILED" /\ held \in Revisions
      \/ Mounted = Source(route, setSeen[route], Unheard) /\ route \in SetIds /\ setSeen[route] \in {"GENERATING", "READY"}
  BY MountedKinds DEF WorldTypes, Mounted
<1> QED
  BY <1>1 DEF Display, Source, Statuses, CanAsk, PageTypes

-------------------------------------------------------------------------------
(* What React's step does to the page.                                       *)

(* Requests of the page in front, as RequestsAgreed has them. *)
Agreed(reqs) ==
  /\ reqs \subseteq CreateRequest
  /\ \A c \in reqs : c.rev \in consented /\ (c.live => CanAsk /\ c.rev = held)

(* Whatever changes what the page is mounted from, the page that is then   *)
(* there, kept or new, asks only for what was agreed to.                   *)
LEMMA RenderKeeps ==
  ASSUME WorldTypes, WorldTypes', PageInv, RecordIsAgreed,
         UNCHANGED <<consented, record>>,
         NEW VARIABLE reqs, Agreed(reqs), Render(reqs)
  PROVE  PageInv'
<1>1. CASE Mounted' = Mounted
  <2>1. requests' = reqs /\ flow' = flow
    BY <1>1 DEF Render, Mounted
  <2>2. CanAsk => CanAsk' /\ held' = held
    BY <1>1, <2>1, MountedNow, MountedNext DEF CanAsk, PageInv, PageTypes, MountedSound
  <2> QED
    BY <1>1, <2>1, <2>2 DEF PageInv, PageTypes, RequestsAgreed, PageAgreed, Agreed
<1>2. CASE Mounted' # Mounted
  <2>1. requests' = Left(reqs) /\ flow' = IF Mounted' = Nil THEN Nil ELSE FlowPage(Mounted', record)
    BY <1>2 DEF Render, Mounted
  <2>2. /\ Left(reqs) \subseteq CreateRequest
        /\ \A c \in Left(reqs) : c.rev \in consented /\ ~c.live
    BY DEF Left, Agreed, CreateRequest
  <2>3. RequestsAgreed'
    BY <2>1, <2>2 DEF RequestsAgreed
  <2>4. CASE Mounted' = Nil
    BY <2>1, <2>2, <2>3, <2>4 DEF PageInv, PageTypes, PageAgreed
  <2>5. CASE Mounted' # Nil
    <3>1. flow' = FlowPage(Mounted', record) /\ Mounted' \in Origin
      BY <2>1, <2>5, MountedNext DEF MountedSound
    <3>2. flow' \in FlowState
      BY <3>1 DEF FlowPage, FlowState, Origin, InitialScene, GenerationState, Statuses
    <3>3. PageAgreed'
      <4>1. CASE Mounted'.status \in {"NONE", "FAILED"}
        <5>1. CanAsk' /\ Mounted'.rev = held' /\ held' \in Revisions
          BY <3>2, <4>1, <2>5, MountedNext DEF MountedSound, CanAsk
        <5>2. flow'.gen # "REQUEST_FAILED"
          BY <3>1, <4>1 DEF FlowPage, GenerationState
        <5>3. ASSUME flow'.confirmed PROVE held' \in consented'
          <6>1. flow'.confirmed = (Mounted'.rev = record)
            BY <3>1 DEF FlowPage
          <6>2. held' = record
            BY <5>1, <5>3, <6>1
          <6> QED
            BY <5>1, <6>2 DEF RecordIsAgreed
        <5> QED
          BY <5>1, <5>2, <5>3 DEF PageAgreed
      <4>2. CASE Mounted'.status \in {"GENERATING", "READY"}
        BY <3>1, <3>2, <4>2, <2>5 DEF PageAgreed, FlowPage, GenerationState
      <4> QED
        BY <4>1, <4>2, <2>5, MountedNext DEF MountedSound
    <3> QED
      BY <2>1, <2>2, <2>3, <3>1, <3>2, <3>3, <2>5 DEF PageInv, PageTypes
  <2> QED
    BY <2>4, <2>5
<1> QED
  BY <1>1, <1>2

-------------------------------------------------------------------------------
(* What does not move.                                                       *)

caches == <<activeSeen, held, setSeen>>

LEMMA WorldSame ==
  ASSUME WorldInv, content' \in Revisions, consented' \subseteq Revisions, record' \in Revisions \cup {Nil},
         noteSeen' \subseteq SetIds,
         UNCHANGED <<sets, pending, delivered, route, asking, failed, caches, shown>>
  PROVE  WorldInv'
  BY DEF WorldInv, WorldTypes, HeardIsMade, KnownIsPending, ToldIsDelivered, Made, Generating, Settled, caches

LEMMA PageSame ==
  ASSUME PageInv, UNCHANGED <<route, failed, caches, flow, requests, consented>>
  PROVE  PageInv'
<1>1. Mounted' = Mounted
  BY MountedSame DEF caches
<1> QED
  BY <1>1 DEF PageInv, PageTypes, RequestsAgreed, PageAgreed, CanAsk, caches

LEMMA AgreedSame ==
  ASSUME AgreedInv, UNCHANGED <<consented, record, sets>>
  PROVE  AgreedInv'
  BY DEF AgreedInv, RecordIsAgreed, ConsentedContent, Made

-------------------------------------------------------------------------------
(* The server.                                                               *)

(* A set is made under an unused name. *)
LEMMA Accepted ==
  ASSUME WorldTypes, Unmade # {}, NEW rev \in Revisions, NEW by \in {"here", "there"}, Accept(rev, by)
  PROVE  /\ NextId \in SetIds /\ ~Made(NextId) /\ sets'[NextId] # Nil
         /\ sets' \in [SetIds -> {Nil} \cup SetRow]
         /\ sets'[NextId].rev = rev /\ sets'[NextId].by = by
         /\ \A id \in SetIds : id # NextId => sets'[id] = sets[id]
<1> DEFINE row == [status |-> "GENERATING", rev |-> rev, by |-> by]
<1>1. NextId \in Unmade
  BY DEF NextId
<1>2. NextId \in SetIds /\ ~Made(NextId)
  BY <1>1 DEF Unmade
<1>3. row \in SetRow
  BY DEF SetRow, Statuses
<1>4. sets' = [sets EXCEPT ![NextId] = row]
  BY DEF Accept
<1>5. sets'[NextId] = row
  BY <1>2, <1>4 DEF WorldTypes
<1>6. \A id \in SetIds : id # NextId => sets'[id] = sets[id]
  BY <1>4 DEF WorldTypes
<1>7. sets' \in [SetIds -> {Nil} \cup SetRow]
  BY <1>2, <1>3, <1>4 DEF WorldTypes
<1>8. sets'[NextId] # Nil
  BY <1>3, <1>5
<1> QED
  BY <1>2, <1>5, <1>6, <1>7, <1>8

(* A new set disturbs nothing the browser knows. *)
LEMMA WorldAccepts ==
  ASSUME WorldInv, Unmade # {}, NEW rev \in Revisions, NEW by \in {"here", "there"}, Accept(rev, by),
         UNCHANGED <<content, consented, record, pending, delivered, noteSeen, route, asking, failed, caches, shown>>
  PROVE  WorldInv'
<1> USE DEF WorldInv, caches
<1>1. WorldTypes'
  BY Accepted DEF WorldTypes
<1>2. \A id \in SetIds : Made(id) => id # NextId /\ sets'[id] = sets[id]
  BY Accepted
<1>3. HeardIsMade'
  BY <1>2 DEF HeardIsMade, Made, Settled, WorldTypes
<1>4. KnownIsPending'
  <2> SUFFICES ASSUME NEW id \in SetIds, Generating(id)',
                      activeSeen = id \/ setSeen[id] = "GENERATING" \/ route = id
               PROVE  id \in pending
    BY DEF KnownIsPending
  <2>1. Made(id)
    BY DEF HeardIsMade, WorldTypes, Statuses
  <2> QED
    BY <1>2, <2>1 DEF KnownIsPending, Generating, Made
<1>5. ToldIsDelivered'
  BY DEF ToldIsDelivered
<1> QED
  BY <1>1, <1>3, <1>4, <1>5

(* What is made of an agreed revision keeps to the agreements. *)
LEMMA AgreedAccepts ==
  ASSUME WorldTypes, AgreedInv, Unmade # {}, NEW rev \in Revisions, NEW by \in {"here", "there"},
         by = "here" => rev \in consented, Accept(rev, by), UNCHANGED <<consented, record>>
  PROVE  AgreedInv'
  BY Accepted DEF AgreedInv, RecordIsAgreed, ConsentedContent, Made

LEMMA OtherGeneratesStep == IInv /\ OtherGenerates => IInv'
<1> SUFFICES ASSUME IInv, OtherGenerates PROVE IInv'
  OBVIOUS
<1> USE DEF IInv, OtherGenerates, storageVars, noteVars, queryVars
<1>0. 1 \in Revisions
  BY EntryAssumption, FS_CardinalityType DEF WorldInv, WorldTypes
<1>1. WorldInv'
  BY <1>0, WorldAccepts DEF caches
<1>2. PageInv'
  BY PageSame DEF caches
<1>3. AgreedInv'
  BY <1>0, AgreedAccepts DEF WorldInv
<1> QED
  BY <1>1, <1>2, <1>3

LEMMA SettleStep == ASSUME NEW id \in SetIds PROVE IInv /\ Settle(id) => IInv'
<1> SUFFICES ASSUME IInv, Settle(id) PROVE IInv'
  OBVIOUS
<1> USE DEF IInv, storageVars, noteVars, queryVars
<1>1. PICK s \in {"READY", "FAILED"} : sets' = [sets EXCEPT ![id].status = s]
  BY DEF Settle
<1>2. UNCHANGED <<content, storageVars, noteVars, route, queryVars, flow, requests>> /\ Generating(id)
  BY DEF Settle
<1>3. /\ sets' \in [SetIds -> {Nil} \cup SetRow]
      /\ \A i \in SetIds : i # id => sets'[i] = sets[i]
      /\ sets'[id] \in SetRow /\ sets'[id].status = s
      /\ sets'[id].rev = sets[id].rev /\ sets'[id].by = sets[id].by
  BY <1>1, <1>2 DEF WorldInv, WorldTypes, SetRow, Statuses, Generating, Made
<1>4. /\ Made(id) /\ Made(id)' /\ Settled(id)' /\ ~Generating(id)'
  BY <1>2, <1>3 DEF Made, Settled, Generating
<1>5. WorldInv'
  <2> USE DEF WorldInv
  <2>1. WorldTypes'
    BY <1>2, <1>3 DEF WorldTypes
  <2>2. HeardIsMade'
    BY <1>2, <1>3, <1>4 DEF HeardIsMade, Made, Settled
  <2>3. KnownIsPending'
    BY <1>2, <1>3, <1>4 DEF KnownIsPending, Made, Generating
  <2>4. ToldIsDelivered'
    BY <1>2 DEF ToldIsDelivered
  <2> QED
    BY <2>1, <2>2, <2>3, <2>4
<1>6. PageInv'
  BY <1>2, PageSame DEF caches
<1>7. AgreedInv'
  BY <1>2, <1>3, <1>4 DEF AgreedInv, RecordIsAgreed, ConsentedContent, Made
<1> QED
  BY <1>5, <1>6, <1>7

LEMMA NextRevision == ASSUME WorldTypes, Editable PROVE content + 1 \in Revisions
  BY DEF Editable

LEMMA EditedThereStep == IInv /\ EditedThere => IInv'
<1> SUFFICES ASSUME IInv, EditedThere PROVE IInv'
  OBVIOUS
<1> USE DEF IInv, EditedThere, storageVars, noteVars, queryVars, caches
<1>1. WorldInv'
  BY WorldSame, NextRevision DEF WorldInv, WorldTypes
<1>2. PageInv'
  BY PageSame
<1>3. AgreedInv'
  BY AgreedSame
<1> QED
  BY <1>1, <1>2, <1>3

-------------------------------------------------------------------------------
(* Routes and queries.                                                       *)

(* The browser's caches and routes move, to what the server has.           *)
Moves ==
  /\ UNCHANGED <<content, sets, consented, record, delivered, shown>>
  /\ pending \subseteq pending' /\ WorldTypes'
  /\ route' \in SetIds => Made(route') /\ (route' = route \/ route' \in pending')
  /\ activeSeen' \in SetIds => activeSeen' = activeSeen \/ (Made(activeSeen') /\ activeSeen' \in pending')
  /\ \A id \in SetIds :
       \/ setSeen'[id] \in {Unheard, setSeen[id]}
       \/ Made(id) /\ setSeen'[id] = sets[id].status /\ (setSeen'[id] = "GENERATING" => id \in pending')

LEMMA WorldMoves ==
  ASSUME WorldInv, Moves
  PROVE  WorldInv'
<1> USE DEF WorldInv
<1>1. HeardIsMade'
  BY DEF Moves, HeardIsMade, Made, Settled, WorldTypes, SetRow, Statuses
<1>2. KnownIsPending'
  BY DEF Moves, HeardIsMade, KnownIsPending, Made, Generating, WorldTypes, SetRow, Statuses
<1>3. ToldIsDelivered'
  BY DEF Moves, ToldIsDelivered
<1> QED
  BY <1>1, <1>2, <1>3 DEF Moves

(* A step of the browser that ends in React's. *)
LEMMA Renders ==
  ASSUME IInv, Moves, NEW VARIABLE reqs, Agreed(reqs), Render(reqs)
  PROVE  IInv'
<1>1. WorldInv'
  BY WorldMoves DEF IInv
<1>2. PageInv'
  BY RenderKeeps DEF IInv, WorldInv, AgreedInv, Moves
<1>3. AgreedInv'
  BY AgreedSame DEF IInv, Moves
<1> QED
  BY <1>1, <1>2, <1>3 DEF IInv

(* The page's requests, and any of them, are agreed. *)
LEMMA RequestsAreAgreed ==
  ASSUME PageInv, NEW reqs \in SUBSET requests
  PROVE  Agreed(reqs)
  BY DEF PageInv, PageTypes, RequestsAgreed, Agreed

LEMMA GoesToSet ==
  ASSUME WorldInv, NEW id \in SetIds, GoToSet(id)
  PROVE  /\ route' = id /\ id \in pending' /\ pending \subseteq pending' /\ pending' \subseteq SetIds
         /\ asking' \cup failed' \subseteq {"active", "material", "set"}
  BY DEF WorldInv, WorldTypes, GoToSet, SavePending

LEMMA VisitMaterialStep == IInv /\ VisitMaterial => IInv'
<1> SUFFICES ASSUME IInv, VisitMaterial PROVE IInv'
  OBVIOUS
<1> USE DEF IInv, serverVars, noteVars
<1>1. UNCHANGED <<serverVars, consented, record, delivered, noteVars, caches>> /\ Render(requests)
  BY DEF VisitMaterial, caches
<1>2. Moves
  <2>1. CASE activeSeen \in SetIds
    <3>1. GoToSet(activeSeen)
      BY <2>1 DEF VisitMaterial
    <3> QED
      BY <1>1, <2>1, <3>1, GoesToSet DEF Moves, WorldInv, WorldTypes, HeardIsMade, caches
  <2>2. CASE activeSeen \notin SetIds
    <3>1. route' = "material" /\ failed' = {} /\ pending' = pending /\ asking' \subseteq {"active", "material"}
      BY <2>2 DEF VisitMaterial
    <3> QED
      BY <1>1, <2>2, <3>1 DEF Moves, WorldInv, WorldTypes, caches
  <2> QED
    BY <2>1, <2>2
<1> QED
  BY <1>1, <1>2, Renders, RequestsAreAgreed

LEMMA LeaveStep == IInv /\ Leave => IInv'
<1> SUFFICES ASSUME IInv, Leave PROVE IInv'
  OBVIOUS
<1>1. Moves
  BY DEF IInv, Leave, Moves, WorldInv, WorldTypes, serverVars, storageVars, noteVars
<1> QED
  BY <1>1, Renders, RequestsAreAgreed DEF IInv, Leave

LEMMA ReloadStep == IInv /\ Reload => IInv'
<1> SUFFICES ASSUME IInv, Reload PROVE IInv'
  OBVIOUS
<1> USE DEF IInv, Reload, serverVars, storageVars
<1>1. Moves
  <2>1. asking' \cup failed' \subseteq {"active", "material", "set"}
    BY Zenon
  <2>2. setSeen' \in [SetIds -> Statuses \cup {Unheard}] /\ \A id \in SetIds : setSeen'[id] = Unheard
    OBVIOUS
  <2>3. noteSeen' \subseteq SetIds
    OBVIOUS
  <2> QED
    BY <2>1, <2>2, <2>3 DEF Moves, WorldInv, WorldTypes, HeardIsMade
<1>2. Mounted' = Nil
  BY DEF WorldInv, WorldTypes, Mounted, MountedFrom, Statuses
<1>3. PageInv'
  BY <1>2 DEF PageInv, PageTypes, RequestsAgreed, PageAgreed
<1> QED
  BY <1>1, <1>3, WorldMoves, AgreedSame

LEMMA EditedHereStep == IInv /\ EditedHere => IInv'
<1> SUFFICES ASSUME IInv, EditedHere PROVE IInv'
  OBVIOUS
<1> USE DEF IInv, EditedHere, storageVars, noteVars
<1>1. held' \in Revisions /\ content' \in Revisions
  BY NextRevision DEF WorldInv
<1>2. WorldInv'
  BY <1>1 DEF WorldInv, WorldTypes, HeardIsMade, KnownIsPending, ToldIsDelivered, Made, Generating, Settled
<1>3. Mounted = Nil /\ Mounted' = Nil
  BY DEF Mounted, MountedFrom
<1>4. flow = Nil
  BY <1>3 DEF PageInv, PageTypes
<1>5. PageInv'
  BY <1>3, <1>4 DEF PageInv, PageTypes, RequestsAgreed, PageAgreed, CanAsk
<1> QED
  BY <1>2, <1>5, AgreedSame

LEMMA ActiveIsMade == ASSUME WorldTypes PROVE ActiveSet = Nil \/ (ActiveSet \in SetIds /\ Made(ActiveSet))
  BY DEF ActiveSet, Generating

LEMMA FollowsActive ==
  ASSUME WorldInv, FollowActive(ActiveSet),
         UNCHANGED <<content, sets, consented, record, delivered, noteSeen, shown>>
  PROVE  Moves
<1> USE DEF WorldInv
<1>1. CASE ActiveSet = Nil
  BY <1>1 DEF FollowActive, Answered, Moves, WorldTypes, HeardIsMade
<1>2. CASE ActiveSet # Nil
  <2>1. ActiveSet \in SetIds /\ Made(ActiveSet) /\ GoToSet(ActiveSet)
    BY <1>2, ActiveIsMade DEF FollowActive
  <2> QED
    BY <2>1, GoesToSet DEF FollowActive, Moves, WorldTypes
<1> QED
  BY <1>1, <1>2

LEMMA ActiveFetchedStep == IInv /\ ActiveFetched => IInv'
<1> SUFFICES ASSUME IInv, ActiveFetched PROVE IInv'
  OBVIOUS
<1>1. Moves
  BY FollowsActive DEF IInv, ActiveFetched, serverVars, noteVars
<1> QED
  BY <1>1, Renders, RequestsAreAgreed DEF IInv, ActiveFetched

LEMMA MaterialFetchedStep == IInv /\ MaterialFetched => IInv'
<1> SUFFICES ASSUME IInv, MaterialFetched PROVE IInv'
  OBVIOUS
<1>1. Moves
  BY DEF IInv, MaterialFetched, Answered, Moves, WorldInv, WorldTypes, HeardIsMade, serverVars, storageVars, noteVars
<1> QED
  BY <1>1, Renders, RequestsAreAgreed DEF IInv, MaterialFetched

LEMMA SetFetchedStep == ASSUME NEW id \in SetIds PROVE IInv /\ SetFetched(id) => IInv'
<1> SUFFICES ASSUME IInv, SetFetched(id) PROVE IInv'
  OBVIOUS
<1> USE DEF IInv, WorldInv, serverVars, noteVars
<1>1. /\ UNCHANGED <<content, sets, consented, record, delivered, noteSeen, shown, activeSeen, held, route>>
      /\ setSeen' = [setSeen EXCEPT ![id] = sets[id].status]
  BY DEF SetFetched
<1>2. Made(id) /\ sets[id] \in SetRow
  BY DEF SetFetched, Polled, HeardIsMade, WorldTypes, Made
<1>3. /\ pending \subseteq pending' /\ pending' \subseteq SetIds
      /\ sets[id].status = "GENERATING" => id \in pending'
      /\ asking' \cup failed' \subseteq {"active", "material", "set"}
  <2>1. CASE route = id
    BY <2>1 DEF SetFetched, WorldTypes
  <2>2. CASE route # id
    BY <2>2 DEF SetFetched, WorldTypes
  <2> QED
    BY <2>1, <2>2
<1>4. setSeen' \in [SetIds -> Statuses \cup {Unheard}]
  BY <1>1, <1>2 DEF WorldTypes, SetRow
<1>5. Moves
  BY <1>1, <1>2, <1>3, <1>4 DEF Moves, WorldTypes, HeardIsMade
<1> QED
  BY <1>5, Renders, RequestsAreAgreed DEF SetFetched

LEMMA FetchFailsStep ==
  ASSUME NEW q \in {"active", "material", "set"} PROVE IInv /\ FetchFails(q) => IInv'
<1> SUFFICES ASSUME IInv, FetchFails(q) PROVE IInv'
  OBVIOUS
<1>1. Moves
  BY DEF IInv, FetchFails, Moves, WorldInv, WorldTypes, HeardIsMade, serverVars, storageVars, noteVars
<1> QED
  BY <1>1, Renders, RequestsAreAgreed DEF IInv, FetchFails

LEMMA TryAgainStep == IInv /\ TryAgain => IInv'
<1> SUFFICES ASSUME IInv, TryAgain PROVE IInv'
  OBVIOUS
<1> USE DEF IInv, TryAgain, serverVars, storageVars, noteVars
<1>1. WorldInv'
  BY DEF WorldInv, WorldTypes, HeardIsMade, KnownIsPending, ToldIsDelivered, Made, Generating, Settled
<1> QED
  BY <1>1, PageSame, AgreedSame DEF caches

-------------------------------------------------------------------------------
(* Requests that end in another route or page.                               *)

LEMMA LookedStep == ASSUME NEW c \in requests PROVE IInv /\ Looked(c) => IInv'
<1> SUFFICES ASSUME IInv, Looked(c) PROVE IInv'
  OBVIOUS
<1> DEFINE reqs == (requests \ {c}) \cup (IF ActiveSet = Nil THEN {[c EXCEPT !.looks = FALSE]} ELSE {})
<1>1. Moves /\ Render(reqs)
  BY FollowsActive DEF IInv, Looked, serverVars, noteVars
<1>2. Agreed(reqs)
  BY DEF IInv, PageInv, PageTypes, RequestsAgreed, Agreed, CreateRequest
<1> HIDE DEF reqs
<1> QED
  BY <1>1, <1>2, Renders

LEMMA LookFailsStep == ASSUME NEW c \in requests PROVE IInv /\ LookFails(c) => IInv'
<1> SUFFICES ASSUME IInv, LookFails(c) PROVE IInv'
  OBVIOUS
<1>1. Moves
  BY DEF IInv, LookFails, Moves, WorldInv, WorldTypes, HeardIsMade, serverVars, storageVars, noteVars
<1> QED
  BY <1>1, Renders, RequestsAreAgreed DEF IInv, LookFails

LEMMA CreateAcceptedStep == ASSUME NEW c \in requests PROVE IInv /\ CreateAccepted(c) => IInv'
<1> SUFFICES ASSUME IInv, CreateAccepted(c) PROVE IInv'
  OBVIOUS
<1> USE DEF IInv
<1>1. /\ c.rev \in Revisions /\ c.rev \in consented /\ Unmade # {} /\ Accept(c.rev, "here") /\ GoToSet(NextId)
      /\ UNCHANGED <<content, consented, record, delivered, activeSeen, held, setSeen, noteVars>>
      /\ Render(requests \ {c})
  BY DEF CreateAccepted, Acceptable, PageInv, PageTypes, RequestsAgreed, CreateRequest
<1> USE DEF WorldInv, noteVars
<1>2. /\ NextId \in SetIds /\ ~Made(NextId) /\ sets'[NextId] # Nil
      /\ sets' \in [SetIds -> {Nil} \cup SetRow]
      /\ \A id \in SetIds : id # NextId => sets'[id] = sets[id]
  BY <1>1, Accepted
<1>3. /\ route' = NextId /\ NextId \in pending' /\ pending \subseteq pending' /\ pending' \subseteq SetIds
      /\ asking' \cup failed' \subseteq {"active", "material", "set"}
  BY <1>1, <1>2, GoesToSet
<1>4. WorldTypes'
  BY <1>1, <1>2, <1>3 DEF WorldTypes
<1>5. \A id \in SetIds : Made(id) => id # NextId /\ sets'[id] = sets[id]
  BY <1>2
<1>6. HeardIsMade'
  BY <1>1, <1>2, <1>3, <1>5 DEF HeardIsMade, Made, Settled, WorldTypes
<1>7. KnownIsPending'
  <2> SUFFICES ASSUME NEW id \in SetIds, Generating(id)',
                      activeSeen = id \/ setSeen[id] = "GENERATING" \/ id = NextId
               PROVE  id \in pending'
    BY <1>1, <1>3 DEF KnownIsPending
  <2>1. Made(id) \/ id = NextId
    BY DEF HeardIsMade, WorldTypes, Statuses
  <2> QED
    BY <1>3, <1>5, <2>1 DEF KnownIsPending, Generating, Made
<1>8. ToldIsDelivered'
  BY <1>1 DEF ToldIsDelivered
<1>9. PageInv'
  BY <1>1, <1>4, RenderKeeps, RequestsAreAgreed DEF AgreedInv
<1>10. AgreedInv'
  BY <1>1, AgreedAccepts
<1> QED
  BY <1>4, <1>6, <1>7, <1>8, <1>9, <1>10

-------------------------------------------------------------------------------
(* The page.                                                                 *)

(* The page that can ask, as the person and the answers to its requests    *)
(* change it.                                                              *)
LEMMA PageChanges ==
  ASSUME PageInv, CanAsk, UNCHANGED <<route, failed, caches>>, consented \subseteq consented',
         flow' \in FlowState, flow'.confirmed \/ flow'.gen = "REQUEST_FAILED" => held \in consented',
         requests' \subseteq CreateRequest,
         \A c \in requests' : c.rev \in consented' /\ (c.live => c.rev = held)
  PROVE  PageInv'
<1>1. Mounted' = Mounted /\ held' = held
  BY MountedSame DEF caches
<1>2. Mounted # Nil /\ flow' # Nil
  BY DEF CanAsk, PageInv, PageTypes
<1> QED
  BY <1>1, <1>2 DEF PageInv, PageTypes, RequestsAgreed, PageAgreed, CanAsk

(* Only a page that can ask shows the conditions or an error. *)
LEMMA Asking ==
  ASSUME IInv, flow # Nil, flow.scene = "CONDITIONS" \/ (flow.scene = "GENERATION" /\ flow.gen # "GENERATING")
  PROVE  /\ CanAsk /\ held \in Revisions /\ flow \in FlowState
         /\ flow.confirmed \/ flow.gen = "REQUEST_FAILED" => held \in consented
         /\ requests \subseteq CreateRequest
         /\ \A c \in requests : c.rev \in consented /\ (c.live => c.rev = held)
<1>1. CanAsk
  BY DEF IInv, PageInv, PageTypes, PageAgreed, InitialScene
<1> QED
  BY <1>1, MountedNow DEF IInv, WorldInv, PageInv, PageTypes, PageAgreed, RequestsAgreed, CanAsk, MountedSound

(* A request carries the revision that the page is mounted from. *)
LEMMA Requested ==
  ASSUME requests \subseteq CreateRequest, held \in Revisions, NEW looks \in BOOLEAN, Request(looks)
  PROVE  /\ requests' \subseteq CreateRequest
         /\ \A c \in requests' : c \in requests \/ c.rev = held
<1> DEFINE s == CHOOSE n \in Slots : \A i \in Slots : n <= i
           c == [slot |-> s, rev |-> held, looks |-> looks, again |-> looks, live |-> TRUE]
<1>1. requests' = requests \cup {c}
  BY DEF Request
<1>2. s \in {1, 2}
  <2>1. Slots \subseteq {1, 2} /\ Slots # {}
    BY DEF Slots, Request
  <2>2. \E n \in Slots : \A i \in Slots : n <= i
    <3>1. CASE 1 \in Slots
      BY <2>1, <3>1
    <3>2. CASE 1 \notin Slots
      <4>1. Slots = {2}
        BY <2>1, <3>2
      <4> QED
        BY <4>1
    <3> QED
      BY <3>1, <3>2
  <2> QED
    BY <2>1, <2>2
<1>3. c \in CreateRequest
  BY <1>2 DEF CreateRequest
<1>4. c.rev = held
  OBVIOUS
<1> HIDE DEF c
<1> QED
  BY <1>1, <1>3, <1>4

(* What the page's own actions leave alone. *)
LEMMA OnPageKeeps ==
  ASSUME IInv, OnPage, consented' \subseteq Revisions, record' \in Revisions \cup {Nil}
  PROVE  WorldInv' /\ UNCHANGED <<sets, route, failed, caches>>
  BY WorldSame DEF IInv, OnPage, WorldInv, WorldTypes, serverVars, noteVars, queryVars, caches

LEMMA StartGenerationStep == IInv /\ StartGeneration => IInv'
<1> SUFFICES ASSUME IInv, StartGeneration PROVE IInv'
  OBVIOUS
<1>1. ConditionsScreen /\ OnPage /\ UNCHANGED <<consented, record>>
  BY DEF StartGeneration
<1>2. WorldInv' /\ UNCHANGED <<sets, route, failed, caches>>
  BY <1>1, OnPageKeeps DEF IInv, WorldInv, WorldTypes
<1>3. /\ CanAsk /\ held \in Revisions /\ flow \in FlowState
      /\ flow.confirmed \/ flow.gen = "REQUEST_FAILED" => held \in consented
      /\ requests \subseteq CreateRequest
      /\ \A c \in requests : c.rev \in consented /\ (c.live => c.rev = held)
  BY <1>1, Asking DEF ConditionsScreen
<1>4. PageInv'
  <2>1. CASE flow.confirmed
    <3>1. Request(FALSE) /\ flow' = [flow EXCEPT !.starting = TRUE, !.scene = "GENERATION", !.gen = Display("GENERATING")]
      BY <2>1 DEF StartGeneration, RequestGeneration
    <3>2. Display("GENERATING") \in Statuses \cup {"REQUEST_FAILED"} /\ held \in consented
      BY <1>3, <2>1, DisplayType DEF IInv, WorldInv, PageInv, Statuses
    <3>3. flow' \in FlowState
      BY <1>3, <3>1, <3>2 DEF FlowState
    <3> QED
      BY <1>1, <1>2, <1>3, <3>1, <3>2, <3>3, Requested, PageChanges DEF IInv
  <2>2. CASE ~flow.confirmed
    <3>1. flow' = [flow EXCEPT !.dialog = TRUE] /\ requests' = requests
      BY <2>2 DEF StartGeneration
    <3>2. flow' \in FlowState /\ flow'.confirmed = flow.confirmed /\ flow'.gen = flow.gen
      BY <1>3, <3>1 DEF FlowState
    <3> QED
      BY <1>1, <1>2, <1>3, <3>1, <3>2, PageChanges DEF IInv
  <2> QED
    BY <2>1, <2>2
<1> QED
  BY <1>1, <1>2, <1>4, AgreedSame DEF IInv

LEMMA ConfirmGenerationStep == IInv /\ ConfirmGeneration => IInv'
<1> SUFFICES ASSUME IInv, ConfirmGeneration PROVE IInv'
  OBVIOUS
<1>1. ConditionsScreen /\ OnPage /\ record' = held /\ consented' = consented \cup {held}
  BY DEF ConfirmGeneration, DisclosureDialog
<1>2. /\ CanAsk /\ held \in Revisions /\ flow \in FlowState
      /\ requests \subseteq CreateRequest
      /\ \A c \in requests : c.rev \in consented /\ (c.live => c.rev = held)
  BY <1>1, Asking DEF ConditionsScreen
<1>3. WorldInv' /\ UNCHANGED <<sets, route, failed, caches>>
  BY <1>1, <1>2, OnPageKeeps DEF IInv, WorldInv, WorldTypes
<1>4. Request(FALSE)
  BY DEF ConfirmGeneration, RequestGeneration
<1>5. Display("GENERATING") \in Statuses \cup {"REQUEST_FAILED"}
  BY <1>2, DisplayType DEF IInv, WorldInv, PageInv, Statuses
<1>6. flow' \in FlowState
  BY <1>2, <1>5 DEF ConfirmGeneration, RequestGeneration, FlowState
<1>7. PageInv'
  BY <1>1, <1>2, <1>3, <1>4, <1>6, Requested, PageChanges DEF IInv
<1>8. AgreedInv'
  BY <1>1, <1>3 DEF IInv, AgreedInv, RecordIsAgreed, ConsentedContent, Made
<1> QED
  BY <1>3, <1>7, <1>8 DEF IInv

LEMMA CancelDisclosureStep == IInv /\ CancelDisclosure => IInv'
<1> SUFFICES ASSUME IInv, CancelDisclosure PROVE IInv'
  OBVIOUS
<1>1. /\ ConditionsScreen /\ OnPage /\ UNCHANGED <<consented, record, requests>>
      /\ flow' = [flow EXCEPT !.dialog = FALSE]
  BY DEF CancelDisclosure, DisclosureDialog
<1>2. WorldInv' /\ UNCHANGED <<sets, route, failed, caches>>
  BY <1>1, OnPageKeeps DEF IInv, WorldInv, WorldTypes
<1>3. PageInv'
  BY <1>1, <1>2, Asking, PageChanges DEF IInv, ConditionsScreen, FlowState
<1> QED
  BY <1>1, <1>2, <1>3, AgreedSame DEF IInv

LEMMA ReturnToConditionsStep == IInv /\ ReturnToConditions => IInv'
<1> SUFFICES ASSUME IInv, ReturnToConditions PROVE IInv'
  OBVIOUS
<1>1. /\ GenerationError /\ OnPage /\ UNCHANGED <<consented, record, requests>>
      /\ flow' = [flow EXCEPT !.scene = "CONDITIONS"]
  BY DEF ReturnToConditions
<1>2. WorldInv' /\ UNCHANGED <<sets, route, failed, caches>>
  BY <1>1, OnPageKeeps DEF IInv, WorldInv, WorldTypes
<1>3. PageInv'
  BY <1>1, <1>2, Asking, PageChanges DEF IInv, GenerationError, GenerationScreen, FlowState
<1> QED
  BY <1>1, <1>2, <1>3, AgreedSame DEF IInv

LEMMA RetryGenerationStep == IInv /\ RetryGeneration => IInv'
<1> SUFFICES ASSUME IInv, RetryGeneration PROVE IInv'
  OBVIOUS
<1>1. /\ GenerationError /\ flow.gen = "REQUEST_FAILED" /\ Request(TRUE) /\ OnPage
      /\ UNCHANGED <<consented, record>> /\ flow' = [flow EXCEPT !.gen = "GENERATING"]
  BY DEF RetryGeneration, RecoveryMode
<1>2. WorldInv' /\ UNCHANGED <<sets, route, failed, caches>>
  BY <1>1, OnPageKeeps DEF IInv, WorldInv, WorldTypes
<1>3. /\ CanAsk /\ held \in Revisions /\ flow \in FlowState /\ held \in consented
      /\ requests \subseteq CreateRequest
      /\ \A c \in requests : c.rev \in consented /\ (c.live => c.rev = held)
  BY <1>1, Asking DEF GenerationError, GenerationScreen
<1>4. flow' \in FlowState
  BY <1>1, <1>3 DEF FlowState, Statuses
<1>5. PageInv'
  BY <1>1, <1>2, <1>3, <1>4, Requested, PageChanges DEF IInv
<1> QED
  BY <1>1, <1>2, <1>5, AgreedSame DEF IInv

-------------------------------------------------------------------------------
(* Answers that leave the person where they are.                             *)

(* A live request's page is changed by its answer, other pages are not. *)
LEMMA AnswerChanges ==
  ASSUME PageInv, UNCHANGED <<route, failed, caches, consented>>,
         NEW c \in requests, requests' = requests \ {c},
         NEW ended,
         c.live /\ CanAsk /\ held \in consented => ended \in FlowState,
         flow' = IF c.live THEN ended ELSE flow
  PROVE  PageInv'
<1>1. CASE c.live
  <2>1. CanAsk /\ held \in consented
    BY <1>1 DEF PageInv, RequestsAgreed
  <2> QED
    BY <1>1, <2>1, PageChanges DEF PageInv, PageTypes, RequestsAgreed
<1>2. CASE ~c.live
  <2>1. Mounted' = Mounted /\ held' = held
    BY MountedSame DEF caches
  <2> QED
    BY <1>2, <2>1 DEF PageInv, PageTypes, RequestsAgreed, PageAgreed, CanAsk
<1> QED
  BY <1>1, <1>2

LEMMA CreateConflictsStep == ASSUME NEW c \in requests PROVE IInv /\ CreateConflicts(c) => IInv'
<1> SUFFICES ASSUME IInv, CreateConflicts(c) PROVE IInv'
  OBVIOUS
<1> DEFINE ended == [flow EXCEPT !.scene = "CONDITIONS", !.starting = FALSE, !.dialog = FALSE]
<1>1. /\ requests' = requests \ {c} /\ flow' = IF c.live THEN ended ELSE flow
      /\ UNCHANGED <<content, sets, storageVars, noteVars, route, asking, failed, caches>>
  BY DEF CreateConflicts, Ended, caches
<1>2. CanAsk => ended \in FlowState
  BY DEF IInv, PageInv, PageTypes, CanAsk, FlowState
<1> HIDE DEF ended
<1>3. PageInv'
  BY <1>1, <1>2, AnswerChanges DEF IInv, storageVars
<1>4. WorldInv'
  BY <1>1, WorldSame DEF IInv, WorldInv, WorldTypes, storageVars, noteVars
<1> QED
  BY <1>1, <1>3, <1>4, AgreedSame DEF IInv, storageVars

LEMMA CreateOutdatedStep == ASSUME NEW c \in requests PROVE IInv /\ CreateOutdated(c) => IInv'
<1> SUFFICES ASSUME IInv, CreateOutdated(c) PROVE IInv'
  OBVIOUS
<1>1. CASE c.live /\ ~c.again
  <2> DEFINE ended == [flow EXCEPT !.confirmed = FALSE, !.scene = "CONDITIONS"]
  <2>1. /\ requests' = requests \ {c} /\ flow' = IF c.live THEN ended ELSE flow
        /\ UNCHANGED <<content, sets, storageVars, noteVars, route, failed, caches>>
        /\ asking' = asking \cup {"material"}
    BY <1>1 DEF CreateOutdated, caches
  <2>2. CanAsk => ended \in FlowState
    BY DEF IInv, PageInv, PageTypes, CanAsk, FlowState
  <2> HIDE DEF ended
  <2>3. PageInv'
    BY <2>1, <2>2, AnswerChanges DEF IInv, storageVars
  <2>4. WorldInv'
    BY <2>1 DEF IInv, WorldInv, WorldTypes, HeardIsMade, KnownIsPending, ToldIsDelivered, Made, Generating, Settled,
                storageVars, noteVars, caches
  <2> QED
    BY <2>1, <2>3, <2>4, AgreedSame DEF IInv, storageVars
<1>2. CASE ~(c.live /\ ~c.again)
  <2> DEFINE ended == [flow EXCEPT !.gen = Display("REQUEST_FAILED"), !.starting = FALSE, !.dialog = FALSE]
  <2>1. /\ requests' = requests \ {c} /\ flow' = IF c.live THEN ended ELSE flow
        /\ UNCHANGED <<content, sets, storageVars, noteVars, route, asking, failed, caches>>
    BY <1>2 DEF CreateOutdated, Ended, caches
  <2>2. CanAsk => ended \in FlowState
    BY DisplayType DEF IInv, WorldInv, PageInv, PageTypes, CanAsk, FlowState
  <2> HIDE DEF ended
  <2>3. PageInv'
    BY <2>1, <2>2, AnswerChanges DEF IInv, storageVars
  <2>4. WorldInv'
    BY <2>1, WorldSame DEF IInv, WorldInv, WorldTypes, storageVars, noteVars
  <2> QED
    BY <2>1, <2>3, <2>4, AgreedSame DEF IInv, storageVars
<1> QED
  BY <1>1, <1>2

LEMMA CreateFailsStep == ASSUME NEW c \in requests PROVE IInv /\ CreateFails(c) => IInv'
<1> SUFFICES ASSUME IInv, CreateFails(c) PROVE IInv'
  OBVIOUS
<1> DEFINE ended == [flow EXCEPT !.gen = Display("REQUEST_FAILED"), !.starting = FALSE, !.dialog = FALSE]
<1>1. /\ requests' = requests \ {c} /\ flow' = IF c.live THEN ended ELSE flow
      /\ UNCHANGED <<content, storageVars, noteVars, route, asking, failed, caches>>
      /\ UNCHANGED sets \/ (Unmade # {} /\ Accept(c.rev, "here"))
  BY DEF CreateFails, Ended, Acceptable, caches
<1>2. CanAsk => ended \in FlowState
  BY DisplayType DEF IInv, WorldInv, PageInv, PageTypes, CanAsk, FlowState
<1>3. c.rev \in Revisions /\ c.rev \in consented
  BY DEF IInv, PageInv, PageTypes, RequestsAgreed, CreateRequest
<1> HIDE DEF ended
<1>4. PageInv'
  BY <1>1, <1>2, AnswerChanges DEF IInv, storageVars
<1>5. CASE UNCHANGED sets
  <2>1. WorldInv'
    BY <1>1, <1>5, WorldSame DEF IInv, WorldInv, WorldTypes, storageVars, noteVars
  <2> QED
    BY <1>1, <1>4, <1>5, <2>1, AgreedSame DEF IInv, storageVars
<1>6. CASE Unmade # {} /\ Accept(c.rev, "here")
  <2>1. WorldInv'
    BY <1>1, <1>3, <1>6, WorldAccepts DEF IInv, storageVars, noteVars
  <2>2. AgreedInv'
    BY <1>1, <1>3, <1>6, AgreedAccepts DEF IInv, WorldInv, storageVars
  <2> QED
    BY <1>4, <2>1, <2>2 DEF IInv
<1> QED
  BY <1>1, <1>5, <1>6

-------------------------------------------------------------------------------
(* Notices.                                                                  *)

LEMMA ClearPendingStep == ASSUME NEW id \in SetIds PROVE IInv /\ ClearPending(id) => IInv'
<1> SUFFICES ASSUME IInv, ClearPending(id) PROVE IInv'
  OBVIOUS
<1> USE DEF IInv, ClearPending, serverVars, queryVars, caches
<1>1. Settled(id)
  BY DEF WorldInv, HeardIsMade
<1>2. WorldInv'
  BY <1>1 DEF WorldInv, WorldTypes, HeardIsMade, KnownIsPending, ToldIsDelivered, Made, Generating, Settled
<1> QED
  BY <1>2, PageSame, AgreedSame

LEMMA NotesFetchedStep == IInv /\ NotesFetched => IInv'
<1> SUFFICES ASSUME IInv, NotesFetched PROVE IInv'
  OBVIOUS
<1> USE DEF IInv, NotesFetched, serverVars, storageVars, queryVars, caches
<1>1. WorldInv'
  BY WorldSame DEF WorldInv, WorldTypes, Unread
<1> QED
  BY <1>1, PageSame, AgreedSame

LEMMA ClaimStep == ASSUME NEW seen \in SUBSET SetIds PROVE IInv /\ Claim(seen) => IInv'
<1> SUFFICES ASSUME IInv, Claim(seen) PROVE IInv'
  OBVIOUS
<1> USE DEF IInv, Claim, serverVars, queryVars, caches
<1>1. ToldIsDelivered'
  BY DEF WorldInv, ToldIsDelivered
<1>2. WorldInv'
  BY <1>1 DEF WorldInv, WorldTypes, HeardIsMade, KnownIsPending, Made, Generating, Settled
<1> QED
  BY <1>2, PageSame, AgreedSame

-------------------------------------------------------------------------------
(* The invariant.                                                            *)

LEMMA InitInv == EntryInit => IInv
<1> SUFFICES ASSUME EntryInit PROVE IInv
  OBVIOUS
<1> USE DEF EntryInit
<1>1. 1 \in Revisions
  BY EntryAssumption, FS_CardinalityType
<1>2. WorldInv
  BY <1>1 DEF WorldInv, WorldTypes, HeardIsMade, KnownIsPending, ToldIsDelivered, Made, Generating, Statuses
<1>3. Mounted = Nil
  BY DEF Mounted, MountedFrom
<1>4. PageInv /\ AgreedInv
  BY <1>3 DEF PageInv, PageTypes, RequestsAgreed, PageAgreed, AgreedInv, RecordIsAgreed, ConsentedContent, Made
<1> QED
  BY <1>2, <1>4 DEF IInv

LEMMA NextInv == IInv /\ [EntryNext]_entryVars => IInv'
<1> SUFFICES ASSUME IInv, [EntryNext]_entryVars PROVE IInv'
  OBVIOUS
<1>1. CASE Server
  BY <1>1, OtherGeneratesStep, SettleStep, EditedThereStep DEF Server
<1>2. CASE Person
  BY <1>2, EditedHereStep, VisitMaterialStep, LeaveStep, ReloadStep, TryAgainStep, StartGenerationStep,
     ConfirmGenerationStep, CancelDisclosureStep, ReturnToConditionsStep, RetryGenerationStep DEF Person
<1>3. CASE Queries
  BY <1>3, ActiveFetchedStep, MaterialFetchedStep, SetFetchedStep, FetchFailsStep DEF Queries
<1>4. CASE \E c \in requests : Creation(c)
  BY <1>4, LookedStep, LookFailsStep, CreateAcceptedStep, CreateConflictsStep, CreateOutdatedStep,
     CreateFailsStep DEF Creation
<1>5. CASE Notifications
  <2>1. noteSeen \in SUBSET SetIds /\ Unread \in SUBSET SetIds
    BY DEF IInv, WorldInv, WorldTypes, Unread
  <2> QED
    BY <1>5, <2>1, ClearPendingStep, NotesFetchedStep, ClaimStep DEF Notifications, ClaimSnackbar, OtherTabClaims
<1>6. CASE UNCHANGED entryVars
  <2>1. WorldInv'
    BY <1>6, WorldSame DEF entryVars, IInv, WorldInv, WorldTypes, caches
  <2> QED
    BY <1>6, <2>1, PageSame, AgreedSame DEF entryVars, IInv, caches
<1> QED
  BY <1>1, <1>2, <1>3, <1>4, <1>5, <1>6 DEF EntryNext

(* The inductive invariant holds in every reachable state. *)
THEOREM Invariance == EntrySpec => []IInv
  BY InitInv, NextInv, PTL DEF EntrySpec

(* The entry's bookkeeping is sound: every variable has its type, what the *)
(* browser believes is being made it also waits for, however often the     *)
(* person leaves, reloads or edits, and nobody is told twice.              *)
THEOREM EntrySound == EntrySpec => []EntryIsSound
<1>1. IInv => EntryIsSound
  BY DEF IInv, WorldInv, WorldTypes, PageInv, PageTypes, RequestsAgreed, CanAsk, EntryIsSound, EntryTypeOK,
         NotNotifiedTwice, ToldIsDelivered
<1> QED
  BY <1>1, Invariance, PTL

(* A quiz that this browser asked for is made of a revision the person has *)
(* agreed to send, whatever was edited and answered meanwhile.             *)
THEOREM ContentIsConsented == EntrySpec => []ConsentedContent
<1>1. IInv => ConsentedContent
  BY DEF IInv, AgreedInv
<1> QED
  BY <1>1, Invariance, PTL
===============================================================================
