-------------------------- MODULE QuizAttempt_proofs --------------------------
(***************************************************************************)
(* Proofs of the safety of QuizAttempt for any papers, any number of       *)
(* attempts, requests and losses: what the server keeps stays whole, no    *)
(* essay is passed over, a retry repeats what it retries, and a review     *)
(* opens only for who is still on the result that asked for it.            *)
(***************************************************************************)
EXTENDS QuizAttempt, FiniteSetTheorems, FunctionTheorems, WellFoundedInduction, SequenceTheorems, TLAPS

(***************************************************************************)
(* The inductive invariant.                                                *)
(***************************************************************************)
Answer == {"text", "right", "part", None}
Mark == Outcomes \cup {None}
PageFields == {"mount", "kind", "key", "scene", "sheet", "answers", "request", "resource",
               "pending", "outcome", "shown", "item", "target"}
CallFields == {"op", "mount", "route", "k", "arg", "phase", "got"}

(* The server's table: the rows and the marks of an attempt are over the   *)
(* same questions, a review is of an attempt that is there and has no mark *)
(* before its submission, and the completed attempts are the ended ones.   *)
AttemptOK(k) ==
  /\ DOMAIN attempts[k].final = ToSet(attempts[k].rows)
  /\ attempts[k].status = "SOLVING" => k = ReviewId /\ Unassessed(attempts[k]) = ToSet(attempts[k].rows)
  /\ k = ReviewId => attempts[k].source \in Ids /\ Exists(attempts[k].source)
  /\ k \in Ids => (attempts[k].status = "COMPLETED") = (k \in ToSet(ended))

ServerInv ==
  /\ paper \in Seq(Questions)
  /\ attempts \in [Keys -> Attempt \cup {None}]
  /\ ended \in Seq(Ids) /\ IsInjective(ended)
  /\ \A k \in Keys : Exists(k) => AttemptOK(k)
  /\ \A k \in Ids : ~Exists(k) => k \notin ToSet(ended)

(* The essays of an attempt that have no mark are among those listed.      *)
Lists(k, qs) == k \in Keys /\ Exists(k) /\ qs \in Seq(Questions) /\ Unassessed(attempts[k]) \subseteq ToSet(qs)
IsCompleted(k) == k \in Keys /\ Exists(k) /\ attempts[k].status = "COMPLETED"

PageTyped ==
  /\ DOMAIN page = PageFields
  /\ page.mount \in Nat /\ page.kind \in {"QUIZ", "REVIEW"}
  /\ page.scene \in {"READY", "SOLVING", "SUBMIT_ERROR", "SELF_ASSESSMENT", "RESULT"}
  /\ page.answers \in Of(Answer)
  /\ DOMAIN page.answers = ToSet(Rows(page.kind))
  /\ page.outcome \in Outcomes \cup {None} /\ page.target \in Outcomes

(* The page is about the attempt of its kind, has its essays yet to come,  *)
(* or shows a completed one.                                               *)
PageOwn ==
  /\ page.kind = "REVIEW" => Exists(ReviewId)
  /\ page.scene \in {"SELF_ASSESSMENT", "RESULT"} =>
       page.resource \in Keys /\ (page.kind = "QUIZ") = (page.resource \in Ids)
  /\ page.scene = "SELF_ASSESSMENT" => Lists(page.resource, page.pending)
  /\ page.scene = "RESULT" => IsCompleted(page.resource)

RequestOK(r) ==
  /\ DOMAIN r = {"id", "answers"} /\ r.id \in Keys
  /\ r.answers \in Of(Answer)
PageRequest ==
  page.request # None =>
    /\ RequestOK(page.request)
    /\ (page.kind = "QUIZ") = (page.request.id \in Ids)

PageInv == page # None => PageTyped /\ PageOwn /\ PageRequest

(* What a call is for, and what its answer said. *)
CallTyped(c) ==
  /\ DOMAIN c = CallFields
  /\ c.mount \in Nat /\ c.k \in Keys
  /\ c.op \in {"submit", "essay", "correct", "review"} /\ c.phase \in {"sent", "load"}
  /\ c.route \in {"set", "result", "review", "entry"}
SubmitOK(c) ==
  /\ c.arg \in Of(Answer)
  /\ c.k = ReviewId => Exists(ReviewId)
  /\ c.route = "set" => c.k \in Ids
  /\ c.phase = "load" =>
       /\ c.got.status = "COMPLETED" => IsCompleted(c.k)
       /\ Lists(c.k, c.got.ids)
       /\ c.got.status \in {Waiting, "COMPLETED"}
EssayOK(c) ==
  /\ c.route = "set" => c.k \in Ids
  /\ Exists(c.k)
  /\ c.arg.q \in Questions /\ c.arg.o \in Outcomes
  /\ c.arg.left \in Seq(Questions)
  /\ Unassessed(attempts[c.k]) \subseteq
       ToSet(c.arg.left) \cup (IF c.phase = "sent" THEN {c.arg.q} ELSE {})
  /\ c.phase = "load" /\ c.got = "COMPLETED" => IsCompleted(c.k)
CorrectOK(c) == IsCompleted(c.k) /\ c.arg.o \in Outcomes /\ c.phase = "sent"
CallOK(c) ==
  /\ CallTyped(c)
  /\ c.op = "submit" => SubmitOK(c)
  /\ c.op = "essay" => EssayOK(c)
  /\ c.op = "correct" => CorrectOK(c)
  /\ c.op = "review" => c.k \in Ids
CallsInv == IsFiniteSet(calls) /\ \A c \in calls : CallOK(c)

(* A page has one submission, or one assessment, under way, and stays where *)
(* it asked for it.                                                         *)
HereOK(c) ==
  /\ c.op = "submit" =>
       /\ page.scene \in {"SOLVING", "SUBMIT_ERROR"} /\ (page.kind = "QUIZ") = (c.k \in Ids)
       /\ c.phase = "load" => page.resource = c.k
  /\ c.op = "essay" => page.scene = "SELF_ASSESSMENT" /\ page.resource = c.k
  /\ c.op = "correct" => page.scene = "RESULT" /\ page.resource = c.k
  /\ c.op = "review" => page.scene = "RESULT"
HereInv ==
  /\ \A c \in calls : Here(c) => HereOK(c)
  /\ \A c, d \in calls : Here(c) /\ Here(d) /\ c.op = d.op /\ c.op \in {"submit", "essay"} => c = d

(* An identifier is drawn once, and stands for one set of answers. *)
Says(k, answers) ==
  /\ Exists(k) => attempts[k].answers = answers
  /\ k <= drawn
DrawnInv ==
  /\ \A k \in Ids : Exists(k) => k <= drawn
  /\ \A c \in calls : c.op = "submit" /\ c.k \in Ids =>
       /\ Says(c.k, c.arg)
       /\ \A d \in calls : d.op = "submit" /\ d.k = c.k => d.arg = c.arg
       /\ page # None /\ page.request # None /\ page.request.id = c.k => page.request.answers = c.arg
  /\ page # None /\ page.request # None /\ page.request.id \in Ids =>
       Says(page.request.id, page.request.answers)

(* The routes and what they show. *)
RouteInv ==
  /\ at \in {"away", "set", "result", "review", "entry"}
  /\ at \in {"away", "entry"} => page = None
  /\ at = "review" => Exists(ReviewId)
  /\ at = "result" => subject \in Ids /\ IsCompleted(subject)
  /\ page # None => (page.kind = "REVIEW") = (at = "review")
  /\ pendCache \notin {None, Unknown} => pendCache.id \in Ids /\ Lists(pendCache.id, pendCache.ids)

Bounds == drawn \in 0 .. Cardinality(Ids) /\ acts \in 0 .. MaxActs /\ losses \in 0 .. MaxLosses

IInv == Bounds /\ ServerInv /\ PageInv /\ CallsInv /\ HereInv /\ DrawnInv /\ RouteInv

(***************************************************************************)
(* Data: sequences, and the mark that tells a page from the others.        *)
(***************************************************************************)

(* A set of natural numbers that is not empty has a least one: initial     *)
(* segments are ordered well by inclusion.                                 *)
LEMMA Least ==
  ASSUME NEW T \in SUBSET Nat, NEW n \in T
  PROVE  \E m \in T : \A k \in T : m <= k
<1> DEFINE S == 0 .. n
           Up == {0 .. k : k \in {j \in T : j <= n}}
<1>1. IsWellFoundedOn(StrictSubsetOrdering(S), FiniteSubsetsOf(S))
  BY FS_StrictSubsetOrderingWellFounded
<1>2. Up \subseteq FiniteSubsetsOf(S)
  <2> SUFFICES ASSUME NEW j \in T, j <= n
               PROVE  0 .. j \in FiniteSubsetsOf(S)
    OBVIOUS
  <2>1. IsFiniteSet(0 .. j) /\ 0 .. j \subseteq S
    BY FS_Interval
  <2> QED
    BY <2>1 DEF FiniteSubsetsOf
<1>3. Up # {}
  OBVIOUS
<1>4. PICK x \in Up : \A y \in Up : <<y, x>> \notin StrictSubsetOrdering(S)
  <2> HIDE DEF Up, S
  <2> QED
    BY <1>1, <1>2, <1>3, WFMin
<1>5. PICK m \in T : m <= n /\ x = 0 .. m
  BY <1>4
<1>6. ASSUME NEW k \in T, k < m
      PROVE  FALSE
  <2>1. 0 .. k \in Up
    BY <1>5, <1>6
  <2>2. <<0 .. k, x>> \in StrictSubsetOrdering(S)
    BY <1>5, <1>6 DEF StrictSubsetOrdering
  <2> QED
    BY <2>1, <2>2, <1>4
<1> QED
  BY <1>5, <1>6

(* Induction up to a bound, for a set of numbers.                          *)
LEMMA UpTo ==
  ASSUME NEW n \in Nat, NEW T \in SUBSET Nat, 0 \in T,
         \A i \in 1 .. n : i - 1 \in T => i \in T
  PROVE  0 .. n \subseteq T
<1> DEFINE Out == (0 .. n) \ T
<1>1. SUFFICES ASSUME NEW k \in Out
               PROVE  FALSE
  OBVIOUS
<1>2. Out \in SUBSET Nat
  OBVIOUS
<1>3. PICK m \in Out : \A j \in Out : m <= j
  <2> HIDE DEF Out
  <2> QED
    BY <1>1, <1>2, Least
<1>4. m \in 1 .. n /\ m - 1 \notin Out
  BY <1>3
<1> QED
  BY <1>3, <1>4

(* The recursive definition of InOrder has a value. *)
Taken(rows, S, f, n) ==
  f = [i \in 0 .. n |-> IF i = 0 THEN <<>>
                        ELSE IF rows[i] \in S THEN Append(f[i - 1], rows[i]) ELSE f[i - 1]]

LEMMA TakenExists ==
  ASSUME NEW V, NEW rows \in Seq(V), NEW S
  PROVE  \E f : Taken(rows, S, f, Len(rows))
<1> DEFINE T == {n \in Nat : \E f : Taken(rows, S, f, n)}
<1>1. 0 \in T
  <2>1. Taken(rows, S, [i \in 0 .. 0 |-> <<>>], 0)
    BY DEF Taken
  <2> QED
    BY <2>1
<1>2. ASSUME NEW n \in 1 .. Len(rows), n - 1 \in T
      PROVE  n \in T
  <2>1. PICK f : Taken(rows, S, f, n - 1)
    BY <1>2
  <2> DEFINE last == IF rows[n] \in S THEN Append(f[n - 1], rows[n]) ELSE f[n - 1]
             g == [i \in 0 .. n |-> IF i = n THEN last ELSE f[i]]
  <2>2. \A i \in 0 .. n : g[i] = IF i = 0 THEN <<>>
                                 ELSE IF rows[i] \in S THEN Append(g[i - 1], rows[i]) ELSE g[i - 1]
    <3> SUFFICES ASSUME NEW i \in 0 .. n
                 PROVE  g[i] = IF i = 0 THEN <<>>
                               ELSE IF rows[i] \in S THEN Append(g[i - 1], rows[i]) ELSE g[i - 1]
      OBVIOUS
    <3>1. CASE i = n
      <4>1. g[i] = last /\ g[n - 1] = f[n - 1]
        BY <3>1, LenProperties
      <4> QED
        BY <3>1, <4>1, LenProperties
    <3>2. CASE i # n
      <4>1. g[i] = f[i] /\ i \in 0 .. (n - 1) /\ (i # 0 => g[i - 1] = f[i - 1])
        BY <3>2, LenProperties
      <4> QED
        BY <2>1, <4>1 DEF Taken
    <3> QED
      BY <3>1, <3>2
  <2>3. Taken(rows, S, g, n)
    <3>1. g = [i \in 0 .. n |-> g[i]]
      OBVIOUS
    <3> HIDE DEF g
    <3> QED
      BY <2>2, <3>1 DEF Taken
  <2> QED
    BY <2>3, LenProperties
<1>3. 0 .. Len(rows) \subseteq T
  <2> HIDE DEF T
  <2>1. T \in SUBSET Nat
    BY DEF T
  <2> QED
    BY <1>1, <1>2, <2>1, UpTo, LenProperties
<1> QED
  BY <1>3, LenProperties

(* InOrder: those of the rows that are in S, and no others. *)
LEMMA InOrderTaken ==
  ASSUME NEW V, NEW rows \in Seq(V), NEW S
  PROVE  /\ InOrder(rows, S) \in Seq(V)
         /\ ToSet(InOrder(rows, S)) = ToSet(rows) \cap S
<1> DEFINE f == CHOOSE g : Taken(rows, S, g, Len(rows))
<1>1. Taken(rows, S, f, Len(rows))
  BY TakenExists
<1>2. InOrder(rows, S) = f[Len(rows)]
  BY DEF InOrder, Taken
<1> HIDE DEF f
<1> DEFINE Firsts(n) == {rows[i] : i \in 1 .. n} \cap S
           T == {n \in Nat : n <= Len(rows) => f[n] \in Seq(V) /\ ToSet(f[n]) = Firsts(n)}
<1>3. 0 \in T
  <2>1. f[0] = <<>>
    BY <1>1, LenProperties DEF Taken
  <2>2. f[0] \in Seq(V) /\ ToSet(f[0]) = {} /\ Firsts(0) = {}
    BY <2>1 DEF ToSet
  <2> QED
    BY <2>2
<1>4. ASSUME NEW n \in 1 .. Len(rows), n - 1 \in T
      PROVE  n \in T
  <2>1. f[n - 1] \in Seq(V) /\ ToSet(f[n - 1]) = Firsts(n - 1) /\ rows[n] \in V /\ n \in Nat
    BY <1>4, LenProperties, ElementOfSeq
  <2>2. f[n] = IF rows[n] \in S THEN Append(f[n - 1], rows[n]) ELSE f[n - 1]
    <3>1. n \in 0 .. Len(rows) /\ n # 0
      BY LenProperties
    <3> QED
      BY <1>1, <3>1 DEF Taken
  <2>3. {rows[i] : i \in 1 .. n} = {rows[i] : i \in 1 .. (n - 1)} \cup {rows[n]}
    OBVIOUS
  <2>4. CASE rows[n] \in S
    <3> DEFINE s == f[n - 1]
    <3>1. f[n] = Append(s, rows[n]) /\ s \in Seq(V)
      BY <2>1, <2>2, <2>4
    <3> HIDE DEF s
    <3>2. Append(s, rows[n]) \in Seq(V) /\ ToSet(Append(s, rows[n])) = ToSet(s) \cup {rows[n]}
      <4> DEFINE a == Append(s, rows[n])
      <4>1. a \in Seq(V) /\ Len(a) = Len(s) + 1 /\ a[Len(s) + 1] = rows[n]
            /\ \A i \in 1 .. Len(s) : a[i] = s[i]
        BY <2>1, <3>1, AppendProperties
      <4>2. DOMAIN a = 1 .. Len(a) /\ DOMAIN s = 1 .. Len(s) /\ Len(s) \in Nat
        BY <3>1, <4>1, LenProperties
      <4> HIDE DEF a
      <4>3. ToSet(a) = {a[i] : i \in 1 .. Len(s)} \cup {rows[n]}
        BY <4>1, <4>2 DEF ToSet
      <4>4. {a[i] : i \in 1 .. Len(s)} = ToSet(s)
        BY <4>1, <4>2 DEF ToSet
      <4> QED
        BY <4>1, <4>3, <4>4 DEF a
    <3> QED
      BY <2>1, <2>3, <2>4, <3>1, <3>2 DEF s
  <2>5. CASE rows[n] \notin S
    BY <2>1, <2>2, <2>3, <2>5
  <2> QED
    BY <2>4, <2>5
<1>5. Len(rows) \in T
  <2> HIDE DEF T
  <2>1. T \in SUBSET Nat
    BY DEF T
  <2> QED
    <3>1. Len(rows) \in Nat
      BY LenProperties
    <3>2. 0 .. Len(rows) \subseteq T
      BY <1>3, <1>4, <2>1, <3>1, UpTo
    <3> QED
      BY <3>1, <3>2
<1>6. ToSet(rows) = {rows[i] : i \in 1 .. Len(rows)}
  BY LenProperties DEF ToSet
<1> QED
  BY <1>2, <1>5, <1>6

(* A new page is told from the one that is there and from those that wait. *)
LEMMA FreshIsNew ==
  ASSUME IsFiniteSet(calls), \A c \in calls : c.mount \in Nat, page # None => page.mount \in Nat
  PROVE  /\ Fresh \in Nat
         /\ \A c \in calls : c.mount # Fresh
         /\ page # None => page.mount # Fresh
<1> DEFINE M == {c.mount : c \in calls}
           P == {p.mount : p \in {page} \ {None}}
           N == 1 .. Cardinality(calls) + 2
<1>1. /\ IsFiniteSet(M) /\ Cardinality(M) <= Cardinality(calls)
      /\ Cardinality(M) \in Nat /\ Cardinality(calls) \in Nat
  <2>1. [c \in calls |-> c.mount] \in Surjection(calls, M)
    BY DEF Surjection
  <2> QED
    BY <2>1, FS_Surjection, FS_CardinalityType
<1>2. IsFiniteSet(M \cup P) /\ Cardinality(M \cup P) <= Cardinality(calls) + 1
      /\ Cardinality(M \cup P) \in Nat
  <2>1. M \cup P = IF page = None THEN M ELSE M \cup {page.mount}
    OBVIOUS
  <2>2. ASSUME NEW S, IsFiniteSet(S), NEW x
        PROVE  /\ IsFiniteSet(S \cup {x}) /\ Cardinality(S \cup {x}) <= Cardinality(S) + 1
               /\ Cardinality(S) \in Nat /\ Cardinality(S \cup {x}) \in Nat
    <3>1. IsFiniteSet(S \cup {x}) /\ Cardinality(S \cup {x}) \in {Cardinality(S), Cardinality(S) + 1}
      BY <2>2, FS_AddElement
    <3>2. Cardinality(S) \in Nat
      BY <2>2, FS_CardinalityType
    <3> QED
      BY <3>1, <3>2
  <2> HIDE DEF M, P
  <2>3. CASE page = None
    BY <1>1, <2>1, <2>3
  <2>4. CASE page # None
    <3> DEFINE x == page.mount
    <3>1. M \cup P = M \cup {x}
      BY <2>1, <2>4
    <3> HIDE DEF x
    <3>2. /\ IsFiniteSet(M \cup {x}) /\ Cardinality(M \cup {x}) <= Cardinality(M) + 1
          /\ Cardinality(M \cup {x}) \in Nat
      BY <1>1, <2>2
    <3> QED
      BY <1>1, <3>1, <3>2
  <2> QED
    BY <2>3, <2>4
<1>3. IsFiniteSet(N) /\ Cardinality(N) = Cardinality(calls) + 2
  <2> DEFINE b == Cardinality(calls) + 2
  <2>1. b \in Int /\ ~(1 > b) /\ N = 1 .. b
    BY <1>1
  <2> HIDE DEF b, N
  <2>2. IsFiniteSet(1 .. b) /\ Cardinality(1 .. b) = b - 1 + 1
    BY <2>1, FS_Interval
  <2>3. b - 1 + 1 = b
    BY <2>1
  <2> QED
    BY <2>1, <2>2, <2>3 DEF b
<1>4. N \ (M \cup P) # {}
  <2> HIDE DEF M, P, N
  <2>1. SUFFICES ASSUME N \subseteq M \cup P
                 PROVE  FALSE
    OBVIOUS
  <2>2. Cardinality(N) <= Cardinality(M \cup P)
    BY <1>2, <2>1, FS_Subset
  <2> QED
    BY <1>1, <1>2, <1>3, <2>2
<1>5. PICK m \in N \ (M \cup P) : \A k \in N \ (M \cup P) : m <= k
  <2>1. N \ (M \cup P) \in SUBSET Nat
    OBVIOUS
  <2> HIDE DEF M, P, N
  <2> QED
    BY <1>4, <2>1, Least
<1>6. Fresh \in N \ (M \cup P)
  <2> DEFINE Smallest(x) == x \in N \ (M \cup P) /\ \A y \in N \ (M \cup P) : x <= y
  <2>1. Fresh = CHOOSE x \in N \ (M \cup P) : \A y \in N \ (M \cup P) : x <= y
    BY DEF Fresh, Min
  <2> HIDE DEF M, P, N
  <2> QED
    BY <1>5, <2>1
<1> QED
  BY <1>6

(***************************************************************************)
(* The server.                                                             *)
(***************************************************************************)
LEMMA KeysAreApart == Ids \subseteq Nat /\ ReviewId \notin Ids /\ None \notin Keys /\ None \notin Outcomes
<1>1. Cardinality(Ids) \in Nat
  BY IdsAssumption, FS_CardinalityType
<1>2. Ids \subseteq Nat
  BY <1>1, IdsAssumption
<1> QED
  BY <1>2, ValuesAssumption DEF Keys

LEMMA RowsAreQuestions ==
  ASSUME NEW rows \in Seq(Questions)
  PROVE  ToSet(rows) \in SUBSET Questions
BY ElementOfSeq, LenProperties DEF ToSet

LEMMA EndedAreIds ==
  ASSUME ended \in Seq(Ids)
  PROVE  ToSet(ended) \in SUBSET Ids
BY ElementOfSeq, LenProperties DEF ToSet

LEMMA SeqGrows ==
  ASSUME NEW S, NEW T, S \subseteq T, NEW s \in Seq(S)
  PROVE  s \in Seq(T)
<1>1. s \in [1 .. Len(s) -> S] /\ Len(s) \in Nat
  BY LenProperties, ElementOfSeq
<1>2. s \in [1 .. Len(s) -> T]
  BY <1>1
<1> QED
  BY <1>1, <1>2, SeqDef

LEMMA OfAll ==
  ASSUME NEW V, NEW S \in SUBSET Questions, NEW f \in [S -> V]
  PROVE  f \in Of(V)
BY DEF Of

LEMMA OfExcept ==
  ASSUME NEW V, NEW f \in Of(V), NEW q, NEW v \in V
  PROVE  [f EXCEPT ![q] = v] \in Of(V) /\ DOMAIN [f EXCEPT ![q] = v] = DOMAIN f
BY DEF Of

LEMMA BlankIsOf ==
  ASSUME NEW rows \in Seq(Questions)
  PROVE  /\ Blank(rows) \in Of(Answer) /\ Blank(rows) \in Of(Mark)
         /\ DOMAIN Blank(rows) = ToSet(rows) /\ \A q \in ToSet(rows) : Blank(rows)[q] = None
<1>1. Blank(rows) \in [ToSet(rows) -> {None}]
  BY DEF Blank
<1>2. Blank(rows) \in [ToSet(rows) -> Answer] /\ Blank(rows) \in [ToSet(rows) -> Mark]
  BY <1>1 DEF Answer, Mark
<1>3. Blank(rows) \in Of(Answer) /\ Blank(rows) \in Of(Mark)
  BY <1>2, RowsAreQuestions, OfAll
<1> QED
  BY <1>1, <1>3

(* What another attempt's step leaves of a record, and what a step of its  *)
(* own never takes back.                                                   *)
SameCore(a, b) ==
  b.rows = a.rows /\ b.answers = a.answers /\ b.source = a.source /\ b.final = a.final /\ b.status = a.status
AttemptKept(a, b) ==
  /\ b.rows = a.rows
  /\ Unassessed(b) \subseteq Unassessed(a)
  /\ a.status = "COMPLETED" => b.status = "COMPLETED"

(* The table after the record of k has become r.                           *)
TableAfter(table, k, r) ==
  /\ table \in [Keys -> Attempt \cup {None}]
  /\ table[k] # None /\ SameCore(r, table[k])
  /\ \A j \in Keys \ {k} : /\ (table[j] = None) = (attempts[j] = None)
                           /\ Exists(j) => SameCore(attempts[j], table[j])

LEMMA RecordWritten ==
  ASSUME attempts \in [Keys -> Attempt \cup {None}], NEW k \in Keys, NEW r \in Attempt
  PROVE  TableAfter([attempts EXCEPT ![k] = r], k, r)
BY ValuesAssumption DEF TableAfter, SameCore, Exists

LEMMA Resolved ==
  ASSUME attempts \in [Keys -> Attempt \cup {None}], NEW k \in Keys, NEW r \in Attempt,
         NEW right \in SUBSET Questions, k = ReviewId => r.source \in Ids /\ Exists(r.source)
  PROVE  TableAfter(Resolve([attempts EXCEPT ![k] = r], k, right), k, r)
<1> DEFINE t == [attempts EXCEPT ![k] = r]
           s == r.source
<1>1. TableAfter(t, k, r) /\ t[k] = r
  BY RecordWritten
<1>2. CASE k # ReviewId
  BY <1>1, <1>2 DEF Resolve
<1>3. CASE k = ReviewId
  <2> DEFINE b == [t[s] EXCEPT !.resolved = @ \cup right]
             u == [t EXCEPT ![s] = b]
  <2>1. s \in Keys /\ s # k /\ t[s] \in Attempt /\ t[s] = attempts[s] /\ Exists(s)
    BY <1>3, KeysAreApart DEF Keys, Exists
  <2>2. Resolve(t, k, right) = u
    BY <1>1, <1>3, <2>1 DEF Resolve
  <2>3. b \in Attempt /\ SameCore(t[s], b)
    <3>1. t[s].resolved \cup right \in SUBSET Questions
      BY <2>1 DEF Attempt
    <3> DEFINE a == t[s]
               w == t[s].resolved \cup right
    <3>2. b = [a EXCEPT !.resolved = w] /\ a \in Attempt /\ w \in SUBSET Questions
      BY <2>1, <3>1 DEF Attempt
    <3> HIDE DEF a, w, b
    <3> QED
      <4>1. b \in Attempt /\ SameCore(a, b)
        BY <3>2 DEF Attempt, SameCore
      <4> QED
        BY <4>1 DEF a
  <2>4. \A j \in Keys : u[j] = IF j = s THEN b ELSE t[j]
    BY <1>1 DEF TableAfter
  <2>5. u \in [Keys -> Attempt \cup {None}]
    BY <1>1, <2>3 DEF TableAfter
  <2>6. b # None
    BY <2>3, ValuesAssumption
  <2> HIDE DEF t, u, b
  <2>7. u[k] = t[k]
    BY <2>1, <2>4
  <2>8. ASSUME NEW j \in Keys \ {k}
        PROVE  (u[j] = None) = (attempts[j] = None) /\ (Exists(j) => SameCore(attempts[j], u[j]))
    <3>1. CASE j = s
      <4>1. u[j] = b /\ attempts[j] # None /\ SameCore(attempts[j], b)
        BY <2>1, <2>3, <2>4, <3>1 DEF Exists
      <4> QED
        BY <2>6, <4>1
    <3>2. CASE j # s
      <4>1. u[j] = t[j]
        BY <2>4, <3>2
      <4> QED
        BY <1>1, <4>1 DEF TableAfter
    <3> QED
      BY <3>1, <3>2
  <2>9. TableAfter(u, k, r)
    BY <1>1, <2>5, <2>7, <2>8 DEF TableAfter
  <2> QED
    BY <2>2, <2>9 DEF t
<1> QED
  BY <1>2, <1>3

(* The record that a step of the server may write.                         *)
RecordFits(k, r) ==
  /\ DOMAIN r.final = ToSet(r.rows)
  /\ r.status = "SOLVING" => k = ReviewId /\ Unassessed(r) = ToSet(r.rows)
  /\ k = ReviewId => r.source \in Ids /\ Exists(r.source)
EndedFits(k, r) ==
  \/ ended' = ended /\ (k \in Ids => (r.status = "COMPLETED") = (k \in ToSet(ended)))
  \/ ended' = Append(ended, k) /\ k \in Ids /\ k \notin ToSet(ended) /\ r.status = "COMPLETED"

LEMMA AppendToEnded ==
  ASSUME ended \in Seq(Ids), IsInjective(ended), NEW k \in Ids, k \notin ToSet(ended)
  PROVE  /\ Append(ended, k) \in Seq(Ids) /\ IsInjective(Append(ended, k))
         /\ ToSet(Append(ended, k)) = ToSet(ended) \cup {k}
<1> DEFINE a == Append(ended, k)
<1>1. a \in Seq(Ids) /\ Len(a) = Len(ended) + 1 /\ a[Len(ended) + 1] = k
      /\ \A i \in 1 .. Len(ended) : a[i] = ended[i]
  BY AppendProperties
<1>2. DOMAIN a = 1 .. Len(a) /\ DOMAIN ended = 1 .. Len(ended) /\ Len(ended) \in Nat
  BY <1>1, LenProperties
<1> HIDE DEF a
<1>3. ToSet(a) = ToSet(ended) \cup {k}
  <2>1. ToSet(a) = {a[i] : i \in 1 .. Len(ended)} \cup {k}
    BY <1>1, <1>2 DEF ToSet
  <2>2. {a[i] : i \in 1 .. Len(ended)} = ToSet(ended)
    BY <1>1, <1>2 DEF ToSet
  <2> QED
    BY <2>1, <2>2
<1>4. IsInjective(a)
  BY <1>1, <1>2 DEF IsInjective, ToSet
<1> QED
  BY <1>1, <1>3, <1>4 DEF a

LEMMA ServerStep ==
  ASSUME ServerInv, NEW k \in Keys, NEW r \in Attempt, TableAfter(attempts', k, r),
         RecordFits(k, r), EndedFits(k, r), paper' = paper
  PROVE  ServerInv'
<1>1. /\ ended' \in Seq(Ids) /\ IsInjective(ended')
      /\ \A j \in Keys \ {k} : (j \in ToSet(ended')) = (j \in ToSet(ended))
      /\ k \in Ids => (r.status = "COMPLETED") = (k \in ToSet(ended'))
  <2>1. ended \in Seq(Ids) /\ IsInjective(ended)
    BY DEF ServerInv
  <2>2. CASE ended' = ended
    BY <2>1, <2>2, AppendToEnded DEF EndedFits
  <2>3. CASE ended' = Append(ended, k) /\ k \in Ids /\ k \notin ToSet(ended) /\ r.status = "COMPLETED"
    BY <2>1, <2>3, AppendToEnded
  <2> QED
    BY <2>2, <2>3 DEF EndedFits
<1>2. paper' \in Seq(Questions) /\ attempts' \in [Keys -> Attempt \cup {None}]
  BY DEF ServerInv, TableAfter
<1>3. \A j \in Keys : Exists(j) => Exists(j)'
  BY DEF TableAfter, Exists
<1>4. ASSUME NEW j \in Keys, Exists(j)'
      PROVE  AttemptOK(j)'
  <2>1. CASE j = k
    <3>1. SameCore(r, attempts'[k])
      BY DEF TableAfter
    <3>2. k = ReviewId => Exists(r.source)'
      BY <1>3 DEF RecordFits, Keys
    <3> QED
      BY <1>1, <2>1, <3>1, <3>2 DEF AttemptOK, SameCore, RecordFits, Unassessed
  <2>2. CASE j # k
    <3>1. Exists(j) /\ SameCore(attempts[j], attempts'[j]) /\ AttemptOK(j)
      BY <1>4, <2>2 DEF TableAfter, Exists, ServerInv
    <3>2. j = ReviewId => attempts'[attempts[j].source] # None
      BY <1>3, <3>1 DEF AttemptOK, Keys, Exists
    <3> QED
      BY <1>1, <2>2, <3>1, <3>2 DEF AttemptOK, SameCore, Unassessed, Exists
  <2> QED
    BY <2>1, <2>2
<1>5. ASSUME NEW j \in Ids, ~Exists(j)'
      PROVE  j \notin ToSet(ended')
  BY <1>1, <1>5 DEF TableAfter, Exists, ServerInv, Keys
<1> QED
  BY <1>1, <1>2, <1>4, <1>5 DEF ServerInv

(* A step of the server takes nothing back, and makes at most one attempt. *)
Grown ==
  \A j \in Keys : Exists(j) =>
    /\ attempts'[j] # None /\ AttemptKept(attempts[j], attempts'[j])
    /\ j \in Ids => attempts'[j].answers = attempts[j].answers
NoneNewBut(k) == \A j \in Keys \ {k} : ~Exists(j) => attempts'[j] = None

LEMMA GrownBy ==
  ASSUME NEW k \in Keys, NEW r \in Attempt, TableAfter(attempts', k, r),
         Exists(k) => AttemptKept(attempts[k], r) /\ (k \in Ids => r.answers = attempts[k].answers)
  PROVE  Grown /\ NoneNewBut(k)
<1>1. ASSUME NEW j \in Keys, Exists(j)
      PROVE  /\ attempts'[j] # None /\ AttemptKept(attempts[j], attempts'[j])
             /\ j \in Ids => attempts'[j].answers = attempts[j].answers
  <2>1. CASE j = k
    BY <1>1, <2>1 DEF TableAfter, SameCore, AttemptKept, Unassessed
  <2>2. CASE j # k
    BY <1>1, <2>2 DEF TableAfter, SameCore, AttemptKept, Unassessed, Exists
  <2> QED
    BY <2>1, <2>2
<1>2. NoneNewBut(k)
  BY DEF NoneNewBut, TableAfter, Exists
<1> QED
  BY <1>1, <1>2 DEF Grown

LEMMA ServerRests ==
  ASSUME attempts' = attempts
  PROVE  Grown /\ \A k : NoneNewBut(k)
BY DEF Grown, NoneNewBut, Exists, AttemptKept

LEMMA SubmittedFits ==
  ASSUME NEW rows \in Seq(Questions), NEW answers \in Of(Answer), NEW source \in Ids \cup {None}
  PROVE  LET r == Submitted(rows, answers, source)
         IN /\ r \in Attempt /\ r.rows = rows /\ r.answers = answers /\ r.source = source
            /\ DOMAIN r.final = ToSet(rows) /\ r.status \in {Waiting, "COMPLETED"}
<1> DEFINE final == [q \in ToSet(rows) |-> GradeAndStore(q, answers[q])]
           status == IF \E q \in ToSet(rows) : final[q] = None THEN Waiting ELSE "COMPLETED"
           r == [rows |-> rows, answers |-> answers, source |-> source, final |-> final,
                 resolved |-> {}, status |-> status]
<1>1. Submitted(rows, answers, source) = r
  BY DEF Submitted
<1>2. final \in [ToSet(rows) -> Mark] /\ DOMAIN final = ToSet(rows)
  BY DEF GradeAndStore, Mark, Outcomes
<1>3. final \in Of(Mark)
  BY <1>2, RowsAreQuestions, OfAll
<1>4. status \in {Waiting, "COMPLETED"}
  OBVIOUS
<1> HIDE DEF final, status
<1>5. r \in Attempt
  BY <1>3, <1>4 DEF Attempt, Answer, Mark
<1> QED
  BY <1>1, <1>2, <1>4, <1>5

LEMMA SubmitKeeps ==
  ASSUME ServerInv, NEW k \in Keys, NEW answers \in Of(Answer), k = ReviewId => Exists(k),
         Submit(k, answers), paper' = paper
  PROVE  /\ ServerInv' /\ Grown /\ NoneNewBut(k)
         /\ attempts'[k] # None /\ attempts'[k].status \in {Waiting, "COMPLETED"}
         /\ k \in Ids /\ ~Exists(k) => attempts'[k].answers = answers
<1>1. attempts \in [Keys -> Attempt \cup {None}] /\ paper \in Seq(Questions)
  BY DEF ServerInv
<1>2. CASE Exists(k) /\ (k = ReviewId => attempts[k].status # "SOLVING")
  <2>1. UNCHANGED <<attempts, ended>>
    BY <1>2 DEF Submit
  <2>2. AttemptOK(k) /\ attempts[k] \in Attempt
    BY <1>1, <1>2 DEF ServerInv, Exists
  <2>3. attempts[k].status \in {Waiting, "COMPLETED"}
    BY <1>2, <2>2 DEF AttemptOK, Attempt
  <2>4. ServerInv'
    BY <2>1 DEF ServerInv, AttemptOK, Exists
  <2> QED
    BY <1>2, <2>1, <2>3, <2>4, ServerRests DEF Exists
<1>3. CASE ~(Exists(k) /\ (k = ReviewId => attempts[k].status # "SOLVING"))
  <2> DEFINE r == IF k = ReviewId THEN Submitted(attempts[k].rows, answers, attempts[k].source)
                  ELSE Submitted(paper, answers, None)
             right == {q \in ToSet(r.rows) : r.final[q] = "CORRECT"}
  <2>1. attempts' = Resolve([attempts EXCEPT ![k] = r], k, right) /\ Completes(k, r)
    BY <1>3 DEF Submit
  <2>2. k = ReviewId => /\ attempts[k] \in Attempt /\ attempts[k].status = "SOLVING"
                        /\ attempts[k].source \in Ids /\ Exists(attempts[k].source) /\ AttemptOK(k)
    BY <1>1, <1>3 DEF ServerInv, Exists, AttemptOK
  <2>3. /\ r \in Attempt /\ DOMAIN r.final = ToSet(r.rows) /\ r.status \in {Waiting, "COMPLETED"}
        /\ r.answers = answers
        /\ k = ReviewId => r.rows = attempts[k].rows /\ r.source = attempts[k].source
    <3>1. CASE k = ReviewId
      <4>1. attempts[k].rows \in Seq(Questions) /\ attempts[k].source \in Ids \cup {None}
        BY <2>2, <3>1 DEF Attempt
      <4> QED
        BY <3>1, <4>1, SubmittedFits
    <3>2. CASE k # ReviewId
      BY <1>1, <3>2, SubmittedFits
    <3> QED
      BY <3>1, <3>2
  <2> HIDE DEF r
  <2>4. right \in SUBSET Questions
    <3>1. r.rows \in Seq(Questions)
      BY <2>3 DEF Attempt
    <3> QED
      BY <3>1, RowsAreQuestions
  <2> HIDE DEF right
  <2>5. RecordFits(k, r)
    BY <2>2, <2>3 DEF RecordFits, Waiting
  <2>6. TableAfter(attempts', k, r)
    BY <1>1, <2>1, <2>2, <2>3, <2>4, Resolved
  <2>7. EndedFits(k, r)
    <3>1. k \in Ids => k \notin ToSet(ended) /\ k # ReviewId
      BY <1>3, KeysAreApart DEF ServerInv
    <3> QED
      BY <2>1, <2>3, <3>1, KeysAreApart DEF Completes, EndedFits, Keys
  <2>8. ServerInv'
    BY <2>3, <2>5, <2>6, <2>7, ServerStep
  <2>9. Exists(k) => AttemptKept(attempts[k], r) /\ k = ReviewId
    <3> SUFFICES ASSUME Exists(k)
                 PROVE  AttemptKept(attempts[k], r) /\ k = ReviewId
      OBVIOUS
    <3>1. k = ReviewId
      BY <1>3
    <3> QED
      BY <2>2, <2>3, <3>1 DEF AttemptKept, AttemptOK, Unassessed
  <2>10. Grown /\ NoneNewBut(k)
    BY <2>3, <2>6, <2>9, KeysAreApart, GrownBy
  <2> QED
    BY <2>3, <2>6, <2>8, <2>10 DEF TableAfter, SameCore
<1> QED
  BY <1>2, <1>3

LEMMA AssessKeeps ==
  ASSUME ServerInv, NEW k \in Keys, Exists(k), NEW q \in Questions, NEW o \in Outcomes,
         AssessAllowed(k, q, o), Assess(k, q, o), paper' = paper
  PROVE  /\ ServerInv' /\ Grown /\ NoneNewBut(k)
         /\ attempts'[k] # None
         /\ Unassessed(attempts'[k]) \subseteq Unassessed(attempts[k]) \ {q}
<1>1. attempts \in [Keys -> Attempt \cup {None}] /\ AttemptOK(k) /\ attempts[k] \in Attempt
  BY DEF ServerInv, Exists
<1>2. CASE attempts[k].final[q] # None
  <2>1. UNCHANGED <<attempts, ended>>
    BY <1>2 DEF Assess
  <2>2. ServerInv'
    BY <2>1 DEF ServerInv, AttemptOK, Exists
  <2>3. q \notin Unassessed(attempts[k])
    BY <1>2 DEF Unassessed
  <2> QED
    BY <2>1, <2>2, <2>3, ServerRests DEF Exists
<1>3. CASE attempts[k].final[q] = None
  <2> DEFINE a == attempts[k]
             final == [a.final EXCEPT ![q] = o]
             status == IF \E p \in DOMAIN final : final[p] = None THEN a.status ELSE "COMPLETED"
             r == [a EXCEPT !.final = final, !.status = status]
             right == {p \in {q} : o = "CORRECT"}
  <2>1. attempts' = Resolve([attempts EXCEPT ![k] = r], k, right) /\ Completes(k, r)
    BY <1>3 DEF Assess
  <2>2. a.status = Waiting /\ a \in Attempt
    BY <1>1, <1>3 DEF AssessAllowed
  <2>3. final \in Of(Mark) /\ DOMAIN final = DOMAIN a.final
        /\ \A p \in DOMAIN final : final[p] = None => a.final[p] = None /\ p # q
    <3>1. a.final \in Of(Mark) /\ o \in Mark
      BY <2>2 DEF Attempt, Mark
    <3>2. final \in Of(Mark) /\ DOMAIN final = DOMAIN a.final
      BY <3>1, OfExcept
    <3>3. \A p \in DOMAIN final : final[p] = IF p = q THEN o ELSE a.final[p]
      OBVIOUS
    <3> QED
      BY <3>2, <3>3, KeysAreApart
  <2>4. status \in {Waiting, "COMPLETED"}
    BY <2>2
  <2> HIDE DEF a, final, status
  <2>5. /\ r \in Attempt /\ r.rows = a.rows /\ r.answers = a.answers /\ r.source = a.source
        /\ r.final = final /\ r.status = status
    BY <2>2, <2>3, <2>4 DEF Attempt, Mark
  <2> HIDE DEF r
  <2>6. DOMAIN a.final = ToSet(a.rows) /\ (k = ReviewId => a.source \in Ids /\ Exists(a.source))
        /\ (k \in Ids => (a.status = "COMPLETED") = (k \in ToSet(ended)))
    BY <1>1 DEF AttemptOK, a
  <2>7. RecordFits(k, r)
    BY <2>3, <2>4, <2>5, <2>6 DEF RecordFits, Waiting
  <2>8. TableAfter(attempts', k, r)
    <3>1. right \in SUBSET Questions
      OBVIOUS
    <3> QED
      BY <1>1, <2>1, <2>5, <2>6, <3>1, Resolved
  <2>9. EndedFits(k, r)
    BY <2>1, <2>2, <2>4, <2>5, <2>6, KeysAreApart DEF EndedFits, Completes, Keys, Waiting
  <2>10. ServerInv'
    BY <2>5, <2>7, <2>8, <2>9, ServerStep
  <2>11. Unassessed(r) \subseteq Unassessed(a) \ {q}
    BY <2>3, <2>5, <2>6 DEF Unassessed
  <2>12. AttemptKept(a, r)
    BY <2>2, <2>5, <2>11 DEF AttemptKept, Waiting
  <2>13. Grown /\ NoneNewBut(k)
    BY <2>5, <2>8, <2>12, GrownBy DEF a
  <2>14. attempts'[k] # None /\ Unassessed(attempts'[k]) = Unassessed(r)
    BY <2>8 DEF TableAfter, SameCore, Unassessed
  <2> QED
    BY <2>10, <2>11, <2>13, <2>14 DEF a
<1> QED
  BY <1>2, <1>3

LEMMA OverrideKeeps ==
  ASSUME ServerInv, NEW k \in Keys, IsCompleted(k), NEW q, NEW o \in Outcomes,
         Override(k, q, o), paper' = paper
  PROVE  ServerInv' /\ Grown /\ NoneNewBut(k)
<1> DEFINE a == attempts[k]
           final == [a.final EXCEPT ![q] = o]
           r == [a EXCEPT !.final = final]
<1>1. attempts \in [Keys -> Attempt \cup {None}] /\ AttemptOK(k) /\ a \in Attempt /\ a.status = "COMPLETED"
      /\ Exists(k)
  BY DEF ServerInv, Exists, IsCompleted
<1>2. attempts' = [attempts EXCEPT ![k] = r] /\ ended' = ended
  BY <1>1 DEF Override
<1>3. final \in Of(Mark) /\ DOMAIN final = DOMAIN a.final
      /\ \A p \in DOMAIN final : final[p] = None => a.final[p] = None
  <2>1. a.final \in Of(Mark) /\ o \in Mark
    BY <1>1 DEF Attempt, Mark
  <2>2. final \in Of(Mark) /\ DOMAIN final = DOMAIN a.final
    BY <2>1, OfExcept
  <2>3. \A p \in DOMAIN final : final[p] = IF p = q THEN o ELSE a.final[p]
    OBVIOUS
  <2> QED
    BY <2>2, <2>3, KeysAreApart
<1> HIDE DEF a, final
<1>4. /\ r \in Attempt /\ r.rows = a.rows /\ r.answers = a.answers /\ r.source = a.source
      /\ r.final = final /\ r.status = a.status
  BY <1>1, <1>3 DEF Attempt, Mark
<1> HIDE DEF r
<1>5. DOMAIN a.final = ToSet(a.rows) /\ (k = ReviewId => a.source \in Ids /\ Exists(a.source))
      /\ (k \in Ids => (a.status = "COMPLETED") = (k \in ToSet(ended)))
  BY <1>1 DEF AttemptOK, a
<1>6. RecordFits(k, r) /\ EndedFits(k, r)
  BY <1>1, <1>2, <1>3, <1>4, <1>5 DEF RecordFits, EndedFits
<1>7. TableAfter(attempts', k, r)
  BY <1>1, <1>2, <1>4, RecordWritten
<1>8. AttemptKept(a, r)
  BY <1>1, <1>3, <1>4, <1>5 DEF AttemptKept, Unassessed
<1>9. Grown /\ NoneNewBut(k)
  BY <1>4, <1>7, <1>8, GrownBy DEF a
<1> QED
  BY <1>4, <1>6, <1>7, <1>9, ServerStep

LEMMA StartReviewKeeps ==
  ASSUME ServerInv, NEW k \in Ids, ReviewAllowed(k), StartReview(k), ended' = ended, paper' = paper
  PROVE  ServerInv' /\ Grown /\ NoneNewBut(ReviewId) /\ attempts'[ReviewId] # None
<1>1. CASE ActiveReview(k)
  <2>1. attempts' = attempts
    BY <1>1 DEF StartReview
  <2>2. ServerInv'
    BY <2>1 DEF ServerInv, AttemptOK, Exists
  <2> QED
    BY <1>1, <2>1, <2>2, ServerRests DEF ActiveReview, Exists
<1>2. CASE ~ActiveReview(k)
  <2> DEFINE rows == InOrder(attempts[k].rows, Candidates(attempts[k]))
             r == [rows |-> rows, answers |-> Blank(rows), source |-> k, final |-> Blank(rows),
                   resolved |-> {}, status |-> "SOLVING"]
  <2>1. attempts' = [attempts EXCEPT ![ReviewId] = r] /\ ~Exists(ReviewId)
    BY <1>2 DEF StartReview, ReviewAllowed
  <2>2. attempts \in [Keys -> Attempt \cup {None}] /\ ended \in Seq(Ids) /\ k \in Keys
    BY DEF ServerInv, Keys
  <2>3. k \in ToSet(ended)
    BY <2>2, LenProperties DEF ReviewAllowed, IsLatest, ToSet
  <2>4. Exists(k) /\ attempts[k] \in Attempt
    BY <2>2, <2>3 DEF ServerInv, Exists
  <2>5. rows \in Seq(Questions)
    BY <2>4, InOrderTaken DEF Attempt
  <2> HIDE DEF rows
  <2>6. Blank(rows) \in Of(Answer) /\ Blank(rows) \in Of(Mark) /\ DOMAIN Blank(rows) = ToSet(rows)
        /\ \A q \in ToSet(rows) : Blank(rows)[q] = None
    BY <2>5, BlankIsOf
  <2>7. r \in Attempt
    BY <2>5, <2>6 DEF Attempt, Answer, Mark
  <2>8. RecordFits(ReviewId, r) /\ EndedFits(ReviewId, r)
    BY <2>4, <2>6, KeysAreApart DEF RecordFits, EndedFits, Unassessed
  <2> HIDE DEF r
  <2>9. ReviewId \in Keys
    BY DEF Keys
  <2>10. TableAfter(attempts', ReviewId, r)
    BY <2>1, <2>2, <2>7, <2>9, RecordWritten
  <2>11. ServerInv'
    BY <2>7, <2>8, <2>9, <2>10, ServerStep
  <2>12. Grown /\ NoneNewBut(ReviewId)
    BY <2>1, <2>7, <2>9, <2>10, GrownBy
  <2> QED
    BY <2>10, <2>11, <2>12 DEF TableAfter
<1> QED
  BY <1>1, <1>2

(***************************************************************************)
(* What a step leaves alone.                                               *)
(***************************************************************************)
LEMMA ServerUnchanged ==
  ASSUME ServerInv, UNCHANGED serverVars
  PROVE  ServerInv' /\ Grown /\ \A k : NoneNewBut(k)
<1>1. UNCHANGED <<paper, attempts, ended>>
  BY DEF serverVars
<1> QED
  BY <1>1, ServerRests DEF ServerInv, AttemptOK, Exists

LEMMA FactsKept ==
  ASSUME Grown
  PROVE  /\ \A k \in Keys : Exists(k) => attempts'[k] # None
         /\ \A k : IsCompleted(k) => IsCompleted(k)'
         /\ \A k, qs : Lists(k, qs) => Lists(k, qs)'
BY DEF Grown, AttemptKept, Exists, IsCompleted, Lists

LEMMA CallRests ==
  ASSUME Grown, NEW c, CallOK(c)
  PROVE  CallOK(c)'
<1>1. CallTyped(c) /\ c.k \in Keys /\ ReviewId \in Keys
  BY DEF CallOK, CallTyped, Keys
<1>2. CallTyped(c)'
  BY <1>1 DEF CallTyped
<1>3. c.op = "submit" => SubmitOK(c)'
  BY <1>1, FactsKept DEF CallOK, SubmitOK, Exists
<1>4. c.op = "essay" => EssayOK(c)'
  <2> SUFFICES ASSUME c.op = "essay", EssayOK(c)
               PROVE  EssayOK(c)'
    BY DEF CallOK
  <2>1. attempts'[c.k] # None /\ Unassessed(attempts'[c.k]) \subseteq Unassessed(attempts[c.k])
    BY <1>1 DEF Grown, AttemptKept, EssayOK
  <2> QED
    BY <1>1, <2>1, FactsKept DEF EssayOK, Exists
<1>5. c.op = "correct" => CorrectOK(c)'
  BY <1>1, FactsKept DEF CallOK, CorrectOK
<1> QED
  BY <1>2, <1>3, <1>4, <1>5 DEF CallOK

LEMMA CallsShrink ==
  ASSUME Grown, CallsInv, calls' \subseteq calls
  PROVE  CallsInv'
BY CallRests, FS_Subset DEF CallsInv

LEMMA CallsChange ==
  ASSUME Grown, CallsInv, NEW rest \in SUBSET calls, NEW c, calls' = rest \cup {c}, CallOK(c)'
  PROVE  CallsInv'
<1>1. IsFiniteSet(rest)
  BY FS_Subset DEF CallsInv
<1>2. IsFiniteSet(rest \cup {c})
  BY <1>1, FS_AddElement
<1>3. \A d \in rest : CallOK(d)'
  BY CallRests DEF CallsInv
<1> QED
  BY <1>2, <1>3 DEF CallsInv

LEMMA RowsRest ==
  ASSUME Grown, paper' = paper, NEW kind, kind = "REVIEW" => Exists(ReviewId)
  PROVE  Rows(kind)' = Rows(kind)
BY DEF Rows, Grown, AttemptKept, Keys

LEMMA PageRests ==
  ASSUME Grown, paper' = paper, page' = page, PageInv
  PROVE  PageInv'
<1> SUFFICES ASSUME page # None
             PROVE  (PageTyped /\ PageOwn /\ PageRequest)'
  BY DEF PageInv
<1>1. PageTyped /\ PageOwn /\ PageRequest
  BY DEF PageInv
<1>2. (paper' = paper) /\ (page.kind = "REVIEW" => attempts'[ReviewId] # None /\ attempts'[ReviewId].rows = attempts[ReviewId].rows)
  BY <1>1 DEF PageOwn, Grown, AttemptKept, Keys
<1>3. PageTyped'
  BY <1>1, <1>2 DEF PageTyped, Rows
<1>4. PageOwn'
  BY <1>1, <1>2, FactsKept DEF PageOwn, Exists
<1>5. PageRequest'
  BY <1>1 DEF PageRequest, RequestOK
<1> QED
  BY <1>3, <1>4, <1>5

(* A page that is not there asks for nothing. *)
LEMMA NoPage ==
  ASSUME page' = None
  PROVE  PageInv' /\ HereInv'
BY DEF PageInv, HereInv, Here

LEMMA HereRests ==
  ASSUME HereInv, calls' \subseteq calls,
         page' # None => /\ page # None /\ page'.mount = page.mount /\ page'.kind = page.kind
                         /\ page'.scene = page.scene /\ page'.resource = page.resource
  PROVE  HereInv'
<1> SUFFICES ASSUME page' # None
             PROVE  HereInv'
  BY DEF HereInv, Here
<1>1. \A c : Here(c)' => Here(c)
  BY DEF Here
<1>2. \A c \in calls' : Here(c)' => HereOK(c)'
  BY <1>1 DEF HereInv, HereOK
<1> QED
  BY <1>1, <1>2 DEF HereInv

LEMMA NobodyHere ==
  ASSUME page' # None => \A c \in calls' : c.mount # page'.mount
  PROVE  HereInv'
BY DEF HereInv, Here

(* What holds of the identifiers outlives a step that draws none: a new    *)
(* attempt has the answers of a submission, and no new answers are sent.   *)
LEMMA DrawnRests ==
  ASSUME DrawnInv, drawn' = drawn,
         \A k \in Ids : attempts'[k] # None =>
           \/ Exists(k) /\ attempts'[k].answers = attempts[k].answers
           \/ ~Exists(k) /\ \E d \in calls : d.op = "submit" /\ d.k = k /\ d.arg = attempts'[k].answers,
         \A c \in calls' : c.op = "submit" =>
           \E d \in calls : d.op = "submit" /\ d.k = c.k /\ d.arg = c.arg,
         page' # None => page'.request = None \/ (page # None /\ page'.request = page.request)
  PROVE  DrawnInv'
<1>1. ASSUME NEW k \in Ids, NEW answers, Says(k, answers),
             \A d \in calls : d.op = "submit" /\ d.k = k => d.arg = answers
      PROVE  Says(k, answers)'
  BY <1>1 DEF Says, Exists
<1>2. \A k \in Ids : Exists(k)' => k <= drawn'
  BY DEF DrawnInv, Exists, Says
<1>3. ASSUME NEW c \in calls', c.op = "submit", c.k \in Ids
      PROVE  /\ Says(c.k, c.arg)'
             /\ \A d \in calls' : d.op = "submit" /\ d.k = c.k => d.arg = c.arg
             /\ page' # None /\ page'.request # None /\ page'.request.id = c.k => page'.request.answers = c.arg
  <2>1. PICK b \in calls : b.op = "submit" /\ b.k = c.k /\ b.arg = c.arg
    BY <1>3
  <2>2. /\ Says(c.k, c.arg)
        /\ \A d \in calls : d.op = "submit" /\ d.k = c.k => d.arg = c.arg
        /\ page # None /\ page.request # None /\ page.request.id = c.k => page.request.answers = c.arg
    BY <1>3, <2>1 DEF DrawnInv
  <2>3. Says(c.k, c.arg)'
    BY <1>1, <1>3, <2>2
  <2>4. \A d \in calls' : d.op = "submit" /\ d.k = c.k => d.arg = c.arg
    BY <2>2
  <2> QED
    BY <2>2, <2>3, <2>4
<1>4. ASSUME page' # None, page'.request # None, page'.request.id \in Ids
      PROVE  Says(page.request.id, page.request.answers)'
  <2>0. PICK k, answers : k = page.request.id /\ answers = page.request.answers
    OBVIOUS
  <2>1. k \in Ids /\ Says(k, answers) /\ page'.request = page.request
    BY <1>4, <2>0 DEF DrawnInv
  <2>2. \A d \in calls : d.op = "submit" /\ d.k = k => d.arg = answers
    BY <1>4, <2>1, <2>0 DEF DrawnInv
  <2>3. Says(k, answers)'
    BY <1>1, <2>1, <2>2
  <2> QED
    BY <1>4, <2>1, <2>3, <2>0 DEF Says, Exists
<1> QED
  BY <1>2, <1>3, <1>4 DEF DrawnInv, Says, Exists

LEMMA RouteRests ==
  ASSUME RouteInv, Grown, UNCHANGED <<at, subject, pendCache>>,
         page' # None => page # None /\ page'.kind = page.kind
  PROVE  RouteInv'
<1>1. at = "review" => attempts'[ReviewId] # None
  BY FactsKept DEF RouteInv, Keys
<1>2. at = "result" => subject \in Ids /\ IsCompleted(subject)'
  BY FactsKept DEF RouteInv
<1>3. pendCache \notin {None, Unknown} => pendCache.id \in Ids /\ Lists(pendCache.id, pendCache.ids)'
  BY FactsKept DEF RouteInv
<1> QED
  BY <1>1, <1>2, <1>3 DEF RouteInv, Exists, IsCompleted, Lists

(***************************************************************************)
(* Steps of the page alone.                                                *)
(***************************************************************************)
LEMMA RowsAreRows ==
  ASSUME ServerInv, NEW kind, kind = "REVIEW" => Exists(ReviewId)
  PROVE  Rows(kind) \in Seq(Questions)
BY DEF ServerInv, Rows, Exists, Attempt, Keys

(* A new page: nothing waits for it yet. *)
LEMMA Mounted ==
  ASSUME ServerInv, PageInv, CallsInv, Grown, paper' = paper,
         NEW kind \in {"QUIZ", "REVIEW"}, kind = "REVIEW" => Exists(ReviewId),
         NEW scene \in {"READY", "SOLVING", "SELF_ASSESSMENT", "RESULT"}, NEW k, NEW qs,
         scene \in {"SELF_ASSESSMENT", "RESULT"} => k \in Keys /\ (kind = "QUIZ") = (k \in Ids),
         scene = "SELF_ASSESSMENT" => Lists(k, qs),
         scene = "RESULT" => IsCompleted(k),
         page' = NewPage(kind, scene, k, qs),
         \A c \in calls' : \E d \in calls : d.mount = c.mount
  PROVE  PageInv' /\ HereInv' /\ page'.request = None /\ page'.kind = kind
<1>1. /\ DOMAIN page' = PageFields
      /\ page'.mount = Fresh /\ page'.kind = kind /\ page'.scene = scene /\ page'.resource = k
      /\ page'.answers = Blank(Rows(kind)) /\ page'.request = None /\ page'.pending = qs
      /\ page'.outcome = None /\ page'.target = "CORRECT"
  BY DEF NewPage, PageFields
<1>2. IsFiniteSet(calls) /\ (\A c \in calls : c.mount \in Nat) /\ (page # None => page.mount \in Nat)
  BY DEF CallsInv, CallOK, CallTyped, PageInv, PageTyped
<1>3. Fresh \in Nat /\ \A c \in calls : c.mount # Fresh
  BY <1>2, FreshIsNew
<1>4. Rows(kind) \in Seq(Questions)
  BY RowsAreRows
<1>5. Blank(Rows(kind)) \in Of(Answer) /\ DOMAIN Blank(Rows(kind)) = ToSet(Rows(kind))
  BY <1>4, BlankIsOf
<1>6. Rows(kind)' = Rows(kind) /\ (kind = "REVIEW" => attempts'[ReviewId] # None)
  BY RowsRest, FactsKept DEF Keys
<1>7. PageTyped'
  <2>1. Rows(page.kind)' = Rows(kind)
    BY <1>1, <1>6 DEF Rows
  <2> QED
    BY <1>1, <1>3, <1>5, <2>1, KeysAreApart DEF PageTyped, Answer, Outcomes
<1>8. PageOwn'
  <2>1. scene = "SELF_ASSESSMENT" => Lists(k, qs)'
    BY FactsKept
  <2>2. scene = "RESULT" => IsCompleted(k)'
    BY FactsKept
  <2> QED
    BY <1>1, <1>6, <2>1, <2>2 DEF PageOwn, Exists, Lists, IsCompleted
<1>9. PageRequest'
  BY <1>1 DEF PageRequest
<1>10. HereInv'
  BY <1>1, <1>3, NobodyHere
<1> QED
  BY <1>1, <1>7, <1>8, <1>9, <1>10 DEF PageInv

(* A step of the page that asks for nothing. *)
LEMMA ChangeKeeps ==
  ASSUME IInv, page # None, NEW p, Change(p),
         DOMAIN p = PageFields, p.mount = page.mount, p.kind = page.kind, p.resource = page.resource,
         p.answers = page.answers, p.request = page.request, p.pending = page.pending,
         p.scene = page.scene \/ (page.scene \in {"READY", "SUBMIT_ERROR"} /\ p.scene = "SOLVING"),
         p.outcome \in Outcomes \cup {None}, p.target \in Outcomes
  PROVE  IInv'
<1>1. /\ Bounds /\ ServerInv /\ PageInv /\ CallsInv /\ HereInv /\ DrawnInv /\ RouteInv
      /\ PageTyped /\ PageOwn /\ PageRequest
  BY DEF IInv, PageInv
<1>2. /\ page' = p /\ UNCHANGED <<paper, attempts, ended>> /\ UNCHANGED <<at, subject, restart, pendCache, fetching>>
      /\ UNCHANGED <<calls, drawn, losses>> /\ acts' = acts
  BY DEF Change, serverVars, routeVars, netVars
<1>3. ServerInv' /\ Grown
  BY <1>1, <1>2, ServerUnchanged DEF serverVars
<1>4. PageInv'
  <2>1. PageTyped'
    BY <1>1, <1>2 DEF PageTyped, Rows
  <2>2. PageOwn'
    BY <1>1, <1>2 DEF PageOwn, Exists, Lists, IsCompleted
  <2>3. PageRequest'
    BY <1>1, <1>2 DEF PageRequest, RequestOK
  <2> QED
    BY <2>1, <2>2, <2>3 DEF PageInv
<1>5. CallsInv'
  BY <1>1, <1>2, <1>3, CallsShrink
<1>6. HereInv'
  <2>1. \A c \in calls : Here(c)' => Here(c) /\ c.op \in {"submit", "essay", "correct", "review"}
    BY <1>1, <1>2 DEF Here, CallsInv, CallOK, CallTyped
  <2>2. \A c \in calls : Here(c)' => HereOK(c)'
    BY <1>1, <1>2, <2>1 DEF HereInv, HereOK
  <2> QED
    BY <1>1, <1>2, <2>1, <2>2 DEF HereInv
<1>7. DrawnInv'
  BY <1>1, <1>2, DrawnRests DEF Exists
<1>8. RouteInv'
  BY <1>1, <1>2, <1>3, RouteRests
<1>9. Bounds'
  BY <1>1, <1>2 DEF Bounds
<1> QED
  BY <1>3, <1>4, <1>5, <1>6, <1>7, <1>8, <1>9 DEF IInv

LEMMA PageNow ==
  ASSUME IInv, page # None
  PROVE  PageTyped /\ PageOwn /\ PageRequest
BY DEF IInv, PageInv

LEMMA SheetKeeps ==
  ASSUME IInv, page # None, NEW s, OpenSheet(s)
  PROVE  IInv'
<1> DEFINE p == [page EXCEPT !.sheet = s]
<1>1. PageTyped
  BY PageNow
<1>2. DOMAIN p = PageFields /\ p.mount = page.mount /\ p.kind = page.kind /\ p.resource = page.resource
      /\ p.answers = page.answers /\ p.request = page.request /\ p.pending = page.pending
      /\ p.scene = page.scene /\ p.outcome = page.outcome /\ p.target = page.target
  BY <1>1 DEF PageTyped, PageFields
<1>3. Change(p) /\ page.outcome \in Outcomes \cup {None} /\ page.target \in Outcomes
  BY <1>1 DEF OpenSheet, PageTyped
<1> HIDE DEF p
<1> QED
  BY <1>2, <1>3, ChangeKeeps

LEMMA SceneKeeps ==
  ASSUME IInv, page # None, page.scene \in {"READY", "SUBMIT_ERROR"},
         Change([page EXCEPT !.scene = "SOLVING"])
  PROVE  IInv'
<1> DEFINE p == [page EXCEPT !.scene = "SOLVING"]
<1>1. PageTyped
  BY PageNow
<1>2. DOMAIN p = PageFields /\ p.mount = page.mount /\ p.kind = page.kind /\ p.resource = page.resource
      /\ p.answers = page.answers /\ p.request = page.request /\ p.pending = page.pending
      /\ p.scene = "SOLVING" /\ p.outcome = page.outcome /\ p.target = page.target
  BY <1>1 DEF PageTyped, PageFields
<1>3. Change(p) /\ page.outcome \in Outcomes \cup {None} /\ page.target \in Outcomes
  BY <1>1 DEF PageTyped
<1> HIDE DEF p
<1> QED
  BY <1>2, <1>3, ChangeKeeps

LEMMA ChooseOutcomeKeeps ==
  ASSUME IInv, NEW o \in Outcomes, ChooseOutcome(o)
  PROVE  IInv'
<1> DEFINE p == [page EXCEPT !.outcome = o]
<1>1. page # None /\ PageTyped /\ Change(p)
  BY PageNow DEF ChooseOutcome, EssayAssessmentScreen, Showing
<1>2. DOMAIN p = PageFields /\ p.mount = page.mount /\ p.kind = page.kind /\ p.resource = page.resource
      /\ p.answers = page.answers /\ p.request = page.request /\ p.pending = page.pending
      /\ p.scene = page.scene /\ p.outcome = o /\ p.target = page.target
  BY <1>1 DEF PageTyped, PageFields
<1>3. page.target \in Outcomes
  BY <1>1 DEF PageTyped
<1> HIDE DEF p
<1> QED
  BY <1>1, <1>2, <1>3, ChangeKeeps

LEMMA ResultListSheetKeeps ==
  ASSUME IInv, ResultListSheet
  PROVE  IInv'
<1>1. PICK q : page # None /\ PageTyped /\ Change([page EXCEPT !.item = q])
  BY PageNow DEF ResultListSheet, ResultScreen, Showing
<1> DEFINE p == [page EXCEPT !.item = q]
<1>2. DOMAIN p = PageFields /\ p.mount = page.mount /\ p.kind = page.kind /\ p.resource = page.resource
      /\ p.answers = page.answers /\ p.request = page.request /\ p.pending = page.pending
      /\ p.scene = page.scene /\ p.outcome = page.outcome /\ p.target = page.target
  BY <1>1 DEF PageTyped, PageFields
<1>3. Change(p) /\ page.outcome \in Outcomes \cup {None} /\ page.target \in Outcomes
  BY <1>1 DEF PageTyped
<1> HIDE DEF p
<1> QED
  BY <1>1, <1>2, <1>3, ChangeKeeps

LEMMA OppositeIsOutcome == \A o : Opposite(o) \in Outcomes
BY DEF Opposite, Outcomes

(* The correction's sheet: opened, closed, or its choice turned over. *)
LEMMA CorrectionSheetKeeps ==
  ASSUME IInv, page # None, NEW s, NEW o \in Outcomes, NEW p, Change(p),
         p = [page EXCEPT !.sheet = s, !.target = o]
  PROVE  IInv'
<1>1. PageTyped
  BY PageNow
<1>2. DOMAIN p = PageFields /\ p.mount = page.mount /\ p.kind = page.kind /\ p.resource = page.resource
      /\ p.answers = page.answers /\ p.request = page.request /\ p.pending = page.pending
      /\ p.scene = page.scene /\ p.outcome = page.outcome /\ p.target = o
  BY <1>1 DEF PageTyped, PageFields
<1>3. page.outcome \in Outcomes \cup {None}
  BY <1>1 DEF PageTyped
<1> QED
  BY <1>2, <1>3, ChangeKeeps

LEMMA CorrectionKeeps ==
  ASSUME IInv, OpenCorrection \/ CorrectionSheet
  PROVE  IInv'
<1>1. page # None /\ PageTyped
  BY PageNow DEF OpenCorrection, CorrectionSheet, ResultScreen, Showing
<1>2. \E s, o : o \in Outcomes /\ Change([page EXCEPT !.sheet = s, !.target = o])
  <2>1. CASE OpenCorrection
    BY <2>1, OppositeIsOutcome DEF OpenCorrection
  <2>2. CASE Change([page EXCEPT !.sheet = None, !.target = "CORRECT"])
    BY <2>2 DEF Outcomes
  <2>3. CASE Change([page EXCEPT !.target = Opposite(@)])
    <3>1. [page EXCEPT !.target = Opposite(@)] = [page EXCEPT !.sheet = page.sheet, !.target = Opposite(page.target)]
      BY <1>1 DEF PageTyped, PageFields
    <3> QED
      BY <2>3, <3>1, OppositeIsOutcome
  <2> QED
    BY <2>1, <2>2, <2>3 DEF CorrectionSheet
<1> QED
  BY <1>1, <1>2, CorrectionSheetKeeps

LEMMA SetAnswerKeeps ==
  ASSUME IInv, page # None, NEW q, NEW answer, SetAnswer(q, answer)
  PROVE  IInv'
<1>1. /\ Bounds /\ ServerInv /\ PageInv /\ CallsInv /\ HereInv /\ DrawnInv /\ RouteInv
      /\ PageTyped /\ PageOwn
  BY DEF IInv, PageInv
<1>2. /\ page' = [page EXCEPT !.answers[q] = answer, !.request = None]
      /\ UNCHANGED <<paper, attempts, ended>> /\ UNCHANGED <<at, subject, restart, pendCache, fetching>>
      /\ UNCHANGED <<calls, drawn, losses>> /\ acts' \in {acts, acts + 1} /\ (acts' # acts => acts < MaxActs)
  BY DEF SetAnswer, serverVars, routeVars, netVars, Act
<1>3. ServerInv' /\ Grown
  BY <1>1, <1>2, ServerUnchanged DEF serverVars
<1>4. answer \in Answer
  BY DEF SetAnswer, AnswersOf, Answer
<1>5. /\ DOMAIN page' = PageFields /\ page'.mount = page.mount /\ page'.kind = page.kind
      /\ page'.resource = page.resource /\ page'.answers = [page.answers EXCEPT ![q] = answer]
      /\ page'.request = None /\ page'.pending = page.pending /\ page'.scene = page.scene
      /\ page'.outcome = page.outcome /\ page'.target = page.target
  BY <1>1, <1>2 DEF PageTyped, PageFields
<1>6. page'.answers \in Of(Answer) /\ DOMAIN page'.answers = DOMAIN page.answers
  <2>1. page.answers \in Of(Answer)
    BY <1>1 DEF PageTyped
  <2>2. ASSUME NEW f \in Of(Answer)
        PROVE  [f EXCEPT ![q] = answer] \in Of(Answer) /\ DOMAIN [f EXCEPT ![q] = answer] = DOMAIN f
    BY <1>4, OfExcept
  <2> QED
    BY <1>5, <2>1, <2>2
<1>7. PageInv'
  <2>1. PageTyped'
    BY <1>1, <1>2, <1>5, <1>6 DEF PageTyped, Rows
  <2>2. PageOwn'
    BY <1>1, <1>2, <1>5 DEF PageOwn, Exists, Lists, IsCompleted
  <2>3. PageRequest'
    BY <1>5 DEF PageRequest
  <2> QED
    BY <2>1, <2>2, <2>3 DEF PageInv
<1>8. CallsInv'
  BY <1>1, <1>2, <1>3, CallsShrink
<1>9. HereInv'
  BY <1>1, <1>2, <1>5, HereRests
<1>10. DrawnInv'
  BY <1>1, <1>2, <1>5, DrawnRests DEF Exists
<1>11. RouteInv'
  BY <1>1, <1>2, <1>3, <1>5, RouteRests
<1>12. Bounds'
  BY <1>1, <1>2, BoundsAssumption DEF Bounds
<1> QED
  BY <1>3, <1>7, <1>8, <1>9, <1>10, <1>11, <1>12 DEF IInv

(***************************************************************************)
(* Requests.                                                               *)
(***************************************************************************)
LEMMA HereSent ==
  ASSUME HereInv, page # None, NEW c, calls' = calls \cup {c}, HereOK(c), c.mount = page.mount,
         c.op \in {"submit", "essay"} => ~Busy(c.op),
         page'.mount = page.mount, page'.kind = page.kind, page'.scene = page.scene,
         page'.resource = page.resource
  PROVE  HereInv'
<1>1. \A d : Here(d)' => Here(d)
  BY DEF Here
<1>2. \A d \in calls' : Here(d)' => HereOK(d)'
  BY <1>1 DEF HereInv, HereOK
<1>3. ASSUME NEW d \in calls', NEW e \in calls', Here(d)', Here(e)', d.op = e.op, d.op \in {"submit", "essay"}
      PROVE  d = e
  <2>1. Here(d) /\ Here(e)
    BY <1>1, <1>3
  <2>2. ASSUME NEW b \in calls, Here(b), b.op = c.op, b.op \in {"submit", "essay"}
        PROVE  FALSE
    BY <2>2 DEF Busy
  <2> QED
    BY <1>3, <2>1, <2>2 DEF HereInv
<1> QED
  BY <1>2, <1>3 DEF HereInv

(* A page asks for something else than its own submission. *)
LEMMA RequestKeeps ==
  ASSUME IInv, page # None, NEW op \in {"essay", "correct", "review"}, NEW k, NEW arg,
         calls' = calls \cup {Request(op, k, arg)}, op = "essay" => ~Busy(op),
         HereOK(Request(op, k, arg)), CallOK(Request(op, k, arg)),
         UNCHANGED <<serverVars, routeVars, page, drawn, losses>>, Act
  PROVE  IInv'
<1>1. /\ Bounds /\ ServerInv /\ PageInv /\ CallsInv /\ HereInv /\ DrawnInv /\ RouteInv
  BY DEF IInv
<1>2. /\ UNCHANGED <<paper, attempts, ended>> /\ UNCHANGED <<at, subject, restart, pendCache, fetching>>
      /\ UNCHANGED <<page, drawn, losses>> /\ acts' = acts + 1 /\ acts < MaxActs
  BY DEF serverVars, routeVars, Act
<1>3. PICK c : c = Request(op, k, arg)
  OBVIOUS
<1>13. c.op = op /\ c.mount = page.mount
  BY <1>3 DEF Request
<1>4. ServerInv' /\ Grown
  BY <1>1, ServerUnchanged
<1>5. PageInv'
  BY <1>1, <1>2, <1>4, PageRests
<1>6. CallsInv'
  <2>1. CallOK(c)'
    BY <1>3, <1>4, CallRests
  <2> QED
    BY <1>1, <1>3, <1>4, <2>1, CallsChange
<1>7. HereInv'
  BY <1>1, <1>2, <1>3, <1>13, HereSent
<1>8. DrawnInv'
  <2>1. \A d \in calls' : d.op = "submit" => d \in calls
    BY <1>3, <1>13
  <2> QED
    BY <1>1, <1>2, <2>1, DrawnRests DEF Exists
<1>9. RouteInv'
  BY <1>1, <1>2, <1>4, RouteRests
<1>10. Bounds'
  BY <1>1, <1>2, BoundsAssumption DEF Bounds
<1> QED
  BY <1>4, <1>5, <1>6, <1>7, <1>8, <1>9, <1>10 DEF IInv

(* The answers are sent.  What was not answered goes out again as it was; *)
(* new answers get an identifier nobody has.                              *)
LEMMA SubmitAnswersKeeps ==
  ASSUME IInv, page # None, page.scene \in {"SOLVING", "SUBMIT_ERROR"}, SubmitAnswers
  PROVE  IInv'
<1>1. /\ Bounds /\ ServerInv /\ PageInv /\ CallsInv /\ HereInv /\ DrawnInv /\ RouteInv
      /\ PageTyped /\ PageOwn /\ PageRequest
  BY DEF IInv, PageInv
<1>2. PICK r : r = RequestToSend
  OBVIOUS
<1>3. PICK c : c = Request("submit", r.id, r.answers)
  OBVIOUS
<1>4. /\ c.op = "submit" /\ c.mount = page.mount /\ c.route = at /\ c.k = r.id /\ c.arg = r.answers
      /\ c.phase = "sent" /\ DOMAIN c = CallFields
  BY <1>3 DEF Request, CallFields
<1>5. /\ ~Busy("submit") /\ r.id \in Keys /\ calls' = calls \cup {c}
      /\ drawn' = IF r.id \in Ids /\ r.id > drawn THEN r.id ELSE drawn
      /\ page' = [page EXCEPT !.request = r]
      /\ UNCHANGED <<paper, attempts, ended>> /\ UNCHANGED <<at, subject, restart, pendCache, fetching>>
      /\ acts' = acts /\ losses' = losses
  BY <1>2, <1>3 DEF SubmitAnswers, serverVars, routeVars
<1>6. /\ DOMAIN page' = PageFields /\ page'.mount = page.mount /\ page'.kind = page.kind
      /\ page'.resource = page.resource /\ page'.answers = page.answers
      /\ page'.request = r /\ page'.pending = page.pending /\ page'.scene = page.scene
      /\ page'.outcome = page.outcome /\ page'.target = page.target
  BY <1>1, <1>5 DEF PageTyped, PageFields
<1>7. /\ drawn \in Nat /\ drawn \in 0 .. Cardinality(Ids) /\ Ids \subseteq Nat /\ ReviewId \notin Ids
      /\ Cardinality(Ids) \in Nat /\ Ids = 1 .. Cardinality(Ids)
  BY <1>1, KeysAreApart, IdsAssumption, FS_CardinalityType DEF Bounds
(* Again what was sent before, or an identifier of its own. *)
<1>8. \/ page.request # None /\ r = page.request
      \/ page.request = None /\ r = [id |-> ReviewId, answers |-> page.answers] /\ page.kind = "REVIEW"
      \/ page.request = None /\ r = [id |-> drawn + 1, answers |-> page.answers] /\ page.kind = "QUIZ"
  BY <1>1, <1>2 DEF RequestToSend, PageTyped
<1>9. RequestOK(r) /\ (page.kind = "QUIZ") = (r.id \in Ids)
  <2>1. page.answers \in Of(Answer)
    BY <1>1 DEF PageTyped
  <2>2. CASE page.request # None /\ r = page.request
    BY <1>1, <2>2 DEF PageRequest
  <2>3. CASE r = [id |-> ReviewId, answers |-> page.answers] /\ page.kind = "REVIEW"
    BY <1>5, <1>7, <2>1, <2>3 DEF RequestOK
  <2>4. CASE r = [id |-> drawn + 1, answers |-> page.answers] /\ page.kind = "QUIZ"
    <3>1. DOMAIN r = {"id", "answers"} /\ r.id = drawn + 1 /\ r.answers = page.answers
      BY <2>4
    <3>2. r.id # ReviewId
      BY <1>7, <3>1, ValuesAssumption
    <3> QED
      BY <1>5, <2>1, <2>4, <3>1, <3>2 DEF RequestOK, Keys
  <2> QED
    BY <1>8, <2>2, <2>3, <2>4
<1>10. /\ r.id \in Ids => Says(r.id, r.answers)' /\ r.id <= drawn'
       /\ r.id \in Ids /\ drawn' # drawn => r.id = drawn + 1 /\ r.id = drawn'
       /\ drawn <= drawn' /\ drawn' \in 0 .. Cardinality(Ids)
  <2>1. CASE page.request # None /\ r = page.request
    <3>1. r.id \in Ids => Says(r.id, r.answers)
      BY <1>1, <2>1 DEF DrawnInv
    <3>2. drawn' = drawn
      BY <1>5, <1>7, <3>1 DEF Says
    <3> QED
      BY <1>5, <1>7, <3>1, <3>2 DEF Says, Exists
  <2>2. CASE r = [id |-> ReviewId, answers |-> page.answers]
    <3>1. r.id \notin Ids
      BY <1>7, <2>2
    <3> QED
      BY <1>5, <1>7, <3>1
  <2>3. CASE r = [id |-> drawn + 1, answers |-> page.answers] /\ page.kind = "QUIZ"
    <3>1. r.id = drawn + 1 /\ r.id \in Ids
      BY <1>9, <2>3
    <3>2. drawn' = drawn + 1 /\ r.id \in Nat
      BY <1>5, <1>7, <3>1
    <3>3. ~(r.id <= drawn)
      BY <1>7, <3>1
    <3>4. ~Exists(r.id)
      BY <1>1, <3>1, <3>3 DEF DrawnInv
    <3>5. drawn' \in 0 .. Cardinality(Ids)
      BY <1>7, <3>1, <3>2
    <3> QED
      BY <1>5, <1>7, <3>1, <3>2, <3>4, <3>5 DEF Says, Exists
  <2> QED
    BY <1>8, <2>1, <2>2, <2>3
<1>11. ServerInv' /\ Grown
  BY <1>1, <1>5, ServerUnchanged DEF serverVars
<1>12. PageInv'
  <2>1. PageTyped'
    BY <1>1, <1>5, <1>6 DEF PageTyped, Rows
  <2>2. PageOwn'
    BY <1>1, <1>5, <1>6 DEF PageOwn, Exists, Lists, IsCompleted
  <2>3. PageRequest'
    BY <1>6, <1>9 DEF PageRequest, RequestOK
  <2> QED
    BY <2>1, <2>2, <2>3 DEF PageInv
<1>13. CallsInv'
  <2>1. CallTyped(c)
    BY <1>1, <1>4, <1>5 DEF CallTyped, PageTyped, RouteInv
  <2>2. SubmitOK(c)
    BY <1>1, <1>4, <1>7, <1>9 DEF SubmitOK, RequestOK, PageOwn, PageTyped, RouteInv
  <2>3. CallOK(c)
    BY <1>4, <2>1, <2>2 DEF CallOK
  <2>4. CallOK(c)'
    BY <1>11, <2>3, CallRests
  <2> QED
    BY <1>1, <1>5, <1>11, <2>4, CallsChange
<1>14. HereInv'
  <2>1. HereOK(c)
    BY <1>4, <1>9 DEF HereOK
  <2> QED
    BY <1>1, <1>4, <1>5, <1>6, <2>1, HereSent
<1>15. DrawnInv'
  <2>1. \A k \in Ids : Exists(k)' => k <= drawn'
    <3>1. \A k \in Ids : Exists(k)' => k <= drawn
      BY <1>1, <1>5 DEF DrawnInv, Exists
    <3> QED
      BY <1>7, <1>10, <3>1
  <2>2. ASSUME NEW d \in calls, d.op = "submit", d.k \in Ids
        PROVE  Says(d.k, d.arg)' /\ (d.k = r.id => d.arg = r.answers)
    <3>1. Says(d.k, d.arg)
      BY <1>1, <2>2 DEF DrawnInv
    <3>2. Says(d.k, d.arg)'
      BY <1>5, <1>7, <1>10, <2>2, <3>1 DEF Says, Exists
    <3>3. d.k <= drawn /\ ~(drawn + 1 <= drawn)
      BY <1>7, <3>1 DEF Says
    <3>4. d.k = r.id => d.arg = r.answers
      BY <1>1, <1>7, <1>8, <2>2, <3>3 DEF DrawnInv
    <3> QED
      BY <3>2, <3>4
  <2>3. ASSUME NEW d \in calls', d.op = "submit", d.k \in Ids
        PROVE  Says(d.k, d.arg)' /\ (d.k = r.id => d.arg = r.answers)
    BY <1>4, <1>5, <1>10, <2>2, <2>3
  <2>4. ASSUME NEW d \in calls', d.op = "submit", d.k \in Ids, NEW e \in calls', e.op = "submit", e.k = d.k
        PROVE  e.arg = d.arg
    <3>1. CASE d.k = r.id
      BY <2>3, <2>4, <3>1
    <3>2. CASE d.k # r.id
      <4>1. d \in calls /\ e \in calls
        BY <1>4, <1>5, <2>4, <3>2
      <4> QED
        BY <1>1, <2>4, <4>1 DEF DrawnInv
    <3> QED
      BY <3>1, <3>2
  <2>5. r.id \in Ids => Says(r.id, r.answers)'
    BY <1>10
  <2> QED
    BY <1>6, <2>1, <2>3, <2>4, <2>5 DEF DrawnInv
<1>16. RouteInv'
  BY <1>1, <1>5, <1>6, <1>11, RouteRests
<1>17. Bounds'
  BY <1>1, <1>5, <1>10 DEF Bounds
<1> QED
  BY <1>11, <1>12, <1>13, <1>14, <1>15, <1>16, <1>17 DEF IInv

LEMMA SubmissionKeeps ==
  ASSUME IInv, RequestSubmit \/ SubmitSheet \/ SubmissionErrorScreen
  PROVE  IInv'
<1>1. CASE RequestSubmit
  <2>1. page # None /\ page.scene = "SOLVING" /\ (OpenSheet("SUBMIT") \/ SubmitAnswers)
    BY <1>1 DEF RequestSubmit, SolvingScreen, Showing
  <2> QED
    BY <2>1, SheetKeeps, SubmitAnswersKeeps
<1>2. CASE SubmitSheet
  <2>1. page # None /\ page.scene = "SOLVING" /\ (OpenSheet(None) \/ SubmitAnswers)
    BY <1>2 DEF SubmitSheet, Showing
  <2> QED
    BY <2>1, SheetKeeps, SubmitAnswersKeeps
<1>3. CASE SubmissionErrorScreen
  <2>1. page # None /\ page.scene = "SUBMIT_ERROR" /\ (Change([page EXCEPT !.scene = "SOLVING"]) \/ SubmitAnswers)
    BY <1>3 DEF SubmissionErrorScreen, Showing
  <2> QED
    BY <2>1, SceneKeeps, SubmitAnswersKeeps
<1> QED
  BY <1>1, <1>2, <1>3

LEMMA HeadAndRest ==
  ASSUME NEW qs \in Seq(Questions), qs # <<>>
  PROVE  /\ Head(qs) \in Questions /\ Tail(qs) \in Seq(Questions)
         /\ ToSet(qs) \subseteq ToSet(Tail(qs)) \cup {Head(qs)}
<1>1. /\ Head(qs) \in Questions /\ Tail(qs) \in Seq(Questions) /\ Head(qs) = qs[1]
      /\ Len(Tail(qs)) = Len(qs) - 1 /\ \A i \in 1 .. Len(Tail(qs)) : Tail(qs)[i] = qs[i + 1]
  BY HeadTailProperties
<1>2. PICK t \in Seq(Questions) : t = Tail(qs)
  BY <1>1
<1>3. DOMAIN qs = 1 .. Len(qs) /\ DOMAIN t = 1 .. Len(t) /\ Len(qs) \in Nat /\ Len(t) \in Nat
  BY LenProperties
<1>4. ASSUME NEW i \in 1 .. Len(qs)
      PROVE  qs[i] \in ToSet(t) \cup {Head(qs)}
  <2>1. CASE i = 1
    BY <1>1, <2>1
  <2>2. CASE i # 1
    <3>1. i - 1 \in 1 .. Len(t) /\ (i - 1) + 1 = i
      BY <1>1, <1>2, <1>3, <2>2
    <3>2. t[i - 1] = qs[i]
      BY <1>1, <1>2, <3>1
    <3> QED
      BY <1>3, <3>1, <3>2 DEF ToSet
  <2> QED
    BY <2>1, <2>2
<1> QED
  BY <1>1, <1>2, <1>3, <1>4 DEF ToSet

(* Where a page is, and the attempt it is about. *)
LEMMA PageIsSomewhere ==
  ASSUME IInv, page # None
  PROVE  /\ at \in {"set", "result", "review"} /\ page.mount \in Nat
         /\ at = "set" => page.kind = "QUIZ"
         /\ page.scene \in {"SELF_ASSESSMENT", "RESULT"} =>
              page.resource \in Keys /\ (page.kind = "QUIZ") = (page.resource \in Ids)
BY PageNow DEF IInv, RouteInv, PageOwn, PageTyped

LEMMA SaveEssayKeeps ==
  ASSUME IInv, SaveEssay
  PROVE  IInv'
<1>1. /\ page # None /\ page.scene = "SELF_ASSESSMENT" /\ page.pending # <<>> /\ page.outcome # None
      /\ ~Busy("essay")
  BY DEF SaveEssay, EssayAssessmentScreen, Showing
<1>2. PICK arg : arg = [q |-> Head(page.pending), o |-> page.outcome, left |-> Tail(page.pending)]
  OBVIOUS
<1>3. /\ calls' = calls \cup {Request("essay", page.resource, arg)} /\ Act
      /\ UNCHANGED <<serverVars, routeVars, page, drawn, losses>>
  BY <1>2 DEF SaveEssay
<1>4. PICK c : c = Request("essay", page.resource, arg)
  OBVIOUS
<1>5. /\ c.op = "essay" /\ c.mount = page.mount /\ c.route = at /\ c.k = page.resource /\ c.arg = arg
      /\ c.phase = "sent" /\ DOMAIN c = CallFields
  BY <1>4 DEF Request, CallFields
<1>6. HereOK(c)
  BY <1>1, <1>5 DEF HereOK
<1>7. Lists(page.resource, page.pending) /\ page.outcome \in Outcomes
  BY <1>1, PageNow DEF PageOwn, PageTyped
<1>8. /\ Head(page.pending) \in Questions /\ Tail(page.pending) \in Seq(Questions)
      /\ ToSet(page.pending) \subseteq ToSet(Tail(page.pending)) \cup {Head(page.pending)}
  BY <1>1, <1>7, HeadAndRest DEF Lists
<1>9. arg.q = Head(page.pending) /\ arg.o = page.outcome /\ arg.left = Tail(page.pending)
  BY <1>2
<1>10. CallTyped(c) /\ (c.route = "set" => c.k \in Ids)
  BY <1>1, <1>5, PageIsSomewhere DEF CallTyped
<1>11. EssayOK(c)
  BY <1>5, <1>7, <1>8, <1>9, <1>10 DEF EssayOK, Lists
<1>12. CallOK(c)
  BY <1>5, <1>10, <1>11 DEF CallOK
<1> QED
  BY <1>1, <1>3, <1>4, <1>6, <1>12, RequestKeeps

LEMMA SaveCorrectionKeeps ==
  ASSUME IInv, SaveCorrection
  PROVE  IInv'
<1>1. page # None /\ page.scene = "RESULT"
  BY DEF SaveCorrection, Showing
<1>2. PICK arg : arg = [q |-> page.item, o |-> page.target]
  OBVIOUS
<1>3. /\ calls' = calls \cup {Request("correct", page.resource, arg)} /\ Act
      /\ UNCHANGED <<serverVars, routeVars, page, drawn, losses>>
  BY <1>2 DEF SaveCorrection
<1>4. PICK c : c = Request("correct", page.resource, arg)
  OBVIOUS
<1>5. /\ c.op = "correct" /\ c.mount = page.mount /\ c.route = at /\ c.k = page.resource /\ c.arg = arg
      /\ c.phase = "sent" /\ DOMAIN c = CallFields
  BY <1>4 DEF Request, CallFields
<1>6. HereOK(c)
  BY <1>1, <1>5 DEF HereOK
<1>7. IsCompleted(page.resource) /\ page.target \in Outcomes
  BY <1>1, PageNow DEF PageOwn, PageTyped
<1>8. CallTyped(c)
  BY <1>1, <1>5, PageIsSomewhere DEF CallTyped
<1>9. CallOK(c)
  BY <1>2, <1>5, <1>7, <1>8 DEF CallOK, CorrectOK
<1> QED
  BY <1>1, <1>3, <1>4, <1>6, <1>9, RequestKeeps

LEMMA PressReviewKeeps ==
  ASSUME IInv, PressReview
  PROVE  IInv'
<1>1. page # None /\ page.scene = "RESULT"
  BY DEF PressReview, ResultScreen, Showing
<1>2. PICK k : k = SourceOf(page.resource)
  OBVIOUS
<1>3. /\ calls' = calls \cup {Request("review", k, None)} /\ Act
      /\ UNCHANGED <<serverVars, routeVars, page, drawn, losses>>
  BY <1>2 DEF PressReview
<1>4. PICK c : c = Request("review", k, None)
  OBVIOUS
<1>5. /\ c.op = "review" /\ c.mount = page.mount /\ c.route = at /\ c.k = k
      /\ c.phase = "sent" /\ DOMAIN c = CallFields
  BY <1>4 DEF Request, CallFields
<1>6. HereOK(c)
  BY <1>1, <1>5 DEF HereOK
<1>7. k \in Ids
  <2>1. page.resource \in Keys /\ Exists(page.resource) /\ ServerInv
    BY <1>1, PageNow DEF PageOwn, IsCompleted, IInv
  <2>2. page.resource = ReviewId => attempts[ReviewId].source \in Ids
    BY <2>1 DEF ServerInv, AttemptOK
  <2> QED
    BY <1>2, <2>1, <2>2 DEF SourceOf, Keys
<1>8. CallTyped(c)
  BY <1>1, <1>5, <1>7, PageIsSomewhere DEF CallTyped, Keys
<1>9. CallOK(c)
  BY <1>5, <1>7, <1>8 DEF CallOK
<1> QED
  BY <1>1, <1>3, <1>4, <1>6, <1>9, RequestKeeps

(***************************************************************************)
(* The routes.                                                             *)
(***************************************************************************)

(* A step that only shows something else. *)
LEMMA ViewKeeps ==
  ASSUME IInv, UNCHANGED <<paper, attempts, ended, calls, drawn>>,
         acts' \in {acts, acts + 1}, acts' # acts => acts < MaxActs,
         losses' \in {losses, losses + 1}, losses' # losses => losses < MaxLosses,
         \/ page' = None
         \/ page' = page
         \/ PageInv' /\ HereInv' /\ page'.request = None,
         RouteInv'
  PROVE  IInv'
<1>1. /\ Bounds /\ ServerInv /\ PageInv /\ CallsInv /\ HereInv /\ DrawnInv /\ RouteInv
  BY DEF IInv
<1>2. ServerInv' /\ Grown
  BY <1>1, ServerUnchanged DEF serverVars
<1>3. PageInv' /\ HereInv'
  <2>1. CASE page' = None
    BY <2>1, NoPage
  <2>2. CASE page' = page
    BY <1>1, <1>2, <2>2, PageRests, HereRests
  <2> QED
    BY <2>1, <2>2
<1>4. CallsInv'
  BY <1>1, <1>2, CallsShrink
<1>5. DrawnInv'
  BY <1>1, DrawnRests DEF Exists
<1>6. Bounds'
  BY <1>1, BoundsAssumption DEF Bounds
<1> QED
  BY <1>2, <1>3, <1>4, <1>5, <1>6 DEF IInv

(* A new page, shown of what the server holds. *)
LEMMA Shown ==
  ASSUME IInv, UNCHANGED <<paper, attempts, ended, calls>>,
         NEW kind \in {"QUIZ", "REVIEW"}, kind = "REVIEW" => Exists(ReviewId),
         NEW scene \in {"READY", "SOLVING", "SELF_ASSESSMENT", "RESULT"}, NEW k, NEW qs,
         scene \in {"SELF_ASSESSMENT", "RESULT"} => k \in Keys /\ (kind = "QUIZ") = (k \in Ids),
         scene = "SELF_ASSESSMENT" => Lists(k, qs),
         scene = "RESULT" => IsCompleted(k),
         page' = NewPage(kind, scene, k, qs)
  PROVE  PageInv' /\ HereInv' /\ page'.request = None /\ page'.kind = kind
<1>1. ServerInv /\ PageInv /\ CallsInv
  BY DEF IInv
<1>2. Grown
  BY <1>1, ServerUnchanged DEF serverVars
<1>3. \A c \in calls' : \E d \in calls : d.mount = c.mount
  OBVIOUS
<1> QED
  BY <1>1, <1>2, <1>3, Mounted

LEMMA EntryShown ==
  ASSUME IInv, UNCHANGED <<paper, attempts, ended, calls>>, NEW pend,
         pend # None => pend.id \in Ids /\ Lists(pend.id, pend.ids),
         page' = EntryPage(pend)
  PROVE  PageInv' /\ HereInv' /\ page'.request = None /\ page'.kind = "QUIZ"
<1>1. CASE pend = None
  <2>1. page' = NewPage("QUIZ", "READY", None, <<>>)
    BY <1>1 DEF EntryPage
  <2> QED
    BY <2>1, Shown
<1>2. CASE pend # None
  <2>1. page' = NewPage("QUIZ", "SELF_ASSESSMENT", pend.id, pend.ids)
    BY <1>2 DEF EntryPage
  <2> QED
    BY <1>2, <2>1, Shown DEF Keys
<1> QED
  BY <1>1, <1>2

(* What the routes say of a step that leaves the server alone. *)
LEMMA RouteNow ==
  ASSUME IInv, UNCHANGED <<paper, attempts, ended>>,
         at' \in {"away", "set", "result", "review", "entry"},
         at' \in {"away", "entry"} => page' = None,
         at' = "review" => Exists(ReviewId),
         at' = "result" => subject' \in Ids /\ IsCompleted(subject'),
         page' # None => (page'.kind = "REVIEW") = (at' = "review"),
         pendCache' = pendCache
           \/ (pendCache' # None => pendCache'.id \in Ids /\ Lists(pendCache'.id, pendCache'.ids))
  PROVE  RouteInv'
BY DEF IInv, RouteInv, Exists, IsCompleted, Lists

LEMMA OpenQuizKeeps ==
  ASSUME IInv, NEW anew, OpenQuiz(anew)
  PROVE  IInv'
<1>1. /\ UNCHANGED <<paper, attempts, ended, calls, drawn>> /\ losses' = losses /\ acts' = acts + 1 /\ acts < MaxActs
      /\ at = "away" /\ at' = "set" /\ pendCache' = pendCache
      /\ \/ page' = NewPage("QUIZ", "SOLVING", None, <<>>)
         \/ page' = None
         \/ pendCache # Unknown /\ page' = EntryPage(pendCache)
  BY DEF OpenQuiz, Act, EnterSet, Mount, Unmount, serverVars, netVars
<1>2. page' = None \/ (PageInv' /\ HereInv' /\ page'.request = None /\ page'.kind = "QUIZ")
  <2>1. CASE page' = NewPage("QUIZ", "SOLVING", None, <<>>)
    BY <1>1, <2>1, Shown
  <2>2. CASE pendCache # Unknown /\ page' = EntryPage(pendCache)
    BY <1>1, <2>2, EntryShown DEF IInv, RouteInv
  <2> QED
    BY <1>1, <2>1, <2>2
<1>3. RouteInv'
  BY <1>1, <1>2, RouteNow
<1> QED
  BY <1>1, <1>2, <1>3, ViewKeeps

LEMMA AskAgainKeeps ==
  ASSUME IInv, Refocus \/ FetchAgain
  PROVE  IInv'
<1>1. /\ UNCHANGED <<paper, attempts, ended, calls, drawn>> /\ losses' = losses
      /\ acts' \in {acts, acts + 1} /\ (acts' # acts => acts < MaxActs)
      /\ at' = at /\ subject' = subject /\ pendCache' = pendCache /\ page' = page
  BY DEF Refocus, FetchAgain, Act, serverVars, netVars
<1>2. RouteInv'
  BY <1>1, RouteNow DEF IInv, RouteInv
<1> QED
  BY <1>1, <1>2, ViewKeeps

(* Every way to a route starts with nothing shown. *)
LEMMA GoKeeps ==
  ASSUME IInv, NEW route \in {"away", "result", "review"}, NEW k, Go(route, k),
         UNCHANGED <<paper, attempts, ended, calls, drawn>>, pendCache' = pendCache,
         acts' \in {acts, acts + 1}, acts' # acts => acts < MaxActs, losses' = losses,
         route = "review" => Exists(ReviewId),
         route = "result" => k \in Ids /\ IsCompleted(k)
  PROVE  IInv'
<1>1. at' = route /\ subject' = k /\ page' = None
  BY DEF Go, Unmount
<1>2. RouteInv'
  BY <1>1, RouteNow
<1> QED
  BY <1>1, <1>2, ViewKeeps

LEMMA WaysKeep ==
  ASSUME IInv, Leave \/ ResumeReview
  PROVE  IInv'
<1>1. CASE Leave
  <2>1. /\ Go("away", None) /\ UNCHANGED <<paper, attempts, ended, calls, drawn>> /\ pendCache' = pendCache
        /\ acts' = acts /\ losses' = losses
    BY <1>1 DEF Leave, serverVars, netVars
  <2> QED
    BY <2>1, GoKeeps
<1>2. CASE ResumeReview
  <2>1. /\ Go("review", None) /\ UNCHANGED <<paper, attempts, ended, calls, drawn>> /\ pendCache' = pendCache
        /\ acts' = acts + 1 /\ acts < MaxActs /\ losses' = losses /\ Exists(ReviewId)
    BY <1>2 DEF ResumeReview, serverVars, netVars, Act
  <2> QED
    BY <2>1, GoKeeps
<1> QED
  BY <1>1, <1>2

LEMMA EnterReviewKeeps ==
  ASSUME IInv, EnterReview
  PROVE  IInv'
<1>1. /\ UNCHANGED <<paper, attempts, ended, calls, drawn>> /\ losses' = losses
      /\ acts' = acts + 1 /\ acts < MaxActs
      /\ at = "away" /\ at' = "entry" /\ subject' = subject /\ pendCache' = pendCache /\ page' = page
  BY DEF EnterReview, Act, serverVars, netVars
<1>2. page' = None
  BY <1>1 DEF IInv, RouteInv
<1>3. RouteInv'
  BY <1>1, <1>2, RouteNow
<1> QED
  BY <1>1, <1>3, ViewKeeps

LEMMA FetchFailsKeeps ==
  ASSUME IInv, FetchFails
  PROVE  IInv'
<1>1. /\ UNCHANGED <<paper, attempts, ended, calls, drawn>> /\ losses' = losses + 1 /\ losses < MaxLosses
      /\ acts' = acts
      /\ at' = at /\ subject' = subject /\ pendCache' = pendCache /\ page' = None
  BY DEF FetchFails, serverVars, Unmount
<1>2. RouteInv'
  BY <1>1, RouteNow DEF IInv, RouteInv
<1> QED
  BY <1>1, <1>2, ViewKeeps

(* Every essay that waits is among those the server lists. *)
LEMMA PendingListed ==
  ASSUME ServerInv, NEW k \in Keys, Exists(k)
  PROVE  Lists(k, Pending(k)) /\ ToSet(Pending(k)) = Unassessed(attempts[k])
<1>1. attempts[k].rows \in Seq(Questions)
  BY DEF ServerInv, Exists, Attempt
<1>2. /\ Pending(k) \in Seq(Questions)
      /\ ToSet(Pending(k)) = ToSet(attempts[k].rows) \cap Unassessed(attempts[k])
  BY <1>1, InOrderTaken DEF Pending
<1>3. Unassessed(attempts[k]) \subseteq ToSet(attempts[k].rows)
  BY DEF Unassessed
<1> QED
  BY <1>2, <1>3 DEF Lists

LEMMA PendingFetchedKeeps ==
  ASSUME IInv, PendingFetched
  PROVE  IInv'
<1>1. PICK pend \in PendingAnswers :
        /\ pendCache' = pend /\ (page' = page \/ page' = EntryPage(pend))
        /\ UNCHANGED <<paper, attempts, ended, calls, drawn>> /\ losses' = losses /\ acts' = acts
        /\ at = "set" /\ at' = at /\ subject' = subject
  BY DEF PendingFetched, Mount, serverVars, netVars
<1>2. pend # None => pend.id \in Ids /\ Lists(pend.id, pend.ids)
  <2>1. pend # None => \E k \in Ids : Exists(k) /\ pend = [id |-> k, ids |-> Pending(k)]
    BY DEF PendingAnswers
  <2> QED
    BY <2>1, PendingListed DEF IInv, Keys
<1>3. page' = page \/ (PageInv' /\ HereInv' /\ page'.request = None /\ page'.kind = "QUIZ")
  BY <1>1, <1>2, EntryShown
<1>4. RouteInv'
  BY <1>1, <1>2, <1>3, RouteNow DEF IInv, RouteInv
<1> QED
  BY <1>1, <1>3, <1>4, ViewKeeps

LEMMA ResultFetchedKeeps ==
  ASSUME IInv, ResultFetched
  PROVE  IInv'
<1>1. /\ page' = NewPage("QUIZ", "RESULT", subject, <<>>)
      /\ UNCHANGED <<paper, attempts, ended, calls, drawn>> /\ losses' = losses /\ acts' = acts
      /\ at = "result" /\ at' = at /\ subject' = subject /\ pendCache' = pendCache
  BY DEF ResultFetched, Mount, serverVars, netVars
<1>2. subject \in Ids /\ subject \in Keys /\ IsCompleted(subject)
  BY <1>1 DEF IInv, RouteInv, Keys
<1>3. PageInv' /\ HereInv' /\ page'.request = None /\ page'.kind = "QUIZ"
  BY <1>1, <1>2, Shown
<1>4. RouteInv'
  BY <1>1, <1>2, <1>3, RouteNow
<1> QED
  BY <1>1, <1>3, <1>4, ViewKeeps

LEMMA ReviewFetchedKeeps ==
  ASSUME IInv, ReviewFetched
  PROVE  IInv'
<1>1. /\ UNCHANGED <<paper, attempts, ended, calls, drawn>> /\ losses' = losses /\ acts' = acts
      /\ at = "review" /\ at' = at /\ subject' = subject /\ pendCache' = pendCache
  BY DEF ReviewFetched, serverVars, netVars
<1>2. /\ Exists(ReviewId) /\ ReviewId \in Keys /\ ReviewId \notin Ids
      /\ attempts[ReviewId].status \in {"SOLVING", Waiting, "COMPLETED"}
  BY <1>1, KeysAreApart DEF IInv, RouteInv, Keys, ServerInv, Exists, Attempt
<1>3. Lists(ReviewId, Pending(ReviewId))
  BY <1>2, PendingListed DEF IInv
<1>4. PageInv' /\ HereInv' /\ page'.request = None /\ page'.kind = "REVIEW"
  <2>1. CASE attempts[ReviewId].status = "SOLVING"
    <3>1. page' = NewPage("REVIEW", "SOLVING", None, <<>>)
      BY <2>1 DEF ReviewFetched, Mount
    <3> QED
      BY <1>1, <1>2, <3>1, Shown
  <2>2. CASE attempts[ReviewId].status = Waiting
    <3>1. page' = NewPage("REVIEW", "SELF_ASSESSMENT", ReviewId, Pending(ReviewId))
      BY <2>2 DEF ReviewFetched, Mount, Waiting
    <3> QED
      BY <1>1, <1>2, <1>3, <3>1, Shown
  <2>3. CASE attempts[ReviewId].status = "COMPLETED"
    <3>1. page' = NewPage("REVIEW", "RESULT", ReviewId, Pending(ReviewId)) /\ IsCompleted(ReviewId)
      BY <1>2, <2>3 DEF ReviewFetched, Mount, Waiting, IsCompleted
    <3> QED
      BY <1>1, <1>2, <3>1, Shown
  <2> QED
    BY <1>2, <2>1, <2>2, <2>3
<1>5. RouteInv'
  BY <1>1, <1>2, <1>4, RouteNow
<1> QED
  BY <1>1, <1>4, <1>5, ViewKeeps

LEMMA LatestFetchedKeeps ==
  ASSUME IInv, LatestFetched
  PROVE  IInv'
<1> DEFINE reviewable == {k \in ToSet(ended) : ReviewAvailable(k)}
           Start(k) == [op |-> "review", mount |-> Fresh, route |-> at, k |-> k, arg |-> None,
                        phase |-> "sent", got |-> None]
<1>1. /\ Bounds /\ ServerInv /\ PageInv /\ CallsInv /\ HereInv /\ DrawnInv /\ RouteInv
  BY DEF IInv
<1>2. /\ UNCHANGED <<paper, attempts, ended, drawn>> /\ losses' = losses /\ acts' = acts /\ at = "entry"
      /\ pendCache' = pendCache
      /\ \/ (\E k \in reviewable : ActiveReview(k)) /\ Go("review", None) /\ calls' = calls
         \/ /\ calls' = calls \cup {Start(k) : k \in reviewable}
            /\ UNCHANGED <<at, subject, restart, page>>
  BY DEF LatestFetched, serverVars
<1> HIDE DEF reviewable, Start
<1>3. CASE (\E k \in reviewable : ActiveReview(k)) /\ Go("review", None) /\ calls' = calls
  <2>1. Exists(ReviewId)
    BY <1>3 DEF ActiveReview
  <2> QED
    BY <1>2, <1>3, <2>1, GoKeeps
<1>4. CASE calls' = calls \cup {Start(k) : k \in reviewable} /\ UNCHANGED <<at, subject, restart, page>>
  <2>1. page' = None
    BY <1>1, <1>2, <1>4 DEF RouteInv
  <2>2. RouteInv'
    BY <1>2, <1>4, <2>1, RouteNow
  <2>3. CASE reviewable = {}
    <3>1. calls' = calls
      BY <1>4, <2>3
    <3> QED
      BY <1>2, <2>1, <2>2, <3>1, ViewKeeps
  <2>4. CASE reviewable # {}
    <3>1. PICK k \in reviewable : TRUE
      BY <2>4
    <3>2. k \in Ids /\ IsLatest(k) /\ reviewable = {k}
      <4>1. ToSet(ended) \subseteq Ids
        BY <1>1, EndedAreIds DEF ServerInv
      <4>2. \A j \in reviewable : j \in Ids /\ IsLatest(j)
        BY <4>1 DEF reviewable, ReviewAvailable
      <4>3. \A j \in reviewable : j = k
        BY <3>1, <4>2 DEF IsLatest
      <4> QED
        BY <3>1, <4>2, <4>3
    <3>3. PICK c : c = Start(k)
      OBVIOUS
    <3>4. calls' = calls \cup {c}
      BY <1>4, <3>2, <3>3
    <3>5. c.op = "review" /\ c.mount = Fresh /\ c.route = "entry" /\ c.k = k /\ c.phase = "sent" /\ DOMAIN c = CallFields
      BY <1>2, <3>3 DEF Start, CallFields
    <3>6. Fresh \in Nat
      <4>1. IsFiniteSet(calls) /\ (\A d \in calls : d.mount \in Nat) /\ (page # None => page.mount \in Nat)
        BY <1>1 DEF CallsInv, CallOK, CallTyped, PageInv, PageTyped
      <4> QED
        BY <4>1, FreshIsNew
    <3>7. CallOK(c)
      BY <3>2, <3>5, <3>6 DEF CallOK, CallTyped, Keys
    <3>8. ServerInv' /\ Grown
      BY <1>1, <1>2, ServerUnchanged DEF serverVars
    <3>9. CallsInv'
      <4>1. CallOK(c)'
        BY <3>7, <3>8, CallRests
      <4> QED
        BY <1>1, <3>4, <3>8, <4>1, CallsChange
    <3>10. PageInv' /\ HereInv'
      BY <2>1, NoPage
    <3>11. DrawnInv'
      <4>1. \A d \in calls' : d.op = "submit" => d \in calls
        BY <3>4, <3>5
      <4> QED
        BY <1>1, <1>2, <2>1, <4>1, DrawnRests DEF Exists
    <3>12. Bounds'
      BY <1>1, <1>2 DEF Bounds
    <3> QED
      BY <2>2, <3>8, <3>9, <3>10, <3>11, <3>12 DEF IInv
  <2> QED
    BY <2>3, <2>4
<1> QED
  BY <1>2, <1>3, <1>4

(***************************************************************************)
(* Answers.                                                                *)
(***************************************************************************)

(* A new attempt has the answers of a submission. *)
FromCalls ==
  \A k \in Ids : attempts'[k] # None =>
    \/ Exists(k) /\ attempts'[k].answers = attempts[k].answers
    \/ ~Exists(k) /\ \E d \in calls : d.op = "submit" /\ d.k = k /\ d.arg = attempts'[k].answers

LEMMA NoneNew ==
  ASSUME Grown, NEW k, NoneNewBut(k), k \in Ids => Exists(k)
  PROVE  FromCalls
BY DEF Grown, NoneNewBut, FromCalls, Exists, Keys

LEMMA SubmitServed ==
  ASSUME IInv, NEW c \in calls, c.op = "submit", Submit(c.k, c.arg), paper' = paper
  PROVE  /\ ServerInv' /\ Grown /\ FromCalls
         /\ attempts'[c.k] # None /\ attempts'[c.k].status \in {Waiting, "COMPLETED"}
<1>1. ServerInv /\ c.k \in Keys /\ c.arg \in Of(Answer) /\ (c.k = ReviewId => Exists(ReviewId))
  BY DEF IInv, CallsInv, CallOK, CallTyped, SubmitOK
<1>2. /\ ServerInv' /\ Grown /\ NoneNewBut(c.k)
      /\ attempts'[c.k] # None /\ attempts'[c.k].status \in {Waiting, "COMPLETED"}
      /\ c.k \in Ids /\ ~Exists(c.k) => attempts'[c.k].answers = c.arg
  <2>1. PICK k, answers : k = c.k /\ answers = c.arg
    OBVIOUS
  <2>2. k \in Keys /\ answers \in Of(Answer) /\ (k = ReviewId => Exists(k)) /\ Submit(k, answers)
    BY <1>1, <2>1
  <2> QED
    BY <1>1, <2>1, <2>2, SubmitKeeps
<1>3. FromCalls
  BY <1>2 DEF Grown, NoneNewBut, FromCalls, Exists, Keys
<1> QED
  BY <1>2, <1>3

LEMMA AssessServed ==
  ASSUME IInv, NEW c \in calls, c.op = "essay", c.phase = "sent", paper' = paper,
         AssessAllowed(c.k, c.arg.q, c.arg.o), Assess(c.k, c.arg.q, c.arg.o)
  PROVE  /\ ServerInv' /\ Grown /\ FromCalls
         /\ attempts'[c.k] # None /\ Unassessed(attempts'[c.k]) \subseteq ToSet(c.arg.left)
<1>1. /\ ServerInv /\ c.k \in Keys /\ Exists(c.k) /\ c.arg.q \in Questions /\ c.arg.o \in Outcomes
      /\ Unassessed(attempts[c.k]) \subseteq ToSet(c.arg.left) \cup {c.arg.q}
  BY DEF IInv, CallsInv, CallOK, CallTyped, EssayOK
<1>2. /\ ServerInv' /\ Grown /\ NoneNewBut(c.k) /\ attempts'[c.k] # None
      /\ Unassessed(attempts'[c.k]) \subseteq Unassessed(attempts[c.k]) \ {c.arg.q}
  <2>1. PICK k, q, o : k = c.k /\ q = c.arg.q /\ o = c.arg.o
    OBVIOUS
  <2>2. k \in Keys /\ Exists(k) /\ q \in Questions /\ o \in Outcomes /\ AssessAllowed(k, q, o) /\ Assess(k, q, o)
    BY <1>1, <2>1
  <2> QED
    BY <1>1, <2>1, <2>2, AssessKeeps
<1>3. FromCalls
  BY <1>1, <1>2, NoneNew
<1> QED
  BY <1>1, <1>2, <1>3

LEMMA OverrideServed ==
  ASSUME IInv, NEW c \in calls, c.op = "correct", Override(c.k, c.arg.q, c.arg.o), paper' = paper
  PROVE  ServerInv' /\ Grown /\ FromCalls
<1>1. ServerInv /\ c.k \in Keys /\ IsCompleted(c.k) /\ c.arg.o \in Outcomes
  BY DEF IInv, CallsInv, CallOK, CallTyped, CorrectOK
<1>2. ServerInv' /\ Grown /\ NoneNewBut(c.k)
  <2>1. PICK k, q, o : k = c.k /\ q = c.arg.q /\ o = c.arg.o
    OBVIOUS
  <2>2. k \in Keys /\ IsCompleted(k) /\ o \in Outcomes /\ Override(k, q, o)
    BY <1>1, <2>1
  <2> QED
    BY <1>1, <2>1, <2>2, OverrideKeeps
<1> QED
  BY <1>1, <1>2, NoneNew DEF IsCompleted

LEMMA ReviewServed ==
  ASSUME IInv, NEW c \in calls, c.op = "review", ReviewAllowed(c.k), StartReview(c.k),
         ended' = ended, paper' = paper
  PROVE  ServerInv' /\ Grown /\ FromCalls /\ attempts'[ReviewId] # None
<1>1. ServerInv /\ c.k \in Ids
  BY DEF IInv, CallsInv, CallOK
<1>2. ServerInv' /\ Grown /\ NoneNewBut(ReviewId) /\ attempts'[ReviewId] # None
  <2>1. PICK k : k = c.k
    OBVIOUS
  <2>2. k \in Ids /\ ReviewAllowed(k) /\ StartReview(k)
    BY <1>1, <2>1
  <2> QED
    BY <1>1, <2>2, StartReviewKeeps
<1> QED
  BY <1>2, KeysAreApart, NoneNew

(* Who has sent its answers or its assessment waits for nothing else. *)
LEMMA AloneHere ==
  ASSUME HereInv, NEW c \in calls, Here(c), c.op \in {"submit", "essay"}, CallsInv
  PROVE  \A d \in calls : Here(d) => d = c
<1>1. \A d \in calls : d.op \in {"submit", "essay", "correct", "review"}
  BY DEF CallsInv, CallOK, CallTyped
<1> QED
  BY <1>1 DEF HereInv, HereOK

LEMMA HereLeft ==
  ASSUME HereInv, CallsInv, NEW c \in calls, Here(c), c.op \in {"submit", "essay"},
         calls' \subseteq calls \ {c}, page'.mount = page.mount
  PROVE  HereInv'
<1>1. \A d \in calls' : ~Here(d)'
  BY AloneHere DEF Here
<1> QED
  BY <1>1 DEF HereInv

(* A call whose answer has come waits for what it leads to. *)
LEMMA HereReplaced ==
  ASSUME HereInv, CallsInv, NEW c \in calls, c.op \in {"submit", "essay"}, NEW d, d.mount = c.mount, d.op = c.op,
         calls' \subseteq (calls \ {c}) \cup {d},
         page' # None => page # None /\ page'.mount = page.mount,
         Here(c) /\ page' # None => HereOK(d)',
         ~Here(c) /\ page' # None => page' = page
  PROVE  HereInv'
<1> SUFFICES ASSUME page' # None
             PROVE  HereInv'
  BY DEF HereInv, Here
<1>1. (\A e : Here(e)' => Here(e)) /\ (Here(d) => Here(c))
  BY DEF Here
<1>2. CASE Here(c)
  <2>1. \A e \in calls' : Here(e)' => e = d
    BY <1>1, <1>2, AloneHere
  <2> QED
    BY <1>2, <2>1 DEF HereInv
<1>3. CASE ~Here(c)
  <2>1. \A e \in calls' : Here(e)' => e \in calls /\ Here(e)
    BY <1>1, <1>3
  <2>2. page' = page
    BY <1>3
  <2> QED
    BY <2>1, <2>2 DEF HereInv, HereOK
<1> QED
  BY <1>2, <1>3

(* What is left of a step that settles a call. *)
LEMMA SettledKeeps ==
  ASSUME IInv, ServerInv', Grown, FromCalls, drawn' = drawn, acts' = acts,
         losses' \in {losses, losses + 1}, losses' # losses => losses < MaxLosses,
         \A d \in calls' : d.op = "submit" =>
           \E e \in calls : e.op = "submit" /\ e.k = d.k /\ e.arg = d.arg,
         page' # None => page'.request = None \/ (page # None /\ page'.request = page.request),
         PageInv', CallsInv', HereInv', RouteInv'
  PROVE  IInv'
<1>1. Bounds /\ DrawnInv
  BY DEF IInv
<1>2. DrawnInv'
  BY <1>1, DrawnRests DEF FromCalls
<1>3. Bounds'
  BY <1>1, BoundsAssumption DEF Bounds
<1> QED
  BY <1>2, <1>3 DEF IInv

(* A page that is about the same, on a server that has taken nothing back. *)
LEMMA PageTouched ==
  ASSUME PageInv, page # None, Grown, paper' = paper,
         DOMAIN page' = PageFields, page'.mount = page.mount, page'.kind = page.kind,
         page'.answers = page.answers, page'.request = page.request, page'.pending = page.pending,
         \/ page'.scene = page.scene /\ page'.resource = page.resource
         \/ page'.scene \in {"SOLVING", "SUBMIT_ERROR"},
         page'.outcome \in Outcomes \cup {None}, page'.target \in Outcomes
  PROVE  PageInv'
<1>1. PageTyped /\ PageOwn /\ PageRequest
  BY DEF PageInv
<1>2. page.kind = "REVIEW" => attempts'[ReviewId] # None /\ attempts'[ReviewId].rows = attempts[ReviewId].rows
  BY <1>1 DEF PageOwn, Grown, AttemptKept, Keys
<1>3. PageTyped'
  BY <1>1, <1>2 DEF PageTyped, Rows
<1>4. PageOwn'
  BY <1>1, <1>2, FactsKept DEF PageOwn, Exists
<1>5. PageRequest'
  BY <1>1 DEF PageRequest, RequestOK
<1> QED
  BY <1>3, <1>4, <1>5 DEF PageInv

LEMMA CallNow ==
  ASSUME IInv, NEW c \in calls
  PROVE  CallOK(c) /\ CallTyped(c) /\ (Here(c) => HereOK(c))
BY DEF IInv, CallsInv, CallOK, HereInv

LEMMA InvNow ==
  ASSUME IInv
  PROVE  /\ Bounds /\ ServerInv /\ PageInv /\ CallsInv /\ HereInv /\ DrawnInv /\ RouteInv
         /\ page # None => PageTyped /\ PageOwn /\ PageRequest
BY DEF IInv, PageInv

LEMMA SubmitAnsweredKeeps ==
  ASSUME IInv, NEW c \in calls, SubmitAnswered(c)
  PROVE  IInv'
<1>1. /\ Bounds /\ ServerInv /\ PageInv /\ CallsInv /\ HereInv /\ DrawnInv /\ RouteInv
      /\ page # None => PageTyped /\ PageOwn /\ PageRequest
  BY InvNow
<1>2. CallOK(c) /\ CallTyped(c) /\ (Here(c) => HereOK(c))
  BY CallNow
<1>3. PICK ids : ids = InOrder(attempts'[c.k].rows, Unassessed(attempts'[c.k]))
  OBVIOUS
<1>4. PICK d : d = [c EXCEPT !.phase = "load", !.got = [status |-> attempts'[c.k].status, ids |-> ids]]
  OBVIOUS
<1>5. /\ c.op = "submit" /\ c.phase = "sent" /\ Submit(c.k, c.arg) /\ calls' = (calls \ {c}) \cup {d}
      /\ paper' = paper /\ at' = at /\ subject' = subject /\ pendCache' = pendCache /\ drawn' = drawn
      /\ acts' = acts /\ losses' = losses
      /\ \/ Here(c) /\ page' = [page EXCEPT !.sheet = None, !.resource = c.k]
         \/ page' = page /\ ~Here(c)
         \/ at = "set" /\ Here(c) /\ page' = None
         \/ at = "set" /\ Here(c) /\ pendCache # Unknown /\ page' = EntryPage(pendCache)
  BY <1>3, <1>4 DEF SubmitAnswered, Unmount, Mount
<1>6. /\ ServerInv' /\ Grown /\ FromCalls
      /\ attempts'[c.k] # None /\ attempts'[c.k].status \in {Waiting, "COMPLETED"}
  BY <1>5, SubmitServed
<1>7. /\ DOMAIN d = CallFields /\ d.op = "submit" /\ d.mount = c.mount /\ d.route = c.route /\ d.k = c.k
      /\ d.arg = c.arg /\ d.phase = "load"
      /\ d.got.status = attempts'[c.k].status /\ d.got.ids = ids
  BY <1>2, <1>4, <1>5 DEF CallTyped, CallFields
<1>8. CallOK(d)'
  <2>1. CallTyped(d)'
    BY <1>2, <1>7 DEF CallTyped
  <2>2. ids \in Seq(Questions) /\ Unassessed(attempts'[c.k]) \subseteq ToSet(ids)
    <3>1. attempts'[c.k].rows \in Seq(Questions)
      BY <1>2, <1>6 DEF ServerInv, CallTyped, Attempt
    <3>2. ids \in Seq(Questions) /\ ToSet(ids) = ToSet(attempts'[c.k].rows) \cap Unassessed(attempts'[c.k])
      BY <1>3, <3>1, InOrderTaken
    <3> QED
      BY <3>2 DEF Unassessed
  <2>3. Lists(d.k, d.got.ids)'
    BY <1>2, <1>6, <1>7, <2>2 DEF Lists, Exists, CallTyped
  <2>4. d.got.status = "COMPLETED" => IsCompleted(d.k)'
    BY <1>2, <1>6, <1>7 DEF IsCompleted, Exists, CallTyped
  <2>5. d.k = ReviewId => Exists(ReviewId)'
    BY <1>6, <1>7 DEF Exists
  <2>6. SubmitOK(d)'
    BY <1>2, <1>5, <1>6, <1>7, <2>3, <2>4, <2>5 DEF CallOK, SubmitOK
  <2> QED
    BY <1>7, <2>1, <2>6 DEF CallOK
<1>9. CallsInv'
  <2>1. calls \ {c} \in SUBSET calls
    OBVIOUS
  <2> QED
    BY <1>1, <1>5, <1>6, <1>8, <2>1, CallsChange
<1>10. CASE Here(c) /\ page' = [page EXCEPT !.sheet = None, !.resource = c.k]
  <2>1. page # None /\ page.scene \in {"SOLVING", "SUBMIT_ERROR"} /\ (page.kind = "QUIZ") = (c.k \in Ids)
    BY <1>2, <1>5, <1>10 DEF Here, HereOK
  <2>2. /\ DOMAIN page' = PageFields /\ page'.mount = page.mount /\ page'.kind = page.kind
        /\ page'.resource = c.k /\ page'.answers = page.answers
        /\ page'.request = page.request /\ page'.pending = page.pending /\ page'.scene = page.scene
        /\ page'.outcome = page.outcome /\ page'.target = page.target
    BY <1>1, <1>10, <2>1 DEF PageTyped, PageFields
  <2>3. PageInv'
    <3>1. page.outcome \in Outcomes \cup {None} /\ page.target \in Outcomes
      BY <1>1, <2>1 DEF PageTyped
    <3> QED
      BY <1>1, <1>5, <1>6, <2>1, <2>2, <3>1, PageTouched
  <2>4. HereInv'
    <3>1. HereOK(d)'
      BY <1>7, <2>1, <2>2 DEF HereOK
    <3> QED
      BY <1>1, <1>5, <1>7, <1>10, <2>1, <2>2, <3>1, HereReplaced
  <2>5. RouteInv'
    BY <1>1, <1>5, <1>6, <2>1, <2>2, RouteRests
  <2> QED
    BY <1>5, <1>6, <1>7, <1>9, <2>1, <2>2, <2>3, <2>4, <2>5, SettledKeeps
<1>11. CASE page' = page /\ ~Here(c)
  <2>1. PageInv'
    BY <1>1, <1>5, <1>6, <1>11, PageRests
  <2>2. HereInv'
    BY <1>1, <1>5, <1>7, <1>11, HereReplaced
  <2>3. RouteInv'
    BY <1>1, <1>5, <1>6, <1>11, RouteRests
  <2> QED
    BY <1>5, <1>6, <1>7, <1>9, <1>11, <2>1, <2>2, <2>3, SettledKeeps
<1>12. CASE page' = None
  <2>1. PageInv' /\ HereInv'
    BY <1>12, NoPage
  <2>2. RouteInv'
    BY <1>1, <1>5, <1>6, <1>12, RouteRests
  <2> QED
    BY <1>5, <1>6, <1>7, <1>9, <1>12, <2>1, <2>2, SettledKeeps
<1>13. CASE at = "set" /\ Here(c) /\ pendCache # Unknown /\ page' = EntryPage(pendCache)
  <2>1. \A e \in calls' : \E b \in calls : b.mount = e.mount
    BY <1>5, <1>7
  <2>2. PageInv' /\ HereInv' /\ page'.request = None /\ page'.kind = "QUIZ"
    <3>1. CASE pendCache = None
      <4>1. page' = NewPage("QUIZ", "READY", None, <<>>)
        BY <1>13, <3>1 DEF EntryPage
      <4> QED
        BY <1>1, <1>5, <1>6, <2>1, <4>1, Mounted
    <3>2. CASE pendCache # None
      <4>1. page' = NewPage("QUIZ", "SELF_ASSESSMENT", pendCache.id, pendCache.ids)
        BY <1>13, <3>2 DEF EntryPage
      <4>2. pendCache.id \in Ids /\ pendCache.id \in Keys /\ Lists(pendCache.id, pendCache.ids)
        BY <1>1, <1>13, <3>2 DEF RouteInv, Keys
      <4> QED
        BY <1>1, <1>5, <1>6, <2>1, <4>1, <4>2, Mounted
    <3> QED
      BY <3>1, <3>2
  <2>3. page # None /\ page.kind = "QUIZ"
    BY <1>1, <1>13 DEF Here, RouteInv, PageTyped
  <2>4. RouteInv'
    BY <1>1, <1>5, <1>6, <2>2, <2>3, RouteRests
  <2> QED
    BY <1>5, <1>6, <1>7, <1>9, <2>2, <2>4, SettledKeeps
<1> QED
  BY <1>5, <1>10, <1>11, <1>12, <1>13

LEMMA EssayAnsweredKeeps ==
  ASSUME IInv, NEW c \in calls, EssayAnswered(c)
  PROVE  IInv'
<1>1. /\ Bounds /\ ServerInv /\ PageInv /\ CallsInv /\ HereInv /\ DrawnInv /\ RouteInv
  BY InvNow
<1>2. CallOK(c) /\ CallTyped(c) /\ (Here(c) => HereOK(c))
  BY CallNow
<1>3. PICK d : d = [c EXCEPT !.phase = "load", !.got = attempts'[c.k].status]
  OBVIOUS
<1>4. /\ c.op = "essay" /\ c.phase = "sent" /\ AssessAllowed(c.k, c.arg.q, c.arg.o)
      /\ Assess(c.k, c.arg.q, c.arg.o)
      /\ calls' = (calls \ {c}) \cup {d} \/ calls' = calls \ {c}
      /\ paper' = paper /\ at' = at /\ subject' = subject /\ pendCache' = pendCache /\ page' = page
      /\ drawn' = drawn /\ acts' = acts /\ losses' = losses
  BY <1>3 DEF EssayAnswered, routeVars
<1>5. /\ ServerInv' /\ Grown /\ FromCalls
      /\ attempts'[c.k] # None /\ Unassessed(attempts'[c.k]) \subseteq ToSet(c.arg.left)
  BY <1>4, AssessServed
<1>6. /\ DOMAIN d = CallFields /\ d.op = "essay" /\ d.mount = c.mount /\ d.route = c.route /\ d.k = c.k
      /\ d.arg = c.arg /\ d.phase = "load" /\ d.got = attempts'[c.k].status
  BY <1>2, <1>3, <1>4 DEF CallTyped, CallFields
<1>7. CallOK(d)'
  <2>1. CallTyped(d)'
    BY <1>2, <1>6 DEF CallTyped
  <2>2. d.got = "COMPLETED" => IsCompleted(d.k)'
    BY <1>2, <1>5, <1>6 DEF IsCompleted, Exists, CallTyped
  <2>3. EssayOK(d)'
    BY <1>2, <1>4, <1>5, <1>6, <2>2 DEF CallOK, EssayOK, Exists
  <2> QED
    BY <1>6, <2>1, <2>3 DEF CallOK
<1>8. CallsInv'
  <2>1. calls \ {c} \in SUBSET calls
    OBVIOUS
  <2> QED
    BY <1>1, <1>4, <1>5, <1>7, <2>1, CallsChange, CallsShrink
<1>9. HereInv'
  <2>1. Here(c) /\ page' # None => HereOK(d)'
    BY <1>2, <1>4, <1>6 DEF HereOK
  <2> QED
    BY <1>1, <1>4, <1>6, <2>1, HereReplaced DEF Here
<1>10. PageInv' /\ RouteInv'
  BY <1>1, <1>4, <1>5, PageRests, RouteRests
<1> QED
  BY <1>4, <1>5, <1>6, <1>8, <1>9, <1>10, SettledKeeps

(* The page goes on to an attempt's essays, or to its result. *)
LEMMA PageGoesOn ==
  ASSUME IInv, UNCHANGED <<paper, attempts, ended>>, NEW c \in calls, Here(c), c.op \in {"submit", "essay"},
         calls' = calls \ {c}, UNCHANGED <<at, subject, pendCache, drawn, acts, losses>>,
         page.resource = c.k, (page.kind = "QUIZ") = (c.k \in Ids),
         DOMAIN page' = PageFields, page'.mount = page.mount, page'.kind = page.kind,
         page'.resource = page.resource, page'.target = page.target, page'.outcome \in {None, page.outcome},
         \/ page'.answers = page.answers /\ page'.request = page.request
         \/ page'.answers = Blank(Rows(page.kind)) /\ page'.request = None,
         \/ page'.scene = "SELF_ASSESSMENT" /\ Lists(c.k, page'.pending)
         \/ page'.scene = "RESULT" /\ IsCompleted(c.k)
  PROVE  IInv'
<1>1. /\ Bounds /\ ServerInv /\ PageInv /\ CallsInv /\ HereInv /\ DrawnInv /\ RouteInv
      /\ page # None /\ PageTyped /\ PageOwn /\ PageRequest
  BY InvNow DEF Here
<1>2. ServerInv' /\ Grown /\ FromCalls
  <2>1. ServerInv' /\ Grown
    BY <1>1, ServerUnchanged DEF serverVars
  <2> QED
    BY <2>1 DEF FromCalls, Exists
<1>3. CallsInv'
  BY <1>1, <1>2, CallsShrink
<1>4. HereInv'
  BY <1>1, HereLeft
<1>5. PageInv'
  <2>1. /\ page'.answers \in Of(Answer)
        /\ DOMAIN page'.answers = ToSet(Rows(page.kind))
    <3>1. Rows(page.kind) \in Seq(Questions)
      BY <1>1, RowsAreRows DEF PageOwn
    <3>2. Blank(Rows(page.kind)) \in Of(Answer) /\ DOMAIN Blank(Rows(page.kind)) = ToSet(Rows(page.kind))
      BY <3>1, BlankIsOf
    <3> QED
      BY <1>1, <3>2 DEF PageTyped
  <2>2. PageTyped'
    BY <1>1, <2>1 DEF PageTyped, Rows
  <2>3. c.k \in Keys
    BY CallNow DEF CallTyped
  <2>4. PageOwn'
    BY <1>1, <2>3 DEF PageOwn, Exists, Lists, IsCompleted
  <2>5. PageRequest'
    BY <1>1 DEF PageRequest, RequestOK
  <2> QED
    BY <2>2, <2>4, <2>5 DEF PageInv
<1>6. RouteInv'
  BY <1>1, <1>2, RouteRests
<1> QED
  BY <1>1, <1>2, <1>3, <1>4, <1>5, <1>6, SettledKeeps

(* A completed attempt of the set route opens its result. *)
LEMMA CompletedKeeps ==
  ASSUME IInv, UNCHANGED <<paper, attempts, ended>>, NEW c \in calls, calls' = calls \ {c},
         UNCHANGED <<drawn, acts, losses>>, c.k \in Ids, IsCompleted(c.k), OnCompleted(c)
  PROVE  IInv'
<1>1. /\ Bounds /\ ServerInv /\ PageInv /\ CallsInv /\ HereInv /\ DrawnInv /\ RouteInv
  BY InvNow
<1>2. ServerInv' /\ Grown /\ FromCalls
  <2>1. ServerInv' /\ Grown
    BY <1>1, ServerUnchanged DEF serverVars
  <2> QED
    BY <2>1 DEF FromCalls, Exists
<1>3. CallsInv'
  BY <1>1, <1>2, CallsShrink
<1>4. CASE Go("result", c.k) /\ pendCache' = pendCache
  <2>1. page' = None /\ at' = "result" /\ subject' = c.k
    BY <1>4 DEF Go, Unmount
  <2>2. RouteInv'
    BY <1>4, <2>1, RouteNow
  <2> QED
    BY <1>2, <1>3, <2>1, <2>2, NoPage, SettledKeeps
<1>5. CASE UNCHANGED <<at, subject, pendCache, page>>
  <2>1. PageInv' /\ RouteInv' /\ HereInv'
    BY <1>1, <1>2, <1>5, PageRests, RouteRests, HereRests
  <2> QED
    BY <1>2, <1>3, <1>5, <2>1, SettledKeeps
<1> QED
  BY <1>4, <1>5 DEF OnCompleted, routeVars

(* A call that nobody waits for any more. *)
LEMMA ForgottenKeeps ==
  ASSUME IInv, UNCHANGED <<paper, attempts, ended>>, NEW c \in calls, calls' = calls \ {c},
         UNCHANGED <<at, subject, pendCache, page, drawn, acts, losses>>
  PROVE  IInv'
<1>1. /\ Bounds /\ ServerInv /\ PageInv /\ CallsInv /\ HereInv /\ DrawnInv /\ RouteInv
  BY InvNow
<1>2. ServerInv' /\ Grown /\ FromCalls
  <2>1. ServerInv' /\ Grown
    BY <1>1, ServerUnchanged DEF serverVars
  <2> QED
    BY <2>1 DEF FromCalls, Exists
<1>3. CallsInv' /\ PageInv' /\ RouteInv' /\ HereInv'
  BY <1>1, <1>2, CallsShrink, PageRests, RouteRests, HereRests
<1> QED
  BY <1>2, <1>3, SettledKeeps

LEMMA SubmitLoadedKeeps ==
  ASSUME IInv, NEW c \in calls, SubmitLoaded(c)
  PROVE  IInv'
<1>1. /\ Bounds /\ ServerInv /\ PageInv /\ CallsInv /\ HereInv /\ DrawnInv /\ RouteInv
      /\ page # None => PageTyped /\ PageOwn /\ PageRequest
  BY InvNow
<1>2. CallOK(c) /\ CallTyped(c) /\ (Here(c) => HereOK(c))
  BY CallNow
<1>3. /\ c.op = "submit" /\ c.phase = "load" /\ calls' = calls \ {c}
      /\ UNCHANGED <<paper, attempts, ended>> /\ UNCHANGED <<drawn, acts, losses>>
  BY DEF SubmitLoaded, serverVars
<1>4. /\ SubmitOK(c) /\ Lists(c.k, c.got.ids) /\ c.got.status \in {Waiting, "COMPLETED"}
      /\ c.got.status = "COMPLETED" => IsCompleted(c.k)
      /\ c.route = "set" => c.k \in Ids
  BY <1>2, <1>3 DEF CallOK, SubmitOK
<1>5. Here(c) => /\ page # None /\ page.resource = c.k /\ (page.kind = "QUIZ") = (c.k \in Ids)
  BY <1>2, <1>3 DEF Here, HereOK
<1>6. CASE c.got.status = Waiting
  <2>1. UNCHANGED <<at, subject, pendCache>>
    BY <1>6 DEF SubmitLoaded, routeVars
  <2>2. CASE ~Here(c)
    <3>1. page' = page
      BY <1>6, <2>2 DEF SubmitLoaded
    <3> QED
      BY <1>3, <2>1, <3>1, ForgottenKeeps
  <2>3. CASE Here(c)
    <3>1. page' = [Solved EXCEPT !.scene = "SELF_ASSESSMENT", !.pending = c.got.ids,
                     !.outcome = None, !.shown = AdaptResult(c.k), !.item = FirstItem(c.k)]
      BY <1>6, <2>3 DEF SubmitLoaded
    <3>2. DOMAIN page = PageFields
      BY <1>1, <1>5, <2>3 DEF PageTyped
    <3>3. /\ DOMAIN page' = PageFields /\ page'.mount = page.mount /\ page'.kind = page.kind
          /\ page'.resource = page.resource /\ page'.target = page.target /\ page'.outcome = None
          /\ page'.answers = Blank(Rows(page.kind)) /\ page'.request = None
          /\ page'.scene = "SELF_ASSESSMENT" /\ page'.pending = c.got.ids
      BY <3>1, <3>2 DEF Solved, PageFields
    <3> QED
      BY <1>3, <1>4, <1>5, <2>1, <2>3, <3>3, PageGoesOn
  <2> QED
    BY <2>2, <2>3
<1>7. CASE c.got.status = "COMPLETED" /\ c.route = "set"
  <2>1. OnCompleted(c)
    BY <1>7 DEF SubmitLoaded, Waiting
  <2> QED
    BY <1>3, <1>4, <1>7, <2>1, CompletedKeeps
<1>8. CASE c.got.status = "COMPLETED" /\ c.route # "set"
  <2>1. UNCHANGED <<at, subject, pendCache>>
    BY <1>8 DEF SubmitLoaded, routeVars, Waiting
  <2>2. CASE ~Here(c)
    <3>1. page' = page
      BY <1>8, <2>2 DEF SubmitLoaded, Waiting
    <3> QED
      BY <1>3, <2>1, <3>1, ForgottenKeeps
  <2>3. CASE Here(c)
    <3>1. page' = [Solved EXCEPT !.scene = "RESULT", !.pending = <<>>,
                     !.shown = AdaptResult(c.k), !.item = FirstItem(c.k)]
      BY <1>8, <2>3 DEF SubmitLoaded, Waiting
    <3>2. DOMAIN page = PageFields
      BY <1>1, <1>5, <2>3 DEF PageTyped
    <3>3. /\ DOMAIN page' = PageFields /\ page'.mount = page.mount /\ page'.kind = page.kind
          /\ page'.resource = page.resource /\ page'.target = page.target /\ page'.outcome = page.outcome
          /\ page'.answers = Blank(Rows(page.kind)) /\ page'.request = None
          /\ page'.scene = "RESULT" /\ page'.pending = <<>>
      BY <3>1, <3>2 DEF Solved, PageFields
    <3> QED
      BY <1>1, <1>3, <1>4, <1>5, <1>8, <2>1, <2>3, <3>3, PageGoesOn
  <2> QED
    BY <2>2, <2>3
<1> QED
  BY <1>4, <1>6, <1>7, <1>8

LEMMA EssayLoadedKeeps ==
  ASSUME IInv, NEW c \in calls, EssayLoaded(c)
  PROVE  IInv'
<1>1. /\ Bounds /\ ServerInv /\ PageInv /\ CallsInv /\ HereInv /\ DrawnInv /\ RouteInv
      /\ page # None => PageTyped /\ PageOwn /\ PageRequest
  BY InvNow
<1>2. CallOK(c) /\ CallTyped(c) /\ (Here(c) => HereOK(c))
  BY CallNow
<1>3. /\ c.op = "essay" /\ c.phase = "load" /\ calls' = calls \ {c}
      /\ UNCHANGED <<paper, attempts, ended>> /\ UNCHANGED <<drawn, acts, losses>>
  BY DEF EssayLoaded, serverVars
<1>4. /\ EssayOK(c) /\ Lists(c.k, c.arg.left)
      /\ c.got = "COMPLETED" => IsCompleted(c.k)
      /\ c.route = "set" => c.k \in Ids
  BY <1>2, <1>3 DEF CallOK, EssayOK, Lists, CallTyped
<1>5. Here(c) => /\ page # None /\ page.resource = c.k /\ (page.kind = "QUIZ") = (c.k \in Ids)
                 /\ page.scene = "SELF_ASSESSMENT"
  BY <1>1, <1>2, <1>3 DEF Here, HereOK, PageOwn
<1>6. CASE c.got = "COMPLETED" /\ c.route = "set"
  <2>1. OnCompleted(c)
    BY <1>6 DEF EssayLoaded
  <2> QED
    BY <1>3, <1>4, <1>6, <2>1, CompletedKeeps
<1>7. CASE ~(c.got = "COMPLETED" /\ c.route = "set")
  <2>1. UNCHANGED <<at, subject, pendCache>>
    BY <1>7 DEF EssayLoaded, routeVars
  <2>2. CASE ~Here(c)
    <3>1. page' = page
      BY <1>7, <2>2 DEF EssayLoaded
    <3> QED
      BY <1>3, <2>1, <3>1, ForgottenKeeps
  <2>3. CASE Here(c)
    <3>1. page' = [page EXCEPT !.pending = c.arg.left, !.outcome = None, !.shown = AdaptResult(c.k),
                     !.scene = IF c.got = "COMPLETED" THEN "RESULT" ELSE @]
      BY <1>7, <2>3 DEF EssayLoaded
    <3>2. DOMAIN page = PageFields
      BY <1>1, <1>5, <2>3 DEF PageTyped
    <3>3. /\ DOMAIN page' = PageFields /\ page'.mount = page.mount /\ page'.kind = page.kind
          /\ page'.resource = page.resource /\ page'.target = page.target /\ page'.outcome = None
          /\ page'.answers = page.answers /\ page'.request = page.request
          /\ page'.scene = (IF c.got = "COMPLETED" THEN "RESULT" ELSE page.scene)
          /\ page'.pending = c.arg.left
      BY <3>1, <3>2 DEF PageFields
    <3>4. \/ page'.scene = "SELF_ASSESSMENT" /\ Lists(c.k, page'.pending)
          \/ page'.scene = "RESULT" /\ IsCompleted(c.k)
      BY <1>4, <1>5, <2>3, <3>3
    <3> QED
      BY <1>3, <1>4, <1>5, <2>1, <2>3, <3>3, <3>4, PageGoesOn
  <2> QED
    BY <2>2, <2>3
<1> QED
  BY <1>6, <1>7

LEMMA CorrectionAnsweredKeeps ==
  ASSUME IInv, NEW c \in calls, CorrectionAnswered(c)
  PROVE  IInv'
<1>1. /\ Bounds /\ ServerInv /\ PageInv /\ CallsInv /\ HereInv /\ DrawnInv /\ RouteInv
      /\ page # None => PageTyped /\ PageOwn /\ PageRequest
  BY InvNow
<1>2. /\ c.op = "correct" /\ Override(c.k, c.arg.q, c.arg.o) /\ calls' = calls \ {c}
      /\ paper' = paper /\ UNCHANGED <<at, subject, pendCache>> /\ UNCHANGED <<drawn, acts, losses>>
  BY DEF CorrectionAnswered, routeVars
<1>3. ServerInv' /\ Grown /\ FromCalls
  BY <1>2, OverrideServed
<1>4. CallsInv'
  BY <1>1, <1>2, <1>3, CallsShrink
<1>5. CASE ~Here(c)
  <2>1. page' = page
    BY <1>5 DEF CorrectionAnswered
  <2>2. PageInv' /\ RouteInv' /\ HereInv'
    BY <1>1, <1>2, <1>3, <2>1, PageRests, RouteRests, HereRests
  <2> QED
    BY <1>2, <1>3, <1>4, <2>1, <2>2, SettledKeeps
<1>6. CASE Here(c)
  <2>1. PICK shown : page' = [page EXCEPT !.shown = shown, !.sheet = None, !.target = "CORRECT"]
    BY <1>6 DEF CorrectionAnswered
  <2>2. page # None
    BY <1>6 DEF Here
  <2>3. /\ DOMAIN page' = PageFields /\ page'.mount = page.mount /\ page'.kind = page.kind
        /\ page'.resource = page.resource /\ page'.answers = page.answers
        /\ page'.request = page.request /\ page'.pending = page.pending /\ page'.scene = page.scene
        /\ page'.outcome = page.outcome /\ page'.target = "CORRECT"
    BY <1>1, <2>1, <2>2 DEF PageTyped, PageFields
  <2>4. PageInv'
    <3>1. page.outcome \in Outcomes \cup {None} /\ "CORRECT" \in Outcomes
      BY <1>1, <2>2 DEF PageTyped, Outcomes
    <3> QED
      BY <1>1, <1>2, <1>3, <2>2, <2>3, <3>1, PageTouched
  <2>5. RouteInv' /\ HereInv'
    BY <1>1, <1>2, <1>3, <2>2, <2>3, RouteRests, HereRests
  <2> QED
    BY <1>2, <1>3, <1>4, <2>2, <2>3, <2>4, <2>5, SettledKeeps
<1> QED
  BY <1>5, <1>6

LEMMA ReviewAnsweredKeeps ==
  ASSUME IInv, NEW c \in calls, ReviewAnswered(c)
  PROVE  IInv'
<1>1. /\ Bounds /\ ServerInv /\ PageInv /\ CallsInv /\ HereInv /\ DrawnInv /\ RouteInv
  BY InvNow
<1>2. /\ c.op = "review" /\ ReviewAllowed(c.k) /\ StartReview(c.k) /\ ended' = ended /\ calls' = calls \ {c}
      /\ paper' = paper /\ pendCache' = pendCache /\ UNCHANGED <<drawn, acts, losses>>
      /\ Go("review", None) \/ UNCHANGED <<at, subject, page>>
  BY DEF ReviewAnswered
<1>3. ServerInv' /\ Grown /\ FromCalls /\ attempts'[ReviewId] # None
  BY <1>2, ReviewServed
<1>4. CallsInv'
  BY <1>1, <1>2, <1>3, CallsShrink
<1>5. CASE Go("review", None)
  <2>1. page' = None /\ at' = "review"
    BY <1>5 DEF Go, Unmount
  <2>2. pendCache \notin {None, Unknown} => pendCache.id \in Ids /\ Lists(pendCache.id, pendCache.ids)'
    BY <1>1, <1>2, <1>3, FactsKept DEF RouteInv
  <2>3. RouteInv'
    BY <1>2, <1>3, <2>1, <2>2 DEF RouteInv, Exists, Lists
  <2> QED
    BY <1>2, <1>3, <1>4, <2>1, <2>3, NoPage, SettledKeeps
<1>6. CASE UNCHANGED <<at, subject, page>>
  <2>1. PageInv' /\ RouteInv' /\ HereInv'
    BY <1>1, <1>2, <1>3, <1>6, PageRests, RouteRests, HereRests
  <2> QED
    BY <1>2, <1>3, <1>4, <1>6, <2>1, SettledKeeps
<1> QED
  BY <1>2, <1>5, <1>6

(* A request that failed, whatever the server has done. *)
LEMMA FailedKeeps ==
  ASSUME IInv, NEW c \in calls, Failed(c), ServerInv', Grown, FromCalls,
         losses' \in {losses, losses + 1}, losses' # losses => losses < MaxLosses
  PROVE  IInv'
<1>1. /\ Bounds /\ ServerInv /\ PageInv /\ CallsInv /\ HereInv /\ DrawnInv /\ RouteInv
      /\ page # None => PageTyped /\ PageOwn /\ PageRequest
  BY InvNow
<1>2. /\ calls' = calls \ {c} /\ paper' = paper /\ UNCHANGED <<at, subject, pendCache>> /\ UNCHANGED <<drawn, acts>>
  BY DEF Failed, routeVars
<1>3. CallsInv'
  BY <1>1, <1>2, CallsShrink
<1>4. CASE ~(Here(c) /\ c.op = "submit")
  <2>1. page' = page
    BY <1>4 DEF Failed
  <2>2. PageInv' /\ RouteInv' /\ HereInv'
    BY <1>1, <1>2, <2>1, PageRests, RouteRests, HereRests
  <2> QED
    BY <1>2, <1>3, <2>1, <2>2, SettledKeeps
<1>5. CASE Here(c) /\ c.op = "submit"
  <2>1. page' = [page EXCEPT !.scene = "SUBMIT_ERROR", !.sheet = None] /\ page # None
    BY <1>5 DEF Failed, Here
  <2>2. /\ DOMAIN page' = PageFields /\ page'.mount = page.mount /\ page'.kind = page.kind
        /\ page'.resource = page.resource /\ page'.answers = page.answers
        /\ page'.request = page.request /\ page'.pending = page.pending /\ page'.scene = "SUBMIT_ERROR"
        /\ page'.outcome = page.outcome /\ page'.target = page.target
    BY <1>1, <2>1 DEF PageTyped, PageFields
  <2>3. PageInv'
    <3>1. page.outcome \in Outcomes \cup {None} /\ page.target \in Outcomes
      BY <1>1, <2>1 DEF PageTyped
    <3> QED
      BY <1>1, <1>2, <2>1, <2>2, <3>1, PageTouched
  <2>4. HereInv' /\ RouteInv'
    BY <1>1, <1>2, <1>5, <2>1, <2>2, HereLeft, RouteRests
  <2> QED
    BY <1>2, <1>3, <2>1, <2>2, <2>3, <2>4, SettledKeeps
<1> QED
  BY <1>4, <1>5

LEMMA NothingServed ==
  ASSUME IInv, UNCHANGED <<paper, attempts, ended>>
  PROVE  ServerInv' /\ Grown /\ FromCalls
<1>1. ServerInv' /\ Grown
  BY InvNow, ServerUnchanged DEF serverVars
<1> QED
  BY <1>1 DEF FromCalls, Exists

LEMMA Served ==
  ASSUME IInv, NEW c \in calls, c.phase = "sent", Serve(c), paper' = paper
  PROVE  ServerInv' /\ Grown /\ FromCalls
<1>1. c.op \in {"submit", "essay", "correct", "review"}
  BY CallNow DEF CallTyped
<1>2. CASE c.op = "submit"
  <2>1. Submit(c.k, c.arg)
    BY <1>2 DEF Serve
  <2> QED
    BY <1>2, <2>1, SubmitServed
<1>3. CASE c.op = "essay"
  <2>1. AssessAllowed(c.k, c.arg.q, c.arg.o) /\ Assess(c.k, c.arg.q, c.arg.o)
    BY <1>3 DEF Serve
  <2> QED
    BY <1>3, <2>1, AssessServed
<1>4. CASE c.op = "correct"
  <2>1. Override(c.k, c.arg.q, c.arg.o)
    BY <1>4 DEF Serve
  <2> QED
    BY <1>4, <2>1, OverrideServed
<1>5. CASE c.op = "review"
  <2>1. ReviewAllowed(c.k) /\ StartReview(c.k) /\ ended' = ended
    BY <1>5 DEF Serve
  <2> QED
    BY <1>5, <2>1, ReviewServed
<1> QED
  BY <1>1, <1>2, <1>3, <1>4, <1>5

LEMMA AnswerLostKeeps ==
  ASSUME IInv, NEW c \in calls, AnswerLost(c)
  PROVE  IInv'
<1>1. losses' = losses + 1 /\ losses < MaxLosses /\ Failed(c) /\ paper' = paper
  BY DEF AnswerLost, Failed
<1>2. CASE UNCHANGED <<attempts, ended>>
  BY <1>1, <1>2, NothingServed, FailedKeeps
<1>3. CASE c.phase = "sent" /\ Serve(c)
  BY <1>1, <1>3, Served, FailedKeeps
<1> QED
  BY <1>2, <1>3 DEF AnswerLost

LEMMA RefusedKeeps ==
  ASSUME IInv, NEW c \in calls, Refused(c)
  PROVE  IInv'
<1>1. UNCHANGED <<attempts, ended>> /\ losses' = losses /\ Failed(c) /\ paper' = paper
  BY DEF Refused, Failed
<1> QED
  BY <1>1, NothingServed, FailedKeeps

(***************************************************************************)
(* The invariant.                                                          *)
(***************************************************************************)
LEMMA PersonKeeps ==
  ASSUME IInv, Person
  PROVE  IInv'
<1>1. CASE \E anew \in BOOLEAN : OpenQuiz(anew)
  BY <1>1, OpenQuizKeeps
<1>2. CASE Refocus \/ FetchAgain
  BY <1>2, AskAgainKeeps
<1>3. CASE Leave \/ ResumeReview
  BY <1>3, WaysKeep
<1>4. CASE ReadyScreen
  <2>1. page # None /\ page.scene = "READY" /\ Change([page EXCEPT !.scene = "SOLVING"])
    BY <1>4 DEF ReadyScreen, Showing
  <2> QED
    BY <2>1, SceneKeeps
<1>5. CASE page # None /\ \E q \in GoToQuestion, answer \in {"text", "right", "part", None} : SetAnswer(q, answer)
  BY <1>5, SetAnswerKeeps
<1>6. CASE RequestSubmit \/ SubmitSheet \/ SubmissionErrorScreen
  BY <1>6, SubmissionKeeps
<1>7. CASE \E o \in Outcomes : ChooseOutcome(o)
  BY <1>7, ChooseOutcomeKeeps
<1>8. CASE SaveEssay
  BY <1>8, SaveEssayKeeps
<1>9. CASE ResultListSheet
  BY <1>9, ResultListSheetKeeps
<1>10. CASE OpenCorrection \/ CorrectionSheet
  BY <1>10, CorrectionKeeps
<1>11. CASE SaveCorrection
  BY <1>11, SaveCorrectionKeeps
<1>12. CASE PressReview
  BY <1>12, PressReviewKeeps
<1>13. CASE EnterReview
  BY <1>13, EnterReviewKeeps
<1> QED
  BY <1>1, <1>2, <1>3, <1>4, <1>5, <1>6, <1>7, <1>8, <1>9, <1>10, <1>11, <1>12, <1>13 DEF Person

LEMMA AnsweredKeeps ==
  ASSUME IInv, NEW c \in calls, Answered(c)
  PROVE  IInv'
BY SubmitAnsweredKeeps, SubmitLoadedKeeps, EssayAnsweredKeeps, EssayLoadedKeeps,
   CorrectionAnsweredKeeps, ReviewAnsweredKeeps, RefusedKeeps DEF Answered

LEMMA StutterKeeps ==
  ASSUME IInv, UNCHANGED attemptVars
  PROVE  IInv'
<1>1. /\ UNCHANGED <<paper, attempts, ended, calls, drawn>> /\ acts' = acts /\ losses' = losses
      /\ at' = at /\ subject' = subject /\ pendCache' = pendCache /\ page' = page
  BY DEF attemptVars
<1>2. RouteInv'
  BY <1>1, RouteNow DEF IInv, RouteInv
<1> QED
  BY <1>1, <1>2, ViewKeeps

(* The invariant holds at first. *)
LEMMA InitIInv == AttemptInit => IInv
<1> SUFFICES ASSUME AttemptInit
             PROVE  IInv
  OBVIOUS
<1>1. /\ paper \in Papers /\ attempts = [k \in Keys |-> None] /\ ended = <<>> /\ at = "away"
      /\ pendCache = Unknown /\ page = None /\ calls = {} /\ drawn = 0 /\ acts = 0 /\ losses = 0
  BY DEF AttemptInit
<1>2. Bounds
  <2>1. Cardinality(Ids) \in Nat
    BY IdsAssumption, FS_CardinalityType
  <2> QED
    BY <1>1, <2>1, BoundsAssumption DEF Bounds
<1>3. \A k \in Keys : ~Exists(k)
  BY <1>1 DEF Exists
<1>4. ServerInv
  <2>1. paper \in Seq(Questions)
    <3>1. paper \in Seq(ToSet(paper)) /\ ToSet(paper) \subseteq Questions
      BY <1>1, PapersAssumption DEF Questions
    <3> QED
      BY <3>1, SeqGrows
  <2>2. ended \in Seq(Ids) /\ IsInjective(ended) /\ ToSet(ended) = {}
    BY <1>1 DEF IsInjective, ToSet
  <2> QED
    BY <1>1, <1>3, <2>1, <2>2 DEF ServerInv
<1>5. PageInv /\ CallsInv /\ HereInv
  BY <1>1, FS_EmptySet DEF PageInv, CallsInv, HereInv
<1>6. DrawnInv
  BY <1>1, <1>3 DEF DrawnInv, Keys
<1>7. RouteInv
  BY <1>1 DEF RouteInv
<1> QED
  BY <1>2, <1>4, <1>5, <1>6, <1>7 DEF IInv

LEMMA NextIInv == IInv /\ [AttemptNext]_attemptVars => IInv'
<1> SUFFICES ASSUME IInv, [AttemptNext]_attemptVars
             PROVE  IInv'
  OBVIOUS
<1>1. CASE Person
  BY <1>1, PersonKeeps
<1>2. CASE Fetches
  BY <1>2, PendingFetchedKeeps, ResultFetchedKeeps, ReviewFetchedKeeps, LatestFetchedKeeps DEF Fetches
<1>3. CASE Answers
  BY <1>3, AnsweredKeeps DEF Answers
<1>4. CASE Losses
  BY <1>4, FetchFailsKeeps, AnswerLostKeeps DEF Losses
<1>5. CASE UNCHANGED attemptVars
  BY <1>5, StutterKeeps
<1> QED
  BY <1>1, <1>2, <1>3, <1>4, <1>5 DEF AttemptNext

(* Every reachable state satisfies the invariant. *)
THEOREM Invariance == AttemptSpec => []IInv
BY InitIInv, NextIInv, PTL DEF AttemptSpec

(***************************************************************************)
(* What the runs check, for every paper, every number of attempts and any  *)
(* number of requests and losses.                                          *)
(***************************************************************************)

(* The attempts are whole, and the page shows a question of its own. *)
THEOREM TypeCorrect == AttemptSpec => []AttemptTypeOK
<1>1. IInv => AttemptTypeOK
  <2> SUFFICES ASSUME IInv
               PROVE  AttemptTypeOK
    OBVIOUS
  <2>1. /\ Bounds /\ ServerInv /\ PageInv /\ RouteInv
    BY DEF IInv
  <2>2. ToSet(ended) \subseteq Ids
    BY <2>1, EndedAreIds DEF ServerInv
  <2>3. \A k \in Keys : Exists(k) => DOMAIN attempts[k].final = ToSet(attempts[k].rows)
    BY <2>1 DEF ServerInv, AttemptOK
  <2>4. \A k \in Ids : Exists(k) => (attempts[k].status = "COMPLETED") = (k \in ToSet(ended))
    BY <2>1 DEF ServerInv, AttemptOK, Keys
  <2> QED
    BY <2>1, <2>2, <2>3, <2>4 DEF AttemptTypeOK, Bounds, ServerInv, RouteInv, PageInv, PageTyped
<1> QED
  BY Invariance, <1>1, PTL

(* No essay that waits for its assessment is passed over, and a result is  *)
(* shown of a completed attempt only.                                      *)
THEOREM EssaysAreAssessed == AttemptSpec => []NothingSkipped
<1>1. IInv => NothingSkipped
  <2> SUFFICES ASSUME IInv, page # None
               PROVE  /\ page.scene = "SELF_ASSESSMENT" =>
                           ToSet(Pending(page.resource)) \subseteq ToSet(page.pending)
                      /\ page.scene = "RESULT" => attempts[page.resource].status = "COMPLETED"
    BY DEF NothingSkipped
  <2>1. ServerInv /\ PageOwn
    BY DEF IInv, PageInv
  <2>2. ASSUME page.scene = "SELF_ASSESSMENT"
        PROVE  ToSet(Pending(page.resource)) \subseteq ToSet(page.pending)
    <3>1. PICK k : k = page.resource /\ Lists(k, page.pending)
      BY <2>1, <2>2 DEF PageOwn
    <3>2. ToSet(Pending(k)) = Unassessed(attempts[k])
      BY <2>1, <3>1, PendingListed DEF Lists
    <3> QED
      BY <3>1, <3>2 DEF Lists
  <2>3. page.scene = "RESULT" => attempts[page.resource].status = "COMPLETED"
    BY <2>1 DEF PageOwn, IsCompleted
  <2> QED
    BY <2>2, <2>3
<1> QED
  BY Invariance, <1>1, PTL

(* What is sent again under an identifier is what the server may have      *)
(* recorded under it.                                                      *)
THEOREM RetriesAreRepeats == AttemptSpec => []RetryRepeatsItself
<1>1. IInv => RetryRepeatsItself
  BY DEF IInv, DrawnInv, Says, RetryRepeatsItself
<1> QED
  BY Invariance, <1>1, PTL

(* A person who has left the result is not taken to the review it asked    *)
(* for: only the page in front, or the review route, opens one by itself.  *)
THEOREM ReviewsOpenWhereAsked == AttemptSpec => ReviewOnlyFromHere
<1>1. IInv /\ [AttemptNext]_attemptVars =>
        [at' = "review" /\ at # "review" /\ calls' # calls =>
           \E c \in calls \ calls' :
             /\ c.op = "review"
             /\ c.route = "entry" \/ (Showing("RESULT", page.sheet) /\ c.mount = page.mount)]_attemptVars
  <2> SUFFICES ASSUME IInv, AttemptNext, at' = "review", at # "review", calls' # calls
               PROVE  \E c \in calls \ calls' :
                        /\ c.op = "review"
                        /\ c.route = "entry" \/ (Showing("RESULT", page.sheet) /\ c.mount = page.mount)
    OBVIOUS
  <2>1. CASE Person
    <3>1. at' # "review" \/ calls' = calls \/ at' = at
      BY <2>1 DEF Person, OpenQuiz, Refocus, FetchAgain, Leave, ReadyScreen, SetAnswer, RequestSubmit,
        SubmitSheet, SubmissionErrorScreen, SubmitAnswers, OpenSheet, Change, ChooseOutcome, SaveEssay,
        ResultListSheet, OpenCorrection, CorrectionSheet, SaveCorrection, PressReview, ResumeReview,
        EnterReview, routeVars, netVars
    <3> QED
      BY <3>1
  <2>2. CASE Fetches
    <3>1. at' = at \/ calls' = calls
      BY <2>2 DEF Fetches, PendingFetched, ResultFetched, ReviewFetched, LatestFetched, netVars
    <3> QED
      BY <3>1
  <2>3. CASE Losses
    <3>1. at' = at
      BY <2>3 DEF Losses, FetchFails, AnswerLost, Failed, routeVars
    <3> QED
      BY <3>1
  <2>4. CASE Answers
    <3>1. PICK c \in calls : Answered(c)
      BY <2>4 DEF Answers
    <3>2. CASE ReviewAnswered(c)
      <4>1. c.op = "review" /\ calls' = calls \ {c} /\ (Here(c) \/ c.route = "entry")
        BY <3>2 DEF ReviewAnswered
      <4>2. Here(c) => page # None /\ page.scene = "RESULT" /\ c.mount = page.mount
        BY <4>1, CallNow DEF Here, HereOK
      <4> QED
        BY <4>1, <4>2 DEF Showing
    <3>3. CASE ~ReviewAnswered(c)
      <4>1. at' = at \/ at' = "result"
        BY <3>1, <3>3 DEF Answered, SubmitAnswered, SubmitLoaded, EssayAnswered, EssayLoaded,
          CorrectionAnswered, Refused, Failed, OnCompleted, Go, routeVars
      <4> QED
        BY <4>1
    <3> QED
      BY <3>2, <3>3
  <2> QED
    BY <2>1, <2>2, <2>3, <2>4 DEF AttemptNext
<1> QED
  BY Invariance, <1>1, PTL DEF AttemptSpec, ReviewOnlyFromHere

=============================================================================
