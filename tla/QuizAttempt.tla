----------------------------- MODULE QuizAttempt -----------------------------
(***************************************************************************)
(* Solving a quiz: the page that shows the questions, submits the answers, *)
(* lets the person assess the essays and correct a grade, and starts a     *)
(* review (web/src/pages/quiz), against the server's attempts              *)
(* (server/.../quiz/service).  The person may leave and come back at any   *)
(* moment; a page that was left goes on with the request it was waiting    *)
(* for.                                                                    *)
(*                                                                         *)
(* A request is served when its answer arrives; a request whose answer is  *)
(* lost has been served or never will be.  The material is one paper of    *)
(* one account.  What only shows (texts, numbers, focus) is left out.      *)
(***************************************************************************)
EXTENDS Naturals, Sequences, FiniteSets, SequencesExt

CONSTANTS
  Papers,      \* the papers a quiz may have: sequences of questions
  Essays,      \* the questions that are essays; the others are short answers
  Ids,         \* the identifiers 1..n the page draws for its attempts
  ReviewId,    \* the identifier of the review session
  None,        \* no answer, no record, nothing shown
  Unknown,     \* the pending self-assessment has not been asked for
  MaxActs,     \* bound: openings, changed answers, assessments, corrections, reviews
  MaxCalls,    \* how many requests are under way at once
  MaxLosses    \* how many answers are lost

ASSUME IdsAssumption == IsFiniteSet(Ids) /\ Ids = 1 .. Cardinality(Ids)
ASSUME PapersAssumption == \A rows \in Papers : rows \in Seq(ToSet(rows))
ASSUME BoundsAssumption == MaxActs \in Nat /\ MaxCalls \in Nat /\ MaxLosses \in Nat

Waiting == "SELF_ASSESSMENT_REQUIRED"
Outcomes == {"CORRECT", "INCORRECT"}
Keys == Ids \cup {ReviewId}

(* What the server keeps of an attempt.  What is kept of some questions is a *)
(* function of them.                                                         *)
Questions == UNION {ToSet(rows) : rows \in Papers}
Of(values) == UNION {[some -> values] : some \in SUBSET Questions}
Attempt == [rows : Seq(Questions), answers : Of({"text", "right", "part", None}),
            source : Ids \cup {None}, final : Of(Outcomes \cup {None}),
            resolved : SUBSET Questions, status : {"SOLVING", Waiting, "COMPLETED"}]

(* The review is not named like an attempt; nothing is neither name nor record. *)
ASSUME ValuesAssumption ==
  /\ ReviewId \notin Nat
  /\ None \notin Keys
  /\ None \notin Outcomes
  /\ None \notin Attempt

VARIABLES
  paper,      \* the questions of the quiz
  attempts,   \* the server's attempts: the record kept under each identifier
  ended,      \* the main attempts in the order they were completed
  at,         \* the route: "away", "set", "result", "review" or "entry"
  subject,    \* the attempt the result route is about
  restart,    \* the set route was opened to solve anew
  pendCache,  \* what the browser last heard of the pending self-assessment
  fetching,   \* the route's query is under way
  page,       \* the mounted page, None while the route loads or failed
  calls,      \* the requests of mounted and left pages
  drawn,      \* how many identifiers have been drawn
  acts, losses

attemptVars == <<paper, attempts, ended, at, subject, restart, pendCache, fetching,
                 page, calls, drawn, acts, losses>>

AnswersOf(q) == IF q \in Essays THEN {"text"} ELSE {"right", "part"}
Blank(rows) == [q \in ToSet(rows) |-> None]

(* Those of the rows that are in S, in their order. *)
InOrder(rows, S) ==
  LET taken[i \in 0 .. Len(rows)] ==
        IF i = 0 THEN <<>>
        ELSE IF rows[i] \in S THEN Append(taken[i - 1], rows[i]) ELSE taken[i - 1]
  IN taken[Len(rows)]

(* A question counts as answered when no blank of it is left open. *)
IsQuestionAnswered(a) == a \notin {None, "part"}
Unanswered(rows, answers) == {q \in ToSet(rows) : ~IsQuestionAnswered(answers[q])}

(***************************************************************************)
(* The server.                                                             *)
(***************************************************************************)
Exists(k) == attempts[k] # None
Unassessed(r) == {q \in ToSet(r.rows) : r.final[q] = None}
Pending(k) == InOrder(attempts[k].rows, Unassessed(attempts[k]))

GradeAndStore(q, a) ==
  IF q \in Essays THEN IF a = None THEN "INCORRECT" ELSE None
  ELSE IF a = "right" THEN "CORRECT" ELSE "INCORRECT"

Submitted(rows, answers, source) ==
  LET final == [q \in ToSet(rows) |-> GradeAndStore(q, answers[q])]
  IN [rows |-> rows, answers |-> answers, source |-> source, final |-> final, resolved |-> {},
      status |-> IF \E q \in ToSet(rows) : final[q] = None THEN Waiting ELSE "COMPLETED"]

(* A question is to be reviewed until it is correct or a review has resolved it. *)
Candidates(r) == {q \in ToSet(r.rows) : r.final[q] = "INCORRECT" /\ q \notin r.resolved}

Resolve(table, k, right) ==
  IF k = ReviewId THEN [table EXCEPT ![table[k].source].resolved = @ \cup right] ELSE table

Completes(k, r) ==
  ended' = IF k # ReviewId /\ r.status = "COMPLETED" THEN Append(ended, k) ELSE ended

(* A submission under a known identifier only reads the attempt. *)
Submit(k, answers) ==
  IF Exists(k) /\ (k = ReviewId => attempts[k].status # "SOLVING")
  THEN UNCHANGED <<attempts, ended>>
  ELSE LET r == IF k = ReviewId THEN Submitted(attempts[k].rows, answers, attempts[k].source)
                ELSE Submitted(paper, answers, None)
       IN /\ attempts' = Resolve([attempts EXCEPT ![k] = r], k,
                                 {q \in ToSet(r.rows) : r.final[q] = "CORRECT"})
          /\ Completes(k, r)

(* Of two assessments of an essay the first stands. *)
AssessAllowed(k, q, o) == IF attempts[k].final[q] # None THEN attempts[k].final[q] = o
                          ELSE attempts[k].status = Waiting

(* Slip: a later assessment replaces the first. *)
Assess_Slip(k, q, o) ==
  LET final == [attempts[k].final EXCEPT ![q] = o]
      r == [attempts[k] EXCEPT !.final = final,
              !.status = IF \E p \in DOMAIN final : final[p] = None THEN @ ELSE "COMPLETED"]
  IN /\ attempts' = Resolve([attempts EXCEPT ![k] = r], k, {p \in {q} : o = "CORRECT"})
     /\ Completes(k, r)

Assess(k, q, o) ==
  IF attempts[k].final[q] # None THEN UNCHANGED <<attempts, ended>>
  ELSE LET final == [attempts[k].final EXCEPT ![q] = o]
           r == [attempts[k] EXCEPT !.final = final,
                   !.status = IF \E p \in DOMAIN final : final[p] = None THEN @ ELSE "COMPLETED"]
       IN /\ attempts' = Resolve([attempts EXCEPT ![k] = r], k, {p \in {q} : o = "CORRECT"})
          /\ Completes(k, r)

IsLatest(k) == Len(ended) > 0 /\ ended[Len(ended)] = k
ActiveReview(k) == Exists(ReviewId) /\ attempts[ReviewId].source = k
                   /\ attempts[ReviewId].status # "COMPLETED"
ReviewAvailable(k) == IsLatest(k) /\ (Candidates(attempts[k]) # {} \/ ActiveReview(k))

(* The source of a review, or the attempt itself. *)
SourceOf(k) == IF k = ReviewId THEN attempts[k].source ELSE k

StartReview(k) ==
  IF ActiveReview(k) THEN UNCHANGED attempts
  ELSE LET rows == InOrder(attempts[k].rows, Candidates(attempts[k]))
       IN attempts' = [attempts EXCEPT ![ReviewId] =
            [rows |-> rows, answers |-> Blank(rows), source |-> k, final |-> Blank(rows),
             resolved |-> {}, status |-> "SOLVING"]]

(* Any of the main attempts that wait for an assessment. *)
PendingAnswers ==
  LET waiting == {k \in Ids : Exists(k) /\ attempts[k].status = Waiting}
  IN IF waiting = {} THEN {None} ELSE {[id |-> k, ids |-> Pending(k)] : k \in waiting}

(***************************************************************************)
(* The pages.                                                              *)
(***************************************************************************)
Rows(kind) == IF kind = "REVIEW" THEN attempts[ReviewId].rows ELSE paper

(* A row without an outcome reads as incorrect. *)
AdaptResult(k) ==
  [final |-> [q \in DOMAIN attempts[k].final |->
                IF attempts[k].final[q] = None THEN "INCORRECT" ELSE attempts[k].final[q]],
   available |-> ReviewAvailable(SourceOf(k))]

FirstItem(k) == attempts[k].rows[1]

(* What tells a page from the others, gone or not. *)
Fresh == Min((1 .. Cardinality(calls) + 2) \ ({c.mount : c \in calls} \cup
               {p.mount : p \in {page} \ {None}}))

NewPage(kind, scene, k, pending) ==
  [mount |-> Fresh, kind |-> kind, key |-> k, scene |-> scene, sheet |-> None,
   answers |-> Blank(Rows(kind)), request |-> None, resource |-> k,
   pending |-> pending, outcome |-> None, shown |-> IF k = None THEN None ELSE AdaptResult(k),
   item |-> IF k = None THEN None ELSE FirstItem(k), target |-> "CORRECT"]

Mount(p) == page' = p
Unmount == page' = None

Here(c) == page # None /\ c.mount = page.mount
Busy(op) == \E c \in calls : c.op = op /\ Here(c)
Showing(scene, sheet) == page # None /\ page.scene = scene /\ page.sheet = sheet

(* The screens that offer something while no sheet covers them. *)
SolvingScreen == Showing("SOLVING", None)
EssayAssessmentScreen == Showing("SELF_ASSESSMENT", None) /\ page.pending # <<>>
ResultScreen == Showing("RESULT", None)

Request(op, k, arg) == [op |-> op, mount |-> page.mount, route |-> at, k |-> k, arg |-> arg,
                        phase |-> "sent", got |-> None]

Room == Cardinality(calls) < MaxCalls
Act == acts' = acts + 1 /\ acts < MaxActs

routeVars == <<at, subject, restart, pendCache, fetching>>
serverVars == <<paper, attempts, ended>>
netVars == <<calls, drawn, losses>>

(***************************************************************************)
(* The routes.                                                             *)
(***************************************************************************)

Go(route, k) ==
  /\ at' = route /\ subject' = k /\ restart' = FALSE /\ fetching' = (route # "away")
  /\ Unmount

(* The page a known pending self-assessment opens. *)
EntryPage(pend) ==
  IF pend = None THEN NewPage("QUIZ", "READY", None, <<>>)
  ELSE NewPage("QUIZ", "SELF_ASSESSMENT", pend.id, pend.ids)

(* A heard answer is shown at once and asked for again. *)
EnterSet(cache) ==
  /\ fetching' = TRUE
  /\ IF cache = Unknown THEN Unmount ELSE Mount(EntryPage(cache))

OpenQuiz(anew) ==
  /\ at = "away" /\ Act
  /\ at' = "set" /\ restart' = anew
  /\ IF anew THEN Mount(NewPage("QUIZ", "SOLVING", None, <<>>)) /\ fetching' = FALSE
     ELSE EnterSet(pendCache)
  /\ UNCHANGED <<serverVars, subject, pendCache, netVars>>

(* A window that gets the focus asks again for what it has marked stale. *)
Refocus ==
  /\ at = "set" /\ ~restart /\ ~fetching /\ Act
  /\ fetching' = TRUE
  /\ UNCHANGED <<serverVars, at, subject, restart, pendCache, page, netVars>>

(* Another pending attempt than the one shown replaces the page. *)
PendingFetched ==
  /\ at = "set" /\ fetching
  /\ \E pend \in PendingAnswers :
       /\ pendCache' = pend
       /\ IF page # None /\ page.key = EntryPage(pend).key THEN UNCHANGED page
          ELSE Mount(EntryPage(pend))
  /\ fetching' = FALSE
  /\ UNCHANGED <<serverVars, at, subject, restart, netVars, acts>>

ResultFetched ==
  /\ at = "result" /\ fetching
  /\ Mount(NewPage("QUIZ", "RESULT", subject, <<>>))
  /\ fetching' = FALSE
  /\ UNCHANGED <<serverVars, at, subject, restart, pendCache, netVars, acts>>

(* A review opens where the server says it stands. *)
ReviewFetched ==
  /\ at = "review" /\ fetching
  /\ LET r == attempts[ReviewId]
     IN Mount(IF r.status = "SOLVING" THEN NewPage("REVIEW", "SOLVING", None, <<>>)
              ELSE NewPage("REVIEW",
                     IF r.status = Waiting THEN "SELF_ASSESSMENT" ELSE "RESULT",
                     ReviewId, Pending(ReviewId)))
  /\ fetching' = FALSE
  /\ UNCHANGED <<serverVars, at, subject, restart, pendCache, netVars, acts>>

(* The review route goes on with the review under way or starts one. *)
LatestFetched ==
  /\ at = "entry" /\ fetching /\ Room
  /\ LET reviewable == {k \in ToSet(ended) : ReviewAvailable(k)}
     IN \/ /\ \E k \in reviewable : ActiveReview(k)
           /\ Go("review", None) /\ UNCHANGED calls
        \/ /\ ~\E k \in reviewable : ActiveReview(k)
           /\ calls' = calls \cup
                {[op |-> "review", mount |-> Fresh, route |-> at, k |-> k, arg |-> None,
                  phase |-> "sent", got |-> None] : k \in reviewable}
           /\ fetching' = FALSE
           /\ UNCHANGED <<at, subject, restart, page>>
  /\ UNCHANGED <<serverVars, pendCache, drawn, losses, acts>>

(* A failed query takes the page away; the person asks again. *)
FetchFails ==
  /\ fetching /\ losses < MaxLosses
  /\ fetching' = FALSE /\ Unmount
  /\ losses' = losses + 1
  /\ UNCHANGED <<serverVars, at, subject, restart, pendCache, calls, drawn, acts>>

FetchAgain ==
  /\ at # "away" /\ page = None /\ ~fetching
  /\ at = "entry" => ~\E c \in calls : c.route = "entry"
  /\ fetching' = TRUE
  /\ UNCHANGED <<serverVars, at, subject, restart, pendCache, page, netVars, acts>>

(* The ways out.  A sheet that only asks or lists, and changes nothing when it is *)
(* closed, is one step with what is chosen on it.                                *)
Leave ==
  /\ \/ \E scene \in {"READY", "SOLVING", "SELF_ASSESSMENT", "RESULT"} : Showing(scene, None)
     \/ at = "entry"
  /\ Go("away", None)
  /\ UNCHANGED <<serverVars, pendCache, netVars, acts>>

(* What a completed submission or assessment of the set route leads to, whoever *)
(* is on the screen by then.                                                    *)
OnCompleted(c) ==
  IF c.route = "set" /\ ~(at = "result" /\ subject = c.k)
  THEN Go("result", c.k) /\ UNCHANGED pendCache
  ELSE UNCHANGED <<routeVars, page>>

(***************************************************************************)
(* Solving.                                                                *)
(***************************************************************************)
Change(p) == page' = p /\ UNCHANGED <<serverVars, routeVars, netVars, acts>>
OpenSheet(s) == Change([page EXCEPT !.sheet = s])

ReadyScreen == Showing("READY", None) /\ Change([page EXCEPT !.scene = "SOLVING"])

(* The questions the arrows and the map lead to. *)
GoToQuestion == ToSet(Rows(page.kind))

(* An answer stays open to change while a submission is under way. *)
SetAnswer(q, answer) ==
  /\ SolvingScreen
  /\ q \in GoToQuestion
  /\ answer \in AnswersOf(q) \cup {None} /\ answer # page.answers[q]
  /\ page' = [page EXCEPT !.answers[q] = answer, !.request = None]
  /\ IF page.answers[q] = None /\ page.request = None THEN UNCHANGED acts ELSE Act
  /\ UNCHANGED <<serverVars, routeVars, netVars>>

(* Slip: an identifier is drawn once for the page. *)
RequestToSend_Slip ==
  IF page.request # None THEN page.request
  ELSE [id |-> IF page.kind = "REVIEW" THEN ReviewId ELSE IF drawn = 0 THEN 1 ELSE drawn,
        answers |-> page.answers]

(* A submission that was not answered is repeated as it was; a new one draws *)
(* an identifier.                                                            *)
RequestToSend ==
  IF page.request # None THEN page.request
  ELSE [id |-> IF page.kind = "REVIEW" THEN ReviewId ELSE drawn + 1, answers |-> page.answers]

SubmitAnswers ==
  /\ ~Busy("submit")
  /\ RequestToSend.id \in Keys
  /\ Room /\ calls' = calls \cup {Request("submit", RequestToSend.id, RequestToSend.answers)}
  /\ drawn' = IF RequestToSend.id \in Ids /\ RequestToSend.id > drawn
              THEN RequestToSend.id ELSE drawn
  /\ page' = [page EXCEPT !.request = RequestToSend]
  /\ UNCHANGED <<serverVars, routeVars, acts, losses>>

(* The button of the last question. *)
RequestSubmit ==
  /\ SolvingScreen /\ ~Busy("submit")
  /\ IF Unanswered(Rows(page.kind), page.answers) # {} THEN OpenSheet("SUBMIT")
     ELSE SubmitAnswers

SubmitSheet ==
  /\ Showing("SOLVING", "SUBMIT") /\ ~Busy("submit")
  /\ OpenSheet(None) \/ SubmitAnswers

SubmissionErrorScreen ==
  /\ Showing("SUBMIT_ERROR", None) /\ ~Busy("submit")
  /\ Change([page EXCEPT !.scene = "SOLVING"]) \/ SubmitAnswers

(* The submission is accepted; its result is loaded.  A quiz solved anew is an *)
(* ordinary one from now on, and the route asks for its pending assessment.    *)
SubmitAnswered(c) ==
  /\ c.op = "submit" /\ c.phase = "sent"
  /\ Submit(c.k, c.arg)
  /\ calls' = (calls \ {c}) \cup
       {[c EXCEPT !.phase = "load",
                  !.got = [status |-> attempts'[c.k].status,
                           ids |-> InOrder(attempts'[c.k].rows, Unassessed(attempts'[c.k]))]]}
  /\ IF c.route = "set" /\ at = "set" /\ restart /\ Here(c)
     THEN /\ restart' = FALSE /\ fetching' = TRUE
          /\ IF pendCache = None
             THEN page' = [page EXCEPT !.sheet = None, !.resource = c.k]
             ELSE IF pendCache = Unknown THEN Unmount ELSE Mount(EntryPage(pendCache))
     ELSE /\ page' = IF Here(c) THEN [page EXCEPT !.sheet = None, !.resource = c.k] ELSE page
          /\ UNCHANGED <<restart, fetching>>
  /\ UNCHANGED <<paper, at, subject, pendCache, drawn, acts, losses>>

(* The answers are of no use to the page any more. *)
Solved == [page EXCEPT !.answers = Blank(Rows(page.kind)), !.request = None]

SubmitLoaded(c) ==
  /\ c.op = "submit" /\ c.phase = "load"
  /\ calls' = calls \ {c}
  /\ IF c.got.status = Waiting
     THEN /\ page' = IF ~Here(c) THEN page
                     ELSE [Solved EXCEPT !.scene = "SELF_ASSESSMENT", !.pending = c.got.ids,
                             !.outcome = None, !.shown = AdaptResult(c.k), !.item = FirstItem(c.k)]
          /\ UNCHANGED routeVars
     ELSE IF c.route = "set" THEN OnCompleted(c)
     ELSE /\ page' = IF ~Here(c) THEN page
                     ELSE [Solved EXCEPT !.scene = "RESULT", !.pending = <<>>,
                             !.shown = AdaptResult(c.k), !.item = FirstItem(c.k)]
          /\ UNCHANGED routeVars
  /\ UNCHANGED <<serverVars, drawn, acts, losses>>

(***************************************************************************)
(* Assessing the essays.                                                   *)
(***************************************************************************)
ChooseOutcome(o) ==
  /\ EssayAssessmentScreen /\ page.outcome # o
  /\ Change([page EXCEPT !.outcome = o])

(* Slip: the page goes on to the next essay before the answer. *)
SaveEssay_Slip ==
  /\ EssayAssessmentScreen /\ page.outcome # None
  /\ ~Busy("essay") /\ Act
  /\ Room /\ calls' = calls \cup
       {Request("essay", page.resource, [q |-> Head(page.pending), o |-> page.outcome,
                                         left |-> Tail(page.pending)])}
  /\ page' = [page EXCEPT !.pending = Tail(@), !.outcome = None]
  /\ UNCHANGED <<serverVars, routeVars, drawn, losses>>

SaveEssay ==
  /\ EssayAssessmentScreen /\ page.outcome # None
  /\ ~Busy("essay") /\ Act
  /\ Room /\ calls' = calls \cup
       {Request("essay", page.resource, [q |-> Head(page.pending), o |-> page.outcome,
                                         left |-> Tail(page.pending)])}
  /\ UNCHANGED <<serverVars, routeVars, page, drawn, losses>>

(* The answer is believed when it leaves as many essays as the page expects. *)
EssayAnswered(c) ==
  /\ c.op = "essay" /\ c.phase = "sent"
  /\ AssessAllowed(c.k, c.arg.q, c.arg.o)
  /\ Assess(c.k, c.arg.q, c.arg.o)
  /\ LET left == Cardinality(Unassessed(attempts'[c.k]))
     IN calls' = IF left = Len(c.arg.left)
                 THEN (calls \ {c}) \cup {[c EXCEPT !.phase = "load", !.got = attempts'[c.k].status]}
                 ELSE calls \ {c}
  /\ UNCHANGED <<paper, routeVars, page, drawn, acts, losses>>

EssayLoaded(c) ==
  /\ c.op = "essay" /\ c.phase = "load"
  /\ calls' = calls \ {c}
  /\ IF c.got = "COMPLETED" /\ c.route = "set" THEN OnCompleted(c)
     ELSE /\ page' = IF ~Here(c) THEN page
                     ELSE [page EXCEPT !.pending = c.arg.left, !.outcome = None,
                             !.shown = AdaptResult(c.k),
                             !.scene = IF c.got = "COMPLETED" THEN "RESULT" ELSE @]
          /\ UNCHANGED routeVars
  /\ UNCHANGED <<serverVars, drawn, acts, losses>>

(***************************************************************************)
(* The result: correcting a grade and starting a review.                   *)
(***************************************************************************)
ResultListSheet ==
  /\ ResultScreen
  /\ \E q \in DOMAIN page.shown.final \ {page.item} : Change([page EXCEPT !.item = q])

Opposite(o) == IF o = "CORRECT" THEN "INCORRECT" ELSE "CORRECT"

(* Only an answered short answer of a quiz can be corrected. *)
OpenCorrection ==
  /\ ResultScreen /\ page.kind = "QUIZ"
  /\ page.item \notin Essays /\ attempts[page.resource].answers[page.item] # None
  /\ Change([page EXCEPT !.sheet = "CORRECTION", !.target = Opposite(page.shown.final[page.item])])

CorrectionSheet ==
  /\ Showing("RESULT", "CORRECTION") /\ ~Busy("correct")
  /\ Change([page EXCEPT !.sheet = None, !.target = "CORRECT"]) \/ Change([page EXCEPT !.target = Opposite(@)])

SaveCorrection ==
  /\ Showing("RESULT", "CORRECTION") /\ ~Busy("correct") /\ Act
  /\ page.target # page.shown.final[page.item]
  /\ Room /\ calls' = calls \cup {Request("correct", page.resource, [q |-> page.item, o |-> page.target])}
  /\ UNCHANGED <<serverVars, routeVars, page, drawn, losses>>

Override(k, q, o) == attempts' = [attempts EXCEPT ![k].final[q] = o] /\ UNCHANGED ended

(* The corrected result replaces the shown one as a whole. *)
CorrectionAnswered(c) ==
  /\ c.op = "correct"
  /\ Override(c.k, c.arg.q, c.arg.o)
  /\ calls' = calls \ {c}
  /\ page' = IF Here(c) THEN [page EXCEPT !.shown = AdaptResult(c.k)', !.sheet = None,
                                !.target = "CORRECT"] ELSE page
  /\ UNCHANGED <<paper, routeVars, drawn, acts, losses>>

PressReview ==
  /\ ResultScreen /\ page.shown.available /\ ~Busy("review") /\ Act
  /\ Room /\ calls' = calls \cup {Request("review", SourceOf(page.resource), None)}
  /\ UNCHANGED <<serverVars, routeVars, page, drawn, losses>>

(* One review session is modelled: a second one would need another identifier. *)
ReviewAllowed(k) ==
  IsLatest(k) /\ (ActiveReview(k) \/ (~Exists(ReviewId) /\ Candidates(attempts[k]) # {}))

(* Slip: the review opens wherever the person is. *)
ReviewAnswered_Slip(c) ==
  /\ c.op = "review" /\ ReviewAllowed(c.k)
  /\ StartReview(c.k) /\ UNCHANGED ended
  /\ calls' = calls \ {c}
  /\ Go("review", None)
  /\ UNCHANGED <<paper, pendCache, drawn, acts, losses>>

(* The review opens when the page that asked for it is still there; the review *)
(* route does not look.                                                        *)
ReviewAnswered(c) ==
  /\ c.op = "review" /\ ReviewAllowed(c.k)
  /\ StartReview(c.k) /\ UNCHANGED ended
  /\ calls' = calls \ {c}
  /\ IF Here(c) \/ c.route = "entry" THEN Go("review", None) ELSE UNCHANGED <<at, subject, restart, fetching, page>>
  /\ UNCHANGED <<paper, pendCache, drawn, acts, losses>>

(* The review route, entered from outside. *)
EnterReview ==
  /\ at = "away" /\ Act
  /\ at' = "entry" /\ fetching' = TRUE /\ UNCHANGED page
  /\ UNCHANGED <<serverVars, subject, restart, pendCache, netVars>>

(* A review that is under way can be taken up from the learning page. *)
ResumeReview ==
  /\ at = "away" /\ Exists(ReviewId) /\ attempts[ReviewId].status # "COMPLETED" /\ Act
  /\ Go("review", None)
  /\ UNCHANGED <<serverVars, pendCache, netVars>>

(***************************************************************************)
(* Failures.                                                               *)
(***************************************************************************)

(* Slip: a request that failed goes on counting as under way. *)
Failed_Slip(c) ==
  /\ calls' = (calls \ {c}) \cup {[c EXCEPT !.phase = "kept"]}
  /\ page' = IF Here(c) /\ c.op = "submit"
             THEN [page EXCEPT !.scene = "SUBMIT_ERROR", !.sheet = None] ELSE page
  /\ UNCHANGED <<paper, routeVars, drawn, acts>>

(* What the page does about a request that failed. *)
Failed(c) ==
  /\ calls' = calls \ {c}
  /\ page' = IF Here(c) /\ c.op = "submit"
             THEN [page EXCEPT !.scene = "SUBMIT_ERROR", !.sheet = None] ELSE page
  /\ UNCHANGED <<paper, routeVars, drawn, acts>>

Serve(c) ==
  CASE c.op = "submit" -> Submit(c.k, c.arg)
    [] c.op = "essay" -> AssessAllowed(c.k, c.arg.q, c.arg.o) /\ Assess(c.k, c.arg.q, c.arg.o)
    [] c.op = "correct" -> Override(c.k, c.arg.q, c.arg.o)
    [] c.op = "review" -> ReviewAllowed(c.k) /\ StartReview(c.k) /\ UNCHANGED ended

(* The answer is lost, before or after the server has done what was asked. *)
AnswerLost(c) ==
  /\ losses < MaxLosses
  /\ UNCHANGED <<attempts, ended>> \/ (c.phase = "sent" /\ Serve(c))
  /\ losses' = losses + 1
  /\ Failed(c)

Refused(c) ==
  /\ \/ c.op = "essay" /\ c.phase = "sent" /\ ~AssessAllowed(c.k, c.arg.q, c.arg.o)
     \/ c.op = "review" /\ ~ReviewAllowed(c.k)
  /\ Failed(c)
  /\ UNCHANGED <<attempts, ended, losses>>

Answered(c) ==
  \/ SubmitAnswered(c) \/ SubmitLoaded(c) \/ EssayAnswered(c) \/ EssayLoaded(c)
  \/ CorrectionAnswered(c) \/ ReviewAnswered(c) \/ Refused(c)

(***************************************************************************)
(* The specification.                                                      *)
(***************************************************************************)
AttemptInit ==
  /\ paper \in Papers
  /\ attempts = [k \in Keys |-> None] /\ ended = <<>>
  /\ at = "away" /\ subject = None /\ restart = FALSE /\ pendCache = Unknown /\ fetching = FALSE
  /\ page = None /\ calls = {} /\ drawn = 0 /\ acts = 0 /\ losses = 0

Person ==
  \/ \E anew \in BOOLEAN : OpenQuiz(anew)
  \/ Refocus \/ FetchAgain \/ Leave
  \/ ReadyScreen
  \/ page # None /\ \E q \in GoToQuestion, answer \in {"text", "right", "part", None} :
       SetAnswer(q, answer)
  \/ RequestSubmit \/ SubmitSheet \/ SubmissionErrorScreen
  \/ \E o \in Outcomes : ChooseOutcome(o)
  \/ SaveEssay
  \/ ResultListSheet \/ OpenCorrection \/ CorrectionSheet \/ SaveCorrection
  \/ PressReview \/ ResumeReview \/ EnterReview

Fetches == PendingFetched \/ ResultFetched \/ ReviewFetched \/ LatestFetched
Answers == \E c \in calls : Answered(c)
Losses == FetchFails \/ \E c \in calls : AnswerLost(c)

AttemptNext == Person \/ Fetches \/ Answers \/ Losses

AttemptSpec == AttemptInit /\ [][AttemptNext]_attemptVars
AttemptFairness ==
  /\ WF_attemptVars(Fetches)
  /\ \A op \in {"submit", "essay", "correct", "review"} :
       WF_attemptVars(\E c \in calls : c.op = op /\ Answered(c))
AttemptFairSpec == AttemptSpec /\ AttemptFairness

(***************************************************************************)
(* What must hold.                                                         *)
(***************************************************************************)

(* The attempts are whole, and the page shows a question of its own. *)
AttemptTypeOK ==
  /\ drawn \in 0 .. Cardinality(Ids) /\ acts \in 0 .. MaxActs /\ losses \in 0 .. MaxLosses
  /\ at \in {"away", "set", "result", "review", "entry"}
  /\ ToSet(ended) \subseteq Ids /\ IsInjective(ended)
  /\ \A k \in Keys : Exists(k) => DOMAIN attempts[k].final = ToSet(attempts[k].rows)
  /\ \A k \in Ids : Exists(k) => (attempts[k].status = "COMPLETED") = (k \in ToSet(ended))
  /\ page # None => DOMAIN page.answers = ToSet(Rows(page.kind))
  /\ at = "away" => page = None

(* No essay that waits for its assessment is passed over: the page has it still *)
(* to come, however often it was left and reopened, and a result is shown of a  *)
(* completed attempt only.                                                      *)
NothingSkipped ==
  page # None =>
    /\ page.scene = "SELF_ASSESSMENT" =>
         ToSet(Pending(page.resource)) \subseteq ToSet(page.pending)
    /\ page.scene = "RESULT" => attempts[page.resource].status = "COMPLETED"

(* An identifier never stands for two different sets of answers: what is sent *)
(* again under it is what the server may have recorded.                       *)
RetryRepeatsItself ==
  \A c \in calls : c.op = "submit" /\ c.phase = "sent" /\ c.k \in Ids =>
    /\ Exists(c.k) => attempts[c.k].answers = c.arg
    /\ page # None /\ page.request # None /\ page.request.id = c.k => page.request.answers = c.arg

(* A person who has left the result is not taken to the review it asked for: *)
(* only the page in front, or the review route, opens a review by itself.    *)
ReviewOnlyFromHere ==
  [][at' = "review" /\ at # "review" /\ calls' # calls =>
       \E c \in calls \ calls' :
         /\ c.op = "review"
         /\ c.route = "entry" \/ (Showing("RESULT", page.sheet) /\ c.mount = page.mount)]_attemptVars

(* No request keeps its button locked. *)
RequestsSettle ==
  \A op \in {"submit", "essay", "correct", "review"} :
    (page # None /\ Busy(op)) ~> ~(page # None /\ Busy(op))

=============================================================================
