---------------------------- MODULE GradeRelease ----------------------------
(***************************************************************************)
(* The submissions and grades of one assignment, and Google                *)
(* Classroom.  Grades are pushed to Classroom one by one, as drafts or     *)
(* released to the students, and the database learns of it at one commit   *)
(* at the end of the batch, or never.  Submissions are ingested from       *)
(* Classroom, regraded and deleted while that goes on.                     *)
(***************************************************************************)
EXTENDS Requests

CONSTANTS
  Subs,         \* the students of the course, one submission each at most
  MaxFaults,    \* processes lost and sends that fail, at most (a bound)
  Courses       \* what there is when the behaviour starts

ASSUME ReleaseAssumption == MaxFaults \in Nat

VARIABLES
  coding,       \* assignment.has_code_question
  submission,   \* per student: the row, and whether its file is on the disk
  grades,       \* per student: the grade rows
  audits,       \* per student: the audit entries, but for those of a grade or a job
  classroom,    \* per student: what Classroom has
  sent,         \* <<student, ingest>>: the OCR messages sent
  outcome,      \* per request: how it ended
  drafted,      \* <<student, grade>>: rows a draft push has marked
  contended,    \* students two releases of whom were under way together
  disturbed     \* students whose deletion another row was in the way of

tables == <<submission, grades, audits>>
history == <<outcome, drafted, contended, disturbed>>
vars == <<requests, coding, tables, classroom, sent, history>>

-----------------------------------------------------------------------------
(***************************************************************************)
(* A submission: the ingest that made the row (0: it was there), the one   *)
(* its file is from, whether the file is on the disk, whether its status   *)
(* says that OCR is due, and its code-eval jobs: none, one without a       *)
(* grade, one that refers to a grade.                                      *)
(***************************************************************************)
Submissions == [there : BOOLEAN, id : 0 .. MaxRequests, upload : 0 .. MaxRequests, 
                file : BOOLEAN, pending : BOOLEAN, jobs : {"none", "open", "graded"}]
NoSubmission == [there |-> FALSE, id |-> 0, upload |-> 0, file |-> FALSE, pending |-> FALSE,
                 jobs |-> "none"]

\* A grade and its score go by the request that made them (0 at first), and so does the
\* audit entry that is made with it, and any other.
GradeIds == 0 .. MaxRequests
Grades == [id : GradeIds, active : BOOLEAN, status : {"not_synced", "draft", "released"}]

\* The grade last patched into assignedGrade, and those students were shown, by whom.
NoGrade == MaxRequests + 1
Classrooms == [assigned : GradeIds \cup {NoGrade}, returned : SUBSET (GradeIds \X Ids)]

\* Nothing is released, every row has its file, and a student has one grade at most when
\* Classroom comes into play.
ASSUME CoursesAssumption ==
  \A c \in Courses :
    /\ c.coding \in BOOLEAN
    /\ c.submission \in [Subs -> {row \in Submissions : row.id = 0 /\ row.upload = 0
                                                      /\ (row.there => row.file)}]
    /\ c.grades \in [Subs -> SUBSET {g \in Grades : g.id = 0 /\ g.status # "released"}]
    /\ \A s \in Subs : \A g, h \in c.grades[s] : g = h

Init ==
  /\ \E c \in Courses :
       /\ RequestsInit(c.expected)
       /\ coding = c.coding
       /\ submission = c.submission
       /\ grades = c.grades
  /\ audits = [s \in Subs |-> {}]
  /\ classroom = [s \in Subs |-> [assigned |-> NoGrade, returned |-> {}]]
  /\ sent = {}
  /\ outcome = [i \in Ids |-> "none"]
  /\ drafted = {}
  /\ contended = {}
  /\ disturbed = {}

Runs(i) == request[i].step \notin {"awaited", "over"}

Of(kinds) == {i \in Ids : Runs(i) /\ request[i].kind \in kinds}

Ends(i, how) ==
  /\ Moves(i, Over)
  /\ outcome' = [outcome EXCEPT ![i] = how]

\* One item of a batch is done with.
Drops(i, s) == Moves(i, [request[i] EXCEPT !.step = "open", !.left = @ \ {s}])

Cuts == {i \in Ids : outcome[i] = "cut"}
Fault == Cardinality(Cuts) < MaxFaults

\* The process of a request ends; what it has not committed is gone.
ProcessEnds(i) ==
  /\ Fault
  /\ Runs(i)
  /\ Ends(i, "cut")
  /\ UNCHANGED <<coding, tables, classroom, sent, drafted, contended, disturbed>>
-----------------------------------------------------------------------------
(***************************************************************************)
(* Pushes.  "release" and "draft" are POST /grades/release and /draft,     *)
(* which record what they pushed; "release_all" and "draft_all" are the    *)
(* endpoints of one assignment, which do not.                              *)
(***************************************************************************)
Releases == {"release", "release_all"}
Pushes == Releases \cup {"draft", "draft_all"}

OpenPush(i, kind, batch) ==
  /\ Arrives(i, kind)
  /\ kind \in {"release_all", "draft_all"} => batch = {s \in Subs : submission[s].there}
  /\ Moves(i, [step |-> "open", kind |-> kind, batch |-> batch, left |-> batch, marks |-> {}])
  /\ contended' = IF kind \in Releases
                  THEN contended \cup {s \in batch : \E j \in Of(Releases) : s \in request[j].batch}
                  ELSE contended
  /\ UNCHANGED <<coding, tables, classroom, sent, outcome, drafted, disturbed>>

\* (mutant) The query of the grade has lost its filter.
AnyGrade(s) == grades[s]

Active(s) == {g \in grades[s] : g.active}

\* The grade is read; a submission without one is an error of the answer.
ReadGrade(i) ==
  /\ i \in Of(Pushes) /\ request[i].step = "open"
  /\ \E s \in request[i].left :
       \/ \E g \in Active(s) :
            Moves(i, [step |-> "push", kind |-> request[i].kind, batch |-> request[i].batch,
                      left |-> request[i].left \ {s}, marks |-> request[i].marks,
                      sub |-> s, grade |-> g])
       \/ Active(s) = {} /\ Drops(i, s)
  /\ UNCHANGED <<coding, tables, classroom, sent, history>>

\* Back to the loop, with the grade to mark at the commit.
Marked(i) ==
  [step |-> "open", kind |-> request[i].kind, batch |-> request[i].batch,
   left |-> request[i].left,
   marks |-> request[i].marks \cup {<<request[i].sub, request[i].grade>>}]

\* Marks of what was not pushed, as well.
Unmarked(i) == [Marked(i) EXCEPT !.marks = request[i].marks]

Push(i) ==
  /\ i \in Of(Pushes) /\ request[i].step = "push"
  /\ IF request[i].kind \in Releases
     THEN /\ classroom' = [classroom EXCEPT ![request[i].sub].assigned = request[i].grade.id]
          /\ Moves(i, [request[i] EXCEPT !.step = "return"])
     ELSE /\ Moves(i, Marked(i))
          /\ UNCHANGED classroom
  /\ UNCHANGED <<coding, tables, sent, history>>

\* return_() shows the grade to the student.
Return(i) ==
  /\ i \in Of(Releases) /\ request[i].step = "return"
  /\ classroom' = [classroom EXCEPT ![request[i].sub].returned =
                     @ \cup {<<request[i].grade.id, i>>}]
  /\ Moves(i, Marked(i))
  /\ UNCHANGED <<coding, tables, sent, history>>

\* (mutant) The row is marked although the call raised.
FailsMarked(i) ==
  /\ i \in Of(Pushes) /\ request[i].step \in {"push", "return"}
  /\ Moves(i, Marked(i))
  /\ UNCHANGED <<coding, tables, classroom, sent, history>>

\* The target is not valid, or a call of Classroom raises: an error of the answer.
PushFails(i) ==
  /\ i \in Of(Pushes) /\ request[i].step \in {"push", "return"}
  /\ Moves(i, Unmarked(i))
  /\ UNCHANGED <<coding, tables, classroom, sent, history>>

\* (mutant) The status is the name of the operation.
MarkOfKind(kind) == kind

MarkOf(kind) == IF kind = "release" THEN "released" ELSE "draft"

\* (mutant) The status is set after the loop, on the last grade only.
MarkedLast(i, s, g) ==
  IF /\ request[i].marks # {}
     /\ LET m == CHOOSE x \in request[i].marks : TRUE IN m[1] = s /\ m[2].id = g.id
  THEN [g EXCEPT !.status = MarkOf(request[i].kind)] ELSE g

\* What the commit makes of row g: the status changes if it is not the one loaded.
MarkedRow(i, s, g) ==
  IF \E m \in request[i].marks :
       m[1] = s /\ m[2].id = g.id /\ m[2].status # MarkOf(request[i].kind)
  THEN [g EXCEPT !.status = MarkOf(request[i].kind)] ELSE g

\* Students whose deletion fails together with that of s, which has gone past s.
BatchMates(s) ==
  UNION {request[j].batch :
           j \in {k \in Of({"delete"}) : s \in request[k].batch \ request[k].left}}

\* A release adds an audit entry and both update rows that change: these must be there.
MarksMatch(i) ==
  \A m \in request[i].marks :
    request[i].kind = "release" \/ m[2].status # "draft" =>
      \E g \in grades[m[1]] : g.id = m[2].id

\* The students a release has an audit entry for.
Audited(i) == IF request[i].kind = "release" THEN {m[1] : m \in request[i].marks} ELSE {}

CommitMarks(i) ==
  /\ i \in Of({"release", "draft"}) /\ request[i].step = "open" /\ request[i].left = {}
  /\ IF MarksMatch(i)
     THEN /\ grades' = [s \in Subs |-> {MarkedRow(i, s, g) : g \in grades[s]}]
          /\ audits' = [s \in Subs |-> IF s \in Audited(i) THEN audits[s] \cup {i} ELSE audits[s]]
          /\ disturbed' = disturbed \cup UNION {BatchMates(s) : s \in Audited(i)}
          /\ drafted' = IF request[i].kind = "release" THEN drafted
                        ELSE drafted \cup {<<m[1], m[2].id>> : m \in request[i].marks}
          /\ Ends(i, "recorded")
     ELSE /\ Ends(i, "refused")
          /\ UNCHANGED <<grades, audits, drafted, disturbed>>
  /\ UNCHANGED <<coding, submission, classroom, sent, contended>>

EndBulk(i) ==
  /\ i \in Of({"release_all", "draft_all"})
  /\ request[i].step = "open" /\ request[i].left = {}
  /\ Ends(i, "unrecorded")
  /\ UNCHANGED <<coding, tables, classroom, sent, drafted, contended, disturbed>>

PushRuns(i) ==
  ReadGrade(i) \/ Push(i) \/ Return(i) \/ PushFails(i) \/ CommitMarks(i) \/ EndBulk(i)
-----------------------------------------------------------------------------
(* Others who write: an override or a grading task, a correction or a regrade, a dispatch *)

NewGrade(i, s) ==
  /\ Arrives(i, "grade")
  /\ submission[s].there
  /\ grades' = [grades EXCEPT ![s] = {[g EXCEPT !.active = FALSE] : g \in @} \cup
                                     {[id |-> i, active |-> TRUE, status |-> "not_synced"]}]
  /\ submission' = [submission EXCEPT ![s].pending = FALSE]
  /\ disturbed' = disturbed \cup BatchMates(s)
  /\ Ends(i, "recorded")
  /\ UNCHANGED <<coding, audits, classroom, sent, drafted, contended>>

\* PATCH /ocr-correction and POST /regrade add an audit entry, before there is a new grade.
Correct(i, s) ==
  /\ Arrives(i, "correct")
  /\ submission[s].there
  /\ audits' = [audits EXCEPT ![s] = @ \cup {i}]
  /\ \E regrade \in BOOLEAN :
       submission' = [submission EXCEPT ![s].pending = @ /\ ~regrade]
  /\ disturbed' = disturbed \cup BatchMates(s)
  /\ Ends(i, "recorded")
  /\ UNCHANGED <<coding, grades, classroom, sent, drafted, contended>>

NewJob(i, s) ==
  /\ Arrives(i, "job")
  /\ coding /\ submission[s].there
  /\ submission' = [submission EXCEPT ![s].jobs = "open"]
  /\ disturbed' = disturbed \cup
       UNION {request[j].batch : j \in {k \in Of({"delete"}) : s \in request[k].batch}}
  /\ Ends(i, "recorded")
  /\ UNCHANGED <<coding, grades, audits, classroom, sent, drafted, contended>>
-----------------------------------------------------------------------------
(* DELETE /submissions/{id} and POST /submissions/bulk-delete *)

OpenDelete(i, batch) ==
  /\ Arrives(i, "delete")
  /\ Moves(i, [step |-> "open", kind |-> "delete", batch |-> batch, left |-> batch, takes |-> {}])
  /\ disturbed' = IF \E s \in batch : submission[s].jobs # "none"
                  THEN disturbed \cup batch ELSE disturbed
  /\ UNCHANGED <<coding, tables, classroom, sent, outcome, drafted, contended>>

(***************************************************************************)
(* The file goes first, then the audit entries and the grade rows (until   *)
(* the commit only in this transaction); a job that refers to a grade      *)
(* makes that fail, which in the end rolls the whole batch back.           *)
(***************************************************************************)
\* The rows that refer to a submission and are deleted with it.
RowsOf(s) == {g.id : g \in grades[s]} \cup audits[s]

Unlink(i) ==
  /\ i \in Of({"delete"})
  /\ \E s \in request[i].left :
       IF ~submission[s].there
       THEN Drops(i, s) /\ UNCHANGED <<coding, tables, outcome>>
       ELSE /\ submission' = [submission EXCEPT ![s].file = FALSE]
            /\ IF submission[s].jobs = "graded"
               THEN Ends(i, "refused")
               ELSE /\ Moves(i, [request[i] EXCEPT !.left = @ \ {s}, !.takes = @ \cup
                           {<<s, submission[s].id, RowsOf(s)>>}])
                    /\ UNCHANGED outcome
            /\ UNCHANGED <<grades, audits>>
  /\ UNCHANGED <<coding, classroom, sent, drafted, contended, disturbed>>

\* (mutant) The grades are left for the database to object to.
WithGrades(t) == submission[t[1]].jobs # "none" \/ grades[t[1]] # {}

\* Rows refer to the submission that this transaction has not deleted.
Referred(t) ==
  submission[t[1]].jobs # "none" \/ ~(RowsOf(t[1]) \subseteq t[3])

\* The rows to delete that another request has not deleted meanwhile.
Present(i) == {t \in request[i].takes : submission[t[1]].there /\ submission[t[1]].id = t[2]}

CommitDelete(i) ==
  /\ i \in Of({"delete"}) /\ request[i].left = {}
  /\ IF \E t \in Present(i) : Referred(t)
     THEN Ends(i, "refused") /\ UNCHANGED tables
     ELSE LET out == {t[1] : t \in Present(i)} IN
          /\ submission' = [s \in Subs |-> IF s \in out THEN NoSubmission ELSE submission[s]]
          /\ grades' = [s \in Subs |-> IF s \in out THEN {} ELSE grades[s]]
          /\ audits' = [s \in Subs |-> IF s \in out THEN {} ELSE audits[s]]
          /\ Ends(i, "recorded")
  /\ UNCHANGED <<coding, classroom, sent, drafted, contended, disturbed>>
-----------------------------------------------------------------------------
(* POST /classroom/{id}/ingest *)

OpenIngest(i, force) ==
  /\ Arrives(i, "ingest")
  /\ Moves(i, [step |-> "open", kind |-> "ingest", force |-> force, left |-> Subs, takes |-> {}])
  /\ UNCHANGED <<coding, tables, classroom, sent, history>>

\* What is loaded of a student: whether there is a row, which, and if it is pending.
Loaded(s) == <<s, submission[s].there, submission[s].id, submission[s].pending>>

(***************************************************************************)
(* A student who has a row already is skipped, unless forced; so is one    *)
(* whose file is missing, cannot be downloaded or repeats another's.       *)
(***************************************************************************)
IngestOne(i) ==
  /\ i \in Of({"ingest"}) /\ request[i].step = "open"
  /\ \E s \in request[i].left :
       \/ Drops(i, s)
       \/ /\ submission[s].there => request[i].force
          /\ Moves(i, [request[i] EXCEPT !.left = @ \ {s}, !.takes = @ \cup {Loaded(s)}])
  /\ UNCHANGED <<coding, tables, classroom, sent, history>>

\* The row that was found is still there, and the same one.
Same(t) == submission[t[1]].there /\ submission[t[1]].id = t[3]

\* (mutant) Without the constraint a second row takes the place of the first.
StorableTwice(i) == \A t \in request[i].takes : t[2] => Same(t)

\* uq_submission_student, and an UPDATE must find its row.
Storable(i) ==
  \A t \in request[i].takes : IF t[2] THEN Same(t) ELSE ~submission[t[1]].there

\* A re-ingested row is updated in place: its grades and jobs stay, and so does the
\* status if the one loaded was pending already.
Ingested(i, s) ==
  [(IF submission[s].there THEN submission[s] ELSE [NoSubmission EXCEPT !.id = i]) EXCEPT
     !.there = TRUE, !.upload = i, !.file = TRUE,
     !.pending = ~coding /\ (<<s, TRUE, submission[s].id, TRUE>> \in request[i].takes => @)]

\* (mutant) Only new rows are added to summary["submission_ids"].
NewlyTaken(i) == {t[1] : t \in {u \in request[i].takes : ~u[2]}}

\* OCR is due for each row of the summary, unless it is a coding assignment.
OcrDue(i) == IF coding THEN {} ELSE {t[1] : t \in request[i].takes}

CommitIngest(i) ==
  /\ i \in Of({"ingest"}) /\ request[i].step = "open" /\ request[i].left = {}
  /\ IF Storable(i)
     THEN LET taken == {t[1] : t \in request[i].takes} IN
          /\ submission' = [s \in Subs |-> IF s \in taken THEN Ingested(i, s) ELSE submission[s]]
          /\ Moves(i, [step |-> "send", kind |-> "ingest", force |-> request[i].force,
                    left |-> OcrDue(i)])
          /\ UNCHANGED outcome
     ELSE Ends(i, "refused") /\ UNCHANGED submission
  /\ UNCHANGED <<coding, grades, audits, classroom, sent, drafted, contended, disturbed>>

SendOcr(i) ==
  /\ i \in Of({"ingest"}) /\ request[i].step = "send"
  /\ IF request[i].left = {}
     THEN Ends(i, "recorded") /\ UNCHANGED sent
     ELSE \E s \in request[i].left :
            /\ sent' = sent \cup {<<s, i>>}
            /\ Moves(i, [request[i] EXCEPT !.left = @ \ {s}])
            /\ UNCHANGED outcome
  /\ UNCHANGED <<coding, tables, classroom, drafted, contended, disturbed>>

IngestRuns(i) == IngestOne(i) \/ CommitIngest(i) \/ SendOcr(i)
-----------------------------------------------------------------------------
Next ==
  \E i \in Ids :
    \/ \E kind \in Pushes, batch \in SUBSET Subs \ {{}} : OpenPush(i, kind, batch)
    \/ PushRuns(i)
    \/ \E s \in Subs : NewGrade(i, s) \/ Correct(i, s) \/ NewJob(i, s)
    \/ \E batch \in SUBSET Subs \ {{}} : OpenDelete(i, batch)
    \/ Unlink(i) \/ CommitDelete(i)
    \/ \E force \in BOOLEAN : OpenIngest(i, force)
    \/ IngestRuns(i)
    \/ ProcessEnds(i)

Spec == Init /\ [][Next]_vars
-----------------------------------------------------------------------------
\* Types of the rows, of Classroom and of the history.
ReleaseTypeOK ==
  /\ submission \in [Subs -> Submissions]
  /\ grades \in [Subs -> SUBSET Grades]
  /\ audits \in [Subs -> SUBSET Ids]
  /\ classroom \in [Subs -> Classrooms]
  /\ sent \subseteq Subs \X Ids
  /\ \A i \in Ids :
       /\ request[i].step \in {"awaited", "open", "push", "return", "send", "over"}
       /\ outcome[i] \in {"none", "recorded", "unrecorded", "refused", "cut"}
       /\ Runs(i) => outcome[i] = "none"
  /\ drafted \subseteq Subs \X GradeIds
  /\ contended \subseteq Subs /\ disturbed \subseteq Subs

(***************************************************************************)
(* A grade recorded as released has been returned to the student: no call  *)
(* that fails, no request that ends half-way and no batch that is refused  *)
(* leaves a row released that the student cannot see.                      *)
(***************************************************************************)
ReleasedWasReturned ==
  \A s \in Subs : \A g \in grades[s] :
    g.status = "released" => \E r \in classroom[s].returned : r[1] = g.id

(***************************************************************************)
(* A grade that /grades/release returned to the student, in a batch that   *)
(* was committed, is recorded as released, whatever else ran meanwhile,    *)
(* unless a draft push has marked the row too: drafts may follow a release *)
(* and take the record back.  Batches that were cut or refused, and those  *)
(* of release_all, leave grades returned and not recorded.                 *)
(***************************************************************************)
ReturnedIsRecorded ==
  \A s \in Subs : \A g \in grades[s] : \A i \in Ids :
    (<<g.id, i>> \in classroom[s].returned /\ outcome[i] = "recorded") =>
      g.status = "released" \/ <<s, g.id>> \in drafted

(***************************************************************************)
(* The grade that is active and recorded as released is the one Classroom  *)
(* shows: grades made after a release are not taken for released, and the  *)
(* release of one replaces the one before.  Two releases of one student    *)
(* that overlap are excepted: there the older grade can be pushed last.    *)
(***************************************************************************)
ReleasedActiveIsShown ==
  \A s \in Subs \ contended : \A g \in grades[s] :
    g.active /\ g.status = "released" => classroom[s].assigned = g.id

(***************************************************************************)
(* A deletion is whole: a submission has its file for as long as it has    *)
(* its row.  It is not whole only when the process ends in between, or     *)
(* when the commit is refused for a row that refers to a submission of the *)
(* batch: a job, or a grade or an audit entry (of a release, of an OCR     *)
(* correction, of a regrade) made after the deletion had passed.           *)
(***************************************************************************)
DeleteIsWhole ==
  Cuts = {} =>
    \A s \in Subs \ disturbed :
      submission[s].there /\ ~submission[s].file =>
        \E i \in Of({"delete"}) : s \in request[i].batch

(***************************************************************************)
(* Ingest is idempotent unless forced: of a submission that is there, only *)
(* a forced ingest replaces the file and resets the status, even when two  *)
(* ingests look before either commits.                                     *)
(***************************************************************************)
IngestIsIdempotent ==
  [][\A s \in Subs :
       (submission[s].there /\ submission'[s].there
          /\ submission'[s].upload # submission[s].upload)
         => \E i \in Of({"ingest"}) : request[i].force /\ request'[i] # request[i]]_vars

(***************************************************************************)
(* Every submission an ingest has stored is sent to OCR, one ingested      *)
(* again as well, unless the ingest ends half-way or a send fails.         *)
(***************************************************************************)
IngestedIsSent ==
  \A s \in Subs : \A i \in Ids :
    (submission[s].there /\ submission[s].pending /\ submission[s].upload = i
       /\ outcome[i] = "recorded") => <<s, i>> \in sent
=============================================================================
