-------------------------- MODULE WrittenPipeline --------------------------
(***************************************************************************)
(* One written submission: the API requests that change it, the OCR task   *)
(* and the grading task that carry it from the scan to a grade, and the    *)
(* two Celery queues between them.  Submissions share no row a task        *)
(* writes, so one of them shows every interleaving.                        *)
(*                                                                         *)
(* Requests and tasks are split where the code reads, calls out and        *)
(* commits.  A commit writes the attributes that differ from what its own  *)
(* transaction read, over whatever is in the row by then.  A message sent  *)
(* after a commit is sent in the action of that commit: until a worker     *)
(* takes it nobody can tell when it was sent.                              *)
(***************************************************************************)
EXTENDS Naturals, Sequences, FiniteSets

CONSTANTS
    OcrSlots,        \* worker processes of ocr_queue, one in the deployment
    GradeSlots,      \* worker processes of grading_queue, eight in the deployment
    Handlers,        \* API request handlers that run at the same time
    MaxOcrRetries,   \* max_retries of run_ocr_task, 2 in the code
    MaxGradeRetries, \* max_retries of run_grading_task, 3 in the code
    Limit,           \* bound: how many requests of each kind are made
    MaxFaults        \* bound: how often a worker goes down

Kinds == {"upload", "correct", "regrade", "override", "process", "bulk"}

ASSUME PipelineAssumption ==
    /\ MaxOcrRetries \in Nat /\ MaxGradeRetries \in Nat /\ MaxFaults \in Nat
    /\ Limit \in [Kinds -> Nat]

VARIABLES
    row,        \* the submissions row: file_path, ocr_result, status
    grades,     \* its grades rows, in commit order
    ocrQueue,   \* messages of run_ocr_task, by the number of retries behind them
    gradeQueue, \* messages of run_grading_task, likewise
    ocr,        \* per slot of ocr_queue: the task it executes
    grading,    \* per slot of grading_queue: the task it executes
    request,    \* per handler: the request it executes
    made,       \* how many requests of each kind there have been
    faults      \* how often a worker went down

vars == <<row, grades, ocrQueue, gradeQueue, ocr, grading, request, made, faults>>

----------------------------------------------------------------------------
\* SubmissionStatus
Statuses == {"pending", "processing", "ocr_done", "grading", "graded", "failed"}
Settled == {"graded", "failed"}

\* An OCR result: the upload it was read from and the corrections made to it.
Texts == [file : Nat, edits : SUBSET Nat]

\* submission.ocr_result is None.
NoText == [file |-> 0, edits |-> {}]

GradeRows == [source : {"ai_generated", "ta_manual"}, text : Texts, active : BOOLEAN]

IdleOcr == [at |-> "idle", retries |-> 0, seen |-> "none", file |-> 0, text |-> NoText,
            permanent |-> FALSE]

OcrRuns == [at : {"idle", "mark", "read", "scan", "send", "fail"}, retries : Nat,
            seen : Statuses \cup {"none"}, file : Nat, text : Texts, permanent : BOOLEAN]

IdleGrading == [at |-> "idle", retries |-> 0, seen |-> "none", text |-> NoText,
                captured |-> {}, permanent |-> FALSE]

GradingRuns == [at : {"idle", "mark", "load", "blocked", "model", "commit", "fail"},
                retries : Nat, seen : Statuses \cup {"none"}, text : Texts,
                captured : SUBSET Nat, permanent : BOOLEAN]

NoRequest == [kind |-> "none", id |-> 0, seen |-> "none", text |-> NoText,
              captured |-> {}, sent |-> FALSE]

RequestRecords == [kind : Kinds \cup {"none"}, id : Nat, seen : Statuses \cup {"none"},
                   text : Texts, captured : SUBSET Nat, sent : BOOLEAN]

TypeOK ==
    /\ row \in [file : Nat, text : Texts, status : Statuses]
    /\ grades \in Seq(GradeRows)
    /\ ocrQueue \in [0 .. MaxOcrRetries -> Nat]
    /\ gradeQueue \in [0 .. MaxGradeRetries -> Nat]
    /\ ocr \in [OcrSlots -> OcrRuns]
    /\ grading \in [GradeSlots -> GradingRuns]
    /\ request \in [Handlers -> RequestRecords]
    /\ made \in [Kinds -> Nat]
    /\ faults \in Nat

\* The first upload has been committed and its OCR message sent.
Init ==
    /\ row = [file |-> 1, text |-> NoText, status |-> "pending"]
    /\ grades = <<>>
    /\ ocrQueue = [r \in 0 .. MaxOcrRetries |-> IF r = 0 THEN 1 ELSE 0]
    /\ gradeQueue = [r \in 0 .. MaxGradeRetries |-> 0]
    /\ ocr = [w \in OcrSlots |-> IdleOcr]
    /\ grading = [w \in GradeSlots |-> IdleGrading]
    /\ request = [h \in Handlers |-> NoRequest]
    /\ made = [k \in Kinds |-> 0]
    /\ faults = 0

----------------------------------------------------------------------------
\* What the row holds after an attribute loaded as `loaded` was set to `value`.
Flushed(loaded, value, current) == IF loaded = value THEN current ELSE value

ActiveGrades == {g \in DOMAIN grades : grades[g].active}

CommitGrade(captured, grade) ==
    Append([g \in DOMAIN grades |->
                IF g \in captured THEN [grades[g] EXCEPT !.active = FALSE] ELSE grades[g]],
           grade)

Send(queue, retries) == [queue EXCEPT ![retries] = @ + 1]
Take(queue, retries) == [queue EXCEPT ![retries] = @ - 1]

\* self.retry: the same task again, until max_retries.
Retry(queue, retries, max) == IF retries < max THEN Send(queue, retries + 1) ELSE queue

----------------------------------------------------------------------------
(* The API *)

\* A handler loads the submission.  A correction and a regrade are refused while
\* there is no OCR result.
Open(h, kind) ==
    /\ request[h] = NoRequest
    /\ made[kind] < Limit[kind]
    /\ kind \in {"correct", "regrade"} => row.text # NoText
    /\ made' = [made EXCEPT ![kind] = @ + 1]
    /\ request' = [request EXCEPT ![h] = [NoRequest EXCEPT
           !.kind = kind, !.id = made[kind] + 1, !.seen = row.status, !.text = row.text,
           !.captured = IF kind = "override" THEN ActiveGrades ELSE {}]]
    /\ UNCHANGED <<row, grades, ocrQueue, gradeQueue, ocr, grading, faults>>

Close(h, kind) ==
    /\ request[h].kind = kind
    /\ request' = [request EXCEPT ![h] = NoRequest]
    /\ UNCHANGED <<ocr, grading, made, faults>>

\* The commit sets submission.status.
SetStatus(h, status) ==
    row' = [row EXCEPT !.status = Flushed(request[h].seen, status, @)]

\* upload_submission over an existing row.  Uploads go to files of their own.
UploadCommit(h) ==
    /\ Close(h, "upload")
    /\ row' = [file |-> request[h].id + 1,
               text |-> Flushed(request[h].text, NoText, row.text),
               status |-> Flushed(request[h].seen, "pending", row.status)]
    /\ ocrQueue' = Send(ocrQueue, 0)
    /\ UNCHANGED <<grades, gradeQueue>>

\* A slip the checks must notice: no grading is asked for.
CorrectWithoutSend(h) ==
    /\ Close(h, "correct")
    /\ row' = [row EXCEPT !.text = [request[h].text EXCEPT !.edits = @ \cup {request[h].id}]]
    /\ UNCHANGED <<grades, ocrQueue, gradeQueue>>

\* ocr_correction writes the whole OCR result back, with one block edited.
CorrectCommit(h) ==
    /\ Close(h, "correct")
    /\ row' = [row EXCEPT !.text = [request[h].text EXCEPT !.edits = @ \cup {request[h].id}]]
    /\ gradeQueue' = Send(gradeQueue, 0)
    /\ UNCHANGED <<grades, ocrQueue>>

RegradeCommit(h) ==
    /\ Close(h, "regrade")
    /\ SetStatus(h, "grading")
    /\ gradeQueue' = Send(gradeQueue, 0)
    /\ UNCHANGED <<grades, ocrQueue>>

\* manual_grade_override
OverrideCommit(h) ==
    /\ Close(h, "override")
    /\ SetStatus(h, "graded")
    /\ grades' = CommitGrade(request[h].captured,
                    [source |-> "ta_manual", text |-> NoText, active |-> TRUE])
    /\ UNCHANGED <<ocrQueue, gradeQueue>>

\* A slip: a status that SubmissionStatus does not have.
QueuedStatus(h) == IF request[h].text = NoText THEN "queued" ELSE "grading"

\* Whether process and process-bulk send the submission to OCR or to grading.
NextStatus(h) == IF request[h].text = NoText THEN "pending" ELSE "grading"

SendNext(h) ==
    IF request[h].text = NoText
    THEN ocrQueue' = Send(ocrQueue, 0) /\ UNCHANGED gradeQueue
    ELSE gradeQueue' = Send(gradeQueue, 0) /\ UNCHANGED ocrQueue

\* process_submission
ProcessCommit(h) ==
    /\ Close(h, "process")
    /\ SetStatus(h, NextStatus(h))
    /\ SendNext(h)
    /\ UNCHANGED grades

\* process_submissions_bulk sends the message of each submission as it comes to it ...
BulkSend(h) ==
    /\ request[h].kind = "bulk" /\ ~request[h].sent
    /\ request' = [request EXCEPT ![h] = [@ EXCEPT !.sent = TRUE]]
    /\ SendNext(h)
    /\ UNCHANGED <<row, grades, ocr, grading, made, faults>>

\* ... and commits once, after the last of them.
BulkCommit(h) ==
    /\ request[h].sent
    /\ Close(h, "bulk")
    /\ SetStatus(h, NextStatus(h))
    /\ UNCHANGED <<grades, ocrQueue, gradeQueue>>

HandlerStep(h) ==
    \/ UploadCommit(h) \/ CorrectCommit(h) \/ RegradeCommit(h) \/ OverrideCommit(h)
    \/ ProcessCommit(h) \/ BulkSend(h) \/ BulkCommit(h)

----------------------------------------------------------------------------
(* run_ocr_task *)

\* A commit, which expires what the task has loaded.
OcrGoTo(w, step) ==
    ocr' = [ocr EXCEPT ![w] = [IdleOcr EXCEPT !.at = step, !.retries = ocr[w].retries]]

\* The submission's status, set by the commit that ends a transaction of the task.
OcrSets(w, status) == Flushed(ocr[w].seen, status, row.status)

OcrUntouched == UNCHANGED <<gradeQueue, grading, request, made, faults, grades>>

OcrStart(w) ==
    /\ ocr[w] = IdleOcr
    /\ \E r \in DOMAIN ocrQueue :
           /\ ocrQueue[r] > 0
           /\ ocrQueue' = Take(ocrQueue, r)
           /\ ocr' = [ocr EXCEPT ![w] = [IdleOcr EXCEPT
                  !.at = "mark", !.retries = r, !.seen = row.status]]
    /\ UNCHANGED row /\ OcrUntouched

OcrMark(w) ==
    /\ ocr[w].at = "mark"
    /\ row' = [row EXCEPT !.status = OcrSets(w, "processing")]
    /\ OcrGoTo(w, "read")
    /\ UNCHANGED ocrQueue /\ OcrUntouched

\* The read of file_path, which loads the row again.
OcrRead(w) ==
    /\ ocr[w].at = "read"
    /\ ocr' = [ocr EXCEPT ![w] = [@ EXCEPT !.at = "scan", !.seen = row.status,
                                           !.file = row.file, !.text = row.text]]
    /\ UNCHANGED <<row, ocrQueue>> /\ OcrUntouched

\* The engines have answered.  An answer equal to the OCR result loaded is not written.
OcrCommit(w) ==
    /\ ocr[w].at = "scan"
    /\ LET answer == [file |-> ocr[w].file, edits |-> {}]
       IN  \E text \in {answer, Flushed(ocr[w].text, answer, row.text)} :
               row' = [row EXCEPT !.text = text, !.status = OcrSets(w, "ocr_done")]
    /\ OcrGoTo(w, "send")
    /\ UNCHANGED ocrQueue /\ OcrUntouched

\* A slip: the task ends with the text stored and asks for nothing.
EndAfterOcr(w) ==
    /\ ocr[w].at = "send"
    /\ ocr' = [ocr EXCEPT ![w] = IdleOcr]
    /\ UNCHANGED <<row, ocrQueue>> /\ OcrUntouched

\* run_grading_task.delay, and the task is done.
OcrSend(w) ==
    /\ ocr[w].at = "send"
    /\ gradeQueue' = Send(gradeQueue, 0)
    /\ ocr' = [ocr EXCEPT ![w] = IdleOcr]
    /\ UNCHANGED <<row, grades, ocrQueue, grading, request, made, faults>>

\* The file is gone or an engine fails; the handler reads the submission again.
OcrFails(w) ==
    /\ ocr[w].at = "scan"
    /\ \E permanent \in BOOLEAN :
           ocr' = [ocr EXCEPT ![w] = [IdleOcr EXCEPT
               !.at = "fail", !.retries = ocr[w].retries, !.seen = row.status,
               !.permanent = permanent]]
    /\ UNCHANGED <<row, ocrQueue>> /\ OcrUntouched

OcrGivesUp(w) ==
    /\ ocr[w].at = "fail"
    /\ row' = [row EXCEPT !.status = OcrSets(w, "failed")]
    /\ ocrQueue' = IF ocr[w].permanent THEN ocrQueue
                   ELSE Retry(ocrQueue, ocr[w].retries, MaxOcrRetries)
    /\ ocr' = [ocr EXCEPT ![w] = IdleOcr]
    /\ OcrUntouched

OcrStep(w) ==
    \/ OcrStart(w) \/ OcrMark(w) \/ OcrRead(w) \/ OcrCommit(w) \/ OcrSend(w)
    \/ OcrFails(w) \/ OcrGivesUp(w)

----------------------------------------------------------------------------
(* run_grading_task *)

GradingSets(w, status) == Flushed(grading[w].seen, status, row.status)

GradingUntouched == UNCHANGED <<ocrQueue, ocr, request, made, faults>>

\* Without an OCR result the task returns at once.
GradeStart(w) ==
    /\ grading[w] = IdleGrading
    /\ \E r \in DOMAIN gradeQueue :
           /\ gradeQueue[r] > 0
           /\ gradeQueue' = Take(gradeQueue, r)
           /\ IF row.text = NoText THEN UNCHANGED grading
              ELSE grading' = [grading EXCEPT ![w] = [IdleGrading EXCEPT
                       !.at = "mark", !.retries = r, !.seen = row.status]]
    /\ UNCHANGED <<row, grades>> /\ GradingUntouched

GradeMark(w) ==
    /\ grading[w].at = "mark"
    /\ row' = [row EXCEPT !.status = GradingSets(w, "grading")]
    /\ grading' = [grading EXCEPT ![w] = [@ EXCEPT !.at = "load", !.seen = "none"]]
    /\ UNCHANGED <<grades, gradeQueue>> /\ GradingUntouched

\* The read of the rubrics and, expired by the commit, of the submission.  Instructors
\* approve and edit rubrics at any time, so there may be an approved one or not.
GradeLoad(w) ==
    /\ grading[w].at = "load"
    /\ \E next \in {"blocked", "model"} :
           grading' = [grading EXCEPT ![w] = [@ EXCEPT
               !.at = next, !.seen = row.status, !.text = row.text]]
    /\ UNCHANGED <<row, grades, gradeQueue>> /\ GradingUntouched

\* A slip: the task returns as if there were nothing to do.
ReturnWithoutRubric(w) ==
    /\ grading[w].at = "blocked"
    /\ grading' = [grading EXCEPT ![w] = IdleGrading]
    /\ UNCHANGED <<row, grades, gradeQueue>> /\ GradingUntouched

\* No approved rubric: failed, and no retry.
GradeBlocked(w) ==
    /\ grading[w].at = "blocked"
    /\ row' = [row EXCEPT !.status = GradingSets(w, "failed")]
    /\ grading' = [grading EXCEPT ![w] = IdleGrading]
    /\ UNCHANGED <<grades, gradeQueue>> /\ GradingUntouched

\* grade_submission has returned; the UPDATE that archives the active grades.
GradeArchive(w) ==
    /\ grading[w].at = "model"
    /\ grading[w].text # NoText
    /\ grading' = [grading EXCEPT ![w] = [@ EXCEPT !.at = "commit",
                                                   !.captured = ActiveGrades]]
    /\ UNCHANGED <<row, grades, gradeQueue>> /\ GradingUntouched

GradeCommit(w) ==
    /\ grading[w].at = "commit"
    /\ grades' = CommitGrade(grading[w].captured,
                    [source |-> "ai_generated", text |-> grading[w].text, active |-> TRUE])
    /\ row' = [row EXCEPT !.status = GradingSets(w, "graded")]
    /\ grading' = [grading EXCEPT ![w] = IdleGrading]
    /\ UNCHANGED gradeQueue /\ GradingUntouched

\* grade_submission raises: on the model service, on an answer without a score, or
\* because the OCR result was taken away since the task started.
GradeFails(w) ==
    /\ grading[w].at = "model"
    /\ \E permanent \in BOOLEAN :
           /\ permanent => grading[w].text # NoText
           /\ grading' = [grading EXCEPT ![w] = [@ EXCEPT
                  !.at = "fail", !.seen = row.status, !.permanent = permanent]]
    /\ UNCHANGED <<row, grades, gradeQueue>> /\ GradingUntouched

GradeGivesUp(w) ==
    /\ grading[w].at = "fail"
    /\ row' = [row EXCEPT !.status = GradingSets(w, "failed")]
    /\ gradeQueue' = IF grading[w].permanent THEN gradeQueue
                     ELSE Retry(gradeQueue, grading[w].retries, MaxGradeRetries)
    /\ grading' = [grading EXCEPT ![w] = IdleGrading]
    /\ UNCHANGED grades /\ GradingUntouched

GradeStep(w) ==
    \/ GradeStart(w) \/ GradeMark(w) \/ GradeLoad(w) \/ GradeBlocked(w)
    \/ GradeArchive(w) \/ GradeCommit(w) \/ GradeFails(w) \/ GradeGivesUp(w)

----------------------------------------------------------------------------
\* task_acks_late: the message of a task whose worker goes down comes back.
OcrWorkerDown(w) ==
    /\ faults < MaxFaults /\ faults' = faults + 1
    /\ ocr[w] # IdleOcr
    /\ ocrQueue' = Send(ocrQueue, ocr[w].retries)
    /\ ocr' = [ocr EXCEPT ![w] = IdleOcr]
    /\ UNCHANGED <<row, grades, gradeQueue, grading, request, made>>

\* run_grading_task.delay is in the try as well: where the broker refuses it, the result
\* is stored and the row still goes to failed.  The message of the retry may be refused
\* like the first.
OcrSendFails(w) ==
    /\ faults < MaxFaults /\ faults' = faults + 1
    /\ ocr[w].at = "send"
    /\ \E retryRefused \in BOOLEAN :
           ocr' = [ocr EXCEPT ![w] = [IdleOcr EXCEPT
               !.at = "fail", !.retries = ocr[w].retries, !.seen = row.status,
               !.permanent = retryRefused]]
    /\ UNCHANGED <<row, grades, ocrQueue, gradeQueue, grading, request, made>>

OcrFault(w) == OcrWorkerDown(w) \/ OcrSendFails(w)

GradeWorkerDown(w) ==
    /\ faults < MaxFaults /\ faults' = faults + 1
    /\ grading[w] # IdleGrading
    /\ gradeQueue' = Send(gradeQueue, grading[w].retries)
    /\ grading' = [grading EXCEPT ![w] = IdleGrading]
    /\ UNCHANGED <<row, grades, ocrQueue, ocr, request, made>>

Next ==
    \/ \E h \in Handlers : HandlerStep(h) \/ \E kind \in Kinds : Open(h, kind)
    \/ \E w \in OcrSlots : OcrStep(w) \/ OcrFault(w)
    \/ \E w \in GradeSlots : GradeStep(w) \/ GradeWorkerDown(w)

Spec == Init /\ [][Next]_vars

\* Workers take waiting messages and finish their tasks, handlers finish their
\* requests.  Nobody has to make a request.
Fairness ==
    /\ \A h \in Handlers : WF_vars(HandlerStep(h))
    /\ \A w \in OcrSlots : WF_vars(OcrStep(w))
    /\ \A w \in GradeSlots : WF_vars(GradeStep(w))

FairSpec == Spec /\ Fairness

----------------------------------------------------------------------------
(* What should hold *)

InFlight ==
    \/ \E r \in DOMAIN ocrQueue : ocrQueue[r] > 0
    \/ \E w \in OcrSlots : ocr[w] # IdleOcr
    \/ \E r \in DOMAIN gradeQueue : gradeQueue[r] > 0
    \/ \E w \in GradeSlots : grading[w] # IdleGrading
    \/ \E h \in Handlers : request[h] # NoRequest

\* Once nothing is under way any more, a submission shown as graded by the model is
\* graded on the text the TA sees, corrections included.  Every request re-reads or
\* overwrites the text while older gradings of it are running.
GradeIsCurrent ==
    (~InFlight /\ row.status = "graded") =>
        /\ grades # <<>>
        /\ LET newest == grades[Len(grades)]
           IN  newest.source = "ai_generated" => newest.text = row.text

\* A submission that is `grading` is waited for by a message, a task or a request.
GradingInProgress == row.status = "grading" => InFlight

\* So is one that OCR works on or has finished: whoever sets these statuses owes the
\* next step, whatever has become of the tasks, texts and messages that were there.
ScanInProgress == row.status \in {"processing", "ocr_done"} => InFlight

\* The model's grades and the TA's are entries of one ledger.
GL == INSTANCE GradeLedger WITH
          Subs <- {"this"}, Sources <- {"ai_generated", "ta_manual"},
          rows <- [g \in DOMAIN grades |-> [sub |-> "this", source |-> grades[g].source,
                                            active |-> grades[g].active]]
RefinesLedger == GL!Spec

\* A submission that has entered OCR is graded or failed in the end, through retries
\* and workers that go down, whatever the API does to the row meanwhile.
Settles == row.status \in {"processing", "ocr_done"} ~> row.status \in Settled
=============================================================================
