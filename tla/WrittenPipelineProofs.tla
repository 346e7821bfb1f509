----------------------- MODULE WrittenPipelineProofs -----------------------
(***************************************************************************)
(* What holds of WrittenPipeline for any number of worker processes,       *)
(* request handlers, retries and faults.  That types are kept and that the *)
(* grades are a ledger needs no more.  The other three results are about   *)
(* submissions that are neither uploaded again nor sent to process-bulk    *)
(* (NoRewrites): both take the OCR result or the status away from tasks    *)
(* that rely on it.                                                        *)
(*                                                                         *)
(* `grading` is always waited for, because nothing takes a text away and   *)
(* whoever sets the status owes a task that will set it again; the same    *)
(* goes for a row that OCR works on or has finished.  A grade is           *)
(* current when one process grades and none goes down, because every       *)
(* change of the text owes a grading that starts after it.                 *)
(***************************************************************************)
EXTENDS WrittenPipeline, SequenceTheorems, TLAPS

----------------------------------------------------------------------------
(* The inductive invariants *)

\* A task is never retried more often than its queue allows.
RetriesAreBounded == \A w \in GradeSlots : grading[w].retries \in 0 .. MaxGradeRetries

Typed == TypeOK /\ RetriesAreBounded

\* The premise: no upload over the row and no process-bulk.
NoRewrites == Limit["upload"] = 0 /\ Limit["bulk"] = 0

NoRewriteOpen == \A h \in Handlers : request[h].kind \notin {"upload", "bulk"}

\* OCR reads a file that was uploaded.
FilesAreStored == row.file # 0 /\ \A w \in OcrSlots : ocr[w].at = "scan" => ocr[w].file # 0

\* Until there is a text nobody has read one and nobody asks for a grading of it.
NothingToGrade ==
    row.text = NoText =>
        /\ row.status # "grading"
        /\ \A r \in DOMAIN gradeQueue : gradeQueue[r] = 0
        /\ \A w \in GradeSlots : grading[w] = IdleGrading
        /\ \A w \in OcrSlots : ocr[w].text = NoText /\ ocr[w].at # "send"
        /\ \A h \in Handlers :
               request[h].text = NoText /\ request[h].kind \notin {"correct", "regrade"}

TextInv == NoRewriteOpen /\ FilesAreStored /\ NothingToGrade

GradeMessage == \E r \in DOMAIN gradeQueue : gradeQueue[r] > 0

\* The task in slot w will set a status other than grading.
WillSettle(w) ==
    \/ grading[w].at \in {"mark", "load"}
    \/ grading[w].at \in {"blocked", "model", "commit", "fail"} /\ grading[w].seen = "grading"

GradingIsAwaited ==
    row.status = "grading" => GradeMessage \/ \E w \in GradeSlots : WillSettle(w)

OcrMessage == \E r \in DOMAIN ocrQueue : ocrQueue[r] > 0

OcrRetriesAreBounded == \A w \in OcrSlots : ocr[w].retries \in 0 .. MaxOcrRetries

\* The task in slot w will set a status other than processing.
WillScan(w) ==
    \/ ocr[w].at \in {"mark", "read"}
    \/ ocr[w].at \in {"scan", "fail"} /\ ocr[w].seen = "processing"

ScanIsAwaited == row.status = "processing" => OcrMessage \/ \E w \in OcrSlots : WillScan(w)

\* The OCR task in slot w will ask for a grading or set a status other than ocr_done.
WillAsk(w) ==
    \/ ocr[w].at \in {"mark", "read", "scan", "send"}
    \/ ocr[w].at = "fail" /\ ocr[w].seen = "ocr_done"

\* The grading task in slot w will set a status other than ocr_done.
WillTakeOver(w) ==
    \/ grading[w].at \in {"mark", "load"}
    \/ grading[w].at \in {"blocked", "model", "commit", "fail"} /\ grading[w].seen = "ocr_done"

ResultIsAwaited ==
    row.status = "ocr_done" =>
        \/ OcrMessage \/ GradeMessage
        \/ \E w \in OcrSlots : WillAsk(w)
        \/ \E w \in GradeSlots : WillTakeOver(w)

OcrIsAwaited == OcrRetriesAreBounded /\ ScanIsAwaited /\ ResultIsAwaited

\* The newest grade is the TA's, or the model's of the text as it is now.
Fresh ==
    /\ grades # <<>>
    /\ LET newest == grades[Len(grades)]
       IN  newest.source = "ai_generated" => newest.text = row.text

\* A grading that starts from now on is asked for.
Requested == GradeMessage \/ \E w \in OcrSlots : ocr[w].at = "send"

\* A text that a grading has read and that is no longer there owes another one.
OldTextIsRegraded ==
    \A w \in GradeSlots :
        grading[w].at \in {"model", "commit"} /\ grading[w].text # row.text => Requested

\* The task in slot w will grade the text, or set another status than graded.
WillGrade(w) ==
    \/ grading[w].at \in {"mark", "load", "model", "commit"}
    \/ grading[w].at \in {"blocked", "fail"} /\ grading[w].seen # "failed"

FreshOrOwed ==
    row.status = "graded" => Fresh \/ Requested \/ \E w \in GradeSlots : WillGrade(w)

CurrentInv == OldTextIsRegraded /\ FreshOrOwed

----------------------------------------------------------------------------
(* Lemmas about the operators of the model *)

\* A grade commit keeps the rows rows, and the new one is the newest.
LEMMA CommitGradeRows ==
    ASSUME NEW captured, NEW grade \in GradeRows, grades \in Seq(GradeRows)
    PROVE  LET after == CommitGrade(captured, grade) IN
           after \in Seq(GradeRows) /\ after # <<>> /\ after[Len(after)] = grade
<1> DEFINE archived == [g \in DOMAIN grades |->
               IF g \in captured THEN [grades[g] EXCEPT !.active = FALSE] ELSE grades[g]]
<1>1. Len(grades) \in Nat /\ DOMAIN grades = 1 .. Len(grades) OBVIOUS
<1>2. ASSUME NEW g \in DOMAIN grades PROVE archived[g] \in GradeRows
    <2>1. grades[g] \in GradeRows BY <1>1, <1>2
    <2>2. [grades[g] EXCEPT !.active = FALSE] \in GradeRows BY <2>1 DEF GradeRows
    <2>3. QED BY <1>2, <2>1, <2>2
<1>3. archived \in Seq(GradeRows) BY <1>1, <1>2
<1> HIDE DEF archived
<1>4. Append(archived, grade) \in Seq(GradeRows) /\ Append(archived, grade) # <<>>
      /\ LET after == Append(archived, grade) IN after[Len(after)] = grade
    BY <1>3
<1>5. CommitGrade(captured, grade) = Append(archived, grade) BY DEF CommitGrade, archived
<1>6. QED BY <1>4, <1>5

\* A queue stays a bag of messages; a message that is sent is there, others stay.
LEMMA SendKeeps ==
    ASSUME NEW max \in Nat, NEW queue \in [0 .. max -> Nat], NEW r
    PROVE  /\ Send(queue, r) \in [0 .. max -> Nat]
           /\ r \in 0 .. max => Send(queue, r)[r] > 0
           /\ \A k \in 0 .. max : queue[k] > 0 => Send(queue, r)[k] > 0
<1>1. \A k \in 0 .. max : /\ queue[k] \in Nat
                          /\ Send(queue, r)[k] = IF k = r THEN queue[k] + 1 ELSE queue[k]
    BY DEF Send
<1>2. Send(queue, r) = [k \in 0 .. max |-> Send(queue, r)[k]] BY DEF Send
<1>3. \A k \in 0 .. max : Send(queue, r)[k] \in Nat BY <1>1
<1>4. Send(queue, r) \in [0 .. max -> Nat] BY <1>2, <1>3
<1>5. QED BY <1>1, <1>4

\* Taking a message leaves the queue a count of messages for each retry number.
LEMMA TakeKeeps ==
    ASSUME NEW max \in Nat, NEW queue \in [0 .. max -> Nat], NEW r \in 0 .. max, queue[r] > 0
    PROVE  Take(queue, r) \in [0 .. max -> Nat]
    BY DEF Take

\* A retry only adds to the queue.
LEMMA RetryKeeps ==
    ASSUME NEW max \in Nat, NEW queue \in [0 .. max -> Nat], NEW r, NEW most
    PROVE  /\ Retry(queue, r, most) \in [0 .. max -> Nat]
           /\ \A k \in 0 .. max : queue[k] > 0 => Retry(queue, r, most)[k] > 0
    BY SendKeeps DEF Retry

\* A status or text is what it was, or what the commit sets.
LEMMA FlushedIs ==
    ASSUME NEW loaded, NEW value, NEW current
    PROVE  /\ Flushed(loaded, value, current) \in {value, current}
           /\ loaded # value => Flushed(loaded, value, current) = value
    BY DEF Flushed

\* No text is one of the values a text column can have.
LEMMA NoTextIsText == NoText \in Texts
    BY DEF NoText, Texts

\* What the fields of a task record may hold.
LEMMA OcrRunFields ==
    ASSUME NEW task \in OcrRuns
    PROVE  /\ task.at \in {"idle", "mark", "read", "scan", "send", "fail"}
           /\ task.retries \in Nat /\ task.seen \in Statuses \cup {"none"}
           /\ task.file \in Nat /\ task.text \in Texts /\ task.permanent \in BOOLEAN
    BY DEF OcrRuns

\* What an OCR task keeps as it goes on is a task record ...
LEMMA OcrRunSet ==
    ASSUME NEW at \in {"idle", "mark", "read", "scan", "send", "fail"}, NEW retries \in Nat
    PROVE  /\ [IdleOcr EXCEPT !.at = at, !.retries = retries] \in OcrRuns
           /\ IdleOcr \in OcrRuns
    BY NoTextIsText DEF IdleOcr, OcrRuns

\* ... also with the status it has read.
LEMMA OcrRunReads ==
    ASSUME NEW retries \in Nat, NEW seen \in Statuses \cup {"none"}
    PROVE  /\ [IdleOcr EXCEPT !.at = "mark", !.retries = retries, !.seen = seen] \in OcrRuns
           /\ \A permanent \in BOOLEAN :
                  [IdleOcr EXCEPT !.at = "fail", !.retries = retries, !.seen = seen,
                                  !.permanent = permanent] \in OcrRuns
    BY NoTextIsText DEF IdleOcr, OcrRuns

----------------------------------------------------------------------------
(* Type correctness *)

\* Types hold when the first upload is stored.
LEMMA InitTyped == Init => Typed
<1> SUFFICES ASSUME Init PROVE Typed OBVIOUS
<1>1. MaxOcrRetries \in Nat /\ MaxGradeRetries \in Nat BY PipelineAssumption
<1>2. row \in [file : Nat, text : Texts, status : Statuses]
    BY NoTextIsText DEF Init, Statuses
<1>3. grades \in Seq(GradeRows) BY DEF Init
<1>4. ocrQueue \in [0 .. MaxOcrRetries -> Nat] /\ gradeQueue \in [0 .. MaxGradeRetries -> Nat]
    BY <1>1 DEF Init
<1>5. IdleOcr \in OcrRuns /\ IdleGrading \in GradingRuns /\ NoRequest \in RequestRecords
    BY NoTextIsText DEF IdleOcr, OcrRuns, IdleGrading, GradingRuns, NoRequest, RequestRecords
<1>6. IdleGrading.retries = 0 BY DEF IdleGrading
<1>7. /\ ocr \in [OcrSlots -> OcrRuns] /\ grading \in [GradeSlots -> GradingRuns]
      /\ request \in [Handlers -> RequestRecords] /\ made \in [Kinds -> Nat] /\ faults \in Nat
    BY <1>5 DEF Init
<1>8. RetriesAreBounded BY <1>1, <1>6 DEF Init, RetriesAreBounded
<1>9. QED BY <1>2, <1>3, <1>4, <1>7, <1>8 DEF Typed, TypeOK

Rows == [file : Nat, text : Texts, status : Statuses]

\* The row as a commit leaves it.
LEMMA RowSet ==
    ASSUME row \in Rows, NEW status \in Statuses, NEW text \in Texts
    PROVE  /\ [row EXCEPT !.status = status] \in Rows
           /\ [row EXCEPT !.text = text] \in Rows
           /\ [row EXCEPT !.text = text, !.status = status] \in Rows
    BY DEF Rows

\* The columns of the submission's row.
LEMMA RowFields ==
    ASSUME row \in Rows
    PROVE  row.status \in Statuses /\ row.text \in Texts /\ row.file \in Nat
    BY DEF Rows

\* Every status the code sets is a SubmissionStatus.
LEMMA StatusIsSet ==
    ASSUME row \in Rows, NEW seen
    PROVE  \A value \in Statuses : Flushed(seen, value, row.status) \in Statuses
    BY FlushedIs, RowFields

\* A correction adds to a text.
LEMMA CorrectedIsText ==
    ASSUME NEW text \in Texts, NEW id \in Nat
    PROVE  LET after == [text EXCEPT !.edits = @ \cup {id}] IN
           after \in Texts /\ after.edits # {} /\ after # NoText
    BY DEF Texts, NoText

\* The requests.
LEMMA OpenTyped ==
    ASSUME Typed, NEW h \in Handlers, NEW kind \in Kinds, Open(h, kind)
    PROVE  Typed'
<1>1. row \in Rows /\ made \in [Kinds -> Nat] /\ request \in [Handlers -> RequestRecords]
    BY DEF Typed, TypeOK, Rows
<1>2. made' \in [Kinds -> Nat] BY <1>1 DEF Open
<1>3. grades \in Seq(GradeRows) BY DEF Typed, TypeOK
<1>4. ActiveGrades \in SUBSET Nat BY <1>3 DEF ActiveGrades
<1>5. (IF kind = "override" THEN ActiveGrades ELSE {}) \in SUBSET Nat BY <1>4
<1>6. made[kind] + 1 \in Nat /\ row.status \in Statuses \cup {"none"} /\ row.text \in Texts
    BY <1>1, RowFields
<1>7. ASSUME NEW captured \in SUBSET Nat
      PROVE  [NoRequest EXCEPT !.kind = kind, !.id = made[kind] + 1, !.seen = row.status,
                               !.text = row.text, !.captured = captured] \in RequestRecords
    BY <1>6 DEF NoRequest, RequestRecords
<1>8. request' \in [Handlers -> RequestRecords] BY <1>1, <1>5, <1>7 DEF Open
<1>9. QED BY <1>2, <1>8 DEF Open, Typed, TypeOK, RetriesAreBounded

\* A request handler keeps the types.
LEMMA HandlerTyped ==
    ASSUME Typed, NEW h \in Handlers, HandlerStep(h)
    PROVE  Typed'
<1> DEFINE r == request[h]
<1>1. /\ row \in Rows /\ grades \in Seq(GradeRows) /\ r \in RequestRecords
      /\ request \in [Handlers -> RequestRecords]
      /\ MaxOcrRetries \in Nat /\ MaxGradeRetries \in Nat
      /\ ocrQueue \in [0 .. MaxOcrRetries -> Nat]
      /\ gradeQueue \in [0 .. MaxGradeRetries -> Nat]
    BY PipelineAssumption DEF Typed, TypeOK, Rows
<1>2. r.id \in Nat /\ r.text \in Texts /\ r.captured \in SUBSET Nat
    BY <1>1 DEF RequestRecords
<1>3. UNCHANGED <<ocr, grading, made, faults>>
    BY DEF HandlerStep, UploadCommit, CorrectCommit, RegradeCommit, OverrideCommit,
           ProcessCommit, BulkSend, BulkCommit, Close
<1>4. request' \in [Handlers -> RequestRecords]
    <2>1. NoRequest \in RequestRecords BY NoTextIsText DEF NoRequest, RequestRecords
    <2>2. [r EXCEPT !.sent = TRUE] \in RequestRecords BY <1>1 DEF RequestRecords
    <2>3. \E next \in RequestRecords : request' = [request EXCEPT ![h] = next]
        BY <2>1, <2>2 DEF HandlerStep, UploadCommit, CorrectCommit, RegradeCommit,
           OverrideCommit, ProcessCommit, BulkSend, BulkCommit, Close
    <2>4. QED BY <1>1, <2>3
<1>5. Send(ocrQueue, 0) \in [0 .. MaxOcrRetries -> Nat]
      /\ Send(gradeQueue, 0) \in [0 .. MaxGradeRetries -> Nat]
    BY <1>1, SendKeeps
<1>6. /\ ocrQueue' \in [0 .. MaxOcrRetries -> Nat]
      /\ gradeQueue' \in [0 .. MaxGradeRetries -> Nat]
    BY <1>1, <1>5 DEF HandlerStep, UploadCommit, CorrectCommit, RegradeCommit,
       OverrideCommit, ProcessCommit, BulkSend, BulkCommit, SendNext
<1>7. grades' \in Seq(GradeRows)
    <2>1. [source |-> "ta_manual", text |-> NoText, active |-> TRUE] \in GradeRows
        BY NoTextIsText DEF GradeRows
    <2>2. OverrideCommit(h) => grades' \in Seq(GradeRows)
        BY <1>1, <2>1, CommitGradeRows DEF OverrideCommit
    <2>3. OverrideCommit(h) \/ grades' = grades
        BY DEF HandlerStep, UploadCommit, CorrectCommit, RegradeCommit, ProcessCommit,
               BulkSend, BulkCommit
    <2>4. QED BY <1>1, <2>2, <2>3
<1>8. row' \in Rows
    <2>1. ASSUME NEW status \in Statuses, SetStatus(h, status) PROVE row' \in Rows
        BY <1>1, <2>1, StatusIsSet, RowSet, NoTextIsText DEF SetStatus
    <2>2. CASE UploadCommit(h)
        <3>1. Flushed(r.text, NoText, row.text) \in Texts
            BY <1>1, FlushedIs, RowFields, NoTextIsText
        <3>2. Flushed(r.seen, "pending", row.status) \in Statuses
            BY <1>1, StatusIsSet DEF Statuses
        <3>3. QED BY <1>2, <2>2, <3>1, <3>2 DEF UploadCommit, Rows
    <2>3. CASE CorrectCommit(h)
        BY <1>1, <1>2, <2>3, CorrectedIsText, RowSet DEF CorrectCommit, Statuses
    <2>4. CASE RegradeCommit(h) BY <2>1, <2>4 DEF RegradeCommit, Statuses
    <2>5. CASE OverrideCommit(h) BY <2>1, <2>5 DEF OverrideCommit, Statuses
    <2>6. NextStatus(h) \in Statuses BY DEF NextStatus, Statuses
    <2>7. CASE ProcessCommit(h) BY <2>1, <2>6, <2>7 DEF ProcessCommit
    <2>8. CASE BulkSend(h) BY <1>1, <2>8 DEF BulkSend
    <2>9. CASE BulkCommit(h) BY <2>1, <2>6, <2>9 DEF BulkCommit
    <2>10. QED BY <2>2, <2>3, <2>4, <2>5, <2>7, <2>8, <2>9 DEF HandlerStep
<1>9. QED BY <1>3, <1>4, <1>6, <1>7, <1>8 DEF Typed, TypeOK, Rows, RetriesAreBounded

\* The OCR task.
LEMMA OcrTyped ==
    ASSUME Typed, NEW w \in OcrSlots, OcrStep(w)
    PROVE  Typed'
<1> DEFINE task == ocr[w]
<1>1. /\ row \in Rows /\ task \in OcrRuns /\ ocr \in [OcrSlots -> OcrRuns]
      /\ MaxOcrRetries \in Nat /\ MaxGradeRetries \in Nat
      /\ ocrQueue \in [0 .. MaxOcrRetries -> Nat]
      /\ gradeQueue \in [0 .. MaxGradeRetries -> Nat]
    BY PipelineAssumption DEF Typed, TypeOK, Rows
<1>2. task.retries \in Nat /\ task.file \in Nat BY <1>1, OcrRunFields
<1>3. row.status \in Statuses \cup {"none"} /\ row.text \in Texts /\ row.file \in Nat
    BY <1>1, RowFields
<1>4. UNCHANGED <<grading, request, made, faults, grades>>
    BY DEF OcrStep, OcrStart, OcrMark, OcrRead, OcrCommit, OcrSend, OcrFails, OcrGivesUp,
           OcrUntouched
<1>5. ocr' \in [OcrSlots -> OcrRuns]
    <2>1. ASSUME NEW next \in OcrRuns, ocr' = [ocr EXCEPT ![w] = next]
          PROVE  ocr' \in [OcrSlots -> OcrRuns]
        BY <1>1, <2>1
    <2>2. CASE OcrStart(w)
        <3>1. PICK k \in 0 .. MaxOcrRetries : ocr' = [ocr EXCEPT ![w] = [IdleOcr EXCEPT
                                !.at = "mark", !.retries = k, !.seen = row.status]]
            BY <1>1, <2>2 DEF OcrStart
        <3>2. k \in Nat BY <1>1
        <3>3. QED BY <1>3, <2>1, <3>1, <3>2, OcrRunReads
    <2>3. ASSUME NEW step \in {"read", "send"}, OcrGoTo(w, step)
          PROVE  ocr' \in [OcrSlots -> OcrRuns]
        BY <1>2, <2>1, <2>3, OcrRunSet DEF OcrGoTo
    <2>4. CASE OcrMark(w) BY <2>3, <2>4 DEF OcrMark
    <2>5. CASE OcrCommit(w) BY <2>3, <2>5 DEF OcrCommit
    <2>6. CASE OcrRead(w)
        <3>1. [task EXCEPT !.at = "scan", !.seen = row.status, !.file = row.file,
                           !.text = row.text] \in OcrRuns
            BY <1>1, <1>3 DEF OcrRuns
        <3>2. QED BY <2>1, <2>6, <3>1 DEF OcrRead
    <2>7. CASE OcrFails(w)
        BY <1>2, <1>3, <2>1, <2>7, OcrRunReads DEF OcrFails
    <2>8. CASE OcrSend(w) \/ OcrGivesUp(w)
        BY <2>1, <2>8, OcrRunSet, <1>2, <1>3 DEF OcrSend, OcrGivesUp
    <2>9. QED BY <2>2, <2>4, <2>5, <2>6, <2>7, <2>8 DEF OcrStep
<1>6. ocrQueue' \in [0 .. MaxOcrRetries -> Nat]
    <2>1. CASE OcrStart(w) BY <1>1, <2>1, TakeKeeps DEF OcrStart
    <2>2. CASE OcrGivesUp(w) BY <1>1, <2>2, RetryKeeps DEF OcrGivesUp
    <2>3. QED BY <1>1, <2>1, <2>2 DEF OcrStep, OcrMark, OcrRead, OcrCommit, OcrSend, OcrFails
<1>7. gradeQueue' \in [0 .. MaxGradeRetries -> Nat]
    <2>1. CASE OcrSend(w) BY <1>1, <2>1, SendKeeps DEF OcrSend
    <2>2. QED BY <1>1, <2>1 DEF OcrStep, OcrStart, OcrMark, OcrRead, OcrCommit, OcrFails,
              OcrGivesUp, OcrUntouched
<1>8. row' \in Rows
    <2>1. \A status \in {"processing", "ocr_done", "failed"} : OcrSets(w, status) \in Statuses
        BY <1>1, StatusIsSet DEF OcrSets, Statuses
    <2>2. CASE OcrMark(w) BY <1>1, <1>3, <2>1, <2>2, RowSet DEF OcrMark
    <2>3. CASE OcrGivesUp(w) BY <1>1, <1>3, <2>1, <2>3, RowSet DEF OcrGivesUp
    <2>4. CASE OcrCommit(w)
        <3> DEFINE answer == [file |-> task.file, edits |-> {}]
        <3>1. answer \in Texts BY <1>2 DEF Texts
        <3>2. Flushed(task.text, answer, row.text) \in Texts BY <1>3, <3>1, FlushedIs
        <3>3. PICK text \in {answer, Flushed(task.text, answer, row.text)} :
                  row' = [row EXCEPT !.text = text, !.status = OcrSets(w, "ocr_done")]
            BY <2>4 DEF OcrCommit
        <3>4. text \in Texts /\ OcrSets(w, "ocr_done") \in Statuses BY <2>1, <3>1, <3>2
        <3> HIDE DEF answer
        <3>5. QED BY <1>1, <3>3, <3>4, RowSet
    <2>5. QED BY <1>1, <2>2, <2>3, <2>4 DEF OcrStep, OcrStart, OcrRead, OcrSend, OcrFails
<1>9. QED BY <1>4, <1>5, <1>6, <1>7, <1>8 DEF Typed, TypeOK, Rows, RetriesAreBounded

\* The grading tasks there are.
GradingTasks == {task \in GradingRuns : task.retries \in 0 .. MaxGradeRetries}

\* What a grading task keeps as it goes on is a task record ...
LEMMA GradingTaskSet ==
    ASSUME NEW task \in GradingTasks, NEW seen \in Statuses \cup {"none"}, NEW text \in Texts,
           NEW captured \in SUBSET Nat, NEW permanent \in BOOLEAN
    PROVE  /\ [task EXCEPT !.at = "load", !.seen = "none"] \in GradingTasks
           /\ [task EXCEPT !.at = "commit", !.captured = captured] \in GradingTasks
           /\ \A next \in {"blocked", "model"} :
                  [task EXCEPT !.at = next, !.seen = seen, !.text = text] \in GradingTasks
           /\ [task EXCEPT !.at = "fail", !.seen = seen, !.permanent = permanent]
                  \in GradingTasks
    BY DEF GradingTasks, GradingRuns

\* ... and so is what it starts from.
LEMMA GradingTaskFresh ==
    ASSUME NEW retries \in 0 .. MaxGradeRetries, NEW seen \in Statuses \cup {"none"}
    PROVE  /\ IdleGrading \in GradingTasks
           /\ [IdleGrading EXCEPT !.at = "mark", !.retries = retries, !.seen = seen]
                  \in GradingTasks
<1>1. MaxGradeRetries \in Nat BY PipelineAssumption
<1>2. 0 \in 0 .. MaxGradeRetries /\ 0 \in Nat /\ retries \in Nat BY <1>1
<1>3. IdleGrading \in GradingTasks
    BY <1>2, NoTextIsText DEF GradingTasks, GradingRuns, IdleGrading
<1>4. [IdleGrading EXCEPT !.at = "mark", !.retries = retries, !.seen = seen] \in GradingRuns
    BY <1>2, NoTextIsText DEF GradingRuns, IdleGrading
<1>5. [IdleGrading EXCEPT !.at = "mark", !.retries = retries, !.seen = seen].retries = retries
    BY DEF IdleGrading
<1>6. QED BY <1>3, <1>4, <1>5 DEF GradingTasks

\* A step of a grading task keeps the types.
LEMMA GradeTyped ==
    ASSUME Typed, NEW w \in GradeSlots, GradeStep(w)
    PROVE  Typed'
<1> DEFINE task == grading[w]
<1>1. /\ row \in Rows /\ grades \in Seq(GradeRows) /\ task \in GradingTasks
      /\ grading \in [GradeSlots -> GradingTasks]
      /\ MaxOcrRetries \in Nat /\ MaxGradeRetries \in Nat
      /\ gradeQueue \in [0 .. MaxGradeRetries -> Nat]
    BY PipelineAssumption DEF Typed, TypeOK, Rows, RetriesAreBounded, GradingTasks
<1>2. row.status \in Statuses \cup {"none"} /\ row.text \in Texts BY <1>1, RowFields
<1>3. UNCHANGED <<ocrQueue, ocr, request, made, faults>>
    BY DEF GradeStep, GradeStart, GradeMark, GradeLoad, GradeBlocked, GradeArchive,
           GradeCommit, GradeFails, GradeGivesUp, GradingUntouched
<1>4. grading' \in [GradeSlots -> GradingTasks]
    <2>1. ASSUME NEW next \in GradingTasks, grading' = [grading EXCEPT ![w] = next]
          PROVE  grading' \in [GradeSlots -> GradingTasks]
        BY <1>1, <2>1
    <2>2. "none" \in Statuses \cup {"none"} /\ {} \in SUBSET Nat /\ TRUE \in BOOLEAN OBVIOUS
    <2>3. CASE GradeStart(w)
        <3>1. PICK k \in 0 .. MaxGradeRetries :
                  \/ grading' = grading
                  \/ grading' = [grading EXCEPT ![w] = [IdleGrading EXCEPT
                         !.at = "mark", !.retries = k, !.seen = row.status]]
            BY <1>1, <2>3 DEF GradeStart
        <3>2. QED BY <1>1, <1>2, <2>1, <3>1, GradingTaskFresh
    <2>4. CASE GradeMark(w)
        BY <1>1, <1>2, <2>1, <2>2, <2>4, GradingTaskSet DEF GradeMark
    <2>5. CASE GradeLoad(w)
        BY <1>1, <1>2, <2>1, <2>2, <2>5, GradingTaskSet DEF GradeLoad
    <2>6. CASE GradeArchive(w)
        <3>1. ActiveGrades \in SUBSET Nat BY <1>1 DEF ActiveGrades
        <3>2. QED BY <1>1, <1>2, <2>1, <2>2, <2>6, <3>1, GradingTaskSet DEF GradeArchive
    <2>7. CASE GradeFails(w)
        BY <1>1, <1>2, <2>1, <2>2, <2>7, GradingTaskSet DEF GradeFails
    <2>8. CASE GradeBlocked(w) \/ GradeCommit(w) \/ GradeGivesUp(w)
        <3>1. 0 \in 0 .. MaxGradeRetries BY <1>1
        <3>2. IdleGrading \in GradingTasks BY <1>2, <3>1, GradingTaskFresh
        <3>3. QED BY <2>1, <2>8, <3>2 DEF GradeBlocked, GradeCommit, GradeGivesUp
    <2>9. QED BY <2>3, <2>4, <2>5, <2>6, <2>7, <2>8 DEF GradeStep
<1>5. gradeQueue' \in [0 .. MaxGradeRetries -> Nat]
    <2>1. CASE GradeStart(w) BY <1>1, <2>1, TakeKeeps DEF GradeStart
    <2>2. CASE GradeGivesUp(w) BY <1>1, <2>2, RetryKeeps DEF GradeGivesUp
    <2>3. QED BY <1>1, <2>1, <2>2 DEF GradeStep, GradeMark, GradeLoad, GradeBlocked,
              GradeArchive, GradeCommit, GradeFails
<1>6. grades' \in Seq(GradeRows)
    <2>1. CASE GradeCommit(w)
        <3>1. [source |-> "ai_generated", text |-> task.text, active |-> TRUE] \in GradeRows
            BY <1>1 DEF GradeRows, GradingTasks, GradingRuns
        <3>2. QED BY <1>1, <2>1, <3>1, CommitGradeRows DEF GradeCommit
    <2>2. QED BY <1>1, <2>1 DEF GradeStep, GradeStart, GradeMark, GradeLoad, GradeBlocked,
              GradeArchive, GradeFails, GradeGivesUp
<1>7. row' \in Rows
    <2>1. \A status \in {"grading", "failed", "graded"} : GradingSets(w, status) \in Statuses
        BY <1>1, StatusIsSet DEF GradingSets, Statuses
    <2>2. ASSUME NEW status \in {"grading", "failed", "graded"},
                 row' = [row EXCEPT !.status = GradingSets(w, status)]
          PROVE  row' \in Rows
        BY <1>1, <1>2, <2>1, <2>2, RowSet
    <2>3. QED BY <1>1, <2>2 DEF GradeStep, GradeStart, GradeMark, GradeLoad, GradeBlocked,
              GradeArchive, GradeCommit, GradeFails, GradeGivesUp
<1>8. QED
    BY <1>3, <1>4, <1>5, <1>6, <1>7
       DEF Typed, TypeOK, Rows, RetriesAreBounded, GradingTasks

\* Workers that go down.
LEMMA DownTyped ==
    ASSUME Typed,
           \/ \E w \in OcrSlots : OcrFault(w)
           \/ \E w \in GradeSlots : GradeWorkerDown(w)
    PROVE  Typed'
<1>1. /\ MaxOcrRetries \in Nat /\ MaxGradeRetries \in Nat
      /\ ocrQueue \in [0 .. MaxOcrRetries -> Nat]
      /\ gradeQueue \in [0 .. MaxGradeRetries -> Nat]
      /\ ocr \in [OcrSlots -> OcrRuns] /\ grading \in [GradeSlots -> GradingTasks]
      /\ faults \in Nat /\ faults + 1 \in Nat
    BY PipelineAssumption DEF Typed, TypeOK, RetriesAreBounded, GradingTasks
<1>2. IdleOcr \in OcrRuns /\ IdleGrading \in GradingTasks
    BY <1>1, NoTextIsText DEF IdleOcr, OcrRuns, GradingTasks, GradingRuns, IdleGrading
<1>3. CASE \E w \in OcrSlots : OcrFault(w)
    <2>1. PICK w \in OcrSlots : OcrFault(w) BY <1>3
    <2>2. CASE OcrWorkerDown(w)
        <3>1. ocrQueue' \in [0 .. MaxOcrRetries -> Nat]
            BY <1>1, <2>2, SendKeeps DEF OcrWorkerDown
        <3>2. ocr' \in [OcrSlots -> OcrRuns] BY <1>1, <1>2, <2>2 DEF OcrWorkerDown
        <3>3. QED
            BY <1>1, <2>2, <3>1, <3>2 DEF OcrWorkerDown, Typed, TypeOK, RetriesAreBounded
    <2>3. CASE OcrSendFails(w)
        <3>1. ocr[w].retries \in Nat /\ row.status \in Statuses \cup {"none"}
            BY <1>1, OcrRunFields, RowFields DEF Typed, TypeOK, Rows
        <3>2. PICK refused \in BOOLEAN : ocr' = [ocr EXCEPT ![w] = [IdleOcr EXCEPT
                  !.at = "fail", !.retries = ocr[w].retries, !.seen = row.status,
                  !.permanent = refused]]
            BY <2>3 DEF OcrSendFails
        <3>3. [IdleOcr EXCEPT !.at = "fail", !.retries = ocr[w].retries, !.seen = row.status,
                              !.permanent = refused] \in OcrRuns
            BY <3>1, OcrRunReads
        <3>4. ocr' \in [OcrSlots -> OcrRuns] BY <1>1, <3>2, <3>3
        <3>5. QED
            BY <1>1, <2>3, <3>4 DEF OcrSendFails, Typed, TypeOK, RetriesAreBounded
    <2>4. QED BY <2>1, <2>2, <2>3 DEF OcrFault
<1>4. CASE \E w \in GradeSlots : GradeWorkerDown(w)
    <2>1. PICK w \in GradeSlots : GradeWorkerDown(w) BY <1>4
    <2>2. gradeQueue' \in [0 .. MaxGradeRetries -> Nat]
        BY <1>1, <2>1, SendKeeps DEF GradeWorkerDown
    <2>3. grading' \in [GradeSlots -> GradingTasks]
        BY <1>1, <1>2, <2>1 DEF GradeWorkerDown
    <2>4. QED
        BY <1>1, <2>1, <2>2, <2>3
           DEF GradeWorkerDown, Typed, TypeOK, RetriesAreBounded, GradingTasks
<1>5. QED BY <1>3, <1>4

\* Every step keeps the types.
LEMMA NextTyped == Typed /\ [Next]_vars => Typed'
<1>1. ASSUME Typed, Next PROVE Typed'
    BY <1>1, OpenTyped, HandlerTyped, OcrTyped, GradeTyped, DownTyped DEF Next
<1>2. ASSUME Typed, UNCHANGED vars PROVE Typed'
    BY <1>2 DEF vars, Typed, TypeOK, RetriesAreBounded
<1>3. QED BY <1>1, <1>2

\* Types hold throughout.
LEMMA TypedInvariant == Spec => []Typed
<1>1. QED BY InitTyped, NextTyped, PTL DEF Spec

\* Whatever interleaving of requests, tasks, retries and faults: the row's status is a
\* SubmissionStatus, its text one that was read from an upload, and every counter a number.
THEOREM TypesHold == Spec => []TypeOK
<1>1. Typed => TypeOK BY DEF Typed
<1>2. QED BY <1>1, TypedInvariant, PTL

----------------------------------------------------------------------------
(* The ledger of grades *)

\* A sequence one longer.
LEMMA AppendedRow ==
    ASSUME NEW S, NEW n \in Nat, NEW s \in [1 .. n -> S], NEW e \in S
    PROVE  Append(s, e) = [i \in 1 .. n + 1 |-> IF i = n + 1 THEN e ELSE s[i]]
<1>1. s \in Seq(S) /\ Len(s) = n OBVIOUS
<1>2. Append(s, e) \in Seq(S) /\ Len(Append(s, e)) = n + 1 BY <1>1
<1>3. \A i \in 1 .. n + 1 : Append(s, e)[i] = IF i = n + 1 THEN e ELSE s[i] BY <1>1
<1>4. Append(s, e) \in [1 .. n + 1 -> S] BY <1>2, LenProperties
<1>5. QED BY <1>3, <1>4

\* A ledger row out of use.
LEMMA ArchivedRow ==
    ASSUME NEW s, NEW source, NEW active
    PROVE  [[sub |-> s, source |-> source, active |-> active] EXCEPT !.active = FALSE]
               = [sub |-> s, source |-> source, active |-> FALSE]
<1> DEFINE entry == [sub |-> s, source |-> source, active |-> active]
<1>1. entry \in [sub : {s}, source : {source}, active : {active}] OBVIOUS
<1> HIDE DEF entry
<1> DEFINE archived == [entry EXCEPT !.active = FALSE]
<1>2. archived \in [sub : {s}, source : {source}, active : {FALSE}] BY <1>1
<1> HIDE DEF archived
<1>3. archived = [sub |-> s, source |-> source, active |-> FALSE] BY <1>2
<1>4. [entry EXCEPT !.active = FALSE] = [sub |-> s, source |-> source, active |-> FALSE]
    BY <1>3 DEF archived
<1>5. QED BY <1>4 DEF entry

\* A commit of a grade, with what its transaction captured, is an entry of the ledger.
LEMMA LedgerStep ==
    ASSUME Typed, NEW captured, NEW grade \in GradeRows, grade.active,
           grades' = CommitGrade(captured, grade)
    PROVE  GL!Next
<1> DEFINE Seen(g) == [sub |-> "this", source |-> g.source, active |-> g.active]
<1> DEFINE n == Len(grades)
<1>0. PICK older : older = captured \cap DOMAIN grades OBVIOUS
<1> DEFINE archived == [g \in DOMAIN grades |->
                IF g \in captured THEN [grades[g] EXCEPT !.active = FALSE] ELSE grades[g]]
<1> DEFINE seen == [g \in DOMAIN grades |-> Seen(grades[g])]
<1> DEFINE kept == [g \in DOMAIN seen |->
                IF g \in older THEN [seen[g] EXCEPT !.active = FALSE] ELSE seen[g]]
<1>1. grades \in Seq(GradeRows) BY DEF Typed, TypeOK
<1>2. n \in Nat /\ DOMAIN grades = 1 .. n BY <1>1
<1>3. \A g \in 1 .. n : grades[g] \in GradeRows BY <1>1, <1>2
<1>4. \A g \in 1 .. n : archived[g] \in GradeRows /\ Seen(archived[g]) = kept[g]
    <2>1. ASSUME NEW g \in 1 .. n PROVE archived[g] \in GradeRows /\ Seen(archived[g]) = kept[g]
        <3>1. grades[g] \in GradeRows BY <1>3
        <3>2. CASE g \in captured
            <4>1. archived[g] = [grades[g] EXCEPT !.active = FALSE] BY <1>2, <3>2
            <4>2. kept[g] = [Seen(grades[g]) EXCEPT !.active = FALSE] BY <1>0, <1>2, <3>2
            <4>3. [grades[g] EXCEPT !.active = FALSE] \in GradeRows BY <3>1 DEF GradeRows
            <4>4. Seen([grades[g] EXCEPT !.active = FALSE])
                      = [Seen(grades[g]) EXCEPT !.active = FALSE]
                <5> DEFINE off == [grades[g] EXCEPT !.active = FALSE]
                <5>1. off.source = grades[g].source /\ off.active = FALSE
                    BY <3>1 DEF GradeRows
                <5>2. [Seen(grades[g]) EXCEPT !.active = FALSE]
                          = [sub |-> "this", source |-> grades[g].source, active |-> FALSE]
                    BY ArchivedRow
                <5> HIDE DEF off
                <5>3. QED BY <5>1, <5>2
            <4>5. QED BY <4>1, <4>2, <4>3, <4>4
        <3>3. CASE g \notin captured BY <1>0, <1>2, <3>1, <3>3
        <3>4. QED BY <3>2, <3>3
    <2>2. QED BY <2>1
<1>5. archived \in [1 .. n -> GradeRows] /\ kept = [g \in 1 .. n |-> kept[g]]
    BY <1>2, <1>4
<1>6. grades' = Append(archived, grade) BY DEF CommitGrade
<1>7. Seen(grade) \in GL!NewRows BY DEF GL!NewRows, GradeRows
<1>8. GL!Commit(Seen(grade), older)
    <2>1. \A g \in older : seen[g].sub = Seen(grade).sub BY <1>0
    <2>2. [g \in DOMAIN grades' |-> Seen(grades'[g])] = Append(kept, Seen(grade))
        <3> HIDE DEF archived, kept, seen
        <3>1. grades' = [g \in 1 .. n + 1 |-> IF g = n + 1 THEN grade ELSE archived[g]]
            <4> HIDE DEF n
            <4>1. QED BY <1>2, <1>5, <1>6, AppendedRow
        <3>2. Append(kept, Seen(grade))
                  = [g \in 1 .. n + 1 |-> IF g = n + 1 THEN Seen(grade) ELSE kept[g]]
            <4> HIDE DEF Seen
            <4> DEFINE S == {kept[g] : g \in 1 .. n} \cup {Seen(grade)}
            <4>1. kept \in [1 .. n -> S] BY <1>5
            <4>2. Seen(grade) \in S OBVIOUS
            <4> HIDE DEF S, n
            <4>3. QED BY <1>2, <4>1, <4>2, AppendedRow
        <3>3. \A g \in 1 .. n : Seen(archived[g]) = kept[g] BY <1>4
        <3> HIDE DEF Seen, n
        <3>4. \A g \in 1 .. n + 1 : g = n + 1 \/ g \in 1 .. n BY <1>2
        <3>5. DOMAIN grades' = 1 .. n + 1 BY <3>1
        <3>6. \A g \in 1 .. n + 1 :
                  Seen(grades'[g]) = IF g = n + 1 THEN Seen(grade) ELSE kept[g]
            BY <3>1, <3>3, <3>4
        <3>7. QED BY <3>2, <3>5, <3>6
    <2>3. QED BY <2>1, <2>2 DEF GL!Commit
<1>9. older \in SUBSET DOMAIN seen BY <1>0
<1>10. QED BY <1>7, <1>8, <1>9 DEF GL!Next

\* A step leaves the grades or commits one.
LEMMA GradesChange ==
    ASSUME Typed, Next
    PROVE  \/ UNCHANGED grades
           \/ \E grade \in GradeRows : \E captured :
                  grade.active /\ grades' = CommitGrade(captured, grade)
<1>1. CASE \E h \in Handlers : OverrideCommit(h)
    <2>1. PICK h \in Handlers : OverrideCommit(h) BY <1>1
    <2> DEFINE grade == [source |-> "ta_manual", text |-> NoText, active |-> TRUE]
    <2>2. grade \in GradeRows /\ grade.active BY NoTextIsText DEF GradeRows
    <2>3. grades' = CommitGrade(request[h].captured, grade) BY <2>1 DEF OverrideCommit
    <2> HIDE DEF grade
    <2>4. QED BY <2>2, <2>3
<1>2. CASE \E w \in GradeSlots : GradeCommit(w)
    <2>1. PICK w \in GradeSlots : GradeCommit(w) BY <1>2
    <2> DEFINE grade == [source |-> "ai_generated", text |-> grading[w].text, active |-> TRUE]
    <2>2. grade \in GradeRows /\ grade.active
        BY DEF Typed, TypeOK, GradingRuns, GradeRows
    <2>3. grades' = CommitGrade(grading[w].captured, grade) BY <2>1 DEF GradeCommit
    <2> HIDE DEF grade
    <2>4. QED BY <2>2, <2>3
<1>3. ASSUME NEW h \in Handlers,
             (HandlerStep(h) /\ ~OverrideCommit(h)) \/ \E kind \in Kinds : Open(h, kind)
      PROVE  UNCHANGED grades
    BY <1>3 DEF HandlerStep, UploadCommit, CorrectCommit, RegradeCommit, ProcessCommit,
       BulkSend, BulkCommit, Open
<1>4. ASSUME NEW w \in OcrSlots, OcrStep(w) \/ OcrFault(w)
      PROVE  UNCHANGED grades
    BY <1>4 DEF OcrStep, OcrStart, OcrMark, OcrRead, OcrCommit, OcrSend, OcrFails,
       OcrGivesUp, OcrUntouched, OcrFault, OcrWorkerDown, OcrSendFails
<1>5. ASSUME NEW w \in GradeSlots, (GradeStep(w) /\ ~GradeCommit(w)) \/ GradeWorkerDown(w)
      PROVE  UNCHANGED grades
    BY <1>5 DEF GradeStep, GradeStart, GradeMark, GradeLoad, GradeBlocked, GradeArchive,
       GradeFails, GradeGivesUp, GradeWorkerDown
<1>6. QED BY <1>1, <1>2, <1>3, <1>4, <1>5 DEF Next

\* The grading tasks and the TAs, with what they read before they commit, whatever is
\* uploaded again and whatever fails, write one ledger: no grade is lost or rewritten.
THEOREM GradesAreALedger == Spec => RefinesLedger
<1> DEFINE rows == [g \in DOMAIN grades |-> [sub |-> "this", source |-> grades[g].source,
                                             active |-> grades[g].active]]
<1>1. Init => GL!Init BY DEF Init, GL!Init
<1>2. ASSUME Typed, [Next]_vars PROVE [GL!Next]_rows
    <2>1. CASE UNCHANGED grades BY <2>1
    <2>2. CASE Next /\ ~UNCHANGED grades BY <1>2, <2>2, GradesChange, LedgerStep
    <2>3. QED BY <1>2, <2>1, <2>2 DEF vars
<1>3. QED BY <1>1, <1>2, TypedInvariant, PTL DEF Spec, RefinesLedger, GL!Spec

----------------------------------------------------------------------------
(* Texts stay *)

\* Without uploads and process-bulk the handlers do one of four things.
LEMMA HandlersWithoutRewrites ==
    ASSUME NoRewriteOpen, NEW h \in Handlers, HandlerStep(h)
    PROVE  CorrectCommit(h) \/ RegradeCommit(h) \/ OverrideCommit(h) \/ ProcessCommit(h)
    BY DEF NoRewriteOpen, HandlerStep, UploadCommit, BulkSend, BulkCommit, Close

\* What the OCR task stores is never the empty result.
LEMMA AnswerIsText ==
    ASSUME Typed, TextInv, NEW w \in OcrSlots, OcrCommit(w)
    PROVE  row'.text # NoText
<1> DEFINE answer == [file |-> ocr[w].file, edits |-> {}]
<1>1. row \in Rows BY DEF Typed, TypeOK, Rows
<1>2. answer # NoText BY DEF TextInv, FilesAreStored, OcrCommit, NoText
<1>3. PICK text \in {answer, Flushed(ocr[w].text, answer, row.text)} :
          row' = [row EXCEPT !.text = text, !.status = OcrSets(w, "ocr_done")]
    BY DEF OcrCommit
<1>4. row'.text = text BY <1>1, <1>3 DEF Rows
<1>5. row.text = NoText => ocr[w].text = NoText BY DEF TextInv, NothingToGrade
<1> HIDE DEF answer
<1>6. Flushed(ocr[w].text, answer, row.text) # NoText BY <1>2, <1>5, FlushedIs
<1>7. QED BY <1>2, <1>3, <1>4, <1>6

\* Nothing takes a text away.
LEMMA TextStays ==
    ASSUME Typed, TextInv, Next, row'.text = NoText
    PROVE  row.text = NoText
<1>1. row \in Rows /\ request \in [Handlers -> RequestRecords]
    BY DEF Typed, TypeOK, Rows
<1>2. CASE \E h \in Handlers : HandlerStep(h)
    <2>1. PICK h \in Handlers : HandlerStep(h) BY <1>2
    <2>2. CASE CorrectCommit(h)
        <3>1. request[h].text \in Texts /\ request[h].id \in Nat BY <1>1 DEF RequestRecords
        <3>2. row'.text = [request[h].text EXCEPT !.edits = @ \cup {request[h].id}]
            BY <1>1, <2>2 DEF CorrectCommit, Rows
        <3>3. QED BY <3>1, <3>2, CorrectedIsText
    <2>3. CASE RegradeCommit(h) \/ OverrideCommit(h) \/ ProcessCommit(h)
        BY <1>1, <2>3 DEF RegradeCommit, OverrideCommit, ProcessCommit, SetStatus, Rows
    <2>4. QED BY <2>1, <2>2, <2>3, HandlersWithoutRewrites DEF TextInv
<1>3. CASE \E w \in OcrSlots : OcrStep(w)
    <2>1. PICK w \in OcrSlots : OcrStep(w) BY <1>3
    <2>2. CASE OcrCommit(w) BY <2>2, AnswerIsText
    <2>3. CASE ~OcrCommit(w)
        BY <1>1, <2>1, <2>3 DEF OcrStep, OcrStart, OcrMark, OcrRead, OcrSend, OcrFails,
           OcrGivesUp, Rows
    <2>4. QED BY <2>2, <2>3
<1>4. CASE \E w \in GradeSlots : GradeStep(w)
    BY <1>1, <1>4 DEF GradeStep, GradeStart, GradeMark, GradeLoad, GradeBlocked,
       GradeArchive, GradeCommit, GradeFails, GradeGivesUp, Rows
<1>5. CASE \/ \E h \in Handlers, kind \in Kinds : Open(h, kind)
           \/ \E w \in OcrSlots : OcrFault(w)
           \/ \E w \in GradeSlots : GradeWorkerDown(w)
    BY <1>5 DEF Open, OcrFault, OcrWorkerDown, OcrSendFails, GradeWorkerDown
<1>6. QED BY <1>2, <1>3, <1>4, <1>5 DEF Next

\* Under the premise no upload and no process-bulk is ever open.
LEMMA RewritesStayClosed ==
    ASSUME NoRewrites, Typed, NoRewriteOpen, Next
    PROVE  NoRewriteOpen'
<1>1. request \in [Handlers -> RequestRecords] /\ made \in [Kinds -> Nat]
      /\ Limit \in [Kinds -> Nat]
    BY PipelineAssumption DEF Typed, TypeOK
<1>2. ASSUME NEW h \in Handlers, NEW kind \in Kinds, Open(h, kind) PROVE NoRewriteOpen'
    <2>1. made[kind] \in Nat /\ made[kind] < Limit[kind] BY <1>1, <1>2 DEF Open
    <2>2. kind \notin {"upload", "bulk"} BY <2>1 DEF NoRewrites
    <2>3. request'[h].kind = kind BY <1>1, <1>2 DEF Open, NoRequest
    <2>4. \A k \in Handlers \ {h} : request'[k] = request[k] BY <1>1, <1>2 DEF Open
    <2>5. QED BY <2>2, <2>3, <2>4 DEF NoRewriteOpen
<1>3. ASSUME NEW h \in Handlers, HandlerStep(h) PROVE NoRewriteOpen'
    <2>1. request' = [request EXCEPT ![h] = NoRequest]
        BY <1>3, HandlersWithoutRewrites
           DEF CorrectCommit, RegradeCommit, OverrideCommit, ProcessCommit, Close
    <2>2. NoRequest.kind = "none" BY DEF NoRequest
    <2>3. QED BY <1>1, <2>1, <2>2 DEF NoRewriteOpen
<1>4. ASSUME request' = request PROVE NoRewriteOpen' BY <1>4 DEF NoRewriteOpen
<1>5. QED
    BY <1>2, <1>3, <1>4 DEF Next, OcrStep, OcrStart, OcrMark, OcrRead, OcrCommit, OcrSend,
       OcrFails, OcrGivesUp, OcrUntouched, GradeStep, GradeStart, GradeMark, GradeLoad,
       GradeBlocked, GradeArchive, GradeCommit, GradeFails, GradeGivesUp, GradingUntouched,
       OcrFault, OcrWorkerDown, OcrSendFails, GradeWorkerDown

\* What a step of the OCR task makes of its record: only a read of the row keeps a
\* text, only the commit goes on to send.
OcrBecomes(w, next) ==
    \/ /\ OcrRead(w)
       /\ next = [ocr[w] EXCEPT !.at = "scan", !.seen = row.status, !.file = row.file,
                                !.text = row.text]
    \/ next.text = NoText /\ next.at \in {"idle", "mark", "read", "fail"}
    \/ next.text = NoText /\ next.at = "send" /\ OcrCommit(w)

\* Every step of an OCR task moves it in one of the ways of OcrBecomes.
LEMMA OcrMoves ==
    ASSUME NEW w \in OcrSlots, OcrStep(w) \/ OcrFault(w)
    PROVE  \E next : ocr' = [ocr EXCEPT ![w] = next] /\ OcrBecomes(w, next)
<1>1. ASSUME NEW at, NEW retries, NEW seen, NEW permanent
      PROVE  LET next == [IdleOcr EXCEPT !.at = at, !.retries = retries, !.seen = seen,
                                         !.permanent = permanent]
             IN  next.text = NoText /\ next.at = at
    BY DEF IdleOcr
<1>2. CASE OcrStart(w)
    <2>1. PICK r \in DOMAIN ocrQueue : ocr' = [ocr EXCEPT ![w] = [IdleOcr EXCEPT
                            !.at = "mark", !.retries = r, !.seen = row.status]]
        BY <1>2 DEF OcrStart
    <2> DEFINE next == [IdleOcr EXCEPT !.at = "mark", !.retries = r, !.seen = row.status]
    <2>2. next.text = NoText /\ next.at = "mark" BY DEF IdleOcr
    <2>3. QED BY <2>1, <2>2 DEF OcrBecomes
<1>3. CASE OcrMark(w)
    <2> DEFINE next == [IdleOcr EXCEPT !.at = "read", !.retries = ocr[w].retries]
    <2>1. ocr' = [ocr EXCEPT ![w] = next] BY <1>3 DEF OcrMark, OcrGoTo
    <2>2. next.text = NoText /\ next.at = "read" BY DEF IdleOcr
    <2>3. QED BY <2>1, <2>2 DEF OcrBecomes
<1>4. CASE OcrRead(w) BY <1>4 DEF OcrRead, OcrBecomes
<1>5. CASE OcrCommit(w)
    <2> DEFINE next == [IdleOcr EXCEPT !.at = "send", !.retries = ocr[w].retries]
    <2>1. ocr' = [ocr EXCEPT ![w] = next] BY <1>5 DEF OcrCommit, OcrGoTo
    <2>2. next.text = NoText /\ next.at = "send" BY DEF IdleOcr
    <2>3. QED BY <1>5, <2>1, <2>2 DEF OcrBecomes
<1>6. CASE OcrFails(w) \/ OcrSendFails(w)
    <2>1. PICK permanent \in BOOLEAN :
              ocr' = [ocr EXCEPT ![w] = [IdleOcr EXCEPT !.at = "fail",
                          !.retries = ocr[w].retries, !.seen = row.status,
                          !.permanent = permanent]]
        BY <1>6 DEF OcrFails, OcrSendFails
    <2> DEFINE next == [IdleOcr EXCEPT !.at = "fail", !.retries = ocr[w].retries,
                                       !.seen = row.status, !.permanent = permanent]
    <2>2. next.text = NoText /\ next.at = "fail" BY <1>1
    <2>3. QED BY <2>1, <2>2 DEF OcrBecomes
<1>7. CASE OcrSend(w) \/ OcrGivesUp(w) \/ OcrWorkerDown(w)
    <2>1. ocr' = [ocr EXCEPT ![w] = IdleOcr]
        BY <1>7 DEF OcrSend, OcrGivesUp, OcrWorkerDown
    <2>2. IdleOcr.text = NoText /\ IdleOcr.at = "idle" BY DEF IdleOcr
    <2>3. QED BY <2>1, <2>2 DEF OcrBecomes
<1>8. QED BY <1>2, <1>3, <1>4, <1>5, <1>6, <1>7 DEF OcrStep, OcrFault

\* The file is there for every OCR task that reads it.
LEMMA FilesStay ==
    ASSUME Typed, TextInv, Next
    PROVE  FilesAreStored'
<1>1. row \in Rows /\ ocr \in [OcrSlots -> OcrRuns] BY DEF Typed, TypeOK, Rows
<1>2. row'.file = row.file
    <2>1. ASSUME NEW h \in Handlers, HandlerStep(h) PROVE row'.file = row.file
        BY <1>1, <2>1, HandlersWithoutRewrites
           DEF TextInv, CorrectCommit, RegradeCommit, OverrideCommit, ProcessCommit,
               SetStatus, Rows
    <2>2. ASSUME NEW w \in OcrSlots, OcrStep(w) PROVE row'.file = row.file
        BY <1>1, <2>2 DEF OcrStep, OcrStart, OcrMark, OcrRead, OcrCommit, OcrSend, OcrFails,
           OcrGivesUp, Rows
    <2>3. ASSUME NEW w \in GradeSlots, GradeStep(w) PROVE row'.file = row.file
        BY <1>1, <2>3 DEF GradeStep, GradeStart, GradeMark, GradeLoad, GradeBlocked,
           GradeArchive, GradeCommit, GradeFails, GradeGivesUp, Rows
    <2>4. QED
        BY <2>1, <2>2, <2>3
           DEF Next, Open, OcrFault, OcrWorkerDown, OcrSendFails, GradeWorkerDown
<1>3. ASSUME NEW w \in OcrSlots, ocr'[w].at = "scan" PROVE ocr'[w].file # 0
    <2>1. CASE ocr' = ocr BY <1>3, <2>1 DEF TextInv, FilesAreStored
    <2>2. CASE \E v \in OcrSlots : OcrStep(v) \/ OcrFault(v)
        <3>1. PICK v \in OcrSlots : OcrStep(v) \/ OcrFault(v) BY <2>2
        <3>2. PICK next : ocr' = [ocr EXCEPT ![v] = next] /\ OcrBecomes(v, next)
            BY <3>1, OcrMoves
        <3>3. next.at = "scan" => next.file = row.file
            BY <1>1, <3>2 DEF OcrBecomes, OcrRuns
        <3>4. QED BY <1>1, <1>3, <3>2, <3>3 DEF TextInv, FilesAreStored
    <2>3. ocr' = ocr \/ (\E v \in OcrSlots : OcrStep(v) \/ OcrFault(v))
        BY DEF Next, Open, HandlerStep, UploadCommit, CorrectCommit, RegradeCommit,
           OverrideCommit, ProcessCommit, BulkSend, BulkCommit, Close, GradeStep, GradeStart,
           GradeMark, GradeLoad, GradeBlocked, GradeArchive, GradeCommit, GradeFails,
           GradeGivesUp, GradingUntouched, GradeWorkerDown
    <2>4. QED BY <2>1, <2>2, <2>3
<1>4. QED BY <1>2, <1>3 DEF TextInv, FilesAreStored

\* Before there is a text, no step makes anything that needs one.
LEMMA NothingToGradeStep ==
    ASSUME Typed, TextInv, Next
    PROVE  NothingToGrade'
<1> SUFFICES ASSUME row'.text = NoText
             PROVE  /\ row'.status # "grading"
                    /\ \A r \in DOMAIN gradeQueue' : gradeQueue'[r] = 0
                    /\ \A w \in GradeSlots : grading'[w] = IdleGrading
                    /\ \A w \in OcrSlots : ocr'[w].text = NoText /\ ocr'[w].at # "send"
                    /\ \A h \in Handlers : /\ request'[h].text = NoText
                                           /\ request'[h].kind \notin {"correct", "regrade"}
    BY DEF NothingToGrade
<1>1. /\ row \in Rows /\ ocr \in [OcrSlots -> OcrRuns]
      /\ request \in [Handlers -> RequestRecords]
      /\ gradeQueue \in [0 .. MaxGradeRetries -> Nat]
    BY DEF Typed, TypeOK, Rows
<1>2. /\ row.text = NoText /\ row.status # "grading"
      /\ \A r \in DOMAIN gradeQueue : gradeQueue[r] = 0
      /\ \A w \in GradeSlots : grading[w] = IdleGrading
      /\ \A w \in OcrSlots : ocr[w].text = NoText /\ ocr[w].at # "send"
      /\ \A h \in Handlers : /\ request[h].text = NoText
                             /\ request[h].kind \notin {"correct", "regrade"}
    BY TextStays DEF TextInv, NothingToGrade
<1>3. ~ \E w \in GradeSlots : GradeStep(w) \/ GradeWorkerDown(w)
    <2>1. IdleGrading.at = "idle" BY DEF IdleGrading
    <2>2. ASSUME NEW w \in GradeSlots PROVE ~GradeStep(w) /\ ~GradeWorkerDown(w)
        <3>1. ~GradeStart(w) BY <1>2 DEF GradeStart
        <3>2. grading[w].at = "idle" BY <1>2, <2>1
        <3>3. QED
            BY <1>2, <3>1, <3>2 DEF GradeStep, GradeMark, GradeLoad, GradeBlocked,
               GradeArchive, GradeCommit, GradeFails, GradeGivesUp, GradeWorkerDown
    <2>3. QED BY <2>2
<1>4. CASE \E h \in Handlers, kind \in Kinds : Open(h, kind)
    <2>1. PICK h \in Handlers, kind \in Kinds : Open(h, kind) BY <1>4
    <2>2. request'[h].text = NoText /\ request'[h].kind \notin {"correct", "regrade"}
        BY <1>1, <1>2, <2>1 DEF Open, NoRequest
    <2>3. \A k \in Handlers \ {h} : request'[k] = request[k] BY <1>1, <2>1 DEF Open
    <2>4. UNCHANGED <<row, gradeQueue, grading, ocr>> BY <2>1 DEF Open
    <2>5. QED BY <1>2, <2>2, <2>3, <2>4
<1>5. CASE \E h \in Handlers : HandlerStep(h)
    <2>1. PICK h \in Handlers : HandlerStep(h) BY <1>5
    <2>2. OverrideCommit(h) \/ ProcessCommit(h)
        BY <1>2, <2>1, HandlersWithoutRewrites
           DEF TextInv, CorrectCommit, RegradeCommit, Close
    <2>3. NextStatus(h) = "pending" BY <1>2 DEF NextStatus
    <2>4. row'.status # "grading"
        BY <1>1, <1>2, <2>2, <2>3, FlushedIs
           DEF OverrideCommit, ProcessCommit, SetStatus, Rows
    <2>5. UNCHANGED <<gradeQueue, grading, ocr>>
        BY <1>2, <2>2 DEF OverrideCommit, ProcessCommit, SendNext, Close
    <2>6. request' = [request EXCEPT ![h] = NoRequest]
        BY <2>2 DEF OverrideCommit, ProcessCommit, Close
    <2>7. NoRequest.text = NoText /\ NoRequest.kind = "none" BY DEF NoRequest
    <2>8. QED BY <1>1, <1>2, <2>4, <2>5, <2>6, <2>7
<1>6. CASE \E w \in OcrSlots : OcrStep(w) \/ OcrFault(w)
    <2>1. PICK w \in OcrSlots : OcrStep(w) \/ OcrFault(w) BY <1>6
    <2>2. ~OcrCommit(w) /\ ~OcrSend(w)
        BY <1>2, AnswerIsText DEF OcrSend
    <2>3. row'.status # "grading"
        <3>1. row' = row \/ \E status \in {"processing", "failed"} :
                                row' = [row EXCEPT !.status = OcrSets(w, status)]
            BY <2>1, <2>2 DEF OcrStep, OcrStart, OcrMark, OcrRead, OcrFails, OcrGivesUp,
               OcrFault, OcrWorkerDown, OcrSendFails
        <3>2. \A status \in {"processing", "failed"} : OcrSets(w, status) # "grading"
            BY <1>2, FlushedIs DEF OcrSets
        <3>3. QED BY <1>1, <1>2, <3>1, <3>2 DEF Rows
    <2>4. UNCHANGED <<gradeQueue, grading, request>>
        BY <2>1, <2>2 DEF OcrStep, OcrStart, OcrMark, OcrRead, OcrFails, OcrGivesUp,
           OcrFault, OcrWorkerDown, OcrSendFails, OcrUntouched
    <2>5. PICK next : ocr' = [ocr EXCEPT ![w] = next] /\ OcrBecomes(w, next)
        BY <2>1, OcrMoves
    <2>6. next.text = NoText /\ next.at # "send"
        BY <1>1, <1>2, <2>2, <2>5 DEF OcrBecomes, OcrRuns
    <2>7. QED BY <1>1, <1>2, <2>3, <2>4, <2>5, <2>6
<1>7. QED BY <1>3, <1>4, <1>5, <1>6 DEF Next

\* Without re-uploads a text is there for everybody who needs it.
LEMMA TextInvariant ==
    ASSUME NoRewrites PROVE Spec => [](Typed /\ TextInv)
<1>1. ASSUME Init PROVE TextInv
    BY <1>1 DEF Init, TextInv, NoRewriteOpen, FilesAreStored, NothingToGrade, NoRequest,
       IdleOcr, IdleGrading
<1>2. ASSUME Typed, TextInv, [Next]_vars PROVE TextInv'
    <2>1. CASE Next
        BY <1>2, <2>1, RewritesStayClosed, FilesStay, NothingToGradeStep DEF TextInv
    <2>2. CASE UNCHANGED vars
        BY <1>2, <2>2 DEF vars, TextInv, NoRewriteOpen, FilesAreStored, NothingToGrade
    <2>3. QED BY <1>2, <2>1, <2>2
<1>3. QED BY <1>1, <1>2, TypedInvariant, PTL DEF Spec

----------------------------------------------------------------------------
(* Grading is waited for *)

\* Sending and retrying lose no message of grading_queue.
LEMMA MessagesStay ==
    ASSUME Typed, GradeMessage,
           \/ gradeQueue' = gradeQueue
           \/ \E r : gradeQueue' = Send(gradeQueue, r)
           \/ \E r, most : gradeQueue' = Retry(gradeQueue, r, most)
    PROVE  GradeMessage'
<1>1. MaxGradeRetries \in Nat /\ gradeQueue \in [0 .. MaxGradeRetries -> Nat]
    BY PipelineAssumption DEF Typed, TypeOK
<1>2. PICK k \in 0 .. MaxGradeRetries : gradeQueue[k] > 0 BY <1>1 DEF GradeMessage
<1>3. \A r : /\ Send(gradeQueue, r) \in [0 .. MaxGradeRetries -> Nat]
             /\ Send(gradeQueue, r)[k] > 0
    BY <1>1, <1>2, SendKeeps
<1>4. \A r, most : /\ Retry(gradeQueue, r, most) \in [0 .. MaxGradeRetries -> Nat]
                   /\ Retry(gradeQueue, r, most)[k] > 0
    BY <1>1, <1>2, RetryKeeps
<1>5. gradeQueue' \in [0 .. MaxGradeRetries -> Nat] /\ gradeQueue'[k] > 0
    BY <1>1, <1>2, <1>3, <1>4
<1>6. QED BY <1>5 DEF GradeMessage

\* A message just sent is a message in the queue.
LEMMA SendRequests ==
    ASSUME Typed, NEW r \in 0 .. MaxGradeRetries, gradeQueue' = Send(gradeQueue, r)
    PROVE  GradeMessage'
<1>1. MaxGradeRetries \in Nat /\ gradeQueue \in [0 .. MaxGradeRetries -> Nat]
    BY PipelineAssumption DEF Typed, TypeOK
<1>2. gradeQueue' \in [0 .. MaxGradeRetries -> Nat] /\ gradeQueue'[r] > 0
    BY <1>1, SendKeeps
<1>3. QED BY <1>2 DEF GradeMessage

\* Everybody but the grading tasks leaves their records and messages, and who sets the
\* status to grading sends one.
LEMMA OthersAskForGrading ==
    ASSUME Typed, TextInv,
           \/ \E h \in Handlers, kind \in Kinds : Open(h, kind)
           \/ \E h \in Handlers : HandlerStep(h)
           \/ \E w \in OcrSlots : OcrStep(w) \/ OcrFault(w)
    PROVE  /\ grading' = grading
           /\ gradeQueue' \in {gradeQueue, Send(gradeQueue, 0)}
           /\ \/ gradeQueue' = Send(gradeQueue, 0)
              \/ row'.status = "grading" => row.status = "grading"
<1>1. row \in Rows BY DEF Typed, TypeOK, Rows
<1>2. CASE \E h \in Handlers, kind \in Kinds : Open(h, kind) BY <1>2 DEF Open
<1>3. ASSUME NEW h \in Handlers, HandlerStep(h)
      PROVE  /\ grading' = grading
             /\ gradeQueue' \in {gradeQueue, Send(gradeQueue, 0)}
             /\ \/ gradeQueue' = Send(gradeQueue, 0)
                \/ row'.status = "grading" => row.status = "grading"
    <2>1. ASSUME NEW status, SetStatus(h, status)
          PROVE  row'.status \in {status, row.status}
        BY <1>1, <2>1, FlushedIs DEF SetStatus, Rows
    <2>2. CASE CorrectCommit(h) \/ RegradeCommit(h)
        BY <2>2 DEF CorrectCommit, RegradeCommit, Close
    <2>3. CASE OverrideCommit(h) BY <2>1, <2>3 DEF OverrideCommit, Close
    <2>4. CASE ProcessCommit(h)
        BY <2>1, <2>4 DEF ProcessCommit, Close, SendNext, NextStatus
    <2>5. QED BY <1>3, <2>2, <2>3, <2>4, HandlersWithoutRewrites DEF TextInv
<1>4. ASSUME NEW w \in OcrSlots, OcrStep(w) \/ OcrFault(w)
      PROVE  /\ grading' = grading
             /\ gradeQueue' \in {gradeQueue, Send(gradeQueue, 0)}
             /\ \/ gradeQueue' = Send(gradeQueue, 0)
                \/ row'.status = "grading" => row.status = "grading"
    <2>1. grading' = grading /\ gradeQueue' \in {gradeQueue, Send(gradeQueue, 0)}
        BY <1>4 DEF OcrStep, OcrStart, OcrMark, OcrRead, OcrCommit, OcrSend, OcrFails,
           OcrGivesUp, OcrFault, OcrWorkerDown, OcrSendFails, OcrUntouched
    <2>2. \A status \in {"processing", "ocr_done", "failed"} :
              OcrSets(w, status) \in {status, row.status}
        BY FlushedIs DEF OcrSets
    <2>3. \/ row'.status = row.status
          \/ \E status \in {"processing", "ocr_done", "failed"} :
                 row'.status = OcrSets(w, status)
        BY <1>1, <1>4 DEF OcrStep, OcrStart, OcrMark, OcrRead, OcrCommit, OcrSend, OcrFails,
           OcrGivesUp, OcrFault, OcrWorkerDown, OcrSendFails, Rows
    <2>4. QED BY <2>1, <2>2, <2>3
<1>5. QED BY <1>2, <1>3, <1>4

\* What a step of the grading task makes of its record, and of the status.
GradingBecomes(w, next) ==
    \/ /\ next.at = "mark" /\ grading[w].at = "idle" /\ row' = row
    \/ /\ next.at = "load" /\ GradeMark(w)
    \/ /\ next.at \in {"blocked", "model"} /\ next.seen = row.status
       /\ next.text = row.text /\ grading[w].at = "load" /\ row' = row
    \/ /\ next.at = "commit" /\ next.seen = grading[w].seen /\ next.text = grading[w].text
       /\ grading[w].at = "model" /\ row' = row
    \/ /\ next.at = "fail" /\ next.seen = row.status /\ grading[w].at = "model" /\ row' = row
    \/ /\ next.at = "idle" /\ (GradeBlocked(w) \/ GradeCommit(w) \/ GradeGivesUp(w))

\* Every step of a grading task moves it in one of the ways of GradingBecomes.
LEMMA GradingMoves ==
    ASSUME Typed, NEW w \in GradeSlots, GradeStep(w)
    PROVE  \/ GradeStart(w) /\ grading' = grading /\ row.text = NoText
           \/ \E next : grading' = [grading EXCEPT ![w] = next] /\ GradingBecomes(w, next)
<1>1. grading[w] \in GradingRuns BY DEF Typed, TypeOK
<1>2. CASE GradeStart(w)
    <2>1. \/ grading' = grading /\ row.text = NoText
          \/ \E r \in DOMAIN gradeQueue :
                 grading' = [grading EXCEPT ![w] = [IdleGrading EXCEPT
                     !.at = "mark", !.retries = r, !.seen = row.status]]
        BY <1>2 DEF GradeStart
    <2>2. grading[w].at = "idle" /\ row' = row BY <1>2 DEF GradeStart, IdleGrading
    <2>3. \A r : [IdleGrading EXCEPT !.at = "mark", !.retries = r,
                                     !.seen = row.status].at = "mark"
        BY DEF IdleGrading
    <2>4. QED BY <1>2, <2>1, <2>2, <2>3 DEF GradingBecomes
<1>3. CASE GradeMark(w)
    <2> DEFINE next == [grading[w] EXCEPT !.at = "load", !.seen = "none"]
    <2>1. next.at = "load" BY <1>1 DEF GradingRuns
    <2>2. QED BY <1>3, <2>1 DEF GradeMark, GradingBecomes
<1>4. CASE GradeLoad(w)
    <2>1. PICK at \in {"blocked", "model"} :
              grading' = [grading EXCEPT ![w] =
                  [grading[w] EXCEPT !.at = at, !.seen = row.status, !.text = row.text]]
        BY <1>4 DEF GradeLoad
    <2> DEFINE next == [grading[w] EXCEPT !.at = at, !.seen = row.status, !.text = row.text]
    <2>2. next.at = at /\ next.seen = row.status /\ next.text = row.text
        BY <1>1 DEF GradingRuns
    <2>3. grading[w].at = "load" /\ row' = row BY <1>4 DEF GradeLoad
    <2>4. QED BY <2>1, <2>2, <2>3 DEF GradingBecomes
<1>5. CASE GradeArchive(w)
    <2> DEFINE next == [grading[w] EXCEPT !.at = "commit", !.captured = ActiveGrades]
    <2>1. next.at = "commit" /\ next.seen = grading[w].seen /\ next.text = grading[w].text
        BY <1>1 DEF GradingRuns
    <2>2. grading' = [grading EXCEPT ![w] = next] /\ grading[w].at = "model" /\ row' = row
        BY <1>5 DEF GradeArchive
    <2>3. QED BY <2>1, <2>2 DEF GradingBecomes
<1>6. CASE GradeFails(w)
    <2>1. PICK permanent \in BOOLEAN :
              grading' = [grading EXCEPT ![w] = [grading[w] EXCEPT
                  !.at = "fail", !.seen = row.status, !.permanent = permanent]]
        BY <1>6 DEF GradeFails
    <2> DEFINE next == [grading[w] EXCEPT !.at = "fail", !.seen = row.status,
                                          !.permanent = permanent]
    <2>2. next.at = "fail" /\ next.seen = row.status BY <1>1 DEF GradingRuns
    <2>3. grading[w].at = "model" /\ row' = row BY <1>6 DEF GradeFails
    <2>4. QED BY <2>1, <2>2, <2>3 DEF GradingBecomes
<1>7. CASE GradeBlocked(w) \/ GradeCommit(w) \/ GradeGivesUp(w)
    <2>1. grading' = [grading EXCEPT ![w] = IdleGrading]
        BY <1>7 DEF GradeBlocked, GradeCommit, GradeGivesUp
    <2>2. IdleGrading.at = "idle" BY DEF IdleGrading
    <2>3. QED BY <1>7, <2>1, <2>2 DEF GradingBecomes
<1>8. QED BY <1>2, <1>3, <1>4, <1>5, <1>6, <1>7 DEF GradeStep

\* A message is taken when there is a text to grade.
LEMMA MessagesFindText ==
    ASSUME Typed, TextInv, NEW w \in GradeSlots, GradeStart(w)
    PROVE  row.text # NoText
<1>1. PICK r \in DOMAIN gradeQueue : gradeQueue[r] > 0 BY DEF GradeStart
<1>2. gradeQueue[r] # 0 BY <1>1
<1>3. QED BY <1>2 DEF TextInv, NothingToGrade

\* Once taken, a message is gone; no other step of the grading task loses one.
LEMMA GradingKeepsMessages ==
    ASSUME Typed, GradeMessage, NEW w \in GradeSlots, GradeStep(w), grading[w].at # "idle"
    PROVE  GradeMessage'
<1>1. ~GradeStart(w)
    <2>1. IdleGrading.at = "idle" BY DEF IdleGrading
    <2>2. QED BY <2>1 DEF GradeStart
<1>2. gradeQueue' = gradeQueue \/ \E r, most : gradeQueue' = Retry(gradeQueue, r, most)
    BY <1>1 DEF GradeStep, GradeMark, GradeLoad, GradeBlocked, GradeArchive, GradeCommit,
       GradeFails, GradeGivesUp
<1>3. QED BY <1>2, MessagesStay

\* The end of a grading task settles the status, unless it had read the same status.
LEMMA EndSettles ==
    ASSUME Typed, NEW w \in GradeSlots, GradeBlocked(w) \/ GradeCommit(w) \/ GradeGivesUp(w)
    PROVE  /\ grading[w].at \in {"blocked", "commit", "fail"}
           /\ LET last == IF grading[w].at = "commit" THEN "graded" ELSE "failed"
              IN  row'.status = IF grading[w].seen = last THEN row.status ELSE last
    BY DEF Typed, TypeOK, GradeBlocked, GradeCommit, GradeGivesUp, GradingSets, Flushed

\* Every step leaves someone who settles a submission in grading.
LEMMA AwaitedStep ==
    ASSUME Typed, TextInv, GradingIsAwaited, Next
    PROVE  GradingIsAwaited'
<1> SUFFICES ASSUME row'.status = "grading"
             PROVE  GradeMessage' \/ \E v \in GradeSlots : WillSettle(v)'
    BY DEF GradingIsAwaited
<1>1. grading \in [GradeSlots -> GradingRuns] /\ MaxGradeRetries \in Nat
    BY PipelineAssumption DEF Typed, TypeOK
<1>2. CASE \/ \E h \in Handlers, kind \in Kinds : Open(h, kind)
           \/ \E h \in Handlers : HandlerStep(h)
           \/ \E w \in OcrSlots : OcrStep(w) \/ OcrFault(w)
    <2>1. /\ grading' = grading
          /\ \/ gradeQueue' = Send(gradeQueue, 0)
             \/ gradeQueue' = gradeQueue /\ row.status = "grading"
        BY <1>2, OthersAskForGrading
    <2>2. CASE gradeQueue' = Send(gradeQueue, 0)
        <3>1. 0 \in 0 .. MaxGradeRetries BY <1>1
        <3>2. QED BY <2>2, <3>1, SendRequests
    <2>3. CASE gradeQueue' = gradeQueue /\ row.status = "grading"
        BY <2>1, <2>3, MessagesStay DEF GradingIsAwaited, WillSettle
    <2>4. QED BY <2>1, <2>2, <2>3
<1>3. CASE \E w \in GradeSlots : GradeStep(w)
    <2>1. PICK w \in GradeSlots : GradeStep(w) BY <1>3
    <2>2. ~(GradeStart(w) /\ row.text = NoText) BY MessagesFindText
    <2>3. PICK next : grading' = [grading EXCEPT ![w] = next] /\ GradingBecomes(w, next)
        BY <2>1, <2>2, GradingMoves
    <2>4. grading'[w] = next /\ \A v \in GradeSlots \ {w} : grading'[v] = grading[v]
        BY <1>1, <2>3
    <2>5. ASSUME row.status = "grading", grading[w].at # "idle",
                 WillSettle(w) => WillSettle(w)'
          PROVE  GradeMessage' \/ \E v \in GradeSlots : WillSettle(v)'
        <3>1. CASE GradeMessage BY <2>1, <2>5, <3>1, GradingKeepsMessages
        <3>2. CASE \E v \in GradeSlots : WillSettle(v)
            <4>1. PICK v \in GradeSlots : WillSettle(v) BY <3>2
            <4>2. CASE v = w BY <2>5, <4>1, <4>2
            <4>3. CASE v # w BY <2>4, <4>1, <4>3 DEF WillSettle
            <4>4. QED BY <4>2, <4>3
        <3>3. QED BY <2>5, <3>1, <3>2 DEF GradingIsAwaited
    <2>6. CASE next.at \in {"mark", "load"} BY <2>4, <2>6 DEF WillSettle
    <2>7. CASE next.at \in {"blocked", "model", "fail"} /\ next.seen = row.status /\ row' = row
        BY <2>4, <2>7 DEF WillSettle
    <2>8. CASE /\ next.at = "commit" /\ next.seen = grading[w].seen
               /\ grading[w].at = "model" /\ row' = row
        BY <2>4, <2>5, <2>8 DEF WillSettle
    <2>9. CASE GradeBlocked(w) \/ GradeCommit(w) \/ GradeGivesUp(w)
        BY <2>5, <2>9, EndSettles DEF WillSettle
    <2>10. QED BY <2>3, <2>6, <2>7, <2>8, <2>9 DEF GradingBecomes
<1>4. CASE \E w \in GradeSlots : GradeWorkerDown(w)
    <2>1. PICK w \in GradeSlots : GradeWorkerDown(w) BY <1>4
    <2>2. grading[w].retries \in 0 .. MaxGradeRetries BY DEF Typed, RetriesAreBounded
    <2>3. QED BY <2>1, <2>2, SendRequests DEF GradeWorkerDown
<1>5. QED BY <1>2, <1>3, <1>4 DEF Next

\* A submission in grading is waited for, throughout.
LEMMA AwaitedInvariant ==
    ASSUME NoRewrites PROVE Spec => [](Typed /\ TextInv /\ GradingIsAwaited)
<1>1. ASSUME Init PROVE GradingIsAwaited BY <1>1 DEF Init, GradingIsAwaited
<1>2. ASSUME Typed, TextInv, GradingIsAwaited, [Next]_vars PROVE GradingIsAwaited'
    <2>1. CASE Next BY <1>2, <2>1, AwaitedStep
    <2>2. CASE UNCHANGED vars
        BY <1>2, <2>2 DEF vars, GradingIsAwaited, GradeMessage, WillSettle
    <2>3. QED BY <1>2, <2>1, <2>2
<1>3. QED BY <1>1, <1>2, TextInvariant, PTL DEF Spec

\* With any number of OCR and grading processes, retries and workers that go down, a
\* submission that is never re-uploaded nor sent to process-bulk does not stay in grading:
\* there is a message or a task that will settle it (run_grading_task and its callers).
THEOREM GradingIsWaitedFor ==
    ASSUME NoRewrites PROVE Spec => []GradingInProgress
<1>1. ASSUME Typed, GradingIsAwaited PROVE GradingInProgress
    <2>1. IdleGrading.at = "idle" BY DEF IdleGrading
    <2>2. \A w \in GradeSlots : WillSettle(w) => grading[w] # IdleGrading
        BY <2>1 DEF WillSettle
    <2>3. QED BY <1>1, <2>2 DEF GradingIsAwaited, GradingInProgress, InFlight, GradeMessage
<1>2. QED BY <1>1, AwaitedInvariant, PTL

----------------------------------------------------------------------------
(* OCR and what it has read are waited for *)

\* Sending and retrying lose no message of ocr_queue.
LEMMA OcrMessagesStay ==
    ASSUME Typed, OcrMessage,
           \/ ocrQueue' = ocrQueue
           \/ \E r : ocrQueue' = Send(ocrQueue, r)
           \/ \E r, most : ocrQueue' = Retry(ocrQueue, r, most)
    PROVE  OcrMessage'
<1>1. MaxOcrRetries \in Nat /\ ocrQueue \in [0 .. MaxOcrRetries -> Nat]
    BY PipelineAssumption DEF Typed, TypeOK
<1>2. PICK k \in 0 .. MaxOcrRetries : ocrQueue[k] > 0 BY <1>1 DEF OcrMessage
<1>3. \A r : /\ Send(ocrQueue, r) \in [0 .. MaxOcrRetries -> Nat]
             /\ Send(ocrQueue, r)[k] > 0
    BY <1>1, <1>2, SendKeeps
<1>4. \A r, most : /\ Retry(ocrQueue, r, most) \in [0 .. MaxOcrRetries -> Nat]
                   /\ Retry(ocrQueue, r, most)[k] > 0
    BY <1>1, <1>2, RetryKeeps
<1>5. ocrQueue' \in [0 .. MaxOcrRetries -> Nat] /\ ocrQueue'[k] > 0
    BY <1>1, <1>2, <1>3, <1>4
<1>6. QED BY <1>5 DEF OcrMessage

\* What a step of the OCR task makes of its record, and of the status.
OcrAdvances(w, next) ==
    \/ /\ next.at = "mark" /\ next.retries \in DOMAIN ocrQueue
       /\ ocr[w].at = "idle" /\ row' = row
    \/ /\ next.at = "read" /\ next.retries = ocr[w].retries /\ OcrMark(w)
    \/ /\ next.at = "scan" /\ next.retries = ocr[w].retries /\ next.seen = row.status
       /\ ocr[w].at = "read" /\ row' = row
    \/ /\ next.at = "send" /\ next.retries = ocr[w].retries /\ OcrCommit(w)
    \/ /\ next.at = "fail" /\ next.retries = ocr[w].retries /\ next.seen = row.status
       /\ ocr[w].at \in {"scan", "send"} /\ row' = row
    \/ /\ next.at = "idle" /\ next.retries = 0 /\ (OcrSend(w) \/ OcrGivesUp(w))

\* Every step of an OCR task moves it in one of the ways of OcrAdvances.
LEMMA OcrTaskMoves ==
    ASSUME Typed, NEW w \in OcrSlots, OcrStep(w) \/ OcrSendFails(w)
    PROVE  \E next : ocr' = [ocr EXCEPT ![w] = next] /\ OcrAdvances(w, next)
<1>1. ocr[w] \in OcrRuns BY DEF Typed, TypeOK
<1>2. CASE OcrStart(w)
    <2>1. PICK r \in DOMAIN ocrQueue : ocr' = [ocr EXCEPT ![w] = [IdleOcr EXCEPT
                            !.at = "mark", !.retries = r, !.seen = row.status]]
        BY <1>2 DEF OcrStart
    <2> DEFINE next == [IdleOcr EXCEPT !.at = "mark", !.retries = r, !.seen = row.status]
    <2>2. next.at = "mark" /\ next.retries = r BY DEF IdleOcr
    <2>3. ocr[w].at = "idle" /\ row' = row BY <1>2 DEF OcrStart, IdleOcr
    <2>4. QED BY <2>1, <2>2, <2>3 DEF OcrAdvances
<1>3. ASSUME NEW at
      PROVE  LET next == [IdleOcr EXCEPT !.at = at, !.retries = ocr[w].retries]
             IN  next.at = at /\ next.retries = ocr[w].retries
    BY DEF IdleOcr
<1>4. CASE OcrMark(w)
    <2>1. ocr' = [ocr EXCEPT ![w] = [IdleOcr EXCEPT !.at = "read", !.retries = ocr[w].retries]]
        BY <1>4 DEF OcrMark, OcrGoTo
    <2>2. QED BY <1>3, <1>4, <2>1 DEF OcrAdvances
<1>5. CASE OcrRead(w)
    <2> DEFINE next == [ocr[w] EXCEPT !.at = "scan", !.seen = row.status, !.file = row.file,
                                      !.text = row.text]
    <2>1. next.at = "scan" /\ next.retries = ocr[w].retries /\ next.seen = row.status
        BY <1>1 DEF OcrRuns
    <2>2. ocr' = [ocr EXCEPT ![w] = next] /\ ocr[w].at = "read" /\ row' = row
        BY <1>5 DEF OcrRead
    <2>3. QED BY <2>1, <2>2 DEF OcrAdvances
<1>6. CASE OcrCommit(w)
    <2>1. ocr' = [ocr EXCEPT ![w] = [IdleOcr EXCEPT !.at = "send", !.retries = ocr[w].retries]]
        BY <1>6 DEF OcrCommit, OcrGoTo
    <2>2. QED BY <1>3, <1>6, <2>1 DEF OcrAdvances
<1>7. CASE OcrFails(w) \/ OcrSendFails(w)
    <2>1. PICK permanent \in BOOLEAN :
              ocr' = [ocr EXCEPT ![w] = [IdleOcr EXCEPT !.at = "fail",
                          !.retries = ocr[w].retries, !.seen = row.status,
                          !.permanent = permanent]]
        BY <1>7 DEF OcrFails, OcrSendFails
    <2> DEFINE next == [IdleOcr EXCEPT !.at = "fail", !.retries = ocr[w].retries,
                                       !.seen = row.status, !.permanent = permanent]
    <2>2. next.at = "fail" /\ next.retries = ocr[w].retries /\ next.seen = row.status
        BY DEF IdleOcr
    <2>3. ocr[w].at \in {"scan", "send"} /\ row' = row BY <1>7 DEF OcrFails, OcrSendFails
    <2>4. QED BY <2>1, <2>2, <2>3 DEF OcrAdvances
<1>8. CASE OcrSend(w) \/ OcrGivesUp(w)
    <2>1. ocr' = [ocr EXCEPT ![w] = IdleOcr] BY <1>8 DEF OcrSend, OcrGivesUp
    <2>2. IdleOcr.at = "idle" /\ IdleOcr.retries = 0 BY DEF IdleOcr
    <2>3. QED BY <1>8, <2>1, <2>2 DEF OcrAdvances
<1>9. QED BY <1>2, <1>4, <1>5, <1>6, <1>7, <1>8 DEF OcrStep

\* The status an OCR task leaves, unless it had read the same status.
LEMMA OcrSettles ==
    ASSUME Typed, NEW w \in OcrSlots
    PROVE  /\ OcrCommit(w) => /\ ocr[w].at = "scan"
                              /\ row'.status = IF ocr[w].seen = "ocr_done" THEN row.status
                                               ELSE "ocr_done"
           /\ OcrGivesUp(w) => /\ ocr[w].at = "fail"
                               /\ row'.status = IF ocr[w].seen = "failed" THEN row.status
                                                ELSE "failed"
    BY DEF Typed, TypeOK, OcrCommit, OcrGivesUp, OcrSets, Flushed

\* A request does not touch the tasks, loses no message, and does not set the status to
\* one of the two.
LEMMA RequestsLeaveOcr ==
    ASSUME Typed, TextInv,
           \/ \E h \in Handlers, kind \in Kinds : Open(h, kind)
           \/ \E h \in Handlers : HandlerStep(h)
    PROVE  /\ ocr' = ocr
           /\ ocrQueue' \in {ocrQueue, Send(ocrQueue, 0)}
           /\ row'.status \in {"processing", "ocr_done"} => row'.status = row.status
<1>1. row \in Rows BY DEF Typed, TypeOK, Rows
<1>2. CASE \E h \in Handlers, kind \in Kinds : Open(h, kind) BY <1>2 DEF Open
<1>3. CASE \E h \in Handlers : HandlerStep(h)
    <2>1. PICK h \in Handlers : HandlerStep(h) BY <1>3
    <2>2. ASSUME NEW status, SetStatus(h, status)
          PROVE  row'.status \in {status, row.status}
        BY <1>1, <2>2, FlushedIs DEF SetStatus, Rows
    <2>3. CASE CorrectCommit(h) BY <1>1, <2>3 DEF CorrectCommit, Close, Rows
    <2>4. CASE RegradeCommit(h) BY <2>2, <2>4 DEF RegradeCommit, Close
    <2>5. CASE OverrideCommit(h) BY <2>2, <2>5 DEF OverrideCommit, Close
    <2>6. CASE ProcessCommit(h)
        BY <2>2, <2>6 DEF ProcessCommit, Close, SendNext, NextStatus
    <2>7. QED BY <2>1, <2>3, <2>4, <2>5, <2>6, HandlersWithoutRewrites DEF TextInv
<1>4. QED BY <1>2, <1>3

\* Grading tasks leave OCR alone and set neither of its statuses.
LEMMA GradingLeavesOcr ==
    ASSUME Typed, NEW w \in GradeSlots, GradeStep(w)
    PROVE  /\ ocr' = ocr /\ ocrQueue' = ocrQueue
           /\ row'.status \in {"processing", "ocr_done"} => row'.status = row.status
<1>1. row \in Rows BY DEF Typed, TypeOK, Rows
<1>2. ocr' = ocr /\ ocrQueue' = ocrQueue
    BY DEF GradeStep, GradeStart, GradeMark, GradeLoad, GradeBlocked, GradeArchive,
       GradeCommit, GradeFails, GradeGivesUp, GradingUntouched
<1>3. \A status \in {"grading", "failed", "graded"} :
          GradingSets(w, status) \in {status, row.status}
    BY FlushedIs DEF GradingSets
<1>4. \/ row'.status = row.status
      \/ \E status \in {"grading", "failed", "graded"} : row'.status = GradingSets(w, status)
    BY <1>1 DEF GradeStep, GradeStart, GradeMark, GradeLoad, GradeBlocked, GradeArchive,
       GradeCommit, GradeFails, GradeGivesUp, Rows
<1>5. QED BY <1>2, <1>3, <1>4

\* Messages of ocr_queue never carry a retry number above the limit.
LEMMA OcrRetriesStep ==
    ASSUME Typed, TextInv, OcrRetriesAreBounded, Next
    PROVE  OcrRetriesAreBounded'
<1>1. /\ ocr \in [OcrSlots -> OcrRuns] /\ MaxOcrRetries \in Nat
      /\ DOMAIN ocrQueue = 0 .. MaxOcrRetries
    BY PipelineAssumption DEF Typed, TypeOK
<1>2. CASE ocr' = ocr BY <1>2 DEF OcrRetriesAreBounded
<1>3. ASSUME NEW w \in OcrSlots, OcrStep(w) \/ OcrSendFails(w) PROVE OcrRetriesAreBounded'
    <2>1. PICK next : ocr' = [ocr EXCEPT ![w] = next] /\ OcrAdvances(w, next)
        BY <1>3, OcrTaskMoves
    <2>2. next.retries \in 0 .. MaxOcrRetries
        BY <1>1, <2>1 DEF OcrAdvances, OcrRetriesAreBounded
    <2>3. QED BY <1>1, <2>1, <2>2 DEF OcrRetriesAreBounded
<1>4. ASSUME NEW w \in OcrSlots, OcrWorkerDown(w) PROVE OcrRetriesAreBounded'
    <2>1. ocr' = [ocr EXCEPT ![w] = IdleOcr] BY <1>4 DEF OcrWorkerDown
    <2>2. IdleOcr.retries \in 0 .. MaxOcrRetries BY <1>1 DEF IdleOcr
    <2>3. QED BY <1>1, <2>1, <2>2 DEF OcrRetriesAreBounded
<1>5. \/ ocr' = ocr
      \/ \E w \in OcrSlots : OcrStep(w) \/ OcrSendFails(w) \/ OcrWorkerDown(w)
    BY RequestsLeaveOcr, GradingLeavesOcr DEF Next, GradeWorkerDown, OcrFault
<1>6. QED BY <1>2, <1>3, <1>4, <1>5

\* An OCR worker that goes down leaves its message.
LEMMA OcrComesBack ==
    ASSUME Typed, OcrRetriesAreBounded, NEW w \in OcrSlots, OcrWorkerDown(w)
    PROVE  OcrMessage'
<1>1. MaxOcrRetries \in Nat /\ ocrQueue \in [0 .. MaxOcrRetries -> Nat]
      /\ ocr[w].retries \in 0 .. MaxOcrRetries
    BY PipelineAssumption DEF Typed, TypeOK, OcrRetriesAreBounded
<1>2. ocrQueue' \in [0 .. MaxOcrRetries -> Nat] /\ ocrQueue'[ocr[w].retries] > 0
    BY <1>1, SendKeeps DEF OcrWorkerDown
<1>3. QED BY <1>1, <1>2 DEF OcrMessage

\* The messages an OCR task does not take stay.
LEMMA OcrKeepsMessages ==
    ASSUME Typed, OcrMessage, NEW w \in OcrSlots, OcrStep(w) \/ OcrSendFails(w),
           ocr[w].at # "idle"
    PROVE  OcrMessage'
<1>1. ~OcrStart(w)
    <2>1. IdleOcr.at = "idle" BY DEF IdleOcr
    <2>2. QED BY <2>1 DEF OcrStart
<1>2. ocrQueue' = ocrQueue \/ \E r, most : ocrQueue' = Retry(ocrQueue, r, most)
    BY <1>1 DEF OcrStep, OcrMark, OcrRead, OcrCommit, OcrSend, OcrFails, OcrGivesUp,
       OcrSendFails
<1>3. QED BY <1>2, OcrMessagesStay

\* Every step leaves someone who takes a submission on from processing.
LEMMA ScanStep ==
    ASSUME Typed, TextInv, OcrRetriesAreBounded, ScanIsAwaited, Next
    PROVE  ScanIsAwaited'
<1> SUFFICES ASSUME row'.status = "processing"
             PROVE  OcrMessage' \/ \E v \in OcrSlots : WillScan(v)'
    BY DEF ScanIsAwaited
<1>1. ocr \in [OcrSlots -> OcrRuns] BY DEF Typed, TypeOK
<1>2. CASE /\ ocr' = ocr /\ row.status = "processing"
           /\ ocrQueue' \in {ocrQueue, Send(ocrQueue, 0)}
    BY <1>2, OcrMessagesStay DEF ScanIsAwaited, WillScan
<1>3. ASSUME NEW w \in OcrSlots, OcrStep(w) \/ OcrSendFails(w)
      PROVE  OcrMessage' \/ \E v \in OcrSlots : WillScan(v)'
    <2>1. PICK next : ocr' = [ocr EXCEPT ![w] = next] /\ OcrAdvances(w, next)
        BY <1>3, OcrTaskMoves
    <2>2. ocr'[w] = next /\ \A v \in OcrSlots \ {w} : ocr'[v] = ocr[v] BY <1>1, <2>1
    <2>3. ASSUME row.status = "processing", ocr[w].at # "idle", ~WillScan(w)
          PROVE  OcrMessage' \/ \E v \in OcrSlots : WillScan(v)'
        <3>1. CASE OcrMessage BY <1>3, <2>3, <3>1, OcrKeepsMessages
        <3>2. CASE \E v \in OcrSlots : WillScan(v)
            BY <2>2, <2>3, <3>2 DEF WillScan
        <3>3. QED BY <2>3, <3>1, <3>2 DEF ScanIsAwaited
    <2>4. CASE next.at \in {"mark", "read"} BY <2>2, <2>4 DEF WillScan
    <2>5. CASE next.at \in {"scan", "fail"} /\ next.seen = row.status /\ row' = row
        BY <2>2, <2>5 DEF WillScan
    <2>6. CASE OcrCommit(w) \/ OcrGivesUp(w) \/ OcrSend(w)
        <3>1. row.status = "processing" /\ ~WillScan(w)
            BY <2>6, OcrSettles DEF OcrSend, WillScan
        <3>2. ocr[w].at # "idle" BY <2>6 DEF OcrCommit, OcrGivesUp, OcrSend
        <3>3. QED BY <2>3, <3>1, <3>2
    <2>7. QED BY <2>1, <2>4, <2>5, <2>6 DEF OcrAdvances
<1>4. CASE \E w \in OcrSlots : OcrWorkerDown(w) BY <1>4, OcrComesBack
<1>5. CASE \E w \in GradeSlots : GradeWorkerDown(w) BY <1>2, <1>5 DEF GradeWorkerDown
<1>6. QED BY <1>2, <1>3, <1>4, <1>5, RequestsLeaveOcr, GradingLeavesOcr DEF Next, OcrFault

\* Every step leaves someone who takes a submission on from ocr_done.
LEMMA ResultStep ==
    ASSUME Typed, TextInv, OcrRetriesAreBounded, ResultIsAwaited, Next
    PROVE  ResultIsAwaited'
<1> DEFINE Awaited == \/ OcrMessage \/ GradeMessage
                      \/ \E v \in OcrSlots : WillAsk(v)
                      \/ \E v \in GradeSlots : WillTakeOver(v)
<1> SUFFICES ASSUME row'.status = "ocr_done" PROVE Awaited'
    BY DEF ResultIsAwaited
<1>1. /\ ocr \in [OcrSlots -> OcrRuns] /\ grading \in [GradeSlots -> GradingRuns]
      /\ MaxGradeRetries \in Nat /\ 0 \in 0 .. MaxGradeRetries
    BY PipelineAssumption DEF Typed, TypeOK
<1>2. CASE \/ \E h \in Handlers, kind \in Kinds : Open(h, kind)
           \/ \E h \in Handlers : HandlerStep(h)
    <2>1. /\ ocr' = ocr /\ ocrQueue' \in {ocrQueue, Send(ocrQueue, 0)}
          /\ row.status = "ocr_done"
        BY <1>2, RequestsLeaveOcr
    <2>2. grading' = grading /\ gradeQueue' \in {gradeQueue, Send(gradeQueue, 0)}
        BY <1>2, OthersAskForGrading
    <2>3. OcrMessage => OcrMessage' BY <2>1, OcrMessagesStay
    <2>4. GradeMessage => GradeMessage' BY <2>2, MessagesStay
    <2>5. QED BY <2>1, <2>2, <2>3, <2>4 DEF ResultIsAwaited, WillAsk, WillTakeOver
<1>3. ASSUME NEW w \in OcrSlots, OcrStep(w) \/ OcrSendFails(w) PROVE Awaited'
    <2>1. PICK next : ocr' = [ocr EXCEPT ![w] = next] /\ OcrAdvances(w, next)
        BY <1>3, OcrTaskMoves
    <2>2. ocr'[w] = next /\ \A v \in OcrSlots \ {w} : ocr'[v] = ocr[v] BY <1>1, <2>1
    <2>3. CASE next.at \in {"mark", "read", "scan", "send"} BY <2>2, <2>3 DEF WillAsk
    <2>4. CASE next.at = "fail" /\ next.seen = row.status /\ row' = row
        BY <2>2, <2>4 DEF WillAsk
    <2>5. CASE OcrSend(w) BY <1>1, <2>5, SendRequests DEF OcrSend
    <2>6. CASE OcrGivesUp(w)
        <3>1. row.status = "ocr_done" /\ ~WillAsk(w) BY <2>6, OcrSettles DEF WillAsk
        <3>2. ocr[w].at # "idle" BY <2>6 DEF OcrGivesUp
        <3>3. OcrMessage => OcrMessage' BY <1>3, <3>2, OcrKeepsMessages
        <3>4. grading' = grading /\ gradeQueue' = gradeQueue
            BY <2>6 DEF OcrGivesUp, OcrUntouched
        <3>5. (\E v \in OcrSlots : WillAsk(v)) => \E v \in OcrSlots : WillAsk(v)'
            BY <2>2, <3>1 DEF WillAsk
        <3>6. (\E v \in GradeSlots : WillTakeOver(v)) => \E v \in GradeSlots : WillTakeOver(v)'
            BY <3>4 DEF WillTakeOver
        <3>7. GradeMessage => GradeMessage' BY <3>4, MessagesStay
        <3>8. QED BY <3>1, <3>3, <3>5, <3>6, <3>7 DEF ResultIsAwaited
    <2>7. QED BY <2>1, <2>3, <2>4, <2>5, <2>6 DEF OcrAdvances
<1>4. ASSUME NEW w \in GradeSlots, GradeStep(w) PROVE Awaited'
    <2>1. ~(GradeStart(w) /\ row.text = NoText) BY MessagesFindText
    <2>2. PICK next : grading' = [grading EXCEPT ![w] = next] /\ GradingBecomes(w, next)
        BY <1>4, <2>1, GradingMoves
    <2>3. grading'[w] = next /\ \A v \in GradeSlots \ {w} : grading'[v] = grading[v]
        BY <1>1, <2>2
    <2>4. ocr' = ocr /\ ocrQueue' = ocrQueue /\ row.status = "ocr_done"
        BY <1>4, GradingLeavesOcr
    <2>5. ASSUME grading[w].at # "idle", WillTakeOver(w) => WillTakeOver(w)'
          PROVE  Awaited'
        <3>1. OcrMessage => OcrMessage' BY <2>4, OcrMessagesStay
        <3>2. GradeMessage => GradeMessage' BY <1>4, <2>5, GradingKeepsMessages
        <3>3. (\E v \in OcrSlots : WillAsk(v)) => \E v \in OcrSlots : WillAsk(v)'
            BY <2>4 DEF WillAsk
        <3>4. ASSUME NEW v \in GradeSlots, WillTakeOver(v)
              PROVE  \E u \in GradeSlots : WillTakeOver(u)'
            <4>1. CASE v = w BY <2>5, <3>4, <4>1
            <4>2. CASE v # w BY <2>3, <3>4, <4>2 DEF WillTakeOver
            <4>3. QED BY <4>1, <4>2
        <3>5. QED BY <2>4, <3>1, <3>2, <3>3, <3>4 DEF ResultIsAwaited
    <2>6. CASE next.at \in {"mark", "load"} BY <2>3, <2>6 DEF WillTakeOver
    <2>7. CASE next.at \in {"blocked", "model", "fail"} /\ next.seen = row.status /\ row' = row
        BY <2>3, <2>4, <2>7 DEF WillTakeOver
    <2>8. CASE /\ next.at = "commit" /\ next.seen = grading[w].seen
               /\ grading[w].at = "model" /\ row' = row
        BY <2>3, <2>5, <2>8 DEF WillTakeOver
    <2>9. CASE GradeBlocked(w) \/ GradeCommit(w) \/ GradeGivesUp(w)
        <3>1. grading[w].at # "idle" /\ ~WillTakeOver(w)
            BY <2>9, EndSettles DEF WillTakeOver
        <3>2. QED BY <2>5, <3>1
    <2>10. QED BY <2>2, <2>6, <2>7, <2>8, <2>9 DEF GradingBecomes
<1>5. CASE \E w \in OcrSlots : OcrWorkerDown(w) BY <1>5, OcrComesBack
<1>6. CASE \E w \in GradeSlots : GradeWorkerDown(w)
    <2>1. PICK w \in GradeSlots : GradeWorkerDown(w) BY <1>6
    <2>2. grading[w].retries \in 0 .. MaxGradeRetries BY DEF Typed, RetriesAreBounded
    <2>3. GradeMessage' BY <2>1, <2>2, SendRequests DEF GradeWorkerDown
    <2>4. QED BY <2>3
<1>7. QED BY <1>2, <1>3, <1>4, <1>5, <1>6 DEF Next, OcrFault

\* With any number of OCR and grading processes, retries and workers that go down, a
\* submission that is never re-uploaded nor sent to process-bulk does not stay in
\* processing or ocr_done: a message, a task or a request will take it on (run_ocr_task,
\* which commits the status before it sends the grading message).
THEOREM ScansAreWaitedFor ==
    ASSUME NoRewrites PROVE Spec => []ScanInProgress
<1>1. ASSUME Init PROVE OcrIsAwaited
    BY <1>1, PipelineAssumption
       DEF Init, OcrIsAwaited, OcrRetriesAreBounded, ScanIsAwaited, ResultIsAwaited, IdleOcr
<1>2. ASSUME Typed, TextInv, OcrIsAwaited, [Next]_vars PROVE OcrIsAwaited'
    <2>1. CASE Next
        BY <1>2, <2>1, OcrRetriesStep, ScanStep, ResultStep DEF OcrIsAwaited
    <2>2. CASE UNCHANGED vars
        BY <1>2, <2>2 DEF vars, OcrIsAwaited, OcrRetriesAreBounded, ScanIsAwaited,
           ResultIsAwaited, OcrMessage, GradeMessage, WillScan, WillAsk, WillTakeOver
    <2>3. QED BY <1>2, <2>1, <2>2
<1>3. ASSUME OcrIsAwaited PROVE ScanInProgress
    <2>1. IdleOcr.at = "idle" /\ IdleGrading.at = "idle" BY DEF IdleOcr, IdleGrading
    <2>2. \A w \in OcrSlots : WillScan(w) \/ WillAsk(w) => ocr[w] # IdleOcr
        BY <2>1 DEF WillScan, WillAsk
    <2>3. \A w \in GradeSlots : WillTakeOver(w) => grading[w] # IdleGrading
        BY <2>1 DEF WillTakeOver
    <2>4. QED
        BY <1>3, <2>2, <2>3 DEF OcrIsAwaited, ScanIsAwaited, ResultIsAwaited, OcrMessage,
           GradeMessage, ScanInProgress, InFlight
<1>4. QED BY <1>1, <1>2, <1>3, TextInvariant, PTL DEF Spec

----------------------------------------------------------------------------
(* Grades are current *)

\* One process grades, and none goes down.
OneGrader == (\A v, w \in GradeSlots : v = w) /\ MaxFaults = 0

\* The steps of requests and of OCR.
OtherStep ==
    \/ \E h \in Handlers, kind \in Kinds : Open(h, kind)
    \/ \E h \in Handlers : HandlerStep(h)
    \/ \E w \in OcrSlots : OcrStep(w)

\* Without faults a step is one of a grading task or of someone else.
LEMMA StepsWithoutFaults ==
    ASSUME Typed, OneGrader, Next
    PROVE  OtherStep \/ \E w \in GradeSlots : GradeStep(w)
<1>1. faults \in Nat BY DEF Typed, TypeOK
<1>2. ~(faults < MaxFaults) BY <1>1 DEF OneGrader
<1>3. QED BY <1>2 DEF Next, OtherStep, OcrFault, OcrWorkerDown, OcrSendFails, GradeWorkerDown

\* A request for a grading is not lost before a grading process takes it ...
LEMMA RequestedStays ==
    ASSUME Typed, TextInv, OtherStep, Requested
    PROVE  Requested'
<1>1. ocr \in [OcrSlots -> OcrRuns] /\ MaxGradeRetries \in Nat
    BY PipelineAssumption DEF Typed, TypeOK
<1>2. gradeQueue' \in {gradeQueue, Send(gradeQueue, 0)} BY OthersAskForGrading DEF OtherStep
<1>3. CASE GradeMessage BY <1>2, <1>3, MessagesStay DEF Requested
<1>4. CASE \E w \in OcrSlots : ocr[w].at = "send"
    <2>1. PICK w \in OcrSlots : ocr[w].at = "send" BY <1>4
    <2>2. CASE OcrStep(w)
        <3>1. IdleOcr.at = "idle" BY DEF IdleOcr
        <3>2. ocr[w] # IdleOcr BY <2>1, <3>1
        <3>3. OcrSend(w)
            BY <2>1, <2>2, <3>2 DEF OcrStep, OcrStart, OcrMark, OcrRead, OcrCommit, OcrFails,
               OcrGivesUp
        <3>4. gradeQueue' = Send(gradeQueue, 0) /\ 0 \in 0 .. MaxGradeRetries
            BY <1>1, <3>3 DEF OcrSend
        <3>5. QED BY <3>4, SendRequests DEF Requested
    <2>3. CASE ~OcrStep(w)
        <3>1. ocr' = ocr \/ \E v \in OcrSlots \ {w} : OcrStep(v)
            BY <2>3 DEF OtherStep, Open, HandlerStep, UploadCommit, CorrectCommit,
               RegradeCommit, OverrideCommit, ProcessCommit, BulkSend, BulkCommit, Close
        <3>2. ocr'[w] = ocr[w] BY <1>1, <3>1, OcrMoves
        <3>3. QED BY <2>1, <3>2 DEF Requested
    <2>4. QED BY <2>2, <2>3
<1>5. QED BY <1>3, <1>4 DEF Requested

\* ... and every change of the text makes one: a correction sends its message with the
\* commit, OCR goes on to send one.
LEMMA TextChangeIsRequested ==
    ASSUME Typed, TextInv, OtherStep, row'.text # row.text
    PROVE  Requested'
<1>1. /\ row \in Rows /\ ocr \in [OcrSlots -> OcrRuns]
      /\ MaxGradeRetries \in Nat /\ 0 \in 0 .. MaxGradeRetries
    BY PipelineAssumption DEF Typed, TypeOK, Rows
<1>2. CASE \E h \in Handlers, kind \in Kinds : Open(h, kind) BY <1>2 DEF Open
<1>3. CASE \E h \in Handlers : HandlerStep(h)
    <2>1. PICK h \in Handlers : HandlerStep(h) BY <1>3
    <2>2. CASE CorrectCommit(h)
        <3>1. gradeQueue' = Send(gradeQueue, 0) BY <2>2 DEF CorrectCommit
        <3>2. QED BY <1>1, <3>1, SendRequests DEF Requested
    <2>3. CASE RegradeCommit(h) \/ OverrideCommit(h) \/ ProcessCommit(h)
        BY <1>1, <2>3 DEF RegradeCommit, OverrideCommit, ProcessCommit, SetStatus, Rows
    <2>4. QED BY <2>1, <2>2, <2>3, HandlersWithoutRewrites DEF TextInv
<1>4. CASE \E w \in OcrSlots : OcrStep(w)
    <2>1. PICK w \in OcrSlots : OcrStep(w) BY <1>4
    <2>2. OcrCommit(w)
        BY <1>1, <2>1 DEF OcrStep, OcrStart, OcrMark, OcrRead, OcrSend, OcrFails, OcrGivesUp,
           Rows
    <2>3. ocr' = [ocr EXCEPT ![w] = [IdleOcr EXCEPT !.at = "send",
                                                    !.retries = ocr[w].retries]]
        BY <2>2 DEF OcrCommit, OcrGoTo
    <2>4. ocr'[w].at = "send" BY <1>1, <2>3 DEF IdleOcr
    <2>5. QED BY <2>4 DEF Requested
<1>5. QED BY <1>2, <1>3, <1>4 DEF OtherStep

\* Of the others only a TA's override writes a grade or sets the status to graded.
LEMMA OnlyOverridesGrade ==
    ASSUME Typed, TextInv, OtherStep
    PROVE  \/ \E h \in Handlers : OverrideCommit(h)
           \/ grades' = grades /\ (row'.status = "graded" => row.status = "graded")
<1>1. row \in Rows BY DEF Typed, TypeOK, Rows
<1>2. CASE \E h \in Handlers, kind \in Kinds : Open(h, kind) BY <1>2 DEF Open
<1>3. CASE \E h \in Handlers : HandlerStep(h)
    <2>1. PICK h \in Handlers : HandlerStep(h) BY <1>3
    <2>2. CASE CorrectCommit(h) BY <1>1, <2>2 DEF CorrectCommit, Rows
    <2>3. ASSUME NEW status, SetStatus(h, status)
          PROVE  row'.status \in {status, row.status}
        BY <1>1, <2>3, FlushedIs DEF SetStatus, Rows
    <2>4. CASE RegradeCommit(h) \/ ProcessCommit(h)
        BY <2>3, <2>4 DEF RegradeCommit, ProcessCommit, NextStatus
    <2>5. QED BY <2>1, <2>2, <2>4, HandlersWithoutRewrites DEF TextInv
<1>4. CASE \E w \in OcrSlots : OcrStep(w)
    <2>1. PICK w \in OcrSlots : OcrStep(w) BY <1>4
    <2>2. \A status \in {"processing", "ocr_done", "failed"} :
              OcrSets(w, status) \in {status, row.status}
        BY FlushedIs DEF OcrSets
    <2>3. \/ row'.status = row.status
          \/ \E status \in {"processing", "ocr_done", "failed"} :
                 row'.status = OcrSets(w, status)
        BY <1>1, <2>1 DEF OcrStep, OcrStart, OcrMark, OcrRead, OcrCommit, OcrSend, OcrFails,
           OcrGivesUp, Rows
    <2>4. grades' = grades
        BY <2>1 DEF OcrStep, OcrStart, OcrMark, OcrRead, OcrCommit, OcrSend, OcrFails,
           OcrGivesUp, OcrUntouched
    <2>5. QED BY <2>2, <2>3, <2>4
<1>5. QED BY <1>2, <1>3, <1>4 DEF OtherStep

\* An override is the newest grade from its commit on.
LEMMA OverrideIsFresh ==
    ASSUME Typed, NEW h \in Handlers, OverrideCommit(h)
    PROVE  Fresh'
<1> DEFINE grade == [source |-> "ta_manual", text |-> NoText, active |-> TRUE]
<1>1. grade \in GradeRows /\ grades \in Seq(GradeRows)
    BY NoTextIsText DEF GradeRows, Typed, TypeOK
<1>2. grades' = CommitGrade(request[h].captured, grade) BY DEF OverrideCommit
<1>3. grades' # <<>> /\ grades'[Len(grades')] = grade BY <1>1, <1>2, CommitGradeRows
<1>4. grade.source # "ai_generated" OBVIOUS
<1>5. QED BY <1>3, <1>4 DEF Fresh

\* A step of the grading task leaves the text, and a request but its own message.
LEMMA GradingLeavesText ==
    ASSUME Typed, NEW w \in GradeSlots, GradeStep(w)
    PROVE  /\ row'.text = row.text
           /\ ~GradeCommit(w) => grades' = grades
           /\ Requested /\ grading[w].at # "idle" => Requested'
<1>1. row \in Rows BY DEF Typed, TypeOK, Rows
<1>2. row'.text = row.text
    BY <1>1 DEF GradeStep, GradeStart, GradeMark, GradeLoad, GradeBlocked, GradeArchive,
       GradeCommit, GradeFails, GradeGivesUp, Rows
<1>3. ~GradeCommit(w) => grades' = grades
    BY DEF GradeStep, GradeStart, GradeMark, GradeLoad, GradeBlocked, GradeArchive,
       GradeFails, GradeGivesUp
<1>4. ocr' = ocr
    BY DEF GradeStep, GradeStart, GradeMark, GradeLoad, GradeBlocked, GradeArchive,
       GradeCommit, GradeFails, GradeGivesUp, GradingUntouched
<1>5. QED BY <1>2, <1>3, <1>4, GradingKeepsMessages DEF Requested

\* The grade it commits is the newest, of the text it has read.
LEMMA CommittedGrade ==
    ASSUME Typed, NEW w \in GradeSlots, GradeCommit(w), grading[w].text = row.text
    PROVE  Fresh'
<1> DEFINE grade == [source |-> "ai_generated", text |-> grading[w].text, active |-> TRUE]
<1>1. grading[w].text \in Texts /\ grades \in Seq(GradeRows) /\ row \in Rows
    BY DEF Typed, TypeOK, GradingRuns, Rows
<1>2. grade \in GradeRows BY <1>1 DEF GradeRows
<1>3. grades' = CommitGrade(grading[w].captured, grade) BY DEF GradeCommit
<1>4. grades' # <<>> /\ grades'[Len(grades')] = grade BY <1>1, <1>2, <1>3, CommitGradeRows
<1>5. row'.text = row.text BY <1>1 DEF GradeCommit, Rows
<1>6. grade.text = row'.text BY <1>5
<1>7. QED BY <1>4, <1>6 DEF Fresh

\* A task that grades an older text has a newer request behind it, after every step.
LEMMA OldTextStep ==
    ASSUME Typed, TextInv, OldTextIsRegraded, OneGrader, Next
    PROVE  OldTextIsRegraded'
<1> SUFFICES ASSUME NEW v \in GradeSlots, grading'[v].at \in {"model", "commit"},
                    grading'[v].text # row'.text
             PROVE  Requested'
    BY DEF OldTextIsRegraded
<1>1. grading \in [GradeSlots -> GradingRuns] BY DEF Typed, TypeOK
<1>2. CASE OtherStep
    <2>1. grading' = grading BY <1>2, OthersAskForGrading DEF OtherStep
    <2>2. CASE row'.text # row.text BY <1>2, <2>2, TextChangeIsRequested
    <2>3. CASE row'.text = row.text
        BY <1>2, <2>1, <2>3, RequestedStays DEF OldTextIsRegraded
    <2>4. QED BY <2>2, <2>3
<1>3. CASE \E w \in GradeSlots : GradeStep(w)
    <2>1. GradeStep(v) BY <1>3 DEF OneGrader
    <2>2. ~(GradeStart(v) /\ row.text = NoText) BY MessagesFindText
    <2>3. PICK next : grading' = [grading EXCEPT ![v] = next] /\ GradingBecomes(v, next)
        BY <2>1, <2>2, GradingMoves
    <2>4. grading'[v] = next BY <1>1, <2>3
    <2>5. row'.text = row.text BY <2>1, GradingLeavesText
    <2>6. next.at = "commit" /\ next.text = grading[v].text /\ grading[v].at = "model"
        BY <2>3, <2>4, <2>5 DEF GradingBecomes
    <2>7. Requested BY <2>4, <2>5, <2>6 DEF OldTextIsRegraded
    <2>8. QED BY <2>1, <2>6, <2>7, GradingLeavesText
<1>4. QED BY <1>2, <1>3, StepsWithoutFaults

\* A grade is of the current text or a grading is owed, after every step.
LEMMA FreshStep ==
    ASSUME Typed, TextInv, CurrentInv, OneGrader, Next
    PROVE  FreshOrOwed'
<1> SUFFICES ASSUME row'.status = "graded"
             PROVE  Fresh' \/ Requested' \/ \E w \in GradeSlots : WillGrade(w)'
    BY DEF FreshOrOwed
<1>1. grading \in [GradeSlots -> GradingRuns] BY DEF Typed, TypeOK
<1>2. CASE OtherStep
    <2>1. CASE \E h \in Handlers : OverrideCommit(h) BY <2>1, OverrideIsFresh
    <2>2. CASE grades' = grades /\ row.status = "graded"
        <3>1. grading' = grading BY <1>2, OthersAskForGrading DEF OtherStep
        <3>2. CASE row'.text # row.text BY <1>2, <3>2, TextChangeIsRequested
        <3>3. CASE row'.text = row.text
            BY <1>2, <2>2, <3>1, <3>3, RequestedStays
               DEF CurrentInv, FreshOrOwed, Fresh, WillGrade
        <3>4. QED BY <3>2, <3>3
    <2>3. QED BY <1>2, <2>1, <2>2, OnlyOverridesGrade
<1>3. CASE \E w \in GradeSlots : GradeStep(w)
    <2>1. PICK w \in GradeSlots : GradeStep(w) BY <1>3
    <2>2. ~(GradeStart(w) /\ row.text = NoText) BY MessagesFindText
    <2>3. PICK next : grading' = [grading EXCEPT ![w] = next] /\ GradingBecomes(w, next)
        BY <2>1, <2>2, GradingMoves
    <2>4. grading'[w] = next BY <1>1, <2>3
    <2>5. CASE next.at \in {"mark", "load", "model", "commit"}
        BY <2>4, <2>5 DEF WillGrade
    <2>6. CASE next.at \in {"blocked", "fail"} /\ next.seen = row.status /\ row' = row
        BY <2>4, <2>6 DEF WillGrade
    <2>7. CASE GradeCommit(w)
        <3>1. grading[w].at = "commit" BY <2>7 DEF GradeCommit
        <3>2. CASE grading[w].text = row.text BY <2>7, <3>2, CommittedGrade
        <3>3. CASE grading[w].text # row.text
            BY <2>1, <3>1, <3>3, GradingLeavesText DEF CurrentInv, OldTextIsRegraded
        <3>4. QED BY <3>2, <3>3
    <2>8. CASE (GradeBlocked(w) \/ GradeGivesUp(w)) /\ ~GradeCommit(w)
        <3>1. grading[w].at \in {"blocked", "fail"}
            BY <2>8 DEF GradeBlocked, GradeGivesUp
        <3>2. grading[w].seen = "failed" /\ row.status = "graded"
            BY <2>8, <3>1, EndSettles
        <3>3. ~ \E v \in GradeSlots : WillGrade(v)
            BY <3>1, <3>2 DEF OneGrader, WillGrade
        <3>4. Fresh \/ Requested BY <3>2, <3>3 DEF CurrentInv, FreshOrOwed
        <3>5. row'.text = row.text /\ grades' = grades
            BY <2>1, <2>8, GradingLeavesText
        <3>6. QED BY <2>1, <3>1, <3>4, <3>5, GradingLeavesText DEF Fresh
    <2>9. QED BY <2>3, <2>5, <2>6, <2>7, <2>8 DEF GradingBecomes
<1>4. QED BY <1>2, <1>3, StepsWithoutFaults

\* One process grading and none going down, a correction, regrade, override or process
\* request never leaves the submission graded on a text that is not there any more
\* (ocr_correction and run_grading_task), however many OCR tasks and requests there are.
THEOREM GradesAreCurrent ==
    ASSUME NoRewrites, OneGrader PROVE Spec => []GradeIsCurrent
<1>1. ASSUME Init PROVE CurrentInv
    BY <1>1 DEF Init, CurrentInv, OldTextIsRegraded, FreshOrOwed, IdleGrading
<1>2. ASSUME Typed, TextInv, CurrentInv, [Next]_vars PROVE CurrentInv'
    <2>1. CASE Next BY <1>2, <2>1, OldTextStep, FreshStep DEF CurrentInv
    <2>2. CASE UNCHANGED vars
        BY <1>2, <2>2 DEF vars, CurrentInv, OldTextIsRegraded, FreshOrOwed, Fresh, Requested,
           GradeMessage, WillGrade
    <2>3. QED BY <1>2, <2>1, <2>2
<1>3. ASSUME CurrentInv PROVE GradeIsCurrent
    <2>1. SUFFICES ASSUME ~InFlight, row.status = "graded" PROVE Fresh
        BY DEF GradeIsCurrent, Fresh
    <2>2. IdleGrading.at = "idle" /\ IdleOcr.at = "idle" BY DEF IdleGrading, IdleOcr
    <2>3. ~Requested BY <2>1, <2>2 DEF Requested, GradeMessage, InFlight
    <2>4. ~ \E w \in GradeSlots : WillGrade(w) BY <2>1, <2>2 DEF WillGrade, InFlight
    <2>5. QED BY <1>3, <2>1, <2>3, <2>4 DEF CurrentInv, FreshOrOwed
<1>4. QED BY <1>1, <1>2, <1>3, TextInvariant, PTL DEF Spec
=============================================================================
