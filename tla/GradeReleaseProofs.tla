------------------------- MODULE GradeReleaseProofs -------------------------
(***************************************************************************)
(* What GradeRelease promises for any number of students, requests and     *)
(* faults.  A batch works on copies of rows and writes at its commit what  *)
(* it did to Classroom, or to the disk, one call at a time before.  The    *)
(* invariants say what a request in flight has done so far: which of its   *)
(* marks the students have seen, which rows its deletion has taken, which  *)
(* rows its ingest still owes a message.                                   *)
(***************************************************************************)
EXTENDS GradeRelease, TLAPS

\* The requests there are, by what they hold.
Batches ==
    [step : {"open"}, kind : Pushes, batch : SUBSET Subs, left : SUBSET Subs,
     marks : SUBSET (Subs \X Grades)]
Items ==
    [step : {"push", "return"}, kind : Pushes, batch : SUBSET Subs, left : SUBSET Subs,
     marks : SUBSET (Subs \X Grades), sub : Subs, grade : Grades]
Deletions ==
    [step : {"open"}, kind : {"delete"}, batch : SUBSET Subs, left : SUBSET Subs,
     takes : SUBSET (Subs \X GradeIds \X SUBSET GradeIds)]
Ingests ==
    [step : {"open"}, kind : {"ingest"}, force : BOOLEAN, left : SUBSET Subs,
     takes : SUBSET (Subs \X BOOLEAN \X GradeIds \X BOOLEAN)]
Sendings == [step : {"send"}, kind : {"ingest"}, force : BOOLEAN, left : SUBSET Subs]

RequestRecords == {Awaited, Over} \cup Batches \cup Items \cup Deletions \cup Ingests
                  \cup Sendings

Outcomes == {"none", "recorded", "unrecorded", "refused", "cut"}

\* The types, with the records of requests spelled out; what ended is over.
Typed ==
    /\ coding \in BOOLEAN
    /\ submission \in [Subs -> Submissions]
    /\ grades \in [Subs -> SUBSET Grades]
    /\ audits \in [Subs -> SUBSET Ids]
    /\ classroom \in [Subs -> Classrooms]
    /\ sent \subseteq Subs \X Ids
    /\ request \in [Ids -> RequestRecords]
    /\ outcome \in [Ids -> Outcomes]
    /\ \A i \in Ids : outcome[i] # "none" => request[i] = Over
    /\ drafted \subseteq Subs \X GradeIds
    /\ contended \subseteq Subs /\ disturbed \subseteq Subs

----------------------------------------------------------------------------
(* Pushes *)

\* A grade's maker has arrived, so that no grade to come goes by the same name.
Arrived(id) == id \in Ids => request[id] # Awaited

\* The grades a push has read: those to mark, and the one it is at.
Copies(r) == IF r \in Items THEN r.marks \cup {<<r.sub, r.grade>>} ELSE r.marks

GradesDistinct == \A s \in Subs : \A g, h \in grades[s] : g.id = h.id => g = h

GradesArrived ==
    \A s \in Subs :
        /\ \A g \in grades[s] : Arrived(g.id)
        /\ \A r \in classroom[s].returned : Arrived(r[1])

CopiesArrived ==
    \A i \in Ids : request[i] \in Batches \cup Items =>
        \A m \in Copies(request[i]) : Arrived(m[2].id)

\* What a request has returned is among its marks for as long as it runs.
ReturnedAreMarked ==
    \A s \in Subs : \A r \in classroom[s].returned :
        /\ request[r[2]] # Awaited
        /\ Runs(r[2]) =>
               /\ request[r[2]] \in Batches \cup Items /\ request[r[2]].kind \in Releases
               /\ \E m \in request[r[2]].marks : m[1] = s /\ m[2].id = r[1]

\* And nothing else is, in a release.
MarkedWereReturned ==
    \A i \in Ids : request[i] \in Batches \cup Items /\ request[i].kind \in Releases =>
        \A m \in request[i].marks : <<m[2].id, i>> \in classroom[m[1]].returned

\* The row of a released grade, or one a draft push has marked since.
Recorded(s, g) == g.status = "released" \/ <<s, g.id>> \in drafted

\* A grade that was read as released is still recorded so, or a draft push marked it.
CopiesAreRecorded ==
    \A i \in Ids : request[i] \in Batches \cup Items =>
        \A m \in Copies(request[i]) : m[2].status = "released" =>
            \A g \in grades[m[1]] : g.id = m[2].id => Recorded(m[1], g)

PushInv ==
    /\ GradesDistinct /\ GradesArrived /\ CopiesArrived /\ ReturnedAreMarked /\ MarkedWereReturned
    /\ CopiesAreRecorded /\ ReleasedWasReturned /\ ReturnedIsRecorded

----------------------------------------------------------------------------
(* What is shown *)

OneActive == \A s \in Subs : \A g, h \in Active(s) : g = h

\* A student who is not contended has one release under way at most.
OneRelease ==
    \A s \in Subs \ contended : \A i, j \in Of(Releases) :
        s \in request[i].batch /\ s \in request[j].batch => i = j

\* A batch gets to each of its students once.
OncePerStudent ==
    \A i \in Ids : request[i] \in Batches \cup Items =>
        /\ request[i].left \subseteq request[i].batch
        /\ \A m \in request[i].marks : m[1] \in request[i].batch \ request[i].left
        /\ request[i] \in Items =>
               /\ request[i].sub \in request[i].batch \ request[i].left
               /\ \A m \in request[i].marks : m[1] # request[i].sub

\* What a release has pushed is what Classroom has.
PushedIsShown ==
    \A i \in Ids : request[i] \in Batches \cup Items /\ request[i].kind \in Releases =>
        /\ \A m \in request[i].marks :
               m[1] \notin contended => classroom[m[1]].assigned = m[2].id
        /\ request[i].step = "return" /\ request[i].sub \notin contended =>
               classroom[request[i].sub].assigned = request[i].grade.id

\* What a release is about to push does not replace a released grade that is active.
PushIsCurrent ==
    \A i \in Ids :
        request[i] \in Items /\ request[i].kind \in Releases
        /\ request[i].sub \notin contended =>
            \A g \in Active(request[i].sub) :
                g.id = request[i].grade.id \/ g.status # "released"

ShownInv ==
    /\ OneActive /\ OneRelease /\ OncePerStudent /\ PushedIsShown /\ PushIsCurrent
    /\ ReleasedActiveIsShown

----------------------------------------------------------------------------
(* Deletions and ingests *)

\* The request is one whose ingest was stored: no row to come is made by it.
Stored(id) == id \in Ids => request[id] \in {Over} \cup Sendings

RowsStored ==
    /\ \A s \in Subs : Stored(submission[s].id) /\ Stored(submission[s].upload)
    /\ \A i \in Ids : request[i] \in Deletions => \A t \in request[i].takes : Stored(t[2])

\* What a deletion has taken it is through with.
TakesAreLeft ==
    \A i \in Ids : request[i] \in Deletions =>
        /\ request[i].left \subseteq request[i].batch
        /\ \A t \in request[i].takes : t[1] \in request[i].batch \ request[i].left

\* What will refuse a deletion has disturbed its batch.
RefusalsDisturb ==
    \A i \in Ids : request[i] \in Deletions =>
        /\ \A s \in request[i].batch :
               submission[s].jobs # "none" => request[i].batch \subseteq disturbed
        /\ \A t \in Present(i) : Referred(t) => request[i].batch \subseteq disturbed

\* A row without its file is about to go, with the deletion that has taken it.
FilesGoWithRows ==
    Cuts = {} =>
        \A s \in Subs \ disturbed : submission[s].there /\ ~submission[s].file =>
            \E i \in Ids :
                /\ request[i] \in Deletions
                /\ \E t \in request[i].takes : t[1] = s /\ t[2] = submission[s].id

DeleteInv == RowsStored /\ TakesAreLeft /\ RefusalsDisturb /\ FilesGoWithRows

\* An ingest takes a row that is there only when it is forced.
TakesAreForced ==
    \A i \in Ids : request[i] \in Ingests =>
        \A t \in request[i].takes : t[2] => request[i].force

\* An ingest that was stored still owes the messages it has not sent.
SendingsOwe ==
    \A i \in Ids, s \in Subs :
        request[i] \in Sendings /\ submission[s].there /\ submission[s].pending
        /\ submission[s].upload = i =>
            s \in request[i].left \/ <<s, i>> \in sent

IngestInv == TakesAreForced /\ SendingsOwe /\ IngestedIsSent

----------------------------------------------------------------------------
(* Requests and types *)

\* A request's step and kind say what it holds.
LEMMA RequestOf ==
    ASSUME NEW r \in RequestRecords
    PROVE  /\ r.step \in {"awaited", "open", "push", "return", "send", "over"}
           /\ r.step \in {"awaited", "over"} => r \in {Awaited, Over}
           /\ r.step = "open" /\ r.kind \in Pushes => r \in Batches
           /\ r.step \in {"push", "return"} => r \in Items
           /\ r.step \notin {"awaited", "over"} /\ r.kind \in Pushes => r \in Batches \cup Items
           /\ r.step \notin {"awaited", "over"} /\ r.kind = "delete" => r \in Deletions
           /\ r.step = "open" /\ r.kind = "ingest" => r \in Ingests
           /\ r.step = "send" => r \in Sendings
           /\ r.step \notin {"awaited", "over"} /\ r.kind = "ingest" =>
                  r \in Ingests \cup Sendings
BY DEF RequestRecords, Awaited, Over, Batches, Items, Deletions, Ingests, Sendings, Pushes,
       Releases

\* And the other way round.
LEMMA KindOf ==
    ASSUME NEW r \in RequestRecords
    PROVE  /\ r \in Batches => r.step = "open" /\ r.kind \in Pushes
           /\ r \in Items => r.step \in {"push", "return"} /\ r.kind \in Pushes
           /\ r \in Deletions => r.step = "open" /\ r.kind = "delete"
           /\ r \in Ingests => r.step = "open" /\ r.kind = "ingest"
           /\ r \in Sendings => r.step = "send" /\ r.kind = "ingest"
           /\ r = Awaited => r.step = "awaited"
           /\ r = Over => r.step = "over"
           /\ r.kind \in Pushes => r.kind # "delete" /\ r.kind # "ingest"
           /\ Releases \subseteq Pushes
BY DEF Batches, Items, Deletions, Ingests, Sendings, Pushes, Releases, Awaited, Over

\* One request moves, the others stay.
LEMMA OneMoves ==
    ASSUME Typed, NEW i \in Ids, NEW r, Moves(i, r)
    PROVE  /\ request' = [request EXCEPT ![i] = r]
           /\ request'[i] = r
           /\ \A k \in Ids : k # i => request'[k] = request[k]
           /\ r \in RequestRecords => request' \in [Ids -> RequestRecords]
BY DEF Moves, Typed

\* The types of the history and of what a request holds, which most steps leave alone.
Kept ==
    /\ request' \in [Ids -> RequestRecords] /\ outcome' \in [Ids -> Outcomes]
    /\ \A i \in Ids : outcome'[i] # "none" => request'[i] = Over

\* A request that moves on has no outcome yet.
LEMMA MovesKeeps ==
    ASSUME Typed, NEW i \in Ids, NEW r \in RequestRecords, Moves(i, r), outcome' = outcome,
           request[i] # Over
    PROVE  Kept
<1>1. outcome[i] = "none" BY DEF Typed
<1>2. QED BY <1>1, OneMoves DEF Typed, Kept

\* A request that ends is over.
LEMMA EndsKeeps ==
    ASSUME Typed, NEW i \in Ids, NEW how \in Outcomes, Ends(i, how)
    PROVE  /\ Kept /\ request'[i] = Over /\ outcome'[i] = how
           /\ \A k \in Ids : k # i => outcome'[k] = outcome[k]
<1>1. Moves(i, Over) /\ Over \in RequestRecords BY DEF Ends, RequestRecords
<1>2. QED BY <1>1, OneMoves DEF Typed, Kept, Ends

\* Grade ids, and students of the course, are what they are.
LEMMA NewRows ==
    ASSUME NEW i \in Ids
    PROVE  /\ i \in GradeIds /\ i # 0
           /\ [id |-> i, active |-> TRUE, status |-> "not_synced"] \in Grades
           /\ NoSubmission \in Submissions /\ NoSubmission.id = 0
           /\ \A g \in Grades : [g EXCEPT !.active = FALSE] \in Grades
           /\ \A g \in Grades : \A kind : [g EXCEPT !.status = MarkOf(kind)] \in Grades
<1>1. i \in GradeIds /\ i # 0 /\ 0 \in 0 .. MaxRequests
    BY RequestsAssumption DEF Ids, GradeIds
<1>2. [id |-> i, active |-> TRUE, status |-> "not_synced"] \in Grades
    BY <1>1 DEF Grades
<1>3. NoSubmission \in Submissions /\ NoSubmission.id = 0
    BY <1>1 DEF NoSubmission, Submissions
<1>4. /\ \A g \in Grades : [g EXCEPT !.active = FALSE] \in Grades
      /\ \A g \in Grades : \A kind : [g EXCEPT !.status = MarkOf(kind)] \in Grades
    BY DEF Grades, MarkOf
<1>5. QED BY <1>1, <1>2, <1>3, <1>4

\* An item of a batch that is dropped, and what a deletion or an ingest takes.
LEMMA DropsTyped ==
    ASSUME NEW r \in Batches \cup Deletions \cup Ingests, NEW s \in Subs
    PROVE  /\ [r EXCEPT !.step = "open", !.left = @ \ {s}] \in RequestRecords
           /\ r \in Deletions => \A t \in Subs \X GradeIds \X SUBSET GradeIds :
                  [r EXCEPT !.left = @ \ {s}, !.takes = @ \cup {t}] \in Deletions
           /\ r \in Ingests => \A t \in Subs \X BOOLEAN \X GradeIds \X BOOLEAN :
                  [r EXCEPT !.left = @ \ {s}, !.takes = @ \cup {t}] \in Ingests
<1>1. CASE r \in Batches
    <2>1. [r EXCEPT !.step = "open", !.left = @ \ {s}] \in Batches
        BY <1>1 DEF Batches
    <2>2. QED BY <1>1, <2>1 DEF RequestRecords, Batches, Deletions, Ingests, Pushes, Releases
<1>2. CASE r \in Deletions
    <2>1. [r EXCEPT !.step = "open", !.left = @ \ {s}] \in Deletions
        BY <1>2 DEF Deletions
    <2>2. \A t \in Subs \X GradeIds \X SUBSET GradeIds :
              [r EXCEPT !.left = @ \ {s}, !.takes = @ \cup {t}] \in Deletions
        BY <1>2 DEF Deletions
    <2>3. QED BY <1>2, <2>1, <2>2 DEF RequestRecords, Deletions, Ingests
<1>3. CASE r \in Ingests
    <2>1. [r EXCEPT !.step = "open", !.left = @ \ {s}] \in Ingests
        BY <1>3 DEF Ingests
    <2>2. \A t \in Subs \X BOOLEAN \X GradeIds \X BOOLEAN :
              [r EXCEPT !.left = @ \ {s}, !.takes = @ \cup {t}] \in Ingests
        BY <1>3 DEF Ingests
    <2>3. QED BY <1>3, <2>1, <2>2 DEF RequestRecords, Deletions, Ingests
<1>4. QED BY <1>1, <1>2, <1>3

\* A push goes from item to item.
LEMMA ItemsTyped ==
    ASSUME NEW i \in Ids, request[i] \in Items
    PROVE  /\ Marked(i) \in Batches /\ Unmarked(i) \in Batches
           /\ [request[i] EXCEPT !.step = "return"] \in Items
           /\ Marked(i).kind = request[i].kind /\ Unmarked(i).kind = request[i].kind
           /\ Marked(i).batch = request[i].batch /\ Unmarked(i).batch = request[i].batch
           /\ Marked(i).left = request[i].left /\ Unmarked(i).left = request[i].left
           /\ Marked(i).marks = request[i].marks \cup {<<request[i].sub, request[i].grade>>}
           /\ Unmarked(i).marks = request[i].marks
BY DEF Items, Batches, Marked, Unmarked

\* The steps of a push, but for the commit.
LEMMA PushTyped ==
    ASSUME Typed, NEW i \in Ids,
           ReadGrade(i) \/ Push(i) \/ Return(i) \/ PushFails(i) \/ EndBulk(i)
    PROVE  Typed'
<1> DEFINE r == request[i]
<1>1. /\ r \in RequestRecords /\ Batches \cup Items \subseteq RequestRecords
      /\ grades \in [Subs -> SUBSET Grades]
      /\ classroom \in [Subs -> Classrooms]
    BY DEF Typed, RequestRecords
<1>2. SUFFICES Kept /\ classroom' \in [Subs -> Classrooms]
    BY DEF Typed, Kept, ReadGrade, Push, Return, PushFails, EndBulk, tables, history
<1>3. CASE ReadGrade(i)
    <2>1. r \in Batches BY <1>1, <1>3, RequestOf DEF ReadGrade, Of
    <2>2. /\ r # Over /\ r.left \subseteq Subs /\ r.marks \in SUBSET (Subs \X Grades)
          /\ r.kind \in Pushes /\ r.batch \in SUBSET Subs
        BY <1>1, <2>1, KindOf DEF Batches
    <2>3. ASSUME NEW s \in r.left, NEW g \in Active(s)
          PROVE  [step |-> "push", kind |-> r.kind, batch |-> r.batch, left |-> r.left \ {s},
                  marks |-> r.marks, sub |-> s, grade |-> g] \in Items
        BY <1>1, <2>2, <2>3 DEF Items, Active
    <2>4. \A s \in r.left : [r EXCEPT !.step = "open", !.left = @ \ {s}] \in RequestRecords
        BY <2>1, <2>2, DropsTyped
    <2>5. Kept
        BY <1>1, <1>3, <2>2, <2>3, <2>4, MovesKeeps DEF ReadGrade, Drops, history
    <2>6. QED BY <1>1, <1>3, <2>5 DEF ReadGrade
<1>4. CASE Push(i) \/ Return(i) \/ PushFails(i)
    <2>1. r \in Items BY <1>1, <1>4, RequestOf DEF Push, Return, PushFails, Of
    <2>2. r # Over /\ r.sub \in Subs /\ r.grade \in Grades /\ r.grade.id \in GradeIds
        BY <1>1, <2>1, KindOf DEF Items, Grades
    <2>3. Kept
        BY <1>1, <1>4, <2>1, <2>2, ItemsTyped, MovesKeeps
        DEF Push, Return, PushFails, history
    <2>4. \A c \in Classrooms :
              /\ [c EXCEPT !.assigned = r.grade.id] \in Classrooms
              /\ [c EXCEPT !.returned = @ \cup {<<r.grade.id, i>>}] \in Classrooms
        BY <2>2 DEF Classrooms
    <2>5. classroom' \in [Subs -> Classrooms]
        BY <1>1, <1>4, <2>4 DEF Push, Return, PushFails
    <2>6. QED BY <2>3, <2>5
<1>5. CASE EndBulk(i)
    BY <1>1, <1>5, EndsKeeps DEF EndBulk, Outcomes
<1>6. QED BY <1>3, <1>4, <1>5

\* A deletion is of students of the course.
LEMMA BatchMatesTyped ==
    ASSUME Typed
    PROVE  \A s : BatchMates(s) \subseteq Subs
<1>1. \A j \in Of({"delete"}) : request[j].batch \subseteq Subs
    BY RequestOf DEF Of, Runs, Deletions, Typed
<1>2. QED BY <1>1 DEF BatchMates

\* The commit of a push changes statuses, and adds audit entries.
LEMMA CommitMarksTyped ==
    ASSUME Typed, NEW i \in Ids, CommitMarks(i)
    PROVE  Typed'
<1> DEFINE r == request[i]
<1>1. /\ r \in RequestRecords /\ grades \in [Subs -> SUBSET Grades]
      /\ drafted \subseteq Subs \X GradeIds
    BY DEF Typed
<1>2. r \in Batches BY <1>1, RequestOf DEF CommitMarks, Of, Pushes, Releases
<1>3. r.marks \in SUBSET (Subs \X Grades) BY <1>2 DEF Batches
<1>4. Kept BY EndsKeeps DEF CommitMarks, Outcomes
<1>5. \A s \in Subs, g \in Grades : MarkedRow(i, s, g) \in Grades
    BY NewRows DEF MarkedRow
<1>6. grades' \in [Subs -> SUBSET Grades]
    BY <1>1, <1>5 DEF CommitMarks
<1>7. \A m \in r.marks : m[1] \in Subs /\ m[2].id \in GradeIds
    BY <1>3 DEF Grades
<1>8. drafted' \subseteq Subs \X GradeIds
    BY <1>1, <1>7 DEF CommitMarks
<1>9. disturbed' \subseteq Subs
    <2>1. \A s : BatchMates(s) \subseteq Subs BY BatchMatesTyped
    <2>2. QED BY <2>1 DEF CommitMarks, Typed
<1>10. audits' \in [Subs -> SUBSET Ids] BY DEF CommitMarks, Typed
<1>11. QED BY <1>4, <1>6, <1>8, <1>9, <1>10 DEF Typed, Kept, CommitMarks

\* The steps that let requests begin.
LEMMA OpenTyped ==
    ASSUME Typed, NEW i \in Ids,
           \/ \E kind \in Pushes, batch \in SUBSET Subs \ {{}} : OpenPush(i, kind, batch)
           \/ \E batch \in SUBSET Subs \ {{}} : OpenDelete(i, batch)
           \/ \E force \in BOOLEAN : OpenIngest(i, force)
    PROVE  Typed'
<1>1. ASSUME NEW kind \in Pushes, NEW batch \in SUBSET Subs \ {{}}, OpenPush(i, kind, batch)
      PROVE  Typed'
    <2>1. [step |-> "open", kind |-> kind, batch |-> batch, left |-> batch, marks |-> {}]
              \in RequestRecords
        BY DEF RequestRecords, Batches
    <2>2. Kept BY <1>1, <2>1, MovesKeeps DEF OpenPush, Arrives, Awaited, Over
    <2>3. contended' \subseteq Subs BY <1>1 DEF OpenPush, Typed
    <2>4. QED BY <1>1, <2>2, <2>3 DEF Typed, Kept, OpenPush, tables
<1>2. ASSUME NEW batch \in SUBSET Subs \ {{}}, OpenDelete(i, batch)
      PROVE  Typed'
    <2>1. [step |-> "open", kind |-> "delete", batch |-> batch, left |-> batch, takes |-> {}]
              \in RequestRecords
        BY DEF RequestRecords, Deletions
    <2>2. Kept BY <1>2, <2>1, MovesKeeps DEF OpenDelete, Arrives, Awaited, Over
    <2>3. disturbed' \subseteq Subs BY <1>2 DEF OpenDelete, Typed
    <2>4. QED BY <1>2, <2>2, <2>3 DEF Typed, Kept, OpenDelete, tables
<1>3. ASSUME NEW force \in BOOLEAN, OpenIngest(i, force)
      PROVE  Typed'
    <2>1. [step |-> "open", kind |-> "ingest", force |-> force, left |-> Subs, takes |-> {}]
              \in RequestRecords
        BY DEF RequestRecords, Ingests
    <2>2. Kept BY <1>3, <2>1, MovesKeeps DEF OpenIngest, Arrives, Awaited, Over, history
    <2>3. QED BY <1>3, <2>2 DEF Typed, Kept, OpenIngest, tables, history
<1>4. QED BY <1>1, <1>2, <1>3

\* Other writers of rows end at once.
LEMMA WriterTyped ==
    ASSUME Typed, NEW i \in Ids, NEW s \in Subs, NewGrade(i, s) \/ Correct(i, s) \/ NewJob(i, s)
    PROVE  Typed'
<1>1. /\ request \in [Ids -> RequestRecords] /\ submission \in [Subs -> Submissions]
      /\ grades \in [Subs -> SUBSET Grades] /\ disturbed \subseteq Subs
    BY DEF Typed
<1>2. Kept BY EndsKeeps DEF NewGrade, Correct, NewJob, Outcomes
<1>3. \A j \in Of({"delete"}) : request[j].batch \subseteq Subs
    BY <1>1, RequestOf DEF Of, Runs, Deletions
<1>4. disturbed' \subseteq Subs
    BY <1>1, <1>3, BatchMatesTyped DEF NewGrade, Correct, NewJob
<1>5. \A row \in Submissions : /\ [row EXCEPT !.pending = FALSE] \in Submissions
                               /\ \A b \in BOOLEAN : [row EXCEPT !.pending = @ /\ ~b] \in Submissions
                               /\ [row EXCEPT !.jobs = "open"] \in Submissions
    BY DEF Submissions
<1>6. submission' \in [Subs -> Submissions]
    BY <1>1, <1>5 DEF NewGrade, Correct, NewJob
<1>7. grades' \in [Subs -> SUBSET Grades]
    <2>1. {[g EXCEPT !.active = FALSE] : g \in grades[s]} \cup
          {[id |-> i, active |-> TRUE, status |-> "not_synced"]} \in SUBSET Grades
        BY <1>1, NewRows
    <2>2. QED BY <1>1, <2>1 DEF NewGrade, Correct, NewJob
<1>8. audits' \in [Subs -> SUBSET Ids] BY DEF NewGrade, Correct, NewJob, Typed
<1>9. QED BY <1>2, <1>4, <1>6, <1>7, <1>8 DEF Typed, Kept, NewGrade, Correct, NewJob

\* The rows that refer to a submission go by the requests that made them.
LEMMA RowsOfTyped ==
    ASSUME Typed, NEW s \in Subs
    PROVE  RowsOf(s) \in SUBSET GradeIds
BY RequestsAssumption DEF RowsOf, Typed, Grades, GradeIds, Ids

\* A deletion takes rows, and its commit removes them.
LEMMA DeleteTyped ==
    ASSUME Typed, NEW i \in Ids, Unlink(i) \/ CommitDelete(i)
    PROVE  Typed'
<1> DEFINE r == request[i]
<1>1. /\ r \in RequestRecords /\ submission \in [Subs -> Submissions]
      /\ Deletions \subseteq RequestRecords /\ grades \in [Subs -> SUBSET Grades]
    BY DEF Typed, RequestRecords
<1>2. r \in Deletions /\ r # Over /\ r.left \subseteq Subs
    <2>1. r \in Deletions BY <1>1, RequestOf DEF Unlink, CommitDelete, Of, Runs
    <2>2. QED BY <1>1, <2>1, KindOf DEF Deletions
<1>3. SUFFICES Kept /\ submission' \in [Subs -> Submissions] /\ grades' \in [Subs -> SUBSET Grades]
    <2>1. audits' \in [Subs -> SUBSET Ids] BY DEF Typed, Unlink, CommitDelete, tables
    <2>2. QED BY <1>3, <2>1 DEF Typed, Kept, Unlink, CommitDelete, tables
<1>4. CASE Unlink(i)
    <2>1. PICK s \in r.left :
              IF ~submission[s].there
              THEN Drops(i, s) /\ UNCHANGED <<coding, tables, outcome>>
              ELSE /\ submission' = [submission EXCEPT ![s].file = FALSE]
                   /\ IF submission[s].jobs = "graded"
                      THEN Ends(i, "refused")
                      ELSE /\ Moves(i, [r EXCEPT !.left = @ \ {s}, !.takes = @ \cup
                                  {<<s, submission[s].id, RowsOf(s)>>}])
                           /\ UNCHANGED outcome
                   /\ UNCHANGED <<grades, audits>>
        BY <1>4 DEF Unlink
    <2> DEFINE t == <<s, submission[s].id, RowsOf(s)>>
    <2>2. s \in Subs /\ submission[s] \in Submissions /\ submission[s].id \in GradeIds
        BY <1>1, <1>2 DEF Submissions, GradeIds
    <2>3. t \in Subs \X GradeIds \X SUBSET GradeIds
        BY <2>2, RowsOfTyped
    <2>4. /\ [r EXCEPT !.step = "open", !.left = @ \ {s}] \in RequestRecords
          /\ [r EXCEPT !.left = @ \ {s}, !.takes = @ \cup {t}] \in RequestRecords
        BY <1>1, <1>2, <2>2, <2>3, DropsTyped
    <2>5. Kept
        BY <1>2, <2>1, <2>4, MovesKeeps, EndsKeeps DEF Drops, Outcomes
    <2>6. [submission[s] EXCEPT !.file = FALSE] \in Submissions
        BY <2>2 DEF Submissions
    <2>7. QED BY <1>1, <2>1, <2>2, <2>5, <2>6 DEF tables
<1>5. CASE CommitDelete(i)
    <2>1. Kept BY <1>5, EndsKeeps DEF CommitDelete, Outcomes
    <2>2. submission' \in [Subs -> Submissions] /\ grades' \in [Subs -> SUBSET Grades]
        <3> DEFINE out == {t[1] : t \in Present(i)}
        <3> HIDE DEF out
        <3>1. \/ UNCHANGED tables
              \/ /\ submission' = [s \in Subs |-> IF s \in out THEN NoSubmission
                                                             ELSE submission[s]]
                 /\ grades' = [s \in Subs |-> IF s \in out THEN {} ELSE grades[s]]
            BY <1>5 DEF CommitDelete, out
        <3>2. NoSubmission \in Submissions BY NewRows
        <3>3. QED BY <1>1, <3>1, <3>2 DEF tables
    <2>3. QED BY <2>1, <2>2
<1>6. QED BY <1>4, <1>5

\* The row an ingest writes is of this ingest; its identity is that of the row it replaces.
LEMMA IngestedRow ==
    ASSUME Typed, NEW i \in Ids, NEW s \in Subs
    PROVE  LET row == Ingested(i, s) IN
           /\ row \in Submissions /\ row.there /\ row.file /\ row.upload = i
           /\ row.pending \in BOOLEAN /\ (row.pending => ~coding)
           /\ row.id = IF submission[s].there THEN submission[s].id ELSE i
           /\ row.jobs = IF submission[s].there THEN submission[s].jobs ELSE "none"
<1>1. submission[s] \in Submissions /\ coding \in BOOLEAN BY DEF Typed
<1>2. i \in 0 .. MaxRequests BY NewRows DEF GradeIds
<1>3. QED BY <1>1, <1>2 DEF Ingested, NoSubmission, Submissions

\* The steps of an ingest.
LEMMA IngestTyped ==
    ASSUME Typed, NEW i \in Ids, IngestRuns(i)
    PROVE  Typed'
<1> DEFINE r == request[i]
<1>1. /\ r \in RequestRecords /\ submission \in [Subs -> Submissions]
      /\ Ingests \cup Sendings \subseteq RequestRecords /\ sent \subseteq Subs \X Ids
    BY DEF Typed, RequestRecords
<1>2. CASE IngestOne(i)
    <2>1. r \in Ingests BY <1>1, <1>2, RequestOf DEF IngestOne, Of
    <2>2. r # Over /\ r.left \subseteq Subs BY <1>1, <2>1, KindOf DEF Ingests
    <2>3. \A s \in r.left :
              Loaded(s) \in Subs \X BOOLEAN \X GradeIds \X BOOLEAN
        BY <1>1, <2>2 DEF Submissions, GradeIds, Loaded
    <2>4. \A s \in r.left :
              /\ [r EXCEPT !.step = "open", !.left = @ \ {s}] \in RequestRecords
              /\ [r EXCEPT !.left = @ \ {s}, !.takes = @ \cup
                      {Loaded(s)}] \in RequestRecords
        BY <1>1, <2>1, <2>2, <2>3, DropsTyped
    <2>5. Kept BY <1>2, <2>2, <2>4, MovesKeeps DEF IngestOne, Drops, history
    <2>6. QED BY <1>2, <2>5 DEF Typed, Kept, IngestOne, tables, history
<1>3. CASE CommitIngest(i)
    <2>1. r \in Ingests BY <1>1, <1>3, RequestOf DEF CommitIngest, Of
    <2>2. /\ r # Over /\ r.force \in BOOLEAN
          /\ r.takes \in SUBSET (Subs \X BOOLEAN \X GradeIds \X BOOLEAN)
        BY <1>1, <2>1, KindOf DEF Ingests
    <2>3. OcrDue(i) \subseteq Subs BY <2>2 DEF OcrDue
    <2>4. [step |-> "send", kind |-> "ingest", force |-> r.force, left |-> OcrDue(i)]
              \in RequestRecords
        BY <1>1, <2>2, <2>3 DEF Sendings
    <2>5. Kept
        BY <1>3, <2>2, <2>4, MovesKeeps, EndsKeeps DEF CommitIngest, Outcomes
    <2>6. submission' \in [Subs -> Submissions]
        BY <1>1, <1>3, IngestedRow DEF CommitIngest
    <2>7. QED BY <1>3, <2>5, <2>6 DEF Typed, Kept, CommitIngest
<1>4. CASE SendOcr(i)
    <2>1. r \in Sendings BY <1>1, <1>4, RequestOf DEF SendOcr, Of
    <2>2. r # Over /\ r.left \subseteq Subs BY <1>1, <2>1, KindOf DEF Sendings
    <2>3. \A s \in r.left : [r EXCEPT !.left = @ \ {s}] \in RequestRecords
        BY <1>1, <2>1 DEF Sendings
    <2>4. Kept
        BY <1>4, <2>2, <2>3, MovesKeeps, EndsKeeps DEF SendOcr, Outcomes
    <2>5. sent' \subseteq Subs \X Ids
        <3>1. sent' = sent \/ \E s \in r.left : sent' = sent \cup {<<s, i>>}
            BY <1>4 DEF SendOcr
        <3>2. QED BY <1>1, <2>2, <3>1
    <2>6. QED BY <1>4, <2>4, <2>5 DEF Typed, Kept, SendOcr, tables
<1>5. QED BY <1>2, <1>3, <1>4 DEF IngestRuns

\* Types hold from step to step.
LEMMA NextTyped == Typed /\ [Next]_vars => Typed'
<1>1. SUFFICES ASSUME Typed, [Next]_vars PROVE Typed'
    OBVIOUS
<1>2. CASE UNCHANGED vars
    BY <1>1, <1>2
    DEF vars, requests, tables, history, Typed
<1>3. ASSUME NEW i \in Ids, ProcessEnds(i) PROVE Typed'
    <2>1. Kept BY <1>1, <1>3, EndsKeeps DEF ProcessEnds, Outcomes
    <2>2. QED BY <1>1, <1>3, <2>1 DEF Typed, Kept, ProcessEnds, tables
<1>4. QED
    BY <1>1, <1>2, <1>3, OpenTyped, PushTyped, CommitMarksTyped, WriterTyped, DeleteTyped,
       IngestTyped
    DEF Next, PushRuns

\* Types hold at first.
LEMMA InitTyped == Init => Typed
<1>1. SUFFICES ASSUME NEW c \in Courses, Init, RequestsInit(c.expected), coding = c.coding,
                      submission = c.submission, grades = c.grades
               PROVE  Typed
    BY DEF Init
<1>2. /\ coding \in BOOLEAN /\ submission \in [Subs -> Submissions]
      /\ grades \in [Subs -> SUBSET Grades]
    BY <1>1, CoursesAssumption
<1>3. [assigned |-> NoGrade, returned |-> {}] \in Classrooms
    BY RequestsAssumption DEF Classrooms
<1>4. /\ request \in [Ids -> RequestRecords] /\ outcome \in [Ids -> Outcomes]
      /\ \A i \in Ids : outcome[i] = "none"
    BY <1>1 DEF RequestsInit, RequestRecords, Init, Outcomes
<1>5. classroom \in [Subs -> Classrooms] /\ sent \subseteq Subs \X Ids
    BY <1>1, <1>3 DEF Init
<1>6. /\ drafted = {} /\ contended = {} /\ disturbed = {}
      /\ audits \in [Subs -> SUBSET Ids]
    BY <1>1 DEF Init
<1>7. QED BY <1>2, <1>4, <1>5, <1>6 DEF Typed

\* The types, of everything a run checks the types of.
LEMMA TypedIsTypeOK == Typed => ReleaseTypeOK
<1>1. SUFFICES ASSUME Typed PROVE ReleaseTypeOK
    OBVIOUS
<1>2. ASSUME NEW i \in Ids
      PROVE  /\ request[i].step \in {"awaited", "open", "push", "return", "send", "over"}
             /\ Runs(i) => outcome[i] = "none"
    BY <1>1, RequestOf, KindOf DEF Typed, Runs
<1>3. QED BY <1>1, <1>2 DEF Typed, ReleaseTypeOK, Outcomes

\* Typed is an invariant of the specification.
LEMMA TypedInvariant == Spec => []Typed
BY InitTyped, NextTyped, PTL DEF Spec

\* Rows of submissions and grades, the requests that work on copies of them and what
\* Classroom has are what they should be (submissions.py, classroom.py,
\* classroom_sync.py); a request that runs has no outcome.
THEOREM TypesHold == Spec => []ReleaseTypeOK
BY TypedIsTypeOK, TypedInvariant, PTL

----------------------------------------------------------------------------
(* How requests move *)

OnlyMoves(i) == \A k \in Ids : k # i => request'[k] = request[k] /\ outcome'[k] = outcome[k]

\* A request moves on, or ends with an outcome.
LEMMA MovesOnly ==
    ASSUME Typed, NEW i \in Ids
    PROVE  /\ \A r : Moves(i, r) /\ outcome' = outcome => OnlyMoves(i) /\ request'[i] = r
           /\ \A how : Ends(i, how) =>
                  OnlyMoves(i) /\ request'[i] = Over /\ outcome'[i] = how
<1>1. ASSUME NEW r, Moves(i, r), outcome' = outcome
      PROVE  OnlyMoves(i) /\ request'[i] = r
    BY <1>1, OneMoves DEF OnlyMoves
<1>2. ASSUME NEW how, Ends(i, how)
      PROVE  OnlyMoves(i) /\ request'[i] = Over /\ outcome'[i] = how
    BY <1>2, OneMoves DEF OnlyMoves, Ends, Typed
<1>3. QED BY <1>1, <1>2

\* A deletion is opened.
LEMMA OpenDeleteMoves ==
    ASSUME Typed, NEW i \in Ids, NEW batch \in SUBSET Subs, OpenDelete(i, batch)
    PROVE  /\ OnlyMoves(i) /\ outcome' = outcome /\ request[i] = Awaited
           /\ request'[i] \in Deletions /\ request'[i].batch = batch
           /\ request'[i].left = batch /\ request'[i].takes = {}
<1>1. [step |-> "open", kind |-> "delete", batch |-> batch, left |-> batch, takes |-> {}]
          \in Deletions
    BY DEF Deletions
<1>2. QED BY <1>1, MovesOnly DEF OpenDelete, Arrives

\* It goes past a student without a row, stops at a grade a job refers to, or takes the row.
LEMMA UnlinkMoves ==
    ASSUME Typed, NEW i \in Ids, Unlink(i)
    PROVE  /\ OnlyMoves(i) /\ request[i] \in Deletions
           /\ \E s \in request[i].left :
                \/ /\ ~submission[s].there /\ UNCHANGED <<tables, outcome>>
                   /\ request'[i] \in Deletions
                   /\ request'[i] = [request[i] EXCEPT !.left = @ \ {s}]
                \/ /\ submission[s].there /\ UNCHANGED <<grades, audits>>
                   /\ submission' = [submission EXCEPT ![s].file = FALSE]
                   /\ \/ /\ submission[s].jobs = "graded"
                         /\ outcome'[i] = "refused" /\ request'[i] = Over
                      \/ /\ submission[s].jobs # "graded" /\ UNCHANGED outcome
                         /\ request'[i] \in Deletions
                         /\ request'[i] = [request[i] EXCEPT !.left = @ \ {s}, !.takes = @ \cup
                                 {<<s, submission[s].id, RowsOf(s)>>}]
<1> DEFINE r == request[i]
<1>1. r \in Deletions BY RequestOf DEF Unlink, Of, Runs, Typed
<1>2. PICK s \in r.left :
          IF ~submission[s].there
          THEN Drops(i, s) /\ UNCHANGED <<coding, tables, outcome>>
          ELSE /\ submission' = [submission EXCEPT ![s].file = FALSE]
               /\ IF submission[s].jobs = "graded"
                  THEN Ends(i, "refused")
                  ELSE /\ Moves(i, [r EXCEPT !.left = @ \ {s}, !.takes = @ \cup
                              {<<s, submission[s].id, RowsOf(s)>>}])
                       /\ UNCHANGED outcome
               /\ UNCHANGED <<grades, audits>>
    BY DEF Unlink
<1> DEFINE t == <<s, submission[s].id, RowsOf(s)>>
<1>3. s \in Subs /\ submission[s] \in Submissions /\ grades[s] \subseteq Grades
    BY <1>1 DEF Deletions, Typed
<1>4. t \in Subs \X GradeIds \X SUBSET GradeIds
    BY <1>3, RowsOfTyped DEF Submissions, GradeIds
<1>5. [r EXCEPT !.left = @ \ {s}, !.takes = @ \cup {t}] \in Deletions
    BY <1>1, <1>3, <1>4, DropsTyped
<1>6. /\ [r EXCEPT !.step = "open", !.left = @ \ {s}] = [r EXCEPT !.left = @ \ {s}]
      /\ [r EXCEPT !.left = @ \ {s}] \in Deletions
    BY <1>1 DEF Deletions
<1>7. CASE ~submission[s].there
    BY <1>1, <1>2, <1>6, <1>7, MovesOnly DEF Drops
<1>8. CASE submission[s].there /\ submission[s].jobs = "graded"
    BY <1>1, <1>2, <1>8, MovesOnly
<1>9. CASE submission[s].there /\ submission[s].jobs # "graded"
    <2>1. /\ Moves(i, [r EXCEPT !.left = @ \ {s}, !.takes = @ \cup {t}])
          /\ outcome' = outcome /\ UNCHANGED <<grades, audits>>
          /\ submission' = [submission EXCEPT ![s].file = FALSE]
        BY <1>2, <1>9
    <2>2. request'[i] = [r EXCEPT !.left = @ \ {s}, !.takes = @ \cup {t}] /\ OnlyMoves(i)
        BY <2>1, MovesOnly
    <2>3. QED BY <1>1, <1>5, <1>9, <2>1, <2>2
<1>10. QED BY <1>7, <1>8, <1>9

\* It is committed, or refused for a row that refers to one of its own.
LEMMA CommitDeleteMoves ==
    ASSUME Typed, NEW i \in Ids, CommitDelete(i)
    PROVE  /\ OnlyMoves(i) /\ request[i] \in Deletions /\ request[i].left = {}
           /\ request'[i] = Over
           /\ \/ /\ outcome'[i] = "refused" /\ UNCHANGED tables
                 /\ \E t \in Present(i) : Referred(t)
              \/ /\ outcome'[i] = "recorded"
                 /\ submission' = [s \in Subs |-> IF s \in {t[1] : t \in Present(i)}
                                                  THEN NoSubmission ELSE submission[s]]
                 /\ grades' = [s \in Subs |-> IF s \in {t[1] : t \in Present(i)}
                                              THEN {} ELSE grades[s]]
                 /\ \A s \in Subs : audits'[s] \subseteq audits[s]
<1>1. request[i] \in Deletions BY RequestOf DEF CommitDelete, Of, Runs, Typed
<1>2. CASE \E t \in Present(i) : Referred(t)
    <2>1. Ends(i, "refused") /\ UNCHANGED tables BY <1>2 DEF CommitDelete
    <2>2. QED BY <1>1, <1>2, <2>1, MovesOnly DEF CommitDelete
<1>3. CASE ~ \E t \in Present(i) : Referred(t)
    <2>1. /\ Ends(i, "recorded")
          /\ submission' = [s \in Subs |-> IF s \in {t[1] : t \in Present(i)}
                                           THEN NoSubmission ELSE submission[s]]
          /\ grades' = [s \in Subs |-> IF s \in {t[1] : t \in Present(i)}
                                       THEN {} ELSE grades[s]]
          /\ audits' = [s \in Subs |-> IF s \in {t[1] : t \in Present(i)}
                                       THEN {} ELSE audits[s]]
        BY <1>3 DEF CommitDelete
    <2>2. QED BY <1>1, <2>1, MovesOnly DEF CommitDelete
<1>4. QED BY <1>2, <1>3

\* An ingest is opened.
LEMMA OpenIngestMoves ==
    ASSUME Typed, NEW i \in Ids, NEW force \in BOOLEAN, OpenIngest(i, force)
    PROVE  /\ OnlyMoves(i) /\ outcome' = outcome /\ request[i] = Awaited
           /\ request'[i] \in Ingests /\ request'[i].takes = {}
<1>1. [step |-> "open", kind |-> "ingest", force |-> force, left |-> Subs, takes |-> {}]
          \in Ingests
    BY DEF Ingests
<1>2. QED BY <1>1, MovesOnly DEF OpenIngest, Arrives, history

\* It skips a student, or takes the row there is, or none.
LEMMA IngestOneMoves ==
    ASSUME Typed, NEW i \in Ids, IngestOne(i)
    PROVE  /\ OnlyMoves(i) /\ outcome' = outcome
           /\ request[i] \in Ingests /\ request'[i] \in Ingests
           /\ request'[i].force = request[i].force
           /\ \E s \in Subs :
                \/ request'[i].takes = request[i].takes
                \/ /\ submission[s].there => request[i].force
                   /\ request'[i].takes =
                         request[i].takes \cup {Loaded(s)}
<1> DEFINE r == request[i]
<1>1. r \in Ingests /\ outcome' = outcome
    BY RequestOf DEF IngestOne, Of, Typed, history
<1>2. PICK s \in r.left :
          \/ Drops(i, s)
          \/ /\ submission[s].there => r.force
             /\ Moves(i, [r EXCEPT !.left = @ \ {s},
                                   !.takes = @ \cup {Loaded(s)}])
    BY DEF IngestOne
<1> DEFINE t == Loaded(s)
<1>3. s \in Subs /\ submission[s] \in Submissions
    BY <1>1 DEF Ingests, Typed
<1>4. t \in Subs \X BOOLEAN \X GradeIds \X BOOLEAN
    BY <1>3 DEF Submissions, GradeIds, Loaded
<1>5. [r EXCEPT !.left = @ \ {s}, !.takes = @ \cup {t}] \in Ingests
    BY <1>1, <1>3, <1>4, DropsTyped
<1>6. /\ [r EXCEPT !.left = @ \ {s}, !.takes = @ \cup {t}].force = r.force
      /\ [r EXCEPT !.left = @ \ {s}, !.takes = @ \cup {t}].takes = r.takes \cup {t}
    BY <1>1 DEF Ingests
<1>7. /\ [r EXCEPT !.step = "open", !.left = @ \ {s}] \in Ingests
      /\ [r EXCEPT !.step = "open", !.left = @ \ {s}].force = r.force
      /\ [r EXCEPT !.step = "open", !.left = @ \ {s}].takes = r.takes
    BY <1>1 DEF Ingests
<1>8. CASE Drops(i, s)
    <2>1. request'[i] = [r EXCEPT !.step = "open", !.left = @ \ {s}] /\ OnlyMoves(i)
        BY <1>1, <1>8, MovesOnly DEF Drops
    <2>2. QED BY <1>1, <1>3, <1>7, <2>1
<1>9. CASE /\ submission[s].there => r.force
           /\ Moves(i, [r EXCEPT !.left = @ \ {s}, !.takes = @ \cup {t}])
    <2>1. request'[i] = [r EXCEPT !.left = @ \ {s}, !.takes = @ \cup {t}] /\ OnlyMoves(i)
        BY <1>1, <1>9, MovesOnly
    <2>2. QED BY <1>1, <1>3, <1>5, <1>6, <1>9, <2>1
<1>10. QED BY <1>2, <1>8, <1>9

\* It is stored, and has the rows to send to OCR, or it is refused.
LEMMA CommitIngestMoves ==
    ASSUME Typed, NEW i \in Ids, CommitIngest(i)
    PROVE  /\ OnlyMoves(i) /\ request[i] \in Ingests
           /\ \/ /\ outcome' = outcome /\ request'[i] \in Sendings
                 /\ request'[i].left = OcrDue(i) /\ Storable(i)
                 /\ submission' = [s \in Subs |-> IF s \in {t[1] : t \in request[i].takes}
                                                  THEN Ingested(i, s) ELSE submission[s]]
              \/ outcome'[i] = "refused" /\ request'[i] = Over /\ submission' = submission
<1> DEFINE r == request[i]
<1>1. r \in Ingests BY RequestOf DEF CommitIngest, Of, Typed
<1>2. /\ r.force \in BOOLEAN /\ OcrDue(i) \subseteq Subs
    BY <1>1 DEF Ingests, OcrDue
<1>3. [step |-> "send", kind |-> "ingest", force |-> r.force, left |-> OcrDue(i)] \in Sendings
    BY <1>2 DEF Sendings
<1>4. CASE Storable(i)
    <2>1. /\ Moves(i, [step |-> "send", kind |-> "ingest", force |-> r.force,
                       left |-> OcrDue(i)])
          /\ outcome' = outcome
          /\ submission' = [s \in Subs |-> IF s \in {t[1] : t \in r.takes}
                                           THEN Ingested(i, s) ELSE submission[s]]
        BY <1>4 DEF CommitIngest
    <2>2. QED BY <1>1, <1>3, <1>4, <2>1, MovesOnly
<1>5. CASE ~Storable(i)
    <2>1. Ends(i, "refused") /\ submission' = submission BY <1>5 DEF CommitIngest
    <2>2. QED BY <1>1, <2>1, MovesOnly
<1>6. QED BY <1>4, <1>5

\* It sends one message after the other, and ends.
LEMMA SendOcrMoves ==
    ASSUME Typed, NEW i \in Ids, SendOcr(i)
    PROVE  /\ OnlyMoves(i) /\ request[i] \in Sendings
           /\ \/ /\ outcome'[i] = "recorded" /\ request'[i] = Over /\ sent' = sent
                 /\ request[i].left = {}
              \/ /\ outcome' = outcome /\ request'[i] \in Sendings
                 /\ \E s \in request[i].left : /\ request'[i].left = request[i].left \ {s}
                                               /\ sent' = sent \cup {<<s, i>>}
<1> DEFINE r == request[i]
<1>1. r \in Sendings BY RequestOf DEF SendOcr, Of, Typed
<1>2. \A s : /\ [r EXCEPT !.left = @ \ {s}] \in Sendings
             /\ [r EXCEPT !.left = @ \ {s}].left = r.left \ {s}
    BY <1>1 DEF Sendings
<1>3. CASE r.left = {}
    BY <1>1, <1>3, MovesOnly DEF SendOcr
<1>4. CASE r.left # {}
    <2>1. PICK s \in r.left : /\ sent' = sent \cup {<<s, i>>} /\ outcome' = outcome
                             /\ Moves(i, [r EXCEPT !.left = @ \ {s}])
        BY <1>4 DEF SendOcr
    <2>2. request'[i] = [r EXCEPT !.left = @ \ {s}] /\ OnlyMoves(i) BY <2>1, MovesOnly
    <2>3. QED BY <1>1, <1>2, <2>1, <2>2
<1>5. QED BY <1>3, <1>4

\* The grade a push reads, and the items it drops.
LEMMA ReadMoves ==
    ASSUME Typed, NEW i \in Ids, ReadGrade(i)
    PROVE  /\ OnlyMoves(i) /\ outcome' = outcome /\ request[i] \in Batches
           /\ request'[i].kind = request[i].kind /\ request'[i].batch = request[i].batch
           /\ request'[i].marks = request[i].marks
           /\ \E s \in request[i].left :
                  /\ request'[i].left = request[i].left \ {s}
                  /\ \/ request'[i] \in Batches
                     \/ /\ request'[i] \in Items /\ request'[i].step = "push"
                        /\ request'[i].sub = s /\ request'[i].grade \in Active(s)
<1> DEFINE r == request[i]
<1>1. r \in Batches BY RequestOf DEF ReadGrade, Of, Typed
<1>2. r.left \subseteq Subs /\ grades \in [Subs -> SUBSET Grades]
    BY <1>1 DEF Batches, Typed
<1>3. PICK s \in r.left :
          \/ \E g \in Active(s) :
                 Moves(i, [step |-> "push", kind |-> r.kind, batch |-> r.batch,
                           left |-> r.left \ {s}, marks |-> r.marks, sub |-> s, grade |-> g])
          \/ Active(s) = {} /\ Drops(i, s)
    BY DEF ReadGrade
<1>4. outcome' = outcome BY DEF ReadGrade, history
<1>5. ASSUME NEW g \in Active(s),
             Moves(i, [step |-> "push", kind |-> r.kind, batch |-> r.batch,
                       left |-> r.left \ {s}, marks |-> r.marks, sub |-> s, grade |-> g])
      PROVE  /\ OnlyMoves(i) /\ request'[i].kind = r.kind /\ request'[i].batch = r.batch
             /\ request'[i].marks = r.marks /\ request'[i].left = r.left \ {s}
             /\ request'[i] \in Items /\ request'[i].step = "push"
             /\ request'[i].sub = s /\ request'[i].grade \in Active(s)
    <2>1. [step |-> "push", kind |-> r.kind, batch |-> r.batch, left |-> r.left \ {s},
           marks |-> r.marks, sub |-> s, grade |-> g] \in Items
        BY <1>1, <1>2, <1>5 DEF Batches, Items, Active
    <2>2. QED BY <1>4, <1>5, <2>1, MovesOnly
<1>6. CASE Drops(i, s)
    <2>1. request'[i] = [r EXCEPT !.step = "open", !.left = @ \ {s}] /\ OnlyMoves(i)
        BY <1>4, <1>6, MovesOnly DEF Drops
    <2>2. QED BY <1>1, <1>4, <2>1 DEF Batches
<1>7. QED BY <1>1, <1>3, <1>4, <1>5, <1>6

\* A push calls Classroom for the item it is at, and goes on with or without its mark.
LEMMA PushMoves ==
    ASSUME Typed, NEW i \in Ids
    PROVE  /\ Push(i) \/ Return(i) \/ PushFails(i) =>
                  OnlyMoves(i) /\ outcome' = outcome /\ request[i] \in Items
           /\ Push(i) =>
                  \/ /\ request[i].kind \in Releases
                     /\ request'[i] = [request[i] EXCEPT !.step = "return"]
                     /\ classroom' = [classroom EXCEPT ![request[i].sub].assigned =
                                                           request[i].grade.id]
                  \/ /\ request[i].kind \notin Releases
                     /\ request'[i] = Marked(i) /\ classroom' = classroom
           /\ Return(i) => request[i].kind \in Releases /\ request'[i] = Marked(i)
           /\ PushFails(i) => request'[i] = Unmarked(i)
           /\ EndBulk(i) =>
                  /\ OnlyMoves(i) /\ request[i] \in Batches
                  /\ request'[i] = Over /\ outcome'[i] = "unrecorded"
<1>1. Push(i) \/ Return(i) \/ PushFails(i) => request[i] \in Items
    BY RequestOf DEF Push, Return, PushFails, Of, Typed
<1>2. EndBulk(i) => request[i] \in Batches
    BY RequestOf DEF EndBulk, Of, Typed, Pushes, Releases
<1>3. QED
    BY <1>1, <1>2, MovesOnly DEF Push, Return, PushFails, EndBulk, Of, history

----------------------------------------------------------------------------
(* What is recorded as released was returned, and the other way round *)

\* What a push and the requests beside it may do, step by step: a grade is new, or a row
\* there was, which stays recorded; nothing is released but what was returned; the marks
\* of a release are what it has returned.
RecordedAfter(s, g) == g.status = "released" \/ <<s, g.id>> \in drafted'

GradesFollow(i) ==
    \A s \in Subs :
        /\ \A g, h \in grades'[s] : g.id = h.id => g = h
        /\ \A g \in grades'[s] :
               \/ g.id = i /\ request[i] = Awaited /\ g.status # "released"
               \/ \E h \in grades[s] :
                      /\ h.id = g.id
                      /\ Recorded(s, h) => RecordedAfter(s, g)
                      /\ g.status = "released" =>
                             \/ h.status = "released"
                             \/ \E r \in classroom[s].returned : r[1] = h.id

ReturnedFollow(i) ==
    \A s \in Subs :
        /\ classroom[s].returned \subseteq classroom'[s].returned
        /\ \A r \in classroom'[s].returned \ classroom[s].returned :
               /\ request[i] \in Items /\ request[i].kind \in Releases
               /\ s = request[i].sub /\ r = <<request[i].grade.id, i>>
               /\ request'[i] = Marked(i)

RequestFollows(i) ==
    /\ request[i] # Over /\ request'[i] # Awaited
    /\ \A k \in Ids : k # i => request'[k] = request[k] /\ outcome'[k] = outcome[k]
    /\ request'[i] \in Batches \cup Items =>
           \/ request[i] = Awaited /\ request'[i] \in Batches /\ request'[i].marks = {}
           \/ /\ request[i] \in Batches \cup Items
              /\ request'[i].kind = request[i].kind
              /\ request[i].marks \subseteq request'[i].marks
              /\ \A m \in Copies(request'[i]) :
                     \/ m \in Copies(request[i])
                     \/ m[1] \in Subs /\ m[2] \in grades[m[1]] /\ UNCHANGED grades
              /\ request[i].kind \in Releases =>
                     \A m \in request'[i].marks \ request[i].marks :
                         <<m[2].id, i>> \in classroom'[m[1]].returned
    /\ request'[i] \notin Batches \cup Items \cup {Over} =>
           request[i] \notin Batches \cup Items \cup {Over}

\* A batch that is committed records what it returned.
CommitFollows(i) ==
    outcome'[i] = "recorded" =>
        \A s \in Subs : \A g \in grades'[s] :
            <<g.id, i>> \in classroom'[s].returned => RecordedAfter(s, g)

PushFrame(i) ==
    /\ RequestFollows(i) /\ GradesFollow(i) /\ ReturnedFollow(i) /\ CommitFollows(i)
    /\ drafted \subseteq drafted'

\* What a request of a push holds: its marks, and the grade it is at.
LEMMA CopiesOf ==
    /\ \A r \in Batches : r \notin Items /\ Copies(r) = r.marks
    /\ \A r \in Items : Copies(r) = r.marks \cup {<<r.sub, r.grade>>}
    /\ \A r \in Batches \cup Items :
           r \notin {Awaited, Over} /\ r.marks \subseteq Copies(r)
    /\ \A r \in Batches \cup Items : \A m \in Copies(r) : m[1] \in Subs /\ m[2] \in Grades
<1>1. \A r \in Batches : r \notin Items /\ r \notin {Awaited, Over}
    BY DEF Batches, Items, Awaited, Over
<1>2. \A r \in Items : r \notin {Awaited, Over} BY DEF Items, Awaited, Over
<1>3. \A r \in Batches \cup Items : r.marks \subseteq Subs \X Grades
    BY DEF Batches, Items
<1>4. \A r \in Items : r.sub \in Subs /\ r.grade \in Grades BY DEF Items
<1>5. QED BY <1>1, <1>2, <1>3, <1>4 DEF Copies

\* Such a step keeps what is known of pushes.
LEMMA PushFrameKeeps ==
    ASSUME Typed, Typed', PushInv, NEW i \in Ids, PushFrame(i)
    PROVE  PushInv'
<1> DEFINE r == request[i]
<1> DEFINE rn == request'[i]
<1>1. /\ RequestFollows(i) /\ GradesFollow(i) /\ ReturnedFollow(i) /\ CommitFollows(i)
      /\ drafted \subseteq drafted'
    BY DEF PushFrame
<1>2. /\ \A k \in Ids : request[k] \in RequestRecords /\ request'[k] \in RequestRecords
      /\ \A s \in Subs : /\ grades[s] \subseteq Grades /\ grades'[s] \subseteq Grades
                         /\ classroom[s].returned \subseteq GradeIds \X Ids
                         /\ classroom'[s].returned \subseteq GradeIds \X Ids
    BY DEF Typed, Classrooms
<1>3. \A k \in Ids : request[k] # Awaited => request'[k] # Awaited
    BY <1>1 DEF RequestFollows
<1>4. \A id : Arrived(id) => Arrived(id)'
    BY <1>3 DEF Arrived
<1>5. Arrived(i)' BY <1>1 DEF RequestFollows, Arrived
<1>6. GradesDistinct' BY <1>1 DEF GradesFollow, GradesDistinct
<1>7. r \in Batches \cup Items => \A m \in Copies(r) : Arrived(m[2].id)
    BY DEF PushInv, CopiesArrived
<1>8. GradesArrived'
    <2>1. ASSUME NEW s \in Subs, NEW g \in grades'[s] PROVE Arrived(g.id)'
        <3>1. CASE g.id = i BY <1>5, <3>1
        <3>2. CASE \E h \in grades[s] : h.id = g.id
            BY <1>4, <3>2 DEF PushInv, GradesArrived
        <3>3. QED BY <1>1, <2>1, <3>1, <3>2 DEF GradesFollow
    <2>2. ASSUME NEW s \in Subs, NEW p \in classroom'[s].returned PROVE Arrived(p[1])'
        <3>1. CASE p \in classroom[s].returned
            BY <1>4, <3>1 DEF PushInv, GradesArrived
        <3>2. CASE p \notin classroom[s].returned
            <4>1. r \in Items /\ p[1] = r.grade.id
                BY <1>1, <2>2, <3>2 DEF ReturnedFollow
            <4>2. <<r.sub, r.grade>> \in Copies(r) BY <4>1, CopiesOf
            <4>3. Arrived(r.grade.id) BY <1>7, <4>1, <4>2
            <4>4. QED BY <1>4, <4>1, <4>3
        <3>3. QED BY <3>1, <3>2
    <2>3. QED BY <2>1, <2>2 DEF GradesArrived
<1>9. CopiesArrived'
    <2>1. SUFFICES ASSUME NEW k \in Ids, request'[k] \in Batches \cup Items,
                          NEW m \in Copies(request'[k])
                   PROVE  Arrived(m[2].id)'
        BY DEF CopiesArrived
    <2>2. CASE k # i
        BY <1>1, <1>4, <2>1, <2>2 DEF RequestFollows, PushInv, CopiesArrived
    <2>3. CASE k = i
        <3>1. CASE rn.marks = {} /\ rn \in Batches
            BY <2>1, <2>3, <3>1, CopiesOf
        <3>2. CASE r \in Batches \cup Items /\ m \in Copies(r)
            BY <1>4, <1>7, <3>2
        <3>3. CASE m[1] \in Subs /\ m[2] \in grades[m[1]]
            BY <1>4, <3>3 DEF PushInv, GradesArrived
        <3>4. QED BY <1>1, <2>1, <2>3, <3>1, <3>2, <3>3 DEF RequestFollows
    <2>4. QED BY <2>2, <2>3
<1>10. ReturnedAreMarked'
    <2>1. SUFFICES ASSUME NEW s \in Subs, NEW p \in classroom'[s].returned
                   PROVE  /\ request'[p[2]] # Awaited
                          /\ request'[p[2]].step \notin {"awaited", "over"} =>
                                 /\ request'[p[2]] \in Batches \cup Items
                                 /\ request'[p[2]].kind \in Releases
                                 /\ \E m \in request'[p[2]].marks :
                                        m[1] = s /\ m[2].id = p[1]
        BY DEF ReturnedAreMarked, Runs
    <2>2. p[2] \in Ids BY <1>2, <2>1
    <2>3. CASE p \in classroom[s].returned
        <3>1. /\ request[p[2]] # Awaited
              /\ Runs(p[2]) =>
                     /\ request[p[2]] \in Batches \cup Items /\ request[p[2]].kind \in Releases
                     /\ \E m \in request[p[2]].marks : m[1] = s /\ m[2].id = p[1]
            BY <2>3 DEF PushInv, ReturnedAreMarked
        <3>2. CASE p[2] # i
            BY <1>1, <2>2, <3>1, <3>2 DEF RequestFollows, Runs
        <3>3. CASE p[2] = i /\ rn.step \notin {"awaited", "over"}
            <4>1. rn # Over /\ rn # Awaited BY <3>3 DEF Over, Awaited
            <4>2. r # Over BY <1>1 DEF RequestFollows
            <4>3. Runs(i) BY <1>2, <3>1, <3>3, <4>2, RequestOf DEF Runs
            <4>4. r \in Batches \cup Items /\ rn \in Batches \cup Items
                BY <1>1, <3>1, <3>3, <4>1, <4>3 DEF RequestFollows
            <4>5. rn.kind = r.kind /\ r.marks \subseteq rn.marks
                BY <1>1, <3>1, <3>3, <4>4 DEF RequestFollows
            <4>6. QED BY <3>1, <3>3, <4>1, <4>3, <4>4, <4>5
        <3>4. QED BY <1>3, <2>2, <3>1, <3>2, <3>3
    <2>4. CASE p \notin classroom[s].returned
        <3>1. /\ r \in Items /\ r.kind \in Releases /\ s = r.sub
              /\ p = <<r.grade.id, i>> /\ rn = Marked(i)
            BY <1>1, <2>1, <2>4 DEF ReturnedFollow
        <3>2. rn \in Batches /\ rn.kind = r.kind /\ <<r.sub, r.grade>> \in rn.marks
            BY <3>1, ItemsTyped
        <3>3. QED BY <3>1, <3>2, CopiesOf
    <2>5. QED BY <2>3, <2>4
<1>11. MarkedWereReturned'
    <2>1. SUFFICES ASSUME NEW k \in Ids, request'[k] \in Batches \cup Items,
                          request'[k].kind \in Releases, NEW m \in request'[k].marks
                   PROVE  <<m[2].id, k>> \in classroom'[m[1]].returned
        BY DEF MarkedWereReturned
    <2>2. m[1] \in Subs BY <2>1, CopiesOf
    <2>3. CASE /\ request[k] \in Batches \cup Items /\ request[k].kind \in Releases
               /\ m \in request[k].marks
        BY <1>1, <2>2, <2>3 DEF ReturnedFollow, PushInv, MarkedWereReturned
    <2>4. QED BY <1>1, <2>1, <2>3 DEF RequestFollows
<1>12. \A s \in Subs, g \in Grades :
           /\ Arrived(g.id) =>
                  \A h \in grades'[s] : h.id = g.id =>
                      \E f \in grades[s] : f.id = h.id /\ (Recorded(s, f) => RecordedAfter(s, h))
           /\ (\A f \in grades[s] : f.id = g.id => Recorded(s, f)) /\ Arrived(g.id) =>
                  \A h \in grades'[s] : h.id = g.id => RecordedAfter(s, h)
    BY <1>1 DEF GradesFollow, Arrived
<1>13. CopiesAreRecorded'
    <2>1. SUFFICES ASSUME NEW k \in Ids, request'[k] \in Batches \cup Items,
                          NEW m \in Copies(request'[k]), m[2].status = "released",
                          NEW g \in grades'[m[1]], g.id = m[2].id
                   PROVE  RecordedAfter(m[1], g)
        BY DEF CopiesAreRecorded, Recorded, RecordedAfter
    <2>2. m[1] \in Subs /\ m[2] \in Grades BY <2>1, CopiesOf
    <2>3. CASE request[k] \in Batches \cup Items /\ m \in Copies(request[k])
        <3>1. Arrived(m[2].id) BY <2>3 DEF PushInv, CopiesArrived
        <3>2. \A f \in grades[m[1]] : f.id = m[2].id => Recorded(m[1], f)
            BY <2>1, <2>3 DEF PushInv, CopiesAreRecorded
        <3>3. QED BY <1>12, <2>1, <2>2, <3>1, <3>2
    <2>4. CASE m[2] \in grades[m[1]] /\ UNCHANGED grades
        <3>1. g = m[2] BY <2>1, <2>2, <2>4 DEF PushInv, GradesDistinct
        <3>2. QED BY <2>1, <3>1 DEF RecordedAfter
    <2>5. CASE k = i /\ rn \in Batches /\ rn.marks = {}
        BY <2>1, <2>5, CopiesOf
    <2>6. QED BY <1>1, <2>1, <2>3, <2>4, <2>5 DEF RequestFollows
<1>14. ReleasedWasReturned'
    <2>1. SUFFICES ASSUME NEW s \in Subs, NEW g \in grades'[s], g.status = "released"
                   PROVE  \E p \in classroom'[s].returned : p[1] = g.id
        BY DEF ReleasedWasReturned
    <2>2. \E p \in classroom[s].returned : p[1] = g.id
        BY <1>1, <2>1 DEF GradesFollow, PushInv, ReleasedWasReturned
    <2>3. QED BY <1>1, <2>2 DEF ReturnedFollow
<1>15. ReturnedIsRecorded'
    <2>1. SUFFICES ASSUME NEW s \in Subs, NEW g \in grades'[s], NEW k \in Ids,
                          <<g.id, k>> \in classroom'[s].returned, outcome'[k] = "recorded"
                   PROVE  RecordedAfter(s, g)
        BY DEF ReturnedIsRecorded, RecordedAfter
    <2>2. CASE k = i BY <1>1, <2>1, <2>2 DEF CommitFollows
    <2>3. CASE k # i
        <3>1. outcome[k] = "recorded" BY <1>1, <2>1, <2>3 DEF RequestFollows
        <3>2. <<g.id, k>> \in classroom[s].returned
            BY <1>1, <2>1, <2>3 DEF ReturnedFollow
        <3>3. Arrived(g.id) BY <3>2 DEF PushInv, GradesArrived
        <3>4. PICK f \in grades[s] :
                  f.id = g.id /\ (Recorded(s, f) => RecordedAfter(s, g))
            BY <1>2, <1>12, <2>1, <3>3
        <3>5. Recorded(s, f)
            BY <3>1, <3>2, <3>4 DEF PushInv, ReturnedIsRecorded, Recorded
        <3>6. QED BY <3>4, <3>5
    <2>4. QED BY <2>2, <2>3
<1>16. QED
    BY <1>6, <1>8, <1>9, <1>10, <1>11, <1>13, <1>14, <1>15 DEF PushInv

\* A step that leaves the grades and what the students see alone, and commits no push.
LEMMA QuietFrame ==
    ASSUME Typed, PushInv, NEW i \in Ids, RequestFollows(i), UNCHANGED <<grades, drafted>>,
           \A s \in Subs : classroom'[s].returned = classroom[s].returned,
           outcome'[i] = "recorded" => request[i] \notin Batches \cup Items \cup {Over}
    PROVE  PushFrame(i)
<1>1. GradesFollow(i)
    BY DEF GradesFollow, PushInv, GradesDistinct, Recorded, RecordedAfter
<1>2. ReturnedFollow(i) BY DEF ReturnedFollow
<1>3. CommitFollows(i)
    <2>1. SUFFICES ASSUME NEW s \in Subs, NEW g \in grades[s], outcome'[i] = "recorded",
                          <<g.id, i>> \in classroom[s].returned
                   PROVE  RecordedAfter(s, g)
        BY DEF CommitFollows
    <2>2. request[i] # Awaited /\ (Runs(i) => request[i] \in Batches \cup Items)
        BY <2>1 DEF PushInv, ReturnedAreMarked
    <2>3. QED BY <2>1, <2>2, RequestOf DEF Typed, Runs
<1>4. QED BY <1>1, <1>2, <1>3 DEF PushFrame

\* What is not of a push neither marks nor returns.
NoPush == Deletions \cup Ingests \cup Sendings

\* No request is of two kinds.
LEMMA NoPushRecords ==
    /\ \A r \in NoPush : r \notin Batches \cup Items \cup {Awaited, Over}
    /\ \A r \in Batches \cup Items : r \notin {Awaited, Over}
    /\ \A r \in Batches : r \notin Items
    /\ Over # Awaited /\ {Awaited, Over} \cap (Batches \cup Items) = {}
BY DEF NoPush, Batches, Items, Deletions, Ingests, Sendings, Pushes, Releases, Over, Awaited

\* A request that is not of a push leaves pushes as they are.
LEMMA OthersFollow ==
    ASSUME NEW i \in Ids, OnlyMoves(i), request[i] \in NoPush \cup {Awaited},
           request'[i] \in NoPush \cup {Over}
    PROVE  RequestFollows(i)
BY NoPushRecords DEF RequestFollows, OnlyMoves

\* Deletions, until they are committed, ingests, and new jobs.
LEMMA OtherFrame ==
    ASSUME Typed, PushInv, NEW i \in Ids,
           \/ \E batch \in SUBSET Subs \ {{}} : OpenDelete(i, batch)
           \/ \E force \in BOOLEAN : OpenIngest(i, force)
           \/ Unlink(i) \/ IngestRuns(i)
           \/ \E s \in Subs : Correct(i, s) \/ NewJob(i, s)
    PROVE  PushFrame(i)
<1>1. UNCHANGED <<grades, drafted, classroom>>
    BY DEF OpenDelete, OpenIngest, Unlink, IngestRuns, IngestOne, CommitIngest, SendOcr,
           Correct, NewJob, tables, history
<1>2. /\ OnlyMoves(i) /\ request[i] \in NoPush \cup {Awaited}
      /\ request'[i] \in NoPush \cup {Over}
    <2>1. CASE \E batch \in SUBSET Subs \ {{}} : OpenDelete(i, batch)
        BY <2>1, OpenDeleteMoves DEF NoPush
    <2>2. CASE \E force \in BOOLEAN : OpenIngest(i, force)
        BY <2>2, OpenIngestMoves DEF NoPush
    <2>3. CASE Unlink(i) BY <2>3, UnlinkMoves DEF NoPush
    <2>4. CASE IngestRuns(i)
        BY <2>4, IngestOneMoves, CommitIngestMoves, SendOcrMoves DEF NoPush, IngestRuns
    <2>5. CASE \E s \in Subs : Correct(i, s) \/ NewJob(i, s) BY <2>5, MovesOnly DEF Correct, NewJob, Arrives
    <2>6. QED BY <2>1, <2>2, <2>3, <2>4, <2>5
<1>3. RequestFollows(i) BY <1>2, OthersFollow
<1>4. QED BY <1>1, <1>2, <1>3, NoPushRecords, QuietFrame

\* The process of a request ends.
LEMMA EndFrame ==
    ASSUME Typed, PushInv, NEW i \in Ids, ProcessEnds(i)
    PROVE  PushFrame(i)
<1>1. /\ OnlyMoves(i) /\ request'[i] = Over /\ outcome'[i] = "cut"
      /\ request[i] \notin {Awaited, Over}
    BY MovesOnly DEF ProcessEnds, Runs, Awaited, Over
<1>2. RequestFollows(i) BY <1>1, NoPushRecords DEF RequestFollows, OnlyMoves
<1>3. QED BY <1>1, <1>2, QuietFrame DEF ProcessEnds, tables

\* A push, until it is committed.
LEMMA PushFrames ==
    ASSUME Typed, PushInv, NEW i \in Ids,
           \/ \E kind \in Pushes, batch \in SUBSET Subs \ {{}} : OpenPush(i, kind, batch)
           \/ ReadGrade(i) \/ Push(i) \/ Return(i) \/ PushFails(i) \/ EndBulk(i)
    PROVE  PushFrame(i)
<1> DEFINE r == request[i]
<1> DEFINE rn == request'[i]
<1>1. UNCHANGED <<grades, drafted>>
    BY DEF OpenPush, ReadGrade, Push, Return, PushFails, EndBulk, tables, history
<1>2. ASSUME NEW kind \in Pushes, NEW batch \in SUBSET Subs \ {{}}, OpenPush(i, kind, batch)
      PROVE  PushFrame(i)
    <2>1. [step |-> "open", kind |-> kind, batch |-> batch, left |-> batch, marks |-> {}]
              \in Batches
        BY DEF Batches
    <2>2. /\ OnlyMoves(i) /\ r = Awaited /\ rn \in Batches /\ rn.marks = {}
          /\ UNCHANGED <<classroom, outcome>>
        BY <1>2, <2>1, MovesOnly DEF OpenPush, Arrives
    <2>3. RequestFollows(i) BY <2>2, NoPushRecords DEF RequestFollows, OnlyMoves
    <2>4. QED BY <1>1, <2>2, <2>3, NoPushRecords, QuietFrame
<1>3. CASE ReadGrade(i)
    <2>1. /\ OnlyMoves(i) /\ outcome' = outcome /\ r \in Batches
          /\ rn.kind = r.kind /\ rn.marks = r.marks
          /\ \E s \in r.left : \/ rn \in Batches
                               \/ rn \in Items /\ rn.sub = s /\ rn.grade \in Active(s)
        BY <1>3, ReadMoves
    <2>2. rn \in Batches \cup Items BY <2>1
    <2>3. r.left \subseteq Subs BY <2>1 DEF Batches
    <2>4. \A m \in Copies(rn) : \/ m \in Copies(r)
                                \/ m[1] \in Subs /\ m[2] \in grades[m[1]]
        BY <2>1, <2>3, CopiesOf DEF Active
    <2>5. RequestFollows(i)
        BY <1>1, <2>1, <2>2, <2>4, NoPushRecords DEF RequestFollows, OnlyMoves
    <2>6. classroom' = classroom /\ outcome[i] = "none"
        BY <1>3, <2>1, NoPushRecords DEF ReadGrade, Typed
    <2>7. QED BY <1>1, <2>1, <2>5, <2>6, QuietFrame
<1>4. CASE Push(i) \/ Return(i) \/ PushFails(i)
    <2>1. /\ OnlyMoves(i) /\ outcome' = outcome /\ r \in Items
          /\ outcome[i] = "none"
        BY <1>4, PushMoves, NoPushRecords DEF Typed
    <2>2. /\ Marked(i) \in Batches /\ Unmarked(i) \in Batches
          /\ Marked(i).kind = r.kind /\ Unmarked(i).kind = r.kind
          /\ Marked(i).marks = Copies(r) /\ Unmarked(i).marks = r.marks
        BY <2>1, ItemsTyped, CopiesOf
    <2>3. /\ [r EXCEPT !.step = "return"] \in Items
          /\ [r EXCEPT !.step = "return"].kind = r.kind
          /\ Copies([r EXCEPT !.step = "return"]) = Copies(r)
          /\ [r EXCEPT !.step = "return"].marks = r.marks
        <3>1. LET a == [r EXCEPT !.step = "return"] IN
              a \in Items /\ a.kind = r.kind /\ a.marks = r.marks /\ a.sub = r.sub
              /\ a.grade = r.grade
            BY <2>1, ItemsTyped DEF Items
        <3>2. QED BY <2>1, <3>1, CopiesOf
    <2>4. CASE Return(i)
        <3>1. r.kind \in Releases /\ rn = Marked(i) BY <2>4, PushMoves
        <3>2. r.sub \in Subs /\ Copies(r) = r.marks \cup {<<r.sub, r.grade>>}
            BY <2>1, CopiesOf DEF Items
        <3>3. \A s \in Subs : classroom'[s].returned =
                  IF s = r.sub THEN classroom[s].returned \cup {<<r.grade.id, i>>}
                               ELSE classroom[s].returned
            BY <2>4 DEF Return, Typed, Classrooms
        <3>4. ReturnedFollow(i) BY <2>1, <3>1, <3>3 DEF ReturnedFollow
        <3>5. RequestFollows(i)
            <4>1. /\ rn \in Batches /\ rn.kind = r.kind /\ rn.marks = Copies(r)
                  /\ Copies(rn) = Copies(r) /\ r.marks \subseteq Copies(r)
                BY <2>1, <2>2, <3>1, CopiesOf
            <4>2. \A m \in rn.marks \ r.marks : <<m[2].id, i>> \in classroom'[m[1]].returned
                <5>1. SUFFICES ASSUME NEW m \in rn.marks \ r.marks
                               PROVE  <<m[2].id, i>> \in classroom'[m[1]].returned
                    OBVIOUS
                <5>2. m = <<r.sub, r.grade>> BY <3>2, <4>1, <5>1
                <5>3. m[1] = r.sub /\ m[2] = r.grade BY <5>2
                <5>4. QED BY <3>2, <3>3, <5>3
            <4>3. QED BY <2>1, <4>1, <4>2, NoPushRecords DEF RequestFollows, OnlyMoves
        <3>6. GradesFollow(i)
            BY <1>1 DEF GradesFollow, PushInv, GradesDistinct, Recorded, RecordedAfter
        <3>7. QED BY <1>1, <2>1, <3>4, <3>5, <3>6 DEF PushFrame, CommitFollows
    <2>5. CASE Push(i) \/ PushFails(i)
        <3>1. \A s \in Subs : classroom'[s].returned = classroom[s].returned
            BY <2>5 DEF Push, PushFails, Typed, Classrooms
        <3>2. \/ rn = [r EXCEPT !.step = "return"]
              \/ rn = Marked(i) /\ r.kind \notin Releases
              \/ rn = Unmarked(i)
            BY <2>5, PushMoves
        <3>3. RequestFollows(i)
            <4>1. r.marks \subseteq Copies(r) BY <2>1, CopiesOf
            <4>2. /\ rn \in Batches \cup Items /\ rn.kind = r.kind
                  /\ Copies(rn) \subseteq Copies(r) /\ r.marks \subseteq rn.marks
                  /\ r.kind \in Releases => rn.marks = r.marks
                BY <2>2, <2>3, <3>2, <4>1, CopiesOf
            <4>3. QED BY <2>1, <4>2, NoPushRecords DEF RequestFollows, OnlyMoves
        <3>4. QED BY <1>1, <2>1, <3>1, <3>3, QuietFrame
    <2>6. QED BY <1>4, <2>4, <2>5
<1>5. CASE EndBulk(i)
    <2>1. /\ OnlyMoves(i) /\ r \in Batches /\ rn = Over /\ outcome'[i] = "unrecorded"
          /\ classroom' = classroom
        BY <1>5, PushMoves DEF EndBulk
    <2>2. RequestFollows(i) BY <2>1, NoPushRecords DEF RequestFollows, OnlyMoves
    <2>3. QED BY <1>1, <2>1, <2>2, QuietFrame
<1>6. QED BY <1>2, <1>3, <1>4, <1>5

\* A grade that is made is new; the ones before it are no longer active.
LEMMA NewGradeFrame ==
    ASSUME Typed, PushInv, NEW i \in Ids, NEW s \in Subs, NewGrade(i, s)
    PROVE  PushFrame(i)
<1> DEFINE new == [id |-> i, active |-> TRUE, status |-> "not_synced"]
<1>1. /\ OnlyMoves(i) /\ request[i] = Awaited /\ request'[i] = Over
      /\ classroom' = classroom /\ drafted' = drafted
    BY MovesOnly DEF NewGrade, Arrives
<1>2. RequestFollows(i) BY <1>1, OthersFollow
<1>3. \A u \in Subs : grades'[u] =
          IF u = s THEN {[g EXCEPT !.active = FALSE] : g \in grades[u]} \cup {new}
                   ELSE grades[u]
    BY DEF NewGrade, Typed
<1>4. \A u \in Subs : grades[u] \subseteq Grades BY DEF Typed
<1>5. \A u \in Subs : \A g \in grades[u] : g.id # i
    BY <1>1, <1>4 DEF PushInv, GradesArrived, Arrived
<1>6. \A u \in Subs : \A g \in grades'[u] :
          \/ g = new
          \/ \E h \in grades[u] : g.id = h.id /\ g.status = h.status
    <2>1. \A h \in Grades : /\ [h EXCEPT !.active = FALSE].id = h.id
                            /\ [h EXCEPT !.active = FALSE].status = h.status
        BY DEF Grades
    <2>2. ASSUME NEW u \in Subs, NEW g \in grades'[u], g # new
          PROVE  \E h \in grades[u] : g.id = h.id /\ g.status = h.status
        <3>1. g \in grades[u] \/ \E h \in grades[u] : g = [h EXCEPT !.active = FALSE]
            BY <1>3, <2>2
        <3>2. QED BY <1>4, <2>1, <3>1
    <2>3. QED BY <2>2
<1>7. GradesFollow(i)
    <2>1. ASSUME NEW u \in Subs, NEW g \in grades'[u], NEW h \in grades'[u], g.id = h.id
          PROVE  g = h
        <3>1. ASSUME NEW f \in grades'[u], f.id = i PROVE f = new
            BY <1>5, <1>6, <3>1
        <3>2. CASE g = new \/ h = new
            <4>1. new.id = i OBVIOUS
            <4>2. g.id = i /\ h.id = i BY <2>1, <3>2, <4>1
            <4>3. QED BY <2>1, <3>1, <4>2
        <3>3. CASE g # new /\ h # new
            <4>1. CASE u = s
                <5>1. PICK f \in grades[u] : g = [f EXCEPT !.active = FALSE]
                    BY <1>3, <2>1, <3>3, <4>1
                <5>2. PICK e \in grades[u] : h = [e EXCEPT !.active = FALSE]
                    BY <1>3, <2>1, <3>3, <4>1
                <5>3. f.id = e.id BY <1>4, <2>1, <5>1, <5>2 DEF Grades
                <5>4. QED BY <5>1, <5>2, <5>3 DEF PushInv, GradesDistinct
            <4>2. CASE u # s BY <1>3, <2>1, <4>2 DEF PushInv, GradesDistinct
            <4>3. QED BY <4>1, <4>2
        <3>4. QED BY <3>2, <3>3
    <2>2. ASSUME NEW u \in Subs, NEW g \in grades'[u]
          PROVE  \/ g.id = i /\ request[i] = Awaited /\ g.status # "released"
                 \/ \E h \in grades[u] :
                        /\ h.id = g.id
                        /\ Recorded(u, h) => RecordedAfter(u, g)
                        /\ g.status = "released" =>
                               \/ h.status = "released"
                               \/ \E r \in classroom[u].returned : r[1] = h.id
        <3>1. CASE g = new BY <1>1, <3>1
        <3>2. CASE g # new
            <4>1. PICK h \in grades[u] : g.id = h.id /\ g.status = h.status
                BY <1>6, <2>2, <3>2
            <4>2. QED BY <1>1, <4>1 DEF Recorded, RecordedAfter
        <3>3. QED BY <3>1, <3>2
    <2>3. QED BY <2>1, <2>2 DEF GradesFollow
<1>8. ReturnedFollow(i) BY <1>1 DEF ReturnedFollow
<1>9. CommitFollows(i)
    BY <1>1 DEF CommitFollows, PushInv, ReturnedAreMarked
<1>10. QED BY <1>1, <1>2, <1>7, <1>8, <1>9 DEF PushFrame

\* A deletion that is committed takes the grades away.
LEMMA CommitDeleteFrame ==
    ASSUME Typed, PushInv, NEW i \in Ids, CommitDelete(i)
    PROVE  PushFrame(i)
<1>1. /\ OnlyMoves(i) /\ request[i] \in Deletions /\ request'[i] = Over
      /\ classroom' = classroom /\ drafted' = drafted
    BY CommitDeleteMoves DEF CommitDelete
<1>2. RequestFollows(i) BY <1>1, OthersFollow DEF NoPush
<1>3. \A s \in Subs : grades'[s] \subseteq grades[s]
    <2> DEFINE out == {t[1] : t \in Present(i)}
    <2> HIDE DEF out
    <2>1. \/ grades' = grades
          \/ grades' = [s \in Subs |-> IF s \in out THEN {} ELSE grades[s]]
        BY CommitDeleteMoves DEF tables, out
    <2>2. QED BY <2>1
<1>4. GradesFollow(i)
    BY <1>1, <1>3 DEF GradesFollow, PushInv, GradesDistinct, Recorded, RecordedAfter
<1>5. ReturnedFollow(i) BY <1>1 DEF ReturnedFollow
<1>6. request[i].step \notin {"awaited", "over"}
    BY <1>1 DEF Deletions
<1>7. CommitFollows(i)
    BY <1>1, <1>6, NoPushRecords DEF CommitFollows, PushInv, ReturnedAreMarked, Runs, NoPush
<1>8. QED BY <1>1, <1>2, <1>4, <1>5, <1>7 DEF PushFrame

\* The row of a grade keeps its name at a commit of marks, and has its old status or the mark.
LEMMA MarkedRows ==
    ASSUME NEW i \in Ids, NEW s \in Subs, NEW g \in Grades
    PROVE  /\ MarkedRow(i, s, g).id = g.id /\ MarkedRow(i, s, g).active = g.active
           /\ MarkedRow(i, s, g).status = g.status
                \/ /\ MarkedRow(i, s, g).status = MarkOf(request[i].kind)
                   /\ \E m \in request[i].marks : m[1] = s /\ m[2].id = g.id
           /\ \A m \in request[i].marks :
                  m[1] = s /\ m[2].id = g.id /\ m[2].status # MarkOf(request[i].kind) =>
                      MarkedRow(i, s, g).status = MarkOf(request[i].kind)
BY DEF MarkedRow, Grades

\* The commit of a push marks the rows it has read.
LEMMA CommitMarksFrame ==
    ASSUME Typed, PushInv, NEW i \in Ids, CommitMarks(i)
    PROVE  PushFrame(i)
<1> DEFINE r == request[i]
<1>1. r \in Batches /\ r.kind \in {"release", "draft"} /\ classroom' = classroom
    BY RequestOf DEF CommitMarks, Of, Typed, Pushes, Releases
<1>2. /\ OnlyMoves(i) /\ request'[i] = Over
      /\ \/ outcome'[i] = "refused" /\ UNCHANGED <<grades, drafted>>
         \/ /\ grades' = [s \in Subs |-> {MarkedRow(i, s, g) : g \in grades[s]}]
            /\ drafted' = IF r.kind = "release" THEN drafted
                          ELSE drafted \cup {<<m[1], m[2].id>> : m \in r.marks}
    BY MovesOnly DEF CommitMarks
<1>3. RequestFollows(i) BY <1>1, <1>2, NoPushRecords DEF RequestFollows, OnlyMoves
<1>4. CASE outcome'[i] = "refused" /\ UNCHANGED <<grades, drafted>>
    BY <1>1, <1>3, <1>4, QuietFrame
<1>5. CASE /\ grades' = [s \in Subs |-> {MarkedRow(i, s, g) : g \in grades[s]}]
           /\ drafted' = IF r.kind = "release" THEN drafted
                         ELSE drafted \cup {<<m[1], m[2].id>> : m \in r.marks}
    <2>1. drafted \subseteq drafted' BY <1>5
    <2>2. \A s \in Subs : grades[s] \subseteq Grades BY DEF Typed
    <2>3. \A s \in Subs : \A g \in grades'[s] : \E h \in grades[s] : g = MarkedRow(i, s, h)
        BY <1>5
    <2>4. ASSUME NEW s \in Subs, NEW h \in grades[s]
          PROVE  LET g == MarkedRow(i, s, h) IN
                 /\ h.id = g.id
                 /\ Recorded(s, h) => RecordedAfter(s, g)
                 /\ g.status = "released" =>
                        \/ h.status = "released"
                        \/ \E p \in classroom[s].returned : p[1] = h.id
        <3> DEFINE g == MarkedRow(i, s, h)
        <3> HIDE DEF g
        <3>1. /\ g.id = h.id
              /\ \/ g.status = h.status
                 \/ /\ g.status = MarkOf(r.kind)
                    /\ \E m \in r.marks : m[1] = s /\ m[2].id = h.id
            BY <2>2, <2>4, MarkedRows DEF g
        <3>2. CASE g.status = h.status
            BY <2>1, <3>1, <3>2 DEF Recorded, RecordedAfter, g
        <3>3. ASSUME NEW m \in r.marks, m[1] = s, m[2].id = h.id, g.status = MarkOf(r.kind)
              PROVE  /\ h.id = g.id
                     /\ Recorded(s, h) => RecordedAfter(s, g)
                     /\ g.status = "released" =>
                            \/ h.status = "released"
                            \/ \E p \in classroom[s].returned : p[1] = h.id
            <4>1. CASE r.kind = "release"
                <5>1. g.status = "released" BY <3>3, <4>1 DEF MarkOf
                <5>2. <<m[2].id, i>> \in classroom[s].returned
                    BY <1>1, <3>3, <4>1 DEF PushInv, MarkedWereReturned, Releases
                <5>3. QED BY <3>1, <3>3, <5>1, <5>2 DEF RecordedAfter
            <4>2. CASE r.kind = "draft"
                <5>1. <<s, g.id>> \in drafted' BY <1>5, <3>1, <3>3, <4>2
                <5>2. g.status # "released" BY <3>3, <4>2 DEF MarkOf
                <5>3. QED BY <3>1, <5>1, <5>2 DEF RecordedAfter
            <4>3. QED BY <1>1, <4>1, <4>2
        <3>4. QED BY <3>1, <3>2, <3>3 DEF g
    <2>5. ASSUME NEW s \in Subs, NEW g \in grades'[s], NEW h \in grades'[s], g.id = h.id
          PROVE  g = h
        <3>1. PICK e \in grades[s], f \in grades[s] :
                  g = MarkedRow(i, s, e) /\ h = MarkedRow(i, s, f)
            BY <2>3, <2>5
        <3>2. e.id = f.id BY <2>2, <2>5, <3>1, MarkedRows
        <3>3. QED BY <3>1, <3>2 DEF PushInv, GradesDistinct
    <2>6. GradesFollow(i)
        <3>1. ASSUME NEW s \in Subs, NEW g \in grades'[s]
              PROVE  \E h \in grades[s] :
                         /\ h.id = g.id
                         /\ Recorded(s, h) => RecordedAfter(s, g)
                         /\ g.status = "released" =>
                                \/ h.status = "released"
                                \/ \E p \in classroom[s].returned : p[1] = h.id
            BY <2>3, <2>4, <3>1
        <3>2. QED BY <2>5, <3>1 DEF GradesFollow
    <2>7. ReturnedFollow(i) BY <1>1 DEF ReturnedFollow
    <2>8. CommitFollows(i)
        <3>1. SUFFICES ASSUME NEW s \in Subs, NEW g \in grades'[s],
                              <<g.id, i>> \in classroom[s].returned
                       PROVE  RecordedAfter(s, g)
            BY <1>1 DEF CommitFollows
        <3>2. PICK h \in grades[s] : g = MarkedRow(i, s, h) BY <2>3, <3>1
        <3>3. g.id = h.id /\ h \in Grades BY <2>2, <3>2, MarkedRows
        <3>4. Runs(i) BY <1>1 DEF Runs, Batches
        <3>5. PICK m \in r.marks : m[1] = s /\ m[2].id = g.id
            BY <3>1, <3>4 DEF PushInv, ReturnedAreMarked
        <3>6. r.kind = "release" /\ MarkOf(r.kind) = "released"
            BY <1>1, <3>1, <3>4 DEF PushInv, ReturnedAreMarked, Releases, MarkOf
        <3>7. CASE m[2].status = "released"
            <4>1. m \in Copies(r) BY <1>1, CopiesOf
            <4>2. Recorded(s, h)
                BY <1>1, <3>3, <3>5, <3>7, <4>1 DEF PushInv, CopiesAreRecorded
            <4>3. QED BY <2>4, <3>2, <4>2
        <3>8. CASE m[2].status # "released"
            <4>1. g.status = "released" BY <3>2, <3>3, <3>5, <3>6, <3>8, MarkedRows
            <4>2. QED BY <4>1 DEF RecordedAfter
        <3>9. QED BY <3>7, <3>8
    <2>9. QED BY <1>3, <2>1, <2>6, <2>7, <2>8 DEF PushFrame
<1>6. QED BY <1>2, <1>4, <1>5

\* Nothing is released, nor returned, at first.
LEMMA InitPushes == Init => PushInv
<1>1. SUFFICES ASSUME NEW c \in Courses, Init, RequestsInit(c.expected),
                      grades = c.grades
               PROVE  PushInv
    BY DEF Init
<1>2. \A s \in Subs : /\ classroom[s].returned = {}
                      /\ \A g \in grades[s] : g.id = 0 /\ g.status # "released"
                      /\ \A g, h \in grades[s] : g = h
    BY <1>1, CoursesAssumption DEF Init
<1>3. \A k \in Ids : request[k] = Awaited /\ request[k] \notin Batches \cup Items
    BY <1>1, NoPushRecords DEF RequestsInit
<1>4. 0 \notin Ids BY DEF Ids
<1>5. QED
    BY <1>2, <1>3, <1>4
    DEF PushInv, GradesDistinct, GradesArrived, Arrived, CopiesArrived, ReturnedAreMarked,
        MarkedWereReturned, CopiesAreRecorded, ReleasedWasReturned, ReturnedIsRecorded

\* What is known of pushes holds from step to step.
LEMMA NextKeepsPushes == Typed /\ PushInv /\ [Next]_vars => PushInv'
<1>1. SUFFICES ASSUME Typed, PushInv, [Next]_vars PROVE PushInv'
    OBVIOUS
<1>2. Typed' BY <1>1, NextTyped
<1>3. CASE UNCHANGED vars
    <2>1. UNCHANGED <<request, grades, classroom, outcome, drafted>>
        BY <1>3 DEF vars, requests, tables, history
    <2>2. QED
        BY <1>1, <2>1
        DEF PushInv, GradesDistinct, GradesArrived, Arrived,
            CopiesArrived, ReturnedAreMarked, Runs, MarkedWereReturned, CopiesAreRecorded,
            Recorded, ReleasedWasReturned, ReturnedIsRecorded, Copies
<1>4. CASE Next
    <2>1. \E i \in Ids : PushFrame(i)
        BY <1>1, <1>4, OtherFrame, EndFrame, PushFrames, NewGradeFrame, CommitDeleteFrame,
           CommitMarksFrame
        DEF Next, PushRuns
    <2>2. QED BY <1>1, <1>2, <2>1, PushFrameKeeps
<1>5. QED BY <1>1, <1>3, <1>4

\* PushInv is an invariant of the specification.
LEMMA PushInvariant == Spec => []PushInv
<1>1. Init => Typed /\ PushInv BY InitTyped, InitPushes
<1>2. Typed /\ PushInv /\ [Next]_vars => (Typed /\ PushInv)'
    BY NextTyped, NextKeepsPushes
<1>3. QED BY <1>1, <1>2, PTL DEF Spec

\* No call of Classroom that fails, no request that ends half-way and no batch that is
\* refused leaves a row released that the student cannot see (classroom_sync.py).
THEOREM ReleasedGradesWereReturned == Spec => []ReleasedWasReturned
<1>1. PushInv => ReleasedWasReturned BY DEF PushInv
<1>2. QED BY <1>1, PushInvariant, PTL

\* What a committed batch of /grades/release has returned is recorded, whatever else ran
\* between its calls and its commit, unless a draft push marked the row as well.
THEOREM ReturnedGradesAreRecorded == Spec => []ReturnedIsRecorded
<1>1. PushInv => ReturnedIsRecorded BY DEF PushInv
<1>2. QED BY <1>1, PushInvariant, PTL

----------------------------------------------------------------------------
(* What is active and released is shown *)

\* A push that is opened contends with the releases of its students under way.
Opened(i) ==
    /\ request[i] = Awaited /\ request'[i] \in Batches
    /\ request'[i].marks = {} /\ request'[i].left = request'[i].batch
    /\ request'[i].kind \in Releases =>
           \A j \in Of(Releases) : \A s \in request'[i].batch \cap request[j].batch :
               s \in contended'

\* Back to the loop: what is marked by a release was returned.
GoesOn(i) ==
    /\ request[i] \in Batches \cup Items /\ request'[i] \in Batches
    /\ request'[i].left \subseteq request[i].left
    /\ request'[i].marks \subseteq Copies(request[i])
    /\ \/ request'[i].marks \subseteq request[i].marks
       \/ request[i].step = "return" \/ request[i].kind \notin Releases

\* A grade is read.
Reads(i) ==
    /\ request[i] \in Batches /\ request'[i] \in Items /\ request'[i].step = "push"
    /\ request'[i].marks = request[i].marks
    /\ request'[i].sub \in request[i].left
    /\ request'[i].left = request[i].left \ {request'[i].sub}
    /\ request'[i].grade \in Active(request'[i].sub) /\ UNCHANGED grades

\* A grade is shown.
Shows(i) ==
    /\ request[i] \in Items /\ request'[i] \in Items /\ request[i].kind \in Releases
    /\ request'[i].marks = request[i].marks /\ request'[i].left = request[i].left
    /\ request'[i].sub = request[i].sub /\ request'[i].grade = request[i].grade
    /\ classroom'[request[i].sub].assigned = request[i].grade.id

SamePush(i) == request'[i].kind = request[i].kind /\ request'[i].batch = request[i].batch

\* A grade that is active was so, and was released, unless this request commits its mark.
ActiveFollows(i) ==
    \A s \in Subs :
        /\ \A g, h \in grades'[s] : g.active /\ h.active => g = h
        /\ \A g \in grades'[s] : g.active /\ g.status = "released" =>
               \E h \in Active(s) :
                   /\ h.id = g.id
                   /\ \/ h.status = "released"
                      \/ /\ request[i] \in Batches /\ request[i].kind \in Releases
                         /\ \E m \in request[i].marks : m[1] = s /\ m[2].id = g.id

ShownFrame(i) ==
    /\ OnlyMoves(i) /\ contended \subseteq contended' /\ ActiveFollows(i)
    /\ request'[i] \in Batches \cup Items =>
           \/ Opened(i)
           \/ SamePush(i) /\ (GoesOn(i) \/ Reads(i) \/ Shows(i))
    /\ \A s \in Subs :
           \/ classroom'[s].assigned = classroom[s].assigned
           \/ s = request[i].sub /\ Shows(i)

\* A release under way is the only one of a student who is not contended.
LEMMA OnlyRelease ==
    ASSUME Typed, ShownInv, NEW i \in Ids, NEW k \in Ids, i # k,
           request[i] \in Batches \cup Items, request[i].kind \in Releases,
           request[k] \in Batches \cup Items, request[k].kind \in Releases,
           NEW s \in Subs, s \in request[i].batch, s \in request[k].batch
    PROVE  s \in contended
<1>1. i \in Of(Releases) /\ k \in Of(Releases)
    BY KindOf DEF Of, Runs, Typed
<1>2. QED BY <1>1 DEF ShownInv, OneRelease

\* Such a step keeps what is known of what is shown.
LEMMA ShownFrameKeeps ==
    ASSUME Typed, Typed', ShownInv, NEW i \in Ids, ShownFrame(i)
    PROVE  ShownInv'
<1> DEFINE r == request[i]
<1> DEFINE rn == request'[i]
<1>1. /\ OnlyMoves(i) /\ contended \subseteq contended' /\ ActiveFollows(i)
      /\ rn \in Batches \cup Items =>
             Opened(i) \/ (SamePush(i) /\ (GoesOn(i) \/ Reads(i) \/ Shows(i)))
      /\ \A s \in Subs : \/ classroom'[s].assigned = classroom[s].assigned
                         \/ s = r.sub /\ Shows(i)
    BY DEF ShownFrame
<1>2. \A k \in Ids : request[k] \in RequestRecords /\ request'[k] \in RequestRecords
    BY DEF Typed
<1>3. \A k \in Ids : k # i => request'[k] = request[k] BY <1>1 DEF OnlyMoves
<1>4. OneActive' BY <1>1 DEF ActiveFollows, OneActive, Active
<1>5. OneRelease'
    <2>1. SUFFICES ASSUME NEW s \in Subs, s \notin contended', NEW k \in Ids, k # i,
                          i \in Of(Releases)', k \in Of(Releases)',
                          s \in rn.batch, s \in request'[k].batch
                   PROVE  FALSE
        <3>1. SUFFICES ASSUME NEW s \in Subs \ contended', NEW j \in Of(Releases)',
                              NEW k \in Of(Releases)',
                              s \in request'[j].batch, s \in request'[k].batch, j # k
                       PROVE  FALSE
            BY DEF OneRelease
        <3>2. j \in Ids /\ k \in Ids BY <3>1 DEF Of
        <3>3. CASE j # i /\ k # i
            <4>1. j \in Of(Releases) /\ k \in Of(Releases)
                BY <1>3, <3>1, <3>2, <3>3 DEF Of, Runs
            <4>2. s \in Subs \ contended /\ s \in request[j].batch /\ s \in request[k].batch
                BY <1>1, <1>3, <3>1, <3>2, <3>3
            <4>3. QED BY <3>1, <4>1, <4>2 DEF ShownInv, OneRelease
        <3>4. QED BY <2>1, <3>1, <3>2, <3>3
    <2>2. rn \in Batches \cup Items /\ rn.kind \in Releases
        BY <1>2, <2>1, RequestOf, KindOf DEF Of, Runs
    <2>3. k \in Of(Releases) /\ request[k] = request'[k]
        BY <1>3, <2>1 DEF Of, Runs
    <2>4. CASE Opened(i) BY <2>1, <2>2, <2>3, <2>4 DEF Opened
    <2>5. CASE SamePush(i) /\ r \in Batches \cup Items
        <3>1. i \in Of(Releases) BY <1>2, <2>2, <2>5, KindOf DEF Of, Runs, SamePush
        <3>2. s \in r.batch BY <2>1, <2>5 DEF SamePush
        <3>3. QED BY <1>1, <2>1, <2>3, <3>1, <3>2 DEF ShownInv, OneRelease
    <2>6. QED BY <1>1, <2>2, <2>4, <2>5 DEF GoesOn, Reads, Shows
<1>6. rn \in Batches \cup Items =>
          /\ rn.left \subseteq rn.batch
          /\ \A m \in rn.marks : m[1] \in rn.batch \ rn.left
          /\ rn \in Items => /\ rn.sub \in rn.batch \ rn.left
                             /\ \A m \in rn.marks : m[1] # rn.sub
    <2>1. SUFFICES ASSUME rn \in Batches \cup Items
                   PROVE  /\ rn.left \subseteq rn.batch
                          /\ \A m \in rn.marks : m[1] \in rn.batch \ rn.left
                          /\ rn \in Items => /\ rn.sub \in rn.batch \ rn.left
                                             /\ \A m \in rn.marks : m[1] # rn.sub
        OBVIOUS
    <2>2. CASE Opened(i) BY <2>2, NoPushRecords DEF Opened
    <2>3. r \in Batches \cup Items =>
              /\ r.left \subseteq r.batch
              /\ \A m \in r.marks : m[1] \in r.batch \ r.left
              /\ r \in Items => /\ r.sub \in r.batch \ r.left
                                /\ \A m \in r.marks : m[1] # r.sub
        BY DEF ShownInv, OncePerStudent
    <2>4. CASE SamePush(i) /\ GoesOn(i)
        <3>1. \A m \in Copies(r) : m[1] \in r.batch \ r.left
            BY <2>3, <2>4, CopiesOf DEF GoesOn
        <3>2. QED BY <2>3, <2>4, <3>1, NoPushRecords DEF SamePush, GoesOn
    <2>5. CASE SamePush(i) /\ Reads(i) BY <2>3, <2>5 DEF SamePush, Reads
    <2>6. CASE SamePush(i) /\ Shows(i) BY <2>3, <2>6 DEF SamePush, Shows
    <2>7. QED BY <1>1, <2>1, <2>2, <2>4, <2>5, <2>6
<1>7. OncePerStudent' BY <1>3, <1>6 DEF ShownInv, OncePerStudent
<1>8. \* what another release has shown stays shown
      ASSUME NEW k \in Ids, k # i, request[k] \in Batches \cup Items,
             request[k].kind \in Releases, NEW s \in Subs, s \in request[k].batch,
             s \notin contended
      PROVE  classroom'[s].assigned = classroom[s].assigned
    <2>1. SUFFICES ASSUME s = r.sub, Shows(i) PROVE FALSE
        BY <1>1, <1>8
    <2>2. r \in Items /\ r.kind \in Releases BY <2>1 DEF Shows
    <2>3. s \in r.batch BY <2>1, <2>2 DEF ShownInv, OncePerStudent
    <2>4. QED BY <1>8, <2>2, <2>3, OnlyRelease
<1>9. PushedIsShown'
    <2>1. ASSUME NEW k \in Ids, k # i, request'[k] \in Batches \cup Items,
                 request'[k].kind \in Releases
          PROVE  /\ \A m \in request'[k].marks :
                        m[1] \notin contended' => classroom'[m[1]].assigned = m[2].id
                 /\ request'[k].step = "return" /\ request'[k].sub \notin contended' =>
                        classroom'[request'[k].sub].assigned = request'[k].grade.id
        <3>1. request'[k] = request[k] BY <1>3, <2>1
        <3>2. \A m \in request[k].marks : m[1] \in Subs /\ m[1] \in request[k].batch
            BY <2>1, <3>1, CopiesOf DEF ShownInv, OncePerStudent
        <3>3. request[k].step = "return" =>
                  request[k].sub \in Subs /\ request[k].sub \in request[k].batch
            <4>1. request[k].step = "return" => request[k] \in Items
                BY <1>2, RequestOf
            <4>2. QED BY <4>1 DEF Items, ShownInv, OncePerStudent
        <3>4. QED
            BY <1>1, <1>8, <2>1, <3>1, <3>2, <3>3 DEF ShownInv, PushedIsShown
    <2>2. ASSUME rn \in Batches \cup Items, rn.kind \in Releases
          PROVE  /\ \A m \in rn.marks :
                        m[1] \notin contended' => classroom'[m[1]].assigned = m[2].id
                 /\ rn.step = "return" /\ rn.sub \notin contended' =>
                        classroom'[rn.sub].assigned = rn.grade.id
        <3>1. CASE Opened(i) BY <1>2, <3>1, KindOf DEF Opened
        <3>2. CASE SamePush(i) /\ (GoesOn(i) \/ Reads(i) \/ Shows(i))
            <4>1. r \in Batches \cup Items /\ r.kind \in Releases
                BY <2>2, <3>2 DEF SamePush, GoesOn, Reads, Shows
            <4>2. ASSUME NEW m \in r.marks, m[1] \notin contended'
                  PROVE  classroom'[m[1]].assigned = m[2].id
                <5>1. m[1] \in Subs BY <4>1, CopiesOf
                <5>2. classroom[m[1]].assigned = m[2].id
                    BY <1>1, <4>1, <4>2 DEF ShownInv, PushedIsShown
                <5>3. ~(m[1] = r.sub /\ Shows(i))
                    BY <4>2 DEF Shows, ShownInv, OncePerStudent
                <5>4. QED BY <1>1, <5>1, <5>2, <5>3
            <4>3. CASE Reads(i) BY <3>2, <4>2, <4>3 DEF Reads
            <4>4. CASE Shows(i) BY <3>2, <4>2, <4>4 DEF Shows
            <4>5. CASE GoesOn(i)
                <5>1. rn.step # "return" BY <1>2, <4>5, KindOf DEF GoesOn
                <5>2. ASSUME NEW m \in rn.marks, m[1] \notin contended', m \notin r.marks
                      PROVE  classroom'[m[1]].assigned = m[2].id
                    <6>1. r.step = "return" BY <4>1, <4>5, <5>2 DEF GoesOn
                    <6>2. r \in Items BY <1>2, <6>1, RequestOf
                    <6>3. m = <<r.sub, r.grade>> /\ r.sub \in Subs
                        BY <4>5, <5>2, <6>2, CopiesOf DEF GoesOn, Items
                    <6>4. classroom[r.sub].assigned = r.grade.id
                        BY <1>1, <4>1, <5>2, <6>1, <6>3 DEF ShownInv, PushedIsShown
                    <6>5. ~Shows(i) BY <4>5, NoPushRecords DEF GoesOn, Shows
                    <6>6. QED BY <1>1, <6>3, <6>4, <6>5
                <5>3. QED BY <4>2, <5>1, <5>2
            <4>6. QED BY <3>2, <4>3, <4>4, <4>5
        <3>3. QED BY <1>1, <2>2, <3>1, <3>2
    <2>3. QED BY <2>1, <2>2 DEF PushedIsShown
<1>10. PushIsCurrent'
    <2>1. SUFFICES ASSUME NEW k \in Ids, request'[k] \in Items, request'[k].kind \in Releases,
                          request'[k].sub \notin contended',
                          NEW g \in grades'[request'[k].sub], g.active,
                          g.status = "released"
                   PROVE  g.id = request'[k].grade.id
        BY DEF PushIsCurrent, Active
    <2> DEFINE s == request'[k].sub
    <2>2. s \in Subs BY <2>1 DEF Items
    <2>3. PICK h \in Active(s) :
              /\ h.id = g.id
              /\ \/ h.status = "released"
                 \/ /\ r \in Batches /\ r.kind \in Releases
                    /\ \E m \in r.marks : m[1] = s /\ m[2].id = g.id
        BY <1>1, <2>1, <2>2 DEF ActiveFollows
    <2>4. CASE k = i /\ Reads(i)
        <3>1. g \in Active(s) BY <2>1, <2>4 DEF Reads, Active
        <3>2. QED BY <2>2, <2>4, <3>1 DEF Reads, ShownInv, OneActive
    <2>5. CASE /\ request[k] \in Items /\ request[k].kind \in Releases
               /\ request[k].sub = s /\ request[k].grade = request'[k].grade
               /\ k = i => Shows(i)
        <3>1. CASE h.status = "released"
            BY <1>1, <2>1, <2>3, <2>5, <3>1 DEF ShownInv, PushIsCurrent
        <3>2. CASE /\ r \in Batches /\ r.kind \in Releases
                   /\ \E m \in r.marks : m[1] = s /\ m[2].id = g.id
            <4>1. k # i BY <2>5, <3>2, NoPushRecords
            <4>2. s \in r.batch BY <3>2 DEF ShownInv, OncePerStudent
            <4>3. s \in request[k].batch BY <2>5 DEF ShownInv, OncePerStudent
            <4>4. QED BY <1>1, <2>1, <2>2, <2>5, <3>2, <4>1, <4>2, <4>3, OnlyRelease
        <3>3. QED BY <2>3, <3>1, <3>2
    <2>6. CASE k # i BY <1>3, <2>1, <2>5, <2>6
    <2>7. CASE k = i /\ ~Reads(i)
        <3>1. SamePush(i) /\ Shows(i)
            BY <1>1, <2>1, <2>7, NoPushRecords DEF Opened, GoesOn
        <3>2. QED BY <2>1, <2>5, <2>7, <3>1 DEF Shows, SamePush
    <2>8. QED BY <2>4, <2>6, <2>7
<1>11. ReleasedActiveIsShown'
    <2>1. SUFFICES ASSUME NEW s \in Subs, s \notin contended', NEW g \in grades'[s],
                          g.active, g.status = "released"
                   PROVE  classroom'[s].assigned = g.id
        BY DEF ReleasedActiveIsShown
    <2>2. PICK h \in Active(s) :
              /\ h.id = g.id
              /\ \/ h.status = "released"
                 \/ /\ r \in Batches /\ r.kind \in Releases
                    /\ \E m \in r.marks : m[1] = s /\ m[2].id = g.id
        BY <1>1, <2>1 DEF ActiveFollows
    <2>3. s \notin contended BY <1>1, <2>1
    <2>4. CASE s = r.sub /\ Shows(i)
        <3>1. r \in Items /\ r.kind \in Releases /\ r \notin Batches
              /\ classroom'[s].assigned = r.grade.id
            BY <2>4, NoPushRecords DEF Shows
        <3>2. h.id = r.grade.id
            BY <2>2, <2>3, <2>4, <3>1 DEF ShownInv, PushIsCurrent
        <3>3. QED BY <2>2, <3>1, <3>2
    <2>5. CASE classroom'[s].assigned = classroom[s].assigned
        <3>1. CASE h.status = "released"
            BY <2>2, <2>3, <2>5, <3>1 DEF ShownInv, ReleasedActiveIsShown, Active
        <3>2. CASE /\ r \in Batches /\ r.kind \in Releases
                   /\ \E m \in r.marks : m[1] = s /\ m[2].id = g.id
            BY <2>3, <2>5, <3>2 DEF ShownInv, PushedIsShown
        <3>3. QED BY <2>2, <3>1, <3>2
    <2>6. QED BY <1>1, <2>1, <2>4, <2>5
<1>12. QED BY <1>4, <1>5, <1>7, <1>9, <1>10, <1>11 DEF ShownInv

\* Where no grade is added or becomes released, what is active was so.
LEMMA FewerGrades ==
    ASSUME ShownInv, NEW i, \A s \in Subs : grades'[s] \subseteq grades[s]
    PROVE  ActiveFollows(i)
BY DEF ActiveFollows, ShownInv, OneActive, Active

\* Deletions, ingests, new jobs, and whatever ends without recording a push.
LEMMA OtherShown ==
    ASSUME Typed, ShownInv, NEW i \in Ids,
           \/ \E batch \in SUBSET Subs \ {{}} : OpenDelete(i, batch)
           \/ \E force \in BOOLEAN : OpenIngest(i, force)
           \/ Unlink(i) \/ CommitDelete(i) \/ IngestRuns(i)
           \/ \E s \in Subs : Correct(i, s) \/ NewJob(i, s)
           \/ EndBulk(i) \/ ProcessEnds(i)
    PROVE  ShownFrame(i)
<1>1. UNCHANGED <<classroom, contended>>
    BY DEF OpenDelete, OpenIngest, Unlink, CommitDelete, IngestRuns, IngestOne, CommitIngest,
           SendOcr, Correct, NewJob, EndBulk, ProcessEnds, history
<1>2. OnlyMoves(i) /\ request'[i] \in NoPush \cup {Over}
    <2>1. CASE \E batch \in SUBSET Subs \ {{}} : OpenDelete(i, batch)
        BY <2>1, OpenDeleteMoves DEF NoPush
    <2>2. CASE \E force \in BOOLEAN : OpenIngest(i, force)
        BY <2>2, OpenIngestMoves DEF NoPush
    <2>3. CASE Unlink(i) BY <2>3, UnlinkMoves DEF NoPush
    <2>4. CASE CommitDelete(i) BY <2>4, CommitDeleteMoves
    <2>5. CASE IngestRuns(i)
        BY <2>5, IngestOneMoves, CommitIngestMoves, SendOcrMoves DEF NoPush, IngestRuns
    <2>6. CASE \E s \in Subs : Correct(i, s) \/ NewJob(i, s) BY <2>6, MovesOnly DEF Correct, NewJob
    <2>7. CASE EndBulk(i) BY <2>7, PushMoves
    <2>8. CASE ProcessEnds(i) BY <2>8, MovesOnly DEF ProcessEnds
    <2>9. QED BY <2>1, <2>2, <2>3, <2>4, <2>5, <2>6, <2>7, <2>8
<1>3. ActiveFollows(i)
    <2>1. \A s \in Subs : grades'[s] \subseteq grades[s]
        <3>1. CASE CommitDelete(i)
            <4> DEFINE out == {t[1] : t \in Present(i)}
            <4> HIDE DEF out
            <4>1. \/ grades' = grades
                  \/ grades' = [s \in Subs |-> IF s \in out THEN {} ELSE grades[s]]
                BY <3>1, CommitDeleteMoves DEF tables, out
            <4>2. QED BY <4>1
        <3>2. CASE ~CommitDelete(i)
            BY <3>2
            DEF OpenDelete, OpenIngest, Unlink, IngestRuns, IngestOne, CommitIngest,
                SendOcr, Correct, NewJob, EndBulk, ProcessEnds, tables
        <3>3. QED BY <3>1, <3>2
    <2>2. QED BY <2>1, FewerGrades
<1>4. QED BY <1>1, <1>2, <1>3, NoPushRecords DEF ShownFrame

\* A grade that is made is active, and not released.
LEMMA NewGradeShown ==
    ASSUME Typed, ShownInv, NEW i \in Ids, NEW s \in Subs, NewGrade(i, s)
    PROVE  ShownFrame(i)
<1> DEFINE new == [id |-> i, active |-> TRUE, status |-> "not_synced"]
<1>1. OnlyMoves(i) /\ request'[i] = Over /\ UNCHANGED <<classroom, contended>>
    BY MovesOnly DEF NewGrade
<1>2. \A u \in Subs : grades'[u] =
          IF u = s THEN {[g EXCEPT !.active = FALSE] : g \in grades[u]} \cup {new}
                   ELSE grades[u]
    BY DEF NewGrade, Typed
<1>3. \A g \in Grades : [g EXCEPT !.active = FALSE].active = FALSE BY DEF Grades
<1>4. \A u \in Subs : grades[u] \subseteq Grades BY DEF Typed
<1>5. \A g \in grades'[s] : g = new \/ ~g.active
    <2>1. SUFFICES ASSUME NEW g \in grades'[s], g # new PROVE ~g.active
        OBVIOUS
    <2>2. PICK f \in grades[s] : g = [f EXCEPT !.active = FALSE] BY <1>2, <2>1
    <2>3. g.active = FALSE BY <1>3, <1>4, <2>2
    <2>4. QED BY <2>3
<1>6. ActiveFollows(i)
    <2>1. ASSUME NEW u \in Subs, u = s
          PROVE  /\ \A g, h \in grades'[u] : g.active /\ h.active => g = h
                 /\ \A g \in grades'[u] : g.active => g.status # "released"
        <3>1. new.status # "released" OBVIOUS
        <3> HIDE DEF new
        <3>2. QED BY <1>5, <2>1, <3>1
    <2>2. ASSUME NEW u \in Subs, u # s PROVE grades'[u] = grades[u]
        BY <1>2, <2>2
    <2>3. QED BY <2>1, <2>2 DEF ActiveFollows, ShownInv, OneActive, Active
<1>7. QED BY <1>1, <1>6, NoPushRecords DEF ShownFrame

\* A push, until it is committed.
LEMMA PushShown ==
    ASSUME Typed, ShownInv, NEW i \in Ids,
           \/ \E kind \in Pushes, batch \in SUBSET Subs \ {{}} : OpenPush(i, kind, batch)
           \/ ReadGrade(i) \/ Push(i) \/ Return(i) \/ PushFails(i)
    PROVE  ShownFrame(i)
<1> DEFINE r == request[i]
<1> DEFINE rn == request'[i]
<1>1. ActiveFollows(i) /\ grades' = grades
    <2>1. grades' = grades
        BY DEF OpenPush, ReadGrade, Push, Return, PushFails, tables
    <2>2. QED BY <2>1, FewerGrades
<1>2. ASSUME NEW kind \in Pushes, NEW batch \in SUBSET Subs \ {{}}, OpenPush(i, kind, batch)
      PROVE  ShownFrame(i)
    <2> DEFINE new == [step |-> "open", kind |-> kind, batch |-> batch, left |-> batch,
                       marks |-> {}]
    <2>1. new \in Batches BY DEF Batches
    <2>2. OnlyMoves(i) /\ r = Awaited /\ rn = new /\ classroom' = classroom
        BY <1>2, MovesOnly DEF OpenPush, Arrives
    <2>3. Opened(i)
        <3>1. kind \in Releases =>
                  contended' = contended \cup
                      {s \in batch : \E j \in Of(Releases) : s \in request[j].batch}
            BY <1>2 DEF OpenPush
        <3>2. rn.kind = kind /\ rn.batch = batch /\ rn.left = batch /\ rn.marks = {}
            BY <2>2
        <3>3. QED BY <2>1, <2>2, <3>1, <3>2 DEF Opened
    <2>4. contended \subseteq contended' BY <1>2 DEF OpenPush
    <2>5. QED BY <1>1, <2>2, <2>3, <2>4 DEF ShownFrame
<1>3. CASE ReadGrade(i)
    <2>1. /\ OnlyMoves(i) /\ r \in Batches /\ SamePush(i) /\ rn.marks = r.marks
          /\ \E s \in r.left :
                 /\ rn.left = r.left \ {s}
                 /\ \/ rn \in Batches
                    \/ /\ rn \in Items /\ rn.step = "push"
                       /\ rn.sub = s /\ rn.grade \in Active(s)
        BY <1>3, ReadMoves DEF SamePush
    <2>2. Copies(r) = r.marks BY <2>1, CopiesOf
    <2>3. GoesOn(i) \/ Reads(i) BY <1>1, <2>1, <2>2 DEF GoesOn, Reads
    <2>4. UNCHANGED <<classroom, contended>> BY <1>3 DEF ReadGrade, history
    <2>5. QED BY <1>1, <2>1, <2>3, <2>4 DEF ShownFrame
<1>4. CASE Push(i) \/ Return(i) \/ PushFails(i)
    <2>1. OnlyMoves(i) /\ r \in Items /\ contended' = contended
        BY <1>4, PushMoves DEF Push, Return, PushFails, history
    <2>2. r.sub \in Subs BY <2>1 DEF Items
    <2>3. /\ \A c \in Classrooms : \A a, b : /\ [c EXCEPT !.assigned = a].assigned = a
                                             /\ [c EXCEPT !.returned = b].assigned = c.assigned
          /\ classroom \in [Subs -> Classrooms]
        BY DEF Classrooms, Typed
    <2>4. CASE Push(i) /\ r.kind \in Releases
        <3>1. /\ rn = [r EXCEPT !.step = "return"]
              /\ classroom' = [classroom EXCEPT ![r.sub].assigned = r.grade.id]
            BY <2>4, PushMoves
        <3>2. /\ rn \in Items /\ rn.kind = r.kind /\ rn.batch = r.batch
              /\ rn.marks = r.marks /\ rn.left = r.left /\ rn.sub = r.sub
              /\ rn.grade = r.grade
            BY <2>1, <3>1, ItemsTyped DEF Items
        <3>3. classroom'[r.sub].assigned = r.grade.id BY <2>2, <2>3, <3>1
        <3>4. Shows(i) /\ SamePush(i)
            BY <2>1, <2>4, <3>2, <3>3 DEF Shows, SamePush
        <3>5. \A s \in Subs : s # r.sub => classroom'[s] = classroom[s]
            BY <2>3, <3>1
        <3>6. QED BY <1>1, <2>1, <3>4, <3>5 DEF ShownFrame
    <2>5. CASE ~(Push(i) /\ r.kind \in Releases)
        <3>1. \/ rn = Marked(i) /\ (r.step = "return" \/ r.kind \notin Releases)
              \/ rn = Unmarked(i)
            BY <1>4, <2>5, PushMoves DEF Return
        <3>2. GoesOn(i) /\ SamePush(i)
            BY <2>1, <3>1, ItemsTyped, CopiesOf DEF GoesOn, SamePush
        <3>3. \A s \in Subs : classroom'[s].assigned = classroom[s].assigned
            <4>1. CASE Return(i)
                <5>1. classroom' = [classroom EXCEPT ![r.sub].returned =
                                        classroom[r.sub].returned \cup {<<r.grade.id, i>>}]
                    BY <4>1 DEF Return
                <5>2. QED BY <2>2, <2>3, <5>1
            <4>2. CASE classroom' = classroom BY <4>2
            <4>3. QED BY <1>4, <2>5, <4>1, <4>2, PushMoves DEF PushFails
        <3>4. QED BY <1>1, <2>1, <3>2, <3>3 DEF ShownFrame
    <2>6. QED BY <2>4, <2>5
<1>5. QED BY <1>2, <1>3, <1>4

\* What a commit of marks makes released has been shown.
LEMMA CommitMarksShown ==
    ASSUME Typed, ShownInv, NEW i \in Ids, CommitMarks(i)
    PROVE  ShownFrame(i)
<1> DEFINE r == request[i]
<1>1. /\ OnlyMoves(i) /\ request'[i] = Over /\ UNCHANGED <<classroom, contended>>
      /\ r \in Batches /\ r.kind \in {"release", "draft"}
      /\ \/ UNCHANGED grades
         \/ grades' = [s \in Subs |-> {MarkedRow(i, s, g) : g \in grades[s]}]
    BY RequestOf, MovesOnly DEF CommitMarks, Of, Typed, Pushes, Releases
<1>2. ActiveFollows(i)
    <2>1. CASE UNCHANGED grades BY <2>1, FewerGrades
    <2>2. CASE grades' = [s \in Subs |-> {MarkedRow(i, s, g) : g \in grades[s]}]
        <3>1. \A s \in Subs : grades[s] \subseteq Grades BY DEF Typed
        <3>2. ASSUME NEW s \in Subs, NEW g \in grades'[s], g.active
              PROVE  \E h \in Active(s) :
                         /\ h.id = g.id /\ g = MarkedRow(i, s, h)
                         /\ g.status = "released" =>
                                \/ h.status = "released"
                                \/ /\ r.kind \in Releases
                                   /\ \E m \in r.marks : m[1] = s /\ m[2].id = g.id
            <4>1. PICK h \in grades[s] : g = MarkedRow(i, s, h) BY <2>2, <3>2
            <4>2. /\ h.id = g.id /\ h.active
                  /\ \/ g.status = h.status
                     \/ /\ g.status = MarkOf(r.kind)
                        /\ \E m \in r.marks : m[1] = s /\ m[2].id = g.id
                BY <3>1, <3>2, <4>1, MarkedRows
            <4>3. MarkOf(r.kind) = "released" => r.kind \in Releases
                BY DEF MarkOf, Releases
            <4>4. QED BY <4>1, <4>2, <4>3 DEF Active
        <3>3. \A s \in Subs : \A g, h \in grades'[s] : g.active /\ h.active => g = h
            BY <3>2 DEF ShownInv, OneActive
        <3>4. QED BY <1>1, <3>2, <3>3 DEF ActiveFollows
    <2>3. QED BY <1>1, <2>1, <2>2
<1>3. QED BY <1>1, <1>2, NoPushRecords DEF ShownFrame

\* Nothing is under way at first, and nothing is released.
LEMMA InitShown == Init => ShownInv
<1>1. SUFFICES ASSUME NEW c \in Courses, Init, RequestsInit(c.expected), grades = c.grades
               PROVE  ShownInv
    BY DEF Init
<1>2. \A s \in Subs : /\ \A g \in grades[s] : g.status # "released"
                      /\ \A g, h \in grades[s] : g = h
    BY <1>1, CoursesAssumption
<1>3. \A k \in Ids : request[k] = Awaited /\ request[k] \notin Batches \cup Items
    BY <1>1, NoPushRecords DEF RequestsInit
<1>4. Of(Releases) = {} BY <1>3 DEF Of, Runs, Awaited
<1>5. QED
    BY <1>2, <1>3, <1>4
    DEF ShownInv, OneActive, Active, OneRelease, OncePerStudent, PushedIsShown,
        PushIsCurrent, ReleasedActiveIsShown

\* What is known of what is shown holds from step to step.
LEMMA NextKeepsShown == Typed /\ ShownInv /\ [Next]_vars => ShownInv'
<1>1. SUFFICES ASSUME Typed, ShownInv, [Next]_vars PROVE ShownInv'
    OBVIOUS
<1>2. Typed' BY <1>1, NextTyped
<1>3. CASE UNCHANGED vars
    BY <1>1, <1>3
    DEF vars, requests, tables, history, ShownInv, OneActive, Active, OneRelease, Of, Runs,
        OncePerStudent, PushedIsShown, PushIsCurrent, ReleasedActiveIsShown
<1>4. CASE Next
    <2>1. \E i \in Ids : ShownFrame(i)
        BY <1>1, <1>4, OtherShown, PushShown, NewGradeShown, CommitMarksShown
        DEF Next, PushRuns
    <2>2. QED BY <1>1, <1>2, <2>1, ShownFrameKeeps
<1>5. QED BY <1>1, <1>3, <1>4

\* Grades made after a release are not taken for released, and the release of one grade
\* replaces the one before in Classroom (classroom_sync.py); only two releases of one
\* student that overlap can defeat it.
THEOREM ReleasedGradesAreShown == Spec => []ReleasedActiveIsShown
<1>1. Init => Typed /\ ShownInv BY InitTyped, InitShown
<1>2. Typed /\ ShownInv /\ [Next]_vars => (Typed /\ ShownInv)'
    BY NextTyped, NextKeepsShown
<1>3. ShownInv => ReleasedActiveIsShown BY DEF ShownInv
<1>4. QED BY <1>1, <1>2, <1>3, PTL DEF Spec

----------------------------------------------------------------------------
(* What becomes of the rows of submissions *)

\* This step takes the file of s, for a deletion that takes the row too or is refused.
Unlinked(i, s) ==
    /\ request[i] \in Deletions /\ s \in request[i].left
    /\ \/ request'[i] = Over /\ submission[s].jobs # "none"
       \/ /\ request'[i] \in Deletions
          /\ \E t \in request'[i].takes : t[1] = s /\ t[2] = submission[s].id

\* The row is deleted; no other request has taken its place.
Removed(i, s) ==
    /\ submission'[s] = NoSubmission
    /\ request[i] \in Deletions /\ request'[i] = Over

\* The row is stored by an ingest that has taken the student.
Stores(i, s) ==
    /\ submission'[s] = Ingested(i, s) /\ Storable(i)
    /\ request[i] \in Ingests /\ request'[i] \in Sendings
    /\ request'[i].left = OcrDue(i)
    /\ \E t \in request[i].takes : t[1] = s

RowFollows(i, s) ==
    \/ /\ submission'[s].there = submission[s].there
       /\ submission'[s].id = submission[s].id
       /\ submission'[s].upload = submission[s].upload
       /\ submission'[s].file = submission[s].file \/ Unlinked(i, s)
       /\ submission'[s].pending => submission[s].pending
       /\ submission'[s].jobs = submission[s].jobs \/ NewJob(i, s)
    \/ Removed(i, s)
    \/ Stores(i, s)

RowsFrame(i) ==
    /\ OnlyMoves(i) /\ request[i] # Over
    /\ request[i] \in Sendings => request'[i] \in {Over} \cup Sendings
    /\ \A s \in Subs : RowFollows(i, s)

\* A request of a deletion or an ingest is of one kind.
LEMMA OneKind ==
    /\ \A r \in Deletions : r \notin Ingests \cup Sendings \cup Batches \cup Items
    /\ \A r \in Ingests : r \notin Deletions \cup Sendings \cup Batches \cup Items
    /\ \A r \in Sendings : r \notin Deletions \cup Ingests \cup Batches \cup Items
    /\ \A r \in Deletions \cup Ingests \cup Sendings : r \notin {Awaited, Over}
    /\ \A r \in Batches \cup Items : r \notin {Awaited, Over}
    /\ Over # Awaited
    /\ {Awaited, Over} \cap (Deletions \cup Ingests \cup Sendings) = {}
BY DEF Deletions, Ingests, Sendings, Batches, Items, Pushes, Releases, Awaited, Over

\* Rows that do not change follow.
LEMMA SameRows ==
    ASSUME submission' = submission, NEW i
    PROVE  \A s \in Subs : RowFollows(i, s)
BY DEF RowFollows

\* The steps that leave the rows of submissions alone.
LEMMA QuietRows ==
    ASSUME Typed, NEW i \in Ids,
           \/ \E kind \in Pushes, batch \in SUBSET Subs \ {{}} : OpenPush(i, kind, batch)
           \/ PushRuns(i) \/ ProcessEnds(i)
           \/ \E batch \in SUBSET Subs \ {{}} : OpenDelete(i, batch)
           \/ \E force \in BOOLEAN : OpenIngest(i, force)
           \/ IngestOne(i) \/ SendOcr(i)
    PROVE  RowsFrame(i)
<1>1. submission' = submission
    BY DEF OpenPush, PushRuns, ReadGrade, Push, Return, PushFails, CommitMarks, EndBulk,
           ProcessEnds, OpenDelete, OpenIngest, IngestOne, SendOcr, tables
<1>2. /\ OnlyMoves(i) /\ request[i] # Over
      /\ request[i] \in Sendings => request'[i] \in {Over} \cup Sendings
    <2>1. ASSUME NEW kind \in Pushes, NEW batch \in SUBSET Subs \ {{}},
                 OpenPush(i, kind, batch)
          PROVE  OnlyMoves(i) /\ request[i] = Awaited
        BY <2>1, MovesOnly DEF OpenPush, Arrives
    <2>2. CASE PushRuns(i)
        <3>1. CASE CommitMarks(i)
            <4>1. request[i] \in Batches
                BY <3>1, RequestOf DEF CommitMarks, Of, Typed, Pushes, Releases
            <4>2. OnlyMoves(i) BY <3>1, MovesOnly DEF CommitMarks
            <4>3. QED BY <4>1, <4>2, OneKind
        <3>2. QED BY <2>2, <3>1, ReadMoves, PushMoves, OneKind DEF PushRuns
    <2>3. CASE ProcessEnds(i)
        <3>1. OnlyMoves(i) /\ request'[i] = Over /\ Runs(i)
            BY <2>3, MovesOnly DEF ProcessEnds
        <3>2. request[i] # Over BY <3>1 DEF Runs, Over
        <3>3. QED BY <3>1, <3>2
    <2>4. CASE \E batch \in SUBSET Subs \ {{}} : OpenDelete(i, batch)
        BY <2>4, OpenDeleteMoves, OneKind
    <2>5. CASE \E force \in BOOLEAN : OpenIngest(i, force)
        BY <2>5, OpenIngestMoves, OneKind
    <2>6. CASE IngestOne(i) \/ SendOcr(i)
        BY <2>6, IngestOneMoves, SendOcrMoves, OneKind
    <2>7. QED BY <2>1, <2>2, <2>3, <2>4, <2>5, <2>6, OneKind
<1>3. QED BY <1>1, <1>2, SameRows DEF RowsFrame

\* The steps that do not.
LEMMA RowSteps ==
    ASSUME Typed, NEW i \in Ids,
           \/ \E s \in Subs : NewGrade(i, s) \/ Correct(i, s) \/ NewJob(i, s)
           \/ Unlink(i) \/ CommitDelete(i) \/ CommitIngest(i)
    PROVE  RowsFrame(i)
<1> DEFINE r == request[i]
<1>1. submission \in [Subs -> Submissions] BY DEF Typed
<1>2. ASSUME NEW s \in Subs, NewGrade(i, s) PROVE RowsFrame(i)
    <2>1. OnlyMoves(i) /\ r = Awaited BY <1>2, MovesOnly DEF NewGrade, Arrives
    <2>2. submission' = [submission EXCEPT ![s] = [submission[s] EXCEPT !.pending = FALSE]]
        BY <1>2 DEF NewGrade
    <2>3. LET row == [submission[s] EXCEPT !.pending = FALSE] IN
              /\ row.there = submission[s].there /\ row.id = submission[s].id
              /\ row.upload = submission[s].upload /\ row.file = submission[s].file
              /\ row.jobs = submission[s].jobs /\ ~row.pending
        BY <1>1 DEF Submissions
    <2>4. ASSUME NEW u \in Subs PROVE RowFollows(i, u)
        <3>1. CASE u = s BY <1>1, <2>2, <2>3, <3>1 DEF RowFollows
        <3>2. CASE u # s BY <1>1, <2>2, <3>2 DEF RowFollows
        <3>3. QED BY <3>1, <3>2
    <2>5. QED BY <2>1, <2>4, OneKind DEF RowsFrame
<1>3. ASSUME NEW s \in Subs, NewJob(i, s) PROVE RowsFrame(i)
    <2>1. OnlyMoves(i) /\ r = Awaited BY <1>3, MovesOnly DEF Correct, NewJob, Arrives
    <2>2. submission' = [submission EXCEPT ![s] = [submission[s] EXCEPT !.jobs = "open"]]
        BY <1>3 DEF Correct, NewJob
    <2>3. LET row == [submission[s] EXCEPT !.jobs = "open"] IN
              /\ row.there = submission[s].there /\ row.id = submission[s].id
              /\ row.upload = submission[s].upload /\ row.file = submission[s].file
              /\ row.pending = submission[s].pending
        BY <1>1 DEF Submissions
    <2>4. ASSUME NEW u \in Subs PROVE RowFollows(i, u)
        <3>1. CASE u = s BY <1>1, <1>3, <2>2, <2>3, <3>1 DEF RowFollows
        <3>2. CASE u # s BY <1>1, <2>2, <3>2 DEF RowFollows
        <3>3. QED BY <3>1, <3>2
    <2>5. QED BY <2>1, <2>4, OneKind DEF RowsFrame
<1>8. ASSUME NEW s \in Subs, Correct(i, s) PROVE RowsFrame(i)
    <2>1. OnlyMoves(i) /\ r = Awaited BY <1>8, MovesOnly DEF Correct, Arrives
    <2>2. PICK b \in BOOLEAN :
              submission' = [submission EXCEPT ![s] =
                                [submission[s] EXCEPT !.pending = submission[s].pending /\ ~b]]
        BY <1>8 DEF Correct
    <2>3. LET row == [submission[s] EXCEPT !.pending = submission[s].pending /\ ~b] IN
              /\ row.there = submission[s].there /\ row.id = submission[s].id
              /\ row.upload = submission[s].upload /\ row.file = submission[s].file
              /\ row.jobs = submission[s].jobs
              /\ row.pending => submission[s].pending
        BY <1>1 DEF Submissions
    <2>4. ASSUME NEW u \in Subs PROVE RowFollows(i, u)
        <3>1. CASE u = s BY <1>1, <2>2, <2>3, <3>1 DEF RowFollows
        <3>2. CASE u # s BY <1>1, <2>2, <3>2 DEF RowFollows
        <3>3. QED BY <3>1, <3>2
    <2>5. QED BY <2>1, <2>4, OneKind DEF RowsFrame
<1>4. CASE Unlink(i)
    <2>1. OnlyMoves(i) /\ r \in Deletions BY <1>4, UnlinkMoves
    <2>2. PICK s \in r.left :
              \/ submission' = submission
              \/ /\ submission' = [submission EXCEPT ![s].file = FALSE]
                 /\ \/ submission[s].jobs = "graded" /\ request'[i] = Over
                    \/ /\ request'[i] \in Deletions
                       /\ request'[i] = [r EXCEPT !.left = @ \ {s}, !.takes = @ \cup
                               {<<s, submission[s].id, RowsOf(s)>>}]
        BY <1>4, UnlinkMoves DEF tables
    <2>3. s \in Subs BY <2>1 DEF Deletions
    <2>4. CASE submission' = submission BY <2>1, <2>4, SameRows, OneKind DEF RowsFrame
    <2>5. CASE submission' # submission
        <3>1. submission' = [submission EXCEPT ![s] = [submission[s] EXCEPT !.file = FALSE]]
            BY <2>2, <2>5
        <3>2. LET row == [submission[s] EXCEPT !.file = FALSE] IN
                  /\ row.there = submission[s].there /\ row.id = submission[s].id
                  /\ row.upload = submission[s].upload /\ row.jobs = submission[s].jobs
                  /\ row.pending = submission[s].pending
            BY <1>1, <2>3 DEF Submissions
        <3>3. Unlinked(i, s)
            <4>1. CASE submission[s].jobs = "graded" /\ request'[i] = Over
                BY <2>1, <4>1 DEF Unlinked
            <4>2. CASE /\ request'[i] \in Deletions
                       /\ request'[i] = [r EXCEPT !.left = @ \ {s}, !.takes = @ \cup
                               {<<s, submission[s].id, RowsOf(s)>>}]
                <5>1. <<s, submission[s].id, RowsOf(s)>> \in request'[i].takes
                    BY <2>1, <4>2 DEF Deletions
                <5>2. QED BY <2>1, <4>2, <5>1 DEF Unlinked
            <4>3. QED BY <2>2, <2>5, <4>1, <4>2
        <3>4. ASSUME NEW u \in Subs PROVE RowFollows(i, u)
            <4>1. CASE u = s BY <1>1, <3>1, <3>2, <3>3, <4>1 DEF RowFollows
            <4>2. CASE u # s BY <1>1, <3>1, <4>2 DEF RowFollows
            <4>3. QED BY <4>1, <4>2
        <3>5. QED BY <2>1, <3>4, OneKind DEF RowsFrame
    <2>6. QED BY <2>4, <2>5
<1>5. CASE CommitDelete(i)
    <2> DEFINE out == {t[1] : t \in Present(i)}
    <2> HIDE DEF out
    <2>1. /\ OnlyMoves(i) /\ r \in Deletions /\ request'[i] = Over
          /\ \/ submission' = submission
             \/ submission' = [s \in Subs |-> IF s \in out THEN NoSubmission ELSE submission[s]]
        BY <1>5, CommitDeleteMoves DEF tables, out
    <2>2. CASE submission' = submission BY <2>1, <2>2, SameRows, OneKind DEF RowsFrame
    <2>3. CASE submission' = [s \in Subs |-> IF s \in out THEN NoSubmission ELSE submission[s]]
        <3>1. \A s \in Subs : submission'[s] = submission[s] \/ submission'[s] = NoSubmission
            BY <2>3
        <3>2. \A s \in Subs : RowFollows(i, s) BY <2>1, <3>1 DEF RowFollows, Removed
        <3>3. QED BY <2>1, <3>2, OneKind DEF RowsFrame
    <2>4. QED BY <2>1, <2>2, <2>3
<1>6. CASE CommitIngest(i)
    <2> DEFINE taken == {t[1] : t \in r.takes}
    <2> HIDE DEF taken
    <2>1. /\ OnlyMoves(i) /\ r \in Ingests
          /\ \/ /\ request'[i] \in Sendings /\ request'[i].left = OcrDue(i) /\ Storable(i)
                /\ submission' = [s \in Subs |-> IF s \in taken THEN Ingested(i, s)
                                                                ELSE submission[s]]
             \/ submission' = submission
        BY <1>6, CommitIngestMoves DEF taken
    <2>2. CASE submission' = submission BY <2>1, <2>2, SameRows, OneKind DEF RowsFrame
    <2>3. CASE /\ request'[i] \in Sendings /\ request'[i].left = OcrDue(i) /\ Storable(i)
               /\ submission' = [s \in Subs |-> IF s \in taken THEN Ingested(i, s)
                                                               ELSE submission[s]]
        <3>1. ASSUME NEW s \in Subs, s \in taken PROVE RowFollows(i, s)
            <4>1. \E t \in r.takes : t[1] = s BY <3>1 DEF taken
            <4>2. submission'[s] = Ingested(i, s) BY <2>3, <3>1
            <4>3. QED BY <2>1, <2>3, <4>1, <4>2 DEF RowFollows, Stores
        <3>2. ASSUME NEW s \in Subs, s \notin taken PROVE RowFollows(i, s)
            BY <2>3, <3>2 DEF RowFollows
        <3>3. QED BY <2>1, <3>1, <3>2, OneKind DEF RowsFrame
    <2>4. QED BY <2>1, <2>2, <2>3
<1>7. QED BY <1>2, <1>3, <1>4, <1>5, <1>6, <1>8

StoredAfter(id) == id \in Ids => request'[id] \in {Over} \cup Sendings

\* A row that is made by a request is made by one that has stored, or ended; so it stays.
LEMMA RowsStay ==
    ASSUME Typed, Typed', RowsStored, NEW i \in Ids, RowsFrame(i)
    PROVE  /\ \A id : Stored(id) => StoredAfter(id)
           /\ \A s \in Subs : StoredAfter(submission'[s].id) /\ StoredAfter(submission'[s].upload)
<1>1. \A k \in Ids : k # i => request'[k] = request[k] BY DEF RowsFrame, OnlyMoves
<1>2. \A id : Stored(id) => StoredAfter(id) BY <1>1 DEF Stored, StoredAfter, RowsFrame
<1>3. ASSUME NEW s \in Subs
      PROVE  StoredAfter(submission'[s].id) /\ StoredAfter(submission'[s].upload)
    <2>1. CASE submission'[s].id = submission[s].id /\ submission'[s].upload = submission[s].upload
        BY <1>2, <2>1 DEF RowsStored
    <2>2. CASE Removed(i, s)
        <3>1. submission'[s].id = 0 /\ submission'[s].upload = 0
            BY <2>2 DEF Removed, NoSubmission
        <3>2. QED BY <3>1 DEF StoredAfter, Ids
    <2>3. CASE Stores(i, s)
        <3>1. /\ submission'[s].upload = i
              /\ submission'[s].id = submission[s].id \/ submission'[s].id = i
            BY <2>3, IngestedRow DEF Stores
        <3>2. StoredAfter(i) BY <2>3 DEF Stores, StoredAfter
        <3>3. QED BY <1>2, <3>1, <3>2 DEF RowsStored
    <2>4. QED BY <2>1, <2>2, <2>3 DEF RowsFrame, RowFollows
<1>4. QED BY <1>2, <1>3

\* The steps of a request.
Step(i) ==
    \/ \E kind \in Pushes, batch \in SUBSET Subs \ {{}} : OpenPush(i, kind, batch)
    \/ PushRuns(i)
    \/ \E s \in Subs : NewGrade(i, s) \/ Correct(i, s) \/ NewJob(i, s)
    \/ \E batch \in SUBSET Subs \ {{}} : OpenDelete(i, batch)
    \/ Unlink(i) \/ CommitDelete(i)
    \/ \E force \in BOOLEAN : OpenIngest(i, force)
    \/ IngestRuns(i)
    \/ ProcessEnds(i)

\* All steps are of some request.
LEMMA NextIsStep == Next => \E i \in Ids : Step(i)
BY DEF Next, Step

\* Rows follow at every step.
LEMMA StepRows ==
    ASSUME Typed, NEW i \in Ids, Step(i)
    PROVE  RowsFrame(i)
BY QuietRows, RowSteps DEF Step, IngestRuns

----------------------------------------------------------------------------
(* A deletion is whole *)

\* A deletion is opened, and its batch disturbed if a job is there already.
Undertakes(i) ==
    /\ request[i] = Awaited
    /\ request'[i].takes = {} /\ request'[i].left = request'[i].batch
    /\ submission' = submission
    /\ \A s \in request'[i].batch :
           submission[s].jobs # "none" => request'[i].batch \subseteq disturbed'

\* It takes rows, with the grades and audit entries there are.
Takes(i) ==
    /\ request[i] \in Deletions
    /\ request'[i].batch = request[i].batch /\ request'[i].left \subseteq request[i].left
    /\ request[i].takes \subseteq request'[i].takes
    /\ \A t \in request'[i].takes \ request[i].takes :
           /\ t[1] \in request[i].left \ request'[i].left
           /\ t[2] = submission[t[1]].id
           /\ RowsOf(t[1]) \subseteq t[3]
    /\ UNCHANGED <<grades, audits>>

\* It ends: cut, refused for what has disturbed it, or with all its rows.
Deleted(i) ==
    /\ request[i] \in Deletions /\ request'[i] = Over
    /\ \/ outcome'[i] = "cut"
       \/ request[i].batch \subseteq disturbed
       \/ \A t \in Present(i) : submission'[t[1]] = NoSubmission

\* A row that refers to s is added, which disturbs the deletions that have gone past s.
Writes(i, s) ==
    /\ request[i] \notin Deletions /\ request'[i] \notin Deletions
    /\ BatchMates(s) \subseteq disturbed'

DeletionFrame(i) ==
    /\ disturbed \subseteq disturbed'
    /\ request'[i] \in Deletions => Undertakes(i) \/ Takes(i)
    /\ request[i] \in Deletions => request'[i] \in Deletions \/ Deleted(i)
    /\ \A s \in Subs : RowsOf(s)' \subseteq RowsOf(s) \/ Writes(i, s)

\* What was said of a deletion is kept by such a step.
LEMMA DeletionFrameKeeps ==
    ASSUME Typed, Typed', DeleteInv, NEW i \in Ids, RowsFrame(i), DeletionFrame(i)
    PROVE  DeleteInv'
<1> DEFINE r == request[i]
<1> DEFINE rn == request'[i]
<1>1. /\ \A k \in Ids : k # i => request'[k] = request[k] /\ outcome'[k] = outcome[k]
      /\ r # Over /\ disturbed \subseteq disturbed'
    BY DEF RowsFrame, OnlyMoves, DeletionFrame
<1>2. /\ \A id : Stored(id) => StoredAfter(id)
      /\ \A s \in Subs : StoredAfter(submission'[s].id) /\ StoredAfter(submission'[s].upload)
    BY RowsStay DEF DeleteInv
<1>3. /\ \A k \in Ids : request[k] \in Deletions =>
             /\ request[k].left \subseteq request[k].batch /\ request[k].batch \subseteq Subs
             /\ \A t \in request[k].takes : t[1] \in request[k].batch \ request[k].left
      /\ \A k \in Ids : request'[k] \in Deletions => request'[k].batch \subseteq Subs
    BY DEF DeleteInv, TakesAreLeft, Deletions
<1>4. TakesAreLeft'
    <2>1. SUFFICES ASSUME NEW k \in Ids, request'[k] \in Deletions
                   PROVE  /\ request'[k].left \subseteq request'[k].batch
                          /\ \A t \in request'[k].takes :
                                 t[1] \in request'[k].batch \ request'[k].left
        BY DEF TakesAreLeft
    <2>2. CASE k # i BY <1>1, <1>3, <2>1, <2>2
    <2>3. CASE k = i /\ Undertakes(i) BY <2>1, <2>3 DEF Undertakes
    <2>4. CASE k = i /\ Takes(i)
        <3>1. /\ r \in Deletions /\ rn.batch = r.batch /\ rn.left \subseteq r.left
              /\ \A t \in rn.takes \ r.takes : t[1] \in r.left \ rn.left
            BY <2>4 DEF Takes
        <3>2. QED BY <1>3, <2>4, <3>1
    <2>5. QED BY <2>1, <2>2, <2>3, <2>4 DEF DeletionFrame
<1>5. RowsStored'
    <2>1. ASSUME NEW k \in Ids, request'[k] \in Deletions, NEW t \in request'[k].takes
          PROVE  StoredAfter(t[2])
        <3>1. CASE request[k] \in Deletions /\ t \in request[k].takes
            BY <1>2, <3>1 DEF DeleteInv, RowsStored
        <3>2. CASE k = i /\ Takes(i) /\ t \notin r.takes
            <4>1. r \in Deletions /\ t[1] \in r.left /\ t[2] = submission[t[1]].id
                BY <2>1, <3>2 DEF Takes
            <4>2. t[1] \in Subs BY <1>3, <4>1
            <4>3. QED BY <1>2, <4>1, <4>2 DEF DeleteInv, RowsStored
        <3>3. CASE k = i /\ Undertakes(i) BY <2>1, <3>3 DEF Undertakes
        <3>4. QED BY <1>1, <2>1, <3>1, <3>2, <3>3 DEF DeletionFrame, Takes
    <2>2. QED BY <1>2, <2>1 DEF RowsStored, Stored, StoredAfter
<1>6. \* a job that comes to be there disturbs the deletions under way
      ASSUME NEW k \in Ids, request'[k] \in Deletions, NEW s \in request'[k].batch,
             submission'[s].jobs # "none"
      PROVE  request'[k].batch \subseteq disturbed'
    <2>1. s \in Subs BY <1>3, <1>6
    <2>2. CASE k = i /\ Undertakes(i) BY <1>6, <2>2 DEF Undertakes
    <2>3. CASE /\ request[k] \in Deletions /\ request'[k].batch = request[k].batch
        <3>1. CASE submission[s].jobs # "none"
            BY <1>1, <1>6, <2>3, <3>1 DEF DeleteInv, RefusalsDisturb
        <3>2. CASE NewJob(i, s)
            <4>1. k \in Of({"delete"}) BY <2>3 DEF Of, Runs, Deletions
            <4>2. QED BY <1>6, <2>3, <3>2, <4>1 DEF Correct, NewJob
        <3>3. CASE Removed(i, s) BY <1>6, <3>3 DEF Removed, NoSubmission
        <3>4. CASE Stores(i, s)
            BY <1>6, <2>1, <3>1, <3>4, IngestedRow DEF Stores
        <3>5. QED BY <1>6, <2>1, <3>1, <3>2, <3>3, <3>4 DEF RowsFrame, RowFollows
    <2>4. QED BY <1>1, <1>6, <2>2, <2>3 DEF DeletionFrame, Takes
<1>7. RefusalsDisturb'
    <2>1. SUFFICES ASSUME NEW k \in Ids, request'[k] \in Deletions,
                          NEW t \in request'[k].takes,
                          submission'[t[1]].there, submission'[t[1]].id = t[2],
                          submission'[t[1]].jobs # "none" \/ ~(RowsOf(t[1])' \subseteq t[3])
                   PROVE  request'[k].batch \subseteq disturbed'
        BY <1>6 DEF RefusalsDisturb, Present, Referred
    <2>2. t[1] \in request'[k].batch BY <1>4, <2>1 DEF TakesAreLeft
    <2>3. t[1] \in Subs BY <1>3, <2>1, <2>2
    <2>4. CASE submission'[t[1]].jobs # "none" BY <1>6, <2>1, <2>2, <2>4
    <2>5. ASSUME ~(RowsOf(t[1])' \subseteq t[3])
          PROVE  request'[k].batch \subseteq disturbed'
        <3>1. CASE Writes(i, t[1])
            <4>2. k # i BY <2>1, <3>1 DEF Writes
            <4>3. request[k] = request'[k] /\ request[k] \in Deletions BY <1>1, <2>1, <4>2
            <4>4. t[1] \in request[k].batch \ request[k].left BY <1>3, <2>1, <4>3
            <4>5. k \in Of({"delete"}) BY <4>3 DEF Of, Runs, Deletions
            <4>6. QED BY <3>1, <4>3, <4>4, <4>5 DEF Writes, BatchMates
        <3>2. CASE RowsOf(t[1])' \subseteq RowsOf(t[1])
            <4>1. ~(RowsOf(t[1]) \subseteq t[3]) BY <2>5, <3>2
            <4>2. CASE /\ request[k] \in Deletions /\ t \in request[k].takes
                       /\ request'[k].batch = request[k].batch
                <5>1. Stored(t[2]) BY <4>2 DEF DeleteInv, RowsStored
                <5>2. submission[t[1]].there /\ submission[t[1]].id = t[2]
                    <6>1. CASE Removed(i, t[1]) BY <2>1, <6>1 DEF Removed, NoSubmission
                    <6>2. CASE Stores(i, t[1])
                        <7>1. t[2] # i BY <5>1, <6>2, OneKind DEF Stored, Stores
                        <7>2. QED BY <2>1, <2>3, <6>2, <7>1, IngestedRow DEF Stores
                    <6>3. QED BY <2>1, <2>3, <6>1, <6>2 DEF RowsFrame, RowFollows
                <5>3. t \in Present(k) /\ Referred(t)
                    BY <2>5, <4>1, <4>2, <5>2 DEF Present, Referred
                <5>4. QED BY <1>1, <4>2, <5>3 DEF DeleteInv, RefusalsDisturb
            <4>3. CASE k = i /\ Takes(i) /\ t \notin r.takes
                BY <2>1, <4>1, <4>3 DEF Takes
            <4>4. CASE k = i /\ Undertakes(i) BY <2>1, <4>4 DEF Undertakes
            <4>5. QED BY <1>1, <2>1, <4>2, <4>3, <4>4 DEF DeletionFrame, Takes
        <3>3. QED BY <2>3, <2>5, <3>1, <3>2 DEF DeletionFrame
    <2>6. QED BY <2>1, <2>4, <2>5
<1>8. FilesGoWithRows'
    <2>1. SUFFICES ASSUME \A k \in Ids : outcome'[k] # "cut",
                          NEW s \in Subs, s \notin disturbed',
                          submission'[s].there, ~submission'[s].file
                   PROVE  \E k \in Ids :
                              /\ request'[k] \in Deletions
                              /\ \E t \in request'[k].takes :
                                     t[1] = s /\ t[2] = submission'[s].id
        BY DEF FilesGoWithRows, Cuts
    <2>2. Cuts = {}
        <3>1. ASSUME NEW k \in Ids, outcome[k] = "cut" PROVE FALSE
            <4>1. request[k] = Over BY <3>1 DEF Typed
            <4>2. QED BY <1>1, <2>1, <3>1, <4>1
        <3>2. QED BY <3>1 DEF Cuts
    <2>3. ~Removed(i, s) BY <2>1 DEF Removed, NoSubmission
    <2>4. ~Stores(i, s) BY <2>1, IngestedRow DEF Stores
    <2>5. /\ submission[s].there /\ submission'[s].id = submission[s].id
          /\ submission'[s].file = submission[s].file \/ Unlinked(i, s)
        BY <2>1, <2>3, <2>4 DEF RowsFrame, RowFollows
    <2>6. CASE Unlinked(i, s)
        <3>1. r \in Deletions /\ s \in r.batch BY <1>3, <2>6 DEF Unlinked
        <3>2. submission[s].jobs = "none"
            BY <1>1, <2>1, <3>1 DEF DeleteInv, RefusalsDisturb
        <3>3. QED BY <2>5, <2>6, <3>2 DEF Unlinked
    <2>7. CASE submission'[s].file = submission[s].file
        <3>1. PICK k \in Ids : /\ request[k] \in Deletions
                               /\ \E t \in request[k].takes :
                                      t[1] = s /\ t[2] = submission[s].id
            BY <1>1, <2>1, <2>2, <2>5, <2>7 DEF DeleteInv, FilesGoWithRows
        <3>2. PICK t \in request[k].takes : t[1] = s /\ t[2] = submission[s].id
            BY <3>1
        <3>3. CASE k # i BY <1>1, <2>5, <3>1, <3>2, <3>3
        <3>4. CASE k = i /\ rn \in Deletions
            <4>1. Takes(i) BY <3>1, <3>4, OneKind DEF DeletionFrame, Undertakes
            <4>2. t \in rn.takes BY <3>2, <3>4, <4>1 DEF Takes
            <4>3. QED BY <2>5, <3>2, <3>4, <4>2
        <3>5. CASE k = i /\ rn \notin Deletions
            <4>1. Deleted(i) BY <3>1, <3>5 DEF DeletionFrame
            <4>2. s \in r.batch BY <1>3, <3>1, <3>2, <3>5
            <4>3. t \in Present(i) BY <2>5, <3>2, <3>5 DEF Present
            <4>4. submission'[s] = NoSubmission
                BY <1>1, <2>1, <3>2, <4>1, <4>2, <4>3 DEF Deleted
            <4>5. QED BY <2>1, <4>4 DEF NoSubmission
        <3>6. QED BY <3>3, <3>4, <3>5
    <2>8. QED BY <2>5, <2>6, <2>7
<1>9. QED BY <1>4, <1>5, <1>7, <1>8 DEF DeleteInv

\* Pushes, grades and jobs are made by requests that neither delete nor ingest.
LEMMA PushSteps ==
    ASSUME Typed, NEW i \in Ids,
           \/ \E kind \in Pushes, batch \in SUBSET Subs \ {{}} : OpenPush(i, kind, batch)
           \/ PushRuns(i)
           \/ \E s \in Subs : NewGrade(i, s) \/ Correct(i, s) \/ NewJob(i, s)
    PROVE  /\ request[i] \in {Awaited} \cup Batches \cup Items
           /\ request'[i] \in {Over} \cup Batches \cup Items
<1>1. ASSUME NEW kind \in Pushes, NEW batch \in SUBSET Subs \ {{}}, OpenPush(i, kind, batch)
      PROVE  request[i] = Awaited /\ request'[i] \in Batches
    <2>1. [step |-> "open", kind |-> kind, batch |-> batch, left |-> batch, marks |-> {}]
              \in Batches
        BY DEF Batches
    <2>2. QED BY <1>1, <2>1, MovesOnly DEF OpenPush, Arrives
<1>2. CASE PushRuns(i)
    <2>1. CASE CommitMarks(i)
        <3>1. request[i] \in Batches
            BY <2>1, RequestOf DEF CommitMarks, Of, Typed, Pushes, Releases
        <3>2. request'[i] = Over BY <2>1, MovesOnly DEF CommitMarks
        <3>3. QED BY <3>1, <3>2
    <2>2. CASE Push(i) \/ Return(i) \/ PushFails(i)
        BY <2>2, PushMoves, ItemsTyped
    <2>3. QED BY <1>2, <2>1, <2>2, ReadMoves, PushMoves DEF PushRuns
<1>3. ASSUME NEW s \in Subs, NewGrade(i, s) \/ Correct(i, s) \/ NewJob(i, s)
      PROVE  request[i] = Awaited /\ request'[i] = Over
    BY <1>3, MovesOnly DEF NewGrade, Correct, NewJob, Arrives
<1>4. QED BY <1>1, <1>2, <1>3

\* Whatever is not a deletion leaves those that are alone.
LEMMA OtherDeletions ==
    ASSUME Typed, NEW i \in Ids,
           \/ \E kind \in Pushes, batch \in SUBSET Subs \ {{}} : OpenPush(i, kind, batch)
           \/ PushRuns(i)
           \/ \E s \in Subs : NewGrade(i, s) \/ Correct(i, s) \/ NewJob(i, s)
           \/ \E force \in BOOLEAN : OpenIngest(i, force)
           \/ IngestRuns(i)
    PROVE  /\ disturbed \subseteq disturbed'
           /\ request[i] \notin Deletions /\ request'[i] \notin Deletions
<1>1. disturbed \subseteq disturbed'
    BY DEF OpenPush, PushRuns, ReadGrade, Push, Return, PushFails, CommitMarks, EndBulk,
           NewGrade, Correct, NewJob, OpenIngest, IngestRuns, IngestOne, CommitIngest, SendOcr, history
<1>2. CASE \E force \in BOOLEAN : OpenIngest(i, force)
    <2>1. request[i] = Awaited /\ request'[i] \in Ingests BY <1>2, OpenIngestMoves
    <2>2. QED BY <1>1, <2>1, OneKind
<1>3. CASE IngestRuns(i)
    <2>1. /\ request[i] \in Ingests \cup Sendings
          /\ request'[i] \in Ingests \cup Sendings \cup {Over}
        BY <1>3, IngestOneMoves, CommitIngestMoves, SendOcrMoves DEF IngestRuns
    <2>2. QED BY <1>1, <2>1, OneKind
<1>4. QED BY <1>1, <1>2, <1>3, PushSteps, OneKind

\* A row that refers to a submission after a step did so before, unless the step adds it.
LEMMA RowsOfStay ==
    ASSUME Typed, NEW i \in Ids, Step(i), NEW s \in Subs
    PROVE  RowsOf(s)' \subseteq RowsOf(s) \/ Writes(i, s)
<1>1. grades[s] \subseteq Grades BY DEF Typed
<1>2. ASSUME NEW u \in Subs, NewGrade(i, u) \/ Correct(i, u)
      PROVE  RowsOf(s)' \subseteq RowsOf(s) \/ Writes(i, s)
    <2>1. CASE u = s
        <3>1. request[i] \notin Deletions /\ request'[i] \notin Deletions
            BY <1>2, PushSteps, OneKind
        <3>2. BatchMates(s) \subseteq disturbed'
            BY <1>2, <2>1 DEF NewGrade, Correct
        <3>3. QED BY <3>1, <3>2 DEF Writes
    <2>2. CASE u # s
        <3>1. grades'[s] = grades[s] /\ audits'[s] = audits[s]
            BY <1>2, <2>2 DEF NewGrade, Correct, Typed
        <3>2. QED BY <3>1 DEF RowsOf
    <2>3. QED BY <2>1, <2>2
<1>3. CASE CommitMarks(i)
    <2>1. grades' = grades \/ grades' = [u \in Subs |-> {MarkedRow(i, u, g) : g \in grades[u]}]
        BY <1>3 DEF CommitMarks
    <2>2. {g.id : g \in grades'[s]} \subseteq {g.id : g \in grades[s]}
        BY <1>1, <2>1, MarkedRows
    <2>3. CASE audits'[s] = audits[s]
        BY <2>2, <2>3 DEF RowsOf
    <2>4. CASE audits'[s] # audits[s]
        <3>1. s \in Audited(i) /\ disturbed' = disturbed \cup UNION {BatchMates(u) : u \in Audited(i)}
            BY <1>3, <2>4 DEF CommitMarks, Typed
        <3>2. BatchMates(s) \subseteq disturbed' BY <3>1
        <3>3. request[i] \notin Deletions /\ request'[i] \notin Deletions
            BY <1>3, PushSteps, OneKind DEF PushRuns
        <3>4. QED BY <3>2, <3>3 DEF Writes
    <2>5. QED BY <2>3, <2>4
<1>4. CASE CommitDelete(i)
    <2> DEFINE out == {t[1] : t \in Present(i)}
    <2> HIDE DEF out
    <2>1. /\ \/ grades' = grades
             \/ grades' = [u \in Subs |-> IF u \in out THEN {} ELSE grades[u]]
          /\ audits'[s] \subseteq audits[s]
        BY <1>4, CommitDeleteMoves DEF tables, out
    <2>2. QED BY <2>1 DEF RowsOf
<1>5. CASE grades' = grades /\ audits' = audits BY <1>5 DEF RowsOf
<1>6. QED
    BY <1>2, <1>3, <1>4, <1>5
    DEF Step, OpenPush, PushRuns, ReadGrade, Push, Return, PushFails, EndBulk, NewJob,
        OpenDelete, Unlink, OpenIngest, IngestRuns, IngestOne, CommitIngest, SendOcr,
        ProcessEnds, tables

\* Each step does to deletions what was said.
LEMMA StepDeletions ==
    ASSUME Typed, DeleteInv, NEW i \in Ids, Step(i)
    PROVE  DeletionFrame(i)
<1> DEFINE r == request[i]
<1> DEFINE rn == request'[i]
<1>1. SUFFICES /\ disturbed \subseteq disturbed'
               /\ rn \in Deletions => Undertakes(i) \/ Takes(i)
               /\ r \in Deletions => rn \in Deletions \/ Deleted(i)
    BY RowsOfStay DEF DeletionFrame
<1>2. ASSUME NEW batch \in SUBSET Subs \ {{}}, OpenDelete(i, batch)
      PROVE  disturbed \subseteq disturbed' /\ r \notin Deletions /\ Undertakes(i)
    <2>1. /\ r = Awaited /\ rn.batch = batch /\ rn.left = batch /\ rn.takes = {}
        BY <1>2, OpenDeleteMoves
    <2>2. /\ submission' = submission
          /\ disturbed' = IF \E s \in batch : submission[s].jobs # "none"
                          THEN disturbed \cup batch ELSE disturbed
        BY <1>2 DEF OpenDelete, tables
    <2>3. QED BY <2>1, <2>2, OneKind DEF Undertakes
<1>3. CASE Unlink(i)
    <2>1. r \in Deletions /\ disturbed' = disturbed
        BY <1>3, UnlinkMoves DEF Unlink
    <2>2. PICK s \in r.left :
            \/ /\ ~submission[s].there /\ UNCHANGED <<tables, outcome>>
               /\ rn \in Deletions /\ rn = [r EXCEPT !.left = @ \ {s}]
            \/ /\ submission[s].there /\ UNCHANGED <<grades, audits>>
               /\ submission' = [submission EXCEPT ![s].file = FALSE]
               /\ \/ /\ submission[s].jobs = "graded"
                     /\ outcome'[i] = "refused" /\ rn = Over
                  \/ /\ submission[s].jobs # "graded" /\ UNCHANGED outcome
                     /\ rn \in Deletions
                     /\ rn = [r EXCEPT !.left = @ \ {s}, !.takes = @ \cup
                             {<<s, submission[s].id, RowsOf(s)>>}]
        BY <1>3, UnlinkMoves
    <2> DEFINE t == <<s, submission[s].id, RowsOf(s)>>
    <2>3. CASE rn = [r EXCEPT !.left = @ \ {s}] /\ UNCHANGED tables /\ rn \in Deletions
        <3>1. rn.left = r.left \ {s} /\ rn.takes = r.takes /\ rn.batch = r.batch
            BY <2>1, <2>3 DEF Deletions
        <3>2. Takes(i) BY <2>1, <2>3, <3>1 DEF Takes, tables
        <3>3. QED BY <2>1, <2>3, <3>2
    <2>4. CASE submission[s].jobs = "graded" /\ rn = Over
        <3>1. s \in r.batch BY <2>1 DEF DeleteInv, TakesAreLeft
        <3>2. r.batch \subseteq disturbed
            BY <2>1, <2>4, <3>1 DEF DeleteInv, RefusalsDisturb
        <3>3. QED BY <2>1, <2>4, <3>2, OneKind DEF Deleted
    <2>5. CASE /\ rn \in Deletions /\ UNCHANGED <<grades, audits>>
               /\ rn = [r EXCEPT !.left = @ \ {s}, !.takes = @ \cup {t}]
        <3>1. /\ rn.left = r.left \ {s} /\ rn.takes = r.takes \cup {t}
              /\ rn.batch = r.batch
            BY <2>1, <2>5 DEF Deletions
        <3>2. \A u \in rn.takes \ r.takes : u = t BY <3>1
        <3>3. t[1] = s /\ t[2] = submission[s].id /\ RowsOf(s) \subseteq t[3]
            OBVIOUS
        <3> HIDE DEF t
        <3>4. Takes(i) BY <2>1, <2>5, <3>1, <3>2, <3>3 DEF Takes
        <3>5. QED BY <2>1, <2>5, <3>4
    <2>6. QED BY <2>2, <2>3, <2>4, <2>5
<1>4. CASE CommitDelete(i)
    <2>1. /\ r \in Deletions /\ rn = Over
          /\ \/ \E t \in Present(i) : Referred(t)
             \/ submission' = [s \in Subs |-> IF s \in {t[1] : t \in Present(i)}
                                              THEN NoSubmission ELSE submission[s]]
        BY <1>4, CommitDeleteMoves
    <2>2. disturbed' = disturbed BY <1>4 DEF CommitDelete
    <2>3. CASE \E t \in Present(i) : Referred(t)
        BY <2>1, <2>2, <2>3, OneKind DEF DeleteInv, RefusalsDisturb, Deleted
    <2>4. CASE submission' = [s \in Subs |-> IF s \in {t[1] : t \in Present(i)}
                                             THEN NoSubmission ELSE submission[s]]
        <3>1. \A t \in Present(i) : t[1] \in Subs
            BY <2>1 DEF Present, Deletions
        <3>2. \A t \in Present(i) : submission'[t[1]] = NoSubmission
            BY <2>4, <3>1
        <3>3. QED BY <2>1, <2>2, <3>2, OneKind DEF Deleted
    <2>5. QED BY <2>1, <2>3, <2>4
<1>5. CASE ProcessEnds(i)
    <2>1. rn = Over /\ outcome'[i] = "cut" /\ disturbed' = disturbed
        BY <1>5, MovesOnly DEF ProcessEnds
    <2>2. QED BY <2>1, OneKind DEF Deleted
<1>6. QED BY <1>2, <1>3, <1>4, <1>5, OtherDeletions DEF Step

\* Every row has its file at first, and nothing is under way.
LEMMA InitRows ==
    ASSUME Init
    PROVE  DeleteInv /\ IngestInv
<1>1. PICK c \in Courses : RequestsInit(c.expected) /\ submission = c.submission
    BY DEF Init
<1>2. \A s \in Subs : /\ submission[s].id = 0 /\ submission[s].upload = 0
                      /\ submission[s].there => submission[s].file
    BY <1>1, CoursesAssumption
<1>3. \A k \in Ids : /\ request[k] = Awaited /\ outcome[k] = "none"
                     /\ request[k] \notin Deletions \cup Ingests \cup Sendings
    BY <1>1, OneKind DEF RequestsInit, Init
<1>4. 0 \notin Ids BY DEF Ids
<1>5. RowsStored BY <1>2, <1>3, <1>4 DEF RowsStored, Stored
<1>6. DeleteInv
    BY <1>2, <1>3, <1>5 DEF DeleteInv, TakesAreLeft, RefusalsDisturb, FilesGoWithRows
<1>7. IngestInv
    BY <1>3 DEF IngestInv, TakesAreForced, SendingsOwe, IngestedIsSent
<1>8. QED BY <1>6, <1>7

\* What is known of deletions holds from step to step.
LEMMA NextKeepsDeletions == Typed /\ DeleteInv /\ [Next]_vars => DeleteInv'
<1>1. SUFFICES ASSUME Typed, DeleteInv, [Next]_vars PROVE DeleteInv'
    OBVIOUS
<1>2. Typed' BY <1>1, NextTyped
<1>3. CASE UNCHANGED vars
    BY <1>1, <1>3
    DEF vars, requests, tables, history, DeleteInv, RowsStored, Stored, TakesAreLeft,
        RefusalsDisturb, Present, Referred, RowsOf, FilesGoWithRows, Cuts
<1>4. CASE Next
    <2>1. PICK i \in Ids : Step(i) BY <1>4, NextIsStep
    <2>2. RowsFrame(i) /\ DeletionFrame(i) BY <1>1, <2>1, StepRows, StepDeletions
    <2>3. QED BY <1>1, <1>2, <2>2, DeletionFrameKeeps
<1>5. QED BY <1>1, <1>3, <1>4

\* A submission keeps its file for as long as it keeps its row (submissions.py), however
\* deletions, ingests and grading meet, but for a process that ends in between and for
\* what refuses the batch: a job, or a grade or an audit entry made after the deletion
\* passed.
THEOREM DeletionsAreWhole == Spec => []DeleteIsWhole
<1>1. Init => Typed /\ DeleteInv BY InitTyped, InitRows
<1>2. Typed /\ DeleteInv /\ [Next]_vars => (Typed /\ DeleteInv)'
    BY NextTyped, NextKeepsDeletions
<1>3. Typed /\ DeleteInv => DeleteIsWhole
    <2>1. SUFFICES ASSUME Typed, DeleteInv, Cuts = {}, NEW s \in Subs \ disturbed,
                          submission[s].there, ~submission[s].file
                   PROVE  \E i \in Of({"delete"}) : s \in request[i].batch
        BY DEF DeleteIsWhole
    <2>2. PICK i \in Ids : /\ request[i] \in Deletions
                           /\ \E t \in request[i].takes : t[1] = s
        BY <2>1 DEF DeleteInv, FilesGoWithRows
    <2>3. s \in request[i].batch BY <2>1, <2>2 DEF DeleteInv, TakesAreLeft
    <2>4. i \in Of({"delete"}) BY <2>2 DEF Of, Runs, Deletions
    <2>5. QED BY <2>3, <2>4
<1>4. QED BY <1>1, <1>2, <1>3, PTL DEF Spec

----------------------------------------------------------------------------
(* An ingest is idempotent, and sends what it stores *)

\* A row is replaced by an ingest that is forced, and that is stored at this step.
LEMMA StoresForced ==
    ASSUME Typed, IngestInv, NEW i \in Ids, NEW s \in Subs, Stores(i, s), submission[s].there
    PROVE  request[i].force
<1>1. PICK t \in request[i].takes : t[1] = s BY DEF Stores
<1>2. IF t[2] THEN Same(t) ELSE ~submission[t[1]].there
    BY <1>1 DEF Stores, Storable
<1>3. QED BY <1>1, <1>2 DEF IngestInv, TakesAreForced, Stores

\* Requests that take, or that send, are those of an ingest's own steps.
LEMMA IngestSteps ==
    ASSUME Typed, NEW i \in Ids, Step(i)
    PROVE  /\ request'[i] \in Ingests => request'[i].takes = {} \/ IngestOne(i)
           /\ request'[i] \in Sendings => CommitIngest(i) \/ SendOcr(i)
           /\ request[i] \in Sendings /\ outcome'[i] = "recorded" =>
                  SendOcr(i) /\ request[i].left = {}
           /\ sent \subseteq sent'
<1> DEFINE r == request[i]
<1> DEFINE rn == request'[i]
<1> DEFINE Others ==
        \/ \E kind \in Pushes, batch \in SUBSET Subs \ {{}} : OpenPush(i, kind, batch)
        \/ PushRuns(i)
        \/ \E s \in Subs : NewGrade(i, s) \/ Correct(i, s) \/ NewJob(i, s)
<1>1. sent \subseteq sent'
    BY DEF Step, OpenPush, PushRuns, ReadGrade, Push, Return, PushFails, CommitMarks, EndBulk,
           NewGrade, Correct, NewJob, OpenDelete, Unlink, CommitDelete, OpenIngest, IngestRuns,
           IngestOne, CommitIngest, SendOcr, ProcessEnds
<1>2. CASE Others
    <2>1. r \in {Awaited} \cup Batches \cup Items /\ rn \in {Over} \cup Batches \cup Items
        BY <1>2, PushSteps
    <2>2. QED BY <1>1, <2>1, OneKind
<1>3. CASE \E batch \in SUBSET Subs \ {{}} : OpenDelete(i, batch)
    <2>1. r = Awaited /\ rn \in Deletions BY <1>3, OpenDeleteMoves
    <2>2. QED BY <1>1, <2>1, OneKind
<1>4. CASE Unlink(i) \/ CommitDelete(i)
    <2>1. r \in Deletions /\ rn \in Deletions \cup {Over}
        BY <1>4, UnlinkMoves, CommitDeleteMoves
    <2>2. QED BY <1>1, <2>1, OneKind
<1>5. CASE \E force \in BOOLEAN : OpenIngest(i, force)
    <2>1. r = Awaited /\ rn \in Ingests /\ rn.takes = {} BY <1>5, OpenIngestMoves
    <2>2. QED BY <1>1, <2>1, OneKind
<1>6. CASE IngestRuns(i)
    <2>1. CASE IngestOne(i) \/ CommitIngest(i)
        <3>1. r \in Ingests BY <2>1, IngestOneMoves, CommitIngestMoves
        <3>2. IngestOne(i) => rn \in Ingests BY IngestOneMoves
        <3>3. CommitIngest(i) => rn \in Sendings \cup {Over} BY CommitIngestMoves
        <3>4. QED BY <1>1, <2>1, <3>1, <3>2, <3>3, OneKind
    <2>2. CASE SendOcr(i)
        <3>1. /\ r \in Sendings /\ rn \in Sendings \cup {Over}
              /\ outcome'[i] = "recorded" => outcome'[i] # outcome[i] \/ r = Over
            BY <2>2, SendOcrMoves DEF Typed
        <3>2. outcome'[i] = "recorded" => r.left = {}
            BY <2>2, <3>1, SendOcrMoves, OneKind
        <3>3. QED BY <1>1, <2>2, <3>1, <3>2, OneKind
    <2>3. QED BY <1>6, <2>1, <2>2 DEF IngestRuns
<1>7. CASE ProcessEnds(i)
    <2>1. rn = Over /\ outcome'[i] = "cut" BY <1>7, MovesOnly DEF ProcessEnds
    <2>2. QED BY <1>1, <2>1, OneKind
<1>8. QED BY <1>2, <1>3, <1>4, <1>5, <1>6, <1>7 DEF Step

\* What was said of ingests is kept by every step.
LEMMA StepIngests ==
    ASSUME Typed, Typed', RowsStored, IngestInv, NEW i \in Ids, Step(i)
    PROVE  IngestInv'
<1> DEFINE r == request[i]
<1> DEFINE rn == request'[i]
<1>1. RowsFrame(i) BY StepRows
<1>2. /\ \A k \in Ids : k # i => request'[k] = request[k] /\ outcome'[k] = outcome[k]
      /\ r # Over /\ sent \subseteq sent'
    BY <1>1, IngestSteps DEF RowsFrame, OnlyMoves
<1>3. TakesAreForced'
    <2>1. SUFFICES ASSUME NEW k \in Ids, request'[k] \in Ingests,
                          NEW t \in request'[k].takes, t[2]
                   PROVE  request'[k].force
        BY DEF TakesAreForced
    <2>2. CASE k # i BY <1>2, <2>1, <2>2 DEF IngestInv, TakesAreForced
    <2>3. CASE k = i /\ IngestOne(i)
        <3>1. PICK s \in Subs :
                  \/ rn.takes = r.takes
                  \/ /\ submission[s].there => r.force
                     /\ rn.takes = r.takes \cup {Loaded(s)}
            BY <2>3, IngestOneMoves
        <3>2. r \in Ingests /\ rn.force = r.force BY <2>3, IngestOneMoves
        <3>3. CASE t \in r.takes
            BY <2>1, <2>3, <3>2, <3>3 DEF IngestInv, TakesAreForced
        <3>4. CASE t \notin r.takes
            <4>1. t \in rn.takes BY <2>1, <2>3
            <4>2. /\ submission[s].there => r.force
                  /\ t = Loaded(s)
                BY <3>1, <3>4, <4>1
            <4>3. t[2] = submission[s].there BY <4>2 DEF Loaded
            <4>4. r.force BY <2>1, <4>2, <4>3
            <4>5. QED BY <2>3, <3>2, <4>4
        <3>5. QED BY <3>3, <3>4
    <2>4. QED BY <2>1, <2>2, <2>3, IngestSteps
<1>4. \* a row that is due for OCR by then was so, or is stored at this step
      ASSUME NEW s \in Subs, submission'[s].there, submission'[s].pending
      PROVE  \/ /\ submission[s].there /\ submission[s].pending
                /\ submission'[s].upload = submission[s].upload
             \/ Stores(i, s) /\ submission'[s].upload = i /\ ~coding
    <2>1. ~Removed(i, s) BY <1>4 DEF Removed, NoSubmission
    <2>2. CASE Stores(i, s)
        <3>1. submission'[s] = Ingested(i, s) BY <2>2 DEF Stores
        <3>2. submission'[s].upload = i /\ (submission'[s].pending => ~coding)
            BY <3>1, IngestedRow
        <3>3. ~coding BY <1>4, <3>2
        <3>4. QED BY <2>2, <3>2, <3>3
    <2>3. CASE ~Stores(i, s) BY <1>1, <1>4, <2>1, <2>3 DEF RowsFrame, RowFollows
    <2>4. QED BY <2>2, <2>3
<1>5. \* no row is of an ingest that has not stored
      ASSUME NEW s \in Subs, submission[s].upload = i
      PROVE  r \in Sendings
    BY <1>2, <1>5 DEF RowsStored, Stored
<1>6. SendingsOwe'
    <2>1. SUFFICES ASSUME NEW k \in Ids, NEW s \in Subs, request'[k] \in Sendings,
                          submission'[s].there, submission'[s].pending,
                          submission'[s].upload = k
                   PROVE  s \in request'[k].left \/ <<s, k>> \in sent'
        BY DEF SendingsOwe
    <2>2. CASE k # i
        BY <1>2, <1>4, <2>1, <2>2 DEF IngestInv, SendingsOwe
    <2>3. CASE k = i /\ Stores(i, s)
        <3>1. ~coding
            <4>1. submission'[s] = Ingested(i, s) BY <2>3 DEF Stores
            <4>2. submission'[s].pending => ~coding BY <4>1, IngestedRow
            <4>3. QED BY <2>1, <4>2
        <3>2. rn.left = OcrDue(i) /\ \E t \in r.takes : t[1] = s BY <2>3 DEF Stores
        <3>3. QED BY <2>3, <3>1, <3>2 DEF OcrDue
    <2>4. CASE k = i /\ ~Stores(i, s)
        <3>1. submission[s].there /\ submission[s].pending /\ submission[s].upload = i
            BY <1>4, <2>1, <2>4
        <3>2. r \in Sendings BY <1>5, <3>1
        <3>3. s \in r.left \/ <<s, i>> \in sent
            BY <3>1, <3>2 DEF IngestInv, SendingsOwe
        <3>4. SendOcr(i) /\ rn \in Sendings
            <4>1. ~CommitIngest(i) BY <3>2, CommitIngestMoves, OneKind
            <4>2. QED BY <2>1, <2>4, <4>1, IngestSteps
        <3>5. PICK u \in r.left : rn.left = r.left \ {u} /\ sent' = sent \cup {<<u, i>>}
            BY <3>4, SendOcrMoves, OneKind
        <3>6. QED BY <2>4, <3>3, <3>5
    <2>5. QED BY <2>2, <2>3, <2>4
<1>7. IngestedIsSent'
    <2>1. SUFFICES ASSUME NEW s \in Subs, NEW k \in Ids,
                          submission'[s].there, submission'[s].pending,
                          submission'[s].upload = k, outcome'[k] = "recorded"
                   PROVE  <<s, k>> \in sent'
        BY DEF IngestedIsSent
    <2>2. CASE k # i
        BY <1>2, <1>4, <2>1, <2>2 DEF IngestInv, IngestedIsSent
    <2>3. CASE k = i
        <3>1. ~Stores(i, s)
            <4>1. rn = Over BY <2>1, <2>3 DEF Typed
            <4>2. QED BY <4>1, OneKind DEF Stores
        <3>2. submission[s].there /\ submission[s].pending /\ submission[s].upload = i
            BY <1>4, <2>1, <2>3, <3>1
        <3>3. r \in Sendings BY <1>5, <3>2
        <3>4. r.left = {} BY <2>1, <2>3, <3>3, IngestSteps
        <3>5. QED BY <1>2, <2>3, <3>2, <3>3, <3>4 DEF IngestInv, SendingsOwe
    <2>4. QED BY <2>2, <2>3
<1>8. QED BY <1>3, <1>6, <1>7 DEF IngestInv

\* What is known of ingests, and of deletions, is an invariant of the specification.
LEMMA RowsInvariant == Spec => [](Typed /\ DeleteInv /\ IngestInv)
<1>1. Init => Typed /\ DeleteInv /\ IngestInv BY InitTyped, InitRows
<1>2. ASSUME Typed, DeleteInv, IngestInv, [Next]_vars
      PROVE  (Typed /\ DeleteInv /\ IngestInv)'
    <2>1. Typed' /\ DeleteInv' BY <1>2, NextTyped, NextKeepsDeletions
    <2>2. CASE UNCHANGED vars
        <3>1. IngestInv'
            BY <1>2, <2>2
            DEF vars, requests, tables, history, IngestInv, TakesAreForced, SendingsOwe,
                IngestedIsSent
        <3>2. QED BY <2>1, <3>1
    <2>3. CASE Next
        <3>1. PICK i \in Ids : Step(i) BY <2>3, NextIsStep
        <3>2. IngestInv' BY <1>2, <2>1, <3>1, StepIngests DEF DeleteInv
        <3>3. QED BY <2>1, <3>2
    <2>4. QED BY <1>2, <2>2, <2>3
<1>3. QED BY <1>1, <1>2, PTL DEF Spec

\* What an ingest has stored is sent to OCR, a row it stored again as well, however many
\* ingests, deletions and gradings meet (classroom.py), but for one that ends half-way.
THEOREM IngestedRowsAreSent == Spec => []IngestedIsSent
<1>1. IngestInv => IngestedIsSent BY DEF IngestInv
<1>2. QED BY <1>1, RowsInvariant, PTL

\* Only an ingest that is forced replaces what is there, even when two have looked before
\* either stores (classroom_sync.py).
THEOREM IngestsAreIdempotent == Spec => IngestIsIdempotent
<1>1. ASSUME Typed, IngestInv, [Next]_vars
      PROVE  [\A s \in Subs :
                (submission[s].there /\ submission'[s].there
                   /\ submission'[s].upload # submission[s].upload)
                  => \E i \in Of({"ingest"}) :
                         request[i].force /\ request'[i] # request[i]]_vars
    <2>1. SUFFICES ASSUME Next, NEW s \in Subs, submission[s].there, submission'[s].there,
                          submission'[s].upload # submission[s].upload
                   PROVE  \E i \in Of({"ingest"}) :
                              request[i].force /\ request'[i] # request[i]
        BY <1>1
    <2>2. PICK i \in Ids : Step(i) BY <2>1, NextIsStep
    <2>3. Stores(i, s)
        <3>1. RowFollows(i, s) BY <1>1, <2>2, StepRows DEF RowsFrame
        <3>2. ~Removed(i, s) BY <2>1 DEF Removed, NoSubmission
        <3>3. QED BY <2>1, <3>1, <3>2 DEF RowFollows
    <2>4. request[i].force BY <1>1, <2>1, <2>3, StoresForced
    <2>5. i \in Of({"ingest"}) BY <2>3 DEF Stores, Of, Runs, Ingests
    <2>6. request'[i] # request[i] BY <2>3, OneKind DEF Stores
    <2>7. QED BY <2>4, <2>5, <2>6
<1>2. QED BY <1>1, RowsInvariant, PTL DEF Spec, IngestIsIdempotent
=============================================================================
