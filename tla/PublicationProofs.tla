------------------------- MODULE PublicationProofs -------------------------
(***************************************************************************)
(* What Publication promises for any number of versions, worker processes, *)
(* requests and faults.  A handler writes what it computed from a row it   *)
(* loaded earlier, so the invariant says how the copy a request, a task or *)
(* an approver holds stands to the row by now: equal to it where only one  *)
(* build is under way, the same but for a status where nobody rewrites     *)
(* what is being reviewed, and otherwise nothing.                          *)
(***************************************************************************)
EXTENDS Publication, TLAPS

\* The requests there are, by what they hold.
BuildRequests ==
    [step : {"open", "committed"}, kind : {"build"}, on : Versions, force : BOOLEAN,
     row : VersionRows(resolves)]
Rewrites == [step : {"open"}, kind : {"rewrite"}, on : Artifacts, row : ArtifactRows]
Looks ==
    [step : {"looked"}, kind : {"approve"}, on : Artifacts, made : 0 .. MaxRequests,
     seen : Contents]
Approvals ==
    [step : {"open"}, kind : {"approve"}, on : Artifacts, made : 0 .. MaxRequests,
     seen : Contents, row : ArtifactRows]
Rejections == [step : {"open"}, kind : {"reject"}, on : {"tests"}, row : ArtifactRows]
Publishes ==
    [step : {"open"}, kind : {"publish"}, on : Versions \cup {NoVersion},
     row : AssignmentRows]
JobRecords ==
    [by : Ids, version : Versions, key : {NoKey} \cup UNION {resolves[v] : v \in Versions},
     counts : BOOLEAN, tests : Contents, builds : Nat]
Dispatches == [step : {"open"}, kind : {"job"}, on : Versions, job : JobRecords]

RequestRecords ==
    {Awaited, Over} \cup BuildRequests \cup Rewrites \cup Looks \cup Approvals
    \cup Rejections \cup Publishes \cup Dispatches

Messages == [id : Ids, version : Versions, force : BOOLEAN]
BuilderRecords ==
    {FreeBuilder}
    \cup [step : {"loaded", "begun", "resolving", "unacknowledged"}, message : Messages,
          row : VersionRows(resolves)]

\* The types, with the records of requests and worker processes spelled out.
BuildsTyped ==
    /\ env \in [Versions -> VersionRows(resolves)]
    /\ \A v \in Versions : NoKey \notin resolves[v]
    /\ queue \subseteq Messages
    /\ builder \in [Builders -> BuilderRecords]
    /\ faults \in 0 .. MaxFaults
    /\ builds \in [Versions -> Nat]
    /\ overlapped \subseteq Versions /\ lost \subseteq Versions

ReviewsTyped ==
    /\ artifact \in [Artifacts -> ArtifactRows]
    /\ reviewed \in [Artifacts -> SUBSET Contents]
    /\ contested \subseteq Artifacts

Typed ==
    /\ BuildsTyped /\ ReviewsTyped
    /\ request \in [Ids -> RequestRecords]
    /\ assignment \in AssignmentRows
    /\ jobs \subseteq JobRecords

----------------------------------------------------------------------------
(* Builds *)

\* What will bring about a build of v: a request, a message or a task; only one of them.
OneBuild ==
    \A v \in Versions \ overlapped :
        /\ \A i, j \in InFlight({"build"}, v) : i = j
        /\ \A m, n \in queue : m.version = v /\ n.version = v => m = n
        /\ \A b, c \in Busy(v) : b = c
        /\ InFlight({"build"}, v) # {} => Busy(v) = {} /\ \A m \in queue : m.version # v
        /\ Busy(v) # {} => \A m \in queue : m.version # v

\* The row an open build request loaded is the row there is.
RequestIsCurrent ==
    \A i \in Ids :
        InStep(i, "build", "open") /\ request[i].on \notin overlapped =>
            request[i].row = env[request[i].on]

\* The row a task loaded is the row there is, and its version is building once it began.
TaskIsCurrent ==
    \A b \in Builders :
        builder[b].step # "free" /\ builder[b].message.version \notin overlapped =>
            /\ builder[b].step \in {"loaded", "resolving"} =>
                   builder[b].row = env[builder[b].message.version]
            /\ builder[b].step \in {"begun", "resolving"} =>
                   env[builder[b].message.version].status = "building"

\* The jobs made, and those about to be.
Bound == jobs \cup {request[i].job : i \in {k \in Ids : InStep(k, "job", "open")}}

\* A job was bound to the version's freeze, of which JobIsFrozen speaks once it is made.
BoundIsFrozen ==
    \A j \in Bound :
        /\ j.builds <= builds[j.version]
        /\ j.version \notin overlapped /\ builds[j.version] = j.builds =>
               /\ env[j.version] = [status |-> "ready", key |-> j.key]
               /\ j.builds > 0 => j.key # NoKey

BuildInv == OneBuild /\ RequestIsCurrent /\ TaskIsCurrent /\ ReadyHasKey /\ BoundIsFrozen

----------------------------------------------------------------------------
(* Reviews *)

\* The artifact a request is about still has the row that was loaded.
SameRow(a, made) == artifact[a].status # "absent" /\ artifact[a].made = made
SameRowAfter(a, made) == artifact'[a].status # "absent" /\ artifact'[a].made = made

\* The request that made a row has arrived, so no row to come has the same maker.
MakersArrived ==
    /\ \A a \in Artifacts : artifact[a].made # 0 => request[artifact[a].made] # Awaited
    /\ \A i \in Ids :
           /\ request[i] \in Looks \cup Approvals /\ request[i].made # 0 =>
                  request[request[i].made] # Awaited
           /\ request[i] \in Rewrites \cup Approvals \cup Rejections
                 /\ request[i].row.made # 0 =>
                  request[request[i].row.made] # Awaited

\* An artifact that is not contested is not reviewed and rewritten at once.
NoMeeting ==
    \A a \in Artifacts \ contested :
        InFlight({"approve"}, a) = {} \/ InFlight({"rewrite"}, a) = {}

\* What an approver saw is what the row has.
SeenIsCurrent ==
    \A i \in Ids :
        /\ request[i] \in Looks \cup Approvals
        /\ request[i].on \notin contested
        /\ SameRow(request[i].on, request[i].made)
        => artifact[request[i].on].content = request[i].seen

\* There are tests, and what approve reads in them passes the gate.
SoundTests == artifact["tests"].status # "absent" /\ artifact["tests"].content.sound

\* The row of an open approval is the row looked at; tests are sound from then on.
ApprovalChecked ==
    \A i \in Ids :
        request[i] \in Approvals =>
            /\ request[i].row.made = request[i].made
            /\ request[i].on = "tests" => SoundTests

\* A rewrite that loaded `pending' does not meet an approval it would not undo.
RewriteUndoes ==
    \A i \in Ids :
        /\ request[i] \in Rewrites
        /\ request[i].on \notin contested
        /\ SameRow(request[i].on, request[i].row.made)
        /\ request[i].row.status = "pending"
        => artifact[request[i].on].status # "approved"

\* The tests of jobs made and about to be made, of which JobTestsWereReviewed speaks.
BoundTestsReviewed ==
    \A j \in Bound :
        j.counts =>
            /\ j.tests.given # "none" /\ j.tests.sound
            /\ "tests" \notin contested => j.tests \in reviewed["tests"]

\* What is known of the requests in flight, of the artifacts, and of the jobs.
InFlightInv == MakersArrived /\ NoMeeting /\ SeenIsCurrent /\ ApprovalChecked /\ RewriteUndoes
ApprovedInv == ApprovedWasReviewed /\ ApprovedIsCovered
ReviewInv == InFlightInv /\ ApprovedInv /\ BoundTestsReviewed

----------------------------------------------------------------------------
(* Rows and requests *)

\* A commit to a version: the attributes that were changed, over those that are there.
LEMMA VersionFlushed ==
    ASSUME NEW keys, NEW loaded \in VersionRows(keys), NEW value \in VersionRows(keys),
           NEW current \in VersionRows(keys)
    PROVE  /\ Flushed(loaded, value, current) \in VersionRows(keys)
           /\ Flushed(loaded, value, loaded) = value
BY DEF Flushed, VersionRows

\* Likewise to an artifact; what the request did not change is as it is by now.
LEMMA ArtifactFlushed ==
    ASSUME NEW loaded \in ArtifactRows, NEW value \in ArtifactRows,
           NEW current \in ArtifactRows
    PROVE  LET new == Flushed(loaded, value, current) IN
           /\ new \in ArtifactRows
           /\ new.status = IF value.status = loaded.status THEN current.status
                                                           ELSE value.status
           /\ new.made = IF value.made = loaded.made THEN current.made ELSE value.made
           /\ new.content = IF value.content = loaded.content THEN current.content
                                                              ELSE value.content
BY DEF Flushed, ArtifactRows

\* Likewise to the assignment.
LEMMA AssignmentFlushed ==
    ASSUME NEW loaded \in AssignmentRows, NEW value \in AssignmentRows,
           NEW current \in AssignmentRows
    PROVE  Flushed(loaded, value, current) \in AssignmentRows
BY DEF Flushed, AssignmentRows

\* A request's step and kind say what it holds.
LEMMA RequestOf ==
    ASSUME NEW r \in RequestRecords
    PROVE  /\ r.step = "open" /\ r.kind = "build" => r \in BuildRequests
           /\ r.step = "committed" => r \in BuildRequests
           /\ r.step = "open" /\ r.kind = "rewrite" => r \in Rewrites
           /\ r.step = "looked" => r \in Looks
           /\ r.step = "open" /\ r.kind = "approve" => r \in Approvals
           /\ r.step = "open" /\ r.kind = "reject" => r \in Rejections
           /\ r.step = "open" /\ r.kind = "publish" => r \in Publishes
           /\ r.step = "open" /\ r.kind = "job" => r \in Dispatches
           /\ r.step \in {"awaited", "looked", "open", "committed", "over"}
BY DEF RequestRecords, Awaited, Over, BuildRequests, Rewrites, Looks, Approvals,
       Rejections, Publishes, Dispatches

\* And the other way round.
LEMMA KindOf ==
    ASSUME NEW r \in RequestRecords
    PROVE  /\ r \in BuildRequests => r.step \in {"open", "committed"} /\ r.kind = "build"
           /\ r \in Rewrites => r.step = "open" /\ r.kind = "rewrite"
           /\ r \in Looks => r.step = "looked" /\ r.kind = "approve"
           /\ r \in Approvals => r.step = "open" /\ r.kind = "approve"
           /\ r \in Rejections => r.step = "open" /\ r.kind = "reject"
           /\ r \in Publishes => r.step = "open" /\ r.kind = "publish"
           /\ r \in Dispatches => r.step = "open" /\ r.kind = "job"
BY DEF BuildRequests, Rewrites, Looks, Approvals, Rejections, Publishes, Dispatches

----------------------------------------------------------------------------
(* Types *)

\* The three parts are the type invariant of the run.
LEMMA TypedIsTypeOK == Typed => PublicationTypeOK
<1>1. SUFFICES ASSUME Typed PROVE PublicationTypeOK
    OBVIOUS
<1>2. \A i \in Ids : request[i].step \in {"awaited", "looked", "open", "committed", "over"}
    BY <1>1, RequestOf DEF Typed
<1>3. \A b \in Builders :
        builder[b].step \in {"free", "loaded", "begun", "resolving", "unacknowledged"}
    BY <1>1 DEF Typed, BuildsTyped, BuilderRecords, FreeBuilder
<1>4. \A j \in jobs : j.version \in Versions /\ j.tests \in Contents
    BY <1>1 DEF Typed, JobRecords
<1>5. QED
    BY <1>1, <1>2, <1>3, <1>4
    DEF Typed, BuildsTyped, ReviewsTyped, PublicationTypeOK, Messages

\* Rows, requests and tasks have their types before the first request.
LEMMA InitTyped == Init => Typed
<1>1. SUFFICES ASSUME NEW s \in Stages,
                      RequestsInit(s.expected), EnvInit(s.env, s.resolves),
                      ReviewsInit(s.artifact), assignment = s.assignment, jobs = {}
               PROVE  Typed
    BY DEF Init
<1>2. BuildsTyped
    BY <1>1, StagesAssumption, BuildsAssumption DEF EnvInit, BuildsTyped, BuilderRecords
<1>3. ReviewsTyped
    BY <1>1, StagesAssumption DEF ReviewsInit, ReviewsTyped, ArtifactRows
<1>4. request \in [Ids -> RequestRecords]
    BY <1>1 DEF RequestsInit, RequestRecords
<1>5. QED
    BY <1>1, <1>2, <1>3, <1>4, StagesAssumption DEF Typed

\* What depends on the keys a specification can resolve to stays with them.
LEMMA SameResolves ==
    ASSUME resolves' = resolves
    PROVE  /\ RequestRecords' = RequestRecords /\ BuilderRecords' = BuilderRecords
           /\ JobRecords' = JobRecords /\ BuildRequests' = BuildRequests
           /\ Dispatches' = Dispatches
<1>1. /\ JobRecords' = JobRecords /\ BuildRequests' = BuildRequests
      /\ BuilderRecords' = BuilderRecords
    BY DEF JobRecords, BuildRequests, BuilderRecords
<1>2. Dispatches' = Dispatches BY <1>1 DEF Dispatches
<1>3. RequestRecords' = RequestRecords BY <1>1, <1>2 DEF RequestRecords
<1>4. QED BY <1>1, <1>2, <1>3

\* One request moves, the others stay.
LEMMA OneMoves ==
    ASSUME Typed, NEW i \in Ids, NEW r, Moves(i, r)
    PROVE  /\ request' = [request EXCEPT ![i] = r]
           /\ request'[i] = r
           /\ \A k \in Ids : k # i => request'[k] = request[k]
           /\ r \in RequestRecords => request' \in [Ids -> RequestRecords]
BY DEF Moves, Typed

\* One worker process moves, the others stay.
LEMMA OneBuilderMoves ==
    ASSUME BuildsTyped, resolves' = resolves,
           NEW b \in Builders, NEW s \in BuilderRecords, BuilderTo(b, s)
    PROVE  /\ builder'[b] = s
           /\ \A c \in Builders : c # b => builder'[c] = builder[c]
           /\ (builder \in [Builders -> BuilderRecords])'
BY SameResolves DEF BuildsTyped, BuilderTo

\* What a build marks, and how it ends, is a row of a version.
LEMMA MarkedTyped ==
    ASSUME NEW keys, NEW row \in VersionRows(keys), NEW force \in BOOLEAN
    PROVE  Marked(row, force) \in VersionRows(keys)
BY DEF Marked, VersionRows

\* A build request keeps the types of the building half.
LEMMA BuildRequestTyped ==
    ASSUME Typed, NEW i \in Ids, BuildRequestStep(i)
    PROVE  BuildsTyped' /\ request' \in [Ids -> RequestRecords]
<1> DEFINE r == request[i]
<1>1. BuildsTyped /\ request \in [Ids -> RequestRecords] /\ r \in RequestRecords
    BY DEF Typed
<1>2. ASSUME NEW v \in Versions, NEW force \in BOOLEAN, OpenBuild(i, v, force)
      PROVE  BuildsTyped' /\ request' \in [Ids -> RequestRecords]
    <2> DEFINE new == [step |-> "open", kind |-> "build", on |-> v, force |-> force,
                       row |-> env[v]]
    <2>1. new \in RequestRecords BY <1>1 DEF BuildsTyped, RequestRecords, BuildRequests
    <2>2. request' \in [Ids -> RequestRecords] BY <1>2, <2>1, OneMoves DEF OpenBuild
    <2>3. BuildsTyped' BY <1>1, <1>2 DEF BuildsTyped, OpenBuild, BuilderRecords
    <2>4. QED BY <2>2, <2>3
<1>3. CASE CommitBuild(i)
    <2>1. r \in BuildRequests BY <1>1, <1>3, RequestOf DEF CommitBuild, InStep
    <2>2. /\ r.on \in Versions /\ r.force \in BOOLEAN /\ r.row \in VersionRows(resolves)
          /\ [r EXCEPT !.step = "committed"] \in RequestRecords
        BY <2>1 DEF BuildRequests, RequestRecords
    <2>3. request' \in [Ids -> RequestRecords] BY <1>3, <2>2, OneMoves DEF CommitBuild
    <2>4. Flushed(r.row, Marked(r.row, r.force), env[r.on]) \in VersionRows(resolves)
        BY <1>1, <2>2, MarkedTyped, VersionFlushed DEF BuildsTyped
    <2>5. BuildsTyped'
        BY <1>1, <1>3, <2>2, <2>4 DEF BuildsTyped, CommitBuild, BuilderRecords
    <2>6. QED BY <2>3, <2>5
<1>4. CASE SendBuild(i) \/ SendFails(i)
    <2>1. r \in BuildRequests BY <1>1, <1>4, RequestOf DEF SendBuild, SendFails, InStep
    <2>2. r.on \in Versions /\ r.force \in BOOLEAN BY <2>1 DEF BuildRequests
    <2>3. request' \in [Ids -> RequestRecords]
        BY <1>4, OneMoves DEF SendBuild, SendFails, RequestRecords
    <2>4. BuildsTyped'
        BY <1>1, <1>4, <2>2, BuildsAssumption
        DEF BuildsTyped, SendBuild, SendFails, Fault, BuilderRecords, Messages
    <2>5. QED BY <2>3, <2>4
<1>5. QED BY <1>2, <1>3, <1>4 DEF BuildRequestStep

\* A step of a build task does too, and no request is touched by it.
LEMMA BuilderTyped ==
    ASSUME Typed, NEW b \in Builders, BuilderStep(b)
    PROVE  BuildsTyped' /\ request' = request
<1> DEFINE B == builder[b]
<1> DEFINE v == B.message.version
<1>1. BuildsTyped /\ B \in BuilderRecords /\ request' = request
    BY DEF Typed, BuildsTyped, BuilderStep, requests
<1>2. B.step # "free" => /\ B \in BuilderRecords \ {FreeBuilder}
                         /\ B.message \in Messages /\ v \in Versions
                         /\ B.row \in VersionRows(resolves)
    BY <1>1 DEF BuilderRecords, FreeBuilder, Messages
<1>3. CASE TakeBuild(b)
    <2>1. PICK m \in queue : /\ queue' = queue \ {m}
                             /\ BuilderTo(b, [step |-> "loaded", message |-> m,
                                              row |-> env[m.version]])
        BY <1>3 DEF TakeBuild
    <2>2. [step |-> "loaded", message |-> m, row |-> env[m.version]] \in BuilderRecords
        BY <1>1 DEF BuildsTyped, Messages, BuilderRecords
    <2>3. QED
        BY <1>1, <1>3, <2>1, <2>2, OneBuilderMoves DEF BuildsTyped, TakeBuild
<1>4. CASE BeginBuild(b)
    <2>1. Flushed(B.row, Marked(B.row, B.message.force), env[v]) \in VersionRows(resolves)
        BY <1>1, <1>2, <1>4, MarkedTyped, VersionFlushed
        DEF BeginBuild, BuildsTyped, Messages
    <2>2. [B EXCEPT !.step = "begun"] \in BuilderRecords
        BY <1>2, <1>4 DEF BeginBuild, BuilderRecords
    <2>3. QED
        BY <1>1, <1>2, <1>4, <2>1, <2>2, OneBuilderMoves DEF BuildsTyped, BeginBuild
<1>5. CASE ReloadRow(b)
    <2>1. [B EXCEPT !.step = "resolving", !.row = env[v]] \in BuilderRecords
        BY <1>1, <1>2, <1>5 DEF ReloadRow, BuildsTyped, BuilderRecords
    <2>2. QED BY <1>1, <1>5, <2>1, OneBuilderMoves DEF BuildsTyped, ReloadRow
<1>6. [B EXCEPT !.step = "unacknowledged"] \in BuilderRecords \/ B.step = "free"
    BY <1>2 DEF BuilderRecords
<1>7. CASE FinishBuild(b)
    <2>1. PICK k \in resolves[v] :
              env' = [env EXCEPT ![v] = Flushed(B.row, [status |-> "ready", key |-> k], @)]
        BY <1>7 DEF FinishBuild
    <2>2. [status |-> "ready", key |-> k] \in VersionRows(resolves)
        BY <1>2, <1>7 DEF FinishBuild, VersionRows
    <2>3. Flushed(B.row, [status |-> "ready", key |-> k], env[v]) \in VersionRows(resolves)
        BY <1>1, <1>2, <1>7, <2>2, VersionFlushed DEF FinishBuild, BuildsTyped
    <2>4. QED
        BY <1>1, <1>2, <1>6, <1>7, <2>1, <2>3, OneBuilderMoves
        DEF BuildsTyped, FinishBuild
<1>8. CASE FailBuild(b)
    <2>1. [env[v] EXCEPT !.status = "failed"] \in VersionRows(resolves)
        BY <1>1, <1>2, <1>8 DEF FailBuild, Running, BuildsTyped, VersionRows
    <2>2. env' = [env EXCEPT ![v] = [env[v] EXCEPT !.status = "failed"]]
        BY <1>8 DEF FailBuild
    <2>3. builds' \in [Versions -> Nat]
        BY <1>1, <1>2, <1>8 DEF FailBuild, Running, BuildsTyped
    <2>4. QED
        BY <1>1, <1>2, <1>6, <1>8, <2>1, <2>2, <2>3, OneBuilderMoves
        DEF BuildsTyped, FailBuild, Running
<1>9. CASE FailureUnsaved(b) \/ BuilderDown(b) \/ Acknowledge(b)
    <2>1. FreeBuilder \in BuilderRecords BY DEF BuilderRecords
    <2>2. (builder \in [Builders -> BuilderRecords])'
        BY <1>1, <1>6, <1>9, <2>1, OneBuilderMoves
        DEF FailureUnsaved, Running, BuilderDown, Acknowledge
    <2>3. QED
        BY <1>1, <1>2, <1>9, <2>2, BuildsAssumption
        DEF BuildsTyped, FailureUnsaved, Running, BuilderDown, Acknowledge, Fault
<1>10. QED
    BY <1>3, <1>4, <1>5, <1>7, <1>8, <1>9 DEF BuilderStep, BuilderRuns

\* A save that meets its row writes a row of the table, and only there.
LEMMA SavedRows ==
    ASSUME ReviewsTyped, NEW a \in Artifacts, NEW loaded \in ArtifactRows,
           NEW value \in ArtifactRows
    PROVE  /\ Saved(a, loaded, value) \in [Artifacts -> ArtifactRows]
           /\ \A c \in Artifacts : c # a => Saved(a, loaded, value)[c] = artifact[c]
           /\ Saved(a, loaded, value)[a] = IF SameRow(a, loaded.made)
                                           THEN Flushed(loaded, value, artifact[a])
                                           ELSE artifact[a]
BY ArtifactFlushed DEF ReviewsTyped, Saved, SameRow

\* What the commits of a review change in the row that was loaded.
LEMMA ChangedRows ==
    ASSUME NEW row \in ArtifactRows, NEW c \in Contents
    PROVE  /\ [row EXCEPT !.status = "approved"] \in ArtifactRows
           /\ [row EXCEPT !.status = "rejected"] \in ArtifactRows
           /\ [row EXCEPT !.status = "pending", !.content = c] \in ArtifactRows
BY DEF ArtifactRows

\* The artifacts have a row each of which NoContent, and new content, may be part.
LEMMA ContentsOfRows ==
    /\ NoContent \in Contents /\ Absent \in ArtifactRows
    /\ \A row \in ArtifactRows : row.content \in Contents /\ row.made \in 0 .. MaxRequests
    /\ \A i \in Ids, a \in Artifacts : NewContents(i, a) \subseteq Contents
    /\ "tests" \in Artifacts /\ Rubrics \subseteq Artifacts /\ "uploaded" \in Rubrics
    /\ "tests" \notin Rubrics
<1>1. NoContent \in Contents
    BY RequestsAssumption DEF NoContent, Contents
<1>2. Absent \in ArtifactRows
    BY <1>1, RequestsAssumption DEF Absent, ArtifactRows
<1>3. \A i \in Ids, a \in Artifacts : NewContents(i, a) \subseteq Contents
    BY DEF NewContents
<1>4. QED
    BY <1>1, <1>2, <1>3 DEF ArtifactRows, Artifacts, Rubrics

\* A review request keeps the types of artifacts and requests.
LEMMA ReviewTyped ==
    ASSUME Typed, NEW i \in Ids, ReviewStep(i)
    PROVE  ReviewsTyped' /\ request' \in [Ids -> RequestRecords]
<1> DEFINE r == request[i]
<1>1. ReviewsTyped /\ r \in RequestRecords /\ Over \in RequestRecords
    BY DEF Typed, RequestRecords
<1>2. \A a \in Artifacts : artifact[a] \in ArtifactRows BY <1>1 DEF ReviewsTyped
<1>3. ASSUME NEW a \in Artifacts, OpenRewrite(i, a) \/ Look(i, a)
      PROVE  ReviewsTyped' /\ request' \in [Ids -> RequestRecords]
    <2>1. [step |-> "open", kind |-> "rewrite", on |-> a, row |-> artifact[a]]
              \in RequestRecords
        BY <1>2 DEF RequestRecords, Rewrites
    <2>2. [step |-> "looked", kind |-> "approve", on |-> a, made |-> artifact[a].made,
           seen |-> artifact[a].content] \in RequestRecords
        BY <1>2, ContentsOfRows DEF RequestRecords, Looks
    <2>3. request' \in [Ids -> RequestRecords]
        BY <1>3, <2>1, <2>2, OneMoves DEF OpenRewrite, Look
    <2>4. ReviewsTyped' BY <1>1, <1>3 DEF ReviewsTyped, OpenRewrite, Look, Meets
    <2>5. QED BY <2>3, <2>4
<1>4. ASSUME NEW a \in Artifacts, DeleteRubric(i, a)
      PROVE  ReviewsTyped' /\ request' \in [Ids -> RequestRecords]
    <2>1. ReviewsTyped'
        BY <1>1, <1>4, ContentsOfRows DEF ReviewsTyped, DeleteRubric
    <2>2. QED BY <1>1, <1>4, <2>1, OneMoves DEF DeleteRubric
<1>5. CASE CommitRewrite(i)
    <2>1. r \in Rewrites BY <1>1, <1>5, RequestOf DEF CommitRewrite, InStep
    <2>2. r.on \in Artifacts /\ r.row \in ArtifactRows BY <2>1 DEF Rewrites
    <2>3. PICK c \in NewContents(i, r.on) :
              artifact' = Saved(r.on, r.row, [r.row EXCEPT !.status = "pending",
                                                           !.content = c])
        BY <1>5 DEF CommitRewrite
    <2>4. c \in Contents BY <2>2, ContentsOfRows
    <2>5. artifact' \in [Artifacts -> ArtifactRows]
        BY <1>1, <2>2, <2>3, <2>4, SavedRows, ChangedRows
    <2>6. QED
        BY <1>1, <1>5, <2>5, OneMoves DEF CommitRewrite, ReviewsTyped
<1>6. CASE GenerationFails(i)
    BY <1>1, <1>6, OneMoves DEF GenerationFails, ReviewsTyped, reviews
<1>7. CASE UploadRubric(i)
    <2>1. PICK counts \in BOOLEAN :
              LET c == [by |-> i, sound |-> TRUE, counts |-> counts, given |-> "checked"] IN
              /\ artifact' = [artifact EXCEPT !["uploaded"] =
                                 [status |-> "approved", made |-> i, content |-> c]]
              /\ reviewed' = [reviewed EXCEPT !["uploaded"] = @ \cup {c}]
        BY <1>7 DEF UploadRubric
    <2> DEFINE c == [by |-> i, sound |-> TRUE, counts |-> counts, given |-> "checked"]
    <2>2. c \in Contents BY DEF Contents, Ids
    <2>3. [status |-> "approved", made |-> i, content |-> c] \in ArtifactRows
        BY <2>2 DEF ArtifactRows, Ids
    <2>4. artifact' \in [Artifacts -> ArtifactRows]
        BY <1>1, <2>1, <2>3 DEF ReviewsTyped
    <2>5. reviewed' \in [Artifacts -> SUBSET Contents]
        BY <1>1, <2>1, <2>2 DEF ReviewsTyped
    <2>6. QED
        BY <1>1, <1>7, <2>4, <2>5, OneMoves DEF UploadRubric, ReviewsTyped
<1>13. CASE PostRecord(i)
    <2>1. PICK c \in Contents :
              artifact' = [artifact EXCEPT !["tests"] =
                              [status |-> "pending", made |-> i, content |-> c]]
        BY <1>13 DEF PostRecord
    <2>2. [status |-> "pending", made |-> i, content |-> c] \in ArtifactRows
        BY RequestsAssumption DEF ArtifactRows, Ids
    <2>3. artifact' \in [Artifacts -> ArtifactRows]
        BY <1>1, <2>1, <2>2 DEF ReviewsTyped
    <2>4. QED BY <1>1, <1>13, <2>3, OneMoves DEF PostRecord, ReviewsTyped
<1>8. CASE OpenApprove(i)
    <2>1. r \in Looks BY <1>1, <1>8, RequestOf DEF OpenApprove, InStep
    <2>2. [step |-> "open", kind |-> "approve", on |-> r.on, made |-> r.made,
           seen |-> r.seen, row |-> artifact[r.on]] \in RequestRecords
        BY <1>2, <2>1 DEF Looks, Approvals, RequestRecords
    <2>3. QED
        BY <1>1, <1>8, <2>2, OneMoves DEF OpenApprove, ReviewsTyped, reviews
<1>9. CASE CommitApprove(i)
    <2>1. r \in Approvals BY <1>1, <1>9, RequestOf DEF CommitApprove, InStep
    <2>2. r.on \in Artifacts /\ r.row \in ArtifactRows /\ r.seen \in Contents
        BY <2>1 DEF Approvals
    <2>3. artifact' \in [Artifacts -> ArtifactRows]
        BY <1>1, <1>9, <2>2, SavedRows, ChangedRows DEF CommitApprove
    <2>4. reviewed' \in [Artifacts -> SUBSET Contents]
        BY <1>1, <1>9, <2>2 DEF CommitApprove, ReviewsTyped
    <2>5. QED
        BY <1>1, <1>9, <2>3, <2>4, OneMoves DEF CommitApprove, ReviewsTyped
<1>10. CASE OpenReject(i)
    <2>1. [step |-> "open", kind |-> "reject", on |-> "tests", row |-> artifact["tests"]]
              \in RequestRecords
        BY <1>2, ContentsOfRows DEF Rejections, RequestRecords
    <2>2. QED BY <1>1, <1>10, <2>1, OneMoves DEF OpenReject, ReviewsTyped, reviews
<1>11. CASE CommitReject(i)
    <2>1. r \in Rejections BY <1>1, <1>11, RequestOf DEF CommitReject, InStep
    <2>2. r.on \in Artifacts /\ r.row \in ArtifactRows
        BY <2>1, ContentsOfRows DEF Rejections
    <2>3. artifact' \in [Artifacts -> ArtifactRows]
        BY <1>1, <1>11, <2>2, SavedRows, ChangedRows, ContentsOfRows DEF CommitReject
    <2>4. QED
        BY <1>1, <1>11, <2>3, OneMoves DEF CommitReject, ReviewsTyped
<1>12. QED
    BY <1>3, <1>4, <1>5, <1>6, <1>7, <1>8, <1>9, <1>10, <1>11, <1>13 DEF ReviewStep

\* What both ways to make a job bind it to, read in one transaction.
LEMMA JobOpened ==
    ASSUME Typed, NEW i \in Ids, OpenDispatch(i) \/ \E v \in Versions : OpenCreate(i, v)
    PROVE  \E job \in JobRecords :
               /\ Moves(i, [step |-> "open", kind |-> "job", on |-> job.version, job |-> job])
               /\ UNCHANGED <<building, reviews, assignment, jobs>>
               /\ env[job.version].status = "ready" /\ job.key = env[job.version].key
               /\ job.builds = builds[job.version]
               /\ job.counts => /\ ApprovedTests /\ job.tests = artifact["tests"].content
                                /\ job.tests.given # "none"
<1>1. /\ env \in [Versions -> VersionRows(resolves)] /\ builds \in [Versions -> Nat]
      /\ artifact \in [Artifacts -> ArtifactRows]
    BY DEF Typed, BuildsTyped, ReviewsTyped
<1>2. ASSUME NEW v \in Versions, NEW counts \in BOOLEAN, NEW tests \in Contents,
             Ready(v), Opens(i, Job(i, v, counts, tests)),
             counts => /\ ApprovedTests /\ tests = artifact["tests"].content
                       /\ tests.given # "none"
      PROVE  \E job \in JobRecords :
                 /\ Moves(i, [step |-> "open", kind |-> "job", on |-> job.version,
                              job |-> job])
                 /\ UNCHANGED <<building, reviews, assignment, jobs>>
                 /\ env[job.version].status = "ready" /\ job.key = env[job.version].key
                 /\ job.builds = builds[job.version]
                 /\ job.counts => /\ ApprovedTests
                                  /\ job.tests = artifact["tests"].content
                                  /\ job.tests.given # "none"
    <2> DEFINE job == Job(i, v, counts, tests)
    <2>1. env[v].key \in {NoKey} \cup UNION {resolves[u] : u \in Versions}
        BY <1>1 DEF VersionRows
    <2>2. job \in JobRecords BY <1>1, <2>1 DEF Job, JobRecords
    <2>3. /\ job.version = v /\ job.key = env[v].key /\ job.builds = builds[v]
          /\ job.counts = counts /\ job.tests = tests
        BY DEF Job
    <2>4. QED BY <1>2, <2>2, <2>3 DEF Opens, Ready
<1>3. CASE OpenDispatch(i)
    <2>1. PICK a \in ApprovedRubrics :
              /\ artifact[a].content.counts =>
                     ApprovedTests /\ artifact["tests"].content.given # "none"
              /\ Opens(i, Job(i, assignment.version, artifact[a].content.counts,
                              IF artifact[a].content.counts THEN artifact["tests"].content
                                                            ELSE NoContent))
        BY <1>3 DEF OpenDispatch
    <2>2. artifact[a].content \in Contents /\ artifact["tests"].content \in Contents
        BY <1>1, ContentsOfRows DEF ApprovedRubrics
    <2>3. artifact[a].content.counts \in BOOLEAN BY <2>2 DEF Contents
    <2>4. Ready(assignment.version) /\ assignment.version \in Versions
        BY <1>3 DEF OpenDispatch, Ready, Typed, AssignmentRows
    <2>5. QED BY <1>2, <2>1, <2>2, <2>3, <2>4, ContentsOfRows
<1>4. ASSUME NEW v \in Versions, OpenCreate(i, v)
      PROVE  Ready(v) /\ Opens(i, Job(i, v, FALSE, NoContent))
    BY <1>4 DEF OpenCreate
<1>5. QED BY <1>2, <1>3, <1>4, ContentsOfRows

\* The steps that only read versions and artifacts.
ReadsOnly(i) ==
    \/ \E v \in Versions \cup {NoVersion}, force \in BOOLEAN : OpenPublish(i, v, force)
    \/ CommitPublish(i) \/ CommitJob(i)
    \/ OpenDispatch(i) \/ \E v \in Versions : OpenCreate(i, v)

\* The requests that only read versions and artifacts keep the types of the rest.
LEMMA PublicationTyped ==
    ASSUME Typed, NEW i \in Ids, ReadsOnly(i)
    PROVE  /\ UNCHANGED <<building, reviews>>
           /\ request' \in [Ids -> RequestRecords]
           /\ assignment' \in AssignmentRows /\ jobs' \subseteq JobRecords
<1> DEFINE r == request[i]
<1>1. /\ r \in RequestRecords /\ Over \in RequestRecords
      /\ assignment \in AssignmentRows /\ jobs \subseteq JobRecords
    BY DEF Typed, RequestRecords
<1>2. ASSUME NEW v \in Versions \cup {NoVersion}, NEW force \in BOOLEAN,
             OpenPublish(i, v, force)
      PROVE  /\ UNCHANGED <<building, reviews, assignment, jobs>>
             /\ request' \in [Ids -> RequestRecords]
    <2>1. Resolved(v) \in Versions \cup {NoVersion} BY <1>1 DEF Resolved, AssignmentRows
    <2>2. [step |-> "open", kind |-> "publish", on |-> Resolved(v), row |-> assignment]
              \in RequestRecords
        BY <1>1, <2>1 DEF Publishes, RequestRecords
    <2>3. QED BY <1>2, <2>2, OneMoves DEF OpenPublish
<1>3. CASE CommitPublish(i)
    <2>1. r \in Publishes BY <1>1, <1>3, RequestOf DEF CommitPublish, InStep
    <2>2. /\ r.row \in AssignmentRows
          /\ [published |-> TRUE, version |-> r.on] \in AssignmentRows
        BY <2>1 DEF Publishes, AssignmentRows
    <2>3. assignment' \in AssignmentRows
        BY <1>1, <1>3, <2>2, AssignmentFlushed DEF CommitPublish
    <2>4. QED BY <1>1, <1>3, <2>3, OneMoves DEF CommitPublish
<1>4. CASE CommitJob(i)
    <2>1. r \in Dispatches BY <1>1, <1>4, RequestOf DEF CommitJob, InStep
    <2>2. r.job \in JobRecords BY <2>1 DEF Dispatches
    <2>3. QED BY <1>1, <1>4, <2>2, OneMoves DEF CommitJob
<1>5. ASSUME OpenDispatch(i) \/ \E v \in Versions : OpenCreate(i, v)
      PROVE  /\ UNCHANGED <<building, reviews, assignment, jobs>>
             /\ request' \in [Ids -> RequestRecords]
    <2>1. PICK job \in JobRecords :
              /\ Moves(i, [step |-> "open", kind |-> "job", on |-> job.version, job |-> job])
              /\ UNCHANGED <<building, reviews, assignment, jobs>>
        BY <1>5, JobOpened
    <2>2. [step |-> "open", kind |-> "job", on |-> job.version, job |-> job]
              \in RequestRecords
        BY DEF Dispatches, RequestRecords, JobRecords
    <2>3. QED BY <2>1, <2>2, OneMoves
<1>6. QED BY <1>1, <1>2, <1>3, <1>4, <1>5 DEF ReadsOnly

\* The four sorts of steps.
LEMMA NextSorts ==
    ASSUME Next
    PROVE  \/ \E i \in Ids : BuildRequestStep(i) /\ UNCHANGED <<reviews, assignment, jobs>>
           \/ \E i \in Ids : ReviewStep(i) /\ UNCHANGED <<building, assignment, jobs>>
           \/ \E i \in Ids : ReadsOnly(i)
           \/ \E b \in Builders : BuilderStep(b) /\ UNCHANGED <<reviews, assignment, jobs>>
BY DEF Next, ReadsOnly

\* What a specification resolves to never changes.
LEMMA ResolvesStay == Next => resolves' = resolves
<1>1. ASSUME NEW i \in Ids, ReadsOnly(i) PROVE resolves' = resolves
    BY <1>1 DEF ReadsOnly, OpenPublish, CommitPublish, CommitJob, OpenDispatch, OpenCreate,
       Opens, building
<1>2. ASSUME NEW i \in Ids, BuildRequestStep(i) PROVE resolves' = resolves
    BY <1>2 DEF BuildRequestStep, OpenBuild, CommitBuild, SendBuild, SendFails
<1>3. ASSUME NEW b \in Builders, BuilderStep(b) PROVE resolves' = resolves
    BY <1>3 DEF BuilderStep, TakeBuild, BuilderRuns, BeginBuild, ReloadRow, FinishBuild,
       FailBuild, Acknowledge, FailureUnsaved, BuilderDown
<1>4. QED
    BY <1>1, <1>2, <1>3, NextSorts DEF building

\* Every step keeps the types.
LEMMA NextTyped == Typed /\ Next => Typed'
<1>1. SUFFICES ASSUME Typed, Next PROVE Typed'
    OBVIOUS
<1>2. /\ BuildsTyped /\ ReviewsTyped /\ assignment \in AssignmentRows
      /\ jobs \subseteq JobRecords
    BY <1>1 DEF Typed
<1>3. resolves' = resolves /\ RequestRecords' = RequestRecords /\ JobRecords' = JobRecords
      /\ BuilderRecords' = BuilderRecords
    BY <1>1, ResolvesStay, SameResolves
<1>4. UNCHANGED building => BuildsTyped'
    BY <1>2, <1>3 DEF building, BuildsTyped
<1>5. UNCHANGED reviews => ReviewsTyped'
    BY <1>2 DEF reviews, ReviewsTyped
<1>6. /\ BuildsTyped' /\ ReviewsTyped' /\ request' \in [Ids -> RequestRecords]
      /\ assignment' \in AssignmentRows /\ jobs' \subseteq JobRecords
    <2>1. CASE \E i \in Ids : BuildRequestStep(i) /\ UNCHANGED <<reviews, assignment, jobs>>
        BY <1>1, <1>2, <1>5, <2>1, BuildRequestTyped
    <2>2. CASE \E i \in Ids : ReviewStep(i) /\ UNCHANGED <<building, assignment, jobs>>
        BY <1>1, <1>2, <1>4, <2>2, ReviewTyped
    <2>3. CASE \E i \in Ids : ReadsOnly(i)
        BY <1>1, <1>4, <1>5, <2>3, PublicationTyped
    <2>4. CASE \E b \in Builders : BuilderStep(b) /\ UNCHANGED <<reviews, assignment, jobs>>
        BY <1>1, <1>2, <1>5, <2>4, BuilderTyped DEF Typed
    <2>5. QED BY <1>1, <2>1, <2>2, <2>3, <2>4, NextSorts
<1>7. QED
    BY <1>3, <1>6 DEF Typed

\* So does a step in which nothing changes.
LEMMA VarsTyped == Typed /\ UNCHANGED vars => Typed'
BY DEF vars, building, reviews, requests, Typed, BuildsTyped, ReviewsTyped,
       RequestRecords, BuilderRecords, JobRecords, BuildRequests, Dispatches

\* Rows, requests, messages and tasks keep their types (EnvironmentBuilds, Reviews).
THEOREM TypesHold == Spec => []PublicationTypeOK
<1>1. Typed /\ [Next]_vars => Typed'
    BY NextTyped, VarsTyped
<1>2. QED
    BY <1>1, InitTyped, TypedIsTypeOK, PTL DEF Spec

----------------------------------------------------------------------------
(* Builds: one at a time *)

\* Nobody but i has moved.
OnlyMoves(i) == \A k \in Ids \ {i} : request'[k] = request[k]

\* A record that is not the request of a build.
NoBuild(r) == r.step \in {"awaited", "over"} \/ r.kind # "build"

\* Of the requests in flight only the one that moves can join or leave.
LEMMA FlightMoves ==
    ASSUME NEW i \in Ids, OnlyMoves(i), NEW kinds, NEW target
    PROVE  /\ InFlight(kinds, target) \ {i} = InFlight(kinds, target)' \ {i}
           /\ i \in InFlight(kinds, target) <=>
                  /\ request[i].step \notin {"awaited", "over"}
                  /\ request[i].kind \in kinds /\ request[i].on = target
           /\ i \in InFlight(kinds, target)' <=>
                  /\ request'[i].step \notin {"awaited", "over"}
                  /\ request'[i].kind \in kinds /\ request'[i].on = target
BY DEF InFlight, OnlyMoves

\* Of the busy worker processes likewise.
LEMMA BusyMoves ==
    ASSUME NEW b \in Builders, \A c \in Builders : c # b => builder'[c] = builder[c], NEW v
    PROVE  /\ Busy(v) \ {b} = Busy(v)' \ {b}
           /\ b \in Busy(v) <=> builder[b].step # "free" /\ builder[b].message.version = v
           /\ b \in Busy(v)' <=> builder'[b].step # "free" /\ builder'[b].message.version = v
BY DEF Busy

\* Reviews, publishing and jobs are no builds.
LEMMA OthersDoNotBuild ==
    ASSUME Typed, NEW i \in Ids, ReviewStep(i) \/ ReadsOnly(i)
    PROVE  OnlyMoves(i) /\ NoBuild(request[i]) /\ NoBuild(request'[i])
<1>1. ASSUME NEW r, Moves(i, r), NoBuild(r), NoBuild(request[i])
      PROVE  OnlyMoves(i) /\ NoBuild(request[i]) /\ NoBuild(request'[i])
    BY <1>1, OneMoves DEF OnlyMoves
<1>2. NoBuild(Awaited) /\ NoBuild(Over)
    BY DEF NoBuild, Awaited, Over
<1>3. \A kind, step : kind # "build" /\ InStep(i, kind, step) => NoBuild(request[i])
    BY DEF InStep, NoBuild
<1>4. \A kind : Arrives(i, kind) => NoBuild(request[i])
    BY <1>2 DEF Arrives
<1>5. CASE ReviewStep(i)
    <2>1. CASE \/ CommitRewrite(i) \/ GenerationFails(i) \/ UploadRubric(i) \/ PostRecord(i)
               \/ CommitApprove(i) \/ CommitReject(i)
               \/ \E a \in Artifacts : DeleteRubric(i, a)
        BY <1>1, <1>2, <1>3, <1>4, <2>1
        DEF CommitRewrite, GenerationFails, UploadRubric, PostRecord, CommitApprove,
            CommitReject, DeleteRubric
    <2>2. ASSUME NEW a \in Artifacts, OpenRewrite(i, a) \/ Look(i, a)
          PROVE  OnlyMoves(i) /\ NoBuild(request[i]) /\ NoBuild(request'[i])
        <3>1. NoBuild([step |-> "open", kind |-> "rewrite", on |-> a, row |-> artifact[a]])
            BY DEF NoBuild
        <3>2. NoBuild([step |-> "looked", kind |-> "approve", on |-> a,
                       made |-> artifact[a].made, seen |-> artifact[a].content])
            BY DEF NoBuild
        <3>3. QED BY <1>1, <1>4, <2>2, <3>1, <3>2 DEF OpenRewrite, Look
    <2>3. CASE OpenApprove(i)
        <3> DEFINE r == request[i]
        <3>1. NoBuild([step |-> "open", kind |-> "approve", on |-> r.on, made |-> r.made,
                       seen |-> r.seen, row |-> artifact[r.on]])
            BY DEF NoBuild
        <3>2. QED BY <1>1, <1>2, <1>3, <2>3, <3>1 DEF OpenApprove
    <2>4. CASE OpenReject(i)
        <3>1. NoBuild([step |-> "open", kind |-> "reject", on |-> "tests",
                       row |-> artifact["tests"]])
            BY DEF NoBuild
        <3>2. QED BY <1>1, <1>4, <2>4, <3>1 DEF OpenReject
    <2>5. QED BY <1>5, <2>1, <2>2, <2>3, <2>4 DEF ReviewStep
<1>6. CASE ReadsOnly(i)
    <2>1. CASE CommitPublish(i) \/ CommitJob(i)
        BY <1>1, <1>2, <1>3, <2>1 DEF CommitPublish, CommitJob
    <2>2. ASSUME NEW v, NEW force, OpenPublish(i, v, force)
          PROVE  OnlyMoves(i) /\ NoBuild(request[i]) /\ NoBuild(request'[i])
        <3>1. NoBuild([step |-> "open", kind |-> "publish", on |-> Resolved(v),
                       row |-> assignment])
            BY DEF NoBuild
        <3>2. QED BY <1>1, <1>4, <2>2, <3>1 DEF OpenPublish
    <2>3. CASE OpenDispatch(i) \/ \E v \in Versions : OpenCreate(i, v)
        <3>1. PICK job : Moves(i, [step |-> "open", kind |-> "job", on |-> job.version,
                                   job |-> job])
            BY <2>3, JobOpened
        <3>2. NoBuild([step |-> "open", kind |-> "job", on |-> job.version, job |-> job])
            BY DEF NoBuild
        <3>3. QED BY <1>1, <1>4, <2>3, <3>1, <3>2 DEF OpenDispatch, OpenCreate
    <2>4. QED BY <1>6, <2>1, <2>2, <2>3 DEF ReadsOnly
<1>7. QED BY <1>5, <1>6

\* The jobs bound to versions, committed or not, are job records.
LEMMA BoundTyped == Typed => Bound \subseteq JobRecords
<1>1. SUFFICES ASSUME Typed, NEW i \in Ids, InStep(i, "job", "open")
               PROVE  request[i].job \in JobRecords
    BY DEF Bound, Typed
<1>2. request[i] \in Dispatches
    BY <1>1, RequestOf DEF Typed, InStep
<1>3. QED
    BY <1>2 DEF Dispatches

\* A job is bound by the step that opens its request, which writes nothing else.
LEMMA BoundStep ==
    ASSUME Typed, Next, NEW j \in Bound'
    PROVE  \/ j \in Bound
           \/ /\ UNCHANGED <<building, reviews>>
              /\ env[j.version].status = "ready" /\ j.key = env[j.version].key
              /\ j.builds = builds[j.version]
              /\ j.counts => /\ ApprovedTests /\ j.tests = artifact["tests"].content
                             /\ j.tests.given # "none"
<1>1. ASSUME NEW i \in Ids, OnlyMoves(i), jobs' \subseteq Bound,
             InStep(i, "job", "open")' => request'[i].job \in Bound
      PROVE  j \in Bound
    BY <1>1 DEF Bound, OnlyMoves, InStep
<1>2. CASE \E i \in Ids : BuildRequestStep(i) /\ UNCHANGED <<reviews, assignment, jobs>>
    <2>1. PICK i \in Ids : BuildRequestStep(i) /\ jobs' = jobs BY <1>2
    <2>2. \A r : Moves(i, r) => OnlyMoves(i) /\ request'[i] = r
        BY OneMoves DEF OnlyMoves
    <2>3. ~InStep(i, "job", "open")' /\ OnlyMoves(i)
        <3>1. CASE CommitBuild(i)
            <4>1. request[i] \in BuildRequests
                BY <3>1, RequestOf DEF CommitBuild, InStep, Typed
            <4>2. QED BY <2>2, <3>1, <4>1 DEF CommitBuild, InStep, BuildRequests
        <3>2. CASE SendBuild(i) \/ SendFails(i)
            BY <2>2, <3>2 DEF SendBuild, SendFails, InStep, Over
        <3>3. ASSUME NEW v, NEW force, OpenBuild(i, v, force)
              PROVE  ~InStep(i, "job", "open")' /\ OnlyMoves(i)
            BY <2>2, <3>3 DEF OpenBuild, InStep
        <3>4. QED BY <2>1, <3>1, <3>2, <3>3 DEF BuildRequestStep
    <2>4. QED BY <1>1, <2>1, <2>3 DEF Bound
<1>3. CASE \E i \in Ids : ReviewStep(i) /\ UNCHANGED <<building, assignment, jobs>>
    <2>1. PICK i \in Ids : ReviewStep(i) /\ jobs' = jobs BY <1>3
    <2>2. \A r : Moves(i, r) => OnlyMoves(i) /\ request'[i] = r
        BY OneMoves DEF OnlyMoves
    <2>3. ~InStep(i, "job", "open")' /\ OnlyMoves(i)
        <3>1. CASE Moves(i, Over)
            BY <2>2, <3>1 DEF InStep, Over
        <3>2. CASE OpenApprove(i)
            BY <2>2, <3>1, <3>2 DEF OpenApprove, InStep
        <3>3. CASE OpenReject(i)
            BY <2>2, <3>3 DEF OpenReject, InStep
        <3>4. ASSUME NEW a, OpenRewrite(i, a) \/ Look(i, a)
              PROVE  ~InStep(i, "job", "open")' /\ OnlyMoves(i)
            BY <2>2, <3>4 DEF OpenRewrite, Look, InStep
        <3>5. QED
            BY <2>1, <3>1, <3>2, <3>3, <3>4
            DEF ReviewStep, DeleteRubric, CommitRewrite, GenerationFails, UploadRubric,
                PostRecord, CommitApprove, CommitReject
    <2>4. QED BY <1>1, <2>1, <2>3 DEF Bound
<1>4. CASE \E b \in Builders : BuilderStep(b) /\ UNCHANGED <<reviews, assignment, jobs>>
    <2>1. request' = request /\ jobs' = jobs BY <1>4 DEF BuilderStep, requests
    <2>2. QED BY <2>1 DEF Bound, InStep
<1>5. CASE \E i \in Ids : ReadsOnly(i)
    <2>1. PICK i \in Ids : ReadsOnly(i) BY <1>5
    <2>2. \A r : Moves(i, r) => OnlyMoves(i) /\ request'[i] = r
        BY OneMoves DEF OnlyMoves
    <2>3. CASE CommitPublish(i) \/ \E v, force : OpenPublish(i, v, force)
        <3>1. jobs' = jobs /\ OnlyMoves(i) /\ ~InStep(i, "job", "open")'
            <4>1. CASE CommitPublish(i)
                BY <2>2, <4>1 DEF CommitPublish, InStep, Over
            <4>2. ASSUME NEW v, NEW force, OpenPublish(i, v, force)
                  PROVE  jobs' = jobs /\ OnlyMoves(i) /\ ~InStep(i, "job", "open")'
                BY <2>2, <4>2 DEF OpenPublish, InStep
            <4>3. QED BY <2>3, <4>1, <4>2
        <3>2. QED BY <1>1, <3>1 DEF Bound
    <2>4. CASE CommitJob(i)
        <3>1. jobs' = jobs \cup {request[i].job} /\ OnlyMoves(i)
              /\ ~InStep(i, "job", "open")' /\ InStep(i, "job", "open")
            BY <2>2, <2>4 DEF CommitJob, InStep, Over
        <3>2. QED BY <1>1, <3>1 DEF Bound
    <2>5. CASE OpenDispatch(i) \/ \E v \in Versions : OpenCreate(i, v)
        <3>1. PICK job \in JobRecords :
                  /\ Moves(i, [step |-> "open", kind |-> "job", on |-> job.version,
                               job |-> job])
                  /\ UNCHANGED <<building, reviews, assignment, jobs>>
                  /\ env[job.version].status = "ready" /\ job.key = env[job.version].key
                  /\ job.builds = builds[job.version]
                  /\ job.counts => /\ ApprovedTests
                                   /\ job.tests = artifact["tests"].content
                                   /\ job.tests.given # "none"
            BY <2>5, JobOpened
        <3>2. OnlyMoves(i) /\ request'[i].job = job BY <2>2, <3>1
        <3>3. j \in Bound \/ j = job
            BY <3>1, <3>2 DEF Bound, OnlyMoves, InStep
        <3>4. QED BY <3>1, <3>3
    <2>6. QED BY <2>1, <2>3, <2>4, <2>5 DEF ReadsOnly
<1>6. QED BY <1>2, <1>3, <1>4, <1>5, NextSorts

\* The step leaves a version as it is that is ready and was not asked to be built.
ReadyStays ==
    /\ overlapped \subseteq overlapped'
    /\ \A v \in Versions : builds[v] <= builds'[v]
    /\ \A v \in Versions \ overlapped' :
           builds'[v] = builds[v] /\ env[v].status = "ready" => env'[v] = env[v]

\* Bindings stay frozen where ready versions stay as they are.
LEMMA FrozenStep ==
    ASSUME Typed, Typed', Next, BuildInv, ReadyStays
    PROVE  BoundIsFrozen'
<1>1. SUFFICES ASSUME NEW j \in Bound'
               PROVE  /\ j.builds <= builds'[j.version]
                      /\ j.version \notin overlapped' /\ builds'[j.version] = j.builds =>
                             /\ env'[j.version] = [status |-> "ready", key |-> j.key]
                             /\ j.builds > 0 => j.key # NoKey
    BY DEF BoundIsFrozen
<1>2. j \in JobRecords
    <2>1. CASE j \in Bound BY <2>1, BoundTyped
    <2>2. CASE j \notin Bound
        <3>1. JobRecords' = JobRecords BY ResolvesStay, SameResolves
        <3>2. Typed' => (Bound \subseteq JobRecords)' BY BoundTyped, PTL
        <3>3. QED BY <3>1, <3>2
    <2>3. QED BY <2>1, <2>2
<1>3. /\ j.version \in Versions /\ j.builds \in Nat
      /\ builds[j.version] \in Nat /\ builds'[j.version] \in Nat
      /\ env[j.version] \in VersionRows(resolves)
    BY <1>2 DEF JobRecords, Typed, BuildsTyped
<1>4. CASE j \in Bound
    <2>1. /\ j.builds <= builds[j.version]
          /\ j.version \notin overlapped /\ builds[j.version] = j.builds =>
                 /\ env[j.version] = [status |-> "ready", key |-> j.key]
                 /\ j.builds > 0 => j.key # NoKey
        BY <1>4 DEF BuildInv, BoundIsFrozen
    <2>2. builds[j.version] <= builds'[j.version] BY <1>3 DEF ReadyStays
    <2>3. ASSUME j.version \notin overlapped', builds'[j.version] = j.builds
          PROVE  /\ env'[j.version] = [status |-> "ready", key |-> j.key]
                 /\ j.builds > 0 => j.key # NoKey
        <3>1. builds[j.version] = j.builds BY <1>3, <2>1, <2>2, <2>3
        <3>2. /\ env[j.version] = [status |-> "ready", key |-> j.key]
              /\ j.builds > 0 => j.key # NoKey
            BY <2>1, <2>3, <3>1 DEF ReadyStays
        <3>3. env'[j.version] = env[j.version]
            BY <1>3, <2>3, <3>1, <3>2 DEF ReadyStays
        <3>4. QED BY <3>2, <3>3
    <2>4. QED BY <1>3, <2>1, <2>2, <2>3
<1>5. CASE j \notin Bound
    <2>1. /\ UNCHANGED building
          /\ env[j.version].status = "ready" /\ j.key = env[j.version].key
          /\ j.builds = builds[j.version]
        BY <1>5, BoundStep
    <2>2. env[j.version] = [status |-> "ready", key |-> j.key]
        BY <1>3, <2>1 DEF VersionRows
    <2>3. j.version \notin overlapped /\ j.builds > 0 => j.key # NoKey
        BY <1>3, <2>1 DEF BuildInv, ReadyHasKey
    <2>4. QED BY <1>3, <2>1, <2>2, <2>3 DEF building
<1>6. QED BY <1>4, <1>5

\* Steps that write no version, message or task keep what is known of builds.
LEMMA OthersKeepBuilds ==
    ASSUME Typed, Typed', Next, BuildInv, UNCHANGED building,
           NEW i \in Ids, ReviewStep(i) \/ ReadsOnly(i)
    PROVE  BuildInv'
<1>1. OnlyMoves(i) /\ NoBuild(request[i]) /\ NoBuild(request'[i])
    BY OthersDoNotBuild
<1>2. /\ env' = env /\ queue' = queue /\ builder' = builder /\ builds' = builds
      /\ overlapped' = overlapped
    BY DEF building
<1>3. \A v : InFlight({"build"}, v)' = InFlight({"build"}, v)
    BY <1>1 DEF InFlight, OnlyMoves, NoBuild
<1>4. \A v : Busy(v)' = Busy(v)
    BY <1>2 DEF Busy
<1>5. OneBuild'
    BY <1>2, <1>3, <1>4 DEF BuildInv, OneBuild
<1>6. RequestIsCurrent'
    BY <1>1, <1>2 DEF BuildInv, RequestIsCurrent, InStep, OnlyMoves, NoBuild
<1>7. TaskIsCurrent' /\ ReadyHasKey'
    BY <1>2 DEF BuildInv, TaskIsCurrent, ReadyHasKey
<1>8. BoundIsFrozen'
    <2>1. ReadyStays BY <1>2 DEF ReadyStays, Typed, BuildsTyped
    <2>2. QED BY <2>1, FrozenStep
<1>9. QED BY <1>5, <1>6, <1>7, <1>8 DEF BuildInv

\* Of a version not overlapped, a request in flight is the only thing under way.
LEMMA RequestIsAlone ==
    ASSUME Typed, OneBuild, NEW i \in Ids, request[i] \in BuildRequests,
           request[i].on \notin overlapped
    PROVE  /\ InFlight({"build"}, request[i].on) = {i}
           /\ Busy(request[i].on) = {} /\ \A m \in queue : m.version # request[i].on
<1>1. request[i].on \in Versions /\ i \in InFlight({"build"}, request[i].on)
    BY DEF BuildRequests, InFlight
<1>2. QED BY <1>1 DEF OneBuild

\* A build request starts a second build of a version only as an overlap.
LEMMA BuildRequestKeepsOne ==
    ASSUME Typed, BuildInv, NEW i \in Ids, BuildRequestStep(i)
    PROVE  OneBuild'
<1> DEFINE r == request[i]
<1>1. SUFFICES ASSUME NEW v \in Versions, v \notin overlapped'
               PROVE  /\ \A j, k \in InFlight({"build"}, v)' : j = k
                      /\ \A m, n \in queue' : m.version = v /\ n.version = v => m = n
                      /\ \A b, c \in Busy(v)' : b = c
                      /\ InFlight({"build"}, v)' # {} =>
                             Busy(v)' = {} /\ \A m \in queue' : m.version # v
                      /\ Busy(v)' # {} => \A m \in queue' : m.version # v
    BY DEF OneBuild
<1>2. /\ builder' = builder /\ Busy(v)' = Busy(v) /\ v \notin overlapped
    BY <1>1
    DEF BuildRequestStep, OpenBuild, CommitBuild, SendBuild, SendFails, Busy
<1>3. /\ \A j, k \in InFlight({"build"}, v) : j = k
      /\ \A m, n \in queue : m.version = v /\ n.version = v => m = n
      /\ \A b, c \in Busy(v) : b = c
      /\ InFlight({"build"}, v) # {} => Busy(v) = {} /\ \A m \in queue : m.version # v
      /\ Busy(v) # {} => \A m \in queue : m.version # v
    BY <1>2 DEF BuildInv, OneBuild
<1>4. \A s : Moves(i, s) => OnlyMoves(i) /\ request'[i] = s
    BY OneMoves DEF OnlyMoves
<1>5. ASSUME NEW u \in Versions, NEW force \in BOOLEAN, OpenBuild(i, u, force)
      PROVE  /\ \A j, k \in InFlight({"build"}, v)' : j = k
             /\ queue' = queue
             /\ InFlight({"build"}, v)' # {} =>
                    Busy(v)' = {} /\ \A m \in queue' : m.version # v
    <2>1. OnlyMoves(i) /\ request'[i].on = u /\ queue' = queue
        BY <1>4, <1>5 DEF OpenBuild
    <2>2. CASE u = v
        <3>1. ~UnderWay(v) BY <1>1, <1>5, <2>2 DEF OpenBuild
        <3>2. InFlight({"build"}, v)' \subseteq {i} BY <2>1, <3>1, FlightMoves DEF UnderWay
        <3>3. QED BY <1>2, <2>1, <3>1, <3>2 DEF UnderWay
    <2>3. CASE u # v
        <3>1. InFlight({"build"}, v)' \subseteq InFlight({"build"}, v)
            BY <2>1, <2>3, FlightMoves
        <3>2. QED BY <1>2, <1>3, <2>1, <3>1
    <2>4. QED BY <2>2, <2>3
<1>6. CASE CommitBuild(i)
    <2>1. r \in BuildRequests BY <1>6, RequestOf DEF CommitBuild, InStep, Typed
    <2>2. /\ OnlyMoves(i) /\ request'[i] = [r EXCEPT !.step = "committed"]
          /\ queue' = queue
        BY <1>4, <1>6 DEF CommitBuild
    <2>3. request'[i].on = r.on /\ request'[i].kind = "build" /\ r.kind = "build"
          /\ r.step = "open"
        BY <1>6, <2>1, <2>2 DEF BuildRequests, CommitBuild, InStep
    <2>4. InFlight({"build"}, v)' \subseteq InFlight({"build"}, v)
        <3>1. i \in InFlight({"build"}, v)' => i \in InFlight({"build"}, v)
            BY <2>3 DEF InFlight
        <3>2. QED BY <2>2, <3>1, FlightMoves
    <2>5. QED BY <1>2, <1>3, <2>2, <2>4
<1>7. CASE SendBuild(i) \/ SendFails(i)
    <2>1. r \in BuildRequests
        BY <1>7, RequestOf DEF SendBuild, SendFails, InStep, Typed
    <2>2. OnlyMoves(i) /\ request'[i] = Over
        BY <1>4, <1>7 DEF SendBuild, SendFails
    <2>3. InFlight({"build"}, v)' = InFlight({"build"}, v) \ {i}
        BY <2>2, FlightMoves DEF Over
    <2>4. CASE queue' = queue
        BY <1>2, <1>3, <2>3, <2>4
    <2>5. CASE queue' = queue \cup {[id |-> i, version |-> r.on, force |-> r.force]}
        <3>1. CASE r.on = v
            <4>1. /\ InFlight({"build"}, v) = {i} /\ Busy(v) = {}
                  /\ \A m \in queue : m.version # v
                BY <1>2, <2>1, <3>1, RequestIsAlone DEF BuildInv
            <4>2. QED BY <1>2, <2>3, <2>5, <4>1
        <3>2. CASE r.on # v
            <4>1. \A m \in queue' : m.version = v => m \in queue BY <2>5, <3>2
            <4>2. QED BY <1>2, <1>3, <2>3, <4>1
        <3>3. QED BY <3>1, <3>2
    <2>6. QED BY <1>7, <2>4, <2>5 DEF SendBuild, SendFails
<1>8. QED
    BY <1>2, <1>3, <1>5, <1>6, <1>7 DEF BuildRequestStep

\* A build request keeps the invariant of the builds.
LEMMA BuildRequestKeepsBuilds ==
    ASSUME Typed, Typed', Next, BuildInv, NEW i \in Ids, BuildRequestStep(i)
    PROVE  BuildInv'
<1> DEFINE r == request[i]
<1>1. OneBuild' BY BuildRequestKeepsOne
<1>2. \A s : Moves(i, s) => OnlyMoves(i) /\ request'[i] = s
    BY OneMoves DEF OnlyMoves
<1>3. builder' = builder /\ overlapped \subseteq overlapped'
    BY DEF BuildRequestStep, OpenBuild, CommitBuild, SendBuild, SendFails
<1>4. \A v \in Versions : env[v] \in VersionRows(resolves) /\ builds[v] \in Nat
    BY DEF Typed, BuildsTyped
<1>5. CASE env' = env /\ builds' = builds /\ OnlyMoves(i)
           /\ (InStep(i, "build", "open")' => request'[i].row = env[request'[i].on])
    <2>1. RequestIsCurrent'
        BY <1>3, <1>5 DEF BuildInv, RequestIsCurrent, InStep, OnlyMoves
    <2>2. TaskIsCurrent' /\ ReadyHasKey'
        BY <1>3, <1>5 DEF BuildInv, TaskIsCurrent, ReadyHasKey
    <2>3. ReadyStays BY <1>3, <1>4, <1>5 DEF ReadyStays
    <2>4. QED BY <1>1, <2>1, <2>2, <2>3, FrozenStep DEF BuildInv
<1>6. ASSUME NEW v \in Versions, NEW force \in BOOLEAN, OpenBuild(i, v, force)
      PROVE  BuildInv'
    BY <1>2, <1>5, <1>6 DEF OpenBuild
<1>7. CASE SendBuild(i) \/ SendFails(i)
    BY <1>2, <1>5, <1>7 DEF SendBuild, SendFails, InStep, Over
<1>8. CASE CommitBuild(i)
    <2> DEFINE v == r.on
    <2>1. r \in BuildRequests BY <1>8, RequestOf DEF CommitBuild, InStep, Typed
    <2>2. v \in Versions /\ r.step = "open" /\ r.kind = "build"
          /\ r.row \in VersionRows(resolves) /\ r.force \in BOOLEAN
        BY <1>8, <2>1 DEF BuildRequests, CommitBuild, InStep
    <2>3. /\ OnlyMoves(i) /\ request'[i].step = "committed" /\ overlapped' = overlapped
          /\ env' = [env EXCEPT ![v] = Flushed(r.row, Marked(r.row, r.force), @)]
          /\ builds' = [builds EXCEPT ![v] = @ + 1]
        BY <1>2, <1>8, <2>1 DEF CommitBuild, BuildRequests
    <2>4. /\ env'[v] = Flushed(r.row, Marked(r.row, r.force), env[v])
          /\ \A u \in Versions : u # v => env'[u] = env[u] /\ builds'[u] = builds[u]
          /\ builds'[v] = builds[v] + 1
        BY <2>2, <2>3 DEF Typed, BuildsTyped
    <2>5. v \notin overlapped => env'[v].status = "building"
        <3>1. v \notin overlapped => r.row = env[v]
            BY <1>8 DEF BuildInv, RequestIsCurrent, CommitBuild
        <3>2. v \notin overlapped => env'[v] = Marked(r.row, r.force)
            BY <1>4, <2>2, <2>4, <3>1, MarkedTyped, VersionFlushed
        <3>3. QED BY <3>2 DEF Marked
    <2>6. v \notin overlapped =>
              InFlight({"build"}, v) = {i} /\ Busy(v) = {}
        BY <2>1, RequestIsAlone DEF BuildInv
    <2>7. RequestIsCurrent'
        <3>1. SUFFICES ASSUME NEW k \in Ids, InStep(k, "build", "open")',
                              request'[k].on \notin overlapped
                       PROVE  request'[k].row = env'[request'[k].on]
            BY <2>3 DEF RequestIsCurrent
        <3>2. k # i BY <2>3, <3>1 DEF InStep
        <3>3. request'[k] = request[k] /\ InStep(k, "build", "open")
            BY <2>3, <3>1, <3>2 DEF OnlyMoves, InStep
        <3>4. request[k] \in BuildRequests
            BY <3>3, RequestOf DEF InStep, Typed
        <3>5. request[k].on # v
            BY <2>6, <3>1, <3>2, <3>3 DEF InFlight, InStep
        <3>6. request[k].row = env[request[k].on]
            BY <3>1, <3>3 DEF BuildInv, RequestIsCurrent
        <3>7. QED BY <2>4, <3>3, <3>4, <3>5, <3>6 DEF BuildRequests
    <2>8. TaskIsCurrent'
        <3>1. \A b \in Builders :
                  builder[b].step # "free" /\ builder[b].message.version \notin overlapped =>
                      /\ builder[b].message.version \in Versions
                      /\ builder[b].message.version # v
            BY <2>6 DEF Busy, Typed, BuildsTyped, BuilderRecords, FreeBuilder, Messages
        <3>2. QED BY <1>3, <2>3, <2>4, <3>1 DEF BuildInv, TaskIsCurrent
    <2>9. ReadyHasKey' BY <2>3, <2>4, <2>5 DEF BuildInv, ReadyHasKey
    <2>10. ReadyStays BY <1>4, <2>2, <2>3, <2>4 DEF ReadyStays
    <2>11. QED BY <1>1, <2>7, <2>8, <2>9, <2>10, FrozenStep DEF BuildInv
<1>9. QED BY <1>6, <1>7, <1>8 DEF BuildRequestStep

\* Of a version not overlapped, a busy worker process is the only thing under way.
LEMMA TaskIsAlone ==
    ASSUME Typed, OneBuild, NEW b \in Builders, builder[b].step # "free",
           builder[b].message.version \notin overlapped
    PROVE  LET v == builder[b].message.version IN
           /\ v \in Versions
           /\ Busy(v) = {b} /\ InFlight({"build"}, v) = {}
           /\ \A m \in queue : m.version # v
<1> DEFINE v == builder[b].message.version
<1>1. v \in Versions
    BY DEF Typed, BuildsTyped, BuilderRecords, FreeBuilder, Messages
<1>2. b \in Busy(v)
    BY DEF Busy
<1>3. QED
    BY <1>1, <1>2 DEF OneBuild

\* A step of a task keeps each version to one build that has not overlapped.
LEMMA BuilderKeepsOne ==
    ASSUME Typed, BuildInv, NEW b \in Builders, BuilderStep(b)
    PROVE  OneBuild'
<1> DEFINE B == builder[b]
<1>1. SUFFICES ASSUME NEW v \in Versions, v \notin overlapped'
               PROVE  /\ \A j, k \in InFlight({"build"}, v)' : j = k
                      /\ \A m, n \in queue' : m.version = v /\ n.version = v => m = n
                      /\ \A c, d \in Busy(v)' : c = d
                      /\ InFlight({"build"}, v)' # {} =>
                             Busy(v)' = {} /\ \A m \in queue' : m.version # v
                      /\ Busy(v)' # {} => \A m \in queue' : m.version # v
    BY DEF OneBuild
<1>2. /\ request' = request /\ InFlight({"build"}, v)' = InFlight({"build"}, v)
      /\ v \notin overlapped
    BY <1>1
    DEF BuilderStep, TakeBuild, BuilderRuns, BeginBuild, ReloadRow, FinishBuild, FailBuild,
        Acknowledge, FailureUnsaved, BuilderDown, InFlight, requests
<1>3. /\ \A j, k \in InFlight({"build"}, v) : j = k
      /\ \A m, n \in queue : m.version = v /\ n.version = v => m = n
      /\ \A c, d \in Busy(v) : c = d
      /\ InFlight({"build"}, v) # {} => Busy(v) = {} /\ \A m \in queue : m.version # v
      /\ Busy(v) # {} => \A m \in queue : m.version # v
    BY <1>2 DEF BuildInv, OneBuild
<1>4. \A s : BuilderTo(b, s) => /\ \A c \in Builders : c # b => builder'[c] = builder[c]
                                /\ builder'[b] = s
    BY DEF BuilderTo, Typed, BuildsTyped
<1>5. CASE TakeBuild(b)
    <2>1. PICK m \in queue :
              /\ queue' = queue \ {m}
              /\ BuilderTo(b, [step |-> "loaded", message |-> m, row |-> env[m.version]])
        BY <1>5 DEF TakeBuild
    <2>2. B.step = "free" BY <1>5 DEF TakeBuild
    <2>3. /\ Busy(v)' \ {b} = Busy(v) /\ b \notin Busy(v)
          /\ b \in Busy(v)' <=> m.version = v
        BY <1>4, <2>1, <2>2, BusyMoves
    <2>4. QED BY <1>2, <1>3, <2>1, <2>3
<1>6. CASE queue' = queue /\ Busy(v)' \subseteq Busy(v)
    BY <1>2, <1>3, <1>6
<1>7. CASE BeginBuild(b) \/ ReloadRow(b) \/ FinishBuild(b) \/ FailBuild(b)
           \/ FailureUnsaved(b)
    <2>1. B.step # "free" /\ queue' = queue
        BY <1>7 DEF BeginBuild, ReloadRow, FinishBuild, FailBuild, FailureUnsaved, Running
    <2>2. builder'[b].message = B.message
          /\ \A c \in Builders : c # b => builder'[c] = builder[c]
        <3>1. B \in BuilderRecords \ {FreeBuilder}
            BY <2>1 DEF Typed, BuildsTyped, FreeBuilder
        <3>2. /\ [B EXCEPT !.step = "begun"].message = B.message
              /\ [B EXCEPT !.step = "unacknowledged"].message = B.message
              /\ [B EXCEPT !.step = "resolving", !.row = env[B.message.version]].message
                     = B.message
            BY <3>1 DEF BuilderRecords
        <3>3. QED
            BY <1>4, <1>7, <3>2
            DEF BeginBuild, ReloadRow, FinishBuild, FailBuild, FailureUnsaved
    <2>3. Busy(v)' \subseteq Busy(v)
        BY <2>1, <2>2, BusyMoves
    <2>4. QED BY <1>6, <2>1, <2>3
<1>8. CASE Acknowledge(b)
    BY <1>4, <1>6, <1>8, BusyMoves DEF Acknowledge, FreeBuilder
<1>9. CASE BuilderDown(b)
    <2>1. /\ B.step # "free" /\ queue' = queue \cup {B.message}
          /\ Busy(v)' = Busy(v) \ {b}
        BY <1>4, <1>9, BusyMoves DEF BuilderDown, FreeBuilder
    <2>2. CASE B.message.version = v
        <3>1. Busy(v) = {b} /\ InFlight({"build"}, v) = {} /\ \A m \in queue : m.version # v
            BY <1>2, <2>1, <2>2, TaskIsAlone DEF BuildInv
        <3>2. QED BY <1>2, <2>1, <3>1
    <2>3. CASE B.message.version # v
        <3>1. \A m \in queue' : m.version = v => m \in queue BY <2>1, <2>3
        <3>2. QED BY <1>2, <1>3, <2>1, <3>1
    <2>4. QED BY <2>2, <2>3
<1>10. QED
    BY <1>5, <1>7, <1>8, <1>9 DEF BuilderStep, BuilderRuns

\* A task writes its own version only, and one not overlapped knowing its row.
LEMMA TaskWrites ==
    ASSUME Typed, BuildInv, NEW b \in Builders, BeginBuild(b) \/ FinishBuild(b) \/ FailBuild(b)
    PROVE  LET v == builder[b].message.version IN
           /\ \A u \in Versions : u # v => env'[u] = env[u] /\ builds'[u] = builds[u]
           /\ v \notin overlapped =>
                  /\ BeginBuild(b) => /\ env'[v].status = "building"
                                      /\ builds'[v] = builds[v] + 1
                  /\ FinishBuild(b) \/ FailBuild(b) =>
                         \/ env[v].status = "building" /\ builds' = builds
                         \/ builds'[v] = builds[v] + 1
                  /\ env'[v].status = "ready" => env'[v].key # NoKey
           /\ builds[v] <= builds'[v]
<1> DEFINE B == builder[b]
<1> DEFINE v == B.message.version
<1>1. B.step # "free" /\ (BeginBuild(b) => B.step = "loaded")
      /\ (FinishBuild(b) => B.step = "resolving")
      /\ (FailBuild(b) => B.step \in {"loaded", "begun", "resolving"})
    BY DEF BeginBuild, FinishBuild, FailBuild, Running
<1>2. /\ v \in Versions /\ B.message.force \in BOOLEAN /\ B.row \in VersionRows(resolves)
      /\ env[v] \in VersionRows(resolves) /\ builds[v] \in Nat
    BY <1>1 DEF Typed, BuildsTyped, BuilderRecords, FreeBuilder, Messages
<1>3. v \notin overlapped =>
          /\ B.step \in {"loaded", "resolving"} => B.row = env[v]
          /\ B.step \in {"begun", "resolving"} => env[v].status = "building"
    BY <1>1 DEF BuildInv, TaskIsCurrent
<1>4. CASE BeginBuild(b)
    <2>1. /\ env' = [env EXCEPT ![v] = Flushed(B.row, Marked(B.row, B.message.force), @)]
          /\ builds' = [builds EXCEPT ![v] = @ + 1]
        BY <1>4 DEF BeginBuild
    <2>2. v \notin overlapped => env'[v] = Marked(B.row, B.message.force)
        BY <1>1, <1>2, <1>3, <1>4, <2>1, MarkedTyped, VersionFlushed DEF Typed, BuildsTyped
    <2>3. v \notin overlapped => env'[v].status = "building"
        BY <2>2 DEF Marked
    <2>4. QED
        BY <1>1, <1>2, <1>4, <2>1, <2>3 DEF Typed, BuildsTyped
<1>5. CASE FinishBuild(b)
    <2>1. PICK k \in resolves[v] :
              env' = [env EXCEPT ![v] = Flushed(B.row, [status |-> "ready", key |-> k], @)]
        BY <1>5 DEF FinishBuild
    <2>2. [status |-> "ready", key |-> k] \in VersionRows(resolves)
        BY <1>2 DEF VersionRows
    <2>3. v \notin overlapped => env'[v] = [status |-> "ready", key |-> k]
        BY <1>1, <1>2, <1>3, <1>5, <2>1, <2>2, VersionFlushed DEF Typed, BuildsTyped
    <2>4. k # NoKey
        BY <1>2 DEF Typed, BuildsTyped
    <2>5. builds' = builds BY <1>5 DEF FinishBuild
    <2>6. QED
        BY <1>1, <1>2, <1>3, <1>5, <2>1, <2>3, <2>4, <2>5 DEF Typed, BuildsTyped
<1>6. CASE FailBuild(b)
    <2>1. /\ env' = [env EXCEPT ![v].status = "failed"]
          /\ builds' = IF B.step = "loaded" THEN [builds EXCEPT ![v] = @ + 1] ELSE builds
        BY <1>6 DEF FailBuild
    <2>2. env'[v].status = "failed"
        BY <1>2, <2>1 DEF Typed, BuildsTyped, VersionRows
    <2>3. \A u \in Versions : u # v => env'[u] = env[u] /\ builds'[u] = builds[u]
        BY <1>2, <2>1 DEF Typed, BuildsTyped
    <2>4. IF B.step = "loaded" THEN builds'[v] = builds[v] + 1 ELSE builds' = builds
        BY <1>2, <2>1 DEF Typed, BuildsTyped
    <2>5. ASSUME BeginBuild(b) PROVE FALSE
        <3>1. /\ builder' = [builder EXCEPT ![b] = [B EXCEPT !.step = "unacknowledged"]]
              /\ builder' = [builder EXCEPT ![b] = [B EXCEPT !.step = "begun"]]
            BY <1>6, <2>5 DEF BeginBuild, FailBuild, BuilderTo
        <3>2. B \in BuilderRecords \ {FreeBuilder} /\ b \in DOMAIN builder
            BY <1>1, <1>6 DEF Typed, BuildsTyped, FreeBuilder
        <3>3. [B EXCEPT !.step = "unacknowledged"] = [B EXCEPT !.step = "begun"]
            BY <3>1, <3>2
        <3>4. /\ [B EXCEPT !.step = "unacknowledged"].step = "unacknowledged"
              /\ [B EXCEPT !.step = "begun"].step = "begun"
            BY <3>2 DEF BuilderRecords
        <3>5. QED BY <3>3, <3>4
    <2>6. QED BY <1>1, <1>2, <1>3, <1>6, <2>2, <2>3, <2>4, <2>5
<1>7. QED BY <1>4, <1>5, <1>6

\* A step of a task keeps the invariant of the builds.
LEMMA BuilderKeepsBuilds ==
    ASSUME Typed, Typed', Next, BuildInv, NEW b \in Builders, BuilderStep(b)
    PROVE  BuildInv'
<1> DEFINE B == builder[b]
<1> DEFINE v == B.message.version
<1>1. OneBuild' BY BuilderKeepsOne
<1>2. /\ request' = request /\ overlapped' = overlapped
      /\ \A c \in Builders : c # b => builder'[c] = builder[c]
    BY DEF BuilderStep, TakeBuild, BuilderRuns, BeginBuild, ReloadRow, FinishBuild,
           FailBuild, Acknowledge, FailureUnsaved, BuilderDown, requests, BuilderTo,
           Typed, BuildsTyped
<1>3. \A s : BuilderTo(b, s) => builder'[b] = s
    BY DEF BuilderTo, Typed, BuildsTyped
<1>4. \A u \in Versions : env[u] \in VersionRows(resolves) /\ builds[u] \in Nat
    BY DEF Typed, BuildsTyped
<1>5. ASSUME env' = env, builds' = builds,
             LET s == builder'[b] IN
             s.step # "free" /\ s.message.version \notin overlapped =>
                 /\ s.step \in {"loaded", "resolving"} => s.row = env[s.message.version]
                 /\ s.step \in {"begun", "resolving"} =>
                        env[s.message.version].status = "building"
      PROVE  BuildInv'
    <2>1. RequestIsCurrent' /\ ReadyHasKey'
        BY <1>2, <1>5 DEF BuildInv, RequestIsCurrent, ReadyHasKey, InStep
    <2>2. TaskIsCurrent' BY <1>2, <1>5 DEF BuildInv, TaskIsCurrent
    <2>3. ReadyStays BY <1>2, <1>4, <1>5 DEF ReadyStays
    <2>4. QED BY <1>1, <2>1, <2>2, <2>3, FrozenStep DEF BuildInv
<1>6. CASE TakeBuild(b)
    BY <1>3, <1>5, <1>6 DEF TakeBuild
<1>7. CASE ReloadRow(b)
    <2>1. B.step = "begun" /\ B \in BuilderRecords \ {FreeBuilder}
        BY <1>7 DEF ReloadRow, Typed, BuildsTyped, FreeBuilder
    <2>2. LET s == builder'[b] IN
          s.message = B.message /\ s.row = env[v] /\ s.step = "resolving"
        BY <1>3, <1>7, <2>1 DEF ReloadRow, BuilderRecords
    <2>3. v \notin overlapped => env[v].status = "building"
        BY <2>1 DEF BuildInv, TaskIsCurrent
    <2>4. QED BY <1>5, <1>7, <2>2, <2>3 DEF ReloadRow
<1>8. CASE FailureUnsaved(b) \/ Acknowledge(b) \/ BuilderDown(b)
    <2>1. builder'[b].step \in {"unacknowledged", "free"}
        BY <1>3, <1>8
        DEF FailureUnsaved, Acknowledge, BuilderDown, FreeBuilder, Typed, BuildsTyped,
            BuilderRecords
    <2>2. QED BY <1>5, <1>8, <2>1 DEF FailureUnsaved, Acknowledge, BuilderDown
<1>9. CASE BeginBuild(b) \/ FinishBuild(b) \/ FailBuild(b)
    <2>1. B.step # "free" BY <1>9 DEF BeginBuild, FinishBuild, FailBuild, Running
    <2>2. B \in BuilderRecords \ {FreeBuilder}
        BY <2>1 DEF Typed, BuildsTyped, FreeBuilder
    <2>3. /\ builder'[b].message = B.message
          /\ builder'[b].step = IF BeginBuild(b) THEN "begun" ELSE "unacknowledged"
        BY <1>3, <1>9, <2>2 DEF BeginBuild, FinishBuild, FailBuild, BuilderRecords
    <2>4. v \in Versions BY <2>2 DEF BuilderRecords, Messages
    <2>5. v \notin overlapped =>
              /\ Busy(v) = {b} /\ InFlight({"build"}, v) = {}
        BY <2>1, TaskIsAlone DEF BuildInv
    <2>6. RequestIsCurrent'
        <3>1. SUFFICES ASSUME NEW k \in Ids, InStep(k, "build", "open"),
                              request[k].on \notin overlapped
                       PROVE  request[k].row = env'[request[k].on]
            BY <1>2 DEF RequestIsCurrent, InStep
        <3>2. request[k] \in BuildRequests BY <3>1, RequestOf DEF InStep, Typed
        <3>3. request[k].on \in Versions /\ request[k].on # v
            BY <2>5, <3>1, <3>2 DEF BuildRequests, InFlight, InStep
        <3>4. QED BY <1>9, <3>1, <3>3, TaskWrites DEF BuildInv, RequestIsCurrent
    <2>7. TaskIsCurrent'
        <3>1. SUFFICES ASSUME NEW c \in Builders, builder'[c].step # "free",
                              builder'[c].message.version \notin overlapped
                       PROVE  LET s == builder'[c] IN
                              /\ s.step \in {"loaded", "resolving"} =>
                                     s.row = env'[s.message.version]
                              /\ s.step \in {"begun", "resolving"} =>
                                     env'[s.message.version].status = "building"
            BY <1>2 DEF TaskIsCurrent
        <3>2. CASE c = b
            BY <1>9, <2>3, <3>1, <3>2, TaskWrites
        <3>3. CASE c # b
            <4>1. builder'[c] = builder[c] BY <1>2, <3>3
            <4>2. /\ builder[c].message.version \in Versions
                  /\ builder[c].message.version # v
                BY <2>5, <3>1, <3>3, <4>1
                DEF Busy, Typed, BuildsTyped, BuilderRecords, FreeBuilder, Messages
            <4>3. env'[builder[c].message.version] = env[builder[c].message.version]
                BY <1>9, <4>2, TaskWrites
            <4>4. QED BY <3>1, <4>1, <4>3 DEF BuildInv, TaskIsCurrent
        <3>4. QED BY <3>2, <3>3
    <2>8. ReadyHasKey'
        BY <1>2, <1>9, TaskWrites DEF BuildInv, ReadyHasKey
    <2>9. ReadyStays
        <3>1. \A u \in Versions : builds[u] <= builds'[u]
            BY <1>4, <1>9, TaskWrites
        <3>2. ASSUME NEW u \in Versions, u \notin overlapped, builds'[u] = builds[u],
                     env[u].status = "ready"
              PROVE  env'[u] = env[u]
            BY <1>4, <1>9, <3>2, TaskWrites
        <3>3. QED BY <1>2, <3>1, <3>2 DEF ReadyStays
    <2>10. QED BY <1>1, <2>6, <2>7, <2>8, <2>9, FrozenStep DEF BuildInv
<1>10. QED
    BY <1>6, <1>7, <1>8, <1>9 DEF BuilderStep, BuilderRuns

\* No build has been asked for at first.
LEMMA InitBuilds == Init => BuildInv
<1>1. SUFFICES ASSUME NEW s \in Stages,
                      RequestsInit(s.expected), EnvInit(s.env, s.resolves), jobs = {}
               PROVE  BuildInv
    BY DEF Init
<1>2. \A i \in Ids : request[i].step = "awaited"
    BY <1>1 DEF RequestsInit, Awaited
<1>3. OneBuild
    BY <1>1, <1>2 DEF EnvInit, OneBuild, InFlight, Busy, FreeBuilder
<1>4. RequestIsCurrent /\ TaskIsCurrent
    BY <1>1, <1>2 DEF EnvInit, RequestIsCurrent, TaskIsCurrent, InStep, FreeBuilder
<1>5. ReadyHasKey
    BY <1>1, StagesAssumption DEF EnvInit, ReadyHasKey
<1>6. BoundIsFrozen
    BY <1>1, <1>2 DEF BoundIsFrozen, Bound, InStep
<1>7. QED BY <1>3, <1>4, <1>5, <1>6 DEF BuildInv

\* The invariant of the builds holds throughout.
LEMMA BuildInvariant == Spec => [](Typed /\ BuildInv)
<1>1. Init => Typed /\ BuildInv
    BY InitTyped, InitBuilds
<1>2. ASSUME Typed, BuildInv, [Next]_vars PROVE (Typed /\ BuildInv)'
    <2>1. CASE Next
        <3>1. Typed' BY <1>2, <2>1, NextTyped
        <3>2. BuildInv'
            BY <1>2, <2>1, <3>1, NextSorts, BuildRequestKeepsBuilds, BuilderKeepsBuilds,
               OthersKeepBuilds, PublicationTyped
        <3>3. QED BY <3>1, <3>2
    <2>2. CASE UNCHANGED vars
        <3>1. Typed' BY <1>2, <2>2, VarsTyped
        <3>2. BuildInv'
            BY <1>2, <2>2
            DEF vars, requests, building, BuildInv, OneBuild, RequestIsCurrent,
                TaskIsCurrent, ReadyHasKey, BoundIsFrozen, Bound, InFlight, Busy, InStep
        <3>3. QED BY <3>1, <3>2
    <2>3. QED BY <1>2, <2>1, <2>2
<1>3. QED BY <1>1, <1>2, PTL DEF Spec

\* Where a version was built and no two of its builds overlapped, `ready' means that there
\* is a freeze key, whatever tasks are lost, handed out again or fail
\* (code_eval_env_tasks.py).
THEOREM ReadyVersionsHaveKeys == Spec => []ReadyHasKey
<1>1. BuildInv => ReadyHasKey BY DEF BuildInv
<1>2. QED BY <1>1, BuildInvariant, PTL

\* A job's freeze key is that of its version until the version is asked to be built again,
\* and there is one if it had been built before: dispatch and create_job read version and
\* key together (submissions.py, code_eval.py), where builds do not overlap.
THEOREM JobsAreFrozen == Spec => []JobIsFrozen
<1>1. BuildInv => JobIsFrozen
    BY DEF BuildInv, BoundIsFrozen, Bound, JobIsFrozen
<1>2. QED BY <1>1, BuildInvariant, PTL

----------------------------------------------------------------------------
(* Reviews: who looks at what is approved *)

\* A record that is not the request of a review.
NoReview(r) ==
    r.step \in {"awaited", "over"} \/ r.kind \notin {"approve", "rewrite", "reject"}

\* A request that is no review is none of the four kinds of them.
LEMMA NoReviewRecords ==
    ASSUME NEW r, NoReview(r)
    PROVE  r \notin Looks \cup Approvals \cup Rewrites \cup Rejections
BY DEF NoReview, Looks, Approvals, Rewrites, Rejections

\* The requests of reviews by what they hold.
LEMMA ReviewRecords ==
    ASSUME NEW r
    PROVE  /\ r \in Looks \cup Approvals =>
                  /\ r.kind = "approve" /\ r.step \in {"looked", "open"}
                  /\ r.on \in Artifacts /\ r.made \in 0 .. MaxRequests
                  /\ r.seen \in Contents
           /\ r \in Rewrites => r.kind = "rewrite" /\ r.step = "open" /\ r.on \in Artifacts
           /\ r \in Approvals \cup Rewrites \cup Rejections =>
                  /\ r.on \in Artifacts
                  /\ r.row \in ArtifactRows /\ r.row.made \in 0 .. MaxRequests
BY ContentsOfRows DEF Looks, Approvals, Rewrites, Rejections, ArtifactRows

\* Builds, publishing and jobs are no reviews, and no request is awaited again.
LEMMA OthersDoNotReview ==
    ASSUME Typed, NEW i \in Ids, BuildRequestStep(i) \/ ReadsOnly(i)
    PROVE  /\ OnlyMoves(i) /\ request'[i] # Awaited
           /\ NoReview(request[i]) /\ NoReview(request'[i])
<1>1. ASSUME NEW r, Moves(i, r), NoReview(r), r.step # "awaited", NoReview(request[i])
      PROVE  /\ OnlyMoves(i) /\ request'[i] # Awaited
             /\ NoReview(request[i]) /\ NoReview(request'[i])
    BY <1>1, OneMoves DEF OnlyMoves, Awaited
<1>2. NoReview(Over) /\ Over.step # "awaited"
    BY DEF NoReview, Over
<1>3. \A kind, step : kind \notin {"approve", "rewrite", "reject"}
                          /\ InStep(i, kind, step) => NoReview(request[i])
    BY DEF InStep, NoReview
<1>4. \A kind : Arrives(i, kind) => NoReview(request[i])
    BY DEF Arrives, NoReview, Awaited
<1>5. CASE BuildRequestStep(i)
    <2>1. ASSUME NEW v, NEW force, OpenBuild(i, v, force)
          PROVE  /\ OnlyMoves(i) /\ request'[i] # Awaited
                 /\ NoReview(request[i]) /\ NoReview(request'[i])
        <3>1. NoReview([step |-> "open", kind |-> "build", on |-> v, force |-> force,
                        row |-> env[v]])
            BY DEF NoReview
        <3>2. QED BY <1>1, <1>4, <2>1, <3>1 DEF OpenBuild
    <2>2. CASE CommitBuild(i)
        <3>1. request[i] \in BuildRequests
            BY <2>2, RequestOf DEF CommitBuild, InStep, Typed
        <3>2. LET s == [request[i] EXCEPT !.step = "committed"] IN
              NoReview(s) /\ s.step # "awaited"
            BY <3>1 DEF NoReview, BuildRequests
        <3>3. QED BY <1>1, <1>3, <2>2, <3>2 DEF CommitBuild
    <2>3. CASE SendBuild(i) \/ SendFails(i)
        BY <1>1, <1>2, <1>3, <2>3 DEF SendBuild, SendFails
    <2>4. QED BY <1>5, <2>1, <2>2, <2>3 DEF BuildRequestStep
<1>6. CASE ReadsOnly(i)
    <2>1. CASE CommitPublish(i) \/ CommitJob(i)
        BY <1>1, <1>2, <1>3, <2>1 DEF CommitPublish, CommitJob
    <2>2. ASSUME NEW v, NEW force, OpenPublish(i, v, force)
          PROVE  /\ OnlyMoves(i) /\ request'[i] # Awaited
                 /\ NoReview(request[i]) /\ NoReview(request'[i])
        <3>1. NoReview([step |-> "open", kind |-> "publish", on |-> Resolved(v),
                        row |-> assignment])
            BY DEF NoReview
        <3>2. QED BY <1>1, <1>4, <2>2, <3>1 DEF OpenPublish
    <2>3. CASE OpenDispatch(i) \/ \E v \in Versions : OpenCreate(i, v)
        <3>1. PICK job : Moves(i, [step |-> "open", kind |-> "job", on |-> job.version,
                                   job |-> job])
            BY <2>3, JobOpened
        <3>2. NoReview([step |-> "open", kind |-> "job", on |-> job.version, job |-> job])
            BY DEF NoReview
        <3>3. QED BY <1>1, <1>4, <2>3, <3>1, <3>2 DEF OpenDispatch, OpenCreate
    <2>4. QED BY <1>6, <2>1, <2>2, <2>3 DEF ReadsOnly
<1>7. QED BY <1>5, <1>6

\* A request that is over, or is no review, holds nothing: what is known of those in
\* flight stays as long as the row they loaded does.
LEMMA InFlightStep ==
    ASSUME Typed, Typed', InFlightInv, NEW i \in Ids, OnlyMoves(i),
           NoReview(request'[i]), request'[i] # Awaited,
           contested' = contested,
           \A a \in Artifacts : artifact'[a].made \in {artifact[a].made, 0, i},
           \A k \in Ids \ {i} : request[k] \in Looks \cup Approvals =>
               LET a == request[k].on  m == request[k].made IN
               a \notin contested /\ SameRowAfter(a, m) =>
                   SameRow(a, m) /\ artifact'[a].content = artifact[a].content,
           \A k \in Ids \ {i} : request[k] \in Rewrites =>
               LET a == request[k].on  m == request[k].row.made IN
               a \notin contested /\ SameRowAfter(a, m) =>
                   /\ SameRow(a, m)
                   /\ artifact'[a].status = "approved" => artifact[a].status = "approved",
           SoundTests => SoundTests'
    PROVE  InFlightInv'
<1>1. request'[i] \notin Looks \cup Approvals \cup Rewrites \cup Rejections
    BY NoReviewRecords
<1>2. MakersArrived'
    <2>1. \A m \in 0 .. MaxRequests :
              m # 0 /\ (m = i \/ request[m] # Awaited) => request'[m] # Awaited
        BY RequestsAssumption DEF OnlyMoves, Ids
    <2>2. \A a \in Artifacts : artifact[a].made \in 0 .. MaxRequests
        BY ContentsOfRows DEF Typed, ReviewsTyped
    <2>3. i \in 0 .. MaxRequests BY RequestsAssumption DEF Ids
    <2>4. ASSUME NEW a \in Artifacts, artifact'[a].made # 0
          PROVE  request'[artifact'[a].made] # Awaited
        BY <2>1, <2>2, <2>3, <2>4 DEF InFlightInv, MakersArrived
    <2>5. ASSUME NEW k \in Ids, request'[k] \in Looks \cup Approvals, request'[k].made # 0
          PROVE  request'[request'[k].made] # Awaited
        BY <1>1, <2>1, <2>5, ReviewRecords DEF InFlightInv, MakersArrived, OnlyMoves
    <2>6. ASSUME NEW k \in Ids, request'[k] \in Rewrites \cup Approvals \cup Rejections,
                 request'[k].row.made # 0
          PROVE  request'[request'[k].row.made] # Awaited
        BY <1>1, <2>1, <2>6, ReviewRecords DEF InFlightInv, MakersArrived, OnlyMoves
    <2>7. QED BY <2>4, <2>5, <2>6 DEF MakersArrived, Looks, Approvals, Rewrites, Rejections
<1>3. NoMeeting'
    <2>1. \A a : /\ InFlight({"approve"}, a)' \subseteq InFlight({"approve"}, a)
                 /\ InFlight({"rewrite"}, a)' \subseteq InFlight({"rewrite"}, a)
        BY DEF InFlight, OnlyMoves, NoReview
    <2>2. QED BY <2>1 DEF InFlightInv, NoMeeting
<1>4. SeenIsCurrent'
    BY <1>1 DEF InFlightInv, SeenIsCurrent, OnlyMoves, SameRow, SameRowAfter
<1>5. ApprovalChecked'
    BY <1>1 DEF InFlightInv, ApprovalChecked, OnlyMoves
<1>6. RewriteUndoes'
    BY <1>1 DEF InFlightInv, RewriteUndoes, OnlyMoves, SameRow, SameRowAfter
<1>7. QED BY <1>2, <1>3, <1>4, <1>5, <1>6 DEF InFlightInv

\* A request that opens holds the row there is; it contests an artifact it meets at.
LEMMA OpeningStep ==
    ASSUME Typed, InFlightInv, NEW i \in Ids,
           \/ \E a \in Artifacts : OpenRewrite(i, a) \/ Look(i, a)
           \/ OpenApprove(i) \/ OpenReject(i)
    PROVE  /\ UNCHANGED <<artifact, reviewed>> /\ contested \subseteq contested'
           /\ InFlightInv'
<1> DEFINE r == request[i]
<1> DEFINE s == request'[i]
<1>1. /\ UNCHANGED <<artifact, reviewed>> /\ contested \subseteq contested'
      /\ OnlyMoves(i)
    BY OneMoves DEF OpenRewrite, Look, OpenApprove, OpenReject, Meets, reviews, OnlyMoves
<1>2. /\ \A a \in Artifacts : artifact[a] \in ArtifactRows
      /\ \A a \in Artifacts : artifact[a].made \in 0 .. MaxRequests
    BY ContentsOfRows DEF Typed, ReviewsTyped
<1>3. ASSUME s # Awaited,
             s \in Looks \cup Approvals =>
                 /\ s.made # 0 => request[s.made] # Awaited
                 /\ SameRow(s.on, s.made) /\ s.on \notin contested' =>
                        artifact[s.on].content = s.seen,
             s \in Rewrites \cup Approvals \cup Rejections =>
                 \E a \in Artifacts : s.row = artifact[a],
             s \in Approvals => /\ s.row.made = s.made
                                /\ s.on = "tests" => SoundTests,
             s \in Rewrites => s.row = artifact[s.on],
             NoMeeting'
      PROVE  InFlightInv'
    <2>1. \A m \in 0 .. MaxRequests :
              m # 0 /\ request[m] # Awaited => request'[m] # Awaited
        BY <1>1, <1>3, RequestsAssumption DEF OnlyMoves, Ids
    <2>2. MakersArrived'
        <3>1. ASSUME NEW a \in Artifacts, artifact'[a].made # 0
              PROVE  request'[artifact'[a].made] # Awaited
            BY <1>1, <1>2, <2>1, <3>1 DEF InFlightInv, MakersArrived
        <3>2. ASSUME NEW k \in Ids, request'[k] \in Looks \cup Approvals,
                     request'[k].made # 0
              PROVE  request'[request'[k].made] # Awaited
            BY <1>1, <1>3, <2>1, <3>2, ReviewRecords DEF InFlightInv, MakersArrived, OnlyMoves
        <3>3. ASSUME NEW k \in Ids, request'[k] \in Rewrites \cup Approvals \cup Rejections,
                     request'[k].row.made # 0
              PROVE  request'[request'[k].row.made] # Awaited
            BY <1>1, <1>2, <1>3, <2>1, <3>3, ReviewRecords
            DEF InFlightInv, MakersArrived, OnlyMoves
        <3>4. QED
            BY <3>1, <3>2, <3>3 DEF MakersArrived, Looks, Approvals, Rewrites, Rejections
    <2>3. SeenIsCurrent'
        BY <1>1, <1>3 DEF InFlightInv, SeenIsCurrent, OnlyMoves, SameRow
    <2>4. ApprovalChecked'
        BY <1>1, <1>3 DEF InFlightInv, ApprovalChecked, OnlyMoves, SoundTests
    <2>5. RewriteUndoes'
        BY <1>1, <1>3 DEF InFlightInv, RewriteUndoes, OnlyMoves, SameRow
    <2>6. QED BY <1>3, <2>2, <2>3, <2>4, <2>5 DEF InFlightInv
<1>4. ASSUME \A c \in Artifacts \ contested' :
                 \/ InFlight({"approve"}, c)' \subseteq InFlight({"approve"}, c)
                    /\ InFlight({"rewrite"}, c)' \subseteq InFlight({"rewrite"}, c)
                 \/ InFlight({"approve"}, c)' = {}
                 \/ InFlight({"rewrite"}, c)' = {}
      PROVE  NoMeeting'
    BY <1>1, <1>4 DEF InFlightInv, NoMeeting
<1>5. ASSUME NEW a \in Artifacts, OpenRewrite(i, a) PROVE InFlightInv'
    <2>1. s = [step |-> "open", kind |-> "rewrite", on |-> a, row |-> artifact[a]]
        BY <1>5, OneMoves DEF OpenRewrite
    <2>2. r = Awaited BY <1>5 DEF OpenRewrite, Arrives
    <2>3. NoMeeting'
        <3>1. SUFFICES ASSUME NEW c \in Artifacts \ contested'
                       PROVE  \/ InFlight({"approve"}, c)' = {}
                              \/ /\ InFlight({"approve"}, c)' \subseteq InFlight({"approve"}, c)
                                 /\ InFlight({"rewrite"}, c)' \subseteq InFlight({"rewrite"}, c)
            BY <1>4
        <3>2. InFlight({"approve"}, c)' \subseteq InFlight({"approve"}, c)
            BY <1>1, <2>1, FlightMoves
        <3>3. CASE c = a
            BY <1>5, <3>1, <3>2, <3>3 DEF OpenRewrite, Meets
        <3>4. CASE c # a
            BY <1>1, <2>1, <3>2, <3>4, FlightMoves
        <3>5. QED BY <3>3, <3>4
    <2>4. s # Awaited /\ s \notin Looks \cup Approvals \cup Rejections
        BY <2>1 DEF Awaited, Looks, Approvals, Rejections
    <2>5. s.row = artifact[a] /\ s.on = a BY <2>1
    <2>6. QED BY <1>3, <2>3, <2>4, <2>5
<1>6. ASSUME NEW a \in Artifacts, Look(i, a) PROVE InFlightInv'
    <2>1. s = [step |-> "looked", kind |-> "approve", on |-> a, made |-> artifact[a].made,
               seen |-> artifact[a].content]
        BY <1>6, OneMoves DEF Look
    <2>2. NoMeeting'
        <3>1. SUFFICES ASSUME NEW c \in Artifacts \ contested'
                       PROVE  \/ InFlight({"rewrite"}, c)' = {}
                              \/ /\ InFlight({"approve"}, c)' \subseteq InFlight({"approve"}, c)
                                 /\ InFlight({"rewrite"}, c)' \subseteq InFlight({"rewrite"}, c)
            BY <1>4
        <3>2. InFlight({"rewrite"}, c)' \subseteq InFlight({"rewrite"}, c)
            BY <1>1, <2>1, FlightMoves
        <3>3. CASE c = a
            BY <1>6, <3>1, <3>2, <3>3 DEF Look, Meets
        <3>4. CASE c # a
            BY <1>1, <2>1, <3>2, <3>4, FlightMoves
        <3>5. QED BY <3>3, <3>4
    <2>3. s # Awaited /\ s \notin Approvals \cup Rejections \cup Rewrites
        BY <2>1 DEF Awaited, Rewrites, Approvals, Rejections
    <2>4. s.made = artifact[a].made /\ s.on = a /\ s.seen = artifact[a].content BY <2>1
    <2>5. s.made # 0 => request[s.made] # Awaited
        BY <2>4 DEF InFlightInv, MakersArrived
    <2>6. QED BY <1>3, <2>2, <2>3, <2>4, <2>5
<1>7. CASE OpenApprove(i)
    <2>1. r \in Looks BY <1>7, RequestOf DEF OpenApprove, InStep, Typed
    <2>2. r.on \in Artifacts /\ r.step = "looked" /\ r.kind = "approve"
          /\ contested' = contested
        BY <1>7, <2>1 DEF Looks, OpenApprove, reviews
    <2>3. CASE artifact[r.on].made = r.made /\ artifact[r.on].content.sound
               /\ artifact[r.on].status # "absent"
               /\ s = [step |-> "open", kind |-> "approve", on |-> r.on, made |-> r.made,
                       seen |-> r.seen, row |-> artifact[r.on]]
        <3>1. NoMeeting'
            <4>1. \A c : /\ InFlight({"approve"}, c)' \subseteq InFlight({"approve"}, c)
                         /\ InFlight({"rewrite"}, c)' \subseteq InFlight({"rewrite"}, c)
                BY <1>1, <2>2, <2>3, FlightMoves
            <4>2. QED BY <1>4, <4>1
        <3>2. s # Awaited /\ s \notin Looks \cup Rejections \cup Rewrites
            BY <2>3 DEF Awaited, Looks, Rewrites, Rejections
        <3>3. s.row = artifact[r.on] /\ s.made = r.made /\ s.on = r.on /\ s.seen = r.seen
            BY <2>3
        <3>4. /\ r.made # 0 => request[r.made] # Awaited
              /\ SameRow(r.on, r.made) /\ r.on \notin contested =>
                     artifact[r.on].content = r.seen
            BY <2>1 DEF InFlightInv, MakersArrived, SeenIsCurrent
        <3>5. /\ s.made # 0 => request[s.made] # Awaited
              /\ SameRow(s.on, s.made) /\ s.on \notin contested' =>
                     artifact[s.on].content = s.seen
            BY <2>2, <3>3, <3>4
        <3>6. /\ s.row.made = s.made
              /\ s.on = "tests" => SoundTests
              /\ \E a \in Artifacts : s.row = artifact[a]
            BY <2>2, <2>3, <3>3 DEF SoundTests
        <3>7. QED BY <1>1, <1>3, <3>1, <3>2, <3>5, <3>6
    <2>4. CASE s = Over
        <3>1. NoMeeting'
            <4>1. \A c : /\ InFlight({"approve"}, c)' \subseteq InFlight({"approve"}, c)
                         /\ InFlight({"rewrite"}, c)' \subseteq InFlight({"rewrite"}, c)
                BY <1>1, <2>4, FlightMoves DEF Over
            <4>2. QED BY <1>4, <4>1
        <3>2. s # Awaited /\ s \notin Looks \cup Approvals \cup Rejections \cup Rewrites
            BY <2>4 DEF Awaited, Over, Looks, Approvals, Rewrites, Rejections
        <3>3. QED BY <1>1, <1>3, <3>1, <3>2
    <2>5. QED BY <1>7, <2>3, <2>4, OneMoves DEF OpenApprove
<1>8. CASE OpenReject(i)
    <2>1. s = [step |-> "open", kind |-> "reject", on |-> "tests", row |-> artifact["tests"]]
        BY <1>8, OneMoves DEF OpenReject
    <2>2. NoMeeting'
        <3>1. \A c : /\ InFlight({"approve"}, c)' \subseteq InFlight({"approve"}, c)
                     /\ InFlight({"rewrite"}, c)' \subseteq InFlight({"rewrite"}, c)
            BY <1>1, <2>1, FlightMoves
        <3>2. QED BY <1>4, <3>1
    <2>3. s # Awaited /\ s \notin Looks \cup Approvals \cup Rewrites
        BY <2>1 DEF Awaited, Looks, Approvals, Rewrites
    <2>4. s.row = artifact["tests"] BY <2>1
    <2>5. QED BY <1>1, <1>3, <2>2, <2>3, <2>4, ContentsOfRows
<1>9. QED BY <1>1, <1>5, <1>6, <1>7, <1>8

\* A commit to an artifact keeps its row, and writes the attributes that were changed.
LEMMA CommitSaves ==
    ASSUME Typed, NEW a \in Artifacts, NEW loaded \in ArtifactRows,
           NEW value \in ArtifactRows, value.made = loaded.made, value.status # "absent",
           artifact' = Saved(a, loaded, value)
    PROVE  /\ \A c \in Artifacts : c # a => artifact'[c] = artifact[c]
           /\ \A c \in Artifacts : artifact'[c].made = artifact[c].made
           /\ \A c \in Artifacts : \A m : SameRowAfter(c, m) <=> SameRow(c, m)
           /\ IF SameRow(a, loaded.made)
              THEN /\ artifact'[a].status = IF value.status = loaded.status
                                            THEN artifact[a].status ELSE value.status
                   /\ artifact'[a].content = IF value.content = loaded.content
                                             THEN artifact[a].content ELSE value.content
              ELSE artifact'[a] = artifact[a]
<1>1. /\ artifact[a] \in ArtifactRows
      /\ \A c \in Artifacts : c # a => artifact'[c] = artifact[c]
      /\ artifact'[a] = IF SameRow(a, loaded.made) THEN Flushed(loaded, value, artifact[a])
                                                   ELSE artifact[a]
    BY SavedRows DEF Typed, ReviewsTyped
<1>2. CASE SameRow(a, loaded.made)
    <2>1. /\ artifact'[a].status = IF value.status = loaded.status
                                   THEN artifact[a].status ELSE value.status
          /\ artifact'[a].made = artifact[a].made
          /\ artifact'[a].content = IF value.content = loaded.content
                                    THEN artifact[a].content ELSE value.content
        BY <1>1, <1>2, ArtifactFlushed
    <2>2. artifact[a].status # "absent" /\ artifact'[a].status # "absent"
        BY <1>2, <2>1 DEF SameRow, SameRowAfter
    <2>3. QED BY <1>1, <1>2, <2>1, <2>2 DEF SameRow, SameRowAfter
<1>3. CASE ~SameRow(a, loaded.made)
    BY <1>1, <1>3 DEF SameRow, SameRowAfter
<1>4. QED BY <1>2, <1>3

\* New content takes the approval away, unless an approval meets it.
LEMMA RewriteStep ==
    ASSUME Typed, Typed', InFlightInv, ApprovedInv, NEW i \in Ids, CommitRewrite(i)
    PROVE  InFlightInv' /\ ApprovedInv'
<1> DEFINE r == request[i]
<1> DEFINE a == r.on
<1>1. r \in Rewrites BY RequestOf DEF CommitRewrite, InStep, Typed
<1>2. a \in Artifacts /\ r.row \in ArtifactRows /\ r.step = "open" /\ r.kind = "rewrite"
    BY <1>1 DEF Rewrites
<1>3. PICK c \in NewContents(i, a) :
          artifact' = Saved(a, r.row, [r.row EXCEPT !.status = "pending", !.content = c])
    BY DEF CommitRewrite
<1> DEFINE value == [r.row EXCEPT !.status = "pending", !.content = c]
<1>4. c \in Contents BY <1>2, ContentsOfRows
<1>5. /\ value \in ArtifactRows /\ value.made = r.row.made
      /\ value.status = "pending" /\ value.content = c
      /\ artifact' = Saved(a, r.row, value)
    BY <1>2, <1>3, <1>4, ChangedRows DEF ArtifactRows
<1>6. /\ \A d \in Artifacts : d # a => artifact'[d] = artifact[d]
      /\ \A d \in Artifacts : artifact'[d].made = artifact[d].made
      /\ \A d \in Artifacts : \A m : SameRowAfter(d, m) <=> SameRow(d, m)
      /\ IF SameRow(a, r.row.made)
         THEN /\ artifact'[a].status = IF "pending" = r.row.status THEN artifact[a].status
                                                                   ELSE "pending"
              /\ artifact'[a].content = IF c = r.row.content THEN artifact[a].content ELSE c
         ELSE artifact'[a] = artifact[a]
    <2> HIDE DEF value
    <2>1. QED BY <1>2, <1>5, CommitSaves
<1>7. /\ OnlyMoves(i) /\ request'[i] # Awaited /\ NoReview(request'[i])
      /\ contested' = contested /\ reviewed' = reviewed
    BY OneMoves DEF CommitRewrite, OnlyMoves, Over, Awaited, NoReview
<1>8. a = "tests" => c.sound
    BY DEF NewContents
<1>9. SoundTests => SoundTests'
    BY <1>2, <1>6, <1>8, ContentsOfRows DEF SoundTests
<1>10. \A d \in Artifacts : artifact'[d].status = "approved" => artifact[d].status = "approved"
    BY <1>2, <1>6
<1>11. a \notin contested => InFlight({"approve"}, a) = {}
    BY <1>2 DEF InFlightInv, NoMeeting, InFlight
<1>12. ASSUME NEW k \in Ids, request[k] \in Looks \cup Approvals, request[k].on \notin contested
       PROVE  artifact'[request[k].on] = artifact[request[k].on]
    <2>1. request[k].on # a
        BY <1>11, <1>12, ReviewRecords DEF InFlight
    <2>2. QED BY <1>6, <1>12, <2>1, ReviewRecords
<1>13. InFlightInv'
    <2>1. \A k \in Ids \ {i} : request[k] \in Looks \cup Approvals =>
              LET d == request[k].on  m == request[k].made IN
              d \notin contested /\ SameRowAfter(d, m) =>
                  SameRow(d, m) /\ artifact'[d].content = artifact[d].content
        BY <1>6, <1>12, ReviewRecords DEF SameRow, SameRowAfter
    <2>2. \A k \in Ids \ {i} : request[k] \in Rewrites =>
              LET d == request[k].on  m == request[k].row.made IN
              d \notin contested /\ SameRowAfter(d, m) =>
                  /\ SameRow(d, m)
                  /\ artifact'[d].status = "approved" => artifact[d].status = "approved"
        BY <1>6, <1>10, ReviewRecords DEF SameRow, SameRowAfter
    <2>3. QED BY <1>6, <1>7, <1>9, <2>1, <2>2, InFlightStep
<1>14. ApprovedWasReviewed'
    <2>1. SUFFICES ASSUME NEW d \in Artifacts \ contested, artifact'[d].status = "approved"
                   PROVE  artifact'[d].content \in reviewed[d]
        BY <1>7 DEF ApprovedWasReviewed
    <2>2. artifact[d].content \in reviewed[d]
        BY <1>10, <2>1 DEF ApprovedInv, ApprovedWasReviewed
    <2>3. artifact'[d] = artifact[d]
        <3>1. CASE d = a /\ SameRow(a, r.row.made)
            <4>1. r.row.status = "pending" /\ artifact[a].status = "approved"
                BY <1>6, <2>1, <3>1
            <4>2. QED BY <1>1, <2>1, <3>1, <4>1 DEF InFlightInv, RewriteUndoes
        <3>2. QED BY <1>6, <3>1
    <2>4. QED BY <2>2, <2>3
<1>15. ApprovedIsCovered'
    BY <1>9, <1>10, ContentsOfRows DEF ApprovedInv, ApprovedIsCovered, SoundTests
<1>16. QED BY <1>13, <1>14, <1>15 DEF ApprovedInv

\* An approval, or a rejection, changes no content.
LEMMA DecisionStep ==
    ASSUME Typed, Typed', InFlightInv, ApprovedInv, NEW i \in Ids,
           CommitApprove(i) \/ CommitReject(i)
    PROVE  InFlightInv' /\ ApprovedInv'
<1> DEFINE r == request[i]
<1> DEFINE a == r.on
<1> DEFINE status == IF CommitApprove(i) THEN "approved" ELSE "rejected"
<1> DEFINE value == [r.row EXCEPT !.status = status]
<1>1. /\ CommitApprove(i) => r \in Approvals
      /\ CommitReject(i) => r \in Rejections
    BY RequestOf DEF CommitApprove, CommitReject, InStep, Typed
<1>2. a \in Artifacts /\ r.row \in ArtifactRows /\ r.step = "open"
      /\ r.kind = IF CommitApprove(i) THEN "approve" ELSE "reject"
    BY <1>1, ContentsOfRows DEF Approvals, Rejections
<1>3. artifact' = Saved(a, r.row, value)
    BY <1>2 DEF CommitApprove, CommitReject, InStep
<1>4. /\ value \in ArtifactRows /\ value.made = r.row.made
      /\ value.status = status /\ value.content = r.row.content
    BY <1>2, ChangedRows DEF ArtifactRows
<1>5. /\ \A d \in Artifacts : d # a => artifact'[d] = artifact[d]
      /\ \A d \in Artifacts : artifact'[d].made = artifact[d].made
      /\ \A d \in Artifacts : \A m : SameRowAfter(d, m) <=> SameRow(d, m)
      /\ IF SameRow(a, r.row.made)
         THEN /\ artifact'[a].status = IF status = r.row.status THEN artifact[a].status
                                                                ELSE status
              /\ artifact'[a].content = artifact[a].content
         ELSE artifact'[a] = artifact[a]
    <2> HIDE DEF value
    <2>1. QED BY <1>2, <1>3, <1>4, CommitSaves
<1>6. /\ OnlyMoves(i) /\ request'[i] # Awaited /\ NoReview(request'[i])
      /\ contested' = contested
    BY OneMoves DEF CommitApprove, CommitReject, OnlyMoves, Over, Awaited, NoReview
<1>7. \A d \in Artifacts : artifact'[d].content = artifact[d].content
    BY <1>5
<1>8. /\ CommitReject(i) => reviewed' = reviewed
      /\ CommitApprove(i) => reviewed'[a] = reviewed[a] \cup {r.seen}
      /\ \A d \in Artifacts : reviewed[d] \subseteq reviewed'[d]
    BY <1>2 DEF CommitApprove, CommitReject, Typed, ReviewsTyped
<1>9. CommitApprove(i) /\ a \notin contested => InFlight({"rewrite"}, a) = {}
    BY <1>2 DEF InFlightInv, NoMeeting, InFlight
<1>10. \A d \in Artifacts :
           artifact'[d].status = "approved" =>
               \/ artifact[d].status = "approved"
               \/ d = a /\ CommitApprove(i) /\ SameRow(a, r.row.made)
    BY <1>5
<1>11. InFlightInv'
    <2>1. \A k \in Ids \ {i} : request[k] \in Looks \cup Approvals =>
              LET d == request[k].on  m == request[k].made IN
              d \notin contested /\ SameRowAfter(d, m) =>
                  SameRow(d, m) /\ artifact'[d].content = artifact[d].content
        BY <1>5, <1>7, ReviewRecords DEF SameRow, SameRowAfter
    <2>2. \A k \in Ids \ {i} : request[k] \in Rewrites =>
              LET d == request[k].on  m == request[k].row.made IN
              d \notin contested /\ SameRowAfter(d, m) =>
                  /\ SameRow(d, m)
                  /\ artifact'[d].status = "approved" => artifact[d].status = "approved"
        <3>1. SUFFICES ASSUME NEW k \in Ids \ {i}, request[k] \in Rewrites,
                              request[k].on \notin contested,
                              SameRowAfter(request[k].on, request[k].row.made)
                       PROVE  /\ SameRow(request[k].on, request[k].row.made)
                              /\ artifact'[request[k].on].status = "approved" =>
                                     artifact[request[k].on].status = "approved"
            OBVIOUS
        <3>2. CommitApprove(i) => request[k].on # a
            BY <1>9, <3>1, ReviewRecords DEF InFlight
        <3>3. QED BY <1>5, <1>10, <3>1, <3>2, ReviewRecords DEF SameRow, SameRowAfter
    <2>3. SoundTests => SoundTests'
        BY <1>5, <1>7, ContentsOfRows DEF SoundTests
    <2>4. QED BY <1>5, <1>6, <2>1, <2>2, <1>7, <2>3, InFlightStep
<1>12. ApprovedWasReviewed'
    <2>1. SUFFICES ASSUME NEW d \in Artifacts \ contested, artifact'[d].status = "approved"
                   PROVE  artifact'[d].content \in reviewed'[d]
        BY <1>6 DEF ApprovedWasReviewed
    <2>2. CASE artifact[d].status = "approved"
        BY <1>7, <1>8, <2>1, <2>2 DEF ApprovedInv, ApprovedWasReviewed
    <2>3. CASE d = a /\ CommitApprove(i) /\ SameRow(a, r.row.made)
        <3>1. r \in Approvals /\ r.row.made = r.made
            BY <1>1, <2>3 DEF InFlightInv, ApprovalChecked
        <3>2. artifact[a].content = r.seen
            BY <2>1, <2>3, <3>1 DEF InFlightInv, SeenIsCurrent
        <3>3. QED BY <1>2, <1>7, <1>8, <2>3, <3>2
    <2>4. QED BY <1>10, <2>1, <2>2, <2>3
<1>13. ApprovedIsCovered'
    <2>1. CASE artifact["tests"].status = "approved"
        BY <1>7, <2>1, ContentsOfRows DEF ApprovedInv, ApprovedIsCovered
    <2>2. CASE a = "tests" /\ CommitApprove(i)
        BY <1>1, <1>2, <1>7, <2>2 DEF InFlightInv, ApprovalChecked, ApprovedIsCovered,
           SoundTests
    <2>3. QED BY <1>10, <2>1, <2>2, ContentsOfRows DEF ApprovedIsCovered
<1>14. QED BY <1>11, <1>12, <1>13 DEF ApprovedInv

\* A row that is new has a maker of its own, so nobody holds a copy of it.
LEMMA NewRowStep ==
    ASSUME Typed, Typed', InFlightInv, ApprovedInv, NEW i \in Ids,
           request[i] = Awaited, Moves(i, Over), contested' = contested,
           NEW u \in Artifacts, artifact[u].status = "absent",
           artifact'[u].made = i, u = "tests" => artifact'[u].status # "approved",
           artifact'[u].status = "approved" => artifact'[u].content \in reviewed'[u],
           \A a \in Artifacts : a # u => artifact'[a] = artifact[a],
           \A a \in Artifacts : reviewed[a] \subseteq reviewed'[a]
    PROVE  InFlightInv' /\ ApprovedInv'
<1>4. OnlyMoves(i) /\ request'[i] # Awaited /\ NoReview(request'[i])
    BY OneMoves DEF OnlyMoves, Over, Awaited, NoReview
<1>5. request[i] = Awaited /\ i # 0
    BY DEF Ids
<1>6. ASSUME NEW k \in Ids, request[k] \in Looks \cup Approvals PROVE request[k].made # i
    BY <1>5, <1>6 DEF InFlightInv, MakersArrived
<1>7. ASSUME NEW k \in Ids, request[k] \in Rewrites PROVE request[k].row.made # i
    BY <1>5, <1>7 DEF InFlightInv, MakersArrived
<1>8. \A a \in Artifacts : \A m : m # i /\ SameRowAfter(a, m) =>
          SameRow(a, m) /\ artifact'[a] = artifact[a]
    <2>1. SUFFICES ASSUME NEW a \in Artifacts, NEW m, m # i, SameRowAfter(a, m)
                   PROVE  SameRow(a, m) /\ artifact'[a] = artifact[a]
        OBVIOUS
    <2>2. a # u
        BY <2>1 DEF SameRowAfter
    <2>3. QED BY <2>1, <2>2 DEF SameRow, SameRowAfter
<1>9. InFlightInv'
    <2>1. \A a \in Artifacts : artifact'[a].made \in {artifact[a].made, 0, i}
        OBVIOUS
    <2>2. \A k \in Ids \ {i} : request[k] \in Looks \cup Approvals =>
              LET a == request[k].on  m == request[k].made IN
              a \notin contested /\ SameRowAfter(a, m) =>
                  SameRow(a, m) /\ artifact'[a].content = artifact[a].content
        BY <1>6, <1>8, ReviewRecords
    <2>3. \A k \in Ids \ {i} : request[k] \in Rewrites =>
              LET a == request[k].on  m == request[k].row.made IN
              a \notin contested /\ SameRowAfter(a, m) =>
                  /\ SameRow(a, m)
                  /\ artifact'[a].status = "approved" => artifact[a].status = "approved"
        BY <1>7, <1>8, ReviewRecords
    <2>4. SoundTests => SoundTests'
        BY ContentsOfRows DEF SoundTests
    <2>5. QED BY <1>4, <2>1, <2>2, <2>3, <2>4, InFlightStep
<1>10. ApprovedWasReviewed'
    BY DEF ApprovedInv, ApprovedWasReviewed
<1>11. ApprovedIsCovered'
    BY ContentsOfRows DEF ApprovedInv, ApprovedIsCovered
<1>12. QED BY <1>9, <1>10, <1>11 DEF ApprovedInv

\* An uploaded rubric, and a record of tests made by hand, are such rows.
LEMMA UploadStep ==
    ASSUME Typed, Typed', InFlightInv, ApprovedInv, NEW i \in Ids,
           UploadRubric(i) \/ PostRecord(i)
    PROVE  /\ InFlightInv' /\ ApprovedInv' /\ contested' = contested
           /\ \A a \in Artifacts : reviewed[a] \subseteq reviewed'[a]
<1>1. request[i] = Awaited /\ Moves(i, Over) /\ contested' = contested
    BY DEF UploadRubric, PostRecord, Arrives
<1>2. CASE UploadRubric(i)
    <2>1. PICK counts \in BOOLEAN :
              LET c == [by |-> i, sound |-> TRUE, counts |-> counts, given |-> "checked"] IN
              /\ artifact' = [artifact EXCEPT !["uploaded"] =
                                 [status |-> "approved", made |-> i, content |-> c]]
              /\ reviewed' = [reviewed EXCEPT !["uploaded"] = @ \cup {c}]
        BY <1>2 DEF UploadRubric
    <2> DEFINE c == [by |-> i, sound |-> TRUE, counts |-> counts, given |-> "checked"]
    <2>2. /\ artifact'["uploaded"] = [status |-> "approved", made |-> i, content |-> c]
          /\ reviewed'["uploaded"] = reviewed["uploaded"] \cup {c}
          /\ \A a \in Artifacts : a # "uploaded" => /\ artifact'[a] = artifact[a]
                                                    /\ reviewed'[a] = reviewed[a]
        BY <2>1, ContentsOfRows DEF Typed, ReviewsTyped
    <2>3. artifact["uploaded"].status = "absent" /\ "uploaded" \in Artifacts
          /\ "uploaded" # "tests"
        BY <1>2, ContentsOfRows DEF UploadRubric
    <2>4. \A a \in Artifacts : reviewed[a] \subseteq reviewed'[a]
        BY <2>2
    <2> HIDE DEF c
    <2>5. QED BY <1>1, <2>2, <2>3, <2>4, NewRowStep
<1>3. CASE PostRecord(i)
    <2>1. PICK c \in Contents :
              artifact' = [artifact EXCEPT !["tests"] =
                              [status |-> "pending", made |-> i, content |-> c]]
        BY <1>3 DEF PostRecord
    <2>2. /\ artifact'["tests"] = [status |-> "pending", made |-> i, content |-> c]
          /\ \A a \in Artifacts : a # "tests" => artifact'[a] = artifact[a]
        BY <2>1, ContentsOfRows DEF Typed, ReviewsTyped
    <2>3. artifact["tests"].status = "absent" /\ reviewed' = reviewed
        BY <1>3 DEF PostRecord
    <2>4. QED BY <1>1, <2>2, <2>3, NewRowStep, ContentsOfRows
<1>4. QED BY <1>1, <1>2, <1>3

\* A rubric that is deleted leaves what is known of the other artifacts.
LEMMA DeleteStep ==
    ASSUME Typed, Typed', InFlightInv, ApprovedInv, NEW i \in Ids, NEW a \in Artifacts,
           DeleteRubric(i, a)
    PROVE  InFlightInv' /\ ApprovedInv' /\ contested' = contested /\ reviewed' = reviewed
<1>1. /\ artifact' = [artifact EXCEPT ![a] = Absent] /\ a # "tests"
      /\ contested' = contested /\ reviewed' = reviewed
    BY ContentsOfRows DEF DeleteRubric
<1>2. /\ artifact'[a] = Absent
      /\ \A c \in Artifacts : c # a => artifact'[c] = artifact[c]
    BY <1>1 DEF Typed, ReviewsTyped
<1>3. OnlyMoves(i) /\ request'[i] # Awaited /\ NoReview(request'[i])
    BY OneMoves DEF DeleteRubric, OnlyMoves, Over, Awaited, NoReview
<1>4. \A c \in Artifacts : \A m : SameRowAfter(c, m) =>
          SameRow(c, m) /\ artifact'[c] = artifact[c]
    BY <1>2 DEF SameRow, SameRowAfter, Absent
<1>5. \A c \in Artifacts : artifact'[c].made \in {artifact[c].made, 0, i}
    BY <1>2 DEF Absent
<1>6. InFlightInv'
    <2>1. \A k \in Ids \ {i} : request[k] \in Looks \cup Approvals =>
              LET c == request[k].on  m == request[k].made IN
              c \notin contested /\ SameRowAfter(c, m) =>
                  SameRow(c, m) /\ artifact'[c].content = artifact[c].content
        BY <1>4, ReviewRecords
    <2>2. \A k \in Ids \ {i} : request[k] \in Rewrites =>
              LET c == request[k].on  m == request[k].row.made IN
              c \notin contested /\ SameRowAfter(c, m) =>
                  /\ SameRow(c, m)
                  /\ artifact'[c].status = "approved" => artifact[c].status = "approved"
        BY <1>4, ReviewRecords
    <2>3. SoundTests => SoundTests'
        BY <1>1, <1>2, ContentsOfRows DEF SoundTests
    <2>4. QED BY <1>1, <1>3, <1>5, <2>1, <2>2, <2>3, InFlightStep
<1>7. ApprovedInv'
    BY <1>1, <1>2, ContentsOfRows
    DEF ApprovedInv, ApprovedWasReviewed, ApprovedIsCovered, Absent
<1>8. QED BY <1>1, <1>6, <1>7

\* A step of a review keeps what is known of reviews.
LEMMA ReviewKeeps ==
    ASSUME Typed, Typed', InFlightInv, ApprovedInv, NEW i \in Ids, ReviewStep(i)
    PROVE  /\ InFlightInv' /\ ApprovedInv' /\ contested \subseteq contested'
           /\ \A a \in Artifacts : reviewed[a] \subseteq reviewed'[a]
<1>1. ASSUME NEW a \in Artifacts, DeleteRubric(i, a)
      PROVE  /\ InFlightInv' /\ ApprovedInv' /\ contested \subseteq contested'
             /\ \A c \in Artifacts : reviewed[c] \subseteq reviewed'[c]
    BY <1>1, DeleteStep
<1>2. CASE UploadRubric(i) \/ PostRecord(i)
    BY <1>2, UploadStep
<1>3. CASE CommitRewrite(i)
    BY <1>3, RewriteStep DEF CommitRewrite
<1>4. CASE CommitApprove(i) \/ CommitReject(i)
    <2>1. contested' = contested
        BY <1>4 DEF CommitApprove, CommitReject
    <2>2. \A a \in Artifacts : reviewed[a] \subseteq reviewed'[a]
        BY <1>4 DEF CommitApprove, CommitReject, Typed, ReviewsTyped
    <2>3. QED BY <1>4, <2>1, <2>2, DecisionStep
<1>5. CASE GenerationFails(i)
    <2>1. UNCHANGED reviews /\ OnlyMoves(i) /\ request'[i] # Awaited
          /\ NoReview(request'[i])
        BY <1>5, OneMoves DEF GenerationFails, OnlyMoves, Over, Awaited, NoReview
    <2>2. InFlightInv'
        BY <2>1, InFlightStep DEF reviews, SameRow, SameRowAfter, SoundTests
    <2>3. ApprovedInv'
        BY <2>1 DEF reviews, ApprovedInv, ApprovedWasReviewed, ApprovedIsCovered
    <2>4. QED BY <2>1, <2>2, <2>3 DEF reviews
<1>6. CASE \/ \E a \in Artifacts : OpenRewrite(i, a) \/ Look(i, a)
           \/ OpenApprove(i) \/ OpenReject(i)
    <2>1. UNCHANGED <<artifact, reviewed>> /\ contested \subseteq contested' /\ InFlightInv'
        BY <1>6, OpeningStep
    <2>2. ApprovedInv'
        BY <2>1 DEF ApprovedInv, ApprovedWasReviewed, ApprovedIsCovered
    <2>3. QED BY <2>1, <2>2
<1>7. QED
    BY <1>1, <1>2, <1>3, <1>4, <1>5, <1>6 DEF ReviewStep

\* Any other step leaves artifacts and requests of reviews alone.
LEMMA OthersKeepReviews ==
    ASSUME Typed, Typed', InFlightInv, ApprovedInv, UNCHANGED reviews,
           \/ request' = request
           \/ \E i \in Ids : BuildRequestStep(i) \/ ReadsOnly(i)
    PROVE  InFlightInv' /\ ApprovedInv'
<1>1. artifact' = artifact /\ reviewed' = reviewed /\ contested' = contested
    BY DEF reviews
<1>2. ApprovedInv'
    BY <1>1 DEF ApprovedInv, ApprovedWasReviewed, ApprovedIsCovered
<1>3. CASE request' = request
    BY <1>1, <1>2, <1>3
    DEF InFlightInv, MakersArrived, NoMeeting, SeenIsCurrent, ApprovalChecked, RewriteUndoes,
        SoundTests, SameRow, InFlight, Looks, Approvals, Rewrites, Rejections
<1>4. ASSUME NEW i \in Ids, BuildRequestStep(i) \/ ReadsOnly(i) PROVE InFlightInv'
    <2>1. OnlyMoves(i) /\ request'[i] # Awaited /\ NoReview(request'[i])
        BY <1>4, OthersDoNotReview
    <2>2. QED BY <1>1, <2>1, InFlightStep DEF SameRow, SameRowAfter, SoundTests
<1>5. QED BY <1>2, <1>3, <1>4

\* Nothing is approved at first.
LEMMA InitReviews == Init => ReviewInv
<1>1. SUFFICES ASSUME NEW s \in Stages,
                      RequestsInit(s.expected), ReviewsInit(s.artifact), jobs = {}
               PROVE  ReviewInv
    BY DEF Init
<1>2. \A i \in Ids : request[i] = Awaited /\ NoReview(request[i])
    BY <1>1 DEF RequestsInit, Awaited, NoReview
<1>3. \A i \in Ids : request[i] \notin Looks \cup Approvals \cup Rewrites \cup Rejections
    BY <1>2, NoReviewRecords
<1>4. \A a \in Artifacts : artifact[a].made = 0
    BY <1>1, StagesAssumption DEF ReviewsInit
<1>5. InFlightInv
    BY <1>2, <1>3, <1>4
    DEF InFlightInv, MakersArrived, NoMeeting, SeenIsCurrent, ApprovalChecked, RewriteUndoes,
        InFlight, Awaited
<1>6. ApprovedInv
    BY <1>1, StagesAssumption
    DEF ReviewsInit, ApprovedInv, ApprovedWasReviewed, ApprovedIsCovered
<1>7. BoundTestsReviewed
    BY <1>1, <1>2 DEF BoundTestsReviewed, Bound, InStep, Awaited
<1>8. QED BY <1>5, <1>6, <1>7 DEF ReviewInv

\* Every step keeps the invariant of the reviews, one case for each action.
LEMMA NextKeepsReviews ==
    ASSUME Typed, Typed', Next, ReviewInv
    PROVE  ReviewInv'
<1>1. InFlightInv /\ ApprovedInv BY DEF ReviewInv
<1>2. /\ InFlightInv' /\ ApprovedInv' /\ contested \subseteq contested'
      /\ \A a \in Artifacts : reviewed[a] \subseteq reviewed'[a]
    <2>1. ASSUME UNCHANGED reviews,
                 \/ request' = request
                 \/ \E i \in Ids : BuildRequestStep(i) \/ ReadsOnly(i)
          PROVE  /\ InFlightInv' /\ ApprovedInv' /\ contested \subseteq contested'
                 /\ \A a \in Artifacts : reviewed[a] \subseteq reviewed'[a]
        BY <1>1, <2>1, OthersKeepReviews DEF reviews
    <2>2. CASE \E i \in Ids : BuildRequestStep(i) /\ UNCHANGED <<reviews, assignment, jobs>>
        BY <2>1, <2>2
    <2>3. CASE \E i \in Ids : ReviewStep(i) /\ UNCHANGED <<building, assignment, jobs>>
        BY <1>1, <2>3, ReviewKeeps
    <2>4. CASE \E i \in Ids : ReadsOnly(i)
        BY <2>1, <2>4, PublicationTyped
    <2>5. CASE \E b \in Builders : BuilderStep(b) /\ UNCHANGED <<reviews, assignment, jobs>>
        BY <2>1, <2>5 DEF BuilderStep, requests
    <2>6. QED BY <2>2, <2>3, <2>4, <2>5, NextSorts
<1>3. BoundTestsReviewed'
    <2>1. SUFFICES ASSUME NEW j \in Bound', j.counts
                   PROVE  /\ j.tests.given # "none" /\ j.tests.sound
                          /\ "tests" \notin contested' => j.tests \in reviewed'["tests"]
        BY DEF BoundTestsReviewed
    <2>2. CASE j \in Bound
        BY <1>2, <2>1, <2>2, ContentsOfRows DEF ReviewInv, BoundTestsReviewed
    <2>3. CASE j \notin Bound
        <3>1. ApprovedTests /\ j.tests = artifact["tests"].content /\ j.tests.given # "none"
            BY <2>1, <2>3, BoundStep
        <3>2. j.tests.sound
            BY <1>1, <3>1 DEF ApprovedInv, ApprovedIsCovered, ApprovedTests
        <3>3. "tests" \notin contested => j.tests \in reviewed["tests"]
            BY <1>1, <3>1, ContentsOfRows
            DEF ApprovedInv, ApprovedWasReviewed, ApprovedTests
        <3>4. QED BY <1>2, <3>1, <3>2, <3>3, ContentsOfRows
    <2>4. QED BY <2>2, <2>3
<1>4. QED BY <1>2, <1>3 DEF ReviewInv

\* The invariant of the reviews holds throughout.
LEMMA ReviewInvariant == Spec => [](Typed /\ ReviewInv)
<1>1. Init => Typed /\ ReviewInv
    BY InitTyped, InitReviews
<1>2. ASSUME Typed, ReviewInv, [Next]_vars PROVE (Typed /\ ReviewInv)'
    <2>1. CASE Next
        BY <1>2, <2>1, NextTyped, NextKeepsReviews
    <2>2. CASE UNCHANGED vars
        <3>1. Typed' BY <1>2, <2>2, VarsTyped
        <3>2. UNCHANGED reviews /\ request' = request /\ Bound' = Bound
            BY <2>2 DEF vars, requests, Bound, InStep
        <3>3. InFlightInv' /\ ApprovedInv'
            BY <1>2, <3>1, <3>2, OthersKeepReviews DEF ReviewInv
        <3>4. BoundTestsReviewed'
            BY <1>2, <3>2 DEF ReviewInv, reviews, BoundTestsReviewed
        <3>5. QED BY <3>1, <3>3, <3>4 DEF ReviewInv
    <2>3. QED BY <1>2, <2>1, <2>2
<1>3. QED BY <1>1, <1>2, PTL DEF Spec

\* What is approved was looked at by its approver, also when it is deleted and uploaded
\* again, rejected, or rewritten before or after (code_eval.py, rubrics.py); only a review
\* and a rewrite that overlap can defeat it.
THEOREM ApprovedWasLookedAt == Spec => []ApprovedWasReviewed
<1>1. ReviewInv => ApprovedWasReviewed BY DEF ReviewInv, ApprovedInv
<1>2. QED BY <1>1, ReviewInvariant, PTL

\* What approve reads in approved tests passes the coverage gate, without exception:
\* approve checks the content it loads, and only content that passed replaces it.
THEOREM ApprovedTestsAreCovered == Spec => []ApprovedIsCovered
<1>1. ReviewInv => ApprovedIsCovered BY DEF ReviewInv, ApprovedInv
<1>2. QED BY <1>1, ReviewInvariant, PTL

\* A dispatched job that scores with test cases has some, of a record that passed the gate
\* and that somebody looked at (submissions.py); in a record made by hand they need not be
\* the tests that passed.
THEOREM JobTestsWereLookedAt == Spec => []JobTestsWereReviewed
<1>1. ReviewInv => JobTestsWereReviewed
    BY DEF ReviewInv, BoundTestsReviewed, Bound, JobTestsWereReviewed
<1>2. QED BY <1>1, ReviewInvariant, PTL
=============================================================================
