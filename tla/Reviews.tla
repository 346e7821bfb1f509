------------------------------- MODULE Reviews -------------------------------
(***************************************************************************)
(* What an instructor approves before anything is graded with it: the      *)
(* record of generated test cases (status pending, approved or rejected)   *)
(* and the rubrics (approved or not, here the statuses approved and        *)
(* pending).  The reviewer looks at the content first; the handler of      *)
(* `approve' sets a status and says nothing of the content it is about.    *)
(***************************************************************************)
EXTENDS Requests

VARIABLES
  artifact,     \* per artifact: its row's status, maker and content
  reviewed,     \* per artifact: the contents an approver has looked at
  contested     \* artifacts that were reviewed and rewritten at the same time

reviews == <<artifact, reviewed, contested>>

Rubrics == {"drafted", "uploaded"}
Artifacts == {"tests"} \cup Rubrics

(***************************************************************************)
(* A content: the request that wrote it (0 at first); whether it is sound  *)
(* (tests: what approve reads, testcase_raw_with_classes or else `tests',  *)
(* passes _validate_coverage; rubric: scoring_policy.coding is there and   *)
(* its weights are legal); in a rubric, whether test cases count           *)
(* (testcase_weight > 0, which is also the default); and, in tests, what   *)
(* dispatch takes, `testcases' or else `tests': the tests approve reads,   *)
(* others, or none, for a record made by hand can have the fields differ.  *)
(***************************************************************************)
Contents == [by : 0 .. MaxRequests, sound : BOOLEAN, counts : BOOLEAN,
             given : {"checked", "others", "none"}]
NoContent == [by |-> 0, sound |-> FALSE, counts |-> TRUE, given |-> "none"]

\* `made' tells a row from one uploaded after it was deleted (0 at first).
ArtifactRows == [status : {"absent", "pending", "approved", "rejected"},
                 made : 0 .. MaxRequests, content : Contents]

Absent == [status |-> "absent", made |-> 0, content |-> NoContent]

ReviewsInit(rows) ==
  /\ artifact = rows
  /\ reviewed = [a \in Artifacts |->
                   IF rows[a].status = "approved" THEN {rows[a].content} ELSE {}]
  /\ contested = {}

\* An UPDATE of a row that was deleted matches nothing, and the handler fails.
Saved(a, loaded, value) ==
  IF artifact[a].status = "absent" \/ artifact[a].made # loaded.made THEN artifact
  ELSE [artifact EXCEPT ![a] = Flushed(loaded, value, @)]

Meets(kinds, a) == IF InFlight(kinds, a) = {} THEN contested ELSE contested \cup {a}
-----------------------------------------------------------------------------
(* Writers: generate-tests and POST of a record; PATCH, upload and DELETE of a rubric *)

\* The rows are loaded, then the model service is asked, or the body is at hand.
OpenRewrite(i, a) ==
  /\ Arrives(i, "rewrite")
  /\ artifact[a].status # "absent"
  /\ Moves(i, [step |-> "open", kind |-> "rewrite", on |-> a, row |-> artifact[a]])
  /\ contested' = Meets({"approve"}, a)
  /\ UNCHANGED <<artifact, reviewed>>

\* Drafts pass the coverage gate before they are stored; a PATCH is not checked.
NewContents(i, a) ==
  {c \in Contents : /\ c.by = i /\ c.given = "checked"
                    /\ a = "tests" => c.sound /\ c.counts}

\* (mutant) The new content keeps the status.
RewriteApproved(i) ==
  /\ InStep(i, "rewrite", "open")
  /\ LET r == request[i] IN
       \E c \in NewContents(i, r.on) :
         artifact' = Saved(r.on, r.row, [r.row EXCEPT !.content = c])
  /\ Moves(i, Over)
  /\ UNCHANGED <<reviewed, contested>>

CommitRewrite(i) ==
  /\ InStep(i, "rewrite", "open")
  /\ LET r == request[i] IN
       \E c \in NewContents(i, r.on) :
         artifact' = Saved(r.on, r.row, [r.row EXCEPT !.status = "pending", !.content = c])
  /\ Moves(i, Over)
  /\ UNCHANGED <<reviewed, contested>>

\* The model service fails, or its draft does not pass the coverage gate.
GenerationFails(i) ==
  /\ InStep(i, "rewrite", "open")
  /\ request[i].on = "tests"
  /\ Moves(i, Over)
  /\ UNCHANGED reviews

\* A rubric the instructor uploads is approved from the start.
UploadRubric(i) ==
  /\ Arrives(i, "upload")
  /\ artifact["uploaded"].status = "absent"
  /\ \E counts \in BOOLEAN :
       LET c == [by |-> i, sound |-> TRUE, counts |-> counts, given |-> "checked"] IN
         /\ artifact' = [artifact EXCEPT !["uploaded"] =
                          [status |-> "approved", made |-> i, content |-> c]]
         /\ reviewed' = [reviewed EXCEPT !["uploaded"] = @ \cup {c}]
  /\ Moves(i, Over)
  /\ UNCHANGED contested

\* A record made by hand is pending, with any content.
PostRecord(i) ==
  /\ Arrives(i, "post")
  /\ artifact["tests"].status = "absent"
  /\ \E c \in Contents :
       /\ c.by = i /\ c.counts
       /\ artifact' = [artifact EXCEPT !["tests"] =
                        [status |-> "pending", made |-> i, content |-> c]]
  /\ Moves(i, Over)
  /\ UNCHANGED <<reviewed, contested>>

DeleteRubric(i, a) ==
  /\ Arrives(i, "delete")
  /\ a \in Rubrics /\ artifact[a].status # "absent"
  /\ artifact' = [artifact EXCEPT ![a] = Absent]
  /\ Moves(i, Over)
  /\ UNCHANGED <<reviewed, contested>>
-----------------------------------------------------------------------------
(* Reviewers *)

\* The instructor reads the content (GET), and decides.
Look(i, a) ==
  /\ Arrives(i, "approve")
  /\ artifact[a].status # "absent"
  /\ Moves(i, [step |-> "looked", kind |-> "approve", on |-> a,
               made |-> artifact[a].made, seen |-> artifact[a].content])
  /\ contested' = Meets({"rewrite"}, a)
  /\ UNCHANGED <<artifact, reviewed>>

\* (mutant) Coverage is left to the reviewer.
OpenUnchecked(i) ==
  /\ InStep(i, "approve", "looked")
  /\ LET r == request[i]  row == artifact[r.on] IN
       Moves(i, IF row.status # "absent" /\ row.made = r.made
                THEN [step |-> "open", kind |-> "approve", on |-> r.on,
                      made |-> r.made, seen |-> r.seen, row |-> row]
                ELSE Over)
  /\ UNCHANGED reviews

\* approve: the row is loaded and the loaded content checked.
OpenApprove(i) ==
  /\ InStep(i, "approve", "looked")
  /\ LET r == request[i]  row == artifact[r.on] IN
       Moves(i, IF row.status # "absent" /\ row.made = r.made /\ row.content.sound
                THEN [step |-> "open", kind |-> "approve", on |-> r.on,
                      made |-> r.made, seen |-> r.seen, row |-> row]
                ELSE Over)
  /\ UNCHANGED reviews

CommitApprove(i) ==
  /\ InStep(i, "approve", "open")
  /\ LET r == request[i] IN
       /\ artifact' = Saved(r.on, r.row, [r.row EXCEPT !.status = "approved"])
       /\ reviewed' = [reviewed EXCEPT ![r.on] = @ \cup {r.seen}]
  /\ Moves(i, Over)
  /\ UNCHANGED contested

OpenReject(i) ==
  /\ Arrives(i, "reject")
  /\ Moves(i, [step |-> "open", kind |-> "reject", on |-> "tests", row |-> artifact["tests"]])
  /\ UNCHANGED reviews

CommitReject(i) ==
  /\ InStep(i, "reject", "open")
  /\ LET r == request[i] IN
       artifact' = Saved(r.on, r.row, [r.row EXCEPT !.status = "rejected"])
  /\ Moves(i, Over)
  /\ UNCHANGED <<reviewed, contested>>

ReviewStep(i) ==
  \/ \E a \in Artifacts : OpenRewrite(i, a) \/ Look(i, a) \/ DeleteRubric(i, a)
  \/ CommitRewrite(i) \/ GenerationFails(i) \/ UploadRubric(i) \/ PostRecord(i)
  \/ OpenApprove(i) \/ CommitApprove(i)
  \/ OpenReject(i) \/ CommitReject(i)
-----------------------------------------------------------------------------
(***************************************************************************)
(* What is approved is what an approver looked at: new content, from the   *)
(* model or from a PATCH, is pending until somebody has seen it.  Only     *)
(* where a review and a rewrite of one artifact overlap may an approval    *)
(* rest on content nobody saw: approve does not name the content it is     *)
(* for, and a rewrite that loaded `pending' does not write the status.     *)
(***************************************************************************)
ApprovedWasReviewed ==
  \A a \in Artifacts \ contested :
    artifact[a].status = "approved" => artifact[a].content \in reviewed[a]

(***************************************************************************)
(* What approve reads in an approved record passes the coverage gate, even *)
(* where an approval and a generation overlap.                             *)
(***************************************************************************)
ApprovedIsCovered ==
  artifact["tests"].status = "approved" => artifact["tests"].content.sound
=============================================================================
