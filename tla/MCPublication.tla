---------------------------- MODULE MCPublication ----------------------------
(* Publication with two versions, two worker processes and three requests. *)
EXTENDS Publication

CONSTANTS v1, v2, image, old, new

\* Both versions name one image, or the first is a snapshot whose files can change.
OneImage == [v \in Versions |-> {image}]
Snapshot == [v \in Versions |-> IF v = v1 THEN {old, new} ELSE {image}]

Row(status, key) == [status |-> status, key |-> key]
Written(status, sound, counts) ==
  [status |-> status, made |-> 0,
   content |-> [by |-> 0, sound |-> sound, counts |-> counts, given |-> "checked"]]
Rows(tests, rubric) ==
  [a \in Artifacts |-> IF a = "tests" THEN tests ELSE IF a = "drafted" THEN rubric ELSE Absent]
Versioned(first) == [v \in Versions |-> IF v = v1 THEN first ELSE Row("draft", NoKey)]

\* Nothing is published: one version is ready or none, the artifacts as given.
Stage(r, first, tests, rubric, kinds) ==
  [env |-> Versioned(first), resolves |-> r, artifact |-> Rows(tests, rubric),
   assignment |-> [published |-> FALSE, version |-> NoVersion], expected |-> kinds]

Publish(stage) == [stage EXCEPT !.assignment = [published |-> TRUE, version |-> v1]]

Approved(counts) == Written("approved", TRUE, counts)

\* Builds of both versions, a job made between or after two builds, a version that is
\* built and published at once, and one that was created ready without a key.
BuildStages ==
  {Stage(OneImage, Row("draft", NoKey), Approved(TRUE), Approved(FALSE),
         <<{"build"}, {"build"}, {}>>)}
  \cup {Publish(Stage(Snapshot, Row("ready", old), Approved(TRUE), Approved(TRUE),
                      <<{"build"}, {"job"}, {"build"}>>)),
        Publish(Stage(OneImage, Row("ready", image), Approved(TRUE), Approved(TRUE),
                      <<{"build"}, {"build"}, {"job"}>>))}
  \cup {Stage(Snapshot, Row("ready", old), Approved(TRUE), Approved(TRUE),
              <<{"publish"}, {"build"}, {"job"}>>),
        Stage(Snapshot, Row("ready", NoKey), Approved(TRUE), Approved(TRUE),
              <<{"publish"}, {"build", "job"}, {"job"}>>)}

\* Reviews, before or after the assignment is published.
ReviewStages ==
  LET kinds == {"rewrite", "approve", "reject", "upload", "delete", "publish", "job"}
      Ready1(tests, rubric) ==
        Stage(OneImage, Row("ready", image), tests, rubric, <<kinds, kinds, kinds>>) IN
  {Ready1(Written("pending", sound, TRUE), Written("pending", TRUE, FALSE)) : sound \in BOOLEAN}
  \cup {Publish(Ready1(Approved(TRUE), Approved(counts))) : counts \in BOOLEAN}

\* A record of tests made by hand.
HandMade ==
  {Publish(Stage(OneImage, Row("ready", image), Absent, Approved(TRUE),
                 <<{"post"}, {"approve"}, {"rewrite", "job"}>>))}

mcStages == BuildStages \cup ReviewStages \cup HandMade
=============================================================================
