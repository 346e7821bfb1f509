--------------------------- MODULE MCGradeRelease ---------------------------
(* GradeRelease with two students and three requests. *)
EXTENDS GradeRelease

CONSTANTS s1, s2

Row(jobs) == [there |-> TRUE, id |-> 0, upload |-> 0, file |-> TRUE, pending |-> FALSE,
              jobs |-> jobs]
FirstGrade == {[id |-> 0, active |-> TRUE, status |-> "not_synced"]}

\* The first student has a submission and the first grade, the second what is given.
Course(isCoding, first, second, kinds) ==
  [coding |-> isCoding,
   submission |-> [s \in Subs |-> IF s = s1 THEN first ELSE second],
   grades |-> [s \in Subs |-> IF (IF s = s1 THEN first ELSE second).there
                              THEN FirstGrade ELSE {}],
   expected |-> kinds]

Drafts == {"draft", "draft_all"}

mcCourses ==
  \* two pushes, and a regrade before, between or after what they do
  {Course(FALSE, Row("none"), Row("none"), kinds) :
     kinds \in {<<Releases, {"grade"}, Releases>>, <<Releases, Releases, {"grade"}>>,
                <<{"release"}, Drafts, {"release"}>>, <<Drafts, {"release"}, {"grade"}>>}}
  \* a push and a deletion
  \cup {Course(FALSE, Row("none"), Row("none"),
               <<{"release"}, {"delete"}, {"draft", "delete", "correct"}>>)}
  \* ingests, one student being new
  \cup {Course(FALSE, Row("none"), NoSubmission, <<{"ingest"}, {"ingest"}, {"grade", "delete", "correct"}>>),
        Course(FALSE, Row("none"), NoSubmission, <<{"delete"}, {"ingest"}, {"release"}>>)}
  \* deletions of a coding assignment
  \cup {Course(TRUE, Row("none"), Row(jobs),
               <<{"delete"}, {"job", "grade", "ingest"}, {"delete", "grade"}>>) :
          jobs \in {"none", "open", "graded"}}
=============================================================================
