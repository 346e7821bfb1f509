---------------------------- MODULE GradeLedger ----------------------------
(***************************************************************************)
(* What every writer of the grades table promises to its readers: the      *)
(* table is a ledger.  A commit adds one row, active, and may archive      *)
(* older rows of the same submission; no row is removed, taken out of the  *)
(* archive or attributed to another submission or source.  CodeEvalJob and *)
(* WrittenPipeline implement this, each with the row ids that its          *)
(* transactions captured some steps before they commit.                    *)
(***************************************************************************)
EXTENDS Naturals, Sequences

CONSTANTS Subs,     \* submissions
          Sources   \* GradeSource: who can enter a grade

VARIABLE rows       \* the grade rows, in commit order

NewRows == [sub : Subs, source : Sources, active : {TRUE}]

Init == rows = <<>>

\* Any of the older rows may be archived, not only the active ones: a writer may have
\* captured a row that another one has archived by now, and may have missed a row.
Commit(row, older) ==
    /\ \A g \in older : rows[g].sub = row.sub
    /\ rows' = Append([g \in DOMAIN rows |->
                           IF g \in older THEN [rows[g] EXCEPT !.active = FALSE] ELSE rows[g]],
                      row)

Next == \E row \in NewRows, older \in SUBSET DOMAIN rows : Commit(row, older)

Spec == Init /\ [][Next]_rows
=============================================================================
