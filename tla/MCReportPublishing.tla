------------------------- MODULE MCReportPublishing -------------------------
(* Suites and parameters for the run of ReportPublishing. *)
EXTENDS ReportPublishing

CONSTANTS r1, r2, c1, c2

TwoSuites == <<r1, r2>>

\* No tags or both on the one commit, `pass` on the other.
SomeTags == {[c \in {c1, c2} |-> IF c = c1 THEN t ELSE {"pass"}] : t \in {{}, Verdict}}

Param(pass, fail) ==
    [pass |-> pass, fail |-> fail, teams |-> TRUE, git |-> TRUE, dryRun |-> FALSE,
     user |-> TRUE, short |-> TRUE, branch |-> FALSE]
\* Tags for both verdicts, of a branch; for `pass` only, without the user git asks
\* for; a dry run; messages only.
FewSettings ==
    { [Param({"tag"}, {"post", "tag"}) EXCEPT !.branch = TRUE],
      [Param({"tag"}, {"post"}) EXCEPT !.user = FALSE],
      [Param({"tag"}, {"post"}) EXCEPT !.dryRun = TRUE],
      [Param({}, {"post"}) EXCEPT !.git = FALSE, !.short = FALSE] }
=============================================================================
