---------------------------- MODULE MCReviewQueue ----------------------------
(* Two findings, two processes that file or post; one ticket of each kind. *)
EXTENDS ReviewQueue

CONSTANTS f1, f2, cli, dashboard

MCFindings == {f1, f2}
MCReports == {{f1}, {f1, f2}}
MCProcesses == {cli, dashboard}
MCKinds == {"audit", "draft"}
=============================================================================
