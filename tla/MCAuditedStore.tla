--------------------------- MODULE MCAuditedStore ---------------------------
(* A small instance of the signed store: two analysis runs, reports that   *)
(* are completed or still streaming.                                       *)
EXTENDS AuditedStore, TLC

CONSTANTS done, streaming

MCRuns      == {1, 2}
MCReports   == {done, streaming}
MCCompleted == {done}

Symmetry == Permutations(Requests)
=============================================================================
