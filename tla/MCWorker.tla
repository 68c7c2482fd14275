------------------------------ MODULE MCWorker ------------------------------
(***************************************************************************)
(* Instances of Worker for TLC: two runs, of which one hangs until it is   *)
(* canceled, and a shutdown request.                                       *)
(***************************************************************************)
EXTENDS Worker

CONSTANTS r1, r2, q1

TwoRuns == {r1, r2}
OnePost == {q1}
OneStuck == {r2}

=============================================================================
