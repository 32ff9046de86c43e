-------------------------- MODULE MCExecutionRuns --------------------------
(***************************************************************************)
(* Two runs; the client may name the same context for both.  Of the skills *)
(* on file one is active and as often failed as worked, one has worked     *)
(* once; two rows are free.                                                *)
(***************************************************************************)
EXTENDS ExecutionRuns, TLC

CONSTANTS r1, r2, c1, s1, s2, s3, s4, e1, e2, deploy, rotate

MCLearned ==
  s1 :> [status |-> "active", trigger |-> deploy, successes |-> 2, failures |-> 2] @@
  s2 :> [status |-> "proposed", trigger |-> rotate, successes |-> 1, failures |-> 0] @@
  s3 :> FreeRow @@ s4 :> FreeRow
MCNamed == r1 :> {c1} @@ r2 :> {c1, None}
MCTeachers == s1 :> {e1, e2} @@ s2 :> {e1} @@ s3 :> {} @@ s4 :> {}
=============================================================================
