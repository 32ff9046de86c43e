---------------------------- MODULE MCSyncEngine ----------------------------
(* Small instances of SyncEngine for TLC. *)
EXTENDS SyncEngine, TLC

CONSTANTS w1, w2, j1, j2, r1, r2, p1, p2

\* One job of two pages, and a second job on the same resource and project.
TwoPages == <<{r1}, {r2}>>
SameProject == (j1 :> p1) @@ (j2 :> p1)
Shared == (j1 :> TwoPages) @@ (j2 :> <<{r1, r2}>>)
Single == (j1 :> TwoPages)
SingleProject == (j1 :> p1)

AllFaults == FaultKinds
CrashOnly == {"crash"}
\* No batch fails for ever and no audit event is lost: every job settles once.
CrashesEnd == FaultKinds \ {"batch", "audit"}
=============================================================================
