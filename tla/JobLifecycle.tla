----------------------------- MODULE JobLifecycle -----------------------------
(***************************************************************************)
(* What a connector sync job promises its user (the states that            *)
(* connector_sync_jobs shows, backend/app/core/database.py and             *)
(* SyncEngine.list): once queued it is open, it takes the pages of its     *)
(* resource in order, each once, and it ends by having taken the last one  *)
(* or by giving up; an ended job never changes again.                      *)
(***************************************************************************)
EXTENDS Naturals

CONSTANTS
    Jobs,
    PageCount  \* job -> number of pages of its resource

VARIABLES phase, taken

lifeVars == <<phase, taken>>

LifeInit ==
    /\ phase = [j \in Jobs |-> "absent"]
    /\ taken = [j \in Jobs |-> 0]

Submit(j) ==
    /\ phase[j] = "absent"
    /\ phase' = [phase EXCEPT ![j] = "open"]
    /\ UNCHANGED taken

\* The next page is taken; with the last one the job has succeeded.
TakePage(j) ==
    /\ phase[j] = "open"
    /\ taken' = [taken EXCEPT ![j] = @ + 1]
    /\ phase' = [phase EXCEPT ![j] =
                    IF taken[j] + 1 = PageCount[j] THEN "succeeded" ELSE "open"]

GiveUp(j) ==
    /\ phase[j] = "open"
    /\ phase' = [phase EXCEPT ![j] = "failed"]
    /\ UNCHANGED taken

LifeNext == \E j \in Jobs : Submit(j) \/ TakePage(j) \/ GiveUp(j)

LifeSpec == LifeInit /\ [][LifeNext]_lifeVars
===============================================================================
