--------------------------- MODULE MCSourceMemory ---------------------------
(***************************************************************************)
(* A runbook, which a repository scan also visits, and a report on the same *)
(* subjects.  Going from the old text to the new one contradicts one       *)
(* statement and drops a subject; going back updates it, and drops a       *)
(* subject whose key another one shares.                                   *)
(***************************************************************************)
EXTENDS SourceMemory, TLC

CONSTANTS runbook, report, old, new, deploy, deployNow, deployAgain, owner,
          releases, releasesToo, people, releasing, owning

MCSources == {runbook, report}
MCTexts == {old, new}
MCSays == old :> <<deploy, owner>> @@ new :> <<deployNow, deployAgain>>
MCStatements == {deploy, deployNow, deployAgain, owner}
MCSubject == deploy :> releases @@ deployNow :> releases @@ deployAgain :> releasesToo @@ owner :> people
MCKey == releases :> releasing @@ releasesToo :> releasing @@ people :> owning
MCContradicts == {<<deploy, deployNow>>}
MCSymmetry == Permutations(Threads) \union Permutations(Units)
=============================================================================
