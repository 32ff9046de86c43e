---------------------------- MODULE MCDecisions ----------------------------
(* One item of each kind before two people who decide at once. *)
EXTENDS Decisions
CONSTANTS d1, d2, command, refresh, memory
MCDeciders == {d1, d2}
MCActions == {command}
MCRefreshes == {refresh}
MCProposals == {memory}
=============================================================================
