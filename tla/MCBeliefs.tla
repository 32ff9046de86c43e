------------------------------ MODULE MCBeliefs ------------------------------
(* Small instances of Beliefs for TLC. *)
EXTENDS Beliefs, TLC

CONSTANTS e1, e2, fixture, entra, gone, code, wiki, claim

Order == (code :> 1) @@ (wiki :> 2)

Says(k, v, t) == [kind |-> k, claim |-> claim, value |-> v, tier |-> t]

\* Equal and different authorities add, change the value and back, and remove it.
Readings ==
  {<<Says("added", fixture, wiki)>>, <<Says("added", entra, code)>>, <<Says("added", fixture, code)>>,
   <<Says("added", fixture, code), Says("modified", entra, wiki)>>,
   <<Says("modified", fixture, code), Says("removed", gone, code)>>}
=============================================================================
