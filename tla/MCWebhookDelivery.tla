-------------------------- MODULE MCWebhookDelivery --------------------------
(* Small instances of WebhookDelivery for TLC. *)
EXTENDS WebhookDelivery, TLC

CONSTANTS w1, h1, h2, d1, d2, d3, j1, k1, k2, n1, n2, r1, p1

\* j1 is the user's sync of the resource; k1/k2 and n1/n2 are the jobs the
\* deliveries d1 and d2 queue for project p1 and for no project.
AllJobs == {j1, k1, k2, n1, n2}
JobProject == (j1 :> p1) @@ (k1 :> p1) @@ (k2 :> p1) @@ (n1 :> NoProject) @@ (n2 :> NoProject)
OnePage == [j \in AllJobs |-> <<{r1}>>]
JobsOfHooks ==
    (d1 :> ((p1 :> k1) @@ (NoProject :> n1))) @@ (d2 :> ((p1 :> k2) @@ (NoProject :> n2)))
    @@ (d3 :> ((p1 :> k2) @@ (NoProject :> n2)))
\* d1 carries the record, d2 only names the resource, d3 names none (its job
\* keys, which are d2's, are never used).
Carried == (d1 :> {r1}) @@ (d2 :> {}) @@ (d3 :> {})

Threads == Permutations({h1, h2})

HookFaults == {"crash", "apply", "release", "provider", "audit"}
=============================================================================
