------------------------------- MODULE Beliefs -------------------------------
(***************************************************************************)
(* The belief ledger (memory/beliefs.py) and what feeds it: change events  *)
(* of a repository, each interpreted and reconciled by a background task   *)
(* of its own (memory/change_intelligence.py, memory/authority.py).        *)
(*                                                                         *)
(* A task reads the current belief of a claim, looks for an equal belief,  *)
(* inserts one, and links or retires in connections of their own, so the   *)
(* tasks of two events interleave, and an error leaves a part done.  One   *)
(* project is modelled: beliefs of different projects never meet.          *)
(***************************************************************************)
EXTENDS Naturals, Sequences, FiniteSets

CONSTANTS
  Deliveries,  \* delivery ids of change events
  Claims,      \* a claim together with its scope
  Values,      \* what a claim may say
  Tiers,       \* authority tiers,
  Rank,        \* and their place in the configured order, 1 the highest
  Extractions, \* what the interpreter may make of a diff: what is added, then modified, then removed
  MaxFaults,   \* bound: errors of a provider, the interpreter, the graph or the database
  MaxCrashes   \* bound: ends of the process

Change == [kind : {"added", "modified", "removed"}, claim : Claims, value : Values, tier : Tiers]

ASSUME BeliefAssumption ==
  /\ Rank \in [Tiers -> Nat] /\ Extractions \subseteq Seq(Change)
  /\ MaxFaults \in Nat /\ MaxCrashes \in Nat

None == 0  \* no belief; beliefs are numbered in the order of created_at

VARIABLES
  ledger,      \* beliefs
  evidence,    \* belief_evidence: a belief and the delivery that supports it
  relations,   \* belief_relationships: from, to, kind
  event,       \* status of semantic_change_events; "absent" before it is observed
  arrived,     \* its created_at, the valid_from of the beliefs it creates
  said,        \* interpretation_json
  pc, at,      \* per event: place of its task, number of the change it is at
  cur, cand,   \* the current belief the task read, the belief that says the new value
  faults, crashes,
  overlapped,  \* history: two tasks were at work at once
  unheard      \* history: events whose task ended without recording how

events == <<event, arrived, said>>
tables == <<ledger, evidence, relations>>
local == <<at, cur, cand>>
bounds == <<faults, crashes>>
vars == <<tables, events, pc, local, bounds, overlapped, unheard>>

Init ==
  /\ ledger = <<>> /\ evidence = {} /\ relations = {}
  /\ event = [e \in Deliveries |-> "absent"] /\ arrived = [e \in Deliveries |-> 0]
  /\ said = [e \in Deliveries |-> <<>>]
  /\ pc = [e \in Deliveries |-> "none"] /\ at = [e \in Deliveries |-> 1]
  /\ cur = [e \in Deliveries |-> None] /\ cand = [e \in Deliveries |-> None]
  /\ faults = 0 /\ crashes = 0 /\ overlapped = FALSE /\ unheard = {}

At(e, place) == pc[e] = place
Go(e, place) == pc' = [pc EXCEPT ![e] = place]
Fault == faults < MaxFaults /\ faults' = faults + 1 /\ UNCHANGED crashes
SetEvent(e, s) == event' = [event EXCEPT ![e] = s] /\ UNCHANGED <<arrived, said>>

Busy(e) == pc[e] \notin {"none", "start", "done"}

(***************************************************************************)
(* observe: a delivery that was seen before is answered from its row, or   *)
(* refused by the UNIQUE key, and starts no task.                          *)
(***************************************************************************)
Arrives(e) ==
  /\ event[e] = "absent" /\ event' = [event EXCEPT ![e] = "observed"]
  /\ arrived' = [arrived EXCEPT ![e] = 1 + Cardinality({f \in Deliveries : event[f] # "absent"})]
  /\ UNCHANGED said

Observe(e) ==
  /\ Arrives(e) /\ Go(e, "start")
  /\ UNCHANGED <<tables, local, bounds, overlapped, unheard>>

(* The graph write after the INSERT raises before the task is added. *)
ObserveRaises(e) ==
  /\ Arrives(e) /\ Go(e, "done") /\ Fault /\ unheard' = unheard \union {e}
  /\ UNCHANGED <<tables, local, overlapped>>

(***************************************************************************)
(* process                                                                 *)
(***************************************************************************)
Begin(e) ==
  /\ At(e, "start") /\ SetEvent(e, "interpreting") /\ Go(e, "interpret")
  /\ overlapped' = (overlapped \/ \E f \in Deliveries : Busy(f))
  /\ UNCHANGED <<tables, local, bounds, unheard>>

Reach(e, n, changes) ==
  at' = [at EXCEPT ![e] = n] /\ Go(e, IF n > Len(changes) THEN "activate" ELSE "look")
Turn(e) == Reach(e, at[e] + 1, said[e])

Interpret(e) ==
  /\ At(e, "interpret") /\ event' = [event EXCEPT ![e] = "reconciling"] /\ UNCHANGED arrived
  /\ \E x \in Extractions : said' = [said EXCEPT ![e] = x] /\ Reach(e, 1, x)
  /\ UNCHANGED <<tables, cur, cand, bounds, overlapped, unheard>>

(***************************************************************************)
(* reconcile, for one change                                               *)
(***************************************************************************)
The(e) == said[e][at[e]]
Asserted(e) == IF The(e).kind = "removed" THEN "invalidated" ELSE "active"

Matching(S) == {b \in DOMAIN ledger : [claim |-> ledger[b].claim, status |-> ledger[b].status] \in S}
Active(c) == Matching({[claim |-> c, status |-> "active"]})

(* get_current: ORDER BY valid_from DESC, created_at DESC. *)
Newer(b, c) ==
  LET from(x) == arrived[ledger[x].event]
  IN from(b) > from(c) \/ (from(b) = from(c) /\ b >= c)
Current(c) == IF Active(c) = {} THEN {None} ELSE {b \in Active(c) : \A x \in Active(c) : Newer(b, x)}

Look(e) ==
  /\ At(e, "look") /\ Go(e, "find")
  /\ \E b \in Current(The(e).claim) : cur' = [cur EXCEPT ![e] = b]
  /\ UNCHANGED <<tables, events, at, cand, bounds, overlapped, unheard>>

(* create: an equal belief in the asserted status is taken up, the newest. *)
Equal(e) ==
  {b \in Matching({[claim |-> The(e).claim, status |-> Asserted(e)]}) : ledger[b].value = The(e).value}

Newest(S) == {b \in S : \A x \in S : b >= x}

FindSilently(e) ==  \* Mutant: who repeats a belief adds no evidence
  /\ At(e, "find")
  /\ IF Equal(e) = {} THEN Go(e, "insert") /\ UNCHANGED <<cand, at>>
     ELSE \E b \in Newest(Equal(e)) :
            /\ cand' = [cand EXCEPT ![e] = b]
            /\ IF cur[e] = b THEN Turn(e) ELSE Go(e, "attach") /\ UNCHANGED at
  /\ UNCHANGED <<tables, events, cur, bounds, overlapped, unheard>>

Find(e) ==
  /\ At(e, "find")
  /\ IF Equal(e) = {} THEN Go(e, "insert") /\ UNCHANGED cand
     ELSE Go(e, "attach") /\ \E b \in Newest(Equal(e)) : cand' = [cand EXCEPT ![e] = b]
  /\ UNCHANGED <<tables, events, at, cur, bounds, overlapped, unheard>>

Insert(e) ==
  /\ At(e, "insert") /\ Go(e, "attach")
  /\ ledger' = Append(ledger, [claim |-> The(e).claim, value |-> The(e).value, tier |-> The(e).tier,
                               status |-> Asserted(e), event |-> e])
  /\ cand' = [cand EXCEPT ![e] = Len(ledger) + 1]
  /\ UNCHANGED <<evidence, relations, events, at, cur, bounds, overlapped, unheard>>

(* AuthorityResolver: an equal rank leaves both to a person. *)
Level(b) == Rank[ledger[b].tier]
Ranked(e) == Level(cur[e]) # Level(cand[e])

Repeats(e) == The(e).kind = "modified" /\ ledger[cur[e]].value = The(e).value

OnwardRanked(e) ==  \* Mutant: beliefs of one rank are not brought together
  IF cur[e] = None \/ Repeats(e) \/ (The(e).kind = "added" /\ ~Ranked(e)) THEN Turn(e)
  ELSE Go(e, IF The(e).kind = "added" THEN "relate" ELSE "retire") /\ UNCHANGED at

Onward(e) ==
  IF cur[e] = None \/ Repeats(e) \/ (The(e).kind = "added" /\ cur[e] = cand[e]) THEN Turn(e)
  ELSE Go(e, IF The(e).kind = "added" THEN "relate" ELSE "retire") /\ UNCHANGED at

(* _attach_evidence; only this task knows this delivery. *)
Attach(e) ==
  /\ At(e, "attach") /\ evidence' = evidence \union {<<cand[e], e>>} /\ Onward(e)
  /\ UNCHANGED <<ledger, relations, events, cur, cand, bounds, overlapped, unheard>>

(* update: one connection retires the belief that was read and links it. *)
Retire(e) ==
  /\ At(e, "retire") /\ Turn(e)
  /\ LET invalidates == The(e).kind = "removed"
     IN /\ ledger' = [ledger EXCEPT ![cur[e]].status = IF invalidates THEN "invalidated" ELSE "updated"]
        /\ relations' = relations \union {<<cur[e], cand[e], IF invalidates THEN "INVALIDATES" ELSE "UPDATES">>}
  /\ UNCHANGED <<evidence, events, cur, cand, bounds, overlapped, unheard>>

LoserIsOlder(e) == cur[e]  \* Mutant: the newest word wins

Loser(e) == IF Level(cur[e]) < Level(cand[e]) THEN cand[e] ELSE cur[e]

Relate(e) ==
  /\ At(e, "relate")
  /\ relations' = relations \union {IF cur[e] < cand[e] THEN <<cur[e], cand[e], "CONTRADICTS">>
                                     ELSE <<cand[e], cur[e], "CONTRADICTS">>}
  /\ IF Ranked(e) THEN Go(e, "settle") /\ UNCHANGED at ELSE Turn(e)
  /\ UNCHANGED <<ledger, evidence, events, cur, cand, bounds, overlapped, unheard>>

Settle(e) ==
  /\ At(e, "settle") /\ ledger' = [ledger EXCEPT ![Loser(e)].status = "contradicted"]
  /\ Turn(e)
  /\ UNCHANGED <<evidence, relations, events, cur, cand, bounds, overlapped, unheard>>

(***************************************************************************)
(* The end of the task                                                     *)
(***************************************************************************)
Activate(e) ==
  /\ At(e, "activate") /\ SetEvent(e, "activating") /\ Go(e, "complete")
  /\ UNCHANGED <<tables, local, bounds, overlapped, unheard>>

Complete(e) ==
  /\ At(e, "complete") /\ SetEvent(e, "ready") /\ Go(e, "publish")
  /\ UNCHANGED <<tables, local, bounds, overlapped, unheard>>

(* Links in the graph, inside the try. *)
Publish(e) ==
  /\ At(e, "publish") /\ Go(e, "done")
  /\ UNCHANGED <<tables, events, local, bounds, overlapped, unheard>>

(* Reading the repository and its diff fails before the task has begun. *)
Raises(e) ==
  /\ (At(e, "start") \/ (Busy(e) /\ ~At(e, "fail"))) /\ Go(e, "fail") /\ Fault
  /\ UNCHANGED <<tables, events, local, overlapped, unheard>>

FailSilently(e) ==  \* Mutant: the handler does not write the event
  /\ At(e, "fail") /\ Go(e, "done")
  /\ UNCHANGED <<tables, events, local, bounds, overlapped, unheard>>

Fail(e) ==
  /\ At(e, "fail") /\ SetEvent(e, "failed") /\ Go(e, "done")
  /\ UNCHANGED <<tables, local, bounds, overlapped, unheard>>

FailRaises(e) ==
  /\ At(e, "fail") /\ Go(e, "done") /\ Fault /\ unheard' = unheard \union {e}
  /\ UNCHANGED <<tables, events, local, overlapped>>

Crash ==
  /\ crashes < MaxCrashes /\ crashes' = crashes + 1 /\ UNCHANGED faults
  /\ pc' = [e \in Deliveries |-> IF At(e, "none") THEN "none" ELSE "done"]
  /\ unheard' = unheard \union {e \in Deliveries : Busy(e) \/ At(e, "start")}
  /\ UNCHANGED <<tables, events, local, overlapped>>

Task(e) ==
  \/ Begin(e) \/ Interpret(e) \/ Look(e) \/ Find(e) \/ Insert(e) \/ Attach(e) \/ Retire(e)
  \/ Relate(e) \/ Settle(e) \/ Activate(e) \/ Complete(e) \/ Publish(e) \/ Fail(e)

Next ==
  \/ \E e \in Deliveries : Observe(e) \/ Task(e) \/ ObserveRaises(e) \/ Raises(e) \/ FailRaises(e)
  \/ Crash

Spec == Init /\ [][Next]_vars

(* A background task that was added runs on. *)
FairSpec == Spec /\ \A e \in Deliveries : WF_vars(Task(e))

(***************************************************************************)
(* Properties                                                              *)
(***************************************************************************)
(* Whatever overlapped, failed or crashed: an event that reads 'ready' has *)
(* a belief for every change it was interpreted as, and is evidence of it. *)
ReadyIsRecorded ==
  \A e \in Deliveries : event[e] = "ready" =>
    \A n \in DOMAIN said[e] :
      \E b \in DOMAIN ledger :
        /\ <<b, e>> \in evidence
        /\ ledger[b].claim = said[e][n].claim /\ ledger[b].value = said[e][n].value

(* A belief is set aside only for a belief of higher authority, and the    *)
(* ledger says which, also when tasks overwrite each other's statuses.     *)
ContradictedByHigher ==
  \A b \in DOMAIN ledger : ledger[b].status = "contradicted" =>
    \E h \in DOMAIN ledger :
      /\ Level(h) < Level(b) /\ ledger[h].claim = ledger[b].claim
      /\ <<b, h, "CONTRADICTS">> \in relations \/ <<h, b, "CONTRADICTS">> \in relations

Of(c) == {b \in DOMAIN ledger : ledger[b].claim = c}
Joined(a, b) == \E r \in relations : {a, b} = {r[1], r[2]}

(* By a chain of relationships: whatever holds a and, with a belief of the *)
(* claim, all it is joined to, holds b.                                    *)
Linked(c, a, b) ==
  \A S \in SUBSET Of(c) : a \in S /\ (\A x \in S, y \in Of(c) : Joined(x, y) => y \in S) => b \in S

(* As long as tasks run one at a time, in whatever order, and to their     *)
(* end: all beliefs of a claim that stand are one history, so who asks for *)
(* one is shown the others; and a claim that no event removed has one.     *)
LedgerIsWhole ==
  ~overlapped /\ faults = 0 /\ crashes = 0 /\ (\A e \in Deliveries : ~Busy(e)) =>
    \A c \in Claims :
      /\ \A a, b \in Active(c) : a # b => Linked(c, a, b)
      /\ Active(c) = {} /\ Of(c) # {} =>
           \E b \in Of(c) : ledger[b].status = "invalidated"

(* An observed event ends as ready or failed, unless its task ended with   *)
(* the process or could not record its failure.                            *)
EventsSettle ==
  \A e \in Deliveries : event[e] = "observed" ~> event[e] \in {"ready", "failed"} \/ e \in unheard
=============================================================================
