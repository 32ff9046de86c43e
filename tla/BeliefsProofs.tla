---------------------------- MODULE BeliefsProofs ----------------------------
(***************************************************************************)
(* Proofs about the belief ledger, for any number of events at once, any   *)
(* interpretation and whatever fails: a ready event is recorded in full,   *)
(* and a contradicted belief names one of higher authority.  For tasks     *)
(* that run one at a time and to their end: a claim is one history.        *)
(***************************************************************************)
EXTENDS Beliefs, SequenceTheorems, TLAPS

Working == {"look", "find", "insert", "attach", "relate", "retire", "settle"}
Places == {"none", "start", "interpret", "activate", "complete", "publish", "fail", "done"} \union Working
Events == {"absent", "observed", "interpreting", "reconciling", "activating", "ready", "failed"}
Belief == [claim : Claims, value : Values, tier : Tiers,
           status : {"active", "updated", "invalidated", "contradicted"}, event : Deliveries]

Typed ==
  /\ ledger \in Seq(Belief) /\ said \in [Deliveries -> Seq(Change)]
  /\ pc \in [Deliveries -> Places] /\ event \in [Deliveries -> Events]
  /\ at \in [Deliveries -> Nat] /\ cur \in [Deliveries -> Nat] /\ cand \in [Deliveries -> Nat]

Kept(e, n) ==
  \E b \in DOMAIN ledger :
    <<b, e>> \in evidence /\ ledger[b].claim = said[e][n].claim /\ ledger[b].value = said[e][n].value
KeptAll(e) == \A n \in DOMAIN said[e] : Kept(e, n)
KeptBefore(e) == \A n \in DOMAIN said[e] : n < at[e] => Kept(e, n)

On(b, e) == b \in DOMAIN ledger /\ ledger[b].claim = The(e).claim
Opposed(b, h) == <<b, h, "CONTRADICTS">> \in relations \/ <<h, b, "CONTRADICTS">> \in relations

(***************************************************************************)
(* What holds of a task at each of its places.                             *)
(***************************************************************************)
Sound(e) ==
  /\ pc[e] \in Working => at[e] \in DOMAIN said[e] /\ KeptBefore(e)
  /\ pc[e] \in Working \ {"look"} => cur[e] = None \/ On(cur[e], e)
  /\ pc[e] \in {"attach", "relate", "retire", "settle"} =>
       On(cand[e], e) /\ ledger[cand[e]].value = The(e).value
  /\ pc[e] \in {"relate", "retire", "settle"} => cur[e] # None /\ Kept(e, at[e])
  /\ pc[e] = "settle" => Ranked(e) /\ Opposed(cur[e], cand[e])
  /\ pc[e] \in {"activate", "complete", "publish"} => KeptAll(e)
  /\ event[e] = "ready" => KeptAll(e) /\ pc[e] \in {"publish", "fail", "done"}

IInv == Typed /\ (\A e \in Deliveries : Sound(e)) /\ ContradictedByHigher

(***************************************************************************)
(* The ledger is append-only: rows keep what they say, links and evidence  *)
(* stay; only one step writes the status of a contradicted belief.         *)
(***************************************************************************)
Same(b) ==
  /\ b \in DOMAIN ledger' /\ ledger'[b].claim = ledger[b].claim /\ ledger'[b].value = ledger[b].value
  /\ ledger'[b].tier = ledger[b].tier
Grows == (\A b \in DOMAIN ledger : Same(b)) /\ evidence \subseteq evidence' /\ relations \subseteq relations'

Alone(e) ==  \* what a step of e leaves to the other tasks
  \A f \in Deliveries \ {e} :
    /\ pc'[f] = pc[f] /\ at'[f] = at[f] /\ cur'[f] = cur[f] /\ cand'[f] = cand[f]
    /\ said'[f] = said[f] /\ event'[f] = event[f]

LEMMA LedgerIs == Typed => DOMAIN ledger = 1 .. Len(ledger) /\ Len(ledger) \in Nat
                           /\ \A b \in DOMAIN ledger : ledger[b] \in Belief
  BY DEF Typed

LEMMA TiersRanked == Typed => \A b \in DOMAIN ledger : Level(b) \in Nat
  BY LedgerIs, BeliefAssumption DEF Belief, Level

\* What was kept stays kept while the ledger grows.
LEMMA KeptStays ==
    ASSUME Grows, NEW e \in Deliveries, said'[e] = said[e], NEW n \in DOMAIN said[e], Kept(e, n)
    PROVE  Kept(e, n)'
  BY DEF Grows, Same, Kept

LEMMA OnStays ==
    ASSUME Grows, NEW e \in Deliveries, said'[e] = said[e], at'[e] = at[e], NEW b, On(b, e)
    PROVE  On(b, e)' /\ ledger'[b].value = ledger[b].value /\ Level(b)' = Level(b) /\ The(e)' = The(e)
  BY DEF Grows, Same, On, The, Level

\* A task that does not move stays sound.
LEMMA RestSound ==
    ASSUME Grows, NEW e \in Deliveries, Sound(e), said'[e] = said[e], at'[e] = at[e], cur'[e] = cur[e],
           cand'[e] = cand[e], event'[e] = event[e],
           pc'[e] = pc[e] \/ pc'[e] \in {"fail", "done"}
    PROVE  Sound(e)'
  <1>1. KeptAll(e) => KeptAll(e)'
    BY KeptStays DEF KeptAll
  <1>2. KeptBefore(e) => KeptBefore(e)'
    BY KeptStays DEF KeptBefore
  <1>3. at[e] \in DOMAIN said[e] /\ Kept(e, at[e]) => Kept(e, at[e])'
    <2> HAVE at[e] \in DOMAIN said[e] /\ Kept(e, at[e])
    <2>1. Kept(e, at[e])' <=> \E b \in DOMAIN ledger' :
            <<b, e>> \in evidence' /\ ledger'[b].claim = said[e][at[e]].claim /\ ledger'[b].value = said[e][at[e]].value
      BY DEF Kept
    <2> QED BY <2>1 DEF Grows, Same, Kept
  <1>4. On(cur[e], e) => On(cur[e], e)' /\ Level(cur[e])' = Level(cur[e])
    <2> HAVE On(cur[e], e)
    <2> QED BY OnStays DEF Grows, Same, On, The, Level
  <1>5. On(cand[e], e) => On(cand[e], e)' /\ ledger'[cand[e]].value = ledger[cand[e]].value
                          /\ Level(cand[e])' = Level(cand[e]) /\ The(e)' = The(e)
    <2> HAVE On(cand[e], e)
    <2> QED BY OnStays DEF Grows, Same, On, The, Level
  <1>6. Opposed(cur[e], cand[e]) => Opposed(cur[e], cand[e])'
    BY DEF Opposed, Grows
  <1>7. CASE pc'[e] = pc[e]
    BY <1>1, <1>2, <1>3, <1>4, <1>5, <1>6, <1>7 DEF Sound, Ranked, Working
  <1>8. CASE pc'[e] \in {"fail", "done"}
    BY <1>1, <1>8 DEF Sound, Working
  <1> QED BY <1>7, <1>8

\* Of the authority of beliefs nothing changes unless a task settles.
LEMMA AuthorityStays ==
    ASSUME Typed, Grows, ContradictedByHigher,
           \A b \in DOMAIN ledger' : ledger'[b].status = "contradicted" =>
             b \in DOMAIN ledger /\ ledger[b].status = "contradicted"
    PROVE  ContradictedByHigher'
  <1> SUFFICES ASSUME NEW b \in DOMAIN ledger', ledger'[b].status = "contradicted"
               PROVE  \E h \in DOMAIN ledger' : Level(h)' < Level(b)' /\ ledger'[h].claim = ledger'[b].claim
                                                /\ Opposed(b, h)'
    BY DEF ContradictedByHigher, Opposed
  <1>1. PICK h \in DOMAIN ledger : Level(h) < Level(b) /\ ledger[h].claim = ledger[b].claim /\ Opposed(b, h)
    BY DEF ContradictedByHigher, Opposed
  <1> QED BY <1>1 DEF Grows, Same, Level, Opposed

LEMMA Framed ==
    ASSUME IInv, NEW e \in Deliveries, Grows, Alone(e), Typed', Sound(e)',
           \A b \in DOMAIN ledger' : ledger'[b].status = "contradicted" =>
             b \in DOMAIN ledger /\ ledger[b].status = "contradicted"
    PROVE  IInv'
  <1>1. ASSUME NEW f \in Deliveries \ {e}
        PROVE  Sound(f)'
    BY RestSound DEF IInv, Alone
  <1>2. ContradictedByHigher'
    BY AuthorityStays DEF IInv
  <1> QED BY <1>1, <1>2 DEF IInv

\* A step that writes no table of the ledger.
LEMMA Silent ==
    ASSUME IInv, NEW e \in Deliveries, UNCHANGED tables, Alone(e), Typed', Sound(e)'
    PROVE  IInv'
  <1>1. Grows
    BY DEF tables, Grows, Same
  <1> QED BY <1>1, Framed DEF tables

(***************************************************************************)
(* Steps that write no belief: one lemma per phase of a task.              *)
(***************************************************************************)
LEMMA ObserveSound ==
    ASSUME IInv, NEW e \in Deliveries, Observe(e) \/ ObserveRaises(e)
    PROVE  IInv'
  <1> USE DEF Observe, ObserveRaises, Arrives, Go, Fault, local, tables
  <1>1. event[e] = "absent" /\ event'[e] = "observed" /\ Alone(e) /\ pc'[e] \in {"start", "done"} /\ UNCHANGED tables
    BY DEF IInv, Typed, Alone
  <1>2. Typed'
    BY DEF IInv, Typed, Places, Events
  <1>3. Sound(e)'
    BY <1>1 DEF Sound, Working
  <1> QED BY <1>1, <1>2, <1>3, Silent

LEMMA BeginSound ==
    ASSUME IInv, NEW e \in Deliveries, Begin(e)
    PROVE  IInv'
  <1> USE DEF Begin, SetEvent, Go, local, tables
  <1>1. Alone(e) /\ pc'[e] = "interpret" /\ event'[e] = "interpreting"
    BY DEF IInv, Typed, Alone
  <1>2. Typed'
    BY DEF IInv, Typed, Places, Events
  <1>3. Sound(e)'
    BY <1>1 DEF Sound, Working
  <1> QED BY <1>1, <1>2, <1>3, Silent

\* The next change, or the end of the list.
LEMMA ReachSound ==
    ASSUME Typed, NEW e \in Deliveries, NEW n \in Nat \ {0}, NEW changes \in Seq(Change), Reach(e, n, changes)
    PROVE  /\ at'[e] = n /\ pc'[e] \in {"look", "activate"} /\ at' \in [Deliveries -> Nat] /\ pc' \in [Deliveries -> Places]
           /\ pc'[e] = "look" => n \in DOMAIN changes
           /\ pc'[e] = "activate" => \A m \in DOMAIN changes : m < n
           /\ \A f \in Deliveries \ {e} : at'[f] = at[f] /\ pc'[f] = pc[f]
  <1>1. DOMAIN changes = 1 .. Len(changes) /\ Len(changes) \in Nat
    OBVIOUS
  <1>2. at' = [at EXCEPT ![e] = n] /\ pc' = [pc EXCEPT ![e] = IF n > Len(changes) THEN "activate" ELSE "look"]
    BY DEF Reach, Go
  <1> QED BY <1>1, <1>2 DEF Typed, Places, Working

LEMMA InterpretSound ==
    ASSUME IInv, NEW e \in Deliveries, Interpret(e)
    PROVE  IInv'
  <1>1. PICK x \in Extractions : said' = [said EXCEPT ![e] = x] /\ Reach(e, 1, x)
    BY DEF Interpret
  <1>2. x \in Seq(Change) /\ DOMAIN x = 1 .. Len(x)
    BY BeliefAssumption
  <1>3. /\ at'[e] = 1 /\ pc'[e] \in {"look", "activate"} /\ at' \in [Deliveries -> Nat] /\ pc' \in [Deliveries -> Places]
        /\ pc'[e] = "look" => 1 \in DOMAIN x
        /\ pc'[e] = "activate" => \A m \in DOMAIN x : m < 1
        /\ \A f \in Deliveries \ {e} : at'[f] = at[f] /\ pc'[f] = pc[f]
    <2>1. Typed /\ 1 \in Nat \ {0}
      BY DEF IInv
    <2> HIDE DEF IInv
    <2> QED BY <1>1, <1>2, <2>1, ReachSound
  <1>4. said'[e] = x /\ event'[e] = "reconciling" /\ said' \in [Deliveries -> Seq(Change)]
        /\ event' \in [Deliveries -> Events] /\ UNCHANGED <<tables, cur, cand>>
    BY <1>1, <1>2 DEF IInv, Typed, Interpret, Events
  <1>5. Alone(e) /\ Typed'
    BY <1>1, <1>3, <1>4 DEF IInv, Typed, Interpret, Alone, tables
  <1>6. \A m \in DOMAIN x : m >= 1
    BY <1>2
  <1>7. Sound(e)'
    BY <1>3, <1>4, <1>6 DEF Sound, KeptBefore, KeptAll, Working
  <1> QED BY <1>4, <1>5, <1>7, Silent

LEMMA LookSound ==
    ASSUME IInv, NEW e \in Deliveries, Look(e)
    PROVE  IInv'
  <1>1. PICK b \in Current(The(e).claim) : cur' = [cur EXCEPT ![e] = b]
    BY DEF Look
  <1>2. b = None \/ On(b, e)
    BY DEF Current, Active, Matching, On
  <1>3. b \in Nat
    BY <1>2, LedgerIs DEF None, On, IInv
  <1>4. /\ pc'[e] = "find" /\ cur'[e] = b /\ Alone(e) /\ UNCHANGED <<tables, at, said, event>>
    BY <1>1 DEF Look, Go, IInv, Typed, Alone, events
  <1>5. Typed'
    BY <1>1, <1>3, <1>4 DEF Look, Go, IInv, Typed, Places, Working, tables, events
  <1>6. Sound(e) /\ pc[e] = "look"
    BY DEF IInv, Look, At
  <1>7. Sound(e)'
    BY <1>2, <1>4, <1>6 DEF Sound, KeptBefore, Kept, On, The, Working, tables
  <1> QED BY <1>4, <1>5, <1>7, Silent

LEMMA FindSound ==
    ASSUME IInv, NEW e \in Deliveries, Find(e)
    PROVE  IInv'
  <1>1. Sound(e) /\ pc[e] = "find" /\ UNCHANGED <<tables, at, cur, said, event>>
    BY DEF IInv, Find, At, events
  <1>2. CASE Equal(e) = {}
    <2>1. pc' = [pc EXCEPT ![e] = "insert"] /\ cand' = cand
      BY <1>2 DEF Find, Go
    <2>2. pc'[e] = "insert" /\ Alone(e) /\ Typed'
      BY <1>1, <2>1 DEF IInv, Typed, Places, Working, Alone, tables
    <2>3. Sound(e)'
      BY <1>1, <2>1, <2>2 DEF Sound, KeptBefore, Kept, On, The, Working, tables
    <2> QED BY <1>1, <2>2, <2>3, Silent
  <1>3. CASE Equal(e) # {}
    <2>1. PICK b \in Newest(Equal(e)) : cand' = [cand EXCEPT ![e] = b]
      BY <1>3 DEF Find
    <2>2. On(b, e) /\ ledger[b].value = The(e).value
      BY DEF Newest, Equal, Matching, On
    <2>3. b \in Nat
      BY <2>2, LedgerIs DEF On, IInv
    <2>4. pc' = [pc EXCEPT ![e] = "attach"]
      BY <1>3 DEF Find, Go
    <2>5. pc'[e] = "attach" /\ cand'[e] = b /\ Alone(e) /\ Typed'
      BY <1>1, <2>1, <2>3, <2>4 DEF IInv, Typed, Places, Working, Alone, tables
    <2>6. Sound(e)'
      BY <1>1, <2>2, <2>5 DEF Sound, KeptBefore, Kept, On, The, Working, tables
    <2> QED BY <1>1, <2>5, <2>6, Silent
  <1> QED BY <1>2, <1>3

(***************************************************************************)
(* Steps that write the ledger.                                            *)
(***************************************************************************)
LEMMA TheIsChange ==
    ASSUME Typed, NEW e \in Deliveries, at[e] \in DOMAIN said[e]
    PROVE  The(e) \in Change
  <1>1. said[e] \in Seq(Change)
    BY DEF Typed
  <1> QED BY <1>1 DEF The

LEMMA InsertSound ==
    ASSUME IInv, NEW e \in Deliveries, Insert(e)
    PROVE  IInv'
  <1> DEFINE row == [claim |-> The(e).claim, value |-> The(e).value, tier |-> The(e).tier,
                     status |-> Asserted(e), event |-> e]
             n == Len(ledger) + 1
  <1>1. Typed /\ Sound(e) /\ pc[e] = "insert" /\ UNCHANGED <<at, cur, said, event, evidence, relations>>
    BY DEF IInv, Insert, At, events
  <1>2. The(e) \in Change
    BY <1>1, TheIsChange DEF Sound, Working
  <1>3. row \in Belief /\ row.status # "contradicted" /\ row.claim = The(e).claim /\ row.value = The(e).value
    BY <1>2 DEF Belief, Change, Asserted
  <1>4. ledger' = Append(ledger, row) /\ cand' = [cand EXCEPT ![e] = n] /\ pc' = [pc EXCEPT ![e] = "attach"]
    BY DEF Insert, Go
  <1> HIDE DEF row
  <1>5. /\ ledger' \in Seq(Belief) /\ n \in DOMAIN ledger' /\ ledger'[n] = row /\ n \in Nat
        /\ \A b \in DOMAIN ledger : b \in DOMAIN ledger' /\ ledger'[b] = ledger[b]
        /\ \A b \in DOMAIN ledger' : b = n \/ b \in DOMAIN ledger
    BY <1>1, <1>3, <1>4 DEF Typed
  <1>6. Grows
    BY <1>1, <1>5 DEF Grows, Same
  <1>7. pc'[e] = "attach" /\ cand'[e] = n /\ Alone(e) /\ Typed'
    BY <1>1, <1>4, <1>5 DEF Typed, Places, Working, Alone
  <1>8. KeptBefore(e)'
    BY <1>1, <1>6, KeptStays DEF Sound, Working, KeptBefore
  <1>9. cur[e] = None \/ On(cur[e], e)'
    BY <1>1, <1>6, OnStays DEF Sound, Working
  <1>10. On(cand[e], e)' /\ ledger'[cand'[e]].value = The(e)'.value
    BY <1>1, <1>3, <1>5, <1>7 DEF On, The
  <1>11. Sound(e)'
    BY <1>1, <1>7, <1>8, <1>9, <1>10 DEF Sound, Working
  <1>12. \A b \in DOMAIN ledger' : ledger'[b].status = "contradicted" =>
           b \in DOMAIN ledger /\ ledger[b].status = "contradicted"
    BY <1>3, <1>5
  <1> QED BY <1>6, <1>7, <1>11, <1>12, Framed

\* A task that goes on to its next change has recorded this one.
LEMMA TurnSound ==
    ASSUME Typed, NEW e \in Deliveries, Grows, pc[e] \in Working, Sound(e), Turn(e),
           said'[e] = said[e], event'[e] = event[e],
           NEW n \in DOMAIN said[e], n = at[e], Kept(e, n)'
    PROVE  /\ Sound(e)' /\ at' \in [Deliveries -> Nat] /\ pc' \in [Deliveries -> Places]
           /\ \A f \in Deliveries \ {e} : at'[f] = at[f] /\ pc'[f] = pc[f]
  <1>1. said[e] \in Seq(Change) /\ n \in Nat \ {0} /\ n + 1 \in Nat \ {0} /\ DOMAIN said[e] \subseteq Nat
    BY DEF Typed
  <1>2. Reach(e, n + 1, said[e])
    BY DEF Turn
  <1>3. /\ at'[e] = n + 1 /\ pc'[e] \in {"look", "activate"} /\ at' \in [Deliveries -> Nat] /\ pc' \in [Deliveries -> Places]
        /\ pc'[e] = "look" => n + 1 \in DOMAIN said[e]
        /\ pc'[e] = "activate" => \A m \in DOMAIN said[e] : m < n + 1
        /\ \A f \in Deliveries \ {e} : at'[f] = at[f] /\ pc'[f] = pc[f]
    BY <1>1, <1>2, ReachSound
  <1>4. ASSUME NEW m \in DOMAIN said[e], m < n + 1
        PROVE  Kept(e, m)'
    <2>1. CASE m = n
      BY <2>1
    <2>2. CASE m < n
      BY <2>2, KeptStays DEF Sound, KeptBefore
    <2> QED BY <1>1, <1>4, <2>1, <2>2
  <1>5. KeptBefore(e)'
    BY <1>3, <1>4 DEF KeptBefore
  <1>6. pc'[e] = "activate" => KeptAll(e)'
    BY <1>3, <1>4 DEF KeptAll
  <1>7. event'[e] # "ready"
    BY DEF Sound, Working
  <1>8. Sound(e)'
    BY <1>3, <1>5, <1>6, <1>7 DEF Sound, Working
  <1> QED BY <1>3, <1>8

LEMMA AttachSound ==
    ASSUME IInv, NEW e \in Deliveries, Attach(e)
    PROVE  IInv'
  <1>1. Typed /\ Sound(e) /\ pc[e] = "attach" /\ UNCHANGED <<ledger, relations, said, event, cur, cand>>
    BY DEF IInv, Attach, At, events
  <1>2. evidence' = evidence \union {<<cand[e], e>>} /\ Onward(e)
    BY DEF Attach
  <1>3. Grows
    BY <1>1, <1>2 DEF Grows, Same
  <1>4. at[e] \in DOMAIN said[e] /\ On(cand[e], e) /\ ledger[cand[e]].value = The(e).value
    BY <1>1 DEF Sound, Working
  <1>5. PICK n \in DOMAIN said[e] : n = at[e]
    BY <1>4
  <1>6. Kept(e, n)'
    BY <1>1, <1>2, <1>4, <1>5 DEF Kept, On, The
  <1>7. CASE Turn(e)
    <2>1. /\ Sound(e)' /\ at' \in [Deliveries -> Nat] /\ pc' \in [Deliveries -> Places]
          /\ \A f \in Deliveries \ {e} : at'[f] = at[f] /\ pc'[f] = pc[f]
      BY <1>1, <1>3, <1>5, <1>6, <1>7, TurnSound DEF Working
    <2>2. Alone(e) /\ Typed'
      BY <1>1, <2>1 DEF Alone, Typed
    <2> QED BY <1>1, <1>3, <2>1, <2>2, Framed
  <1>8. CASE cur[e] # None /\ (Go(e, "relate") \/ Go(e, "retire")) /\ UNCHANGED at
    <2>1. pc'[e] \in {"relate", "retire"} /\ Alone(e) /\ Typed'
      BY <1>1, <1>8 DEF Go, Typed, Places, Working, Alone
    <2>2. KeptBefore(e)'
      BY <1>1, <1>3, <1>8, KeptStays DEF Sound, Working, KeptBefore
    <2>3. Kept(e, at[e])'
      BY <1>5, <1>6, <1>8
    <2>4. Sound(e)'
      BY <1>1, <1>4, <1>8, <2>1, <2>2, <2>3 DEF Sound, Working, On, The
    <2> QED BY <1>1, <1>3, <2>1, <2>4, Framed
  <1> QED BY <1>2, <1>7, <1>8 DEF Onward

\* A status written by id, and the rest of the row as it was.
LEMMA StatusGrows ==
    ASSUME Typed, NEW b \in DOMAIN ledger, NEW s \in {"active", "updated", "invalidated", "contradicted"},
           ledger' = [ledger EXCEPT ![b].status = s], evidence' = evidence, relations \subseteq relations'
    PROVE  /\ Grows /\ ledger' \in Seq(Belief) /\ DOMAIN ledger' = DOMAIN ledger /\ ledger'[b].status = s
           /\ \A x \in DOMAIN ledger \ {b} : ledger'[x] = ledger[x]
  <1>1. \A x \in DOMAIN ledger : ledger[x] \in Belief
    BY LedgerIs
  <1>2. /\ DOMAIN ledger' = DOMAIN ledger /\ ledger'[b] = [ledger[b] EXCEPT !.status = s]
        /\ \A x \in DOMAIN ledger \ {b} : ledger'[x] = ledger[x]
    OBVIOUS
  <1>3. /\ ledger'[b] \in Belief /\ ledger'[b].status = s /\ ledger'[b].claim = ledger[b].claim
        /\ ledger'[b].value = ledger[b].value /\ ledger'[b].tier = ledger[b].tier
    BY <1>1, <1>2 DEF Belief
  <1>4. Grows
    BY <1>2, <1>3 DEF Grows, Same
  <1>5. ledger' \in Seq(Belief)
    BY <1>1, <1>2, <1>3, LedgerIs DEF Typed
  <1> QED BY <1>2, <1>3, <1>4, <1>5

LEMMA RetireSound ==
    ASSUME IInv, NEW e \in Deliveries, Retire(e)
    PROVE  IInv'
  <1>1. Typed /\ Sound(e) /\ pc[e] = "retire" /\ UNCHANGED <<evidence, said, event, cur, cand>> /\ Turn(e)
    BY DEF IInv, Retire, At, events
  <1>2. On(cur[e], e) /\ Kept(e, at[e]) /\ at[e] \in DOMAIN said[e]
    BY <1>1 DEF Sound, Working
  <1>3. PICK s \in {"updated", "invalidated"} : ledger' = [ledger EXCEPT ![cur[e]].status = s]
    BY DEF Retire
  <1>4. relations \subseteq relations' /\ cur[e] \in DOMAIN ledger
    BY <1>2 DEF Retire, On
  <1>5. /\ Grows /\ ledger' \in Seq(Belief) /\ DOMAIN ledger' = DOMAIN ledger /\ ledger'[cur[e]].status = s
        /\ \A x \in DOMAIN ledger \ {cur[e]} : ledger'[x] = ledger[x]
    BY <1>1, <1>3, <1>4, StatusGrows
  <1>6. PICK n \in DOMAIN said[e] : n = at[e]
    BY <1>2
  <1>7. Kept(e, n)'
    BY <1>1, <1>2, <1>5, <1>6, KeptStays
  <1>8. /\ Sound(e)' /\ at' \in [Deliveries -> Nat] /\ pc' \in [Deliveries -> Places]
        /\ \A f \in Deliveries \ {e} : at'[f] = at[f] /\ pc'[f] = pc[f]
    BY <1>1, <1>5, <1>6, <1>7, TurnSound DEF Working
  <1>9. Alone(e) /\ Typed'
    BY <1>1, <1>5, <1>8 DEF Alone, Typed
  <1>10. \A b \in DOMAIN ledger' : ledger'[b].status = "contradicted" =>
           b \in DOMAIN ledger /\ ledger[b].status = "contradicted"
    BY <1>3, <1>5
  <1> QED BY <1>5, <1>8, <1>9, <1>10, Framed

LEMMA RelateSound ==
    ASSUME IInv, NEW e \in Deliveries, Relate(e)
    PROVE  IInv'
  <1>1. Typed /\ Sound(e) /\ pc[e] = "relate" /\ UNCHANGED <<ledger, evidence, said, event, cur, cand>>
    BY DEF IInv, Relate, At, events
  <1>2. cur[e] # None /\ Kept(e, at[e]) /\ at[e] \in DOMAIN said[e]
    BY <1>1 DEF Sound, Working
  <1>3. relations \subseteq relations' /\ Opposed(cur[e], cand[e])'
    BY <1>1 DEF Relate, Opposed
  <1>4. Grows
    BY <1>1, <1>3 DEF Grows, Same
  <1>5. PICK n \in DOMAIN said[e] : n = at[e]
    BY <1>2
  <1>6. Kept(e, n)'
    BY <1>1, <1>2, <1>4, <1>5, KeptStays
  <1>7. CASE Turn(e)
    <2>1. /\ Sound(e)' /\ at' \in [Deliveries -> Nat] /\ pc' \in [Deliveries -> Places]
          /\ \A f \in Deliveries \ {e} : at'[f] = at[f] /\ pc'[f] = pc[f]
      BY <1>1, <1>4, <1>5, <1>6, <1>7, TurnSound DEF Working
    <2>2. Alone(e) /\ Typed'
      BY <1>1, <2>1 DEF Alone, Typed
    <2> QED BY <1>1, <1>4, <2>1, <2>2, Framed
  <1>8. CASE Ranked(e) /\ Go(e, "settle") /\ UNCHANGED at
    <2>1. pc'[e] = "settle" /\ Alone(e) /\ Typed'
      BY <1>1, <1>8 DEF Go, Typed, Places, Working, Alone
    <2>2. KeptBefore(e)'
      BY <1>1, <1>4, <1>8, KeptStays DEF Sound, Working, KeptBefore
    <2>3. Kept(e, at[e])' /\ Ranked(e)'
      BY <1>1, <1>5, <1>6, <1>8 DEF Ranked, Level
    <2>4. Sound(e)'
      BY <1>1, <1>3, <1>8, <2>1, <2>2, <2>3 DEF Sound, Working, On, The
    <2> QED BY <1>1, <1>4, <2>1, <2>4, Framed
  <1> QED BY <1>7, <1>8 DEF Relate

\* The one step that sets a belief aside: the other one outranks it.
LEMMA SettleSound ==
    ASSUME IInv, NEW e \in Deliveries, Settle(e)
    PROVE  IInv'
  <1> DEFINE lost == Loser(e)  won == IF lost = cur[e] THEN cand[e] ELSE cur[e]
  <1>1. Typed /\ Sound(e) /\ pc[e] = "settle" /\ UNCHANGED <<evidence, relations, said, event, cur, cand>> /\ Turn(e)
    BY DEF IInv, Settle, At, events
  <1>2. /\ On(cur[e], e) /\ On(cand[e], e) /\ Kept(e, at[e]) /\ at[e] \in DOMAIN said[e]
        /\ Ranked(e) /\ Opposed(cur[e], cand[e])
    BY <1>1 DEF Sound, Working
  <1>3. lost \in DOMAIN ledger /\ won \in DOMAIN ledger /\ Level(won) < Level(lost)
        /\ ledger[won].claim = ledger[lost].claim /\ Opposed(lost, won)
    <2>1. Level(cur[e]) \in Nat /\ Level(cand[e]) \in Nat
      BY <1>1, <1>2, TiersRanked DEF On
    <2> QED BY <1>2, <2>1 DEF Loser, On, Opposed, Ranked
  <1>4. ledger' = [ledger EXCEPT ![lost].status = "contradicted"]
    BY DEF Settle
  <1> HIDE DEF lost, won
  <1>5. /\ Grows /\ ledger' \in Seq(Belief) /\ DOMAIN ledger' = DOMAIN ledger
        /\ \A x \in DOMAIN ledger \ {lost} : ledger'[x] = ledger[x]
    BY <1>1, <1>3, <1>4, StatusGrows
  <1>6. PICK n \in DOMAIN said[e] : n = at[e]
    BY <1>2
  <1>7. Kept(e, n)'
    BY <1>1, <1>2, <1>5, <1>6, KeptStays
  <1>8. /\ Sound(e)' /\ at' \in [Deliveries -> Nat] /\ pc' \in [Deliveries -> Places]
        /\ \A f \in Deliveries \ {e} : at'[f] = at[f] /\ pc'[f] = pc[f]
    BY <1>1, <1>5, <1>6, <1>7, TurnSound DEF Working
  <1>9. Alone(e) /\ Typed'
    BY <1>1, <1>5, <1>8 DEF Alone, Typed
  <1>10. \A f \in Deliveries \ {e} : Sound(f)'
    BY <1>5, <1>9, RestSound DEF IInv, Alone
  <1>11. ASSUME NEW b \in DOMAIN ledger', ledger'[b].status = "contradicted"
         PROVE  \E h \in DOMAIN ledger' : Level(h)' < Level(b)' /\ ledger'[h].claim = ledger'[b].claim
                                           /\ Opposed(b, h)'
    <2>1. PICK h \in DOMAIN ledger : Level(h) < Level(b) /\ ledger[h].claim = ledger[b].claim /\ Opposed(b, h)
      <3>1. CASE b = lost
        BY <1>3, <3>1
      <3>2. CASE b # lost
        BY <1>5, <1>11, <3>2 DEF IInv, ContradictedByHigher, Opposed
      <3> QED BY <3>1, <3>2
    <2> QED BY <1>5, <1>11, <2>1 DEF Grows, Same, Level, Opposed
  <1>12. ContradictedByHigher'
    BY <1>11 DEF ContradictedByHigher, Opposed
  <1> QED BY <1>8, <1>9, <1>10, <1>12 DEF IInv

(***************************************************************************)
(* The end of a task, its errors, and the end of the process.              *)
(***************************************************************************)
LEMMA EndSound ==
    ASSUME IInv, NEW e \in Deliveries, Activate(e) \/ Complete(e)
    PROVE  IInv'
  <1> USE DEF Activate, Complete, SetEvent, Go, local
  <1>1. Typed /\ Sound(e) /\ pc[e] \in {"activate", "complete"} /\ UNCHANGED tables
    BY DEF IInv, At
  <1>2. /\ pc'[e] \in {"complete", "publish"} /\ event'[e] \in {"activating", "ready"} /\ Alone(e)
        /\ event'[e] = "ready" => pc'[e] = "publish"
        /\ UNCHANGED said
    BY <1>1 DEF Typed, Alone
  <1>3. Typed'
    BY <1>1 DEF Typed, Places, Events, tables
  <1>4. KeptAll(e)'
    BY <1>1, <1>2 DEF Sound, KeptAll, Kept, tables
  <1>5. Sound(e)'
    BY <1>2, <1>4 DEF Sound, Working
  <1> QED BY <1>1, <1>2, <1>3, <1>5, Silent

LEMMA FailSound ==
    ASSUME IInv, NEW e \in Deliveries, Fail(e)
    PROVE  IInv'
  <1> USE DEF Fail, SetEvent, Go, local
  <1>1. Typed /\ UNCHANGED tables
    BY DEF IInv
  <1>2. pc'[e] = "done" /\ event'[e] = "failed" /\ Alone(e)
    BY <1>1 DEF Typed, Alone
  <1>3. Typed'
    BY <1>1 DEF Typed, Places, Events, tables
  <1>4. Sound(e)'
    BY <1>2 DEF Sound, Working
  <1> QED BY <1>1, <1>2, <1>3, <1>4, Silent

\* A task that leaves its work, with nothing written.
LEMMA LeaveSound ==
    ASSUME IInv, NEW e \in Deliveries, Publish(e) \/ Raises(e) \/ FailRaises(e)
    PROVE  IInv'
  <1> USE DEF Publish, Raises, FailRaises, Go, Fault, local, events
  <1>1. Typed /\ Sound(e) /\ UNCHANGED <<tables, at, cur, cand, said, event>>
    BY DEF IInv
  <1>2. pc'[e] \in {"fail", "done"} /\ Alone(e) /\ Typed'
    BY <1>1 DEF Typed, Places, Alone, tables
  <1>3. Grows
    BY <1>1 DEF Grows, Same, tables
  <1>4. Sound(e)'
    BY <1>1, <1>2, <1>3, RestSound
  <1> QED BY <1>1, <1>2, <1>4, Silent

LEMMA CrashSound ==
    ASSUME IInv, Crash
    PROVE  IInv'
  <1>1. Typed /\ UNCHANGED <<tables, at, cur, cand, said, event>>
    BY DEF IInv, Crash, events, local
  <1>2. Grows
    BY <1>1 DEF Grows, Same, tables
  <1>3. pc' \in [Deliveries -> Places] /\ \A e \in Deliveries : pc'[e] = pc[e] \/ pc'[e] \in {"fail", "done"}
    BY DEF Crash, At, Places
  <1>4. Typed'
    BY <1>1, <1>3 DEF Typed, tables
  <1>5. \A e \in Deliveries : Sound(e)'
    BY <1>1, <1>2, <1>3, RestSound DEF IInv
  <1>6. ContradictedByHigher'
    BY <1>1, <1>2, AuthorityStays DEF IInv, tables
  <1> QED BY <1>4, <1>5, <1>6 DEF IInv

(***************************************************************************)
(* The invariant                                                           *)
(***************************************************************************)
LEMMA InitSound == Init => IInv
  <1> SUFFICES ASSUME Init PROVE IInv
    OBVIOUS
  <1>1. ledger = <<>> /\ DOMAIN ledger = {} /\ ledger \in Seq(Belief) /\ <<>> \in Seq(Change)
    BY DEF Init
  <1>2. Typed
    BY <1>1 DEF Init, Typed, Places, Events, None
  <1>3. \A e \in Deliveries : Sound(e)
    BY DEF Init, Sound, Working
  <1>4. ContradictedByHigher
    BY <1>1 DEF ContradictedByHigher
  <1> QED BY <1>2, <1>3, <1>4 DEF IInv

LEMMA StepSound == IInv /\ [Next]_vars => IInv'
  <1> SUFFICES ASSUME IInv, [Next]_vars PROVE IInv'
    OBVIOUS
  <1>1. ASSUME NEW e \in Deliveries, Observe(e) \/ ObserveRaises(e) PROVE IInv'
    BY <1>1, ObserveSound
  <1>2. ASSUME NEW e \in Deliveries, Task(e) PROVE IInv'
    BY <1>2, BeginSound, InterpretSound, LookSound, FindSound, InsertSound, AttachSound, RetireSound,
       RelateSound, SettleSound, EndSound, LeaveSound, FailSound DEF Task
  <1>3. ASSUME NEW e \in Deliveries, Raises(e) \/ FailRaises(e) PROVE IInv'
    BY <1>3, LeaveSound
  <1>4. CASE Crash
    BY <1>4, CrashSound
  <1>5. CASE UNCHANGED vars
    <2>1. UNCHANGED <<tables, at, cur, cand, said, event, pc>>
      BY <1>5 DEF vars, events, local
    <2>2. Grows
      BY <2>1 DEF Grows, Same, tables
    <2>3. Typed'
      BY <2>1 DEF IInv, Typed, tables
    <2>4. \A e \in Deliveries : Sound(e)'
      BY <2>1, <2>2, RestSound DEF IInv
    <2>5. ContradictedByHigher'
      BY <2>1, <2>2, AuthorityStays DEF IInv, tables
    <2> QED BY <2>3, <2>4, <2>5 DEF IInv
  <1> QED BY <1>1, <1>2, <1>3, <1>4, <1>5 DEF Next

(* The type invariant of the belief ledger and the tasks that write it,    *)
(* for any number of events, claims and readings of a diff.                *)
THEOREM LedgerStaysTyped == Spec => []Typed
  <1>1. IInv => Typed
    BY DEF IInv
  <1> QED BY <1>1, InitSound, StepSound, PTL DEF Spec

(* An event that reads 'ready' has a belief for every change it was        *)
(* interpreted as, with its evidence, however many tasks interleave, fail  *)
(* or end with the process (process, reconcile, create).                   *)
THEOREM ReadyIsComplete == Spec => []ReadyIsRecorded
  <1>1. IInv => ReadyIsRecorded
    <2> SUFFICES ASSUME IInv, NEW e \in Deliveries, event[e] = "ready", NEW n \in DOMAIN said[e]
                 PROVE  \E b \in DOMAIN ledger :
                          /\ <<b, e>> \in evidence
                          /\ ledger[b].claim = said[e][n].claim /\ ledger[b].value = said[e][n].value
      BY DEF ReadyIsRecorded
    <2> QED BY DEF IInv, Sound, KeptAll, Kept
  <1> QED BY <1>1, InitSound, StepSound, PTL DEF Spec

(* A belief is set aside only for one of higher authority on the same      *)
(* claim, and a relationship joins them (AuthorityResolver.reconcile).     *)
THEOREM AuthorityDecides == Spec => []ContradictedByHigher
  <1>1. IInv => ContradictedByHigher
    BY DEF IInv
  <1> QED BY <1>1, InitSound, StepSound, PTL DEF Spec

-----------------------------------------------------------------------------
(***************************************************************************)
(* Tasks that run one at a time, and to their end: the ledger is one       *)
(* history per claim.                                                      *)
(***************************************************************************)
Sequential == ~overlapped /\ faults = 0 /\ crashes = 0

\* A belief a task holds and has not yet joined to the current one.
Open(e) == pc[e] \in {"attach", "relate", "retire"}
Loose(b) == \E f \in Deliveries : Open(f) /\ cand[f] = b

AllLinked(c) == \A a, b \in Active(c) : a # b => Linked(c, a, b)
Whole(c) == \A a, b \in Active(c) : a # b => Linked(c, a, b) \/ Loose(a) \/ Loose(b)
Stands(c) == Active(c) = {} /\ Of(c) # {} => \E b \in Of(c) : ledger[b].status = "invalidated"

\* A new belief is the only active one that says what it says.
IsNew(e) ==
  /\ cur[e] # cand[e]
  /\ The(e).kind # "removed" =>
       \A b \in Active(The(e).claim) : ledger[b].value = The(e).value => b = cand[e]

\* What a task read is still so when it uses it.
InHand(e) ==
  /\ pc[e] \in {"find", "insert"} =>
       IF cur[e] = None THEN Active(The(e).claim) = {} ELSE cur[e] \in Active(The(e).claim)
  /\ pc[e] = "attach" =>
       IF cur[e] = None THEN Active(The(e).claim) \subseteq {cand[e]} ELSE cur[e] \in Active(The(e).claim)
  /\ pc[e] \in {"relate", "retire", "settle"} => cur[e] \in Active(The(e).claim)
  /\ pc[e] = "insert" => Equal(e) = {}
  /\ pc[e] = "attach" => IsNew(e) \/ AllLinked(The(e).claim)
  /\ Open(e) \/ pc[e] = "settle" => ledger[cand[e]].status = Asserted(e)
  /\ pc[e] \in {"relate", "settle"} => The(e).kind = "added" /\ cur[e] # cand[e]
  /\ pc[e] = "retire" => The(e).kind # "added" /\ (The(e).kind = "modified" => cur[e] # cand[e])

OneBusy == \A e, f \in Deliveries : Busy(e) /\ Busy(f) => e = f
History == \A c \in Claims : Whole(c) /\ Stands(c)
InTurn == OneBusy /\ History /\ \A e \in Deliveries : InHand(e)

SeqInv ==
  /\ faults \in Nat /\ crashes \in Nat
  /\ \A e \in Deliveries : event[e] = "absent" => pc[e] = "none"
  /\ Sequential => InTurn

-----------------------------------------------------------------------------
LEMMA ActiveIs ==
    ASSUME NEW c
    PROVE  Active(c) = {b \in DOMAIN ledger : ledger[b].claim = c /\ ledger[b].status = "active"}
  <1>1. \A b : [claim |-> ledger[b].claim, status |-> ledger[b].status] = [claim |-> c, status |-> "active"]
                <=> ledger[b].claim = c /\ ledger[b].status = "active"
    <2> TAKE b
    <2>1. ASSUME [claim |-> ledger[b].claim, status |-> ledger[b].status] = [claim |-> c, status |-> "active"]
          PROVE  ledger[b].claim = c /\ ledger[b].status = "active"
      <3>1. [claim |-> ledger[b].claim, status |-> ledger[b].status].claim = [claim |-> c, status |-> "active"].claim
        BY <2>1
      <3>2. [claim |-> ledger[b].claim, status |-> ledger[b].status].status = [claim |-> c, status |-> "active"].status
        BY <2>1
      <3> QED BY <3>1, <3>2
    <2> QED BY <2>1
  <1> QED BY <1>1 DEF Active, Matching

\* The same, after a step.
LEMMA ActiveIsNext ==
    ASSUME NEW c
    PROVE  Active(c)' = {b \in DOMAIN ledger' : ledger'[b].claim = c /\ ledger'[b].status = "active"}
  <1>1. \A b : [claim |-> ledger'[b].claim, status |-> ledger'[b].status] = [claim |-> c, status |-> "active"]
                <=> ledger'[b].claim = c /\ ledger'[b].status = "active"
    <2> TAKE b
    <2>1. ASSUME [claim |-> ledger'[b].claim, status |-> ledger'[b].status] = [claim |-> c, status |-> "active"]
          PROVE  ledger'[b].claim = c /\ ledger'[b].status = "active"
      <3>1. [claim |-> ledger'[b].claim, status |-> ledger'[b].status].claim = [claim |-> c, status |-> "active"].claim
        BY <2>1
      <3>2. [claim |-> ledger'[b].claim, status |-> ledger'[b].status].status = [claim |-> c, status |-> "active"].status
        BY <2>1
      <3> QED BY <3>1, <3>2
    <2> QED BY <2>1
  <1> QED BY <1>1 DEF Active, Matching

\* Beliefs once linked stay so, and chains are continued at either end.
LEMMA LinkedGrows ==
    ASSUME Grows, NEW c, NEW a \in Of(c), NEW b, Linked(c, a, b)
    PROVE  Linked(c, a, b)'
  <1>1. Of(c) \subseteq Of(c)' /\ \A x, y : Joined(x, y) => Joined(x, y)'
    BY DEF Grows, Same, Of, Joined
  <1>2. ASSUME NEW S \in SUBSET Of(c)', a \in S, \A x \in S, y \in Of(c)' : Joined(x, y)' => y \in S
        PROVE  b \in S
    <2> DEFINE T == S \intersect Of(c)
    <2>1. T \in SUBSET Of(c) /\ a \in T /\ \A x \in T, y \in Of(c) : Joined(x, y) => y \in T
      BY <1>1, <1>2
    <2>2. b \in T
      <3> HIDE DEF T
      <3> QED BY <2>1 DEF Linked
    <2> QED BY <2>2
  <1> QED BY <1>2 DEF Linked

LEMMA ChainOn ==
    ASSUME NEW c, NEW a, NEW m \in Of(c)', NEW b \in Of(c)', Linked(c, a, m)', Joined(m, b)'
    PROVE  Linked(c, a, b)'
  <1>1. ASSUME NEW S \in SUBSET Of(c)', a \in S, \A x \in S, y \in Of(c)' : Joined(x, y)' => y \in S
        PROVE  b \in S
    <2>1. m \in S
      BY <1>1 DEF Linked
    <2> QED BY <1>1, <2>1
  <1> QED BY <1>1 DEF Linked

LEMMA ChainBack ==
    ASSUME NEW c, NEW a, NEW m \in Of(c)', NEW b, Joined(a, m)', Linked(c, m, b)'
    PROVE  Linked(c, a, b)'
  <1>1. ASSUME NEW S \in SUBSET Of(c)', a \in S, \A x \in S, y \in Of(c)' : Joined(x, y)' => y \in S
        PROVE  b \in S
    <2>1. m \in S
      BY <1>1
    <2> QED BY <1>1, <2>1 DEF Linked
  <1> QED BY <1>1 DEF Linked

LEMMA JoinedLinks ==
    ASSUME NEW c, NEW a, NEW b \in Of(c)', Joined(a, b)'
    PROVE  Linked(c, a, b)'
  BY DEF Linked

-----------------------------------------------------------------------------
\* What the other tasks see of a busy task's step.
LEMMA OwnStep ==
    ASSUME IInv, InTurn, NEW e \in Deliveries, Busy(e), Alone(e), History', InHand(e)'
    PROVE  InTurn'
  <1>1. ASSUME NEW f \in Deliveries \ {e}
        PROVE  pc'[f] \in {"none", "start", "done"} /\ ~Busy(f)' /\ InHand(f)'
    <2>1. pc'[f] \in {"none", "start", "done"}
      BY DEF Alone, InTurn, OneBusy, Busy
    <2> QED BY <2>1 DEF Busy, InHand, Open
  <1>2. OneBusy'
    BY <1>1 DEF OneBusy
  <1> QED BY <1>1, <1>2 DEF InTurn

\* A loose belief is the one that the busy task holds.
LEMMA OneLoose ==
    ASSUME InTurn, NEW e \in Deliveries, Busy(e), NEW b, Loose(b)
    PROVE  Open(e) /\ cand[e] = b
  BY DEF Loose, InTurn, OneBusy, Busy, Open

LEMMA OpenIsLoose ==
    ASSUME NEW e \in Deliveries, Open(e)', NEW b, cand'[e] = b
    PROVE  Loose(b)'
  BY DEF Loose, Open

\* A step that leaves the ledger, from a place where nothing is loose.
LEMMA StillWhole ==
    ASSUME InTurn, NEW e \in Deliveries, Busy(e), ~Open(e), UNCHANGED <<ledger, relations>>
    PROVE  History' /\ \A c \in Claims : AllLinked(c) /\ AllLinked(c)'
  <1>1. \A b : ~Loose(b)
    BY OneLoose
  <1>2. \A c \in Claims : AllLinked(c) /\ Stands(c)
    BY <1>1 DEF InTurn, History, Whole, AllLinked
  <1>3. \A c : Active(c)' = Active(c) /\ Of(c)' = Of(c)
    BY DEF Active, Matching, Of
  <1>4. \A c, a, b : Linked(c, a, b)' = Linked(c, a, b)
    BY DEF Linked, Of, Joined
  <1>5. \A c \in Claims : AllLinked(c)' /\ Stands(c)'
    BY <1>2, <1>3, <1>4 DEF AllLinked, Stands
  <1>6. \A c \in Claims : AllLinked(c)' => Whole(c)'
    BY DEF AllLinked, Whole
  <1> QED BY <1>2, <1>5, <1>6 DEF History

LEMMA ReadsInTurn ==
    ASSUME IInv, InTurn, NEW e \in Deliveries, Interpret(e) \/ Look(e) \/ Find(e)
    PROVE  InTurn'
  <1>1. Busy(e) /\ ~Open(e) /\ UNCHANGED <<ledger, relations>>
    BY DEF Interpret, Look, Find, At, Busy, Open, tables
  <1>2. History' /\ \A c \in Claims : AllLinked(c) /\ AllLinked(c)'
    BY <1>1, StillWhole
  <1>3. CASE Interpret(e)
    <2>1. PICK x \in Extractions : said' = [said EXCEPT ![e] = x] /\ Reach(e, 1, x)
      BY <1>3 DEF Interpret
    <2>2. pc'[e] \in {"look", "activate"} /\ Alone(e)
      BY <1>3, <2>1 DEF Interpret, Reach, Go, IInv, Typed, Alone
    <2>3. InHand(e)'
      BY <2>2 DEF InHand, Open
    <2> QED BY <1>1, <1>2, <2>2, <2>3, OwnStep
  <1>4. CASE Look(e)
    <2>1. PICK b \in Current(The(e).claim) : cur' = [cur EXCEPT ![e] = b]
      BY <1>4 DEF Look
    <2>2. pc'[e] = "find" /\ cur'[e] = b /\ Alone(e) /\ UNCHANGED <<at, said, ledger>>
      BY <1>4, <2>1 DEF Look, Go, IInv, Typed, Alone, events, tables
    <2>3. The(e)' = The(e) /\ Active(The(e).claim)' = Active(The(e).claim)
      BY <2>2 DEF The, Active, Matching
    <2>4. IF b = None THEN Active(The(e).claim) = {} ELSE b \in Active(The(e).claim)
      <3>1. CASE Active(The(e).claim) = {}
        BY <2>1, <3>1 DEF Current
      <3>2. CASE Active(The(e).claim) # {}
        <4>1. b \in Active(The(e).claim)
          BY <2>1, <3>2 DEF Current
        <4>2. b \in DOMAIN ledger
          BY <4>1, ActiveIs
        <4>3. b # None
          BY <4>2, LedgerIs DEF None, IInv
        <4> QED BY <4>1, <4>3
      <3> QED BY <3>1, <3>2
    <2>5. InHand(e)'
      BY <2>2, <2>3, <2>4 DEF InHand, Open
    <2> QED BY <1>1, <1>2, <2>2, <2>5, OwnStep
  <1>5. CASE Find(e)
    <2>1. pc[e] = "find" /\ UNCHANGED <<ledger, relations, at, cur, said, event>> /\ InHand(e)
      BY <1>5 DEF Find, At, events, tables, InTurn
    <2>2. The(e)' = The(e) /\ Asserted(e)' = Asserted(e) /\ Active(The(e).claim)' = Active(The(e).claim)
      BY <2>1 DEF The, Asserted, Active, Matching
    <2>3. CASE Equal(e) = {}
      <3>1. pc'[e] = "insert" /\ Alone(e) /\ cur'[e] = cur[e]
        BY <1>5, <2>1, <2>3 DEF Find, Go, IInv, Typed, Alone
      <3>2. Equal(e)' = {}
        BY <2>1, <2>3 DEF Equal, Matching, The, Asserted
      <3>3. InHand(e)'
        BY <2>1, <2>2, <3>1, <3>2 DEF InHand, Open
      <3> QED BY <1>1, <1>2, <3>1, <3>3, OwnStep
    <2>4. CASE Equal(e) # {}
      <3>1. PICK b \in Newest(Equal(e)) : cand' = [cand EXCEPT ![e] = b]
        BY <1>5, <2>4 DEF Find
      <3>2. pc'[e] = "attach" /\ cand'[e] = b /\ cur'[e] = cur[e] /\ Alone(e)
        BY <1>5, <2>1, <2>4, <3>1 DEF Find, Go, IInv, Typed, Alone
      <3>3. [claim |-> ledger[b].claim, status |-> ledger[b].status] = [claim |-> The(e).claim, status |-> Asserted(e)]
        BY DEF Newest, Equal, Matching
      <3>4. ledger[b].status = Asserted(e)
        <4>1. [claim |-> ledger[b].claim, status |-> ledger[b].status].status = [claim |-> The(e).claim, status |-> Asserted(e)].status
          BY <3>3
        <4> QED BY <4>1
      <3>5. The(e).claim \in Claims
        <4>1. The(e) \in Change
          BY <2>1, TheIsChange DEF IInv, Sound, Working
        <4> QED BY <4>1 DEF Change
      <3>6. PICK c \in Claims : c = The(e).claim
        BY <3>5
      <3>7. AllLinked(The(e).claim)'
        <4>1. AllLinked(c)'
          BY <1>2
        <4> QED BY <2>2, <3>6, <4>1
      <3>8. InHand(e)'
        BY <2>1, <2>2, <3>2, <3>4, <3>7 DEF InHand, Open
      <3> QED BY <1>1, <1>2, <3>2, <3>8, OwnStep
    <2> QED BY <2>3, <2>4
  <1> QED BY <1>3, <1>4, <1>5

\* A new belief is loose until it is joined to the current one.
LEMMA InsertInTurn ==
    ASSUME IInv, InTurn, NEW e \in Deliveries, Insert(e)
    PROVE  InTurn'
  <1> DEFINE row == [claim |-> The(e).claim, value |-> The(e).value, tier |-> The(e).tier,
                     status |-> Asserted(e), event |-> e]
  <1>0. PICK n : n = Len(ledger) + 1
    OBVIOUS
  <1>1. /\ pc[e] = "insert" /\ Busy(e) /\ ~Open(e) /\ Typed /\ InHand(e)
        /\ UNCHANGED <<evidence, relations, at, cur, said, event>>
    BY DEF Insert, At, Busy, Open, IInv, InTurn, events
  <1>2. ledger' = Append(ledger, row) /\ cand' = [cand EXCEPT ![e] = n] /\ pc' = [pc EXCEPT ![e] = "attach"]
    BY <1>0 DEF Insert, Go
  <1>3. /\ row.claim = The(e).claim /\ row.value = The(e).value /\ row.status = Asserted(e)
        /\ Asserted(e) \in {"active", "invalidated"}
    BY DEF Asserted
  <1> HIDE DEF row
  <1>4. /\ n \in DOMAIN ledger' /\ ledger'[n] = row /\ n \in Nat /\ n \notin DOMAIN ledger
        /\ \A b \in DOMAIN ledger : b \in DOMAIN ledger' /\ ledger'[b] = ledger[b]
        /\ \A b \in DOMAIN ledger' : b = n \/ b \in DOMAIN ledger
    BY <1>0, <1>1, <1>2 DEF Typed
  <1>5. Grows
    BY <1>1, <1>4 DEF Grows, Same
  <1>6. pc'[e] = "attach" /\ cand'[e] = n /\ Alone(e) /\ Loose(n)'
    <2>1. pc'[e] = "attach" /\ cand'[e] = n /\ Alone(e)
      BY <1>1, <1>2 DEF Typed, Alone
    <2> QED BY <2>1 DEF Loose, Open
  <1>7. \A b : ~Loose(b)
    BY <1>1, OneLoose
  <1>8. ASSUME NEW c
        PROVE  /\ Active(c) \subseteq Active(c)' /\ Active(c)' \subseteq Active(c) \union {n}
               /\ Of(c) \subseteq Of(c)' /\ Of(c)' \subseteq Of(c) \union {n} /\ Active(c) \subseteq Of(c)
    BY <1>4, ActiveIs, ActiveIsNext DEF Of
  <1>9. ASSUME NEW c \in Claims
        PROVE  Whole(c)'
    <2>1. ASSUME NEW a \in Active(c)', NEW b \in Active(c)', a # b, a # n, b # n
          PROVE  Linked(c, a, b)'
      <3>1. a \in Active(c) /\ b \in Active(c) /\ a \in Of(c)
        BY <1>8, <2>1
      <3>2. Linked(c, a, b)
        BY <1>7, <2>1, <3>1 DEF InTurn, History, Whole
      <3> QED BY <1>5, <3>1, <3>2, LinkedGrows
    <2> QED BY <1>6, <2>1 DEF Whole
  <1>10. ASSUME NEW c \in Claims
         PROVE  Stands(c)'
    <2> SUFFICES ASSUME Active(c)' = {}, Of(c)' # {} PROVE \E b \in Of(c)' : ledger'[b].status = "invalidated"
      BY DEF Stands
    <2>1. CASE n \in Of(c)'
      <3>1. ledger'[n].status # "active"
        BY <1>4, <2>1, ActiveIsNext DEF Of
      <3> QED BY <1>3, <1>4, <2>1, <3>1
    <2>2. CASE n \notin Of(c)'
      <3>1. Of(c) # {} /\ Active(c) = {}
        BY <1>8, <2>2
      <3>2. PICK b \in Of(c) : ledger[b].status = "invalidated"
        BY <3>1 DEF InTurn, History, Stands
      <3> QED BY <1>4, <1>8, <3>2 DEF Of
    <2> QED BY <2>1, <2>2
  <1>11. PICK k : k = The(e).claim
    OBVIOUS
  <1>12. InHand(e)'
    <2>1. The(e)' = The(e) /\ Asserted(e)' = Asserted(e) /\ Active(The(e).claim)' = Active(k)'
      BY <1>1, <1>11 DEF The, Asserted
    <2>2. IF cur[e] = None THEN Active(k)' \subseteq {n} ELSE cur[e] \in Active(k)'
      BY <1>1, <1>8, <1>11 DEF InHand
    <2>3. cur[e] = None \/ cur[e] \in DOMAIN ledger
      BY <1>1, <1>11, ActiveIs DEF InHand
    <2>4. cur[e] # n
      BY <1>0, <1>1, <1>4, <2>3, LedgerIs DEF None
    <2>5. ASSUME The(e).kind # "removed", NEW b \in Active(k)', ledger'[b].value = The(e).value, b # n
          PROVE  FALSE
      <3>1. b \in Active(k) /\ b \in DOMAIN ledger /\ ledger[b].value = The(e).value
            /\ ledger[b].claim = The(e).claim /\ ledger[b].status = "active"
        BY <1>4, <1>8, <1>11, <2>5, ActiveIs
      <3>2. Asserted(e) = "active"
        BY <2>5 DEF Asserted
      <3>3. b \in Equal(e)
        BY <3>1, <3>2 DEF Equal, Matching
      <3> QED BY <1>1, <3>3 DEF InHand
    <2>6. IsNew(e)'
      BY <1>1, <1>6, <2>1, <2>4, <2>5 DEF IsNew
    <2>7. ledger'[n].status = Asserted(e)
      BY <1>3, <1>4
    <2> QED BY <1>1, <1>6, <2>1, <2>2, <2>6, <2>7 DEF InHand, Open
  <1>13. History'
    BY <1>9, <1>10 DEF History
  <1> QED BY <1>1, <1>6, <1>12, <1>13, OwnStep

\* What a task holds when it is to bring its belief and the current one together.
LEMMA HoldsBoth ==
    ASSUME IInv, InTurn, NEW e \in Deliveries, Open(e) \/ pc[e] = "settle"
    PROVE  /\ Busy(e) /\ The(e) \in Change /\ The(e).claim \in Claims /\ cand[e] \in Of(The(e).claim)
           /\ ledger[cand[e]].value = The(e).value /\ ledger[cand[e]].status = Asserted(e)
  <1>1. Typed /\ Sound(e) /\ InHand(e) /\ pc[e] \in {"attach", "relate", "retire", "settle"}
    BY DEF IInv, InTurn, Open
  <1>2. On(cand[e], e) /\ ledger[cand[e]].value = The(e).value /\ at[e] \in DOMAIN said[e]
    BY <1>1 DEF Sound, Working
  <1>3. The(e) \in Change
    BY <1>1, <1>2, TheIsChange
  <1> QED BY <1>1, <1>2, <1>3 DEF Change, On, Of, Busy, InHand

LEMMA GoesToTurn ==
    ASSUME IInv, NEW e \in Deliveries, Turn(e)
    PROVE  pc'[e] \in {"look", "activate"} /\ InHand(e)'
           /\ \A f \in Deliveries \ {e} : pc'[f] = pc[f] /\ at'[f] = at[f]
  <1>1. pc'[e] \in {"look", "activate"} /\ \A f \in Deliveries \ {e} : pc'[f] = pc[f] /\ at'[f] = at[f]
    BY DEF Turn, Reach, Go, IInv, Typed
  <1> QED BY <1>1 DEF InHand, Open

\* Evidence is written, and it is decided what becomes of the two.
LEMMA AttachInTurn ==
    ASSUME IInv, InTurn, NEW e \in Deliveries, Attach(e)
    PROVE  InTurn'
  <1>1. pc[e] = "attach" /\ Open(e) /\ InHand(e) /\ Onward(e) /\ UNCHANGED <<ledger, relations, said, event, cur, cand>>
    BY DEF Attach, At, Open, InTurn, events
  <1>2. PICK k \in Claims : k = The(e).claim
    BY <1>1, HoldsBoth
  <1>3. /\ Busy(e) /\ cand[e] \in Of(k) /\ ledger[cand[e]].value = The(e).value /\ ledger[cand[e]].status = Asserted(e)
    BY <1>1, <1>2, HoldsBoth
  <1>4. \A c : Active(c)' = Active(c) /\ Of(c)' = Of(c)
    BY <1>1 DEF Active, Matching, Of
  <1>5. \A c, a, b : Linked(c, a, b)' = Linked(c, a, b)
    BY <1>1 DEF Linked, Of, Joined
  <1>6. \A c \in Claims : Stands(c)'
    BY <1>1, <1>4 DEF Stands, InTurn, History
  <1>7. \A b : Loose(b) => b = cand[e]
    BY <1>3, OneLoose
  <1>8. CASE Turn(e) /\ (cur[e] = None \/ Repeats(e) \/ (The(e).kind = "added" /\ cur[e] = cand[e]))
    <2>1. AllLinked(k)
      <3>1. CASE cur[e] = None
        BY <1>1, <1>2, <3>1 DEF InHand, AllLinked
      <3>2. CASE cur[e] # None
        <4>1. cur[e] \in Active(k) /\ (IsNew(e) \/ AllLinked(k))
          BY <1>1, <1>2, <3>2 DEF InHand
        <4>2. ~IsNew(e)
          BY <1>2, <1>8, <3>2, <4>1 DEF IsNew, Repeats
        <4> QED BY <4>1, <4>2
      <3> QED BY <3>1, <3>2
    <2>2. ASSUME NEW c \in Claims PROVE AllLinked(c)'
      <3>1. CASE c = k
        BY <1>4, <1>5, <2>1, <3>1 DEF AllLinked
      <3>2. CASE c # k
        <4>1. \A a \in Active(c) : ~Loose(a)
          BY <1>3, <1>7, <3>2, ActiveIs DEF Of
        <4>2. AllLinked(c)
          BY <4>1 DEF AllLinked, InTurn, History, Whole
        <4> QED BY <1>4, <1>5, <4>2 DEF AllLinked
      <3> QED BY <3>1, <3>2
    <2>3. Alone(e) /\ InHand(e)'
      BY <1>1, <1>8, GoesToTurn DEF Alone
    <2>4. History'
      BY <1>6, <2>2 DEF History, Whole, AllLinked
    <2> QED BY <1>3, <2>3, <2>4, OwnStep
  <1>9. CASE /\ ~(cur[e] = None \/ Repeats(e) \/ (The(e).kind = "added" /\ cur[e] = cand[e]))
             /\ Go(e, IF The(e).kind = "added" THEN "relate" ELSE "retire") /\ UNCHANGED at
    <2>1. /\ pc'[e] = (IF The(e).kind = "added" THEN "relate" ELSE "retire") /\ Alone(e) /\ UNCHANGED at
      BY <1>1, <1>9 DEF Go, IInv, Typed, Alone
    <2>2. The(e)' = The(e) /\ Asserted(e)' = Asserted(e) /\ Active(The(e).claim)' = Active(k)
      BY <1>1, <1>2, <1>4, <2>1 DEF The, Asserted
    <2>3. cur[e] \in Active(k)
      BY <1>1, <1>2, <1>9 DEF InHand
    <2>4. The(e).kind = "modified" => cur[e] # cand[e]
      BY <1>3, <1>9 DEF Repeats
    <2>5. InHand(e)'
      BY <1>1, <1>3, <1>9, <2>1, <2>2, <2>3, <2>4 DEF InHand, Open
    <2>6. \A b : Loose(b) => Loose(b)'
      <3>1. Open(e)' /\ cand'[e] = cand[e]
        BY <1>1, <2>1 DEF Open
      <3> QED BY <1>7, <3>1, OpenIsLoose
    <2>7. \A c \in Claims : Whole(c)'
      BY <1>4, <1>5, <2>6 DEF InTurn, History, Whole
    <2>8. History'
      BY <1>6, <2>7 DEF History
    <2> QED BY <1>3, <2>1, <2>5, <2>8, OwnStep
  <1> QED BY <1>1, <1>8, <1>9 DEF Onward

\* Once the belief a task holds is joined to the current one, nothing is loose.
LEMMA JoinedWhole ==
    ASSUME IInv, InTurn, Grows, NEW e \in Deliveries, Open(e), NEW k, k = The(e).claim,
           NEW x, x = cur[e], NEW y, y = cand[e], x \in Active(k), x # y,
           NEW r \in relations', {r[1], r[2]} = {x, y},
           \A c : Active(c)' \subseteq Active(c)
    PROVE  \A c \in Claims : AllLinked(c)'
  <1>1. k \in Claims /\ y \in Of(k) /\ Busy(e) /\ \A c : Of(c) \subseteq Of(c)'
    BY HoldsBoth DEF Grows, Same, Of
  <1>2. Joined(x, y)' /\ Joined(y, x)'
    BY DEF Joined
  <1>3. \A b : Loose(b) => b = y
    BY <1>1, OneLoose
  <1>4. \A c : Active(c) \subseteq Of(c)
    BY ActiveIs DEF Of
  <1>5. ASSUME NEW b \in Active(k), b # x, b # y
        PROVE  Linked(k, x, b)' /\ Linked(k, b, x)'
    <2>1. Linked(k, x, b) /\ Linked(k, b, x)
      BY <1>1, <1>3, <1>5 DEF InTurn, History, Whole
    <2> QED BY <1>4, <1>5, <2>1, LinkedGrows
  <1>6. ASSUME NEW c \in Claims, NEW a \in Active(c)', NEW b \in Active(c)', a # b
        PROVE  Linked(c, a, b)'
    <2>1. a \in Active(c) /\ b \in Active(c) /\ a \in Of(c) /\ b \in Of(c)
      BY <1>4, <1>6
    <2>2. CASE a # y /\ b # y
      <3>1. Linked(c, a, b)
        BY <1>3, <1>6, <2>1, <2>2 DEF InTurn, History, Whole
      <3> QED BY <2>1, <3>1, LinkedGrows
    <2>3. CASE a = y \/ b = y
      <3>1. c = k
        BY <1>1, <2>1, <2>3 DEF Of
      <3>2. x \in Of(k)' /\ y \in Of(k)'
        BY <1>1, <1>4
      <3>3. CASE a = y
        <4>1. CASE b = x
          BY <1>2, <3>1, <3>2, <3>3, <4>1, JoinedLinks
        <4>2. CASE b # x
          BY <1>2, <1>5, <1>6, <2>1, <3>1, <3>2, <3>3, <4>2, ChainBack
        <4> QED BY <4>1, <4>2
      <3>4. CASE b = y
        <4>1. CASE a = x
          BY <1>2, <3>1, <3>2, <3>4, <4>1, JoinedLinks
        <4>2. CASE a # x
          BY <1>2, <1>5, <1>6, <2>1, <3>1, <3>2, <3>4, <4>2, ChainOn
        <4> QED BY <4>1, <4>2
      <3> QED BY <2>3, <3>3, <3>4
    <2> QED BY <2>2, <2>3
  <1> QED BY <1>6 DEF AllLinked

\* The same beliefs of every claim, one of them active no more.
LEMMA OneLess ==
    ASSUME Typed, NEW x \in DOMAIN ledger, NEW s \in {"updated", "invalidated", "contradicted"},
           ledger' = [ledger EXCEPT ![x].status = s], evidence' = evidence, relations \subseteq relations'
    PROVE  /\ Grows /\ ledger'[x].status = s /\ \A b \in DOMAIN ledger \ {x} : ledger'[b] = ledger[b]
           /\ \A c : Active(c)' = Active(c) \ {x} /\ Of(c)' = Of(c)
  <1>1. /\ Grows /\ DOMAIN ledger' = DOMAIN ledger /\ ledger'[x].status = s
        /\ \A b \in DOMAIN ledger \ {x} : ledger'[b] = ledger[b]
    BY StatusGrows
  <1>2. ASSUME NEW c
        PROVE  Active(c)' = Active(c) \ {x} /\ Of(c)' = Of(c)
    <2>1. Of(c)' = Of(c)
      BY <1>1 DEF Of, Grows, Same
    <2>2. Active(c)' = Active(c) \ {x}
      BY <1>1, ActiveIs, ActiveIsNext
    <2> QED BY <2>1, <2>2
  <1> QED BY <1>1, <1>2

LEMMA RetireInTurn ==
    ASSUME IInv, InTurn, NEW e \in Deliveries, Retire(e)
    PROVE  InTurn'
  <1>1. /\ pc[e] = "retire" /\ Open(e) /\ InHand(e) /\ Turn(e) /\ UNCHANGED <<evidence, said, event, cur, cand>>
    BY DEF Retire, At, Open, InTurn, events
  <1>2. PICK k \in Claims, x \in {cur[e]}, y \in {cand[e]} : k = The(e).claim /\ x = cur[e] /\ y = cand[e]
    BY <1>1, HoldsBoth
  <1>3. /\ Busy(e) /\ y \in Of(k) /\ ledger[y].status = Asserted(e) /\ x \in Active(k) /\ The(e) \in Change
        /\ The(e).kind # "added" /\ (The(e).kind = "modified" => x # y)
    BY <1>1, <1>2, HoldsBoth DEF InHand
  <1>4. x \in DOMAIN ledger /\ ledger[x].claim = k /\ ledger[x].status = "active" /\ Typed
    BY <1>3, ActiveIs DEF IInv
  <1>5. x # y
    BY <1>3, <1>4 DEF Asserted, Change
  <1>6. PICK s \in {"updated", "invalidated"} :
           ledger' = [ledger EXCEPT ![x].status = s] /\ (The(e).kind = "removed" => s = "invalidated")
    BY <1>2 DEF Retire
  <1>7. PICK r \in relations' : relations \subseteq relations' /\ {r[1], r[2]} = {x, y}
    <2>1. PICK w : relations' = relations \union {<<x, y, w>>}
      BY <1>2 DEF Retire
    <2>2. <<x, y, w>> \in relations' /\ <<x, y, w>>[1] = x /\ <<x, y, w>>[2] = y
      BY <2>1
    <2> QED BY <2>1, <2>2
  <1>8. /\ Grows /\ ledger'[x].status = s /\ \A b \in DOMAIN ledger \ {x} : ledger'[b] = ledger[b]
        /\ \A c : Active(c)' = Active(c) \ {x} /\ Of(c)' = Of(c)
    BY <1>1, <1>4, <1>6, <1>7, OneLess
  <1>9. \A c \in Claims : AllLinked(c)'
    <2>1. \A c : Active(c)' \subseteq Active(c)
      BY <1>8
    <2> QED BY <1>1, <1>2, <1>3, <1>5, <1>7, <1>8, <2>1, JoinedWhole
  <1>10. ASSUME NEW c \in Claims
         PROVE  Stands(c)'
    <2> SUFFICES ASSUME Active(c)' = {}, Of(c)' # {} PROVE \E b \in Of(c)' : ledger'[b].status = "invalidated"
      BY DEF Stands
    <2>1. CASE c = k /\ The(e).kind = "removed"
      BY <1>4, <1>6, <1>8, <2>1 DEF Of
    <2>2. CASE c = k /\ The(e).kind = "modified"
      <3>1. y \in Active(k)
        BY <1>3, <2>2, ActiveIs DEF Of, Asserted
      <3> QED BY <1>5, <1>8, <2>2, <3>1
    <2>3. CASE c # k
      <3>1. x \notin Of(c) /\ x \notin Active(c)
        BY <1>4, <2>3, ActiveIs DEF Of
      <3>2. Active(c) = {} /\ Of(c) # {}
        BY <1>8, <3>1
      <3>3. PICK b \in Of(c) : ledger[b].status = "invalidated"
        BY <3>2 DEF InTurn, History, Stands
      <3> QED BY <1>8, <3>1, <3>3 DEF Of
    <2> QED BY <1>3, <2>1, <2>2, <2>3 DEF Change
  <1>11. History'
    BY <1>9, <1>10 DEF History, Whole, AllLinked
  <1>12. Alone(e) /\ InHand(e)'
    BY <1>1, GoesToTurn DEF Alone
  <1> QED BY <1>3, <1>11, <1>12, OwnStep

LEMMA RelateInTurn ==
    ASSUME IInv, InTurn, NEW e \in Deliveries, Relate(e)
    PROVE  InTurn'
  <1>1. /\ pc[e] = "relate" /\ Open(e) /\ InHand(e) /\ UNCHANGED <<ledger, evidence, said, event, cur, cand>>
    BY DEF Relate, At, Open, InTurn, events
  <1>2. PICK k \in Claims, x \in {cur[e]}, y \in {cand[e]} : k = The(e).claim /\ x = cur[e] /\ y = cand[e]
    BY <1>1, HoldsBoth
  <1>3. /\ Busy(e) /\ y \in Of(k) /\ ledger[y].status = Asserted(e) /\ x \in Active(k)
        /\ The(e).kind = "added" /\ x # y
    BY <1>1, <1>2, HoldsBoth DEF InHand
  <1>4. PICK r \in relations' : relations \subseteq relations' /\ {r[1], r[2]} = {x, y}
    <2>1. PICK w \in {<<x, y, "CONTRADICTS">>, <<y, x, "CONTRADICTS">>} : relations' = relations \union {w}
      BY <1>2 DEF Relate
    <2>2. w \in relations' /\ {w[1], w[2]} = {x, y}
      <3>1. CASE w = <<x, y, "CONTRADICTS">>
        <4>1. w[1] = x /\ w[2] = y
          BY <3>1
        <4> QED BY <2>1, <4>1
      <3>2. CASE w = <<y, x, "CONTRADICTS">>
        <4>1. w[1] = y /\ w[2] = x
          BY <3>2
        <4> QED BY <2>1, <4>1
      <3> QED BY <2>1, <3>1, <3>2
    <2> QED BY <2>1, <2>2
  <1>5. Grows
    BY <1>1, <1>4 DEF Grows, Same
  <1>6. \A c : Active(c)' = Active(c) /\ Of(c)' = Of(c)
    BY <1>1 DEF Active, Matching, Of
  <1>7. \A c \in Claims : AllLinked(c)'
    <2>1. \A c : Active(c)' \subseteq Active(c)
      BY <1>6
    <2> QED BY <1>1, <1>2, <1>3, <1>4, <1>5, <2>1, JoinedWhole
  <1>8. \A c \in Claims : Stands(c)'
    BY <1>1, <1>6 DEF Stands, InTurn, History
  <1>9. History'
    BY <1>7, <1>8 DEF History, Whole, AllLinked
  <1>10. CASE Turn(e)
    <2>1. Alone(e) /\ InHand(e)'
      BY <1>1, <1>10, GoesToTurn DEF Alone
    <2> QED BY <1>3, <1>9, <2>1, OwnStep
  <1>11. CASE Go(e, "settle") /\ UNCHANGED at
    <2>1. pc'[e] = "settle" /\ Alone(e) /\ UNCHANGED at
      BY <1>1, <1>11 DEF Go, IInv, Typed, Alone
    <2>2. The(e)' = The(e) /\ Asserted(e)' = Asserted(e) /\ Active(The(e).claim)' = Active(k)
      BY <1>1, <1>2, <1>6, <2>1 DEF The, Asserted
    <2>3. InHand(e)'
      BY <1>1, <1>2, <1>3, <2>1, <2>2 DEF InHand, Open
    <2> QED BY <1>3, <1>9, <2>1, <2>3, OwnStep
  <1> QED BY <1>10, <1>11 DEF Relate

\* Of the two one is set aside, and the other one stands.
LEMMA SettleInTurn ==
    ASSUME IInv, InTurn, NEW e \in Deliveries, Settle(e)
    PROVE  InTurn'
  <1>1. /\ pc[e] = "settle" /\ ~Open(e) /\ InHand(e) /\ Turn(e)
        /\ UNCHANGED <<evidence, relations, said, event, cur, cand>>
    BY DEF Settle, At, Open, InTurn, events
  <1>2. PICK k \in Claims, x \in {cur[e]}, y \in {cand[e]} : k = The(e).claim /\ x = cur[e] /\ y = cand[e]
    BY <1>1, HoldsBoth
  <1>3. /\ Busy(e) /\ x \in Active(k) /\ y \in Active(k) /\ x # y
    <2>1. /\ Busy(e) /\ y \in Of(k) /\ ledger[y].status = Asserted(e) /\ x \in Active(k)
          /\ The(e).kind = "added" /\ x # y
      BY <1>1, <1>2, HoldsBoth DEF InHand
    <2> QED BY <2>1, ActiveIs DEF Asserted, Of
  <1>4. PICK z \in {x, y} : ledger' = [ledger EXCEPT ![z].status = "contradicted"]
    BY <1>2 DEF Settle, Loser
  <1>5. z \in DOMAIN ledger /\ ledger[z].claim = k /\ ledger[z].status = "active" /\ Typed
    BY <1>3, <1>4, ActiveIs DEF IInv
  <1>6. /\ Grows /\ \A b \in DOMAIN ledger \ {z} : ledger'[b] = ledger[b]
        /\ \A c : Active(c)' = Active(c) \ {z} /\ Of(c)' = Of(c)
    BY <1>1, <1>4, <1>5, OneLess
  <1>7. ASSUME NEW c \in Claims
        PROVE  AllLinked(c)'
    <2>1. ASSUME NEW a \in Active(c)', NEW b \in Active(c)', a # b
          PROVE  Linked(c, a, b)'
      <3>1. a \in Active(c) /\ b \in Active(c) /\ a \in Of(c)
        BY <1>6, <2>1, ActiveIs DEF Of
      <3>2. ~Loose(a) /\ ~Loose(b)
        BY <1>1, <1>3, OneLoose
      <3>3. Linked(c, a, b)
        BY <2>1, <3>1, <3>2 DEF InTurn, History, Whole
      <3> QED BY <1>6, <3>1, <3>3, LinkedGrows
    <2> QED BY <2>1 DEF AllLinked
  <1>8. ASSUME NEW c \in Claims
        PROVE  Stands(c)'
    <2> SUFFICES ASSUME Active(c)' = {}, Of(c)' # {} PROVE \E b \in Of(c)' : ledger'[b].status = "invalidated"
      BY DEF Stands
    <2>1. c # k
      BY <1>3, <1>6
    <2>2. z \notin Of(c) /\ z \notin Active(c)
      BY <1>5, <2>1, ActiveIs DEF Of
    <2>3. Active(c) = {} /\ Of(c) # {}
      BY <1>6, <2>2
    <2>4. PICK b \in Of(c) : ledger[b].status = "invalidated"
      BY <2>3 DEF InTurn, History, Stands
    <2> QED BY <1>6, <2>2, <2>4 DEF Of
  <1>9. History'
    BY <1>7, <1>8 DEF History, Whole, AllLinked
  <1>10. Alone(e) /\ InHand(e)'
    BY <1>1, GoesToTurn DEF Alone
  <1> QED BY <1>3, <1>9, <1>10, OwnStep

\* The end of a task.
LEMMA EndInTurn ==
    ASSUME IInv, InTurn, NEW e \in Deliveries, Activate(e) \/ Complete(e) \/ Publish(e) \/ Fail(e)
    PROVE  InTurn'
  <1> USE DEF Activate, Complete, Publish, Fail, SetEvent, Go, At, local, tables, events
  <1>1. Busy(e) /\ ~Open(e) /\ UNCHANGED <<ledger, relations>>
    BY DEF Busy, Open
  <1>2. pc'[e] \in {"complete", "publish", "done"} /\ Alone(e)
    BY DEF IInv, Typed, Alone
  <1>3. InHand(e)'
    BY <1>2 DEF InHand, Open
  <1> QED BY <1>1, <1>2, <1>3, StillWhole, OwnStep

\* A task begins when no other is at work, or tasks overlap from here on.
LEMMA StartInTurn ==
    ASSUME IInv, InTurn, NEW e \in Deliveries, Begin(e) \/ Observe(e), pc[e] \in {"none", "start"}, ~overlapped'
    PROVE  InTurn'
  <1>1. UNCHANGED <<ledger, relations, cand, cur, said, at>>
    BY DEF Begin, Observe, Arrives, SetEvent, local, tables
  <1>2. /\ pc'[e] \in {"start", "interpret"} /\ \A f \in Deliveries \ {e} : pc'[f] = pc[f]
        /\ pc \in [Deliveries -> Places]
    BY DEF Begin, Observe, Go, IInv, Typed
  <1>3. \A f \in Deliveries : Open(f)' = Open(f)
    BY <1>2 DEF Open
  <1>4. \A c : Active(c)' = Active(c) /\ Of(c)' = Of(c)
    BY <1>1 DEF Active, Matching, Of
  <1>5. \A c, a, b : Linked(c, a, b)' = Linked(c, a, b)
    BY <1>1 DEF Linked, Of, Joined
  <1>6. \A b : Loose(b)' = Loose(b)
    BY <1>1, <1>3 DEF Loose
  <1>7. History'
    BY <1>1, <1>4, <1>5, <1>6 DEF InTurn, History, Whole, Stands
  <1>8. OneBusy'
    <2>1. CASE Begin(e)
      <3>1. \A f \in Deliveries : ~Busy(f)
        BY <2>1 DEF Begin
      <3> QED BY <1>2, <3>1 DEF OneBusy, Busy
    <2>2. CASE Observe(e)
      <3>1. pc'[e] = "start"
        BY <2>2, <1>2 DEF Observe, Go
      <3> QED BY <1>2, <3>1 DEF OneBusy, Busy, InTurn
    <2> QED BY <2>1, <2>2
  <1>9. ASSUME NEW f \in Deliveries PROVE InHand(f)'
    <2>1. CASE f = e
      BY <1>2, <2>1 DEF InHand, Open
    <2>2. CASE f # e
      <3>1. InHand(f) /\ pc'[f] = pc[f] /\ Open(f)' = Open(f)
        BY <1>2, <1>3, <2>2 DEF InTurn
      <3>2. The(f)' = The(f) /\ Asserted(f)' = Asserted(f) /\ Equal(f)' = Equal(f)
        BY <1>1 DEF The, Asserted, Equal, Matching
      <3>3. \A c : AllLinked(c)' = AllLinked(c)
        BY <1>4, <1>5 DEF AllLinked
      <3>4. Active(The(f).claim)' = Active(The(f).claim) /\ AllLinked(The(f).claim)' = AllLinked(The(f).claim)
        BY <1>1, <1>4, <1>5, <3>2 DEF The, Active, Matching, AllLinked, Linked, Of, Joined
      <3>5. IsNew(f)' = IsNew(f)
        BY <1>1, <3>2, <3>4 DEF IsNew
      <3> QED BY <1>1, <3>1, <3>2, <3>4, <3>5 DEF InHand
    <2> QED BY <2>1, <2>2
  <1> QED BY <1>7, <1>8, <1>9 DEF InTurn

LEMMA SeqInit == Init => SeqInv
  <1> SUFFICES ASSUME Init PROVE SeqInv
    OBVIOUS
  <1>1. ledger = <<>> /\ \A e \in Deliveries : pc[e] = "none"
    BY DEF Init
  <1>2. \A c : Of(c) = {} /\ Active(c) = {}
    BY <1>1, ActiveIs DEF Of
  <1>3. History
    BY <1>2 DEF History, Whole, Stands
  <1>4. OneBusy /\ \A e \in Deliveries : InHand(e)
    BY <1>1 DEF OneBusy, Busy, InHand, Open
  <1> QED BY <1>3, <1>4 DEF SeqInv, InTurn, Init

\* One task at a time, and none that failed, after the step: so before it.
LEMMA SeqStep == IInv /\ SeqInv /\ [Next]_vars => SeqInv'
  <1> SUFFICES ASSUME IInv, SeqInv, [Next]_vars PROVE SeqInv'
    OBVIOUS
  <1>1. CASE UNCHANGED vars
    <2>1. UNCHANGED <<ledger, evidence, relations, cand, cur, said, at, pc, event, faults, crashes, overlapped>>
      BY <1>1 DEF vars, events, local, tables, bounds
    <2>2. \A c : Active(c)' = Active(c) /\ Of(c)' = Of(c)
      BY <2>1 DEF Active, Matching, Of
    <2>3. \A c, a, b : Linked(c, a, b)' = Linked(c, a, b)
      BY <2>1 DEF Linked, Of, Joined
    <2>4. \A b : Loose(b)' = Loose(b)
      BY <2>1 DEF Loose, Open
    <2>5. History' = History /\ OneBusy' = OneBusy
      BY <2>1, <2>2, <2>3, <2>4 DEF History, Whole, Stands, OneBusy, Busy
    <2>6. ASSUME NEW f \in Deliveries PROVE InHand(f)' = InHand(f)
      <3>1. The(f)' = The(f) /\ Asserted(f)' = Asserted(f) /\ Equal(f)' = Equal(f) /\ Open(f)' = Open(f)
        BY <2>1 DEF The, Asserted, Equal, Matching, Open
      <3>2. Active(The(f).claim)' = Active(The(f).claim) /\ AllLinked(The(f).claim)' = AllLinked(The(f).claim)
        BY <2>1, <2>2, <2>3, <3>1 DEF The, Active, Matching, AllLinked, Linked, Of, Joined
      <3>3. IsNew(f)' = IsNew(f)
        BY <2>1, <3>1, <3>2 DEF IsNew
      <3> QED BY <2>1, <3>1, <3>2, <3>3 DEF InHand
    <2> QED BY <2>1, <2>5, <2>6 DEF SeqInv, InTurn, Sequential
  <1>2. CASE Next
    <2>1. faults' \in Nat /\ crashes' \in Nat
      <3>1. CASE Crash
        BY <3>1 DEF SeqInv, Crash
      <3>2. ASSUME NEW e \in Deliveries, ObserveRaises(e) \/ Raises(e) \/ FailRaises(e)
            PROVE  faults' \in Nat /\ crashes' \in Nat
        BY <3>2 DEF SeqInv, ObserveRaises, Raises, FailRaises, Fault
      <3>3. ASSUME NEW e \in Deliveries, Observe(e) \/ Task(e) PROVE faults' \in Nat /\ crashes' \in Nat
        <4>1. UNCHANGED <<faults, crashes>>
          BY <3>3 DEF Task, Observe, Begin, Interpret, Look, Find, Insert, Attach, Retire, Relate, Settle,
            Activate, Complete, Publish, Fail, bounds
        <4> QED BY <4>1 DEF SeqInv
      <3> QED BY <1>2, <3>1, <3>2, <3>3 DEF Next
    <2>2. ASSUME NEW e \in Deliveries PROVE event'[e] = "absent" => pc'[e] = "none"
      BY <1>2 DEF SeqInv, IInv, Typed, Next, Task, Observe, ObserveRaises, Raises, FailRaises, Crash, Begin,
        Interpret, Look, Find, Insert, Attach, Retire, Relate, Settle, Activate, Complete, Publish, Fail,
        Arrives, SetEvent, Reach, Turn, Onward, At, Go, Busy, events, local
    <2>3. Sequential' => InTurn'
      <3> SUFFICES ASSUME Sequential' PROVE InTurn'
        OBVIOUS
      <3>1. PICK e \in Deliveries : Observe(e) \/ Task(e)
        <4>1. \A x \in Nat : x + 1 # 0
          OBVIOUS
        <4> QED BY <1>2, <4>1 DEF SeqInv, Sequential, Next, ObserveRaises, Raises, FailRaises, Crash, Fault
      <3>2. Sequential
        <4>1. UNCHANGED <<faults, crashes>>
          BY <3>1 DEF Task, Observe, Begin, Interpret, Look, Find, Insert, Attach, Retire, Relate, Settle,
            Activate, Complete, Publish, Fail, bounds
        <4>2. CASE Begin(e)
          BY <4>1, <4>2 DEF Begin, Sequential
        <4>3. CASE ~Begin(e)
          <5>1. UNCHANGED overlapped
            BY <3>1, <4>3 DEF Task, Observe, Interpret, Look, Find, Insert, Attach, Retire, Relate, Settle,
              Activate, Complete, Publish, Fail
          <5> QED BY <4>1, <5>1 DEF Sequential
        <4> QED BY <4>2, <4>3
      <3>3. InTurn
        BY <3>2 DEF SeqInv
      <3>4. CASE Observe(e) \/ Begin(e)
        <4>1. pc[e] \in {"none", "start"}
          BY <3>4 DEF SeqInv, Observe, Arrives, Begin, At
        <4> QED BY <3>3, <3>4, <4>1, StartInTurn DEF Sequential
      <3>5. CASE Interpret(e) \/ Look(e) \/ Find(e)
        BY <3>3, <3>5, ReadsInTurn
      <3>6. CASE Insert(e)
        BY <3>3, <3>6, InsertInTurn
      <3>7. CASE Attach(e)
        BY <3>3, <3>7, AttachInTurn
      <3>8. CASE Retire(e)
        BY <3>3, <3>8, RetireInTurn
      <3>9. CASE Relate(e)
        BY <3>3, <3>9, RelateInTurn
      <3>10. CASE Settle(e)
        BY <3>3, <3>10, SettleInTurn
      <3>11. CASE Activate(e) \/ Complete(e) \/ Publish(e) \/ Fail(e)
        BY <3>3, <3>11, EndInTurn
      <3> QED BY <3>1, <3>4, <3>5, <3>6, <3>7, <3>8, <3>9, <3>10, <3>11 DEF Task
    <2> QED BY <2>1, <2>2, <2>3 DEF SeqInv
  <1> QED BY <1>1, <1>2

(* As long as tasks run one at a time and to their end, in whatever order  *)
(* the events came and whatever they were interpreted as: every two active *)
(* beliefs of a claim are linked by a chain of relationships, and a claim  *)
(* nobody removed has one (reconcile, create, update, get_history).        *)
THEOREM LedgerStaysWhole == Spec => []LedgerIsWhole
  <1>1. SeqInv => LedgerIsWhole
    <2> SUFFICES ASSUME SeqInv, Sequential, \A e \in Deliveries : ~Busy(e), NEW c \in Claims
                 PROVE  /\ \A a, b \in Active(c) : a # b => Linked(c, a, b)
                        /\ Active(c) = {} /\ Of(c) # {} => \E b \in Of(c) : ledger[b].status = "invalidated"
      BY DEF LedgerIsWhole, Sequential
    <2>1. \A b : ~Loose(b)
      BY DEF Loose, Open, Busy
    <2>2. Whole(c) /\ Stands(c)
      BY DEF SeqInv, InTurn, History
    <2> QED BY <2>1, <2>2 DEF Whole, Stands
  <1>2. Init => IInv /\ SeqInv
    BY InitSound, SeqInit
  <1>3. IInv /\ SeqInv /\ [Next]_vars => IInv' /\ SeqInv'
    BY StepSound, SeqStep
  <1> QED BY <1>1, <1>2, <1>3, PTL DEF Spec
=============================================================================
