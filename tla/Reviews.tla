------------------------------ MODULE Reviews ------------------------------
(***************************************************************************)
(* A runbook, the reviewable claims about its steps, and the proposals     *)
(* that rest on them (runbooks/service.py, reliability/assertions.py,      *)
(* reliability/impact.py, approvals/service.py).                           *)
(*                                                                         *)
(* Request threads extract the runbook, list and so verify claims, analyse *)
(* a change, dismiss a claim and propose a step for production; each read  *)
(* and each write is a connection of its own.  People review in one write. *)
(***************************************************************************)
EXTENDS Naturals, Sequences, FiniteSets

CONSTANTS
  Threads,      \* threads that serve requests
  Texts,        \* what a step may say
  Extractions,  \* what extraction may find: sequences of step texts
  Ids,          \* pool of runbook row ids
  Requests,     \* bound: requests and reviews
  MaxFaults     \* bound: errors of the database, the files or the graph

None == "none"
NoRunbook == [id |-> None, steps |-> <<>>, version |-> 0]
Statuses == {"proposed", "verified", "possibly_stale", "stale", "superseded"}
Policies == {"unverified", "trusted", "review_required", "blocked_pending_review",
             "superseded", "dismissed"}

Verdicts == {"pending", "denied"}

Rows == [id : Ids \union {None}, steps : Extractions \union {<<>>}, version : Nat]
Claims == [of : Ids \X Nat, status : Statuses, policy : Policies]

Places == {"free", "insert", "look", "create", "listing", "impact", "flagging", "dismiss", "file"}
Works == [row : Rows, step : Nat, created : BOOLEAN, todo : SUBSET Nat,
          next : {None, "show", "analyze", "judge"}, claim : Nat, was : Statuses \union {None},
          trusted : BOOLEAN, status : Verdicts, calm : BOOLEAN, late : SUBSET Nat]

ASSUME ReviewAssumption ==
  None \notin Ids /\ Extractions \subseteq Seq(Texts) /\ Requests \in Nat /\ MaxFaults \in Nat

VARIABLES
  runbook,    \* the row of the one key, UNIQUE in the project
  claims,     \* operational_assertions, oldest first
  proposals,  \* what was proposed for production: [runbook, steps, trusted, status, calm]
  used,       \* row ids given out
  pc, work,   \* per thread: place, and what it has read
  requests, faults,
  reviewed,   \* history: claims decided by somebody or by the stability policy; a dismissal counts
  broken      \* history: a save has failed half way

tables == <<runbook, claims, proposals, used>>
vars == <<tables, pc, work, requests, faults, reviewed, broken>>

NoWork == [row |-> NoRunbook, step |-> 0, created |-> FALSE, todo |-> {}, next |-> None,
           claim |-> 0, was |-> None, trusted |-> FALSE, status |-> "pending", calm |-> FALSE, late |-> {}]

Init ==
  /\ runbook = NoRunbook /\ claims = <<>> /\ proposals = {} /\ used = {}
  /\ pc = [t \in Threads |-> "free"] /\ work = [t \in Threads |-> NoWork]
  /\ requests = 0 /\ faults = 0 /\ reviewed = {} /\ broken = FALSE

At(t, place) == pc[t] = place
Step(t, place, w) == pc' = [pc EXCEPT ![t] = place] /\ work' = [work EXCEPT ![t] = w]
Leave(t) == Step(t, "free", NoWork)
Quiet == UNCHANGED <<requests, faults, reviewed, broken>>
Request == requests < Requests /\ requests' = requests + 1 /\ UNCHANGED <<faults, reviewed, broken>>
Saving(t) == pc[t] \in {"insert", "look", "create"}

(* Claims of a runbook that is no longer there are not listed. *)
Visible == {c \in DOMAIN claims : claims[c].of[1] = runbook.id}
ClaimsOf(id, k) == {c \in DOMAIN claims : claims[c].of = <<id, k>>}

(***************************************************************************)
(* RunbookService.save and ensure_runbook_assertions                       *)
(***************************************************************************)
(* The version is bumped only when what was extracted has changed. *)
Versioned(steps) ==
  IF runbook = NoRunbook THEN 1
  ELSE IF runbook.steps = steps THEN runbook.version ELSE runbook.version + 1

(* The row read decides its id; a save in progress disturbs every proposal. *)
Save(t) ==
  /\ At(t, "free") /\ Request
  /\ \E steps \in Extractions, id \in IF runbook = NoRunbook THEN Ids \ used ELSE {runbook.id} :
       /\ used' = used \union {id}
       /\ pc' = [pc EXCEPT ![t] = "insert"]
       /\ work' = [u \in Threads |->
            IF u = t THEN [NoWork EXCEPT !.row = [id |-> id, steps |-> steps, version |-> Versioned(steps)]]
                     ELSE [work[u] EXCEPT !.calm = FALSE]]
  /\ UNCHANGED <<runbook, claims, proposals>>

(* INSERT OR REPLACE: the UNIQUE key replaces a row another thread inserted. *)
InsertRunbook(t) ==
  /\ At(t, "insert") /\ runbook' = work[t].row
  /\ Step(t, "look", [work[t] EXCEPT !.step = 1])
  /\ UNCHANGED <<claims, proposals, used>> /\ Quiet

LookAnywhere(t) ==  \* Mutant: a claim of the step is found under any runbook row
  LET w == work[t] IN
  /\ At(t, "look") /\ w.step <= Len(w.row.steps)
  /\ IF \E c \in DOMAIN claims : claims[c].of[2] = w.step
     THEN Step(t, "look", [w EXCEPT !.step = @ + 1]) ELSE Step(t, "create", w)
  /\ UNCHANGED tables /\ Quiet

(* A step that has a claim keeps it, whatever the step says now. *)
Look(t) ==
  LET w == work[t] IN
  /\ At(t, "look") /\ w.step <= Len(w.row.steps)
  /\ IF ClaimsOf(w.row.id, w.step) # {}
     THEN Step(t, "look", [w EXCEPT !.step = @ + 1]) ELSE Step(t, "create", w)
  /\ UNCHANGED tables /\ Quiet

Create(t) ==
  LET w == work[t] IN
  /\ At(t, "create")
  /\ claims' = Append(claims, [of |-> <<w.row.id, w.step>>, status |-> "proposed", policy |-> "unverified"])
  /\ Step(t, "look", [w EXCEPT !.step = @ + 1, !.created = TRUE])
  /\ UNCHANGED <<runbook, proposals, used>> /\ Quiet

(* A save that created claims writes its payload again, by its row's id. *)
FinishSave(t) ==
  LET w == work[t] IN
  /\ At(t, "look") /\ w.step > Len(w.row.steps)
  /\ runbook' = IF w.created /\ runbook.id = w.row.id THEN w.row ELSE runbook
  /\ Leave(t) /\ UNCHANGED <<claims, proposals, used>> /\ Quiet

SaveRaises(t) ==
  /\ Saving(t) /\ faults < MaxFaults /\ faults' = faults + 1
  /\ broken' = TRUE /\ Leave(t) /\ UNCHANGED <<tables, requests, reviewed>>

(***************************************************************************)
(* OperationalAssertionService.transition                                  *)
(***************************************************************************)
SetClaim(c, status, policy) ==
  claims' = [claims EXCEPT ![c].status = status, ![c].policy = policy]

(* What a thread is about to write to a claim on its own account. *)
Holding(t) == IF pc[t] = "listing" THEN work[t].todo
              ELSE IF pc[t] = "flagging" THEN {work[t].claim} ELSE {}

(* A person verifies, marks stale or supersedes, whatever the status is. *)
Review(c) ==
  /\ \/ SetClaim(c, "verified", "trusted")
     \/ SetClaim(c, "stale", "blocked_pending_review")
     \/ SetClaim(c, "superseded", "superseded")
  /\ reviewed' = reviewed \union {c}
  /\ work' = [t \in Threads |-> [work[t] EXCEPT !.late = @ \union (Holding(t) \intersect {c})]]
  /\ requests < Requests /\ requests' = requests + 1
  /\ UNCHANGED <<runbook, proposals, used, pc, faults, broken>>

(* A dismissal writes back the status it has read. *)
Dismiss(t, c) ==
  /\ At(t, "free") /\ Request
  /\ Step(t, "dismiss", [NoWork EXCEPT !.claim = c, !.was = claims[c].status])
  /\ UNCHANGED tables

WriteDismissal(t) ==
  LET c == work[t].claim IN
  /\ At(t, "dismiss") /\ SetClaim(c, work[t].was, "dismissed")
  /\ reviewed' = reviewed \union {c}
  /\ pc' = [pc EXCEPT ![t] = "free"]
  /\ work' = [u \in Threads |->
       IF u = t THEN NoWork ELSE [work[u] EXCEPT !.late = @ \union (Holding(u) \intersect {c})]]
  /\ UNCHANGED <<runbook, proposals, used, requests, faults, broken>>

(***************************************************************************)
(* list: every listing verifies what stood undisputed for long enough      *)
(***************************************************************************)
(* Of these, the ones that are old, owned and of an unchanged commit. *)
Undisputed == {c \in DOMAIN claims : claims[c].status = "proposed" /\ claims[c].policy = "unverified"}

List(t, next, row, calm) ==
  /\ At(t, "free") /\ Request
  /\ \E old \in SUBSET Undisputed :
       Step(t, "listing", [NoWork EXCEPT !.todo = old, !.next = next, !.row = row, !.calm = calm])
  /\ UNCHANGED tables

AutoVerify(t) ==
  /\ At(t, "listing")
  /\ \E c \in work[t].todo :
       /\ SetClaim(c, "verified", "trusted") /\ reviewed' = reviewed \union {c}
       /\ Step(t, "listing", [work[t] EXCEPT !.todo = @ \ {c}, !.late = @ \ {c}])
  /\ UNCHANGED <<runbook, proposals, used, requests, faults, broken>>

Listed(t, next) == At(t, "listing") /\ work[t].todo = {} /\ work[t].next = next

ListOnly(t) == List(t, "show", NoRunbook, FALSE)
Show(t) == Listed(t, "show") /\ Leave(t) /\ UNCHANGED tables /\ Quiet

(***************************************************************************)
(* ChangeImpactService.analyze: claims connected to a change lose trust    *)
(***************************************************************************)
Analyze(t) == List(t, "analyze", NoRunbook, FALSE)

(* By the graph a single claim, by a service every claim of the runbook. *)
Connect(t) ==
  /\ Listed(t, "analyze")
  /\ \E connected \in {Visible} \union {{c} : c \in Visible} :
       Step(t, "impact", [work[t] EXCEPT !.todo = {c \in connected : claims[c].status = "verified"}])
  /\ UNCHANGED tables /\ Quiet

ReadImpactBlind(t) ==  \* Mutant: the flag trusts the listing
  /\ At(t, "impact")
  /\ \E c \in work[t].todo : Step(t, "flagging", [work[t] EXCEPT !.todo = @ \ {c}, !.claim = c])
  /\ UNCHANGED tables /\ Quiet

(* flag_possibly_stale reads again: only a claim still verified loses it. *)
ReadImpact(t) ==
  /\ At(t, "impact")
  /\ \E c \in work[t].todo :
       Step(t, IF claims[c].status = "verified" THEN "flagging" ELSE "impact",
            [work[t] EXCEPT !.todo = @ \ {c}, !.claim = c])
  /\ UNCHANGED tables /\ Quiet

Flag(t) ==
  /\ At(t, "flagging") /\ SetClaim(work[t].claim, "possibly_stale", "review_required")
  /\ Step(t, "impact", [work[t] EXCEPT !.late = {}])
  /\ UNCHANGED <<runbook, proposals, used>> /\ Quiet

Report(t) ==
  /\ At(t, "impact") /\ work[t].todo = {} /\ Leave(t) /\ UNCHANGED tables /\ Quiet

(***************************************************************************)
(* ApprovalService.propose, of a step that changes production              *)
(***************************************************************************)
Propose(t) ==
  /\ runbook # NoRunbook
  /\ List(t, "judge", runbook, ~broken /\ \A u \in Threads : ~Saving(u))

UnresolvedFlagged ==  \* Mutant: a claim nobody looked at does no harm
  {c \in Visible : claims[c].status \in {"possibly_stale", "stale"} /\ claims[c].policy # "dismissed"}

Unresolved ==
  {c \in Visible : claims[c].status \in {"proposed", "possibly_stale", "stale"}
                   /\ claims[c].policy # "dismissed"}

(* The policy lets no step through that changes production: it denies it  *)
(* or sends it to approval.  Only the latter is held against the claims of *)
(* the runbook; a denied one answers that it is trusted whatever they are. *)
Judge(t) ==
  LET w == work[t]
      open == {c \in Unresolved : claims[c].of[1] = w.row.id}
  IN
  /\ Listed(t, "judge")
  /\ \E status \in Verdicts :
       Step(t, "file", [w EXCEPT !.status = status, !.trusted = (open = {} \/ status = "denied")])
  /\ UNCHANGED tables /\ Quiet

File(t) ==
  LET w == work[t] IN
  /\ At(t, "file")
  /\ proposals' = proposals \union
       {[runbook |-> w.row.id, steps |-> Len(w.row.steps), trusted |-> w.trusted,
        status |-> w.status, calm |-> w.calm]}
  /\ Leave(t) /\ UNCHANGED <<runbook, claims, used>> /\ Quiet

Raises(t) ==
  /\ pc[t] # "free" /\ ~Saving(t) /\ faults < MaxFaults /\ faults' = faults + 1
  /\ Leave(t) /\ UNCHANGED <<tables, requests, reviewed, broken>>

Extract(t) == Save(t) \/ InsertRunbook(t) \/ Look(t) \/ Create(t) \/ FinishSave(t) \/ SaveRaises(t)
Assess(t) == Analyze(t) \/ Connect(t) \/ ReadImpact(t) \/ Flag(t) \/ Report(t)
Gate(t) == Propose(t) \/ Judge(t) \/ File(t)

Next ==
  \/ \E t \in Threads :
       \/ Extract(t) \/ Assess(t) \/ Gate(t) \/ ListOnly(t) \/ AutoVerify(t) \/ Show(t) \/ Raises(t)
       \/ WriteDismissal(t) \/ \E c \in DOMAIN claims : Dismiss(t, c)
  \/ \E c \in DOMAIN claims : Review(c)

Spec == Init /\ [][Next]_vars

(***************************************************************************)
(* Properties                                                              *)
(***************************************************************************)
TypeOK ==
  /\ runbook \in Rows /\ claims \in Seq(Claims) /\ used \subseteq Ids
  /\ proposals \subseteq [runbook : Ids, steps : Nat, trusted : BOOLEAN, status : Verdicts, calm : BOOLEAN]
  /\ pc \in [Threads -> Places] /\ work \in [Threads -> Works]
  /\ requests \in Nat /\ faults \in Nat /\ reviewed \subseteq DOMAIN claims /\ broken \in BOOLEAN

(* However first extractions of one runbook race and replace each other's  *)
(* row, once no save is under way, and unless one failed half way, every   *)
(* step of the runbook that is left has a claim somebody can review.       *)
StepsAreClaimed ==
  ~broken /\ (\A t \in Threads : ~Saving(t)) =>
    \A k \in DOMAIN runbook.steps : ClaimsOf(runbook.id, k) # {}

(* A production proposal that may still be approved and was answered as    *)
(* trusted, with no save of the runbook running while it was made, rests   *)
(* on claims of all its steps that were decided, by somebody or by the     *)
(* stability policy.  Two things count less than the docs make of them: a  *)
(* denied proposal is called trusted over open claims, and dismissing a    *)
(* stale claim is decision enough to be trusted over it.                   *)
Relies(p) == p.trusted /\ p.calm /\ p.status # "denied"

TrustIsReviewed ==
  \A p \in proposals : Relies(p) =>
    \A k \in 1..p.steps : ClaimsOf(p.runbook, k) # {} /\ ClaimsOf(p.runbook, k) \subseteq reviewed

(* A claim that a person closed, as stale, superseded or dismissed before  *)
(* anybody trusted it, is not taken up by the stability policy or by an    *)
(* impact analysis afterwards; only one that had read the claim before the *)
(* person decided still overwrites the decision.                           *)
Closed(c) == \/ claims[c].status \in {"stale", "superseded"}
             \/ claims[c].policy = "dismissed" /\ claims[c].status # "verified"

DecisionsStand ==
  \A t \in Threads : \A c \in Holding(t) : Closed(c) => c \in work[t].late
=============================================================================
