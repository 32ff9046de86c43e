--------------------------- MODULE ExecutionRuns ---------------------------
(***************************************************************************)
(* Execution runs (execution/runner.py), the skills they are given and     *)
(* teach (skills/library.py) and the outcomes they leave in the ledger     *)
(* (outcomes/ledger.py).                                                   *)
(*                                                                         *)
(* A run has one background thread.  It ends in _finish, which writes the  *)
(* run's status, counts the use of its skills, distils a success and labels *)
(* the served context, each in a connection of its own.  Which context was *)
(* served is what the client says: several runs may name the same one, and *)
(* a person may label it too.                                              *)
(***************************************************************************)
EXTENDS Naturals, Sequences, FiniteSets

CONSTANTS
  Runs,       \* execution runs, each for one handoff
  Contexts,   \* served contexts the ledger knows
  Named,      \* what a client may name for a run: Runs -> sets of them, None if unknown to it
  Reportable, \* outcomes a person may report of one
  Tasks,      \* requests, up to wording
  Skills,     \* rows of learned_skills, a pool
  Earlier,    \* runs that ended before
  Learned,    \* what they left: Skills -> rows of the library
  Teachers,   \* and which of them each skill counts as a success
  Trusted,    \* TRUST_THRESHOLD
  MaxEvents   \* bound: errors and failed calls, ends of the process and reported outcomes, together

None == "none"
Person == "person"
Outcomes == {"succeeded", "failed", "partial", "abandoned", "unknown"}
FreeRow == [status |-> "free", trigger |-> None, successes |-> 0, failures |-> 0]
SkillRow == [status : {"free", "proposed", "active", "retired"}, trigger : Tasks \union {None},
             successes : Nat, failures : Nat]

ASSUME ExecutionAssumption ==
  /\ Trusted = 2 /\ Runs \intersect Earlier = {} /\ None \notin Skills \union Contexts /\ Person \notin Runs
  /\ Named \in [Runs -> SUBSET (Contexts \union {None})]
  /\ Learned \in [Skills -> SkillRow] /\ Teachers \in [Skills -> SUBSET Earlier]
  /\ \A s \in Skills :
       /\ Learned[s].status = "active" => \E q, r \in Teachers[s] : q # r
       /\ Learned[s].status = "proposed" => Learned[s].successes = 1 /\ Teachers[s] # {}
  /\ Reportable \subseteq Outcomes /\ MaxEvents \in Nat

VARIABLES
  run,      \* execution_runs: [status, task, skills, context, push, commit, pushed]
  remote,   \* the runs whose branch is on the remote
  library,  \* learned_skills: [status, trigger, successes, failures]
  ledger,   \* outcome_events of each context, oldest first: [by, outcome]
  pc,       \* where each run's thread is
  work,     \* what it has read: [ending, todo, skill, row]
  faults, crashes, reports,
  earned,   \* history: the runs whose success a skill has counted
  overlap,  \* history: two threads held rows of the library at once
  unlabelled, \* history: runs whose outcome could not be recorded
  unheard   \* history: runs whose thread ended on an error nobody handles

rows == <<run, remote, library, ledger>>
history == <<earned, overlap, unlabelled, unheard>>
vars == <<rows, pc, work, faults, crashes, reports, history>>

Success == {"committed", "pushed"}
Settled == Success \union {"no_changes", "failed"}
NoWork == [ending |-> None, todo |-> {}, skill |-> None, row |-> FreeRow]

Init ==
  /\ run = [r \in Runs |-> [status |-> None, task |-> None, skills |-> {}, context |-> None,
                            push |-> FALSE, commit |-> FALSE, pushed |-> FALSE]]
  /\ remote = {} /\ ledger = [c \in Contexts |-> <<>>]
  /\ library = Learned
  /\ pc = [r \in Runs |-> None] /\ work = [r \in Runs |-> NoWork]
  /\ faults = 0 /\ crashes = 0 /\ reports = 0
  /\ earned = Teachers /\ overlap = FALSE /\ unlabelled = {} /\ unheard = {}

At(r, place) == pc[r] = place
Step(r, place, w) == pc' = [pc EXCEPT ![r] = place] /\ work' = [work EXCEPT ![r] = w]
Go(r, place) == Step(r, place, work[r])
End(r, ending) == Step(r, "finish", [NoWork EXCEPT !.ending = ending])
Faultless == UNCHANGED <<faults, crashes, reports>>
Happens == faults + crashes + reports < MaxEvents
Fault == Happens /\ faults' = faults + 1 /\ UNCHANGED <<crashes, reports>>
SetRun(r, row) == run' = [run EXCEPT ![r] = row]

(***************************************************************************)
(* Ask and start                                                           *)
(***************************************************************************)
(* matches: what an answer's handoff carries is active skills only. *)
Matches(task) == {s \in Skills : library[s].status = "active" /\ library[s].trigger = task}

Ask(r) ==
  /\ run[r].status = None
  /\ \E t \in Tasks : SetRun(r, [run[r] EXCEPT !.status = "offered", !.task = t, !.skills = Matches(t)])
  /\ UNCHANGED <<remote, library, ledger, pc, work, history>> /\ Faultless

(* The client names the context: one that was named before, or none the    *)
(* ledger knows.                                                           *)
StartRun(r) ==
  /\ run[r].status = "offered"
  /\ \E p \in BOOLEAN, c \in Named[r] :
       SetRun(r, [run[r] EXCEPT !.status = "queued", !.push = p, !.context = c])
  /\ Go(r, "begin") /\ UNCHANGED <<remote, library, ledger, history>> /\ Faultless

(***************************************************************************)
(* execute                                                                 *)
(***************************************************************************)
Begin(r) ==
  /\ At(r, "begin") /\ SetRun(r, [run[r] EXCEPT !.status = "running"]) /\ Go(r, "agent")
  /\ UNCHANGED <<remote, library, ledger, history>> /\ Faultless

(* Clone, branch and agent; a tree without changes ends the run. *)
RunAgent(r) ==
  /\ At(r, "agent") /\ (Go(r, "save") \/ End(r, "no_changes"))
  /\ UNCHANGED <<rows, history>> /\ Faultless

(* git commit, then the row. *)
SaveCommitUnsaved(r) ==  \* Mutant: the row is written after the push
  /\ At(r, "save") /\ UNCHANGED run
  /\ IF run[r].push THEN Go(r, "push") ELSE End(r, "committed")
  /\ UNCHANGED <<remote, library, ledger, history>> /\ Faultless

SaveCommit(r) ==
  /\ At(r, "save") /\ SetRun(r, [run[r] EXCEPT !.commit = TRUE])
  /\ IF run[r].push THEN Go(r, "push") ELSE End(r, "committed")
  /\ UNCHANGED <<remote, library, ledger, history>> /\ Faultless

Push(r) ==
  /\ At(r, "push") /\ remote' = remote \union {r} /\ Go(r, "publish")
  /\ UNCHANGED <<run, library, ledger, history>> /\ Faultless

(* _open_pull_request, with or without a pull request, then the row. *)
Publish(r) ==
  /\ At(r, "publish") /\ SetRun(r, [run[r] EXCEPT !.pushed = TRUE]) /\ End(r, "pushed")
  /\ UNCHANGED <<remote, library, ledger, history>> /\ Faultless

(* git, the agent, gh or the database fails: the run ends as failed. *)
Raises(r) ==
  /\ pc[r] \in {"begin", "agent", "save", "push", "publish"} /\ Fault
  /\ End(r, "failed") /\ UNCHANGED <<rows, history>>

(***************************************************************************)
(* _finish                                                                 *)
(***************************************************************************)
Ending(r) == work[r].ending

(* After the uses comes the lesson, after it the label. *)
NextUse(r, todo) ==
  IF todo # {} THEN Step(r, "use", [NoWork EXCEPT !.ending = Ending(r), !.todo = todo])
  ELSE IF Ending(r) \in Success THEN Step(r, "distil", [NoWork EXCEPT !.ending = Ending(r)])
  ELSE Step(r, "label", [NoWork EXCEPT !.ending = Ending(r)])

FinishDropped(r) ==  \* Mutant: the ending of a failed run is not written
  /\ At(r, "finish") /\ UNCHANGED run
  /\ NextUse(r, IF Ending(r) = "no_changes" THEN {} ELSE run[r].skills)
  /\ UNCHANGED <<remote, library, ledger, history>> /\ Faultless

Finish(r) ==
  /\ At(r, "finish") /\ SetRun(r, [run[r] EXCEPT !.status = Ending(r)])
  /\ NextUse(r, IF Ending(r) = "no_changes" THEN {} ELSE run[r].skills)
  /\ UNCHANGED <<remote, library, ledger, history>> /\ Faultless

(* An error outside the try block, or in its handler, ends the thread.     *)
Dies(r) == Step(r, "over", NoWork) /\ unheard' = unheard \union {r}
FailAgain(r) == IF Ending(r) = "failed" THEN Dies(r) ELSE End(r, "failed") /\ UNCHANGED unheard

(* The row cannot be read back, or written at all: execute takes that for  *)
(* a failure of the run; in the handler of a failure it ends the thread.   *)
FinishRaises(r) ==
  /\ At(r, "finish") /\ Fault
  /\ UNCHANGED run \/ SetRun(r, [run[r] EXCEPT !.status = Ending(r)])
  /\ FailAgain(r) /\ UNCHANGED <<remote, library, ledger, earned, overlap, unlabelled>>

(***************************************************************************)
(* record_use, one skill after the other                                   *)
(***************************************************************************)
Holding == {q \in Runs : pc[q] \in {"count", "teach"}}
Overlapping(r) == overlap' = (overlap \/ Holding \ {r} # {})

ReadUse(r) ==
  /\ At(r, "use")
  /\ \E s \in work[r].todo :
       Step(r, "count", [work[r] EXCEPT !.todo = @ \ {s}, !.skill = s, !.row = library[s]])
  /\ Overlapping(r) /\ UNCHANGED <<rows, earned, unlabelled, unheard>> /\ Faultless

(* The status follows the counts: more failures than successes retire it.  *)
JudgedLate(row) ==  \* Mutant: all uses are compared instead of the successes
  [row EXCEPT !.status = IF row.failures > row.successes + row.failures THEN "retired"
                         ELSE IF row.successes >= Trusted /\ @ = "proposed" THEN "active" ELSE @]

Judged(row) ==
  [row EXCEPT !.status = IF row.failures > row.successes THEN "retired"
                         ELSE IF row.successes >= Trusted /\ @ = "proposed" THEN "active" ELSE @]

Counted(row, succeeded) ==
  Judged([row EXCEPT !.successes = IF succeeded THEN @ + 1 ELSE @, !.failures = IF succeeded THEN @ ELSE @ + 1])

WriteUse(r) ==
  LET s == work[r].skill  succeeded == Ending(r) \in Success
  IN /\ At(r, "count")
     /\ library' = [library EXCEPT ![s] = Counted(work[r].row, succeeded)]
     /\ earned' = [earned EXCEPT ![s] = IF succeeded THEN @ \union {r} ELSE @]
     /\ NextUse(r, work[r].todo)
     /\ UNCHANGED <<run, remote, ledger, overlap, unlabelled, unheard>> /\ Faultless

(* An error is suppressed, and the remaining uses are not counted. *)
UseFails(r) ==
  /\ pc[r] \in {"use", "count"} /\ Fault /\ NextUse(r, {})
  /\ UNCHANGED <<rows, history>>

(***************************************************************************)
(* distil                                                                  *)
(***************************************************************************)
(* _closest: the best match among those not retired. *)
ClosestAny(task) == {s \in Skills : library[s].trigger = task /\ library[s].status # "free"}  \* Mutant: retired ones too
Closest(task) == {s \in Skills : library[s].trigger = task /\ library[s].status \notin {"free", "retired"}}

FindClosest(r) ==
  LET found == Closest(run[r].task)
  IN /\ At(r, "distil")
     /\ \E s \in IF found = {} THEN {None} ELSE found :
          Step(r, "teach", [work[r] EXCEPT !.skill = s, !.row = IF s = None THEN FreeRow ELSE library[s]])
     /\ Overlapping(r) /\ UNCHANGED <<rows, earned, unlabelled, unheard>> /\ Faultless

(* _reinforce leaves the failures alone and takes the status from the row  *)
(* it was given.                                                           *)
Reinforced(row, now) ==
  [now EXCEPT !.successes = row.successes + 1,
              !.status = IF row.successes + 1 >= Trusted THEN "active" ELSE row.status]

Reinforce(r) ==
  LET s == work[r].skill
  IN /\ At(r, "teach") /\ s # None
     /\ library' = [library EXCEPT ![s] = Reinforced(work[r].row, @)]
     /\ earned' = [earned EXCEPT ![s] = @ \union {r}]
     /\ Step(r, "label", [NoWork EXCEPT !.ending = Ending(r)])
     /\ UNCHANGED <<run, remote, ledger, overlap, unlabelled, unheard>> /\ Faultless

NewSkillActive(task) == [status |-> "active", trigger |-> task, successes |-> 1, failures |-> 0]  \* Mutant: trusted at once
NewSkill(task) == [status |-> "proposed", trigger |-> task, successes |-> 1, failures |-> 0]
Free == {s \in Skills : library[s].status = "free"}
Propose(r) ==
  LET s == CHOOSE q \in Free : TRUE
  IN /\ At(r, "teach") /\ work[r].skill = None /\ Free # {}
     /\ library' = [library EXCEPT ![s] = NewSkill(run[r].task)]
     /\ earned' = [earned EXCEPT ![s] = {r}]
     /\ Step(r, "label", [NoWork EXCEPT !.ending = Ending(r)])
     /\ UNCHANGED <<run, remote, ledger, overlap, unlabelled, unheard>> /\ Faultless

DistilFails(r) ==
  /\ pc[r] \in {"distil", "teach"} /\ Fault
  /\ Step(r, "label", [NoWork EXCEPT !.ending = Ending(r)])
  /\ UNCHANGED <<rows, history>>

(***************************************************************************)
(* record_outcome, and the return of execute                               *)
(***************************************************************************)
OutcomeOf(status) ==
  CASE status \in Success -> "succeeded" [] status = "no_changes" -> "abandoned" [] OTHER -> "failed"

Entry(by, outcome) == [by |-> by, outcome |-> outcome]
Recorded(c, entry) == ledger' = [ledger EXCEPT ![c] = Append(@, entry)]

LabelOnce(r) ==  \* Mutant: a context is labelled once
  /\ At(r, "label")
  /\ IF run[r].context # None /\ ledger[run[r].context] = <<>>
     THEN Recorded(run[r].context, Entry(r, OutcomeOf(Ending(r)))) ELSE UNCHANGED ledger
  /\ Go(r, "return") /\ UNCHANGED <<run, remote, library, history>> /\ Faultless

Label(r) ==
  /\ At(r, "label")
  /\ IF run[r].context # None THEN Recorded(run[r].context, Entry(r, OutcomeOf(Ending(r)))) ELSE UNCHANGED ledger
  /\ Go(r, "return") /\ UNCHANGED <<run, remote, library, history>> /\ Faultless

LabelFails(r) ==
  /\ At(r, "label") /\ run[r].context # None /\ Fault
  /\ unlabelled' = unlabelled \union {r}
  /\ Go(r, "return") /\ UNCHANGED <<rows, earned, overlap, unheard>>

Return(r) ==
  /\ At(r, "return") /\ Step(r, "over", NoWork)
  /\ UNCHANGED <<rows, history>> /\ Faultless

(* get raises inside the try block: the run that was finished fails again. *)
ReturnRaises(r) ==
  /\ At(r, "return") /\ Fault
  /\ FailAgain(r) /\ UNCHANGED <<rows, earned, overlap, unlabelled>>

(* POST /outcomes/outcomes: a person labels a context, or revises a label. *)
Report(c) ==
  /\ Happens /\ reports' = reports + 1 /\ UNCHANGED <<faults, crashes>>
  /\ \E outcome \in Reportable : Recorded(c, Entry(Person, outcome))
  /\ UNCHANGED <<run, remote, library, pc, work, history>>

(* A reviewer; a person may come while a thread holds the row. *)
Retire(s) ==
  /\ library[s].status \in {"proposed", "active"}
  /\ library' = [library EXCEPT ![s].status = "retired"]
  /\ overlap' = (overlap \/ Holding # {})
  /\ UNCHANGED <<run, remote, ledger, pc, work, earned, unlabelled, unheard>> /\ Faultless

(* The process ends with all its threads; nothing takes their runs up.     *)
Crash ==
  /\ Happens /\ crashes' = crashes + 1
  /\ pc' = [r \in Runs |-> IF pc[r] = None THEN None ELSE "over"]
  /\ work' = [r \in Runs |-> NoWork]
  /\ UNCHANGED <<rows, history, faults, reports>>

(* execute reads the run's row before its try block. *)
BeginRaises(r) ==
  /\ At(r, "begin") /\ Fault /\ Dies(r)
  /\ UNCHANGED <<rows, earned, overlap, unlabelled>>

Execute(r) == Begin(r) \/ RunAgent(r) \/ SaveCommit(r) \/ Push(r) \/ Publish(r)
Conclude(r) ==
  \/ Finish(r) \/ ReadUse(r) \/ WriteUse(r) \/ FindClosest(r) \/ Reinforce(r) \/ Propose(r)
  \/ Label(r) \/ Return(r)
Fails(r) ==
  BeginRaises(r) \/ Raises(r) \/ FinishRaises(r) \/ UseFails(r) \/ DistilFails(r) \/ LabelFails(r) \/ ReturnRaises(r)

Next ==
  \/ \E r \in Runs : Ask(r) \/ StartRun(r) \/ Execute(r) \/ Conclude(r) \/ Fails(r)
  \/ \E s \in Skills : Retire(s)
  \/ \E c \in Contexts : Report(c)
  \/ Crash

Spec == Init /\ [][Next]_vars

(* The thread pool runs every background task, and every subprocess has a  *)
(* timeout; that a failure happens is never promised.                      *)
FairSpec == Spec /\ \A r \in Runs : WF_vars(Execute(r) \/ Conclude(r) \/ Fails(r))

-----------------------------------------------------------------------------
Places == {None, "begin", "agent", "save", "push", "publish", "finish", "use", "count", "distil", "teach",
           "label", "return", "over"}
RunRow == [status : Settled \union {None, "offered", "queued", "running"}, task : Tasks \union {None},
           skills : SUBSET Skills, context : Contexts \union {None}, push : BOOLEAN, commit : BOOLEAN, pushed : BOOLEAN]
Works == [ending : Settled \union {None}, todo : SUBSET Skills, skill : Skills \union {None}, row : SkillRow]
TypeOK ==
  /\ run \in [Runs -> RunRow] /\ remote \subseteq Runs
  /\ library \in [Skills -> SkillRow]
  /\ ledger \in [Contexts -> Seq([by : Runs \union {Person}, outcome : Outcomes])]
  /\ pc \in [Runs -> Places] /\ work \in [Runs -> Works]
  /\ faults \in Nat /\ crashes \in Nat /\ reports \in Nat
  /\ earned \in [Skills -> SUBSET (Runs \union Earlier)] /\ overlap \in BOOLEAN /\ unlabelled \union unheard \subseteq Runs

(* "Skills earn trust": whatever overlaps, fails or is counted from stale  *)
(* rows, an active skill has worked in at least two different runs.        *)
TrustEarned ==
  \A s \in Skills : library[s].status = "active" => \E q, r \in earned[s] : q # r

(* A retired skill stays retired unless a thread had read its row before:  *)
(* nothing that starts afterwards brings it back.                          *)
Stale(s) == \E r \in Runs : pc[r] \in {"count", "teach"} /\ work[r].skill = s /\ work[r].row.status # "retired"
RetirementHolds ==
  [][\A s \in Skills : library[s].status = "retired" /\ ~Stale(s) => library'[s].status = "retired"]_vars

(* As long as no two threads hold rows of the library at once, a skill that *)
(* failed more often than it worked is retired, and similar work has one   *)
(* skill that is not.                                                      *)
LibraryStaysSelective ==
  ~overlap =>
    \A s \in Skills :
      /\ library[s].failures > library[s].successes => library[s].status = "retired"
      /\ \A t \in Closest(library[s].trigger) : s \in Closest(library[s].trigger) => s = t

(* What reached the remote is a commit the run's row knows, and the row    *)
(* claims no more than was done.                                           *)
StatusIsHonest ==
  \A r \in Runs :
    /\ r \in remote => run[r].commit /\ run[r].push
    /\ run[r].status \in Success => run[r].commit
    /\ run[r].status = "pushed" \/ run[r].pushed => r \in remote
    /\ run[r].status = "no_changes" => ~run[r].commit

(* When the thread of a run is over that named a context, and no crash, no *)
(* suppressed error and no error of the handler kept it from writing, the  *)
(* run has settled and has labelled that context, last with the outcome of *)
(* the status the run shows: also when the run was finished twice, another *)
(* run labelled the same context or a person did.  Whose label is the last *)
(* of the context is left open.                                            *)
LastBy(r, labels, outcome) ==
  \E i \in DOMAIN labels :
    labels[i] = Entry(r, outcome) /\ \A j \in DOMAIN labels : labels[j].by = r => j <= i

LabelsAgree ==
  \A r \in Runs :
    pc[r] = "over" /\ crashes = 0 /\ r \notin unlabelled \union unheard =>
      /\ run[r].status \in Settled
      /\ run[r].context # None => LastBy(r, ledger[run[r].context], OutcomeOf(run[r].status))

(* Every queued run ends in a status a client can stop polling on, unless  *)
(* the process ends first or an error strikes outside the try block.       *)
EveryRunSettles ==
  \A r \in Runs : run[r].status = "queued" ~> run[r].status \in Settled \/ crashes > 0 \/ r \in unheard

=============================================================================
