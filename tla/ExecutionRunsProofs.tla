------------------------- MODULE ExecutionRunsProofs -------------------------
(***************************************************************************)
(* Proofs about execution runs, for every number of runs and skills: what  *)
(* a row claims, what a skill has earned, what the ledger says of a run,   *)
(* and what the library keeps while its threads do not meet.               *)
(***************************************************************************)
EXTENDS ExecutionRuns, SequenceTheorems, TLAPS

(***************************************************************************)
(* The inductive invariant.                                                *)
(***************************************************************************)
Two(s) == \E q, r \in earned[s] : q # r

\* A skill that is offered was earned twice, one that is proposed once.
SkillsEarned ==
  \A s \in Skills :
    /\ library[s].status = "active" => Two(s)
    /\ library[s].status = "proposed" => library[s].successes = 1 /\ earned[s] # {}

\* A run is given skills that were active, and never become less.
GivenActive ==
  \A r \in Runs : \A s \in run[r].skills : Two(s) /\ library[s].status \in {"active", "retired"}

\* What a thread knows: it ends in what it settled, and the row it holds is
\* of a skill it was given, or of one it may reinforce.
Knows(r) ==
  /\ pc[r] = None => work[r].todo = {}
  /\ run[r].status \in {None, "offered"} => pc[r] = None
  /\ work[r].todo \subseteq run[r].skills
  /\ pc[r] \in {"finish", "use", "count", "distil", "teach", "label", "return"} => Ending(r) \in Settled
  /\ At(r, "count") => work[r].skill \in run[r].skills /\ work[r].row.status \in {"active", "retired"}
  /\ At(r, "teach") /\ work[r].skill # None =>
       /\ library[work[r].skill].status # "free" /\ earned[work[r].skill] # {}
       /\ \/ work[r].row.status = "proposed" /\ work[r].row.successes = 1
          \/ work[r].row.status = "active" /\ Two(work[r].skill)

\* A run is past its lesson, also when it is finished again.
After(r) ==
  pc[r] \in {"label", "return", "over"} \/ (Ending(r) = "failed" /\ pc[r] \in {"finish", "use", "count"})

\* A run teaches a skill that was not earned before only once.
TaughtOnce ==
  \A s \in Skills : \A r \in Runs : r \in earned[s] => Two(s) \/ After(r)

IInv == TypeOK /\ SkillsEarned /\ GivenActive /\ (\A r \in Runs : Knows(r)) /\ TaughtOnce

\* For the status: what each place of execute has established.
Honest(r) ==
  /\ run[r].status \in {None, "offered"} => pc[r] = None
  /\ pc[r] \in {None, "begin", "agent", "save"} => ~run[r].commit /\ r \notin remote
  /\ pc[r] \in {"begin", "agent", "save", "push", "publish"} => run[r].status \in {"queued", "running"}
  /\ pc[r] \in {"push", "publish"} => run[r].commit /\ run[r].push
  /\ pc[r] = "publish" => r \in remote
  /\ pc[r] = "finish" => Ending(r) \in Settled
  /\ Ending(r) \in Success => run[r].commit
  /\ Ending(r) = "pushed" => r \in remote
  /\ Ending(r) = "no_changes" => ~run[r].commit
  /\ Ending(r) # None => pc[r] \in {"finish", "use", "count", "distil", "teach", "label", "return"}

\* What one run's row, branch and thread say of each other.
Tells(r) ==
  /\ r \in remote => run[r].commit /\ run[r].push
  /\ run[r].status \in Success => run[r].commit
  /\ run[r].status = "pushed" \/ run[r].pushed => r \in remote
  /\ run[r].status = "no_changes" => ~run[r].commit

Sound(r) == Tells(r) /\ Honest(r)
HonestInv == \A r \in Runs : Sound(r)

-----------------------------------------------------------------------------
(***************************************************************************)
(* What the steps of one thread do to it.                                  *)
(***************************************************************************)
Moves(r, place) ==
  /\ pc' \in [Runs -> Places] /\ work' \in [Runs -> Works] /\ pc'[r] = place
  /\ \A q \in Runs \ {r} : pc'[q] = pc[q] /\ work'[q] = work[q]

LEMMA NoWorkTyped == NoWork \in Works /\ FreeRow \in SkillRow
  BY DEF NoWork, Works, FreeRow, SkillRow

LEMMA StepMoves ==
    ASSUME TypeOK, NEW r \in Runs, NEW place \in Places, NEW w \in Works, Step(r, place, w)
    PROVE  Moves(r, place) /\ work'[r] = w
  BY DEF TypeOK, Step, Moves

LEMMA GoMoves ==
    ASSUME TypeOK, NEW r \in Runs, NEW place \in Places, Go(r, place)
    PROVE  Moves(r, place) /\ work'[r] = work[r]
  BY StepMoves DEF TypeOK, Go

\* What is left of a thread's work when it has only an ending.
OnlyEnding(r, ending) ==
  /\ work'[r].ending = ending /\ work'[r].todo = {} /\ work'[r].skill = None

LEMMA EndMoves ==
    ASSUME TypeOK, NEW r \in Runs, NEW place \in Places, NEW ending \in Settled,
           Step(r, place, [NoWork EXCEPT !.ending = ending])
    PROVE  Moves(r, place) /\ OnlyEnding(r, ending)
  <1>1. [NoWork EXCEPT !.ending = ending] \in Works
    BY NoWorkTyped DEF Works
  <1>2. Moves(r, place) /\ work'[r] = [NoWork EXCEPT !.ending = ending]
    BY <1>1, StepMoves
  <1> QED BY <1>2, NoWorkTyped DEF OnlyEnding, Works, NoWork

LEMMA NextUseMoves ==
    ASSUME TypeOK, NEW r \in Runs, Ending(r) \in Settled, NEW todo \in SUBSET Skills, NextUse(r, todo)
    PROVE  /\ work'[r].ending = Ending(r) /\ work'[r].todo = todo
           /\ \/ Moves(r, "use") \/ Moves(r, "label")
              \/ Moves(r, "distil") /\ Ending(r) \in Success
  <1>1. CASE todo # {}
    <2> DEFINE w == [NoWork EXCEPT !.ending = Ending(r), !.todo = todo]
    <2>1. w \in Works /\ w.ending = Ending(r) /\ w.todo = todo
      BY NoWorkTyped DEF Works
    <2>2. Step(r, "use", w)
      BY <1>1 DEF NextUse
    <2> HIDE DEF w
    <2> QED BY <2>1, <2>2, StepMoves DEF Places
  <1>2. CASE todo = {} /\ Ending(r) \in Success
    <2>1. Step(r, "distil", [NoWork EXCEPT !.ending = Ending(r)])
      BY <1>2 DEF NextUse
    <2> QED BY <1>2, <2>1, EndMoves DEF Places, OnlyEnding
  <1>3. CASE todo = {} /\ Ending(r) \notin Success
    <2>1. Step(r, "label", [NoWork EXCEPT !.ending = Ending(r)])
      BY <1>3 DEF NextUse
    <2> QED BY <1>3, <2>1, EndMoves DEF Places, OnlyEnding
  <1> QED BY <1>1, <1>2, <1>3

LEMMA OverMoves ==
    ASSUME TypeOK, NEW r \in Runs, Step(r, "over", NoWork)
    PROVE  Moves(r, "over") /\ OnlyEnding(r, None)
  BY NoWorkTyped, StepMoves DEF Places, OnlyEnding, NoWork

LEMMA FailAgainMoves ==
    ASSUME TypeOK, NEW r \in Runs, FailAgain(r)
    PROVE  /\ unheard' \subseteq Runs
           /\ \/ Moves(r, "over") /\ OnlyEnding(r, None)
              \/ Moves(r, "finish") /\ OnlyEnding(r, "failed")
  BY OverMoves, EndMoves DEF FailAgain, Dies, End, Places, Settled, TypeOK

LEMMA ReadUseMoves ==
    ASSUME TypeOK, NEW r \in Runs, ReadUse(r)
    PROVE  /\ Moves(r, "count") /\ work'[r].ending = Ending(r) /\ work'[r].todo \subseteq work[r].todo
           /\ work'[r].skill \in work[r].todo /\ work'[r].row = library[work'[r].skill]
  <1>1. PICK s \in work[r].todo :
          Step(r, "count", [work[r] EXCEPT !.todo = @ \ {s}, !.skill = s, !.row = library[s]])
    BY DEF ReadUse
  <1> DEFINE w == [work[r] EXCEPT !.todo = @ \ {s}, !.skill = s, !.row = library[s]]
  <1>2. work[r] \in Works /\ s \in Skills /\ library[s] \in SkillRow
    BY DEF TypeOK, Works
  <1>3. w \in Works
    BY <1>2 DEF Works
  <1>4. w.ending = work[r].ending /\ w.todo = work[r].todo \ {s}
    BY <1>2 DEF Works
  <1>5. w.skill = s /\ w.row = library[s]
    BY <1>2 DEF Works
  <1> HIDE DEF w
  <1>6. Moves(r, "count") /\ work'[r] = w
    BY <1>1, <1>3, StepMoves DEF Places, w
  <1> QED BY <1>4, <1>5, <1>6 DEF Ending

LEMMA FindClosestMoves ==
    ASSUME TypeOK, NEW r \in Runs, FindClosest(r)
    PROVE  /\ Moves(r, "teach") /\ work'[r].ending = Ending(r) /\ work'[r].todo = work[r].todo
           /\ \/ work'[r].skill = None
              \/ /\ work'[r].skill \in Skills /\ work'[r].row = library[work'[r].skill]
                 /\ library[work'[r].skill].status \in {"proposed", "active"}
  <1>1. PICK s \in Closest(run[r].task) \union {None} :
          Step(r, "teach", [work[r] EXCEPT !.skill = s, !.row = IF s = None THEN FreeRow ELSE library[s]])
    BY DEF FindClosest
  <1> DEFINE row == IF s = None THEN FreeRow ELSE library[s]
             w == [work[r] EXCEPT !.skill = s, !.row = row]
  <1>2. s # None => s \in Skills /\ library[s].status \in {"proposed", "active"} /\ library[s] \in SkillRow
    BY DEF TypeOK, Closest, SkillRow
  <1>3. work[r] \in Works /\ s \in Skills \union {None} /\ row \in SkillRow
    BY <1>2, NoWorkTyped DEF TypeOK
  <1>4. s # None => row = library[s]
    OBVIOUS
  <1> HIDE DEF row
  <1>5. w \in Works
    BY <1>3 DEF Works
  <1>6. w.ending = work[r].ending /\ w.todo = work[r].todo
    BY <1>3 DEF Works
  <1>7. w.skill = s /\ w.row = row
    BY <1>3 DEF Works
  <1> HIDE DEF w
  <1>8. Moves(r, "teach") /\ work'[r] = w
    BY <1>1, <1>5, StepMoves DEF Places, w, row
  <1> QED BY <1>2, <1>4, <1>6, <1>7, <1>8 DEF Ending

-----------------------------------------------------------------------------
(***************************************************************************)
(* What the library's operations write.                                    *)
(***************************************************************************)
LEMMA JudgedIs ==
    ASSUME NEW row \in SkillRow
    PROVE  /\ Judged(row) \in SkillRow
           /\ row.status \in {"active", "retired"} => Judged(row).status \in {"active", "retired"}
           /\ row.status = "retired" => Judged(row).status = "retired"
  BY DEF Judged, SkillRow

LEMMA CountedIs ==
    ASSUME NEW row \in SkillRow, NEW succeeded \in BOOLEAN
    PROVE  /\ Counted(row, succeeded) \in SkillRow
           /\ row.status \in {"active", "retired"} => Counted(row, succeeded).status \in {"active", "retired"}
           /\ row.status = "retired" => Counted(row, succeeded).status = "retired"
  <1> DEFINE next == [row EXCEPT !.successes = IF succeeded THEN @ + 1 ELSE @,
                                 !.failures = IF succeeded THEN @ ELSE @ + 1]
  <1>1. /\ (IF succeeded THEN row.successes + 1 ELSE row.successes) \in Nat
        /\ (IF succeeded THEN row.failures ELSE row.failures + 1) \in Nat
    BY DEF SkillRow
  <1>2. next \in SkillRow
    BY <1>1 DEF SkillRow
  <1>3. next.status = row.status
    BY DEF SkillRow
  <1> HIDE DEF next
  <1>4. Counted(row, succeeded) = Judged(next)
    BY DEF Counted, next
  <1> QED BY <1>2, <1>3, <1>4, JudgedIs

LEMMA ReinforcedIs ==
    ASSUME NEW row \in SkillRow, NEW now \in SkillRow,
           (row.status = "proposed" /\ row.successes = 1) \/ row.status = "active"
    PROVE  Reinforced(row, now) \in SkillRow /\ Reinforced(row, now).status = "active"
  <1>1. row.successes + 1 \in Nat
        /\ (IF row.successes + 1 >= Trusted THEN "active" ELSE row.status) = "active"
    BY ExecutionAssumption DEF SkillRow
  <1> DEFINE n == row.successes + 1
             st == IF row.successes + 1 >= Trusted THEN "active" ELSE row.status
             new == [now EXCEPT !.successes = n, !.status = st]
  <1>2. n \in Nat /\ st = "active"
    BY <1>1
  <1> HIDE DEF n, st
  <1>3. new \in SkillRow /\ new.status = "active"
    BY <1>2 DEF SkillRow
  <1> QED BY <1>3 DEF Reinforced, n, st

\* One row of the library is written.
Writes(s, row) == library' = [library EXCEPT ![s] = row]

LEMMA WriteUseWrites ==
    ASSUME IInv, NEW r \in Runs, WriteUse(r)
    PROVE  \E s \in run[r].skills : \E row \in SkillRow :
             /\ s \in Skills /\ Writes(s, row) /\ row.status \in {"active", "retired"}
             /\ work[r].skill = s /\ (work[r].row.status = "retired" => row.status = "retired")
             /\ earned' = earned \/ earned' = [earned EXCEPT ![s] = @ \union {r}]
  <1> DEFINE s == work[r].skill
             succeeded == Ending(r) \in Success
             row == Counted(work[r].row, succeeded)
  <1>1. /\ s \in run[r].skills /\ s \in Skills /\ work[r].row \in SkillRow
        /\ work[r].row.status \in {"active", "retired"}
    BY DEF IInv, Knows, WriteUse, At, TypeOK, RunRow, Works
  <1>2. row \in SkillRow /\ row.status \in {"active", "retired"}
        /\ (work[r].row.status = "retired" => row.status = "retired")
    <2>1. succeeded \in BOOLEAN
      OBVIOUS
    <2> HIDE DEF succeeded
    <2> QED BY <1>1, <2>1, CountedIs
  <1>3. Writes(s, row)
    BY DEF WriteUse, Writes
  <1>4. earned' = earned \/ earned' = [earned EXCEPT ![s] = @ \union {r}]
    BY <1>1 DEF WriteUse, IInv, TypeOK
  <1> QED BY <1>1, <1>2, <1>3, <1>4

LEMMA ReinforceWrites ==
    ASSUME IInv, NEW r \in Runs, Reinforce(r)
    PROVE  \E s \in Skills : \E row \in SkillRow :
             /\ Writes(s, row) /\ row.status = "active" /\ library[s].status # "free"
             /\ earned' = [earned EXCEPT ![s] = @ \union {r}]
             /\ earned[s] # {} /\ work[r].skill = s /\ work[r].row.status # "retired"
             /\ work[r].row.status = "proposed" \/ Two(s)
  <1> DEFINE s == work[r].skill
             row == Reinforced(work[r].row, library[s])
  <1>1. s \in Skills /\ work[r].row \in SkillRow /\ library[s] \in SkillRow
    BY DEF IInv, TypeOK, Works, Reinforce
  <1>2. /\ library[s].status # "free" /\ earned[s] # {}
        /\ \/ work[r].row.status = "proposed" /\ work[r].row.successes = 1
           \/ work[r].row.status = "active" /\ Two(s)
    BY DEF IInv, Knows, Reinforce, At
  <1>3. row \in SkillRow /\ row.status = "active"
    BY <1>1, <1>2, ReinforcedIs
  <1>4. Writes(s, row) /\ earned' = [earned EXCEPT ![s] = @ \union {r}]
    BY DEF Reinforce, Writes
  <1> QED BY <1>1, <1>2, <1>3, <1>4

LEMMA ProposeWrites ==
    ASSUME TypeOK, NEW r \in Runs, Propose(r)
    PROVE  \E s \in Skills : \E row \in SkillRow :
             /\ Writes(s, row) /\ row.status = "proposed" /\ row.successes = 1
             /\ library[s].status = "free" /\ earned' = [earned EXCEPT ![s] = {r}]
  <1> DEFINE s == CHOOSE q \in Free : TRUE
             row == NewSkill(run[r].task)
  <1>1. s \in Free
    BY DEF Propose
  <1>2. s \in Skills /\ library[s].status = "free"
    BY <1>1 DEF Free
  <1>3. row \in SkillRow /\ row.status = "proposed" /\ row.successes = 1
    BY DEF NewSkill, SkillRow, TypeOK, RunRow
  <1>4. Writes(s, row) /\ earned' = [earned EXCEPT ![s] = {r}]
    BY DEF Propose, Writes
  <1> HIDE DEF s, row
  <1> QED BY <1>2, <1>3, <1>4

LEMMA RetireWrites ==
    ASSUME TypeOK, NEW s \in Skills, Retire(s)
    PROVE  \E row \in SkillRow :
             /\ Writes(s, row) /\ row.status = "retired" /\ library[s].status \in {"proposed", "active"}
  <1>1. library[s] \in SkillRow
    BY DEF TypeOK
  <1> DEFINE row == [library[s] EXCEPT !.status = "retired"]
  <1>2. row \in SkillRow /\ row.status = "retired"
    BY <1>1 DEF SkillRow
  <1>3. Writes(s, row)
    BY <1>1 DEF Retire, Writes, TypeOK
  <1> QED BY <1>2, <1>3 DEF Retire

-----------------------------------------------------------------------------
(***************************************************************************)
(* Type correctness.                                                       *)
(***************************************************************************)
Labelling == [by : Runs \union {Person}, outcome : Outcomes]

LEMMA RunTypeInit == Init => TypeOK
  <1> SUFFICES ASSUME Init PROVE TypeOK
    OBVIOUS
  <1>1. run \in [Runs -> RunRow] /\ pc \in [Runs -> Places]
    BY DEF Init, RunRow, Places
  <1>2. ledger \in [Contexts -> Seq(Labelling)]
    BY EmptySeq DEF Init
  <1>3. work \in [Runs -> Works]
    BY NoWorkTyped DEF Init
  <1>4. earned \in [Skills -> SUBSET (Runs \union Earlier)] /\ library \in [Skills -> SkillRow]
    BY ExecutionAssumption DEF Init
  <1> QED BY <1>1, <1>2, <1>3, <1>4 DEF Init, TypeOK, Labelling

LEMMA FaultCounts ==
    ASSUME TypeOK
    PROVE  Fault => faults' \in Nat /\ crashes' \in Nat /\ reports' \in Nat
  BY DEF TypeOK, Fault

LEMMA SetRunTyped ==
    ASSUME TypeOK, NEW r \in Runs, NEW row \in RunRow, SetRun(r, row)
    PROVE  /\ run' \in [Runs -> RunRow] /\ run'[r] = row
           /\ \A q \in Runs \ {r} : run'[q] = run[q]
  BY DEF TypeOK, SetRun

\* The rows that a thread writes for its run.
LEMMA RunRowTyped ==
    ASSUME NEW row \in RunRow
    PROVE  /\ \A t \in Tasks, S \in SUBSET Skills :
                [row EXCEPT !.status = "offered", !.task = t, !.skills = S] \in RunRow
           /\ \A p \in BOOLEAN, c \in Contexts \union {None} :
                [row EXCEPT !.status = "queued", !.push = p, !.context = c] \in RunRow
           /\ \A st \in Settled \union {"running"} : [row EXCEPT !.status = st] \in RunRow
           /\ [row EXCEPT !.commit = TRUE] \in RunRow
           /\ [row EXCEPT !.pushed = TRUE] \in RunRow
  <1> USE DEF RunRow, Settled, Success
  <1>1. \A t \in Tasks, S \in SUBSET Skills :
          [row EXCEPT !.status = "offered", !.task = t, !.skills = S] \in RunRow
    OBVIOUS
  <1>2. \A p \in BOOLEAN, c \in Contexts \union {None} :
          [row EXCEPT !.status = "queued", !.push = p, !.context = c] \in RunRow
    OBVIOUS
  <1>3. \A st \in Settled \union {"running"} : [row EXCEPT !.status = st] \in RunRow
    OBVIOUS
  <1>4. [row EXCEPT !.commit = TRUE] \in RunRow
    OBVIOUS
  <1>5. [row EXCEPT !.pushed = TRUE] \in RunRow
    OBVIOUS
  <1> QED BY <1>1, <1>2, <1>3, <1>4, <1>5

\* The fields of the run's row after each write, and the rows of others.
SameRow(q) == run'[q] = run[q]

LEMMA AskSets ==
    ASSUME TypeOK, NEW r \in Runs, Ask(r)
    PROVE  /\ run' \in [Runs -> RunRow] /\ \A q \in Runs \ {r} : SameRow(q)
           /\ run'[r].status = "offered" /\ run'[r].commit = run[r].commit /\ run'[r].pushed = run[r].pushed
           /\ run'[r].push = run[r].push
           /\ \A s \in run'[r].skills : s \in Skills /\ library[s].status = "active"
  <1>1. PICK t \in Tasks : SetRun(r, [run[r] EXCEPT !.status = "offered", !.task = t, !.skills = Matches(t)])
    BY DEF Ask
  <1> DEFINE S == Matches(t)
             row == [run[r] EXCEPT !.status = "offered", !.task = t, !.skills = S]
  <1>2. S \in SUBSET Skills /\ \A s \in S : library[s].status = "active"
    BY DEF Matches
  <1>3. run[r] \in RunRow
    BY DEF TypeOK
  <1> HIDE DEF S
  <1>4. row \in RunRow
    BY <1>2, <1>3, RunRowTyped
  <1>5. row.status = "offered" /\ row.skills = S
    BY <1>2, <1>3 DEF RunRow
  <1>6. row.commit = run[r].commit /\ row.pushed = run[r].pushed /\ row.push = run[r].push
    BY <1>2, <1>3 DEF RunRow
  <1> HIDE DEF row
  <1>7. SetRun(r, row)
    BY <1>1 DEF row, S
  <1> QED BY <1>2, <1>4, <1>5, <1>6, <1>7, SetRunTyped DEF SameRow

\* The other writes keep the skills.
Sets(r, status) ==
  /\ run' \in [Runs -> RunRow] /\ \A q \in Runs \ {r} : SameRow(q)
  /\ run'[r].skills = run[r].skills /\ run'[r].status = status

LEMMA StartSets ==
    ASSUME TypeOK, NEW r \in Runs, StartRun(r)
    PROVE  Sets(r, "queued") /\ run'[r].commit = run[r].commit /\ run'[r].pushed = run[r].pushed
  <1>1. PICK p \in BOOLEAN, c \in Contexts \union {None} :
          SetRun(r, [run[r] EXCEPT !.status = "queued", !.push = p, !.context = c])
    BY ExecutionAssumption DEF StartRun
  <1> DEFINE row == [run[r] EXCEPT !.status = "queued", !.push = p, !.context = c]
  <1>2. run[r] \in RunRow /\ row \in RunRow
    BY RunRowTyped DEF TypeOK
  <1>3. row.status = "queued" /\ row.skills = run[r].skills
    BY <1>2 DEF RunRow
  <1>4. row.commit = run[r].commit /\ row.pushed = run[r].pushed
    BY <1>2 DEF RunRow
  <1> HIDE DEF row
  <1> QED BY <1>1, <1>2, <1>3, <1>4, SetRunTyped DEF Sets, SameRow, row

LEMMA StatusSets ==
    ASSUME TypeOK, NEW r \in Runs, NEW status \in Settled \union {"running"},
           SetRun(r, [run[r] EXCEPT !.status = status])
    PROVE  /\ Sets(r, status) /\ run'[r].commit = run[r].commit /\ run'[r].pushed = run[r].pushed
           /\ run'[r].push = run[r].push
  <1>1. run[r] \in RunRow /\ [run[r] EXCEPT !.status = status] \in RunRow
    BY RunRowTyped DEF TypeOK
  <1> QED BY <1>1, SetRunTyped DEF Sets, SameRow, RunRow

LEMMA CommitSets ==
    ASSUME TypeOK, NEW r \in Runs, SaveCommit(r)
    PROVE  /\ Sets(r, run[r].status) /\ run'[r].commit = TRUE /\ run'[r].pushed = run[r].pushed
           /\ run'[r].push = run[r].push
  <1>1. run[r] \in RunRow /\ [run[r] EXCEPT !.commit = TRUE] \in RunRow
    BY RunRowTyped DEF TypeOK
  <1>2. run' \in [Runs -> RunRow] /\ run'[r] = [run[r] EXCEPT !.commit = TRUE] /\ \A q \in Runs \ {r} : SameRow(q)
    BY <1>1, SetRunTyped DEF SaveCommit, SameRow
  <1> QED BY <1>1, <1>2 DEF Sets, RunRow

LEMMA PublishSets ==
    ASSUME TypeOK, NEW r \in Runs, Publish(r)
    PROVE  /\ Sets(r, run[r].status) /\ run'[r].commit = run[r].commit /\ run'[r].push = run[r].push
  <1>1. run[r] \in RunRow /\ [run[r] EXCEPT !.pushed = TRUE] \in RunRow
    BY RunRowTyped DEF TypeOK
  <1>2. run' \in [Runs -> RunRow] /\ run'[r] = [run[r] EXCEPT !.pushed = TRUE] /\ \A q \in Runs \ {r} : SameRow(q)
    BY <1>1, SetRunTyped DEF Publish, SameRow
  <1> QED BY <1>1, <1>2 DEF Sets, RunRow

-----------------------------------------------------------------------------
(***************************************************************************)
(* What a step of a thread leaves that thread with.                        *)
(***************************************************************************)
Concluding == {"finish", "use", "count", "distil", "teach", "label", "return"}
Later(r) ==
  pc'[r] \in {"label", "return", "over"} \/ (work'[r].ending = "failed" /\ pc'[r] \in {"finish", "use", "count"})

Own(r) ==
  /\ \E place \in Places \ {None} : Moves(r, place)
  /\ work'[r].todo \subseteq run[r].skills
  /\ pc'[r] \in Concluding => work'[r].ending \in Settled
  /\ pc'[r] = "count" => work'[r].skill \in run[r].skills /\ work'[r].row.status \in {"active", "retired"}
  /\ pc'[r] = "teach" /\ work'[r].skill # None =>
       /\ library' = library /\ earned' = earned /\ work'[r].skill \in Skills
       /\ work'[r].row = library[work'[r].skill]
       /\ work'[r].row.status \in {"proposed", "active"}
  /\ After(r) => Later(r)

LEMMA GoOwn ==
    ASSUME IInv, NEW r \in Runs, NEW place \in {"begin", "agent", "save", "push", "publish"}, Go(r, place), ~After(r)
    PROVE  Own(r)
  <1>1. place \in Places \ {None}
    BY DEF Places, None
  <1>2. Moves(r, place) /\ work'[r] = work[r]
    BY <1>1, GoMoves DEF IInv
  <1>3. pc'[r] = place /\ work'[r].todo \subseteq run[r].skills
    BY <1>2 DEF Moves, IInv, Knows
  <1> QED BY <1>1, <1>2, <1>3 DEF Own, Concluding

LEMMA EndOwn ==
    ASSUME IInv, NEW r \in Runs, NEW ending \in Settled, End(r, ending), After(r) => ending = "failed"
    PROVE  Own(r)
  <1>1. "finish" \in Places \ {None}
    BY DEF Places, None
  <1>2. Moves(r, "finish") /\ OnlyEnding(r, ending)
    BY <1>1, EndMoves DEF IInv, End
  <1> QED BY <1>1, <1>2 DEF Own, Moves, OnlyEnding, Later

LEMMA NextUseOwn ==
    ASSUME IInv, NEW r \in Runs, At(r, "finish") \/ At(r, "use") \/ At(r, "count"), 
           NEW todo \in SUBSET run[r].skills, NextUse(r, todo)
    PROVE  Own(r)
  <1>1. Ending(r) \in Settled /\ todo \in SUBSET Skills
    BY DEF IInv, Knows, At, TypeOK, RunRow
  <1>2. /\ work'[r].ending = Ending(r) /\ work'[r].todo = todo
        /\ \/ Moves(r, "use") \/ Moves(r, "label")
           \/ Moves(r, "distil") /\ Ending(r) \in Success
    BY <1>1, NextUseMoves DEF IInv
  <1>3. {"use", "label", "distil"} \subseteq Places \ {None}
    BY DEF Places, None
  <1>4. After(r) => Ending(r) = "failed"
    BY DEF After, At
  <1>5. After(r) => Later(r)
    BY <1>2, <1>4 DEF Later, Moves, Success
  <1> QED BY <1>1, <1>2, <1>3, <1>5 DEF Own, Moves

LEMMA LabelOwn ==
    ASSUME IInv, NEW r \in Runs, Ending(r) \in Settled, Step(r, "label", [NoWork EXCEPT !.ending = Ending(r)])
    PROVE  Own(r)
  <1>1. "label" \in Places \ {None}
    BY DEF Places, None
  <1>2. Moves(r, "label") /\ OnlyEnding(r, Ending(r))
    BY <1>1, EndMoves DEF IInv
  <1> QED BY <1>1, <1>2 DEF Own, Moves, OnlyEnding, Later

LEMMA OverOwn ==
    ASSUME IInv, NEW r \in Runs, Step(r, "over", NoWork)
    PROVE  Own(r)
  <1>1. Moves(r, "over") /\ OnlyEnding(r, None) /\ "over" \in Places \ {None}
    BY OverMoves DEF IInv, Places, None
  <1> QED BY <1>1 DEF Own, Moves, OnlyEnding, Later, Concluding

LEMMA FailAgainOwn ==
    ASSUME IInv, NEW r \in Runs, FailAgain(r)
    PROVE  Own(r)
  <1>1. CASE Ending(r) = "failed"
    BY <1>1, OverOwn DEF FailAgain, Dies
  <1>2. CASE Ending(r) # "failed"
    BY <1>2, EndOwn DEF FailAgain, Settled
  <1> QED BY <1>1, <1>2

LEMMA ReturnGoOwn ==
    ASSUME IInv, NEW r \in Runs, At(r, "label"), Go(r, "return")
    PROVE  Own(r)
  <1>1. Moves(r, "return") /\ work'[r] = work[r] /\ "return" \in Places \ {None}
    BY GoMoves DEF IInv, Places, None
  <1>2. Ending(r) \in Settled /\ work[r].todo \subseteq run[r].skills
    BY DEF IInv, Knows, At
  <1> QED BY <1>1, <1>2 DEF Own, Moves, Later, Ending

LEMMA ReadUseOwn ==
    ASSUME IInv, NEW r \in Runs, ReadUse(r)
    PROVE  Own(r)
  <1>1. /\ Moves(r, "count") /\ work'[r].ending = Ending(r) /\ work'[r].todo \subseteq work[r].todo
        /\ work'[r].skill \in work[r].todo /\ work'[r].row = library[work'[r].skill]
    BY ReadUseMoves DEF IInv
  <1>2. Ending(r) \in Settled /\ work[r].todo \subseteq run[r].skills
    BY DEF IInv, Knows, At, ReadUse
  <1>3. \A s \in run[r].skills : library[s].status \in {"active", "retired"}
    BY DEF IInv, GivenActive
  <1>4. After(r) => Later(r)
    BY <1>1 DEF After, Later, ReadUse, At, Moves, Ending
  <1>5. "count" \in Places \ {None}
    BY DEF Places, None
  <1> QED BY <1>1, <1>2, <1>3, <1>4, <1>5 DEF Own, Moves

LEMMA FindClosestOwn ==
    ASSUME IInv, NEW r \in Runs, FindClosest(r)
    PROVE  Own(r)
  <1>1. /\ Moves(r, "teach") /\ work'[r].ending = Ending(r) /\ work'[r].todo = work[r].todo
        /\ \/ work'[r].skill = None
           \/ /\ work'[r].skill \in Skills /\ work'[r].row = library[work'[r].skill]
              /\ library[work'[r].skill].status \in {"proposed", "active"}
    BY FindClosestMoves DEF IInv
  <1>2. Ending(r) \in Settled /\ work[r].todo \subseteq run[r].skills
    BY DEF IInv, Knows, At, FindClosest
  <1>3. ~After(r)
    BY DEF After, FindClosest, At
  <1>4. "teach" \in Places \ {None} /\ library' = library /\ earned' = earned
    BY DEF Places, None, FindClosest, rows
  <1> QED BY <1>1, <1>2, <1>3, <1>4 DEF Own, Moves

ThreadStep(r) == StartRun(r) \/ Execute(r) \/ Conclude(r) \/ Fails(r)
LEMMA OwnStep ==
    ASSUME IInv, NEW r \in Runs, ThreadStep(r)
    PROVE  Own(r)
  <1> USE DEF At
  <1>1. CASE StartRun(r)
    <2>1. pc[r] = None
      BY <1>1 DEF StartRun, IInv, Knows
    <2> QED BY <1>1, <2>1, GoOwn DEF StartRun, After, None
  <1>2. CASE Begin(r) \/ Push(r)
    BY <1>2, GoOwn DEF Begin, Push, After
  <1>3. CASE RunAgent(r)
    BY <1>3, GoOwn, EndOwn DEF RunAgent, After, Settled
  <1>4. CASE SaveCommit(r)
    BY <1>4, GoOwn, EndOwn DEF SaveCommit, After, Settled, Success
  <1>5. CASE Publish(r)
    BY <1>5, EndOwn DEF Publish, After, Settled, Success
  <1>6. CASE Raises(r)
    BY <1>6, EndOwn DEF Raises, Settled
  <1>7. CASE BeginRaises(r)
    BY <1>7, OverOwn DEF BeginRaises, Dies
  <1>8. CASE Finish(r)
    <2> DEFINE todo == IF Ending(r) = "no_changes" THEN {} ELSE run[r].skills
    <2>1. todo \in SUBSET run[r].skills
      OBVIOUS
    <2>2. NextUse(r, todo)
      BY <1>8 DEF Finish
    <2> HIDE DEF todo
    <2> QED BY <1>8, <2>1, <2>2, NextUseOwn DEF Finish
  <1>9. CASE FinishRaises(r)
    BY <1>9, FailAgainOwn DEF FinishRaises
  <1>10. CASE ReadUse(r)
    BY <1>10, ReadUseOwn
  <1>11. CASE WriteUse(r)
    <2>1. work[r].todo \in SUBSET run[r].skills
      BY DEF IInv, Knows
    <2> QED BY <1>11, <2>1, NextUseOwn DEF WriteUse
  <1>12. CASE UseFails(r)
    BY <1>12, NextUseOwn DEF UseFails
  <1>13. CASE FindClosest(r)
    BY <1>13, FindClosestOwn
  <1>14. CASE Reinforce(r) \/ Propose(r) \/ DistilFails(r)
    <2>1. Ending(r) \in Settled
      BY <1>14 DEF IInv, Knows, Reinforce, Propose, DistilFails
    <2> QED BY <1>14, <2>1, LabelOwn DEF Reinforce, Propose, DistilFails
  <1>15. CASE Label(r) \/ LabelFails(r)
    <2>1. At(r, "label")
      BY <1>15 DEF Label, LabelFails
    <2>2. Go(r, "return")
      BY <1>15 DEF Label, LabelFails
    <2> QED BY <2>1, <2>2, ReturnGoOwn
  <1>16. CASE Return(r)
    BY <1>16, OverOwn DEF Return
  <1>17. CASE ReturnRaises(r)
    BY <1>17, FailAgainOwn DEF ReturnRaises
  <1> QED BY <1>1, <1>2, <1>3, <1>4, <1>5, <1>6, <1>7, <1>8, <1>9, <1>10, <1>11, <1>12, <1>13, <1>14,
             <1>15, <1>16, <1>17 DEF ThreadStep, Execute, Conclude, Fails

-----------------------------------------------------------------------------
(***************************************************************************)
(* What a step does to the library.                                        *)
(***************************************************************************)
LibraryKept == library' = library /\ earned' = earned
Teaching(r) == WriteUse(r) \/ Reinforce(r) \/ Propose(r)

LEMMA LibraryStep ==
    ASSUME [Next]_vars
    PROVE  \/ LibraryKept
           \/ (\E r \in Runs : Teaching(r)) /\ run' = run
           \/ (\E s \in Skills : Retire(s)) /\ run' = run /\ earned' = earned /\ UNCHANGED <<pc, work>>
  <1>1. CASE UNCHANGED vars
    BY <1>1 DEF vars, rows, history, LibraryKept
  <1>2. ASSUME NEW r \in Runs, Ask(r) \/ StartRun(r) \/ Execute(r)
        PROVE  LibraryKept
    BY <1>2 DEF Ask, StartRun, Execute, Begin, RunAgent, SaveCommit, Push, Publish, rows, history, LibraryKept
  <1>3. ASSUME NEW r \in Runs, Fails(r)
        PROVE  LibraryKept
    BY <1>3 DEF Fails, BeginRaises, Raises, FinishRaises, UseFails, DistilFails, LabelFails, ReturnRaises, rows, history,
                LibraryKept
  <1>4. ASSUME NEW r \in Runs, Conclude(r)
        PROVE  LibraryKept \/ (Teaching(r) /\ run' = run)
    BY <1>4 DEF Conclude, Finish, ReadUse, WriteUse, FindClosest, Reinforce, Propose, Label, Return, rows, history,
                LibraryKept, Teaching
  <1>5. ASSUME NEW s \in Skills, Retire(s)
        PROVE  run' = run /\ earned' = earned /\ UNCHANGED <<pc, work>>
    BY <1>5 DEF Retire
  <1>6. CASE Crash \/ \E c \in Contexts : Report(c)
    BY <1>6 DEF Crash, Report, rows, history, LibraryKept
  <1> QED BY <1>1, <1>2, <1>3, <1>4, <1>5, <1>6 DEF Next

LEMMA WritesTyped ==
    ASSUME TypeOK, NEW s \in Skills, NEW row \in SkillRow, Writes(s, row)
    PROVE  library' \in [Skills -> SkillRow]
  BY DEF TypeOK, Writes

LEMMA EarnsTyped ==
    ASSUME TypeOK, NEW r \in Runs, NEW s \in Skills,
           \/ earned' = earned \/ earned' = [earned EXCEPT ![s] = @ \union {r}]
           \/ earned' = [earned EXCEPT ![s] = {r}]
    PROVE  earned' \in [Skills -> SUBSET (Runs \union Earlier)]
  <1> DEFINE T == SUBSET (Runs \union Earlier)
  <1>1. earned \in [Skills -> T] /\ earned[s] \union {r} \in T /\ {r} \in T
    BY DEF TypeOK
  <1> HIDE DEF T
  <1>2. earned' \in [Skills -> T]
    BY <1>1
  <1> QED BY <1>2 DEF T

\* The rows of the library that a step may write, and what it counts for.
LEMMA LibraryTyped ==
    ASSUME IInv, [Next]_vars
    PROVE  library' \in [Skills -> SkillRow] /\ earned' \in [Skills -> SUBSET (Runs \union Earlier)]
  <1> USE DEF IInv, TypeOK
  <1>1. CASE LibraryKept
    BY <1>1 DEF LibraryKept
  <1>2. ASSUME NEW r \in Runs, WriteUse(r)
        PROVE  library' \in [Skills -> SkillRow] /\ earned' \in [Skills -> SUBSET (Runs \union Earlier)]
    <2>1. PICK s \in Skills, row \in SkillRow : Writes(s, row) /\ (earned' = earned \/ earned' = [earned EXCEPT ![s] = @ \union {r}])
      BY <1>2, WriteUseWrites
    <2> QED BY <2>1, WritesTyped, EarnsTyped
  <1>3. ASSUME NEW r \in Runs, Reinforce(r)
        PROVE  library' \in [Skills -> SkillRow] /\ earned' \in [Skills -> SUBSET (Runs \union Earlier)]
    <2>1. PICK s \in Skills, row \in SkillRow : Writes(s, row) /\ earned' = [earned EXCEPT ![s] = @ \union {r}]
      BY <1>3, ReinforceWrites
    <2> QED BY <2>1, WritesTyped, EarnsTyped
  <1>4. ASSUME NEW r \in Runs, Propose(r)
        PROVE  library' \in [Skills -> SkillRow] /\ earned' \in [Skills -> SUBSET (Runs \union Earlier)]
    <2>1. PICK s \in Skills, row \in SkillRow : Writes(s, row) /\ earned' = [earned EXCEPT ![s] = {r}]
      BY <1>4, ProposeWrites
    <2> QED BY <2>1, WritesTyped, EarnsTyped
  <1>5. ASSUME NEW s \in Skills, Retire(s)
        PROVE  library' \in [Skills -> SkillRow]
    BY <1>5, RetireWrites DEF Writes
  <1> QED BY <1>1, <1>2, <1>3, <1>4, <1>5, LibraryStep DEF Teaching

\* A row that holds a skill keeps what the skill has earned.
LEMMA EarnedGrows ==
    ASSUME IInv, [Next]_vars, NEW s \in Skills, library[s].status # "free"
    PROVE  library'[s].status # "free" /\ earned[s] \subseteq earned'[s]
  <1> USE DEF IInv, TypeOK
  <1>1. CASE LibraryKept
    BY <1>1 DEF LibraryKept
  <1>2. ASSUME NEW r \in Runs, WriteUse(r)
        PROVE  library'[s].status # "free" /\ earned[s] \subseteq earned'[s]
    <2>1. PICK q \in Skills, row \in SkillRow :
             /\ Writes(q, row) /\ row.status \in {"active", "retired"}
             /\ earned' = earned \/ earned' = [earned EXCEPT ![q] = @ \union {r}]
      BY <1>2, WriteUseWrites
    <2>2. library'[s].status # "free"
      BY <2>1 DEF Writes
    <2>3. earned[s] \subseteq earned'[s]
      BY <2>1
    <2> QED BY <2>2, <2>3
  <1>3. ASSUME NEW r \in Runs, Reinforce(r)
        PROVE  library'[s].status # "free" /\ earned[s] \subseteq earned'[s]
    BY <1>3, ReinforceWrites DEF Writes
  <1>4. ASSUME NEW r \in Runs, Propose(r)
        PROVE  library'[s].status # "free" /\ earned[s] \subseteq earned'[s]
    BY <1>4, ProposeWrites DEF Writes
  <1>5. ASSUME NEW q \in Skills, Retire(q), earned' = earned
        PROVE  library'[s].status # "free" /\ earned[s] \subseteq earned'[s]
    BY <1>5, RetireWrites DEF Writes
  <1> QED BY <1>1, <1>2, <1>3, <1>4, <1>5, LibraryStep DEF Teaching

LEMMA TwoGrows ==
    ASSUME IInv, [Next]_vars, NEW s \in Skills, library[s].status # "free", Two(s)
    PROVE  Two(s)'
  BY EarnedGrows DEF Two

-----------------------------------------------------------------------------
(***************************************************************************)
(* Skills and what they have earned.                                       *)
(***************************************************************************)
LEMMA SkillsEarnedStep ==
    ASSUME IInv, [Next]_vars
    PROVE  SkillsEarned'
  <1> SUFFICES ASSUME NEW s \in Skills
               PROVE  /\ library'[s].status = "active" => Two(s)'
                      /\ library'[s].status = "proposed" => library'[s].successes = 1 /\ earned'[s] # {}
    BY DEF SkillsEarned
  <1>a. /\ library[s].status = "active" => Two(s)
        /\ library[s].status = "proposed" => library[s].successes = 1 /\ earned[s] # {}
    BY DEF IInv, SkillsEarned
  <1>b. CASE library'[s] = library[s]
    <2>1. CASE library[s].status = "free"
      BY <1>b, <2>1
    <2>2. CASE library[s].status # "free"
      BY <1>a, <1>b, <2>2, TwoGrows, EarnedGrows
    <2> QED BY <2>1, <2>2
  <1>c. \A q \in Skills : \A row : q # s /\ Writes(q, row) => library'[s] = library[s]
    BY DEF Writes, IInv, TypeOK
  <1>d. \A row : Writes(s, row) => library'[s] = row
    BY DEF Writes, IInv, TypeOK
  <1>1. CASE LibraryKept
    BY <1>1, <1>b DEF LibraryKept
  <1>2. ASSUME NEW r \in Runs, WriteUse(r)
        PROVE  /\ library'[s].status = "active" => Two(s)'
               /\ library'[s].status = "proposed" => library'[s].successes = 1 /\ earned'[s] # {}
    <2>1. PICK q \in run[r].skills, row \in SkillRow :
             q \in Skills /\ Writes(q, row) /\ row.status \in {"active", "retired"}
      BY <1>2, WriteUseWrites
    <2>2. CASE q # s
      BY <1>b, <1>c, <2>1, <2>2
    <2>3. CASE q = s
      <3>1. Two(s) /\ library[s].status # "free"
        BY <2>1, <2>3 DEF IInv, GivenActive
      <3>2. Two(s)'
        BY <3>1, TwoGrows
      <3> QED BY <1>d, <2>1, <2>3, <3>2
    <2> QED BY <2>2, <2>3
  <1>3. ASSUME NEW r \in Runs, Reinforce(r)
        PROVE  /\ library'[s].status = "active" => Two(s)'
               /\ library'[s].status = "proposed" => library'[s].successes = 1 /\ earned'[s] # {}
    <2>1. PICK q \in Skills, row \in SkillRow :
             /\ Writes(q, row) /\ row.status = "active" /\ library[q].status # "free"
             /\ earned' = [earned EXCEPT ![q] = @ \union {r}] /\ earned[q] # {}
      BY <1>3, ReinforceWrites
    <2>2. CASE q # s
      BY <1>b, <1>c, <2>1, <2>2
    <2>3. CASE q = s
      <3>1. r \in earned[s] => Two(s)
        <4>1. pc[r] = "teach"
          BY <1>3 DEF Reinforce, At
        <4>2. ~After(r)
          BY <4>1 DEF After
        <4> QED BY <4>2 DEF IInv, TaughtOnce
      <3>2. earned'[s] = earned[s] \union {r}
        BY <2>1, <2>3 DEF IInv, TypeOK
      <3>3. Two(s)'
        BY <2>1, <2>3, <3>1, <3>2 DEF Two
      <3> QED BY <1>d, <2>1, <2>3, <3>3
    <2> QED BY <2>2, <2>3
  <1>4. ASSUME NEW r \in Runs, Propose(r)
        PROVE  /\ library'[s].status = "active" => Two(s)'
               /\ library'[s].status = "proposed" => library'[s].successes = 1 /\ earned'[s] # {}
    <2>1. PICK q \in Skills, row \in SkillRow :
             /\ Writes(q, row) /\ row.status = "proposed" /\ row.successes = 1
             /\ earned' = [earned EXCEPT ![q] = {r}]
      BY <1>4, ProposeWrites DEF IInv
    <2>2. CASE q # s
      BY <1>b, <1>c, <2>1, <2>2
    <2>3. CASE q = s
      BY <1>d, <2>1, <2>3 DEF IInv, TypeOK
    <2> QED BY <2>2, <2>3
  <1>5. ASSUME NEW q \in Skills, Retire(q)
        PROVE  /\ library'[s].status = "active" => Two(s)'
               /\ library'[s].status = "proposed" => library'[s].successes = 1 /\ earned'[s] # {}
    <2>1. PICK row \in SkillRow : Writes(q, row) /\ row.status = "retired"
      BY <1>5, RetireWrites DEF IInv
    <2> QED BY <1>b, <1>c, <1>d, <2>1
  <1> QED BY <1>1, <1>2, <1>3, <1>4, <1>5, LibraryStep DEF Teaching

\* The skills a run was given: written once, by Ask.
LEMMA GivenOnce ==
    ASSUME IInv, [Next]_vars, NEW r \in Runs
    PROVE  \/ run'[r].skills = run[r].skills
           \/ run[r].status = None /\ \A s \in run'[r].skills : s \in Skills /\ library[s].status = "active"
  <1>1. CASE \A q \in Runs : run'[q] = run[q]
    BY <1>1
  <1>2. ASSUME NEW q \in Runs, Ask(q)
        PROVE  \/ run'[r].skills = run[r].skills
               \/ run[r].status = None /\ \A s \in run'[r].skills : s \in Skills /\ library[s].status = "active"
    BY <1>2, AskSets DEF IInv, SameRow, Ask
  <1>3. ASSUME NEW q \in Runs, StartRun(q) \/ Begin(q) \/ SaveCommit(q) \/ Publish(q) \/ Finish(q) \/ FinishRaises(q)
        PROVE  run'[r].skills = run[r].skills
    <2>1. \A st : Sets(q, st) => run'[r].skills = run[r].skills
      BY DEF Sets, SameRow
    <2>2. CASE StartRun(q) \/ SaveCommit(q) \/ Publish(q)
      BY <2>1, <2>2, StartSets, CommitSets, PublishSets DEF IInv
    <2>3. CASE Begin(q)
      BY <2>1, <2>3, StatusSets DEF IInv, Begin
    <2>4. CASE Finish(q) \/ FinishRaises(q)
      <3>1. Ending(q) \in Settled
        BY <2>4 DEF IInv, Knows, Finish, FinishRaises, At
      <3> QED BY <2>1, <2>4, <3>1, StatusSets DEF IInv, Finish, FinishRaises
    <2> QED BY <1>3, <2>2, <2>3, <2>4
  <1>4. CASE UNCHANGED run
    BY <1>4
  <1>5. ASSUME NEW q \in Runs,
               \/ RunAgent(q) \/ Push(q) \/ BeginRaises(q) \/ Raises(q)
               \/ UseFails(q) \/ DistilFails(q) \/ LabelFails(q) \/ ReturnRaises(q)
        PROVE  UNCHANGED run
    BY <1>5 DEF RunAgent, Push, BeginRaises, Raises, UseFails, DistilFails, LabelFails, ReturnRaises, rows
  <1>6. ASSUME NEW q \in Runs,
               \/ ReadUse(q) \/ WriteUse(q) \/ FindClosest(q) \/ Reinforce(q) \/ Propose(q) \/ Label(q) \/ Return(q)
        PROVE  UNCHANGED run
    BY <1>6 DEF ReadUse, WriteUse, FindClosest, Reinforce, Propose, Label, Return, rows
  <1>7. CASE Crash \/ (\E s \in Skills : Retire(s)) \/ (\E c \in Contexts : Report(c)) \/ UNCHANGED vars
    BY <1>7 DEF Crash, Retire, Report, vars, rows
  <1> QED BY <1>2, <1>3, <1>4, <1>5, <1>6, <1>7 DEF Next, Execute, Conclude, Fails

LEMMA GivenActiveStep ==
    ASSUME IInv, [Next]_vars
    PROVE  GivenActive'
  <1> SUFFICES ASSUME NEW r \in Runs, NEW s \in run'[r].skills
               PROVE  Two(s)' /\ library'[s].status \in {"active", "retired"}
    BY DEF GivenActive
  <1>1. s \in Skills /\ Two(s) /\ library[s].status \in {"active", "retired"}
    <2>1. CASE run'[r].skills = run[r].skills
      BY <2>1 DEF IInv, GivenActive, TypeOK, RunRow
    <2>2. CASE \A q \in run'[r].skills : q \in Skills /\ library[q].status = "active"
      BY <2>2 DEF IInv, SkillsEarned
    <2> QED BY <2>1, <2>2, GivenOnce
  <1>2. Two(s)'
    BY <1>1, TwoGrows
  <1>3. library'[s].status \in {"active", "retired"}
    <2> USE <1>1 DEF IInv, TypeOK
    <2>1. CASE LibraryKept
      BY <2>1 DEF LibraryKept
    <2>2. ASSUME NEW q \in Runs, WriteUse(q)
          PROVE  library'[s].status \in {"active", "retired"}
      BY <2>2, WriteUseWrites DEF Writes
    <2>3. ASSUME NEW q \in Runs, Reinforce(q)
          PROVE  library'[s].status \in {"active", "retired"}
      BY <2>3, ReinforceWrites DEF Writes
    <2>4. ASSUME NEW q \in Runs, Propose(q)
          PROVE  library'[s].status \in {"active", "retired"}
      BY <2>4, ProposeWrites DEF Writes
    <2>5. ASSUME NEW q \in Skills, Retire(q)
          PROVE  library'[s].status \in {"active", "retired"}
      BY <2>5, RetireWrites DEF Writes
    <2> QED BY <2>1, <2>2, <2>3, <2>4, <2>5, LibraryStep DEF Teaching
  <1> QED BY <1>2, <1>3

-----------------------------------------------------------------------------
(***************************************************************************)
(* The type of what the other variables hold.                              *)
(***************************************************************************)
LEMMA RunTyped ==
    ASSUME IInv, [Next]_vars
    PROVE  run' \in [Runs -> RunRow]
  <1> USE DEF IInv
  <1>1. ASSUME NEW r \in Runs, Ask(r) \/ StartRun(r)
        PROVE  run' \in [Runs -> RunRow]
    BY <1>1, AskSets, StartSets DEF Sets
  <1>2. ASSUME NEW r \in Runs, Execute(r)
        PROVE  run' \in [Runs -> RunRow]
    <2>1. CASE Begin(r)
      BY <2>1, StatusSets DEF Begin, Sets
    <2>2. CASE SaveCommit(r) \/ Publish(r)
      BY <2>2, CommitSets, PublishSets DEF Sets
    <2>3. CASE RunAgent(r) \/ Push(r)
      BY <2>3 DEF RunAgent, Push, rows, TypeOK
    <2> QED BY <1>2, <2>1, <2>2, <2>3 DEF Execute
  <1>3. ASSUME NEW r \in Runs, Finish(r) \/ FinishRaises(r)
        PROVE  run' \in [Runs -> RunRow]
    <2>1. Ending(r) \in Settled
      BY <1>3 DEF Knows, Finish, FinishRaises, At
    <2> QED BY <1>3, <2>1, StatusSets DEF Finish, FinishRaises, Sets, TypeOK
  <1>4. ASSUME NEW r \in Runs, Conclude(r) \/ Fails(r), ~Finish(r), ~FinishRaises(r)
        PROVE  run' = run
    BY <1>4 DEF Conclude, ReadUse, WriteUse, FindClosest, Reinforce, Propose, Label, Return, Fails, BeginRaises, Raises,
                UseFails, DistilFails, LabelFails, ReturnRaises, rows
  <1>5. CASE Crash \/ (\E s \in Skills : Retire(s)) \/ (\E c \in Contexts : Report(c)) \/ UNCHANGED vars
    BY <1>5 DEF Crash, Retire, Report, vars, rows, TypeOK
  <1> QED BY <1>1, <1>2, <1>3, <1>4, <1>5 DEF Next, TypeOK

LEMMA ThreadsTyped ==
    ASSUME IInv, [Next]_vars
    PROVE  pc' \in [Runs -> Places] /\ work' \in [Runs -> Works]
  <1>1. ASSUME NEW r \in Runs, ThreadStep(r)
        PROVE  pc' \in [Runs -> Places] /\ work' \in [Runs -> Works]
    BY <1>1, OwnStep DEF Own, Moves
  <1>2. CASE Crash
    <2>1. pc' \in [Runs -> Places]
      BY <1>2 DEF Crash, Places
    <2>2. work' \in [Runs -> Works]
      BY <1>2, NoWorkTyped DEF Crash
    <2> QED BY <2>1, <2>2
  <1>3. CASE \/ (\E r \in Runs : Ask(r)) \/ (\E s \in Skills : Retire(s)) \/ (\E c \in Contexts : Report(c))
             \/ UNCHANGED vars
    BY <1>3 DEF Ask, Retire, Report, vars, IInv, TypeOK
  <1> QED BY <1>1, <1>2, <1>3 DEF Next, ThreadStep

LEMMA EntryIs ==
    ASSUME NEW by \in Runs \union {Person}, NEW outcome \in Outcomes
    PROVE  /\ Entry(by, outcome) \in Labelling
           /\ Entry(by, outcome).by = by /\ Entry(by, outcome).outcome = outcome
  BY DEF Entry, Labelling

LEMMA OutcomeIs ==
    ASSUME NEW status
    PROVE  OutcomeOf(status) \in Outcomes
  BY DEF OutcomeOf, Outcomes

\* A label is appended to the ones of its context.
LEMMA RecordedIs ==
    ASSUME TypeOK, NEW c \in Contexts, NEW e \in Labelling, Recorded(c, e)
    PROVE  /\ ledger' \in [Contexts -> Seq(Labelling)]
           /\ ledger'[c] = Append(ledger[c], e)
           /\ \A d \in Contexts \ {c} : ledger'[d] = ledger[d]
  <1>1. ledger \in [Contexts -> Seq(Labelling)]
    BY DEF TypeOK, Labelling
  <1>2. Append(ledger[c], e) \in Seq(Labelling)
    BY <1>1, AppendProperties
  <1> QED BY <1>1, <1>2 DEF Recorded

LEMMA LabelRecords ==
    ASSUME TypeOK, NEW r \in Runs, Label(r)
    PROVE  \/ run[r].context = None /\ ledger' = ledger
           \/ /\ run[r].context \in Contexts
              /\ Entry(r, OutcomeOf(Ending(r))) \in Labelling
              /\ Recorded(run[r].context, Entry(r, OutcomeOf(Ending(r))))
  <1>1. run[r].context \in Contexts \union {None}
    BY DEF TypeOK, RunRow
  <1>2. Entry(r, OutcomeOf(Ending(r))) \in Labelling
    BY OutcomeIs, EntryIs
  <1> QED BY <1>1, <1>2 DEF Label

LEMMA ReportRecords ==
    ASSUME NEW c \in Contexts, Report(c)
    PROVE  \E outcome \in Outcomes : Entry(Person, outcome) \in Labelling /\ Recorded(c, Entry(Person, outcome))
  <1>1. PICK outcome \in Reportable : Recorded(c, Entry(Person, outcome))
    BY DEF Report
  <1>2. outcome \in Outcomes
    BY ExecutionAssumption
  <1> QED BY <1>1, <1>2, EntryIs

LEMMA LedgerTyped ==
    ASSUME IInv, [Next]_vars
    PROVE  ledger' \in [Contexts -> Seq(Labelling)]
  <1>a. TypeOK /\ ledger \in [Contexts -> Seq(Labelling)]
    BY DEF IInv, TypeOK, Labelling
  <1>1. ASSUME NEW r \in Runs, Label(r)
        PROVE  ledger' \in [Contexts -> Seq(Labelling)]
    BY <1>a, <1>1, LabelRecords, RecordedIs
  <1>2. ASSUME NEW r \in Runs, Ask(r) \/ StartRun(r) \/ Execute(r) \/ Fails(r)
        PROVE  ledger' = ledger
    BY <1>2 DEF Ask, StartRun, Execute, Begin, RunAgent, SaveCommit, Push, Publish, Fails, BeginRaises, Raises, FinishRaises,
                UseFails, DistilFails, LabelFails, ReturnRaises, rows
  <1>3. ASSUME NEW r \in Runs, Conclude(r), ~Label(r)
        PROVE  ledger' = ledger
    BY <1>3 DEF Conclude, Finish, ReadUse, WriteUse, FindClosest, Reinforce, Propose, Return, rows
  <1>4. CASE Crash \/ (\E s \in Skills : Retire(s)) \/ UNCHANGED vars
    BY <1>a, <1>4 DEF Crash, Retire, vars, rows
  <1>5. ASSUME NEW c \in Contexts, Report(c)
        PROVE  ledger' \in [Contexts -> Seq(Labelling)]
    BY <1>a, <1>5, ReportRecords, RecordedIs
  <1> QED BY <1>a, <1>1, <1>2, <1>3, <1>4, <1>5 DEF Next

LEMMA BoundsTyped ==
    ASSUME IInv, [Next]_vars
    PROVE  faults' \in Nat /\ crashes' \in Nat /\ reports' \in Nat /\ remote' \subseteq Runs
  <1> USE DEF IInv, TypeOK
  <1>1. ASSUME NEW r \in Runs, Ask(r) \/ StartRun(r) \/ Execute(r)
        PROVE  Faultless /\ remote' \subseteq Runs
    BY <1>1 DEF Ask, StartRun, Execute, Begin, RunAgent, SaveCommit, Push, Publish, rows
  <1>2. ASSUME NEW r \in Runs, Conclude(r)
        PROVE  Faultless /\ remote' \subseteq Runs
    BY <1>2 DEF Conclude, Finish, ReadUse, WriteUse, FindClosest, Reinforce, Propose, Label, Return, rows
  <1>3. ASSUME NEW r \in Runs, Fails(r)
        PROVE  Fault /\ remote' \subseteq Runs
    BY <1>3 DEF Fails, BeginRaises, Raises, FinishRaises, UseFails, DistilFails, LabelFails, ReturnRaises, rows
  <1>4. CASE Crash
    BY <1>4 DEF Crash, rows
  <1>5. CASE (\E s \in Skills : Retire(s)) \/ UNCHANGED vars
    BY <1>5 DEF Retire, vars, rows, Faultless
  <1>6. CASE \E c \in Contexts : Report(c)
    BY <1>6 DEF Report
  <1> QED BY <1>1, <1>2, <1>3, <1>4, <1>5, <1>6, FaultCounts DEF Next, Faultless

LEMMA HistoryTyped ==
    ASSUME IInv, [Next]_vars
    PROVE  overlap' \in BOOLEAN /\ unlabelled' \subseteq Runs /\ unheard' \subseteq Runs
  <1>a. overlap \in BOOLEAN /\ unlabelled \subseteq Runs /\ unheard \subseteq Runs
    BY DEF IInv, TypeOK
  <1>1. ASSUME NEW r \in Runs, Ask(r) \/ StartRun(r) \/ Execute(r)
        PROVE  UNCHANGED <<overlap, unlabelled, unheard>>
    BY <1>1 DEF Ask, StartRun, Execute, Begin, RunAgent, SaveCommit, Push, Publish, history
  <1>2. ASSUME NEW r \in Runs, Conclude(r), ~ReadUse(r), ~FindClosest(r)
        PROVE  UNCHANGED <<overlap, unlabelled, unheard>>
    BY <1>2 DEF Conclude, Finish, WriteUse, Reinforce, Propose, Label, Return, history
  <1>3. ASSUME NEW r \in Runs, ReadUse(r) \/ FindClosest(r)
        PROVE  overlap' \in BOOLEAN /\ UNCHANGED <<unlabelled, unheard>>
    BY <1>3 DEF ReadUse, FindClosest, Overlapping
  <1>4. ASSUME NEW r \in Runs, UseFails(r) \/ DistilFails(r) \/ Raises(r)
        PROVE  UNCHANGED <<overlap, unlabelled, unheard>>
    BY <1>4 DEF UseFails, DistilFails, Raises, history
  <1>5. ASSUME NEW r \in Runs, LabelFails(r)
        PROVE  UNCHANGED <<overlap, unheard>> /\ unlabelled' = unlabelled \union {r}
    BY <1>5 DEF LabelFails
  <1>6. ASSUME NEW r \in Runs, BeginRaises(r) \/ FinishRaises(r) \/ ReturnRaises(r)
        PROVE  UNCHANGED <<overlap, unlabelled>> /\ (unheard' = unheard \/ unheard' = unheard \union {r})
    BY <1>6 DEF BeginRaises, FinishRaises, ReturnRaises, FailAgain, Dies
  <1>7. ASSUME NEW s \in Skills, Retire(s)
        PROVE  overlap' \in BOOLEAN /\ UNCHANGED <<unlabelled, unheard>>
    <2>1. overlap' = (overlap \/ Holding # {}) /\ UNCHANGED <<unlabelled, unheard>>
      BY <1>7 DEF Retire
    <2> QED BY <2>1, Zenon
  <1>8. CASE Crash \/ (\E c \in Contexts : Report(c)) \/ UNCHANGED vars
    BY <1>8, <1>a DEF Crash, Report, history, vars
  <1> DEFINE Typed == overlap' \in BOOLEAN /\ unlabelled' \subseteq Runs /\ unheard' \subseteq Runs
  <1>9. UNCHANGED <<overlap, unlabelled, unheard>> => Typed
    BY <1>a
  <1>10. ASSUME NEW r \in Runs, Ask(r) \/ StartRun(r) \/ Execute(r) \/ Conclude(r)
         PROVE  Typed
    BY <1>10, <1>a, <1>1, <1>2, <1>3, <1>9
  <1>11. ASSUME NEW r \in Runs, Fails(r)
         PROVE  Typed
    <2>1. CASE UseFails(r) \/ DistilFails(r) \/ Raises(r)
      BY <2>1, <1>4, <1>9
    <2>2. CASE LabelFails(r)
      BY <2>2, <1>a, <1>5
    <2>3. CASE BeginRaises(r) \/ FinishRaises(r) \/ ReturnRaises(r)
      BY <2>3, <1>a, <1>6
    <2> QED BY <1>11, <2>1, <2>2, <2>3 DEF Fails
  <1>12. ASSUME NEW s \in Skills, Retire(s)
         PROVE  Typed
    BY <1>12, <1>a, <1>7
  <1>13. CASE Crash \/ (\E c \in Contexts : Report(c)) \/ UNCHANGED vars
    BY <1>13, <1>8
  <1>14. ASSUME Next
         PROVE  Typed
    <2>1. CASE \E r \in Runs : Ask(r) \/ StartRun(r) \/ Execute(r) \/ Conclude(r) \/ Fails(r)
      <3>1. PICK r \in Runs : Ask(r) \/ StartRun(r) \/ Execute(r) \/ Conclude(r) \/ Fails(r)
        BY <2>1
      <3>2. CASE Fails(r)
        BY <3>2, <1>11
      <3>3. CASE ~Fails(r)
        BY <3>1, <3>3, <1>10
      <3> QED BY <3>2, <3>3
    <2>2. CASE Crash \/ (\E c \in Contexts : Report(c)) \/ \E s \in Skills : Retire(s)
      BY <2>2, <1>12, <1>13
    <2> QED BY <1>14, <2>1, <2>2 DEF Next
  <1> QED BY <1>13, <1>14

LEMMA RunTypeStep ==
    ASSUME IInv, [Next]_vars
    PROVE  TypeOK'
  BY RunTyped, ThreadsTyped, LedgerTyped, BoundsTyped, HistoryTyped, LibraryTyped DEF TypeOK, Labelling

-----------------------------------------------------------------------------
(***************************************************************************)
(* What the threads know, and what they teach.                             *)
(***************************************************************************)
\* A thread that does not take the step: what it knows holds on.
LEMMA OthersKnow ==
    ASSUME IInv, [Next]_vars, NEW q \in Runs, pc'[q] = pc[q], work'[q] = work[q],
           run'[q] = run[q] \/ (Ask(q) /\ pc[q] = None)
    PROVE  Knows(q)'
  <1>a. Knows(q)
    BY DEF IInv
  <1>1. CASE pc[q] = None
    BY <1>1, <1>a DEF Knows, Ending, At, None
  <1>2. CASE pc[q] # None
    <2> DEFINE s == work[q].skill
    <2>1. run'[q] = run[q]
      BY <1>2
    <2>2. ASSUME At(q, "teach"), s # None
          PROVE  /\ library'[s].status # "free" /\ earned'[s] # {}
                 /\ \/ work[q].row.status = "proposed" /\ work[q].row.successes = 1
                    \/ work[q].row.status = "active" /\ Two(s)'
      <3>1. /\ library[s].status # "free" /\ earned[s] # {}
            /\ \/ work[q].row.status = "proposed" /\ work[q].row.successes = 1
               \/ work[q].row.status = "active" /\ Two(s)
        BY <1>a, <2>2 DEF Knows
      <3>2. s \in Skills
        BY <2>2 DEF IInv, TypeOK, Works
      <3>3. library'[s].status # "free" /\ earned'[s] # {}
        BY <3>1, <3>2, EarnedGrows
      <3>4. Two(s) => Two(s)'
        BY <3>1, <3>2, TwoGrows
      <3> QED BY <3>1, <3>3, <3>4
    <2>3. At(q, "teach")' /\ work'[q].skill # None =>
            /\ library'[work'[q].skill].status # "free" /\ earned'[work'[q].skill] # {}
            /\ \/ work'[q].row.status = "proposed" /\ work'[q].row.successes = 1
               \/ work'[q].row.status = "active" /\ Two(work[q].skill)'
      BY <2>2 DEF At
    <2>4. Two(work[q].skill)' = \E a, b \in earned'[work'[q].skill] : a # b
      BY DEF Two
    <2> QED BY <1>2, <1>a, <2>1, <2>3, <2>4 DEF Knows, Ending, At, Two
  <1> QED BY <1>1, <1>2

\* The run of a thread that moves is neither new nor only offered.
LEMMA Moving ==
    ASSUME IInv, NEW r \in Runs, ThreadStep(r)
    PROVE  run'[r].status \notin {None, "offered"}
  <1> USE DEF IInv, None
  <1>1. CASE StartRun(r)
    BY <1>1, StartSets DEF Sets
  <1>2. CASE Execute(r)
    <2>1. CASE Begin(r)
      BY <2>1, StatusSets DEF Begin, Sets
    <2>2. run[r].status \notin {None, "offered"}
      BY <1>2 DEF Knows, Execute, Begin, RunAgent, SaveCommit, Push, Publish, At
    <2> QED BY <1>2, <2>1, <2>2, CommitSets, PublishSets DEF Execute, RunAgent, Push, rows, Sets
  <1>3. CASE Finish(r) \/ FinishRaises(r)
    <2>1. Ending(r) \in Settled /\ run[r].status \notin {None, "offered"}
      BY <1>3 DEF Knows, Finish, FinishRaises, At
    <2> QED BY <1>3, <2>1, StatusSets DEF Finish, FinishRaises, Sets, Settled, Success
  <1>4. CASE (Conclude(r) \/ Fails(r)) /\ ~Finish(r) /\ ~FinishRaises(r)
    <2>1. run' = run /\ pc[r] # None
      BY <1>4 DEF Conclude, ReadUse, WriteUse, FindClosest, Reinforce, Propose, Label, Return, Fails, BeginRaises, Raises,
                  UseFails, DistilFails, LabelFails, ReturnRaises, rows, At
    <2> QED BY <2>1 DEF Knows
  <1> QED BY <1>1, <1>2, <1>3, <1>4 DEF ThreadStep

LEMMA OwnKnows ==
    ASSUME IInv, [Next]_vars, NEW r \in Runs, ThreadStep(r)
    PROVE  Knows(r)'
  <1>1. Own(r)
    BY OwnStep
  <1>2. run'[r].skills = run[r].skills /\ pc'[r] # None
    <2>1. CASE StartRun(r)
      BY <1>1, <2>1, GivenOnce DEF Own, Moves, StartRun, None
    <2>2. CASE ~StartRun(r)
      <3>1. pc[r] # None
        BY <2>2 DEF ThreadStep, Execute, Begin, RunAgent, SaveCommit, Push, Publish, Conclude, Finish, ReadUse, WriteUse,
                    FindClosest, Reinforce, Propose, Label, Return, Fails, BeginRaises, Raises, FinishRaises, UseFails,
                    DistilFails, LabelFails, ReturnRaises, At, None
      <3>2. run[r].status # None
        BY <3>1 DEF IInv, Knows
      <3> QED BY <1>1, <3>2, GivenOnce DEF Own, Moves
    <2> QED BY <2>1, <2>2
  <1>3. ASSUME pc'[r] = "teach", work'[r].skill # None
        PROVE  /\ library'[work'[r].skill].status # "free" /\ earned'[work'[r].skill] # {}
               /\ \/ work'[r].row.status = "proposed" /\ work'[r].row.successes = 1
                  \/ work'[r].row.status = "active" /\ \E a, b \in earned'[work'[r].skill] : a # b
    <2>1. /\ library' = library /\ earned' = earned /\ work'[r].skill \in Skills
          /\ work'[r].row = library[work'[r].skill] /\ work'[r].row.status \in {"proposed", "active"}
      BY <1>1, <1>3 DEF Own
    <2> QED BY <2>1 DEF IInv, SkillsEarned, Two
  <1>4. Two(work[r].skill)' = \E a, b \in earned'[work'[r].skill] : a # b
    BY DEF Two
  <1>5. run'[r].status \in {None, "offered"} => pc'[r] = None
    BY <1>2, Moving
  <1>6. At(r, "count")' => work'[r].skill \in run'[r].skills /\ work'[r].row.status \in {"active", "retired"}
    BY <1>1, <1>2 DEF Own, At
  <1>7. pc'[r] \in {"finish", "use", "count", "distil", "teach", "label", "return"} => Ending(r)' \in Settled
    BY <1>1 DEF Own, Concluding, Ending
  <1>8. work'[r].todo \subseteq run'[r].skills
    BY <1>1, <1>2 DEF Own
  <1>9. At(r, "teach")' /\ work'[r].skill # None =>
          /\ library'[work'[r].skill].status # "free" /\ earned'[work'[r].skill] # {}
          /\ \/ work'[r].row.status = "proposed" /\ work'[r].row.successes = 1
             \/ work'[r].row.status = "active" /\ Two(work[r].skill)'
    BY <1>3, <1>4 DEF At
  <1> QED BY <1>2, <1>5, <1>6, <1>7, <1>8, <1>9 DEF Knows

\* A thread writes only its own run's row.
LEMMA OtherRows ==
    ASSUME IInv, NEW r \in Runs, ThreadStep(r), NEW q \in Runs \ {r}
    PROVE  run'[q] = run[q]
  <1>1. \A row : SetRun(r, row) => run'[q] = run[q]
    BY DEF SetRun, IInv, TypeOK
  <1>2. CASE StartRun(r) \/ Execute(r)
    BY <1>1, <1>2 DEF StartRun, Execute, Begin, RunAgent, SaveCommit, Push, Publish, rows
  <1>3. CASE Conclude(r)
    BY <1>1, <1>3 DEF Conclude, Finish, ReadUse, WriteUse, FindClosest, Reinforce, Propose, Label, Return, rows
  <1>4. CASE Fails(r)
    BY <1>1, <1>4 DEF Fails, BeginRaises, Raises, FinishRaises, UseFails, DistilFails, LabelFails, ReturnRaises, rows
  <1> QED BY <1>2, <1>3, <1>4 DEF ThreadStep

\* With its lesson a thread goes on to the label.
LEMMA Labelled ==
    ASSUME IInv, NEW r \in Runs, Reinforce(r) \/ Propose(r)
    PROVE  After(r)'
  <1>1. pc' = [pc EXCEPT ![r] = "label"]
    BY DEF Reinforce, Propose, Step
  <1> QED BY <1>1 DEF After, IInv, TypeOK

LEMMA KnowsStep ==
    ASSUME IInv, [Next]_vars, NEW q \in Runs
    PROVE  Knows(q)'
  <1>1. CASE UNCHANGED vars \/ (\E s \in Skills : Retire(s)) \/ (\E c \in Contexts : Report(c))
    BY <1>1, OthersKnow DEF vars, rows, Retire, Report
  <1>2. CASE Crash
    <2>1. work'[q] = NoWork /\ pc'[q] \in {None, "over"} /\ run' = run /\ (pc[q] = None => pc'[q] = None)
      BY <1>2 DEF Crash, rows
    <2>2. Knows(q)
      BY DEF IInv
    <2> QED BY <2>1, <2>2 DEF Knows, NoWork, At, None
  <1>3. ASSUME NEW r \in Runs, Ask(r)
        PROVE  Knows(q)'
    <2>1. pc' = pc /\ work' = work
      BY <1>3 DEF Ask
    <2>2. r = q => pc[q] = None
      BY <1>3 DEF Ask, IInv, Knows
    <2>3. r # q => run'[q] = run[q]
      BY <1>3, AskSets DEF SameRow, IInv
    <2> QED BY <1>3, <2>1, <2>2, <2>3, OthersKnow
  <1>4. ASSUME NEW r \in Runs, ThreadStep(r)
        PROVE  Knows(q)'
    <2>1. CASE r = q
      BY <1>4, <2>1, OwnKnows
    <2>2. CASE r # q
      <3>1. pc'[q] = pc[q] /\ work'[q] = work[q]
        BY <1>4, <2>2, OwnStep DEF Own, Moves
      <3>2. run'[q] = run[q]
        BY <1>4, <2>2, OtherRows
      <3> QED BY <3>1, <3>2, OthersKnow
    <2> QED BY <2>1, <2>2
  <1> QED BY <1>1, <1>2, <1>3, <1>4 DEF Next, ThreadStep

LEMMA AfterStep ==
    ASSUME IInv, [Next]_vars, NEW q \in Runs, After(q)
    PROVE  After(q)'
  <1>1. ASSUME pc' = pc, work' = work
        PROVE  After(q)'
    BY <1>1 DEF After, Ending
  <1>2. CASE \/ UNCHANGED vars \/ (\E s \in Skills : Retire(s)) \/ (\E c \in Contexts : Report(c))
             \/ \E r \in Runs : Ask(r)
    BY <1>1, <1>2 DEF vars, Retire, Report, Ask
  <1>3. CASE Crash
    <2>1. pc[q] # None
      BY DEF After, None
    <2> QED BY <1>3, <2>1 DEF Crash, After
  <1>4. ASSUME NEW r \in Runs, ThreadStep(r)
        PROVE  After(q)'
    <2>1. Own(r)
      BY <1>4, OwnStep
    <2>2. CASE r = q
      BY <2>1, <2>2 DEF Own, Later, After, Ending
    <2>3. CASE r # q
      BY <2>1, <2>3 DEF Own, Moves, After, Ending
    <2> QED BY <2>2, <2>3
  <1> QED BY <1>2, <1>3, <1>4 DEF Next, ThreadStep

LEMMA TaughtOnceStep ==
    ASSUME IInv, [Next]_vars
    PROVE  TaughtOnce'
  <1> SUFFICES ASSUME NEW s \in Skills, NEW q \in Runs, q \in earned'[s]
               PROVE  Two(s)' \/ After(q)'
    BY DEF TaughtOnce
  <1>1. ASSUME q \in earned[s], earned[s] \subseteq earned'[s]
        PROVE  Two(s)' \/ After(q)'
    BY <1>1, AfterStep DEF IInv, TaughtOnce, Two
  <1>2. CASE earned' = earned
    BY <1>1, <1>2
  <1>3. ASSUME NEW r \in Runs, WriteUse(r)
        PROVE  Two(s)' \/ After(q)'
    <2>1. PICK p \in run[r].skills :
             /\ p \in Skills /\ \/ earned' = earned
                                \/ earned' = [earned EXCEPT ![p] = @ \union {r}]
      BY <1>3, WriteUseWrites
    <2>2. CASE p # s
      <3>1. earned'[s] = earned[s]
        BY <2>1, <2>2 DEF IInv, TypeOK
      <3> QED BY <1>1, <3>1
    <2>3. CASE p = s
      BY <2>1, <2>3, TwoGrows DEF IInv, GivenActive
    <2> QED BY <2>2, <2>3
  <1>4. ASSUME NEW r \in Runs, Reinforce(r)
        PROVE  Two(s)' \/ After(q)'
    <2>1. PICK p \in Skills : earned' = [earned EXCEPT ![p] = @ \union {r}]
      BY <1>4, ReinforceWrites
    <2>2. earned[s] \subseteq earned'[s] /\ earned'[s] \subseteq earned[s] \union {r}
      BY <2>1 DEF IInv, TypeOK
    <2>3. After(r)'
      BY <1>4, Labelled
    <2> QED BY <1>1, <2>2, <2>3
  <1>5. ASSUME NEW r \in Runs, Propose(r)
        PROVE  Two(s)' \/ After(q)'
    <2>1. PICK p \in Skills : earned' = [earned EXCEPT ![p] = {r}]
      BY <1>5, ProposeWrites DEF IInv
    <2>2. earned'[s] = earned[s] \/ earned'[s] = {r}
      BY <2>1 DEF IInv, TypeOK
    <2>3. After(r)'
      BY <1>5, Labelled
    <2> QED BY <1>1, <2>2, <2>3
  <1> QED BY <1>2, <1>3, <1>4, <1>5, LibraryStep DEF Teaching, LibraryKept

\* What threads, rows and skills know of each other holds in every step, of
\* whichever thread, reviewer or crash.
THEOREM RunsInductive == Spec => []IInv
  <1>1. Init => IInv
    <2> SUFFICES ASSUME Init PROVE IInv
      OBVIOUS
    <2>1. SkillsEarned /\ TaughtOnce
      BY ExecutionAssumption DEF Init, SkillsEarned, Two, TaughtOnce
    <2>2. GivenActive
      BY DEF Init, GivenActive
    <2>3. \A r \in Runs : Knows(r)
      BY DEF Init, Knows, NoWork, None, At
    <2> QED BY <2>1, <2>2, <2>3, RunTypeInit DEF IInv
  <1>2. IInv /\ [Next]_vars => IInv'
    BY RunTypeStep, SkillsEarnedStep, GivenActiveStep, KnowsStep, TaughtOnceStep DEF IInv
  <1> QED BY <1>1, <1>2, PTL DEF Spec

\* Every reachable state is of the declared type.
THEOREM RunsTypeCorrect == Spec => []TypeOK
  <1>1. IInv => TypeOK
    BY DEF IInv
  <1> QED BY <1>1, RunsInductive, PTL

\* However many runs end together, and whatever fails or is counted from
\* stale rows: an active skill has worked in at least two different runs.
THEOREM SkillsEarnTrust == Spec => []TrustEarned
  <1>1. IInv => TrustEarned
    BY DEF IInv, SkillsEarned, Two, TrustEarned
  <1> QED BY <1>1, RunsInductive, PTL

\* A retired skill that no thread holds from before stays retired.
THEOREM RetiredStaysRetired == Spec => RetirementHolds
  <1>1. ASSUME IInv, [Next]_vars, NEW s \in Skills, library[s].status = "retired", ~Stale(s)
        PROVE  library'[s].status = "retired"
    <2> USE DEF IInv, TypeOK
    <2>1. CASE LibraryKept
      BY <1>1, <2>1 DEF LibraryKept
    <2>2. ASSUME NEW r \in Runs, WriteUse(r)
          PROVE  library'[s].status = "retired"
      <3>1. PICK p \in run[r].skills, row \in SkillRow :
               /\ p \in Skills /\ Writes(p, row)
               /\ work[r].skill = p /\ (work[r].row.status = "retired" => row.status = "retired")
        <4> HIDE DEF IInv, TypeOK
        <4> QED BY <1>1, <2>2, WriteUseWrites
      <3>2. p = s => work[r].row.status = "retired"
        BY <1>1, <2>2, <3>1 DEF Stale, WriteUse, At
      <3> QED BY <1>1, <3>1, <3>2 DEF Writes
    <2>3. ASSUME NEW r \in Runs, Reinforce(r)
          PROVE  library'[s].status = "retired"
      <3>1. PICK p \in Skills, row \in SkillRow :
               Writes(p, row) /\ work[r].skill = p /\ work[r].row.status # "retired"
        BY <1>1, <2>3, ReinforceWrites
      <3>2. p # s
        BY <1>1, <2>3, <3>1 DEF Stale, Reinforce, At
      <3> QED BY <1>1, <3>1, <3>2 DEF Writes
    <2>4. ASSUME NEW r \in Runs, Propose(r)
          PROVE  library'[s].status = "retired"
      BY <1>1, <2>4, ProposeWrites DEF Writes
    <2>5. ASSUME NEW p \in Skills, Retire(p)
          PROVE  library'[s].status = "retired"
      BY <1>1, <2>5, RetireWrites DEF Writes
    <2> QED BY <1>1, <2>1, <2>2, <2>3, <2>4, <2>5, LibraryStep DEF Teaching
  <1>2. IInv /\ [Next]_vars =>
          [\A s \in Skills : library[s].status = "retired" /\ ~Stale(s) => library'[s].status = "retired"]_vars
    BY <1>1
  <1> QED BY <1>2, RunsInductive, PTL DEF Spec, RetirementHolds

-----------------------------------------------------------------------------
(***************************************************************************)
(* The status a run shows.                                                 *)
(***************************************************************************)
\* A step that keeps the row, the branch and the ending of a run, or ends
\* the thread, or goes on to the next place of its conclusion.
LEMMA SoundKept ==
    ASSUME NEW q, Sound(q), run'[q] = run[q], q \in remote' <=> q \in remote,
           \/ pc'[q] = pc[q] /\ work'[q].ending = work[q].ending
           \/ pc[q] # None /\ pc'[q] = "over" /\ work'[q].ending = None
           \/ pc[q] # None /\ pc'[q] = "finish" /\ work'[q].ending = "failed"
           \/ /\ pc[q] \in Concluding /\ pc'[q] \in Concluding \ {"finish"} /\ work'[q].ending = work[q].ending
    PROVE  Sound(q)'
  <1> USE DEF Sound
  <1>1. Tells(q)'
    BY DEF Tells
  <1> USE DEF Honest, Ending, Success, Settled, None
  <1>2. CASE pc'[q] = pc[q] /\ work'[q].ending = work[q].ending
    BY <1>1, <1>2
  <1>3. CASE pc[q] # None /\ pc'[q] = "over" /\ work'[q].ending = None
    BY <1>1, <1>3
  <1>4. CASE pc[q] # None /\ pc'[q] = "finish" /\ work'[q].ending = "failed"
    BY <1>1, <1>4
  <1>5. CASE pc[q] \in Concluding /\ pc'[q] \in Concluding \ {"finish"} /\ work'[q].ending = work[q].ending
    BY <1>1, <1>5 DEF Concluding
  <1> QED BY <1>2, <1>3, <1>4, <1>5

LEMMA SoundStart ==
    ASSUME IInv, NEW r \in Runs, Sound(r), StartRun(r)
    PROVE  Sound(r)'
  <1>1. pc[r] = None /\ ~run[r].commit /\ r \notin remote
    BY DEF StartRun, Sound, Honest
  <1>2. /\ run'[r].status = "queued" /\ run'[r].commit = run[r].commit /\ run'[r].pushed = run[r].pushed
        /\ remote' = remote
    BY StartSets DEF IInv, Sets, StartRun
  <1>3. pc'[r] = "begin" /\ work'[r] = work[r]
    BY GoMoves DEF IInv, StartRun, Moves, Places
  <1>4. Ending(r) = None
    BY <1>1 DEF Sound, Honest, None
  <1>5. Tells(r)'
    BY <1>1, <1>2 DEF Sound, Tells, Success
  <1>6. Honest(r)'
    BY <1>1, <1>2, <1>3, <1>4 DEF Honest, Ending, Success, None
  <1> QED BY <1>5, <1>6 DEF Sound

LEMMA SoundExecute ==
    ASSUME IInv, NEW r \in Runs, Sound(r), Execute(r)
    PROVE  Sound(r)'
  <1> USE DEF IInv
  <1>a. Ending(r) = None /\ run[r].status \in {"queued", "running"}
    BY DEF Sound, Honest, Execute, Begin, RunAgent, SaveCommit, Push, Publish, At
  <1>b. \A place \in Places : Go(r, place) => pc'[r] = place /\ work'[r].ending = None
    BY <1>a, GoMoves DEF Moves, Ending
  <1>c. \A e \in Settled : End(r, e) => pc'[r] = "finish" /\ work'[r].ending = e
    BY EndMoves DEF Moves, OnlyEnding, End, Places
  <1>d. {"agent", "save", "push", "publish"} \subseteq Places /\ {"no_changes", "committed", "pushed"} \subseteq Settled
    BY DEF Places, Settled, Success
  <1>1. CASE Begin(r)
    <2>1. /\ run'[r].status = "running" /\ run'[r].commit = run[r].commit /\ run'[r].pushed = run[r].pushed
          /\ run'[r].push = run[r].push /\ remote' = remote
      BY <1>1, StatusSets DEF Begin, Sets
    <2>2. pc[r] = "begin" /\ pc'[r] = "agent" /\ work'[r].ending = None
      BY <1>1, <1>b, <1>d DEF Begin, At
    <2>3. Tells(r)'
      BY <2>1 DEF Sound, Tells, Success
    <2>4. Honest(r)'
      BY <2>1, <2>2 DEF Sound, Honest, Ending, Success, None
    <2> QED BY <2>3, <2>4 DEF Sound
  <1>2. CASE RunAgent(r)
    <2>1. pc[r] = "agent" /\ run' = run /\ remote' = remote
      BY <1>2 DEF RunAgent, At, rows
    <2>2. \/ pc'[r] = "save" /\ work'[r].ending = None
          \/ pc'[r] = "finish" /\ work'[r].ending = "no_changes"
      BY <1>2, <1>b, <1>c, <1>d DEF RunAgent
    <2>3. Tells(r)'
      BY <2>1 DEF Sound, Tells
    <2>4. Honest(r)'
      BY <2>1, <2>2, <1>a DEF Sound, Honest, Ending, Success, Settled, None
    <2> QED BY <2>3, <2>4 DEF Sound
  <1>3. CASE SaveCommit(r)
    <2>1. /\ run'[r].status = run[r].status /\ run'[r].commit = TRUE /\ run'[r].pushed = run[r].pushed
          /\ run'[r].push = run[r].push /\ remote' = remote /\ pc[r] = "save"
      BY <1>3, CommitSets DEF Sets, SaveCommit, At
    <2>2. \/ run[r].push /\ pc'[r] = "push" /\ work'[r].ending = None
          \/ pc'[r] = "finish" /\ work'[r].ending = "committed"
      BY <1>3, <1>b, <1>c, <1>d DEF SaveCommit
    <2>3. r \notin remote
      BY <2>1 DEF Sound, Honest
    <2>4. Tells(r)'
      BY <2>1, <2>3, <1>a DEF Sound, Tells, Success
    <2>5. Honest(r)'
      BY <2>1, <2>2, <2>3, <1>a DEF Sound, Honest, Ending, Success, Settled, None
    <2> QED BY <2>4, <2>5 DEF Sound
  <1>4. CASE Push(r)
    <2>1. pc[r] = "push" /\ run' = run /\ r \in remote' /\ run[r].commit /\ run[r].push
      BY <1>4 DEF Push, At, Sound, Honest
    <2>2. pc'[r] = "publish" /\ work'[r].ending = None
      BY <1>4, <1>b, <1>d DEF Push
    <2>3. Tells(r)'
      BY <2>1, <1>a DEF Sound, Tells
    <2>4. Honest(r)'
      BY <2>1, <2>2, <1>a DEF Sound, Honest, Ending, Success, Settled, None
    <2> QED BY <2>3, <2>4 DEF Sound
  <1>5. CASE Publish(r)
    <2>1. /\ run'[r].status = run[r].status /\ run'[r].commit = run[r].commit /\ run'[r].push = run[r].push
          /\ remote' = remote /\ r \in remote /\ run[r].commit /\ run[r].push
      BY <1>5, PublishSets DEF Sets, Publish, At, Sound, Honest
    <2>2. pc'[r] = "finish" /\ work'[r].ending = "pushed"
      BY <1>5, <1>c, <1>d DEF Publish
    <2>3. Tells(r)'
      BY <2>1, <1>a DEF Tells
    <2>4. Honest(r)'
      BY <2>1, <2>2, <1>a DEF Honest, Ending, Success, Settled, None
    <2> QED BY <2>3, <2>4 DEF Sound
  <1> QED BY <1>1, <1>2, <1>3, <1>4, <1>5 DEF Execute

\* Where a thread goes from _finish, with a row that is neither new nor offered.
LEMMA SoundFinishMoves ==
    ASSUME IInv, NEW r \in Runs, Sound(r), Finish(r) \/ FinishRaises(r), remote' = remote,
           run'[r].commit = run[r].commit, run'[r].status \notin {None, "offered"}
    PROVE  Honest(r)'
  <1> USE DEF IInv
  <1>1. Ending(r) \in Settled
    BY DEF Finish, FinishRaises, At, Knows
  <1>2. \/ pc'[r] \in Concluding \ {"finish"} /\ work'[r].ending = Ending(r)
        \/ pc'[r] = "over" /\ work'[r].ending = None
        \/ pc'[r] = "finish" /\ work'[r].ending = "failed"
    <2>1. CASE Finish(r)
      <3> DEFINE todo == IF Ending(r) = "no_changes" THEN {} ELSE run[r].skills
      <3>1. todo \in SUBSET Skills /\ NextUse(r, todo)
        BY <2>1 DEF Finish, TypeOK, RunRow
      <3> HIDE DEF todo
      <3> QED BY <1>1, <3>1, NextUseMoves DEF Moves, Concluding
    <2>2. CASE FinishRaises(r)
      BY <2>2, FailAgainMoves DEF FinishRaises, Moves, OnlyEnding
    <2> QED BY <2>1, <2>2
  <1>3. /\ Ending(r) \in Success => run[r].commit
        /\ Ending(r) = "pushed" => r \in remote
        /\ Ending(r) = "no_changes" => ~run[r].commit
    BY DEF Sound, Honest
  <1>4. CASE pc'[r] \in Concluding \ {"finish"} /\ work'[r].ending = Ending(r)
    BY <1>1, <1>3, <1>4 DEF Honest, Ending, Concluding, None
  <1>5. CASE pc'[r] \in {"over", "finish"} /\ work'[r].ending \in {None, "failed"} /\ (pc'[r] = "over" <=> work'[r].ending = None)
    BY <1>5 DEF Honest, Ending, Success, Settled, None
  <1> QED BY <1>2, <1>4, <1>5 DEF None

\* _finish writes the ending the thread holds, or fails to.
LEMMA SoundFinish ==
    ASSUME IInv, NEW r \in Runs, Sound(r), Finish(r) \/ FinishRaises(r)
    PROVE  Sound(r)'
  <1> USE DEF IInv
  <1>1. Ending(r) \in Settled /\ pc[r] = "finish" /\ remote' = remote /\ run[r].status \notin {None, "offered"}
    BY DEF Finish, FinishRaises, At, Knows, None
  <1>2. CASE run' = run
    <2>1. Tells(r)'
      BY <1>1, <1>2 DEF Sound, Tells
    <2> QED BY <2>1, <1>1, <1>2, SoundFinishMoves DEF Sound
  <1>3. CASE SetRun(r, [run[r] EXCEPT !.status = Ending(r)])
    <2>1. /\ run'[r].status = Ending(r) /\ run'[r].commit = run[r].commit /\ run'[r].pushed = run[r].pushed
          /\ run'[r].push = run[r].push
      BY <1>1, <1>3, StatusSets DEF Sets
    <2>2. /\ Ending(r) \in Success => run[r].commit
          /\ Ending(r) = "pushed" => r \in remote
          /\ Ending(r) = "no_changes" => ~run[r].commit
      BY DEF Sound, Honest
    <2>3. Tells(r)'
      BY <1>1, <2>1, <2>2 DEF Sound, Tells
    <2>4. run'[r].status \notin {None, "offered"}
      BY <1>1, <2>1 DEF Settled, Success, None
    <2> QED BY <2>1, <2>3, <2>4, <1>1, SoundFinishMoves DEF Sound
  <1> QED BY <1>2, <1>3 DEF Finish, FinishRaises

LEMMA SoundConclude ==
    ASSUME IInv, NEW r \in Runs, Sound(r), Conclude(r) \/ Fails(r), ~Finish(r), ~FinishRaises(r)
    PROVE  Sound(r)'
  <1> USE DEF IInv
  <1>1. run' = run /\ remote' = remote
    BY DEF Conclude, ReadUse, WriteUse, FindClosest, Reinforce, Propose, Label, Return, Fails, BeginRaises, Raises,
           UseFails, DistilFails, LabelFails, ReturnRaises, rows
  <1>2. CASE BeginRaises(r) \/ Return(r)
    <2>1. pc[r] # None
      BY <1>2 DEF BeginRaises, Return, At, None
    <2>2. pc'[r] = "over" /\ work'[r].ending = None
      BY <1>2, OverMoves DEF BeginRaises, Return, Dies, Moves, OnlyEnding
    <2> QED BY <1>1, <2>1, <2>2, SoundKept
  <1>3. CASE Raises(r)
    <2>1. pc[r] # None
      BY <1>3 DEF Raises, None
    <2>2. pc'[r] = "finish" /\ work'[r].ending = "failed"
      BY <1>3, EndMoves DEF Raises, End, Moves, OnlyEnding, Places, Settled
    <2> QED BY <1>1, <2>1, <2>2, SoundKept
  <1>4. CASE ReturnRaises(r)
    <2>1. pc[r] # None
      BY <1>4 DEF ReturnRaises, At, None
    <2>2. \/ pc'[r] = "over" /\ work'[r].ending = None
          \/ pc'[r] = "finish" /\ work'[r].ending = "failed"
      BY <1>4, FailAgainMoves DEF ReturnRaises, Moves, OnlyEnding
    <2> QED BY <1>1, <2>1, <2>2, SoundKept
  <1>5. CASE \/ ReadUse(r) \/ WriteUse(r) \/ UseFails(r) \/ FindClosest(r) \/ Reinforce(r) \/ Propose(r)
             \/ DistilFails(r) \/ Label(r) \/ LabelFails(r)
    <2>1. pc[r] \in Concluding
      BY <1>5 DEF ReadUse, WriteUse, UseFails, FindClosest, Reinforce, Propose, DistilFails, Label, LabelFails, At, Concluding
    <2>2. Ending(r) \in Settled
      BY <2>1 DEF Knows, Concluding
    <2>3. pc'[r] \in Concluding \ {"finish"} /\ work'[r].ending = work[r].ending
      <3>1. CASE ReadUse(r) \/ FindClosest(r)
        BY <3>1, ReadUseMoves, FindClosestMoves DEF Moves, Ending, Concluding
      <3>2. CASE WriteUse(r) \/ UseFails(r)
        <4>1. PICK todo \in SUBSET Skills : NextUse(r, todo)
          BY <3>2 DEF WriteUse, UseFails, TypeOK, Works
        <4> QED BY <2>2, <4>1, NextUseMoves DEF Moves, Ending, Concluding
      <3>3. CASE Reinforce(r) \/ Propose(r) \/ DistilFails(r)
        BY <2>2, <3>3, EndMoves DEF Reinforce, Propose, DistilFails, Moves, OnlyEnding, Ending, Concluding, Places
      <3>4. CASE Label(r) \/ LabelFails(r)
        BY <3>4, GoMoves DEF Label, LabelFails, Moves, Concluding, Places
      <3> QED BY <1>5, <3>1, <3>2, <3>3, <3>4
    <2> QED BY <1>1, <2>1, <2>3, SoundKept
  <1> QED BY <1>2, <1>3, <1>4, <1>5 DEF Conclude, Fails

LEMMA SoundStep ==
    ASSUME IInv, HonestInv, [Next]_vars
    PROVE  HonestInv'
  <1> SUFFICES ASSUME NEW q \in Runs PROVE Sound(q)'
    BY DEF HonestInv
  <1>a. Sound(q)
    BY DEF HonestInv
  <1>1. CASE UNCHANGED vars \/ (\E s \in Skills : Retire(s)) \/ \E c \in Contexts : Report(c)
    BY <1>1, <1>a, SoundKept DEF vars, rows, Retire, Report
  <1>2. CASE Crash
    <2>1. CASE pc[q] = None
      <3>1. work[q].ending = None
        BY <1>a, <2>1 DEF Sound, Honest, Ending, None
      <3> QED BY <1>2, <1>a, <2>1, <3>1, SoundKept DEF Crash, rows, NoWork
    <2>2. CASE pc[q] # None
      BY <1>2, <1>a, <2>2, SoundKept DEF Crash, rows, NoWork
    <2> QED BY <2>1, <2>2
  <1>3. ASSUME NEW r \in Runs, Ask(r)
        PROVE  Sound(q)'
    <2>1. pc' = pc /\ work' = work /\ remote' = remote
      BY <1>3 DEF Ask
    <2>2. CASE q # r
      BY <1>3, <1>a, <2>1, <2>2, AskSets, SoundKept DEF IInv, SameRow
    <2>3. CASE q = r
      <3>1. run[q].status = None /\ pc[q] = None
        BY <1>3, <1>a, <2>3 DEF Ask, Sound, Honest
      <3>2. /\ run'[q].status = "offered" /\ run'[q].commit = run[q].commit /\ run'[q].pushed = run[q].pushed
            /\ run'[q].push = run[q].push
        BY <1>3, <2>3, AskSets DEF IInv
      <3>3. Tells(q)'
        BY <1>a, <2>1, <3>2 DEF Sound, Tells, Success
      <3>4. Honest(q)'
        BY <1>a, <2>1, <3>1, <3>2 DEF Sound, Honest, Ending, Success, Settled, None
      <3> QED BY <3>3, <3>4 DEF Sound
    <2> QED BY <2>2, <2>3
  <1>4. ASSUME NEW r \in Runs, ThreadStep(r), q # r
        PROVE  Sound(q)'
    <2>1. run'[q] = run[q] /\ pc'[q] = pc[q] /\ work'[q] = work[q]
      BY <1>4, OtherRows, OwnStep DEF Own, Moves
    <2>2. q \in remote' <=> q \in remote
      BY <1>4 DEF ThreadStep, StartRun, Execute, Begin, RunAgent, SaveCommit, Push, Publish, Conclude, Finish, ReadUse,
                  WriteUse, FindClosest, Reinforce, Propose, Label, Return, Fails, BeginRaises, Raises, FinishRaises,
                  UseFails, DistilFails, LabelFails, ReturnRaises, rows
    <2> QED BY <1>a, <2>1, <2>2, SoundKept
  <1>5. CASE ThreadStep(q)
    BY <1>5, <1>a, SoundStart, SoundExecute, SoundFinish, SoundConclude DEF ThreadStep, Conclude, Fails
  <1> QED BY <1>1, <1>2, <1>3, <1>4, <1>5 DEF Next, ThreadStep

\* What reached the remote is a commit the run's row knows of, and the row
\* claims no more than was done, however the run fails or is finished twice.
THEOREM RunsTellWhatWasDone == Spec => []StatusIsHonest
  <1>1. Init => HonestInv
    BY DEF Init, HonestInv, Sound, Tells, Honest, Ending, NoWork, Success, Settled, None
  <1>2. IInv /\ HonestInv /\ [Next]_vars => HonestInv'
    BY SoundStep
  <1>3. HonestInv => StatusIsHonest
    BY DEF HonestInv, Sound, Tells, StatusIsHonest
  <1> QED BY <1>1, <1>2, <1>3, RunsInductive, PTL DEF Spec
-----------------------------------------------------------------------------
(***************************************************************************)
(* The label of the served context.                                        *)
(***************************************************************************)
Shows(r) ==
  /\ run[r].status \in Settled
  /\ run[r].context # None => LastBy(r, ledger[run[r].context], OutcomeOf(run[r].status))

\* Once _finish has written the row, the row shows the ending the thread
\* holds; a thread that is past its label has told the ledger that ending.
Labels(r) ==
  /\ pc[r] \in {"use", "count", "distil", "teach", "label", "return"} => run[r].status = Ending(r)
  /\ pc[r] = "return" /\ r \notin unlabelled => Shows(r)
  /\ pc[r] = "over" /\ crashes = 0 /\ r \notin unlabelled \union unheard => Shows(r)
LabelInv == \A r \in Runs : Labels(r)

\* The label that was just appended is the last of whoever gave it, and
\* leaves the last label of everybody else in place.
LEMMA AppendedIsLast ==
    ASSUME NEW labels \in Seq(Labelling), NEW r \in Runs \union {Person}, NEW outcome \in Outcomes
    PROVE  LastBy(r, Append(labels, Entry(r, outcome)), outcome)
  <1> DEFINE e == Entry(r, outcome)
             more == Append(labels, e)
  <1>1. e \in Labelling
    BY EntryIs
  <1>2. Len(labels) \in Nat /\ Len(more) = Len(labels) + 1 /\ more[Len(labels) + 1] = e
        /\ DOMAIN more = 1..(Len(labels) + 1)
    BY <1>1
  <1> HIDE DEF more
  <1>3. Len(labels) + 1 \in DOMAIN more /\ \A j \in DOMAIN more : j <= Len(labels) + 1
    BY <1>2
  <1>4. LastBy(r, more, outcome)
    BY <1>2, <1>3 DEF LastBy
  <1> QED BY <1>4 DEF more

LEMMA OthersStayLast ==
    ASSUME NEW labels \in Seq(Labelling), NEW e \in Labelling, NEW q, e.by # q, NEW outcome,
           LastBy(q, labels, outcome)
    PROVE  LastBy(q, Append(labels, e), outcome)
  <1> DEFINE more == Append(labels, e)
  <1>1. /\ Len(labels) \in Nat /\ DOMAIN labels = 1..Len(labels) /\ DOMAIN more = 1..(Len(labels) + 1)
        /\ more[Len(labels) + 1] = e
        /\ \A j \in DOMAIN labels : more[j] = labels[j]
    OBVIOUS
  <1> HIDE DEF more
  <1>2. PICK i \in DOMAIN labels :
          labels[i] = Entry(q, outcome) /\ \A j \in DOMAIN labels : labels[j].by = q => j <= i
    BY DEF LastBy
  <1>3. i \in DOMAIN more /\ more[i] = Entry(q, outcome)
    BY <1>1, <1>2
  <1>4. ASSUME NEW j \in DOMAIN more, more[j].by = q
        PROVE  j <= i
    <2>1. j \in DOMAIN labels /\ labels[j].by = q
      BY <1>1, <1>4
    <2> QED BY <1>2, <2>1
  <1>5. LastBy(q, more, outcome)
    BY <1>3, <1>4 DEF LastBy
  <1> QED BY <1>5 DEF more

\* The labels of a context after a step: as they were, or one more that is
\* not by this run.
LabelledByOthers(q) ==
  \A c \in Contexts :
    ledger'[c] = ledger[c] \/ \E e \in Labelling : e.by # q /\ ledger'[c] = Append(ledger[c], e)

\* Who keeps its row, its labels, its place and its ending keeps this.
LEMMA LabelsKept ==
    ASSUME IInv, NEW q \in Runs, Labels(q), run'[q] = run[q], LabelledByOthers(q), pc'[q] = pc[q],
           work'[q].ending = work[q].ending, crashes' = 0 => crashes = 0,
           unlabelled \subseteq unlabelled', unheard \subseteq unheard'
    PROVE  Labels(q)'
  <1>1. Shows(q) => Shows(q)'
    <2> DEFINE c == run[q].context
               o == OutcomeOf(run[q].status)
    <2>1. c \in Contexts \union {None} /\ \A d \in Contexts : ledger[d] \in Seq(Labelling)
      BY DEF IInv, TypeOK, RunRow, Labelling
    <2>2. ASSUME c \in Contexts, LastBy(q, ledger[c], o)
          PROVE  LastBy(q, ledger'[c], o)
      <3>1. CASE ledger'[c] = ledger[c]
        BY <2>2, <3>1
      <3>2. ASSUME NEW e \in Labelling, e.by # q, ledger'[c] = Append(ledger[c], e)
            PROVE  LastBy(q, ledger'[c], o)
        <4> HIDE DEF c, o
        <4> QED BY <2>1, <2>2, <3>2, OthersStayLast
      <3> QED BY <2>2, <3>1, <3>2 DEF LabelledByOthers
    <2> QED BY <2>1, <2>2 DEF Shows
  <1> QED BY <1>1 DEF Labels, Ending

\* A run's labels are written by its own thread only, and no step but a
\* crash counts one; what was missed stays on record.
LEMMA LedgerOfOthers ==
    ASSUME IInv, NEW r \in Runs, ThreadStep(r)
    PROVE  /\ \A q \in Runs \ {r} : LabelledByOthers(q)
           /\ ~Label(r) => ledger' = ledger
           /\ crashes' = crashes /\ unlabelled \subseteq unlabelled' /\ unheard \subseteq unheard'
  <1> USE DEF rows, history, Faultless, Fault
  <1>1. CASE StartRun(r) \/ Execute(r)
    BY <1>1 DEF StartRun, Execute, Begin, RunAgent, SaveCommit, Push, Publish, LabelledByOthers
  <1>2. CASE Conclude(r) /\ ~Label(r)
    BY <1>2 DEF Conclude, Finish, ReadUse, WriteUse, FindClosest, Reinforce, Propose, Return, LabelledByOthers
  <1>3. CASE Label(r)
    <2>1. \A q \in Runs \ {r} : LabelledByOthers(q)
      <3> DEFINE c == run[r].context
                 e == Entry(r, OutcomeOf(Ending(r)))
      <3>1. CASE c = None /\ ledger' = ledger
        BY <3>1 DEF LabelledByOthers
      <3>2. CASE c \in Contexts /\ e \in Labelling /\ Recorded(c, e)
        <4>1. e.by = r
          BY OutcomeIs, EntryIs
        <4>2. ledger'[c] = Append(ledger[c], e) /\ \A d \in Contexts \ {c} : ledger'[d] = ledger[d]
          <5> HIDE DEF c, e
          <5> QED BY <3>2, RecordedIs DEF IInv
        <4> HIDE DEF c, e
        <4> QED BY <3>2, <4>1, <4>2 DEF LabelledByOthers
      <3> QED BY <1>3, <3>1, <3>2, LabelRecords DEF IInv
    <2> QED BY <1>3, <2>1 DEF Label
  <1>4. CASE Fails(r)
    BY <1>4 DEF Fails, BeginRaises, Raises, FinishRaises, UseFails, DistilFails, LabelFails, ReturnRaises, FailAgain, Dies,
                LabelledByOthers
  <1> QED BY <1>1, <1>2, <1>3, <1>4 DEF ThreadStep

\* A handler that raises as well ends the thread unheard, or runs again.
LEMMA FailAgainLabels ==
    ASSUME IInv, NEW r \in Runs, FailAgain(r)
    PROVE  Labels(r)'
  <1>1. CASE Ending(r) = "failed"
    <2>1. pc'[r] = "over" /\ r \in unheard'
      BY <1>1, OverMoves DEF FailAgain, Dies, Moves, IInv
    <2> QED BY <2>1 DEF Labels
  <1>2. CASE Ending(r) # "failed"
    <2>1. pc'[r] = "finish"
      BY <1>2, EndMoves DEF FailAgain, End, Moves, IInv, Places, Settled
    <2> QED BY <2>1 DEF Labels
  <1> QED BY <1>1, <1>2

LEMMA LabelLabels ==
    ASSUME IInv, NEW r \in Runs, Labels(r), Label(r)
    PROVE  Labels(r)'
  <1> DEFINE o == OutcomeOf(Ending(r))
             c == run[r].context
  <1>1. run' = run
    BY DEF Label
  <1>2. pc'[r] = "return" /\ work'[r] = work[r]
    BY GoMoves DEF Label, IInv, Moves, Places
  <1>3. run[r].status = Ending(r) /\ run[r].status \in Settled
    BY DEF Labels, Label, At, IInv, Knows
  <1>4. c # None => LastBy(r, ledger'[c], o)
    <2>1. o \in Outcomes /\ \A d \in Contexts : ledger[d] \in Seq(Labelling)
      BY OutcomeIs DEF IInv, TypeOK, Labelling
    <2>2. c # None => c \in Contexts /\ ledger'[c] = Append(ledger[c], Entry(r, o))
      <3>1. ASSUME c \in Contexts, Entry(r, o) \in Labelling, Recorded(c, Entry(r, o))
            PROVE  ledger'[c] = Append(ledger[c], Entry(r, o))
        <4> HIDE DEF c, o
        <4> QED BY <3>1, RecordedIs DEF IInv
      <3> QED BY <3>1, LabelRecords DEF IInv
    <2> HIDE DEF c, o
    <2> QED BY <2>1, <2>2, AppendedIsLast
  <1>5. Shows(r)'
    BY <1>1, <1>3, <1>4 DEF Shows
  <1> QED BY <1>1, <1>2, <1>3, <1>5 DEF Labels, Ending

\* The thread's own step.
LEMMA LabelsOwn ==
    ASSUME IInv, NEW r \in Runs, Labels(r), ThreadStep(r)
    PROVE  Labels(r)'
  <1> USE DEF IInv
  <1>1. CASE StartRun(r) \/ Execute(r)
    <2>1. pc'[r] \in {"begin", "agent", "save", "push", "publish", "finish"}
      BY <1>1, GoMoves, EndMoves
      DEF StartRun, Execute, Begin, RunAgent, SaveCommit, Push, Publish, Moves, End, Places, Settled, Success
    <2> QED BY <2>1 DEF Labels
  <1>2. CASE Finish(r)
    <2>1. Ending(r) \in Settled /\ run'[r].status = Ending(r)
      <3>1. Ending(r) \in Settled
        BY <1>2 DEF Knows, Finish, At
      <3> QED BY <1>2, <3>1, StatusSets DEF Finish, Sets
    <2> DEFINE todo == IF Ending(r) = "no_changes" THEN {} ELSE run[r].skills
    <2>2. todo \in SUBSET Skills /\ NextUse(r, todo)
      BY <1>2 DEF Finish, TypeOK, RunRow
    <2> HIDE DEF todo
    <2>3. work'[r].ending = Ending(r) /\ pc'[r] \in {"use", "label", "distil"}
      BY <2>1, <2>2, NextUseMoves DEF Moves
    <2> QED BY <2>1, <2>3 DEF Labels, Ending
  <1>3. CASE FinishRaises(r) \/ ReturnRaises(r)
    BY <1>3, FailAgainLabels DEF FinishRaises, ReturnRaises
  <1>4. CASE BeginRaises(r)
    <2>1. pc'[r] = "over" /\ r \in unheard'
      BY <1>4, OverMoves DEF BeginRaises, Dies, Moves
    <2> QED BY <2>1 DEF Labels
  <1>5. CASE Raises(r)
    <2>1. pc'[r] = "finish"
      BY <1>5, EndMoves DEF Raises, End, Moves, Places, Settled
    <2> QED BY <2>1 DEF Labels
  <1>6. CASE Label(r)
    BY <1>6, LabelLabels
  <1>7. CASE LabelFails(r)
    <2>1. /\ pc'[r] = "return" /\ work'[r] = work[r] /\ r \in unlabelled' /\ run' = run
          /\ run[r].status = Ending(r)
      BY <1>7, GoMoves DEF LabelFails, Moves, Places, rows, Labels, At
    <2> QED BY <2>1 DEF Labels, Ending
  <1>8. CASE Return(r)
    <2>1. /\ pc[r] = "return" /\ pc'[r] = "over" /\ run' = run /\ ledger' = ledger
          /\ unlabelled' = unlabelled
      BY <1>8, OverMoves DEF Return, At, Moves, rows, history
    <2> QED BY <2>1 DEF Labels, Shows
  <1>9. CASE \/ ReadUse(r) \/ WriteUse(r) \/ UseFails(r) \/ FindClosest(r) \/ Reinforce(r) \/ Propose(r)
             \/ DistilFails(r)
    <2>1. pc[r] \in {"use", "count", "distil", "teach"} /\ run' = run
      BY <1>9 DEF ReadUse, WriteUse, UseFails, FindClosest, Reinforce, Propose, DistilFails, At, rows
    <2>2. Ending(r) \in Settled /\ run[r].status = Ending(r)
      BY <2>1 DEF Knows, Labels
    <2>3. pc'[r] \in {"use", "count", "distil", "teach", "label"} /\ work'[r].ending = Ending(r)
      <3>1. CASE ReadUse(r) \/ FindClosest(r)
        BY <3>1, ReadUseMoves, FindClosestMoves DEF Moves
      <3>2. CASE WriteUse(r) \/ UseFails(r)
        <4>1. PICK todo \in SUBSET Skills : NextUse(r, todo)
          BY <3>2 DEF WriteUse, UseFails, TypeOK, Works
        <4> QED BY <2>2, <4>1, NextUseMoves DEF Moves
      <3>3. CASE Reinforce(r) \/ Propose(r) \/ DistilFails(r)
        BY <2>2, <3>3, EndMoves DEF Reinforce, Propose, DistilFails, Moves, OnlyEnding, Places
      <3> QED BY <1>9, <3>1, <3>2, <3>3
    <2> QED BY <2>1, <2>2, <2>3 DEF Labels, Ending
  <1> QED BY <1>1, <1>2, <1>3, <1>4, <1>5, <1>6, <1>7, <1>8, <1>9 DEF ThreadStep, Conclude, Fails

LEMMA LabelsStep ==
    ASSUME IInv, LabelInv, [Next]_vars
    PROVE  LabelInv'
  <1> SUFFICES ASSUME NEW q \in Runs PROVE Labels(q)'
    BY DEF LabelInv
  <1>a. Labels(q)
    BY DEF LabelInv
  <1>1. CASE UNCHANGED vars \/ \E s \in Skills : Retire(s)
    BY <1>1, <1>a, LabelsKept DEF vars, rows, history, Retire, Faultless, LabelledByOthers
  <1>2. CASE Crash
    <2>1. pc'[q] \in {None, "over"} /\ crashes' # 0
      BY <1>2, <1>a DEF Crash, IInv, TypeOK
    <2> QED BY <2>1 DEF Labels, None
  <1>3. ASSUME NEW r \in Runs, Ask(r)
        PROVE  Labels(q)'
    <2>1. UNCHANGED <<pc, work, ledger, unlabelled, unheard, crashes>>
      BY <1>3 DEF Ask, history, Faultless
    <2>2. CASE q # r
      BY <1>3, <1>a, <2>1, <2>2, AskSets, LabelsKept DEF IInv, SameRow, LabelledByOthers
    <2>3. CASE q = r
      <3>1. pc'[q] = None
        BY <1>3, <1>a, <2>1, <2>3 DEF Ask, IInv, Knows
      <3> QED BY <3>1 DEF Labels, None
    <2> QED BY <2>2, <2>3
  <1>4. ASSUME NEW r \in Runs, ThreadStep(r), q # r
        PROVE  Labels(q)'
    BY <1>4, <1>a, OtherRows, OwnStep, LedgerOfOthers, LabelsKept DEF Own, Moves
  <1>5. CASE ThreadStep(q)
    BY <1>5, <1>a, LabelsOwn
  <1>6. ASSUME NEW c \in Contexts, Report(c)
        PROVE  Labels(q)'
    <2>1. PICK outcome \in Outcomes :
            Entry(Person, outcome) \in Labelling /\ Recorded(c, Entry(Person, outcome))
      BY <1>6, ReportRecords
    <2> DEFINE e == Entry(Person, outcome)
    <2>2. e.by # q
      BY EntryIs, ExecutionAssumption
    <2>3. ledger'[c] = Append(ledger[c], e) /\ \A d \in Contexts \ {c} : ledger'[d] = ledger[d]
      BY <2>1, RecordedIs DEF IInv
    <2>4. LabelledByOthers(q)
      <3> HIDE DEF e
      <3> QED BY <2>1, <2>2, <2>3 DEF LabelledByOthers, e
    <2> QED BY <1>6, <1>a, <2>4, LabelsKept DEF Report, history
  <1> QED BY <1>1, <1>2, <1>3, <1>4, <1>5, <1>6 DEF Next, ThreadStep

\* What a run told the ledger last of the context it named is the outcome
\* of the status it shows, however often the run was finished, whatever
\* failed before that, and whoever else labelled the context.
THEOREM RunsLabelTheirContext == Spec => []LabelsAgree
  <1>1. Init => LabelInv
    BY DEF Init, LabelInv, Labels, None
  <1>2. IInv /\ LabelInv /\ [Next]_vars => LabelInv'
    BY LabelsStep
  <1>3. LabelInv => LabelsAgree
    BY DEF LabelInv, Labels, Shows, LabelsAgree
  <1> QED BY <1>1, <1>2, <1>3, RunsInductive, PTL DEF Spec
-----------------------------------------------------------------------------
(***************************************************************************)
(* The library, as long as no two threads hold its rows at once.           *)
(***************************************************************************)
Live(s) == library[s].status \notin {"free", "retired"}
Pruned == \A s \in Skills : library[s].failures > library[s].successes => library[s].status = "retired"
OnePerTask == \A s, t \in Skills : Live(s) /\ Live(t) /\ library[s].trigger = library[t].trigger => s = t

\* One thread at a time holds a row, and what it holds is still on file.
Held(r) == pc[r] \in {"count", "teach"}
Alone == \A q, r \in Runs : Held(q) /\ Held(r) => q = r
Fresh(r) ==
  /\ pc[r] = "count" => work[r].row = library[work[r].skill]
  /\ pc[r] = "teach" => IF work[r].skill = None THEN Closest(run[r].task) = {}
                         ELSE work[r].row = library[work[r].skill]
SelectInv == ~overlap => Pruned /\ OnePerTask /\ Alone /\ \A r \in Runs : Fresh(r)

\* What the runs that ended before must have left: nothing to prune, and no
\* two skills for the same work.  A library that is empty is of this kind.
SelectiveStart ==
  /\ \A s \in Skills : Learned[s].failures > Learned[s].successes => Learned[s].status = "retired"
  /\ \A s, t \in Skills :
       /\ Learned[s].status \notin {"free", "retired"} /\ Learned[t].status \notin {"free", "retired"}
       /\ Learned[s].trigger = Learned[t].trigger
       => s = t

\* A count retires what fails more often than it works, and revives nothing.
LEMMA CountedPrunes ==
    ASSUME NEW row \in SkillRow, NEW succeeded \in BOOLEAN
    PROVE  LET new == Counted(row, succeeded)
           IN  /\ new \in SkillRow /\ new.trigger = row.trigger
               /\ new.failures > new.successes => new.status = "retired"
               /\ row.status = "retired" => new.status = "retired"
  <1> DEFINE wins == IF succeeded THEN row.successes + 1 ELSE row.successes
             losses == IF succeeded THEN row.failures ELSE row.failures + 1
             next == [row EXCEPT !.successes = wins, !.failures = losses]
  <1>1. wins \in Nat /\ losses \in Nat
    BY DEF SkillRow
  <1> HIDE DEF wins, losses
  <1>2. next \in SkillRow /\ next.trigger = row.trigger /\ next.status = row.status
    BY <1>1 DEF SkillRow
  <1> DEFINE st == IF next.failures > next.successes THEN "retired"
                   ELSE IF next.successes >= Trusted /\ next.status = "proposed" THEN "active" ELSE next.status
  <1>3. Counted(row, succeeded) = Judged(next)
    BY DEF Counted, wins, losses
  <1> HIDE DEF next
  <1>4. Judged(next) = [next EXCEPT !.status = st]
    BY DEF Judged
  <1>5. st \in {"free", "proposed", "active", "retired"}
    BY <1>2 DEF SkillRow
  <1>6. next.failures > next.successes => st = "retired"
    OBVIOUS
  <1>7. next.status = "retired" => st = "retired"
    OBVIOUS
  <1> HIDE DEF st
  <1>8. [next EXCEPT !.status = st] \in SkillRow
    BY <1>2, <1>5 DEF SkillRow
  <1>9. LET new == [next EXCEPT !.status = st]
        IN  new.trigger = next.trigger /\ new.status = st /\ new.failures = next.failures
            /\ new.successes = next.successes
    BY <1>2 DEF SkillRow
  <1> QED BY <1>2, <1>3, <1>4, <1>6, <1>7, <1>8, <1>9

\* One row is written: it is pruned, keeps its trigger and was live before
\* if it is now.
LEMMA OneWritten ==
    ASSUME TypeOK, Pruned, OnePerTask, NEW s \in Skills, NEW row \in SkillRow, Writes(s, row),
           row.failures > row.successes => row.status = "retired",
           row.status \notin {"free", "retired"} =>
             \/ Live(s) /\ row.trigger = library[s].trigger
             \/ Closest(row.trigger) = {}
    PROVE  Pruned' /\ OnePerTask'
  <1>1. library'[s] = row /\ \A t \in Skills \ {s} : library'[t] = library[t]
    BY DEF Writes, TypeOK
  <1>2. Pruned'
    BY <1>1 DEF Pruned
  <1>3. ASSUME NEW t \in Skills \ {s}, library[t].status \notin {"free", "retired"},
               row.status \notin {"free", "retired"}
        PROVE  library[t].trigger # row.trigger
    BY <1>3 DEF OnePerTask, Live, Closest
  <1>4. OnePerTask'
    <2> SUFFICES ASSUME NEW a \in Skills, NEW b \in Skills,
                        library'[a].status \notin {"free", "retired"},
                        library'[b].status \notin {"free", "retired"},
                        library'[a].trigger = library'[b].trigger, a # b
                 PROVE  FALSE
      BY DEF OnePerTask, Live
    <2>1. CASE a = s
      BY <2>1, <1>1, <1>3
    <2>2. CASE b = s
      BY <2>2, <1>1, <1>3
    <2>3. CASE a # s /\ b # s
      BY <2>3, <1>1 DEF OnePerTask, Live
    <2> QED BY <2>1, <2>2, <2>3
  <1> QED BY <1>2, <1>4

\* Without a match there is no closest skill.
LEMMA NoneFound ==
    ASSUME IInv, NEW r \in Runs, FindClosest(r), work'[r].skill = None
    PROVE  Closest(run[r].task) = {}
  <1>1. PICK s \in IF Closest(run[r].task) = {} THEN {None} ELSE Closest(run[r].task) :
          Step(r, "teach", [work[r] EXCEPT !.skill = s, !.row = IF s = None THEN FreeRow ELSE library[s]])
    BY DEF FindClosest
  <1> DEFINE row == IF s = None THEN FreeRow ELSE library[s]
  <1>2. work[r] \in Works /\ work \in [Runs -> Works]
    BY DEF IInv, TypeOK
  <1>3. work'[r] = [work[r] EXCEPT !.skill = s, !.row = row]
    BY <1>1, <1>2 DEF Step
  <1> HIDE DEF row
  <1>4. work'[r].skill = s
    BY <1>2, <1>3 DEF Works
  <1>5. None \notin Closest(run[r].task)
    BY ExecutionAssumption DEF Closest
  <1> QED BY <1>1, <1>4, <1>5

\* Only two steps take a row into a thread's hands.
LEMMA HolderMoves ==
    ASSUME IInv, NEW r \in Runs, ThreadStep(r), ~ReadUse(r), ~FindClosest(r)
    PROVE  pc'[r] \notin {"count", "teach"}
  <1> USE DEF IInv
  <1>1. CASE StartRun(r) \/ Execute(r)
    BY <1>1, GoMoves, EndMoves
    DEF StartRun, Execute, Begin, RunAgent, SaveCommit, Push, Publish, Moves, End, Places, Settled, Success
  <1>2. CASE Finish(r)
    <2>1. Ending(r) \in Settled
      BY <1>2 DEF Knows, Finish, At
    <2> DEFINE todo == IF Ending(r) = "no_changes" THEN {} ELSE run[r].skills
    <2>2. todo \in SUBSET Skills /\ NextUse(r, todo)
      BY <1>2 DEF Finish, TypeOK, RunRow
    <2> HIDE DEF todo
    <2> QED BY <2>1, <2>2, NextUseMoves DEF Moves
  <1>3. CASE FinishRaises(r) \/ ReturnRaises(r)
    BY <1>3, FailAgainMoves DEF FinishRaises, ReturnRaises, Moves
  <1>4. CASE BeginRaises(r) \/ Return(r)
    BY <1>4, OverMoves DEF BeginRaises, Return, Dies, Moves
  <1>5. CASE Raises(r)
    BY <1>5, EndMoves DEF Raises, End, Moves, Places, Settled
  <1>6. CASE Label(r) \/ LabelFails(r)
    BY <1>6, GoMoves DEF Label, LabelFails, Moves, Places
  <1>7. CASE WriteUse(r) \/ UseFails(r) \/ Reinforce(r) \/ Propose(r) \/ DistilFails(r)
    <2>1. Ending(r) \in Settled
      BY <1>7 DEF Knows, WriteUse, UseFails, Reinforce, Propose, DistilFails, At
    <2>2. CASE WriteUse(r) \/ UseFails(r)
      <3>1. PICK todo \in SUBSET Skills : NextUse(r, todo)
        BY <2>2 DEF WriteUse, UseFails, TypeOK, Works
      <3> QED BY <2>1, <3>1, NextUseMoves DEF Moves
    <2>3. CASE Reinforce(r) \/ Propose(r) \/ DistilFails(r)
      BY <2>1, <2>3, EndMoves DEF Reinforce, Propose, DistilFails, Moves, Places
    <2> QED BY <1>7, <2>2, <2>3
  <1> QED BY <1>1, <1>2, <1>3, <1>4, <1>5, <1>6, <1>7 DEF ThreadStep, Conclude, Fails

\* That two threads held rows at once is never forgotten.
LEMMA OverlapStays ==
    ASSUME IInv, [Next]_vars
    PROVE  overlap => overlap'
  <1> USE DEF rows, history
  <1>1. ASSUME NEW r \in Runs, ThreadStep(r) PROVE overlap => overlap'
    BY <1>1 DEF ThreadStep, StartRun, Execute, Begin, RunAgent, SaveCommit, Push, Publish, Conclude, Finish, ReadUse,
                WriteUse, FindClosest, Reinforce, Propose, Label, Return, Fails, BeginRaises, Raises, FinishRaises,
                UseFails, DistilFails, LabelFails, ReturnRaises, Overlapping
  <1>2. CASE \/ UNCHANGED vars \/ Crash \/ (\E s \in Skills : Retire(s)) \/ (\E r \in Runs : Ask(r))
             \/ \E c \in Contexts : Report(c)
    BY <1>2 DEF vars, Crash, Retire, Ask, Report
  <1> QED BY <1>1, <1>2 DEF Next, ThreadStep

\* What the thread that holds a row writes of it.
LEMMA TeachingSelects ==
    ASSUME IInv, NEW r \in Runs, Pruned, OnePerTask, Fresh(r), Teaching(r)
    PROVE  Pruned' /\ OnePerTask'
  <1> USE DEF IInv
  <1>1. CASE WriteUse(r)
    <2> DEFINE s == work[r].skill
               succeeded == Ending(r) \in Success
               row == Counted(work[r].row, succeeded)
    <2>1. /\ s \in Skills /\ work[r].row = library[s] /\ library[s] \in SkillRow
          /\ library[s].status \in {"active", "retired"}
      BY <1>1 DEF Knows, WriteUse, At, TypeOK, RunRow, Works, Fresh
    <2>2. succeeded \in BOOLEAN
      OBVIOUS
    <2> HIDE DEF succeeded
    <2>3. /\ row \in SkillRow /\ row.trigger = library[s].trigger
          /\ row.failures > row.successes => row.status = "retired"
          /\ library[s].status = "retired" => row.status = "retired"
      BY <2>1, <2>2, CountedPrunes
    <2>4. Writes(s, row)
      BY <1>1 DEF WriteUse, Writes, succeeded
    <2> HIDE DEF row, s
    <2>5. row.status \notin {"free", "retired"} => Live(s) /\ row.trigger = library[s].trigger
      BY <2>1, <2>3 DEF Live
    <2> QED BY <2>1, <2>3, <2>4, <2>5, OneWritten
  <1>2. CASE Reinforce(r)
    <2> DEFINE s == work[r].skill
               now == library[s]
               row == Reinforced(now, now)
    <2>1. s \in Skills /\ work[r].row = library[s] /\ now \in SkillRow
      BY <1>2 DEF TypeOK, Works, Reinforce, Fresh, At
    <2>2. (now.status = "proposed" /\ now.successes = 1) \/ now.status = "active"
      BY <1>2, <2>1 DEF Knows, Reinforce, At
    <2>3. Live(s) /\ ~(now.failures > now.successes)
      BY <2>1, <2>2 DEF Live, Pruned
    <2>4. Writes(s, row)
      BY <1>2, <2>1 DEF Reinforce, Writes
    <2> HIDE DEF now
    <2>5. row \in SkillRow
      BY <2>1, <2>2, ReinforcedIs
    <2>6. row.trigger = now.trigger /\ row.failures = now.failures /\ row.successes = now.successes + 1
      BY <2>1 DEF Reinforced, SkillRow
    <2>7. ~(row.failures > row.successes)
      <3>1. now.failures \in Nat /\ now.successes \in Nat
        BY <2>1 DEF SkillRow
      <3> HIDE DEF row
      <3> QED BY <3>1, <2>3, <2>6
    <2> HIDE DEF row, s
    <2>8. row.trigger = library[s].trigger
      BY <2>6 DEF now
    <2> QED BY <2>1, <2>3, <2>4, <2>5, <2>7, <2>8, OneWritten
  <1>3. CASE Propose(r)
    <2> DEFINE s == CHOOSE q \in Free : TRUE
               row == NewSkill(run[r].task)
    <2>1. s \in Free
      BY <1>3 DEF Propose
    <2>2. s \in Skills
      BY <2>1 DEF Free
    <2>3. row \in SkillRow /\ row.trigger = run[r].task /\ ~(row.failures > row.successes)
      BY DEF NewSkill, SkillRow, TypeOK, RunRow
    <2>4. Writes(s, row) /\ Closest(run[r].task) = {}
      BY <1>3 DEF Propose, Writes, Fresh, At
    <2> HIDE DEF s, row
    <2> QED BY <2>2, <2>3, <2>4, OneWritten
  <1> QED BY <1>1, <1>2, <1>3 DEF Teaching

\* A thread that starts to hold a row holds it alone, as it is on file.
LEMMA TakesFresh ==
    ASSUME IInv, NEW r \in Runs, ReadUse(r) \/ FindClosest(r), ~overlap'
    PROVE  Alone' /\ \A q \in Runs : Fresh(q)'
  <1> USE DEF IInv
  <1>1. Holding \ {r} = {} /\ run' = run /\ library' = library
    BY DEF ReadUse, FindClosest, Overlapping, rows
  <1>2. \A q \in Runs \ {r} : pc'[q] = pc[q] /\ pc[q] \notin {"count", "teach"}
    <2>1. Own(r)
      BY OwnStep DEF ThreadStep, Conclude
    <2> QED BY <1>1, <2>1 DEF Own, Moves, Holding
  <1>3. Alone'
    BY <1>2 DEF Alone, Held
  <1>4. Closest(run[r].task)' = Closest(run[r].task)
    BY <1>1 DEF Closest
  <1>5. Fresh(r)'
    <2>1. CASE ReadUse(r)
      <3>1. pc'[r] = "count" /\ work'[r].row = library'[work'[r].skill]
        BY <1>1, <2>1, ReadUseMoves DEF Moves
      <3> QED BY <3>1 DEF Fresh
    <2>2. CASE FindClosest(r)
      <3>1. pc'[r] = "teach" /\ (work'[r].skill # None => work'[r].row = library'[work'[r].skill])
        BY <1>1, <2>2, FindClosestMoves DEF Moves
      <3>2. work'[r].skill = None => Closest(run[r].task)' = {}
        BY <2>2, <1>4, NoneFound
      <3> QED BY <3>1, <3>2 DEF Fresh
    <2> QED BY <2>1, <2>2
  <1>6. \A q \in Runs : Fresh(q)'
    BY <1>2, <1>5 DEF Fresh
  <1> QED BY <1>3, <1>6

LEMMA SelectStep ==
    ASSUME IInv, SelectInv, [Next]_vars
    PROVE  SelectInv'
  <1> SUFFICES ASSUME ~overlap' PROVE Pruned' /\ OnePerTask' /\ Alone' /\ \A q \in Runs : Fresh(q)'
    BY DEF SelectInv
  <1>a. Pruned /\ OnePerTask /\ Alone /\ \A r \in Runs : Fresh(r)
    BY OverlapStays DEF SelectInv
  <1> USE DEF rows, history
  <1>k. library' = library => Pruned' /\ OnePerTask'
    BY <1>a DEF Pruned, OnePerTask, Live
  <1>1. CASE UNCHANGED vars
    BY <1>1, <1>a DEF vars, Pruned, OnePerTask, Live, Alone, Held, Fresh, Closest
  <1>2. CASE Crash
    <2>1. library' = library /\ \A q \in Runs : pc'[q] \in {None, "over"}
      BY <1>2 DEF Crash
    <2> QED BY <2>1, <1>k DEF Alone, Held, Fresh, None
  <1>3. ASSUME NEW r \in Runs, Ask(r)
        PROVE  Pruned' /\ OnePerTask' /\ Alone' /\ \A q \in Runs : Fresh(q)'
    <2>1. library' = library /\ pc' = pc /\ work' = work /\ pc[r] = None
      BY <1>3 DEF Ask, IInv, Knows
    <2>2. \A q \in Runs \ {r} : run'[q] = run[q]
      BY <1>3, AskSets DEF IInv, SameRow
    <2>3. Alone'
      BY <2>1, <1>a DEF Alone, Held
    <2>4. \A q \in Runs : Fresh(q)'
      BY <2>1, <2>2, <1>a DEF Fresh, Closest, None
    <2> QED BY <2>1, <2>3, <2>4, <1>k
  <1>4. ASSUME NEW s \in Skills, Retire(s)
        PROVE  Pruned' /\ OnePerTask' /\ Alone' /\ \A q \in Runs : Fresh(q)'
    <2>1. Holding = {} /\ pc' = pc
      BY <1>4 DEF Retire
    <2>2. \A q \in Runs : pc'[q] \notin {"count", "teach"}
      BY <2>1 DEF Holding
    <2>3. Alone' /\ \A q \in Runs : Fresh(q)'
      BY <2>2 DEF Alone, Held, Fresh
    <2>4. PICK row \in SkillRow : Writes(s, row) /\ row.status = "retired"
      BY <1>4, RetireWrites DEF IInv
    <2>5. Pruned' /\ OnePerTask'
      BY <2>4, <1>a, OneWritten DEF IInv
    <2> QED BY <2>3, <2>5
  <1>5. ASSUME NEW r \in Runs, ReadUse(r) \/ FindClosest(r)
        PROVE  Pruned' /\ OnePerTask' /\ Alone' /\ \A q \in Runs : Fresh(q)'
    BY <1>5, <1>k, TakesFresh DEF ReadUse, FindClosest
  <1>6. ASSUME NEW r \in Runs, ThreadStep(r), ~ReadUse(r), ~FindClosest(r)
        PROVE  Pruned' /\ OnePerTask' /\ Alone' /\ \A q \in Runs : Fresh(q)'
    <2>1. pc'[r] \notin {"count", "teach"}
      BY <1>6, HolderMoves
    <2>2. \A q \in Runs \ {r} : pc'[q] = pc[q] /\ work'[q] = work[q] /\ run'[q] = run[q]
      BY <1>6, OwnStep, OtherRows DEF Own, Moves
    <2>3. Alone'
      BY <2>1, <2>2, <1>a DEF Alone, Held
    <2>4. CASE library' = library
      <3>1. \A q \in Runs : Fresh(q)'
        BY <2>1, <2>2, <2>4, <1>a DEF Fresh, Closest
      <3> QED BY <2>3, <2>4, <3>1, <1>k
    <2>5. CASE Teaching(r)
      <3>1. Pruned' /\ OnePerTask'
        BY <2>5, <1>a, TeachingSelects
      <3>2. Held(r)
        BY <2>5 DEF Teaching, WriteUse, Reinforce, Propose, At, Held
      <3>3. \A q \in Runs : pc'[q] \notin {"count", "teach"}
        BY <2>1, <2>2, <3>2, <1>a DEF Alone, Held
      <3> QED BY <2>3, <3>1, <3>3 DEF Fresh
    <2>6. Teaching(r) \/ library' = library
      BY <1>6 DEF ThreadStep, StartRun, Execute, Begin, RunAgent, SaveCommit, Push, Publish, Conclude, Finish, Label,
                  Return, Fails, BeginRaises, Raises, FinishRaises, UseFails, DistilFails, LabelFails, ReturnRaises,
                  Teaching
    <2> QED BY <2>4, <2>5, <2>6
  <1>7. ASSUME NEW c \in Contexts, Report(c)
        PROVE  Pruned' /\ OnePerTask' /\ Alone' /\ \A q \in Runs : Fresh(q)'
    <2>1. library' = library /\ UNCHANGED <<pc, work, run>>
      BY <1>7 DEF Report
    <2> QED BY <2>1, <1>a, <1>k DEF Alone, Held, Fresh, Closest
  <1> QED BY <1>1, <1>2, <1>3, <1>4, <1>5, <1>6, <1>7 DEF Next, ThreadStep

\* As long as no two threads hold rows of the library at once, what fails
\* more often than it works is retired, and the same work has one skill:
\* for a library that was so when the process started.
THEOREM LibraryIsSelective ==
    ASSUME SelectiveStart
    PROVE  Spec => []LibraryStaysSelective
  <1>1. Init => SelectInv
    BY SelectiveStart DEF Init, SelectiveStart, SelectInv, Pruned, OnePerTask, Live, Alone, Held, Fresh, None
  <1>2. IInv /\ SelectInv /\ [Next]_vars => SelectInv'
    BY SelectStep
  <1>3. SelectInv => LibraryStaysSelective
    BY DEF SelectInv, Pruned, OnePerTask, Live, LibraryStaysSelective, Closest
  <1> QED BY <1>1, <1>2, <1>3, RunsInductive, PTL DEF Spec
=============================================================================
