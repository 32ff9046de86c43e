-------------------------- MODULE SourceMemoryProofs --------------------------
(***************************************************************************)
(* Proofs about sources and memory, for every number of threads, sources   *)
(* and units, every text, and every number of failures.                    *)
(***************************************************************************)
EXTENDS SourceMemory, TLAPS

(***************************************************************************)
(* What a thread's notes hold, and what it needs of them where it is.      *)
(***************************************************************************)
Places == {"idle", "begin", "revise", "supersede", "file", "remember", "write", "finalize", "report",
           "artifacts", "stale", "skills", "outdate", "save", "publish", "done", "retire", "release",
           "drop", "scan", "compile", "offer"}
Held == {<<>>} \union UNION {[D -> SUBSET Sources] : D \in SUBSET Units}
Visits == Files \X Texts \X (Texts \union {None})
ToDo == Sources \union Nat \union (Nat \X Texts)

WorkRow ==
  [id : Nat, source : Sources \union {None}, text : Texts \union {None}, scan : SUBSET Visits,
   gone : SUBSET Sources, version : Nat, created : BOOLEAN, before : SUBSET Units, said : SUBSET Units,
   next : Nat, previous : Units \union {None}, from : SUBSET Sources, held : Held, affected : SUBSET Units,
   todo : SUBSET ToDo, stood : SUBSET Units, withdrawn : SUBSET Units, alone : BOOLEAN]

Withdrawing == {"retire", "release", "drop", "done"}
Ingesting == Places \ (Withdrawing \union {"idle", "scan", "compile", "offer"})

Fits(place, w) ==
  /\ place \in Ingesting \union Withdrawing => w.source \in Sources
  /\ place \in Ingesting => w.text \in Texts
  /\ place \in {"remember", "write"} => w.next \in DOMAIN Says[w.text]
  /\ place \in {"revise", "supersede", "file"} => w.next = 1
  /\ place = "publish" => w.source \in Reports

ThreadsOK ==
  /\ pc \in [Threads -> Places] /\ work \in [Threads -> WorkRow] /\ starts \in Nat
  /\ \A i \in Threads : Fits(pc[i], work[i])

(***************************************************************************)
(* A table's versions are 1..n, and a thread about to insert one holds a   *)
(* version all of whose predecessors are there.                            *)
(***************************************************************************)
Versions(rs) == {r.version : r \in rs}
Numbered(rs) == \E n \in Nat : Versions(rs) = 1..n
Follows(v, rs) == v \in Nat \ {0} /\ \A m \in 1..(v - 1) : m \in Versions(rs)

TablesNumbered ==
  /\ \A s \in Sources : Numbered(revisions[s])
  /\ \A a \in Reports : Numbered(artifacts[a].revisions)
  /\ Numbered(skills)

Reserves(place, w) ==
  /\ place = "supersede" => Follows(w.version, revisions[w.source])
  /\ place = "publish" => Follows(w.version, artifacts[w.source].revisions)
  /\ place = "offer" => Follows(w.version, skills)

IInv ==
  /\ TablesOK /\ ThreadsOK /\ TablesNumbered
  /\ \A i \in Threads : Reserves(pc[i], work[i])
  /\ OneCurrentRevision /\ OneCurrentSkill

-----------------------------------------------------------------------------
LEMMA NewestIs ==
    ASSUME NEW rs, NEW n \in Nat, Versions(rs) = 1..n
    PROVE  Newest(rs) = n
  <1>1. CASE rs = {}
    <2>1. Versions(rs) = {}
      BY <1>1 DEF Versions
    <2>2. n = 0
      BY <2>1
    <2> QED BY <1>1, <2>2 DEF Newest
  <1>2. CASE rs # {}
    <2>1. PICK r \in rs : TRUE
      BY <1>2
    <2>2. r.version \in 1..n
      BY <2>1 DEF Versions
    <2>3. n \in 1..n /\ \A m \in 1..n : m <= n
      BY <2>2
    <2>4. {r0.version : r0 \in rs} = 1..n
      BY DEF Versions
    <2>5. Newest(rs) = CHOOSE m \in 1..n : \A r0 \in rs : r0.version <= m
      BY <1>2, <2>4 DEF Newest
    <2>6. \A r0 \in rs : r0.version <= n
      BY <2>4
    <2>7. \A m \in 1..n : (\A r0 \in rs : r0.version <= m) => m = n
      <3> SUFFICES ASSUME NEW m \in 1..n, \A r0 \in rs : r0.version <= m PROVE m = n
        OBVIOUS
      <3>1. PICK r1 \in rs : r1.version = n
        BY <2>3, <2>4
      <3> QED BY <3>1
    <2> QED BY <2>3, <2>5, <2>6, <2>7
  <1> QED BY <1>1, <1>2

\* A version read from a numbered table follows it.
LEMMA NewestFollows ==
    ASSUME NEW rs, Numbered(rs)
    PROVE  Newest(rs) \in Nat /\ Follows(Newest(rs) + 1, rs)
  <1>1. PICK n \in Nat : Versions(rs) = 1..n
    BY DEF Numbered
  <1>2. Newest(rs) = n
    BY <1>1, NewestIs
  <1> QED BY <1>1, <1>2 DEF Follows

\* A version that follows a table and is not in it is its next one.
LEMMA NextVersion ==
    ASSUME NEW rs, NEW n \in Nat, Versions(rs) = 1..n, NEW v, Follows(v, rs), v \notin Versions(rs)
    PROVE  v = n + 1
  <1>1. v \in Nat /\ v > n
    BY DEF Follows
  <1>2. CASE v > n + 1
    <2>1. n + 1 \in 1..(v - 1)
      BY <1>1, <1>2
    <2> QED BY <2>1 DEF Follows
  <1> QED BY <1>1, <1>2

LEMMA FollowsMore ==
    ASSUME NEW rs, NEW more, Versions(rs) \subseteq Versions(more), NEW v, Follows(v, rs)
    PROVE  Follows(v, more)
  BY DEF Follows

-----------------------------------------------------------------------------
(***************************************************************************)
(* Threads: where each step leads and what it notes.                       *)
(***************************************************************************)
LEMMA MoveFits ==
    ASSUME ThreadsOK, NEW i \in Threads, NEW place \in Places, NEW w \in WorkRow, Fits(place, w),
           Goto(i, place), Note(i, w), UNCHANGED starts
    PROVE  ThreadsOK'
  <1>1. /\ pc' = [pc EXCEPT ![i] = place] /\ work' = [work EXCEPT ![i] = w] /\ starts' = starts
    BY DEF Goto, Note
  <1>2. pc' \in [Threads -> Places] /\ work' \in [Threads -> WorkRow] /\ starts' \in Nat
    BY <1>1 DEF ThreadsOK
  <1>3. \A j \in Threads : Fits(pc'[j], work'[j])
    <2> TAKE j \in Threads
    <2>1. CASE j = i
      <3>1. pc'[j] = place /\ work'[j] = w
        BY <1>1, <2>1 DEF ThreadsOK
      <3> QED BY <3>1
    <2>2. CASE j # i
      <3>1. pc'[j] = pc[j] /\ work'[j] = work[j]
        BY <1>1, <2>2 DEF ThreadsOK
      <3> QED BY <3>1 DEF ThreadsOK
    <2> QED BY <2>1, <2>2
  <1> QED BY <1>2, <1>3 DEF ThreadsOK, Fits

LEMMA StepFits ==
    ASSUME ThreadsOK, NEW i \in Threads, NEW place \in Places, NEW w \in WorkRow, Fits(place, w),
           Step(i, place, w)
    PROVE  ThreadsOK'
  BY MoveFits DEF Step

LEMMA IdleFits == Idle \in WorkRow /\ Fits("idle", Idle) /\ "idle" \in Places
  BY DEF Idle, WorkRow, Held, Fits, Places, Withdrawing, Ingesting

LEMMA StartFits ==
    ASSUME ThreadsOK, NEW i \in Threads, NEW operation, NEW place \in Places, NEW w \in WorkRow,
           Fits(place, w), Start(i, operation, place, w)
    PROVE  ThreadsOK'
  <1>1. /\ pc' = [pc EXCEPT ![i] = place] /\ starts' = starts + 1
        /\ work' = [j \in Threads |-> IF j = i THEN [w EXCEPT !.id = starts + 1]
                                      ELSE [work[j] EXCEPT !.alone = FALSE, !.stood = {}]]
    BY DEF Start, Goto
  <1>2. [w EXCEPT !.id = starts + 1] \in WorkRow /\ Fits(place, [w EXCEPT !.id = starts + 1])
    <2> DEFINE own == [w EXCEPT !.id = starts + 1]
    <2>1. /\ own \in WorkRow /\ own.source = w.source /\ own.text = w.text /\ own.next = w.next
      BY DEF ThreadsOK, WorkRow
    <2> HIDE DEF own
    <2>2. Fits(place, own)
      BY <2>1 DEF Fits
    <2> QED BY <2>1, <2>2 DEF own
  <1>3. ASSUME NEW j \in Threads
        PROVE  /\ [work[j] EXCEPT !.alone = FALSE, !.stood = {}] \in WorkRow
               /\ Fits(pc[j], [work[j] EXCEPT !.alone = FALSE, !.stood = {}])
    <2>1. work[j] \in WorkRow /\ Fits(pc[j], work[j])
      BY DEF ThreadsOK
    <2> DEFINE v == [work[j] EXCEPT !.alone = FALSE, !.stood = {}]
    <2>2. v \in WorkRow /\ v.source = work[j].source /\ v.text = work[j].text /\ v.next = work[j].next
      BY <2>1 DEF WorkRow
    <2> HIDE DEF v
    <2>3. Fits(pc[j], v)
      BY <2>1, <2>2 DEF Fits
    <2> QED BY <2>2, <2>3 DEF v
  <1>4. pc' \in [Threads -> Places] /\ work' \in [Threads -> WorkRow] /\ starts' \in Nat
    <2>1. pc' \in [Threads -> Places] /\ starts' \in Nat
      <3>1. pc \in [Threads -> Places] /\ starts \in Nat
        BY DEF ThreadsOK
      <3>2. pc' = [pc EXCEPT ![i] = place] /\ starts' = starts + 1
        BY <1>1
      <3> QED BY <3>1, <3>2
    <2> DEFINE note(j) == IF j = i THEN [w EXCEPT !.id = starts + 1]
                          ELSE [work[j] EXCEPT !.alone = FALSE, !.stood = {}]
    <2>2. ASSUME NEW j \in Threads PROVE note(j) \in WorkRow
      <3>1. CASE j = i
        BY <1>2, <3>1
      <3>2. CASE j # i
        <4>1. [work[j] EXCEPT !.alone = FALSE, !.stood = {}] \in WorkRow
          BY <1>3
        <4> QED BY <3>2, <4>1
      <3> QED BY <3>1, <3>2
    <2>3. work' = [j \in Threads |-> note(j)]
      BY <1>1
    <2> HIDE DEF note
    <2> QED BY <2>1, <2>2, <2>3
  <1>5. \A j \in Threads : Fits(pc'[j], work'[j])
    <2> TAKE j \in Threads
    <2>1. CASE j = i
      <3>1. pc'[j] = place /\ work'[j] = [w EXCEPT !.id = starts + 1]
        BY <1>1, <2>1 DEF ThreadsOK
      <3> QED BY <1>2, <3>1
    <2>2. CASE j # i
      <3>1. pc'[j] = pc[j] /\ work'[j] = [work[j] EXCEPT !.alone = FALSE, !.stood = {}]
        BY <1>1, <2>2 DEF ThreadsOK
      <3> QED BY <1>3, <3>1
    <2> QED BY <2>1, <2>2
  <1> QED BY <1>4, <1>5 DEF ThreadsOK, Fits

\* What a thread has is typed.
LEMMA Notes ==
    ASSUME ThreadsOK, NEW i \in Threads
    PROVE  work[i] \in WorkRow /\ Fits(pc[i], work[i]) /\ pc[i] \in Places
  BY DEF ThreadsOK

\* The common step of an ingestion: on to a place that asks for nothing more.
LEMMA GoesOn ==
    ASSUME ThreadsOK, NEW i \in Threads, pc[i] \in Ingesting,
           NEW place \in (Ingesting \ {"remember", "write", "publish"}) \union {"done"},
           NEW w \in WorkRow, w.source = work[i].source, w.text = work[i].text, Step(i, place, w),
           place \in {"revise", "supersede", "file"} => w.next = 1
    PROVE  ThreadsOK'
  <1>1. place \in Places /\ Fits(place, w)
    BY Notes DEF Fits, Ingesting, Withdrawing, Places
  <1> QED BY <1>1, StepFits

LEMMA Stops ==
    ASSUME ThreadsOK, NEW i \in Threads, Step(i, "idle", Idle)
    PROVE  ThreadsOK'
  BY StepFits, IdleFits

\* The next statement is told if there is one.
LEMMA TellingFits ==
    ASSUME ThreadsOK, NEW i \in Threads, pc[i] \in Ingesting, NEW n \in Nat,
           NEW w \in WorkRow, w.source = work[i].source, w.text = work[i].text, w.next = n,
           Step(i, Telling(i, n), w)
    PROVE  ThreadsOK'
  <1>1. CASE n \in DOMAIN Says[work[i].text]
    <2>1. Telling(i, n) = "remember"
      BY <1>1 DEF Telling
    <2>2. "remember" \in Places /\ Fits("remember", w)
      BY <1>1, Notes DEF Fits, Ingesting, Withdrawing, Places
    <2> QED BY <2>1, <2>2, StepFits
  <1>2. CASE n \notin DOMAIN Says[work[i].text]
    <2>1. Telling(i, n) \in {"finalize", "save"}
      BY <1>2 DEF Telling
    <2> QED BY <2>1, GoesOn DEF Ingesting, Withdrawing, Places
  <1> QED BY <1>1, <1>2

LEMMA StandingIs ==
    ASSUME ThreadsOK, NEW i \in Threads
    PROVE  Standing(i) \subseteq Units
  <1>1. work[i].stood \subseteq Units
    BY Notes DEF WorkRow
  <1> QED BY <1>1 DEF Standing, Latest

\* Beginning an ingestion, and its revision.
LEMMA RevisesFits ==
    ASSUME IInv, NEW i \in Threads,
           Begin(i) \/ FindRevision(i) \/ InsertRevision(i) \/ InsertRefused(i)
    PROVE  ThreadsOK'
  <1> USE Notes DEF IInv, Ingesting, Withdrawing, Places, At
  <1>1. CASE Begin(i)
    <2> DEFINE w == [work[i] EXCEPT !.before = CurrentOf(work[i].source), !.stood = Standing(i),
                                    !.alone = Alone(i), !.said = {}, !.next = 1, !.affected = {}]
    <2>1. CurrentOf(work[i].source) \subseteq Units /\ Standing(i) \subseteq Units /\ Alone(i) \in BOOLEAN
      BY StandingIs DEF CurrentOf, Latest, Alone
    <2>2. w \in WorkRow /\ w.source = work[i].source /\ w.text = work[i].text /\ w.next = 1
      BY <2>1 DEF WorkRow
    <2>3. Step(i, "revise", w)
      BY <1>1 DEF Begin
    <2>4. pc[i] \in Ingesting
      BY <1>1 DEF Begin
    <2> HIDE DEF w
    <2> QED BY <2>2, <2>3, <2>4, GoesOn
  <1>2. CASE FindRevision(i)
    <2>1. pc[i] = "revise" /\ work[i].source \in Sources /\ work[i].next = 1
      BY <1>2 DEF FindRevision, Fits
    <2>2. ASSUME NEW r \in revisions[work[i].source],
                 Step(i, "file", [work[i] EXCEPT !.version = r.version, !.created = FALSE])
          PROVE  ThreadsOK'
      <3> DEFINE w == [work[i] EXCEPT !.version = r.version, !.created = FALSE]
      <3>1. r.version \in Nat
        BY <2>1 DEF TablesOK, RevisionRow
      <3>2. w \in WorkRow /\ w.source = work[i].source /\ w.text = work[i].text /\ w.next = work[i].next
        BY <3>1 DEF WorkRow
      <3> HIDE DEF w
      <3> QED BY <2>1, <2>2, <3>2, GoesOn DEF w
    <2>3. ASSUME Step(i, "supersede", [work[i] EXCEPT !.version = Newest(revisions[work[i].source]) + 1,
                                                      !.created = TRUE])
          PROVE  ThreadsOK'
      <3> DEFINE w == [work[i] EXCEPT !.version = Newest(revisions[work[i].source]) + 1, !.created = TRUE]
      <3>1. Newest(revisions[work[i].source]) + 1 \in Nat
        BY <2>1, NewestFollows DEF TablesNumbered
      <3>2. w \in WorkRow /\ w.source = work[i].source /\ w.text = work[i].text /\ w.next = work[i].next
        BY <3>1 DEF WorkRow
      <3> HIDE DEF w
      <3> QED BY <2>1, <2>3, <3>2, GoesOn DEF w
    <2> QED BY <1>2, <2>2, <2>3 DEF FindRevision
  <1>3. CASE InsertRevision(i)
    <2>1. Step(i, "file", work[i]) /\ pc[i] = "supersede" /\ work[i].next = 1
      BY <1>3 DEF InsertRevision, Fits
    <2> QED BY <2>1, GoesOn
  <1>4. CASE InsertRefused(i)
    BY <1>4, Stops DEF InsertRefused
  <1> QED BY <1>1, <1>2, <1>3, <1>4

\* What a thread is about to say.
LEMMA SaidIs ==
    ASSUME ThreadsOK, NEW i \in Threads, pc[i] \in {"remember", "write"}
    PROVE  Said(i) \in Statements /\ work[i].next \in Nat
  <1>1. work[i].text \in Texts /\ work[i].next \in DOMAIN Says[work[i].text] /\ work[i].next \in Nat
    BY Notes DEF Fits, Ingesting, Withdrawing, Places, WorkRow
  <1>2. Says[work[i].text] \in Seq(Statements)
    BY <1>1, SourceAssumption
  <1> QED BY <1>1, <1>2 DEF Said

LEMMA ToldFits ==
    ASSUME ThreadsOK, NEW i \in Threads, pc[i] = "write", NEW u \in Units,
           Step(i, Telling(i, work[i].next + 1), Told(i, u))
    PROVE  ThreadsOK'
  <1>1. work[i].next + 1 \in Nat /\ work[i] \in WorkRow
    BY SaidIs, Notes
  <1>2. Told(i, u) \in WorkRow
    BY <1>1 DEF Told, WorkRow
  <1>3. /\ Told(i, u).source = work[i].source /\ Told(i, u).text = work[i].text
        /\ Told(i, u).next = work[i].next + 1
    BY <1>1 DEF Told, WorkRow
  <1>4. pc[i] \in Ingesting
    BY DEF Ingesting, Withdrawing, Places
  <1> QED BY <1>1, <1>2, <1>3, <1>4, TellingFits

\* Filing the text and remembering its statements.
LEMMA RemembersFits ==
    ASSUME IInv, NEW i \in Threads, FileItem(i) \/ FindPrevious(i) \/ Merge(i) \/ Insert(i)
    PROVE  ThreadsOK'
  <1> USE Notes DEF IInv, Ingesting, Withdrawing, Places, At
  <1>1. CASE FileItem(i)
    <2>1. Step(i, Telling(i, 1), work[i]) /\ pc[i] = "file" /\ work[i] \in WorkRow /\ work[i].next = 1
      BY <1>1 DEF FileItem, Fits
    <2> QED BY <2>1, TellingFits
  <1>2. CASE FindPrevious(i)
    <2>1. PICK u \in SameSubject(Said(i)) \union {None} :
             Step(i, "write", [work[i] EXCEPT !.previous = u, !.from = IF u = None THEN {} ELSE memory[u].sources])
      BY <1>2 DEF FindPrevious
    <2> DEFINE w == [work[i] EXCEPT !.previous = u, !.from = IF u = None THEN {} ELSE memory[u].sources]
    <2>2. u \in Units \union {None} /\ (u # None => memory[u].sources \subseteq Sources)
      BY DEF SameSubject, Latest, TablesOK
    <2>3. w \in WorkRow /\ w.source = work[i].source /\ w.text = work[i].text /\ w.next = work[i].next
      BY <2>2 DEF WorkRow
    <2>4. Fits("write", w)
      BY <1>2, <2>3 DEF FindPrevious, Fits
    <2>5. Step(i, "write", w)
      BY <2>1
    <2> HIDE DEF w
    <2> QED BY <2>3, <2>4, <2>5, StepFits
  <1>3. CASE Merge(i)
    <2> DEFINE u == work[i].previous
    <2>1. pc[i] = "write" /\ u \in Units
      BY <1>3 DEF Merge, Repeats, WorkRow
    <2> QED BY <1>3, <2>1, ToldFits DEF Merge
  <1>4. CASE Insert(i)
    <2>1. pc[i] = "write" /\ \E u \in Units : Step(i, Telling(i, work[i].next + 1), Told(i, u))
      BY <1>4 DEF Insert, Unused
    <2> QED BY <2>1, ToldFits
  <1> QED BY <1>1, <1>2, <1>3, <1>4

\* The change report and what depends on it.
LEMMA ReportsFits ==
    ASSUME IInv, NEW i \in Threads,
           \/ Invalidate(i) \/ ReportChange(i) \/ FindArtifacts(i) \/ StaleArtifact(i)
           \/ FindSkills(i) \/ OutdateSkill(i)
    PROVE  ThreadsOK'
  <1> USE Notes DEF IInv, Ingesting, Withdrawing, Places, At
  <1>1. work[i] \in WorkRow /\ work[i].affected \in SUBSET Units /\ work[i].todo \in SUBSET ToDo
    BY DEF WorkRow
  <1>2. CASE Invalidate(i)
    BY <1>1, <1>2, GoesOn DEF Invalidate
  <1>3. CASE ReportChange(i)
    <2>1. PICK affected \in SUBSET Units :
             pc[i] = "report" /\ Step(i, "artifacts", [work[i] EXCEPT !.affected = affected])
      <3>1. Added(i) \subseteq Units /\ Invalidated(i) \subseteq Units
        BY DEF Added, Invalidated, WorkRow
      <3>2. {e[2] : e \in {e \in related : e[1] \in Added(i)}} \subseteq Units
        BY DEF TablesOK
      <3> QED BY <1>3, <3>1, <3>2 DEF ReportChange
    <2> DEFINE w == [work[i] EXCEPT !.affected = affected]
    <2>2. w \in WorkRow /\ w.source = work[i].source /\ w.text = work[i].text
      BY <1>1 DEF WorkRow
    <2>3. Step(i, "artifacts", w) /\ pc[i] \in Ingesting
      BY <2>1
    <2> HIDE DEF w
    <2> QED BY <2>2, <2>3, GoesOn
  <1>4. ASSUME NEW place \in {"stale", "skills", "outdate", "save"}, NEW todo \in SUBSET ToDo,
               pc[i] \in Ingesting, Step(i, place, [work[i] EXCEPT !.todo = todo])
        PROVE  ThreadsOK'
    <2> DEFINE w == [work[i] EXCEPT !.todo = todo]
    <2>1. w \in WorkRow /\ w.source = work[i].source /\ w.text = work[i].text
      BY <1>1 DEF WorkRow
    <2>2. Step(i, place, w)
      BY <1>4
    <2> HIDE DEF w
    <2> QED BY <1>4, <2>1, <2>2, GoesOn
  <1>5. CASE FindArtifacts(i)
    <2>1. PICK hit \in SUBSET Reports, place \in {"stale", "skills"} :
             pc[i] = "artifacts" /\ Step(i, place, [work[i] EXCEPT !.todo = hit])
      BY <1>5 DEF FindArtifacts
    <2>2. hit \in SUBSET ToDo
      BY SourceAssumption DEF ToDo
    <2> QED BY <1>4, <2>1, <2>2
  <1>6. CASE StaleArtifact(i)
    <2>1. PICK a \in work[i].todo, place \in {"stale", "skills"} :
             pc[i] = "stale" /\ Step(i, place, [work[i] EXCEPT !.todo = @ \ {a}])
      BY <1>6 DEF StaleArtifact
    <2>2. [work[i] EXCEPT !.todo = @ \ {a}] = [work[i] EXCEPT !.todo = work[i].todo \ {a}]
      OBVIOUS
    <2> QED BY <1>1, <1>4, <2>1, <2>2
  <1>7. CASE FindSkills(i)
    <2>1. PICK hit \in SUBSET {k.version : k \in skills}, place \in {"outdate", "save"} :
             pc[i] = "skills" /\ Step(i, place, [work[i] EXCEPT !.todo = hit])
      BY <1>7 DEF FindSkills
    <2>2. hit \in SUBSET ToDo
      BY DEF ToDo, TablesOK, SkillRow
    <2> QED BY <1>4, <2>1, <2>2
  <1>8. CASE OutdateSkill(i)
    <2>1. PICK a \in work[i].todo, place \in {"outdate", "save"} :
             pc[i] = "outdate" /\ Step(i, place, [work[i] EXCEPT !.todo = @ \ {a}])
      BY <1>8 DEF OutdateSkill
    <2>2. [work[i] EXCEPT !.todo = @ \ {a}] = [work[i] EXCEPT !.todo = work[i].todo \ {a}]
      OBVIOUS
    <2> QED BY <1>1, <1>4, <2>1, <2>2
  <1> QED BY <1>2, <1>3, <1>5, <1>6, <1>7, <1>8

\* Saving the report, and the end of an ingestion.
LEMMA SavesFits ==
    ASSUME IInv, NEW i \in Threads, FindArtifact(i) \/ SaveArtifact(i) \/ SaveFails(i) \/ Done(i)
    PROVE  ThreadsOK'
  <1> USE Notes DEF IInv, Ingesting, Withdrawing, Places, At
  <1>1. CASE FindArtifact(i)
    <2>1. pc[i] = "save" /\ work[i] \in WorkRow
      BY <1>1 DEF FindArtifact
    <2>2. CASE Step(i, "done", work[i])
      BY <2>1, <2>2, GoesOn
    <2>3. CASE /\ work[i].source \in Reports
               /\ Step(i, "publish", [work[i] EXCEPT !.version = Newest(artifacts[work[i].source].revisions) + 1])
      <3> DEFINE w == [work[i] EXCEPT !.version = Newest(artifacts[work[i].source].revisions) + 1]
      <3>1. Newest(artifacts[work[i].source].revisions) + 1 \in Nat
        BY <2>3, NewestFollows DEF TablesNumbered
      <3>2. w \in WorkRow /\ w.source = work[i].source /\ w.text = work[i].text
        BY <3>1 DEF WorkRow
      <3>3. Step(i, "publish", w)
        BY <2>3
      <3> HIDE DEF w
      <3>4. Fits("publish", w)
        BY <2>1, <2>3, <3>2 DEF Fits
      <3> QED BY <3>2, <3>3, <3>4, StepFits
    <2> QED BY <1>1, <2>2, <2>3 DEF FindArtifact
  <1>2. CASE SaveArtifact(i)
    <2>1. Step(i, "done", work[i]) /\ pc[i] = "publish" /\ work[i] \in WorkRow
      BY <1>2 DEF SaveArtifact
    <2> QED BY <2>1, GoesOn
  <1>3. CASE SaveFails(i)
    BY <1>3, Stops DEF SaveFails
  <1>4. CASE Done(i)
    <2>1. CASE Step(i, "idle", Idle)
      BY <2>1, Stops
    <2>2. CASE Step(i, "scan", [Idle EXCEPT !.id = work[i].id, !.scan = work[i].scan, !.gone = work[i].gone])
      <3> DEFINE w == [Idle EXCEPT !.id = work[i].id, !.scan = work[i].scan, !.gone = work[i].gone]
      <3>1. w \in WorkRow
        BY IdleFits DEF WorkRow
      <3>2. Step(i, "scan", w)
        BY <2>2
      <3> HIDE DEF w
      <3>3. Fits("scan", w)
        BY DEF Fits
      <3> QED BY <3>1, <3>2, <3>3, StepFits
    <2> QED BY <1>4, <2>1, <2>2 DEF Done
  <1> QED BY <1>1, <1>2, <1>3, <1>4

\* What an operation begins with.
LEMMA BeginsFits ==
    ASSUME IInv, NEW i \in Threads, Upload(i) \/ Apply(i) \/ Remove(i) \/ Scan(i) \/ Compile(i)
    PROVE  ThreadsOK'
  <1> USE DEF IInv
  <1>1. ASSUME NEW operation, NEW place \in {"begin", "retire"}, NEW w \in WorkRow, w.source \in Sources,
               place = "begin" => w.text \in Texts, Start(i, operation, place, w)
        PROVE  ThreadsOK'
    <2>1. Fits(place, w) /\ place \in Places
      BY <1>1 DEF Fits, Ingesting, Withdrawing, Places
    <2> QED BY <1>1, <2>1, StartFits
  <1>2. ASSUME NEW operation, NEW s \in Sources, NEW t \in Texts,
               Start(i, operation, "begin", [Idle EXCEPT !.source = s, !.text = t])
        PROVE  ThreadsOK'
    <2> DEFINE w == [Idle EXCEPT !.source = s, !.text = t]
    <2>1. w \in WorkRow /\ w.source = s /\ w.text = t
      BY IdleFits DEF WorkRow
    <2>2. Start(i, operation, "begin", w) /\ "begin" \in {"begin", "retire"}
      BY <1>2
    <2> HIDE DEF w
    <2> QED BY <1>1, <2>1, <2>2
  <1>3. ASSUME NEW s \in Sources, NEW filed \in items[s]
        PROVE  {filed} \in SUBSET ToDo
    BY DEF TablesOK, ToDo
  <1>4. CASE Upload(i)
    BY <1>2, <1>4 DEF Upload
  <1>5. CASE Apply(i)
    <2>1. PICK s \in Sources, t \in Texts :
            \/ Start(i, "apply", "begin", [Idle EXCEPT !.source = s, !.text = t])
            \/ \E filed \in items[s] :
                 Start(i, "apply", "retire", [Idle EXCEPT !.source = s, !.text = t, !.todo = {filed}])
      BY <1>5 DEF Apply
    <2>2. ASSUME NEW filed \in items[s],
                 Start(i, "apply", "retire", [Idle EXCEPT !.source = s, !.text = t, !.todo = {filed}])
          PROVE  ThreadsOK'
      <3> DEFINE w == [Idle EXCEPT !.source = s, !.text = t, !.todo = {filed}]
      <3>1. w \in WorkRow /\ w.source = s /\ w.text = t
        BY <1>3, IdleFits DEF WorkRow
      <3>2. Start(i, "apply", "retire", w) /\ "retire" \in {"begin", "retire"}
        BY <2>2
      <3> HIDE DEF w
      <3> QED BY <1>1, <3>1, <3>2
    <2> QED BY <1>2, <2>1, <2>2
  <1>6. CASE Remove(i)
    <2>1. PICK s \in Sources : \E filed \in items[s] :
            Start(i, "remove", "retire", [Idle EXCEPT !.source = s, !.todo = {filed}])
      BY <1>6 DEF Remove
    <2>2. PICK filed \in items[s] : Start(i, "remove", "retire", [Idle EXCEPT !.source = s, !.todo = {filed}])
      BY <2>1
    <2> DEFINE w == [Idle EXCEPT !.source = s, !.todo = {filed}]
    <2>3. w \in WorkRow /\ w.source = s
      BY <1>3, IdleFits DEF WorkRow
    <2>4. Start(i, "remove", "retire", w) /\ "retire" \in {"begin", "retire"}
      BY <2>2
    <2> HIDE DEF w
    <2> QED BY <1>1, <2>3, <2>4
  <1>7. CASE Scan(i)
    <2>1. PICK tree \in [Files -> Texts \union {None}], on \in [Files -> UNION {Filed(s) : s \in Files}] :
             Start(i, "scan", "scan",
               [Idle EXCEPT !.scan = {<<s, tree[s], on[s]>> : s \in {f \in Files : tree[f] # None}},
                            !.gone = {s \in Files : tree[s] = None /\ on[s] # None}])
      BY <1>7 DEF Scan
    <2> DEFINE visits == {<<s, tree[s], on[s]>> : s \in {f \in Files : tree[f] # None}}
               gone == {s \in Files : tree[s] = None /\ on[s] # None}
               w == [Idle EXCEPT !.scan = visits, !.gone = gone]
    <2>2. \A s \in Files : Filed(s) \subseteq Texts \union {None}
      BY SourceAssumption DEF Filed, TablesOK
    <2>3. visits \in SUBSET Visits /\ gone \in SUBSET Sources
      BY <2>2, SourceAssumption DEF Visits
    <2>4. Start(i, "scan", "scan", w)
      BY <2>1
    <2> HIDE DEF visits, gone
    <2>5. w \in WorkRow
      BY <2>3, IdleFits DEF WorkRow
    <2> HIDE DEF w
    <2>6. Fits("scan", w) /\ "scan" \in Places
      BY DEF Fits, Ingesting, Withdrawing, Places
    <2> QED BY <2>4, <2>5, <2>6, StartFits
  <1>8. CASE Compile(i)
    <2>1. PICK eligible \in SUBSET Units : Start(i, "compile", "compile", [Idle EXCEPT !.said = eligible])
      BY <1>8 DEF Compile, Latest
    <2> DEFINE w == [Idle EXCEPT !.said = eligible]
    <2>2. w \in WorkRow /\ Start(i, "compile", "compile", w)
      BY <2>1, IdleFits DEF WorkRow
    <2> HIDE DEF w
    <2>3. Fits("compile", w) /\ "compile" \in Places
      BY DEF Fits, Ingesting, Withdrawing, Places
    <2> QED BY <2>2, <2>3, StartFits
  <1> QED BY <1>4, <1>5, <1>6, <1>7, <1>8

\* What a withdrawal holds is of units.
LEMMA HeldIs ==
    ASSUME NEW w \in WorkRow
    PROVE  DOMAIN w.held \subseteq Units
  <1>1. w.held = <<>> \/ \E D \in SUBSET Units : w.held \in [D -> SUBSET Sources]
    BY DEF WorkRow, Held
  <1> QED BY <1>1

\* Withdrawing what a source said, and a scan's way through its files.
LEMMA WithdrawsFits ==
    ASSUME IInv, NEW i \in Threads, Withdraw(i)
    PROVE  ThreadsOK'
  <1> USE Notes DEF IInv, Ingesting, Withdrawing, Places, At
  <1>0. work[i] \in WorkRow
    OBVIOUS
  <1>1. CASE RetireList(i)
    <2> DEFINE held == [u \in CurrentOf(work[i].source) |-> memory[u].sources \ {work[i].source}]
               w == [work[i] EXCEPT !.stood = Standing(i), !.held = held]
    <2>1. CurrentOf(work[i].source) \in SUBSET Units /\ Standing(i) \in SUBSET Units
      BY StandingIs DEF CurrentOf, Latest
    <2>2. held \in [CurrentOf(work[i].source) -> SUBSET Sources]
      BY <2>1 DEF TablesOK
    <2>3. held \in Held
      BY <2>1, <2>2 DEF Held
    <2>4. Step(i, "release", w) /\ work[i].source \in Sources
      BY <1>1 DEF RetireList, Fits
    <2> HIDE DEF held
    <2>5. w \in WorkRow /\ w.source = work[i].source
      BY <1>0, <2>1, <2>3 DEF WorkRow
    <2> HIDE DEF w
    <2>6. Fits("release", w)
      BY <2>4, <2>5 DEF Fits
    <2> QED BY <2>4, <2>5, <2>6, StepFits
  <1>2. CASE RetireWrite(i)
    <2> DEFINE gone == {u \in DOMAIN work[i].held : work[i].held[u] = {}}
               w == [work[i] EXCEPT !.withdrawn = gone, !.held = <<>>]
    <2>1. Step(i, "drop", w) /\ work[i].source \in Sources
      BY <1>2 DEF RetireWrite, Fits
    <2>2. <<>> \in Held /\ gone \in SUBSET Units
      <3>1. DOMAIN work[i].held \subseteq Units
        BY <1>0, HeldIs
      <3> QED BY <3>1 DEF Held
    <2> HIDE DEF gone
    <2>3. w \in WorkRow /\ w.source = work[i].source
      BY <1>0, <2>2 DEF WorkRow
    <2> HIDE DEF w
    <2>4. Fits("drop", w)
      BY <2>1, <2>3 DEF Fits
    <2> QED BY <2>1, <2>3, <2>4, StepFits
  <1>3. CASE DropItems(i)
    <2> DEFINE w == [work[i] EXCEPT !.todo = {}]
               place == IF work[i].text = None THEN "done" ELSE "begin"
    <2>1. Step(i, place, w) /\ work[i].source \in Sources
      BY <1>3 DEF DropItems, Fits
    <2>2. w \in WorkRow /\ w.source = work[i].source /\ w.text = work[i].text
      BY <1>0 DEF WorkRow
    <2>3. work[i].text = None \/ work[i].text \in Texts
      BY <1>0 DEF WorkRow
    <2> HIDE DEF w
    <2>4. Fits(place, w) /\ place \in Places
      BY <2>1, <2>2, <2>3 DEF Fits
    <2> QED BY <2>1, <2>2, <2>4, StepFits
  <1>4. CASE ScanFile(i)
    <2>1. PICK f \in work[i].scan :
            LET w == [work[i] EXCEPT !.scan = @ \ {f}, !.source = f[1], !.text = f[2]]
            IN Step(i, "scan", [work[i] EXCEPT !.scan = @ \ {f}]) \/ Step(i, "begin", w) \/ Step(i, "drop", w)
      BY <1>4 DEF ScanFile
    <2>2. f[1] \in Sources /\ f[2] \in Texts /\ work[i].scan \ {f} \in SUBSET Visits
      BY <1>0, SourceAssumption DEF WorkRow, Visits
    <2> DEFINE v == [work[i] EXCEPT !.scan = @ \ {f}]
               w == [work[i] EXCEPT !.scan = @ \ {f}, !.source = f[1], !.text = f[2]]
    <2>3. v \in WorkRow /\ w \in WorkRow /\ w.source = f[1] /\ w.text = f[2]
      BY <1>0, <2>2 DEF WorkRow
    <2>4. Step(i, "scan", v) \/ Step(i, "begin", w) \/ Step(i, "drop", w)
      BY <2>1
    <2> HIDE DEF v, w
    <2>5. Fits("scan", v) /\ Fits("begin", w) /\ Fits("drop", w)
      BY <2>2, <2>3 DEF Fits
    <2> QED BY <2>3, <2>4, <2>5, StepFits
  <1>5. CASE ScanGone(i)
    <2>1. ASSUME NEW s \in work[i].gone,
                 Step(i, "retire", [work[i] EXCEPT !.gone = @ \ {s}, !.source = s, !.text = None])
          PROVE  ThreadsOK'
      <3> DEFINE w == [work[i] EXCEPT !.gone = @ \ {s}, !.source = s, !.text = None]
      <3>1. s \in Sources /\ w \in WorkRow /\ w.source = s
        BY <1>0 DEF WorkRow
      <3>2. Step(i, "retire", w)
        BY <2>1
      <3> HIDE DEF w
      <3>3. Fits("retire", w)
        BY <3>1 DEF Fits
      <3> QED BY <3>1, <3>2, <3>3, StepFits
    <2> QED BY <1>5, <2>1, Stops DEF ScanGone
  <1> QED BY <1>1, <1>2, <1>3, <1>4, <1>5 DEF Withdraw

\* Every step leaves the threads' notes as they need them.
LEMMA ThreadsStep ==
    ASSUME IInv, [Next]_vars
    PROVE  ThreadsOK'
  <1> USE DEF IInv
  <1>1. ASSUME NEW i \in Threads, MakeSkill(i)
        PROVE  ThreadsOK'
    <2>1. CASE FindVersion(i)
      <3> DEFINE w == [work[i] EXCEPT !.version = Newest(skills) + 1]
      <3>1. Newest(skills) + 1 \in Nat
        BY NewestFollows DEF TablesNumbered
      <3>2. w \in WorkRow /\ Step(i, "offer", w)
        BY <2>1, <3>1, Notes DEF FindVersion, WorkRow
      <3> HIDE DEF w
      <3>3. Fits("offer", w) /\ "offer" \in Places
        BY DEF Fits, Ingesting, Withdrawing, Places
      <3> QED BY <3>2, <3>3, StepFits
    <2> QED BY <1>1, <2>1, Stops DEF MakeSkill, PublishSkill, SkillRefused
  <1>2. ASSUME NEW i \in Threads, Fails(i)
        PROVE  ThreadsOK'
    BY <1>2, MoveFits, IdleFits DEF Fails
  <1>3. CASE UNCHANGED vars
    BY <1>3 DEF vars, ThreadsOK, Fits
  <1> QED BY <1>1, <1>2, <1>3, BeginsFits, RevisesFits, RemembersFits, ReportsFits, SavesFits, WithdrawsFits
          DEF Next, Ingest

-----------------------------------------------------------------------------
(***************************************************************************)
(* Tables: which step writes which, and what it leaves there.              *)
(***************************************************************************)
MemoryStep(i) ==
  FileItem(i) \/ Merge(i) \/ Insert(i) \/ Invalidate(i) \/ ReportChange(i) \/ RetireWrite(i) \/ DropItems(i)
VersionStep(i) ==
  InsertRevision(i) \/ SaveArtifact(i) \/ StaleArtifact(i) \/ PublishSkill(i) \/ OutdateSkill(i)

LEMMA Writers ==
    ASSUME [Next]_vars
    PROVE  NoChange \/ \E i \in Threads : MemoryStep(i) \/ VersionStep(i)
  <1>1. CASE UNCHANGED vars
    BY <1>1 DEF vars, NoChange, stored
  <1>2. ASSUME NEW i \in Threads, Upload(i) \/ Apply(i) \/ Remove(i) \/ Scan(i) \/ Compile(i)
        PROVE  NoChange
    BY <1>2 DEF Upload, Apply, Remove, Scan, Compile, Start
  <1>3. ASSUME NEW i \in Threads, Ingest(i)
        PROVE  NoChange \/ MemoryStep(i) \/ VersionStep(i)
    BY <1>3 DEF Ingest, MemoryStep, VersionStep, Begin, FindRevision, InsertRefused, FindPrevious,
                FindArtifacts, FindSkills, FindArtifact, SaveFails, Done
  <1>4. ASSUME NEW i \in Threads, Withdraw(i) \/ MakeSkill(i) \/ Fails(i)
        PROVE  NoChange \/ MemoryStep(i) \/ VersionStep(i)
    BY <1>4 DEF Withdraw, MakeSkill, Fails, MemoryStep, VersionStep, RetireList, ScanFile, ScanGone,
                FindVersion, SkillRefused
  <1> QED BY <1>1, <1>2, <1>3, <1>4 DEF Next

VersionsKept == UNCHANGED <<revisions, artifacts, skills>>

LEMMA MemoryStepKeeps ==
    ASSUME NEW i \in Threads, MemoryStep(i)
    PROVE  VersionsKept
  BY DEF MemoryStep, VersionsKept, FileItem, Merge, Insert, Invalidate, ReportChange, RetireWrite, DropItems

UnitRow == [says : Statements \union {None}, sources : SUBSET Sources, latest : BOOLEAN]

LEMMA MemoryTyped ==
    ASSUME IInv, NEW i \in Threads, MemoryStep(i)
    PROVE  TablesOK'
  <1> USE Notes DEF IInv, Ingesting, Withdrawing, Places, At
  <1>1. VersionsKept /\ work[i] \in WorkRow /\ Fits(pc[i], work[i])
    BY MemoryStepKeeps
  <1>2. ASSUME UNCHANGED <<items, related, changes>>, memory' \in [Units -> UnitRow]
        PROVE  TablesOK'
    BY <1>1, <1>2 DEF TablesOK, VersionsKept, UnitRow
  <1>3. ASSUME UNCHANGED <<memory, related, changes>>, items' \in [Sources -> SUBSET (Nat \X Texts)]
        PROVE  TablesOK'
    BY <1>1, <1>3 DEF TablesOK, VersionsKept
  <1>4. \A u \in Units : memory[u] \in UnitRow
    BY DEF TablesOK, UnitRow
  <1>5. memory \in [Units -> UnitRow] /\ items \in [Sources -> SUBSET (Nat \X Texts)]
    BY DEF TablesOK, UnitRow
  <1>6. CASE FileItem(i)
    <2>1. work[i].source \in Sources /\ <<work[i].id, work[i].text>> \in Nat \X Texts
      BY <1>1, <1>6 DEF FileItem, Fits, WorkRow
    <2> QED BY <1>3, <1>5, <1>6, <2>1 DEF FileItem
  <1>7. CASE Merge(i)
    <2>1. /\ work[i].source \in Sources /\ work[i].from \subseteq Sources
          /\ memory' = [memory EXCEPT ![work[i].previous].sources = work[i].from \union {work[i].source}]
      BY <1>1, <1>7 DEF Merge, Fits, WorkRow
    <2>2. memory' \in [Units -> UnitRow]
      BY <1>4, <1>5, <2>1 DEF UnitRow
    <2> QED BY <1>2, <1>7, <2>2 DEF Merge
  <1>8. CASE Insert(i)
    <2> DEFINE p == work[i].previous
               r == IF p = None THEN None ELSE Relationship(memory[p].says, Said(i))
    <2>1. PICK u \in Unused :
             /\ memory' = [v \in Units |->
                  CASE v = u -> [says |-> Said(i), sources |-> {work[i].source}, latest |-> TRUE]
                    [] v = p /\ r = "UPDATES" -> [memory[v] EXCEPT !.latest = FALSE]
                    [] OTHER -> memory[v]]
             /\ related' = related \union IF p = None THEN {} ELSE {<<u, p, r>>}
      BY <1>8 DEF Insert
    <2>2. Said(i) \in Statements /\ work[i].source \in Sources /\ u \in Units
      BY <1>1, <1>8, SaidIs DEF Insert, Fits, Unused
    <2>3. p \in Units \union {None} /\ (p # None => r \in {"UPDATES", "CONTRADICTS"})
      BY <1>1 DEF WorkRow, Relationship
    <2> HIDE DEF p, r
    <2>4. memory' \in [Units -> UnitRow]
      <3>1. [says |-> Said(i), sources |-> {work[i].source}, latest |-> TRUE] \in UnitRow
        BY <2>2 DEF UnitRow
      <3>2. \A v \in Units : [memory[v] EXCEPT !.latest = FALSE] \in UnitRow
        BY <1>4 DEF UnitRow
      <3> QED BY <1>4, <2>1, <3>1, <3>2
    <2>5. related' \subseteq Units \X Units \X {"UPDATES", "CONTRADICTS"}
      BY <2>1, <2>2, <2>3 DEF TablesOK
    <2>6. UNCHANGED <<items, changes>>
      BY <1>8 DEF Insert
    <2> QED BY <1>1, <2>4, <2>5, <2>6 DEF TablesOK, VersionsKept, UnitRow
  <1>9. CASE Invalidate(i)
    <2>1. \A u \in Units : [memory[u] EXCEPT !.latest = FALSE] \in UnitRow
      BY <1>4 DEF UnitRow
    <2>2. memory' \in [Units -> UnitRow]
      BY <1>4, <1>9, <2>1 DEF Invalidate
    <2> QED BY <1>2, <1>9, <2>2 DEF Invalidate
  <1>10. CASE ReportChange(i)
    <2>1. work[i].source \in Sources /\ work[i].version \in Nat
      BY <1>1, <1>10 DEF ReportChange, Fits, WorkRow
    <2>2. changes' \subseteq [source : Sources, version : Nat, review : {"automatic", "needs_review"}]
      BY <1>10, <2>1 DEF ReportChange, TablesOK
    <2> QED BY <1>1, <1>10, <2>2 DEF ReportChange, TablesOK, VersionsKept
  <1>11. CASE RetireWrite(i)
    <2> DEFINE held == work[i].held
    <2>1. \A u \in DOMAIN held : u \in Units => held[u] \in SUBSET Sources
      <3>1. CASE held = <<>>
        BY <3>1
      <3>2. CASE held # <<>>
        <4>1. PICK D \in SUBSET Units : held \in [D -> SUBSET Sources]
          BY <1>1, <3>2 DEF WorkRow, Held
        <4> QED BY <4>1
      <3> QED BY <3>1, <3>2
    <2>2. memory' = [u \in Units |->
            IF u \notin DOMAIN held THEN memory[u]
            ELSE IF held[u] # {} THEN [memory[u] EXCEPT !.sources = held[u]]
            ELSE [memory[u] EXCEPT !.latest = FALSE]]
      BY <1>11 DEF RetireWrite
    <2> HIDE DEF held
    <2>3. \A u \in Units : /\ [memory[u] EXCEPT !.latest = FALSE] \in UnitRow
                           /\ u \in DOMAIN held => [memory[u] EXCEPT !.sources = held[u]] \in UnitRow
      BY <1>4, <2>1 DEF UnitRow
    <2>4. memory' \in [Units -> UnitRow]
      BY <1>4, <2>2, <2>3
    <2> QED BY <1>2, <1>11, <2>4 DEF RetireWrite
  <1>12. CASE DropItems(i)
    BY <1>3, <1>5, <1>12 DEF DropItems
  <1> QED BY <1>6, <1>7, <1>8, <1>9, <1>10, <1>11, <1>12 DEF MemoryStep

(***************************************************************************)
(* Inserting the version that was reserved, if it is still free.           *)
(***************************************************************************)
LEMMA Inserted ==
    ASSUME NEW rs, NEW more, NEW v, Numbered(rs), Follows(v, rs), v \notin Versions(rs),
           Versions(more) = Versions(rs) \union {v}
    PROVE  Numbered(more) /\ Newest(more) = v /\ Newest(rs) = v - 1 /\ v \in Nat \ {0}
  <1>1. PICK n \in Nat : Versions(rs) = 1..n
    BY DEF Numbered
  <1>2. v = n + 1
    BY <1>1, NextVersion
  <1>3. Versions(more) = 1..(n + 1)
    BY <1>1, <1>2
  <1>4. Newest(more) = n + 1 /\ Newest(rs) = n
    BY <1>1, <1>3, NewestIs
  <1> QED BY <1>2, <1>3, <1>4 DEF Numbered

\* A revision's insertion: versions and texts stay unique, and it alone is current.
LEMMA RevisionInserted ==
    ASSUME IInv, NEW i \in Threads, InsertRevision(i)
    PROVE  /\ TablesOK' /\ TablesNumbered' /\ OneCurrentRevision'
           /\ \A s \in Sources : Versions(revisions[s]) \subseteq Versions(revisions'[s])
  <1> USE DEF IInv
  <1> DEFINE s == work[i].source
             v == work[i].version
             new == [version |-> v, text |-> work[i].text, status |-> "current"]
             rs == revisions[s]
             old == Superseded(rs, v - 1)
  <1>1. /\ s \in Sources /\ work[i].text \in Texts /\ pc[i] = "supersede"
        /\ Follows(v, rs) /\ ~Refused(s, v, work[i].text)
    BY Notes DEF InsertRevision, At, Fits, Ingesting, Withdrawing, Places, Reserves
  <1>2. /\ revisions' = [revisions EXCEPT ![s] = old \union {new}]
        /\ UNCHANGED <<items, memory, related, changes, artifacts, skills>>
    BY DEF InsertRevision
  <1>3. revisions \in [Sources -> SUBSET RevisionRow] /\ rs \in SUBSET RevisionRow
    BY <1>1 DEF TablesOK
  <1>4. v \notin Versions(rs)
    BY <1>1 DEF Refused, Versions
  <1> DEFINE Aged(r) == [r EXCEPT !.status = IF r.version = v - 1 THEN "superseded" ELSE @]
  <1>5. old = {Aged(r) : r \in rs}
    BY DEF Superseded
  <1>6. ASSUME NEW r \in rs
        PROVE  Aged(r) \in RevisionRow /\ Aged(r).version = r.version /\ Aged(r).text = r.text
               /\ Aged(r).status = (IF r.version = v - 1 THEN "superseded" ELSE r.status)
    BY <1>3 DEF RevisionRow
  <1> HIDE DEF Aged
  <1>7. Versions(old \union {new}) = Versions(rs) \union {v}
    <2>1. new.version = v
      OBVIOUS
    <2> HIDE DEF old, new, rs, v
    <2>2. {r.version : r \in {Aged(r) : r \in rs}} = {r.version : r \in rs}
      BY <1>6
    <2>3. {r.version : r \in old \union {new}} = {r.version : r \in old} \union {new.version}
      OBVIOUS
    <2> QED BY <1>5, <2>1, <2>2, <2>3 DEF Versions
  <1>8. /\ Numbered(old \union {new}) /\ Newest(old \union {new}) = v
        /\ Newest(rs) = v - 1 /\ v \in Nat \ {0}
    <2>1. Numbered(rs)
      BY <1>1 DEF TablesNumbered
    <2> HIDE DEF old, new, rs, v
    <2> QED BY <1>1, <1>4, <1>7, <2>1, Inserted
  <1>9. new \in RevisionRow
    BY <1>1, <1>8 DEF RevisionRow
  <1>10. TablesOK'
    <2>1. old \union {new} \in SUBSET RevisionRow
      BY <1>5, <1>6, <1>9
    <2> HIDE DEF old, new
    <2>2. revisions' \in [Sources -> SUBSET RevisionRow]
      BY <1>2, <1>3, <2>1
    <2> QED BY <1>2, <2>2 DEF TablesOK
  <1>11. ASSUME NEW q \in Sources
         PROVE  revisions'[q] = IF q = s THEN old \union {new} ELSE revisions[q]
    BY <1>2, <1>3
  <1>12. TablesNumbered'
    BY <1>2, <1>8, <1>11 DEF TablesNumbered
  <1>13. \A q \in Sources : Versions(revisions[q]) \subseteq Versions(revisions'[q])
    BY <1>7, <1>11
  <1>14. OneCurrentRevision'
    <2>1. ASSUME NEW q \in old \union {new}, NEW r \in old \union {new},
                 q.version = r.version \/ q.text = r.text
          PROVE  q = r
      <3>1. ASSUME NEW a \in rs
            PROVE  Aged(a).version # new.version /\ Aged(a).text # new.text
        BY <1>1, <1>6 DEF Refused
      <3>2. ASSUME NEW a \in rs, NEW b \in rs, a.version = b.version \/ a.text = b.text
            PROVE  a = b
        BY <1>1, <3>2 DEF OneCurrentRevision
      <3> HIDE DEF old, new
      <3> QED BY <1>5, <1>6, <2>1, <3>1, <3>2
    <2>2. ASSUME NEW r \in rs
          PROVE  Aged(r).status # "current" /\ Aged(r).version # v
      <3>1. r.status = "current" <=> r.version = v - 1
        BY <1>1, <1>8 DEF OneCurrentRevision
      <3>2. r.version # v
        BY <1>4 DEF Versions
      <3> QED BY <1>6, <3>1, <3>2
    <2>3. \A r \in old \union {new} : r.status = "current" <=> r.version = Newest(old \union {new})
      <3>1. Newest(old \union {new}) = v /\ new.status = "current" /\ new.version = v
        BY <1>8
      <3> HIDE DEF old, new
      <3> QED BY <1>5, <2>2, <3>1
    <2> HIDE DEF old, new
    <2> QED BY <1>11, <2>1, <2>3 DEF OneCurrentRevision
  <1> QED BY <1>10, <1>12, <1>13, <1>14

\* An artifact's next revision.
LEMMA ArtifactSaved ==
    ASSUME IInv, NEW i \in Threads, SaveArtifact(i)
    PROVE  /\ TablesOK' /\ TablesNumbered'
           /\ \A a \in Reports : Versions(artifacts[a].revisions) \subseteq Versions(artifacts'[a].revisions)
  <1> USE DEF IInv
  <1> DEFINE s == work[i].source
             v == work[i].version
             new == [version |-> v, text |-> work[i].text, memories |-> work[i].said]
             rs == artifacts[s].revisions
             more == rs \union {new}
  <1>1. /\ s \in Reports /\ work[i].text \in Texts /\ work[i].said \in SUBSET Units
        /\ Follows(v, rs) /\ ~SaveRefused(s, v, work[i].text)
    BY Notes DEF SaveArtifact, At, Fits, Ingesting, Withdrawing, Places, Reserves, WorkRow
  <1>2. /\ artifacts' = [artifacts EXCEPT ![s] = [revisions |-> more, current |-> v, status |-> "current"]]
        /\ UNCHANGED <<revisions, items, memory, related, changes, skills>>
    BY DEF SaveArtifact
  <1> DEFINE ArtifactTable == [revisions : SUBSET ArtifactRow, current : Nat, status : {"current", "stale"}]
  <1>3. artifacts \in [Reports -> ArtifactTable] /\ rs \in SUBSET ArtifactRow
    BY <1>1 DEF TablesOK
  <1>4. v \notin Versions(rs)
    BY <1>1 DEF SaveRefused, Versions
  <1>5. Versions(more) = Versions(rs) \union {v}
    <2>1. new.version = v
      OBVIOUS
    <2> HIDE DEF new, rs, v
    <2> QED BY <2>1 DEF Versions
  <1>6. Numbered(more) /\ v \in Nat \ {0}
    <2>1. Numbered(rs)
      BY <1>1 DEF TablesNumbered
    <2> HIDE DEF more, rs, v
    <2> QED BY <1>1, <1>4, <1>5, <2>1, Inserted
  <1>7. [revisions |-> more, current |-> v, status |-> "current"] \in ArtifactTable
    <2>1. new \in ArtifactRow
      BY <1>1, <1>6 DEF ArtifactRow
    <2>2. more \in SUBSET ArtifactRow
      BY <1>3, <2>1
    <2> HIDE DEF more, v
    <2> QED BY <1>6, <2>2
  <1> HIDE DEF more
  <1>8. TablesOK'
    <2>1. artifacts' \in [Reports -> ArtifactTable]
      BY <1>2, <1>3, <1>7
    <2> QED BY <1>2, <2>1 DEF TablesOK
  <1>9. \A a \in Reports : artifacts'[a].revisions = IF a = s THEN more ELSE artifacts[a].revisions
    BY <1>2, <1>3
  <1>10. TablesNumbered'
    BY <1>2, <1>6, <1>9 DEF TablesNumbered
  <1> QED BY <1>5, <1>8, <1>9, <1>10

\* Marking an artifact stale.
LEMMA ArtifactMarked ==
    ASSUME IInv, NEW i \in Threads, StaleArtifact(i)
    PROVE  /\ TablesOK' /\ TablesNumbered'
           /\ \A a \in Reports : artifacts'[a].revisions = artifacts[a].revisions
  <1> USE DEF IInv
  <1> DEFINE ArtifactTable == [revisions : SUBSET ArtifactRow, current : Nat, status : {"current", "stale"}]
  <1>1. PICK b : artifacts' = [artifacts EXCEPT ![b].status = "stale"]
    BY DEF StaleArtifact
  <1>2. artifacts \in [Reports -> ArtifactTable]
    BY DEF TablesOK
  <1>3. ASSUME NEW a \in Reports
        PROVE  artifacts'[a] = artifacts[a] \/ artifacts'[a] = [artifacts[a] EXCEPT !.status = "stale"]
    BY <1>1, <1>2
  <1>4. ASSUME NEW a \in Reports
        PROVE  artifacts'[a] \in ArtifactTable /\ artifacts'[a].revisions = artifacts[a].revisions
    BY <1>2, <1>3
  <1>5. artifacts' \in [Reports -> ArtifactTable]
    <2>1. artifacts' = [a \in Reports |-> artifacts'[a]]
      BY <1>1, <1>2
    <2> QED BY <1>4, <2>1
  <1>6. UNCHANGED <<revisions, items, memory, related, changes, skills>>
    BY DEF StaleArtifact
  <1> QED BY <1>4, <1>5, <1>6 DEF TablesOK, TablesNumbered

\* A skill's next version supersedes the one before.
LEMMA SkillPublished ==
    ASSUME IInv, NEW i \in Threads, PublishSkill(i)
    PROVE  TablesOK' /\ TablesNumbered' /\ OneCurrentSkill' /\ Versions(skills) \subseteq Versions(skills')
  <1> USE DEF IInv
  <1> DEFINE v == work[i].version
             new == [version |-> v, status |-> "current", memories |-> work[i].said]
             Aged(k) == [k EXCEPT !.status = IF @ = "current" THEN "superseded" ELSE @]
             old == {Aged(k) : k \in skills}
  <1>1. work[i].said \in SUBSET Units /\ Follows(v, skills) /\ v \notin Versions(skills)
    BY Notes DEF PublishSkill, At, Reserves, WorkRow, Versions
  <1>2. skills' = old \union {new} /\ UNCHANGED <<revisions, items, memory, related, changes, artifacts>>
    BY DEF PublishSkill
  <1>3. ASSUME NEW k \in skills
        PROVE  Aged(k) \in SkillRow /\ Aged(k).version = k.version /\ Aged(k).status # "current"
    BY DEF TablesOK, SkillRow
  <1>4. new.version = v
    OBVIOUS
  <1> HIDE DEF Aged
  <1>5. Versions(skills') = Versions(skills) \union {v}
    <2>1. {k.version : k \in old} = {k.version : k \in skills}
      BY <1>3
    <2> HIDE DEF old, new, v
    <2> QED BY <1>2, <1>4, <2>1 DEF Versions
  <1>6. Numbered(skills') /\ v \in Nat \ {0}
    <2> HIDE DEF v
    <2> QED BY <1>1, <1>5, Inserted DEF TablesNumbered
  <1>7. TablesOK'
    <2>1. new \in SkillRow
      BY <1>1, <1>6 DEF SkillRow
    <2>2. skills' \subseteq SkillRow
      BY <1>2, <1>3, <2>1
    <2> QED BY <1>2, <2>2 DEF TablesOK
  <1>8. TablesNumbered'
    BY <1>2, <1>6 DEF TablesNumbered
  <1>9. OneCurrentSkill'
    <2> HIDE DEF new
    <2> QED BY <1>2, <1>3 DEF OneCurrentSkill
  <1> QED BY <1>5, <1>7, <1>8, <1>9

\* Marking a skill stale.
LEMMA SkillMarked ==
    ASSUME IInv, NEW i \in Threads, OutdateSkill(i)
    PROVE  TablesOK' /\ TablesNumbered' /\ OneCurrentSkill' /\ Versions(skills') = Versions(skills)
  <1> USE DEF IInv
  <1>1. PICK n : skills' = {[k EXCEPT !.status = IF k.version = n THEN "stale" ELSE @] : k \in skills}
    BY DEF OutdateSkill
  <1> DEFINE Aged(k) == [k EXCEPT !.status = IF k.version = n THEN "stale" ELSE @]
  <1>2. ASSUME NEW k \in skills
        PROVE  /\ Aged(k) \in SkillRow /\ Aged(k).version = k.version
               /\ Aged(k).status = "current" => k.status = "current"
    BY DEF TablesOK, SkillRow
  <1>3. skills' = {Aged(k) : k \in skills} /\ UNCHANGED <<revisions, items, memory, related, changes, artifacts>>
    BY <1>1 DEF OutdateSkill
  <1> HIDE DEF Aged
  <1>4. TablesOK'
    <2>1. skills' \subseteq SkillRow
      BY <1>2, <1>3
    <2> QED BY <1>3, <2>1 DEF TablesOK
  <1>5. Versions(skills') = Versions(skills)
    BY <1>2, <1>3 DEF Versions
  <1>6. TablesNumbered'
    BY <1>3, <1>5 DEF TablesNumbered, Numbered
  <1>7. OneCurrentSkill'
    BY <1>2, <1>3 DEF OneCurrentSkill
  <1> QED BY <1>4, <1>5, <1>6, <1>7

-----------------------------------------------------------------------------
(***************************************************************************)
(* The inductive invariant.                                                *)
(***************************************************************************)
Grows ==
  /\ \A s \in Sources : Versions(revisions[s]) \subseteq Versions(revisions'[s])
  /\ \A a \in Reports : Versions(artifacts[a].revisions) \subseteq Versions(artifacts'[a].revisions)
  /\ Versions(skills) \subseteq Versions(skills')

\* Every step keeps the tables in order, and no version is ever taken back.
LEMMA TablesStep ==
    ASSUME IInv, [Next]_vars
    PROVE  TablesOK' /\ TablesNumbered' /\ OneCurrentRevision' /\ OneCurrentSkill' /\ Grows
  <1> USE DEF IInv
  <1>1. ASSUME UNCHANGED revisions
        PROVE  OneCurrentRevision' /\ \A s \in Sources : Versions(revisions[s]) \subseteq Versions(revisions'[s])
    BY <1>1 DEF OneCurrentRevision
  <1>2. ASSUME UNCHANGED skills
        PROVE  OneCurrentSkill' /\ Versions(skills) \subseteq Versions(skills')
    BY <1>2 DEF OneCurrentSkill
  <1>3. ASSUME UNCHANGED artifacts
        PROVE  \A a \in Reports : Versions(artifacts[a].revisions) \subseteq Versions(artifacts'[a].revisions)
    BY <1>3
  <1>4. CASE NoChange
    <2>1. VersionsKept
      BY <1>4 DEF NoChange, stored, VersionsKept
    <2>2. TablesOK' /\ TablesNumbered'
      BY <1>4 DEF NoChange, stored, TablesOK, TablesNumbered
    <2> QED BY <1>1, <1>2, <1>3, <2>1, <2>2 DEF VersionsKept, Grows
  <1>5. ASSUME NEW i \in Threads, MemoryStep(i)
        PROVE  TablesOK' /\ TablesNumbered' /\ OneCurrentRevision' /\ OneCurrentSkill' /\ Grows
    <2>1. VersionsKept /\ TablesOK'
      BY <1>5, MemoryStepKeeps, MemoryTyped
    <2>2. TablesNumbered'
      BY <2>1 DEF VersionsKept, TablesNumbered
    <2> QED BY <1>1, <1>2, <1>3, <2>1, <2>2 DEF VersionsKept, Grows
  <1>6. ASSUME NEW i \in Threads, VersionStep(i)
        PROVE  TablesOK' /\ TablesNumbered' /\ OneCurrentRevision' /\ OneCurrentSkill' /\ Grows
    <2>1. CASE InsertRevision(i)
      BY <1>2, <1>3, <2>1, RevisionInserted DEF InsertRevision, Grows
    <2>2. CASE SaveArtifact(i)
      BY <1>1, <1>2, <2>2, ArtifactSaved DEF SaveArtifact, Grows
    <2>3. CASE StaleArtifact(i)
      BY <1>1, <1>2, <2>3, ArtifactMarked DEF StaleArtifact, Grows
    <2>4. CASE PublishSkill(i)
      BY <1>1, <1>3, <2>4, SkillPublished DEF PublishSkill, Grows
    <2>5. CASE OutdateSkill(i)
      BY <1>1, <1>3, <2>5, SkillMarked DEF OutdateSkill, Grows
    <2> QED BY <1>6, <2>1, <2>2, <2>3, <2>4, <2>5 DEF VersionStep
  <1> QED BY <1>4, <1>5, <1>6, Writers

\* A thread that is about to insert a version has just read the newest one,
\* or was about to insert this one before.
Reserving == {"supersede", "publish", "offer"}
Waits(j) == pc'[j] = pc[j] /\ work'[j].version = work[j].version /\ work'[j].source = work[j].source

LEMMA StepMoves ==
    ASSUME ThreadsOK, NEW i \in Threads, NEW place, NEW w, Step(i, place, w)
    PROVE  pc'[i] = place /\ work'[i] = w /\ \A j \in Threads \ {i} : Waits(j)
  BY DEF ThreadsOK, Step, Goto, Note, Waits

LEMMA OthersWait ==
    ASSUME ThreadsOK, [Next]_vars
    PROVE  \A j \in Threads :
             pc'[j] \notin Reserving \/ Waits(j) \/ FindRevision(j) \/ FindArtifact(j) \/ FindVersion(j)
  <1> DEFINE Fine(i) == pc'[i] \notin Reserving /\ \A j \in Threads \ {i} : Waits(j)
  <1>1. CASE UNCHANGED vars
    BY <1>1 DEF vars, Waits
  <1>2. ASSUME NEW i \in Threads, NEW place, place \notin Reserving, NEW w, Step(i, place, w)
        PROVE  Fine(i)
    BY <1>2, StepMoves
  <1>3. ASSUME NEW i \in Threads, NEW operation, NEW place, place \notin Reserving, NEW w,
               Start(i, operation, place, w)
        PROVE  Fine(i)
    <2>1. pc'[i] = place
      BY <1>3 DEF Start, Goto, ThreadsOK
    <2>2. ASSUME NEW j \in Threads \ {i}
          PROVE  Waits(j)
      <3>1. pc'[j] = pc[j] /\ work'[j] = [work[j] EXCEPT !.alone = FALSE, !.stood = {}] /\ work[j] \in WorkRow
        BY <1>3 DEF Start, Goto, ThreadsOK
      <3> QED BY <3>1 DEF Waits, WorkRow
    <2> QED BY <1>3, <2>1, <2>2
  <1>4. ASSUME NEW i \in Threads, Upload(i) \/ Apply(i) \/ Remove(i) \/ Scan(i) \/ Compile(i)
        PROVE  Fine(i)
    <2> HIDE DEF Fine
    <2> QED BY <1>3, <1>4 DEF Upload, Apply, Remove, Scan, Compile, Reserving
  <1>5. ASSUME NEW i \in Threads,
               \/ Begin(i) \/ InsertRevision(i) \/ InsertRefused(i) \/ FindPrevious(i)
               \/ Invalidate(i) \/ ReportChange(i) \/ FindArtifacts(i) \/ StaleArtifact(i)
               \/ FindSkills(i) \/ OutdateSkill(i) \/ SaveArtifact(i) \/ SaveFails(i) \/ Done(i)
        PROVE  Fine(i)
    <2> HIDE DEF Fine
    <2>1. CASE Begin(i) \/ InsertRevision(i) \/ InsertRefused(i) \/ FindPrevious(i) \/ Invalidate(i) \/ ReportChange(i)
      BY <1>2, <2>1 DEF Begin, InsertRevision, InsertRefused, FindPrevious, Invalidate, ReportChange, Reserving
    <2>2. CASE FindArtifacts(i) \/ StaleArtifact(i) \/ FindSkills(i) \/ OutdateSkill(i)
      BY <1>2, <2>2 DEF FindArtifacts, StaleArtifact, FindSkills, OutdateSkill, Reserving
    <2>3. CASE SaveArtifact(i) \/ SaveFails(i) \/ Done(i)
      BY <1>2, <2>3 DEF SaveArtifact, SaveFails, Done, Reserving
    <2> QED BY <1>5, <2>1, <2>2, <2>3
  <1>6. ASSUME NEW i \in Threads, FileItem(i) \/ Merge(i) \/ Insert(i)
        PROVE  Fine(i)
    <2> HIDE DEF Fine
    <2>1. \A n : Telling(i, n) \notin Reserving
      BY DEF Telling, Reserving
    <2> QED BY <1>2, <1>6, <2>1 DEF FileItem, Merge, Insert
  <1>7. ASSUME NEW i \in Threads, Withdraw(i) \/ PublishSkill(i) \/ SkillRefused(i)
        PROVE  Fine(i)
    <2> HIDE DEF Fine
    <2> QED BY <1>2, <1>7 DEF Withdraw, RetireList, RetireWrite, DropItems, ScanFile, ScanGone,
                              PublishSkill, SkillRefused, Reserving
  <1>8. ASSUME NEW i \in Threads, Fails(i)
        PROVE  Fine(i)
    BY <1>8 DEF Fails, Goto, Note, ThreadsOK, Waits, Reserving
  <1>9. ASSUME NEW i \in Threads, FindRevision(i) \/ FindArtifact(i) \/ FindVersion(i)
        PROVE  \A j \in Threads \ {i} : Waits(j)
    BY <1>9, StepMoves DEF FindRevision, FindArtifact, FindVersion
  <1> QED BY <1>1, <1>4, <1>5, <1>6, <1>7, <1>8, <1>9 DEF Next, Ingest, MakeSkill

\* What is reserved stays the successor of what is in the table.
LEMMA ReservesStep ==
    ASSUME IInv, [Next]_vars
    PROVE  \A i \in Threads : Reserves(pc[i], work[i])'
  <1> USE DEF IInv
  <1> TAKE i \in Threads
  <1>1. CASE pc'[i] \notin Reserving
    BY <1>1 DEF Reserves, Reserving
  <1>2. CASE pc'[i] \in Reserving /\ Waits(i)
    <2>1. Grows /\ Reserves(pc[i], work[i])
      BY TablesStep
    <2>2. /\ pc[i] = "supersede" => work[i].source \in Sources
          /\ pc[i] = "publish" => work[i].source \in Reports
      BY Notes DEF Fits, Ingesting, Withdrawing, Places
    <2> QED BY <1>2, <2>1, <2>2, FollowsMore DEF Waits, Grows, Reserves
  <1>3. CASE FindRevision(i) /\ pc'[i] \in Reserving
    <2> DEFINE s == work[i].source
               w == [work[i] EXCEPT !.version = Newest(revisions[s]) + 1, !.created = TRUE]
    <2>1. pc'[i] = "supersede" /\ work'[i] = w
      <3>1. ASSUME NEW v, Step(i, "file", v)
            PROVE  FALSE
        BY <1>3, <3>1, StepMoves DEF Reserving
      <3>2. Step(i, "supersede", w)
        BY <1>3, <3>1 DEF FindRevision
      <3> HIDE DEF w
      <3> QED BY <3>2, StepMoves
    <2>2. w.version = Newest(revisions[s]) + 1 /\ w.source = s
      BY Notes DEF WorkRow
    <2>3. s \in Sources
      BY <1>3, Notes DEF FindRevision, At, Fits, Ingesting, Withdrawing, Places
    <2>4. revisions' = revisions
      BY <1>3 DEF FindRevision, NoChange, stored
    <2> HIDE DEF w
    <2> QED BY <2>1, <2>2, <2>3, <2>4, NewestFollows DEF TablesNumbered, Reserves
  <1>4. CASE FindArtifact(i) /\ pc'[i] \in Reserving
    <2> DEFINE s == work[i].source
               w == [work[i] EXCEPT !.version = Newest(artifacts[s].revisions) + 1]
    <2>1. pc'[i] = "publish" /\ work'[i] = w /\ s \in Reports
      BY <1>4, StepMoves DEF FindArtifact, Reserving
    <2>2. w.version = Newest(artifacts[s].revisions) + 1 /\ w.source = s
      BY Notes DEF WorkRow
    <2>3. artifacts' = artifacts
      BY <1>4 DEF FindArtifact, NoChange, stored
    <2> HIDE DEF w
    <2> QED BY <2>1, <2>2, <2>3, NewestFollows DEF TablesNumbered, Reserves
  <1>5. CASE FindVersion(i)
    <2> DEFINE w == [work[i] EXCEPT !.version = Newest(skills) + 1]
    <2>1. pc'[i] = "offer" /\ work'[i] = w
      BY <1>5, StepMoves DEF FindVersion
    <2>2. w.version = Newest(skills) + 1
      BY Notes DEF WorkRow
    <2>3. skills' = skills
      BY <1>5 DEF FindVersion, NoChange, stored
    <2> HIDE DEF w
    <2> QED BY <2>1, <2>2, <2>3, NewestFollows DEF TablesNumbered, Reserves
  <1> QED BY <1>1, <1>2, <1>3, <1>4, <1>5, OthersWait

LEMMA IInvInit == Init => IInv
  <1> SUFFICES ASSUME Init PROVE IInv
    OBVIOUS
  <1>1. TablesOK
    BY DEF Init, TablesOK
  <1>2. ThreadsOK
    BY IdleFits DEF Init, ThreadsOK
  <1>3. Numbered({})
    <2>1. Versions({}) = 1..0
      BY DEF Versions
    <2> QED BY <2>1 DEF Numbered
  <1>4. TablesNumbered
    BY <1>3 DEF Init, TablesNumbered
  <1>5. OneCurrentRevision /\ OneCurrentSkill
    BY DEF Init, OneCurrentRevision, OneCurrentSkill
  <1>6. \A i \in Threads : Reserves(pc[i], work[i])
    BY DEF Init, Reserves
  <1> QED BY <1>1, <1>2, <1>4, <1>5, <1>6 DEF IInv

LEMMA IInvStep == IInv /\ [Next]_vars => IInv'
  BY TablesStep, ThreadsStep, ReservesStep DEF IInv

\* Tables, threads and reservations fit each other in every reachable state.
THEOREM MemoryInductive == Spec => []IInv
  BY IInvInit, IInvStep, PTL DEF Spec

\* Every table holds rows of its schema and its status vocabulary.
THEOREM TablesStayTyped == Spec => []TablesOK
  <1>1. IInv => TablesOK
    BY DEF IInv
  <1> QED BY <1>1, MemoryInductive, PTL

\* However ingestions overlap or die, the revisions of a source are numbered
\* 1..n, each text has one, and only the newest is current.
THEOREM OneRevisionIsCurrent == Spec => []OneCurrentRevision
  <1>1. IInv => OneCurrentRevision
    BY DEF IInv
  <1> QED BY <1>1, MemoryInductive, PTL

\* However compilations overlap, one version of a skill is offered to agents.
THEOREM OneSkillIsCurrent == Spec => []OneCurrentSkill
  <1>1. IInv => OneCurrentSkill
    BY DEF IInv
  <1> QED BY <1>1, MemoryInductive, PTL

-----------------------------------------------------------------------------
(***************************************************************************)
(* An ingestion that began alone and was left alone: the memory, and what  *)
(* rests on it, against its notes.                                         *)
(***************************************************************************)
\* What memory holds is current only if it says something.
Spoken == \A u \in Units : memory[u].latest => memory[u].says # None

\* What it does to memory, then to what rests on memory, then its artifact.
Speaking == {"revise", "supersede", "file", "remember", "write", "finalize"}
Marking == {"report", "artifacts", "stale", "skills", "outdate"}
Closing == {"save", "publish", "done"}

Retired(w) == w.stood \ (Latest \union w.withdrawn)
Replaced(w) == {p \in Units : \E e \in related : e[1] \in w.said \ w.before /\ e[2] = p}
Rests(a, w) == artifacts[a].status = "current" /\ CurrentMemories(a) \intersect Retired(w) # {}
Offers(k, w) == k.status = "current" /\ k.memories \intersect Retired(w) # {}

\* The previous row, once read, is still the one that was read.
KnowsPrevious(w) ==
  /\ w.previous \in Latest /\ w.from = memory[w.previous].sources
  /\ Subject[memory[w.previous].says] = Subject[Says[w.text][w.next]]

\* Nobody else is at work, and the notes are of the memory as it is.
NotesHold(i) ==
  LET w == work[i]
  IN /\ \A j \in Threads \ {i} : pc[j] = "idle"
     /\ pc[i] \in Speaking \union Marking \union Closing /\ w.next # 0
     /\ \A u \in w.before \union w.stood : memory[u].says # None
     /\ \A u \in w.said : memory[u].says # None /\ KeyOf(memory[u].says) \in KeysOf(w.text)
     /\ pc[i] \in {"finalize"} \union Marking \union Closing => w.next \notin DOMAIN Says[w.text]
     /\ pc[i] = "write" /\ w.previous # None => KnowsPrevious(w)

\* The last word so far: what was said before statement n.
WordSoFar(t, k, n) ==
  k < n /\ \A m \in DOMAIN Says[t] : k < m /\ m < n => Subject[Says[t][m]] # Subject[Says[t][k]]

\* The words so far are current; what the source said before and did not
\* repeat is there until the change set is written, and not after.
FollowsText(i) ==
  LET w == work[i]
  IN /\ \A k \in DOMAIN Says[w.text] : WordSoFar(w.text, k, w.next) =>
          \E u \in w.said \intersect CurrentOf(w.source) : memory[u].says = Says[w.text][k]
     /\ pc[i] \in Speaking => CurrentOf(w.source) \subseteq w.before \union w.said
     /\ pc[i] \in Marking \/ (pc[i] \in Closing /\ w.created) =>
          \A u \in CurrentOf(w.source) : KeyOf(memory[u].says) \in KeysOf(w.text)

\* What was retired is replaced or invalidated, so it is affected; what
\* rests on it is marked or still to be marked.
RetiredIsAffected(i) ==
  LET w == work[i]
  IN /\ pc[i] \in Speaking => Retired(w) \subseteq Replaced(w)
     /\ pc[i] = "report" => Retired(w) \subseteq Replaced(w) \union Invalidated(i)
     /\ pc[i] \in Marking \ {"report"} => Retired(w) \subseteq w.affected

MarksArtifacts(i) ==
  LET w == work[i]
  IN /\ pc[i] = "stale" => \A a \in Reports \ {w.source} : Rests(a, w) => a \in w.todo
     /\ pc[i] \in {"skills", "outdate"} \/ (pc[i] \in Closing /\ w.created) =>
          \A a \in Reports \ {w.source} : ~Rests(a, w)

MarksSkills(i) ==
  LET w == work[i]
  IN /\ pc[i] = "outdate" => \A k \in skills : Offers(k, w) => k.version \in w.todo
     /\ pc[i] \in Closing /\ w.created => \A k \in skills : ~Offers(k, w)

MarksAll(i) == RetiredIsAffected(i) /\ MarksArtifacts(i) /\ MarksSkills(i)
Solo(i) == NotesHold(i) /\ FollowsText(i) /\ MarksAll(i)

\* Before its notes begin, what a thread stood on is there but for what it
\* has withdrawn itself, and nobody else is at work.
Awaits(i) ==
  LET w == work[i]
  IN /\ pc[i] \in {"scan", "retire"} => w.stood = {}
     /\ pc[i] \in {"release", "drop", "begin"} /\ w.stood # {} =>
          /\ \A j \in Threads \ {i} : pc[j] = "idle"
          /\ \A u \in w.stood : memory[u].says # None
          /\ w.stood \subseteq Latest \union IF pc[i] = "release" THEN {} ELSE w.withdrawn

SoloInv == Spoken /\ (\A i \in Threads : Awaits(i)) /\ \A i \in Threads : work[i].alone => Solo(i)

-----------------------------------------------------------------------------
LEMMA SpokenStep ==
    ASSUME IInv, Spoken, [Next]_vars
    PROVE  Spoken'
  <1> USE DEF IInv
  <1>1. memory \in [Units -> UnitRow] /\ None \notin Statements
    BY SourceAssumption DEF TablesOK, UnitRow, None
  <1>2. CASE UNCHANGED memory
    BY <1>2 DEF Spoken
  <1>3. ASSUME NEW i \in Threads, Merge(i)
        PROVE  Spoken'
    <2>1. PICK S : memory' = [memory EXCEPT ![work[i].previous].sources = S]
      BY <1>3 DEF Merge
    <2>2. ASSUME NEW u \in Units
          PROVE  memory'[u].latest = memory[u].latest /\ memory'[u].says = memory[u].says
      BY <1>1, <2>1 DEF UnitRow
    <2> QED BY <2>2 DEF Spoken
  <1>4. ASSUME NEW i \in Threads, Insert(i)
        PROVE  Spoken'
    <2>1. PICK n \in Unused : \A v \in Units :
             \/ memory'[v] = [says |-> Said(i), sources |-> {work[i].source}, latest |-> TRUE]
             \/ memory'[v] = [memory[v] EXCEPT !.latest = FALSE]
             \/ memory'[v] = memory[v]
      BY <1>4 DEF Insert
    <2>2. Said(i) # None
      BY <1>1, <1>4, SaidIs DEF Insert, At
    <2>3. ASSUME NEW v \in Units PROVE memory'[v].latest => memory'[v].says # None
      <3>1. CASE memory'[v] = [says |-> Said(i), sources |-> {work[i].source}, latest |-> TRUE]
        BY <2>2, <3>1
      <3>2. CASE memory'[v] = [memory[v] EXCEPT !.latest = FALSE]
        BY <1>1, <3>2 DEF UnitRow
      <3>3. CASE memory'[v] = memory[v]
        BY <3>3 DEF Spoken
      <3> QED BY <2>1, <3>1, <3>2, <3>3
    <2> QED BY <2>3 DEF Spoken
  <1>5. ASSUME NEW i \in Threads, Invalidate(i)
        PROVE  Spoken'
    <2>1. ASSUME NEW v \in Units PROVE memory'[v].latest => memory'[v].says # None
      <3>1. memory'[v] = memory[v] \/ memory'[v] = [memory[v] EXCEPT !.latest = FALSE]
        BY <1>5 DEF Invalidate
      <3> QED BY <1>1, <3>1 DEF Spoken, UnitRow
    <2> QED BY <2>1 DEF Spoken
  <1>6. ASSUME NEW i \in Threads, RetireWrite(i)
        PROVE  Spoken'
    <2>1. ASSUME NEW v \in Units PROVE memory'[v].latest => memory'[v].says # None
      <3>1. \/ memory'[v] = memory[v] \/ memory'[v] = [memory[v] EXCEPT !.latest = FALSE]
            \/ memory'[v] = [memory[v] EXCEPT !.sources = work[i].held[v]]
        BY <1>6 DEF RetireWrite
      <3> QED BY <1>1, <3>1 DEF Spoken, UnitRow
    <2> QED BY <2>1 DEF Spoken
  <1>7. ASSUME NEW i \in Threads, MemoryStep(i) \/ VersionStep(i)
        PROVE  Spoken'
    BY <1>2, <1>3, <1>4, <1>5, <1>6, <1>7 DEF MemoryStep, VersionStep, FileItem, ReportChange, DropItems,
       InsertRevision, SaveArtifact, StaleArtifact, PublishSkill, OutdateSkill
  <1> QED BY <1>2, <1>7, Writers DEF NoChange, stored

\* Whoever begins parts every thread from what it stood on.
Apart(w) == w.alone = FALSE /\ w.stood = {}
Parted == \A i \in Threads : Apart(work'[i])

LEMMA BeginsParted ==
    ASSUME IInv, NEW j \in Threads, Upload(j) \/ Apply(j) \/ Remove(j) \/ Scan(j) \/ Compile(j)
    PROVE  Parted
  <1>0. ASSUME NEW operation, NEW place, NEW w, Start(j, operation, place, w),
               Apart([w EXCEPT !.id = starts + 1])
        PROVE  Parted
    <2> SUFFICES ASSUME NEW i \in Threads PROVE Apart(work'[i])
      BY DEF Parted
    <2>1. work'[i] = IF i = j THEN [w EXCEPT !.id = starts + 1] ELSE [work[i] EXCEPT !.alone = FALSE, !.stood = {}]
      BY <1>0 DEF Start
    <2>2. Apart([work[i] EXCEPT !.alone = FALSE, !.stood = {}])
      BY Notes DEF IInv, WorkRow, Apart
    <2> QED BY <1>0, <2>1, <2>2
  <1>1. CASE Upload(j)
    <2>1. PICK s \in Sources, t \in Texts :
             Start(j, "upload", "begin", [Idle EXCEPT !.source = s, !.text = t])
      BY <1>1 DEF Upload
    <2>2. Apart([[Idle EXCEPT !.source = s, !.text = t] EXCEPT !.id = starts + 1])
      BY DEF Idle, Apart
    <2> QED BY <1>0, <2>1, <2>2
  <1>2. CASE Apply(j)
    <2>1. ASSUME NEW s, NEW t, Start(j, "apply", "begin", [Idle EXCEPT !.source = s, !.text = t])
          PROVE  Parted
      <3>1. Apart([[Idle EXCEPT !.source = s, !.text = t] EXCEPT !.id = starts + 1])
        BY DEF Idle, Apart
      <3> QED BY <1>0, <2>1, <3>1
    <2>2. ASSUME NEW s, NEW t, NEW d,
                 Start(j, "apply", "retire", [Idle EXCEPT !.source = s, !.text = t, !.todo = {d}])
          PROVE  Parted
      <3>1. Apart([[Idle EXCEPT !.source = s, !.text = t, !.todo = {d}] EXCEPT !.id = starts + 1])
        BY DEF Idle, Apart
      <3> QED BY <1>0, <2>2, <3>1
    <2> QED BY <1>2, <2>1, <2>2 DEF Apply
  <1>3. CASE Remove(j)
    <2>1. PICK s, d : Start(j, "remove", "retire", [Idle EXCEPT !.source = s, !.todo = {d}])
      BY <1>3 DEF Remove
    <2>2. Apart([[Idle EXCEPT !.source = s, !.todo = {d}] EXCEPT !.id = starts + 1])
      BY DEF Idle, Apart
    <2> QED BY <1>0, <2>1, <2>2
  <1>4. CASE Scan(j)
    <2>1. PICK tree \in [Files -> Texts \union {None}], on \in [Files -> UNION {Filed(s) : s \in Files}] :
             Start(j, "scan", "scan",
               [Idle EXCEPT !.scan = {<<s, tree[s], on[s]>> : s \in {f \in Files : tree[f] # None}},
                            !.gone = {s \in Files : tree[s] = None /\ on[s] # None}])
      BY <1>4 DEF Scan
    <2> DEFINE d == {<<s, tree[s], on[s]>> : s \in {f \in Files : tree[f] # None}}
               g == {s \in Files : tree[s] = None /\ on[s] # None}
    <2>2. Start(j, "scan", "scan", [Idle EXCEPT !.scan = d, !.gone = g])
      BY <2>1
    <2> HIDE DEF d, g
    <2>3. Apart([[Idle EXCEPT !.scan = d, !.gone = g] EXCEPT !.id = starts + 1])
      BY DEF Idle, Apart
    <2> QED BY <1>0, <2>2, <2>3
  <1>5. CASE Compile(j)
    <2>1. PICK d : Start(j, "compile", "compile", [Idle EXCEPT !.said = d])
      BY <1>5 DEF Compile
    <2>2. Apart([[Idle EXCEPT !.said = d] EXCEPT !.id = starts + 1])
      BY DEF Idle, Apart
    <2> QED BY <1>0, <2>1, <2>2
  <1> QED BY <1>1, <1>2, <1>3, <1>4, <1>5

\* A thread that goes on is at work, and leaves the others where they are.
LEMMA GoesAlone ==
    ASSUME IInv, NEW j \in Threads, Ingest(j) \/ Withdraw(j) \/ MakeSkill(j) \/ Fails(j)
    PROVE  pc[j] # "idle" /\ \A k \in Threads \ {j} : work'[k] = work[k] /\ pc'[k] = pc[k]
  <1> USE DEF IInv
  <1>1. ASSUME NEW place, NEW w, Step(j, place, w)
        PROVE  \A k \in Threads \ {j} : work'[k] = work[k] /\ pc'[k] = pc[k]
    BY <1>1 DEF Step, Note, Goto, ThreadsOK
  <1>2. CASE Begin(j) \/ FindRevision(j) \/ InsertRevision(j) \/ InsertRefused(j) \/ FileItem(j) \/ FindPrevious(j)
    BY <1>1, <1>2 DEF At, Begin, FindRevision, InsertRevision, InsertRefused, FileItem, FindPrevious
  <1>3. CASE Merge(j) \/ Insert(j) \/ Invalidate(j) \/ ReportChange(j) \/ FindArtifacts(j) \/ StaleArtifact(j)
    BY <1>1, <1>3 DEF At, Merge, Insert, Invalidate, ReportChange, FindArtifacts, StaleArtifact
  <1>4. CASE FindSkills(j) \/ OutdateSkill(j) \/ FindArtifact(j) \/ SaveArtifact(j) \/ SaveFails(j) \/ Done(j)
    BY <1>1, <1>4 DEF At, FindSkills, OutdateSkill, FindArtifact, SaveArtifact, SaveFails, Done
  <1>5. CASE Withdraw(j)
    BY <1>1, <1>5 DEF At, Withdraw, RetireList, RetireWrite, DropItems, ScanFile, ScanGone
  <1>6. CASE MakeSkill(j)
    BY <1>1, <1>6 DEF At, MakeSkill, FindVersion, PublishSkill, SkillRefused
  <1>7. CASE Fails(j)
    BY <1>7 DEF At, Fails, Note, Goto, ThreadsOK
  <1> QED BY <1>2, <1>3, <1>4, <1>5, <1>6, <1>7 DEF Ingest

\* Whoever else begins ends a thread's solitude, so a thread that is alone
\* after a step has taken that step itself, in its ingestion.
LEMMA OnlyMine ==
    ASSUME IInv, SoloInv, Next, NEW i \in Threads, work'[i].alone
    PROVE  Ingest(i) /\ (Begin(i) \/ work[i].alone)
  <1> USE DEF IInv
  <1>1. \A j \in Threads : work[j] \in WorkRow
    BY Notes
  <1>5. ASSUME NEW j \in Threads, j # i, Ingest(j) \/ Withdraw(j) \/ MakeSkill(j) \/ Fails(j)
        PROVE  FALSE
    <2>1. work[i].alone /\ pc[j] # "idle"
      BY <1>5, GoesAlone
    <2> QED BY <1>5, <2>1 DEF SoloInv, Solo, NotesHold
  <1>6. ASSUME NEW w, w.alone => work[i].alone, NEW place, Step(i, place, w)
        PROVE  work[i].alone
    <2>1. work'[i] = w
      BY <1>6, StepMoves
    <2> QED BY <1>6, <2>1
  <1>7. Idle.alone = FALSE
    BY DEF Idle
  <1>8. ASSUME Withdraw(i) \/ MakeSkill(i) \/ Fails(i)
        PROVE  FALSE
    <2>1. CASE Fails(i)
      BY <1>7, <2>1 DEF Fails, Note, ThreadsOK
    <2>2. CASE MakeSkill(i)
      <3>1. work[i].alone
        <4>1. [work[i] EXCEPT !.version = Newest(skills) + 1].alone = work[i].alone
          BY <1>1 DEF WorkRow
        <4> QED BY <1>6, <1>7, <2>2, <4>1 DEF MakeSkill, FindVersion, PublishSkill, SkillRefused
      <3>2. pc[i] \in {"compile", "offer"}
        BY <2>2 DEF MakeSkill, FindVersion, PublishSkill, SkillRefused, At
      <3> QED BY <3>1, <3>2 DEF SoloInv, Solo, NotesHold, Speaking, Marking, Closing
    <2>3. CASE Withdraw(i)
      <3>1. work[i].alone
        <4>1. CASE RetireList(i)
          <5> DEFINE h == [u \in CurrentOf(work[i].source) |-> memory[u].sources \ {work[i].source}]
                     w == [work[i] EXCEPT !.stood = Standing(i), !.held = h]
          <5>1. Step(i, "release", w)
            BY <4>1 DEF RetireList
          <5> HIDE DEF h
          <5>2. w.alone = work[i].alone
            BY <1>1 DEF WorkRow
          <5> HIDE DEF w
          <5> QED BY <1>6, <5>1, <5>2
        <4>2. CASE RetireWrite(i) \/ DropItems(i)
          <5>1. ASSUME NEW d
                PROVE  /\ [work[i] EXCEPT !.withdrawn = d, !.held = <<>>].alone = work[i].alone
                       /\ [work[i] EXCEPT !.todo = {}].alone = work[i].alone
            BY <1>1 DEF WorkRow
          <5> QED BY <1>6, <4>2, <5>1 DEF RetireWrite, DropItems
        <4>3. CASE ScanFile(i)
          <5>1. PICK f : \E place :
                   \/ Step(i, place, [work[i] EXCEPT !.scan = @ \ {f}])
                   \/ Step(i, place, [work[i] EXCEPT !.scan = @ \ {f}, !.source = f[1], !.text = f[2]])
            BY <4>3 DEF ScanFile
          <5>2. /\ [work[i] EXCEPT !.scan = @ \ {f}].alone = work[i].alone
                /\ [work[i] EXCEPT !.scan = @ \ {f}, !.source = f[1], !.text = f[2]].alone = work[i].alone
            BY <1>1 DEF WorkRow
          <5> QED BY <1>6, <5>1, <5>2
        <4>4. CASE ScanGone(i)
          <5>1. ASSUME NEW s, Step(i, "retire", [work[i] EXCEPT !.gone = @ \ {s}, !.source = s, !.text = None])
                PROVE  work[i].alone
            <6>1. [work[i] EXCEPT !.gone = @ \ {s}, !.source = s, !.text = None].alone = work[i].alone
              BY <1>1 DEF WorkRow
            <6> QED BY <1>6, <5>1, <6>1
          <5> QED BY <1>6, <1>7, <4>4, <5>1 DEF ScanGone
        <4> QED BY <2>3, <4>1, <4>2, <4>3, <4>4 DEF Withdraw
      <3>2. pc[i] \in {"retire", "release", "drop", "scan"}
        BY <2>3 DEF Withdraw, RetireList, RetireWrite, DropItems, ScanFile, ScanGone, At
      <3> QED BY <3>1, <3>2 DEF SoloInv, Solo, NotesHold, Speaking, Marking, Closing
    <2> QED BY <1>8, <2>1, <2>2, <2>3
  <1>9. ASSUME Ingest(i), ~Begin(i)
        PROVE  work[i].alone
    <2>1. ASSUME NEW v, NEW c, NEW p, NEW q, NEW d
          PROVE  /\ [work[i] EXCEPT !.version = v, !.created = c].alone = work[i].alone
                 /\ [work[i] EXCEPT !.previous = p, !.from = q].alone = work[i].alone
                 /\ [work[i] EXCEPT !.affected = d].alone = work[i].alone
                 /\ [work[i] EXCEPT !.todo = d].alone = work[i].alone
                 /\ [work[i] EXCEPT !.version = v].alone = work[i].alone
                 /\ Told(i, p).alone = work[i].alone
                 /\ [Idle EXCEPT !.id = v, !.scan = p, !.gone = q].alone = FALSE
      BY <1>1 DEF WorkRow, Told, Idle
    <2>2. CASE FindRevision(i) \/ InsertRevision(i) \/ InsertRefused(i) \/ FileItem(i)
      <3>1. CASE FindRevision(i)
        <4>1. PICK place, v, c : Step(i, place, [work[i] EXCEPT !.version = v, !.created = c])
          BY <3>1 DEF FindRevision
        <4> DEFINE w == [work[i] EXCEPT !.version = v, !.created = c]
        <4>2. w.alone = work[i].alone
          BY <1>1 DEF WorkRow
        <4> HIDE DEF w
        <4> QED BY <1>6, <4>1, <4>2 DEF w
      <3> QED BY <1>6, <1>7, <2>2, <3>1 DEF InsertRevision, InsertRefused, FileItem
    <2>3. CASE FindPrevious(i) \/ Merge(i) \/ Insert(i)
      BY <1>6, <2>1, <2>3 DEF FindPrevious, Merge, Insert
    <2>4. CASE Invalidate(i) \/ ReportChange(i) \/ FindArtifacts(i) \/ StaleArtifact(i)
      BY <1>6, <2>1, <2>4 DEF Invalidate, ReportChange, FindArtifacts, StaleArtifact
    <2>5. CASE FindSkills(i) \/ OutdateSkill(i) \/ FindArtifact(i)
      BY <1>6, <2>1, <2>5 DEF FindSkills, OutdateSkill, FindArtifact
    <2>6. CASE SaveArtifact(i) \/ SaveFails(i) \/ Done(i)
      BY <1>6, <1>7, <2>1, <2>6 DEF SaveArtifact, SaveFails, Done
    <2> QED BY <1>9, <2>2, <2>3, <2>4, <2>5, <2>6 DEF Ingest
  <1> QED BY <1>5, <1>8, <1>9, BeginsParted DEF Next, Parted, Apart

-----------------------------------------------------------------------------
(***************************************************************************)
(* Steps that leave memory and what the thread noted of it alone.          *)
(***************************************************************************)
SameNotes(v, w) ==
  /\ w.source = v.source /\ w.text = v.text /\ w.before = v.before /\ w.said = v.said
  /\ w.next = v.next /\ w.stood = v.stood /\ w.withdrawn = v.withdrawn
OthersKeep(i) == \A j \in Threads \ {i} : pc'[j] = pc[j]
Quiet(i) == memory' = memory /\ related' = related /\ OthersKeep(i) /\ SameNotes(work[i], work'[i])
Ready(place, w) == place \in {"finalize"} \union Marking \union Closing => w.next \notin DOMAIN Says[w.text]

LEMMA QuietNotes ==
    ASSUME NEW i \in Threads, NotesHold(i), Quiet(i), pc'[i] \in Speaking \union Marking \union Closing,
           Ready(pc'[i], work'[i]), pc'[i] = "write" /\ work'[i].previous # None => KnowsPrevious(work[i])'
    PROVE  NotesHold(i)'
  BY DEF NotesHold, Quiet, OthersKeep, SameNotes, Ready, KeysOf

LEMMA QuietFollows ==
    ASSUME NEW i \in Threads, FollowsText(i), Quiet(i), pc'[i] \in Speaking => pc[i] \in Speaking,
           pc'[i] \in Marking \/ (pc'[i] \in Closing /\ work'[i].created) =>
             pc[i] \in Marking \/ (pc[i] \in Closing /\ work[i].created)
    PROVE  FollowsText(i)'
  <1>1. CurrentOf(work[i].source)' = CurrentOf(work[i].source)
    BY DEF Quiet, SameNotes, CurrentOf, Latest
  <1>2. KeysOf(work[i].text)' = KeysOf(work[i].text)
    BY DEF Quiet, SameNotes, KeysOf
  <1>3. \A k, n : WordSoFar(work'[i].text, k, n) = WordSoFar(work[i].text, k, n)
    BY DEF Quiet, SameNotes
  <1> QED BY <1>1, <1>2, <1>3 DEF FollowsText, Quiet, SameNotes

LEMMA QuietRetired ==
    ASSUME NEW i \in Threads, Quiet(i)
    PROVE  /\ Retired(work[i])' = Retired(work[i]) /\ Replaced(work[i])' = Replaced(work[i])
           /\ Invalidated(i)' = Invalidated(i) /\ Added(i)' = Added(i)
  BY DEF Quiet, SameNotes, Retired, Replaced, Latest, Invalidated, Added

\* The steps before memory is written, and those that only read it.
LEMMA SpeaksOn ==
    ASSUME NEW i \in Threads, Solo(i), Quiet(i), pc[i] \in Speaking,
           pc'[i] \in Speaking \/ (pc'[i] = "save" /\ ~work'[i].created),
           Ready(pc'[i], work'[i]), pc'[i] = "write" /\ work'[i].previous # None => KnowsPrevious(work[i])'
    PROVE  Solo(i)'
  <1>1. /\ pc'[i] \notin Marking /\ ~(pc'[i] \in Closing /\ work'[i].created)
        /\ pc'[i] \in Speaking \union Marking \union Closing
        /\ pc'[i] \notin {"report", "stale", "skills", "outdate"}
    BY DEF Speaking, Marking, Closing
  <1>2. NotesHold(i)'
    BY <1>1, QuietNotes DEF Solo
  <1>3. FollowsText(i)'
    BY <1>1, QuietFollows DEF Solo
  <1>4. RetiredIsAffected(i)'
    BY <1>1, QuietRetired DEF Solo, MarksAll, RetiredIsAffected
  <1>5. MarksArtifacts(i)' /\ MarksSkills(i)'
    BY <1>1 DEF MarksArtifacts, MarksSkills
  <1> QED BY <1>2, <1>3, <1>4, <1>5 DEF Solo, MarksAll

\* The marking steps and the closing ones.
LEMMA MarksOn ==
    ASSUME NEW i \in Threads, Solo(i), Quiet(i), pc[i] \in Marking \union Closing,
           pc'[i] \in (Marking \ {"report"}) \union Closing,
           pc'[i] \in Marking => pc[i] \in Marking,
           pc[i] \in Closing => work'[i].created = work[i].created,
           RetiredIsAffected(i)', MarksArtifacts(i)', MarksSkills(i)'
    PROVE  Solo(i)'
  <1>1. pc'[i] \notin Speaking /\ pc'[i] # "write" /\ pc'[i] \in Speaking \union Marking \union Closing
    BY DEF Speaking, Marking, Closing
  <1>2. Ready(pc'[i], work'[i])
    BY DEF Solo, NotesHold, Quiet, SameNotes, Ready
  <1>3. NotesHold(i)'
    BY <1>1, <1>2, QuietNotes DEF Solo
  <1>4. FollowsText(i)'
    BY <1>1, QuietFollows DEF Solo
  <1> QED BY <1>3, <1>4 DEF Solo, MarksAll

LEMMA QuietStep ==
    ASSUME IInv, NEW i \in Threads, NEW place, NEW w, Step(i, place, w), UNCHANGED <<memory, related>>,
           SameNotes(work[i], w)
    PROVE  Quiet(i) /\ pc'[i] = place /\ work'[i] = w
  BY StepMoves DEF IInv, Quiet, OthersKeep, Waits

\* Looking up the revision, filing the text, looking up what was said before.
LEMMA ReadsSolo ==
    ASSUME IInv, NEW i \in Threads, Solo(i),
           FindRevision(i) \/ InsertRevision(i) \/ FileItem(i) \/ FindPrevious(i)
    PROVE  Solo(i)'
  <1> USE Notes DEF IInv
  <1>1. work[i] \in WorkRow /\ Fits(pc[i], work[i])
    OBVIOUS
  <1>2. CASE FindRevision(i)
    <2>0. PICK place \in {"file", "supersede"} :
                 \E v, c : Step(i, place, [work[i] EXCEPT !.version = v, !.created = c])
      BY <1>2 DEF FindRevision
    <2>1. PICK v, c : Step(i, place, [work[i] EXCEPT !.version = v, !.created = c])
      BY <2>0
    <2> DEFINE w == [work[i] EXCEPT !.version = v, !.created = c]
    <2>2. SameNotes(work[i], w)
      BY <1>1 DEF SameNotes, WorkRow
    <2> HIDE DEF w
    <2>3. Quiet(i) /\ pc'[i] = place
      BY <1>2, <2>1, <2>2, QuietStep DEF FindRevision, NoChange, stored, w
    <2>4. pc[i] \in Speaking /\ pc'[i] \in Speaking /\ Ready(pc'[i], work'[i]) /\ pc'[i] # "write"
      BY <1>2, <2>3 DEF FindRevision, At, Speaking, Ready, Marking, Closing
    <2> QED BY <2>3, <2>4, SpeaksOn
  <1>3. CASE InsertRevision(i)
    <2>1. SameNotes(work[i], work[i]) /\ Step(i, "file", work[i]) /\ UNCHANGED <<memory, related>>
      BY <1>3 DEF InsertRevision, SameNotes
    <2>2. Quiet(i) /\ pc'[i] = "file"
      BY <2>1, QuietStep
    <2>3. pc[i] \in Speaking /\ pc'[i] \in Speaking /\ Ready(pc'[i], work'[i]) /\ pc'[i] # "write"
      BY <1>3, <2>2 DEF InsertRevision, At, Speaking, Ready, Marking, Closing
    <2> QED BY <2>2, <2>3, SpeaksOn
  <1>4. CASE FileItem(i)
    <2>1. SameNotes(work[i], work[i]) /\ Step(i, Telling(i, 1), work[i]) /\ UNCHANGED <<memory, related>>
      BY <1>4 DEF FileItem, SameNotes
    <2>2. Quiet(i) /\ pc'[i] = Telling(i, 1) /\ work'[i] = work[i] /\ work[i].next = 1
      BY <1>1, <1>4, <2>1, QuietStep DEF FileItem, At, Fits
    <2>3. pc[i] \in Speaking /\ (pc'[i] \in Speaking \/ (pc'[i] = "save" /\ ~work'[i].created)) /\ pc'[i] # "write"
      BY <1>4, <2>2 DEF FileItem, At, Speaking, Telling
    <2>4. Ready(pc'[i], work'[i])
      BY <2>2 DEF Telling, Ready, Marking, Closing
    <2> QED BY <2>2, <2>3, <2>4, SpeaksOn
  <1>5. CASE FindPrevious(i)
    <2>1. PICK u \in SameSubject(Said(i)) \union {None} :
             Step(i, "write", [work[i] EXCEPT !.previous = u, !.from = IF u = None THEN {} ELSE memory[u].sources])
      BY <1>5 DEF FindPrevious
    <2> DEFINE f == IF u = None THEN {} ELSE memory[u].sources
               w == [work[i] EXCEPT !.previous = u, !.from = f]
    <2>2. SameNotes(work[i], w) /\ w.previous = u /\ w.from = f
      <3> HIDE DEF f
      <3> QED BY <1>1 DEF SameNotes, WorkRow
    <2> HIDE DEF w
    <2>3. Step(i, "write", w)
      BY <2>1 DEF w
    <2>4. Quiet(i) /\ pc'[i] = "write" /\ work'[i] = w
      BY <1>5, <2>2, <2>3, QuietStep DEF FindPrevious, NoChange, stored
    <2>5. pc[i] \in Speaking /\ pc'[i] \in Speaking /\ Ready(pc'[i], work'[i])
      BY <1>5, <2>4 DEF FindPrevious, At, Speaking, Ready, Marking, Closing
    <2>6. u # None => KnowsPrevious(work[i])'
      <3> SUFFICES ASSUME u # None PROVE KnowsPrevious(work[i])'
        OBVIOUS
      <3>1. u \in Latest /\ Subject[memory[u].says] = Subject[Said(i)] /\ f = memory[u].sources
        BY <2>1 DEF SameSubject
      <3>2. w.text = work[i].text /\ w.next = work[i].next /\ memory' = memory
        BY <2>2, <2>4 DEF Quiet, SameNotes
      <3> HIDE DEF f
      <3> QED BY <2>2, <2>4, <3>1, <3>2 DEF KnowsPrevious, Said, Latest
    <2>7. pc'[i] = "write" /\ work'[i].previous # None => KnowsPrevious(work[i])'
      BY <2>2, <2>4, <2>6
    <2> QED BY <2>4, <2>5, <2>7, SpeaksOn
  <1> QED BY <1>2, <1>3, <1>4, <1>5

\* What the change set reports.
LEMMA ReportSolo ==
    ASSUME IInv, NEW i \in Threads, Solo(i), ReportChange(i)
    PROVE  Solo(i)'
  <1> USE DEF IInv
  <1> DEFINE rows == {e \in related : e[1] \in Added(i)}
             all == Added(i) \union Invalidated(i) \union {e[2] : e \in rows}
             w == [work[i] EXCEPT !.affected = all]
  <1>1. SameNotes(work[i], w) /\ w.affected = all
    <2> HIDE DEF all
    <2> QED BY Notes DEF SameNotes, WorkRow
  <1>2. Step(i, "artifacts", w) /\ UNCHANGED <<memory, related>>
    BY DEF ReportChange
  <1> HIDE DEF w
  <1>3. Quiet(i) /\ pc'[i] = "artifacts" /\ work'[i] = w
    BY <1>1, <1>2, QuietStep
  <1>4. Retired(work[i]) \subseteq all
    <2>1. Retired(work[i]) \subseteq Replaced(work[i]) \union Invalidated(i)
      BY DEF ReportChange, At, Solo, MarksAll, RetiredIsAffected
    <2>2. ASSUME NEW p \in Replaced(work[i]) PROVE p \in all
      <3>1. PICK e \in related : e[1] \in Added(i) /\ e[2] = p
        BY DEF Replaced, Added
      <3> QED BY <3>1
    <2>3. Invalidated(i) \subseteq all
      OBVIOUS
    <2> HIDE DEF all
    <2> QED BY <2>1, <2>2, <2>3
  <1> HIDE DEF all
  <1>5. RetiredIsAffected(i)'
    BY <1>1, <1>3, <1>4, QuietRetired DEF RetiredIsAffected, Speaking
  <1>6. MarksArtifacts(i)' /\ MarksSkills(i)'
    BY <1>3 DEF MarksArtifacts, MarksSkills, Closing
  <1>7. pc[i] \in Marking \ Closing /\ pc'[i] \in Marking \ {"report"}
    BY <1>3 DEF ReportChange, At, Marking, Closing
  <1> QED BY <1>3, <1>5, <1>6, <1>7, MarksOn

LEMMA QuietRests ==
    ASSUME NEW i \in Threads, Quiet(i), NEW a, artifacts'[a] = artifacts[a]
    PROVE  Rests(a, work[i])' = Rests(a, work[i])
  BY QuietRetired DEF Rests, CurrentMemories

LEMMA QuietOffers ==
    ASSUME NEW i \in Threads, Quiet(i), NEW k
    PROVE  Offers(k, work[i])' = Offers(k, work[i])
  BY QuietRetired DEF Offers

\* Artifacts that rest on what was retired are found, then marked.
LEMMA ArtifactsSolo ==
    ASSUME IInv, NEW i \in Threads, Solo(i), FindArtifacts(i) \/ StaleArtifact(i)
    PROVE  Solo(i)'
  <1> USE DEF IInv
  <1>1. work[i] \in WorkRow /\ Retired(work[i]) \subseteq work[i].affected /\ pc[i] \in {"artifacts", "stale"}
    BY Notes DEF FindArtifacts, StaleArtifact, At, Solo, MarksAll, RetiredIsAffected, Marking
  <1>2. ASSUME Quiet(i), work'[i].affected = work[i].affected, pc'[i] \in {"stale", "skills"},
               pc'[i] = "stale" => \A a \in Reports \ {work[i].source} : Rests(a, work[i])' => a \in work'[i].todo,
               pc'[i] = "skills" => \A a \in Reports \ {work[i].source} : ~Rests(a, work[i])'
        PROVE  Solo(i)'
    <2>1. RetiredIsAffected(i)'
      BY <1>1, <1>2, QuietRetired DEF RetiredIsAffected, Speaking
    <2>2. MarksArtifacts(i)' /\ MarksSkills(i)'
      BY <1>2 DEF MarksArtifacts, MarksSkills, Closing, Quiet, SameNotes
    <2> QED BY <1>1, <1>2, <2>1, <2>2, MarksOn DEF Marking, Closing
  <1>3. CASE FindArtifacts(i)
    <2> DEFINE hit == {a \in Reports : /\ artifacts[a].current # 0
                                       /\ a = work[i].source \/ CurrentMemories(a) \intersect work[i].affected # {}}
               w == [work[i] EXCEPT !.todo = hit]
    <2>1. SameNotes(work[i], w) /\ w.affected = work[i].affected /\ w.todo = hit
      <3> HIDE DEF hit
      <3> QED BY <1>1 DEF SameNotes, WorkRow
    <2>2. Step(i, IF hit = {} THEN "skills" ELSE "stale", w) /\ UNCHANGED <<memory, related, artifacts>>
      BY <1>3 DEF FindArtifacts, NoChange, stored
    <2>3. ASSUME NEW a \in Reports, Rests(a, work[i]) PROVE a \in hit
      <3>1. PICK r \in artifacts[a].revisions : r.version = artifacts[a].current
        BY <2>3 DEF Rests, CurrentMemories
      <3>2. artifacts[a].current # 0
        BY <3>1 DEF TablesOK, ArtifactRow
      <3>3. CurrentMemories(a) \intersect work[i].affected # {}
        BY <1>1, <2>3 DEF Rests
      <3> QED BY <3>2, <3>3
    <2> HIDE DEF w, hit
    <2>4. Quiet(i) /\ work'[i] = w /\ pc'[i] = IF hit = {} THEN "skills" ELSE "stale"
      BY <2>1, <2>2, QuietStep
    <2>5. \A a \in Reports : Rests(a, work[i])' => a \in hit
      BY <2>2, <2>3, <2>4, QuietRests
    <2> QED BY <1>2, <2>1, <2>4, <2>5
  <1>4. CASE StaleArtifact(i)
    <2>1. PICK b \in work[i].todo :
            /\ artifacts' = [artifacts EXCEPT ![b].status = "stale"]
            /\ Step(i, IF work[i].todo = {b} THEN "skills" ELSE "stale", [work[i] EXCEPT !.todo = @ \ {b}])
      BY <1>4 DEF StaleArtifact
    <2> DEFINE w == [work[i] EXCEPT !.todo = @ \ {b}]
    <2>2. SameNotes(work[i], w) /\ w.affected = work[i].affected /\ w.todo = work[i].todo \ {b}
      BY <1>1 DEF SameNotes, WorkRow
    <2> HIDE DEF w
    <2>3. Step(i, IF work[i].todo = {b} THEN "skills" ELSE "stale", w) /\ UNCHANGED <<memory, related>>
      BY <1>4, <2>1 DEF StaleArtifact, w
    <2>4. Quiet(i) /\ work'[i] = w /\ pc'[i] = IF work[i].todo = {b} THEN "skills" ELSE "stale"
      BY <2>2, <2>3, QuietStep
    <2>5. ASSUME NEW a \in Reports \ {work[i].source}, Rests(a, work[i])' PROVE a \in work[i].todo \ {b}
      <3>1. CASE a = b
        <4>1. artifacts'[a].status = "stale"
          BY <2>1, <3>1 DEF TablesOK
        <4> QED BY <2>5, <4>1 DEF Rests
      <3>2. CASE a # b
        <4>1. artifacts'[a] = artifacts[a]
          BY <2>1, <3>2 DEF TablesOK
        <4>2. Rests(a, work[i])
          BY <2>4, <2>5, <4>1, QuietRests
        <4>3. a \in work[i].todo
          BY <1>4, <4>2 DEF StaleArtifact, At, Solo, MarksAll, MarksArtifacts
        <4> QED BY <3>2, <4>3
      <3> QED BY <3>1, <3>2
    <2> QED BY <1>2, <2>2, <2>4, <2>5
  <1> QED BY <1>3, <1>4

\* Skills likewise; by then no artifact is left to mark.
LEMMA SkillsSolo ==
    ASSUME IInv, NEW i \in Threads, Solo(i), FindSkills(i) \/ OutdateSkill(i)
    PROVE  Solo(i)'
  <1> USE DEF IInv
  <1>1. /\ work[i] \in WorkRow /\ Retired(work[i]) \subseteq work[i].affected /\ pc[i] \in {"skills", "outdate"}
        /\ \A a \in Reports \ {work[i].source} : ~Rests(a, work[i])
    BY Notes DEF FindSkills, OutdateSkill, At, Solo, MarksAll, RetiredIsAffected, MarksArtifacts, Marking
  <1>2. ASSUME Quiet(i), artifacts' = artifacts, work'[i].affected = work[i].affected, pc'[i] \in {"outdate", "save"},
               pc'[i] = "outdate" => \A k \in skills' : Offers(k, work[i])' => k.version \in work'[i].todo,
               pc'[i] = "save" => \A k \in skills' : ~Offers(k, work[i])'
        PROVE  Solo(i)'
    <2>1. RetiredIsAffected(i)'
      BY <1>1, <1>2, QuietRetired DEF RetiredIsAffected, Speaking, Marking
    <2>2. \A a \in Reports \ {work[i].source} : ~Rests(a, work[i])'
      BY <1>1, <1>2, QuietRests
    <2>3. MarksArtifacts(i)' /\ MarksSkills(i)'
      BY <1>2, <2>2 DEF MarksArtifacts, MarksSkills, Closing, Quiet, SameNotes
    <2> QED BY <1>1, <1>2, <2>1, <2>3, MarksOn DEF Marking, Closing
  <1>3. CASE FindSkills(i)
    <2> DEFINE hit == {k.version : k \in {q \in skills : q.status = "current" /\ q.memories \intersect work[i].affected # {}}}
               w == [work[i] EXCEPT !.todo = hit]
    <2>1. SameNotes(work[i], w) /\ w.affected = work[i].affected /\ w.todo = hit
      <3> HIDE DEF hit
      <3> QED BY <1>1 DEF SameNotes, WorkRow
    <2>2. Step(i, IF hit = {} THEN "save" ELSE "outdate", w) /\ UNCHANGED <<memory, related, artifacts, skills>>
      BY <1>3 DEF FindSkills, NoChange, stored
    <2>3. \A k \in skills : Offers(k, work[i]) => k.version \in hit
      BY <1>1 DEF Offers
    <2> HIDE DEF w, hit
    <2>4. Quiet(i) /\ work'[i] = w /\ pc'[i] = IF hit = {} THEN "save" ELSE "outdate"
      BY <2>1, <2>2, QuietStep
    <2>5. \A k \in skills' : Offers(k, work[i])' => k.version \in hit
      BY <2>2, <2>3, <2>4, QuietOffers
    <2> QED BY <1>2, <2>1, <2>2, <2>4, <2>5
  <1>4. CASE OutdateSkill(i)
    <2>1. PICK n \in work[i].todo :
            /\ skills' = {[k EXCEPT !.status = IF k.version = n THEN "stale" ELSE @] : k \in skills}
            /\ Step(i, IF work[i].todo = {n} THEN "save" ELSE "outdate", [work[i] EXCEPT !.todo = @ \ {n}])
      BY <1>4 DEF OutdateSkill
    <2> DEFINE w == [work[i] EXCEPT !.todo = @ \ {n}]
    <2>2. SameNotes(work[i], w) /\ w.affected = work[i].affected /\ w.todo = work[i].todo \ {n}
      BY <1>1 DEF SameNotes, WorkRow
    <2> HIDE DEF w
    <2>3. Step(i, IF work[i].todo = {n} THEN "save" ELSE "outdate", w) /\ UNCHANGED <<memory, related, artifacts>>
      BY <1>4, <2>1 DEF OutdateSkill, w
    <2>4. Quiet(i) /\ work'[i] = w /\ pc'[i] = IF work[i].todo = {n} THEN "save" ELSE "outdate"
      BY <2>2, <2>3, QuietStep
    <2>5. ASSUME NEW k \in skills', Offers(k, work[i])' PROVE k.version \in work[i].todo \ {n}
      <3>1. PICK q \in skills : k = [q EXCEPT !.status = IF q.version = n THEN "stale" ELSE @]
        BY <2>1
      <3>2. q \in SkillRow
        BY DEF TablesOK
      <3>3. k.version = q.version /\ k.memories = q.memories /\ k.status = IF q.version = n THEN "stale" ELSE q.status
        BY <3>1, <3>2 DEF SkillRow
      <3>4. Offers(k, work[i])
        BY <2>4, <2>5, QuietOffers
      <3>5. q.version # n /\ Offers(q, work[i])
        BY <3>3, <3>4 DEF Offers
      <3>6. q.version \in work[i].todo
        BY <1>4, <3>5 DEF OutdateSkill, At, Solo, MarksAll, MarksSkills
      <3> QED BY <3>3, <3>5, <3>6
    <2> QED BY <1>2, <2>2, <2>3, <2>4, <2>5
  <1> QED BY <1>3, <1>4

\* Saving the report touches no artifact but its own.
LEMMA SavesSolo ==
    ASSUME IInv, NEW i \in Threads, Solo(i), FindArtifact(i) \/ SaveArtifact(i)
    PROVE  Solo(i)'
  <1> USE DEF IInv
  <1> DEFINE s == work[i].source
  <1>1. work[i] \in WorkRow /\ pc[i] \in {"save", "publish"}
    BY Notes DEF FindArtifact, SaveArtifact, At
  <1>2. /\ UNCHANGED <<memory, related, skills>>
        /\ \A a \in Reports \ {s} : artifacts'[a] = artifacts[a]
    <2>1. CASE FindArtifact(i)
      BY <2>1 DEF FindArtifact, NoChange, stored
    <2>2. CASE SaveArtifact(i)
      BY <2>2 DEF SaveArtifact, TablesOK
    <2> QED BY <2>1, <2>2
  <1>0. PICK w : \E place \in {"publish", "done"} :
           Step(i, place, w) /\ SameNotes(work[i], w) /\ w.created = work[i].created
    <2>1. SameNotes(work[i], work[i])
      BY DEF SameNotes
    <2>2. CASE SaveArtifact(i)
      BY <2>1, <2>2 DEF SaveArtifact
    <2>3. CASE FindArtifact(i)
      <3> DEFINE v == [work[i] EXCEPT !.version = Newest(artifacts[work[i].source].revisions) + 1]
      <3>1. SameNotes(work[i], v) /\ v.created = work[i].created
        BY <1>1 DEF SameNotes, WorkRow
      <3>2. Step(i, "done", work[i]) \/ Step(i, "publish", v)
        BY <2>3 DEF FindArtifact
      <3> HIDE DEF v
      <3> QED BY <2>1, <3>1, <3>2
    <2> QED BY <2>2, <2>3
  <1>3. PICK place \in {"publish", "done"} :
           Step(i, place, w) /\ SameNotes(work[i], w) /\ w.created = work[i].created
    BY <1>0
  <1>4. Quiet(i) /\ pc'[i] = place /\ work'[i] = w
    BY <1>2, <1>3, QuietStep
  <1>5. RetiredIsAffected(i)'
    BY <1>3, <1>4 DEF RetiredIsAffected, Speaking, Marking
  <1>6. MarksArtifacts(i)'
    <2>1. work[i].created => \A a \in Reports \ {s} : ~Rests(a, work[i])
      BY <1>1 DEF Solo, MarksAll, MarksArtifacts, Closing
    <2>2. work[i].created => \A a \in Reports \ {s} : ~Rests(a, work[i])'
      BY <1>2, <1>4, <2>1, QuietRests
    <2> QED BY <1>3, <1>4, <2>2 DEF MarksArtifacts, Quiet, SameNotes
  <1>7. MarksSkills(i)'
    <2>1. work[i].created => \A k \in skills : ~Offers(k, work[i])
      BY <1>1 DEF Solo, MarksAll, MarksSkills, Closing
    <2>2. work[i].created => \A k \in skills' : ~Offers(k, work[i])'
      BY <1>2, <1>4, <2>1, QuietOffers
    <2> QED BY <1>3, <1>4, <2>2 DEF MarksSkills
  <1> QED BY <1>1, <1>3, <1>4, <1>5, <1>6, <1>7, MarksOn DEF Marking, Closing

-----------------------------------------------------------------------------
(***************************************************************************)
(* Steps that note memory anew or write it.                                *)
(***************************************************************************)
\* It begins with the memory it stands on, nothing of it retired yet.
LEMMA BeginSolo ==
    ASSUME IInv, Spoken, NEW i \in Threads, Awaits(i), Begin(i), work'[i].alone
    PROVE  Solo(i)'
  <1> USE DEF IInv
  <1> DEFINE before == CurrentOf(work[i].source)
             stood == Standing(i)
             w == [work[i] EXCEPT !.before = before, !.stood = stood, !.alone = Alone(i), !.said = {}, !.next = 1,
                                  !.affected = {}]
  <1>1. /\ w.before = before /\ w.stood = stood /\ w.alone = Alone(i) /\ w.said = {} /\ w.next = 1
        /\ w.source = work[i].source /\ w.text = work[i].text /\ w.withdrawn = work[i].withdrawn
    <2> HIDE DEF before, stood
    <2> QED BY Notes DEF WorkRow
  <1>2. Step(i, "revise", w) /\ UNCHANGED <<memory, related>>
    BY DEF Begin, NoChange, stored
  <1> HIDE DEF w
  <1>3. pc'[i] = "revise" /\ work'[i] = w /\ OthersKeep(i)
    BY <1>2, StepMoves DEF Waits, OthersKeep
  <1>4. /\ Alone(i) /\ before \subseteq Latest /\ stood = work[i].stood \union Latest
        /\ work[i].stood \subseteq Latest \union work[i].withdrawn /\ \A u \in work[i].stood : memory[u].says # None
    <2>1. Alone(i)
      BY <1>1, <1>3
    <2>2. pc[i] = "begin"
      BY DEF Begin, At
    <2> QED BY <2>1, <2>2 DEF CurrentOf, Standing, Awaits
  <1>5. Says[w.text] \in Seq(Statements)
    <2>1. work[i].text \in Texts
      BY Notes DEF Begin, At, Fits, Ingesting, Withdrawing, Places
    <2> QED BY <1>1, <2>1, SourceAssumption
  <1> HIDE DEF stood
  <1>6. NotesHold(i)'
    <2>1. \A u \in Latest : memory[u].says # None
      BY DEF Spoken, Latest
    <2> HIDE DEF before
    <2> QED BY <1>1, <1>2, <1>3, <1>4, <2>1 DEF NotesHold, Alone, OthersKeep, Speaking, Marking, Closing
  <1>7. FollowsText(i)'
    <2>1. \A k \in DOMAIN Says[w.text] : ~WordSoFar(w.text, k, w.next)
      BY <1>1, <1>5 DEF WordSoFar
    <2>2. pc'[i] \notin Marking /\ pc'[i] \notin Closing
      BY <1>3 DEF Marking, Closing
    <2>3. CurrentOf(work[i].source)' = before
      BY <1>1, <1>2, <1>3 DEF CurrentOf, Latest
    <2> HIDE DEF before
    <2> QED BY <1>1, <1>3, <2>1, <2>2, <2>3 DEF FollowsText
  <1>8. MarksAll(i)'
    <2>1. Retired(work[i])' = {}
      <3>1. Latest' = Latest
        BY <1>2 DEF Latest
      <3> QED BY <1>1, <1>3, <1>4, <3>1 DEF Retired
    <2> QED BY <1>3, <2>1 DEF MarksAll, RetiredIsAffected, MarksArtifacts, MarksSkills, Speaking, Marking, Closing
  <1> QED BY <1>6, <1>7, <1>8 DEF Solo

\* A statement told: its row is current, and a row of another subject that
\* was current is so still.
LEMMA TellsOn ==
    ASSUME IInv, NEW i \in Threads, Solo(i), pc[i] = "write", NEW u \in Units,
           Step(i, Telling(i, work[i].next + 1), Told(i, u)),
           memory'[u].says = Said(i), u \in CurrentOf(work[i].source)',
           \A v \in Units : memory[v].says # None => memory'[v].says = memory[v].says,
           CurrentOf(work[i].source)' \subseteq CurrentOf(work[i].source) \union {u},
           \A v \in CurrentOf(work[i].source) :
             Subject[memory[v].says] # Subject[Said(i)] => v \in CurrentOf(work[i].source)',
           Retired(work[i])' \subseteq Replaced(work[i])'
    PROVE  Solo(i)'
  <1> USE DEF IInv
  <1> DEFINE t == work[i].text
             n == work[i].next
  <1>1. /\ work'[i] = Told(i, u) /\ pc'[i] = Telling(i, n + 1) /\ OthersKeep(i)
    BY StepMoves DEF Waits, OthersKeep
  <1>2. /\ work'[i].source = work[i].source /\ work'[i].text = t /\ work'[i].before = work[i].before
        /\ work'[i].said = work[i].said \union {u} /\ work'[i].next = n + 1 /\ work'[i].stood = work[i].stood
        /\ work'[i].created = work[i].created
    BY <1>1, Notes DEF Told, WorkRow
  <1>3. /\ pc'[i] \in {"remember", "finalize", "save"} /\ (pc'[i] = "save" => ~work'[i].created)
        /\ pc'[i] # "remember" => n + 1 \notin DOMAIN Says[t]
    BY <1>1, <1>2 DEF Telling
  <1>4. /\ n \in DOMAIN Says[t] /\ Says[t] \in Seq(Statements) /\ Said(i) = Says[t][n] /\ n \in Nat
        /\ Said(i) \in Statements /\ Said(i) # None
    <2>1. t \in Texts /\ n \in DOMAIN Says[t]
      BY Notes DEF Fits, Ingesting, Withdrawing, Places
    <2> QED BY <2>1, SaidIs, SourceAssumption DEF Said, None
  <1>5. /\ work[i].before \subseteq Units /\ work[i].said \subseteq Units /\ work[i].stood \subseteq Units
    BY Notes DEF WorkRow
  <1>6. /\ \A x \in work[i].before \union work[i].stood : memory'[x].says # None
        /\ \A x \in work[i].said : memory'[x].says # None /\ memory'[x].says = memory[x].says
    BY <1>5 DEF Solo, NotesHold
  <1>7. NotesHold(i)'
    <2>1. \A j \in Threads \ {i} : pc'[j] = "idle"
      BY <1>1 DEF OthersKeep, Solo, NotesHold
    <2>2. KeyOf(Said(i)) \in KeysOf(t)
      BY <1>4 DEF KeysOf
    <2>3. \A x \in work'[i].said : memory'[x].says # None /\ KeyOf(memory'[x].says) \in KeysOf(t)
      BY <1>2, <1>4, <1>6, <2>2 DEF Solo, NotesHold
    <2>4. n + 1 # 0 /\ pc'[i] \in Speaking \union Marking \union Closing /\ pc'[i] # "write"
      BY <1>3, <1>4 DEF Speaking, Closing
    <2>5. pc'[i] \in {"finalize"} \union Marking \union Closing => n + 1 \notin DOMAIN Says[t]
      BY <1>3 DEF Marking, Closing
    <2>6. \A x \in work'[i].before \union work'[i].stood : memory'[x].says # None
      BY <1>2, <1>6
    <2>7. KeysOf(work[i].text)' = KeysOf(t)
      BY <1>2 DEF KeysOf
    <2> HIDE DEF t, n
    <2> QED BY <1>2, <2>1, <2>3, <2>4, <2>5, <2>6, <2>7 DEF NotesHold
  <1>8. FollowsText(i)'
    <2>1. ASSUME NEW k \in DOMAIN Says[t], WordSoFar(t, k, n + 1)
          PROVE  \E x \in work'[i].said \intersect CurrentOf(work[i].source)' : memory'[x].says = Says[t][k]
      <3>1. k \in Nat /\ k < n + 1
        BY <1>4, <2>1 DEF WordSoFar
      <3>2. CASE k = n
        BY <1>2, <1>4, <3>2
      <3>3. CASE k # n
        <4>1. k < n /\ WordSoFar(t, k, n) /\ Subject[Said(i)] # Subject[Says[t][k]]
          BY <1>4, <2>1, <3>1, <3>3 DEF WordSoFar
        <4>2. PICK x \in work[i].said \intersect CurrentOf(work[i].source) : memory[x].says = Says[t][k]
          BY <4>1 DEF Solo, FollowsText
        <4>3. x \in CurrentOf(work[i].source)' /\ memory'[x].says = Says[t][k]
          BY <1>6, <4>1, <4>2
        <4> QED BY <1>2, <4>2, <4>3
      <3> QED BY <3>2, <3>3
    <2>2. CurrentOf(work[i].source)' \subseteq work'[i].before \union work'[i].said
      BY <1>2 DEF Solo, FollowsText, Speaking
    <2>3. pc'[i] \notin Marking /\ ~(pc'[i] \in Closing /\ work'[i].created)
      BY <1>3 DEF Marking, Closing
    <2> QED BY <1>2, <2>1, <2>2, <2>3 DEF FollowsText
  <1>9. MarksAll(i)'
    BY <1>3 DEF MarksAll, RetiredIsAffected, MarksArtifacts, MarksSkills, Marking, Closing
  <1> QED BY <1>7, <1>8, <1>9 DEF Solo

\* What a step that tells leaves of the notes.
LEMMA ToldNotes ==
    ASSUME IInv, NEW i \in Threads, NEW place, NEW u, Step(i, place, Told(i, u))
    PROVE  /\ work'[i].source = work[i].source /\ work'[i].before = work[i].before
           /\ work'[i].said = work[i].said \union {u} /\ work'[i].stood = work[i].stood
           /\ work'[i].withdrawn = work[i].withdrawn
  <1>1. work'[i] = Told(i, u) /\ work[i] \in WorkRow
    BY StepMoves, Notes DEF IInv
  <1> QED BY <1>1 DEF Told, WorkRow

\* The previous row says the same: it gets this source too.
LEMMA MergeSolo ==
    ASSUME IInv, NEW i \in Threads, Solo(i), Merge(i)
    PROVE  Solo(i)'
  <1> USE DEF IInv
  <1> DEFINE u == work[i].previous
             s == work[i].source
  <1>1. /\ pc[i] = "write" /\ u # None /\ memory[u].says = Said(i)
        /\ Step(i, Telling(i, work[i].next + 1), Told(i, u)) /\ related' = related
        /\ memory' = [memory EXCEPT ![u].sources = work[i].from \union {s}]
    BY DEF Merge, Repeats, At
  <1>2. u \in Latest /\ work[i].from = memory[u].sources /\ u \in Units
    BY <1>1 DEF Solo, NotesHold, KnowsPrevious, Latest
  <1>3. ASSUME NEW v \in Units
        PROVE  /\ memory'[v].says = memory[v].says /\ memory'[v].latest = memory[v].latest
               /\ memory'[v].sources = IF v = u THEN memory[v].sources \union {s} ELSE memory[v].sources
    BY <1>1, <1>2 DEF TablesOK
  <1>4. /\ work'[i].source = s /\ work'[i].before = work[i].before
        /\ work'[i].said = work[i].said \union {u} /\ work'[i].stood = work[i].stood
        /\ work'[i].withdrawn = work[i].withdrawn
    BY <1>1, ToldNotes
  <1> HIDE DEF u, s
  <1>5. Latest' = Latest
    BY <1>3 DEF Latest
  <1>6. CurrentOf(work[i].source)' = CurrentOf(s) \union {u}
    BY <1>2, <1>3, <1>4, <1>5 DEF CurrentOf, Latest
  <1>7. Retired(work[i])' \subseteq Replaced(work[i])'
    <2>1. Retired(work[i])' = Retired(work[i]) /\ Retired(work[i]) \subseteq Replaced(work[i])
      BY <1>1, <1>4, <1>5 DEF Retired, Solo, MarksAll, RetiredIsAffected, Speaking
    <2>2. Replaced(work[i]) \subseteq Replaced(work[i])'
      BY <1>1, <1>4 DEF Replaced
    <2> QED BY <2>1, <2>2
  <1>8. memory'[u].says = Said(i)
    BY <1>1, <1>2, <1>3
  <1> QED BY <1>1, <1>2, <1>3, <1>6, <1>7, <1>8, TellsOn DEF s

\* A new row; the one it replaces is retired.
LEMMA InsertSolo ==
    ASSUME IInv, Spoken, NEW i \in Threads, Solo(i), Insert(i)
    PROVE  Solo(i)'
  <1> USE DEF IInv
  <1> DEFINE p == work[i].previous
             s == work[i].source
             r == IF p = None THEN None ELSE Relationship(memory[p].says, Said(i))
  <1>1. PICK u \in Unused :
          /\ memory' = [v \in Units |->
               CASE v = u -> [says |-> Said(i), sources |-> {s}, latest |-> TRUE]
                 [] v = p /\ r = "UPDATES" -> [memory[v] EXCEPT !.latest = FALSE]
                 [] OTHER -> memory[v]]
          /\ related' = related \union IF p = None THEN {} ELSE {<<u, p, r>>}
          /\ Step(i, Telling(i, work[i].next + 1), Told(i, u))
    BY DEF Insert
  <1>2. pc[i] = "write" /\ u \in Units /\ memory[u].says = None
    BY DEF Insert, At, Unused
  <1>3. p # None => p \in Latest /\ Subject[memory[p].says] = Subject[Said(i)]
    BY <1>2 DEF Solo, NotesHold, KnowsPrevious, Said
  <1>4. u # p /\ u \notin Latest /\ None \notin Units
    BY <1>2, <1>3, SourceAssumption DEF Spoken, Latest, None
  <1> HIDE DEF r
  <1>5. memory'[u] = [says |-> Said(i), sources |-> {s}, latest |-> TRUE]
    BY <1>1, <1>2, <1>4
  <1>6. ASSUME NEW v \in Units \ {u}
        PROVE  /\ memory'[v].says = memory[v].says /\ memory'[v].sources = memory[v].sources
               /\ memory'[v].latest => memory[v].latest
               /\ memory[v].latest => memory'[v].latest \/ v = p
    <2>1. memory'[v] = IF v = p /\ r = "UPDATES" THEN [memory[v] EXCEPT !.latest = FALSE] ELSE memory[v]
      BY <1>1
    <2>2. memory[v] \in UnitRow
      BY DEF TablesOK, UnitRow
    <2> QED BY <2>1, <2>2 DEF UnitRow
  <1>7. /\ work'[i].source = s /\ work'[i].before = work[i].before
        /\ work'[i].said = work[i].said \union {u} /\ work'[i].stood = work[i].stood
        /\ work'[i].withdrawn = work[i].withdrawn
    BY <1>1, ToldNotes
  <1> HIDE DEF p, s
  <1>8. /\ Latest' \subseteq Latest \union {u} /\ u \in Latest' /\ Latest \ {p} \subseteq Latest'
    <2>1. \A v \in Units : v \in Latest' <=> memory'[v].latest
      BY DEF Latest
    <2>2. \A v \in Units : v \in Latest <=> memory[v].latest
      BY DEF Latest
    <2>3. Latest \subseteq Units /\ Latest' \subseteq Units
      BY DEF Latest
    <2> QED BY <1>2, <1>4, <1>5, <1>6, <2>1, <2>2, <2>3
  <1>9. /\ CurrentOf(work[i].source)' \subseteq CurrentOf(s) \union {u} /\ u \in CurrentOf(work[i].source)'
        /\ CurrentOf(s) \ {p} \subseteq CurrentOf(work[i].source)'
    <2>1. CurrentOf(work[i].source)' = {v \in Latest' : s \in memory'[v].sources}
      BY <1>7 DEF CurrentOf
    <2>2. CurrentOf(s) = {v \in Latest : s \in memory[v].sources}
      BY DEF CurrentOf
    <2>3. Latest \subseteq Units
      BY DEF Latest
    <2>4. \A v \in Latest : memory'[v].sources = memory[v].sources
      BY <1>4, <1>6, <2>3
    <2> QED BY <1>5, <1>8, <2>1, <2>2, <2>4
  <1>10. \A v \in CurrentOf(work[i].source) :
           Subject[memory[v].says] # Subject[Said(i)] => v \in CurrentOf(work[i].source)'
    <2>1. ASSUME NEW v \in CurrentOf(s), Subject[memory[v].says] # Subject[Said(i)] PROVE v # p
      <3>1. v # None
        BY <1>4 DEF CurrentOf, Latest
      <3> QED BY <1>3, <2>1, <3>1
    <2> QED BY <1>9, <2>1 DEF s
  <1>11. Retired(work[i])' \subseteq Replaced(work[i])'
    <2>1. /\ Retired(work[i]) \subseteq Replaced(work[i])
          /\ \A x \in work[i].before \union work[i].stood : memory[x].says # None
      BY <1>2 DEF Solo, NotesHold, MarksAll, RetiredIsAffected, Speaking
    <2>2. u \notin work[i].before \union work[i].stood
      BY <1>2, <2>1
    <2>3. related \subseteq related' /\ (p # None => <<u, p, r>> \in related')
      BY <1>1 DEF p
    <2>4. Replaced(work[i]) \subseteq Replaced(work[i])'
      BY <1>7, <2>3 DEF Replaced
    <2>5. p # None => p \in Replaced(work[i])'
      <3> SUFFICES ASSUME p # None PROVE p \in Replaced(work[i])'
        OBVIOUS
      <3>1. p \in Units /\ <<u, p, r>> \in related'
        BY <1>3, <2>3 DEF Latest
      <3>2. u \in work'[i].said \ work'[i].before
        BY <1>7, <2>2
      <3>3. <<u, p, r>>[1] = u /\ <<u, p, r>>[2] = p
        OBVIOUS
      <3> QED BY <3>1, <3>2, <3>3 DEF Replaced
    <2>6. ASSUME NEW x \in Retired(work[i])' PROVE x \in Replaced(work[i])'
      <3>1. x \in work[i].stood /\ x \notin Latest' /\ x \notin work[i].withdrawn
        BY <1>7 DEF Retired
      <3>2. CASE x \notin Latest
        BY <2>1, <2>4, <3>1, <3>2 DEF Retired
      <3>3. CASE x \in Latest
        <4>1. x = p /\ x # None
          BY <1>4, <1>8, <3>1, <3>3 DEF Latest
        <4> QED BY <2>5, <4>1
      <3> QED BY <3>2, <3>3
    <2> QED BY <2>6
  <1>12. /\ memory'[u].says = Said(i)
         /\ \A v \in Units : memory[v].says # None => memory'[v].says = memory[v].says
    BY <1>2, <1>5, <1>6
  <1> QED BY <1>1, <1>2, <1>9, <1>10, <1>11, <1>12, TellsOn DEF s

\* What the text no longer speaks about is retired.
LEMMA InvalidateSolo ==
    ASSUME IInv, NEW i \in Threads, Solo(i), Invalidate(i)
    PROVE  Solo(i)'
  <1> USE DEF IInv
  <1> DEFINE w == work[i]
  <1>1. /\ pc[i] = "finalize" /\ Step(i, "report", w) /\ related' = related
        /\ memory' = [u \in Units |-> IF u \in Invalidated(i) THEN [memory[u] EXCEPT !.latest = FALSE] ELSE memory[u]]
    BY DEF Invalidate, At
  <1>2. pc'[i] = "report" /\ work'[i] = w /\ OthersKeep(i)
    BY <1>1, StepMoves DEF Waits, OthersKeep
  <1>3. ASSUME NEW v \in Units
        PROVE  /\ memory'[v].says = memory[v].says /\ memory'[v].sources = memory[v].sources
               /\ memory'[v].latest = (memory[v].latest /\ v \notin Invalidated(i))
    <2>1. memory[v] \in UnitRow
      BY DEF TablesOK, UnitRow
    <2> QED BY <1>1, <2>1 DEF UnitRow
  <1>4. w.before \subseteq Units /\ w.said \subseteq Units /\ w.stood \subseteq Units
    BY Notes DEF WorkRow
  <1> HIDE DEF w
  <1>5. Latest' = Latest \ Invalidated(i)
    BY <1>3 DEF Latest
  <1>6. CurrentOf(work[i].source)' = CurrentOf(w.source) \ Invalidated(i)
    <2>1. Latest \subseteq Units
      BY DEF Latest
    <2> QED BY <1>2, <1>3, <1>5, <2>1 DEF CurrentOf
  <1>7. Invalidated(i) \subseteq w.before \ w.said
    BY DEF Invalidated, w
  <1>8. Invalidated(i)' = Invalidated(i)
    BY <1>2, <1>3, <1>4 DEF Invalidated, w
  <1>9. NotesHold(i)'
    <2>1. \A x \in w.before \union w.stood : memory'[x].says # None
      BY <1>3, <1>4 DEF Solo, NotesHold, w
    <2>2. \A x \in w.said : memory'[x].says # None /\ KeyOf(memory'[x].says) \in KeysOf(w.text)
      BY <1>3, <1>4 DEF Solo, NotesHold, w
    <2>3. w.next # 0 /\ w.next \notin DOMAIN Says[w.text] /\ \A j \in Threads \ {i} : pc'[j] = "idle"
      BY <1>1, <1>2 DEF Solo, NotesHold, OthersKeep, w
    <2>4. KeysOf(work[i].text)' = KeysOf(w.text)
      BY <1>2 DEF KeysOf
    <2> QED BY <1>2, <2>1, <2>2, <2>3, <2>4 DEF NotesHold, Marking
  <1>10. FollowsText(i)'
    <2>1. ASSUME NEW k \in DOMAIN Says[w.text], WordSoFar(w.text, k, w.next)
          PROVE  \E x \in w.said \intersect CurrentOf(work[i].source)' : memory'[x].says = Says[w.text][k]
      <3>1. PICK x \in w.said \intersect CurrentOf(w.source) : memory[x].says = Says[w.text][k]
        BY <2>1 DEF Solo, FollowsText, w
      <3>2. x \in CurrentOf(work[i].source)' /\ memory'[x].says = memory[x].says
        BY <1>3, <1>4, <1>6, <1>7, <3>1
      <3> QED BY <3>1, <3>2
    <2>2. ASSUME NEW x \in CurrentOf(work[i].source)'
          PROVE  KeyOf(memory'[x].says) \in KeysOf(w.text)
      <3>1. x \in CurrentOf(w.source) /\ x \notin Invalidated(i) /\ x \in w.before \union w.said
        BY <1>1, <1>6, <2>2 DEF Solo, FollowsText, Speaking, w
      <3>2. memory'[x].says = memory[x].says
        BY <1>3, <1>4, <3>1
      <3>3. CASE x \in w.said
        BY <3>2, <3>3 DEF Solo, NotesHold, w
      <3>4. CASE x \notin w.said
        <4>1. PICK v \in w.said : KeyOf(memory[v].says) = KeyOf(memory[x].says)
          BY <3>1, <3>4 DEF Invalidated, w
        <4> QED BY <3>2, <4>1 DEF Solo, NotesHold, w
      <3> QED BY <3>3, <3>4
    <2>3. KeysOf(work[i].text)' = KeysOf(w.text) /\ pc'[i] \notin Speaking
      BY <1>2 DEF KeysOf, Speaking
    <2> QED BY <1>2, <2>1, <2>2, <2>3 DEF FollowsText
  <1>11. MarksAll(i)'
    <2>1. Retired(w) \subseteq Replaced(w)
      BY <1>1 DEF Solo, MarksAll, RetiredIsAffected, Speaking, w
    <2>2. Retired(work[i])' \subseteq Retired(w) \union Invalidated(i)
      BY <1>2, <1>5 DEF Retired
    <2>3. Replaced(work[i])' = Replaced(w)
      BY <1>1, <1>2 DEF Replaced
    <2>4. RetiredIsAffected(i)'
      BY <1>2, <1>8, <2>1, <2>2, <2>3 DEF RetiredIsAffected, Speaking
    <2> QED BY <1>2, <2>4 DEF MarksAll, MarksArtifacts, MarksSkills, Closing
  <1> QED BY <1>9, <1>10, <1>11 DEF Solo

\* Of the steps only a withdrawal's change what a thread awaits.
LEMMA AwaitsStep ==
    ASSUME IInv, SoloInv, [Next]_vars, NEW i \in Threads
    PROVE  Awaits(i)'
  <1> USE DEF IInv
  <1>1. Awaits(i) /\ work[i] \in WorkRow
    BY Notes DEF SoloInv
  <1>2. CASE UNCHANGED vars
    BY <1>1, <1>2 DEF vars, Awaits, Latest
  <1>3. ASSUME NEW j \in Threads, Upload(j) \/ Apply(j) \/ Remove(j) \/ Scan(j) \/ Compile(j)
        PROVE  Awaits(i)'
    <2>1. work'[i].stood = {}
      BY <1>3, BeginsParted DEF Parted, Apart
    <2> QED BY <2>1 DEF Awaits
  <1>4. ASSUME NEW j \in Threads \ {i}, Ingest(j) \/ Withdraw(j) \/ MakeSkill(j) \/ Fails(j)
        PROVE  Awaits(i)'
    <2>1. work'[i] = work[i] /\ pc'[i] = pc[i] /\ pc[j] # "idle"
      BY <1>4, GoesAlone
    <2> QED BY <1>1, <2>1 DEF Awaits
  <1>5. ASSUME NEW place, NEW w, Step(i, place, w)
        PROVE  pc'[i] = place /\ work'[i] = w /\ \A j \in Threads \ {i} : pc'[j] = pc[j]
    BY <1>5, StepMoves DEF Waits
  <1>6. ASSUME NEW place, Goto(i, place), place \notin {"scan", "retire", "release", "drop", "begin"}
        PROVE  Awaits(i)'
    BY <1>6 DEF Goto, ThreadsOK, Awaits
  <1>7. CASE MakeSkill(i) \/ Fails(i)
    <2>1. CASE Fails(i)
      <3>1. pc'[i] = "idle"
        BY <2>1 DEF Fails, Goto, ThreadsOK
      <3> QED BY <3>1 DEF Awaits
    <2> QED BY <1>6, <1>7, <2>1 DEF MakeSkill, FindVersion, PublishSkill, SkillRefused, Step
  <1>8. CASE Ingest(i)
    <2>1. Telling(i, 1) \in {"remember", "finalize", "save"} /\ Telling(i, work[i].next + 1) \in {"remember", "finalize", "save"}
      BY DEF Telling
    <2>2. CASE Done(i)
      <3>1. ASSUME NEW n, NEW a, NEW b, Step(i, "scan", [Idle EXCEPT !.id = n, !.scan = a, !.gone = b])
            PROVE  Awaits(i)'
        <4>1. [Idle EXCEPT !.id = n, !.scan = a, !.gone = b].stood = {}
          BY DEF Idle
        <4> QED BY <1>5, <3>1, <4>1 DEF Awaits
      <3> QED BY <1>6, <2>2, <3>1 DEF Done, Step
    <2>3. CASE Begin(i) \/ FindRevision(i) \/ InsertRevision(i)
      BY <1>6, <2>1, <2>3 DEF Step, Begin, FindRevision, InsertRevision
    <2>4. CASE InsertRefused(i) \/ FileItem(i) \/ FindPrevious(i)
      BY <1>6, <2>1, <2>4 DEF Step, InsertRefused, FileItem, FindPrevious
    <2>5. CASE Merge(i) \/ Insert(i) \/ Invalidate(i)
      BY <1>6, <2>1, <2>5 DEF Step, Merge, Insert, Invalidate
    <2>6. CASE ReportChange(i) \/ FindArtifacts(i) \/ StaleArtifact(i)
      BY <1>6, <2>1, <2>6 DEF Step, ReportChange, FindArtifacts, StaleArtifact
    <2>7. CASE FindSkills(i) \/ OutdateSkill(i) \/ FindArtifact(i)
      BY <1>6, <2>1, <2>7 DEF Step, FindSkills, OutdateSkill, FindArtifact
    <2>8. CASE SaveArtifact(i) \/ SaveFails(i)
      BY <1>6, <2>1, <2>8 DEF Step, SaveArtifact, SaveFails
    <2> QED BY <1>8, <2>2, <2>3, <2>4, <2>5, <2>6, <2>7, <2>8 DEF Ingest
  <1>9. CASE RetireList(i)
    <2> DEFINE h == [u \in CurrentOf(work[i].source) |-> memory[u].sources \ {work[i].source}]
               w == [work[i] EXCEPT !.stood = Standing(i), !.held = h]
    <2>1. Step(i, "release", w) /\ memory' = memory /\ work[i].stood = {}
      BY <1>1, <1>9 DEF RetireList, At, Awaits, NoChange, stored
    <2>2. Standing(i) = IF Alone(i) THEN Latest ELSE {}
      BY <2>1 DEF Standing
    <2> HIDE DEF h
    <2>3. w.stood = Standing(i)
      BY <1>1 DEF WorkRow
    <2> HIDE DEF w
    <2>4. \A u \in Latest : memory[u].says # None
      BY DEF SoloInv, Spoken, Latest
    <2>5. Latest' = Latest
      BY <2>1 DEF Latest
    <2> QED BY <1>5, <2>1, <2>2, <2>3, <2>4, <2>5 DEF Awaits, Alone
  <1>10. CASE RetireWrite(i)
    <2> DEFINE gone == {u \in DOMAIN work[i].held : work[i].held[u] = {}}
               w == [work[i] EXCEPT !.withdrawn = gone, !.held = <<>>]
    <2>1. pc[i] = "release" /\ Step(i, "drop", w)
      BY <1>10 DEF RetireWrite, At
    <2>2. ASSUME NEW v \in Units
          PROVE  memory'[v].says = memory[v].says /\ (memory[v].latest => memory'[v].latest \/ v \in gone)
      <3>1. memory[v] \in UnitRow
        BY DEF TablesOK, UnitRow
      <3>2. memory'[v] = IF v \notin DOMAIN work[i].held THEN memory[v]
                         ELSE IF work[i].held[v] # {} THEN [memory[v] EXCEPT !.sources = work[i].held[v]]
                         ELSE [memory[v] EXCEPT !.latest = FALSE]
        BY <1>10 DEF RetireWrite
      <3> QED BY <3>1, <3>2 DEF UnitRow
    <2> HIDE DEF gone
    <2>3. w.stood = work[i].stood /\ w.withdrawn = gone /\ work[i].stood \subseteq Units
      BY <1>1 DEF WorkRow
    <2> HIDE DEF w
    <2>4. Latest \subseteq Latest' \union gone
      BY <2>2 DEF Latest
    <2>5. pc'[i] = "drop" /\ work'[i] = w /\ \A j \in Threads \ {i} : pc'[j] = pc[j]
      BY <1>5, <2>1
    <2>6. w.stood # {} => /\ \A j \in Threads \ {i} : pc[j] = "idle"
                          /\ w.stood \subseteq Latest /\ \A u \in w.stood : memory[u].says # None
      BY <1>1, <2>1, <2>3 DEF Awaits
    <2>7. w.stood # {} => /\ \A j \in Threads \ {i} : pc'[j] = "idle"
                          /\ w.stood \subseteq Latest' \union w.withdrawn /\ \A u \in w.stood : memory'[u].says # None
      BY <2>2, <2>3, <2>4, <2>5, <2>6
    <2> QED BY <2>5, <2>7 DEF Awaits
  <1>11. ASSUME NEW place \in {"done", "begin", "drop"}, NEW w, Step(i, place, w), memory' = memory,
                w.stood = work[i].stood /\ w.withdrawn = work[i].withdrawn, pc[i] \in {"drop", "scan"}
         PROVE  Awaits(i)'
    <2>1. pc'[i] = place /\ work'[i] = w /\ (\A j \in Threads \ {i} : pc'[j] = pc[j]) /\ Latest' = Latest
      BY <1>5, <1>11 DEF Latest
    <2> QED BY <1>1, <1>11, <2>1 DEF Awaits
  <1>12. CASE DropItems(i)
    <2> DEFINE w == [work[i] EXCEPT !.todo = {}]
               place == IF work[i].text = None THEN "done" ELSE "begin"
    <2>1. Step(i, place, w) /\ memory' = memory /\ pc[i] = "drop"
      BY <1>12 DEF DropItems, At
    <2>2. w.stood = work[i].stood /\ w.withdrawn = work[i].withdrawn
      BY <1>1 DEF WorkRow
    <2>3. place \in {"done", "begin", "drop"}
      OBVIOUS
    <2> HIDE DEF w, place
    <2> QED BY <1>11, <2>1, <2>2, <2>3
  <1>13. CASE ScanFile(i)
    <2>1. PICK f \in work[i].scan :
            LET w == [work[i] EXCEPT !.scan = @ \ {f}, !.source = f[1], !.text = f[2]]
            IN Step(i, "scan", [work[i] EXCEPT !.scan = @ \ {f}]) \/ Step(i, "begin", w) \/ Step(i, "drop", w)
      BY <1>13 DEF ScanFile
    <2> DEFINE v == [work[i] EXCEPT !.scan = @ \ {f}]
               w == [work[i] EXCEPT !.scan = @ \ {f}, !.source = f[1], !.text = f[2]]
    <2>2. Step(i, "scan", v) \/ Step(i, "begin", w) \/ Step(i, "drop", w)
      BY <2>1
    <2>3. /\ v.stood = work[i].stood /\ w.stood = work[i].stood /\ w.withdrawn = work[i].withdrawn
          /\ work[i].stood = {} /\ memory' = memory /\ pc[i] = "scan"
      BY <1>1, <1>13 DEF WorkRow, ScanFile, At, Awaits, NoChange, stored
    <2> HIDE DEF v, w
    <2>4. CASE Step(i, "scan", v)
      BY <1>5, <2>3, <2>4 DEF Awaits
    <2> QED BY <1>11, <2>2, <2>3, <2>4
  <1>14. CASE ScanGone(i)
    <2>1. ASSUME NEW s, Step(i, "retire", [work[i] EXCEPT !.gone = @ \ {s}, !.source = s, !.text = None])
          PROVE  Awaits(i)'
      <3>1. [work[i] EXCEPT !.gone = @ \ {s}, !.source = s, !.text = None].stood = work[i].stood
        BY <1>1 DEF WorkRow
      <3>2. work[i].stood = {}
        BY <1>1, <1>14 DEF ScanGone, At, Awaits
      <3> QED BY <1>5, <2>1, <3>1, <3>2 DEF Awaits
    <2> QED BY <1>6, <1>14, <2>1 DEF ScanGone, Step
  <1> QED BY <1>2, <1>3, <1>4, <1>7, <1>8, <1>9, <1>10, <1>12, <1>13, <1>14 DEF Next, Withdraw

LEMMA SoloStep ==
    ASSUME IInv, SoloInv, [Next]_vars
    PROVE  SoloInv'
  <1>1. Spoken' /\ \A i \in Threads : Awaits(i)'
    BY SpokenStep, AwaitsStep DEF SoloInv
  <1>2. ASSUME NEW i \in Threads, work'[i].alone
        PROVE  Solo(i)'
    <2>1. CASE UNCHANGED vars
      <3>1. work[i].alone /\ SameNotes(work[i], work'[i]) /\ Quiet(i) /\ pc'[i] = pc[i]
        BY <1>2, <2>1 DEF vars, Quiet, OthersKeep, SameNotes
      <3>2. Solo(i)
        BY <3>1 DEF SoloInv
      <3>3. NotesHold(i)' /\ FollowsText(i)'
        BY <2>1, <3>2 DEF vars, Solo, NotesHold, FollowsText, CurrentOf, Latest, KeysOf, KnowsPrevious
      <3>4. MarksAll(i)'
        BY <2>1, <3>2 DEF vars, Solo, MarksAll, RetiredIsAffected, MarksArtifacts, MarksSkills, Retired,
                          Replaced, Rests, Offers, CurrentMemories, Latest, Invalidated
      <3> QED BY <3>3, <3>4 DEF Solo
    <2>2. CASE Next
      <3>1. Ingest(i) /\ (Begin(i) \/ work[i].alone)
        BY <1>2, <2>2, OnlyMine
      <3>2. CASE Begin(i)
        BY <1>2, <3>2, BeginSolo DEF SoloInv
      <3>3. ASSUME Step(i, "idle", Idle) \/ \E n, a, b : Step(i, "scan", [Idle EXCEPT !.id = n, !.scan = a, !.gone = b])
            PROVE  FALSE
        <4>1. CASE Step(i, "idle", Idle)
          BY <1>2, <4>1, StepMoves DEF IInv, Idle
        <4>2. ASSUME NEW n, NEW a, NEW b, Step(i, "scan", [Idle EXCEPT !.id = n, !.scan = a, !.gone = b])
              PROVE  FALSE
          <5>1. [Idle EXCEPT !.id = n, !.scan = a, !.gone = b].alone = FALSE
            BY DEF Idle
          <5> QED BY <1>2, <4>2, <5>1, StepMoves DEF IInv
        <4> QED BY <3>3, <4>1, <4>2
      <3>4. ~InsertRefused(i) /\ ~SaveFails(i) /\ ~Done(i)
        BY <3>3 DEF InsertRefused, SaveFails, Done
      <3>5. CASE work[i].alone /\ ~Begin(i)
        <4>1. Spoken /\ Solo(i)
          BY <3>5 DEF SoloInv
        <4> QED BY <3>1, <3>4, <3>5, <4>1, ReadsSolo, MergeSolo, InsertSolo, InvalidateSolo, ReportSolo,
                   ArtifactsSolo, SkillsSolo, SavesSolo DEF Ingest
      <3> QED BY <3>1, <3>2, <3>5
    <2> QED BY <2>1, <2>2
  <1> QED BY <1>1, <1>2 DEF SoloInv

\* An ingestion alone knows memory as it is, in every reachable state.
THEOREM SolitudeInductive == Spec => [](IInv /\ SoloInv)
  <1>1. Init => SoloInv
    BY DEF Init, SoloInv, Spoken, Idle, Awaits
  <1>2. IInv /\ SoloInv /\ [Next]_vars => (IInv /\ SoloInv)'
    BY IInvStep, SoloStep
  <1> QED BY <1>1, <1>2, IInvInit, PTL DEF Spec

\* After a source was ingested alone with a text that is new, its current
\* memory is of the subjects of that text, and holds its last word on each.
THEOREM MemoryFollows == Spec => []MemoryFollowsText
  <1>1. IInv /\ SoloInv => MemoryFollowsText
    <2> SUFFICES ASSUME IInv, SoloInv, NEW i \in Threads, Undisturbed(i)
                 PROVE  LET t == work[i].text  current == CurrentOf(work[i].source)
                        IN /\ \A u \in current : KeyOf(memory[u].says) \in KeysOf(t)
                           /\ \A k \in DOMAIN Says[t] : IsLastWord(t, k) => \E u \in current : memory[u].says = Says[t][k]
      BY DEF MemoryFollowsText
    <2> DEFINE t == work[i].text
               n == work[i].next
    <2>1. Solo(i) /\ pc[i] = "done" /\ work[i].created /\ t # None
      BY DEF Undisturbed, At, SoloInv
    <2>2. t \in Texts /\ n \in Nat
      BY <2>1, Notes DEF IInv, WorkRow
    <2>3. Says[t] \in Seq(Statements)
      BY <2>2, SourceAssumption
    <2>4. n # 0 /\ n \notin DOMAIN Says[t]
      BY <2>1 DEF Solo, NotesHold, Closing
    <2>5. \A k \in DOMAIN Says[t] : k \in Nat /\ k < n
      BY <2>2, <2>3, <2>4
    <2>6. \A u \in CurrentOf(work[i].source) : KeyOf(memory[u].says) \in KeysOf(t)
      BY <2>1 DEF Solo, FollowsText, Closing
    <2>7. ASSUME NEW k \in DOMAIN Says[t], IsLastWord(t, k)
          PROVE  \E u \in CurrentOf(work[i].source) : memory[u].says = Says[t][k]
      <3>1. WordSoFar(t, k, n)
        BY <2>3, <2>5, <2>7 DEF WordSoFar, IsLastWord
      <3> QED BY <2>1, <3>1 DEF Solo, FollowsText
    <2> QED BY <2>6, <2>7
  <1> QED BY <1>1, SolitudeInductive, PTL

\* After it, nothing rests on a memory it retired: no other artifact counts
\* as current that does, and no skill.
THEOREM DependentsAreMarked == Spec => []DependentsMarked
  <1>1. IInv /\ SoloInv => DependentsMarked
    <2> SUFFICES ASSUME IInv, SoloInv, NEW i \in Threads, Undisturbed(i)
                 PROVE  LET retired == work[i].stood \ (Latest \union work[i].withdrawn)
                        IN /\ \A a \in Reports \ {work[i].source} :
                                artifacts[a].status = "current" => CurrentMemories(a) \intersect retired = {}
                           /\ \A k \in skills : k.status = "current" => k.memories \intersect retired = {}
      BY DEF DependentsMarked
    <2>1. Solo(i) /\ pc[i] \in Closing /\ work[i].created
      BY DEF Undisturbed, At, SoloInv, Closing
    <2>2. \A a \in Reports \ {work[i].source} : ~Rests(a, work[i])
      BY <2>1 DEF Solo, MarksAll, MarksArtifacts
    <2>3. \A k \in skills : ~Offers(k, work[i])
      BY <2>1 DEF Solo, MarksAll, MarksSkills
    <2> QED BY <2>2, <2>3 DEF Rests, Offers, Retired
  <1> QED BY <1>1, SolitudeInductive, PTL
=============================================================================
