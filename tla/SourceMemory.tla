---------------------------- MODULE SourceMemory ----------------------------
(***************************************************************************)
(* What a source says and what the company remembers of it: ingest_item    *)
(* (ingestion/service.py), source revisions, change sets, artifacts and    *)
(* compiled skills (memory/brain.py), memory units (memory/company.py), the *)
(* connector applier and the repository scan that call them.               *)
(*                                                                         *)
(* Several threads ingest at once.  Every helper uses a connection of its  *)
(* own, so a thread's step is one connection; what it read earlier is kept *)
(* in work and may be stale when it is used.                               *)
(***************************************************************************)
EXTENDS Naturals, FiniteSets, Sequences

CONSTANTS
  Threads,      \* request threads and workers that ingest or compile
  Sources,      \* source ids of one project
  Reports,      \* the sources that are reports: ingesting one saves its artifact
  Files,        \* the sources a repository scan looks at
  Texts,        \* contents, after redaction
  Statements,   \* what extract_atomic_memories finds in a text
  Subjects,     \* the subjects, up to the case of ASCII letters: lower() in SQL
  Keys,         \* what BrainService._key leaves of them: ASCII words and digits
  Units,        \* rows of memory_units, a pool
  Says,         \* Texts -> Seq(Statements)
  Subject,      \* Statements -> Subjects
  Key,          \* Subjects -> Keys: punctuation and other alphabets are lost
  Contradicts,  \* the pairs <<old, new>> that _relationship calls CONTRADICTS
  Procedural,   \* the statements a skill may be compiled from
  Operations,   \* what the threads of an instance do
  MaxStarts,    \* bound: operations begun
  MaxFailures   \* bound: operations that raise or die on the way

ASSUME SourceAssumption ==
  /\ Reports \subseteq Sources /\ Files \subseteq Sources
  /\ Says \in [Texts -> Seq(Statements)]
  /\ Subject \in [Statements -> Subjects]
  /\ Key \in [Subjects -> Keys]
  /\ Contradicts \subseteq Statements \X Statements
  /\ Procedural \subseteq Statements /\ "none" \notin Statements \union Units
  /\ Operations \subseteq {"upload", "apply", "remove", "scan", "compile"}
  /\ MaxStarts \in Nat /\ MaxFailures \in Nat

VARIABLES
  revisions,  \* source_revisions: per source, rows [version, text, status]
  items,      \* knowledge_items: per source, rows <<operation, text>>
  memory,     \* memory_units: [says, sources, latest], says = None when unused
  related,    \* memory_relationships: <<newer, older, relationship>>
  changes,    \* memory_change_sets: rows [source, version, review]
  artifacts,  \* per report: [revisions, current, status]
  skills,     \* skill_specs of one name: rows [version, status, memories]
  pc,         \* where each thread is
  work,       \* what each thread has read
  starts, failures

vars == <<revisions, items, memory, related, changes, artifacts, skills, pc, work, starts, failures>>
stored == <<revisions, items, memory, related, changes, artifacts, skills>>

None == "none"
Latest == {u \in Units : memory[u].latest}
Unused == {u \in Units : memory[u].says = None}
CurrentOf(s) == {u \in Latest : s \in memory[u].sources}
KeyOf(st) == Key[Subject[st]]
KeysOf(t) == {KeyOf(Says[t][k]) : k \in DOMAIN Says[t]}
Newest(rs) == IF rs = {} THEN 0 ELSE CHOOSE n \in {r.version : r \in rs} : \A r \in rs : r.version <= n
NoChange == UNCHANGED stored

(* A thread's notes.  scan holds the files still to visit with the text of *)
(* the checkout, gone the sources it will delete; stood, withdrawn and     *)
(* alone are history: the memory that was current when the source's turn   *)
(* came, what retire_source_memories retired of it, and whether nobody     *)
(* else was at work since.                                                 *)
Idle == [id |-> 0, source |-> None, text |-> None, scan |-> {}, gone |-> {}, version |-> 0, created |-> FALSE,
         before |-> {}, said |-> {}, next |-> 1, previous |-> None, from |-> {}, held |-> <<>>, affected |-> {},
         todo |-> {}, stood |-> {}, withdrawn |-> {}, alone |-> FALSE]

Init ==
  /\ revisions = [s \in Sources |-> {}] /\ items = [s \in Sources |-> {}]
  /\ memory = [u \in Units |-> [says |-> None, sources |-> {}, latest |-> FALSE]]
  /\ related = {} /\ changes = {} /\ skills = {}
  /\ artifacts = [s \in Reports |-> [revisions |-> {}, current |-> 0, status |-> "current"]]
  /\ pc = [i \in Threads |-> "idle"] /\ work = [i \in Threads |-> Idle]
  /\ starts = 0 /\ failures = 0

At(i, place) == pc[i] = place
Goto(i, place) == pc' = [pc EXCEPT ![i] = place]
Note(i, w) == work' = [work EXCEPT ![i] = w]
Alone(i) == \A j \in Threads \ {i} : pc[j] = "idle"

(* A thread begins; whoever is at work is alone no longer. *)
Start(i, operation, place, w) ==
  /\ operation \in Operations /\ At(i, "idle") /\ starts < MaxStarts
  /\ starts' = starts + 1 /\ Goto(i, place)
  /\ work' = [j \in Threads |-> IF j = i THEN [w EXCEPT !.id = starts + 1] ELSE [work[j] EXCEPT !.alone = FALSE, !.stood = {}]]
  /\ NoChange /\ UNCHANGED failures

Step(i, place, w) == Goto(i, place) /\ Note(i, w) /\ UNCHANGED <<starts, failures>>

(***************************************************************************)
(* ingest_item                                                             *)
(***************************************************************************)
Upload(i) ==
  \E s \in Sources, t \in Texts :
    Start(i, "upload", "begin", [Idle EXCEPT !.source = s, !.text = t])

Standing(i) == IF Alone(i) THEN work[i].stood \union Latest ELSE {}

(* current_source_memories: what the source has to say so far. *)
Begin(i) ==
  /\ At(i, "begin") /\ NoChange
  /\ Step(i, "revise", [work[i] EXCEPT !.before = CurrentOf(work[i].source), !.stood = Standing(i),
                                       !.alone = Alone(i), !.said = {}, !.next = 1, !.affected = {}])

(* record_source_revision: the duplicate is looked up among all revisions, *)
(* not only the current one.                                               *)
FindRevision(i) ==
  LET known == {r \in revisions[work[i].source] : r.text = work[i].text}
  IN /\ At(i, "revise") /\ NoChange
     /\ \/ \E r \in known :
             Step(i, "file", [work[i] EXCEPT !.version = r.version, !.created = FALSE])
        \/ /\ known = {}
           /\ Step(i, "supersede", [work[i] EXCEPT !.version = Newest(revisions[work[i].source]) + 1,
                                                   !.created = TRUE])

(* The two UNIQUE constraints of source_revisions. *)
Refused(s, version, text) == \E r \in revisions[s] : r.version = version \/ r.text = text
Superseded(rs, version) == {[r EXCEPT !.status = IF r.version = version THEN "superseded" ELSE @] : r \in rs}

(* Mutant: no UNIQUE constraint on the version. *)
InsertRevisionAnyway(i) ==
  LET s == work[i].source  v == work[i].version
  IN /\ At(i, "supersede")
     /\ revisions' = [revisions EXCEPT ![s] =
          Superseded(@, v - 1) \union {[version |-> v, text |-> work[i].text, status |-> "current"]}]
     /\ Step(i, "file", work[i])
     /\ UNCHANGED <<items, memory, related, changes, artifacts, skills>>

InsertRevision(i) ==
  LET s == work[i].source  v == work[i].version
  IN /\ At(i, "supersede") /\ ~Refused(s, v, work[i].text)
     /\ revisions' = [revisions EXCEPT ![s] =
          Superseded(@, v - 1) \union {[version |-> v, text |-> work[i].text, status |-> "current"]}]
     /\ Step(i, "file", work[i])
     /\ UNCHANGED <<items, memory, related, changes, artifacts, skills>>

(* The loser of a race gets an IntegrityError: its transaction is undone   *)
(* and the request ends with it.                                           *)
InsertRefused(i) ==
  /\ At(i, "supersede") /\ Refused(work[i].source, work[i].version, work[i].text)
  /\ NoChange /\ Step(i, "idle", Idle)

(***************************************************************************)
(* CompanyMemoryService.create, once per statement of the text             *)
(***************************************************************************)
(* Statement n comes next; after the last one a change set is written, but *)
(* only for a revision that is new.                                        *)
Telling(i, n) ==
  IF n \in DOMAIN Says[work[i].text] THEN "remember" ELSE IF work[i].created THEN "finalize" ELSE "save"

FileItem(i) ==
  /\ At(i, "file")
  /\ items' = [items EXCEPT ![work[i].source] = @ \union {<<work[i].id, work[i].text>>}]
  /\ Step(i, Telling(i, 1), work[i])
  /\ UNCHANGED <<revisions, memory, related, changes, artifacts, skills>>

Said(i) == Says[work[i].text][work[i].next]
SameSubject(st) == {u \in Latest : Subject[memory[u].says] = Subject[st]}

(* The read takes the row updated last; which one that is among several    *)
(* current rows of a subject is left open.                                 *)
FindPrevious(i) ==
  /\ At(i, "remember") /\ NoChange
  /\ \E u \in IF SameSubject(Said(i)) = {} THEN {None} ELSE SameSubject(Said(i)) :
       Step(i, "write", [work[i] EXCEPT !.previous = u, !.from = IF u = None THEN {} ELSE memory[u].sources])

Repeats(i) == LET u == work[i].previous IN IF u = None THEN FALSE ELSE memory[u].says = Said(i)
Told(i, u) == [work[i] EXCEPT !.said = @ \union {u}, !.next = @ + 1, !.previous = None, !.from = {}]

(* The same statement again: its row gets the sources it had when it was   *)
(* read and this one, also when it was retired or shared since.            *)
Merge(i) ==
  LET u == work[i].previous
  IN /\ At(i, "write") /\ Repeats(i)
     /\ memory' = [memory EXCEPT ![u].sources = work[i].from \union {work[i].source}]
     /\ Step(i, Telling(i, work[i].next + 1), Told(i, u))
     /\ UNCHANGED <<revisions, items, related, changes, artifacts, skills>>

(* _relationship *)
Relationship(old, new) == IF <<old, new>> \in Contradicts THEN "CONTRADICTS" ELSE "UPDATES"

(* A new row; the previous one is retired unless the two are in conflict.  *)
Insert(i) ==
  LET p == work[i].previous
      r == IF p = None THEN None ELSE Relationship(memory[p].says, Said(i))
  IN /\ At(i, "write") /\ ~Repeats(i)
     /\ \E u \in Unused :
          /\ memory' = [v \in Units |->
               CASE v = u -> [says |-> Said(i), sources |-> {work[i].source}, latest |-> TRUE]
                 [] v = p /\ r = "UPDATES" -> [memory[v] EXCEPT !.latest = FALSE]
                 [] OTHER -> memory[v]]
          /\ related' = related \union IF p = None THEN {} ELSE {<<u, p, r>>}
          /\ Step(i, Telling(i, work[i].next + 1), Told(i, u))
     /\ UNCHANGED <<revisions, items, changes, artifacts, skills>>

(***************************************************************************)
(* finalize_change_set                                                     *)
(***************************************************************************)
Added(i) == work[i].said \ work[i].before
InvalidatedReplaced(i) == {u \in work[i].before \ work[i].said :  \* Mutant: the replaced ones instead
                     \E v \in work[i].said : KeyOf(memory[v].says) = KeyOf(memory[u].says)}

(* What the source no longer speaks about, by the coarser key.             *)
Invalidated(i) == {u \in work[i].before \ work[i].said :
                     \A v \in work[i].said : KeyOf(memory[v].says) # KeyOf(memory[u].says)}

Invalidate(i) ==
  /\ At(i, "finalize")
  /\ memory' = [u \in Units |-> IF u \in Invalidated(i) THEN [memory[u] EXCEPT !.latest = FALSE] ELSE memory[u]]
  /\ Step(i, "report", work[i])
  /\ UNCHANGED <<revisions, items, related, changes, artifacts, skills>>

(* Mutant: the rows that an added one replaced are not counted. *)
ReportAdded(i) ==
  LET rows == {e \in related : e[1] \in Added(i)}
      disputed == \E e \in rows : e[3] = "CONTRADICTS"
  IN /\ At(i, "report")
     /\ changes' = changes \union {[source |-> work[i].source, version |-> work[i].version,
                                    review |-> IF disputed THEN "needs_review" ELSE "automatic"]}
     /\ Step(i, "artifacts", [work[i] EXCEPT !.affected = Added(i) \union Invalidated(i)])
     /\ UNCHANGED <<revisions, items, memory, related, artifacts, skills>>

(* The relationships of the added rows tell what was updated or disputed.  *)
ReportChange(i) ==
  LET rows == {e \in related : e[1] \in Added(i)}
      disputed == \E e \in rows : e[3] = "CONTRADICTS"
  IN /\ At(i, "report")
     /\ changes' = changes \union {[source |-> work[i].source, version |-> work[i].version,
                                    review |-> IF disputed THEN "needs_review" ELSE "automatic"]}
     /\ Step(i, "artifacts", [work[i] EXCEPT !.affected =
          Added(i) \union Invalidated(i) \union {e[2] : e \in rows}])
     /\ UNCHANGED <<revisions, items, memory, related, artifacts, skills>>

(* _invalidate_artifacts reads the current revisions, then marks one after *)
(* the other; _invalidate_skills likewise.                                 *)
CurrentMemories(a) == UNION {r.memories : r \in {q \in artifacts[a].revisions : q.version = artifacts[a].current}}

FindArtifacts(i) ==
  LET hit == {a \in Reports : /\ artifacts[a].current # 0
                              /\ a = work[i].source \/ CurrentMemories(a) \intersect work[i].affected # {}}
  IN /\ At(i, "artifacts") /\ NoChange
     /\ Step(i, IF hit = {} THEN "skills" ELSE "stale", [work[i] EXCEPT !.todo = hit])

StaleArtifact(i) ==
  /\ At(i, "stale")
  /\ \E a \in work[i].todo :
       /\ artifacts' = [artifacts EXCEPT ![a].status = "stale"]
       /\ Step(i, IF work[i].todo = {a} THEN "skills" ELSE "stale", [work[i] EXCEPT !.todo = @ \ {a}])
  /\ UNCHANGED <<revisions, items, memory, related, changes, skills>>

FindSkills(i) ==
  LET hit == {k.version : k \in {q \in skills : q.status = "current" /\ q.memories \intersect work[i].affected # {}}}
  IN /\ At(i, "skills") /\ NoChange
     /\ Step(i, IF hit = {} THEN "save" ELSE "outdate", [work[i] EXCEPT !.todo = hit])

OutdateSkill(i) ==
  /\ At(i, "outdate")
  /\ \E n \in work[i].todo :
       /\ skills' = {[k EXCEPT !.status = IF k.version = n THEN "stale" ELSE @] : k \in skills}
       /\ Step(i, IF work[i].todo = {n} THEN "save" ELSE "outdate", [work[i] EXCEPT !.todo = @ \ {n}])
  /\ UNCHANGED <<revisions, items, memory, related, changes, artifacts>>

(***************************************************************************)
(* save_artifact, at the end of a report's ingestion                       *)
(***************************************************************************)
SaveRefused(a, version, text) ==
  \E r \in artifacts[a].revisions : r.version = version \/ r.text = text

(* A content saved before changes nothing, whatever the artifact's status  *)
(* and current revision are.                                               *)
FindArtifact(i) ==
  LET s == work[i].source
  IN /\ At(i, "save") /\ NoChange
     /\ IF s \notin Reports \/ \E r \in artifacts[s].revisions : r.text = work[i].text
          THEN Step(i, "done", work[i])
          ELSE Step(i, "publish", [work[i] EXCEPT !.version = Newest(artifacts[s].revisions) + 1])

SaveArtifact(i) ==
  LET s == work[i].source  v == work[i].version
  IN /\ At(i, "publish") /\ ~SaveRefused(s, v, work[i].text)
     /\ artifacts' = [artifacts EXCEPT ![s] =
          [revisions |-> @.revisions \union {[version |-> v, text |-> work[i].text, memories |-> work[i].said]},
           current |-> v, status |-> "current"]]
     /\ Step(i, "done", work[i])
     /\ UNCHANGED <<revisions, items, memory, related, changes, skills>>

SaveFails(i) ==
  /\ At(i, "publish") /\ SaveRefused(work[i].source, work[i].version, work[i].text)
  /\ NoChange /\ Step(i, "idle", Idle)

Done(i) ==
  /\ At(i, "done") /\ NoChange
  /\ IF work[i].scan = {} /\ work[i].gone = {}
       THEN Step(i, "idle", Idle)
       ELSE Step(i, "scan", [Idle EXCEPT !.id = work[i].id, !.scan = work[i].scan, !.gone = work[i].gone])

(***************************************************************************)
(* OrgMemorySyncApplier: a record with the text on file changes nothing; a *)
(* changed or deleted one retires what its source said first.              *)
(***************************************************************************)
Apply(i) ==
  \E s \in Sources, t \in Texts :
    \/ items[s] = {} /\ Start(i, "apply", "begin", [Idle EXCEPT !.source = s, !.text = t])
    \/ \E filed \in items[s] :
         filed[2] # t /\ Start(i, "apply", "retire", [Idle EXCEPT !.source = s, !.text = t, !.todo = {filed}])

Remove(i) ==
  \E s \in Sources : \E filed \in items[s] :
    Start(i, "remove", "retire", [Idle EXCEPT !.source = s, !.todo = {filed}])

(* retire_source_memories: the sources that would remain are computed from *)
(* the rows as they were read.                                             *)
RetireList(i) ==
  /\ At(i, "retire") /\ NoChange
  /\ Step(i, "release", [work[i] EXCEPT !.stood = Standing(i), !.held =
       [u \in CurrentOf(work[i].source) |-> memory[u].sources \ {work[i].source}]])

RetireWrite(i) ==
  LET held == work[i].held
  IN /\ At(i, "release")
     /\ memory' = [u \in Units |->
          IF u \notin DOMAIN held THEN memory[u]
          ELSE IF held[u] # {} THEN [memory[u] EXCEPT !.sources = held[u]]
          ELSE [memory[u] EXCEPT !.latest = FALSE]]
     /\ Step(i, "drop", [work[i] EXCEPT !.withdrawn = {u \in DOMAIN held : held[u] = {}}, !.held = <<>>])
     /\ UNCHANGED <<revisions, items, related, changes, artifacts, skills>>

(* The applier deletes the row it found, a scan every row of the source. *)
DropItems(i) ==
  /\ At(i, "drop")
  /\ items' = [items EXCEPT ![work[i].source] = IF work[i].todo = {} THEN {} ELSE @ \ work[i].todo]
  /\ Step(i, IF work[i].text = None THEN "done" ELSE "begin", [work[i] EXCEPT !.todo = {}])
  /\ UNCHANGED <<revisions, memory, related, changes, artifacts, skills>>

(***************************************************************************)
(* RepositoryIngestor.ingest: a snapshot of the items on file, then file by *)
(* file of the checkout; what the checkout lacks is deleted at the end.    *)
(***************************************************************************)
Filed(s) == IF items[s] = {} THEN {None} ELSE {row[2] : row \in items[s]}

Scan(i) ==
  \E tree \in [Files -> Texts \union {None}], on \in [Files -> UNION {Filed(s) : s \in Files}] :
    /\ \A s \in Files : on[s] \in Filed(s)
    /\ Start(i, "scan", "scan",
         [Idle EXCEPT !.scan = {<<s, tree[s], on[s]>> : s \in {f \in Files : tree[f] # None}},
                      !.gone = {s \in Files : tree[s] = None /\ on[s] # None}])

ScanFile(i) ==
  /\ At(i, "scan") /\ NoChange
  /\ \E f \in work[i].scan :
       LET w == [work[i] EXCEPT !.scan = @ \ {f}, !.source = f[1], !.text = f[2]]
       IN \/ f[2] = f[3] /\ Step(i, "scan", [work[i] EXCEPT !.scan = @ \ {f}])
          \/ f[3] = None /\ Step(i, "begin", w)
          \/ f[3] \notin {None, f[2]} /\ Step(i, "drop", w)

ScanGone(i) ==
  /\ At(i, "scan") /\ work[i].scan = {} /\ NoChange
  /\ \/ \E s \in work[i].gone :
          Step(i, "retire", [work[i] EXCEPT !.gone = @ \ {s}, !.source = s, !.text = None])
     \/ work[i].gone = {} /\ Step(i, "idle", Idle)

(***************************************************************************)
(* compile_skill, from the current memory the route has listed             *)
(***************************************************************************)
Compile(i) ==
  LET eligible == {u \in Latest : memory[u].says \in Procedural}
  IN eligible # {} /\ Start(i, "compile", "compile", [Idle EXCEPT !.said = eligible])

FindVersion(i) ==
  At(i, "compile") /\ NoChange /\ Step(i, "offer", [work[i] EXCEPT !.version = Newest(skills) + 1])

PublishSkillBeside(i) ==  \* Mutant: the version before stays current
  LET v == work[i].version
  IN /\ At(i, "offer") /\ \A k \in skills : k.version # v
     /\ skills' = skills \union {[version |-> v, status |-> "current", memories |-> work[i].said]}
     /\ Step(i, "idle", Idle)
     /\ UNCHANGED <<revisions, items, memory, related, changes, artifacts>>

PublishSkill(i) ==
  LET v == work[i].version
  IN /\ At(i, "offer") /\ \A k \in skills : k.version # v
     /\ skills' = {[k EXCEPT !.status = IF @ = "current" THEN "superseded" ELSE @] : k \in skills}
                    \union {[version |-> v, status |-> "current", memories |-> work[i].said]}
     /\ Step(i, "idle", Idle)
     /\ UNCHANGED <<revisions, items, memory, related, changes, artifacts>>

SkillRefused(i) ==
  /\ At(i, "offer") /\ \E k \in skills : k.version = work[i].version
  /\ NoChange /\ Step(i, "idle", Idle)

(* An exception of the graph or the database, or the end of the process.   *)
Fails(i) ==
  /\ ~At(i, "idle") /\ failures < MaxFailures /\ failures' = failures + 1
  /\ Goto(i, "idle") /\ Note(i, Idle) /\ NoChange /\ UNCHANGED starts

Ingest(i) ==
  \/ Begin(i) \/ FindRevision(i) \/ InsertRevision(i) \/ InsertRefused(i) \/ FileItem(i)
  \/ FindPrevious(i) \/ Merge(i) \/ Insert(i)
  \/ Invalidate(i) \/ ReportChange(i) \/ FindArtifacts(i) \/ StaleArtifact(i)
  \/ FindSkills(i) \/ OutdateSkill(i) \/ FindArtifact(i) \/ SaveArtifact(i) \/ SaveFails(i) \/ Done(i)

Withdraw(i) == RetireList(i) \/ RetireWrite(i) \/ DropItems(i) \/ ScanFile(i) \/ ScanGone(i)

MakeSkill(i) == FindVersion(i) \/ PublishSkill(i) \/ SkillRefused(i)

Next ==
  \E i \in Threads :
    \/ Upload(i) \/ Apply(i) \/ Remove(i) \/ Scan(i) \/ Compile(i)
    \/ Ingest(i) \/ Withdraw(i) \/ MakeSkill(i) \/ Fails(i)

Spec == Init /\ [][Next]_vars

-----------------------------------------------------------------------------
RevisionRow == [version : Nat \ {0}, text : Texts, status : {"current", "superseded"}]
ArtifactRow == [version : Nat \ {0}, text : Texts, memories : SUBSET Units]
SkillRow == [version : Nat \ {0}, status : {"current", "superseded", "stale"}, memories : SUBSET Units]

(* Every table holds rows of its schema and its status vocabulary. *)
TablesOK ==
  /\ revisions \in [Sources -> SUBSET RevisionRow]
  /\ items \in [Sources -> SUBSET (Nat \X Texts)]
  /\ memory \in [Units -> [says : Statements \union {None}, sources : SUBSET Sources, latest : BOOLEAN]]
  /\ related \subseteq Units \X Units \X {"UPDATES", "CONTRADICTS"}
  /\ changes \subseteq [source : Sources, version : Nat, review : {"automatic", "needs_review"}]
  /\ artifacts \in [Reports -> [revisions : SUBSET ArtifactRow, current : Nat, status : {"current", "stale"}]]
  /\ skills \subseteq SkillRow

(* However ingestions of a source overlap or die, its revisions are        *)
(* numbered without gap or repetition, each text has one, and only the     *)
(* newest is current: the race for a version is settled by the UNIQUE      *)
(* constraints, which undo the loser's superseding UPDATE with its INSERT. *)
OneCurrentRevision ==
  \A s \in Sources :
    /\ \A q, r \in revisions[s] : q.version = r.version \/ q.text = r.text => q = r
    /\ \A r \in revisions[s] : r.status = "current" <=> r.version = Newest(revisions[s])

(* At most one version of a compiled skill is offered to agents. *)
OneCurrentSkill == \A j, k \in skills : j.status = "current" /\ k.status = "current" => j = k

(* An ingestion that recorded a new revision and was alone from beginning  *)
(* to end, whatever earlier ones left half done. *)
Undisturbed(i) == At(i, "done") /\ work[i].alone /\ work[i].created /\ work[i].text # None

(* The last word of a text on a subject. *)
IsLastWord(t, k) == \A m \in DOMAIN Says[t] : m > k => Subject[Says[t][m]] # Subject[Says[t][k]]

(* After a changed source was ingested alone, its memory follows its text: *)
(* what it no longer speaks about is retired, and of every subject it does *)
(* speak about its last word is current.  The first half holds up to the   *)
(* key: the older rows of a subject that was only respelled, in other      *)
(* punctuation or another alphabet, are found by neither matching and stay. *)
MemoryFollowsText ==
  \A i \in Threads : Undisturbed(i) =>
    LET t == work[i].text  current == CurrentOf(work[i].source)
    IN /\ \A u \in current : KeyOf(memory[u].says) \in KeysOf(t)
       /\ \A k \in DOMAIN Says[t] : IsLastWord(t, k) => \E u \in current : memory[u].says = Says[t][k]

(* After it, no other artifact and no skill counts as current that rests on *)
(* a memory the ingestion retired, directly or by replacing it.  What the  *)
(* applier withdrew is excepted: finalize_change_set compares with what is *)
(* current after the withdrawal, and nobody marks what rested on it.       *)
DependentsMarked ==
  \A i \in Threads : Undisturbed(i) =>
    LET retired == work[i].stood \ (Latest \union work[i].withdrawn)
    IN /\ \A a \in Reports \ {work[i].source} :
            artifacts[a].status = "current" => CurrentMemories(a) \intersect retired = {}
       /\ \A k \in skills : k.status = "current" => k.memories \intersect retired = {}

=============================================================================
