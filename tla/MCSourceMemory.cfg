SPECIFICATION Spec
CONSTANTS
  runbook = runbook
  report = report
  old = old
  new = new
  deploy = deploy
  deployNow = deployNow
  deployAgain = deployAgain
  owner = owner
  releases = releases
  releasesToo = releasesToo
  people = people
  releasing = releasing
  owning = owning
  Threads = {t1, t2}
  Sources <- MCSources
  Reports = {report}
  Files = {runbook}
  Texts <- MCTexts
  Statements <- MCStatements
  Subjects = {releases, releasesToo, people}
  Keys = {releasing, owning}
  Key <- MCKey
  Units = {u1, u2, u3, u4}
  Says <- MCSays
  Subject <- MCSubject
  Contradicts <- MCContradicts
  Procedural = {deploy, deployNow}
  Operations = {"upload", "apply", "remove", "scan", "compile"}
  MaxStarts = 3
  MaxFailures = 1
SYMMETRY MCSymmetry
CHECK_DEADLOCK FALSE
INVARIANTS
  OneCurrentRevision
  OneCurrentSkill
  MemoryFollowsText
  DependentsMarked
