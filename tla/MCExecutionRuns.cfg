SPECIFICATION FairSpec
CONSTANTS
  s1 = s1
  s2 = s2
  s3 = s3
  s4 = s4
  e1 = e1
  e2 = e2
  deploy = deploy
  rotate = rotate
  Runs = {r1, r2}
  r1 = r1
  r2 = r2
  c1 = c1
  Contexts = {c1}
  Named <- MCNamed
  Reportable = {"failed"}
  Tasks = {deploy, rotate}
  Skills = {s1, s2, s3, s4}
  Earlier = {e1, e2}
  Learned <- MCLearned
  Teachers <- MCTeachers
  Trusted = 2
  MaxEvents = 1
CHECK_DEADLOCK FALSE
INVARIANTS
  TrustEarned
  LibraryStaysSelective
  StatusIsHonest
  LabelsAgree
PROPERTIES
  RetirementHolds
  EveryRunSettles
