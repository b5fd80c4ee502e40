\* One report, one session with it; or a session that needs none.
SPECIFICATION FairSpec
CONSTANTS
  TextLimit = 5
  MaxFiles = 1
  MaxLines = 3
  PipeCap = 1
  Browser = {b1, b2, b3}
  Puller = {p1, p2}
  MaxBlocks = 3
  Writer = {w1, w2}
  MaxRecords = 4
  LastDay = 2
  MaxKeys = 2
  Faults = {"torn", "interrupt"}
  Thread = {t1, t2}
  MaxCalls = 3
  Style = {"bare", "bracket"}
INVARIANTS
  TypeOK ShownAsDocumented AnswersExact ServedOnce DestVerified NothingLeftBehind
  VerifyExact VerifiedMeansComplete EffectsAreCalls VerdictsHold
PROPERTIES AckedStays DamageIsPermanent RequestsAnswered RightTokenServed
CHECK_DEADLOCK FALSE
