SPECIFICATION FairSpec
CONSTANTS
  r1 = r1
  r2 = r2
  m1 = m1
  m2 = m2
  None = None
  Texts <- MCTexts
  Flags <- MCFlags
  Globals <- MCGlobals
  Projects <- MCProjects
  Inherited <- MCInherited
  Offered <- MCOffered
  Methods = {m1, m2}
  Installed = {"agent", "other", "mine"}
  Requests = {r1, r2}
  Asks <- MCAsks
  Lines = {0, 1, 2, 3}
  MaxAhead = 1
INVARIANTS AllowIsJustified AnswerReachesItsMenu DenialIsReported ReadyIsAuthorised
PROPERTIES StartEnds
CHECK_DEADLOCK FALSE
