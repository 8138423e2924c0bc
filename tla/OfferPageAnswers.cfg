SPECIFICATION FairSpec
CONSTANTS
  Deadline = 1
  MaxOrphans = 1
  Skews <- MCSkews
INVARIANTS
  TypeOK
  EarlyCutoffIsBrief
  ThanksIsReal
PROPERTIES
  EarlyCutoffAtFirstOnly
  OneAnswer
  ResultLearnt
