SPECIFICATION Spec
CONSTANTS
  a1 = a1
  a2 = a2
  c1 = c1
  c2 = c2
  c3 = c3
  x1 = x1
  x2 = x2
  x3 = x3
  y2 = y2
  NoOffer = NoOffer
  Activity <- SoloActivity
  Candidate <- PairCandidate
  Application <- PairApplication
  ActivityOf <- PairActivityOf
  CandidateOf <- PairCandidateOf
  RankOf <- PairRankOf
  Modes <- PairModes
  Quotas <- SoloQuotas
  MaxAttempts = 1
  MaxInFlight = 1
PROPERTIES
  PauseHonoured
