SPECIFICATION Spec
CONSTANTS
  a1 = a1
  a2 = a2
  c1 = c1
  c2 = c2
  c3 = c3
  x1 = x1
  x2 = x2
  x3 = x3
  y2 = y2
  NoOffer = NoOffer
  Activity <- SharedActivity
  Candidate <- SharedCandidate
  Application <- SharedApplication
  ActivityOf <- SharedActivityOf
  CandidateOf <- SharedCandidateOf
  RankOf <- SharedRankOf
  Modes <- SharedModes
  Quotas <- SharedQuotas
  MaxAttempts = 1
  MaxInFlight = 1
INVARIANTS
  TypeOK
  AcceptedOnce
  NoPendingAfterAccept
  ElsewhereIsReal
PROPERTIES
  InactiveUntouched
  OneSeat
