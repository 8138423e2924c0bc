SPECIFICATION InterruptedSpec
CONSTANTS
  w1 = w1
  w2 = w2
  m1 = m1
  m2 = m2
  offer1 = offer1
  invite1 = invite1
  Nobody = Nobody
  Gone = Gone
  NoTask = NoTask
  Worker <- RaceWorker
  Task <- RaceTask
  Subject <- RaceSubject
  Offer <- MCOffer
  SubjectOf <- RaceSubjectOf
  IdOf <- MCIdOf
  MaxRetries = 2
  MaxMishaps = 2
SYMMETRY Symmetric
INVARIANTS
  TypeOK
  DuplicatesExcused
  SentIsReal
  CancelledForCause
PROPERTIES
  SettledStays
  PromiseKept
