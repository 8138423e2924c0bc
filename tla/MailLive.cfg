SPECIFICATION LiveSpec
CONSTANTS
  w1 = w1
  w2 = w2
  m1 = m1
  m2 = m2
  offer1 = offer1
  invite1 = invite1
  Nobody = Nobody
  Gone = Gone
  NoTask = NoTask
  Worker <- SoloWorker
  Task <- SoloTask
  Subject <- SoloSubject
  Offer <- MCOffer
  SubjectOf <- SoloSubjectOf
  IdOf <- MCIdOf
  MaxRetries = 2
  MaxMishaps = 1
PROPERTIES
  MailSettles
