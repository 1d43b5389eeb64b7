CONSTANTS
  MaxBytes = 2
  Limit = 4
  Interval = 4
  Retry = 1
SPECIFICATION FairSpec
INVARIANTS AnswerWhole RefusedForCause RefusalsBounded
PROPERTIES DeliveryResumes
