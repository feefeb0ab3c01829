SPECIFICATION Spec
CONSTANTS
  Jobs <- MCJobs
  Places <- MCPlaces
  MaxRuns = 3
  Absent = Absent
INVARIANTS
  TypeOK
  CertificatesTrue
  StagedExactly
PROPERTIES
  WritesConfined
  ImplementsDelivery
CHECK_DEADLOCK FALSE
