SPECIFICATION Spec
CONSTANTS
  Staff = {s1, s2}
  QrIds = {h1}
  Null = Null
INVARIANT TypeOK AdmittedOnce LockExcludes UsedMeansAdmitted
PROPERTY LockIsFreed
