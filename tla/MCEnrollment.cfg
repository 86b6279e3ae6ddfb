CONSTANTS
  r1 = r1
  r2 = r2
  r3 = r3
  Runs = {r1, r2, r3}
  Prior = Prior
  NoKey = NoKey
  Absent = Absent
  Torn = Torn
SPECIFICATION Spec
SYMMETRY Symmetry
INVARIANT EnrollmentTypeOK
INVARIANT AgreeAtRest
PROPERTY PanicHasCause
PROPERTY LoginHonoured
PROPERTY KeyFileKept
CHECK_DEADLOCK FALSE
