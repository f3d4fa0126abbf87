SPECIFICATION FairSpec
CONSTANTS
  Slots = {s1, s2}
  Values = {v1, v2}
  Absent = Absent
  MaxEvents = 4
PROPERTIES ForeignTaintsStay ForgottenTaintsAreGone TaintsConverge
CHECK_DEADLOCK FALSE
