SPECIFICATION FairSpec
CONSTANTS
  Procs = {p1, p2}
  Creds = {c1}
  Sessions = {s1}
  None = None
  NoProc = NoProc
  Absent = Absent
  Torn = Torn
INVARIANTS
  TypeOK
  NeverTorn
PROPERTIES
  ImplementsStore
  CallsReturn
