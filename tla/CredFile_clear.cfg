SPECIFICATION Spec
CONSTANTS
  Procs = {p1, p2}
  Creds = {c1}
  Sessions = {s1}
  None = None
  NoProc = NoProc
  Absent = Absent
  Torn = Torn
PROPERTIES
  ImplementsAtomicStore
