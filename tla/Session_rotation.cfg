SPECIFICATION Spec
CONSTANTS
  Threads = {t1, t2, t3}
  NoThread = NoThread
  MaxSession = 3
  MaxGen = 4
  Ops = {"Client", "Raw", "Rotate", "Restart", "Revoke"}
  StoreFaults = {"read", "fail", "down"}
  NetFaults = {"transient", "lost", "noop"}
  LoginOutcomes = {"ok", "fail"}
  LoginScopes = {"full"}
  InitScopes = {"full", ""}
  LoginInputs = {"secret", "code"}
SYMMETRY Symmetry
INVARIANTS
  PersistedIsNewest
  DegradedIsExact
PROPERTIES
  PersistedNeverRegresses
