SPECIFICATION Spec
CONSTANTS
  Threads = {t1, t2}
  NoThread = NoThread
  MaxSession = 2
  MaxGen = 3
  Ops = {"Client", "Keyrings", "Rotate"}
  StoreFaults = {}
  NetFaults = {}
  LoginOutcomes = {"ok"}
  LoginScopes = {"full"}
  InitScopes = {"twofactor"}
  LoginInputs = {"secret"}
INVARIANTS
  StatusTruthful
