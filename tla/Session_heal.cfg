SPECIFICATION LiveSpec
CONSTANTS
  Threads = {t1, t2}
  NoThread = NoThread
  MaxSession = 3
  MaxGen = 2
  Ops = {"Client", "Keyrings", "Rotate", "Revoke"}
  StoreFaults = {}
  NetFaults = {"lost"}
  LoginOutcomes = {"ok"}
  LoginScopes = {"full", "twofactor"}
  InitScopes = {"full", "twofactor"}
  LoginInputs = {"secret"}
PROPERTIES
  ColdSelfHeals
  CallsReturn
