SPECIFICATION LiveSpec
CONSTANTS
  Threads = {t1, t2}
  NoThread = NoThread
  MaxSession = 2
  MaxGen = 2
  Ops = {"Client", "Revoke"}
  StoreFaults = {}
  NetFaults = {}
  LoginOutcomes = {"ok"}
  LoginScopes = {"full"}
  InitScopes = {"full"}
  LoginInputs = {"secret"}
PROPERTIES
  RevokedSelfHeals
