SPECIFICATION Spec
CONSTANTS
  Threads = {t1}
  NoThread = NoThread
  MaxSession = 2
  MaxGen = 2
  Ops = {"Login"}
  StoreFaults = {"down"}
  NetFaults = {}
  LoginOutcomes = {"ok"}
  LoginScopes = {"full"}
  InitScopes = {"full"}
  LoginInputs = {"secret"}
INVARIANTS
  CredsPairSession
