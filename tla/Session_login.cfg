SPECIFICATION FairSpec
CONSTANTS
  Threads = {t1, t2}
  NoThread = NoThread
  MaxSession = 3
  MaxGen = 2
  Ops = {"Client", "Raw", "Login", "Logout"}
  StoreFaults = {"read", "fail"}
  NetFaults = {"transient", "lost"}
  LoginOutcomes = {"ok", "fail"}
  LoginScopes = {"full"}
  InitScopes = {"full"}
  LoginInputs = {"secret", "code"}
INVARIANTS
  CredsPairSession
  PoisonedNeverColdStarts
PROPERTIES
  CallsReturn
