SPECIFICATION Spec
CONSTANTS
  Threads = {t1, t2}
  NoThread = NoThread
  MaxSession = 3
  MaxGen = 2
  Ops = {"Client", "Keyrings", "Calendar", "Rotate", "Restart", "Revoke"}
  StoreFaults = {"read", "fail", "down"}
  NetFaults = {"transient", "lost"}
  LoginOutcomes = {"ok", "fail"}
  LoginScopes = {"full", "twofactor"}
  InitScopes = {"full", "twofactor"}
  LoginInputs = {"secret"}
SYMMETRY Symmetry
INVARIANTS
  TypeOK
  KeyringsUnlockedOnce
  CurrentFollowsClient
  UnattendedLoginsBounded
PROPERTIES
  LatchHeld
  KeyringsNeverWiped
