SPECIFICATION Spec
CONSTANTS
  Servers = {srv}
  Commands = {cmd}
  None = None
  Accounts = {1, 2}
  WithSecret = {1}
  MaxSession = 2
  MaxGen = 2
  Faults = {"fail", "down"}
INVARIANTS
  TypeOK
  LoginStoresBoth
  LogoutLeavesNothing
  StatusKeepsTokens
  
PROPERTIES
  OnlyClearMakesUnreadable
