SPECIFICATION FairAdminSpec
CONSTANTS
  Procs = {p1, p2}
  Main = p1
  Keys = {1, 2, 3, 4, 5, 6}
  Browsers = {b1}
  Default = password
  Passwords = {password, changed}
  None = None
  MaxFaults = 2
  MaxExtra = 1
INVARIANTS AdminTypeOK ReadyWhenServing HostKeyKept SessionsKept
PROPERTIES PasswordKept ServesAgain
