\* Three requests one after the other, a failure or restart, one overlapping connection.
SPECIFICATION FairSession
CONSTANTS
  k1 = k1  k2 = k2  bad = bad  p1 = p1  p2 = p2
  c1 = c1  c2 = c2  c3 = c3  s1 = s1  s2 = s2
  None = None  Kept = Kept
  Keys = {k1, k2, bad}
  BadKeys = {bad}
  Passwords = {p1, p2}
  Calls = {c1, c2, c3}
  Requests <- OperatorRequests
  AtOnce = 1
  MaxFailures = 1
  Sockets = {s1, s2}
  MaxDials = 1
INVARIANTS
  WalletTypeOK
  SignsWithStoredKey
  EncryptedOnce
  ConnTypeOK
  NeverStranded
  ConnectedIsRegistered
  OverlapIsPublishing
PROPERTIES
  Reconnects
CHECK_DEADLOCK FALSE
