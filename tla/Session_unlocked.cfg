\* A wallet is unlocked that is unlocked already.
SPECIFICATION SessionSpec
CONSTANTS
  k1 = k1  k2 = k2  bad = bad  p1 = p1  p2 = p2
  c1 = c1  c2 = c2  c3 = c3  s1 = s1  s2 = s2
  None = None  Kept = Kept
  Keys = {k1, k2, bad}
  BadKeys = {bad}
  Passwords = {p1, p2}
  Calls = {c1, c2, c3}
  Requests <- UnlocksAgain
  AtOnce = 1
  MaxFailures = 0
  Sockets = {s1, s2}
  MaxDials = 1
INVARIANTS
  InitializedMeansSigner
CHECK_DEADLOCK FALSE
