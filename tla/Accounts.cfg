\* Logins, resets and an administrator of one account, and its devices, in the scenes of MCScenes.
SPECIFICATION AccountsSpec
SYMMETRY MCSymmetry
CONSTANTS
  l1 = l1
  l2 = l2
  l3 = l3
  Logins = {l1, l2, l3}
  Scenes <- MCScenes
  PlansOf <- MCPlansOf
  Resets = {1, 2}
  MaxSessions = 1
  MaxAttempts = 2
  OtpAttempts = 2
  FailRetries = 2
  Codes = {0, 1}
  NoUser = "guest"
  Absent = Absent
  NoId = NoId
  NoGuard = NoGuard
  TrustedIdle = 1
  SeenIdle = 1
  RevokedGrace = 1
  Callers = {1, 2, 3}
  Users = {"u", "v"}
  Ids = {1, 2, 3}
  Granularity = 1
  GuardTtl = 2
  ReadMaxAge = 1
  MaxTries = 2
  BindingsRetries = 1
  ReadLimit = 3
INVARIANTS EndedStayOut CapKeepsNewest GuessesCounted SpentOnce PasswordsInOrder RevokedStaysOut DevicesApart RowsKept
CHECK_DEADLOCK FALSE
