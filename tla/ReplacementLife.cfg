SPECIFICATION CaseSpec
CONSTANTS
  Attempts = {a1, a2, a3, b1, b2, b3}
  Creds = {1, 2}
  Keys = {k1, k2, k3}
  Owners = {o1}
  Anonymous = {b3}
  Key <- KeyOf
  Preds <- PredsOf
  Params <- ParamsOf
  Owner <- OwnerOf
  HoldingCap = 1
  MaxCrashes = 2
  MaxFaults = 2
  MaxAdmin = 1
  MayLapse = TRUE
  None = None  Sweep = Sweep  Admin = Admin
  a1 = a1  a2 = a2  a3 = a3  b1 = b1  b2 = b2  b3 = b3
  k1 = k1  k2 = k2  k3 = k3  o1 = o1
INVARIANTS TypeOK NoDoubleSpend DecidedIsRecoverable RetryNeverRefused CapRespected
PROPERTIES JournalNotOverwritten ImplementsAtomic NothingStaysHeld
\* every request ends, and then the server is idle
CHECK_DEADLOCK FALSE
