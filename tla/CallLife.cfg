SPECIFICATION CaseSpec
CONSTANTS
  Tags = {t1}
  Owners = {o1}
  TagOwner <- OneOwner
  CallIds = {c1, c2}
  Devices = {d1, d2}
  MaxTags = 2
  MaxCalls = 2
  MaxSignals = 6
  MaxFaults = 1
  MaxRestarts = 1
  None = None
  t1 = t1  o1 = o1  c1 = c1  c2 = c2  d1 = d1  d2 = d2
INVARIANTS TypeOK ActiveIsConfirmed BothSidesTold RingIsUnique NoStaleInvite RevokedIsSilent
PROPERTY CallsAreForgotten
