SPECIFICATION FairSpec
CONSTANTS
  Claims = {c1, c2, c3}
  RequestId <- ClaimId
  Posted = a
  Offered <- ClaimBalance
  Issuers <- EitherIssuer
  MaxLosses = 1
  MaxStops = 1
  MaxFaults = 1
  MaxSpends = 1
  MayOutlive = TRUE
  None = None
  c1 = c1  c2 = c2  c3 = c3
  i1 = i1  i2 = i2
  a = a  b1 = b1  b2 = b2
INVARIANTS TypeOK SpentOnce SettledMeansBoth PosterIsPaid
PROPERTIES  ClaimsEnd
\* every claim may be answered
CHECK_DEADLOCK FALSE
