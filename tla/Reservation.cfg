SPECIFICATION FairSpec
CONSTANTS
  b1 = b1  buyer1 = buyer1  exporter1 = exporter1
  s1 = s1  s2 = s2  i1 = i1  i2 = i2
  Batches = {b1}
  Orgs = {buyer1, exporter1}
  BuyerOrgs = {buyer1}
  DDP = DDP
  Callers = {DDP, buyer1}
  VerificationStates = {"verified", "suspended"}
  Sessions = {s1, s2}
  Ids = {i1, i2}
  MaxKg = 2
  HoldPeriod = 1
  Requests = {1}
  BatchKgs = {1, 2}
  MaxTime = 2
  NoRow = NoRow
  NoSession = NoSession
PROPERTIES HeldOnlyWhilePublished OversoldOnlyByEdit ImplementsQuantityLedger EveryInsertEnds
