SPECIFICATION FairSpec
CONSTANTS
  Clients = {c1, c2}
  Tests = {"mytest", "mytest2", "mytest3"}
  None = None
INVARIANTS
  TypeOK
  AloneReadsOwn
  LocalCallsSucceed
PROPERTY DequeueReturns
