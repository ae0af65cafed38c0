SPECIFICATION FairSpec
CONSTANTS
  Fbs = {0, 1}
  None = None
INVARIANTS
  TypeOK
  OneFlipOnItsWay
  NeverBusy
  TimerFollowsVblank
PROPERTIES
  Alternates
  TerminatesUp
  ReadReturns
  ImplementsFlipChain
