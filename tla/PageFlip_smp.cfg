SPECIFICATION FairSpec
CONSTANTS
  Fbs = {0, 1}
  None = None
PROPERTY Terminates
