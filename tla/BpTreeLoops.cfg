\* One process that creates five wireways and then calls once more.
SPECIFICATION FairSpec
CONSTANTS
  K = 5
  Size = 5
  MaxIds = 5
  Lives = 1
PROPERTIES
  OpsReturn
CHECK_DEADLOCK FALSE
