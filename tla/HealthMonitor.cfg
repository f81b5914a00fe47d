CONSTANTS
  Nodes = {n1}
  Probed = {n1}
  MaxWorkers = 2
SPECIFICATION FairSpec
PROPERTIES VerdictsEarned Settles
