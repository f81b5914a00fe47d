CONSTANTS
  Files <- MCFiles
  Listers = {1, 2}
  Answers <- MCAnswers
  MaxEdits = 2
SPECIFICATION Spec
INVARIANTS OrderIrrelevant DiscoveredLast NoProviderTwice DefaultServed
PROPERTIES NeverUnserved Converges MonitorCovers
