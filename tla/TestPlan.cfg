SPECIFICATION Spec
CONSTANTS
  Campaigns <- MCCampaigns
  Variants <- MCVariants
  NumColours = 8
  MaxFailures = 1
CHECK_DEADLOCK FALSE
INVARIANTS
  TypeOK
  ResultsAsNamed
  EachOnce
  AllColoured
