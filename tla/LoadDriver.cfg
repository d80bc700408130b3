SPECIFICATION FairSpec
CONSTANTS
  ClientCount = 2
  Datasize = 3
  Configurations <- MCConfigurations
  MaxReqs = 4
INVARIANTS TypeOK PopulatesItsPart FlushComesFirst
PROPERTIES EndsUnlessOvertaken
CHECK_DEADLOCK FALSE
