SPECIFICATION CiSpec
CONSTANTS
  None = None
  DefaultSpec <- MCDefaultSpec
  RootTrees <- MCRootTrees
  Outside <- MCOutside
  Candidates <- MCCandidates
  Fresh <- MCFresh
  FirstFiles <- SharedIdFiles
  Scripts <- MCScripts
  SpecSets <- MCSpecSets
  MaxEdits = 0
  MaxRunEdits = 0
  MaxTool = 1
INVARIANT ContainersAllGreen
CHECK_DEADLOCK FALSE
