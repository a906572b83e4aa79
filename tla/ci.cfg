SPECIFICATION CiSpec
CONSTANTS
  None = None
  DefaultSpec <- MCDefaultSpec
  RootTrees <- MCRootTrees
  Outside <- MCOutside
  Candidates <- MCCandidates
  Fresh <- MCFresh
  FirstFiles <- MCFirstFiles
  Scripts <- MCScripts
  SpecSets <- MCSpecSets
  MaxEdits = 2
  MaxRunEdits = 1
  MaxTool = 1
INVARIANTS
  GreenIsCurrent
  PublishedWasTested
  AcceptedIsSound
PROPERTIES
  EditWakesItsSpec
CHECK_DEADLOCK FALSE
