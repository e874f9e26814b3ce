SPECIFICATION Spec
CONSTANTS
  s1 = s1
  s2 = s2
  Shells = {s1, s2}
  NoKey <- MCNoKey
  HashIndex <- MCHashIndex
  DefaultCapacity = 2
  Lines <- MCLines
  CleanLine <- MCCleanLine
  RemoveLine <- MCRemoveLine
  AddLine <- MCAddLine
  FirstFile <- MCFirstFile
  MaxHistory = 5
  MaxInput = 4
  Rank <- MCRank
  MaxMatches = 4
  MaxCommands = 2
  MaxKills = 1
PROPERTY RemoveTakesOneEntry
CHECK_DEADLOCK FALSE
