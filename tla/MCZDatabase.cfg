SPECIFICATION Spec
CONSTANTS
  s1 = s1
  s2 = s2
  home = home
  dirA = dirA
  dirB = dirB
  tmp = tmp
  homeTmp = homeTmp
  none = none
  Shells = {s1, s2}
  Paths <- MCPaths
  Directories <- MCDirectories
  Targets <- MCTargets
  NoPath = none
  Home = home
  Resolve <- MCResolve
  Joined <- MCJoined
  Fzf <- MCFzf
  FirstFile <- MCFirstFile
  Limit = 4
  Chunk = 2
  MaxVisits = 2
  MaxClock = 1
  MaxFaults = 1
INVARIANTS TypeOK EntriesHavePaths
PROPERTIES ListedOnce RoundTrip JumpGoesToBest
SYMMETRY ShellSymmetry
CHECK_DEADLOCK FALSE
