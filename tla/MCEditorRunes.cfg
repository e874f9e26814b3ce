CONSTANTS
  Byte <- MCByte
  Leading <- MCLeading
  Continuation <- MCContinuation
  Follow <- MCFollow
  Separators <- MCSeparators
  Open <- MCOpen
  Close <- MCClose
  Upper <- MCUpper
  Lower <- MCLower
  Runes <- MCRunes
  Suffixes <- MCSuffixes
  Escaped <- MCEscaped
  FirstHistory <- MCFirstHistory
  MaxHistory = 3
  Ring = 2
  FirstBuflen = 2
  MaxKeys = 5
  Careful = FALSE
SPECIFICATION Spec
CHECK_DEADLOCK FALSE
INVARIANT RunesWhole
