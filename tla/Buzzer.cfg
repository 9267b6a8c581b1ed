SPECIFICATION BuzzerFairSpec
CONSTANTS
  Songs <- MCSongs
  Row <- MCRow
  MaxPlays = 2
INVARIANTS InSong Awoken
PROPERTIES SongEnds
\* a failed assertion of the driver halts the system
CHECK_DEADLOCK FALSE
