SPECIFICATION FairSpec
CONSTANTS
  HeaderRest = 4
  Rests = {5, 9}
  Claims = {4, 5, 9, 20, 26}
  Room = 24
  Prompt = TRUE
 
PROPERTIES Resync
