SPECIFICATION FairSpec
CONSTANTS
  Name <- MCName
  Dentries <- MCDentries
  Length <- MCLength
  BlockIdx <- MCBlockIdx
  NBlocks = 3
  Block = 2
  Data <- MCData
  Byte = {1, 2, 3, 4, 5, 6}
  Text <- MCText
  Task = {"t1", "t2"}
  NFile = 4
  NClk = 2
  BaseFreq = 1024
  Freqs = {128, 512, 1024}
  Opens <- MCOpens
  NameLimit = 2
  Asks = {1, 2}
INVARIANTS
  DevicesOwned
  CountExact
  ReadsMatchFile
PROPERTIES
  RtcReadEnds
