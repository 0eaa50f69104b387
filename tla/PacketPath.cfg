SPECIFICATION FairPath
CONSTANTS
  InLengths <- MCInLengths
  OutLengths <- MCOutLengths
  MaxIn = 2
  MaxOut = 2
  MaxHandshakes = 2
  MaxOpens = 1
  MaxFaults = 1
  Control = Control
INVARIANTS
  OnTheWire
  NothingLeftBehind
PROPERTIES
  WholePackets
  ArrivalsSettle
