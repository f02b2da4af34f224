CONSTANTS
  MaxDiscards = 1
  MaxRunners = 2
  ColumnsToWin = 2
  TrackBoxes = 1
  TrackEnd = 3
  WonderCap = 3
SPECIFICATION GamesSpec
INVARIANTS PiecesInOnePlace PositionsAreLegal
PROPERTIES NothingSeenChanges GamesEnd
