SPECIFICATION Spec
CONSTANTS
  Starts = {0, 1, 2, 3, 4, 5, 6, 7, 8, 9}
  Lens = {0, 1, 2, 3, 4, 5, 6, 7, 8, 9}
  BlockSizes = {1, 2, 3, 4, 5}
INVARIANT TypeOK
INVARIANT PiecesTile
INVARIANT PiecesFit
INVARIANT PiecesMinimal
PROPERTY Terminates
CHECK_DEADLOCK FALSE
