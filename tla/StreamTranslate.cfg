\* A text and two tool calls, four lines of up to three pieces, both dialects.
SPECIFICATION Spec
CONSTANTS
  Text = text
  Tools = {t1, t2}
  t1 = t1
  t2 = t2
  MaxLines = 4
  MaxOps = 3
  None = None
INVARIANTS
  TypeOK
  PiecesInOrder
  NothingLost
  OneBlockPerCall
PROPERTY ClientReadsAStream
