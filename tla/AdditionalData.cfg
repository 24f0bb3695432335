CONSTANTS
  AppName = {netflix}
  OtherName = {alias}
  Table <- MCTables
  EmptyTable <- NoPairs
  Encode <- TableToString
  Decode <- TableFromString
  Plain <- PlainTable
  MaxKvLen = 2
  NoFile = NoFile
  NoInstance = NoInstance
  NoAnswer = NoAnswer
SPECIFICATION Spec
INVARIANTS TypeOK GetShowsPosted DataIsOfOnePost CutSpoilsOnePair
