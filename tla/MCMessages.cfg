SPECIFICATION ReadingSpec
CONSTANTS
  Senders = {ann, bob}
  Members = {ann, bob, cay}
  Messages = {t1, f1, t2}
  Texts = {t1, t2}
  NoMessage = NoMessage
  MaxFaults = 1
  MaxDrops = 1
  MaxKills = 2
  PageSizes = {1}
SYMMETRY Symmetry
INVARIANTS
  HistoryHasContent
  ToldIsKept
  HistoryInOrder
  ReadingTypeOK
  HistoryHasNoGaps
  SearchShowsWhatIsSent
CHECK_DEADLOCK FALSE
