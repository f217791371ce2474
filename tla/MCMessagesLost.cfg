SPECIFICATION ReadingSpec
CONSTANTS
  Senders = {ann, bob}
  Members = {ann, bob, cay}
  Messages = {t1, f1, t2}
  Texts = {t1, t2}
  NoMessage = NoMessage
  MaxFaults = 1
  MaxDrops = 0
  MaxKills = 0
  PageSizes = {1}
INVARIANT AnsweredIsPersisted
CHECK_DEADLOCK FALSE
