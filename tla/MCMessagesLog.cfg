SPECIFICATION FairReadingSpec
CONSTANTS
  Senders = {ann, bob}
  Members = {ann, bob, cay}
  Messages = {t1, f1, t2}
  Texts = {t1, t2}
  NoMessage = NoMessage
  MaxFaults = 0
  MaxDrops = 0
  MaxKills = 2
  PageSizes = {1}
PROPERTY ImplementsChatLog
CHECK_DEADLOCK FALSE
