SPECIFICATION Spec
CONSTANTS
  Users = {u1, u2}
  Nicknames = {ann, bob}
  Phones = {p1}
  Descriptions = {hello}
  Files = {f1, f2}
  Workers = {w1, w2}
  NoValue = NoValue  NoUser = NoUser  NoRow = NoRow
  MaxRequests = 4
  MaxFaults = 1
  MaxKills = 1
SYMMETRY Symmetry
INVARIANTS
  TypeOK
  NamesAndPhonesUnique
  IndexIsCurrent
  SettingSticks
  NothingDangles
CHECK_DEADLOCK FALSE
