SPECIFICATION FairSpec
CONSTANTS
  ann = ann
  Users = {ann}
  Devices = {d1, d2}
  Ssids = {s1, s2}
  Conns = {c1, c2}
  CodeIds = {code1}
  UserOf <- OneUser
  NoUser = NoUser  NoSsid = NoSsid  NoConn = NoConn  NoCode = NoCode
  MaxTroubles = 2
INVARIANTS
  TypeOK
  MapsAgree
  ConnectedIsLoggedIn
  OneSessionPerUser
  MarkTellsLogin
  MarkHasOwner
PROPERTY NobodyStaysLockedOut
