SPECIFICATION Spec
CONSTANTS
  Users = {ann, bob}
  Threads = {t1, t2}
  Conns = {c1, c2, c3}
  NoUser = NoUser
  NoConn = NoConn
  NoRequest = NoRequest
  Lists <- Everybody
  MaxRequests = 2
  MaxTroubles = 1
SYMMETRY Symmetry
INVARIANTS
  TypeOK
  ToldIsTrue
  OnlineIsTold
