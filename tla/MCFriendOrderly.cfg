SPECIFICATION OrderlySpec
CONSTANTS
  Users = {ann, bob, cay}
  SessionIds = {s1, s2}
  Workers = {w1, w2}
  MemberLists <- OneMemberList
  MaxRows = 1
  MaxFaults = 0
  MaxCrashes = 0
  NoRequest = NoRequest
  NoSession = NoSession
SYMMETRY Symmetry
INVARIANT FriendsHaveChat
PROPERTY ImplementsFriendship
