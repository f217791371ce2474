SPECIFICATION Spec
CONSTANTS
  Users = {ann, bob}
  SessionIds = {s1, s2}
  Workers = {w1, w2}
  MemberLists <- OneMemberList
  MaxRows = 2
  MaxFaults = 0
  MaxCrashes = 0
  NoRequest = NoRequest
  NoSession = NoSession
INVARIANT ServiceSurvivesFriendRemove
