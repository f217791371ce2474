SPECIFICATION Spec
CONSTANTS
  Users = {ann, bob}
  SessionIds = {s1, s2, s3}
  Workers = {w1, w2}
  MemberLists <- OneMemberList
  MaxRows = 1
  MaxFaults = 1
  MaxCrashes = 1
  NoRequest = NoRequest
  NoSession = NoSession
SYMMETRY Symmetry
INVARIANTS
  TypeOK
  RelationSymmetric
  NoDanglingMembers
  SingleSessionsArePairs
  MemberlessOnlyByFailure
  ApplicationsBounded
PROPERTY GroupsKeepMembers
