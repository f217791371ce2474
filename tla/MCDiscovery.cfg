SPECIFICATION FairSpec
CONSTANTS
  user1 = user1  user2 = user2  user3 = user3  asr1 = asr1
  user = user  speech = speech
  host1 = host1  host2 = host2  host3 = host3  host4 = host4
  Instances = {user1, user2, user3, asr1}
  Services = {user, speech}
  Followed = {user}
  Hosts = {host1, host2, host3, host4}
  NoHost = NoHost  NoChannel = NoChannel  NoEvent = NoEvent
  ServiceOf <- MCServiceOf
  HostsOf <- MCHostsOf
  IndexHalf = 2
  SizeRange = 16
  MaxStarts = 3
  MaxTroubles = 1
INVARIANTS
  TypeOK
  KnownHostsHaveChannels
  StrayChannelsAreBounded
  ViewIsExact
PROPERTIES
  DeadNodesLeave
  LiveNodesServe
