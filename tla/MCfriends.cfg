SPECIFICATION FairSpec
CONSTANTS
  p1 = p1
  s1 = s1
  host = host
  other = other
  mine = mine
  Subject = {p1, s1}
  Context = {host, other}
  Host = host
  Service = {mine}
  Table <- MCTable
  News <- MCNews
  Faults = {"query", "proxy"}
  Kills = TRUE
  MaxNews = 3
INVARIANTS TypeOK EachCrashCallsOnce NoOtherCalls
PROPERTIES DelaysKept FriendActs
