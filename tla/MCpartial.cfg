SPECIFICATION Spec
CONSTANTS
  s1 = s1
  s2 = s2
  a1 = a1
  a2 = a2
  b1 = b1
  bad = bad
  pathless = pathless
  nameless = nameless
  p1 = p1
  p2 = p2
  host = host
  other = other
  NoVersion = NoVersion
  NoService = NoService
  NoContext = NoContext
  Subject = {p1, p2}
  Context = {host, other}
  Host = host
  Service = {s1, s2}
  File = {"f1"}
  Version = {a1}
  Content <- MCContent
  Kills = TRUE
  SqlFails = FALSE
  MaxRvector = 1
PROPERTY UnitIngested
