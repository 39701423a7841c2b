SPECIFICATION FairSpec
CONSTANTS
  None = None
  t1 = t1
  t2 = t2
  Token = {t1, t2}
  Path = {"flag", "conf"}
  CommandLine <- CommandLines
  ConfigFile <- ConfigFiles
  TokenFiles <- Contents
  Memory = {2, 4}
  Lifetime = {2, 4}
  Interval = {0, 1, 4}
  SlowStep = 1
  MaxInterval = 3
  Limit = 7
INVARIANTS
  TypeOK
  CommandLineDecides
  LastRequestInTime
PROPERTIES
  TokenFileKept
  PollPaced
  RunEnds
