CONSTANTS
  Handlers = {h1, h2}
  Tokens = {t1}
  NoToken = notoken
  Instances = {m1, m2}
  NoServer = noserver
  Expire = 1
  Timeout = 1
  CacheWait = 0
SPECIFICATION FairSpec
INVARIANT TypeOK
PROPERTIES RefusalCaused ImplementsLease EverybodyProceeds
