SPECIFICATION FairSpec
CONSTANTS
  t1 = t1
  t2 = t2
  c1 = c1
  c2 = c2
  Tabs = {t1}
  Calls = {c1, c2}
  TabOf <- TwoCalls
  Exchanges = {x1, x2}
  MaxToken = 3
  UserDoes = {"reload", "register"}
  NoTab = NoTab
  NoExchange = NoExchange
INVARIANTS
  WaitersHaveARefresh
PROPERTIES
  EveryCallSettles
