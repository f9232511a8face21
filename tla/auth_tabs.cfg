SPECIFICATION Spec
CONSTANTS
  t1 = t1
  t2 = t2
  c1 = c1
  c2 = c2
  Tabs = {t1, t2}
  Calls = {c1}
  TabOf <- OneCall
  Exchanges = {x1, x2}
  MaxToken = 3
  UserDoes = {"reload", "logout"}
  NoTab = NoTab
  NoExchange = NoExchange
SYMMETRY Slots
INVARIANTS
  TypeOK
  RefusedForAReason
  CookieNamesASession
