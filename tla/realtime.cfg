SPECIFICATION FairSpec
CONSTANTS
  Sockets = {s1, s2}
  MaxReconnectAttempts = 1
  Hooks = {h1}
  Engines = {feed}
  Prices = {100, 140}
  None = None
INVARIANTS
  EngineTracksSocket
  OpenSocketsHear
PROPERTIES
  StreamComesBack
