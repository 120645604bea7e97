CONSTANTS
  None = None
  NoModel = NoModel
  b0 = b0
  b1 = b1
  b2 = b2
  m = m
  Strings = {s1}
  Backends = {b0, b1, b2}
  ModelOf <- Models
  Keys <- CacheKeys
  Payloads = {b0, b1, b2}
  Readers = {b0, b1, b2}
SPECIFICATION BackendSpec
INVARIANT PutsAreFound
