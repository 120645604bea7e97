CONSTANTS
  None = None
  Foreign = Foreign
  x = x
  r1 = r1
  r2 = r2
  Requests = {r1, r2}
  Prompt <- Prompts
  BlockSize = 2
  ModelId = m
  Layers = 2
  MaxSteps = 3
  Keys <- CacheKeys
  Payloads = {}
  Readers = {}
SPECIFICATION VllmSpec
INVARIANTS LoadsWereFound LoadedOnce SavesBelongToTheirStep
PROPERTY CallsEnd
