SPECIFICATION Spec
CONSTANTS
  Machines = {m1, m2}
  Secrets = {s1, s2}
  Keys = {k1, k2}
  DefaultKey = k1
  Cap = 1
  MaxVersion = 2
SYMMETRY Symmetry
INVARIANTS CacheBounded WatchersFollowClients
PROPERTIES BuiltFromWhatWasRead
