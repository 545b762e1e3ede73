SPECIFICATION SharedSpec
CONSTANTS
  Users = {u1, u2}
  Channels = {c1, c2}
  Unfilled = Unfilled
INVARIANTS CacheCoherent
PROPERTY ImplementsDirectory
