\* A re-authentication whose exchange of the socket is rolled back.
SPECIFICATION SocksSpec
CONSTANTS
  Sizes = {2, 3, 4, 5, 6}
  MssMin = 3
  ShortLens = {1, 2}
INVARIANTS RollbackHarmless
