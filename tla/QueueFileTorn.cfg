SPECIFICATION Spec
CONSTANTS
  a = a
  b = b
  Elements = {a, b}
  SizeOf <- MCSizeOf
  HeaderLength = 2
  ElementHeaderLength = 1
  InitialLength = 8
  MaxLength = 16
  MaxAdd = 1
  MaxPop = 2
  MaxCount = 3
  MaxCrashes = 1
  MaxFailures = 0
  Zero = Zero
  Stale = Stale
INVARIANT NothingTorn

