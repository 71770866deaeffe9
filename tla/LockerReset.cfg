\* Three servers whose clocks agree: is a lease only ever lost by running out?
CONSTANTS
  Nodes = {n1, n2, n3}
  NoRow = NoRow
  Expiry = 2
  Skew = 0
  MaxVersion = 2
  MaxCuts = 2
SPECIFICATION Spec
SYMMETRY Symmetry
INVARIANTS
  LostOnlyByOverrun
