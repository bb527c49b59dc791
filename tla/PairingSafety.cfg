SPECIFICATION PairingSpec
CONSTANTS
  Commands = {k1, k2}
  Senders = {s1, s2, s3}
  Codes = {c1, c2, c3}
  MaxPairings = 2
SYMMETRY Symmetry
INVARIANTS
  PendingBound
  CodesUnique
  AllowedInTime
