SPECIFICATION Spec
CONSTANTS
  Threads = {a, b}
  Names = {"n"}
  Sessions = {s1, s2, s3}
  MaxTurns = 1
CHECK_DEADLOCK FALSE
SYMMETRY Symmetry
VIEW View
INVARIANT RoutedRight
