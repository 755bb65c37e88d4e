CONSTANTS
  Values      = {1, 2, 3, 4, 5, 6}
  Programs    <- MCPrograms
  Depths      = {0, 1, 2}
  StateLimits = {0, 3}
  Length      = 4
  Width       = 2
SPECIFICATION Spec
INVARIANTS TypeOK FixpointExact PassesBounded
