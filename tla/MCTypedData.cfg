SPECIFICATION Spec
CONSTANTS
  alice = alice
  bob = bob
  Users = {alice, bob}
  Nobody = nobody
  Places <- TokenPlaces
  NameOf <- TokenNames
  Types = {"voting", "proposition"}
  Values = {1, 2}
  Deadlines = {0, 1}
  MaxSignatures = 2
  MaxNonce = 1
  MAX_TIME = 1
SYMMETRY UserSymmetry
CHECK_DEADLOCK FALSE
INVARIANTS TakesEffectOnce RecognisesItsSigner
PROPERTY OnlyWhatWasSigned
