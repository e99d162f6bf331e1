CONSTANTS
  AddressMax = 4
  MaxRegions = 2
  ClaimKinds <- MCClaimKinds
  MaxAdds = 4
  Sizes = {1, 2}
  Alignments = {1, 2}
SPECIFICATION Spec
INVARIANTS
  TypeOK
  SweepInv
  FindFreeExact
PROPERTIES
  FinalizeCanonical
  FinalizeNeverRelaxes
  ImplementsLedger
