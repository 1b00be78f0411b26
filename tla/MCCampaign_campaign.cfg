SPECIFICATION Spec
CONSTANTS
  Specs <- ThreeSpecs
INVARIANTS
  EveryGameOnce
PROPERTIES
  Finishes
