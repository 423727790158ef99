SPECIFICATION IrqSpec
CONSTANTS
  NIRQ = 3
  Tag = {A}
  NULL = NULL
  NestedMasking = TRUE
INVARIANTS OnlyMoreUrgent
