SPECIFICATION Spec
CONSTANTS
  net = net
  netflix = netflix
  pia = pia
  piano = piano
  pinya = pinya
  foreign = foreign
  f1 = f1
  f2 = f2
  Flushes = {f1, f2}
  Names = {net, netflix}
  Contains <- MCContains
  Texts = {pia, piano, pinya, foreign}
  Stored <- MCStored
  Asked <- MCAsked
  NoForm = NoForm
  PartOf <- MCPartOf
  GoalIds = {1, 2}
  NoName = NoName
  Kinds = {"payday", "goal", "other"}
  MaxFlushes = 3
INVARIANTS RememberedOnce AbortExplained
PROPERTIES NamedItemChanged MemoryKept
SYMMETRY MCSymmetry
CHECK_DEADLOCK FALSE
