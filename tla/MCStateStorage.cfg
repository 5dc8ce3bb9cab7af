SPECIFICATION LiveSpec
CONSTANTS
  Processes = {p1, p2}
  Nobody = Nobody
  Marks = {m1, m2}
  NoMark = NoMark
  MaxEntries = 1
INVARIANTS
  AckedIsKept
  TrailIsTrue
PROPERTIES
  StateIsAtomic
  EveryoneFinishes
