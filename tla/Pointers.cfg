SPECIFICATION Spec
CONSTANTS
  NotNulls = {"u", "o"}
  Nullables = {"v", "s", "t", "n"}
  Kind <- MCKind
  Addresses = {a1, a2}
  MaxObjects = 2
  MaxInScope = 3
  nullptr = nullptr
  Absent = Absent
  WeakPtrs = {w1, w2}
  Functions = {f1}
SYMMETRY MCSymmetry
INVARIANTS
  DereferencedAfterCheck
  WeakSeesItsObject
  BodiesHaveTheirObject
