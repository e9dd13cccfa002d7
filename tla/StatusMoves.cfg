SPECIFICATION Spec
CONSTANTS
  Statuses = {s1, s2}
  StatusOrs = {o1, o2}
  Errors = {e1, e2, e3}
  nullptr = nullptr
INVARIANTS
  ErrorIsThere
PROPERTIES
  NoErrorGoesUnnoticed
