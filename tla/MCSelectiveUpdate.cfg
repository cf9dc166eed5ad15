SPECIFICATION Spec
CONSTANTS
  a = a
  b = b
  x = x
  y = y
  v = v
  e = e
  Slot = {a, b}
  Passage = {x, y}
  Value = {v, e}
  Selected = {e}
  Mentions <- MCMentions
  k1 = k1
  k2 = k2
  ClaimId = {k1, k2}
  Shared = Shared
  NoDraft = NoDraft
  MaxRevision = 3
  MaxConstraints = 1
  MaxEvidence = 2
  MaxAsked = 1
SYMMETRY MCSymmetry
CHECK_DEADLOCK FALSE
INVARIANT ClaimsStand
PROPERTY UpdateIsSelective
