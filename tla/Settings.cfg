SPECIFICATION Spec
CONSTANTS
  None = None
  Gone = Gone
  BadId = BadId
  u1 = u1
  u2 = u2
  u3 = u3
  s1 = s1
  s2 = s2
  l1 = l1
  p0 = p0
  p1 = p1
  p2 = p2
  p3 = p3
  q1 = q1
  q2 = q2
  q3 = q3
  r1 = r1
  r2 = r2
  Users = {u1, u2, u3}
  Sessions = {s1, s2}
  Links = {l1}
  Households = {1, 2}
  Emails = {"ann", "bob", "cid"}
  Requests = {r1, r2}
  ScopedOps <- Scopes
  Accts <- TwoUsers
  LLMs = {p0, p1, p2, p3}
  OCRs = {q1, q2, q3}
  Values = {"on"}
  Bodies <- SomeBodies
  Stocked <- TwoProviders
SYMMETRY Sym
INVARIANTS
  TypeOK
  Admission
  OwnerLeftovers
PROPERTIES
  OneDefault
  NothingIsLost
\* Every request was answered: nothing is left to happen.
CHECK_DEADLOCK FALSE
