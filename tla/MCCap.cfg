CONSTANTS
  t1 = t1
  t2 = t2
  Tables = {t1, t2}
  TABLE_SIZE = 2
  POOL_SIZE = 2
  Rights <- MCRights
  Callers <- MCCallers
  Bufs = {b1}
  Msgs = {m1}
  MAX_GEN = 1
  NULL = NULL
SPECIFICATION CapSpec
INVARIANTS CapTypeOK Isolation EndpointConsistent
PROPERTIES NoResurrection ImplementsAuthority
SYMMETRY MCSymmetry
VIEW MCView
