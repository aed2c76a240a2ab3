SPECIFICATION Spec
CONSTANTS
  None = None
  d1 = d1  d2 = d2
  k1 = k1  k2 = k2
  h1 = h1  h2 = h2
  t1 = t1  t2 = t2
  Devices = {d1, d2}
  Keys = {k1, k2}
  Tokens <- AllTokens
  HexTokens <- HexTokenSet
INVARIANTS TypeOK CredentialsKept
SYMMETRY TokenSymmetry
