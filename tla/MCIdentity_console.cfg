SPECIFICATION IdentitySpec
CONSTANTS
  Nothing = Nothing
  f1 = f1
  f2 = f2
  f3 = f3
  s1 = s1
  s2 = s2
  h1 = h1
  h2 = h2
  Kinds = {"SELFIE", "TRADE_LICENSE"}
  Required = {"SELFIE"}
  Licence = "TRADE_LICENSE"
  Files = {f1, f2, f3}
  SubmissionIds = {s1, s2}
  Handlers = {h1, h2}
SYMMETRY MCSymmetry
INVARIANTS NotStuck
