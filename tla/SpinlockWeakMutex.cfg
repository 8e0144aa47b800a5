CONSTANTS
  CPU = {c1, c2}
  Weak = TRUE
  MaxRounds = 3
  NoCpu = NoCpu
  None = None
SYMMETRY CpuSymmetry
SPECIFICATION Spec
INVARIANT MutualExclusion
