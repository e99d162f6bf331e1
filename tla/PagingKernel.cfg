CONSTANTS
  Fan = 2
  WordPages = 64
  FramePages = 32
  MaxTables = 6
  Virtuals <- MCVirtuals
  Physicals = {4, 5}
  Lengths = {0, 1, 3, 6}
  Flags = {{"writable"}, {"writable", "no_execute"}}
  MaxCalls = 2
  PageUnits = 2
  IdentityPages = 4
  Kernels <- MCKernels
SPECIFICATION KernelSpec
CHECK_DEADLOCK FALSE
INVARIANTS
  NoExecuteAsAsked
