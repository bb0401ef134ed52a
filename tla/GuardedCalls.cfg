SPECIFICATION Spec
\* Two contracts with a plain, a @non_reentrant and a guarded initializer
\* function, and foreign code, four calls deep.
CONSTANTS
  Contract = {c1, c2}
  Foreign = Foreign
  Function = {plain, guarded, initialize}
  NonReentrant = {guarded}
  Initializer = {initialize}
  MaxDepth = 4
INVARIANTS GuardTypeOK NoGuardedReentry LockHeldIffRunning InitializedAtMostOnce
