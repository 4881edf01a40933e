SPECIFICATION Spec
CONSTANTS
  MaxFd = 5
  Names <- MCNames
  DevNames <- MCDevNames
  FsNames <- MCFsNames
  Functions <- MCFunctions
  Std <- MCStd
  AskedModes <- MCModes
  AskedFlags <- MCFlags
INVARIANTS OwnersOnly OneHolder KeepsAccess
PROPERTIES LockKeepsOthersOut
