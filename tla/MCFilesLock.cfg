SPECIFICATION Spec
CONSTANTS
  MaxFd = 5
  Names <- MCNames
  DevNames <- MCDevNames
  FsNames <- MCFsNames
  Functions <- MCFunctions
  Std <- MCStd
  AskedModes <- MCModes
  AskedFlags <- MCFlags
INVARIANT LockMeansAlone
