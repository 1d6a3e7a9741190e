CONSTANTS
  Patches <- PATCHES
  Sentinel <- MCSentinel
  Files <- PatchedFiles
  FilesOf <- TargetsOf
  Texts <- PatchTexts
  Blockers <- KeptAwayBy
  Outside <- NotCheckedOut
  Lenient <- PassesOverMissing
  Strict <- ExitsWithError
  Always <- WritesAlways
  Trees <- MCTrees
  MaxRuns = 3
SPECIFICATION PatchSpec
INVARIANTS SuccessMeansPatched AppliedOnce
