INIT ToolsInit
NEXT ToolsNext
CONSTANTS
  Jobs <- MCJobs
  Libs <- MCLibs
  Models <- MCModels
  Builds <- MCBuilds
  Scripts <- MCScripts
  Base = 2
  Declarations <- MCDeclarations
  Files <- MCFiles
  Asks <- MCAsks
  Olds <- MCOlds
  Networks <- MCNetworks
INVARIANTS BlameIsPlaced StatusIsKernels RowIsItsOps CasesTell ProgramsAreTheirFacts
CHECK_DEADLOCK FALSE
