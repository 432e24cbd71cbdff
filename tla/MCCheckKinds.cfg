CONSTANTS
  Shapes <- MCShapes
  NoChange = NoChange
  MaxState = 2
  MaxRequests = 3
  MaxChars = 7
  AskWorkers = 2
  MaxAttempts = 2
  MaxHunks = 3
  Lines = {1, 2, 3}
  FileOf <- MCFileOf
  Mutants <- MCMutants
  Entries <- MCEntries
  Elapsed = {0, 1, 2}
  Floor = 10
  Coefficient = 3
  MaxRuns = 2
  MinTimeouts = 2
  DaggerChecks <- MCDaggerChecks
  KindOf <- MCKindOf
  Together <- MCTogether
  Closed = Closed
  Sources <- MCSources
  Configs <- MCConfigs
  Modules <- MCModules
  Shipped <- MCShipped
  CoreRules <- CoreNames
  JudgedIn <- MCJudgedIn
  Printable <- MCPrintable
  NoModule = NoModule
  Unlinted = Unlinted
  Unguarded = Unguarded
  MaxTurns = 2
  MaxTroubles = 1
  ToolChecks <- MCToolChecks
  ToolKindOf <- MCToolKindOf
  CheckoutOf <- MCCheckoutOf
  Beside <- MCBeside
  Nothing = Nothing
  Foreign = Foreign
  MaxMishaps = 2
  Jobs <- MCJobs
  Jointly <- MCJointly
  MaxRounds = 2
  MaxLosses = 1
SPECIFICATION CheckSpec
INVARIANTS
  CheckTypeOK
  BudgetWellSpent
  OutcomeIsHonest
  PassMeansCaught
  FindingsAreTrue
  SharedOutlivesChecks
  FindingsAreCurrent
  CoreFindingsStand
  ToolVerdictIsTrue
  StepsCompileTheirOwn
PROPERTIES
  RerunClearsFloor
  VerdictsAreAnswers
  CheckEnds
