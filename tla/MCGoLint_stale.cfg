CONSTANTS
  Sources <- MCSources
  Configs <- MCConfigs
  Modules <- MCModules
  Shipped <- MCShipped
  CoreRules <- CoreNames
  JudgedIn <- MCJudgedIn
  Printable <- MCPrintable
  NoModule = NoModule
  Unlinted = Unlinted
  Unguarded = Unguarded
  MaxTurns = 2
  MaxTroubles = 1
SPECIFICATION LintSpec
INVARIANTS
  DirectiveJudged
