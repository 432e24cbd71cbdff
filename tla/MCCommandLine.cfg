CONSTANTS
  CommunityCodes <- MCCommunityCodes
  Namespace <- MCNamespace
  Slashed <- MCSlashed
  Renamed <- MCRenamed
  Findings <- MCFindings
  Users = {u1}
  Configs <- MCConfigs
  Drafts <- MCDrafts
  HandFiles <- MCHandFiles
  Debts <- MCDebts
  Requests <- MCRequests
  FlagSets <- MCFlagSets
  Malformed = Malformed
  MaxInvoke = 2
SPECIFICATION Spec
INVARIANTS
  PlanIsHonest
PROPERTIES
  PassHidesNothing
  RecordThenPass
  RecordKeepsUnjudged
