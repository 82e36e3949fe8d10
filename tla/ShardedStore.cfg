CONSTANTS
  Column <- TwoColumn
  IdColumn = "id"
  Value <- MCValue
  Zero = 0
  Required <- TwoRequired
  DbKeyOf <- TwoDbKeyOf
  TableOf <- TwoTableOf
  Dbs <- TwoDbs
  Tables <- MCTables
  RuleError = RuleError
  NoKey = NoKey
  NoCall = NoCall
  Client = {c1}
  Entities <- TwoEntities
  Queries <- TwoQueries
  Contexts <- TwoContexts
  Updates <- TwoUpdates
  Batches <- TwoBatches
SPECIFICATION Spec
INVARIANT Placement
INVARIANT RoutedReadsComplete
PROPERTY ImplementsLogicalTable
