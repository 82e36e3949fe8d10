CONSTANTS
  Client = {c1, c2}
  Group <- MCGroup
  Default = "default"
  Entity <- MCEntity
  GroupOf <- MCGroupOf
  Key <- MCKey
  NoKey = 0
  Targets <- MCTargets
  DbRule <- MCDbRule
  NoRule = NoRule
  RuleError = RuleError
  TableOf <- MCTableOf
  PoolSize = 1
  PlainInside = FALSE
  MaxTx = 2
  MaxStatements = 3
  NoTx = NoTx
  NoStatement = NoStatement
SPECIFICATION FairSpec
INVARIANT AllOrNothing
INVARIANT WrittenWhereRouted
PROPERTY TransactionEnds
PROPERTY ImplementsAtomicWrites
CHECK_DEADLOCK FALSE
