SPECIFICATION Spec
CONSTANTS
  ClassOf <- LogicalFunctionRegistry
  TokenCalls <- FunctionTokens
  PhysicalFunctions <- PhysicalFunctionRegistry
  Catalog <- MCCatalog
  Numerals <- MCNumerals
  Queries <- MCQueries
  Malformed <- MCMalformed
INVARIANTS QueriesAnswered ParsedAsWritten WireKeepsPlan SchemasFlow OriginsKnown PipelinesImplementPlan
