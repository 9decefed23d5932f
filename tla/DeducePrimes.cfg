CONSTANTS
  primes <- MCPrimes
  Inputs <- MCInputs
  Scratch <- MCScratch
SPECIFICATION Spec
INVARIANTS
  TypeOK FactorsAreFactors KeysAreFactored KIsThePower OutcomeOfRsaContext
PROPERTIES
  Returns
CHECK_DEADLOCK FALSE
