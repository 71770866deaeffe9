\* One tab; every operation with every set of parameters; answers and values that
\* differ from complete ones in one place.
CONSTANTS
  Null = Null
  Undefined = Undefined
  Bodies <- SomeBodies
  Values <- SomeValues
  Queries <- QueriesOf
SPECIFICATION FairSessionSpec
INVARIANTS
  SessionTypeOK
  Guarded
  CallFaithful
PROPERTY
  LoginEnds
