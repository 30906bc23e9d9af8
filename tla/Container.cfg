SPECIFICATION Spec
CONSTANTS
  a = a
  b = b
  c = c
  x = x
  y = y
  Order <- MCOrder
  LazyOrder <- MCLazyOrder
  Programs <- MCPrograms
  Initializers = 2
  MaxStops = 2
INVARIANT NothingLeft
PROPERTY FactoryAfterDeps
PROPERTY DependentsFirst
PROPERTY Settles
