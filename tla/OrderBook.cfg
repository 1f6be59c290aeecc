\* Safety and refinement: two sessions, three orders, two prices and quantities.
SPECIFICATION Spec
CONSTANTS
  Sessions = {c1, c2}
  OrderIds = {a, b, c}
  Prices = {1, 2}
  Quantities = {1, 2}
  NoSession = none
  MaxOrders = 3
SYMMETRY Symmetry
INVARIANTS
  TypeOK
  BookConsistent
  NotCrossed
  QuantityConserved
  NoOrderWithoutSession
PROPERTIES
  KeepsPriceTimePriority
