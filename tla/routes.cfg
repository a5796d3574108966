CONSTANTS
  Requests = {r1, r2}
  Addresses = {a1, a2}
  Limit = 2
  Period = 2
  MaxTime = 2
  Tried = {"login", "refresh", "register", "registerPage", "adminApi", "userApi", "public", "page"}
  MaxArrivals = 5
SPECIFICATION Spec
SYMMETRY Symmetry
INVARIANTS TypeOK BudgetKept NoFalseRefusal AnsweredOnce AccessAsDocumented
CHECK_DEADLOCK FALSE
