SPECIFICATION Spec
CONSTANTS
  Line = {l1, l2}
  NoLine = NoLine
  NoRow = NoRow
  Interval = 2
  RenewInterval = 2
  Notice = 1
  Form <- Forms
  NewLine = {FALSE}
  UserDate = {3, 5}
  Today = 6
  MaxDate = 11
  MaxOps = 0
SYMMETRY Symmetry
INVARIANTS
  InvoicingGoesOn
CHECK_DEADLOCK FALSE
