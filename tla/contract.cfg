SPECIFICATION Spec
CONSTANTS
  Line = {l1, l2, l3}
  NoLine = NoLine
  NoRow = NoRow
  Interval = 2
  RenewInterval = 4
  Notice = 1
  Form <- Forms
  NewLine = {TRUE, FALSE}
  UserDate = {3, 5, 7}
  Today = 5
  MaxDate = 11
  MaxOps = 3
SYMMETRY Symmetry
INVARIANTS
  TypeOK
  ChainsLinked
  CriteriaKnown
  BilledInOrder
  TerminationHolds
  SearchedAsShown
  SuspensionMovesDays
CHECK_DEADLOCK FALSE
