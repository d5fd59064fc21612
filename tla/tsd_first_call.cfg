SPECIFICATION Spec
CONSTANTS
  t1 = t1
  t2 = t2
  t3 = t3
  tableA = tableA
  tableB = tableB
  Noop = Noop
  Null = Null
  Thread = {t1, t2}
  Table = {tableA}
  ExitWithTable = FALSE
  ReloadAfterSwitch = FALSE
  MaxReloads = 0
SYMMETRY ModelSymmetry
INVARIANT NeverNull
