SPECIFICATION Spec
CONSTANTS
  t1 = t1
  t2 = t2
  t3 = t3
  tableA = tableA
  tableB = tableB
  Noop = Noop
  Null = Null
  Thread = {t1, t2, t3}
  Table = {tableA, tableB}
  ExitWithTable = FALSE
  ReloadAfterSwitch = FALSE
  MaxReloads = 1
SYMMETRY ModelSymmetry
INVARIANT PointerInv
INVARIANT OwnTable
