CONSTANTS
  g1 = g1  g2 = g2  a1 = a1  t1 = t1  t2 = t2  yes = yes  no = no
  Ids = {g1, g2}
  GoldIds = {g1, g2}
  Rank <- TwoRank
  Verdicts = {yes}
  Unreviewed = Unreviewed
  Missing = Missing
  Tabs = {t1, t2}
  Committed <- OneOfTwo
  Label <- Labels
  Nobody = Nobody
  Filters <- WholeQueue
  MaxStops = 0
SPECIFICATION Spec
INVARIANTS
  FileKeepsUp
SYMMETRY TabSymmetry
CHECK_DEADLOCK FALSE
