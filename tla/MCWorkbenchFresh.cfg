CONSTANTS
  g1 = g1  g2 = g2  a1 = a1  t1 = t1  t2 = t2  yes = yes  no = no
  Ids = {g1, g2, a1}
  GoldIds = {g1, g2}
  Rank <- ThreeRank
  Verdicts = {yes}
  Unreviewed = Unreviewed
  Missing = Missing
  Tabs = {t1}
  Committed <- OneOfTwo
  Label <- Labels
  Nobody = Nobody
  Filters <- AllFilters
  MaxStops = 0
SPECIFICATION Spec
PROPERTY
  CommittedRowsSurvive
CHECK_DEADLOCK FALSE
