SPECIFICATION FairSpec
CONSTANTS
  Cagiran = {w1, c1}
  Is = {1, 2}
  Donem = {d1}
  TalepId = {}
  Yok = Yok
  YillikMiktar = 2
  ManuelMiktar = {1}
  MaxManuel = 0
  Isci = {w1}
  Planci = {p1}
  PlanlananAt <- Sira
  BagliIs = {2}
  Limit = 1
  YavasIsci = FALSE
  MaxOlay = 0
CHECK_DEADLOCK FALSE
PROPERTY PlanlananIslenir
