SPECIFICATION Spec
CONSTANTS
  Cagiran = {w1, w2, c1}
  Is = {1, 2}
  Donem = {d1}
  TalepId = {}
  Yok = Yok
  YillikMiktar = 2
  ManuelMiktar = {1}
  MaxManuel = 0
  Isci = {w1, w2}
  Planci = {p1}
  PlanlananAt <- Sira
  BagliIs = {1, 2}
  Limit = 2
  YavasIsci = FALSE
  MaxOlay = 0
CHECK_DEADLOCK FALSE
INVARIANT TekMesaj
