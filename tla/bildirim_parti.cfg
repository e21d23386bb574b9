SPECIFICATION FairSpec
CONSTANTS
  Cagiran = {w1, c1}
  Is = {1, 2}
  Donem = {d1}
  TalepId = {}
  Yok = Yok
  YillikMiktar = 1
  ManuelMiktar = {1}
  MaxManuel = 0
  Isci = {w1}
  Planci = {p1}
  PlanlananAt <- Sira
  BagliIs = {1}
  Limit = 2
  YavasIsci = FALSE
  MaxOlay = 1
CHECK_DEADLOCK FALSE
PROPERTIES
  KuyruktaKalmaz
  PlanlananIslenir
