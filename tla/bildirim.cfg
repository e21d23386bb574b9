SPECIFICATION Spec
CONSTANTS
  Cagiran = {w1, w2, c1}
  Is = {1}
  Donem = {d1}
  TalepId = {}
  Yok = Yok
  YillikMiktar = 1
  ManuelMiktar = {1}
  MaxManuel = 0
  Isci = {w1, w2}
  Planci = {p1, p2}
  PlanlananAt <- Sira
  BagliIs = {1}
  Limit = 2
  YavasIsci = TRUE
  MaxOlay = 4
CHECK_DEADLOCK FALSE
SYMMETRY Simetri
INVARIANTS
  TypeOK
  OtomatikMesajKredili
  CiftMesajKilitKaybindan
  BitenIsDogru
