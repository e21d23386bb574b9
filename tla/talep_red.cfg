SPECIFICATION Spec
CONSTANTS
  Cagiran = {}
  Is = {j1}
  Donem = {}
  TalepId = {t1, t2, t3}
  Yok = Yok
  YillikMiktar = 2
  ManuelMiktar = {}
  MaxManuel = 0
  Yonetici = {a1, a2}
  Buro = {b1, b2}
  Paket = {p1, p2}
  PaketMiktar = 2
SYMMETRY Simetri
CHECK_DEADLOCK FALSE
INVARIANT OnaylananReddedilmez
