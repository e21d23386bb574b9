SPECIFICATION OfisSpec
CONSTANTS
  Cagiran = {}
  Is = {j1}
  Donem = {}
  TalepId = {t1, t2}
  Yok = Yok
  YillikMiktar = 2
  ManuelMiktar = {}
  MaxManuel = 0
  Yonetici = {a1, a2}
  Buro = {b1, b2}
  Paket = {p1, p2}
  PaketMiktar = 2
  FDosya = {1, 2}
  FKapali = {2}
  FGun <- Gunler
  FGecen <- Gecenler
  FKadar <- Kadar
  FGirilen <- Girilenler
  FIcra = {1}
  FIcraGecen = {1}
  FUcret = 2
  FSatir = {1, 2}
  FEnCok = 2
  QGun = {1, 2}
  QBugun = 1
  QSorulan = {1, 2}
  QIsGunu = {2}
  QTtl = 3
  QKisaTtl = 2
  QSonSaat = 5
  QYayimSaat = {3, 4}
  QOgle = 4
  QTur = {"TLDEN", "AYNI", "CAPRAZ"}
  QKaynak = {Yok}
  QEnCok = 3
  EMesaj = {1, 2}
  ETeslim = {1, 2}
SYMMETRY Simetri
CHECK_DEADLOCK FALSE
INVARIANTS
  OfisTypeOK
  TalepTutarli
  GelenTutarli
  RaporTutarli
  KurTutarli
