SPECIFICATION ParaSpec
CONSTANTS
  Cagiran = {c1, c2}
  Is = {j1, j2}
  Donem = {d1}
  TalepId = {}
  Yok = Yok
  YillikMiktar = 2
  ManuelMiktar = {1}
  MaxManuel = 2
  IToplam = {1, 2}
  IAdet = 4
  IOdeme = {1, 2, 3}
  IIstek = {1, 2}
  KSatir = {1, 2, 3}
  KasaIstek = {1, 2, 3}
  SBakiye = 1
  SMesaj = {1}
  SYonetim = {1, 2}
  SDusum = {2}
  SHata = {1, 2}
  SIstek = {1, 2, 3}
  VTutar = {1, 2}
  VPara = {TRY, USD}
  VTaksit = {1, 2, 3}
  VOdeme = {1}
  VIstek = {1, 2, 3}
  MSatir = {1, 2, 3}
  MIstek = {1, 2, 3}
  PKural = {1, 2}
  PIstek = {1, 2}
  POdeme = {1, 2}
  PTutar = {2}
  PTarife <- Tarifeler
  GKural = {"VADE_GUNU", "VADEDEN_ONCE"}
  GGunler <- Gunler
  GUst = {"dosya"}
  GVade = {0, 1}
  GSurum = 2
  GIstek = {1, 2}
CHECK_DEADLOCK FALSE
SYMMETRY Simetri
INVARIANTS
  ParaTypeOK
  BakiyeSaglam
  TekHareket
  IadeTuketimdenSonra
  SmsTutarli
  IcraTutarli
  KasalarTutarli
  PlanTutarli
  PrimTutarli
  BPlanTutarli
PROPERTY DefterSozlesmesi
