SPECIFICATION BuroSpec
CONSTANTS
  Yok = Yok
  Belirtec = {1, 2, 3, 4}
  Aile = {1, 2, 3}
  AdminAile = {3}
  Kod = {1, 2}
  OturumIstek = {1, 2, 3, 4}
  MaxSifre = 2
  Siparis = {p1, p2}
  YillikSiparis = {p1}
  Satinalma = {1}
  LisansIstek = {0, 1, 2, 3}
  Yonetici = {0}
  Yil = 2
  MaxGun = 1
  MaxBitis = 3
  Tur = {"D1", "D30"}
  Esik <- EsikGunleri
  MaxDeneme = 2
  Kosu = {1, 2}
  KSiparis = {o1, o2, o3, o4}
  KAyni = {o1, o2}
  KElden = {o4}
  KNo <- Numaralar
  KAd = {1, 2, 3}
  KAdlar <- AdListeleri
  KIstek = {1, 2, 3}
  RZaman = {1, 2}
  RSurum = {1}
  RIstek = {1, 2}
  RKosu = {w1, w2}
  WIleti = {1, 2}
  WIstek = {1, 2, 3}
  YSatir = {1}
  YGun = 2
  YSakla = 1
  YIstek = {1, 2, 3}
  BBuro = {b1, b2}
  BNumara = {1, 2}
  BHesap <- TekHesap
  BIstek = {1, 2}
  TAd = {1, 2}
  THazirAd = 1
  TMetin = {1, 2}
  TNo = 2
  TKimlik = 2
  TIstek = {1, 2}
  UAdmin = {s1, s2}
  UKurucu = s1
  UUye = {u1, u2}
  UIstek = {1, 2}
  DYedek <- Yedekler
  DElden = {1}
  DParti = {1, 2}
  DIstek = {1, 2, 3, 4}
CHECK_DEADLOCK FALSE
INVARIANTS
  BuroTypeOK
  OturumTutarli
  LisanslarTutarli
  
  RandevuTutarli
  IletiTutarli
  YedekTutarli
  BaglantiTutarli
  SablonTutarli
  KadroTutarli
  AktarimTutarli
PROPERTIES
  OturumSozlesmesiTutar
