SPECIFICATION RandevuSpec
CONSTANTS
  Yok = Yok
  RZaman = {1, 2}
  RSurum = {1}
  RIstek = {1, 2}
  RKosu = {w1}
CHECK_DEADLOCK FALSE
PROPERTY YenidenPlanlamaKorur
