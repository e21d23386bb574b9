SPECIFICATION Spec
CONSTANTS
  Taksit = {1, 2}
  Odeme = {o1, o2, o3}
  Istek = {a1, a2}
  IlkTutar = 1
  TutarSecenek = {}
  MaxTutar = 2
  Yok = Yok
SYMMETRY Simetri
CHECK_DEADLOCK FALSE
INVARIANT
  OdemeAsmaz
