SPECIFICATION Spec
CONSTANTS
  Taksit = {1, 2}
  Odeme = {o1, o2}
  Istek = {a1, a2, a3}
  IlkTutar = 1
  TutarSecenek = {1, 2}
  MaxTutar = 2
  Yok = Yok
SYMMETRY Simetri
CHECK_DEADLOCK FALSE
INVARIANTS
  TypeOK
  GelirinOdemesiVar
  AsimCakismada
  IptalUcretteOdemeSonradan
PROPERTIES
  OnayliGelirSabit
  GorulmeyenIptalOlmaz
