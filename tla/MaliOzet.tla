------------------------------ MODULE MaliOzet ------------------------------
(***************************************************************************)
(* What the reports of an office say of the same rows: the summary of a    *)
(* case and of its client (dosyaMaliOzet.service.ts), the client's         *)
(* statement (muvekkilEkstre.service.ts), the warnings (maliKontrol,       *)
(* dashboard/taksitUyari, tahsilatMerkezi) and the office cash overviews   *)
(* (ofisKasa.service.ts).  Each has queries and sums of its own, and a day *)
(* of its own: the warnings, the dashboard and the fee page take today     *)
(* from the server's clock, the collection centre from Turkey's, and a     *)
(* statement is as of any day and leaves later rows out.  One client, one  *)
(* currency, amounts of 1; one instalment per fee and enforcement claim,   *)
(* with a due date that stays.  The rows are changed by whole requests:    *)
(* how requests that write them overlap is in VekaletTaksit, OfisKasa,     *)
(* IcraTahsilat and MuvekkilKasa.                                          *)
(***************************************************************************)
EXTENDS Ortak, FiniteSetsExt

CONSTANTS
  FDosya,    \* the client's cases
  FKapali,   \* those closed since
  FGun,      \* days of statements, "tr", today in Turkey, among them
  FGecen,    \* per day, and "sunucu", the server's today: the cases whose instalment was due before
  FKadar,    \* per day of statements, the months whose rows are dated by its end, and
  FGirilen,  \* the cases whose instalment had been entered by then
  FIcra,     \* enforcement instalments, and
  FIcraGecen, \* those due before the server's today
  FUcret,    \* what a fee comes to
  FSatir,    \* ids of rows, numbered
  FEnCok     \* rows entered in the two cash books together (bounds the run)

Ay == {0, 1}   \* before the current accounting period, and in it

FOdemeKaydi == [dosya : FDosya, ay : Ay, iptal : BOOLEAN, gelir : FSatir \cup {Yok}]
FOfisKaydi ==
  [tur : {"GELIR", "GIDER", "DUZELTME", "DOVIZ_CIKIS", "DOVIZ_GIRIS"}, kim : BOOLEAN, ay : Ay, tutar : {-1, 1},
   onay : {"ONAYSIZ", "ONAYLI"}, silindi : BOOLEAN, bag : FSatir \cup {Yok}, odeme : FSatir \cup {Yok}]
FKasaKaydi ==
  [tur : {"AVANS_GIRISI", "MASRAF", "DUZELTME"}, dosya : FDosya, ay : Ay, tutar : {-1, 1},
   onay : {"ONAYSIZ", "ONAYLI"}, silindi : BOOLEAN, bag : FSatir \cup {Yok}]

ASSUME MaliVarsayimi ==
  /\ FSatir \subseteq Nat /\ IsFiniteSet(FSatir) /\ IsFiniteSet(FDosya) /\ FKapali \subseteq FDosya
  /\ "tr" \in FGun /\ FGecen \in [FGun \cup {"sunucu"} -> SUBSET FDosya]
  /\ FKadar \in [FGun -> SUBSET Ay] /\ FGirilen \in [FGun -> SUBSET FDosya]
  /\ IsFiniteSet(FIcra) /\ FIcraGecen \subseteq FIcra
  /\ FUcret \in Nat /\ FEnCok \in Nat
  /\ Yok \notin FSatir \cup FOdemeKaydi \cup FOfisKaydi \cup FKasaKaydi

VARIABLES
  fDosya,    \* per case: [ucret, taksit], AKTIF or IPTAL
  fOdeme,    \* per id, the payment: [dosya, ay, iptal, gelir], gelir its income row
  fOfis,     \* per id, the row of the office cash: [tur, kim, ay, tutar, onay, silindi, bag, odeme];
             \* kim: of the client; bag: the row a correction corrects; odeme: its source
  fKasa,     \* per id, the row of the case's cash: [tur, dosya, ay, tutar, onay, silindi]
  fIcra      \* per enforcement instalment: "acik", "odendi", or "yok": deleted, or its claim cancelled

maliVars == <<fDosya, fOdeme, fOfis, fKasa, fIcra>>

FDolu(tablo) == {r \in FSatir : tablo[r] \notin {Yok, Bitti}}
FYeni(tablo) == Ilk({r \in FSatir : tablo[r] = Yok})
FYerVar == Cardinality({r \in FSatir : fOfis[r] # Yok}) + Cardinality({r \in FSatir : fKasa[r] # Yok}) < FEnCok

MaliInit ==
  /\ fDosya = [c \in FDosya |-> [ucret |-> "AKTIF", taksit |-> "AKTIF"]]
  /\ fOdeme = [r \in FSatir |-> Yok] /\ fOfis = fOdeme /\ fKasa = fOdeme
  /\ fIcra = [t \in FIcra |-> "acik"]

OfisSatiri(tur, kim, ay, tutar, bag, odeme) ==
  [tur |-> tur, kim |-> kim, ay |-> ay, tutar |-> tutar, onay |-> "ONAYSIZ", silindi |-> FALSE, bag |-> bag, odeme |-> odeme]

\* isTahsilatOdemeAktif: not cancelled, and its income row, if it has one, not deleted.
FAktif(o) == ~fOdeme[o].iptal /\ (fOdeme[o].gelir # Yok => ~fOfis[fOdeme[o].gelir].silindi)
FOdenenler(c) == {o \in FDolu(fOdeme) : fOdeme[o].dosya = c /\ FAktif(o)}

\* buildVekaletSilEtkiAnalizi: what cancelling the fee takes back, by the
\* instalments in force; its fingerprint is of these payments.
FSilEtki(c) == IF fDosya[c].taksit = "AKTIF" THEN FOdenenler(c) ELSE {}

-----------------------------------------------------------------------------
(* What requests leave in the tables *)

\* A payment and its income row, which names no client.
FOde(c, ay) ==
  /\ FYerVar /\ fDosya[c].taksit = "AKTIF" /\ Cardinality(FOdenenler(c)) < FUcret
  /\ \E o \in FYeni(fOdeme), g \in FYeni(fOfis) :
       /\ fOdeme' = [fOdeme EXCEPT ![o] = [dosya |-> c, ay |-> ay, iptal |-> FALSE, gelir |-> g]]
       /\ fOfis' = [fOfis EXCEPT ![g] = OfisSatiri("GELIR", FALSE, ay, 1, Yok, o)]
  /\ UNCHANGED <<fDosya, fKasa, fIcra>>

\* Soft deletion of rows and of their corrections.
FSilinmis(S) == [r \in FSatir |-> IF r \in FDolu(fOfis) /\ (r \in S \/ (fOfis[r].tur = "DUZELTME" /\ fOfis[r].bag \in S))
                                  THEN [fOfis[r] EXCEPT !.silindi = TRUE] ELSE fOfis[r]]

\* Cancelling payments: with their income rows.
FIptal(S) ==
  /\ fOdeme' = [o \in FSatir |-> IF o \in S THEN [fOdeme[o] EXCEPT !.iptal = TRUE] ELSE fOdeme[o]]
  /\ fOfis' = FSilinmis({fOdeme[o].gelir : o \in S})

FOdemeIptal(o) == FAktif(o) /\ FIptal({o}) /\ UNCHANGED <<fDosya, fKasa, fIcra>>

\* An instalment is cancelled when it has no active payment.
FTaksitIptal(c) ==
  /\ fDosya[c].taksit = "AKTIF" /\ FOdenenler(c) = {}
  /\ fDosya' = [fDosya EXCEPT ![c].taksit = "IPTAL"]
  /\ UNCHANGED <<fOdeme, fOfis, fKasa, fIcra>>

\* A fee is cancelled with its instalments and active payments, when those are
\* the payments of the analysis (assertVekaletSilFingerprintMatch).
FUcretIptal(c) ==
  /\ fDosya[c].ucret = "AKTIF" /\ FSilEtki(c) = FOdenenler(c)
  /\ fDosya' = [fDosya EXCEPT ![c].ucret = "IPTAL", ![c].taksit = "IPTAL"]
  /\ FIptal(FOdenenler(c))
  /\ UNCHANGED <<fKasa, fIcra>>

\* Income and expenses by hand, of the client or of the office; a leg of an exchange.
FOfisEkle(tur, kim, ay) ==
  /\ FYerVar /\ (kim => tur \in {"GELIR", "GIDER"})
  /\ \E r \in FYeni(fOfis) : fOfis' = [fOfis EXCEPT ![r] = OfisSatiri(tur, kim, ay, 1, Yok, Yok)]
  /\ UNCHANGED <<fDosya, fOdeme, fKasa, fIcra>>

\* createIcraTaksitOdeme: the payment of an enforcement instalment, with an
\* income row that names no client; deleting the row does not undo it here.
FIcraOde(t, ay) ==
  /\ FYerVar /\ fIcra[t] = "acik"
  /\ \E r \in FYeni(fOfis) : fOfis' = [fOfis EXCEPT ![r] = OfisSatiri("GELIR", FALSE, ay, 1, Yok, Yok)]
  /\ fIcra' = [fIcra EXCEPT ![t] = "odendi"]
  /\ UNCHANGED <<fDosya, fOdeme, fKasa>>

\* The claim is cancelled, or the instalment deleted while nothing was paid.
FIcraIptal(t) ==
  /\ fIcra[t] # "yok" /\ fIcra' = [fIcra EXCEPT ![t] = "yok"]
  /\ UNCHANGED <<fDosya, fOdeme, fOfis, fKasa>>

\* A correction of an approved row, which names no client either.
FOfisDuzelt(r, ay) ==
  /\ FYerVar /\ fOfis[r].onay = "ONAYLI" /\ fOfis[r].tur # "DUZELTME" /\ fOfis[r].ay <= ay
  /\ \E d \in FYeni(fOfis) : fOfis' = [fOfis EXCEPT ![d] = OfisSatiri("DUZELTME", FALSE, ay, -1, r, Yok)]
  /\ UNCHANGED <<fDosya, fOdeme, fKasa, fIcra>>

FOfisOnayla(r) ==
  /\ fOfis[r].onay = "ONAYSIZ" /\ ~fOfis[r].silindi
  /\ fOfis' = [fOfis EXCEPT ![r].onay = "ONAYLI"]
  /\ UNCHANGED <<fDosya, fOdeme, fKasa, fIcra>>

\* An unapproved row is deleted for good; a payment that had it loses the link.
FOfisSil(r) ==
  /\ fOfis[r].onay = "ONAYSIZ" /\ ~fOfis[r].silindi /\ fOfis[r].tur # "GIDER"
  /\ fOfis' = [fOfis EXCEPT ![r] = Bitti]
  /\ fOdeme' = [o \in FSatir |-> IF o \in FDolu(fOdeme) /\ fOdeme[o].gelir = r THEN [fOdeme[o] EXCEPT !.gelir = Yok] ELSE fOdeme[o]]
  /\ UNCHANGED <<fDosya, fKasa, fIcra>>

\* The owner's safe delete: of a payment's income, the payment is cancelled.
FOfisGuvenliSil(r) ==
  /\ fOfis[r].tur \in {"GELIR", "GIDER"} /\ ~fOfis[r].silindi
  /\ IF fOfis[r].odeme = Yok THEN fOfis' = FSilinmis({r}) /\ UNCHANGED fOdeme ELSE FIptal({fOfis[r].odeme})
  /\ UNCHANGED <<fDosya, fKasa, fIcra>>

\* The case's cash: advances and expenses, their approval, a correction, and
\* the safe delete of a row with its corrections.
KasaKaydi(tur, c, ay, tutar, bag) ==
  [tur |-> tur, dosya |-> c, ay |-> ay, tutar |-> tutar, onay |-> "ONAYSIZ", silindi |-> FALSE, bag |-> bag]

FKasaEkle(c, tur, ay) ==
  /\ FYerVar /\ \E r \in FYeni(fKasa) : fKasa' = [fKasa EXCEPT ![r] = KasaKaydi(tur, c, ay, 1, Yok)]
  /\ UNCHANGED <<fDosya, fOdeme, fOfis, fIcra>>

FKasaOnayla(r) ==
  /\ fKasa[r].onay = "ONAYSIZ" /\ ~fKasa[r].silindi
  /\ fKasa' = [fKasa EXCEPT ![r].onay = "ONAYLI"] /\ UNCHANGED <<fDosya, fOdeme, fOfis, fIcra>>

FKasaDuzelt(r, ay) ==
  /\ FYerVar /\ fKasa[r].onay = "ONAYLI" /\ fKasa[r].tur # "DUZELTME" /\ fKasa[r].ay <= ay
  /\ \E d \in FYeni(fKasa) : fKasa' = [fKasa EXCEPT ![d] = KasaKaydi("DUZELTME", fKasa[r].dosya, ay, -1, r)]
  /\ UNCHANGED <<fDosya, fOdeme, fOfis, fIcra>>

FKasaSil(r) ==
  /\ fKasa[r].tur # "DUZELTME" /\ ~fKasa[r].silindi
  /\ fKasa' = [k \in FSatir |-> IF k \in FDolu(fKasa) /\ r \in {k, fKasa[k].bag} THEN [fKasa[k] EXCEPT !.silindi = TRUE] ELSE fKasa[k]]
  /\ UNCHANGED <<fDosya, fOdeme, fOfis, fIcra>>

MaliNext ==
  \/ \E c \in FDosya : FTaksitIptal(c) \/ FUcretIptal(c)
  \/ \E c \in FDosya, ay \in Ay : FOde(c, ay) \/ \E tur \in {"AVANS_GIRISI", "MASRAF"} : FKasaEkle(c, tur, ay)
  \/ \E o \in FDolu(fOdeme) : FOdemeIptal(o)
  \/ \E t \in FIcra : FIcraIptal(t) \/ \E ay \in Ay : FIcraOde(t, ay)
  \/ \E tur \in {"GELIR", "GIDER", "DOVIZ_CIKIS", "DOVIZ_GIRIS"}, kim \in BOOLEAN, ay \in Ay : FOfisEkle(tur, kim, ay)
  \/ \E r \in FDolu(fOfis) : FOfisOnayla(r) \/ FOfisSil(r) \/ FOfisGuvenliSil(r) \/ \E ay \in Ay : FOfisDuzelt(r, ay)
  \/ \E r \in FDolu(fKasa) : FKasaOnayla(r) \/ FKasaSil(r) \/ \E ay \in Ay : FKasaDuzelt(r, ay)

MaliSpec == MaliInit /\ [][MaliNext]_maliVars

-----------------------------------------------------------------------------
(* The reports, of the months A *)

FTop(S, f) == MapThenSumSet(LAMBDA x : f[x], S)
FBuro(bakiye) == Max({0, -bakiye})   \* what the office pays for the client
FKalan(bakiye) == Max({0, bakiye})

FKasaSatirlari(A) == {k \in FDolu(fKasa) : fKasa[k].onay = "ONAYLI" /\ ~fKasa[k].silindi /\ fKasa[k].ay \in A}
FKasaTutari == [k \in FDolu(fKasa) |-> fKasa[k].tutar]
FIsaretli == [k \in FDolu(fKasa) |-> IF fKasa[k].tur = "MASRAF" THEN -fKasa[k].tutar ELSE fKasa[k].tutar]
FOfisTutari == [r \in FDolu(fOfis) |-> fOfis[r].tutar]

\* computeForDosya: the fee only counts when no dates are given.
FDosyaOzet(c, A) ==
  LET tahsil == Cardinality({o \in FOdenenler(c) : fOdeme[o].ay \in A})
      bakiye == FTop({k \in FKasaSatirlari(A) : fKasa[k].dosya = c}, FIsaretli)
      ucret  == IF A = Ay /\ fDosya[c].ucret = "AKTIF" THEN FUcret ELSE 0 IN
  [tahsil |-> tahsil, alacak |-> FKalan(ucret - tahsil), avans |-> FKalan(bakiye), buro |-> FBuro(bakiye),
   net |-> tahsil - FBuro(bakiye)]

\* loadManuelOfisGelirBuckets, loadManuelOfisGiderBuckets: the client's rows
\* without a source, and the corrections of the rows found.
FElle(tur, A) ==
  LET sayilir(r) == fOfis[r].onay = "ONAYLI" /\ ~fOfis[r].silindi /\ fOfis[r].ay \in A
      satir == {r \in FDolu(fOfis) : fOfis[r].kim /\ fOfis[r].tur = tur /\ fOfis[r].odeme = Yok /\ sayilir(r)} IN
  FTop(satir \cup {d \in FDolu(fOfis) : fOfis[d].tur = "DUZELTME" /\ fOfis[d].bag \in satir /\ sayilir(d)},
       FOfisTutari)

FMuvekkilOzetMutant(A) ==   \* mutant: the cases' cash is added up before the office's share is taken
  LET tahsil == Cardinality({o \in FDolu(fOdeme) : FAktif(o) /\ fOdeme[o].ay \in A})
      gider == FBuro(FTop(FKasaSatirlari(A), FIsaretli)) + FElle("GIDER", A) IN
  [tahsil |-> tahsil, gider |-> gider, net |-> tahsil + FElle("GELIR", A) - gider]

\* computeForMuvekkil: the payments and the cash of all cases, by case.
FMuvekkilTahsil(A) == Cardinality({o \in FDolu(fOdeme) : FAktif(o) /\ fOdeme[o].ay \in A})
FMuvekkilOzet(A) ==
  LET tahsil == FMuvekkilTahsil(A)
      kasa(c) == FTop({k \in FKasaSatirlari(A) : fKasa[k].dosya = c}, FIsaretli)
      gider == FTop(FDosya, [c \in FDosya |-> FBuro(kasa(c))]) + FElle("GIDER", A) IN
  [tahsil |-> tahsil, gider |-> gider, net |-> tahsil + FElle("GELIR", A) - gider]

\* What its fees in force come to, less all it paid.
FMuvekkilKalan ==
  FKalan(FTop(FDosya, [c \in FDosya |-> IF fDosya[c].ucret = "AKTIF" THEN FUcret ELSE 0]) - FMuvekkilTahsil(Ay))

\* getDosyaMaliOzet, getMuvekkilKarlilik: all time beside the period.
FDosyaRapor(c) == [tum |-> FDosyaOzet(c, Ay), donem |-> FDosyaOzet(c, {1})]
FMuvekkilRapor == [tum |-> FMuvekkilOzet(Ay), donem |-> FMuvekkilOzet({1})]

\* computeTaksitOdemeOzeti; an instalment is the whole fee.
FTaksitKalan(c) == FKalan(FUcret - Cardinality(FOdenenler(c)))
FAcikTaksit == {c \in FDosya : fDosya[c].taksit = "AKTIF"}

\* computeTaksitDurum, of an instalment with so much paid.
FTaksitDurum(c, odenen) ==
  IF fDosya[c].taksit = "IPTAL" THEN "ODENMEDI" ELSE IF c \in FGecen["sunucu"] /\ FUcret > odenen THEN "GECIKTI"
  ELSE IF odenen <= 0 THEN "ODENMEDI" ELSE IF odenen < FUcret THEN "KISMI_ODENDI" ELSE "ODENDI"

\* computeOzet, of a fee of so much.
FUcretOzeti(tutar, odenen) == [odenen |-> odenen, kalan |-> FKalan(tutar - odenen)]

\* getDosyaVekaletPackage: the fee in force.
FPaket(c) ==
  LET ucret == fDosya[c].ucret = "AKTIF"
      odenen == IF ucret /\ c \in FAcikTaksit THEN Cardinality(FOdenenler(c)) ELSE 0 IN
  [ozet |-> FUcretOzeti(IF ucret THEN FUcret ELSE 0, odenen),
   durum |-> IF ucret /\ c \in FAcikTaksit THEN FTaksitDurum(c, odenen) ELSE "YOK"]

\* buildMuvekkilEkstreForDosya, as of the day g: nothing of cancelled
\* instalments or of ones entered later, no later rows, and the client's income
\* rows, deleted or not.
FEkstreTaksit(c, g) == fDosya[c].ucret = "AKTIF" /\ c \in FAcikTaksit \cap FGirilen[g]
FEkstreOdenen(c, g) ==
  IF FEkstreTaksit(c, g) THEN Cardinality({o \in FOdenenler(c) : fOdeme[o].ay \in FKadar[g]}) ELSE 0
FEkstreBakiye(c, g) ==
  LET kasa == {k \in FKasaSatirlari(FKadar[g]) : fKasa[k].dosya = c}
      tur(t) == FTop({k \in kasa : fKasa[k].tur = t}, FKasaTutari)
  IN tur("AVANS_GIRISI") - tur("MASRAF") + tur("DUZELTME")
FEkstreGelir(g) ==
  {r \in FDolu(fOfis) : fOfis[r].kim /\ fOfis[r].tur = "GELIR" /\ fOfis[r].onay = "ONAYLI" /\ fOfis[r].ay \in FKadar[g]}
FEkstre(c, g) ==
  [odenen |-> FEkstreOdenen(c, g),
   geciken |-> FEkstreTaksit(c, g) /\ c \in FGecen[g] /\ FUcret > FEkstreOdenen(c, g),
   bakiye |-> FEkstreBakiye(c, g),
   ofis |-> FEkstreGelir(g)]

\* listDosyaDisiOfisGelirleriForMuvekkil: the same rows on the client's page,
\* approved or not, but without deleted ones.
FDosyaDisiGelir == {r \in FDolu(fOfis) : fOfis[r].kim /\ fOfis[r].tur = "GELIR" /\ ~fOfis[r].silindi}

\* listKasaHareketleri: the rows of a case by months; a correction belongs to
\* the month of what it corrects, while the summary counts it in its own.
FKasaEkonomik(k) == IF fKasa[k].tur = "DUZELTME" /\ fKasa[k].bag \in FDolu(fKasa) THEN fKasa[fKasa[k].bag].ay ELSE fKasa[k].ay
FKasaListe(c, A) == {k \in FDolu(fKasa) : ~fKasa[k].silindi /\ fKasa[k].dosya = c /\ FKasaEkonomik(k) \in A}

\* getMaliKontrolUyarilari: instalments, advances, closed cases, cash to approve.
FVadeUyarilari == {<<"VADESI_GECMIS_TAKSIT", c>> : c \in {d \in FAcikTaksit \cap FGecen["sunucu"] : FTaksitKalan(d) > 0}}

FKasaBakiye(c) == FTop({k \in FKasaSatirlari(Ay) : fKasa[k].dosya = c}, FIsaretli)
FAvansUyarilari == {<<"NEGATIF_AVANS", c>> : c \in {d \in FDosya : FKasaBakiye(d) < 0}}

FKapaliUyarilari ==
  LET odenen(c) == IF c \in FAcikTaksit THEN Cardinality(FOdenenler(c)) ELSE 0 IN
  {<<"KAPALI_DOSYA_AVANS", c>> : c \in {d \in FKapali : FKasaBakiye(d) > 0}}
  \cup {<<"KAPALI_DOSYA_ALACAK", c>> : c \in {d \in FKapali : fDosya[d].ucret = "AKTIF" /\ FUcret > odenen(d)}}

FOnayUyarilari == {<<"ONAY_BEKLEYEN_KASA", k>> : k \in {r \in FDolu(fKasa) : fKasa[r].onay = "ONAYSIZ" /\ ~fKasa[r].silindi}}

FUyarilar == FVadeUyarilari \cup FAvansUyarilari \cup FKapaliUyarilari \cup FOnayUyarilari

\* getTaksitUyarilariForTenant: the late instalments of fees by a day, of which
\* it takes the server's, and those of enforcement claims not cancelled.
FGeciken(g) == {c \in FAcikTaksit : c \in FGecen[g] /\ FTaksitKalan(c) > 0}
FIcraGeciken == {t \in FIcraGecen : fIcra[t] = "acik"}
FGecikenler ==
  [vekalet |-> FGeciken("sunucu"), icra |-> FIcraGeciken,
   adet |-> Cardinality(FGeciken("sunucu")) + Cardinality(FIcraGeciken)]

\* loadOpenTaksitRows: cancelled payments count as well; classifyGorunumler,
\* filterRows: those late in Turkey; computeOzet: their number and what they
\* come to.  No enforcement instalments here.
FMerkezKalan == [c \in FDosya |-> FKalan(FUcret - Cardinality({o \in FDolu(fOdeme) : fOdeme[o].dosya = c}))]
FMerkezSatirlari == {c \in FAcikTaksit : FMerkezKalan[c] > 0}
FMerkezGeciken == FMerkezSatirlari \cap FGecen["tr"]
FMerkezOzet == [adet |-> Cardinality(FMerkezGeciken), toplam |-> FTop(FMerkezGeciken, FMerkezKalan)]

\* ofisEconomicDate: a correction belongs to the month of what it corrects.
FEkonomik(r) == IF fOfis[r].tur = "DUZELTME" /\ fOfis[r].bag \in FDolu(fOfis) THEN fOfis[fOfis[r].bag].ay ELSE fOfis[r].ay

FOfisSatirlari == {r \in FDolu(fOfis) : fOfis[r].onay = "ONAYLI" /\ ~fOfis[r].silindi}   \* loadApprovedOfisRows
FTuru(S, tur) == FTop({r \in S : fOfis[r].tur = tur}, FOfisTutari)
FNet(S) == FTuru(S, "GELIR") - FTuru(S, "GIDER") + FTuru(S, "DUZELTME") - FTuru(S, "DOVIZ_CIKIS") + FTuru(S, "DOVIZ_GIRIS")

\* getOfisKasaOzet: the net of the months A, and what waits for approval.
FOfisOzet(A) == FNet({r \in FOfisSatirlari : FEkonomik(r) \in A})
FOnaysiz(A) == {r \in FDolu(fOfis) : fOfis[r].onay = "ONAYSIZ" /\ ~fOfis[r].silindi /\ FEkonomik(r) \in A}

\* getOfisKasaAnaSayfaOzet: the net of the period leaves exchanges out.
FAnaSayfa ==
  LET donem == {r \in FOfisSatirlari : FEkonomik(r) = 1} IN
  [devreden |-> FNet({r \in FOfisSatirlari : FEkonomik(r) < 1}),
   net |-> FTuru(donem, "GELIR") - FTuru(donem, "GIDER") + FTuru(donem, "DUZELTME"),
   bakiye |-> FNet(FOfisSatirlari)]

\* listOfisKasaHareketleri, groupDuzeltmeWithParents: the rows of a month,
\* each row with all its corrections, approved or not.
FListe(A) ==
  LET bulunan == {r \in FDolu(fOfis) : ~fOfis[r].silindi /\ FEkonomik(r) \in A}
      asil == {IF fOfis[r].tur = "DUZELTME" /\ fOfis[r].bag # Yok THEN fOfis[r].bag ELSE r : r \in bulunan} IN
  {r \in FDolu(fOfis) : ~fOfis[r].silindi /\ (r \in asil \cup bulunan \/ fOfis[r].bag \in asil)}

\* buildOfisKasaReport: what the list comes to, approved or not; the head
\* leaves exchanges out, the table by currency does not.
FOfisRapor(A) ==
  LET S == FListe(A) IN
  [bas |-> FTuru(S, "GELIR") - FTuru(S, "GIDER") + FTuru(S, "DUZELTME"), net |-> FNet(S)]

\* getDashboardSummaryForTenant.
FPano ==
  [kasaOnay |-> Cardinality({k \in FDolu(fKasa) : fKasa[k].onay = "ONAYSIZ" /\ ~fKasa[k].silindi}),
   ofisOnay |-> Cardinality({r \in FDolu(fOfis) : fOfis[r].onay = "ONAYSIZ" /\ ~fOfis[r].silindi}),
   geciken |-> FGecikenler.adet, bakiye |-> FNet(FOfisSatirlari)]

-----------------------------------------------------------------------------
(* Properties *)

\* The type invariant of the tables.
MaliTypeOK ==
  /\ fDosya \in [FDosya -> [ucret : {"AKTIF", "IPTAL"}, taksit : {"AKTIF", "IPTAL"}]]
  /\ fOdeme \in [FSatir -> FOdemeKaydi \cup {Yok, Bitti}]
  /\ fOfis \in [FSatir -> FOfisKaydi \cup {Yok, Bitti}]
  /\ fKasa \in [FSatir -> FKasaKaydi \cup {Yok, Bitti}]
  /\ fIcra \in [FIcra -> {"acik", "odendi", "yok"}]

\* A client's net is what its cases and the rows by hand come to, for all time
\* and for the period, it owes what its cases owe, and the rows by hand are
\* those of its months unless a correction is of a later month than its row.
FMuvekkilTutar ==
  LET r == FMuvekkilRapor  d == [c \in FDosya |-> FDosyaRapor(c)]
      elle == [A \in {{0}, {1}, Ay} |-> [gelir |-> FElle("GELIR", A), gider |-> FElle("GIDER", A)]] IN
  /\ FMuvekkilKalan = FTop(FDosya, [c \in FDosya |-> d[c].tum.alacak])
  /\ r.tum.net = FTop(FDosya, [c \in FDosya |-> d[c].tum.net]) + elle[Ay].gelir - elle[Ay].gider
  /\ r.donem.net = FTop(FDosya, [c \in FDosya |-> d[c].donem.net]) + elle[{1}].gelir - elle[{1}].gider
  /\ (\A q \in FDolu(fOfis) : fOfis[q].tur = "DUZELTME" => fOfis[q].ay = FEkonomik(q)) =>
       /\ elle[Ay].gelir = elle[{0}].gelir + elle[{1}].gelir
       /\ elle[Ay].gider = elle[{0}].gider + elle[{1}].gider

\* A statement of a case, as of any day, shows of its payments and its cash what
\* the summary says of the rows up to that day, and nothing paid on an
\* instalment entered later.  It calls an instalment late that the warnings do,
\* where its day and the server's agree on the due date, and no other unless a
\* payment is of a later day.
FEkstreTutar(c, g) ==
  LET e == FEkstre(c, g)  o == FDosyaOzet(c, FKadar[g])  u == FGecikenler.vekalet IN
  /\ e.bakiye = o.avans - o.buro
  /\ e.odenen = IF c \in FGirilen[g] THEN o.tahsil ELSE 0
  /\ c \in FGirilen[g] /\ (c \in FGecen[g] <=> c \in FGecen["sunucu"]) =>
       /\ c \in u => e.geciken
       /\ e.geciken => c \in u \/ \E q \in FOdenenler(c) : fOdeme[q].ay \notin FKadar[g]

\* Summary, statement and the warnings say the same of a case: the office pays
\* when the advance is used up, a closed case with money left or money owed is
\* warned of, and an instalment is late by the server's clock everywhere or
\* nowhere; the dashboard counts those and the enforcement instalments left to
\* pay.  The collection centre, which goes by Turkey's day, shows no other than
\* the late ones of that day; it may only miss one when a payment was cancelled,
\* and never shows more owed.  The analysis before a fee is cancelled names the
\* payments that will be, or it could never be confirmed.  The case's cash list
\* of a month holds what its summary counts unless a correction is of a later
\* month.
FDosyaTutar ==
  LET uyari == FUyarilar  pano == FPano  merkez == FMerkezOzet  geciken == FGecikenler.vekalet IN
  /\ merkez.adet <= Cardinality(FGeciken("tr"))
  /\ merkez.toplam <= FTop(FGeciken("tr"), [c \in FDosya |-> FTaksitKalan(c)])
  /\ pano.geciken = Cardinality(FVadeUyarilari) + Cardinality(FIcraGeciken)
  /\ pano.kasaOnay = Cardinality(FOnayUyarilari)
  /\ \A c \in FDosya, A \in {{1}, Ay} :
       A = Ay \/ (\A d \in FDolu(fKasa) : fKasa[d].ay = FKasaEkonomik(d)) =>
         {k \in FKasaListe(c, A) : fKasa[k].onay = "ONAYLI"} = {k \in FKasaSatirlari(A) : fKasa[k].dosya = c}
  /\ \A k \in FDolu(fKasa) : fKasa[k].silindi \/ (k \in FKasaSatirlari(Ay) <=> <<"ONAY_BEKLEYEN_KASA", k>> \notin uyari)
  /\ \A c \in FDosya :
    LET o == FDosyaOzet(c, Ay)  p == FPaket(c) IN
    /\ p.ozet.odenen = o.tahsil /\ p.ozet.kalan = o.alacak
    /\ p.durum = "GECIKTI" <=> c \in geciken
    /\ fDosya[c].ucret = "AKTIF" => FSilEtki(c) = FOdenenler(c)
    /\ \A g \in FGun : FEkstreTutar(c, g)
    /\ <<"NEGATIF_AVANS", c>> \in uyari <=> o.buro > 0
    /\ <<"KAPALI_DOSYA_AVANS", c>> \in uyari <=> c \in FKapali /\ o.avans > 0
    /\ <<"KAPALI_DOSYA_ALACAK", c>> \in uyari <=> c \in FKapali /\ o.alacak > 0
    /\ <<"VADESI_GECMIS_TAKSIT", c>> \in uyari <=> c \in geciken
    /\ c \in FMerkezGeciken => c \in FGeciken("tr")
    /\ c \in FGeciken("tr") \ FMerkezGeciken => \E q \in FDolu(fOdeme) : fOdeme[q].dosya = c /\ ~FAktif(q)

\* The carried-over balance, the period and its exchanges make the balance;
\* the months of the overview add up to it; a month's list holds the rows its
\* overview adds up; live income of a payment has an active payment; and the
\* statement shows no income that the client's page lacks but deleted ones, and
\* none that is later than its day.
\* A month without rows to approve has one net in overview and printed report.
FOfisTutar ==
  LET donem == {r \in FOfisSatirlari : FEkonomik(r) = 1}  s == FAnaSayfa  pano == FPano IN
  /\ s.devreden + s.net - FTuru(donem, "DOVIZ_CIKIS") + FTuru(donem, "DOVIZ_GIRIS") = s.bakiye
  /\ FOfisOzet({0}) + FOfisOzet({1}) = s.bakiye
  /\ pano.bakiye = s.bakiye /\ pano.ofisOnay = Cardinality(FOnaysiz({0})) + Cardinality(FOnaysiz({1}))
  /\ \A A \in {{1}, Ay} :
       LET satir == {r \in FOfisSatirlari : FEkonomik(r) \in A} IN
       /\ satir \subseteq FListe(A)
       /\ FOnaysiz(A) = {} => LET rapor == FOfisRapor(A) IN rapor.net = FNet(satir) /\ (A = {1} => rapor.bas = s.net)
  /\ \A r \in FDolu(fOfis) : fOfis[r].odeme # Yok => (fOfis[r].silindi <=> ~FAktif(fOfis[r].odeme))
  /\ \A g \in FGun :
       /\ \A r \in FEkstreGelir(g) : fOfis[r].odeme = Yok /\ (~fOfis[r].silindi => r \in FOfisSatirlari)
       /\ {r \in FEkstreGelir(g) : ~fOfis[r].silindi} =
            {r \in FDosyaDisiGelir : fOfis[r].onay = "ONAYLI" /\ fOfis[r].ay \in FKadar[g]}

\* The reports agree with each other about the same rows
\* (dosyaMaliOzet.service.ts:222, :560, maliKontrol.service.ts:356, :385,
\* muvekkilEkstre.service.ts:352, tahsilatMerkezi.service.ts:176,
\* ofisKasa.service.ts:710).
RaporTutarli == FMuvekkilTutar /\ FDosyaTutar /\ FOfisTutar
=============================================================================
