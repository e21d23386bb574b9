-------------------------------- MODULE Kur --------------------------------
(***************************************************************************)
(* Exchange rates of the central bank (lib/tcmbKur.service.ts,             *)
(* kurlar.routes.ts): the cache in memory, one flight per date, the live   *)
(* look after 16:35, the last good answer when the bank is out of reach -  *)
(* and the rate a payment keeps (lib/kurSnapshot.ts), which asks twice.    *)
(* A rate is named by the day of its bulletin, 0 being the one before the  *)
(* first day.  Time is in ticks of 15 minutes of which a day has a few.  A  *)
(* fetch ends within a tick (its timeouts), perhaps on the next day.       *)
(***************************************************************************)
EXTENDS Ortak, FiniteSetsExt

CONSTANTS
  QGun,      \* days, numbered from 1
  QBugun,    \* the first one that is lived through, from its last tick
  QSorulan,  \* days rates are asked for
  QIsGunu,   \* those that are not in a weekend
  QTtl,      \* ticks an answer is kept
  QKisaTtl,  \* ... when today's bulletin is not among it yet
  QSonSaat,  \* the last tick of a day; the first is 0
  QYayimSaat, \* the ticks in which a bulletin may be published
  QOgle,     \* the first one after 16:35
  QTur,      \* kinds of payments: of Turler below
  QKaynak,   \* sources of a rate a client may state
  QEnCok     \* bound: requests in all

\* A bulletin comes in the afternoon: what was kept at midnight has expired by then.
ASSUME KurVarsayimi ==
  /\ QGun \subseteq Nat \ {0} /\ QIsGunu \cup QSorulan \cup {QBugun} \subseteq QGun
  /\ {QTtl, QKisaTtl, QOgle, QEnCok, QSonSaat} \cup QYayimSaat \subseteq Nat
  /\ QKisaTtl > 0 /\ QTtl >= QKisaTtl /\ \A s \in QYayimSaat : s >= QTtl
  /\ Yok \notin Int

VARIABLES
  qAn,      \* the day and the tick
  qYayim,   \* the days whose bulletin has been published
  qYas,     \* history: ticks since the last one was published, up to a bound
  qOnbellek, \* memoryCache: per date asked for, the answer, or Yok
  qSon,     \* lastSuccessful: its bulletin, or Yok
  qUcus,    \* inflightByKey: per date, when the fetch began, or Yok
  qOgleBakildi, \* afternoonRefreshDoneForYmd
  qOgleKim, \* history: was it set by a good look for that very day?
  qZorlandi, \* lastForceRefreshAt: in this tick?
  qYanit,   \* history: the last answer
  qOdeme,   \* a payment whose rate is being looked for
  qSayac

kurVars == <<qAn, qYayim, qYas, qOnbellek, qSon, qUcus, qOgleBakildi, qOgleKim, qZorlandi, qYanit, qOdeme, qSayac>>

Gunler0 == QGun \cup {0}
QSaat == 0..QSonSaat

\* Rates that are no bulletin's: 1, the client's own, what came in, the applied one.
Bir == -1
Elle == -2
Kasadan == -3
Uygulanan == -4

QKayit(kur, kalan, ogleden, temiz) == [kur |-> kur, kalan |-> kalan, ogleden |-> ogleden, temiz |-> temiz]
Yanit(g, kur, bayat, temiz, onbellek, ogleden) ==
  [gun |-> g, kur |-> kur, bayat |-> bayat, temiz |-> temiz, onbellek |-> onbellek, ogleden |-> ogleden,
   an |-> qAn, gecikme |-> IF qAn.gun \in qYayim THEN qYas ELSE 0,
   baskasi |-> qOgleBakildi = qAn.gun /\ ~qOgleKim]

OgledenSonra(an) == an.gun \in QIsGunu /\ an.saat >= QOgle

\* Answers are looked at until a payment comes in.
QGor(yanit) == qYanit' = IF qOdeme.adim = "yok" THEN yanit ELSE Yok

(* The payment (kurSnapshot.ts).  Its kinds: *)
(*   TL       paid in TRY for a debt in TRY; DOVIZDEN_TL for one in USD      *)
(*   AYNI     paid in the debt's foreign currency; CAPRAZ in another one     *)
(*   TLDEN    paid in a foreign currency for a debt in TRY                   *)
Turler == {"TL", "DOVIZDEN_TL", "AYNI", "CAPRAZ", "TLDEN"}

\* needsFxMeta, and what the client has not sent of it
QMetaIster(o) == o.tur # "TL" /\ Yok \in {o.ref, o.tarih, o.kaynak}

\* The reference rate, its day and its source, from the answer to a pair.
QMetaYaz(o, kur, tarih, bayat) ==
  [o EXCEPT !.adim = "matrah", !.bayat = @ \/ bayat,
            !.ref = IF @ = Yok THEN kur ELSE @,
            !.tarih = IF @ = Yok THEN tarih ELSE @,
            !.kaynak = IF @ # Yok THEN @ ELSE IF kur = Yok THEN "MANUEL" ELSE "TCMB"]

\* A pair of one currency is answered with 1, without a look anywhere.
QMetaAyni(o) == QMetaYaz(o, Bir, o.gun, FALSE)

\* Paid in TRY, what came in is the base of the bonus; between TRY and another
\* currency the applied rate is.
QMatrahHazir(o) ==
  [o EXCEPT !.adim = "yazildi",
            !.matrah = IF o.tur = "TLDEN" THEN Uygulanan ELSE Kasadan]

\* Otherwise the bank's; when it gives none the reference rate, for one currency.
QMatrahYaz(o, kur, bayat) ==
  IF kur # Yok THEN [o EXCEPT !.adim = "yazildi", !.matrah = kur, !.bayat = @ \/ bayat,
                              !.tarih = IF @ = Yok THEN kur ELSE @]
  ELSE IF o.tur = "AYNI" /\ o.ref # Yok THEN [o EXCEPT !.adim = "yazildi", !.matrah = o.ref]
  ELSE [o EXCEPT !.adim = "red"]

\* The payment waits for the answer about its day.
QOdemeAlir(g, kur, bayat) ==
  IF qOdeme.adim \in {"meta_bekler", "matrah_bekler"} /\ qOdeme.gun = g
  THEN IF qOdeme.adim = "meta_bekler" THEN QMetaYaz(qOdeme, kur, kur, bayat) ELSE QMatrahYaz(qOdeme, kur, bayat)
  ELSE qOdeme

(* getTcmbRates. *)

\* needsAfternoonBulletinRefresh, of the cached answer or the last good one; it
\* also notes that today's bulletin is there.
QOgleSorulur(g) == g = qAn.gun /\ OgledenSonra(qAn) /\ qOgleBakildi # qAn.gun
QEldeki(g) == IF qOnbellek[g] # Yok THEN qOnbellek[g].kur ELSE qSon
QOgleGerekMutant(g) == FALSE   \* mutant: no look after 16:35
QOgleGerek(g) == QOgleSorulur(g) /\ QEldeki(g) # qAn.gun

QGecerli(g) == qOnbellek[g] # Yok /\ qOnbellek[g].kalan > 0
QCanli(g, zorla) == zorla \/ QOgleGerek(g) \/ ~QGecerli(g)

\* A request for day g: answered from the cache, with the flight that is under
\* way, or with one of its own.  `zorla': a forced one that is not held back by
\* the 10 seconds after another.
QSor(g, zorla) ==
  /\ qSayac < QEnCok /\ qSayac' = qSayac + 1
  /\ qZorlandi' = (qZorlandi \/ zorla)
  /\ IF ~zorla /\ QOgleSorulur(g) /\ QEldeki(g) = qAn.gun
     THEN qOgleBakildi' = qAn.gun /\ qOgleKim' = TRUE ELSE UNCHANGED <<qOgleBakildi, qOgleKim>>
  /\ IF QCanli(g, zorla)
     THEN /\ qUcus' = IF qUcus[g] = Yok THEN [qUcus EXCEPT ![g] = [an |-> qAn, yayim |-> qYayim]] ELSE qUcus
          /\ UNCHANGED qYanit
     ELSE /\ QGor(Yanit(g, qOnbellek[g].kur, FALSE, qOnbellek[g].temiz, TRUE, qOnbellek[g].ogleden))
          /\ UNCHANGED qUcus
  /\ UNCHANGED <<qAn, qYayim, qYas, qOnbellek, qSon>>

QIste(g) ==
  /\ qOdeme.adim = "yok"   \* bound: a payment comes last
  /\ \E zorla \in BOOLEAN : QSor(g, zorla)
  /\ UNCHANGED qOdeme

\* fetchTcmbRatesUncached: back from the day asked for, until a bulletin is read;
\* for today the page that always has the latest.  `hata': the days whose page
\* could not be read.  Then the note about 16:35, whichever day was asked for.
QUygun(g, u, Y, hata) == {c \in Gunler0 : c <= g /\ c \notin hata /\ (c \in Y \cup {0} \/ (c = g /\ g = u.an.gun))}
QBulten(g, u, Y, hata) ==
  LET c == Max(QUygun(g, u, Y, hata)) IN IF c = g /\ g = u.an.gun THEN Max(Y \cup {0}) ELSE c

QSakla(g, u, kur, hata) ==
  /\ qOnbellek' = [qOnbellek EXCEPT ![g] =
       QKayit(kur, IF g = u.an.gun /\ kur # g THEN QKisaTtl ELSE QTtl,
             OgledenSonra(u.an) /\ g = u.an.gun, hata = {})]
  /\ qSon' = kur

QOgleNot(g, u, kur, iyi) ==
  IF kur = u.an.gun \/ (kur # Yok /\ OgledenSonra(u.an))
  THEN /\ qOgleBakildi' = u.an.gun
       /\ qOgleKim' = ((qOgleKim /\ qOgleBakildi = u.an.gun) \/ (g = u.an.gun /\ iyi))
  ELSE UNCHANGED <<qOgleBakildi, qOgleKim>>

QVarir(g) ==
  /\ qUcus[g] # Yok
  /\ \E Y \in {qUcus[g].yayim, qYayim}, hata \in {{}, {g}, Gunler0} :
       LET u == qUcus[g]
           bulundu == QUygun(g, u, Y, hata) # {}
           kur == IF bulundu THEN QBulten(g, u, Y, hata) ELSE qSon
       IN /\ IF bulundu THEN QSakla(g, u, kur, hata) ELSE UNCHANGED <<qOnbellek, qSon>>
          /\ QOgleNot(g, u, kur, bulundu /\ (hata = {} \/ kur = g))
          /\ IF kur = Yok THEN UNCHANGED qYanit ELSE QGor(Yanit(g, kur, ~bulundu, hata = {}, FALSE, OgledenSonra(u.an)))
          /\ qOdeme' = QOdemeAlir(g, kur, ~bulundu)
  /\ qUcus' = [qUcus EXCEPT ![g] = Yok]
  /\ UNCHANGED <<qAn, qYayim, qYas, qZorlandi, qSayac>>

\* A payment comes in, with what the client knows of the rate.
QOdeBasla ==
  /\ qOdeme.adim = "yok" /\ qYanit' = Yok
  /\ qSayac + 2 <= QEnCok   \* bound: room for its two questions
  /\ \E t \in QTur, g \in QSorulan, kaynak \in QKaynak, elle \in BOOLEAN :
       LET o == [adim |-> "matrah", tur |-> t, gun |-> g, bayat |-> FALSE, matrah |-> Yok,
                 kaynak |-> IF t = "TL" THEN Yok ELSE kaynak,
                 ref |-> IF t # "TL" /\ elle THEN Elle ELSE Yok,
                 tarih |-> IF t # "TL" /\ elle THEN g ELSE Yok]
       IN qOdeme' = IF ~QMetaIster(o) THEN o ELSE IF t = "AYNI" THEN QMetaAyni(o) ELSE [o EXCEPT !.adim = "meta"]
  /\ UNCHANGED <<qAn, qYayim, qYas, qOnbellek, qSon, qUcus, qOgleBakildi, qOgleKim, qZorlandi, qSayac>>

\* Its two questions to the bank: getTcmbPairRate.
QOdeSor ==
  /\ qOdeme.adim = "meta" \/ (qOdeme.adim = "matrah" /\ qOdeme.tur \in {"AYNI", "CAPRAZ"})
  /\ QSor(qOdeme.gun, FALSE)
  /\ LET bekler == [qOdeme EXCEPT !.adim = IF @ = "meta" THEN "meta_bekler" ELSE "matrah_bekler"]
         hit == qOnbellek[qOdeme.gun]
     IN qOdeme' = IF QCanli(qOdeme.gun, FALSE) THEN bekler
                  ELSE IF qOdeme.adim = "meta" THEN QMetaYaz(qOdeme, hit.kur, hit.kur, FALSE)
                       ELSE QMatrahYaz(qOdeme, hit.kur, FALSE)

QOdeYaz ==
  /\ qOdeme.adim = "matrah" /\ qOdeme.tur \notin {"AYNI", "CAPRAZ"}
  /\ qOdeme' = QMatrahHazir(qOdeme)
  /\ UNCHANGED <<qAn, qYayim, qYas, qOnbellek, qSon, qUcus, qOgleBakildi, qOgleKim, qZorlandi, qYanit, qSayac>>

(* The bank and the clock. *)

\* A bulletin is published during its day, usually before 16:35, or not at all.
QYayimla ==
  /\ qAn.gun \in QIsGunu \ qYayim /\ qAn.saat \in QYayimSaat
  /\ qYayim' = qYayim \cup {qAn.gun} /\ qYas' = 0
  /\ UNCHANGED <<qAn, qOnbellek, qSon, qUcus, qOgleBakildi, qOgleKim, qZorlandi, qYanit, qOdeme, qSayac>>

\* A tick later; a look of yesterday's afternoon is none of today's.
QEskit(ayniGun) ==
  qOnbellek' = [g \in DOMAIN qOnbellek |->
    IF qOnbellek[g] = Yok THEN Yok
    ELSE [qOnbellek[g] EXCEPT !.kalan = Max({0, @ - 1}), !.ogleden = @ /\ ayniGun]]

QIlerle ==
  /\ \A g \in QSorulan : qUcus[g] # Yok => qUcus[g].an = qAn
  /\ \/ /\ qAn.saat # QSonSaat /\ qAn' = [qAn EXCEPT !.saat = @ + 1] /\ QEskit(TRUE)
     \/ /\ qAn.saat = QSonSaat /\ qAn.gun + 1 \in QGun
        /\ qAn' = [gun |-> qAn.gun + 1, saat |-> 0] /\ QEskit(FALSE)
  /\ qYas' = Min({qYas + 1, QTtl + QKisaTtl}) /\ qZorlandi' = FALSE
  /\ UNCHANGED <<qYayim, qSon, qUcus, qOgleBakildi, qOgleKim, qYanit, qOdeme, qSayac>>

(* The form's computation (lib/tcmbYaklasikTry.ts, lib/paraBirimi.ts).  Money is *)
(* in cents; a rate is an integer over QOlcek, which stands for 10^8.            *)

QOlcek == 20

Fark(n) == IF n < 0 THEN -n ELSE n

\* ROUND_HALF_UP of the positive a / b
Yuvarla(a, b) == (2 * a + b) \div (2 * b)
Kura(kasa, mahsup) == Yuvarla(kasa * QOlcek, mahsup)
Kasaya(mahsup, kur) == Yuvarla(mahsup * kur, QOlcek)
Mahsuba(kasa, kur) == Yuvarla(kasa * QOlcek, kur)

\* Between two currencies: from the field edited last and one of the others.
Capraz(son, mahsup, kasa, kur) ==
  LET hata == [hata |-> TRUE, mahsup |-> 0, kasa |-> 0, kur |-> 0]
      yap(m, k, r) == [hata |-> FALSE, mahsup |-> m, kasa |-> k, kur |-> r]
  IN CASE son = "mahsup" -> IF 0 \in {mahsup, kur} THEN hata ELSE yap(mahsup, Kasaya(mahsup, kur), kur)
       [] son = "kasa" -> IF kasa = 0 \/ (kur = 0 /\ mahsup = 0) THEN hata
                          ELSE IF kur = 0 THEN yap(mahsup, kasa, Kura(kasa, mahsup)) ELSE yap(Mahsuba(kasa, kur), kasa, kur)
       [] son = "kur" -> IF kur = 0 \/ (mahsup = 0 /\ kasa = 0) THEN hata
                         ELSE IF mahsup > 0 THEN yap(mahsup, Kasaya(mahsup, kur), kur) ELSE yap(Mahsuba(kasa, kur), kasa, kur)

\* resolvePaymentAmounts: the rate that is kept is computed again; 0 is refused.
KayitliKur(c) == IF 0 \in {c.mahsup, c.kasa} THEN 0 ELSE Kura(c.kasa, c.mahsup)

(* Composition. *)

KurInit ==
  /\ qAn = [gun |-> QBugun, saat |-> QSonSaat] /\ qYayim = {g \in QGun : g < QBugun} /\ qYas = QTtl + QKisaTtl
  /\ qOnbellek = [g \in QSorulan |-> Yok] /\ qSon = Yok /\ qUcus = [g \in QSorulan |-> Yok]
  /\ qOgleBakildi = Yok /\ qOgleKim = FALSE /\ qZorlandi = FALSE
  /\ qYanit = Yok /\ qOdeme = [adim |-> "yok"] /\ qSayac = 0

KurNext ==
  \/ \E g \in QSorulan : QIste(g) \/ QVarir(g)
  \/ QOdeBasla \/ QOdeSor \/ QOdeYaz \/ QYayimla \/ QIlerle

KurSpec == KurInit /\ [][KurNext]_kurVars

KurTypeOK ==
  /\ qAn \in [gun : QGun, saat : QSaat] /\ qYayim \subseteq QGun /\ qYas \in 0..(QTtl + QKisaTtl)
  /\ \A g \in QSorulan :
       /\ qOnbellek[g] \in {Yok} \cup [kur : Gunler0, kalan : 0..QTtl, ogleden : BOOLEAN, temiz : BOOLEAN]
       /\ qUcus[g] \in {Yok} \cup [an : [gun : QGun, saat : QSaat], yayim : SUBSET QGun]
  /\ qSon \in Gunler0 \cup {Yok} /\ qOgleBakildi \in QGun \cup {Yok} /\ {qOgleKim, qZorlandi} \subseteq BOOLEAN
  /\ qOdeme.adim \in {"yok", "meta", "meta_bekler", "matrah", "matrah_bekler", "yazildi", "red"}
  /\ qSayac \in 0..QEnCok

\* A published bulletin reaches the screens: an answer for today that is not
\* marked stale, and for which every page could be read, has a bulletin that was
\* published longer ago than the short time an answer without it is kept
\* (CACHE_TTL_AWAITING_TODAY_MS, tcmbKur.service.ts:300); and one given from the
\* cache after 16:35 has it or was looked up after 16:35 (:104), unless the note
\* that today has been looked after was made by a request for another day or by
\* one that did not reach the page.
BultenGecikmez ==
  qYanit # Yok /\ qYanit.gun = qYanit.an.gun /\ ~qYanit.bayat /\ qYanit.temiz =>
    /\ qYanit.gecikme > QKisaTtl => qYanit.kur = qYanit.gun
    /\ qYanit.onbellek /\ OgledenSonra(qYanit.an) => qYanit.kur = qYanit.gun \/ qYanit.ogleden \/ qYanit.baskasi

\* A payment's bonus base is not computed with a bulletin of a later day, and its
\* reference rate not with one either, unless an answer was marked stale, which
\* resolvePaymentKurSnapshot does not look at (kurSnapshot.ts:84).
KurGelecektenDegil ==
  qOdeme.adim = "yazildi" /\ ~qOdeme.bayat =>
    \A d \in {qOdeme.matrah, qOdeme.ref, qOdeme.tarih} \cap Gunler0 : d <= qOdeme.gun

\* The form's three fields agree to half a unit of the one that was computed, and
\* the rate computed again from the two amounts is the one shown within what one
\* rounding of an amount explains.
CaprazTutar ==
  \A son \in {"mahsup", "kasa", "kur"}, m \in 0..8, k \in 0..8, r \in {0, 1, 7, 20, 33, 50} :
    LET c == Capraz(son, m, k, r) IN
      ~c.hata =>
        /\ 2 * Fark(c.kasa * QOlcek - c.mahsup * c.kur) <= Max({QOlcek, c.kur, c.mahsup})
        /\ KayitliKur(c) > 0 => 2 * c.mahsup * Fark(KayitliKur(c) - c.kur) <= Max({QOlcek, c.kur, c.mahsup}) + c.mahsup

\* The three together (lib/tcmbKur.service.ts, lib/kurSnapshot.ts, lib/tcmbYaklasikTry.ts).
KurTutarli == BultenGecikmez /\ KurGelecektenDegil /\ CaprazTutar
=============================================================================
