------------------------------ MODULE OfisKasa ------------------------------
(***************************************************************************)
(* The office cash book (ofisKasa.service.ts, ofisGuvenliSilCore.ts):      *)
(* income, expenses, currency exchanges of two legs, and corrections of    *)
(* approved rows.  A row is approved, rejected or deleted by id after its  *)
(* state was read; only the owner's safe delete holds a row lock, from the *)
(* update of the row until its corrections are deleted too.  Rows with a   *)
(* source belong to VekaletTaksit and IcraTahsilat; document numbers and   *)
(* amounts are left out.                                                   *)
(***************************************************************************)
EXTENDS Ortak

CONSTANTS KSatir, KasaIstek   \* rows and requests, numbered

\* Rows of the cash book, and with those that are gone.
KasaSatiri == [tip : {"GELIR", "GIDER", "DUZELTME", "DOVIZ_CIKIS", "DOVIZ_GIRIS"}, onay : {"ONAYSIZ", "ONAYLI", "REDDEDILDI"},
  silindi : BOOLEAN, bag : KSatir \cup {Yok}, gec : BOOLEAN]
KasaKaydi == [tip : {"GELIR", "GIDER", "DUZELTME", "DOVIZ_CIKIS", "DOVIZ_GIRIS"}, onay : {"ONAYSIZ", "ONAYLI", "REDDEDILDI", "YOK"},
  silindi : BOOLEAN, bag : KSatir \cup {Yok}, gec : BOOLEAN]

ASSUME KasaVarsayimi == KSatir \subseteq Nat /\ KasaIstek \subseteq Nat /\ Yok \notin KSatir \cup KasaKaydi

VARIABLES
  kasa,      \* per id, the row: [tip, onay, silindi, bag, gec]; onay is YOK once the row is
             \* gone; bag: the original, or the other leg; gec: history, a correction made
             \* after its original was deleted
  kasaIstek,
  kKayip,    \* history: approved rows that were rejected or deleted for good
  kSasan     \* history: rows written on a stale read, or whose deletion was overtaken

kasaVars == <<kasa, kasaIstek, kKayip, kSasan>>

KasaInit ==
  /\ kasa = [r \in KSatir |-> Yok] /\ kasaIstek = [a \in KasaIstek |-> Bos]
  /\ kKayip = {} /\ kSasan = {}

KBos == {r \in KSatir : kasa[r] = Yok}
KDolu == {r \in KSatir : kasa[r] # Yok /\ kasa[r].onay # "YOK"}
KYeni(tip, bag, gec) == [tip |-> tip, onay |-> "ONAYSIZ", silindi |-> FALSE, bag |-> bag, gec |-> gec]
KDuzeltmeleri(r) == {d \in KDolu : kasa[d].tip = "DUZELTME" /\ kasa[d].bag = r /\ ~kasa[d].silindi}
KKilitli(r) == \E a \in KasaIstek : kasaIstek[a].adim = "gsil" /\ kasaIstek[a].r = r

KGelir(a, k) == a \in Ilk({b \in KasaIstek : kasaIstek[b] = Bos}) /\ kasaIstek' = [kasaIstek EXCEPT ![a] = k]
KOku(a, adim, r) == KGelir(a, [adim |-> adim, r |-> r, bayat |-> FALSE]) /\ UNCHANGED <<kasa, kKayip, kSasan>>
\* Request a wrote row r, which others may have read.
KSonuc(a, r) ==
  /\ kasaIstek' = [b \in KasaIstek |-> IF b = a THEN Bitti
       ELSE IF kasaIstek[b] \in {Bos, Bitti} \/ kasaIstek[b].r # r THEN kasaIstek[b]
       ELSE [kasaIstek[b] EXCEPT !.bayat = TRUE]]
  /\ kSasan' = IF kasaIstek[a].bayat THEN kSasan \cup {r} ELSE kSasan
KOlmaz(a) == kasaIstek' = [kasaIstek EXCEPT ![a] = Bitti] /\ UNCHANGED <<kasa, kKayip, kSasan>>

\* createOfisKasaHareketi.
KEkle ==
  /\ \E r \in Ilk(KBos), tip \in {"GELIR", "GIDER"} : kasa' = [kasa EXCEPT ![r] = KYeni(tip, Yok, FALSE)]
  /\ UNCHANGED <<kasaIstek, kKayip, kSasan>>

\* createDovizDonusum: both legs in one transaction.
KDonustur ==
  /\ \E r \in Ilk(KBos) : \E s \in Ilk(KBos \ {r}) :
       kasa' = [kasa EXCEPT ![r] = KYeni("DOVIZ_CIKIS", s, FALSE), ![s] = KYeni("DOVIZ_GIRIS", r, FALSE)]
  /\ UNCHANGED <<kasaIstek, kKayip, kSasan>>

KOnaysizMutant(r) == ~kasa[r].silindi   \* mutant: rejected and deleted whatever their state
KOnaysiz(r) == ~kasa[r].silindi /\ kasa[r].onay = "ONAYSIZ"

\* approveOfisKasaHareketi, rejectOfisKasaHareketi.
KKararOku(a) == \E r \in KDolu, k \in {"ONAYLI", "REDDEDILDI"} : KOnaysiz(r) /\ KOku(a, k, r)

KKararYaz(a) ==
  LET r == kasaIstek[a].r  k == kasaIstek[a].adim IN
  /\ k \in {"ONAYLI", "REDDEDILDI"} /\ ~KKilitli(r)
  /\ \/ /\ r \in KDolu /\ kasa' = [kasa EXCEPT ![r].onay = k] /\ KSonuc(a, r)
        /\ kKayip' = IF k = "REDDEDILDI" /\ kasa[r].onay = "ONAYLI" THEN kKayip \cup {r} ELSE kKayip
     \/ r \notin KDolu /\ KOlmaz(a)

\* createOfisKasaDuzeltme: the original is approved and no correction itself;
\* whether it was deleted is not looked at.
KDuzeltmeOku(a) == \E r \in KDolu : kasa[r].onay = "ONAYLI" /\ kasa[r].tip # "DUZELTME" /\ KOku(a, "duzelt", r)

KDuzeltmeYaz(a) ==
  LET r == kasaIstek[a].r IN
  /\ kasaIstek[a].adim = "duzelt"
  /\ \/ /\ r \in KDolu
        /\ \E d \in Ilk(KBos) : kasa' = [kasa EXCEPT ![d] = KYeni("DUZELTME", r, kasa[r].silindi)]
        /\ KSonuc(a, r) /\ UNCHANGED kKayip
     \/ (r \notin KDolu \/ KBos = {}) /\ KOlmaz(a)

\* deleteOfisKasaHareketi, deleteDovizDonusum: no expenses; an exchange with
\* both legs.
KSilinecek(r) == IF kasa[r].tip \in {"DOVIZ_CIKIS", "DOVIZ_GIRIS"} THEN {r, kasa[r].bag} ELSE {r}

KSilOku(a) ==
  \E r \in KDolu : kasa[r].tip # "GIDER" /\ (\A s \in KSilinecek(r) : KOnaysiz(s)) /\ KOku(a, "sil", r)

KSilYaz(a) ==
  LET r == kasaIstek[a].r IN
  /\ kasaIstek[a].adim = "sil" /\ ~KKilitli(r)
  /\ \/ /\ r \in KDolu
        /\ LET S == KSilinecek(r) IN
           /\ kasa' = [s \in KSatir |-> IF s \in S THEN [kasa[s] EXCEPT !.onay = "YOK"]
                         ELSE IF s \in KDolu /\ kasa[s].bag \in S THEN [kasa[s] EXCEPT !.bag = Yok] ELSE kasa[s]]
           /\ kKayip' = kKayip \cup {s \in S : kasa[s].onay = "ONAYLI"}
           /\ kasaIstek' = [kasaIstek EXCEPT ![a] = Bitti]
           /\ kSasan' = IF kasaIstek[a].bayat \/ \E s \in S : kasa[s].onay # "ONAYSIZ" THEN kSasan \cup S ELSE kSasan
     \/ r \notin KDolu /\ KOlmaz(a)

\* guvenliOfisHareketSil, softDeleteOfisHareketAndDuzeltmeler: the row is
\* updated and its corrections read ...
KGuvenliSilOku(a) ==
  \E r \in KDolu : /\ kasa[r].tip \in {"GELIR", "GIDER"} /\ ~kasa[r].silindi /\ ~KKilitli(r)
                   /\ KGelir(a, [adim |-> "gsil", r |-> r, bayat |-> FALSE, ilgili |-> KDuzeltmeleri(r)])
                   /\ UNCHANGED <<kasa, kKayip, kSasan>>

\* ... and those are deleted in the same transaction.
KGuvenliSilYaz(a) ==
  LET r == kasaIstek[a].r  S == {r} \cup kasaIstek[a].ilgili IN
  /\ kasaIstek[a].adim = "gsil"
  /\ kasa' = [s \in KSatir |-> IF s \in S \cap KDolu THEN [kasa[s] EXCEPT !.silindi = TRUE] ELSE kasa[s]]
  /\ kasaIstek' = [kasaIstek EXCEPT ![a] = Bitti]
  /\ kSasan' = IF KDuzeltmeleri(r) \subseteq S THEN kSasan ELSE kSasan \cup {r}
  /\ UNCHANGED kKayip

KasaAdimi(a) ==
  \/ KKararOku(a) \/ KKararYaz(a) \/ KDuzeltmeOku(a) \/ KDuzeltmeYaz(a)
  \/ KSilOku(a) \/ KSilYaz(a) \/ KGuvenliSilOku(a) \/ KGuvenliSilYaz(a)

KasaNext == KEkle \/ KDonustur \/ \E a \in KasaIstek : KasaAdimi(a)

KasaSpec == KasaInit /\ [][KasaNext]_kasaVars

-----------------------------------------------------------------------------
(* Properties *)

\* The type invariant of the cash book.
KasaTypeOK ==
  /\ \A r \in KDolu : kasa[r] \in
       KasaSatiri
  /\ kKayip \subseteq KSatir /\ kSasan \subseteq KSatir

\* An approved row leaves the book for good, or is rejected, only when
\* requests on it overlapped; an exchange never keeps one leg; a correction
\* has an approved original, and does not outlive its safe delete unless it
\* was made during or after it (ofisKasa.service.ts:981, :1065, :1297,
\* ofisGuvenliSilCore.ts:122).
KasaTutarli ==
  /\ kKayip \subseteq kSasan
  /\ \A r \in KDolu :
       /\ kasa[r].tip \in {"DOVIZ_CIKIS", "DOVIZ_GIRIS"} =>
            kasa[r].bag \in KDolu /\ kasa[kasa[r].bag].bag = r
       /\ kasa[r].tip = "DUZELTME" =>
            IF kasa[r].bag = Yok THEN kSasan # {}
            ELSE LET o == kasa[kasa[r].bag] IN
                 /\ o.onay = "ONAYLI" \/ kasa[r].bag \in kSasan
                 /\ o.silindi /\ ~kasa[r].silindi => kasa[r].gec \/ kasa[r].bag \in kSasan
=============================================================================
