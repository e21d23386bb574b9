------------------------------- MODULE Sablon -------------------------------
(***************************************************************************)
(* Message templates of an office and their copies at Meta                 *)
(* (customTemplate.service.ts, templateLibrary.service.ts, syncTemplates   *)
(* of connection.service.ts).  A row has a name, unique in the office, and *)
(* an id.  An own template is a draft until it is submitted; a template of *)
(* the catalogue has a row once it is.  A submission marks the row, creates*)
(* the template at Meta and writes what came of it; a synchronisation      *)
(* writes Meta's list over the rows, and gives rows up that the list does  *)
(* not have.  Rows are written by id, after calls to Meta.                 *)
(***************************************************************************)
EXTENDS Ortak

CONSTANTS
  TAd,        \* names
  THazirAd,   \* the name of a template of the catalogue
  TMetin,     \* texts of own templates
  TNo,        \* ids of rows: 1 .. TNo
  TKimlik,    \* ids Meta gives: 1 .. TKimlik
  TIstek      \* requests, numbered

HazirMetin == 0   \* the text of the catalogue

TMetaDurum == {"BEKLIYOR", "ONAYLANDI", "REDDEDILDI"}
TDurum == TMetaDurum \cup {"TASLAK", "GONDERILIYOR"}
TNolar == 1..TNo
TKimlikler == 1..TKimlik

SablonSatiri ==
  [no : TNolar, durum : TDurum, ozel : BOOLEAN, metin : TMetin \cup {HazirMetin, Yok}, kimlik : TKimlikler \cup {Yok}]
TMetaSablonu == [kimlik : TKimlikler, metin : TMetin \cup {HazirMetin, Yok}, durum : TMetaDurum]

ASSUME SablonVarsayimi ==
  /\ THazirAd \in TAd /\ TAd \subseteq Nat /\ IsFiniteSet(TAd)
  /\ TMetin \subseteq Nat \ {0} /\ TIstek \subseteq Nat /\ TNo \in Nat \ {0} /\ TKimlik \in Nat \ {0}
  /\ Yok \notin Int \cup TDurum \cup SablonSatiri \cup TMetaSablonu

VARIABLES
  tSatir,    \* per name, its row, or Yok
  tMeta,     \* per name, what Meta has, or Yok
  tIstek,
  tSonNo,    \* the last id of a row
  tAcan,     \* per id Meta gave: whose submission asked for it (0: the catalogue's, -1: none); not given yet: Yok
  tAsili,    \* history: rows a submission that stopped half way has left marked
  tYarim,    \* history: rows (0: the catalogue's) with a submission whose outcome was never written
  tSasan     \* history: rows that a request wrote after another had, see TYaz

sablonVars == <<tSatir, tMeta, tIstek, tSonNo, tAcan, tAsili, tYarim, tSasan>>

\* A draft, and perhaps a template made with Meta's own tools under a name of TAd.
SablonInit ==
  \E ad \in TAd, m \in TMetin, n \in TAd \cup {Yok} :
    /\ tSatir = [x \in TAd |-> IF x = ad THEN [no |-> 1, durum |-> "TASLAK", ozel |-> TRUE, metin |-> m, kimlik |-> Yok] ELSE Yok]
    /\ tMeta = [x \in TAd |-> IF x = n THEN [kimlik |-> 1, metin |-> Yok, durum |-> "ONAYLANDI"] ELSE Yok]
    /\ tAcan = [k \in TKimlikler |-> IF k = 1 /\ n # Yok THEN -1 ELSE Yok]
    /\ tIstek = [a \in TIstek |-> Bos] /\ tSonNo = 1 /\ tAsili = {} /\ tYarim = {} /\ tSasan = {}

TVerilen == {k \in TKimlikler : tAcan[k] # Yok}   \* Meta gives no id twice

(* Meta (external). *)

TMetaKarar(n) ==
  /\ tMeta[n] # Yok
  /\ \/ tMeta[n].durum = "BEKLIYOR" /\ \E d \in {"ONAYLANDI", "REDDEDILDI"} : tMeta' = [tMeta EXCEPT ![n].durum = d]
     \/ tMeta' = [tMeta EXCEPT ![n] = Yok]
  /\ UNCHANGED <<tSatir, tIstek, tSonNo, tAcan, tAsili, tYarim, tSasan>>

(* What requests share. *)

TGelir(a) == a \in Ilk({b \in TIstek : tIstek[b] = Bos})
TSuren == {a \in TIstek : tIstek[a] \notin {Bos, Bitti}}
TAdi(no) == {n \in TAd : tSatir[n] # Yok /\ tSatir[n].no = no}

\* Request a moves to k; the others have read rows S before they changed.
TIlerlet(a, k, S) ==
  tIstek' = [b \in TIstek |-> IF b = a THEN k ELSE IF b \in TSuren THEN [tIstek[b] EXCEPT !.bayat = @ \cup S] ELSE tIstek[b]]

\* ... and writes rows S.
TYaz(a, k, S) == TIlerlet(a, k, S) /\ tSasan' = tSasan \cup (tIstek[a].bayat \cap S)

\* A statement of request a fails: a row with this id is gone.
TDus(a) == TIlerlet(a, Bitti, {}) /\ UNCHANGED <<tSatir, tSasan>>

TDegistir(no, satir) == [n \in TAd |-> IF n \in TAdi(no) THEN satir ELSE tSatir[n]]

(* Own templates. *)

\* createCustomTemplateDraft, with a text of the office.
TYeniTaslak(a, m) ==
  /\ TGelir(a) /\ tSonNo < TNo
  /\ \E n \in TAd :
       /\ tSatir[n] = Yok
       /\ tSatir' = [tSatir EXCEPT ![n] = [no |-> tSonNo + 1, durum |-> "TASLAK", ozel |-> TRUE, metin |-> m, kimlik |-> Yok]]
  /\ tSonNo' = tSonNo + 1 /\ TIlerlet(a, Bitti, {tSonNo + 1})
  /\ UNCHANGED <<tMeta, tAcan, tAsili, tYarim, tSasan>>
TTaslak(a) == \E m \in TMetin : TYeniTaslak(a, m)

\* duplicateTemplateAsDraft, duplicateLibraryTemplateAsDraft: under a free name.
TKopya(a) ==
  \/ TYeniTaslak(a, HazirMetin)
  \/ \E n \in TAd : tSatir[n] # Yok /\ tSatir[n].ozel /\ TYeniTaslak(a, tSatir[n].metin)

\* assertCustomDraftMutable
TDegisir(n) == tSatir[n] # Yok /\ tSatir[n].ozel /\ tSatir[n].durum = "TASLAK"

\* updateCustomTemplateDraft, deleteCustomTemplateDraft
TTaslakOku(a) ==
  /\ TGelir(a)
  /\ \E n \in TAd, is \in {"duzenle", "sil"} :
       TDegisir(n) /\ TIlerlet(a, [adim |-> is, no |-> tSatir[n].no, bayat |-> {}], {})
  /\ UNCHANGED <<tSatir, tMeta, tSonNo, tAcan, tAsili, tYarim, tSasan>>

TDuzenle(a) ==
  LET no == tIstek[a].no IN
  /\ tIstek[a].adim = "duzenle"
  /\ \/ \E n \in TAdi(no), yeni \in TAd, m \in TMetin :
          /\ yeni = n \/ tSatir[yeni] = Yok
          /\ tSatir' = [tSatir EXCEPT ![n] = Yok, ![yeni] = [tSatir[n] EXCEPT !.metin = m, !.ozel = TRUE]]
          /\ TYaz(a, Bitti, {no})
     \/ TAdi(no) = {} /\ TDus(a)
  /\ UNCHANGED <<tMeta, tSonNo, tAcan, tAsili, tYarim>>

TSil(a) ==
  LET no == tIstek[a].no IN
  /\ tIstek[a].adim = "sil"
  /\ tSatir' = TDegistir(no, Yok) /\ TYaz(a, Bitti, {no})
  /\ UNCHANGED <<tMeta, tSonNo, tAcan, tAsili, tYarim>>

(* Submissions.  Who asked for a template: a row, or the catalogue. *)

TSahip(r) == IF r.is = "ozel" THEN r.no ELSE 0

\* submitCustomTemplateToMeta: the draft is read; a template of that name in
\* Meta's list would end it, if the list came.
TGonderOku(a) ==
  /\ TGelir(a)
  /\ \E n \in TAd :
       /\ TDegisir(n)
       /\ TIlerlet(a, [adim |-> "isaretle", is |-> "ozel", no |-> tSatir[n].no, ad |-> n, metin |-> tSatir[n].metin,
                       onceki |-> "TASLAK", kimlik |-> Yok, durum |-> "BEKLIYOR", bayat |-> {}], {})
  /\ UNCHANGED <<tSatir, tMeta, tSonNo, tAcan, tAsili, tYarim, tSasan>>

\* findRemoteTemplate: by id, then by name.
TUzak(k, n) ==
  LET idli == {x \in TAd : tMeta[x] # Yok /\ tMeta[x].kimlik = k} IN
  IF idli # {} THEN {tMeta[x] : x \in idli} ELSE {tMeta[n]} \ {Yok}

\* submitLibraryTemplateToMeta: a template Meta has is only written down.
THazirOku(a) ==
  LET satir == tSatir[THazirAd]
      onceki == IF satir = Yok THEN Yok ELSE satir.durum
      kimlik == IF satir = Yok THEN Yok ELSE satir.kimlik
      r == [adim |-> IF satir = Yok THEN "olustur" ELSE "isaretle", is |-> "hazir",
            no |-> IF satir = Yok THEN Yok ELSE satir.no, ad |-> THazirAd, metin |-> HazirMetin,
            onceki |-> onceki, kimlik |-> kimlik, durum |-> "BEKLIYOR", bayat |-> {}] IN
  /\ TGelir(a)
  /\ onceki # "ONAYLANDI" /\ ~(onceki = "BEKLIYOR" /\ kimlik # Yok)
  /\ \/ TIlerlet(a, r, {})
     \/ \E u \in TUzak(kimlik, THazirAd) :
          TIlerlet(a, [r EXCEPT !.adim = "kaydet", !.kimlik = u.kimlik, !.durum = u.durum], {})
  /\ UNCHANGED <<tSatir, tMeta, tSonNo, tAcan, tAsili, tYarim, tSasan>>

TIsaretle(a) ==
  LET r == tIstek[a] IN
  /\ r.adim = "isaretle"
  /\ \/ \E n \in TAdi(r.no) :
          /\ tSatir' = [tSatir EXCEPT ![n].durum = "GONDERILIYOR"]
          /\ TYaz(a, [r EXCEPT !.adim = "olustur"], {r.no})
     \/ TAdi(r.no) = {} /\ TDus(a)
  /\ UNCHANGED <<tMeta, tSonNo, tAcan, tAsili, tYarim>>

TYazilan(d) == IF d = "ONAYLANDI" THEN d ELSE "BEKLIYOR"

\* createWabaMessageTemplate: a new template, whose answer may be lost; a name
\* that is taken, looked up in the list; or an error.
TOlustur(a) ==
  LET r == tIstek[a]
      geri == [r EXCEPT !.adim = "geri"]
      dokunulan == IF r.no = Yok THEN {0} ELSE {r.no, TSahip(r)} IN
  /\ r.adim = "olustur"
  /\ \/ /\ tMeta[r.ad] = Yok
        /\ \E k \in Ilk(TKimlikler \ TVerilen), d \in {"BEKLIYOR", "ONAYLANDI"} :
             /\ tMeta' = [tMeta EXCEPT ![r.ad] = [kimlik |-> k, metin |-> r.metin, durum |-> d]]
             /\ tAcan' = [tAcan EXCEPT ![k] = TSahip(r)]
             /\ \/ TIlerlet(a, [r EXCEPT !.adim = "kaydet", !.kimlik = k, !.durum = d], dokunulan) /\ UNCHANGED tYarim
                \/ TIlerlet(a, geri, dokunulan) /\ tYarim' = tYarim \cup {TSahip(r)}
     \/ /\ tMeta[r.ad] # Yok
        /\ \/ TIlerlet(a, [r EXCEPT !.adim = "kaydet", !.kimlik = tMeta[r.ad].kimlik, !.durum = TYazilan(tMeta[r.ad].durum)], {})
           \/ TIlerlet(a, geri, {})
        /\ UNCHANGED <<tMeta, tAcan, tYarim>>
     \/ TIlerlet(a, geri, {}) /\ UNCHANGED <<tMeta, tAcan, tYarim>>
  /\ UNCHANGED <<tSatir, tSonNo, tAsili, tSasan>>

\* The final write: an own row by its id, a row of the catalogue by its name,
\* which may not be the row that was read.
TOzelKaydet(a) ==
  LET r == tIstek[a] IN
  /\ r.adim = "kaydet" /\ r.is = "ozel"
  /\ \/ \E n \in TAdi(r.no) :
          /\ tSatir' = [tSatir EXCEPT ![n].durum = r.durum, ![n].kimlik = r.kimlik]
          /\ TYaz(a, Bitti, {r.no})
     \/ TAdi(r.no) = {} /\ TDus(a)
  /\ UNCHANGED <<tMeta, tSonNo, tAcan, tAsili, tYarim>>

THazirKaydet(a) ==
  LET r == tIstek[a]
      no == IF tSatir[r.ad] = Yok THEN tSonNo + 1 ELSE tSatir[r.ad].no IN
  /\ r.adim = "kaydet" /\ r.is = "hazir" /\ no \in TNolar
  /\ tSatir' = [tSatir EXCEPT ![r.ad] = [no |-> no, durum |-> r.durum, ozel |-> FALSE, metin |-> HazirMetin, kimlik |-> r.kimlik]]
  /\ tSonNo' = IF no > tSonNo THEN no ELSE tSonNo
  /\ TIlerlet(a, Bitti, {no})
  /\ tSasan' = tSasan \cup (IF r.bayat \cap {no, r.no} = {} THEN {} ELSE {no, r.no} \ {Yok})
  /\ UNCHANGED <<tMeta, tAcan, tAsili, tYarim>>

\* isLibraryGhostPending
THayaletBekleyen(durum, kimlik) == durum \in {"BEKLIYOR", "GONDERILIYOR"} /\ kimlik = Yok

\* rollbackToDraft, revertSubmitStatus.
TGeri(a) ==
  LET r == tIstek[a]
      geriDurum == IF r.is = "ozel" THEN "TASLAK" ELSE IF r.onceki = "GONDERILIYOR" THEN "REDDEDILDI" ELSE r.onceki IN
  /\ r.adim = "geri"
  /\ \/ r.is = "hazir" /\ r.no = Yok /\ TDus(a)
     \/ /\ r.is = "hazir" /\ r.no # Yok /\ THayaletBekleyen(r.onceki, r.kimlik)
        /\ tSatir' = TDegistir(r.no, Yok) /\ TYaz(a, Bitti, {r.no})
     \/ /\ r.no # Yok /\ ~(r.is = "hazir" /\ THayaletBekleyen(r.onceki, r.kimlik))
        /\ \/ \E n \in TAdi(r.no) :
                tSatir' = [tSatir EXCEPT ![n].durum = geriDurum] /\ TYaz(a, Bitti, {r.no})
           \/ TAdi(r.no) = {} /\ TDus(a)
  /\ UNCHANGED <<tMeta, tSonNo, tAcan, tAsili, tYarim>>

(* syncTemplates *)

\* The list may be cut off at its last page.
TEsleOku(a) ==
  /\ TGelir(a)
  /\ \E S \in SUBSET {n \in TAd : tMeta[n] # Yok}, tam \in BOOLEAN :
       /\ tam => \A n \in TAd : tMeta[n] # Yok => n \in S
       /\ TIlerlet(a, [adim |-> "esle", liste |-> [n \in S |-> [kimlik |-> tMeta[n].kimlik, durum |-> tMeta[n].durum]],
                       tam |-> tam, bayat |-> {}], {})
  /\ UNCHANGED <<tSatir, tMeta, tSonNo, tAcan, tAsili, tYarim, tSasan>>

\* The rows of the names in the list; a name without one gets one.
TEsle(a) ==
  LET r == tIstek[a]
      S == DOMAIN r.liste
      satirsiz == {n \in S : tSatir[n] = Yok}
      no(n) == IF tSatir[n] = Yok THEN tSonNo + Cardinality({x \in satirsiz : x <= n}) ELSE tSatir[n].no
      ozel(n) == tSatir[n] # Yok /\ tSatir[n].ozel
      metin(n) == IF n = THazirAd /\ ~ozel(n) THEN HazirMetin
                  ELSE IF tSatir[n] = Yok THEN Yok ELSE tSatir[n].metin IN
  /\ r.adim = "esle" /\ tSonNo + Cardinality(satirsiz) <= TNo
  /\ tSatir' = [n \in TAd |->
                  IF n \in S THEN [no |-> no(n), durum |-> r.liste[n].durum, ozel |-> ozel(n), metin |-> metin(n), kimlik |-> r.liste[n].kimlik]
                  ELSE tSatir[n]]
  /\ tSonNo' = tSonNo + Cardinality(satirsiz)
  /\ TYaz(a, IF r.tam THEN [r EXCEPT !.adim = "hayalet"] ELSE Bitti, {no(n) : n \in S})
  /\ tAsili' = tAsili \ {no(n) : n \in S} /\ UNCHANGED <<tMeta, tAcan, tYarim>>

THayaletMutant(r, n) == FALSE   \* mutant: rows that wait for nothing are left
\* A row under way that a whole list has neither by id nor by name.
THayalet(r, n) ==
  /\ tSatir[n] # Yok /\ tSatir[n].durum \in {"BEKLIYOR", "GONDERILIYOR"}
  /\ n \notin DOMAIN r.liste /\ \A x \in DOMAIN r.liste : r.liste[x].kimlik # tSatir[n].kimlik

\* Own templates become drafts again, rows of the catalogue go.
THayaletler(a) ==
  LET r == tIstek[a]
      bulunan == {n \in TAd : THayalet(r, n) /\ (tSatir[n].ozel \/ n = THazirAd)}
      nolar == {tSatir[n].no : n \in bulunan} IN
  /\ r.adim = "hayalet"
  /\ tSatir' = [n \in TAd |->
                  IF n \notin bulunan THEN tSatir[n]
                  ELSE IF tSatir[n].ozel THEN [tSatir[n] EXCEPT !.durum = "TASLAK", !.kimlik = Yok] ELSE Yok]
  /\ tAsili' = (IF r.bayat = {} THEN {} ELSE tAsili \ nolar) /\ TIlerlet(a, Bitti, nolar)
  /\ tSasan' = tSasan \cup (r.bayat \cap nolar) \cup (IF r.bayat \cap nolar # {} THEN {0} ELSE {})
  /\ UNCHANGED <<tMeta, tSonNo, tAcan, tYarim>>

\* The process dies, or the database is away.
TKaybol(a) ==
  LET r == tIstek[a] IN
  /\ a \in TSuren /\ TIlerlet(a, Bitti, {})
  /\ tAsili' = IF r.adim \in {"olustur", "kaydet", "geri"} THEN tAsili \cup ({r.no} \ {Yok}) ELSE tAsili
  /\ tYarim' = IF r.adim \in {"kaydet", "geri"} THEN tYarim \cup {TSahip(r)} ELSE tYarim
  /\ UNCHANGED <<tSatir, tMeta, tSonNo, tAcan, tSasan>>

SablonNext ==
  \/ \E n \in TAd : TMetaKarar(n)
  \/ \E a \in TIstek :
       \/ TTaslak(a) \/ TKopya(a) \/ TTaslakOku(a) \/ TDuzenle(a) \/ TSil(a)
       \/ TGonderOku(a) \/ THazirOku(a) \/ TIsaretle(a) \/ TOlustur(a)
       \/ TOzelKaydet(a) \/ THazirKaydet(a) \/ TGeri(a)
       \/ TEsleOku(a) \/ TEsle(a) \/ THayaletler(a) \/ TKaybol(a)

SablonSpec == SablonInit /\ [][SablonNext]_sablonVars

\* Rows, templates and history keep their types.
SablonTypeOK ==
  /\ tSatir \in [TAd -> SablonSatiri \cup {Yok}] /\ tSonNo \in 0..TNo
  /\ tMeta \in [TAd -> TMetaSablonu \cup {Yok}]
  /\ tAcan \in [TKimlikler -> -1..TNo \cup {Yok}] /\ tAsili \subseteq TNolar
  /\ tYarim \subseteq 0..TNo /\ tSasan \subseteq 0..TNo
  /\ \A a \in TSuren : tIstek[a].bayat \subseteq 0..TNo

TBelirsiz == tYarim \cup tSasan
TGonderen(no) == {a \in TSuren : tIstek[a].adim \in {"olustur", "kaydet", "geri"} /\ tIstek[a].no = no}

\* What the office sees of a template it submitted is what Meta has, and a
\* template Meta has is not a draft that may be edited.
TAyniMetin(n) ==
  \A m \in TAd :
    /\ tSatir[n] # Yok /\ tSatir[n].ozel /\ tMeta[m] # Yok /\ tAcan[tMeta[m].kimlik] = tSatir[n].no
    /\ tSatir[n].no \notin TBelirsiz
    => \/ TGonderen(tSatir[n].no) # {}
       \/ tSatir[n].durum # "TASLAK" /\ (tSatir[n].kimlik = tMeta[m].kimlik => n = m /\ tSatir[n].metin = tMeta[m].metin)

\* A row that is being submitted has a request at it, or one that stopped half
\* way and no whole synchronisation has run undisturbed since.
TGonderiliyor(n) ==
  tSatir[n] # Yok /\ tSatir[n].durum = "GONDERILIYOR" =>
    tSatir[n].no \in tAsili \cup tSasan \/ TGonderen(tSatir[n].no) # {}

\* A template of the catalogue that a submission made is on the row of its name.
THazirYazili ==
  tMeta[THazirAd] # Yok /\ tAcan[tMeta[THazirAd].kimlik] = 0 =>
    \/ TBelirsiz # {} \/ \E a \in TSuren : tIstek[a].adim = "kaydet" /\ tIstek[a].is = "hazir"
    \/ tSatir[THazirAd] # Yok /\ tSatir[THazirAd].kimlik = tMeta[THazirAd].kimlik

\* Rows and Meta agree, but for what overlapped or was cut short.
SablonTutarli == THazirYazili /\ \A n \in TAd : TAyniMetin(n) /\ TGonderiliyor(n)
=============================================================================
