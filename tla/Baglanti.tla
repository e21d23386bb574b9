------------------------------ MODULE Baglanti ------------------------------
(***************************************************************************)
(* The connection of an office to its WhatsApp number                      *)
(* (connection.service.ts, connection.importExisting.ts,                   *)
(* adminWhatsAppWebhookOverride.service.ts, wabaWebhookOverride.ts).       *)
(* A row holds the state, the number with its token (they are written and  *)
(* cleared together) and a flag that says the events of the number's       *)
(* account are sent to this server; Meta keeps the redirection itself, for *)
(* the account, which several numbers may share.  A request writes what it *)
(* read before its calls to Meta.  The planned jobs that a disconnection   *)
(* cancels are left out.                                                   *)
(***************************************************************************)
EXTENDS Ortak

CONSTANTS
  BBuro,     \* offices
  BNumara,   \* numbers
  BHesap,    \* per number, its WhatsApp business account
  BIstek     \* requests, numbered

ASSUME BaglantiVarsayimi == BIstek \subseteq Nat /\ Yok \notin BNumara

BHesaplar == {BHesap[n] : n \in BNumara}

VARIABLES
  bag,       \* per office, its row
  bYonlen,   \* at Meta: accounts whose events come to this server
  bIstek,
  bBosaltan, \* history: per account, the office whose request last took the redirection away
  bYarim,    \* history: offices with a request that stopped half way
  bSasan     \* history: offices where a request wrote after another had, see BYazar

bagVars == <<bag, bYonlen, bIstek, bBosaltan, bYarim, bSasan>>

BDurum == {"DISABLED", "BAGLANIYOR", "BAGLI", "HATA", "BAGLANTI_KESILDI"}
BagSatiri == [durum : BDurum, numara : BNumara \cup {Yok}, yon : BOOLEAN]

\* Offices that never connected, and offices with an imported number.
BagInit ==
  /\ bag \in [BBuro -> [durum : {"DISABLED"}, numara : {Yok}, yon : {FALSE}]
                         \cup [durum : {"BAGLI"}, numara : BNumara, yon : {FALSE}]]
  /\ \A b, c \in BBuro : b # c /\ bag[b].numara = bag[c].numara => bag[b].numara = Yok
  /\ bYonlen = {} /\ bIstek = [a \in BIstek |-> Bos]
  /\ bBosaltan = [h \in BHesaplar |-> Yok] /\ bYarim = {} /\ bSasan = {}

BGelir(a) == a \in Ilk({c \in BIstek : bIstek[c] = Bos})
BSuren(b) == {a \in BIstek : bIstek[a] \notin {Bos, Bitti} /\ bIstek[a].b = b}

\* Request a moves to k and writes the row of b, or Meta's redirection: what
\* the other requests of b have read is stale.
BIlerlet(a, k) == bIstek' = [bIstek EXCEPT ![a] = k]
BBayat(a, b, k) ==
  bIstek' = [c \in BIstek |-> IF c = a THEN k ELSE IF c \in BSuren(b) THEN [bIstek[c] EXCEPT !.bayat = TRUE] ELSE bIstek[c]]

BYazar(a, b, k, satir) ==
  /\ bag' = [bag EXCEPT ![b] = satir] /\ BBayat(a, b, k)
  /\ bSasan' = IF bIstek[a].bayat THEN bSasan \cup {b} ELSE bSasan

BBagli(b) == bag[b].durum = "BAGLI"
BBaskasinda(b, n) == \E c \in BBuro \ {b} : bag[c].numara = n

(* Connecting, by embedded signup or by an administrator. *)

\* connectEmbeddedSignup ("baglan") and importExistingMetaConnection ("aktar").
BBaglanOku(a) ==
  /\ BGelir(a)
  /\ \E b \in BBuro, n \in BNumara, tur \in {"baglan", "aktar"} :
       /\ ~BBaskasinda(b, n)
       /\ BIlerlet(a, [tur |-> tur, adim |-> IF tur = "baglan" THEN "isaretle" ELSE "kaydet",
                       b |-> b, n |-> n, yon |-> FALSE, bayat |-> FALSE])
  /\ UNCHANGED <<bag, bYonlen, bBosaltan, bYarim, bSasan>>

BIsaretle(a) ==
  LET r == bIstek[a] IN
  /\ r.adim = "isaretle"
  /\ BYazar(a, r.b, [r EXCEPT !.adim = "degis"], [bag[r.b] EXCEPT !.durum = "BAGLANIYOR"])
  /\ UNCHANGED <<bYonlen, bBosaltan, bYarim>>

\* The code is exchanged for a token, or is not.
BDegis(a) ==
  LET r == bIstek[a] IN
  /\ r.adim = "degis"
  /\ \/ BIlerlet(a, [r EXCEPT !.adim = "bosalt"]) /\ UNCHANGED <<bag, bSasan>>
     \/ BYazar(a, r.b, Bitti, [bag[r.b] EXCEPT !.durum = "HATA"])
  /\ UNCHANGED <<bYonlen, bBosaltan, bYarim>>

BTekMutant(b, n) == TRUE   \* mutant: no unique index on phoneNumberId
\* @@unique([phoneNumberId])
BTek(b, n) == ~BBaskasinda(b, n)

\* The final write.  A number taken meanwhile fails the request.
BBaglanKaydet(a) ==
  LET r == bIstek[a] IN
  /\ r.adim = "kaydet" /\ r.tur \in {"baglan", "aktar"}
  /\ IF BTek(r.b, r.n)
     THEN /\ bag' = [bag EXCEPT ![r.b] = [durum |-> "BAGLI", numara |-> r.n, yon |-> r.yon]]
          /\ BBayat(a, r.b, Bitti)
          /\ bSasan' = IF r.bayat THEN bSasan \cup {r.b} ELSE bSasan \ {r.b}
          /\ bYarim' = bYarim \ {r.b}
     ELSE /\ BIlerlet(a, Bitti) /\ bYarim' = bYarim \cup {r.b}
          /\ UNCHANGED <<bag, bSasan>>
  /\ UNCHANGED <<bYonlen, bBosaltan>>

(* Where Meta sends the events. *)

\* enableAdminWhatsAppWebhookOverride ("ac"), disableAdminWhatsAppWebhookOverride ("kapat").
BYonOku(a) ==
  /\ BGelir(a)
  /\ \E b \in BBuro, tur \in {"ac", "kapat"} :
       /\ BBagli(b) /\ bag[b].numara # Yok
       /\ BIlerlet(a, [tur |-> tur, adim |-> "bosalt", b |-> b, n |-> bag[b].numara, yon |-> FALSE, bayat |-> FALSE])
  /\ UNCHANGED <<bag, bYonlen, bBosaltan, bYarim, bSasan>>

\* A call to Meta failed: connecting goes on, the others give up, and what
\* they had changed at Meta stays so.
BMetaHatasi(a) ==
  LET r == bIstek[a] IN
  /\ IF r.tur = "baglan" THEN BIlerlet(a, [r EXCEPT !.adim = "kaydet"]) ELSE BIlerlet(a, Bitti)
  /\ bYarim' = IF r.tur = "baglan" \/ r.adim = "bosalt" THEN bYarim ELSE bYarim \cup {r.b}
  /\ UNCHANGED <<bag, bYonlen, bBosaltan, bSasan>>

\* An empty POST to subscribed_apps takes the redirection away ...
BBosalt(a) ==
  LET r == bIstek[a]   h == BHesap[r.n] IN
  /\ r.adim = "bosalt"
  /\ \/ /\ bYonlen' = bYonlen \ {h} /\ bBosaltan' = [bBosaltan EXCEPT ![h] = r.b]
        /\ BBayat(a, r.b, [r EXCEPT !.adim = IF r.tur = "kapat" THEN "kontrol" ELSE "yaz"])
        /\ UNCHANGED <<bag, bYarim, bSasan>>
     \/ BMetaHatasi(a)

\* ... a second one sets it ...
BYaz(a) ==
  LET r == bIstek[a] IN
  /\ r.adim = "yaz"
  /\ \/ /\ bYonlen' = bYonlen \cup {BHesap[r.n]}
        /\ BBayat(a, r.b, [r EXCEPT !.adim = "kontrol"])
        /\ UNCHANGED <<bag, bBosaltan, bYarim, bSasan>>
     \/ BMetaHatasi(a)

\* ... and a GET looks.
BKontrol(a) ==
  LET r == bIstek[a] IN
  /\ r.adim = "kontrol"
  /\ \/ /\ (BHesap[r.n] \in bYonlen) = (r.tur # "kapat")
        /\ BIlerlet(a, [r EXCEPT !.adim = "kaydet", !.yon = r.tur # "kapat"])
        /\ UNCHANGED <<bag, bYonlen, bBosaltan, bYarim, bSasan>>
     \/ BMetaHatasi(a)

BYonKaydet(a) ==
  LET r == bIstek[a] IN
  /\ r.adim = "kaydet" /\ r.tur \in {"ac", "kapat"}
  /\ BYazar(a, r.b, Bitti, [bag[r.b] EXCEPT !.yon = r.yon])
  /\ UNCHANGED <<bYonlen, bBosaltan, bYarim>>

(* Looking after a connection. *)

\* verifyConnection
BDogrulaOku(a) ==
  /\ BGelir(a)
  /\ \E b \in BBuro :
       /\ bag[b].numara # Yok
       /\ BIlerlet(a, [tur |-> "dogrula", adim |-> "sor", b |-> b, n |-> bag[b].numara, yon |-> FALSE, bayat |-> FALSE])
  /\ UNCHANGED <<bag, bYonlen, bBosaltan, bYarim, bSasan>>

BDogrula(a) ==
  LET r == bIstek[a] IN
  /\ r.adim = "sor"
  /\ \E d \in {"BAGLI", "HATA"} : BYazar(a, r.b, Bitti, [bag[r.b] EXCEPT !.durum = d])
  /\ UNCHANGED <<bYonlen, bBosaltan, bYarim>>

BKesilen(b) == [durum |-> "BAGLANTI_KESILDI", numara |-> Yok, yon |-> FALSE]

\* disconnectConnection: Meta is not told.
BKes(a) ==
  /\ BGelir(a)
  /\ \E b \in BBuro :
       /\ bag' = [bag EXCEPT ![b] = BKesilen(b)] /\ BBayat(a, b, Bitti)
       /\ bSasan' = bSasan \ {b} /\ bYarim' = bYarim \ {b}
  /\ UNCHANGED <<bYonlen, bBosaltan>>

\* The process dies, or the database is away.
BKaybol(a) ==
  /\ bIstek[a] \notin {Bos, Bitti} /\ BIlerlet(a, Bitti)
  /\ bYarim' = bYarim \cup {bIstek[a].b}
  /\ UNCHANGED <<bag, bYonlen, bBosaltan, bSasan>>

BagNext ==
  \E a \in BIstek :
    \/ BBaglanOku(a) \/ BIsaretle(a) \/ BDegis(a) \/ BBaglanKaydet(a)
    \/ BYonOku(a) \/ BBosalt(a) \/ BYaz(a) \/ BKontrol(a) \/ BYonKaydet(a)
    \/ BDogrulaOku(a) \/ BDogrula(a) \/ BKes(a) \/ BKaybol(a)

BagSpec == BagInit /\ [][BagNext]_bagVars

BAdimlar == {"isaretle", "degis", "bosalt", "yaz", "kontrol", "kaydet", "sor"}
BIstekKaydi ==
  [tur : {"baglan", "aktar", "ac", "kapat", "dogrula"}, adim : BAdimlar, b : BBuro, n : BNumara, yon : BOOLEAN, bayat : BOOLEAN]

\* Rows, requests and history keep their types.
BagTypeOK ==
  /\ bag \in [BBuro -> BagSatiri] /\ bYonlen \subseteq BHesaplar
  /\ bIstek \in [BIstek -> BIstekKaydi \cup {Bos, Bitti}]
  /\ bBosaltan \in [BHesaplar -> BBuro \cup {Yok}] /\ bYarim \subseteq BBuro /\ bSasan \subseteq BBuro

\* A connection that says it works has a number and a token, unless a request
\* wrote its verdict over a newer row; one that says it is being made has a
\* request at it, or that request stopped half way.
BDurumDogru(b) ==
  /\ BBagli(b) /\ bag[b].numara = Yok => b \in bSasan
  /\ bag[b].durum = "BAGLANIYOR" => b \in bYarim \cup bSasan \/ \E a \in BSuren(b) : bIstek[a].tur = "baglan"

\* An office that believes its events come here is right, unless a request of
\* its own stopped between Meta and the row, another of its requests wrote
\* meanwhile, or an office that shares the account took the redirection away.
BYonDogru(b) ==
  bag[b].yon => \/ b \in bSasan \cup bYarim \/ \E a \in BSuren(b) : bIstek[a].tur \in {"baglan", "ac", "kapat"}
                \/ bag[b].numara # Yok /\ (BHesap[bag[b].numara] \in bYonlen \/ bBosaltan[BHesap[bag[b].numara]] # b)

\* The rows of the offices agree with one another (a number belongs to one
\* office), with their requests and with Meta.
BaglantiTutarli ==
  /\ \A b, c \in BBuro : b # c /\ bag[b].numara = bag[c].numara => bag[b].numara = Yok
  /\ \A b \in BBuro : BDurumDogru(b) /\ BYonDogru(b)
=============================================================================
