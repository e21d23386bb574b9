----------------------------- MODULE PaketTalep -----------------------------
(***************************************************************************)
(* Purchase requests for message packages and their approval by platform   *)
(* administrators (src/tahsilatBildirim/whatsappMesajPaketTalep.service.ts)*)
(* on top of the credit wallet.  Requests and administrators run in        *)
(* separate HTTP requests: every statement that reads a request before the *)
(* statement that writes it is a step of its own.                          *)
(***************************************************************************)
EXTENDS WhatsAppMesajKredi

CONSTANTS
  Yonetici,      \* concurrent administrator requests
  Buro,          \* concurrent tenant requests
  Paket,         \* packages of the catalogue
  PaketMiktar    \* messages in a package

ASSUME PaketVarsayimi == PaketMiktar \in Nat \ {0}

VARIABLES
  talep,     \* request id -> its package and status
  yonetici,  \* what an administrator's request has read
  buro       \* the package a tenant's request found no pending request for

talepVars == <<talep, yonetici, buro>>
vars == <<krediVars, talepVars>>

-----------------------------------------------------------------------------
(* Types *)

Durum == {"YOK", "BEKLIYOR", "ONAYLANDI", "REDDEDILDI"}

\* "onay": first read of the request; "tx": read again inside the
\* transaction; "kredi": no movement for this payment yet; "kredili": one was
\* found; "iyilestir": the retry after P2002; "red": rejecting.
YoneticiAdimi == {"onay", "tx", "kredi", "kredili", "iyilestir", "red"}

BosYonetici == [adim |-> "bosta", talep |-> Yok]

TalepTypeOK ==
  /\ talep \in [TalepId -> [durum : Durum, paket : Paket \cup {Yok}]]
  /\ yonetici \in [Yonetici ->
       [adim : {"bosta"} \cup YoneticiAdimi, talep : TalepId \cup {Yok}]]
  /\ buro \in [Buro -> Paket \cup {Yok}]

TypeOK == KrediTypeOK /\ TalepTypeOK

-----------------------------------------------------------------------------
(* A tenant asks for a package: createWhatsAppMesajPaketTalebi *)

\* The partial unique index on (tenant, package) where the status is BEKLIYOR.
BekleyenVar(p) == \E t \in TalepId : talep[t].durum = "BEKLIYOR" /\ talep[t].paket = p

TalepOku(b, p) ==
  /\ buro[b] = Yok
  /\ ~BekleyenVar(p)
  /\ buro' = [buro EXCEPT ![b] = p]
  /\ UNCHANGED <<talep, yonetici, krediVars>>

\* Insert under the index; P2002 answers with the request that won.
TalepYazMutant(b) ==   \* mutant: the partial unique index is missing
  /\ buro[b] # Yok
  /\ \E t \in TalepId : /\ talep[t].durum = "YOK"
                      /\ talep' = [talep EXCEPT ![t] = [durum |-> "BEKLIYOR",
                                                        paket |-> buro[b]]]
  /\ buro' = [buro EXCEPT ![b] = Yok]
  /\ UNCHANGED <<yonetici, krediVars>>
TalepYaz(b) ==
  /\ buro[b] # Yok
  /\ \/ /\ BekleyenVar(buro[b])
        /\ UNCHANGED talep
     \/ /\ ~BekleyenVar(buro[b])
        /\ \E t \in TalepId :
             /\ talep[t].durum = "YOK"
             /\ talep' = [talep EXCEPT ![t] = [durum |-> "BEKLIYOR",
                                               paket |-> buro[b]]]
  /\ buro' = [buro EXCEPT ![b] = Yok]
  /\ UNCHANGED <<yonetici, krediVars>>

-----------------------------------------------------------------------------
(* An administrator approves: adminOnaylaWhatsAppMesajPaketTalebi *)

Gec(a, adim, t) == yonetici' = [yonetici EXCEPT ![a] = [adim |-> adim, talep |-> t]]
Birak(a) == yonetici' = [yonetici EXCEPT ![a] = BosYonetici]
TalepDurumu(a) == talep[yonetici[a].talep].durum
DurumYaz(a, d) == talep' = [talep EXCEPT ![yonetici[a].talep].durum = d]

\* Read before the transaction; anything but BEKLIYOR is answered at once.
OnaylaOku(a, t) ==
  /\ yonetici[a] = BosYonetici
  /\ talep[t].durum = "BEKLIYOR"
  /\ Gec(a, "onay", t)
  /\ UNCHANGED <<talep, buro, krediVars>>

\* The same test again inside the transaction.
OnaylaTxOku(a) ==
  /\ yonetici[a].adim = "onay"
  /\ IF TalepDurumu(a) = "BEKLIYOR" THEN Gec(a, "tx", yonetici[a].talep) ELSE Birak(a)
  /\ UNCHANGED <<talep, buro, krediVars>>

\* addCreditInTx looks for a movement with paymentId = talep.id.
OnaylaDefterOku(a) ==
  /\ yonetici[a].adim = "tx"
  /\ LET t == yonetici[a].talep IN
       Gec(a, IF Kayitli("PAKET_SATIN_ALMA", t) THEN "kredili" ELSE "kredi", t)
  /\ UNCHANGED <<talep, buro, krediVars>>

\* Credit and status in one commit; P2002 rolls both back.
OnaylaYazMutant(a) ==   \* mutant: the credit commits, the status is left for later
  /\ yonetici[a].adim = "kredi"
  /\ IF Cakisir("PAKET_SATIN_ALMA", yonetici[a].talep)
     THEN UNCHANGED <<bakiye, defter>>
     ELSE HareketYaz("PAKET_SATIN_ALMA", yonetici[a].talep, PaketMiktar)
  /\ Gec(a, "iyilestir", yonetici[a].talep)
  /\ UNCHANGED <<talep, buro, cagri>>
OnaylaYaz(a) ==
  /\ yonetici[a].adim = "kredi"
  /\ IF Cakisir("PAKET_SATIN_ALMA", yonetici[a].talep)
     THEN /\ Gec(a, "iyilestir", yonetici[a].talep)
          /\ UNCHANGED <<talep, bakiye, defter>>
     ELSE /\ HareketYaz("PAKET_SATIN_ALMA", yonetici[a].talep, PaketMiktar)
          /\ DurumYaz(a, "ONAYLANDI")
          /\ Birak(a)
  /\ UNCHANGED <<buro, cagri>>

\* The credit was already there: only the status is written.
OnaylaKrediliYaz(a) ==
  /\ yonetici[a].adim = "kredili"
  /\ DurumYaz(a, "ONAYLANDI")
  /\ Birak(a)
  /\ UNCHANGED <<buro, krediVars>>

\* After P2002 the request is read once more and approved if it is still
\* pending.  It never is: whoever wrote the movement changed the status in the
\* same commit (BekleyenTalepKredisiz), so the read and the write are one step.
Iyilestir(a) ==
  /\ yonetici[a].adim = "iyilestir"
  /\ IF TalepDurumu(a) = "BEKLIYOR" THEN DurumYaz(a, "ONAYLANDI") ELSE UNCHANGED talep
  /\ Birak(a)
  /\ UNCHANGED <<buro, krediVars>>

-----------------------------------------------------------------------------
(* An administrator rejects: adminReddetWhatsAppMesajPaketTalebi *)

ReddetOku(a, t) ==
  /\ yonetici[a] = BosYonetici
  /\ talep[t].durum = "BEKLIYOR"
  /\ Gec(a, "red", t)
  /\ UNCHANGED <<talep, buro, krediVars>>

\* The update names only the id: the status it was read with is not a condition.
ReddetYazMutant(a) ==   \* mutant: a status no operation uses
  /\ yonetici[a].adim = "red"
  /\ DurumYaz(a, "IPTAL")
  /\ Birak(a)
  /\ UNCHANGED <<buro, krediVars>>
ReddetYaz(a) ==
  /\ yonetici[a].adim = "red"
  /\ DurumYaz(a, "REDDEDILDI")
  /\ Birak(a)
  /\ UNCHANGED <<buro, krediVars>>

-----------------------------------------------------------------------------

\* A request dies between two statements; an open transaction rolls back.
YoneticiDuser(a) ==
  /\ yonetici[a] # BosYonetici
  /\ Birak(a)
  /\ UNCHANGED <<talep, buro, krediVars>>

BuroDuser(b) ==
  /\ buro[b] # Yok
  /\ buro' = [buro EXCEPT ![b] = Yok]
  /\ UNCHANGED <<talep, yonetici, krediVars>>

Init ==
  /\ KrediInit
  /\ talep = [t \in TalepId |-> [durum |-> "YOK", paket |-> Yok]]
  /\ yonetici = [a \in Yonetici |-> BosYonetici]
  /\ buro = [b \in Buro |-> Yok]

YoneticiNext(a) ==
  \/ \E t \in TalepId : OnaylaOku(a, t) \/ ReddetOku(a, t)
  \/ OnaylaTxOku(a)
  \/ OnaylaDefterOku(a)
  \/ OnaylaYaz(a)
  \/ OnaylaKrediliYaz(a)
  \/ Iyilestir(a)
  \/ ReddetYaz(a)
  \/ YoneticiDuser(a)

BuroNext(b) ==
  \/ \E p \in Paket : TalepOku(b, p)
  \/ TalepYaz(b)
  \/ BuroDuser(b)

Next ==
  \/ KrediNext /\ UNCHANGED talepVars
  \/ \E a \in Yonetici : YoneticiNext(a)
  \/ \E b \in Buro : BuroNext(b)

Spec == Init /\ [][Next]_vars

-----------------------------------------------------------------------------
(* Properties *)

(* An approved request has its credit, also when two administrators        *)
(* approve it together and one of them is told P2002 (lines 312-355).      *)
OnayliTalepKredili ==
  \A t \in TalepId : talep[t].durum = "ONAYLANDI" => Kayitli("PAKET_SATIN_ALMA", t)

(* "kredi yazilip talep BEKLIYOR kalamaz" (line 212): a pending request    *)
(* was not credited yet, so approving it again cannot pay twice.           *)
BekleyenTalepKredisiz ==
  \A t \in TalepId : talep[t].durum = "BEKLIYOR" => ~Kayitli("PAKET_SATIN_ALMA", t)

\* Status and credit of a request agree.
TalepKredisi == OnayliTalepKredili /\ BekleyenTalepKredisiz

\* At most one pending request per package.
TekBekleyenTalep ==
  \A s, t \in TalepId :
    /\ talep[s].durum = "BEKLIYOR"
    /\ talep[t].durum = "BEKLIYOR"
    /\ talep[s].paket = talep[t].paket
    => s = t

(* Status and credit of a request agree, though they are written by        *)
(* different statements and repaired by a third, and a package has at most *)
(* one pending request (line 128), also when two users of the office ask   *)
(* at the same moment.                                                     *)
TalepTutarli == TalepKredisi /\ TekBekleyenTalep

(* "Onaylanmis talep reddedilemez." (line 372): a request that was         *)
(* approved, and credited, is not shown as rejected afterwards.  The code  *)
(* tests the status it read and writes without it as a condition.          *)
OnaylananReddedilmez ==
  \A t \in TalepId : talep[t].durum = "REDDEDILDI" => ~Kayitli("PAKET_SATIN_ALMA", t)
=============================================================================
