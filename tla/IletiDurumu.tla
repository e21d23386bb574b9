---------------------------- MODULE IletiDurumu ----------------------------
(***************************************************************************)
(* The status of one reminder between those who write it (webhook.         *)
(* processor.ts, bildirimJobWhatsApp.service.ts, worker.service.ts): a     *)
(* worker sends it, a user sends it by hand through the Cloud API, opens   *)
(* it in WhatsApp or marks it sent, a payment cancels it, and Meta reports *)
(* on it, repeatedly and in any order.  All read the status first and      *)
(* write it by id; the answer of a send may be lost.  Credit, plans and    *)
(* lock expiry are in TahsilatBildirim.                                    *)
(***************************************************************************)
EXTENDS Ortak

CONSTANTS WIleti, WIstek   \* messages Meta may accept, requests: numbered

ASSUME IletiVarsayimi == WIleti \subseteq Nat /\ WIstek \subseteq Nat /\ Yok \notin WIleti \cup WIstek

WOlaylari == WIleti \X {"sent", "delivered", "read", "failed"}

VARIABLES
  wIs,      \* the job: [durum, mid, kilit]; mid: providerMessageId
  wKabul,   \* messages Meta accepted for it
  wOlay,    \* recorded events, with processedOk
  wIstek,
  wEn,      \* history: the highest of the finished states the job had since its last message
  wSasan    \* history: a stale write or send, or a lost answer

iletiVars == <<wIs, wKabul, wOlay, wIstek, wEn, wSasan>>

\* bildirimStatusRank.
WRank(d) == CASE d = "OKUNDU" -> 40 [] d = "TESLIM_EDILDI" -> 30 [] d = "GONDERILDI" -> 20 [] d = "BASARISIZ" -> 10
              [] OTHER -> 0
\* mapMetaStatusToBildirim.
WMeta(s) == CASE s = "sent" -> "GONDERILDI" [] s = "delivered" -> "TESLIM_EDILDI" [] s = "read" -> "OKUNDU"
              [] s = "failed" -> "BASARISIZ"
WBitmis == {"GONDERILDI", "TESLIM_EDILDI", "OKUNDU", "IPTAL_EDILDI"}   \* TERMINAL_DURUMLAR

\* Rows of a message.
WIsSatiri == [durum : WBitmis \cup {"PLANLANDI", "KUYRUKTA", "SIMULASYON_TAMAMLANDI", "BASARISIZ"},
  mid : WIleti \cup {Yok}, kilit : BOOLEAN]

IletiInit ==
  /\ wIs = [durum |-> "PLANLANDI", mid |-> Yok, kilit |-> FALSE] /\ wKabul = {} /\ wOlay = {}
  /\ wIstek = [a \in WIstek |-> Bos] /\ wEn = 0 /\ wSasan = FALSE

WGelir(a, k) == a \in Ilk({b \in WIstek : wIstek[b] = Bos}) /\ wIstek' = [wIstek EXCEPT ![a] = k]
WIlerlet(a, k) == wIstek' = [wIstek EXCEPT ![a] = k]
\* Request a writes the job and moves to k.
WYazilir(a, j, k) ==
  /\ wIs' = j /\ wIstek' = Bayatlat(wIstek, a, k)
  /\ wEn' = IF WRank(j.durum) < 20 THEN wEn
            ELSE IF j.mid # wIs.mid \/ WRank(j.durum) > wEn THEN WRank(j.durum) ELSE wEn

\* claimDueJobs.
WAl(a) ==
  /\ wIs.durum \in {"PLANLANDI", "KUYRUKTA"} /\ ~wIs.kilit /\ a \in Ilk({b \in WIstek : wIstek[b] = Bos})
  /\ WYazilir(a, [wIs EXCEPT !.durum = "KUYRUKTA", !.kilit = TRUE], [adim |-> "oku", bayat |-> FALSE])
  /\ UNCHANGED <<wKabul, wOlay, wSasan>>

\* processDueTahsilatJobs: a sent job is passed over, a cancelled one is not.
WIsciOku(a) ==
  /\ wIstek[a].adim = "oku"
  /\ IF wIs.durum \in {"SIMULASYON_TAMAMLANDI", "GONDERILDI", "TESLIM_EDILDI", "OKUNDU"}
     THEN WYazilir(a, [wIs EXCEPT !.kilit = FALSE], Bitti)
     ELSE WIlerlet(a, [wIstek[a] EXCEPT !.adim = "gonder"]) /\ UNCHANGED <<wIs, wEn>>
  /\ UNCHANGED <<wKabul, wOlay, wSasan>>

\* A request by hand reads the job; a finished one is passed over.
WElleOku(a, adim) ==
  /\ wIs.durum \notin WBitmis /\ WGelir(a, [adim |-> adim, bayat |-> FALSE])
  /\ UNCHANGED <<wIs, wKabul, wOlay, wEn, wSasan>>

\* openBildirimJobWhatsApp: the link to the text; the user sends it, or not.
WAcilir(a) == WElleOku(a, "ac")

\* markBildirimJobSent: not of a failed job.
WIsaretlenir(a) ==
  wIs.durum \in {"PLANLANDI", "KUYRUKTA", "SIMULASYON_TAMAMLANDI"} /\ WElleOku(a, "isaret")

\* provider.send: accepted, accepted with the answer lost (which counts as
\* refused), or refused.
WGonder(a) ==
  LET yaz(d, m) == [adim |-> "yaz", d |-> d, mid |-> m, bayat |-> wIstek[a].bayat] IN
  /\ wIstek[a].adim = "gonder"
  /\ \/ \E m \in Ilk(WIleti \ wKabul) :
          /\ wKabul' = wKabul \cup {m}
          /\ \/ WIlerlet(a, yaz("GONDERILDI", m))
                /\ wSasan' = (wSasan \/ wIstek[a].bayat \/ \E b \in WIstek : wIstek[b].adim = "yaz")
             \/ WIlerlet(a, yaz("BASARISIZ", wIs.mid)) /\ wSasan' = TRUE
     \/ WIlerlet(a, yaz("BASARISIZ", wIs.mid)) /\ UNCHANGED <<wKabul, wSasan>>
  /\ UNCHANGED <<wIs, wOlay, wEn>>

\* The outcome, by id.
WYaz(a) ==
  LET r == wIstek[a] IN
  /\ r.adim \in {"yaz", "ac", "isaret"}
  /\ WYazilir(a, [durum |-> CASE r.adim = "yaz" -> r.d [] r.adim = "ac" -> "SIMULASYON_TAMAMLANDI" [] OTHER -> "GONDERILDI",
                  mid |-> IF r.adim = "yaz" /\ r.d = "GONDERILDI" THEN r.mid ELSE wIs.mid, kilit |-> FALSE], Bitti)
  /\ wSasan' = (wSasan \/ r.bayat) /\ UNCHANGED <<wKabul, wOlay>>

\* A payment cancels a waiting job.
WIptal ==
  /\ wIs.durum \in {"PLANLANDI", "KUYRUKTA"}
  /\ wIs' = [wIs EXCEPT !.durum = "IPTAL_EDILDI", !.kilit = FALSE] /\ wIstek' = Bayatlat(wIstek, Yok, Bos)
  /\ UNCHANGED <<wKabul, wOlay, wEn, wSasan>>

WIlerlerMutant(d) == WRank(d) >= 20   \* mutant: the present state is not compared
\* canAdvanceBildirimStatus.
WIlerler(d) == WRank(d) > WRank(wIs.durum)

\* processWhatsAppWebhookPayload, one status of an accepted message: a known
\* event is passed over; the job is looked up by the message id.
WOlayOku(a, e) ==
  /\ e[1] \in wKabul /\ \A ok \in BOOLEAN : <<e, ok>> \notin wOlay
  /\ WGelir(a, [adim |-> IF wIs.mid = e[1] /\ WIlerler(WMeta(e[2])) THEN "olay" ELSE "kaydet",
                e |-> e, ok |-> wIs.mid = e[1], bayat |-> FALSE])
  /\ UNCHANGED <<wIs, wKabul, wOlay, wEn, wSasan>>

WOlayYaz(a) ==
  LET r == wIstek[a] IN
  /\ r.adim = "olay"
  /\ WYazilir(a, [wIs EXCEPT !.durum = WMeta(r.e[2])], [r EXCEPT !.adim = "kaydet"])
  /\ wSasan' = (wSasan \/ r.bayat) /\ UNCHANGED <<wKabul, wOlay>>

\* The event is recorded once, also when its job was not found.
WOlayKaydet(a) ==
  LET r == wIstek[a] IN
  /\ r.adim = "kaydet" /\ WIlerlet(a, Bitti)
  /\ wOlay' = IF \E ok \in BOOLEAN : <<r.e, ok>> \in wOlay THEN wOlay ELSE wOlay \cup {<<r.e, r.ok>>}
  /\ UNCHANGED <<wIs, wKabul, wEn, wSasan>>

\* Lost; after the send nobody knows of the message.
WDuser(a) ==
  /\ wIstek[a] \notin {Bos, Bitti} /\ WIlerlet(a, Bitti)
  /\ wSasan' = (wSasan \/ wIstek[a].adim = "yaz") /\ UNCHANGED <<wIs, wKabul, wOlay, wEn>>

IletiAdimi(a) ==
  \/ WAl(a) \/ WIsciOku(a) \/ WGonder(a) \/ WYaz(a) \/ WOlayYaz(a) \/ WOlayKaydet(a) \/ WDuser(a)
  \/ WElleOku(a, "gonder") \/ WAcilir(a) \/ WIsaretlenir(a)
  \/ \E e \in WOlaylari : WOlayOku(a, e)

IletiNext == WIptal \/ \E a \in WIstek : IletiAdimi(a)

IletiSpec == IletiInit /\ [][IletiNext]_iletiVars

-----------------------------------------------------------------------------
(* Properties *)

\* The type invariant of the status of a reminder.
IletiTypeOK ==
  /\ wIs \in WIsSatiri
  /\ wKabul \subseteq WIleti /\ wOlay \subseteq WOlaylari \X BOOLEAN
  /\ wEn \in {0, 20, 30, 40} /\ wSasan \in BOOLEAN

\* A finished status never goes back, whatever the order and number of
\* Meta's events, and no recorded event of the message in force is missing in
\* it; a second message, or one for a cancelled job, is accepted only when
\* senders overlapped or an answer was lost (webhook.processor.ts:30, :202,
\* bildirimJobWhatsApp.service.ts:153, graphClient.ts:187).
IletiTutarli ==
  ~wSasan =>
    /\ WRank(wIs.durum) >= wEn
    /\ \A e \in WOlaylari : <<e, TRUE>> \in wOlay /\ e[1] = wIs.mid => WRank(wIs.durum) >= WRank(WMeta(e[2]))
    /\ Cardinality(wKabul) <= 1
    /\ wIs.durum = "IPTAL_EDILDI" => wKabul = {} \/ \E a \in WIstek : wIstek[a].adim = "yaz"
=============================================================================
