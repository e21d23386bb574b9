----------------------------- MODULE GelenMesaj -----------------------------
(***************************************************************************)
(* Messages clients write to an office (webhook.processor.ts, webhook.     *)
(* routes.ts).  Meta delivers them in batches, some twice; every batch is  *)
(* answered with 200, also one whose handling throws, so Meta does not     *)
(* send it again.  A message is a row and an event of unique id, written   *)
(* one after the other: rows are written in a try, the event of a message  *)
(* for which no connection was found is not.                               *)
(***************************************************************************)
EXTENDS Ortak

CONSTANTS EMesaj, ETeslim   \* messages, deliveries

ASSUME GelenVarsayimi == Yok \notin EMesaj

VARIABLES
  eBagli,    \* the office has a connection for the number
  eSatir,    \* the messages with a row
  eOlay,     \* their events, or none
  eIstek,
  eYolsuz,   \* history: messages looked at without a connection
  eKesik,    \* history: messages whose delivery stopped, or that the database refused
  eVerilen   \* history: messages of some delivery

gelenVars == <<eBagli, eSatir, eOlay, eIstek, eYolsuz, eKesik, eVerilen>>

\* Requests: kalan are the messages still to look at, m the one in hand.
EIstekKaydi == [adim : {"baglanti", "sira", "satir", "olay", "yolsuz"}, kalan : SUBSET EMesaj,
                m : EMesaj \cup {Yok}, bagli : BOOLEAN]

GelenInit ==
  /\ eBagli = TRUE /\ eSatir = {} /\ eOlay = [m \in EMesaj |-> "YOK"]
  /\ eIstek = [t \in ETeslim |-> Bos] /\ eYolsuz = {} /\ eKesik = {} /\ eVerilen = {}

EGec(t, k) == eIstek' = [eIstek EXCEPT ![t] = k]
\* On to the next message.
ESonraki(t) == EGec(t, [eIstek[t] EXCEPT !.adim = "sira", !.m = Yok])

\* The office connects or disconnects.
EBaglan == eBagli' = ~eBagli /\ UNCHANGED <<eSatir, eOlay, eIstek, eYolsuz, eKesik, eVerilen>>

\* handlePost: a delivery of messages K, of which some may have come before.
EGelir(t, K) ==
  /\ eIstek[t] = Bos /\ K # {}
  /\ EGec(t, [adim |-> "baglanti", kalan |-> K, m |-> Yok, bagli |-> FALSE])
  /\ eVerilen' = eVerilen \cup K /\ UNCHANGED <<eBagli, eSatir, eOlay, eYolsuz, eKesik>>

\* The connection of the number, once for the whole delivery.
EBagliOku(t) ==
  /\ eIstek[t].adim = "baglanti"
  /\ EGec(t, [eIstek[t] EXCEPT !.adim = "sira", !.bagli = eBagli])
  /\ eYolsuz' = (IF eBagli THEN eYolsuz ELSE eYolsuz \cup eIstek[t].kalan)
  /\ UNCHANGED <<eBagli, eSatir, eOlay, eKesik, eVerilen>>

EOlayVar(m) == eOlay[m] # "YOK"

\* The next message: one with an event is passed over.
EOku(t, m) ==
  LET r == eIstek[t] IN
  /\ r.adim = "sira" /\ m \in r.kalan
  /\ EGec(t, [r EXCEPT !.kalan = r.kalan \ {m}, !.m = IF EOlayVar(m) THEN Yok ELSE m,
                       !.adim = IF EOlayVar(m) THEN "sira" ELSE IF r.bagli THEN "satir" ELSE "yolsuz"])
  /\ UNCHANGED <<eBagli, eSatir, eOlay, eYolsuz, eKesik, eVerilen>>

\* No connection: only the event.  If another delivery has made it meanwhile
\* the exception ends this one, and the messages after it are dropped.
EYolsuzYaz(t) ==
  LET r == eIstek[t] IN
  /\ r.adim = "yolsuz"
  /\ IF EOlayVar(r.m)
     THEN EGec(t, Bitti) /\ eKesik' = eKesik \cup r.kalan /\ UNCHANGED eOlay
     ELSE ESonraki(t) /\ eOlay' = [eOlay EXCEPT ![r.m] = "NO_ROUTE"] /\ UNCHANGED eKesik
  /\ UNCHANGED <<eBagli, eSatir, eYolsuz, eVerilen>>

\* The row, unless it is there; then the event.
ESatirYazMutant(t) ==   \* mutant: the event before the row
  LET r == eIstek[t] IN
  /\ r.adim = "satir" /\ EGec(t, [r EXCEPT !.adim = "olay"])
  /\ eOlay' = (IF EOlayVar(r.m) THEN eOlay ELSE [eOlay EXCEPT ![r.m] = "ALINDI"])
  /\ UNCHANGED <<eBagli, eSatir, eYolsuz, eKesik, eVerilen>>
ESatirYaz(t) ==
  LET r == eIstek[t] IN
  /\ r.adim = "satir" /\ EGec(t, [r EXCEPT !.adim = "olay"]) /\ eSatir' = eSatir \cup {r.m}
  /\ UNCHANGED <<eBagli, eOlay, eYolsuz, eKesik, eVerilen>>

EOlayYaz(t) ==
  LET r == eIstek[t] IN
  /\ r.adim = "olay" /\ ESonraki(t)
  /\ eOlay' = (IF EOlayVar(r.m) THEN eOlay ELSE [eOlay EXCEPT ![r.m] = "ALINDI"])
  /\ UNCHANGED <<eBagli, eSatir, eYolsuz, eKesik, eVerilen>>

\* The database refuses one of the two; the error is counted, and the next
\* message follows.
EHata(t) ==
  /\ eIstek[t].adim \in {"satir", "olay"} /\ ESonraki(t) /\ eKesik' = eKesik \cup {eIstek[t].m}
  /\ UNCHANGED <<eBagli, eSatir, eOlay, eYolsuz, eVerilen>>

\* All looked at.
EBiter(t) ==
  /\ eIstek[t].adim = "sira" /\ eIstek[t].kalan = {} /\ EGec(t, Bitti)
  /\ UNCHANGED <<eBagli, eSatir, eOlay, eYolsuz, eKesik, eVerilen>>

\* The process dies, or the database refuses a read.
EDuser(t) ==
  /\ eIstek[t] \notin {Bos, Bitti} /\ EGec(t, Bitti)
  /\ eKesik' = eKesik \cup eIstek[t].kalan \cup ({eIstek[t].m} \ {Yok})
  /\ UNCHANGED <<eBagli, eSatir, eOlay, eYolsuz, eVerilen>>

GelenAdimi(t) ==
  \/ \E K \in SUBSET EMesaj : EGelir(t, K)
  \/ EBagliOku(t) \/ EYolsuzYaz(t) \/ ESatirYaz(t) \/ EOlayYaz(t) \/ EHata(t) \/ EBiter(t) \/ EDuser(t)
  \/ \E m \in EMesaj : EOku(t, m)

GelenNext == EBaglan \/ \E t \in ETeslim : GelenAdimi(t)

GelenSpec == GelenInit /\ [][GelenNext]_gelenVars

-----------------------------------------------------------------------------
(* Properties *)

\* Request r still has m to record.
EElde(r, m) == r \notin {Bos, Bitti} /\ (m \in r.kalan \/ m = r.m)

\* The type invariant of incoming messages.
GelenTypeOK ==
  /\ eBagli \in BOOLEAN /\ eSatir \subseteq EMesaj /\ eOlay \in [EMesaj -> {"YOK", "ALINDI", "NO_ROUTE"}]
  /\ eIstek \in [ETeslim -> EIstekKaydi \cup {Bos, Bitti}]
  /\ eYolsuz \subseteq EMesaj /\ eKesik \subseteq EMesaj /\ eVerilen \subseteq EMesaj

\* A message recorded as received has its row; a row without such a record is
\* being written, was cut off, or lost to a delivery that found no connection;
\* and a message that is answered for and not kept was looked at without a
\* connection, or its delivery stopped (webhook.processor.ts:275, :282, :303,
\* webhook.routes.ts:114).
GelenTutarli ==
  /\ \A m \in EMesaj : eOlay[m] = "ALINDI" => m \in eSatir
  /\ \A m \in EMesaj : eOlay[m] = "NO_ROUTE" => m \in eYolsuz
  /\ \A m \in eSatir : eOlay[m] # "YOK" \/ m \in eKesik \/ \E t \in ETeslim : EElde(eIstek[t], m)
  /\ \A m \in eVerilen : m \in eSatir \cup eYolsuz \cup eKesik \/ \E t \in ETeslim : EElde(eIstek[t], m)
=============================================================================
