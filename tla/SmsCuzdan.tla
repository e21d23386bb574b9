----------------------------- MODULE SmsCuzdan -----------------------------
(***************************************************************************)
(* SMS messages sent by hand and their credit (smsWallet.service.ts,       *)
(* manualSms.service.ts, smsReportWorker.service.ts, adminSmsBalance.      *)
(* service.ts).  Every booking reads the balance without a lock, looks for *)
(* its key in the ledger, writes the new balance as a number and adds the  *)
(* ledger row; only the key is unique.  A message reserves its credit      *)
(* before it is sent and consumes or releases it after its job is stored;  *)
(* a report run refunds what was not delivered.  A message costs one.      *)
(***************************************************************************)
EXTENDS Ortak, FiniteSetsExt

CONSTANTS
  SBakiye,    \* the first balance
  SMesaj,     \* idempotency keys of messages
  SYonetim,   \* idempotency keys of corrections by an administrator
  SDusum,     \* those that take credit away
  SHata,      \* error codes of delivery reports
  SIstek      \* requests and report runs, numbered

SmsDurum == {"GONDERILDI", "TESLIM_EDILDI", "BASARISIZ"}

ASSUME SmsVarsayimi == SBakiye \in Nat /\ SDusum \subseteq SYonetim /\ SIstek \subseteq Nat /\ Yok \notin SmsDurum

\* Ledger keys: a message's with and without a report code, a correction's.
SAnahtar == ({"rezerve", "tuketim", "iptal"} \X SMesaj \X {0}) \cup ({"iade"} \X SMesaj \X SHata)
            \cup ({"yonetim"} \X SYonetim \X {0})
SDelta(k) ==
  CASE k[1] = "rezerve" \/ (k[1] = "yonetim" /\ k[2] \in SDusum) -> -1
    [] k[1] = "tuketim" -> 0
    [] OTHER -> 1

VARIABLES
  smsBakiye, smsDefter,   \* SmsTenantBakiye, the keys of SmsKrediHareketi
  smsIs,            \* per message, the status of its job
  smsMesaj,         \* per message, how often the provider accepted it
  sIstek,
  sBayat,           \* history: a balance was written on a stale read
  sTekrar           \* history: messages sent or reported on by overlapping or lost calls

smsVars == <<smsBakiye, smsDefter, smsIs, smsMesaj, sIstek, sBayat, sTekrar>>

SmsInit ==
  /\ smsBakiye = SBakiye /\ smsDefter = {} /\ smsIs = [x \in SMesaj |-> Yok] /\ smsMesaj = [x \in SMesaj |-> 0]
  /\ sIstek = [a \in SIstek |-> Bos] /\ sBayat = FALSE /\ sTekrar = {}

SGelir(a, k) == a \in Ilk({b \in SIstek : sIstek[b] = Bos}) /\ sIstek' = [sIstek EXCEPT ![a] = k]
SIlerlet(a, adim) == sIstek' = [sIstek EXCEPT ![a] = IF adim = "son" THEN Bitti ELSE [@ EXCEPT !.adim = adim]]
\* A booking: key, where to go on, what was read.
SKayit(x, k, sonra) == [adim |-> "defter", x |-> x, k |-> k, sonra |-> sonra, b |-> 0, bayat |-> FALSE]

\* reserveSmsCredit, applyCreditLedger, adjustTenantSmsBalanceAdmin: reads.
SDefterOku(a) ==
  LET r == sIstek[a] IN
  /\ r.adim = "defter"
  /\ IF r.k \in smsDefter THEN SIlerlet(a, r.sonra)
     ELSE IF smsBakiye + SDelta(r.k) < 0 THEN sIstek' = [sIstek EXCEPT ![a] = Bitti]
     ELSE sIstek' = [sIstek EXCEPT ![a] = [r EXCEPT !.adim = "yaz", !.b = smsBakiye, !.bayat = FALSE]]
  /\ UNCHANGED <<smsBakiye, smsDefter, smsIs, smsMesaj, sBayat, sTekrar>>

\* ... and the write: a key booked meanwhile (P2002) rolls it back, which only
\* a reservation takes for done.
SDefterYaz(a) ==
  LET r == sIstek[a] IN
  /\ r.adim = "yaz"
  /\ IF r.k \in smsDefter
     THEN SIlerlet(a, IF r.k[1] = "rezerve" THEN r.sonra ELSE "son") /\ UNCHANGED <<smsBakiye, smsDefter, sBayat>>
     ELSE /\ smsBakiye' = r.b + SDelta(r.k) /\ smsDefter' = smsDefter \cup {r.k} /\ sBayat' = (sBayat \/ r.bayat)
          /\ sIstek' = [b \in SIstek |->
                IF b = a THEN IF r.sonra = "son" THEN Bitti ELSE [r EXCEPT !.adim = r.sonra]
                ELSE IF sIstek[b].adim = "yaz" THEN [sIstek[b] EXCEPT !.bayat = TRUE] ELSE sIstek[b]]
  /\ UNCHANGED <<smsIs, smsMesaj, sTekrar>>

\* sendManualSms.
SmsBasla(a, x) ==
  SGelir(a, SKayit(x, <<"rezerve", x, 0>>, "var")) /\ UNCHANGED <<smsBakiye, smsDefter, smsIs, smsMesaj, sBayat, sTekrar>>

\* adjustTenantSmsBalanceAdmin.
SmsYonet(a, y) ==
  SGelir(a, SKayit(Yok, <<"yonetim", y, 0>>, "son")) /\ UNCHANGED <<smsBakiye, smsDefter, smsIs, smsMesaj, sBayat, sTekrar>>

\* Overlapping calls of one message are on their way to the provider or back.
SYolda(a, x) == \E b \in SIstek \ {a} : sIstek[b].adim \in {"gonder", "is"} /\ sIstek[b].x = x

SVarOkuMutant(a) ==   \* mutant: a retry does not look for the job
  LET x == sIstek[a].x IN
  /\ sIstek[a].adim = "var" /\ SIlerlet(a, "gonder")
  /\ sTekrar' = IF SYolda(a, x) THEN sTekrar \cup {x} ELSE sTekrar
  /\ UNCHANGED <<smsBakiye, smsDefter, smsIs, smsMesaj, sBayat>>

\* A message with a job was answered before: DUPLICATE.
SVarOku(a) ==
  LET x == sIstek[a].x IN
  /\ sIstek[a].adim = "var" /\ SIlerlet(a, IF smsIs[x] # Yok THEN "son" ELSE "gonder")
  /\ sTekrar' = IF smsIs[x] = Yok /\ SYolda(a, x) THEN sTekrar \cup {x} ELSE sTekrar
  /\ UNCHANGED <<smsBakiye, smsDefter, smsIs, smsMesaj, sBayat>>

\* provider.send; the outcome decides how the job and the ledger go on.
SGonder(a, ok) ==
  LET x == sIstek[a].x IN
  /\ sIstek[a].adim = "gonder"
  /\ smsMesaj' = [smsMesaj EXCEPT ![x] = IF ok THEN @ + 1 ELSE @]
  /\ sIstek' = [sIstek EXCEPT ![a].adim = "is", ![a].k = <<IF ok THEN "tuketim" ELSE "iptal", x, 0>>]
  /\ UNCHANGED <<smsBakiye, smsDefter, smsIs, sBayat, sTekrar>>

\* The job is created; its key is unique.
SIsYaz(a) ==
  LET r == sIstek[a] IN
  /\ r.adim = "is"
  /\ IF smsIs[r.x] # Yok THEN SIlerlet(a, "son") /\ UNCHANGED smsIs
     ELSE /\ smsIs' = [smsIs EXCEPT ![r.x] = IF r.k[1] = "tuketim" THEN "GONDERILDI" ELSE "BASARISIZ"]
          /\ sIstek' = [sIstek EXCEPT ![a] = SKayit(r.x, r.k, "son")]
  /\ UNCHANGED <<smsBakiye, smsDefter, smsMesaj, sBayat, sTekrar>>

\* processSmsReportWorker: a sent job is asked about; overlapping runs may
\* get different answers.
SRaporOku(a, x) ==
  /\ smsIs[x] = "GONDERILDI"
  /\ \/ SGelir(a, [adim |-> "TESLIM_EDILDI", x |-> x])
     \/ \E h \in SHata : SGelir(a, SKayit(x, <<"iade", x, h>>, "BASARISIZ"))
  /\ sTekrar' = IF \E b \in SIstek \ {a} : sIstek[b] \notin {Bos, Bitti} /\ sIstek[b].x = x THEN sTekrar \cup {x} ELSE sTekrar
  /\ UNCHANGED <<smsBakiye, smsDefter, smsIs, smsMesaj, sBayat>>

SRaporYaz(a) ==
  /\ sIstek[a].adim \in {"TESLIM_EDILDI", "BASARISIZ"} /\ SIlerlet(a, "son")
  /\ smsIs' = [smsIs EXCEPT ![sIstek[a].x] = sIstek[a].adim]
  /\ UNCHANGED <<smsBakiye, smsDefter, smsMesaj, sBayat, sTekrar>>

\* Lost between two statements; after the send, or after a refund under one
\* code, the next call does not know.
SDuser(a) ==
  /\ sIstek[a] \notin {Bos, Bitti} /\ sIstek' = [sIstek EXCEPT ![a] = Bitti]
  /\ sTekrar' = IF sIstek[a].adim \in {"is", "BASARISIZ"} THEN sTekrar \cup {sIstek[a].x} ELSE sTekrar
  /\ UNCHANGED <<smsBakiye, smsDefter, smsIs, smsMesaj, sBayat>>

SmsAdimi(a) ==
  \/ SDefterOku(a) \/ SDefterYaz(a) \/ SVarOku(a) \/ SIsYaz(a) \/ SRaporYaz(a) \/ SDuser(a)
  \/ \E x \in SMesaj : SmsBasla(a, x) \/ SRaporOku(a, x)
  \/ \E y \in SYonetim : SmsYonet(a, y)
  \/ \E ok \in BOOLEAN : SGonder(a, ok)

SmsNext == \E a \in SIstek : SmsAdimi(a)

SmsSpec == SmsInit /\ [][SmsNext]_smsVars

-----------------------------------------------------------------------------
(* Properties *)

\* The type invariant of the SMS wallet.
SmsTypeOK ==
  /\ smsBakiye \in Nat /\ smsDefter \subseteq SAnahtar
  /\ smsIs \in [SMesaj -> SmsDurum \cup {Yok}] /\ smsMesaj \in [SMesaj -> Nat]
  /\ \A a \in SIstek : sIstek[a].adim \in
       {"bos", "bitti", "defter", "yaz", "var", "gonder", "is", "TESLIM_EDILDI", "BASARISIZ"}
  /\ sBayat \in BOOLEAN /\ sTekrar \subseteq SMesaj

\* The balance is the sum of the ledger unless bookings overlapped.  A
\* message that was sent is charged, once, and is sent, refunded or let off
\* a second time only when calls for it overlapped or one was lost after the
\* provider had answered (smsWallet.service.ts:32, manualSms.service.ts:130).
SmsTutarli ==
  /\ ~sBayat => smsBakiye = SBakiye + MapThenSumSet(SDelta, smsDefter)
  /\ \A x \in SMesaj :
       /\ smsMesaj[x] > 0 => <<"rezerve", x, 0>> \in smsDefter
       /\ x \notin sTekrar =>
            /\ smsMesaj[x] <= 1
            /\ Cardinality({k \in smsDefter : k[1] \in {"iptal", "iade"} /\ k[2] = x}) <= 1
            /\ <<"iptal", x, 0>> \in smsDefter => smsMesaj[x] = 0
=============================================================================
