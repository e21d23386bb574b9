-------------------------- MODULE LisansHatirlatma --------------------------
(***************************************************************************)
(* Reminder mails before a licence ends (licenseExpiryReminder.service.ts), *)
(* composed with the extensions that move that end while a run is at work. *)
(* A run takes at most one reminder per office and claims its row by       *)
(* counting an attempt; the status is written after the mail, by id, so    *)
(* runs that overlap both pass the claim.                                  *)
(***************************************************************************)
EXTENDS Lisans

CONSTANTS
  Tur,        \* reminder types
  Esik,       \* per type, the days left from which it is due (30, 7, 1)
  MaxDeneme,  \* MAX_SEND_ATTEMPTS
  Kosu        \* runs of the reminder script, numbered

ASSUME HatirlatmaVarsayimi == Esik \in [Tur -> Nat] /\ MaxDeneme \in Nat \ {0} /\ Kosu \subseteq Nat

VARIABLES
  hatirlatma,   \* license_expiry_reminder: rows, unique by end date and type
  kosu,         \* the runs
  bozulan       \* history: rows of overlapping runs, lost mails, dead runs

hatirlatmaVars == <<lisansVars, hatirlatma, kosu, bozulan>>

HatirlatmaInit ==
  LisansInit /\ hatirlatma = {} /\ kosu = [a \in Kosu |-> Bos] /\ bozulan = {}

BosSatir(n) ==
  [no |-> n, durum |-> "PENDING", deneme |-> 0, kuru |-> 0, mail |-> 0]

\* The row of a number <<end date, type>>, as found or created.
Satir(n) ==
  IF \E r \in hatirlatma : r.no = n THEN CHOOSE r \in hatirlatma : r.no = n ELSE BosSatir(n)
SatirYaz(r) == hatirlatma' = {s \in hatirlatma : s.no # r.no} \cup {r}

KosuIlerlet(a, k) == kosu' = [kosu EXCEPT ![a] = k]

\* Runs that have claimed the row and not written its status.
Isleyenler(n) ==
  {a \in Kosu : kosu[a].adim \in {"hatKontrol", "hatGonder", "hatYaz"}
                       /\ kosu[a].no = n}

HatUygun == ~buro.demo /\ buro.aktif

\* resolveDueReminderType: the nearest threshold, one per run.
SiradakiTur(kalan) ==
  {t \in Tur : kalan \in 0 .. Esik[t] /\ \A u \in Tur : kalan <= Esik[u] => Esik[t] <= Esik[u]}

\* processLicenseExpiryReminders, one office; without an owner or an address
\* the row is marked SKIPPED whatever it says.
HatOku(a, kuru) ==
  /\ a \in Ilk({b \in Kosu : kosu[b] = Bos})
  /\ HatUygun
  /\ \E t \in SiradakiTur(buro.bitis - gun) :
       /\ Satir(<<buro.bitis, t>>).durum # "SENT"
       /\ \/ KosuIlerlet(a, [adim |-> "hatAl", no |-> <<buro.bitis, t>>, kuru |-> kuru])
          \/ KosuIlerlet(a, [adim |-> "hatAtla", no |-> <<buro.bitis, t>>])
  /\ UNCHANGED <<lisansVars, hatirlatma, bozulan>>

AlinirMutant(r) == r.durum \in {"PENDING", "FAILED", "SENT"} /\ r.deneme < MaxDeneme   \* mutant: SENT again
Alinir(r) == r.durum \in {"PENDING", "FAILED"} /\ r.deneme < MaxDeneme

\* ensureReminderRow and the claim, which counts the attempt.  What the row
\* said in between is asked again by the claim.
HatAl(a) ==
  LET k == kosu[a]  r == Satir(k.no) IN
  /\ k.adim = "hatAl"
  /\ IF Alinir(r)
     THEN /\ SatirYaz([r EXCEPT !.deneme = @ + 1])
          /\ bozulan' = IF Isleyenler(k.no) # {} THEN bozulan \cup {k.no} ELSE bozulan
          /\ KosuIlerlet(a, [adim |-> "hatKontrol", no |-> k.no, kuru |-> k.kuru])
     ELSE KosuIlerlet(a, Bitti) /\ UNCHANGED <<hatirlatma, bozulan>>
  /\ UNCHANGED lisansVars

\* The office is read again: an end that has moved skips the row.  A dry run
\* stops here, its attempt stays counted.
HatKontrol(a) ==
  LET k == kosu[a]  r == Satir(k.no) IN
  /\ k.adim = "hatKontrol"
  /\ IF buro.bitis # k.no[1] \/ ~HatUygun
     THEN KosuIlerlet(a, [adim |-> "hatAtla", no |-> k.no]) /\ UNCHANGED hatirlatma
     ELSE IF k.kuru
     THEN KosuIlerlet(a, Bitti) /\ SatirYaz([r EXCEPT !.kuru = @ + 1])
     ELSE KosuIlerlet(a, [adim |-> "hatGonder", no |-> k.no]) /\ UNCHANGED hatirlatma
  /\ UNCHANGED <<lisansVars, bozulan>>

\* The mail goes out, is refused, or goes out and the answer is lost.
HatGonder(a) ==
  LET n == kosu[a].no  r == Satir(n) IN
  /\ kosu[a].adim = "hatGonder"
  /\ \/ /\ SatirYaz([r EXCEPT !.mail = @ + 1])
        /\ KosuIlerlet(a, [adim |-> "hatYaz", no |-> n, durum |-> "SENT"])
        /\ UNCHANGED bozulan
     \/ /\ KosuIlerlet(a, [adim |-> "hatYaz", no |-> n, durum |-> "FAILED"])
        /\ UNCHANGED <<hatirlatma, bozulan>>
     \/ /\ SatirYaz([r EXCEPT !.mail = @ + 1])
        /\ KosuIlerlet(a, [adim |-> "hatYaz", no |-> n, durum |-> "FAILED"])
        /\ bozulan' = bozulan \cup {n}
  /\ UNCHANGED lisansVars

\* The status, by id.
HatYaz(a) ==
  LET k == kosu[a] IN
  /\ k.adim = "hatYaz"
  /\ SatirYaz([Satir(k.no) EXCEPT !.durum = k.durum])
  /\ KosuIlerlet(a, Bitti)
  /\ UNCHANGED <<lisansVars, bozulan>>

HatAtla(a) ==
  LET k == kosu[a] IN
  /\ k.adim = "hatAtla"
  /\ SatirYaz([Satir(k.no) EXCEPT !.durum = "SKIPPED"])
  /\ KosuIlerlet(a, Bitti)
  /\ UNCHANGED <<lisansVars, bozulan>>

\* The run dies.
HatDuser(a) ==
  /\ kosu[a].adim \in {"hatAl", "hatAtla", "hatKontrol", "hatGonder", "hatYaz"}
  /\ KosuIlerlet(a, Bitti)
  /\ bozulan' = bozulan \cup {kosu[a].no}
  /\ UNCHANGED <<lisansVars, hatirlatma>>

HatirlatmaAdimi(a) ==
  \/ \E kuru \in BOOLEAN : HatOku(a, kuru)
  \/ HatAl(a) \/ HatKontrol(a) \/ HatGonder(a) \/ HatYaz(a) \/ HatAtla(a) \/ HatDuser(a)

\* adminSetTenantActive.
BuroDurumu ==
  /\ buro' = [buro EXCEPT !.aktif = ~@]
  /\ UNCHANGED <<gun, donem, satinalma, krediDonem, lisansIstek, eksilen, aksayan,
                 hatirlatma, kosu, bozulan>>

HatirlatmaNext ==
  \/ BuroDurumu
  \/ LisansNext /\ UNCHANGED <<hatirlatma, kosu, bozulan>>
  \/ \E a \in Kosu : HatirlatmaAdimi(a)

HatirlatmaSpec == HatirlatmaInit /\ [][HatirlatmaNext]_hatirlatmaVars

-----------------------------------------------------------------------------
(* Properties *)

SatirNo == Nat \X Tur

KosuKaydi ==
  {Bos, Bitti}
  \cup [adim : {"hatAl", "hatKontrol"}, no : SatirNo, kuru : BOOLEAN]
  \cup [adim : {"hatGonder", "hatAtla"}, no : SatirNo]
  \cup [adim : {"hatYaz"}, no : SatirNo, durum : {"SENT", "FAILED"}]

\* The type invariant of the licence and its reminders.
HatirlatmaTypeOK ==
  /\ LisansTypeOK
  /\ kosu \in [Kosu -> KosuKaydi]
  /\ hatirlatma \subseteq [no : SatirNo, durum : {"PENDING", "SENT", "FAILED", "SKIPPED"},
                           deneme : 0 .. MaxDeneme, kuru : Nat, mail : Nat]
  /\ bozulan \subseteq SatirNo

\* One reminder, one mail, unless two runs had the row at once, an answer was
\* lost or a run died; what is marked SENT was sent; and a row that is still
\* waiting with its attempts used up lost every one of them to dry runs or to
\* an end date that moved (the claim counts, processOneReminder:96-103).
HatirlatmaHesabi ==
  \A r \in hatirlatma :
    /\ r.durum = "SENT" => r.mail > 0
    /\ r.no \notin bozulan =>
         /\ r.mail <= 1
         /\ r.mail = 1 /\ Isleyenler(r.no) = {} => r.durum \in {"SENT", "SKIPPED"}
         /\ r.durum = "PENDING" /\ Isleyenler(r.no) = {} =>
              \/ r.deneme = r.kuru
              \/ \E a \in Kosu : kosu[a].adim = "hatAtla" /\ kosu[a].no = r.no

\* The licence and its reminders together (extendTenantLicense.ts,
\* licensePurchase.service.ts, licenseExpiryReminder.service.ts).
LisanslarTutarli == LisansTutarli /\ HatirlatmaHesabi
=============================================================================
