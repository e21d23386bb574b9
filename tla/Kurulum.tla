------------------------------ MODULE Kurulum ------------------------------
(***************************************************************************)
(* New offices for the owner of one e-mail address.  An order of the shop  *)
(* creates an office with its owner (provisionTenantFromWoontegraWebsite,  *)
(* provisionTenantWithOwner); the platform creates one by hand the same    *)
(* way, without an order (adminCreateTenantWithOwner).  The order, the     *)
(* e-mail and a free user name are looked up one after the other before    *)
(* the transaction that writes both rows; of these only the order and the  *)
(* user name are unique.                                                   *)
(***************************************************************************)
EXTENDS Ortak, Sequences

CONSTANTS
  KSiparis,   \* orders that bring the e-mail, and
  KElden,     \* those that stand for an office created by hand
  KNo,        \* per order its customer number, Yok without one and by hand
  KAd,        \* user names
  KAdlar,     \* per order the user names to try, best first
  KIstek      \* deliveries, numbered as they arrive

\* An order tries names built from its customer number, or from its own number;
\* by hand the operator types one or it is derived from the e-mail, and -1, -2
\* ... are tried after it.  So any two orders may share names or not.
ASSUME KurulumVarsayimi ==
  /\ KElden \subseteq KSiparis /\ KAd \subseteq Nat \ {Yok} /\ KIstek \subseteq Nat
  /\ KAdlar \in [KSiparis -> Seq(KAd)]
  /\ \A o \in KElden : KNo[o] = Yok

VARIABLES
  ofis,        \* per order, the user name of the owner of the office it created
  kEpostali,   \* orders whose office has an owner with the e-mail
  onceki,      \* per order, the orders whose office is older
  kDolu,       \* user names of everyone else
  kuruluKredi, \* yearly credits booked: <<order, order of the office>>
  kIstek,      \* deliveries in flight
  yarisan      \* history: orders that got an office after the e-mail was taken
               \* behind their look-up

kurulumVars == <<ofis, kEpostali, onceki, kDolu, kuruluKredi, kIstek, yarisan>>
kBuroVars == <<ofis, kEpostali, onceki, yarisan>>

Kurulular == {o \in KSiparis : ofis[o] # Yok}
Alinan == kDolu \cup {ofis[o] : o \in Kurulular}

KurulumInit ==
  /\ ofis = [o \in KSiparis |-> Yok]
  /\ kEpostali = {} /\ kDolu = {} /\ kuruluKredi = {} /\ yarisan = {}
  /\ onceki = [o \in KSiparis |-> {}]
  /\ kIstek = [a \in KIstek |-> Bos]

KIlerlet(a, k) == kIstek' = [kIstek EXCEPT ![a] = k]

\* A delivery that moves on and writes nothing.
KGec(a, k) == KIlerlet(a, k) /\ UNCHANGED <<kBuroVars, kDolu, kuruluKredi>>

\* The yearly credit of order o is due for the office of p.
KrediAdimi(o, p) == [adim |-> "kredi", x |-> o, b |-> p]

\* The order has its office: answered as such, the credit is booked again.
KSiparisOku(a, o) ==
  /\ o \notin KElden
  /\ a \in Ilk({b \in KIstek : kIstek[b] = Bos})
  /\ KGec(a, IF o \in Kurulular THEN KrediAdimi(o, o) ELSE [adim |-> "eposta", x |-> o])

\* adminCreateTenantWithOwner: each creation is an office of its own.
KEldenBasla(a, o) ==
  /\ o \in KElden \ Kurulular /\ \A b \in KIstek : kIstek[b] \notin {Bos, Bitti} => kIstek[b].x # o
  /\ a \in Ilk({b \in KIstek : kIstek[b] = Bos})
  /\ KGec(a, [adim |-> "eposta", x |-> o])

\* The oldest office whose owner has the e-mail (findFirst by createdAt).
EnEski == {p \in kEpostali : onceki[p] \cap kEpostali = {}}

\* The office of p answers for order o: it is o's, or of the same customer.
Sahibi(o, p) == p = o \/ (KNo[o] # Yok /\ KNo[p] = KNo[o])

KEpostaOkuMutant(a) ==   \* mutant: only the order is looked up, not the e-mail
  /\ kIstek[a].adim = "eposta"
  /\ KGec(a, [adim |-> "ad", x |-> kIstek[a].x, goren |-> kEpostali])

\* resolveOwnerEmailConflict: the office that has the e-mail is answered as if
\* it were this order's, credit included, when it is the customer's; else, and
\* by hand always, the delivery is refused.
KEpostaOku(a) ==
  LET o == kIstek[a].x IN
  /\ kIstek[a].adim = "eposta"
  /\ \/ kEpostali = {} /\ KGec(a, [adim |-> "ad", x |-> o, goren |-> {}])
     \/ \E p \in EnEski :
          KGec(a, IF o \notin KElden /\ Sahibi(o, p) THEN KrediAdimi(o, p) ELSE Bitti)

KAdOkuMutant(a) ==   \* mutant: no error when every name is taken
  LET k == kIstek[a] IN
  /\ k.adim = "ad"
  /\ \E n \in {KAdlar[k.x][i] : i \in DOMAIN KAdlar[k.x]} \cup {Yok} :
       /\ n \notin Alinan
       /\ KGec(a, [adim |-> "kontrol", x |-> k.x, ad |-> n, goren |-> k.goren])

\* The i-th name of order o is its best free one.
IlkBos(o, i) == KAdlar[o][i] \notin Alinan /\ \A j \in 1 .. i - 1 : KAdlar[o][j] \in Alinan

\* resolveAvailableOwnerUsername, ensureUniqueOwnerUsername: the first free name
\* of the order's own list; without one the delivery fails.
KAdOku(a) ==
  LET k == kIstek[a] IN
  /\ k.adim = "ad"
  /\ \/ \E i \in DOMAIN KAdlar[k.x] :
          /\ IlkBos(k.x, i)
          /\ KGec(a, [adim |-> "kontrol", x |-> k.x, ad |-> KAdlar[k.x][i], goren |-> k.goren])
     \/ (\A i \in DOMAIN KAdlar[k.x] : KAdlar[k.x][i] \in Alinan) /\ KGec(a, Bitti)

\* assertUsernameAvailable: USERNAME_TAKEN ends the delivery.
KAdKontrol(a) ==
  /\ kIstek[a].adim = "kontrol"
  /\ KGec(a, IF kIstek[a].ad \in Alinan THEN Bitti ELSE [kIstek[a] EXCEPT !.adim = "kur"])

KurulumYaz(a) ==
  LET k == kIstek[a] IN
  /\ k.adim = "kur" /\ k.x \notin Kurulular /\ k.ad \notin Alinan
  /\ ofis' = [ofis EXCEPT ![k.x] = k.ad]
  /\ kEpostali' = kEpostali \cup {k.x}
  /\ onceki' = [onceki EXCEPT ![k.x] = Kurulular]
  /\ yarisan' = IF kEpostali \ k.goren # {} THEN yarisan \cup {k.x} ELSE yarisan
  /\ KIlerlet(a, KrediAdimi(k.x, k.x))
  /\ UNCHANGED <<kDolu, kuruluKredi>>

\* P2002, over the order, the user name, or the slug or number of an office of
\* someone else: answered with the office of the order, if it has one now.
KurulumCakisir(a) ==
  LET k == kIstek[a] IN
  /\ k.adim = "kur"
  /\ KGec(a, IF k.x \in Kurulular THEN KrediAdimi(k.x, k.x) ELSE Bitti)

\* tryGrantAnnualIncludedCreditsAfterLicensePeriod, with the order as period.
KKredi(a) ==
  /\ kIstek[a].adim = "kredi"
  /\ kuruluKredi' = kuruluKredi \cup {<<kIstek[a].x, kIstek[a].b>>} \/ UNCHANGED kuruluKredi
  /\ KIlerlet(a, Bitti)
  /\ UNCHANGED <<kBuroVars, kDolu>>

\* The process stops, or the delivery is refused for a user of the e-mail who
\* is not one of these owners.
KDuser(a) == kIstek[a] \notin {Bos, Bitti} /\ KGec(a, Bitti)

\* Another user is created with a name of the lists (createUserInTenant, other offices).
KBaskasi(n) ==
  /\ n \notin Alinan
  /\ kDolu' = kDolu \cup {n}
  /\ UNCHANGED <<kBuroVars, kuruluKredi, kIstek>>

\* An owner's e-mail is changed (updateUserInTenant, adminUpdateUser).
KEpostaBirak(o) ==
  /\ o \in kEpostali
  /\ kEpostali' = kEpostali \ {o}
  /\ UNCHANGED <<ofis, onceki, kDolu, kuruluKredi, kIstek, yarisan>>

KurulumAdimi(a) ==
  \/ \E o \in KSiparis : KSiparisOku(a, o) \/ KEldenBasla(a, o)
  \/ KEpostaOku(a) \/ KAdOku(a) \/ KAdKontrol(a) \/ KurulumYaz(a) \/ KurulumCakisir(a)
  \/ KKredi(a) \/ KDuser(a)

KurulumNext ==
  \/ \E a \in KIstek : KurulumAdimi(a)
  \/ \E n \in KAd : KBaskasi(n)
  \/ \E o \in KSiparis : KEpostaBirak(o)

KurulumSpec == KurulumInit /\ [][KurulumNext]_kurulumVars

-----------------------------------------------------------------------------
(* Properties *)

KIstekKaydi ==
  {Bos, Bitti} \cup [adim : {"eposta"}, x : KSiparis]
  \cup [adim : {"kredi"}, x : KSiparis, b : KSiparis]
  \cup [adim : {"ad"}, x : KSiparis, goren : SUBSET KSiparis]
  \cup [adim : {"kontrol", "kur"}, x : KSiparis, ad : KAd, goren : SUBSET KSiparis]

\* The type invariant of new offices.
KurulumTypeOK ==
  /\ ofis \in [KSiparis -> KAd \cup {Yok}]
  /\ kEpostali \subseteq KSiparis /\ onceki \in [KSiparis -> SUBSET KSiparis]
  /\ kDolu \subseteq KAd /\ kuruluKredi \subseteq KSiparis \X KSiparis /\ yarisan \subseteq KSiparis
  /\ kIstek \in [KIstek -> KIstekKaydi]

\* The owner of order o's office has the best name of its list: every better
\* one is somebody else's.
EnIyiAd(o) ==
  \E i \in DOMAIN KAdlar[o] :
    /\ ofis[o] = KAdlar[o][i]
    /\ \A j \in 1 .. i - 1 : KAdlar[o][j] \in kDolu \cup {ofis[p] : p \in Kurulular \ {o}}

\* However often the orders of an e-mail are delivered and whatever is created
\* by hand beside them: a second office with the e-mail comes only from a look-up
\* that the first one's write overtook; no two owners, nor an owner and another
\* user, have one name, and each has the best of its own list; and the credit of
\* an order is booked for its own office or for one of the same customer, never
\* for an office the e-mail alone leads to
\* (woontegraWebsiteProvision.service.ts:341-365).
TekBuro ==
  /\ \A o, p \in kEpostali : o # p => o \in yarisan \/ p \in yarisan
  /\ \A o \in Kurulular : ofis[o] \notin kDolu /\ \A p \in Kurulular : o # p => ofis[o] # ofis[p]
  /\ \A o \in Kurulular : EnIyiAd(o)
  /\ \A c \in kuruluKredi : c[2] \in Kurulular /\ Sahibi(c[1], c[2])
=============================================================================
