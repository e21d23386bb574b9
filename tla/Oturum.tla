-------------------------------- MODULE Oturum --------------------------------
(***************************************************************************)
(* Sign-ins of one user: refresh tokens in families, their rotation, the   *)
(* operations that end sessions, password changes and reset codes          *)
(* (src/auth).  Nothing here is one transaction: rotation claims the old   *)
(* token in one statement and inserts the next in another, a password is   *)
(* written in one statement and the sessions are ended in another, and a   *)
(* sign-in compares the password long before it inserts its token.         *)
(*                                                                         *)
(* A user who is linked to a super admin gets a second, administrative     *)
(* session with each sign-in; its tokens rotate by the same protocol       *)
(* (adminRefreshSession.service.ts).                                       *)
(***************************************************************************)
EXTENDS Ortak

CONSTANTS
  Belirtec,      \* refresh tokens that can be issued (bounds the run)
  Aile,          \* families: one per sign-in
  AdminAile,     \* the families of administrative sessions
  Kod,           \* password reset codes (bounds the run)
  OturumIstek,   \* requests, numbered as they arrive
  MaxSifre       \* bound: password changes

ASSUME OturumVarsayimi ==
  /\ Belirtec \subseteq Nat /\ Aile \subseteq Nat /\ Kod \subseteq Nat
  /\ OturumIstek \subseteq Nat
  /\ AdminAile \subseteq Aile /\ Yok \notin Aile
  /\ MaxSifre \in Nat

VARIABLES
  hesap,        \* the user row: password version; active, as the office is;
                \* linked to a super admin
  belirtec,     \* refresh_session and admin_refresh_session
  kod,          \* password_reset_token
  oturumIstek,  \* requests in flight
  kacan         \* history: families a sign-out of all devices could not reach

oturumVars == <<hesap, belirtec, kod, oturumIstek, kacan>>

BosBelirtec == [durum |-> "yok", aile |-> Yok, sifre |-> 0]

\* Rows of a user, of refresh tokens and of reset codes.
KullaniciSatiri == [sifre : Nat, aktif : BOOLEAN, bagli : BOOLEAN]
BelirtecSatiri == [durum : {"yok", "gecerli", "iptal"},
  aile : Aile \cup {Yok}, sifre : Nat]
KodSatiri == [durum : {"yok", "bekliyor", "kullanildi", "silindi"}, kullanim : Nat]

OturumInit ==
  /\ hesap \in [sifre : {0}, aktif : {TRUE}, bagli : BOOLEAN]
  /\ belirtec = [b \in Belirtec |-> BosBelirtec]
  /\ kod = [k \in Kod |-> [durum |-> "yok", kullanim |-> 0]]
  /\ oturumIstek = [a \in OturumIstek |-> Bos]
  /\ kacan = {}

-----------------------------------------------------------------------------
(* Families *)

Uyeler(f) == {b \in Belirtec : belirtec[b].aile = f}
Gecerliler(f) == {b \in Uyeler(f) : belirtec[b].durum = "gecerli"}

\* Rotations that have taken the old token of f and not yet made the new one.
Yenileyenler(f) ==
  {a \in OturumIstek : oturumIstek[a].adim = "yeni" /\ oturumIstek[a].aile = f}

Basla(a, k) ==
  /\ a \in Ilk({c \in OturumIstek : oturumIstek[c] = Bos})
  /\ oturumIstek' = [oturumIstek EXCEPT ![a] = k]
Ilerlet(a, k) == oturumIstek' = [oturumIstek EXCEPT ![a] = k]

\* createRefreshSession, createAdminRefreshSession.
OturumEkle(f, s) ==
  \E b \in Ilk({c \in Belirtec : belirtec[c].durum = "yok"}) :
    belirtec' = [belirtec EXCEPT ![b] = [durum |-> "gecerli", aile |-> f, sifre |-> s]]

\* updateMany({ revokedAt: null, ... }, { revokedAt: now }).
IptalEt(S) ==
  belirtec' = [b \in Belirtec |->
                 IF b \in S /\ belirtec[b].durum = "gecerli"
                 THEN [belirtec[b] EXCEPT !.durum = "iptal"] ELSE belirtec[b]]

YeniAile(admin) == Ilk({f \in Aile : Uyeler(f) = {} /\ (f \in AdminAile) = admin})

-----------------------------------------------------------------------------
(* Signing in: POST /login *)

\* login: the user row is read, the password compared, the office checked.
GirisOku(a) ==
  /\ hesap.aktif
  /\ Basla(a, [adim |-> "giris", sifre |-> hesap.sifre])
  /\ UNCHANGED <<hesap, belirtec, kod, kacan>>

\* The session of the office.  A password changed since the comparison is
\* not noticed.
GirisYaz(a) ==
  /\ oturumIstek[a].adim = "giris"
  /\ \E f \in YeniAile(FALSE) :
       /\ OturumEkle(f, oturumIstek[a].sifre)
       /\ kacan' = IF oturumIstek[a].sifre # hesap.sifre THEN kacan \cup {f} ELSE kacan
  /\ Ilerlet(a, IF hesap.bagli THEN [adim |-> "girisAdmin"] ELSE Bitti)
  /\ UNCHANGED <<hesap, kod>>

\* tryCreateLinkedAdminSession: only for an active user; an error is logged
\* and the sign-in goes on without it.
GirisAdmin(a) ==
  /\ oturumIstek[a].adim = "girisAdmin"
  /\ \/ hesap.aktif /\ \E f \in YeniAile(TRUE) : OturumEkle(f, hesap.sifre)
     \/ UNCHANGED belirtec
  /\ Ilerlet(a, Bitti)
  /\ UNCHANGED <<hesap, kod, kacan>>

-----------------------------------------------------------------------------
(* Renewing: rotateRefreshSession, rotateAdminRefreshSession *)

\* The row and its user are read; a used token, an inactive user or office
\* end the family in the next statement.
YenileOku(a, b) ==
  /\ belirtec[b].durum # "yok"
  /\ Basla(a, IF belirtec[b].durum = "iptal" \/ ~hesap.aktif
              THEN [adim |-> "aileKapat", aile |-> belirtec[b].aile]
              ELSE [adim |-> "al", belirtec |-> b])
  /\ UNCHANGED <<hesap, belirtec, kod, kacan>>

\* Any token may have reached its expiry: it is revoked, its family is not.
YenileSuresiDolmus(a, b) ==
  /\ belirtec[b].durum = "gecerli"
  /\ Basla(a, Bitti)
  /\ IptalEt({b})
  /\ UNCHANGED <<hesap, kod, kacan>>

YenileAlMutant(a) ==   \* mutant: "revokedAt: null" is missing in the claim
  LET b == oturumIstek[a].belirtec IN
  /\ oturumIstek[a].adim = "al"
  /\ belirtec' = [belirtec EXCEPT ![b].durum = "iptal"]
  /\ Ilerlet(a, [adim |-> "yeni", aile |-> belirtec[b].aile, sifre |-> belirtec[b].sifre])
  /\ UNCHANGED <<hesap, kod, kacan>>

\* The claim: one statement revokes the token if nobody has.  Who loses ends
\* the family.
YenileAl(a) ==
  LET b == oturumIstek[a].belirtec IN
  /\ oturumIstek[a].adim = "al"
  /\ IptalEt({b})
  /\ Ilerlet(a, IF belirtec[b].durum = "gecerli"
                THEN [adim |-> "yeni", aile |-> belirtec[b].aile, sifre |-> belirtec[b].sifre]
                ELSE [adim |-> "aileKapat", aile |-> belirtec[b].aile])
  /\ UNCHANGED <<hesap, kod, kacan>>

YenileYaz(a) ==
  /\ oturumIstek[a].adim = "yeni"
  /\ OturumEkle(oturumIstek[a].aile, oturumIstek[a].sifre)
  /\ Ilerlet(a, Bitti)
  /\ UNCHANGED <<hesap, kod, kacan>>

\* revokeFamily: a rotation that is between its two statements goes on.
AileKapat(a) ==
  /\ oturumIstek[a].adim = "aileKapat"
  /\ IptalEt(Uyeler(oturumIstek[a].aile))
  /\ Ilerlet(a, Bitti)
  /\ UNCHANGED <<hesap, kod, kacan>>

-----------------------------------------------------------------------------
(* Signing out *)

\* POST /logout: the token of the cookie; the administrative sessions as well
\* when the token was still valid (its look-up is taken with the update).
Cikis(a, b) ==
  /\ belirtec[b].durum # "yok"
  /\ IptalEt({b})
  /\ Basla(a, IF hesap.bagli /\ belirtec[b].durum = "gecerli" /\ belirtec[b].aile \notin AdminAile
              THEN [adim |-> "adminIptal"] ELSE Bitti)
  /\ UNCHANGED <<hesap, kod, kacan>>

\* POST /logout-all, of an active user with an access token.
TumCikis(a) ==
  /\ hesap.aktif
  /\ Basla(a, [adim |-> "iptal", sonra |-> "admin"])
  /\ UNCHANGED <<hesap, belirtec, kod, kacan>>

\* revokeUserRefreshSessions, revokeTenantRefreshSessions: the last statement
\* of signing out everywhere, of a password change and of a deactivation.
TumIptalMutant(a) ==   \* mutant: only the newest session is ended
  /\ oturumIstek[a].adim = "iptal"
  /\ \E f \in Aile \ AdminAile : IptalEt(Uyeler(f))
  /\ kacan' = kacan \cup {f \in Aile \ AdminAile : Yenileyenler(f) # {}}
  /\ Ilerlet(a, CASE oturumIstek[a].sonra = "admin" /\ hesap.bagli -> [adim |-> "adminIptal"]
                  [] oturumIstek[a].sonra = "giris" -> [adim |-> "ilkGiris"]
                  [] OTHER -> Bitti)
  /\ UNCHANGED <<hesap, kod>>

TumIptal(a) ==
  LET buro == Aile \ AdminAile IN
  /\ oturumIstek[a].adim = "iptal"
  /\ IptalEt(UNION {Uyeler(f) : f \in buro})
  /\ kacan' = kacan \cup {f \in buro : Yenileyenler(f) # {}}
  /\ Ilerlet(a, CASE oturumIstek[a].sonra = "admin" /\ hesap.bagli -> [adim |-> "adminIptal"]
                  [] oturumIstek[a].sonra = "giris" -> [adim |-> "ilkGiris"]
                  [] OTHER -> Bitti)
  /\ UNCHANGED <<hesap, kod>>

\* revokeAdminRefreshSessions.
AdminIptal(a) ==
  /\ oturumIstek[a].adim = "adminIptal"
  /\ IptalEt(UNION {Uyeler(f) : f \in AdminAile})
  /\ Ilerlet(a, Bitti)
  /\ UNCHANGED <<hesap, kod, kacan>>

-----------------------------------------------------------------------------
(* Passwords and accounts *)

\* change-password, change-initial-password (which signs in again afterwards)
\* and the administrator's reset: the row is read, the hash takes a while.
SifreOku(a, sonra) ==
  /\ hesap.aktif \/ sonra = "bitti"
  /\ Basla(a, [adim |-> "sifre", sonra |-> sonra])
  /\ UNCHANGED <<hesap, belirtec, kod, kacan>>

SifreYaz(a) ==
  /\ oturumIstek[a].adim = "sifre"
  /\ hesap.sifre < MaxSifre
  /\ hesap' = [hesap EXCEPT !.sifre = @ + 1]
  /\ Ilerlet(a, [adim |-> "iptal", sonra |-> oturumIstek[a].sonra])
  /\ UNCHANGED <<belirtec, kod, kacan>>

\* After the initial password: the user is loaded again and gets a session.
IlkGiris(a) ==
  /\ oturumIstek[a].adim = "ilkGiris"
  /\ Ilerlet(a, IF hesap.aktif THEN [adim |-> "giris", sifre |-> hesap.sifre] ELSE Bitti)
  /\ UNCHANGED <<hesap, belirtec, kod, kacan>>

\* deactivateUserInTenant, adminUpdateUser, adminSetTenantActive: the flag,
\* then the sessions.  Switching an office on again ends no session.
HesapDurumu(a) ==
  /\ hesap' = [hesap EXCEPT !.aktif = ~@]
  /\ \/ Basla(a, [adim |-> "iptal", sonra |-> "bitti"])
     \/ ~hesap.aktif /\ Basla(a, Bitti)
  /\ UNCHANGED <<belirtec, kod, kacan>>

-----------------------------------------------------------------------------
(* Reset codes *)

\* requestPasswordReset, issueActivationToken: one transaction that deletes
\* the unused codes and creates one; two of them do not see each other's.
KodIste(a) ==
  /\ hesap.aktif
  /\ Basla(a, [adim |-> "kod", eski |-> {k \in Kod : kod[k].durum = "bekliyor"}])
  /\ UNCHANGED <<hesap, belirtec, kod, kacan>>

KodYaz(a) ==
  LET silinen == {k \in oturumIstek[a].eski : kod[k].durum = "bekliyor"} IN
  /\ oturumIstek[a].adim = "kod"
  /\ \E yeni \in Ilk({c \in Kod : kod[c].durum = "yok"}) :
       kod' = [k \in Kod |-> CASE k = yeni -> [kod[k] EXCEPT !.durum = "bekliyor"]
                               [] k \in silinen -> [kod[k] EXCEPT !.durum = "silindi"]
                               [] OTHER -> kod[k]]
  /\ Ilerlet(a, Bitti)
  /\ UNCHANGED <<hesap, belirtec, kacan>>

\* resetPasswordWithToken: looked up, hashed, then claimed and written in one
\* transaction.
SifirlaOku(a, k) ==
  /\ hesap.aktif
  /\ kod[k].durum = "bekliyor"
  /\ Basla(a, [adim |-> "sifirla", kod |-> k])
  /\ UNCHANGED <<hesap, belirtec, kod, kacan>>

KodGecerli(k) == kod[k].durum = "bekliyor"

SifirlaYaz(a) ==
  LET k == oturumIstek[a].kod IN
  /\ oturumIstek[a].adim = "sifirla"
  /\ KodGecerli(k)
  /\ hesap.sifre < MaxSifre
  /\ kod' = [kod EXCEPT ![k] = [durum |-> "kullanildi", kullanim |-> @.kullanim + 1]]
  /\ hesap' = [hesap EXCEPT !.sifre = @ + 1]
  /\ Ilerlet(a, [adim |-> "iptal", sonra |-> "bitti"])
  /\ UNCHANGED <<belirtec, kacan>>

\* The request is refused or its process dies.  One that dies before it could
\* end the sessions leaves them all open.
OturumDuser(a) ==
  /\ oturumIstek[a] \notin {Bos, Bitti}
  /\ Ilerlet(a, Bitti)
  /\ kacan' = IF oturumIstek[a].adim = "iptal"
              THEN kacan \cup {f \in Aile : Gecerliler(f) # {} \/ Yenileyenler(f) # {}}
              ELSE kacan
  /\ UNCHANGED <<hesap, belirtec, kod>>

-----------------------------------------------------------------------------
OturumAdimi(a) ==
  \/ GirisOku(a) \/ GirisYaz(a) \/ GirisAdmin(a)
  \/ \E b \in Belirtec : YenileOku(a, b) \/ YenileSuresiDolmus(a, b) \/ Cikis(a, b)
  \/ YenileAl(a) \/ YenileYaz(a) \/ AileKapat(a)
  \/ TumCikis(a) \/ TumIptal(a) \/ AdminIptal(a)
  \/ \E sonra \in {"bitti", "giris"} : SifreOku(a, sonra)
  \/ SifreYaz(a) \/ IlkGiris(a) \/ HesapDurumu(a)
  \/ KodIste(a) \/ KodYaz(a)
  \/ \E k \in Kod : SifirlaOku(a, k)
  \/ SifirlaYaz(a)
  \/ OturumDuser(a)

OturumNext == \E a \in OturumIstek : OturumAdimi(a)

OturumSpec == OturumInit /\ [][OturumNext]_oturumVars

-----------------------------------------------------------------------------
(* Properties *)

Sonra == {"bitti", "giris", "admin"}
OturumIstekKaydi ==
  {Bos, Bitti, [adim |-> "girisAdmin"], [adim |-> "adminIptal"],
   [adim |-> "ilkGiris"]}
  \cup [adim : {"kod"}, eski : SUBSET Kod]
  \cup [adim : {"giris"}, sifre : Nat]
  \cup [adim : {"aileKapat"}, aile : Aile]
  \cup [adim : {"al"}, belirtec : Belirtec]
  \cup [adim : {"yeni"}, aile : Aile, sifre : Nat]
  \cup [adim : {"sifre", "iptal"}, sonra : Sonra]
  \cup [adim : {"sifirla"}, kod : Kod]

\* The type invariant of the user, the tokens, the codes and the requests.
OturumTypeOK ==
  /\ hesap \in KullaniciSatiri
  /\ belirtec \in [Belirtec -> BelirtecSatiri]
  /\ kod \in [Kod -> KodSatiri]
  /\ oturumIstek \in [OturumIstek -> OturumIstekKaydi]
  /\ kacan \subseteq Aile

\* A session hangs on one token or on one renewal, never on two: two tabs that
\* renew together cannot split it (the claim, refreshSession.service.ts:103).
TekZincir ==
  \A f \in Aile :
    /\ Gecerliler(f) # {} => Yenileyenler(f) = {}
    /\ \A b, c \in Gecerliler(f) : b = c
    /\ \A a, c \in Yenileyenler(f) : a = c

\* After a password change nobody stays signed in with the old one: a session
\* opened under an older password is still valid only while the request that
\* changed it has yet to end the sessions, or if it slipped through, because
\* a sign-in or a renewal of it was between two statements when they were
\* ended, or the request that had to end them died (auth.routes.ts:171-240).
EskiSifreKapanir ==
  \A b \in Belirtec :
    /\ belirtec[b].durum = "gecerli" /\ belirtec[b].aile \notin AdminAile
    /\ belirtec[b].sifre # hesap.sifre
    => \/ belirtec[b].aile \in kacan
       \/ \E a \in OturumIstek : oturumIstek[a].adim = "iptal"

\* A reset code changes the password once, although two requests may have
\* found it unused (resetPasswordWithToken).
KodTekKullanim == \A k \in Kod : kod[k].kullanim <= 1

\* What a changed or reset password promises: the old one opens nothing any
\* more, and its code is used up.
SifreTutarli == EskiSifreKapanir /\ KodTekKullanim

\* Renewals leave one chain, and a password change leaves no session of the old one
\* (refreshSession.service.ts:103, passwordReset.service.ts:129).
OturumTutarli == TekZincir /\ SifreTutarli

\* The state of a session, for the abstract specification.
OturumDurumu(f) ==
  IF Uyeler(f) = {} THEN "yok"
  ELSE IF Gecerliler(f) # {} THEN "acik"
  ELSE IF Yenileyenler(f) # {} THEN "askida" ELSE "bitti"

Soyut == INSTANCE OturumSozlesmesi WITH
           Aile <- Aile, oturum <- [f \in Aile |-> OturumDurumu(f)]

\* Families of tokens implement sessions: a session that was ended, by its
\* owner, by a password change, by reuse of an old token, never comes back;
\* only one that hangs on a renewal outlives its end.
OturumSozlesmesiTutar == Soyut!Sozlesme
=============================================================================
