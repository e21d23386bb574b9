------------------------------- MODULE MCBuro -------------------------------
(* The services of an office for TLC, which share no row, and so are looked *)
(* at one at a time.  A behaviour is one of:                                *)
(*   oturum      sign-ins, passwords and reset codes of a user, in four     *)
(*               requests, or three when administrative sessions come along *)
(*   siparis     three deliveries of two orders, with a purchase session    *)
(*   yonetim     two deliveries and a super admin extend one licence        *)
(*   hatirlatma  reminders run while an order extends the licence           *)
(*   kurulum     three deliveries of orders with one e-mail                 *)
(*   yedek       two backup runs and a restore, or one run and two restores *)
(*   randevu    two requests and a worker pass, or one and two              *)
(*   sablon     two requests and the draft of one text                      *)
(*   kadro      two requests, from rows that are active                     *)
(*   ileti, baglanti, aktarim: one module each                              *)
EXTENDS Oturum, LisansHatirlatma, Kurulum, Randevu, IletiDurumu, Yedek, Baglanti, Sablon, Kadro, Aktarim

CONSTANT KAyni   \* orders of one customer number

VARIABLE parca

Lisanslar == {"siparis", "yonetim", "hatirlatma"}

BuroInit ==
  /\ OturumInit /\ HatirlatmaInit /\ KurulumInit /\ RandevuInit
  /\ IletiInit /\ YedekInit /\ BagInit /\ SablonInit /\ KadroInit /\ AktarimInit
  /\ parca \in Lisanslar \cup {"oturum", "kurulum", "randevu", "ileti", "yedek", "baglanti", "sablon", "kadro", "aktarim"}
  /\ parca # "oturum" => ~hesap.bagli
  /\ parca \notin Lisanslar => ~buro.demo
  /\ parca # "randevu" => randevu.an = 1
  /\ parca # "baglanti" => \A b \in BBuro : bag[b].durum = "DISABLED"
  /\ \A n \in TAd : tSatir[n] # Yok => tSatir[n].metin = 1
  /\ parca # "sablon" => tSatir[THazirAd] = Yok /\ \A n \in TAd : tMeta[n] = Yok
  /\ parca # "kadro" => (\A s \in UAdmin : uAdmin[s] = AktifSuper) /\ \A u \in UUye : uUye[u] = AktifSahip
  /\ \A s \in UAdmin : uAdmin[s] # Yok => uAdmin[s].aktif
  /\ \A u \in UUye : uUye[u] # Yok => uUye[u].aktif

\* Everything but the parts in P stays.
Kalan(P) ==
  /\ UNCHANGED parca
  /\ parca \in P
  /\ "oturum" \notin P => UNCHANGED oturumVars
  /\ "siparis" \notin P => UNCHANGED hatirlatmaVars
  /\ "kurulum" \notin P => UNCHANGED kurulumVars
  /\ "randevu" \notin P => UNCHANGED randevuVars
  /\ "ileti" \notin P => UNCHANGED iletiVars
  /\ "yedek" \notin P => UNCHANGED yedekVars
  /\ "baglanti" \notin P => UNCHANGED bagVars
  /\ "sablon" \notin P => UNCHANGED sablonVars
  /\ "kadro" \notin P => UNCHANGED kadroVars
  /\ "aktarim" \notin P => UNCHANGED aktarimVars

Duran(S) == \A a \in S : lisansIstek'[a] = Bos

\* At most two requests are under way.
Ikisi(istek) == Cardinality({a \in DOMAIN istek : istek[a] \notin {Bos, Bitti}}) <= 2

\* Requests and worker passes that have begun.
RBaslayan == {i \in RIstek : rIstek[i] # Bos} \cup {w \in RKosu : rKosu[w] # Bos}

LisansParcasi ==
  \/ parca = "siparis" /\ LisansNext /\ Ikisi(lisansIstek') /\ Duran(Yonetici) /\ UNCHANGED <<hatirlatma, kosu, bozulan>>
  \/ parca = "yonetim" /\ LisansNext /\ Duran({2, 3}) /\ UNCHANGED <<satinalma, hatirlatma, kosu, bozulan>>
  \/ parca = "hatirlatma" /\ HatirlatmaNext /\ Duran(LisansIstek \ {1}) /\ UNCHANGED satinalma

BuroNext ==
  \/ Kalan({"oturum"}) /\ OturumNext /\ Ikisi(oturumIstek') /\ (hesap.bagli => oturumIstek'[4] = Bos)
  \/ Kalan(Lisanslar) /\ LisansParcasi
  \/ Kalan({"kurulum"}) /\ KurulumNext
  \/ Kalan({"randevu"}) /\ RandevuNext /\ Cardinality(RBaslayan') <= 3
  \/ Kalan({"ileti"}) /\ IletiNext
  \/ Kalan({"yedek"}) /\ YedekNext /\ Ikisi(yIstek') /\ yIstek'[3].adim # "anlik"
  \/ Kalan({"baglanti"}) /\ BagNext
  \/ Kalan({"sablon"}) /\ SablonNext
  \/ Kalan({"kadro"}) /\ KadroNext
  \/ Kalan({"aktarim"}) /\ AktarimNext /\ Ikisi(dIstek')

BuroSpec ==
  BuroInit /\ [][BuroNext]_<<parca, oturumVars, hatirlatmaVars, kurulumVars, randevuVars,
                     iletiVars, yedekVars, bagVars, sablonVars, kadroVars, aktarimVars>>

\* The type invariant of the part that is looked at; the rows of the others stay.
BuroTypeOK ==
  /\ parca = "oturum" => OturumTypeOK
  /\ parca \in Lisanslar => HatirlatmaTypeOK
  /\ parca = "kurulum" => KurulumTypeOK
  /\ parca = "randevu" => RandevuTypeOK
  /\ parca = "ileti" => IletiTypeOK
  /\ parca = "yedek" => YedekTypeOK
  /\ parca = "baglanti" => BagTypeOK
  /\ parca = "sablon" => SablonTypeOK
  /\ parca = "kadro" => KadroTypeOK
  /\ parca = "aktarim" => AktarimTypeOK

\* Both numbers are of one account.
TekHesap == [n \in {1, 2} |-> 1]

\* A file with every table, with a number in both cash books and a correction of
\* a row that is missing; one without numbers; one that is not valid.
Yedekteki(t, i, u, a, n) == [tablo |-> t, id |-> i, ust |-> u, asil |-> a, no |-> n]
Yedekler ==
  [f \in {"tam", "nosuz", "bozuk"} |->
     CASE f = "tam" -> [ayar |-> TRUE, satir |->
            {Yedekteki("muvekkil", 1, Yok, Yok, Yok), Yedekteki("dosya", 1, 1, Yok, Yok), Yedekteki("ucret", 1, 1, Yok, Yok),
             Yedekteki("taksit", 1, 1, Yok, Yok), Yedekteki("kasa", 1, 1, Yok, 1), Yedekteki("kasa", 2, 1, 1, Yok),
             Yedekteki("kasa", 3, 1, 9, Yok), Yedekteki("ofis", 1, Yok, Yok, 1)}]
       [] f = "nosuz" -> [ayar |-> FALSE, satir |->
            {Yedekteki("muvekkil", 1, Yok, Yok, Yok), Yedekteki("dosya", 1, 1, Yok, Yok),
             Yedekteki("kasa", Yok, 1, Yok, Yok), Yedekteki("ofis", 1, Yok, Yok, Yok)}]
       [] f = "bozuk" -> [ayar |-> TRUE, satir |-> {Yedekteki("muvekkil", 1, Yok, Yok, Yok), Yedekteki("dosya", 1, 2, Yok, Yok)}]]

\* Two orders of one customer number, with the same names; an order without a
\* number, with names of its own; and an office created by hand, for which a
\* name of another list is typed.
Numaralar == [o \in KSiparis |-> IF o \in KAyni THEN 1 ELSE Yok]
AdListeleri ==
  [o \in KSiparis |-> IF o \in KAyni THEN <<1, 2>> ELSE IF o \in KElden THEN <<2, 3>> ELSE <<3, 1>>]

EsikGunleri == [t \in Tur |-> IF t = "D1" THEN 0 ELSE 1]
=============================================================================
