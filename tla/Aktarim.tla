------------------------------ MODULE Aktarim ------------------------------
(***************************************************************************)
(* Taking over the database of the old desktop program (src/src/import):   *)
(* the preview of a file, which makes a batch, and the commit of a batch   *)
(* with the same file.  The commit looks for an earlier one before its     *)
(* transaction, and writes the failure of its transaction after it.        *)
(***************************************************************************)
EXTENDS Ortak

CONSTANTS
  DYedek,    \* per file: [satir, ayar], its rows and whether it names the office's phone;
             \* row: [tablo, id, ust, asil, no]; ust, what it belongs to; asil, what it
             \* corrects; no, its document number
  DElden,    \* document numbers that the office's own rows get
  DParti,    \* batches, numbered
  DIstek     \* requests, numbered

\* A file has finitely many rows; a row's id, a number, is the key of its table.
ASSUME AktarimVarsayimi ==
  /\ DParti \subseteq Nat /\ DIstek \subseteq Nat /\ Yok \notin DParti /\ Yok \notin {"buro", "yedek"}
  /\ Yok \notin [dosya : DOMAIN DYedek, durum : {"PREVIEWED", "COMMITTED", "FAILED"}]
  /\ Yok \notin [parti : DParti \cup {Yok}, tablo : {"kasa", "ofis", Yok}, id : Int, ek : Nat]
  /\ DElden \subseteq Int
  /\ \A f \in DOMAIN DYedek :
       /\ IsFiniteSet(DYedek[f].satir)
       /\ \A r \in DYedek[f].satir : r.id \in Int \cup {Yok} /\ r.no \in Int \cup {Yok}
       /\ \A r, s \in DYedek[f].satir : r.tablo = s.tablo /\ r.id = s.id /\ r.id # Yok => r = s

VARIABLES
  dParti,    \* import_batch: per id [dosya, durum], or Yok
  dKayit,    \* the rows of the office: [parti, satir, tablo, no]
  dAyar,     \* the office's phone: Yok, "buro" (set by the office) or "yedek"
  dIstek,
  dSasan,    \* history: files taken over by overlapping requests; "no", "ayar": numbers
             \* or settings that changed after an import had read them
  dGirildi   \* history: has the office set its phone?

aktarimVars == <<dParti, dKayit, dAyar, dIstek, dSasan, dGirildi>>

Dosyalar == DOMAIN DYedek
Satirlari(f) == DYedek[f].satir
DGelir(a) == a \in Ilk({b \in DIstek : dIstek[b] = Bos})
DIlerlet(a, k) == dIstek' = [dIstek EXCEPT ![a] = k]

-----------------------------------------------------------------------------
(* The rows of a file *)

DDuzeltme(r) == r.asil # Yok   \* mapKasaTipFromRow, isOfisDuzeltme
DTablo(f, t) == {r \in Satirlari(f) : r.tablo = t}
DVar(S, id) == \E r \in S : r.id = id

\* validateDesktopRows: clients, cases and fees have ids, and everything but
\* the office's cash hangs on a row that is there.
DGecerli(f) ==
  /\ \A t \in {"muvekkil", "dosya", "ucret"} : ~DVar(DTablo(f, t), Yok)
  /\ \A r \in Satirlari(f) :
       /\ r.tablo = "dosya" => DVar(DTablo(f, "muvekkil"), r.ust)
       /\ r.tablo \in {"ucret", "kasa"} => DVar(DTablo(f, "dosya"), r.ust)
       /\ r.tablo = "taksit" => DVar(DTablo(f, "ucret"), r.ust)

\* Rows without an id, and corrections of rows not taken over, are left out.
DKimlikli(f, t) == {r \in DTablo(f, t) : r.id # Yok}
DAktarKisiler(f) == DKimlikli(f, "muvekkil") \cup DKimlikli(f, "dosya")
DAktarVekalet(f) == DKimlikli(f, "ucret") \cup DKimlikli(f, "taksit")
DAsiller(f, t) == {r \in DKimlikli(f, t) : ~DDuzeltme(r)}
DDuzeltmeler(f, t) == {r \in DKimlikli(f, t) : DDuzeltme(r) /\ DVar(DAsiller(f, t), r.asil)}
DAktarKasa(f) == DAsiller(f, "kasa") \cup DDuzeltmeler(f, "kasa")
DAktarOfis(f) == DAsiller(f, "ofis") \cup DDuzeltmeler(f, "ofis")
DAktarilan(f) == DAktarKisiler(f) \cup DAktarVekalet(f) \cup DAktarKasa(f) \cup DAktarOfis(f)

\* createBelgeNoAllocator: a number of the file goes to the first row that has
\* it, unless it is taken; other rows get one made of the batch and their id.
DNumaralilar == {"kasa", "ofis"}
DHam(n) == [parti |-> Yok, tablo |-> Yok, id |-> n, ek |-> 0]
DOnce(r, s) ==
  \/ r.tablo = "kasa" /\ s.tablo = "ofis"
  \/ r.tablo = s.tablo /\ (IF DDuzeltme(r) = DDuzeltme(s) THEN r.id < s.id ELSE DDuzeltme(s))

DNumara(p, f, dolu, r) ==
  LET uretilen(k) == [parti |-> p, tablo |-> r.tablo, id |-> r.id, ek |-> k]
      kapan == \E s \in DAktarKasa(f) \cup DAktarOfis(f) : s.no = r.no /\ DOnce(s, r) IN
  IF r.no # Yok /\ DHam(r.no) \notin dolu /\ ~kapan THEN DHam(r.no)
  ELSE uretilen(CHOOSE k \in 0..Cardinality(dolu) :
                  uretilen(k) \notin dolu /\ \A j \in 0..(k - 1) : uretilen(j) \in dolu)

\* The rows a transaction inserts, with the numbers it found taken.
DYeniler(p, f, dolu) ==
  {[parti |-> p, satir |-> r, tablo |-> r.tablo,
    no |-> IF r.tablo \in DNumaralilar THEN DNumara(p, f, dolu, r) ELSE Yok] : r \in DAktarilan(f)}

DNumaralar == {k.no : k \in dKayit} \ {Yok}   \* loadBelgeReserved: of both tables

-----------------------------------------------------------------------------
(* Requests *)

DTekrarMutant(f) == TRUE   \* mutant: a file is taken over again
\* assertNoCommittedDuplicate
DTekrarsiz(f) == \A p \in DParti : dParti[p] # [dosya |-> f, durum |-> "COMMITTED"]

\* runDesktopImportPreview: a batch is made for files with errors too.
DOnizle(a) ==
  /\ DGelir(a)
  /\ \E f \in Dosyalar : DTekrarsiz(f) /\ DIlerlet(a, [adim |-> "onizle", dosya |-> f])
  /\ UNCHANGED <<dParti, dKayit, dAyar, dSasan, dGirildi>>

DPartiAc(a) ==
  /\ dIstek[a].adim = "onizle"
  /\ \E p \in Ilk({q \in DParti : dParti[q] = Yok}) :
       dParti' = [dParti EXCEPT ![p] = [dosya |-> dIstek[a].dosya, durum |-> "PREVIEWED"]]
  /\ DIlerlet(a, Bitti) /\ UNCHANGED <<dKayit, dAyar, dSasan, dGirildi>>

\* runDesktopImportCommit, up to its transaction.
DKontrol(a) ==
  /\ DGelir(a)
  /\ \E p \in DParti : \E f \in Dosyalar :
       /\ dParti[p] = [dosya |-> f, durum |-> "PREVIEWED"]
       /\ DTekrarsiz(f) /\ DGecerli(f)
       /\ DIlerlet(a, [adim |-> "islem", dosya |-> f, parti |-> p, dolu |-> {}, ayar |-> Yok, bayat |-> FALSE])
  /\ UNCHANGED <<dParti, dKayit, dAyar, dSasan, dGirildi>>

\* The transaction reads numbers and settings.
DIslemOku(a) ==
  /\ dIstek[a].adim = "islem"
  /\ DIlerlet(a, [dIstek[a] EXCEPT !.adim = "yaz", !.dolu = DNumaralar, !.ayar = dAyar])
  /\ UNCHANGED <<dParti, dKayit, dAyar, dSasan, dGirildi>>

\* Request a is done with a file: what others know of the file is old.
DBitir(a) ==
  dIstek' = [b \in DIstek |->
               CASE b = a -> Bitti
                 [] b # a /\ dIstek[b].adim \in {"islem", "yaz", "hata"} /\ dIstek[b].dosya = dIstek[a].dosya
                      -> [dIstek[b] EXCEPT !.bayat = TRUE]
                 [] OTHER -> dIstek[b]]

DCakisir(yeni) == \E k \in yeni, e \in dKayit : k.no # Yok /\ k.no = e.no /\ k.tablo = e.tablo

\* It writes: all rows and the state of the batch, or, when a number is taken
\* by now or for another reason, nothing.
DIslemYaz(a) ==
  LET r == dIstek[a]   yeni == DYeniler(r.parti, r.dosya, r.dolu) IN
  /\ r.adim = "yaz" /\ ~DCakisir(yeni)
  /\ dKayit' = dKayit \cup yeni
  /\ dAyar' = IF DYedek[r.dosya].ayar /\ r.ayar = Yok THEN "yedek" ELSE dAyar
  /\ dParti' = [dParti EXCEPT ![r.parti].durum = "COMMITTED"]
  /\ dSasan' = dSasan \cup (IF r.bayat THEN {r.dosya} ELSE {}) \cup (IF r.dolu # DNumaralar THEN {"no"} ELSE {})
                     \cup (IF r.ayar # dAyar THEN {"ayar"} ELSE {})
  /\ DBitir(a) /\ UNCHANGED dGirildi

DIslemKalir(a) ==
  /\ dIstek[a].adim = "yaz" /\ DIlerlet(a, [dIstek[a] EXCEPT !.adim = "hata"])
  /\ UNCHANGED <<dParti, dKayit, dAyar, dSasan, dGirildi>>

\* The failure is written whatever the batch is by now.
DHata(a) ==
  LET r == dIstek[a] IN
  /\ r.adim = "hata"
  /\ dParti' = [dParti EXCEPT ![r.parti].durum = "FAILED"]
  /\ dSasan' = dSasan \cup (IF r.bayat THEN {r.dosya} ELSE {})
  /\ DBitir(a) /\ UNCHANGED <<dKayit, dAyar, dGirildi>>

DDuser(a) ==
  /\ dIstek[a] \notin {Bos, Bitti} /\ DIlerlet(a, Bitti)
  /\ UNCHANGED <<dParti, dKayit, dAyar, dSasan, dGirildi>>

\* The office enters a row of its own, or its phone.
DElle ==
  /\ \E n \in DElden, t \in DNumaralilar :
       /\ \A k \in dKayit : k.no # DHam(n)
       /\ dKayit' = dKayit \cup {[parti |-> Yok, satir |-> Yok, tablo |-> t, no |-> DHam(n)]}
  /\ UNCHANGED <<dParti, dAyar, dIstek, dSasan, dGirildi>>

DAyarYaz ==
  /\ ~dGirildi /\ dAyar' = "buro" /\ dGirildi' = TRUE
  /\ UNCHANGED <<dParti, dKayit, dIstek, dSasan>>

AktarimInit ==
  /\ dParti = [p \in DParti |-> Yok] /\ dKayit = {} /\ dAyar = Yok
  /\ dIstek = [a \in DIstek |-> Bos] /\ dSasan = {} /\ dGirildi = FALSE

AktarimNext ==
  \/ \E a \in DIstek :
       \/ DOnizle(a) \/ DPartiAc(a) \/ DKontrol(a) \/ DIslemOku(a) \/ DIslemYaz(a)
       \/ DIslemKalir(a) \/ DHata(a) \/ DDuser(a)
  \/ DElle \/ DAyarYaz

AktarimSpec == AktarimInit /\ [][AktarimNext]_aktarimVars

-----------------------------------------------------------------------------
(* Properties *)

\* Batches, rows and requests keep their types.
AktarimTypeOK ==
  /\ dParti \in [DParti -> [dosya : Dosyalar, durum : {"PREVIEWED", "COMMITTED", "FAILED"}] \cup {Yok}]
  /\ \A k \in dKayit : k.parti \in DParti \cup {Yok} /\ (k.no = Yok <=> k.tablo \notin DNumaralilar)
  /\ dAyar \in {Yok, "buro", "yedek"} /\ dGirildi \in BOOLEAN
  /\ \A a \in DIstek : dIstek[a].adim \in {"bos", "onizle", "islem", "yaz", "hata", "bitti"}
  /\ dSasan \subseteq Dosyalar \cup {"no", "ayar"}

\* A file is taken over once, as a whole, and its batch says so; every row and
\* every correction whose row is there comes with it.  Its numbers are no
\* other row's, and the office's own settings stay.  Overlapping requests are
\* excepted (desktopImportCommit.ts:119, :172, :527, importDuplicateGuard.ts:6).
AktarimTutarli ==
  LET gelen(p) == {k \in dKayit : k.parti = p} IN
  /\ \A f \in Dosyalar \ dSasan :
       /\ Cardinality({p \in DParti : dParti[p] = [dosya |-> f, durum |-> "COMMITTED"]}) <= 1
       /\ \A p \in DParti : dParti[p] # Yok /\ dParti[p].dosya = f =>
            /\ gelen(p) = {} <=> dParti[p].durum # "COMMITTED" \/ DAktarilan(f) = {}
            /\ gelen(p) # {} => /\ {k.satir : k \in gelen(p)} = DAktarilan(f)
                                /\ Cardinality(gelen(p)) = Cardinality(DAktarilan(f))
  /\ dSasan = {} => \A k, e \in dKayit : k.no # Yok /\ k.no = e.no => k = e
  /\ dGirildi /\ "ayar" \notin dSasan => dAyar = "buro"
=============================================================================
