# A TLA+ verification of the Müvekkil Kasası backend

The repository is the server of a practice-management product for Turkish law
offices: clients, cases, fee instalments and their payments, cash books,
appointments, automatic payment reminders over WhatsApp, the message credits
those reminders cost, licences and sessions.  It is one Node process type
(Express + Prisma + PostgreSQL), started several times: the API, the cron
scripts under `src/scripts`, and webhooks answered by the API.  Processes share
nothing but the database, and nearly every transaction runs under READ
COMMITTED.  What goes wrong in such a program goes wrong between two
statements: a row is read, another request commits, and the first one writes
what it computed from the old row.  That is what the modules here model, one
step per transaction or per statement that stands alone.

Paths below are relative to the repository's `src/` directory.

- [1. Inventory](#1-inventory)
- [2. How the code is turned into actions](#2-how-the-code-is-turned-into-actions)
- [3. Modules](#3-modules)
- [4. Runs](#4-runs)
- [5. Fairness](#5-fairness)
- [6. Where code and documents disagree](#6-where-code-and-documents-disagree)
- [7. Proofs](#7-proofs)
- [8. What is not modelled, and what is only model-checked](#8-what-is-not-modelled-and-what-is-only-model-checked)
- [9. Plan](#9-plan)

## 1. Inventory

Each part names its code, the state it keeps, what is hard about it, and when
it is correct.  `PROJECT.json` lists the same parts under "components" with the
modules of each, and under "hazards" every line where one of these
difficulties bites, with the properties that are about it.

**Message credits** (`tahsilatBildirim/whatsappMesajKredi.service.ts`).  One
wallet row per office and a ledger of movements with the balance before and
after, under unique indexes per reference.  `addCreditInTx` and `refundForJob`
look into the ledger *before* they lock the wallet: two callers can both find
nothing, and only the index and the roll-back after P2002 stop the second.
*Correct when* the balance is what the ledger adds up to and never negative,
nothing is booked twice, and no job is refunded that was not charged.

**Message package requests** (`tahsilatBildirim/whatsappMesajPaketTalep.service.ts`).
A request per purchase, BEKLIYOR, ONAYLANDI or REDDEDILDI; approving books the
credit.  Two administrators at once, approve against reject, two users asking
for the same package.  *Correct when* a request is approved exactly if its
credit was booked, and one request per package is pending.

**Automatic collection reminders** (`worker`, `planner`, `sync`, `eligibility`,
`settings`, `bildirimAyar`, `bildirimPlan` in `tahsilatBildirim/`).  A job per
instalment, rule and day.  Planners insert them, workers claim them with a lock
of 15 minutes, charge, send and record the outcome; payments, changed dates,
switched off rules and withdrawn consents cancel the pending ones.  Overlapping
runs, slow runs whose lock expires, crashes between charge and send, a planner
that clears a lock somebody holds, jobs that cannot be sent and keep their
place; and around it a dozen operations that change a switch first and cancel
jobs later, none of them a transaction.  *Correct when* every message was
charged, a job is not sent twice, a failed job was refunded, no job stays in
the queue for ever, and the pending jobs are those the settings ask for.

**Webhook** (`tahsilatBildirim/webhook.processor.ts`, sending by hand in
`bildirimJobWhatsApp.service.ts`).  Status events arrive repeatedly and in any
order; read, compare and update are separate statements and the event is
recorded last.  Messages clients write (`webhook.routes.ts` too) come in batches
and are never sent again: each batch is answered with 200, whatever its handling
did.  *Correct when* a status never goes back, no event is lost, a message
recorded as received has its row, and one that was not kept can be named.

**SMS wallet** (`tahsilatBildirim/smsWallet.service.ts`,
`tahsilatMerkezi/manualSms.service.ts`, the report worker).  The balance is read
without a lock and written back as a number; a message reserves, then consumes
or releases; a report refunds.  *Correct when* balance and movements agree, a
message is charged once, and only what was not delivered is returned.

**WhatsApp connection and templates** (`connection.service.ts`,
`connection.importExisting.ts`, `wabaWebhookOverride.ts`,
`customTemplate.service.ts`, `templateLibrary.service.ts`).  A row per office
beside what Meta keeps; every request writes after its calls to Meta what it
read before them.  *Correct when* the row says what is so at Meta, no account's
events go to an office that gave it up, and a template is sent with the text
Meta approved.

**Attorney fees** (`vekalet/`).  A fee, its instalments, their payments and the
income row each payment leaves in the office cash.  Each operation locks another
row: a payment the instalment, a cancel the payment, the safe delete the fee;
some check before the lock, some have no lock; plans and edits read the fee and
write later.  *Correct when* payments stay within an instalment and instalments
within the fee, a cancelled instalment has no active payment, every income row
has its payment with the same amount, an approved income is left alone, and
cancelling a fee cancels what its owner was shown.

**Enforcement collections** (`icraTahsilat/`).  A debt paid at once or split
into instalments with a rounding, payments with an income row, cancellation; an
overview, a list by status, a printed report, each computed in its own way.
Remainders are read without a lock.  *Correct when* the instalments add up to
the debt, no instalment is overpaid, and overview, list, report and the states
of debt and instalments are those of the payments.

**Cash books** (`ofisKasa/`, `kasa/`).  Rows that are approved, rejected,
corrected or deleted by id after their state was read; a safe delete takes the
corrections along.  *Correct when* the balance is that of the live approved
rows, no approved row is lost but by an overlap, and no correction outlives its
original.

**Bonuses** (`prim/`).  Rules with tiers, a report that calculates a month from
rule and collections read in separate statements, a mark that it was paid, a
panel that shows it and details that list the collections of today.  *Correct
when* one rule of a scope is active, the month says what rules and collections
said when it was calculated, and every unit is paid by one tier.

**Exchange rates** (`lib/tcmbKur.service.ts`, `lib/kurSnapshot.ts`).  A cache, one
flight per date, a live look after 16:35, a stale answer while the bank is out
of reach.  *Correct when* an answer is not older than the caches allow, never of
the future, and a payment's cross rate is that of its bulletins.

**Reports** (`dosya/dosyaMaliOzet.service.ts`, `muvekkil/muvekkilEkstre.service.ts`,
`ofisKasa/`, warnings, collection centre, the package of a case, the dashboard,
the printed office report, the list of a cash book, the page of a client, the
analysis shown before a fee is cancelled).  Each has queries of its own over the
same rows, and a day of its own: `maliKontrol`, `taksitUyari` and the fee page
take today from the server's clock, the collection centre takes Turkey's, and a
statement is as of any day asked for.  *Correct when* they agree where they
speak of the same thing on the same day.

**Licences** (`tenant/`, `license/`, `integrations/woontegraWebsite/`,
`tenantLicenseRenewal/`).  The end date, purchase sessions of the shop, periods
with their yearly credit, reminder mails with an attempt counter, new offices.
The end date is read before the transaction that writes it; the shop repeats an
order whose answer it did not get; credits are granted after the commit.
*Correct when* n orders extend by n periods, each period has its credit, one
customer gets one office unless two look-ups overlapped, and no threshold is
mailed again and again.

**Sessions and passwords** (`auth/`).  Refresh tokens in families, reset codes.
Rotation claims the old token in one statement and inserts the new one in
another; a sign-in compares the password long before it inserts its token.
*Correct when* a family has one live token, an old password opens nothing, and a
code is used once.

**Administration and users** (`admin/`, `users/`).  The actor and the row are
looked up, then the row is written by id.  *Correct when* there stays an active
owner and a super admin, and nobody keeps a right that was taken.

**Appointments** (`randevu/`).  Plans and jobs as with collections, in statements
of their own.  *Correct when* a waiting reminder is of the present plan and time.

**Backup and restore** (`backup/`).  Snapshot and manifest in two uploads,
retention, restore with a safety copy.  *Correct when* a listed backup can be
restored, the newest is kept, and a restore loses nothing its copy has not.

**Desktop import** (`import/`).  Preview, checks, one transaction of rows, the
state of the batch after it.  *Correct when* a file is taken over once, whole,
and with numbers no other row has.

**The rest**: finance categories, plain CRUD of clients, cases and invoice
marks, HTTP layer, mail transport, audit rows.

## 2. How the code is turned into actions

- **A transaction that locks first is one step.**  Between `SELECT ... FOR
  UPDATE` on the wallet row and the commit nobody else writes the wallet or its
  ledger, and under READ COMMITTED what is read under the lock is the newest
  committed state.
- **A read before the lock is a step of its own**, also inside a transaction:
  READ COMMITTED lets others commit in between.  What was read is kept in a
  record of the actor (`cagri`, `yonetici`, `isci`, `planci`, `...Istek`); its
  field `adim` names the next statement.  `Ortak` has the two records every
  module shares: `Bos`, a request that has not arrived, and `Bitti`, one that
  was answered, refused or lost.  A request is served once; a repeated request
  is another one.
- **A row lock held over several steps** is kept in the record of the request
  that holds it; who needs the row waits (`Kilitli`, `OdemeKilitli`, `KKilitli`).
- **A unique index is a condition on the write.**  When it refuses (P2002) the
  transaction rolls back, and the step the code takes next is modelled.
- **A lost request, a dead process or a thrown statement** (`...Duser`,
  `IsciCoker`) forgets the actor's record and leaves the database as committed
  so far.
- **History variables are read by no guard.**  `...Sasan`, `...Kayip`, `gecmis`,
  `kaybolan`, `ySasan`, `bYarim` and the like name the rows an overlap or a cut
  request touched, at the write that did it.  The promises of this code hold
  only up to such overlaps, so a property says "this is so, *or* the named
  overlap happened to this very row"; the write that marks it is in the code,
  and TLC reaches states in which each exception is used.
- **One office.**  No operation touches the rows of two offices, except the
  batch of the worker (`BagliIs` splits its jobs by office), the redirection of
  a WhatsApp account (`Baglanti` has several offices) and the orders of new
  customers (`Kurulum`).
- **Amounts** are small integers; the code counts messages or cents.
- **Left out everywhere**: names, texts, notes, who did it, audit rows, mails.

## 3. Modules

| module | models | state |
|---|---|---|
| `Ortak` | null and the two records every request starts and ends with | |
| `KrediDefteri` | what the wallet promises, for any caller: a ledger that only grows, balances that follow it, no duplicate reference, a refund after its charge | `bakiye`, `defter` |
| `WhatsAppMesajKredi` | the wallet: `AddCreditInTx`, `ManuelEkle`, `ManuelDus`, `GrantAnnual`, `ConsumeForJob`, `RefundForJob` / `RefundTuketim`, the locked tail `KilitliYaz` | `bakiye`, `defter`, per caller `cagri` |
| `PaketTalep` | EXTENDS the wallet; requests, two-step creation, approval with each of its reads and writes, rejection | `talep`, `yonetici`, `buro` |
| `TahsilatBildirim` | EXTENDS the wallet; workers, planners, cancellations, Meta, lock expiry, crashes | `durum`, `kilit` (the row), `borcAcik`, `otomasyon`, `saat` (the world), `isci`, `planci` (the processes), `gonderim`, `kaybolan` (history), `olay` (bound) |
| `BildirimPlan` | which jobs there are: switches of office, client, case and instalment, plan of its own, rules with their days, planner with its clean-up in two steps, cancellations, worker as far as it takes and writes | `gAcik`, `gTaksit`, `gKural`, `gPlan`, `gNo`, `gIs`, `gIstek`, `gSasan`, `gPlanli` |
| `GelenMesaj` | messages clients write: deliveries, rows and events in separate statements | `eBagli`, `eSatir`, `eOlay`, `eIstek`, `eYolsuz`, `eKesik`, `eVerilen` |
| `IletiDurumu` | the status of one message between worker, user and webhook | `wIs`, `wKabul`, `wOlay`, `wIstek`, `wEn`, `wSasan` |
| `Baglanti` | the connection row and the redirection at Meta | `bag`, `bYonlen`, `bIstek`, `bBosaltan`, `bYarim`, `bSasan` |
| `Sablon` | templates of the office and their copies at Meta | `tSatir`, `tMeta`, `tIstek`, `tAcan`, ... |
| `SmsCuzdan` | SMS balance, movements, messages, report runs | `smsBakiye`, `smsDefter`, `smsIs`, `smsMesaj`, `sIstek`, `sBayat`, `sTekrar` |
| `VekaletTaksit` | one fee with its plan in place: payments, advance payments, edits, cancellations, deletions, and their income rows | `ucret`, `taksit`, `odeme`, `gelir`, `istek` (what a request read and locked), `gecmis` |
| `VekaletPlan` | creating and changing the fee, plans, single and numbered instalments, currencies | `vUcret`, `vTaksit`, `vOdeme`, `vIstek`, `vAsan`, `vSasan` |
| `IcraTahsilat` | a debt with its instalments and payments, and its overviews | `icra`, `icraTaksit`, `icraOdeme`, `iIstek`, `iSasan` |
| `OfisKasa` | the office cash book | `kasa`, `kasaIstek`, `kKayip`, `kSasan` |
| `MuvekkilKasa` | the client's cash book, as an INSTANCE of the former with the variables renamed, and the balance of a case | `mKasa`, `mIstek`, `mKayip`, `mSasan` |
| `Prim` | bonus rules, tiers, the report of a month, its mark and its panel | `pKural`, `pOdeme`, `pDonem`, `pIstek`, `pSasan`, `pEski` |
| `Kur` | rates, cache, flights, the rate of a payment and its arithmetic | `qAn`, `qYayim`, `qOnbellek`, `qSon`, `qUcus`, `qYanit`, `qOdeme`, ... |
| `MaliOzet` | the reports as operators over rows that whole requests change, each by the clock it goes by | `fDosya`, `fOdeme`, `fOfis`, `fKasa`, `fIcra` |
| `OturumSozlesmesi` | what a sign-in promises: open, hanging on a renewal, ended for good | `oturum` |
| `Oturum` | sign-in, rotation, reuse, sign-out, passwords, codes, administrative sessions | `hesap`, `belirtec`, `kod`, `oturumIstek`, `kacan` |
| `Lisans` | extension by order or administrator, purchase session, credit of a period | `buro`, `gun`, `donem`, `satinalma`, `krediDonem`, `lisansIstek`, `eksilen`, `aksayan` |
| `LisansHatirlatma` | EXTENDS `Lisans`; the reminder runs | `hatirlatma`, `kosu`, `bozulan` |
| `Kurulum` | new offices, by orders of the shop and by hand | `ofis`, `kEpostali`, `onceki`, `kDolu`, `kuruluKredi`, `kIstek`, `yarisan` |
| `Kadro` | administrators, owner and users | `uAdmin`, `uUye`, `uIstek`, `uSasan`, `uMudahale` |
| `Randevu` | one appointment, its plan, its jobs, planner and worker pass | `simdi`, `randevu`, `rPlan`, `rIs`, `rIstek`, `rKosu`, `rSasan` |
| `Yedek` | backup runs, retention, restores | `yVeri`, `yBugun`, `yDepo`, `yIstek`, `ySasan`, `yOnay`, `yGeri`, `yKayip` |
| `Aktarim` | import batches and the rows they bring | `dParti`, `dKayit`, `dAyar`, `dIstek`, `dSasan`, `dGirildi` |
| `MCPara`, `MCOfis`, `MCBuro` | several modules that share no row, for one TLC run each: `parca` picks the one a behaviour is about, the others stay at their initial state | `parca` |
| `MCPaketTalep`, `MCTahsilatBildirim`, `MCVekaletTaksit` | what TLC needs for one module: symmetry sets, due times | |
| `...Proofs` | section 7 | |

Correspondence of `TahsilatBildirim` with the code, in the order of a run of
`processDueJobs`:
| action | code |
|---|---|
| `ClaimDueJobs` | `claimDueJobs`, one transaction; `Partiler` is ORDER BY `planlanan_at` LIMIT n |
| `IsiOku` | the reads at the top of the loop and every check that does not write; its choice is one of `Kararlar` |
| `Tuket` | `consumeForJob`: charged, already charged, or without credit |
| `Gonder` | `provider.send`: accepted, refused, or accepted with the answer lost |
| `IadeBasla`, `IadeIlerle` | `refundForJob`, step by step through the wallet's own actions |
| `IsYaz` | the update that ends the iteration, by id, clearing the lock |
| `IsciCoker` | the process dies or a statement throws out of the loop |
| `KilitBayatlar` | fifteen minutes pass since `locked_at` |
| `PlanBasla`, `PlanIptal`, `PlanOku`, `IsOlustur`, `PlanBiter` | `planJobsForTenant` with `cancelObsoleteJobsForTenant` and `createTaksitJobFromRule` |
| `BekleyenIptal` | the conditional `updateMany` of `sync.service.ts` and `eligibility.service.ts` |

`ATLANDI` is in the choice of `IsiOku` at any time: it stands for a missing
consent, phone number, approved template or template value, data the model does
not keep.  `SKIP LOCKED` passes over a row only while another transaction is
about to commit it; the model claims either before or after that commit.

Correspondence of `VekaletTaksit` with the code.  A request that decides on what
it read without a lock is two actions, `...Oku` and `...Yaz`:

| actions | code | lock |
|---|---|---|
| `TekOde` | `createVekaletTaksitOdeme`, `markVekaletTaksitPaid` | instalment, before everything is read |
| `PesinBasla`, `PesinKilitle`, `PesinOku`, `PesinYaz` | `createVekaletPesinOdeme`; the payments and their status are `OdemeEkle` (`createVekaletOdemeInTx`) | the instalments open when it locks |
| `GuncelleOku`, `GuncelleYaz` | `updateVekaletTaksitOdeme` | instalment, after its status, amount and approval were read |
| `IptalOku`, `IptalYaz` | `iptalVekaletTahsilatAuthenticated`, `applyVekaletTahsilatIptalInTx` | payment |
| `SmmOku`, `EsleYaz` | `markVekaletTaksitOdemeSmm` and its `syncTaksitOdemeDurumu` | none |
| `DuzenleOku`, `DuzenleYaz` | `updateVekaletTaksiti` | none |
| `TaksitSilOku`, `TaksitSilYaz` | `guvenliSilVekaletTaksiti` | none |
| `UcretAnaliz`, `UcretSilOku`, `UcretSilYaz` | `buildVekaletSilEtkiAnalizi`, `guvenliVekaletUcretiSil` | fee |
| `GelirOnayla` | `approveOfisKasaHareketi`, read and update as one step | none |
| `GelirSilOku`, `GelirSilYaz` | `deleteOfisKasaHareketi` | none |
| `IstekDuser` | a refused, timed out or rolled back request, also the victim of a database deadlock | |

`gecmis` is read by no action.  It names the payments and instalments for which
a property has an exception: `cakisan`, where an edit of the amount overlapped a
payment or an advance paid without the lock; `sonradan`, the payments recorded
while the fee was being cancelled or later; `yaris`, the income rows approved
while an edit or a deletion that had seen them unapproved was pending.  TLC
reaches states in which each exception is used: an exceeded instalment, an
active payment on a cancelled fee, a changed and a deleted approved income.


Three modules need a word more.

*`BildirimPlan`.*  `updateRule` sets a rule of the office in use or not and
moves its day (`gunOffset`), and leaves the jobs it made; `GGunler` is the set
of days each kind of rule may have.  A job keeps the day it was made for, so
"due by its rule" is not so of a waiting job after the rule was moved: the
property speaks of the day the rule had when today's job was made, which the
field `isGun` of the rule remembers (history; a key holds one job a day).  A
plan of the instalment's own is written anew with its rules, under a new
version, so its days cannot move under a key.  `cancelObsoleteJobsForTenant`
reads the pending jobs (`GEskiOku`) and updates each by id (`GEskiYaz`),
whatever became of it meanwhile: a message sent in between is shown as
cancelled.

*`Kurulum`.*  The shop's names for an owner are built from the customer number
or, without one, from the number of the order; an operator types a name or has
one derived from the e-mail, and -1, -2 ... are tried after it.  So each order
has a list of its own (`KAdlar`), and two orders of one e-mail may share names
or not.  Nothing but the order and the user name is unique: two overlapping
look-ups can make two offices for one e-mail, whatever their names, and
`TekBuro` says that only they can.  Each owner has the best name *of its own
list* that nobody else has.  `assertUsernameAvailable` is a step between the
choice of the name and the transaction; P2002 is answered with the order's own
office.  Which office answers for an e-mail is the oldest, and only if it is of
the same order or customer number (`Sahibi`).

*`MaliOzet`.*  A day of a statement (`FGun`) says which months its rows may be
of (`FKadar`), which instalments had been entered (`FGirilen`) and which were
late (`FGecen`); "sunucu" is the server's today and "tr" is Turkey's, and
nothing relates them: around midnight, on a server in another zone, they differ.
So the warnings, the fee page and the dashboard agree with each other by the
server's day, the collection centre with what is late in Turkey, and the
statement with the summary of the rows up to its day.  A statement calls an
instalment late as the warnings do only where the two days agree on its due
date, and one more when a payment is of a later day than its own.  The
dashboard counts late instalments of fees and of enforcement claims
(`FIcraGeciken`); no other report here knows the latter.

Correspondence of the other modules: the map in `PROJECT.json` gives for every
definition the function and the lines it stands for.  Their form is the same
throughout: `XOku` the checks of a request with what they read, `XYaz` the write
it ends with, statements in between by their own name, and one disjunct for the
request that is lost.

## 4. Runs

| run | instance | shows |
|---|---|---|
| `para` | wallet: 2 callers, 2 jobs, 1 period, 2 corrections; SMS: balance 1, 1 message, 2 corrections, 2 error codes, 3 requests; enforcement: debts of 1 and 2, up to 4 instalments, 3 payments, 2 requests; cash books: 3 rows, 3 requests; plan: amounts 1 and 2, 2 currencies, 3 instalments, 1 payment, 3 requests; bonuses: 2 rules, two tariffs (one tier with enforcement collections, three tiers without a gap and without them), 2 collections, 2 requests; reminders: 2 kinds of rule, one for the due date and one for one or two days before it, 2 due dates, 2 versions of a plan, 2 requests with planner and worker; callers and jobs of the wallet are symmetric | the rules of the wallet, that it implements `KrediDefteri`, and that its overview adds up; `SmsTutarli`, `IcraTutarli`, `KasalarTutarli`, `PlanTutarli`, `PrimTutarli`, `BPlanTutarli`; types |
| `ofis` | requests: 2 administrators, 2 users, 2 requests, 2 packages, a job that spends; incoming messages: 2 messages, 2 deliveries; reports: 2 cases, 2 rows in the cash books together and 2 payments, an enforcement instalment, statements as of today in Turkey, with rows dated ahead and an instalment entered later, and as of a later day, and a server whose date is a day behind; rates: two days of 6 ticks, from the last one of a weekend day on, a bulletin in the third or fourth, 3 requests of which the last is a payment | `TalepTutarli`, `GelenTutarli`, `RaporTutarli`, `KurTutarli`; types |
| `talep_red` | the requests of `ofis`, three of them | **violation**: an approved request is rejected afterwards |
| `bildirim` | 2 workers, 2 planners, 1 job, 1 credit, 4 disturbances, slow workers allowed | every message charged, a second one needs a lost lock, failed means refunded, sent means sent |
| `bildirim_parti` | 1 worker, 1 planner, 2 jobs (one of an unconnected office), batch of 2, 1 disturbance | the two liveness properties |
| `bildirim_tekmesaj` | 2 workers, 1 planner, 2 jobs, **no** disturbance and **no** expired lock | **violation**: a job is sent twice |
| `bildirim_tikanma` | 1 worker, 1 planner, 2 jobs, batch of 1 | **violation**: a job is never taken |
| `vekalet` | 2 instalments of amount 1, edited to 1 or 2, 2 payments, 3 requests of any kind besides single payments and approvals | the five properties of `VekaletTaksit` and its types |
| `vekalet_asim` | 2 instalments, 3 payments, 2 requests, amounts never edited | **violation**: an instalment is paid beyond its amount |
| `vekalet_iptal` | the same | **violation**: an active payment on a cancelled instalment |
| `buro` | sessions with 4 requests, or 3 with administrative sessions; licences with 3 deliveries of 2 orders, or 2 and a super admin; reminder runs beside an order; 3 deliveries of 4 orders of one e-mail: two of one customer number, one without a number and with names of its own, and one by hand, with 3 names between them; 2 backups and a restore, or 1 and 2; an appointment with up to 3 requests and worker passes; one message, one connection, templates, users, an import with 2 or 3 requests | the property of each of the twelve parts, and that `Oturum` implements `OturumSozlesmesi` |
| `randevu_yeniden` | one request on an appointment with its reminder waiting | **violation**: saving an appointment loses its reminder |

*Why the bounds are enough.*  The races are between two actors: a read of one,
a write of the other, a write of the first.  Two callers, administrators,
workers and planners give every such order; a third adds no new pair.  Where a
third request is counted it makes the state the other two race in (an edited
amount, a cancelled instalment, a stored job), and the parts `icra`, `kasa`,
`mkasa`, `plan`, `oturum`, `yedek` and `aktarim` let at most two of them be
under way at once.  Two jobs are needed where order or reference matters (the
ledger, batches) and one where the question is about one row.  One yearly
period of 2 credits lets two jobs be charged, with 1 credit (`bildirim`) the
balance runs out.  `MaxOlay` bounds crashes, cancellations, settings and
changes of the debt together: 4 allows crash, payment, reopened debt, second
crash.  Two instalments are what a distribution, and a lock that misses one,
needs; three for a plan that is added to one that exists.  Two versions of a
plan show a key that is used again, two days a job of yesterday's rule, and a
second day of a rule a job it was moved away from.  One case is not in the
runs: that a clean-up overwrites a job sent meanwhile needs the clean-up, the
worker and a payment, three requests where `para` has two; the theorem has any
number of them.
Everything else (locks that expire, plans, runs) is unbounded and finite by
itself.  What is proved (section 7) holds without any of these bounds.

`CHECK_DEADLOCK FALSE` in every run: requests are served once, so when all are
decided and all jobs finished there is nothing left to do.

Each property of a passing run has a mutant in `PROJECT.json`: a copy of one
action with a plausible bug (a dropped check, a missing index, a status that is
not written) under which TLC finds the property violated.

## 5. Fairness

`Adalet` in `TahsilatBildirim`, used for the two liveness properties:

- weak fairness of `ClaimDueJobs` for each worker: cron starts a run every five
  minutes (`docs/whatsapp-automation-cron.md`), and a run claims when there is
  something to claim;
- weak fairness of a worker's steps: a process that is not killed goes on, and
  the Graph call has a timeout.  A crash is an action of its own and is not
  fair, nor is a failed statement;
- weak fairness of `KilitBayatlar` and `SaatIlerler`: time passes.

Nothing is assumed of planners, users, Meta's verdict or crashes.

`KuyruktaKalmaz` depends on the 15 minute rule: after a crash the row stays
KUYRUKTA with its lock and only the expired lock brings it back.
`PlanlananIslenir` holds in `bildirim_parti` because the batch is as large as
the number of pending jobs; `bildirim_tikanma` shows that this is needed.

## 6. Where code and documents disagree

1. **An approved request can end as rejected** (`talep_red`).
   `adminReddetWhatsAppMesajPaketTalebi` reads the request, refuses if it is
   approved ("Onaylanmış talep reddedilemez.") and then updates by id without
   the status as a condition.  An approval that commits in between is
   overwritten: the office has the credit and sees a rejection.
2. **A reminder can be sent twice without any failure** (`bildirim_tekmesaj`).
   `createTaksitJobFromRule` sets `lockedAt` to null on a pending job when the
   idempotency key exists, also when the job is KUYRUKTA in the hands of a
   worker.  Every payment makes the API process plan, so a payment at the wrong
   second lets an overlapping run claim and send the job again.  The wallet
   charges once; the client gets two messages.  The document names the
   idempotency key and the job lock as what prevents a repetition.
   `CiftMesajKilitKaybindan` shows the other half: a lost lock is the only way.
3. **Jobs that cannot be sent block those that can** (`bildirim_tikanma`).
   A job whose office is not connected, has no credit or has switched
   automation off is put back to PLANLANDI with the same due time, and claims
   take the oldest first over all offices: once such jobs fill a batch no
   younger job is ever taken.
4. **An instalment can be paid twice** (`vekalet_asim`).
   `createVekaletPesinOdeme` locks the open instalments ("eşzamanlı aşımı
   önler") and then selects the open instalments again.  If an instalment was
   paid when the locks were taken and its payment is cancelled just then, the
   second select returns it, unlocked; a single payment locks it, sees the same
   remainder, and both fill it.  `AsimCakismada` says that this and an edit of
   the amount during a payment are the only two ways.
5. **A cancelled instalment can keep a payment** (`vekalet_iptal`).
   `guvenliSilVekaletTaksiti` refuses an instalment with payments ("Ödeme kaydı
   olan taksit silinemez."), but it looks before its transaction and then
   updates by id; a payment in between stays.  Until that payment is cancelled
   on its own the fee cannot be cancelled: the analysis counts payments of
   instalments that are not cancelled, the cancellation compares with all of
   them (`UcretAnaliz`, `UcretSilOku`), and the owner is told to refresh.

6. **Saving an appointment again loses its reminder** (`randevu_yeniden`).
   `planRandevuJobs` cancels every waiting job of the appointment and then
   creates the jobs of its plan; a key that is taken is "only waiting jobs are
   updated, no second message" - but the waiting job was cancelled just before,
   the update meets none, and the default reminders are gone.

Smaller disagreements and surprises met while modelling, which the modules
describe as the code has them:

- *Attorney fees.* `createVekaletTaksiti` with a number does not compare its
  amount with what is left of the fee (`vAsan`), and the remainder used by it and
  by `updateVekaletTaksiti` counts cancelled payments.
- *Enforcement.* The remainder of a payment counts payments of cancelled income
  (`icraTahsilat.service.ts:964`), and so do the month of the overview and the
  printed report, which can call a debt paid that the list shows as late.  With
  many instalments of a small debt the rounding gives the last one a negative
  amount (`icraTahsilat.service.ts:71`): what is left of the instalments is then
  more than what is left of the debt, and `IcraTutarli` speaks of what is left
  only where no instalment is negative.  An attempt to prove it without that
  condition failed on just this case.
- *Reminders.* Switching a rule or plan off and on again the same day loses that
  day's reminder; changing to a plan of one's own after the default job was sent
  sends a second message; a worker writes PLANLANDI over a job cancelled
  meanwhile when automation is off; KAPALI deletes the plan row, so the next
  OZEL starts at version 1 again; switching automation or a rule off cancels
  nothing.  The same of appointments, where KAPALI leaves the default reminders
  on.
- *Webhook.* `failed` has the lowest rank and never applies to a sent job.
- *Rates.* A payment in the currency of a foreign debt gets reference rate 1,
  whatever `kurSnapshot.ts:88` says; with the bank unreachable and nothing
  cached its bonus base uses rate 1 where other payments are refused
  (PRIM_TRY_RATE_REQUIRED); the stale mark is ignored; a forced refresh with
  today's page unreachable replaces today's bulletin by an older one.
- *Bonuses.* Collections whose income was cancelled still count; a month that
  was paid is no longer marked after its report runs again; tiers with gaps lose
  units.  The schema does not ask that a tier ends above where it begins: a tier
  whose end is below its beginning can follow the one before without a gap and
  make the next one pay units a second time (`primCalc.ts:57`), so
  `PAraliksiz` asks for it; the proof of `PrimTutarli` needs the condition.
- *Cash books.* A correction can be made to a deleted row
  (`createOfisKasaDuzeltme`, `createDuzeltmeKasa` do not look at `deletedAt`);
  a report without an approval filter adds unapproved rows; the list's date
  filter overwrites its text filter; the summary of a case adds currencies.
- *Import.* A commit that overlaps another writes FAILED over COMMITTED; files
  without numbers can be taken over twice; corrections without an original and
  rows without an id are dropped without a word.
- *Administration.* Two super admins may remove each other; deleting an office
  writes its audit row before the deletion that may fail; `updateMuvekkil`
  activates a client who was deactivated meanwhile.

## 7. Proofs

The theorems hold for every set of requests, rows, workers and periods and
every amount, without the bounds of section 4.  Every property that a passing
run checks is also a theorem, but for liveness (section 8).  A run that looks at
one part at a time is a module too (`MCPara`, `MCOfis`, `MCBuro`): a behaviour of
it is, part by part, a behaviour of each part's own specification
(`ParaParcalari`, `OfisParcalari`, `BuroParcalari`), so every theorem about a
part holds in the run, and the types of the whole are those of the parts.

*The argument.*  The same one serves throughout.  A property says nothing of
the requests under way, so it is not inductive: it could be broken from a state
in which a request is about to write something it never read.  The inductive
invariant (`...Inv`) adds what each request has read and relies on, and says
that this **is still so, or the request is marked as overtaken**.  A step that
reads makes a request with true facts; a step that writes marks every other
request whose facts it may change, so nothing has to be shown of them; and the
request that writes either has true facts, and then the property holds after
it, or is marked, and then the history names the row.  Each invariant was a
property of a run before it was proved.  The lemmas are laid out that way: one
lemma for each *shape* of step (a read, a write, an end), and one short lemma
for each action that shows its shape.

| module | theorem | states |
|---|---|---|
| `WhatsAppMesajKrediProofs` | `KrediDegismez` | `KrediInv`, the inductive invariant |
| | `KrediTipi` | `KrediTypeOK` |
| | `BakiyeDogru` | `BakiyeSaglam`: the balance is what the ledger adds up to, and not negative, and so are the totals of the overview (`OzetDegismez`) |
| | `HareketTekrarlanmaz` | `TekHareket`: nothing is booked twice |
| | `IadeHakli` | `IadeTuketimdenSonra`: a refund follows its charge |
| | `KrediSozlesmesi` | `DefterSozlesmesi`: the wallet implements `KrediDefteri` |
| `OfisProofs` | `TalepHepDogru`, `TalepTipi` | `TalepInv`, the inductive invariant; `TypeOK` |
| | `TalepTutarlidir` | `TalepTutarli`: status and credit of a request agree, one request per package is pending |
| | `TalepSozlesmesi` | requests and wallet together implement `KrediDefteri` |
| | `KurDegismez`, `KurTipi`, `KurTutarlidir` | `KurInv`; types; `KurTutarli` |
| | `CaprazHerTutar` | the form's fields agree for every amount and rate, not the small ones of `CaprazTutar` only |
| | `MaliDegismez`, `MaliTipi`, `RaporTutarlidir` | `MaliInv`; types; `RaporTutarli` |
| | `GelenDegismez`, `GelenTipi`, `GelenTutarlidir` | `GelenInv`; types; `GelenTutarli` |
| | `OfisParcalari`, `OfisTipi` | each part of `MCOfis` runs by its own specification; `OfisTypeOK` |
| `TahsilatBildirimProofs` | `BildirimDegismez`, `BildirimTipi` | `BildirimInv`; `TypeOK` |
| | `MesajKredisizGitmez` | `OtomatikMesajKredili` |
| | `KilitKorur` | `CiftMesajKilitKaybindan` |
| | `BitenDogrudur` | `BitenIsDogru` |
| | `CuzdanKurallari` | the rules of the wallet, in the pipeline |
| | `BPlanDegismez`, `BPlanTipiKorunur`, `BPlanTutarlidir` | `BPlanInv`; types; `BPlanTutarli` |
| | `ParaParcalari`, `ParaTipi` | each part of `MCPara` runs by its own specification; `ParaTypeOK` |
| `VekaletTaksitProofs` | `VekaletDegismez`, `VekaletTipi` | `VekaletInv`; `TypeOK` |
| | `GelirHakli` | `GelirinOdemesiVar`: a live income row has its payment, of the same amount |
| | `IptalUcretKapsar` | `IptalUcretteOdemeSonradan`: what a cancelled fee keeps came later |
| | `OnayliGelirKorunur`, `AnalizKapsar` | the action properties `OnayliGelirSabit`, `GorulmeyenIptalOlmaz` |
| | `TutarDegismez`, `AsimYalnizCakismada` | `TutarInv`; `AsimCakismada` |
| `KasaProofs` | `KasaDegismez`, `KasaTipiKorunur`, `KasaTutarlidir` | `KasaInv`; types; `KasaTutarli` |
| | `DonusumsuzDegismez` | a book without exchanges has no row of one, as the client's |
| `ParaProofs` | `KasalarTutarlidir`, `MKasaTipiKorunur` | `KasalarTutarli`: both cash books and the balance of a case; types of the client's |
| | `IcraDegismez`, `IcraTipiKorunur`, `IcraTutarlidir` | `IcraInv`; types; `IcraTutarli` |
| | `PrimDegismez`, `PrimTipiKorunur`, `PrimTutarlidir` | `PrimInv`; types; `PrimTutarli` |
| | `SmsDegismez`, `SmsTipiKorunur`, `SmsTutarlidir` | `SmsInv`; types; `SmsTutarli` |
| | `PlanDegismez`, `PlanTipiKorunur`, `PlanTutarlidir` | `VInv`; types; `PlanTutarli` |
| `BuroProofs` | `OturumTutarlidir`, `OturumTipi` | `OturumTutarli`; types |
| | `OturumSozlesmeyeUyar` | `OturumSozlesmesiTutar`: `Oturum` implements `OturumSozlesmesi` |
| | `TekBuroKurulur` | `TekBuro` |
| | `KadroTutarlidir` | `KadroTutarli` |
| | `LisanslarTutarlidir` | `LisanslarTutarli` |
| | `YedekTutarlidir` | `YedekTutarli` |
| | `AktarimTutarlidir` | `AktarimTutarli` |
| | `BuroParcalari`, `BuroTipi` | each service of `MCBuro` runs by its own specification; `BuroTypeOK` |
| `IletisimProofs` | `IletiTutarlidir` | `IletiTutarli` |
| | `BaglantiTutarlidir` | `BaglantiTutarli` |
| | `RandevuTutarlidir` | `RandevuTutarli` |
| | `SablonTutarlidir` | `SablonTutarli` |

Each part of these two modules also has its `...Degismez` (the invariant; for
templates the lemmas `SablonBaslar` and `SablonIlerler`) and `...TipiKorunur`
(the types; for licences `LisansTipiKorunur`, for sessions `OturumTipi`).
`BuroProofs` EXTENDS `IletisimProofs` to compose all of them.

*What the invariants add*, where it is more than "what was read is still so":

- **Wallet** (`KrediInv`).  The two facts a caller relies on are of different
  kinds: "the charge exists" stays true because the ledger only grows, "no
  refund exists" need not stay true because the unique index asks again.
- **Requests** (`TalepInv`).  Nobody else books a purchase, a request never made
  has no credit, and an administrator who goes on because the credit is there is
  right.
- **Rates** (`KurInv`).  A flight began in this tick or the one before, on a
  bulletin set that is at most as much older; an entry for today that lacks
  today's bulletin lives no longer than the short time after it came, whether it
  was looked up that day (the short time) or, by a fetch that midnight overtook,
  the day before (the long time, which is over when a bulletin can come); who
  finds the bulletin notes it, so a note for today that a good look made means
  that entry and flight have the bulletin or are of the afternoon.
- **Incoming messages** (`GelenInv`).  The message in the hands of a request
  whose row is written has one, and a request without a connection has noted
  every message it still has.
- **Reports** (`MaliInv`).  A payment and its income row name each other until
  one is deleted for good, the row of a cancelled payment is deleted, and only an
  open instalment of an open fee has active payments: that is why the statement,
  which leaves out cancelled instalments, agrees with the summary, which does
  not.  A correction is of a row that is there, and of each fee no more is paid
  than it comes to.  Nothing is assumed of the days: of the two clocks and the
  days of statements the constants say only which rows and due dates are past.  The rest is about any such tables: a sum by case and a sum
  by month are sums over parts of the same rows.
- **Pipeline** (`BildirimInv`).  The worker's use of the wallet is by its own
  actions, so `KrediInv` holds; a job whose lock was never lost is with one
  worker at most, out of every other claim's reach and not yet sent; where a
  worker stands between charge, send, refund and outcome says what is in the
  ledger.
- **Reminders of an instalment** (`BPlanInv`).  A pending job is asked for, and
  due on the day its rule had when it was made, or a request that will cancel it
  is under way.  Of the clean-up nothing need be known, whatever it read: it only
  makes jobs pending no more, and a job it overwrites is still there.  While no
  job of a rule was made today, the day remembered is the rule's own.
- **Instalments** (`VekaletInv`, `TutarInv`).  `KapaliGelir`: a closed income
  belongs to a cancelled payment.  `SilinecekTam`: while a fee is being
  cancelled each active payment is on its list or in `sonradan`.  `YarisTam`: an
  approved income under a pending edit or deletion is in `yaris`.  For the sums:
  an edit, a changed payment and a distribution fit the instalment as they read
  it unless it is in `cakisan`, and two requests never hold the same lock.
- **Cash books** (`KasaInv`).  A row rejected or deleted while it was approved
  was written by a marked request.  The client's book is proved as an instance
  of the office's.
- **Enforcement** (`IcraInv`).  What a request read of an instalment still fits
  it or the request is overtaken, and what was never edited is the split of the
  debt.  The rest is arithmetic of the split: the rounded share times one less
  than their number, with the difference in the last, is the debt; the payments
  of all instalments, of none and of deleted ones are the payments.
- **Bonuses** (`PrimInv`).  A save that waits for its locks has on its list every
  active rule of its scope but its own, or it is overtaken; a report that goes on
  has a rule that applies.  Tiers: in a list without gaps the beginnings grow, so
  each unit belongs to exactly one tier, the first that reaches it, and the
  units of a tier are as many as its share.
- **SMS** (`SmsInv`).  Without a stale write the movements add up to the balance;
  a message whose calls did not overlap has at most one call between provider
  and job; a release implies a job that failed and was never accepted.
- **Plan of a fee** (`VInv`).  The list of a plan request nobody overtook still
  fits beside the instalments there are.  The new rows are the list re-indexed,
  an injection from rows to entries, so they add up to no more than the list.
- **Sessions** (`OturumInv`).  Five shapes of step on a family: open, claim,
  hand over, end, nothing.  The refinement has one mapping per shape.
- **New offices** (`KurulumInv`).  A delivery that goes on saw no office with the
  e-mail, so an office there now was written after its look-up; of any two
  offices with the e-mail the later one was marked.  No name is ever given back,
  so what was taken when the best name of a list was chosen still is.
- **Licences.**  An extension never computes an end before the end it read; a
  request that books a credit holds a period.  At most one run is at an
  untouched reminder row, and what that run still has to do says how many mails
  went out.
- **Messages** (`IletiInv`).  A job gets a message id once; an accepted message
  is stored in the job or still with its sender.
- **Connection** (`BagInv`).  Between what Meta keeps and the row there is a
  request at one of three statements, one that stopped half way, or an
  overwrite.
- **Templates** (`SablonInv`).  Meta gives an id for one name and never again,
  which no variable says once the template is deleted there: the invariant asks
  for a function from ids to names (`SAdli`).  With it, a row that nobody
  overwrote has an id given for its own name, a draft has none, and what Meta
  made for the row has its name and text unless the row owes a write
  (`TBorclu`).  A list a synchronisation has read may lack only what rows asked
  for that changed since.  The catalogue's template is on its row or on its way
  there, and whoever will write that row knows its id or is overtaken (`SHazir`).
- **Appointments** (`RandevuInv`).  A waiting reminder is of the present plan and
  time or a request that is not overtaken will cancel it; a reminder a pass
  holds is locked, held once, and unsent.
- **Backups** (`YedekInv`).  A clean day's snapshot is the manifest's or its
  uploader's; the newest completed day is never removed; a restore knows every
  row that differs from its copy.
- **Import** (`AktarimInv`).  A request nobody overtook knows that its batch is
  only previewed and that its file was not taken over; a number that was made
  says its batch, table and row, so two rows never get the same one.  The types
  (`DSatirTipleri`) need that the rows made so far are finitely many, or the next
  number of a document would be none.

*What proofs found out about the models.*  Overlapping arms of a CASE leave the
choice open, and TLC takes the first: three such cases in `Sablon` say IF now.
The final write of a catalogue submission may go to another row than the one that
was read, and marks both (`THazirKaydet`).  `IcraTutarli` and `PrimTutarli` need
conditions that the code does not enforce (section 6): no instalment is negative,
and a tier ends above where it begins.

*Sums.*  The provers have no induction on data, so the first section
of `WhatsAppMesajKrediProofs` proves what a sum over a finite set does (empty set,
one element more or less, a part is no more than the whole, ...) for all the
other modules, from a set that is least among the counterexamples: the recursive function inside `MapThenSumSet` exists, is
unique, and every law is one step of it.  With them a constant added up is a
product (`ToplaSabit`), and a sum over a set is the sum of the sums of its groups
(`ToplaGrup`): payments by instalment, rows by month, units by tier.

*Assumptions on constants.*  Ids of requests and rows are numbers handed out in
order where the order is used; amounts are positive (`MiktarVarsayimi`,
`TutarAssumption`), which the request schemas give; a package has messages in it
(`PaketVarsayimi`); ids of jobs, periods and payments differ because they are in
different columns, which the model folds into one (`ReferansVarsayimi`); `Yok`
(null) is no row, id, status or name; a file of the desktop program has finitely
many rows and their ids are keys of their tables (`AktarimVarsayimi`), as they
are in its database and as the id maps of the import need; the central bank
publishes at least the long lifetime of an entry after midnight (`KurVarsayimi`:
60 minutes, and the bank publishes in the afternoon); a bonus rule has a tier
(`PrimVarsayimi`, the schema's `min(1)`); the sets that are added up over are
finite (`OdemeAssumption`, `VekaletPlanVarsayimi`, `MaliVarsayimi`,
`IcraVarsayimi`, `PrimVarsayimi`, `SablonVarsayimi`); the names of the switches are distinct.  TLC
evaluates all of them in the runs.

## 8. What is not modelled, and what is only model-checked

*Only model-checked.*  Liveness (`KuyruktaKalmaz`, `PlanlananIslenir`), which
needs fairness and ENABLED and is out of the prover's reach.

*Left out of the modelled parts.*  In the wallet: summaries and lists, which
change nothing but those the overview adds up.  In requests: the mail and the WhatsApp notice to
administrators, which change no row.  In reminders: `simulateOnly`, the send
window, the templates of a rule.  In the webhook: template updates.  In fees: the invoice number that blocks a
cancellation, the numbers of instalments, and two functions no route reaches
(`deleteVekaletTaksitOdeme`, `cancelVekaletTaksiti`).  What an advance payment
reads before its transaction is read again inside it; only the later read is
modelled.  Three simplifications there: an approval is read and written in one
step; the status a cancellation writes is computed when it takes its lock; the
payments of an advance and their status appear together at its commit, computed
from the state then.  In `MaliOzet` rows change by whole requests: how requests
overlap is in the modules that write them; due dates and days of entry stay as
they are, an instalment is the whole fee, and an enforcement claim has one
instalment.  In new offices: deleting an office, and with it the names and the
e-mail it gives back.  Document numbers of cash rows are
decided by a unique index.  In backups: encryption.

*Not modelled.*  See `PROJECT.json`, "components": each part with its status
and the reason.  They are CRUD with one statement per operation, queries,
layout, or input and output around the services.

## 9. Plan

What is left, the most important first.

1. The assignment of a template to a rule and the jobs a disconnection cancels,
   which join `Sablon` and `Baglanti` to `BildirimPlan`.
