------------------------------ MODULE UsageBooks -----------------------------
(***************************************************************************)
(* What responses cost (internal/app/stats.go, price_catalog.go and        *)
(* api_key_costs.go).                                                      *)
(*                                                                         *)
(* The same stored events are summed up three times: as they arrive, for   *)
(* this month and the last; from the beginning when new prices arrive or   *)
(* the server starts; and by a ledger that reads on where it stopped.      *)
(* pricingMu keeps an event from arriving while prices change.  Months go  *)
(* by at any point.                                                        *)
(*                                                                         *)
(* Every event has the same usage, so its cost is the price; price 0 knows *)
(* no price for the model, and the event is counted as unpriced.           *)
(***************************************************************************)
EXTENDS Naturals, FiniteSets, Sequences

CONSTANTS
    Payers,        \* accounts that usage is charged to
    NoPayer,       \* usage of no account
    Readers,       \* admin pages that show the costs of the keys
    MaxPrice,      \* bound: price snapshots
    MaxUsage,      \* bound: events
    MaxMonth,      \* bound: months
    LedgerBatch    \* apiKeyLedgerBatch

ASSUME BooksAssumption ==
    /\ NoPayer \notin Payers
    /\ MaxPrice \in Nat /\ MaxUsage \in Nat /\ MaxMonth \in Nat \ {0}
    /\ LedgerBatch \in Nat \ {0}

VARIABLES
    usage,        \* response_usage, by id
    unsaved,      \* history: events of the running books that were not stored
    books,        \* Stats: month, lastMonth, monthlyCost of accounts, prices
    priceList,    \* priceCatalog.snapshot
    month,        \* time.Now()
    recorder,     \* recordAPIKeyUsage
    repricer,     \* refreshPriceCatalog
    ledger,       \* apiKeyLedger
    reader        \* apiKeyLedger.totals, one per admin page

booksVars == <<usage, unsaved, books, priceList, month, recorder, repricer, ledger, reader>>

-----------------------------------------------------------------------------

Months == 0..MaxMonth
PriceList == 0..MaxPrice
Cost == [paid: 0..(MaxPrice * MaxUsage), unpriced: 0..MaxUsage]
UsageEvent == [at: Months, account: Payers \cup {NoPayer}]
Books == [month: Months, cost: Cost, last: Cost, accounts: [Payers -> Cost], prices: PriceList]

NoCost == [paid |-> 0, unpriced |-> 0]

(* usageCost.add                                                           *)
Plus(cost, price) ==
    IF price = 0 THEN [cost EXCEPT !.unpriced = @ + 1] ELSE [cost EXCEPT !.paid = @ + price]

Opening(m, price) ==
    [month |-> m, cost |-> NoCost, last |-> NoCost,
     accounts |-> [a \in Payers |-> NoCost], prices |-> price]

(* Mutant of Synced: the accounts keep what they cost last month.          *)
SyncedTotals(b, m) ==
    IF m = b.month THEN b
    ELSE [Opening(m, b.prices) EXCEPT !.last = IF m = b.month + 1 THEN b.cost ELSE NoCost,
                                      !.accounts = b.accounts]

(* syncUsageMonth                                                          *)
Synced(b, m) ==
    IF m = b.month THEN b
    ELSE [Opening(m, b.prices) EXCEPT !.last = IF m = b.month + 1 THEN b.cost ELSE NoCost]

Charged(b, account) ==
    [b EXCEPT !.cost = Plus(@, b.prices),
              !.accounts = [a \in Payers |-> IF a = account THEN Plus(@[a], b.prices) ELSE @[a]]]

(* Mutant of Applied: an event always counts for the current month.        *)
AppliedNow(b, e) == Charged(Synced(b, IF e.at > b.month THEN e.at ELSE b.month), e.account)

(* applyUsageAt                                                            *)
Applied(b, e) ==
    CASE e.at + 1 = b.month -> [b EXCEPT !.last = Plus(@, b.prices)]
      [] e.at + 1 < b.month -> b
      [] OTHER -> Charged(Synced(b, e.at), e.account)

(* The books of the stored events: of reprice, and of newPersistentStats.  *)
Rebuilt(m, price) ==
    LET sum[n \in 0..Len(usage)] ==
            IF n = 0 THEN Opening(m, price) ELSE Applied(sum[n - 1], usage[n])
    IN sum[Len(usage)]

BooksInit ==
    /\ usage = <<>>
    /\ unsaved = <<>>
    /\ books = Opening(0, 0)
    /\ priceList = 0
    /\ month = 0
    /\ recorder = <<>>
    /\ repricer = <<>>
    /\ ledger = [month |-> 0, prices |-> 0, lastID |-> 0, cost |-> NoCost, lifetime |-> NoCost]
    /\ reader = [q \in Readers |-> [step |-> "idle", month |-> 0, prices |-> 0]]

Repricing == repricer # <<>> /\ repricer[1].step = "install"

(* Mutant of PricingMuFree: no pricingMu.                                  *)
PricingMuIgnored == recorder = <<>>

PricingMuFree == recorder = <<>> /\ ~Repricing

LedgerMuFree == \A q \in Readers : reader[q].step # "reading"

-----------------------------------------------------------------------------

(* recordAPIKeyUsage: the event is stored, or that fails and is logged.    *)
RecordUsage(account) ==
    LET event == [at |-> month, account |-> account] IN
    /\ PricingMuFree
    /\ Len(usage) + Len(unsaved) < MaxUsage
    /\ recorder' = <<event>>
    /\ \/ usage' = Append(usage, event) /\ UNCHANGED unsaved
       \/ unsaved' = Append(unsaved, event) /\ UNCHANGED usage
    /\ UNCHANGED <<books, priceList, month, repricer, ledger, reader>>

ApplyUsage ==
    /\ recorder # <<>>
    /\ books' = Applied(books, recorder[1])
    /\ recorder' = <<>>
    /\ UNCHANGED <<usage, unsaved, priceList, month, repricer, ledger, reader>>

(* refreshPriceCatalog has fetched prices; reprice reads the events.  When *)
(* the fetch or the read fails nothing changes.                            *)
BeginReprice(price) ==
    /\ repricer = <<>>
    /\ PricingMuFree
    /\ repricer' = <<[step |-> "install", books |-> Rebuilt(month, price)]>>
    /\ UNCHANGED <<usage, unsaved, books, priceList, month, recorder, ledger, reader>>

InstallBooks ==
    /\ Repricing
    /\ books' = repricer[1].books
    /\ unsaved' = <<>>
    /\ repricer' = <<[repricer[1] EXCEPT !.step = "publish"]>>
    /\ UNCHANGED <<usage, priceList, month, recorder, ledger, reader>>

InstallPrices ==
    /\ repricer # <<>>
    /\ repricer[1].step = "publish"
    /\ priceList' = repricer[1].books.prices
    /\ repricer' = <<>>
    /\ UNCHANGED <<usage, unsaved, books, month, recorder, ledger, reader>>

(* snapshot: a dashboard is drawn.                                         *)
DrawSnapshot ==
    /\ books' = Synced(books, month)
    /\ UNCHANGED <<usage, unsaved, priceList, month, recorder, repricer, ledger, reader>>

MonthEnds ==
    /\ month < MaxMonth
    /\ month' = month + 1
    /\ UNCHANGED <<usage, unsaved, books, priceList, recorder, repricer, ledger, reader>>

(* The server ends and starts again, with no prices yet.                   *)
RestartBooks ==
    /\ priceList' = 0
    /\ books' = Rebuilt(month, 0)
    /\ unsaved' = <<>>
    /\ recorder' = <<>>
    /\ repricer' = <<>>
    /\ ledger' = [month |-> 0, prices |-> 0, lastID |-> 0, cost |-> NoCost, lifetime |-> NoCost]
    /\ reader' = [q \in Readers |-> [step |-> "idle", month |-> 0, prices |-> 0]]
    /\ UNCHANGED <<usage, month>>

(* Prices and time are read before the ledger's mutex.                     *)
AskTotals(q) ==
    /\ reader[q].step = "idle"
    /\ reader' = [reader EXCEPT ![q] = [step |-> "waiting", month |-> month, prices |-> priceList]]
    /\ UNCHANGED <<usage, unsaved, books, priceList, month, recorder, repricer, ledger>>

(* Mutant of LedgerIsStale: prices may change under the ledger.            *)
LedgerMonthIsStale(q) == ledger.month # reader[q].month

LedgerIsStale(q) == ledger.month # reader[q].month \/ ledger.prices # reader[q].prices

OpenLedger(q) ==
    /\ reader[q].step = "waiting"
    /\ LedgerMuFree
    /\ reader' = [reader EXCEPT ![q].step = "reading"]
    /\ ledger' = IF LedgerIsStale(q)
                 THEN [month |-> reader[q].month, prices |-> reader[q].prices, lastID |-> 0,
                       cost |-> NoCost, lifetime |-> NoCost]
                 ELSE ledger
    /\ UNCHANGED <<usage, unsaved, books, priceList, month, recorder, repricer>>

Entered(l, e, price) ==
    [l EXCEPT !.lastID = @ + 1, !.lifetime = Plus(@, price),
              !.cost = IF e.at >= l.month THEN Plus(@, price) ELSE @]

(* The ledger after the events up to last, one after the other.            *)
Batch(last, price) ==
    LET read[n \in ledger.lastID..last] ==
            IF n = ledger.lastID THEN ledger ELSE Entered(read[n - 1], usage[n], price)
    IN read[last]

(* One batch; a short one is the last.  A read that fails ends the page.   *)
ReadBatch(q) ==
    LET first == ledger.lastID
        last == IF first + LedgerBatch < Len(usage) THEN first + LedgerBatch ELSE Len(usage)
    IN
    /\ reader[q].step = "reading"
    /\ \/ /\ ledger' = Batch(last, reader[q].prices)
          /\ reader' = [reader EXCEPT ![q].step = IF last - first < LedgerBatch THEN "idle" ELSE @]
       \/ /\ reader' = [reader EXCEPT ![q].step = "idle"]
          /\ UNCHANGED ledger
    /\ UNCHANGED <<usage, unsaved, books, priceList, month, recorder, repricer>>

BooksNext ==
    \/ \E a \in Payers \cup {NoPayer} : RecordUsage(a)
    \/ ApplyUsage
    \/ \E p \in 1..MaxPrice : BeginReprice(p)
    \/ InstallBooks \/ InstallPrices
    \/ DrawSnapshot \/ MonthEnds \/ RestartBooks
    \/ \E q \in Readers : AskTotals(q) \/ OpenLedger(q) \/ ReadBatch(q)

BooksSpec == BooksInit /\ [][BooksNext]_booksVars

-----------------------------------------------------------------------------
(* Properties.                                                             *)

BooksTypeOK ==
    /\ usage \in Seq(UsageEvent) /\ unsaved \in Seq(UsageEvent)
    /\ Len(usage) + Len(unsaved) <= MaxUsage
    /\ books \in Books
    /\ priceList \in PriceList
    /\ month \in Months
    /\ recorder \in Seq(UsageEvent) /\ Len(recorder) <= 1
    /\ repricer \in Seq([step: {"install", "publish"}, books: Books]) /\ Len(repricer) <= 1
    /\ ledger \in [month: Months, prices: PriceList, lastID: 0..Len(usage),
                   cost: Cost, lifetime: Cost]
    /\ reader \in [Readers -> [step: {"idle", "waiting", "reading"}, month: Months,
                               prices: PriceList]]

CostOf(n, price) == IF price = 0 THEN [paid |-> 0, unpriced |-> n]
                    ELSE [paid |-> n * price, unpriced |-> 0]

(* How many of the first n events of a sequence are in a set.              *)
Count(events, n, E) == Cardinality({i \in 1..n : events[i] \in E})

Of(m) == {e \in UsageEvent : e.at = m}
OfAccount(m, a) == {e \in Of(m) : e.account = a}
Before(m) == {e \in UsageEvent : e.at + 1 = m}
From(m) == {e \in UsageEvent : e.at >= m}

(* Every event that was stored, and those that could not be.               *)
Counted(E) == Count(usage, Len(usage), E) + Count(unsaved, Len(unsaved), E)

(* Between two calls the running totals are those of the stored events at  *)
(* the current prices, each counted once and in the month it happened:     *)
(* neither new prices, nor the end of a month at any point, nor a restart  *)
(* loses an event or counts one twice.  Only what could not be stored is   *)
(* in the totals until they are rebuilt.                                   *)
BooksBalance ==
    recorder = <<>> =>
        /\ books.cost = CostOf(Counted(Of(books.month)), books.prices)
        /\ books.last = CostOf(Counted(Before(books.month)), books.prices)
        /\ \A a \in Payers :
            books.accounts[a] = CostOf(Counted(OfAccount(books.month, a)), books.prices)

(* The ledger that reads on agrees with a full count of what it has read,  *)
(* for the month and the prices it was opened with: a page with other      *)
(* prices or another month, or a read that fails, leaves no trace in it.   *)
LedgerAgrees ==
    /\ ledger.lifetime = CostOf(ledger.lastID, ledger.prices)
    /\ ledger.cost = CostOf(Count(usage, ledger.lastID, From(ledger.month)), ledger.prices)
    /\ \A q \in Readers : reader[q].step = "reading" =>
           ledger.month = reader[q].month /\ ledger.prices = reader[q].prices

(* Three sums over the same events agree with the events, and so with each *)
(* other, however prices, months, restarts and pages overlap.              *)
BooksAgree == BooksBalance /\ LedgerAgrees
=============================================================================
