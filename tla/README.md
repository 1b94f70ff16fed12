# A TLA+ model of Dufaka-Go

Dufaka-Go is a shop for digital goods: a buyer orders cards (or goods delivered by hand),
pays through WeChat Pay, a cldx wallet or USDT, and gets the cards' text in the order page.
One Go process serves the storefront and the back office over PostgreSQL; a background tick
expires unpaid orders and asks the wallets for payments. The modules here model the parts
where several of these actors meet over the same rows or the same memory.

## 1. The system

| part | state | operations | meets |
| --- | --- | --- | --- |
| checkout, settlement, expiry (`internal/store/store.go`) | rows of `orders`, `carmis`, `goods`, `coupons` | `CreateOrder`, `Complete`, `Redeliver`, `ExpireDue` | each other, through row locks; the back office; gateways |
| back office (`internal/admin/sales.go`, `catalog.go`) | the same rows; forms open in the owner's browser | order form, redelivery, card import/edit/delete, goods and coupon forms | the storefront, through the rows |
| row locks | PostgreSQL's lock table | every transaction | all of the above |
| receipt throttle (`internal/httpx/cldx.go`) | one map entry per order | `get`, `lead`, `prune`, `forget` | cashier pages, the tick |
| wallet polling (`internal/store/cldx.go`, `internal/httpx/cldx.go`) | `cldx_polled_at` of the orders | `WaitingSNs`, `SyncCldx`, stamps | cashier pages, expiry |
| settings (`SiteOK` in `store.go`, `internal/admin/system.go`) | the `settings` rows; the parsed cache, its expiry and generation | `SiteOK`, `InvalidateSite`, `settingsSave` | every request, the tick, two administrators |
| tick and boot (`cmd/dufaka/main.go`) | one flag | `runTick`, `tickLoop`, boot checks | expiry, polling, settings |
| prices (`internal/order/price.go`) | none | `ParseYuan`, `WholesaleOff`, `Quote` | checkout |
| unpaid quota (`unpaidQuota`) | advisory locks, unpaid orders | its count inside the checkout | checkout, expiry |
| rate limits (`internal/httpx/limit.go`) | a window per address, one shared overflow | `allow`, `sweep` | checkouts and lookups |
| sign-in (`internal/admin/auth.go`) | the login limiter's map | `reserveMax`, `release`, `fail`, `clear` | each other, a failing database |
| cashiers (`internal/httpx/cldx.go`, `usdt.go`, `internal/pay`) | quote or invoice on the order's row | `cldxPay`, `cldxLaunch`, `usdtPay`, receipts | the throttle, settlement, expiry |
| WeChat Pay (`internal/pay/wechat.go`) | none | QR, notice | settlement |
| installer (`internal/install`, `doInstall`), start of the process (`main`) | configuration file, tables, administrators, environment, the running handle | `guard`, `doInstall`, `Run`, `SaveConfig`, `main` | each other, crashes |
| schema upkeep (`EnsureSchemaOnce`) | columns and indexes | idempotent DDL at boot and in the tick | the tick |
| pages, sessions, groups, channels | rows one form writes | lists and forms | nothing concurrent |

What makes the program hard, and what each part must get right, is listed line by line in
`PROJECT.json` under `hazards`. In short: payments come late, twice or with another amount;
`ExpireDue` works on a list read before its transactions; checkout reads before it locks;
forms write back what a page showed a while ago; `SKIP LOCKED` silently passes over rows;
the process may die between any two commits; a wallet call may be slow, panic or outlive
the request that started it; a slow read may race an invalidation.

## 2. The modules

### `Ledger` and `BackOffice`: orders, cards, stock and coupons

`Ledger` has one variable per column that matters (`status`, `resv` for
`carmis.reserved_order_id`, `inStock`, `ret`, ...), and one action per transaction of
`internal/store`. `BackOffice` extends it with the owner's pages and a restart, and holds the
specification (`Spec`, `FairSpec`) and the properties.

*Grain of atomicity.* A transaction is one step from its first row lock to its commit: it
locks each row before it reads it, and all writers of a goods' cards hold the goods row. What
the code reads outside such locks is a step of its own: `BeginCheckout` (goods, loop cards)
before `PlaceOrder`; `ListDue` before each `ExpireOne`; the order form in three steps
(`ShowOrder`, `PostOrder` with its fresh `loadOrder`, `SaveOrder` with the compare-and-set on
the status); the goods form in two. The statements that may hold a card's row lock while a
settlement skips it (`carmiSave`, card delete) are two steps, `LockCard` and its outcome.
`Locks` checks what this grain takes for granted.

| code | actions |
| --- | --- |
| `createOrder` | `BeginCheckout`, `PlaceOrder`, `RefuseCheckout` |
| `settle` through `Complete` | `Complete` = `DeliverCards`, `TakeManual` or `SettleShort` |
| `settle` through `Redeliver` | `Redeliver` |
| `ExpireDue`, `expireOne` | `ListDue`, `ExpireOne`, `SweepFails` |
| `orderDetail`, `orderSave` | `ShowOrder`, `PostOrder`, `SaveOrder`, `LeaveOrder` |
| `carmisImport`, `carmiSave`, card delete/restore | `ImportCard`, `LockCard`, `EditCard`, `DeleteOrRestoreCard`, `UnlockCard` |
| `goodsEdit`, `goodsSave`, goods delete/restore | `ShowGoods`, `SaveGoods`, `DeleteOrRestoreGoods`, `LeaveGoods` |
| `couponSave`, coupon delete/restore | `SaveCoupon`, `DeleteOrRestoreCoupon` |
| a crash or restart | `Restart` |
| the buyer and the clock | `BuyerPays`, `GrowOld` |

`booked`, `soldTo`, `granted` and `supply` are history variables: no guard reads them except
the bound on what the owner puts up. A refused checkout frees its order row for another
buyer, so few rows stand for many checkouts.

`ShopService` is what all of this amounts to for a buyer: an order goes from none to open, to
expired or paid, and to done, each in one step and never back; cards are set aside for one
order at most, given to one order for good, and only against the exact amount. It knows no
statuses beside these, no locks, lists, forms or crashes. `BackOffice` maps its rows to it
(`Stage`, `Reserved`, `soldTo`) and claims `ImplementsShopService`. Loop cards, which stay on
the shelf, are not given away there; counts of stock, coupons and sales are properties of
`BackOffice` alone.

### `Locks`: the row locks below

Each transaction is the sequence of row locks its statements take (`Program`), one lock per
step, with PostgreSQL's modes, queueing, `SKIP LOCKED`, foreign-key `FOR KEY SHARE` locks and
the advisory locks of the unpaid quota. Of the data only what decides which rows a statement
touches is kept.

### `ReceiptThrottle`

One order, several callers, entries named by the caller that started them. `Finish` is
`lead`'s deferred bookkeeping with its two outcomes (kept; dropped after a panic or a
cancellation). The comment on `receiptThrottle` (`cldx.go:27`) says that one fetch per order
is in flight at a time. `forget` (`cldx.go:148`) deletes the entry of a fetch in flight too,
when a settlement by another path ends meanwhile, and the next caller then starts a second
one beside it. `SingleFlight` and `NotHammered` state what does hold: only a delivery can
make that happen. Nothing is harmed, as settlement is idempotent (`SalesCountedOnce`,
`NoCardSoldTwice`). `Complete` has three outcomes: settled and about to forget; not settled;
and settled although nothing is forgotten, because `db.Complete` returned an error all the same
(a short settlement on cldx, or a commit whose reply was lost; the USDT path forgets after a
short one too, `usdt.go:90`).

### `Cashier`

The pages of one order over `ReceiptThrottle`, whose callers settle it. A tab goes through
`Open` (`gateway` reads the order), then `Price` and `LockCldxQuote` for cldx, or `LockUSDTRow`
and `CreateInvoice` for USDT, whose invoice is made over HTTP while the row is locked; so
`Settles` and `Expires` wait for `RowFree`. The wallet may quote a different amount at each
question. `shown` remembers every amount a page or a launch link has shown. The deadline on
the row and the one of the sweep are one: an owner who changes the expiry time while an order
waits is left out, and so are addresses, signatures and the QR image.

### `UnpaidQuota`, `RequestLimit`, `Price` and `Admission`

What stands between a request and an order. `UnpaidQuota` is the checkout's transaction
seen from its advisory locks: keys are sorted, every email key sorts before every source
key, the count is a statement after the locks. PostgreSQL fixes `now()` when a transaction
begins, so an order's age runs from there and a count that waited for its locks is as of its
beginning. `RequestLimit` is `ipLimiter`: fixed windows, a table of bounded size, and the
overflow window shared by addresses that find it full. `Price` is arithmetic on cents;
machine integers wrap at `IntMax`, in `mul` and in `ParseYuan`. `Admission` runs the three by one address and one clock:
a request spends from its window before its transaction begins, and an address nobody
forwarded is neither limited nor counted. Lines and texts that do not parse are left out of
`Price`, and the poll limiter, whose overflow of 0 lets requests through untracked, is not
modelled.

### `LoginLimit`

`loginLimiter` and `login` around it: `Reserve` or `TooManyTries` (`reserveMax`), then
`LookupFails` (`release`), or `LooksUp` and one of `WrongPassword` (`fail`) and `SignsIn`
(`clear`). `guesses` remembers the reserved attempts by age. `strayed` marks an address where
the database failed so late that a reservation was handed back to a newer entry: `release`
goes by the key alone, so such an address may get a guess more, and `GuessesBounded` leaves it
out. The delay of an account with many failures takes time and changes nothing.

### `WalletPoll`

Orders come and go without end, so a waiting order is known by its place among the waiting
rows in the order of their ids: `RowQuoted` (`LockCldxQuote`) fills the first free slot with an
order never polled, `RowExpires` moves one to the late bucket, `RowLeaves` (settled, or past
the late window, which may end at any moment) moves the younger ones down. Stamps matter only
by their order, so they are ranks without gaps, and `now` is the rank of the present second;
with both the state space is finite whatever the run's length. Ids are taken to grow in the
order of the quotes. An order made earlier and quoted later would take a slot among the others;
before a given order that happens finitely often.

`Quota`, `ListedBefore` and `WaitingSNs` are the SQL of `WaitingSNs`; the list is given by the
`Place` of each order, which is what `ORDER BY` makes it. Its fractions are compared after
multiplying out. A tick takes the orders of its list one by one: `AskHead` is a wallet call of
its own, stamped whatever came of it; `PassHead` is every way past an order without a stamp (it
has left, a lookup failed, the answer came from another caller's fetch, the stamp itself
failed). A call and its stamp are one step, so the stamps of one tick follow its list; the
workers may set them in another order within the tick. What a paid answer leads to is in
`Cashier` and `Ledger`.

### `SiteService`, `SiteCache` and `Settings`

`SiteService` is what `SiteOK` promises: an answer is a save no older than the last one
reported when the call began, or "cannot be read", and the sweep acts on such an answer only.
It knows nothing of caches. `SiteCache` is the code under that promise. The settings are a
version number; a load sees one version because it is one `SELECT`. `Commit` may lose its
reply: then the save reports an error and does not invalidate, and the old settings last
until `siteCacheTTL`. `told` and `begun` remember what was reported when. The refinement
(`ImplementsSiteService`) maps a caller's step in the cache to a call that waits or has its
answer; a load that is stored although the cache was invalidated, or an invalidation that
leaves the generation, breaks it.

`Settings` puts the rows under the version number. `settingsSave` reads all settings, applies
the form, and upserts every key in the order in which a Go map happens to give them, each
upsert waiting for the rows another save has written. Two saves may wait for each other;
PostgreSQL then ends one (`Victim`). Its `CommitSettings` is `SiteCache`'s `Commit`, and
nothing else writes, so `SettingsSpec` implements `SiteCache`. A password left blank keeps the
one read *before* the transaction (`applySettings`: "Blank keeps the stored SMTP password"):
if another save commits in between, the older password comes back over it. `raced` marks such
a save, and `SavesAreWhole` speaks of the password only where none happened. This is the one
field that a save can put back without anybody having typed it.

### `Installer`

Any number of requests to install beside each other, each going through `guard` (`Post`),
`doInstall` (`Enter`), `writable` (`Probe`, `Unprobe`), `Run` and its transaction, `SaveConfig`
(`OpenConfig`, `WriteConfig`) and the end of `doInstall` (`SetSessionKey`, `SetDB`). Any step
may fail, the database may not answer, and the process may die between any two and start
again (`Boot`). `tables` counts how far `schema.sql` got: 1 is an empty database, 2 has
`admin_users`, 3 has `settings` and all that the transaction writes, 4 has the rest. A session
key is random, so it is named by the request that made it. `DUFAKA_SESSION_KEY` is taken not
to be exported; `DUFAKA_DATABASE_URL` may be (`env`). `main` gives `base` a value before any
request, so `doInstall`'s assignment to an empty `a.base` is never made and is left out.

Three things the model shows the code to do, which no text of the repository denies and which
no property forbids:

* two installs at once may both commit, each having counted no administrator (the two user
  names must differ), and the config file, the session key and the running handle may then be
  of different ones; hence `lone` in the last two properties;
* if `applySchema` stops after `CREATE TABLE admin_users` and before `settings`, the next
  request finds `admin_users`, passes over the schema and fails at its `settings` row, for
  ever: such a database must be dropped by hand (`InstalledIsUsable` says that no
  administrator is ever committed into one);
* if the process dies while the config file is cut off, or two requests write it at once, it
  may be left empty or not JSON, and every start ends in `log.Fatal` until it is removed.

## 3. Runs

| run | shows | bounds |
| --- | --- | --- |
| `shop_desk` | `ReservationsExact`, `NoCardSoldTwice`, `OnlyPaidOrdersProgress`, `DeliveredTextKept`, `ImplementsShopService`, `InTimeNeverShort` | two orders of up to two of two cards (one in stock, one to import), card edits, one desk; pages posted while still current |
| `shop_manual` | `StockConserved`, `UnpaidEnds`, `PaymentsRecorded` | two orders and a legacy one, stock two, one desk, stale pages |
| `shop_catalog` | `TypeOK`, `CouponUsesConserved`, `SalesCountedOnce` | two orders, one coupon, goods and coupon forms |
| `admission` | `TypeOK`, `QuotaKept`, `FloodBounded`, `PricesAreExact`, `PricesSurviveText` | three checkouts, two emails, two addresses and the unknown one, quotas and request limit of two, a table of one, overflow one; integers to 255, prices to 20 cents |
| `login` | `TypeOK`, `GuessesBounded`, `BlocksEnd` | two sign-ins at a time, one address and the shared key, an account, budgets of two, a map of one |
| `cashier` | `TypeOK`, `SingleFlight`, `QuotesAgree`, `SettledByTheQuote`, `NotHammered`, `EveryCallReturns`, `EveryPageComes` | two tabs, two callers, two amounts |
| `locks` | `NoDeadlock`, `PassesOverEditsOnly` | two transactions, two orders, two goods, two cards, a coupon, amount two |
| `poll` | `ListIsFull`, `PrefixesAreShared`, `NeverStarved` | up to four orders waiting at a time, shares two and one, a deadline after two, a cashier page open for the oldest |
| `site` | `FreshAfterSave`, `SweepsBySavedSettings`, `SavesAreWhole`, `ImplementsSiteService`, `EverySaveEnds` | a reader and the tick, two administrators, two saves, two keys of which one is the password |
| `install` | `InstalledIsUsable`, `ClosedOnceDone`, `RestartsIntoTheSameShop` | three requests, two user names, two databases of which one may be exported |
| `shop_loop_race` | violates `LoopOrdersAreSingle` | a loop card added between count and lock |
| `login_outage` | violates `OutageLocksNobodyOut` | two sign-ins waiting for a database that fails, and one more |

*Why the bounds are enough.* The shop's interference is pairwise: two buyers over one card,
a payment against an expiry, a form against a delivery. Two order rows, reused after a
refusal, with an amount of up to two and one card fewer than the demand, make every shortage,
late payment, partial reservation and redelivery happen. One goods is enough in `Ledger`
because no transaction of the storefront touches two; `Locks`, where two goods share a coupon,
has two. The lock cycles the code's comments speak of are between two transactions; that none
needs three is proved (`NoDeadlockEver`). A save that deadlocks or is overtaken needs one other
save and two keys. Three install requests are two at once and a later one, or a later one after
a lone one. Two throttle callers are a leader and a waiter, or one that comes after a forget;
what three could do is covered by the proofs. Two
tabs race for a quote. Three checkouts are one more than each quota. A table or map of one is
full as soon as one address is in it. Four orders overfill a list of three. `MaxStock`,
`MaxUses`, `MaxAmount` and `MaxVersion` bound counters; the owner changes a stock by at most
one at a time.

Orders and cards are symmetric (`MCShop`, `MCLocks`): no definition compares or names them;
legacy orders are left out of the symmetry. So are the checkouts, emails and addresses of
`admission`. Runs with temporal properties use none, except for box-action properties.
`CHECK_DEADLOCK FALSE` is set only where everything really may be over: all callers have come
back and the order is settled or expired (`cashier`, `poll`).

*Fairness.* `shop_manual`: the tick reads its list every 30 seconds (`WF` of `ListDue`), a
row's failure is not permanent, so a row that is listed again and again is expired at some
time (`SF` of `ExpireOne`; a failing row ends the pass, but the next one starts anew), time
passes for an unpaid order (`WF` of `GrowOld`), and gateways repeat a notice until answered,
as the tick and the cashier page repeat the wallet's question (`GatewayRepeats`;
`wechatNotify` answers success only after `Complete` has committed). Nothing is assumed of
buyers or of the owner. `cashier`: goroutines run, a fetch ends by `receiptFetchTimeout` and
an invoice within ten seconds, a transaction ends, and PostgreSQL queues for a row's lock (`SF`
of `LockUSDTRow`); nothing is assumed of a caller's patience. `site`: a settings transaction
goes on, a row that is free is given to one that waits, and PostgreSQL's deadlock detector ends
a circle (`SF` of `Saves`); nothing is assumed of readers, of the expiry of the cache or of
invalidations. `login`: time passes. `poll`:
ticks start, workers go on, and seconds pass (stamps have a resolution of one second and ties
break by id). An order the ticks come to again and again is asked about at some time (`SF` of
`TickAsks`): what keeps a worker from it is an error of the database or a page that asks about
the same order just then. Nothing is assumed of arrivals, expiry, payments or pages.

*What the poll promises.* `cldx.go:201` and `docs/ARCHITECTURE.md:184` say that a slow wallet or
a backlog of unpaid orders can slow late payments down but never starve them. `NeverStarved` is what the code keeps of that under a stream of new orders: an
order that stays is asked about a first time, however many orders arrive; and the other
bucket's arrivals never keep it from being asked again, so live orders without end do not
starve late ones. Within a bucket, though, `NULLS FIRST` puts every order never asked before all
that were. If new ones enter one bucket for ever as fast as ticks get through it, an order
there that was asked once is not asked again while that lasts; for the late bucket these would be
orders that expired before any tick or page asked about them. `NeverStarved` exempts exactly
this (`Overtaken`); without the exemption TLC finds such a behaviour at once. The stream must
never stop, while an order waits at most for its deadline and the late window, so this is a
limit of the promise more than a fault.

*Findings.* The two violations are differences between what `docs/ARCHITECTURE.md` or a
comment says and the code; `PROJECT.json` quotes the lines. `createOrder` counts loop cards
before it locks the goods. `reserveMax` blocks an address that has as many attempts *waiting*
as it may have failures, and a block is not undone when `release` hands the attempts back:
five sign-ins that wait for a failing database and a sixth lock the address for 15 minutes,
although no password was wrong.

Two writes of the back office put back what their page showed, and have no run of their own.
`orderSave` writes the 订单详情 text of its page: it compares the status, but with the one it
re-read during the same post, so a page shown while an order was 异常 and posted after 重新发货
takes the delivered text off the order (`docs/ARCHITECTURE.md:200` says that the text is kept
there). `goodsSave` writes the stock number of its page over every sale and expiry since.
`shop_desk` and `shop_catalog` therefore post pages while they are current (`StaleForms =
FALSE`); with `StaleForms = TRUE`, `DeliveredTextKept` fails in the first and
`SalesCountedOnce` in the second. `shop_manual` has no goods form, which would make it too
large; that a goods page posted while current keeps the stock is proved (`StockIsConserved`).
The number of uses typed into the coupon form is taken for the owner's new grant, at the moment
of the save.

Every property of a passing run has a mutant in `PROJECT.json`: the `Mut...` operator beside a
definition is that definition with a plausible mistake, and makes TLC report the property.

## 4. Proofs

TLAPS proves the following for any number of rows, callers, readers and so on. Except where a
condition is named, the only assumptions are the modules' `ASSUME`s: orders, cards, sign-in
requests and accounts are finite sets, the rows of different tables differ, null values are not rows, amounts, initial
stocks, quotas and ages are natural numbers, and the addresses that the request limiter and the
quota go by are the same.

* `ShopProofs`, reservations: `TypeCorrect`, then `ReservationsAlwaysExact`. The latter is inductive
  only together with `TypeOK` and `FormsHonest`: an order form that has been posted but not yet
  saved carries a move `orderSave` allows. Without it a save could take an order out of a
  reserving status by any route, and the release of its cards could not be shown to happen.
* `ShopProofs`, payments: `OnlyPaidAlwaysProgress`, `PaymentIsNeverUndone`, `InTimeIsNeverShort` and
  `NoCardIsSoldTwice`. The argument is one case split, `Moves`: whatever the step, it leaves an
  order alone, puts it to waiting for payment, settles it, or moves it by the owner's form.
  The strengthenings are `RecordedMeansProgress` (a recorded payment is past the waiting
  statuses), `ReservedIsPickable` (a reserved card is one the settlement's query would take)
  and `RowLocksHonest` with `CardsSafe` (a card edit in progress only ever holds an unsold
  card, so what it writes back cannot revive one that is sold).
* `ShopProofs`, conservation: `CouponUsesAreConserved` without a condition; `SalesAreCountedOnce` and
  `StockIsConserved` when no goods page is posted stale (`FreshPages`), `DeliveredTextIsKept`
  when no order page is (`~StaleForms`): a stale page really does write over what happened
  since (section 3). They rest on what keeps a second taking or handing back out: nothing is
  handed back before an order expired (`NothingBackYet`), a posted form fits its order's type
  (`FormsFit`), a manual order the owner moved on never comes back to 异常 to take its stock
  again (`ManualStaysMoved`), and an order counted in `sales_volume` is never settled again
  (`BookedFits`, `SoldOnce`). Counts are cardinalities of sets of units, so that one order
  more or less is one lemma (`UnitsAt`).
* `ShopProofs`, the promise: `ShopIsItsService`. The refinement holds on the states of the
  invariants above, and each of them is needed: exact reservations, so that what expiry, a
  settlement or a save releases is all the order was promised; honest forms, so that a save
  moves paid orders only; that orders past waiting are paid, for a redelivery, which does not
  look at the amount again; and that sold cards stay off the shelf, so that what is delivered
  was nobody's. `PaymentIsNeverUndone` says the same of the `trade_no` column.
* `SiteProofs`: `AlwaysFreshAfterSave` and `SweepsAlwaysBySavedSettings`. The invariant says
  what the generation stands for: while a load's generation is current, nothing was reported
  since its call began. `CacheImplementsService` is the refinement: a call that is loading is
  one the service has not answered, and the invariant gives the answer's bounds.
  `SettingsImplementSiteCache` takes these theorems to the rows, and `SavesAreAlwaysWhole` is
  inductive with three facts: of two transactions only one has written a given key, one that
  nobody overtook still holds the password it read, and values are those of its own form.
* `InstallerProofs`: `InstalledAlwaysUsable`, `ClosedForGood` and
  `AlwaysRestartsIntoTheSameShop`. The first needs that a transaction that wrote its settings
  found the table. The others are inductive with what is known of a lone request on its way
  (`LoneRun`: nobody has the config file open beside it, so what it wrote is there when it sets
  the session key) and after (`DoneRun`: a saved config keeps the guard shut for whoever finds
  the site not installed, and who finds it installed is sent away by `doInstall`, because the
  flag is only reset by an install that ends).
* `AdmissionProofs`: `AdmissionTypeCorrect` (the limiter's table keeps its bound, which
  `LimitInv` carries with the finiteness of the table), `QuotaIsAlwaysKept` and
  `AdmissionImplementsQuota`, by which the theorem about `UnpaidQuota` holds behind the
  request limiter. `QuotaKept` alone is not inductive.
  `LocksExclusive` says that of the transactions past a lock only one has its key;
  `CountsStand` that once one of them has counted, what it counted stays within the quota
  until it commits: others with its key cannot place, what leaves only helps, and time only
  makes orders older; `WaitsAreShort` keeps every transaction's age within `MaxWait`, so that
  ages cut off at `MaxAge` count for nobody.
  `FloodIsBounded` bounds what one process lets through in any span of a window. Places
  change hands within a span, so the bound cannot be had by counting addresses. What is
  inductive, for every `t` up to the window: of the last `t` steps' requests, each place of the
  table accounts for a `Share` that depends on how old its window is, a free place for what
  the window it held may have left, and the overflow window for its own (`FloodInv`).
  `QuoteExact` and `YuanBack` are about `Price` alone, for every list of tiers and every
  integer (but the least one, whose negative does not exist, in `YuanBack`): no product wraps because `Multiplies` is asked first, the fold of `BestTier` finds the best
  of the tiers reached, and text written by `Yuan` is read
  back unchanged, `-0.50` included. `PricesAreAlwaysExact` and `PricesAlwaysSurviveText` state
  them of the admitted checkouts.
* `LoginProofs`: `GuessesAreBounded` and `LoginTypeOK`. The guesses an address got in a span
  come from its current entry and the one before. An entry counts no fewer attempts than are
  charged to the time since it was opened, and what is older is what the previous entry left
  (`LiveEntry`); a block outlasts everything before it (`BlockedEntry`). An attempt of exactly
  the window's age is no guess any more but may still be handed back to the entry it opened,
  so it stays charged until then: without that the invariant is not inductive.
* `SumLemmas`: the two limiters' windows are sums of a function over a finite set or over
  `0..n`. The library's induction theorems take an operator as a parameter, which the provers
  cannot instantiate, so induction is stated here with a *set* of good elements
  (`FiniteInduction`, `NaturalInduction`, from the well-foundedness of proper inclusion), and
  what a recursive sum does when one value changes follows from it.
* `CashierProofs`: `CashierImplementsThrottle` (every step of the cashiers is a step or a
  stutter of `ReceiptThrottle`, so the theorems below hold there too), `CashierTypeCorrect`
  (never two invoices in the making), `QuotesAlwaysAgree` and `AlwaysSettledByTheQuote`. The invariants are `ChannelsApart` (an order has one kind of
  cashier, so no invoice is in the making beside a cldx quote, and a USDT row is locked by one
  tab) and `PaidMeansMatches` (an answer "paid" stays true of the quote, which never changes
  once it is set).
  Of the throttle itself: `ThrottleTypeCorrect`, `FetchesAreShared`, `WalletIsNotHammered`. All
  rest on one fact: an entry in flight or fresh is the one in the map, unless a delivery forgot
  it.
  Of the poll: `ListIsAlwaysFull`, `PrefixesAreAlwaysShared`, `PollTypeCorrect`. In a finite set
  under a strict total order a rank is a bijection onto `1..n` (`Ranks`), so of a bucket as many
  are picked as its quota or the bucket itself has (`LowestOf`), and the quotas add up to the
  limit or take everything (`PickedSize`). The mixed `ORDER BY` is such an order too
  (`ListRanks`): a late order that a prefix leaves out has the next late rank, and every live
  order of the prefix comes before it, which bounds their number (`PrefixShared`). The stamps
  stay ranks because as many different stamps as there are rows at most lie below any
  (`RankOfStampType`).
* `LocksProofs`: `NoDeadlockEver` and `OnlyEditsPassedOver`, for any number of connections and
  rows. Who waits is on one of five levels by the row it waits for (an order, an email or the
  card of an edit; a source; a goods; a coupon; a reserved card), and whoever holds that row
  conflictingly has come further (`WaitsUpward`). The tables alone give no such order, since a
  checkout locks its cards before its coupon and a settlement its coupon before its cards. So
  the invariant also says whose cards a transaction holds (`Carries`): those a checkout picked
  are nobody's yet, those someone waits for are reserved by an order whose lock he holds. What a
  transaction has locked or waits for also fixes the statement it stands at (`AskedInTurn`,
  `InTurnAsks`), and a commit changes nothing another one has locked (`Commits`).

Only model-checked: liveness (`UnpaidEnds`, `PaymentsRecorded`, `EveryCallReturns`,
`EveryPageComes`, `BlocksEnd`, `NeverStarved`, `EverySaveEnds`), since TLAPS has no way to
reason about `ENABLED`. Every other property of the passing runs is also a theorem. TLC still
evaluates the properties of `Price` over bounded inputs.

## 5. Not modelled

1. *Boot and tick*: `EnsureSchemaOnce` and `EnsureCldxPay` (idempotent DDL and an upsert, tried
   again by every tick), `tickLoop`'s flag (one `CompareAndSwap` around `runTick`; the modules
   take the passes of a tick as already serial).
2. *The rest of the cashiers*: `SyncUSDT`'s list and its 48 hours, the late window of cldx as
   time, an expiry time the owner changes while orders wait, the poll limiter.
3. *The back office*: goods groups and payment channels (single-row forms), mail templates.
4. *What a proof could add*: amounts and stock in `ShopService`; one theorem that takes the
   quota and the prices of `Admission` into the ledger's checkouts.

Left out for good: the JavaScript and style sheets of `web/assets` (vendored libraries, of
which the pages load only layui, and a theme script no page loads: none holds state of the
shop, whose every decision is the server's); pages, templates, cookies, signed sessions and
header parsing, which keep no state that two actors share; the wire formats and signatures of the payment providers,
which appear as what they tell the shop; PostgreSQL itself, whose row locks, snapshots and
rollbacks are taken as documented.
