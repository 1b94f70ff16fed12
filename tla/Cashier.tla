------------------------------- MODULE Cashier -------------------------------
(***************************************************************************)
(* The cldx and USDT cashiers of one order: tabs that open its payment     *)
(* page at the same time (gateway, cldxPay, cldxLaunch, usdtPay of         *)
(* internal/httpx), the quote they must all show (LockCldxQuote,           *)
(* LockUSDTInvoice of internal/store), and the receipts it is settled by,  *)
(* asked for through ReceiptThrottle.                                      *)
(*                                                                         *)
(* quote is cldx_minor, or the invoice in usdt_payment; a wallet may quote *)
(* another amount, and the USDT service another invoice, at each question. *)
(* A refunded payment is no payment.                                       *)
(***************************************************************************)
EXTENDS ReceiptThrottle

CONSTANTS
    Tabs,
    Amounts,    \* what the wallet may quote, or the invoices the service may make
    NoAmount

ASSUME CashierAssumption == NoAmount \notin Amounts

VARIABLES
    channel,    \* the order's pay_check
    due,        \* "open", "late" once past its deadline, "expired" once swept
    quote,      \* the row's quote
    tab,        \* each tab's step and the amount it holds
    paid,       \* what the buyer paid
    shown       \* history: amounts a page or a link has shown

pageVars == <<channel, due, quote, tab, paid, shown>>
cashierVars == <<vars, pageVars>>

Steps == {"closed", "opened", "priced", "creating", "showing"}

\* Mutant: the row is held as long as the page is open.
MutRowFreeKept == \A t \in Tabs : tab[t].step \notin {"creating", "showing"}
\* A USDT invoice is made under the order's row lock.
RowFree == \A t \in Tabs : tab[t].step # "creating"

CashierTypeOK ==
    /\ channel \in {"cldx", "usdt"} /\ due \in {"open", "late", "expired"}
    /\ quote \in Amounts \cup {NoAmount} /\ paid \in Amounts \cup {NoAmount}
    /\ tab \in [Tabs -> [step: Steps, amount: Amounts \cup {NoAmount}]]
    /\ \A t, u \in Tabs : tab[t].step = "creating" /\ tab[u].step = "creating" => t = u
    /\ shown \subseteq Amounts

CashierInit ==
    /\ Init
    /\ channel \in {"cldx", "usdt"}
    /\ due = "open" /\ quote = NoAmount /\ paid = NoAmount
    /\ tab = [t \in Tabs |-> [step |-> "closed", amount |-> NoAmount]]
    /\ shown = {}

Goes(t, step, a) == tab' = [tab EXCEPT ![t] = [step |-> step, amount |-> a]]
Closes(t) == Goes(t, "closed", NoAmount) /\ UNCHANGED shown

\* A page is drawn only before the deadline.
Shows(t, a) ==
    IF due = "open" THEN Goes(t, "showing", NoAmount) /\ shown' = shown \cup {a} ELSE Closes(t)

-----------------------------------------------------------------------------
\* gateway: the order it read was unpaid and not overdue.
Open(t) ==
    /\ tab[t].step = "closed"
    /\ due = "open" /\ ~settled
    /\ Goes(t, "opened", NoAmount)
    /\ UNCHANGED <<vars, channel, due, quote, paid, shown>>

\* cldxPay: the stored quote, or a new one from the wallet.
Price(t) ==
    /\ channel = "cldx" /\ tab[t].step = "opened"
    /\ \/ quote # NoAmount /\ Goes(t, "priced", quote) /\ UNCHANGED shown
       \/ quote = NoAmount /\ \E a \in Amounts : Goes(t, "priced", a) /\ UNCHANGED shown
       \/ Closes(t)
    /\ UNCHANGED <<vars, channel, due, quote, paid>>

\* Mutant: the latest quote wins.
MutFirstLast(a) == a
First(a) == IF quote = NoAmount THEN a ELSE quote

\* LockCldxQuote: one UPDATE of an order still 待支付; the page shows what it
\* returns, if that arrives.
LockCldxQuote(t) ==
    /\ tab[t].step = "priced"
    /\ \/ /\ due # "expired" /\ ~settled
          /\ quote' = First(tab[t].amount) /\ (Shows(t, quote') \/ Closes(t))
       \/ Closes(t) /\ UNCHANGED quote
    /\ UNCHANGED <<vars, channel, due, paid>>

\* cldxLaunch: the link is made from the row.
CldxLaunch ==
    /\ channel = "cldx" /\ quote # NoAmount
    /\ due = "open" /\ ~settled
    /\ shown' = shown \cup {quote}
    /\ UNCHANGED <<vars, channel, due, quote, tab, paid>>

\* LockUSDTInvoice: FOR UPDATE, then the stored invoice or a new one.
LockUSDTRow(t) ==
    /\ channel = "usdt" /\ tab[t].step = "opened" /\ RowFree
    /\ \/ /\ due = "open" /\ ~settled
          /\ IF quote # NoAmount THEN Shows(t, quote) ELSE Goes(t, "creating", NoAmount) /\ UNCHANGED shown
       \/ Closes(t)
    /\ UNCHANGED <<vars, channel, due, quote, paid>>

\* The service answers in time or not; a commit may be shown to nobody.
CreateInvoice(t) ==
    /\ tab[t].step = "creating"
    /\ \/ \E a \in Amounts : quote' = a /\ (Shows(t, a) \/ Closes(t))
       \/ Closes(t) /\ UNCHANGED quote
    /\ UNCHANGED <<vars, channel, due, paid>>

\* A buyer who has seen a page or a link pays once, some amount.
Pays ==
    /\ paid = NoAmount /\ shown # {}
    /\ paid' \in Amounts
    /\ UNCHANGED <<vars, channel, due, quote, tab, shown>>

PassesDeadline ==
    /\ due = "open"
    /\ due' = "late"
    /\ UNCHANGED <<vars, channel, quote, tab, paid, shown>>

Expires ==
    /\ due = "late" /\ ~settled /\ RowFree
    /\ due' = "expired"
    /\ UNCHANGED <<vars, channel, quote, tab, paid, shown>>

-----------------------------------------------------------------------------
\* Mutant: any payment will do.
MutMatchesAny == paid # NoAmount
\* syncCldxOrder, pay.USDT.Check: the receipt is of the quote.
Matches == quote # NoAmount /\ paid = quote

\* A caller asks about an order that has a quote; the answer is of the moment
\* the wallet gives it; settlement needs the order's row, failing to settle does not.
Asks(c) == Enter(c) /\ quote # NoAmount
Answers(e) ==
    /\ Finish(e)
    /\ answer'[e] = "paid" => Matches
    /\ answer'[e] = "unpaid" => ~Matches
Settles(c) == Complete(c) /\ (pc'[c] = "forgetting" \/ settled' # settled => RowFree)

Throttle(c) ==
    \/ Asks(c) \/ Ask(c) \/ Wake(c) \/ LeaderReturns(c) \/ GiveUp(c)
    \/ Settles(c) \/ Forget(c)
    \/ Answers(c) \/ Age(c)

Page(t) == Price(t) \/ LockCldxQuote(t) \/ LockUSDTRow(t) \/ CreateInvoice(t)

CashierNext ==
    \/ \E t \in Tabs : Open(t) \/ Page(t)
    \/ CldxLaunch \/ Pays \/ PassesDeadline \/ Expires
    \/ (\E c \in Callers : Throttle(c)) /\ UNCHANGED pageVars
    \/ Prune /\ UNCHANGED pageVars

CashierSpec == CashierInit /\ [][CashierNext]_cashierVars

\* Goroutines run, a fetch ends by receiptFetchTimeout and an invoice within
\* 10 seconds, a transaction ends, and PostgreSQL hands a row's lock on in the
\* order it was asked for.  That a caller's context ends is not assumed.
CashierFairness ==
    /\ \A c \in Callers :
          /\ WF_cashierVars(Ask(c) /\ UNCHANGED pageVars)
          /\ WF_cashierVars(Wake(c) /\ UNCHANGED pageVars)
          /\ WF_cashierVars(LeaderReturns(c) /\ UNCHANGED pageVars)
          /\ WF_cashierVars(Answers(c) /\ UNCHANGED pageVars)
          /\ WF_cashierVars(Forget(c) /\ UNCHANGED pageVars)
          /\ WF_cashierVars(Settles(c) /\ UNCHANGED pageVars)
    /\ \A t \in Tabs :
          /\ WF_cashierVars(Price(t) \/ LockCldxQuote(t) \/ CreateInvoice(t))
          /\ SF_cashierVars(LockUSDTRow(t))

CashierFairSpec == CashierSpec /\ CashierFairness

-----------------------------------------------------------------------------
\* Whichever tabs and links are opened at once, and whatever the wallet quotes
\* each of them, every amount ever shown is the one the payment is held to.
QuotesAgree == \A a \in shown : a = quote

\* The order is settled only by a payment of its quote, whoever asked, and
\* however old the answer is that the settlement acts on.
SettledByTheQuote == settled => quote # NoAmount /\ paid = quote

\* A page that was asked for comes, or is refused, although an invoice is made
\* while the order's row is locked.
EveryPageComes == \A t \in Tabs : tab[t].step = "opened" ~> tab[t].step \in {"closed", "showing"}
=============================================================================
