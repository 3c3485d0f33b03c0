----------------------------- MODULE StripeCredit -----------------------------
(***************************************************************************)
(* Prepaid credit: handleStripeEvent of server/stripe/service.ts for top-  *)
(* ups, refunds and disputes, the ledger of server/credits/service.ts, the *)
(* monthly bill of closePaygMonth, and setPayg of server/billing.          *)
(*                                                                         *)
(* One free account in one currency, amounts in units.  One step per await *)
(* that matters; a transaction under the account's lock is one step.       *)
(***************************************************************************)
EXTENDS Integers, FiniteSets, FiniteSetsExt, Functions

CONSTANTS
  Topup,        \* checkout sessions that pay for credit
  Paid,         \* what each of them pays
  Handler,      \* webhook requests that can overlap
  Closer,       \* runs of closePaygMonth that can overlap
  MaxMonth,     \* bound: months that end
  MaxUsage,     \* bound: what a month costs
  MinInvoice,   \* payg.minInvoice
  MaxFaults,    \* bound: exceptions and handlers that die
  NoEvent       \* no event

ASSUME PaidAssumption  == Paid \in Nat \ {0}
ASSUME TopupAssumption == IsFiniteSet(Topup)
ASSUME BoundAssumption == {MaxMonth, MinInvoice} \subseteq Nat \ {0} /\ {MaxUsage, MaxFaults} \subseteq Nat

Month == 1..MaxMonth

\* What Stripe sends: a paid session, a refund with the cumulated sum, a dispute, a
\* dispute won.
Event == [type : {"paid", "disputed", "won"}, top : Topup, sum : {0}]
           \cup [type : {"refunded"}, top : Topup, sum : 1..Paid]

VARIABLES
  customer,     \* accounts.stripe_customer_id is set (FALSE: or there is no gateway)
  charge,       \* Stripe: per session, whether it is paid, refunded and disputed
  sent,         \* Stripe: the events there are
  answered,     \* Stripe: those it does not send again
  seen,         \* the rows of stripe_events
  handler,      \* what each request is doing
  ledger,       \* credit_ledger: the rows of each session by their ref, 0 for none
  consumed,     \* credit_ledger: the rows payg:<account>:<period>
  payg,         \* payg_enabled
  looked,       \* a setPayg has found no debt, and is still to write
  month,        \* the month it is
  cost,         \* per ended month: what its usage costs
  invoice,      \* the rows of payg_invoices
  billed,       \* Stripe: what the invoices of a month sum up to
  closer,       \* what each run is doing
  faults,       \* exceptions and deaths so far
  lost,         \* history: events answered without effect
  doubled,      \* history: two closings overlapped, or one died after its charge
  late,         \* history: one overlapped with the closing of an earlier month
  blind         \* history: Pay-as-you-go was last turned on with a debt

stripe  == <<customer, charge, sent>>
hooks   == <<answered, seen, handler, lost>>
credit  == <<ledger, consumed>>
overlap   == <<doubled, late>>
closing == <<invoice, billed, closer, overlap>>
paygo  == <<payg, looked, blind>>
time    == <<month, cost>>

creditVars == <<stripe, hooks, credit, closing, time, paygo, faults>>

Charge == [paid : BOOLEAN, refunded : 0..Paid, disputed : 0..Paid, dispute : {"none", "open", "won"}]
Rows   == [top : {0, Paid}, refund : [1..Paid -> 0..Paid], dispute : 0..Paid, won : 0..Paid]
NoRows == [top |-> 0, refund |-> [c \in 1..Paid |-> 0], dispute |-> 0, won |-> 0]

NoRequest == [at |-> "idle", event |-> NoEvent]
NoRun     == [at |-> "idle", month |-> 0, customer |-> FALSE, total |-> 0, rest |-> 0]

\* A row of payg_invoices: unpaid is what one with the status 'recorded' leaves open.
Bill    == [there : BOOLEAN, carriedOut : 0..MinInvoice - 1, unpaid : Nat]

CreditTypeOK ==
  /\ charge \in [Topup -> Charge]
  /\ sent \subseteq Event /\ answered \subseteq sent /\ seen \subseteq sent /\ lost \subseteq sent
  /\ handler \in [Handler -> [at : {"idle", "credit", "book", "won", "answer", "undo"},
                              event : Event \cup {NoEvent}]]
  /\ ledger \in [Topup -> Rows]
  /\ consumed \in [Month -> Nat] /\ cost \in [Month -> Nat] /\ billed \in [Month -> Nat]
  /\ customer \in BOOLEAN /\ payg \in BOOLEAN /\ looked \in BOOLEAN
  /\ doubled \in BOOLEAN /\ late \in BOOLEAN /\ blind \in BOOLEAN
  /\ month \in 1..MaxMonth + 1
  /\ invoice \in [Month -> Bill]
  /\ closer \in [Closer -> [at : {"idle", "prev", "consume", "charge", "insert"},
                            month : 0..MaxMonth, customer : BOOLEAN, total : Nat, rest : Nat]]
  /\ faults \in 0..MaxFaults

\* The first month is closed, with a bill below the minimum.
CreditInit ==
  /\ customer = FALSE
  /\ charge = [t \in Topup |-> [paid |-> FALSE, refunded |-> 0, disputed |-> 0, dispute |-> "none"]]
  /\ sent = {} /\ answered = {} /\ seen = {} /\ lost = {}
  /\ handler = [h \in Handler |-> NoRequest]
  /\ ledger = [t \in Topup |-> NoRows]
  /\ consumed = [m \in Month |-> 0] /\ billed = [m \in Month |-> 0]
  /\ payg = FALSE /\ looked = FALSE
  /\ doubled = FALSE /\ late = FALSE /\ blind = FALSE
  /\ month = 2
  /\ \E x \in 0..MinInvoice - 1 : cost = [m \in Month |-> IF m = 1 THEN x ELSE 0]
  /\ invoice = [m \in Month |-> [there |-> m = 1, carriedOut |-> cost[m], unpaid |-> 0]]
  /\ closer = [c \in Closer |-> NoRun]
  /\ faults = 0

Fault == faults < MaxFaults /\ faults' = faults + 1

-----------------------------------------------------------------------------
(* Stripe                                                                  *)

Send(type, t, sum) == sent' = sent \cup {[type |-> type, top |-> t, sum |-> sum]}

\* ensureCustomer, at the first checkout.
EnsureCustomer ==
  /\ ~customer /\ customer' = TRUE
  /\ UNCHANGED <<charge, sent, hooks, credit, closing, time, paygo, faults>>

Pay(t) ==
  /\ customer /\ ~charge[t].paid
  /\ charge' = [charge EXCEPT ![t].paid = TRUE]
  /\ Send("paid", t, 0)
  /\ UNCHANGED <<customer, hooks, credit, closing, time, paygo, faults>>

\* A part is refunded; not while a dispute is open.
Refund(t) ==
  /\ charge[t].paid /\ charge[t].dispute \in {"none", "won"}
  /\ \E sum \in charge[t].refunded + 1..Paid :
       /\ charge' = [charge EXCEPT ![t].refunded = sum]
       /\ Send("refunded", t, sum)
  /\ UNCHANGED <<customer, hooks, credit, closing, time, paygo, faults>>

\* The customer's bank takes back what is left.
Dispute(t) ==
  /\ charge[t].paid /\ charge[t].dispute = "none" /\ charge[t].refunded < Paid
  /\ charge' = [charge EXCEPT ![t].dispute = "open", ![t].disputed = Paid - charge[t].refunded]
  /\ Send("disputed", t, 0)
  /\ UNCHANGED <<customer, hooks, credit, closing, time, paygo, faults>>

\* A lost dispute stays as it is: its event is ignored.
Win(t) ==
  /\ charge[t].dispute = "open"
  /\ charge' = [charge EXCEPT ![t].dispute = "won"]
  /\ Send("won", t, 0)
  /\ UNCHANGED <<customer, hooks, credit, closing, time, paygo, faults>>

-----------------------------------------------------------------------------
(* credits/service.ts                                                      *)

Refunds(t)  == SumFunctionOnSet(ledger[t].refund, 1..Paid)
Reversed(t) == Refunds(t) + ledger[t].dispute
Worth(t)    == ledger[t].top + ledger[t].won - Reversed(t)
Balance     == SumFunctionOnSet([t \in Topup |-> Worth(t)], Topup) - SumFunctionOnSet(consumed, Month)

\* addCredit with the session as its ref.
AddTopup(t) == ledger' = [ledger EXCEPT ![t].top = Paid]

Least(a, b) == IF a <= b THEN a ELSE b
Most0(a)    == IF a > 0 THEN a ELSE 0

\* Faulty variant of Left: the top-up as it was.
LeftAtFirst(e) == ledger[e.top].top

\* The row of an event, and what it takes, computed under the lock: of a refund only
\* what is new in the cumulated sum, and never more than is left of the top-up.
RowOf(e)  == IF e.type = "refunded" THEN ledger[e.top].refund[e.sum] ELSE ledger[e.top].dispute
New(e)    == IF e.type = "refunded" THEN e.sum - Refunds(e.top) ELSE charge[e.top].disputed
Left(e) == ledger[e.top].top - Reversed(e.top)
Amount(e) == IF RowOf(e) # 0 THEN 0 ELSE Most0(Least(New(e), Left(e)))

\* debitCredit; a debt turns Pay-as-you-go off, however it was turned on.
Debit(e) ==
  LET amount == Amount(e) IN
  /\ ledger' = IF amount = 0 THEN ledger
               ELSE IF e.type = "refunded" THEN [ledger EXCEPT ![e.top].refund[e.sum] = amount]
               ELSE [ledger EXCEPT ![e.top].dispute = amount]
  /\ payg' = (payg /\ (amount = 0 \/ Balance >= amount))
  /\ blind' = (blind /\ payg')

-----------------------------------------------------------------------------
(* handleStripeEvent                                                       *)

At(h, step)   == handler[h].at = step
Goto(h, step) == handler' = [handler EXCEPT ![h].at = step]
Working(e)    == \E h \in Handler : handler[h].at # "idle" /\ handler[h].event = e

\* An event that is not in stripe_events yet; Stripe sends it until it is answered.
Begin(h) ==
  /\ At(h, "idle")
  /\ \E e \in sent \ (answered \cup seen) :
       /\ seen' = seen \cup {e}
       /\ handler' = [handler EXCEPT ![h] = [at |-> "credit", event |-> e]]
  /\ UNCHANGED <<stripe, answered, lost, credit, closing, time, paygo, faults>>

\* 'duplicate', while the first request is at work, has died, or is done.
Duplicate ==
  /\ \E e \in (sent \cap seen) \ answered :
       /\ answered' = answered \cup {e}
       /\ lost' = IF Working(e) THEN lost \cup {e} ELSE lost
  /\ UNCHANGED <<stripe, seen, handler, credit, closing, time, paygo, faults>>

\* creditTopup; for a refund or a dispute topupForPayment, which books the top-up
\* if it is here first.
Credit(h) ==
  /\ At(h, "credit")
  /\ AddTopup(handler[h].event.top)
  /\ Goto(h, CASE handler[h].event.type = "paid" -> "answer"
               [] handler[h].event.type = "won"  -> "won"
               [] OTHER                          -> "book")
  /\ UNCHANGED <<stripe, answered, seen, lost, consumed, closing, time, paygo, faults>>

Book(h) ==
  /\ At(h, "book")
  /\ Debit(handler[h].event)
  /\ Goto(h, "answer")
  /\ UNCHANGED <<stripe, answered, seen, lost, consumed, closing, time, looked, faults>>

\* What the dispute has taken is credited again; nothing, if it is not booked yet.
Won(h) ==
  /\ At(h, "won")
  /\ LET e == handler[h].event  t == e.top IN
       /\ ledger' = [ledger EXCEPT ![t].won = ledger[t].dispute]
       /\ lost' = IF ledger[t].dispute = 0 THEN lost \cup {e} ELSE lost
  /\ Goto(h, "answer")
  /\ UNCHANGED <<stripe, answered, seen, consumed, closing, time, paygo, faults>>

\* 200; it makes up for an earlier 'duplicate'.
Answer(h) ==
  /\ At(h, "answer")
  /\ LET e == handler[h].event IN
       /\ answered' = answered \cup {e}
       /\ lost' = IF e.type = "won" /\ ledger[e.top].won = 0 THEN lost ELSE lost \ {e}
  /\ handler' = [handler EXCEPT ![h] = NoRequest]
  /\ UNCHANGED <<stripe, seen, credit, closing, time, paygo, faults>>

\* An exception: the row is to go, so that the next delivery is processed.
Fail(h) ==
  /\ handler[h].at \notin {"idle", "undo"}
  /\ Fault
  /\ Goto(h, "undo")
  /\ UNCHANGED <<stripe, answered, seen, lost, credit, closing, time, paygo>>

\* Faulty variant of Undo: the row stays.
UndoNothing(h) ==
  /\ At(h, "undo")
  /\ handler' = [handler EXCEPT ![h] = NoRequest]
  /\ UNCHANGED <<stripe, seen, answered, lost, credit, closing, time, paygo, faults>>

Undo(h) ==
  /\ At(h, "undo")
  /\ seen' = seen \ {handler[h].event}
  /\ handler' = [handler EXCEPT ![h] = NoRequest]
  /\ UNCHANGED <<stripe, answered, lost, credit, closing, time, paygo, faults>>

Die(h) ==
  /\ ~At(h, "idle")
  /\ Fault
  /\ lost' = lost \cup {handler[h].event}
  /\ handler' = [handler EXCEPT ![h] = NoRequest]
  /\ UNCHANGED <<stripe, answered, seen, credit, closing, time, paygo>>

-----------------------------------------------------------------------------
(* closePaygMonth                                                          *)

EndMonth ==
  /\ month <= MaxMonth
  /\ month' = month + 1
  /\ \E x \in 1..MaxUsage : cost' = [cost EXCEPT ![month] = x]
  /\ UNCHANGED <<stripe, hooks, credit, closing, paygo, faults>>

Step(c, job) == closer' = [closer EXCEPT ![c] = job]

\* Only the month before this one, if it has no bill yet; the customer is read with it.
Select(c) ==
  /\ closer[c].at = "idle"
  /\ ~invoice[month - 1].there
  /\ Step(c, [at |-> "prev", month |-> month - 1, customer |-> customer, total |-> 0, rest |-> 0])
  /\ doubled' = (doubled \/ \E d \in Closer : closer[d].at # "idle")
  /\ late' = (late \/ \E d \in Closer : closer[d].at # "idle" /\ closer[d].month # month - 1)
  /\ UNCHANGED <<stripe, hooks, credit, invoice, billed, time, paygo, faults>>

\* What the newest bill, of whatever month, has carried over.
Carried == LET bills == {m \in Month : invoice[m].there}
           IN IF bills = {} THEN 0 ELSE invoice[Max(bills)].carriedOut

Due(total) == total >= MinInvoice

\* Faulty variant of Prev: only the bill of the month before is looked at.
PrevMonth(c) ==
  /\ closer[c].at = "prev"
  /\ LET m     == closer[c].month
         total == cost[m] + IF m > 1 THEN invoice[m - 1].carriedOut ELSE 0
     IN Step(c, [closer[c] EXCEPT !.at = IF Due(total) THEN "consume" ELSE "insert", !.total = total])
  /\ UNCHANGED <<stripe, hooks, credit, invoice, billed, overlap, time, paygo, faults>>

Prev(c) ==
  /\ closer[c].at = "prev"
  /\ LET total == cost[closer[c].month] + Carried IN
       Step(c, [closer[c] EXCEPT !.at = IF Due(total) THEN "consume" ELSE "insert", !.total = total])
  /\ UNCHANGED <<stripe, hooks, credit, invoice, billed, overlap, time, paygo, faults>>

\* Faulty variant of Consume: the balance is not looked at.
ConsumeAll(c) ==
  /\ closer[c].at = "consume"
  /\ LET m   == closer[c].month
         use == IF consumed[m] # 0 THEN consumed[m] ELSE closer[c].total
     IN /\ consumed' = [consumed EXCEPT ![m] = use]
        /\ Step(c, [closer[c] EXCEPT !.at = IF closer[c].total > use THEN "charge" ELSE "insert",
                                     !.rest = Most0(closer[c].total - use)])
  /\ UNCHANGED <<stripe, hooks, ledger, invoice, billed, overlap, time, paygo, faults>>

\* consumeCredit: what the balance has, unless it has been taken for this month.
Consume(c) ==
  /\ closer[c].at = "consume"
  /\ LET m   == closer[c].month
         use == IF consumed[m] # 0 THEN consumed[m] ELSE Least(Most0(Balance), closer[c].total)
     IN /\ consumed' = [consumed EXCEPT ![m] = use]
        /\ Step(c, [closer[c] EXCEPT !.at = IF closer[c].total > use THEN "charge" ELSE "insert",
                                     !.rest = Most0(closer[c].total - use)])
  /\ UNCHANGED <<stripe, hooks, ledger, invoice, billed, overlap, time, paygo, faults>>

\* chargeOnce makes an invoice of its own every time; without a gateway or a customer
\* nobody charges the rest.
ChargeOnce(c) ==
  /\ closer[c].at = "charge"
  /\ billed' = IF closer[c].customer THEN [billed EXCEPT ![closer[c].month] = @ + closer[c].rest] ELSE billed
  /\ Step(c, [closer[c] EXCEPT !.at = "insert"])
  /\ UNCHANGED <<stripe, hooks, credit, invoice, overlap, time, paygo, faults>>

\* The bill, ON CONFLICT DO NOTHING: out is what it carries over, a rest that nobody
\* charges stays in it as 'recorded'.
Bills(c, out) ==
  /\ closer[c].at = "insert"
  /\ LET bill == [there |-> TRUE, carriedOut |-> out, unpaid |-> IF closer[c].customer THEN 0 ELSE closer[c].rest]
     IN invoice' = [invoice EXCEPT ![closer[c].month] = IF @.there THEN @ ELSE bill]
  /\ Step(c, NoRun)
  /\ UNCHANGED <<stripe, hooks, credit, billed, overlap, time, paygo, faults>>

\* Faulty variant of InsertInvoice: a charged amount is carried over too.
InsertCarrying(c) == Bills(c, closer[c].total)

InsertInvoice(c) == Bills(c, IF Due(closer[c].total) THEN 0 ELSE closer[c].total)

\* An exception, or the process dies.
StopClosing(c) ==
  /\ closer[c].at # "idle"
  /\ Fault
  /\ doubled' = (doubled \/ (closer[c].at = "insert" /\ closer[c].customer /\ closer[c].rest > 0))
  /\ Step(c, NoRun)
  /\ UNCHANGED <<stripe, hooks, credit, invoice, billed, late, time, paygo>>

-----------------------------------------------------------------------------
(* Pay-as-you-go is turned on and off                                      *)

\* setPayg looks at the balance ...
LookAtBalance ==
  /\ ~looked /\ Balance >= 0
  /\ looked' = TRUE
  /\ UNCHANGED <<stripe, hooks, credit, closing, time, payg, blind, faults>>

Turn(on) == payg' = on /\ blind' = (on /\ Balance < 0)

\* ... and writes some awaits later, whatever the balance is then; another request that
\* has looked may still be to write.
PaygOn ==
  /\ looked /\ looked' \in BOOLEAN
  /\ Turn(TRUE)
  /\ UNCHANGED <<stripe, hooks, credit, closing, time, faults>>

\* The event of a session that has stored a card does not look at the balance at all.
CardStored ==
  /\ customer /\ Turn(TRUE)
  /\ UNCHANGED <<stripe, hooks, credit, closing, time, looked, faults>>

\* By the account, or because the card is gone.
PaygOff ==
  /\ payg /\ Turn(FALSE)
  /\ UNCHANGED <<stripe, hooks, credit, closing, time, looked, faults>>

-----------------------------------------------------------------------------
CreditNext ==
  \/ \E t \in Topup : Pay(t) \/ Refund(t) \/ Dispute(t) \/ Win(t)
  \/ EnsureCustomer \/ Duplicate \/ EndMonth
  \/ LookAtBalance \/ PaygOn \/ CardStored \/ PaygOff
  \/ \E h \in Handler :
       \/ Begin(h) \/ Credit(h) \/ Book(h) \/ Won(h)
       \/ Answer(h) \/ Fail(h) \/ Undo(h) \/ Die(h)
  \/ \E c \in Closer :
       \/ Select(c) \/ Prev(c) \/ Consume(c) \/ ChargeOnce(c) \/ InsertInvoice(c)
       \/ StopClosing(c)

CreditSpec == CreditInit /\ [][CreditNext]_creditVars

-----------------------------------------------------------------------------
(* Properties                                                              *)

\* Everything Stripe has sent about a session is answered, none of it in vain.
Settled(t) ==
  \A e \in sent : e.top = t => e \in answered \ lost /\ ~Working(e)

\* However the events of a top-up are repeated, delayed, retried and reordered, the
\* credit ends at what Stripe still has: paid, less refunds and the dispute.
CreditFollowsStripe ==
  \A t \in Topup :
    LET s == charge[t] IN
    Settled(t) /\ (s.dispute = "won" => s.refunded + s.disputed = Paid) =>
      Worth(t) = (IF s.paid THEN Paid ELSE 0) - s.refunded
                 - (IF s.dispute = "open" THEN s.disputed ELSE 0)

\* Refunds and disputes never take more than the top-up has brought.
ReversedAtMostPaid == \A t \in Topup : Reversed(t) <= ledger[t].top

\* What the closed months have cost, and what has become of it: it is taken from the
\* credit, charged, recorded as unpaid, or carried over.
Closed  == {m \in Month : invoice[m].there}
Owing   == SumFunctionOnSet(cost, Closed)
Taken ==
  SumFunctionOnSet([m \in Month |-> consumed[m] + billed[m] + invoice[m].unpaid], Closed) + Carried

BillsAddUp == Owing = Taken

\* "idempotent je Konto und Monat": nothing is charged twice or forgotten, however
\* refunds, missed months and failing runs interleave, and a month without a bill has
\* not been charged; without the condition it does not hold.
MonthsAddUp ==
  ~doubled =>
    /\ BillsAddUp
    /\ \A m \in Month \ Closed : billed[m] = 0 \/ \E c \in Closer : closer[c].at = "insert" /\ closer[c].month = m

\* Runs that close the same month at the same time, or again, forget nothing either.
NothingForgotten == ~late => Owing <= Taken

\* "Fällt das Guthaben unter null, wird Pay-as-you-go abgeschaltet und bleibt
\* gesperrt": nothing the webhooks or a bill take leaves a debt with Pay-as-you-go on;
\* it is on with a debt only if it was turned on with one.
DebtStopsPayg == payg /\ Balance < 0 => blind

\* Do not hold.  A setPayg that has looked before a refund, and a card that is stored,
\* turn it on with a debt.
DebtKeepsPaygOff == payg => Balance >= 0

\* Without a gateway or a customer the rest of a bill is neither charged nor carried.
NothingUnpaid == \A m \in Month : invoice[m].unpaid = 0

\* Only the month before this one is closed.
EveryMonthCloses == \A m \in Month : m < month - 1 => invoice[m].there

\* An event is processed although its first request fails behind a
\* 'duplicate', dies, or meets a dispute that is not booked yet.
NothingIsLost == sent \subseteq answered /\ (\A h \in Handler : At(h, "idle")) => lost = {}
=============================================================================
