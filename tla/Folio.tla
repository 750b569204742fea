-------------------------------- MODULE Folio --------------------------------
(***************************************************************************)
(* The account of one stay: window 1 of its folio, the lines posted to it,   *)
(* the payments, the posting flags of the stay's nights and the idempotency   *)
(* keys of the requests.                                                    *)
(*                                                                          *)
(* A charge is one row of line with its taxes: parts[0] is the net amount,   *)
(* parts[1..Taxes] the taxes, and the corrections the ledger appends to it    *)
(* are counted in it (credited, reversed).  A command holds the business     *)
(* date FOR SHARE and its key from its first step (Ask...), where it also     *)
(* reads what the code reads before it locks the folio; the second step locks *)
(* the folio, decides, posts and commits.  In between other commands run,    *)
(* and it may be rolled back.                                               *)
(*                                                                          *)
(* verifiedBalance, which stops a command that finds the balance wrong, is   *)
(* not a guard here but the invariant BalanceIsLedger.                       *)
(***************************************************************************)
EXTENDS Integers, FiniteSets, Functions

CONSTANTS Clients, Keys,
          Items,       \* charges that may be posted
          Payments,    \* payments that may be taken
          Taxes,       \* taxes of a charge, at most
          Prices,      \* what may be charged, net and taxes
          Rate,        \* what a night costs, and its package, unless it is
          Complimentary,   \* among the nights and packages that cost nothing
          LastDate,    \* the business dates are 1..LastDate
          LastNight,   \* the nights of the stay are 1..LastNight
          MaxLives,    \* how often a key may be free
          RequireZero, \* requireZeroBalanceCheckout of the property
          None

Parts == 0..Taxes
Price == [Parts -> Nat]
Dates == 1..LastDate
Nights == 1..LastNight
Bases == {"ROOM", "PKG"} \X Nights

ASSUME PricesAssumption ==
  /\ Taxes \in Nat /\ Prices \subseteq Price
  /\ Rate \in Price \ {[j \in Parts |-> 0]} /\ Complimentary \subseteq Bases
ASSUME DatesAssumption == LastDate \in Nat \ {0} /\ LastNight \in Nat
ASSUME RowsAssumption == IsFiniteSet(Items) /\ IsFiniteSet(Payments)
ASSUME NoneAssumption == None \notin Keys \cup Items \cup Payments \cup Bases

VARIABLES
  date,    \* the business date
  stay,    \* the status of the reservation room, and its last night
  folio,   \* the row of folios
  line,    \* line[i]: the rows of folio_items of a charge
  pay,     \* pay[p]: a row of payments, with its refunds
  posted,  \* posted[n]: posted_at of night n
  key,     \* key[k]: the row of idempotency_keys
  life,    \* history: how often key k has been free
  ran,     \* history: how often a command with key k was executed
  tx       \* tx[c]: the command of client c

vars == <<date, stay, folio, line, pay, posted, key, life, ran, tx>>

Zero == [j \in Parts |-> 0]

Line == [parts : Price, credited : Price, reversed : BOOLEAN, date : Dates,
         base : Bases \cup {None}]
NoLine == [parts |-> Zero, credited |-> Zero, reversed |-> FALSE, date |-> 0, base |-> None]
Payment == {p \in [status : {"CAPTURED", "VOIDED"}, amount : Nat, refunded : Nat, date : Dates] :
              p.refunded <= p.amount}
NoPayment == [status |-> "NONE", amount |-> 0, refunded |-> 0, date |-> 0]

Idle == [op |-> "idle", key |-> None, ref |-> None, read |-> NoLine,
         open |-> {}, amount |-> 0]

----------------------------------------------------------------------------
(* Reads.                                                                   *)

Total(price) == SumFunction(price)
Remaining(l) == [j \in Parts |-> l.parts[j] - l.credited[j]]
Net(l) == IF l.reversed THEN 0 ELSE Total(Remaining(l))
NetPaid(p) == IF p.status = "CAPTURED" THEN p.amount - p.refunded ELSE 0

Charged == SumFunction([i \in Items |-> Net(line[i])])
Paid == SumFunction([p \in Payments |-> NetPaid(pay[p])])

FreeItems == {i \in Items : line[i] = NoLine}
FreePayments == {p \in Payments : pay[p] = NoPayment}
Live(b) == {i \in Items : line[i].base = b /\ ~line[i].reversed}
Unposted(through) == {n \in Nights : n <= through /\ n <= stay.last /\ ~posted[n]}

\* The reservation room, locked to the end by room charges and by a reversal.
RoomFree == \A c \in Clients : tx[c].op \notin {"nights", "uncheck"}
Quiet == \A c \in Clients : tx[c] = Idle

----------------------------------------------------------------------------
(* Keys.  The claim waits for the uncommitted row of another transaction; a  *)
(* live row answers instead of the command.                                 *)

MutClaimable(k) == key[k] # "LIVE"    \* the claim does not wait

Claimable(k) == key[k] # "LIVE" /\ \A c \in Clients : tx[c].key # k

Ask(c, row) == tx[c] = Idle /\ folio.status # "NONE" /\ tx' = [tx EXCEPT ![c] = row]

Answer(c) ==
  /\ key' = [key EXCEPT ![tx[c].key] = "LIVE"]
  /\ ran' = [ran EXCEPT ![tx[c].key] = @ + 1]
  /\ tx' = [tx EXCEPT ![c] = Idle]
  /\ UNCHANGED life

\* 24 hours after the claim, by the clocks of server and database.
Expire(k) ==
  /\ key[k] = "LIVE" /\ life[k] < MaxLives
  /\ key' = [key EXCEPT ![k] = "EXPIRED"]
  /\ life' = [life EXCEPT ![k] = @ + 1]
  /\ UNCHANGED <<date, stay, folio, line, pay, posted, ran, tx>>

\* An error, a lost connection or a crash: the key is free again.
Rollback(c) ==
  /\ tx[c] # Idle
  /\ tx' = [tx EXCEPT ![c] = Idle]
  /\ UNCHANGED <<date, stay, folio, line, pay, posted, key, life, ran>>

----------------------------------------------------------------------------
(* The ledger trigger: every line moves the balance, reopens a settled folio *)
(* and raises the version.                                                  *)

MutPosted(amount) ==    \* a settled folio stays settled
  [folio EXCEPT !.balance = @ + amount, !.version = @ + 1]

Posted(amount) ==
  [folio EXCEPT !.balance = @ + amount, !.version = @ + 1, !.status = "OPEN"]

Charge(price, base) ==
  [parts |-> price, credited |-> Zero, reversed |-> FALSE, date |-> date, base |-> base]

----------------------------------------------------------------------------
(* Charges.                                                                 *)

AskCharge(c, k) ==
  /\ Claimable(k)
  /\ Ask(c, [Idle EXCEPT !.op = "charge", !.key = k])
  /\ UNCHANGED <<date, stay, folio, line, pay, posted, key, life, ran>>

PostCharge(c) ==
  /\ tx[c].op = "charge"
  /\ FreeItems # {}
  /\ \E price \in Prices :
       /\ line' = [line EXCEPT ![CHOOSE i \in FreeItems : TRUE] = Charge(price, None)]
       /\ folio' = Posted(Total(price))
  /\ Answer(c)
  /\ UNCHANGED <<date, stay, pay, posted>>

MutMissing(open) ==    \* live lines are not looked at
  {b \in Bases \ Complimentary : b[2] \in open}

\* The lines to insert for the nights in open, under the folio's lock: no line for what
\* has a live one, nor for an amount of zero.
Missing(open) == {b \in Bases \ Complimentary : b[2] \in open /\ Live(b) = {}}

Places(open) == Injection(Missing(open), FreeItems)    \* new rows for them

\* All nights in open are flagged, those without a line too.
PostNights(open) ==
  LET at == CHOOSE f \in Places(open) : TRUE
  IN /\ Places(open) # {}
     /\ line' = [i \in Items |-> IF \E b \in Missing(open) : at[b] = i
                                 THEN Charge(Rate, CHOOSE b \in Missing(open) : at[b] = i)
                                 ELSE line[i]]
     /\ folio' = IF Missing(open) = {} THEN folio
                 ELSE Posted(Cardinality(Missing(open)) * Total(Rate))
     /\ posted' = [n \in Nights |-> posted[n] \/ n \in open]

AskNights(c, k) ==
  /\ Claimable(k) /\ RoomFree
  /\ stay.status \in {"IN_HOUSE", "CHECKED_OUT"}
  /\ \E through \in Nights :
       /\ through < date /\ Unposted(through) # {}
       /\ Ask(c, [Idle EXCEPT !.op = "nights", !.key = k, !.open = Unposted(through)])
  /\ UNCHANGED <<date, stay, folio, line, pay, posted, key, life, ran>>

\* markNightPosting refuses a night posted meanwhile.
PostRoomCharges(c) ==
  /\ tx[c].op = "nights"
  /\ \A n \in tx[c].open : ~posted[n]
  /\ PostNights(tx[c].open)
  /\ Answer(c)
  /\ UNCHANGED <<date, stay, pay>>

----------------------------------------------------------------------------
(* Corrections.  The charge is read before its folio is locked.             *)

AskReverse(c, k, i) ==
  /\ Claimable(k) /\ line[i] # NoLine
  /\ Ask(c, [Idle EXCEPT !.op = "reverse", !.key = k, !.ref = i, !.read = line[i]])
  /\ UNCHANGED <<date, stay, folio, line, pay, posted, key, life, ran>>

\* The index folio_items_one_reversal_per_item and the trigger, for each line inserted.
MutMayReverse(l) == TRUE
MayReverse(l) == ~l.reversed /\ \A j \in Parts : l.parts[j] > 0 => l.credited[j] = 0

ReverseItem(c) ==
  LET i == tx[c].ref
      l == tx[c].read
      night == {n \in Nights : l.base = <<"ROOM", n>>}
  IN /\ tx[c].op = "reverse"
     /\ ~l.reversed /\ l.credited[0] = 0 /\ l.date = date
     /\ MayReverse(line[i])
     /\ \A n \in night : posted[n]
     /\ line' = [line EXCEPT ![i].reversed = TRUE]
     /\ folio' = Posted(-Total(l.parts))
     /\ posted' = [n \in Nights |-> posted[n] /\ n \notin night]
     /\ Answer(c)
     /\ UNCHANGED <<date, stay, pay>>

HalfUp(a, b) == (2 * a + b) \div (2 * b)
Min2(a, b) == IF a < b THEN a ELSE b
Max0(a) == IF a > 0 THEN a ELSE 0

\* What is left of amount for part j when the parts before it take what room they have.
TakeOf(room, amount, j) ==
  Min2(room[j], Max0(amount - SumFunctionOnSet(room, {h \in Parts : h < j})))

MutProportionalCredit(rest, amount) ==    \* the rounding residual is lost
  [j \in Parts |-> HalfUp(rest[j] * amount, Total(rest))]

ProportionalCredit(rest, amount) ==
  LET part == [j \in Parts |-> HalfUp(rest[j] * amount, Total(rest))]
      room == [j \in Parts |-> rest[j] - part[j]]
      over == Max0(Total(part) - amount)
      left == Max0(amount - Total(part))
  IN [j \in Parts |-> part[j] + TakeOf(room, left, j) - TakeOf(part, over, j)]

AskAdjust(c, k, i) ==
  /\ Claimable(k) /\ line[i] # NoLine
  /\ \E a \in 1..Total(line[i].parts) :
       Ask(c, [Idle EXCEPT !.op = "adjust", !.key = k, !.ref = i, !.read = line[i], !.amount = a])
  /\ UNCHANGED <<date, stay, folio, line, pay, posted, key, life, ran>>

\* The trigger, for each line inserted.
MayCredit(l, credit) ==
  \A j \in Parts : credit[j] > 0 => ~l.reversed /\ l.credited[j] + credit[j] <= l.parts[j]

AdjustItem(c) ==
  LET i == tx[c].ref
      l == tx[c].read
      credit == ProportionalCredit(Remaining(l), tx[c].amount)
  IN /\ tx[c].op = "adjust"
     /\ ~l.reversed /\ tx[c].amount <= Total(Remaining(l))
     /\ MayCredit(line[i], credit)
     /\ line' = [line EXCEPT ![i].credited = [j \in Parts |-> @[j] + credit[j]]]
     /\ folio' = Posted(-Total(credit))
     /\ Answer(c)
     /\ UNCHANGED <<date, stay, pay, posted>>

----------------------------------------------------------------------------
(* Payments.                                                                *)

\* The cashier pays by the version of the folio on the page.
AskPay(c, k) ==
  /\ Claimable(k)
  /\ \E a \in 1..folio.balance :
       Ask(c, [Idle EXCEPT !.op = "pay", !.key = k, !.ref = folio.version, !.amount = a])
  /\ UNCHANGED <<date, stay, folio, line, pay, posted, key, life, ran>>

MutPayable(c) == TRUE
Payable(c) == folio.version = tx[c].ref /\ tx[c].amount <= folio.balance

PostPayment(c) ==
  /\ tx[c].op = "pay"
  /\ Payable(c)
  /\ FreePayments # {}
  /\ pay' = [pay EXCEPT ![CHOOSE p \in FreePayments : TRUE] =
                [status |-> "CAPTURED", amount |-> tx[c].amount, refunded |-> 0, date |-> date]]
  /\ folio' = Posted(-tx[c].amount)
  /\ Answer(c)
  /\ UNCHANGED <<date, stay, line, posted>>

AskPayment(c, k, op, p) ==
  /\ Claimable(k) /\ pay[p] # NoPayment /\ op \in {"void", "refund"}
  /\ Ask(c, [Idle EXCEPT !.op = op, !.key = k, !.ref = p])
  /\ UNCHANGED <<date, stay, folio, line, pay, posted, key, life, ran>>

MutVoidable(p) == p.status = "CAPTURED"
Voidable(p) == p.status = "CAPTURED" /\ p.date = date /\ p.refunded = 0

VoidPayment(c) ==
  /\ tx[c].op = "void"
  /\ LET p == tx[c].ref
     IN /\ Voidable(pay[p])
        /\ pay' = [pay EXCEPT ![p].status = "VOIDED"]
        /\ folio' = Posted(pay[p].amount)
  /\ Answer(c)
  /\ UNCHANGED <<date, stay, line, posted>>

MutRefundable(p) == p.amount    \* earlier refunds are forgotten
Refundable(p) == p.amount - p.refunded

RefundPayment(c) ==
  /\ tx[c].op = "refund"
  /\ LET p == tx[c].ref
     IN \E a \in 1..Refundable(pay[p]) :
          /\ pay[p].status = "CAPTURED"
          /\ pay' = [pay EXCEPT ![p].refunded = @ + a]
          /\ folio' = Posted(a)
  /\ Answer(c)
  /\ UNCHANGED <<date, stay, line, posted>>

----------------------------------------------------------------------------
(* The stay: check-in on the arrival date, 1, opens the window; check-out     *)
(* settles it, and drops the nights it leaves early.                         *)

SettledRow == [folio EXCEPT !.status = "SETTLED", !.version = @ + 1]

SettleFolio ==
  /\ folio.status = "OPEN" /\ folio.balance = 0
  /\ folio' = SettledRow
  /\ UNCHANGED <<date, stay, line, pay, posted, key, life, ran, tx>>

CheckIn ==
  /\ stay.status = "RESERVED" /\ RoomFree /\ date = 1
  /\ stay' = [stay EXCEPT !.status = "IN_HOUSE"]
  /\ folio' = IF folio.status = "NONE" THEN [folio EXCEPT !.status = "OPEN"] ELSE folio
  /\ UNCHANGED <<date, line, pay, posted, key, life, ran, tx>>

CheckOut ==
  /\ stay.status = "IN_HOUSE" /\ RoomFree /\ date > 1
  /\ Unposted(date - 1) = {}
  /\ RequireZero => folio.balance = 0
  /\ stay' = [status |-> "CHECKED_OUT", last |-> Min2(stay.last, date - 1)]
  /\ folio' = IF folio.balance = 0 /\ folio.status = "OPEN" THEN SettledRow ELSE folio
  /\ UNCHANGED <<date, line, pay, posted, key, life, ran, tx>>

NothingPosted == line = [i \in Items |-> NoLine] /\ pay = [p \in Payments |-> NoPayment]

\* The postings are counted without the folio's lock.
AskReverseCheckIn(c) ==
  /\ RoomFree
  /\ stay.status = "IN_HOUSE" /\ date = 1 /\ NothingPosted
  /\ Ask(c, [Idle EXCEPT !.op = "uncheck"])
  /\ UNCHANGED <<date, stay, folio, line, pay, posted, key, life, ran>>

ReverseCheckIn(c) ==
  /\ tx[c].op = "uncheck"
  /\ stay' = [stay EXCEPT !.status = "RESERVED"]
  /\ tx' = [tx EXCEPT ![c] = Idle]
  /\ UNCHANGED <<date, folio, line, pay, posted, key, life, ran>>

----------------------------------------------------------------------------
(* Night audit: the nights up to the date it closes, when nobody posts and   *)
(* the guest is not due out.                                                *)

Roll ==
  /\ Quiet /\ date < LastDate
  /\ date' = date + 1
  /\ IF stay.status = "IN_HOUSE" THEN stay.last >= date /\ PostNights(Unposted(date))
     ELSE UNCHANGED <<folio, line, posted>>
  /\ UNCHANGED <<stay, pay, key, life, ran, tx>>

----------------------------------------------------------------------------

\* A reservation that arrives on date 1, or a stay that predates the night audits.
Init ==
  /\ \/ date = 1 /\ stay = [status |-> "RESERVED", last |-> LastNight]
        /\ folio = [status |-> "NONE", balance |-> 0, version |-> 0]
     \/ date \in 2..LastDate /\ stay = [status |-> "IN_HOUSE", last |-> LastNight]
        /\ folio = [status |-> "OPEN", balance |-> 0, version |-> 0]
  /\ line = [i \in Items |-> NoLine]
  /\ pay = [p \in Payments |-> NoPayment]
  /\ posted = [n \in Nights |-> FALSE]
  /\ key = [k \in Keys |-> "NONE"]
  /\ life = [k \in Keys |-> 1]
  /\ ran = [k \in Keys |-> 0]
  /\ tx = [c \in Clients |-> Idle]

Request(c) ==
  \E k \in Keys :
    \/ AskCharge(c, k) \/ AskNights(c, k) \/ AskPay(c, k)
    \/ \E i \in Items : AskReverse(c, k, i) \/ AskAdjust(c, k, i)
    \/ \E p \in Payments, op \in {"void", "refund"} : AskPayment(c, k, op, p)

Perform(c) ==
  \/ PostCharge(c) \/ PostRoomCharges(c) \/ ReverseItem(c) \/ AdjustItem(c)
  \/ PostPayment(c) \/ VoidPayment(c) \/ RefundPayment(c)

Next ==
  \/ \E c \in Clients : Request(c) \/ Perform(c) \/ Rollback(c)
                          \/ AskReverseCheckIn(c) \/ ReverseCheckIn(c)
  \/ \E k \in Keys : Expire(k)
  \/ SettleFolio \/ CheckIn \/ CheckOut \/ Roll

Spec == Init /\ [][Next]_vars

----------------------------------------------------------------------------
(* Properties.                                                              *)

TypeOK ==
  /\ date \in Dates
  /\ stay \in [status : {"RESERVED", "IN_HOUSE", "CHECKED_OUT"}, last : 0..LastNight]
  /\ folio \in [status : {"NONE", "OPEN", "SETTLED"}, balance : Int, version : Nat]
  /\ line \in [Items -> Line \cup {NoLine}]
  /\ pay \in [Payments -> Payment \cup {NoPayment}]
  /\ posted \in [Nights -> BOOLEAN]
  /\ key \in [Keys -> {"NONE", "LIVE", "EXPIRED"}]
  /\ life \in [Keys -> Nat] /\ ran \in [Keys -> Nat]
  /\ tx \in [Clients ->
       [op : {"idle", "charge", "nights", "reverse", "adjust", "pay", "void", "refund", "uncheck"},
        key : Keys \cup {None}, ref : Items \cup Payments \cup Nat \cup {None},
        read : Line \cup {NoLine}, open : SUBSET Nights, amount : Nat]]

\* verifiedBalance never stops a command: the balance of the folio is the sum of
\* its ledger.
BalanceIsLedger == folio.balance = Charged - Paid

\* Corrections decided on a charge read before the folio was locked: no charge is
\* reversed twice, nor both reversed and adjusted, no line credited beyond its amount.
Corrected ==
  \A i \in Items :
    /\ \A j \in Parts : line[i].credited[j] \in 0..line[i].parts[j]
    /\ line[i].reversed => line[i].credited = Zero

\* A night is charged once, with its package, by the audit or by the desk, and again only
\* after its room charge was reversed; it has its room charge exactly while it is flagged
\* as posted, unless it costs nothing: such a night is flagged without a line.
NightOnce ==
  /\ \A b \in Bases : Cardinality(Live(b)) <= 1
  /\ \A n \in Nights :
       Live(<<"ROOM", n>>) # {} <=> posted[n] /\ <<"ROOM", n>> \notin Complimentary

\* A credit that is divided among a charge and its taxes takes what was asked for.
CreditExact ==
  [][\A c \in Clients :
       tx[c].op = "adjust" /\ folio' # folio /\ tx'[c] = Idle =>
         folio'.balance = folio.balance - tx[c].amount]_vars

Bill == INSTANCE Account WITH
  charged <- Charged, paid <- Paid, settled <- folio.status = "SETTLED",
  life <- life, ran <- ran
ImplementsAccount == Bill!Spec

\* docs/PMS_WORKFLOWS.md, on the reversal of a check-in: `Allowed only while the stay's
\* folio has no postings at all'.
ReversedHasNothing == stay.status = "RESERVED" => NothingPosted
=============================================================================
