----------------------------- MODULE LockOrder -----------------------------
(***************************************************************************)
(* The row locks the commands wait for.  A command is one transaction; what *)
(* it locks is written here as the phases of its code, each naming a kind of *)
(* row, the rows of that kind and the mode.  The rows of a phase are taken    *)
(* in id order (ORDER BY ... FOR UPDATE).  Inserting a row locks the rows it  *)
(* refers to FOR KEY SHARE; phases that a lock already held covers are left  *)
(* out, and so are the allocations of a cell, locked only under the cell.    *)
(* Whoever asks for a free lock gets it: PostgreSQL's queue of waiters is     *)
(* left out, and rows of the organization (guests, accounts, users).         *)
(***************************************************************************)
EXTENDS Naturals, Sequences

CONSTANTS
  Clients,    \* the transactions that may be open at once
  Stays,      \* reservation rooms; a stay and its folios have the same number
  Rooms,      \* rooms; a room's task and service block have the same number
  Cells,      \* inventory cells, numbered in the order (room type, date)
  Spans,      \* the sets of cells one demand may cover
  Blocks,     \* the blocks of one group
  RatePlans,  \* the rate plans of one derivation chain
  Keys,       \* idempotency keys
  MaxRow      \* the highest number of a row

ASSUME RowsAssumption ==
  /\ MaxRow \in Nat
  /\ Stays \cup Rooms \cup Cells \cup Blocks \cup RatePlans \cup Keys \subseteq 1..MaxRow
  /\ Spans \subseteq SUBSET Cells

MAX_ATTEMPTS == 3

Phase(kind, rows, mode) == [kind |-> kind, rows |-> rows, mode |-> mode]

Update(kind, rows) == Phase(kind, rows, "update")
Share(kind, rows) == Phase(kind, rows, "share")
KeyShare(kind, rows) == Phase(kind, rows, "keyshare")

\* Every two modes agree unless one is FOR UPDATE, which excludes all others.
Conflict(m1, m2) == "update" \in {m1, m2}

Optional(S) == {{}} \cup {{x} : x \in S}

\* A command runs on an open business date, which it keeps open.
OpenDate == Share("date", {1})
Priced == Share("rates", RatePlans)

(*** Reservations *********************************************************)

CreateReservation(keys, span, rooms) ==
  <<OpenDate, Update("key", keys), Priced, Update("cell", span), Update("seq", {1}), Update("room", rooms)>>

UpdateReservationRoom(i, span, rooms) ==
  <<OpenDate, Update("resroom", {i}), Priced, Update("cell", span), Update("room", rooms)>>

ConfirmReservation(i, span) == <<OpenDate, Update("resroom", {i}), Update("cell", span)>>

ReleaseReservation(i, span) ==
  <<OpenDate, Update("resroom", {i}), Update("cell", span), Update("seq", {2})>>

ReinstateReservation(i, blocks, span) ==
  <<OpenDate, Update("resroom", {i}), Share("block", blocks), Update("cell", span)>>

ReinstateNoShow(i, blocks, span) == ReinstateReservation(i, blocks, span)

ReservationPackage(i) == <<OpenDate, Update("resroom", {i})>>

AssignRoom(i, rooms) == <<OpenDate, Update("resroom", {i}), Update("room", rooms)>>

(*** Front desk ***********************************************************)

CheckIn(i, r) == <<OpenDate, Update("resroom", {i}), Update("room", {r})>>

\* The reservation room it locks next is its own insert.
WalkIn(keys, span, r) == CreateReservation(keys, span, {r})

ReverseCheckIn(i, r) ==
  <<OpenDate, Update("resroom", {i}), Update("stay", {i}), Update("room", {r}), Update("task", {r})>>

MoveRoom(i, from, to) ==
  <<OpenDate, Update("resroom", {i}), Update("stay", {i}), Update("room", {from, to}), Update("task", {from})>>

MutCheckOutRoomFirst(i, span, r) ==
  <<OpenDate, Update("resroom", {i}), Update("stay", {i}), Update("room", {r}), Update("cell", span),
    Update("task", {r}), Update("folio", {i})>>

CheckOut(i, span, r) ==
  <<OpenDate, Update("resroom", {i}), Update("stay", {i}), Update("cell", span), Update("room", {r}),
    Update("task", {r}), Update("folio", {i})>>

ExtendStay(i, span, r) ==
  <<OpenDate, Update("resroom", {i}), Update("stay", {i}), Priced, Update("cell", span), Update("room", {r})>>

(*** Groups and rates ******************************************************)

UpdateGroup == <<Update("group", {1})>>

CloseGroup == <<OpenDate, Update("group", {1})>>

\* One block after the other: the next block is locked while the cells of the first are.
CancelGroup(a, spanA, b, spanB) ==
  <<OpenDate, Update("group", {1}), Update("block", {a}), Update("cell", spanA),
    Update("block", {b}), Update("cell", spanB)>>

\* The new block refers to its rate plan.
CreateBlock(span) == <<OpenDate, Update("group", {1}), KeyShare("rates", RatePlans), Update("cell", span)>>

SetAllocation(b, span) == <<OpenDate, Update("block", {b}), Update("cell", span)>>

ChangeBlockStatus(b, span) == SetAllocation(b, span)

ReleaseBlock(k, b, span) == <<OpenDate, Update("key", {k}), Update("block", {b}), Update("cell", span)>>

\* The reservation it inserts last refers to the group.
Pickup(k, b, span) ==
  <<OpenDate, Update("key", {k}), Share("block", {b}), Priced, Update("cell", span),
    Update("seq", {1}), KeyShare("group", {1})>>

CreateRatePlan(chain) == <<Update("rates", chain)>>

ChangeSeasons(chain) == CreateRatePlan(chain)

\* The plan with its ancestors, then those of the parent it is moved under.
UpdateRatePlan(chain, parents) == <<Update("rates", chain), Update("rates", parents)>>

(*** Rooms, housekeeping, maintenance, setup *******************************)

PlaceServiceBlock(requests, span, r) ==
  <<OpenDate, Update("request", requests), Update("cell", span), Update("room", {r})>>

ReleaseServiceBlock(requests, span, r) ==
  <<OpenDate, Update("request", requests), Update("serviceBlock", {r}), Update("cell", span),
    Update("room", {r}), Update("task", {r})>>

CreateTask(r) == <<OpenDate, Update("room", {r})>>

WorkTask(r) == <<OpenDate, Update("room", {r}), Update("task", {r})>>

InspectRoom(r) == WorkTask(r)

SetRoomHousekeeping(r) == CreateTask(r)

AssignTask(r) == <<OpenDate, Update("task", {r})>>

CloseTask(r) == AssignTask(r)

BlockRequestRoom(span, r) == PlaceServiceBlock({r}, span, r)

\* At most one block of a request is live: all start today, and none may overlap another.
ResolveRequest(span, r) == ReleaseServiceBlock({r}, span, r)

WorkRequest(r) == <<OpenDate, Update("request", {r})>>

ManageRequest(r) == WorkRequest(r)

AddNote(r) == <<Update("request", {r})>>

\* The request it inserts refers to the room, which its block locks after the cells.
CreateRequest(r) == <<OpenDate, Update("seq", {4}), KeyShare("room", {r})>>

CreateBlockingRequest(span, r) == CreateRequest(r) \o <<Update("cell", span), Update("room", {r})>>

\* The recount locks every cell of the property.
CreateRooms == <<Update("cell", Cells)>>

UpdateRoom(r) == <<Update("room", {r}), Update("cell", Cells)>>

(*** Billing **************************************************************)

PostCharge(k, i) == <<OpenDate, Update("key", {k}), Update("folio", {i})>>

ReverseItem(k, i) == PostCharge(k, i)

AdjustItem(k, i) == PostCharge(k, i)

PostRoomCharges(k, i) ==
  <<OpenDate, Update("key", {k}), Update("resroom", {i}), Update("folio", {i})>>

OpenWindow(i) == <<OpenDate, Update("resroom", {i})>>

SettleFolio(i) == <<OpenDate, Update("folio", {i})>>

PostPayment(k, i) == <<OpenDate, Update("key", {k}), Update("seq", {3}), Update("folio", {i})>>

VoidPayment(k, i) == <<OpenDate, Update("key", {k}), Update("folio", {i}), Update("payment", {i})>>

RefundPayment(k, i) == VoidPayment(k, i)

(*** Night audit **********************************************************)

StartNightAudit(k) == <<Update("date", {1}), Update("key", {k})>>

FailRun == <<Update("date", {1})>>

\* No command with a date runs beside it: its order matters to those without.
CommitNightAudit(noShow, b, cutoff) ==
  <<Update("date", {1}), Update("resroom", Stays), Update("folio", Stays), Update("cell", noShow),
    Update("serviceBlock", Rooms), Update("room", Rooms), Update("block", {b}), Update("cell", cutoff),
    Update("task", Rooms), Update("cell", Cells)>>
(*** What a client may run **************************************************)

OptionalSpans == Spans \cup {{}}

StayCommands ==
  UNION {
    {ConfirmReservation(i, s) : i \in Stays, s \in Spans},
    {UpdateReservationRoom(i, s, q) : i \in Stays, s \in Spans, q \in Optional(Rooms)},
    {ReleaseReservation(i, s) : i \in Stays, s \in Spans},
    {ReinstateReservation(i, q, s) : i \in Stays, q \in Optional(Blocks), s \in Spans},
    {ReinstateNoShow(i, q, s) : i \in Stays, q \in Optional(Blocks), s \in Spans},
    {ReservationPackage(i) : i \in Stays},
    {AssignRoom(i, q) : i \in Stays, q \in Optional(Rooms)},
    {CheckIn(i, r) : i \in Stays, r \in Rooms},
    {ReverseCheckIn(i, r) : i \in Stays, r \in Rooms},
    {MoveRoom(i, r, t) : i \in Stays, r \in Rooms, t \in Rooms},
    {CheckOut(i, s, r) : i \in Stays, s \in OptionalSpans, r \in Rooms},
    {ExtendStay(i, s, r) : i \in Stays, s \in Spans, r \in Rooms}}

HouseCommands ==
  UNION {
    {CreateReservation(q, s, t) : q \in Optional(Keys), s \in Spans, t \in Optional(Rooms)},
    {WalkIn(q, s, r) : q \in Optional(Keys), s \in Spans, r \in Rooms},
    {PlaceServiceBlock({}, s, r) : s \in OptionalSpans, r \in Rooms},
    {BlockRequestRoom(s, r) : s \in OptionalSpans, r \in Rooms},
    {ReleaseServiceBlock({}, s, r) : s \in OptionalSpans, r \in Rooms},
    {ResolveRequest(s, r) : s \in OptionalSpans, r \in Rooms},
    {CreateTask(r) : r \in Rooms}, {WorkTask(r) : r \in Rooms}, {InspectRoom(r) : r \in Rooms},
    {SetRoomHousekeeping(r) : r \in Rooms}, {AssignTask(r) : r \in Rooms}, {CloseTask(r) : r \in Rooms},
    {WorkRequest(r) : r \in Rooms}, {ManageRequest(r) : r \in Rooms}, {AddNote(r) : r \in Rooms},
    {CreateRequest(r) : r \in Rooms}, {CreateRooms}}

GroupCommands ==
  UNION {
    {UpdateGroup, CloseGroup}, {CreateBlock(s) : s \in Spans},
    {SetAllocation(b, s) : b \in Blocks, s \in Spans},
    {ChangeBlockStatus(b, s) : b \in Blocks, s \in Spans},
    {ReleaseBlock(k, b, s) : k \in Keys, b \in Blocks, s \in Spans},
    {CreateRatePlan(q) : q \in SUBSET RatePlans}, {ChangeSeasons(q) : q \in SUBSET RatePlans}}

MoneyCommands ==
  UNION {
    {PostCharge(k, i) : k \in Keys, i \in Stays}, {ReverseItem(k, i) : k \in Keys, i \in Stays},
    {AdjustItem(k, i) : k \in Keys, i \in Stays}, {PostRoomCharges(k, i) : k \in Keys, i \in Stays},
    {OpenWindow(i) : i \in Stays}, {SettleFolio(i) : i \in Stays},
    {PostPayment(k, i) : k \in Keys, i \in Stays}, {VoidPayment(k, i) : k \in Keys, i \in Stays},
    {RefundPayment(k, i) : k \in Keys, i \in Stays}, {StartNightAudit(k) : k \in Keys}, {FailRun}}

Commits == {CommitNightAudit(s, b, t) : s \in OptionalSpans, b \in Blocks, t \in OptionalSpans}

\* The commands that come back to a kind of row, or to one that others lock before.
Inverted ==
  UNION {
    {CancelGroup(a, s, b, t) : a \in Blocks, s \in Spans, b \in Blocks, t \in Spans},
    {Pickup(k, b, s) : k \in Keys, b \in Blocks, s \in Spans},
    {UpdateRatePlan(q, t) : q \in SUBSET RatePlans, t \in SUBSET RatePlans},
    {CreateBlockingRequest(s, r) : s \in OptionalSpans, r \in Rooms},
    {UpdateRoom(r) : r \in Rooms}, Commits}

Orderly == StayCommands \cup HouseCommands \cup GroupCommands \cup MoneyCommands

(*** The transactions ******************************************************)

VARIABLES
  plan,    \* what each client's transaction locks; <<>> when it has none
  taken,   \* the locks it holds: pairs <<phase, row>>
  attempt  \* how often it was begun

lockVars == <<plan, taken, attempt>>

\* The next lock: all earlier phases are complete, and the lower rows of this one.
Wants(c, k, n) ==
  /\ k \in DOMAIN plan[c] /\ n \in plan[c][k].rows /\ <<k, n>> \notin taken[c]
  /\ \A j \in DOMAIN plan[c] : \A m \in plan[c][j].rows :
        j < k \/ (j = k /\ m < n) => <<j, m>> \in taken[c]

\* d holds the row in a mode that excludes the one asked for.
Excludes(d, kind, n, mode) ==
  \E t \in taken[d] :
    /\ t[2] = n /\ plan[d][t[1]].kind = kind /\ Conflict(plan[d][t[1]].mode, mode)

WaitsFor(c, d) ==
  /\ c # d
  /\ \E k \in DOMAIN plan[c] : \E n \in plan[c][k].rows :
        Wants(c, k, n) /\ Excludes(d, plan[c][k].kind, n, plan[c][k].mode)

Deadlocked(S) == S # {} /\ \A c \in S : \E d \in S : WaitsFor(c, d)

\* A client of a cycle of waiters, not one that waits for the cycle.
InCycle(c) ==
  \E S \in SUBSET Clients :
    /\ c \in S /\ Deadlocked(S)
    /\ \A T \in SUBSET S : Deadlocked(T) => T = S

LockInit ==
  /\ plan = [c \in Clients |-> <<>>]
  /\ taken = [c \in Clients |-> {}]
  /\ attempt = [c \in Clients |-> 0]

BeginTransaction(c) ==
  /\ plan[c] = <<>>
  /\ \E p \in Orderly \cup Inverted : plan' = [plan EXCEPT ![c] = p]
  /\ attempt' = [attempt EXCEPT ![c] = 1]
  /\ UNCHANGED taken

Lock(c) ==
  /\ \E k \in DOMAIN plan[c] : \E n \in plan[c][k].rows :
       /\ Wants(c, k, n)
       /\ \A d \in Clients \ {c} : ~Excludes(d, plan[c][k].kind, n, plan[c][k].mode)
       /\ taken' = [taken EXCEPT ![c] = @ \cup {<<k, n>>}]
  /\ UNCHANGED <<plan, attempt>>

\* It commits, or fails: a rule refuses what it asks, a statement takes too long.
EndTransaction(c) ==
  /\ plan[c] # <<>>
  /\ plan' = [plan EXCEPT ![c] = <<>>]
  /\ taken' = [taken EXCEPT ![c] = {}]
  /\ attempt' = [attempt EXCEPT ![c] = 0]

AttemptsOf(p) == IF p \in Commits THEN 1 ELSE MAX_ATTEMPTS

\* The database breaks a cycle at one of its transactions, which is begun again.
RetryDeadlock(c) ==
  /\ InCycle(c) /\ attempt[c] < AttemptsOf(plan[c])
  /\ taken' = [taken EXCEPT ![c] = {}]
  /\ attempt' = [attempt EXCEPT ![c] = @ + 1]
  /\ UNCHANGED plan

LockNext ==
  \E c \in Clients : BeginTransaction(c) \/ Lock(c) \/ EndTransaction(c) \/ RetryDeadlock(c)

LockSpec == LockInit /\ [][LockNext]_lockVars

(*** Properties *************************************************************)

\* The transactions are those of the commands; each holds locks of its own plan, taken
\* in its order.
LockTypeOK ==
  /\ plan \in [Clients -> Orderly \cup Inverted \cup {<<>>}]
  /\ attempt \in [Clients -> 0..MAX_ATTEMPTS]
  /\ taken \in [Clients -> SUBSET (Nat \X Nat)]
  /\ \A c \in Clients : \A t \in taken[c] :
       /\ t[1] \in DOMAIN plan[c] /\ t[2] \in plan[c][t[1]].rows
       /\ \A j \in DOMAIN plan[c] : \A m \in plan[c][j].rows :
            j < t[1] \/ (j = t[1] /\ m < t[2]) => <<j, m>> \in taken[c]

\* "Explicit row locks on contention points, always taken in a fixed order to avoid
\* deadlocks": commands never wait for each other in a circle unless one of them is
\* among the few that do not keep the order.
OnlyInvertedDeadlock ==
  \A S \in SUBSET Clients : Deadlocked(S) => \E c \in S : plan[c] \in Inverted
=============================================================================
