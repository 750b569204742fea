----------------------------- MODULE Inventory ------------------------------
(***************************************************************************)
(* The inventory of one property: what is sold, held by group blocks and     *)
(* out of order per cell (a room type and a night), and the commands that    *)
(* change it: bookings, front desk, groups, service blocks, room setup.      *)
(*                                                                          *)
(* A command is a transaction of two steps.  The first waits for its locks,  *)
(* reads, checks and writes; tx[k] then holds what only the transaction      *)
(* sees.  The second commits.  The commands that read before they lock have  *)
(* a step for that.  The lock order, and so the deadlocks of the database,   *)
(* is not modelled: a command takes all its locks at once.                   *)
(***************************************************************************)
EXTENDS Integers, FiniteSets

CONSTANTS Types, Rooms,
          Ids,        \* reservation rooms
          Blocks,     \* blocks of one group
          Clients,
          LastNight,  \* nights are 1..LastNight
          MaxAlloc,   \* the most rooms a block allocates to a cell
          Commands,   \* the commands the clients give
          Edits,      \* the edits of rooms they make: retire, reactivate, retype
          Overrides,  \* whether a command may override the availability
          None

ASSUME BoundsAssumption == LastNight \in Nat \ {0} /\ MaxAlloc \in Nat
ASSUME FiniteAssumption == IsFiniteSet(Rooms) /\ IsFiniteSet(Ids) /\ IsFiniteSet(Blocks)
ASSUME OverridesAssumption == Overrides \in BOOLEAN

VARIABLES
  today,  \* the business date
  room,   \* room[r]: the row of rooms and its live out-of-order periods
  res,    \* res[i]: the row of reservation_rooms and its nights
  blk,    \* blk[b]: the row of blocks and its block_allocations
  group,  \* the status of the group
  cell,   \* cell[c]: the cached counters of room_type_inventory, or None
  tx      \* tx[k]: the transaction of client k

vars == <<today, room, res, blk, group, cell, tx>>

Nights == 1..LastNight
Cells == Types \X Nights
Dates == 1..(LastNight + 1)
NoRow == -1    \* no row of block_allocations for the cell

Booking == [status : {"WAITLISTED", "RESERVED", "IN_HOUSE", "CHECKED_OUT", "CANCELLED",
                      "NO_SHOW"},
            deducts : BOOLEAN, type : Types, arr : Dates, dep : Dates,
            block : Blocks \cup {None}]

Block == [status : {"INQUIRY", "NON_DEDUCT", "DEDUCT", "CANCEL"},
          elastic : BOOLEAN, from : Dates, to : Dates,
          alloc : [Cells -> NoRow..MaxAlloc], released : [Cells -> 0..MaxAlloc]]

Room == [type : Types, active : BOOLEAN, ooo : SUBSET (Dates \X Dates)]

GroupStatus == {"ACTIVE", "CLOSED", "CANCELLED"}

Counters == [physical : Nat, ooo : Nat, sold : Nat, blocked : Nat]

\* Rows that do not exist.
NoBooking == [status |-> "none", deducts |-> FALSE, type |-> None, arr |-> 1, dep |-> 1,
              block |-> None]

NoBlock == [status |-> "none", elastic |-> FALSE, from |-> 1, to |-> 1,
            alloc |-> [c \in Cells |-> NoRow], released |-> [c \in Cells |-> 0]]

NoRoom == [type |-> None, active |-> FALSE, ooo |-> {}]

ASSUME NoneAssumption ==
  /\ None \notin Types \cup Blocks \cup GroupStatus
  /\ None \notin Booking /\ None \notin Block /\ None \notin Room /\ None \notin Counters
  /\ None \notin [room : Rooms, type : Types]

\* A transaction: the cells and blocks (FOR SHARE) it holds, the rows it holds and has
\* written, its counters, and what it read before it took its locks.
Idle == [pc |-> "idle", kind |-> "none", override |-> FALSE,
         cells |-> {}, share |-> {}, group |-> None,
         res |-> [i \in Ids |-> None], blk |-> [b \in Blocks |-> None],
         room |-> [r \in Rooms |-> None], sync |-> [c \in Cells |-> None],
         fresh |-> {}, ref |-> None]

Max0(n) == IF n > 0 THEN n ELSE 0

----------------------------------------------------------------------------
(* Counting from the source rows, in the database w as some transaction sees *)
(* it.                                                                      *)

Written(f) == {x \in DOMAIN f : f[x] # None}
Overlay(f, g) == [x \in DOMAIN g |-> IF f[x] # None THEN f[x] ELSE g[x]]

World == [res |-> res, blk |-> blk, room |-> room]

\* The database as transaction t sees it.
After(t) == [res |-> Overlay(t.res, res), blk |-> Overlay(t.blk, blk),
             room |-> Overlay(t.room, room)]

Demand(y, a, d) == {<<y, n>> : n \in a..(d - 1)}
StayOf(row) == Demand(row.type, row.arr, row.dep)

MutConsumes(row) == row.status = "RESERVED" /\ row.deducts    \* forgets the guests in house

Consumes(row) == row.status \in {"RESERVED", "IN_HOUSE"} /\ row.deducts

\* A night of the reservation counts as sold, or as picked up from block b.
Sells(row, c) == Consumes(row) /\ c \in StayOf(row)
Picks(row, b, c) ==
  /\ row.block = b
  /\ row.status \in {"RESERVED", "IN_HOUSE", "CHECKED_OUT"} /\ row.deducts
  /\ c \in StayOf(row)

OutOfUse(row, c) ==
  row.active /\ row.type = c[1] /\ \E p \in row.ooo : c[2] \in p[1]..(p[2] - 1)

Physical(w, y) == Cardinality({r \in Rooms : w.room[r].active /\ w.room[r].type = y})
OutOfOrder(w, c) == Cardinality({r \in Rooms : OutOfUse(w.room[r], c)})
Sold(w, c) == Cardinality({i \in Ids : Sells(w.res[i], c)})
Picked(w, b, c) == Cardinality({i \in Ids : Picks(w.res[i], b, c)})

\* What a row of block_allocations still holds when n rooms of it are picked up.
RemainingRooms(row, c, n) == Max0(row.alloc[c] - row.released[c] - n)
HeldOf(row, c, n) == IF row.status = "DEDUCT" THEN RemainingRooms(row, c, n) ELSE 0
Left(w, b, c) == RemainingRooms(w.blk[b], c, Picked(w, b, c))
Held(w, b, c) == HeldOf(w.blk[b], c, Picked(w, b, c))

\* The sum of what the blocks hold: a pair for each room held.
Blocked(w, c) == Cardinality({p \in Blocks \X (1..MaxAlloc) : p[2] <= Held(w, p[1], c)})

Spare(w, c) == Physical(w, c[1]) - OutOfOrder(w, c) - Sold(w, c) - Blocked(w, c)

Recount(w, c) == [physical |-> Physical(w, c[1]), ooo |-> OutOfOrder(w, c),
                  sold |-> Sold(w, c), blocked |-> Blocked(w, c)]

----------------------------------------------------------------------------
(* Locks, checks and the end of a transaction.                              *)

\* No cell is locked: a check counts what others are about to change.
MutLockable(k, t) ==
  \A j \in Clients \ {k} :
    /\ Written(tx[j].res) \cap Written(t.res) = {}
    /\ Written(tx[j].blk) \cap (Written(t.blk) \cup t.share) = {}
    /\ tx[j].share \cap Written(t.blk) = {}
    /\ Written(tx[j].room) \cap Written(t.room) = {}
    /\ tx[j].group = None \/ t.group = None

\* Nobody else holds what t locks: cells, reservation rooms, blocks (FOR UPDATE or
\* FOR SHARE), rooms, the group.
Lockable(k, t) ==
  \A j \in Clients \ {k} :
    /\ tx[j].cells \cap t.cells = {}
    /\ Written(tx[j].res) \cap Written(t.res) = {}
    /\ Written(tx[j].blk) \cap (Written(t.blk) \cup t.share) = {}
    /\ tx[j].share \cap Written(t.blk) = {}
    /\ Written(tx[j].room) \cap Written(t.room) = {}
    /\ tx[j].group = None \/ t.group = None

\* Transaction t has its locks and has written; it recounts its cells.
Prepare(k, t) ==
  /\ t.kind \in Commands
  /\ Lockable(k, t)
  /\ tx' = [tx EXCEPT ![k] =
              [t EXCEPT !.pc = "ready",
                        !.sync = [c \in Cells |-> IF c \in t.cells THEN Recount(After(t), c)
                                                                 ELSE None]]]
  /\ UNCHANGED <<today, room, res, blk, group, cell>>

\* The commit; a written block has a new version, so what others read of it is old.
Commit(k) ==
  /\ tx[k].pc = "ready"
  /\ res' = After(tx[k]).res
  /\ blk' = After(tx[k]).blk
  /\ room' = After(tx[k]).room
  /\ group' = IF tx[k].group = None THEN group ELSE tx[k].group
  /\ cell' = [c \in Cells |-> IF c \in tx[k].cells THEN tx[k].sync[c] ELSE cell[c]]
  /\ tx' = [j \in Clients |-> IF j = k THEN Idle
                              ELSE [tx[j] EXCEPT !.fresh = @ \ Written(tx[k].blk)]]
  /\ UNCHANGED today

\* The transaction is rolled back: an error, a lost connection, a process that dies.
Abort(k) ==
  /\ tx[k].pc # "idle"
  /\ tx' = [tx EXCEPT ![k] = Idle]
  /\ UNCHANGED <<today, room, res, blk, group, cell>>

\* The availability override, where the caller has the permission.
Override == IF Overrides THEN BOOLEAN ELSE {FALSE}

MutHouseCovers(w, cells, n, over) ==    \* an off-by-one
  over \/ \A c \in cells : Spare(w, c) >= n - 1

\* reserveInventory: every night has n spare rooms.
HouseCovers(w, cells, n, over) == over \/ \A c \in cells : Spare(w, c) >= n

MutBlockCovers(w, b, cells, n, over) ==    \* forgets what is picked up
  /\ w.blk[b].status = "DEDUCT"
  /\ \A c \in cells : w.blk[b].alloc[c] # NoRow
  /\ over \/ \A c \in cells :
       RemainingRooms(w.blk[b], c, 0) + (IF w.blk[b].elastic THEN Max0(Spare(w, c)) ELSE 0) >= n

\* reserveBlockInventory: the block holds n rooms on every night; an elastic block
\* may take the excess from the house.
BlockCovers(w, b, cells, n, over) ==
  /\ w.blk[b].status = "DEDUCT"
  /\ \A c \in cells : w.blk[b].alloc[c] # NoRow
  /\ over \/ \A c \in cells :
       Left(w, b, c) + (IF w.blk[b].elastic THEN Max0(Spare(w, c)) ELSE 0) >= n

\* assertHouseCovers: the house without block b has what the block is to hold.
HouseCoversBlock(b, row, cells, over) ==
  over \/ \A c \in cells : RemainingRooms(row, c, Picked(World, b, c))
                             <= Max0(Spare([World EXCEPT !.blk[b] = NoBlock], c))

WithoutStay(i) == [World EXCEPT !.res[i] = NoBooking]

Start(k) == tx[k].pc = "idle"

----------------------------------------------------------------------------
(* Reservations.                                                            *)

\* createReservationInTx: one or more rooms of one stay, perhaps on the waitlist.
Book(k) ==
  /\ Start(k)
  /\ \E ids \in (SUBSET Ids) \ {{}}, y \in Types, a \in Nights, d \in Dates,
        st \in {"WAITLISTED", "RESERVED"}, deducts \in BOOLEAN, over \in Override :
       LET row == [status |-> st, deducts |-> deducts, type |-> y, arr |-> a, dep |-> d,
                   block |-> None]
           cells == IF Consumes(row) THEN StayOf(row) ELSE {}
       IN /\ today <= a /\ a < d
          /\ \A i \in ids : res[i].status = "none"
          /\ HouseCovers(World, cells, Cardinality(ids), over)
          /\ Prepare(k, [Idle EXCEPT !.kind = "book", !.override = over, !.cells = cells,
                                     !.res = [i \in Ids |-> IF i \in ids THEN row ELSE None]])

\* updateReservationRoom: other dates or another type; a pickup keeps its own.
Modify(k) ==
  /\ Start(k)
  /\ \E i \in Ids, y \in Types, a \in Nights, d \in Dates, over \in Override :
       LET row == [res[i] EXCEPT !.type = y, !.arr = a, !.dep = d]
           cells == IF Consumes(res[i]) THEN StayOf(row) ELSE {}
       IN /\ res[i].status \in {"RESERVED", "WAITLISTED"} /\ res[i].block = None
          /\ row # res[i] /\ a < d
          /\ a # res[i].arr => today <= a
          /\ HouseCovers(WithoutStay(i), cells, 1, over)
          /\ Prepare(k, [Idle EXCEPT !.kind = "modify", !.override = over,
                           !.cells = IF Consumes(res[i]) THEN cells \cup StayOf(res[i]) ELSE {},
                           !.res[i] = row])

\* confirmReservation: a tentative or waitlisted reservation is sold.
Confirm(k) ==
  /\ Start(k)
  /\ \E i \in Ids, over \in Override :
       /\ res[i].status = "WAITLISTED" \/ (res[i].status = "RESERVED" /\ ~res[i].deducts)
       /\ today <= res[i].arr
       /\ HouseCovers(WithoutStay(i), StayOf(res[i]), 1, over)
       /\ Prepare(k, [Idle EXCEPT !.kind = "confirm", !.override = over,
                        !.cells = StayOf(res[i]),
                        !.res[i] = [res[i] EXCEPT !.status = "RESERVED",
                                                              !.deducts = TRUE]])

\* releaseReservationInTx: a cancellation or a no-show, by a user or the night audit.
Release(k) ==
  /\ Start(k)
  /\ \E i \in Ids, st \in {"CANCELLED", "NO_SHOW"} :
       /\ IF st = "CANCELLED" THEN res[i].status \in {"RESERVED", "WAITLISTED"}
                              ELSE res[i].status = "RESERVED" /\ res[i].arr <= today
       /\ Prepare(k, [Idle EXCEPT !.kind = "release",
                        !.cells = IF Consumes(res[i]) THEN StayOf(res[i]) ELSE {},
                        !.res[i] = [res[i] EXCEPT !.status = st]])

MutTakeBack(k, i, a) ==    \* a pickup is taken back without a look at its block
  \E over \in Override :
    LET row == [res[i] EXCEPT !.status = "RESERVED", !.arr = a]
        cells == IF row.deducts THEN StayOf(row) ELSE {}
        picked == row.deducts /\ row.block # None
    IN /\ picked \/ HouseCovers(World, cells, 1, over)
       /\ Prepare(k, [Idle EXCEPT !.kind = "reinstate", !.override = over, !.cells = cells,
                        !.share = IF picked THEN {row.block} ELSE {},
                        !.res[i] = row])

\* A stay from night a on takes inventory again, a pickup from its block.
TakeBack(k, i, a) ==
  \E over \in Override :
    LET row == [res[i] EXCEPT !.status = "RESERVED", !.arr = a]
        cells == IF row.deducts THEN StayOf(row) ELSE {}
        picked == row.deducts /\ row.block # None
    IN /\ IF picked THEN BlockCovers(World, row.block, cells, 1, over)
                    ELSE HouseCovers(World, cells, 1, over)
       /\ Prepare(k, [Idle EXCEPT !.kind = "reinstate", !.override = over, !.cells = cells,
                        !.share = IF picked THEN {row.block} ELSE {},
                        !.res[i] = row])

\* reinstateReservation.
Reinstate(k) ==
  /\ Start(k)
  /\ \E i \in Ids : /\ res[i].status = "CANCELLED" /\ today <= res[i].arr
                    /\ TakeBack(k, i, res[i].arr)

\* reinstateNoShow: the nights before the business date are dropped.
ReinstateNoShow(k) ==
  /\ Start(k)
  /\ \E i \in Ids : /\ res[i].status = "NO_SHOW" /\ today < res[i].dep
                    /\ TakeBack(k, i, IF res[i].arr > today THEN res[i].arr ELSE today)

\* markCheckedIn; the room it needs is not modelled here.
CheckIn(k) ==
  /\ Start(k)
  /\ \E i \in Ids :
       /\ res[i].status = "RESERVED" /\ res[i].deducts
       /\ res[i].arr = today /\ today < res[i].dep
       /\ Prepare(k, [Idle EXCEPT !.kind = "checkIn",
                        !.res[i] = [res[i] EXCEPT !.status = "IN_HOUSE"]])

\* markCheckInReversed, on the business date of the check-in.
ReverseCheckIn(k) ==
  /\ Start(k)
  /\ \E i \in Ids :
       /\ res[i].status = "IN_HOUSE" /\ res[i].arr = today
       /\ Prepare(k, [Idle EXCEPT !.kind = "checkIn",
                        !.res[i] = [res[i] EXCEPT !.status = "RESERVED"]])

\* markCheckedOut: on time, late, or early and then without the unused nights.
CheckOut(k) ==
  /\ Start(k)
  /\ \E i \in Ids :
       LET early == res[i].dep > today
       IN /\ res[i].status = "IN_HOUSE"
          /\ early => res[i].arr < today
          /\ Prepare(k, [Idle EXCEPT !.kind = "checkOut",
                !.cells = IF early THEN Demand(res[i].type, today, res[i].dep) ELSE {},
                !.res[i] = [res[i] EXCEPT !.status = "CHECKED_OUT",
                                          !.dep = IF early THEN today ELSE @]])

\* extendInHouseStay: the added nights come from the house, a pickup's too.
Extend(k) ==
  /\ Start(k)
  /\ \E i \in Ids, d \in Dates, over \in Override :
       LET cells == Demand(res[i].type, res[i].dep, d)
       IN /\ res[i].status = "IN_HOUSE" /\ d > res[i].dep /\ d > today
          /\ HouseCovers(World, cells, 1, over)
          /\ Prepare(k, [Idle EXCEPT !.kind = "extend", !.override = over, !.cells = cells,
                           !.res[i] = [res[i] EXCEPT !.dep = d]])

----------------------------------------------------------------------------
(* Groups and blocks.                                                       *)

MutGridCells(row, ys) ==    \* the last night is left out
  {c \in Cells : /\ c[1] \in ys /\ c[2] \in row.from..(row.to - 2)
                 /\ \E n \in Nights : row.alloc[<<c[1], n>>] # NoRow}

\* demandsOf: all nights of the block, for the types ys of its grid.
GridCells(row, ys) ==
  {c \in Cells : /\ c[1] \in ys /\ c[2] \in row.from..(row.to - 1)
                 /\ \E n \in Nights : row.alloc[<<c[1], n>>] # NoRow}

\* createBlock: rooms[y] of each type that is allocated, for all nights.
CreateBlock(k) ==
  /\ Start(k)
  /\ group = "ACTIVE"
  /\ \E b \in Blocks, from \in Nights, to \in Dates, elastic \in BOOLEAN,
        st \in {"INQUIRY", "NON_DEDUCT", "DEDUCT"},
        rooms \in [Types -> NoRow..MaxAlloc], over \in Override :
       LET row == [NoBlock EXCEPT !.status = st, !.elastic = elastic,
                     !.from = from, !.to = to,
                     !.alloc = [c \in Cells |-> IF c[2] \in from..(to - 1) THEN rooms[c[1]]
                                                                           ELSE NoRow]]
           cells == IF st = "DEDUCT" THEN GridCells(row, Types) ELSE {}
       IN /\ blk[b].status = "none"
          /\ today <= from /\ from < to
          /\ HouseCoversBlock(b, row, cells, over)
          /\ Prepare(k, [Idle EXCEPT !.kind = "createBlock", !.override = over,
                           !.cells = cells, !.group = group, !.blk[b] = row])

\* allocationProblem.
MayAllocate(b, c, n) ==
  LET row == blk[b]
  IN /\ n >= row.released[c]
     /\ row.elastic \/ n >= row.released[c] + Picked(World, b, c)

\* setAllocation: n rooms of type y on the nights from..to.
SetAllocation(k) ==
  /\ Start(k)
  /\ \E b \in Blocks, y \in Types, from \in Nights, to \in Nights, n \in 0..MaxAlloc,
        over \in Override :
       LET row == [blk[b] EXCEPT !.alloc =
                     [c \in Cells |-> IF c[1] = y /\ c[2] \in from..to THEN n ELSE @[c]]]
           cells == Demand(y, blk[b].from, blk[b].to)
       IN /\ blk[b].status \notin {"none", "CANCEL"}
          /\ blk[b].from <= from /\ from <= to /\ to < blk[b].to
          /\ \A c \in {y} \X (from..to) : MayAllocate(b, c, n)
          /\ blk[b].status = "DEDUCT" => HouseCoversBlock(b, row, cells, over)
          /\ Prepare(k, [Idle EXCEPT !.kind = "setAllocation", !.override = over,
                           !.cells = cells, !.blk[b] = row])

\* countActivePickup.
ActivePickup(b) == {i \in Ids : res[i].block = b /\ res[i].status \in {"RESERVED", "IN_HOUSE"}}

MutBlockMayBecome(b, st) ==    \* the active pickups are not counted
  LET from == blk[b].status
  IN \/ from = st
     \/ st \in CASE from = "INQUIRY" -> {"NON_DEDUCT", "DEDUCT", "CANCEL"}
               []   from = "NON_DEDUCT" -> {"DEDUCT", "CANCEL"}
               []   from = "DEDUCT" -> {"NON_DEDUCT", "CANCEL"}

\* blockTransitionProblem.
BlockMayBecome(b, st) ==
  LET from == blk[b].status
  IN \/ from = st
     \/ /\ st \in CASE from = "INQUIRY" -> {"NON_DEDUCT", "DEDUCT", "CANCEL"}
                  []   from = "NON_DEDUCT" -> {"DEDUCT", "CANCEL"}
                  []   from = "DEDUCT" -> {"NON_DEDUCT", "CANCEL"}
        /\ from = "DEDUCT" => ActivePickup(b) = {}

\* changeBlockStatus.
ChangeBlockStatus(k) ==
  /\ Start(k)
  /\ \E b \in Blocks, st \in {"INQUIRY", "NON_DEDUCT", "DEDUCT", "CANCEL"},
        over \in Override :
       LET row == [blk[b] EXCEPT !.status = st]
           inventoryChanges == (blk[b].status = "DEDUCT") # (st = "DEDUCT")
           cells == IF inventoryChanges THEN GridCells(row, Types) ELSE {}
       IN /\ blk[b].status \notin {"none", "CANCEL"}
          /\ BlockMayBecome(b, st)
          /\ st = "DEDUCT" => HouseCoversBlock(b, row, cells, over)
          /\ Prepare(k, [Idle EXCEPT !.kind = "changeBlockStatus", !.override = over,
                           !.cells = cells, !.blk[b] = row])

\* What block b still holds of the types ys on the nights ns is released.
ReleasedRow(b, ys, ns) ==
  [blk[b] EXCEPT !.released =
     [c \in Cells |-> IF c[1] \in ys /\ c[2] \in ns THEN @[c] + Left(World, b, c) ELSE @[c]]]

\* releaseBlock, and applyCutoffsInTx: all types from the next date on.
ReleaseBlock(k) ==
  /\ Start(k)
  /\ \E b \in Blocks, ys \in {Types} \cup {{y} : y \in Types}, from \in Nights, to \in Nights :
       LET row == ReleasedRow(b, ys, from..to)
       IN /\ blk[b].status \notin {"none", "CANCEL"}
          /\ row # blk[b]
          /\ Prepare(k, [Idle EXCEPT !.kind = "releaseBlock", !.cells = GridCells(row, ys),
                                     !.blk[b] = row])

\* pickup: a booking of one or more rooms from a block.
Pickup(k) ==
  /\ Start(k)
  /\ group = "ACTIVE"
  /\ \E b \in Blocks, ids \in (SUBSET Ids) \ {{}}, y \in Types, a \in Nights, d \in Dates,
        over \in Override :
       LET row == [status |-> "RESERVED", deducts |-> TRUE, type |-> y, arr |-> a, dep |-> d,
                   block |-> b]
       IN /\ today <= a /\ a < d
          /\ blk[b].from <= a /\ d <= blk[b].to
          /\ \A i \in ids : res[i].status = "none"
          /\ BlockCovers(World, b, StayOf(row), Cardinality(ids), over)
          /\ Prepare(k, [Idle EXCEPT !.kind = "pickup", !.override = over, !.share = {b},
                           !.cells = StayOf(row),
                           !.res = [i \in Ids |-> IF i \in ids THEN row ELSE None]])

LiveBlocks == {b \in Blocks : blk[b].status \notin {"none", "CANCEL"}}

\* changeGroupStatus, to CLOSED.
CloseGroup(k) ==
  /\ Start(k)
  /\ group = "ACTIVE"
  /\ Prepare(k, [Idle EXCEPT !.kind = "closeGroup", !.group = "CLOSED"])

\* changeGroupStatus, to CANCELLED: it locks the group and reads its blocks.
BeginCancelGroup(k) ==
  LET t == [Idle EXCEPT !.pc = "read", !.kind = "cancelGroup", !.group = "CANCELLED",
                        !.fresh = LiveBlocks]
  IN /\ Start(k)
     /\ group = "ACTIVE" /\ "cancelGroup" \in Commands
     /\ Lockable(k, t)
     /\ tx' = [tx EXCEPT ![k] = t]
     /\ UNCHANGED <<today, room, res, blk, group, cell>>

\* It locks each block and cancels it, unless the block was written since it was
\* read: updateBlockVersioned then matches no row, and nobody looks.
CancelGroup(k) ==
  /\ tx[k].pc = "read" /\ tx[k].kind = "cancelGroup"
  /\ \A b \in LiveBlocks : ActivePickup(b) = {}
  /\ Prepare(k, [tx[k] EXCEPT
                   !.cells = UNION {GridCells(blk[b], Types) : b \in LiveBlocks},
                   !.blk = [b \in Blocks |-> IF b \notin LiveBlocks THEN None
                                             ELSE IF b \in tx[k].fresh
                                                    THEN [blk[b] EXCEPT !.status = "CANCEL"]
                                                    ELSE blk[b]]])

----------------------------------------------------------------------------
(* Rooms.                                                                   *)

\* placeServiceBlock and releaseServiceBlock read the room before they lock.
ReadRoom(k) ==
  /\ Start(k)
  /\ \E r \in Rooms, kind \in {"place", "return"} \cap Commands :
       /\ kind = "place" => room[r].active
       /\ kind = "return" => room[r].ooo # {}
       /\ tx' = [tx EXCEPT ![k] = [Idle EXCEPT !.pc = "read", !.kind = kind,
                                     !.ref = [room |-> r, type |-> room[r].type]]]
  /\ UNCHANGED <<today, room, res, blk, group, cell>>

\* placeServiceBlock: the room goes out of order for some nights.
Place(k) ==
  /\ tx[k].pc = "read" /\ tx[k].kind = "place"
  /\ \E from \in Nights, to \in Dates :
       LET r == tx[k].ref.room
           cells == Demand(tx[k].ref.type, from, to)
       IN /\ today <= from /\ from < to
          /\ HouseCovers(World, cells, 1, FALSE)
          /\ \A p \in room[r].ooo : p[2] <= from \/ to <= p[1]
          /\ Prepare(k, [tx[k] EXCEPT !.cells = cells,
               !.room[r] = [room[r] EXCEPT !.ooo = @ \cup {<<from, to>>}]])

\* releaseServiceBlock: the room returns to service.
Return(k) ==
  /\ tx[k].pc = "read" /\ tx[k].kind = "return"
  /\ LET r == tx[k].ref.room
     IN \E p \in room[r].ooo :
          Prepare(k, [tx[k] EXCEPT
            !.cells = Demand(tx[k].ref.type, IF p[1] > today THEN p[1] ELSE today, p[2]),
            !.room[r] = [room[r] EXCEPT !.ooo = @ \ {p}]])

\* The cells reconcileInventoryInTx finds: those whose rows are committed.
CountedCells == {c \in Cells : cell[c] # None /\ c[2] >= today}

\* createRooms: a room is added and the inventory recounted.
AddRoom(k) ==
  /\ Start(k)
  /\ \E r \in Rooms, y \in Types :
       /\ room[r].type = None
       /\ Prepare(k, [Idle EXCEPT !.kind = "addRoom", !.cells = CountedCells,
            !.room[r] = [NoRoom EXCEPT !.type = y, !.active = TRUE]])

\* updateRoom: a room is retired, reactivated or given another type.  That it has
\* no guest and is assigned to no reservation is not modelled here.
EditRoom(k) ==
  /\ Start(k)
  /\ \E r \in Rooms, y \in Types, active \in BOOLEAN :
       LET row == [room[r] EXCEPT !.type = y, !.active = active]
       IN /\ room[r].type # None /\ row # room[r]
          /\ y # room[r].type => "retype" \in Edits
          /\ room[r].active /\ ~active => "retire" \in Edits
          /\ ~room[r].active /\ active => "reactivate" \in Edits
          /\ Prepare(k, [Idle EXCEPT !.kind = "editRoom", !.cells = CountedCells,
                                     !.room[r] = row])

\* Transaction t does not stop the night audit's commit.  Every command but room setup
\* holds the business date; setup may hold cells, and rooms whose periods end.
LetsRoll(t) ==
  \/ t.pc = "idle"
  \/ /\ t.kind \in {"addRoom", "editRoom"}
     /\ t.cells \cap CountedCells = {}
     /\ \A r \in Written(t.room) : \A p \in room[r].ooo : p[2] > today + 1

\* The night audit's commit: out-of-order periods that end are over, the cells are
\* recounted and the date rolls.  Its checks want every guest who is due out gone or
\* extended.  Its no-shows and cutoffs are Release and ReleaseBlock.
Roll ==
  /\ today <= LastNight
  /\ \A k \in Clients : LetsRoll(tx[k])
  /\ \A i \in Ids : res[i].status = "IN_HOUSE" => res[i].dep > today
  /\ today' = today + 1
  /\ room' = [r \in Rooms |-> [room[r] EXCEPT !.ooo = {p \in @ : p[2] > today + 1}]]
  /\ cell' = [c \in Cells |-> IF c \in CountedCells
                              THEN Recount([World EXCEPT !.room = room'], c) ELSE cell[c]]
  /\ UNCHANGED <<res, blk, group, tx>>

----------------------------------------------------------------------------
Init ==
  /\ today = 1
  /\ room \in [Rooms -> {NoRoom} \cup [type : Types, active : BOOLEAN, ooo : {{}}]]
  /\ res = [i \in Ids |-> NoBooking]
  /\ blk = [b \in Blocks |-> NoBlock]
  /\ group = "ACTIVE"
  /\ cell = [c \in Cells |-> None]
  /\ tx = [k \in Clients |-> Idle]

Step(k) ==
  \/ Book(k) \/ Modify(k) \/ Confirm(k) \/ Release(k) \/ Reinstate(k)
  \/ ReinstateNoShow(k) \/ CheckIn(k) \/ ReverseCheckIn(k) \/ CheckOut(k) \/ Extend(k)
  \/ CreateBlock(k) \/ SetAllocation(k) \/ ChangeBlockStatus(k) \/ ReleaseBlock(k)
  \/ Pickup(k) \/ CloseGroup(k) \/ BeginCancelGroup(k) \/ CancelGroup(k)
  \/ ReadRoom(k) \/ Place(k) \/ Return(k) \/ AddRoom(k) \/ EditRoom(k)
  \/ Commit(k) \/ Abort(k)

Next == Roll \/ \E k \in Clients : Step(k)

Spec == Init /\ [][Next]_vars

----------------------------------------------------------------------------
(* Properties.                                                              *)

Transaction ==
  [pc : {"idle", "read", "ready"}, kind : Commands \cup {"none"}, override : BOOLEAN,
   cells : SUBSET Cells, share : SUBSET Blocks, group : GroupStatus \cup {None},
   res : [Ids -> Booking \cup {None}], blk : [Blocks -> Block \cup {None}],
   room : [Rooms -> Room \cup {None}], sync : [Cells -> Counters \cup {None}],
   fresh : SUBSET Blocks, ref : [room : Rooms, type : Types] \cup {None}]

TypeOK ==
  /\ today \in Dates
  /\ room \in [Rooms -> Room \cup {NoRoom}]
  /\ res \in [Ids -> Booking \cup {NoBooking}]
  /\ blk \in [Blocks -> Block \cup {NoBlock}]
  /\ group \in GroupStatus
  /\ cell \in [Cells -> Counters \cup {None}]
  /\ tx \in [Clients -> Transaction]

Ready == {k \in Clients : tx[k].pc = "ready"}

Ahead == {c \in Cells : c[2] >= today}    \* tonight and later

\* Two people booking the last room cannot both succeed, whichever way they take
\* it: a command that has its locks, and no override, never takes a cell's spare
\* rooms below zero, whatever the others have done since it counted.
SalesCovered ==
  \A k \in Ready : ~tx[k].override =>
    \A c \in Ahead : LET left == Spare(After(tx[k]), c)
                     IN left < Spare(World, c) => left >= 0

\* Without overrides no cell is ever oversold, over whole lives of reservations,
\* blocks and out-of-order periods: the cancelled and reinstated, the extended and
\* the early departed, pickups of blocks released, cancelled or made smaller.
NoOversale == \A c \in Ahead : Spare(World, c) >= 0

\* ARCHITECTURE D12, `counts can never drift from the reservations': the counters
\* of a cell nobody holds are those of its rooms, nights and blocks.
CountersAgree ==
  \A c \in Ahead : cell[c] # None /\ (\A k \in Clients : c \notin tx[k].cells) =>
                   cell[c] = Recount(World, c)

\* A pickup within a block that is not elastic moves rooms from blocked to sold: the
\* house sells as many rooms as before, whatever else happens to the block.
PickupNeutral ==
  \A k \in Ready, b \in Blocks :
    b \in tx[k].share /\ ~tx[k].override /\ ~blk[b].elastic =>
      \A c \in Ahead : Spare(After(tx[k]), c) = Spare(World, c)

\* A pickup that is reserved or in house has a definite block: no change of the
\* block's status overtakes a pickup or a reinstatement of one.
PickupsInDefiniteBlocks ==
  \A i \in Ids, b \in Blocks : i \in ActivePickup(b) => blk[b].status = "DEDUCT"

\* groups.service.ts, on changeGroupStatus: `its blocks move to the property's CANCEL
\* status, which returns what they held to house inventory'.
CancelledGroupHoldsNothing == group = "CANCELLED" => LiveBlocks = {}
=============================================================================
