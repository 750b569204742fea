----------------------------- MODULE FrontDesk ------------------------------
(***************************************************************************)
(* The front desk of one property: reservation rooms, the stays made of      *)
(* them, room assignments, the statuses of the rooms, their service blocks   *)
(* and the departure clean of the day.  All rooms are of one type; the       *)
(* inventory of the type is in module Inventory.                             *)
(*                                                                          *)
(* A command is a transaction that holds the business date FOR SHARE.  Most  *)
(* are one step, taken when the rows they lock are free.  Check-in and move  *)
(* are two: their SELECT ... FOR UPDATE of the rooms reads the service       *)
(* blocks before it waits for the lock, and what it read stays as it was.    *)
(* Check-out is two: it reads the cleaning task without a lock and writes it *)
(* under its version.                                                       *)
(***************************************************************************)
EXTENDS Integers

CONSTANTS Rooms, Stays, Clerks,
          LastDate,          \* the calendar is 0..LastDate
          Slots,             \* live service blocks of a room, in the order of their ids
          RequireInspected,  \* requireInspectedForCheckIn of the property
          Tended,            \* the rooms housekeeping works on
          Blockable,         \* the rooms that get service blocks
          Kinds,             \* and the kinds of these blocks
          None

ASSUME CalendarAssumption == LastDate \in Nat /\ Slots \in Nat
ASSUME RequireAssumption == RequireInspected \in BOOLEAN
ASSUME RoomsAssumption == Tended \subseteq Rooms /\ Blockable \subseteq Rooms
ASSUME KindsAssumption == Kinds \subseteq {"OUT_OF_ORDER", "OUT_OF_SERVICE"}
ASSUME NoneAssumption == None \notin Rooms \cup Stays

VARIABLES
  date,   \* the business date, open
  res,    \* res[i]: the row of reservation_rooms
  stay,   \* stay[i]: its row of stays
  asg,    \* the ACTIVE rows of room_assignments
  room,   \* room[r]: the statuses of the row of rooms
  block,  \* block[r][n]: the n-th live row of room_service_blocks of the room
  task,   \* task[r]: today's live departure clean of the room
  tx      \* tx[k]: the two-step command of clerk k

vars == <<date, res, stay, asg, room, block, task, tx>>

Dates == 0..LastDate
Ids == 1..Slots

Reservation == [status : {"ABSENT", "RESERVED", "IN_HOUSE", "CHECKED_OUT", "CANCELLED",
                          "NO_SHOW"},
                arr : Dates, dep : Dates, room : Rooms \cup {None}]
Stay == [status : {"NONE", "IN_HOUSE", "CHECKED_OUT"}, room : Rooms \cup {None}, since : Dates]
Assignment == [stay : Stays, room : Rooms, from : Dates, to : Dates]
RoomRow == [fo : {"VACANT", "OCCUPIED"}, hk : {"CLEAN", "DIRTY", "PICKUP", "INSPECTED"},
            service : {"IN_SERVICE", "OUT_OF_ORDER", "OUT_OF_SERVICE"}]
BlockRow == [status : {"NONE", "SCHEDULED", "ACTIVE"}, kind : {"OUT_OF_ORDER", "OUT_OF_SERVICE"},
             from : Dates, to : Dates]
OpenTasks == {"PENDING", "IN_PROGRESS", "PAUSED", "FAILED_INSPECTION"}
TaskStatus == OpenTasks \cup {"NONE", "COMPLETED", "INSPECTED", "SKIPPED"}

NoStay == [status |-> "NONE", room |-> None, since |-> 0]
NoBlock == [status |-> "NONE", kind |-> "OUT_OF_ORDER", from |-> 0, to |-> 0]
Clear == [ooo |-> FALSE, oos |-> FALSE]
Idle == [op |-> "idle", stay |-> None, room |-> None, seen |-> Clear, accept |-> FALSE,
         task |-> "NONE", fresh |-> TRUE]

InHouse(i) == stay[i].status = "IN_HOUSE"

----------------------------------------------------------------------------
(* Locks.  A two-step command holds its reservation; a check-out also holds  *)
(* the room.                                                                *)

MutStayFree(i) == TRUE    \* the reservation is not locked

StayFree(i) == \A k \in Clerks : tx[k].stay # i
RoomFree(r) == \A k \in Clerks : ~(tx[k].op = "check_out" /\ tx[k].room = r)
Quiet == \A k \in Clerks : tx[k] = Idle

----------------------------------------------------------------------------
(* Rooms: blocks, readiness, assignments.                                   *)

Overlaps(b, from, to) == b.status # "NONE" /\ b.from < to /\ from < b.to
Covers(b, d) == b.status # "NONE" /\ b.from <= d /\ d < b.to
Blocked(r, kind) == \E n \in Ids : Covers(block[r][n], date) /\ block[r][n].kind = kind

\* What the SELECT of lockRooms reads of the blocks.
Flags(r) == [ooo |-> Blocked(r, "OUT_OF_ORDER"), oos |-> Blocked(r, "OUT_OF_SERVICE")]

Readiness(r, seen) ==
  IF seen.ooo THEN "OUT_OF_ORDER"
  ELSE IF room[r].fo = "OCCUPIED" THEN "OCCUPIED"
  ELSE IF seen.oos THEN "OUT_OF_SERVICE"
  ELSE IF room[r].hk = "INSPECTED" THEN "READY"
  ELSE IF room[r].hk = "CLEAN" THEN IF RequireInspected THEN "NOT_INSPECTED" ELSE "READY"
  ELSE "DIRTY"

Usable(r, seen, accept) ==
  \/ Readiness(r, seen) = "READY"
  \/ accept /\ Readiness(r, seen) \in {"DIRTY", "NOT_INSPECTED", "OUT_OF_SERVICE"}

\* Only the blocks lockRooms read are looked at.
MutAssignable(r, from, to) == TRUE

\* requireAssignableRoom: read after the room is locked.
Assignable(r, from, to) ==
  \A n \in Ids : block[r][n].kind = "OUT_OF_ORDER" => ~Overlaps(block[r][n], from, to)

\* The exclusion constraint: an assignment holds its first night at least.
LastNight(from, to) == IF to > from THEN to - 1 ELSE from
Exclusive(i, r, from, to) ==
  \A a \in asg :
    a.room = r /\ a.stay # i =>
      LastNight(a.from, a.to) < from \/ LastNight(from, to) < a.from

Row(i, r, from, to) == [stay |-> i, room |-> r, from |-> from, to |-> to]
WithoutRows(i) == {a \in asg : a.stay # i}
HoldsRow(i, r) == \E a \in asg : a.stay = i /\ a.room = r

\* The unique index stays_one_in_house_per_room.
Unoccupied(r) == \A i \in Stays : ~(InHouse(i) /\ stay[i].room = r)

MutQueued(status) == status    \* a task that is done stays done

\* queueCleaning: a live task that is open is kept, a finished one reopened.
Queued(status) == IF status \in OpenTasks THEN status ELSE "PENDING"

----------------------------------------------------------------------------
(* Reservations.                                                            *)

AssignRoom(i, r) ==
  /\ StayFree(i)
  /\ res[i].status = "RESERVED"
  /\ r # None =>
       /\ RoomFree(r)
       /\ Assignable(r, res[i].arr, res[i].dep)
       /\ Exclusive(i, r, res[i].arr, res[i].dep)
  /\ asg' = WithoutRows(i) \cup IF r = None THEN {} ELSE {Row(i, r, res[i].arr, res[i].dep)}
  /\ res' = [res EXCEPT ![i].room = r]
  /\ UNCHANGED <<date, stay, room, block, task, tx>>

ChangeDates(i, arr, dep) ==
  /\ StayFree(i)
  /\ res[i].status = "RESERVED"
  /\ date <= arr /\ arr < dep
  /\ <<arr, dep>> # <<res[i].arr, res[i].dep>>
  /\ res[i].room # None =>
       /\ RoomFree(res[i].room)
       /\ Assignable(res[i].room, arr, dep)
       /\ Exclusive(i, res[i].room, arr, dep)
  /\ asg' = WithoutRows(i) \cup
            IF res[i].room = None THEN {} ELSE {Row(i, res[i].room, arr, dep)}
  /\ res' = [res EXCEPT ![i].arr = arr, ![i].dep = dep]
  /\ UNCHANGED <<date, stay, room, block, task, tx>>

ReleaseReservation(i, status) ==
  /\ StayFree(i)
  /\ res[i].status = "RESERVED"
  /\ status = "NO_SHOW" => res[i].arr <= date
  /\ asg' = WithoutRows(i)
  /\ res' = [res EXCEPT ![i].status = status, ![i].room = None]
  /\ UNCHANGED <<date, stay, room, block, task, tx>>

----------------------------------------------------------------------------
(* Check-in.                                                                *)

MayCheckIn(i) == res[i].arr = date /\ date < res[i].dep

\* checkIn and walkIn up to the statement that locks the room.
AskCheckIn(k, i, r, accept) ==
  /\ tx[k] = Idle
  /\ StayFree(i)
  /\ res[i].status \in {"RESERVED", "ABSENT"}
  /\ res[i].status = "ABSENT" => ~accept
  /\ MayCheckIn(i)
  /\ tx' = [tx EXCEPT ![k] = [Idle EXCEPT !.op = "check_in", !.stay = i, !.room = r,
                                          !.seen = Flags(r), !.accept = accept]]
  /\ UNCHANGED <<date, res, stay, asg, room, block, task>>

CheckIn(k) ==
  LET i == tx[k].stay
      r == tx[k].room
  IN /\ tx[k].op = "check_in"
     /\ RoomFree(r)
     /\ Usable(r, tx[k].seen, tx[k].accept)
     /\ Assignable(r, res[i].arr, res[i].dep)
     /\ Unoccupied(r)
     /\ \/ /\ res[i].room = r /\ HoldsRow(i, r)
           /\ asg' = asg
        \/ /\ ~(res[i].room = r /\ HoldsRow(i, r))
           /\ Exclusive(i, r, res[i].arr, res[i].dep)
           /\ asg' = WithoutRows(i) \cup {Row(i, r, res[i].arr, res[i].dep)}
     /\ res' = [res EXCEPT ![i].status = "IN_HOUSE", ![i].room = r]
     /\ stay' = [stay EXCEPT ![i] = [status |-> "IN_HOUSE", room |-> r, since |-> date]]
     /\ room' = [room EXCEPT ![r].fo = "OCCUPIED"]
     /\ tx' = [tx EXCEPT ![k] = Idle]
     /\ UNCHANGED <<date, block, task>>

\* The room is released and its assignment left behind.
MutReversedRows(i, release) == asg

ReversedRows(i, release) == IF release THEN WithoutRows(i) ELSE asg

\* Whether lines are posted to the folio, which refuses it, is left open.
ReverseCheckIn(i, release) ==
  LET r == stay[i].room
  IN /\ StayFree(i)
     /\ InHouse(i)
     /\ stay[i].since = date
     /\ RoomFree(r)
     /\ asg' = ReversedRows(i, release)
     /\ res' = [res EXCEPT ![i].status = "RESERVED", ![i].room = IF release THEN None ELSE r]
     /\ stay' = [stay EXCEPT ![i] = NoStay]
     /\ room' = [room EXCEPT ![r].fo = "VACANT"]
     /\ UNCHANGED <<date, block, task, tx>>

----------------------------------------------------------------------------
(* In house.                                                                *)

AskMove(k, i, r, accept) ==
  /\ tx[k] = Idle
  /\ StayFree(i)
  /\ InHouse(i)
  /\ r # stay[i].room
  /\ tx' = [tx EXCEPT ![k] = [Idle EXCEPT !.op = "move", !.stay = i, !.room = r,
                                          !.seen = Flags(r), !.accept = accept]]
  /\ UNCHANGED <<date, res, stay, asg, room, block, task>>

MoveRoom(k) ==
  LET i == tx[k].stay
      from == stay[i].room
      to == tx[k].room
  IN /\ tx[k].op = "move"
     /\ RoomFree(from) /\ RoomFree(to)
     /\ Usable(to, tx[k].seen, tx[k].accept)
     /\ date < res[i].dep
     /\ Assignable(to, date, res[i].dep)
     /\ Exclusive(i, to, date, res[i].dep)
     /\ Unoccupied(to)
     /\ asg' = WithoutRows(i) \cup {Row(i, to, date, res[i].dep)}
     /\ res' = [res EXCEPT ![i].room = to]
     /\ stay' = [stay EXCEPT ![i].room = to]
     /\ room' = [room EXCEPT ![from].fo = "VACANT", ![from].hk = "DIRTY",
                             ![to].fo = "OCCUPIED"]
     /\ task' = [task EXCEPT ![from] = Queued(task[from])]
     /\ tx' = [tx EXCEPT ![k] = Idle]
     /\ UNCHANGED <<date, block>>

ExtendStay(i, dep) ==
  LET r == res[i].room
  IN /\ StayFree(i)
     /\ InHouse(i)
     /\ date < dep /\ res[i].dep < dep
     /\ RoomFree(r)
     /\ Assignable(r, res[i].dep, dep)
     /\ \A a \in asg : a.stay = i => Exclusive(i, a.room, a.from, dep)
     /\ asg' = WithoutRows(i) \cup {[a EXCEPT !.to = dep] : a \in asg \ WithoutRows(i)}
     /\ res' = [res EXCEPT ![i].dep = dep]
     /\ UNCHANGED <<date, stay, room, block, task, tx>>

Early(i) == date < res[i].dep

\* checkOut up to the read of the task: the reservation, the stay and the room are locked.
BeginCheckOut(k, i) ==
  LET r == stay[i].room
  IN /\ tx[k] = Idle
     /\ StayFree(i)
     /\ InHouse(i)
     /\ Early(i) => res[i].arr < date
     /\ RoomFree(r)
     /\ tx' = [tx EXCEPT ![k] = [Idle EXCEPT !.op = "check_out", !.stay = i, !.room = r,
                                             !.task = task[r]]]
     /\ UNCHANGED <<date, res, stay, asg, room, block, task>>

MutSaved(t) == TRUE    \* the task is written without its version

\* The versioned update of the task the transaction read.
Saved(t) == t.fresh

CheckOut(k) ==
  LET i == tx[k].stay
      r == tx[k].room
  IN /\ tx[k].op = "check_out"
     /\ Saved(tx[k])
     /\ asg' = WithoutRows(i)
     /\ res' = [res EXCEPT ![i].status = "CHECKED_OUT",
                           ![i].dep = IF Early(i) THEN date ELSE @]
     /\ stay' = [stay EXCEPT ![i].status = "CHECKED_OUT"]
     /\ room' = [room EXCEPT ![r].fo = "VACANT", ![r].hk = "DIRTY"]
     /\ task' = [task EXCEPT ![r] = IF tx[k].task \in OpenTasks THEN @ ELSE Queued(@)]
     /\ tx' = [tx EXCEPT ![k] = Idle]
     /\ UNCHANGED <<date, block>>

Rollback(k) ==
  /\ tx[k] # Idle
  /\ tx' = [tx EXCEPT ![k] = Idle]
  /\ UNCHANGED <<date, res, stay, asg, room, block, task>>

----------------------------------------------------------------------------
(* Service blocks.                                                          *)

NextId(r, n) == \A m \in Ids : m >= n => block[r][m].status = "NONE"

\* Assignments are not looked at.
MutUnassigned(r, from, to) == TRUE

Unassigned(r, from, to) == \A a \in asg : a.room = r => ~(a.from < to /\ from < a.to)

PlaceBlock(r, n, kind, from, to) ==
  /\ date <= from /\ from < to
  /\ RoomFree(r)
  /\ NextId(r, n)
  /\ \A m \in Ids : ~Overlaps(block[r][m], from, to)
  /\ kind = "OUT_OF_ORDER" =>
       /\ from = date => Unoccupied(r)
       /\ Unassigned(r, from, to)
  /\ block' = [block EXCEPT ![r][n] = [status |-> IF from = date THEN "ACTIVE" ELSE "SCHEDULED",
                                       kind |-> kind, from |-> from, to |-> to]]
  /\ room' = [room EXCEPT ![r].service = IF from = date THEN kind ELSE @]
  /\ UNCHANGED <<date, res, stay, asg, task, tx>>

ReturnToService(r, n) ==
  LET started == block[r][n].from <= date
  IN /\ block[r][n].status # "NONE"
     /\ RoomFree(r)
     /\ block' = [block EXCEPT ![r][n] = NoBlock]
     /\ room' = [room EXCEPT ![r].service = IF started THEN "IN_SERVICE" ELSE @,
                             ![r].hk = IF started THEN "DIRTY" ELSE @]
     /\ task' = [task EXCEPT ![r] = IF started THEN Queued(@) ELSE @]
     /\ UNCHANGED <<date, res, stay, asg, tx>>

----------------------------------------------------------------------------
(* Housekeeping.  Closing or assigning a task locks the task only: a         *)
(* check-out that has read it finds another version.                         *)

Touch(r) == [k \in Clerks |-> IF tx[k].op = "check_out" /\ tx[k].room = r
                              THEN [tx[k] EXCEPT !.fresh = FALSE] ELSE tx[k]]

CreateTask(r) ==
  /\ RoomFree(r)
  /\ task[r] = "NONE"
  /\ task' = [task EXCEPT ![r] = "PENDING"]
  /\ UNCHANGED <<date, res, stay, asg, room, block, tx>>

AssignTask(r) ==
  /\ task[r] \in OpenTasks
  /\ tx' = Touch(r)
  /\ UNCHANGED <<date, res, stay, asg, room, block, task>>

\* taskTransition: from which statuses an action starts, and to which it leads.
TaskSteps ==
  [start |-> [from |-> {"PENDING", "PAUSED", "FAILED_INSPECTION"}, to |-> "IN_PROGRESS"],
   pause |-> [from |-> {"IN_PROGRESS"}, to |-> "PAUSED"],
   complete |-> [from |-> {"IN_PROGRESS"}, to |-> "COMPLETED"],
   skip |-> [from |-> {"PENDING", "PAUSED"}, to |-> "SKIPPED"],
   cancel |-> [from |-> {"PENDING", "PAUSED", "FAILED_INSPECTION"}, to |-> "NONE"]]

WorkTask(r, action) ==
  /\ RoomFree(r)
  /\ task[r] \in TaskSteps[action].from
  /\ task' = [task EXCEPT ![r] = TaskSteps[action].to]
  /\ room' = [room EXCEPT ![r].hk =
                IF action = "complete" /\ @ \in {"DIRTY", "PICKUP"} THEN "CLEAN" ELSE @]
  /\ UNCHANGED <<date, res, stay, asg, block, tx>>

CloseTask(r, action) ==
  /\ task[r] \in TaskSteps[action].from
  /\ task' = [task EXCEPT ![r] = TaskSteps[action].to]
  /\ tx' = Touch(r)
  /\ UNCHANGED <<date, res, stay, asg, room, block>>

InspectRoom(r, pass) ==
  /\ RoomFree(r)
  /\ room[r].hk \in IF pass THEN {"CLEAN"} ELSE {"CLEAN", "INSPECTED"}
  /\ room' = [room EXCEPT ![r].hk = IF pass THEN "INSPECTED" ELSE "DIRTY"]
  /\ task' = [task EXCEPT ![r] = IF @ # "COMPLETED" THEN @
                                 ELSE IF pass THEN "INSPECTED" ELSE "FAILED_INSPECTION"]
  /\ UNCHANGED <<date, res, stay, asg, block, tx>>

SetHousekeeping(r, hk) ==
  /\ RoomFree(r)
  /\ \/ hk = "DIRTY" /\ room[r].hk # "DIRTY"
     \/ hk = "CLEAN" /\ room[r].hk \in {"DIRTY", "PICKUP"}
  /\ room' = [room EXCEPT ![r].hk = hk]
  /\ UNCHANGED <<date, res, stay, asg, block, task, tx>>

----------------------------------------------------------------------------
(* The night audit: due-outs must have left; no-shows, blocks, rooms, tasks. *)

DueOut(i) == InHouse(i) /\ res[i].dep <= date

Ends(b) == b.status # "NONE" /\ b.to <= date + 1
Starts(b) == b.status = "SCHEDULED" /\ b.from <= date + 1 /\ ~Ends(b)

\* The blocks of the room that change its service status, written in the order of their
\* ids: the last one stays.
Changing(r) == {n \in Ids : Starts(block[r][n]) \/ (Ends(block[r][n]) /\ block[r][n].status = "ACTIVE")}
Ended(r) == \E n \in Changing(r) : Ends(block[r][n])

RolledService(r) ==
  IF Changing(r) = {} THEN room[r].service
  ELSE LET n == CHOOSE n \in Changing(r) : \A m \in Changing(r) : m <= n
       IN IF Ends(block[r][n]) THEN "IN_SERVICE" ELSE block[r][n].kind

\* The row keeps its place among the live ones.
RolledBlock(b) == IF Ends(b) THEN NoBlock ELSE IF Starts(b) THEN [b EXCEPT !.status = "ACTIVE"] ELSE b

RolledRoom(r) ==
  [fo |-> room[r].fo,
   hk |-> IF Ended(r) \/ room[r].fo = "OCCUPIED" THEN "DIRTY" ELSE room[r].hk,
   service |-> RolledService(r)]

\* Open tasks are cancelled, those of vacant dirty rooms in service queued for the new date.
RolledTask(row) ==
  IF row.fo = "VACANT" /\ row.hk = "DIRTY" /\ row.service = "IN_SERVICE" THEN "PENDING" ELSE "NONE"

NoShows(auto) == {i \in Stays : auto /\ res[i].status = "RESERVED" /\ res[i].arr <= date}

Roll(auto) ==
  /\ Quiet
  /\ date < LastDate
  /\ \A i \in Stays : ~DueOut(i)
  /\ res' = [i \in Stays |-> IF i \in NoShows(auto)
                             THEN [res[i] EXCEPT !.status = "NO_SHOW", !.room = None] ELSE res[i]]
  /\ asg' = {a \in asg : a.stay \notin NoShows(auto)}
  /\ block' = [r \in Rooms |-> [n \in Ids |-> RolledBlock(block[r][n])]]
  /\ room' = [r \in Rooms |-> RolledRoom(r)]
  /\ task' = [r \in Rooms |-> RolledTask(RolledRoom(r))]
  /\ date' = date + 1
  /\ UNCHANGED <<stay, tx>>

----------------------------------------------------------------------------
(* Specification.                                                           *)

\* Any bookings, no room assigned; rooms vacant, clean and in service.
Init ==
  /\ date = 0
  /\ res \in [Stays -> {b \in [status : {"ABSENT", "RESERVED"}, arr : Dates, dep : Dates,
                               room : {None}] : b.arr < b.dep}]
  /\ stay = [i \in Stays |-> NoStay]
  /\ asg = {}
  /\ room = [r \in Rooms |-> [fo |-> "VACANT", hk |-> "CLEAN", service |-> "IN_SERVICE"]]
  /\ block = [r \in Rooms |-> [n \in Ids |-> NoBlock]]
  /\ task = [r \in Rooms |-> "NONE"]
  /\ tx = [k \in Clerks |-> Idle]

Reservations ==
  \E i \in Stays :
    \/ \E r \in Rooms \cup {None} : AssignRoom(i, r)
    \/ \E arr, dep \in Dates : ChangeDates(i, arr, dep)
    \/ \E status \in {"CANCELLED", "NO_SHOW"} : ReleaseReservation(i, status)

FrontOffice ==
  \E i \in Stays :
    \/ \E release \in BOOLEAN : ReverseCheckIn(i, release)
    \/ \E dep \in Dates : ExtendStay(i, dep)
    \/ \E k \in Clerks :
         \/ BeginCheckOut(k, i)
         \/ \E r \in Rooms, accept \in BOOLEAN :
              AskCheckIn(k, i, r, accept) \/ AskMove(k, i, r, accept)

Finishes == \E k \in Clerks : CheckIn(k) \/ MoveRoom(k) \/ CheckOut(k) \/ Rollback(k)

Service ==
  \E r \in Blockable, n \in Ids :
    \/ ReturnToService(r, n)
    \/ \E kind \in Kinds, from, to \in Dates :
         PlaceBlock(r, n, kind, from, to)

Housekeeping ==
  \E r \in Tended :
    \/ CreateTask(r) \/ AssignTask(r)
    \/ \E action \in {"start", "pause", "complete"} : WorkTask(r, action)
    \/ \E action \in {"skip", "cancel"} : CloseTask(r, action)
    \/ \E pass \in BOOLEAN : InspectRoom(r, pass)
    \/ \E hk \in {"DIRTY", "CLEAN"} : SetHousekeeping(r, hk)

Next ==
  Reservations \/ FrontOffice \/ Finishes \/ Service \/ Housekeeping
    \/ \E auto \in BOOLEAN : Roll(auto)

Spec == Init /\ [][Next]_vars

----------------------------------------------------------------------------
(* Properties.                                                              *)

Command == [op : {"idle", "check_in", "move", "check_out"}, stay : Stays \cup {None},
            room : Rooms \cup {None}, seen : [ooo : BOOLEAN, oos : BOOLEAN],
            accept : BOOLEAN, task : TaskStatus, fresh : BOOLEAN]

\* The rows have the values their columns allow.
TypeOK ==
  /\ date \in Dates
  /\ res \in [Stays -> Reservation]
  /\ stay \in [Stays -> Stay]
  /\ asg \subseteq Assignment
  /\ room \in [Rooms -> RoomRow]
  /\ block \in [Rooms -> [Ids -> BlockRow]]
  /\ task \in [Rooms -> TaskStatus]
  /\ tx \in [Clerks -> Command]

\* Reservation, stay, assignment and room agree after any sequence of check-ins, reversals,
\* moves and check-outs: a room is occupied exactly when one guest is in house in it, and a
\* guest, or a reservation with a room, has one active assignment, of that room and for the
\* nights left of it (front-desk.service.ts, the hooks of reservations.service.ts).
OccupancyAgrees ==
  /\ \A r \in Rooms : room[r].fo = "OCCUPIED" <=> \E i \in Stays : InHouse(i) /\ stay[i].room = r
  /\ \A i, j \in Stays : InHouse(i) /\ InHouse(j) /\ stay[i].room = stay[j].room => i = j
  /\ \A i \in Stays :
       /\ InHouse(i) <=> res[i].status = "IN_HOUSE"
       /\ InHouse(i) =>
            /\ res[i].room = stay[i].room
            /\ \E from \in res[i].arr..date : asg \ WithoutRows(i) = {Row(i, res[i].room, from, res[i].dep)}
       /\ ~InHouse(i) =>
            asg \ WithoutRows(i) = IF res[i].status # "RESERVED" \/ res[i].room = None THEN {}
                                   ELSE {Row(i, res[i].room, res[i].arr, res[i].dep)}

\* No guest or reservation is kept in a room for a night it is out of order, although
\* assignments and blocks are placed by different commands: whoever of the two comes second
\* sees the other under the room's lock (requireAssignableRoom, placeServiceBlock).
OutOfOrderKept ==
  \A a \in asg : \A n \in Ids :
    block[a.room][n].kind = "OUT_OF_ORDER" => ~Overlaps(block[a.room][n], a.from, a.to)

\* A guest goes from a room by check-out or by a move.
Leaves(i) ==
  InHouse(i) /\ \/ stay'[i].status = "CHECKED_OUT"
                \/ stay'[i].status = "IN_HOUSE" /\ stay'[i].room # stay[i].room

\* A room a guest has left is vacant and dirty, and today's cleaning of it is open, also
\* when its task was finished before or is closed while the guest checks out (checkOut,
\* moveRoom, queueCleaningInTx).
LeftRoomQueued ==
  [][\A i \in Stays : Leaves(i) =>
       LET r == stay[i].room
       IN room'[r].fo = "VACANT" /\ room'[r].hk = "DIRTY" /\ task'[r] \in OpenTasks]_vars

\* The service status of a room is that of the block that covers the business date
\* (rooms.service.ts:213, "A block covering the business date updates the room's service
\* status").
ServiceAgrees ==
  \A r \in Rooms :
    /\ Blocked(r, "OUT_OF_ORDER") => room[r].service = "OUT_OF_ORDER"
    /\ Blocked(r, "OUT_OF_SERVICE") => room[r].service = "OUT_OF_SERVICE"

Lodgings == INSTANCE Lodging
  WITH Guests <- Stays, Nowhere <- None,
       in <- [i \in Stays |-> IF InHouse(i) THEN stay[i].room ELSE None],
       occupied <- {r \in Rooms : room[r].fo = "OCCUPIED"},
       gone <- {i \in Stays : stay[i].status = "CHECKED_OUT"}

\* The front desk keeps what Lodging promises: one guest to a room, whole moves, no way
\* back, with the stays and the statuses of the rooms changing together.
ImplementsLodging == Lodgings!Spec
=============================================================================
