-------------------------- MODULE FrontDeskProofs ---------------------------
(***************************************************************************)
(* The records of the front desk agree, and it implements Lodging, for any   *)
(* number of rooms, stays, clerks, dates and service blocks.                 *)
(***************************************************************************)
EXTENDS FrontDesk, TLAPS, WellFoundedInduction

Rows(i) == asg \ WithoutRows(i)

\* The records of one stay agree.
Agree(i) ==
  /\ InHouse(i) <=> res[i].status = "IN_HOUSE"
  /\ InHouse(i) =>
       /\ res[i].room = stay[i].room /\ stay[i].room \in Rooms
       /\ stay[i].since = res[i].arr
       /\ \E from \in res[i].arr..date : Rows(i) = {Row(i, res[i].room, from, res[i].dep)}
  /\ ~InHouse(i) =>
       Rows(i) = IF res[i].status # "RESERVED" \/ res[i].room = None THEN {}
                 ELSE {Row(i, res[i].room, res[i].arr, res[i].dep)}
  /\ stay[i].status = "CHECKED_OUT" => res[i].status = "CHECKED_OUT"

\* The rooms and the stays in them agree.
Doors ==
  /\ \A r \in Rooms : room[r].fo = "OCCUPIED" <=> \E i \in Stays : InHouse(i) /\ stay[i].room = r
  /\ \A i, j \in Stays : InHouse(i) /\ InHouse(j) /\ stay[i].room = stay[j].room => i = j

\* What a two-step command has read under its locks is still so.
Pending(k) ==
  tx[k].op # "idle" =>
    /\ tx[k].stay \in Stays /\ tx[k].room \in Rooms
    /\ tx[k].op = "check_in" =>
         res[tx[k].stay].status \in {"RESERVED", "ABSENT"} /\ MayCheckIn(tx[k].stay)
    /\ tx[k].op \in {"move", "check_out"} => InHouse(tx[k].stay)
    /\ tx[k].op = "move" => tx[k].room # stay[tx[k].stay].room
    /\ tx[k].op = "check_out" =>
         /\ tx[k].room = stay[tx[k].stay].room
         /\ tx[k].fresh => task[tx[k].room] = tx[k].task

Locked ==
  /\ \A k \in Clerks : Pending(k)
  /\ \A k, l \in Clerks : k # l /\ tx[k].stay = tx[l].stay => tx[k].stay = None

BlocksOrdered ==
  \A r \in Rooms : \A n \in Ids : block[r][n].status # "NONE" => block[r][n].from < block[r][n].to

DeskInv == TypeOK /\ (\A i \in Stays : Agree(i)) /\ Doors /\ Locked /\ BlocksOrdered /\ OutOfOrderKept

----------------------------------------------------------------------------
(* Types                                                                    *)

LEMMA IdleType == Idle \in Command
<1>1. "idle" \in {"idle", "check_in", "move", "check_out"} /\ "NONE" \in TaskStatus
  BY DEF TaskStatus
<1>2. Clear \in [ooo : BOOLEAN, oos : BOOLEAN]
  BY DEF Clear
<1> QED
  BY <1>1, <1>2 DEF Idle, Command

LEMMA FlagsType == ASSUME NEW r PROVE Flags(r) \in [ooo : BOOLEAN, oos : BOOLEAN]
<1>1. Blocked(r, "OUT_OF_ORDER") \in BOOLEAN /\ Blocked(r, "OUT_OF_SERVICE") \in BOOLEAN
  BY Zenon DEF Blocked
<1> QED
  BY <1>1 DEF Flags

LEMMA QueuedType == ASSUME NEW s PROVE Queued(s) \in TaskStatus /\ Queued(s) \in OpenTasks
BY DEF Queued, TaskStatus, OpenTasks

LEMMA RowType ==
  ASSUME NEW i \in Stays, NEW r \in Rooms, NEW from \in Dates, NEW to \in Dates
  PROVE  Row(i, r, from, to) \in Assignment
BY DEF Row, Assignment

LEMMA InitType == Init => TypeOK
<1> SUFFICES ASSUME Init PROVE TypeOK
  OBVIOUS
<1>1. 0 \in Dates
  BY CalendarAssumption DEF Dates
<1>2. date \in Dates
  BY <1>1 DEF Init
<1>3. res \in [Stays -> Reservation]
  BY DEF Init, Reservation
<1>4. stay \in [Stays -> Stay]
  BY <1>1 DEF Init, Stay, NoStay
<1>5. asg \subseteq Assignment
  BY DEF Init
<1>6. room \in [Rooms -> RoomRow]
  BY DEF Init, RoomRow
<1>7. NoBlock \in BlockRow
  BY <1>1 DEF NoBlock, BlockRow
<1>8. block \in [Rooms -> [Ids -> BlockRow]]
  BY <1>7 DEF Init
<1>9. task \in [Rooms -> TaskStatus]
  BY DEF Init, TaskStatus
<1>10. tx \in [Clerks -> Command]
  BY IdleType DEF Init
<1> QED
  BY <1>2, <1>3, <1>4, <1>5, <1>6, <1>8, <1>9, <1>10 DEF TypeOK

LEMMA AskType ==
  ASSUME TypeOK, NEW k \in Clerks, NEW i \in Stays, NEW r \in Rooms, NEW accept \in BOOLEAN,
         AskCheckIn(k, i, r, accept) \/ AskMove(k, i, r, accept)
  PROVE  TypeOK'
<1>1. PICK op \in {"check_in", "move"} :
        tx' = [tx EXCEPT ![k] = [Idle EXCEPT !.op = op, !.stay = i, !.room = r,
                                             !.seen = Flags(r), !.accept = accept]]
  BY DEF AskCheckIn, AskMove
<1>2. [Idle EXCEPT !.op = op, !.stay = i, !.room = r, !.seen = Flags(r), !.accept = accept] \in Command
  BY IdleType, FlagsType DEF Command
<1> QED
  BY <1>1, <1>2 DEF TypeOK, AskCheckIn, AskMove

LEMMA BeginCheckOutType ==
  ASSUME TypeOK, \A j \in Stays : Agree(j), NEW k \in Clerks, NEW i \in Stays, BeginCheckOut(k, i)
  PROVE  TypeOK'
<1>1. stay[i].room \in Rooms /\ task[stay[i].room] \in TaskStatus
  BY DEF BeginCheckOut, Agree, TypeOK
<1>2. [Idle EXCEPT !.op = "check_out", !.stay = i, !.room = stay[i].room,
                   !.task = task[stay[i].room]] \in Command
  BY <1>1, IdleType DEF Command
<1> QED
  BY <1>2 DEF TypeOK, BeginCheckOut

LEMMA ReservationType ==
  ASSUME TypeOK, NEW i \in Stays,
         \/ \E r \in Rooms \cup {None} : AssignRoom(i, r)
         \/ \E arr, dep \in Dates : ChangeDates(i, arr, dep)
         \/ \E status \in {"CANCELLED", "NO_SHOW"} : ReleaseReservation(i, status)
  PROVE  TypeOK'
<1> USE DEF TypeOK
<1>1. res[i] \in Reservation
  OBVIOUS
<1>2. ASSUME NEW r \in Rooms \cup {None}, AssignRoom(i, r) PROVE TypeOK'
  <2>1. r # None => Row(i, r, res[i].arr, res[i].dep) \in Assignment
    BY <1>1, RowType DEF Reservation
  <2>2. asg' \subseteq Assignment
    BY <1>2, <2>1 DEF AssignRoom, WithoutRows
  <2>3. res' \in [Stays -> Reservation]
    BY <1>2, <1>1 DEF AssignRoom, Reservation
  <2> QED
    BY <1>2, <2>2, <2>3 DEF AssignRoom
<1>3. ASSUME NEW arr \in Dates, NEW dep \in Dates, ChangeDates(i, arr, dep) PROVE TypeOK'
  <2>1. res[i].room # None => Row(i, res[i].room, arr, dep) \in Assignment
    BY <1>1, RowType DEF Reservation
  <2>2. asg' \subseteq Assignment
    BY <1>3, <2>1 DEF ChangeDates, WithoutRows
  <2>3. res' \in [Stays -> Reservation]
    BY <1>3, <1>1 DEF ChangeDates, Reservation
  <2> QED
    BY <1>3, <2>2, <2>3 DEF ChangeDates
<1>4. ASSUME NEW status \in {"CANCELLED", "NO_SHOW"}, ReleaseReservation(i, status) PROVE TypeOK'
  <2>1. res' \in [Stays -> Reservation]
    BY <1>4, <1>1 DEF ReleaseReservation, Reservation
  <2> QED
    BY <1>4, <2>1 DEF ReleaseReservation, WithoutRows
<1> QED
  BY <1>2, <1>3, <1>4

LEMMA CheckInType ==
  ASSUME TypeOK, Locked, NEW k \in Clerks, CheckIn(k)
  PROVE  TypeOK'
<1> USE DEF TypeOK
<1>1. PICK i, r : i = tx[k].stay /\ r = tx[k].room
  OBVIOUS
<1>2. i \in Stays /\ r \in Rooms /\ res[i] \in Reservation /\ room[r] \in RoomRow
  BY <1>1 DEF CheckIn, Locked, Pending
<1>3. Row(i, r, res[i].arr, res[i].dep) \in Assignment
  BY <1>2, RowType DEF Reservation
<1>4. asg' \subseteq Assignment
  BY <1>1, <1>3 DEF CheckIn, WithoutRows
<1>5. res' \in [Stays -> Reservation]
  BY <1>1, <1>2 DEF CheckIn, Reservation
<1>6. stay' \in [Stays -> Stay]
  BY <1>1, <1>2 DEF CheckIn, Stay
<1>7. room' \in [Rooms -> RoomRow]
  BY <1>1, <1>2 DEF CheckIn, RoomRow
<1>8. tx' \in [Clerks -> Command]
  BY IdleType DEF CheckIn
<1> QED
  BY <1>4, <1>5, <1>6, <1>7, <1>8 DEF CheckIn

LEMMA ReverseType ==
  ASSUME TypeOK, \A j \in Stays : Agree(j), NEW i \in Stays, NEW release \in BOOLEAN,
         ReverseCheckIn(i, release)
  PROVE  TypeOK'
<1> USE DEF TypeOK
<1>1. PICK r : r = stay[i].room
  OBVIOUS
<1>2. r \in Rooms /\ res[i] \in Reservation /\ room[r] \in RoomRow
  BY <1>1 DEF ReverseCheckIn, Agree
<1>3. asg' \subseteq Assignment
  BY DEF ReverseCheckIn, ReversedRows, WithoutRows
<1>4. res' \in [Stays -> Reservation]
  BY <1>1, <1>2 DEF ReverseCheckIn, Reservation
<1>5. NoStay \in Stay
  BY CalendarAssumption DEF NoStay, Stay, Dates
<1>6. room' \in [Rooms -> RoomRow]
  BY <1>1, <1>2 DEF ReverseCheckIn, RoomRow
<1> QED
  BY <1>3, <1>4, <1>5, <1>6 DEF ReverseCheckIn

LEMMA MoveType ==
  ASSUME TypeOK, Locked, \A j \in Stays : Agree(j), NEW k \in Clerks, MoveRoom(k)
  PROVE  TypeOK'
<1> USE DEF TypeOK
<1>1. PICK i, from, to : i = tx[k].stay /\ from = stay[i].room /\ to = tx[k].room
  OBVIOUS
<1>2. i \in Stays /\ to \in Rooms /\ InHouse(i) /\ from # to
  BY <1>1 DEF MoveRoom, Locked, Pending
<1>3. from \in Rooms /\ res[i] \in Reservation /\ stay[i] \in Stay /\ room[from] \in RoomRow /\ room[to] \in RoomRow
  BY <1>1, <1>2 DEF Agree
<1>4. Row(i, to, date, res[i].dep) \in Assignment
  BY <1>2, <1>3, RowType DEF Reservation
<1>5. asg' \subseteq Assignment
  BY <1>1, <1>4 DEF MoveRoom, WithoutRows
<1>6. res' \in [Stays -> Reservation]
  BY <1>1, <1>2, <1>3 DEF MoveRoom, Reservation
<1>7. stay' \in [Stays -> Stay]
  BY <1>1, <1>2, <1>3 DEF MoveRoom, Stay
<1>8. room' \in [Rooms -> RoomRow]
  <2>1. room' = [room EXCEPT ![from].fo = "VACANT", ![from].hk = "DIRTY", ![to].fo = "OCCUPIED"]
    BY <1>1 DEF MoveRoom
  <2> QED
    BY <1>2, <1>3, <2>1 DEF RoomRow
<1>9. task' \in [Rooms -> TaskStatus]
  BY <1>1, QueuedType DEF MoveRoom
<1>10. tx' \in [Clerks -> Command]
  BY IdleType DEF MoveRoom
<1> QED
  BY <1>5, <1>6, <1>7, <1>8, <1>9, <1>10 DEF MoveRoom

LEMMA ExtendType ==
  ASSUME TypeOK, NEW i \in Stays, NEW dep \in Dates, ExtendStay(i, dep)
  PROVE  TypeOK'
<1> USE DEF TypeOK
<1>1. res[i] \in Reservation
  OBVIOUS
<1>2. res' \in [Stays -> Reservation]
  BY <1>1 DEF ExtendStay, Reservation
<1>3. asg' \subseteq Assignment
  BY DEF ExtendStay, WithoutRows, Assignment
<1> QED
  BY <1>2, <1>3 DEF ExtendStay

LEMMA CheckOutType ==
  ASSUME TypeOK, Locked, NEW k \in Clerks, CheckOut(k)
  PROVE  TypeOK'
<1> USE DEF TypeOK
<1>1. PICK i, r : i = tx[k].stay /\ r = tx[k].room
  OBVIOUS
<1>2. i \in Stays /\ r \in Rooms /\ res[i] \in Reservation /\ stay[i] \in Stay /\ room[r] \in RoomRow
  BY <1>1 DEF CheckOut, Locked, Pending
<1>3. res' \in [Stays -> Reservation]
  BY <1>1, <1>2 DEF CheckOut, Reservation
<1>4. stay' \in [Stays -> Stay]
  BY <1>1, <1>2 DEF CheckOut, Stay
<1>5. room' \in [Rooms -> RoomRow]
  BY <1>1, <1>2 DEF CheckOut, RoomRow
<1>6. task' \in [Rooms -> TaskStatus]
  BY <1>1, <1>2, QueuedType DEF CheckOut
<1>7. tx' \in [Clerks -> Command]
  BY IdleType DEF CheckOut
<1> QED
  BY <1>3, <1>4, <1>5, <1>6, <1>7 DEF CheckOut, WithoutRows

LEMMA ServiceType ==
  ASSUME TypeOK, NEW r \in Rooms, NEW n \in Ids,
         \/ ReturnToService(r, n)
         \/ \E kind \in Kinds, from, to \in Dates : PlaceBlock(r, n, kind, from, to)
  PROVE  TypeOK'
<1> USE DEF TypeOK
<1>1. room[r] \in RoomRow /\ block[r] \in [Ids -> BlockRow]
  OBVIOUS
<1>2. ASSUME ReturnToService(r, n) PROVE TypeOK'
  <2>1. NoBlock \in BlockRow
    BY CalendarAssumption DEF NoBlock, BlockRow, Dates
  <2>2. block' \in [Rooms -> [Ids -> BlockRow]]
    BY <1>2, <2>1 DEF ReturnToService
  <2>3. room' \in [Rooms -> RoomRow]
    BY <1>1, <1>2 DEF ReturnToService, RoomRow
  <2>4. task' \in [Rooms -> TaskStatus]
    BY <1>2, QueuedType DEF ReturnToService
  <2> QED
    BY <1>2, <2>2, <2>3, <2>4 DEF ReturnToService
<1>3. ASSUME NEW kind \in Kinds, NEW from \in Dates, NEW to \in Dates, PlaceBlock(r, n, kind, from, to)
      PROVE  TypeOK'
  <2>1. [status |-> IF from = date THEN "ACTIVE" ELSE "SCHEDULED", kind |-> kind,
         from |-> from, to |-> to] \in BlockRow
    BY KindsAssumption DEF BlockRow
  <2>2. block' \in [Rooms -> [Ids -> BlockRow]]
    BY <1>3, <2>1 DEF PlaceBlock
  <2>3. room' \in [Rooms -> RoomRow]
    BY <1>1, <1>3, KindsAssumption DEF PlaceBlock, RoomRow
  <2> QED
    BY <1>3, <2>2, <2>3 DEF PlaceBlock
<1> QED
  BY <1>2, <1>3

LEMMA HousekeepingType ==
  ASSUME TypeOK, Housekeeping
  PROVE  TypeOK'
<1> USE DEF TypeOK
<1>1. ASSUME NEW r \in Rooms, CreateTask(r) PROVE TypeOK'
  BY <1>1 DEF CreateTask, TaskStatus, OpenTasks
<1>2. ASSUME NEW r \in Rooms PROVE Touch(r) \in [Clerks -> Command]
  <2>1. ASSUME NEW k \in Clerks PROVE [tx[k] EXCEPT !.fresh = FALSE] \in Command /\ tx[k] \in Command
    <3>1. tx[k] \in Command
      OBVIOUS
    <3> QED
      BY <3>1 DEF Command
  <2> QED
    BY <2>1 DEF Touch
<1>3. ASSUME NEW r \in Rooms, AssignTask(r) PROVE TypeOK'
  BY <1>2, <1>3 DEF AssignTask
<1>4. \A action \in {"start", "pause", "complete", "skip", "cancel"} :
        TaskSteps[action].to \in TaskStatus
  BY DEF TaskSteps, TaskStatus, OpenTasks
<1>5. ASSUME NEW r \in Rooms, NEW action \in {"start", "pause", "complete"}, WorkTask(r, action)
      PROVE  TypeOK'
  <2>1. task' \in [Rooms -> TaskStatus]
    BY <1>4, <1>5 DEF WorkTask
  <2>2. room[r] \in RoomRow /\ room[r].hk \in {"CLEAN", "DIRTY", "PICKUP", "INSPECTED"}
    BY DEF RoomRow
  <2>3. PICK hk \in {"CLEAN", "DIRTY", "PICKUP", "INSPECTED"} : room' = [room EXCEPT ![r].hk = hk]
    BY <1>5, <2>2 DEF WorkTask
  <2>4. room' \in [Rooms -> RoomRow]
    BY <2>2, <2>3 DEF RoomRow
  <2> QED
    BY <1>5, <2>1, <2>4 DEF WorkTask
<1>6. ASSUME NEW r \in Rooms, NEW action \in {"skip", "cancel"}, CloseTask(r, action) PROVE TypeOK'
  BY <1>2, <1>4, <1>6 DEF CloseTask
<1>7. ASSUME NEW r \in Rooms, NEW pass \in BOOLEAN, InspectRoom(r, pass) PROVE TypeOK'
  <2>1. room[r] \in RoomRow
    OBVIOUS
  <2>2. room' \in [Rooms -> RoomRow]
    BY <1>7, <2>1 DEF InspectRoom, RoomRow
  <2>3. task' \in [Rooms -> TaskStatus]
    BY <1>7 DEF InspectRoom, TaskStatus, OpenTasks
  <2> QED
    BY <1>7, <2>2, <2>3 DEF InspectRoom
<1>8. ASSUME NEW r \in Rooms, NEW hk \in {"DIRTY", "CLEAN"}, SetHousekeeping(r, hk) PROVE TypeOK'
  <2>1. room[r] \in RoomRow
    OBVIOUS
  <2>2. room' \in [Rooms -> RoomRow]
    BY <1>8, <2>1 DEF SetHousekeeping, RoomRow
  <2> QED
    BY <1>8, <2>2 DEF SetHousekeeping
<1> QED
  BY <1>1, <1>3, <1>5, <1>6, <1>7, <1>8, RoomsAssumption DEF Housekeeping

\* Some of the ids there are have a last one.
LEMMA LastId ==
  ASSUME NEW C, C \subseteq Ids, C # {}
  PROVE  \E n \in C : \A m \in C : m <= n
<1> DEFINE Below == {Slots - n : n \in C}
<1>1. C \subseteq Int /\ \A n \in C : 1 <= n /\ n <= Slots
  BY CalendarAssumption DEF Ids
<1>2. Below \subseteq Nat
  BY <1>1, CalendarAssumption
<1>3. Below # {}
  OBVIOUS
<1>4. PICK x \in Below : \A y \in Below : ~ (<<y, x>> \in OpToRel(<, Nat))
  <2> HIDE DEF Below
  <2> QED
    BY <1>2, <1>3, NatLessThanWellFounded, WFMin
<1>5. \A y \in Below : ~(y < x)
  BY <1>2, <1>4 DEF OpToRel
<1>6. PICK n \in C : x = Slots - n
  OBVIOUS
<1>7. \A m \in C : Slots - m \in Below
  OBVIOUS
<1>8. \A m \in C : ~(Slots - m < Slots - n)
  BY <1>5, <1>6, <1>7
<1>9. \A m \in C : m <= n
  BY <1>1, <1>8, CalendarAssumption
<1> QED
  BY <1>9

LEMMA RolledServiceType ==
  ASSUME TypeOK, NEW r \in Rooms
  PROVE  RolledService(r) \in {"IN_SERVICE", "OUT_OF_ORDER", "OUT_OF_SERVICE"}
<1>1. room[r].service \in {"IN_SERVICE", "OUT_OF_ORDER", "OUT_OF_SERVICE"}
  BY DEF TypeOK, RoomRow
<1>2. CASE Changing(r) # {}
  <2>1. Changing(r) \subseteq Ids
    BY DEF Changing
  <2>2. PICK n \in Changing(r) : \A m \in Changing(r) : m <= n
    BY <1>2, <2>1, LastId
  <2>3. (CHOOSE m \in Changing(r) : \A o \in Changing(r) : o <= m) \in Ids
    BY <2>1, <2>2
  <2>4. PICK m \in Ids : m = CHOOSE x \in Changing(r) : \A o \in Changing(r) : o <= x
    BY <2>3
  <2>5. block[r][m].kind \in {"OUT_OF_ORDER", "OUT_OF_SERVICE"}
    BY DEF TypeOK, BlockRow
  <2> QED
    BY <1>2, <2>4, <2>5 DEF RolledService
<1> QED
  BY <1>1, <1>2 DEF RolledService

LEMMA RollType ==
  ASSUME TypeOK, NEW auto \in BOOLEAN, Roll(auto)
  PROVE  TypeOK'
<1> USE DEF TypeOK
<1>1. date' \in Dates
  <2>1. date \in Dates /\ date < LastDate /\ date' = date + 1
    BY DEF Roll
  <2> QED
    BY <2>1, CalendarAssumption DEF Dates
<1>2. res' \in [Stays -> Reservation]
  <2>1. ASSUME NEW i \in Stays
        PROVE  res[i] \in Reservation /\ [res[i] EXCEPT !.status = "NO_SHOW", !.room = None] \in Reservation
    <3>1. res[i] \in Reservation
      OBVIOUS
    <3> QED
      BY <3>1 DEF Reservation
  <2> QED
    BY <2>1 DEF Roll
<1>3. asg' \subseteq Assignment
  BY DEF Roll
<1>4. block' \in [Rooms -> [Ids -> BlockRow]]
  <2>1. ASSUME NEW r \in Rooms, NEW n \in Ids PROVE RolledBlock(block[r][n]) \in BlockRow
    <3>1. block[r][n] \in BlockRow /\ 0 \in Dates
      BY CalendarAssumption DEF Dates
    <3> QED
      BY <3>1 DEF RolledBlock, NoBlock, BlockRow
  <2> QED
    BY <2>1 DEF Roll
<1>5. ASSUME NEW r \in Rooms PROVE RolledRoom(r) \in RoomRow
  <2>1. room[r] \in RoomRow
    OBVIOUS
  <2>2. RolledService(r) \in {"IN_SERVICE", "OUT_OF_ORDER", "OUT_OF_SERVICE"}
    BY RolledServiceType
  <2> QED
    BY <2>1, <2>2 DEF RolledRoom, RoomRow
<1>6. room' \in [Rooms -> RoomRow]
  BY <1>5 DEF Roll
<1>7. task' \in [Rooms -> TaskStatus]
  BY DEF Roll, RolledTask, TaskStatus, OpenTasks
<1> QED
  BY <1>1, <1>2, <1>3, <1>4, <1>6, <1>7 DEF Roll

----------------------------------------------------------------------------
(* What a step leaves alone.                                                *)

LEMMA AgreeFrame ==
  ASSUME NEW j \in Stays, Agree(j), date' = date, res'[j] = res[j], stay'[j] = stay[j],
         Rows(j)' = Rows(j)
  PROVE  Agree(j)'
BY DEF Agree, InHouse

\* A stay in house agrees when its one row covers its room and nights.
LEMMA AgreeInHouse ==
  ASSUME NEW j \in Stays, stay'[j].status = "IN_HOUSE", res'[j].status = "IN_HOUSE",
         res'[j].room = stay'[j].room, stay'[j].room \in Rooms, stay'[j].since = res'[j].arr,
         NEW from \in res'[j].arr..date', Rows(j)' = {Row(j, res'[j].room, from, res'[j].dep)}
  PROVE  Agree(j)'
BY DEF Agree, InHouse

LEMMA DoorsFrame ==
  ASSUME Doors, \A i \in Stays : stay'[i] = stay[i], \A r \in Rooms : room'[r].fo = room[r].fo
  PROVE  Doors'
BY DEF Doors, InHouse

\* No command asks, and those there are find what they have locked as it was, or end.
LEMMA LockedFrame ==
  ASSUME TypeOK, Locked, date' = date,
         \A k \in Clerks :
           \/ tx'[k] = Idle
           \/ /\ tx'[k] \in {tx[k], [tx[k] EXCEPT !.fresh = FALSE]}
              /\ tx[k].op # "idle" =>
                   res'[tx[k].stay] = res[tx[k].stay] /\ stay'[tx[k].stay] = stay[tx[k].stay]
              /\ tx[k].op = "check_out" /\ tx'[k].fresh => task'[tx[k].room] = task[tx[k].room]
  PROVE  Locked'
<1>1. Idle.op = "idle" /\ Idle.stay = None
  BY DEF Idle
<1>2. ASSUME NEW k \in Clerks
      PROVE  LET t == [tx[k] EXCEPT !.fresh = FALSE]
             IN t.op = tx[k].op /\ t.stay = tx[k].stay /\ t.room = tx[k].room /\ t.task = tx[k].task
                /\ t.fresh = FALSE
  <2>1. tx[k] \in Command
    BY DEF TypeOK
  <2> QED
    BY <2>1 DEF Command
<1>3. ASSUME NEW k \in Clerks PROVE Pending(k)'
  <2>1. CASE tx'[k] = Idle
    BY <1>1, <2>1 DEF Pending
  <2>2. CASE tx'[k] # Idle
    <3>1. tx'[k].op = tx[k].op /\ tx'[k].stay = tx[k].stay /\ tx'[k].room = tx[k].room
          /\ tx'[k].task = tx[k].task /\ (tx'[k].fresh => tx[k].fresh)
      BY <1>2, <2>2
    <3> QED
      BY <2>2, <3>1 DEF Locked, Pending, MayCheckIn, InHouse
  <2> QED
    BY <2>1, <2>2
<1>4. ASSUME NEW k \in Clerks PROVE tx'[k].stay \in {tx[k].stay, None}
  BY <1>1, <1>2
<1>5. \A k, l \in Clerks : k # l /\ tx'[k].stay = tx'[l].stay => tx'[k].stay = None
  BY <1>4 DEF Locked
<1> QED
  BY <1>3, <1>5 DEF Locked

LEMMA LockedAsk ==
  ASSUME TypeOK, Locked, NEW k \in Clerks, NEW i \in Stays, StayFree(i), NEW c, c.stay = i,
         tx' = [tx EXCEPT ![k] = c], UNCHANGED <<date, res, stay, task>>, Pending(k)'
  PROVE  Locked'
<1>1. tx'[k] = c /\ \A l \in Clerks \ {k} : tx'[l] = tx[l]
  BY DEF TypeOK
<1>2. ASSUME NEW l \in Clerks PROVE Pending(l)'
  BY <1>1 DEF Locked, Pending, MayCheckIn, InHouse
<1>3. \A l, m \in Clerks : l # m /\ tx'[l].stay = tx'[m].stay => tx'[l].stay = None
  BY <1>1 DEF Locked, StayFree
<1> QED
  BY <1>2, <1>3 DEF Locked

LEMMA OutOfOrderFrame ==
  ASSUME OutOfOrderKept, block' = block, asg' \subseteq asg
  PROVE  OutOfOrderKept'
BY DEF OutOfOrderKept, Overlaps

LEMMA OutOfOrderNewRow ==
  ASSUME OutOfOrderKept, block' = block, NEW i, NEW r, NEW from, NEW to, Assignable(r, from, to),
         asg' \subseteq asg \cup {Row(i, r, from, to)}
  PROVE  OutOfOrderKept'
<1>1. Row(i, r, from, to).room = r /\ Row(i, r, from, to).from = from /\ Row(i, r, from, to).to = to
  BY DEF Row
<1> QED
  BY <1>1 DEF OutOfOrderKept, Assignable, Overlaps

----------------------------------------------------------------------------
(* One lemma per command.                                                   *)

LEMMA ReservationKeeps ==
  ASSUME DeskInv, NEW i \in Stays,
         \/ \E r \in Rooms \cup {None} : AssignRoom(i, r)
         \/ \E arr, dep \in Dates : ChangeDates(i, arr, dep)
         \/ \E status \in {"CANCELLED", "NO_SHOW"} : ReleaseReservation(i, status)
  PROVE  DeskInv'
<1> USE DEF DeskInv
<1>1. /\ StayFree(i) /\ res[i].status = "RESERVED" /\ res[i] \in Reservation /\ ~InHouse(i)
      /\ UNCHANGED <<date, stay, room, block, task, tx>>
      /\ \A j \in Stays \ {i} : res'[j] = res[j]
  BY DEF AssignRoom, ChangeDates, ReleaseReservation, Agree, TypeOK
<1>2. TypeOK'
  BY ReservationType
<1>3. Doors'
  BY <1>1, DoorsFrame
<1>4. Locked'
  <2>1. \A k \in Clerks : tx[k].op # "idle" => tx[k].stay \in Stays \ {i}
    BY <1>1 DEF StayFree, Locked, Pending
  <2> QED
    BY <1>1, <2>1, LockedFrame
<1>5. BlocksOrdered'
  BY <1>1 DEF BlocksOrdered
<1>6. Agree(i)' /\ (\A j \in Stays \ {i} : Rows(j)' = Rows(j)) /\ OutOfOrderKept'
  <2>1. ASSUME NEW r \in Rooms \cup {None}, AssignRoom(i, r)
        PROVE  Agree(i)' /\ (\A j \in Stays \ {i} : Rows(j)' = Rows(j)) /\ OutOfOrderKept'
    <3> DEFINE S == IF r = None THEN {} ELSE {Row(i, r, res[i].arr, res[i].dep)}
    <3>1. asg' = WithoutRows(i) \cup S /\ \A a \in S : a.stay = i
      BY <2>1 DEF AssignRoom, Row
    <3>2. Rows(i)' = S /\ \A j \in Stays \ {i} : Rows(j)' = Rows(j)
      BY <3>1 DEF Rows, WithoutRows
    <3>3. res'[i].status = "RESERVED" /\ res'[i].room = r /\ res'[i].arr = res[i].arr /\ res'[i].dep = res[i].dep
      BY <1>1, <2>1 DEF AssignRoom, TypeOK, Reservation
    <3>4. Agree(i)'
      BY <1>1, <3>2, <3>3 DEF Agree, InHouse, Row
    <3>5. OutOfOrderKept'
      <4>1. CASE r = None
        BY <1>1, <3>1, <4>1, OutOfOrderFrame DEF WithoutRows
      <4>2. CASE r # None
        BY <1>1, <2>1, <3>1, <4>2, OutOfOrderNewRow DEF WithoutRows, AssignRoom
      <4> QED
        BY <4>1, <4>2
    <3> QED
      BY <3>2, <3>4, <3>5
  <2>2. ASSUME NEW arr \in Dates, NEW dep \in Dates, ChangeDates(i, arr, dep)
        PROVE  Agree(i)' /\ (\A j \in Stays \ {i} : Rows(j)' = Rows(j)) /\ OutOfOrderKept'
    <3> DEFINE S == IF res[i].room = None THEN {} ELSE {Row(i, res[i].room, arr, dep)}
    <3>1. asg' = WithoutRows(i) \cup S /\ \A a \in S : a.stay = i
      BY <2>2 DEF ChangeDates, Row
    <3>2. Rows(i)' = S /\ \A j \in Stays \ {i} : Rows(j)' = Rows(j)
      BY <3>1 DEF Rows, WithoutRows
    <3>3. res'[i].status = "RESERVED" /\ res'[i].room = res[i].room /\ res'[i].arr = arr /\ res'[i].dep = dep
      BY <1>1, <2>2 DEF ChangeDates, TypeOK, Reservation
    <3>4. Agree(i)'
      BY <1>1, <3>2, <3>3 DEF Agree, InHouse, Row
    <3>5. OutOfOrderKept'
      <4>1. CASE res[i].room = None
        BY <1>1, <3>1, <4>1, OutOfOrderFrame DEF WithoutRows
      <4>2. CASE res[i].room # None
        BY <1>1, <2>2, <3>1, <4>2, OutOfOrderNewRow DEF WithoutRows, ChangeDates
      <4> QED
        BY <4>1, <4>2
    <3> QED
      BY <3>2, <3>4, <3>5
  <2>3. ASSUME NEW status \in {"CANCELLED", "NO_SHOW"}, ReleaseReservation(i, status)
        PROVE  Agree(i)' /\ (\A j \in Stays \ {i} : Rows(j)' = Rows(j)) /\ OutOfOrderKept'
    <3>1. asg' = WithoutRows(i) \cup {}
      BY <2>3 DEF ReleaseReservation
    <3>2. Rows(i)' = {} /\ \A j \in Stays \ {i} : Rows(j)' = Rows(j)
      BY <3>1 DEF Rows, WithoutRows
    <3>3. res'[i].status = status /\ res'[i].room = None
      BY <1>1, <2>3 DEF ReleaseReservation, TypeOK, Reservation
    <3>4. Agree(i)'
      BY <1>1, <3>2, <3>3 DEF Agree, InHouse
    <3>5. OutOfOrderKept'
      BY <1>1, <3>1, OutOfOrderFrame DEF WithoutRows
    <3> QED
      BY <3>2, <3>4, <3>5
  <2> QED
    BY <2>1, <2>2, <2>3
<1>7. \A j \in Stays : Agree(j)'
  BY <1>1, <1>6, AgreeFrame
<1> QED
  BY <1>2, <1>3, <1>4, <1>5, <1>6, <1>7

LEMMA AskKeeps ==
  ASSUME DeskInv, NEW k \in Clerks, NEW i \in Stays, NEW r \in Rooms, NEW accept \in BOOLEAN,
         AskCheckIn(k, i, r, accept) \/ AskMove(k, i, r, accept)
  PROVE  DeskInv'
<1> USE DEF DeskInv
<1>1. UNCHANGED <<date, res, stay, asg, room, block, task>> /\ StayFree(i)
  BY DEF AskCheckIn, AskMove
<1>2. PICK op, c :
        /\ op = "check_in" => res[i].status \in {"RESERVED", "ABSENT"} /\ MayCheckIn(i)
        /\ op = "move" => InHouse(i) /\ r # stay[i].room
        /\ op \in {"check_in", "move"}
        /\ c = [Idle EXCEPT !.op = op, !.stay = i, !.room = r, !.seen = Flags(r), !.accept = accept]
        /\ tx' = [tx EXCEPT ![k] = c]
  BY DEF AskCheckIn, AskMove
<1>3. c.op = op /\ c.stay = i /\ c.room = r
  BY <1>2 DEF Idle
<1>4. tx'[k] = c
  BY <1>2 DEF TypeOK
<1>5. Pending(k)'
  BY <1>1, <1>2, <1>3, <1>4 DEF Pending, MayCheckIn, InHouse
<1>6. Locked'
  BY <1>1, <1>2, <1>3, <1>5, LockedAsk
<1>7. TypeOK'
  BY AskType
<1>8. Doors' /\ (\A j \in Stays : Agree(j)')
  BY <1>1, DoorsFrame, AgreeFrame DEF Rows, WithoutRows
<1>9. BlocksOrdered' /\ OutOfOrderKept'
  BY <1>1, OutOfOrderFrame DEF BlocksOrdered
<1> QED
  BY <1>6, <1>7, <1>8, <1>9

LEMMA BeginCheckOutKeeps ==
  ASSUME DeskInv, NEW k \in Clerks, NEW i \in Stays, BeginCheckOut(k, i)
  PROVE  DeskInv'
<1> USE DEF DeskInv
<1>1. UNCHANGED <<date, res, stay, asg, room, block, task>> /\ StayFree(i) /\ InHouse(i)
  BY DEF BeginCheckOut
<1>2. PICK c :
        /\ c = [Idle EXCEPT !.op = "check_out", !.stay = i, !.room = stay[i].room,
                            !.task = task[stay[i].room]]
        /\ tx' = [tx EXCEPT ![k] = c]
  BY DEF BeginCheckOut
<1>3. c.op = "check_out" /\ c.stay = i /\ c.room = stay[i].room /\ c.task = task[stay[i].room]
  BY <1>2 DEF Idle
<1>4. tx'[k] = c /\ stay[i].room \in Rooms
  BY <1>1, <1>2 DEF TypeOK, Agree
<1>5. Pending(k)'
  <2> HIDE DEF DeskInv
  <2>1. InHouse(i)' /\ stay'[i].room = stay[i].room /\ task'[stay[i].room] = task[stay[i].room]
    BY <1>1 DEF InHouse
  <2> QED
    BY <1>3, <1>4, <2>1 DEF Pending
<1>6. Locked'
  BY <1>1, <1>2, <1>3, <1>5, LockedAsk
<1>7. TypeOK'
  BY BeginCheckOutType
<1>8. Doors' /\ (\A j \in Stays : Agree(j)')
  BY <1>1, DoorsFrame, AgreeFrame DEF Rows, WithoutRows
<1>9. BlocksOrdered' /\ OutOfOrderKept'
  BY <1>1, OutOfOrderFrame DEF BlocksOrdered
<1> QED
  BY <1>6, <1>7, <1>8, <1>9

LEMMA RollbackKeeps ==
  ASSUME DeskInv, NEW k \in Clerks, Rollback(k)
  PROVE  DeskInv'
<1> USE DEF DeskInv
<1>1. UNCHANGED <<date, res, stay, asg, room, block, task>> /\ tx' = [tx EXCEPT ![k] = Idle]
  BY DEF Rollback
<1>2. TypeOK'
  BY <1>1, IdleType DEF TypeOK
<1>3. Locked'
  BY <1>1, LockedFrame DEF TypeOK
<1>4. Doors' /\ (\A j \in Stays : Agree(j)')
  BY <1>1, DoorsFrame, AgreeFrame DEF Rows, WithoutRows
<1>5. BlocksOrdered' /\ OutOfOrderKept'
  BY <1>1, OutOfOrderFrame DEF BlocksOrdered
<1> QED
  BY <1>2, <1>3, <1>4, <1>5

\* The commands hold different reservations, and who checks out holds his room.
LEMMA FinishLocked ==
  ASSUME DeskInv, NEW k \in Clerks, tx[k].op # "idle", tx' = [tx EXCEPT ![k] = Idle], date' = date,
         \A j \in Stays \ {tx[k].stay} : res'[j] = res[j] /\ stay'[j] = stay[j],
         \A l \in Clerks \ {k} : tx[l].op = "check_out" => task'[tx[l].room] = task[tx[l].room]
  PROVE  Locked'
<1>1. tx'[k] = Idle /\ \A l \in Clerks \ {k} : tx'[l] = tx[l]
  BY DEF DeskInv, TypeOK
<1>2. \A l \in Clerks \ {k} : tx[l].op # "idle" => tx[l].stay \in Stays \ {tx[k].stay}
  BY NoneAssumption DEF DeskInv, Locked, Pending
<1> QED
  BY <1>1, <1>2, LockedFrame DEF DeskInv

LEMMA CheckInKeeps ==
  ASSUME DeskInv, NEW k \in Clerks, CheckIn(k)
  PROVE  DeskInv'
<1> USE DEF DeskInv
<1>1. PICK i, r : i = tx[k].stay /\ r = tx[k].room
  OBVIOUS
<1>2. /\ i \in Stays /\ r \in Rooms /\ res[i] \in Reservation
      /\ res[i].status \in {"RESERVED", "ABSENT"} /\ res[i].arr = date /\ ~InHouse(i)
      /\ date \in Int
  <2>1. /\ tx[k].op = "check_in" /\ Locked /\ TypeOK /\ (\A j \in Stays : Agree(j))
    BY DEF CheckIn
  <2> HIDE DEF DeskInv
  <2>2. /\ i \in Stays /\ r \in Rooms
        /\ res[i].status \in {"RESERVED", "ABSENT"} /\ MayCheckIn(i)
    BY <1>1, <2>1 DEF Locked, Pending
  <2>3. ~InHouse(i)
    BY <2>1, <2>2 DEF Agree
  <2>4. res[i] \in Reservation /\ date \in Int
    BY <2>1, <2>2 DEF TypeOK, Dates
  <2> QED
    BY <2>2, <2>3, <2>4 DEF MayCheckIn
<1>3. /\ UNCHANGED <<date, block, task>> /\ tx' = [tx EXCEPT ![k] = Idle]
      /\ res' = [res EXCEPT ![i].status = "IN_HOUSE", ![i].room = r]
      /\ stay' = [stay EXCEPT ![i] = [status |-> "IN_HOUSE", room |-> r, since |-> date]]
      /\ room' = [room EXCEPT ![r].fo = "OCCUPIED"]
      /\ Unoccupied(r) /\ Assignable(r, res[i].arr, res[i].dep)
  BY <1>1 DEF CheckIn
<1>4. /\ res'[i].status = "IN_HOUSE" /\ res'[i].room = r /\ res'[i].arr = res[i].arr
      /\ res'[i].dep = res[i].dep
      /\ stay'[i].status = "IN_HOUSE" /\ stay'[i].room = r /\ stay'[i].since = date
      /\ \A j \in Stays \ {i} : res'[j] = res[j] /\ stay'[j] = stay[j]
  BY <1>2, <1>3 DEF TypeOK, Reservation
<1>5. TypeOK'
  BY CheckInType
<1>6. Locked'
  BY <1>1, <1>3, <1>4, FinishLocked DEF CheckIn
<1>7. Doors'
  <2>1. room'[r].fo = "OCCUPIED" /\ \A s \in Rooms \ {r} : room'[s].fo = room[s].fo
    BY <1>2, <1>3 DEF TypeOK, RoomRow
  <2>2. \A j \in Stays \ {i} : InHouse(j) => stay[j].room # r
    BY <1>3 DEF Unoccupied
  <2> QED
    BY <1>2, <1>4, <2>1, <2>2 DEF Doors, InHouse
<1>8. BlocksOrdered'
  BY <1>3 DEF BlocksOrdered
<1>9. /\ Rows(i)' = {Row(i, r, res[i].arr, res[i].dep)}
      /\ \A j \in Stays \ {i} : Rows(j)' = Rows(j)
      /\ asg' \subseteq asg \cup {Row(i, r, res[i].arr, res[i].dep)}
  <2>1. CASE res[i].room = r /\ HoldsRow(i, r)
    <3>1. asg' = asg
      BY <1>1, <2>1 DEF CheckIn
    <3>2. Rows(i) # {}
      BY <2>1 DEF HoldsRow, Rows, WithoutRows
    <3>3. Rows(i) = {Row(i, r, res[i].arr, res[i].dep)}
      BY <1>2, <2>1, <3>2 DEF Agree
    <3> QED
      BY <3>1, <3>3 DEF Rows, WithoutRows
  <2>2. CASE ~(res[i].room = r /\ HoldsRow(i, r))
    <3>1. asg' = WithoutRows(i) \cup {Row(i, r, res[i].arr, res[i].dep)}
      BY <1>1, <2>2 DEF CheckIn
    <3>2. Row(i, r, res[i].arr, res[i].dep).stay = i
      BY DEF Row
    <3> QED
      BY <3>1, <3>2 DEF Rows, WithoutRows
  <2> QED
    BY <2>1, <2>2
<1>10. OutOfOrderKept'
  BY <1>3, <1>9, OutOfOrderNewRow
<1>11. Agree(i)'
  <2> HIDE DEF DeskInv
  <2>1. res'[i].arr \in res'[i].arr..date'
    BY <1>2, <1>3, <1>4
  <2>2. stay'[i].since = res'[i].arr
    BY <1>2, <1>4
  <2>3. Rows(i)' = {Row(i, res'[i].room, res'[i].arr, res'[i].dep)}
    BY <1>4, <1>9
  <2> QED
    BY <1>2, <1>4, <2>1, <2>2, <2>3, AgreeInHouse
<1>12. \A j \in Stays : Agree(j)'
  BY <1>3, <1>4, <1>9, <1>11, AgreeFrame
<1> QED
  BY <1>5, <1>6, <1>7, <1>8, <1>10, <1>12

LEMMA ReverseKeeps ==
  ASSUME DeskInv, NEW i \in Stays, NEW release \in BOOLEAN, ReverseCheckIn(i, release)
  PROVE  DeskInv'
<1> USE DEF DeskInv
<1>1. PICK r : r = stay[i].room
  OBVIOUS
<1>2. /\ StayFree(i) /\ InHouse(i) /\ stay[i].since = date
      /\ asg' = IF release THEN WithoutRows(i) ELSE asg
      /\ res' = [res EXCEPT ![i].status = "RESERVED", ![i].room = IF release THEN None ELSE r]
      /\ stay' = [stay EXCEPT ![i] = NoStay]
      /\ room' = [room EXCEPT ![r].fo = "VACANT"]
      /\ UNCHANGED <<date, block, task, tx>>
  BY <1>1 DEF ReverseCheckIn, ReversedRows
<1>3. /\ r \in Rooms /\ res[i].room = r /\ res[i].arr = date /\ res[i] \in Reservation /\ date \in Int
      /\ r # None
  BY <1>1, <1>2, NoneAssumption DEF Agree, TypeOK, Dates
<1>4. /\ res'[i].status = "RESERVED" /\ res'[i].room = (IF release THEN None ELSE r)
      /\ res'[i].arr = res[i].arr /\ res'[i].dep = res[i].dep
      /\ stay'[i].status = "NONE"
      /\ \A j \in Stays \ {i} : res'[j] = res[j] /\ stay'[j] = stay[j]
  BY <1>2, <1>3 DEF TypeOK, Reservation, NoStay
<1>5. TypeOK'
  BY ReverseType
<1>6. Locked'
  <2>1. \A k \in Clerks : tx[k].op # "idle" => tx[k].stay \in Stays \ {i}
    BY <1>2 DEF StayFree, Locked, Pending
  <2> QED
    BY <1>2, <1>4, <2>1, LockedFrame
<1>7. Doors'
  <2>1. room'[r].fo = "VACANT" /\ \A s \in Rooms \ {r} : room'[s].fo = room[s].fo
    BY <1>2, <1>3 DEF TypeOK, RoomRow
  <2>2. \A j \in Stays \ {i} : InHouse(j) => stay[j].room # r
    BY <1>1, <1>2 DEF Doors
  <2> QED
    BY <1>1, <1>4, <2>1, <2>2 DEF Doors, InHouse
<1>8. BlocksOrdered'
  BY <1>2 DEF BlocksOrdered
<1>9. \A j \in Stays \ {i} : Rows(j)' = Rows(j)
  BY <1>2 DEF Rows, WithoutRows
<1>10. Rows(i)' = IF release THEN {} ELSE {Row(i, r, res[i].arr, res[i].dep)}
  <2>1. PICK from \in res[i].arr..date : Rows(i) = {Row(i, r, from, res[i].dep)}
    BY <1>2, <1>3 DEF Agree
  <2>2. from = res[i].arr
    BY <1>3
  <2> QED
    BY <1>2, <2>1, <2>2 DEF Rows, WithoutRows
<1>11. OutOfOrderKept'
  BY <1>2, OutOfOrderFrame DEF WithoutRows
<1>12. Agree(i)'
  BY <1>3, <1>4, <1>10 DEF Agree, InHouse, Row
<1>13. \A j \in Stays : Agree(j)'
  BY <1>2, <1>4, <1>9, <1>12, AgreeFrame
<1> QED
  BY <1>5, <1>6, <1>7, <1>8, <1>11, <1>13

LEMMA MoveKeeps ==
  ASSUME DeskInv, NEW k \in Clerks, MoveRoom(k)
  PROVE  DeskInv'
<1> USE DEF DeskInv
<1>1. PICK i, from, to : i = tx[k].stay /\ from = stay[i].room /\ to = tx[k].room
  OBVIOUS
<1>2. /\ i \in Stays /\ to \in Rooms /\ from \in Rooms /\ from # to /\ InHouse(i)
      /\ res[i] \in Reservation /\ stay[i] \in Stay /\ date \in Int
      /\ res[i].status = "IN_HOUSE"
  <2>1. i \in Stays /\ to \in Rooms /\ InHouse(i) /\ from # to
    BY <1>1 DEF MoveRoom, Locked, Pending
  <2>2. from \in Rooms /\ res[i].status = "IN_HOUSE"
    BY <1>1, <2>1 DEF Agree
  <2>3. res[i] \in Reservation /\ stay[i] \in Stay /\ date \in Int
    BY <2>1 DEF TypeOK, Dates
  <2> QED
    BY <2>1, <2>2, <2>3
<1>3. /\ UNCHANGED <<date, block>> /\ tx' = [tx EXCEPT ![k] = Idle]
      /\ asg' = WithoutRows(i) \cup {Row(i, to, date, res[i].dep)}
      /\ res' = [res EXCEPT ![i].room = to]
      /\ stay' = [stay EXCEPT ![i].room = to]
      /\ room' = [room EXCEPT ![from].fo = "VACANT", ![from].hk = "DIRTY", ![to].fo = "OCCUPIED"]
      /\ task' = [task EXCEPT ![from] = Queued(task[from])]
      /\ RoomFree(from) /\ Unoccupied(to) /\ Assignable(to, date, res[i].dep)
      /\ tx[k].op = "move"
  BY <1>1 DEF MoveRoom
<1>4. /\ res'[i].status = "IN_HOUSE" /\ res'[i].room = to /\ res'[i].arr = res[i].arr
      /\ res'[i].dep = res[i].dep
      /\ stay'[i].status = stay[i].status /\ stay'[i].room = to /\ stay'[i].since = stay[i].since
      /\ \A j \in Stays \ {i} : res'[j] = res[j] /\ stay'[j] = stay[j]
  BY <1>2, <1>3 DEF TypeOK, Reservation, Stay
<1>5. TypeOK'
  BY MoveType
<1>6. Locked'
  <2>1. \A l \in Clerks : tx[l].op = "check_out" => tx[l].room # from
    BY <1>3 DEF RoomFree
  <2>2. \A l \in Clerks \ {k} : tx[l].op = "check_out" => task'[tx[l].room] = task[tx[l].room]
    BY <1>3, <2>1 DEF TypeOK
  <2> QED
    BY <1>1, <1>3, <1>4, <2>2, FinishLocked
<1>7. Doors'
  <2>1. /\ room'[from].fo = "VACANT" /\ room'[to].fo = "OCCUPIED"
        /\ \A s \in Rooms \ {from, to} : room'[s].fo = room[s].fo
    BY <1>2, <1>3 DEF TypeOK, RoomRow
  <2>2. \A j \in Stays \ {i} : InHouse(j) => stay[j].room # from /\ stay[j].room # to
    BY <1>1, <1>2, <1>3 DEF Doors, Unoccupied
  <2> QED
    BY <1>1, <1>2, <1>4, <2>1, <2>2 DEF Doors, InHouse
<1>8. BlocksOrdered'
  BY <1>3 DEF BlocksOrdered
<1>9. Row(i, to, date, res[i].dep).stay = i
  BY DEF Row
<1>10. /\ Rows(i)' = {Row(i, to, date, res[i].dep)} /\ \A j \in Stays \ {i} : Rows(j)' = Rows(j)
       /\ asg' \subseteq asg \cup {Row(i, to, date, res[i].dep)}
  BY <1>3, <1>9 DEF Rows, WithoutRows
<1>11. OutOfOrderKept'
  BY <1>3, <1>10, OutOfOrderNewRow
<1>12. Agree(i)'
  <2>1. res[i].arr \in Int /\ \E n \in res[i].arr..date : TRUE
    BY <1>2 DEF Agree, Reservation, Dates
  <2>2. date \in res[i].arr..date'
    BY <1>2, <1>3, <2>1
  <2>3. stay[i].since = res[i].arr
    BY <1>2 DEF Agree
  <2> QED
    BY <1>2, <1>3, <1>4, <1>10, <2>2, <2>3 DEF Agree, InHouse, Row
<1>13. \A j \in Stays : Agree(j)'
  BY <1>3, <1>4, <1>10, <1>12, AgreeFrame
<1> QED
  BY <1>5, <1>6, <1>7, <1>8, <1>11, <1>13

LEMMA ExtendKeeps ==
  ASSUME DeskInv, NEW i \in Stays, NEW dep \in Dates, ExtendStay(i, dep)
  PROVE  DeskInv'
<1> USE DEF DeskInv
<1>1. PICK r, old : r = res[i].room /\ old = res[i].dep
  OBVIOUS
<1>2. /\ StayFree(i) /\ InHouse(i) /\ old < dep
      /\ Assignable(r, old, dep)
      /\ asg' = WithoutRows(i) \cup {[a EXCEPT !.to = dep] : a \in Rows(i)}
      /\ res' = [res EXCEPT ![i].dep = dep]
      /\ UNCHANGED <<date, stay, room, block, task, tx>>
  BY <1>1 DEF ExtendStay, Rows
<1>3. /\ res[i] \in Reservation /\ res[i].status = "IN_HOUSE" /\ r \in Rooms /\ stay[i].room = r
      /\ stay[i].since = res[i].arr
  BY <1>1, <1>2 DEF TypeOK, Agree
<1>4. PICK from \in res[i].arr..date : Rows(i) = {Row(i, r, from, old)}
  BY <1>1, <1>2 DEF Agree
<1>5. /\ res'[i].status = "IN_HOUSE" /\ res'[i].room = r /\ res'[i].arr = res[i].arr /\ res'[i].dep = dep
      /\ \A j \in Stays \ {i} : res'[j] = res[j]
  BY <1>1, <1>2, <1>3 DEF TypeOK, Reservation
<1>6. [Row(i, r, from, old) EXCEPT !.to = dep] = Row(i, r, from, dep) /\ Row(i, r, from, dep).stay = i
  BY DEF Row
<1>7. asg' = WithoutRows(i) \cup {Row(i, r, from, dep)}
  BY <1>2, <1>4, <1>6
<1>8. Rows(i)' = {Row(i, r, from, dep)} /\ \A j \in Stays \ {i} : Rows(j)' = Rows(j)
  BY <1>6, <1>7 DEF Rows, WithoutRows
<1>9. TypeOK'
  BY ExtendType
<1>10. Doors' /\ BlocksOrdered'
  BY <1>2, DoorsFrame DEF BlocksOrdered
<1>11. Locked'
  <2>1. \A k \in Clerks : tx[k].op # "idle" => tx[k].stay \in Stays \ {i}
    BY <1>2 DEF StayFree, Locked, Pending
  <2> QED
    BY <1>2, <1>5, <2>1, LockedFrame
<1>12. OutOfOrderKept'
  <2>1. Row(i, r, from, old) \in asg
    BY <1>4 DEF Rows
  <2>2. ASSUME NEW n \in Ids, block[r][n].kind = "OUT_OF_ORDER" PROVE ~Overlaps(block[r][n], from, dep)
    <3>1. /\ block[r][n] \in BlockRow /\ from \in Int /\ old \in Int /\ dep \in Int
          /\ block[r][n].from \in Int /\ block[r][n].to \in Int
      BY <1>1, <1>3 DEF TypeOK, Reservation, BlockRow, Dates
    <3>2. ~Overlaps(block[r][n], from, old)
      BY <2>1, <2>2 DEF OutOfOrderKept, Row
    <3>3. ~Overlaps(block[r][n], old, dep)
      BY <1>2, <2>2 DEF Assignable
    <3>4. block[r][n].status # "NONE" => block[r][n].from < block[r][n].to
      BY <1>3 DEF BlocksOrdered
    <3> QED
      BY <3>1, <3>2, <3>3, <3>4 DEF Overlaps
  <2>3. Assignable(r, from, dep)
    BY <2>2 DEF Assignable
  <2> QED
    BY <1>2, <1>7, <2>3, OutOfOrderNewRow DEF WithoutRows
<1>13. Agree(i)'
  BY <1>2, <1>3, <1>5, <1>8 DEF Agree, InHouse, Row
<1>14. \A j \in Stays : Agree(j)'
  BY <1>2, <1>5, <1>8, <1>13, AgreeFrame
<1> QED
  BY <1>9, <1>10, <1>11, <1>12, <1>14

LEMMA CheckOutKeeps ==
  ASSUME DeskInv, NEW k \in Clerks, CheckOut(k)
  PROVE  DeskInv'
<1> USE DEF DeskInv
<1>1. PICK i, r : i = tx[k].stay /\ r = tx[k].room
  OBVIOUS
<1>2. tx[k].op = "check_out" /\ i \in Stays /\ r \in Rooms /\ InHouse(i) /\ stay[i].room = r
  BY <1>1 DEF CheckOut, Locked, Pending
<1>3. /\ UNCHANGED <<date, block>> /\ tx' = [tx EXCEPT ![k] = Idle]
      /\ asg' = WithoutRows(i)
      /\ res' = [res EXCEPT ![i].status = "CHECKED_OUT", ![i].dep = IF Early(i) THEN date ELSE @]
      /\ stay' = [stay EXCEPT ![i].status = "CHECKED_OUT"]
      /\ room' = [room EXCEPT ![r].fo = "VACANT", ![r].hk = "DIRTY"]
      /\ \A s \in Rooms \ {r} : task'[s] = task[s]
  BY <1>1 DEF CheckOut, TypeOK
<1>4. /\ res'[i].status = "CHECKED_OUT" /\ stay'[i].status = "CHECKED_OUT"
      /\ \A j \in Stays \ {i} : res'[j] = res[j] /\ stay'[j] = stay[j]
  <2>1. res[i] \in Reservation /\ stay[i] \in Stay
    BY <1>2 DEF TypeOK
  <2> QED
    BY <1>2, <1>3, <2>1 DEF TypeOK, Reservation, Stay
<1>5. TypeOK'
  BY CheckOutType
<1>6. Locked'
  <2>1. ASSUME NEW l \in Clerks \ {k}, tx[l].op = "check_out" PROVE tx[l].room \in Rooms \ {r}
    <3>1. tx[l].stay \in Stays /\ tx[l].stay # i /\ InHouse(tx[l].stay) /\ tx[l].room = stay[tx[l].stay].room
          /\ tx[l].room \in Rooms
      BY <1>1, <1>2, <2>1, NoneAssumption DEF Locked, Pending
    <3> QED
      BY <1>2, <3>1 DEF Doors
  <2> QED
    BY <1>1, <1>2, <1>3, <1>4, <2>1, FinishLocked
<1>7. Doors'
  <2>1. room'[r].fo = "VACANT" /\ \A s \in Rooms \ {r} : room'[s].fo = room[s].fo
    BY <1>2, <1>3 DEF TypeOK, RoomRow
  <2>2. \A j \in Stays \ {i} : InHouse(j) => stay[j].room # r
    BY <1>2 DEF Doors
  <2> QED
    BY <1>2, <1>4, <2>1, <2>2 DEF Doors, InHouse
<1>8. BlocksOrdered' /\ OutOfOrderKept'
  BY <1>3, OutOfOrderFrame DEF BlocksOrdered, WithoutRows
<1>9. Rows(i)' = {} /\ \A j \in Stays \ {i} : Rows(j)' = Rows(j)
  BY <1>3 DEF Rows, WithoutRows
<1>10. Agree(i)'
  BY <1>4, <1>9 DEF Agree, InHouse
<1>11. \A j \in Stays : Agree(j)'
  BY <1>3, <1>4, <1>9, <1>10, AgreeFrame
<1> QED
  BY <1>5, <1>6, <1>7, <1>8, <1>11

\* A block changes the service status of its room, a return its cleaning too.
LEMMA ServiceFrame ==
  ASSUME DeskInv, NEW r \in Rooms, NEW n \in Ids,
         \/ ReturnToService(r, n)
         \/ \E kind \in Kinds, from, to \in Dates : PlaceBlock(r, n, kind, from, to)
  PROVE  UNCHANGED stay /\ \A s \in Rooms : room'[s].fo = room[s].fo
<1>1. room \in [Rooms -> RoomRow] /\ room[r] \in RoomRow
  BY DEF DeskInv, TypeOK
<1>2. UNCHANGED stay
  BY DEF ReturnToService, PlaceBlock
<1>3. CASE ReturnToService(r, n)
  <2>1. PICK service, hk : room' = [room EXCEPT ![r].service = service, ![r].hk = hk]
    BY <1>3 DEF ReturnToService
  <2> QED
    BY <1>1, <1>2, <2>1 DEF RoomRow
<1>4. CASE \E kind \in Kinds, from, to \in Dates : PlaceBlock(r, n, kind, from, to)
  <2>1. PICK service : room' = [room EXCEPT ![r].service = service]
    BY <1>4 DEF PlaceBlock
  <2> QED
    BY <1>1, <1>2, <2>1 DEF RoomRow
<1> QED
  BY <1>3, <1>4

LEMMA ServiceKeeps ==
  ASSUME DeskInv, NEW r \in Rooms, NEW n \in Ids,
         \/ ReturnToService(r, n)
         \/ \E kind \in Kinds, from, to \in Dates : PlaceBlock(r, n, kind, from, to)
  PROVE  DeskInv'
<1> USE DEF DeskInv
<1>1. UNCHANGED <<date, res, stay, asg, tx>> /\ RoomFree(r) /\ \A s \in Rooms \ {r} : task'[s] = task[s]
  BY DEF ReturnToService, PlaceBlock, TypeOK
<1>2. \A s \in Rooms : room'[s].fo = room[s].fo
  BY ServiceFrame
<1>3. TypeOK'
  BY ServiceType
<1>4. Doors' /\ \A j \in Stays : Agree(j)'
  BY <1>1, <1>2, DoorsFrame, AgreeFrame DEF Rows, WithoutRows
<1>5. Locked'
  <2>1. \A k \in Clerks : tx[k].op = "check_out" => tx[k].room \in Rooms \ {r}
    BY <1>1 DEF RoomFree, Locked, Pending
  <2> QED
    BY <1>1, <2>1, LockedFrame
<1>6. PICK b : block' = [block EXCEPT ![r][n] = b]
  BY DEF ReturnToService, PlaceBlock
<1>7. /\ block'[r][n] = b
      /\ \A s \in Rooms, m \in Ids : <<s, m>> # <<r, n>> => block'[s][m] = block[s][m]
  BY <1>6 DEF TypeOK
<1>8. /\ b.status # "NONE" => b.from < b.to
      /\ b.status # "NONE" /\ b.kind = "OUT_OF_ORDER" => Unassigned(r, b.from, b.to)
  <2>1. CASE ReturnToService(r, n)
    <3>1. block'[r][n] = NoBlock
      BY <2>1 DEF ReturnToService, TypeOK
    <3> QED
      BY <1>7, <3>1 DEF NoBlock
  <2>2. ASSUME NEW kind \in Kinds, NEW from \in Dates, NEW to \in Dates, PlaceBlock(r, n, kind, from, to)
        PROVE  b.from < b.to /\ (b.kind = "OUT_OF_ORDER" => Unassigned(r, b.from, b.to))
    <3>1. block'[r][n].kind = kind /\ block'[r][n].from = from /\ block'[r][n].to = to
      BY <2>2 DEF PlaceBlock, TypeOK
    <3> QED
      BY <1>7, <2>2, <3>1 DEF PlaceBlock
  <2> QED
    BY <2>1, <2>2
<1>9. BlocksOrdered'
  BY <1>7, <1>8 DEF BlocksOrdered
<1>10. OutOfOrderKept'
  <2>1. ASSUME NEW a \in asg, NEW m \in Ids, block'[a.room][m].kind = "OUT_OF_ORDER"
        PROVE  ~Overlaps(block'[a.room][m], a.from, a.to)
    <3>1. a.room \in Rooms
      BY DEF TypeOK, Assignment
    <3>2. CASE <<a.room, m>> # <<r, n>>
      BY <1>7, <2>1, <3>1, <3>2 DEF OutOfOrderKept
    <3>3. CASE <<a.room, m>> = <<r, n>>
      BY <1>7, <1>8, <2>1, <3>3 DEF Unassigned, Overlaps
    <3> QED
      BY <3>2, <3>3
  <2> QED
    BY <1>1, <2>1 DEF OutOfOrderKept, Overlaps
<1> QED
  BY <1>3, <1>4, <1>5, <1>9, <1>10

\* Housekeeping does not touch who is where, and a room or task it does touch is not held
\* by a check-out, or the check-out finds out.
LEMMA HousekeepingFrame ==
  ASSUME DeskInv, Housekeeping
  PROVE  /\ UNCHANGED <<date, res, stay, asg, block>>
         /\ \A s \in Rooms : room'[s].fo = room[s].fo
         /\ \A k \in Clerks :
              /\ tx'[k] \in {tx[k], [tx[k] EXCEPT !.fresh = FALSE]}
              /\ tx[k].op = "check_out" /\ tx'[k].fresh => task'[tx[k].room] = task[tx[k].room]
<1> USE DEF DeskInv
<1>1. /\ room \in [Rooms -> RoomRow] /\ task \in [Rooms -> TaskStatus]
      /\ \A k \in Clerks : tx[k] \in Command
  BY DEF TypeOK
<1>2. /\ UNCHANGED <<date, res, stay, asg, block>>
  BY DEF Housekeeping, CreateTask, AssignTask, WorkTask, CloseTask, InspectRoom, SetHousekeeping
<1>3. PICK r \in Rooms :
        \/ CreateTask(r) \/ AssignTask(r)
        \/ \E action \in {"start", "pause", "complete"} : WorkTask(r, action)
        \/ \E action \in {"skip", "cancel"} : CloseTask(r, action)
        \/ \E pass \in BOOLEAN : InspectRoom(r, pass)
        \/ \E hk \in {"DIRTY", "CLEAN"} : SetHousekeeping(r, hk)
  BY RoomsAssumption DEF Housekeeping
<1>4. \A s \in Rooms \ {r} : task'[s] = task[s]
  BY <1>1, <1>3 DEF CreateTask, AssignTask, WorkTask, CloseTask, InspectRoom, SetHousekeeping
<1>5. \A s \in Rooms : room'[s].fo = room[s].fo
  <2>1. \/ UNCHANGED room
        \/ \E hk : room' = [room EXCEPT ![r].hk = hk]
    BY <1>3 DEF CreateTask, AssignTask, WorkTask, CloseTask, InspectRoom, SetHousekeeping
  <2> QED
    BY <1>1, <2>1 DEF RoomRow
<1>6. CASE UNCHANGED tx /\ RoomFree(r)
  <2>1. \A k \in Clerks : tx[k].op = "check_out" => tx[k].room \in Rooms \ {r}
    BY <1>6 DEF RoomFree, Locked, Pending
  <2> QED
    BY <1>2, <1>4, <1>5, <1>6, <2>1
<1>7. CASE tx' = Touch(r)
  <2>1. ASSUME NEW k \in Clerks
        PROVE  /\ tx'[k] \in {tx[k], [tx[k] EXCEPT !.fresh = FALSE]}
               /\ tx[k].op = "check_out" /\ tx'[k].fresh => task'[tx[k].room] = task[tx[k].room]
    <3>1. CASE tx[k].op = "check_out" /\ tx[k].room = r
      <4>1. tx'[k] = [tx[k] EXCEPT !.fresh = FALSE]
        BY <1>7, <3>1 DEF Touch
      <4>2. tx[k] \in Command
        BY <1>1
      <4>3. tx'[k].fresh = FALSE
        BY <4>1, <4>2 DEF Command
      <4> QED
        BY <4>1, <4>3
    <3>2. CASE ~(tx[k].op = "check_out" /\ tx[k].room = r)
      <4>1. tx'[k] = tx[k]
        BY <1>7, <3>2 DEF Touch
      <4>2. tx[k].op = "check_out" => tx[k].room \in Rooms \ {r}
        BY <3>2 DEF Locked, Pending
      <4> QED
        BY <1>4, <4>1, <4>2
    <3> QED
      BY <3>1, <3>2
  <2> QED
    BY <1>2, <1>5, <2>1
<1>8. \/ UNCHANGED tx /\ RoomFree(r)
      \/ tx' = Touch(r)
  BY <1>3 DEF CreateTask, AssignTask, WorkTask, CloseTask, InspectRoom, SetHousekeeping
<1> QED
  BY <1>6, <1>7, <1>8

LEMMA HousekeepingKeeps ==
  ASSUME DeskInv, Housekeeping
  PROVE  DeskInv'
<1>1. /\ UNCHANGED <<date, res, stay, asg, block>>
      /\ \A s \in Rooms : room'[s].fo = room[s].fo
  BY HousekeepingFrame
<1>2. TypeOK'
  BY HousekeepingType DEF DeskInv
<1>3. Doors' /\ \A j \in Stays : Agree(j)'
  BY <1>1, DoorsFrame, AgreeFrame DEF Rows, WithoutRows, DeskInv
<1>4. BlocksOrdered' /\ OutOfOrderKept'
  BY <1>1, OutOfOrderFrame DEF BlocksOrdered, DeskInv
<1>5. Locked'
  <2>1. \A k \in Clerks : tx[k].op # "idle" => tx[k].stay \in Stays
    BY DEF Locked, Pending, DeskInv
  <2> QED
    BY <1>1, <2>1, HousekeepingFrame, LockedFrame DEF DeskInv
<1> QED
  BY <1>2, <1>3, <1>4, <1>5 DEF DeskInv

LEMMA RollKeeps ==
  ASSUME DeskInv, NEW auto \in BOOLEAN, Roll(auto)
  PROVE  DeskInv'
<1> USE DEF DeskInv
<1> DEFINE Gone == NoShows(auto)
<1>1. /\ Quiet /\ UNCHANGED <<stay, tx>> /\ date' = date + 1 /\ date \in Int
      /\ asg' = {a \in asg : a.stay \notin Gone}
      /\ \A i \in Stays \ Gone : res'[i] = res[i]
      /\ \A i \in Gone : i \in Stays /\ res[i].status = "RESERVED"
                         /\ res'[i] = [res[i] EXCEPT !.status = "NO_SHOW", !.room = None]
      /\ \A r \in Rooms : \A n \in Ids : block'[r][n] = RolledBlock(block[r][n])
      /\ \A r \in Rooms : room'[r].fo = room[r].fo
  <2>1. date \in Int
    BY DEF TypeOK, Dates
  <2>2. \A i \in Gone : i \in Stays /\ res[i].status = "RESERVED"
    BY DEF NoShows
  <2>3. res' = [i \in Stays |-> IF i \in Gone THEN [res[i] EXCEPT !.status = "NO_SHOW", !.room = None]
                                ELSE res[i]]
    BY DEF Roll
  <2> HIDE DEF Gone
  <2>4. \A r \in Rooms : room'[r].fo = room[r].fo
    BY DEF Roll, RolledRoom
  <2>5. \A r \in Rooms : \A n \in Ids : block'[r][n] = RolledBlock(block[r][n])
    BY DEF Roll
  <2>6. asg' = {a \in asg : a.stay \notin Gone}
    BY DEF Roll, Gone
  <2>7. Quiet /\ UNCHANGED <<stay, tx>> /\ date' = date + 1
    BY DEF Roll
  <2> QED
    BY <2>1, <2>2, <2>3, <2>4, <2>5, <2>6, <2>7
<1> HIDE DEF Gone
<1>2. TypeOK'
  BY RollType
<1>3. Doors'
  BY <1>1, DoorsFrame
<1>4. Locked'
  <2>1. Idle.op = "idle" /\ Idle.stay = None
    BY DEF Idle
  <2> QED
    BY <1>1, <2>1 DEF Quiet, Locked, Pending
<1>5. \A r \in Rooms : \A n \in Ids :
        block'[r][n].status # "NONE" =>
          /\ block[r][n].status # "NONE" /\ block'[r][n].kind = block[r][n].kind
          /\ block'[r][n].from = block[r][n].from /\ block'[r][n].to = block[r][n].to
  <2>1. ASSUME NEW b \in BlockRow, RolledBlock(b).status # "NONE"
        PROVE  /\ b.status # "NONE" /\ RolledBlock(b).kind = b.kind
               /\ RolledBlock(b).from = b.from /\ RolledBlock(b).to = b.to
    BY <2>1 DEF RolledBlock, NoBlock, BlockRow, Starts
  <2>2. \A r \in Rooms : \A n \in Ids :
          block[r][n] \in BlockRow
    BY DEF TypeOK
  <2> QED
    BY <1>1, <2>1, <2>2
<1>6. BlocksOrdered'
  BY <1>5 DEF BlocksOrdered
<1>7. OutOfOrderKept'
  <2>1. ASSUME NEW a \in asg', NEW n \in Ids, block'[a.room][n].kind = "OUT_OF_ORDER"
        PROVE  ~Overlaps(block'[a.room][n], a.from, a.to)
    <3>1. a \in asg /\ a.room \in Rooms
      BY <1>1 DEF TypeOK, Assignment
    <3> QED
      BY <1>5, <2>1, <3>1 DEF OutOfOrderKept, Overlaps
  <2> QED
    BY <2>1 DEF OutOfOrderKept, Overlaps
<1>8. ASSUME NEW j \in Stays PROVE Agree(j)'
  <2>1. CASE j \in Gone
    <3>1. res[j] \in Reservation /\ ~InHouse(j) /\ stay[j].status # "CHECKED_OUT"
      BY <1>1, <2>1 DEF Agree, TypeOK
    <3>2. res'[j].status = "NO_SHOW"
      BY <1>1, <2>1, <3>1 DEF Reservation
    <3>3. Rows(j)' = {}
      BY <1>1, <2>1 DEF Rows, WithoutRows
    <3> QED
      BY <1>1, <3>1, <3>2, <3>3 DEF Agree, InHouse
  <2>2. CASE j \notin Gone
    <3>1. Rows(j)' = Rows(j)
      BY <1>1, <2>2 DEF Rows, WithoutRows
    <3>2. res'[j] = res[j] /\ stay'[j] = stay[j]
      BY <1>1, <2>2
    <3>3. res[j].arr \in Int
      <4>1. res[j] \in Reservation
        BY DEF TypeOK
      <4> QED
        BY <4>1 DEF Reservation, Dates
    <3>4. res[j].arr..date \subseteq res'[j].arr..date'
      <4>1. PICK a, d : a = res[j].arr /\ d = date
        OBVIOUS
      <4>2. a \in Int /\ d \in Int /\ res'[j].arr = a /\ date' = d + 1
        BY <1>1, <3>2, <3>3, <4>1
      <4>3. a..d \subseteq a..(d + 1)
        BY <4>2
      <4> QED
        BY <4>1, <4>2, <4>3
    <3> QED
      BY <3>1, <3>2, <3>4 DEF Agree, InHouse, Row
  <2> QED
    BY <2>1, <2>2
<1> QED
  BY <1>2, <1>3, <1>4, <1>6, <1>7, <1>8

----------------------------------------------------------------------------
(* The invariant and the properties                                         *)

LEMMA DeskInit == Init => DeskInv
<1> SUFFICES ASSUME Init PROVE DeskInv
  OBVIOUS
<1>1. TypeOK
  BY InitType
<1>2. \A i \in Stays : Agree(i)
  <2>1. NoStay.status = "NONE"
    BY DEF NoStay
  <2>2. \A i \in Stays : stay[i] = NoStay /\ res[i].status \in {"ABSENT", "RESERVED"} /\ res[i].room = None
    BY DEF Init
  <2>3. \A i \in Stays : Rows(i) = {}
    BY DEF Init, Rows
  <2> QED
    BY <2>1, <2>2, <2>3 DEF Agree, InHouse
<1>3. Doors
  BY DEF Init, Doors, InHouse, NoStay
<1>4. Locked
  BY DEF Init, Locked, Pending, Idle
<1>5. BlocksOrdered /\ OutOfOrderKept
  BY DEF Init, BlocksOrdered, OutOfOrderKept, NoBlock
<1> QED
  BY <1>1, <1>2, <1>3, <1>4, <1>5 DEF DeskInv

LEMMA DeskStep == DeskInv /\ [Next]_vars => DeskInv'
<1> SUFFICES ASSUME DeskInv, [Next]_vars PROVE DeskInv'
  OBVIOUS
<1>1. ASSUME Reservations PROVE DeskInv'
  BY <1>1, ReservationKeeps DEF Reservations
<1>2. ASSUME FrontOffice PROVE DeskInv'
  <2>1. PICK i \in Stays :
          \/ \E release \in BOOLEAN : ReverseCheckIn(i, release)
          \/ \E dep \in Dates : ExtendStay(i, dep)
          \/ \E k \in Clerks : BeginCheckOut(k, i)
          \/ \E k \in Clerks, r \in Rooms, accept \in BOOLEAN :
               AskCheckIn(k, i, r, accept) \/ AskMove(k, i, r, accept)
    BY <1>2 DEF FrontOffice
  <2> QED
    BY <2>1, ReverseKeeps, ExtendKeeps, BeginCheckOutKeeps, AskKeeps
<1>3. ASSUME Finishes PROVE DeskInv'
  BY <1>3, CheckInKeeps, MoveKeeps, CheckOutKeeps, RollbackKeeps DEF Finishes
<1>4. ASSUME Service PROVE DeskInv'
  BY <1>4, RoomsAssumption, ServiceKeeps DEF Service
<1>5. ASSUME Housekeeping PROVE DeskInv'
  BY <1>5, HousekeepingKeeps
<1>6. ASSUME NEW auto \in BOOLEAN, Roll(auto) PROVE DeskInv'
  BY <1>6, RollKeeps
<1>7. CASE UNCHANGED vars
  <2>1. TypeOK'
    BY <1>7 DEF DeskInv, TypeOK, vars
  <2>2. Doors' /\ \A j \in Stays : Agree(j)'
    BY <1>7, DoorsFrame, AgreeFrame DEF DeskInv, vars, Rows, WithoutRows
  <2>3. Locked'
    BY <1>7, LockedFrame DEF DeskInv, vars
  <2>4. BlocksOrdered' /\ OutOfOrderKept'
    BY <1>7, OutOfOrderFrame DEF DeskInv, vars, BlocksOrdered
  <2> QED
    BY <2>1, <2>2, <2>3, <2>4 DEF DeskInv
<1> QED
  BY <1>1, <1>2, <1>3, <1>4, <1>5, <1>6, <1>7 DEF Next

LEMMA DeskAlways == Spec => []DeskInv
BY DeskInit, DeskStep, PTL DEF Spec

\* The rows keep the values their columns allow, for any number of rooms, stays, clerks,
\* dates and blocks.
THEOREM DeskTypes == Spec => []TypeOK
<1>1. DeskInv => TypeOK
  BY DEF DeskInv
<1> QED
  BY <1>1, DeskAlways, PTL

\* Reservations, stays, assignments and rooms agree whatever the clerks do, in any number
\* of rooms.
THEOREM DeskOccupancyAgrees == Spec => []OccupancyAgrees
<1>1. DeskInv => OccupancyAgrees
  BY DEF DeskInv, Agree, Doors, OccupancyAgrees, Rows
<1> QED
  BY <1>1, DeskAlways, PTL

\* No assignment covers a night its room is out of order.
THEOREM DeskOutOfOrderKept == Spec => []OutOfOrderKept
<1>1. DeskInv => OutOfOrderKept
  BY DEF DeskInv
<1> QED
  BY <1>1, DeskAlways, PTL

----------------------------------------------------------------------------
(* Who leaves.                                                              *)

\* The steps that change neither who is where nor who has left.
LEMMA AsideStep ==
  ASSUME DeskInv, [Next]_vars, ~\E k \in Clerks : CheckIn(k) \/ MoveRoom(k) \/ CheckOut(k),
         ~\E i \in Stays, release \in BOOLEAN : ReverseCheckIn(i, release)
  PROVE  UNCHANGED stay /\ \A r \in Rooms : room'[r].fo = room[r].fo
<1>1. ASSUME Reservations PROVE UNCHANGED <<stay, room>>
  <2>1. ASSUME NEW i, NEW r, AssignRoom(i, r) PROVE UNCHANGED <<stay, room>>
    BY <2>1 DEF AssignRoom
  <2>2. ASSUME NEW i, NEW arr, NEW dep, ChangeDates(i, arr, dep) PROVE UNCHANGED <<stay, room>>
    BY <2>2 DEF ChangeDates
  <2>3. ASSUME NEW i, NEW status, ReleaseReservation(i, status)
        PROVE  UNCHANGED <<stay, room>>
    BY <2>3 DEF ReleaseReservation
  <2> QED
    BY <1>1, <2>1, <2>2, <2>3 DEF Reservations
<1>2. ASSUME FrontOffice PROVE UNCHANGED <<stay, room>>
  <2>1. ASSUME NEW i, NEW dep, ExtendStay(i, dep) PROVE UNCHANGED <<stay, room>>
    BY <2>1 DEF ExtendStay
  <2>2. ASSUME NEW k, NEW i, BeginCheckOut(k, i) PROVE UNCHANGED <<stay, room>>
    BY <2>2 DEF BeginCheckOut
  <2>3. ASSUME NEW k, NEW i, NEW r, NEW accept, AskCheckIn(k, i, r, accept)
        PROVE  UNCHANGED <<stay, room>>
    BY <2>3 DEF AskCheckIn
  <2>4. ASSUME NEW k, NEW i, NEW r, NEW accept, AskMove(k, i, r, accept)
        PROVE  UNCHANGED <<stay, room>>
    BY <2>4 DEF AskMove
  <2> QED
    BY <1>2, <2>1, <2>2, <2>3, <2>4 DEF FrontOffice
<1>3. ASSUME Finishes PROVE UNCHANGED <<stay, room>>
  BY <1>3 DEF Finishes, Rollback
<1>4. ASSUME Service PROVE UNCHANGED stay /\ \A r \in Rooms : room'[r].fo = room[r].fo
  BY <1>4, RoomsAssumption, ServiceFrame DEF Service
<1>5. ASSUME Housekeeping PROVE UNCHANGED stay /\ \A r \in Rooms : room'[r].fo = room[r].fo
  BY <1>5, HousekeepingFrame
<1>6. ASSUME NEW auto \in BOOLEAN, Roll(auto)
      PROVE  UNCHANGED stay /\ \A r \in Rooms : room'[r].fo = room[r].fo
  BY <1>6 DEF Roll, RolledRoom
<1>7. CASE UNCHANGED vars
  BY <1>7 DEF vars
<1> QED
  BY <1>1, <1>2, <1>3, <1>4, <1>5, <1>6, <1>7 DEF Next

\* A move out of a room, with what is in it.
LEMMA MoveFacts ==
  ASSUME DeskInv, NEW k \in Clerks, MoveRoom(k)
  PROVE  \E i \in Stays, from, to \in Rooms :
           /\ InHouse(i) /\ stay[i].room = from /\ from # to /\ Unoccupied(to)
           /\ stay' = [stay EXCEPT ![i].room = to] /\ stay[i] \in Stay
           /\ room'[from].fo = "VACANT" /\ room'[from].hk = "DIRTY" /\ room'[to].fo = "OCCUPIED"
           /\ \A s \in Rooms \ {from, to} : room'[s].fo = room[s].fo
           /\ task'[from] \in OpenTasks
<1>1. PICK i, from, to : i = tx[k].stay /\ from = stay[i].room /\ to = tx[k].room
  OBVIOUS
<1>2. i \in Stays /\ to \in Rooms /\ InHouse(i) /\ from # to
  BY <1>1 DEF MoveRoom, DeskInv, Locked, Pending
<1>3. from \in Rooms /\ stay[i] \in Stay
  BY <1>1, <1>2 DEF DeskInv, Agree, TypeOK
<1>4. /\ stay' = [stay EXCEPT ![i].room = to]
      /\ room' = [room EXCEPT ![from].fo = "VACANT", ![from].hk = "DIRTY", ![to].fo = "OCCUPIED"]
      /\ task' = [task EXCEPT ![from] = Queued(task[from])]
      /\ Unoccupied(to)
  BY <1>1 DEF MoveRoom
<1>5. /\ room'[from].fo = "VACANT" /\ room'[from].hk = "DIRTY" /\ room'[to].fo = "OCCUPIED"
      /\ \A s \in Rooms \ {from, to} : room'[s].fo = room[s].fo
  BY <1>2, <1>3, <1>4 DEF DeskInv, TypeOK, RoomRow
<1>6. task'[from] \in OpenTasks
  BY <1>3, <1>4, QueuedType DEF DeskInv, TypeOK
<1> QED
  BY <1>1, <1>2, <1>3, <1>4, <1>5, <1>6

\* A check-out: what it read of the task is what it writes over.
LEMMA CheckOutFacts ==
  ASSUME DeskInv, NEW k \in Clerks, CheckOut(k)
  PROVE  \E i \in Stays, r \in Rooms :
           /\ InHouse(i) /\ stay[i].room = r
           /\ stay' = [stay EXCEPT ![i].status = "CHECKED_OUT"] /\ stay[i] \in Stay
           /\ room'[r].fo = "VACANT" /\ room'[r].hk = "DIRTY"
           /\ \A s \in Rooms \ {r} : room'[s].fo = room[s].fo
           /\ task'[r] \in OpenTasks
<1>1. PICK i, r : i = tx[k].stay /\ r = tx[k].room
  OBVIOUS
<1>2. /\ i \in Stays /\ r \in Rooms /\ InHouse(i) /\ stay[i].room = r /\ stay[i] \in Stay
      /\ task[r] = tx[k].task
  BY <1>1 DEF CheckOut, Saved, DeskInv, Locked, Pending, TypeOK
<1>3. /\ stay' = [stay EXCEPT ![i].status = "CHECKED_OUT"]
      /\ room' = [room EXCEPT ![r].fo = "VACANT", ![r].hk = "DIRTY"]
      /\ task'[r] = IF tx[k].task \in OpenTasks THEN task[r] ELSE Queued(task[r])
  BY <1>1, <1>2 DEF CheckOut, DeskInv, TypeOK
<1>4. /\ room'[r].fo = "VACANT" /\ room'[r].hk = "DIRTY"
      /\ \A s \in Rooms \ {r} : room'[s].fo = room[s].fo
  BY <1>2, <1>3 DEF DeskInv, TypeOK, RoomRow
<1>5. task'[r] \in OpenTasks
  BY <1>2, <1>3, QueuedType
<1> QED
  BY <1>2, <1>3, <1>4, <1>5

\* A check-in, and a check-in reversed.
LEMMA CheckInFacts ==
  ASSUME DeskInv, NEW k \in Clerks, CheckIn(k)
  PROVE  \E i \in Stays, r \in Rooms :
           /\ ~InHouse(i) /\ stay[i].status # "CHECKED_OUT" /\ Unoccupied(r)
           /\ stay' = [stay EXCEPT ![i] = [status |-> "IN_HOUSE", room |-> r, since |-> date]]
           /\ room'[r].fo = "OCCUPIED" /\ \A s \in Rooms \ {r} : room'[s].fo = room[s].fo
<1>1. PICK i, r : i = tx[k].stay /\ r = tx[k].room
  OBVIOUS
<1>2. i \in Stays /\ r \in Rooms /\ ~InHouse(i) /\ stay[i].status # "CHECKED_OUT"
  BY <1>1 DEF CheckIn, DeskInv, Locked, Pending, Agree
<1>3. /\ Unoccupied(r)
      /\ stay' = [stay EXCEPT ![i] = [status |-> "IN_HOUSE", room |-> r, since |-> date]]
      /\ room' = [room EXCEPT ![r].fo = "OCCUPIED"]
  BY <1>1 DEF CheckIn
<1>4. room'[r].fo = "OCCUPIED" /\ \A s \in Rooms \ {r} : room'[s].fo = room[s].fo
  BY <1>2, <1>3 DEF DeskInv, TypeOK, RoomRow
<1> QED
  BY <1>2, <1>3, <1>4

LEMMA ReverseFacts ==
  ASSUME DeskInv, NEW i \in Stays, NEW release \in BOOLEAN, ReverseCheckIn(i, release)
  PROVE  \E r \in Rooms :
           /\ InHouse(i) /\ stay[i].room = r
           /\ stay' = [stay EXCEPT ![i] = NoStay]
           /\ room'[r].fo = "VACANT" /\ \A s \in Rooms \ {r} : room'[s].fo = room[s].fo
<1>1. PICK r : r = stay[i].room
  OBVIOUS
<1>2. r \in Rooms /\ InHouse(i)
  BY <1>1 DEF ReverseCheckIn, DeskInv, Agree
<1>3. stay' = [stay EXCEPT ![i] = NoStay] /\ room' = [room EXCEPT ![r].fo = "VACANT"]
  BY <1>1 DEF ReverseCheckIn
<1>4. room'[r].fo = "VACANT" /\ \A s \in Rooms \ {r} : room'[s].fo = room[s].fo
  BY <1>2, <1>3 DEF DeskInv, TypeOK, RoomRow
<1> QED
  BY <1>1, <1>2, <1>3, <1>4

LEMMA LeavesStep ==
  ASSUME DeskInv, [Next]_vars, NEW i \in Stays, Leaves(i)
  PROVE  LET r == stay[i].room
         IN room'[r].fo = "VACANT" /\ room'[r].hk = "DIRTY" /\ task'[r] \in OpenTasks
<1>1. stay \in [Stays -> Stay]
  BY DEF DeskInv, TypeOK
<1>2. ASSUME NEW k \in Clerks, MoveRoom(k)
      PROVE  room'[stay[i].room].fo = "VACANT" /\ room'[stay[i].room].hk = "DIRTY"
             /\ task'[stay[i].room] \in OpenTasks
  BY <1>1, <1>2, MoveFacts DEF Leaves, InHouse
<1>3. ASSUME NEW k \in Clerks, CheckOut(k)
      PROVE  room'[stay[i].room].fo = "VACANT" /\ room'[stay[i].room].hk = "DIRTY"
             /\ task'[stay[i].room] \in OpenTasks
  BY <1>1, <1>3, CheckOutFacts DEF Leaves, InHouse
<1>4. ASSUME NEW k \in Clerks, CheckIn(k) PROVE FALSE
  BY <1>1, <1>4, CheckInFacts DEF Leaves, InHouse
<1>5. ASSUME NEW j \in Stays, NEW release \in BOOLEAN, ReverseCheckIn(j, release) PROVE FALSE
  BY <1>1, <1>5, ReverseFacts DEF Leaves, InHouse, NoStay
<1>6. CASE UNCHANGED stay
  BY <1>6 DEF Leaves, InHouse
<1> QED
  BY <1>2, <1>3, <1>4, <1>5, <1>6, AsideStep

\* A room a guest leaves is vacant, dirty and queued for cleaning, whatever housekeeping did
\* to its task meanwhile.
THEOREM DeskLeftRoomQueued == Spec => LeftRoomQueued
<1>1. DeskInv /\ [Next]_vars =>
        [\A i \in Stays : Leaves(i) =>
           LET r == stay[i].room
           IN room'[r].fo = "VACANT" /\ room'[r].hk = "DIRTY" /\ task'[r] \in OpenTasks]_vars
  BY LeavesStep
<1> QED
  BY <1>1, DeskAlways, PTL DEF Spec, LeftRoomQueued

----------------------------------------------------------------------------
(* The front desk implements Lodging.                                       *)

LEMMA LodgingInit == Init => Lodgings!Init
<1> SUFFICES ASSUME Init PROVE Lodgings!Init
  OBVIOUS
<1>1. NoStay.status = "NONE"
  BY DEF NoStay
<1>2. \A i \in Stays : ~InHouse(i) /\ stay[i].status # "CHECKED_OUT"
  BY <1>1 DEF Init, InHouse
<1>3. \A r \in Rooms : room[r].fo = "VACANT"
  BY DEF Init
<1> QED
  BY <1>2, <1>3 DEF Lodgings!Init

\* What Lodging sees: where the guests are, the occupied rooms, who has left.
Where == [i \in Stays |-> IF InHouse(i) THEN stay[i].room ELSE None]
OccupiedRooms == {r \in Rooms : room[r].fo = "OCCUPIED"}
Departed == {i \in Stays : stay[i].status = "CHECKED_OUT"}

LEMMA WhereStep ==
  ASSUME NEW i \in Stays, NEW x, Where'[i] = x, \A j \in Stays \ {i} : stay'[j] = stay[j]
  PROVE  Where' = [Where EXCEPT ![i] = x]
<1>1. DOMAIN Where = Stays /\ DOMAIN Where' = Stays
  BY DEF Where
<1>2. Where' = [j \in Stays |-> Where'[j]]
  BY DEF Where
<1>3. \A j \in Stays \ {i} : Where'[j] = Where[j]
  BY DEF Where, InHouse
<1> QED
  BY <1>1, <1>2, <1>3

LEMMA LodgingStep == DeskInv /\ [Next]_vars => [Lodgings!Next]_(Lodgings!vars)
<1> SUFFICES ASSUME DeskInv, [Next]_vars PROVE [Lodgings!Next]_(Lodgings!vars)
  OBVIOUS
<1>1. stay \in [Stays -> Stay] /\ room \in [Rooms -> RoomRow]
  BY DEF DeskInv, TypeOK
<1>2. Doors /\ None \notin Rooms
  BY NoneAssumption DEF DeskInv
<1>3. ASSUME NEW k \in Clerks, CheckIn(k) PROVE Lodgings!Next
  <2>1. PICK i \in Stays, r \in Rooms :
           /\ ~InHouse(i) /\ stay[i].status # "CHECKED_OUT" /\ Unoccupied(r)
           /\ stay' = [stay EXCEPT ![i] = [status |-> "IN_HOUSE", room |-> r, since |-> date]]
           /\ room'[r].fo = "OCCUPIED" /\ \A s \in Rooms \ {r} : room'[s].fo = room[s].fo
    BY <1>3, CheckInFacts
  <2>2. room[r].fo # "OCCUPIED"
    BY <1>2, <2>1 DEF Doors, Unoccupied
  <2>3. /\ stay'[i].status = "IN_HOUSE" /\ stay'[i].room = r
        /\ \A j \in Stays \ {i} : stay'[j] = stay[j]
    BY <1>1, <2>1
  <2>4. Where'[i] = r /\ Where[i] = None
    BY <2>1, <2>3 DEF Where, InHouse
  <2>5. Where' = [Where EXCEPT ![i] = r]
    BY <2>3, <2>4, WhereStep
  <2>6. OccupiedRooms' = OccupiedRooms \cup {r} /\ r \notin OccupiedRooms
    BY <2>1, <2>2 DEF OccupiedRooms
  <2>7. Departed' = Departed /\ i \notin Departed
    BY <2>1, <2>3 DEF Departed
  <2>8. Lodgings!Arrive(i, r)
    BY <2>5, <2>6, <2>7, <2>4 DEF Lodgings!Arrive, Where, OccupiedRooms, Departed
  <2> QED
    BY <2>8 DEF Lodgings!Next
<1>4. ASSUME NEW k \in Clerks, MoveRoom(k) PROVE Lodgings!Next
  <2>1. PICK i \in Stays, from \in Rooms, to \in Rooms :
           /\ InHouse(i) /\ stay[i].room = from /\ from # to /\ Unoccupied(to)
           /\ stay' = [stay EXCEPT ![i].room = to] /\ stay[i] \in Stay
           /\ room'[from].fo = "VACANT" /\ room'[to].fo = "OCCUPIED"
           /\ \A s \in Rooms \ {from, to} : room'[s].fo = room[s].fo
    BY <1>4, MoveFacts
  <2>2. room[to].fo # "OCCUPIED"
    BY <1>2, <2>1 DEF Doors, Unoccupied
  <2>3. stay'[i].status = "IN_HOUSE" /\ stay'[i].room = to /\ \A j \in Stays \ {i} : stay'[j] = stay[j]
    BY <1>1, <2>1 DEF InHouse, Stay
  <2>4. Where'[i] = to /\ Where[i] = from
    BY <2>1, <2>3 DEF Where, InHouse
  <2>5. Where' = [Where EXCEPT ![i] = to]
    BY <2>3, <2>4, WhereStep
  <2>6. OccupiedRooms' = (OccupiedRooms \ {Where[i]}) \cup {to} /\ to \notin OccupiedRooms
    BY <2>1, <2>2, <2>4 DEF OccupiedRooms
  <2>7. Departed' = Departed
    BY <2>1, <2>3 DEF Departed, InHouse
  <2>8. Lodgings!Move(i, to)
    BY <1>2, <2>5, <2>6, <2>7, <2>4 DEF Lodgings!Move, Where, OccupiedRooms, Departed
  <2> QED
    BY <2>8 DEF Lodgings!Next
<1>5. ASSUME NEW k \in Clerks, CheckOut(k) PROVE Lodgings!Next
  <2>1. PICK i \in Stays, r \in Rooms :
           /\ InHouse(i) /\ stay[i].room = r
           /\ stay' = [stay EXCEPT ![i].status = "CHECKED_OUT"] /\ stay[i] \in Stay
           /\ room'[r].fo = "VACANT" /\ \A s \in Rooms \ {r} : room'[s].fo = room[s].fo
    BY <1>5, CheckOutFacts
  <2>2. stay'[i].status = "CHECKED_OUT" /\ \A j \in Stays \ {i} : stay'[j] = stay[j]
    BY <1>1, <2>1 DEF Stay
  <2>3. Where'[i] = None /\ Where[i] = r
    BY <2>1, <2>2 DEF Where, InHouse
  <2>4. Where' = [Where EXCEPT ![i] = None]
    BY <2>2, <2>3, WhereStep
  <2>5. OccupiedRooms' = OccupiedRooms \ {Where[i]}
    BY <2>1, <2>3 DEF OccupiedRooms
  <2>6. Departed' = Departed \cup {i}
    BY <2>1, <2>2 DEF Departed, InHouse
  <2>7. Lodgings!Leave(i)
    BY <1>2, <2>4, <2>5, <2>6, <2>3 DEF Lodgings!Leave, Lodgings!Go, Where, OccupiedRooms, Departed
  <2> QED
    BY <2>7 DEF Lodgings!Next
<1>6. ASSUME NEW i \in Stays, NEW release \in BOOLEAN, ReverseCheckIn(i, release) PROVE Lodgings!Next
  <2>1. PICK r \in Rooms :
           /\ InHouse(i) /\ stay[i].room = r
           /\ stay' = [stay EXCEPT ![i] = NoStay]
           /\ room'[r].fo = "VACANT" /\ \A s \in Rooms \ {r} : room'[s].fo = room[s].fo
    BY <1>6, ReverseFacts
  <2>2. stay'[i].status = "NONE" /\ \A j \in Stays \ {i} : stay'[j] = stay[j]
    BY <1>1, <2>1 DEF NoStay
  <2>3. Where'[i] = None /\ Where[i] = r
    BY <2>1, <2>2 DEF Where, InHouse
  <2>4. Where' = [Where EXCEPT ![i] = None]
    BY <2>2, <2>3, WhereStep
  <2>5. OccupiedRooms' = OccupiedRooms \ {Where[i]}
    BY <2>1, <2>3 DEF OccupiedRooms
  <2>6. Departed' = Departed
    BY <2>1, <2>2 DEF Departed, InHouse
  <2>7. Lodgings!Undo(i)
    BY <1>2, <2>4, <2>5, <2>6, <2>3 DEF Lodgings!Undo, Lodgings!Go, Where, OccupiedRooms, Departed
  <2> QED
    BY <2>7 DEF Lodgings!Next
<1>7. CASE UNCHANGED stay /\ \A r \in Rooms : room'[r].fo = room[r].fo
  BY <1>7 DEF Lodgings!vars, InHouse
<1> QED
  BY <1>3, <1>4, <1>5, <1>6, <1>7, AsideStep

\* The front desk keeps what Lodging promises, for any number of rooms and guests.
THEOREM DeskImplementsLodging == Spec => ImplementsLodging
BY LodgingInit, LodgingStep, DeskAlways, PTL DEF Spec, ImplementsLodging, Lodgings!Spec
=============================================================================
