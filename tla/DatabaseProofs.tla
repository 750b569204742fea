--------------------------- MODULE DatabaseProofs ---------------------------
(***************************************************************************)
(* What the row locks and the conditional updates of the database give.       *)
(* First, a circle of waiting transactions, for any number of clients and     *)
(* rows: while its plan ascends, a transaction waits for a lock that ranks    *)
(* above all it holds, so the one that waits for the highest lock waits for   *)
(* nobody in the circle.  Then the account of a user: what a request has      *)
(* read between its transactions it looks at again with the row locked, and   *)
(* keeps until it commits.  Last, the session of several tabs: only one of    *)
(* them replaces a token, and the others come in time.                        *)
(***************************************************************************)
EXTENDS MCDatabase, JobQueueProofs, WellFoundedInduction, TLAPS

\* The order in which kinds of rows are locked.
Place ==
  [date |-> 1, key |-> 2, request |-> 3, resroom |-> 4, stay |-> 5, group |-> 6, block |-> 7,
   rates |-> 8, serviceBlock |-> 9, cell |-> 10, seq |-> 11, room |-> 12, task |-> 13,
   folio |-> 14, payment |-> 15]

Top == MaxRow + 4

Numbers == 0..Top

\* The phases name known kinds of rows, by numbers there are.
Shaped(p) ==
  /\ DOMAIN p \subseteq Nat
  /\ \A k \in DOMAIN p : p[k].rows \subseteq Numbers /\ Place[p[k].kind] \in 1..15

\* And each kind is locked in one phase, after those that come before it.
Ordered(p) ==
  /\ DOMAIN p \subseteq Nat
  /\ \A k \in DOMAIN p : p[k].rows \subseteq Numbers /\ Place[p[k].kind] \in 1..15
  /\ \A j, k \in DOMAIN p : j < k => Place[p[j].kind] < Place[p[k].kind]

LEMMA RowNumbers ==
  /\ Top \in Nat /\ 1 \in Numbers /\ 2 \in Numbers /\ 3 \in Numbers /\ 4 \in Numbers
  /\ Stays \subseteq Numbers /\ Rooms \subseteq Numbers /\ Cells \subseteq Numbers
  /\ Blocks \subseteq Numbers /\ RatePlans \subseteq Numbers /\ Keys \subseteq Numbers
  /\ \A s \in OptionalSpans : s \subseteq Numbers
  /\ Spans \subseteq OptionalSpans
<1>1. /\ MaxRow \in Nat /\ Stays \cup Rooms \cup Cells \cup Blocks \cup RatePlans \cup Keys \subseteq 1..MaxRow
      /\ \A s \in Spans : s \subseteq Cells
  BY RowsAssumption
<1>2. \A x \in 1..MaxRow : x \in Numbers
  BY <1>1 DEF Top, Numbers
<1> QED
  BY <1>1, <1>2 DEF OptionalSpans, Top, Numbers

USE DEF Phase, Update, Share, KeyShare, OpenDate, Priced

LEMMA StayPlans == \A p \in StayCommands : Ordered(p)
<1>1. ASSUME NEW i \in Stays, NEW s \in Spans
      PROVE  Ordered(ConfirmReservation(i, s))
  BY RowNumbers DEF Ordered, Place, ConfirmReservation
<1>2. ASSUME NEW i \in Stays, NEW s \in Spans, NEW q \in SUBSET Rooms
      PROVE  Ordered(UpdateReservationRoom(i, s, q))
  BY RowNumbers DEF Ordered, Place, UpdateReservationRoom
<1>3. ASSUME NEW i \in Stays, NEW s \in Spans
      PROVE  Ordered(ReleaseReservation(i, s))
  BY RowNumbers DEF Ordered, Place, ReleaseReservation
<1>4. ASSUME NEW i \in Stays, NEW q \in SUBSET Blocks, NEW s \in Spans
      PROVE  Ordered(ReinstateReservation(i, q, s))
  BY RowNumbers DEF Ordered, Place, ReinstateReservation
<1>5. ASSUME NEW i \in Stays
      PROVE  Ordered(ReservationPackage(i))
  BY RowNumbers DEF Ordered, Place, ReservationPackage
<1>6. ASSUME NEW i \in Stays, NEW q \in SUBSET Rooms
      PROVE  Ordered(AssignRoom(i, q))
  BY RowNumbers DEF Ordered, Place, AssignRoom
<1>7. ASSUME NEW i \in Stays, NEW r \in Rooms
      PROVE  Ordered(CheckIn(i, r))
  BY RowNumbers DEF Ordered, Place, CheckIn
<1>8. ASSUME NEW i \in Stays, NEW r \in Rooms
      PROVE  Ordered(ReverseCheckIn(i, r))
  BY RowNumbers DEF Ordered, Place, ReverseCheckIn
<1>9. ASSUME NEW i \in Stays, NEW r \in Rooms, NEW t \in Rooms
      PROVE  Ordered(MoveRoom(i, r, t))
  BY RowNumbers DEF Ordered, Place, MoveRoom
<1>10. ASSUME NEW i \in Stays, NEW s \in OptionalSpans, NEW r \in Rooms
      PROVE  Ordered(CheckOut(i, s, r))
  BY RowNumbers DEF Ordered, Place, CheckOut
<1>11. ASSUME NEW i \in Stays, NEW s \in Spans, NEW r \in Rooms
      PROVE  Ordered(ExtendStay(i, s, r))
  BY RowNumbers DEF Ordered, Place, ExtendStay
<1> QED
  BY <1>1, <1>2, <1>3, <1>4, <1>5, <1>6, <1>7, <1>8, <1>9, <1>10, <1>11 DEF StayCommands, Optional, ReinstateNoShow

LEMMA HousePlans == \A p \in HouseCommands : Ordered(p)
<1>1. ASSUME NEW q \in SUBSET Keys, NEW s \in Spans, NEW t \in SUBSET Rooms
      PROVE  Ordered(CreateReservation(q, s, t))
  BY RowNumbers DEF Ordered, Place, CreateReservation
<1>2. ASSUME NEW q \in SUBSET Keys, NEW s \in Spans, NEW r \in Rooms
      PROVE  Ordered(WalkIn(q, s, r))
  BY RowNumbers DEF Ordered, Place, WalkIn, CreateReservation
<1>3. ASSUME NEW s \in OptionalSpans, NEW r \in Rooms
      PROVE  Ordered(BlockRequestRoom(s, r))
  BY RowNumbers DEF Ordered, Place, BlockRequestRoom, PlaceServiceBlock
<1>4. ASSUME NEW s \in OptionalSpans, NEW r \in Rooms
      PROVE  Ordered(ResolveRequest(s, r))
  BY RowNumbers DEF Ordered, Place, ResolveRequest, ReleaseServiceBlock
<1>5. ASSUME NEW q \in SUBSET Rooms, NEW s \in OptionalSpans, NEW r \in Rooms
      PROVE  Ordered(PlaceServiceBlock(q, s, r))
  BY RowNumbers DEF Ordered, Place, PlaceServiceBlock
<1>6. ASSUME NEW q \in SUBSET Rooms, NEW s \in OptionalSpans, NEW r \in Rooms
      PROVE  Ordered(ReleaseServiceBlock(q, s, r))
  BY RowNumbers DEF Ordered, Place, ReleaseServiceBlock
<1>7. ASSUME NEW r \in Rooms
      PROVE  Ordered(CreateTask(r))
  BY RowNumbers DEF Ordered, Place, CreateTask
<1>8. ASSUME NEW r \in Rooms
      PROVE  Ordered(WorkTask(r))
  BY RowNumbers DEF Ordered, Place, WorkTask
<1>9. ASSUME NEW r \in Rooms
      PROVE  Ordered(AssignTask(r))
  BY RowNumbers DEF Ordered, Place, AssignTask
<1>10. ASSUME NEW r \in Rooms
      PROVE  Ordered(WorkRequest(r))
  BY RowNumbers DEF Ordered, Place, WorkRequest
<1>11. ASSUME NEW r \in Rooms
      PROVE  Ordered(AddNote(r))
  BY RowNumbers DEF Ordered, Place, AddNote
<1>12. ASSUME NEW r \in Rooms
      PROVE  Ordered(CreateRequest(r))
  BY RowNumbers DEF Ordered, Place, CreateRequest
<1>13. Ordered(CreateRooms)
  BY RowNumbers DEF Ordered, Place, CreateRooms
<1> QED
  BY <1>1, <1>2, <1>3, <1>4, <1>5, <1>6, <1>7, <1>8, <1>9, <1>10, <1>11, <1>12, <1>13 DEF HouseCommands, Optional, InspectRoom, SetRoomHousekeeping,
         CloseTask, ManageRequest

LEMMA GroupPlans == \A p \in GroupCommands : Ordered(p)
<1>1. Ordered(UpdateGroup)
  BY RowNumbers DEF Ordered, Place, UpdateGroup
<1>2. Ordered(CloseGroup)
  BY RowNumbers DEF Ordered, Place, CloseGroup
<1>3. ASSUME NEW s \in Spans
      PROVE  Ordered(CreateBlock(s))
  BY RowNumbers DEF Ordered, Place, CreateBlock
<1>4. ASSUME NEW b \in Blocks, NEW s \in Spans
      PROVE  Ordered(SetAllocation(b, s))
  BY RowNumbers DEF Ordered, Place, SetAllocation
<1>5. ASSUME NEW k \in Keys, NEW b \in Blocks, NEW s \in Spans
      PROVE  Ordered(ReleaseBlock(k, b, s))
  BY RowNumbers DEF Ordered, Place, ReleaseBlock
<1>6. ASSUME NEW q \in SUBSET RatePlans
      PROVE  Ordered(CreateRatePlan(q))
  BY RowNumbers DEF Ordered, Place, CreateRatePlan
<1> QED
  BY <1>1, <1>2, <1>3, <1>4, <1>5, <1>6 DEF GroupCommands, Optional, ChangeBlockStatus, ChangeSeasons

LEMMA MoneyPlans == \A p \in MoneyCommands : Ordered(p)
<1>1. ASSUME NEW k \in Keys, NEW i \in Stays
      PROVE  Ordered(PostCharge(k, i))
  BY RowNumbers DEF Ordered, Place, PostCharge
<1>2. ASSUME NEW k \in Keys, NEW i \in Stays
      PROVE  Ordered(PostRoomCharges(k, i))
  BY RowNumbers DEF Ordered, Place, PostRoomCharges
<1>3. ASSUME NEW i \in Stays
      PROVE  Ordered(OpenWindow(i))
  BY RowNumbers DEF Ordered, Place, OpenWindow
<1>4. ASSUME NEW i \in Stays
      PROVE  Ordered(SettleFolio(i))
  BY RowNumbers DEF Ordered, Place, SettleFolio
<1>5. ASSUME NEW k \in Keys, NEW i \in Stays
      PROVE  Ordered(PostPayment(k, i))
  BY RowNumbers DEF Ordered, Place, PostPayment
<1>6. ASSUME NEW k \in Keys, NEW i \in Stays
      PROVE  Ordered(VoidPayment(k, i))
  BY RowNumbers DEF Ordered, Place, VoidPayment
<1>7. ASSUME NEW k \in Keys
      PROVE  Ordered(StartNightAudit(k))
  BY RowNumbers DEF Ordered, Place, StartNightAudit
<1>8. Ordered(FailRun)
  BY RowNumbers DEF Ordered, Place, FailRun
<1> QED
  BY <1>1, <1>2, <1>3, <1>4, <1>5, <1>6, <1>7, <1>8 DEF MoneyCommands, Optional, ReverseItem, AdjustItem, RefundPayment

LEMMA InvertedPlans == \A p \in Inverted : Shaped(p)
<1>1. ASSUME NEW a \in Blocks, NEW s \in Spans, NEW b \in Blocks, NEW t \in Spans
      PROVE  Shaped(CancelGroup(a, s, b, t))
  BY RowNumbers DEF Shaped, Place, CancelGroup
<1>2. ASSUME NEW k \in Keys, NEW b \in Blocks, NEW s \in Spans
      PROVE  Shaped(Pickup(k, b, s))
  BY RowNumbers DEF Shaped, Place, Pickup
<1>3. ASSUME NEW q \in SUBSET RatePlans, NEW t \in SUBSET RatePlans
      PROVE  Shaped(UpdateRatePlan(q, t))
  BY RowNumbers DEF Shaped, Place, UpdateRatePlan
<1>4. ASSUME NEW s \in OptionalSpans, NEW r \in Rooms
      PROVE  Shaped(CreateBlockingRequest(s, r))
  BY RowNumbers DEF Shaped, Place, CreateBlockingRequest, CreateRequest
<1>5. ASSUME NEW r \in Rooms
      PROVE  Shaped(UpdateRoom(r))
  BY RowNumbers DEF Shaped, Place, UpdateRoom
<1>6. ASSUME NEW s \in OptionalSpans, NEW b \in Blocks, NEW t \in OptionalSpans
      PROVE  Shaped(CommitNightAudit(s, b, t))
  BY RowNumbers DEF Shaped, Place, CommitNightAudit
<1> QED
  BY <1>1, <1>2, <1>3, <1>4, <1>5, <1>6 DEF Inverted, Optional, Commits

LEMMA PlansShaped ==
  ASSUME LockTypeOK, NEW c \in Clients
  PROVE  /\ Shaped(plan[c])
         /\ plan[c] \in Orderly => Ordered(plan[c])
<1>1. ASSUME NEW p, Ordered(p) PROVE Shaped(p)
  BY <1>1, Zenon DEF Ordered, Shaped
<1>2. \A p \in Orderly : Ordered(p)
  BY StayPlans, HousePlans, GroupPlans, MoneyPlans DEF Orderly
<1>3. Shaped(<<>>)
  BY DEF Shaped
<1>4. plan[c] \in Orderly \cup Inverted \cup {<<>>}
  BY DEF LockTypeOK
<1> QED
  BY <1>1, <1>2, <1>3, <1>4, InvertedPlans

\* A transaction holds nothing that comes after the lock it wants.
LEMMA TakenBefore ==
  ASSUME LockTypeOK, NEW c \in Clients, NEW k, NEW n, Wants(c, k, n), NEW t \in taken[c]
  PROVE  /\ t[1] \in DOMAIN plan[c] /\ t[2] \in plan[c][t[1]].rows
         /\ t[1] \in Nat /\ t[2] \in Nat /\ k \in Nat /\ n \in Nat
         /\ t[1] < k \/ (t[1] = k /\ t[2] < n)
<1>1. /\ t[1] \in DOMAIN plan[c] /\ t[2] \in plan[c][t[1]].rows
      /\ \A j \in DOMAIN plan[c] : \A m \in plan[c][j].rows :
           j < t[1] \/ (j = t[1] /\ m < t[2]) => <<j, m>> \in taken[c]
  BY DEF LockTypeOK
<1>2. k \in DOMAIN plan[c] /\ n \in plan[c][k].rows /\ <<k, n>> \notin taken[c]
  BY DEF Wants
<1>3. taken[c] \in SUBSET (Nat \X Nat)
  BY DEF LockTypeOK
<1>4. t = <<t[1], t[2]>> /\ t[1] \in Nat /\ t[2] \in Nat
  BY <1>3
<1>5. k \in Nat /\ n \in Nat
  BY <1>2, PlansShaped, RowNumbers DEF Shaped, Numbers
<1>6. ~(k < t[1] \/ (k = t[1] /\ n < t[2]))
  BY <1>1, <1>2
<1>7. ~(k = t[1] /\ n = t[2])
  BY <1>2, <1>4
<1> QED
  BY <1>1, <1>4, <1>5, <1>6, <1>7

Rank(kind, n) == Place[kind] * (Top + 1) + n

LEMMA RankGrows ==
  ASSUME NEW a \in Nat, NEW b \in Nat, NEW x \in 0..Top, NEW y \in 0..Top, a < b
  PROVE  a * (Top + 1) + x < b * (Top + 1) + y
<1>1. Top \in Nat
  BY RowNumbers
<1>2. PICK d \in Nat : b = a + 1 + d
  <2>1. b - a - 1 \in Nat /\ b = a + 1 + (b - a - 1)
    OBVIOUS
  <2> QED
    BY <2>1
<1>3. d * (Top + 1) \in Nat /\ a * (Top + 1) \in Nat
  BY <1>1
<1>4. b * (Top + 1) = a * (Top + 1) + (Top + 1) + d * (Top + 1)
  BY <1>1, <1>2
<1> QED
  BY <1>1, <1>3, <1>4

\* Along an ascending plan the lock wanted ranks above every lock held.
LEMMA WantedAbove ==
  ASSUME LockTypeOK, NEW c \in Clients, plan[c] \in Orderly,
         NEW k, NEW n, Wants(c, k, n), NEW t \in taken[c]
  PROVE  Rank(plan[c][t[1]].kind, t[2]) < Rank(plan[c][k].kind, n)
<1>1. Ordered(plan[c])
  BY PlansShaped
<1>2. k \in DOMAIN plan[c] /\ n \in plan[c][k].rows
  BY DEF Wants
<1>3. /\ t[1] \in DOMAIN plan[c] /\ t[2] \in plan[c][t[1]].rows
      /\ t[1] \in Nat /\ t[2] \in Nat /\ k \in Nat /\ n \in Nat
      /\ t[1] < k \/ (t[1] = k /\ t[2] < n)
  BY TakenBefore
<1> DEFINE a == Place[plan[c][t[1]].kind]
           b == Place[plan[c][k].kind]
<1>4. a \in 1..15 /\ b \in 1..15 /\ t[2] \in 0..Top /\ n \in 0..Top
  BY <1>1, <1>2, <1>3 DEF Ordered, Numbers
<1>5. a * (Top + 1) + t[2] < b * (Top + 1) + n
  <2>1. CASE t[1] < k
    <3>1. a < b
      BY <1>1, <1>2, <1>3, <2>1 DEF Ordered
    <3> HIDE DEF a, b
    <3> QED
      BY <1>4, <3>1, RankGrows
  <2>2. CASE t[1] = k /\ t[2] < n
    <3>1. a = b
      BY <2>2
    <3> HIDE DEF a, b
    <3> QED
      BY <1>3, <1>4, <2>2, <3>1, RowNumbers
  <2> QED
    BY <1>3, <2>1, <2>2
<1> QED
  BY <1>5 DEF Rank

\* Whoever waits in a circle of ordered plans is waited for by nobody in it: of the locks
\* wanted, one ranks highest.
LEMMA NoCircle ==
  ASSUME LockTypeOK, NEW S \in SUBSET Clients, \A c \in S : plan[c] \in Orderly
  PROVE  ~Deadlocked(S)
<1> SUFFICES ASSUME Deadlocked(S) PROVE FALSE
  OBVIOUS
<1> DEFINE Height == 16 * (Top + 1)
           Gap(kind, n) == Height - Rank(kind, n)
           Hit(c, d, k, n) ==
             /\ k \in DOMAIN plan[c] /\ n \in plan[c][k].rows
             /\ Wants(c, k, n) /\ Excludes(d, plan[c][k].kind, n, plan[c][k].mode)
           Gaps == {g \in Nat : \E c \in S, d \in S : \E k, n : Hit(c, d, k, n) /\ g = Gap(plan[c][k].kind, n)}
<1>1. \A d \in S : \E e \in S : \E k, n : Hit(d, e, k, n)
  BY DEF Deadlocked, WaitsFor
<1>2. ASSUME NEW c \in S, NEW d \in S, NEW k, NEW n, Hit(c, d, k, n)
      PROVE  Gap(plan[c][k].kind, n) \in Nat
  <2>1. Ordered(plan[c])
    BY PlansShaped
  <2>2. Place[plan[c][k].kind] \in 1..15 /\ n \in 0..Top
    BY <1>2, <2>1 DEF Ordered, Numbers
  <2> DEFINE a == Place[plan[c][k].kind]
  <2>3. Top \in Nat
    BY RowNumbers
  <2>4. 16 - a \in Nat /\ 16 - a >= 1
    BY <2>2
  <2>5. a * (Top + 1) \in Nat /\ (15 - a) * (Top + 1) \in Nat
    BY <2>2, <2>3
  <2>6. 16 * (Top + 1) = a * (Top + 1) + (15 - a) * (Top + 1) + (Top + 1)
    BY <2>2, <2>3
  <2> HIDE DEF a
  <2>7. 16 * (Top + 1) - (a * (Top + 1) + n) \in Nat
    BY <2>2, <2>3, <2>5, <2>6
  <2> QED
    BY <2>7 DEF Rank, a
<1> HIDE DEF Hit, Gap
<1>3. Gaps # {}
  BY <1>1, <1>2 DEF Deadlocked
<1>4. PICK g \in Gaps : \A h \in Gaps : ~(<<h, g>> \in OpToRel(<, Nat))
  BY <1>3, NatLessThanWellFounded, WFMin
<1>a. PICK c \in S, d \in S : \E k, n : Hit(c, d, k, n) /\ g = Gap(plan[c][k].kind, n)
  OBVIOUS
<1>5. PICK k, n : Hit(c, d, k, n) /\ g = Gap(plan[c][k].kind, n)
  BY <1>a
<1>b. PICK e \in S : \E k1, n1 : Hit(d, e, k1, n1)
  BY <1>1
<1>6. PICK l, m : Hit(d, e, l, m)
  BY <1>b
<1>7. Gap(plan[d][l].kind, m) \in Gaps
  BY <1>2, <1>6
<1>8. Gap(plan[d][l].kind, m) < g
  <2>1. PICK t \in taken[d] : t[2] = n /\ plan[d][t[1]].kind = plan[c][k].kind
    BY <1>5 DEF Hit, Excludes
  <2>2. Wants(d, l, m)
    BY <1>6 DEF Hit
  <2>3. Rank(plan[c][k].kind, n) < Rank(plan[d][l].kind, m)
    BY <2>1, <2>2, WantedAbove
  <2> DEFINE x == Rank(plan[c][k].kind, n)
             y == Rank(plan[d][l].kind, m)
  <2>4. x \in Int /\ y \in Int /\ Height \in Int
    <3>1. Height \in Int
      BY RowNumbers
    <3>2. x \in Nat /\ y \in Nat
      BY <1>5, <1>6, RowNumbers, PlansShaped DEF Hit, Rank, Shaped, Numbers
    <3> QED
      BY <3>1, <3>2
  <2> HIDE DEF x, y, Height
  <2>5. Height - y < Height - x
    BY <2>3, <2>4 DEF x, y
  <2> QED
    BY <1>5, <2>5 DEF Gap, x, y
<1>9. g \in Nat /\ Gap(plan[d][l].kind, m) \in Nat
  BY <1>4, <1>7
<1> QED
  BY <1>4, <1>7, <1>8, <1>9 DEF OpToRel

LEMMA CircleNeedsInverted == LockTypeOK => OnlyInvertedDeadlock
<1> SUFFICES ASSUME LockTypeOK, NEW S \in SUBSET Clients, Deadlocked(S),
                    \A c \in S : plan[c] \notin Inverted
             PROVE  FALSE
  BY DEF OnlyInvertedDeadlock
<1>1. ASSUME NEW c \in S PROVE plan[c] \in Orderly
  <2>1. plan[c] # <<>>
    BY DEF Deadlocked, WaitsFor
  <2> QED
    BY <2>1 DEF LockTypeOK
<1> QED
  BY <1>1, NoCircle

LEMMA LockInitInv == LockInit => LockTypeOK
  BY DEF LockInit, LockTypeOK, MAX_ATTEMPTS

LEMMA LockStepInv == LockTypeOK /\ [LockNext]_lockVars => LockTypeOK'
<1> SUFFICES ASSUME LockTypeOK, [LockNext]_lockVars PROVE LockTypeOK'
  OBVIOUS
<1> DEFINE Locks(c) ==
       \A t \in taken[c] :
         /\ t[1] \in DOMAIN plan[c] /\ t[2] \in plan[c][t[1]].rows
         /\ \A j \in DOMAIN plan[c] : \A m \in plan[c][j].rows :
              j < t[1] \/ (j = t[1] /\ m < t[2]) => <<j, m>> \in taken[c]
<1>a. \A c \in Clients : Locks(c)
  BY DEF LockTypeOK
<1>b. /\ plan \in [Clients -> Orderly \cup Inverted \cup {<<>>}]
      /\ attempt \in [Clients -> 0..MAX_ATTEMPTS]
      /\ taken \in [Clients -> SUBSET (Nat \X Nat)]
  BY DEF LockTypeOK
<1>c. ASSUME NEW c \in Clients, taken'[c] = {} PROVE Locks(c)'
  BY <1>c
<1>d. ASSUME NEW c \in Clients, plan'[c] = plan[c], taken'[c] = taken[c] PROVE Locks(c)'
  BY <1>a, <1>d
<1>1. ASSUME NEW c \in Clients, BeginTransaction(c) PROVE LockTypeOK'
  <2>1. taken[c] = {}
    BY <1>1, <1>a DEF BeginTransaction
  <2>2. /\ plan' \in [Clients -> Orderly \cup Inverted \cup {<<>>}]
        /\ attempt' \in [Clients -> 0..MAX_ATTEMPTS]
        /\ taken' \in [Clients -> SUBSET (Nat \X Nat)]
    BY <1>1, <1>b DEF BeginTransaction, MAX_ATTEMPTS
  <2>3. ASSUME NEW b \in Clients PROVE Locks(b)'
    <3>1. CASE b = c
      BY <1>1, <1>c, <2>1, <3>1 DEF BeginTransaction
    <3>2. CASE b # c
      BY <1>1, <1>b, <1>d, <3>2 DEF BeginTransaction
    <3> QED
      BY <3>1, <3>2
  <2> QED
    BY <2>2, <2>3 DEF LockTypeOK
<1>2. ASSUME NEW c \in Clients, Lock(c) PROVE LockTypeOK'
  <2>1. PICK k, n : /\ Wants(c, k, n)
                    /\ taken' = [taken EXCEPT ![c] = @ \cup {<<k, n>>}]
    BY <1>2 DEF Lock
  <2>2. /\ k \in DOMAIN plan[c] /\ n \in plan[c][k].rows
        /\ \A j \in DOMAIN plan[c] : \A m \in plan[c][j].rows :
             j < k \/ (j = k /\ m < n) => <<j, m>> \in taken[c]
    BY <2>1 DEF Wants
  <2>3. k \in Nat /\ n \in Nat
    BY <2>2, PlansShaped, RowNumbers DEF Shaped, Numbers
  <2>4. plan' = plan /\ attempt' = attempt
    BY <1>2 DEF Lock
  <2>5. taken' \in [Clients -> SUBSET (Nat \X Nat)]
    BY <1>b, <2>1, <2>3
  <2>6. ASSUME NEW b \in Clients PROVE Locks(b)'
    <3>1. CASE b = c
      <4>1. taken'[c] = taken[c] \cup {<<k, n>>}
        BY <1>b, <2>1
      <4>2. ASSUME NEW t \in taken'[c]
            PROVE  /\ t[1] \in DOMAIN plan[c] /\ t[2] \in plan[c][t[1]].rows
                   /\ \A j \in DOMAIN plan[c] : \A m \in plan[c][j].rows :
                        j < t[1] \/ (j = t[1] /\ m < t[2]) => <<j, m>> \in taken'[c]
        <5>1. CASE t \in taken[c]
          BY <1>a, <4>1, <5>1
        <5>2. CASE t = <<k, n>>
          BY <2>2, <4>1, <5>2
        <5> QED
          BY <4>1, <4>2, <5>1, <5>2
      <4> QED
        BY <2>4, <3>1, <4>2
    <3>2. CASE b # c
      BY <1>b, <1>d, <2>1, <2>4, <3>2
    <3> QED
      BY <3>1, <3>2
  <2> QED
    BY <1>b, <2>4, <2>5, <2>6 DEF LockTypeOK
<1>3. ASSUME NEW c \in Clients, EndTransaction(c) \/ RetryDeadlock(c) PROVE LockTypeOK'
  <2>1. /\ plan' = plan \/ plan' = [plan EXCEPT ![c] = <<>>]
        /\ taken' = [taken EXCEPT ![c] = {}]
    BY <1>3 DEF EndTransaction, RetryDeadlock
  <2>2. attempt' \in [Clients -> 0..MAX_ATTEMPTS]
    <3>1. CASE EndTransaction(c)
      BY <1>b, <3>1 DEF EndTransaction, MAX_ATTEMPTS
    <3>2. CASE RetryDeadlock(c)
      <4>1. attempt[c] + 1 \in 0..MAX_ATTEMPTS
        BY <1>b, <3>2 DEF RetryDeadlock, AttemptsOf, MAX_ATTEMPTS
      <4> QED
        BY <1>b, <3>2, <4>1 DEF RetryDeadlock
    <3> QED
      BY <1>3, <3>1, <3>2
  <2>3. /\ plan' \in [Clients -> Orderly \cup Inverted \cup {<<>>}]
        /\ taken' \in [Clients -> SUBSET (Nat \X Nat)]
    BY <1>b, <2>1
  <2>4. ASSUME NEW b \in Clients PROVE Locks(b)'
    <3>1. CASE b = c
      BY <1>b, <1>c, <2>1, <3>1
    <3>2. CASE b # c
      BY <1>b, <1>d, <2>1, <3>2
    <3> QED
      BY <3>1, <3>2
  <2> QED
    BY <2>2, <2>3, <2>4 DEF LockTypeOK
<1>4. CASE UNCHANGED lockVars
  BY <1>4, <1>a, <1>b DEF lockVars, LockTypeOK
<1> QED
  BY <1>1, <1>2, <1>3, <1>4 DEF LockNext

\* Transactions hold locks of their own command only, in its order.
THEOREM LockTypeHolds == LockSpec => []LockTypeOK
<1> QED
  BY LockInitInv, LockStepInv, PTL DEF LockSpec

\* For any number of clients and rows: no circle of waiting commands without one that
\* leaves the order (changeGroupStatus, pickup, updateRatePlan, updateRoom,
\* createRequest with a room block, the commit of the night audit).
THEOREM OrderKept == LockSpec => []OnlyInvertedDeadlock
<1>1. LockTypeOK => OnlyInvertedDeadlock
  BY CircleNeedsInverted
<1> QED
  BY LockTypeHolds, <1>1, PTL

----------------------------------------------------------------------------
(* The account of a user                                                    *)


Checked == {"signing", "changing"}

\* One request at a time has the row of the user.
RowExclusive ==
  \A c, d \in Calls : call[c].pc \in RowHeld /\ call[d].pc \in RowHeld => c = d

\* What a request has read of a password, and what it has checked under the lock.
Verified ==
  \A c \in Calls :
    /\ call[c].pc \in {"verifying", "checking"} \cup Checked => call[c].hash # Null
    /\ call[c].pc \in Checked => Unchanged(c)
    /\ call[c].pc \in {"issuing", "clearing"} => call[c].link # Null

AccountInv == AccountTypeOK /\ RowExclusive /\ Verified /\ SessionsCurrent

LEMMA AccountInitInv == AccountInit => AccountInv
<1> SUFFICES ASSUME AccountInit PROVE AccountInv
  OBVIOUS
<1>1. AccountTypeOK
  <2>1. account \in Account
    BY SignInAssumption DEF AccountInit, Account
  <2>2. reset \in [link : Links \cup {Null}, live : BOOLEAN]
    <3>1. \E l \in Links \cup {Null}, b \in BOOLEAN : reset = [link |-> l, live |-> b]
      BY Zenon DEF AccountInit, NoReset
    <3> QED
      BY <3>1
  <2>3. call \in [Calls -> Call]
    BY DEF AccountInit, Call, Idle
  <2> QED
    BY <2>1, <2>2, <2>3 DEF AccountInit, AccountTypeOK
<1>2. RowExclusive /\ Verified
  BY DEF AccountInit, RowExclusive, Verified, Idle, RowHeld, Checked
<1>3. SessionsCurrent
  BY SignInAssumption DEF AccountInit, SessionsCurrent, NoReset
<1> QED
  BY <1>1, <1>2, <1>3 DEF AccountInv

\* The new values are known to no one, hence of their kind.
LEMMA NewValues ==
  /\ FreshHashes # {} => NewHash \in Hashes
  /\ FreshLinks # {} => NewLink \in Links
BY DEF NewHash, NewLink, FreshHashes, FreshLinks

\* Steps of a request that only move it on, or end it.
LEMMA MovesOn ==
  ASSUME AccountInv, NEW c \in Calls, UNCHANGED <<account, opened, reset, tries>>,
         NEW x \in Call, call' = [call EXCEPT ![c] = x],
         x.pc \in RowHeld => Free(RowHeld),
         x.pc \in {"verifying", "checking"} \cup Checked => x.hash # Null,
         x.pc \in Checked => account.status = "ACTIVE" /\ account.hash = x.hash,
         x.pc \in {"issuing", "clearing"} => x.link # Null
  PROVE  AccountInv'
<1> USE DEF AccountInv
<1>1. AccountTypeOK'
  BY DEF AccountTypeOK
<1>2. \A d \in Calls : call'[d] = IF d = c THEN x ELSE call[d]
  BY DEF AccountTypeOK
<1>3. RowExclusive'
  BY <1>2 DEF RowExclusive, Free
<1>4. Verified'
  BY <1>2 DEF Verified, Unchanged
<1>5. SessionsCurrent'
  BY DEF SessionsCurrent
<1> QED
  BY <1>1, <1>3, <1>4, <1>5

\* The commit of the request that has the row of the user.
LEMMA HolderCommits ==
  ASSUME AccountInv, NEW c \in Calls, call[c].pc \in RowHeld, Ends(c),
         account' \in Account, opened' \subseteq Hashes, tries' \in Nat,
         reset' \in [link : Links \cup {Null}, live : BOOLEAN], SessionsCurrent'
  PROVE  AccountInv'
<1> USE DEF AccountInv
<1>1. Idle \in Call /\ Idle.pc \notin RowHeld \cup Checked \cup {"verifying", "checking", "issuing", "clearing"}
  BY DEF Call, Idle, RowHeld, Checked
<1>2. call' \in [Calls -> Call] /\ \A d \in Calls : call'[d] = IF d = c THEN Idle ELSE call[d]
  BY <1>1 DEF AccountTypeOK, Ends
<1>3. AccountTypeOK'
  BY <1>2 DEF AccountTypeOK
<1>4. RowExclusive'
  BY <1>1, <1>2 DEF RowExclusive
<1>5. Verified'
  <2> SUFFICES ASSUME NEW d \in Calls, d # c
               PROVE  /\ call[d].pc \in {"verifying", "checking"} \cup Checked => call[d].hash # Null
                      /\ call[d].pc \notin Checked
                      /\ call[d].pc \in {"issuing", "clearing"} => call[d].link # Null
    BY <1>1, <1>2 DEF Verified, Unchanged
  <2> QED
    BY DEF Verified, RowExclusive, RowHeld, Checked
<1> QED
  BY <1>3, <1>4, <1>5

\* Steps of no request, or of one that counts its attempt.
LEMMA OthersStep ==
  ASSUME AccountInv, account' \in Account, account'.status = account.status,
         account'.hash = account.hash, opened' \subseteq opened, tries' \in Nat, UNCHANGED call,
         reset' \in [link : Links \cup {Null}, live : BOOLEAN], reset'.link = reset.link
  PROVE  AccountInv'
<1> USE DEF AccountInv
<1>1. AccountTypeOK'
  BY DEF AccountTypeOK
<1>2. RowExclusive' /\ Verified'
  BY DEF RowExclusive, Verified, Unchanged
<1>3. SessionsCurrent'
  BY DEF SessionsCurrent
<1> QED
  BY <1>1, <1>2, <1>3

LEMMA AccountStepInv == AccountInv /\ [AccountNext]_accountVars => AccountInv'
<1> SUFFICES ASSUME AccountInv, [AccountNext]_accountVars PROVE AccountInv'
  OBVIOUS
<1>a. /\ account \in Account /\ opened \subseteq Hashes
      /\ reset \in [link : Links \cup {Null}, live : BOOLEAN]
      /\ call \in [Calls -> Call] /\ tries \in Nat
      /\ RowExclusive /\ Verified /\ SessionsCurrent
  BY DEF AccountInv, AccountTypeOK
<1>b. Idle \in Call /\ Idle.pc \notin RowHeld \cup Checked \cup {"verifying", "checking", "issuing", "clearing"}
  BY DEF Call, Idle, RowHeld, Checked
<1>1. ASSUME NEW c \in Calls, Fails(c) PROVE AccountInv'
  BY <1>1, <1>b, MovesOn DEF Fails, Ends
<1>2. ASSUME NEW c \in Calls, ReadPassword(c) \/ IssueLink(c) \/ FindLink(c) PROVE AccountInv'
  <2>1. CASE ReadPassword(c)
    <3> DEFINE x == [Idle EXCEPT !.pc = "checking", !.hash = account.hash]
    <3>1. /\ x \in Call /\ x.pc = "checking" /\ x.hash # Null /\ call' = [call EXCEPT ![c] = x]
          /\ UNCHANGED <<account, opened, reset, tries>>
      BY <1>a, <2>1 DEF ReadPassword, Call, Idle, Account
    <3> QED
      BY <3>1, MovesOn DEF RowHeld, Checked
  <2>2. CASE IssueLink(c)
    <3> DEFINE x == [Idle EXCEPT !.pc = "issuing", !.link = NewLink]
    <3>1. /\ x \in Call /\ x.pc = "issuing" /\ x.link # Null /\ call' = [call EXCEPT ![c] = x]
          /\ UNCHANGED <<account, opened, reset, tries>>
      BY <2>2, NewValues, SignInAssumption DEF IssueLink, Call, Idle, LinkHeld
    <3> QED
      BY <3>1, MovesOn DEF RowHeld, Checked
  <2>3. CASE FindLink(c)
    <3> DEFINE x == [Idle EXCEPT !.pc = "redeeming", !.link = reset.link]
    <3>1. /\ x \in Call /\ x.pc = "redeeming" /\ call' = [call EXCEPT ![c] = x]
          /\ UNCHANGED <<account, opened, reset, tries>>
      BY <1>a, <2>3 DEF FindLink, Call, Idle
    <3> QED
      BY <3>1, MovesOn DEF RowHeld, Checked
  <2> QED
    BY <1>2, <2>1, <2>2, <2>3
<1>3. ASSUME NEW c \in Calls, Recheck(c) \/ LockPassword(c) PROVE AccountInv'
  <2>1. CASE Ends(c)
    BY <1>3, <1>b, <2>1, MovesOn DEF Ends, Recheck, LockPassword
  <2>2. PICK pc \in Checked : Ends(c) \/ (Goes(c, pc) /\ Unchanged(c))
    BY <1>3 DEF Recheck, LockPassword, Checked
  <2>3. CASE Goes(c, pc) /\ Unchanged(c)
    <3> DEFINE x == [call[c] EXCEPT !.pc = pc]
    <3>1. /\ x \in Call /\ x.pc = pc /\ x.hash = call[c].hash /\ call' = [call EXCEPT ![c] = x]
      BY <1>a, <2>3 DEF Goes, Call, Checked, RowHeld
    <3>2. /\ UNCHANGED <<account, opened, reset, tries>> /\ Free(RowHeld)
          /\ call[c].pc \in {"verifying", "checking"}
      BY <1>3 DEF Recheck, LockPassword
    <3>3. call[c].hash # Null
      BY <1>a, <3>2 DEF Verified
    <3>4. account.status = "ACTIVE" /\ account.hash = x.hash
      BY <2>3, <3>1 DEF Unchanged
    <3>5. x.pc \notin {"issuing", "clearing"}
      BY <3>1 DEF Checked
    <3> HIDE DEF x
    <3> QED
      BY <3>1, <3>2, <3>3, <3>4, <3>5, MovesOn
  <2> QED
    BY <2>1, <2>2, <2>3
<1>4. ASSUME NEW c \in Calls,
             \/ ClearPassword(c) \/ ClaimLink(c) \/ LockUser(c)
             \/ LockDisable(c) \/ LockEnable(c) \/ LockUnlock(c)
      PROVE  AccountInv'
  <2>1. CASE Ends(c)
    BY <1>4, <1>b, <2>1, MovesOn
    DEF Ends, ClearPassword, ClaimLink, LockUser, LockDisable, LockEnable, LockUnlock, Administers
  <2>2. PICK pc \in {"clearing", "claimed", "setting", "disabling", "enabling", "unlocking"} :
          /\ Ends(c) \/ Goes(c, pc)
          /\ pc = "clearing" => call[c].pc = "issuing"
          /\ pc # "claimed" => Free(RowHeld)
    BY <1>4
    DEF ClearPassword, ClaimLink, LockUser, LockDisable, LockEnable, LockUnlock, Administers
  <2>3. CASE Goes(c, pc)
    <3> DEFINE x == [call[c] EXCEPT !.pc = pc]
    <3>1. /\ x \in Call /\ x.pc = pc /\ x.link = call[c].link /\ call' = [call EXCEPT ![c] = x]
      BY <1>a, <2>3 DEF Goes, Call, RowHeld, LinkHeld
    <3>2. UNCHANGED <<account, opened, reset, tries>>
      BY <1>4 DEF ClearPassword, ClaimLink, LockUser, LockDisable, LockEnable, LockUnlock, Administers
    <3>3. x.pc \in {"issuing", "clearing"} => x.link # Null
      BY <1>a, <2>2, <3>1 DEF Verified
    <3>4. /\ x.pc \in RowHeld => Free(RowHeld)
          /\ x.pc \notin {"verifying", "checking"} \cup Checked
      BY <2>2, <3>1 DEF RowHeld, Checked
    <3> HIDE DEF x
    <3> QED
      BY <3>1, <3>2, <3>3, <3>4, MovesOn
  <2> QED
    BY <2>1, <2>2, <2>3
<1>5. ASSUME NEW c \in Calls, AdmitLoginAttempt(c) PROVE AccountInv'
  <2> DEFINE x == [Idle EXCEPT !.pc = "verifying", !.hash = account.hash]
  <2>1. /\ x \in Call /\ x.pc = "verifying" /\ x.hash # Null /\ call' = [call EXCEPT ![c] = x]
        /\ UNCHANGED <<opened, reset>>
    BY <1>5, <1>a DEF AdmitLoginAttempt, Call, Idle, Account
  <2> HIDE DEF x
  <2>2. /\ account' \in Account /\ account'.status = account.status /\ account'.hash = account.hash
    <3>1. Effective(account) \in Nat /\ Effective(account) + 1 \in 0..MaxFailures
      BY <1>5, <1>a, SignInAssumption DEF AdmitLoginAttempt, Effective, Account
    <3> QED
      BY <1>5, <1>a, <3>1 DEF AdmitLoginAttempt, Counted, Account
  <2>3. tries' \in Nat
    BY <1>5, <1>a DEF AdmitLoginAttempt
  <2>4. \A d \in Calls : call'[d] = IF d = c THEN x ELSE call[d]
    BY <1>a, <2>1
  <2>5. AccountTypeOK'
    BY <1>a, <2>1, <2>2, <2>3 DEF AccountTypeOK
  <2>6. RowExclusive'
    BY <1>a, <2>1, <2>4 DEF RowExclusive, RowHeld
  <2>7. Verified'
    BY <1>a, <2>1, <2>2, <2>4 DEF Verified, Unchanged, Checked
  <2>8. SessionsCurrent'
    BY <1>a, <2>1, <2>2 DEF SessionsCurrent
  <2> QED
    BY <2>5, <2>6, <2>7, <2>8 DEF AccountInv
<1>u. Uncounted(account) \in Account /\ Uncounted(account).hash = account.hash
      /\ Uncounted(account).status = account.status
  <2>1. 0 \in 0..MaxFailures
    BY SignInAssumption
  <2> QED
    BY <1>a, <2>1 DEF Uncounted, Account
<1>n. NoReset \in [link : Links \cup {Null}, live : BOOLEAN] /\ NoReset.link = Null
  <2>1. FALSE \in BOOLEAN
    OBVIOUS
  <2> QED
    BY <2>1 DEF NoReset
<1>6. ASSUME NEW c \in Calls, SignedIn(c) PROVE AccountInv'
  <2>1. account.status = "ACTIVE" /\ account.hash = call[c].hash /\ account.hash # Null
    BY <1>6, <1>a DEF SignedIn, Verified, Unchanged, Checked
  <2>2. account' = Uncounted(account) /\ opened' = opened \cup {account.hash} /\ tries' = 0 /\ UNCHANGED reset
    BY <1>6, <2>1 DEF SignedIn
  <2>3. SessionsCurrent'
    BY <1>a, <1>u, <2>1, <2>2 DEF SessionsCurrent
  <2>4. opened' \subseteq Hashes
    BY <1>a, <2>1, <2>2 DEF Account
  <2> QED
    BY <1>6, <1>a, <1>u, <2>2, <2>3, <2>4, HolderCommits DEF SignedIn, RowHeld
<1>7. ASSUME NEW c \in Calls, ChangePassword(c) PROVE AccountInv'
  <2>1. account.status = "ACTIVE"
    BY <1>7, <1>a DEF ChangePassword, Verified, Unchanged, Checked
  <2>2. NewHash \in Hashes
    BY <1>7, NewValues DEF ChangePassword
  <2>3. /\ account' \in Account /\ account'.status = "ACTIVE" /\ account'.hash = NewHash
        /\ opened' = {NewHash} /\ tries' = 0 /\ reset' = NoReset
    BY <1>7, <1>u, <2>1, <2>2 DEF ChangePassword, SetPassword, Account
  <2>4. SessionsCurrent'
    BY <1>n, <2>3 DEF SessionsCurrent
  <2> QED
    BY <1>7, <1>n, <2>2, <2>3, <2>4, HolderCommits DEF ChangePassword, RowHeld
<1>8. ASSUME NEW c \in Calls, IssuePasswordReset(c) PROVE AccountInv'
  <2>1. /\ account' \in Account /\ account'.hash = Null /\ opened' = {} /\ tries' = 0
    BY <1>8, <1>u DEF IssuePasswordReset, SetPassword, Account
  <2>2. reset' \in [link : Links \cup {Null}, live : BOOLEAN]
    <3>1. TRUE \in BOOLEAN /\ call[c].link \in Links \cup {Null}
      BY <1>a DEF Call
    <3> QED
      BY <1>8, <3>1 DEF IssuePasswordReset
  <2>3. SessionsCurrent'
    BY <2>1 DEF SessionsCurrent
  <2> QED
    BY <1>8, <2>1, <2>2, <2>3, HolderCommits DEF IssuePasswordReset, RowHeld
<1>9. ASSUME NEW c \in Calls, CompletePasswordReset(c) PROVE AccountInv'
  <2>1. NewHash \in Hashes
    BY <1>9, NewValues DEF CompletePasswordReset
  <2>2. account' \in Account /\ opened' = {} /\ tries' = 0 /\ reset' = NoReset
    BY <1>9, <1>u, <2>1 DEF CompletePasswordReset, Account
  <2>3. SessionsCurrent'
    BY <1>n, <2>2 DEF SessionsCurrent
  <2> QED
    BY <1>9, <1>n, <2>2, <2>3, HolderCommits DEF CompletePasswordReset, RowHeld
<1>10. ASSUME NEW c \in Calls, DisableUser(c) \/ EnableUser(c) PROVE AccountInv'
  <2>1. /\ account' \in Account /\ account'.hash = account.hash /\ opened' = {} /\ tries' \in Nat
        /\ UNCHANGED reset
    BY <1>10, <1>a, <1>u DEF DisableUser, EnableUser, Account
  <2>2. SessionsCurrent'
    BY <1>a, <2>1 DEF SessionsCurrent
  <2> QED
    BY <1>10, <1>a, <2>1, <2>2, HolderCommits DEF DisableUser, EnableUser, RowHeld
<1>11. ASSUME NEW c \in Calls, UnlockUser(c) PROVE AccountInv'
  <2>1. /\ account' \in Account /\ account'.hash = account.hash /\ account'.status = "ACTIVE"
        /\ tries' = 0 /\ UNCHANGED <<opened, reset>>
    BY <1>11, <1>a, <1>u DEF UnlockUser, Account
  <2>2. SessionsCurrent'
    BY <1>a, <2>1 DEF SessionsCurrent
  <2> QED
    BY <1>11, <1>a, <2>1, <2>2, HolderCommits DEF UnlockUser, RowHeld
<1>12. CASE LockEnds \/ LockAges
  <2>1. /\ account' \in Account /\ account'.hash = account.hash /\ account'.status = account.status
        /\ tries' \in Nat /\ UNCHANGED <<opened, reset, call>>
    BY <1>12, <1>a DEF LockEnds, LockAges, Account
  <2> QED
    BY <1>a, <2>1, OthersStep
<1>13. CASE LinkExpires
  <2>1. FALSE \in BOOLEAN
    OBVIOUS
  <2>2. reset' \in [link : Links \cup {Null}, live : BOOLEAN] /\ reset'.link = reset.link
    BY <1>13, <1>a, <2>1 DEF LinkExpires
  <2> QED
    BY <1>13, <1>a, <2>2, OthersStep DEF LinkExpires
<1>14. ASSUME NEW h \in Hashes, RevokeSession(h) PROVE AccountInv'
  BY <1>14, <1>a, OthersStep DEF RevokeSession
<1>15. CASE UNCHANGED accountVars
  BY <1>15, <1>a, OthersStep DEF accountVars
<1> QED
  BY <1>1, <1>2, <1>3, <1>4, <1>5, <1>6, <1>7, <1>8, <1>9, <1>10, <1>11, <1>12, <1>13, <1>14, <1>15
  DEF AccountNext

\* The types of the account, and what its requests have checked, for any number of them.
THEOREM AccountInvHolds == AccountSpec => []AccountInv
<1> QED
  BY AccountInitInv, AccountStepInv, PTL DEF AccountSpec

\* Whoever is signed in could sign in now, whatever sign-ins, changes and resets of the
\* password and administrators do at the same time.
THEOREM SessionsAreCurrent == AccountSpec => []SessionsCurrent
<1>1. AccountInv => SessionsCurrent
  BY DEF AccountInv
<1> QED
  BY AccountInvHolds, <1>1, PTL

----------------------------------------------------------------------------
(* Attempts                                                                 *)

\* Between two locks the attempts count up with failed_login_count, and a lock that
\* ended starts them again.
TriesFollow ==
  /\ tries \in Nat
  /\ account.lock = "running" => tries <= Threshold
  /\ account.lock \in {"over", "old"} => tries = 0
  /\ account.lock = "none" => tries <= account.failed % Threshold

LEMMA Remainder ==
  ASSUME NEW n \in Nat, NEW m \in Nat, m > 0, NEW q \in Nat, NEW r \in 0..m - 1, n = m * q + r
  PROVE  n % m = r
OBVIOUS

LEMMA NextRemainder ==
  ASSUME NEW n \in Nat
  PROVE  /\ n % Threshold \in 0..Threshold - 1
         /\ 0 % Threshold = 0
         /\ (n + 1) % Threshold # 0 => (n + 1) % Threshold = (n % Threshold) + 1
         /\ n < Threshold => n % Threshold = n
<1>1. Threshold \in Nat /\ Threshold > 0
  BY SignInAssumption
<1>2. n % Threshold \in 0..Threshold - 1
  BY <1>1
<1>3. 0 % Threshold = 0
  BY <1>1
<1>4. (n + 1) % Threshold # 0 => (n + 1) % Threshold = (n % Threshold) + 1
  <2> DEFINE q == n \div Threshold
             r == n % Threshold
  <2>1. n = Threshold * q + r /\ q \in Nat /\ r \in 0..Threshold - 1
    BY <1>1
  <2> HIDE DEF q, r
  <2>2. CASE r < Threshold - 1
    <3>1. n + 1 = Threshold * q + (r + 1) /\ r + 1 \in 0..Threshold - 1
      BY <1>1, <2>1, <2>2
    <3>2. (n + 1) % Threshold = r + 1
      BY <1>1, <2>1, <3>1, Remainder
    <3> QED
      BY <3>2 DEF r
  <2>3. CASE r = Threshold - 1
    <3>1. n + 1 = Threshold * (q + 1) + 0 /\ 0 \in 0..Threshold - 1 /\ q + 1 \in Nat
      BY <1>1, <2>1, <2>3
    <3>2. (n + 1) % Threshold = 0
      BY <1>1, <3>1, Remainder
    <3> QED
      BY <3>2
  <2> QED
    BY <1>1, <2>1, <2>2, <2>3
<1>5. n < Threshold => n % Threshold = n
  BY <1>1
<1> QED
  BY <1>2, <1>3, <1>4, <1>5

LEMMA TriesStep ==
  AccountTypeOK /\ TriesFollow /\ [AccountNext]_accountVars => TriesFollow'
<1> SUFFICES ASSUME AccountTypeOK, TriesFollow, [AccountNext]_accountVars PROVE TriesFollow'
  OBVIOUS
<1>a. account \in Account /\ account.failed \in Nat /\ Threshold \in Nat /\ Threshold > 0
  BY SignInAssumption DEF AccountTypeOK, Account
<1>b. \A n \in Nat : n % Threshold \in 0..Threshold - 1
  BY NextRemainder
<1>1. ASSUME NEW c \in Calls, AdmitLoginAttempt(c) PROVE TriesFollow'
  <2> DEFINE n == Effective(account) + 1
  <2>1. /\ Effective(account) \in Nat /\ tries' = tries + 1 /\ account.lock # "running"
        /\ account'.failed = n /\ account'.lock = IF LocksAt(n) THEN "running" ELSE "none"
    BY <1>1, <1>a DEF AdmitLoginAttempt, Effective, Counted, Account
  <2>2. tries \in Nat /\ tries <= Effective(account) % Threshold
    BY <1>a, <1>b, <2>1, NextRemainder DEF TriesFollow, Effective, Account
  <2>3. CASE LocksAt(n)
    BY <1>a, <1>b, <2>1, <2>2, <2>3 DEF TriesFollow
  <2>4. CASE ~LocksAt(n)
    <3>1. n % Threshold # 0
      BY <1>a, <2>1, <2>4, NextRemainder DEF LocksAt
    <3>2. n % Threshold = (Effective(account) % Threshold) + 1
      BY <2>1, <3>1, NextRemainder
    <3>3. Effective(account) % Threshold \in Nat
      BY <1>b, <2>1
    <3> QED
      BY <2>1, <2>2, <2>4, <3>2, <3>3 DEF TriesFollow
  <2> QED
    BY <2>3, <2>4
<1>2. ASSUME account'.failed = 0, account'.lock = "none", tries' = 0 PROVE TriesFollow'
  BY <1>2, NextRemainder DEF TriesFollow
<1>3. ASSUME account'.failed = account.failed, account'.lock = account.lock, tries' = tries
      PROVE  TriesFollow'
  BY <1>3 DEF TriesFollow
<1>4. CASE LockEnds
  BY <1>4, <1>a DEF LockEnds, TriesFollow, Account
<1>5. CASE LockAges
  BY <1>5, <1>a DEF LockAges, TriesFollow, Account
<1>6. ASSUME NEW c \in Calls,
             \/ SignedIn(c) \/ ChangePassword(c) \/ IssuePasswordReset(c)
             \/ CompletePasswordReset(c) \/ EnableUser(c) \/ UnlockUser(c)
      PROVE  TriesFollow'
  BY <1>2, <1>6, <1>a
  DEF SignedIn, ChangePassword, IssuePasswordReset, CompletePasswordReset, EnableUser, UnlockUser,
      SetPassword, Uncounted, Account
<1>7. ASSUME NEW c \in Calls,
             \/ Recheck(c) \/ ReadPassword(c) \/ LockPassword(c) \/ IssueLink(c)
             \/ ClearPassword(c) \/ FindLink(c) \/ ClaimLink(c) \/ LockUser(c)
             \/ LockDisable(c) \/ LockEnable(c) \/ LockUnlock(c) \/ Fails(c)
      PROVE  TriesFollow'
  BY <1>3, <1>7
  DEF Recheck, ReadPassword, LockPassword, IssueLink, ClearPassword, FindLink, ClaimLink, LockUser,
      LockDisable, LockEnable, LockUnlock, Administers, Fails
<1>8. ASSUME NEW c \in Calls, DisableUser(c) PROVE TriesFollow'
  BY <1>3, <1>8, <1>a DEF DisableUser, Account
<1>9. ASSUME NEW h \in Hashes, RevokeSession(h) PROVE TriesFollow'
  BY <1>3, <1>9 DEF RevokeSession
<1>10. CASE LinkExpires \/ UNCHANGED accountVars
  BY <1>3, <1>10 DEF LinkExpires, accountVars
<1> QED
  BY <1>1, <1>4, <1>5, <1>6, <1>7, <1>8, <1>9, <1>10 DEF AccountNext

\* At most LOCKOUT_THRESHOLD attempts are admitted before the account locks, whatever the
\* threshold and however many attempts are in flight.
THEOREM AttemptsAreCounted == AccountSpec => []AttemptsCounted
<1>1. AccountInit => TriesFollow
  BY NextRemainder DEF AccountInit, TriesFollow
<1>2. AccountTypeOK /\ TriesFollow => AttemptsCounted
  <2> SUFFICES ASSUME AccountTypeOK, TriesFollow PROVE AttemptsCounted
    OBVIOUS
  <2>1. /\ account.lock \in {"none", "running", "over", "old"} /\ account.failed \in Nat
        /\ Threshold \in Nat
    BY SignInAssumption DEF AccountTypeOK, Account
  <2>2. account.failed % Threshold \in 0..Threshold - 1
    BY <2>1, NextRemainder
  <2> QED
    BY <2>1, <2>2 DEF TriesFollow, AttemptsCounted
<1>3. AccountInv => AccountTypeOK
  BY DEF AccountInv
<1> QED
  BY AccountInvHolds, TriesStep, <1>1, <1>2, <1>3, PTL DEF AccountSpec

----------------------------------------------------------------------------
(* The session of several tabs                                              *)


\* While the session is open and nothing went wrong: who has which token, and since when.
JarKnown ==
  /\ jar \in {"current", "previous"}
  /\ jar = "current" \/ \E t \in Tabs : tab[t].pc = "rotated"

\* A new token is nowhere but on its way to the jar.
TokensKnown ==
  \A t \in Tabs : tab[t].pc \in Under =>
    /\ tab[t].token # Nothing /\ tab[t].pc # "refused"
    /\ tab[t].pc = "missed" => tab[t].token # "current"
    /\ tab[t].pc = "rotated" =>
         /\ tab[t].token = "current" /\ jar = "previous"
         /\ \A u \in Tabs : u # t /\ tab[u].pc \in Under => tab[u].token # "current"

\* A tab that has the previous token asked for it no later than it was replaced, or while the
\* answer was on its way.
InTime ==
  \A t \in Tabs : tab[t].pc \in Under =>
    /\ tab[t].pc = "rotated" => age <= tab[t].wait
    /\ tab[t].token = "previous" => age <= tab[t].wait + Patience

Begun == \A t \in Tabs : tab[t].since <= tab[t].wait

Well ==
  /\ session # "reuse" /\ Begun
  /\ session = "open" => JarKnown /\ TokensKnown /\ InTime

RefreshInv == RefreshTypeOK /\ (lost \/ late \/ overtaken \/ Well)

LEMMA RefreshInitInv == RefreshInit => RefreshInv
<1> SUFFICES ASSUME RefreshInit PROVE RefreshInv
  OBVIOUS
<1>1. RefreshTypeOK
  <2>1. Life \in 0..Life /\ 0 \in 0..Grace + 2 /\ 0 \in 0..Patience /\ 0 \in 0..1
    BY RefreshAssumption
  <2>2. Quiet \in Tab
    BY <2>1 DEF Quiet, Tab, Token
  <2>3. {lost, late, overtaken} \subseteq BOOLEAN
    BY Zenon DEF RefreshInit
  <2> QED
    BY <2>1, <2>2, <2>3 DEF RefreshInit, RefreshTypeOK, Token
<1>2. Well
  BY DEF RefreshInit, Well, Begun, JarKnown, TokensKnown, InTime, Quiet, Under
<1> QED
  BY <1>1, <1>2 DEF RefreshInv

LEMMA Ages ==
  /\ Aged("current") = "previous" /\ Aged("previous") = "older" /\ Aged("older") = "older"
  /\ Aged(Nothing) = Nothing
  /\ \A k \in Token : Aged(k) \in Token /\ Aged(k) # "current" /\ (Aged(k) = "previous" => k = "current")
                      /\ (Aged(k) = Nothing => k = Nothing)
BY RefreshAssumption DEF Aged, Token

LEMMA RefreshTypes == RefreshTypeOK /\ [RefreshNext]_refreshVars => RefreshTypeOK'
<1> SUFFICES ASSUME RefreshTypeOK, [RefreshNext]_refreshVars PROVE RefreshTypeOK'
  OBVIOUS
<1>a. /\ session \in {"open", "reuse", "ended"} /\ age \in 0..Grace + 2
      /\ jar \in Token /\ life \in 0..Life /\ tab \in [Tabs -> Tab]
  BY DEF RefreshTypeOK
<1>b. lost \in BOOLEAN /\ late \in BOOLEAN /\ overtaken \in BOOLEAN
  BY DEF RefreshTypeOK
<1>c. Quiet \in Tab /\ Nothing \in Token
  BY RefreshAssumption DEF Quiet, Tab, Token
<1>d. \A t \in Tabs, pc \in Under \cup {"idle", "denied"} : [tab[t] EXCEPT !.pc = pc] \in Tab
  BY <1>a DEF Tab
<1>1. ASSUME lost' \in BOOLEAN, late' \in BOOLEAN, overtaken' \in BOOLEAN
      PROVE  {lost, late, overtaken}' \subseteq BOOLEAN
  BY <1>1
<1>2. ASSUME NEW t \in Tabs, Denied(t) \/ Ask(t) \/ Find(t) \/ RotateFails(t) \/ Check(t) \/ Answer(t) \/ Lose(t)
      PROVE  RefreshTypeOK'
  <2>1. tab' \in [Tabs -> Tab]
    <3>1. PICK x \in Tab : tab' = [tab EXCEPT ![t] = x]
      <4>1. CASE Denied(t) \/ Find(t) \/ RotateFails(t) \/ Check(t)
        <5>1. PICK pc \in Under \cup {"idle", "denied"} : Turns(t, pc)
          BY <4>1 DEF Denied, Find, RotateFails, Check, Under
        <5>2. tab' = [tab EXCEPT ![t] = [tab[t] EXCEPT !.pc = pc]]
          BY <1>a, <5>1 DEF Turns
        <5> QED
          BY <1>d, <5>2
      <4>2. CASE Answer(t) \/ Lose(t)
        BY <1>c, <4>2 DEF Answer, Lose, Rests
      <4>3. CASE Ask(t)
        <5>1. [Quiet EXCEPT !.pc = "sent", !.token = jar] \in Tab
          BY <1>a, <1>c DEF Quiet, Tab, Under
        <5> QED
          BY <4>3, <5>1 DEF Ask
      <4> QED
        BY <1>2, <4>1, <4>2, <4>3
    <3> QED
      BY <1>a, <3>1
  <2>2. jar' \in Token /\ life' \in 0..Life
    BY <1>2, <1>a, <1>c, RefreshAssumption
    DEF Denied, Ask, Find, RotateFails, Check, Answer, Lose, Tab
  <2>3. session' \in {"open", "reuse", "ended"} /\ age' = age
    BY <1>2, <1>a DEF Denied, Ask, Find, RotateFails, Check, Answer, Lose
  <2>4. lost' \in BOOLEAN /\ late' \in BOOLEAN /\ overtaken' \in BOOLEAN
    BY <1>2, <1>b, Zenon DEF Denied, Ask, Find, RotateFails, Check, Answer, Lose
  <2> QED
    BY <1>1, <1>a, <2>1, <2>2, <2>3, <2>4 DEF RefreshTypeOK
<1>3. ASSUME NEW t \in Tabs, Rotate(t) PROVE RefreshTypeOK'
  <2>1. tab' \in [Tabs -> Tab]
    BY <1>3, <1>a, Ages DEF Rotate, Rotated, Tab, Under
  <2>2. jar' \in Token /\ age' \in 0..Grace + 2
    BY <1>3, <1>a, Ages, RefreshAssumption DEF Rotate, Rotated, Tab
  <2> QED
    BY <1>1, <1>3, <1>a, <1>b, <2>1, <2>2 DEF Rotate, RefreshTypeOK
<1>4. CASE SignOut
  BY <1>1, <1>4, <1>a, <1>b, <1>c, RefreshAssumption DEF SignOut, RefreshTypeOK
<1>5. CASE Tick
  <2>1. \A n \in 0..Patience : Up(n, Patience) \in 0..Patience
    BY RefreshAssumption DEF Up
  <2>2. age' \in 0..Grace + 2 /\ life' \in 0..Life
    <3>1. age' = Up(age, Grace + 2) /\ life' = IF life = 0 THEN 0 ELSE life - 1
      BY <1>5 DEF Tick
    <3>2. age' \in 0..Grace + 2
      BY <1>a, <3>1, RefreshAssumption DEF Up
    <3>3. life' \in 0..Life
      BY <1>a, <3>1, RefreshAssumption
    <3> QED
      BY <3>2, <3>3
  <2>3. tab' \in [Tabs -> Tab]
    <3> SUFFICES ASSUME NEW t \in Tabs PROVE tab'[t] \in Tab
      BY <1>5 DEF Tick
    <3>1. tab[t] \in Tab /\ Up(tab[t].wait, Patience) \in 0..Patience
      BY <1>a, <2>1 DEF Tab
    <3>2. PICK n \in 0..1 : \/ tab'[t] = tab[t]
                           \/ tab'[t] = [tab[t] EXCEPT !.wait = Up(tab[t].wait, Patience), !.since = n]
      <4>1. tab[t].since \in 0..1 /\ 1 \in 0..1
        BY <3>1 DEF Tab
      <4> QED
        BY <1>5, <4>1 DEF Tick
    <3> QED
      BY <3>1, <3>2 DEF Tab
  <2>4. late' \in BOOLEAN
    BY <1>5, <1>b, Zenon DEF Tick
  <2> QED
    BY <1>1, <1>5, <1>a, <1>b, <2>2, <2>3, <2>4 DEF Tick, RefreshTypeOK
<1>6. CASE UNCHANGED refreshVars
  BY <1>1, <1>6, <1>a, <1>b DEF refreshVars, RefreshTypeOK
<1> QED
  BY <1>2, <1>3, <1>4, <1>5, <1>6 DEF RefreshNext

\* A step of one tab that neither rotates nor answers.
LEMMA TabMoves ==
  ASSUME RefreshTypeOK, Well, NEW t \in Tabs, NEW x, tab' = [tab EXCEPT ![t] = x],
         UNCHANGED <<age, jar>>, session' # "reuse", session' = "open" => session = "open",
         x.since <= x.wait, x.pc # "rotated", session' = "open" => tab[t].pc # "rotated",
         session' = "open" /\ x.pc \in Under =>
           /\ x.token # Nothing /\ x.pc # "refused"
           /\ x.pc = "missed" => x.token # "current"
           /\ x.token = "previous" => age <= x.wait + Patience
           /\ x.token = "current" => \A u \in Tabs : tab[u].pc # "rotated"
  PROVE  Well'
<1>1. \A u \in Tabs : tab'[u] = IF u = t THEN x ELSE tab[u]
  BY DEF RefreshTypeOK
<1>2. Begun'
  BY <1>1 DEF Well, Begun
<1>3. ASSUME session' = "open" PROVE JarKnown' /\ TokensKnown' /\ InTime'
  <2>1. JarKnown /\ TokensKnown /\ InTime /\ tab[t].pc # "rotated"
    BY <1>3 DEF Well
  <2>2. JarKnown'
    BY <1>1, <2>1 DEF JarKnown
  <2>3. TokensKnown'
    BY <1>1, <1>3, <2>1 DEF TokensKnown, Under
  <2>4. InTime'
    BY <1>1, <1>3, <2>1 DEF InTime
  <2> QED
    BY <2>2, <2>3, <2>4
<1> QED
  BY <1>2, <1>3 DEF Well

LEMMA WellStep ==
  ASSUME RefreshTypeOK, Well, [RefreshNext]_refreshVars, ~(lost' \/ late' \/ overtaken')
  PROVE  Well'
<1>a. /\ session \in {"open", "reuse", "ended"} /\ age \in 0..Grace + 2
      /\ jar \in Token /\ tab \in [Tabs -> Tab]
      /\ \A t \in Tabs : /\ tab[t].wait \in 0..Patience /\ tab[t].since \in 0..1
                         /\ tab[t].token \in Token
      /\ Patience \in Nat /\ Grace \in Nat /\ 2 * Patience <= Grace
      /\ Nothing \notin {"current", "previous", "older"}
      /\ session # "reuse" /\ Begun
  BY RefreshAssumption DEF RefreshTypeOK, Well, Tab
<1>1. ASSUME NEW t \in Tabs, Denied(t) PROVE Well'
  <2> DEFINE x == [tab[t] EXCEPT !.pc = "denied"]
  <2>1. x.pc = "denied" /\ x.since = tab[t].since /\ x.wait = tab[t].wait /\ tab' = [tab EXCEPT ![t] = x]
    BY <1>1, <1>a DEF Denied, Turns, Tab
  <2>2. tab[t].pc = "idle" /\ UNCHANGED <<session, age, jar>>
    BY <1>1 DEF Denied, Quiet
  <2> HIDE DEF x
  <2> QED
    BY <1>a, <2>1, <2>2, TabMoves DEF Begun, Under
<1>2. ASSUME NEW t \in Tabs, Ask(t) PROVE Well'
  <2> DEFINE x == [Quiet EXCEPT !.pc = "sent", !.token = jar]
  <2>1. x.pc = "sent" /\ x.since = 0 /\ x.wait = 0 /\ x.token = jar /\ tab' = [tab EXCEPT ![t] = x]
    BY <1>2, <1>a DEF Ask, Quiet
  <2>2. tab[t].pc = "denied" /\ UNCHANGED <<session, age, jar>>
    BY <1>2 DEF Ask
  <2>3. ASSUME session = "open"
        PROVE  /\ jar # Nothing
               /\ jar = "previous" => age <= 0 + Patience
               /\ jar = "current" => \A u \in Tabs : tab[u].pc # "rotated"
    <3>1. JarKnown /\ TokensKnown /\ InTime
      BY <2>3 DEF Well
    <3>2. \A u \in Tabs : tab[u].pc = "rotated" => age <= tab[u].wait /\ jar = "previous"
      BY <3>1 DEF InTime, TokensKnown, Under
    <3> QED
      BY <1>a, <3>1, <3>2 DEF JarKnown
  <2> HIDE DEF x
  <2>4. /\ UNCHANGED <<age, jar>> /\ session' # "reuse" /\ (session' = "open" => session = "open")
        /\ x.since <= x.wait /\ x.pc # "rotated" /\ (session' = "open" => tab[t].pc # "rotated")
    BY <1>a, <2>1, <2>2
  <2>5. session' = "open" /\ x.pc \in Under =>
          /\ x.token # Nothing /\ x.pc # "refused"
          /\ x.pc = "missed" => x.token # "current"
          /\ x.token = "previous" => age <= x.wait + Patience
          /\ x.token = "current" => \A u \in Tabs : tab[u].pc # "rotated"
    BY <1>a, <2>1, <2>2, <2>3
  <2> QED
    BY <2>1, <2>4, <2>5, TabMoves
<1>3. ASSUME NEW t \in Tabs, Find(t) \/ RotateFails(t) \/ Check(t) PROVE Well'
  <2>1. PICK pc \in {"found", "missed", "raced", "refused"} : Turns(t, pc)
    BY <1>3 DEF Find, RotateFails, Check
  <2> DEFINE x == [tab[t] EXCEPT !.pc = pc]
  <2>2. /\ x.pc = pc /\ x.since = tab[t].since /\ x.wait = tab[t].wait /\ x.token = tab[t].token
        /\ tab' = [tab EXCEPT ![t] = x]
    BY <1>a, <2>1 DEF Turns, Tab
  <2> HIDE DEF x
  <2>3. UNCHANGED <<age, jar>> /\ tab[t].pc \in {"sent", "found", "missed"}
    BY <1>3 DEF Find, RotateFails, Check
  <2>4. tab'[t].pc = pc
    BY <1>a, <2>2
  <2>5. ASSUME session = "open" PROVE JarKnown /\ TokensKnown /\ InTime
    BY <2>5 DEF Well
  <2>6. session' # "reuse" /\ (session' = "open" => session = "open")
    <3>1. CASE Find(t) \/ RotateFails(t)
      BY <1>a, <3>1 DEF Find, RotateFails
    <3>2. CASE Check(t)
      <4>1. ASSUME session = "open", tab[t].token = "previous" PROVE InRace(t)
        <5>1. age <= tab[t].wait + Patience
          BY <2>5, <3>2, <4>1 DEF InTime, Check, Under
        <5> QED
          BY <1>a, <5>1 DEF InRace
      <4> QED
        BY <1>a, <3>2, <4>1 DEF Check
    <3> QED
      BY <1>3, <3>1, <3>2
  <2>7. ASSUME session' = "open"
        PROVE  /\ pc # "refused" /\ pc # "rotated"
               /\ pc = "missed" => tab[t].token # "current"
    <3>1. session = "open" /\ tab[t].token # Nothing /\ (tab[t].pc = "missed" => tab[t].token # "current")
      BY <2>3, <2>5, <2>6, <2>7 DEF TokensKnown, Under
    <3>2. \A k : Turns(t, k) => k = pc
      BY <1>a, <2>4 DEF Turns
    <3>3. CASE Find(t)
      BY <1>a, <3>1, <3>2, <3>3 DEF Find
    <3>4. CASE RotateFails(t)
      BY <3>1, <3>2, <3>4 DEF RotateFails, Rotates
    <3>5. CASE Check(t)
      <4>1. tab[t].token \notin {"older", "current", Nothing}
        BY <3>1, <3>5 DEF Check
      <4>2. tab[t].token = "previous" /\ session = "open"
        BY <1>a, <3>1, <4>1 DEF Token
      <4>3. InRace(t)
        BY <1>a, <2>6, <3>5, <4>2 DEF Check
      <4>4. Turns(t, "raced")
        BY <3>5, <4>2, <4>3 DEF Check
      <4> QED
        BY <3>2, <4>4
    <3> QED
      BY <1>3, <3>3, <3>4, <3>5
  <2>8. ASSUME session = "open"
        PROVE  /\ tab[t].token # Nothing
               /\ tab[t].token = "previous" => age <= tab[t].wait + Patience
               /\ tab[t].token = "current" => \A u \in Tabs : tab[u].pc # "rotated"
    BY <2>3, <2>5, <2>8 DEF TokensKnown, InTime, Under
  <2>9. x.since <= x.wait
    BY <1>a, <2>2 DEF Begun
  <2>10. /\ UNCHANGED <<age, jar>> /\ session' # "reuse" /\ (session' = "open" => session = "open")
        /\ x.since <= x.wait /\ x.pc # "rotated" /\ (session' = "open" => tab[t].pc # "rotated")
    BY <2>2, <2>3, <2>6, <2>7, <2>9
  <2>11. session' = "open" /\ x.pc \in Under =>
          /\ x.token # Nothing /\ x.pc # "refused"
          /\ x.pc = "missed" => x.token # "current"
          /\ x.token = "previous" => age <= x.wait + Patience
          /\ x.token = "current" => \A u \in Tabs : tab[u].pc # "rotated"
    BY <2>2, <2>6, <2>7, <2>8
  <2> QED
    BY <2>2, <2>10, <2>11, TabMoves
<1>4. ASSUME NEW t \in Tabs, Answer(t) \/ Lose(t), session = "open" => tab[t].pc # "rotated"
      PROVE  Well'
  <2>1. tab' = [tab EXCEPT ![t] = Quiet] /\ UNCHANGED <<session, age>>
    BY <1>4 DEF Answer, Lose, Rests
  <2>2. Quiet.pc = "idle" /\ Quiet.since = 0 /\ Quiet.wait = 0 /\ Quiet.token = Nothing
    BY DEF Quiet
  <2>3. CASE session # "open"
    <3>1. \A u \in Tabs : tab'[u] = IF u = t THEN Quiet ELSE tab[u]
      BY <1>a, <2>1
    <3> QED
      BY <1>a, <2>1, <2>2, <2>3, <3>1 DEF Well, Begun
  <2>4. CASE session = "open"
    <3>1. jar' = jar
      BY <1>4, <2>4 DEF Answer, Lose, Well, TokensKnown, Under
    <3>2. /\ UNCHANGED <<age, jar>> /\ session' # "reuse" /\ (session' = "open" => session = "open")
          /\ Quiet.since <= Quiet.wait /\ Quiet.pc # "rotated" /\ Quiet.pc \notin Under
          /\ (session' = "open" => tab[t].pc # "rotated")
      BY <1>4, <1>a, <2>1, <2>2, <2>4, <3>1 DEF Under
    <3> QED
      BY <2>1, <3>2, TabMoves
  <2> QED
    BY <2>3, <2>4
<1>5. ASSUME NEW t \in Tabs, Answer(t), session = "open", tab[t].pc = "rotated" PROVE Well'
  <2>1. JarKnown /\ TokensKnown /\ InTime
    BY <1>5 DEF Well
  <2>2. tab[t].token = "current" /\ \A u \in Tabs : u # t => tab[u].pc # "rotated"
    BY <1>5, <2>1 DEF TokensKnown, Under
  <2>3. /\ jar' = "current" /\ UNCHANGED <<session, age>>
        /\ \A u \in Tabs : tab'[u] = IF u = t THEN Quiet ELSE tab[u]
    BY <1>5, <1>a, <2>2 DEF Answer, Rests
  <2>4. Quiet.pc = "idle" /\ Quiet.since = 0 /\ Quiet.wait = 0
    BY DEF Quiet
  <2>5. Begun'
    BY <1>a, <2>3, <2>4 DEF Begun
  <2>6. JarKnown'
    BY <2>3 DEF JarKnown
  <2>7. TokensKnown'
    BY <2>1, <2>2, <2>3, <2>4 DEF TokensKnown, Under
  <2>8. InTime'
    BY <2>1, <2>3, <2>4 DEF InTime, Under
  <2> QED
    BY <1>5, <2>3, <2>5, <2>6, <2>7, <2>8 DEF Well
<1>6. ASSUME NEW t \in Tabs, Lose(t), tab[t].pc = "rotated" PROVE FALSE
  BY <1>6 DEF Lose
<1>7. ASSUME NEW t \in Tabs, Rotate(t) PROVE Well'
  <2>1. session = "open" /\ session' = session /\ tab[t].pc = "found" /\ tab[t].token = "current"
    BY <1>7 DEF Rotate, Rotates
  <2>2. JarKnown /\ TokensKnown /\ InTime
    BY <2>1 DEF Well
  <2>3. \A u \in Tabs : tab[u].pc # "rotated"
    BY <2>1, <2>2 DEF TokensKnown, Under
  <2>4. jar' = "previous" /\ age' = tab[t].since
    BY <1>7, <2>2, <2>3, Ages DEF Rotate, Rotated, JarKnown
  <2>5. /\ tab'[t].pc = "rotated" /\ tab'[t].token = "current"
        /\ tab'[t].wait = tab[t].wait /\ tab'[t].since = tab[t].since
    BY <1>7, <1>a, <2>1 DEF Rotate, Rotated, Tab
  <2>6. ASSUME NEW u \in Tabs, u # t
        PROVE  /\ tab'[u].pc = tab[u].pc /\ tab'[u].token = Aged(tab[u].token)
               /\ tab'[u].wait = tab[u].wait /\ tab'[u].since = tab[u].since
    BY <1>7, <1>a, <2>6 DEF Rotate, Rotated, Tab
  <2>7. Begun'
    <3> SUFFICES ASSUME NEW u \in Tabs PROVE tab'[u].since <= tab'[u].wait
      BY DEF Begun
    <3> QED
      BY <1>a, <2>5, <2>6 DEF Begun
  <2>8. JarKnown'
    BY <2>4, <2>5 DEF JarKnown
  <2>9. TokensKnown'
    <3>1. \A u \in Tabs : u # t /\ tab'[u].pc \in Under =>
            /\ tab'[u].token # Nothing /\ tab'[u].token # "current"
            /\ tab'[u].pc \notin {"refused", "rotated"}
      BY <1>a, <2>2, <2>3, <2>6, Ages DEF TokensKnown
    <3>2. \A u \in Tabs : u # t /\ tab'[u].pc \in Under /\ tab'[u].pc = "missed" =>
            tab'[u].token # "current"
      BY <3>1
    <3> QED
      BY <1>a, <2>4, <2>5, <3>1, <3>2 DEF TokensKnown
  <2>10. InTime'
    <3> SUFFICES ASSUME NEW u \in Tabs
                 PROVE  /\ tab'[u].pc = "rotated" => age' <= tab'[u].wait
                        /\ tab'[u].token = "previous" => age' <= tab'[u].wait + Patience
      BY DEF InTime
    <3> QED
      BY <1>a, <2>3, <2>4, <2>5, <2>6 DEF Begun
  <2> QED
    BY <2>1, <2>7, <2>8, <2>9, <2>10 DEF Well
<1>8. CASE SignOut
  BY <1>8, <1>a DEF SignOut, Well, Begun
<1>9. CASE Tick
  <2>1. UNCHANGED <<session, jar>>
    BY <1>9 DEF Tick
  <2>2. age' <= age + 1 /\ age' \in Nat
    <3>1. age' = Up(age, Grace + 2)
      BY <1>9 DEF Tick
    <3> QED
      BY <1>a, <3>1 DEF Up
  <2>3. ASSUME NEW u \in Tabs
        PROVE  /\ tab'[u].pc = tab[u].pc /\ tab'[u].token = tab[u].token
               /\ tab[u].pc \in Under => tab'[u].wait = tab[u].wait + 1
               /\ tab'[u].since <= tab'[u].wait
    <3>1. CASE tab[u].pc \notin Under
      <4>1. tab'[u] = tab[u]
        BY <1>9, <3>1 DEF Tick
      <4> QED
        BY <1>a, <3>1, <4>1 DEF Begun
    <3>2. CASE tab[u].pc \in Under
      <4>1. tab[u].wait # Patience
        BY <1>9, <3>2 DEF Tick
      <4>2. tab'[u] = [tab[u] EXCEPT !.wait = tab[u].wait + 1,
                          !.since = IF tab[u].pc \in {"found", "missed"} THEN 1 ELSE tab[u].since]
        BY <1>9, <3>2, <4>1 DEF Tick, Up
      <4> QED
        BY <1>a, <4>2 DEF Begun, Tab
    <3> QED
      BY <3>1, <3>2
  <2>4. Begun'
    BY <2>3 DEF Begun
  <2>5. ASSUME session = "open" PROVE JarKnown' /\ TokensKnown' /\ InTime'
    <3>1. JarKnown /\ TokensKnown /\ InTime
      BY <2>5 DEF Well
    <3>2. JarKnown' /\ TokensKnown'
      BY <2>1, <2>3, <3>1 DEF JarKnown, TokensKnown
    <3>3. InTime'
      BY <1>a, <2>2, <2>3, <3>1 DEF InTime
    <3> QED
      BY <3>2, <3>3
  <2> QED
    BY <1>a, <2>1, <2>4, <2>5 DEF Well
<1>10. CASE UNCHANGED refreshVars
  BY <1>10 DEF refreshVars, Well, Begun, JarKnown, TokensKnown, InTime
<1> QED
  BY <1>1, <1>2, <1>3, <1>4, <1>5, <1>6, <1>7, <1>8, <1>9, <1>10 DEF RefreshNext

\* The types, and who has which token while nothing went wrong, for any number of tabs.
THEOREM RefreshInvHolds == RefreshSpec => []RefreshInv
<1>1. RefreshInv /\ [RefreshNext]_refreshVars => RefreshInv'
  <2> SUFFICES ASSUME RefreshInv, [RefreshNext]_refreshVars, ~(lost' \/ late' \/ overtaken')
               PROVE  RefreshTypeOK' /\ Well'
    BY RefreshTypes DEF RefreshInv
  <2>1. ~(lost \/ late \/ overtaken)
    BY DEF RefreshNext, refreshVars, Denied, Ask, Find, Rotate, RotateFails, Check, Answer, Lose,
           SignOut, Tick
  <2> QED
    BY <2>1, RefreshTypes, WellStep DEF RefreshInv
<1> QED
  BY <1>1, RefreshInitInv, PTL DEF RefreshSpec

\* Tabs that refresh together stay signed in, for any number of tabs and any grace period
\* twice as long as an answer takes.
THEOREM StaySignedIn == RefreshSpec => []StaysSignedIn
<1>1. RefreshInv => StaysSignedIn
  BY DEF RefreshInv, StaysSignedIn, Well, JarKnown, TokensKnown, Under
<1> QED
  BY <1>1, RefreshInvHolds, PTL

----------------------------------------------------------------------------
(* The database with all its clients.                                       *)

\* Side by side, on rows of their own, each follows its own specification.
LEMMA SideBySide == DatabaseSpec => Spec /\ LockSpec /\ AccountSpec /\ RefreshSpec
<1>1. DatabaseInit => Init /\ LockInit /\ AccountInit /\ RefreshInit
  BY DEF DatabaseInit
<1>2. [DatabaseNext]_<<part, vars, lockVars, accountVars, refreshVars>> =>
        /\ [Next]_vars /\ [LockNext]_lockVars /\ [AccountNext]_accountVars
        /\ [RefreshNext]_refreshVars
  BY DEF DatabaseNext
<1> QED
  BY <1>1, <1>2, PTL DEF DatabaseSpec, Spec, LockSpec, AccountSpec, RefreshSpec

\* The rows of the queue, of the locks, of the account and of the tokens keep their types,
\* whichever of the four parts takes the step.
THEOREM DatabaseTyped == DatabaseSpec => []DatabaseTypeOK
<1>1. RefreshSpec => []RefreshTypeOK
  <2>1. RefreshInit => RefreshTypeOK
    BY RefreshInitInv DEF RefreshInv
  <2> QED
    BY <2>1, RefreshTypes, PTL DEF RefreshSpec
<1>2. AccountInv => AccountTypeOK
  BY DEF AccountInv
<1>3. TypeOK /\ LockTypeOK /\ AccountTypeOK /\ RefreshTypeOK => DatabaseTypeOK
  BY DEF DatabaseTypeOK
<1> QED
  BY <1>1, <1>2, <1>3, SideBySide, TypeCorrect, LockTypeHolds, AccountInvHolds, PTL
=============================================================================
