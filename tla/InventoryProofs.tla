-------------------------- MODULE InventoryProofs ---------------------------
(***************************************************************************)
(* Proofs about Inventory: its types, that what a command takes from the     *)
(* house is covered, that pickups keep to definite blocks and that counters  *)
(* are exact.  Commands are compared by what they leave of each cell, World  *)
(* before and After them.                                                   *)
(***************************************************************************)
EXTENDS Inventory, TLAPS, FiniteSetTheorems

Worlds == [res : [Ids -> Booking \cup {NoBooking}], blk : [Blocks -> Block \cup {NoBlock}],
           room : [Rooms -> Room \cup {NoRoom}]]

----------------------------------------------------------------------------
(* Counting.                                                                *)

Usable(row, c) == row.active /\ row.type = c[1] /\ ~OutOfUse(row, c)

UsableRooms(w, c) == {r \in Rooms : Usable(w.room[r], c)}
Sellers(w, c) == {i \in Ids : Sells(w.res[i], c)}
Pickers(w, b, c) == {i \in Ids : Picks(w.res[i], b, c)}
Holds(w, c) == {p \in Blocks \X (1..MaxAlloc) : p[2] <= Held(w, p[1], c)}

Take(w, c) == Sold(w, c) + Blocked(w, c)

\* Part of a finite set is finite, and has no more elements.
LEMMA Part ==
  ASSUME NEW S, NEW T, S \subseteq T, IsFiniteSet(T)
  PROVE  /\ IsFiniteSet(S) /\ Cardinality(S) \in Nat /\ Cardinality(T) \in Nat
         /\ Cardinality(S) <= Cardinality(T)
BY FS_Subset, FS_CardinalityType

LEMMA FiniteCounts ==
  ASSUME NEW w, NEW c, NEW b
  PROVE  /\ IsFiniteSet(UsableRooms(w, c)) /\ IsFiniteSet(Sellers(w, c))
         /\ IsFiniteSet(Pickers(w, b, c)) /\ IsFiniteSet(Holds(w, c))
<1>1. IsFiniteSet(1..MaxAlloc)
  BY FS_Interval, BoundsAssumption
<1>2. IsFiniteSet(Blocks \X (1..MaxAlloc))
  BY <1>1, FS_Product, FiniteAssumption
<1>3. UsableRooms(w, c) \subseteq Rooms /\ Sellers(w, c) \subseteq Ids
      /\ Pickers(w, b, c) \subseteq Ids /\ Holds(w, c) \subseteq Blocks \X (1..MaxAlloc)
  BY DEF UsableRooms, Sellers, Pickers, Holds
<1> QED
  BY <1>2, <1>3, Part, FiniteAssumption

\* The counts are natural numbers in every world.
LEMMA CountTypes ==
  ASSUME NEW w, NEW c, NEW b
  PROVE  /\ Sold(w, c) \in Nat /\ Picked(w, b, c) \in Nat /\ Blocked(w, c) \in Nat
         /\ Physical(w, c[1]) \in Nat /\ OutOfOrder(w, c) \in Nat
         /\ Sold(w, c) = Cardinality(Sellers(w, c))
         /\ Picked(w, b, c) = Cardinality(Pickers(w, b, c))
         /\ Blocked(w, c) = Cardinality(Holds(w, c))
<1> DEFINE P == {r \in Rooms : w.room[r].active /\ w.room[r].type = c[1]}
           O == {r \in Rooms : OutOfUse(w.room[r], c)}
<1>1. IsFiniteSet(P) /\ IsFiniteSet(O)
  <2>1. P \subseteq Rooms /\ O \subseteq Rooms
    OBVIOUS
  <2> QED
    BY <2>1, Part, FiniteAssumption
<1>2. Sold(w, c) = Cardinality(Sellers(w, c)) /\ Picked(w, b, c) = Cardinality(Pickers(w, b, c))
      /\ Blocked(w, c) = Cardinality(Holds(w, c))
      /\ Physical(w, c[1]) = Cardinality(P) /\ OutOfOrder(w, c) = Cardinality(O)
  BY DEF Sold, Picked, Blocked, Physical, OutOfOrder, Sellers, Pickers, Holds
<1> QED
  BY <1>1, <1>2, FiniteCounts, FS_CardinalityType

\* What a cell has left: the rooms that can be used, less what is sold or blocked.
LEMMA SpareUsable ==
  ASSUME NEW w, NEW c
  PROVE  /\ Spare(w, c) = Cardinality(UsableRooms(w, c)) - Take(w, c)
         /\ Take(w, c) \in Nat /\ Spare(w, c) \in Int
<1> DEFINE P == {r \in Rooms : w.room[r].active /\ w.room[r].type = c[1]}
           O == {r \in Rooms : OutOfUse(w.room[r], c)}
<1>1. P \subseteq Rooms /\ O \subseteq P /\ UsableRooms(w, c) = P \ O
  BY DEF OutOfUse, UsableRooms, Usable
<1>2. IsFiniteSet(P) /\ IsFiniteSet(O)
  BY <1>1, Part, FiniteAssumption
<1>3. P \cap O = O
  BY <1>1
<1> HIDE DEF P, O
<1>4. Cardinality(P \ O) = Cardinality(P) - Cardinality(O)
  BY <1>2, <1>3, FS_Difference
<1>5. Physical(w, c[1]) = Cardinality(P) /\ OutOfOrder(w, c) = Cardinality(O)
  BY DEF Physical, OutOfOrder, P, O
<1>6. Sold(w, c) \in Nat /\ Blocked(w, c) \in Nat
      /\ Cardinality(P) \in Nat /\ Cardinality(O) \in Nat
  BY CountTypes, <1>2, FS_CardinalityType
<1> QED
  BY <1>1, <1>4, <1>5, <1>6 DEF Spare, Take

\* As many rooms usable and no more taken leave no less.
LEMMA SpareMono ==
  ASSUME NEW v, NEW w, NEW c,
         \A r \in Rooms : Usable(v.room[r], c) => Usable(w.room[r], c),
         Take(w, c) <= Take(v, c)
  PROVE  Spare(w, c) >= Spare(v, c)
<1>1. UsableRooms(v, c) \subseteq UsableRooms(w, c)
  BY DEF UsableRooms
<1>2. /\ Cardinality(UsableRooms(v, c)) <= Cardinality(UsableRooms(w, c))
      /\ Cardinality(UsableRooms(v, c)) \in Nat /\ Cardinality(UsableRooms(w, c)) \in Nat
  BY <1>1, FiniteCounts, Part
<1> QED
  BY <1>2, SpareUsable

\* Taking one room away leaves at most one less.
LEMMA SpareOneRoom ==
  ASSUME NEW v, NEW w, NEW c, NEW r \in Rooms,
         \A q \in Rooms \ {r} : Usable(v.room[q], c) => Usable(w.room[q], c),
         Take(w, c) <= Take(v, c)
  PROVE  Spare(w, c) >= Spare(v, c) - 1
<1> DEFINE U == UsableRooms(v, c)  V == UsableRooms(w, c)
<1>1. IsFiniteSet(U) /\ IsFiniteSet(V) /\ Cardinality(U) \in Nat /\ Cardinality(V) \in Nat
  BY FiniteCounts, FS_CardinalityType
<1>2. U \ {r} \subseteq V
  BY DEF UsableRooms
<1>3. Spare(v, c) = Cardinality(U) - Take(v, c) /\ Spare(w, c) = Cardinality(V) - Take(w, c)
      /\ Take(v, c) \in Nat /\ Take(w, c) \in Nat
  BY SpareUsable
<1> HIDE DEF U, V
<1>4. Cardinality(U \ {r}) = IF r \in U THEN Cardinality(U) - 1 ELSE Cardinality(U)
  BY <1>1, FS_RemoveElement
<1>5. Cardinality(U \ {r}) <= Cardinality(V)
  BY <1>1, <1>2, Part
<1> QED
  BY <1>1, <1>3, <1>4, <1>5

----------------------------------------------------------------------------
(* What the blocks hold.                                                    *)

LEMMA HeldOfRange ==
  ASSUME NEW row \in Block \cup {NoBlock}, NEW c \in Cells, NEW n \in Nat
  PROVE  /\ RemainingRooms(row, c, n) \in 0..MaxAlloc /\ HeldOf(row, c, n) \in 0..MaxAlloc
         /\ row.alloc[c] \in Int /\ row.released[c] \in Nat
<1>1. row.alloc[c] \in NoRow..MaxAlloc /\ row.released[c] \in 0..MaxAlloc
  BY BoundsAssumption DEF Block, NoBlock, NoRow
<1> QED
  BY <1>1, BoundsAssumption DEF RemainingRooms, HeldOf, Max0, NoRow

LEMMA HeldRange ==
  ASSUME NEW w \in Worlds, NEW b \in Blocks, NEW c \in Cells
  PROVE  Held(w, b, c) \in 0..MaxAlloc /\ Left(w, b, c) \in 0..MaxAlloc
<1>1. w.blk[b] \in Block \cup {NoBlock} /\ Picked(w, b, c) \in Nat
  BY CountTypes DEF Worlds
<1> QED
  BY <1>1, HeldOfRange DEF Held, Left

\* The more is picked up of a block, the less it holds.
LEMMA HeldAntitone ==
  ASSUME NEW row \in Block \cup {NoBlock}, NEW c \in Cells, NEW m \in Nat, NEW n \in Nat, m <= n
  PROVE  HeldOf(row, c, n) <= HeldOf(row, c, m) /\ HeldOf(row, c, m) <= HeldOf(row, c, n) + (n - m)
BY HeldOfRange DEF HeldOf, RemainingRooms, Max0

\* If no block holds more, no more is blocked.
LEMMA BlockedMono ==
  ASSUME NEW v \in Worlds, NEW w \in Worlds, NEW c \in Cells,
         \A b \in Blocks : Held(w, b, c) <= Held(v, b, c)
  PROVE  Blocked(w, c) <= Blocked(v, c)
<1>1. \A b \in Blocks : Held(w, b, c) \in Nat /\ Held(v, b, c) \in Nat
  BY HeldRange
<1>2. Holds(w, c) \subseteq Holds(v, c)
  BY <1>1 DEF Holds
<1> QED
  BY <1>2, FiniteCounts, Part, CountTypes

\* A change of one block's hold changes what is blocked by as much.
LEMMA BlockedOne ==
  ASSUME NEW v \in Worlds, NEW w \in Worlds, NEW c \in Cells, NEW b \in Blocks,
         \A a \in Blocks \ {b} : Held(w, a, c) = Held(v, a, c)
  PROVE  Blocked(w, c) - Held(w, b, c) = Blocked(v, c) - Held(v, b, c)
<1> DEFINE Own(u) == {p \in Holds(u, c) : p[1] = b}
           Rest(u) == {p \in Holds(u, c) : p[1] # b}
<1>1. Rest(v) = Rest(w)
  BY DEF Holds
<1>2. ASSUME NEW u \in Worlds
      PROVE  Blocked(u, c) = Held(u, b, c) + Cardinality(Rest(u)) /\ Cardinality(Rest(u)) \in Nat
  <2>1. Held(u, b, c) \in 0..MaxAlloc
    BY HeldRange
  <2>2. Own(u) = {b} \X (1..Held(u, b, c))
    BY <2>1, BoundsAssumption DEF Holds
  <2>3. IsFiniteSet({b}) /\ Cardinality({b}) = 1
    BY FS_Singleton
  <2>4. IsFiniteSet(1..Held(u, b, c)) /\ Cardinality(1..Held(u, b, c)) = Held(u, b, c)
    BY <2>1, FS_Interval
  <2>5. IsFiniteSet(Own(u)) /\ Cardinality(Own(u)) = Held(u, b, c)
    <3> HIDE DEF Own
    <3>1. /\ IsFiniteSet({b} \X (1..Held(u, b, c)))
          /\ Cardinality({b} \X (1..Held(u, b, c))) = Cardinality({b}) * Cardinality(1..Held(u, b, c))
      BY <2>3, <2>4, FS_Product
    <3>2. Cardinality({b}) * Cardinality(1..Held(u, b, c)) = Held(u, b, c)
      BY <2>1, <2>3, <2>4
    <3> QED
      BY <2>2, <3>1, <3>2
  <2>6. IsFiniteSet(Rest(u)) /\ Cardinality(Rest(u)) \in Nat
    <3>1. Rest(u) \subseteq Holds(u, c) /\ IsFiniteSet(Holds(u, c))
      BY FiniteCounts
    <3> QED
      BY <3>1, Part
  <2>7. Holds(u, c) = Own(u) \cup Rest(u) /\ Own(u) \cap Rest(u) = {}
    OBVIOUS
  <2> HIDE DEF Own, Rest
  <2>8. Cardinality(Own(u) \cup Rest(u)) = Cardinality(Own(u)) + Cardinality(Rest(u)) - Cardinality({})
    BY <2>5, <2>6, <2>7, FS_Union
  <2>9. Cardinality({}) = 0
    BY FS_EmptySet
  <2>10. Blocked(u, c) = Cardinality(Holds(u, c))
    BY CountTypes
  <2> QED
    BY <2>1, <2>5, <2>6, <2>7, <2>8, <2>9, <2>10
<1>3. Held(v, b, c) \in Nat /\ Held(w, b, c) \in Nat
  BY HeldRange
<1> HIDE DEF Own, Rest
<1> QED
  BY <1>1, <1>2, <1>3

----------------------------------------------------------------------------
(* What the commands do to a cell, from world v to world w.                  *)

\* Worlds v and w count the same reservations, pickups and holds in cell c.
SameTake(v, w, c) ==
  /\ \A i \in Ids : Sells(v.res[i], c) <=> Sells(w.res[i], c)
  /\ \A i \in Ids, b \in Blocks : Picks(v.res[i], b, c) <=> Picks(w.res[i], b, c)
  /\ \A b \in Blocks, n \in Nat : HeldOf(v.blk[b], c, n) = HeldOf(w.blk[b], c, n)

\* A room counts for cell c, and is out of use in it, in p as in q; so do all rooms.
SameRoom(p, q, c) ==
  /\ p.active /\ p.type = c[1] <=> q.active /\ q.type = c[1]
  /\ OutOfUse(p, c) <=> OutOfUse(q, c)

SameUse(v, w, c) == \A r \in Rooms : SameRoom(v.room[r], w.room[r], c)

\* Every room that counts for cell c in v does so in w.
NoLess(v, w, c) == \A r \in Rooms : Usable(v.room[r], c) => Usable(w.room[r], c)

LEMMA TakeSame ==
  ASSUME NEW v \in Worlds, NEW w \in Worlds, NEW c \in Cells, SameTake(v, w, c)
  PROVE  Sold(v, c) = Sold(w, c) /\ Blocked(v, c) = Blocked(w, c) /\ Take(v, c) = Take(w, c)
<1>1. Sold(v, c) = Sold(w, c)
  BY DEF SameTake, Sold
<1>2. ASSUME NEW b \in Blocks PROVE Held(v, b, c) = Held(w, b, c)
  <2>1. Picked(v, b, c) = Picked(w, b, c)
    BY DEF SameTake, Picked
  <2>2. Picked(v, b, c) \in Nat
    BY CountTypes
  <2> QED
    BY <2>1, <2>2 DEF SameTake, Held
<1>3. Holds(v, c) = Holds(w, c)
  BY <1>2 DEF Holds
<1>4. Blocked(v, c) = Cardinality(Holds(v, c)) /\ Blocked(w, c) = Cardinality(Holds(w, c))
  BY CountTypes
<1> QED
  BY <1>1, <1>3, <1>4 DEF Take

\* Worlds in which the same is taken and the same rooms are in use have the same counters.
LEMMA RecountSame ==
  ASSUME NEW v \in Worlds, NEW w \in Worlds, NEW c \in Cells, SameTake(v, w, c), SameUse(v, w, c)
  PROVE  Recount(v, c) = Recount(w, c)
<1>1. Sold(v, c) = Sold(w, c) /\ Blocked(v, c) = Blocked(w, c)
  BY TakeSame
<1>2. Physical(v, c[1]) = Physical(w, c[1])
  BY DEF SameUse, SameRoom, Physical
<1>3. OutOfOrder(v, c) = OutOfOrder(w, c)
  BY DEF SameUse, SameRoom, OutOfOrder
<1> QED
  BY <1>1, <1>2, <1>3 DEF Recount

\* More pickups of the same blocks leave no more blocked.
LEMMA PicksGrow ==
  ASSUME NEW v \in Worlds, NEW w \in Worlds, NEW c \in Cells, w.blk = v.blk,
         \A i \in Ids, b \in Blocks : Picks(v.res[i], b, c) => Picks(w.res[i], b, c)
  PROVE  Blocked(w, c) <= Blocked(v, c)
<1>1. ASSUME NEW b \in Blocks PROVE Held(w, b, c) <= Held(v, b, c)
  <2>1. Pickers(v, b, c) \subseteq Pickers(w, b, c)
    BY DEF Pickers
  <2>2. Cardinality(Pickers(v, b, c)) <= Cardinality(Pickers(w, b, c))
    BY <2>1, FiniteCounts, Part
  <2>3. Picked(v, b, c) = Cardinality(Pickers(v, b, c)) /\ Picked(w, b, c) = Cardinality(Pickers(w, b, c))
        /\ Picked(v, b, c) \in Nat /\ Picked(w, b, c) \in Nat
    BY CountTypes
  <2>4. v.blk[b] \in Block \cup {NoBlock}
    BY DEF Worlds
  <2> QED
    BY <2>2, <2>3, <2>4, HeldAntitone DEF Held
<1> QED
  BY <1>1, BlockedMono

\* The house sells the stays I: as many rooms less are left.
LEMMA HouseSale ==
  ASSUME NEW v \in Worlds, NEW w \in Worlds, NEW c \in Cells, NEW I, I \subseteq Ids,
         w.blk = v.blk, w.room = v.room,
         \A i \in Ids \ I : Sells(w.res[i], c) => Sells(v.res[i], c),
         \A i \in Ids, b \in Blocks : Picks(v.res[i], b, c) => Picks(w.res[i], b, c)
  PROVE  Spare(w, c) >= Spare(v, c) - Cardinality(I)
<1>1. Sellers(w, c) \subseteq Sellers(v, c) \cup I
  BY DEF Sellers
<1>2. IsFiniteSet(I) /\ IsFiniteSet(Sellers(v, c)) /\ IsFiniteSet(Sellers(w, c))
  BY Part, FiniteAssumption, FiniteCounts
<1>3. /\ IsFiniteSet(Sellers(v, c) \cup I)
      /\ Cardinality(Sellers(v, c) \cup I)
           = Cardinality(Sellers(v, c)) + Cardinality(I) - Cardinality(Sellers(v, c) \cap I)
  BY <1>2, FS_Union
<1>4. Cardinality(Sellers(v, c) \cap I) \in Nat /\ Cardinality(I) \in Nat
  BY <1>2, FS_Intersection, FS_CardinalityType
<1>5. Cardinality(Sellers(w, c)) <= Cardinality(Sellers(v, c) \cup I)
  BY <1>1, <1>3, Part
<1>6. Sold(v, c) = Cardinality(Sellers(v, c)) /\ Sold(w, c) = Cardinality(Sellers(w, c))
      /\ Sold(v, c) \in Nat /\ Sold(w, c) \in Nat
      /\ Blocked(v, c) \in Nat /\ Blocked(w, c) \in Nat
      /\ Physical(v, c[1]) \in Nat /\ OutOfOrder(v, c) \in Nat
  BY CountTypes
<1>7. Sold(w, c) <= Sold(v, c) + Cardinality(I)
  BY <1>3, <1>4, <1>5, <1>6
<1>8. Blocked(w, c) <= Blocked(v, c)
  BY PicksGrow
<1>9. Physical(w, c[1]) = Physical(v, c[1]) /\ OutOfOrder(w, c) = OutOfOrder(v, c)
  BY DEF Physical, OutOfOrder
<1> QED
  BY <1>4, <1>6, <1>7, <1>8, <1>9 DEF Spare

\* A stay gives nights back, to its block or to the house: no more is taken.
LEMMA GiveBack ==
  ASSUME NEW v \in Worlds, NEW w \in Worlds, NEW c \in Cells, NEW i \in Ids,
         w.blk = v.blk, w.res[i].block = v.res[i].block,
         \A j \in Ids \ {i} : w.res[j] = v.res[j],
         Sells(w.res[i], c) => Sells(v.res[i], c),
         \A b \in Blocks : Picks(v.res[i], b, c) =>
            Picks(w.res[i], b, c) \/ (Sells(v.res[i], c) /\ ~Sells(w.res[i], c))
  PROVE  Take(w, c) <= Take(v, c)
<1> DEFINE a == v.res[i].block
<1>1. Sold(v, c) = Cardinality(Sellers(v, c)) /\ Sold(w, c) = Cardinality(Sellers(w, c))
      /\ Sold(v, c) \in Nat /\ Sold(w, c) \in Nat
      /\ Blocked(v, c) \in Nat /\ Blocked(w, c) \in Nat
  BY CountTypes
<1>2. CASE ~(Sells(v.res[i], c) /\ ~Sells(w.res[i], c))
  <2>1. Sellers(w, c) \subseteq Sellers(v, c)
    BY DEF Sellers
  <2>2. Sold(w, c) <= Sold(v, c)
    BY <1>1, <2>1, FiniteCounts, Part
  <2>3. Blocked(w, c) <= Blocked(v, c)
    BY <1>2, PicksGrow
  <2> QED
    BY <1>1, <2>2, <2>3 DEF Take
<1>3. CASE Sells(v.res[i], c) /\ ~Sells(w.res[i], c)
  <2>1. Sellers(w, c) = Sellers(v, c) \ {i} /\ i \in Sellers(v, c)
    BY <1>3 DEF Sellers
  <2>2. Sold(w, c) = Sold(v, c) - 1
    BY <1>1, <2>1, FiniteCounts, FS_RemoveElement
  <2>3. \A b \in Blocks : b # a => Held(w, b, c) = Held(v, b, c)
    <3>1. ASSUME NEW b \in Blocks, b # a PROVE Pickers(w, b, c) = Pickers(v, b, c)
      BY <3>1 DEF Pickers, Picks
    <3> QED
      BY <3>1, CountTypes DEF Held
  <2>4. Blocked(w, c) <= Blocked(v, c) + 1
    <3>1. CASE a \in Blocks
      <4>1. Pickers(v, a, c) \ {i} \subseteq Pickers(w, a, c)
        BY DEF Pickers
      <4>2. IsFiniteSet(Pickers(v, a, c)) /\ IsFiniteSet(Pickers(w, a, c))
        BY FiniteCounts
      <4>3. Cardinality(Pickers(v, a, c) \ {i})
              = IF i \in Pickers(v, a, c) THEN Cardinality(Pickers(v, a, c)) - 1
                                          ELSE Cardinality(Pickers(v, a, c))
        BY <4>2, FS_RemoveElement
      <4>4. Cardinality(Pickers(v, a, c) \ {i}) <= Cardinality(Pickers(w, a, c))
        BY <4>1, <4>2, Part
      <4>5. /\ Picked(v, a, c) = Cardinality(Pickers(v, a, c)) /\ Picked(v, a, c) \in Nat
            /\ Picked(w, a, c) = Cardinality(Pickers(w, a, c)) /\ Picked(w, a, c) \in Nat
        BY CountTypes
      <4>6. Picked(v, a, c) <= Picked(w, a, c) + 1
        BY <4>3, <4>4, <4>5
      <4>7. v.blk[a] \in Block \cup {NoBlock}
        BY <3>1 DEF Worlds
      <4>8. /\ HeldOf(v.blk[a], c, Picked(w, a, c) + 1) <= HeldOf(v.blk[a], c, Picked(w, a, c))
            /\ HeldOf(v.blk[a], c, Picked(w, a, c))
                 <= HeldOf(v.blk[a], c, Picked(w, a, c) + 1) + ((Picked(w, a, c) + 1) - Picked(w, a, c))
        BY <4>5, <4>7, HeldAntitone
      <4>9. HeldOf(v.blk[a], c, Picked(w, a, c) + 1) <= HeldOf(v.blk[a], c, Picked(v, a, c))
        <5>1. Picked(w, a, c) + 1 \in Nat
          BY <4>5
        <5> QED
          BY <4>5, <4>6, <4>7, <5>1, HeldAntitone
      <4>10. Held(v, a, c) \in Nat /\ Held(w, a, c) \in Nat
             /\ HeldOf(v.blk[a], c, Picked(w, a, c) + 1) \in Nat
        <5>1. Picked(w, a, c) + 1 \in Nat
          BY <4>5
        <5>2. Held(v, a, c) \in Nat /\ Held(w, a, c) \in Nat
          BY <3>1, HeldRange
        <5>3. HeldOf(v.blk[a], c, Picked(w, a, c) + 1) \in Nat
          BY <4>7, <5>1, HeldOfRange
        <5> QED
          BY <5>2, <5>3
      <4>11. Held(w, a, c) <= Held(v, a, c) + 1
        BY <4>5, <4>8, <4>9, <4>10 DEF Held
      <4>12. Blocked(w, c) - Held(w, a, c) = Blocked(v, c) - Held(v, a, c)
        BY <2>3, <3>1, BlockedOne
      <4> QED
        BY <1>1, <4>10, <4>11, <4>12
    <3>2. CASE a \notin Blocks
      <4>1. \A b \in Blocks : Held(w, b, c) <= Held(v, b, c)
        BY <2>3, <3>2, HeldRange
      <4> QED
        BY <1>1, <4>1, BlockedMono
    <3> QED
      BY <3>1, <3>2
  <2> QED
    BY <1>1, <2>2, <2>4 DEF Take
<1> QED
  BY <1>2, <1>3

\* A block gets another row, for which the house without the block has the rooms.
LEMMA BlockRow ==
  ASSUME NEW v \in Worlds, NEW w \in Worlds, NEW u \in Worlds, NEW c \in Cells, NEW b \in Blocks,
         w.res = v.res, u.res = v.res, w.room = v.room, u.room = v.room,
         \A a \in Blocks \ {b} : w.blk[a] = v.blk[a] /\ u.blk[a] = v.blk[a],
         u.blk[b] = NoBlock,
         w.blk[b].status = "DEDUCT" =>
           RemainingRooms(w.blk[b], c, Picked(v, b, c)) <= Max0(Spare(u, c))
  PROVE  Spare(w, c) >= 0 \/ Take(w, c) <= Take(v, c)
<1>1. \A a \in Blocks : Picked(w, a, c) = Picked(v, a, c) /\ Picked(u, a, c) = Picked(v, a, c)
  BY DEF Picked
<1>2. \A a \in Blocks \ {b} : Held(w, a, c) = Held(v, a, c) /\ Held(u, a, c) = Held(v, a, c)
  BY <1>1 DEF Held
<1>3. Held(u, b, c) = 0
  BY DEF Held, HeldOf, NoBlock
<1>4. /\ Blocked(w, c) - Held(w, b, c) = Blocked(v, c) - Held(v, b, c)
      /\ Blocked(u, c) - Held(u, b, c) = Blocked(v, c) - Held(v, b, c)
  BY <1>2, BlockedOne
<1>5. Held(w, b, c) \in Nat /\ Held(v, b, c) \in Nat
  BY HeldRange
<1>6. Sold(w, c) = Sold(v, c) /\ Sold(u, c) = Sold(v, c)
      /\ Physical(w, c[1]) = Physical(u, c[1]) /\ OutOfOrder(w, c) = OutOfOrder(u, c)
  BY DEF Sold, Physical, OutOfOrder
<1>7. /\ Sold(v, c) \in Nat /\ Blocked(v, c) \in Nat /\ Blocked(w, c) \in Nat
      /\ Blocked(u, c) \in Nat /\ Physical(u, c[1]) \in Nat /\ OutOfOrder(u, c) \in Nat
  BY CountTypes
<1>8. CASE Held(w, b, c) = 0
  BY <1>4, <1>5, <1>6, <1>7, <1>8 DEF Take
<1>9. CASE Held(w, b, c) # 0
  <2>1. w.blk[b].status = "DEDUCT"
        /\ Held(w, b, c) = RemainingRooms(w.blk[b], c, Picked(v, b, c))
    BY <1>1, <1>9 DEF Held, HeldOf
  <2>2. Held(w, b, c) <= Max0(Spare(u, c))
    BY <2>1
  <2>3. Spare(u, c) \in Int
    BY SpareUsable
  <2>4. Held(w, b, c) <= Spare(u, c)
    BY <1>5, <1>9, <2>2, <2>3 DEF Max0
  <2>5. Spare(w, c) = Spare(u, c) - Held(w, b, c)
    BY <1>3, <1>4, <1>5, <1>6, <1>7 DEF Spare
  <2> QED
    BY <1>5, <2>3, <2>4, <2>5
<1> QED
  BY <1>8, <1>9

\* The stays I are picked up from block b: neutral if the block holds the rooms,
\* covered if it does with what the house has left.
LEMMA PickupSale ==
  ASSUME NEW v \in Worlds, NEW w \in Worlds, NEW c \in Cells, NEW I, I \subseteq Ids,
         NEW b \in Blocks, w.blk = v.blk, w.room = v.room, v.blk[b].status = "DEDUCT",
         \A i \in Ids \ I : w.res[i] = v.res[i],
         \A i \in I : ~Sells(v.res[i], c) /\ \A a \in Blocks : ~Picks(v.res[i], a, c),
         \A i \in I : Sells(w.res[i], c) /\ Picks(w.res[i], b, c)
  PROVE  /\ Left(v, b, c) >= Cardinality(I) => Take(w, c) = Take(v, c)
         /\ Left(v, b, c) + Max0(Spare(v, c)) >= Cardinality(I)
              => Take(w, c) <= Take(v, c) \/ Spare(w, c) >= 0
<1> DEFINE n == Cardinality(I)
<1>1. IsFiniteSet(I) /\ n \in Nat
  BY Part, FiniteAssumption
<1>2. ASSUME NEW S, NEW T, IsFiniteSet(S), T = S \cup I, S \cap I = {}
      PROVE  Cardinality(T) = Cardinality(S) + n
  <2>1. Cardinality(S) \in Nat /\ Cardinality({}) = 0
    BY <1>2, FS_CardinalityType, FS_EmptySet
  <2>2. Cardinality(T) = Cardinality(S) + Cardinality(I) - Cardinality({})
    BY <1>1, <1>2, FS_Union
  <2> HIDE DEF n
  <2>3. Cardinality(I) = n
    BY DEF n
  <2> QED
    BY <1>1, <2>1, <2>2, <2>3
<1>3. Sold(w, c) = Sold(v, c) + n
  <2>1. Sellers(w, c) = Sellers(v, c) \cup I /\ Sellers(v, c) \cap I = {}
    BY DEF Sellers
  <2>2. Cardinality(Sellers(w, c)) = Cardinality(Sellers(v, c)) + n
    BY <1>2, <2>1, FiniteCounts
  <2> QED
    BY <2>2, CountTypes
<1>4. Picked(w, b, c) = Picked(v, b, c) + n
  <2>1. Pickers(w, b, c) = Pickers(v, b, c) \cup I /\ Pickers(v, b, c) \cap I = {}
    BY DEF Pickers
  <2>2. Cardinality(Pickers(w, b, c)) = Cardinality(Pickers(v, b, c)) + n
    BY <1>2, <2>1, FiniteCounts
  <2> QED
    BY <2>2, CountTypes
<1>5. \A a \in Blocks \ {b} : Held(w, a, c) = Held(v, a, c)
  <2>1. ASSUME NEW a \in Blocks \ {b} PROVE Pickers(w, a, c) = Pickers(v, a, c)
    <3>1. \A i \in I : ~Picks(w.res[i], a, c) /\ ~Picks(v.res[i], a, c)
      BY DEF Picks
    <3> QED
      BY <3>1 DEF Pickers
  <2> QED
    BY <2>1, CountTypes DEF Held
<1>6. Blocked(w, c) - Held(w, b, c) = Blocked(v, c) - Held(v, b, c)
  BY <1>5, BlockedOne
<1>7. /\ Picked(v, b, c) \in Nat /\ Sold(v, c) \in Nat /\ Sold(w, c) \in Nat
      /\ Blocked(v, c) \in Nat /\ Blocked(w, c) \in Nat
      /\ Physical(v, c[1]) \in Nat /\ OutOfOrder(v, c) \in Nat
  BY CountTypes
<1>8. Physical(w, c[1]) = Physical(v, c[1]) /\ OutOfOrder(w, c) = OutOfOrder(v, c)
  BY DEF Physical, OutOfOrder
<1> DEFINE h == v.blk[b].alloc[c] - v.blk[b].released[c] - Picked(v, b, c)
<1>9. h \in Int /\ Held(v, b, c) = Max0(h) /\ Held(w, b, c) = Max0(h - n) /\ Left(v, b, c) = Max0(h)
  <2>1. v.blk[b].alloc[c] \in Int /\ v.blk[b].released[c] \in Nat
    <3>1. v.blk[b] \in Block \cup {NoBlock} /\ 0 \in Nat
      BY DEF Worlds
    <3> QED
      BY <3>1, HeldOfRange
  <2>2. h - n = v.blk[b].alloc[c] - v.blk[b].released[c] - (Picked(v, b, c) + n)
    BY <1>1, <1>7, <2>1
  <2> QED
    BY <1>4, <1>7, <2>1, <2>2 DEF Held, HeldOf, Left, RemainingRooms
<1> HIDE DEF n, h
<1>10. /\ Left(v, b, c) >= n => Take(w, c) = Take(v, c)
  BY <1>1, <1>3, <1>6, <1>7, <1>9 DEF Take, Max0
<1>11. ASSUME Left(v, b, c) + Max0(Spare(v, c)) >= n
       PROVE  Take(w, c) <= Take(v, c) \/ Spare(w, c) >= 0
  <2>1. Spare(v, c) \in Int
    BY SpareUsable
  <2>2. Spare(w, c) = Spare(v, c) - n + Held(v, b, c) - Held(w, b, c)
    BY <1>1, <1>3, <1>6, <1>7, <1>8, <1>9 DEF Spare, Max0
  <2> QED
    BY <1>1, <1>7, <1>9, <1>10, <1>11, <2>1, <2>2 DEF Max0, Take
<1> QED
  BY <1>10, <1>11 DEF n

----------------------------------------------------------------------------
(* The inductive invariant.                                                 *)

\* No room is taken from the house by an edit: updateRoom does not look at what the
\* house has sold.
RoomsKept == "editRoom" \in Commands => Edits \cap {"retire", "retype"} = {}

\* A block has allocations only for its own nights.
GridOK(row) == \A c \in Cells : row.alloc[c] # NoRow => c[2] \in row.from..(row.to - 1)

\* A booking of a block is confirmed, and never waits.
PickupRow(row) == row.block # None => row.deducts /\ row.status # "WAITLISTED"

Active(row, b) == row.block = b /\ row.status \in {"RESERVED", "IN_HOUSE"}

\* A transaction that only reads so far has written nothing.
Quiet(t) ==
  t.pc # "ready" =>
    /\ t.cells = {} /\ t.share = {} /\ ~t.override
    /\ t.res = Idle.res /\ t.blk = Idle.blk /\ t.room = Idle.room

\* The room it has read is still there, and of the type it has read.
RefOK(t) ==
  /\ t.pc = "read" /\ t.kind \in {"place", "return"} => t.ref # None
  /\ t.ref # None => room[t.ref.room] \in Room
                     /\ (RoomsKept => room[t.ref.room].type = t.ref.type)

\* A pickup it makes active is of a definite block that it holds; a block it makes
\* less than definite has no active pickup.
PickupSafe(t) ==
  /\ t.share \cap Written(t.blk) = {}
  /\ \A i \in Written(t.res) :
       /\ PickupRow(t.res[i])
       /\ \A b \in Blocks : Active(t.res[i], b) =>
            Active(res[i], b) \/ (b \in t.share /\ blk[b].status = "DEDUCT")
  /\ \A b \in Written(t.blk) :
       /\ GridOK(t.blk[b])
       /\ t.blk[b].status # "DEDUCT" => \A i \in Ids : ~Active(res[i], b)

\* Outside the cells it holds, what a transaction writes changes nothing.
Isolated(t) ==
  \A c \in Ahead \ t.cells : SameTake(World, After(t), c) /\ NoLess(World, After(t), c)

\* Inside them it leaves no cell short, or takes no more than before.
Covered(t) ==
  t.override \/ \A c \in Ahead :
    \/ Spare(After(t), c) >= 0
    \/ Take(After(t), c) <= Take(World, c) /\ NoLess(World, After(t), c)

\* A pickup within a block that is not elastic takes what the block held.
Neutral(t) ==
  \A b \in t.share : ~t.override /\ ~blk[b].elastic =>
    /\ t.room = Idle.room
    /\ \A c \in Ahead : Take(After(t), c) = Take(World, c)

TypesKept(t) == \A r \in Written(t.room) : room[r] \in Room => t.room[r].type = room[r].type

CoverSafe(t) == TypesKept(t) /\ Isolated(t) /\ Covered(t) /\ Neutral(t)

Sound(t) == PickupSafe(t) /\ (RoomsKept => CoverSafe(t))

IInv ==
  /\ TypeOK
  /\ \A k \in Clients :
       /\ Lockable(k, tx[k]) /\ Quiet(tx[k]) /\ RefOK(tx[k])
       /\ tx[k].override \in Override
  /\ \A b \in Blocks : GridOK(blk[b])
  /\ \A i \in Ids : PickupRow(res[i])
  /\ PickupsInDefiniteBlocks
  /\ \A k \in Ready : Sound(tx[k])
  /\ RoomsKept /\ ~Overrides => NoOversale

----------------------------------------------------------------------------
(* Types.                                                                   *)

LEMMA IdleType ==
  /\ Idle \in Transaction /\ Idle.pc = "idle" /\ Idle.cells = {} /\ Idle.share = {}
  /\ ~Idle.override /\ Idle.group = None /\ Idle.ref = None /\ Idle.fresh = {}
  /\ Idle.kind = "none"
  /\ Written(Idle.res) = {} /\ Written(Idle.blk) = {} /\ Written(Idle.room) = {}
<1>1. Idle \in Transaction
  BY DEF Idle, Transaction
<1>2. Written(Idle.res) = {} /\ Written(Idle.blk) = {} /\ Written(Idle.room) = {}
  BY DEF Idle, Written
<1> QED
  BY <1>1, <1>2 DEF Idle

LEMMA OverrideType == FALSE \in Override /\ Override \subseteq BOOLEAN
BY OverridesAssumption DEF Override

LEMMA RowTypes ==
  NoBooking \notin Booking /\ NoBlock \notin Block /\ NoRoom \notin Room
BY NoneAssumption DEF NoBooking, Booking, NoBlock, Block, NoRoom, Room

\* The database as a transaction sees it, row by row.
LEMMA AfterRows ==
  ASSUME TypeOK, NEW t \in Transaction
  PROVE  /\ World \in Worlds /\ After(t) \in Worlds
         /\ After(t).res \in [Ids -> Booking \cup {NoBooking}]
         /\ After(t).blk \in [Blocks -> Block \cup {NoBlock}]
         /\ After(t).room \in [Rooms -> Room \cup {NoRoom}]
         /\ World.res = res /\ World.blk = blk /\ World.room = room
         /\ \A i \in Ids : After(t).res[i] = IF t.res[i] # None THEN t.res[i] ELSE res[i]
         /\ \A b \in Blocks : After(t).blk[b] = IF t.blk[b] # None THEN t.blk[b] ELSE blk[b]
         /\ \A r \in Rooms : After(t).room[r] = IF t.room[r] # None THEN t.room[r] ELSE room[r]
         /\ Written(t.res) = {i \in Ids : t.res[i] # None}
         /\ Written(t.blk) = {b \in Blocks : t.blk[b] # None}
         /\ Written(t.room) = {r \in Rooms : t.room[r] # None}
         /\ t.res = Idle.res => After(t).res = res
         /\ t.blk = Idle.blk => After(t).blk = blk
         /\ t.room = Idle.room => After(t).room = room
<1>1. /\ res \in [Ids -> Booking \cup {NoBooking}] /\ t.res \in [Ids -> Booking \cup {None}]
      /\ blk \in [Blocks -> Block \cup {NoBlock}] /\ t.blk \in [Blocks -> Block \cup {None}]
      /\ room \in [Rooms -> Room \cup {NoRoom}] /\ t.room \in [Rooms -> Room \cup {None}]
  BY DEF TypeOK, Transaction
<1>2. /\ After(t).res = Overlay(t.res, res) /\ After(t).blk = Overlay(t.blk, blk)
      /\ After(t).room = Overlay(t.room, room)
      /\ World.res = res /\ World.blk = blk /\ World.room = room
      /\ Idle.res = [i \in Ids |-> None] /\ Idle.blk = [b \in Blocks |-> None]
      /\ Idle.room = [r \in Rooms |-> None]
  BY DEF After, World, Idle
<1>3. /\ After(t).res \in [Ids -> Booking \cup {NoBooking}]
      /\ \A i \in Ids : After(t).res[i] = IF t.res[i] # None THEN t.res[i] ELSE res[i]
      /\ Written(t.res) = {i \in Ids : t.res[i] # None}
      /\ t.res = Idle.res => After(t).res = res
  BY <1>1, <1>2 DEF Overlay, Written
<1>4. /\ After(t).blk \in [Blocks -> Block \cup {NoBlock}]
      /\ \A b \in Blocks : After(t).blk[b] = IF t.blk[b] # None THEN t.blk[b] ELSE blk[b]
      /\ Written(t.blk) = {b \in Blocks : t.blk[b] # None}
      /\ t.blk = Idle.blk => After(t).blk = blk
  BY <1>1, <1>2 DEF Overlay, Written
<1>5. /\ After(t).room \in [Rooms -> Room \cup {NoRoom}]
      /\ \A r \in Rooms : After(t).room[r] = IF t.room[r] # None THEN t.room[r] ELSE room[r]
      /\ Written(t.room) = {r \in Rooms : t.room[r] # None}
      /\ t.room = Idle.room => After(t).room = room
  BY <1>1, <1>2 DEF Overlay, Written
<1>6. World \in Worlds
  BY <1>1 DEF World, Worlds
<1>7. After(t) \in Worlds
  BY <1>2, <1>3, <1>4, <1>5 DEF After, Worlds
<1> QED
  BY <1>2, <1>3, <1>4, <1>5, <1>6, <1>7

LEMMA RecountType == ASSUME NEW w, NEW c PROVE Recount(w, c) \in Counters
<1>1. /\ Sold(w, c) \in Nat /\ Blocked(w, c) \in Nat
      /\ Physical(w, c[1]) \in Nat /\ OutOfOrder(w, c) \in Nat
  BY CountTypes
<1> QED
  BY <1>1 DEF Recount, Counters

LEMMA DemandCells ==
  ASSUME NEW y \in Types, NEW a \in Dates, NEW d \in Dates
  PROVE  /\ Demand(y, a, d) \subseteq Cells
         /\ \A c \in Cells : c \in Demand(y, a, d) <=> c[1] = y /\ a <= c[2] /\ c[2] < d
         /\ \A c \in Cells : c[2] \in Nat /\ c[1] \in Types
BY BoundsAssumption DEF Demand, Cells, Nights, Dates

----------------------------------------------------------------------------
(* What is to be shown of a transaction that writes one kind of rows.        *)

LEMMA AheadType == /\ Ahead \subseteq Cells
                   /\ \A c \in Ahead : c[2] \in Nat /\ c[2] >= today /\ c[1] \in Types
BY DEF Ahead, Cells, Nights

\* A transaction takes nothing outside its cells, so its cells alone matter.
LEMMA Within ==
  ASSUME TypeOK, NEW t \in Transaction, TypesKept(t), Isolated(t),
         t.share = {} \/ t.room = Idle.room,
         \A c \in Ahead \cap t.cells :
            \/ t.override
            \/ Spare(After(t), c) >= 0
            \/ Take(After(t), c) <= Take(World, c) /\ NoLess(World, After(t), c),
         \A b \in t.share, c \in Ahead \cap t.cells :
            ~t.override /\ ~blk[b].elastic => Take(After(t), c) = Take(World, c)
  PROVE  CoverSafe(t)
<1>1. World \in Worlds /\ After(t) \in Worlds
  BY AfterRows
<1>2. \A c \in Ahead \ t.cells : /\ Take(After(t), c) = Take(World, c)
                                 /\ Take(World, c) \in Nat
                                 /\ NoLess(World, After(t), c)
  BY <1>1, TakeSame, SpareUsable, AheadType DEF Isolated
<1>3. Covered(t)
  BY <1>2 DEF Covered
<1>4. Neutral(t)
  BY <1>2 DEF Neutral
<1> QED
  BY <1>3, <1>4 DEF CoverSafe

\* Rows of reservations.
LEMMA StaySound ==
  ASSUME TypeOK, NEW t \in Transaction, t.blk = Idle.blk, t.room = Idle.room,
         \A i \in Ids : t.res[i] # None =>
            /\ PickupRow(t.res[i])
            /\ \A b \in Blocks : Active(t.res[i], b) =>
                 Active(res[i], b) \/ (b \in t.share /\ blk[b].status = "DEDUCT")
            /\ \A c \in Ahead \ t.cells :
                 /\ Sells(res[i], c) <=> Sells(t.res[i], c)
                 /\ \A b \in Blocks : Picks(res[i], b, c) <=> Picks(t.res[i], b, c),
         \A c \in Ahead \cap t.cells :
            t.override \/ Spare(After(t), c) >= 0 \/ Take(After(t), c) <= Take(World, c),
         \A b \in t.share, c \in Ahead \cap t.cells :
            ~t.override /\ ~blk[b].elastic => Take(After(t), c) = Take(World, c)
  PROVE  Sound(t)
<1> USE AfterRows
<1>1. Written(t.blk) = {} /\ Written(t.room) = {}
  BY IdleType
<1>2. PickupSafe(t)
  BY <1>1 DEF PickupSafe
<1>3. \A c : NoLess(World, After(t), c)
  BY DEF NoLess
<1>4. ASSUME NEW c \in Ahead \ t.cells PROVE SameTake(World, After(t), c)
  BY DEF SameTake
<1>5. Isolated(t) /\ TypesKept(t)
  BY <1>1, <1>3, <1>4 DEF Isolated, TypesKept
<1>6. CoverSafe(t)
  BY <1>3, <1>5, Within
<1> QED
  BY <1>2, <1>6 DEF Sound

\* Rows of blocks.
LEMMA BlockSound ==
  ASSUME TypeOK, NEW t \in Transaction, t.res = Idle.res, t.room = Idle.room, t.share = {},
         \A b \in Blocks : t.blk[b] # None =>
            /\ GridOK(t.blk[b])
            /\ t.blk[b].status # "DEDUCT" => \A i \in Ids : ~Active(res[i], b)
            /\ \A c \in Ahead \ t.cells, n \in Nat :
                 HeldOf(blk[b], c, n) = HeldOf(t.blk[b], c, n),
         \A c \in Ahead \cap t.cells :
            t.override \/ Spare(After(t), c) >= 0 \/ Take(After(t), c) <= Take(World, c)
  PROVE  Sound(t)
<1> USE AfterRows
<1>1. Written(t.res) = {} /\ Written(t.room) = {}
  BY IdleType
<1>2. PickupSafe(t)
  BY <1>1 DEF PickupSafe
<1>3. \A c : NoLess(World, After(t), c)
  BY DEF NoLess
<1>4. ASSUME NEW c \in Ahead \ t.cells PROVE SameTake(World, After(t), c)
  BY DEF SameTake
<1>5. Isolated(t) /\ TypesKept(t)
  BY <1>1, <1>3, <1>4 DEF Isolated, TypesKept
<1>6. CoverSafe(t)
  BY <1>3, <1>5, Within
<1> QED
  BY <1>2, <1>6 DEF Sound

\* Rows of rooms.
LEMMA RoomSound ==
  ASSUME TypeOK, NEW t \in Transaction, t.res = Idle.res, t.blk = Idle.blk, t.share = {},
         RoomsKept =>
           /\ \A r \in Rooms : t.room[r] # None =>
                /\ room[r] \in Room => t.room[r].type = room[r].type
                /\ \A c \in Ahead \ t.cells : Usable(room[r], c) => Usable(t.room[r], c)
           /\ \A c \in Ahead \cap t.cells :
                \/ Spare(After(t), c) >= 0
                \/ \A r \in Rooms : t.room[r] # None => (Usable(room[r], c) => Usable(t.room[r], c))
  PROVE  Sound(t)
<1> USE AfterRows
<1>1. Written(t.res) = {} /\ Written(t.blk) = {}
  BY IdleType
<1>2. PickupSafe(t)
  BY <1>1 DEF PickupSafe
<1>3. \A c : SameTake(World, After(t), c)
  BY DEF SameTake
<1>4. ASSUME RoomsKept PROVE CoverSafe(t)
  <2>1. ASSUME NEW c \in Ahead \ t.cells PROVE NoLess(World, After(t), c)
    BY <1>4 DEF NoLess
  <2>2. Isolated(t) /\ TypesKept(t)
    BY <1>3, <1>4, <2>1 DEF Isolated, TypesKept
  <2>3. ASSUME NEW c \in Ahead \cap t.cells
        PROVE  \/ Spare(After(t), c) >= 0
               \/ Take(After(t), c) <= Take(World, c) /\ NoLess(World, After(t), c)
    <3>1. Take(After(t), c) = Take(World, c) /\ Take(World, c) \in Nat
      BY <1>3, TakeSame, SpareUsable, AheadType
    <3> QED
      BY <1>4, <3>1 DEF NoLess
  <2> QED
    BY <2>2, <2>3, Within
<1> QED
  BY <1>2, <1>4 DEF Sound

----------------------------------------------------------------------------
(* Reservations: each command prepares a sound transaction.                  *)

Prepared(k, t) ==
  /\ Prepare(k, t) /\ Sound(t) /\ t.override \in Override
  /\ t.ref = None \/ t.ref = tx[k].ref

LEMMA HouseCoversCell ==
  ASSUME NEW w, NEW cells, NEW n, NEW over, HouseCovers(w, cells, n, over),
         NEW c \in cells
  PROVE  over \/ Spare(w, c) >= n
BY DEF HouseCovers

\* A stay that does not deduct, or is over or never was, counts nowhere.
LEMMA NotCounted ==
  ASSUME NEW row, ~row.deducts \/ row.status \notin {"RESERVED", "IN_HOUSE", "CHECKED_OUT"}
  PROVE  \A c, b : ~Sells(row, c) /\ ~Picks(row, b, c)
BY DEF Sells, Consumes, Picks

\* The house has the rooms the stays I need: none is oversold.
LEMMA StayCovered ==
  ASSUME TypeOK, NEW t \in Transaction, t.blk = Idle.blk, t.room = Idle.room,
         NEW c \in Cells, NEW I, I \subseteq Ids,
         NEW v \in Worlds, v.blk = blk, v.room = room,
         \A i \in Ids \ I : t.res[i] = None /\ v.res[i] = res[i],
         \A i \in I : /\ t.res[i] # None
                      /\ \A b \in Blocks : Picks(v.res[i], b, c) => Picks(t.res[i], b, c),
         Spare(v, c) >= Cardinality(I)
  PROVE  Spare(After(t), c) >= 0
<1> DEFINE w == After(t)
<1>1. /\ w \in Worlds /\ w.blk = v.blk /\ w.room = v.room
      /\ \A i \in I : w.res[i] = t.res[i]
      /\ \A i \in Ids \ I : w.res[i] = v.res[i]
  BY AfterRows
<1>2. Spare(v, c) \in Int /\ Spare(w, c) \in Int /\ Cardinality(I) \in Nat
  BY SpareUsable, FiniteAssumption, Part
<1> HIDE DEF w
<1>3. Spare(w, c) >= Spare(v, c) - Cardinality(I)
  BY <1>1, HouseSale
<1> QED
  BY <1>2, <1>3 DEF w

\* One stay takes no night more, and gives those back that it no longer picks up.
LEMMA StayReturned ==
  ASSUME TypeOK, NEW t \in Transaction, t.blk = Idle.blk, NEW c \in Cells, NEW i \in Ids,
         \A j \in Ids \ {i} : t.res[j] = None,
         t.res[i] # None, t.res[i].block = res[i].block,
         Sells(t.res[i], c) => Sells(res[i], c),
         \A b \in Blocks : Picks(res[i], b, c) =>
            Picks(t.res[i], b, c) \/ (Sells(res[i], c) /\ ~Sells(t.res[i], c))
  PROVE  Take(After(t), c) <= Take(World, c)
<1> DEFINE w == After(t)
<1>1. /\ World \in Worlds /\ w \in Worlds /\ w.blk = World.blk
      /\ World.res = res /\ w.res[i] = t.res[i]
      /\ \A j \in Ids \ {i} : w.res[j] = World.res[j]
  BY AfterRows
<1> HIDE DEF w
<1>2. Take(w, c) <= Take(World, c)
  BY <1>1, GiveBack
<1> QED
  BY <1>2 DEF w

LEMMA BookSound ==
  ASSUME IInv, NEW k \in Clients, Book(k)
  PROVE  \E t \in Transaction : Prepared(k, t) /\ t.room = Idle.room
<1>1. TypeOK
  BY DEF IInv
<1>2. PICK ids \in (SUBSET Ids) \ {{}}, y \in Types, a \in Nights, d \in Dates,
           st \in {"WAITLISTED", "RESERVED"}, deducts \in BOOLEAN, over \in Override :
             LET row == [status |-> st, deducts |-> deducts, type |-> y, arr |-> a, dep |-> d,
                         block |-> None]
                 cells == IF Consumes(row) THEN StayOf(row) ELSE {}
             IN /\ today <= a /\ a < d
                /\ \A i \in ids : res[i].status = "none"
                /\ HouseCovers(World, cells, Cardinality(ids), over)
                /\ Prepare(k, [Idle EXCEPT !.kind = "book", !.override = over, !.cells = cells,
                             !.res = [i \in Ids |-> IF i \in ids THEN row ELSE None]])
  BY DEF Book
<1> DEFINE row == [status |-> st, deducts |-> deducts, type |-> y, arr |-> a, dep |-> d,
                   block |-> None]
           cells == IF Consumes(row) THEN StayOf(row) ELSE {}
           t == [Idle EXCEPT !.kind = "book", !.override = over, !.cells = cells,
                             !.res = [i \in Ids |-> IF i \in ids THEN row ELSE None]]
<1>3. row \in Booking /\ cells \subseteq Cells
  <2>1. a \in Dates
    BY BoundsAssumption DEF Nights, Dates
  <2>2. row \in Booking
    BY <2>1 DEF Booking
  <2>3. StayOf(row) \subseteq Cells
    BY <2>1, DemandCells DEF StayOf
  <2> QED
    BY <2>2, <2>3
<1>4. Prepare(k, t) /\ t.kind \in Commands
  BY <1>2, IdleType DEF Prepare, Idle
<1>5. /\ \A i \in ids : res[i].status = "none"
      /\ HouseCovers(World, cells, Cardinality(ids), over)
  BY <1>2
<1>6. /\ row.block = None /\ row.status # "IN_HOUSE"
      /\ \A c : Sells(row, c) <=> c \in cells
      /\ \A c : \A b \in Blocks : ~Picks(row, b, c)
      /\ PickupRow(row) /\ \A b \in Blocks : ~Active(row, b)
  BY NoneAssumption DEF Sells, Picks, PickupRow, Active
<1>7. \A i \in ids : \A c, b : ~Sells(res[i], c) /\ ~Picks(res[i], b, c)
  BY <1>5, NotCounted
<1> HIDE DEF row, cells
<1>8. t \in Transaction
  BY <1>3, <1>4, IdleType, OverrideType DEF Transaction
<1>9. /\ t.override = over /\ t.cells = cells /\ t.share = {} /\ t.ref = None
      /\ t.blk = Idle.blk /\ t.room = Idle.room
      /\ \A i \in Ids : t.res[i] = IF i \in ids THEN row ELSE None
  BY DEF Idle
<1> HIDE DEF t
<1>10. row # None
  BY <1>3, NoneAssumption
<1>11. ASSUME NEW c \in Ahead \cap t.cells, ~over PROVE Spare(After(t), c) >= 0
  <2>1. Spare(World, c) >= Cardinality(ids)
    BY <1>5, <1>9, <1>11, HouseCoversCell
  <2>2. World \in Worlds /\ World.blk = blk /\ World.room = room /\ World.res = res
    BY <1>1, IdleType, AfterRows
  <2> QED
    BY <1>1, <1>7, <1>8, <1>9, <1>10, <2>1, <2>2, StayCovered, AheadType
<1>12. \A i \in Ids : t.res[i] # None =>
         /\ PickupRow(t.res[i])
         /\ \A b \in Blocks : ~Active(t.res[i], b)
         /\ \A c \in Ahead \ t.cells :
              /\ Sells(res[i], c) <=> Sells(t.res[i], c)
              /\ \A b \in Blocks : Picks(res[i], b, c) <=> Picks(t.res[i], b, c)
  BY <1>6, <1>7, <1>9
<1>13. Sound(t)
  BY <1>1, <1>8, <1>9, <1>11, <1>12, StaySound
<1> QED
  BY <1>4, <1>8, <1>9, <1>13 DEF Prepared

\* A transaction that writes one stay, and keeps no block.
StayTx(t, over, cells, i, row) ==
  /\ t.override = over /\ t.cells = cells /\ t.share = {} /\ t.ref = None
  /\ t.blk = Idle.blk /\ t.room = Idle.room /\ t.res[i] = row
  /\ \A j \in Ids \ {i} : t.res[j] = None

\* What it must come with: outside its cells the stay counts as before, and in each
\* of them the house has a room, with or without the stay, or the stay takes no more.
StayFits(over, cells, i, row) ==
  /\ PickupRow(row)
  /\ \A b \in Blocks : Active(row, b) => Active(res[i], b)
  /\ \A c \in Ahead \ cells :
       /\ Sells(res[i], c) <=> Sells(row, c)
       /\ \A b \in Blocks : Picks(res[i], b, c) <=> Picks(row, b, c)
  /\ \A c \in Ahead \cap cells :
       \/ over
       \/ Spare(World, c) >= 1 /\ \A b \in Blocks : Picks(res[i], b, c) => Picks(row, b, c)
       \/ Spare(WithoutStay(i), c) >= 1
       \/ /\ row.block = res[i].block
          /\ Sells(row, c) => Sells(res[i], c)
          /\ \A b \in Blocks : Picks(res[i], b, c) =>
               Picks(row, b, c) \/ (Sells(res[i], c) /\ ~Sells(row, c))

LEMMA OneStay ==
  ASSUME TypeOK, NEW k \in Clients, NEW t \in Transaction, Prepare(k, t),
         NEW over \in Override, NEW cells, NEW i \in Ids, NEW row \in Booking,
         StayTx(t, over, cells, i, row), StayFits(over, cells, i, row)
  PROVE  Prepared(k, t) /\ t.room = Idle.room
<1>1. row # None
  BY NoneAssumption
<1>2. /\ t.override = over /\ t.cells = cells /\ t.share = {} /\ t.ref = None
      /\ t.blk = Idle.blk /\ t.room = Idle.room /\ t.res[i] = row
      /\ \A j \in Ids \ {i} : t.res[j] = None
  BY DEF StayTx
<1>5. /\ World \in Worlds /\ World.blk = blk /\ World.room = room /\ World.res = res
      /\ res \in [Ids -> Booking \cup {NoBooking}] /\ i \in Ids
  BY AfterRows DEF TypeOK
<1>6. /\ WithoutStay(i) \in Worlds /\ WithoutStay(i).blk = blk /\ WithoutStay(i).room = room
      /\ WithoutStay(i).res[i] = NoBooking
      /\ \A j \in Ids \ {i} : WithoutStay(i).res[j] = res[j]
  BY <1>5 DEF WithoutStay, Worlds, World
<1>7. \A c, b : ~Picks(NoBooking, b, c)
  BY NotCounted DEF NoBooking
<1>8. IsFiniteSet({i}) /\ Cardinality({i}) = 1
  BY FS_Singleton
<1>9. ASSUME NEW c \in Ahead \cap t.cells
      PROVE  over \/ Spare(After(t), c) >= 0 \/ Take(After(t), c) <= Take(World, c)
  <2>1. c \in Ahead /\ c \in cells /\ c \in Cells
    BY <1>2, AheadType
  <2>2. ASSUME Spare(World, c) >= 1, \A b \in Blocks : Picks(res[i], b, c) => Picks(row, b, c)
        PROVE  Spare(After(t), c) >= 0
    BY <1>1, <1>2, <1>5, <1>8, <2>1, <2>2, StayCovered
  <2>3. ASSUME Spare(WithoutStay(i), c) >= 1 PROVE Spare(After(t), c) >= 0
    <3> DEFINE v == WithoutStay(i)
    <3>1. v \in Worlds /\ v.blk = blk /\ v.room = room /\ v.res[i] = NoBooking
          /\ (\A j \in Ids \ {i} : v.res[j] = res[j]) /\ Spare(v, c) >= 1
      BY <1>6, <2>3
    <3> HIDE DEF v
    <3> QED
      BY <1>1, <1>2, <1>7, <1>8, <2>1, <3>1, StayCovered
  <2>4. ASSUME /\ row.block = res[i].block
               /\ Sells(row, c) => Sells(res[i], c)
               /\ \A b \in Blocks : Picks(res[i], b, c) =>
                    Picks(row, b, c) \/ (Sells(res[i], c) /\ ~Sells(row, c))
        PROVE  Take(After(t), c) <= Take(World, c)
    BY <1>1, <1>2, <2>1, <2>4, StayReturned
  <2> QED
    BY <2>1, <2>2, <2>3, <2>4 DEF StayFits
<1>10. \A j \in Ids : t.res[j] # None =>
         /\ PickupRow(t.res[j])
         /\ \A b \in Blocks : Active(t.res[j], b) => Active(res[j], b)
         /\ \A c \in Ahead \ t.cells :
              /\ Sells(res[j], c) <=> Sells(t.res[j], c)
              /\ \A b \in Blocks : Picks(res[j], b, c) <=> Picks(t.res[j], b, c)
  BY <1>1, <1>2 DEF StayFits
<1>11. Sound(t)
  BY <1>2, <1>9, <1>10, StaySound
<1> QED
  BY <1>2, <1>11 DEF Prepared

LEMMA BookingType ==
  ASSUME TypeOK, NEW i \in Ids, res[i].status # "none"
  PROVE  /\ res[i] \in Booking /\ res[i].deducts \in BOOLEAN
         /\ res[i].type \in Types /\ res[i].arr \in Dates /\ res[i].dep \in Dates
         /\ StayOf(res[i]) \subseteq Cells
<1>1. res[i] \in Booking
  BY DEF TypeOK, NoBooking
<1>2. res[i].type \in Types /\ res[i].arr \in Dates /\ res[i].dep \in Dates
      /\ res[i].deducts \in BOOLEAN
  BY <1>1 DEF Booking
<1> QED
  BY <1>1, <1>2, DemandCells DEF StayOf

LEMMA ModifySound ==
  ASSUME IInv, NEW k \in Clients, Modify(k)
  PROVE  \E t \in Transaction : Prepared(k, t) /\ t.room = Idle.room
<1>1. TypeOK /\ \A i \in Ids : PickupRow(res[i])
  BY DEF IInv
<1>2. PICK i \in Ids, y \in Types, a \in Nights, d \in Dates, over \in Override :
       LET row == [res[i] EXCEPT !.type = y, !.arr = a, !.dep = d]
           cells == IF Consumes(res[i]) THEN StayOf(row) ELSE {}
       IN /\ res[i].status \in {"RESERVED", "WAITLISTED"} /\ res[i].block = None
          /\ row # res[i] /\ a < d
          /\ a # res[i].arr => today <= a
          /\ HouseCovers(WithoutStay(i), cells, 1, over)
          /\ Prepare(k, [Idle EXCEPT !.kind = "modify", !.override = over,
                           !.cells = IF Consumes(res[i]) THEN cells \cup StayOf(res[i]) ELSE {},
                           !.res[i] = row])
  BY DEF Modify
<1> DEFINE row == [res[i] EXCEPT !.type = y, !.arr = a, !.dep = d]
           news == IF Consumes(res[i]) THEN StayOf(row) ELSE {}
           cells == IF Consumes(res[i]) THEN news \cup StayOf(res[i]) ELSE {}
           t == [Idle EXCEPT !.kind = "modify", !.override = over, !.cells = cells, !.res[i] = row]
<1>3. /\ res[i].status \in {"RESERVED", "WAITLISTED"} /\ res[i].block = None
      /\ HouseCovers(WithoutStay(i), news, 1, over)
      /\ Prepare(k, t) /\ t.kind \in Commands
  BY <1>2 DEF Prepare
<1>4. res[i] \in Booking /\ StayOf(res[i]) \subseteq Cells
  BY <1>1, <1>3, BookingType
<1>5. a \in Dates
  BY BoundsAssumption DEF Nights, Dates
<1>6. row \in Booking /\ row.type = y /\ row.arr = a /\ row.dep = d /\ row.status = res[i].status
      /\ row.deducts = res[i].deducts /\ row.block = None
  BY <1>3, <1>4, <1>5 DEF Booking
<1>7. StayOf(row) \subseteq Cells
  BY <1>5, <1>6, DemandCells DEF StayOf
<1> HIDE DEF row
<1>8. cells \subseteq Cells
  BY <1>4, <1>7
<1>9. PickupRow(row) /\ \A b \in Blocks : ~Active(row, b)
  BY <1>6, NoneAssumption DEF PickupRow, Active
<1>10. \A c : \A b \in Blocks : ~Picks(res[i], b, c) /\ ~Picks(row, b, c)
  BY <1>3, <1>6, NoneAssumption DEF Picks
<1>11. \A c : /\ Sells(row, c) <=> c \in news
              /\ Sells(res[i], c) => c \in cells
              /\ Sells(row, c) => c \in cells
  BY <1>6 DEF Sells, Consumes
<1> HIDE DEF news
<1>12. ASSUME NEW c \in cells
       PROVE  over \/ Spare(WithoutStay(i), c) >= 1 \/ (Sells(row, c) => Sells(res[i], c))
  BY <1>3, <1>11, HouseCoversCell
<1>13. StayFits(over, cells, i, row)
  BY <1>3, <1>6, <1>9, <1>10, <1>11, <1>12 DEF StayFits
<1> HIDE DEF cells
<1>14. t \in Transaction
  BY <1>3, <1>6, <1>8, IdleType, OverrideType DEF Transaction
<1>15. StayTx(t, over, cells, i, row)
  BY DEF StayTx, Idle
<1> HIDE DEF t
<1> QED
  BY <1>1, <1>3, <1>6, <1>8, <1>13, <1>14, <1>15, OverrideType, OneStay

LEMMA ConfirmSound ==
  ASSUME IInv, NEW k \in Clients, Confirm(k)
  PROVE  \E t \in Transaction : Prepared(k, t) /\ t.room = Idle.room
<1>1. TypeOK /\ \A i \in Ids : PickupRow(res[i])
  BY DEF IInv
<1>2. PICK i \in Ids, over \in Override :
       /\ res[i].status = "WAITLISTED" \/ (res[i].status = "RESERVED" /\ ~res[i].deducts)
       /\ HouseCovers(WithoutStay(i), StayOf(res[i]), 1, over)
       /\ Prepare(k, [Idle EXCEPT !.kind = "confirm", !.override = over,
                        !.cells = StayOf(res[i]),
                        !.res[i] = [res[i] EXCEPT !.status = "RESERVED", !.deducts = TRUE]])
  BY DEF Confirm
<1> DEFINE row == [res[i] EXCEPT !.status = "RESERVED", !.deducts = TRUE]
           cells == StayOf(res[i])
           t == [Idle EXCEPT !.kind = "confirm", !.override = over, !.cells = cells, !.res[i] = row]
<1>3. Prepare(k, t) /\ t.kind \in Commands
  BY <1>2 DEF Prepare
<1>4. res[i] \in Booking /\ cells \subseteq Cells
  BY <1>1, <1>2, BookingType
<1>5. row \in Booking /\ row.type = res[i].type /\ row.arr = res[i].arr /\ row.dep = res[i].dep
      /\ row.status = "RESERVED" /\ row.deducts /\ row.block = res[i].block
  BY <1>4 DEF Booking
<1>6. res[i].block = None
  BY <1>1, <1>2 DEF PickupRow
<1> HIDE DEF row
<1>7. PickupRow(row) /\ \A b \in Blocks : ~Active(row, b)
  BY <1>5, <1>6, NoneAssumption DEF PickupRow, Active
<1>8. \A c : \A b \in Blocks : ~Picks(res[i], b, c) /\ ~Picks(row, b, c)
  BY <1>5, <1>6, NoneAssumption DEF Picks
<1>9. \A c : (Sells(row, c) <=> c \in cells) /\ ~Sells(res[i], c)
  BY <1>2, <1>5 DEF Sells, Consumes, StayOf
<1>10. \A c \in cells : over \/ Spare(WithoutStay(i), c) >= 1
  BY <1>2, HouseCoversCell
<1> HIDE DEF cells
<1>11. StayFits(over, cells, i, row)
  BY <1>7, <1>8, <1>9, <1>10 DEF StayFits
<1>12. t \in Transaction
  BY <1>3, <1>4, <1>5, IdleType, OverrideType DEF Transaction
<1>13. StayTx(t, over, cells, i, row)
  BY DEF StayTx, Idle
<1> HIDE DEF t
<1> QED
  BY <1>1, <1>3, <1>4, <1>5, <1>11, <1>12, <1>13, OverrideType, OneStay

LEMMA ReleaseSound ==
  ASSUME IInv, NEW k \in Clients, Release(k)
  PROVE  \E t \in Transaction : Prepared(k, t) /\ t.room = Idle.room
<1>1. TypeOK /\ \A i \in Ids : PickupRow(res[i])
  BY DEF IInv
<1>2. PICK i \in Ids, st \in {"CANCELLED", "NO_SHOW"} :
       /\ IF st = "CANCELLED" THEN res[i].status \in {"RESERVED", "WAITLISTED"}
                              ELSE res[i].status = "RESERVED" /\ res[i].arr <= today
       /\ Prepare(k, [Idle EXCEPT !.kind = "release",
                        !.cells = IF Consumes(res[i]) THEN StayOf(res[i]) ELSE {},
                        !.res[i] = [res[i] EXCEPT !.status = st]])
  BY DEF Release
<1> DEFINE row == [res[i] EXCEPT !.status = st]
           cells == IF Consumes(res[i]) THEN StayOf(res[i]) ELSE {}
           t == [Idle EXCEPT !.kind = "release", !.cells = cells, !.res[i] = row]
<1>3. Prepare(k, t) /\ t.kind \in Commands
  BY <1>2 DEF Prepare
<1>4. res[i] \in Booking /\ cells \subseteq Cells /\ res[i].status \in {"RESERVED", "WAITLISTED"}
  BY <1>1, <1>2, BookingType
<1>5. row \in Booking /\ row.status = st /\ row.deducts = res[i].deducts /\ row.block = res[i].block
  BY <1>4 DEF Booking
<1> HIDE DEF row
<1>6. PickupRow(row) /\ \A b \in Blocks : ~Active(row, b)
  BY <1>1, <1>5 DEF PickupRow, Active
<1>7. \A c, b : ~Picks(row, b, c) /\ ~Sells(row, c)
  BY <1>5, NotCounted
<1>8. \A c : /\ Sells(res[i], c) => c \in cells
             /\ \A b \in Blocks : Picks(res[i], b, c) => Sells(res[i], c)
  BY <1>4 DEF Sells, Consumes, Picks
<1> HIDE DEF cells
<1>9. StayFits(FALSE, cells, i, row)
  BY <1>5, <1>6, <1>7, <1>8 DEF StayFits
<1>10. t \in Transaction
  BY <1>3, <1>4, <1>5, IdleType, OverrideType DEF Transaction
<1>11. StayTx(t, FALSE, cells, i, row)
  BY DEF StayTx, Idle
<1> HIDE DEF t
<1> QED
  BY <1>1, <1>3, <1>4, <1>5, <1>9, <1>10, <1>11, OverrideType, OneStay

LEMMA CheckInSound ==
  ASSUME IInv, NEW k \in Clients, CheckIn(k)
  PROVE  \E t \in Transaction : Prepared(k, t) /\ t.room = Idle.room
<1>1. TypeOK /\ \A i \in Ids : PickupRow(res[i])
  BY DEF IInv
<1>2. PICK i \in Ids :
       /\ res[i].status = "RESERVED" /\ res[i].deducts
       /\ res[i].arr = today /\ today < res[i].dep
       /\ Prepare(k, [Idle EXCEPT !.kind = "checkIn",
                        !.res[i] = [res[i] EXCEPT !.status = "IN_HOUSE"]])
  BY DEF CheckIn
<1> DEFINE row == [res[i] EXCEPT !.status = "IN_HOUSE"]
           t == [Idle EXCEPT !.kind = "checkIn", !.res[i] = row]
<1>3. Prepare(k, t) /\ t.kind \in Commands
  BY <1>2 DEF Prepare
<1>4. res[i] \in Booking
  BY <1>1, <1>2, BookingType
<1>5. row \in Booking /\ row.type = res[i].type /\ row.arr = res[i].arr /\ row.dep = res[i].dep
      /\ row.status = "IN_HOUSE" /\ row.deducts = res[i].deducts /\ row.block = res[i].block
  BY <1>4 DEF Booking
<1> HIDE DEF row
<1>6. StayFits(FALSE, {}, i, row)
  <2>1. PickupRow(row) /\ \A b \in Blocks : Active(row, b) => Active(res[i], b)
    BY <1>1, <1>2, <1>5 DEF PickupRow, Active
  <2>2. \A c : /\ Sells(res[i], c) <=> Sells(row, c)
               /\ \A b \in Blocks : Picks(res[i], b, c) <=> Picks(row, b, c)
    BY <1>2, <1>5 DEF Sells, Consumes, Picks, StayOf
  <2> QED
    BY <2>1, <2>2 DEF StayFits
<1>7. t \in Transaction
  BY <1>3, <1>5, IdleType DEF Transaction
<1>8. StayTx(t, FALSE, {}, i, row)
  BY DEF StayTx, Idle
<1> HIDE DEF t
<1> QED
  BY <1>1, <1>3, <1>5, <1>6, <1>7, <1>8, OverrideType, OneStay

LEMMA ReverseCheckInSound ==
  ASSUME IInv, NEW k \in Clients, ReverseCheckIn(k)
  PROVE  \E t \in Transaction : Prepared(k, t) /\ t.room = Idle.room
<1>1. TypeOK /\ \A i \in Ids : PickupRow(res[i])
  BY DEF IInv
<1>2. PICK i \in Ids :
       /\ res[i].status = "IN_HOUSE" /\ res[i].arr = today
       /\ Prepare(k, [Idle EXCEPT !.kind = "checkIn",
                        !.res[i] = [res[i] EXCEPT !.status = "RESERVED"]])
  BY DEF ReverseCheckIn
<1> DEFINE row == [res[i] EXCEPT !.status = "RESERVED"]
           t == [Idle EXCEPT !.kind = "checkIn", !.res[i] = row]
<1>3. Prepare(k, t) /\ t.kind \in Commands
  BY <1>2 DEF Prepare
<1>4. res[i] \in Booking
  BY <1>1, <1>2, BookingType
<1>5. row \in Booking /\ row.type = res[i].type /\ row.arr = res[i].arr /\ row.dep = res[i].dep
      /\ row.status = "RESERVED" /\ row.deducts = res[i].deducts /\ row.block = res[i].block
  BY <1>4 DEF Booking
<1> HIDE DEF row
<1>6. StayFits(FALSE, {}, i, row)
  <2>1. PickupRow(row) /\ \A b \in Blocks : Active(row, b) => Active(res[i], b)
    BY <1>1, <1>2, <1>5 DEF PickupRow, Active
  <2>2. \A c : /\ Sells(res[i], c) <=> Sells(row, c)
               /\ \A b \in Blocks : Picks(res[i], b, c) <=> Picks(row, b, c)
    BY <1>2, <1>5 DEF Sells, Consumes, Picks, StayOf
  <2> QED
    BY <2>1, <2>2 DEF StayFits
<1>7. t \in Transaction
  BY <1>3, <1>5, IdleType DEF Transaction
<1>8. StayTx(t, FALSE, {}, i, row)
  BY DEF StayTx, Idle
<1> HIDE DEF t
<1> QED
  BY <1>1, <1>3, <1>5, <1>6, <1>7, <1>8, OverrideType, OneStay

LEMMA CheckOutSound ==
  ASSUME IInv, NEW k \in Clients, CheckOut(k)
  PROVE  \E t \in Transaction : Prepared(k, t) /\ t.room = Idle.room
<1>1. TypeOK /\ today \in Dates /\ \A i \in Ids : PickupRow(res[i])
  BY DEF IInv, TypeOK
<1>2. PICK i \in Ids :
       LET early == res[i].dep > today
       IN /\ res[i].status = "IN_HOUSE"
          /\ early => res[i].arr < today
          /\ Prepare(k, [Idle EXCEPT !.kind = "checkOut",
                !.cells = IF early THEN Demand(res[i].type, today, res[i].dep) ELSE {},
                !.res[i] = [res[i] EXCEPT !.status = "CHECKED_OUT",
                                          !.dep = IF early THEN today ELSE @]])
  BY DEF CheckOut
<1> DEFINE early == res[i].dep > today
           row == [res[i] EXCEPT !.status = "CHECKED_OUT",
                                 !.dep = IF early THEN today ELSE res[i].dep]
           cells == IF early THEN Demand(res[i].type, today, res[i].dep) ELSE {}
           t == [Idle EXCEPT !.kind = "checkOut", !.cells = cells, !.res[i] = row]
<1>3. Prepare(k, t) /\ t.kind \in Commands /\ res[i].status = "IN_HOUSE"
  BY <1>2 DEF Prepare
<1>4. /\ res[i] \in Booking /\ cells \subseteq Cells
      /\ res[i].type \in Types /\ res[i].arr \in Dates /\ res[i].dep \in Dates
  BY <1>1, <1>3, BookingType, DemandCells
<1>5. /\ row \in Booking /\ row.type = res[i].type /\ row.arr = res[i].arr
      /\ row.dep = IF early THEN today ELSE res[i].dep
      /\ row.status = "CHECKED_OUT" /\ row.deducts = res[i].deducts /\ row.block = res[i].block
  BY <1>1, <1>4 DEF Booking
<1> HIDE DEF row
<1>6. PickupRow(row) /\ \A b \in Blocks : ~Active(row, b)
  BY <1>1, <1>5 DEF PickupRow, Active
<1>7. ASSUME NEW c \in Ahead
      PROVE  /\ c \in StayOf(res[i]) => c \in cells
             /\ c \notin StayOf(row)
             /\ ~Sells(row, c) /\ \A b : Picks(res[i], b, c) => Sells(res[i], c)
  <2>1. c \in Cells /\ c[2] \in Nat /\ c[2] >= today
    BY AheadType
  <2>2. row.dep \in Dates
    BY <1>1, <1>4, <1>5
  <2>3. /\ c \in StayOf(res[i]) <=> c[1] = res[i].type /\ res[i].arr <= c[2] /\ c[2] < res[i].dep
        /\ c \in StayOf(row) <=> c[1] = res[i].type /\ res[i].arr <= c[2] /\ c[2] < row.dep
        /\ early => (c \in cells <=> c[1] = res[i].type /\ today <= c[2] /\ c[2] < res[i].dep)
    BY <1>1, <1>4, <1>5, <2>1, <2>2, DemandCells DEF StayOf
  <2>4. c \notin StayOf(row) /\ (c \in StayOf(res[i]) => c \in cells)
    BY <1>1, <1>4, <1>5, <2>1, <2>3 DEF Dates
  <2> QED
    BY <1>3, <1>5, <2>4 DEF Sells, Consumes, Picks
<1> HIDE DEF cells, early
<1>8. StayFits(FALSE, cells, i, row)
  BY <1>5, <1>6, <1>7 DEF StayFits, Sells, Picks
<1>9. t \in Transaction
  BY <1>3, <1>4, <1>5, IdleType DEF Transaction
<1>10. StayTx(t, FALSE, cells, i, row)
  BY DEF StayTx, Idle
<1> HIDE DEF t
<1> QED
  BY <1>1, <1>3, <1>5, <1>8, <1>9, <1>10, OverrideType, OneStay

LEMMA ExtendSound ==
  ASSUME IInv, NEW k \in Clients, Extend(k)
  PROVE  \E t \in Transaction : Prepared(k, t) /\ t.room = Idle.room
<1>1. TypeOK /\ \A i \in Ids : PickupRow(res[i])
  BY DEF IInv
<1>2. PICK i \in Ids, d \in Dates, over \in Override :
       LET cells == Demand(res[i].type, res[i].dep, d)
       IN /\ res[i].status = "IN_HOUSE" /\ d > res[i].dep /\ d > today
          /\ HouseCovers(World, cells, 1, over)
          /\ Prepare(k, [Idle EXCEPT !.kind = "extend", !.override = over, !.cells = cells,
                           !.res[i] = [res[i] EXCEPT !.dep = d]])
  BY DEF Extend
<1> DEFINE row == [res[i] EXCEPT !.dep = d]
           cells == Demand(res[i].type, res[i].dep, d)
           t == [Idle EXCEPT !.kind = "extend", !.override = over, !.cells = cells, !.res[i] = row]
<1>3. /\ Prepare(k, t) /\ t.kind \in Commands
      /\ res[i].status = "IN_HOUSE" /\ d > res[i].dep /\ HouseCovers(World, cells, 1, over)
  BY <1>2 DEF Prepare
<1>4. /\ res[i] \in Booking /\ cells \subseteq Cells
      /\ res[i].type \in Types /\ res[i].arr \in Dates /\ res[i].dep \in Dates
  BY <1>1, <1>3, BookingType, DemandCells
<1>5. /\ row \in Booking /\ row.type = res[i].type /\ row.arr = res[i].arr /\ row.dep = d
      /\ row.status = "IN_HOUSE" /\ row.deducts = res[i].deducts /\ row.block = res[i].block
  BY <1>3, <1>4 DEF Booking
<1> HIDE DEF row
<1>6. PickupRow(row) /\ \A b \in Blocks : Active(row, b) => Active(res[i], b)
  BY <1>1, <1>3, <1>5 DEF PickupRow, Active
<1>7. ASSUME NEW c \in Cells
      PROVE  /\ c \in StayOf(res[i]) => c \in StayOf(row)
             /\ c \in StayOf(row) => c \in StayOf(res[i]) \/ c \in cells
  <2>1. /\ c \in StayOf(res[i]) <=> c[1] = res[i].type /\ res[i].arr <= c[2] /\ c[2] < res[i].dep
        /\ c \in StayOf(row) <=> c[1] = res[i].type /\ res[i].arr <= c[2] /\ c[2] < d
        /\ c \in cells <=> c[1] = res[i].type /\ res[i].dep <= c[2] /\ c[2] < d
        /\ c[2] \in Nat
    BY <1>4, <1>5, DemandCells DEF StayOf
  <2> QED
    BY <1>3, <1>4, <2>1 DEF Dates
<1>8. \A c \in cells : over \/ Spare(World, c) >= 1
  BY <1>3, HouseCoversCell
<1> HIDE DEF cells
<1>9. \A c \in Cells : /\ \A b \in Blocks : Picks(res[i], b, c) => Picks(row, b, c)
                       /\ c \notin cells => /\ Sells(res[i], c) <=> Sells(row, c)
                                            /\ \A b \in Blocks : Picks(res[i], b, c) <=> Picks(row, b, c)
  BY <1>3, <1>5, <1>7 DEF Sells, Consumes, Picks
<1>10. StayFits(over, cells, i, row)
  BY <1>6, <1>8, <1>9, AheadType DEF StayFits
<1>11. t \in Transaction
  BY <1>3, <1>4, <1>5, IdleType, OverrideType DEF Transaction
<1>12. StayTx(t, over, cells, i, row)
  BY DEF StayTx, Idle
<1> HIDE DEF t
<1> QED
  BY <1>1, <1>3, <1>5, <1>10, <1>11, <1>12, OneStay

----------------------------------------------------------------------------
(* Pickups, and stays taken back.                                           *)

\* The stays ids are booked from block b, which covers their nights.
PickupTx(t, over, b, ids, row) ==
  /\ row.block = b /\ row.status = "RESERVED" /\ row.deducts
  /\ t.override = over /\ t.cells = StayOf(row) /\ t.share = {b} /\ t.ref = None
  /\ t.blk = Idle.blk /\ t.room = Idle.room
  /\ \A i \in Ids : t.res[i] = IF i \in ids THEN row ELSE None
  /\ BlockCovers(World, b, StayOf(row), Cardinality(ids), over)

LEMMA FromBlock ==
  ASSUME TypeOK, NEW k \in Clients, NEW t \in Transaction, Prepare(k, t),
         NEW over \in Override, NEW b \in Blocks, NEW ids, ids \subseteq Ids, NEW row \in Booking,
         PickupTx(t, over, b, ids, row),
         \A i \in ids : \A c, a : ~Sells(res[i], c) /\ ~Picks(res[i], a, c)
  PROVE  Prepared(k, t) /\ t.room = Idle.room
<1>1. row # None
  BY NoneAssumption
<1>2. /\ row.block = b /\ row.status = "RESERVED" /\ row.deducts
      /\ t.override = over /\ t.cells = StayOf(row) /\ t.share = {b} /\ t.ref = None
      /\ t.blk = Idle.blk /\ t.room = Idle.room
      /\ \A i \in Ids : t.res[i] = IF i \in ids THEN row ELSE None
  BY DEF PickupTx
<1>3. /\ blk[b].status = "DEDUCT"
      /\ \A c \in t.cells : over \/ Left(World, b, c)
           + (IF blk[b].elastic THEN Max0(Spare(World, c)) ELSE 0) >= Cardinality(ids)
  <2>1. World.blk = blk
    BY DEF World
  <2> QED
    BY <1>2, <2>1 DEF PickupTx, BlockCovers
<1> DEFINE w == After(t)
<1>4. /\ World \in Worlds /\ w \in Worlds /\ w.blk = blk /\ w.room = room
      /\ World.blk = blk /\ World.room = room /\ World.res = res
      /\ \A i \in ids : w.res[i] = row
      /\ \A i \in Ids \ ids : w.res[i] = res[i]
  BY <1>1, <1>2, AfterRows
<1>5. \A c : Sells(row, c) <=> c \in t.cells
  BY <1>2 DEF Sells, Consumes
<1>6. \A c : \A a \in Blocks : Picks(row, a, c) <=> a = b /\ c \in t.cells
  BY <1>2 DEF Picks
<1> HIDE DEF w
<1>7. ASSUME NEW c \in Ahead \cap t.cells
      PROVE  /\ Left(World, b, c) >= Cardinality(ids) => Take(w, c) = Take(World, c)
             /\ Left(World, b, c) + Max0(Spare(World, c)) >= Cardinality(ids)
                  => Take(w, c) <= Take(World, c) \/ Spare(w, c) >= 0
  <2>1. c \in Cells /\ c \in t.cells
    BY AheadType
  <2>2. \A i \in ids : /\ ~Sells(World.res[i], c) /\ \A a \in Blocks : ~Picks(World.res[i], a, c)
                       /\ Sells(w.res[i], c) /\ Picks(w.res[i], b, c)
    BY <1>4, <1>5, <1>6, <2>1
  <2> QED
    BY <1>3, <1>4, <2>1, <2>2, PickupSale
<1>8. ASSUME NEW c \in Ahead \cap t.cells
      PROVE  /\ over \/ Spare(w, c) >= 0 \/ Take(w, c) <= Take(World, c)
             /\ ~over /\ ~blk[b].elastic => Take(w, c) = Take(World, c)
  <2>1. /\ Left(World, b, c) \in Int /\ Max0(Spare(World, c)) \in Nat /\ Cardinality(ids) \in Nat
        /\ Take(World, c) \in Nat /\ Take(w, c) \in Nat
    BY <1>4, AheadType, HeldRange, SpareUsable, FiniteAssumption, Part DEF Max0
  <2>2. over \/ Left(World, b, c)
           + (IF blk[b].elastic THEN Max0(Spare(World, c)) ELSE 0) >= Cardinality(ids)
    BY <1>3
  <2> QED
    BY <1>7, <2>1, <2>2
<1>9. \A i \in Ids : t.res[i] # None =>
         /\ PickupRow(t.res[i])
         /\ \A a \in Blocks : Active(t.res[i], a) => a \in t.share /\ blk[a].status = "DEDUCT"
         /\ \A c \in Ahead \ t.cells :
              /\ Sells(res[i], c) <=> Sells(t.res[i], c)
              /\ \A a \in Blocks : Picks(res[i], a, c) <=> Picks(t.res[i], a, c)
  <2> SUFFICES ASSUME NEW i \in Ids, t.res[i] # None
               PROVE  /\ PickupRow(t.res[i])
                      /\ \A a \in Blocks : Active(t.res[i], a) =>
                           a \in t.share /\ blk[a].status = "DEDUCT"
                      /\ \A c \in Ahead \ t.cells :
                           /\ Sells(res[i], c) <=> Sells(t.res[i], c)
                           /\ \A a \in Blocks : Picks(res[i], a, c) <=> Picks(t.res[i], a, c)
    OBVIOUS
  <2>1. i \in ids /\ t.res[i] = row
    BY <1>2
  <2>2. /\ PickupRow(row)
        /\ \A a \in Blocks : Active(row, a) => a \in t.share /\ blk[a].status = "DEDUCT"
    BY <1>2, <1>3 DEF PickupRow, Active
  <2>3. \A c \in Ahead \ t.cells : ~Sells(row, c) /\ \A a \in Blocks : ~Picks(row, a, c)
    BY <1>5, <1>6
  <2> QED
    BY <2>1, <2>2, <2>3
<1>10. Sound(t)
  BY <1>2, <1>8, <1>9, StaySound DEF w
<1> QED
  BY <1>2, <1>10 DEF Prepared

LEMMA TakeBackSound ==
  ASSUME IInv, NEW k \in Clients, NEW i \in Ids, NEW a \in Dates,
         res[i].status \in {"CANCELLED", "NO_SHOW"}, TakeBack(k, i, a)
  PROVE  \E t \in Transaction : Prepared(k, t) /\ t.room = Idle.room
<1>1. TypeOK /\ PickupRow(res[i])
  BY DEF IInv
<1>2. PICK over \in Override :
    LET row == [res[i] EXCEPT !.status = "RESERVED", !.arr = a]
        cells == IF row.deducts THEN StayOf(row) ELSE {}
        picked == row.deducts /\ row.block # None
    IN /\ IF picked THEN BlockCovers(World, row.block, cells, 1, over)
                    ELSE HouseCovers(World, cells, 1, over)
       /\ Prepare(k, [Idle EXCEPT !.kind = "reinstate", !.override = over, !.cells = cells,
                        !.share = IF picked THEN {row.block} ELSE {},
                        !.res[i] = row])
  BY DEF TakeBack
<1> DEFINE row == [res[i] EXCEPT !.status = "RESERVED", !.arr = a]
           cells == IF row.deducts THEN StayOf(row) ELSE {}
           picked == row.deducts /\ row.block # None
           share == IF picked THEN {row.block} ELSE {}
           t == [Idle EXCEPT !.kind = "reinstate", !.override = over, !.cells = cells,
                             !.share = share, !.res[i] = row]
<1>3. /\ Prepare(k, t) /\ t.kind \in Commands
      /\ IF picked THEN BlockCovers(World, row.block, cells, 1, over)
                   ELSE HouseCovers(World, cells, 1, over)
  BY <1>2 DEF Prepare
<1>4. /\ res[i] \in Booking
      /\ res[i].type \in Types /\ res[i].arr \in Dates /\ res[i].dep \in Dates
  BY <1>1, BookingType
<1>5. /\ row \in Booking /\ row.type = res[i].type /\ row.arr = a /\ row.dep = res[i].dep
      /\ row.status = "RESERVED" /\ row.deducts = res[i].deducts /\ row.block = res[i].block
      /\ row.block \in Blocks \cup {None}
  BY <1>4 DEF Booking
<1> HIDE DEF row
<1>6. cells \subseteq Cells /\ share \subseteq Blocks
  <2>1. StayOf(row) \subseteq Cells
    BY <1>4, <1>5, DemandCells DEF StayOf
  <2> QED
    BY <1>5, <2>1
<1>7. \A c, b : ~Sells(res[i], c) /\ ~Picks(res[i], b, c)
  BY NotCounted
<1>8. PickupRow(row) /\ (~picked => row.block = None)
  BY <1>1, <1>5 DEF PickupRow
<1>9. t \in Transaction
  <2> HIDE DEF cells, share
  <2> QED
    BY <1>3, <1>5, <1>6, IdleType, OverrideType DEF Transaction
<1>10. /\ t.override = over /\ t.cells = cells /\ t.share = share /\ t.ref = None
       /\ t.blk = Idle.blk /\ t.room = Idle.room
       /\ \A j \in Ids : t.res[j] = IF j \in {i} THEN row ELSE None
  <2> HIDE DEF cells, share
  <2> QED
    BY DEF Idle
<1> HIDE DEF t
<1>11. CASE picked
  <2>1. row.block \in Blocks /\ cells = StayOf(row) /\ share = {row.block} /\ Cardinality({i}) = 1
    BY <1>5, <1>11, FS_Singleton
  <2>2. PickupTx(t, over, row.block, {i}, row)
    BY <1>3, <1>5, <1>10, <1>11, <2>1 DEF PickupTx
  <2> HIDE DEF cells, share, picked
  <2> QED
    BY <1>1, <1>3, <1>5, <1>7, <1>9, <2>1, <2>2, FromBlock
<1>12. CASE ~picked
  <2>1. row.block = None /\ \A b \in Blocks : ~Active(row, b)
    BY <1>8, <1>12, NoneAssumption DEF Active
  <2>2. \A c : (Sells(row, c) => c \in cells) /\ \A b \in Blocks : ~Picks(row, b, c)
    BY <2>1, NoneAssumption DEF Sells, Consumes, Picks
  <2>3. \A c \in cells : over \/ Spare(World, c) >= 1
    BY <1>3, <1>12, HouseCoversCell
  <2>4. StayTx(t, over, cells, i, row)
    BY <1>10, <1>12 DEF StayTx
  <2> HIDE DEF cells
  <2>5. StayFits(over, cells, i, row)
    BY <1>7, <1>8, <2>1, <2>2, <2>3 DEF StayFits
  <2> QED
    BY <1>1, <1>3, <1>5, <1>9, <2>4, <2>5, OneStay
<1> QED
  BY <1>11, <1>12

LEMMA ReinstateSound ==
  ASSUME IInv, NEW k \in Clients, Reinstate(k)
  PROVE  \E t \in Transaction : Prepared(k, t) /\ t.room = Idle.room
<1>1. PICK i \in Ids : res[i].status = "CANCELLED" /\ TakeBack(k, i, res[i].arr)
  BY DEF Reinstate
<1>2. TypeOK
  BY DEF IInv
<1>3. res[i].arr \in Dates
  BY <1>1, <1>2, BookingType
<1> QED
  BY <1>1, <1>3, TakeBackSound

LEMMA ReinstateNoShowSound ==
  ASSUME IInv, NEW k \in Clients, ReinstateNoShow(k)
  PROVE  \E t \in Transaction : Prepared(k, t) /\ t.room = Idle.room
<1>1. PICK i \in Ids : /\ res[i].status = "NO_SHOW"
                       /\ TakeBack(k, i, IF res[i].arr > today THEN res[i].arr ELSE today)
  BY DEF ReinstateNoShow
<1>2. TypeOK /\ today \in Dates
  BY DEF IInv, TypeOK
<1>3. (IF res[i].arr > today THEN res[i].arr ELSE today) \in Dates
  BY <1>1, <1>2, BookingType
<1> QED
  BY <1>1, <1>3, TakeBackSound

LEMMA PickupSound ==
  ASSUME IInv, NEW k \in Clients, Pickup(k)
  PROVE  \E t \in Transaction : Prepared(k, t) /\ t.room = Idle.room
<1>1. TypeOK
  BY DEF IInv
<1>2. PICK b \in Blocks, ids \in (SUBSET Ids) \ {{}}, y \in Types, a \in Nights, d \in Dates,
           over \in Override :
       LET row == [status |-> "RESERVED", deducts |-> TRUE, type |-> y, arr |-> a, dep |-> d,
                   block |-> b]
       IN /\ today <= a /\ a < d
          /\ blk[b].from <= a /\ d <= blk[b].to
          /\ \A i \in ids : res[i].status = "none"
          /\ BlockCovers(World, b, StayOf(row), Cardinality(ids), over)
          /\ Prepare(k, [Idle EXCEPT !.kind = "pickup", !.override = over, !.share = {b},
                           !.cells = StayOf(row),
                           !.res = [i \in Ids |-> IF i \in ids THEN row ELSE None]])
  BY DEF Pickup
<1> DEFINE row == [status |-> "RESERVED", deducts |-> TRUE, type |-> y, arr |-> a, dep |-> d,
                   block |-> b]
           t == [Idle EXCEPT !.kind = "pickup", !.override = over, !.share = {b},
                             !.cells = StayOf(row),
                             !.res = [i \in Ids |-> IF i \in ids THEN row ELSE None]]
<1>3. /\ Prepare(k, t) /\ t.kind \in Commands
      /\ \A i \in ids : res[i].status = "none"
      /\ BlockCovers(World, b, StayOf(row), Cardinality(ids), over)
  BY <1>2 DEF Prepare
<1>4. a \in Dates
  BY BoundsAssumption DEF Nights, Dates
<1>5. /\ row \in Booking /\ StayOf(row) \subseteq Cells
      /\ row.block = b /\ row.status = "RESERVED" /\ row.deducts
  BY <1>4, DemandCells DEF Booking, StayOf
<1> HIDE DEF row
<1>6. t \in Transaction
  BY <1>3, <1>5, IdleType, OverrideType DEF Transaction
<1>7. /\ t.override = over /\ t.cells = StayOf(row) /\ t.share = {b} /\ t.ref = None
      /\ t.blk = Idle.blk /\ t.room = Idle.room
      /\ \A i \in Ids : t.res[i] = IF i \in ids THEN row ELSE None
  BY DEF Idle
<1> HIDE DEF t
<1>8. \A i \in ids : \A c, e : ~Sells(res[i], c) /\ ~Picks(res[i], e, c)
  BY <1>3, NotCounted
<1>9. PickupTx(t, over, b, ids, row)
  BY <1>3, <1>5, <1>7 DEF PickupTx
<1> QED
  BY <1>1, <1>3, <1>5, <1>6, <1>8, <1>9, FromBlock

----------------------------------------------------------------------------
(* Groups and blocks.                                                       *)

\* A block holds nothing where it has no allocation, and it has none outside its grid.
LEMMA NoGrid ==
  ASSUME NEW row \in Block \cup {NoBlock}, GridOK(row), NEW ys, NEW c \in Cells,
         c[1] \in ys, c \notin GridCells(row, ys)
  PROVE  row.alloc[c] = NoRow /\ \A n \in Nat : HeldOf(row, c, n) = 0
<1>1. row.alloc[c] = NoRow
  <2> SUFFICES ASSUME row.alloc[c] # NoRow PROVE FALSE
    OBVIOUS
  <2>1. c[2] \in row.from..(row.to - 1)
    BY DEF GridOK
  <2>2. c = <<c[1], c[2]>> /\ c[2] \in Nights
    BY DEF Cells
  <2>3. c \in GridCells(row, ys)
    BY <2>1, <2>2 DEF GridCells
  <2> QED
    BY <2>3
<1>2. row.released[c] \in Nat
  BY HeldOfRange
<1> QED
  BY <1>1, <1>2 DEF HeldOf, RemainingRooms, Max0, NoRow

LEMMA BlockType ==
  ASSUME TypeOK, NEW b \in Blocks
  PROVE  /\ blk[b] \in Block \cup {NoBlock}
         /\ blk[b].status # "none" => blk[b] \in Block
         /\ blk[b].status = "none" => blk[b] = NoBlock
         /\ blk[b].from \in Dates /\ blk[b].to \in Dates
         /\ blk[b].alloc \in [Cells -> NoRow..MaxAlloc]
         /\ blk[b].released \in [Cells -> 0..MaxAlloc]
<1>1. blk[b] \in Block \cup {NoBlock}
  BY DEF TypeOK
<1>2. blk[b].status # "none" => blk[b] \in Block
  BY <1>1 DEF NoBlock
<1>3. blk[b].status = "none" => blk[b] = NoBlock
  BY <1>1 DEF Block
<1>4. /\ NoBlock.from \in Dates /\ NoBlock.to \in Dates
      /\ NoBlock.alloc \in [Cells -> NoRow..MaxAlloc]
      /\ NoBlock.released \in [Cells -> 0..MaxAlloc]
  BY BoundsAssumption DEF NoBlock, Dates, NoRow
<1> QED
  BY <1>1, <1>2, <1>3, <1>4 DEF Block

\* Blocks that hold no more than before take no more from the house.
LEMMA HoldsLess ==
  ASSUME TypeOK, NEW t \in Transaction, t.res = Idle.res, NEW c \in Cells,
         \A b \in Blocks : t.blk[b] # None =>
            HeldOf(t.blk[b], c, Picked(World, b, c)) <= HeldOf(blk[b], c, Picked(World, b, c))
  PROVE  Take(After(t), c) <= Take(World, c)
<1> DEFINE w == After(t)
<1>1. /\ World \in Worlds /\ w \in Worlds /\ w.res = res /\ World.res = res /\ World.blk = blk
      /\ \A b \in Blocks : w.blk[b] = IF t.blk[b] # None THEN t.blk[b] ELSE blk[b]
  BY AfterRows
<1> HIDE DEF w
<1>2. Sold(w, c) = Sold(World, c) /\ \A b \in Blocks : Picked(w, b, c) = Picked(World, b, c)
  BY <1>1 DEF Sold, Picked
<1>3. \A b \in Blocks : Held(w, b, c) <= Held(World, b, c)
  <2>1. \A b \in Blocks : Held(World, b, c) \in Nat
    BY <1>1, HeldRange
  <2> QED
    BY <1>1, <1>2, <2>1 DEF Held
<1>4. Blocked(w, c) <= Blocked(World, c)
  BY <1>1, <1>3, BlockedMono
<1>5. Sold(w, c) \in Nat /\ Blocked(w, c) \in Nat /\ Blocked(World, c) \in Nat
  BY CountTypes
<1> QED
  BY <1>2, <1>4, <1>5 DEF Take, w

\* A transaction that writes one block.
BlockTx(t, over, cells, b, row) ==
  /\ t.override = over /\ t.cells = cells /\ t.share = {} /\ t.ref = None
  /\ t.res = Idle.res /\ t.room = Idle.room /\ t.blk[b] = row
  /\ \A a \in Blocks \ {b} : t.blk[a] = None

BlockFits(over, cells, b, row) ==
  /\ GridOK(row)
  /\ row.status # "DEDUCT" => \A i \in Ids : ~Active(res[i], b)
  /\ \A c \in Ahead \ cells, n \in Nat : HeldOf(blk[b], c, n) = HeldOf(row, c, n)
  /\ \A c \in Ahead \cap cells :
       \/ over
       \/ RemainingRooms(row, c, Picked(World, b, c))
            <= Max0(Spare([World EXCEPT !.blk[b] = NoBlock], c))
       \/ HeldOf(row, c, Picked(World, b, c)) <= HeldOf(blk[b], c, Picked(World, b, c))

LEMMA OneBlock ==
  ASSUME TypeOK, NEW k \in Clients, NEW t \in Transaction, Prepare(k, t),
         NEW over \in Override, NEW cells, NEW b \in Blocks, NEW row \in Block,
         BlockTx(t, over, cells, b, row), BlockFits(over, cells, b, row)
  PROVE  Prepared(k, t) /\ t.room = Idle.room
<1>1. row # None
  BY NoneAssumption
<1>2. /\ t.override = over /\ t.cells = cells /\ t.share = {} /\ t.ref = None
      /\ t.res = Idle.res /\ t.room = Idle.room /\ t.blk[b] = row
      /\ \A a \in Blocks \ {b} : t.blk[a] = None
  BY DEF BlockTx
<1> DEFINE w == After(t)  u == [World EXCEPT !.blk[b] = NoBlock]
<1>3. /\ World \in Worlds /\ w \in Worlds /\ w.res = res /\ w.room = room /\ w.blk[b] = row
      /\ World.blk = blk /\ World.room = room /\ World.res = res
      /\ blk \in [Blocks -> Block \cup {NoBlock}]
      /\ \A a \in Blocks \ {b} : w.blk[a] = blk[a]
  BY <1>1, <1>2, AfterRows DEF TypeOK
<1>4. /\ u \in Worlds /\ u.res = res /\ u.room = room /\ u.blk[b] = NoBlock
      /\ \A a \in Blocks \ {b} : u.blk[a] = blk[a]
  BY <1>3 DEF World, Worlds
<1> HIDE DEF w, u
<1>5. ASSUME NEW c \in Ahead \cap t.cells
      PROVE  over \/ Spare(w, c) >= 0 \/ Take(w, c) <= Take(World, c)
  <2>1. c \in Ahead /\ c \in cells /\ c \in Cells
    BY <1>2, AheadType
  <2>2. ASSUME RemainingRooms(row, c, Picked(World, b, c)) <= Max0(Spare(u, c))
        PROVE  Spare(w, c) >= 0 \/ Take(w, c) <= Take(World, c)
    BY <1>3, <1>4, <2>1, <2>2, BlockRow
  <2>3. ASSUME HeldOf(row, c, Picked(World, b, c)) <= HeldOf(blk[b], c, Picked(World, b, c))
        PROVE  Take(w, c) <= Take(World, c)
    BY <1>2, <2>1, <2>3, HoldsLess DEF w
  <2> QED
    BY <2>1, <2>2, <2>3 DEF BlockFits, u
<1>6. \A a \in Blocks : t.blk[a] # None =>
         /\ GridOK(t.blk[a])
         /\ t.blk[a].status # "DEDUCT" => \A i \in Ids : ~Active(res[i], a)
         /\ \A c \in Ahead \ t.cells, n \in Nat : HeldOf(blk[a], c, n) = HeldOf(t.blk[a], c, n)
  BY <1>2 DEF BlockFits
<1>7. Sound(t)
  BY <1>2, <1>5, <1>6, BlockSound DEF w
<1> QED
  BY <1>2, <1>7 DEF Prepared

LEMMA CreateBlockSound ==
  ASSUME IInv, NEW k \in Clients, CreateBlock(k)
  PROVE  \E t \in Transaction : Prepared(k, t) /\ t.room = Idle.room
<1>1. TypeOK /\ group \in GroupStatus /\ PickupsInDefiniteBlocks
  BY DEF IInv, TypeOK
<1>2. PICK b \in Blocks, from \in Nights, to \in Dates, elastic \in BOOLEAN,
           st \in {"INQUIRY", "NON_DEDUCT", "DEDUCT"},
           rooms \in [Types -> NoRow..MaxAlloc], over \in Override :
       LET row == [NoBlock EXCEPT !.status = st, !.elastic = elastic,
                     !.from = from, !.to = to,
                     !.alloc = [c \in Cells |-> IF c[2] \in from..(to - 1) THEN rooms[c[1]]
                                                                           ELSE NoRow]]
           cells == IF st = "DEDUCT" THEN GridCells(row, Types) ELSE {}
       IN /\ blk[b].status = "none"
          /\ today <= from /\ from < to
          /\ HouseCoversBlock(b, row, cells, over)
          /\ Prepare(k, [Idle EXCEPT !.kind = "createBlock", !.override = over,
                           !.cells = cells, !.group = group, !.blk[b] = row])
  BY DEF CreateBlock
<1> DEFINE alloc == [c \in Cells |-> IF c[2] \in from..(to - 1) THEN rooms[c[1]] ELSE NoRow]
           row == [NoBlock EXCEPT !.status = st, !.elastic = elastic,
                     !.from = from, !.to = to, !.alloc = alloc]
           cells == IF st = "DEDUCT" THEN GridCells(row, Types) ELSE {}
           t == [Idle EXCEPT !.kind = "createBlock", !.override = over,
                             !.cells = cells, !.group = group, !.blk[b] = row]
<1>3. /\ Prepare(k, t) /\ t.kind \in Commands
      /\ blk[b].status = "none" /\ HouseCoversBlock(b, row, cells, over)
  BY <1>2 DEF Prepare
<1>4. alloc \in [Cells -> NoRow..MaxAlloc]
  BY BoundsAssumption DEF Cells, NoRow
<1>5. /\ from \in Dates
      /\ \A c \in Cells : alloc[c] # NoRow => c[2] \in from..(to - 1)
  BY BoundsAssumption DEF Nights, Dates
<1> HIDE DEF alloc
<1>6. row \in Block /\ row.status = st /\ row.from = from /\ row.to = to /\ row.alloc = alloc
  <2>1. /\ row.status = st /\ row.from = from /\ row.to = to /\ row.alloc = alloc
        /\ row.elastic = elastic /\ row.released = [c \in Cells |-> 0]
    BY DEF NoBlock
  <2>2. [c \in Cells |-> 0] \in [Cells -> 0..MaxAlloc]
    BY BoundsAssumption
  <2>3. row \in Block
    <3> DEFINE rel == [c \in Cells |-> 0]
    <3>1. rel \in [Cells -> 0..MaxAlloc]
      BY <2>2
    <3> HIDE DEF rel
    <3>2. NoBlock = [status |-> "none", elastic |-> FALSE, from |-> 1, to |-> 1,
                     alloc |-> [c \in Cells |-> NoRow], released |-> rel]
      BY DEF NoBlock, rel
    <3> QED
      BY <1>4, <1>5, <3>1, <3>2 DEF Block
  <2> QED
    BY <2>1, <2>3
<1> HIDE DEF row
<1>7. GridOK(row)
  BY <1>5, <1>6 DEF GridOK
<1>8. cells \subseteq Cells
  BY DEF GridCells
<1>9. \A i \in Ids : ~Active(res[i], b)
  BY <1>1, <1>3 DEF Active, ActivePickup, PickupsInDefiniteBlocks
<1>10. \A c \in Cells \ cells, n \in Nat : HeldOf(blk[b], c, n) = 0 /\ HeldOf(row, c, n) = 0
  <2>1. ASSUME NEW c \in Cells \ cells, NEW n \in Nat PROVE HeldOf(row, c, n) = 0
    <3>1. CASE st # "DEDUCT"
      BY <1>6, <3>1 DEF HeldOf
    <3>2. CASE st = "DEDUCT"
      <4>1. c[1] \in Types
        BY DEF Cells
      <4> QED
        BY <1>6, <1>7, <3>2, <4>1, NoGrid
    <3> QED
      BY <3>1, <3>2
  <2> QED
    BY <1>3, <2>1 DEF HeldOf
<1> HIDE DEF cells
<1>11. BlockFits(over, cells, b, row)
  <2>1. \A c \in cells : over \/ RemainingRooms(row, c, Picked(World, b, c))
                                  <= Max0(Spare([World EXCEPT !.blk[b] = NoBlock], c))
    BY <1>3 DEF HouseCoversBlock
  <2> QED
    BY <1>7, <1>9, <1>10, <2>1, AheadType DEF BlockFits
<1>12. t \in Transaction
  BY <1>1, <1>3, <1>6, <1>8, IdleType, OverrideType DEF Transaction
<1>13. BlockTx(t, over, cells, b, row)
  BY DEF BlockTx, Idle
<1> HIDE DEF t
<1> QED
  BY <1>1, <1>3, <1>6, <1>11, <1>12, <1>13, OneBlock

LEMMA SetAllocationSound ==
  ASSUME IInv, NEW k \in Clients, SetAllocation(k)
  PROVE  \E t \in Transaction : Prepared(k, t) /\ t.room = Idle.room
<1>1. TypeOK /\ PickupsInDefiniteBlocks /\ \A b \in Blocks : GridOK(blk[b])
  BY DEF IInv
<1>2. PICK b \in Blocks, y \in Types, from \in Nights, to \in Nights, n \in 0..MaxAlloc,
           over \in Override :
       LET row == [blk[b] EXCEPT !.alloc =
                     [c \in Cells |-> IF c[1] = y /\ c[2] \in from..to THEN n ELSE @[c]]]
           cells == Demand(y, blk[b].from, blk[b].to)
       IN /\ blk[b].status \notin {"none", "CANCEL"}
          /\ blk[b].from <= from /\ from <= to /\ to < blk[b].to
          /\ \A c \in {y} \X (from..to) : MayAllocate(b, c, n)
          /\ blk[b].status = "DEDUCT" => HouseCoversBlock(b, row, cells, over)
          /\ Prepare(k, [Idle EXCEPT !.kind = "setAllocation", !.override = over,
                           !.cells = cells, !.blk[b] = row])
  BY DEF SetAllocation
<1> DEFINE alloc == [c \in Cells |-> IF c[1] = y /\ c[2] \in from..to THEN n ELSE blk[b].alloc[c]]
           row == [blk[b] EXCEPT !.alloc = alloc]
           cells == Demand(y, blk[b].from, blk[b].to)
           t == [Idle EXCEPT !.kind = "setAllocation", !.override = over,
                             !.cells = cells, !.blk[b] = row]
<1>3. /\ Prepare(k, t) /\ t.kind \in Commands
      /\ blk[b].status # "none"
      /\ blk[b].from <= from /\ to < blk[b].to
      /\ blk[b].status = "DEDUCT" => HouseCoversBlock(b, row, cells, over)
  BY <1>2 DEF Prepare
<1>4. /\ blk[b] \in Block /\ blk[b].from \in Dates /\ blk[b].to \in Dates
      /\ blk[b].alloc \in [Cells -> NoRow..MaxAlloc] /\ GridOK(blk[b])
  BY <1>1, <1>3, BlockType
<1>5. /\ alloc \in [Cells -> NoRow..MaxAlloc]
      /\ \A c \in Cells : alloc[c] = IF c[1] = y /\ c[2] \in from..to THEN n ELSE blk[b].alloc[c]
  <2>1. n \in NoRow..MaxAlloc
    BY BoundsAssumption DEF NoRow
  <2> QED
    BY <1>4, <2>1
<1>6. \A c \in Cells : c[1] = y /\ c[2] \in from..to =>
        c \in cells /\ c[2] \in blk[b].from..(blk[b].to - 1)
  <2>1. ASSUME NEW c \in Cells, c[1] = y, c[2] \in from..to
        PROVE  c \in cells /\ c[2] \in blk[b].from..(blk[b].to - 1)
    <3>1. from \in Int /\ to \in Int /\ blk[b].from \in Int /\ blk[b].to \in Int /\ c[2] \in Int
      BY <1>4, DemandCells DEF Nights, Dates
    <3>2. blk[b].from <= c[2] /\ c[2] < blk[b].to
      BY <1>3, <2>1, <3>1
    <3> QED
      BY <1>4, <2>1, <3>1, <3>2, DemandCells
  <2> QED
    BY <2>1
<1> HIDE DEF alloc
<1>7. /\ row \in Block /\ row.status = blk[b].status /\ row.from = blk[b].from
      /\ row.to = blk[b].to /\ row.alloc = alloc /\ row.released = blk[b].released
  BY <1>4, <1>5 DEF Block
<1> HIDE DEF row
<1>8. GridOK(row)
  BY <1>4, <1>5, <1>6, <1>7 DEF GridOK
<1>9. cells \subseteq Cells
  BY <1>4, DemandCells
<1>10. row.status # "DEDUCT" => \A i \in Ids : ~Active(res[i], b)
  BY <1>1, <1>7 DEF Active, ActivePickup, PickupsInDefiniteBlocks
<1>11. \A c \in Cells \ cells, m \in Nat : HeldOf(blk[b], c, m) = HeldOf(row, c, m)
  BY <1>5, <1>6, <1>7 DEF HeldOf, RemainingRooms
<1>12. ASSUME NEW c \in cells
       PROVE  \/ over
              \/ RemainingRooms(row, c, Picked(World, b, c))
                   <= Max0(Spare([World EXCEPT !.blk[b] = NoBlock], c))
              \/ HeldOf(row, c, Picked(World, b, c)) <= HeldOf(blk[b], c, Picked(World, b, c))
  <2>1. CASE blk[b].status = "DEDUCT"
    BY <1>3, <2>1 DEF HouseCoversBlock
  <2>2. CASE blk[b].status # "DEDUCT"
    BY <1>7, <2>2 DEF HeldOf
  <2> QED
    BY <2>1, <2>2
<1> HIDE DEF cells
<1>13. BlockFits(over, cells, b, row)
  BY <1>8, <1>10, <1>11, <1>12, AheadType DEF BlockFits
<1>14. t \in Transaction
  BY <1>3, <1>7, <1>9, IdleType, OverrideType DEF Transaction
<1>15. BlockTx(t, over, cells, b, row)
  BY DEF BlockTx, Idle
<1> HIDE DEF t
<1> QED
  BY <1>1, <1>3, <1>7, <1>13, <1>14, <1>15, OneBlock

LEMMA ChangeBlockStatusSound ==
  ASSUME IInv, NEW k \in Clients, ChangeBlockStatus(k)
  PROVE  \E t \in Transaction : Prepared(k, t) /\ t.room = Idle.room
<1>1. TypeOK /\ PickupsInDefiniteBlocks /\ \A b \in Blocks : GridOK(blk[b])
  BY DEF IInv
<1>2. PICK b \in Blocks, st \in {"INQUIRY", "NON_DEDUCT", "DEDUCT", "CANCEL"},
           over \in Override :
       LET row == [blk[b] EXCEPT !.status = st]
           inventoryChanges == (blk[b].status = "DEDUCT") # (st = "DEDUCT")
           cells == IF inventoryChanges THEN GridCells(row, Types) ELSE {}
       IN /\ blk[b].status \notin {"none", "CANCEL"}
          /\ BlockMayBecome(b, st)
          /\ st = "DEDUCT" => HouseCoversBlock(b, row, cells, over)
          /\ Prepare(k, [Idle EXCEPT !.kind = "changeBlockStatus", !.override = over,
                           !.cells = cells, !.blk[b] = row])
  BY DEF ChangeBlockStatus
<1> DEFINE row == [blk[b] EXCEPT !.status = st]
           changes == (blk[b].status = "DEDUCT") # (st = "DEDUCT")
           cells == IF changes THEN GridCells(row, Types) ELSE {}
           t == [Idle EXCEPT !.kind = "changeBlockStatus", !.override = over,
                             !.cells = cells, !.blk[b] = row]
<1>3. /\ Prepare(k, t) /\ t.kind \in Commands
      /\ blk[b].status # "none" /\ BlockMayBecome(b, st)
      /\ st = "DEDUCT" => HouseCoversBlock(b, row, cells, over)
  BY <1>2 DEF Prepare
<1>4. blk[b] \in Block /\ GridOK(blk[b])
  BY <1>1, <1>3, BlockType
<1>5. /\ row \in Block /\ row.status = st /\ row.from = blk[b].from /\ row.to = blk[b].to
      /\ row.alloc = blk[b].alloc /\ row.released = blk[b].released
  BY <1>4 DEF Block
<1> HIDE DEF row
<1>6. GridOK(row)
  BY <1>4, <1>5 DEF GridOK
<1>7. cells \subseteq Cells
  BY DEF GridCells
<1>8. st # "DEDUCT" => \A i \in Ids : ~Active(res[i], b)
  <2>1. ASSUME NEW i \in Ids, Active(res[i], b), st # "DEDUCT" PROVE FALSE
    <3>1. i \in ActivePickup(b)
      BY <2>1 DEF Active, ActivePickup
    <3>2. blk[b].status = "DEDUCT"
      BY <1>1, <3>1 DEF PickupsInDefiniteBlocks
    <3> QED
      BY <1>3, <2>1, <3>1, <3>2 DEF BlockMayBecome
  <2> QED
    BY <2>1
<1>9. ASSUME NEW c \in Cells \ cells, NEW n \in Nat PROVE HeldOf(blk[b], c, n) = HeldOf(row, c, n)
  <2>1. CASE ~changes
    BY <1>5, <2>1 DEF HeldOf, RemainingRooms
  <2>2. CASE changes
    <3>1. c[1] \in Types
      BY DEF Cells
    <3>2. HeldOf(row, c, n) = 0 /\ row.alloc[c] = NoRow
      BY <1>5, <1>6, <2>2, <3>1, NoGrid
    <3>3. blk[b].released[c] \in Nat
      BY <1>1, HeldOfRange, BlockType, BoundsAssumption
    <3> QED
      BY <1>5, <3>2, <3>3 DEF HeldOf, RemainingRooms, Max0, NoRow
  <2> QED
    BY <2>1, <2>2
<1>10. ASSUME NEW c \in cells
       PROVE  \/ over
              \/ RemainingRooms(row, c, Picked(World, b, c))
                   <= Max0(Spare([World EXCEPT !.blk[b] = NoBlock], c))
              \/ HeldOf(row, c, Picked(World, b, c)) <= HeldOf(blk[b], c, Picked(World, b, c))
  <2>1. CASE st = "DEDUCT"
    BY <1>3, <2>1 DEF HouseCoversBlock
  <2>2. CASE st # "DEDUCT"
    <3>1. c \in Cells /\ Picked(World, b, c) \in Nat
      BY <1>7, CountTypes
    <3>2. HeldOf(blk[b], c, Picked(World, b, c)) \in 0..MaxAlloc
      BY <1>4, <3>1, HeldOfRange
    <3> QED
      BY <1>5, <2>2, <3>2, BoundsAssumption DEF HeldOf
  <2> QED
    BY <2>1, <2>2
<1> HIDE DEF cells
<1>11. BlockFits(over, cells, b, row)
  BY <1>5, <1>6, <1>8, <1>9, <1>10, AheadType DEF BlockFits
<1>12. t \in Transaction
  BY <1>3, <1>5, <1>7, IdleType, OverrideType DEF Transaction
<1>13. BlockTx(t, over, cells, b, row)
  BY DEF BlockTx, Idle
<1> HIDE DEF t
<1> QED
  BY <1>1, <1>3, <1>5, <1>11, <1>12, <1>13, OneBlock

LEMMA ReleaseBlockSound ==
  ASSUME IInv, NEW k \in Clients, ReleaseBlock(k)
  PROVE  \E t \in Transaction : Prepared(k, t) /\ t.room = Idle.room
<1>1. TypeOK /\ PickupsInDefiniteBlocks /\ \A b \in Blocks : GridOK(blk[b])
  BY DEF IInv
<1>2. PICK b \in Blocks, ys \in {Types} \cup {{y} : y \in Types}, from \in Nights, to \in Nights :
       LET row == ReleasedRow(b, ys, from..to)
       IN /\ blk[b].status \notin {"none", "CANCEL"}
          /\ row # blk[b]
          /\ Prepare(k, [Idle EXCEPT !.kind = "releaseBlock", !.cells = GridCells(row, ys),
                                     !.blk[b] = row])
  BY DEF ReleaseBlock
<1> DEFINE row == ReleasedRow(b, ys, from..to)
           cells == GridCells(row, ys)
           rel == [c \in Cells |-> IF c[1] \in ys /\ c[2] \in from..to
                                     THEN blk[b].released[c] + Left(World, b, c)
                                     ELSE blk[b].released[c]]
           t == [Idle EXCEPT !.kind = "releaseBlock", !.cells = cells, !.blk[b] = row]
<1>3. Prepare(k, t) /\ t.kind \in Commands /\ blk[b].status # "none"
  BY <1>2 DEF Prepare
<1>4. /\ blk[b] \in Block /\ GridOK(blk[b]) /\ blk[b].alloc \in [Cells -> NoRow..MaxAlloc]
      /\ blk[b].released \in [Cells -> 0..MaxAlloc]
  BY <1>1, <1>3, BlockType
<1>5. ASSUME NEW c \in Cells
      PROVE  /\ rel[c] \in 0..MaxAlloc /\ rel[c] >= blk[b].released[c]
             /\ c[1] \notin ys => rel[c] = blk[b].released[c]
             /\ blk[b].alloc[c] \in Int /\ blk[b].released[c] \in Nat
  <2>1. blk[b].alloc[c] \in NoRow..MaxAlloc /\ blk[b].released[c] \in 0..MaxAlloc
    BY <1>4
  <2>2. Picked(World, b, c) \in Nat
    BY CountTypes
  <2>3. Left(World, b, c) = Max0(blk[b].alloc[c] - blk[b].released[c] - Picked(World, b, c))
    BY DEF Left, RemainingRooms, World
  <2>4. /\ blk[b].released[c] + Left(World, b, c) \in 0..MaxAlloc
        /\ blk[b].released[c] + Left(World, b, c) >= blk[b].released[c]
    BY <2>1, <2>2, <2>3, BoundsAssumption DEF Max0, NoRow
  <2> QED
    BY <2>1, <2>4, BoundsAssumption DEF NoRow
<1>6. rel \in [Cells -> 0..MaxAlloc]
  BY <1>5
<1>7. row = [blk[b] EXCEPT !.released = rel]
  BY DEF ReleasedRow
<1> HIDE DEF rel, row
<1>8. /\ row \in Block /\ row.status = blk[b].status /\ row.from = blk[b].from
      /\ row.to = blk[b].to /\ row.alloc = blk[b].alloc /\ row.released = rel
  BY <1>4, <1>6, <1>7 DEF Block
<1>9. GridOK(row)
  BY <1>4, <1>8 DEF GridOK
<1>10. cells \subseteq Cells
  BY DEF GridCells
<1>11. row.status # "DEDUCT" => \A i \in Ids : ~Active(res[i], b)
  BY <1>1, <1>8 DEF Active, ActivePickup, PickupsInDefiniteBlocks
<1>12. ASSUME NEW c \in Cells \ cells, NEW n \in Nat PROVE HeldOf(blk[b], c, n) = HeldOf(row, c, n)
  <2>1. CASE c[1] \notin ys
    BY <1>5, <1>8, <2>1 DEF HeldOf, RemainingRooms
  <2>2. CASE c[1] \in ys
    <3>1. HeldOf(row, c, n) = 0 /\ row.alloc[c] = NoRow
      BY <1>8, <1>9, <2>2, NoGrid
    <3> QED
      BY <1>5, <1>8, <3>1 DEF HeldOf, RemainingRooms, Max0, NoRow
  <2> QED
    BY <2>1, <2>2
<1>13. ASSUME NEW c \in cells
       PROVE  HeldOf(row, c, Picked(World, b, c)) <= HeldOf(blk[b], c, Picked(World, b, c))
  <2>1. c \in Cells /\ Picked(World, b, c) \in Nat
    BY <1>10, CountTypes
  <2>2. rel[c] \in Nat /\ rel[c] >= blk[b].released[c]
        /\ blk[b].alloc[c] \in Int /\ blk[b].released[c] \in Nat
    BY <1>5, <2>1, BoundsAssumption
  <2> QED
    BY <1>8, <2>1, <2>2 DEF HeldOf, RemainingRooms, Max0
<1> HIDE DEF cells
<1>14. BlockFits(FALSE, cells, b, row)
  BY <1>9, <1>11, <1>12, <1>13, AheadType DEF BlockFits
<1>15. t \in Transaction
  BY <1>3, <1>8, <1>10, IdleType DEF Transaction
<1>16. BlockTx(t, FALSE, cells, b, row)
  BY DEF BlockTx, Idle
<1> HIDE DEF t
<1> QED
  BY <1>1, <1>3, <1>8, <1>14, <1>15, <1>16, OverrideType, OneBlock

LEMMA CloseGroupSound ==
  ASSUME IInv, NEW k \in Clients, CloseGroup(k)
  PROVE  \E t \in Transaction : Prepared(k, t) /\ t.room = Idle.room
<1> DEFINE t == [Idle EXCEPT !.kind = "closeGroup", !.group = "CLOSED"]
<1>1. TypeOK /\ Prepare(k, t) /\ t.kind \in Commands
  BY DEF IInv, CloseGroup, Prepare
<1>2. t \in Transaction
  BY <1>1, IdleType DEF Transaction, GroupStatus
<1>3. /\ ~t.override /\ t.override \in Override /\ t.cells = {} /\ t.share = {} /\ t.ref = None
      /\ t.res = Idle.res /\ t.blk = Idle.blk /\ t.room = Idle.room
      /\ Idle.res = [i \in Ids |-> None]
  BY OverrideType DEF Idle
<1> HIDE DEF t
<1>4. Sound(t)
  BY <1>1, <1>2, <1>3, StaySound
<1> QED
  BY <1>1, <1>2, <1>3, <1>4 DEF Prepared

LEMMA CancelGroupSound ==
  ASSUME IInv, NEW k \in Clients, CancelGroup(k)
  PROVE  \E t \in Transaction : Prepared(k, t) /\ t.room = Idle.room
<1> DEFINE cells == UNION {GridCells(blk[b], Types) : b \in LiveBlocks}
           new == [b \in Blocks |-> IF b \notin LiveBlocks THEN None
                                    ELSE IF b \in tx[k].fresh
                                           THEN [blk[b] EXCEPT !.status = "CANCEL"]
                                           ELSE blk[b]]
           t == [tx[k] EXCEPT !.cells = cells, !.blk = new]
<1>1. /\ TypeOK /\ tx[k] \in Transaction /\ Quiet(tx[k]) /\ tx[k].override \in Override
      /\ \A b \in Blocks : GridOK(blk[b])
  BY DEF IInv, TypeOK
<1>2. /\ Prepare(k, t) /\ tx[k].pc = "read"
      /\ \A b \in LiveBlocks : ActivePickup(b) = {}
  BY DEF CancelGroup
<1>3. ASSUME NEW b \in LiveBlocks
      PROVE  /\ b \in Blocks /\ blk[b] \in Block /\ new[b] \in Block
             /\ new[b].alloc = blk[b].alloc /\ new[b].released = blk[b].released
             /\ new[b].from = blk[b].from /\ new[b].to = blk[b].to
             /\ new[b] = blk[b] \/ new[b].status = "CANCEL"
  <2>1. b \in Blocks /\ blk[b] \in Block
    BY <1>1, BlockType DEF LiveBlocks
  <2> QED
    BY <2>1 DEF Block
<1>4. \A b \in Blocks : b \notin LiveBlocks => new[b] = None
  OBVIOUS
<1>5. cells \subseteq Cells /\ new \in [Blocks -> Block \cup {None}]
  BY <1>3, <1>4 DEF GridCells
<1>6. \A b \in LiveBlocks : \A c \in Cells \ cells : c \notin GridCells(blk[b], Types)
  OBVIOUS
<1> HIDE DEF cells, new
<1>7. t \in Transaction
  BY <1>1, <1>5 DEF Transaction
<1>8. /\ t.cells = cells /\ t.blk = new /\ t.share = {} /\ t.override = tx[k].override
      /\ t.res = Idle.res /\ t.room = Idle.room /\ t.ref = tx[k].ref
  BY <1>1, <1>2 DEF Quiet, Transaction
<1> HIDE DEF t
<1>9. ASSUME NEW b \in LiveBlocks, NEW c \in Cells, NEW n \in Nat
      PROVE  /\ HeldOf(new[b], c, n) <= HeldOf(blk[b], c, n)
             /\ c \notin cells => HeldOf(new[b], c, n) = HeldOf(blk[b], c, n)
  <2>1. HeldOf(blk[b], c, n) \in Nat
    BY <1>3, HeldOfRange, BoundsAssumption
  <2>2. CASE new[b] = blk[b]
    BY <2>1, <2>2
  <2>3. CASE new[b].status = "CANCEL"
    <3>1. HeldOf(new[b], c, n) = 0
      BY <2>3 DEF HeldOf
    <3>2. ASSUME c \notin cells PROVE HeldOf(blk[b], c, n) = 0
      <4>1. c[1] \in Types /\ c \notin GridCells(blk[b], Types) /\ GridOK(blk[b])
        BY <1>1, <1>3, <1>6, <3>2 DEF Cells
      <4> QED
        BY <1>3, <4>1, NoGrid
    <3> QED
      BY <2>1, <3>1, <3>2
  <2> QED
    BY <1>3, <2>2, <2>3
<1>10. ASSUME NEW c \in Ahead \cap t.cells PROVE Take(After(t), c) <= Take(World, c)
  <2>1. c \in Cells /\ \A b : Picked(World, b, c) \in Nat
    BY AheadType, CountTypes
  <2>2. \A b \in Blocks : t.blk[b] # None =>
           HeldOf(t.blk[b], c, Picked(World, b, c)) <= HeldOf(blk[b], c, Picked(World, b, c))
    BY <1>4, <1>8, <1>9, <2>1
  <2> QED
    BY <1>1, <1>7, <1>8, <2>1, <2>2, HoldsLess
<1>11. \A b \in Blocks : t.blk[b] # None =>
         /\ GridOK(t.blk[b])
         /\ \A i \in Ids : ~Active(res[i], b)
         /\ \A c \in Ahead \ t.cells, n \in Nat : HeldOf(blk[b], c, n) = HeldOf(t.blk[b], c, n)
  <2>1. ASSUME NEW b \in LiveBlocks PROVE GridOK(new[b]) /\ \A i \in Ids : ~Active(res[i], b)
    <3>1. GridOK(new[b])
      BY <1>1, <1>3 DEF GridOK
    <3>2. \A i \in Ids : ~Active(res[i], b)
      BY <1>2 DEF Active, ActivePickup
    <3> QED
      BY <3>1, <3>2
  <2> QED
    BY <1>4, <1>8, <1>9, <2>1, AheadType
<1>12. Sound(t)
  BY <1>1, <1>7, <1>8, <1>10, <1>11, BlockSound
<1> QED
  BY <1>1, <1>2, <1>7, <1>8, <1>12 DEF Prepared

----------------------------------------------------------------------------
(* Rooms.                                                                   *)

LEMMA RoomType ==
  ASSUME TypeOK, NEW r \in Rooms
  PROVE  /\ room[r] \in Room \cup {NoRoom}
         /\ room[r].type # None => room[r] \in Room
         /\ room[r].type = None => ~room[r].active /\ room[r] \notin Room
         /\ room[r].ooo \subseteq Dates \X Dates
<1>1. room[r] \in Room \cup {NoRoom}
  BY DEF TypeOK
<1> QED
  BY <1>1, NoneAssumption DEF Room, NoRoom

\* A transaction that writes one room.
RoomTx(t, r, row) ==
  /\ ~t.override /\ t.share = {} /\ t.res = Idle.res /\ t.blk = Idle.blk
  /\ t.room[r] = row /\ \A q \in Rooms \ {r} : t.room[q] = None

LEMMA OneRoom ==
  ASSUME TypeOK, NEW k \in Clients, NEW t \in Transaction, Prepare(k, t),
         NEW r \in Rooms, NEW row \in Room, RoomTx(t, r, row),
         t.ref = None \/ t.ref = tx[k].ref,
         RoomsKept =>
           /\ room[r] \in Room => row.type = room[r].type
           /\ \A c \in Ahead \ t.cells : Usable(room[r], c) => Usable(row, c)
           /\ \A c \in Ahead \cap t.cells :
                Spare(World, c) >= 1 \/ (Usable(room[r], c) => Usable(row, c))
  PROVE  Prepared(k, t)
<1>1. row # None
  BY NoneAssumption
<1>2. /\ ~t.override /\ t.override \in Override /\ t.share = {}
      /\ t.res = Idle.res /\ t.blk = Idle.blk
      /\ t.room[r] = row /\ \A q \in Rooms \ {r} : t.room[q] = None
  <2>1. ~t.override /\ t.override \in BOOLEAN
    BY DEF RoomTx, Transaction
  <2> QED
    BY <2>1, OverrideType DEF RoomTx
<1> DEFINE w == After(t)
<1>3. /\ World \in Worlds /\ w \in Worlds /\ w.res = res /\ w.blk = blk /\ w.room[r] = row
      /\ World.blk = blk /\ World.room = room /\ World.res = res
      /\ \A q \in Rooms \ {r} : w.room[q] = room[q]
  BY <1>1, <1>2, AfterRows
<1> HIDE DEF w
<1>4. ASSUME RoomsKept, NEW c \in Ahead \cap t.cells
      PROVE  Spare(w, c) >= 0 \/ (Usable(room[r], c) => Usable(row, c))
  <2>1. CASE Spare(World, c) >= 1
    <3>1. c \in Cells
      BY AheadType
    <3>2. SameTake(World, w, c)
      BY <1>3 DEF SameTake
    <3>3. Take(w, c) <= Take(World, c)
      BY <1>3, <3>1, <3>2, TakeSame, SpareUsable
    <3>4. Spare(w, c) >= Spare(World, c) - 1
      BY <1>3, <3>3, SpareOneRoom
    <3>5. Spare(w, c) \in Int /\ Spare(World, c) \in Int
      BY SpareUsable
    <3> QED
      BY <2>1, <3>4, <3>5
  <2> QED
    BY <1>4, <2>1
<1>5. Sound(t)
  BY <1>2, <1>4, RoomSound DEF w
<1> QED
  BY <1>2, <1>5 DEF Prepared

\* If the room it writes counts for a cell as before, so do all.
LEMMA OneRoomUse ==
  ASSUME TypeOK, NEW t \in Transaction, NEW r \in Rooms, NEW row \in Room, RoomTx(t, r, row),
         NEW c, SameRoom(room[r], row, c)
  PROVE  SameUse(World, After(t), c)
<1>1. row # None
  BY NoneAssumption
<1>2. /\ World.room = room /\ After(t).room[r] = row
      /\ \A q \in Rooms \ {r} : After(t).room[q] = room[q]
  BY <1>1, AfterRows DEF RoomTx
<1>3. \A q \in Rooms : SameRoom(World.room[q], After(t).room[q], c)
  BY <1>2 DEF SameRoom
<1> QED
  BY <1>3 DEF SameUse

\* Outside its cells a period of a room changes no room's use.
UseKept(t) == RoomsKept => \A c \in Ahead \ t.cells : SameUse(World, After(t), c)

LEMMA PlaceSound ==
  ASSUME IInv, NEW k \in Clients, Place(k)
  PROVE  \E t \in Transaction : Prepared(k, t) /\ UseKept(t)
<1>1. /\ TypeOK /\ tx[k] \in Transaction /\ Quiet(tx[k]) /\ RefOK(tx[k])
  BY DEF IInv, TypeOK
<1>2. PICK from \in Nights, to \in Dates :
       LET r == tx[k].ref.room
           cells == Demand(tx[k].ref.type, from, to)
       IN /\ today <= from /\ from < to
          /\ HouseCovers(World, cells, 1, FALSE)
          /\ \A p \in room[r].ooo : p[2] <= from \/ to <= p[1]
          /\ Prepare(k, [tx[k] EXCEPT !.cells = cells,
               !.room[r] = [room[r] EXCEPT !.ooo = @ \cup {<<from, to>>}]])
  BY DEF Place
<1> DEFINE r == tx[k].ref.room
           cells == Demand(tx[k].ref.type, from, to)
           row == [room[r] EXCEPT !.ooo = room[r].ooo \cup {<<from, to>>}]
           t == [tx[k] EXCEPT !.cells = cells, !.room[r] = row]
<1>3. Prepare(k, t) /\ HouseCovers(World, cells, 1, FALSE)
  BY <1>2
<1>4. /\ tx[k].pc = "read" /\ tx[k].ref # None
      /\ room[r] \in Room /\ (RoomsKept => room[r].type = tx[k].ref.type)
  BY <1>1 DEF Place, RefOK
<1>5. r \in Rooms /\ tx[k].ref.type \in Types /\ tx[k].ref \in [room : Rooms, type : Types]
  BY <1>1, <1>4 DEF Transaction
<1>6. from \in Dates
  BY BoundsAssumption DEF Nights, Dates
<1>7. cells \subseteq Cells
  BY <1>5, <1>6, DemandCells
<1>8. /\ row \in Room /\ row.type = room[r].type /\ row.active = room[r].active
      /\ row.ooo = room[r].ooo \cup {<<from, to>>}
  <2>1. room[r].ooo \cup {<<from, to>>} \in SUBSET (Dates \X Dates)
    BY <1>4, <1>6 DEF Room
  <2> QED
    BY <1>4, <2>1 DEF Room
<1> HIDE DEF row
<1>9. ASSUME RoomsKept, NEW c \in Ahead \ cells PROVE SameRoom(room[r], row, c)
  <2>1. c[1] # tx[k].ref.type \/ c[2] < from \/ c[2] >= to
    BY <1>5, <1>6, AheadType, DemandCells DEF Dates
  <2>2. room[r].type = c[1] => c[2] \notin from..(to - 1)
    BY <1>4, <1>6, <1>9, <2>1, AheadType DEF Dates
  <2>3. <<from, to>>[1] = from /\ <<from, to>>[2] = to
    OBVIOUS
  <2> QED
    BY <1>8, <2>2, <2>3 DEF SameRoom, OutOfUse
<1>10. \A c \in cells : Spare(World, c) >= 1
  BY <1>3 DEF HouseCovers
<1> HIDE DEF cells, r
<1>11. t \in Transaction
  BY <1>1, <1>7, <1>8 DEF Transaction
<1>12. /\ RoomTx(t, r, row) /\ t.cells = cells /\ t.ref = tx[k].ref
  <2>1. /\ tx[k].res = Idle.res /\ tx[k].blk = Idle.blk /\ tx[k].room = Idle.room
        /\ tx[k].share = {} /\ ~tx[k].override
    BY <1>1, <1>4 DEF Quiet
  <2>2. Idle.room = [q \in Rooms |-> None]
    BY DEF Idle
  <2>3. /\ t.override = tx[k].override /\ t.share = tx[k].share /\ t.res = tx[k].res
        /\ t.blk = tx[k].blk /\ t.cells = cells /\ t.ref = tx[k].ref
        /\ t.room = [tx[k].room EXCEPT ![r] = row]
    BY <1>1 DEF Transaction
  <2> HIDE DEF t
  <2> QED
    BY <1>5, <2>1, <2>2, <2>3 DEF RoomTx, r
<1> HIDE DEF t
<1>13. r \in Rooms
  BY <1>5 DEF r
<1>14. UseKept(t)
  BY <1>1, <1>8, <1>9, <1>11, <1>12, <1>13, OneRoomUse DEF UseKept
<1>15. ASSUME RoomsKept, NEW c \in Ahead \ cells, Usable(room[r], c) PROVE Usable(row, c)
  BY <1>9, <1>15 DEF Usable, SameRoom
<1> QED
  BY <1>1, <1>3, <1>8, <1>10, <1>11, <1>12, <1>13, <1>14, <1>15, OneRoom

LEMMA ReturnSound ==
  ASSUME IInv, NEW k \in Clients, Return(k)
  PROVE  \E t \in Transaction : Prepared(k, t) /\ UseKept(t)
<1>1. /\ TypeOK /\ tx[k] \in Transaction /\ Quiet(tx[k]) /\ RefOK(tx[k]) /\ today \in Dates
  BY DEF IInv, TypeOK
<1> DEFINE r == tx[k].ref.room
<1>2. PICK p \in room[r].ooo :
        Prepare(k, [tx[k] EXCEPT
            !.cells = Demand(tx[k].ref.type, IF p[1] > today THEN p[1] ELSE today, p[2]),
            !.room[r] = [room[r] EXCEPT !.ooo = @ \ {p}]])
  BY DEF Return
<1> DEFINE from == IF p[1] > today THEN p[1] ELSE today
           cells == Demand(tx[k].ref.type, from, p[2])
           row == [room[r] EXCEPT !.ooo = room[r].ooo \ {p}]
           t == [tx[k] EXCEPT !.cells = cells, !.room[r] = row]
<1>3. Prepare(k, t)
  BY <1>2
<1>4. /\ tx[k].pc = "read" /\ tx[k].ref # None
      /\ room[r] \in Room /\ (RoomsKept => room[r].type = tx[k].ref.type)
  BY <1>1 DEF Return, RefOK
<1>5. r \in Rooms /\ tx[k].ref.type \in Types /\ tx[k].ref \in [room : Rooms, type : Types]
  BY <1>1, <1>4 DEF Transaction
<1>6. p[1] \in Dates /\ p[2] \in Dates
  BY <1>1, <1>5, RoomType
<1>7. cells \subseteq Cells
  <2>1. from \in Dates
    BY <1>1, <1>6
  <2> HIDE DEF from
  <2> QED
    BY <1>5, <1>6, <2>1, DemandCells
<1>8. /\ row \in Room /\ row.type = room[r].type /\ row.active = room[r].active
      /\ row.ooo = room[r].ooo \ {p}
  BY <1>4 DEF Room
<1> HIDE DEF row
<1>9. \A c : Usable(room[r], c) => Usable(row, c)
  BY <1>8 DEF Usable, OutOfUse
<1>12. ASSUME RoomsKept, NEW c \in Ahead \ cells PROVE SameRoom(room[r], row, c)
  <2>1. from \in Dates /\ from >= p[1] /\ (from = p[1] \/ from = today)
    BY <1>1, <1>6 DEF Dates
  <2> HIDE DEF from
  <2>2. c[1] # tx[k].ref.type \/ c[2] < from \/ c[2] >= p[2]
    <3>1. c \in Cells /\ c \notin Demand(tx[k].ref.type, from, p[2]) /\ c[2] \in Int
      BY <1>12, AheadType
    <3>2. c[1] = tx[k].ref.type /\ from <= c[2] /\ c[2] < p[2]
            => c \in Demand(tx[k].ref.type, from, p[2])
      BY <1>5, <1>6, <2>1, <3>1, DemandCells
    <3> QED
      BY <1>6, <2>1, <3>1, <3>2 DEF Dates
  <2>3. room[r].type = c[1] => c[2] \notin p[1]..(p[2] - 1)
    BY <1>1, <1>4, <1>6, <1>12, <2>1, <2>2, AheadType DEF Dates
  <2> QED
    BY <1>8, <2>3 DEF SameRoom, OutOfUse
<1> HIDE DEF cells, r
<1>10. t \in Transaction
  BY <1>1, <1>7, <1>8 DEF Transaction
<1>11. RoomTx(t, r, row) /\ t.ref = tx[k].ref /\ t.cells = cells
  <2>1. /\ tx[k].res = Idle.res /\ tx[k].blk = Idle.blk /\ tx[k].room = Idle.room
        /\ tx[k].share = {} /\ ~tx[k].override
    BY <1>1, <1>4 DEF Quiet
  <2>2. Idle.room = [q \in Rooms |-> None]
    BY DEF Idle
  <2>3. /\ t.override = tx[k].override /\ t.share = tx[k].share /\ t.res = tx[k].res
        /\ t.blk = tx[k].blk /\ t.ref = tx[k].ref /\ t.cells = cells
        /\ t.room = [tx[k].room EXCEPT ![r] = row]
    BY <1>1 DEF Transaction
  <2> HIDE DEF t
  <2> QED
    BY <1>5, <2>1, <2>2, <2>3 DEF RoomTx, r
<1> HIDE DEF t
<1>13. r \in Rooms
  BY <1>5 DEF r
<1>14. UseKept(t)
  BY <1>1, <1>8, <1>10, <1>11, <1>12, <1>13, OneRoomUse DEF UseKept
<1> QED
  BY <1>1, <1>3, <1>8, <1>9, <1>10, <1>11, <1>13, <1>14, OneRoom

LEMMA AddRoomSound ==
  ASSUME IInv, NEW k \in Clients, AddRoom(k)
  PROVE  \E t \in Transaction : Prepared(k, t)
<1>1. TypeOK
  BY DEF IInv
<1>2. PICK r \in Rooms, y \in Types :
       /\ room[r].type = None
       /\ Prepare(k, [Idle EXCEPT !.kind = "addRoom", !.cells = CountedCells,
            !.room[r] = [NoRoom EXCEPT !.type = y, !.active = TRUE]])
  BY DEF AddRoom
<1> DEFINE row == [NoRoom EXCEPT !.type = y, !.active = TRUE]
           t == [Idle EXCEPT !.kind = "addRoom", !.cells = CountedCells, !.room[r] = row]
<1>3. Prepare(k, t) /\ t.kind \in Commands
  BY <1>2 DEF Prepare
<1>4. row \in Room
  BY DEF NoRoom, Room
<1>5. ~room[r].active /\ room[r] \notin Room
  BY <1>1, <1>2, RoomType
<1>6. \A c : ~Usable(room[r], c)
  BY <1>5 DEF Usable
<1> HIDE DEF row
<1>7. t \in Transaction
  BY <1>3, <1>4, IdleType DEF Transaction, CountedCells
<1>8. RoomTx(t, r, row) /\ t.ref = None
  BY DEF RoomTx, Idle
<1> HIDE DEF t
<1> QED
  BY <1>1, <1>3, <1>4, <1>5, <1>6, <1>7, <1>8, OneRoom

LEMMA EditRoomSound ==
  ASSUME IInv, NEW k \in Clients, EditRoom(k)
  PROVE  \E t \in Transaction : Prepared(k, t)
<1>1. TypeOK
  BY DEF IInv
<1>2. PICK r \in Rooms, y \in Types, active \in BOOLEAN :
       LET row == [room[r] EXCEPT !.type = y, !.active = active]
       IN /\ room[r].type # None /\ row # room[r]
          /\ y # room[r].type => "retype" \in Edits
          /\ room[r].active /\ ~active => "retire" \in Edits
          /\ ~room[r].active /\ active => "reactivate" \in Edits
          /\ Prepare(k, [Idle EXCEPT !.kind = "editRoom", !.cells = CountedCells,
                                     !.room[r] = row])
  BY DEF EditRoom
<1> DEFINE row == [room[r] EXCEPT !.type = y, !.active = active]
           t == [Idle EXCEPT !.kind = "editRoom", !.cells = CountedCells, !.room[r] = row]
<1>3. /\ Prepare(k, t) /\ t.kind \in Commands /\ "editRoom" \in Commands
      /\ room[r].type # None
      /\ y # room[r].type => "retype" \in Edits
      /\ room[r].active /\ ~active => "retire" \in Edits
  BY <1>2 DEF Prepare, Idle
<1>4. room[r] \in Room
  BY <1>1, <1>3, RoomType
<1>5. row \in Room /\ row.type = y /\ row.active = active /\ row.ooo = room[r].ooo
  BY <1>4 DEF Room
<1> HIDE DEF row
<1>6. RoomsKept => /\ row.type = room[r].type
                   /\ \A c : Usable(room[r], c) => Usable(row, c)
  BY <1>3, <1>5 DEF RoomsKept, Usable, OutOfUse
<1>7. t \in Transaction
  BY <1>3, <1>5, IdleType DEF Transaction, CountedCells
<1>8. RoomTx(t, r, row) /\ t.ref = None
  BY DEF RoomTx, Idle
<1> HIDE DEF t
<1> QED
  BY <1>1, <1>3, <1>5, <1>6, <1>7, <1>8, OneRoom

----------------------------------------------------------------------------
(* Steps of one transaction that leave the database as it is.                *)

\* Two transactions hold nothing in common.
Apart(s, t) ==
  /\ s.cells \cap t.cells = {}
  /\ Written(s.res) \cap Written(t.res) = {}
  /\ Written(s.blk) \cap (Written(t.blk) \cup t.share) = {}
  /\ s.share \cap Written(t.blk) = {}
  /\ Written(s.room) \cap Written(t.room) = {}
  /\ s.group = None \/ t.group = None

LEMMA ApartIsLockable ==
  /\ \A k, t : Lockable(k, t) <=> \A j \in Clients \ {k} : Apart(tx[j], t)
  /\ \A s, t : Apart(s, t) <=> Apart(t, s)
BY DEF Lockable, Apart

\* What a transaction holds and has written, without its stage and its counters.
SameWork(s, t) ==
  /\ s.res = t.res /\ s.blk = t.blk /\ s.room = t.room
  /\ s.cells = t.cells /\ s.share = t.share /\ s.override = t.override /\ s.group = t.group

LEMMA SoundFrame ==
  ASSUME UNCHANGED <<today, room, res, blk>>, NEW j \in Clients, NEW t,
         SameWork(tx'[j], t), Sound(t)
  PROVE  Sound(tx[j])'
<1>1. /\ World' = World /\ Ahead' = Ahead /\ After(tx[j])' = After(t)
      /\ tx'[j].res = t.res /\ tx'[j].blk = t.blk /\ tx'[j].room = t.room
      /\ tx'[j].cells = t.cells /\ tx'[j].share = t.share /\ tx'[j].override = t.override
      /\ blk' = blk /\ res' = res /\ room' = room
  BY DEF World, Ahead, After, SameWork
<1>2. PickupSafe(tx[j])'
  BY <1>1 DEF Sound, PickupSafe
<1>3. RoomsKept => CoverSafe(tx[j])'
  <2>1. RoomsKept => TypesKept(tx[j])'
    BY <1>1 DEF Sound, CoverSafe, TypesKept
  <2>2. RoomsKept => Isolated(tx[j])'
    BY <1>1 DEF Sound, CoverSafe, Isolated
  <2>3. RoomsKept => Covered(tx[j])'
    BY <1>1 DEF Sound, CoverSafe, Covered
  <2>4. RoomsKept => Neutral(tx[j])'
    BY <1>1 DEF Sound, CoverSafe, Neutral
  <2> QED
    BY <2>1, <2>2, <2>3, <2>4 DEF CoverSafe
<1> QED
  BY <1>2, <1>3 DEF Sound

\* The invariant, when one transaction changes and the database does not.
LEMMA OneTransaction ==
  ASSUME IInv, NEW k \in Clients, NEW t \in Transaction, NEW s \in Transaction,
         tx' = [tx EXCEPT ![k] = s], SameWork(s, t),
         UNCHANGED <<today, room, res, blk, group, cell>>,
         Lockable(k, t), Quiet(s), RefOK(s), s.override \in Override,
         s.pc = "ready" => Sound(t)
  PROVE  IInv'
<1>1. TypeOK'
  BY DEF IInv, TypeOK
<1>2. tx'[k] = s /\ \A j \in Clients \ {k} : tx'[j] = tx[j]
  BY DEF IInv, TypeOK
<1>3. ASSUME NEW j \in Clients PROVE Lockable(j, tx[j])'
  <2>1. \A l \in Clients \ {k} : Apart(tx[l], s)
    <3>1. \A l \in Clients \ {k} : Apart(tx[l], t)
      BY ApartIsLockable
    <3> QED
      BY <3>1 DEF SameWork, Apart
  <2>2. ASSUME NEW l \in Clients \ {j} PROVE Apart(tx'[l], tx'[j])
    <3>1. \A a \in Clients, b \in Clients : a # b => Apart(tx[a], tx[b])
      BY ApartIsLockable DEF IInv
    <3> QED
      BY <1>2, <2>1, <3>1, ApartIsLockable
  <2> QED
    BY <2>2 DEF Lockable, Apart
<1>4. ASSUME NEW j \in Clients PROVE Quiet(tx[j])' /\ RefOK(tx[j])' /\ (tx[j].override \in Override)'
  <2>1. CASE j = k
    BY <1>2, <2>1 DEF Quiet, RefOK
  <2>2. CASE j # k
    BY <1>2, <2>2 DEF IInv, Quiet, RefOK
  <2> QED
    BY <2>1, <2>2
<1>5. ASSUME NEW j \in Ready' PROVE Sound(tx[j])'
  <2>1. j \in Clients /\ tx'[j].pc = "ready"
    BY DEF Ready
  <2>2. CASE j = k
    BY <1>2, <2>1, <2>2, SoundFrame
  <2>3. CASE j # k
    <3>1. Sound(tx[j]) /\ SameWork(tx'[j], tx[j])
      BY <1>2, <2>1, <2>3 DEF IInv, Ready, SameWork
    <3> QED
      BY <2>1, <3>1, SoundFrame
  <2> QED
    BY <2>2, <2>3
<1>6. /\ (\A b \in Blocks : GridOK(blk[b]))'
      /\ (\A i \in Ids : PickupRow(res[i]))'
      /\ PickupsInDefiniteBlocks'
  BY DEF IInv, PickupsInDefiniteBlocks, ActivePickup
<1>7. RoomsKept /\ ~Overrides => NoOversale'
  BY DEF IInv, NoOversale, Ahead, World
<1> QED
  BY <1>1, <1>3, <1>4, <1>5, <1>6, <1>7 DEF IInv

LEMMA PreparedKeeps ==
  ASSUME IInv, NEW k \in Clients, NEW t \in Transaction, Prepared(k, t)
  PROVE  IInv'
<1> DEFINE sync == [c \in Cells |-> IF c \in t.cells THEN Recount(After(t), c) ELSE None]
           s == [t EXCEPT !.pc = "ready", !.sync = sync]
<1>1. /\ tx' = [tx EXCEPT ![k] = s] /\ UNCHANGED <<today, room, res, blk, group, cell>>
      /\ Lockable(k, t) /\ Sound(t) /\ t.override \in Override
      /\ t.ref = None \/ t.ref = tx[k].ref
  BY DEF Prepared, Prepare
<1>2. sync \in [Cells -> Counters \cup {None}]
  BY RecountType
<1> HIDE DEF sync
<1>3. s \in Transaction /\ SameWork(s, t) /\ s.pc = "ready" /\ s.override = t.override /\ s.ref = t.ref
  BY <1>2 DEF Transaction, SameWork
<1> HIDE DEF s
<1>4. Quiet(s) /\ RefOK(s)
  BY <1>1, <1>3 DEF Quiet, RefOK, IInv
<1> QED
  BY <1>1, <1>3, <1>4, OneTransaction

LEMMA IdleApart ==
  ASSUME NEW k, NEW t, t.cells = {}, t.share = {}, Written(t.res) = {}, Written(t.blk) = {},
         Written(t.room) = {}, t.group = None
  PROVE  Lockable(k, t)
BY DEF Lockable

LEMMA AbortKeeps ==
  ASSUME IInv, NEW k \in Clients, Abort(k)
  PROVE  IInv'
<1>1. tx' = [tx EXCEPT ![k] = Idle] /\ UNCHANGED <<today, room, res, blk, group, cell>>
  BY DEF Abort
<1>2. Lockable(k, Idle)
  BY IdleType, IdleApart
<1>3. Quiet(Idle) /\ RefOK(Idle) /\ SameWork(Idle, Idle) /\ Idle.override \in Override
  BY IdleType, OverrideType DEF Quiet, RefOK, SameWork, Idle
<1> QED
  BY <1>1, <1>2, <1>3, IdleType, OneTransaction

LEMMA BeginCancelGroupKeeps ==
  ASSUME IInv, NEW k \in Clients, BeginCancelGroup(k)
  PROVE  IInv'
<1> DEFINE t == [Idle EXCEPT !.pc = "read", !.kind = "cancelGroup", !.group = "CANCELLED",
                             !.fresh = LiveBlocks]
<1>1. /\ tx' = [tx EXCEPT ![k] = t] /\ UNCHANGED <<today, room, res, blk, group, cell>>
      /\ Lockable(k, t) /\ "cancelGroup" \in Commands
  BY DEF BeginCancelGroup
<1>2. t \in Transaction
  BY <1>1, IdleType DEF Transaction, GroupStatus, LiveBlocks
<1>3. /\ t.pc = "read" /\ t.kind = "cancelGroup" /\ t.ref = None /\ t.override = FALSE
      /\ t.cells = {} /\ t.share = {}
      /\ t.res = Idle.res /\ t.blk = Idle.blk /\ t.room = Idle.room
  BY DEF Idle
<1> HIDE DEF t
<1>4. Quiet(t) /\ RefOK(t) /\ SameWork(t, t) /\ t.override \in Override
  BY <1>3, OverrideType DEF Quiet, RefOK, SameWork
<1> QED
  BY <1>1, <1>2, <1>3, <1>4, OneTransaction

LEMMA ReadRoomKeeps ==
  ASSUME IInv, NEW k \in Clients, ReadRoom(k)
  PROVE  IInv'
<1>1. PICK r \in Rooms, kind \in {"place", "return"} \cap Commands :
       /\ kind = "place" => room[r].active
       /\ kind = "return" => room[r].ooo # {}
       /\ tx' = [tx EXCEPT ![k] = [Idle EXCEPT !.pc = "read", !.kind = kind,
                                     !.ref = [room |-> r, type |-> room[r].type]]]
  BY DEF ReadRoom
<1> DEFINE ref == [room |-> r, type |-> room[r].type]
           t == [Idle EXCEPT !.pc = "read", !.kind = kind, !.ref = ref]
<1>2. tx' = [tx EXCEPT ![k] = t] /\ UNCHANGED <<today, room, res, blk, group, cell>>
  BY <1>1 DEF ReadRoom
<1>3. room[r] \in Room
  <2>1. room[r] \in Room \cup {NoRoom}
    BY DEF IInv, TypeOK
  <2> QED
    BY <1>1, <2>1 DEF NoRoom
<1>4. /\ ref \in [room : Rooms, type : Types] /\ ref.room = r /\ ref.type = room[r].type
  BY <1>3 DEF Room
<1> HIDE DEF ref
<1>5. t \in Transaction
  BY <1>4, IdleType DEF Transaction
<1>6. /\ t.pc = "read" /\ t.kind = kind /\ t.ref = ref /\ t.override = FALSE
      /\ t.cells = {} /\ t.share = {} /\ t.group = None
      /\ t.res = Idle.res /\ t.blk = Idle.blk /\ t.room = Idle.room
  BY DEF Idle
<1> HIDE DEF t
<1>7. ref # None
  BY <1>4, NoneAssumption
<1>8. Quiet(t) /\ RefOK(t) /\ SameWork(t, t) /\ t.override \in Override /\ Lockable(k, t)
  BY <1>3, <1>4, <1>6, <1>7, OverrideType, IdleType, IdleApart DEF Quiet, RefOK, SameWork
<1> QED
  BY <1>2, <1>5, <1>6, <1>8, OneTransaction

----------------------------------------------------------------------------
(* Steps that change the database.                                          *)

\* The database as a transaction sees it after a step of another, row by row.
LEMMA AfterRowsNext ==
  ASSUME TypeOK', NEW k \in Clients, tx[k] \in Transaction, tx'[k] \in Transaction,
         SameWork(tx'[k], tx[k])
  PROVE  LET t == tx[k]  w2 == After(tx[k])'
         IN /\ World' \in Worlds /\ w2 \in Worlds
            /\ World'.res = res' /\ World'.blk = blk' /\ World'.room = room'
            /\ \A i \in Ids : w2.res[i] = IF i \in Written(t.res) THEN t.res[i] ELSE res'[i]
            /\ \A b \in Blocks : w2.blk[b] = IF b \in Written(t.blk) THEN t.blk[b] ELSE blk'[b]
            /\ \A r \in Rooms : w2.room[r] = IF r \in Written(t.room) THEN t.room[r] ELSE room'[r]
<1> DEFINE t == tx[k]  v2 == World'  w2 == After(tx[k])'
<1>0. /\ tx'[k].res = t.res /\ tx'[k].blk = t.blk /\ tx'[k].room = t.room
  BY DEF SameWork
<1>1. /\ res' \in [Ids -> Booking \cup {NoBooking}] /\ t.res \in [Ids -> Booking \cup {None}]
      /\ blk' \in [Blocks -> Block \cup {NoBlock}] /\ t.blk \in [Blocks -> Block \cup {None}]
      /\ room' \in [Rooms -> Room \cup {NoRoom}] /\ t.room \in [Rooms -> Room \cup {None}]
  BY DEF TypeOK, Transaction
<1>2. /\ w2.res = Overlay(t.res, res') /\ w2.blk = Overlay(t.blk, blk')
      /\ w2.room = Overlay(t.room, room')
      /\ v2.res = res' /\ v2.blk = blk' /\ v2.room = room'
  BY <1>0 DEF After, World
<1>3. v2 \in Worlds
  BY <1>1 DEF World, Worlds
<1>4. w2 \in Worlds
  <2>1. w2 = [res |-> Overlay(t.res, res'), blk |-> Overlay(t.blk, blk'),
              room |-> Overlay(t.room, room')]
    BY <1>0 DEF After
  <2>2. Overlay(t.res, res') \in [Ids -> Booking \cup {NoBooking}]
    BY <1>1 DEF Overlay
  <2>3. Overlay(t.blk, blk') \in [Blocks -> Block \cup {NoBlock}]
    BY <1>1 DEF Overlay
  <2>4. Overlay(t.room, room') \in [Rooms -> Room \cup {NoRoom}]
    BY <1>1 DEF Overlay
  <2> QED
    BY <2>1, <2>2, <2>3, <2>4 DEF Worlds
<1>5. \A i \in Ids : w2.res[i] = IF i \in Written(t.res) THEN t.res[i] ELSE res'[i]
  BY <1>1, <1>2 DEF Overlay, Written
<1>6. \A b \in Blocks : w2.blk[b] = IF b \in Written(t.blk) THEN t.blk[b] ELSE blk'[b]
  BY <1>1, <1>2 DEF Overlay, Written
<1>7. \A r \in Rooms : w2.room[r] = IF r \in Written(t.room) THEN t.room[r] ELSE room'[r]
  BY <1>1, <1>2 DEF Overlay, Written
<1> QED
  BY <1>2, <1>3, <1>4, <1>5, <1>6, <1>7

\* A transaction stays sound when the database changes elsewhere: not in the rows it
\* has written or shares, and in its cells only to leave as many rooms.
LEMMA Stable ==
  ASSUME TypeOK, TypeOK', NEW k \in Clients, tx[k] \in Transaction, tx'[k] \in Transaction,
         SameWork(tx'[k], tx[k]), Sound(tx[k]),
         today' >= today, today \in Dates, today' \in Dates,
         \A i \in Written(tx[k].res) : res'[i] = res[i],
         \A b \in Written(tx[k].blk) \cup tx[k].share : blk'[b] = blk[b],
         \A r \in Written(tx[k].room) : room'[r] = room[r],
         \A b \in Written(tx[k].blk) :
            tx[k].blk[b].status # "DEDUCT" => \A i \in Ids : ~Active(res'[i], b),
         RoomsKept => \A c \in Ahead' \cap tx[k].cells :
                        SameTake(World, World', c) /\ NoLess(World, World', c)
  PROVE  Sound(tx[k])'
<1> DEFINE t == tx[k]  v == World  v2 == World'  w == After(tx[k])  w2 == After(tx[k])'
<1>1. /\ v \in Worlds /\ w \in Worlds /\ v.res = res /\ v.blk = blk /\ v.room = room
      /\ \A i \in Ids : w.res[i] = IF i \in Written(t.res) THEN t.res[i] ELSE res[i]
      /\ \A b \in Blocks : w.blk[b] = IF b \in Written(t.blk) THEN t.blk[b] ELSE blk[b]
      /\ \A r \in Rooms : w.room[r] = IF r \in Written(t.room) THEN t.room[r] ELSE room[r]
      /\ Written(t.res) \subseteq Ids /\ Written(t.blk) \subseteq Blocks
      /\ Written(t.room) \subseteq Rooms
  BY AfterRows
<1>2. /\ tx'[k].res = t.res /\ tx'[k].blk = t.blk /\ tx'[k].room = t.room
      /\ tx'[k].cells = t.cells /\ tx'[k].share = t.share /\ tx'[k].override = t.override
  BY DEF SameWork
<1>3. /\ v2 \in Worlds /\ w2 \in Worlds /\ v2.res = res' /\ v2.blk = blk' /\ v2.room = room'
      /\ \A i \in Ids : w2.res[i] = IF i \in Written(t.res) THEN t.res[i] ELSE res'[i]
      /\ \A b \in Blocks : w2.blk[b] = IF b \in Written(t.blk) THEN t.blk[b] ELSE blk'[b]
      /\ \A r \in Rooms : w2.room[r] = IF r \in Written(t.room) THEN t.room[r] ELSE room'[r]
  BY AfterRowsNext
<1>4. Ahead' \subseteq Ahead
  BY DEF Ahead, Cells, Nights, Dates
<1>5. PickupSafe(tx[k])'
  <2>1. t.share \cap Written(t.blk) = {}
    BY DEF Sound, PickupSafe
  <2>2. ASSUME NEW i \in Written(t.res)
        PROVE  /\ PickupRow(t.res[i])
               /\ \A b \in Blocks : Active(t.res[i], b) =>
                    Active(res'[i], b) \/ (b \in t.share /\ blk'[b].status = "DEDUCT")
    BY <2>2 DEF Sound, PickupSafe
  <2>3. ASSUME NEW b \in Written(t.blk)
        PROVE  /\ GridOK(t.blk[b])
               /\ t.blk[b].status # "DEDUCT" => \A i \in Ids : ~Active(res'[i], b)
    BY <2>3 DEF Sound, PickupSafe
  <2> QED
    BY <1>2, <2>1, <2>2, <2>3 DEF PickupSafe
<1>6. ASSUME RoomsKept PROVE CoverSafe(tx[k])'
  <2>1. TypesKept(t) /\ Isolated(t) /\ Covered(t) /\ Neutral(t)
    BY <1>6 DEF Sound, CoverSafe
  <2>2. TypesKept(tx[k])'
    BY <1>2, <2>1 DEF TypesKept
  <2> HIDE DEF v, v2, w, w2
  <2>3. ASSUME NEW c \in Ahead' \ t.cells PROVE SameTake(v2, w2, c) /\ NoLess(v2, w2, c)
    <3>1. SameTake(v, w, c) /\ NoLess(v, w, c)
      BY <1>4, <2>1 DEF Isolated, v, w
    <3>2. SameTake(v2, w2, c)
      BY <1>1, <1>3, <3>1 DEF SameTake
    <3>3. NoLess(v2, w2, c)
      BY <1>1, <1>3, <3>1 DEF NoLess
    <3> QED
      BY <3>2, <3>3
  <2>4. ASSUME NEW c \in Ahead' \cap t.cells
        PROVE  /\ Take(v2, c) = Take(v, c) /\ Take(w2, c) = Take(w, c)
               /\ Spare(w2, c) >= Spare(w, c)
               /\ NoLess(v, w, c) => NoLess(v2, w2, c)
    <3>1. SameTake(v, v2, c) /\ NoLess(v, v2, c) /\ c \in Cells
      BY <1>4, <1>6, AheadType DEF v, v2
    <3>2. SameTake(w, w2, c)
      BY <1>1, <1>3, <3>1 DEF SameTake
    <3>3. Take(v2, c) = Take(v, c) /\ Take(w2, c) = Take(w, c) /\ Take(w, c) \in Nat
      BY <1>1, <1>3, <3>1, <3>2, TakeSame, SpareUsable
    <3>4. \A r \in Rooms : Usable(w.room[r], c) => Usable(w2.room[r], c)
      BY <1>1, <1>3, <3>1 DEF NoLess
    <3>5. Spare(w2, c) >= Spare(w, c)
      BY <3>3, <3>4, SpareMono
    <3>6. ASSUME NoLess(v, w, c) PROVE NoLess(v2, w2, c)
      <4>1. ASSUME NEW r \in Rooms, Usable(v2.room[r], c) PROVE Usable(w2.room[r], c)
        <5>1. CASE r \in Written(t.room)
          BY <1>1, <1>3, <3>6, <4>1, <5>1 DEF NoLess
        <5>2. CASE r \notin Written(t.room)
          BY <1>3, <4>1, <5>2
        <5> QED
          BY <5>1, <5>2
      <4> QED
        BY <4>1 DEF NoLess
    <3> QED
      BY <3>3, <3>5, <3>6
  <2>5. \A c : Spare(w2, c) \in Int /\ Spare(w, c) \in Int
    BY SpareUsable
  <2>6. \A c \in Ahead' \ t.cells : Take(w2, c) = Take(v2, c) /\ Take(v2, c) \in Nat
    BY <1>3, <1>4, <2>3, TakeSame, SpareUsable, AheadType
  <2>7. ASSUME ~t.override, NEW c \in Ahead'
        PROVE  Spare(w2, c) >= 0 \/ (Take(w2, c) <= Take(v2, c) /\ NoLess(v2, w2, c))
    <3>1. CASE c \in t.cells
      <4>1. Spare(w, c) >= 0 \/ (Take(w, c) <= Take(v, c) /\ NoLess(v, w, c))
        BY <1>4, <2>1, <2>7 DEF Covered, v, w
      <4> QED
        BY <2>4, <2>5, <3>1, <4>1
    <3>2. CASE c \notin t.cells
      BY <2>3, <2>6, <3>2
    <3> QED
      BY <3>1, <3>2
  <2>8. ASSUME NEW b \in t.share, ~t.override, ~blk'[b].elastic
        PROVE  t.room = Idle.room /\ \A c \in Ahead' : Take(w2, c) = Take(v2, c)
    <3>1. blk'[b] = blk[b]
      OBVIOUS
    <3>2. t.room = Idle.room /\ \A c \in Ahead : Take(w, c) = Take(v, c)
      BY <2>1, <2>8, <3>1 DEF Neutral, v, w
    <3> QED
      BY <1>4, <2>4, <2>6, <3>2
  <2>9. Isolated(tx[k])'
    BY <1>2, <2>3 DEF Isolated, v2, w2
  <2>10. Covered(tx[k])'
    BY <1>2, <2>7 DEF Covered, v2, w2
  <2>11. Neutral(tx[k])'
    BY <1>2, <2>8 DEF Neutral, v2, w2
  <2> QED
    BY <2>2, <2>9, <2>10, <2>11 DEF CoverSafe
<1> QED
  BY <1>5, <1>6 DEF Sound

LEMMA CommitKeeps ==
  ASSUME IInv, NEW k \in Clients, Commit(k)
  PROVE  IInv'
<1> DEFINE t == tx[k]  w == After(t)
<1>1. /\ TypeOK /\ t \in Transaction /\ k \in Ready /\ Sound(t) /\ PickupsInDefiniteBlocks
      /\ \A i \in Ids : PickupRow(res[i])
      /\ \A b \in Blocks : GridOK(blk[b])
  BY DEF IInv, TypeOK, Commit, Ready
<1>2. /\ res' = w.res /\ blk' = w.blk /\ room' = w.room /\ today' = today
      /\ group' = IF t.group = None THEN group ELSE t.group
      /\ cell' = [c \in Cells |-> IF c \in t.cells THEN t.sync[c] ELSE cell[c]]
      /\ tx' = [j \in Clients |-> IF j = k THEN Idle
                                  ELSE [tx[j] EXCEPT !.fresh = @ \ Written(t.blk)]]
  BY DEF Commit
<1>3. /\ World \in Worlds /\ w \in Worlds
      /\ World.res = res /\ World.blk = blk /\ World.room = room
      /\ w.res \in [Ids -> Booking \cup {NoBooking}]
      /\ w.blk \in [Blocks -> Block \cup {NoBlock}]
      /\ w.room \in [Rooms -> Room \cup {NoRoom}]
      /\ \A i \in Ids : w.res[i] = IF t.res[i] # None THEN t.res[i] ELSE res[i]
      /\ \A b \in Blocks : w.blk[b] = IF t.blk[b] # None THEN t.blk[b] ELSE blk[b]
      /\ \A r \in Rooms : w.room[r] = IF t.room[r] # None THEN t.room[r] ELSE room[r]
      /\ Written(t.res) = {i \in Ids : t.res[i] # None}
      /\ Written(t.blk) = {b \in Blocks : t.blk[b] # None}
      /\ Written(t.room) = {r \in Rooms : t.room[r] # None}
  BY <1>1, AfterRows
<1> HIDE DEF w
<1>4. ASSUME NEW j \in Clients \ {k}
      PROVE  /\ tx[j] \in Transaction /\ tx'[j] \in Transaction /\ SameWork(tx'[j], tx[j])
             /\ tx'[j].pc = tx[j].pc /\ tx'[j].kind = tx[j].kind /\ tx'[j].ref = tx[j].ref
  <2>1. tx[j] \in Transaction
    BY <1>1 DEF TypeOK
  <2> DEFINE fresh == tx[j].fresh \ Written(t.blk)
  <2>2. tx'[j] = [tx[j] EXCEPT !.fresh = fresh]
    BY <1>2
  <2>3. fresh \in SUBSET Blocks
    BY <2>1 DEF Transaction
  <2> HIDE DEF fresh
  <2> QED
    BY <2>1, <2>2, <2>3 DEF Transaction, SameWork
<1>5. tx'[k] = Idle
  BY <1>2
<1>6. TypeOK'
  <2>1. group' \in GroupStatus /\ cell' \in [Cells -> Counters \cup {None}]
    BY <1>1, <1>2 DEF TypeOK, Transaction
  <2>2. tx' \in [Clients -> Transaction]
    BY <1>2, <1>4, <1>5, IdleType
  <2> QED
    BY <1>1, <1>2, <1>3, <2>1, <2>2 DEF TypeOK
<1>7. ASSUME NEW j \in Clients PROVE Lockable(j, tx[j])'
  <2>1. \A a \in Clients, b \in Clients : a # b => Apart(tx[a], tx[b])
    BY ApartIsLockable DEF IInv
  <2>2. ASSUME NEW l \in Clients \ {j} PROVE Apart(tx'[l], tx'[j])
    <3>1. CASE l = k \/ j = k
      BY <1>5, <3>1, IdleType DEF Apart
    <3>2. CASE l # k /\ j # k
      <4>1. SameWork(tx'[l], tx[l]) /\ SameWork(tx'[j], tx[j])
        BY <1>4, <3>2
      <4> QED
        BY <2>1, <4>1 DEF SameWork, Apart
    <3> QED
      BY <3>1, <3>2
  <2> QED
    BY <2>2 DEF Lockable, Apart
<1>8. \A r \in Rooms : room[r] \in Room =>
        /\ room'[r] \in Room
        /\ RoomsKept => room'[r].type = room[r].type
  <2>1. \A r \in Rooms : t.room[r] \in Room \cup {None}
    BY <1>1 DEF Transaction
  <2> QED
    BY <1>1, <1>2, <1>3, <2>1 DEF Sound, CoverSafe, TypesKept
<1>9. ASSUME NEW j \in Clients PROVE Quiet(tx[j])' /\ RefOK(tx[j])' /\ (tx[j].override \in Override)'
  <2>1. CASE j = k
    <3>1. tx'[j] = Idle /\ Idle.pc = "idle" /\ Idle.ref = None /\ Idle.override \in Override
      BY <1>5, <2>1, OverrideType DEF Idle
    <3>2. Quiet(tx[j])'
      BY <3>1, IdleType DEF Quiet
    <3> QED
      BY <3>1, <3>2 DEF RefOK
  <2>2. CASE j # k
    <3>1. Quiet(tx[j]) /\ RefOK(tx[j]) /\ tx[j].override \in Override /\ j \in Clients \ {k}
      BY <2>2 DEF IInv
    <3>2. tx[j].ref # None => tx[j].ref.room \in Rooms
      BY <1>4, <3>1 DEF Transaction
    <3>3. Quiet(tx[j])' /\ (tx[j].override \in Override)'
      BY <1>4, <3>1 DEF Quiet, SameWork
    <3>4. RefOK(tx[j])'
      BY <1>4, <1>8, <3>1, <3>2 DEF RefOK
    <3> QED
      BY <3>3, <3>4
  <2> QED
    BY <2>1, <2>2
<1>10. ASSUME NEW b \in Blocks PROVE GridOK(blk'[b])
  BY <1>1, <1>2, <1>3 DEF Sound, PickupSafe
<1>11. ASSUME NEW i \in Ids PROVE PickupRow(res'[i])
  BY <1>1, <1>2, <1>3 DEF Sound, PickupSafe
<1>12. ASSUME NEW i \in Ids, NEW b \in Blocks, Active(res'[i], b)
       PROVE  \/ blk[b].status = "DEDUCT" /\ b \in t.share
              \/ blk[b].status = "DEDUCT" /\ Active(res[i], b)
  <2>1. Active(res[i], b) => blk[b].status = "DEDUCT"
    BY <1>1 DEF PickupsInDefiniteBlocks, ActivePickup, Active
  <2>2. CASE i \in Written(t.res)
    BY <1>1, <1>2, <1>3, <1>12, <2>1, <2>2 DEF Sound, PickupSafe
  <2>3. CASE i \notin Written(t.res)
    BY <1>2, <1>3, <1>12, <2>1, <2>3
  <2> QED
    BY <2>2, <2>3
<1>13. PickupsInDefiniteBlocks'
  <2>1. ASSUME NEW i \in Ids, NEW b \in Blocks, Active(res'[i], b)
        PROVE  blk'[b].status = "DEDUCT"
    <3>1. CASE b \notin Written(t.blk)
      BY <1>2, <1>3, <1>12, <2>1, <3>1
    <3>2. CASE b \in Written(t.blk)
      <4>1. b \notin t.share
        BY <1>1, <3>2 DEF Sound, PickupSafe
      <4>2. Active(res[i], b)
        BY <1>12, <2>1, <4>1
      <4> QED
        BY <1>1, <1>2, <1>3, <3>2, <4>2 DEF Sound, PickupSafe
    <3> QED
      BY <3>1, <3>2
  <2> QED
    BY <2>1 DEF PickupsInDefiniteBlocks, ActivePickup, Active
<1>14. World' = [res |-> w.res, blk |-> w.blk, room |-> w.room] /\ World' = w
  <2>1. World' = [res |-> w.res, blk |-> w.blk, room |-> w.room]
    BY <1>2 DEF World
  <2>2. w = [res |-> w.res, blk |-> w.blk, room |-> w.room]
    BY DEF w, After
  <2> QED
    BY <2>1, <2>2
<1>15. Ahead' = Ahead
  BY <1>2 DEF Ahead
<1>16. ASSUME NEW j \in Ready' PROVE Sound(tx[j])'
  <2>1. j \in Clients \ {k} /\ j \in Ready /\ Sound(tx[j]) /\ Lockable(j, tx[j])
    <3>1. j \in Clients /\ tx'[j].pc = "ready" /\ j # k
      BY <1>5, IdleType DEF Ready
    <3> QED
      BY <1>4, <3>1 DEF IInv, Ready
  <2>2. Apart(t, tx[j])
    BY <2>1, ApartIsLockable
  <2>3. /\ Written(t.res) \cap Written(tx[j].res) = {}
        /\ Written(t.blk) \cap (Written(tx[j].blk) \cup tx[j].share) = {}
        /\ Written(t.room) \cap Written(tx[j].room) = {}
        /\ t.share \cap Written(tx[j].blk) = {}
        /\ t.cells \cap tx[j].cells = {}
    BY <2>2 DEF Apart
  <2>4. /\ Written(tx[j].res) \subseteq Ids /\ Written(tx[j].blk) \subseteq Blocks
        /\ Written(tx[j].room) \subseteq Rooms /\ tx[j].share \subseteq Blocks
    BY <1>1, <1>4, <2>1, AfterRows DEF Transaction
  <2>5. /\ \A i \in Written(tx[j].res) : res'[i] = res[i]
        /\ \A b \in Written(tx[j].blk) \cup tx[j].share : blk'[b] = blk[b]
        /\ \A r \in Written(tx[j].room) : room'[r] = room[r]
    BY <1>2, <1>3, <2>3, <2>4
  <2>6. ASSUME NEW b \in Written(tx[j].blk), tx[j].blk[b].status # "DEDUCT",
               NEW i \in Ids, Active(res'[i], b)
        PROVE  FALSE
    <3>1. b \notin t.share /\ b \in Blocks
      BY <2>3, <2>4, <2>6
    <3>2. Active(res[i], b)
      BY <1>12, <2>6, <3>1
    <3> QED
      BY <2>1, <2>6, <3>2 DEF Sound, PickupSafe
  <2>7. ASSUME RoomsKept, NEW c \in Ahead' \cap tx[j].cells
        PROVE  SameTake(World, World', c) /\ NoLess(World, World', c)
    <3>1. c \in Ahead \ t.cells
      BY <1>15, <2>3
    <3>2. Isolated(t)
      BY <1>1, <2>7 DEF Sound, CoverSafe
    <3> QED
      BY <1>14, <3>1, <3>2 DEF Isolated, w
  <2>8. /\ tx[j] \in Transaction /\ tx'[j] \in Transaction /\ SameWork(tx'[j], tx[j])
        /\ today' >= today /\ today \in Dates /\ today' \in Dates
    BY <1>1, <1>2, <1>4, <2>1 DEF TypeOK, Dates
  <2> QED
    BY <1>1, <1>6, <2>1, <2>5, <2>6, <2>7, <2>8, Stable
<1>17. ASSUME RoomsKept, ~Overrides PROVE NoOversale'
  <2>1. ASSUME NEW c \in Ahead PROVE Spare(w, c) >= 0
    <3>1. ~t.override
      BY <1>17 DEF IInv, Override
    <3>2. Spare(World, c) >= 0
      BY <1>17 DEF IInv, NoOversale
    <3>3. Covered(t)
      BY <1>1, <1>17 DEF Sound, CoverSafe
    <3>4. Spare(w, c) >= 0 \/ (Take(w, c) <= Take(World, c) /\ NoLess(World, w, c))
      BY <3>1, <3>3 DEF Covered, w
    <3>5. ASSUME Take(w, c) <= Take(World, c), NoLess(World, w, c) PROVE Spare(w, c) >= 0
      <4>1. Spare(w, c) >= Spare(World, c)
        BY <3>5, SpareMono DEF NoLess
      <4>2. Spare(w, c) \in Int /\ Spare(World, c) \in Int
        BY SpareUsable
      <4> QED
        BY <3>2, <4>1, <4>2
    <3> QED
      BY <3>4, <3>5
  <2> QED
    BY <1>14, <1>15, <2>1 DEF NoOversale
<1> QED
  BY <1>6, <1>7, <1>9, <1>10, <1>11, <1>13, <1>16, <1>17 DEF IInv

LEMMA RollKeeps ==
  ASSUME IInv, Roll
  PROVE  IInv'
<1>1. /\ TypeOK /\ today \in Dates /\ room \in [Rooms -> Room \cup {NoRoom}]
      /\ tx \in [Clients -> Transaction] /\ cell \in [Cells -> Counters \cup {None}]
  BY DEF IInv, TypeOK
<1>2. /\ today <= LastNight /\ today' = today + 1
      /\ room' = [r \in Rooms |-> [room[r] EXCEPT !.ooo = {p \in @ : p[2] > today + 1}]]
      /\ res' = res /\ blk' = blk /\ group' = group /\ tx' = tx
      /\ cell' = [c \in Cells |-> IF c \in CountedCells
                                  THEN Recount([World EXCEPT !.room = room'], c) ELSE cell[c]]
  BY DEF Roll
<1>3. today' \in Dates /\ today' >= today /\ today \in Int
  BY <1>1, <1>2, BoundsAssumption DEF Dates
<1>4. ASSUME NEW r \in Rooms
      PROVE  /\ room'[r] \in Room \cup {NoRoom}
             /\ room'[r].type = room[r].type /\ room'[r].active = room[r].active
             /\ room'[r].ooo = {p \in room[r].ooo : p[2] > today + 1}
             /\ room[r] \in Room => room'[r] \in Room
             /\ room[r].ooo \subseteq Dates \X Dates
  <2>1. room'[r] = [room[r] EXCEPT !.ooo = {p \in room[r].ooo : p[2] > today + 1}]
    BY <1>2
  <2>2. CASE room[r] \in Room
    BY <2>1, <2>2 DEF Room
  <2>3. CASE room[r] = NoRoom
    <3>1. {p \in room[r].ooo : p[2] > today + 1} = {}
      BY <2>3 DEF NoRoom
    <3>2. room'[r] = [room[r] EXCEPT !.ooo = room[r].ooo]
      BY <2>1, <2>3, <3>1 DEF NoRoom
    <3>3. room'[r] = NoRoom
      BY <2>3, <3>2 DEF NoRoom
    <3> QED
      BY <2>3, <3>1, <3>3, RowTypes DEF NoRoom
  <2> QED
    BY <1>1, <2>2, <2>3
<1>5. TypeOK'
  <2>1. room' \in [Rooms -> Room \cup {NoRoom}]
    BY <1>2, <1>4
  <2>2. cell' \in [Cells -> Counters \cup {None}]
    BY <1>1, <1>2, RecountType
  <2> QED
    BY <1>1, <1>2, <1>3, <2>1, <2>2 DEF TypeOK
<1>6. ASSUME NEW c \in Ahead', NEW r \in Rooms
      PROVE  Usable(room[r], c) => Usable(room'[r], c)
  BY <1>4 DEF Usable, OutOfUse
<1>7. \A c : SameTake(World, World', c)
  BY <1>2 DEF SameTake, World
<1>8. \A c \in Ahead' : NoLess(World, World', c)
  BY <1>6 DEF NoLess, World
<1>9. Ahead' \subseteq Ahead
  BY <1>1, <1>2, <1>3 DEF Ahead, Cells, Nights, Dates
<1>10. ASSUME NEW j \in Ready' PROVE Sound(tx[j])'
  <2>1. /\ j \in Clients /\ j \in Ready /\ Sound(tx[j]) /\ tx[j].pc = "ready"
        /\ tx[j] \in Transaction /\ tx'[j] = tx[j] /\ SameWork(tx'[j], tx[j])
    BY <1>1, <1>2 DEF IInv, Ready, SameWork
  <2>2. LetsRoll(tx[j]) /\ Written(tx[j].room) \subseteq Rooms
    BY <1>1, <2>1, AfterRows DEF Roll
  <2>3. \A r \in Written(tx[j].room) : room'[r] = room[r]
    <3>1. ASSUME NEW r \in Written(tx[j].room) PROVE room'[r] = room[r]
      <4>1. \A p \in room[r].ooo : p[2] > today + 1
        BY <2>1, <2>2 DEF LetsRoll
      <4>2. {p \in room[r].ooo : p[2] > today + 1} = room[r].ooo
        BY <4>1
      <4>3. room[r] \in Room \cup {NoRoom} /\ r \in Rooms
        BY <1>1, <2>2
      <4>4. room'[r] = [room[r] EXCEPT !.ooo = room[r].ooo]
        BY <1>2, <4>2, <4>3
      <4> QED
        BY <4>3, <4>4 DEF Room, NoRoom
    <3> QED
      BY <3>1
  <2>4. \A b \in Written(tx[j].blk) :
            tx[j].blk[b].status # "DEDUCT" => \A i \in Ids : ~Active(res'[i], b)
    BY <1>2, <2>1 DEF Sound, PickupSafe
  <2> QED
    BY <1>1, <1>2, <1>3, <1>5, <1>7, <1>8, <2>1, <2>3, <2>4, Stable
<1>11. ASSUME NEW j \in Clients
       PROVE  Lockable(j, tx[j])' /\ Quiet(tx[j])' /\ RefOK(tx[j])' /\ (tx[j].override \in Override)'
  <2>1. Lockable(j, tx[j]) /\ Quiet(tx[j]) /\ RefOK(tx[j]) /\ tx[j].override \in Override
    BY DEF IInv
  <2>2. Lockable(j, tx[j])' /\ Quiet(tx[j])' /\ (tx[j].override \in Override)'
    BY <1>2, <2>1 DEF Lockable, Quiet
  <2>3. tx[j].ref # None => tx[j].ref.room \in Rooms
    BY <1>1 DEF Transaction
  <2>4. RefOK(tx[j])'
    BY <1>2, <1>4, <2>1, <2>3 DEF RefOK
  <2> QED
    BY <2>2, <2>4
<1>12. /\ (\A b \in Blocks : GridOK(blk[b]))'
       /\ (\A i \in Ids : PickupRow(res[i]))'
       /\ PickupsInDefiniteBlocks'
  BY <1>2 DEF IInv, PickupsInDefiniteBlocks, ActivePickup
<1>13. ASSUME RoomsKept, ~Overrides PROVE NoOversale'
  <2>1. ASSUME NEW c \in Ahead' PROVE Spare(World', c) >= 0
    <3>1. Spare(World, c) >= 0 /\ c \in Cells
      BY <1>9, <1>13, AheadType DEF IInv, NoOversale
    <3>2. World \in Worlds /\ World' \in Worlds
      BY <1>1, <1>5 DEF World, Worlds, TypeOK
    <3>3. Take(World, c) = Take(World', c) /\ Take(World, c) \in Nat
      BY <1>7, <3>1, <3>2, TakeSame, SpareUsable
    <3>4. Spare(World', c) >= Spare(World, c)
      BY <1>8, <3>3, SpareMono DEF NoLess
    <3>5. Spare(World', c) \in Int /\ Spare(World, c) \in Int
      BY SpareUsable
    <3> QED
      BY <3>1, <3>4, <3>5
  <2> QED
    BY <2>1 DEF NoOversale
<1> QED
  BY <1>5, <1>10, <1>11, <1>12, <1>13 DEF IInv

----------------------------------------------------------------------------
(* The invariant, from the first state on.                                  *)

\* Nothing is sold or blocked at first, so nothing is oversold.
LEMMA NothingTaken ==
  ASSUME res = [i \in Ids |-> NoBooking], blk = [b \in Blocks |-> NoBlock]
  PROVE  NoOversale
<1>1. ASSUME NEW c \in Ahead PROVE Spare(World, c) >= 0
  <2>1. /\ \A i \in Ids : World.res[i].status = "none"
        /\ \A b \in Blocks : World.blk[b].status = "none"
    BY DEF World, NoBooking, NoBlock
  <2>2. Sellers(World, c) = {}
    BY <2>1 DEF Sellers, Sells, Consumes
  <2>3. \A b \in Blocks : Held(World, b, c) = 0
    BY <2>1 DEF Held, HeldOf
  <2>4. Holds(World, c) = {}
    BY <2>3 DEF Holds
  <2>5. Sold(World, c) = 0 /\ Blocked(World, c) = 0
    BY <2>2, <2>4, CountTypes, FS_EmptySet
  <2>6. Cardinality(UsableRooms(World, c)) \in Nat
    BY FiniteCounts, FS_CardinalityType
  <2> QED
    BY <2>5, <2>6, SpareUsable DEF Take
<1> QED
  BY <1>1 DEF NoOversale

LEMMA InitInv == Init => IInv
<1> SUFFICES ASSUME Init PROVE IInv
  OBVIOUS
<1>1. TypeOK
  <2>1. today \in Dates
    BY BoundsAssumption DEF Init, Dates
  <2>2. room \in [Rooms -> Room \cup {NoRoom}]
    BY DEF Init, Room
  <2>3. /\ res \in [Ids -> Booking \cup {NoBooking}] /\ blk \in [Blocks -> Block \cup {NoBlock}]
        /\ group \in GroupStatus /\ cell \in [Cells -> Counters \cup {None}]
    BY DEF Init, GroupStatus
  <2>4. tx \in [Clients -> Transaction]
    BY IdleType DEF Init
  <2> QED
    BY <2>1, <2>2, <2>3, <2>4 DEF TypeOK
<1>2. \A k \in Clients : tx[k] = Idle
  BY DEF Init
<1>3. Quiet(Idle) /\ RefOK(Idle) /\ Idle.override \in Override
  BY IdleType, OverrideType DEF Quiet, RefOK, Idle
<1>4. \A k \in Clients : Lockable(k, tx[k])
  BY <1>2, IdleType, IdleApart
<1>5. Ready = {}
  BY <1>2, IdleType DEF Ready
<1>6. \A b \in Blocks : GridOK(blk[b])
  BY DEF Init, NoBlock, GridOK
<1>7. \A i \in Ids : PickupRow(res[i]) /\ res[i].status = "none"
  BY DEF Init, NoBooking, PickupRow
<1>8. PickupsInDefiniteBlocks
  BY <1>7 DEF PickupsInDefiniteBlocks, ActivePickup
<1>9. NoOversale
  BY NothingTaken DEF Init
<1> QED
  BY <1>1, <1>2, <1>3, <1>4, <1>5, <1>6, <1>7, <1>8, <1>9 DEF IInv

LEMMA StutterKeeps ==
  ASSUME IInv, UNCHANGED vars
  PROVE  IInv'
<1>1. UNCHANGED <<today, room, res, blk, group, cell, tx>>
  BY DEF vars
<1>2. TypeOK' /\ PickupsInDefiniteBlocks' /\ (RoomsKept /\ ~Overrides => NoOversale')
  BY <1>1 DEF IInv, TypeOK, PickupsInDefiniteBlocks, ActivePickup, NoOversale, Ahead, World
<1>3. ASSUME NEW k \in Clients
      PROVE  Lockable(k, tx[k])' /\ Quiet(tx[k])' /\ RefOK(tx[k])' /\ (tx[k].override \in Override)'
  BY <1>1 DEF IInv, Lockable, Quiet, RefOK
<1>4. ASSUME NEW k \in Ready' PROVE Sound(tx[k])'
  <2>1. k \in Clients /\ Sound(tx[k]) /\ SameWork(tx'[k], tx[k])
    BY <1>1 DEF IInv, Ready, SameWork
  <2> QED
    BY <1>1, <2>1, SoundFrame
<1>5. (\A b \in Blocks : GridOK(blk[b]))' /\ (\A i \in Ids : PickupRow(res[i]))'
  BY <1>1 DEF IInv
<1> QED
  BY <1>2, <1>3, <1>4, <1>5 DEF IInv

LEMMA StepKeeps ==
  ASSUME IInv, NEW k \in Clients, Step(k)
  PROVE  IInv'
<1>1. CASE Book(k)
  BY <1>1, BookSound, PreparedKeeps
<1>2. CASE Modify(k)
  BY <1>2, ModifySound, PreparedKeeps
<1>3. CASE Confirm(k)
  BY <1>3, ConfirmSound, PreparedKeeps
<1>4. CASE Release(k)
  BY <1>4, ReleaseSound, PreparedKeeps
<1>5. CASE Reinstate(k)
  BY <1>5, ReinstateSound, PreparedKeeps
<1>6. CASE ReinstateNoShow(k)
  BY <1>6, ReinstateNoShowSound, PreparedKeeps
<1>7. CASE CheckIn(k)
  BY <1>7, CheckInSound, PreparedKeeps
<1>8. CASE ReverseCheckIn(k)
  BY <1>8, ReverseCheckInSound, PreparedKeeps
<1>9. CASE CheckOut(k)
  BY <1>9, CheckOutSound, PreparedKeeps
<1>10. CASE Extend(k)
  BY <1>10, ExtendSound, PreparedKeeps
<1>11. CASE CreateBlock(k)
  BY <1>11, CreateBlockSound, PreparedKeeps
<1>12. CASE SetAllocation(k)
  BY <1>12, SetAllocationSound, PreparedKeeps
<1>13. CASE ChangeBlockStatus(k)
  BY <1>13, ChangeBlockStatusSound, PreparedKeeps
<1>14. CASE ReleaseBlock(k)
  BY <1>14, ReleaseBlockSound, PreparedKeeps
<1>15. CASE Pickup(k)
  BY <1>15, PickupSound, PreparedKeeps
<1>16. CASE CloseGroup(k)
  BY <1>16, CloseGroupSound, PreparedKeeps
<1>17. CASE BeginCancelGroup(k)
  BY <1>17, BeginCancelGroupKeeps
<1>18. CASE CancelGroup(k)
  BY <1>18, CancelGroupSound, PreparedKeeps
<1>19. CASE ReadRoom(k)
  BY <1>19, ReadRoomKeeps
<1>20. CASE Place(k)
  BY <1>20, PlaceSound, PreparedKeeps
<1>21. CASE Return(k)
  BY <1>21, ReturnSound, PreparedKeeps
<1>22. CASE AddRoom(k)
  BY <1>22, AddRoomSound, PreparedKeeps
<1>23. CASE EditRoom(k)
  BY <1>23, EditRoomSound, PreparedKeeps
<1>24. CASE Commit(k)
  BY <1>24, CommitKeeps
<1>25. CASE Abort(k)
  BY <1>25, AbortKeeps
<1> QED
  BY <1>1, <1>2, <1>3, <1>4, <1>5, <1>6, <1>7, <1>8, <1>9, <1>10, <1>11, <1>12, <1>13, <1>14,
     <1>15, <1>16, <1>17, <1>18, <1>19, <1>20, <1>21, <1>22, <1>23, <1>24, <1>25 DEF Step

\* The inductive invariant holds: rows, locks and everything that a transaction about
\* to commit would do to the house and to the blocks.
THEOREM Invariant == Spec => []IInv
<1>1. IInv /\ [Next]_vars => IInv'
  BY StepKeeps, RollKeeps, StutterKeeps DEF Next
<1> QED
  BY InitInv, <1>1, PTL DEF Spec

----------------------------------------------------------------------------
(* What follows.                                                            *)

\* Every row, cell and transaction has its type: dates within the calendar, a block's
\* releases within its allocation's bound, no counter below zero.
THEOREM TypeCorrect == Spec => []TypeOK
<1>1. IInv => TypeOK
  BY DEF IInv
<1> QED
  BY Invariant, <1>1, PTL

\* A pickup that is reserved or in house has a definite block, whatever reinstatements
\* and changes of the block's status run against one another.
THEOREM DefiniteBlocks == Spec => []PickupsInDefiniteBlocks
<1>1. IInv => PickupsInDefiniteBlocks
  BY DEF IInv
<1> QED
  BY Invariant, <1>1, PTL

\* Two clients never both take the last room: a command that has its locks and no
\* override leaves no cell short that it takes from.  Room edits that take rooms away
\* are left out: updateRoom does not look at what is sold.
THEOREM SalesAreCovered ==
  ASSUME RoomsKept
  PROVE  Spec => []SalesCovered
<1>1. ASSUME IInv PROVE SalesCovered
  <2>1. ASSUME NEW k \in Ready, ~tx[k].override, NEW c \in Ahead,
               Spare(After(tx[k]), c) < Spare(World, c)
        PROVE  Spare(After(tx[k]), c) >= 0
    <3>1. Covered(tx[k])
      BY <1>1, <2>1 DEF IInv, Sound, CoverSafe
    <3>2. Spare(After(tx[k]), c) \in Int /\ Spare(World, c) \in Int
      BY SpareUsable
    <3>3. CASE Take(After(tx[k]), c) <= Take(World, c) /\ NoLess(World, After(tx[k]), c)
      <4>1. Spare(After(tx[k]), c) >= Spare(World, c)
        BY <3>3, SpareMono DEF NoLess
      <4> QED
        BY <2>1, <3>2, <4>1
    <3> QED
      BY <2>1, <3>1, <3>3 DEF Covered
  <2> QED
    BY <2>1 DEF SalesCovered
<1> QED
  BY Invariant, <1>1, PTL

\* A pickup within its block, or its reinstatement, leaves the house as many rooms as
\* it had.
THEOREM PickupsAreNeutral ==
  ASSUME RoomsKept
  PROVE  Spec => []PickupNeutral
<1>1. ASSUME IInv PROVE PickupNeutral
  <2>1. ASSUME NEW k \in Ready, NEW b \in Blocks, b \in tx[k].share, ~tx[k].override,
               ~blk[b].elastic, NEW c \in Ahead
        PROVE  Spare(After(tx[k]), c) = Spare(World, c)
    <3>1. TypeOK /\ tx[k] \in Transaction /\ Neutral(tx[k])
      BY <1>1 DEF IInv, TypeOK, Ready, Sound, CoverSafe
    <3>2. tx[k].room = Idle.room /\ Take(After(tx[k]), c) = Take(World, c)
      BY <2>1, <3>1 DEF Neutral
    <3>3. After(tx[k]).room = World.room
      BY <3>1, <3>2, AfterRows
    <3>4. UsableRooms(After(tx[k]), c) = UsableRooms(World, c)
      BY <3>3 DEF UsableRooms
    <3> QED
      BY <3>2, <3>4, SpareUsable
  <2> QED
    BY <2>1 DEF PickupNeutral
<1> QED
  BY Invariant, <1>1, PTL

\* Where nobody overrides the availability and no edit takes a room away, no cell is
\* oversold at any time.
THEOREM NeverOversold ==
  ASSUME RoomsKept, ~Overrides
  PROVE  Spec => []NoOversale
<1>1. IInv => NoOversale
  BY DEF IInv
<1> QED
  BY Invariant, <1>1, PTL

----------------------------------------------------------------------------
(* The counters of the cells.                                               *)

\* No room is added or edited: the counters of a cell whose first row is not yet
\* committed are out of the recount that follows such a command.
RoomsFixed == "addRoom" \notin Commands /\ "editRoom" \notin Commands

\* A transaction has counted its cells as they are to be, and outside them no room's
\* use changes.
Exact(t) ==
  \A c \in Ahead : IF c \in t.cells THEN t.sync[c] = Recount(After(t), c)
                                    ELSE SameUse(World, After(t), c)

\* A cell somebody holds too has the counters of the rows that are committed.
CellsExact == \A c \in Ahead : cell[c] # None => cell[c] = Recount(World, c)

CountersInv ==
  /\ \A k \in Clients : tx[k].kind \notin {"addRoom", "editRoom"}
  /\ \A k \in Ready : Exact(tx[k])
  /\ CellsExact

\* One transaction changes and the database does not.
LEMMA CountersKept ==
  ASSUME IInv, CountersInv, NEW k \in Clients, NEW s,
         tx' = [tx EXCEPT ![k] = s], UNCHANGED <<today, room, res, blk, group, cell>>,
         s.kind \notin {"addRoom", "editRoom"}, s.pc = "ready" => Exact(s)
  PROVE  CountersInv'
<1>1. tx'[k] = s /\ \A j \in Clients \ {k} : tx'[j] = tx[j]
  BY DEF IInv, TypeOK
<1>2. World' = World /\ Ahead' = Ahead
  BY DEF World, Ahead
<1>3. ASSUME NEW j \in Ready' PROVE Exact(tx[j])'
  <2>1. j \in Clients /\ tx'[j].pc = "ready"
    BY DEF Ready
  <2>2. Exact(tx'[j])
    <3>1. CASE j = k
      BY <1>1, <2>1, <3>1
    <3>2. CASE j # k
      BY <1>1, <2>1, <3>2 DEF CountersInv, Ready
    <3> QED
      BY <3>1, <3>2
  <2>3. After(tx[j])' = After(tx'[j])
    BY DEF After
  <2> QED
    BY <1>2, <2>2, <2>3 DEF Exact
<1>4. CellsExact'
  BY <1>2 DEF CountersInv, CellsExact
<1>5. \A j \in Clients : tx'[j].kind \notin {"addRoom", "editRoom"}
  BY <1>1 DEF CountersInv
<1> QED
  BY <1>3, <1>4, <1>5 DEF CountersInv

\* A transaction that prepares counts what it leaves of its cells.
LEMMA PreparedCounts ==
  ASSUME RoomsFixed, IInv, CountersInv, NEW k \in Clients, NEW t \in Transaction,
         Prepared(k, t), UseKept(t)
  PROVE  CountersInv'
<1> DEFINE sync == [c \in Cells |-> IF c \in t.cells THEN Recount(After(t), c) ELSE None]
           s == [t EXCEPT !.pc = "ready", !.sync = sync]
<1>1. /\ tx' = [tx EXCEPT ![k] = s] /\ UNCHANGED <<today, room, res, blk, group, cell>>
      /\ t.kind \in Commands
  BY DEF Prepared, Prepare
<1>2. \A c \in Ahead \cap t.cells : sync[c] = Recount(After(t), c)
  BY AheadType
<1> HIDE DEF sync
<1>3. /\ s.res = t.res /\ s.blk = t.blk /\ s.room = t.room
      /\ s.cells = t.cells /\ s.kind = t.kind /\ s.sync = sync
  BY DEF Transaction
<1> HIDE DEF s
<1>4. After(s) = After(t)
  BY <1>3 DEF After
<1>5. RoomsKept
  BY DEF RoomsFixed, RoomsKept
<1>6. Exact(s)
  BY <1>2, <1>3, <1>4, <1>5 DEF Exact, UseKept
<1>7. s.kind \notin {"addRoom", "editRoom"}
  BY <1>1, <1>3 DEF RoomsFixed
<1> QED
  BY <1>1, <1>6, <1>7, CountersKept

\* The commands on reservations, groups and blocks write no room.
SalesStep(k) ==
  \/ Book(k) \/ Modify(k) \/ Confirm(k) \/ Release(k) \/ Reinstate(k)
  \/ ReinstateNoShow(k) \/ CheckIn(k) \/ ReverseCheckIn(k) \/ CheckOut(k) \/ Extend(k)
  \/ CreateBlock(k) \/ SetAllocation(k) \/ ChangeBlockStatus(k) \/ ReleaseBlock(k)
  \/ Pickup(k) \/ CloseGroup(k) \/ CancelGroup(k)

LEMMA SalesStepPrepared ==
  ASSUME IInv, NEW k \in Clients, SalesStep(k)
  PROVE  \E t \in Transaction : Prepared(k, t) /\ t.room = Idle.room
BY BookSound, ModifySound, ConfirmSound, ReleaseSound, ReinstateSound, ReinstateNoShowSound,
   CheckInSound, ReverseCheckInSound, CheckOutSound, ExtendSound, CreateBlockSound,
   SetAllocationSound, ChangeBlockStatusSound, ReleaseBlockSound, PickupSound,
   CloseGroupSound, CancelGroupSound DEF SalesStep

LEMMA SalesStepCounts ==
  ASSUME RoomsFixed, IInv, CountersInv, NEW k \in Clients, SalesStep(k)
  PROVE  CountersInv'
<1>1. PICK t \in Transaction : Prepared(k, t) /\ t.room = Idle.room
  BY SalesStepPrepared
<1>2. World.room = room /\ After(t).room = room
  BY <1>1, AfterRows DEF IInv
<1>3. UseKept(t)
  BY <1>2 DEF UseKept, SameUse, SameRoom
<1> QED
  BY <1>1, <1>3, PreparedCounts

\* A commit leaves every cell with the counters it should have, and what the others
\* have counted is true of the new database.
LEMMA CommitCounts ==
  ASSUME RoomsFixed, IInv, IInv', CountersInv, NEW k \in Clients, Commit(k)
  PROVE  CountersInv'
<1> DEFINE t == tx[k]  v == World  w == After(t)
<1>1. /\ TypeOK /\ TypeOK' /\ t \in Transaction /\ Isolated(t) /\ Exact(t)
  <2>1. RoomsKept
    BY DEF RoomsFixed, RoomsKept
  <2> QED
    BY <2>1 DEF IInv, TypeOK, Commit, Ready, CountersInv, Sound, CoverSafe
<1>2. /\ res' = w.res /\ blk' = w.blk /\ room' = w.room /\ today' = today
      /\ cell' = [c \in Cells |-> IF c \in t.cells THEN t.sync[c] ELSE cell[c]]
      /\ tx' = [j \in Clients |-> IF j = k THEN Idle
                                  ELSE [tx[j] EXCEPT !.fresh = @ \ Written(t.blk)]]
  BY DEF Commit
<1>3. World' = w /\ Ahead' = Ahead
  <2>1. World' = [res |-> w.res, blk |-> w.blk, room |-> w.room]
    BY <1>2 DEF World
  <2>2. w = [res |-> w.res, blk |-> w.blk, room |-> w.room]
    BY DEF After
  <2> QED
    BY <1>2, <2>1, <2>2 DEF Ahead
<1>4. v \in Worlds /\ w \in Worlds /\ v.res = res /\ v.blk = blk /\ v.room = room
  BY <1>1, AfterRows
<1> HIDE DEF w, v
<1>5. ASSUME NEW j \in Clients \ {k}
      PROVE  /\ tx[j] \in Transaction /\ tx'[j] \in Transaction /\ SameWork(tx'[j], tx[j])
             /\ tx'[j].pc = tx[j].pc /\ tx'[j].kind = tx[j].kind /\ tx'[j].sync = tx[j].sync
             /\ Apart(t, tx[j])
  <2>1. tx[j] \in Transaction /\ tx'[j] \in Transaction
    BY <1>1 DEF TypeOK
  <2>2. tx'[j] = [tx[j] EXCEPT !.fresh = @ \ Written(t.blk)]
    BY <1>2
  <2>3. /\ tx'[j].res = tx[j].res /\ tx'[j].blk = tx[j].blk /\ tx'[j].room = tx[j].room
        /\ tx'[j].cells = tx[j].cells /\ tx'[j].share = tx[j].share
        /\ tx'[j].override = tx[j].override /\ tx'[j].group = tx[j].group
        /\ tx'[j].pc = tx[j].pc /\ tx'[j].kind = tx[j].kind /\ tx'[j].sync = tx[j].sync
    BY <2>1, <2>2 DEF Transaction
  <2>4. Apart(t, tx[j])
    BY ApartIsLockable DEF IInv
  <2> QED
    BY <2>1, <2>3, <2>4 DEF SameWork
<1>6. \A j \in Clients : tx'[j].kind \notin {"addRoom", "editRoom"}
  <2>1. tx'[k] = Idle
    BY <1>2
  <2> QED
    BY <1>5, <2>1, IdleType DEF CountersInv
<1>7. ASSUME NEW c \in Ahead \ t.cells PROVE SameTake(v, w, c) /\ SameUse(v, w, c)
  BY <1>1 DEF Isolated, Exact, v, w
<1>8. CellsExact'
  <2>1. ASSUME NEW c \in Ahead, cell'[c] # None PROVE cell'[c] = Recount(w, c)
    <3>1. c \in Cells
      BY AheadType
    <3>2. CASE c \in t.cells
      BY <1>1, <1>2, <3>1, <3>2 DEF Exact, w
    <3>3. CASE c \notin t.cells
      <4>1. cell[c] = Recount(v, c)
        BY <1>2, <2>1, <3>1, <3>3 DEF CountersInv, CellsExact, v
      <4>2. Recount(v, c) = Recount(w, c)
        BY <1>4, <1>7, <3>1, <3>3, RecountSame
      <4> QED
        BY <1>2, <3>1, <3>3, <4>1, <4>2
    <3> QED
      BY <3>2, <3>3
  <2> QED
    BY <1>3, <2>1 DEF CellsExact
<1>9. ASSUME NEW j \in Ready' PROVE Exact(tx[j])'
  <2>1. j \in Clients \ {k} /\ j \in Ready
    <3>1. j \in Clients /\ tx'[j].pc = "ready" /\ j # k
      BY <1>2, IdleType DEF Ready
    <3> QED
      BY <1>5, <3>1 DEF Ready
  <2> DEFINE s == tx[j]  u == After(tx[j])  u2 == After(tx[j])'
  <2>2. Exact(s) /\ Apart(t, s) /\ tx'[j].cells = s.cells /\ tx'[j].sync = s.sync
    BY <1>5, <2>1 DEF CountersInv, SameWork
  <2>3. /\ u \in Worlds
        /\ \A i \in Ids : u.res[i] = IF i \in Written(s.res) THEN s.res[i] ELSE res[i]
        /\ \A b \in Blocks : u.blk[b] = IF b \in Written(s.blk) THEN s.blk[b] ELSE blk[b]
        /\ \A r \in Rooms : u.room[r] = IF r \in Written(s.room) THEN s.room[r] ELSE room[r]
    BY <1>1, <1>5, <2>1, AfterRows
  <2>4. /\ u2 \in Worlds
        /\ \A i \in Ids : u2.res[i] = IF i \in Written(s.res) THEN s.res[i] ELSE w.res[i]
        /\ \A b \in Blocks : u2.blk[b] = IF b \in Written(s.blk) THEN s.blk[b] ELSE w.blk[b]
        /\ \A r \in Rooms : u2.room[r] = IF r \in Written(s.room) THEN s.room[r] ELSE w.room[r]
    <3>1. /\ u2 \in Worlds
          /\ \A i \in Ids : u2.res[i] = IF i \in Written(s.res) THEN s.res[i] ELSE res'[i]
          /\ \A b \in Blocks : u2.blk[b] = IF b \in Written(s.blk) THEN s.blk[b] ELSE blk'[b]
          /\ \A r \in Rooms : u2.room[r] = IF r \in Written(s.room) THEN s.room[r] ELSE room'[r]
      BY <1>1, <1>5, <2>1, AfterRowsNext
    <3> HIDE DEF s, u2
    <3> QED
      BY <1>2, <3>1
  <2>5. \A r \in Written(s.room) \cap Rooms : w.room[r] = room[r]
    <3>1. Written(t.room) \cap Written(s.room) = {}
      BY <2>2 DEF Apart
    <3> QED
      BY <1>1, <3>1, AfterRows DEF w
  <2> HIDE DEF u, u2
  <2>6. ASSUME NEW c \in Ahead \ s.cells PROVE SameUse(w, u2, c)
    <3>1. SameUse(v, u, c)
      BY <2>2 DEF Exact, u, v
    <3> QED
      BY <1>4, <2>3, <2>4, <2>5, <3>1 DEF SameUse, SameRoom
  <2>7. ASSUME NEW c \in Ahead \cap s.cells PROVE s.sync[c] = Recount(u2, c)
    <3>1. c \in Ahead \ t.cells /\ c \in Cells
      BY <2>2, AheadType DEF Apart
    <3>2. SameTake(v, w, c) /\ SameUse(v, w, c)
      BY <1>7, <3>1
    <3>3. SameTake(u, u2, c)
      BY <1>4, <2>3, <2>4, <3>2 DEF SameTake
    <3>4. SameUse(u, u2, c)
      BY <1>4, <2>3, <2>4, <3>2 DEF SameUse, SameRoom
    <3>5. Recount(u, c) = Recount(u2, c)
      BY <2>3, <2>4, <3>1, <3>3, <3>4, RecountSame
    <3> QED
      BY <2>2, <3>5 DEF Exact, u
  <2> QED
    BY <1>3, <2>2, <2>6, <2>7 DEF Exact, u2
<1> QED
  BY <1>6, <1>8, <1>9 DEF CountersInv

\* The night audit's commit waits for everybody, and counts the cells again.
LEMMA RollCounts ==
  ASSUME IInv, CountersInv, Roll
  PROVE  CountersInv'
<1>1. Ready = {} /\ tx' = tx
  BY DEF Roll, LetsRoll, Ready, CountersInv
<1>2. Ready' = {} /\ \A k \in Clients : tx'[k].kind \notin {"addRoom", "editRoom"}
  BY <1>1 DEF CountersInv, Ready
<1>3. World' = [World EXCEPT !.room = room']
  <2>1. World' = [res |-> res, blk |-> blk, room |-> room']
    BY DEF Roll, World
  <2> QED
    BY <2>1 DEF World
<1>4. Ahead' \subseteq Ahead
  BY DEF Roll, IInv, TypeOK, Ahead, Cells, Nights, Dates
<1>5. ASSUME NEW c \in Ahead', cell'[c] # None PROVE cell'[c] = Recount(World', c)
  <2>1. c \in Cells /\ c[2] >= today
    BY <1>4, AheadType
  <2>2. cell'[c] = IF c \in CountedCells THEN Recount(World', c) ELSE cell[c]
    BY <1>3, <2>1 DEF Roll
  <2> QED
    BY <1>5, <2>1, <2>2 DEF CountedCells
<1>6. CellsExact'
  BY <1>5 DEF CellsExact
<1> QED
  BY <1>2, <1>6 DEF CountersInv

LEMMA StepCounts ==
  ASSUME RoomsFixed, IInv, IInv', CountersInv, NEW k \in Clients, Step(k)
  PROVE  CountersInv'
<1>1. CASE SalesStep(k)
  BY <1>1, SalesStepCounts
<1>2. CASE Place(k) \/ Return(k)
  BY <1>2, PlaceSound, ReturnSound, PreparedCounts
<1>3. CASE AddRoom(k) \/ EditRoom(k)
  <2>1. ASSUME NEW t, Prepare(k, t), t.kind \in {"addRoom", "editRoom"} PROVE FALSE
    BY <2>1 DEF Prepare, RoomsFixed
  <2>2. CASE AddRoom(k)
    <3>1. PICK r \in Rooms, y \in Types :
            Prepare(k, [Idle EXCEPT !.kind = "addRoom", !.cells = CountedCells,
                                    !.room[r] = [NoRoom EXCEPT !.type = y, !.active = TRUE]])
      BY <2>2 DEF AddRoom
    <3> DEFINE t == [Idle EXCEPT !.kind = "addRoom", !.cells = CountedCells,
                                 !.room[r] = [NoRoom EXCEPT !.type = y, !.active = TRUE]]
    <3>2. t.kind = "addRoom"
      BY DEF Idle
    <3> HIDE DEF t
    <3> QED
      BY <2>1, <3>1, <3>2 DEF t
  <2>3. CASE EditRoom(k)
    <3>1. PICK r \in Rooms : \E row :
            Prepare(k, [Idle EXCEPT !.kind = "editRoom", !.cells = CountedCells,
                                    !.room[r] = row])
      BY <2>3 DEF EditRoom
    <3>2. PICK row :
            Prepare(k, [Idle EXCEPT !.kind = "editRoom", !.cells = CountedCells,
                                    !.room[r] = row])
      BY <3>1
    <3> DEFINE t == [Idle EXCEPT !.kind = "editRoom", !.cells = CountedCells, !.room[r] = row]
    <3>3. t.kind = "editRoom"
      BY DEF Idle
    <3> HIDE DEF t
    <3> QED
      BY <2>1, <3>2, <3>3 DEF t
  <2> QED
    BY <1>3, <2>2, <2>3
<1>4. CASE Commit(k)
  BY <1>4, CommitCounts
<1>5. CASE Abort(k)
  BY <1>5, IdleType, CountersKept DEF Abort
<1>6. CASE BeginCancelGroup(k)
  <2> DEFINE s == [Idle EXCEPT !.pc = "read", !.kind = "cancelGroup", !.group = "CANCELLED",
                               !.fresh = LiveBlocks]
  <2>1. tx' = [tx EXCEPT ![k] = s] /\ UNCHANGED <<today, room, res, blk, group, cell>>
    BY <1>6 DEF BeginCancelGroup
  <2>2. s.pc = "read" /\ s.kind = "cancelGroup"
    BY DEF Idle
  <2> HIDE DEF s
  <2> QED
    BY <2>1, <2>2, CountersKept
<1>7. CASE ReadRoom(k)
  <2>1. PICK r \in Rooms, kind \in {"place", "return"} \cap Commands :
          tx' = [tx EXCEPT ![k] = [Idle EXCEPT !.pc = "read", !.kind = kind,
                                     !.ref = [room |-> r, type |-> room[r].type]]]
    BY <1>7 DEF ReadRoom
  <2> DEFINE s == [Idle EXCEPT !.pc = "read", !.kind = kind,
                               !.ref = [room |-> r, type |-> room[r].type]]
  <2>2. s.pc = "read" /\ s.kind = kind
    BY DEF Idle
  <2>3. tx' = [tx EXCEPT ![k] = s] /\ UNCHANGED <<today, room, res, blk, group, cell>>
    BY <1>7, <2>1 DEF ReadRoom
  <2> HIDE DEF s
  <2> QED
    BY <2>2, <2>3, CountersKept
<1> QED
  BY <1>1, <1>2, <1>3, <1>4, <1>5, <1>6, <1>7 DEF Step, SalesStep

\* Where the rooms are set up, the cached counters never drift: whatever commands run
\* against one another, the counters of a cell are those of its rooms, nights and blocks.
THEOREM CountersAreExact ==
  ASSUME RoomsFixed
  PROVE  Spec => []CountersAgree
<1>1. Init => CountersInv
  BY IdleType DEF Init, CountersInv, Ready, CellsExact, Ahead
<1>2. IInv /\ IInv' /\ CountersInv /\ [Next]_vars => CountersInv'
  <2>1. CASE \E k \in Clients : Step(k)
    BY <2>1, StepCounts
  <2>2. CASE Roll
    BY <2>2, RollCounts
  <2>3. CASE UNCHANGED vars
    BY <2>3 DEF vars, CountersInv, Ready, Exact, CellsExact, Ahead, After, World
  <2> QED
    BY <2>1, <2>2, <2>3 DEF Next
<1>3. CountersInv => CountersAgree
  BY DEF CountersInv, CellsExact, CountersAgree
<1> QED
  BY Invariant, <1>1, <1>2, <1>3, PTL DEF Spec
=============================================================================
