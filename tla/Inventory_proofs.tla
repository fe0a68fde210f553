-------------------------- MODULE Inventory_proofs --------------------------
(***************************************************************************)
(* Proofs about Inventory, for any players, items, rows and bounds: the    *)
(* slots stay sound, AddItem fills them in order and fails only when they  *)
(* are full, the client sees them, and the whole implements ItemBag.       *)
(***************************************************************************)
EXTENDS Inventory, WellFoundedInduction, TLAPS

-----------------------------------------------------------------------------
(* Induction over the numbers, and a step repeated from 0 on               *)

\* Induction: a set that holds 0 and the successor of each of its numbers holds them all.
LEMMA AllNaturals ==
  ASSUME NEW S, 0 \in S, \A n \in Nat : n \in S => n + 1 \in S
  PROVE  \A n \in Nat : n \in S
<1>. DEFINE Missing == {n \in Nat : n \notin S}
<1>. SUFFICES ASSUME Missing # {} PROVE FALSE
  OBVIOUS
<1>1. \E m \in Missing : \A k \in Missing : <<k, m>> \notin OpToRel(<, Nat)
  BY NatLessThanWellFounded, WFMin
<1>2. PICK m \in Missing : \A k \in Missing : ~ (k < m)
  BY <1>1 DEF OpToRel
<1>3. m # 0 /\ m - 1 \in Nat /\ m - 1 < m
  BY <1>2
<1>4. m - 1 + 1 \in S
  BY <1>2, <1>3
<1>. QED
  BY <1>2, <1>4

\* A step that leads from S to S can be repeated for ever.
Runs(S, first, step, n) ==
  {g \in [0 .. n -> S] : g[0] = first /\ \A i \in 0 .. n - 1 : g[i + 1] = step[i][g[i]]}

\* By induction, there are n steps for every n.
LEMMA RunsExist ==
  ASSUME NEW S, NEW first \in S, NEW step \in [Nat -> [S -> S]]
  PROVE  \A n \in Nat : Runs(S, first, step, n) # {}
<1>. DEFINE Reached == {n \in Nat : Runs(S, first, step, n) # {}}
<1>1. 0 \in Reached
  <2>1. [i \in 0 .. 0 |-> first] \in Runs(S, first, step, 0)
    BY DEF Runs
  <2>. QED
    BY <2>1
<1>2. ASSUME NEW n \in Nat, n \in Reached PROVE n + 1 \in Reached
  <2>1. PICK g : g \in Runs(S, first, step, n)
    BY <1>2
  <2>2. g[n] \in S /\ step[n][g[n]] \in S
    BY <2>1 DEF Runs
  <2>. DEFINE h == [i \in 0 .. n + 1 |-> IF i = n + 1 THEN step[n][g[n]] ELSE g[i]]
  <2>3. h \in [0 .. n + 1 -> S]
    BY <2>1, <2>2 DEF Runs
  <2>4. h[0] = first /\ h[n + 1] = step[n][g[n]]
    BY <2>1 DEF Runs
  <2>5. \A i \in 0 .. n : h[i] = g[i]
    OBVIOUS
  <2>. HIDE DEF h
  <2>6. ASSUME NEW i \in 0 .. n + 1 - 1 PROVE h[i + 1] = step[i][h[i]]
    <3>1. CASE i = n
      BY <3>1, <2>4, <2>5
    <3>2. CASE i # n
      <4>1. i \in 0 .. n - 1 /\ i \in 0 .. n /\ i + 1 \in 0 .. n
        BY <3>2
      <4>2. g[i + 1] = step[i][g[i]]
        BY <2>1, <4>1 DEF Runs
      <4>. QED
        BY <4>1, <4>2, <2>5
    <3>. QED
      BY <3>1, <3>2
  <2>7. h \in Runs(S, first, step, n + 1)
    BY <2>3, <2>4, <2>6 DEF Runs
  <2>. QED
    BY <2>7
<1>. HIDE DEF Reached
<1>3. \A n \in Nat : n \in Reached
  BY <1>1, <1>2, AllNaturals
<1>. QED
  BY <1>3 DEF Reached

\* Longer runs begin with the shorter ones.
LEMMA RunsAgree ==
  ASSUME NEW S, NEW first, NEW step, NEW n \in Nat,
         NEW g \in Runs(S, first, step, n), NEW h \in Runs(S, first, step, n + 1)
  PROVE  g[n] = h[n]
<1>. DEFINE Same == {i \in Nat : i <= n => g[i] = h[i]}
<1>1. 0 \in Same
  BY DEF Runs
<1>2. ASSUME NEW i \in Nat, i \in Same PROVE i + 1 \in Same
  <2>. SUFFICES ASSUME i + 1 <= n PROVE g[i + 1] = h[i + 1]
    OBVIOUS
  <2>1. i \in 0 .. n - 1 /\ i \in 0 .. n + 1 - 1 /\ g[i] = h[i]
    BY <1>2
  <2>. QED
    BY <2>1 DEF Runs
<1>. HIDE DEF Same
<1>3. n \in Same
  BY <1>1, <1>2, AllNaturals
<1>. QED
  BY <1>3 DEF Same

Repeats(S, first, step) ==
  {f \in [Nat -> S] : f[0] = first /\ \A n \in Nat : f[n + 1] = step[n][f[n]]}

\* Every step function from S to S repeats: the runs, put together, are one function.
LEMMA Recursion ==
  ASSUME NEW S, NEW first \in S, NEW step \in [Nat -> [S -> S]]
  PROVE  \E f : f \in Repeats(S, first, step)
<1>. DEFINE Run(n) == CHOOSE g : g \in Runs(S, first, step, n)
            f == [n \in Nat |-> Run(n)[n]]
<1>1. \A n \in Nat : Run(n) \in Runs(S, first, step, n)
  BY RunsExist
<1>. HIDE DEF Run
<1>2. f \in [Nat -> S]
  BY <1>1 DEF Runs
<1>3. f[0] = first
  BY <1>1 DEF Runs
<1>4. ASSUME NEW n \in Nat PROVE f[n + 1] = step[n][f[n]]
  <2>1. Run(n) \in Runs(S, first, step, n) /\ Run(n + 1) \in Runs(S, first, step, n + 1)
    BY <1>1
  <2>2. Run(n)[n] = Run(n + 1)[n]
    BY <2>1, RunsAgree
  <2>3. Run(n + 1)[n + 1] = step[n][Run(n + 1)[n]]
    BY <2>1 DEF Runs
  <2>. QED
    BY <2>2, <2>3
<1>5. f \in Repeats(S, first, step)
  <2>. HIDE DEF f
  <2>. QED
    BY <1>2, <1>3, <1>4 DEF Repeats
<1>. QED
  BY <1>5

-----------------------------------------------------------------------------
(* Sums                                                                    *)

\* Sum is defined as one would hope: the recursive function of the model exists.
LEMMA SumStep ==
  ASSUME NEW f \in [Nat -> Int]
  PROVE  Sum(f, 0) = 0 /\ \A n \in Nat : Sum(f, n) \in Int /\ Sum(f, n + 1) = Sum(f, n) + f[n]
<1>. DEFINE step == [n \in Nat |-> [v \in Int |-> v + f[n]]]
            IsSum(g) == g = [k \in Nat |-> IF k = 0 THEN 0 ELSE g[k - 1] + f[k - 1]]
            sum == CHOOSE g : IsSum(g)
<1>1. PICK g : g \in Repeats(Int, 0, step)
  <2>1. step \in [Nat -> [Int -> Int]]
    OBVIOUS
  <2>. HIDE DEF step
  <2>2. 0 \in Int
    OBVIOUS
  <2>. QED
    BY <2>1, <2>2, Recursion
<1>2. g \in [Nat -> Int] /\ g[0] = 0 /\ \A n \in Nat : g[n + 1] = g[n] + f[n]
  BY <1>1 DEF Repeats
<1>3. ASSUME NEW k \in Nat, k # 0 PROVE g[k] = g[k - 1] + f[k - 1]
  <2>1. k - 1 \in Nat /\ (k - 1) + 1 = k
    BY <1>3
  <2>. QED
    BY <2>1, <1>2
<1>4. IsSum(g)
  BY <1>2, <1>3
<1>5. IsSum(sum)
  BY <1>4
<1>6. \A n \in Nat : Sum(f, n) = sum[n]
  BY DEF Sum
<1>. HIDE DEF sum
<1>7. sum[0] = 0 /\ \A n \in Nat : sum[n + 1] = sum[n] + f[n]
  BY <1>5
<1>. DEFINE Whole == {n \in Nat : sum[n] \in Int}
<1>8. \A n \in Nat : n \in Whole
  <2>1. 0 \in Whole
    BY <1>7
  <2>2. ASSUME NEW n \in Nat, n \in Whole PROVE n + 1 \in Whole
    BY <2>2, <1>7
  <2>. HIDE DEF Whole
  <2>. QED
    BY <2>1, <2>2, AllNaturals
<1>. QED
  BY <1>6, <1>7, <1>8

\* Sums of functions that differ in one place.
LEMMA SumDiffers ==
  ASSUME NEW f \in [Nat -> Int], NEW g \in [Nat -> Int], NEW x \in Nat,
         \A n \in Nat \ {x} : g[n] = f[n]
  PROVE  \A n \in Nat : Sum(g, n) = Sum(f, n) + (IF x < n THEN g[x] - f[x] ELSE 0)
<1>. DEFINE Holds == {n \in Nat : Sum(g, n) = Sum(f, n) + (IF x < n THEN g[x] - f[x] ELSE 0)}
<1>1. 0 \in Holds
  BY SumStep
<1>2. ASSUME NEW n \in Nat, n \in Holds PROVE n + 1 \in Holds
  <2>1. Sum(f, n) \in Int /\ Sum(g, n) \in Int /\ f[n] \in Int /\ g[n] \in Int
    BY SumStep
  <2>2. Sum(f, n + 1) = Sum(f, n) + f[n] /\ Sum(g, n + 1) = Sum(g, n) + g[n]
    BY SumStep
  <2>3. CASE n = x
    BY <1>2, <2>1, <2>2, <2>3
  <2>4. CASE n # x
    <3>1. g[n] = f[n] /\ (x < n + 1 <=> x < n)
      BY <2>4
    <3>. QED
      BY <1>2, <2>1, <2>2, <3>1
  <2>. QED
    BY <2>3, <2>4
<1>. HIDE DEF Holds
<1>3. \A n \in Nat : n \in Holds
  BY <1>1, <1>2, AllNaturals
<1>. QED
  BY <1>3 DEF Holds

-----------------------------------------------------------------------------
(* AddItem, turn by turn                                                   *)

\* The states of AddItem over the positions D.
Filling(D) == [slots : [D -> Slots], remain : Nat]

EmptyRoom(s, item, pos) == HasRoom(s, item, pos) /\ s[pos].item = NoItem
StackRoom(s, item, pos) == HasRoom(s, item, pos) /\ s[pos].item = item

\* The position that turn n looks at.
PositionOf(n) == IF n < MaxSlot THEN n ELSE n - MaxSlot

\* What turn n looks for.
RoomOfTurn(s, item, n) ==
  IF n < MaxSlot THEN StackRoom(s, item, n) ELSE EmptyRoom(s, item, n - MaxSlot)

\* A position with room gets k more of the item; if some is left, it is full.
Places(item, a, b, pos, k) ==
  /\ pos \in DOMAIN a.slots /\ HasRoom(a.slots, item, pos)
  /\ b.remain = a.remain - k
  /\ \A q \in DOMAIN a.slots \ {pos} : b.slots[q] = a.slots[q]
  /\ b.slots[pos].item = item
  /\ b.slots[pos].count = k + (IF a.slots[pos].item = item THEN a.slots[pos].count ELSE 0)
  /\ b.slots[pos].count <= MaxStack[item]
  /\ b.remain > 0 => ~HasRoom(b.slots, item, pos)

\* The parts of what a loop of AddItem has at hand.
LEMMA FillingFacts ==
  ASSUME NEW D, NEW a \in Filling(D)
  PROVE  a.slots \in [D -> Slots] /\ DOMAIN a.slots = D /\ a.remain \in Nat
BY DEF Filling

\* Put changes one position and what remains.
LEMMA PutFacts ==
  ASSUME NEW D, NEW a \in Filling(D), NEW item \in Items, NEW pos \in D, NEW n \in 1 .. a.remain,
         NEW count \in Int, NEW b, b = Put(a, pos, item, count, n)
  PROVE  /\ b \in Filling(D) /\ b.remain = a.remain - n
         /\ \A q \in D \ {pos} : b.slots[q] = a.slots[q]
         /\ b.slots[pos].item = item /\ b.slots[pos].count = count
<1>. DEFINE slot == [item |-> item, count |-> count, isEnable |-> a.slots[pos].isEnable]
<1>1. slot \in Slots
  BY DEF Slots, Filling
<1>2. b = [slots |-> [a.slots EXCEPT ![pos] = slot], remain |-> a.remain - n]
  BY DEF Put, Adding, Slot
<1>3. a.slots \in [D -> Slots] /\ a.remain \in Nat
  BY DEF Filling
<1>. HIDE DEF slot
<1>4. [a.slots EXCEPT ![pos] = slot] \in [D -> Slots] /\ a.remain - n \in Nat
  BY <1>1, <1>3
<1>5. b \in Filling(D)
  BY <1>2, <1>4 DEF Filling
<1>6. b.slots[pos] = slot /\ \A q \in D \ {pos} : b.slots[q] = a.slots[q]
  BY <1>2, <1>3
<1>7. slot.item = item /\ slot.count = count
  BY DEF slot
<1>. QED
  BY <1>2, <1>5, <1>6, <1>7

\* One position of the first loop: nothing is done and no stack there has room, or some pieces go
\* into the stack there.
LEMMA FillEffect ==
  ASSUME NEW D \in SUBSET (0 .. End - 1), NEW a \in Filling(D), NEW item \in Items \cap Stackable,
         NEW n \in Nat, n < MaxSlot, NEW b, b = Fill(item, a, n)
  PROVE  /\ b \in Filling(D)
         /\ \/ b = a /\ (a.remain > 0 => ~StackRoom(a.slots, item, n))
            \/ StackRoom(a.slots, item, n) /\ \E k \in 1 .. a.remain : Places(item, a, b, n, k)
<1>1. a.slots \in [D -> Slots] /\ a.remain \in Nat /\ DOMAIN a.slots = D
  BY DEF Filling
<1>2. MaxStack[item] \in Nat /\ item # NoItem
  BY InventoryAssumption
<1>3. CASE Visits(a, n) /\ a.slots[n].item = item /\ a.slots[n].count < MaxStack[item]
  <2>. DEFINE k == AtMost(MaxStack[item] - a.slots[n].count, a.remain)
  <2>1. n \in D /\ a.slots[n].isEnable /\ a.slots[n].count \in Int /\ a.remain > 0
    BY <1>1, <1>3 DEF Visits, Slots
  <2>2. /\ k \in 1 .. a.remain /\ a.slots[n].count + k <= MaxStack[item]
        /\ a.remain - k > 0 => a.slots[n].count + k = MaxStack[item]
    BY <1>1, <1>2, <1>3, <2>1 DEF AtMost
  <2>3. b = Put(a, n, item, a.slots[n].count + k, k)
    BY <1>3 DEF Fill
  <2>. HIDE DEF k
  <2>4. a.slots[n].count + k \in Int
    BY <2>1, <2>2
  <2>5. /\ b \in Filling(D) /\ b.remain = a.remain - k
        /\ \A q \in D \ {n} : b.slots[q] = a.slots[q]
        /\ b.slots[n].item = item /\ b.slots[n].count = a.slots[n].count + k
    BY <2>1, <2>2, <2>3, <2>4, PutFacts
  <2>6. StackRoom(a.slots, item, n)
    BY <1>1, <1>3, <2>1 DEF StackRoom, HasRoom
  <2>7. b.remain > 0 => ~HasRoom(b.slots, item, n)
    BY <1>2, <2>2, <2>5 DEF HasRoom
  <2>8. Places(item, a, b, n, k)
    <3>1. HasRoom(a.slots, item, n) /\ a.slots[n].item = item
      BY <2>6 DEF StackRoom
    <3>2. b.slots[n].count = k + a.slots[n].count /\ b.slots[n].count <= MaxStack[item]
      BY <1>1, <2>1, <2>2, <2>5
    <3>. QED
      BY <1>1, <2>1, <2>5, <2>7, <3>1, <3>2 DEF Places
  <2>. QED
    BY <2>2, <2>5, <2>6, <2>8
<1>4. CASE ~ (Visits(a, n) /\ a.slots[n].item = item /\ a.slots[n].count < MaxStack[item])
  BY <1>1, <1>2, <1>4 DEF Fill, StackRoom, HasRoom, Visits
<1>. QED
  BY <1>3, <1>4

\* One position of the second loop, in the same way for an empty slot.
LEMMA OpenEffect ==
  ASSUME NEW D \in SUBSET (0 .. End - 1), NEW a \in Filling(D), NEW item \in Items,
         NEW pos \in Nat, pos < MaxSlot, NEW b, b = Open(item, a, pos)
  PROVE  /\ b \in Filling(D)
         /\ \/ b = a /\ (a.remain > 0 => ~EmptyRoom(a.slots, item, pos))
            \/ EmptyRoom(a.slots, item, pos) /\ \E k \in 1 .. a.remain : Places(item, a, b, pos, k)
<1>1. a.slots \in [D -> Slots] /\ a.remain \in Nat /\ DOMAIN a.slots = D
  BY DEF Filling
<1>2. MaxStack[item] \in Nat \ {0} /\ item # NoItem
  BY InventoryAssumption
<1>3. CASE Visits(a, pos) /\ a.slots[pos].item = NoItem
  <2>. DEFINE k == IF item \in Stackable THEN AtMost(MaxStack[item], a.remain) ELSE 1
  <2>1. pos \in D /\ a.slots[pos].isEnable /\ a.remain > 0
    BY <1>1, <1>3 DEF Visits
  <2>2. /\ k \in 1 .. a.remain /\ k <= MaxStack[item]
        /\ a.remain - k > 0 /\ item \in Stackable => k = MaxStack[item]
    BY <1>1, <1>2, <2>1 DEF AtMost
  <2>3. b = Put(a, pos, item, k, k)
    BY <1>3 DEF Open
  <2>. HIDE DEF k
  <2>4. k \in Int
    BY <1>1, <2>2
  <2>5. /\ b \in Filling(D) /\ b.remain = a.remain - k
        /\ \A q \in D \ {pos} : b.slots[q] = a.slots[q]
        /\ b.slots[pos].item = item /\ b.slots[pos].count = k
    BY <2>1, <2>2, <2>3, <2>4, PutFacts
  <2>6. EmptyRoom(a.slots, item, pos)
    BY <1>1, <1>3, <2>1 DEF EmptyRoom, HasRoom
  <2>7. b.remain > 0 => ~HasRoom(b.slots, item, pos)
    BY <1>2, <2>2, <2>5 DEF HasRoom
  <2>8. Places(item, a, b, pos, k)
    <3>1. HasRoom(a.slots, item, pos) /\ a.slots[pos].item # item
      BY <1>2, <2>6 DEF EmptyRoom
    <3>2. b.slots[pos].count = k + 0
      BY <2>4, <2>5
    <3>. QED
      BY <1>1, <2>1, <2>2, <2>5, <2>7, <3>1, <3>2 DEF Places
  <2>. QED
    BY <2>2, <2>5, <2>6, <2>8
<1>4. CASE ~ (Visits(a, pos) /\ a.slots[pos].item = NoItem)
  BY <1>1, <1>4 DEF Open, EmptyRoom, HasRoom, Visits
<1>. QED
  BY <1>3, <1>4

\* A turn either leaves all as it is, because nothing remains or there is not the room it
\* looks for, or puts some of the item into that room.
LEMMA TurnEffect ==
  ASSUME NEW D \in SUBSET (0 .. End - 1), NEW a \in Filling(D), NEW item \in Items,
         NEW n \in Nat, n < 2 * MaxSlot, NEW b, b = Turn(item, a, n)
  PROVE  /\ b \in Filling(D)
         /\ \/ b = a /\ (a.remain > 0 => ~RoomOfTurn(a.slots, item, n))
            \/ /\ RoomOfTurn(a.slots, item, n)
               /\ \E k \in 1 .. a.remain : Places(item, a, b, PositionOf(n), k)
<1>1. MaxSlot \in Nat
  BY InventoryAssumption
<1>2. CASE n >= MaxSlot
  <2>1. n - MaxSlot \in Nat /\ n - MaxSlot < MaxSlot /\ b = Open(item, a, n - MaxSlot) /\ ~ (n < MaxSlot)
    BY <1>1, <1>2 DEF Turn
  <2>. QED
    BY <2>1, OpenEffect DEF RoomOfTurn, PositionOf
<1>3. CASE n < MaxSlot /\ item \in Stackable
  <2>1. b = Fill(item, a, n) /\ item \in Items \cap Stackable
    BY <1>1, <1>3 DEF Turn
  <2>. QED
    BY <1>3, <2>1, FillEffect DEF RoomOfTurn, PositionOf
<1>4. CASE n < MaxSlot /\ item \notin Stackable
  BY <1>1, <1>4, InventoryAssumption DEF Turn, RoomOfTurn, StackRoom, HasRoom
<1>. QED
  BY <1>1, <1>2, <1>3, <1>4

-----------------------------------------------------------------------------
(* How much of an item there is                                            *)

\* Every position holds a number of an item, none where there is no slot.
LEMMA CountAtType ==
  ASSUME NEW D, NEW s \in [D -> Slots], NEW item
  PROVE  CountAt(s, item) \in [Nat -> Int]
BY DEF CountAt, Slots

\* Slots that differ in one position, as far as the item goes.
DifferAt(s, t, item, x) ==
  \A pos \in Nat \ {x} : CountAt(t, item)[pos] = CountAt(s, item)[pos]

\* Two inventories that differ at one position, as far as an item goes, hold amounts that differ by as
\* much as that position does.
LEMMA TotalDiffers ==
  ASSUME NEW D, NEW s \in [D -> Slots], NEW E, NEW t \in [E -> Slots],
         NEW what, NEW x \in 0 .. End - 1, DifferAt(s, t, what, x)
  PROVE  /\ Total(s, what) \in Int /\ Total(t, what) \in Int
         /\ Total(t, what) = Total(s, what) + (CountAt(t, what)[x] - CountAt(s, what)[x])
<1>1. End \in Nat /\ x \in Nat /\ x < End
  BY InventoryAssumption
<1>. DEFINE f == CountAt(s, what)
            g == CountAt(t, what)
<1>2. f \in [Nat -> Int] /\ g \in [Nat -> Int] /\ \A pos \in Nat \ {x} : g[pos] = f[pos]
  BY CountAtType DEF DifferAt
<1>. HIDE DEF f, g
<1>3. Sum(f, End) \in Int /\ Sum(g, End) \in Int
  BY <1>1, <1>2, SumStep
<1>4. Sum(g, End) = Sum(f, End) + (IF x < End THEN g[x] - f[x] ELSE 0)
  BY <1>1, <1>2, SumDiffers
<1>. QED
  BY <1>1, <1>3, <1>4 DEF Total, f, g

\* An inventory holds a number of every item.
LEMMA TotalType ==
  ASSUME NEW D, NEW s \in [D -> Slots], NEW item
  PROVE  Total(s, item) \in Int
BY CountAtType, SumStep, InventoryAssumption DEF Total

\* An inventory without slots.
LEMMA TotalEmpty ==
  ASSUME NEW item
  PROVE  Total(<<>>, item) = 0
<1>. DEFINE f == CountAt(<<>>, item)
            Holds == {n \in Nat : Sum(f, n) = 0}
<1>1. f \in [Nat -> Int] /\ \A n \in Nat : f[n] = 0
  BY DEF CountAt
<1>. HIDE DEF f
<1>2. 0 \in Holds
  BY <1>1, SumStep
<1>3. ASSUME NEW n \in Nat, n \in Holds PROVE n + 1 \in Holds
  <2>1. Sum(f, n + 1) = Sum(f, n) + f[n]
    BY <1>1, SumStep
  <2>. QED
    BY <2>1, <1>1, <1>3
<1>. HIDE DEF Holds
<1>4. End \in Holds
  BY <1>2, <1>3, AllNaturals, InventoryAssumption
<1>. QED
  BY <1>4 DEF Holds, Total, f

-----------------------------------------------------------------------------
(* What the turns of AddItem keep                                          *)

SlotSound(slot) ==
  IF slot.item = NoItem THEN slot.count = 0 ELSE Fits(slot.item, slot.count)

\* After turn n, if something remains: no stack before n has room, and no slot before the
\* n-th of the second loop is empty.
FullBefore(item, n, a) ==
  a.remain > 0 =>
    \A q \in DOMAIN a.slots : /\ q < n => ~StackRoom(a.slots, item, q)
                              /\ q < n - MaxSlot => ~EmptyRoom(a.slots, item, q)

\* What has been put so far, is in order.
InOrder(s, item, a) ==
  /\ \A q \in DOMAIN s : s[q].item # NoItem => a.slots[q].item = s[q].item
  /\ \A pos \in DOMAIN s : a.slots[pos] # s[pos] =>
       /\ a.slots[pos].item = item
       /\ \A q \in DOMAIN s :
            \/ s[q].item = s[pos].item /\ q < pos
            \/ s[pos].item = NoItem /\ s[q].item = item
            => ~HasRoom(a.slots, item, q)

Conserves(s, item, count, a) ==
  /\ Total(a.slots, item) + a.remain = Total(s, item) + count
  /\ \A i \in Items \ {item} : Total(a.slots, i) = Total(s, i)

LoopInv(s, item, count, n, a) ==
  /\ a \in Filling(DOMAIN s) /\ a.remain <= count
  /\ (\A q \in DOMAIN s : SlotSound(s[q])) => \A q \in DOMAIN s : SlotSound(a.slots[q])
  /\ Conserves(s, item, count, a)
  /\ FullBefore(item, n, a)
  /\ InOrder(s, item, a)

\* Pieces that are put down are no longer in hand, and no other item notices.
LEMMA PlacesTotal ==
  ASSUME NEW D \in SUBSET (0 .. End - 1), NEW a \in Filling(D), NEW b \in Filling(D),
         NEW item \in Items, NEW pos, NEW k \in 1 .. a.remain, Places(item, a, b, pos, k)
  PROVE  /\ Total(b.slots, item) + b.remain = Total(a.slots, item) + a.remain
         /\ \A i \in Items \ {item} : Total(b.slots, i) = Total(a.slots, i)
<1>1. /\ a.slots \in [D -> Slots] /\ a.remain \in Nat /\ DOMAIN a.slots = D
      /\ b.slots \in [D -> Slots] /\ b.remain \in Nat /\ DOMAIN b.slots = D
  BY FillingFacts
<1>2. /\ pos \in D /\ pos \in 0 .. End - 1 /\ pos \in Nat
      /\ a.slots[pos].item \in {item, NoItem}
      /\ b.slots[pos].item = item /\ item # NoItem
  <2>1. pos \in D
    BY <1>1 DEF Places
  <2>2. a.slots[pos].item \in {item, NoItem} /\ b.slots[pos].item = item
    BY DEF Places, HasRoom
  <2>. QED
    BY <2>1, <2>2, InventoryAssumption
<1>3. \A i : \A q \in Nat \ {pos} : CountAt(b.slots, i)[q] = CountAt(a.slots, i)[q]
  BY <1>1 DEF Places, CountAt
<1>4. CountAt(b.slots, item)[pos] = CountAt(a.slots, item)[pos] + k
  BY <1>1, <1>2 DEF Places, CountAt, Slots
<1>5. CountAt(a.slots, item)[pos] \in Int
  <2>1. CountAt(a.slots, item) \in [Nat -> Int]
    BY <1>1, CountAtType
  <2>. QED
    BY <2>1, <1>2
<1>6. ASSUME NEW i
      PROVE  /\ Total(a.slots, i) \in Int
             /\ Total(b.slots, i)
                  = Total(a.slots, i) + (CountAt(b.slots, i)[pos] - CountAt(a.slots, i)[pos])
  <2>1. DifferAt(a.slots, b.slots, i, pos)
    BY <1>3 DEF DifferAt
  <2>2. a.slots \in [D -> Slots] /\ b.slots \in [D -> Slots] /\ pos \in 0 .. End - 1
    BY <1>1, <1>2
  <2>. QED
    BY <2>1, <2>2, TotalDiffers
<1>7. Total(b.slots, item) = Total(a.slots, item) + k /\ Total(a.slots, item) \in Int
  BY <1>4, <1>5, <1>6
<1>8. ASSUME NEW i \in Items \ {item} PROVE Total(b.slots, i) = Total(a.slots, i)
  <2>1. CountAt(b.slots, i)[pos] = 0 /\ CountAt(a.slots, i)[pos] = 0
    BY <1>2, InventoryAssumption DEF CountAt
  <2>. QED
    BY <1>6, <2>1
<1>. QED
  BY <1>1, <1>7, <1>8 DEF Places

\* Where there was no room before a turn there is none after it.
LEMMA PlacesNoRoom ==
  ASSUME NEW D \in SUBSET (0 .. End - 1), NEW a \in Filling(D), NEW b \in Filling(D),
         NEW item \in Items, NEW pos, NEW k \in 1 .. a.remain, Places(item, a, b, pos, k),
         NEW q \in D
  PROVE  /\ ~HasRoom(a.slots, item, q) => ~HasRoom(b.slots, item, q)
         /\ b.remain > 0 /\ ~StackRoom(a.slots, item, q) => ~StackRoom(b.slots, item, q)
         /\ b.remain > 0 /\ ~EmptyRoom(a.slots, item, q) => ~EmptyRoom(b.slots, item, q)
<1>1. /\ a.slots \in [D -> Slots] /\ DOMAIN a.slots = D
      /\ b.slots \in [D -> Slots] /\ DOMAIN b.slots = D
  BY DEF Filling
<1>2. CASE q = pos
  BY <1>2 DEF Places, StackRoom, EmptyRoom
<1>3. CASE q # pos
  <2>1. b.slots[q] = a.slots[q]
    BY <1>1, <1>3 DEF Places
  <2>. QED
    BY <1>1, <2>1 DEF HasRoom, StackRoom, EmptyRoom
<1>. QED
  BY <1>2, <1>3

\* After a turn that puts something, the positions behind it have no room or nothing remains.
LEMMA PlacesFull ==
  ASSUME NEW D \in SUBSET (0 .. End - 1), NEW a \in Filling(D), NEW b \in Filling(D),
         NEW item \in Items, NEW n \in Nat, n < 2 * MaxSlot, FullBefore(item, n, a),
         NEW k \in 1 .. a.remain, Places(item, a, b, PositionOf(n), k)
  PROVE  FullBefore(item, n + 1, b)
<1>. SUFFICES ASSUME b.remain > 0, NEW q \in DOMAIN b.slots
              PROVE  /\ q < n + 1 => ~StackRoom(b.slots, item, q)
                     /\ q < (n + 1) - MaxSlot => ~EmptyRoom(b.slots, item, q)
  BY DEF FullBefore
<1>1. MaxSlot \in Nat /\ q \in D /\ q \in Nat /\ DOMAIN a.slots = D /\ a.remain > 0
  <2>1. q \in D /\ DOMAIN a.slots = D /\ a.remain \in Nat
    BY FillingFacts
  <2>. QED
    BY <2>1, InventoryAssumption
<1>2. CASE q = PositionOf(n)
  <2>1. ~HasRoom(b.slots, item, q)
    BY <1>2 DEF Places
  <2>. QED
    BY <2>1 DEF StackRoom, EmptyRoom
<1>3. CASE q # PositionOf(n) /\ q < MaxSlot
  <2>1. /\ q < n + 1 => q < n
        /\ q < (n + 1) - MaxSlot => q < n - MaxSlot
    BY <1>1, <1>3 DEF PositionOf
  <2>2. /\ q < n => ~StackRoom(a.slots, item, q)
        /\ q < n - MaxSlot => ~EmptyRoom(a.slots, item, q)
    BY <1>1 DEF FullBefore
  <2>. QED
    BY <1>1, <2>1, <2>2, PlacesNoRoom
<1>4. CASE q >= MaxSlot
  BY <1>1, <1>4 DEF StackRoom, EmptyRoom, HasRoom
<1>. QED
  BY <1>1, <1>2, <1>3, <1>4

\* The same after a turn that puts nothing.
LEMMA SkipFull ==
  ASSUME NEW D \in SUBSET (0 .. End - 1), NEW a \in Filling(D),
         NEW item \in Items, NEW n \in Nat, n < 2 * MaxSlot, FullBefore(item, n, a),
         a.remain > 0 => ~RoomOfTurn(a.slots, item, n)
  PROVE  FullBefore(item, n + 1, a)
<1>. SUFFICES ASSUME a.remain > 0, NEW q \in DOMAIN a.slots
              PROVE  /\ q < n + 1 => ~StackRoom(a.slots, item, q)
                     /\ q < (n + 1) - MaxSlot => ~EmptyRoom(a.slots, item, q)
  BY DEF FullBefore
<1>1. MaxSlot \in Nat /\ q \in D /\ q \in Nat /\ DOMAIN a.slots = D
  <2>1. q \in D /\ DOMAIN a.slots = D
    BY FillingFacts
  <2>. QED
    BY <2>1, InventoryAssumption
<1>2. /\ q < n => ~StackRoom(a.slots, item, q)
      /\ q < n - MaxSlot => ~EmptyRoom(a.slots, item, q)
  BY <1>1 DEF FullBefore
<1>3. q >= MaxSlot => ~StackRoom(a.slots, item, q)
  BY <1>1 DEF StackRoom, HasRoom
<1>4. q = n => ~StackRoom(a.slots, item, q)
  BY <1>1, <1>3 DEF RoomOfTurn
<1>5. q = n - MaxSlot => ~EmptyRoom(a.slots, item, q)
  BY <1>1 DEF RoomOfTurn
<1>. QED
  BY <1>1, <1>2, <1>4, <1>5

\* A turn that puts something keeps the order: what it passed over had no room.
LEMMA PlacesInOrder ==
  ASSUME NEW D \in SUBSET (0 .. End - 1), NEW s \in [D -> Slots],
         NEW a \in Filling(D), NEW b \in Filling(D),
         NEW item \in Items, NEW n \in Nat, n < 2 * MaxSlot,
         FullBefore(item, n, a), InOrder(s, item, a), RoomOfTurn(a.slots, item, n),
         NEW k \in 1 .. a.remain, Places(item, a, b, PositionOf(n), k)
  PROVE  InOrder(s, item, b)
<1>. DEFINE here == PositionOf(n)
<1>1. /\ DOMAIN s = D /\ DOMAIN a.slots = D /\ here \in D /\ here \in Nat /\ here < MaxSlot
      /\ MaxSlot \in Nat /\ item # NoItem /\ a.remain > 0
  <2>1. DOMAIN s = D /\ DOMAIN a.slots = D /\ a.remain \in Nat
    BY FillingFacts
  <2>2. here \in D /\ here < MaxSlot
    BY <2>1 DEF Places, HasRoom
  <2>3. \A q \in D : q \in Nat
    BY InventoryAssumption
  <2>4. a.remain > 0
    BY <2>1
  <2>. QED
    BY <2>1, <2>2, <2>3, <2>4, InventoryAssumption
<1>2. \A q \in D : q # here => b.slots[q] = a.slots[q]
  BY <1>1 DEF Places
<1>3. b.slots[here].item = item /\ a.slots[here].item \in {item, NoItem}
  BY DEF Places, HasRoom
<1>4. \A q \in D : s[q].item # NoItem => a.slots[q].item = s[q].item
  BY <1>1 DEF InOrder
<1>5. \A q \in D : s[q].item # NoItem => b.slots[q].item = s[q].item
  BY <1>1, <1>2, <1>3, <1>4
<1>6. \A q \in D : ~HasRoom(a.slots, item, q) => ~HasRoom(b.slots, item, q)
  BY PlacesNoRoom
<1>7. ASSUME NEW pos \in D, b.slots[pos] # s[pos], NEW q \in D,
             \/ s[q].item = s[pos].item /\ q < pos
             \/ s[pos].item = NoItem /\ s[q].item = item
      PROVE  b.slots[pos].item = item /\ ~HasRoom(b.slots, item, q)
  <2>1. CASE a.slots[pos] # s[pos]
    <3>1. a.slots[pos].item = item /\ ~HasRoom(a.slots, item, q)
      BY <1>1, <1>7, <2>1 DEF InOrder
    <3>. QED
      BY <1>2, <1>3, <1>6, <3>1
  <2>2. CASE a.slots[pos] = s[pos]
    <3>1. pos = here
      BY <1>2, <1>7, <2>2
    <3>2. s[pos].item \in {item, NoItem}
      BY <1>3, <2>2, <3>1
    <3>3. q \in Nat /\ (q >= MaxSlot => ~HasRoom(a.slots, item, q))
      BY <1>1, InventoryAssumption DEF HasRoom
    <3>4. CASE s[pos].item = item
      <4>1. n < MaxSlot /\ n = pos /\ s[q].item = item /\ q < n
        BY <1>1, <1>7, <2>2, <3>1, <3>4 DEF RoomOfTurn, EmptyRoom, PositionOf
      <4>2. ~StackRoom(a.slots, item, q) /\ a.slots[q].item = item
        BY <1>1, <1>4, <4>1 DEF FullBefore
      <4>3. ~HasRoom(a.slots, item, q)
        BY <4>2 DEF StackRoom
      <4>. QED
        BY <1>3, <1>6, <3>1, <4>3
    <3>5. CASE s[pos].item = NoItem
      <4>1. n >= MaxSlot /\ n = MaxSlot + pos
        BY <1>1, <2>2, <3>1, <3>5 DEF RoomOfTurn, StackRoom, PositionOf
      <4>2. q < MaxSlot => ~StackRoom(a.slots, item, q)
        BY <1>1, <3>3, <4>1 DEF FullBefore
      <4>3. CASE s[q].item = item
        BY <1>1, <1>3, <1>4, <1>6, <3>1, <3>3, <4>2, <4>3 DEF StackRoom
      <4>4. CASE s[q].item = NoItem /\ q < pos
        <5>1. ~EmptyRoom(a.slots, item, q) /\ q < MaxSlot
          BY <1>1, <3>1, <3>3, <4>1, <4>4 DEF FullBefore
        <5>. QED
          BY <1>3, <1>6, <3>1, <4>2, <5>1 DEF StackRoom, EmptyRoom, HasRoom
      <4>. QED
        BY <1>7, <3>5, <4>3, <4>4
    <3>. QED
      BY <3>2, <3>4, <3>5
  <2>. QED
    BY <2>1, <2>2
<1>8. ASSUME NEW pos \in D, b.slots[pos] # s[pos] PROVE b.slots[pos].item = item
  <2>1. a.slots[pos] # s[pos] => a.slots[pos].item = item
    BY <1>1, <1>8 DEF InOrder
  <2>. QED
    BY <1>2, <1>3, <1>8, <2>1
<1>. QED
  BY <1>1, <1>5, <1>7, <1>8 DEF InOrder

\* What is left of a count that fits, as long as something is left, fits.
LEMMA FitsLess ==
  ASSUME NEW item \in Items, NEW count \in Int, Fits(item, count), NEW less \in 1 .. count
  PROVE  Fits(item, less)
<1>1. CASE 0 < count /\ count <= MaxStack[item]
  BY <1>1, InventoryAssumption DEF Fits
<1>2. ASSUME NEW p \in Players, NEW rows \in Rows[p], NEW pos \in DOMAIN rows,
             rows[pos][1] = item, OfCount(rows[pos][2], count)
      PROVE  Fits(item, less)
  <2>1. rows[pos][2] \in Int
    BY RowsAssumption
  <2>2. OfCount(rows[pos][2], less)
    BY <1>2, <2>1 DEF OfCount
  <2>. QED
    BY <1>2, <2>2 DEF Fits
<1>. QED
  BY <1>1, <1>2 DEF Fits

\* A count of none or less that fits comes from a row; more of it, while it is none or less, fits.
LEMMA FitsMore ==
  ASSUME NEW item \in Items, NEW count \in Int, Fits(item, count), NEW more \in count .. 0
  PROVE  Fits(item, more)
<1>1. ~ (0 < count)
  OBVIOUS
<1>2. PICK p \in Players : \E rows \in Rows[p] : \E pos \in DOMAIN rows :
        rows[pos][1] = item /\ OfCount(rows[pos][2], count)
  BY <1>1 DEF Fits
<1>3. PICK rows \in Rows[p] : \E pos \in DOMAIN rows : rows[pos][1] = item /\ OfCount(rows[pos][2], count)
  BY <1>2
<1>4. PICK pos \in DOMAIN rows : rows[pos][1] = item /\ OfCount(rows[pos][2], count)
  BY <1>3
<1>5. rows[pos][2] \in Int
  BY RowsAssumption
<1>6. OfCount(rows[pos][2], more)
  BY <1>4, <1>5 DEF OfCount
<1>. QED
  BY <1>4, <1>6 DEF Fits

\* Nothing is put on top of a full stack.
LEMMA PlacesSound ==
  ASSUME NEW D \in SUBSET (0 .. End - 1), NEW a \in Filling(D), NEW b \in Filling(D),
         NEW item \in Items, NEW pos, NEW k \in 1 .. a.remain, Places(item, a, b, pos, k),
         \A q \in D : SlotSound(a.slots[q])
  PROVE  \A q \in D : SlotSound(b.slots[q])
<1>. TAKE q \in D
<1>1. a.slots \in [D -> Slots] /\ DOMAIN a.slots = D /\ a.remain \in Nat /\ item # NoItem
  BY FillingFacts, InventoryAssumption
<1>2. CASE q = pos
  <2>1. a.slots[pos].count \in Int /\ b.slots[pos].count \in Int /\ MaxStack[item] \in Nat
    BY <1>1, <1>2, FillingFacts, InventoryAssumption DEF Slots
  <2>2. /\ b.slots[pos].item = item /\ b.slots[pos].count <= MaxStack[item]
        /\ b.slots[pos].count = k + (IF a.slots[pos].item = item THEN a.slots[pos].count ELSE 0)
    BY DEF Places
  <2>3. ASSUME b.slots[pos].count > 0 PROVE Fits(item, b.slots[pos].count)
    BY <2>1, <2>2, <2>3 DEF Fits
  <2>4. ASSUME b.slots[pos].count <= 0 PROVE Fits(item, b.slots[pos].count)
    <3>1. a.slots[pos].item = item /\ b.slots[pos].count \in a.slots[pos].count .. 0
      BY <2>1, <2>2, <2>4
    <3>2. Fits(item, a.slots[pos].count)
      BY <1>1, <1>2, <3>1 DEF SlotSound
    <3>. QED
      BY <2>1, <3>1, <3>2, FitsMore
  <2>5. Fits(item, b.slots[pos].count)
    BY <2>1, <2>3, <2>4
  <2>. QED
    BY <1>1, <1>2, <2>2, <2>5 DEF SlotSound
<1>3. CASE q # pos
  BY <1>1, <1>3 DEF Places
<1>. QED
  BY <1>2, <1>3

\* One turn.
LEMMA TurnKeeps ==
  ASSUME NEW D \in SUBSET (0 .. End - 1), NEW s \in [D -> Slots], NEW item \in Items, NEW count \in Nat,
         NEW n \in Nat, n < 2 * MaxSlot, NEW a, LoopInv(s, item, count, n, a)
  PROVE  LoopInv(s, item, count, n + 1, Turn(item, a, n))
<1>. DEFINE b == Turn(item, a, n)
<1>1. DOMAIN s = D /\ a \in Filling(D) /\ a.remain \in Nat
  BY FillingFacts DEF LoopInv
<1>. HIDE DEF b
<1>2. /\ b \in Filling(D)
      /\ \/ b = a /\ (a.remain > 0 => ~RoomOfTurn(a.slots, item, n))
         \/ /\ RoomOfTurn(a.slots, item, n)
            /\ \E k \in 1 .. a.remain : Places(item, a, b, PositionOf(n), k)
  BY <1>1, TurnEffect DEF b
<1>3. CASE b = a /\ (a.remain > 0 => ~RoomOfTurn(a.slots, item, n))
  <2>1. FullBefore(item, n + 1, a)
    BY <1>1, <1>3, SkipFull DEF LoopInv
  <2>2. LoopInv(s, item, count, n + 1, a)
    BY <2>1 DEF LoopInv
  <2>. QED
    BY <1>3, <2>2 DEF b
<1>4. ASSUME NEW k \in 1 .. a.remain, Places(item, a, b, PositionOf(n), k), RoomOfTurn(a.slots, item, n)
      PROVE  LoopInv(s, item, count, n + 1, b)
  <2>1. b.remain <= count
    <3>1. b.remain = a.remain - k /\ a.remain <= count
      BY <1>4 DEF Places, LoopInv
    <3>. QED
      BY <3>1, <1>1
  <2>2. (\A q \in D : SlotSound(s[q])) => \A q \in D : SlotSound(b.slots[q])
    BY <1>1, <1>2, <1>4, PlacesSound DEF LoopInv
  <2>3. Conserves(s, item, count, b)
    <3>1. /\ Total(b.slots, item) + b.remain = Total(a.slots, item) + a.remain
          /\ \A i \in Items \ {item} : Total(b.slots, i) = Total(a.slots, i)
      BY <1>1, <1>2, <1>4, PlacesTotal
    <3>. QED
      BY <3>1 DEF LoopInv, Conserves
  <2>4. FullBefore(item, n + 1, b)
    BY <1>1, <1>2, <1>4, PlacesFull DEF LoopInv
  <2>5. InOrder(s, item, b)
    BY <1>1, <1>2, <1>4, PlacesInOrder DEF LoopInv
  <2>. QED
    BY <1>1, <1>2, <2>1, <2>2, <2>3, <2>4, <2>5 DEF LoopInv
<1>. QED
  BY <1>2, <1>3, <1>4 DEF b

\* Before the first turn nothing was put.
LEMMA LoopInit ==
  ASSUME NEW D \in SUBSET (0 .. End - 1), NEW s \in [D -> Slots], NEW item \in Items, NEW count \in Nat
  PROVE  LoopInv(s, item, count, 0, Adding(s, count))
<1>. DEFINE a == Adding(s, count)
<1>1. a.slots = s /\ a.remain = count /\ a \in Filling(D) /\ DOMAIN s = D
  BY DEF Adding, Filling
<1>2. \A q \in D : q \in Nat
  BY InventoryAssumption
<1>. HIDE DEF a
<1>3. FullBefore(item, 0, a)
  <2>1. \A q \in D : ~ (q < 0) /\ ~ (q < 0 - MaxSlot)
    BY <1>2, InventoryAssumption
  <2>. QED
    BY <1>1, <2>1 DEF FullBefore
<1>4. InOrder(s, item, a)
  BY <1>1 DEF InOrder
<1>5. Conserves(s, item, count, a)
  BY <1>1 DEF Conserves
<1>. QED
  BY <1>1, <1>3, <1>4, <1>5 DEF LoopInv, a

\* The turns of AddItem one after the other.
LEMMA AddItemKeeps ==
  ASSUME NEW D \in SUBSET (0 .. End - 1), NEW s \in [D -> Slots], NEW item \in Items, NEW count \in Nat
  PROVE  LoopInv(s, item, count, 2 * MaxSlot, AddItem(s, item, count))
<1>. DEFINE step == [n \in Nat |-> [a \in Filling(D) |-> IF n < 2 * MaxSlot THEN Turn(item, a, n) ELSE a]]
            IsAdd(g) == g = [n \in 0 .. 2 * MaxSlot |->
                               IF n = 0 THEN Adding(s, count) ELSE Turn(item, g[n - 1], n - 1)]
            after == CHOOSE g : IsAdd(g)
<1>1. MaxSlot \in Nat /\ 2 * MaxSlot \in Nat
  BY InventoryAssumption
<1>2. PICK f : f \in Repeats(Filling(D), Adding(s, count), step)
  <2>1. Adding(s, count) \in Filling(D)
    BY DEF Adding, Filling
  <2>2. \A n \in Nat, a \in Filling(D) : n < 2 * MaxSlot => Turn(item, a, n) \in Filling(D)
    BY TurnEffect
  <2>3. step \in [Nat -> [Filling(D) -> Filling(D)]]
    BY <2>2
  <2>. HIDE DEF step
  <2>. QED
    BY <2>1, <2>3, Recursion
<1>3. f[0] = Adding(s, count) /\ \A n \in Nat : n < 2 * MaxSlot => f[n + 1] = Turn(item, f[n], n)
  BY <1>2 DEF Repeats
<1>4. \E g : IsAdd(g)
  <2>. DEFINE g == [n \in 0 .. 2 * MaxSlot |-> f[n]]
  <2>1. ASSUME NEW n \in 0 .. 2 * MaxSlot, n # 0 PROVE g[n] = Turn(item, g[n - 1], n - 1)
    <3>1. n - 1 \in Nat /\ n - 1 < 2 * MaxSlot /\ (n - 1) + 1 = n /\ n - 1 \in 0 .. 2 * MaxSlot
      BY <1>1, <2>1
    <3>. QED
      BY <3>1, <1>3
  <2>2. g[0] = Adding(s, count)
    BY <1>1, <1>3
  <2>3. IsAdd(g)
    BY <2>1, <2>2
  <2>. QED
    BY <2>3
<1>5. IsAdd(after)
  BY <1>4
<1>6. AddItem(s, item, count) = after[2 * MaxSlot]
  BY DEF AddItem
<1>. HIDE DEF after
<1>7. after[0] = Adding(s, count)
  BY <1>1, <1>5
<1>8. ASSUME NEW n \in Nat, n < 2 * MaxSlot PROVE after[n + 1] = Turn(item, after[n], n)
  <2>1. n + 1 \in 0 .. 2 * MaxSlot /\ n + 1 # 0 /\ (n + 1) - 1 = n
    BY <1>1, <1>8
  <2>. QED
    BY <2>1, <1>5
<1>. DEFINE Kept == {n \in Nat : n <= 2 * MaxSlot => LoopInv(s, item, count, n, after[n])}
<1>9. 0 \in Kept
  BY <1>7, LoopInit
<1>10. ASSUME NEW n \in Nat, n \in Kept PROVE n + 1 \in Kept
  <2>. SUFFICES ASSUME n + 1 <= 2 * MaxSlot PROVE LoopInv(s, item, count, n + 1, after[n + 1])
    OBVIOUS
  <2>1. n < 2 * MaxSlot /\ LoopInv(s, item, count, n, after[n])
    BY <1>1, <1>10
  <2>2. LoopInv(s, item, count, n + 1, Turn(item, after[n], n))
    BY <2>1, TurnKeeps
  <2>. QED
    BY <1>8, <2>1, <2>2
<1>. HIDE DEF Kept
<1>11. 2 * MaxSlot \in Kept
  BY <1>1, <1>9, <1>10, AllNaturals
<1>. QED
  BY <1>1, <1>6, <1>11 DEF Kept

-----------------------------------------------------------------------------
(* Types, and slots that are sound                                         *)

Positions == 0 .. End - 1

IsInventory(s) == IsMap(s, Positions, Slots) /\ \A pos \in DOMAIN s : SlotSound(s[pos])

\* The parts of an inventory.
LEMMA InventoryFacts ==
  ASSUME NEW s, IsInventory(s)
  PROVE  /\ DOMAIN s \in SUBSET (0 .. End - 1) /\ s \in [DOMAIN s -> Slots]
         /\ \A pos \in DOMAIN s : s[pos] \in Slots /\ SlotSound(s[pos])
BY DEF IsInventory, IsMap, Positions

\* A player who is not there has an inventory without slots.
LEMMA EmptyInventory == IsInventory(<<>>)
<1>1. DOMAIN <<>> = {}
  OBVIOUS
<1>2. <<>> \in [{} -> Slots]
  OBVIOUS
<1>. QED
  BY <1>1, <1>2 DEF IsInventory, IsMap

\* The constructor leaves an inventory.
LEMMA NewSound == IsInventory(NewSlots)
<1>1. 0 .. MaxSlot - 1 \subseteq Positions
  BY InventoryAssumption DEF Positions
<1>2. NewSlots = [pos \in 0 .. MaxSlot - 1 |->
                    [item |-> NoItem, count |-> 0, isEnable |-> pos <= CurrentSlotSize]]
  BY DEF NewSlots, Slot
<1>3. \A pos \in 0 .. MaxSlot - 1 : NewSlots[pos] \in Slots /\ SlotSound(NewSlots[pos])
  BY <1>2 DEF Slots, SlotSound
<1>. QED
  BY <1>1, <1>2, <1>3 DEF IsInventory, IsMap

\* The rows laid over an inventory leave one, whichever of them are read.
LEMMA LoadSound ==
  ASSUME NEW s, IsInventory(s), NEW p \in Players, NEW rows \in Rows[p], NEW t \in LoadInventory(s, rows)
  PROVE  IsInventory(t)
<1>1. PICK read \in SUBSET DOMAIN rows : t = SetSlotItems(s, [pos \in read |-> rows[pos]])
  BY DEF LoadInventory
<1>. DEFINE D == DOMAIN s \cup read
<1>2. D \subseteq Positions
  BY InventoryFacts, RowsAssumption DEF Positions
<1>3. t = [pos \in D |-> IF pos \in read THEN Slot(rows[pos][1], rows[pos][2], TRUE) ELSE s[pos]]
  BY <1>1 DEF SetSlotItems
<1>4. ASSUME NEW pos \in D PROVE t[pos] \in Slots /\ SlotSound(t[pos])
  <2>1. CASE pos \in read
    <3>1. pos \in DOMAIN rows /\ rows[pos][1] \in Items /\ rows[pos][2] \in Int
      BY <2>1, RowsAssumption
    <3>2. t[pos] = [item |-> rows[pos][1], count |-> rows[pos][2], isEnable |-> TRUE]
      BY <1>3, <2>1 DEF Slot
    <3>3. OfCount(rows[pos][2], rows[pos][2])
      BY <3>1 DEF OfCount
    <3>4. rows[pos][1] # NoItem /\ Fits(rows[pos][1], rows[pos][2])
      BY <3>1, <3>3, InventoryAssumption DEF Fits
    <3>. QED
      BY <3>1, <3>2, <3>4 DEF Slots, SlotSound
  <2>2. CASE pos \notin read
    BY <1>3, <2>2, InventoryFacts
  <2>. QED
    BY <2>1, <2>2
<1>5. DOMAIN t = D /\ t \in [D -> Slots]
  BY <1>3, <1>4
<1>. HIDE DEF D
<1>. QED
  BY <1>2, <1>4, <1>5 DEF IsInventory, IsMap

\* A player who enters has an inventory, be it one without slots.
LEMMA LoadedSound ==
  ASSUME NEW p \in Players, NEW s \in LoadedSlots(p)
  PROVE  IsInventory(s)
BY EmptyInventory, NewSound, LoadSound DEF LoadedSlots

\* AddItem leaves an inventory with the same positions, and no more than it was given.
LEMMA AddSound ==
  ASSUME NEW s, IsInventory(s), NEW item \in Items, NEW count \in Nat
  PROVE  /\ IsInventory(AddItem(s, item, count).slots)
         /\ DOMAIN AddItem(s, item, count).slots = DOMAIN s
         /\ AddItem(s, item, count).remain \in 0 .. count
<1>. DEFINE r == AddItem(s, item, count)
<1>1. LoopInv(s, item, count, 2 * MaxSlot, r)
  BY InventoryFacts, AddItemKeeps
<1>. HIDE DEF r
<1>2. r.slots \in [DOMAIN s -> Slots] /\ DOMAIN r.slots = DOMAIN s /\ r.remain \in Nat
  BY <1>1, FillingFacts DEF LoopInv
<1>3. \A pos \in DOMAIN s : SlotSound(r.slots[pos])
  BY <1>1, InventoryFacts DEF LoopInv
<1>4. r.remain <= count
  BY <1>1 DEF LoopInv
<1>5. IsInventory(r.slots)
  BY <1>2, <1>3, InventoryFacts DEF IsInventory, IsMap, Positions
<1>. QED
  BY <1>2, <1>4, <1>5 DEF r

\* RemoveItemBySlot leaves an inventory, and every other position as it was.
LEMMA RemoveSound ==
  ASSUME NEW s, IsInventory(s), NEW pos \in DOMAIN s, NEW count \in 1 .. s[pos].count, s[pos].item \in Items
  PROVE  /\ IsInventory(RemoveItemBySlot(s, pos, count))
         /\ DOMAIN RemoveItemBySlot(s, pos, count) \subseteq DOMAIN s
         /\ \A q \in DOMAIN s \ {pos} : /\ q \in DOMAIN RemoveItemBySlot(s, pos, count)
                                       /\ RemoveItemBySlot(s, pos, count)[q] = s[q]
<1>. DEFINE t == RemoveItemBySlot(s, pos, count)
<1>1. s \in [DOMAIN s -> Slots] /\ DOMAIN s \subseteq Positions
  BY InventoryFacts DEF Positions
<1>2. s[pos].count \in Int /\ Fits(s[pos].item, s[pos].count) /\ s[pos].item # NoItem
  BY InventoryFacts, InventoryAssumption DEF Slots, SlotSound
<1>3. CASE s[pos].count = count
  <2>1. t = [q \in DOMAIN s \ {pos} |-> s[q]]
    BY <1>3 DEF RemoveItemBySlot
  <2>2. \A q \in DOMAIN s : s[q] \in Slots /\ SlotSound(s[q])
    BY InventoryFacts
  <2>. HIDE DEF t
  <2>3. DOMAIN t = DOMAIN s \ {pos} /\ t \in [DOMAIN t -> Slots] /\ \A q \in DOMAIN t : t[q] = s[q]
    BY <2>1, <2>2
  <2>4. IsInventory(t)
    BY <1>1, <2>2, <2>3 DEF IsInventory, IsMap
  <2>. QED
    BY <2>3, <2>4 DEF t
<1>4. CASE s[pos].count # count
  <2>. DEFINE slot == [s[pos] EXCEPT !.count = @ - count]
  <2>1. t = [s EXCEPT ![pos] = slot]
    BY <1>4 DEF RemoveItemBySlot
  <2>2. slot \in Slots /\ slot.item = s[pos].item /\ slot.count = s[pos].count - count
    BY <1>1, <1>2, <1>4 DEF Slots
  <2>. HIDE DEF t, slot
  <2>3. SlotSound(slot)
    <3>1. slot.count \in 1 .. s[pos].count
      BY <1>2, <1>4, <2>2
    <3>2. Fits(slot.item, slot.count)
      BY <1>2, <2>2, <3>1, FitsLess
    <3>. QED
      BY <1>2, <2>2, <3>1, <3>2 DEF SlotSound
  <2>4. t \in [DOMAIN s -> Slots] /\ t[pos] = slot /\ \A q \in DOMAIN s \ {pos} : t[q] = s[q]
    BY <1>1, <2>1, <2>2
  <2>5. IsInventory(t)
    BY <1>1, <2>3, <2>4, InventoryFacts DEF IsInventory, IsMap
  <2>. QED
    BY <2>4, <2>5 DEF t
<1>. QED
  BY <1>3, <1>4

\* MoveItemSlot exchanges what two positions hold, and leaves every other as it was.
LEMMA MoveSound ==
  ASSUME NEW s, IsInventory(s), NEW from, NEW to, CanMove(s, from, to), NEW t, t = MoveItemSlot(s, from, to)
  PROVE  /\ IsInventory(t) /\ DOMAIN t = DOMAIN s
         /\ \A q \in DOMAIN s \ {from, to} : t[q] = s[q]
         /\ t[from].item = s[to].item /\ t[from].count = s[to].count
         /\ t[to].item = s[from].item /\ t[to].count = s[from].count
<1>. DEFINE first == [item |-> s[to].item, count |-> s[to].count, isEnable |-> s[from].isEnable]
            second == [item |-> s[from].item, count |-> s[from].count, isEnable |-> s[to].isEnable]
<1>1. /\ s \in [DOMAIN s -> Slots] /\ DOMAIN s \subseteq Positions
      /\ from \in DOMAIN s /\ to \in DOMAIN s /\ from # to
  BY InventoryFacts DEF Positions, CanMove
<1>2. t = [s EXCEPT ![from] = first, ![to] = second]
  BY <1>1 DEF MoveItemSlot, Slot
<1>3. first \in Slots /\ second \in Slots
  BY <1>1 DEF Slots
<1>4. SlotSound(first) /\ SlotSound(second)
  BY <1>1, InventoryFacts DEF SlotSound
<1>5. /\ first.item = s[to].item /\ first.count = s[to].count
      /\ second.item = s[from].item /\ second.count = s[from].count
  OBVIOUS
<1>. HIDE DEF first, second
<1>6. /\ t \in [DOMAIN s -> Slots] /\ t[from] = first /\ t[to] = second
      /\ \A q \in DOMAIN s \ {from, to} : t[q] = s[q]
  BY <1>1, <1>2, <1>3
<1>7. IsInventory(t)
  BY <1>1, <1>4, <1>6, InventoryFacts DEF IsInventory, IsMap
<1>. QED
  BY <1>5, <1>6, <1>7

-----------------------------------------------------------------------------
(* The invariant: types, sound slots, and nothing held while offline       *)

SeenSlots == (Items \cup {NoItem}) \X Int

IsView(v) == IsMap(v, Positions, SeenSlots)

TypeParts ==
  /\ online \in [Players -> BOOLEAN] /\ untold \in [Players -> BOOLEAN] /\ alive \in BOOLEAN
  /\ DOMAIN slots = Players /\ \A p \in Players : IsInventory(slots[p])
  /\ dropId \in 0 .. MaxDrops /\ IsMap(drops, 0 .. dropId - 1, Drops)
  /\ refused \subseteq Players \X Items /\ reloaded \subseteq Players
  /\ DOMAIN view = Players /\ \A p \in Players : IsView(view[p])

SlotsInv == TypeParts /\ \A p \in Players : ~online[p] => slots[p] = <<>>

\* What the client is shown at log-in is a view of every position.
LEMMA ShownType ==
  ASSUME NEW s, IsInventory(s)
  PROVE  IsView(Shown(s)) /\ DOMAIN Shown(s) = DOMAIN s
BY InventoryFacts DEF Shown, IsView, IsMap, SeenSlots, Slots, Positions

\* What a message about some positions makes of a client's view.
Tell(v, s, positions) ==
  [pos \in DOMAIN v \cup positions |->
     IF pos \notin positions THEN v[pos] ELSE IF pos \in DOMAIN s THEN Shown(s)[pos] ELSE <<NoItem, 0>>]

\* A message about some positions leaves a view.
LEMMA TellType ==
  ASSUME NEW v, IsView(v), NEW s, IsInventory(s), NEW positions \in SUBSET Positions
  PROVE  IsView(Tell(v, s, positions))
<1>. DEFINE w == Tell(v, s, positions)
<1>1. /\ DOMAIN w = DOMAIN v \cup positions
      /\ \A pos \in DOMAIN w :
           w[pos] = IF pos \notin positions THEN v[pos]
                    ELSE IF pos \in DOMAIN s THEN Shown(s)[pos] ELSE <<NoItem, 0>>
      /\ w = [pos \in DOMAIN w |-> w[pos]]
  BY DEF Tell
<1>. HIDE DEF w
<1>2. DOMAIN w \subseteq Positions /\ \A pos \in DOMAIN v : v[pos] \in SeenSlots
  BY <1>1 DEF IsView, IsMap
<1>3. <<NoItem, 0>> \in SeenSlots /\ \A pos \in DOMAIN s : Shown(s)[pos] \in SeenSlots
  BY ShownType DEF IsView, IsMap, SeenSlots
<1>4. w \in [DOMAIN w -> SeenSlots]
  BY <1>1, <1>2, <1>3
<1>. QED
  BY <1>2, <1>4 DEF IsView, IsMap, w

\* Told changes the view of one client, by Tell.
LEMMA ToldTells ==
  ASSUME SlotsInv, NEW p \in Players, NEW s, IsInventory(s), NEW positions \in SUBSET Positions,
         Told(p, s, positions)
  PROVE  /\ view' = [view EXCEPT ![p] = Tell(view[p], s, positions)]
         /\ DOMAIN view' = Players /\ \A q \in Players : IsView(view'[q])
<1>1. DOMAIN view = Players /\ \A q \in Players : IsView(view[q])
  BY DEF SlotsInv, TypeParts
<1>2. view' = [view EXCEPT ![p] = Tell(view[p], s, positions)]
  BY DEF Told, Tell
<1>3. IsView(Tell(view[p], s, positions))
  BY <1>1, TellType
<1>. QED
  BY <1>1, <1>2, <1>3

\* Nobody has anything at the start.
LEMMA SlotsInit == Init => SlotsInv
<1>. SUFFICES ASSUME Init PROVE SlotsInv
  OBVIOUS
<1>1. DOMAIN <<>> = {} /\ \A S : <<>> \in [{} -> S]
  OBVIOUS
<1>2. IsView(<<>>) /\ IsMap(<<>>, 0 .. 0 - 1, Drops)
  BY <1>1 DEF IsView, IsMap
<1>. QED
  BY <1>2, EmptyInventory, InventoryAssumption DEF Init, SlotsInv, TypeParts

\* A log-in loads an inventory and shows all of it.
LEMMA LoginKeeps ==
  ASSUME SlotsInv, NEW p \in Players, Login(p)
  PROVE  SlotsInv'
<1>1. TypeParts /\ \A q \in Players : ~online[q] => slots[q] = <<>>
  BY DEF SlotsInv
<1>2. PICK s \in LoadedSlots(p) : slots' = [slots EXCEPT ![p] = s]
  BY DEF Login
<1>3. IsInventory(s)
  BY LoadedSound
<1>4. slots'[p] = s /\ DOMAIN slots' = Players /\ \A q \in Players : IsInventory(slots'[q])
  BY <1>1, <1>2, <1>3 DEF TypeParts
<1>5. DOMAIN view' = Players /\ \A q \in Players : IsView(view'[q])
  <2>1. IsView(Shown(slots'[p]))
    BY <1>3, <1>4, ShownType
  <2>. QED
    BY <1>1, <2>1 DEF Login, TypeParts
<1>6. online' \in [Players -> BOOLEAN] /\ \A q \in Players : ~online'[q] => slots'[q] = <<>>
  BY <1>1, <1>2 DEF Login, TypeParts
<1>7. TypeParts'
  BY <1>1, <1>4, <1>5, <1>6 DEF Login, TypeParts, Quiet
<1>. QED
  BY <1>6, <1>7 DEF SlotsInv

\* A log-out forgets the inventory; drops stay, their owner is freed.
LEMMA LogoutKeeps ==
  ASSUME SlotsInv, NEW p \in Players, Logout(p)
  PROVE  SlotsInv'
<1>1. TypeParts /\ \A q \in Players : ~online[q] => slots[q] = <<>>
  BY DEF SlotsInv
<1>2. IsView(<<>>)
  <2>1. DOMAIN <<>> = {} /\ \A S : <<>> \in [{} -> S]
    OBVIOUS
  <2>. QED
    BY <2>1 DEF IsView, IsMap
<1>3. IsMap(drops', 0 .. dropId - 1, Drops)
  <2>1. /\ DOMAIN drops \subseteq 0 .. dropId - 1
        /\ \A d \in DOMAIN drops : drops[d] \in Drops
    BY <1>1 DEF TypeParts, IsMap
  <2>2. drops' = [d \in DOMAIN drops |-> [drops[d] EXCEPT !.owner = IF @ = p THEN Freed ELSE @]]
    BY DEF Logout
  <2>3. ASSUME NEW d \in DOMAIN drops PROVE drops'[d] \in Drops
    BY <2>1, <2>2 DEF Drops
  <2>. QED
    BY <2>1, <2>2, <2>3 DEF IsMap
<1>4. TypeParts'
  BY <1>1, <1>2, <1>3, EmptyInventory DEF Logout, TypeParts, Quiet
<1>5. \A q \in Players : ~online'[q] => slots'[q] = <<>>
  BY <1>1 DEF Logout, TypeParts
<1>. QED
  BY <1>4, <1>5 DEF SlotsInv

\* A drop gets an id no drop has.
LEMMA SpawnKeeps ==
  ASSUME SlotsInv, NEW p \in Players, SpawnDropItem(p)
  PROVE  SlotsInv'
<1>1. TypeParts
  BY DEF SlotsInv
<1>2. PICK item \in Items, count \in 1 .. MaxCount :
        drops' = [d \in DOMAIN drops \cup {dropId} |->
                    IF d = dropId THEN [item |-> item, count |-> count, owner |-> p] ELSE drops[d]]
  BY DEF SpawnDropItem
<1>3. dropId \in Nat /\ dropId' = dropId + 1 /\ dropId' \in 0 .. MaxDrops
  BY <1>1, InventoryAssumption DEF SpawnDropItem, TypeParts
<1>4. IsMap(drops', 0 .. dropId' - 1, Drops)
  <2>1. /\ DOMAIN drops \subseteq 0 .. dropId - 1
        /\ \A d \in DOMAIN drops : drops[d] \in Drops
    BY <1>1 DEF TypeParts, IsMap
  <2>2. DOMAIN drops' \subseteq 0 .. dropId' - 1
    BY <1>2, <1>3, <2>1
  <2>3. \A d \in DOMAIN drops' : drops'[d] \in Drops
    BY <1>2, <2>1 DEF Drops
  <2>. QED
    BY <1>2, <2>2, <2>3 DEF IsMap
<1>5. TypeParts'
  BY <1>1, <1>3, <1>4 DEF SpawnDropItem, TypeParts, Quiet
<1>. QED
  BY <1>5 DEF SpawnDropItem, SlotsInv

\* A trade lays rows over the slots of two players.
LEMMA ReloadKeeps ==
  ASSUME SlotsInv, NEW p \in Players, NEW target \in Players, Reload(p, target)
  PROVE  SlotsInv'
<1>1. TypeParts /\ \A q \in Players : ~online[q] => slots[q] = <<>>
  BY DEF SlotsInv
<1>2. PICK rows \in Rows[p], targetRows \in Rows[target] :
        \E mine \in LoadInventory(slots[p], rows), its \in LoadInventory(slots[target], targetRows) :
          slots' = [slots EXCEPT ![p] = mine, ![target] = its]
  BY DEF Reload
<1>3. PICK mine \in LoadInventory(slots[p], rows), its \in LoadInventory(slots[target], targetRows) :
        slots' = [slots EXCEPT ![p] = mine, ![target] = its]
  BY <1>2
<1>4. IsInventory(mine) /\ IsInventory(its)
  BY <1>1, LoadSound DEF TypeParts
<1>5. DOMAIN slots' = Players /\ \A q \in Players : IsInventory(slots'[q])
  BY <1>1, <1>3, <1>4 DEF TypeParts
<1>6. untold' \in [Players -> BOOLEAN]
  BY <1>1 DEF Reload, TypeParts
<1>7. /\ online' = online /\ drops' = drops /\ dropId' = dropId /\ alive' = alive /\ view' = view
      /\ refused' \subseteq Players \X Items /\ reloaded' \subseteq Players
      /\ online[p] /\ online[target]
  BY DEF Reload
<1>8. TypeParts'
  BY <1>1, <1>5, <1>6, <1>7 DEF TypeParts
<1>9. \A q \in Players : ~online'[q] => slots'[q] = <<>>
  BY <1>1, <1>3, <1>7 DEF TypeParts
<1>. QED
  BY <1>8, <1>9 DEF SlotsInv

\* A pickup, a use or a move: one inventory, its view and history, and drops that go.
LEMMA OneInventory ==
  ASSUME SlotsInv, NEW p \in Players, online[p], NEW s, IsInventory(s),
         slots' = [slots EXCEPT ![p] = s],
         DOMAIN view' = Players, \A q \in Players : IsView(view'[q]),
         untold' \in [Players -> BOOLEAN],
         IsMap(drops', 0 .. dropId - 1, Drops),
         refused' \subseteq Players \X Items, reloaded' \subseteq Players,
         UNCHANGED <<online, dropId, alive>>
  PROVE  SlotsInv'
<1>1. TypeParts /\ \A q \in Players : ~online[q] => slots[q] = <<>>
  BY DEF SlotsInv
<1>2. TypeParts'
  BY <1>1 DEF TypeParts
<1>3. \A q \in Players : ~online'[q] => slots'[q] = <<>>
  BY <1>1 DEF TypeParts
<1>. QED
  BY <1>2, <1>3 DEF SlotsInv

\* A pickup is AddItem on the slots of one player.
LEMMA PickupKeeps ==
  ASSUME SlotsInv, NEW p \in Players, NEW d \in DOMAIN drops, PickupDropItem(p, d)
  PROVE  SlotsInv'
<1>. DEFINE r == AddItem(slots[p], drops[d].item, drops[d].count)
<1>1. TypeParts /\ IsInventory(slots[p])
  BY DEF SlotsInv, TypeParts
<1>2. drops[d] \in Drops /\ drops[d].item \in Items /\ drops[d].count \in Nat
  BY <1>1, InventoryAssumption DEF TypeParts, IsMap, Drops
<1>3. IsInventory(r.slots)
  BY <1>1, <1>2, AddSound
<1>4. online[p] /\ slots' = [slots EXCEPT ![p] = r.slots] /\ UNCHANGED <<online, dropId, alive>>
  BY DEF PickupDropItem
<1>5. \/ /\ drops' = [e \in DOMAIN drops \ {d} |-> drops[e]]
         /\ Told(p, r.slots, Changed(slots[p], r.slots)) /\ untold' = untold
      \/ /\ untold' = [untold EXCEPT ![p] = @ \/ r.slots # slots[p]]
         /\ drops' = drops /\ view' = view
  BY DEF PickupDropItem
<1>. HIDE DEF r
<1>6. untold' \in [Players -> BOOLEAN]
  BY <1>1, <1>5 DEF TypeParts
<1>7. IsMap(drops', 0 .. dropId - 1, Drops)
  BY <1>1, <1>5 DEF TypeParts, IsMap
<1>8. DOMAIN view' = Players /\ \A q \in Players : IsView(view'[q])
  <2>1. Changed(slots[p], r.slots) \in SUBSET Positions
    BY <1>3, InventoryFacts DEF Changed, Positions
  <2>. QED
    BY <1>1, <1>3, <1>5, <2>1, ToldTells DEF TypeParts
<1>9. refused' \subseteq Players \X Items /\ reloaded' \subseteq Players
  BY <1>2 DEF PickupDropItem
<1>. QED
  BY <1>3, <1>4, <1>6, <1>7, <1>8, <1>9, OneInventory

\* A use is RemoveItemBySlot on the slots of one player.
LEMMA UseKeeps ==
  ASSUME SlotsInv, NEW p \in Players, NEW pos \in DOMAIN slots[p], NEW count \in 1 .. slots[p][pos].count,
         UseItem(p, pos, count)
  PROVE  SlotsInv'
<1>. DEFINE t == RemoveItemBySlot(slots[p], pos, count)
<1>1. TypeParts /\ IsInventory(slots[p])
  BY DEF SlotsInv, TypeParts
<1>2. IsInventory(t)
  BY <1>1, RemoveSound, InventoryAssumption DEF UseItem
<1>3. /\ online[p] /\ slots' = [slots EXCEPT ![p] = t] /\ Told(p, slots'[p], {pos})
      /\ refused' = {} /\ reloaded' = {}
      /\ UNCHANGED <<online, drops, dropId, alive, untold>>
  BY DEF UseItem, Quiet
<1>. HIDE DEF t
<1>4. slots'[p] = t /\ {pos} \in SUBSET Positions
  BY <1>1, <1>3, InventoryFacts DEF TypeParts, Positions
<1>5. DOMAIN view' = Players /\ \A q \in Players : IsView(view'[q])
  BY <1>2, <1>3, <1>4, ToldTells
<1>6. /\ untold' \in [Players -> BOOLEAN] /\ IsMap(drops', 0 .. dropId - 1, Drops)
      /\ refused' \subseteq Players \X Items /\ reloaded' \subseteq Players
  BY <1>1, <1>3 DEF TypeParts
<1>. QED
  BY <1>2, <1>3, <1>5, <1>6, OneInventory

\* A move is MoveItemSlot on the slots of one player.
LEMMA MoveKeeps ==
  ASSUME SlotsInv, NEW p \in Players, NEW from \in DOMAIN slots[p], NEW to \in DOMAIN slots[p],
         MoveItem(p, from, to)
  PROVE  SlotsInv'
<1>. DEFINE t == MoveItemSlot(slots[p], from, to)
<1>1. TypeParts /\ IsInventory(slots[p])
  BY DEF SlotsInv, TypeParts
<1>2. IsInventory(t)
  BY <1>1, MoveSound DEF MoveItem
<1>3. /\ online[p] /\ slots' = [slots EXCEPT ![p] = t] /\ Told(p, slots'[p], {from, to})
      /\ refused' = {} /\ reloaded' = {}
      /\ UNCHANGED <<online, drops, dropId, alive, untold>>
  BY DEF MoveItem, Quiet
<1>. HIDE DEF t
<1>4. slots'[p] = t /\ {from, to} \in SUBSET Positions
  BY <1>1, <1>3, InventoryFacts DEF TypeParts, Positions
<1>5. DOMAIN view' = Players /\ \A q \in Players : IsView(view'[q])
  BY <1>2, <1>3, <1>4, ToldTells
<1>6. /\ untold' \in [Players -> BOOLEAN] /\ IsMap(drops', 0 .. dropId - 1, Drops)
      /\ refused' \subseteq Players \X Items /\ reloaded' \subseteq Players
  BY <1>1, <1>3 DEF TypeParts
<1>. QED
  BY <1>2, <1>3, <1>5, <1>6, OneInventory

\* Every step keeps the invariant.
LEMMA SlotsNext == SlotsInv /\ [Next]_vars => SlotsInv'
<1>. SUFFICES ASSUME SlotsInv, [Next]_vars PROVE SlotsInv'
  OBVIOUS
<1>1. ASSUME NEW p \in Players, NEW d \in DOMAIN drops, OwnerIsGone(p, d) PROVE SlotsInv'
  BY <1>1 DEF OwnerIsGone, SlotsInv, TypeParts
<1>2. ASSUME UseItemOfNothing PROVE SlotsInv'
  BY <1>2 DEF UseItemOfNothing, SlotsInv, TypeParts
<1>3. CASE UNCHANGED vars
  BY <1>3 DEF vars, SlotsInv, TypeParts
<1>. QED
  BY <1>1, <1>2, <1>3, LoginKeeps, LogoutKeeps, ReloadKeeps, SpawnKeeps, PickupKeeps, UseKeeps, MoveKeeps
     DEF Next

\* The invariant holds in every reachable state.
LEMMA SlotsInvariant == Spec => []SlotsInv
BY SlotsInit, SlotsNext, PTL DEF Spec

\* For any players, items, rows and bounds, every variable keeps its type, and a slot with
\* an item holds, but for what a row says, at least one and at most a stack of it; one without
\* an item holds none: what AddItem, RemoveItemBySlot, MoveItemSlot and the loads do together.
THEOREM SlotsCorrect == Spec => []SlotsSound
<1>1. SlotsInv => SlotsSound
  <2>1. SlotsInv => TypeOK
    BY DEF SlotsInv, TypeParts, TypeOK, IsInventory, IsView, SeenSlots, Positions
  <2>2. SlotsInv => \A p \in Players : \A pos \in DOMAIN slots[p] : SlotSound(slots[p][pos])
    BY DEF SlotsInv, TypeParts, IsInventory
  <2>. QED
    BY <2>1, <2>2 DEF SlotsSound, SlotSound
<1>. QED
  BY <1>1, SlotsInvariant, PTL

-----------------------------------------------------------------------------
(* What the client sees                                                    *)

Sees(v, s) == \A pos \in DOMAIN v \cup DOMAIN s : Contents(v, pos) = Contents(Shown(s), pos)

\* Who is shown everything sees it as it is.
LEMMA ShownSees ==
  ASSUME NEW s
  PROVE  Sees(Shown(s), s)
BY DEF Sees, Shown, Contents

\* The same slots at all other positions.
SameBut(positions, s, t) ==
  \A pos : pos \notin positions =>
    /\ pos \in DOMAIN t <=> pos \in DOMAIN s
    /\ pos \in DOMAIN s => t[pos] = s[pos]

\* A message that leaves out nothing that changed.
LEMMA TellSees ==
  ASSUME NEW v, NEW s, NEW t, NEW positions, Sees(v, s), SameBut(positions, s, t)
  PROVE  Sees(Tell(v, t, positions), t)
<1>. DEFINE w == Tell(v, t, positions)
<1>1. /\ DOMAIN w = DOMAIN v \cup positions
      /\ \A pos \in DOMAIN w :
           w[pos] = IF pos \notin positions THEN v[pos]
                    ELSE IF pos \in DOMAIN t THEN Shown(t)[pos] ELSE <<NoItem, 0>>
  BY DEF Tell
<1>. HIDE DEF w
<1>2. \A r : DOMAIN Shown(r) = DOMAIN r /\ \A pos \in DOMAIN r : Shown(r)[pos] = <<r[pos].item, r[pos].count>>
  BY DEF Shown
<1>3. ASSUME NEW pos PROVE Contents(w, pos) = Contents(Shown(t), pos)
  <2>1. CASE pos \in positions
    BY <1>1, <1>2, <2>1 DEF Contents
  <2>2. CASE pos \notin positions
    <3>1. Contents(w, pos) = Contents(v, pos)
      BY <1>1, <2>2 DEF Contents
    <3>2. Contents(Shown(t), pos) = Contents(Shown(s), pos)
      <4>1. /\ pos \in DOMAIN t <=> pos \in DOMAIN s
            /\ pos \in DOMAIN s => t[pos] = s[pos]
        BY <2>2 DEF SameBut
      <4>2. pos \in DOMAIN s => Shown(t)[pos] = Shown(s)[pos]
        BY <1>2, <4>1
      <4>. QED
        BY <1>2, <4>1, <4>2 DEF Contents
    <3>3. Contents(v, pos) = Contents(Shown(s), pos)
      <4>1. CASE pos \in DOMAIN v \cup DOMAIN s
        BY <4>1 DEF Sees
      <4>2. CASE pos \notin DOMAIN v \cup DOMAIN s
        BY <4>2, <1>2 DEF Contents
      <4>. QED
        BY <4>1, <4>2
    <3>. QED
      BY <3>1, <3>2, <3>3
  <2>. QED
    BY <2>1, <2>2
<1>. QED
  BY <1>3 DEF Sees, w

\* A step that changes the slots of player p and tells him all of it.
LEMMA ToldSees ==
  ASSUME SlotsInv, ClientSeesSlots, NEW p \in Players, NEW t, IsInventory(t),
         NEW positions \in SUBSET Positions,
         slots' = [slots EXCEPT ![p] = t], Told(p, t, positions), UNCHANGED untold,
         SameBut(positions, slots[p], t)
  PROVE  ClientSeesSlots'
<1>1. view' = [view EXCEPT ![p] = Tell(view[p], t, positions)] /\ DOMAIN view = Players /\ DOMAIN slots = Players
  BY ToldTells DEF SlotsInv, TypeParts
<1>2. ASSUME NEW q \in Players, ~untold'[q] PROVE Sees(view'[q], slots'[q])
  <2>1. Sees(view[q], slots[q])
    BY <1>2 DEF ClientSeesSlots, Sees
  <2>2. CASE q = p
    <3>1. view'[q] = Tell(view[p], t, positions) /\ slots'[q] = t
      BY <1>1, <2>2
    <3>. QED
      BY <2>1, <2>2, <3>1, TellSees
  <2>3. CASE q # p
    BY <1>1, <2>1, <2>3
  <2>. QED
    BY <2>2, <2>3
<1>. QED
  BY <1>2 DEF ClientSeesSlots, Sees

\* Every step keeps the views of the clients right.
LEMMA SeesNext == SlotsInv /\ ClientSeesSlots /\ [Next]_vars => ClientSeesSlots'
<1>. SUFFICES ASSUME SlotsInv, ClientSeesSlots, [Next]_vars PROVE ClientSeesSlots'
  OBVIOUS
<1>1. /\ DOMAIN view = Players /\ DOMAIN slots = Players
      /\ \A q \in Players : IsInventory(slots[q])
      /\ untold \in [Players -> BOOLEAN] /\ IsMap(drops, 0 .. dropId - 1, Drops)
  BY DEF SlotsInv, TypeParts
<1>2. \A q \in Players : ~untold[q] => Sees(view[q], slots[q])
  BY DEF ClientSeesSlots, Sees
<1>3. (\A q \in Players : ~untold'[q] => Sees(view'[q], slots'[q])) => ClientSeesSlots'
  BY DEF ClientSeesSlots, Sees
<1>4. ASSUME NEW p \in Players, Login(p) PROVE ClientSeesSlots'
  <2>1. PICK s \in LoadedSlots(p) : slots' = [slots EXCEPT ![p] = s]
    BY <1>4 DEF Login
  <2>2. view' = [view EXCEPT ![p] = Shown(slots'[p])] /\ UNCHANGED untold
    BY <1>4 DEF Login
  <2>3. Sees(view'[p], slots'[p])
    BY <1>1, <2>2, ShownSees
  <2>. QED
    BY <1>1, <1>2, <1>3, <2>1, <2>2, <2>3
<1>5. ASSUME NEW p \in Players, Logout(p) PROVE ClientSeesSlots'
  <2>1. Sees(<<>>, <<>>)
    BY DEF Sees, Contents
  <2>2. /\ slots' = [slots EXCEPT ![p] = <<>>] /\ view' = [view EXCEPT ![p] = <<>>]
        /\ untold' = [untold EXCEPT ![p] = FALSE]
    BY <1>5 DEF Logout
  <2>. QED
    BY <1>1, <1>2, <1>3, <2>1, <2>2
<1>6. ASSUME NEW p \in Players, NEW d \in DOMAIN drops, PickupDropItem(p, d) PROVE ClientSeesSlots'
  <2>. DEFINE r == AddItem(slots[p], drops[d].item, drops[d].count)
  <2>1. IsInventory(r.slots) /\ DOMAIN r.slots = DOMAIN slots[p]
    <3>1. drops[d].item \in Items /\ drops[d].count \in Nat
      BY <1>1, InventoryAssumption DEF IsMap, Drops
    <3>. QED
      BY <1>1, <3>1, AddSound
  <2>2. slots' = [slots EXCEPT ![p] = r.slots]
    BY <1>6 DEF PickupDropItem
  <2>3. \/ Told(p, r.slots, Changed(slots[p], r.slots)) /\ untold' = untold
        \/ untold' = [untold EXCEPT ![p] = @ \/ r.slots # slots[p]] /\ view' = view
    BY <1>6 DEF PickupDropItem
  <2>. HIDE DEF r
  <2>4. CASE Told(p, r.slots, Changed(slots[p], r.slots)) /\ untold' = untold
    <3>1. Changed(slots[p], r.slots) \in SUBSET Positions
      BY <1>1, <2>1, InventoryFacts DEF Changed, Positions
    <3>2. SameBut(Changed(slots[p], r.slots), slots[p], r.slots)
      BY <2>1 DEF Changed, SameBut
    <3>. QED
      BY <2>1, <2>2, <2>4, <3>1, <3>2, ToldSees
  <2>5. CASE untold' = [untold EXCEPT ![p] = @ \/ r.slots # slots[p]] /\ view' = view
    <3>1. ASSUME NEW q \in Players, ~untold'[q] PROVE Sees(view'[q], slots'[q])
      <4>1. ~untold[q] /\ (q = p => r.slots = slots[p])
        BY <1>1, <2>5, <3>1
      <4>2. slots'[q] = slots[q]
        BY <1>1, <2>2, <4>1
      <4>. QED
        BY <1>2, <2>5, <4>1, <4>2
    <3>. QED
      BY <1>3, <3>1
  <2>. QED
    BY <2>3, <2>4, <2>5
<1>7. ASSUME NEW p \in Players, NEW pos \in DOMAIN slots[p], NEW count \in 1 .. slots[p][pos].count,
             UseItem(p, pos, count)
      PROVE  ClientSeesSlots'
  <2>. DEFINE t == RemoveItemBySlot(slots[p], pos, count)
  <2>1. /\ IsInventory(t) /\ DOMAIN t \subseteq DOMAIN slots[p]
        /\ \A q \in DOMAIN slots[p] \ {pos} : q \in DOMAIN t /\ t[q] = slots[p][q]
    BY <1>1, <1>7, RemoveSound, InventoryAssumption DEF UseItem
  <2>2. slots' = [slots EXCEPT ![p] = t] /\ Told(p, slots'[p], {pos}) /\ UNCHANGED untold
    BY <1>7 DEF UseItem
  <2>. HIDE DEF t
  <2>3. Told(p, t, {pos}) /\ {pos} \in SUBSET Positions
    BY <1>1, <2>2, InventoryFacts DEF Positions
  <2>4. SameBut({pos}, slots[p], t)
    BY <2>1 DEF SameBut
  <2>. QED
    BY <2>1, <2>2, <2>3, <2>4, ToldSees
<1>8. ASSUME NEW p \in Players, NEW from \in DOMAIN slots[p], NEW to \in DOMAIN slots[p], MoveItem(p, from, to)
      PROVE  ClientSeesSlots'
  <2>. DEFINE t == MoveItemSlot(slots[p], from, to)
  <2>1. /\ IsInventory(t) /\ DOMAIN t = DOMAIN slots[p]
        /\ \A q \in DOMAIN slots[p] \ {from, to} : t[q] = slots[p][q]
    BY <1>1, <1>8, MoveSound DEF MoveItem
  <2>2. slots' = [slots EXCEPT ![p] = t] /\ Told(p, slots'[p], {from, to}) /\ UNCHANGED untold
    BY <1>8 DEF MoveItem
  <2>. HIDE DEF t
  <2>3. Told(p, t, {from, to}) /\ {from, to} \in SUBSET Positions
    BY <1>1, <2>2, InventoryFacts DEF Positions
  <2>4. SameBut({from, to}, slots[p], t)
    BY <2>1 DEF SameBut
  <2>. QED
    BY <2>1, <2>2, <2>3, <2>4, ToldSees
<1>9. ASSUME NEW p \in Players, SpawnDropItem(p) \/ \E d \in DOMAIN drops : OwnerIsGone(p, d)
      PROVE  ClientSeesSlots'
  BY <1>9 DEF SpawnDropItem, OwnerIsGone, ClientSeesSlots
<1>10. ASSUME NEW p \in Players, NEW target \in Players, Reload(p, target) PROVE ClientSeesSlots'
  <2>1. untold' = [q \in Players |-> untold[q] \/ slots'[q] # slots[q]] /\ view' = view
    BY <1>10 DEF Reload
  <2>2. ASSUME NEW q \in Players, ~untold'[q] PROVE Sees(view'[q], slots'[q])
    <3>1. ~untold[q] /\ slots'[q] = slots[q]
      BY <2>1, <2>2
    <3>. QED
      BY <1>2, <2>1, <3>1
  <2>. QED
    BY <1>3, <2>2
<1>11. CASE UseItemOfNothing \/ UNCHANGED vars
  BY <1>11 DEF UseItemOfNothing, vars, ClientSeesSlots
<1>. QED
  BY <1>4, <1>5, <1>6, <1>7, <1>8, <1>9, <1>10, <1>11 DEF Next

\* For any players, items, rows and bounds, a client that puts the messages together sees
\* the slots of the server, unless a pickup that failed or a trade has changed them.
THEOREM ViewCorrect == Spec => []ClientSeesSlots
<1>1. Init => ClientSeesSlots
  BY DEF Init, ClientSeesSlots, Contents, Shown
<1>2. SlotsInv /\ ClientSeesSlots /\ [Next]_vars => ClientSeesSlots'
  BY SeesNext
<1>. QED
  BY <1>1, <1>2, SlotsInvariant, PTL DEF Spec

-----------------------------------------------------------------------------
(* Who gets what                                                           *)

\* A use takes what it says.
LEMMA RemoveTotal ==
  ASSUME NEW s, IsInventory(s), NEW pos \in DOMAIN s, NEW count \in 1 .. s[pos].count, s[pos].item \in Items,
         NEW t, t = RemoveItemBySlot(s, pos, count)
  PROVE  /\ Total(t, s[pos].item) = Total(s, s[pos].item) - count
         /\ \A i \in Items \ {s[pos].item} : Total(t, i) = Total(s, i)
<1>1. /\ s \in [DOMAIN s -> Slots] /\ DOMAIN s \in SUBSET Positions
      /\ pos \in 0 .. End - 1 /\ pos \in Nat /\ s[pos].count \in Int
  BY InventoryFacts, InventoryAssumption DEF Positions, Slots
<1>2. t \in [DOMAIN t -> Slots]
  BY RemoveSound, InventoryFacts
<1>3. \A i : DifferAt(s, t, i, pos)
  <2>1. \A q \in Nat \ {pos} : /\ q \in DOMAIN t <=> q \in DOMAIN s
                               /\ q \in DOMAIN s => t[q] = s[q]
    BY RemoveSound
  <2>. QED
    BY <2>1 DEF DifferAt, CountAt
<1>4. \A i : CountAt(s, i)[pos] = IF i = s[pos].item THEN s[pos].count ELSE 0
  BY <1>1 DEF CountAt
<1>5. \A i : CountAt(t, i)[pos] = IF i = s[pos].item THEN s[pos].count - count ELSE 0
  <2>1. CASE s[pos].count = count
    <3>1. pos \notin DOMAIN t
      BY <2>1 DEF RemoveItemBySlot
    <3>. QED
      BY <1>1, <2>1, <3>1 DEF CountAt
  <2>2. CASE s[pos].count # count
    <3>1. t = [s EXCEPT ![pos].count = @ - count]
      BY <2>2 DEF RemoveItemBySlot
    <3>2. pos \in DOMAIN t /\ t[pos].item = s[pos].item /\ t[pos].count = s[pos].count - count
      BY <1>1, <3>1 DEF Slots
    <3>. QED
      BY <1>1, <3>2 DEF CountAt
  <2>. QED
    BY <2>1, <2>2
<1>6. ASSUME NEW i
      PROVE  /\ Total(s, i) \in Int
             /\ Total(t, i) = Total(s, i) + (CountAt(t, i)[pos] - CountAt(s, i)[pos])
  <2>1. DifferAt(s, t, i, pos)
    BY <1>3
  <2>. QED
    BY <1>1, <1>2, <2>1, TotalDiffers
<1>7. Total(t, s[pos].item) = Total(s, s[pos].item) - count
  BY <1>1, <1>4, <1>5, <1>6
<1>8. ASSUME NEW i \in Items \ {s[pos].item} PROVE Total(t, i) = Total(s, i)
  BY <1>4, <1>5, <1>6
<1>. QED
  BY <1>7, <1>8

\* A move takes nothing and gives nothing.
LEMMA MoveTotal ==
  ASSUME NEW s, IsInventory(s), NEW from, NEW to, CanMove(s, from, to), NEW t, t = MoveItemSlot(s, from, to)
  PROVE  \A i : Total(t, i) = Total(s, i)
<1>. DEFINE half == [s EXCEPT ![from] = s[to]]
<1>1. /\ s \in [DOMAIN s -> Slots] /\ from \in DOMAIN s /\ to \in DOMAIN s /\ from # to
      /\ from \in 0 .. End - 1 /\ to \in 0 .. End - 1
      /\ from \in Nat /\ to \in Nat
  BY InventoryFacts, InventoryAssumption DEF CanMove
<1>2. /\ t \in [DOMAIN s -> Slots]
      /\ \A q \in DOMAIN s \ {from, to} : t[q] = s[q]
      /\ t[from].item = s[to].item /\ t[from].count = s[to].count
      /\ t[to].item = s[from].item /\ t[to].count = s[from].count
  BY MoveSound, InventoryFacts
<1>3. /\ half \in [DOMAIN s -> Slots] /\ half[from] = s[to]
      /\ \A q \in DOMAIN s \ {from} : half[q] = s[q]
  BY <1>1
<1>. HIDE DEF half
<1>4. ASSUME NEW i PROVE Total(t, i) = Total(s, i)
  <2>1. DifferAt(s, half, i, from)
    BY <1>1, <1>3 DEF DifferAt, CountAt
  <2>2. DifferAt(half, t, i, to)
    BY <1>1, <1>2, <1>3 DEF DifferAt, CountAt
  <2>3. /\ CountAt(half, i)[from] = CountAt(s, i)[to] /\ CountAt(half, i)[to] = CountAt(s, i)[to]
        /\ CountAt(t, i)[to] = CountAt(s, i)[from]
    BY <1>1, <1>2, <1>3 DEF CountAt
  <2>4. CountAt(s, i)[from] \in Int /\ CountAt(s, i)[to] \in Int
    <3>1. CountAt(s, i) \in [Nat -> Int]
      BY <1>1, CountAtType
    <3>. QED
      BY <1>1, <3>1
  <2>5. /\ Total(s, i) \in Int
        /\ Total(half, i) = Total(s, i) + (CountAt(half, i)[from] - CountAt(s, i)[from])
    BY <1>1, <1>3, <2>1, TotalDiffers
  <2>6. Total(t, i) = Total(half, i) + (CountAt(t, i)[to] - CountAt(half, i)[to])
    BY <1>1, <1>2, <1>3, <2>2, TotalDiffers
  <2>. QED
    BY <2>3, <2>4, <2>5, <2>6
<1>. QED
  BY <1>4

\* AddItem gives as much of the item as does not remain.
LEMMA AddTotal ==
  ASSUME NEW s, IsInventory(s), NEW item \in Items, NEW count \in Nat, NEW r, r = AddItem(s, item, count)
  PROVE  /\ r.remain \in 0 .. count
         /\ Total(r.slots, item) = Total(s, item) + (count - r.remain)
         /\ \A i \in Items \ {item} : Total(r.slots, i) = Total(s, i)
<1>1. Conserves(s, item, count, r) /\ r.remain \in 0 .. count
  BY InventoryFacts, AddItemKeeps, AddSound DEF LoopInv
<1>2. Total(s, item) \in Int /\ Total(r.slots, item) \in Int
  BY AddSound, InventoryFacts, TotalType
<1>. QED
  BY <1>1, <1>2 DEF Conserves

\* Only a pickup gives a player something.
LEMMA ReceivedByPickup ==
  ASSUME SlotsInv, [Next]_vars, NEW p \in Players, NEW item \in Items, Received(p, item)
  PROVE  \E d \in DOMAIN drops : PickupDropItem(p, d) /\ drops[d].item = item
<1>1. /\ DOMAIN slots = Players /\ \A q \in Players : IsInventory(slots[q])
      /\ online \in [Players -> BOOLEAN] /\ IsMap(drops, 0 .. dropId - 1, Drops)
  BY DEF SlotsInv, TypeParts
<1>2. /\ slots'[p] # slots[p] /\ online[p] /\ online'[p] /\ p \notin reloaded'
      /\ Total(slots'[p], item) > Total(slots[p], item)
  BY DEF Received
<1>3. Total(slots[p], item) \in Int
  BY <1>1, InventoryFacts, TotalType
<1>4. ASSUME NEW q \in Players, Login(q) \/ Logout(q) PROVE FALSE
  BY <1>1, <1>2, <1>4 DEF Login, Logout
<1>5. ASSUME NEW q \in Players, NEW d \in DOMAIN drops, PickupDropItem(q, d)
      PROVE  q = p /\ drops[d].item = item
  <2>. DEFINE r == AddItem(slots[q], drops[d].item, drops[d].count)
  <2>1. slots' = [slots EXCEPT ![q] = r.slots]
    BY <1>5 DEF PickupDropItem
  <2>2. drops[d].item \in Items /\ drops[d].count \in Nat
    BY <1>1, InventoryAssumption DEF IsMap, Drops
  <2>3. \A i \in Items \ {drops[d].item} : Total(r.slots, i) = Total(slots[q], i)
    BY <1>1, <2>2, AddTotal
  <2>. HIDE DEF r
  <2>4. q = p
    BY <1>1, <1>2, <2>1
  <2>5. Total(slots'[p], item) # Total(slots[p], item)
    BY <1>2, <1>3
  <2>. QED
    BY <1>1, <2>1, <2>3, <2>4, <2>5
<1>6. ASSUME NEW q \in Players, NEW pos \in DOMAIN slots[q], NEW count \in 1 .. slots[q][pos].count,
             UseItem(q, pos, count)
      PROVE  FALSE
  <2>. DEFINE t == RemoveItemBySlot(slots[q], pos, count)
  <2>1. slots' = [slots EXCEPT ![q] = t] /\ slots[q][pos].item \in Items
    BY <1>6, InventoryAssumption DEF UseItem
  <2>2. q = p
    BY <1>1, <1>2, <2>1
  <2>3. slots[q][pos].count \in Int
    BY <1>1, InventoryFacts DEF Slots
  <2>4. Total(t, item) = Total(slots[p], item) \/ Total(t, item) = Total(slots[p], item) - count
    BY <1>1, <2>1, <2>2, RemoveTotal
  <2>. HIDE DEF t
  <2>5. slots'[p] = t
    BY <1>1, <2>1, <2>2
  <2>. QED
    BY <1>2, <1>3, <2>3, <2>4, <2>5
<1>7. ASSUME NEW q \in Players, NEW from \in DOMAIN slots[q], NEW to \in DOMAIN slots[q], MoveItem(q, from, to)
      PROVE  FALSE
  <2>. DEFINE t == MoveItemSlot(slots[q], from, to)
  <2>1. slots' = [slots EXCEPT ![q] = t] /\ CanMove(slots[q], from, to)
    BY <1>7 DEF MoveItem
  <2>2. Total(t, item) = Total(slots[q], item)
    BY <1>1, <2>1, MoveTotal
  <2>. HIDE DEF t
  <2>3. q = p
    BY <1>1, <1>2, <2>1
  <2>. QED
    BY <1>1, <1>2, <1>3, <2>1, <2>2, <2>3
<1>8. ASSUME NEW q \in Players, SpawnDropItem(q) \/ \E d \in DOMAIN drops : OwnerIsGone(q, d) PROVE FALSE
  BY <1>2, <1>8 DEF SpawnDropItem, OwnerIsGone
<1>9. ASSUME NEW q \in Players, NEW target \in Players, Reload(q, target) PROVE FALSE
  <2>1. p # q /\ p # target
    BY <1>2, <1>9 DEF Reload
  <2>2. slots'[p] = slots[p]
    BY <1>1, <1>9, <2>1 DEF Reload
  <2>. QED
    BY <1>2, <2>2
<1>10. CASE UseItemOfNothing \/ UNCHANGED vars
  BY <1>2, <1>10 DEF UseItemOfNothing, vars
<1>. QED
  BY <1>4, <1>5, <1>6, <1>7, <1>8, <1>9, <1>10 DEF Next

\* A pickup, as FillsInOrder and FailsOnlyWhenFull see it.
LEMMA PickupAdds ==
  ASSUME SlotsInv, NEW p \in Players, NEW d \in DOMAIN drops, PickupDropItem(p, d)
  PROVE  \E r : /\ LoopInv(slots[p], drops[d].item, drops[d].count, 2 * MaxSlot, r)
                /\ slots'[p] = r.slots /\ DOMAIN r.slots = DOMAIN slots[p]
                /\ r.remain \in 0 .. drops[d].count
                /\ refused' = IF r.remain = 0 THEN {} ELSE {<<p, drops[d].item>>}
<1>. DEFINE r == AddItem(slots[p], drops[d].item, drops[d].count)
<1>1. /\ DOMAIN slots = Players /\ IsInventory(slots[p])
      /\ drops[d].item \in Items /\ drops[d].count \in Nat
  BY InventoryAssumption DEF SlotsInv, TypeParts, IsMap, Drops
<1>2. LoopInv(slots[p], drops[d].item, drops[d].count, 2 * MaxSlot, r)
  BY <1>1, InventoryFacts, AddItemKeeps
<1>3. DOMAIN r.slots = DOMAIN slots[p] /\ r.remain \in 0 .. drops[d].count
  BY <1>1, AddSound
<1>4. /\ slots' = [slots EXCEPT ![p] = r.slots]
      /\ refused' = IF r.remain = 0 THEN {} ELSE {<<p, drops[d].item>>}
  BY DEF PickupDropItem
<1>. HIDE DEF r
<1>5. slots'[p] = r.slots
  BY <1>1, <1>4
<1>. QED
  BY <1>2, <1>3, <1>4, <1>5

NoRoomFor(s, item) == \A pos \in DOMAIN s : ~HasRoom(s, item, pos)

\* When a pickup is refused, no position has room.
LEMMA RefusedIsFull ==
  ASSUME SlotsInv, NEW p \in Players, NEW d \in DOMAIN drops, PickupDropItem(p, d), refused' # {}
  PROVE  refused' = {<<p, drops[d].item>>} /\ NoRoomFor(slots'[p], drops[d].item)
<1>. DEFINE item == drops[d].item
<1>1. PICK r : /\ LoopInv(slots[p], item, drops[d].count, 2 * MaxSlot, r)
               /\ slots'[p] = r.slots /\ DOMAIN r.slots = DOMAIN slots[p]
               /\ r.remain \in 0 .. drops[d].count
               /\ refused' = IF r.remain = 0 THEN {} ELSE {<<p, item>>}
  BY PickupAdds
<1>2. r.remain > 0 /\ FullBefore(item, 2 * MaxSlot, r)
  <2>1. r.remain \in Nat /\ r.remain # 0
    BY <1>1, FillingFacts DEF LoopInv
  <2>. QED
    BY <1>1, <2>1 DEF LoopInv
<1>3. ASSUME NEW pos \in DOMAIN slots[p] PROVE ~HasRoom(r.slots, item, pos)
  <2>1. pos \in Nat /\ MaxSlot \in Nat
    BY InventoryFacts, InventoryAssumption DEF SlotsInv, TypeParts
  <2>2. CASE pos < MaxSlot
    <3>1. pos < 2 * MaxSlot /\ pos < 2 * MaxSlot - MaxSlot
      BY <2>1, <2>2
    <3>2. ~StackRoom(r.slots, item, pos) /\ ~EmptyRoom(r.slots, item, pos)
      BY <1>1, <1>2, <1>3, <3>1 DEF FullBefore
    <3>. QED
      BY <3>2 DEF StackRoom, EmptyRoom, HasRoom
  <2>3. CASE ~ (pos < MaxSlot)
    BY <2>3 DEF HasRoom
  <2>. QED
    BY <2>2, <2>3
<1>. QED
  BY <1>1, <1>2, <1>3 DEF NoRoomFor

\* A pickup fills the stacks in the order of their positions, then the empty slots in the
\* order of theirs, and no empty slot while a stack has room: for any inventory.
THEOREM OrderCorrect == Spec => FillsInOrder
<1>1. ASSUME SlotsInv, [Next]_vars, NEW p \in Players, NEW item \in Items, Received(p, item),
             NEW pos \in DOMAIN slots[p], NEW q \in DOMAIN slots[p],
             slots'[p][pos] # slots[p][pos], HasRoom(slots'[p], item, q)
      PROVE  /\ slots[p][q].item = slots[p][pos].item => q >= pos
             /\ slots[p][pos].item = NoItem => slots[p][q].item # item
  <2>1. PICK d \in DOMAIN drops : PickupDropItem(p, d) /\ drops[d].item = item
    BY <1>1, ReceivedByPickup
  <2>2. PICK r : LoopInv(slots[p], item, drops[d].count, 2 * MaxSlot, r) /\ slots'[p] = r.slots
    BY <1>1, <2>1, PickupAdds
  <2>3. InOrder(slots[p], item, r)
    BY <2>2 DEF LoopInv
  <2>4. ~ (slots[p][q].item = slots[p][pos].item /\ q < pos)
    BY <1>1, <2>2, <2>3 DEF InOrder
  <2>5. ~ (slots[p][pos].item = NoItem /\ slots[p][q].item = item)
    BY <1>1, <2>2, <2>3 DEF InOrder
  <2>6. pos \in Nat /\ q \in Nat
    BY <1>1, InventoryFacts, InventoryAssumption DEF SlotsInv, TypeParts
  <2>. QED
    BY <2>4, <2>5, <2>6
<1>2. SlotsInv /\ [Next]_vars => [\A p \in Players, item \in Items : Received(p, item) =>
       \A pos, q \in DOMAIN slots[p] :
         /\ slots'[p][pos] # slots[p][pos]
         /\ HasRoom(slots'[p], item, q)
         => /\ slots[p][q].item = slots[p][pos].item => q >= pos
            /\ slots[p][pos].item = NoItem => slots[p][q].item # item]_vars
  BY <1>1
<1>. QED
  BY <1>2, SlotsInvariant, PTL DEF Spec, FillsInOrder

\* A refusal is of the last pickup, and until something else happens no position gets room.
LEMMA FailsNext == SlotsInv /\ FailsOnlyWhenFull /\ [Next]_vars => FailsOnlyWhenFull'
<1>. SUFFICES ASSUME SlotsInv, FailsOnlyWhenFull, [Next]_vars PROVE FailsOnlyWhenFull'
  OBVIOUS
<1>1. refused' = {} => FailsOnlyWhenFull'
  BY DEF FailsOnlyWhenFull
<1>2. UNCHANGED <<slots, refused>> => FailsOnlyWhenFull'
  BY DEF FailsOnlyWhenFull
<1>3. ASSUME NEW p \in Players, NEW d \in DOMAIN drops, PickupDropItem(p, d), refused' # {}
      PROVE  FailsOnlyWhenFull'
  BY <1>3, RefusedIsFull DEF FailsOnlyWhenFull, NoRoomFor
<1>4. ASSUME NEW p \in Players,
             \/ Login(p) \/ Logout(p) \/ SpawnDropItem(p)
             \/ \E target \in Players : Reload(p, target)
             \/ \E pos \in DOMAIN slots[p] :
                  \/ \E count \in 1 .. slots[p][pos].count : UseItem(p, pos, count)
                  \/ \E to \in DOMAIN slots[p] : MoveItem(p, pos, to)
      PROVE  refused' = {}
  BY <1>4 DEF Login, Logout, SpawnDropItem, Reload, UseItem, MoveItem, Quiet
<1>5. ASSUME \/ UseItemOfNothing \/ UNCHANGED vars
             \/ \E p \in Players, d \in DOMAIN drops : OwnerIsGone(p, d)
      PROVE  UNCHANGED <<slots, refused>>
  BY <1>5 DEF UseItemOfNothing, OwnerIsGone, vars
<1>. QED
  BY <1>1, <1>2, <1>3, <1>4, <1>5 DEF Next

\* A pickup that is refused, having put a part somewhere or nothing at all, leaves no stack
\* and no slot with room in it, in any inventory, with positions that are gone or not enabled too.
THEOREM FailsCorrect == Spec => []FailsOnlyWhenFull
<1>1. Init => FailsOnlyWhenFull
  BY DEF Init, FailsOnlyWhenFull
<1>. QED
  BY <1>1, FailsNext, SlotsInvariant, PTL DEF Spec

-----------------------------------------------------------------------------
(* The inventories and the drops implement ItemBag                         *)

Held == [p \in Players |-> BagOf(slots[p])]

\* New slots of one player are a new bag of that player.
LEMMA HeldNext ==
  ASSUME DOMAIN slots = Players, NEW p \in Players, NEW t, slots' = [slots EXCEPT ![p] = t]
  PROVE  Held' = [Held EXCEPT ![p] = BagOf(t)]
<1>1. \A q \in Players : slots'[q] = IF q = p THEN t ELSE slots[q]
  OBVIOUS
<1>2. Held' = [q \in Players |-> IF q = p THEN BagOf(t) ELSE BagOf(slots[q])]
  BY <1>1 DEF Held
<1>. QED
  BY <1>2 DEF Held

\* A bag that differs in one item.
SameElsewhere(s, t, item) == \A i \in Items \ {item} : Total(t, i) = Total(s, i)

\* Inventories that hold the same of every other item are bags that differ in one item.
LEMMA BagDiffers ==
  ASSUME NEW s, NEW t, NEW item \in Items, SameElsewhere(s, t, item)
  PROVE  BagOf(t) = [BagOf(s) EXCEPT ![item] = Total(t, item)]
BY DEF BagOf, SameElsewhere

\* An inventory without slots is an empty bag.
LEMMA BagEmpty == BagOf(<<>>) = Bags!Nothing
BY TotalEmpty DEF BagOf, Bags!Nothing

\* Nobody holds anything and nothing lies on the ground.
LEMMA BagInit == Init => Bags!Init
<1>. SUFFICES ASSUME Init PROVE Bags!Init
  OBVIOUS
<1>1. slots = [p \in Players |-> <<>>] /\ drops = <<>> /\ reloaded = {}
  BY DEF Init
<1>2. \A p \in Players : BagOf(slots[p]) = Bags!Nothing
  BY <1>1, BagEmpty
<1>. QED
  BY <1>1, <1>2 DEF Bags!Init

\* A step that leaves the drops alone, and what everybody holds.
LEMMA SameBags ==
  ASSUME Held' = Held, drops' = drops
  PROVE  Bags!Idle
BY DEF Held, Bags!Idle

\* A log-in is Enter: the bag is one that the rows of the player make, or some of them.
LEMMA LoginEnters ==
  ASSUME SlotsInv, NEW p \in Players, Login(p)
  PROVE  Bags!Enter(p)
<1>1. PICK s \in LoadedSlots(p) : slots' = [slots EXCEPT ![p] = s]
  BY DEF Login
<1>2. DOMAIN slots = Players /\ slots[p] = <<>> /\ drops' = drops
  BY DEF SlotsInv, TypeParts, Login
<1>3. Held' = [Held EXCEPT ![p] = BagOf(s)]
  BY <1>1, <1>2, HeldNext
<1>4. BagOf(s) \in LoadedBags[p]
  BY DEF LoadedBags
<1>5. Held[p] = Bags!Nothing
  BY <1>2, BagEmpty DEF Held
<1>. QED
  BY <1>2, <1>3, <1>4, <1>5 DEF Bags!Enter, Held

\* A log-out is Leave.
LEMMA LogoutLeaves ==
  ASSUME SlotsInv, NEW p \in Players, Logout(p)
  PROVE  Bags!Leave(p)
<1>1. DOMAIN slots = Players /\ slots' = [slots EXCEPT ![p] = <<>>]
  BY DEF SlotsInv, TypeParts, Logout
<1>2. Held' = [Held EXCEPT ![p] = Bags!Nothing]
  BY <1>1, HeldNext, BagEmpty
<1>3. drops' = [d \in DOMAIN drops |-> [drops[d] EXCEPT !.owner = IF @ = p THEN Freed ELSE @]]
  BY DEF Logout
<1>. QED
  BY <1>2, <1>3 DEF Bags!Leave, Held

\* Two bags are counted anew when rows are laid over two inventories.
LEMMA ReloadReloads ==
  ASSUME SlotsInv, NEW p \in Players, NEW target \in Players, Reload(p, target)
  PROVE  Bags!Reload(p, target)
<1>1. DOMAIN slots = Players /\ DOMAIN slots' = Players /\ drops' = drops /\ reloaded' = {p, target}
  BY DEF SlotsInv, TypeParts, Reload
<1>2. \A q \in Players \ {p, target} : slots'[q] = slots[q]
  BY <1>1 DEF Reload
<1>3. Held' = [Held EXCEPT ![p] = Held'[p], ![target] = Held'[target]]
  BY <1>2 DEF Held
<1>. QED
  BY <1>1, <1>3 DEF Bags!Reload, Held

\* A drop that a monster leaves is Spawn.
LEMMA SpawnSpawns ==
  ASSUME SlotsInv, NEW p \in Players, SpawnDropItem(p)
  PROVE  \E d \in 0 .. MaxDrops - 1 : Bags!Spawn(p, d)
<1>1. /\ dropId \in 0 .. MaxDrops - 1 /\ dropId \notin DOMAIN drops
  BY InventoryAssumption DEF SlotsInv, TypeParts, IsMap, SpawnDropItem
<1>2. Held' = Held
  BY DEF Held, SpawnDropItem
<1>3. Bags!Spawn(p, dropId)
  BY <1>1, <1>2 DEF Bags!Spawn, SpawnDropItem, Held
<1>. QED
  BY <1>1, <1>3

\* A pickup takes all of the drop, or keeps a part and leaves the whole, or is nothing.
LEMMA PickupTakes ==
  ASSUME SlotsInv, NEW p \in Players, NEW d \in DOMAIN drops, PickupDropItem(p, d)
  PROVE  Bags!Take(p, d) \/ Bags!TakePart(p, d) \/ Bags!Idle
<1>. DEFINE item == drops[d].item
            count == drops[d].count
            r == AddItem(slots[p], item, count)
<1>1. DOMAIN slots = Players /\ IsInventory(slots[p]) /\ item \in Items /\ count \in Nat
  BY InventoryAssumption DEF SlotsInv, TypeParts, IsMap, Drops
<1>2. slots' = [slots EXCEPT ![p] = r.slots] /\ drops[d].owner = p
  BY DEF PickupDropItem, MayTake
<1>3. IF r.remain = 0 THEN drops' = [e \in DOMAIN drops \ {d} |-> drops[e]] ELSE drops' = drops
  BY DEF PickupDropItem
<1>. HIDE DEF item, count
<1>4. /\ r.remain \in 0 .. count
      /\ Total(r.slots, item) = Total(slots[p], item) + (count - r.remain)
      /\ \A i \in Items \ {item} : Total(r.slots, i) = Total(slots[p], i)
  BY <1>1, AddTotal
<1>. HIDE DEF r
<1>5. Held' = [Held EXCEPT ![p] = BagOf(r.slots)]
  BY <1>1, <1>2, HeldNext
<1>6. Held' = [Held EXCEPT ![p][item] = @ + (count - r.remain)]
  <2>1. BagOf(r.slots) = [BagOf(slots[p]) EXCEPT ![item] = Total(slots[p], item) + (count - r.remain)]
    <3>1. SameElsewhere(slots[p], r.slots, item)
      BY <1>4 DEF SameElsewhere
    <3>. QED
      BY <1>1, <1>4, <3>1, BagDiffers
  <2>2. Held[p] = BagOf(slots[p]) /\ BagOf(slots[p])[item] = Total(slots[p], item)
    BY <1>1 DEF Held, BagOf
  <2>. QED
    BY <1>5, <2>1, <2>2
<1>7. CASE r.remain = 0
  <2>1. count - r.remain = count
    BY <1>1, <1>7
  <2>2. Held' = [Held EXCEPT ![p][item] = @ + count]
    BY <1>6, <2>1
  <2>. QED
    BY <1>2, <1>3, <1>7, <2>2 DEF Bags!Take, Bags!Gain, Held, item, count
<1>8. CASE r.remain \in 1 .. count - 1
  <2>1. count - r.remain \in 1 .. count - 1 /\ drops' = drops
    BY <1>1, <1>3, <1>8
  <2>. QED
    BY <1>2, <1>6, <2>1 DEF Bags!TakePart, Bags!Gain, Held, item, count
<1>9. CASE r.remain = count /\ r.remain # 0
  <2>1. \A i \in Items : Total(r.slots, i) = Total(slots[p], i)
    <3>1. Total(slots[p], item) \in Int
      BY <1>1, InventoryFacts, TotalType
    <3>2. Total(r.slots, item) = Total(slots[p], item)
      BY <1>1, <1>4, <1>9, <3>1
    <3>. QED
      BY <1>4, <3>2
  <2>2. BagOf(r.slots) = BagOf(slots[p])
    BY <2>1 DEF BagOf
  <2>3. Held' = Held
    BY <1>5, <2>2 DEF Held
  <2>. QED
    BY <1>3, <1>9, <2>3, SameBags
<1>. QED
  BY <1>1, <1>4, <1>7, <1>8, <1>9

\* A use takes from the bag what it takes from the slot.
LEMMA UseUses ==
  ASSUME SlotsInv, NEW p \in Players, NEW pos \in DOMAIN slots[p], NEW count \in 1 .. slots[p][pos].count,
         UseItem(p, pos, count)
  PROVE  Bags!Use(p)
<1>. DEFINE s == slots[p]
            item == s[pos].item
            t == RemoveItemBySlot(s, pos, count)
<1>1. DOMAIN slots = Players /\ IsInventory(s)
  BY DEF SlotsInv, TypeParts
<1>2. item \in Items /\ slots' = [slots EXCEPT ![p] = t] /\ drops' = drops
  BY InventoryAssumption DEF UseItem
<1>3. /\ Total(t, item) = Total(s, item) - count
      /\ \A i \in Items \ {item} : Total(t, i) = Total(s, i)
  BY <1>1, <1>2, RemoveTotal
<1>4. Held' = [Held EXCEPT ![p] = BagOf(t)]
  BY <1>1, <1>2, HeldNext
<1>5. Held[p] = BagOf(s) /\ BagOf(s)[item] = Total(s, item)
  BY <1>2 DEF Held, BagOf
<1>6. Total(s, item) \in Int /\ Total(t, item) \in Int
  BY <1>1, <1>2, InventoryFacts, RemoveSound, TotalType
<1>. HIDE DEF s, item, t
<1>7. Held' = [Held EXCEPT ![p][item] = Total(t, item)]
  <2>1. BagOf(t) = [BagOf(s) EXCEPT ![item] = Total(t, item)]
    <3>1. SameElsewhere(s, t, item)
      BY <1>3 DEF SameElsewhere
    <3>. QED
      BY <1>2, <3>1, BagDiffers
  <2>. QED
    BY <1>4, <1>5, <2>1
<1>8. Held'[p][item] = Total(t, item)
  <2>1. Held'[p] = BagOf(t)
    BY <1>4 DEF Held
  <2>. QED
    BY <1>2, <2>1 DEF BagOf
<1>9. Held'[p][item] < Held[p][item]
  BY <1>3, <1>5, <1>6, <1>8
<1>. QED
  BY <1>2, <1>7, <1>8, <1>9 DEF Bags!Use, Held

\* A move is not seen in a bag.
LEMMA MoveStutters ==
  ASSUME SlotsInv, NEW p \in Players, NEW from, NEW to, MoveItem(p, from, to)
  PROVE  Bags!Idle
<1>. DEFINE t == MoveItemSlot(slots[p], from, to)
<1>1. DOMAIN slots = Players /\ IsInventory(slots[p])
  BY DEF SlotsInv, TypeParts
<1>2. slots' = [slots EXCEPT ![p] = t] /\ drops' = drops /\ CanMove(slots[p], from, to)
  BY DEF MoveItem
<1>3. BagOf(t) = BagOf(slots[p])
  BY <1>1, <1>2, MoveTotal DEF BagOf
<1>. HIDE DEF t
<1>4. Held' = Held
  BY <1>1, <1>2, <1>3, HeldNext DEF Held
<1>. QED
  BY <1>2, <1>4, SameBags

\* The slots, their order and the messages are details: a player enters, leaves, kills,
\* takes a drop that is his, whole or in part, and uses, and does nothing else to bags; what the
\* rows of a trade make of two of them is left open.
THEOREM ImplementsBags == Spec => ImplementsItemBag
<1>1. Init => Bags!Init
  BY BagInit
<1>2. SlotsInv /\ [Next]_vars => [Bags!Next]_(Bags!bagVars)
  <2>. SUFFICES ASSUME SlotsInv, [Next]_vars PROVE [Bags!Next]_(Bags!bagVars)
    OBVIOUS
  <2>1. ASSUME NEW p \in Players, Login(p) PROVE Bags!Next
    BY <2>1, LoginEnters DEF Bags!Next, Login, Quiet
  <2>2. ASSUME NEW p \in Players, Logout(p) PROVE Bags!Next
    BY <2>2, LogoutLeaves DEF Bags!Next, Logout, Quiet
  <2>3. ASSUME NEW p \in Players, SpawnDropItem(p) PROVE Bags!Next
    BY <2>3, SpawnSpawns DEF Bags!Next, SpawnDropItem, Quiet
  <2>4. ASSUME NEW p \in Players, NEW d \in DOMAIN drops, PickupDropItem(p, d) PROVE Bags!Next
    BY <2>4, PickupTakes DEF Bags!Next, PickupDropItem
  <2>5. ASSUME NEW p \in Players, NEW pos \in DOMAIN slots[p], NEW count \in 1 .. slots[p][pos].count,
               UseItem(p, pos, count)
        PROVE  Bags!Next
    BY <2>5, UseUses DEF Bags!Next, UseItem, Quiet
  <2>6. ASSUME NEW p \in Players, NEW from \in DOMAIN slots[p], NEW to \in DOMAIN slots[p],
               MoveItem(p, from, to)
        PROVE  Bags!Next
    BY <2>6, MoveStutters DEF Bags!Next, MoveItem, Quiet
  <2>7. ASSUME NEW p \in Players, NEW target \in Players, Reload(p, target) PROVE Bags!Next
    BY <2>7, ReloadReloads DEF Bags!Next
  <2>8. ASSUME \/ UseItemOfNothing \/ UNCHANGED vars
               \/ \E p \in Players, d \in DOMAIN drops : OwnerIsGone(p, d)
        PROVE  UNCHANGED Bags!bagVars
    BY <2>8 DEF UseItemOfNothing, OwnerIsGone, vars, Bags!bagVars
  <2>. QED
    BY <2>1, <2>2, <2>3, <2>4, <2>5, <2>6, <2>7, <2>8 DEF Next
<1>. QED
  BY <1>1, <1>2, SlotsInvariant, PTL DEF Spec, ImplementsItemBag, Bags!Spec
=============================================================================
