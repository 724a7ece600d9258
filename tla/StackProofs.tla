---------------------------- MODULE StackProofs ----------------------------
(***************************************************************************)
(* Stack keeps its items within its array, gives memory back, and          *)
(* implements ItemList, for every growth factor and every set of items.    *)
(***************************************************************************)
EXTENDS Stack, Sequences, TLAPS

\* What the growth factor leaves for the size, and for the wrapped limit.
RoomInv ==
  /\ count <= MaxCount
  /\ size > 0 => /\ growth_factor > 0 /\ growth_factor <= size
                 /\ MaxCount + growth_factor < SizeRange

IInv == TypeOK /\ RoomInv /\ NoHoarding

LEMMA InitIInv == Init => IInv
BY StackAssumption DEF Init, NoItems, IInv, TypeOK, RoomInv, NoHoarding

\* What a removal finds: room for two growth factors at the limit, and a limit
\* out of reach as long as the array has its first size.
LEMMA AtLimit ==
  ASSUME IInv, count > 0
  PROVE  /\ Limit \in Nat
         /\ count - 1 = Limit => /\ size >= growth_factor * 2
                                 /\ count - 1 = size - growth_factor * 2
BY StackAssumption DEF IInv, TypeOK, RoomInv, Limit

\* A shorter array keeps the cells that fit.
LEMMA Shortened ==
  ASSUME NEW S, NEW V, NEW n \in Nat, NEW m \in Nat, m <= n,
         NEW c \in Nat, c <= m, NEW left \in [0..(n - 1) -> S],
         \A i \in 0..(c - 1) : left[i] \in V
  PROVE  /\ Reallocated(left, m) \in [0..(m - 1) -> S]
         /\ \A i \in 0..(c - 1) : Reallocated(left, m)[i] \in V
BY DEF Reallocated

\* The sizes a removal leaves.
LEMMA RemoveSizes ==
  ASSUME IInv, count > 0, NEW item, NEW left, Remove(item, left)
  PROVE  /\ count' \in Nat /\ count' = count - 1 /\ count' <= size'
         /\ size' \in Nat /\ size' <= size
         /\ growth_factor' \in Nat /\ memory' \in {"ample", "short"}
         /\ \/ items' = left /\ size' = size
            \/ items' = Reallocated(left, size')
         /\ RoomInv' /\ NoHoarding'
PROOF
<1>1. /\ count \in Nat /\ count <= size /\ count <= MaxCount
      /\ count' = count - 1
      /\ size \in Nat /\ size > 0 /\ memory \in {"ample", "short"}
      /\ growth_factor \in Nat /\ growth_factor > 0 /\ growth_factor <= size
      /\ MaxCount + growth_factor < SizeRange
      /\ growth_factor' = growth_factor /\ memory' = memory
  BY DEF Remove, IInv, TypeOK, RoomInv
<1>2. CASE count' # Limit /\ items' = left /\ size' = size
  <2>1. size <= growth_factor \/ size < count' + 2 * growth_factor
           \/ memory # "ample"
    BY <1>1, <1>2 DEF Limit, IInv, NoHoarding
  <2>2. QED
    BY <1>1, <1>2, <2>1, StackAssumption DEF RoomInv, NoHoarding
<1>3. CASE /\ count' = Limit /\ memory = "short"
           /\ items' = left /\ size' = size
  BY <1>1, <1>3, StackAssumption DEF RoomInv, NoHoarding
<1>4. CASE /\ count' = Limit
           /\ size' = size - growth_factor /\ items' = Reallocated(left, size')
  <2>1. /\ size' \in Nat /\ size' <= size /\ size' >= growth_factor
        /\ count' \in Nat /\ count' <= size'
        /\ size' <= count' + growth_factor /\ count' <= MaxCount
    BY <1>1, <1>4, AtLimit, StackAssumption
  <2>2. size' < count' + 2 * growth_factor
    BY <1>1, <2>1
  <2>3. QED
    BY <1>1, <1>4, <2>1, <2>2 DEF RoomInv, NoHoarding
<1>5. QED
  BY <1>2, <1>3, <1>4 DEF Remove

\* A removal keeps the types, whichever item goes and wherever it stood.
LEMMA RemoveTypeOK ==
  ASSUME IInv, count > 0, NEW item \in Items, NEW left,
         left \in [0..(size - 1) -> Items \cup {Null, Junk}],
         \A i \in 0..(count - 2) : left[i] \in Items,
         Remove(item, left)
  PROVE  TypeOK'
PROOF
<1>1. /\ size \in Nat /\ 0..(count' - 1) = 0..(count - 2)
      /\ count' \in Nat /\ count' <= size' /\ size' \in Nat /\ size' <= size
  BY RemoveSizes DEF IInv, TypeOK
<1>2. count' \in 0..size'
  BY <1>1
<1>3. CASE items' = Reallocated(left, size')
  <2>1. \A i \in 0..(count' - 1) : left[i] \in Items
    BY <1>1
  <2>2. /\ Reallocated(left, size') \in [0..(size' - 1) -> Items \cup {Null, Junk}]
        /\ \A i \in 0..(count' - 1) : Reallocated(left, size')[i] \in Items
    BY <1>1, <2>1, Shortened
  <2>3. QED
    BY <1>1, <1>2, <1>3, <2>2, RemoveSizes DEF TypeOK
<1>4. CASE items' = left /\ size' = size
  <2>1. \A i \in 0..(count' - 1) : items'[i] \in Items
    <3>1. \A i \in 0..(count' - 1) : left[i] \in Items
      BY <1>1
    <3>2. QED
      BY <3>1, <1>4, Zenon
  <2>2. items' \in [0..(size' - 1) -> Items \cup {Null, Junk}]
    BY <1>4
  <2>3. QED
    BY <1>1, <1>2, <2>1, <2>2, RemoveSizes DEF TypeOK
<1>5. QED
  BY <1>3, <1>4, RemoveSizes

LEMMA PushIInv ==
  ASSUME IInv, NEW item \in Items, Push(item)
  PROVE  IInv'
PROOF
<1>1. /\ size' \in Nat /\ size' >= size /\ count < size' /\ count' = count + 1
      /\ size' = IF count = size THEN size + growth_factor ELSE size
  BY DEF Push, IInv, TypeOK, RoomInv
<1>2. items' = [i \in 0..(size' - 1) |->
                  IF i = count THEN item
                  ELSE IF i \in 0..(size - 1) THEN items[i] ELSE Junk]
  BY <1>1 DEF Push, Reallocated, IInv, TypeOK
<1>3. TypeOK'
  <2>1. items' \in [0..(size' - 1) -> Items \cup {Null, Junk}]
    BY <1>1, <1>2 DEF IInv, TypeOK
  <2>2. \A i \in 0..(count' - 1) : items'[i] \in Items
    BY <1>1, <1>2 DEF IInv, TypeOK
  <2>3. QED
    BY <1>1, <2>1, <2>2 DEF Push, IInv, TypeOK
<1>4. RoomInv' /\ NoHoarding'
  BY <1>1, StackAssumption DEF Push, IInv, TypeOK, RoomInv, NoHoarding
<1>5. QED
  BY <1>3, <1>4 DEF IInv

LEMMA StepIInv == IInv /\ [Next]_vars => IInv'
PROOF
<1> SUFFICES ASSUME IInv, [Next]_vars PROVE IInv'
  OBVIOUS
<1>1. ASSUME NEW g \in GrowBy, New(g) PROVE IInv'
  <2>1. /\ growth_factor' \in GrowBy \cup {DEFAULT_GROWTH_FACTOR}
        /\ growth_factor' \in Nat /\ growth_factor' > 0
    BY <1>1, StackAssumption DEF New
  <2>2. QED
    BY <1>1, <2>1, StackAssumption
       DEF New, IInv, TypeOK, RoomInv, NoHoarding
<1>2. ASSUME NEW item \in Items, Push(item) PROVE IInv'
  BY <1>2, PushIInv
<1>3. ASSUME Pop PROVE IInv'
  <2>1. items[count - 1] \in Items
    BY <1>3 DEF Pop, IInv, TypeOK
  <2>2. PICK left : left = [items EXCEPT ![count - 1] = Null]
    OBVIOUS
  <2>3. /\ left \in [0..(size - 1) -> Items \cup {Null, Junk}]
        /\ \A i \in 0..(count - 2) : left[i] \in Items
    BY <1>3, <2>2 DEF Pop, IInv, TypeOK
  <2>4. Remove(items[count - 1], left) /\ count > 0
    BY <1>3, <2>2 DEF Pop
  <2>5. QED
    BY <2>1, <2>3, <2>4, RemoveTypeOK, RemoveSizes DEF IInv
<1>4. ASSUME Shift PROVE IInv'
  <2>1. /\ items[0] \in Items
        /\ Shifted \in [0..(size - 1) -> Items \cup {Null, Junk}]
        /\ \A i \in 0..(count - 2) : Shifted[i] \in Items
    BY <1>4 DEF Shift, Shifted, IInv, TypeOK
  <2>2. QED
    BY <1>4, <2>1, RemoveTypeOK, RemoveSizes DEF Shift, IInv
<1>5. ASSUME Reverse PROVE IInv'
  <2>1. /\ items' \in [0..(size - 1) -> Items \cup {Null, Junk}]
        /\ \A i \in 0..(count - 1) : items'[i] \in Items
    BY <1>5 DEF Reverse, limit, IInv, TypeOK
  <2>2. QED
    BY <1>5, <2>1 DEF Reverse, IInv, TypeOK, RoomInv, NoHoarding
<1>6. ASSUME Destroy PROVE IInv'
  BY <1>6, StackAssumption
     DEF Destroy, NoItems, IInv, TypeOK, RoomInv, NoHoarding
<1>7. QED
  BY <1>1, <1>2, <1>3, <1>4, <1>5, <1>6
     DEF Next, vars, PushFails, TakeNothing, ItemAt,
         IInv, TypeOK, RoomInv, NoHoarding

\* No access leaves the array, and no emptied or unwritten cell is handed out.
THEOREM WithinArray == Spec => []TypeOK
PROOF
<1>1. IInv => TypeOK
  BY DEF IInv
<1>2. QED
  BY <1>1, InitIInv, StepIInv, PTL DEF Spec

\* The comparison for equality never misses the limit, unless realloc() failed.
THEOREM NoHoardingHolds == Spec => []NoHoarding
PROOF
<1>1. IInv => NoHoarding
  BY DEF IInv
<1>2. QED
  BY <1>1, InitIInv, StepIInv, PTL DEF Spec

-----------------------------------------------------------------------------
\* What changes of the array do to the sequence it stands for.
LEMMA CellsAppend ==
  ASSUME NEW n \in Nat, NEW f, NEW g, NEW x, g[n] = x,
         \A i \in 0..(n - 1) : g[i] = f[i]
  PROVE  Cells(g, n + 1) = Append(Cells(f, n), x)
BY DEF Cells

LEMMA CellsFront ==
  ASSUME NEW n \in Nat, n > 0, NEW f, NEW g,
         \A i \in 0..(n - 2) : g[i] = f[i]
  PROVE  /\ Cells(g, n - 1) = SubSeq(Cells(f, n), 1, Len(Cells(f, n)) - 1)
         /\ Cells(f, n)[Len(Cells(f, n))] = f[n - 1]
         /\ Cells(f, n) # << >>
BY DEF Cells

LEMMA CellsTail ==
  ASSUME NEW n \in Nat, n > 0, NEW f, NEW g,
         \A i \in 0..(n - 2) : g[i] = f[i + 1]
  PROVE  /\ Cells(g, n - 1) = Tail(Cells(f, n))
         /\ Cells(f, n)[1] = f[0]
         /\ Cells(f, n) # << >>
PROOF
<1>1. Cells(f, n)[1] = f[0] /\ Cells(f, n) # << >> /\ Len(Cells(f, n)) = n
  BY DEF Cells
<1>2. Tail(Cells(f, n)) = [i \in 1..(n - 1) |-> Cells(f, n)[i + 1]]
  BY <1>1 DEF Cells
<1>3. \A i \in 1..(n - 1) : Cells(f, n)[i + 1] = g[i - 1]
  BY DEF Cells
<1>4. Cells(g, n - 1) = Tail(Cells(f, n))
  BY <1>2, <1>3 DEF Cells
<1>5. QED
  BY <1>1, <1>4

LEMMA CellsTurned ==
  ASSUME NEW n \in Nat, NEW f, NEW g,
         \A i \in 0..(n - 1) : g[i] = f[n - 1 - i]
  PROVE  Cells(g, n) =
           [i \in 1..Len(Cells(f, n)) |-> Cells(f, n)[Len(Cells(f, n)) + 1 - i]]
BY DEF Cells

ListStep == List!ListNext \/ UNCHANGED List!listVars

LEMMA CellsSame ==
  ASSUME NEW n \in Nat, NEW f, NEW g, \A i \in 0..(n - 1) : g[i] = f[i]
  PROVE  Cells(g, n) = Cells(f, n)
BY DEF Cells

LEMMA CellsReallocated ==
  ASSUME NEW n \in Nat, NEW m \in Nat, NEW k \in Nat, n <= m, n <= k,
         NEW f, DOMAIN f = 0..(k - 1)
  PROVE  Cells(Reallocated(f, m), n) = Cells(f, n)
BY DEF Cells, Reallocated

LEMMA CellsPushed ==
  ASSUME NEW n \in Nat, NEW f, n \in DOMAIN f, NEW x,
         \A i \in 0..(n - 1) : i \in DOMAIN f
  PROVE  Cells([f EXCEPT ![n] = x], n + 1) = Append(Cells(f, n), x)
PROOF
<1> DEFINE g == [f EXCEPT ![n] = x]
<1>1. g[n] = x /\ \A i \in 0..(n - 1) : g[i] = f[i]
  OBVIOUS
<1> HIDE DEF g
<1>2. Cells(g, n + 1) = Append(Cells(f, n), x)
  BY <1>1, CellsAppend
<1>3. QED
  BY <1>2 DEF g

LEMMA Within ==
  \A n, m \in Nat : n < m => n \in 0..(m - 1) /\ \A i \in 0..(n - 1) : i \in 0..(m - 1)
OBVIOUS

LEMMA PushIsAdd ==
  ASSUME IInv, NEW item \in Items, Push(item)
  PROVE  ListStep
PROOF
<1>0. /\ count' = count + 1
      /\ result' = item /\ UNCHANGED <<released, memory>>
  BY DEF Push
<1>1. /\ count \in Nat /\ size \in Nat /\ count <= size
      /\ size' \in Nat /\ size' >= size /\ size' > count
  BY DEF Push, IInv, TypeOK, RoomInv
<1>2. DOMAIN items = 0..(size - 1)
  BY DEF IInv, TypeOK
<1>3. PICK longer : longer = Reallocated(items, size')
  OBVIOUS
<1>4. Held' = Append(Held, item)
  <2>1. DOMAIN longer = 0..(size' - 1)
    BY <1>3 DEF Reallocated
  <2>2. count \in DOMAIN longer /\ \A i \in 0..(count - 1) : i \in DOMAIN longer
    <3>1. /\ count \in 0..(size' - 1)
          /\ \A i \in 0..(count - 1) : i \in 0..(size' - 1)
      BY <1>1, Within
    <3>2. QED
      BY <2>1, <3>1, Zenon
  <2>3. Cells([longer EXCEPT ![count] = item], count + 1)
          = Append(Cells(longer, count), item)
    BY <1>1, <2>2, CellsPushed
  <2>4. Cells(longer, count) = Held
    BY <1>1, <1>2, <1>3, CellsReallocated DEF Held
  <2>5. Held' = Cells([longer EXCEPT ![count] = item], count + 1)
    BY <1>3, Zenon DEF Held, Push
  <2>6. QED
    BY <2>3, <2>4, <2>5
<1>5. QED
  BY <1>0, <1>4 DEF ListStep, List!ListNext, List!Add

\* The cells that stay are moved by realloc() without a change.
LEMMA KeptByRemove ==
  ASSUME IInv, count > 0, NEW item, NEW left, DOMAIN left = 0..(size - 1),
         Remove(item, left)
  PROVE  Cells(items', count - 1) = Cells(left, count - 1)
PROOF
<1>1. /\ count \in Nat /\ size \in Nat /\ size' \in Nat
      /\ count - 1 <= size' /\ size' <= size
  BY RemoveSizes DEF IInv, TypeOK
<1>2. CASE items' = left
  BY <1>2, Zenon
<1>3. CASE items' = Reallocated(left, size')
  <2>1. Cells(Reallocated(left, size'), count - 1) = Cells(left, count - 1)
    BY <1>1, CellsReallocated
  <2>2. QED
    BY <1>3, <2>1, Zenon
<1>4. QED
  BY <1>2, <1>3, RemoveSizes

LEMMA PopIsTakeLast == ASSUME IInv, Pop PROVE ListStep
PROOF
<1> DEFINE left == [items EXCEPT ![count - 1] = Null]
<1>1. /\ count \in Nat /\ count > 0 /\ size \in Nat
      /\ DOMAIN left = 0..(size - 1) /\ Remove(items[count - 1], left)
      /\ \A i \in 0..(count - 2) : left[i] = items[i]
  BY DEF Pop, IInv, TypeOK
<1> HIDE DEF left
<1>2. /\ Cells(left, count - 1) = SubSeq(Held, 1, Len(Held) - 1)
      /\ Held[Len(Held)] = items[count - 1] /\ Held # << >>
  BY <1>1, CellsFront DEF Held
<1>3. Held' = Cells(left, count - 1)
  BY <1>1, KeptByRemove DEF Held, Remove
<1>4. /\ UNCHANGED <<released, memory>>
      /\ result' = items[count - 1] \/ (result' = Null /\ memory = "short")
  BY <1>1 DEF Remove
<1>5. QED
  BY <1>2, <1>3, <1>4
     DEF ListStep, List!ListNext, List!TakeLast, List!Lose

LEMMA ShiftIsTakeFirst == ASSUME IInv, Shift PROVE ListStep
PROOF
<1>1. /\ count \in Nat /\ count > 0 /\ size \in Nat
      /\ DOMAIN Shifted = 0..(size - 1) /\ Remove(items[0], Shifted)
      /\ \A i \in 0..(count - 2) : Shifted[i] = items[i + 1]
  BY DEF Shift, Shifted, IInv, TypeOK
<1>2. /\ Cells(Shifted, count - 1) = Tail(Held)
      /\ Held[1] = items[0] /\ Held # << >>
  BY <1>1, CellsTail DEF Held
<1>3. Held' = Cells(Shifted, count - 1)
  BY <1>1, KeptByRemove DEF Held, Remove
<1>4. /\ UNCHANGED <<released, memory>>
      /\ result' = items[0] \/ (result' = Null /\ memory = "short")
  BY <1>1 DEF Remove
<1>5. QED
  BY <1>2, <1>3, <1>4
     DEF ListStep, List!ListNext, List!TakeFirst, List!Lose

LEMMA ReverseIsTurn == ASSUME IInv, Reverse PROVE ListStep
PROOF
<1>1. \A i \in 0..(count - 1) : items'[i] = items[count - 1 - i]
  <2>1. ASSUME NEW i \in 0..(count - 1) PROVE items'[i] = items[count - 1 - i]
    <3>1. i \in DOMAIN items /\ count \in Nat
      BY DEF IInv, TypeOK
    <3>2. i < limit \/ count - 1 - i < limit \/ count - 1 - i = i
      BY <3>1 DEF limit
    <3>3. QED
      BY <3>1, <3>2 DEF Reverse
  <2>2. QED
    BY <2>1
<1>2. count \in Nat /\ UNCHANGED <<count, result, released, memory>>
  BY DEF Reverse, IInv, TypeOK
<1>3. Held' = [i \in 1..Len(Held) |-> Held[Len(Held) + 1 - i]]
  BY <1>1, <1>2, CellsTurned DEF Held
<1>4. QED
  BY <1>2, <1>3 DEF ListStep, List!ListNext, List!Turn

\* What is pushed comes out once and in order, from either end, whatever the
\* array went through: only a realloc() that fails refuses or loses an item.
THEOREM StackImplementsList == Spec => RefinesList
PROOF
<1>1. Init => List!ListInit
  BY DEF Init, List!ListInit, Held, Cells
<1>2. IInv /\ [Next]_vars => ListStep
  <2> SUFFICES ASSUME IInv, [Next]_vars PROVE ListStep
    OBVIOUS
  <2>1. ASSUME NEW g \in GrowBy, New(g) PROVE ListStep
    <3>1. count = 0 /\ UNCHANGED <<count, result, memory>> /\ released' = << >>
      BY <2>1 DEF New, IInv, TypeOK
    <3>2. Held = << >> /\ Held' = << >>
      BY <3>1 DEF Held, Cells
    <3>3. QED
      BY <3>1, <3>2 DEF ListStep, List!ListNext, List!Create
  <2>2. ASSUME PushFails PROVE ListStep
    <3>1. UNCHANGED Held
      BY <2>2 DEF PushFails, Held
    <3>2. QED
      BY <2>2, <3>1 DEF PushFails, ListStep, List!ListNext, List!Refuse
  <2>3. ASSUME TakeNothing PROVE ListStep
    <3>1. UNCHANGED Held /\ Held = << >>
      BY <2>3 DEF TakeNothing, Held, Cells
    <3>2. QED
      BY <2>3, <3>1 DEF TakeNothing, ListStep, List!ListNext, List!TakeNothing
  <2>4. ASSUME NEW index \in 0..MaxCount, ItemAt(index) PROVE ListStep
    <3>1. UNCHANGED <<Held, released, memory>>
      BY <2>4 DEF ItemAt, Held
    <3>2. count \in Nat /\ Len(Held) = count /\ DOMAIN Held = 1..count
          /\ index \in Nat
      BY StackAssumption DEF Held, Cells, IInv, TypeOK
    <3>3. CASE index < count
      <4>1. /\ index + 1 \in 1..(Len(Held) + 1) /\ index + 1 <= Len(Held)
            /\ result' = Held[index + 1]
        BY <2>4, <3>2, <3>3 DEF ItemAt, Held, Cells
      <4>2. QED
        BY <3>1, <4>1 DEF ListStep, List!ListNext, List!Look
    <3>4. CASE index >= count
      <4>1. /\ Len(Held) + 1 \in 1..(Len(Held) + 1)
            /\ ~(Len(Held) + 1 <= Len(Held)) /\ result' = Null
        BY <2>4, <3>2, <3>4 DEF ItemAt
      <4>2. QED
        BY <3>1, <4>1 DEF ListStep, List!ListNext, List!Look
    <3>5. QED
      BY <3>2, <3>3, <3>4
  <2>5. ASSUME Destroy PROVE ListStep
    <3>1. Held' = << >> /\ released' = Held /\ UNCHANGED <<result, memory>>
      BY <2>5 DEF Destroy, Held, Cells
    <3>2. QED
      BY <3>1 DEF ListStep, List!ListNext, List!Destroy
  <2>6. ASSUME UNCHANGED vars PROVE ListStep
    BY <2>6 DEF vars, ListStep, List!listVars, Held
  <2>7. QED
    BY <2>1, <2>2, <2>3, <2>4, <2>5, <2>6, PushIsAdd, PopIsTakeLast,
       ShiftIsTakeFirst, ReverseIsTurn DEF Next
<1>3. QED
  BY <1>1, <1>2, InitIInv, StepIInv, PTL
     DEF Spec, RefinesList, List!ListSpec, ListStep
=============================================================================
