------------------------------- MODULE Stack -------------------------------
(***************************************************************************)
(* The pointer stack of b_stack.c, which holds the components of a path    *)
(* and the directories being walked.  Its array grows and shrinks by the   *)
(* growth factor; either realloc() may fail when memory is short.          *)
(***************************************************************************)
EXTENDS Integers

CONSTANTS
  GrowBy,                 \* arguments of b_stack_new()
  DEFAULT_GROWTH_FACTOR,  \* B_STACK_DEFAULT_GROWTH_FACTOR
  Items,                  \* what callers push
  Null, Junk,             \* NULL, and a cell nobody has written to
  SizeRange,              \* size_t holds 0..SizeRange - 1
  MaxCount                \* bound: no push once so many items are held

ASSUME StackAssumption ==
  /\ GrowBy \subseteq Nat
  /\ DEFAULT_GROWTH_FACTOR \in Nat \ {0}
  /\ MaxCount \in Nat /\ SizeRange \in Nat
  /\ \A g \in GrowBy \cup {DEFAULT_GROWTH_FACTOR} : MaxCount + g < SizeRange
  /\ Null \notin Items /\ Junk \notin Items /\ Junk # Null

VARIABLES
  growth_factor, size, count,   \* size is 0 when there is no stack
  items,       \* the array, indexed from 0
  result,      \* what the last call returned
  released,    \* what the destructor was called with, in order
  memory       \* "ample", or "short" when realloc() may fail

vars == <<growth_factor, size, count, items, result, released, memory>>

NoItems == [i \in {} |-> Null]

Init ==
  /\ growth_factor = 0 /\ size = 0 /\ count = 0
  /\ items = NoItems /\ result = Null /\ released = << >>
  /\ memory \in {"ample", "short"}

\* The first n cells of an array, as a sequence; what callers see is those in use.
Cells(array, n) == [i \in 1..n |-> array[i - 1]]
Held == Cells(items, count)

\* b_stack_new(), after which every caller sets a destructor.
New(grow_by) ==
  /\ size = 0
  /\ growth_factor' = IF grow_by > 0 THEN grow_by ELSE DEFAULT_GROWTH_FACTOR
  /\ size' = growth_factor'
  /\ items' = [i \in 0..(size' - 1) |-> Null]
  /\ released' = << >>
  /\ UNCHANGED <<count, result, memory>>

\* realloc() keeps what fits and leaves further cells unwritten.
Reallocated(array, n) ==
  [i \in 0..(n - 1) |-> IF i \in DOMAIN array THEN array[i] ELSE Junk]

-----------------------------------------------------------------------------
\* Mutant: the array is never made longer.
PushUnchecked(item) ==
  /\ size > 0 /\ count < MaxCount
  /\ items' = [Reallocated(items, size) EXCEPT ![count] = item]
  /\ count' = count + 1 /\ result' = item
  /\ UNCHANGED <<growth_factor, size, released, memory>>

Push(item) ==
  /\ size > 0 /\ count < MaxCount
  /\ size' = IF count = size THEN size + growth_factor ELSE size
  /\ items' = [Reallocated(items, size') EXCEPT ![count] = item]
  /\ count' = count + 1 /\ result' = item
  /\ UNCHANGED <<growth_factor, released, memory>>

PushFails ==
  /\ size > 0 /\ count = size /\ memory = "short"
  /\ result' = Null
  /\ UNCHANGED <<growth_factor, size, count, items, released, memory>>

\* size - growth_factor * 2 in size_t: the index whose removal leaves two
\* growth factors of room.  With a single one it wraps, far above any index.
\* Mutant: the limit is never met.
LimitNever == SizeRange
Limit == IF size < growth_factor * 2
           THEN SizeRange + size - growth_factor * 2
           ELSE size - growth_factor * 2

\* One item is gone and the array is `left': at the limit it is made shorter.
Remove(item, left) ==
  /\ count' = count - 1
  /\ \/ /\ count' # Limit
        /\ result' = item /\ items' = left /\ UNCHANGED size
     \/ /\ count' = Limit
        /\ result' = item
        /\ size' = size - growth_factor /\ items' = Reallocated(left, size')
     \/ /\ count' = Limit /\ memory = "short"
        /\ result' = Null /\ items' = left /\ UNCHANGED size
  /\ UNCHANGED <<growth_factor, released, memory>>

Pop ==
  /\ count > 0
  /\ Remove(items[count - 1], [items EXCEPT ![count - 1] = Null])

\* Mutant: the last item stays behind.
ShiftedShort ==
  [i \in DOMAIN items |->
     IF i < count - 2 THEN items[i + 1]
     ELSE IF i = count - 1 THEN Null ELSE items[i]]
Shifted ==
  [i \in DOMAIN items |->
     IF i < count - 1 THEN items[i + 1]
     ELSE IF i = count - 1 THEN Null ELSE items[i]]

Shift == count > 0 /\ Remove(items[0], Shifted)

\* pop() and shift() of an empty stack, or of none.
TakeNothing ==
  /\ count = 0 /\ result' = Null
  /\ UNCHANGED <<growth_factor, size, count, items, released, memory>>

\* item_at(); top() is item_at(count - 1).
ItemAt(index) ==
  /\ size > 0
  /\ result' = IF index >= count THEN Null ELSE items[index]
  /\ UNCHANGED <<growth_factor, size, count, items, released, memory>>

limit == count \div 2

\* reverse(): limit cells of the lower half change places with their opposites.
Reverse ==
  /\ size > 0
  /\ items' = [i \in DOMAIN items |->
                 IF i < limit \/ (i < count /\ count - 1 - i < limit)
                 THEN items[count - 1 - i] ELSE items[i]]
  /\ UNCHANGED <<growth_factor, size, count, result, released, memory>>

Destroy ==
  /\ size > 0
  /\ released' = Held
  /\ size' = 0 /\ count' = 0 /\ items' = NoItems
  /\ UNCHANGED <<growth_factor, result, memory>>

Next ==
  \/ \E g \in GrowBy : New(g)
  \/ \E item \in Items : Push(item)
  \/ PushFails
  \/ Pop \/ Shift \/ TakeNothing
  \/ \E index \in 0..MaxCount : ItemAt(index)
  \/ Reverse
  \/ Destroy

Spec == Init /\ [][Next]_vars
-----------------------------------------------------------------------------
\* The type of the state: the items held are within the array, and no cell
\* that is in use is one nobody wrote to or one that was emptied.
TypeOK ==
  /\ growth_factor \in Nat /\ size \in Nat
  /\ count \in 0..size
  /\ items \in [0..(size - 1) -> Items \cup {Null, Junk}]
  /\ \A i \in 0..(count - 1) : items[i] \in Items
  /\ memory \in {"ample", "short"}

\* The array follows the items down again: unless a realloc() failed there are
\* never two growth factors of room behind the items, although the limit is
\* compared for equality, and wraps when the array has its first size.
NoHoarding ==
  memory = "ample" => size <= growth_factor \/ size < count + 2 * growth_factor

\* The stack is an ItemList: what goes in comes out once, in order, from either
\* end, through every growth, shrinking and reversal.
List == INSTANCE ItemList WITH list <- Held
RefinesList == List!ListSpec
=============================================================================
