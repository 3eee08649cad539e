---------------------------- MODULE FmtMemoryBuffer ----------------------------
(***************************************************************************)
(* basic_memory_buffer: the first SIZE elements live in the object, more   *)
(* live in a block of the heap, and a move hands the block over.  The      *)
(* buffers are those of one program, each alive from its constructor to    *)
(* its destructor.                                                         *)
(***************************************************************************)
EXTENDS Integers, FiniteSets

CONSTANTS
  Buffers,   \* the objects
  Blocks,    \* the blocks malloc can return
  SIZE,      \* inline elements
  MaxAlloc,  \* the allocator's max_size
  MaxAsked   \* bound on the size asked for

Store == "store_"

MemoryAssumption ==
  /\ SIZE \in Nat \ {0} /\ MaxAlloc \in Nat /\ MaxAsked \in 0 .. MaxAlloc
  /\ Store \notin Blocks
ASSUME MemoryConstants == MemoryAssumption

VARIABLES
  ptr, size, capacity,  \* of each live buffer; ptr is Store or a block
  heap                  \* the blocks not yet freed, with their sizes

memoryVars == <<ptr, size, capacity, heap>>
Alive == DOMAIN ptr
live  == DOMAIN heap

Put(f, x, v) == [y \in DOMAIN f \cup {x} |-> IF y = x THEN v ELSE f[y]]
Drop(f, x)   == [y \in DOMAIN f \ {x} |-> f[y]]
Freed(p)     == Drop(heap, p)   \* p is Store when there is nothing to free
MaxOf(x, y)  == IF x >= y THEN x ELSE y
------------------------------------------------------------------------------
Empty == [x \in {} |-> 0]
MemoryInit == ptr = Empty /\ size = Empty /\ capacity = Empty /\ heap = Empty

Construct(x) ==
  /\ x \in Buffers \ Alive
  /\ ptr' = Put(ptr, x, Store) /\ size' = Put(size, x, 0)
  /\ capacity' = Put(capacity, x, SIZE) /\ UNCHANGED heap

(* grow: half as much again, or what is asked for, or all there can be.    *)
NewCapacity(x, wanted) ==
  LET more == capacity[x] + capacity[x] \div 2 IN
  IF wanted > more THEN wanted
  ELSE IF more > MaxAlloc THEN MaxOf(wanted, MaxAlloc) ELSE more

(* Mutant: the old block is not freed.                                     *)
GrowMemoryKeepsOld(x, wanted, p) ==
  /\ p \in Blocks \ live
  /\ ptr' = [ptr EXCEPT ![x] = p]
  /\ capacity' = [capacity EXCEPT ![x] = NewCapacity(x, wanted)]
  /\ heap' = Put(heap, p, NewCapacity(x, wanted))

GrowMemory(x, wanted, p) ==
  /\ p \in Blocks \ live
  /\ ptr' = [ptr EXCEPT ![x] = p]
  /\ capacity' = [capacity EXCEPT ![x] = NewCapacity(x, wanted)]
  /\ heap' = Put(Freed(ptr[x]), p, NewCapacity(x, wanted))

(* try_reserve, as far as it succeeds.                                     *)
TryReserveMemory(x, n) ==
  \/ n <= capacity[x] /\ UNCHANGED <<ptr, capacity, heap>>
  \/ n > capacity[x] /\ \E p \in Blocks : GrowMemory(x, n, p)

AppendMemory(x, n) ==
  /\ x \in Alive /\ size[x] + n <= MaxAsked
  /\ TryReserveMemory(x, size[x] + n) /\ size' = [size EXCEPT ![x] = @ + n]
Resize(x, n)  == x \in Alive /\ TryReserveMemory(x, n) /\ size' = [size EXCEPT ![x] = n]
Reserve(x, n) == x \in Alive /\ TryReserveMemory(x, n) /\ UNCHANGED size
Clear(x) ==
  x \in Alive /\ size' = [size EXCEPT ![x] = 0] /\ UNCHANGED <<ptr, capacity, heap>>

(* malloc fails: bad_alloc, thrown before grow changes anything.           *)
AllocationFails(x, n) == x \in Alive /\ n > capacity[x] /\ UNCHANGED memoryVars

(* Mutant: the emptied buffer claims its inline capacity plus the block's. *)
MoveKeepsCapacity(x, y) ==
  /\ size' = [Put(size, x, size[y]) EXCEPT ![y] = IF ptr[y] = Store THEN @ ELSE 0]
  /\ capacity' = Put(capacity, x, capacity[y])
  /\ ptr' = [Put(ptr, x, ptr[y]) EXCEPT ![y] = Store]

(* move(y) into x, whose own block is gone: the inline elements are copied *)
(* and y keeps its size; a block changes hands and leaves y without room.  *)
Move(x, y) ==
  LET inline == ptr[y] = Store IN
  /\ size' = [Put(size, x, size[y]) EXCEPT ![y] = IF inline THEN @ ELSE 0]
  /\ capacity' = [Put(capacity, x, capacity[y]) EXCEPT ![y] = IF inline THEN @ ELSE 0]
  /\ ptr' = [Put(ptr, x, ptr[y]) EXCEPT ![y] = Store]

MoveConstruct(x, y) ==
  x \in Buffers \ Alive /\ y \in Alive /\ Move(x, y) /\ UNCHANGED heap
MoveAssign(x, y) ==
  x \in Alive /\ y \in Alive \ {x} /\ heap' = Freed(ptr[x]) /\ Move(x, y)

Destroy(x) ==
  /\ x \in Alive
  /\ heap' = Freed(ptr[x]) /\ ptr' = Drop(ptr, x)
  /\ size' = Drop(size, x) /\ capacity' = Drop(capacity, x)

MemoryNext ==
  \E x \in Buffers :
    \/ Construct(x) \/ Clear(x) \/ Destroy(x)
    \/ \E n \in 0 .. MaxAsked :
         AppendMemory(x, n) \/ Resize(x, n) \/ Reserve(x, n) \/ AllocationFails(x, n)
    \/ \E y \in Buffers : MoveConstruct(x, y) \/ MoveAssign(x, y)
MemorySpec == MemoryInit /\ [][MemoryNext]_memoryVars
------------------------------------------------------------------------------
MemoryTypeOK ==
  /\ Alive \subseteq Buffers
  /\ ptr \in [Alive -> Blocks \cup {Store}]
  /\ size \in [Alive -> Nat] /\ capacity \in [Alive -> Nat]
  /\ live \subseteq Blocks /\ heap \in [live -> Nat]

(* Every block of the heap belongs to exactly one live buffer: no leak, no *)
(* block freed twice, no buffer left pointing at a freed block.  (grow,    *)
(* move, deallocate.)                                                      *)
BlocksHaveOneOwner ==
  /\ \A p \in live : \E x \in Alive : ptr[x] = p
  /\ \A x \in Alive : ptr[x] # Store => ptr[x] \in live
  /\ \A x, y \in Alive : ptr[x] = ptr[y] /\ ptr[x] # Store => x = y

(* A buffer never claims more room than it points at, nor holds more than  *)
(* it claims, also after a move has emptied it.                            *)
CapacityIsReal ==
  \A x \in Alive :
    /\ size[x] <= capacity[x]
    /\ capacity[x] <= IF ptr[x] = Store THEN SIZE ELSE heap[ptr[x]]
==============================================================================
