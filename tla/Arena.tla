------------------------------- MODULE Arena -------------------------------
(***************************************************************************)
(* The bump allocator that every parsed message lives on, together with    *)
(* the slices that grow on it (internal/arena and internal/arena/slice).   *)
(*                                                                         *)
(* An arena owns a table of blocks indexed by the base-2 logarithm of      *)
(* their size.  It bumps Next through the newest block; when a request     *)
(* does not fit it moves to a block of at least twice the capacity.  Free  *)
(* keeps only the largest block, cleared.  A slice is a pointer, a length  *)
(* and a capacity held by the caller; growing one either extends it in     *)
(* place, by writing the arena's Next directly, or moves it.               *)
(*                                                                         *)
(* An address is a block and an offset into it.  Two blocks are never      *)
(* adjacent: each carries a trailing pointer to the arena after its data,  *)
(* so comparing (block, offset) pairs is comparing addresses.              *)
(***************************************************************************)
EXTENDS Integers, Sequences, FiniteSets

CONSTANTS
  Align,      \* arena.Align: every request is rounded up to a multiple of it
  MinLog,     \* size log of the smallest block (6 in the source)
  MaxLog,     \* bound: size log of the largest block the model hands out
  MaxBlocks,  \* bound: number of blocks the Go heap hands out
  Sizes,      \* the request sizes clients use
  Slots,      \* the slices clients hold
  Elem,       \* size of one slice element
  MaxAppend   \* bound: how many elements one Append adds

ASSUME ArenaAssumption ==
  /\ Align \in Nat \ {0} /\ MaxLog \in Nat /\ MinLog \in 0 .. MaxLog
  /\ MaxBlocks \in Nat /\ MaxAppend \in Nat
  /\ Sizes \subseteq Nat /\ Elem \in Nat \ {0}
  /\ Slots \cap {"zero", "raw"} = {}

\* The arithmetic of powers of two that the block table relies on.
ASSUME PowerAssumption ==
  /\ \A l \in 0 .. MaxLog : 2^l \in Nat \ {0}
  /\ \A k, l \in 0 .. MaxLog : k < l => 2^k < 2^l

\* Slice.Len and Cap are uint32, and Grow converts a size in bytes to one: blocks are
\* below 4 GiB, where the conversion changes nothing.
ASSUME WidthAssumption == MaxLog < 32

VARIABLES
  blocks,   \* blocks[log + 1] is the block of size 2^log, or NoBlock
  cur,      \* the block Next and End point into
  next,     \* offset of Next in cur
  end,      \* offset of End in cur
  cap,      \* Arena.Cap
  nalloc,   \* number of blocks obtained from the Go heap so far
  mem,      \* contents of every cell of every block
  slices,   \* the slice headers clients hold
  live,     \* history: regions handed out since the last Free
  panicked  \* a Go run-time panic escaped from the arena

arenaVars == <<blocks, cur, next, end, cap, nalloc>>
vars == <<arenaVars, mem, slices, live, panicked>>

NoBlock == 0
Logs == 0 .. MaxLog
Blocks == 1 .. MaxBlocks
Offsets == 0 .. 2^MaxLog
Cells == Blocks \X Offsets

\* Cell contents: zeroed memory, a client's own data, or element i of slice s.
Zero == <<"zero", 0>>
Raw == <<"raw", 0>>
ElemOf(s, i) == <<s, i>>
Values == {Zero, Raw} \cup (Slots \X Nat)

NilSlice == [blk |-> NoBlock, off |-> 0, len |-> 0, cap |-> 0]

Larger(m, n) == IF m >= n THEN m ELSE n

----------------------------------------------------------------------------
(* Sizes *)

\* suggestSizeLog: max(6, bits.Len(bytes - 1)), i.e. the smallest log whose
\* power of two holds the request.
SuggestSizeLog(bytes) ==
  CHOOSE l \in MinLog .. MaxLog :
    /\ bytes <= 2^l
    /\ \A k \in MinLog .. MaxLog : bytes <= 2^k => l <= k

\* A request the bounded model can serve.
Servable(bytes) == bytes <= 2^MaxLog

\* SuggestSize: bits.Len(uint(0) - 1) is 64 and 1 << 64 is zero in Go.
SuggestSize(bytes) == IF bytes = 0 THEN 0 ELSE 2^SuggestSizeLog(bytes)

\* sliceLayout
SliceLayout(n) == SuggestSize(Elem * n)

\* size += Align - 1; size &^= Align - 1
RoundUp(size) == ((size + Align - 1) \div Align) * Align

\* Blocks are aligned (8 divides 64 in the source).
ASSUME AlignAssumption == \A l \in MinLog .. MaxLog : RoundUp(2^l) = 2^l

----------------------------------------------------------------------------
(* The block table *)

\* allocChunk(size) for a size whose log is log: reuse the block of that size
\* if the table has one, otherwise obtain a zeroed block from the Go heap and
\* re-slice the table so that the new block is its last entry.
ReusesChunk(log) == log < Len(blocks) /\ blocks[log + 1] # NoBlock

ChunkBlock(log) == IF ReusesChunk(log) THEN blocks[log + 1] ELSE nalloc + 1

\* Mutant of ChunkTable: a new table is made for every new block.
ChunkTableFresh(log) ==
  [i \in 1 .. Larger(log + 1, Len(blocks)) |->
     IF i = log + 1 THEN ChunkBlock(log) ELSE NoBlock]

ChunkTable(log) ==
  [i \in 1 .. Larger(log + 1, Len(blocks)) |->
     IF i = log + 1 THEN ChunkBlock(log)
     ELSE IF i <= Len(blocks) THEN blocks[i] ELSE NoBlock]

\* Mutant of GrowAndTake: the capacity is not doubled.
GrowToFit(size, used) ==
  LET log == SuggestSizeLog(size)
  IN  /\ Servable(size)
      /\ ReusesChunk(log) \/ nalloc < MaxBlocks
      /\ cur' = ChunkBlock(log)
      /\ blocks' = ChunkTable(log)
      /\ nalloc' = IF ReusesChunk(log) THEN nalloc ELSE nalloc + 1
      /\ next' = used
      /\ end' = 2^log
      /\ cap' = 2^log

\* Grow(size), leaving Next used cells into the new block.
GrowAndTake(size, used) ==
  LET request == Larger(size, 2 * cap)
      log     == SuggestSizeLog(request)
  IN  /\ Servable(request)
      /\ ReusesChunk(log) \/ nalloc < MaxBlocks
      /\ cur' = ChunkBlock(log)
      /\ blocks' = ChunkTable(log)
      /\ nalloc' = IF ReusesChunk(log) THEN nalloc ELSE nalloc + 1
      /\ next' = used
      /\ end' = 2^log
      /\ cap' = 2^log

Grow(size) == GrowAndTake(size, 0)

\* Mutant of Take: Next is not moved after growing.
TakeUnbumped(size) ==
  \/ /\ next + size <= end
     /\ next' = next + size
     /\ UNCHANGED <<blocks, cur, end, cap, nalloc>>
  \/ /\ next + size > end
     /\ Grow(size)

\* The body of Alloc for an already rounded size.  The region it returns
\* starts at offset next' - size of block cur'.
Take(size) ==
  \/ /\ next + size <= end
     /\ next' = next + size
     /\ UNCHANGED <<blocks, cur, end, cap, nalloc>>
  \/ /\ next + size > end
     /\ GrowAndTake(size, size)

Region(blk, off, size) == [blk |-> blk, off |-> off, size |-> size]

\* The region a Take(size) step returns; empty requests occupy nothing.
Taken(size) == IF size = 0 THEN {} ELSE {Region(cur', next' - size, size)}

InRegion(c, blk, off, size) == c[1] = blk /\ off <= c[2] /\ c[2] < off + size

----------------------------------------------------------------------------
(* Arena operations *)

Init ==
  /\ blocks = <<>> /\ cur = NoBlock /\ next = 0 /\ end = 0 /\ cap = 0
  /\ nalloc = 0
  /\ mem = [c \in Cells |-> Zero]
  /\ slices = [s \in Slots |-> NilSlice]
  /\ live = {}
  /\ panicked = FALSE

\* Hand the region of a Take(size) step to a client, which fills it.
HandOut(size) ==
  /\ Take(size)
  /\ live' = live \cup Taken(size)
  /\ mem' = [c \in Cells |->
               IF InRegion(c, cur', next' - size, size) THEN Raw ELSE mem[c]]
  /\ UNCHANGED <<slices, panicked>>

Alloc(size) == ~panicked /\ HandOut(RoundUp(size))

\* The open-coded copy of Alloc in vm.AllocMessage, which relies on message
\* sizes being multiples of Align instead of rounding.
AllocMessage(size) == ~panicked /\ size % Align = 0 /\ HandOut(size)

Reserve(size) ==
  /\ ~panicked
  /\ next + size > end
  /\ Grow(size)
  /\ UNCHANGED <<mem, slices, live, panicked>>

\* Mutant of Free: the block that is kept is not cleared.
FreeUncleared ==
  LET last == Len(blocks)
  IN  /\ ~panicked
      /\ last > 0
      /\ blocks' = [i \in 1 .. last |-> IF i = last THEN blocks[i] ELSE NoBlock]
      /\ cur' = blocks[last]
      /\ next' = 0
      /\ end' = 2^(last - 1)
      /\ cap' = 2^(last - 1)
      /\ slices' = [s \in Slots |-> NilSlice]
      /\ live' = {}
      /\ UNCHANGED <<mem, nalloc, panicked>>

\* Free keeps and clears the last block of the table.  Clients must drop
\* every reference into the arena, so their slices become nil.
Free ==
  LET last == Len(blocks)
  IN  /\ ~panicked
      /\ last > 0
      /\ blocks' = [i \in 1 .. last |-> IF i = last THEN blocks[i] ELSE NoBlock]
      /\ mem' = [c \in Cells |->
                   IF InRegion(c, blocks[last], 0, 2^(last - 1)) THEN Zero ELSE mem[c]]
      /\ cur' = blocks[last]
      /\ next' = 0
      /\ end' = 2^(last - 1)
      /\ cap' = 2^(last - 1)
      /\ slices' = [s \in Slots |-> NilSlice]
      /\ live' = {}
      /\ UNCHANGED <<nalloc, panicked>>

\* Free of an arena that never grew slices its empty table with bound -1.
FreeEmpty ==
  /\ ~panicked
  /\ Len(blocks) = 0
  /\ panicked' = TRUE
  /\ UNCHANGED <<arenaVars, mem, slices, live>>

----------------------------------------------------------------------------
(* Slices *)

\* Store elements from .. from + n - 1 of slice s, whose data is at blk, off,
\* over the memory contents m.
StoreElems(m, s, blk, off, from, n) ==
  [c \in Cells |->
     IF InRegion(c, blk, off + from * Elem, n * Elem)
     THEN ElemOf(s, (c[2] - off) \div Elem) ELSE m[c]]

\* Of: Make(n) followed by a copy of n values.
Of(s, n) ==
  LET size == SliceLayout(n)
  IN  /\ ~panicked
      /\ slices[s].blk = NoBlock
      /\ Servable(Elem * n)
      /\ Take(RoundUp(size))
      /\ live' = live \cup Taken(RoundUp(size))
      /\ slices' = [slices EXCEPT ![s] =
                      [blk |-> cur', off |-> next' - RoundUp(size),
                       len |-> n, cap |-> size \div Elem]]
      /\ mem' = StoreElems(mem, s, cur', next' - RoundUp(size), 0, n)
      /\ UNCHANGED panicked

\* Slice.Grow on a nil slice, then the stores of Append.
AppendNew(s, n) ==
  LET size == RoundUp(SliceLayout(n))
  IN  /\ slices[s].blk = NoBlock
      /\ Servable(Elem * n)
      /\ Take(size)
      /\ live' = live \cup Taken(size)
      /\ slices' = [slices EXCEPT ![s] =
                      [blk |-> cur', off |-> next' - size,
                       len |-> n, cap |-> SliceLayout(n) \div Elem]]
      /\ mem' = StoreElems(mem, s, cur', next' - size, 0, n)

\* Append with room to spare.
AppendInPlace(s, n) ==
  LET sl == slices[s]
  IN  /\ sl.blk # NoBlock
      /\ sl.cap - sl.len >= n
      /\ slices' = [slices EXCEPT ![s].len = @ + n]
      /\ mem' = StoreElems(mem, s, sl.blk, sl.off, sl.len, n)
      /\ UNCHANGED <<arenaVars, live>>

\* Mutant of CanExtend: the slice need not be the last thing allocated.
CanExtendAnywhere(sl, oldSize, newSize) ==
  sl.blk = cur /\ sl.off + newSize <= end

\* The test of the inlined realloc: the slice is the last thing allocated and
\* the block has room for the larger slice.
CanExtend(sl, oldSize, newSize) ==
  /\ sl.blk = cur
  /\ sl.off = next - oldSize
  /\ sl.off + newSize <= end

\* Append that grows the slice where it is, by moving Next.
AppendExtend(s, n) ==
  LET sl      == slices[s]
      oldSize == SliceLayout(sl.cap)
      newSize == SliceLayout(sl.cap + n)
  IN  /\ sl.blk # NoBlock
      /\ sl.cap - sl.len < n
      /\ Servable(Elem * (sl.cap + n))
      /\ CanExtend(sl, oldSize, newSize)
      /\ next' = sl.off + newSize
      /\ UNCHANGED <<blocks, cur, end, cap, nalloc>>
      /\ live' = (live \ {Region(sl.blk, sl.off, oldSize)})
                   \cup {Region(sl.blk, sl.off, newSize)}
      /\ slices' = [slices EXCEPT ![s] =
                      [blk |-> sl.blk, off |-> sl.off,
                       len |-> sl.len + n, cap |-> newSize \div Elem]]
      /\ mem' = StoreElems(mem, s, sl.blk, sl.off, sl.len, n)

\* Mutant of AppendMove: the copy counts elements where it should count bytes.
AppendMoveShort(s, n) ==
  LET sl      == slices[s]
      newSize == SliceLayout(sl.cap + n)
      size    == RoundUp(newSize)
  IN  /\ sl.blk # NoBlock
      /\ sl.cap - sl.len < n
      /\ Servable(Elem * (sl.cap + n))
      /\ ~CanExtend(sl, SliceLayout(sl.cap), newSize)
      /\ Take(size)
      /\ live' = live \cup Taken(size)
      /\ slices' = [slices EXCEPT ![s] =
                      [blk |-> cur', off |-> next' - size,
                       len |-> sl.len + n, cap |-> newSize \div Elem]]
      /\ mem' = LET copied == [c \in Cells |->
                      IF InRegion(c, cur', next' - size, sl.cap)
                      THEN mem[<<sl.blk, sl.off + (c[2] - (next' - size))>>]
                      ELSE mem[c]]
                IN  StoreElems(copied, s, cur', next' - size, sl.len, n)

\* Append that moves the slice: allocate, copy oldSize bytes, store.
AppendMove(s, n) ==
  LET sl      == slices[s]
      oldSize == SliceLayout(sl.cap)
      newSize == SliceLayout(sl.cap + n)
      size    == RoundUp(newSize)
  IN  /\ sl.blk # NoBlock
      /\ sl.cap - sl.len < n
      /\ Servable(Elem * (sl.cap + n))
      /\ ~CanExtend(sl, oldSize, newSize)
      /\ Take(size)
      /\ live' = live \cup Taken(size)
      /\ slices' = [slices EXCEPT ![s] =
                      [blk |-> cur', off |-> next' - size,
                       len |-> sl.len + n, cap |-> newSize \div Elem]]
      /\ mem' = LET copied == [c \in Cells |->
                      IF InRegion(c, cur', next' - size, oldSize)
                      THEN mem[<<sl.blk, sl.off + (c[2] - (next' - size))>>]
                      ELSE mem[c]]
                IN  StoreElems(copied, s, cur', next' - size, sl.len, n)

\* Slice.Append of n elements; AppendOne is the same with n = 1.
SliceAppend(s, n) ==
  /\ ~panicked
  /\ \/ AppendNew(s, n)
     \/ AppendInPlace(s, n)
     \/ AppendExtend(s, n)
     \/ AppendMove(s, n)
  /\ UNCHANGED panicked

----------------------------------------------------------------------------

Next ==
  \/ \E size \in Sizes : Alloc(size) \/ AllocMessage(size) \/ Reserve(size)
  \/ Free
  \/ FreeEmpty
  \/ \E s \in Slots : \E n \in 0 .. MaxAppend : Of(s, n)
  \/ \E s \in Slots : \E n \in 1 .. MaxAppend : SliceAppend(s, n)

Spec == Init /\ [][Next]_vars

----------------------------------------------------------------------------
(* Properties *)

\* Types of the arena header, the block table, the slice headers and the
\* history of regions.
TypeOK ==
  /\ blocks \in Seq(Blocks \cup {NoBlock})
  /\ Len(blocks) <= MaxLog + 1
  /\ cur \in Blocks \cup {NoBlock}
  /\ next \in Nat /\ end \in Nat /\ cap \in Nat
  /\ nalloc \in 0 .. MaxBlocks
  /\ mem \in [Cells -> Values]
  /\ slices \in [Slots -> [blk : Blocks \cup {NoBlock}, off : Nat, len : Nat, cap : Nat]]
  /\ \A r \in live : r \in [blk : Blocks, off : Nat, size : Nat]
  /\ panicked \in BOOLEAN

\* The capacity is the size of the last block of the table, which is the one
\* being bumped through.  Because Grow asks for at least twice the capacity
\* it therefore always lands past the end of the table: allocChunk's branch
\* that hands out a block the table already has is never taken, neither
\* before nor after Free.
LastBlockIsCurrent ==
  IF Len(blocks) = 0
  THEN cur = NoBlock /\ next = 0 /\ end = 0 /\ cap = 0
  ELSE /\ cap = 2^(Len(blocks) - 1)
       /\ cur = blocks[Len(blocks)]
       /\ cur # NoBlock
       /\ end = cap
       /\ next <= end

Disjoint(q, r) ==
  \/ q.blk # r.blk
  \/ q.off + q.size <= r.off
  \/ r.off + r.size <= q.off

\* No two regions handed out since the last Free overlap, although Alloc,
\* vm.AllocMessage, Reserve and the in-place realloc of slices all move Next
\* and blocks are abandoned half full.
LiveDisjoint == \A q, r \in live : q # r => Disjoint(q, r)

\* A block stays in the table, where the garbage collector sees it, and is
\* large enough, as long as a region of it is live.
LiveInTable ==
  \A r \in live : \E i \in 1 .. Len(blocks) :
    blocks[i] = r.blk /\ r.off + r.size <= 2^(i - 1)

\* What has not been handed out yet is zero: messages and tables rely on Alloc
\* returning zeroed memory, also after Free recycled a block that was full.
FreeSpaceIsZero ==
  \A c \in Cells : c[1] = cur /\ next <= c[2] /\ c[2] < end => mem[c] = Zero

\* A slice reads back exactly the elements appended to it, in order, whatever
\* was allocated, extended or moved in between: the size Slice.Grow recomputes
\* from the capacity is the size that was allocated.
SlicesReadBack ==
  \A s \in Slots : \A c \in Cells :
    InRegion(c, slices[s].blk, slices[s].off, slices[s].len * Elem)
      => mem[c] = ElemOf(s, (c[2] - slices[s].off) \div Elem)

\* Each Grow at least doubles the capacity and Free never gives capacity back,
\* which is what makes a reused arena stop calling the Go allocator.
CapacityDoubles == [][cap' # cap => cap' >= 2 * cap /\ cap' > cap]_vars

\* The inductive invariant behind the theorems of ArenaProofs.  A block in the
\* table came from the heap, a block that has not been obtained yet is zero,
\* live regions of the current block lie below Next, and every slice that has
\* capacity owns a live region of exactly the size Slice.Grow will recompute.
TableFromHeap == \A i \in 1 .. Len(blocks) : blocks[i] <= nalloc

HeapIsZero == \A c \in Cells : c[1] > nalloc => mem[c] = Zero

LiveBelowNext ==
  \A r \in live : r.size > 0 /\ (r.blk = cur => r.off + r.size <= next)

SliceOwnsRegion(sl) ==
  IF sl.blk = NoBlock \/ sl.cap = 0
  THEN /\ sl.cap = 0 /\ sl.len = 0
       /\ sl.blk <= nalloc
       /\ sl.blk = cur => sl.off <= next
  ELSE /\ sl.len <= sl.cap
       /\ Elem * sl.cap <= SliceLayout(sl.cap)
       /\ Region(sl.blk, sl.off, SliceLayout(sl.cap)) \in live

SlicesOwnRegions ==
  /\ \A s \in Slots : SliceOwnsRegion(slices[s])
  /\ \A s, t \in Slots :
       s # t /\ slices[s].cap > 0 /\ slices[t].cap > 0
         => slices[s].blk # slices[t].blk \/ slices[s].off # slices[t].off

ArenaInv ==
  /\ TypeOK /\ LastBlockIsCurrent /\ TableFromHeap /\ HeapIsZero
  /\ LiveBelowNext /\ LiveInTable /\ LiveDisjoint /\ FreeSpaceIsZero
  /\ SlicesOwnRegions /\ SlicesReadBack

=============================================================================
