----------------------------- MODULE BlockHeap ------------------------------
(***************************************************************************)
(* The memory of a CInterprocessMessageQueue behind its header and slots:  *)
(* an array of DWORDs cut into blocks, each a word with its size followed  *)
(* by that many words.  The size of a free block is negative and its first *)
(* word is the offset of the next free block.  The last word is 0.         *)
(*                                                                         *)
(* A heap is a record [mem, firstFree]; sizes and offsets are in words.    *)
(***************************************************************************)
EXTENDS Integers, Sequences

CONSTANT Words

(* The smallest region holds one block that can be free, and the last 0. *)
ASSUME WordsAssumption == Words \in Nat /\ Words >= 3

NoBlock == 0
Header == 1       \* sizeof(SEntry)
FreeHeader == 2   \* sizeof(SFreeEntry)

AbsOf(i) == IF i < 0 THEN -i ELSE i
BlockSize(h, o) == AbsOf(h.mem[o])
IsFree(h, o) == h.mem[o] < 0
GetNextEntry(h, o) == o + Header + BlockSize(h, o)

SetFree(h, o, size, next) == [h EXCEPT !.mem[o] = -size, !.mem[o + 1] = next]

(* The structure that Create sets up. *)
NewHeap ==
    LET empty == [mem |-> [o \in 1..Words |-> 0], firstFree |-> 1]
    IN  SetFree(empty, 1, Words - 2 * Header, NoBlock)

(* The free blocks in the order of the list. *)
FreeList(h) ==
    LET first[k \in 0..Words] ==    \* the first k of them
            IF k = 0 THEN <<>>
            ELSE LET before == first[k - 1]
                     next == IF before = <<>> THEN h.firstFree ELSE h.mem[before[Len(before)] + 1]
                 IN  IF next = NoBlock THEN before ELSE Append(before, next)
    IN  first[Words]

Unlink(h, o) ==
    LET list == FreeList(h)
        before == CHOOSE k \in DOMAIN list : h.mem[list[k] + 1] = o
    IN  IF h.firstFree = o THEN [h EXCEPT !.firstFree = h.mem[o + 1]]
        ELSE [h EXCEPT !.mem[list[before] + 1] = h.mem[o + 1]]

CombineWithoutHeader(h, first, second) ==    \* mutant: the header of the second block is lost
    LET unlinked == Unlink(h, second)
    IN  SetFree(unlinked, first, BlockSize(h, first) + BlockSize(h, second), unlinked.mem[first + 1])
CombineFreeBlocks(h, first, second) ==
    LET unlinked == Unlink(h, second)
    IN  SetFree(unlinked, first, BlockSize(h, first) + BlockSize(h, second) + Header,
                unlinked.mem[first + 1])

(* Places of the free list: of blocks that are large enough, and of those  *)
(* with a free neighbour behind them.                                      *)
Fitting(h, n) ==
    LET list == FreeList(h)
    IN  {k \in DOMAIN list : BlockSize(h, list[k]) >= n}
FollowedByFree(h) ==
    LET list == FreeList(h)
    IN  {k \in DOMAIN list : IsFree(h, GetNextEntry(h, list[k]))}
FirstOf(h, K) == FreeList(h)[CHOOSE k \in K : \A j \in K : k <= j]

(* FindFreeBlock takes the first block that fits; while there is none it   *)
(* combines two neighbours, which makes the list shorter, and looks again. *)
CombinedOnce(h, n) ==
    LET pairs == FollowedByFree(h)
        o == FirstOf(h, pairs)
    IN  IF Fitting(h, n) # {} \/ pairs = {} THEN h
        ELSE CombineFreeBlocks(h, o, GetNextEntry(h, o))
FirstFitOnly(h, n) == h    \* mutant: neighbours are not combined
CombinedFor(h, n) ==
    LET after[k \in 0..Len(FreeList(h))] == IF k = 0 THEN h ELSE CombinedOnce(after[k - 1], n)
    IN  after[Len(FreeList(h))]

(* Free block o is taken for n words.  One that is larger by a free block  *)
(* or more is split, and the new block is at its end.                      *)
TakeFrom(h, o, n) ==
    LET rest == BlockSize(h, o) - n
    IN  IF rest >= FreeHeader
        THEN [offset |-> o + rest,
              heap |-> [SetFree(h, o, rest - Header, h.mem[o + 1]) EXCEPT !.mem[o + rest] = n]]
        ELSE [offset |-> o,
              heap |-> [Unlink(h, o) EXCEPT !.mem[o] = BlockSize(h, o)]]
TakeFitting(h, n) ==
    IF Fitting(h, n) = {} THEN [offset |-> NoBlock, heap |-> h]
    ELSE TakeFrom(h, FirstOf(h, Fitting(h, n)), n)
AllocEntry(h, n) == TakeFitting(CombinedFor(h, n), n)

FreeEntry(h, o) ==
    LET freed == [SetFree(h, o, BlockSize(h, o), h.firstFree) EXCEPT !.firstFree = o]
        next == GetNextEntry(freed, o)
    IN  IF IsFree(freed, next) THEN CombineFreeBlocks(freed, o, next) ELSE freed

(* utlMemCopy of n words of m behind the header of block o. *)
Fill(h, o, n, m) == [h EXCEPT !.mem = [w \in 1..Words |-> IF w \in o + 1..o + n THEN m ELSE @[w]]]

-----------------------------------------------------------------------------
(* The blocks reached from the first one by their sizes. *)
Blocks(h) ==
    LET reached[o \in 1..Words] ==
            o = 1 \/ \E p \in 1..o - 1 : GetNextEntry(h, p) = o /\ reached[p]
    IN  {o \in 1..Words : reached[o]}

(* The blocks tile the region up to the last word, and the free list holds *)
(* each free block once: no word is lost and none is in two blocks.        *)
HeapWellFormed(h) ==
    LET list == FreeList(h)
        blocks == Blocks(h) \ {Words}
    IN  /\ Words \in Blocks(h) /\ h.mem[Words] = 0
        /\ \A o \in blocks : BlockSize(h, o) >= 1
        /\ {list[k] : k \in DOMAIN list} = {o \in blocks : IsFree(h, o)}
        /\ \A j, k \in DOMAIN list : list[j] = list[k] => j = k
=============================================================================
