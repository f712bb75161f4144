---------------------------- MODULE AtomicMemory ----------------------------
(***************************************************************************)
(* What a cache, or a whole hierarchy of caches, promises to the programs  *)
(* above it: a byte-addressed memory without caches.  It is the branch of  *)
(* MemoryManager::setByte / getByte that runs when no cache is attached,   *)
(* and the pair setByteNoCache / getByteNoCache.  A byte is named by its   *)
(* block and its offset in the block, as Cache::getOffset splits it.       *)
(***************************************************************************)
CONSTANTS
    Block,      \* block addresses: addr without its offset bits
    Offset,     \* byte positions in a block
    Value       \* contents of a byte

VARIABLE mem    \* mem[b][o]: the byte at offset o of block b

Init == mem \in [Block -> [Offset -> Value]]

\* MemoryManager::setByteNoCache: exactly one byte changes.
SetByte(b, o, val) == mem' = [mem EXCEPT ![b][o] = val]

\* MemoryManager::getByteNoCache: reading a byte changes none.
GetByte == UNCHANGED mem

Next == \E b \in Block, o \in Offset, val \in Value : SetByte(b, o, val)

Spec == Init /\ [][Next]_mem
=============================================================================
