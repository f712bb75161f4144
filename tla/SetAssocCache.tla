---------------------------- MODULE SetAssocCache ----------------------------
(***************************************************************************)
(* One Cache object with no cache below it: the L3 of the hierarchy, where *)
(* MESI plays no part.  Cache::getByte and setByte for every write policy  *)
(* the constructor takes, with the set-associative array, the LRU          *)
(* replacement over lastReference and the 32-bit referenceCounter.         *)
(* A definition named Bad... is a mutant of the one after it.              *)
(***************************************************************************)
EXTENDS Integers, FiniteSets

CONSTANTS
    Block, Offset, Value,   \* as in AtomicMemory
    Associativity,          \* ways per set
    WritePolicies,          \* the pairs <<writeBack, writeAllocate>> in use
    getTag, getId,          \* how an address splits: tag and set index
    CounterMod,             \* referenceCounter has CounterMod values (2^32)
    MaxReference            \* bound on the counter; >= CounterMod: no bound

ASSUME PolicyAssumption == WritePolicies \subseteq BOOLEAN \X BOOLEAN
ASSUME WayAssumption == Associativity \in Nat \ {0}
ASSUME CounterAssumption == CounterMod \in Nat \ {0} /\ MaxReference \in Nat
\* An address is its tag, its index and its offset, and nothing else.
ASSUME SplitAssumption ==
    /\ getTag \in [Block -> Nat] /\ getId \in [Block -> Nat]
    /\ \A a, b \in Block : getTag[a] = getTag[b] /\ getId[a] = getId[b] => a = b

VARIABLES
    blocks,             \* blocks[s][w]: way w of set s
    referenceCounter,
    writeBack,          \* FALSE: write through
    writeAllocate,      \* a write miss loads the block
    memory              \* MemoryManager's bytes below the cache
policy == <<writeBack, writeAllocate>>
vars == <<blocks, referenceCounter, policy, memory>>

Data == [Offset -> Value]
Way == 0 .. Associativity - 1
Sets == {getId[b] : b \in Block}
Tags == {getTag[b] : b \in Block}
Counter == 0 .. CounterMod - 1
Line == [valid : BOOLEAN, modified : BOOLEAN, tag : Tags \cup {0},
         lastReference : Counter, data : Data]

\* The constructor and initCache, over whatever memory has been loaded.
Init ==
    /\ \E p \in WritePolicies : writeBack = p[1] /\ writeAllocate = p[2]
    /\ memory \in [Block -> Data]
    /\ \E d \in Data :
        blocks = [s \in Sets |-> [w \in Way |->
                    [valid |-> FALSE, modified |-> FALSE, tag |-> 0,
                     lastReference |-> 0, data |-> d]]]
    /\ referenceCounter = 0
-----------------------------------------------------------------------------
\* getAddr: the block a line of set s stands for.
getAddr(s, line) == CHOOSE b \in Block : getTag[b] = line.tag /\ getId[b] = s

\* getBlockId: the ways in which b is found (the code takes the first).
Found(b) == {w \in Way : /\ blocks[getId[b]][w].valid
                         /\ blocks[getId[b]][w].tag = getTag[b]}

First(ways) == CHOOSE w \in ways : \A x \in ways : w <= x

\* getReplacementBlockId: the first invalid way, else the first of those
\* with the smallest lastReference.
getReplacementBlockId(s) ==
    LET free == {w \in Way : ~blocks[s][w].valid}
        oldest == {w \in Way : \A x \in Way :
                    blocks[s][w].lastReference <= blocks[s][x].lastReference}
    IN  IF free # {} THEN First(free) ELSE First(oldest)

BadWrittenBack(s, w) == memory
\* What the memory holds once way w of set s has been replaced.
WrittenBack(s, w) ==
    LET old == blocks[s][w]
    IN  IF writeBack /\ old.valid /\ old.modified
        THEN [memory EXCEPT ![getAddr(s, old)] = old.data]
        ELSE memory

\* referenceCounter++, which each access begins with, over uint32_t.
Referenced == (referenceCounter + 1) % CounterMod
Count == /\ referenceCounter < MaxReference
         /\ referenceCounter' = Referenced
         /\ UNCHANGED policy
-----------------------------------------------------------------------------
BadReadHit(b) == Found(b) # {} /\ Count /\ UNCHANGED <<blocks, memory>>
ReadHit(b) ==
    /\ Found(b) # {}
    /\ Count
    /\ blocks' = [blocks EXCEPT
                    ![getId[b]][First(Found(b))].lastReference = Referenced]
    /\ UNCHANGED memory

\* Keeps the index in the tag.
BadReadMissTag(b) ==
    LET s == getId[b]
        w == getReplacementBlockId(s)
    IN  /\ Found(b) = {}
        /\ Count
        /\ memory' = WrittenBack(s, w)
        /\ blocks' = [blocks EXCEPT ![s][w] =
                        [valid |-> TRUE, modified |-> FALSE, tag |-> b,
                         lastReference |-> Referenced, data |-> memory[b]]]
\* Fills without asking whether the block is there.
BadReadMiss(b) ==
    LET s == getId[b]
        w == getReplacementBlockId(s)
    IN  /\ Count
        /\ memory' = WrittenBack(s, w)
        /\ blocks' = [blocks EXCEPT ![s][w] =
                        [valid |-> TRUE, modified |-> FALSE, tag |-> getTag[b],
                         lastReference |-> Referenced, data |-> memory[b]]]
\* loadBlockFromLowerLevel; the caller sets lastReference.
ReadMiss(b) ==
    LET s == getId[b]
        w == getReplacementBlockId(s)
    IN  /\ Found(b) = {}
        /\ Count
        /\ memory' = WrittenBack(s, w)
        /\ blocks' = [blocks EXCEPT ![s][w] =
                        [valid |-> TRUE, modified |-> FALSE, tag |-> getTag[b],
                         lastReference |-> Referenced, data |-> memory[b]]]

\* Forgets that the line is modified.
BadWriteHit(b, o, val) ==
    LET w == First(Found(b))
    IN  /\ Found(b) # {}
        /\ Count
        /\ blocks' = [blocks EXCEPT ![getId[b]][w] =
                        [@ EXCEPT !.data[o] = val, !.lastReference = Referenced]]
        /\ UNCHANGED memory
\* A write-through hit writes the whole block below, and stays modified.
WriteHit(b, o, val) ==
    LET s == getId[b]
        w == First(Found(b))
        data == [blocks[s][w].data EXCEPT ![o] = val]
    IN  /\ Found(b) # {}
        /\ Count
        /\ blocks' = [blocks EXCEPT ![s][w] =
                        [@ EXCEPT !.modified = TRUE, !.data = data,
                                  !.lastReference = Referenced]]
        /\ memory' = IF writeBack THEN memory
                     ELSE [memory EXCEPT ![b] = data]

\* Nothing is written through here: only the cache gets the byte.
WriteMissAllocate(b, o, val) ==
    LET s == getId[b]
        w == getReplacementBlockId(s)
    IN  /\ writeAllocate
        /\ Found(b) = {}
        /\ Count
        /\ memory' = WrittenBack(s, w)
        /\ blocks' = [blocks EXCEPT ![s][w] =
                        [valid |-> TRUE, modified |-> TRUE, tag |-> getTag[b],
                         lastReference |-> Referenced,
                         data |-> [memory[b] EXCEPT ![o] = val]]]

WriteMissAround(b, o, val) ==
    /\ ~writeAllocate
    /\ Found(b) = {}
    /\ Count
    /\ memory' = [memory EXCEPT ![b][o] = val]
    /\ UNCHANGED blocks

getByte(b) == ReadHit(b) \/ ReadMiss(b)
setByte(b, o, val) == \/ WriteHit(b, o, val)
                      \/ WriteMissAllocate(b, o, val)
                      \/ WriteMissAround(b, o, val)

Next == \E b \in Block :
            \/ getByte(b)
            \/ \E o \in Offset, val \in Value : setByte(b, o, val)

Spec == Init /\ [][Next]_vars
-----------------------------------------------------------------------------
TypeOK ==
    /\ blocks \in [Sets -> [Way -> Line]]
    /\ referenceCounter \in Counter
    /\ policy \in WritePolicies
    /\ memory \in [Block -> Data]

\* No block is cached in two ways of its set: getBlockId, the replacement
\* and the fill never disagree about where a block is.
OneWayPerBlock ==
    \A b \in Block : \A v, w \in Found(b) : v = w

\* A line that would be dropped without a write-back equals the memory under
\* it; in a write-through cache that is every valid line, if write misses do
\* not allocate.
CleanIsCurrent ==
    writeBack \/ ~writeAllocate => \A b \in Block : \A w \in Found(b) :
        ~(writeBack /\ blocks[getId[b]][w].modified) =>
            blocks[getId[b]][w].data = memory[b]

\* The block the next getByte reads from.
Contents(b) ==
    IF Found(b) # {} THEN blocks[getId[b]][First(Found(b))].data ELSE memory[b]

\* A cache of any geometry is a memory, unless it both writes through and
\* allocates: a write of a byte is that write of AtomicMemory, at once; a
\* read and whatever it replaces change nothing.
Memory == INSTANCE AtomicMemory WITH mem <- [b \in Block |-> Contents(b)]
AccessesAreAtomic ==
    [][\/ Memory!GetByte /\ \E b \in Block : getByte(b)
       \/ \E b \in Block, o \in Offset, val \in Value :
            setByte(b, o, val) /\ Memory!SetByte(b, o, val)]_vars
Transparent == Memory!Spec /\ AccessesAreAtomic

\* Written through, a byte that a write miss left in the cache alone.
Unwritten(b) == ~writeBack /\ Contents(b) # memory[b]

\* Under every policy, and however the counter wraps, an access is its own
\* step of the memory, unless an unwritten block leaves with it.  Only a
\* write miss that allocates leaves a block unwritten, and a hit writes it.
MemoryUnlessUnwritten ==
    [][/\ (\A b \in Block : Unwritten(b) => Found(b)' # {}) =>
            \/ Memory!GetByte /\ \E b \in Block : getByte(b)
            \/ \E b \in Block, o \in Offset, val \in Value :
                 setByte(b, o, val) /\ Memory!SetByte(b, o, val)
       /\ \A b \in Block : Unwritten(b)' =>
            IF Unwritten(b)
            THEN \A o \in Offset, val \in Value : ~WriteHit(b, o, val)
            ELSE \E o \in Offset, val \in Value : WriteMissAllocate(b, o, val)]_vars

Held == {b \in Block : Found(b) # {}}
LastUse(b) == blocks[getId[b]][First(Found(b))].lastReference
UsedSince ==
    [b \in Block |-> {x \in Held : /\ b \in Held /\ getId[x] = getId[b]
                                  /\ LastUse(b) < LastUse(x)}]

\* The cache replaces in LRU order: it holds the blocks that
\* least-recently-used replacement holds, and knows which was used after
\* which; every access but a write passed on to the memory is a use.
Lru == INSTANCE LruSets WITH
        Capacity <- Associativity, SetId <- getId, held <- Held,
        since <- UsedSince
AccessesAreUses ==
    [][\A b \in Block :
        \/ getByte(b)
        \/ \E o \in Offset, val \in Value :
            WriteHit(b, o, val) \/ WriteMissAllocate(b, o, val)
        => Lru!Access(b)]_vars
ReplacesLru == Lru!Spec /\ AccessesAreUses
=============================================================================
