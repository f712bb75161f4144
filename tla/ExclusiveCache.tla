--------------------------- MODULE ExclusiveCache ---------------------------
(***************************************************************************)
(* The hierarchy built with EXCLUSIVECACHE, for one core: getByteEx and    *)
(* setByteEx of the L1, which move whole blocks between the levels.  A hit *)
(* in L2 or L3 takes the block out of that level; the block it displaces   *)
(* from the L1 goes to the L2, the one displaced there to the L3, and the  *)
(* one displaced there to the memory or nowhere.                           *)
(*                                                                         *)
(* A set is a sequence of lines as in LineSets: nothing else depends on    *)
(* which way a line is in.                                                 *)
(* A definition named Bad... is a mutant of the one after it.              *)
(***************************************************************************)
EXTENDS LineSets

CONSTANTS
    Block, Offset, Value,   \* as in AtomicMemory
    Associativity,          \* Associativity[l]: ways per set of level l
    getId                   \* getId[l][b]: the set of block b in level l

Level == 1 .. 3
L1 == 1
L3 == 3

ASSUME WayAssumption == Associativity \in [Level -> Nat \ {0}]
ASSUME IndexAssumption == \A l \in Level : getId[l] \in [Block -> Nat]

VARIABLES
    blocks,     \* blocks[l][s]: the valid lines of set s of level l
    memory,     \* the bytes below the caches
    writeBack   \* FALSE: write through; one policy for the three levels
vars == <<blocks, memory, writeBack>>

Data == [Offset -> Value]
Sets(l) == {getId[l][b] : b \in Block}
Line == [block : Block, modified : BOOLEAN, data : Data]

Init == /\ blocks = [l \in Level |-> [s \in Sets(l) |-> <<>>]]
        /\ memory \in [Block -> Data]
        /\ writeBack \in BOOLEAN
-----------------------------------------------------------------------------
\* getBlockId: where b is among the lines of its set.
Ways(l, b) == Find(blocks[l][getId[l][b]], b)
InCache(l, b) == Ways(l, b) # {}
WayOf(l, b) == CHOOSE w \in Ways(l, b) : TRUE
LineOf(l, b) == blocks[l][getId[l][b]][WayOf(l, b)]

\* loadBlockFromLowerLevelEx asks the L2, then the L3, then the memory.
BelowL1(b) == {l \in Level : l > L1 /\ InCache(l, b)}
FoundIn(b) == CHOOSE l \in BelowL1(b) : \A k \in BelowL1(b) : l <= k

\* Reads the memory without asking the lower levels for their copy.
BadLoaded(b, lower) == [block |-> b, modified |-> FALSE, data |-> memory[b]]
\* The line it returns, from the levels `lower` the block was found in.  The
\* new line starts unmodified wherever it comes from.
Loaded(b, lower) ==
    [block |-> b, modified |-> FALSE,
     data |-> IF lower = {} THEN memory[b] ELSE LineOf(FoundIn(b), b).data]

BadTaken(b, lower) == blocks
\* A hit in a lower level invalidates the block there.
Taken(b, lower) ==
    IF lower = {} THEN blocks
    ELSE LET l == FoundIn(b)
         IN  [blocks EXCEPT ![l][getId[l][b]] = Without(@, WayOf(l, b))]

\* Replaces no line.
BadSinkKeeps(state, l) ==
    IF state.line = <<>> THEN state
    ELSE LET s == getId[l][state.line[1].block]
         IN  [blocks |-> [state.blocks EXCEPT ![l][s] =
                            Append(@, state.line[1])],
              line |-> <<>>]
\* One level of writeBlockToLowerLevelEx: the line, if there is one, enters
\* a free way of its set or replaces the least recently used line, which is
\* then the line to go to the next level.
Sink(state, l) ==
    IF state.line = <<>> THEN state
    ELSE LET s == getId[l][state.line[1].block]
             set == state.blocks[l][s]
             full == Len(set) >= Associativity[l]
         IN  [blocks |-> [state.blocks EXCEPT ![l][s] =
                Append(IF full THEN Tail(set) ELSE set, state.line[1])],
              line |-> IF full THEN <<Head(set)>> ELSE <<>>]

\* The line that the L2 gives up goes nowhere.
BadPlaced(b, line, lower) ==
    [Sink(Sink([blocks |-> Taken(b, lower), line |-> <<line>>], 1), 2)
        EXCEPT !.line = <<>>]
\* The block goes to the L1, and each block it displaces one level down.
Placed(b, line, lower) ==
    Sink(Sink(Sink([blocks |-> Taken(b, lower), line |-> <<line>>], 1), 2), 3)

\* writeBlockToLowerLevelEx of the L3: what is left of the line that leaves.
Dropped(line) ==
    IF line # <<>> /\ writeBack /\ line[1].modified
    THEN [memory EXCEPT ![line[1].block] = line[1].data]
    ELSE memory

\* Write-through writes the block of the L1, as it now is, to the memory and
\* to no other level.
WrittenThrough(mem, line) ==
    IF writeBack THEN mem ELSE [mem EXCEPT ![line.block] = line.data]
-----------------------------------------------------------------------------
\* Both hits make the line the most recently used of its set.
Hit(b, line) ==
    /\ InCache(L1, b)
    /\ blocks' = [blocks EXCEPT ![L1][getId[L1][b]] =
                    Append(Without(@, WayOf(L1, b)), line)]

ReadHit(b) == Hit(b, LineOf(L1, b)) /\ UNCHANGED <<memory, writeBack>>

\* Does not write through.
BadWriteHit(b, o, val) ==
    /\ Hit(b, [LineOf(L1, b) EXCEPT !.modified = TRUE, !.data[o] = val])
    /\ UNCHANGED <<memory, writeBack>>
WriteHit(b, o, val) ==
    LET line == [LineOf(L1, b) EXCEPT !.modified = TRUE, !.data[o] = val]
    IN  /\ Hit(b, line)
        /\ memory' = WrittenThrough(memory, line)
        /\ UNCHANGED writeBack

ReadMiss(b) ==
    LET lower == BelowL1(b)
        placed == Placed(b, Loaded(b, lower), lower)
    IN  /\ ~InCache(L1, b)
        /\ blocks' = placed.blocks
        /\ memory' = Dropped(placed.line)
        /\ UNCHANGED writeBack

\* Every level is built with write-allocate, the constructor's default.
WriteMiss(b, o, val) ==
    LET lower == BelowL1(b)
        line == [Loaded(b, lower) EXCEPT !.modified = TRUE, !.data[o] = val]
        placed == Placed(b, line, lower)
    IN  /\ ~InCache(L1, b)
        /\ blocks' = placed.blocks
        /\ memory' = WrittenThrough(Dropped(placed.line), line)
        /\ UNCHANGED writeBack

getByteEx(b) == ReadHit(b) \/ ReadMiss(b)
setByteEx(b, o, val) == WriteHit(b, o, val) \/ WriteMiss(b, o, val)

Next == \E b \in Block :
            \/ getByteEx(b)
            \/ \E o \in Offset, val \in Value : setByteEx(b, o, val)

Spec == Init /\ [][Next]_vars
-----------------------------------------------------------------------------
\* A set never holds more lines than it has ways.
TypeOK ==
    /\ writeBack \in BOOLEAN
    /\ memory \in [Block -> Data]
    /\ DOMAIN blocks = Level
    /\ \A l \in Level :
        /\ DOMAIN blocks[l] = Sets(l)
        /\ \A s \in Sets(l) :
            /\ Len(blocks[l][s]) <= Associativity[l]
            /\ \A w \in DOMAIN blocks[l][s] :
                /\ blocks[l][s][w] \in Line
                /\ getId[l][blocks[l][s][w].block] = s

\* The hierarchy is exclusive: whatever route a block takes, it is in at most
\* one way of one level.
Exclusive ==
    \A b \in Block : \A k, l \in Level : \A v \in Ways(k, b), w \in Ways(l, b) :
        k = l /\ v = w

Present(b) == \E l \in Level : InCache(l, b)
Copy(b) == LineOf(CHOOSE l \in Level : InCache(l, b), b).data

\* While a block is somewhere in the hierarchy, the moves that other blocks
\* cause and its own way back to the L1 keep every byte of it; only a write
\* of that byte changes it.
MovesKeepBytes ==
    [][\A b \in Block : Present(b) /\ Present(b)' =>
        \/ Copy(b)' = Copy(b)
        \/ \E o \in Offset, val \in Value :
            Copy(b)' = [Copy(b) EXCEPT ![o] = val] /\ setByteEx(b, o, val)]_vars

\* A block that leaves the hierarchy leaves it from the L3, where it was the
\* oldest of a full set, alone, for a block that now stands in its set; if
\* its line is modified and the policy is write-back, the memory has its bytes.
LeavesFromFullL3 ==
    [][\A b \in Block : Present(b) /\ ~Present(b)' =>
        LET s == getId[L3][b]
        IN  /\ InCache(L3, b) /\ WayOf(L3, b) = 1
            /\ Len(blocks[L3][s]) = Associativity[L3]
            /\ Len(blocks'[L3][s]) = Associativity[L3]
            /\ \A a \in Block \ {b} : Present(a) => Present(a)'
            /\ LineOf(L3, b).modified /\ writeBack => memory'[b] = Copy(b)]_vars

\* The block the next getByteEx reads from.
Contents(b) == IF Present(b) THEN Copy(b) ELSE memory[b]

\* The hierarchy alone has the bytes of b, and no mark says so.
Marked(b) == LineOf(CHOOSE l \in Level : InCache(l, b), b).modified
Forgotten(b) == Present(b) /\ ~Marked(b) /\ Copy(b) # memory[b]

\* The hierarchy is the memory without caches: a write of a byte is that
\* write of AtomicMemory, at once, and the moves show nowhere.  Written
\* through it always is; written back it is at every step but one by which a
\* block whose mark went on its way up to the L1 leaves the hierarchy.
Memory == INSTANCE AtomicMemory WITH mem <- [b \in Block |-> Contents(b)]
MemoryUnlessForgotten ==
    /\ Memory!Init
    /\ [][(writeBack => \A b \in Block : Forgotten(b) => Present(b)') =>
            \E b \in Block :
                \/ getByteEx(b) /\ Memory!GetByte
                \/ \E o \in Offset, val \in Value :
                    setByteEx(b, o, val) /\ Memory!SetByte(b, o, val)]_vars
=============================================================================
