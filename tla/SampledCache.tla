---------------------------- MODULE SampledCache ----------------------------
(***************************************************************************)
(* The L3 built with SDBP: a write-back, write-allocate cache that asks a  *)
(* sampling dead-block predictor whether the block an access brings will   *)
(* be used again.  Accesses carry the pc of the instruction that made      *)
(* them, or NoPC (the code's -1): the write-backs of the level above and   *)
(* all bytes of a wide access but the first.  A sampled set has a sampler  *)
(* set that remembers the pc of the last access to each of a few blocks;   *)
(* a block that falls out of it teaches the three tables that the pc left  *)
(* a dead block, each sampled access that its pc did not.                  *)
(*                                                                         *)
(* Sets are sequences of lines, least recently used first, as in LineSets. *)
(* A definition named Bad... is a mutant of the one after it.              *)
(***************************************************************************)
EXTENDS LineSets

CONSTANTS
    Block, Offset, Value,   \* as in AtomicMemory
    PC, NoPC,               \* program counters, and -1
    Associativity, SamplerAssociativity,
    getId,                  \* the set of a block
    samplesize,             \* every samplesize-th set is sampled
    predictorhash           \* predictorhash[t][pc]: the entry of table t

Table == 1 .. 3

ASSUME SetAssumption == /\ getId \in [Block -> Nat]
                        /\ Associativity \in Nat \ {0}
                        /\ SamplerAssociativity \in Nat \ {0}
                        /\ samplesize \in Nat \ {0}
ASSUME HashAssumption == /\ NoPC \notin PC
                         /\ predictorhash \in [Table -> [PC \cup {NoPC} -> Nat]]

VARIABLES
    blocks,             \* blocks[s]: the valid lines of set s
    samplerblocks,      \* samplerblocks[s]: those of the sampler of set s
    predictionTable,    \* predictionTable[t][i]
    memory
vars == <<blocks, samplerblocks, predictionTable, memory>>

Data == [Offset -> Value]
Sets == {getId[b] : b \in Block}
Sampled == {s \in Sets : s % samplesize = 0}
Entry == UNION {{predictorhash[t][q] : q \in PC \cup {NoPC}} : t \in Table}
Line == [block : Block, modified : BOOLEAN, deadblock : BOOLEAN, data : Data]
SamplerBlock == [block : Block, partialPC : PC]

Init == /\ blocks = [s \in Sets |-> <<>>]
        /\ samplerblocks = [s \in Sampled |-> <<>>]
        /\ predictionTable = [t \in Table |-> [i \in Entry |-> 0]]
        /\ memory \in [Block -> Data]
-----------------------------------------------------------------------------
The(ways) == CHOOSE w \in ways : TRUE
InCache(b) == Find(blocks[getId[b]], b) # {}

Index(t, pc) == predictorhash[t][pc]

Badsaturating(counter) == counter
saturating(counter) ==
    IF counter < 0 THEN 0 ELSE IF counter > 3 THEN 3 ELSE counter

\* Goes up for an access and down for an eviction.
Badupdatepredictor(tables, pc, updater) ==
    [t \in Table |-> [tables[t] EXCEPT ![Index(t, pc)] =
                        saturating(@ - updater)]]
\* updatepredictor: one entry of each table, up or down.
updatepredictor(tables, pc, updater) ==
    [t \in Table |-> [tables[t] EXCEPT ![Index(t, pc)] =
                        saturating(@ + updater)]]

predictor(tables, pc) ==
    tables[1][Index(1, pc)] + tables[2][Index(2, pc)]
        + tables[3][Index(3, pc)] >= 8
-----------------------------------------------------------------------------
\* getByteSamplerset: what an access of block b by pc does to its sampler set
\* and the tables.  The pc of a dead block is not taken in, and not taught.
Unsampled(b, pc) == pc = NoPC \/ getId[b] \notin Sampled

\* Takes every block in.
BadgetByteSamplerset(set, b, pc) ==
    LET found == Find(set, b)
        entry == [block |-> b, partialPC |-> pc]
        full == Len(set) >= SamplerAssociativity
    IN  IF found # {}
        THEN [set |-> Append(Without(set, The(found)), entry),
              tables |-> updatepredictor(predictionTable, pc, -1)]
        ELSE [set |-> Append(IF full THEN Tail(set) ELSE set, entry),
              tables |-> updatepredictor(
                IF full THEN updatepredictor(predictionTable,
                                             Head(set).partialPC, 1)
                ELSE predictionTable, pc, -1)]
\* Takes the block in again although it is there.
BadgetByteSamplersetTwice(set, b, pc) ==
    LET full == Len(set) >= SamplerAssociativity
    IN  IF predictor(predictionTable, pc)
        THEN [set |-> set, tables |-> predictionTable]
        ELSE [set |-> Append(IF full THEN Tail(set) ELSE set,
                             [block |-> b, partialPC |-> pc]),
              tables |-> updatepredictor(
                IF full THEN updatepredictor(predictionTable,
                                             Head(set).partialPC, 1)
                ELSE predictionTable, pc, -1)]
getByteSamplerset(set, b, pc) ==
    LET found == Find(set, b)
        entry == [block |-> b, partialPC |-> pc]
        full == Len(set) >= SamplerAssociativity
    IN  IF found # {}
        THEN [set |-> Append(Without(set, The(found)), entry),
              tables |-> updatepredictor(predictionTable, pc, -1)]
        ELSE IF predictor(predictionTable, pc)
        THEN [set |-> set, tables |-> predictionTable]
        ELSE [set |-> Append(IF full THEN Tail(set) ELSE set, entry),
              tables |-> updatepredictor(
                IF full THEN updatepredictor(predictionTable,
                                             Head(set).partialPC, 1)
                ELSE predictionTable, pc, -1)]

\* Every access trains first; the verdicts it uses come after.
Train(b, pc) ==
    IF Unsampled(b, pc) THEN UNCHANGED <<samplerblocks, predictionTable>>
    ELSE LET s == getId[b]
             trained == getByteSamplerset(samplerblocks[s], b, pc)
         IN  /\ samplerblocks' = [samplerblocks EXCEPT ![s] = trained.set]
             /\ predictionTable' = trained.tables
DeadNow(pc) == predictor(predictionTable', pc)
Bypassed(pc) == pc # NoPC /\ DeadNow(pc)

\* The line of a hit, now the most recently used one.
Hit(b, line) ==
    blocks' = [blocks EXCEPT ![getId[b]] =
                Append(Without(@, The(Find(@, b))), line)]
LineOf(b) == blocks[getId[b]][The(Find(blocks[getId[b]], b))]

\* A read asks for a verdict even without a pc.
ReadHit(b, pc) ==
    /\ InCache(b)
    /\ Train(b, pc)
    /\ Hit(b, [LineOf(b) EXCEPT !.deadblock = DeadNow(pc)])
    /\ UNCHANGED memory

WriteHit(b, o, val, pc) ==
    /\ InCache(b)
    /\ Train(b, pc)
    /\ Hit(b, [LineOf(b) EXCEPT !.modified = TRUE, !.data[o] = val,
                    !.deadblock = IF pc = NoPC THEN @ ELSE DeadNow(pc)])
    /\ UNCHANGED memory

\* The whole access goes past a cache that does not have the block.
ReadBypass(b, pc) ==
    /\ ~InCache(b)
    /\ Train(b, pc)
    /\ Bypassed(pc)
    /\ UNCHANGED <<blocks, memory>>

\* Asks for the verdict before it looks for the block.
BadWriteBypass(b, o, val, pc) ==
    /\ Train(b, pc)
    /\ Bypassed(pc)
    /\ memory' = [memory EXCEPT ![b][o] = val]
    /\ UNCHANGED blocks
WriteBypass(b, o, val, pc) ==
    /\ ~InCache(b)
    /\ Train(b, pc)
    /\ Bypassed(pc)
    /\ memory' = [memory EXCEPT ![b][o] = val]
    /\ UNCHANGED blocks

\* getReplacementBlockId of a full set: a dead line, the first in the order
\* of the ways, which the model leaves open, else the least recently used.
Victims(set) ==
    LET dead == {w \in DOMAIN set : set[w].deadblock}
    IN  IF dead # {} THEN dead ELSE {1}

\* loadBlockFromLowerLevel, and then the line as the access leaves it.  What
\* is loaded was found alive, or was not judged.
Load(b, line) ==
    LET s == getId[b]
    IN  \/ /\ Len(blocks[s]) < Associativity
           /\ blocks' = [blocks EXCEPT ![s] = Append(@, line)]
           /\ UNCHANGED memory
        \/ /\ Len(blocks[s]) >= Associativity
           /\ \E w \in Victims(blocks[s]) :
                /\ blocks' = [blocks EXCEPT ![s] = Append(Without(@, w), line)]
                /\ memory' = IF blocks[s][w].modified
                             THEN [memory EXCEPT ![blocks[s][w].block] =
                                    blocks[s][w].data]
                             ELSE memory

ReadMiss(b, pc) ==
    /\ ~InCache(b)
    /\ Train(b, pc)
    /\ ~Bypassed(pc)
    /\ Load(b, [block |-> b, modified |-> FALSE, deadblock |-> FALSE,
                data |-> memory[b]])

WriteMiss(b, o, val, pc) ==
    /\ ~InCache(b)
    /\ Train(b, pc)
    /\ ~Bypassed(pc)
    /\ Load(b, [block |-> b, modified |-> TRUE, deadblock |-> FALSE,
                data |-> [memory[b] EXCEPT ![o] = val]])

getByte(b, pc) == ReadHit(b, pc) \/ ReadBypass(b, pc) \/ ReadMiss(b, pc)
setByte(b, o, val, pc) == \/ WriteHit(b, o, val, pc)
                          \/ WriteBypass(b, o, val, pc)
                          \/ WriteMiss(b, o, val, pc)

Next == \E b \in Block, pc \in PC \cup {NoPC} :
            \/ getByte(b, pc)
            \/ \E o \in Offset, val \in Value : setByte(b, o, val, pc)

Spec == Init /\ [][Next]_vars
-----------------------------------------------------------------------------
\* The counters stay within two bits and the sets within their ways.
TypeOK ==
    /\ predictionTable \in [Table -> [Entry -> 0 .. 3]]
    /\ memory \in [Block -> Data]
    /\ DOMAIN blocks = Sets /\ DOMAIN samplerblocks = Sampled
    /\ \A s \in Sets : /\ Len(blocks[s]) <= Associativity
                       /\ \A w \in DOMAIN blocks[s] : blocks[s][w] \in Line
    /\ \A s \in Sampled :
        /\ Len(samplerblocks[s]) <= SamplerAssociativity
        /\ \A w \in DOMAIN samplerblocks[s] :
            samplerblocks[s][w] \in SamplerBlock

\* The sampler remembers one pc for a block: no block is taught twice.
OnePCPerBlock ==
    \A s \in Sampled : \A v, w \in DOMAIN samplerblocks[s] :
        samplerblocks[s][v].block = samplerblocks[s][w].block => v = w

InSampler(b) ==
    getId[b] \in Sampled /\ Find(samplerblocks[getId[b]], b) # {}
Share(p, q) == \E t \in Table : Index(t, p) = Index(t, q)

\* A pc that is found dead gets a chance to be found alive only through a
\* block the sampler still remembers or a live pc that shares a counter with
\* it: its own accesses to other blocks neither enter the sampler nor teach.
VerdictsStick ==
    [][\A p \in PC :
        predictor(predictionTable, p) /\ ~predictor(predictionTable', p) =>
            \E q \in PC : \E b \in Block :
                /\ Share(p, q)
                /\ InSampler(b) \/ ~predictor(predictionTable, q)
                /\ \/ getByte(b, q)
                   \/ \E o \in Offset, val \in Value : setByte(b, o, val, q)]_vars

\* The bytes the next getByte reads from.
Contents(b) == IF InCache(b) THEN LineOf(b).data ELSE memory[b]

\* Whatever the predictor says, the cache is a memory: a bypass neither reads
\* past a copy nor leaves one behind.
Memory == INSTANCE AtomicMemory WITH mem <- [b \in Block |-> Contents(b)]
BypassIsTransparent ==
    /\ Memory!Init
    /\ [][\/ \E b \in Block, o \in Offset, val \in Value :
                /\ Contents(b)'[o] = val /\ Memory!SetByte(b, o, val)
                /\ \E q \in PC \cup {NoPC} : setByte(b, o, val, q)
          \/ Memory!GetByte /\ \E b \in Block, q \in PC \cup {NoPC} : getByte(b, q)]_vars
=============================================================================
