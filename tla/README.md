# A TLA+ model of the RISC-V simulator and its caches

The repository holds a cycle-level simulator of a RISC-V processor (a five-stage
pipeline with branch prediction, one or two cores) and of the caches below it (three
levels, write policies, MESI coherence between two cores, an exclusive variant, a
dead-block predictor). Everything runs in one thread; what is hard is the order in which
the parts of one cycle, or the accesses of two cores, meet.

## 1. Inventory

| Part | State | Operations | Talks to |
| --- | --- | --- | --- |
| `Simulator` (`Simulator.cpp`) | pc, registers, four pipeline latches and their new values, `predictedPC`, `anotherPC`, LR reservations, `terminate`, `memoryStallCycles`, `cycleCount` | `singleStep`: `fetch`, `decode`, `excecute` (with `handleSystemCall`), `memoryAccess`, `writeBack`; `initStack` | `MemoryManager` (bytes, words), `BranchPredictor` |
| `BranchPredictor` | strategy, two-bit buffer, perceptron table, history register, `yout` | `predict`, `update`, `perceptronUpdate`, `updatehistoryregister` | called by `decode` and `excecute` |
| `MemoryManager` | two-level page table, directory of blocks, pointers to the two L1 caches | `getByte`/`setByte` and the wider accesses, `...NoCache`, `addPage`, `MESIoperationmem` | L1 caches above, pages below, controllers (the L1s) for coherence |
| `Cache` | array of blocks (valid, modified, tag, MESI, `lastReference`, data), `referenceCounter`, policies, sampler and prediction tables | `getByte`, `setByte`, `loadBlockFromLowerLevel`, `writeBlockToLowerLevel`, replacement, MESI requests and answers, the `...Ex` variants, the sampler | the next level, the level above, the directory |
| Main loop (`MainCPU.cpp`) | clock | loads the programs, adds the shared pages, steps each core that is neither stalled nor terminated | both `Simulator`s, `MemoryManager` |
| `MainCacheOptimization.cpp`, `MainCache.cpp` | trace position | one access per line of a trace | `MemoryManager` |
| `ToDirenoTrace.cpp`, `Debug.h`, `YuvImageProcessor`, ELF reader, tests, traces, plots | none that matters here | | |

What makes each part correct, and what makes that hard:

* **Coherence.** A hierarchy of private caches must be invisible: one writer, a
  directory that never grants less than is held, two levels of a core that agree on a
  block, and reads that return the last write. Hard because the directory learns of
  some state changes and not of others (E to M is silent, so are some evictions),
  because a block may be in L1, in L2, in both or in neither, because an L2 may evict
  what its L1 keeps, and because two cores' accesses interleave in any order.
* **One cache.** Whatever the policy and the replacement do, reads return the last
  write. Hard because of write-backs during replacement, the four policies and the
  counter that wraps.
* **Exclusive hierarchy.** A block is in one level only and keeps its bytes on every
  way through the levels. Hard because one access moves up to four blocks.
* **Dead-block predictor.** It may bypass the cache but must not change what is read.
  Hard because verdicts are taken from tables the same access has just trained, and
  because three counters are shared by many pcs.
* **Pipeline.** Instructions appear to execute one after the other. Hard because three
  stages may forward to one operand, a stalled instruction is overtaken by the load it
  waits for, and `decode` works on instructions that a branch ahead may drop.
* **Branch predictor.** It should learn what it can. Hard because training uses `yout`,
  which may belong to the branch behind, and because of tables shared by branches.
* **Main loop and memory manager.** Both programs are loaded as linked, both cores are
  stepped until both have ended, their cycle counts stay aligned. Hard because segments,
  stacks and shared pages meet in one page, and stalls of the two cores in any order.

`PROJECT.json` lists every hazard at its line.

## 2. The modules

```
AtomicMemory <- refined by - MesiHierarchy   <- MesiHierarchyProofs, MCMesiHierarchy
AtomicMemory <- refined by - SetAssocCache
LruSets      <- refined by - SetAssocCache   <- SetAssocCacheProofs, MCSetAssocCache (both -> AddressSplit)
AtomicMemory <- refined by - ExclusiveCache  <- ExclusiveCacheProofs, MCExclusiveCache
AtomicMemory <- refined by - SampledCache    <- SampledHistory
SampledHistory                               <- SampledCacheProofs, MCSampledCache -> SkewedHash
LineSets     <- ExclusiveCache, SampledCache
LineSets     <- SharedLemmas <- all the proofs but those of MesiHierarchy
Instructions <- Isa <- refined by - Pipeline <- PipelineProofs, MCPipeline
BranchPredictor                              <- BranchPredictorProofs, MCBranchPredictor
MemoryManager <- DualCore                    <- DualCoreProofs, MCDualCore
```

**`AtomicMemory`** is what any cache promises: a memory of bytes without caches, the
branch of `MemoryManager::setByte` that runs when no cache is attached.

**`MesiHierarchy`** is the build with `DUALCORE` and `MESILOCK`: two cores, L1 and L2
each, L3 and memory as one store `llc`, and the directory. An action is one byte access
(`getByte`, `setByte`), because the program is one thread and an access runs to its end;
the accesses of the two cores interleave freely, as the lines of a trace do. Inside an
action the order of the code is kept: the L2 fill with its replacement, the L1 fill from
the line read *before* the victim is evicted, the reference, the transaction with the
directory and the other controller, the store of the byte. Each function of the protocol
is an operator on the record of one block (`blk[b]`: the copies of both cores, `llc`, the
directory entry); replacement is an operator on the whole hierarchy, as it couples
blocks. `getByteExits` and `setByteExits` are the accesses that end in the `exit()` of
the coherence code. `newer` stands for the comparisons of `lastReference`. A
valid line's `dataTrans` is its data; when a controller has no copy the code ends in
`exit()`, or reads `blocks[-1]` first; both are `...Exits`. The latencies are left out.

**`SetAssocCache`** is one `Cache` with no level below and no coherence: the L3. It keeps
ways, tags, `lastReference` and the wrapping `referenceCounter`, and all four
combinations of the policies. **`LruSets`** is what "LRU" means, without ways, tags or
counters: the blocks held, and for each the blocks of its set used since. **`AddressSplit`** holds
`getTag`, `getId`, `getOffset`, `getAddr`, `isPolicyValid` and the bytes that the loop of
`loadBlockFromLowerLevel` reads, as arithmetic over addresses of a given width; powers of two
are a recursive function, `Two`, of which the provers can be told the laws.

**`ExclusiveCache`** is the build with `EXCLUSIVECACHE`, one core, three levels. An action
is `getByteEx` or `setByteEx` of the L1: the block is taken out of the level it is in,
and each block it displaces goes one level down (`Sink`, once per level). A set is the
sequence of its valid lines in the order of `lastReference` (**`LineSets`**). All drivers
build it with write-allocate, and so does the model; both write policies are initial
states. `Loaded` clears `modified`, as `loadBlockFromLowerLevelEx` does, wherever the line
comes from: with write-back the bytes written before are then lost when the block leaves
the L3 unwritten. `Forgotten` is such a block: the hierarchy has bytes of it that the memory
lacks, and its line is not marked. The refinement of `AtomicMemory` holds at every access
but one by which a forgotten block leaves.

**`SampledCache`** is the build with `SDBP`, the L3: every access carries a pc or the
code's -1. `getByteSamplerset` trains the tables, the verdicts that follow decide over
the bypass, the `deadblock` mark and the victim. **`SampledHistory`** adds a variable that no
action reads, the pcs that have lost a block from the sampler. **`SkewedHash`** holds the
three hash functions with the widths of the code as a parameter.

**`Instructions`**, **`Isa`**, **`Pipeline`**. `Pipeline` has two actions: `singleStep`,
the five stages over the latches of the last cycle, the latching, and the redirection of
the pc at the end; and `panic`, the end of the process when `decode` meets a word it does
not know (also the word of `lwu`, whose case falls through into the panic). The operators
are grouped by stage and named after what the stage leaves (`fetched`, `decoded`,
`executed`, `accessed`); forwarding is one operator, `Forward`, whose order is what the
flags `executeWriteBack` and `memoryWriteBack` establish. The predictor answers anything
that `Predictions(prog)` allows, so each strategy is an instance. `Isa` executes one
instruction at a time; its architectural state is that of the pipeline after `excecute`,
with the results of the two older instructions written (`CommittedReg`, `MemAfter`,
`Reserved`, `NextToExecute`), with what is read and printed. A shape of instruction
stands for all that the control tells apart alike. The stack check, an odd pc,
self-modifying programs and the statistics are left out, and the delay of memory with
them: a core that waits is simply not stepped.

`Orderly` says for which programs this holds: control stays in the program (`Closed`); no
branch that may be predicted not taken has another branch right behind it (`Spaced`, the
fourth finding); and no string is printed right behind a store (`Settled`:
`handleSystemCall` reads memory in `excecute`, a cycle before the store ahead of it
stores). The `pipeline` run fails without `Spaced` or without
`Settled`; a program that is not `Closed` ends in words that are none.

**`BranchPredictor`** has all five strategies with their state, called in the order of the
pipeline: `Decode` predicts, `Execute` predicts the branch behind (if it was fetched) and
*then* trains with the outcome of the branch ahead, so that `yout` is the one of the
branch predicted last. A program is the loop of branches it executes, `Closed` in that a
branch behind one that is not taken is the one executed next.

**`MemoryManager`** has the operators of the page table and the wide accesses as
sequences of bytes; **`DualCore`** is `main()`: five loading steps, then the two cores in
turn. What a core does in a cycle is open (one store, one load, nothing, an exit), the
cycles it then waits too; `cycleCount`, `memoryStallCycles` and the clock are the code's.

A definition named `Bad...` is a plausible slip in the definition after it; each property
of a passing run is violated when its `Bad...` takes that definition's place.

## 3. The runs

| Run | Configuration | Shows |
| --- | --- | --- |
| `mesi_narrow` | 3 blocks, L1 of 1 way, L2 of 2 | `TypeOK`, `SingleWriter`, `DirectoryCoversCopies`, `LevelsAgree` in a geometry where the L2 loses blocks the L1 has, and accesses do exit |
| `mesi` | 4 blocks, one of them written with 2 values, 1 way, 3 ways | `Inclusion`, `HeldIsLive`, `ModifiedIsDirty`, `OwnerAnswers`, `CoresAgree`, and `Transparent`: the hierarchy implements `AtomicMemory`, each access as the step of its own name |
| `mesi_exit` | 4 blocks, all written, 1 way, 3 ways | *violation*: an access meets `exit()` |
| `mesi_stale` | 3 blocks, 2 ways in both levels | *violation*: the cores read different bytes |
| `mesi_takeover` | 1 block of 2 bytes | *violation*: a takeover loses a byte (false sharing) |
| `cache` | 3 blocks in a set of 2 ways, all 4 policies, 6 references | `TypeOK`, `OneWayPerBlock`, `CleanIsCurrent`, `MemoryUnlessUnwritten`: each access is the step of its own name in `AtomicMemory`, unless it lets an `Unwritten` block go, and only a write miss that allocates, written through, leaves a block unwritten; and `ReplacesLru`: the cache implements `LruSets`, each access as `Access` of its own block |
| `exclusive` | 5 blocks, L1 of 2 ways, L2 of 1, L3 of 2 sets of 1 | `TypeOK`, `Exclusive`, `MovesKeepBytes`, `LeavesFromFullL3`, and `MemoryUnlessForgotten`: the hierarchy implements `AtomicMemory`, each access as the step of its own name, unless the access lets a `Forgotten` block go |
| `dead_block` | 4 blocks, 1 way, a sampler set of 3, 2 pcs and accesses without one, words of 3 bits | `TypeOK`, `OnePCPerBlock`, `DeadOnesWereEvicted`, `VerdictsStick`, `BypassIsTransparent` |
| `predictor` | every loop of up to 4 branches over 3 pcs, 2 perceptrons of 3 history bits and a buffer of 2 entries (pcs 0 and 2 share one of each), all strategies | `TypeOK`, `WeightsStaySmall`, `TrainingApproaches`: a training of a perceptron that can tell its branches apart brings it nearer to all weights that do; `PerceptronLearns`; `BufferForgives`: where two taken branches follow each one that is not taken at an entry, every taken branch is predicted right from some point on, also where different branches share the entry or are adjacent; `OvertrainsBehindBranches` |
| `dual_core` | 4 pages of 2 bytes, 3 programs that overlap and one that is refused, 3 steps per core, accesses of 0 or 1 stall cycles | `TypeOK`, `LoadedAsLinked`, `ClocksAligned`, `StoresAreWhole`, `RunsToTheEnd` |
| `pipeline` | every orderly program of 4 instructions, out of 13 or out of 10 with system calls and unknown words, and an `exit()`, 3 registers, 5 values | `TypeOK`, `ExecutesProgram`: the pipeline implements `Isa`; `StallsAreShort`: at most two cycles in a row execute nothing, whatever meets in them; `KeepsExecuting` |
| `pipeline_branches` | programs of 3 instructions, strategy NT | *violation*: a mispredicted branch continues at another branch's target |

Why the bounds are enough. *Coherence*: blocks interact only through replacement, so
the number of blocks needs to exceed the ways of the L2 by one to make every level
evict; sets add nothing, since an evicted block only competes in its own. With an L1 of
one way, an L2 of three is the narrowest that always includes it: one access may replace
twice in the L2 (the fill, and the write-back of the L1's victim). One byte per block is
the case in which `Transparent` can hold (see the third finding); two bytes show where it
does not. *One cache*: the three blocks are in the second of two sets, as one set never acts on
another; the set overflows, and a hit that is not the youngest, a clean, a dirty and an
unwritten victim all occur. The counter (bound `MaxReference`) does not wrap in this run, as
`ReplacesLru` fails once it does (and is proved until then, `CacheIsLru`); that the data survive
the wrap is the theorem `OnlyUnwrittenIsLost`. *Exclusive*: the four blocks of one class compete for one line of the
L3, so that blocks do leave although all five would fit, forgotten ones among them; the
fifth block, of the other L3 set, shows that a block sinks into its own. *Dead
blocks*: a verdict needs counters that sum to 8 of 9, which takes three evictions of one
pc from the sampler, in a set of three entries with a fourth block to displace them.
*Predictor*: four branches at three addresses, two of which share an entry, with a history as
long as the mask of the code leaves (`HistoryKept`: `1 << 34` keeps two bits on x86), and every
closed loop of them in which the branch behind another is at the next address. Four is the
least for a loop of rare exits in which two branches share an entry and a third is behind one of
them; that such loops are among those `BufferForgives` speaks of, and loops of branches that
share a perceptron among those of `PerceptronLearns`, is an assumption TLC checks
(`EntriesAreShared`). *Dual core*: accesses that cross a page, a page that is missing, the
page behind which addresses wrap, a segment that would reach behind it (the process exits);
three steps let each core be stalled, behind and ahead.
*Pipeline*: four instructions are as many as are in flight behind one another with a
producer in each of the three forwarding stages; the offsets allow loops, forward and
backward branches, and jumps through a register.

Where `CHECK_DEADLOCK FALSE` stands, the system may stop: a program that has exited or
panicked, a program that is too large, cores that have terminated, a counter at its bound
(`MaxReference`).

The assumptions of the MC modules are checked with the runs and say what the pure
functions do (the first two are also theorems, for every width): `SplitIsExact` (every accepted policy splits each address of six bits into
parts that give it back), `LoadsAllButTheLastBlock` (the loop of
`loadBlockFromLowerLevel` reads the whole block, but nothing of the last block of the
address space), `ShiftsAreInverse` and `HashesAreSkewed` (at the width of the code the two
shifts undo each other, every hash stays in its table, and two pcs share at most one of
their three counters), `EntriesAreShared` (above).

**Fairness.** `Pipeline`: `WF_vars(Next)`, as the main loop (`MainCPU.cpp:154-165`) calls
`singleStep` of a core in every iteration in which it has not terminated and has no memory
cycles left to wait for, and those count down (which `DualCore` shows). `DualCore`:
`WF_vars(Next)`, one thread in which nothing blocks. `BranchPredictor`: `WF_vars(Next)`,
a core that is stepped meets its next branch.

### Findings

1. *An invalidation of a block that is not there* (`mesi_exit`). A sharer that writes
   sends OTHERWRITE to the other core without asking whether it still has the block.
2. *Stale data with equal associativity* (`mesi_stale`). Both private levels have 8 ways
   (`MainCPU.cpp:61-72`). The L2 then evicts blocks that the L1 keeps. In this geometry
   `Inclusion`, `HeldIsLive`, `ModifiedIsDirty` (which the comment at `Cache.cpp:1177`
   relies on) and `OwnerAnswers` fail too, and an owner may be its own requestor, which
   the comment at `MemoryManager.cpp:330` excludes.
3. *False sharing* (`mesi_takeover`). A block the directory calls EXCLUSIVE is taken over
   without its data, although the owner may have written it.
4. *Two branches in a row* (`pipeline_branches`). `anotherPC` is overwritten by `decode`
   before `excecute` uses it, so that with the default strategy a taken branch followed
   by a branch goes astray. `ImplementsIsa` proves that nothing else goes wrong.

Three things that no text of the repository denies are left at that: write-through with
write-allocate drops the byte of a write miss if the block leaves before a hit writes it, and
nothing else (`OnlyUnwrittenIsLost`); exclusive
write-back loses the bytes of forgotten blocks, and only those (`HierarchyIsMemory`); and the LRU order is lost when the reference counter
wraps.

## 4. What is proved

The theorems hold for every value of the constants that the named assumptions allow.

**`MesiHierarchyProofs`**, from `ZeroAssumption`, `VictimAssumption`, `WaysAssumption`,
`SetAssumption` and `WrittenAssumption` (an L1 of one way or more, an L2 of two or more, a
set for each block): for any blocks, data and geometry, `TypeCorrect`, `WritersAreAlone`,
`DirectoryIsSound` and `LevelsAgreeAlways`. None of the three invariants is inductive
alone. The invariant `BlockInv` joins, for one block, its type (`WellFormed`), the
agreement of its levels and `Covered`: a directory entry that covers the copies is what
makes the new owner of a block the only one, and the agreement of the levels is what makes
an answer of the first level speak for both. The lemmas say of each protocol function that
it keeps `BlockInv` of the block it works on; then that a replacement does, for the victim;
then that a fill and an access do, for all blocks. As replacement is allowed to pick any
block here, these theorems depend neither on LRU nor on inclusion: they also hold in the
geometry of the findings, where data are lost.

The others do depend on the geometry. If `InclusiveGeometry` holds, then `InclusionHolds`,
`HeldStaysLive`, `ModifiedStaysDirty`, `OwnersAnswer`, `CoresAlwaysAgree` and, with one byte
in a block, `CachesAreTransparent`: the hierarchy of both cores implements `AtomicMemory`,
each access as the step of its own name. `OnlyTakeoversLoseBytes` says of blocks of any
size that a write keeps the other bytes unless it takes the block from a core the directory
calls EXCLUSIVE, so that the third finding is the only way for a byte to be lost.
`InclusiveGeometry` has two halves:

* `DirectMapped`: an L1 of one way, over an L2 of three ways or more whose sets refine
  those of the L1 (the configuration of the run `mesi`). At most one other block of its set
  has used the L2 since the block of the L1 did (`Recent`), because a second one would have
  displaced it from the L1. So the L2, which replaces in LRU order, has an older block to
  give up than the one the L1 holds (`VictimIsBelow`).
* `Fits`: any ways and sets, the 8 and 8 of the program included, as long as no set of the L2
  has more blocks than ways. Then the L2 never replaces, whatever the L1 does.

Neither half can be dropped. With two ways in the L1 and an L2 that overflows, a block that
is only ever hit in the L1 ages in the L2, since a hit in the L1 does not reach the L2, until
the L2 gives it up below the L1: that is the second finding. With an L2 of two ways under an
L1 of one, the fill and the write-back of the victim of one access are already two
replacements (`mesi_narrow`). The invariant, `CalmInv`, says of every block that between
two accesses it is `Settled` (its copies, its directory entry and `llc` tell the same story:
the L2 has what an L1 has; a MODIFIED copy is dirty; who is named owner holds the block; a
clean copy equals the data below it; all readers see one value, `Truth`) and of every block
in an L1 that it is `Sheltered` (`Recent`, and alone in its L1 set). `Inclusion` or `CoresAgree` alone are
far from inductive: that the cores agree after a transaction needs the owner to answer, which
needs it to hold the block in the L2, which needs the LRU argument about all blocks of the set.

**`SetAssocCacheProofs`**, from the assumptions of `SetAssocCache`. For every write policy,
`TypeCorrect`, `BlocksAreUnique` and, until the counter wraps (`NoWrap`: the bound of the
references lies below the width), `CacheIsLru` (`ReplacesLru`): the cache implements
`LruSets`. The invariant of the first two says of each set that no two valid ways have one
tag (`ArrayInv`); that of the third adds that the lines of a set have different values of
`lastReference`, none of them above the counter (`Stamped`), so that an access puts its line
above all others and the line with the smallest value is the one all others were used after.
`NoWrap` is needed: with a narrower counter TLC refutes `ReplacesLru`.
Also for every policy, `DroppedLinesAreCurrent` (`CleanIsCurrent`); and, without write-through
with write-allocate (`Lossless`), `CacheIsMemory`, the refinement of `AtomicMemory` in which each
access is the step of its own name (`Transparent`), wrapping or not. Here the inductive invariant is the conjunction of typing, uniqueness
and `CleanIsCurrent`: replacing a line preserves what the cache contains only if the line is
current or written back, and only if no second way holds the block. The step of the
refinement: a write changes `Contents` in the one byte, every other access in none.
`OnlyUnwrittenIsLost` (`MemoryUnlessUnwritten`) is for all four policies. Written back, the same
invariant serves. Written through, none about the bytes is needed: an access leaves the memory
and the lines of all other blocks alone (`Spares`), and a block whose line leaves has the bytes
of the memory unless it was `Unwritten`.

The same module proves of the code's own arithmetic what these theorems assume of it.
`AddressesSplit`: for addresses of any width, and every policy `isPolicyValid` accepts, tag,
index and offset give the address back and `SplitAssumption` holds of the blocks of memory.
`LoadsAllButTheLastBlock`: the loop that loads a block reads all of it and nothing else,
except in the last block of the address space, where it reads nothing. Both are for policies
whose `blockNum * blockSize` does not wrap (`Accepted`): the 32-bit product that
`isPolicyValid` compares would let a cache larger than the address space pass. They rest on
`TwoIs`, `TwoIsAdditive` and `TwoGrows` (the laws of powers of two, by induction), on `LogIs`
(the loop of `log2i` is the logarithm, rounded down) and on `PolicyIs`: the number of sets
need not be a power of two for the split to be exact, only the offset and the index together
must leave a bit to the tag.

**`PipelineProofs`**, from `RegAssumption`, `ValueAssumption`, `ProgramAssumption`,
`MachineAssumption` and `PredictionAssumption`: for any registers, values, programs,
inputs and predictor,

* `TypeCorrect`, with `Latches`: a latch that is no bubble holds an instruction, an
  operand that was read from a register is a value, fetch and decode stall together.
* `ImplementsIsa`: if `Orderly`, the pipeline implements the instruction set. The
  invariant has two parts. `PathInv` ties the latches to the program: what is in `dReg` is
  next to execute, what is in `fReg` is right behind it, unless `dReg` holds a branch
  predicted taken, behind which nothing was fetched and whose target is where the pc is or
  goes when the stall is over; `anotherPC` is where a branch in `dReg` did not go.
  `OperandInv` ties the operands to the registers as the older instructions will leave
  them (`CommittedReg`): they are equal, but for a register that the load just ahead
  produces, in the first of the two stall cycles. `PathStep` goes through the kinds of
  cycles: stalled, flushed, a branch predicted taken, decoding, the last instruction,
  filling up. `CommitStep` says that a cycle commits what executes, and nothing else;
  `ForwardIsCommitted` that the order of the forwarding gives the committed register.
* `MispredictionsAreUndone`: for orderly programs, the property of `pipeline_branches`.
* `IdlesBriefly` (`StallsAreShort`): for orderly programs, `Idle` counts the cycles until the
  next instruction executes (2 behind a stall or an empty `dReg` with nothing in `fReg`), and
  every cycle that executes nothing lowers it. This is the part of `KeepsExecuting` that is not
  fairness; `PathInv` is needed, as it says that behind a bubble the fetched instruction is the
  next one and is not flushed once more.

**`ExclusiveCacheProofs`**, from `WayAssumption` and `IndexAssumption`: for any blocks,
bytes, ways and index functions of the three levels, `TypeCorrect`, `BlocksAreExclusive`
(`Exclusive`), `BytesMoveUnchanged` (`MovesKeepBytes`), `LeaversAreOld` (`LeavesFromFullL3`)
and `HierarchyIsMemory` (`MemoryUnlessForgotten`). An access is followed level by
level: between two levels the line on its way is in none of them (`StateOK`), and `SinkKeeps`
says that a level that takes it in, and sends its oldest line on, keeps that and loses or makes
no line. `PlacedKeeps` composes the three levels, `HitKeeps` is the hit. `Exclusive` alone is
not inductive: it says nothing of the set a line stands in, and a line in a wrong set would be
a second copy that no look-up finds. The invariant adds that every line is in the set of its
block (`BlocksOK`), and for write-through that the memory has the bytes of every line.
`MissSends` adds the order: the set of the L3 that gives up a line is the one the access found,
untouched by the two levels before it and by the removal of the block that comes. `Settles` is
what the write-back half of `HierarchyIsMemory` needs: an access changes the memory for one
block at most, a marked one that leaves, and then to the bytes it had. `MarksGoMovingUp` says
where forgotten blocks come from: only a read that misses in the L1 and finds the block,
marked, in the L2 or the L3 makes one. Together the two theorems say that the reset of
`modified` in `loadBlockFromLowerLevelEx` is the only way for this hierarchy to lose a byte.

**`SampledCacheProofs`**, from `SetAssumption` and `HashAssumption`: for any geometry,
pcs and hash functions, `TypeCorrect`, `SamplerIsUnique` (`OnePCPerBlock`), `BypassIsSafe`
(`BypassIsTransparent`), `VerdictsStay` (`VerdictsStick`) and, with the history variable,
`DeadOnesLostBlocks` (`DeadOnesWereEvicted`). The invariant says of the
cache that a block has one line in its set and that an unmodified line equals the memory
(`CacheInv`), and of the sampler that its sets have one entry for a block and its counters
two bits (`SamplerInv`). `ChangeBecomes` is the heart of the refinement: if the line of one
block is new and the lines that leave have their bytes in memory, the bytes of that block
are those of the new line and no other block's change; a hit and a load are instances of
it, so it does not matter which line a load replaces, nor what the predictor answers.
`TrainSpares` is the one of `VerdictsStay`: what an access takes from the sum of a pc it
takes from a counter both share. `DeadOnesWereEvicted` speaks of the three counters of a pc
that is found dead; what is inductive is `Raised`, that every counter above zero is that of a
pc which lost a block. It needs the uniqueness of the sampler: the block that falls out has no
second entry, so it is gone from its set, and the pc that is taught is in the history.

**`DualCoreProofs`**, from `PageAssumption`, `ByteAssumption` and the assumptions of
`DualCore`: `ClocksStayAligned`, `TypeCorrect`, `StoresArrive` (`StoresAreWhole`) and, when
no stack reaches below address 0 (`StacksFit`), `ProgramsAreLoaded` (`LoadedAsLinked`): the code
itself refuses the segments that reach too far, and the proof shows that its check is enough. The invariant for the clocks is `ClocksAligned` with
the types of the counters; each turn moves the clock of one core by one, as it does what the
core has counted and what it waits for. What a store and a loading step do is settled byte by
byte: `SameByte` says that two addresses mean the same byte exactly if they are equal modulo
the size of the address space, which takes the arithmetic of pages and offsets; `SetByteIs`,
`AddPageIs` and `PutIs` give every byte after one call; `SetBytesIs`, `LoadSegmentIs`,
`LoadElfIs`, `InitStackIs` and `AddPagesAre` after a loop of them. `LoadInv` then says of each
loading step what is in memory before it (`Given`), and `AlignedInOnePage` that a value whose
length divides the page does not leave the page of its first byte.
`LoopTakesTheSlowerCore` is the part of `RunsToTheEnd` that is not fairness: the clock never
passes the cycle count of the slower core, nor the number of its steps times the longest
access, so that the stalls of one core are never added to those of the other. The invariant
(`TimeInv`) adds to `ClocksAligned` which turn was the last when both cores have terminated.

**`BranchPredictorProofs`**, from the assumptions of `BranchPredictor`: `TypeCorrect` and
`SureOnesAreLeftAlone` (`OvertrainsBehindBranches`). `TypeOK` is inductive: that the branch in
`dReg` is the one the program comes to uses `Closed` in the cycle that trains one branch and
keeps the prediction of the next.

Then perceptron convergence, for this perceptron: it trains on a wrong sign or a sum up to the
threshold, in `int` weights, with the history as it stands when the branch executes. Suppose
some weights of -1, 0 and 1 give the right sign for every branch that comes to a perceptron
(`Separates`). Its *goal* (`Goal`) is these weights doubled, with a bias one higher, which
tells the sums 0 and -1 apart, and scaled up by `Scale`, so that each sum exceeds the threshold
by enough; `Distance` is the squared distance of the perceptron to the goal.
`TrainingsApproach` (`TrainingApproaches`): if the branches are `Spaced` and the history is
`Steady`, the one the loop leaves, each training lowers the distance to every goal. A training
that is due lowers it because the sum was too small where the goal's is large enough; that
every training *is* due needs spaced branches, as `yout` is then that of the branch trained.
The invariant is `LearnInv`: what decode left belongs to the branch that waits (`Sure`), every
distance is within `Budget` (`Near`), and the history is steady or still warming up (`Warm`):
after the first k branches it has the last k outcomes (`Follows`) and no weight is larger than
k (`Small`). From it follow `WeightsKeepNear`, that no weight of a perceptron that can learn
wraps, and `MissesAreFew`: in all of a run such a perceptron mispredicts at most
`Bits + Budget` times (`Bits` history bits are kept), counted by the history variable `misses`;
the history length and the threshold alone give that number. All three assume `Wide`, that an
`int` has room for the bound; with the code's numbers (threshold 79, a history of 34 of which
two are kept, 32 bits) `Budget` is about 4.1 million and `Wide` holds. The instance of the run
has narrower weights and is not `Wide`; that `TrainingApproaches` holds there too is what TLC
adds.

**`SharedLemmas`** has what several of these need: the blocks and lines of a set after one is
taken out or put in; division with rest; that a set of natural numbers has a smallest element,
and so induction over a named set (`Induction`); and that a recursive function over `0 .. n`
exists (`IterationExists`). A recursive function is defined by `CHOOSE`, and satisfies its
equation only if some function does: each loop of the memory manager, and the sum of a
perceptron, is shown to exist before it is used.

**Only model-checked**: `WeightsStaySmall`, whose bound of twice the threshold belongs to the
short histories of the instance. For loops whose branches a perceptron can tell apart
`WeightsKeepNear` proves a general bound; for the others weights are bounded too, but by the
perceptron cycling theorem, whose bound is not constructive. Liveness (`KeepsExecuting`,
`RunsToTheEnd`, `PerceptronLearns`, `BufferForgives`) is out of the prover's reach; of the first
three the safety half is proved, as a measure that falls (`StallsAreShort`,
`TrainingApproaches`) or a bound (`LoopTakesTheSlowerCore`, `MissesAreFew`), and what is
left to TLC is that fairness lets the measure fall. `BufferForgives` is about the order in which
branches come round and has only its run. `SkewedHash` uses `Bitwise`, which no theorem
can reach. `StoresKeepBytes`, the property of `OnlyTakeoversLoseBytes`, has no run: the
passing runs of the hierarchy have blocks of one byte, where it says nothing.

## 5. What is not modelled, and the plan

**LR and SC across cores** is what the plan has left: two `Pipeline`s over one memory. A
core's reservations are its own; `DualCore` abstracts from what a store is for.

Not planned: the trace converter (text to text), the image processor (a program of its
own, arithmetic over one picture), the debug helpers, the ELF reader (third-party), plots
and test inputs. The statistics, the trace history and the verbose output are left out of
every module. `copyFrom` has no caller. `CacheSim` (`MainCache.cpp`) gives its only cache
level 1 with nothing below and a core number that is never set, and stops in its first
miss when built with `MESILOCK`.
