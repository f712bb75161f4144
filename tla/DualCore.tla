------------------------------ MODULE DualCore ------------------------------
(***************************************************************************)
(* main() of the simulator built with DUALCORE: load the two programs, set *)
(* up the stacks and the shared pages, and then step the two cores in      *)
(* turn, each unless it has terminated or waits for its last memory access,*)
(* until both have terminated.                                             *)
(*                                                                         *)
(* What a core does in a cycle is open: one access of its memory stage or  *)
(* none, and perhaps the exit() of the instruction behind it.  The other   *)
(* stages and the caches are left out: Pipeline and MesiHierarchy model    *)
(* them, and say when a memory with caches is the memory assumed here.     *)
(* A definition named Bad... is a mutant of the one after it.              *)
(***************************************************************************)
EXTENDS MemoryManager

CONSTANTS
    Programs,       \* ELF files: sequences of segments
    StackBase,      \* StackBase[c]: the highest address of a core's stack
    StackSize,
    SharedPages,    \* an address in each page main() adds at the end
    Value,          \* what the programs store, of 1, 2, 4 or 8 bytes
    MaxLatency,     \* an access takes at most so many cycles
    MaxSteps        \* a core's program ends after at most MaxSteps steps

Core == {0, 1}
ASSUME StackAssumption == StackSize \in Nat /\ StackBase \in [Core -> Addr]
ASSUME SharedAssumption == SharedPages \in Seq(Addr)
ASSUME ProgramAssumption == Programs \subseteq Seq(Segment)
\* The lengths of the values, 1, 2, 4 and 8, divide a page.
ASSUME AccessAssumption == /\ Value \subseteq Seq(Byte) \ {<<>>}
                           /\ \A val \in Value : PageSize % Len(val) = 0
                           /\ MaxLatency \in Nat /\ MaxSteps \in Nat

VARIABLES
    elf,                \* the program of each core
    memory,
    phase,              \* what main() does next
    turn,               \* the core the loop comes to next
    clockCycle,
    terminate, memoryStallCycles, cycleCount,   \* of each core
    steps,              \* steps a core has made: bounds the runs
    panicked            \* panic() has ended the process
core == <<terminate, memoryStallCycles, cycleCount, steps>>
vars == <<elf, memory, phase, turn, clockCycle, core, panicked>>

Init ==
    /\ elf \in [Core -> Programs]
    /\ memory = [p \in {} |-> NewPage]
    /\ phase = "load 0"
    /\ turn = 0 /\ clockCycle = 0
    /\ terminate = [c \in Core |-> FALSE]
    /\ memoryStallCycles = [c \in Core |-> 0]
    /\ cycleCount = [c \in Core |-> 0]
    /\ steps = [c \in Core |-> 0]
    /\ panicked = FALSE
-----------------------------------------------------------------------------
\* One call of main() before the loop.
Start(now, next, mem) ==
    /\ phase = now
    /\ phase' = next
    /\ memory' = mem
    /\ UNCHANGED <<elf, turn, clockCycle, core, panicked>>

\* A program with a segment that is too large ends the process.
Load(c, now, next) ==
    Start(now, IF Loadable(elf[c], Len(elf[c])) THEN next ELSE "exited",
          loadElfToMemory(memory, elf[c]))

Startup ==
    \/ Load(0, "load 0", "load 1")
    \/ Load(1, "load 1", "stack 0")
    \/ Start("stack 0", "stack 1", initStack(memory, StackBase[0], StackSize))
    \/ Start("stack 1", "share", initStack(memory, StackBase[1], StackSize))
    \/ Start("share", "run", addPages(memory, SharedPages))
-----------------------------------------------------------------------------
\* The loop ends as soon as one core has terminated.
BadAtTurn(c) ==
    /\ phase = "run" /\ ~panicked
    /\ ~((terminate[0] \/ terminate[1]) /\ turn = 0)
    /\ turn = c
    /\ turn' = 1 - c
    /\ clockCycle' = clockCycle + c
    /\ UNCHANGED <<elf, phase>>

\* The loop comes to core c, and goes on to the other one; it looks whether
\* both have terminated when it has been at both.
AtTurn(c) ==
    /\ phase = "run" /\ ~panicked
    /\ ~(terminate[0] /\ terminate[1] /\ turn = 0)
    /\ turn = c
    /\ turn' = 1 - c
    /\ clockCycle' = clockCycle + c
    /\ UNCHANGED <<elf, phase>>

\* It has terminated: its stall cycles are not even asked for.
Skip(c) ==
    /\ terminate[c]
    /\ AtTurn(c)
    /\ UNCHANGED <<memory, core, panicked>>

\* Tells what is left after the decrement.
BadstallCycles(c) == memoryStallCycles[c] - 1
\* stallCycles() tells the cycles that are left, and takes one of them.
stallCycles(c) == memoryStallCycles[c]

polled(c) == IF memoryStallCycles[c] > 0 THEN memoryStallCycles[c] - 1
             ELSE memoryStallCycles[c]

Stall(c) ==
    /\ ~terminate[c] /\ stallCycles(c) > 0
    /\ AtTurn(c)
    /\ memoryStallCycles' = [memoryStallCycles EXCEPT ![c] = polled(c)]
    /\ UNCHANGED <<memory, terminate, cycleCount, steps, panicked>>

\* Waits for the cycle of the step as well.
BadStepped(c, cycles) ==
    /\ ~terminate[c] /\ stallCycles(c) <= 0
    /\ steps[c] < MaxSteps
    /\ AtTurn(c)
    /\ steps' = [steps EXCEPT ![c] = @ + 1]
    /\ terminate' = [terminate EXCEPT ![c] = steps[c] + 1 = MaxSteps]
    /\ cycleCount' = [cycleCount EXCEPT ![c] = @ + cycles + 1]
    /\ memoryStallCycles' = [memoryStallCycles EXCEPT ![c] = cycles + 1]
    /\ UNCHANGED panicked

\* singleStep, whose memory stage took `cycles`; exit() may be executed in
\* the same cycle, and is at the latest when the program is over.
Stepped(c, cycles) ==
    /\ ~terminate[c] /\ stallCycles(c) <= 0
    /\ steps[c] < MaxSteps
    /\ AtTurn(c)
    /\ steps' = [steps EXCEPT ![c] = @ + 1]
    /\ \E exits \in IF steps[c] + 1 < MaxSteps THEN BOOLEAN ELSE {TRUE} :
            terminate' = [terminate EXCEPT ![c] = exits]
    /\ cycleCount' = [cycleCount EXCEPT ![c] = @ + cycles + 1]
    /\ memoryStallCycles' = [memoryStallCycles EXCEPT ![c] = cycles]
    /\ UNCHANGED panicked

\* A bubble, an instruction without an access, or a load.
NoStore(c) == /\ \E cycles \in 0 .. MaxLatency : Stepped(c, cycles)
              /\ UNCHANGED memory

Store(c, addr, val) ==
    /\ accepts(memory, addr)
    /\ \E cycles \in 0 .. MaxLatency : Stepped(c, cycles)
    /\ memory' = setBytes(memory, addr, val)

\* The store was refused: panic() ends both cores, in the middle of the step.
Panic(c, addr, val) ==
    /\ ~terminate[c] /\ stallCycles(c) <= 0
    /\ steps[c] < MaxSteps
    /\ ~accepts(memory, addr)
    /\ AtTurn(c)
    /\ panicked' = TRUE
    /\ UNCHANGED <<memory, core>>

Next ==
    \/ Startup
    \/ \E c \in Core :
        \/ Skip(c) \/ Stall(c) \/ NoStore(c)
        \/ \E addr \in Addr, val \in Value : Store(c, addr, val) \/ Panic(c, addr, val)

\* One thread runs it all, and nothing in it blocks.
Spec == Init /\ [][Next]_vars /\ WF_vars(Next)
-----------------------------------------------------------------------------
TypeOK ==
    /\ elf \in [Core -> Programs]
    /\ DOMAIN memory \subseteq Page
    /\ \A p \in DOMAIN memory : memory[p] \in [0 .. PageSize - 1 -> Byte]
    /\ phase \in {"load 0", "load 1", "stack 0", "stack 1", "share", "run", "exited"}
    /\ turn \in Core /\ clockCycle \in Nat
    /\ terminate \in [Core -> BOOLEAN]
    /\ memoryStallCycles \in [Core -> 0 .. MaxLatency]
    /\ cycleCount \in [Core -> Nat] /\ steps \in [Core -> 0 .. MaxSteps]
    /\ panicked \in BOOLEAN

Covers(seg, a) == a \in seg.addr .. seg.addr + seg.memsz - 1
Linked(c, a) == {n \in DOMAIN elf[c] : Covers(elf[c][n], a)}
InStack(a) == \E c \in Core : a \in StackBase[c] - StackSize + 1 .. StackBase[c]

\* What a file says of a byte: the last of its segments that covers it.
Image(c, a) ==
    LET n == CHOOSE n \in Linked(c, a) : \A k \in Linked(c, a) : k <= n
        seg == elf[c][n]
        k == a - seg.addr + 1
    IN  IF k <= Len(seg.data) THEN seg.data[k] ELSE 0

\* When the cores start, each byte is what the linker of its program put
\* there, also where the programs, the stacks and the shared pages meet in
\* one page, and every byte that was put somewhere has a page.
LoadedAsLinked ==
    phase = "run" /\ clockCycle = 0 /\ turn = 0 =>
        \A a \in Addr :
            /\ getByte(memory, a) = IF InStack(a) THEN 0
                                    ELSE IF Linked(1, a) # {} THEN Image(1, a)
                                    ELSE IF Linked(0, a) # {} THEN Image(0, a)
                                    ELSE 0
            /\ InStack(a) \/ Linked(0, a) # {} \/ Linked(1, a) # {} =>
                isAddrExist(memory, a)

\* Which cycle a core has reached when the loop stands before it.
Clock(c) == IF turn = 1 /\ c = 0 THEN clockCycle + 1 ELSE clockCycle

\* The cores are aligned: what a core has counted is the global clock and
\* the cycles it will still sit out, however the accesses of the two overlap.
ClocksAligned ==
    ~panicked => \A c \in Core : ~terminate[c] =>
        cycleCount[c] = Clock(c) + memoryStallCycles[c]

\* An aligned store, and any store all of whose pages exist, is read back
\* whole and touches no other byte, or the process ends: no core goes on
\* after a store of which only a part arrived.
StoresAreWhole ==
    [][\A c \in Core, addr \in Addr, val \in Value :
        /\ addr % Len(val) = 0 \/ \A k \in DOMAIN val : isAddrExist(memory, addr + k - 1)
        /\ Store(c, addr, val)
        => /\ getBytes(memory', addr, Len(val)) = val
           /\ \A a \in Addr : (a - addr) % AddrMod >= Len(val) =>
                getByte(memory', a) = getByte(memory, a)]_vars

\* However the stalls of the two cores fall, no core waits for the other: the
\* loop ends with both terminated, unless a panic ends it or a program was
\* too large to be loaded.
Ended == phase = "exited" \/ panicked \/ (terminate[0] /\ terminate[1])
RunsToTheEnd == <>Ended
=============================================================================
