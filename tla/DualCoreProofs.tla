--------------------------- MODULE DualCoreProofs ---------------------------
(***************************************************************************)
(* For any programs, memory, latency and length of the run: the cycle      *)
(* counts of the two cores stay aligned with the clock of the loop, the    *)
(* cores start with what their linkers wrote, stores arrive whole, and the *)
(* loop takes no longer than the slower of the two cores.                  *)
(***************************************************************************)
EXTENDS DualCore, SharedLemmas

USE DEF Core

\* The part of TypeOK that the loop itself needs.
CoresOK ==
    /\ turn \in Core /\ clockCycle \in Nat
    /\ terminate \in [Core -> BOOLEAN]
    /\ memoryStallCycles \in [Core -> 0 .. MaxLatency]
    /\ cycleCount \in [Core -> Nat] /\ steps \in [Core -> 0 .. MaxSteps]
    /\ panicked \in BOOLEAN

\* ClocksAligned is inductive once the cores are well formed: Clock tells
\* where core 0 stands when the loop has been at it and not yet at core 1.
CoresInv == CoresOK /\ ClocksAligned
-----------------------------------------------------------------------------
LEMMA InitCores == Init => CoresInv
  <1> SUFFICES ASSUME Init PROVE CoresInv
      OBVIOUS
  <1>1. 0 \in 0 .. MaxLatency /\ 0 \in 0 .. MaxSteps
      BY AccessAssumption
  <1>2. CoresOK
      BY <1>1 DEF Init, CoresOK
  <1>3. ClocksAligned
    <2>1. turn = 0 /\ clockCycle = 0
        BY DEF Init
    <2>2. \A c \in Core : cycleCount[c] = 0 /\ memoryStallCycles[c] = 0
        BY DEF Init
    <2>3. \A c \in Core : Clock(c) = 0
        BY <2>1 DEF Clock
    <2> QED
        BY <2>2, <2>3 DEF ClocksAligned
  <1> QED
      BY <1>2, <1>3 DEF CoresInv

\* Loading, the stacks and the shared pages leave both cores alone.
LEMMA StartupKeeps == CoresInv /\ Startup => CoresInv'
  <1> SUFFICES ASSUME CoresInv, Startup PROVE CoresInv'
      OBVIOUS
  <1>1. UNCHANGED <<turn, clockCycle, core, panicked>>
      BY DEF Startup, Load, Start
  <1> QED
      BY <1>1 DEF CoresInv, CoresOK, ClocksAligned, Clock, core

\* The loop goes on from core c: the clock of the other core is what it was,
\* and that of core c is one ahead.
LEMMA TurnsMoveClocks ==
    ASSUME CoresOK, NEW c \in Core, AtTurn(c)
    PROVE  /\ turn' \in Core /\ clockCycle' \in Nat
           /\ Clock(c) \in Nat
           /\ Clock(c)' = Clock(c) + 1
           /\ \A d \in Core \ {c} : Clock(d)' = Clock(d)
  <1>1. CASE c = 0
      BY <1>1 DEF CoresOK, AtTurn, Clock
  <1>2. CASE c = 1
      BY <1>2 DEF CoresOK, AtTurn, Clock
  <1> QED
      BY <1>1, <1>2

LEMMA SkipKeeps ==
    ASSUME CoresInv, NEW c \in Core, Skip(c)
    PROVE  CoresInv'
  <1>1. CoresOK'
      BY TurnsMoveClocks DEF CoresInv, CoresOK, Skip, core
  <1>2. ClocksAligned'
      BY TurnsMoveClocks DEF CoresInv, ClocksAligned, Skip, core
  <1> QED
      BY <1>1, <1>2 DEF CoresInv

\* A core that stalls counts no cycle, and has one less to wait for.
LEMMA StallKeeps ==
    ASSUME CoresInv, NEW c \in Core, Stall(c)
    PROVE  CoresInv'
  <1> USE DEF CoresInv, CoresOK
  <1>1. polled(c) = memoryStallCycles[c] - 1 /\ polled(c) \in 0 .. MaxLatency
      BY AccessAssumption DEF Stall, stallCycles, polled
  <1>2. CoresOK'
      BY <1>1, TurnsMoveClocks DEF Stall
  <1>3. ASSUME ~panicked', NEW d \in Core, ~terminate'[d]
        PROVE  cycleCount'[d] = Clock(d)' + memoryStallCycles'[d]
    <2>1. cycleCount[d] = Clock(d) + memoryStallCycles[d]
        BY <1>3 DEF ClocksAligned, Stall
    <2>2. CASE d = c
        BY <1>1, <2>1, <2>2, TurnsMoveClocks, AccessAssumption DEF Stall
    <2>3. CASE d # c
        BY <2>1, <2>3, TurnsMoveClocks DEF Stall
    <2> QED
        BY <2>2, <2>3
  <1>4. ClocksAligned'
      BY <1>3 DEF ClocksAligned
  <1> QED
      BY <1>2, <1>4

\* A step counts its own cycle and those of its access; it was taken with no
\* cycle left to wait for.
LEMMA StepKeeps ==
    ASSUME CoresInv, NEW c \in Core, NEW cycles \in 0 .. MaxLatency,
           Stepped(c, cycles)
    PROVE  CoresInv'
  <1> USE DEF CoresInv, CoresOK
  <1>1. memoryStallCycles[c] = 0 /\ steps[c] + 1 \in 0 .. MaxSteps
      BY AccessAssumption DEF Stepped, stallCycles
  <1>2. cycleCount[c] + cycles + 1 \in Nat
      BY AccessAssumption
  <1>3. CoresOK'
      BY <1>1, <1>2, TurnsMoveClocks DEF Stepped
  <1>4. ASSUME ~panicked', NEW d \in Core, ~terminate'[d]
        PROVE  cycleCount'[d] = Clock(d)' + memoryStallCycles'[d]
    <2>1. CASE d = c
      <3>1. cycleCount[c] = Clock(c) + memoryStallCycles[c]
          BY <1>4 DEF ClocksAligned, Stepped
      <3>2. cycleCount'[c] = cycleCount[c] + cycles + 1
          BY DEF Stepped
      <3>3. memoryStallCycles'[c] = cycles
          BY DEF Stepped
      <3>4. Clock(c) \in Nat /\ Clock(c)' = Clock(c) + 1
          BY TurnsMoveClocks DEF Stepped
      <3>5. cycles \in Nat
          BY AccessAssumption
      <3>6. cycleCount'[c] = Clock(c)' + memoryStallCycles'[c]
          BY <1>1, <3>1, <3>2, <3>3, <3>4, <3>5
      <3> QED
          BY <2>1, <3>6
    <2>2. CASE d # c
      <3>1. cycleCount[d] = Clock(d) + memoryStallCycles[d]
          BY <1>4, <2>2 DEF ClocksAligned, Stepped
      <3>2. cycleCount'[d] = cycleCount[d] /\ memoryStallCycles'[d] = memoryStallCycles[d]
          BY <2>2 DEF Stepped
      <3>3. Clock(d)' = Clock(d)
          BY <2>2, TurnsMoveClocks DEF Stepped
      <3> QED
          BY <3>1, <3>2, <3>3
    <2> QED
        BY <2>1, <2>2
  <1>5. ClocksAligned'
      BY <1>4 DEF ClocksAligned
  <1> QED
      BY <1>3, <1>5

LEMMA PanicKeeps ==
    ASSUME CoresInv, NEW c \in Core, NEW addr, NEW val, Panic(c, addr, val)
    PROVE  CoresInv'
  <1>1. CoresOK'
      BY TurnsMoveClocks DEF CoresInv, CoresOK, Panic, core
  <1>2. ClocksAligned'
      BY DEF ClocksAligned, Panic
  <1> QED
      BY <1>1, <1>2 DEF CoresInv

LEMMA NextKeeps == CoresInv /\ [Next]_vars => CoresInv'
  <1> SUFFICES ASSUME CoresInv, [Next]_vars PROVE CoresInv'
      OBVIOUS
  <1>1. CASE Startup
      BY <1>1, StartupKeeps
  <1>2. ASSUME NEW c \in Core, Skip(c) PROVE CoresInv'
      BY <1>2, SkipKeeps
  <1>3. ASSUME NEW c \in Core, Stall(c) PROVE CoresInv'
      BY <1>3, StallKeeps
  <1>4. ASSUME NEW c \in Core, NoStore(c) PROVE CoresInv'
      BY <1>4, StepKeeps DEF NoStore
  <1>5. ASSUME NEW c \in Core, NEW addr \in Addr, NEW val \in Value,
               Store(c, addr, val)
        PROVE  CoresInv'
      BY <1>5, StepKeeps DEF Store
  <1>6. ASSUME NEW c \in Core, NEW addr \in Addr, NEW val \in Value,
               Panic(c, addr, val)
        PROVE  CoresInv'
      BY <1>6, PanicKeeps
  <1>7. CASE UNCHANGED vars
      BY <1>7 DEF CoresInv, CoresOK, ClocksAligned, Clock, vars, core
  <1> QED
      BY <1>1, <1>2, <1>3, <1>4, <1>5, <1>6, <1>7 DEF Next

\* ClocksAligned holds for any programs, any memory, any latencies: a core
\* that runs is never ahead of the clock of the main loop by more than the
\* cycles it will still be held back, and never behind it.
THEOREM ClocksStayAligned == Spec => []ClocksAligned
  <1>1. CoresInv => ClocksAligned
      BY DEF CoresInv
  <1> QED
      BY InitCores, NextKeeps, <1>1, PTL DEF Spec
-----------------------------------------------------------------------------
(* How long the loop runs: the cores stall side by side.                   *)

\* When both cores have terminated, the slower one has counted every cycle
\* of the clock, that of the turn it had last included.
TimeInv ==
    /\ CoresInv
    /\ ~panicked /\ terminate[0] /\ terminate[1] =>
            \E c \in Core : clockCycle + turn <= cycleCount[c]
    /\ \A c \in Core : cycleCount[c] <= steps[c] * (MaxLatency + 1)

TakesTheSlowerCore ==
    ~panicked => /\ \E c \in Core : clockCycle <= cycleCount[c]
                 /\ clockCycle <= MaxSteps * (MaxLatency + 1)

LEMMA StepsTakeTime ==
    ASSUME CoresInv, NEW c \in Core, NEW cycles \in 0 .. MaxLatency,
           Stepped(c, cycles),
           \A d \in Core : cycleCount[d] <= steps[d] * (MaxLatency + 1)
    PROVE  \A d \in Core : cycleCount'[d] <= steps'[d] * (MaxLatency + 1)
  <1> TAKE d \in Core
  <1>1. /\ cycleCount \in [Core -> Nat] /\ steps \in [Core -> 0 .. MaxSteps]
        /\ MaxLatency \in Nat /\ MaxSteps \in Nat
      BY AccessAssumption DEF CoresInv, CoresOK
  <1>2. PICK longest \in Nat : longest = MaxLatency + 1
      BY <1>1
  <1>3. CASE d # c
      BY <1>1, <1>3 DEF Stepped
  <1>4. CASE d = c
    <2>1. cycleCount'[c] = cycleCount[c] + cycles + 1 /\ steps'[c] = steps[c] + 1
        BY <1>1 DEF Stepped
    <2>2. cycles + 1 <= longest /\ cycles \in Nat
        BY <1>1, <1>2
    <2>3. PICK n \in Nat : n = steps[c]
        BY <1>1
    <2>4. (n + 1) * longest = n * longest + longest /\ n * longest \in Nat
        BY <1>2
    <2>5. cycleCount[c] <= n * longest
        BY <1>2, <2>3
    <2> QED
        BY <1>1, <1>2, <1>4, <2>1, <2>2, <2>3, <2>4, <2>5
  <1> QED
      BY <1>3, <1>4

\* The core that terminates last was not stalled, and so on the clock.
LEMMA LastStep ==
    ASSUME CoresInv, ~panicked, NEW c \in Core, NEW cycles \in 0 .. MaxLatency,
           Stepped(c, cycles)
    PROVE  clockCycle' + turn' <= cycleCount'[c]
  <1> USE DEF CoresInv, CoresOK
  <1>1. memoryStallCycles[c] = 0 /\ ~terminate[c] /\ AtTurn(c)
      BY AccessAssumption DEF Stepped, stallCycles
  <1>2. cycleCount[c] = Clock(c) + 0 /\ Clock(c) = clockCycle
      BY <1>1 DEF ClocksAligned, AtTurn, Clock
  <1>3. cycleCount'[c] = cycleCount[c] + cycles + 1 /\ cycles \in Nat
      BY AccessAssumption DEF Stepped
  <1>4. clockCycle' + turn' = clockCycle + 1 /\ clockCycle \in Nat
      BY <1>1 DEF AtTurn
  <1> QED
      BY <1>2, <1>3, <1>4

LEMMA TimeStep == TimeInv /\ [Next]_vars => TimeInv'
  <1> SUFFICES ASSUME TimeInv, [Next]_vars PROVE TimeInv'
      OBVIOUS
  <1>1. CoresInv /\ CoresInv'
      BY NextKeeps DEF TimeInv
  <1>2. CASE Startup \/ UNCHANGED vars
    <2>1. UNCHANGED <<turn, clockCycle, core, panicked>>
        BY <1>2 DEF Startup, Load, Start, vars
    <2> QED
        BY <1>1, <2>1 DEF TimeInv, core
  <1>3. ASSUME NEW c \in Core, Skip(c) PROVE TimeInv'
    <2>1. ~panicked' /\ terminate'[0] /\ terminate'[1] =>
            \E d \in Core : clockCycle' + turn' <= cycleCount'[d]
      <3> SUFFICES ASSUME terminate[0], terminate[1]
                   PROVE  \E d \in Core : clockCycle' + turn' <= cycleCount'[d]
          BY <1>3 DEF Skip, core
      <3>1. turn = 1 /\ c = 1 /\ ~panicked /\ clockCycle' + turn' = clockCycle + turn
          BY <1>1, <1>3 DEF Skip, AtTurn, CoresInv, CoresOK
      <3> QED
          BY <1>3, <3>1 DEF TimeInv, Skip, core
    <2> QED
        BY <1>1, <1>3, <2>1 DEF TimeInv, Skip, core
  <1>4. ASSUME NEW c \in Core, Stall(c) PROVE TimeInv'
      BY <1>1, <1>4 DEF TimeInv, Stall
  <1>5. ASSUME NEW c \in Core, NEW cycles \in 0 .. MaxLatency, Stepped(c, cycles)
        PROVE  TimeInv'
    <2>1. ~panicked
        BY <1>5 DEF Stepped, AtTurn
    <2>2. clockCycle' + turn' <= cycleCount'[c]
        BY <1>1, <1>5, <2>1, LastStep
    <2>3. \A d \in Core : cycleCount'[d] <= steps'[d] * (MaxLatency + 1)
        BY <1>1, <1>5, StepsTakeTime DEF TimeInv
    <2> QED
        BY <1>1, <2>2, <2>3 DEF TimeInv
  <1>6. ASSUME NEW c \in Core, NEW addr, NEW val, Panic(c, addr, val) PROVE TimeInv'
      BY <1>1, <1>6 DEF TimeInv, Panic, core
  <1> QED
      BY <1>2, <1>3, <1>4, <1>5, <1>6 DEF Next, NoStore, Store

\* The loop takes no longer than the slower of the two cores alone, and a
\* bounded time if their programs end: whatever the accesses of the two cost,
\* neither waits for the other.  What is left of RunsToTheEnd is fairness.
THEOREM LoopTakesTheSlowerCore == Spec => []TakesTheSlowerCore
  <1>1. Init => TimeInv
    <2> SUFFICES ASSUME Init PROVE TimeInv
        OBVIOUS
    <2>1. CoresInv
        BY InitCores
    <2>2. \A c \in Core : cycleCount[c] = 0 /\ steps[c] = 0 /\ ~terminate[c]
        BY DEF Init
    <2>3. 0 <= 0 * (MaxLatency + 1)
        BY AccessAssumption
    <2> QED
        BY <2>1, <2>2, <2>3 DEF TimeInv
  <1>2. ASSUME TimeInv PROVE TakesTheSlowerCore
    <2> SUFFICES ASSUME ~panicked
                 PROVE  /\ \E c \in Core : clockCycle <= cycleCount[c]
                        /\ clockCycle <= MaxSteps * (MaxLatency + 1)
        BY DEF TakesTheSlowerCore
    <2>1. /\ turn \in Core /\ clockCycle \in Nat /\ cycleCount \in [Core -> Nat]
          /\ memoryStallCycles \in [Core -> 0 .. MaxLatency]
          /\ steps \in [Core -> 0 .. MaxSteps] /\ ClocksAligned
          /\ MaxLatency \in Nat /\ MaxSteps \in Nat
        BY <1>2, AccessAssumption DEF TimeInv, CoresInv, CoresOK
    <2>2. PICK c \in Core : clockCycle <= cycleCount[c]
      <3>1. CASE terminate[0] /\ terminate[1]
          BY <1>2, <2>1, <3>1 DEF TimeInv
      <3>2. ASSUME NEW c \in Core, ~terminate[c] PROVE clockCycle <= cycleCount[c]
        <4>1. cycleCount[c] = Clock(c) + memoryStallCycles[c]
            BY <2>1, <3>2 DEF ClocksAligned
        <4>2. Clock(c) \in Nat /\ Clock(c) >= clockCycle
            BY <2>1 DEF Clock
        <4> QED
            BY <2>1, <4>1, <4>2
      <3> QED
          BY <3>1, <3>2
    <2>3. cycleCount[c] <= MaxSteps * (MaxLatency + 1)
      <3>1. PICK longest \in Nat : longest = MaxLatency + 1
          BY <2>1
      <3>2. PICK n \in 0 .. MaxSteps : n = steps[c]
          BY <2>1
      <3>3. n * longest <= MaxSteps * longest
        <4>1. PICK more \in Nat : MaxSteps = n + more
          <5>1. MaxSteps - n \in Nat /\ MaxSteps = n + (MaxSteps - n)
              BY <2>1, <3>2
          <5> QED
              BY <5>1, Zenon
        <4>2. MaxSteps * longest = n * longest + more * longest
              /\ n * longest \in Nat /\ more * longest \in Nat
            BY <3>1, <3>2, <4>1
        <4> QED
            BY <4>2
      <3>4. cycleCount[c] <= n * longest
          BY <1>2, <3>1, <3>2 DEF TimeInv
      <3>5. n * longest \in Int /\ MaxSteps * longest \in Int
          BY <2>1, <3>1, <3>2
      <3> QED
          BY <2>1, <3>1, <3>3, <3>4, <3>5
    <2>4. MaxSteps * (MaxLatency + 1) \in Int
        BY <2>1
    <2> QED
        BY <2>1, <2>2, <2>3, <2>4
  <1>3. TimeInv => TakesTheSlowerCore
      BY <1>2
  <1> QED
      BY <1>1, <1>3, TimeStep, PTL DEF Spec
-----------------------------------------------------------------------------
(* One byte of the memory: two addresses mean the same byte if they are    *)
(* equal modulo AddrMod.                                                   *)

LEMMA SizesAre == /\ PageSize \in Nat \ {0} /\ AddrMod \in Nat \ {0}
                  /\ AddrMod \div PageSize \in Nat
                  /\ AddrMod = PageSize * (AddrMod \div PageSize)
  <1>1. PageSize \in Nat \ {0} /\ AddrMod \in Nat \ {0} /\ AddrMod % PageSize = 0
      BY PageAssumption
  <1>2. /\ AddrMod \div PageSize \in Int
        /\ AddrMod = (PageSize * (AddrMod \div PageSize)) + (AddrMod % PageSize)
      BY <1>1, DivisionIs
  <1>3. PageSize * (AddrMod \div PageSize) \in Int
      BY <1>1, <1>2
  <1>4. AddrMod \div PageSize \in Nat
      BY <1>1
  <1> QED
      BY <1>1, <1>2, <1>3, <1>4

LEMMA RestIsAddr == \A p \in Int : p % AddrMod \in Addr
  BY SizesAre DEF Addr

LEMMA AddrIsRest == \A a \in Addr : a \in Int /\ a % AddrMod = a
  BY SizesAre, SmallRest DEF Addr

\* The offset of an address is that of the address it wraps to.
LEMMA OffsetOfRest ==
    ASSUME NEW p \in Int
    PROVE  (p % AddrMod) % PageSize = p % PageSize
  <1> DEFINE k == AddrMod \div PageSize
             q == p \div AddrMod
             r == p % AddrMod
             s == r \div PageSize
             t == r % PageSize
  <1>1. q \in Int /\ r \in Int /\ p = (AddrMod * q) + r
      BY SizesAre, DivisionIs
  <1>2. s \in Int /\ t \in 0 .. PageSize - 1 /\ r = (PageSize * s) + t
      BY <1>1, SizesAre, DivisionIs
  <1>3. k \in Int /\ AddrMod = PageSize * k
      BY SizesAre
  <1> HIDE DEF k, q, r, s, t
  <1>4. (PageSize * k) * q = PageSize * (k * q)
      BY <1>1, <1>3, SizesAre
  <1>5. k * q \in Int
      BY <1>1, <1>3
  <1>6. PageSize * ((k * q) + s) = (PageSize * (k * q)) + (PageSize * s)
      BY <1>2, <1>5, SizesAre
  <1>7. (PageSize * (k * q)) \in Int /\ PageSize * s \in Int /\ t \in Int
      BY <1>2, <1>5, SizesAre
  <1>8. p = (PageSize * ((k * q) + s)) + t
      BY <1>1, <1>2, <1>3, <1>4, <1>6, <1>7
  <1>9. (k * q) + s \in Int
      BY <1>2, <1>5
  <1>10. p % PageSize = t
      BY <1>2, <1>8, <1>9, SizesAre, DivisionBy
  <1> QED
      BY <1>10 DEF r, t

LEMMA PageIs ==
    ASSUME NEW p \in Int
    PROVE  /\ PageOf(p) \in Page /\ PageOffset(p) \in 0 .. PageSize - 1
           /\ p % AddrMod = (PageSize * PageOf(p)) + PageOffset(p)
  <1> DEFINE k == AddrMod \div PageSize
             r == p % AddrMod
             s == r \div PageSize
             t == r % PageSize
  <1>0. r \in 0 .. AddrMod - 1
      BY SizesAre, DivisionIs
  <1>1. PageOf(p) = s /\ PageOffset(p) = t
      BY OffsetOfRest DEF PageOf, PageOffset
  <1>2. s \in Int /\ t \in 0 .. PageSize - 1 /\ r = (PageSize * s) + t
      BY <1>0, SizesAre, DivisionIs
  <1>3. k \in Nat /\ AddrMod = PageSize * k
      BY SizesAre
  <1>4. Page = 0 .. k - 1
      BY DEF Page
  <1> HIDE DEF k, r, s, t
  <1>5. s >= 0
    <2> SUFFICES ASSUME 0 - s >= 1 PROVE FALSE
        BY <1>2
    <2>1. PageSize * (0 - s) >= PageSize
        BY <1>2, SizesAre, ProductIsAtLeast
    <2>2. PageSize * (0 - s) = 0 - (PageSize * s)
        BY <1>2, SizesAre
    <2>3. PageSize * s \in Int
        BY <1>2, SizesAre
    <2> QED
        BY <1>0, <1>2, <2>1, <2>2, <2>3, SizesAre
  <1>6. s < k
    <2> SUFFICES ASSUME ~(s < k) PROVE FALSE
        OBVIOUS
    <2>1. CASE s = k
      <3>1. PageSize * s = AddrMod
          BY <1>3, <2>1
      <3> QED
          BY <1>0, <1>2, <3>1, SizesAre
    <2>2. CASE s - k >= 1
      <3>1. PageSize * (s - k) >= PageSize
          BY <1>2, <1>3, <2>2, SizesAre, ProductIsAtLeast
      <3>2. PageSize * (s - k) = (PageSize * s) - (PageSize * k)
          BY <1>2, <1>3, SizesAre
      <3>3. PageSize * s \in Int
          BY <1>2, SizesAre
      <3> QED
          BY <1>0, <1>2, <1>3, <3>1, <3>2, <3>3, SizesAre
    <2> QED
        BY <1>2, <1>3, <2>1, <2>2
  <1> QED
      BY <1>1, <1>2, <1>3, <1>4, <1>5, <1>6 DEF r

LEMMA SameByte ==
    ASSUME NEW p \in Int, NEW a \in Int
    PROVE  PageOf(p) = PageOf(a) /\ PageOffset(p) = PageOffset(a)
                <=> p % AddrMod = a % AddrMod
  <1>1. ASSUME PageOf(p) = PageOf(a), PageOffset(p) = PageOffset(a)
        PROVE  p % AddrMod = a % AddrMod
      BY <1>1, PageIs
  <1>2. ASSUME p % AddrMod = a % AddrMod
        PROVE  PageOf(p) = PageOf(a) /\ PageOffset(p) = PageOffset(a)
      BY <1>2, OffsetOfRest DEF PageOf, PageOffset
  <1> QED
      BY <1>1, <1>2
-----------------------------------------------------------------------------
(* One call: what the bytes are after it.                                  *)

Contents == [0 .. PageSize - 1 -> Byte]

LEMMA MemoryIs ==
    ASSUME NEW mem
    PROVE  mem \in Memory <=> /\ DOMAIN mem \subseteq Page
                              /\ mem \in [DOMAIN mem -> Contents]
  <1>1. ASSUME mem \in Memory
        PROVE  DOMAIN mem \subseteq Page /\ mem \in [DOMAIN mem -> Contents]
    <2>1. PICK pages \in SUBSET Page : mem \in [pages -> Contents]
        BY <1>1 DEF Memory, Contents
    <2> QED
        BY <2>1
  <1>2. ASSUME DOMAIN mem \subseteq Page, mem \in [DOMAIN mem -> Contents]
        PROVE  mem \in Memory
      BY <1>2 DEF Memory, Contents
  <1> QED
      BY <1>1, <1>2

LEMMA NewPageIs == NewPage \in Contents /\ \A o \in 0 .. PageSize - 1 : NewPage[o] = 0
  BY ByteAssumption DEF NewPage, Contents

LEMMA GetByteIs ==
    ASSUME NEW mem \in Memory, NEW a \in Int
    PROVE  /\ getByte(mem, a) \in Byte
           /\ getByte(mem, a) = getByte(mem, a % AddrMod)
           /\ isAddrExist(mem, a) <=> isAddrExist(mem, a % AddrMod)
  <1>1. a % AddrMod \in Int /\ (a % AddrMod) % AddrMod = a % AddrMod
      BY RestIsAddr, AddrIsRest
  <1>2. PageOf(a % AddrMod) = PageOf(a) /\ PageOffset(a % AddrMod) = PageOffset(a)
      BY <1>1, SameByte
  <1>3. mem \in [DOMAIN mem -> Contents]
      BY MemoryIs
  <1>4. getByte(mem, a) \in Byte
      BY <1>3, PageIs, ByteAssumption DEF getByte, isAddrExist, Contents
  <1> QED
      BY <1>2, <1>4 DEF getByte, isAddrExist

LEMMA SetByteIs ==
    ASSUME NEW mem \in Memory, NEW p \in Int, NEW v \in Byte
    PROVE  /\ setByte(mem, p, v) \in Memory
           /\ \A a \in Int :
                /\ isAddrExist(setByte(mem, p, v), a) <=> isAddrExist(mem, a)
                /\ getByte(setByte(mem, p, v), a) =
                    IF isAddrExist(mem, p) /\ a % AddrMod = p % AddrMod THEN v
                    ELSE getByte(mem, a)
  <1> DEFINE new == setByte(mem, p, v)
             page == PageOf(p)
             off == PageOffset(p)
  <1>1. mem \in [DOMAIN mem -> Contents] /\ DOMAIN mem \subseteq Page
      BY MemoryIs
  <1>2. off \in 0 .. PageSize - 1
      BY PageIs
  <1>3. CASE isAddrExist(mem, p)
    <2>1. page \in DOMAIN mem
        BY <1>3 DEF isAddrExist
    <2>2. new = [mem EXCEPT ![page][off] = v]
        BY <1>3 DEF setByte
    <2> HIDE DEF new
    <2>3. DOMAIN new = DOMAIN mem
        BY <2>2
    <2>4. mem[page] \in Contents
        BY <1>1, <2>1
    <2>5. \A q \in DOMAIN mem : q # page => new[q] = mem[q]
        BY <1>1, <2>2
    <2>6. new[page] = [mem[page] EXCEPT ![off] = v]
        BY <1>1, <2>1, <2>2
    <2>7. new[page] \in Contents /\ new[page][off] = v
          /\ \A o \in 0 .. PageSize - 1 : o # off => new[page][o] = mem[page][o]
        BY <1>2, <2>4, <2>6 DEF Contents
    <2>8. new \in [DOMAIN new -> Contents]
      <3>1. new = [q \in DOMAIN mem |-> new[q]]
          BY <2>2
      <3> QED
          BY <1>1, <2>3, <2>5, <2>7, <3>1
    <2>9. new \in Memory
        BY <1>1, <2>3, <2>8, MemoryIs
    <2>10. ASSUME NEW a \in Int
           PROVE  getByte(new, a) = IF a % AddrMod = p % AddrMod THEN v
                                    ELSE getByte(mem, a)
      <3> DEFINE o == PageOffset(a)
      <3>0. o \in 0 .. PageSize - 1
          BY PageIs
      <3>1. CASE PageOf(a) # page
        <4>1. a % AddrMod # p % AddrMod
            BY <3>1, SameByte
        <4> QED
            BY <2>3, <2>5, <3>1, <4>1 DEF getByte, isAddrExist
      <3>2. CASE PageOf(a) = page /\ o # off
        <4>1. a % AddrMod # p % AddrMod
            BY <3>2, SameByte
        <4> QED
            BY <2>1, <2>3, <2>7, <3>0, <3>2, <4>1 DEF getByte, isAddrExist
      <3>3. CASE PageOf(a) = page /\ o = off
        <4>1. a % AddrMod = p % AddrMod
            BY <3>3, SameByte
        <4> QED
            BY <2>1, <2>3, <2>7, <3>3, <4>1 DEF getByte, isAddrExist
      <3> QED
          BY <3>1, <3>2, <3>3
    <2>11. \A a : isAddrExist(new, a) <=> isAddrExist(mem, a)
        BY <2>3 DEF isAddrExist
    <2> QED
        BY <1>3, <2>9, <2>10, <2>11 DEF new
  <1>4. CASE ~isAddrExist(mem, p)
      BY <1>4 DEF setByte
  <1> QED
      BY <1>3, <1>4

LEMMA AddPageIs ==
    ASSUME NEW mem \in Memory, NEW p \in Int
    PROVE  /\ addPage(mem, p) \in Memory
           /\ \A a \in Int :
                /\ isAddrExist(addPage(mem, p), a) <=>
                    isAddrExist(mem, a) \/ PageOf(a) = PageOf(p)
                /\ getByte(addPage(mem, p), a) = getByte(mem, a)
  <1> DEFINE new == addPage(mem, p)
             page == PageOf(p)
  <1>1. mem \in [DOMAIN mem -> Contents] /\ DOMAIN mem \subseteq Page
      BY MemoryIs
  <1>2. DOMAIN new = DOMAIN mem \cup {page} /\ page \in Page
      BY PageIs DEF addPage
  <1>3. \A q \in DOMAIN new : new[q] = IF q \in DOMAIN mem THEN mem[q] ELSE NewPage
      BY DEF addPage
  <1>4. \A q \in DOMAIN new : new[q] \in Contents
      BY <1>1, <1>3, NewPageIs
  <1>5. new = [q \in DOMAIN new |-> new[q]]
      BY DEF addPage
  <1> HIDE DEF new
  <1>6. new \in Memory
      BY <1>1, <1>2, <1>4, <1>5, MemoryIs
  <1>7. ASSUME NEW a \in Int
        PROVE  /\ isAddrExist(new, a) <=> isAddrExist(mem, a) \/ PageOf(a) = PageOf(p)
               /\ getByte(new, a) = getByte(mem, a)
    <2>1. isAddrExist(new, a) <=> isAddrExist(mem, a) \/ PageOf(a) = PageOf(p)
        BY <1>2 DEF isAddrExist
    <2>2. CASE isAddrExist(mem, a)
        BY <1>3, <2>1, <2>2 DEF getByte, isAddrExist
    <2>3. CASE ~isAddrExist(mem, a)
        BY <1>3, <2>1, <2>3, PageIs, NewPageIs DEF getByte, isAddrExist
    <2> QED
        BY <2>1, <2>2, <2>3
  <1> QED
      BY <1>6, <1>7 DEF new

\* The loaders put a byte by asking for its page first.
Put(mem, p, v) == setByte(addPage(mem, p), p, v)

LEMMA PutIs ==
    ASSUME NEW mem \in Memory, NEW p \in Int, NEW v \in Byte
    PROVE  /\ Put(mem, p, v) \in Memory
           /\ \A a \in Int :
                /\ isAddrExist(mem, a) \/ a = p => isAddrExist(Put(mem, p, v), a)
                /\ getByte(Put(mem, p, v), a) =
                    IF a % AddrMod = p % AddrMod THEN v ELSE getByte(mem, a)
  <1> DEFINE m == addPage(mem, p)
  <1>1. m \in Memory /\ isAddrExist(m, p)
        /\ \A a \in Int : /\ isAddrExist(mem, a) => isAddrExist(m, a)
                          /\ getByte(m, a) = getByte(mem, a)
      BY AddPageIs
  <1> HIDE DEF m
  <1>2. Put(mem, p, v) = setByte(m, p, v)
      BY DEF Put, m
  <1> QED
      BY <1>1, <1>2, SetByteIs
-----------------------------------------------------------------------------
(* The loops, byte by byte, segment by segment and page by page.           *)

LEMMA NearAddressesDiffer ==
    ASSUME NEW x \in Int, NEW y \in Int, x - y \in 1 .. AddrMod - 1
    PROVE  x % AddrMod # y % AddrMod
  <1>1. x - y \in 0 .. AddrMod - 1 /\ x # y /\ AddrMod \in Nat \ {0}
      BY SizesAre
  <1> QED
      BY <1>1, NearRestsDiffer

LEMMA SetBytesLoop ==
    ASSUME NEW mem \in Memory, NEW addr \in Int, NEW val \in Seq(Byte)
    PROVE  \E after : /\ setBytes(mem, addr, val) = after[Len(val)]
                      /\ after[0] = mem
                      /\ \A i \in 1 .. Len(val) :
                            after[i] = setByte(after[i - 1], addr + i - 1, val[i])
  <1> DEFINE n == Len(val)
             E == [x \in Memory \X (1 .. n) |-> setByte(x[1], addr + x[2] - 1, val[x[2]])]
             Loops(f) == f = [i \in 0 .. n |-> IF i = 0 THEN mem
                                ELSE setByte(f[i - 1], addr + i - 1, val[i])]
             after[i \in 0 .. n] == IF i = 0 THEN mem
                                ELSE setByte(after[i - 1], addr + i - 1, val[i])
  <1>1. n \in Nat
      OBVIOUS
  <1>2. \A m \in Memory : \A i \in 1 .. n :
            /\ E[<<m, i>>] = setByte(m, addr + i - 1, val[i])
            /\ E[<<m, i>>] \in Memory
      BY SetByteIs
  <1>3. Stepper(E, Memory, n)
      BY <1>2 DEF Stepper
  <1>4. after = CHOOSE f : Loops(f)
      BY DEF after
  <1>5. setBytes(mem, addr, val) = after[n]
      BY DEF setBytes
  <1> HIDE DEF E, n, after
  <1>6. PICK f : Iterates(f, E, Memory, mem, n)
      BY <1>1, <1>3, IterationExists
  <1>7. ASSUME NEW i \in 1 .. n
        PROVE  f[i] = setByte(f[i - 1], addr + i - 1, val[i])
    <2>1. f[i - 1] \in Memory /\ f[i] = E[<<f[i - 1], i>>]
        BY <1>1, <1>6 DEF Iterates
    <2> QED
        BY <1>2, <2>1
  <1>8. \A i \in 0 .. n : f[i] = IF i = 0 THEN mem
                                 ELSE setByte(f[i - 1], addr + i - 1, val[i])
    <2>1. f[0] = mem
        BY <1>6 DEF Iterates
    <2>2. \A i \in 0 .. n : i = 0 \/ i \in 1 .. n
        BY <1>1
    <2> QED
        BY <1>7, <2>1, <2>2
  <1>9. Loops(f)
    <2>1. f = [i \in 0 .. n |-> f[i]]
        BY <1>6 DEF Iterates
    <2> QED
        BY <1>8, <2>1
  <1>10. Loops(after)
    <2> HIDE DEF Loops
    <2> QED
        BY <1>4, <1>9
  <1>11. after[0] = mem /\ \A i \in 1 .. n :
            after[i] = setByte(after[i - 1], addr + i - 1, val[i])
      BY <1>1, <1>10
  <1> QED
      BY <1>5, <1>11 DEF n

LEMMA SetBytesIs ==
    ASSUME NEW mem \in Memory, NEW addr \in Int, NEW val \in Seq(Byte),
           Len(val) <= AddrMod
    PROVE  LET new == setBytes(mem, addr, val)
           IN  /\ new \in Memory
               /\ \A a \in Int : isAddrExist(new, a) <=> isAddrExist(mem, a)
               /\ \A a \in Int :
                    (\A k \in 1 .. Len(val) : a % AddrMod # (addr + k - 1) % AddrMod)
                        => getByte(new, a) = getByte(mem, a)
               /\ \A k \in 1 .. Len(val) : isAddrExist(mem, addr + k - 1)
                        => getByte(new, addr + k - 1) = val[k]
  <1> DEFINE n == Len(val)
             at(k) == addr + k - 1
  <1>1. PICK after : /\ setBytes(mem, addr, val) = after[n]
                     /\ after[0] = mem
                     /\ \A i \in 1 .. n : after[i] = setByte(after[i - 1], at(i), val[i])
      BY SetBytesLoop
  <1>2. n \in Nat /\ n <= AddrMod
        /\ \A k \in 1 .. n : at(k) \in Int /\ val[k] \in Byte
      OBVIOUS
  <1>3. \A j, k \in 1 .. n : j < k => at(k) % AddrMod # at(j) % AddrMod
    <2> TAKE j, k \in 1 .. n
    <2> HAVE j < k
    <2>1. at(k) - at(j) \in 1 .. AddrMod - 1
        BY <1>2, SizesAre
    <2> HIDE DEF at
    <2> QED
        BY <1>2, <2>1, NearAddressesDiffer
  <1> DEFINE Done(m) ==
                /\ after[m] \in Memory
                /\ \A a \in Int : isAddrExist(after[m], a) <=> isAddrExist(mem, a)
                /\ \A a \in Int : (\A k \in 1 .. m : a % AddrMod # at(k) % AddrMod)
                                    => getByte(after[m], a) = getByte(mem, a)
                /\ \A k \in 1 .. m : isAddrExist(mem, at(k))
                                    => getByte(after[m], at(k)) = val[k]
             S == {m \in Nat : m <= n => Done(m)}
  <1> HIDE DEF n, at
  <1>4. 0 \in S
      BY <1>1
  <1>5. ASSUME NEW m \in Nat, m \in S PROVE m + 1 \in S
    <2> SUFFICES ASSUME m + 1 <= n PROVE Done(m + 1)
        OBVIOUS
    <2>1. Done(m) /\ m + 1 \in 1 .. n
        BY <1>2, <1>5
    <2>2. after[m + 1] = setByte(after[m], at(m + 1), val[m + 1])
          /\ at(m + 1) \in Int /\ val[m + 1] \in Byte
      <3>1. after[m + 1] = setByte(after[(m + 1) - 1], at(m + 1), val[m + 1])
          BY <1>1, <2>1
      <3>2. (m + 1) - 1 = m
          OBVIOUS
      <3> QED
          BY <1>2, <2>1, <3>1, <3>2
    <2>3. after[m + 1] \in Memory
          /\ \A a \in Int :
                /\ isAddrExist(after[m + 1], a) <=> isAddrExist(after[m], a)
                /\ getByte(after[m + 1], a) =
                    IF isAddrExist(after[m], at(m + 1)) /\ a % AddrMod = at(m + 1) % AddrMod
                    THEN val[m + 1] ELSE getByte(after[m], a)
        BY <2>1, <2>2, SetByteIs
    <2>4. \A a \in Int : isAddrExist(after[m + 1], a) <=> isAddrExist(mem, a)
        BY <2>1, <2>3
    <2>5. ASSUME NEW a \in Int,
                 \A k \in 1 .. m + 1 : a % AddrMod # at(k) % AddrMod
          PROVE  getByte(after[m + 1], a) = getByte(mem, a)
      <3>1. a % AddrMod # at(m + 1) % AddrMod
          BY <2>5
      <3>2. \A k \in 1 .. m : a % AddrMod # at(k) % AddrMod
          BY <2>5
      <3> QED
          BY <2>1, <2>3, <3>1, <3>2
    <2>6. ASSUME NEW k \in 1 .. m + 1, isAddrExist(mem, at(k))
          PROVE  getByte(after[m + 1], at(k)) = val[k]
      <3>1. CASE k = m + 1
          BY <2>1, <2>2, <2>3, <2>6, <3>1
      <3>2. CASE k \in 1 .. m
        <4>1. at(m + 1) % AddrMod # at(k) % AddrMod /\ at(k) \in Int
            BY <1>2, <1>3, <2>1, <3>2
        <4>2. getByte(after[m], at(k)) = val[k]
            BY <2>1, <2>6, <3>2
        <4> QED
            BY <2>3, <4>1, <4>2
      <3> QED
          BY <3>1, <3>2
    <2> QED
        BY <2>3, <2>4, <2>5, <2>6
  <1> HIDE DEF S
  <1>6. n \in S
      BY <1>2, <1>4, <1>5, Induction
  <1>7. Done(n)
      BY <1>2, <1>6 DEF S
  <1> QED
      BY <1>1, <1>7 DEF n, at

\* n addresses, and a byte for each.
Places(at, b, n) == at \in [1 .. n -> Int] /\ b \in [1 .. n -> Byte]

\* f puts the bytes b[1], ..., b[n] at the addresses at[1], ..., at[n].
Puts(f, mem, at, b, n) ==
    f[0] = mem /\ \A i \in 1 .. n : f[i] = Put(f[i - 1], at[i], b[i])

LEMMA PutsExist ==
    ASSUME NEW mem \in Memory, NEW n \in Nat, NEW at, NEW b, Places(at, b, n)
    PROVE  \E f : f = [i \in 0 .. n |-> f[i]] /\ Puts(f, mem, at, b, n)
  <1> USE DEF Places
  <1> DEFINE E == [x \in Memory \X (1 .. n) |-> Put(x[1], at[x[2]], b[x[2]])]
  <1>1. \A m \in Memory : \A i \in 1 .. n :
            E[<<m, i>>] = Put(m, at[i], b[i]) /\ E[<<m, i>>] \in Memory
      BY PutIs
  <1>2. Stepper(E, Memory, n)
      BY <1>1 DEF Stepper
  <1> HIDE DEF E
  <1>3. PICK f : Iterates(f, E, Memory, mem, n)
      BY <1>2, IterationExists
  <1>4. ASSUME NEW i \in 1 .. n PROVE f[i] = Put(f[i - 1], at[i], b[i])
    <2>1. f[i - 1] \in Memory /\ f[i] = E[<<f[i - 1], i>>]
        BY <1>3 DEF Iterates
    <2> QED
        BY <1>1, <2>1
  <1>5. f = [i \in 0 .. n |-> f[i]] /\ f[0] = mem
      BY <1>3 DEF Iterates
  <1> QED
      BY <1>4, <1>5 DEF Puts

LEMMA PutsAre ==
    ASSUME NEW mem \in Memory, NEW n \in Nat, NEW at, NEW b, Places(at, b, n),
           NEW f, Puts(f, mem, at, b, n)
    PROVE  /\ f[n] \in Memory
           /\ \A a \in Int : isAddrExist(mem, a) => isAddrExist(f[n], a)
           /\ \A k \in 1 .. n : isAddrExist(f[n], at[k])
           /\ \A a \in Int : (\A k \in 1 .. n : a % AddrMod # at[k] % AddrMod)
                                => getByte(f[n], a) = getByte(mem, a)
           /\ (\A j, k \in 1 .. n : j < k => at[k] % AddrMod # at[j] % AddrMod)
                => \A k \in 1 .. n : getByte(f[n], at[k]) = b[k]
  <1> USE DEF Places
  <1> DEFINE Done(m) ==
                /\ f[m] \in Memory
                /\ \A a \in Int : isAddrExist(mem, a) => isAddrExist(f[m], a)
                /\ \A k \in 1 .. m : isAddrExist(f[m], at[k])
                /\ \A a \in Int : (\A k \in 1 .. m : a % AddrMod # at[k] % AddrMod)
                                    => getByte(f[m], a) = getByte(mem, a)
                /\ (\A j, k \in 1 .. n : j < k => at[k] % AddrMod # at[j] % AddrMod)
                    => \A k \in 1 .. m : getByte(f[m], at[k]) = b[k]
             S == {m \in Nat : m <= n => Done(m)}
  <1>1. 0 \in S
      BY DEF Puts
  <1>2. ASSUME NEW m \in Nat, m \in S PROVE m + 1 \in S
    <2> SUFFICES ASSUME m + 1 <= n PROVE Done(m + 1)
        OBVIOUS
    <2>1. Done(m) /\ m + 1 \in 1 .. n
        BY <1>2
    <2>2. f[m + 1] = Put(f[m], at[m + 1], b[m + 1])
          /\ at[m + 1] \in Int /\ b[m + 1] \in Byte
      <3>1. f[m + 1] = Put(f[(m + 1) - 1], at[m + 1], b[m + 1])
          BY <2>1 DEF Puts
      <3>2. (m + 1) - 1 = m
          OBVIOUS
      <3> QED
          BY <2>1, <3>1, <3>2
    <2>3. f[m + 1] \in Memory
          /\ \A a \in Int :
                /\ isAddrExist(f[m], a) \/ a = at[m + 1] => isAddrExist(f[m + 1], a)
                /\ getByte(f[m + 1], a) =
                    IF a % AddrMod = at[m + 1] % AddrMod THEN b[m + 1]
                    ELSE getByte(f[m], a)
        BY <2>1, <2>2, PutIs
    <2>4. \A a \in Int : isAddrExist(mem, a) => isAddrExist(f[m + 1], a)
        BY <2>1, <2>3
    <2>5. \A k \in 1 .. m + 1 : k = m + 1 \/ k \in 1 .. m
        OBVIOUS
    <2>6. \A k \in 1 .. m : at[k] \in Int
        BY <2>1
    <2>7. \A k \in 1 .. m + 1 : isAddrExist(f[m + 1], at[k])
        BY <2>1, <2>2, <2>3, <2>5, <2>6
    <2>8. ASSUME NEW a \in Int, \A k \in 1 .. m + 1 : a % AddrMod # at[k] % AddrMod
          PROVE  getByte(f[m + 1], a) = getByte(mem, a)
      <3>1. a % AddrMod # at[m + 1] % AddrMod
          BY <2>8
      <3>2. \A k \in 1 .. m : a % AddrMod # at[k] % AddrMod
          BY <2>8
      <3> QED
          BY <2>1, <2>3, <3>1, <3>2
    <2>9. ASSUME \A j, k \in 1 .. n : j < k => at[k] % AddrMod # at[j] % AddrMod,
                 NEW k \in 1 .. m + 1
          PROVE  getByte(f[m + 1], at[k]) = b[k]
      <3>1. CASE k = m + 1
          BY <2>2, <2>3, <3>1
      <3>2. CASE k \in 1 .. m
        <4>1. at[m + 1] % AddrMod # at[k] % AddrMod /\ at[k] \in Int
            BY <2>1, <2>6, <2>9, <3>2
        <4>2. getByte(f[m], at[k]) = b[k]
            BY <2>1, <2>9, <3>2
        <4> QED
            BY <2>3, <4>1, <4>2
      <3> QED
          BY <3>1, <3>2
    <2> QED
        BY <2>3, <2>4, <2>7, <2>8, <2>9
  <1> HIDE DEF S
  <1>3. n \in S
      BY <1>1, <1>2, Induction
  <1>4. Done(n)
      BY <1>3 DEF S
  <1> QED
      BY <1>4

LEMMA AddressesDiffer ==
    ASSUME NEW x \in Addr, NEW y \in Addr
    PROVE  x % AddrMod = y % AddrMod <=> x = y
  BY AddrIsRest

\* What a segment says of the byte at a.
SegmentByte(seg, a) == LET k == a - seg.addr + 1
                       IN  IF k <= Len(seg.data) THEN seg.data[k] ELSE 0

LEMMA LoadSegmentLoop ==
    ASSUME NEW mem \in Memory, NEW seg \in Segment
    PROVE  \E f : /\ loadSegment(mem, seg) = f[seg.memsz]
                  /\ Puts(f, mem, [i \in 1 .. seg.memsz |-> seg.addr + i - 1],
                          [i \in 1 .. seg.memsz |->
                                IF i <= Len(seg.data) THEN seg.data[i] ELSE 0],
                          seg.memsz)
  <1> DEFINE n == seg.memsz
             at == [i \in 1 .. n |-> seg.addr + i - 1]
             b == [i \in 1 .. n |-> IF i <= Len(seg.data) THEN seg.data[i] ELSE 0]
             Loops(f) == f = [i \in 0 .. n |-> IF i = 0 THEN mem
                            ELSE LET p == seg.addr + i - 1
                                 IN  setByte(addPage(f[i - 1], p), p,
                                        IF i <= Len(seg.data) THEN seg.data[i] ELSE 0)]
             after[i \in 0 .. n] == IF i = 0 THEN mem
                            ELSE LET p == seg.addr + i - 1
                                 IN  setByte(addPage(after[i - 1], p), p,
                                        IF i <= Len(seg.data) THEN seg.data[i] ELSE 0)
  <1>1. n \in Nat /\ seg.addr \in Int /\ seg.data \in Seq(Byte)
      BY DEF Segment, Addr
  <1>2. Places(at, b, n)
      BY <1>1, ByteAssumption DEF Places
  <1>3. after = CHOOSE f : Loops(f)
      BY DEF after
  <1>4. loadSegment(mem, seg) = after[n]
      BY DEF loadSegment
  <1>5. \A i \in 1 .. n : at[i] = seg.addr + i - 1
            /\ b[i] = IF i <= Len(seg.data) THEN seg.data[i] ELSE 0
      OBVIOUS
  <1> HIDE DEF n, at, b, after
  <1>6. PICK f : f = [i \in 0 .. n |-> f[i]] /\ Puts(f, mem, at, b, n)
      BY <1>1, <1>2, PutsExist
  <1>7. \A i \in 0 .. n : i = 0 \/ i \in 1 .. n
      BY <1>1
  <1>8. \A i \in 0 .. n : f[i] = IF i = 0 THEN mem
                            ELSE LET p == seg.addr + i - 1
                                 IN  setByte(addPage(f[i - 1], p), p,
                                        IF i <= Len(seg.data) THEN seg.data[i] ELSE 0)
      BY <1>5, <1>6, <1>7 DEF Puts, Put
  <1>9. Loops(f)
      BY <1>6, <1>8
  <1>10. Loops(after)
    <2> HIDE DEF Loops
    <2> QED
        BY <1>3, <1>9
  <1>11. \A i \in 1 .. n : i \in 0 .. n /\ i # 0
      OBVIOUS
  <1>12. after[0] = mem /\ \A i \in 1 .. n :
            after[i] = LET p == seg.addr + i - 1
                       IN  setByte(addPage(after[i - 1], p), p,
                                IF i <= Len(seg.data) THEN seg.data[i] ELSE 0)
      BY <1>1, <1>10, <1>11
  <1> HIDE DEF Loops
  <1>13. Puts(after, mem, at, b, n)
      BY <1>5, <1>12 DEF Puts, Put
  <1> QED
      BY <1>4, <1>13 DEF n, at, b

SegmentFits(seg) == seg.addr + seg.memsz <= AddrMod

LEMMA LoadableFits ==
    ASSUME NEW seg \in Segment, ~TooLarge(seg)
    PROVE  SegmentFits(seg)
  BY SizesAre DEF TooLarge, SegmentFits, Segment

LEMMA LoadSegmentIs ==
    ASSUME NEW mem \in Memory, NEW seg \in Segment
    PROVE  LET new == loadSegment(mem, seg)
           IN  /\ new \in Memory
               /\ \A a \in Int : isAddrExist(mem, a) => isAddrExist(new, a)
               /\ SegmentFits(seg) => \A a \in Addr :
                    /\ Covers(seg, a) => isAddrExist(new, a)
                    /\ getByte(new, a) = IF Covers(seg, a) THEN SegmentByte(seg, a)
                                         ELSE getByte(mem, a)
  <1> DEFINE n == seg.memsz
             at == [i \in 1 .. n |-> seg.addr + i - 1]
             b == [i \in 1 .. n |-> IF i <= Len(seg.data) THEN seg.data[i] ELSE 0]
             new == loadSegment(mem, seg)
  <1>1. /\ n \in Nat /\ seg.addr \in Nat
        /\ seg.data \in Seq(Byte) /\ Len(seg.data) \in Nat
      BY DEF Segment, Addr
  <1>2. Places(at, b, n)
      BY <1>1, ByteAssumption DEF Places
  <1>3. PICK f : new = f[n] /\ Puts(f, mem, at, b, n)
      BY LoadSegmentLoop
  <1>4. \A i \in 1 .. n : at[i] = seg.addr + i - 1
            /\ b[i] = IF i <= Len(seg.data) THEN seg.data[i] ELSE 0
      OBVIOUS
  <1> HIDE DEF n, at, b, new
  <1>5. /\ new \in Memory
        /\ \A a \in Int : isAddrExist(mem, a) => isAddrExist(new, a)
        /\ \A k \in 1 .. n : isAddrExist(new, at[k])
        /\ \A a \in Int : (\A k \in 1 .. n : a % AddrMod # at[k] % AddrMod)
                             => getByte(new, a) = getByte(mem, a)
        /\ (\A j, k \in 1 .. n : j < k => at[k] % AddrMod # at[j] % AddrMod)
             => \A k \in 1 .. n : getByte(new, at[k]) = b[k]
      BY <1>1, <1>2, <1>3, PutsAre
  <1>6. ASSUME SegmentFits(seg), NEW a \in Addr
        PROVE  /\ Covers(seg, a) => isAddrExist(new, a)
               /\ getByte(new, a) = IF Covers(seg, a) THEN SegmentByte(seg, a)
                                    ELSE getByte(mem, a)
    <2>1. \A k \in 1 .. n : at[k] \in Addr
        BY <1>1, <1>4, <1>6, SizesAre DEF SegmentFits, Addr, n
    <2>2. \A j, k \in 1 .. n : j < k => at[k] # at[j]
        BY <1>1, <1>4
    <2>3. \A j, k \in 1 .. n : j < k => at[k] % AddrMod # at[j] % AddrMod
        BY <2>1, <2>2, AddressesDiffer
    <2>4. CASE Covers(seg, a)
      <3> DEFINE k == a - seg.addr + 1
      <3>1. k \in 1 .. n
          BY <1>1, <2>4 DEF Covers, Addr, n
      <3>2. seg.addr + k - 1 = a
          BY <1>1 DEF Addr
      <3>3. b[k] = SegmentByte(seg, a)
          BY <1>4, <3>1 DEF SegmentByte
      <3> HIDE DEF k
      <3>4. at[k] = a
          BY <1>4, <3>1, <3>2
      <3>5. getByte(new, at[k]) = b[k] /\ isAddrExist(new, at[k])
          BY <1>5, <2>3, <3>1
      <3> QED
          BY <2>4, <3>3, <3>4, <3>5
    <2>5. CASE ~Covers(seg, a)
      <3>1. \A k \in 1 .. n : at[k] # a
          BY <1>1, <1>4, <2>5 DEF Covers, n
      <3>2. \A k \in 1 .. n : a % AddrMod # at[k] % AddrMod
          BY <2>1, <3>1, AddressesDiffer
      <3>3. a \in Int
          BY DEF Addr
      <3> QED
          BY <1>5, <2>5, <3>2, <3>3
    <2> QED
        BY <2>4, <2>5
  <1> QED
      BY <1>5, <1>6 DEF new

LEMMA InitStackLoop ==
    ASSUME NEW mem \in Memory, NEW base \in Int, NEW size \in Nat
    PROVE  \E f : /\ initStack(mem, base, size) = f[size]
                  /\ Puts(f, mem, [i \in 1 .. size |-> base - (i - 1)],
                          [i \in 1 .. size |-> 0], size)
  <1> DEFINE at == [i \in 1 .. size |-> base - (i - 1)]
             b == [i \in 1 .. size |-> 0]
             Loops(f) == f = [i \in 0 .. size |-> IF i = 0 THEN mem
                            ELSE LET p == base - (i - 1)
                                 IN  setByte(addPage(f[i - 1], p), p, 0)]
             after[i \in 0 .. size] == IF i = 0 THEN mem
                            ELSE LET p == base - (i - 1)
                                 IN  setByte(addPage(after[i - 1], p), p, 0)
  <1>1. Places(at, b, size)
      BY ByteAssumption DEF Places
  <1>2. after = CHOOSE f : Loops(f)
      BY DEF after
  <1>3. initStack(mem, base, size) = after[size]
      BY DEF initStack
  <1>4. \A i \in 1 .. size : at[i] = base - (i - 1) /\ b[i] = 0
      OBVIOUS
  <1> HIDE DEF at, b, after
  <1>5. PICK f : f = [i \in 0 .. size |-> f[i]] /\ Puts(f, mem, at, b, size)
      BY <1>1, PutsExist
  <1>6. \A i \in 0 .. size : i = 0 \/ i \in 1 .. size
      OBVIOUS
  <1>7. \A i \in 0 .. size : f[i] = IF i = 0 THEN mem
                            ELSE LET p == base - (i - 1)
                                 IN  setByte(addPage(f[i - 1], p), p, 0)
      BY <1>4, <1>5, <1>6 DEF Puts, Put
  <1>8. Loops(f)
      BY <1>5, <1>7
  <1>9. Loops(after)
    <2> HIDE DEF Loops
    <2> QED
        BY <1>2, <1>8
  <1>10. \A i \in 1 .. size : i \in 0 .. size /\ i # 0
      OBVIOUS
  <1>11. after[0] = mem /\ \A i \in 1 .. size :
            after[i] = LET p == base - (i - 1)
                       IN  setByte(addPage(after[i - 1], p), p, 0)
      BY <1>9, <1>10
  <1> HIDE DEF Loops
  <1>12. Puts(after, mem, at, b, size)
      BY <1>4, <1>11 DEF Puts, Put
  <1> QED
      BY <1>3, <1>12 DEF at, b

LEMMA InitStackIs ==
    ASSUME NEW mem \in Memory, NEW base \in Addr, NEW size \in Nat
    PROVE  LET new == initStack(mem, base, size)
               stack == base - size + 1 .. base
           IN  /\ new \in Memory
               /\ \A a \in Int : isAddrExist(mem, a) => isAddrExist(new, a)
               /\ base - size + 1 >= 0 => \A a \in Addr :
                    /\ a \in stack => isAddrExist(new, a)
                    /\ getByte(new, a) = IF a \in stack THEN 0 ELSE getByte(mem, a)
  <1> DEFINE at == [i \in 1 .. size |-> base - (i - 1)]
             b == [i \in 1 .. size |-> 0]
             new == initStack(mem, base, size)
             stack == base - size + 1 .. base
  <1>1. base \in Int /\ \A i \in 1 .. size : at[i] = base - (i - 1) /\ b[i] = 0
      BY DEF Addr
  <1>2. Places(at, b, size)
      BY <1>1, ByteAssumption DEF Places
  <1>3. PICK f : new = f[size] /\ Puts(f, mem, at, b, size)
      BY <1>1, InitStackLoop
  <1> HIDE DEF at, b, new
  <1>4. /\ new \in Memory
        /\ \A a \in Int : isAddrExist(mem, a) => isAddrExist(new, a)
        /\ \A k \in 1 .. size : isAddrExist(new, at[k])
        /\ \A a \in Int : (\A k \in 1 .. size : a % AddrMod # at[k] % AddrMod)
                             => getByte(new, a) = getByte(mem, a)
        /\ (\A j, k \in 1 .. size : j < k => at[k] % AddrMod # at[j] % AddrMod)
             => \A k \in 1 .. size : getByte(new, at[k]) = b[k]
      BY <1>2, <1>3, PutsAre
  <1>5. ASSUME base - size + 1 >= 0, NEW a \in Addr
        PROVE  /\ a \in stack => isAddrExist(new, a)
               /\ getByte(new, a) = IF a \in stack THEN 0 ELSE getByte(mem, a)
    <2>1. \A k \in 1 .. size : at[k] \in Addr
        BY <1>1, <1>5, SizesAre DEF Addr
    <2>2. \A j, k \in 1 .. size : j < k => at[k] # at[j]
        BY <1>1
    <2>3. \A j, k \in 1 .. size : j < k => at[k] % AddrMod # at[j] % AddrMod
        BY <2>1, <2>2, AddressesDiffer
    <2>4. CASE a \in stack
      <3> DEFINE k == base - a + 1
      <3>1. k \in 1 .. size /\ base - (k - 1) = a
          BY <1>1, <2>4 DEF Addr
      <3> HIDE DEF k
      <3>2. at[k] = a /\ b[k] = 0
          BY <1>1, <3>1
      <3>3. getByte(new, at[k]) = b[k] /\ isAddrExist(new, at[k])
          BY <1>4, <2>3, <3>1
      <3> QED
          BY <2>4, <3>2, <3>3
    <2>5. CASE a \notin stack
      <3>1. \A k \in 1 .. size : at[k] # a
          BY <1>1, <2>5
      <3>2. \A k \in 1 .. size : a % AddrMod # at[k] % AddrMod
          BY <2>1, <3>1, AddressesDiffer
      <3>3. a \in Int
          BY DEF Addr
      <3> QED
          BY <1>4, <2>5, <3>2, <3>3
    <2> QED
        BY <2>4, <2>5
  <1> QED
      BY <1>4, <1>5 DEF new

\* What the i-th segment makes of the memory.
LoadNext(segs, i, mem) ==
    IF Loadable(segs, i) THEN loadSegment(mem, segs[i]) ELSE mem

LEMMA LoadElfLoop ==
    ASSUME NEW mem \in Memory, NEW segs \in Seq(Segment)
    PROVE  \E after : /\ loadElfToMemory(mem, segs) = after[Len(segs)]
                      /\ after[0] = mem
                      /\ \A i \in 1 .. Len(segs) :
                            after[i] = LoadNext(segs, i, after[i - 1])
  <1> DEFINE n == Len(segs)
             E == [x \in Memory \X (1 .. n) |-> LoadNext(segs, x[2], x[1])]
             Loops(f) == f = [i \in 0 .. n |-> IF i = 0 THEN mem
                                ELSE LoadNext(segs, i, f[i - 1])]
             after[i \in 0 .. n] == IF i = 0 THEN mem
                                ELSE LoadNext(segs, i, after[i - 1])
  <1>1. n \in Nat
      OBVIOUS
  <1>2. \A m \in Memory : \A i \in 1 .. n :
            /\ E[<<m, i>>] = LoadNext(segs, i, m)
            /\ E[<<m, i>>] \in Memory
      BY LoadSegmentIs DEF LoadNext
  <1>3. Stepper(E, Memory, n)
      BY <1>2 DEF Stepper
  <1>4. after = CHOOSE f : Loops(f)
      BY DEF after
  <1>5. loadElfToMemory(mem, segs) = after[n]
      BY DEF loadElfToMemory, LoadNext
  <1> HIDE DEF E, n, after
  <1>6. PICK f : Iterates(f, E, Memory, mem, n)
      BY <1>1, <1>3, IterationExists
  <1>7. ASSUME NEW i \in 1 .. n
        PROVE  f[i] = LoadNext(segs, i, f[i - 1])
    <2>1. f[i - 1] \in Memory /\ f[i] = E[<<f[i - 1], i>>]
        BY <1>1, <1>6 DEF Iterates
    <2> QED
        BY <1>2, <2>1
  <1>8. \A i \in 0 .. n : f[i] = IF i = 0 THEN mem
                                 ELSE LoadNext(segs, i, f[i - 1])
    <2>1. f[0] = mem
        BY <1>6 DEF Iterates
    <2>2. \A i \in 0 .. n : i = 0 \/ i \in 1 .. n
        BY <1>1
    <2> QED
        BY <1>7, <2>1, <2>2
  <1>9. Loops(f)
    <2>1. f = [i \in 0 .. n |-> f[i]]
        BY <1>6 DEF Iterates
    <2> QED
        BY <1>8, <2>1
  <1>10. Loops(after)
    <2> HIDE DEF Loops
    <2> QED
        BY <1>4, <1>9
  <1>11. after[0] = mem /\ \A i \in 1 .. n :
            after[i] = LoadNext(segs, i, after[i - 1])
      BY <1>1, <1>10
  <1> QED
      BY <1>5, <1>11 DEF n

\* The segments among the first m that have the byte at a.
Covering(segs, m, a) == {k \in 1 .. m : Covers(segs[k], a)}

\* The last segment that has a byte decides what it is.
LEMMA LoadElfIs ==
    ASSUME NEW mem \in Memory, NEW segs \in Seq(Segment)
    PROVE  LET new == loadElfToMemory(mem, segs)
               covering(a) == Covering(segs, Len(segs), a)
           IN  /\ new \in Memory
               /\ \A a \in Int : isAddrExist(mem, a) => isAddrExist(new, a)
               /\ Loadable(segs, Len(segs)) =>
                    \A a \in Addr :
                        \/ covering(a) = {} /\ getByte(new, a) = getByte(mem, a)
                        \/ /\ isAddrExist(new, a)
                           /\ \E k \in covering(a) :
                                /\ \A j \in covering(a) : j <= k
                                /\ getByte(new, a) = SegmentByte(segs[k], a)
  <1> DEFINE n == Len(segs)
  <1>1. PICK after : /\ loadElfToMemory(mem, segs) = after[n]
                     /\ after[0] = mem
                     /\ \A i \in 1 .. n : after[i] = LoadNext(segs, i, after[i - 1])
      BY LoadElfLoop
  <1>2. n \in Nat /\ \A k \in 1 .. n : segs[k] \in Segment
      OBVIOUS
  <1> HIDE DEF n
  <1> DEFINE Fits == Loadable(segs, n)
             ByteDone(m, a) ==
                \/ Covering(segs, m, a) = {} /\ getByte(after[m], a) = getByte(mem, a)
                \/ /\ isAddrExist(after[m], a)
                   /\ \E k \in Covering(segs, m, a) :
                        /\ \A j \in Covering(segs, m, a) : j <= k
                        /\ getByte(after[m], a) = SegmentByte(segs[k], a)
             Done(m) == /\ after[m] \in Memory
                        /\ \A a \in Int : isAddrExist(mem, a) => isAddrExist(after[m], a)
                        /\ Fits => \A a \in Addr : ByteDone(m, a)
             S == {m \in Nat : m <= n => Done(m)}
  <1>3. 0 \in S
      BY <1>1 DEF Covering
  <1>4. ASSUME NEW m \in Nat, m \in S PROVE m + 1 \in S
    <2> SUFFICES ASSUME m + 1 <= n PROVE Done(m + 1)
        OBVIOUS
    <2>1. Done(m) /\ m + 1 \in 1 .. n
        BY <1>2, <1>4
    <2>2. after[m + 1] = LoadNext(segs, m + 1, after[m]) /\ segs[m + 1] \in Segment
      <3>1. after[m + 1] = LoadNext(segs, m + 1, after[(m + 1) - 1])
          BY <1>1, <2>1
      <3>2. (m + 1) - 1 = m
          OBVIOUS
      <3> QED
          BY <1>2, <2>1, <3>1, <3>2
    <2>3. /\ after[m + 1] \in Memory
          /\ \A a \in Int : isAddrExist(after[m], a) => isAddrExist(after[m + 1], a)
          /\ Fits => \A a \in Addr :
                /\ Covers(segs[m + 1], a) => isAddrExist(after[m + 1], a)
                /\ getByte(after[m + 1], a) =
                    IF Covers(segs[m + 1], a) THEN SegmentByte(segs[m + 1], a)
                    ELSE getByte(after[m], a)
      <3>1. Fits => Loadable(segs, m + 1)
        <4>1. \A k \in 1 .. m + 1 : k \in 1 .. n
            BY <1>2, <2>1
        <4> QED
            BY <4>1 DEF Loadable
      <3>2. Loadable(segs, m + 1) => SegmentFits(segs[m + 1])
          BY <2>2, LoadableFits DEF Loadable
      <3>3. CASE Loadable(segs, m + 1)
        <4>1. after[m + 1] = loadSegment(after[m], segs[m + 1])
            BY <2>2, <3>3 DEF LoadNext
        <4> HIDE DEF Fits
        <4> QED
            BY <2>1, <2>2, <3>2, <3>3, <4>1, LoadSegmentIs
      <3>4. CASE ~Loadable(segs, m + 1)
          BY <2>1, <2>2, <3>1, <3>4 DEF LoadNext
      <3> QED
          BY <3>3, <3>4
    <2>4. ASSUME Fits, NEW a \in Addr PROVE ByteDone(m + 1, a)
      <3>1. ByteDone(m, a) /\ a \in Int
          BY <2>1, <2>4 DEF Addr
      <3>2. CASE Covers(segs[m + 1], a)
        <4>1. m + 1 \in Covering(segs, m + 1, a)
            BY <2>1, <3>2 DEF Covering
        <4>2. \A j \in Covering(segs, m + 1, a) : j <= m + 1
            BY DEF Covering
        <4>3. isAddrExist(after[m + 1], a)
              /\ getByte(after[m + 1], a) = SegmentByte(segs[m + 1], a)
            BY <2>3, <2>4, <3>2
        <4> QED
            BY <4>1, <4>2, <4>3
      <3>3. CASE ~Covers(segs[m + 1], a)
        <4>1. Covering(segs, m + 1, a) = Covering(segs, m, a)
          <5>1. \A k \in 1 .. m + 1 : k = m + 1 \/ k \in 1 .. m
              OBVIOUS
          <5>2. \A k \in 1 .. m : k \in 1 .. m + 1
              OBVIOUS
          <5> QED
              BY <3>3, <5>1, <5>2 DEF Covering
        <4>2. getByte(after[m + 1], a) = getByte(after[m], a)
              /\ (isAddrExist(after[m], a) => isAddrExist(after[m + 1], a))
            BY <2>3, <2>4, <3>1, <3>3
        <4> QED
            BY <3>1, <4>1, <4>2
      <3> QED
          BY <3>2, <3>3
    <2> HIDE DEF ByteDone
    <2>5. \A a \in Int : isAddrExist(mem, a) => isAddrExist(after[m + 1], a)
        BY <2>1, <2>3
    <2> QED
        BY <2>3, <2>4, <2>5
  <1> HIDE DEF S
  <1>5. n \in S
      BY <1>2, <1>3, <1>4, Induction
  <1>6. Done(n)
      BY <1>2, <1>5 DEF S
  <1> QED
      BY <1>1, <1>6 DEF n

LEMMA AddPagesLoop ==
    ASSUME NEW mem \in Memory, NEW addrs \in Seq(Addr)
    PROVE  \E after : /\ addPages(mem, addrs) = after[Len(addrs)]
                      /\ after[0] = mem
                      /\ \A i \in 1 .. Len(addrs) :
                            after[i] = addPage(after[i - 1], addrs[i])
  <1> DEFINE n == Len(addrs)
             E == [x \in Memory \X (1 .. n) |-> addPage(x[1], addrs[x[2]])]
             Loops(f) == f = [i \in 0 .. n |-> IF i = 0 THEN mem
                                ELSE addPage(f[i - 1], addrs[i])]
             after[i \in 0 .. n] == IF i = 0 THEN mem
                                ELSE addPage(after[i - 1], addrs[i])
  <1>1. n \in Nat /\ \A i \in 1 .. n : addrs[i] \in Int
    <2>1. n \in Nat /\ \A i \in 1 .. n : addrs[i] \in Addr
        OBVIOUS
    <2> QED
        BY <2>1, AddrIsRest
  <1>2. \A m \in Memory : \A i \in 1 .. n :
            /\ E[<<m, i>>] = addPage(m, addrs[i])
            /\ E[<<m, i>>] \in Memory
      BY <1>1, AddPageIs
  <1>3. Stepper(E, Memory, n)
      BY <1>2 DEF Stepper
  <1>4. after = CHOOSE f : Loops(f)
      BY DEF after
  <1>5. addPages(mem, addrs) = after[n]
      BY DEF addPages
  <1> HIDE DEF E, n, after
  <1>6. PICK f : Iterates(f, E, Memory, mem, n)
      BY <1>1, <1>3, IterationExists
  <1>7. ASSUME NEW i \in 1 .. n
        PROVE  f[i] = addPage(f[i - 1], addrs[i])
    <2>1. f[i - 1] \in Memory /\ f[i] = E[<<f[i - 1], i>>]
        BY <1>1, <1>6 DEF Iterates
    <2> QED
        BY <1>2, <2>1
  <1>8. \A i \in 0 .. n : f[i] = IF i = 0 THEN mem ELSE addPage(f[i - 1], addrs[i])
    <2>1. f[0] = mem
        BY <1>6 DEF Iterates
    <2>2. \A i \in 0 .. n : i = 0 \/ i \in 1 .. n
        BY <1>1
    <2> QED
        BY <1>7, <2>1, <2>2
  <1>9. Loops(f)
    <2>1. f = [i \in 0 .. n |-> f[i]]
        BY <1>6 DEF Iterates
    <2> QED
        BY <1>8, <2>1
  <1>10. Loops(after)
    <2> HIDE DEF Loops
    <2> QED
        BY <1>4, <1>9
  <1>11. after[0] = mem /\ \A i \in 1 .. n : after[i] = addPage(after[i - 1], addrs[i])
      BY <1>1, <1>10
  <1> QED
      BY <1>5, <1>11 DEF n

\* Pages that are added change no byte.
LEMMA AddPagesAre ==
    ASSUME NEW mem \in Memory, NEW addrs \in Seq(Addr)
    PROVE  LET new == addPages(mem, addrs)
           IN  /\ new \in Memory
               /\ \A a \in Int : /\ isAddrExist(mem, a) => isAddrExist(new, a)
                                 /\ getByte(new, a) = getByte(mem, a)
  <1> DEFINE n == Len(addrs)
  <1>1. PICK after : /\ addPages(mem, addrs) = after[n]
                     /\ after[0] = mem
                     /\ \A i \in 1 .. n : after[i] = addPage(after[i - 1], addrs[i])
      BY AddPagesLoop
  <1>2. n \in Nat /\ \A k \in 1 .. n : addrs[k] \in Int
    <2>1. n \in Nat /\ \A k \in 1 .. n : addrs[k] \in Addr
        OBVIOUS
    <2> QED
        BY <2>1, AddrIsRest
  <1> HIDE DEF n
  <1> DEFINE Done(m) == /\ after[m] \in Memory
                        /\ \A a \in Int :
                            /\ isAddrExist(mem, a) => isAddrExist(after[m], a)
                            /\ getByte(after[m], a) = getByte(mem, a)
             S == {m \in Nat : m <= n => Done(m)}
  <1>3. 0 \in S
      BY <1>1
  <1>4. ASSUME NEW m \in Nat, m \in S PROVE m + 1 \in S
    <2> SUFFICES ASSUME m + 1 <= n PROVE Done(m + 1)
        OBVIOUS
    <2>1. Done(m) /\ m + 1 \in 1 .. n
        BY <1>2, <1>4
    <2>2. after[m + 1] = addPage(after[m], addrs[m + 1]) /\ addrs[m + 1] \in Int
      <3>1. after[m + 1] = addPage(after[(m + 1) - 1], addrs[m + 1])
          BY <1>1, <2>1
      <3>2. (m + 1) - 1 = m
          OBVIOUS
      <3> QED
          BY <1>2, <2>1, <3>1, <3>2
    <2> QED
        BY <2>1, <2>2, AddPageIs
  <1> HIDE DEF S
  <1>5. n \in S
      BY <1>2, <1>3, <1>4, Induction
  <1>6. Done(n)
      BY <1>2, <1>5 DEF S
  <1> QED
      BY <1>1, <1>6 DEF n
-----------------------------------------------------------------------------
(* A value lies within its pages.                                          *)

LEMMA ValueIs ==
    ASSUME NEW val \in Value
    PROVE  /\ val \in Seq(Byte) /\ Len(val) \in Nat \ {0}
           /\ Len(val) <= PageSize /\ Len(val) <= AddrMod
  <1> DEFINE l == Len(val)
             m == PageSize \div l
             k == AddrMod \div PageSize
  <1>1. val \in Seq(Byte) /\ val # <<>>
      BY AccessAssumption
  <1>2. l \in Nat \ {0} /\ PageSize % l = 0
      BY <1>1, AccessAssumption
  <1>3. m \in Int /\ PageSize = (l * m) + 0
    <2>1. m \in Int /\ PageSize = (l * m) + (PageSize % l)
        BY <1>2, SizesAre, DivisionIs
    <2> QED
        BY <1>2, <2>1
  <1>4. k \in Nat /\ AddrMod = PageSize * k
      BY SizesAre
  <1> HIDE DEF l, m, k
  <1>5. \A x \in Nat \ {0} : \A y \in Int : x * y >= 1 => x * y >= x
    <2> TAKE x \in Nat \ {0}, y \in Int
    <2>1. y >= 1 => x * y >= x
        BY ProductIsAtLeast
    <2>2. CASE y <= 0
      <3>1. 0 - y \in Nat /\ x * (0 - y) = 0 - (x * y) /\ x * y \in Int
          BY <2>2
      <3>2. x * (0 - y) >= 0
          BY <3>1
      <3> QED
          BY <3>1, <3>2
    <2> QED
        BY <2>1, <2>2
  <1>6. PageSize >= 1 /\ AddrMod >= 1
      BY SizesAre
  <1>7. l * m >= l
      BY <1>2, <1>3, <1>5, <1>6
  <1>8. PageSize * k >= PageSize
      BY <1>4, <1>5, <1>6, SizesAre
  <1>9. l <= PageSize /\ PageSize <= AddrMod
      BY <1>2, <1>3, <1>4, <1>7, <1>8, SizesAre
  <1> QED
      BY <1>1, <1>2, <1>9, SizesAre DEF l

\* An aligned value lies in one page.
LEMMA AlignedInOnePage ==
    ASSUME NEW val \in Value, NEW addr \in Addr, addr % Len(val) = 0,
           NEW k \in 1 .. Len(val)
    PROVE  PageOf(addr + k - 1) = PageOf(addr)
  <1> DEFINE l == Len(val)
             m == PageSize \div l
             s == addr \div PageSize
             o == addr % PageSize
             q == addr \div l
             top == AddrMod \div PageSize
  <1>1. l \in Nat \ {0} /\ PageSize % l = 0
      BY ValueIs, AccessAssumption
  <1>2. m \in Int /\ PageSize = l * m
    <2>1. m \in Int /\ PageSize = (l * m) + (PageSize % l)
        BY <1>1, SizesAre, DivisionIs
    <2>2. l * m \in Int
        BY <1>1, <2>1
    <2> QED
        BY <1>1, <2>1, <2>2
  <1>3. addr \in Int /\ addr % AddrMod = addr
      BY AddrIsRest
  <1>4. s \in Int /\ o \in 0 .. PageSize - 1 /\ addr = (PageSize * s) + o
      BY <1>3, SizesAre, DivisionIs
  <1>5. q \in Int /\ addr = l * q
    <2>1. q \in Int /\ addr = (l * q) + (addr % l)
        BY <1>1, <1>3, DivisionIs
    <2>2. l * q \in Int
        BY <1>1, <2>1
    <2> QED
        BY <2>1, <2>2
  <1>6. top \in Nat /\ AddrMod = PageSize * top
      BY SizesAre
  <1>7. PageOf(addr) = s /\ s \in 0 .. top - 1
      BY <1>3, PageIs DEF PageOf, Page
  <1>8. k \in 1 .. l
      OBVIOUS
  <1> HIDE DEF l, m, s, o, q, top
  <1>9. o + l <= PageSize
    <2> DEFINE u == q - (m * s)
    <2>1. m * s \in Int
        BY <1>2, <1>4
    <2>2. u \in Int /\ l * u = (l * q) - (l * (m * s))
        BY <1>1, <1>5, <2>1
    <2>3. l * (m * s) = (l * m) * s
        BY <1>1, <1>2, <1>4
    <2>4. (l * m) * s \in Int /\ l * q \in Int
        BY <1>1, <1>2, <1>4, <1>5
    <2> HIDE DEF u
    <2>5. o = l * u
        BY <1>2, <1>4, <1>5, <2>2, <2>3, <2>4
    <2>6. l * (m - u) = (l * m) - (l * u) /\ m - u \in Int
        BY <1>1, <1>2, <2>2
    <2>7. CASE m - u >= 1
      <3>1. l * (m - u) >= l
          BY <1>1, <2>6, <2>7, ProductIsAtLeast
      <3>2. l * (m - u) = PageSize - o
          BY <1>2, <2>5, <2>6
      <3>3. o \in Int /\ PageSize \in Int /\ l \in Int
          BY <1>1, <1>4, SizesAre
      <3> QED
          BY <3>1, <3>2, <3>3
    <2>8. CASE u - m >= 0
      <3>1. l * (u - m) >= 0 /\ l * (u - m) = (l * u) - (l * m)
          BY <1>1, <1>2, <2>2, <2>8
      <3> QED
          BY <1>2, <1>4, <2>5, <3>1, SizesAre
    <2> QED
        BY <1>2, <2>2, <2>7, <2>8
  <1>10. PageSize * s \in Int /\ PageSize * (s + 1) = (PageSize * s) + PageSize
      BY <1>4, SizesAre
  <1>11. (PageSize * s) + PageSize <= AddrMod
    <2>1. top - (s + 1) \in Nat
        BY <1>6, <1>7
    <2>2. PageSize * (top - (s + 1)) >= 0
        BY <2>1, SizesAre
    <2>3. PageSize * (top - (s + 1)) = (PageSize * top) - (PageSize * (s + 1))
        BY <1>4, <1>6, SizesAre
    <2> QED
        BY <1>6, <1>10, <2>2, <2>3, SizesAre
  <1> DEFINE a == addr + k - 1
             r == o + k - 1
  <1>12. r \in 0 .. PageSize - 1 /\ a = (PageSize * s) + r /\ a \in Addr
    <2>1. o \in Nat /\ addr >= 0 /\ k \in Nat /\ k >= 1 /\ k <= l /\ l \in Nat
        BY <1>1, <1>4, <1>8 DEF Addr
    <2> QED
        BY <1>3, <1>4, <1>9, <1>10, <1>11, <2>1, SizesAre DEF Addr
  <1> HIDE DEF a, r
  <1>13. a \div PageSize = s /\ a \in Int
      BY <1>4, <1>12, SizesAre, AddrIsRest, DivisionBy
  <1>14. PageOf(a) = s
      BY <1>12, <1>13, AddrIsRest DEF PageOf
  <1> QED
      BY <1>7, <1>14 DEF a

\* How far a byte is behind the first one of an access.
LEMMA BehindAccess ==
    ASSUME NEW addr \in Int, NEW a \in Addr, NEW k \in 1 .. AddrMod,
           a % AddrMod = (addr + k - 1) % AddrMod
    PROVE  (a - addr) % AddrMod = k - 1
  <1> DEFINE x == addr + k - 1
             q == x \div AddrMod
  <1>1. q \in Int /\ x = (AddrMod * q) + (x % AddrMod)
      BY SizesAre, DivisionIs
  <1>2. a \in Int /\ a % AddrMod = a
      BY AddrIsRest
  <1>3. x = (AddrMod * q) + a
      BY <1>1, <1>2
  <1> HIDE DEF q
  <1>4. AddrMod * q \in Int /\ AddrMod * (0 - q) = 0 - (AddrMod * q)
      BY <1>1, SizesAre
  <1>5. a - addr = (AddrMod * (0 - q)) + (k - 1)
      BY <1>2, <1>3, <1>4
  <1>6. k - 1 \in 0 .. AddrMod - 1 /\ 0 - q \in Int /\ a - addr \in Int
      BY <1>1, <1>2, SizesAre
  <1> QED
      BY <1>5, <1>6, SizesAre, DivisionBy
-----------------------------------------------------------------------------
(* What main() has put into memory before the loop starts.                 *)

\* The stacks do not reach below address 0; that no segment reaches beyond the
\* last address is checked when it is loaded.
StacksFit == \A c \in Core : StackBase[c] - StackSize + 1 >= 0

Stack(c) == StackBase[c] - StackSize + 1 .. StackBase[c]

\* The byte at a, and whether it has been put there, once the programs of the
\* cores in progs and the stacks of those in stacks have been set up.
Given(progs, stacks, a) ==
    IF \E c \in stacks : a \in Stack(c) THEN 0
    ELSE IF 1 \in progs /\ Linked(1, a) # {} THEN Image(1, a)
    ELSE IF 0 \in progs /\ Linked(0, a) # {} THEN Image(0, a)
    ELSE 0
Placed(progs, stacks, a) ==
    (\E c \in stacks : a \in Stack(c)) \/ (\E c \in progs : Linked(c, a) # {})
Loaded(progs, stacks) ==
    \A a \in Addr : /\ getByte(memory, a) = Given(progs, stacks, a)
                    /\ Placed(progs, stacks, a) => isAddrExist(memory, a)

Phase == {"load 0", "load 1", "stack 0", "stack 1", "share", "run", "exited"}
DataOK == CoresOK /\ elf \in [Core -> Programs] /\ memory \in Memory /\ phase \in Phase

LoadInv ==
    /\ phase = "load 0" => Loaded({}, {})
    /\ phase = "load 1" => Loaded({0}, {})
    /\ phase = "stack 0" => Loaded({0, 1}, {})
    /\ phase = "stack 1" => Loaded({0, 1}, {0})
    /\ phase = "share" => Loaded({0, 1}, {0, 1})
    /\ phase = "run" /\ clockCycle = 0 /\ turn = 0 => Loaded({0, 1}, {0, 1})

LEMMA ProgramIs ==
    ASSUME DataOK, NEW c \in Core
    PROVE  /\ elf[c] \in Seq(Segment) /\ elf[c] \in Programs
           /\ StackBase[c] \in Addr /\ StackSize \in Nat
  BY ProgramAssumption, StackAssumption DEF DataOK

\* Loading the program of core c gives its bytes to what it links.
LEMMA ProgramLoads ==
    ASSUME DataOK, NEW c \in Core, Loadable(elf[c], Len(elf[c])), NEW a \in Addr
    PROVE  LET new == loadElfToMemory(memory, elf[c])
           IN  /\ isAddrExist(memory, a) \/ Linked(c, a) # {} => isAddrExist(new, a)
               /\ getByte(new, a) = IF Linked(c, a) # {} THEN Image(c, a)
                                    ELSE getByte(memory, a)
  <1> DEFINE segs == elf[c]
             new == loadElfToMemory(memory, segs)
             covering == Covering(segs, Len(segs), a)
  <1>1. segs \in Seq(Segment) /\ memory \in Memory /\ a \in Int
      BY ProgramIs, AddrIsRest DEF DataOK
  <1>2. DOMAIN segs = 1 .. Len(segs)
      BY <1>1
  <1>3. Loadable(segs, Len(segs))
      OBVIOUS
  <1>4. covering = Linked(c, a)
      BY <1>2 DEF Covering, Linked
  <1>5. /\ isAddrExist(memory, a) => isAddrExist(new, a)
        /\ \/ covering = {} /\ getByte(new, a) = getByte(memory, a)
           \/ /\ isAddrExist(new, a)
              /\ \E k \in covering : /\ \A j \in covering : j <= k
                                     /\ getByte(new, a) = SegmentByte(segs[k], a)
      BY <1>1, <1>3, LoadElfIs
  <1>6. covering \subseteq Nat
      BY <1>1 DEF Covering
  <1> HIDE DEF covering, new
  <1>7. ASSUME NEW k \in covering, \A j \in covering : j <= k,
               getByte(new, a) = SegmentByte(segs[k], a)
        PROVE  getByte(new, a) = Image(c, a)
    <2>1. \A n \in covering : (\A j \in covering : j <= n) => n = k
        BY <1>6, <1>7
    <2> DEFINE last == CHOOSE n \in Linked(c, a) : \A j \in Linked(c, a) : j <= n
    <2>2. last \in covering /\ \A j \in covering : j <= last
        BY <1>4, <1>7
    <2>3. last = k
        BY <2>1, <2>2
    <2>4. Image(c, a) = SegmentByte(elf[c][last], a)
        BY DEF Image, SegmentByte
    <2> HIDE DEF last
    <2> QED
        BY <1>7, <2>3, <2>4
  <1>8. covering # {} => isAddrExist(new, a) /\ getByte(new, a) = Image(c, a)
      BY <1>5, <1>7
  <1> QED
      BY <1>4, <1>5, <1>8 DEF new

\* The stack of core c is zeroed.
LEMMA StackLoads ==
    ASSUME DataOK, StacksFit, NEW c \in Core, NEW a \in Addr
    PROVE  LET new == initStack(memory, StackBase[c], StackSize)
           IN  /\ isAddrExist(memory, a) \/ a \in Stack(c) => isAddrExist(new, a)
               /\ getByte(new, a) = IF a \in Stack(c) THEN 0 ELSE getByte(memory, a)
  <1>1. /\ memory \in Memory /\ a \in Int /\ StackBase[c] \in Addr /\ StackSize \in Nat
        /\ StackBase[c] - StackSize + 1 >= 0
      BY ProgramIs, AddrIsRest DEF DataOK, StacksFit
  <1> DEFINE base == StackBase[c]
             new == initStack(memory, base, StackSize)
             stack == base - StackSize + 1 .. base
  <1>2. Stack(c) = stack
      BY DEF Stack
  <1>3. /\ isAddrExist(memory, a) => isAddrExist(new, a)
        /\ a \in stack => isAddrExist(new, a)
        /\ getByte(new, a) = IF a \in stack THEN 0 ELSE getByte(memory, a)
    <2> HIDE DEF base
    <2>1. base \in Addr /\ base - StackSize + 1 >= 0
        BY <1>1 DEF base
    <2> QED
        BY <1>1, <2>1, InitStackIs
  <1> QED
      BY <1>2, <1>3

LEMMA NothingLoaded == ASSUME Init PROVE DataOK /\ LoadInv
  <1>1. memory \in Memory
    <2>1. DOMAIN memory = {} /\ memory \in [DOMAIN memory -> Contents]
        BY DEF Init
    <2> QED
        BY <2>1, MemoryIs
  <1>2. \A a : ~isAddrExist(memory, a) /\ getByte(memory, a) = 0
      BY DEF Init, getByte, isAddrExist
  <1>3. \A a : Given({}, {}, a) = 0 /\ ~Placed({}, {}, a)
      BY DEF Given, Placed
  <1>4. LoadInv
      BY <1>2, <1>3 DEF Init, LoadInv, Loaded
  <1> QED
      BY <1>1, <1>4, InitCores DEF DataOK, CoresInv, Init, Phase

\* The types, of the loading steps and the others.
LEMMA StartTyped ==
    ASSUME DataOK, Startup PROVE DataOK'
  <1>1. CoresOK' /\ elf' = elf
      BY DEF DataOK, CoresOK, Startup, Load, Start, core
  <1>2. \A c \in Core : /\ loadElfToMemory(memory, elf[c]) \in Memory
                        /\ initStack(memory, StackBase[c], StackSize) \in Memory
      BY ProgramIs, LoadElfIs, InitStackIs DEF DataOK
  <1>3. addPages(memory, SharedPages) \in Memory
      BY AddPagesAre, SharedAssumption DEF DataOK
  <1>4. memory' \in Memory /\ phase' \in Phase
      BY <1>2, <1>3 DEF Startup, Load, Start, Phase
  <1> QED
      BY <1>1, <1>4 DEF DataOK

LEMMA StoreTyped ==
    ASSUME DataOK, NEW addr \in Addr, NEW val \in Value
    PROVE  setBytes(memory, addr, val) \in Memory
  <1>1. addr \in Int /\ val \in Seq(Byte) /\ Len(val) <= AddrMod
      BY ValueIs, AddrIsRest
  <1> QED
      BY <1>1, SetBytesIs DEF DataOK

LEMMA NextTyped ==
    ASSUME DataOK, CoresInv, [Next]_vars PROVE DataOK'
  <1>1. CASE Startup
      BY <1>1, StartTyped
  <1>2. CoresOK'
      BY NextKeeps DEF CoresInv
  <1>3. ASSUME NEW c \in Core, Skip(c) \/ Stall(c) \/ NoStore(c)
        PROVE  memory' = memory /\ elf' = elf /\ phase' = phase
      BY <1>3 DEF Skip, Stall, NoStore, Stepped, AtTurn
  <1>4. ASSUME NEW c \in Core, NEW addr \in Addr, NEW val \in Value,
               Store(c, addr, val)
        PROVE  memory' \in Memory /\ elf' = elf /\ phase' = phase
      BY <1>4, StoreTyped DEF Store, Stepped, AtTurn
  <1>5. ASSUME NEW c \in Core, NEW addr \in Addr, NEW val \in Value,
               Panic(c, addr, val)
        PROVE  memory' = memory /\ elf' = elf /\ phase' = phase
      BY <1>5 DEF Panic, AtTurn
  <1>6. CASE UNCHANGED vars
      BY <1>6 DEF DataOK, CoresOK, vars, core
  <1> QED
      BY <1>1, <1>2, <1>3, <1>4, <1>5, <1>6 DEF DataOK, Next

LEMMA SameGiven ==
    ASSUME elf' = elf
    PROVE  \A P, T, a : /\ Given(P, T, a)' = Given(P, T, a)
                        /\ Placed(P, T, a)' = Placed(P, T, a)
  <1>1. \A c, a : Linked(c, a)' = Linked(c, a)
      BY DEF Linked
  <1> DEFINE ImageOf(e, c, a) ==
                LET linked == {n \in DOMAIN e[c] : Covers(e[c][n], a)}
                    n == CHOOSE n \in linked : \A k \in linked : k <= n
                    seg == e[c][n]
                    k == a - seg.addr + 1
                IN  IF k <= Len(seg.data) THEN seg.data[k] ELSE 0
  <1>2. \A c, a : Image(c, a)' = Image(c, a)
    <2>1. \A c, a : Image(c, a) = ImageOf(elf, c, a)
        BY DEF Image, Linked
    <2>2. \A c, a : Image(c, a)' = ImageOf(elf', c, a)
        BY DEF Image, Linked
    <2> HIDE DEF ImageOf
    <2> QED
        BY <2>1, <2>2
  <1> TAKE P, T, a
  <1>3. Given(P, T, a)' = Given(P, T, a)
      BY <1>1, <1>2 DEF Given, Stack
  <1>4. Placed(P, T, a)' = Placed(P, T, a)
      BY <1>1 DEF Placed, Stack
  <1> QED
      BY <1>3, <1>4

\* Each loading step adds its part to what is loaded.
LEMMA StartLoads ==
    ASSUME DataOK, LoadInv, StacksFit, Startup PROVE LoadInv'
  <1>0. UNCHANGED <<elf, turn, clockCycle>>
        /\ \A P, T, a : Given(P, T, a)' = Given(P, T, a) /\ Placed(P, T, a)' = Placed(P, T, a)
    <2>1. UNCHANGED <<elf, turn, clockCycle>>
        BY DEF Startup, Load, Start
    <2> QED
        BY <2>1, SameGiven
  <1>1. CASE Load(0, "load 0", "load 1")
    <2> DEFINE fits == Loadable(elf[0], Len(elf[0]))
    <2>1. Loaded({}, {}) /\ memory' = loadElfToMemory(memory, elf[0])
        BY <1>1 DEF LoadInv, Load, Start
    <2>2. CASE fits
      <3>1. phase' = "load 1"
          BY <1>1, <2>2 DEF Load, Start
      <3>2. \A a \in Addr :
              /\ isAddrExist(memory, a) \/ Linked(0, a) # {} => isAddrExist(memory', a)
              /\ getByte(memory', a) = IF Linked(0, a) # {} THEN Image(0, a)
                                       ELSE getByte(memory, a)
          BY <2>1, <2>2, ProgramLoads
      <3>3. \A a \in Addr :
              /\ getByte(memory', a) = Given({0}, {}, a)
              /\ Placed({0}, {}, a) => isAddrExist(memory', a)
          BY <2>1, <3>2 DEF Loaded, Given, Placed
      <3>4. Loaded({0}, {})'
          BY <1>0, <3>3 DEF Loaded
      <3> QED
          BY <3>1, <3>4 DEF LoadInv
    <2>3. CASE ~fits
      <3>1. phase' = "exited"
          BY <1>1, <2>3 DEF Load, Start
      <3> QED
          BY <3>1 DEF LoadInv
    <2> QED
        BY <2>2, <2>3
  <1>2. CASE Load(1, "load 1", "stack 0")
    <2> DEFINE fits == Loadable(elf[1], Len(elf[1]))
    <2>1. Loaded({0}, {}) /\ memory' = loadElfToMemory(memory, elf[1])
        BY <1>2 DEF LoadInv, Load, Start
    <2>2. CASE fits
      <3>1. phase' = "stack 0"
          BY <1>2, <2>2 DEF Load, Start
      <3>2. \A a \in Addr :
              /\ isAddrExist(memory, a) \/ Linked(1, a) # {} => isAddrExist(memory', a)
              /\ getByte(memory', a) = IF Linked(1, a) # {} THEN Image(1, a)
                                       ELSE getByte(memory, a)
          BY <2>1, <2>2, ProgramLoads
      <3>3. \A a \in Addr :
              /\ getByte(memory', a) = Given({0, 1}, {}, a)
              /\ Placed({0, 1}, {}, a) => isAddrExist(memory', a)
          BY <2>1, <3>2 DEF Loaded, Given, Placed
      <3>4. Loaded({0, 1}, {})'
          BY <1>0, <3>3 DEF Loaded
      <3> QED
          BY <3>1, <3>4 DEF LoadInv
    <2>3. CASE ~fits
      <3>1. phase' = "exited"
          BY <1>2, <2>3 DEF Load, Start
      <3> QED
          BY <3>1 DEF LoadInv
    <2> QED
        BY <2>2, <2>3
  <1>3. CASE Start("stack 0", "stack 1", initStack(memory, StackBase[0], StackSize))
    <2>1. Loaded({0, 1}, {}) /\ phase' = "stack 1"
          /\ memory' = initStack(memory, StackBase[0], StackSize)
        BY <1>3 DEF LoadInv, Start
    <2>2. \A a \in Addr :
            /\ isAddrExist(memory, a) \/ a \in Stack(0) => isAddrExist(memory', a)
            /\ getByte(memory', a) = IF a \in Stack(0) THEN 0 ELSE getByte(memory, a)
        BY <2>1, StackLoads
    <2>3. \A a \in Addr :
            /\ getByte(memory', a) = Given({0, 1}, {0}, a)
            /\ Placed({0, 1}, {0}, a) => isAddrExist(memory', a)
        BY <2>1, <2>2 DEF Loaded, Given, Placed
    <2>4. Loaded({0, 1}, {0})'
        BY <1>0, <2>3 DEF Loaded
    <2> QED
        BY <2>1, <2>4 DEF LoadInv
  <1>4. CASE Start("stack 1", "share", initStack(memory, StackBase[1], StackSize))
    <2>1. Loaded({0, 1}, {0}) /\ phase' = "share"
          /\ memory' = initStack(memory, StackBase[1], StackSize)
        BY <1>4 DEF LoadInv, Start
    <2>2. \A a \in Addr :
            /\ isAddrExist(memory, a) \/ a \in Stack(1) => isAddrExist(memory', a)
            /\ getByte(memory', a) = IF a \in Stack(1) THEN 0 ELSE getByte(memory, a)
        BY <2>1, StackLoads
    <2>3. \A a \in Addr :
            /\ getByte(memory', a) = Given({0, 1}, {0, 1}, a)
            /\ Placed({0, 1}, {0, 1}, a) => isAddrExist(memory', a)
        BY <2>1, <2>2 DEF Loaded, Given, Placed
    <2>4. Loaded({0, 1}, {0, 1})'
        BY <1>0, <2>3 DEF Loaded
    <2> QED
        BY <2>1, <2>4 DEF LoadInv
  <1>5. CASE Start("share", "run", addPages(memory, SharedPages))
    <2>1. Loaded({0, 1}, {0, 1}) /\ phase' = "run"
          /\ memory' = addPages(memory, SharedPages)
        BY <1>5 DEF LoadInv, Start
    <2>2. \A a \in Addr : a \in Int
        BY AddrIsRest
    <2>3. Loaded({0, 1}, {0, 1})'
        BY <1>0, <2>1, <2>2, AddPagesAre, SharedAssumption DEF Loaded, DataOK
    <2> QED
        BY <2>1, <2>3 DEF LoadInv
  <1> QED
      BY <1>1, <1>2, <1>3, <1>4, <1>5 DEF Startup

\* Once the loop runs, it is never again at its beginning.
LEMMA LoopGoesOn ==
    ASSUME DataOK, NEW c \in Core, AtTurn(c) PROVE LoadInv'
  <1>1. phase' = "run" /\ (turn' = 1 \/ clockCycle' # 0)
      BY DEF AtTurn, DataOK, CoresOK
  <1> QED
      BY <1>1 DEF LoadInv

LEMMA NextLoads ==
    ASSUME DataOK, LoadInv, StacksFit, [Next]_vars PROVE LoadInv'
  <1>1. CASE Startup
      BY <1>1, StartLoads
  <1>2. ASSUME NEW c \in Core,
               \/ Skip(c) \/ Stall(c) \/ NoStore(c)
               \/ \E addr \in Addr, val \in Value :
                    Store(c, addr, val) \/ Panic(c, addr, val)
        PROVE  LoadInv'
    <2>1. AtTurn(c)
        BY <1>2 DEF Skip, Stall, NoStore, Store, Stepped, Panic
    <2> QED
        BY <2>1, LoopGoesOn
  <1>3. CASE UNCHANGED vars
    <2>1. elf' = elf /\ memory' = memory /\ UNCHANGED <<phase, clockCycle, turn>>
        BY <1>3 DEF vars
    <2>2. \A P, T : Loaded(P, T) => Loaded(P, T)'
        BY <2>1, SameGiven DEF Loaded
    <2> QED
        BY <2>1, <2>2 DEF LoadInv
  <1> QED
      BY <1>1, <1>2, <1>3 DEF Next
-----------------------------------------------------------------------------
LEMMA DataStaysOK == Spec => [](CoresInv /\ DataOK)
  <1>1. Init => CoresInv /\ DataOK
      BY InitCores, NothingLoaded
  <1>2. (CoresInv /\ DataOK) /\ [Next]_vars => (CoresInv /\ DataOK)'
      BY NextKeeps, NextTyped
  <1> QED
      BY <1>1, <1>2, PTL DEF Spec

\* The memory is always a map from pages of the address space to bytes, and
\* the counters of the cores stay in their ranges.
THEOREM TypeCorrect == Spec => []TypeOK
  <1>1. DataOK => TypeOK
      BY MemoryIs DEF DataOK, CoresOK, TypeOK, Contents, Phase
  <1> QED
      BY <1>1, DataStaysOK, PTL

\* However segments, programs, stacks and shared pages meet in the pages of
\* the memory: the cores start with what their linkers wrote.
THEOREM ProgramsAreLoaded == ASSUME StacksFit PROVE Spec => []LoadedAsLinked
  <1>1. Init => LoadInv
      BY NothingLoaded
  <1>2. (CoresInv /\ DataOK) /\ LoadInv /\ [Next]_vars => LoadInv'
      BY NextLoads
  <1>3. LoadInv => LoadedAsLinked
    <2> SUFFICES ASSUME LoadInv, phase = "run", clockCycle = 0, turn = 0, NEW a \in Addr
                 PROVE  /\ getByte(memory, a) =
                            IF InStack(a) THEN 0
                            ELSE IF Linked(1, a) # {} THEN Image(1, a)
                            ELSE IF Linked(0, a) # {} THEN Image(0, a)
                            ELSE 0
                        /\ InStack(a) \/ Linked(0, a) # {} \/ Linked(1, a) # {} =>
                            isAddrExist(memory, a)
        BY DEF LoadedAsLinked
    <2>1. InStack(a) <=> \E c \in {0, 1} : a \in Stack(c)
        BY DEF InStack, Stack
    <2> QED
        BY <2>1 DEF LoadInv, Loaded, Given, Placed
  <1> QED
      BY <1>1, <1>2, <1>3, DataStaysOK, PTL DEF Spec

LEMMA StoreIsWhole ==
    ASSUME DataOK, NEW c \in Core, NEW addr \in Addr, NEW val \in Value,
           \/ addr % Len(val) = 0
           \/ \A k \in DOMAIN val : isAddrExist(memory, addr + k - 1),
           Store(c, addr, val)
    PROVE  /\ getBytes(memory', addr, Len(val)) = val
           /\ \A a \in Addr : (a - addr) % AddrMod >= Len(val) =>
                getByte(memory', a) = getByte(memory, a)
  <1>1. /\ accepts(memory, addr) /\ memory' = setBytes(memory, addr, val)
        /\ memory \in Memory
      BY DEF Store, DataOK
  <1>2. /\ addr \in Int /\ val \in Seq(Byte) /\ Len(val) \in Nat
        /\ Len(val) <= AddrMod /\ DOMAIN val = 1 .. Len(val)
      BY ValueIs, AddrIsRest
  <1>3. \A k \in 1 .. Len(val) : isAddrExist(memory, addr + k - 1)
    <2>1. CASE addr % Len(val) = 0
        BY <1>1, <2>1, AlignedInOnePage DEF accepts, isAddrExist
    <2>2. CASE \A k \in DOMAIN val : isAddrExist(memory, addr + k - 1)
        BY <1>2, <2>2
    <2> QED
        BY <2>1, <2>2
  <1>4. /\ \A a \in Int :
            (\A k \in 1 .. Len(val) : a % AddrMod # (addr + k - 1) % AddrMod)
                => getByte(memory', a) = getByte(memory, a)
        /\ \A k \in 1 .. Len(val) : getByte(memory', addr + k - 1) = val[k]
      BY <1>1, <1>2, <1>3, SetBytesIs
  <1>5. getBytes(memory', addr, Len(val)) = val
    <2>1. val = [k \in 1 .. Len(val) |-> val[k]]
        BY <1>2
    <2> QED
        BY <1>4, <2>1 DEF getBytes
  <1>6. ASSUME NEW a \in Addr, (a - addr) % AddrMod >= Len(val)
        PROVE  getByte(memory', a) = getByte(memory, a)
    <2>1. ASSUME NEW k \in 1 .. Len(val), a % AddrMod = (addr + k - 1) % AddrMod
          PROVE  FALSE
      <3>1. k \in 1 .. AddrMod
          BY <1>2, SizesAre
      <3>2. (a - addr) % AddrMod = k - 1
          BY <1>2, <2>1, <3>1, BehindAccess
      <3> QED
          BY <1>2, <1>6, <3>2
    <2> QED
        BY <1>4, <2>1, AddrIsRest
  <1> QED
      BY <1>5, <1>6

\* A store that is accepted arrives as a whole, unless it crosses into a page
\* that does not exist, and changes nothing else.
THEOREM StoresArrive == Spec => StoresAreWhole
  <1>1. DataOK => [\A c \in Core, addr \in Addr, val \in Value :
        /\ addr % Len(val) = 0 \/ \A k \in DOMAIN val : isAddrExist(memory, addr + k - 1)
        /\ Store(c, addr, val)
        => /\ getBytes(memory', addr, Len(val)) = val
           /\ \A a \in Addr : (a - addr) % AddrMod >= Len(val) =>
                getByte(memory', a) = getByte(memory, a)]_vars
      BY StoreIsWhole
  <1> QED
      BY <1>1, DataStaysOK, PTL DEF StoresAreWhole
=============================================================================
