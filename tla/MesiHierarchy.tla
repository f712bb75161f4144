---------------------------- MODULE MesiHierarchy ----------------------------
(***************************************************************************)
(* Two cores, each with a private L1 and L2, over a shared L3, kept        *)
(* coherent by a MESI directory in the MemoryManager: the build with       *)
(* DUALCORE and MESILOCK.  An action is one byte access of one core, the   *)
(* call MemoryManager::getByte / setByte makes to that core's L1.  The     *)
(* program is one thread, so an access runs to its end before the next     *)
(* one starts; the cores' accesses interleave freely, as the lines of a    *)
(* trace do.  A fill or a write-back moves a block at once: the code moves *)
(* it byte by byte, but every byte after the first finds what the first    *)
(* one found.  The L3 and the memory below it are one store, llc.          *)
(* A definition named Bad... is a mutant of the one after it.              *)
(***************************************************************************)
EXTENDS Integers, FiniteSets

CONSTANTS
    Block,      \* block addresses
    Written,    \* the blocks the programs write; the others they only read
    Offset,     \* byte positions in a block
    Value,      \* contents of a byte
    Zero,       \* the byte an untouched page holds
    NoVictim,   \* "a free way was found": no block is replaced
    L1Ways, L2Ways,     \* associativity of each private level
    L1Set, L2Set        \* getId: the set a block falls in, per level

Core == {0, 1}
Level == {1, 2}
Nobody == -1            \* the directory's owner = nullptr, sharer = -1
BothCores == 2          \* the directory's sharer = 2
MESI == {"INVALID", "SHARED", "EXCLUSIVE", "MODIFIED"}

ASSUME ZeroAssumption == Zero \in Value
ASSUME VictimAssumption == NoVictim \notin Block
ASSUME WaysAssumption == L1Ways \in Nat \ {0} /\ L2Ways \in Nat \ {0, 1}
ASSUME SetAssumption == L1Set \in [Block -> Nat] /\ L2Set \in [Block -> Nat]
ASSUME WrittenAssumption == Written \subseteq Block

VARIABLES
    blk,        \* blk[b]: every copy of block b, and its directory entry
    newer,      \* newer[l][c][b]: what core c's level l used after b
    halted      \* the program has called exit()
vars == <<blk, newer, halted>>

Data == [Offset -> Value]
Line == [valid : BOOLEAN, modified : BOOLEAN, MESI : MESI, data : Data]
Directoryblock == [MESI : MESI, owner : Core \cup {Nobody},
                   sharer : Core \cup {Nobody, BothCores}]
BlockState == [l1 : [Core -> Line], l2 : [Core -> Line],
               llc : Data, dir : Directoryblock]

Blank == [i \in Offset |-> Zero]
\* A line that is not valid keeps nothing the code reads again.
NoLine == [valid |-> FALSE, modified |-> FALSE, MESI |-> "INVALID",
           data |-> Blank]

Init ==
    /\ blk = [b \in Block |->
                [l1 |-> [c \in Core |-> NoLine], l2 |-> [c \in Core |-> NoLine],
                 llc |-> Blank,
                 dir |-> [MESI |-> "INVALID", owner |-> Nobody,
                          sharer |-> Nobody]]]
    /\ newer = [l \in Level |-> [c \in Core |-> [b \in Block |-> {}]]]
    /\ halted = FALSE

Other(c) == 1 - c
-----------------------------------------------------------------------------
(* One block k, seen by the controller (the L1) of core c.                 *)

Holds(k, c) == k.l1[c].valid \/ k.l2[c].valid

\* The state and the data are read in the L1, else in the L2.
Copy(k, c) == IF k.l1[c].valid THEN k.l1[c] ELSE k.l2[c]
readBlockMESI(k, c) == Copy(k, c).MESI
dataTrans(k, c) == Copy(k, c).data

\* Stops at the first level that holds the block.
BadsetBlockMESI(k, c, mesi) ==
    IF k.l1[c].valid THEN [k EXCEPT !.l1[c].MESI = mesi]
                     ELSE [k EXCEPT !.l2[c].MESI = mesi]
\* The requestor keeps what it loaded.
Badsetdata(k, c, data) == k
\* Both levels are written where they hold the block.
setBlockMESI(k, c, mesi) ==
    [k EXCEPT !.l1[c] = IF @.valid THEN [@ EXCEPT !.MESI = mesi] ELSE @,
              !.l2[c] = IF @.valid THEN [@ EXCEPT !.MESI = mesi] ELSE @]
setdata(k, c, data) ==
    [k EXCEPT !.l1[c] = IF @.valid THEN [@ EXCEPT !.data = data] ELSE @,
              !.l2[c] = IF @.valid THEN [@ EXCEPT !.data = data] ELSE @]
\* Leaves the L1 copy behind.
BadinvalidateBlock(k, c) == [k EXCEPT !.l2[c] = NoLine]
invalidateBlock(k, c) == [k EXCEPT !.l1[c] = NoLine, !.l2[c] = NoLine]

\* Shares the copy without writing it down.
BadOtherRead(k, c) ==
    IF readBlockMESI(k, c) \in {"MODIFIED", "EXCLUSIVE"}
    THEN setBlockMESI(k, c, "SHARED") ELSE k
\* MESIoperationRec(OTHERREAD): an M or E copy goes down and becomes shared.
OtherRead(k, c) ==
    IF readBlockMESI(k, c) \in {"MODIFIED", "EXCLUSIVE"}
    THEN setBlockMESI([k EXCEPT !.llc = dataTrans(k, c)], c, "SHARED")
    ELSE k

\* Misses the SHARED case, or marks the copy without dropping it.
BadOtherWrite(k, c) ==
    IF readBlockMESI(k, c) \in {"INVALID", "SHARED"} THEN k
    ELSE invalidateBlock(k, c)
BadOtherWriteKeeps(k, c) == setBlockMESI(k, c, "INVALID")
\* MESIoperationRec(OTHERWRITE): the copy is dropped, never written back.
OtherWrite(k, c) ==
    IF readBlockMESI(k, c) = "INVALID" THEN k ELSE invalidateBlock(k, c)

\* Takes sharer for a count.
BadSetDir(k, mesi, owner, sharer) ==
    [k EXCEPT !.dir = [MESI |-> mesi, owner |-> owner,
                       sharer |-> @.sharer + sharer]]
SetDir(k, mesi, owner, sharer) ==
    [k EXCEPT !.dir = [MESI |-> mesi, owner |-> owner, sharer |-> sharer]]

\* Forgets the other sharer.
BadDirEvict(k, c) == SetDir(k, "INVALID", Nobody, Nobody)
\* MESIoperationmem(EVICT).
DirEvict(k, c) ==
    CASE k.dir.MESI \in {"MODIFIED", "EXCLUSIVE"} ->
            SetDir(k, "INVALID", Nobody, Nobody)
      [] k.dir.MESI = "SHARED" /\ k.dir.sharer # BothCores ->
            SetDir(k, "INVALID", Nobody, Nobody)
      [] k.dir.MESI = "SHARED" /\ k.dir.sharer = BothCores ->
            SetDir(k, "SHARED", Nobody, Other(c))
      [] OTHER -> k

Owned(k) == k.dir.MESI \in {"MODIFIED", "EXCLUSIVE"}

\* MESIoperationmem(OWNREAD): an owner is asked to share.
DirRead(k, c) ==
    CASE Owned(k) ->
            SetDir(OtherRead(k, k.dir.owner), "SHARED", k.dir.owner, BothCores)
      [] k.dir.MESI = "SHARED" ->
            SetDir(k, "SHARED", k.dir.owner, BothCores)
      [] OTHER -> SetDir(k, "EXCLUSIVE", c, k.dir.sharer)

\* MESIoperationFwd(OWNREAD): data moves only from an owner.
OwnRead(k, c) ==
    LET k1 == DirRead(k, c)
    IN  CASE readBlockMESI(k, c) # "INVALID" -> k
          [] readBlockMESI(k, c) = "INVALID" /\ Owned(k) ->
                setBlockMESI(setdata(k1, c, dataTrans(k, k.dir.owner)),
                             c, "SHARED")
          [] readBlockMESI(k, c) = "INVALID" /\ k.dir.MESI = "SHARED" ->
                setBlockMESI(k1, c, "SHARED")
          [] OTHER -> setBlockMESI(k1, c, "EXCLUSIVE")

\* MESIoperationmem(OWNWRITE): whoever the directory names is invalidated.
DirWrite(k, c) ==
    CASE Owned(k) ->
            SetDir(OtherWrite(k, k.dir.owner), "MODIFIED", c, k.dir.sharer)
      [] k.dir.MESI = "SHARED" ->
            SetDir(OtherWrite(k, Other(c)), "MODIFIED", c, Nobody)
      [] OTHER -> SetDir(k, "MODIFIED", c, k.dir.sharer)

\* MESIoperationFwd(OWNWRITE): data moves only from a MODIFIED directory.
OwnWrite(k, c) ==
    LET k1 == DirWrite(k, c)
    IN  CASE readBlockMESI(k, c) \in {"MODIFIED", "EXCLUSIVE"} ->
                setBlockMESI(k, c, "MODIFIED")
          [] readBlockMESI(k, c) = "INVALID" /\ k.dir.MESI = "MODIFIED" ->
                setBlockMESI(setdata(k1, c, dataTrans(k, k.dir.owner)),
                             c, "MODIFIED")
          [] OTHER -> setBlockMESI(k1, c, "MODIFIED")

\* A controller asked about a block it holds in neither level calls exit().
ReadExits(k, c) ==
    readBlockMESI(k, c) = "INVALID" /\ Owned(k) /\ ~Holds(k, k.dir.owner)
WriteExits(k, c) ==
    /\ readBlockMESI(k, c) \in {"INVALID", "SHARED"}
    /\ \/ Owned(k) /\ ~Holds(k, k.dir.owner)
       \/ k.dir.MESI = "SHARED" /\ ~Holds(k, Other(c))
-----------------------------------------------------------------------------
(* Replacement and the two loads, on both variables at once: m.blk and     *)
(* m.newer.  newer is what the comparison of lastReference tells.          *)

Valid(m, l, c) == {b \in Block : IF l = 1 THEN m.blk[b].l1[c].valid
                                          ELSE m.blk[b].l2[c].valid}
SetOf(l, b) == IF l = 1 THEN L1Set[b] ELSE L2Set[b]
Ways(l) == IF l = 1 THEN L1Ways ELSE L2Ways

\* lastReference = ++referenceCounter.
Touch(m, l, c, b) ==
    [m EXCEPT !.newer[l][c] =
        [x \in Block |-> IF x = b THEN {} ELSE @[x] \cup {b}]]

\* getReplacementBlockId: an invalid way, else the least recently used.
Replace(m, l, c, b) ==
    LET ways == {x \in Valid(m, l, c) : SetOf(l, x) = SetOf(l, b)}
    IN  IF Cardinality(ways) < Ways(l) THEN {NoVictim}
        ELSE {x \in ways : ways \ {x} \subseteq m.newer[l][c][x]}

\* A block that left a level has no lastReference there.
Forget(m) ==
    [l \in Level |-> [c \in Core |->
        LET valid == Valid(m, l, c)
        IN  [b \in Block |->
                IF b \in valid THEN m.newer[l][c][b] \cap valid ELSE {}]]]

\* The L2 replaces a block and does not tell the directory.
BadEvictL2(k, c) ==
    [k EXCEPT !.llc = IF k.l2[c].modified THEN k.l2[c].data ELSE @,
              !.l2[c] = NoLine]
\* The L2 replaces a block: MESIevict, then the write-back into the L3.
EvictL2(k, c) ==
    LET d == IF ~k.l1[c].valid /\ k.l2[c].MESI # "INVALID"
             THEN DirEvict(k, c) ELSE k
    IN  [d EXCEPT !.llc = IF k.l2[c].modified THEN k.l2[c].data ELSE @,
                  !.l2[c] = NoLine]

\* The L1 replaces a block: MESIevict, then the write-back into the L2,
\* which allocates the block again, as INVALID, if it has lost it.
EvictL1(k, c) ==
    LET d == IF ~k.l2[c].valid /\ k.l1[c].MESI \in {"EXCLUSIVE", "SHARED"}
             THEN DirEvict(k, c) ELSE k
    IN  [d EXCEPT !.l2[c] = IF k.l1[c].modified
                            THEN [valid |-> TRUE, modified |-> TRUE,
                                  MESI |-> @.MESI, data |-> k.l1[c].data]
                            ELSE @,
                  !.l1[c] = NoLine]

Fill(mesi, data) ==
    [valid |-> TRUE, modified |-> FALSE, MESI |-> mesi, data |-> data]

\* Room for b in level 2 of core c: what may be evicted, and the outcome.
MakeRoomL2(m, c, b) ==
    {IF w = NoVictim THEN m ELSE [m EXCEPT !.blk[w] = EvictL2(@, c)] :
        w \in Replace(m, 2, c, b)}

\* L2.getByte of a block: a hit, or loadBlockFromLowerLevel of the L2.
LoadL2(m, c, b) ==
    IF m.blk[b].l2[c].valid THEN {Touch(m, 2, c, b)}
    ELSE {Touch([r EXCEPT !.blk[b].l2[c] = Fill("INVALID", r.blk[b].llc)],
                2, c, b) : r \in MakeRoomL2(m, c, b)}

\* writeBlockToLowerLevel of v: L2.setByte, which may have to make room.
ReachL2(m, c, v) ==
    IF ~m.blk[v].l1[c].modified THEN {m}
    ELSE {Touch(r, 2, c, v) : r \in IF m.blk[v].l2[c].valid THEN {m}
                                    ELSE MakeRoomL2(m, c, v)}

MakeRoomL1(m, c, b) ==
    UNION {IF v = NoVictim THEN {m}
           ELSE {[r EXCEPT !.blk[v] = EvictL1(@, c)] : r \in ReachL2(m, c, v)} :
           v \in Replace(m, 1, c, b)}

\* loadBlockFromLowerLevel of the L1: the new line is read from the L2
\* before the victim is evicted, and stored after.
LoadL1(m, c, b) ==
    UNION {{[r EXCEPT !.blk[b].l1[c] =
                Fill(n.blk[b].l2[c].MESI, n.blk[b].l2[c].data)] :
            r \in MakeRoomL1(n, c, b)} : n \in LoadL2(m, c, b)}

\* The hierarchy once b is in core c's L1 and has been referenced there.
Fetch(c, b) ==
    LET m == [blk |-> blk, newer |-> newer]
    IN  {Touch(r, 1, c, b) :
            r \in IF blk[b].l1[c].valid THEN {m} ELSE LoadL1(m, c, b)}
-----------------------------------------------------------------------------
(* One access of one core.                                                 *)

Store(m) == /\ blk' = m.blk
            /\ newer' = Forget(m)
            /\ UNCHANGED halted

\* Does not mark the line.
BadWriteByte(k, c, o, val) == [k EXCEPT !.l1[c].data[o] = val]
WriteByte(k, c, o, val) ==
    [k EXCEPT !.l1[c].modified = TRUE, !.l1[c].data[o] = val]

getByte(c, b) ==
    /\ ~halted
    /\ \E m \in Fetch(c, b) :
        /\ ~ReadExits(m.blk[b], c)
        /\ Store([m EXCEPT !.blk[b] = OwnRead(@, c)])

setByte(c, b, o, val) ==
    /\ ~halted
    /\ \E m \in Fetch(c, b) :
        /\ ~WriteExits(m.blk[b], c)
        /\ Store([m EXCEPT !.blk[b] = WriteByte(OwnWrite(@, c), c, o, val)])

\* exit() in the middle of an access ends the program.
getByteExits(c, b) ==
    /\ ~halted
    /\ \E m \in Fetch(c, b) : ReadExits(m.blk[b], c)
    /\ halted' = TRUE
    /\ UNCHANGED <<blk, newer>>

setByteExits(c, b) ==
    /\ ~halted
    /\ \E m \in Fetch(c, b) : WriteExits(m.blk[b], c)
    /\ halted' = TRUE
    /\ UNCHANGED <<blk, newer>>

Next == \E c \in Core :
            \/ \E b \in Block : getByte(c, b) \/ getByteExits(c, b)
            \/ \E b \in Written :
                \/ \E o \in Offset, val \in Value : setByte(c, b, o, val)
                \/ setByteExits(c, b)

Spec == Init /\ [][Next]_vars
-----------------------------------------------------------------------------
TypeOK ==
    /\ blk \in [Block -> BlockState]
    /\ newer \in [Level -> [Core -> [Block -> SUBSET Block]]]
    /\ halted \in BOOLEAN
State(b, c) == readBlockMESI(blk[b], c)

\* A core that may write a block silently is the only one to hold it
\* (the E->M and M->M cases of MESIoperationFwd report nothing).
SingleWriter ==
    \A b \in Block, c \in Core :
        State(b, c) \in {"EXCLUSIVE", "MODIFIED"} =>
            State(b, Other(c)) = "INVALID"

Covered(k) ==
    /\ k.dir.MESI = "INVALID" =>
        \A c \in Core : readBlockMESI(k, c) = "INVALID"
    /\ Owned(k) =>
        /\ k.dir.owner \in Core
        /\ readBlockMESI(k, k.dir.owner) # "SHARED"
        /\ readBlockMESI(k, Other(k.dir.owner)) = "INVALID"
    /\ k.dir.MESI = "SHARED" =>
        /\ k.dir.sharer # Nobody
        /\ \A c \in Core : readBlockMESI(k, c) \in {"INVALID", "SHARED"}
        /\ k.dir.sharer \in Core =>
            readBlockMESI(k, Other(k.dir.sharer)) = "INVALID"

\* The directory never grants less than the caches hold: INVALID means no
\* live copy, EXCLUSIVE or MODIFIED one live copy, its owner's (E may have
\* become M silently), SHARED only shared copies, none in a core that the
\* sharer field excludes.
DirectoryCoversCopies == \A b \in Block : Covered(blk[b])

\* readBlockMESIfromCache reads the L1 first, "without checking that the
\* two levels agree": they do agree.
LevelsAgree ==
    \A b \in Block, c \in Core :
        blk[b].l1[c].valid /\ blk[b].l2[c].valid =>
            blk[b].l1[c].MESI = blk[b].l2[c].MESI

\* setBlockMESI and invalidateBlock reach the L2 copy wherever there is one:
\* every block of an L1 is also in the L2 under it.
Inclusion == \A b \in Block, c \in Core :
                blk[b].l1[c].valid => blk[b].l2[c].valid

\* A block held in a private cache between two accesses has a live state.
HeldIsLive == \A b \in Block, c \in Core :
                Holds(blk[b], c) => State(b, c) # "INVALID"

\* A MODIFIED block is dirty in some level of its core, so that evicting it
\* from the last level writes it back.
ModifiedIsDirty ==
    \A b \in Block, c \in Core :
        State(b, c) = "MODIFIED" =>
            blk[b].l1[c].modified \/ blk[b].l2[c].modified

\* The core the directory calls the owner can answer for the block.
OwnerAnswers == \A b \in Block :
    Owned(blk[b]) => Holds(blk[b], blk[b].dir.owner)

\* No access meets an exit() of the coherence code.
NeverExits == ~halted

\* What Fetch does to the block it fetches, and what a read then returns.
Fetched(k, c) ==
    IF k.l1[c].valid THEN k
    ELSE LET line == IF k.l2[c].valid THEN k.l2[c] ELSE Fill("INVALID", k.llc)
         IN  [k EXCEPT !.l2[c] = line, !.l1[c] = Fill(line.MESI, line.data)]
Seen(c, b) == dataTrans(OwnRead(Fetched(blk[b], c), c), c)

\* Both cores would read the same bytes.
CoresAgree == \A b \in Block : Seen(0, b) = Seen(1, b)

\* The hierarchy is a memory without caches: a write of either core is that
\* write of AtomicMemory, at once; a read, whatever it moves between the
\* caches, changes nothing.
Memory == INSTANCE AtomicMemory WITH mem <- [b \in Block |-> Seen(0, b)]
AccessesAreAtomic ==
    [][\/ /\ Memory!GetByte
          /\ \E c \in Core, b \in Block :
                getByte(c, b) \/ getByteExits(c, b) \/ setByteExits(c, b)
       \/ \E b \in Written, o \in Offset, val \in Value :
            /\ Memory!SetByte(b, o, val)
            /\ \E c \in Core : setByte(c, b, o, val)]_vars
Transparent == Memory!Spec /\ AccessesAreAtomic

\* Taking a block over from its owner to write one byte keeps its others.
TakeoverKeepsBytes ==
    [][\A c \in Core, b \in Block, o \in Offset, val \in Value :
        setByte(c, b, o, val) =>
            \A i \in Offset \ {o} : Seen(c, b)'[i] = Seen(Other(c), b)[i]]_vars
=============================================================================
