------------------------- MODULE MesiHierarchyProofs -------------------------
(***************************************************************************)
(* For every geometry of the private levels with at least two ways in the  *)
(* L2, any number of blocks, offsets and values, the directory covers the  *)
(* copies, so that no two cores may write a block silently, and the two    *)
(* levels of a core agree.                                                 *)
(*                                                                         *)
(* The invariant is per block: every operator of MesiHierarchy on one      *)
(* block is shown to keep a block state well formed, and to do to the      *)
(* states of the two cores and to the directory entry what its lemma says. *)
(* Whether the pair stays covered is then a matter of those few values.    *)
(*                                                                         *)
(* What a core holds is also what the protocol believes it holds when no   *)
(* block leaves the L2 while the L1 above keeps it: InclusiveGeometry says *)
(* when that is so. There every block stays Settled between two accesses,  *)
(* and from that the five other invariants of the hierarchy and the        *)
(* refinement of AtomicMemory follow.                                      *)
(***************************************************************************)
EXTENDS MesiHierarchy, FiniteSetTheorems, TLAPS

\* A line that is not valid is in state INVALID, and levels agree.
WellFormed(k) ==
    /\ k \in BlockState
    /\ \A c \in Core :
        /\ ~k.l1[c].valid => k.l1[c].MESI = "INVALID"
        /\ ~k.l2[c].valid => k.l2[c].MESI = "INVALID"
        /\ k.l1[c].valid /\ k.l2[c].valid => k.l1[c].MESI = k.l2[c].MESI

BlockInv(k) == WellFormed(k) /\ Covered(k)

NewerType == [Level -> [Core -> [Block -> SUBSET Block]]]

\* What the operators on both variables keep.
Good(m) == /\ m \in [blk : [Block -> BlockState], newer : NewerType]
           /\ \A b \in Block : BlockInv(m.blk[b])

IndInv == Good([blk |-> blk, newer |-> newer]) /\ halted \in BOOLEAN
-----------------------------------------------------------------------------
(* Operators on one block.                                                 *)

LEMMA OtherCore == \A c \in Core : Other(c) \in Core /\ Other(c) # c
                                   /\ Core = {c, Other(c)}
BY DEF Core, Other

LEMMA NoLineType == NoLine \in Line
BY ZeroAssumption DEF NoLine, Line, Blank, Data, MESI

LEMMA FillType ==
    ASSUME NEW mesi \in MESI, NEW data \in Data
    PROVE  /\ Fill(mesi, data) \in Line
           /\ Fill(mesi, data).valid
           /\ Fill(mesi, data).MESI = mesi
BY DEF Fill, Line

LEMMA CopyType ==
    ASSUME NEW k, WellFormed(k), NEW c \in Core
    PROVE  /\ readBlockMESI(k, c) \in MESI
           /\ dataTrans(k, c) \in Data
           /\ readBlockMESI(k, c) # "INVALID" => Holds(k, c)
BY DEF WellFormed, BlockState, Line, readBlockMESI, dataTrans, Copy, Holds

\* A block whose lines of core c become l and m, nothing else changing.
WithLines(k, c, l, m) == [k EXCEPT !.l1[c] = l, !.l2[c] = m]

LEMMA Replaced ==
    ASSUME NEW k, WellFormed(k), NEW c \in Core, NEW l \in Line, NEW m \in Line,
           ~l.valid => l.MESI = "INVALID",
           ~m.valid => m.MESI = "INVALID",
           l.valid /\ m.valid => l.MESI = m.MESI,
           NEW r, r = WithLines(k, c, l, m)
    PROVE  /\ WellFormed(r)
           /\ r.dir = k.dir
           /\ readBlockMESI(r, c) = IF l.valid THEN l.MESI ELSE m.MESI
           /\ readBlockMESI(r, Other(c)) = readBlockMESI(k, Other(c))
           /\ r.l1[c] = l /\ r.l2[c] = m
<1>1. k \in BlockState
  BY DEF WellFormed
<1>2. /\ r \in BlockState /\ r.dir = k.dir
      /\ r.l1[c] = l /\ r.l2[c] = m
      /\ \A d \in Core : d # c => r.l1[d] = k.l1[d] /\ r.l2[d] = k.l2[d]
  BY <1>1 DEF BlockState, WithLines
<1>3. WellFormed(r)
  BY <1>2 DEF WellFormed
<1>. QED
  BY <1>2, <1>3, OtherCore DEF readBlockMESI, Copy

LEMMA SetBlockMESI ==
    ASSUME NEW k, WellFormed(k), NEW c \in Core, NEW mesi \in MESI,
           Holds(k, c), NEW r, r = setBlockMESI(k, c, mesi)
    PROVE  /\ WellFormed(r)
           /\ r.dir = k.dir
           /\ readBlockMESI(r, c) = mesi
           /\ readBlockMESI(r, Other(c)) = readBlockMESI(k, Other(c))
           /\ r.l1[c].valid = k.l1[c].valid
           /\ Holds(r, c)
<1> DEFINE l == IF k.l1[c].valid THEN [k.l1[c] EXCEPT !.MESI = mesi] ELSE k.l1[c]
           m == IF k.l2[c].valid THEN [k.l2[c] EXCEPT !.MESI = mesi] ELSE k.l2[c]
<1>1. k \in BlockState /\ k.l1[c] \in Line /\ k.l2[c] \in Line
  BY DEF WellFormed, BlockState
<1>2. /\ l \in Line /\ m \in Line
      /\ l.valid = k.l1[c].valid /\ m.valid = k.l2[c].valid
      /\ l.MESI = IF k.l1[c].valid THEN mesi ELSE k.l1[c].MESI
      /\ m.MESI = IF k.l2[c].valid THEN mesi ELSE k.l2[c].MESI
  BY <1>1 DEF Line
<1>3. r = WithLines(k, c, l, m)
  BY <1>1 DEF setBlockMESI, BlockState, WithLines
<1>4. /\ ~l.valid => l.MESI = "INVALID"
      /\ ~m.valid => m.MESI = "INVALID"
      /\ l.valid /\ m.valid => l.MESI = m.MESI
  BY <1>2 DEF WellFormed
<1> HIDE DEF l, m
<1>5. /\ WellFormed(r)
      /\ r.dir = k.dir
      /\ readBlockMESI(r, c) = IF l.valid THEN l.MESI ELSE m.MESI
      /\ readBlockMESI(r, Other(c)) = readBlockMESI(k, Other(c))
      /\ r.l1[c] = l /\ r.l2[c] = m
  BY <1>2, <1>3, <1>4, Replaced
<1>. QED
  BY <1>2, <1>5 DEF Holds
\* New data leaves states and directory alone.
LEMMA Setdata ==
    ASSUME NEW k, WellFormed(k), NEW c \in Core, NEW data \in Data,
           Holds(k, c), NEW r, r = setdata(k, c, data)
    PROVE  /\ WellFormed(r)
           /\ r.dir = k.dir
           /\ readBlockMESI(r, c) = readBlockMESI(k, c)
           /\ readBlockMESI(r, Other(c)) = readBlockMESI(k, Other(c))
           /\ r.l1[c].valid = k.l1[c].valid
           /\ Holds(r, c)
<1> DEFINE l == IF k.l1[c].valid THEN [k.l1[c] EXCEPT !.data = data] ELSE k.l1[c]
           m == IF k.l2[c].valid THEN [k.l2[c] EXCEPT !.data = data] ELSE k.l2[c]
<1>1. k \in BlockState /\ k.l1[c] \in Line /\ k.l2[c] \in Line
  BY DEF WellFormed, BlockState
<1>2. /\ l \in Line /\ m \in Line
      /\ l.valid = k.l1[c].valid /\ m.valid = k.l2[c].valid
      /\ l.MESI = k.l1[c].MESI /\ m.MESI = k.l2[c].MESI
  BY <1>1 DEF Line
<1>3. r = WithLines(k, c, l, m)
  BY <1>1 DEF setdata, BlockState, WithLines
<1>4. /\ ~l.valid => l.MESI = "INVALID"
      /\ ~m.valid => m.MESI = "INVALID"
      /\ l.valid /\ m.valid => l.MESI = m.MESI
  BY <1>2 DEF WellFormed
<1> HIDE DEF l, m
<1>5. /\ WellFormed(r)
      /\ r.dir = k.dir
      /\ readBlockMESI(r, c) = IF l.valid THEN l.MESI ELSE m.MESI
      /\ readBlockMESI(r, Other(c)) = readBlockMESI(k, Other(c))
      /\ r.l1[c] = l /\ r.l2[c] = m
  BY <1>2, <1>3, <1>4, Replaced
<1>. QED
  BY <1>2, <1>5 DEF Holds, readBlockMESI, Copy

LEMMA InvalidateBlock ==
    ASSUME NEW k, WellFormed(k), NEW c \in Core,
           NEW r, r = invalidateBlock(k, c)
    PROVE  /\ WellFormed(r)
           /\ r.dir = k.dir
           /\ readBlockMESI(r, c) = "INVALID"
           /\ readBlockMESI(r, Other(c)) = readBlockMESI(k, Other(c))
           /\ r.l1[Other(c)] = k.l1[Other(c)] /\ r.l2[Other(c)] = k.l2[Other(c)]
<1>1. r = WithLines(k, c, NoLine, NoLine)
  BY DEF invalidateBlock, WithLines
<1>2. NoLine \in Line /\ ~NoLine.valid /\ NoLine.MESI = "INVALID"
  BY NoLineType DEF NoLine
<1>3. r.l1[Other(c)] = k.l1[Other(c)] /\ r.l2[Other(c)] = k.l2[Other(c)]
  BY OtherCore DEF WellFormed, BlockState, invalidateBlock
<1>. QED
  BY <1>1, <1>2, <1>3, Replaced

\* A directory entry of its type may be stored without touching a line.
LEMMA SetDirKeepsLines ==
    ASSUME NEW k, WellFormed(k), NEW mesi \in MESI,
           NEW owner \in Core \cup {Nobody},
           NEW sharer \in Core \cup {Nobody, BothCores}
    PROVE  /\ WellFormed(SetDir(k, mesi, owner, sharer))
           /\ SetDir(k, mesi, owner, sharer).dir.MESI = mesi
           /\ SetDir(k, mesi, owner, sharer).dir.owner = owner
           /\ SetDir(k, mesi, owner, sharer).dir.sharer = sharer
           /\ SetDir(k, mesi, owner, sharer).l1 = k.l1
           /\ SetDir(k, mesi, owner, sharer).l2 = k.l2
           /\ SetDir(k, mesi, owner, sharer).llc = k.llc
           /\ \A c \in Core : readBlockMESI(SetDir(k, mesi, owner, sharer), c)
                                = readBlockMESI(k, c)
<1> DEFINE r == SetDir(k, mesi, owner, sharer)
<1>1. k \in BlockState
  BY DEF WellFormed
<1>2. /\ r \in BlockState
      /\ r.dir = [MESI |-> mesi, owner |-> owner, sharer |-> sharer]
      /\ r.l1 = k.l1 /\ r.l2 = k.l2 /\ r.llc = k.llc
  BY <1>1 DEF BlockState, SetDir, Directoryblock
<1> HIDE DEF r
<1>3. /\ WellFormed(r) /\ r.dir.MESI = mesi /\ r.dir.owner = owner
      /\ r.dir.sharer = sharer
      /\ \A c \in Core : readBlockMESI(r, c) = readBlockMESI(k, c)
  BY <1>2 DEF WellFormed, readBlockMESI, Copy
<1>. QED
  BY <1>2, <1>3 DEF r

LEMMA OtherReadEffect ==
    ASSUME NEW k, WellFormed(k), NEW c \in Core,
           NEW r, r = OtherRead(k, c)
    PROVE  /\ WellFormed(r)
           /\ r.dir = k.dir
           /\ readBlockMESI(r, c) =
                IF readBlockMESI(k, c) \in {"MODIFIED", "EXCLUSIVE"}
                THEN "SHARED" ELSE readBlockMESI(k, c)
           /\ readBlockMESI(r, Other(c)) = readBlockMESI(k, Other(c))
           /\ r.l1[c].valid = k.l1[c].valid
           /\ Holds(k, c) => Holds(r, c)
           /\ r.l1[Other(c)] = k.l1[Other(c)] /\ r.l2[Other(c)] = k.l2[Other(c)]
<1>1. CASE readBlockMESI(k, c) \in {"MODIFIED", "EXCLUSIVE"}
  <2> DEFINE n == [k EXCEPT !.llc = dataTrans(k, c)]
  <2>1. k \in BlockState /\ dataTrans(k, c) \in Data
    BY CopyType DEF WellFormed
  <2>2. /\ n \in BlockState
        /\ n.dir = k.dir /\ n.l1 = k.l1 /\ n.l2 = k.l2
    BY <2>1 DEF BlockState
  <2>3. WellFormed(n) /\ Holds(n, c)
    BY <1>1, <2>2, CopyType DEF WellFormed, Holds
  <2>4. \A d \in Core : readBlockMESI(n, d) = readBlockMESI(k, d)
    BY <2>2 DEF readBlockMESI, Copy
  <2>5. r = setBlockMESI(n, c, "SHARED") /\ "SHARED" \in MESI
    BY <1>1 DEF OtherRead, MESI
  <2> HIDE DEF n
  <2>6. /\ WellFormed(r)
        /\ r.dir = n.dir
        /\ readBlockMESI(r, c) = "SHARED"
        /\ readBlockMESI(r, Other(c)) = readBlockMESI(n, Other(c))
        /\ r.l1[c].valid = n.l1[c].valid
        /\ Holds(r, c)
    BY <2>3, <2>5, SetBlockMESI
  <2>7. r.l1[Other(c)] = n.l1[Other(c)] /\ r.l2[Other(c)] = n.l2[Other(c)]
    BY <2>2, <2>5, OtherCore DEF setBlockMESI, BlockState
  <2>. QED
    BY <1>1, <2>2, <2>4, <2>6, <2>7, OtherCore
<1>2. CASE readBlockMESI(k, c) \notin {"MODIFIED", "EXCLUSIVE"}
  BY <1>2 DEF OtherRead
<1>. QED
  BY <1>1, <1>2

LEMMA OtherWriteEffect ==
    ASSUME NEW k, WellFormed(k), NEW c \in Core,
           NEW r, r = OtherWrite(k, c)
    PROVE  /\ WellFormed(r)
           /\ r.dir = k.dir
           /\ readBlockMESI(r, c) = "INVALID"
           /\ readBlockMESI(r, Other(c)) = readBlockMESI(k, Other(c))
           /\ r.l1[Other(c)] = k.l1[Other(c)] /\ r.l2[Other(c)] = k.l2[Other(c)]
           /\ readBlockMESI(k, c) = "INVALID" => r = k
BY InvalidateBlock DEF OtherWrite-----------------------------------------------------------------------------
(* The protocol steps keep a block covered.                                *)

LEMMA DirMESI ==
    ASSUME NEW k, WellFormed(k)
    PROVE  /\ k.dir.MESI \in MESI
           /\ k.dir.owner \in Core \cup {Nobody}
           /\ k.dir.sharer \in Core \cup {Nobody, BothCores}
           /\ ~Owned(k) /\ k.dir.MESI # "SHARED" => k.dir.MESI = "INVALID"
BY DEF WellFormed, BlockState, Directoryblock, MESI, Owned

\* Covered is about the directory entry and the two states only.
LEMMA CoveredBy ==
    ASSUME NEW k, NEW r, Covered(k),
           r.dir = k.dir,
           \A c \in Core : readBlockMESI(r, c) = readBlockMESI(k, c)
    PROVE  Covered(r)
BY OtherCore DEF Covered, Owned

LEMMA OwnReadKeeps ==
    ASSUME NEW k, BlockInv(k), NEW c \in Core, Holds(k, c)
    PROVE  BlockInv(OwnRead(k, c))
<1> DEFINE o == k.dir.owner
           k1 == OtherRead(k, o)
           k2 == SetDir(k1, "SHARED", o, BothCores)
           k3 == setdata(k2, c, dataTrans(k, o))
           k4 == setBlockMESI(k3, c, "SHARED")
<1>1. WellFormed(k) /\ Covered(k)
  BY DEF BlockInv
<1>2. CASE readBlockMESI(k, c) # "INVALID"
  BY <1>2 DEF OwnRead, DirRead
<1>3. CASE readBlockMESI(k, c) = "INVALID" /\ Owned(k)
  <2>1. o \in Core /\ readBlockMESI(k, o) # "SHARED"
        /\ readBlockMESI(k, Other(o)) = "INVALID"
    BY <1>1, <1>3 DEF Covered
  <2>2. /\ WellFormed(k1)
        /\ readBlockMESI(k1, o) \in {"INVALID", "SHARED"}
        /\ readBlockMESI(k1, Other(o)) = "INVALID"
    BY <1>1, <2>1, OtherReadEffect, CopyType DEF MESI
  <2>3. Holds(k1, c)
    <3>1. CASE c = o
      BY <1>1, <2>1, <3>1, OtherReadEffect
    <3>2. CASE c = Other(o)
      <4>1. k1.l1[c] = k.l1[c] /\ k1.l2[c] = k.l2[c]
        BY <1>1, <2>1, <3>2, OtherReadEffect
      <4>. QED
        BY <4>1 DEF Holds
    <3>. QED
      BY <2>1, <3>1, <3>2, OtherCore
  <2>4. "SHARED" \in MESI
    BY DEF MESI
  <2>5. /\ WellFormed(k2)
        /\ k2.dir.MESI = "SHARED" /\ k2.dir.sharer = BothCores
        /\ k2.l1 = k1.l1 /\ k2.l2 = k1.l2
        /\ \A d \in Core : readBlockMESI(k2, d) = readBlockMESI(k1, d)
    BY <2>1, <2>2, <2>4, SetDirKeepsLines
  <2>6. Holds(k2, c) /\ dataTrans(k, o) \in Data
    BY <1>1, <2>1, <2>3, <2>5, CopyType DEF Holds
  <2>7. /\ WellFormed(k3) /\ k3.dir = k2.dir /\ Holds(k3, c)
        /\ readBlockMESI(k3, Other(c)) = readBlockMESI(k2, Other(c))
    BY <2>5, <2>6, Setdata
  <2>8. /\ WellFormed(k4) /\ k4.dir = k2.dir
        /\ readBlockMESI(k4, c) = "SHARED"
        /\ readBlockMESI(k4, Other(c)) = readBlockMESI(k1, Other(c))
    BY <2>4, <2>5, <2>7, SetBlockMESI, OtherCore
  <2>9. \A d \in Core : readBlockMESI(k4, d) \in {"INVALID", "SHARED"}
    BY <2>1, <2>2, <2>8, OtherCore
  <2>10. Covered(k4)
    BY <2>5, <2>8, <2>9 DEF Covered, Owned, Core, Nobody, BothCores
  <2>11. OwnRead(k, c) = k4
    BY <1>3 DEF OwnRead, DirRead, Owned
  <2>. QED
    BY <2>8, <2>10, <2>11 DEF BlockInv
<1>4. CASE readBlockMESI(k, c) = "INVALID" /\ ~Owned(k) /\ k.dir.MESI = "SHARED"
  <2> DEFINE n == SetDir(k, "SHARED", o, BothCores)
             r == setBlockMESI(n, c, "SHARED")
  <2>1. /\ "SHARED" \in MESI /\ o \in Core \cup {Nobody}
        /\ BothCores \in Core \cup {Nobody, BothCores}
    BY <1>1, DirMESI DEF MESI
  <2>2. /\ WellFormed(n)
        /\ n.dir.MESI = "SHARED" /\ n.dir.sharer = BothCores
        /\ n.l1 = k.l1 /\ n.l2 = k.l2
        /\ \A d \in Core : readBlockMESI(n, d) = readBlockMESI(k, d)
    BY <1>1, <2>1, SetDirKeepsLines
  <2>3. Holds(n, c)
    BY <2>2 DEF Holds
  <2>4. /\ WellFormed(r) /\ r.dir = n.dir
        /\ readBlockMESI(r, c) = "SHARED"
        /\ readBlockMESI(r, Other(c)) = readBlockMESI(k, Other(c))
    BY <2>1, <2>2, <2>3, SetBlockMESI, OtherCore
  <2>5. \A d \in Core : readBlockMESI(r, d) \in {"INVALID", "SHARED"}
    BY <1>1, <1>4, <2>4, OtherCore DEF Covered
  <2>6. Covered(r)
    BY <2>2, <2>4, <2>5 DEF Covered, Owned, Core, Nobody, BothCores
  <2>7. OwnRead(k, c) = r
    BY <1>4 DEF OwnRead, DirRead
  <2>. QED
    BY <2>4, <2>6, <2>7 DEF BlockInv
<1>5. CASE readBlockMESI(k, c) = "INVALID" /\ ~Owned(k) /\ k.dir.MESI # "SHARED"
  <2> DEFINE n == SetDir(k, "EXCLUSIVE", c, k.dir.sharer)
             r == setBlockMESI(n, c, "EXCLUSIVE")
  <2>1. "EXCLUSIVE" \in MESI /\ c \in Core \cup {Nobody}
    BY DEF MESI
  <2>2. /\ WellFormed(n)
        /\ n.dir.MESI = "EXCLUSIVE" /\ n.dir.owner = c
        /\ n.l1 = k.l1 /\ n.l2 = k.l2
        /\ \A d \in Core : readBlockMESI(n, d) = readBlockMESI(k, d)
    BY <1>1, <2>1, SetDirKeepsLines, DirMESI
  <2>3. Holds(n, c)
    BY <2>2 DEF Holds
  <2>4. /\ WellFormed(r) /\ r.dir = n.dir
        /\ readBlockMESI(r, c) = "EXCLUSIVE"
        /\ readBlockMESI(r, Other(c)) = readBlockMESI(k, Other(c))
    BY <2>1, <2>2, <2>3, SetBlockMESI, OtherCore
  <2>5. readBlockMESI(k, Other(c)) = "INVALID"
    BY <1>1, <1>5, DirMESI, OtherCore DEF Covered
  <2>6. Covered(r)
    BY <2>2, <2>4, <2>5 DEF Covered, Owned
  <2>7. OwnRead(k, c) = r
    BY <1>5 DEF OwnRead, DirRead
  <2>. QED
    BY <2>4, <2>6, <2>7 DEF BlockInv
<1>. QED
  BY <1>2, <1>3, <1>4, <1>5

\* After DirWrite the directory names the writer, and nobody else is live.
LEMMA DirWriteEffect ==
    ASSUME NEW k, BlockInv(k), NEW c \in Core, Holds(k, c),
           readBlockMESI(k, c) \in {"INVALID", "SHARED"},
           NEW r, r = DirWrite(k, c)
    PROVE  /\ WellFormed(r)
           /\ r.dir.MESI = "MODIFIED" /\ r.dir.owner = c
           /\ readBlockMESI(r, Other(c)) = "INVALID"
           /\ Holds(r, c)
<1> DEFINE o == k.dir.owner
<1>1. WellFormed(k) /\ Covered(k)
  BY DEF BlockInv
<1>2. "MODIFIED" \in MESI /\ c \in Core \cup {Nobody}
      /\ Nobody \in Core \cup {Nobody, BothCores}
      /\ k.dir.sharer \in Core \cup {Nobody, BothCores}
  BY <1>1, DirMESI DEF MESI
<1>3. CASE Owned(k)
  <2> DEFINE n == OtherWrite(k, o)
  <2>1. o \in Core /\ readBlockMESI(k, o) # "SHARED"
        /\ readBlockMESI(k, Other(o)) = "INVALID"
    BY <1>1, <1>3 DEF Covered
  <2>2. /\ WellFormed(n)
        /\ readBlockMESI(n, o) = "INVALID"
        /\ readBlockMESI(n, Other(o)) = "INVALID"
        /\ n.l1[Other(o)] = k.l1[Other(o)] /\ n.l2[Other(o)] = k.l2[Other(o)]
        /\ readBlockMESI(k, o) = "INVALID" => n = k
    BY <1>1, <2>1, OtherWriteEffect
  <2>3. Holds(n, c) /\ readBlockMESI(n, Other(c)) = "INVALID"
    BY <2>1, <2>2, OtherCore DEF Holds
  <2>4. r = SetDir(n, "MODIFIED", c, k.dir.sharer)
    BY <1>3 DEF DirWrite, Owned
  <2> HIDE DEF n
  <2>. QED
    BY <1>2, <2>2, <2>3, <2>4, SetDirKeepsLines, OtherCore DEF Holds
<1>4. CASE ~Owned(k) /\ k.dir.MESI = "SHARED"
  <2> DEFINE n == OtherWrite(k, Other(c))
  <2>1. /\ WellFormed(n)
        /\ readBlockMESI(n, Other(c)) = "INVALID"
        /\ n.l1[c] = k.l1[c] /\ n.l2[c] = k.l2[c]
    BY <1>1, OtherWriteEffect, OtherCore DEF Other, Core
  <2>2. r = SetDir(n, "MODIFIED", c, Nobody)
    BY <1>4 DEF DirWrite
  <2> HIDE DEF n
  <2>. QED
    BY <1>2, <2>1, <2>2, SetDirKeepsLines, OtherCore DEF Holds
<1>5. CASE ~Owned(k) /\ k.dir.MESI # "SHARED"
  <2>1. r = SetDir(k, "MODIFIED", c, k.dir.sharer)
    BY <1>5 DEF DirWrite
  <2>2. readBlockMESI(k, Other(c)) = "INVALID"
    BY <1>1, <1>5, DirMESI, OtherCore DEF Covered
  <2>. QED
    BY <1>1, <1>2, <2>1, <2>2, SetDirKeepsLines, OtherCore DEF Holds
<1>. QED
  BY <1>3, <1>4, <1>5
\* What a block written by its only live holder looks like is covered.
LEMMA WriterCovered ==
    ASSUME NEW k, WellFormed(k), NEW c \in Core,
           Owned(k), k.dir.owner = c,
           readBlockMESI(k, c) = "MODIFIED",
           readBlockMESI(k, Other(c)) = "INVALID"
    PROVE  BlockInv(k)
BY DEF BlockInv, Covered, Owned

LEMMA OwnWriteKeeps ==
    ASSUME NEW k, BlockInv(k), NEW c \in Core, Holds(k, c)
    PROVE  BlockInv(OwnWrite(k, c))
<1> DEFINE k1 == DirWrite(k, c)
           data == dataTrans(k, k.dir.owner)
<1>1. WellFormed(k) /\ Covered(k) /\ "MODIFIED" \in MESI
  BY DEF BlockInv, MESI
<1>2. CASE readBlockMESI(k, c) \in {"MODIFIED", "EXCLUSIVE"}
  <2> DEFINE r == setBlockMESI(k, c, "MODIFIED")
  <2>1. OwnWrite(k, c) = r
    BY <1>2 DEF OwnWrite
  <2>2. /\ WellFormed(r) /\ r.dir = k.dir
        /\ readBlockMESI(r, c) = "MODIFIED"
        /\ readBlockMESI(r, Other(c)) = readBlockMESI(k, Other(c))
    BY <1>1, SetBlockMESI
  <2>3. Owned(k)
    BY <1>1, <1>2, DirMESI DEF Covered
  <2>4. k.dir.owner = c /\ readBlockMESI(k, Other(c)) = "INVALID"
    BY <1>1, <1>2, <2>3, OtherCore DEF Covered
  <2>5. Owned(r) /\ r.dir.owner = c
    BY <2>2, <2>3, <2>4 DEF Owned
  <2> HIDE DEF r
  <2>. QED
    BY <2>1, <2>2, <2>4, <2>5, WriterCovered
<1>3. CASE readBlockMESI(k, c) \in {"INVALID", "SHARED"}
  <2>1. /\ WellFormed(k1)
        /\ k1.dir.MESI = "MODIFIED" /\ k1.dir.owner = c
        /\ readBlockMESI(k1, Other(c)) = "INVALID"
        /\ Holds(k1, c)
    BY <1>3, DirWriteEffect
  <2> HIDE DEF k1
  <2>2. ASSUME NEW n, WellFormed(n), n.dir = k1.dir, Holds(n, c),
               readBlockMESI(n, Other(c)) = "INVALID"
        PROVE  BlockInv(setBlockMESI(n, c, "MODIFIED"))
    <3> DEFINE r == setBlockMESI(n, c, "MODIFIED")
    <3>1. /\ WellFormed(r) /\ r.dir = k1.dir
          /\ readBlockMESI(r, c) = "MODIFIED"
          /\ readBlockMESI(r, Other(c)) = "INVALID"
      BY <1>1, <2>2, SetBlockMESI
    <3>2. Owned(r) /\ r.dir.owner = c
      BY <2>1, <3>1 DEF Owned
    <3> HIDE DEF r
    <3>3. BlockInv(r)
      BY <3>1, <3>2, WriterCovered
    <3>. QED
      BY <3>3 DEF r
  <2>3. CASE readBlockMESI(k, c) = "INVALID" /\ k.dir.MESI = "MODIFIED"
    <3>1. data \in Data
      <4>1. k.dir.owner \in Core
        BY <1>1, <2>3 DEF Covered, Owned
      <4>. QED
        BY <1>1, <4>1, CopyType
    <3> DEFINE n == setdata(k1, c, data)
    <3>2. /\ WellFormed(n) /\ n.dir = k1.dir /\ Holds(n, c)
          /\ readBlockMESI(n, Other(c)) = "INVALID"
      BY <2>1, <3>1, Setdata
    <3>3. OwnWrite(k, c) = setBlockMESI(n, c, "MODIFIED")
      BY <2>3 DEF OwnWrite, k1
    <3> HIDE DEF n
    <3>. QED
      BY <2>2, <3>2, <3>3
  <2>4. CASE ~(readBlockMESI(k, c) = "INVALID" /\ k.dir.MESI = "MODIFIED")
    <3>1. OwnWrite(k, c) = setBlockMESI(k1, c, "MODIFIED")
      BY <1>3, <2>4 DEF OwnWrite, k1
    <3>. QED
      BY <2>1, <2>2, <3>1
  <2>. QED
    BY <2>3, <2>4
<1>. QED
  BY <1>1, <1>2, <1>3, CopyType DEF MESI

LEMMA WriteByteKeeps ==
    ASSUME NEW k, BlockInv(k), NEW c \in Core,
           NEW o \in Offset, NEW val \in Value
    PROVE  BlockInv(WriteByte(k, c, o, val))
<1> DEFINE r == WriteByte(k, c, o, val)
           l == [k.l1[c] EXCEPT !.modified = TRUE,
                                !.data = [k.l1[c].data EXCEPT ![o] = val]]
           m == k.l2[c]
<1>. WellFormed(k) /\ Covered(k)
  BY DEF BlockInv
<1>1. k \in BlockState /\ k.l1[c] \in Line /\ k.l2[c] \in Line
  BY DEF WellFormed, BlockState
<1>2. l \in Line /\ m \in Line /\ l.valid = k.l1[c].valid /\ l.MESI = k.l1[c].MESI
  <2>1. [k.l1[c].data EXCEPT ![o] = val] \in Data
    BY <1>1 DEF Line, Data
  <2>. QED
    BY <1>1, <2>1 DEF Line
<1>3. r = WithLines(k, c, l, m)
  BY <1>1 DEF WriteByte, WithLines, BlockState, Line
<1>4. /\ ~l.valid => l.MESI = "INVALID"
      /\ ~m.valid => m.MESI = "INVALID"
      /\ l.valid /\ m.valid => l.MESI = m.MESI
  BY <1>1, <1>2 DEF WellFormed
<1> HIDE DEF l, m, r
<1>5. /\ WellFormed(r)
      /\ r.dir = k.dir
      /\ readBlockMESI(r, c) = IF l.valid THEN l.MESI ELSE m.MESI
      /\ readBlockMESI(r, Other(c)) = readBlockMESI(k, Other(c))
  BY <1>2, <1>3, <1>4, Replaced
<1>6. readBlockMESI(r, c) = readBlockMESI(k, c)
  BY <1>2, <1>5 DEF readBlockMESI, Copy, m
<1>7. \A d \in Core : readBlockMESI(r, d) = readBlockMESI(k, d)
  BY <1>5, <1>6, OtherCore
<1>8. Covered(r)
  BY <1>5, <1>7, CoveredBy
<1>. QED
  BY <1>5, <1>8 DEF BlockInv, r
\* A copy that goes away, or whose state is lowered, leaves its block covered.
LEMMA DropCovered ==
    ASSUME NEW k, Covered(k), NEW c \in Core, NEW r,
           r.dir = k.dir,
           readBlockMESI(r, c) \in {readBlockMESI(k, c), "INVALID"},
           readBlockMESI(r, Other(c)) = readBlockMESI(k, Other(c))
    PROVE  Covered(r)
<1>1. \A d \in Core : readBlockMESI(r, d) \in {readBlockMESI(k, d), "INVALID"}
  BY OtherCore
<1>2. Owned(r) <=> Owned(k)
  BY DEF Owned
<1>. QED
  BY <1>1, <1>2, OtherCore DEF Covered

\* MESIoperationmem(EVICT) is right about a core whose live copy is going.
LEMMA DirEvictEffect ==
    ASSUME NEW k, BlockInv(k), NEW c \in Core,
           readBlockMESI(k, c) # "INVALID",
           NEW d, d = DirEvict(k, c)
    PROVE  /\ WellFormed(d)
           /\ d.l1 = k.l1 /\ d.l2 = k.l2 /\ d.llc = k.llc
           /\ \A r : /\ r.dir = d.dir
                    /\ readBlockMESI(r, c) = "INVALID"
                    /\ readBlockMESI(r, Other(c)) = readBlockMESI(k, Other(c))
                    => Covered(r)
<1>1. WellFormed(k) /\ Covered(k) /\ "INVALID" \in MESI /\ "SHARED" \in MESI
      /\ Nobody \in Core \cup {Nobody}
      /\ Nobody \in Core \cup {Nobody, BothCores}
      /\ Other(c) \in Core \cup {Nobody, BothCores}
  BY OtherCore DEF BlockInv, MESI
<1>2. k.dir.MESI # "INVALID"
  BY <1>1 DEF Covered
<1>3. CASE Owned(k) \/ (k.dir.MESI = "SHARED" /\ k.dir.sharer # BothCores)
  <2>1. d = SetDir(k, "INVALID", Nobody, Nobody)
    BY <1>3 DEF DirEvict, Owned
  <2>2. readBlockMESI(k, Other(c)) = "INVALID"
    <3>1. CASE Owned(k)
      BY <1>1, <3>1, OtherCore DEF Covered
    <3>2. CASE k.dir.MESI = "SHARED" /\ k.dir.sharer # BothCores
      <4>1. k.dir.sharer \in Core /\ readBlockMESI(k, Other(k.dir.sharer)) = "INVALID"
        BY <1>1, <3>2, DirMESI DEF Covered
      <4>. QED
        BY <4>1, OtherCore
    <3>. QED
      BY <1>3, <3>1, <3>2
  <2> DEFINE e == SetDir(k, "INVALID", Nobody, Nobody)
  <2>3. WellFormed(e) /\ e.dir.MESI = "INVALID"
    <3>1. WellFormed(e)
      BY <1>1, SetDirKeepsLines
    <3>2. e.dir.MESI = "INVALID"
      BY DEF SetDir, WellFormed, BlockState
    <3>. QED
      BY <3>1, <3>2
  <2>4. e.l1 = k.l1 /\ e.l2 = k.l2 /\ e.llc = k.llc
    BY DEF SetDir, WellFormed, BlockState
  <2> HIDE DEF e
  <2>. QED
    BY <2>1, <2>2, <2>3, <2>4, OtherCore DEF Covered, Owned, e
<1>4. CASE k.dir.MESI = "SHARED" /\ k.dir.sharer = BothCores
  <2>1. d = SetDir(k, "SHARED", Nobody, Other(c))
    BY <1>4 DEF DirEvict
  <2>2. readBlockMESI(k, Other(c)) \in {"INVALID", "SHARED"}
    BY <1>1, <1>4, OtherCore DEF Covered
  <2> DEFINE e == SetDir(k, "SHARED", Nobody, Other(c))
  <2>3. WellFormed(e) /\ e.dir.MESI = "SHARED" /\ e.dir.sharer = Other(c)
    <3>1. WellFormed(e)
      BY <1>1, SetDirKeepsLines
    <3>2. e.dir.MESI = "SHARED"
      BY DEF SetDir, WellFormed, BlockState
    <3>3. e.dir.sharer = Other(c)
      BY DEF SetDir, WellFormed, BlockState
    <3>. QED
      BY <3>1, <3>2, <3>3
  <2>5. e.l1 = k.l1 /\ e.l2 = k.l2 /\ e.llc = k.llc
    BY DEF SetDir, WellFormed, BlockState
  <2>4. Other(Other(c)) = c /\ Other(c) # Nobody
    BY DEF Other, Core, Nobody
  <2> HIDE DEF e
  <2>. QED
    BY <2>1, <2>2, <2>3, <2>4, <2>5, OtherCore DEF Covered, Owned, e
<1>. QED
  BY <1>1, <1>2, <1>3, <1>4, DirMESI

WithLlc(k, data) == [k EXCEPT !.llc = data]

LEMMA LlcKeeps ==
    ASSUME NEW k, WellFormed(k), NEW data \in Data, NEW r, r = WithLlc(k, data)
    PROVE  /\ WellFormed(r)
           /\ r.dir = k.dir /\ r.l1 = k.l1 /\ r.l2 = k.l2
<1>1. k \in BlockState
  BY DEF WellFormed
<1>2. r \in BlockState /\ r.dir = k.dir /\ r.l1 = k.l1 /\ r.l2 = k.l2
  BY <1>1 DEF WithLlc, BlockState
<1>. QED
  BY <1>2 DEF WellFormed

LEMMA EvictL2Keeps ==
    ASSUME NEW k, BlockInv(k), NEW c \in Core
    PROVE  BlockInv(EvictL2(k, c))
<1> DEFINE d == IF ~k.l1[c].valid /\ k.l2[c].MESI # "INVALID"
                THEN DirEvict(k, c) ELSE k
           data == IF k.l2[c].modified THEN k.l2[c].data ELSE d.llc
           n == WithLlc(d, data)
           r == WithLines(n, c, n.l1[c], NoLine)
<1>. WellFormed(k) /\ Covered(k)
  BY DEF BlockInv
<1>1. k \in BlockState /\ k.l1[c] \in Line /\ k.l2[c] \in Line
  BY DEF WellFormed, BlockState
<1>2. ~k.l1[c].valid /\ k.l2[c].MESI # "INVALID" =>
        readBlockMESI(k, c) # "INVALID"
  BY DEF readBlockMESI, Copy
<1>3. WellFormed(d) /\ d.l1 = k.l1 /\ d.l2 = k.l2 /\ d.llc = k.llc
  BY <1>2, DirEvictEffect
<1>4. data \in Data
  BY <1>1, <1>3 DEF Line, BlockState
<1>5. WellFormed(n) /\ n.dir = d.dir /\ n.l1 = k.l1 /\ n.l2 = k.l2
  <2> HIDE DEF d, data
  <2>. QED
    BY <1>3, <1>4, LlcKeeps
<1>6. EvictL2(k, c) = r
  <2>1. d \in BlockState
    BY <1>3 DEF WellFormed
  <2> HIDE DEF d
  <2>2. [d EXCEPT !.llc = IF k.l2[c].modified THEN k.l2[c].data ELSE @,
                  !.l2[c] = NoLine] = r
    BY <2>1 DEF WithLlc, WithLines, BlockState
  <2>. QED
    BY <2>2 DEF EvictL2, d
<1>7. NoLine \in Line /\ ~NoLine.valid /\ NoLine.MESI = "INVALID"
  BY NoLineType DEF NoLine
<1> HIDE DEF n
<1>8. /\ WellFormed(r)
      /\ r.dir = n.dir
      /\ readBlockMESI(r, c) = IF n.l1[c].valid THEN n.l1[c].MESI ELSE NoLine.MESI
      /\ readBlockMESI(r, Other(c)) = readBlockMESI(n, Other(c))
  <2> DEFINE l == n.l1[c]
  <2>1. l \in Line /\ (~l.valid => l.MESI = "INVALID")
    BY <1>1, <1>5 DEF WellFormed
  <2>2. r = WithLines(n, c, l, NoLine)
    OBVIOUS
  <2> HIDE DEF l, r
  <2>3. /\ WellFormed(r)
        /\ r.dir = n.dir
        /\ readBlockMESI(r, c) = IF l.valid THEN l.MESI ELSE NoLine.MESI
        /\ readBlockMESI(r, Other(c)) = readBlockMESI(n, Other(c))
    BY <1>5, <1>7, <2>1, <2>2, Replaced
  <2>. QED
    BY <2>3 DEF l
<1>9. readBlockMESI(r, Other(c)) = readBlockMESI(k, Other(c))
  BY <1>5, <1>8 DEF readBlockMESI, Copy
<1> HIDE DEF r
<1>10. Covered(r)
  <2>1. CASE ~k.l1[c].valid /\ k.l2[c].MESI # "INVALID"
    <3>1. r.dir = DirEvict(k, c).dir /\ readBlockMESI(r, c) = "INVALID"
      BY <1>5, <1>7, <1>8, <2>1
    <3>. QED
      BY <1>2, <1>9, <2>1, <3>1, DirEvictEffect
  <2>2. CASE k.l1[c].valid \/ k.l2[c].MESI = "INVALID"
    <3>1. r.dir = k.dir
      BY <1>5, <1>8, <2>2
    <3>2. readBlockMESI(r, c) \in {readBlockMESI(k, c), "INVALID"}
      BY <1>5, <1>7, <1>8 DEF readBlockMESI, Copy
    <3>. QED
      BY <1>9, <3>1, <3>2, DropCovered
  <2>. QED
    BY <2>1, <2>2
<1>. QED
  BY <1>6, <1>8, <1>10 DEF BlockInv
LEMMA EvictL1Keeps ==
    ASSUME NEW k, BlockInv(k), NEW c \in Core
    PROVE  BlockInv(EvictL1(k, c))
<1> DEFINE leaves == ~k.l2[c].valid /\ k.l1[c].MESI \in {"EXCLUSIVE", "SHARED"}
           d == IF leaves THEN DirEvict(k, c) ELSE k
           m == IF k.l1[c].modified
                THEN [valid |-> TRUE, modified |-> TRUE,
                      MESI |-> k.l2[c].MESI, data |-> k.l1[c].data]
                ELSE k.l2[c]
           r == WithLines(d, c, NoLine, m)
<1>. WellFormed(k) /\ Covered(k)
  BY DEF BlockInv
<1>1. k \in BlockState /\ k.l1[c] \in Line /\ k.l2[c] \in Line
  BY DEF WellFormed, BlockState
<1>2. leaves => readBlockMESI(k, c) # "INVALID"
  BY DEF readBlockMESI, Copy, WellFormed
<1>3. WellFormed(d) /\ d.l1 = k.l1 /\ d.l2 = k.l2
  <2>1. CASE leaves
    BY <1>2, <2>1, DirEvictEffect
  <2>2. CASE ~leaves
    BY <2>2
  <2>. QED
    BY <2>1, <2>2
<1>4. m \in Line /\ m.MESI = k.l2[c].MESI /\ (~m.valid => m.MESI = "INVALID")
  BY <1>1 DEF Line, WellFormed
<1>5. EvictL1(k, c) = r
  <2>1. d \in BlockState
    BY <1>3 DEF WellFormed
  <2> HIDE DEF d
  <2>2. [d EXCEPT !.l2[c] = IF k.l1[c].modified
                            THEN [valid |-> TRUE, modified |-> TRUE,
                                  MESI |-> @.MESI, data |-> k.l1[c].data]
                            ELSE @,
                  !.l1[c] = NoLine] = r
    BY <1>3, <2>1 DEF WithLines, BlockState
  <2>. QED
    BY <2>2 DEF EvictL1, d
<1>6. NoLine \in Line /\ ~NoLine.valid /\ NoLine.MESI = "INVALID"
  BY NoLineType DEF NoLine
<1> HIDE DEF d, m, r
<1>7. /\ WellFormed(r)
      /\ r.dir = d.dir
      /\ readBlockMESI(r, c) = IF NoLine.valid THEN NoLine.MESI ELSE m.MESI
      /\ readBlockMESI(r, Other(c)) = readBlockMESI(d, Other(c))
  BY <1>3, <1>4, <1>6, Replaced DEF r
<1>8. readBlockMESI(r, c) = k.l2[c].MESI
  BY <1>4, <1>6, <1>7
<1>9. readBlockMESI(r, Other(c)) = readBlockMESI(k, Other(c))
  BY <1>3, <1>7 DEF readBlockMESI, Copy
<1>10. Covered(r)
  <2>1. CASE leaves
    <3>1. r.dir = DirEvict(k, c).dir /\ readBlockMESI(r, c) = "INVALID"
      BY <1>7, <1>8, <2>1 DEF d, WellFormed
    <3>. QED
      BY <1>2, <1>9, <2>1, <3>1, DirEvictEffect
  <2>2. CASE ~leaves
    <3>1. r.dir = k.dir
      BY <1>7, <2>2 DEF d
    <3>2. readBlockMESI(r, c) \in {readBlockMESI(k, c), "INVALID"}
      BY <1>8 DEF readBlockMESI, Copy, WellFormed
    <3>. QED
      BY <1>9, <3>1, <3>2, DropCovered
  <2>. QED
    BY <2>1, <2>2
<1>. QED
  BY <1>5, <1>7, <1>10 DEF BlockInv

\* Filling the L2 with a block its core holds nowhere: nothing is live yet.
LEMMA FillL2Keeps ==
    ASSUME NEW k, BlockInv(k), NEW c \in Core, ~k.l1[c].valid, ~k.l2[c].valid,
           NEW data \in Data
    PROVE  BlockInv([k EXCEPT !.l2[c] = Fill("INVALID", data)])
<1> DEFINE l == k.l1[c]
           m == Fill("INVALID", data)
           r == [k EXCEPT !.l2[c] = m]
<1>. WellFormed(k) /\ Covered(k)
  BY DEF BlockInv
<1>1. k \in BlockState /\ l \in Line /\ l.MESI = "INVALID" /\ k.l2[c].MESI = "INVALID"
  BY DEF WellFormed, BlockState
<1>2. m \in Line /\ m.valid /\ m.MESI = "INVALID"
  BY FillType DEF MESI
<1>3. r = WithLines(k, c, l, m)
  BY <1>1 DEF WithLines, BlockState
<1> HIDE DEF l, m, r
<1>4. /\ WellFormed(r) /\ r.dir = k.dir
      /\ readBlockMESI(r, c) = IF l.valid THEN l.MESI ELSE m.MESI
      /\ readBlockMESI(r, Other(c)) = readBlockMESI(k, Other(c))
  BY <1>1, <1>2, <1>3, Replaced
<1>5. Covered(r)
  BY <1>1, <1>2, <1>4, DropCovered
<1>. QED
  BY <1>4, <1>5 DEF BlockInv, m, r

\* Filling the L1 with the state of the block in the L2 under it.
LEMMA FillL1Keeps ==
    ASSUME NEW k, BlockInv(k), NEW c \in Core, ~k.l1[c].valid, k.l2[c].valid,
           NEW data \in Data
    PROVE  BlockInv([k EXCEPT !.l1[c] = Fill(k.l2[c].MESI, data)])
<1> DEFINE l == Fill(k.l2[c].MESI, data)
           m == k.l2[c]
           r == [k EXCEPT !.l1[c] = l]
<1>. WellFormed(k) /\ Covered(k)
  BY DEF BlockInv
<1>1. k \in BlockState /\ m \in Line /\ m.valid
  BY DEF WellFormed, BlockState
<1>2. l \in Line /\ l.valid /\ l.MESI = m.MESI
  BY <1>1, FillType DEF Line
<1>3. r = WithLines(k, c, l, m)
  BY <1>1 DEF WithLines, BlockState
<1>4. readBlockMESI(k, c) = m.MESI
  BY DEF readBlockMESI, Copy
<1> HIDE DEF l, m, r
<1>5. /\ WellFormed(r) /\ r.dir = k.dir
      /\ readBlockMESI(r, c) = IF l.valid THEN l.MESI ELSE m.MESI
      /\ readBlockMESI(r, Other(c)) = readBlockMESI(k, Other(c))
  BY <1>1, <1>2, <1>3, Replaced
<1>6. Covered(r)
  BY <1>2, <1>4, <1>5, DropCovered
<1>. QED
  BY <1>5, <1>6 DEF BlockInv, l, m, r-----------------------------------------------------------------------------
(* Loads and replacements, on every block and the recency at once.         *)

Put(m, b, k) == [m EXCEPT !.blk[b] = k]

LEMMA StoreBlock ==
    ASSUME NEW m, Good(m), NEW b \in Block, NEW k, BlockInv(k),
           NEW r, r = Put(m, b, k)
    PROVE  /\ Good(r)
           /\ r.newer = m.newer
           /\ r.blk[b] = k
           /\ \A x \in Block : x # b => r.blk[x] = m.blk[x]
<1>1. m \in [blk : [Block -> BlockState], newer : NewerType] /\ k \in BlockState
  BY DEF Good, BlockInv, WellFormed
<1>2. /\ r \in [blk : [Block -> BlockState], newer : NewerType]
      /\ r.newer = m.newer
      /\ r.blk = [m.blk EXCEPT ![b] = k]
  BY <1>1 DEF Put
<1>. QED
  BY <1>1, <1>2 DEF Good

LEMMA TouchKeeps ==
    ASSUME NEW m, Good(m), NEW l \in Level, NEW c \in Core, NEW b \in Block
    PROVE  /\ Good(Touch(m, l, c, b))
           /\ Touch(m, l, c, b).blk = m.blk
           /\ Touch(m, l, c, b).newer[l][c][b] = {}
<1> DEFINE n == [x \in Block |-> IF x = b THEN {} ELSE m.newer[l][c][x] \cup {b}]
           r == Touch(m, l, c, b)
<1>1. m \in [blk : [Block -> BlockState], newer : NewerType]
  BY DEF Good
<1>2. n \in [Block -> SUBSET Block] /\ n[b] = {}
  BY <1>1 DEF NewerType
<1>3. r = [m EXCEPT !.newer[l][c] = n]
  BY DEF Touch
<1> HIDE DEF n, r
<1>4. /\ r \in [blk : [Block -> BlockState], newer : NewerType]
      /\ r.blk = m.blk
      /\ r.newer[l][c] = n
  BY <1>1, <1>2, <1>3 DEF NewerType
<1>5. Good(r) /\ r.blk = m.blk /\ r.newer[l][c][b] = {}
  BY <1>2, <1>4 DEF Good
<1>. QED
  BY <1>5 DEF r

\* Whatever the L2 replaces was in the L2; the rest is left alone.
LEMMA MakeRoomL2Keeps ==
    ASSUME NEW m, Good(m), NEW c \in Core, NEW b \in Block,
           NEW r \in MakeRoomL2(m, c, b)
    PROVE  /\ Good(r)
           /\ r.newer = m.newer
           /\ \A x \in Block : \/ r.blk[x] = m.blk[x]
                               \/ x \in Replace(m, 2, c, b)
           /\ \A x \in Block : ~m.blk[x].l2[c].valid => r.blk[x] = m.blk[x]
<1>1. PICK w \in Replace(m, 2, c, b) :
        r = IF w = NoVictim THEN m ELSE [m EXCEPT !.blk[w] = EvictL2(@, c)]
  BY DEF MakeRoomL2
<1>2. CASE w = NoVictim
  BY <1>1, <1>2
<1>3. CASE w # NoVictim
  <2>1. w \in Block /\ m.blk[w].l2[c].valid
    BY <1>3 DEF Replace, Valid
  <2>2. r = Put(m, w, EvictL2(m.blk[w], c))
    BY <1>1, <1>3 DEF Put
  <2>3. BlockInv(EvictL2(m.blk[w], c))
    BY <2>1, EvictL2Keeps DEF Good
  <2>4. /\ Good(r) /\ r.newer = m.newer
        /\ \A x \in Block : x # w => r.blk[x] = m.blk[x]
    BY <2>1, <2>2, <2>3, StoreBlock
  <2>. QED
    BY <2>1, <2>4
<1>. QED
  BY <1>2, <1>3

LEMMA LoadL2Keeps ==
    ASSUME NEW m, Good(m), NEW c \in Core, NEW b \in Block,
           ~m.blk[b].l1[c].valid, NEW n \in LoadL2(m, c, b)
    PROVE  /\ Good(n)
           /\ n.blk[b].l2[c].valid /\ ~n.blk[b].l1[c].valid
           /\ n.newer[2][c][b] = {}
<1>. 2 \in Level
  BY DEF Level
<1>1. CASE m.blk[b].l2[c].valid
  BY <1>1, TouchKeeps DEF LoadL2
<1>2. CASE ~m.blk[b].l2[c].valid
  <2>1. PICK r \in MakeRoomL2(m, c, b) :
          n = Touch([r EXCEPT !.blk[b].l2[c] = Fill("INVALID", r.blk[b].llc)],
                    2, c, b)
    BY <1>2 DEF LoadL2
  <2>2. Good(r) /\ r.blk[b] = m.blk[b]
    BY <1>2, MakeRoomL2Keeps
  <2> DEFINE k == [r.blk[b] EXCEPT !.l2[c] = Fill("INVALID", r.blk[b].llc)]
             s == Put(r, b, k)
  <2>3. BlockInv(r.blk[b]) /\ r.blk[b] \in BlockState /\ r.blk[b].llc \in Data
    BY <2>2 DEF Good, BlockInv, WellFormed, BlockState
  <2>4. BlockInv(k)
    BY <1>2, <2>2, <2>3, FillL2Keeps
  <2>5. k.l2[c].valid /\ ~k.l1[c].valid
    BY <2>2, <2>3 DEF BlockState, Fill
  <2>6. n = Touch(s, 2, c, b)
    BY <2>1, <2>2 DEF Good, Put
  <2> HIDE DEF k
  <2>7. Good(s) /\ s.blk[b] = k
    BY <2>2, <2>4, StoreBlock
  <2> HIDE DEF s
  <2>. QED
    BY <2>5, <2>6, <2>7, TouchKeeps
<1>. QED
  BY <1>1, <1>2

\* A block just used in a level with two ways or more is not replaced next.
LEMMA JustUsedStays ==
    ASSUME NEW m, Good(m), NEW c \in Core, NEW b \in Block, NEW v \in Block,
           m.newer[2][c][b] = {}
    PROVE  b \notin Replace(m, 2, c, v)
<1> DEFINE ways == {x \in Valid(m, 2, c) : SetOf(2, x) = SetOf(2, v)}
<1>1. SUFFICES ASSUME b \in Replace(m, 2, c, v) PROVE FALSE
  OBVIOUS
<1>2. b # NoVictim
  BY VictimAssumption
<1>3. /\ ~(Cardinality(ways) < Ways(2))
      /\ b \in ways /\ ways \ {b} \subseteq m.newer[2][c][b]
  BY <1>1, <1>2 DEF Replace
<1>4. ways = {b}
  BY <1>3
<1>5. Cardinality(ways) = 1
  BY <1>4, FS_Singleton
<1>6. Ways(2) \in Nat /\ Ways(2) # 0 /\ Ways(2) # 1
  BY WaysAssumption DEF Ways
<1>. QED
  BY <1>3, <1>5, <1>6

LEMMA ReachL2Keeps ==
    ASSUME NEW m, Good(m), NEW c \in Core, NEW b \in Block, NEW v \in Block,
           m.newer[2][c][b] = {}, NEW r \in ReachL2(m, c, v)
    PROVE  Good(r) /\ r.blk[b] = m.blk[b]
<1>. 2 \in Level
  BY DEF Level
<1>1. CASE ~m.blk[v].l1[c].modified
  BY <1>1 DEF ReachL2
<1>2. CASE m.blk[v].l1[c].modified
  <2>1. PICK s \in IF m.blk[v].l2[c].valid THEN {m} ELSE MakeRoomL2(m, c, v) :
          r = Touch(s, 2, c, v)
    BY <1>2 DEF ReachL2
  <2>2. Good(s) /\ s.blk[b] = m.blk[b]
    BY <2>1, MakeRoomL2Keeps, JustUsedStays
  <2>. QED
    BY <2>1, <2>2, TouchKeeps
<1>. QED
  BY <1>1, <1>2

LEMMA MakeRoomL1Keeps ==
    ASSUME NEW m, Good(m), NEW c \in Core, NEW b \in Block,
           ~m.blk[b].l1[c].valid, m.newer[2][c][b] = {},
           NEW r \in MakeRoomL1(m, c, b)
    PROVE  Good(r) /\ r.blk[b] = m.blk[b]
<1>1. PICK v \in Replace(m, 1, c, b) :
        r \in IF v = NoVictim THEN {m}
              ELSE {[s EXCEPT !.blk[v] = EvictL1(@, c)] : s \in ReachL2(m, c, v)}
  BY DEF MakeRoomL1
<1>2. CASE v = NoVictim
  BY <1>1, <1>2
<1>3. CASE v # NoVictim
  <2>1. v \in Block /\ m.blk[v].l1[c].valid
    BY <1>3 DEF Replace, Valid
  <2>2. PICK s \in ReachL2(m, c, v) : r = Put(s, v, EvictL1(s.blk[v], c))
    BY <1>1, <1>3 DEF Put
  <2>3. Good(s) /\ s.blk[b] = m.blk[b]
    BY <2>1, <2>2, ReachL2Keeps
  <2>4. BlockInv(EvictL1(s.blk[v], c))
    BY <2>1, <2>3, EvictL1Keeps DEF Good
  <2>5. Good(r) /\ \A x \in Block : x # v => r.blk[x] = s.blk[x]
    BY <2>1, <2>2, <2>3, <2>4, StoreBlock
  <2>. QED
    BY <2>1, <2>3, <2>5
<1>. QED
  BY <1>2, <1>3

LEMMA LoadL1Keeps ==
    ASSUME NEW m, Good(m), NEW c \in Core, NEW b \in Block,
           ~m.blk[b].l1[c].valid, NEW q \in LoadL1(m, c, b)
    PROVE  Good(q) /\ q.blk[b].l1[c].valid
<1>1. PICK n \in LoadL2(m, c, b) :
        q \in {[r EXCEPT !.blk[b].l1[c] =
                    Fill(n.blk[b].l2[c].MESI, n.blk[b].l2[c].data)] :
                r \in MakeRoomL1(n, c, b)}
  BY DEF LoadL1
<1>2. /\ Good(n) /\ n.newer[2][c][b] = {}
      /\ n.blk[b].l2[c].valid /\ ~n.blk[b].l1[c].valid
  BY LoadL2Keeps
<1>3. PICK r \in MakeRoomL1(n, c, b) :
        q = [r EXCEPT !.blk[b].l1[c] =
                Fill(n.blk[b].l2[c].MESI, n.blk[b].l2[c].data)]
  BY <1>1
<1>4. Good(r) /\ r.blk[b] = n.blk[b]
  BY <1>2, MakeRoomL1Keeps
<1> DEFINE data == n.blk[b].l2[c].data
           k == [r.blk[b] EXCEPT !.l1[c] = Fill(r.blk[b].l2[c].MESI, data)]
<1>5. BlockInv(r.blk[b]) /\ r.blk[b] \in BlockState /\ data \in Data
  BY <1>4 DEF Good, BlockInv, WellFormed, BlockState, Line
<1>6. BlockInv(k)
  <2> HIDE DEF data
  <2>. QED
    BY <1>2, <1>4, <1>5, FillL1Keeps
<1>7. k.l1[c].valid
  BY <1>5 DEF BlockState, Fill
<1>8. q = Put(r, b, k)
  BY <1>3, <1>4 DEF Good, Put
<1> HIDE DEF k
<1>9. Good(q) /\ q.blk[b] = k
  BY <1>4, <1>6, <1>8, StoreBlock
<1>. QED
  BY <1>7, <1>9

LEMMA FetchKeeps ==
    ASSUME IndInv, NEW c \in Core, NEW b \in Block, NEW q \in Fetch(c, b)
    PROVE  Good(q) /\ q.blk[b].l1[c].valid
<1> DEFINE m == [blk |-> blk, newer |-> newer]
<1>1. Good(m) /\ m.blk = blk /\ 1 \in Level
  BY DEF IndInv, Level
<1>2. PICK r \in IF blk[b].l1[c].valid THEN {m} ELSE LoadL1(m, c, b) :
        q = Touch(r, 1, c, b)
  BY DEF Fetch
<1> HIDE DEF m
<1>3. Good(r) /\ r.blk[b].l1[c].valid
  BY <1>1, <1>2, LoadL1Keeps
<1>. QED
  BY <1>1, <1>2, <1>3, TouchKeeps-----------------------------------------------------------------------------
(* The invariant of the specification.                                     *)

LEMMA InitInd == Init => IndInv
<1>1. SUFFICES ASSUME Init PROVE IndInv
  OBVIOUS
<1> DEFINE k == [l1 |-> [c \in Core |-> NoLine], l2 |-> [c \in Core |-> NoLine],
                 llc |-> Blank,
                 dir |-> [MESI |-> "INVALID", owner |-> Nobody, sharer |-> Nobody]]
<1>2. k \in BlockState
  BY NoLineType, ZeroAssumption
     DEF BlockState, Directoryblock, MESI, Data, Blank
<1>3. /\ k.dir.MESI = "INVALID"
      /\ \A c \in Core : k.l1[c] = NoLine /\ k.l2[c] = NoLine
  OBVIOUS
<1>4. NoLine.MESI = "INVALID" /\ ~NoLine.valid
  BY DEF NoLine
<1>5. blk = [b \in Block |-> k]
  BY <1>1 DEF Init
<1> HIDE DEF k
<1>6. WellFormed(k)
  BY <1>2, <1>3, <1>4 DEF WellFormed
<1>7. Covered(k)
  BY <1>3, <1>4 DEF Covered, Owned, readBlockMESI, Copy
<1>8. newer \in NewerType
  BY <1>1 DEF Init, NewerType
<1>. QED
  BY <1>1, <1>2, <1>5, <1>6, <1>7, <1>8 DEF Init, IndInv, Good, BlockInv

\* What an access stores is good when the block it leaves behind is.
LEMMA StoreKeeps ==
    ASSUME IndInv, NEW m, Good(m), NEW b \in Block, NEW k, BlockInv(k),
           Store(Put(m, b, k))
    PROVE  IndInv'
<1> DEFINE q == Put(m, b, k)
<1>1. Good(q)
  BY StoreBlock
<1> HIDE DEF q
<1>2. q.blk \in [Block -> BlockState] /\ q.newer \in NewerType
      /\ \A x \in Block : BlockInv(q.blk[x])
  BY <1>1 DEF Good
<1>3. Forget(q) \in NewerType
  BY <1>2 DEF Forget, NewerType, Valid
<1>4. blk' = q.blk /\ newer' = Forget(q) /\ halted' = halted
  BY DEF Store, q
<1>. QED
  BY <1>2, <1>3, <1>4 DEF IndInv, Good

LEMMA NextInd == IndInv /\ [Next]_vars => IndInv'
<1>1. SUFFICES ASSUME IndInv, [Next]_vars PROVE IndInv'
  OBVIOUS
<1>2. CASE UNCHANGED vars
  BY <1>1, <1>2 DEF IndInv, vars
<1>3. ASSUME NEW c \in Core, NEW b \in Block, getByte(c, b) PROVE IndInv'
  <2>1. PICK m \in Fetch(c, b) : Store([m EXCEPT !.blk[b] = OwnRead(@, c)])
    BY <1>3 DEF getByte
  <2>2. Good(m) /\ m.blk[b].l1[c].valid
    BY <1>1, FetchKeeps
  <2>3. BlockInv(OwnRead(m.blk[b], c))
    BY <2>2, OwnReadKeeps DEF Good, Holds
  <2>4. Store(Put(m, b, OwnRead(m.blk[b], c)))
    BY <2>1 DEF Put
  <2>. QED
    BY <1>1, <2>2, <2>3, <2>4, StoreKeeps
<1>4. ASSUME NEW c \in Core, NEW b \in Block, NEW o \in Offset,
             NEW val \in Value, setByte(c, b, o, val)
      PROVE  IndInv'
  <2> DEFINE k(m) == WriteByte(OwnWrite(m.blk[b], c), c, o, val)
  <2>1. PICK m \in Fetch(c, b) :
          Store([m EXCEPT !.blk[b] = WriteByte(OwnWrite(@, c), c, o, val)])
    BY <1>4 DEF setByte
  <2>2. Good(m) /\ m.blk[b].l1[c].valid
    BY <1>1, FetchKeeps
  <2>3. BlockInv(k(m))
    BY <2>2, OwnWriteKeeps, WriteByteKeeps DEF Good, Holds
  <2>4. Store(Put(m, b, k(m)))
    BY <2>1 DEF Put
  <2> HIDE DEF k
  <2>. QED
    BY <1>1, <2>2, <2>3, <2>4, StoreKeeps
<1>5. ASSUME NEW c \in Core, NEW b \in Block,
             getByteExits(c, b) \/ setByteExits(c, b)
      PROVE  IndInv'
  BY <1>1, <1>5 DEF getByteExits, setByteExits, IndInv
<1>. QED
  BY <1>1, <1>2, <1>3, <1>4, <1>5, WrittenAssumption DEF Next

LEMMA Invariance == Spec => []IndInv
BY InitInd, NextInd, PTL DEF Spec

LEMMA IndImplies ==
    IndInv => TypeOK /\ SingleWriter /\ DirectoryCoversCopies /\ LevelsAgree
<1>1. SUFFICES ASSUME IndInv
               PROVE  TypeOK /\ SingleWriter /\ DirectoryCoversCopies /\ LevelsAgree
  OBVIOUS
<1>2. /\ blk \in [Block -> BlockState] /\ newer \in NewerType
      /\ \A b \in Block : WellFormed(blk[b]) /\ Covered(blk[b])
  BY <1>1 DEF IndInv, Good, BlockInv
<1>3. TypeOK
  BY <1>1, <1>2 DEF TypeOK, IndInv, NewerType
<1>4. DirectoryCoversCopies /\ LevelsAgree
  BY <1>2 DEF DirectoryCoversCopies, LevelsAgree, WellFormed
<1>5. ASSUME NEW b \in Block, NEW c \in Core,
             State(b, c) \in {"EXCLUSIVE", "MODIFIED"}
      PROVE  State(b, Other(c)) = "INVALID"
  <2>1. /\ readBlockMESI(blk[b], c) \in {"EXCLUSIVE", "MODIFIED"}
        /\ WellFormed(blk[b]) /\ Covered(blk[b])
    BY <1>2, <1>5 DEF State
  <2>2. Owned(blk[b])
    BY <2>1, DirMESI DEF Covered
  <2>3. blk[b].dir.owner = c
    BY <2>1, <2>2, OtherCore DEF Covered
  <2>. QED
    BY <2>1, <2>2, <2>3 DEF Covered, State
<1>. QED
  BY <1>3, <1>4, <1>5 DEF SingleWriter

\* Every variable keeps its type, whatever the geometry.
THEOREM TypeCorrect == Spec => []TypeOK
BY Invariance, IndImplies, PTL

\* MESIoperationFwd may write E and M copies without asking: no other core
\* ever holds a live copy beside one.
THEOREM WritersAreAlone == Spec => []SingleWriter
BY Invariance, IndImplies, PTL

\* The directory of MESIoperationmem never names fewer copies than there are.
THEOREM DirectoryIsSound == Spec => []DirectoryCoversCopies
BY Invariance, IndImplies, PTL

\* readBlockMESIfromCache may read either level.
THEOREM LevelsAgreeAlways == Spec => []LevelsAgree
BY Invariance, IndImplies, PTL
-----------------------------------------------------------------------------
(* One line, one core, one step at a time.                                 *)

\* What setBlockMESI and setdata do to one line.
Mark(line, mesi) == IF line.valid THEN [line EXCEPT !.MESI = mesi] ELSE line
Load(line, data) == IF line.valid THEN [line EXCEPT !.data = data] ELSE line

LEMMA MarkIs ==
    ASSUME NEW line \in Line, NEW mesi \in MESI
    PROVE  /\ Mark(line, mesi) \in Line
           /\ Mark(line, mesi).valid = line.valid
           /\ Mark(line, mesi).modified = line.modified
           /\ Mark(line, mesi).data = line.data
           /\ line.valid => Mark(line, mesi).MESI = mesi
BY DEF Mark, Line

LEMMA LoadIs ==
    ASSUME NEW line \in Line, NEW data \in Data
    PROVE  /\ Load(line, data) \in Line
           /\ Load(line, data).valid = line.valid
           /\ Load(line, data).modified = line.modified
           /\ Load(line, data).MESI = line.MESI
           /\ line.valid => Load(line, data).data = data
BY DEF Load, Line

LEMMA BlockParts ==
    ASSUME NEW k \in BlockState, NEW c \in Core
    PROVE  /\ k.l1[c] \in Line /\ k.l2[c] \in Line
           /\ k.llc \in Data /\ k.dir \in Directoryblock
BY DEF BlockState

LEMMA LineParts ==
    ASSUME NEW line \in Line
    PROVE  /\ line.valid \in BOOLEAN /\ line.modified \in BOOLEAN
           /\ line.MESI \in MESI /\ line.data \in Data
BY DEF Line

LEMMA WithLinesIs ==
    ASSUME NEW k \in BlockState, NEW c \in Core, NEW l \in Line, NEW m \in Line,
           NEW r, r = WithLines(k, c, l, m)
    PROVE  /\ r \in BlockState
           /\ r.l1[c] = l /\ r.l2[c] = m
           /\ r.l1[Other(c)] = k.l1[Other(c)] /\ r.l2[Other(c)] = k.l2[Other(c)]
           /\ r.llc = k.llc /\ r.dir = k.dir
<1>1. /\ r.l1 = [k.l1 EXCEPT ![c] = l] /\ r.l2 = [k.l2 EXCEPT ![c] = m]
      /\ r.llc = k.llc /\ r.dir = k.dir /\ r \in BlockState
  BY DEF WithLines, BlockState
<1>. QED
  BY <1>1, OtherCore DEF BlockState

\* Only the lines of core c, the L3 or the directory entry change.
LEMMA SetMESILines ==
    ASSUME NEW k \in BlockState, NEW c \in Core, NEW mesi \in MESI,
           NEW r, r = setBlockMESI(k, c, mesi)
    PROVE  /\ r \in BlockState
           /\ r.l1[c] = Mark(k.l1[c], mesi) /\ r.l2[c] = Mark(k.l2[c], mesi)
           /\ r.l1[Other(c)] = k.l1[Other(c)] /\ r.l2[Other(c)] = k.l2[Other(c)]
           /\ r.llc = k.llc /\ r.dir = k.dir
<1> DEFINE l == Mark(k.l1[c], mesi)
           m == Mark(k.l2[c], mesi)
<1>1. l \in Line /\ m \in Line
  BY BlockParts, MarkIs
<1>2. r = WithLines(k, c, l, m)
  BY DEF setBlockMESI, Mark, BlockState, WithLines
<1> HIDE DEF l, m
<1>3. /\ r \in BlockState /\ r.l1[c] = l /\ r.l2[c] = m
      /\ r.l1[Other(c)] = k.l1[Other(c)] /\ r.l2[Other(c)] = k.l2[Other(c)]
      /\ r.llc = k.llc /\ r.dir = k.dir
  BY <1>1, <1>2, WithLinesIs
<1>. QED
  BY <1>3 DEF l, m

LEMMA SetdataLines ==
    ASSUME NEW k \in BlockState, NEW c \in Core, NEW data \in Data,
           NEW r, r = setdata(k, c, data)
    PROVE  /\ r \in BlockState
           /\ r.l1[c] = Load(k.l1[c], data) /\ r.l2[c] = Load(k.l2[c], data)
           /\ r.l1[Other(c)] = k.l1[Other(c)] /\ r.l2[Other(c)] = k.l2[Other(c)]
           /\ r.llc = k.llc /\ r.dir = k.dir
<1> DEFINE l == Load(k.l1[c], data)
           m == Load(k.l2[c], data)
<1>1. l \in Line /\ m \in Line
  BY BlockParts, LoadIs
<1>2. r = WithLines(k, c, l, m)
  BY DEF setdata, Load, BlockState, WithLines
<1> HIDE DEF l, m
<1>3. /\ r \in BlockState /\ r.l1[c] = l /\ r.l2[c] = m
      /\ r.l1[Other(c)] = k.l1[Other(c)] /\ r.l2[Other(c)] = k.l2[Other(c)]
      /\ r.llc = k.llc /\ r.dir = k.dir
  BY <1>1, <1>2, WithLinesIs
<1>. QED
  BY <1>3 DEF l, m

LEMMA InvalidateLines ==
    ASSUME NEW k \in BlockState, NEW c \in Core,
           NEW r, r = invalidateBlock(k, c)
    PROVE  /\ r \in BlockState
           /\ r.l1[c] = NoLine /\ r.l2[c] = NoLine
           /\ r.l1[Other(c)] = k.l1[Other(c)] /\ r.l2[Other(c)] = k.l2[Other(c)]
           /\ r.llc = k.llc /\ r.dir = k.dir
BY NoLineType, OtherCore DEF invalidateBlock, BlockState

LEMMA SetDirLines ==
    ASSUME NEW k \in BlockState, NEW mesi \in MESI,
           NEW owner \in Core \cup {Nobody},
           NEW sharer \in Core \cup {Nobody, BothCores},
           NEW r, r = SetDir(k, mesi, owner, sharer)
    PROVE  /\ r \in BlockState
           /\ r.dir = [MESI |-> mesi, owner |-> owner, sharer |-> sharer]
           /\ r.l1 = k.l1 /\ r.l2 = k.l2 /\ r.llc = k.llc
BY DEF SetDir, BlockState, Directoryblock
-----------------------------------------------------------------------------
\* The lines of one core between two accesses.
Tidy(k, c) ==
    /\ k.l1[c].valid => k.l2[c].valid
    /\ k.l1[c].modified => k.l1[c].valid
    /\ k.l2[c].modified => k.l2[c].valid
    /\ k.l2[c].valid => readBlockMESI(k, c) # "INVALID"
    /\ readBlockMESI(k, c) = "MODIFIED" => k.l1[c].modified \/ k.l2[c].modified
    /\ k.l1[c].valid /\ ~k.l1[c].modified => k.l1[c].data = k.l2[c].data
    /\ k.l2[c].valid /\ ~k.l1[c].modified /\ ~k.l2[c].modified =>
            dataTrans(k, c) = k.llc

\* The lines of a core that has just loaded a block from the L3.
Fresh(k, c) ==
    /\ k.l1[c].valid /\ k.l2[c].valid
    /\ ~k.l1[c].modified /\ ~k.l2[c].modified
    /\ k.l1[c].MESI = "INVALID" /\ k.l2[c].MESI = "INVALID"
    /\ k.l1[c].data = k.llc /\ k.l2[c].data = k.llc

SharersMatch(k) ==
    k.dir.MESI = "SHARED" =>
        \A c \in Core : Holds(k, c) => dataTrans(k, c) = k.llc

Settled(k) ==
    /\ BlockInv(k)
    /\ \A c \in Core : Tidy(k, c)
    /\ Owned(k) => Holds(k, k.dir.owner)
    /\ SharersMatch(k)

\* A block its core has just fetched.
Ready(k, c) ==
    /\ BlockInv(k) /\ k.l1[c].valid
    /\ Tidy(k, Other(c)) /\ (Tidy(k, c) \/ Fresh(k, c))
    /\ Owned(k) => Holds(k, k.dir.owner) /\ (Fresh(k, c) => k.dir.owner # c)
    /\ SharersMatch(k)

\* The bytes of a block: its owner's, or the L3's.
Truth(k) == IF Owned(k) THEN dataTrans(k, k.dir.owner) ELSE k.llc

LEMMA OtherTwice ==
    ASSUME NEW c \in Core
    PROVE  Other(c) \in Core /\ Other(Other(c)) = c /\ Other(c) # c
           /\ \A e \in Core : e = c \/ e = Other(c)
BY DEF Core, Other

LEMMA EvictL1Settled ==
    ASSUME NEW k, Settled(k), NEW c \in Core, k.l1[c].valid,
           NEW r, r = EvictL1(k, c)
    PROVE  /\ Settled(r) /\ Truth(r) = Truth(k)
           /\ ~r.l1[c].valid /\ r.l1[Other(c)] = k.l1[Other(c)]
<1> DEFINE d == Other(c)
<1>1. /\ BlockInv(k) /\ k \in BlockState /\ k.l2[c].valid
      /\ k.l1[c] \in Line /\ k.l2[c] \in Line
      /\ k.l1[c].MESI = k.l2[c].MESI
  BY BlockParts DEF Settled, BlockInv, WellFormed, Tidy
<1> DEFINE m == IF k.l1[c].modified
                THEN [valid |-> TRUE, modified |-> TRUE,
                      MESI |-> k.l2[c].MESI, data |-> k.l1[c].data]
                ELSE k.l2[c]
<1>2. m \in Line /\ m.valid /\ m.MESI = k.l2[c].MESI
  BY <1>1, LineParts DEF Line
<1>3. r = [k EXCEPT !.l2[c] = m, !.l1[c] = NoLine]
  BY <1>1 DEF EvictL1
<1>4. m.data = k.l1[c].data
  BY <1>1 DEF Settled, Tidy
<1>5. /\ k.l1[c].modified => m.modified
      /\ ~k.l1[c].modified => m.modified = k.l2[c].modified
  OBVIOUS
<1> HIDE DEF m
<1>6. /\ r.l1[c] = NoLine /\ r.l2[c] = m
      /\ r.l1[d] = k.l1[d] /\ r.l2[d] = k.l2[d]
      /\ r.llc = k.llc /\ r.dir = k.dir
  BY <1>1, <1>3, OtherTwice DEF BlockState
<1>7. /\ ~NoLine.valid /\ ~NoLine.modified
  BY DEF NoLine
<1>8. /\ readBlockMESI(r, c) = readBlockMESI(k, c)
      /\ dataTrans(r, c) = dataTrans(k, c)
      /\ Holds(r, c) /\ Holds(k, c)
  BY <1>1, <1>2, <1>4, <1>6, <1>7 DEF readBlockMESI, dataTrans, Copy, Holds
<1>9. /\ readBlockMESI(r, d) = readBlockMESI(k, d)
      /\ dataTrans(r, d) = dataTrans(k, d)
      /\ Holds(r, d) = Holds(k, d)
  BY <1>6 DEF readBlockMESI, dataTrans, Copy, Holds
<1>10. BlockInv(r)
  BY <1>1, EvictL1Keeps
<1>11. Tidy(r, c)
  BY <1>1, <1>2, <1>5, <1>6, <1>7, <1>8 DEF Settled, Tidy
<1>12. Tidy(r, d)
  BY <1>6, <1>9, OtherTwice DEF Settled, Tidy
<1>13. /\ Owned(r) <=> Owned(k)
       /\ Owned(k) => k.dir.owner \in Core
  BY <1>1, <1>6 DEF Owned, BlockInv, Covered
<1>14. Truth(r) = Truth(k)
  BY <1>6, <1>8, <1>9, <1>13, OtherTwice DEF Truth
<1>15. Owned(r) => Holds(r, r.dir.owner)
  BY <1>6, <1>8, <1>9, <1>13, OtherTwice DEF Settled
<1>16. SharersMatch(r)
  BY <1>6, <1>8, <1>9, OtherTwice DEF Settled, SharersMatch
<1>. QED
  BY <1>6, <1>7, <1>10, <1>11, <1>12, <1>14, <1>15, <1>16, OtherTwice DEF Settled

\* A core that holds nothing is tidy.
LEMMA EmptyTidy ==
    ASSUME NEW k, NEW c, ~k.l1[c].valid, ~k.l2[c].valid,
           ~k.l1[c].modified, ~k.l2[c].modified,
           readBlockMESI(k, c) = "INVALID"
    PROVE  Tidy(k, c) /\ ~Holds(k, c)
BY DEF Tidy, Holds

LEMMA DeadIsEmpty ==
    ASSUME NEW k, NEW c, Tidy(k, c), readBlockMESI(k, c) = "INVALID"
    PROVE  /\ ~k.l1[c].valid /\ ~k.l2[c].valid
           /\ ~k.l1[c].modified /\ ~k.l2[c].modified
           /\ ~Holds(k, c)
BY DEF Tidy, Holds

\* Tidiness is about one core's lines and the L3.
LEMMA SameTidy ==
    ASSUME NEW k, NEW r, NEW c,
           r.l1[c] = k.l1[c], r.l2[c] = k.l2[c]
    PROVE  /\ readBlockMESI(r, c) = readBlockMESI(k, c)
           /\ dataTrans(r, c) = dataTrans(k, c)
           /\ Holds(r, c) = Holds(k, c)
           /\ r.llc = k.llc /\ Tidy(k, c) => Tidy(r, c)
<1>1. /\ readBlockMESI(r, c) = readBlockMESI(k, c)
      /\ dataTrans(r, c) = dataTrans(k, c)
      /\ Holds(r, c) = Holds(k, c)
  BY DEF readBlockMESI, dataTrans, Copy, Holds
<1>. QED
  BY <1>1 DEF Tidy

LEMMA EvictL2Settled ==
    ASSUME NEW k, Settled(k), NEW c \in Core, ~k.l1[c].valid, k.l2[c].valid,
           NEW r, r = EvictL2(k, c)
    PROVE  /\ Settled(r) /\ Truth(r) = Truth(k)
           /\ \A e \in Core : r.l1[e] = k.l1[e]
<1> DEFINE o == Other(c)
           d == DirEvict(k, c)
<1>1. /\ BlockInv(k) /\ k \in BlockState /\ WellFormed(k) /\ Covered(k)
      /\ Tidy(k, c) /\ Tidy(k, o)
  BY OtherTwice DEF Settled, BlockInv, WellFormed
<1>2. /\ readBlockMESI(k, c) = k.l2[c].MESI /\ k.l2[c].MESI # "INVALID"
      /\ dataTrans(k, c) = k.l2[c].data /\ ~k.l1[c].modified
  BY <1>1 DEF Tidy, readBlockMESI, dataTrans, Copy
<1>3. WellFormed(d) /\ d.l1 = k.l1 /\ d.l2 = k.l2 /\ d.llc = k.llc
  BY <1>1, <1>2, DirEvictEffect
<1>4. /\ k.dir.MESI # "INVALID"
      /\ Owned(k) => k.dir.owner = c /\ readBlockMESI(k, o) = "INVALID"
  BY <1>1, <1>2, OtherTwice DEF Covered
<1>5. d.dir.MESI \in {"INVALID", "SHARED"} /\ (Owned(k) => d.dir.MESI = "INVALID")
  BY <1>1, <1>4, DirMESI
     DEF DirEvict, SetDir, Owned, BlockState, Directoryblock
<1>6. (IF k.l2[c].modified THEN k.l2[c].data ELSE d.llc) = dataTrans(k, c)
  BY <1>1, <1>2, <1>3 DEF Tidy
<1> DEFINE data == dataTrans(k, c)
<1>7. r = [d EXCEPT !.llc = data, !.l2[c] = NoLine] /\ d \in BlockState
  BY <1>2, <1>3, <1>6 DEF EvictL2, WellFormed
<1>8. data \in Data
  BY <1>1, CopyType
<1> HIDE DEF data, d
<1>9. /\ r.l1[c] = k.l1[c] /\ r.l2[c] = NoLine
      /\ r.l1[o] = k.l1[o] /\ r.l2[o] = k.l2[o]
      /\ r.llc = data /\ r.dir = d.dir
  BY <1>3, <1>7, <1>8, OtherTwice DEF BlockState
<1>10. ~NoLine.valid /\ ~NoLine.modified /\ NoLine.MESI = "INVALID"
  BY DEF NoLine
<1>11. BlockInv(r)
  BY <1>1, EvictL2Keeps
<1>12. Tidy(r, c) /\ ~Holds(r, c)
  <2>1. readBlockMESI(r, c) = "INVALID"
    BY <1>9, <1>10 DEF readBlockMESI, Copy
  <2>. QED
    BY <1>2, <1>9, <1>10, <2>1, EmptyTidy
<1>13. ~Owned(r)
  BY <1>5, <1>9 DEF Owned
<1>14. CASE Owned(k)
  <2>1. Truth(r) = Truth(k)
    BY <1>4, <1>9, <1>13, <1>14 DEF Truth, data
  <2>2. Tidy(r, o)
    BY <1>1, <1>4, <1>9, <1>14, SameTidy, DeadIsEmpty, EmptyTidy
  <2>3. SharersMatch(r)
    BY <1>5, <1>9, <1>14 DEF SharersMatch
  <2>. QED
    BY <1>9, <1>11, <1>12, <1>13, <2>1, <2>2, <2>3, OtherTwice DEF Settled
<1>15. CASE ~Owned(k)
  <2>1. k.dir.MESI = "SHARED"
    BY <1>1, <1>4, <1>15, DirMESI
  <2>2. data = k.llc
    BY <2>1 DEF Settled, SharersMatch, Holds, data
  <2>3. Truth(r) = Truth(k)
    BY <1>9, <1>13, <1>15, <2>2 DEF Truth
  <2>4. Tidy(r, o)
    BY <1>1, <1>9, <2>2, SameTidy
  <2>5. SharersMatch(r)
    BY <1>9, <1>12, <2>1, <2>2, SameTidy, OtherTwice DEF Settled, SharersMatch
  <2>. QED
    BY <1>9, <1>11, <1>12, <1>13, <2>3, <2>4, <2>5, OtherTwice DEF Settled
<1>. QED
  BY <1>14, <1>15

LEMMA FetchedReady ==
    ASSUME NEW k, Settled(k), NEW c \in Core, NEW f, f = Fetched(k, c)
    PROVE  Ready(f, c) /\ Truth(f) = Truth(k)
<1> DEFINE o == Other(c)
<1>1. /\ BlockInv(k) /\ k \in BlockState /\ WellFormed(k) /\ Covered(k)
      /\ Tidy(k, c) /\ Tidy(k, o) /\ SharersMatch(k)
      /\ k.l1[c] \in Line /\ k.l2[c] \in Line /\ k.llc \in Data
      /\ Owned(k) => k.dir.owner \in Core /\ Holds(k, k.dir.owner)
  BY OtherTwice, BlockParts DEF Settled, BlockInv, WellFormed, Covered
<1>2. CASE k.l1[c].valid
  <2>1. f = k
    BY <1>2 DEF Fetched
  <2>2. ~Fresh(k, c)
    BY <1>1 DEF Fresh, Tidy, readBlockMESI, Copy
  <2>. QED
    BY <1>1, <1>2, <2>1, <2>2 DEF Ready
<1>3. CASE ~k.l1[c].valid /\ k.l2[c].valid
  <2> DEFINE m == k.l2[c]
             l == Fill(m.MESI, m.data)
  <2>1. /\ l \in Line /\ l.valid /\ ~l.modified /\ l.MESI = m.MESI
        /\ l.data = m.data
    BY <1>1, LineParts DEF Fill, Line
  <2>2. f = WithLines(k, c, l, m)
    BY <1>1, <1>3 DEF Fetched, WithLines, BlockState
  <2>3. f = [k EXCEPT !.l1[c] = l]
    BY <1>1, <1>3 DEF Fetched, BlockState
  <2>4. BlockInv(f)
    BY <1>1, <1>3, <2>3, FillL1Keeps, LineParts
  <2> HIDE DEF l, m
  <2>5. /\ f.l1[c] = l /\ f.l2[c] = m
        /\ f.l1[o] = k.l1[o] /\ f.l2[o] = k.l2[o]
        /\ f.llc = k.llc /\ f.dir = k.dir
    BY <1>1, <2>1, <2>2, WithLinesIs DEF m
  <2>6. /\ readBlockMESI(f, c) = readBlockMESI(k, c)
        /\ dataTrans(f, c) = dataTrans(k, c)
        /\ Holds(f, c) /\ Holds(k, c)
    BY <1>3, <2>1, <2>5 DEF m, readBlockMESI, dataTrans, Copy, Holds
  <2>7. Tidy(f, c)
    BY <1>1, <1>3, <2>1, <2>5, <2>6 DEF m, Tidy
  <2>8. /\ Tidy(f, o) /\ dataTrans(f, o) = dataTrans(k, o)
        /\ Holds(f, o) = Holds(k, o)
    BY <1>1, <2>5, SameTidy
  <2>9. ~Fresh(f, c)
    BY <1>1, <1>3, <2>1, <2>5 DEF Fresh, Tidy, m, readBlockMESI, Copy
  <2>10. SharersMatch(f)
    BY <1>1, <2>5, <2>6, <2>8, OtherTwice DEF SharersMatch
  <2>11. /\ Owned(f) <=> Owned(k)
         /\ Owned(k) => Holds(f, k.dir.owner)
         /\ Owned(k) => dataTrans(f, k.dir.owner) = dataTrans(k, k.dir.owner)
    BY <1>1, <2>5, <2>6, <2>8, OtherTwice DEF Owned
  <2>. QED
    BY <2>1, <2>4, <2>5, <2>7, <2>8, <2>9, <2>10, <2>11 DEF Ready, Truth
<1>4. CASE ~k.l1[c].valid /\ ~k.l2[c].valid
  <2> DEFINE l == Fill("INVALID", k.llc)
             n == [k EXCEPT !.l2[c] = l]
  <2>1. /\ l \in Line /\ l.valid /\ ~l.modified /\ l.MESI = "INVALID"
        /\ l.data = k.llc /\ Fill(l.MESI, l.data) = l
    BY <1>1 DEF Fill, Line, MESI
  <2>2. f = WithLines(k, c, l, l)
    BY <1>1, <1>4, <2>1 DEF Fetched, WithLines, BlockState
  <2>3. BlockInv(n)
    BY <1>1, <1>4, FillL2Keeps
  <2> HIDE DEF l
  <2>4. n.l2[c] = l /\ n.l1[c] = k.l1[c] /\ n = WithLines(k, c, k.l1[c], l)
    BY <1>1, <2>1 DEF BlockState, WithLines
  <2>5. f = [n EXCEPT !.l1[c] = Fill(n.l2[c].MESI, n.l2[c].data)]
    BY <1>1, <2>1, <2>2, <2>4 DEF BlockState, WithLines
  <2> HIDE DEF n
  <2>6. BlockInv(f)
    BY <1>1, <1>4, <2>1, <2>3, <2>4, <2>5, FillL1Keeps, LineParts
  <2>7. /\ f.l1[c] = l /\ f.l2[c] = l
        /\ f.l1[o] = k.l1[o] /\ f.l2[o] = k.l2[o]
        /\ f.llc = k.llc /\ f.dir = k.dir
    BY <1>1, <2>1, <2>2, WithLinesIs
  <2>8. Fresh(f, c) /\ dataTrans(f, c) = k.llc
    BY <2>1, <2>7 DEF Fresh, dataTrans, Copy
  <2>9. /\ Tidy(f, o) /\ dataTrans(f, o) = dataTrans(k, o)
        /\ Holds(f, o) = Holds(k, o)
    BY <1>1, <2>7, SameTidy
  <2>10. Owned(k) => k.dir.owner = o
    BY <1>1, <1>4, OtherTwice DEF Holds
  <2>11. SharersMatch(f)
    BY <1>1, <2>7, <2>8, <2>9, OtherTwice DEF SharersMatch
  <2>12. Owned(f) <=> Owned(k)
    BY <2>7 DEF Owned
  <2>. QED
    BY <1>1, <2>1, <2>6, <2>7, <2>8, <2>9, <2>10, <2>11, <2>12, OtherTwice
       DEF Ready, Truth
<1>. QED
  BY <1>2, <1>3, <1>4

\* Only a block its core held nowhere is fresh.
LEMMA FetchedFresh ==
    ASSUME NEW k, Settled(k), NEW c \in Core, NEW f, f = Fetched(k, c)
    PROVE  f.dir = k.dir /\ (Holds(k, c) => ~Fresh(f, c))
<1>1. k \in BlockState /\ WellFormed(k) /\ Tidy(k, c)
  BY DEF Settled, BlockInv, WellFormed
<1>2. CASE k.l1[c].valid
  BY <1>1, <1>2 DEF Fetched, Fresh, Tidy, readBlockMESI, Copy
<1>3. CASE ~k.l1[c].valid
  <2>1. f.dir = k.dir
    BY <1>1, <1>3 DEF Fetched, BlockState
  <2>2. k.l2[c].valid => f.l1[c].MESI = k.l2[c].MESI
    BY <1>1, <1>3 DEF Fetched, BlockState, Fill
  <2>3. k.l2[c].valid => k.l2[c].MESI # "INVALID"
    BY <1>1, <1>3 DEF Tidy, readBlockMESI, Copy
  <2>. QED
    BY <1>3, <2>1, <2>2, <2>3 DEF Holds, Fresh
<1>. QED
  BY <1>2, <1>3

\* A ready block has both lines of the core that fetched it.
LEMMA ReadyIs ==
    ASSUME NEW k, NEW c \in Core, Ready(k, c)
    PROVE  /\ BlockInv(k) /\ WellFormed(k) /\ Covered(k) /\ k \in BlockState
           /\ k.l1[c] \in Line /\ k.l2[c] \in Line /\ k.llc \in Data
           /\ k.l1[Other(c)] \in Line /\ k.l2[Other(c)] \in Line
           /\ k.l1[c].valid /\ k.l2[c].valid
           /\ readBlockMESI(k, c) = k.l1[c].MESI
           /\ dataTrans(k, c) = k.l1[c].data
           /\ Fresh(k, c) <=> readBlockMESI(k, c) = "INVALID"
           /\ ~Fresh(k, c) => Tidy(k, c)
           /\ Owned(k) => /\ k.dir.owner \in Core
                          /\ Holds(k, k.dir.owner)
                          /\ k.dir.owner = IF Fresh(k, c) THEN Other(c) ELSE c
<1>1. /\ BlockInv(k) /\ WellFormed(k) /\ Covered(k) /\ k \in BlockState
      /\ Tidy(k, c) \/ Fresh(k, c)
      /\ k.l1[c].valid
  BY DEF Ready, BlockInv, WellFormed
<1>2. /\ k.l1[c] \in Line /\ k.l2[c] \in Line /\ k.llc \in Data
      /\ k.l1[Other(c)] \in Line /\ k.l2[Other(c)] \in Line
  BY <1>1, BlockParts, OtherTwice
<1>3. /\ k.l2[c].valid
      /\ readBlockMESI(k, c) = k.l1[c].MESI
      /\ dataTrans(k, c) = k.l1[c].data
  BY <1>1 DEF Tidy, Fresh, readBlockMESI, dataTrans, Copy
<1>4. Fresh(k, c) <=> readBlockMESI(k, c) = "INVALID"
  BY <1>1, <1>3 DEF Fresh, Tidy
<1>5. ASSUME Owned(k)
      PROVE  /\ k.dir.owner \in Core
             /\ Holds(k, k.dir.owner)
             /\ k.dir.owner = IF Fresh(k, c) THEN Other(c) ELSE c
  <2>1. k.dir.owner \in Core /\ Holds(k, k.dir.owner)
        /\ readBlockMESI(k, Other(k.dir.owner)) = "INVALID"
    BY <1>1, <1>5 DEF Covered, Ready
  <2>2. CASE Fresh(k, c)
    BY <1>5, <2>1, <2>2, OtherTwice DEF Ready
  <2>3. CASE ~Fresh(k, c)
    BY <1>4, <2>1, <2>3, OtherTwice
  <2>. QED
    BY <2>1, <2>2, <2>3
<1>. QED
  BY <1>1, <1>2, <1>3, <1>4, <1>5

\* A read brings the bytes of the block, and leaves them what they are.
LEMMA OwnReadSettled ==
    ASSUME NEW k, NEW c \in Core, Ready(k, c), NEW r, r = OwnRead(k, c)
    PROVE  /\ Settled(r) /\ Truth(r) = Truth(k) /\ dataTrans(r, c) = Truth(k)
           /\ \A e \in Core : r.l1[e].valid => k.l1[e].valid
<1> DEFINE o == Other(c)
           data == dataTrans(k, o)
<1>1. /\ BlockInv(k) /\ WellFormed(k) /\ Covered(k) /\ k \in BlockState
      /\ k.l1[c] \in Line /\ k.l2[c] \in Line /\ k.llc \in Data
      /\ k.l1[o] \in Line /\ k.l2[o] \in Line
      /\ k.l1[c].valid /\ k.l2[c].valid
      /\ readBlockMESI(k, c) = k.l1[c].MESI
      /\ dataTrans(k, c) = k.l1[c].data
      /\ Fresh(k, c) <=> readBlockMESI(k, c) = "INVALID"
      /\ ~Fresh(k, c) => Tidy(k, c)
      /\ Owned(k) => /\ k.dir.owner \in Core
                     /\ Holds(k, k.dir.owner)
                     /\ k.dir.owner = IF Fresh(k, c) THEN o ELSE c
  BY ReadyIs
<1>2. Tidy(k, o) /\ SharersMatch(k) /\ o \in Core /\ Holds(k, c)
  BY <1>1, OtherTwice DEF Ready, Holds
<1>3. BlockInv(r)
  BY <1>1, <1>2, OwnReadKeeps
<1>4. CASE ~Fresh(k, c)
  <2>1. r = k
    BY <1>1, <1>4 DEF OwnRead, DirRead
  <2>2. dataTrans(k, c) = Truth(k)
    <3>1. CASE Owned(k)
      BY <1>1, <1>4, <3>1 DEF Truth
    <3>2. CASE ~Owned(k)
      <4>1. k.dir.MESI = "SHARED"
        BY <1>1, <1>4, <3>2, DirMESI DEF Covered
      <4>. QED
        BY <1>2, <3>2, <4>1 DEF SharersMatch, Truth
    <3>. QED
      BY <3>1, <3>2
  <2>. QED
    BY <1>1, <1>2, <1>4, <2>1, <2>2, OtherTwice DEF Settled
<1>5. CASE Fresh(k, c) /\ Owned(k)
  <2> DEFINE k1 == [k EXCEPT !.llc = data]
             k2 == setBlockMESI(k1, o, "SHARED")
             k3 == SetDir(k2, "SHARED", o, BothCores)
             k4 == setdata(k3, c, data)
             k5 == setBlockMESI(k4, c, "SHARED")
  <2>1. k.dir.owner = o /\ Holds(k, o) /\ data \in Data
    BY <1>1, <1>2, <1>5, CopyType
  <2>2. readBlockMESI(k, o) \in {"MODIFIED", "EXCLUSIVE"}
    <3>1. readBlockMESI(k, o) # "INVALID"
      BY <1>2, <2>1, DeadIsEmpty
    <3>2. readBlockMESI(k, o) # "SHARED"
      BY <1>1, <1>5, <2>1 DEF Covered
    <3>. QED
      BY <1>1, <1>2, <3>1, <3>2, CopyType DEF MESI
  <2>3. r = k5
    BY <1>1, <1>5, <2>1, <2>2 DEF OwnRead, DirRead, OtherRead, Owned
  <2>4. /\ k1 \in BlockState /\ k1.llc = data /\ k1.dir = k.dir
        /\ k1.l1 = k.l1 /\ k1.l2 = k.l2
    BY <1>1, <2>1 DEF BlockState
  <2> HIDE DEF k1, data
  <2>5. "SHARED" \in MESI /\ o \in Core \cup {Nobody}
        /\ BothCores \in Core \cup {Nobody, BothCores} /\ Other(o) = c
    BY <1>2, OtherTwice DEF MESI
  <2>6. /\ k2 \in BlockState
        /\ k2.l1[o] = Mark(k.l1[o], "SHARED") /\ k2.l2[o] = Mark(k.l2[o], "SHARED")
        /\ k2.l1[c] = k.l1[c] /\ k2.l2[c] = k.l2[c]
        /\ k2.llc = data
    BY <1>2, <2>4, <2>5, SetMESILines
  <2> HIDE DEF k2
  <2>7. /\ k3 \in BlockState
        /\ k3.dir = [MESI |-> "SHARED", owner |-> o, sharer |-> BothCores]
        /\ k3.l1 = k2.l1 /\ k3.l2 = k2.l2 /\ k3.llc = data
    BY <2>5, <2>6, SetDirLines
  <2> HIDE DEF k3
  <2>8. /\ k4 \in BlockState
        /\ k4.l1[c] = Load(k.l1[c], data) /\ k4.l2[c] = Load(k.l2[c], data)
        /\ k4.l1[o] = Mark(k.l1[o], "SHARED") /\ k4.l2[o] = Mark(k.l2[o], "SHARED")
        /\ k4.llc = data /\ k4.dir = k3.dir
    BY <2>1, <2>6, <2>7, SetdataLines
  <2> HIDE DEF k4
  <2>9. /\ r.l1[c] = Mark(Load(k.l1[c], data), "SHARED")
        /\ r.l2[c] = Mark(Load(k.l2[c], data), "SHARED")
        /\ r.l1[o] = Mark(k.l1[o], "SHARED") /\ r.l2[o] = Mark(k.l2[o], "SHARED")
        /\ r.llc = data /\ r.dir = k3.dir
    BY <2>3, <2>5, <2>8, SetMESILines
  <2>10. /\ Load(k.l1[c], data) \in Line /\ Load(k.l2[c], data) \in Line
         /\ Load(k.l1[c], data).valid /\ Load(k.l2[c], data).valid
         /\ ~Load(k.l1[c], data).modified /\ ~Load(k.l2[c], data).modified
         /\ Load(k.l1[c], data).data = data /\ Load(k.l2[c], data).data = data
    BY <1>1, <1>5, <2>1, LoadIs DEF Fresh
  <2>11. /\ r.l1[c].valid /\ r.l2[c].valid
         /\ ~r.l1[c].modified /\ ~r.l2[c].modified
         /\ r.l1[c].data = data /\ r.l2[c].data = data
         /\ r.l1[c].MESI = "SHARED"
    BY <2>5, <2>9, <2>10, MarkIs
  <2>12. /\ r.l1[o].valid = k.l1[o].valid /\ r.l2[o].valid = k.l2[o].valid
         /\ r.l1[o].modified = k.l1[o].modified /\ r.l2[o].modified = k.l2[o].modified
         /\ r.l1[o].data = k.l1[o].data /\ r.l2[o].data = k.l2[o].data
         /\ r.l1[o].valid => r.l1[o].MESI = "SHARED"
         /\ r.l2[o].valid => r.l2[o].MESI = "SHARED"
    BY <1>1, <2>5, <2>9, MarkIs
  <2>13. Tidy(r, c) /\ dataTrans(r, c) = data
    BY <2>9, <2>11 DEF Tidy, readBlockMESI, dataTrans, Copy
  <2>14. dataTrans(r, o) = data
    BY <2>12 DEF dataTrans, Copy, data
  <2>15. Tidy(r, o)
    <3>1. readBlockMESI(r, o) = "SHARED"
      BY <2>1, <2>12 DEF Holds, readBlockMESI, Copy
    <3>. QED
      BY <1>2, <2>9, <2>12, <2>14, <3>1 DEF Tidy
  <2>16. r.dir.MESI = "SHARED" /\ ~Owned(r)
    BY <2>7, <2>9 DEF Owned
  <2>17. SharersMatch(r)
    BY <2>9, <2>13, <2>14, OtherTwice DEF SharersMatch
  <2>18. Truth(r) = data /\ Truth(k) = data
    BY <1>5, <2>1, <2>9, <2>16 DEF Truth, data
  <2>19. \A e \in Core : r.l1[e].valid => k.l1[e].valid
    BY <1>1, <2>12, OtherTwice
  <2>. QED
    BY <1>3, <2>13, <2>15, <2>16, <2>17, <2>18, <2>19, OtherTwice DEF Settled
<1>6. ASSUME Fresh(k, c), ~Owned(k), NEW n \in BlockState, NEW mesi \in MESI,
             mesi \in {"SHARED", "EXCLUSIVE"},
             mesi = "SHARED" => k.dir.MESI = "SHARED",
             mesi = "EXCLUSIVE" => n.dir.owner = c,
             n.l1 = k.l1, n.l2 = k.l2, n.llc = k.llc, n.dir.MESI = mesi,
             r = setBlockMESI(n, c, mesi)
      PROVE  /\ Settled(r) /\ Truth(r) = Truth(k) /\ dataTrans(r, c) = Truth(k)
           /\ \A e \in Core : r.l1[e].valid => k.l1[e].valid
  <2>1. /\ r.l1[c] = Mark(k.l1[c], mesi) /\ r.l2[c] = Mark(k.l2[c], mesi)
        /\ r.l1[o] = k.l1[o] /\ r.l2[o] = k.l2[o]
        /\ r.llc = k.llc /\ r.dir = n.dir
    BY <1>6, SetMESILines
  <2>2. /\ r.l1[c].valid /\ r.l2[c].valid
        /\ ~r.l1[c].modified /\ ~r.l2[c].modified
        /\ r.l1[c].data = k.llc /\ r.l2[c].data = k.llc
        /\ r.l1[c].MESI = mesi
    BY <1>1, <1>6, <2>1, MarkIs DEF Fresh
  <2>3. Tidy(r, c) /\ dataTrans(r, c) = k.llc /\ Holds(r, c)
    BY <1>6, <2>1, <2>2 DEF Tidy, readBlockMESI, dataTrans, Copy, Holds
  <2>4. Tidy(r, o) /\ dataTrans(r, o) = dataTrans(k, o) /\ Holds(r, o) = Holds(k, o)
    BY <1>2, <2>1, SameTidy
  <2>5. Truth(k) = k.llc
    BY <1>6 DEF Truth
  <2>6. \A e \in Core : r.l1[e].valid => k.l1[e].valid
    BY <1>1, <2>1, OtherTwice
  <2>7. CASE mesi = "SHARED"
    <3>1. ~Owned(r)
      BY <1>6, <2>1, <2>7 DEF Owned
    <3>2. SharersMatch(r)
      BY <1>2, <1>6, <2>1, <2>3, <2>4, <2>7, OtherTwice DEF SharersMatch
    <3>. QED
      BY <1>3, <2>1, <2>3, <2>4, <2>5, <2>6, <3>1, <3>2, OtherTwice
         DEF Settled, Truth
  <2>8. CASE mesi = "EXCLUSIVE"
    <3>1. Owned(r) /\ r.dir.MESI # "SHARED" /\ r.dir.owner = c
      BY <1>6, <2>1, <2>8 DEF Owned
    <3>. QED
      BY <1>3, <2>1, <2>3, <2>4, <2>5, <2>6, <3>1, OtherTwice
         DEF Settled, Truth, SharersMatch
  <2>. QED
    BY <1>6, <2>7, <2>8
<1>7. /\ k.dir.owner \in Core \cup {Nobody} /\ c \in Core \cup {Nobody}
      /\ k.dir.sharer \in Core \cup {Nobody, BothCores}
      /\ BothCores \in Core \cup {Nobody, BothCores}
      /\ "SHARED" \in MESI /\ "EXCLUSIVE" \in MESI
  BY <1>1, DirMESI DEF MESI
<1>8. CASE Fresh(k, c) /\ k.dir.MESI = "SHARED"
  <2> DEFINE n == SetDir(k, "SHARED", k.dir.owner, BothCores)
  <2>1. ~Owned(k) /\ r = setBlockMESI(n, c, "SHARED")
    BY <1>1, <1>8 DEF OwnRead, DirRead, Owned
  <2>2. /\ n \in BlockState /\ n.l1 = k.l1 /\ n.l2 = k.l2 /\ n.llc = k.llc
        /\ n.dir = [MESI |-> "SHARED", owner |-> k.dir.owner, sharer |-> BothCores]
    BY <1>1, <1>7, SetDirLines
  <2> HIDE DEF n
  <2>. QED
    BY <1>6, <1>7, <1>8, <2>1, <2>2
<1>9. CASE Fresh(k, c) /\ ~Owned(k) /\ k.dir.MESI # "SHARED"
  <2> DEFINE n == SetDir(k, "EXCLUSIVE", c, k.dir.sharer)
  <2>1. r = setBlockMESI(n, c, "EXCLUSIVE")
    BY <1>1, <1>9 DEF OwnRead, DirRead
  <2>2. /\ n \in BlockState /\ n.l1 = k.l1 /\ n.l2 = k.l2 /\ n.llc = k.llc
        /\ n.dir = [MESI |-> "EXCLUSIVE", owner |-> c, sharer |-> k.dir.sharer]
    BY <1>1, <1>7, SetDirLines
  <2> HIDE DEF n
  <2>. QED
    BY <1>6, <1>7, <1>9, <2>1, <2>2
<1>. QED
  BY <1>4, <1>5, <1>8, <1>9

Empty(k, c) == /\ ~k.l1[c].valid /\ ~k.l2[c].valid
               /\ ~k.l1[c].modified /\ ~k.l2[c].modified

\* An invalidated core holds nothing.
LEMMA OtherWriteEmpties ==
    ASSUME NEW k \in BlockState, NEW c \in Core, Tidy(k, Other(c)),
           NEW r, r = OtherWrite(k, Other(c))
    PROVE  /\ r \in BlockState /\ Empty(r, Other(c))
           /\ r.l1[c] = k.l1[c] /\ r.l2[c] = k.l2[c]
           /\ r.llc = k.llc /\ r.dir = k.dir
<1>1. CASE readBlockMESI(k, Other(c)) = "INVALID"
  BY <1>1, DeadIsEmpty DEF OtherWrite, Empty
<1>2. CASE readBlockMESI(k, Other(c)) # "INVALID"
  <2>1. r = invalidateBlock(k, Other(c))
    BY <1>2 DEF OtherWrite
  <2>2. ~NoLine.valid /\ ~NoLine.modified
    BY DEF NoLine
  <2>. QED
    BY <2>1, <2>2, InvalidateLines, OtherTwice DEF Empty
<1>. QED
  BY <1>1, <1>2

\* What the directory leaves behind for a writer.
LEMMA DirWriteSettled ==
    ASSUME NEW k, NEW c \in Core, Ready(k, c),
           readBlockMESI(k, c) \in {"INVALID", "SHARED"},
           NEW r, r = DirWrite(k, c)
    PROVE  /\ r \in BlockState /\ Empty(r, Other(c))
           /\ r.l1[c] = k.l1[c] /\ r.l2[c] = k.l2[c] /\ r.llc = k.llc
           /\ r.dir.MESI = "MODIFIED" /\ r.dir.owner = c
<1> DEFINE d == Other(c)
           n == OtherWrite(k, d)
<1>1. /\ WellFormed(k) /\ Covered(k) /\ k \in BlockState
      /\ Fresh(k, c) <=> readBlockMESI(k, c) = "INVALID"
      /\ Owned(k) => /\ k.dir.owner \in Core
                     /\ k.dir.owner = IF Fresh(k, c) THEN d ELSE c
      /\ Tidy(k, d) /\ d \in Core
  BY ReadyIs, OtherTwice DEF Ready
<1>2. /\ n \in BlockState /\ Empty(n, d)
      /\ n.l1[c] = k.l1[c] /\ n.l2[c] = k.l2[c]
      /\ n.llc = k.llc /\ n.dir = k.dir
  BY <1>1, OtherWriteEmpties
<1>3. /\ "MODIFIED" \in MESI /\ c \in Core \cup {Nobody}
      /\ k.dir.sharer \in Core \cup {Nobody, BothCores}
      /\ Nobody \in Core \cup {Nobody, BothCores}
  BY <1>1, DirMESI DEF MESI
<1>4. ASSUME NEW s \in Core \cup {Nobody, BothCores}, NEW p \in BlockState,
             r = SetDir(p, "MODIFIED", c, s), Empty(p, d),
             p.l1[c] = k.l1[c], p.l2[c] = k.l2[c], p.llc = k.llc
      PROVE  /\ r \in BlockState /\ Empty(r, Other(c))
             /\ r.l1[c] = k.l1[c] /\ r.l2[c] = k.l2[c] /\ r.llc = k.llc
             /\ r.dir.MESI = "MODIFIED" /\ r.dir.owner = c
  <2>1. /\ r \in BlockState /\ r.l1 = p.l1 /\ r.l2 = p.l2 /\ r.llc = p.llc
        /\ r.dir = [MESI |-> "MODIFIED", owner |-> c, sharer |-> s]
    BY <1>3, <1>4, SetDirLines
  <2>. QED
    BY <1>4, <2>1 DEF Empty
<1> HIDE DEF n
<1>5. CASE Owned(k)
  <2>1. k.dir.owner = d
    <3>1. k.dir.owner = c => readBlockMESI(k, c) # "SHARED"
      BY <1>1, <1>5 DEF Covered
    <3>. QED
      BY <1>1, <1>5, <3>1
  <2>2. r = SetDir(n, "MODIFIED", c, k.dir.sharer)
    BY <1>5, <2>1 DEF DirWrite, Owned, n
  <2>. QED
    BY <1>2, <1>3, <1>4, <2>2
<1>6. CASE k.dir.MESI = "SHARED"
  <2>1. r = SetDir(n, "MODIFIED", c, Nobody)
    BY <1>6 DEF DirWrite, Owned, n
  <2>. QED
    BY <1>2, <1>3, <1>4, <2>1
<1>7. CASE ~Owned(k) /\ k.dir.MESI # "SHARED"
  <2>1. r = SetDir(k, "MODIFIED", c, k.dir.sharer)
    BY <1>7 DEF DirWrite
  <2>2. readBlockMESI(k, d) = "INVALID"
    BY <1>1, <1>7, DirMESI DEF Covered
  <2>3. Empty(k, d)
    BY <1>1, <2>2, DeadIsEmpty DEF Empty
  <2>. QED
    BY <1>1, <1>3, <1>4, <2>1, <2>3
<1>. QED
  BY <1>5, <1>6, <1>7

\* The bytes OwnWrite starts from: those of a MODIFIED directory's owner,
\* otherwise those the core holds or has just loaded.
Base(k, c) == IF Fresh(k, c) /\ k.dir.MESI = "MODIFIED"
              THEN dataTrans(k, k.dir.owner) ELSE k.l1[c].data

LEMMA BaseIsTruth ==
    ASSUME NEW k, NEW c \in Core, Ready(k, c),
           ~(Fresh(k, c) /\ k.dir.MESI = "EXCLUSIVE")
    PROVE  Base(k, c) = Truth(k)
<1>1. /\ BlockInv(k) /\ WellFormed(k) /\ Covered(k)
      /\ dataTrans(k, c) = k.l1[c].data
      /\ Fresh(k, c) <=> readBlockMESI(k, c) = "INVALID"
      /\ Owned(k) => k.dir.owner = IF Fresh(k, c) THEN Other(c) ELSE c
      /\ k.l1[c].valid /\ SharersMatch(k)
  BY ReadyIs DEF Ready
<1>2. CASE Owned(k)
  BY <1>1, <1>2 DEF Owned, Base, Truth
<1>3. CASE ~Owned(k) /\ Fresh(k, c)
  BY <1>1, <1>3 DEF Owned, Base, Truth, Fresh
<1>4. CASE ~Owned(k) /\ ~Fresh(k, c)
  <2>1. k.dir.MESI = "SHARED"
    BY <1>1, <1>4, DirMESI DEF Covered
  <2>. QED
    BY <1>1, <1>4, <2>1 DEF SharersMatch, Holds, Base, Truth
<1>. QED
  BY <1>2, <1>3, <1>4

LEMMA OwnWriteLines ==
    ASSUME NEW k, NEW c \in Core, Ready(k, c), NEW r, r = OwnWrite(k, c)
    PROVE  /\ r \in BlockState /\ Empty(r, Other(c))
           /\ r.l1[c].valid /\ r.l2[c].valid /\ r.l1[c].data = Base(k, c)
           /\ r.l1[c].MESI = "MODIFIED"
           /\ Owned(r) /\ r.dir.owner = c /\ r.dir.MESI # "SHARED"
<1> DEFINE d == Other(c)
           data == dataTrans(k, k.dir.owner)
           k1 == DirWrite(k, c)
<1>1. /\ WellFormed(k) /\ Covered(k) /\ k \in BlockState
      /\ k.l1[c] \in Line /\ k.l2[c] \in Line
      /\ k.l1[c].valid /\ k.l2[c].valid
      /\ Fresh(k, c) <=> readBlockMESI(k, c) = "INVALID"
      /\ Owned(k) => /\ k.dir.owner \in Core
                     /\ k.dir.owner = IF Fresh(k, c) THEN d ELSE c
      /\ Tidy(k, d) /\ d \in Core /\ "MODIFIED" \in MESI
  BY ReadyIs, OtherTwice DEF Ready, MESI
<1>2. ASSUME NEW n \in BlockState, r = setBlockMESI(n, c, "MODIFIED"),
             Empty(n, d), n.l1[c].valid, n.l2[c].valid,
             n.l1[c].data = Base(k, c),
             Owned(n), n.dir.owner = c
      PROVE  /\ r \in BlockState /\ Empty(r, Other(c))
             /\ r.l1[c].valid /\ r.l2[c].valid /\ r.l1[c].data = Base(k, c)
           /\ r.l1[c].MESI = "MODIFIED"
             /\ Owned(r) /\ r.dir.owner = c /\ r.dir.MESI # "SHARED"
  <2>1. /\ r \in BlockState
        /\ r.l1[c] = Mark(n.l1[c], "MODIFIED") /\ r.l2[c] = Mark(n.l2[c], "MODIFIED")
        /\ r.l1[d] = n.l1[d] /\ r.l2[d] = n.l2[d] /\ r.dir = n.dir
    BY <1>1, <1>2, SetMESILines
  <2>2. n.l1[c] \in Line /\ n.l2[c] \in Line
    BY <1>2, BlockParts
  <2>. QED
    BY <1>1, <1>2, <2>1, <2>2, MarkIs DEF Empty, Owned
<1>3. CASE readBlockMESI(k, c) \in {"MODIFIED", "EXCLUSIVE"}
  <2>1. r = setBlockMESI(k, c, "MODIFIED")
    BY <1>3 DEF OwnWrite
  <2>2. Owned(k)
    BY <1>1, <1>3, DirMESI DEF Covered
  <2>3. k.dir.owner = c /\ readBlockMESI(k, d) = "INVALID"
    BY <1>1, <1>3, <2>2 DEF Covered
  <2>4. Empty(k, d) /\ k.l1[c].data = Base(k, c)
    BY <1>1, <1>3, <2>3, DeadIsEmpty DEF Empty, Base
  <2>. QED
    BY <1>1, <1>2, <2>1, <2>2, <2>3, <2>4
<1>4. CASE readBlockMESI(k, c) \in {"INVALID", "SHARED"}
  <2>1. /\ k1 \in BlockState /\ Empty(k1, d)
        /\ k1.l1[c] = k.l1[c] /\ k1.l2[c] = k.l2[c] /\ k1.llc = k.llc
        /\ k1.dir.MESI = "MODIFIED" /\ k1.dir.owner = c
    BY <1>4, DirWriteSettled
  <2>2. CASE readBlockMESI(k, c) = "INVALID" /\ k.dir.MESI = "MODIFIED"
    <3> DEFINE n == setdata(k1, c, data)
    <3>1. r = setBlockMESI(n, c, "MODIFIED")
      BY <2>2 DEF OwnWrite
    <3>2. data \in Data
      BY <1>1, <2>2, CopyType DEF Owned
    <3> HIDE DEF k1, data
    <3>3. /\ n \in BlockState
          /\ n.l1[c] = Load(k.l1[c], data) /\ n.l2[c] = Load(k.l2[c], data)
          /\ n.l1[d] = k1.l1[d] /\ n.l2[d] = k1.l2[d] /\ n.dir = k1.dir
      BY <2>1, <3>2, SetdataLines
    <3> HIDE DEF n
    <3>4. n.l1[c].valid /\ n.l2[c].valid /\ n.l1[c].data = data
      BY <1>1, <3>2, <3>3, LoadIs
    <3>5. Empty(n, d) /\ Owned(n) /\ n.dir.owner = c
      BY <2>1, <3>3 DEF Empty, Owned
    <3>6. Base(k, c) = data
      BY <1>1, <2>2 DEF Base, data
    <3>. QED
      BY <1>2, <3>1, <3>3, <3>4, <3>5, <3>6
  <2>3. CASE ~(readBlockMESI(k, c) = "INVALID" /\ k.dir.MESI = "MODIFIED")
    <3>1. r = setBlockMESI(k1, c, "MODIFIED")
      BY <1>4, <2>3 DEF OwnWrite
    <3>2. Base(k, c) = k.l1[c].data
      BY <1>1, <2>3 DEF Base
    <3> HIDE DEF k1
    <3>3. Owned(k1)
      BY <2>1 DEF Owned
    <3>. QED
      BY <1>1, <1>2, <2>1, <3>1, <3>2, <3>3
  <2>. QED
    BY <2>2, <2>3
<1>. QED
  BY <1>1, <1>3, <1>4, CopyType DEF MESI

\* A write makes its core the one that holds the block, with its bytes but
\* for the one written.
LEMMA OwnWriteSettled ==
    ASSUME NEW k, NEW c \in Core, Ready(k, c), NEW i \in Offset, NEW val \in Value,
           NEW r, r = WriteByte(OwnWrite(k, c), c, i, val)
    PROVE  /\ Settled(r)
           /\ Truth(r) = [Base(k, c) EXCEPT ![i] = val]
           /\ dataTrans(r, c) = Truth(r)
           /\ \A e \in Core : r.l1[e].valid => k.l1[e].valid
<1> DEFINE d == Other(c)
           n == OwnWrite(k, c)
           l == [n.l1[c] EXCEPT !.modified = TRUE,
                                !.data = [n.l1[c].data EXCEPT ![i] = val]]
<1>1. /\ n \in BlockState /\ Empty(n, d)
      /\ n.l1[c].valid /\ n.l2[c].valid /\ n.l1[c].data = Base(k, c)
      /\ n.l1[c].MESI = "MODIFIED"
      /\ Owned(n) /\ n.dir.owner = c /\ n.dir.MESI # "SHARED"
  BY OwnWriteLines
<1>2. BlockInv(r)
  <2>1. BlockInv(k) /\ Holds(k, c)
    BY ReadyIs DEF Holds
  <2>. QED
    BY <2>1, OwnWriteKeeps, WriteByteKeeps
<1>3. r = WithLines(n, c, l, n.l2[c])
  <2>1. n.l1[c] \in Line /\ n.l2[c] \in Line
    BY <1>1, BlockParts
  <2>. QED
    BY <1>1, <2>1 DEF WriteByte, WithLines, BlockState, Line
<1> HIDE DEF n
<1>4. n.l1[c] \in Line /\ n.l2[c] \in Line /\ n.l1[c].data \in Data
  BY <1>1, BlockParts, LineParts
<1>5. [n.l1[c].data EXCEPT ![i] = val] \in Data
  BY <1>4 DEF Data
<1>6. l \in Line /\ l.valid /\ l.modified /\ l.data = [Base(k, c) EXCEPT ![i] = val]
      /\ l.MESI = n.l1[c].MESI
  BY <1>1, <1>4, <1>5 DEF Line
<1> HIDE DEF l
<1>8. /\ r.l1[c] = l /\ r.l2[c] = n.l2[c]
      /\ r.l1[d] = n.l1[d] /\ r.l2[d] = n.l2[d] /\ r.dir = n.dir
  BY <1>1, <1>3, <1>4, <1>6, WithLinesIs
<1>9. /\ dataTrans(r, c) = l.data /\ Holds(r, c)
  BY <1>6, <1>8 DEF dataTrans, Copy, Holds
<1>10. Owned(r) /\ r.dir.owner = c /\ r.dir.MESI # "SHARED"
  BY <1>1, <1>8 DEF Owned
<1>11. readBlockMESI(r, c) # "INVALID"
  BY <1>1, <1>6, <1>8 DEF readBlockMESI, Copy
<1>12. Tidy(r, c)
  BY <1>1, <1>6, <1>8, <1>9, <1>11 DEF Tidy
<1>13. Tidy(r, d)
  <2>1. readBlockMESI(r, d) = "INVALID"
    BY <1>2, <1>10 DEF BlockInv, Covered
  <2>. QED
    BY <1>1, <1>8, <2>1, EmptyTidy DEF Empty
<1>14. \A e \in Core : r.l1[e].valid => k.l1[e].valid
  BY <1>1, <1>8, ReadyIs, OtherTwice DEF Empty
<1>. QED
  BY <1>2, <1>6, <1>9, <1>10, <1>12, <1>13, <1>14, OtherTwice
     DEF Settled, Truth, SharersMatch
-----------------------------------------------------------------------------
(* Loads and replacements in an inclusive geometry.                        *)

\* The L1 is direct-mapped, its sets are unions of sets of the L2, and the
\* L2 has a way for the block of the L1, for the one that comes and for the
\* one written back.
DirectMapped ==
    /\ L1Ways = 1 /\ L2Ways > 2
    /\ \A x, y \in Block : L2Set[x] = L2Set[y] => L1Set[x] = L1Set[y]

Mates(b) == {x \in Block : L2Set[x] = L2Set[b]}
\* The L2 never has to replace anything.
Fits == \A b \in Block :
            IsFiniteSet(Mates(b)) /\ Cardinality(Mates(b)) <= L2Ways

InclusiveGeometry == DirectMapped \/ Fits

\* At most one block of its set has used the L2 since x did.
Recent(m, c, x) ==
    \E v \in Block : \A y \in m.newer[2][c][x] : L2Set[y] = L2Set[x] => y = v
\* x is the only block of its set in the L1.
Alone(m, c, x) ==
    \A y \in Block : m.blk[y].l1[c].valid /\ L1Set[y] = L1Set[x] => y = x

Sheltered(m) ==
    DirectMapped =>
        \A c \in Core, x \in Block :
            m.blk[x].l1[c].valid => Recent(m, c, x) /\ Alone(m, c, x)

\* Both variables between two accesses.
Calm(m) == /\ Good(m)
           /\ \A x \in Block : Settled(m.blk[x])
           /\ Sheltered(m)

LEMMA TouchNewer ==
    ASSUME NEW m, Good(m), NEW l \in Level, NEW c \in Core, NEW b \in Block,
           NEW r, r = Touch(m, l, c, b)
    PROVE  /\ Good(r) /\ r.blk = m.blk
           /\ r.newer[2][Other(c)] = m.newer[2][Other(c)]
           /\ l = 1 => r.newer[2] = m.newer[2]
           /\ l = 2 => /\ r.newer[2][c][b] = {}
                       /\ \A x \in Block :
                            r.newer[2][c][x] \subseteq m.newer[2][c][x] \cup {b}
<1> DEFINE n == [x \in Block |-> IF x = b THEN {} ELSE m.newer[l][c][x] \cup {b}]
<1>1. m \in [blk : [Block -> BlockState], newer : NewerType]
  BY DEF Good
<1>2. /\ n[b] = {}
      /\ \A x \in Block : n[x] \subseteq m.newer[l][c][x] \cup {b}
  OBVIOUS
<1>3. r = [m EXCEPT !.newer[l][c] = n]
  BY DEF Touch
<1>4. Good(r) /\ r.blk = m.blk
  BY TouchKeeps
<1> HIDE DEF n
<1>5. r.newer = [m.newer EXCEPT ![l] = [m.newer[l] EXCEPT ![c] = n]]
  BY <1>1, <1>3 DEF NewerType
<1>6. /\ l = 2 => r.newer[2] = [m.newer[2] EXCEPT ![c] = n]
      /\ l = 1 => r.newer[2] = m.newer[2]
      /\ l = 1 \/ l = 2
  BY <1>1, <1>5 DEF NewerType, Level
<1>7. m.newer[2] \in [Core -> [Block -> SUBSET Block]]
  BY <1>1 DEF NewerType, Level
<1>8. l = 2 => r.newer[2][c] = n /\ r.newer[2][Other(c)] = m.newer[2][Other(c)]
  BY <1>6, <1>7, OtherTwice
<1>. QED
  BY <1>2, <1>4, <1>6, <1>8

\* The L2 never replaces a block that is in the L1 above it.
LEMMA VictimIsBelow ==
    ASSUME InclusiveGeometry, NEW m, Calm(m), NEW c \in Core, NEW b \in Block,
           ~m.blk[b].l2[c].valid, NEW w \in Replace(m, 2, c, b), w # NoVictim
    PROVE  /\ w \in Block /\ w # b
           /\ m.blk[w].l2[c].valid /\ ~m.blk[w].l1[c].valid
<1> DEFINE ways == {x \in Valid(m, 2, c) : SetOf(2, x) = SetOf(2, b)}
<1>1. /\ ~(Cardinality(ways) < Ways(2)) /\ w \in ways
      /\ ways \ {w} \subseteq m.newer[2][c][w]
  BY DEF Replace
<1>2. /\ w \in Block /\ m.blk[w].l2[c].valid /\ w # b
      /\ Ways(2) = L2Ways /\ L2Ways \in Nat
      /\ \A x \in ways : x \in Block /\ L2Set[x] = L2Set[b] /\ x # b
  BY <1>1, WaysAssumption DEF Valid, SetOf, Ways
<1> HIDE DEF ways
<1>3. CASE Fits
  <2>1. IsFiniteSet(Mates(b)) /\ Cardinality(Mates(b)) <= L2Ways /\ b \in Mates(b)
    BY <1>3 DEF Fits, Mates
  <2>2. ways \subseteq Mates(b) \ {b}
    BY <1>2 DEF Mates
  <2>3. /\ IsFiniteSet(Mates(b) \ {b})
        /\ Cardinality(Mates(b) \ {b}) = Cardinality(Mates(b)) - 1
        /\ Cardinality(Mates(b)) \in Nat
    BY <2>1, FS_RemoveElement, FS_CardinalityType
  <2>4. Cardinality(ways) \in Nat /\ Cardinality(ways) <= Cardinality(Mates(b) \ {b})
    BY <2>2, <2>3, FS_Subset, FS_CardinalityType
  <2>. QED
    BY <1>1, <1>2, <2>1, <2>3, <2>4
<1>4. CASE DirectMapped
  <2>1. SUFFICES ASSUME m.blk[w].l1[c].valid PROVE FALSE
    BY <1>2
  <2>2. PICK v \in Block :
          \A y \in m.newer[2][c][w] : L2Set[y] = L2Set[w] => y = v
    BY <1>2, <1>4, <2>1 DEF Calm, Sheltered, Recent
  <2>3. ways \subseteq {w, v}
    BY <1>1, <1>2, <2>2
  <2>4. IsFiniteSet({w, v}) /\ Cardinality({w, v}) <= 2 /\ Cardinality({w, v}) \in Nat
    <3> DEFINE one == {w}
    <3>1. IsFiniteSet(one) /\ Cardinality(one) = 1 /\ {w, v} = one \cup {v}
      BY FS_Singleton
    <3> HIDE DEF one
    <3>2. /\ IsFiniteSet(one \cup {v})
          /\ Cardinality(one \cup {v}) =
                IF v \in one THEN Cardinality(one) ELSE Cardinality(one) + 1
      BY <3>1, FS_AddElement
    <3>. QED
      BY <3>1, <3>2
  <2>5. Cardinality(ways) \in Nat /\ Cardinality(ways) <= Cardinality({w, v})
    BY <2>3, <2>4, FS_Subset, FS_CardinalityType
  <2>. QED
    BY <1>1, <1>2, <1>4, <2>4, <2>5 DEF DirectMapped
<1>. QED
  BY <1>3, <1>4 DEF InclusiveGeometry

\* What an access of core c does to a block that is not the one it wants.
Passed(k, r, c) ==
    \/ r = k
    \/ r = EvictL2(k, c) /\ ~k.l1[c].valid /\ k.l2[c].valid
    \/ r = EvictL1(k, c) /\ k.l1[c].valid

LEMMA PassedSettled ==
    ASSUME NEW k, Settled(k), NEW c \in Core, NEW r, Passed(k, r, c)
    PROVE  /\ Settled(r) /\ Truth(r) = Truth(k)
           /\ \A e \in Core : r.l1[e].valid => k.l1[e].valid
<1>1. CASE r = k
  BY <1>1
<1>2. CASE r = EvictL2(k, c) /\ ~k.l1[c].valid /\ k.l2[c].valid
  BY <1>2, EvictL2Settled
<1>3. CASE r = EvictL1(k, c) /\ k.l1[c].valid
  <2>1. /\ Settled(r) /\ Truth(r) = Truth(k)
        /\ ~r.l1[c].valid /\ r.l1[Other(c)] = k.l1[Other(c)]
    BY <1>3, EvictL1Settled
  <2>. QED
    BY <2>1, OtherTwice
<1>. QED
  BY <1>1, <1>2, <1>3 DEF Passed

\* The block as the L2 holds it once it has loaded it.
InL2(k, c) == IF k.l2[c].valid THEN k
              ELSE [k EXCEPT !.l2[c] = Fill("INVALID", k.llc)]

LEMMA LoadL2Effect ==
    ASSUME InclusiveGeometry, NEW m, Calm(m), NEW c \in Core, NEW b \in Block,
           ~m.blk[b].l1[c].valid, NEW n \in LoadL2(m, c, b)
    PROVE  /\ Good(n)
           /\ n.blk[b] = InL2(m.blk[b], c)
           /\ \A x \in Block \ {b} :
                \/ n.blk[x] = m.blk[x]
                \/ /\ n.blk[x] = EvictL2(m.blk[x], c)
                   /\ ~m.blk[x].l1[c].valid /\ m.blk[x].l2[c].valid
           /\ n.newer[2][c][b] = {}
           /\ \A x \in Block : n.newer[2][c][x] \subseteq m.newer[2][c][x] \cup {b}
           /\ n.newer[2][Other(c)] = m.newer[2][Other(c)]
<1>1. Good(n) /\ 2 \in Level /\ Good(m)
  BY LoadL2Keeps DEF Calm, Level
<1>2. CASE m.blk[b].l2[c].valid
  <2>1. n = Touch(m, 2, c, b) /\ InL2(m.blk[b], c) = m.blk[b]
    BY <1>2 DEF LoadL2, InL2
  <2>. QED
    BY <1>1, <2>1, TouchNewer
<1>3. CASE ~m.blk[b].l2[c].valid
  <2>1. PICK r \in MakeRoomL2(m, c, b) :
          n = Touch([r EXCEPT !.blk[b].l2[c] = Fill("INVALID", r.blk[b].llc)],
                    2, c, b)
    BY <1>3 DEF LoadL2
  <2>2. Good(r) /\ r.blk[b] = m.blk[b] /\ r.newer = m.newer
    BY <1>1, <1>3, MakeRoomL2Keeps
  <2>3. \A x \in Block \ {b} :
            \/ r.blk[x] = m.blk[x]
            \/ /\ r.blk[x] = EvictL2(m.blk[x], c)
               /\ ~m.blk[x].l1[c].valid /\ m.blk[x].l2[c].valid
    <3>1. PICK w \in Replace(m, 2, c, b) :
            r = IF w = NoVictim THEN m ELSE [m EXCEPT !.blk[w] = EvictL2(@, c)]
      BY DEF MakeRoomL2
    <3>2. CASE w = NoVictim
      BY <3>1, <3>2
    <3>3. CASE w # NoVictim
      <4>1. w \in Block /\ m.blk[w].l2[c].valid /\ ~m.blk[w].l1[c].valid
        BY <1>3, <3>3, VictimIsBelow
      <4>2. r.blk = [m.blk EXCEPT ![w] = EvictL2(m.blk[w], c)]
        BY <1>1, <3>1, <3>3 DEF Good
      <4>. QED
        BY <1>1, <4>1, <4>2 DEF Good
    <3>. QED
      BY <3>2, <3>3
  <2> DEFINE k == [r.blk[b] EXCEPT !.l2[c] = Fill("INVALID", r.blk[b].llc)]
             s == Put(r, b, k)
  <2>4. k = InL2(m.blk[b], c)
    BY <1>3, <2>2 DEF InL2
  <2>5. n = Touch(s, 2, c, b)
    BY <2>1, <2>2 DEF Good, Put
  <2>6. BlockInv(k)
    <3>1. BlockInv(r.blk[b]) /\ r.blk[b].llc \in Data
      BY <2>2 DEF Good, BlockInv, WellFormed, BlockState
    <3>. QED
      BY <1>3, <2>2, <3>1, FillL2Keeps
  <2> HIDE DEF k
  <2>7. /\ Good(s) /\ s.newer = m.newer /\ s.blk[b] = k
        /\ \A x \in Block : x # b => s.blk[x] = r.blk[x]
    BY <2>2, <2>6, StoreBlock
  <2> HIDE DEF s
  <2>8. /\ n.blk = s.blk /\ n.newer[2][c][b] = {}
        /\ n.newer[2][Other(c)] = m.newer[2][Other(c)]
        /\ \A x \in Block : n.newer[2][c][x] \subseteq m.newer[2][c][x] \cup {b}
    BY <1>1, <2>5, <2>7, TouchNewer
  <2>. QED
    BY <1>1, <2>3, <2>4, <2>7, <2>8
<1>. QED
  BY <1>2, <1>3

\* The L1's victim, or NoVictim, and what making room for b leaves.
LEMMA MakeRoomL1Effect ==
    ASSUME NEW m, Good(m), NEW c \in Core, NEW b \in Block,
           ~m.blk[b].l1[c].valid,
           \A x \in Block : m.blk[x].l1[c].valid => m.blk[x].l2[c].valid,
           DirectMapped => \A x \in Block :
                                m.blk[x].l1[c].valid => Alone(m, c, x),
           NEW r \in MakeRoomL1(m, c, b)
    PROVE  \E v \in Block \cup {NoVictim} :
             /\ v \in Block => m.blk[v].l1[c].valid /\ L1Set[v] = L1Set[b]
             /\ DirectMapped => \A x \in Block :
                    m.blk[x].l1[c].valid /\ L1Set[x] = L1Set[b] => x = v
             /\ \A x \in Block : r.blk[x] = IF x = v THEN EvictL1(m.blk[x], c)
                                                     ELSE m.blk[x]
             /\ \A x \in Block : r.newer[2][c][x] \subseteq m.newer[2][c][x] \cup {v}
             /\ r.newer[2][Other(c)] = m.newer[2][Other(c)]
<1> DEFINE ways == {x \in Valid(m, 1, c) : SetOf(1, x) = SetOf(1, b)}
<1>1. PICK v \in Replace(m, 1, c, b) :
        r \in IF v = NoVictim THEN {m}
              ELSE {[s EXCEPT !.blk[v] = EvictL1(@, c)] : s \in ReachL2(m, c, v)}
  BY DEF MakeRoomL1
<1>2. ways = {x \in Block : m.blk[x].l1[c].valid /\ L1Set[x] = L1Set[b]}
  BY DEF Valid, SetOf
<1>3. NoVictim \notin Block
  BY VictimAssumption
<1> HIDE DEF ways
<1>4. CASE v = NoVictim
  <2>1. Cardinality(ways) < L1Ways
    BY <1>1, <1>2, <1>3, <1>4 DEF Replace, Ways, ways
  <2>2. ASSUME DirectMapped, NEW x \in ways PROVE FALSE
    <3>1. ways = {x}
      BY <1>2, <2>2 DEF Alone
    <3>2. Cardinality(ways) = 1
      BY <3>1, FS_Singleton
    <3>. QED
      BY <2>1, <2>2, <3>2 DEF DirectMapped
  <2>3. r = m
    BY <1>1, <1>4
  <2>. QED
    BY <1>2, <1>3, <1>4, <2>2, <2>3
<1>5. CASE v # NoVictim
  <2>1. v \in ways
    BY <1>1, <1>5 DEF Replace, ways
  <2>2. v \in Block /\ m.blk[v].l1[c].valid /\ L1Set[v] = L1Set[b] /\ m.blk[v].l2[c].valid
    BY <1>2, <2>1
  <2>3. DirectMapped => \A x \in Block :
            m.blk[x].l1[c].valid /\ L1Set[x] = L1Set[b] => x = v
    BY <2>2 DEF Alone
  <2>4. PICK s \in ReachL2(m, c, v) : r = [s EXCEPT !.blk[v] = EvictL1(@, c)]
    BY <1>1, <1>5
  <2>5. s = m \/ s = Touch(m, 2, c, v)
    BY <2>2, <2>4 DEF ReachL2
  <2>6. /\ Good(s) /\ s.blk = m.blk
        /\ s.newer[2][Other(c)] = m.newer[2][Other(c)]
        /\ \A x \in Block : s.newer[2][c][x] \subseteq m.newer[2][c][x] \cup {v}
    <3>1. 2 \in Level
      BY DEF Level
    <3>2. CASE s = m
      BY <3>2
    <3>3. CASE s = Touch(m, 2, c, v)
      BY <2>2, <3>1, <3>3, TouchNewer
    <3>. QED
      BY <2>5, <3>2, <3>3
  <2>7. /\ r.newer = s.newer
        /\ r.blk = [s.blk EXCEPT ![v] = EvictL1(s.blk[v], c)]
    BY <2>4, <2>6 DEF Good
  <2>8. \A x \in Block : r.blk[x] = IF x = v THEN EvictL1(m.blk[x], c) ELSE m.blk[x]
    BY <2>2, <2>6, <2>7 DEF Good
  <2>. QED
    BY <2>2, <2>3, <2>6, <2>7, <2>8
<1>. QED
  BY <1>4, <1>5

\* The two loads of a miss are the fetch of a block.
LEMMA LoadsAreFetch ==
    ASSUME NEW k \in BlockState, NEW c \in Core, ~k.l1[c].valid,
           NEW n, n = InL2(k, c)
    PROVE  [n EXCEPT !.l1[c] = Fill(n.l2[c].MESI, n.l2[c].data)] = Fetched(k, c)
<1>1. CASE k.l2[c].valid
  BY <1>1 DEF InL2, Fetched, BlockState
<1>2. CASE ~k.l2[c].valid
  <2> DEFINE line == Fill("INVALID", k.llc)
  <2>1. /\ n = [k EXCEPT !.l2[c] = line]
        /\ Fetched(k, c) = [k EXCEPT !.l2[c] = line,
                                     !.l1[c] = Fill(line.MESI, line.data)]
    BY <1>2 DEF InL2, Fetched
  <2> HIDE DEF line
  <2>2. n.l2[c] = line
    BY <2>1 DEF BlockState
  <2>. QED
    BY <2>1, <2>2 DEF BlockState
<1>. QED
  BY <1>1, <1>2

\* A miss fetches b, and evicts the blocks it evicts as between accesses.
LEMMA LoadL1Effect ==
    ASSUME InclusiveGeometry, NEW m, Calm(m), NEW c \in Core, NEW b \in Block,
           ~m.blk[b].l1[c].valid, NEW q \in LoadL1(m, c, b)
    PROVE  /\ q.blk[b] = Fetched(m.blk[b], c)
           /\ \A x \in Block \ {b} : Passed(m.blk[x], q.blk[x], c)
           /\ Sheltered(q)
<1>1. PICK n \in LoadL2(m, c, b) :
        q \in {[r EXCEPT !.blk[b].l1[c] =
                    Fill(n.blk[b].l2[c].MESI, n.blk[b].l2[c].data)] :
                r \in MakeRoomL1(n, c, b)}
  BY DEF LoadL1
<1>2. /\ Good(n)
      /\ n.blk[b] = InL2(m.blk[b], c)
      /\ \A x \in Block \ {b} :
            \/ n.blk[x] = m.blk[x]
            \/ /\ n.blk[x] = EvictL2(m.blk[x], c)
               /\ ~m.blk[x].l1[c].valid /\ m.blk[x].l2[c].valid
      /\ n.newer[2][c][b] = {}
      /\ \A x \in Block : n.newer[2][c][x] \subseteq m.newer[2][c][x] \cup {b}
      /\ n.newer[2][Other(c)] = m.newer[2][Other(c)]
  BY LoadL2Effect
<1>3. n.blk[b].l2[c].valid /\ ~n.blk[b].l1[c].valid
  BY LoadL2Keeps DEF Calm
<1>4. PICK r \in MakeRoomL1(n, c, b) :
        q = [r EXCEPT !.blk[b].l1[c] =
                Fill(n.blk[b].l2[c].MESI, n.blk[b].l2[c].data)]
  BY <1>1
<1>5. \A x \in Block : /\ Settled(m.blk[x])
                       /\ m.blk[x].l1[c].valid => m.blk[x].l2[c].valid
  BY DEF Calm, Settled, Tidy
\* Stage 1: the L1s are as they were.
<1>6. \A x \in Block : /\ x # b => Settled(n.blk[x])
                       /\ \A e \in Core : n.blk[x].l1[e].valid => m.blk[x].l1[e].valid
  <2>1. ASSUME NEW x \in Block, x # b
        PROVE  /\ Settled(n.blk[x])
               /\ \A e \in Core : n.blk[x].l1[e].valid => m.blk[x].l1[e].valid
    <3>1. Passed(m.blk[x], n.blk[x], c)
      BY <1>2, <2>1 DEF Passed
    <3>. QED
      BY <1>5, <3>1, PassedSettled
  <2>2. \A e \in Core : n.blk[b].l1[e].valid => m.blk[b].l1[e].valid
    <3>1. m.blk[b] \in BlockState
      BY DEF Calm, Good, BlockInv, WellFormed
    <3>. QED
      BY <1>2, <3>1 DEF InL2, BlockState
  <2>. QED
    BY <2>1, <2>2
<1>7. \A x \in Block : n.blk[x].l1[c].valid => x # b /\ n.blk[x].l2[c].valid
  BY <1>3, <1>6 DEF Settled, Tidy
<1>8. DirectMapped => \A x \in Block : n.blk[x].l1[c].valid => Alone(n, c, x)
  BY <1>6 DEF Calm, Sheltered, Alone
\* Stage 2: the victim of the L1.
<1>9. PICK v \in Block \cup {NoVictim} :
             /\ v \in Block => n.blk[v].l1[c].valid /\ L1Set[v] = L1Set[b]
             /\ DirectMapped => \A x \in Block :
                    n.blk[x].l1[c].valid /\ L1Set[x] = L1Set[b] => x = v
             /\ \A x \in Block : r.blk[x] = IF x = v THEN EvictL1(n.blk[x], c)
                                                     ELSE n.blk[x]
             /\ \A x \in Block : r.newer[2][c][x] \subseteq n.newer[2][c][x] \cup {v}
             /\ r.newer[2][Other(c)] = n.newer[2][Other(c)]
  BY <1>2, <1>3, <1>7, <1>8, MakeRoomL1Effect
<1>10. Good(r) /\ r.blk[b] = n.blk[b] /\ v # b
  BY <1>2, <1>3, <1>9, MakeRoomL1Keeps
<1> DEFINE k == [r.blk[b] EXCEPT !.l1[c] = Fill(n.blk[b].l2[c].MESI,
                                                n.blk[b].l2[c].data)]
\* Stage 3: the line is filled.
<1>11. /\ q.newer = r.newer /\ q.blk[b] = k
       /\ \A x \in Block \ {b} : q.blk[x] = r.blk[x]
  BY <1>4, <1>10 DEF Good
<1>12. k = Fetched(m.blk[b], c)
  <2>1. m.blk[b] \in BlockState
    BY DEF Calm, Good, BlockInv, WellFormed
  <2>. QED
    BY <1>2, <1>10, <2>1, LoadsAreFetch
<1>13. \A x \in Block \ {b} : Passed(m.blk[x], q.blk[x], c)
  <2>. TAKE x \in Block \ {b}
  <2>1. CASE x = v
    <3>1. n.blk[x].l1[c].valid /\ q.blk[x] = EvictL1(n.blk[x], c)
      BY <1>9, <1>11, <2>1
    <3>2. m.blk[x].l1[c].valid
      BY <1>6, <3>1
    <3>. QED
      BY <1>2, <3>1, <3>2 DEF Passed
  <2>2. CASE x # v
    BY <1>2, <1>9, <1>11, <2>2 DEF Passed
  <2>. QED
    BY <2>1, <2>2
<1>14. Sheltered(q)
  <2>1. SUFFICES ASSUME DirectMapped, NEW e \in Core, NEW x \in Block,
                        q.blk[x].l1[e].valid
                 PROVE  Recent(q, e, x) /\ Alone(q, e, x)
    BY DEF Sheltered
  <2>2. \A y \in Block \ {b}, d \in Core :
            q.blk[y].l1[d].valid => m.blk[y].l1[d].valid
    BY <1>5, <1>13, PassedSettled
  <2>3. \A d \in Core : d # c => (k.l1[d].valid => m.blk[b].l1[d].valid)
    <3>1. r.blk[b] \in BlockState
      BY <1>10 DEF Good, BlockInv, WellFormed
    <3>. QED
      BY <1>6, <1>10, <3>1 DEF BlockState
  <2>4. \A d \in Core, y \in Block : m.blk[y].l1[d].valid =>
            Recent(m, d, y) /\ Alone(m, d, y)
    BY <2>1 DEF Calm, Sheltered
  <2>5. CASE e # c
    <3>1. /\ m.blk[x].l1[e].valid
          /\ \A y \in Block : q.blk[y].l1[e].valid => m.blk[y].l1[e].valid
      BY <1>11, <2>1, <2>2, <2>3, <2>5
    <3>2. q.newer[2][e] = m.newer[2][e]
      BY <1>2, <1>9, <1>11, <2>5, OtherTwice
    <3>. QED
      BY <2>4, <3>1, <3>2 DEF Recent, Alone
  \* The blocks of b's set of the L1 have left it.
  <2>6. \A y \in Block \ {b} : q.blk[y].l1[c].valid => L1Set[y] # L1Set[b]
    <3>1. SUFFICES ASSUME NEW y \in Block \ {b}, q.blk[y].l1[c].valid,
                          L1Set[y] = L1Set[b]
                   PROVE  FALSE
      OBVIOUS
    <3>2. y # v => n.blk[y].l1[c].valid
      BY <1>9, <1>11, <3>1
    <3>3. y = v
      BY <1>9, <2>1, <3>1, <3>2
    <3>4. n.blk[v].l1[c].valid /\ q.blk[v] = EvictL1(n.blk[v], c)
      BY <1>9, <1>11, <3>1, <3>3
    <3>5. ~q.blk[v].l1[c].valid
      BY <1>6, <3>1, <3>3, <3>4, EvictL1Settled
    <3>. QED
      BY <3>1, <3>3, <3>5
  <2>7. CASE e = c /\ x = b
    <3>1. Alone(q, e, x)
      BY <2>6, <2>7 DEF Alone
    <3>2. q.newer[2][c][b] \subseteq {v}
      BY <1>2, <1>9, <1>11
    <3>3. q.newer[2][c][b] \subseteq Block
      BY <1>10, <1>11 DEF Good, NewerType, Level
    <3>4. \E w \in Block : \A y \in q.newer[2][c][b] : y = w
      BY <3>2, <3>3
    <3>. QED
      BY <2>7, <3>1, <3>4 DEF Recent
  <2>8. CASE e = c /\ x # b
    <3>1. m.blk[x].l1[c].valid /\ L1Set[x] # L1Set[b]
      BY <2>1, <2>2, <2>6, <2>8
    <3>2. L2Set[x] # L2Set[b] /\ (v \in Block => L2Set[x] # L2Set[v])
      BY <1>9, <2>1, <3>1 DEF DirectMapped
    <3>3. PICK w \in Block :
            \A y \in m.newer[2][c][x] : L2Set[y] = L2Set[x] => y = w
      BY <2>4, <3>1 DEF Recent
    <3>4. q.newer[2][c][x] \subseteq m.newer[2][c][x] \cup {b, v}
      BY <1>2, <1>9, <1>11
    <3>5. q.newer[2][c][x] \subseteq Block
      BY <1>10, <1>11 DEF Good, NewerType, Level
    <3>6. \A y \in q.newer[2][c][x] : L2Set[y] = L2Set[x] => y = w
      BY <3>2, <3>3, <3>4, <3>5
    <3>7. Recent(q, c, x)
      BY <3>6 DEF Recent
    <3>8. Alone(q, c, x)
      BY <2>2, <2>4, <2>6, <3>1 DEF Alone
    <3>. QED
      BY <2>8, <3>7, <3>8
  <2>. QED
    BY <2>5, <2>7, <2>8
<1>. QED
  BY <1>11, <1>12, <1>13, <1>14

LEMMA FetchEffect ==
    ASSUME InclusiveGeometry, Calm([blk |-> blk, newer |-> newer]),
           NEW c \in Core, NEW b \in Block, NEW q \in Fetch(c, b)
    PROVE  /\ q.blk[b] = Fetched(blk[b], c)
           /\ \A x \in Block \ {b} : Passed(blk[x], q.blk[x], c)
           /\ Sheltered(q)
<1> DEFINE m == [blk |-> blk, newer |-> newer]
<1>1. Calm(m) /\ m.blk = blk /\ 1 \in Level
  BY DEF Level
<1>2. PICK r \in IF blk[b].l1[c].valid THEN {m} ELSE LoadL1(m, c, b) :
        q = Touch(r, 1, c, b)
  BY DEF Fetch
<1> HIDE DEF m
<1>3. /\ Good(r) /\ r.blk[b] = Fetched(blk[b], c)
      /\ \A x \in Block \ {b} : Passed(blk[x], r.blk[x], c)
      /\ Sheltered(r)
  <2>1. CASE blk[b].l1[c].valid
    BY <1>1, <1>2, <2>1 DEF Calm, Fetched, Passed
  <2>2. CASE ~blk[b].l1[c].valid
    BY <1>1, <1>2, <2>2, LoadL1Effect, LoadL1Keeps DEF Calm
  <2>. QED
    BY <2>1, <2>2
<1>4. q.blk = r.blk /\ q.newer[2] = r.newer[2]
  BY <1>1, <1>2, <1>3, TouchNewer
<1>. QED
  BY <1>3, <1>4 DEF Sheltered, Recent, Alone
-----------------------------------------------------------------------------
(* The invariant of the inclusive geometry, and what follows from it.      *)

CalmInv == Calm([blk |-> blk, newer |-> newer]) /\ halted \in BOOLEAN

LEMMA InitCalm == Init => CalmInv
<1>1. SUFFICES ASSUME Init PROVE CalmInv
  OBVIOUS
<1>2. IndInv
  BY <1>1, InitInd
<1>3. ASSUME NEW b \in Block
      PROVE  /\ blk[b].dir.MESI = "INVALID" /\ BlockInv(blk[b])
             /\ \A c \in Core : blk[b].l1[c] = NoLine /\ blk[b].l2[c] = NoLine
  BY <1>1, <1>2 DEF Init, IndInv, Good
<1>4. ~NoLine.valid /\ ~NoLine.modified /\ NoLine.MESI = "INVALID"
  BY DEF NoLine
<1>5. ASSUME NEW b \in Block PROVE Settled(blk[b])
  <2>1. \A c \in Core : readBlockMESI(blk[b], c) = "INVALID"
    BY <1>3, <1>4 DEF readBlockMESI, Copy
  <2>2. \A c \in Core : Tidy(blk[b], c)
    BY <1>3, <1>4, <2>1, EmptyTidy
  <2>. QED
    BY <1>3, <2>2 DEF Settled, Owned, SharersMatch
<1>6. Sheltered([blk |-> blk, newer |-> newer])
  BY <1>3, <1>4 DEF Sheltered
<1>. QED
  BY <1>2, <1>5, <1>6 DEF CalmInv, Calm, IndInv

\* What an access stores is calm when the block it leaves behind is settled
\* and in no L1 it was not in; the other blocks keep their bytes.
LEMMA StoreCalm ==
    ASSUME InclusiveGeometry, CalmInv, NEW c \in Core, NEW b \in Block,
           NEW q \in Fetch(c, b), NEW k, Settled(k),
           \A e \in Core : k.l1[e].valid => q.blk[b].l1[e].valid,
           Store(Put(q, b, k))
    PROVE  /\ CalmInv'
           /\ blk' \in [Block -> BlockState] /\ blk'[b] = k
           /\ \A x \in Block \ {b} : Truth(blk'[x]) = Truth(blk[x])
<1>1. /\ IndInv /\ Good(q)
      /\ \A x \in Block : Settled(blk[x])
  <2>1. IndInv
    BY DEF CalmInv, Calm, IndInv
  <2>. QED
    BY <2>1, FetchKeeps DEF CalmInv, Calm
<1>2. /\ \A x \in Block \ {b} : Passed(blk[x], q.blk[x], c)
      /\ Sheltered(q)
  BY FetchEffect DEF CalmInv
<1>3. BlockInv(k)
  BY DEF Settled
<1>4. IndInv'
  BY <1>1, <1>3, StoreKeeps
<1> DEFINE p == Put(q, b, k)
<1>5. /\ Good(p) /\ p.newer = q.newer /\ p.blk[b] = k
      /\ \A x \in Block : x # b => p.blk[x] = q.blk[x]
  BY <1>1, <1>3, StoreBlock
<1>6. blk' = p.blk /\ newer' = Forget(p) /\ halted' = halted
  BY DEF Store
<1> HIDE DEF p
<1>7. /\ blk'[b] = k
      /\ \A x \in Block \ {b} : blk'[x] = q.blk[x]
  BY <1>5, <1>6
<1>8. \A x \in Block \ {b} : Settled(blk'[x]) /\ Truth(blk'[x]) = Truth(blk[x])
  BY <1>1, <1>2, <1>7, PassedSettled
<1>9. \A x \in Block : Settled(blk'[x])
  BY <1>7, <1>8
<1>10. \A x \in Block, e \in Core : blk'[x].l1[e].valid => q.blk[x].l1[e].valid
  BY <1>7
<1>11. \A x \in Block, e \in Core : newer'[2][e][x] \subseteq q.newer[2][e][x]
  BY <1>5, <1>6 DEF Forget, Level
<1>12. Sheltered([blk |-> blk', newer |-> newer'])
  <2>1. SUFFICES ASSUME DirectMapped, NEW e \in Core, NEW x \in Block,
                        blk'[x].l1[e].valid
                 PROVE  /\ Recent([blk |-> blk', newer |-> newer'], e, x)
                        /\ Alone([blk |-> blk', newer |-> newer'], e, x)
    BY DEF Sheltered
  <2>2. Recent(q, e, x) /\ Alone(q, e, x)
    BY <1>2, <1>10, <2>1 DEF Sheltered
  <2>. QED
    BY <1>10, <1>11, <2>2 DEF Recent, Alone
<1>13. CalmInv'
  BY <1>4, <1>9, <1>12 DEF CalmInv, Calm, IndInv
<1>. QED
  BY <1>4, <1>7, <1>8, <1>13 DEF IndInv, Good

\* Both cores see the bytes of a settled block.
LEMMA SeenIsTruth ==
    ASSUME CalmInv, NEW c \in Core, NEW b \in Block
    PROVE  Seen(c, b) = Truth(blk[b]) /\ Truth(blk[b]) \in Data
<1>1. Settled(blk[b])
  BY DEF CalmInv, Calm
<1>2. Seen(c, b) = Truth(blk[b])
  BY <1>1, FetchedReady, OwnReadSettled DEF Seen
<1>3. Truth(blk[b]) \in Data
  BY <1>1, CopyType
     DEF Settled, BlockInv, Covered, WellFormed, BlockState, Truth
<1>. QED
  BY <1>2, <1>3

\* A read brings a block in and changes no byte.
LEMMA ReadStep ==
    ASSUME InclusiveGeometry, CalmInv, NEW c \in Core, NEW b \in Block,
           getByte(c, b)
    PROVE  CalmInv' /\ \A x \in Block : Truth(blk'[x]) = Truth(blk[x])
<1>1. PICK q \in Fetch(c, b) : Store([q EXCEPT !.blk[b] = OwnRead(@, c)])
  BY DEF getByte
<1>2. Settled(blk[b]) /\ q.blk[b] = Fetched(blk[b], c)
  BY FetchEffect DEF CalmInv, Calm
<1>3. Ready(q.blk[b], c) /\ Truth(q.blk[b]) = Truth(blk[b])
  BY <1>2, FetchedReady
<1> DEFINE k == OwnRead(q.blk[b], c)
<1>4. /\ Settled(k) /\ Truth(k) = Truth(blk[b])
      /\ \A e \in Core : k.l1[e].valid => q.blk[b].l1[e].valid
  BY <1>3, OwnReadSettled
<1>5. Store(Put(q, b, k))
  BY <1>1 DEF Put
<1> HIDE DEF k
<1>6. /\ CalmInv' /\ blk'[b] = k
      /\ \A x \in Block \ {b} : Truth(blk'[x]) = Truth(blk[x])
  BY <1>4, <1>5, StoreCalm
<1>. QED
  BY <1>4, <1>6

\* A write changes one byte, unless it takes the block over from a core the
\* directory calls EXCLUSIVE.
LEMMA WriteStep ==
    ASSUME InclusiveGeometry, CalmInv, NEW c \in Core, NEW b \in Block,
           NEW i \in Offset, NEW val \in Value, setByte(c, b, i, val)
    PROVE  /\ CalmInv'
           /\ \A x \in Block \ {b} : Truth(blk'[x]) = Truth(blk[x])
           /\ \E base \in Data :
                /\ Truth(blk'[b]) = [base EXCEPT ![i] = val]
                /\ Holds(blk[b], c) \/ blk[b].dir.MESI # "EXCLUSIVE" =>
                        base = Truth(blk[b])
<1> DEFINE w(q) == WriteByte(OwnWrite(q.blk[b], c), c, i, val)
<1>1. PICK q \in Fetch(c, b) :
        Store([q EXCEPT !.blk[b] = WriteByte(OwnWrite(@, c), c, i, val)])
  BY DEF setByte
<1>2. Settled(blk[b]) /\ q.blk[b] = Fetched(blk[b], c)
  BY FetchEffect DEF CalmInv, Calm
<1>3. Ready(q.blk[b], c) /\ Truth(q.blk[b]) = Truth(blk[b])
  BY <1>2, FetchedReady
<1> DEFINE k == w(q)
<1>4. /\ Settled(k) /\ Truth(k) = [Base(q.blk[b], c) EXCEPT ![i] = val]
      /\ \A e \in Core : k.l1[e].valid => q.blk[b].l1[e].valid
  BY <1>3, OwnWriteSettled
<1>5. Store(Put(q, b, k))
  BY <1>1 DEF Put
<1> HIDE DEF k
<1>6. /\ CalmInv' /\ blk'[b] = k
      /\ \A x \in Block \ {b} : Truth(blk'[x]) = Truth(blk[x])
  BY <1>4, <1>5, StoreCalm
<1>7. Base(q.blk[b], c) \in Data
  BY <1>3, ReadyIs, LineParts, CopyType DEF Base, Owned
<1>8. Holds(blk[b], c) \/ blk[b].dir.MESI # "EXCLUSIVE" =>
        Base(q.blk[b], c) = Truth(blk[b])
  <2>1. SUFFICES ASSUME Holds(blk[b], c) \/ blk[b].dir.MESI # "EXCLUSIVE"
                 PROVE  ~(Fresh(q.blk[b], c) /\ q.blk[b].dir.MESI = "EXCLUSIVE")
    BY <1>3, BaseIsTruth
  <2>. QED
    BY <1>2, <2>1, FetchedFresh
<1>. QED
  BY <1>4, <1>6, <1>7, <1>8

LEMMA NextCalm ==
    ASSUME InclusiveGeometry, CalmInv, [Next]_vars PROVE CalmInv'
<1>1. CASE UNCHANGED vars
  BY <1>1 DEF CalmInv, vars
<1>2. ASSUME NEW c \in Core, NEW b \in Block, getByte(c, b) PROVE CalmInv'
  BY <1>2, ReadStep
<1>3. ASSUME NEW c \in Core, NEW b \in Block, NEW i \in Offset,
             NEW val \in Value, setByte(c, b, i, val)
      PROVE  CalmInv'
  BY <1>3, WriteStep
<1>4. ASSUME NEW c \in Core, NEW b \in Block,
             getByteExits(c, b) \/ setByteExits(c, b)
      PROVE  CalmInv'
  BY <1>4 DEF getByteExits, setByteExits, CalmInv
<1>. QED
  BY <1>1, <1>2, <1>3, <1>4, WrittenAssumption DEF Next

LEMMA Calmness ==
    ASSUME InclusiveGeometry PROVE Spec => []CalmInv
<1>1. CalmInv /\ [Next]_vars => CalmInv'
  BY NextCalm
<1>. QED
  BY <1>1, InitCalm, PTL DEF Spec

LEMMA CalmImplies ==
    CalmInv => /\ Inclusion /\ HeldIsLive /\ ModifiedIsDirty
               /\ OwnerAnswers /\ CoresAgree
<1>1. SUFFICES ASSUME CalmInv
               PROVE  /\ Inclusion /\ HeldIsLive /\ ModifiedIsDirty
                      /\ OwnerAnswers /\ CoresAgree
  OBVIOUS
<1>2. \A b \in Block : Settled(blk[b])
  BY <1>1 DEF CalmInv, Calm
<1>3. \A b \in Block, c \in Core : Tidy(blk[b], c)
  BY <1>2 DEF Settled
<1>4. Inclusion
  BY <1>3 DEF Tidy, Inclusion
<1>5. HeldIsLive
  BY <1>3 DEF Tidy, HeldIsLive, Holds, State
<1>6. ModifiedIsDirty
  BY <1>3 DEF Tidy, ModifiedIsDirty, State
<1>7. OwnerAnswers
  BY <1>2 DEF Settled, OwnerAnswers
<1>8. CoresAgree
  BY <1>1, SeenIsTruth DEF CoresAgree, Core
<1>. QED
  BY <1>4, <1>5, <1>6, <1>7, <1>8

\* In an inclusive geometry setBlockMESI and invalidateBlock find the L2 copy
\* of whatever an L1 holds.
THEOREM InclusionHolds == ASSUME InclusiveGeometry PROVE Spec => []Inclusion
BY Calmness, CalmImplies, PTL

\* No core keeps a copy the protocol calls INVALID.
THEOREM HeldStaysLive == ASSUME InclusiveGeometry PROVE Spec => []HeldIsLive
BY Calmness, CalmImplies, PTL

\* A MODIFIED copy is never dropped by an eviction without being written back.
THEOREM ModifiedStaysDirty ==
    ASSUME InclusiveGeometry PROVE Spec => []ModifiedIsDirty
BY Calmness, CalmImplies, PTL

\* The directory never sends a request to an owner that has lost the block.
THEOREM OwnersAnswer == ASSUME InclusiveGeometry PROVE Spec => []OwnerAnswers
BY Calmness, CalmImplies, PTL

\* Whichever core reads a block, it reads the same bytes.
THEOREM CoresAlwaysAgree == ASSUME InclusiveGeometry PROVE Spec => []CoresAgree
BY Calmness, CalmImplies, PTL

\* The bytes both cores see, as the memory of AtomicMemory.
OneByte == \A i, j \in Offset : i = j
Mem == [b \in Block |-> Seen(0, b)]

AllSeeTruth ==
    /\ \A c \in Core, b \in Block : Seen(c, b) = Truth(blk[b])
    /\ Mem = [b \in Block |-> Truth(blk[b])]
    /\ Mem \in [Block -> Data]

LEMMA MemIs == CalmInv => AllSeeTruth
BY SeenIsTruth DEF AllSeeTruth, Mem, Core

LEMMA MemIsNext == CalmInv' => AllSeeTruth'
BY MemIs, PTL

\* Reads and exits leave the memory alone.
LEMMA ReadIsAtomic ==
    ASSUME InclusiveGeometry, CalmInv, NEW c \in Core, NEW b \in Block,
           getByte(c, b) \/ getByteExits(c, b) \/ setByteExits(c, b)
    PROVE  Memory!GetByte
<1>1. CalmInv' /\ \A x \in Block : Truth(blk'[x]) = Truth(blk[x])
  <2>1. CASE getByte(c, b)
    BY <2>1, ReadStep
  <2>2. CASE getByteExits(c, b) \/ setByteExits(c, b)
    BY <2>2 DEF getByteExits, setByteExits, CalmInv
  <2>. QED
    BY <2>1, <2>2
<1>2. Mem' = Mem
  BY <1>1, MemIs, MemIsNext DEF AllSeeTruth
<1>. QED
  BY <1>2 DEF Memory!GetByte, Mem

\* With one byte in a block, a write is that write of the memory.
LEMMA WriteIsAtomic ==
    ASSUME InclusiveGeometry, OneByte, CalmInv, NEW c \in Core, NEW b \in Block,
           NEW i \in Offset, NEW val \in Value, setByte(c, b, i, val)
    PROVE  Memory!SetByte(b, i, val)
<1>1. /\ CalmInv'
      /\ \A x \in Block \ {b} : Truth(blk'[x]) = Truth(blk[x])
      /\ \E base \in Data : Truth(blk'[b]) = [base EXCEPT ![i] = val]
  BY WriteStep
<1>2. Truth(blk[b]) \in Data
  BY SeenIsTruth
<1>3. Truth(blk'[b]) = [Truth(blk[b]) EXCEPT ![i] = val]
  BY <1>1, <1>2 DEF OneByte, Data
<1>4. Mem' = [Mem EXCEPT ![b] = [Mem[b] EXCEPT ![i] = val]]
  BY <1>1, <1>3, MemIs, MemIsNext DEF AllSeeTruth
<1>. QED
  BY <1>4 DEF Memory!SetByte, Mem

\* With one byte in a block, the two cores' caches are a memory: every access
\* is at once the access of the same name, whatever it evicts on its way.
THEOREM CachesAreTransparent ==
    ASSUME InclusiveGeometry, OneByte PROVE Spec => Transparent
<1> DEFINE Atomic ==
        \/ /\ Memory!GetByte
           /\ \E c \in Core, b \in Block :
                getByte(c, b) \/ getByteExits(c, b) \/ setByteExits(c, b)
        \/ \E b \in Written, o \in Offset, val \in Value :
             /\ Memory!SetByte(b, o, val)
             /\ \E c \in Core : setByte(c, b, o, val)
<1>1. Init => Memory!Init
  <2>1. Init => Mem \in [Block -> Data]
    BY InitCalm, MemIs DEF AllSeeTruth
  <2>. QED
    BY <2>1 DEF Memory!Init, Mem, Data
<1>2. CalmInv /\ [Next]_vars => [Memory!Next]_Mem /\ [Atomic]_vars
  <2>1. SUFFICES ASSUME CalmInv, [Next]_vars
                 PROVE  [Memory!Next]_Mem /\ [Atomic]_vars
    OBVIOUS
  <2>2. CASE UNCHANGED vars
    BY <2>2 DEF vars, Mem, Seen
  <2>3. ASSUME NEW c \in Core, NEW b \in Block,
               getByte(c, b) \/ getByteExits(c, b) \/ setByteExits(c, b)
        PROVE  [Memory!Next]_Mem /\ [Atomic]_vars
    <3>1. Memory!GetByte
      BY <2>1, <2>3, ReadIsAtomic
    <3>2. Mem' = Mem
      BY <3>1 DEF Memory!GetByte, Mem
    <3>. QED
      BY <2>3, <3>1, <3>2
  <2>4. ASSUME NEW c \in Core, NEW b \in Written, NEW o \in Offset,
               NEW val \in Value, setByte(c, b, o, val)
        PROVE  [Memory!Next]_Mem /\ [Atomic]_vars
    <3>1. b \in Block
      BY WrittenAssumption
    <3>2. Memory!SetByte(b, o, val)
      BY <2>1, <2>4, <3>1, WriteIsAtomic
    <3>3. Memory!Next
      BY <3>1, <3>2 DEF Memory!Next
    <3>. QED
      BY <2>4, <3>2, <3>3
  <2>. QED
    BY <2>1, <2>2, <2>3, <2>4, WrittenAssumption DEF Next
<1>3. Spec => []CalmInv
  BY Calmness
<1>4. Spec => Memory!Init /\ [][Memory!Next]_Mem /\ [][Atomic]_vars
  <2> HIDE DEF Atomic
  <2>. QED
    BY <1>1, <1>2, <1>3, PTL DEF Spec
<1>. QED
  BY <1>4, PTL DEF Transparent, Memory!Spec, AccessesAreAtomic, Mem, Atomic

\* A write keeps the other bytes of its block unless it takes the block from
\* a core whose directory entry still says EXCLUSIVE: the one case in which
\* MESIoperationFwd moves no data.
StoresKeepBytes ==
    [][\A c \in Core, b \in Block, o \in Offset, val \in Value :
        /\ setByte(c, b, o, val)
        /\ Holds(blk[b], c) \/ blk[b].dir.MESI # "EXCLUSIVE"
        => \A i \in Offset \ {o} : Seen(c, b)'[i] = Seen(c, b)[i]]_vars

\* The other bytes of a block survive a write by a core that holds it, or that
\* takes it from the L3 or from a MODIFIED owner.
THEOREM OnlyTakeoversLoseBytes ==
    ASSUME InclusiveGeometry PROVE Spec => StoresKeepBytes
<1> DEFINE Kept ==
        \A c \in Core, b \in Block, o \in Offset, val \in Value :
            /\ setByte(c, b, o, val)
            /\ Holds(blk[b], c) \/ blk[b].dir.MESI # "EXCLUSIVE"
            => \A i \in Offset \ {o} : Seen(c, b)'[i] = Seen(c, b)[i]
<1>1. CalmInv /\ CalmInv' => Kept
  <2>1. SUFFICES ASSUME CalmInv, CalmInv', NEW c \in Core, NEW b \in Block,
                        NEW o \in Offset, NEW val \in Value, setByte(c, b, o, val),
                        Holds(blk[b], c) \/ blk[b].dir.MESI # "EXCLUSIVE",
                        NEW i \in Offset \ {o}
                 PROVE  Seen(c, b)'[i] = Seen(c, b)[i]
    OBVIOUS
  <2>2. Seen(c, b) = Truth(blk[b])
    BY <2>1, SeenIsTruth
  <2>3. Seen(c, b)' = Truth(blk'[b])
    BY <2>1, MemIsNext DEF AllSeeTruth
  <2>4. Truth(blk'[b]) = [Truth(blk[b]) EXCEPT ![o] = val]
    <3>1. PICK base \in Data :
            /\ Truth(blk'[b]) = [base EXCEPT ![o] = val]
            /\ Holds(blk[b], c) \/ blk[b].dir.MESI # "EXCLUSIVE" =>
                    base = Truth(blk[b])
      BY <2>1, WriteStep
    <3>. QED
      BY <2>1, <3>1
  <2>5. Truth(blk[b]) \in Data
    BY <2>1, SeenIsTruth
  <2>6. Truth(blk'[b])[i] = Truth(blk[b])[i]
    BY <2>4, <2>5 DEF Data
  <2>. QED
    BY <2>1, <2>2, <2>3, <2>6
<1> HIDE DEF Kept
<1>2. CalmInv /\ CalmInv' => [Kept]_vars
  BY <1>1
<1>3. Spec => [][Kept]_vars
  BY <1>2, Calmness, PTL
<1>. QED
  BY <1>3 DEF StoresKeepBytes, Kept
=============================================================================
