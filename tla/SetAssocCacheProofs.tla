------------------------ MODULE SetAssocCacheProofs -------------------------
(***************************************************************************)
(* A cache of any geometry implements AtomicMemory, for three of the four  *)
(* write policies: every access is one atomic step on the bytes the        *)
(* programs see.  Under the fourth, write through with write allocate, so  *)
(* is every access with which no block leaves that was never written.      *)
(*                                                                         *)
(* The argument: a block is in one way at most, and a line that the cache  *)
(* would drop silently equals the memory below it.  Both facts are about   *)
(* the array and the memory alone, so they are stated as operators on      *)
(* them, and used on the variables and on their primed values.             *)
(*                                                                         *)
(* It also implements LruSets, under every policy, until referenceCounter  *)
(* wraps: no two lines of a set then have the same lastReference, and the  *)
(* line an access uses gets a larger one than any other.                   *)
(*                                                                         *)
(* Last, what is assumed of tags and indices is proved of the code's.      *)
(***************************************************************************)
EXTENDS SetAssocCache, SharedLemmas, FiniteSetTheorems

Array == [Sets -> [Way -> Line]]

\* Found and Contents, of an array a over a memory m.
In(a, b) == {w \in Way : a[getId[b]][w].valid /\ a[getId[b]][w].tag = getTag[b]}
At(a, m, b) ==
    IF In(a, b) # {} THEN a[getId[b]][First(In(a, b))].data ELSE m[b]

\* Each valid line stands for a block, and for a block no other way holds.
Placed(a) ==
    \A s \in Sets, w \in Way : a[s][w].valid =>
        /\ \E b \in Block : getId[b] = s /\ getTag[b] = a[s][w].tag
        /\ \A v \in Way : a[s][v].valid /\ a[s][v].tag = a[s][w].tag => v = w

Current(a, m, wb) ==
    \A b \in Block : \A w \in In(a, b) :
        ~(wb /\ a[getId[b]][w].modified) => a[getId[b]][w].data = m[b]

Sound(a, m, wb) == /\ a \in Array /\ m \in [Block -> Data]
                   /\ Placed(a) /\ Current(a, m, wb)

\* The three policies under which no write is lost.
Lossless == \A p \in WritePolicies : p[1] \/ ~p[2]

IndInv == /\ Sound(blocks, memory, writeBack)
          /\ referenceCounter \in Counter
          /\ policy \in WritePolicies
-----------------------------------------------------------------------------
(* The array.                                                              *)

LEMMA FirstIn ==
    ASSUME NEW ways, ways \subseteq Way, ways # {}
    PROVE  First(ways) \in ways
<1>1. Way \subseteq Nat
  BY WayAssumption DEF Way
<1>2. \E w \in ways : \A x \in ways : w <= x
  BY <1>1, Smallest
<1>. QED
  BY <1>2 DEF First

LEMMA SetsType == \A b \in Block : getId[b] \in Sets /\ getTag[b] \in Tags
BY DEF Sets, Tags

\* Some way can always be replaced.
LEMMA ReplacementInSet ==
    ASSUME blocks \in Array, NEW s \in Sets
    PROVE  getReplacementBlockId(s) \in Way
<1> DEFINE free == {w \in Way : ~blocks[s][w].valid}
           oldest == {w \in Way : \A x \in Way :
                        blocks[s][w].lastReference <= blocks[s][x].lastReference}
           ages == {blocks[s][w].lastReference : w \in Way}
<1>1. 0 \in Way
  BY WayAssumption DEF Way
<1>2. ages \subseteq Nat /\ ages # {}
  <2>1. \A w \in Way : blocks[s][w].lastReference \in Counter
    BY DEF Array, Line
  <2>2. Counter \subseteq Nat
    BY CounterAssumption DEF Counter
  <2>. QED
    BY <1>1, <2>1, <2>2
<1>3. oldest # {}
  <2>1. PICK x \in ages : \A y \in ages : x <= y
    BY <1>2, Smallest
  <2>. QED
    BY <2>1
<1>4. free # {} => First(free) \in Way
  BY FirstIn
<1>5. First(oldest) \in Way
  BY <1>3, FirstIn
<1>. QED
  BY <1>4, <1>5 DEF getReplacementBlockId

\* A block is found in one way at most.
LEMMA UniqueWays ==
    ASSUME NEW a, Placed(a), NEW b \in Block, NEW w \in In(a, b)
    PROVE  In(a, b) = {w} /\ First(In(a, b)) = w
<1>1. In(a, b) = {w}
  BY SetsType DEF Placed, In
<1>2. First(In(a, b)) \in In(a, b)
  BY <1>1, FirstIn DEF In
<1>. QED
  BY <1>1, <1>2

LEMMA AtFound ==
    ASSUME NEW a, NEW m, Placed(a), NEW b \in Block, NEW w \in In(a, b)
    PROVE  At(a, m, b) = a[getId[b]][w].data
BY UniqueWays DEF At

LEMMA AtAbsent ==
    ASSUME NEW a, NEW m, NEW b \in Block, In(a, b) = {}
    PROVE  At(a, m, b) = m[b]
BY DEF At

\* Storing a line for b in a way that held b, or that held another block
\* while b was in none.
PutLine(a, s, w, line) == [a EXCEPT ![s][w] = line]

\* Array r is array a with b in way w, as the line, and nowhere else.
Holding(a, r, b, w, line) ==
    /\ r \in Array /\ Placed(r)
    /\ In(r, b) = {w} /\ r[getId[b]][w] = line
    /\ \A x \in Block \ {b} :
        /\ In(r, x) = IF getId[x] = getId[b] THEN In(a, x) \ {w} ELSE In(a, x)
        /\ \A v \in In(r, x) : r[getId[x]][v] = a[getId[x]][v]

LEMMA Stored ==
    ASSUME NEW a, a \in Array, Placed(a), NEW b \in Block, NEW w \in Way,
           In(a, b) \subseteq {w},
           NEW line \in Line, line.valid, line.tag = getTag[b],
           NEW r, r = PutLine(a, getId[b], w, line)
    PROVE  Holding(a, r, b, w, line)
<1> DEFINE s == getId[b]
<1>1. s \in Sets
  BY SetsType
<1>2. /\ r \in Array /\ r[s][w] = line
      /\ \A t \in Sets, v \in Way :
            ~(t = s /\ v = w) => r[t][v] = a[t][v]
  BY <1>1 DEF PutLine, Array
<1>3. \A v \in Way : a[s][v].valid /\ a[s][v].tag = getTag[b] => v = w
  BY DEF In
<1>4. Placed(r)
  <2>1. SUFFICES ASSUME NEW t \in Sets, NEW v \in Way, r[t][v].valid
                 PROVE  /\ \E x \in Block : getId[x] = t /\ getTag[x] = r[t][v].tag
                        /\ \A u \in Way : r[t][u].valid /\ r[t][u].tag = r[t][v].tag
                                            => u = v
    BY DEF Placed
  <2>2. CASE t = s /\ v = w
    BY <1>2, <1>3, <2>2
  <2>3. CASE ~(t = s /\ v = w)
    BY <1>2, <1>3, <2>1, <2>3 DEF Placed
  <2>. QED
    BY <2>2, <2>3
<1>5. In(r, b) = {w}
  BY <1>1, <1>2, <1>3 DEF In
<1>6. ASSUME NEW x \in Block, x # b
      PROVE  /\ In(r, x) = IF getId[x] = s THEN In(a, x) \ {w} ELSE In(a, x)
             /\ \A v \in In(r, x) : r[getId[x]][v] = a[getId[x]][v]
  <2>1. getId[x] = s => getTag[x] # getTag[b]
    BY <1>6, SplitAssumption
  <2>2. getId[x] \in Sets
    BY SetsType
  <2>. QED
    BY <1>2, <2>1, <2>2 DEF In
<1>. QED
  BY <1>2, <1>4, <1>5, <1>6 DEF Holding
-----------------------------------------------------------------------------
(* The two ways the array changes.                                         *)

\* The cache a over m becomes r over n: b has the bytes d, the others stay.
Becomes(a, m, r, n, wb, b, d) ==
    /\ Sound(r, n, wb)
    /\ At(r, n, b) = d
    /\ \A x \in Block \ {b} : At(r, n, x) = At(a, m, x)

\* Memory n is m but for the bytes of b.
Except(m, n, b) == n \in [Block -> Data] /\ \A x \in Block \ {b} : n[x] = m[x]

\* A line that stands for b, and that may be dropped when its bytes are d.
LineFor(line, wb, b, d) ==
    /\ line \in Line /\ line.valid /\ line.tag = getTag[b]
    /\ ~(wb /\ line.modified) => line.data = d

\* A line for b, in the way that holds b.
LEMMA HitStep ==
    ASSUME NEW a, NEW m, NEW wb \in BOOLEAN, Sound(a, m, wb),
           NEW b \in Block, NEW w \in In(a, b),
           NEW n, Except(m, n, b),
           NEW line, LineFor(line, wb, b, n[b]),
           NEW r, r = PutLine(a, getId[b], w, line)
    PROVE  Becomes(a, m, r, n, wb, b, line.data)
<1>. USE DEF Except, LineFor
<1>0. a \in Array /\ Placed(a) /\ w \in Way
  BY DEF Sound, In
<1>1. In(a, b) \subseteq {w}
  BY <1>0, UniqueWays
<1>2. /\ r \in Array /\ Placed(r)
      /\ In(r, b) = {w} /\ r[getId[b]][w] = line
      /\ \A x \in Block \ {b} :
            /\ In(r, x) = IF getId[x] = getId[b] THEN In(a, x) \ {w}
                                                 ELSE In(a, x)
            /\ \A v \in In(r, x) : r[getId[x]][v] = a[getId[x]][v]
  <2>1. Holding(a, r, b, w, line)
    BY <1>0, <1>1, Stored
  <2>. QED
    BY <2>1 DEF Holding
<1>3. \A x \in Block \ {b} :
        /\ In(r, x) = IF getId[x] = getId[b] THEN In(a, x) \ {w} ELSE In(a, x)
        /\ \A v \in In(r, x) : r[getId[x]][v] = a[getId[x]][v]
  BY <1>2
<1>4. ASSUME NEW x \in Block \ {b}
      PROVE  In(r, x) = In(a, x)
  <2>1. getId[x] = getId[b] => w \notin In(a, x)
    BY SplitAssumption DEF In
  <2>. QED
    BY <1>3, <2>1
<1>5. Current(r, n, wb)
  <2>1. SUFFICES ASSUME NEW x \in Block, NEW v \in In(r, x),
                        ~(wb /\ r[getId[x]][v].modified)
                 PROVE  r[getId[x]][v].data = n[x]
    BY DEF Current
  <2>2. CASE x = b
    BY <1>2, <2>1, <2>2
  <2>3. CASE x # b
    <3>1. v \in In(a, x) /\ r[getId[x]][v] = a[getId[x]][v]
      BY <1>3, <1>4, <2>3
    <3>2. a[getId[x]][v].data = m[x]
      BY <2>1, <3>1 DEF Sound, Current
    <3>. QED
      BY <2>3, <3>1, <3>2
  <2>. QED
    BY <2>2, <2>3
<1>6. At(r, n, b) = line.data
  BY <1>2, AtFound
<1>7. ASSUME NEW x \in Block \ {b}
      PROVE  At(r, n, x) = At(a, m, x)
  <2>1. CASE In(a, x) = {}
    BY <1>4, <2>1, AtAbsent
  <2>2. CASE In(a, x) # {}
    <3>1. PICK v \in In(a, x) : TRUE
      BY <2>2
    <3>2. At(a, m, x) = a[getId[x]][v].data
      BY <1>0, <3>1, AtFound
    <3>3. At(r, n, x) = r[getId[x]][v].data
      BY <1>2, <1>4, <3>1, AtFound
    <3>. QED
      BY <1>3, <1>4, <3>1, <3>2, <3>3
  <2>. QED
    BY <2>1, <2>2
<1>. QED
  BY <1>2, <1>5, <1>6, <1>7 DEF Sound, Becomes

\* WrittenBack, of an array a over a memory m.
Saved(a, m, wb, s, w) ==
    IF wb /\ a[s][w].valid /\ a[s][w].modified
    THEN [m EXCEPT ![getAddr(s, a[s][w])] = a[s][w].data]
    ELSE m

\* The line that is replaced is the one of its address.
LEMMA AddressOf ==
    ASSUME NEW a, Placed(a), NEW x \in Block, NEW w \in In(a, x)
    PROVE  getAddr(getId[x], a[getId[x]][w]) = x
BY SplitAssumption DEF In, getAddr

LEMMA LineHasBlock ==
    ASSUME NEW a, Placed(a), NEW s \in Sets, NEW w \in Way, a[s][w].valid
    PROVE  \E x \in Block : getId[x] = s /\ w \in In(a, x)
BY DEF Placed, In

\* Only the block of the replaced line is written, and it then reads as it did.
LEMMA SavedBytes ==
    ASSUME NEW a, NEW m, NEW wb \in BOOLEAN, Sound(a, m, wb),
           NEW s \in Sets, NEW w \in Way
    PROVE  /\ Saved(a, m, wb, s, w) \in [Block -> Data]
           /\ \A x \in Block : getId[x] = s /\ w \in In(a, x)
                                => Saved(a, m, wb, s, w)[x] = a[s][w].data
           /\ \A x \in Block : ~(getId[x] = s /\ w \in In(a, x))
                                => Saved(a, m, wb, s, w)[x] = m[x]
<1> DEFINE n == Saved(a, m, wb, s, w)
<1>1. /\ m \in [Block -> Data] /\ Placed(a) /\ Current(a, m, wb)
      /\ a[s][w] \in Line
  BY DEF Sound, Array
<1>2. CASE wb /\ a[s][w].valid /\ a[s][w].modified
  <2>1. PICK x \in Block : getId[x] = s /\ w \in In(a, x)
    BY <1>1, <1>2, LineHasBlock
  <2>2. n = [m EXCEPT ![x] = a[s][w].data]
    BY <1>1, <1>2, <2>1, AddressOf DEF Saved
  <2>3. a[s][w].data \in Data
    BY <1>1 DEF Line
  <2>4. \A y \in Block : getId[y] = s /\ w \in In(a, y) => y = x
    BY <2>1, SplitAssumption DEF In
  <2>. QED
    BY <1>1, <2>1, <2>2, <2>3, <2>4
<1>3. CASE ~(wb /\ a[s][w].valid /\ a[s][w].modified)
  <2>1. n = m
    BY <1>3 DEF Saved
  <2>2. \A x \in Block : getId[x] = s /\ w \in In(a, x) => a[s][w].data = m[x]
    BY <1>1, <1>3 DEF Current, In
  <2>. QED
    BY <1>1, <2>1, <2>2
<1>. QED
  BY <1>2, <1>3
\* A line for b, which no way holds, in a way that is saved first.
LEMMA MissStep ==
    ASSUME NEW a, NEW m, NEW wb \in BOOLEAN, Sound(a, m, wb),
           NEW b \in Block, In(a, b) = {}, NEW w \in Way,
           NEW line, LineFor(line, wb, b, m[b]),
           NEW n, n = Saved(a, m, wb, getId[b], w),
           NEW r, r = PutLine(a, getId[b], w, line)
    PROVE  Becomes(a, m, r, n, wb, b, line.data)
<1>. USE DEF LineFor
<1> DEFINE s == getId[b]
<1>0. /\ a \in Array /\ Placed(a) /\ Current(a, m, wb) /\ m \in [Block -> Data]
      /\ s \in Sets
  BY SetsType DEF Sound
<1>1. Holding(a, r, b, w, line)
  BY <1>0, Stored
<1>2. /\ r \in Array /\ Placed(r) /\ In(r, b) = {w} /\ r[s][w] = line
  BY <1>1 DEF Holding
<1>3. ASSUME NEW x \in Block \ {b}
      PROVE  /\ In(r, x) = IF getId[x] = s THEN In(a, x) \ {w} ELSE In(a, x)
             /\ \A v \in In(r, x) : r[getId[x]][v] = a[getId[x]][v]
  BY <1>1 DEF Holding
<1>4. /\ n \in [Block -> Data]
      /\ \A x \in Block : getId[x] = s /\ w \in In(a, x) => n[x] = a[s][w].data
      /\ \A x \in Block : ~(getId[x] = s /\ w \in In(a, x)) => n[x] = m[x]
  <2>1. n \in [Block -> Data]
    BY <1>0, SavedBytes
  <2>2. \A x \in Block : getId[x] = s /\ w \in In(a, x) => n[x] = a[s][w].data
    BY <1>0, SavedBytes
  <2>3. \A x \in Block : ~(getId[x] = s /\ w \in In(a, x)) => n[x] = m[x]
    BY <1>0, SavedBytes
  <2>. QED
    BY <2>1, <2>2, <2>3
<1>5. n[b] = m[b]
  BY <1>4
<1>6. Current(r, n, wb)
  <2>1. SUFFICES ASSUME NEW x \in Block, NEW v \in In(r, x),
                        ~(wb /\ r[getId[x]][v].modified)
                 PROVE  r[getId[x]][v].data = n[x]
    BY DEF Current
  <2>2. CASE x = b
    BY <1>2, <1>5, <2>1, <2>2
  <2>3. CASE x # b
    <3>1. v \in In(a, x) /\ r[getId[x]][v] = a[getId[x]][v]
      BY <1>3, <2>3
    <3>2. a[getId[x]][v].data = m[x]
      BY <1>0, <2>1, <3>1 DEF Current
    <3>3. ~(getId[x] = s /\ w \in In(a, x))
      <4>1. SUFFICES ASSUME getId[x] = s, w \in In(a, x)
                     PROVE  FALSE
        OBVIOUS
      <4>2. In(a, x) = {w}
        BY <1>0, <4>1, UniqueWays
      <4>. QED
        BY <1>3, <2>3, <4>1, <4>2
    <3>. QED
      BY <1>4, <3>1, <3>2, <3>3
  <2>. QED
    BY <2>2, <2>3
<1>7. At(r, n, b) = line.data
  BY <1>2, AtFound
<1>8. ASSUME NEW x \in Block \ {b}
      PROVE  At(r, n, x) = At(a, m, x)
  <2>1. CASE In(a, x) = {}
    BY <1>3, <1>4, <2>1, AtAbsent
  <2>2. CASE getId[x] = s /\ w \in In(a, x)
    <3>1. In(a, x) = {w}
      BY <1>0, <2>2, UniqueWays
    <3>2. In(r, x) = {}
      BY <1>3, <2>2, <3>1
    <3>3. At(a, m, x) = a[s][w].data
      BY <1>0, <2>2, AtFound
    <3>4. At(r, n, x) = n[x]
      BY <3>2, AtAbsent
    <3>. QED
      BY <1>4, <2>2, <3>3, <3>4
  <2>3. CASE In(a, x) # {} /\ ~(getId[x] = s /\ w \in In(a, x))
    <3>1. PICK v \in In(a, x) : TRUE
      BY <2>3
    <3>2. v \in In(r, x)
      BY <1>3, <2>3, <3>1
    <3>3. At(a, m, x) = a[getId[x]][v].data
      BY <1>0, <3>1, AtFound
    <3>4. At(r, n, x) = r[getId[x]][v].data
      BY <1>2, <3>2, AtFound
    <3>. QED
      BY <1>3, <3>2, <3>3, <3>4
  <2>. QED
    BY <2>1, <2>2, <2>3
<1>. QED
  BY <1>2, <1>4, <1>6, <1>7, <1>8 DEF Sound, Becomes
-----------------------------------------------------------------------------
(* The steps.                                                              *)

LEMMA CountType ==
    ASSUME IndInv, Count
    PROVE  /\ Referenced \in Counter /\ referenceCounter' \in Counter
           /\ writeBack' = writeBack /\ policy' \in WritePolicies
<1>1. Referenced \in Counter
  BY CounterAssumption DEF IndInv, Counter, Referenced
<1>. QED
  BY <1>1 DEF IndInv, Count, policy

LEMMA FoundIn == \A b \in Block : Found(b) = In(blocks, b)
BY DEF Found, In

\* The block's line, when it is found.
LEMMA FoundLine ==
    ASSUME IndInv, NEW b \in Block, Found(b) # {}
    PROVE  /\ First(Found(b)) \in In(blocks, b)
           /\ blocks[getId[b]][First(Found(b))] \in Line
           /\ blocks[getId[b]][First(Found(b))].valid
           /\ blocks[getId[b]][First(Found(b))].tag = getTag[b]
           /\ At(blocks, memory, b) = blocks[getId[b]][First(Found(b))].data
<1>1. First(Found(b)) \in In(blocks, b)
  BY FirstIn, FoundIn DEF In
<1>2. blocks \in Array /\ Placed(blocks) /\ getId[b] \in Sets
  BY SetsType DEF IndInv, Sound
<1>3. At(blocks, memory, b) = blocks[getId[b]][First(Found(b))].data
  BY <1>1, <1>2, AtFound
<1>. QED
  BY <1>1, <1>2, <1>3 DEF In, Array

LEMMA ReadHitKeeps ==
    ASSUME IndInv, NEW b \in Block, ReadHit(b)
    PROVE  Becomes(blocks, memory, blocks', memory', writeBack, b,
                   At(blocks, memory, b))
<1> DEFINE s == getId[b]
           w == First(Found(b))
           line == [blocks[s][w] EXCEPT !.lastReference = Referenced]
<1>1. /\ Found(b) # {} /\ Count /\ memory' = memory
      /\ blocks' = [blocks EXCEPT ![s][w].lastReference = Referenced]
  BY DEF ReadHit
<1>2. /\ w \in In(blocks, b) /\ blocks[s][w] \in Line
      /\ blocks[s][w].valid /\ blocks[s][w].tag = getTag[b]
      /\ At(blocks, memory, b) = blocks[s][w].data
  BY <1>1, FoundLine
<1>3. /\ line \in Line /\ line.valid /\ line.tag = getTag[b]
      /\ line.modified = blocks[s][w].modified /\ line.data = blocks[s][w].data
  BY <1>1, <1>2, CountType DEF Line
<1>4. blocks' = PutLine(blocks, s, w, line)
  BY <1>1 DEF PutLine
<1>5. /\ Sound(blocks, memory, writeBack) /\ memory \in [Block -> Data]
      /\ writeBack \in BOOLEAN
  BY PolicyAssumption DEF IndInv, Sound, policy
<1>6. LineFor(line, writeBack, b, memory'[b])
  BY <1>1, <1>2, <1>3, <1>5 DEF Sound, Current, LineFor
<1>7. Except(memory, memory', b)
  BY <1>1, <1>5 DEF Except
<1>8. Becomes(blocks, memory, blocks', memory', writeBack, b, line.data)
  BY <1>2, <1>4, <1>5, <1>6, <1>7, HitStep
<1>. QED
  BY <1>2, <1>3, <1>8
LEMMA WriteHitStores ==
    ASSUME IndInv, NEW b \in Block, NEW o \in Offset, NEW val \in Value,
           WriteHit(b, o, val)
    PROVE  Becomes(blocks, memory, blocks', memory', writeBack, b,
                   [At(blocks, memory, b) EXCEPT ![o] = val])
<1> DEFINE s == getId[b]
           w == First(Found(b))
           data == [blocks[s][w].data EXCEPT ![o] = val]
           line == [blocks[s][w] EXCEPT !.modified = TRUE, !.data = data,
                                        !.lastReference = Referenced]
<1>1. /\ Found(b) # {} /\ Count
      /\ blocks' = [blocks EXCEPT ![s][w] =
                        [@ EXCEPT !.modified = TRUE, !.data = data,
                                  !.lastReference = Referenced]]
      /\ memory' = IF writeBack THEN memory ELSE [memory EXCEPT ![b] = data]
  BY DEF WriteHit
<1>2. /\ w \in In(blocks, b) /\ blocks[s][w] \in Line
      /\ blocks[s][w].valid /\ blocks[s][w].tag = getTag[b]
      /\ At(blocks, memory, b) = blocks[s][w].data
  BY <1>1, FoundLine
<1>3. data \in Data
  BY <1>2 DEF Line, Data
<1>4. /\ line \in Line /\ line.valid /\ line.tag = getTag[b]
      /\ line.modified /\ line.data = data
  <2>. HIDE DEF data
  <2>. QED
    BY <1>1, <1>2, <1>3, CountType DEF Line
<1>5. blocks' = PutLine(blocks, s, w, line)
  BY <1>1 DEF PutLine
<1>6. /\ Sound(blocks, memory, writeBack) /\ memory \in [Block -> Data]
      /\ writeBack \in BOOLEAN
  BY PolicyAssumption DEF IndInv, Sound, policy
<1>. HIDE DEF s, w, data, line
<1>7. LineFor(line, writeBack, b, memory'[b])
  BY <1>1, <1>4, <1>6 DEF LineFor
<1>8. Except(memory, memory', b)
  BY <1>1, <1>3, <1>6 DEF Except
<1>9. Becomes(blocks, memory, blocks', memory', writeBack, b, line.data)
  BY <1>2, <1>5, <1>6, <1>7, <1>8, HitStep DEF s
<1>. QED
  BY <1>2, <1>4, <1>9 DEF data

\* A block that is absent takes the way that getReplacementBlockId gives it.
LEMMA FillStep ==
    ASSUME IndInv, NEW b \in Block, Found(b) = {},
           NEW line, LineFor(line, writeBack, b, memory[b]),
           memory' = WrittenBack(getId[b], getReplacementBlockId(getId[b])),
           blocks' = PutLine(blocks, getId[b],
                             getReplacementBlockId(getId[b]), line)
    PROVE  /\ Becomes(blocks, memory, blocks', memory', writeBack, b, line.data)
           /\ At(blocks, memory, b) = memory[b]
<1> DEFINE w == getReplacementBlockId(getId[b])
<1>1. /\ Sound(blocks, memory, writeBack) /\ writeBack \in BOOLEAN
      /\ blocks \in Array
  BY PolicyAssumption DEF IndInv, Sound, policy
<1>2. w \in Way
  BY <1>1, ReplacementInSet, SetsType
<1>3. memory' = Saved(blocks, memory, writeBack, getId[b], w)
  BY DEF WrittenBack, Saved
<1>4. In(blocks, b) = {}
  BY FoundIn
<1>5. At(blocks, memory, b) = memory[b]
  BY <1>4, AtAbsent
<1>. HIDE DEF w
<1>6. Becomes(blocks, memory, blocks', memory', writeBack, b, line.data)
  BY <1>1, <1>2, <1>3, <1>4, MissStep DEF w
<1>. QED
  BY <1>5, <1>6

LEMMA ReadMissKeeps ==
    ASSUME IndInv, NEW b \in Block, ReadMiss(b)
    PROVE  Becomes(blocks, memory, blocks', memory', writeBack, b,
                   At(blocks, memory, b))
<1> DEFINE s == getId[b]
           w == getReplacementBlockId(s)
           line == [valid |-> TRUE, modified |-> FALSE, tag |-> getTag[b],
                    lastReference |-> Referenced, data |-> memory[b]]
<1>1. /\ Found(b) = {} /\ Count /\ memory' = WrittenBack(s, w)
      /\ blocks' = PutLine(blocks, s, w, line)
  BY DEF ReadMiss, PutLine
<1>2. memory[b] \in Data
  BY DEF IndInv, Sound
<1>3. LineFor(line, writeBack, b, memory[b])
  BY <1>1, <1>2, CountType, SetsType DEF LineFor, Line
<1>4. line.data = memory[b]
  OBVIOUS
<1>. HIDE DEF line
<1>. QED
  BY <1>1, <1>3, <1>4, FillStep

LEMMA WriteMissStores ==
    ASSUME writeBack \/ ~writeAllocate, IndInv,
           NEW b \in Block, NEW o \in Offset, NEW val \in Value,
           WriteMissAllocate(b, o, val)
    PROVE  Becomes(blocks, memory, blocks', memory', writeBack, b,
                   [At(blocks, memory, b) EXCEPT ![o] = val])
<1> DEFINE s == getId[b]
           w == getReplacementBlockId(s)
           data == [memory[b] EXCEPT ![o] = val]
           line == [valid |-> TRUE, modified |-> TRUE, tag |-> getTag[b],
                    lastReference |-> Referenced, data |-> data]
<1>1. /\ Found(b) = {} /\ Count /\ memory' = WrittenBack(s, w)
      /\ blocks' = PutLine(blocks, s, w, line)
      /\ writeAllocate
  BY DEF WriteMissAllocate, PutLine
<1>2. data \in Data
  BY DEF IndInv, Sound, Data
<1>3. writeBack
  BY <1>1
<1>4. LineFor(line, writeBack, b, memory[b])
  <2>. HIDE DEF data
  <2>. QED
    BY <1>1, <1>2, <1>3, CountType, SetsType DEF LineFor, Line
<1>5. line.data = data
  OBVIOUS
<1>. HIDE DEF line
<1>6. /\ Becomes(blocks, memory, blocks', memory', writeBack, b, line.data)
      /\ At(blocks, memory, b) = memory[b]
  BY <1>1, <1>4, FillStep
<1>. QED
  BY <1>5, <1>6

\* The byte goes below; a cached block is another one and stays current.
LEMMA WriteAroundStores ==
    ASSUME IndInv, NEW b \in Block, NEW o \in Offset, NEW val \in Value,
           WriteMissAround(b, o, val)
    PROVE  Becomes(blocks, memory, blocks', memory', writeBack, b,
                   [At(blocks, memory, b) EXCEPT ![o] = val])
<1>1. /\ Found(b) = {} /\ blocks' = blocks
      /\ memory' = [memory EXCEPT ![b][o] = val]
  BY DEF WriteMissAround
<1>2. /\ blocks \in Array /\ memory \in [Block -> Data]
      /\ Placed(blocks) /\ Current(blocks, memory, writeBack)
  BY DEF IndInv, Sound
<1>3. /\ memory' \in [Block -> Data]
      /\ memory'[b] = [memory[b] EXCEPT ![o] = val]
      /\ \A x \in Block \ {b} : memory'[x] = memory[x]
  BY <1>1, <1>2 DEF Data
<1>4. In(blocks, b) = {}
  BY <1>1, FoundIn
<1>5. Current(blocks, memory', writeBack)
  BY <1>2, <1>3, <1>4 DEF Current
<1>6. At(blocks, memory', b) = [At(blocks, memory, b) EXCEPT ![o] = val]
  BY <1>3, <1>4, AtAbsent
<1>7. \A x \in Block \ {b} : At(blocks, memory', x) = At(blocks, memory, x)
  BY <1>3 DEF At
<1>. QED
  BY <1>1, <1>2, <1>3, <1>5, <1>6, <1>7 DEF Becomes, Sound
-----------------------------------------------------------------------------
(* The specification.                                                      *)

LEMMA InitInd == Init => IndInv
<1>1. SUFFICES ASSUME Init PROVE IndInv
  OBVIOUS
<1>2. PICK d \in Data :
        blocks = [s \in Sets |-> [w \in Way |->
                    [valid |-> FALSE, modified |-> FALSE, tag |-> 0,
                     lastReference |-> 0, data |-> d]]]
  BY <1>1 DEF Init
<1>3. 0 \in Counter
  BY CounterAssumption DEF Counter
<1>4. blocks \in Array
  BY <1>2, <1>3 DEF Array, Line
<1>5. \A s \in Sets, w \in Way : ~blocks[s][w].valid
  BY <1>2
<1>6. Placed(blocks)
  BY <1>5 DEF Placed
<1>7. Current(blocks, memory, writeBack)
  BY <1>5, SetsType DEF Current, In
<1>8. policy \in WritePolicies
  <2>1. PICK p \in WritePolicies : writeBack = p[1] /\ writeAllocate = p[2]
    BY <1>1 DEF Init
  <2>2. p = <<p[1], p[2]>>
    BY PolicyAssumption
  <2>. QED
    BY <2>1, <2>2 DEF policy
<1>. QED
  BY <1>1, <1>3, <1>4, <1>6, <1>7, <1>8 DEF Init, IndInv, Sound
\* A step that Becomes something, with its bookkeeping.
LEMMA InvKept ==
    ASSUME IndInv, Count, NEW b \in Block, NEW d,
           Becomes(blocks, memory, blocks', memory', writeBack, b, d)
    PROVE  IndInv'
BY CountType DEF IndInv, Becomes

LEMMA StepInv ==
    ASSUME writeBack \/ ~writeAllocate, IndInv, [Next]_vars
    PROVE  IndInv'
<1>1. ASSUME NEW b \in Block, getByte(b)
      PROVE  IndInv'
  <2>1. CASE ReadHit(b)
    BY <2>1, ReadHitKeeps, InvKept DEF ReadHit
  <2>2. CASE ReadMiss(b)
    BY <2>2, ReadMissKeeps, InvKept DEF ReadMiss
  <2>. QED
    BY <1>1, <2>1, <2>2 DEF getByte
<1>2. ASSUME NEW b \in Block, NEW o \in Offset, NEW val \in Value,
             setByte(b, o, val)
      PROVE  IndInv'
  <2>1. CASE WriteHit(b, o, val)
    BY <2>1, WriteHitStores, InvKept DEF WriteHit
  <2>2. CASE WriteMissAllocate(b, o, val)
    BY <2>2, WriteMissStores, InvKept DEF WriteMissAllocate
  <2>3. CASE WriteMissAround(b, o, val)
    BY <2>3, WriteAroundStores, InvKept DEF WriteMissAround
  <2>. QED
    BY <1>2, <2>1, <2>2, <2>3 DEF setByte
<1>3. CASE UNCHANGED vars
  BY <1>3 DEF vars, policy, IndInv, Sound, Placed, Current, In, Array
<1>. QED
  BY <1>1, <1>2, <1>3 DEF Next

\* The bytes the next getByte finds.
Bytes == [b \in Block |-> Contents(b)]

LEMMA BytesAre ==
    /\ Bytes = [b \in Block |-> At(blocks, memory, b)]
    /\ Bytes' = [b \in Block |-> At(blocks', memory', b)]
BY DEF Bytes, Contents, At, Found, In

LEMMA ReadIsStutter ==
    ASSUME IndInv, NEW b \in Block, getByte(b)
    PROVE  Bytes' = Bytes
<1>1. Becomes(blocks, memory, blocks', memory', writeBack, b,
              At(blocks, memory, b))
  BY ReadHitKeeps, ReadMissKeeps DEF getByte
<1>. QED
  BY <1>1, BytesAre DEF Becomes

LEMMA WriteIsSetByte ==
    ASSUME writeBack \/ ~writeAllocate, IndInv,
           NEW b \in Block, NEW o \in Offset, NEW val \in Value,
           setByte(b, o, val)
    PROVE  Bytes' = [Bytes EXCEPT ![b][o] = val]
<1>1. Becomes(blocks, memory, blocks', memory', writeBack, b,
              [At(blocks, memory, b) EXCEPT ![o] = val])
  BY WriteHitStores, WriteMissStores, WriteAroundStores DEF setByte
<1>2. /\ At(blocks', memory', b) = [At(blocks, memory, b) EXCEPT ![o] = val]
      /\ \A x \in Block \ {b} : At(blocks', memory', x) = At(blocks, memory, x)
  BY <1>1 DEF Becomes
<1>3. Bytes' = [Bytes EXCEPT ![b] = [At(blocks, memory, b) EXCEPT ![o] = val]]
  BY <1>2, BytesAre
<1>. QED
  BY <1>3, BytesAre

LEMMA StepSimulates ==
    ASSUME writeBack \/ ~writeAllocate, IndInv, [Next]_vars
    PROVE  [Memory!Next]_Bytes
<1>1. ASSUME NEW b \in Block, getByte(b)
      PROVE  Bytes' = Bytes
  BY <1>1, ReadIsStutter
<1>2. ASSUME NEW b \in Block, NEW o \in Offset, NEW val \in Value,
             setByte(b, o, val)
      PROVE  Memory!Next
  BY <1>2, WriteIsSetByte DEF Memory!Next, Memory!SetByte, Bytes
<1>3. CASE UNCHANGED vars
  BY <1>3, BytesAre DEF vars
<1>. QED
  BY <1>1, <1>2, <1>3 DEF Next

LEMMA InitSimulates == Init => Memory!Init
<1>1. SUFFICES ASSUME Init PROVE Memory!Init
  OBVIOUS
<1>2. IndInv
  BY <1>1, InitInd
<1>3. memory \in [Block -> Data] /\ \A b \in Block : Found(b) = {}
  BY <1>1, SetsType DEF Init, Found
<1>4. Bytes = memory
  BY <1>3 DEF Bytes, Contents
<1>. QED
  BY <1>3, <1>4 DEF Memory!Init, Bytes, Data

LEMMA AllowsNoLoss ==
    ASSUME Lossless, IndInv PROVE writeBack \/ ~writeAllocate
BY DEF Lossless, IndInv, policy

LEMMA Inductive == ASSUME Lossless PROVE Spec => []IndInv
BY InitInd, StepInv, AllowsNoLoss, PTL DEF Spec

NoLossInv == writeBack \/ ~writeAllocate => IndInv

LEMMA CurrentStays == Spec => []NoLossInv
<1>1. [Next]_vars => policy' = policy
  BY DEF Next, getByte, setByte, ReadHit, ReadMiss, WriteHit,
         WriteMissAllocate, WriteMissAround, Count, vars
<1>2. NoLossInv /\ [Next]_vars => NoLossInv'
  BY <1>1, StepInv DEF policy, NoLossInv
<1>3. Init => NoLossInv
  BY InitInd DEF NoLossInv
<1>. QED
  BY <1>2, <1>3, PTL DEF Spec

\* A line the cache would drop without a write-back has nothing to lose, if
\* the policy is one that loses no write.
THEOREM DroppedLinesAreCurrent == Spec => []CleanIsCurrent
<1>1. NoLossInv => CleanIsCurrent
  BY FoundIn DEF NoLossInv, IndInv, Sound, Current, CleanIsCurrent
<1>. QED
  BY <1>1, CurrentStays, PTL

\* Each access is its own step of the memory.
LEMMA AccessIsAtomic ==
    ASSUME writeBack \/ ~writeAllocate, IndInv, Next
    PROVE  \/ Memory!GetByte /\ \E b \in Block : getByte(b)
           \/ \E b \in Block, o \in Offset, val \in Value :
                setByte(b, o, val) /\ Memory!SetByte(b, o, val)
<1>1. CASE \E b \in Block : getByte(b)
  BY <1>1, ReadIsStutter DEF Bytes, Memory!GetByte
<1>2. CASE \E b \in Block, o \in Offset, val \in Value : setByte(b, o, val)
  BY <1>2, WriteIsSetByte DEF Bytes, Memory!SetByte
<1>. QED
  BY <1>1, <1>2 DEF Next

\* A cache of any size, associativity and replacement state is a memory, under
\* every policy but write through with write allocate.
THEOREM CacheIsMemory == ASSUME Lossless PROVE Spec => Transparent
<1>1. Init => Memory!Init
  BY InitSimulates
<1>2. IndInv /\ [Next]_vars => [Memory!Next]_Bytes
  BY StepSimulates, AllowsNoLoss
<1>3. IndInv /\ [Next]_vars =>
        [\/ Memory!GetByte /\ \E b \in Block : getByte(b)
         \/ \E b \in Block, o \in Offset, val \in Value :
              setByte(b, o, val) /\ Memory!SetByte(b, o, val)]_vars
  BY AccessIsAtomic, AllowsNoLoss
<1>4. Spec => Memory!Spec
  BY <1>1, <1>2, Inductive, PTL DEF Spec, Memory!Spec, Bytes
<1>5. Spec => AccessesAreAtomic
  BY <1>3, Inductive, PTL DEF Spec, AccessesAreAtomic
<1>. QED
  BY <1>4, <1>5 DEF Transparent
-----------------------------------------------------------------------------
(* Whatever the policy: which ways an access changes.                      *)

ArrayInv == TypeOK /\ Placed(blocks)

\* What an access leaves in the way it uses.
LineNow(line, b) == /\ line \in Line /\ line.valid /\ line.tag = getTag[b]
                    /\ line.lastReference = Referenced

Stores(b, w) ==
    /\ Count /\ memory' \in [Block -> Data]
    /\ \E line : /\ LineNow(line, b)
                 /\ blocks' = PutLine(blocks, getId[b], w, line)
Hits(b) == Found(b) # {} /\ Stores(b, First(Found(b)))
Misses(b) == Found(b) = {} /\ Stores(b, getReplacementBlockId(getId[b]))

Uses(b) ==
    \/ getByte(b)
    \/ \E o \in Offset, val \in Value :
        WriteHit(b, o, val) \/ WriteMissAllocate(b, o, val)

LEMMA ReferencedIs == TypeOK => Referenced \in Counter
BY CounterAssumption DEF Referenced, Counter, TypeOK

\* Whatever line is replaced, the memory stays a memory.
LEMMA WrittenBackType ==
    ASSUME TypeOK, NEW s \in Sets, NEW w \in Way
    PROVE  WrittenBack(s, w) \in [Block -> Data]
<1>1. memory \in [Block -> Data] /\ blocks[s][w].data \in Data
  BY DEF TypeOK, Line
<1>. QED
  BY <1>1 DEF WrittenBack

LEMMA HitLine ==
    ASSUME TypeOK, NEW b \in Block, Found(b) # {}
    PROVE  /\ First(Found(b)) \in In(blocks, b) /\ First(Found(b)) \in Way
           /\ blocks[getId[b]][First(Found(b))] \in Line
           /\ blocks[getId[b]][First(Found(b))].valid
           /\ blocks[getId[b]][First(Found(b))].tag = getTag[b]
<1>1. First(Found(b)) \in In(blocks, b)
  BY FirstIn, FoundIn DEF In
<1>. QED
  BY <1>1, SetsType DEF In, TypeOK

LEMMA ReadHitStores ==
    ASSUME TypeOK, NEW b \in Block, ReadHit(b)
    PROVE  Hits(b)
<1> DEFINE s == getId[b]
           w == First(Found(b))
           line == [blocks[s][w] EXCEPT !.lastReference = Referenced]
<1>1. /\ Found(b) # {} /\ Count /\ memory' = memory
      /\ blocks' = PutLine(blocks, s, w, line)
  BY DEF ReadHit, PutLine
<1>2. LineNow(line, b)
  BY <1>1, HitLine, ReferencedIs DEF LineNow, Line
<1>3. memory' \in [Block -> Data]
  BY <1>1 DEF TypeOK
<1>. QED
  BY <1>1, <1>2, <1>3 DEF Hits, Stores

LEMMA WriteHitIsHit ==
    ASSUME TypeOK, NEW b \in Block, NEW o \in Offset, NEW val \in Value,
           WriteHit(b, o, val)
    PROVE  Hits(b)
<1> DEFINE s == getId[b]
           w == First(Found(b))
           data == [blocks[s][w].data EXCEPT ![o] = val]
           line == [blocks[s][w] EXCEPT !.modified = TRUE, !.data = data,
                                        !.lastReference = Referenced]
<1>1. /\ Found(b) # {} /\ Count
      /\ memory' = IF writeBack THEN memory ELSE [memory EXCEPT ![b] = data]
      /\ blocks' = PutLine(blocks, s, w, line)
  BY DEF WriteHit, PutLine
<1>2. blocks[s][w] \in Line /\ blocks[s][w].valid /\ blocks[s][w].tag = getTag[b]
  BY <1>1, HitLine
<1>3. data \in Data
  BY <1>2 DEF Line, Data
<1>4. memory' \in [Block -> Data]
  BY <1>1, <1>3 DEF TypeOK
<1> HIDE DEF data
<1>5. LineNow(line, b)
  BY <1>2, <1>3, ReferencedIs DEF LineNow, Line
<1>. QED
  BY <1>1, <1>4, <1>5 DEF Hits, Stores

\* Both kinds of miss load the block into the way that is replaced.
LEMMA LoadIsMiss ==
    ASSUME TypeOK, NEW b \in Block, Found(b) = {}, Count,
           NEW modified \in BOOLEAN, NEW data \in Data,
           memory' = WrittenBack(getId[b], getReplacementBlockId(getId[b])),
           blocks' = [blocks EXCEPT ![getId[b]][getReplacementBlockId(getId[b])] =
                        [valid |-> TRUE, modified |-> modified, tag |-> getTag[b],
                         lastReference |-> Referenced, data |-> data]]
    PROVE  Misses(b)
<1> DEFINE w == getReplacementBlockId(getId[b])
           line == [valid |-> TRUE, modified |-> modified, tag |-> getTag[b],
                    lastReference |-> Referenced, data |-> data]
<1>1. memory' \in [Block -> Data]
  BY WrittenBackType, ReplacementInSet, SetsType DEF TypeOK, Array
<1>2. LineNow(line, b)
  BY ReferencedIs, SetsType DEF LineNow, Line
<1>3. blocks' = PutLine(blocks, getId[b], w, line)
  BY DEF PutLine
<1>. QED
  BY <1>1, <1>2, <1>3 DEF Misses, Stores

LEMMA UseStores ==
    ASSUME TypeOK, NEW b \in Block, Uses(b)
    PROVE  Hits(b) \/ Misses(b)
<1>0. memory[b] \in Data
  BY DEF TypeOK
<1>1. CASE ReadHit(b)
  BY <1>1, ReadHitStores
<1>2. CASE ReadMiss(b)
  BY <1>0, <1>2, LoadIsMiss DEF ReadMiss
<1>3. ASSUME NEW o \in Offset, NEW val \in Value, WriteHit(b, o, val)
      PROVE  Hits(b)
  BY <1>3, WriteHitIsHit
<1>4. ASSUME NEW o \in Offset, NEW val \in Value, WriteMissAllocate(b, o, val)
      PROVE  Misses(b)
  <2>1. [memory[b] EXCEPT ![o] = val] \in Data
    BY <1>0 DEF Data
  <2>. QED
    BY <1>4, <2>1, LoadIsMiss DEF WriteMissAllocate
<1>. QED
  BY <1>1, <1>2, <1>3, <1>4 DEF Uses, getByte

\* A way to hit holds the block, a way to replace is one of the set's.
LEMMA UseHolds ==
    ASSUME ArrayInv, NEW b \in Block, Hits(b) \/ Misses(b)
    PROVE  \E w \in Way, line \in Line :
            /\ LineNow(line, b) /\ In(blocks, b) \subseteq {w}
            /\ Holding(blocks, blocks', b, w, line)
            /\ blocks' = PutLine(blocks, getId[b], w, line)
            /\ IF Found(b) # {} THEN w \in In(blocks, b)
               ELSE w = getReplacementBlockId(getId[b])
<1>0. blocks \in Array /\ Placed(blocks)
  BY DEF ArrayInv, TypeOK, Array
<1>1. CASE Hits(b)
  <2>1. PICK line : /\ LineNow(line, b)
                    /\ blocks' = PutLine(blocks, getId[b], First(Found(b)), line)
    BY <1>1 DEF Hits, Stores
  <2>2. First(Found(b)) \in In(blocks, b) /\ First(Found(b)) \in Way /\ Found(b) # {}
    BY <1>1, HitLine DEF Hits, ArrayInv
  <2>3. In(blocks, b) \subseteq {First(Found(b))}
    BY <1>0, <2>2, UniqueWays
  <2>4. Holding(blocks, blocks', b, First(Found(b)), line)
    BY <1>0, <2>1, <2>2, <2>3, Stored DEF LineNow
  <2>. QED
    BY <2>1, <2>2, <2>3, <2>4 DEF LineNow
<1>2. CASE Misses(b)
  <2> DEFINE w == getReplacementBlockId(getId[b])
  <2>1. PICK line : LineNow(line, b) /\ blocks' = PutLine(blocks, getId[b], w, line)
    BY <1>2 DEF Misses, Stores
  <2>2. w \in Way
    BY <1>0, ReplacementInSet, SetsType
  <2>3. Found(b) = {} /\ In(blocks, b) = {}
    BY <1>2, FoundIn DEF Misses
  <2> HIDE DEF w
  <2>4. Holding(blocks, blocks', b, w, line)
    BY <1>0, <2>1, <2>2, <2>3, Stored DEF LineNow
  <2>. QED
    BY <2>1, <2>2, <2>3, <2>4 DEF w, LineNow
<1>. QED
  BY <1>1, <1>2

LEMMA UseKeeps ==
    ASSUME ArrayInv, NEW b \in Block, Hits(b) \/ Misses(b)
    PROVE  ArrayInv'
<1>1. blocks' \in Array /\ Placed(blocks')
  BY UseHolds DEF Holding
<1>2. Count /\ memory' \in [Block -> Data]
  BY DEF Hits, Misses, Stores
<1>3. referenceCounter' \in Counter /\ policy' = policy
  BY <1>2, ReferencedIs DEF Count, ArrayInv
<1>. QED
  BY <1>1, <1>2, <1>3 DEF ArrayInv, TypeOK, Array

\* The step of a write that goes around the cache, and of nothing.
Passes == /\ blocks' = blocks
          /\ \/ Count /\ memory' \in [Block -> Data]
             \/ UNCHANGED vars

LEMMA NextUses ==
    ASSUME TypeOK, [Next]_vars
    PROVE  Passes \/ \E b \in Block : Hits(b) \/ Misses(b)
<1>1. ASSUME NEW b \in Block, NEW o \in Offset, NEW val \in Value,
             WriteMissAround(b, o, val)
      PROVE  Passes
  <2>1. [memory EXCEPT ![b][o] = val] \in [Block -> Data]
    BY DEF TypeOK, Data
  <2>. QED
    BY <1>1, <2>1 DEF WriteMissAround, Passes
<1>2. ASSUME NEW b \in Block, Uses(b) PROVE Hits(b) \/ Misses(b)
  BY <1>2, UseStores
<1>3. CASE UNCHANGED vars
  BY <1>3 DEF vars, Passes
<1>. QED
  BY <1>1, <1>2, <1>3 DEF Next, setByte, Uses

LEMMA PassKeeps ==
    ASSUME ArrayInv, Passes
    PROVE  ArrayInv'
<1>1. Placed(blocks')
  BY DEF Passes, ArrayInv
<1>2. TypeOK'
  BY ReferencedIs DEF Passes, ArrayInv, TypeOK, Count, vars, policy
<1>. QED
  BY <1>1, <1>2 DEF ArrayInv

LEMMA InitArray == Init => ArrayInv
BY InitInd DEF IndInv, Sound, ArrayInv, TypeOK, Array

LEMMA ArrayStays == Spec => []ArrayInv
<1>1. ArrayInv /\ [Next]_vars => ArrayInv'
  BY NextUses, UseKeeps, PassKeeps DEF ArrayInv
<1>. QED
  BY <1>1, InitArray, PTL DEF Spec

\* Every reachable state is well-typed.
THEOREM TypeCorrect == Spec => []TypeOK
<1>1. ArrayInv => TypeOK
  BY DEF ArrayInv
<1>. QED
  BY <1>1, ArrayStays, PTL

\* getBlockId never has a choice: a block is in one way of its set at most,
\* under every write policy.
THEOREM BlocksAreUnique == Spec => []OneWayPerBlock
<1>1. ArrayInv => OneWayPerBlock
  BY FoundIn, SetsType DEF ArrayInv, Placed, In, OneWayPerBlock
<1>. QED
  BY <1>1, ArrayStays, PTL
-----------------------------------------------------------------------------
(* Every policy: what may happen to a block that is not written through.   *)

LEMMA ContentsAre ==
    \A b \in Block : /\ Contents(b) = At(blocks, memory, b)
                     /\ Contents(b)' = At(blocks', memory', b)
                     /\ Found(b) = In(blocks, b) /\ Found(b)' = In(blocks', b)
BY DEF Contents, At, Found, In

\* An access of b, written through: the memory and the lines of the others
\* stay, unless a line leaves.
Spares(b) ==
    \A x \in Block \ {b} :
        /\ memory'[x] = memory[x]
        /\ Found(x)' = {} \/ Contents(x)' = Contents(x)

\* A use of b does so, and leaves its line in the array.
LEMMA UseSpares ==
    ASSUME ArrayInv, NEW b \in Block, Uses(b),
           \A x \in Block \ {b} : memory'[x] = memory[x]
    PROVE  Spares(b) /\ Found(b)' # {}
<1>1. Hits(b) \/ Misses(b)
  BY UseStores DEF ArrayInv
<1>2. PICK w \in Way, line \in Line : Holding(blocks, blocks', b, w, line)
  BY <1>1, UseHolds
<1>3. Placed(blocks) /\ Placed(blocks') /\ In(blocks', b) = {w}
  BY <1>2 DEF ArrayInv, Holding
<1>4. ASSUME NEW x \in Block \ {b}, Found(x)' # {}
      PROVE  Contents(x)' = Contents(x)
  <2>1. PICK v : v \in In(blocks', x)
    BY <1>4, ContentsAre
  <2>2. v \in In(blocks, x) /\ blocks'[getId[x]][v] = blocks[getId[x]][v]
    BY <1>2, <2>1 DEF Holding
  <2>3. At(blocks, memory, x) = blocks[getId[x]][v].data
    BY <1>3, <2>2, AtFound
  <2>4. At(blocks', memory', x) = blocks'[getId[x]][v].data
    BY <1>3, <2>1, AtFound
  <2>. QED
    BY <2>2, <2>3, <2>4, ContentsAre
<1>. QED
  BY <1>3, <1>4, ContentsAre DEF Spares

\* The bytes that b has once its line has been stored.
LEMMA StoredContents ==
    ASSUME ArrayInv, NEW b \in Block, Uses(b), NEW w \in Way, NEW line,
           line.valid, line.tag = getTag[b],
           blocks' = PutLine(blocks, getId[b], w, line)
    PROVE  Contents(b)' = line.data
<1>1. blocks \in Array /\ getId[b] \in Sets
  BY SetsType DEF ArrayInv, TypeOK, Array
<1>2. blocks'[getId[b]][w] = line
  BY <1>1 DEF PutLine, Array
<1>3. w \in In(blocks', b)
  BY <1>2 DEF In
<1>4. ArrayInv'
  BY UseStores, UseKeeps DEF ArrayInv
<1>. QED
  BY <1>2, <1>3, <1>4, AtFound, ContentsAre DEF ArrayInv

LEMMA ReadSpares ==
    ASSUME ArrayInv, ~writeBack, NEW b \in Block, getByte(b)
    PROVE  /\ Spares(b) /\ memory' = memory /\ Contents(b)' = Contents(b)
<1>1. memory' = memory
  BY DEF getByte, ReadHit, ReadMiss, WrittenBack
<1>2. Uses(b)
  BY DEF Uses
<1>3. Spares(b)
  BY <1>1, <1>2, UseSpares
<1>4. CASE ReadHit(b)
  <2> DEFINE w == First(Found(b))
             line == [blocks[getId[b]][w] EXCEPT !.lastReference = Referenced]
  <2>1. /\ w \in In(blocks, b) /\ w \in Way
        /\ blocks[getId[b]][w] \in Line
        /\ blocks[getId[b]][w].valid /\ blocks[getId[b]][w].tag = getTag[b]
    BY <1>4, HitLine DEF ReadHit, ArrayInv
  <2>2. /\ line.valid /\ line.tag = getTag[b]
        /\ line.data = blocks[getId[b]][w].data
    BY <2>1 DEF Line
  <2>3. blocks' = PutLine(blocks, getId[b], w, line)
    BY <1>4 DEF ReadHit, PutLine
  <2>4. Contents(b) = blocks[getId[b]][w].data
    BY <2>1, AtFound, ContentsAre DEF ArrayInv
  <2>. HIDE DEF w, line
  <2>5. Contents(b)' = line.data
    BY <1>2, <2>1, <2>2, <2>3, StoredContents
  <2>. QED
    BY <1>1, <1>3, <2>2, <2>4, <2>5
<1>5. CASE ReadMiss(b)
  <2> DEFINE w == getReplacementBlockId(getId[b])
             line == [valid |-> TRUE, modified |-> FALSE, tag |-> getTag[b],
                      lastReference |-> Referenced, data |-> memory[b]]
  <2>1. w \in Way
    BY ReplacementInSet, SetsType DEF ArrayInv, TypeOK, Array
  <2>2. blocks' = PutLine(blocks, getId[b], w, line) /\ Found(b) = {}
    BY <1>5 DEF ReadMiss, PutLine
  <2>3. line.valid /\ line.tag = getTag[b] /\ line.data = memory[b]
    OBVIOUS
  <2>4. Contents(b) = memory[b]
    BY <2>2 DEF Contents
  <2>. HIDE DEF w, line
  <2>5. Contents(b)' = line.data
    BY <1>2, <2>1, <2>2, <2>3, StoredContents
  <2>. QED
    BY <1>1, <1>3, <2>3, <2>4, <2>5
<1>. QED
  BY <1>4, <1>5 DEF getByte

\* A hit writes its block through.
LEMMA HitSpares ==
    ASSUME ArrayInv, ~writeBack, NEW b \in Block, NEW o \in Offset,
           NEW val \in Value, WriteHit(b, o, val)
    PROVE  /\ Spares(b) /\ memory'[b] = Contents(b)'
           /\ Contents(b)' = [Contents(b) EXCEPT ![o] = val]
<1> DEFINE w == First(Found(b))
           old == blocks[getId[b]][w]
           data == [old.data EXCEPT ![o] = val]
           line == [old EXCEPT !.modified = TRUE, !.data = data,
                               !.lastReference = Referenced]
<1>1. /\ w \in In(blocks, b) /\ w \in Way /\ old \in Line
      /\ old.valid /\ old.tag = getTag[b]
  BY HitLine DEF WriteHit, ArrayInv
<1>2. /\ blocks' = PutLine(blocks, getId[b], w, line)
      /\ memory' = [memory EXCEPT ![b] = data]
  BY DEF WriteHit, PutLine
<1>3. line.valid /\ line.tag = getTag[b] /\ line.data = data
  <2>. HIDE DEF data
  <2>. QED
    BY <1>1 DEF Line
<1>4. Contents(b) = old.data
  BY <1>1, AtFound, ContentsAre DEF ArrayInv
<1>5. Uses(b)
  BY DEF Uses
<1>. HIDE DEF w, line
<1>6. Contents(b)' = line.data
  BY <1>1, <1>2, <1>3, <1>5, StoredContents
<1>7. /\ memory'[b] = data
      /\ \A x \in Block \ {b} : memory'[x] = memory[x]
  BY <1>2 DEF ArrayInv, TypeOK
<1>8. Spares(b)
  BY <1>5, <1>7, UseSpares
<1>. QED
  BY <1>3, <1>4, <1>6, <1>7, <1>8

LEMMA MissSpares ==
    ASSUME ArrayInv, ~writeBack, NEW b \in Block, NEW o \in Offset,
           NEW val \in Value, WriteMissAllocate(b, o, val)
    PROVE  Spares(b) /\ Contents(b)' = [Contents(b) EXCEPT ![o] = val]
<1> DEFINE w == getReplacementBlockId(getId[b])
           data == [memory[b] EXCEPT ![o] = val]
           line == [valid |-> TRUE, modified |-> TRUE, tag |-> getTag[b],
                    lastReference |-> Referenced, data |-> data]
<1>1. w \in Way
  BY ReplacementInSet, SetsType DEF ArrayInv, TypeOK, Array
<1>2. /\ blocks' = PutLine(blocks, getId[b], w, line)
      /\ Found(b) = {} /\ memory' = memory
  BY DEF WriteMissAllocate, PutLine, WrittenBack
<1>3. line.valid /\ line.tag = getTag[b] /\ line.data = data
  OBVIOUS
<1>4. Contents(b) = memory[b]
  BY <1>2 DEF Contents
<1>5. Uses(b)
  BY DEF Uses
<1>. HIDE DEF w, line
<1>6. Contents(b)' = line.data
  BY <1>1, <1>2, <1>3, <1>5, StoredContents
<1>. QED
  BY <1>2, <1>3, <1>4, <1>5, <1>6, UseSpares

LEMMA AroundSpares ==
    ASSUME ArrayInv, NEW b \in Block, NEW o \in Offset,
           NEW val \in Value, WriteMissAround(b, o, val)
    PROVE  /\ Spares(b) /\ memory'[b] = Contents(b)'
           /\ Contents(b)' = [Contents(b) EXCEPT ![o] = val]
<1>1. /\ blocks' = blocks /\ Found(b) = {}
      /\ memory' = [memory EXCEPT ![b][o] = val]
  BY DEF WriteMissAround
<1>2. /\ memory'[b] = [memory[b] EXCEPT ![o] = val]
      /\ \A x \in Block \ {b} : memory'[x] = memory[x]
  BY <1>1 DEF ArrayInv, TypeOK
<1>3. \A x \in Block \ {b} : Contents(x)' = Contents(x)
  BY <1>1, <1>2, ContentsAre DEF At
<1>4. Contents(b) = memory[b] /\ Contents(b)' = memory'[b]
  <2>1. In(blocks, b) = {}
    BY <1>1, ContentsAre
  <2>2. In(blocks', b) = {}
    BY <1>1, <2>1
  <2>. QED
    BY <2>1, <2>2, ContentsAre, AtAbsent
<1>. QED
  BY <1>2, <1>3, <1>4 DEF Spares

\* If no unwritten block leaves, the other blocks keep their bytes.
LEMMA SparedBytes ==
    ASSUME ~writeBack, NEW b \in Block, Spares(b),
           \A x \in Block : Unwritten(x) => Found(x)' # {}
    PROVE  \A x \in Block \ {b} : Contents(x)' = Contents(x)
<1> SUFFICES ASSUME NEW x \in Block \ {b}, Found(x)' = {}
             PROVE  Contents(x)' = Contents(x)
  BY DEF Spares
<1>1. Contents(x) = memory[x]
  BY DEF Unwritten
<1>2. Contents(x)' = memory'[x]
  BY ContentsAre, AtAbsent
<1>. QED
  BY <1>1, <1>2 DEF Spares

\* The first half of the property, written through.
LEMMA ThroughIsAtomic ==
    ASSUME ArrayInv, ~writeBack, Next,
           \A x \in Block : Unwritten(x) => Found(x)' # {}
    PROVE  \/ Memory!GetByte /\ \E b \in Block : getByte(b)
           \/ \E b \in Block, o \in Offset, val \in Value :
                setByte(b, o, val) /\ Memory!SetByte(b, o, val)
<1>1. ASSUME NEW b \in Block, getByte(b)
      PROVE  Memory!GetByte
  <2>1. \A x \in Block : Contents(x)' = Contents(x)
    BY <1>1, ReadSpares, SparedBytes
  <2>. QED
    BY <2>1 DEF Memory!GetByte
<1>2. ASSUME NEW b \in Block, NEW o \in Offset, NEW val \in Value,
             setByte(b, o, val)
      PROVE  Memory!SetByte(b, o, val)
  <2>1. Spares(b) /\ Contents(b)' = [Contents(b) EXCEPT ![o] = val]
    BY <1>2, HitSpares, MissSpares, AroundSpares DEF setByte
  <2>2. \A x \in Block \ {b} : Contents(x)' = Contents(x)
    BY <2>1, SparedBytes
  <2>3. [x \in Block |-> Contents(x)'] =
            [[x \in Block |-> Contents(x)] EXCEPT ![b] =
                [Contents(b) EXCEPT ![o] = val]]
    BY <2>1, <2>2
  <2>. QED
    BY <2>3 DEF Memory!SetByte
<1>. QED
  BY <1>1, <1>2 DEF Next

\* The second half: where unwritten bytes come from, and what writes them.
LEMMA UnwrittenComes ==
    ASSUME ArrayInv, Next, NEW x \in Block, Unwritten(x)'
    PROVE  IF Unwritten(x)
           THEN \A o \in Offset, val \in Value : ~WriteHit(x, o, val)
           ELSE \E o \in Offset, val \in Value : WriteMissAllocate(x, o, val)
<1>1. ~writeBack
  <2>1. Count
    BY DEF Next, getByte, setByte, ReadHit, ReadMiss, WriteHit,
           WriteMissAllocate, WriteMissAround
  <2>. QED
    BY <2>1 DEF Count, policy, Unwritten
<1>2. Contents(x)' # memory'[x]
  BY DEF Unwritten
<1>3. \A o \in Offset, val \in Value : ~WriteHit(x, o, val)
  BY <1>1, <1>2, HitSpares
<1>4. ASSUME ~Unwritten(x)
      PROVE  \E o \in Offset, val \in Value : WriteMissAllocate(x, o, val)
  <2>1. Contents(x) = memory[x]
    BY <1>1, <1>4 DEF Unwritten
  <2>2. Found(x)' # {}
    BY <1>2, ContentsAre, AtAbsent
  <2>3. ASSUME NEW b \in Block, Spares(b) PROVE b = x
    BY <1>2, <2>1, <2>2, <2>3 DEF Spares
  <2>4. ASSUME NEW b \in Block, getByte(b) PROVE FALSE
    <3>1. b = x /\ memory' = memory /\ Contents(b)' = Contents(b)
      BY <1>1, <2>3, <2>4, ReadSpares
    <3>. QED
      BY <1>2, <2>1, <3>1
  <2>5. PICK b \in Block, o \in Offset, val \in Value : setByte(b, o, val)
    BY <2>4 DEF Next
  <2>6. b = x
    BY <1>1, <2>3, <2>5, HitSpares, MissSpares, AroundSpares DEF setByte
  <2>. QED
    BY <1>2, <1>3, <2>5, <2>6, AroundSpares DEF setByte
<1>. QED
  BY <1>3, <1>4

\* Under every policy, for a cache of any geometry and counter width: an access
\* is its own step of the memory unless an unwritten block leaves with it, and
\* only a write miss that allocates leaves a block unwritten.
THEOREM OnlyUnwrittenIsLost == Spec => MemoryUnlessUnwritten
<1>1. ASSUME ArrayInv, NoLossInv, Next
      PROVE  (\A b \in Block : Unwritten(b) => Found(b)' # {}) =>
                \/ Memory!GetByte /\ \E b \in Block : getByte(b)
                \/ \E b \in Block, o \in Offset, val \in Value :
                     setByte(b, o, val) /\ Memory!SetByte(b, o, val)
  BY <1>1, AccessIsAtomic, ThroughIsAtomic DEF NoLossInv
<1>2. ASSUME ArrayInv, NoLossInv, Next
      PROVE  \A b \in Block : Unwritten(b)' =>
                IF Unwritten(b)
                THEN \A o \in Offset, val \in Value : ~WriteHit(b, o, val)
                ELSE \E o \in Offset, val \in Value : WriteMissAllocate(b, o, val)
  BY <1>2, UnwrittenComes
<1>. QED
  BY <1>1, <1>2, ArrayStays, CurrentStays, PTL DEF Spec, MemoryUnlessUnwritten
-----------------------------------------------------------------------------
(* Until the counter wraps: lastReference orders the lines of a set.       *)

NoWrap == MaxReference < CounterMod

Stamped(a, n) ==
    \A s \in Sets : \A v, w \in Way :
        a[s][v].valid /\ a[s][w].valid =>
            /\ a[s][v].lastReference <= n
            /\ v # w => a[s][v].lastReference # a[s][w].lastReference

LruInv == ArrayInv /\ Stamped(blocks, referenceCounter)

\* Held, LastUse and UsedSince, of an array a.
HeldIn(a) == {b \in Block : In(a, b) # {}}
UsedAt(a, b) == a[getId[b]][First(In(a, b))].lastReference
SinceIn(a) ==
    [b \in Block |-> {x \in HeldIn(a) : /\ b \in HeldIn(a) /\ getId[x] = getId[b]
                                       /\ UsedAt(a, b) < UsedAt(a, x)}]

LEMMA AbstractIs ==
    /\ Held = HeldIn(blocks) /\ Held' = HeldIn(blocks')
    /\ UsedSince = SinceIn(blocks) /\ UsedSince' = SinceIn(blocks')
BY DEF Held, HeldIn, LastUse, UsedAt, UsedSince, SinceIn, Found, In

LEMMA CounterIs == Counter \subseteq Nat
BY CounterAssumption DEF Counter

\* When a held block was used: its line says.
LEMMA UsedAtIs ==
    ASSUME NEW a \in Array, Placed(a), NEW n \in Nat, Stamped(a, n),
           NEW x \in HeldIn(a)
    PROVE  /\ UsedAt(a, x) \in Nat /\ UsedAt(a, x) <= n
           /\ \E v \in Way : In(a, x) = {v}
           /\ \A v \in In(a, x) : UsedAt(a, x) = a[getId[x]][v].lastReference
<1>1. x \in Block /\ getId[x] \in Sets
  BY SetsType DEF HeldIn
<1>2. PICK v \in Way : v \in In(a, x)
  BY DEF HeldIn, In
<1>3. In(a, x) = {v} /\ First(In(a, x)) = v
  BY <1>1, <1>2, UniqueWays
<1>4. UsedAt(a, x) = a[getId[x]][v].lastReference
  BY <1>3 DEF UsedAt
<1>5. a[getId[x]][v] \in Line /\ a[getId[x]][v].valid
  BY <1>1, <1>2 DEF Array, In
<1>6. a[getId[x]][v].lastReference \in Nat
  BY <1>5, CounterIs DEF Line
<1>7. a[getId[x]][v].lastReference <= n
  BY <1>1, <1>2, <1>5 DEF Stamped
<1>. QED
  BY <1>3, <1>4, <1>6, <1>7

\* Two blocks of a set are never used at the same time.
LEMMA UsesDiffer ==
    ASSUME NEW a \in Array, Placed(a), NEW n \in Nat, Stamped(a, n),
           NEW x \in HeldIn(a), NEW y \in HeldIn(a), getId[x] = getId[y], x # y
    PROVE  UsedAt(a, x) # UsedAt(a, y)
<1>1. PICK v \in Way : v \in In(a, x) /\ UsedAt(a, x) = a[getId[x]][v].lastReference
  BY UsedAtIs
<1>2. PICK w \in Way : w \in In(a, y) /\ UsedAt(a, y) = a[getId[y]][w].lastReference
  BY UsedAtIs
<1>3. x \in Block /\ y \in Block /\ getId[x] \in Sets
  BY SetsType DEF HeldIn
<1>4. v # w
  BY <1>1, <1>2, <1>3, SplitAssumption DEF In
<1>. QED
  BY <1>1, <1>2, <1>3, <1>4 DEF Stamped, In

\* A line with a new date: the others of its set stay dated.
LEMMA HoldingStamped ==
    ASSUME NEW a \in Array, Placed(a), NEW n \in Nat, Stamped(a, n),
           NEW b \in Block, NEW w \in Way, NEW line \in Line, line.valid,
           line.tag = getTag[b], line.lastReference = n + 1,
           NEW r, r = PutLine(a, getId[b], w, line)
    PROVE  Stamped(r, n + 1)
<1>1. /\ r[getId[b]][w] = line
      /\ \A t \in Sets, v \in Way :
            ~(t = getId[b] /\ v = w) => r[t][v] = a[t][v]
  BY SetsType DEF PutLine, Array
<1>2. \A t \in Sets, v \in Way : a[t][v].lastReference \in Nat
  BY CounterIs DEF Array, Line
<1>3. ASSUME NEW t \in Sets, NEW v \in Way, r[t][v].valid
      PROVE  r[t][v].lastReference <= n + 1
  BY <1>1, <1>2, <1>3 DEF Stamped
<1>4. ASSUME NEW t \in Sets, NEW v \in Way, NEW u \in Way,
             r[t][v].valid, r[t][u].valid, u # v
      PROVE  r[t][v].lastReference # r[t][u].lastReference
  <2>1. CASE t = getId[b] /\ v = w
    <3>1. r[t][u] = a[t][u] /\ r[t][v] = line
      BY <1>1, <1>4, <2>1
    <3>2. a[t][u].lastReference <= n
      BY <1>4, <3>1 DEF Stamped
    <3>. QED
      BY <1>2, <3>1, <3>2
  <2>2. CASE t = getId[b] /\ u = w
    <3>1. r[t][v] = a[t][v] /\ r[t][u] = line
      BY <1>1, <1>4, <2>2
    <3>2. a[t][v].lastReference <= n
      BY <1>4, <3>1 DEF Stamped
    <3>. QED
      BY <1>2, <3>1, <3>2
  <2>3. CASE ~(t = getId[b] /\ v = w) /\ ~(t = getId[b] /\ u = w)
    <3>1. r[t][v] = a[t][v] /\ r[t][u] = a[t][u]
      BY <1>1, <2>3
    <3>. QED
      BY <1>4, <3>1 DEF Stamped
  <2>. QED
    BY <2>1, <2>2, <2>3
<1>. QED
  BY <1>3, <1>4 DEF Stamped

\* LruSets counts as this module does.
LEMMA CountsAreEqual == \A S : Lru!Cardinality(S) = Cardinality(S)
BY DEF Lru!Cardinality, Cardinality

\* The blocks of b's set that lose way w to b.
Losers(a, b, w) == {x \in Block \ {b} : getId[x] = getId[b] /\ w \in In(a, x)}

\* No block of the set was used before a loser.
LosersAreOldest(a, b, w) ==
    \A x, y \in HeldIn(a) : y \in Losers(a, b, w) /\ getId[x] = getId[b]
        => ~(UsedAt(a, x) < UsedAt(a, y))

\* since, after a use of b that leaves the blocks now.
UsedLast(a, b, now) ==
    [x \in Block |-> IF x \notin now \ {b} THEN {}
                     ELSE IF getId[x] = getId[b] THEN SinceIn(a)[x] \cup {b}
                     ELSE SinceIn(a)[x]]

\* After a use of b: the losers are out, and b was used last.
LEMMA UseOrders ==
    ASSUME NEW a \in Array, Placed(a), NEW n \in Nat, Stamped(a, n),
           NEW b \in Block, NEW w \in Way, NEW line \in Line,
           line.lastReference = n + 1, In(a, b) \subseteq {w},
           NEW r, Holding(a, r, b, w, line), Stamped(r, n + 1),
           LosersAreOldest(a, b, w),
           NEW now, now = (HeldIn(a) \ Losers(a, b, w)) \cup {b}
    PROVE  HeldIn(r) = now /\ SinceIn(r) = UsedLast(a, b, now)
<1> DEFINE out == Losers(a, b, w)
<1>1. /\ r \in Array /\ Placed(r) /\ In(r, b) = {w} /\ r[getId[b]][w] = line
  BY DEF Holding
<1>2. ASSUME NEW x \in Block, x # b
      PROVE  /\ In(r, x) = IF getId[x] = getId[b] THEN In(a, x) \ {w} ELSE In(a, x)
             /\ \A v \in In(r, x) : r[getId[x]][v] = a[getId[x]][v]
  BY <1>2 DEF Holding
<1>3. ASSUME NEW x \in HeldIn(a), x # b
      PROVE  IF x \in out THEN In(r, x) = {} ELSE In(r, x) = In(a, x) /\ In(a, x) # {}
  <2>1. PICK v \in Way : In(a, x) = {v}
    BY UsedAtIs
  <2>. QED
    BY <1>2, <1>3, <2>1 DEF Losers, HeldIn
<1>4. HeldIn(r) = now
  <2>1. ASSUME NEW x \in Block PROVE x \in HeldIn(r) <=> x \in now
    <3>1. CASE x = b
      BY <1>1, <3>1 DEF HeldIn
    <3>2. CASE x # b /\ x \in HeldIn(a)
      BY <1>3, <3>2 DEF HeldIn
    <3>3. CASE x # b /\ x \notin HeldIn(a)
      BY <1>2, <3>3 DEF HeldIn
    <3>. QED
      BY <3>1, <3>2, <3>3
  <2>. QED
    BY <2>1 DEF HeldIn
<1>5. ASSUME NEW x \in now \ {b}
      PROVE  /\ x \in HeldIn(a) /\ x \in HeldIn(r) /\ x \notin out /\ x \in Block
             /\ UsedAt(r, x) = UsedAt(a, x)
             /\ UsedAt(a, x) \in Nat /\ UsedAt(a, x) <= n
  <2>1. x \in HeldIn(a) /\ x \in HeldIn(r) /\ x \notin out /\ x \in Block
    BY <1>4 DEF HeldIn
  <2>2. In(r, x) = In(a, x) /\ In(a, x) # {}
    BY <1>3, <2>1
  <2>3. PICK v \in Way : v \in In(a, x)
    BY <2>2 DEF In
  <2>4. r[getId[x]][v] = a[getId[x]][v]
    BY <1>2, <2>1, <2>2, <2>3
  <2>5. UsedAt(a, x) = a[getId[x]][v].lastReference
        /\ UsedAt(a, x) \in Nat /\ UsedAt(a, x) <= n
    BY <2>1, <2>3, UsedAtIs
  <2>6. UsedAt(r, x) = r[getId[x]][v].lastReference
    BY <1>1, <2>1, <2>2, <2>3, UsedAtIs
  <2>. QED
    BY <2>1, <2>4, <2>5, <2>6
<1>6. UsedAt(r, b) = n + 1 /\ b \in HeldIn(r)
  BY <1>1, <1>4, UsedAtIs
<1> HIDE DEF out
<1>7. \A x \in now : x \in Block
  BY <1>5
<1>8. ASSUME NEW x \in Block
      PROVE  SinceIn(r)[x] = IF x \notin now \ {b} THEN {}
                             ELSE IF getId[x] = getId[b] THEN SinceIn(a)[x] \cup {b}
                             ELSE SinceIn(a)[x]
  <2>0. /\ SinceIn(r)[x] = {y \in now : /\ x \in now /\ getId[y] = getId[x]
                                       /\ UsedAt(r, x) < UsedAt(r, y)}
        /\ SinceIn(a)[x] = {y \in HeldIn(a) : /\ x \in HeldIn(a) /\ getId[y] = getId[x]
                                             /\ UsedAt(a, x) < UsedAt(a, y)}
    BY <1>4 DEF SinceIn
  <2>1. CASE x \notin now
    BY <2>0, <2>1
  <2>2. CASE x = b
    <3>1. ASSUME NEW y \in now PROVE ~(UsedAt(r, b) < UsedAt(r, y))
      BY <1>5, <1>6
    <3>. QED
      BY <2>0, <2>2, <3>1
  <2>3. CASE x \in now \ {b}
    <3>1. x \in HeldIn(a) /\ UsedAt(r, x) = UsedAt(a, x) /\ UsedAt(a, x) < n + 1
      BY <1>5, <2>3
    <3>2. ASSUME NEW y
          PROVE  y \in SinceIn(r)[x] <=>
                    \/ y = b /\ getId[x] = getId[b]
                    \/ y \in SinceIn(a)[x] /\ y # b
      <4>1. CASE y = b
        BY <1>4, <1>6, <2>0, <2>3, <3>1, <4>1
      <4>2. CASE y # b /\ y \in now
        <5>1. y \in HeldIn(a) /\ UsedAt(r, y) = UsedAt(a, y)
          BY <1>5, <4>2
        <5>. QED
          BY <2>0, <2>3, <3>1, <4>2, <5>1
      <4>3. CASE y # b /\ y \notin now
        <5>1. y \notin SinceIn(r)[x]
          BY <2>0, <4>3
        <5>2. y \in HeldIn(a) => y \in Losers(a, b, w)
          BY <4>3 DEF out
        <5>3. y \in SinceIn(a)[x] =>
                y \in HeldIn(a) /\ getId[y] = getId[x] /\ UsedAt(a, x) < UsedAt(a, y)
          BY <2>0
        <5>4. y \notin SinceIn(a)[x]
          BY <3>1, <5>2, <5>3 DEF Losers, LosersAreOldest
        <5>. QED
          BY <4>3, <5>1, <5>4
      <4>. QED
        BY <4>1, <4>2, <4>3
    <3>3. b \in SinceIn(a)[x] => getId[x] = getId[b]
      BY <2>0
    <3>. QED
      BY <2>3, <3>2, <3>3
  <2>. QED
    BY <2>1, <2>2, <2>3
<1>. QED
  BY <1>4, <1>8 DEF SinceIn, UsedLast

RivalsIn(a, b) == {x \in HeldIn(a) : getId[x] = getId[b]}
Taken(a, b) == {w \in Way : a[getId[b]][w].valid}

\* A set holds as many blocks as it has valid ways.
LEMMA RivalCount ==
    ASSUME NEW a \in Array, Placed(a), NEW b \in Block
    PROVE  /\ Cardinality(RivalsIn(a, b)) = Cardinality(Taken(a, b))
           /\ Cardinality(Taken(a, b)) \in Nat
           /\ Cardinality(Taken(a, b)) < Associativity <=> Taken(a, b) # Way
<1> DEFINE s == getId[b]
           ways == Taken(a, b)
           rivals == RivalsIn(a, b)
           f == [w \in ways |-> CHOOSE x \in Block : getId[x] = s /\ w \in In(a, x)]
<1>0. s \in Sets
  BY SetsType
<1>1. IsFiniteSet(Way) /\ Cardinality(Way) = Associativity
  BY WayAssumption, FS_Interval DEF Way
<1>2. ways \in SUBSET Way
  BY DEF Taken
<1>3. /\ IsFiniteSet(ways) /\ Cardinality(ways) <= Associativity
      /\ Cardinality(ways) = Associativity => ways = Way
      /\ Cardinality(ways) \in Nat
  <2> HIDE DEF ways
  <2>. QED
    BY <1>1, <1>2, FS_Subset, FS_CardinalityType
<1>4. ASSUME NEW w \in ways
      PROVE  f[w] \in Block /\ getId[f[w]] = s /\ w \in In(a, f[w])
  <2>1. \E x \in Block : getId[x] = s /\ w \in In(a, x)
    BY <1>0, LineHasBlock DEF Taken
  <2>. QED
    BY <2>1
<1>5. \A w \in ways : f[w] \in rivals
  BY <1>4 DEF RivalsIn, HeldIn
<1>6. \A v, w \in ways : f[v] = f[w] => v = w
  <2>1. SUFFICES ASSUME NEW v \in ways, NEW w \in ways, f[v] = f[w] PROVE v = w
    OBVIOUS
  <2>2. v \in In(a, f[w]) /\ w \in In(a, f[w]) /\ f[w] \in Block
    BY <1>4, <2>1
  <2> HIDE DEF f
  <2>. QED
    BY <2>2, UniqueWays
<1>7. \A x \in rivals : \E w \in ways : f[w] = x
  <2>1. SUFFICES ASSUME NEW x \in rivals PROVE \E w \in ways : f[w] = x
    OBVIOUS
  <2>2. x \in Block /\ getId[x] = s /\ In(a, x) # {}
    BY DEF RivalsIn, HeldIn
  <2>3. PICK w \in In(a, x) : TRUE
    BY <2>2
  <2>4. w \in ways
    BY <2>2 DEF In, Taken
  <2>5. f[w] \in Block /\ getId[f[w]] = s /\ w \in In(a, f[w])
    BY <1>4, <2>4
  <2> HIDE DEF f
  <2>6. f[w] = x
    BY <2>2, <2>3, <2>5, SplitAssumption DEF In
  <2>. QED
    BY <2>4, <2>6
<1>8. f \in [ways -> rivals]
  <2> HIDE DEF rivals
  <2>. QED
    BY <1>5
<1> HIDE DEF f, ways, rivals
<1>9. f \in Bijection(ways, rivals)
  BY <1>6, <1>7, <1>8 DEF Bijection, Injection, Surjection, IsInjective
<1>10. ExistsBijection(ways, rivals)
  BY <1>9 DEF ExistsBijection
<1>11. Cardinality(rivals) = Cardinality(ways)
  BY <1>3, <1>10, FS_Bijection
<1>12. Cardinality(ways) < Associativity <=> ways # Way
  BY <1>1, <1>3, WayAssumption
<1>. QED
  BY <1>3, <1>11, <1>12 DEF ways, rivals

\* getReplacementBlockId gives an unused way, or that of the block used first.
LEMMA ReplacedIsOldest ==
    ASSUME LruInv, NEW b \in Block, In(blocks, b) = {},
           NEW w, w = getReplacementBlockId(getId[b])
    PROVE  \/ /\ Cardinality(RivalsIn(blocks, b)) < Associativity
              /\ Losers(blocks, b, w) = {}
           \/ /\ ~(Cardinality(RivalsIn(blocks, b)) < Associativity)
              /\ \E old \in RivalsIn(blocks, b) :
                    /\ Losers(blocks, b, w) = {old}
                    /\ \A x \in RivalsIn(blocks, b) \ {old} :
                            UsedAt(blocks, old) < UsedAt(blocks, x)
<1> DEFINE s == getId[b]
           rivals == RivalsIn(blocks, b)
           free == {v \in Way : ~blocks[s][v].valid}
           oldest == {v \in Way : \A x \in Way :
                        blocks[s][v].lastReference <= blocks[s][x].lastReference}
<1>1. /\ blocks \in Array /\ Placed(blocks) /\ referenceCounter \in Nat
      /\ Stamped(blocks, referenceCounter) /\ s \in Sets
  BY CounterIs, SetsType DEF LruInv, ArrayInv, TypeOK, Array
<1>2. Cardinality(rivals) < Associativity <=> Taken(blocks, b) # Way
  BY <1>1, RivalCount
<1>3. w = IF free # {} THEN First(free) ELSE First(oldest)
  BY DEF getReplacementBlockId
<1>4. \A x \in Block : x # b /\ getId[x] = s /\ In(blocks, x) # {} => x \in rivals
  BY DEF RivalsIn, HeldIn
<1>5. CASE free # {}
  <2>1. w \in free
    BY <1>3, <1>5, FirstIn
  <2>2. Taken(blocks, b) # Way
    BY <2>1 DEF Taken
  <2>3. Losers(blocks, b, w) = {}
    BY <2>1 DEF Losers, In
  <2>. QED
    BY <1>2, <2>2, <2>3
<1>6. CASE free = {}
  <2>1. w \in Way
    BY <1>1, ReplacementInSet
  <2>2. /\ Taken(blocks, b) = Way
        /\ \A v \in Way : blocks[s][v].valid
    BY <1>6 DEF Taken
  <2>3. oldest # {}
    <3> DEFINE ages == {blocks[s][v].lastReference : v \in Way}
    <3>1. 0 \in Way
      BY WayAssumption DEF Way
    <3>2. ages \subseteq Nat /\ ages # {}
      <4>1. \A v \in Way : blocks[s][v].lastReference \in Counter
        BY <1>1 DEF Array, Line
      <4>. QED
        BY <3>1, <4>1, CounterIs
    <3>3. PICK x \in ages : \A y \in ages : x <= y
      BY <3>2, Smallest
    <3>. QED
      BY <3>3
  <2>4. w \in oldest
    BY <1>3, <1>6, <2>3, FirstIn
  <2>5. PICK old \in Block : getId[old] = s /\ w \in In(blocks, old)
    BY <1>1, <2>1, <2>2, LineHasBlock
  <2>6. old # b /\ old \in rivals /\ old \in HeldIn(blocks)
    BY <1>4, <2>5 DEF HeldIn
  <2>7. Losers(blocks, b, w) = {old}
    <3>1. \A x \in Block : getId[x] = s /\ w \in In(blocks, x) => x = old
      BY <2>5, SplitAssumption DEF In
    <3>. QED
      BY <2>5, <2>6, <3>1 DEF Losers
  <2>8. ASSUME NEW x \in rivals \ {old}
        PROVE  UsedAt(blocks, old) < UsedAt(blocks, x)
    <3>1. x \in HeldIn(blocks) /\ getId[x] = s
      BY DEF RivalsIn
    <3>2. PICK v \in Way :
            v \in In(blocks, x) /\ UsedAt(blocks, x) = blocks[s][v].lastReference
      BY <1>1, <3>1, UsedAtIs
    <3>3. UsedAt(blocks, old) = blocks[s][w].lastReference
      BY <1>1, <2>5, <2>6, UsedAtIs
    <3>4. blocks[s][w].lastReference <= blocks[s][v].lastReference
      BY <2>4, <3>2
    <3>5. UsedAt(blocks, old) # UsedAt(blocks, x)
      BY <1>1, <2>5, <2>6, <3>1, UsesDiffer
    <3>6. UsedAt(blocks, old) \in Nat /\ UsedAt(blocks, x) \in Nat
      BY <1>1, <2>6, <3>1, UsedAtIs
    <3>. QED
      BY <3>2, <3>3, <3>4, <3>5, <3>6
  <2>. QED
    BY <1>2, <2>2, <2>6, <2>7, <2>8
<1>. QED
  BY <1>5, <1>6
-----------------------------------------------------------------------------
(* The refinement of LruSets.                                              *)

LEMMA UseIsAccess ==
    ASSUME NoWrap, LruInv, NEW b \in Block, Hits(b) \/ Misses(b)
    PROVE  LruInv' /\ Lru!Access(b)
<1> DEFINE n == referenceCounter
<1>1. /\ blocks \in Array /\ Placed(blocks) /\ n \in Nat
      /\ Stamped(blocks, n) /\ ArrayInv
  BY CounterIs DEF LruInv, ArrayInv, TypeOK, Array
<1>2. Referenced = n + 1 /\ referenceCounter' = n + 1
  <2>1. Count
    BY DEF Hits, Misses, Stores
  <2>. QED
    BY <1>1, <2>1, CounterAssumption DEF Count, NoWrap, Referenced
<1>3. PICK w \in Way, line \in Line :
        /\ LineNow(line, b) /\ In(blocks, b) \subseteq {w}
        /\ Holding(blocks, blocks', b, w, line)
        /\ blocks' = PutLine(blocks, getId[b], w, line)
        /\ IF Found(b) # {} THEN w \in In(blocks, b)
           ELSE w = getReplacementBlockId(getId[b])
  BY <1>1, UseHolds
<1>4. line \in Line /\ line.valid /\ line.tag = getTag[b] /\ line.lastReference = n + 1
  BY <1>2, <1>3 DEF LineNow
<1>5. Stamped(blocks', n + 1)
  BY <1>1, <1>3, <1>4, HoldingStamped
<1>6. LruInv'
  BY <1>1, <1>2, <1>5, UseKeeps DEF LruInv
<1> DEFINE out == Losers(blocks, b, w)
           now == (HeldIn(blocks) \ out) \cup {b}
<1>7. ASSUME LosersAreOldest(blocks, b, w)
      PROVE  Lru!Used(b, now)
  <2>1. HeldIn(blocks') = now /\ SinceIn(blocks') = UsedLast(blocks, b, now)
    <3>2. /\ n \in Nat /\ Stamped(blocks, n) /\ Stamped(blocks', n + 1)
          /\ line.lastReference = n + 1
      BY <1>1, <1>4, <1>5
    <3>3. now = (HeldIn(blocks) \ Losers(blocks, b, w)) \cup {b}
      BY DEF out
    <3> HIDE DEF n, now
    <3>. QED
      BY <1>1, <1>3, <1>4, <1>7, <3>2, <3>3, UseOrders
  <2> HIDE DEF now
  <2>. QED
    BY <2>1, AbstractIs DEF Lru!Used, UsedLast
<1>8. /\ Held = HeldIn(blocks) /\ UsedSince = SinceIn(blocks)
      /\ Lru!Rivals(b) = RivalsIn(blocks, b)
      /\ Lru!Cardinality(Lru!Rivals(b)) = Cardinality(RivalsIn(blocks, b))
  BY AbstractIs, CountsAreEqual DEF Lru!Rivals, RivalsIn
<1>9. CASE Found(b) # {}
  <2>1. b \in HeldIn(blocks) /\ w \in In(blocks, b)
    BY <1>3, <1>9, FoundIn DEF HeldIn
  <2>2. out = {} /\ now = HeldIn(blocks)
    BY <2>1, SplitAssumption DEF Losers, In
  <2>3. Lru!Used(b, HeldIn(blocks))
    BY <1>7, <2>2 DEF LosersAreOldest
  <2>. QED
    BY <1>6, <1>8, <2>1, <2>3 DEF Lru!Use, Lru!Access
<1>10. CASE Found(b) = {}
  <2>1. /\ In(blocks, b) = {} /\ b \notin HeldIn(blocks)
        /\ w = getReplacementBlockId(getId[b])
    BY <1>3, <1>10, FoundIn DEF HeldIn
  <2>2. CASE /\ Cardinality(RivalsIn(blocks, b)) < Associativity
             /\ out = {}
    <3>1. Lru!Used(b, HeldIn(blocks) \cup {b})
      BY <1>7, <2>2 DEF LosersAreOldest
    <3>2. Lru!Take(b)
      BY <1>8, <2>1, <2>2, <3>1 DEF Lru!Take
    <3>. QED
      BY <1>6, <3>2 DEF Lru!Access
  <2>3. ASSUME NEW old \in RivalsIn(blocks, b), out = {old},
               ~(Cardinality(RivalsIn(blocks, b)) < Associativity),
               \A x \in RivalsIn(blocks, b) \ {old} :
                    UsedAt(blocks, old) < UsedAt(blocks, x)
        PROVE  Lru!Access(b)
    <3>1. ASSUME NEW x \in HeldIn(blocks), getId[x] = getId[b]
          PROVE  ~(UsedAt(blocks, x) < UsedAt(blocks, old))
      <4>1. UsedAt(blocks, old) \in Nat /\ UsedAt(blocks, x) \in Nat
        BY <1>1, UsedAtIs DEF RivalsIn
      <4>2. x = old \/ UsedAt(blocks, old) < UsedAt(blocks, x)
        BY <2>3, <3>1 DEF RivalsIn
      <4>. QED
        BY <4>1, <4>2
    <3>2. Lru!Used(b, (HeldIn(blocks) \ {old}) \cup {b})
      BY <1>7, <2>3, <3>1 DEF LosersAreOldest
    <3>3. RivalsIn(blocks, b) \ {old} \subseteq SinceIn(blocks)[old]
      BY <2>3 DEF RivalsIn, SinceIn, HeldIn
    <3>4. Lru!Replace(b, old)
      BY <1>8, <2>1, <2>3, <3>2, <3>3 DEF Lru!Replace
    <3>. QED
      BY <1>8, <3>4 DEF Lru!Access
  <2>. QED
    BY <1>6, <2>1, <2>2, <2>3, ReplacedIsOldest
<1>. QED
  BY <1>9, <1>10

LEMMA NextIsAccess ==
    ASSUME NoWrap, LruInv, [Next]_vars
    PROVE  /\ LruInv'
           /\ [Lru!Next]_<<Held, UsedSince>>
           /\ \A b \in Block : Uses(b) => Lru!Access(b)
<1>1. TypeOK
  BY DEF LruInv, ArrayInv
<1>2. \A b \in Block : Uses(b) => Lru!Access(b)
  BY <1>1, UseStores, UseIsAccess
<1>3. CASE Passes
  <2>1. Stamped(blocks', referenceCounter')
    <3>1. referenceCounter' >= referenceCounter /\ referenceCounter' \in Nat
      BY <1>1, <1>3, CounterAssumption
         DEF Passes, Count, Referenced, NoWrap, vars, TypeOK, Counter
    <3>2. \A s \in Sets, v \in Way : blocks[s][v].lastReference \in Nat
      BY <1>1, CounterIs DEF TypeOK, Line
    <3>3. referenceCounter \in Nat
      BY <1>1, CounterIs DEF TypeOK
    <3>. QED
      BY <1>3, <3>1, <3>2, <3>3 DEF Passes, LruInv, Stamped
  <2>2. LruInv'
    BY <1>3, <2>1, PassKeeps DEF LruInv
  <2>3. UNCHANGED <<Held, UsedSince>>
    BY <1>3, AbstractIs DEF Passes
  <2>. QED
    BY <1>2, <2>2, <2>3
<1>4. ASSUME NEW b \in Block, Hits(b) \/ Misses(b)
      PROVE  LruInv' /\ Lru!Next
  BY <1>4, UseIsAccess DEF Lru!Next
<1>. QED
  BY <1>1, <1>2, <1>3, <1>4, NextUses

LEMMA InitIsEmpty == Init => LruInv /\ Lru!Init
<1>1. SUFFICES ASSUME Init PROVE LruInv /\ Lru!Init
  OBVIOUS
<1>2. \A s \in Sets, w \in Way : ~blocks[s][w].valid
  BY <1>1 DEF Init
<1>3. LruInv
  BY <1>1, <1>2, InitArray DEF LruInv, Stamped
<1>4. HeldIn(blocks) = {}
  BY <1>2, SetsType DEF HeldIn, In
<1>5. SinceIn(blocks) = [b \in Block |-> {}]
  BY <1>4 DEF SinceIn
<1>. QED
  BY <1>3, <1>4, <1>5, AbstractIs DEF Lru!Init

\* Until referenceCounter wraps, a cache of any geometry replaces the least
\* recently used block of a full set, whatever the write policy.
THEOREM CacheIsLru == ASSUME NoWrap PROVE Spec => ReplacesLru
<1>1. LruInv /\ [Next]_vars => LruInv'
  BY NextIsAccess
<1>2. LruInv /\ [Next]_vars => [Lru!Next]_<<Held, UsedSince>>
  BY NextIsAccess
<1>3. LruInv /\ [Next]_vars =>
        [\A b \in Block :
            \/ getByte(b)
            \/ \E o \in Offset, val \in Value :
                WriteHit(b, o, val) \/ WriteMissAllocate(b, o, val)
            => Lru!Access(b)]_vars
  BY NextIsAccess DEF Uses
<1>4. Spec => Lru!Spec
  BY <1>1, <1>2, InitIsEmpty, PTL DEF Spec, Lru!Spec
<1>5. Spec => AccessesAreUses
  BY <1>1, <1>3, InitIsEmpty, PTL DEF Spec, AccessesAreUses
<1>. QED
  BY <1>4, <1>5 DEF ReplacesLru
-----------------------------------------------------------------------------
(* How addresses split.  SplitAssumption takes for granted that a tag and  *)
(* an index name one block; here this is proved of getTag and getId, for   *)
(* addresses of any width and each policy that the constructor accepts.    *)

CONSTANT AddrBits
Split == INSTANCE AddressSplit

LEMMA TwoIs ==
    ASSUME AddrBits \in Nat \ {0}
    PROVE  /\ \A k \in 0 .. AddrBits : Split!Two[k] \in Nat \ {0}
           /\ Split!Two[0] = 1
           /\ \A k \in 0 .. AddrBits - 1 : Split!Two[k + 1] = 2 * Split!Two[k]
  <1> DEFINE N == Nat \ {0}
             E == [x \in N \X (1 .. AddrBits) |-> 2 * x[1]]
             IsTwo(f) == f = [k \in 0 .. AddrBits |-> IF k = 0 THEN 1 ELSE 2 * f[k - 1]]
  <1>1. Stepper(E, N, AddrBits)
      BY DEF Stepper
  <1>2. \A x \in N : \A i \in 1 .. AddrBits : E[<<x, i>>] = 2 * x
      OBVIOUS
  <1> HIDE DEF E
  <1>3. PICK f : Iterates(f, E, N, 1, AddrBits)
    <2>1. 1 \in N
        OBVIOUS
    <2> QED
        BY <1>1, <2>1, IterationExists
  <1>4. IsTwo(f)
    <2>1. f \in [0 .. AddrBits -> N] /\ f[0] = 1
        BY <1>3 DEF Iterates
    <2>2. ASSUME NEW k \in 0 .. AddrBits, k # 0
          PROVE  f[k] = 2 * f[k - 1]
      <3>1. k \in 1 .. AddrBits /\ f[k - 1] \in N
          BY <2>1, <2>2
      <3>2. f[k] = E[<<f[k - 1], k>>]
          BY <1>3, <3>1 DEF Iterates
      <3> QED
          BY <1>2, <3>1, <3>2
    <2> QED
        BY <2>1, <2>2
  <1>5. IsTwo(Split!Two)
    <2>1. Split!Two = CHOOSE g : IsTwo(g)
        BY DEF Split!Two
    <2> HIDE DEF IsTwo
    <2> QED
        BY <1>4, <2>1
  <1>6. /\ DOMAIN Split!Two = 0 .. AddrBits /\ Split!Two[0] = 1
        /\ \A k \in 0 .. AddrBits - 1 : Split!Two[k + 1] = 2 * Split!Two[k]
      BY <1>5
  <1> DEFINE T == {n \in Nat : n <= AddrBits => Split!Two[n] \in Nat \ {0}}
  <1>7. 0 \in T
      BY <1>6
  <1>8. \A n \in Nat : n \in T => n + 1 \in T
      BY <1>6
  <1>9. Nat \subseteq T
    <2> HIDE DEF T
    <2> QED
        BY <1>7, <1>8, Induction
  <1> QED
      BY <1>6, <1>9

LEMMA TwoIsAdditive ==
    ASSUME AddrBits \in Nat \ {0}, NEW a \in Nat, NEW b \in Nat, a + b <= AddrBits
    PROVE  Split!Two[a + b] = Split!Two[a] * Split!Two[b]
  <1> DEFINE T == {n \in Nat : a + n <= AddrBits =>
                        Split!Two[a + n] = Split!Two[a] * Split!Two[n]}
  <1>1. 0 \in T
      BY TwoIs
  <1>2. ASSUME NEW n \in T, a + (n + 1) <= AddrBits
        PROVE  Split!Two[a + (n + 1)] = Split!Two[a] * Split!Two[n + 1]
    <2>1. n \in 0 .. AddrBits - 1 /\ a + n \in 0 .. AddrBits - 1 /\ a \in 0 .. AddrBits
        BY <1>2
    <2>2. PICK x \in Int, y \in Int : x = Split!Two[a] /\ y = Split!Two[n]
        BY <2>1, TwoIs
    <2>3. Split!Two[a + n] = x * y /\ Split!Two[n + 1] = 2 * y
        BY <1>2, <2>1, <2>2, TwoIs
    <2>4. a + (n + 1) = (a + n) + 1
        BY <2>1
    <2>5. Split!Two[a + (n + 1)] = 2 * (x * y)
        BY <2>1, <2>3, <2>4, TwoIs
    <2>6. 2 * (x * y) = x * (2 * y)
        OBVIOUS
    <2> QED
        BY <2>2, <2>3, <2>5, <2>6
  <1>3. \A n \in Nat : n \in T => n + 1 \in T
      BY <1>2
  <1>4. Nat \subseteq T
    <2> HIDE DEF T
    <2> QED
        BY <1>1, <1>3, Induction
  <1> QED
      BY <1>4

LEMMA TwoGrows ==
    ASSUME AddrBits \in Nat \ {0}, NEW a \in 0 .. AddrBits, NEW b \in 0 .. AddrBits,
           a < b
    PROVE  Split!Two[a] < Split!Two[b] /\ 2 * Split!Two[a] <= Split!Two[b]
  <1> DEFINE d == (b - a) - 1
  <1>1. d \in 0 .. AddrBits - 1 /\ d + 1 \in 0 .. AddrBits /\ a + (d + 1) = b
      OBVIOUS
  <1> HIDE DEF d
  <1>2. PICK x \in Nat \ {0}, y \in Nat \ {0} : x = Split!Two[a] /\ y = Split!Two[d]
      BY <1>1, TwoIs
  <1>3. Split!Two[b] = x * (2 * y)
    <2>1. Split!Two[a + (d + 1)] = Split!Two[a] * Split!Two[d + 1]
      <3>1. a \in Nat /\ d + 1 \in Nat /\ a + (d + 1) <= AddrBits
          BY <1>1
      <3> QED
          BY <3>1, TwoIsAdditive
    <2>2. Split!Two[d + 1] = 2 * y
        BY <1>1, <1>2, TwoIs
    <2> QED
        BY <1>1, <1>2, <2>1, <2>2
  <1>4. x * (2 * y) >= 2 * x
    <2>1. x * y >= x
        BY <1>2
    <2>2. x * (2 * y) = 2 * (x * y) /\ x * y \in Int
        OBVIOUS
    <2> QED
        BY <2>1, <2>2
  <1> QED
      BY <1>2, <1>3, <1>4

\* log2i is the logarithm, rounded down.
LEMMA LogIs ==
    ASSUME AddrBits \in Nat \ {0}, NEW v \in Nat \ {0}, v < Split!Two[AddrBits]
    PROVE  /\ Split!log2i(v) \in 0 .. AddrBits - 1
           /\ Split!Two[Split!log2i(v)] <= v
           /\ \A k \in 0 .. AddrBits - 1 : v = Split!Two[k] => Split!log2i(v) = k
  <1> DEFINE Log(k) == Split!Two[k] <= v /\ v < Split!Two[k + 1]
             T == {n \in Nat : n <= AddrBits /\ v < Split!Two[n] =>
                        \E k \in 0 .. AddrBits - 1 : Log(k)}
  <1>1. 0 \in T
      BY TwoIs
  <1>2. ASSUME NEW n \in T, n + 1 <= AddrBits, v < Split!Two[n + 1]
        PROVE  \E k \in 0 .. AddrBits - 1 : Log(k)
    <2>1. n \in 0 .. AddrBits - 1 /\ Split!Two[n] \in Nat
        BY <1>2, TwoIs
    <2>2. CASE v < Split!Two[n]
        BY <1>2, <2>1, <2>2
    <2>3. CASE ~(v < Split!Two[n])
        BY <1>2, <2>1, <2>3
    <2> QED
        BY <2>2, <2>3
  <1>3. \A n \in Nat : n \in T => n + 1 \in T
      BY <1>2
  <1>4. Nat \subseteq T
    <2> HIDE DEF T
    <2> QED
        BY <1>1, <1>3, Induction
  <1>5. \E k \in 0 .. AddrBits - 1 : Log(k)
      BY <1>4
  <1>6. Split!log2i(v) \in 0 .. AddrBits - 1 /\ Log(Split!log2i(v))
      BY <1>5 DEF Split!log2i
  <1>7. ASSUME NEW k \in 0 .. AddrBits - 1, v = Split!Two[k]
        PROVE  Split!log2i(v) = k
    <2>1. PICK l \in 0 .. AddrBits - 1 : l = Split!log2i(v)
        BY <1>6
    <2>2. Split!Two[l] <= Split!Two[k] /\ Split!Two[k] < Split!Two[l + 1]
        BY <1>6, <1>7, <2>1
    <2>3. /\ l \in 0 .. AddrBits /\ k \in 0 .. AddrBits /\ l + 1 \in 0 .. AddrBits
          /\ Split!Two[l] \in Nat /\ Split!Two[k] \in Nat /\ Split!Two[l + 1] \in Nat
        BY TwoIs
    <2>4. ~(k < l)
        BY <2>2, <2>3, TwoGrows
    <2>5. ~(l + 1 <= k)
      <3> SUFFICES ASSUME l + 1 <= k PROVE FALSE
          OBVIOUS
      <3>1. CASE l + 1 = k
          BY <2>2, <2>3, <3>1
      <3>2. CASE l + 1 < k
          BY <2>2, <2>3, <3>2, TwoGrows
      <3> QED
          BY <3>1, <3>2
    <2> QED
        BY <2>1, <2>4, <2>5
  <1> QED
      BY <1>6, <1>7

\* What the constructor is given: words of the width of an address.
Policy == [cacheSize : Split!Addr, blockSize : Split!Addr, blockNum : Split!Addr,
           associativity : Split!Addr \ {0}]

\* The constructor accepts p, and not because blockNum * blockSize wraps.
Accepted(p) == /\ Split!isPolicyValid(p)
               /\ p.blockNum * p.blockSize < Split!Two[AddrBits]
SetsOf(p) == p.blockNum \div p.associativity

\* Such a policy leaves at least one bit to the tag.
LEMMA PolicyIs ==
    ASSUME AddrBits \in Nat \ {0}, NEW p \in Policy, Accepted(p)
    PROVE  /\ Split!offsetBits(p) \in 0 .. AddrBits - 1
           /\ Split!Two[Split!offsetBits(p)] = p.blockSize
           /\ Split!idBits(p) \in 0 .. AddrBits - 1
           /\ SetsOf(p) \in Nat /\ Split!Two[Split!idBits(p)] <= SetsOf(p)
           /\ Split!offsetBits(p) + Split!idBits(p) < AddrBits
  <1> DEFINE M == Split!Two[AddrBits]
             o == Split!offsetBits(p)
             i == Split!idBits(p)
  <1>1. M \in Nat \ {0} /\ AddrBits \in 0 .. AddrBits
      BY TwoIs
  <1> HIDE DEF M
  <1>2. PICK B \in Nat, N \in Nat, W \in Nat \ {0}, C \in Nat :
            /\ B = p.blockSize /\ N = p.blockNum /\ W = p.associativity
            /\ C = p.cacheSize /\ C < M
      BY <1>1 DEF Policy, Split!Addr, M
  <1>3. PICK k \in 0 .. AddrBits - 1 : B = Split!Two[k]
      BY <1>2 DEF Accepted, Split!isPolicyValid, Split!isPowerOfTwo
  <1>4. B \in Nat \ {0} /\ B < M
      BY <1>1, <1>3, TwoIs, TwoGrows DEF M
  <1>5. o = k
      BY <1>2, <1>3, <1>4, LogIs DEF Split!offsetBits, M
  <1>6. N * B \in Nat /\ N * B < M /\ N * B # 0
    <2>1. N * B \in Nat
        OBVIOUS
    <2>2. (N * B) % M = C /\ N * B < M
        BY <1>2 DEF Accepted, Split!isPolicyValid, M
    <2>3. (N * B) % M = N * B
        BY <1>1, <2>1, <2>2, SmallRest
    <2>4. C \in Nat \ {0}
        BY <1>2, TwoIs DEF Accepted, Split!isPolicyValid, Split!isPowerOfTwo
    <2> QED
        BY <2>1, <2>2, <2>3, <2>4
  <1>7. N >= 1 /\ N <= N * B
    <2>1. N # 0
        BY <1>6
    <2>2. N * B >= N
        BY <1>4, <2>1
    <2> QED
        BY <2>1, <2>2
  <1>8. PICK S \in Int : S = N \div W
      OBVIOUS
  <1>9. N = W * S
    <2>1. N % W = 0
        BY <1>2 DEF Accepted, Split!isPolicyValid
    <2>2. N = (W * (N \div W)) + (N % W)
        BY DivisionIs
    <2>3. W * S \in Int
        OBVIOUS
    <2> QED
        BY <1>8, <2>1, <2>2, <2>3
  <1>10. S >= 1 /\ S <= N
    <2>1. S >= 1
      <3> SUFFICES ASSUME S <= 0 PROVE FALSE
          OBVIOUS
      <3>1. W * S <= 0
          OBVIOUS
      <3> QED
          BY <1>7, <1>9, <3>1
    <2>2. W * S >= S
        BY <2>1
    <2> QED
        BY <1>9, <2>1, <2>2
  <1>11. S = SetsOf(p) /\ S \in Nat \ {0} /\ S < M
      BY <1>2, <1>6, <1>7, <1>8, <1>10, <1>1 DEF SetsOf
  <1>12. i \in 0 .. AddrBits - 1 /\ Split!Two[i] <= S
      BY <1>11, LogIs DEF Split!idBits, SetsOf, M
  <1> HIDE DEF o, i
  <1>13. o + i < AddrBits
    <2> SUFFICES ASSUME AddrBits - k <= i PROVE FALSE
        BY <1>5, <1>12
    <2>1. /\ AddrBits - k \in 0 .. AddrBits /\ i \in 0 .. AddrBits /\ k \in Nat
          /\ AddrBits - k \in Nat /\ k + (AddrBits - k) = AddrBits
        BY <1>12
    <2>2. PICK x \in Nat, y \in Nat : x = Split!Two[AddrBits - k] /\ y = Split!Two[i]
        BY <2>1, TwoIs
    <2>3. x <= y
      <3>1. CASE AddrBits - k = i
          BY <2>2, <3>1
      <3>2. CASE AddrBits - k < i
          BY <2>1, <2>2, <3>2, TwoGrows
      <3> QED
          BY <2>1, <3>1, <3>2
    <2>4. M = B * x
      <3>1. Split!Two[k + (AddrBits - k)] = Split!Two[k] * Split!Two[AddrBits - k]
          BY <2>1, TwoIsAdditive
      <3> QED
          BY <1>3, <2>1, <2>2, <3>1 DEF M
    <2>5. x <= N
        BY <1>10, <1>12, <2>2, <2>3
    <2>6. B * x <= N * B
        BY <1>4, <2>5
    <2> QED
        BY <1>1, <1>6, <2>4, <2>6
  <1> QED
      BY <1>2, <1>3, <1>5, <1>11, <1>12, <1>13 DEF o, i

\* The block of an address begins where the offset is zero.
Begin(p, addr) == addr - Split!OffsetOf(p, addr)

LEMMA PartsAre ==
    ASSUME AddrBits \in Nat \ {0}, NEW p \in Policy, Accepted(p), NEW a \in Split!Addr
    PROVE  /\ Split!IdOf(p, a) \in 0 .. SetsOf(p) - 1 /\ Split!TagOf(p, a) \in Nat
           /\ Split!AddrOf(p, Split!TagOf(p, a), Split!IdOf(p, a)) = Begin(p, a)
           /\ Begin(p, a) \in Split!Addr
  <1> DEFINE o == Split!offsetBits(p)
             i == Split!idBits(p)
             r == AddrBits - o - i
  <1>1. /\ o \in Nat /\ i \in Nat /\ o + i \in Nat /\ r \in Nat
        /\ o \in 0 .. AddrBits /\ i \in 0 .. AddrBits /\ r \in 0 .. AddrBits
        /\ o + i <= AddrBits /\ (o + i) + r <= AddrBits /\ (o + i) + r = AddrBits
        /\ AddrBits \in 0 .. AddrBits
      BY PolicyIs
  <1>2. Split!Two[i] <= SetsOf(p) /\ SetsOf(p) \in Nat
      BY PolicyIs
  <1> HIDE DEF o, i, r
  <1>3. PICK O \in Nat \ {0}, I \in Nat \ {0}, R \in Nat \ {0}, M \in Nat \ {0} :
            /\ O = Split!Two[o] /\ I = Split!Two[i]
            /\ R = Split!Two[r] /\ M = Split!Two[AddrBits]
      BY <1>1, TwoIs
  <1>4. PICK J \in Nat \ {0} : J = O * I
    <2>1. O * I \in Nat \ {0}
        OBVIOUS
    <2> QED
        BY <2>1
  <1>5. Split!Two[o + i] = J /\ M = J * R
    <2>1. Split!Two[o + i] = J
        BY <1>1, <1>3, <1>4, TwoIsAdditive
    <2>2. Split!Two[(o + i) + r] = Split!Two[o + i] * Split!Two[r]
        BY <1>1, TwoIsAdditive
    <2> QED
        BY <1>1, <1>3, <2>1, <2>2
  <1>6. a \in 0 .. M - 1
      BY <1>3 DEF Split!Addr
  <1>7. PICK q \in Int, f \in 0 .. O - 1 :
            q = a \div O /\ f = a % O /\ a = (O * q) + f
    <2>1. a \in Int
        BY <1>6
    <2>2. /\ a \div O \in Int /\ a % O \in 0 .. O - 1
          /\ a = (O * (a \div O)) + (a % O)
        BY <2>1, DivisionIs
    <2> QED
        BY <2>2
  <1>8. PICK t \in Int, d \in 0 .. I - 1 :
            t = q \div I /\ d = q % I /\ q = (I * t) + d
      BY DivisionIs
  <1>9. PICK e \in Int : e = O * d
      BY <1>8
  <1>10. e \in 0 .. J - O
    <2>1. O * d >= 0
        BY <1>8
    <2>2. O * d <= O * (I - 1)
        BY <1>8
    <2>3. O * (I - 1) = (O * I) - O
        OBVIOUS
    <2> QED
        BY <1>4, <1>9, <2>1, <2>2, <2>3
  <1>11. a = (J * t) + (e + f) /\ e + f \in 0 .. J - 1
    <2>1. O * ((I * t) + d) = ((O * I) * t) + (O * d)
        OBVIOUS
    <2>2. J * t \in Int
        OBVIOUS
    <2>3. a = ((J * t) + e) + f
        BY <1>4, <1>7, <1>8, <1>9, <2>1
    <2> QED
        BY <1>7, <1>10, <2>2, <2>3
  <1>12. a \div J = t
      BY <1>6, <1>11, DivisionBy
  <1>13. PICK u \in Int : u = J * t
      OBVIOUS
  <1>14. t \in 0 .. R - 1
    <2>1. t >= 0
      <3> SUFFICES ASSUME t <= -1 PROVE FALSE
          OBVIOUS
      <3>1. J * t <= J * (-1)
          OBVIOUS
      <3>2. u <= -J
          BY <1>13, <3>1
      <3> QED
          BY <1>6, <1>11, <1>13, <3>2
    <2>2. t <= R - 1
      <3> SUFFICES ASSUME t >= R PROVE FALSE
          OBVIOUS
      <3>1. J * t >= J * R
          OBVIOUS
      <3> QED
          BY <1>5, <1>6, <1>11, <1>13, <3>1
    <2> QED
        BY <2>1, <2>2
  <1>15. /\ Split!TagOf(p, a) = t /\ Split!IdOf(p, a) = d
         /\ Split!OffsetOf(p, a) = f
    <2>1. t % R = t
        BY <1>14, SmallRest
    <2> QED
        BY <1>3, <1>5, <1>7, <1>8, <1>12, <2>1
        DEF Split!TagOf, Split!IdOf, Split!OffsetOf, o, i, r
  <1>16. Begin(p, a) = u + e /\ u + e \in 0 .. M - 1
    <2>1. u >= 0
        BY <1>13, <1>14
    <2> QED
        BY <1>6, <1>7, <1>10, <1>11, <1>13, <1>15, <2>1 DEF Begin
  <1>17. Split!AddrOf(p, t, d) = u + e
    <2>1. t * J = u /\ d * O = e
        BY <1>9, <1>13
    <2>2. (u + e) % M = u + e
        BY <1>16, SmallRest
    <2> QED
        BY <1>3, <1>5, <2>1, <2>2 DEF Split!AddrOf, o, i
  <1>18. d \in 0 .. SetsOf(p) - 1
      BY <1>2, <1>3, <1>8
  <1> QED
      BY <1>3, <1>14, <1>15, <1>16, <1>17, <1>18 DEF Split!Addr

\* The blocks of memory, and what getTag and getId make of them.
CodeBlock(p) == {Begin(p, a) : a \in Split!Addr}
CodeTag(p) == [b \in CodeBlock(p) |-> Split!TagOf(p, b)]
CodeId(p) == [b \in CodeBlock(p) |-> Split!IdOf(p, b)]

LEMMA BeginsAre ==
    ASSUME AddrBits \in Nat \ {0}, NEW p \in Policy, Accepted(p), NEW a \in Split!Addr
    PROVE  Begin(p, Begin(p, a)) = Begin(p, a)
  <1>1. PICK O \in Nat \ {0} : O = Split!Two[Split!offsetBits(p)]
    <2>1. Split!offsetBits(p) \in 0 .. AddrBits
        BY PolicyIs
    <2> QED
        BY <2>1, TwoIs
  <1>2. a \in Int /\ Begin(p, a) \in Int
    <2>1. Split!Two[AddrBits] \in Nat
        BY TwoIs
    <2>2. Begin(p, a) \in Split!Addr
        BY PartsAre
    <2> QED
        BY <2>1, <2>2 DEF Split!Addr
  <1>3. /\ a \div O \in Int /\ a % O \in 0 .. O - 1
        /\ a = (O * (a \div O)) + (a % O)
      BY <1>2, DivisionIs
  <1>4. PICK q \in Int : Begin(p, a) = (O * q) + 0
      BY <1>1, <1>3 DEF Begin, Split!OffsetOf
  <1>5. 0 \in 0 .. O - 1
      OBVIOUS
  <1>6. Begin(p, a) % O = 0
      BY <1>2, <1>4, <1>5, DivisionBy
  <1> QED
      BY <1>1, <1>2, <1>6 DEF Begin, Split!OffsetOf

\* getTag, getId and getOffset take an address apart without loss, for every
\* width and every policy: getAddr and the offset give it back, the index is
\* that of a set, and SplitAssumption holds of the blocks of memory.
THEOREM AddressesSplit ==
    ASSUME AddrBits \in Nat \ {0}, NEW p \in Policy, Accepted(p)
    PROVE  /\ \A a \in Split!Addr :
                /\ Split!IdOf(p, a) < SetsOf(p)
                /\ a = Split!AddrOf(p, Split!TagOf(p, a), Split!IdOf(p, a))
                        + Split!OffsetOf(p, a)
           /\ CodeTag(p) \in [CodeBlock(p) -> Nat] /\ CodeId(p) \in [CodeBlock(p) -> Nat]
           /\ \A a, b \in CodeBlock(p) :
                CodeTag(p)[a] = CodeTag(p)[b] /\ CodeId(p)[a] = CodeId(p)[b] => a = b
  <1>1. ASSUME NEW a \in Split!Addr
        PROVE  /\ Split!IdOf(p, a) < SetsOf(p)
               /\ a = Split!AddrOf(p, Split!TagOf(p, a), Split!IdOf(p, a))
                        + Split!OffsetOf(p, a)
    <2>1. Split!OffsetOf(p, a) \in Int /\ a \in Int
      <3>1. AddrBits \in 0 .. AddrBits /\ Split!offsetBits(p) \in 0 .. AddrBits
          BY PolicyIs
      <3>2. PICK O \in Nat \ {0} : O = Split!Two[Split!offsetBits(p)]
          BY <3>1, TwoIs
      <3>3. Split!Two[AddrBits] \in Nat
          BY <3>1, TwoIs
      <3>4. a \in Int
          BY <3>3 DEF Split!Addr
      <3>5. a % O \in 0 .. O - 1
          BY <3>4, DivisionIs
      <3> QED
          BY <3>2, <3>4, <3>5 DEF Split!OffsetOf
    <2>2. /\ Split!IdOf(p, a) \in 0 .. SetsOf(p) - 1
          /\ Split!AddrOf(p, Split!TagOf(p, a), Split!IdOf(p, a)) = Begin(p, a)
        BY PartsAre
    <2>3. SetsOf(p) \in Nat
        BY PolicyIs
    <2> QED
        BY <2>1, <2>2, <2>3 DEF Begin
  <1>2. \A b \in CodeBlock(p) : b \in Split!Addr /\ Begin(p, b) = b
      BY PartsAre, BeginsAre DEF CodeBlock
  <1>3. \A b \in CodeBlock(p) : /\ Split!TagOf(p, b) \in Nat
                               /\ Split!IdOf(p, b) \in Nat
    <2> SUFFICES ASSUME NEW b \in CodeBlock(p)
                 PROVE  Split!TagOf(p, b) \in Nat /\ Split!IdOf(p, b) \in Nat
        OBVIOUS
    <2>1. Split!TagOf(p, b) \in Nat /\ Split!IdOf(p, b) \in 0 .. SetsOf(p) - 1
        BY <1>2, PartsAre
    <2> QED
        BY <2>1
  <1>4. ASSUME NEW a \in CodeBlock(p), NEW b \in CodeBlock(p),
               CodeTag(p)[a] = CodeTag(p)[b], CodeId(p)[a] = CodeId(p)[b]
        PROVE  a = b
    <2>1. /\ Split!TagOf(p, a) = Split!TagOf(p, b)
          /\ Split!IdOf(p, a) = Split!IdOf(p, b)
        BY <1>4 DEF CodeTag, CodeId
    <2>2. Begin(p, a) = Begin(p, b)
        BY <1>2, <2>1, PartsAre
    <2> QED
        BY <1>2, <2>2
  <1>5. CodeTag(p) \in [CodeBlock(p) -> Nat] /\ CodeId(p) \in [CodeBlock(p) -> Nat]
      BY <1>3 DEF CodeTag, CodeId
  <1> QED
      BY <1>1, <1>4, <1>5

\* The loop of loadBlockFromLowerLevel reads exactly the bytes of the block,
\* for every width and policy, and none of the last block of the address
\* space: there the end of the loop wraps to zero.
THEOREM LoadsAllButTheLastBlock ==
    ASSUME AddrBits \in Nat \ {0}, NEW p \in Policy, Accepted(p), NEW a \in Split!Addr
    PROVE  Split!LoadedBytes(p, a) =
             IF a >= Split!Two[AddrBits] - p.blockSize THEN {}
             ELSE {i \in Split!Addr : i \div p.blockSize = a \div p.blockSize}
  <1> DEFINE o == Split!offsetBits(p)
             r == AddrBits - o
  <1>1. /\ o \in 0 .. AddrBits /\ r \in 0 .. AddrBits /\ o \in Nat /\ r \in Nat
        /\ o + r <= AddrBits /\ o + r = AddrBits /\ AddrBits \in 0 .. AddrBits
        /\ Split!Two[o] = p.blockSize
      BY PolicyIs
  <1> HIDE DEF o, r
  <1>2. PICK B \in Nat \ {0}, K \in Nat \ {0}, M \in Nat \ {0} :
            B = p.blockSize /\ K = Split!Two[r] /\ M = Split!Two[AddrBits]
      BY <1>1, TwoIs
  <1>3. M = B * K
    <2>1. Split!Two[o + r] = Split!Two[o] * Split!Two[r]
        BY <1>1, TwoIsAdditive
    <2> QED
        BY <1>1, <1>2, <2>1
  <1>4. a \in 0 .. M - 1 /\ Split!Addr = 0 .. M - 1
      BY <1>2 DEF Split!Addr
  <1>5. PICK q \in Int, f \in 0 .. B - 1 :
            q = a \div B /\ f = a % B /\ a = (B * q) + f
    <2>1. a \in Int
        BY <1>4
    <2>2. /\ a \div B \in Int /\ a % B \in 0 .. B - 1
          /\ a = (B * (a \div B)) + (a % B)
        BY <2>1, DivisionIs
    <2> QED
        BY <2>2
  <1>6. PICK u \in Int : u = B * q
      OBVIOUS
  <1>7. /\ a = u + f /\ 0 <= u
        /\ IF a >= M - B THEN u + B = M ELSE u + B < M
    <2>1. q <= K - 1
      <3> SUFFICES ASSUME q >= K PROVE FALSE
          OBVIOUS
      <3>1. B * q >= B * K
          OBVIOUS
      <3> QED
          BY <1>3, <1>4, <1>5, <1>6, <3>1
    <2>2. q >= 0
      <3> SUFFICES ASSUME q <= -1 PROVE FALSE
          OBVIOUS
      <3>1. B * q <= B * (-1)
          OBVIOUS
      <3>2. u <= -B
          BY <1>6, <3>1
      <3> QED
          BY <1>4, <1>5, <1>6, <3>2
    <2>3. u >= 0
        BY <1>6, <2>2
    <2>4. CASE q = K - 1
      <3>1. B * (K - 1) = (B * K) - B
          OBVIOUS
      <3>2. u = M - B
          BY <1>3, <1>6, <2>4, <3>1
      <3> QED
          BY <1>4, <1>5, <1>6, <2>3, <3>2
    <2>5. CASE q <= K - 2
      <3>1. B * q <= B * (K - 2)
          BY <2>5
      <3>2. B * (K - 2) = ((B * K) - B) - B
          OBVIOUS
      <3>3. u <= (M - B) - B
          BY <1>3, <1>6, <3>1, <3>2
      <3> QED
          BY <1>4, <1>5, <1>6, <2>3, <3>3
    <2> QED
        BY <2>1, <2>4, <2>5
  <1>8. Split!LoadedBytes(p, a) = {i \in 0 .. M - 1 : u <= i /\ i < (u + B) % M}
    <2>1. Split!OffsetOf(p, a) = f
        BY <1>1, <1>2, <1>5 DEF Split!OffsetOf, o
    <2>2. a - f = u
        BY <1>5, <1>6
    <2> QED
        BY <1>2, <1>4, <2>1, <2>2 DEF Split!LoadedBytes
  <1>9. CASE a >= M - B
    <2>1. (u + B) % M = 0
        BY <1>7, <1>9
    <2>2. Split!LoadedBytes(p, a) = {}
        BY <1>7, <1>8, <2>1
    <2> QED
        BY <1>2, <1>9, <2>2
  <1>10. CASE ~(a >= M - B)
    <2>1. u + B \in 0 .. M - 1
        BY <1>7, <1>10
    <2>2. (u + B) % M = u + B
        BY <2>1, SmallRest
    <2>3. ASSUME NEW i \in 0 .. M - 1
          PROVE  (u <= i /\ i < u + B) <=> i \div B = q
      <3>1. PICK n \in Int, g \in 0 .. B - 1 :
                n = i \div B /\ i = (B * n) + g
        <4>1. i \in Int
            OBVIOUS
        <4>2. /\ i \div B \in Int /\ i % B \in 0 .. B - 1
              /\ i = (B * (i \div B)) + (i % B)
            BY <4>1, DivisionIs
        <4> QED
            BY <4>2
      <3>2. ASSUME u <= i, i < u + B PROVE n = q
        <4>1. PICK h \in 0 .. B - 1 : i = (B * q) + h
          <5>1. i - u \in 0 .. B - 1 /\ i = u + (i - u)
              BY <1>6, <3>2
          <5> QED
              BY <1>6, <5>1
        <4> QED
            BY <4>1, <3>1, RestsAreUnique
      <3>3. ASSUME n = q PROVE u <= i /\ i < u + B
          BY <1>6, <3>1, <3>3
      <3> QED
          BY <3>1, <3>2, <3>3
    <2>4. Split!LoadedBytes(p, a) = {i \in 0 .. M - 1 : i \div B = q}
        BY <1>8, <2>2, <2>3
    <2> QED
        BY <1>2, <1>4, <1>5, <1>10, <2>4
  <1> QED
      BY <1>2, <1>9, <1>10
=============================================================================
