------------------------- MODULE SampledCacheProofs -------------------------
(***************************************************************************)
(* Whatever the dead-block predictor says, the cache is a memory, and the  *)
(* sampler has one entry for a block: for any geometry, hash functions and *)
(* pcs.  Every counter of the tables that is not zero has been raised for  *)
(* a block that fell out of the sampler.                                   *)
(***************************************************************************)
EXTENDS SampledHistory, SharedLemmas

(* The sampler and the tables.                                             *)

SamplerOK(q) ==
    q \in Seq(SamplerBlock) /\ Unique(q) /\ Len(q) <= SamplerAssociativity
TablesOK(tables) == tables \in [Table -> [Entry -> 0 .. 3]]
SamplerInv ==
    /\ DOMAIN samplerblocks = Sampled
    /\ samplerblocks = [s \in Sampled |-> samplerblocks[s]]
    /\ \A s \in Sampled : SamplerOK(samplerblocks[s])
    /\ TablesOK(predictionTable)

LEMMA SaturatingIs ==
    ASSUME NEW counter \in Int
    PROVE  saturating(counter) \in 0 .. 3
  BY DEF saturating

LEMMA UpdateKeeps ==
    ASSUME NEW tables, TablesOK(tables), NEW pc \in PC \cup {NoPC},
           NEW updater \in {-1, 1}
    PROVE  TablesOK(updatepredictor(tables, pc, updater))
  <1>1. ASSUME NEW t \in Table
        PROVE  [tables[t] EXCEPT ![Index(t, pc)] = saturating(@ + updater)]
                    \in [Entry -> 0 .. 3]
    <2>1. Index(t, pc) \in Entry
        BY DEF Index, Entry
    <2>2. tables[t] \in [Entry -> 0 .. 3]
        BY DEF TablesOK
    <2>3. saturating(tables[t][Index(t, pc)] + updater) \in 0 .. 3
      <3>1. tables[t][Index(t, pc)] + updater \in Int
          BY <2>1, <2>2
      <3> QED
          BY <3>1, SaturatingIs
    <2> QED
        BY <2>1, <2>2, <2>3
  <1> QED
      BY <1>1 DEF TablesOK, updatepredictor

LEMMA VerdictIs ==
    ASSUME NEW tables, TablesOK(tables), NEW pc \in PC \cup {NoPC}
    PROVE  predictor(tables, pc) \in BOOLEAN
  BY DEF predictor

\* A sampler set that takes a block in, giving up its oldest one if it is full.
LEMMA SamplerTakesIn ==
    ASSUME NEW q, SamplerOK(q), NEW x \in SamplerBlock, ~Holds(q, x.block)
    PROVE  /\ SamplerOK(Append(IF Len(q) >= SamplerAssociativity
                               THEN Tail(q) ELSE q, x))
           /\ Len(q) >= SamplerAssociativity => Head(q) \in SamplerBlock
  <1> DEFINE full == Len(q) >= SamplerAssociativity
             rest == IF full THEN Tail(q) ELSE q
  <1>1. /\ q \in Seq(SamplerBlock) /\ Unique(q) /\ Len(q) \in Nat
        /\ Len(q) <= SamplerAssociativity /\ SamplerAssociativity \in Nat \ {0}
      BY SetAssumption DEF SamplerOK
  <1>2. /\ rest \in Seq(SamplerBlock) /\ Unique(rest) /\ ~Holds(rest, x.block)
        /\ Len(rest) < SamplerAssociativity
    <2>1. CASE full
      <3>1. q # <<>>
          BY <1>1, <2>1
      <3>2. Tail(q) = Without(q, 1) /\ 1 \in DOMAIN q
          BY <1>1, <3>1, TailIsWithout
      <3>3. /\ Without(q, 1) \in Seq(SamplerBlock) /\ Unique(Without(q, 1))
            /\ Len(Without(q, 1)) = Len(q) - 1
            /\ \A b : Holds(Without(q, 1), b) <=> Holds(q, b) /\ b # q[1].block
          BY <1>1, <3>2, WithoutKeeps
      <3>4. rest = Without(q, 1)
          BY <2>1, <3>2
      <3> HIDE DEF rest
      <3> QED
          BY <1>1, <3>3, <3>4
    <2>2. CASE ~full
        BY <1>1, <2>2
    <2> QED
        BY <2>1, <2>2
  <1>3. full => Head(q) \in SamplerBlock
    <2> HAVE full
    <2>1. q # <<>>
        BY <1>1
    <2> QED
        BY <1>1, <2>1
  <1> HIDE DEF rest
  <1>4. /\ Append(rest, x) \in Seq(SamplerBlock) /\ Unique(Append(rest, x))
        /\ Len(Append(rest, x)) = Len(rest) + 1
      BY <1>2, AppendKeeps
  <1>5. Len(rest) \in Nat
      BY <1>2
  <1>6. SamplerOK(Append(rest, x))
      BY <1>1, <1>2, <1>4, <1>5 DEF SamplerOK
  <1> QED
      BY <1>3, <1>6 DEF rest

LEMMA Samples ==
    ASSUME NEW set, SamplerOK(set), TablesOK(predictionTable),
           NEW b \in Block, NEW pc \in PC
    PROVE  /\ SamplerOK(getByteSamplerset(set, b, pc).set)
           /\ TablesOK(getByteSamplerset(set, b, pc).tables)
  <1> DEFINE found == Find(set, b)
             entry == [block |-> b, partialPC |-> pc]
             full == Len(set) >= SamplerAssociativity
             trained == getByteSamplerset(set, b, pc)
             taught == IF full
                       THEN updatepredictor(predictionTable, Head(set).partialPC, 1)
                       ELSE predictionTable
  <1>1. entry \in SamplerBlock /\ entry.block = b
      BY DEF SamplerBlock
  <1>2. found # {} <=> Holds(set, b)
      BY DEF Find, Holds
  <1>3. CASE found # {}
    <2> DEFINE w == The(found)
               r == Without(set, w)
    <2>1. w \in found
        BY <1>3 DEF The
    <2>2. w \in DOMAIN set /\ set[w].block = b
        BY <2>1 DEF Find
    <2>3. trained.set = Append(r, entry)
          /\ trained.tables = updatepredictor(predictionTable, pc, -1)
        BY <1>3 DEF getByteSamplerset
    <2> HIDE DEF w, found, trained, entry
    <2>4. /\ r \in Seq(SamplerBlock) /\ Unique(r) /\ Len(r) = Len(set) - 1
          /\ ~Holds(r, b)
        BY <2>2, WithoutKeeps DEF SamplerOK
    <2> HIDE DEF r
    <2>5. /\ Append(r, entry) \in Seq(SamplerBlock) /\ Unique(Append(r, entry))
          /\ Len(Append(r, entry)) = Len(r) + 1
        BY <1>1, <2>4, AppendKeeps
    <2>6. Len(set) \in Nat
        BY DEF SamplerOK
    <2>7. SamplerOK(Append(r, entry))
        BY <2>4, <2>5, <2>6 DEF SamplerOK
    <2>8. TablesOK(updatepredictor(predictionTable, pc, -1))
        BY UpdateKeeps
    <2> QED
        BY <2>3, <2>7, <2>8 DEF trained
  <1>4. CASE found = {} /\ predictor(predictionTable, pc)
      BY <1>4 DEF getByteSamplerset
  <1>5. CASE found = {} /\ ~predictor(predictionTable, pc)
    <2>1. /\ trained.set = Append(IF full THEN Tail(set) ELSE set, entry)
          /\ trained.tables = updatepredictor(taught, pc, -1)
        BY <1>5 DEF getByteSamplerset
    <2>2. /\ SamplerOK(Append(IF full THEN Tail(set) ELSE set, entry))
          /\ full => Head(set) \in SamplerBlock
      <3> HIDE DEF entry
      <3> QED
          BY <1>1, <1>2, <1>5, SamplerTakesIn
    <2> HIDE DEF trained, full, entry
    <2>3. TablesOK(taught)
      <3>1. CASE full
        <4>1. Head(set).partialPC \in PC
            BY <2>2, <3>1 DEF SamplerBlock
        <4> QED
            BY <3>1, <4>1, UpdateKeeps
      <3>2. CASE ~full
          BY <3>2
      <3> QED
          BY <3>1, <3>2
    <2> HIDE DEF taught
    <2>4. TablesOK(updatepredictor(taught, pc, -1))
        BY <2>3, UpdateKeeps
    <2> QED
        BY <2>1, <2>2, <2>4 DEF trained
  <1> QED
      BY <1>3, <1>4, <1>5

LEMMA TrainKeeps ==
    ASSUME SamplerInv, NEW b \in Block, NEW pc \in PC \cup {NoPC}, Train(b, pc)
    PROVE  SamplerInv'
  <1>1. CASE Unsampled(b, pc)
      BY <1>1 DEF Train, SamplerInv
  <1>2. CASE ~Unsampled(b, pc)
    <2> DEFINE s == getId[b]
               trained == getByteSamplerset(samplerblocks[s], b, pc)
    <2>1. s \in Sampled /\ pc \in PC
        BY <1>2 DEF Unsampled
    <2>2. /\ samplerblocks' = [samplerblocks EXCEPT ![s] = trained.set]
          /\ predictionTable' = trained.tables
        BY <1>2 DEF Train
    <2>3. SamplerOK(trained.set) /\ TablesOK(trained.tables)
        BY <2>1, Samples DEF SamplerInv
    <2> HIDE DEF trained
    <2> QED
        BY <2>1, <2>2, <2>3 DEF SamplerInv
  <1> QED
      BY <1>1, <1>2
-----------------------------------------------------------------------------
(* The lines of the cache.                                                 *)

SetOK(q, s) ==
    /\ q \in Seq(Line) /\ Unique(q) /\ Len(q) <= Associativity
    /\ \A w \in DOMAIN q : getId[q[w].block] = s
BlocksOK(bl) ==
    /\ DOMAIN bl = Sets
    /\ bl = [s \in Sets |-> bl[s]]
    /\ \A s \in Sets : SetOK(bl[s], s)
Cached(bl, x) == Has(bl[getId[x.block]], x)

\* A line that is dropped without a write-back has nothing to lose.
CacheInv ==
    /\ BlocksOK(blocks) /\ memory \in [Block -> Data]
    /\ \A x \in Line : Cached(blocks, x) => x.modified \/ x.data = memory[x.block]

\* One line is put into a set of which none, or one line, has left.
Replaced(bl, s, q) == [bl EXCEPT ![s] = q]

LEMMA OneSetChanges ==
    ASSUME NEW bl, BlocksOK(bl), NEW s \in Sets, NEW q, SetOK(q, s)
    PROVE  /\ BlocksOK(Replaced(bl, s, q))
           /\ \A x \in Line : Cached(Replaced(bl, s, q), x) <=>
                IF getId[x.block] = s THEN Has(q, x) ELSE Cached(bl, x)
  <1> DEFINE new == Replaced(bl, s, q)
  <1>1. /\ DOMAIN new = Sets
        /\ \A t \in Sets : new[t] = IF t = s THEN q ELSE bl[t]
        /\ new = [t \in Sets |-> new[t]]
      BY DEF BlocksOK, Replaced
  <1> HIDE DEF new
  <1>2. BlocksOK(new)
      BY <1>1 DEF BlocksOK
  <1>3. \A x \in Line : getId[x.block] \in Sets
      BY DEF Sets, Line
  <1> QED
      BY <1>1, <1>2, <1>3 DEF Cached, new

LEMMA WithoutFits ==
    ASSUME NEW s, NEW q, SetOK(q, s), NEW w \in DOMAIN q
    PROVE  /\ SetOK(Without(q, w), s) /\ Len(Without(q, w)) < Associativity
           /\ \A b : Holds(Without(q, w), b) <=> Holds(q, b) /\ b # q[w].block
           /\ \A x : Has(Without(q, w), x) <=> Has(q, x) /\ x # q[w]
  <1> DEFINE r == Without(q, w)
  <1>1. /\ q \in Seq(Line) /\ Unique(q) /\ Len(q) \in Nat
        /\ Len(q) <= Associativity /\ Associativity \in Nat
      BY SetAssumption DEF SetOK
  <1>2. /\ r \in Seq(Line) /\ Unique(r) /\ Len(r) = Len(q) - 1
        /\ \A b : Holds(r, b) <=> Holds(q, b) /\ b # q[w].block
        /\ \A x : Has(r, x) <=> Has(q, x) /\ x # q[w]
      BY <1>1, WithoutKeeps
  <1> HIDE DEF r
  <1>3. ASSUME NEW k \in DOMAIN r PROVE getId[r[k].block] = s
    <2>1. Has(r, r[k])
        BY DEF Has
    <2>2. Has(q, r[k])
        BY <1>2, <2>1
    <2> QED
        BY <2>2 DEF Has, SetOK
  <1> QED
      BY <1>1, <1>2, <1>3 DEF SetOK, r

LEMMA AppendFits ==
    ASSUME NEW s, NEW q, SetOK(q, s), Len(q) < Associativity, NEW x \in Line,
           getId[x.block] = s, ~Holds(q, x.block)
    PROVE  /\ SetOK(Append(q, x), s)
           /\ \A y : Has(Append(q, x), y) <=> Has(q, y) \/ y = x
  <1> DEFINE r == Append(q, x)
  <1>1. /\ q \in Seq(Line) /\ Unique(q) /\ Len(q) \in Nat
        /\ Associativity \in Nat
      BY SetAssumption DEF SetOK
  <1>2. /\ r \in Seq(Line) /\ Unique(r) /\ Len(r) = Len(q) + 1
        /\ \A y : Has(r, y) <=> Has(q, y) \/ y = x
      BY <1>1, AppendKeeps
  <1> HIDE DEF r
  <1>3. ASSUME NEW k \in DOMAIN r PROVE getId[r[k].block] = s
    <2>1. Has(r, r[k])
        BY DEF Has
    <2>2. Has(q, r[k]) \/ r[k] = x
        BY <1>2, <2>1
    <2> QED
        BY <2>2 DEF Has, SetOK
  <1> QED
      BY <1>1, <1>2, <1>3 DEF SetOK, r

\* A block that is found is one line, and the one the access reads.
LEMMA LineThere ==
    ASSUME BlocksOK(blocks), NEW b \in Block
    PROVE  /\ InCache(b) <=> Holds(blocks[getId[b]], b)
           /\ InCache(b) =>
                /\ The(Find(blocks[getId[b]], b)) \in DOMAIN blocks[getId[b]]
                /\ LineOf(b) = blocks[getId[b]][The(Find(blocks[getId[b]], b))]
                /\ LineOf(b) \in Line /\ LineOf(b).block = b
                /\ Cached(blocks, LineOf(b))
           /\ \A x \in Line : Cached(blocks, x) /\ x.block = b =>
                InCache(b) /\ x = LineOf(b)
  <1> DEFINE q == blocks[getId[b]]
             w == The(Find(q, b))
  <1>1. SetOK(q, getId[b])
      BY DEF BlocksOK, Sets
  <1>2. InCache(b) <=> Holds(q, b)
      BY DEF InCache, Find, Holds
  <1>3. ASSUME InCache(b)
        PROVE  w \in DOMAIN q /\ q[w].block = b
    <2>1. w \in Find(q, b)
        BY <1>3 DEF InCache, The
    <2> QED
        BY <2>1 DEF Find
  <1>4. LineOf(b) = q[w]
      BY DEF LineOf
  <1>5. \A v \in DOMAIN q : q[v] \in Line
      BY <1>1 DEF SetOK
  <1> HIDE DEF w
  <1>6. ASSUME InCache(b)
        PROVE  LineOf(b) \in Line /\ LineOf(b).block = b /\ Cached(blocks, LineOf(b))
      BY <1>3, <1>4, <1>5, <1>6 DEF Cached, Has
  <1>7. ASSUME NEW x \in Line, Cached(blocks, x), x.block = b
        PROVE  InCache(b) /\ x = LineOf(b)
    <2>1. PICK v \in DOMAIN q : q[v] = x
        BY <1>7 DEF Cached, Has
    <2>2. InCache(b)
        BY <1>2, <1>7, <2>1 DEF Holds
    <2>3. v = w
        BY <1>1, <1>3, <1>7, <2>1, <2>2 DEF SetOK, Unique
    <2> QED
        BY <1>4, <2>1, <2>2, <2>3
  <1> QED
      BY <1>2, <1>3, <1>4, <1>6, <1>7 DEF w

LEMMA ContentsAre ==
    CacheInv => \A b \in Block :
        /\ Contents(b) \in Data
        /\ \A x \in Line : Cached(blocks, x) /\ x.block = b => Contents(b) = x.data
        /\ \/ \E x \in Line : Cached(blocks, x) /\ x.block = b
           \/ ~InCache(b) /\ Contents(b) = memory[b]
  <1> SUFFICES ASSUME CacheInv, NEW b \in Block
               PROVE  /\ Contents(b) \in Data
                      /\ \A x \in Line : Cached(blocks, x) /\ x.block = b =>
                            Contents(b) = x.data
                      /\ \/ \E x \in Line : Cached(blocks, x) /\ x.block = b
                         \/ ~InCache(b) /\ Contents(b) = memory[b]
      OBVIOUS
  <1>1. CASE InCache(b)
    <2>1. /\ LineOf(b) \in Line /\ LineOf(b).block = b /\ Cached(blocks, LineOf(b))
          /\ \A x \in Line : Cached(blocks, x) /\ x.block = b => x = LineOf(b)
        BY <1>1, LineThere DEF CacheInv
    <2>2. Contents(b) = LineOf(b).data
        BY <1>1 DEF Contents
    <2> QED
        BY <2>1, <2>2 DEF Line
  <1>2. CASE ~InCache(b)
    <2>1. \A x \in Line : ~(Cached(blocks, x) /\ x.block = b)
        BY <1>2, LineThere DEF CacheInv
    <2> QED
        BY <1>2, <2>1 DEF Contents, CacheInv
  <1> QED
      BY <1>1, <1>2

LEMMA ContentsAreNext ==
    (CacheInv => \A b \in Block :
        /\ Contents(b) \in Data
        /\ \A x \in Line : Cached(blocks, x) /\ x.block = b => Contents(b) = x.data
        /\ \/ \E x \in Line : Cached(blocks, x) /\ x.block = b
           \/ ~InCache(b) /\ Contents(b) = memory[b])'
  BY ContentsAre, PTL

\* The bytes of block b become d, and no other block changes its bytes.
Becomes(b, d) ==
    /\ CacheInv'
    /\ Contents(b)' = d
    /\ \A a \in Block \ {b} : Contents(a)' = Contents(a)

\* The line of b is new, and the lines of V leave, with their bytes in memory.
LEMMA ChangeBecomes ==
    ASSUME CacheInv, NEW b \in Block, NEW line \in Line, line.block = b,
           line.modified \/ line.data = memory[b],
           BlocksOK(blocks'), memory' \in [Block -> Data], NEW V,
           \A x \in V : /\ x \in Line /\ Cached(blocks, x) /\ x.block # b
                       /\ memory'[x.block] = x.data,
           \A a \in Block : (\A x \in V : x.block # a) => memory'[a] = memory[a],
           \A x \in Line : Cached(blocks', x) <=>
                \/ x = line
                \/ Cached(blocks, x) /\ x.block # b /\ x \notin V
    PROVE  Becomes(b, line.data)
  <1>1. \A x, y \in Line : /\ Cached(blocks, x) /\ Cached(blocks, y)
                          /\ x.block = y.block
                          => x = y
    <2>1. \A x \in Line : x.block \in Block
        BY DEF Line
    <2> QED
        BY <2>1, LineThere DEF CacheInv
  <1>2. CacheInv'
    <2>1. ASSUME NEW x \in Line, Cached(blocks', x)
          PROVE  x.modified \/ x.data = memory'[x.block]
      <3>1. CASE x = line
        <4>1. memory'[b] = memory[b]
            OBVIOUS
        <4> QED
            BY <3>1, <4>1
      <3>2. CASE Cached(blocks, x) /\ x.block # b /\ x \notin V
        <4>1. \A y \in V : y.block # x.block
            BY <1>1, <3>2
        <4>2. x.block \in Block
            BY DEF Line
        <4> QED
            BY <3>2, <4>1, <4>2 DEF CacheInv
      <3> QED
          BY <2>1, <3>1, <3>2
    <2> QED
        BY <2>1 DEF CacheInv
  <1>3. Contents(b)' = line.data
      BY <1>2, ContentsAreNext
  <1>4. ASSUME NEW a \in Block, a # b
        PROVE  Contents(a)' = Contents(a)
    <2>1. \A y \in Line : y.block = a =>
            (Cached(blocks', y) <=> Cached(blocks, y) /\ y \notin V)
        BY <1>4
    <2>2. /\ \A x \in Line : Cached(blocks', x) /\ x.block = a => Contents(a)' = x.data
          /\ \/ \E x \in Line : Cached(blocks', x) /\ x.block = a
             \/ Contents(a)' = memory'[a]
        BY <1>2, ContentsAreNext
    <2>3. /\ \A x \in Line : Cached(blocks, x) /\ x.block = a => Contents(a) = x.data
          /\ \/ \E x \in Line : Cached(blocks, x) /\ x.block = a
             \/ Contents(a) = memory[a]
        BY ContentsAre
    <2>4. CASE \E x \in V : x.block = a
      <3>1. PICK x \in V : x.block = a
          BY <2>4
      <3>2. x \in Line /\ Cached(blocks, x) /\ memory'[a] = x.data
          BY <3>1
      <3>3. \A y \in Line : ~(Cached(blocks', y) /\ y.block = a)
          BY <1>1, <2>1, <3>1, <3>2
      <3> QED
          BY <2>2, <2>3, <3>1, <3>2, <3>3
    <2>5. CASE \A x \in V : x.block # a
      <3>1. memory'[a] = memory[a]
          BY <2>5
      <3>2. \A y \in Line : y.block = a => (Cached(blocks', y) <=> Cached(blocks, y))
          BY <2>1, <2>5
      <3> QED
          BY <2>2, <2>3, <3>1, <3>2
    <2> QED
        BY <2>4, <2>5
  <1> QED
      BY <1>2, <1>3, <1>4 DEF Becomes

LEMMA HitBecomes ==
    ASSUME CacheInv, NEW b \in Block, InCache(b), NEW line \in Line,
           line.block = b, line.modified \/ line.data = memory[b],
           Hit(b, line), memory' = memory
    PROVE  Becomes(b, line.data)
  <1> DEFINE s == getId[b]
             q == blocks[s]
             w == The(Find(q, b))
             t == Without(q, w)
             r == Append(t, line)
  <1>1. blocks' = Replaced(blocks, s, r)
      BY DEF Hit, Replaced
  <1>2. s \in Sets /\ SetOK(q, s) /\ getId[line.block] = s
      BY DEF CacheInv, BlocksOK, Sets
  <1>3. /\ w \in DOMAIN q /\ q[w] = LineOf(b) /\ q[w].block = b
        /\ \A x \in Line : Cached(blocks, x) /\ x.block = b => x = q[w]
      BY LineThere DEF CacheInv
  <1>4. \A x \in Line : getId[x.block] = s => (Cached(blocks, x) <=> Has(q, x))
      BY DEF Cached
  <1>5. \A x \in Line : x.block = b => getId[x.block] = s
      OBVIOUS
  <1> HIDE DEF w, q, s
  <1>6. /\ SetOK(t, s) /\ Len(t) < Associativity
        /\ \A a : Holds(t, a) <=> Holds(q, a) /\ a # b
        /\ \A x : Has(t, x) <=> Has(q, x) /\ x # q[w]
      BY <1>2, <1>3, WithoutFits
  <1> HIDE DEF t
  <1>7. SetOK(r, s) /\ \A x : Has(r, x) <=> Has(t, x) \/ x = line
    <2>1. ~Holds(t, line.block)
        BY <1>6
    <2> QED
        BY <1>2, <1>6, <2>1, AppendFits
  <1> HIDE DEF r
  <1>8. /\ BlocksOK(blocks')
        /\ \A x \in Line : Cached(blocks', x) <=>
             IF getId[x.block] = s THEN Has(r, x) ELSE Cached(blocks, x)
    <2>1. /\ BlocksOK(Replaced(blocks, s, r))
          /\ \A x \in Line : Cached(Replaced(blocks, s, r), x) <=>
               IF getId[x.block] = s THEN Has(r, x) ELSE Cached(blocks, x)
        BY <1>2, <1>7, OneSetChanges DEF CacheInv
    <2> QED
        BY <1>1, <2>1
  <1>9. ASSUME NEW x \in Line
        PROVE  Cached(blocks', x) <=> \/ x = line
                                      \/ Cached(blocks, x) /\ x.block # b
    <2>1. CASE getId[x.block] = s
      <3>1. Cached(blocks', x) <=> (Cached(blocks, x) /\ x # q[w]) \/ x = line
          BY <1>4, <1>6, <1>7, <1>8, <2>1
      <3> QED
          BY <1>3, <3>1
    <2>2. CASE getId[x.block] # s
        BY <1>2, <1>5, <1>8, <2>2
    <2> QED
        BY <2>1, <2>2
  <1> DEFINE V == {}
  <1>10. /\ memory' \in [Block -> Data]
         /\ \A x \in V : /\ x \in Line /\ Cached(blocks, x) /\ x.block # b
                         /\ memory'[x.block] = x.data
         /\ \A a \in Block : (\A x \in V : x.block # a) => memory'[a] = memory[a]
         /\ \A x \in Line : Cached(blocks', x) <=>
                \/ x = line
                \/ Cached(blocks, x) /\ x.block # b /\ x \notin V
      BY <1>9 DEF CacheInv
  <1>11. BlocksOK(blocks')
      BY <1>8
  <1> HIDE DEF V
  <1> QED
      BY <1>10, <1>11, ChangeBecomes

\* The line goes into a free way, or into that of a line the memory has, or
\* now gets, the bytes of.
LEMMA LoadBecomes ==
    ASSUME CacheInv, NEW b \in Block, ~InCache(b), NEW line \in Line,
           line.block = b, line.modified \/ line.data = memory[b],
           Load(b, line)
    PROVE  Becomes(b, line.data)
  <1> DEFINE s == getId[b]
             q == blocks[s]
             full == Len(q) >= Associativity
  <1>1. s \in Sets /\ SetOK(q, s) /\ getId[line.block] = s
      BY DEF CacheInv, BlocksOK, Sets
  <1>2. ~Holds(q, b)
      BY LineThere DEF CacheInv
  <1>3. \A x \in Line : Cached(blocks, x) => x.block # b
      BY LineThere DEF CacheInv
  <1>4. \A x \in Line : getId[x.block] = s => (Cached(blocks, x) <=> Has(q, x))
      BY DEF Cached
  <1>5. ASSUME NEW rest, SetOK(rest, s), Len(rest) < Associativity,
               ~Holds(rest, b), NEW V,
               \A x : Has(rest, x) <=> Has(q, x) /\ x \notin V,
               \A x \in V : x \in Line /\ getId[x.block] = s /\ Has(q, x),
               blocks' = Replaced(blocks, s, Append(rest, line)),
               memory' \in [Block -> Data],
               \A x \in V : memory'[x.block] = x.data,
               \A a \in Block : (\A x \in V : x.block # a) => memory'[a] = memory[a]
        PROVE  Becomes(b, line.data)
    <2> DEFINE r == Append(rest, line)
    <2> HIDE DEF q, s
    <2>1. SetOK(r, s) /\ \A x : Has(r, x) <=> Has(rest, x) \/ x = line
        BY <1>1, <1>5, AppendFits
    <2>2. blocks' = Replaced(blocks, s, r)
        BY <1>5
    <2> HIDE DEF r
    <2>3. /\ BlocksOK(Replaced(blocks, s, r))
          /\ \A x \in Line : Cached(Replaced(blocks, s, r), x) <=>
               IF getId[x.block] = s THEN Has(r, x) ELSE Cached(blocks, x)
        BY <1>1, <2>1, OneSetChanges DEF CacheInv
    <2>4. \A x \in Line : Cached(blocks', x) <=>
             IF getId[x.block] = s THEN Has(r, x) ELSE Cached(blocks, x)
        BY <2>2, <2>3
    <2>5. BlocksOK(blocks')
        BY <2>2, <2>3
    <2>6. ASSUME NEW x \in Line
          PROVE  Cached(blocks', x) <=>
                    \/ x = line
                    \/ Cached(blocks, x) /\ x.block # b /\ x \notin V
      <3>1. CASE getId[x.block] = s
          BY <1>3, <1>4, <1>5, <2>1, <2>4, <3>1
      <3>2. CASE getId[x.block] # s
          BY <1>1, <1>3, <1>5, <2>4, <3>2
      <3> QED
          BY <3>1, <3>2
    <2>7. \A x \in V : /\ x \in Line /\ Cached(blocks, x) /\ x.block # b
                      /\ memory'[x.block] = x.data
        BY <1>3, <1>4, <1>5
    <2> QED
        BY <1>5, <2>5, <2>6, <2>7, ChangeBecomes
  <1>6. CASE ~full
    <2> DEFINE V == {}
    <2>1. /\ Len(q) < Associativity
          /\ blocks' = Replaced(blocks, s, Append(q, line)) /\ memory' = memory
      <3>1. Len(q) \in Nat /\ Associativity \in Nat
          BY <1>1, SetAssumption DEF SetOK
      <3> QED
          BY <1>6, <3>1 DEF Load, Replaced
    <2>2. /\ \A x : Has(q, x) <=> Has(q, x) /\ x \notin V
          /\ \A x \in V : x \in Line /\ getId[x.block] = s /\ Has(q, x)
          /\ memory' \in [Block -> Data]
          /\ \A x \in V : memory'[x.block] = x.data
          /\ \A a \in Block : (\A x \in V : x.block # a) => memory'[a] = memory[a]
        BY <2>1 DEF CacheInv
    <2> HIDE DEF V, q, s
    <2> QED
        BY <1>1, <1>2, <1>5, <2>1, <2>2
  <1>7. CASE full
    <2>0. Len(q) \in Nat /\ Associativity \in Nat \ {0}
        BY <1>1, SetAssumption DEF SetOK
    <2>1. PICK w \in Victims(q) :
            /\ blocks' = Replaced(blocks, s, Append(Without(q, w), line))
            /\ memory' = IF q[w].modified
                         THEN [memory EXCEPT ![q[w].block] = q[w].data]
                         ELSE memory
        BY <1>7, <2>0 DEF Load, Replaced
    <2>2. w \in DOMAIN q
      <3>1. 1 \in DOMAIN q
          BY <1>1, <1>7, <2>0 DEF SetOK
      <3> QED
          BY <3>1 DEF Victims
    <2> DEFINE rest == Without(q, w)
               V == {q[w]}
    <2>3. /\ SetOK(rest, s) /\ Len(rest) < Associativity
          /\ \A a : Holds(rest, a) <=> Holds(q, a) /\ a # q[w].block
          /\ \A x : Has(rest, x) <=> Has(q, x) /\ x # q[w]
        BY <1>1, <2>2, WithoutFits
    <2>4. q[w] \in Line /\ getId[q[w].block] = s /\ Has(q, q[w])
        BY <1>1, <2>2 DEF SetOK, Has
    <2>5. q[w].block \in Block /\ q[w].data \in Data
        BY <2>4 DEF Line
    <2>6. q[w].modified \/ q[w].data = memory[q[w].block]
        BY <1>4, <2>4 DEF CacheInv
    <2>7. /\ memory' \in [Block -> Data]
          /\ memory'[q[w].block] = q[w].data
          /\ \A a \in Block : q[w].block # a => memory'[a] = memory[a]
      <3>1. memory \in [Block -> Data]
          BY DEF CacheInv
      <3> HIDE DEF q
      <3>2. CASE q[w].modified
          BY <2>1, <2>5, <3>1, <3>2
      <3>3. CASE ~q[w].modified
          BY <2>1, <2>6, <3>1, <3>3
      <3> QED
          BY <3>2, <3>3
    <2>8. /\ \A x : Has(rest, x) <=> Has(q, x) /\ x \notin V
          /\ \A x \in V : x \in Line /\ getId[x.block] = s /\ Has(q, x)
          /\ \A x \in V : memory'[x.block] = x.data
          /\ \A a \in Block : (\A x \in V : x.block # a) => memory'[a] = memory[a]
          /\ ~Holds(rest, b)
          /\ blocks' = Replaced(blocks, s, Append(rest, line))
        BY <1>2, <2>1, <2>3, <2>4, <2>7
    <2> HIDE DEF rest, V, q, s
    <2> QED
        BY <1>5, <2>3, <2>7, <2>8
  <1> QED
      BY <1>6, <1>7
-----------------------------------------------------------------------------
(* The two operations, and the theorems.                                   *)

Inv == CacheInv /\ SamplerInv

LEMMA TrainVerdict ==
    ASSUME Inv, NEW b \in Block, NEW pc \in PC \cup {NoPC}, Train(b, pc)
    PROVE  SamplerInv' /\ DeadNow(pc) \in BOOLEAN
  <1>1. SamplerInv'
      BY TrainKeeps DEF Inv
  <1>2. TablesOK(predictionTable')
      BY <1>1 DEF SamplerInv
  <1> QED
      BY <1>1, <1>2, VerdictIs DEF DeadNow

\* A read leaves every block its bytes.
LEMMA Reads ==
    ASSUME Inv, NEW b \in Block, NEW pc \in PC \cup {NoPC}, getByte(b, pc)
    PROVE  Inv' /\ Becomes(b, Contents(b))
  <1>1. CASE ReadHit(b, pc)
    <2> DEFINE line == [LineOf(b) EXCEPT !.deadblock = DeadNow(pc)]
    <2>1. InCache(b) /\ Train(b, pc) /\ Hit(b, line) /\ memory' = memory
        BY <1>1 DEF ReadHit
    <2>2. SamplerInv' /\ DeadNow(pc) \in BOOLEAN
        BY <2>1, TrainVerdict
    <2>3. /\ LineOf(b) \in Line /\ LineOf(b).block = b
          /\ LineOf(b).modified \/ LineOf(b).data = memory[b]
          /\ Contents(b) = LineOf(b).data
        BY <2>1, LineThere DEF Inv, CacheInv, Contents
    <2>4. /\ line \in Line /\ line.block = b /\ line.data = Contents(b)
          /\ line.modified \/ line.data = memory[b]
        BY <2>2, <2>3 DEF Line
    <2> HIDE DEF line
    <2>5. Becomes(b, line.data)
        BY <2>1, <2>4, HitBecomes DEF Inv
    <2> QED
        BY <2>2, <2>4, <2>5 DEF Inv, Becomes
  <1>2. CASE ReadBypass(b, pc)
    <2>1. Train(b, pc) /\ blocks' = blocks /\ memory' = memory
        BY <1>2 DEF ReadBypass
    <2>2. SamplerInv'
        BY <2>1, TrainVerdict
    <2>3. CacheInv'
        BY <2>1 DEF Inv, CacheInv
    <2>4. \A a \in Block : Contents(a)' = Contents(a)
        BY <2>1 DEF Contents, InCache, LineOf
    <2> QED
        BY <2>2, <2>3, <2>4 DEF Inv, Becomes
  <1>3. CASE ReadMiss(b, pc)
    <2> DEFINE line == [block |-> b, modified |-> FALSE, deadblock |-> FALSE,
                        data |-> memory[b]]
    <2>1. ~InCache(b) /\ Train(b, pc) /\ Load(b, line)
        BY <1>3 DEF ReadMiss
    <2>2. SamplerInv'
        BY <2>1, TrainVerdict
    <2>3. Contents(b) = memory[b] /\ memory[b] \in Data
        BY <2>1 DEF Contents, Inv, CacheInv
    <2>4. line \in Line /\ line.block = b /\ line.data = memory[b]
        BY <2>3 DEF Line
    <2> HIDE DEF line
    <2>5. Becomes(b, line.data)
        BY <2>1, <2>4, LoadBecomes DEF Inv
    <2> QED
        BY <2>2, <2>3, <2>4, <2>5 DEF Inv, Becomes
  <1> QED
      BY <1>1, <1>2, <1>3 DEF getByte

\* A write changes one byte of its block, wherever the block ends up.
LEMMA Writes ==
    ASSUME Inv, NEW b \in Block, NEW pc \in PC \cup {NoPC},
           NEW o \in Offset, NEW val \in Value, setByte(b, o, val, pc)
    PROVE  Inv' /\ Becomes(b, [Contents(b) EXCEPT ![o] = val])
  <1> DEFINE d == [Contents(b) EXCEPT ![o] = val]
  <1>0. Contents(b) \in Data /\ d \in Data
    <2>1. Contents(b) \in Data
        BY ContentsAre DEF Inv
    <2> QED
        BY <2>1 DEF Data
  <1>1. CASE WriteHit(b, o, val, pc)
    <2> DEFINE line == [LineOf(b) EXCEPT !.modified = TRUE, !.data[o] = val,
                            !.deadblock = IF pc = NoPC THEN @ ELSE DeadNow(pc)]
    <2>1. InCache(b) /\ Train(b, pc) /\ Hit(b, line) /\ memory' = memory
        BY <1>1 DEF WriteHit
    <2>2. SamplerInv' /\ DeadNow(pc) \in BOOLEAN
        BY <2>1, TrainVerdict
    <2>3. LineOf(b) \in Line /\ LineOf(b).block = b /\ Contents(b) = LineOf(b).data
        BY <2>1, LineThere DEF Inv, CacheInv, Contents
    <2>4. line = [block |-> b, modified |-> TRUE, data |-> d,
                  deadblock |-> IF pc = NoPC THEN LineOf(b).deadblock
                                ELSE DeadNow(pc)]
      <3> DEFINE x == LineOf(b)
                 dead == IF pc = NoPC THEN x.deadblock ELSE DeadNow(pc)
      <3>1. line = [x EXCEPT !.modified = TRUE, !.data[o] = val, !.deadblock = dead]
          OBVIOUS
      <3>2. x \in Line /\ x.block = b /\ x.data = Contents(b)
          BY <2>3
      <3> HIDE DEF x, dead, line
      <3>3. line = [block |-> b, modified |-> TRUE, data |-> d, deadblock |-> dead]
          BY <3>1, <3>2 DEF Line
      <3> QED
          BY <3>3 DEF dead, x
    <2>5. LineOf(b).deadblock \in BOOLEAN
        BY <2>3 DEF Line
    <2> HIDE DEF line, d
    <2>6. line \in Line /\ line.block = b /\ line.data = d /\ line.modified
        BY <1>0, <2>2, <2>4, <2>5 DEF Line
    <2>7. Becomes(b, line.data)
        BY <2>1, <2>6, HitBecomes DEF Inv
    <2> QED
        BY <2>2, <2>6, <2>7 DEF Inv, Becomes, d
  <1>2. CASE WriteBypass(b, o, val, pc)
    <2>1. /\ ~InCache(b) /\ Train(b, pc) /\ blocks' = blocks
          /\ memory' = [memory EXCEPT ![b][o] = val]
        BY <1>2 DEF WriteBypass
    <2>2. SamplerInv'
        BY <2>1, TrainVerdict
    <2>3. /\ Contents(b) = memory[b] /\ memory \in [Block -> Data]
          /\ memory' = [memory EXCEPT ![b] = d]
        BY <2>1 DEF Contents, Inv, CacheInv
    <2> HIDE DEF d
    <2>4. /\ memory' \in [Block -> Data] /\ memory'[b] = d
          /\ \A a \in Block \ {b} : memory'[a] = memory[a]
        BY <1>0, <2>3
    <2>5. \A x \in Line : Cached(blocks, x) => x.block \in Block \ {b}
        BY <2>1, LineThere DEF Inv, CacheInv, Line
    <2>6. CacheInv'
        BY <2>1, <2>4, <2>5 DEF Inv, CacheInv
    <2>7. \A a \in Block : Contents(a)' = IF InCache(a) THEN LineOf(a).data
                                        ELSE memory'[a]
        BY <2>1 DEF Contents, InCache, LineOf
    <2>8. Contents(b)' = d /\ \A a \in Block \ {b} : Contents(a)' = Contents(a)
        BY <2>1, <2>4, <2>7 DEF Contents
    <2> QED
        BY <2>2, <2>6, <2>8 DEF Inv, Becomes, d
  <1>3. CASE WriteMiss(b, o, val, pc)
    <2> DEFINE line == [block |-> b, modified |-> TRUE, deadblock |-> FALSE,
                        data |-> [memory[b] EXCEPT ![o] = val]]
    <2>1. ~InCache(b) /\ Train(b, pc) /\ Load(b, line)
        BY <1>3 DEF WriteMiss
    <2>2. SamplerInv'
        BY <2>1, TrainVerdict
    <2>3. Contents(b) = memory[b]
        BY <2>1 DEF Contents
    <2>4. line \in Line /\ line.block = b /\ line.data = d /\ line.modified
        BY <1>0, <2>3 DEF Line
    <2> HIDE DEF line, d
    <2>5. Becomes(b, line.data)
        BY <2>1, <2>4, LoadBecomes DEF Inv
    <2> QED
        BY <2>2, <2>4, <2>5 DEF Inv, Becomes, d
  <1> QED
      BY <1>1, <1>2, <1>3 DEF setByte

LEMMA InitInv == Init => Inv
  <1> SUFFICES ASSUME Init PROVE Inv
      OBVIOUS
  <1>1. \A s \in Sets : blocks[s] = <<>>
      BY DEF Init
  <1>2. \A s : SetOK(<<>>, s) /\ SamplerOK(<<>>)
      BY SetAssumption DEF SetOK, SamplerOK, Unique
  <1>3. \A x \in Line : ~Cached(blocks, x)
      BY <1>1 DEF Cached, Has, Sets, Line
  <1>4. CacheInv
      BY <1>1, <1>2, <1>3 DEF Init, CacheInv, BlocksOK
  <1>5. SamplerInv
      BY <1>2 DEF Init, SamplerInv, TablesOK
  <1> QED
      BY <1>4, <1>5 DEF Inv

LEMMA NextInv == Inv /\ [Next]_vars => Inv'
  <1>1. Inv /\ UNCHANGED vars => Inv'
      BY DEF vars, Inv, CacheInv, SamplerInv
  <1> QED
      BY <1>1, Reads, Writes DEF Next

LEMMA Invariance == Spec => []Inv
  BY InitInv, NextInv, PTL DEF Spec

\* The counters stay within two bits, the sets within their ways.
THEOREM TypeCorrect == Spec => []TypeOK
  <1>1. Inv => TypeOK
    <2> SUFFICES ASSUME Inv PROVE TypeOK
        OBVIOUS
    <2>1. ASSUME NEW s \in Sets
          PROVE  /\ Len(blocks[s]) <= Associativity
                 /\ \A w \in DOMAIN blocks[s] : blocks[s][w] \in Line
        BY DEF Inv, CacheInv, BlocksOK, SetOK
    <2>2. ASSUME NEW s \in Sampled
          PROVE  /\ Len(samplerblocks[s]) <= SamplerAssociativity
                 /\ \A w \in DOMAIN samplerblocks[s] :
                        samplerblocks[s][w] \in SamplerBlock
        BY DEF Inv, SamplerInv, SamplerOK
    <2> QED
        BY <2>1, <2>2 DEF TypeOK, Inv, CacheInv, SamplerInv, BlocksOK, TablesOK
  <1> QED
      BY <1>1, Invariance, PTL

\* The sampler never remembers a block twice.
THEOREM SamplerIsUnique == Spec => []OnePCPerBlock
  <1>1. Inv => OnePCPerBlock
      BY DEF Inv, SamplerInv, SamplerOK, Unique, OnePCPerBlock
  <1> QED
      BY <1>1, Invariance, PTL

\* The cache is a memory without caches, whatever it bypasses.
THEOREM BypassIsSafe == Spec => BypassIsTransparent
  <1> DEFINE Access ==
        \/ \E b \in Block, o \in Offset, val \in Value :
                /\ Contents(b)'[o] = val /\ Memory!SetByte(b, o, val)
                /\ \E q \in PC \cup {NoPC} : setByte(b, o, val, q)
        \/ Memory!GetByte /\ \E b \in Block, q \in PC \cup {NoPC} : getByte(b, q)
  <1>1. Init => Memory!Init
    <2> SUFFICES ASSUME Init PROVE Memory!Init
        OBVIOUS
    <2>1. \A b \in Block : Contents(b) \in Data
        BY InitInv, ContentsAre DEF Inv
    <2> QED
        BY <2>1 DEF Memory!Init, Data
  <1>2. Inv /\ Next => Access
    <2>1. ASSUME Inv, NEW b \in Block, NEW pc \in PC \cup {NoPC}, getByte(b, pc)
          PROVE  Memory!GetByte
      <3>1. \A a \in Block : Contents(a)' = Contents(a)
          BY <2>1, Reads DEF Becomes
      <3> QED
          BY <3>1 DEF Memory!GetByte
    <2>2. ASSUME Inv, NEW b \in Block, NEW pc \in PC \cup {NoPC},
                 NEW o \in Offset, NEW val \in Value, setByte(b, o, val, pc)
          PROVE  Contents(b)'[o] = val /\ Memory!SetByte(b, o, val)
      <3>1. /\ Contents(b)' = [Contents(b) EXCEPT ![o] = val]
            /\ \A a \in Block \ {b} : Contents(a)' = Contents(a)
          BY <2>2, Writes DEF Becomes
      <3>2. Contents(b) \in Data
          BY <2>2, ContentsAre DEF Inv
      <3>3. Contents(b)'[o] = val
          BY <3>1, <3>2 DEF Data
      <3>4. Memory!SetByte(b, o, val)
          BY <3>1 DEF Memory!SetByte
      <3> QED
          BY <3>3, <3>4
    <2> QED
        BY <2>1, <2>2 DEF Next
  <1>3. Inv /\ [Next]_vars => [Access]_vars
      BY <1>2
  <1> QED
      BY <1>1, <1>3, Invariance, PTL DEF Spec, BypassIsTransparent

\* An update that raises, or of a pc with no counter in common, takes nothing
\* from the sum of p.
LEMMA UpdateSpares ==
    ASSUME NEW tables, TablesOK(tables), NEW p \in PC, NEW q \in PC,
           NEW updater \in {-1, 1}, updater = 1 \/ ~Share(p, q),
           predictor(tables, p)
    PROVE  predictor(updatepredictor(tables, q, updater), p)
  <1> DEFINE new == updatepredictor(tables, q, updater)
  <1>1. ASSUME NEW t \in Table
        PROVE  /\ tables[t][Index(t, p)] \in Int /\ new[t][Index(t, p)] \in Int
               /\ new[t][Index(t, p)] >= tables[t][Index(t, p)]
    <2>1. Index(t, p) \in Entry /\ Index(t, q) \in Entry
        BY DEF Index, Entry
    <2>2. tables[t] \in [Entry -> 0 .. 3]
        BY DEF TablesOK
    <2>3. new[t][Index(t, p)] =
            IF Index(t, p) = Index(t, q)
            THEN saturating(tables[t][Index(t, q)] + updater)
            ELSE tables[t][Index(t, p)]
        BY <2>1, <2>2 DEF updatepredictor
    <2>4. Index(t, p) = Index(t, q) => updater = 1
        BY DEF Share
    <2> HIDE DEF new
    <2>5. CASE Index(t, p) = Index(t, q)
      <3>1. tables[t][Index(t, q)] \in 0 .. 3
          BY <2>1, <2>2
      <3>2. new[t][Index(t, p)] = saturating(tables[t][Index(t, q)] + 1)
          BY <2>3, <2>4, <2>5
      <3> QED
          BY <2>5, <3>1, <3>2 DEF saturating
    <2>6. CASE Index(t, p) # Index(t, q)
      <3>1. tables[t][Index(t, p)] \in 0 .. 3
          BY <2>1, <2>2
      <3> QED
          BY <2>3, <2>6, <3>1
    <2> QED
        BY <2>5, <2>6
  <1> HIDE DEF new
  <1>2. 1 \in Table /\ 2 \in Table /\ 3 \in Table
      BY DEF Table
  <1>3. predictor(new, p)
      BY <1>1, <1>2 DEF predictor
  <1> QED
      BY <1>3 DEF new

\* What may take from the sum of p is an access by a pc that shares a counter
\* with it, to a block the sampler has or by a pc found alive.
LEMMA TrainSpares ==
    ASSUME SamplerInv, NEW b \in Block, NEW q \in PC \cup {NoPC}, Train(b, q),
           NEW p \in PC, predictor(predictionTable, p), ~predictor(predictionTable', p)
    PROVE  /\ q \in PC /\ Share(p, q)
           /\ InSampler(b) \/ ~predictor(predictionTable, q)
  <1> DEFINE s == getId[b]
             set == samplerblocks[s]
             full == Len(set) >= SamplerAssociativity
             taught == IF full
                       THEN updatepredictor(predictionTable, Head(set).partialPC, 1)
                       ELSE predictionTable
  <1>1. ~Unsampled(b, q)
      BY DEF Train
  <1>2. s \in Sampled /\ q \in PC
      BY <1>1 DEF Unsampled
  <1>3. predictionTable' = getByteSamplerset(set, b, q).tables
      BY <1>1 DEF Train
  <1>4. SamplerOK(set) /\ TablesOK(predictionTable)
      BY <1>2 DEF SamplerInv
  <1>5. CASE Find(set, b) # {}
    <2>1. predictionTable' = updatepredictor(predictionTable, q, -1)
        BY <1>3, <1>5 DEF getByteSamplerset
    <2>2. Share(p, q)
        BY <1>2, <1>4, <2>1, UpdateSpares
    <2> QED
        BY <1>2, <1>5, <2>2 DEF InSampler
  <1>6. CASE Find(set, b) = {} /\ predictor(predictionTable, q)
      BY <1>3, <1>6 DEF getByteSamplerset
  <1>7. CASE Find(set, b) = {} /\ ~predictor(predictionTable, q)
    <2>1. predictionTable' = updatepredictor(taught, q, -1)
        BY <1>3, <1>7 DEF getByteSamplerset
    <2>2. TablesOK(taught) /\ predictor(taught, p)
      <3>1. CASE full
        <4>1. set # <<>> /\ set \in Seq(SamplerBlock)
            BY <1>4, <3>1, SetAssumption DEF SamplerOK
        <4> HIDE DEF set
        <4>2. Head(set).partialPC \in PC
          <5>1. Head(set) \in SamplerBlock
              BY <4>1
          <5> QED
              BY <5>1 DEF SamplerBlock
        <4>3. /\ TablesOK(updatepredictor(predictionTable, Head(set).partialPC, 1))
              /\ predictor(updatepredictor(predictionTable,
                                           Head(set).partialPC, 1), p)
            BY <1>4, <4>2, UpdateKeeps, UpdateSpares
        <4> QED
            BY <3>1, <4>3
      <3>2. CASE ~full
          BY <1>4, <3>2
      <3> QED
          BY <3>1, <3>2
    <2> HIDE DEF taught
    <2>3. Share(p, q)
        BY <1>2, <2>1, <2>2, UpdateSpares
    <2> QED
        BY <1>2, <1>7, <2>3
  <1> QED
      BY <1>5, <1>6, <1>7

\* A pc found dead stays so, but for what the sampler remembers or live pcs do.
THEOREM VerdictsStay == Spec => VerdictsStick
  <1> DEFINE Sticks == \A p \in PC :
        predictor(predictionTable, p) /\ ~predictor(predictionTable', p) =>
            \E q \in PC : \E b \in Block :
                /\ Share(p, q)
                /\ InSampler(b) \/ ~predictor(predictionTable, q)
                /\ \/ getByte(b, q)
                   \/ \E o \in Offset, val \in Value : setByte(b, o, val, q)
  <1>1. Inv /\ Next => Sticks
    <2> SUFFICES ASSUME Inv, Next, NEW p \in PC, predictor(predictionTable, p),
                        ~predictor(predictionTable', p)
                 PROVE  \E q \in PC : \E b \in Block :
                          /\ Share(p, q)
                          /\ InSampler(b) \/ ~predictor(predictionTable, q)
                          /\ \/ getByte(b, q)
                             \/ \E o \in Offset, val \in Value : setByte(b, o, val, q)
        OBVIOUS
    <2>1. PICK b \in Block, q \in PC \cup {NoPC} :
            \/ getByte(b, q)
            \/ \E o \in Offset, val \in Value : setByte(b, o, val, q)
        BY DEF Next
    <2>2. Train(b, q)
        BY <2>1 DEF getByte, setByte, ReadHit, ReadBypass, ReadMiss, WriteHit,
                    WriteBypass, WriteMiss
    <2>3. /\ q \in PC /\ Share(p, q)
          /\ InSampler(b) \/ ~predictor(predictionTable, q)
        BY <2>2, TrainSpares DEF Inv
    <2> QED
        BY <2>1, <2>3
  <1>2. Inv /\ [Next]_vars => [Sticks]_vars
      BY <1>1
  <1> QED
      BY <1>2, Invariance, PTL DEF Spec, VerdictsStick
-----------------------------------------------------------------------------
(* The history of the sampler.                                             *)

\* Whoever raised a counter has lost a block.
Raised == \A t \in Table, i \in Entry : predictionTable[t][i] > 0 =>
            \E q \in evicted : Index(t, q) = i

\* Of one table, an update raises the entry of its pc, or none.
LEMMA UpdateRaises ==
    ASSUME NEW tables, TablesOK(tables), NEW q \in PC \cup {NoPC},
           NEW updater \in {-1, 1}, NEW t \in Table, NEW i \in Entry,
           updatepredictor(tables, q, updater)[t][i] > 0
    PROVE  tables[t][i] > 0 \/ (updater = 1 /\ Index(t, q) = i)
  <1>0. Index(t, q) \in Entry
      BY DEF Index, Entry
  <1>1. tables[t] \in [Entry -> 0 .. 3]
      BY DEF TablesOK
  <1>2. tables[t][i] \in 0 .. 3
      BY <1>1
  <1>3. updatepredictor(tables, q, updater)[t][i] =
            IF i = Index(t, q) THEN saturating(tables[t][i] + updater)
            ELSE tables[t][i]
      BY <1>0, <1>1 DEF updatepredictor
  <1>4. updater = -1 \/ updater = 1
      OBVIOUS
  <1> QED
      BY <1>2, <1>3, <1>4 DEF saturating

\* The block a full sampler set gives up is not in it any more.
LEMMA OldestLeaves ==
    ASSUME NEW q, SamplerOK(q), Len(q) >= SamplerAssociativity,
           NEW x \in SamplerBlock, ~Holds(q, x.block)
    PROVE  /\ 1 \in DOMAIN q /\ Head(q) = q[1]
           /\ ~Holds(Append(Tail(q), x), q[1].block)
  <1>1. /\ q \in Seq(SamplerBlock) /\ Unique(q) /\ q # <<>>
        /\ Len(q) >= 1 /\ Len(q) \in Nat
      BY SetAssumption DEF SamplerOK
  <1> DEFINE r == Without(q, 1)
             a == Append(r, x)
  <1>2. Tail(q) = r /\ 1 \in DOMAIN q /\ Head(q) = q[1]
      BY <1>1, TailIsWithout
  <1>3. /\ r \in Seq(SamplerBlock) /\ Unique(r)
        /\ \A b : Holds(r, b) <=> Holds(q, b) /\ b # q[1].block
      BY <1>1, <1>2, WithoutKeeps
  <1>4. x.block # q[1].block
      BY <1>2 DEF Holds
  <1> HIDE DEF r
  <1>5. \A y : Has(a, y) <=> Has(r, y) \/ y = x
      BY <1>3, AppendKeeps
  <1> HIDE DEF a
  <1>6. ~Holds(a, q[1].block)
    <2>1. SUFFICES ASSUME NEW w \in DOMAIN a, a[w].block = q[1].block PROVE FALSE
        BY DEF Holds
    <2>2. Has(r, a[w])
        BY <1>4, <1>5, <2>1 DEF Has
    <2>3. Holds(r, q[1].block)
        BY <2>1, <2>2 DEF Has, Holds
    <2> QED
        BY <1>3, <2>3
  <1> QED
      BY <1>1, <1>2, <1>6 DEF a

\* A counter is raised for the pc of a block that leaves the sampler.
LEMMA TrainRaises ==
    ASSUME SamplerInv, NEW b \in Block, NEW pc \in PC \cup {NoPC}, Train(b, pc),
           NEW t \in Table, NEW i \in Entry, predictionTable'[t][i] > 0,
           ~(predictionTable[t][i] > 0)
    PROVE  \E q \in Evictions : Index(t, q) = i
  <1> DEFINE s == getId[b]
             set == samplerblocks[s]
             entry == [block |-> b, partialPC |-> pc]
             old == Head(set).partialPC
             raised == updatepredictor(predictionTable, old, 1)
  <1>1. ~Unsampled(b, pc)
      BY DEF Train
  <1>2. s \in Sampled /\ pc \in PC
      BY <1>1 DEF Unsampled
  <1>3. /\ predictionTable' = getByteSamplerset(set, b, pc).tables
        /\ samplerblocks' =
                [samplerblocks EXCEPT ![s] = getByteSamplerset(set, b, pc).set]
      BY <1>1 DEF Train
  <1>4. SamplerOK(set) /\ TablesOK(predictionTable)
      BY <1>2 DEF SamplerInv
  <1>5. samplerblocks'[s] = getByteSamplerset(set, b, pc).set
      BY <1>2, <1>3 DEF SamplerInv
  <1>6. CASE \/ Find(set, b) # {} \/ predictor(predictionTable, pc)
             \/ ~(Len(set) >= SamplerAssociativity)
    <2>1. \/ predictionTable' = updatepredictor(predictionTable, pc, -1)
          \/ predictionTable' = predictionTable
        BY <1>3, <1>6 DEF getByteSamplerset
    <2> QED
        BY <1>4, <2>1, UpdateRaises
  <1>7. CASE /\ Find(set, b) = {} /\ ~predictor(predictionTable, pc)
             /\ Len(set) >= SamplerAssociativity
    <2>1. /\ predictionTable' = updatepredictor(raised, pc, -1)
          /\ samplerblocks'[s] = Append(Tail(set), entry)
        BY <1>3, <1>5, <1>7 DEF getByteSamplerset
    <2>2. entry \in SamplerBlock /\ entry.block = b /\ ~Holds(set, b)
        BY <1>2, <1>7 DEF SamplerBlock, Find, Holds
    <2> HIDE DEF set, entry
    <2>3. /\ 1 \in DOMAIN set /\ Head(set) = set[1]
          /\ ~Holds(Append(Tail(set), entry), set[1].block)
        BY <1>4, <1>7, <2>2, OldestLeaves
    <2>4. set[1] \in SamplerBlock
        BY <1>4, <2>3 DEF SamplerOK
    <2>5. old \in PC /\ old = set[1].partialPC
        BY <2>3, <2>4 DEF SamplerBlock
    <2>6. old \in Evictions
      <3>1. \A w \in DOMAIN samplerblocks'[s] :
                samplerblocks'[s][w].block # set[1].block
          BY <2>1, <2>3 DEF Holds
      <3> QED
          BY <1>2, <2>3, <2>5, <3>1 DEF Evictions, set
    <2> HIDE DEF old
    <2>7. TablesOK(raised)
        BY <1>4, <2>5, UpdateKeeps
    <2>8. Index(t, old) = i
      <3>1. raised[t][i] > 0
        <4> HIDE DEF raised
        <4> QED
            BY <2>1, <2>7, UpdateRaises
      <3> QED
          BY <1>4, <2>5, <3>1, UpdateRaises
    <2> QED
        BY <2>6, <2>8
  <1> QED
      BY <1>6, <1>7

HistoryInv == Inv /\ Raised

LEMMA RaisedKept ==
    ASSUME HistoryInv, HistoryNext
    PROVE  HistoryInv'
  <1>1. Inv' /\ SamplerInv
      BY NextInv DEF HistoryInv, HistoryNext, Inv
  <1>2. PICK b \in Block, q \in PC \cup {NoPC} :
            \/ getByte(b, q)
            \/ \E o \in Offset, val \in Value : setByte(b, o, val, q)
      BY DEF HistoryNext, Next
  <1>3. Train(b, q)
      BY <1>2 DEF getByte, setByte, ReadHit, ReadBypass, ReadMiss, WriteHit,
                  WriteBypass, WriteMiss
  <1>4. ASSUME NEW t \in Table, NEW i \in Entry, predictionTable'[t][i] > 0
        PROVE  \E p \in evicted' : Index(t, p) = i
    <2>1. CASE predictionTable[t][i] > 0
        BY <2>1 DEF HistoryInv, Raised, HistoryNext
    <2>2. CASE ~(predictionTable[t][i] > 0)
        BY <1>1, <1>3, <1>4, <2>2, TrainRaises DEF HistoryNext
    <2> QED
        BY <2>1, <2>2
  <1> QED
      BY <1>1, <1>4 DEF HistoryInv, Raised

LEMMA HistoryHolds == HistorySpec => []HistoryInv
  <1>1. HistoryInit => HistoryInv
      BY InitInv DEF HistoryInit, HistoryInv, Raised, Init
  <1>2. HistoryInv /\ [HistoryNext]_<<vars, evicted>> => HistoryInv'
    <2>1. CASE UNCHANGED <<vars, evicted>>
        BY <2>1, NextInv DEF HistoryInv, Raised, vars
    <2> QED
        BY <2>1, RaisedKept
  <1> QED
      BY <1>1, <1>2, PTL DEF HistorySpec

\* The tables say dead only of pcs each of whose counters was raised for a pc
\* that lost a block, for any geometry and hash functions.
THEOREM DeadOnesLostBlocks == HistorySpec => []DeadOnesWereEvicted
  <1>1. HistoryInv => DeadOnesWereEvicted
    <2>1. SUFFICES ASSUME HistoryInv, NEW p \in PC, predictor(predictionTable, p),
                          NEW t \in Table
                   PROVE  \E q \in evicted : Index(t, q) = Index(t, p)
        BY DEF DeadOnesWereEvicted
    <2>2. \A u \in Table : /\ Index(u, p) \in Entry
                          /\ predictionTable[u][Index(u, p)] \in 0 .. 3
      <3>1. \A u \in Table : Index(u, p) \in Entry
          BY <2>1 DEF Index, Entry
      <3>2. predictionTable \in [Table -> [Entry -> 0 .. 3]]
          BY <2>1 DEF HistoryInv, Inv, SamplerInv, TablesOK
      <3> QED
          BY <3>1, <3>2
    <2>3. predictionTable[t][Index(t, p)] > 0
        BY <2>1, <2>2 DEF predictor, Table
    <2> QED
        BY <2>1, <2>2, <2>3 DEF HistoryInv, Raised
  <1> QED
      BY <1>1, HistoryHolds, PTL
=============================================================================
