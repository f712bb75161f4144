------------------------ MODULE ExclusiveCacheProofs ------------------------
(***************************************************************************)
(* The exclusive hierarchy is exclusive, its moves keep every byte, and it *)
(* is a memory but for the blocks whose mark goes on their way up: for any *)
(* blocks, geometry and index.                                             *)
(***************************************************************************)
EXTENDS ExclusiveCache, SharedLemmas

(* The parts of the invariant, of any value bl of blocks and any set q of it. *)

SetOK(q, l, s) ==
    /\ q \in Seq(Line) /\ Len(q) <= Associativity[l]
    /\ \A w \in DOMAIN q : getId[l][q[w].block] = s
    /\ Unique(q)
BlocksOK(bl) ==
    /\ DOMAIN bl = Level
    /\ \A l \in Level : DOMAIN bl[l] = Sets(l)
    /\ bl = [l \in Level |-> [s \in Sets(l) |-> bl[l][s]]]
    /\ \A l \in Level : \A s \in Sets(l) : SetOK(bl[l][s], l, s)

In(bl, l, b) == Holds(bl[l][getId[l][b]], b)
Alone(bl) == \A b \in Block : \A k, l \in Level : In(bl, k, b) /\ In(bl, l, b) => k = l
HasLine(bl, l, x) == Has(bl[l][getId[l][x.block]], x)
-----------------------------------------------------------------------------
(* Sets of lines.                                                          *)

LEMMA WithoutFits ==
    ASSUME NEW l \in Level, NEW s, NEW q, SetOK(q, l, s), NEW w \in DOMAIN q
    PROVE  /\ SetOK(Without(q, w), l, s)
           /\ Len(Without(q, w)) < Associativity[l]
           /\ \A b : Holds(Without(q, w), b) <=> Holds(q, b) /\ b # q[w].block
           /\ \A x : Has(Without(q, w), x) <=> Has(q, x) /\ x # q[w]
  <1> DEFINE r == Without(q, w)
  <1>1. /\ q \in Seq(Line) /\ Unique(q) /\ Len(q) \in Nat
        /\ Len(q) <= Associativity[l] /\ Associativity[l] \in Nat
      BY WayAssumption DEF SetOK
  <1>2. /\ r \in Seq(Line) /\ Unique(r) /\ Len(r) = Len(q) - 1
        /\ \A b : Holds(r, b) <=> Holds(q, b) /\ b # q[w].block
        /\ \A x : Has(r, x) <=> Has(q, x) /\ x # q[w]
      BY <1>1, WithoutKeeps
  <1> HIDE DEF r
  <1>3. ASSUME NEW k \in DOMAIN r PROVE getId[l][r[k].block] = s
    <2>1. Has(r, r[k])
        BY DEF Has
    <2>2. Has(q, r[k])
        BY <1>2, <2>1
    <2> QED
        BY <2>2 DEF Has, SetOK
  <1> QED
      BY <1>1, <1>2, <1>3 DEF SetOK, r

LEMMA AppendFits ==
    ASSUME NEW l \in Level, NEW s, NEW q, SetOK(q, l, s),
           Len(q) < Associativity[l], NEW x \in Line,
           getId[l][x.block] = s, ~Holds(q, x.block)
    PROVE  /\ SetOK(Append(q, x), l, s)
           /\ \A b : Holds(Append(q, x), b) <=> Holds(q, b) \/ b = x.block
           /\ \A y : Has(Append(q, x), y) <=> Has(q, y) \/ y = x
  <1> DEFINE r == Append(q, x)
  <1>1. /\ q \in Seq(Line) /\ Unique(q) /\ Len(q) \in Nat
        /\ Associativity[l] \in Nat
      BY WayAssumption DEF SetOK
  <1>2. /\ r \in Seq(Line) /\ Unique(r) /\ Len(r) = Len(q) + 1
        /\ \A b : Holds(r, b) <=> Holds(q, b) \/ b = x.block
        /\ \A y : Has(r, y) <=> Has(q, y) \/ y = x
      BY <1>1, AppendKeeps
  <1> HIDE DEF r
  <1>3. ASSUME NEW k \in DOMAIN r PROVE getId[l][r[k].block] = s
    <2>1. Has(r, r[k])
        BY DEF Has
    <2>2. Has(q, r[k]) \/ r[k] = x
        BY <1>2, <2>1
    <2> QED
        BY <2>2 DEF Has, SetOK
  <1> QED
      BY <1>1, <1>2, <1>3 DEF SetOK, r

\* A set that takes a line in and gives up its oldest one if it is full.
Full(q, l) == Len(q) >= Associativity[l]
Entered(q, x, l) == Append(IF Full(q, l) THEN Tail(q) ELSE q, x)

LEMMA Enters ==
    ASSUME NEW l \in Level, NEW s, NEW q, SetOK(q, l, s), NEW x \in Line,
           getId[l][x.block] = s, ~Holds(q, x.block)
    PROVE  /\ SetOK(Entered(q, x, l), l, s)
           /\ Full(q, l) => /\ Head(q) \in Line /\ Has(q, Head(q))
                            /\ ~Holds(Entered(q, x, l), Head(q).block)
           /\ \A b : Holds(Entered(q, x, l), b) <=>
                \/ b = x.block
                \/ Holds(q, b) /\ (Full(q, l) => b # Head(q).block)
           /\ \A y : Has(Entered(q, x, l), y) <=>
                \/ y = x
                \/ Has(q, y) /\ (Full(q, l) => y # Head(q))
  <1> DEFINE full == Full(q, l)
             r == Entered(q, x, l)
  <1>1. q \in Seq(Line) /\ Len(q) \in Nat /\ Associativity[l] \in Nat \ {0}
      BY WayAssumption DEF SetOK
  <1>2. CASE full
    <2>1. q # <<>>
        BY <1>1, <1>2 DEF Full
    <2>2. Tail(q) = Without(q, 1) /\ Head(q) = q[1] /\ 1 \in DOMAIN q
        BY <1>1, <2>1, TailIsWithout
    <2>3. /\ SetOK(Tail(q), l, s) /\ Len(Tail(q)) < Associativity[l]
          /\ \A b : Holds(Tail(q), b) <=> Holds(q, b) /\ b # Head(q).block
          /\ \A y : Has(Tail(q), y) <=> Has(q, y) /\ y # Head(q)
      <3>1. /\ SetOK(Without(q, 1), l, s) /\ Len(Without(q, 1)) < Associativity[l]
            /\ \A b : Holds(Without(q, 1), b) <=> Holds(q, b) /\ b # q[1].block
            /\ \A y : Has(Without(q, 1), y) <=> Has(q, y) /\ y # q[1]
          BY <2>2, WithoutFits
      <3> QED
          BY <2>2, <3>1
    <2>4. Head(q) \in Line
        BY <1>1, <2>2
    <2>5. Has(q, Head(q)) /\ Holds(q, Head(q).block)
        BY <2>2 DEF Has, Holds
    <2>6. ~Holds(Tail(q), x.block)
        BY <2>3
    <2>7. /\ SetOK(Append(Tail(q), x), l, s)
          /\ \A b : Holds(Append(Tail(q), x), b) <=> Holds(Tail(q), b) \/ b = x.block
          /\ \A y : Has(Append(Tail(q), x), y) <=> Has(Tail(q), y) \/ y = x
      <3> DEFINE t == Tail(q)
      <3>1. SetOK(t, l, s) /\ Len(t) < Associativity[l] /\ ~Holds(t, x.block)
          BY <2>3, <2>6
      <3> HIDE DEF t
      <3>2. /\ SetOK(Append(t, x), l, s)
            /\ \A b : Holds(Append(t, x), b) <=> Holds(t, b) \/ b = x.block
            /\ \A y : Has(Append(t, x), y) <=> Has(t, y) \/ y = x
          BY <3>1, AppendFits
      <3> QED
          BY <3>2 DEF t
    <2>8. r = Append(Tail(q), x)
        BY <1>2 DEF Entered
    <2> HIDE DEF r, full
    <2> QED
        BY <1>2, <2>2, <2>3, <2>4, <2>5, <2>7, <2>8 DEF r, full
  <1>3. CASE ~full
    <2>1. Len(q) < Associativity[l]
        BY <1>1, <1>3 DEF Full
    <2>2. r = Append(q, x)
        BY <1>3 DEF Entered
    <2>3. /\ SetOK(Append(q, x), l, s)
          /\ \A b : Holds(Append(q, x), b) <=> Holds(q, b) \/ b = x.block
          /\ \A y : Has(Append(q, x), y) <=> Has(q, y) \/ y = x
        BY <2>1, AppendFits
    <2> HIDE DEF r, full
    <2> QED
        BY <1>3, <2>2, <2>3 DEF r, full
  <1> QED
      BY <1>2, <1>3, <1>1
-----------------------------------------------------------------------------
(* One level takes in the line on its way, and sends its oldest one on.    *)

\* The state between two levels of an access: the line on its way is in none.
StateOK(st) ==
    /\ BlocksOK(st.blocks) /\ Alone(st.blocks)
    /\ \/ st.line = <<>>
       \/ \E x \in Line : /\ st.line = <<x>>
                          /\ \A l \in Level : ~In(st.blocks, l, x.block)
Somewhere(st, x) ==
    \/ \E l \in Level : HasLine(st.blocks, l, x)
    \/ st.line = <<x>>

\* One set of one level is replaced.
Replaced(bl, l, s, q) == [bl EXCEPT ![l][s] = q]

LEMMA OneSetChanges ==
    ASSUME NEW bl, BlocksOK(bl), NEW l \in Level, NEW s \in Sets(l),
           NEW q, SetOK(q, l, s)
    PROVE  /\ BlocksOK(Replaced(bl, l, s, q))
           /\ \A k \in Level : \A b \in Block :
                In(Replaced(bl, l, s, q), k, b) <=>
                    IF k = l /\ getId[l][b] = s THEN Holds(q, b) ELSE In(bl, k, b)
           /\ \A k \in Level : \A x \in Line :
                HasLine(Replaced(bl, l, s, q), k, x) <=>
                    IF k = l /\ getId[l][x.block] = s THEN Has(q, x)
                    ELSE HasLine(bl, k, x)
  <1> DEFINE new == Replaced(bl, l, s, q)
  <1>1. /\ DOMAIN new = Level
        /\ \A k \in Level : DOMAIN new[k] = Sets(k)
        /\ \A k \in Level : \A t \in Sets(k) :
            new[k][t] = IF k = l /\ t = s THEN q ELSE bl[k][t]
        /\ new = [k \in Level |-> [t \in Sets(k) |-> new[k][t]]]
      BY DEF BlocksOK, Replaced
  <1> HIDE DEF new
  <1>2. BlocksOK(new)
      BY <1>1 DEF BlocksOK
  <1>3. \A k \in Level : \A b \in Block : getId[k][b] \in Sets(k)
      BY DEF Sets
  <1>4. \A x \in Line : x.block \in Block
      BY DEF Line
  <1> QED
      BY <1>1, <1>2, <1>3, <1>4 DEF In, HasLine, new

LEMMA SinkKeeps ==
    ASSUME NEW st, StateOK(st), NEW l \in Level
    PROVE  /\ StateOK(Sink(st, l))
           /\ \A x \in Line : Somewhere(Sink(st, l), x) <=> Somewhere(st, x)
  <1>1. CASE st.line = <<>>
      BY <1>1 DEF Sink
  <1>2. CASE st.line # <<>>
    <2>1. PICK x \in Line : /\ st.line = <<x>>
                            /\ \A k \in Level : ~In(st.blocks, k, x.block)
        BY <1>2 DEF StateOK
    <2> DEFINE s == getId[l][x.block]
               q == st.blocks[l][s]
               full == Full(q, l)
               r == Entered(q, x, l)
               new == [st.blocks EXCEPT ![l][s] = r]
               out == IF full THEN <<Head(q)>> ELSE <<>>
    <2>2. st.line[1] = x
        BY <2>1
    <2>3. Sink(st, l) = [blocks |-> new, line |-> out]
        BY <1>2, <2>2 DEF Sink, Full, Entered
    <2>4. Sink(st, l).blocks = new /\ Sink(st, l).line = out
        BY <2>3
    <2>5. x.block \in Block /\ s \in Sets(l)
        BY DEF Line, Sets
    <2>6. BlocksOK(st.blocks) /\ Alone(st.blocks) /\ SetOK(q, l, s)
        BY <2>5 DEF StateOK, BlocksOK
    <2>7. ~Holds(q, x.block)
        BY <2>1 DEF In
    <2>8. /\ SetOK(r, l, s)
          /\ full => /\ Head(q) \in Line /\ Has(q, Head(q))
                     /\ ~Holds(r, Head(q).block)
          /\ \A b : Holds(r, b) <=>
                \/ b = x.block
                \/ Holds(q, b) /\ (full => b # Head(q).block)
          /\ \A y : Has(r, y) <=>
                \/ y = x
                \/ Has(q, y) /\ (full => y # Head(q))
      <3>1. getId[l][x.block] = s
          OBVIOUS
      <3> HIDE DEF q, s
      <3> QED
          BY <2>6, <2>7, <3>1, Enters
    <2> HIDE DEF r, full
    <2>9. /\ BlocksOK(new)
          /\ \A k \in Level : \A b \in Block :
               In(new, k, b) <=> IF k = l /\ getId[l][b] = s THEN Holds(r, b)
                                 ELSE In(st.blocks, k, b)
          /\ \A k \in Level : \A y \in Line :
               HasLine(new, k, y) <=> IF k = l /\ getId[l][y.block] = s
                                      THEN Has(r, y) ELSE HasLine(st.blocks, k, y)
      <3>1. new = Replaced(st.blocks, l, s, r)
          BY DEF Replaced
      <3> HIDE DEF new, s
      <3> QED
          BY <2>5, <2>6, <2>8, <3>1, OneSetChanges
    <2>10. \A b \in Block : getId[l][b] = s => (In(st.blocks, l, b) <=> Holds(q, b))
        BY DEF In
    <2>11. \A y \in Line : getId[l][y.block] = s =>
              (HasLine(st.blocks, l, y) <=> Has(q, y))
        BY DEF HasLine
    <2>12. \A y \in Line : y.block \in Block
        BY DEF Line
    <2>13. full => /\ getId[l][Head(q).block] = s
                   /\ Has(q, Head(q)) /\ Holds(q, Head(q).block)
        BY <2>6, <2>8 DEF SetOK, Has, Holds
    <2> HIDE DEF q, s, new
    <2>14. Alone(new)
        BY <2>1, <2>5, <2>6, <2>8, <2>9, <2>10 DEF Alone, s
    <2>15. \/ out = <<>>
           \/ \E y \in Line : /\ out = <<y>>
                              /\ \A k \in Level : ~In(new, k, y.block)
      <3>1. CASE full
        <4>1. In(st.blocks, l, Head(q).block) /\ Head(q).block \in Block
            BY <3>1, <2>8, <2>10, <2>12, <2>13
        <4>2. \A k \in Level : ~In(new, k, Head(q).block)
            BY <3>1, <4>1, <2>6, <2>8, <2>9, <2>13 DEF Alone
        <4> QED
            BY <3>1, <4>2, <2>8
      <3>2. CASE ~full
          BY <3>2
      <3> QED
          BY <3>1, <3>2
    <2>16. StateOK(Sink(st, l))
        BY <2>4, <2>9, <2>14, <2>15 DEF StateOK
    <2>17. ASSUME NEW y \in Line
           PROVE  Somewhere(Sink(st, l), y) <=> Somewhere(st, y)
      <3>1. Somewhere(st, y) <=> (\E k \in Level : HasLine(st.blocks, k, y)) \/ y = x
          BY <2>1 DEF Somewhere
      <3>2. Somewhere(Sink(st, l), y) <=>
                (\E k \in Level : HasLine(new, k, y)) \/ (full /\ y = Head(q))
          BY <2>4 DEF Somewhere
      <3>3. HasLine(new, l, y) <=>
                \/ y = x
                \/ HasLine(st.blocks, l, y) /\ (full => y # Head(q))
        <4>1. CASE getId[l][y.block] = s
          <5>1. HasLine(new, l, y) <=> Has(r, y)
              BY <2>9, <4>1
          <5> QED
              BY <4>1, <5>1, <2>8, <2>11
        <4>2. CASE getId[l][y.block] # s
          <5>1. HasLine(new, l, y) <=> HasLine(st.blocks, l, y)
              BY <2>9, <4>2
          <5>2. y # x /\ (full => y # Head(q))
              BY <2>13, <4>2 DEF s
          <5> QED
              BY <5>1, <5>2
        <4> QED
            BY <4>1, <4>2
      <3>4. \A k \in Level \ {l} : HasLine(new, k, y) <=> HasLine(st.blocks, k, y)
          BY <2>9
      <3>5. full /\ y = Head(q) => HasLine(st.blocks, l, y)
          BY <2>11, <2>13
      <3> QED
          BY <3>1, <3>2, <3>3, <3>4, <3>5
    <2> QED
        BY <2>16, <2>17
  <1> QED
      BY <1>1, <1>2
-----------------------------------------------------------------------------
(* The lines of the hierarchy, and what an access does to them.            *)

Anywhere(bl, x) == \E l \in Level : HasLine(bl, l, x)

LEMMA LineThere ==
    ASSUME BlocksOK(blocks), NEW b \in Block, NEW l \in Level
    PROVE  /\ InCache(l, b) <=> In(blocks, l, b)
           /\ InCache(l, b) =>
                /\ WayOf(l, b) \in DOMAIN blocks[l][getId[l][b]]
                /\ LineOf(l, b) = blocks[l][getId[l][b]][WayOf(l, b)]
                /\ LineOf(l, b) \in Line /\ LineOf(l, b).block = b
                /\ HasLine(blocks, l, LineOf(l, b))
           /\ \A x \in Line : HasLine(blocks, l, x) /\ x.block = b =>
                InCache(l, b) /\ x = LineOf(l, b)
  <1> DEFINE q == blocks[l][getId[l][b]]
  <1>1. SetOK(q, l, getId[l][b])
      BY DEF BlocksOK, Sets
  <1>2. InCache(l, b) <=> In(blocks, l, b)
      BY DEF InCache, Ways, Find, In, Holds
  <1>3. ASSUME InCache(l, b)
        PROVE  WayOf(l, b) \in DOMAIN q /\ q[WayOf(l, b)].block = b
    <2>1. WayOf(l, b) \in Ways(l, b)
        BY <1>3 DEF InCache, WayOf
    <2> QED
        BY <2>1 DEF Ways, Find
  <1>4. \A w \in DOMAIN q : q[w] \in Line
      BY <1>1 DEF SetOK
  <1>5. ASSUME InCache(l, b)
        PROVE  /\ LineOf(l, b) = q[WayOf(l, b)]
               /\ LineOf(l, b) \in Line /\ LineOf(l, b).block = b
               /\ HasLine(blocks, l, LineOf(l, b))
    <2>1. LineOf(l, b) = q[WayOf(l, b)]
        BY DEF LineOf
    <2> QED
        BY <1>3, <1>4, <1>5, <2>1 DEF HasLine, Has
  <1>6. ASSUME NEW x \in Line, HasLine(blocks, l, x), x.block = b
        PROVE  InCache(l, b) /\ x = LineOf(l, b)
    <2>1. PICK w \in DOMAIN q : q[w] = x
        BY <1>6 DEF HasLine, Has
    <2>2. InCache(l, b)
        BY <1>6, <2>1 DEF InCache, Ways, Find
    <2>3. w = WayOf(l, b)
        BY <1>1, <1>3, <1>6, <2>1, <2>2 DEF SetOK, Unique
    <2> QED
        BY <1>5, <2>1, <2>2, <2>3
  <1> QED
      BY <1>2, <1>3, <1>5, <1>6

\* In an exclusive hierarchy a block has one line.
LEMMA OneLine ==
    ASSUME BlocksOK(blocks), Alone(blocks), NEW x \in Line, NEW y \in Line,
           Anywhere(blocks, x), Anywhere(blocks, y), x.block = y.block
    PROVE  x = y
  <1>1. PICK k \in Level : HasLine(blocks, k, x)
      BY DEF Anywhere
  <1>2. PICK l \in Level : HasLine(blocks, l, y)
      BY DEF Anywhere
  <1>3. x.block \in Block
      BY DEF Line
  <1>4. /\ InCache(k, x.block) /\ x = LineOf(k, x.block)
        /\ InCache(l, x.block) /\ y = LineOf(l, x.block)
      BY <1>1, <1>2, <1>3, LineThere
  <1>5. k = l
      BY <1>3, <1>4, LineThere DEF Alone
  <1> QED
      BY <1>4, <1>5

\* A block is taken out of a level.
Removed(l, b) ==
    [blocks EXCEPT ![l][getId[l][b]] = Without(@, WayOf(l, b))]

LEMMA RemovalKeeps ==
    ASSUME BlocksOK(blocks), Alone(blocks), NEW b \in Block,
           NEW l \in Level, InCache(l, b)
    PROVE  /\ BlocksOK(Removed(l, b)) /\ Alone(Removed(l, b))
           /\ \A k \in Level : ~In(Removed(l, b), k, b)
           /\ \A x \in Line :
                Anywhere(Removed(l, b), x) <=> Anywhere(blocks, x) /\ x.block # b
  <1> DEFINE s == getId[l][b]
             q == blocks[l][s]
             w == WayOf(l, b)
             r == Without(q, w)
             new == Removed(l, b)
  <1>1. s \in Sets(l) /\ SetOK(q, l, s)
      BY DEF BlocksOK, Sets
  <1>2. w \in DOMAIN q /\ q[w] = LineOf(l, b) /\ q[w].block = b
      BY LineThere
  <1>3. new = Replaced(blocks, l, s, r)
      BY DEF Removed, Replaced
  <1> HIDE DEF w, q, s, new
  <1>4. /\ SetOK(r, l, s)
        /\ \A a : Holds(r, a) <=> Holds(q, a) /\ a # b
        /\ \A x : Has(r, x) <=> Has(q, x) /\ x # q[w]
      BY <1>1, <1>2, WithoutFits
  <1> HIDE DEF r, s
  <1>5. /\ BlocksOK(new)
        /\ \A k \in Level : \A a \in Block :
             In(new, k, a) <=> IF k = l /\ getId[l][a] = s THEN Holds(r, a)
                               ELSE In(blocks, k, a)
        /\ \A k \in Level : \A x \in Line :
             HasLine(new, k, x) <=> IF k = l /\ getId[l][x.block] = s
                                    THEN Has(r, x) ELSE HasLine(blocks, k, x)
      BY <1>1, <1>3, <1>4, OneSetChanges
  <1>6. \A k \in Level : In(blocks, k, b) => k = l
      BY LineThere DEF Alone
  <1>7. ASSUME NEW k \in Level, NEW a \in Block
        PROVE  In(new, k, a) <=> In(blocks, k, a) /\ a # b
    <2>1. CASE k = l /\ getId[l][a] = s
      <3>1. In(blocks, k, a) <=> Holds(q, a)
          BY <2>1 DEF In, q
      <3> QED
          BY <2>1, <3>1, <1>4, <1>5
    <2>2. CASE ~(k = l /\ getId[l][a] = s)
        BY <2>2, <1>5, <1>6 DEF s
    <2> QED
        BY <2>1, <2>2
  <1>8. ASSUME NEW k \in Level, NEW x \in Line
        PROVE  HasLine(new, k, x) <=> HasLine(blocks, k, x) /\ x.block # b
    <2>0. x.block \in Block
        BY DEF Line
    <2>1. HasLine(new, k, x) => x.block # b
      <3>1. HasLine(new, k, x) => In(new, k, x.block)
          BY DEF HasLine, Has, In, Holds
      <3> QED
          BY <1>7, <2>0, <3>1
    <2>2. CASE k = l /\ getId[l][x.block] = s
      <3>1. HasLine(blocks, k, x) <=> Has(q, x)
          BY <2>2 DEF HasLine, q
      <3> QED
          BY <2>1, <2>2, <3>1, <1>2, <1>4, <1>5
    <2>3. CASE ~(k = l /\ getId[l][x.block] = s)
        BY <2>1, <2>3, <1>5
    <2> QED
        BY <2>2, <2>3
  <1> QED
      BY <1>5, <1>7, <1>8 DEF Alone, Anywhere, new

\* The level a missing block is found in has it; its data go with the line.
LEMMA FoundThere ==
    ASSUME BlocksOK(blocks), NEW b \in Block, BelowL1(b) # {}
    PROVE  FoundIn(b) \in Level /\ InCache(FoundIn(b), b)
  <1>1. BelowL1(b) \subseteq Level /\ \A l \in BelowL1(b) : InCache(l, b)
      BY DEF BelowL1
  <1>2. \E l \in BelowL1(b) : \A k \in BelowL1(b) : l <= k
    <2>1. BelowL1(b) \subseteq {2, 3}
        BY DEF BelowL1, Level, L1
    <2>2. CASE 2 \in BelowL1(b)
        BY <2>1, <2>2
    <2>3. CASE 2 \notin BelowL1(b)
        BY <2>1, <2>3
    <2> QED
        BY <2>2, <2>3
  <1>3. FoundIn(b) \in BelowL1(b)
      BY <1>2 DEF FoundIn
  <1> QED
      BY <1>1, <1>3

LEMMA LoadedIs ==
    ASSUME BlocksOK(blocks), memory \in [Block -> Data], NEW b \in Block
    PROVE  /\ Loaded(b, BelowL1(b)) \in Line
           /\ Loaded(b, BelowL1(b)).block = b
           /\ BelowL1(b) = {} => Loaded(b, BelowL1(b)).data = memory[b]
           /\ BelowL1(b) # {} => \E x \in Line :
                /\ Anywhere(blocks, x) /\ x.block = b
                /\ Loaded(b, BelowL1(b)).data = x.data
  <1>1. CASE BelowL1(b) = {}
      BY <1>1 DEF Loaded, Line
  <1>2. CASE BelowL1(b) # {}
    <2> DEFINE x == LineOf(FoundIn(b), b)
    <2>1. x \in Line /\ x.block = b /\ Anywhere(blocks, x)
        BY <1>2, FoundThere, LineThere DEF Anywhere
    <2>2. x.data \in Data
        BY <2>1 DEF Line
    <2>3. Loaded(b, BelowL1(b)) = [block |-> b, modified |-> FALSE, data |-> x.data]
        BY <1>2 DEF Loaded
    <2> HIDE DEF x
    <2> QED
        BY <1>2, <2>1, <2>2, <2>3 DEF Line
  <1> QED
      BY <1>1, <1>2

\* A miss takes the block out of the level below that has it.
LEMMA TakenKeeps ==
    ASSUME BlocksOK(blocks), Alone(blocks), NEW b \in Block, ~InCache(L1, b)
    PROVE  /\ BlocksOK(Taken(b, BelowL1(b))) /\ Alone(Taken(b, BelowL1(b)))
           /\ \A k \in Level : ~In(Taken(b, BelowL1(b)), k, b)
           /\ \A x \in Line : Anywhere(Taken(b, BelowL1(b)), x) <=>
                Anywhere(blocks, x) /\ x.block # b
  <1>1. CASE BelowL1(b) = {}
    <2>1. Taken(b, BelowL1(b)) = blocks
        BY <1>1 DEF Taken
    <2>2. \A k \in Level : ~InCache(k, b)
        BY <1>1 DEF BelowL1, Level, L1
    <2>3. \A k \in Level : ~In(blocks, k, b)
        BY <2>2, LineThere
    <2>4. \A x \in Line : Anywhere(blocks, x) => x.block # b
        BY <2>2, LineThere DEF Anywhere
    <2> QED
        BY <2>1, <2>3, <2>4
  <1>2. CASE BelowL1(b) # {}
    <2>1. Taken(b, BelowL1(b)) = Removed(FoundIn(b), b)
        BY <1>2 DEF Taken, Removed
    <2>2. FoundIn(b) \in Level /\ InCache(FoundIn(b), b)
        BY <1>2, FoundThere
    <2> QED
        BY <2>1, <2>2, RemovalKeeps
  <1> QED
      BY <1>1, <1>2

\* A miss adds the line of the block, and every line that was somewhere else
\* is still somewhere, the one that leaves the L3 included.
LEMMA PlacedKeeps ==
    ASSUME BlocksOK(blocks), Alone(blocks), NEW b \in Block, ~InCache(L1, b),
           NEW line \in Line, line.block = b
    PROVE  /\ StateOK(Placed(b, line, BelowL1(b)))
           /\ \A x \in Line : Somewhere(Placed(b, line, BelowL1(b)), x) <=>
                \/ x = line
                \/ Anywhere(blocks, x) /\ x.block # b
  <1> DEFINE st0 == [blocks |-> Taken(b, BelowL1(b)), line |-> <<line>>]
             st1 == Sink(st0, 1)
             st2 == Sink(st1, 2)
  <1>1. st0.blocks = Taken(b, BelowL1(b)) /\ st0.line = <<line>>
      OBVIOUS
  <1>2. Placed(b, line, BelowL1(b)) = Sink(st2, 3)
      BY DEF Placed
  <1> HIDE DEF st0
  <1>3. StateOK(st0)
      BY <1>1, TakenKeeps DEF StateOK
  <1>4. \A x \in Line : Somewhere(st0, x) <=>
            \/ x = line
            \/ Anywhere(blocks, x) /\ x.block # b
    <2> TAKE x \in Line
    <2>1. st0.line = <<x>> <=> x = line
        BY <1>1
    <2>2. Anywhere(st0.blocks, x) <=> Anywhere(blocks, x) /\ x.block # b
        BY <1>1, TakenKeeps
    <2> QED
        BY <2>1, <2>2 DEF Somewhere, Anywhere
  <1>5. 1 \in Level /\ 2 \in Level /\ 3 \in Level
      BY DEF Level
  <1>6. StateOK(st1) /\ \A x \in Line : Somewhere(st1, x) <=> Somewhere(st0, x)
      BY <1>3, <1>5, SinkKeeps
  <1> HIDE DEF st1
  <1>7. StateOK(st2) /\ \A x \in Line : Somewhere(st2, x) <=> Somewhere(st1, x)
      BY <1>5, <1>6, SinkKeeps
  <1> HIDE DEF st2
  <1>8. /\ StateOK(Sink(st2, 3))
        /\ \A x \in Line : Somewhere(Sink(st2, 3), x) <=> Somewhere(st2, x)
      BY <1>5, <1>7, SinkKeeps
  <1> QED
      BY <1>2, <1>4, <1>6, <1>7, <1>8

\* A hit replaces the line of the block in the L1.
LEMMA HitKeeps ==
    ASSUME BlocksOK(blocks), Alone(blocks), NEW b \in Block,
           NEW line \in Line, line.block = b, Hit(b, line)
    PROVE  /\ BlocksOK(blocks') /\ Alone(blocks')
           /\ \A x \in Line : Anywhere(blocks', x) <=>
                \/ x = line
                \/ Anywhere(blocks, x) /\ x.block # b
  <1> DEFINE s == getId[L1][b]
             q == blocks[L1][s]
             w == WayOf(L1, b)
             t == Without(q, w)
             r == Append(t, line)
  <1>0. L1 \in Level
      BY DEF L1, Level
  <1>1. InCache(L1, b) /\ blocks' = Replaced(blocks, L1, s, r)
      BY DEF Hit, Replaced
  <1>2. s \in Sets(L1) /\ SetOK(q, L1, s) /\ getId[L1][line.block] = s
      BY <1>0 DEF BlocksOK, Sets
  <1>3. w \in DOMAIN q /\ q[w] = LineOf(L1, b) /\ q[w].block = b
      BY <1>0, <1>1, LineThere
  <1> HIDE DEF w, q, s
  <1>4. /\ SetOK(t, L1, s) /\ Len(t) < Associativity[L1]
        /\ \A a : Holds(t, a) <=> Holds(q, a) /\ a # b
        /\ \A x : Has(t, x) <=> Has(q, x) /\ x # q[w]
      BY <1>0, <1>2, <1>3, WithoutFits
  <1> HIDE DEF t
  <1>5. /\ SetOK(r, L1, s)
        /\ \A a : Holds(r, a) <=> Holds(t, a) \/ a = b
        /\ \A x : Has(r, x) <=> Has(t, x) \/ x = line
    <2>1. ~Holds(t, line.block)
        BY <1>4
    <2> QED
        BY <1>0, <1>2, <1>4, <2>1, AppendFits
  <1> HIDE DEF r
  <1>6. /\ BlocksOK(blocks')
        /\ \A k \in Level : \A a \in Block :
             In(blocks', k, a) <=> IF k = L1 /\ getId[L1][a] = s THEN Holds(r, a)
                                   ELSE In(blocks, k, a)
        /\ \A k \in Level : \A x \in Line :
             HasLine(blocks', k, x) <=> IF k = L1 /\ getId[L1][x.block] = s
                                        THEN Has(r, x) ELSE HasLine(blocks, k, x)
    <2>1. /\ BlocksOK(Replaced(blocks, L1, s, r))
          /\ \A k \in Level : \A a \in Block :
               In(Replaced(blocks, L1, s, r), k, a) <=>
                    IF k = L1 /\ getId[L1][a] = s THEN Holds(r, a)
                    ELSE In(blocks, k, a)
          /\ \A k \in Level : \A x \in Line :
               HasLine(Replaced(blocks, L1, s, r), k, x) <=>
                    IF k = L1 /\ getId[L1][x.block] = s THEN Has(r, x)
                    ELSE HasLine(blocks, k, x)
        BY <1>0, <1>2, <1>5, OneSetChanges
    <2> QED
        BY <1>1, <2>1
  <1>7. ASSUME NEW k \in Level, NEW a \in Block
        PROVE  In(blocks', k, a) <=> In(blocks, k, a)
    <2>1. CASE k = L1 /\ getId[L1][a] = s
      <3>1. In(blocks, k, a) <=> Holds(q, a)
          BY <2>1 DEF In, q
      <3>2. Holds(q, b)
          BY <1>3 DEF Holds
      <3> QED
          BY <2>1, <3>1, <3>2, <1>4, <1>5, <1>6
    <2>2. CASE ~(k = L1 /\ getId[L1][a] = s)
        BY <2>2, <1>6
    <2> QED
        BY <2>1, <2>2
  <1>8. \A k \in Level : \A x \in Line : HasLine(blocks, k, x) /\ x.block = b =>
            k = L1 /\ x = q[w]
      BY <1>0, <1>1, <1>3, LineThere DEF Alone
  <1>9. ASSUME NEW k \in Level, NEW x \in Line
        PROVE  HasLine(blocks', k, x) <=>
                    \/ k = L1 /\ x = line
                    \/ HasLine(blocks, k, x) /\ x.block # b
    <2>1. CASE k = L1 /\ getId[L1][x.block] = s
      <3>1. HasLine(blocks, k, x) <=> Has(q, x)
          BY <2>1 DEF HasLine, q
      <3>2. HasLine(blocks', k, x) <=> \/ Has(q, x) /\ x # q[w]
                                       \/ x = line
          BY <2>1, <1>4, <1>5, <1>6
      <3> QED
          BY <2>1, <3>1, <3>2, <1>3, <1>8
    <2>2. CASE ~(k = L1 /\ getId[L1][x.block] = s)
      <3>1. HasLine(blocks', k, x) <=> HasLine(blocks, k, x)
          BY <2>2, <1>6
      <3>2. k = L1 => x.block # b
          BY <2>2 DEF s
      <3> QED
          BY <3>1, <3>2, <1>8
    <2> QED
        BY <2>1, <2>2
  <1>10. Alone(blocks')
      BY <1>7 DEF Alone
  <1>11. \A x \in Line : Anywhere(blocks', x) <=>
            \/ x = line
            \/ Anywhere(blocks, x) /\ x.block # b
      BY <1>0, <1>9 DEF Anywhere
  <1> QED
      BY <1>6, <1>10, <1>11
-----------------------------------------------------------------------------
(* The invariant, and what the properties see of a state.                  *)

\* Written through, the memory has the bytes of every line.
Through ==
    ~writeBack => \A x \in Line : Anywhere(blocks, x) => x.data = memory[x.block]
Inv == /\ BlocksOK(blocks) /\ Alone(blocks)
       /\ memory \in [Block -> Data] /\ writeBack \in BOOLEAN
       /\ Through

LEMMA CopyIs ==
    Inv => \A b \in Block :
        /\ Present(b) => \E x \in Line : Anywhere(blocks, x) /\ x.block = b
        /\ \A x \in Line : Anywhere(blocks, x) /\ x.block = b =>
                Present(b) /\ Copy(b) = x.data /\ (Marked(b) <=> x.modified)
  <1> SUFFICES ASSUME Inv, NEW b \in Block
               PROVE  /\ Present(b) => \E x \in Line : Anywhere(blocks, x) /\ x.block = b
                      /\ \A x \in Line : Anywhere(blocks, x) /\ x.block = b =>
                            /\ Present(b) /\ Copy(b) = x.data
                            /\ Marked(b) <=> x.modified
      OBVIOUS
  <1> DEFINE l == CHOOSE k \in Level : InCache(k, b)
             y == LineOf(l, b)
  <1>1. ASSUME Present(b)
        PROVE  y \in Line /\ Anywhere(blocks, y) /\ y.block = b
    <2>1. l \in Level /\ InCache(l, b)
        BY <1>1 DEF Present
    <2> QED
        BY <2>1, LineThere DEF Inv, Anywhere
  <1>2. ASSUME NEW x \in Line, Anywhere(blocks, x), x.block = b
        PROVE  Present(b)
      BY <1>2, LineThere DEF Inv, Anywhere, Present
  <1>3. Copy(b) = y.data /\ (Marked(b) <=> y.modified)
      BY DEF Copy, Marked
  <1> HIDE DEF y
  <1>4. ASSUME NEW x \in Line, Anywhere(blocks, x), x.block = b
        PROVE  Present(b) /\ Copy(b) = x.data /\ (Marked(b) <=> x.modified)
    <2>1. Present(b)
        BY <1>2, <1>4
    <2>2. x = y
        BY <1>1, <1>4, <2>1, OneLine DEF Inv
    <2> QED
        BY <1>3, <2>1, <2>2
  <1> QED
      BY <1>1, <1>4

LEMMA ContentsAreMemory ==
    Inv => \A b \in Block : ~writeBack => Contents(b) = memory[b]
  BY CopyIs DEF Inv, Through, Contents

LEMMA CopyIsNext ==
    (Inv => \A b \in Block :
        /\ Present(b) => \E x \in Line : Anywhere(blocks, x) /\ x.block = b
        /\ \A x \in Line : Anywhere(blocks, x) /\ x.block = b =>
                Present(b) /\ Copy(b) = x.data /\ (Marked(b) <=> x.modified))'
  BY CopyIs, PTL

LEMMA ContentsAreMemoryNext ==
    (Inv => \A b \in Block : ~writeBack => Contents(b) = memory[b])'
  BY ContentsAreMemory, PTL

\* What an access of block b does: its line is new, no other line is.
Moves(b, line) ==
    /\ BlocksOK(blocks') /\ Alone(blocks')
    /\ \A x \in Line : Anywhere(blocks', x) =>
            x = line \/ (Anywhere(blocks, x) /\ x.block # b)

LEMMA HitMoves ==
    ASSUME Inv, NEW b \in Block, InCache(L1, b)
    PROVE  /\ LineOf(L1, b) \in Line /\ LineOf(L1, b).block = b
           /\ LineOf(L1, b).data = Contents(b)
           /\ \A line \in Line : line.block = b /\ Hit(b, line) => Moves(b, line)
  <1>0. L1 \in Level
      BY DEF L1, Level
  <1>1. /\ LineOf(L1, b) \in Line /\ LineOf(L1, b).block = b
        /\ Anywhere(blocks, LineOf(L1, b))
      BY <1>0, LineThere DEF Inv, Anywhere
  <1>2. LineOf(L1, b).data = Contents(b)
      BY <1>1, CopyIs DEF Contents
  <1>3. ASSUME NEW line \in Line, line.block = b, Hit(b, line)
        PROVE  Moves(b, line)
      BY <1>3, HitKeeps DEF Inv, Moves
  <1> QED
      BY <1>1, <1>2, <1>3

LEMMA MissMoves ==
    ASSUME Inv, NEW b \in Block, ~InCache(L1, b)
    PROVE  /\ Loaded(b, BelowL1(b)) \in Line /\ Loaded(b, BelowL1(b)).block = b
           /\ Loaded(b, BelowL1(b)).data = Contents(b)
           /\ \A line \in Line :
                line.block = b /\ blocks' = Placed(b, line, BelowL1(b)).blocks =>
                    /\ Moves(b, line)
                    /\ Dropped(Placed(b, line, BelowL1(b)).line) \in [Block -> Data]
                    /\ ~writeBack =>
                        Dropped(Placed(b, line, BelowL1(b)).line) = memory
  <1> DEFINE new == Loaded(b, BelowL1(b))
  <1>1. /\ new \in Line /\ new.block = b
        /\ BelowL1(b) = {} => new.data = memory[b]
        /\ BelowL1(b) # {} => \E x \in Line :
             Anywhere(blocks, x) /\ x.block = b /\ new.data = x.data
      BY LoadedIs DEF Inv
  <1>2. new.data = Contents(b)
    <2>1. CASE BelowL1(b) = {}
      <3>1. ~Present(b)
          BY <2>1 DEF Present, BelowL1, Level, L1
      <3> QED
          BY <1>1, <2>1, <3>1 DEF Contents
    <2>2. CASE BelowL1(b) # {}
        BY <1>1, <2>2, CopyIs DEF Contents
    <2> QED
        BY <2>1, <2>2
  <1>3. ASSUME NEW line \in Line, line.block = b,
               blocks' = Placed(b, line, BelowL1(b)).blocks
        PROVE  /\ Moves(b, line)
               /\ Dropped(Placed(b, line, BelowL1(b)).line) \in [Block -> Data]
               /\ ~writeBack => Dropped(Placed(b, line, BelowL1(b)).line) = memory
    <2> DEFINE placed == Placed(b, line, BelowL1(b))
    <2>1. /\ StateOK(placed)
          /\ \A x \in Line : Somewhere(placed, x) <=>
                \/ x = line
                \/ Anywhere(blocks, x) /\ x.block # b
        BY <1>3, PlacedKeeps DEF Inv
    <2> HIDE DEF placed
    <2>2. \A x \in Line : Anywhere(placed.blocks, x) => Somewhere(placed, x)
        BY DEF Anywhere, Somewhere
    <2>3. blocks' = placed.blocks
        BY <1>3 DEF placed
    <2>4. Moves(b, line)
        BY <2>1, <2>2, <2>3 DEF Moves, StateOK
    <2>5. placed.line = <<>> \/ \E x \in Line : placed.line = <<x>>
        BY <2>1 DEF StateOK
    <2>6. Dropped(placed.line) \in [Block -> Data]
      <3>1. CASE placed.line = <<>>
          BY <3>1 DEF Dropped, Inv
      <3>2. ASSUME NEW x \in Line, placed.line = <<x>>
            PROVE  Dropped(placed.line) \in [Block -> Data]
        <4>1. placed.line[1] = x /\ x.block \in Block /\ x.data \in Data
            BY <3>2 DEF Line
        <4> QED
            BY <4>1 DEF Dropped, Inv
      <3> QED
          BY <2>5, <3>1, <3>2
    <2>7. ~writeBack => Dropped(placed.line) = memory
        BY DEF Dropped
    <2> QED
        BY <2>4, <2>6, <2>7 DEF placed
  <1> QED
      BY <1>1, <1>2, <1>3
-----------------------------------------------------------------------------
(* The two operations.                                                     *)

\* A read leaves the block in the L1 with the bytes it had wherever it was.
LEMMA Reads ==
    ASSUME Inv, NEW b \in Block, getByteEx(b)
    PROVE  /\ \E line \in Line : /\ line.block = b /\ Moves(b, line)
                                 /\ line.data = Contents(b)
           /\ memory' \in [Block -> Data] /\ (~writeBack => memory' = memory)
           /\ writeBack' = writeBack
  <1>1. CASE ReadHit(b)
    <2> DEFINE line == LineOf(L1, b)
    <2>1. InCache(L1, b) /\ Hit(b, line) /\ memory' = memory /\ writeBack' = writeBack
        BY <1>1 DEF ReadHit, Hit
    <2>2. line \in Line /\ line.block = b /\ Moves(b, line) /\ line.data = Contents(b)
        BY <2>1, HitMoves
    <2> QED
        BY <2>1, <2>2 DEF Inv
  <1>2. CASE ReadMiss(b)
    <2> DEFINE line == Loaded(b, BelowL1(b))
               placed == Placed(b, line, BelowL1(b))
    <2>1. /\ ~InCache(L1, b) /\ blocks' = placed.blocks
          /\ memory' = Dropped(placed.line) /\ writeBack' = writeBack
        BY <1>2 DEF ReadMiss
    <2>2. /\ line \in Line /\ line.block = b /\ line.data = Contents(b)
          /\ Moves(b, line) /\ Dropped(placed.line) \in [Block -> Data]
          /\ ~writeBack => Dropped(placed.line) = memory
        BY <2>1, MissMoves
    <2> QED
        BY <2>1, <2>2
  <1> QED
      BY <1>1, <1>2 DEF getByteEx

\* A line of which byte o is written.
Written(x, o, val) == [x EXCEPT !.modified = TRUE, !.data[o] = val]

LEMMA ByteWritten ==
    ASSUME NEW x \in Line, NEW o \in Offset, NEW val \in Value
    PROVE  /\ Written(x, o, val) \in Line /\ Written(x, o, val).block = x.block
           /\ Written(x, o, val).modified
           /\ Written(x, o, val).data = [x.data EXCEPT ![o] = val]
  <1>1. Written(x, o, val) =
            [block |-> x.block, modified |-> TRUE, data |-> [x.data EXCEPT ![o] = val]]
    <2>1. ASSUME NEW line, line = [x EXCEPT !.modified = TRUE, !.data[o] = val]
          PROVE  line = [block |-> x.block, modified |-> TRUE,
                         data |-> [x.data EXCEPT ![o] = val]]
        BY <2>1 DEF Line
    <2>2. PICK line : line = Written(x, o, val)
        OBVIOUS
    <2> QED
        BY <2>1, <2>2 DEF Written
  <1>2. x.block \in Block /\ [x.data EXCEPT ![o] = val] \in Data
      BY DEF Line, Data
  <1> QED
      BY <1>1, <1>2 DEF Line

\* A write leaves it there with one byte changed, and written through the
\* memory then has what the line has.
LEMMA Writes ==
    ASSUME Inv, NEW b \in Block, NEW o \in Offset, NEW val \in Value,
           setByteEx(b, o, val)
    PROVE  /\ \E line \in Line : /\ line.block = b /\ Moves(b, line)
                                 /\ line.data = [Contents(b) EXCEPT ![o] = val]
           /\ memory' \in [Block -> Data]
           /\ ~writeBack =>
                memory' = [memory EXCEPT ![b] = [Contents(b) EXCEPT ![o] = val]]
           /\ writeBack' = writeBack
  <1>1. CASE WriteHit(b, o, val)
    <2> DEFINE line == [LineOf(L1, b) EXCEPT !.modified = TRUE, !.data[o] = val]
    <2>1. /\ Hit(b, line) /\ memory' = WrittenThrough(memory, line)
          /\ writeBack' = writeBack /\ InCache(L1, b)
        BY <1>1 DEF WriteHit, Hit
    <2>2. /\ LineOf(L1, b) \in Line /\ LineOf(L1, b).block = b
          /\ LineOf(L1, b).data = Contents(b)
        BY <2>1, HitMoves
    <2>0. line = Written(LineOf(L1, b), o, val)
        BY DEF Written
    <2> HIDE DEF line
    <2>3. /\ line \in Line /\ line.block = b
          /\ line.data = [Contents(b) EXCEPT ![o] = val]
        BY <2>0, <2>2, ByteWritten
    <2>4. Moves(b, line)
        BY <2>1, <2>3, HitMoves
    <2>5. /\ memory' \in [Block -> Data]
          /\ ~writeBack => memory' = [memory EXCEPT ![b] = line.data]
      <3>1. line.data \in Data
          BY <2>3 DEF Line
      <3> QED
          BY <2>1, <2>3, <3>1 DEF WrittenThrough, Inv
    <2> QED
        BY <2>1, <2>3, <2>4, <2>5
  <1>2. CASE WriteMiss(b, o, val)
    <2> DEFINE x == Loaded(b, BelowL1(b))
               line == [x EXCEPT !.modified = TRUE, !.data[o] = val]
               placed == Placed(b, line, BelowL1(b))
    <2>1. /\ ~InCache(L1, b) /\ blocks' = placed.blocks
          /\ memory' = WrittenThrough(Dropped(placed.line), line)
          /\ writeBack' = writeBack
        BY <1>2 DEF WriteMiss
    <2>2. x \in Line /\ x.block = b /\ x.data = Contents(b)
        BY <2>1, MissMoves
    <2>0. line = Written(x, o, val)
        BY DEF Written
    <2> HIDE DEF line
    <2>3. /\ line \in Line /\ line.block = b
          /\ line.data = [Contents(b) EXCEPT ![o] = val]
        BY <2>0, <2>2, ByteWritten
    <2>4. /\ Moves(b, line) /\ Dropped(placed.line) \in [Block -> Data]
          /\ ~writeBack => Dropped(placed.line) = memory
        BY <2>1, <2>3, MissMoves
    <2> HIDE DEF placed
    <2>5. /\ memory' \in [Block -> Data]
          /\ ~writeBack => memory' = [memory EXCEPT ![b] = line.data]
      <3>1. line.data \in Data
          BY <2>3 DEF Line
      <3> QED
          BY <2>1, <2>3, <2>4, <3>1 DEF WrittenThrough
    <2> QED
        BY <2>1, <2>3, <2>4, <2>5
  <1> QED
      BY <1>1, <1>2 DEF setByteEx

LEMMA InitInv == Init => Inv
  <1> SUFFICES ASSUME Init PROVE Inv
      OBVIOUS
  <1>1. \A l \in Level : \A s \in Sets(l) : blocks[l][s] = <<>>
      BY DEF Init
  <1>2. \A l \in Level : \A s : SetOK(<<>>, l, s)
      BY WayAssumption DEF SetOK, Unique
  <1>3. BlocksOK(blocks)
      BY <1>1, <1>2 DEF Init, BlocksOK
  <1>4. \A l \in Level : \A b \in Block : ~In(blocks, l, b)
      BY <1>1 DEF In, Holds, Sets
  <1>5. \A x \in Line : ~Anywhere(blocks, x)
    <2>1. \A l \in Level : \A x \in Line :
            HasLine(blocks, l, x) => In(blocks, l, x.block)
        BY DEF HasLine, Has, In, Holds
    <2> QED
        BY <1>4, <2>1 DEF Anywhere, Line
  <1> QED
      BY <1>3, <1>4, <1>5 DEF Inv, Init, Alone, Through

LEMMA NextInv == Inv /\ [Next]_vars => Inv'
  <1> SUFFICES ASSUME Inv, [Next]_vars PROVE Inv'
      OBVIOUS
  <1>1. ASSUME NEW b \in Block, getByteEx(b)
        PROVE  Inv'
    <2>1. PICK line \in Line : /\ line.block = b /\ Moves(b, line)
                              /\ line.data = Contents(b)
        BY <1>1, Reads
    <2>2. /\ memory' \in [Block -> Data] /\ (~writeBack => memory' = memory)
          /\ writeBack' = writeBack
        BY <1>1, Reads
    <2>3. Through'
        BY <2>1, <2>2, ContentsAreMemory DEF Moves, Through, Inv
    <2> QED
        BY <2>1, <2>2, <2>3 DEF Moves, Inv
  <1>2. ASSUME NEW b \in Block, NEW o \in Offset, NEW val \in Value,
               setByteEx(b, o, val)
        PROVE  Inv'
    <2>1. PICK line \in Line : /\ line.block = b /\ Moves(b, line)
                              /\ line.data = [Contents(b) EXCEPT ![o] = val]
        BY <1>2, Writes
    <2>2. /\ memory' \in [Block -> Data]
          /\ ~writeBack => memory' = [memory EXCEPT ![b] = line.data]
          /\ writeBack' = writeBack
        BY <1>2, <2>1, Writes
    <2>3. ASSUME ~writeBack, NEW x \in Line, Anywhere(blocks', x)
          PROVE  x.data = memory'[x.block]
      <3>1. CASE x = line
          BY <2>1, <2>2, <2>3, <3>1 DEF Inv
      <3>2. CASE Anywhere(blocks, x) /\ x.block # b
        <4>1. x.block \in Block /\ x.data = memory[x.block]
            BY <2>3, <3>2 DEF Inv, Through, Line
        <4> QED
            BY <2>2, <2>3, <3>2, <4>1 DEF Inv
      <3> QED
          BY <2>1, <2>3, <3>1, <3>2 DEF Moves
    <2>4. Through'
        BY <2>2, <2>3 DEF Through
    <2> QED
        BY <2>1, <2>2, <2>4 DEF Moves, Inv
  <1>3. CASE UNCHANGED vars
      BY <1>3 DEF vars, Inv, Through
  <1> QED
      BY <1>1, <1>2, <1>3 DEF Next

LEMMA Invariance == Spec => []Inv
  BY InitInv, NextInv, PTL DEF Spec

\* Every reachable state is well-typed, no set holding more than its ways.
THEOREM TypeCorrect == Spec => []TypeOK
  <1>1. Inv => TypeOK
    <2> SUFFICES ASSUME Inv PROVE TypeOK
        OBVIOUS
    <2>1. DOMAIN blocks = Level /\ \A l \in Level : DOMAIN blocks[l] = Sets(l)
        BY DEF Inv, BlocksOK
    <2>2. ASSUME NEW l \in Level, NEW s \in Sets(l)
          PROVE  /\ Len(blocks[l][s]) <= Associativity[l]
                 /\ \A w \in DOMAIN blocks[l][s] :
                     /\ blocks[l][s][w] \in Line
                     /\ getId[l][blocks[l][s][w].block] = s
        BY DEF Inv, BlocksOK, SetOK
    <2> QED
        BY <2>1, <2>2 DEF TypeOK, Inv
  <1> QED
      BY <1>1, Invariance, PTL

\* A block is in one way of one level at most, whatever the moves so far.
THEOREM BlocksAreExclusive == Spec => []Exclusive
  <1>1. Inv => Exclusive
    <2> SUFFICES ASSUME Inv, NEW b \in Block, NEW k \in Level, NEW l \in Level,
                        NEW v \in Ways(k, b), NEW w \in Ways(l, b)
                 PROVE  k = l /\ v = w
        BY DEF Exclusive
    <2>1. InCache(k, b) /\ InCache(l, b)
        BY DEF InCache
    <2>2. k = l
        BY <2>1, LineThere DEF Inv, Alone
    <2>3. SetOK(blocks[l][getId[l][b]], l, getId[l][b])
        BY DEF Inv, BlocksOK, Sets
    <2> QED
        BY <2>2, <2>3 DEF Ways, Find, SetOK, Unique
  <1> QED
      BY <1>1, Invariance, PTL

\* The moves between the levels change no byte of a block that is in one of
\* them before and after; only its own write does, and only the byte written.
THEOREM BytesMoveUnchanged == Spec => MovesKeepBytes
  <1> DEFINE Kept(b) == Present(b) /\ Present(b)' =>
        \/ Copy(b)' = Copy(b)
        \/ \E o \in Offset, val \in Value :
            Copy(b)' = [Copy(b) EXCEPT ![o] = val] /\ setByteEx(b, o, val)
  <1>1. Inv /\ Inv' /\ Next => \A b \in Block : Kept(b)
    <2> SUFFICES ASSUME Inv, Inv', Next, NEW b \in Block, Present(b), Present(b)'
                 PROVE  \/ Copy(b)' = Copy(b)
                        \/ \E o \in Offset, val \in Value :
                            /\ Copy(b)' = [Copy(b) EXCEPT ![o] = val]
                            /\ setByteEx(b, o, val)
        OBVIOUS
    <2>1. Contents(b) = Copy(b)
        BY DEF Contents
    <2>2. PICK y \in Line : Anywhere(blocks', y) /\ y.block = b
        BY CopyIsNext
    <2>3. Copy(b)' = y.data
        BY <2>2, CopyIsNext
    <2>4. ASSUME NEW a \in Block, NEW line \in Line, line.block = a, Moves(a, line)
          PROVE  IF a = b THEN Copy(b)' = line.data ELSE Copy(b)' = Copy(b)
      <3>1. y = line \/ (Anywhere(blocks, y) /\ y.block # a)
          BY <2>2, <2>4 DEF Moves
      <3>2. CASE a = b
          BY <2>2, <2>3, <3>1, <3>2
      <3>3. CASE a # b
        <4>1. Anywhere(blocks, y) /\ y.block = b
            BY <2>2, <2>4, <3>1, <3>3
        <4>2. Copy(b) = y.data
            BY <4>1, CopyIs
        <4> QED
            BY <2>3, <3>3, <4>2
      <3> QED
          BY <3>2, <3>3
    <2>5. ASSUME NEW a \in Block, getByteEx(a)
          PROVE  Copy(b)' = Copy(b)
      <3>1. PICK line \in Line : /\ line.block = a /\ Moves(a, line)
                                /\ line.data = Contents(a)
          BY <2>5, Reads
      <3> QED
          BY <2>1, <2>4, <3>1
    <2>6. ASSUME NEW a \in Block, NEW o \in Offset, NEW val \in Value,
                 setByteEx(a, o, val)
          PROVE  \/ Copy(b)' = Copy(b)
                 \/ Copy(b)' = [Copy(b) EXCEPT ![o] = val] /\ setByteEx(b, o, val)
      <3>1. PICK line \in Line : /\ line.block = a /\ Moves(a, line)
                                /\ line.data = [Contents(a) EXCEPT ![o] = val]
          BY <2>6, Writes
      <3> QED
          BY <2>1, <2>4, <2>6, <3>1
    <2> QED
        BY <2>5, <2>6 DEF Next
  <1>2. Inv /\ Inv' /\ [Next]_vars => [\A b \in Block : Kept(b)]_vars
      BY <1>1
  <1> QED
      BY <1>2, Invariance, PTL DEF Spec, MovesKeepBytes

-----------------------------------------------------------------------------
(* The lines that leave.                                                   *)

LEMMA SinkChangesOne ==
    ASSUME NEW st, StateOK(st), NEW l \in Level, NEW k \in Level, k # l
    PROVE  Sink(st, l).blocks[k] = st.blocks[k]
  <1>1. CASE st.line = <<>>
      BY <1>1 DEF Sink
  <1>2. CASE st.line # <<>>
    <2>1. Sink(st, l).blocks = [st.blocks EXCEPT ![l][getId[l][st.line[1].block]] =
            Append(IF Len(@) >= Associativity[l] THEN Tail(@) ELSE @, st.line[1])]
        BY <1>2 DEF Sink
    <2>2. DOMAIN st.blocks = Level
        BY DEF StateOK, BlocksOK
    <2> QED
        BY <2>1, <2>2
  <1> QED
      BY <1>1, <1>2

\* A line leaves a level as the oldest of a set that is full before and after.
LEMMA SinkSends ==
    ASSUME NEW st, StateOK(st), NEW l \in Level, NEW y, Sink(st, l).line = <<y>>
    PROVE  LET s == getId[l][y.block]
               q == st.blocks[l][s]
           IN  /\ s \in Sets(l) /\ SetOK(q, l, s)
               /\ Len(q) = Associativity[l] /\ y = q[1] /\ 1 \in DOMAIN q
               /\ Len(Sink(st, l).blocks[l][s]) = Associativity[l]
  <1> DEFINE x == st.line[1]
             t == getId[l][x.block]
             p == st.blocks[l][t]
             r == Entered(p, x, l)
  <1>1. st.line # <<>>
    <2> SUFFICES ASSUME st.line = <<>> PROVE FALSE
        OBVIOUS
    <2>1. Sink(st, l).line = <<>>
        BY DEF Sink
    <2> QED
        BY <2>1
  <1>2. x \in Line
    <2>1. PICK z \in Line : st.line = <<z>>
        BY <1>1 DEF StateOK
    <2> QED
        BY <2>1
  <1>3. /\ Sink(st, l).blocks = [st.blocks EXCEPT ![l][t] = r]
        /\ Sink(st, l).line = IF Full(p, l) THEN <<Head(p)>> ELSE <<>>
      BY <1>1 DEF Sink, Entered, Full
  <1>4. t \in Sets(l) /\ SetOK(p, l, t)
      BY <1>2 DEF StateOK, BlocksOK, Sets, Line
  <1>5. Full(p, l) /\ y = Head(p)
      BY <1>3
  <1> HIDE DEF p, x, t
  <1>6. /\ p \in Seq(Line) /\ Len(p) \in Nat /\ Associativity[l] \in Nat \ {0}
        /\ Len(p) = Associativity[l] /\ p # <<>>
    <2>1. p \in Seq(Line) /\ Len(p) <= Associativity[l]
        BY <1>4 DEF SetOK
    <2>2. Associativity[l] \in Nat \ {0} /\ Len(p) \in Nat
        BY <2>1, WayAssumption
    <2>3. Len(p) >= Associativity[l]
        BY <1>5 DEF Full
    <2>4. Len(p) = Associativity[l]
        BY <2>1, <2>2, <2>3
    <2> QED
        BY <2>1, <2>2, <2>4
  <1>7. y = p[1] /\ 1 \in DOMAIN p
      BY <1>5, <1>6, TailIsWithout
  <1>8. getId[l][y.block] = t
      BY <1>4, <1>7 DEF SetOK
  <1>9. Sink(st, l).blocks[l][t] = r
      BY <1>3, <1>4 DEF StateOK, BlocksOK
  <1>10. Len(r) = Associativity[l]
    <2>1. r = Append(Tail(p), x)
        BY <1>5 DEF Entered
    <2>2. Len(Append(Tail(p), x)) = Len(p)
        BY <1>2, <1>6
    <2> QED
        BY <1>6, <2>1, <2>2
  <1> QED
      BY <1>4, <1>6, <1>7, <1>8, <1>9, <1>10 DEF p

\* What a miss lets go was the oldest of a full set of the L3.
LEMMA MissSends ==
    ASSUME BlocksOK(blocks), Alone(blocks), NEW b \in Block, ~InCache(L1, b),
           NEW line \in Line, line.block = b,
           NEW y, Placed(b, line, BelowL1(b)).line = <<y>>
    PROVE  LET s == getId[L3][y.block]
               q == blocks[L3][s]
           IN  /\ y.block # b /\ SetOK(q, L3, s)
               /\ Len(q) = Associativity[L3] /\ y = q[1] /\ 1 \in DOMAIN q
               /\ Len(Placed(b, line, BelowL1(b)).blocks[L3][s]) = Associativity[L3]
  <1> DEFINE st0 == [blocks |-> Taken(b, BelowL1(b)), line |-> <<line>>]
             st1 == Sink(st0, 1)
             st2 == Sink(st1, 2)
             s == getId[L3][y.block]
             q == Taken(b, BelowL1(b))[L3][s]
  <1>0. 1 \in Level /\ 2 \in Level /\ 3 \in Level /\ L3 = 3
      BY DEF Level, L3
  <1>1. st0.blocks = Taken(b, BelowL1(b)) /\ st0.line = <<line>>
      OBVIOUS
  <1>2. Placed(b, line, BelowL1(b)) = Sink(st2, 3)
      BY DEF Placed
  <1> HIDE DEF st0
  <1>3. StateOK(st0)
      BY <1>1, TakenKeeps DEF StateOK
  <1>4. StateOK(st1) /\ st1.blocks[3] = st0.blocks[3]
      BY <1>0, <1>3, SinkKeeps, SinkChangesOne
  <1> HIDE DEF st1
  <1>5. StateOK(st2) /\ st2.blocks[3] = st1.blocks[3]
      BY <1>0, <1>4, SinkKeeps, SinkChangesOne
  <1> HIDE DEF st2
  <1>6. /\ s \in Sets(L3) /\ SetOK(q, L3, s)
        /\ Len(q) = Associativity[L3] /\ y = q[1] /\ 1 \in DOMAIN q
        /\ Len(Sink(st2, 3).blocks[L3][s]) = Associativity[L3]
    <2>1. q = st2.blocks[3][s]
        BY <1>0, <1>1, <1>4, <1>5
    <2>2. Sink(st2, 3).line = <<y>>
        BY <1>2
    <2> DEFINE u == getId[3][y.block]
               p == st2.blocks[3][u]
    <2>3. /\ u \in Sets(3) /\ SetOK(p, 3, u)
          /\ Len(p) = Associativity[3] /\ y = p[1] /\ 1 \in DOMAIN p
          /\ Len(Sink(st2, 3).blocks[3][u]) = Associativity[3]
        BY <1>0, <1>5, <2>2, SinkSends
    <2>4. u = s /\ p = q
        BY <1>0, <2>1
    <2> HIDE DEF p, q, u, s
    <2> QED
        BY <1>0, <2>3, <2>4
  <1>7. y.block # b
    <2>1. y \in Line
        BY <1>6 DEF SetOK
    <2>2. y.block \in Block
        BY <2>1 DEF Line
    <2>3. In(Taken(b, BelowL1(b)), L3, y.block)
        BY <1>6 DEF In, Holds
    <2> QED
        BY <1>0, <2>2, <2>3, TakenKeeps
  <1>8. q = blocks[L3][s]
    <2>1. CASE BelowL1(b) = {}
        BY <2>1 DEF Taken
    <2>2. CASE BelowL1(b) # {}
      <3> DEFINE l == FoundIn(b)
                 t == getId[l][b]
                 p == blocks[l][t]
                 w == WayOf(l, b)
      <3>1. l \in Level /\ InCache(l, b)
          BY <2>2, FoundThere
      <3>2. Taken(b, BelowL1(b)) = Replaced(blocks, l, t, Without(p, w))
          BY <2>2 DEF Taken, Replaced
      <3>3. t \in Sets(l) /\ SetOK(p, l, t) /\ w \in DOMAIN p
          BY <3>1, LineThere DEF BlocksOK, Sets
      <3> HIDE DEF p, w, t, l
      <3>4. Len(Without(p, w)) < Associativity[l]
          BY <3>1, <3>3, WithoutFits
      <3>5. q = IF L3 = l /\ s = t THEN Without(p, w) ELSE blocks[L3][s]
          BY <1>0, <1>6, <3>2, <3>3 DEF Replaced, BlocksOK
      <3>6. Associativity[L3] \in Nat
          BY <1>0, WayAssumption
      <3>7. ~(L3 = l /\ s = t)
        <4> SUFFICES ASSUME L3 = l, s = t PROVE FALSE
            OBVIOUS
        <4>1. q = Without(p, w)
            BY <3>5
        <4>2. Len(q) < Associativity[L3]
            BY <3>4, <4>1
        <4> HIDE DEF q
        <4> QED
            BY <1>6, <3>6, <4>2
      <3> QED
          BY <3>5, <3>7
    <2> QED
        BY <2>1, <2>2
  <1> HIDE DEF q
  <1> QED
      BY <1>2, <1>6, <1>7, <1>8

\* After a hit every block that was cached still is.
LEMMA HitLosesNone ==
    ASSUME Inv, Inv', NEW a \in Block, NEW line \in Line, line.block = a,
           Hit(a, line), NEW b \in Block, Present(b)
    PROVE  Present(b)'
  <1>1. PICK x \in Line : Anywhere(blocks, x) /\ x.block = b
      BY CopyIs
  <1>2. \A z \in Line : Anywhere(blocks', z) <=>
            \/ z = line
            \/ Anywhere(blocks, z) /\ z.block # a
      BY HitKeeps DEF Inv
  <1>3. \E z \in Line : Anywhere(blocks', z) /\ z.block = b
      BY <1>1, <1>2
  <1> QED
      BY <1>3, CopyIsNext

\* After a miss all are but the one whose line left the L3.
LEMMA MissLosesOne ==
    ASSUME Inv, Inv', NEW a \in Block, ~InCache(L1, a),
           NEW line \in Line, line.block = a,
           blocks' = Placed(a, line, BelowL1(a)).blocks,
           NEW b \in Block, Present(b), ~Present(b)'
    PROVE  /\ \E x \in Line : /\ x.block = b /\ Anywhere(blocks, x)
                             /\ Placed(a, line, BelowL1(a)).line = <<x>>
           /\ \A c \in Block \ {b} : Present(c) => Present(c)'
  <1> DEFINE placed == Placed(a, line, BelowL1(a))
  <1>1. \A z \in Line : Somewhere(placed, z) <=>
            \/ z = line
            \/ Anywhere(blocks, z) /\ z.block # a
      BY PlacedKeeps DEF Inv
  <1>2. \A z \in Line : Somewhere(placed, z) <=>
            \/ Anywhere(blocks', z)
            \/ placed.line = <<z>>
      BY DEF Somewhere, Anywhere
  <1> HIDE DEF placed
  <1>3. \A z \in Line : Anywhere(blocks', z) => z.block # b
      BY CopyIsNext
  <1>4. ASSUME NEW c \in Block, Present(c)
        PROVE  \E z \in Line : z.block = c /\ Somewhere(placed, z)
    <2>1. PICK z \in Line : Anywhere(blocks, z) /\ z.block = c
        BY <1>4, CopyIs
    <2>2. CASE c = a
        BY <1>1, <2>2
    <2>3. CASE c # a
        BY <1>1, <2>1, <2>3
    <2> QED
        BY <2>2, <2>3
  <1>5. PICK x \in Line : x.block = b /\ placed.line = <<x>>
      BY <1>2, <1>3, <1>4
  <1>6. Anywhere(blocks, x)
    <2>1. x.block # a
        BY <1>5, MissSends DEF Inv, placed
    <2> QED
        BY <1>1, <1>2, <1>5, <2>1
  <1>7. ASSUME NEW c \in Block, c # b, Present(c)
        PROVE  Present(c)'
    <2>1. PICK z \in Line : z.block = c /\ Somewhere(placed, z)
        BY <1>4, <1>7
    <2>2. Anywhere(blocks', z)
      <3>1. placed.line # <<z>>
          BY <1>5, <1>7, <2>1
      <3> QED
          BY <1>2, <2>1, <3>1
    <2> QED
        BY <2>1, <2>2, CopyIsNext
  <1> QED
      BY <1>5, <1>6, <1>7 DEF placed

\* What an access of b does with a line for it: a hit, or a miss.
HitWith(b, line) ==
    /\ InCache(L1, b) /\ Hit(b, line)
    /\ writeBack => memory' = memory
MissWith(b, line) ==
    /\ ~InCache(L1, b) /\ blocks' = Placed(b, line, BelowL1(b)).blocks
    /\ writeBack => memory' = Dropped(Placed(b, line, BelowL1(b)).line)

LEMMA ReadWith ==
    ASSUME Inv, NEW b \in Block, getByteEx(b)
    PROVE  \E line \in Line :
            /\ line.block = b /\ line.data = Contents(b)
            /\ \/ HitWith(b, line) /\ line = LineOf(L1, b)
               \/ MissWith(b, line)
  <1>1. CASE ReadHit(b)
    <2> DEFINE line == LineOf(L1, b)
    <2>1. Hit(b, line) /\ InCache(L1, b) /\ memory' = memory
        BY <1>1 DEF ReadHit, Hit
    <2>2. line \in Line /\ line.block = b /\ line.data = Contents(b)
        BY <2>1, HitMoves
    <2> QED
        BY <2>1, <2>2 DEF HitWith
  <1>2. CASE ReadMiss(b)
    <2> DEFINE line == Loaded(b, BelowL1(b))
    <2>1. /\ ~InCache(L1, b) /\ blocks' = Placed(b, line, BelowL1(b)).blocks
          /\ memory' = Dropped(Placed(b, line, BelowL1(b)).line)
        BY <1>2 DEF ReadMiss
    <2>2. line \in Line /\ line.block = b /\ line.data = Contents(b)
        BY <2>1, MissMoves
    <2> HIDE DEF line
    <2>3. MissWith(b, line)
        BY <2>1 DEF MissWith
    <2> QED
        BY <2>2, <2>3
  <1> QED
      BY <1>1, <1>2 DEF getByteEx

LEMMA WriteWith ==
    ASSUME Inv, NEW b \in Block, NEW o \in Offset, NEW val \in Value,
           setByteEx(b, o, val)
    PROVE  \E line \in Line :
            /\ line.block = b /\ line.modified
            /\ line.data = [Contents(b) EXCEPT ![o] = val]
            /\ HitWith(b, line) \/ MissWith(b, line)
  <1>1. CASE WriteHit(b, o, val)
    <2> DEFINE x == LineOf(L1, b)
               line == [x EXCEPT !.modified = TRUE, !.data[o] = val]
    <2>1. /\ Hit(b, line) /\ InCache(L1, b)
          /\ memory' = WrittenThrough(memory, line)
        BY <1>1 DEF WriteHit, Hit
    <2>2. x \in Line /\ x.block = b /\ x.data = Contents(b)
        BY <2>1, HitMoves
    <2>0. line = Written(x, o, val)
        BY DEF Written
    <2> HIDE DEF line
    <2>3. /\ line \in Line /\ line.block = b /\ line.modified
          /\ line.data = [Contents(b) EXCEPT ![o] = val]
        BY <2>0, <2>2, ByteWritten
    <2>4. HitWith(b, line)
        BY <2>1 DEF HitWith, WrittenThrough
    <2> QED
        BY <2>3, <2>4
  <1>2. CASE WriteMiss(b, o, val)
    <2> DEFINE x == Loaded(b, BelowL1(b))
               line == [x EXCEPT !.modified = TRUE, !.data[o] = val]
    <2>1. /\ ~InCache(L1, b) /\ blocks' = Placed(b, line, BelowL1(b)).blocks
          /\ memory' = WrittenThrough(Dropped(Placed(b, line, BelowL1(b)).line),
                                      line)
        BY <1>2 DEF WriteMiss
    <2>2. x \in Line /\ x.block = b /\ x.data = Contents(b)
        BY <2>1, MissMoves
    <2>0. line = Written(x, o, val)
        BY DEF Written
    <2> HIDE DEF line
    <2>3. /\ line \in Line /\ line.block = b /\ line.modified
          /\ line.data = [Contents(b) EXCEPT ![o] = val]
        BY <2>0, <2>2, ByteWritten
    <2>4. MissWith(b, line)
        BY <2>1 DEF MissWith, WrittenThrough
    <2> QED
        BY <2>3, <2>4
  <1> QED
      BY <1>1, <1>2 DEF setByteEx

LEMMA NextWith ==
    ASSUME Inv, Next
    PROVE  \E a \in Block, line \in Line :
            line.block = a /\ (HitWith(a, line) \/ MissWith(a, line))
  BY ReadWith, WriteWith DEF Next

\* A block leaves the hierarchy from the L3 only, as the oldest of a full set,
\* alone, and written back if its line there says so.
THEOREM LeaversAreOld == Spec => LeavesFromFullL3
  <1> DEFINE Leaves(b) == Present(b) /\ ~Present(b)' =>
        LET s == getId[L3][b]
        IN  /\ InCache(L3, b) /\ WayOf(L3, b) = 1
            /\ Len(blocks[L3][s]) = Associativity[L3]
            /\ Len(blocks'[L3][s]) = Associativity[L3]
            /\ \A a \in Block \ {b} : Present(a) => Present(a)'
            /\ LineOf(L3, b).modified /\ writeBack => memory'[b] = Copy(b)
  <1>1. Inv /\ Inv' /\ Next => \A b \in Block : Leaves(b)
    <2> SUFFICES ASSUME Inv, Inv', Next, NEW b \in Block, Present(b), ~Present(b)'
                 PROVE  LET s == getId[L3][b]
                        IN  /\ InCache(L3, b) /\ WayOf(L3, b) = 1
                            /\ Len(blocks[L3][s]) = Associativity[L3]
                            /\ Len(blocks'[L3][s]) = Associativity[L3]
                            /\ \A a \in Block \ {b} : Present(a) => Present(a)'
                            /\ LineOf(L3, b).modified /\ writeBack =>
                                    memory'[b] = Copy(b)
        OBVIOUS
    <2>1. PICK a \in Block, line \in Line : line.block = a /\ MissWith(a, line)
      <3>1. PICK a \in Block, line \in Line :
                line.block = a /\ (HitWith(a, line) \/ MissWith(a, line))
          BY NextWith
      <3>2. ~HitWith(a, line)
          BY <3>1, HitLosesNone DEF HitWith
      <3> QED
          BY <3>1, <3>2
    <2> DEFINE placed == Placed(a, line, BelowL1(a))
               s == getId[L3][b]
               q == blocks[L3][s]
    <2>2. PICK x \in Line : /\ x.block = b /\ Anywhere(blocks, x)
                           /\ placed.line = <<x>>
        BY <2>1, MissLosesOne DEF MissWith
    <2>3. \A c \in Block \ {b} : Present(c) => Present(c)'
        BY <2>1, MissLosesOne DEF MissWith
    <2>4. /\ SetOK(q, L3, s) /\ Len(q) = Associativity[L3]
          /\ x = q[1] /\ 1 \in DOMAIN q
          /\ Len(placed.blocks[L3][s]) = Associativity[L3]
        BY <2>1, <2>2, MissSends DEF Inv, MissWith
    <2>5. L3 \in Level
        BY DEF L3, Level
    <2>6. HasLine(blocks, L3, x)
        BY <2>2, <2>4 DEF HasLine, Has
    <2>7. /\ InCache(L3, b) /\ LineOf(L3, b) = x
          /\ WayOf(L3, b) \in DOMAIN q /\ q[WayOf(L3, b)] = x
        BY <2>2, <2>5, <2>6, LineThere DEF Inv
    <2>8. WayOf(L3, b) = 1
        BY <2>4, <2>7 DEF SetOK, Unique
    <2>9. Copy(b) = x.data
        BY <2>2, CopyIs
    <2>10. x.modified /\ writeBack => memory'[b] = x.data
      <3> SUFFICES ASSUME x.modified, writeBack PROVE memory'[b] = x.data
          OBVIOUS
      <3>1. memory' = Dropped(<<x>>)
          BY <2>1, <2>2 DEF MissWith
      <3>2. <<x>>[1] = x /\ <<x>> # <<>>
          OBVIOUS
      <3>3. memory' = [memory EXCEPT ![b] = x.data]
          BY <2>2, <3>1, <3>2 DEF Dropped
      <3> QED
          BY <3>3 DEF Inv
    <2> QED
        BY <2>1, <2>3, <2>4, <2>7, <2>8, <2>9, <2>10 DEF MissWith
  <1>2. Inv /\ Inv' /\ [Next]_vars => [\A b \in Block : Leaves(b)]_vars
      BY <1>1
  <1> QED
      BY <1>2, Invariance, PTL DEF Spec, LeavesFromFullL3
-----------------------------------------------------------------------------
(* What the memory knows of the blocks.                                    *)

\* Written back, the memory changes for one block at most: a marked one that
\* leaves, which it then has the bytes of.  Who leaves without a mark leaves
\* nothing behind.
LEMMA Settles ==
    ASSUME Inv, Inv', writeBack, NEW a \in Block, NEW line \in Line,
           line.block = a, HitWith(a, line) \/ MissWith(a, line)
    PROVE  /\ Present(a)'
           /\ \A x \in Line : Anywhere(blocks', x) =>
                x = line \/ (Anywhere(blocks, x) /\ x.block # a)
           /\ \A c \in Block :
                \/ memory'[c] = memory[c] /\ (Present(c) => Present(c)' \/ ~Marked(c))
                \/ /\ Present(c) /\ ~Present(c)' /\ Marked(c)
                   /\ memory'[c] = Copy(c)
  <1>1. CASE HitWith(a, line)
    <2>1. Hit(a, line) /\ memory' = memory
        BY <1>1 DEF HitWith
    <2>2. \A x \in Line : Anywhere(blocks', x) <=>
            x = line \/ (Anywhere(blocks, x) /\ x.block # a)
        BY <2>1, HitKeeps DEF Inv
    <2>3. Present(a)'
        BY <2>2, CopyIsNext
    <2>4. \A c \in Block : Present(c) => Present(c)'
        BY <2>1, HitLosesNone
    <2> QED
        BY <2>1, <2>2, <2>3, <2>4
  <1>2. CASE MissWith(a, line)
    <2> DEFINE placed == Placed(a, line, BelowL1(a))
    <2>1. ~InCache(L1, a) /\ blocks' = placed.blocks /\ memory' = Dropped(placed.line)
        BY <1>2 DEF MissWith
    <2>2. /\ StateOK(placed)
          /\ \A x \in Line : Somewhere(placed, x) <=>
                x = line \/ (Anywhere(blocks, x) /\ x.block # a)
        BY <2>1, PlacedKeeps DEF Inv
    <2>3. \A y : placed.line = <<y>> => y.block # a
        BY <2>1, MissSends DEF Inv
    <2>4. \A c \in Block : Present(c) /\ ~Present(c)' =>
            \E x \in Line : x.block = c /\ placed.line = <<x>>
        BY <2>1, MissLosesOne
    <2> HIDE DEF placed
    <2>5. \A x \in Line : Somewhere(placed, x) <=>
            Anywhere(blocks', x) \/ placed.line = <<x>>
        BY <2>1 DEF Somewhere, Anywhere
    <2>6. Present(a)'
        BY <2>2, <2>3, <2>5, CopyIsNext
    <2>7. CASE placed.line = <<>>
      <3>1. memory' = memory
          BY <2>1, <2>7 DEF Dropped
      <3>2. \A c \in Block : Present(c) => Present(c)'
          BY <2>4, <2>7
      <3> QED
          BY <2>2, <2>5, <2>6, <3>1, <3>2
    <2>8. ASSUME NEW y \in Line, placed.line = <<y>>,
                 \A l \in Level : ~In(placed.blocks, l, y.block)
          PROVE  \A c \in Block :
                    \/ /\ memory'[c] = memory[c]
                       /\ Present(c) => Present(c)' \/ ~Marked(c)
                    \/ /\ Present(c) /\ ~Present(c)' /\ Marked(c)
                       /\ memory'[c] = Copy(c)
      <3>1. Anywhere(blocks, y) /\ y.block \in Block
          BY <2>2, <2>3, <2>5, <2>8 DEF Line
      <3>2. /\ Present(y.block) /\ Copy(y.block) = y.data
            /\ Marked(y.block) <=> y.modified
          BY <3>1, CopyIs
      <3>3. ~Present(y.block)'
        <4>1. \A x \in Line : Anywhere(blocks', x) => x.block # y.block
            BY <2>1, <2>8 DEF Anywhere, HasLine, Has, In, Holds
        <4> QED
            BY <3>1, <4>1, CopyIsNext
      <3>4. memory' = IF y.modified THEN [memory EXCEPT ![y.block] = y.data]
                      ELSE memory
        <4>1. memory' = Dropped(<<y>>) /\ <<y>> # <<>> /\ <<y>>[1] = y
            BY <2>1, <2>8
        <4> QED
            BY <4>1 DEF Dropped
      <3>5. ASSUME NEW c \in Block, c # y.block
            PROVE  memory'[c] = memory[c] /\ (Present(c) => Present(c)')
        <4>1. memory'[c] = memory[c]
            BY <3>4, <3>5 DEF Inv
        <4>2. ASSUME NEW x \in Line, x.block = c
              PROVE  placed.line # <<x>>
            BY <2>8, <3>5, <4>2
        <4> QED
            BY <2>4, <4>1, <4>2
      <3>6. memory'[y.block] = IF y.modified THEN y.data ELSE memory[y.block]
          BY <3>1, <3>4 DEF Inv
      <3> QED
          BY <3>2, <3>3, <3>5, <3>6
    <2> QED
        BY <2>2, <2>5, <2>6, <2>7, <2>8 DEF StateOK
  <1> QED
      BY <1>1, <1>2

\* Who reads next finds what the access left: the new line of its block, and
\* of every other block what was there, unless a forgotten one left.
LEMMA Lands ==
    ASSUME Inv, Inv', writeBack, NEW a \in Block, NEW line \in Line,
           line.block = a, HitWith(a, line) \/ MissWith(a, line),
           \A b \in Block : Forgotten(b) => Present(b)'
    PROVE  \A c \in Block :
            Contents(c)' = IF c = a THEN line.data ELSE Contents(c)
  <1> SUFFICES ASSUME NEW c \in Block
               PROVE  Contents(c)' = IF c = a THEN line.data ELSE Contents(c)
      OBVIOUS
  <1>1. CASE Present(c)'
    <2>1. PICK y \in Line : Anywhere(blocks', y) /\ y.block = c
        BY <1>1, CopyIsNext
    <2>2. Contents(c)' = y.data
        BY <1>1, <2>1, CopyIsNext DEF Contents
    <2>3. y = line \/ (Anywhere(blocks, y) /\ y.block # a)
        BY <2>1, Settles
    <2>4. Anywhere(blocks, y) => Contents(c) = y.data
        BY <2>1, CopyIs DEF Contents
    <2> QED
        BY <2>1, <2>2, <2>3, <2>4
  <1>2. CASE ~Present(c)'
    <2>1. c # a
        BY <1>2, Settles
    <2>2. \/ memory'[c] = memory[c] /\ (Present(c) => ~Marked(c))
          \/ Present(c) /\ memory'[c] = Copy(c)
        BY <1>2, Settles
    <2>3. Contents(c)' = memory'[c]
        BY <1>2 DEF Contents
    <2>4. Present(c) /\ ~Marked(c) => Copy(c) = memory[c]
        BY <1>2 DEF Forgotten
    <2> QED
        BY <2>1, <2>2, <2>3, <2>4 DEF Contents
  <1> QED
      BY <1>1, <1>2

\* The hierarchy is the memory without caches, at every access when it writes
\* through, and at every access by which no forgotten block leaves when it
\* writes back.
THEOREM HierarchyIsMemory == Spec => MemoryUnlessForgotten
  <1> DEFINE Atomic == (writeBack => \A b \in Block : Forgotten(b) => Present(b)') =>
        \E b \in Block :
            \/ getByteEx(b) /\ Memory!GetByte
            \/ \E o \in Offset, val \in Value :
                setByteEx(b, o, val) /\ Memory!SetByte(b, o, val)
  <1>1. Init => Memory!Init
    <2> SUFFICES ASSUME Init PROVE Memory!Init
        OBVIOUS
    <2>1. ASSUME NEW l \in Level, NEW b \in Block
          PROVE  ~InCache(l, b)
      <3>1. blocks[l][getId[l][b]] = <<>>
          BY DEF Init, Sets
      <3> QED
          BY <3>1 DEF InCache, Ways, Find
    <2>2. \A b \in Block : Contents(b) = memory[b]
        BY <2>1 DEF Contents, Present
    <2> QED
        BY <2>2 DEF Init, Data, Memory!Init
  <1>2. Inv /\ Inv' /\ Next => Atomic
    <2> SUFFICES ASSUME Inv, Inv', Next,
                        writeBack => \A b \in Block : Forgotten(b) => Present(b)'
                 PROVE  \E b \in Block :
                            \/ getByteEx(b) /\ Memory!GetByte
                            \/ \E o \in Offset, val \in Value :
                                setByteEx(b, o, val) /\ Memory!SetByte(b, o, val)
        OBVIOUS
    <2>1. ~writeBack => \A b \in Block : Contents(b) = memory[b]
        BY ContentsAreMemory
    <2>2. ~writeBack /\ writeBack' = writeBack =>
            \A b \in Block : Contents(b)' = memory'[b]
        BY ContentsAreMemoryNext
    <2>3. ASSUME NEW b \in Block, getByteEx(b)
          PROVE  Memory!GetByte
      <3>1. \A a \in Block : Contents(a)' = Contents(a)
        <4>1. CASE ~writeBack
          <5>1. memory' = memory /\ writeBack' = writeBack
              BY <2>3, <4>1, Reads
          <5> QED
              BY <2>1, <2>2, <4>1, <5>1
        <4>2. CASE writeBack
          <5>1. PICK line \in Line :
                    /\ line.block = b /\ line.data = Contents(b)
                    /\ HitWith(b, line) \/ MissWith(b, line)
              BY <2>3, ReadWith
          <5> QED
              BY <4>2, <5>1, Lands
        <4> QED
            BY <4>1, <4>2
      <3> QED
          BY <3>1 DEF Memory!GetByte
    <2>4. ASSUME NEW b \in Block, NEW o \in Offset, NEW val \in Value,
                 setByteEx(b, o, val)
          PROVE  Memory!SetByte(b, o, val)
      <3>1. \A a \in Block : Contents(a)' =
                IF a = b THEN [Contents(b) EXCEPT ![o] = val] ELSE Contents(a)
        <4>1. CASE ~writeBack
          <5>0. PICK line \in Line : line.data = [Contents(b) EXCEPT ![o] = val]
              BY <2>4, Writes
          <5>1. memory' = [memory EXCEPT ![b] = line.data] /\ writeBack' = writeBack
              BY <2>4, <4>1, <5>0, Writes
          <5>2. memory \in [Block -> Data]
              BY DEF Inv
          <5> QED
              BY <2>1, <2>2, <4>1, <5>0, <5>1, <5>2
        <4>2. CASE writeBack
          <5>1. PICK line \in Line :
                    /\ line.block = b /\ line.data = [Contents(b) EXCEPT ![o] = val]
                    /\ HitWith(b, line) \/ MissWith(b, line)
              BY <2>4, WriteWith
          <5> QED
              BY <4>2, <5>1, Lands
        <4> QED
            BY <4>1, <4>2
      <3> QED
          BY <3>1 DEF Memory!SetByte
    <2> QED
        BY <2>3, <2>4 DEF Next
  <1>3. Inv /\ Inv' /\ [Next]_vars => [Atomic]_vars
      BY <1>2
  <1> QED
      BY <1>1, <1>3, Invariance, PTL DEF Spec, MemoryUnlessForgotten

\* A block is forgotten in one way: a read that misses in the L1 finds its
\* marked line in the L2 or the L3, and brings it up without the mark.
ForgetsMovingUp ==
    [][\A b \in Block : ~Forgotten(b) /\ Forgotten(b)' =>
        getByteEx(b) /\ ~InCache(L1, b) /\ Present(b) /\ Marked(b)]_vars

THEOREM MarksGoMovingUp == Spec => ForgetsMovingUp
  <1> DEFINE Goes(b) == ~Forgotten(b) /\ Forgotten(b)' =>
        getByteEx(b) /\ ~InCache(L1, b) /\ Present(b) /\ Marked(b)
  <1>1. Inv /\ Inv' /\ Next => \A b \in Block : Goes(b)
    <2> SUFFICES ASSUME Inv, Inv', Next, NEW b \in Block,
                        ~Forgotten(b), Forgotten(b)'
                 PROVE  getByteEx(b) /\ ~InCache(L1, b) /\ Present(b) /\ Marked(b)
        OBVIOUS
    <2>0. Present(b)' /\ ~Marked(b)' /\ Copy(b)' # memory'[b]
        BY DEF Forgotten
    <2>1. PICK y \in Line : Anywhere(blocks', y) /\ y.block = b
        BY <2>0, CopyIsNext
    <2>2. Copy(b)' = y.data /\ ~y.modified
        BY <2>0, <2>1, CopyIsNext
    <2>3. writeBack' = writeBack
        BY Reads, Writes DEF Next
    <2>4. writeBack
        BY <2>0, <2>1, <2>2, <2>3 DEF Inv, Through
    <2>5. ASSUME NEW a \in Block, NEW line \in Line, line.block = a,
                 HitWith(a, line) \/ MissWith(a, line)
          PROVE  /\ memory'[b] = memory[b]
                 /\ y = line \/ (Anywhere(blocks, y) /\ b # a)
        BY <2>0, <2>1, <2>4, <2>5, Settles
    <2>6. Anywhere(blocks, y) => Copy(b) = memory[b] /\ Copy(b) = y.data
      <3> SUFFICES ASSUME Anywhere(blocks, y)
                   PROVE  Copy(b) = memory[b] /\ Copy(b) = y.data
          OBVIOUS
      <3>1. Present(b) /\ Copy(b) = y.data /\ ~Marked(b)
          BY <2>1, <2>2, CopyIs
      <3> QED
          BY <3>1 DEF Forgotten
    <2>7. ASSUME NEW a \in Block, NEW o \in Offset, NEW val \in Value,
                 setByteEx(a, o, val)
          PROVE  FALSE
      <3>1. PICK line \in Line :
                /\ line.block = a /\ line.modified
                /\ HitWith(a, line) \/ MissWith(a, line)
          BY <2>7, WriteWith
      <3>2. Anywhere(blocks, y) /\ memory'[b] = memory[b]
          BY <2>2, <2>5, <3>1
      <3> QED
          BY <2>0, <2>2, <2>6, <3>2
    <2>8. PICK a \in Block : getByteEx(a)
        BY <2>7 DEF Next
    <2>9. PICK line \in Line :
            /\ line.block = a /\ line.data = Contents(a)
            /\ \/ HitWith(a, line) /\ line = LineOf(L1, a)
               \/ MissWith(a, line)
        BY <2>8, ReadWith
    <2>10. y = line /\ a = b /\ memory'[b] = memory[b] /\ ~Anywhere(blocks, y)
        BY <2>0, <2>1, <2>2, <2>5, <2>6, <2>9
    <2>11. ~InCache(L1, b)
      <3>1. InCache(L1, b) => Anywhere(blocks, LineOf(L1, b))
          BY LineThere DEF Inv, Anywhere, L1, Level
      <3> QED
          BY <2>9, <2>10, <3>1 DEF MissWith
    <2>12. Contents(b) # memory[b]
        BY <2>0, <2>2, <2>9, <2>10
    <2> QED
        BY <2>8, <2>10, <2>11, <2>12 DEF Contents, Forgotten
  <1>2. Inv /\ Inv' /\ [Next]_vars => [\A b \in Block : Goes(b)]_vars
      BY <1>1
  <1> QED
      BY <1>2, Invariance, PTL DEF Spec, ForgetsMovingUp
=============================================================================
