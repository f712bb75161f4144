------------------------------ MODULE LineSets ------------------------------
(***************************************************************************)
(* A set of a cache whose ways nothing tells apart but the order of their  *)
(* last use: the sequence of its valid lines, least recently used first.   *)
(* lastReference orders the lines of a set as long as the level's counter  *)
(* has not wrapped.  A line is a record with a field block.                *)
(***************************************************************************)
EXTENDS Integers, Sequences

\* getBlockId, getSamplerBlockId: where block b is among the lines of a set.
Find(set, b) == {w \in DOMAIN set : set[w].block = b}

\* The set when line w is taken out of it.
Without(set, w) == SubSeq(set, 1, w - 1) \o SubSeq(set, w + 1, Len(set))
=============================================================================
