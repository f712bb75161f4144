------------------------- MODULE MCBranchPredictor -------------------------
(***************************************************************************)
(* Small instances of BranchPredictor: every closed loop of up to four     *)
(* branches over addresses some of which share an entry.                   *)
(***************************************************************************)
EXTENDS BranchPredictor

CONSTANT None
\* Behind a branch, at the next address, is always a branch or never.
Static(p) ==
    \A i, j \in DOMAIN p :
        /\ p[i].behind \in {NoPC, p[i].pc + 1}
        /\ p[i].pc = p[j].pc => p[i].behind = p[j].behind
LoopsOf(n) == {p \in [1 .. n -> Branch] : Closed(p) /\ Static(p)}
Loops == LoopsOf(1) \cup LoopsOf(2) \cup LoopsOf(3) \cup LoopsOf(4)

\* Two branches share an entry of a table of this size.
Share(a, b, size) == a.pc # b.pc /\ a.pc % size = b.pc % size
\* The loops BufferForgives and PerceptronLearns speak of include some in
\* which different branches pull at one entry, not all the same way.
\* In those BufferForgives speaks of, other branches are adjacent as well.
ASSUME EntriesAreShared ==
    /\ \E p \in BiasedPrograms :
        /\ \E i, j \in DOMAIN p :
            Share(p[i], p[j], PRED_BUF_SIZE) /\ ~p[i].taken /\ p[j].taken
        /\ \E i \in DOMAIN p : ~p[i].taken /\ p[i].behind # NoPC
    /\ \E p \in SeparablePrograms : \E i, j \in DOMAIN p :
            Share(p[i], p[j], perceptronnumber)
=============================================================================
