----------------------------- MODULE MCDualCore -----------------------------
(***************************************************************************)
(* A memory of four pages of two bytes.  The programs meet each other and  *)
(* the stacks in the first two, which are loaded in several orders; the    *)
(* third never exists, and the last one, behind which addresses wrap, is   *)
(* shared.  One program has a segment at the very last address, which is   *)
(* more than loadElfToMemory takes.                                        *)
(***************************************************************************)
EXTENDS DualCore

Seg(addr, data, memsz) == [addr |-> addr, data |-> data, memsz |-> memsz]
ProgramsOf == {<<Seg(0, <<1>>, 1)>>,
               <<Seg(1, <<1>>, 2)>>,
               <<Seg(0, <<1, 1>>, 2), Seg(1, <<>>, 1)>>,
               <<Seg(0, <<1>>, 1), Seg(7, <<1>>, 1)>>}
Bases == [c \in {0, 1} |-> IF c = 0 THEN 3 ELSE 2]
Shared == <<6, 2>>
Values == {<<1>>, <<1, 0>>}
=============================================================================
