-------------------------------- MODULE Isa --------------------------------
(***************************************************************************)
(* What the pipeline promises to a program: instructions execute one at a  *)
(* time, in program order, each seeing everything the ones before it did.  *)
(***************************************************************************)
EXTENDS Instructions

VARIABLES
    prog,           \* the program: address -> instruction
    pc,             \* the next instruction, Exited after the exit
    reg, mem,
    reservation,    \* addresses reserved by LR
    input,          \* what the next READ finds
    output          \* what was printed last
vars == <<prog, pc, reg, mem, reservation, input, output>>

Exited == -1

Init ==
    /\ prog \in [Value -> Instruction]
    /\ pc = 0
    /\ reg \in [Reg -> Value]
    /\ mem \in [Value -> Value]
    /\ reservation = {}
    /\ input \in Value
    /\ output = <<>>

\* One instruction from start to end.
Step ==
    LET i == prog[pc]
        op1 == Op1(reg, i)
        op2 == Op2(reg, i)
        out == Out(i, pc, op1, op2, input)
        stores == i.op = "STORE" \/ (i.op = "SC" /\ out \in reservation)
        result == CASE isReadMem(i) -> mem[out]
                    [] i.op = "SC" -> IF stores THEN 0 ELSE 1
                    [] OTHER -> out
    IN  /\ pc \in DOMAIN prog /\ i.op # "UNKNOWN"
        /\ pc' = CASE i.op = "EXIT" -> Exited
                   [] Taken(i, op1, op2) -> Target(i, pc, op1, op2)
                   [] OTHER -> pc + 1
        /\ reg' = IF writesReg(i) THEN [reg EXCEPT ![i.rd] = result] ELSE reg
        /\ mem' = IF stores THEN [mem EXCEPT ![out] = op2] ELSE mem
        /\ reservation' = CASE i.op = "LR" -> reservation \cup {out}
                            [] i.op = "SC" -> {}
                            [] OTHER -> reservation
        /\ input' \in IF i.op = "READ" THEN Value ELSE {input}
        /\ output' = IF Prints(i) THEN Printed(i, op1, mem) ELSE output
        /\ UNCHANGED prog

Spec == Init /\ [][Step]_vars
=============================================================================
