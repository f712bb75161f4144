----------------------------- MODULE MCPipeline -----------------------------
(* Pipeline over every program that can be put together from a few          *)
(* instructions and that ends with the exit() system call.                  *)
EXTENDS Pipeline, TLC

I(op, rd, rs1, rs2, imm) ==
    [op |-> op, rd |-> rd, rs1 |-> rs1, rs2 |-> rs2, imm |-> imm]

Some == {
    I("ADD", 1, 1, 2, 0),
    I("ADDI", 2, 1, NoReg, 1),
    I("LOAD", 1, 2, NoReg, 1),
    I("LOAD", 0, 1, NoReg, 0),
    I("STORE", 0, 1, 2, 0),
    I("LR", 2, 1, NoReg, 0),
    I("SC", 2, 1, 1, 0),
    I("JAL", 1, NoReg, NoReg, 2),
    I("JALR", 2, 1, NoReg, 0),
    I("ADD", 2, 2, 1, 0),
    I("BNE", 0, 1, 2, 2),
    I("BNE", 0, 0, 2, -1),
    I("BEQ", 0, 2, 1, -2)}
\* The system calls take a0 (1 here) and a7 (2), and leave their result in a0.
Call(op) == I(op, 1, 1, 2, 0)
Exit == Call("EXIT")
Calling == {
    Call("PRINT"), Call("PRINTS"), Call("READ"),
    I("UNKNOWN", 0, NoReg, NoReg, 0),
    I("ADDI", 1, 1, NoReg, 1),
    I("LUI", 1, NoReg, NoReg, 3),
    I("LOAD", 1, 1, NoReg, 1),
    I("STORE", 0, 1, 2, 0),
    I("JAL", 2, NoReg, NoReg, 2),
    I("BNE", 0, 1, 2, 2)}

Last == NumValues - 1
\* The programs of some instructions and an exit() that keep their branches
\* and jumps to themselves.
Composed(some) ==
    {p \in {q @@ (Last :> Exit) : q \in [0 .. Last - 1 -> some]} : Closed(p)}
Branching == Composed(Some)
OrderlyPrograms == {p \in Branching \cup Composed(Calling) : Settled(p)}

\* What Orderly allows: only spaced branches may be predicted not taken.
TakenUnlessSpaced(p) == IF Spaced(p) THEN BOOLEAN ELSE {TRUE}
\* The default strategy, NT.
NotTaken(p) == {FALSE}

SomeReg == [r \in Reg |-> r]
SomeMem == [a \in Value |-> (2 * a + 1) % NumValues]
=============================================================================
