---------------------------- MODULE Instructions ----------------------------
(***************************************************************************)
(* The instructions the simulator runs and what each computes, shared by   *)
(* the instruction set (Isa) and the pipeline that implements it.  One     *)
(* operation stands for each shape the code tells apart: ADD for every     *)
(* register-register operation, ADDI for every register-immediate one, BEQ *)
(* and BNE for the six branches, LOAD, STORE, LR and SC for every width.   *)
(* EXIT, PRINT (a char or a number), PRINTS (a string) and READ are ECALL  *)
(* with the call in a7, and UNKNOWN is every word that decode refuses, lwu *)
(* among them, whose case falls through into the panic.  An address of an  *)
(* instruction is its index in the program; data, link values and          *)
(* addresses are Value.                                                    *)
(***************************************************************************)
EXTENDS Integers, Sequences

CONSTANTS
    Reg,            \* register numbers; 0 is the zero register
    NumValues       \* values are 0 .. NumValues - 1, and wrap

ASSUME RegAssumption == Reg \subseteq Nat /\ 0 \in Reg
ASSUME ValueAssumption == NumValues \in Nat \ {0, 1}   \* SC gives 0 or 1

Value == 0 .. NumValues - 1
NoReg == -1         \* reg1 or reg2 of an instruction that reads no register

\* The calls of handleSystemCall.
SystemCall == {"EXIT", "PRINT", "PRINTS", "READ"}

\* The operations by the registers they name in reg1 and reg2.
ReadsNone == {"LUI", "JAL", "UNKNOWN"}
ReadsOne == {"ADDI", "JALR", "LOAD", "LR"}
ReadsTwo == {"ADD", "BEQ", "BNE", "STORE", "SC"} \cup SystemCall
Op == ReadsNone \cup ReadsOne \cup ReadsTwo
Instruction ==
    {i \in [op : Op, rd : Reg, rs1 : Reg \cup {NoReg},
            rs2 : Reg \cup {NoReg}, imm : Int] :
        /\ i.rs1 = NoReg <=> i.op \in ReadsNone
        /\ i.rs2 = NoReg <=> i.op \notin ReadsTwo}

isBranch(i) == i.op \in {"BEQ", "BNE"}
isJump(i) == i.op \in {"JAL", "JALR"}
isReadMem(i) == i.op \in {"LOAD", "LR"}
\* writeReg, and a destination that is not the zero register.
writesReg(i) == i.op \notin {"BEQ", "BNE", "STORE"} /\ i.rd # 0
\* The memory stage is the first to know what goes into the register.
ResultInMemory(i) == isReadMem(i) \/ i.op = "SC"

\* op1 and op2 as decode reads them: the registers, else the immediate.
Op1(regs, i) == IF i.rs1 # NoReg THEN regs[i.rs1] ELSE i.imm
Op2(regs, i) == IF i.rs2 # NoReg THEN regs[i.rs2] ELSE i.imm

\* Does not wrap.
BadOut(i, at, op1, op2, input) == IF isJump(i) THEN at + 1 ELSE op1 + op2
\* out of excecute: the result, or the address of a memory access; `input`
\* is what scanf finds.
Out(i, at, op1, op2, input) ==
    CASE i.op \in {"ADD", "ADDI"} -> (op1 + op2) % NumValues
      [] i.op = "LUI" -> op1 % NumValues
      [] isJump(i) -> (at + 1) % NumValues
      [] i.op \in {"LOAD", "STORE"} -> (op1 + i.imm) % NumValues
      [] i.op = "READ" -> input   \* scanf overwrites op1
      [] i.op \in {"LR", "SC"} \cup SystemCall -> op1
      [] OTHER -> 0

\* branch of excecute: the instruction leaves the straight line.
Taken(i, op1, op2) ==
    CASE i.op = "BEQ" -> op1 = op2
      [] i.op = "BNE" -> op1 # op2
      [] OTHER -> isJump(i)

\* dRegPC of excecute for a branch that is taken and for a jump.
Target(i, at, op1, op2) ==
    IF i.op = "JALR" THEN (op1 + op2) % NumValues ELSE at + i.imm

\* The bytes from address a up to a zero; behind the memory all are.
String(m, a) ==
    LET zeroes == {n \in a .. NumValues - 1 : m[n] = 0}
        end == IF zeroes = {} THEN NumValues
               ELSE CHOOSE n \in zeroes : \A k \in zeroes : n <= k
    IN  [n \in 1 .. end - a |-> m[a + n - 1]]

\* The output of instruction i, if it has one, over a memory m.
Prints(i) == i.op \in {"PRINT", "PRINTS"}
Printed(i, op1, m) == IF i.op = "PRINTS" THEN String(m, op1) ELSE <<op1>>
=============================================================================
