------------------------------ MODULE Pipeline ------------------------------
(***************************************************************************)
(* The five-stage pipeline of one Simulator.  An action is one call of     *)
(* singleStep: fetch, decode, excecute, memoryAccess and writeBack, in     *)
(* that order, over the latches the last cycle left, then the latching of  *)
(* fRegNew, dRegNew, eRegNew and mRegNew and the redirection of the pc to  *)
(* a predicted target.  The branch predictor may answer anything in        *)
(* Predictions(prog).  Data memory answers at once: memory stalls only delay the *)
(* next call of singleStep.  The fields of a bubble, which no stage reads, *)
(* are those of the zeroed latch.  The statistics, the trace, the check of *)
(* the stack pointer and what panics but an unknown word are left out.     *)
(* A definition named Bad... is a mutant of the one after it.              *)
(***************************************************************************)
EXTENDS Instructions

CONSTANTS
    Programs,       \* the programs that may be loaded
    InitialReg, InitialMem,
    Input,          \* what may be typed in
    Predictions(_)  \* what the branch predictor may answer in a program

ASSUME ProgramAssumption == Programs \subseteq [Value -> Instruction]
ASSUME MachineAssumption ==
    /\ InitialReg \in [Reg -> Value] /\ InitialReg[0] = 0
    /\ InitialMem \in [Value -> Value]
    /\ Input \subseteq Value /\ Input # {}
ASSUME PredictionAssumption ==
    \A p \in Programs : Predictions(p) \in (SUBSET BOOLEAN) \ {{}}

VARIABLES
    prog,
    pc,             \* the next address to fetch
    predictedPC,    \* the target of the branch predicted taken last
    anotherPC,      \* where the branch decoded last goes if mispredicted
    fReg, dReg, eReg, mReg,     \* the latches after fetch, decode, ...
    reg, mem, reservation,
    input, output,  \* as in Isa
    terminate,      \* the exit() system call has been executed
    panicked        \* panic() has ended the process
vars == <<prog, pc, predictedPC, anotherPC, fReg, dReg, eReg, mReg,
          reg, mem, reservation, input, output, terminate, panicked>>

\* A zero word decodes as a bubble; a zeroed latch holds no instruction.
ZeroInst == [op |-> "ZERO", rd |-> 0, rs1 |-> 0, rs2 |-> 0, imm |-> 0]
NoFetch == [bubble |-> TRUE, stall |-> 0, pc |-> 0, inst |-> ZeroInst]
NoDecode == [bubble |-> TRUE, stall |-> 0, pc |-> 0, inst |-> ZeroInst,
             op1 |-> 0, op2 |-> 0, predictedBranch |-> FALSE]
NoExecute == [bubble |-> TRUE, inst |-> ZeroInst, out |-> 0, op2 |-> 0]
NoMemory == [bubble |-> TRUE, inst |-> ZeroInst, out |-> 0]

\* The constructor, setUp and the entry point of the program.
Init ==
    /\ prog \in Programs
    /\ pc = 0 /\ predictedPC = 0 /\ anotherPC = 0
    /\ fReg = NoFetch /\ dReg = NoDecode /\ eReg = NoExecute /\ mReg = NoMemory
    /\ reg = InitialReg /\ mem = InitialMem
    /\ reservation = {}
    /\ input \in Input /\ output = <<>>
    /\ terminate = FALSE /\ panicked = FALSE
-----------------------------------------------------------------------------
(* fetch and decode                                                        *)

\* Memory past the program holds zeroes.
fetched ==
    [bubble |-> FALSE, stall |-> 0, pc |-> pc,
     inst |-> IF pc \in DOMAIN prog THEN prog[pc] ELSE ZeroInst]

Decoding == fReg.stall = 0 /\ ~fReg.bubble /\ fReg.inst.op # "ZERO"
DecodesBranch == Decoding /\ isBranch(fReg.inst)

\* dRegNew as decode leaves it, with the predictor's answer.
decoded(taken) ==
    IF Decoding
    THEN [bubble |-> FALSE, stall |-> 0, pc |-> fReg.pc, inst |-> fReg.inst,
          op1 |-> Op1(reg, fReg.inst), op2 |-> Op2(reg, fReg.inst),
          predictedBranch |-> isBranch(fReg.inst) /\ taken]
    ELSE [NoDecode EXCEPT !.bubble = fReg.stall = 0]

decodedTarget == fReg.pc + fReg.inst.imm
-----------------------------------------------------------------------------
(* excecute                                                                *)

Executing == dReg.stall = 0 /\ ~dReg.bubble

executed ==
    IF Executing
    THEN [bubble |-> FALSE, inst |-> dReg.inst, op2 |-> dReg.op2,
          out |-> Out(dReg.inst, dReg.pc, dReg.op1, dReg.op2, input)]
    ELSE NoExecute

\* Control hazard: the two instructions behind are dropped.
Mispredicts ==
    /\ Executing /\ isBranch(dReg.inst)
    /\ dReg.predictedBranch # Taken(dReg.inst, dReg.op1, dReg.op2)
Jumps == Executing /\ isJump(dReg.inst)
Flush == Mispredicts \/ Jumps

\* Memory hazard: the next instruction wants what a load or an SC in
\* excecute will have only after memoryAccess.
MemoryHazard(new) ==
    /\ Executing /\ ResultInMemory(dReg.inst)
    /\ dReg.inst.rd \in {new.inst.rs1, new.inst.rs2}
-----------------------------------------------------------------------------
(* memoryAccess and writeBack                                              *)

Conditional == eReg.inst.op = "SC"
Stores == eReg.inst.op = "STORE" \/ (Conditional /\ eReg.out \in reservation)

memoryOut == CASE isReadMem(eReg.inst) -> mem[eReg.out]
               [] Conditional -> IF Stores THEN 0 ELSE 1
               [] OTHER -> eReg.out

accessed == IF eReg.bubble THEN NoMemory
            ELSE [bubble |-> FALSE, inst |-> eReg.inst, out |-> memoryOut]

MemAfter == IF Stores THEN [mem EXCEPT ![eReg.out] = eReg.op2] ELSE mem
Reserved == CASE eReg.inst.op = "LR" -> reservation \cup {eReg.out}
              [] Conditional -> {}
              [] OTHER -> reservation

RegAfter == IF writesReg(mReg.inst) THEN [reg EXCEPT ![mReg.inst.rd] = mReg.out]
            ELSE reg
-----------------------------------------------------------------------------
(* Forwarding to the instruction being decoded.                            *)

\* What latch l is about to write into register r, if it does.
Produces(l, r) == writesReg(l.inst) /\ l.inst.rd = r

BadForward(r, read) ==
    CASE Produces(mReg, r) -> mReg.out
      [] Produces(eReg, r) /\ ~Produces(mReg, r) -> memoryOut
      [] Executing /\ ~ResultInMemory(dReg.inst) /\ Produces(dReg, r)
           /\ ~Produces(eReg, r) /\ ~Produces(mReg, r) -> executed.out
      [] OTHER -> read
\* The flags executeWriteBack and memoryWriteBack keep an older result from
\* overwriting a newer one: excecute first, then memoryAccess, writeBack.
Forward(r, read) ==
    IF Executing /\ ~ResultInMemory(dReg.inst) /\ Produces(dReg, r)
        THEN executed.out
    ELSE IF Produces(eReg, r) THEN memoryOut
    ELSE IF Produces(mReg, r) THEN mReg.out
    ELSE read

WithForwarding(new) ==
    [new EXCEPT !.op1 = Forward(new.inst.rs1, @),
                !.op2 = Forward(new.inst.rs2, @)]

\* memoryAccess also forwards to an instruction that is stalled in dReg.
ForwardStalled(d) ==
    [d EXCEPT !.op1 = IF Produces(eReg, d.inst.rs1) THEN memoryOut ELSE @,
              !.op2 = IF Produces(eReg, d.inst.rs2) THEN memoryOut ELSE @]
-----------------------------------------------------------------------------
(* One cycle.                                                              *)

\* fRegNew and dRegNew at the end of the cycle.
fRegNew(taken) ==
    LET new == decoded(taken)
        f == IF Flush \/ new.predictedBranch THEN NoFetch ELSE fetched
    IN  IF MemoryHazard(new) THEN [f EXCEPT !.stall = 2] ELSE f

dRegNew(taken) ==
    LET new == WithForwarding(decoded(taken))
    IN  IF Flush THEN NoDecode
        ELSE IF MemoryHazard(new) THEN [new EXCEPT !.stall = 2] ELSE new

BadCountDown(l) == l
CountDown(l) == [l EXCEPT !.stall = @ - 1]

\* The pc after the stages: fetch adds one, a stalled decode takes it back,
\* excecute redirects it.
pcAfterStages(another) ==
    CASE Mispredicts -> another
      [] Jumps -> Target(dReg.inst, dReg.pc, dReg.op1, dReg.op2)
      [] OTHER -> IF fReg.stall > 0 THEN pc ELSE pc + 1

\* decode does not know the word, and ends the process in mid-cycle: also
\* when a branch or a jump in excecute was about to drop it.
panic ==
    /\ ~terminate /\ ~panicked
    /\ Decoding /\ fReg.inst.op = "UNKNOWN"
    /\ panicked' = TRUE
    /\ UNCHANGED <<prog, pc, predictedPC, anotherPC, fReg, dReg, eReg, mReg,
                   reg, mem, reservation, input, output, terminate>>

singleStep ==
    /\ ~terminate /\ ~panicked
    /\ ~(Decoding /\ fReg.inst.op = "UNKNOWN")
    /\ \E taken \in IF DecodesBranch THEN Predictions(prog) ELSE {FALSE} :
        /\ fReg' = IF fReg.stall > 0 THEN CountDown(fReg) ELSE fRegNew(taken)
        /\ dReg' = IF dReg.stall > 0 THEN CountDown(ForwardStalled(dReg))
                   ELSE dRegNew(taken)
        /\ predictedPC' = IF DecodesBranch /\ taken THEN decodedTarget
                          ELSE predictedPC
        /\ anotherPC' = CASE DecodesBranch /\ taken -> fReg.pc + 1
                          [] DecodesBranch /\ ~taken -> decodedTarget
                          [] OTHER -> anotherPC
    /\ eReg' = executed
    /\ mReg' = accessed
    /\ reg' = RegAfter
    /\ mem' = MemAfter
    /\ reservation' = Reserved
    /\ input' \in IF Executing /\ dReg.inst.op = "READ" THEN Input ELSE {input}
    /\ output' = IF Executing /\ Prints(dReg.inst)
                 THEN Printed(dReg.inst, dReg.op1, mem) ELSE output
    /\ terminate' = (Executing /\ dReg.inst.op = "EXIT")
    /\ pc' = IF /\ ~dReg'.bubble /\ dReg'.stall = 0 /\ fReg'.stall = 0
                /\ dReg'.predictedBranch
             THEN predictedPC' ELSE pcAfterStages(anotherPC')
    /\ UNCHANGED <<prog, panicked>>

Next == singleStep \/ panic

\* The main loop steps the core until it terminates.
Spec == Init /\ [][Next]_vars /\ WF_vars(Next)
-----------------------------------------------------------------------------
Latched == Instruction \cup {ZeroInst}
TypeOK ==
    /\ prog \in [Value -> Instruction]
    /\ pc \in Int /\ predictedPC \in Int /\ anotherPC \in Int
    /\ fReg \in [bubble : BOOLEAN, stall : 0 .. 2, pc : Int, inst : Latched]
    /\ dReg \in [bubble : BOOLEAN, stall : 0 .. 2, pc : Int, inst : Latched,
                 op1 : Int, op2 : Int, predictedBranch : BOOLEAN]
    /\ eReg \in [bubble : BOOLEAN, inst : Latched, out : Value, op2 : Int]
    /\ mReg \in [bubble : BOOLEAN, inst : Latched, out : Value]
    /\ reg \in [Reg -> Value] /\ mem \in [Value -> Value]
    /\ reservation \subseteq Value
    /\ input \in Input /\ output \in Seq(Value)
    /\ terminate \in BOOLEAN /\ panicked \in BOOLEAN

\* The registers, once the instructions past excecute have written theirs.
CommittedReg ==
    [r \in Reg |-> IF Produces(eReg, r) THEN memoryOut
                   ELSE IF Produces(mReg, r) THEN mReg.out ELSE reg[r]]

\* The instruction that will execute next.
NextToExecute == CASE terminate -> -1
                   [] ~terminate /\ ~dReg.bubble -> dReg.pc
                   [] ~terminate /\ dReg.bubble /\ ~fReg.bubble -> fReg.pc
                   [] OTHER -> pc

\* What ExecutesProgram asks of a program.  Control does not leave it; no
\* branch is right behind another one, as decode would replace anotherPC while
\* excecute needs it; and no string is printed right behind a store, as
\* handleSystemCall reads it in excecute, before memoryAccess stores.
Closed(p) ==
    \A at \in Value :
        /\ isBranch(p[at]) \/ p[at].op = "JAL" => at + p[at].imm \in Value
        /\ at + 1 \in Value \/ p[at].op \in {"EXIT", "JAL", "JALR"}
Spaced(p) ==
    \A at \in Value : at + 1 \in Value => ~(isBranch(p[at]) /\ isBranch(p[at + 1]))
Settled(p) ==
    \A at \in Value : at + 1 \in Value /\ p[at].op \in {"STORE", "SC"} =>
                        p[at + 1].op # "PRINTS"
\* A branch that is predicted taken drops what is behind it.
Orderly ==
    \A p \in Programs : /\ Closed(p) /\ Settled(p)
                        /\ FALSE \in Predictions(p) => Spaced(p)

\* The pipeline executes the program: whatever is in flight, forwarded,
\* stalled or predicted, each excecute is one step of the instruction set,
\* in program order, and nothing else shows.
ISA == INSTANCE Isa WITH
        pc <- NextToExecute, reg <- CommittedReg, mem <- MemAfter,
        reservation <- Reserved
ExecutesProgram == ISA!Spec

\* anotherPC, "another possible prediction destination": a mispredicted
\* branch goes on where it should have gone in the first place, unless the
\* word behind it makes decode panic.
GoesToAnother ==
    [][Mispredicts /\ ~panicked' =>
        pc' = IF dReg.predictedBranch THEN dReg.pc + 1
              ELSE dReg.pc + dReg.inst.imm]_vars

\* No chain of stalls, flushes and redirections keeps the core from
\* executing another instruction, until the program exits or panics.
KeepsExecuting == []<>(terminate \/ panicked \/ Executing)

\* How many cycles pass before an instruction executes.
Idle == CASE Executing -> 0
          [] ~Executing /\ dReg.stall > 0 -> dReg.stall
          [] ~Executing /\ dReg.stall = 0 /\ ~fReg.bubble -> 1
          [] OTHER -> 2

\* Why it does: stalls, flushes and redirections never add up.  A cycle in
\* which nothing executes is one of at most two until the next instruction
\* does, whatever came together to cause them.
StallsAreShort == [][~Executing /\ ~panicked' => Idle' < Idle]_vars
=============================================================================
