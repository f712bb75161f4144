--------------------------- MODULE PipelineProofs ---------------------------
(***************************************************************************)
(* Pipeline keeps its types and, for orderly programs, implements the      *)
(* instruction set, with stalls of two cycles at most: for all programs,   *)
(* predictors and inputs, and for any number of registers and values.      *)
(***************************************************************************)
EXTENDS Pipeline, SharedLemmas

\* The shape of the latches: only an instruction is in one that is no bubble,
\* and a register that is read or written holds a value.
Latches ==
    /\ fReg.stall = dReg.stall
    /\ dReg.bubble <=> dReg.inst = ZeroInst
    /\ dReg.inst.rs1 # NoReg => dReg.op1 \in Value
    /\ dReg.inst.rs2 # NoReg => dReg.op2 \in Value
    /\ eReg.bubble <=> eReg.inst = ZeroInst
    /\ eReg.inst.rs2 # NoReg => eReg.op2 \in Value
    /\ mReg.bubble <=> mReg.inst = ZeroInst
Typed == TypeOK /\ Latches /\ prog \in Programs

LatchedD == [bubble : BOOLEAN, stall : 0 .. 2, pc : Int, inst : Latched,
             op1 : Int, op2 : Int, predictedBranch : BOOLEAN]
-----------------------------------------------------------------------------
(* Instructions.                                                           *)

LEMMA ValueType == Value \subseteq Int /\ 0 \in Value /\ 1 \in Value
  BY ValueAssumption DEF Value

LEMMA Wraps == \A n \in Int : n % NumValues \in Value
  BY ValueAssumption DEF Value

LEMMA InstructionFields ==
    ASSUME NEW i \in Instruction
    PROVE  /\ i.op \in Op /\ i.op # "ZERO" /\ i # ZeroInst
           /\ i.rd \in Reg /\ i.rd # NoReg /\ i.imm \in Int
           /\ i.rs1 \in Reg \cup {NoReg} /\ i.rs2 \in Reg \cup {NoReg}
           /\ i.rs1 = NoReg <=> i.op \in ReadsNone
           /\ i.rs2 = NoReg <=> i.op \notin ReadsTwo
  <1>1. i.op \in Op /\ i.rd \in Reg /\ i.imm \in Int
        /\ i.rs1 \in Reg \cup {NoReg} /\ i.rs2 \in Reg \cup {NoReg}
        /\ (i.rs1 = NoReg <=> i.op \in ReadsNone)
        /\ (i.rs2 = NoReg <=> i.op \notin ReadsTwo)
      BY DEF Instruction
  <1>2. "ZERO" \notin Op
      BY DEF Op, ReadsNone, ReadsOne, ReadsTwo, SystemCall
  <1>3. NoReg \notin Reg
      BY RegAssumption DEF NoReg
  <1> QED
      BY <1>1, <1>2, <1>3 DEF ZeroInst

LEMMA OutType ==
    ASSUME NEW i \in Instruction, NEW at \in Int, NEW op1 \in Int,
           NEW op2 \in Int, NEW in \in Value,
           i.rs1 # NoReg => op1 \in Value
    PROVE  Out(i, at, op1, op2, in) \in Value
  <1>1. i.op \in {"LR", "SC"} \cup SystemCall => op1 \in Value
      BY InstructionFields DEF ReadsNone, SystemCall
  <1>2. (op1 + op2) % NumValues \in Value /\ op1 % NumValues \in Value
        /\ (at + 1) % NumValues \in Value /\ (op1 + i.imm) % NumValues \in Value
      BY Wraps, InstructionFields
  <1> QED
      BY <1>1, <1>2, ValueType DEF Out

LEMMA LatchedFields ==
    ASSUME NEW i \in Latched
    PROVE  /\ i.rd \in Reg /\ i.rd # NoReg /\ i.imm \in Int
           /\ i.rs1 \in Reg \cup {NoReg} /\ i.rs2 \in Reg \cup {NoReg}
           /\ i # ZeroInst => i \in Instruction
           /\ i = ZeroInst <=> i.op = "ZERO"
  <1>1. CASE i \in Instruction
      BY <1>1, InstructionFields DEF ZeroInst
  <1>2. CASE i = ZeroInst
      BY <1>2, RegAssumption DEF ZeroInst, NoReg
  <1> QED
      BY <1>1, <1>2 DEF Latched
-----------------------------------------------------------------------------
(* What the stages leave has its type.                                     *)

LEMMA RegType == Typed => \A r \in Reg : reg[r] \in Value
  BY DEF Typed, TypeOK

LEMMA MemoryOutType == Typed => memoryOut \in Value
  BY ValueType DEF Typed, TypeOK, memoryOut, Conditional, Stores

LEMMA ExecutedType ==
    ASSUME Typed
    PROVE  /\ executed \in [bubble : BOOLEAN, inst : Latched, out : Value, op2 : Int]
           /\ executed.bubble <=> executed.inst = ZeroInst
           /\ executed.inst.rs2 # NoReg => executed.op2 \in Value
  <1>1. CASE Executing
    <2>1. dReg.inst \in Instruction
        BY <1>1, LatchedFields DEF Typed, TypeOK, Latches, Executing
    <2>2. Out(dReg.inst, dReg.pc, dReg.op1, dReg.op2, input) \in Value
        BY <2>1, OutType, MachineAssumption DEF Typed, TypeOK, Latches
    <2>3. dReg.inst # ZeroInst /\ dReg.inst \in Latched /\ dReg.op2 \in Int
        BY <2>1, InstructionFields DEF Latched, Typed, TypeOK
    <2> QED
        BY <1>1, <2>2, <2>3 DEF executed, Typed, Latches
  <1>2. CASE ~Executing
    <2>1. ZeroInst \in Latched
        BY DEF Latched
    <2> QED
        BY <1>2, <2>1, ValueType DEF executed, NoExecute
  <1> QED
      BY <1>1, <1>2

LEMMA AccessedType ==
    ASSUME Typed
    PROVE  /\ accessed \in [bubble : BOOLEAN, inst : Latched, out : Value]
           /\ accessed.bubble <=> accessed.inst = ZeroInst
  <1>1. ZeroInst \in Latched
      BY DEF Latched
  <1> QED
      BY <1>1, MemoryOutType, ValueType
         DEF accessed, NoMemory, Typed, TypeOK, Latches

LEMMA RegAfterType == Typed => RegAfter \in [Reg -> Value]
  BY DEF Typed, TypeOK, RegAfter

LEMMA MemAfterType ==
    ASSUME Typed
    PROVE  MemAfter \in [Value -> Value]
  <1>1. CASE ~Stores
      BY <1>1 DEF Typed, TypeOK, MemAfter
  <1>2. CASE Stores
    <2>1. eReg.inst \in Instruction /\ eReg.inst.op \in ReadsTwo
        BY <1>2, LatchedFields
           DEF Typed, TypeOK, Stores, Conditional, ReadsTwo
    <2>2. eReg.op2 \in Value
        BY <2>1, InstructionFields DEF Typed, Latches
    <2> QED
        BY <1>2, <2>2 DEF Typed, TypeOK, MemAfter
  <1> QED
      BY <1>1, <1>2

LEMMA ReservedType == Typed => Reserved \subseteq Value
  BY DEF Typed, TypeOK, Reserved

\* A latch produces no value for no register, nor for the zero register.
LEMMA ProducesForRegisters ==
    ASSUME Typed, NEW r
    PROVE  /\ Produces(dReg, r) => r \in Reg \ {0}
           /\ Produces(eReg, r) => r \in Reg \ {0}
           /\ Produces(mReg, r) => r \in Reg \ {0}
  BY LatchedFields DEF Produces, writesReg, Typed, TypeOK

LEMMA ForwardType ==
    ASSUME Typed, NEW r, NEW read
    PROVE  /\ Forward(r, read) \in Value \cup {read}
           /\ r \notin Reg \ {0} => Forward(r, read) = read
  <1>1. memoryOut \in Value /\ executed.out \in Value
      BY MemoryOutType, ExecutedType
  <1>2. mReg.out \in Value
      BY DEF Typed, TypeOK
  <1>3. Forward(r, read) \in Value \cup {read}
      BY <1>1, <1>2 DEF Forward
  <1>4. r \notin Reg \ {0} => Forward(r, read) = read
      BY ProducesForRegisters DEF Forward
  <1> QED
      BY <1>3, <1>4

\* What decode leaves, with everything forwarded.
LEMMA DecodedType ==
    ASSUME Typed, fReg.stall = 0, NEW taken \in BOOLEAN,
           NEW d, d = WithForwarding(decoded(taken))
    PROVE  /\ d \in LatchedD /\ d.stall = 0
           /\ d.bubble <=> d.inst = ZeroInst
           /\ d.inst.rs1 # NoReg => d.op1 \in Value
           /\ d.inst.rs2 # NoReg => d.op2 \in Value
           /\ d.bubble <=> ~Decoding
           /\ d.bubble => d = NoDecode
  <1>1. CASE Decoding
    <2> DEFINE i == fReg.inst
    <2>1. i \in Instruction
        BY <1>1, LatchedFields DEF Decoding, Typed, TypeOK
    <2>2. i.rs1 # NoReg => Op1(reg, i) \in Value
        BY <2>1, InstructionFields, RegType DEF Op1
    <2>3. i.rs2 # NoReg => Op2(reg, i) \in Value
        BY <2>1, InstructionFields, RegType DEF Op2
    <2>4. Op1(reg, i) \in Int /\ Op2(reg, i) \in Int
        BY <2>1, <2>2, <2>3, InstructionFields, ValueType DEF Op1, Op2
    <2>5. /\ d.bubble = FALSE /\ d.stall = 0 /\ d.pc = fReg.pc /\ d.inst = i
          /\ d.predictedBranch = (isBranch(i) /\ taken)
          /\ d.op1 = Forward(i.rs1, Op1(reg, i))
          /\ d.op2 = Forward(i.rs2, Op2(reg, i))
        BY <1>1 DEF decoded, WithForwarding
    <2>6. d.op1 \in Int /\ (i.rs1 # NoReg => d.op1 \in Value)
      <3>1. Forward(i.rs1, Op1(reg, i)) \in Value \cup {Op1(reg, i)}
          BY ForwardType
      <3> QED
          BY <2>2, <2>4, <2>5, <3>1, ValueType
    <2>7. d.op2 \in Int /\ (i.rs2 # NoReg => d.op2 \in Value)
      <3>1. Forward(i.rs2, Op2(reg, i)) \in Value \cup {Op2(reg, i)}
          BY ForwardType
      <3> QED
          BY <2>3, <2>4, <2>5, <3>1, ValueType
    <2>8. d = [bubble |-> d.bubble, stall |-> d.stall, pc |-> d.pc,
               inst |-> d.inst, op1 |-> d.op1, op2 |-> d.op2,
               predictedBranch |-> d.predictedBranch]
        BY <1>1 DEF decoded, WithForwarding
    <2>9. d.pc \in Int /\ d.inst \in Latched
        BY <2>1, <2>5 DEF Typed, TypeOK, Latched
    <2>10. d.predictedBranch \in BOOLEAN
        BY <2>5 DEF isBranch
    <2>11. d.bubble \in BOOLEAN
        BY <2>5
    <2>12. d.stall \in 0 .. 2
        BY <2>5
    <2>13. d \in LatchedD
        BY <2>6, <2>7, <2>8, <2>9, <2>10, <2>11, <2>12 DEF LatchedD
    <2> QED
        BY <1>1, <2>1, <2>5, <2>6, <2>7, <2>13, InstructionFields
  <1>2. CASE ~Decoding
    <2>1. decoded(taken) = NoDecode
        BY <1>2 DEF decoded, NoDecode
    <2>2. Forward(0, 0) = 0
        BY ForwardType
    <2>3. NoDecode.inst.rs1 = 0 /\ NoDecode.inst.rs2 = 0
          /\ NoDecode.op1 = 0 /\ NoDecode.op2 = 0
        BY DEF NoDecode, ZeroInst
    <2>4. d = [NoDecode EXCEPT !.op1 = 0, !.op2 = 0]
        BY <2>1, <2>2, <2>3 DEF WithForwarding
    <2>5. d = NoDecode
        BY <2>4 DEF NoDecode
    <2> QED
        BY <1>2, <2>5, ValueType DEF NoDecode, LatchedD, Latched, ZeroInst
  <1> QED
      BY <1>1, <1>2
-----------------------------------------------------------------------------
(* TypeOK is inductive with Latches.                                       *)

LEMMA FunctionsAreSequences ==
    ASSUME NEW S, NEW n \in Nat, NEW f \in [1 .. n -> S]
    PROVE  f \in Seq(S)
  OBVIOUS

LEMMA InitTyped == Init => Typed
  <1> SUFFICES ASSUME Init PROVE Typed
      OBVIOUS
  <1>1. ZeroInst \in Latched /\ 0 \in Int /\ 0 \in 0 .. 2 /\ 0 \in Value
      BY ValueType DEF Latched
  <1>2. prog \in [Value -> Instruction]
      BY ProgramAssumption DEF Init
  <1>3. fReg \in [bubble : BOOLEAN, stall : 0 .. 2, pc : Int, inst : Latched]
      BY <1>1 DEF Init, NoFetch
  <1>4. dReg \in LatchedD
      BY <1>1 DEF Init, NoDecode, LatchedD
  <1>5. eReg \in [bubble : BOOLEAN, inst : Latched, out : Value, op2 : Int]
      BY <1>1 DEF Init, NoExecute
  <1>6. mReg \in [bubble : BOOLEAN, inst : Latched, out : Value]
      BY <1>1 DEF Init, NoMemory
  <1>7. output \in Seq(Value)
      BY DEF Init
  <1>8. TypeOK
    <2>1. pc \in Int /\ predictedPC \in Int /\ anotherPC \in Int
        BY DEF Init
    <2>2. reg \in [Reg -> Value] /\ mem \in [Value -> Value]
          /\ reservation \subseteq Value /\ input \in Input
        BY MachineAssumption DEF Init
    <2>3. terminate \in BOOLEAN /\ panicked \in BOOLEAN
        BY DEF Init
    <2> QED
        BY <1>2, <1>3, <1>4, <1>5, <1>6, <1>7, <2>1, <2>2, <2>3 DEF TypeOK, LatchedD
  <1>9. Latches
      BY <1>1 DEF Init, Latches, NoFetch, NoDecode, NoExecute, NoMemory
  <1> QED
      BY <1>8, <1>9 DEF Typed, Init

LEMMA StringType ==
    ASSUME NEW m \in [Value -> Value], NEW a \in Value
    PROVE  String(m, a) \in Seq(Value)
  <1> DEFINE zeroes == {n \in a .. NumValues - 1 : m[n] = 0}
             end == IF zeroes = {} THEN NumValues
                    ELSE CHOOSE n \in zeroes : \A k \in zeroes : n <= k
  <1>1. end \in a .. NumValues
    <2>1. CASE zeroes # {}
      <3>1. \E n \in zeroes : \A k \in zeroes : n <= k
        <4>1. zeroes \subseteq Nat
            BY DEF Value
        <4> HIDE DEF zeroes
        <4> QED
            BY <2>1, <4>1, Smallest
      <3>2. end \in zeroes
          BY <2>1, <3>1
      <3> QED
          BY <3>2, ValueAssumption DEF Value
    <2> QED
        BY <2>1, ValueAssumption DEF Value
  <1>2. end - a \in Nat
      BY <1>1 DEF Value
  <1>3. \A n \in 1 .. end - a : m[a + n - 1] \in Value
    <2> TAKE n \in 1 .. end - a
    <2>1. a + n - 1 \in Value
      <3> HIDE DEF end
      <3> QED
          BY <1>1, ValueAssumption DEF Value
    <2> QED
        BY <2>1
  <1>4. String(m, a) = [n \in 1 .. end - a |-> m[a + n - 1]]
      BY DEF String
  <1> HIDE DEF end
  <1>5. [n \in 1 .. end - a |-> m[a + n - 1]] \in [1 .. end - a -> Value]
      BY <1>3
  <1> QED
      BY <1>2, <1>4, <1>5, FunctionsAreSequences

\* A latch that is stalled counts down, and keeps what is in it.
LEMMA StalledTyped ==
    ASSUME Typed, dReg.stall > 0, NEW d, d = CountDown(ForwardStalled(dReg))
    PROVE  /\ d \in LatchedD /\ d.stall = dReg.stall - 1
           /\ d.bubble = dReg.bubble /\ d.inst = dReg.inst
           /\ d.inst.rs1 # NoReg => d.op1 \in Value
           /\ d.inst.rs2 # NoReg => d.op2 \in Value
  <1> DEFINE op1 == IF Produces(eReg, dReg.inst.rs1) THEN memoryOut ELSE dReg.op1
             op2 == IF Produces(eReg, dReg.inst.rs2) THEN memoryOut ELSE dReg.op2
  <1>1. dReg \in LatchedD
      BY DEF Typed, TypeOK, LatchedD
  <1>2. op1 \in Int /\ (dReg.inst.rs1 # NoReg => op1 \in Value)
      BY <1>1, MemoryOutType, ValueType DEF Typed, Latches, LatchedD
  <1>3. op2 \in Int /\ (dReg.inst.rs2 # NoReg => op2 \in Value)
      BY <1>1, MemoryOutType, ValueType DEF Typed, Latches, LatchedD
  <1>4. d = [dReg EXCEPT !.op1 = op1, !.op2 = op2, !.stall = dReg.stall - 1]
    <2> HIDE DEF op1, op2
    <2>1. ForwardStalled(dReg) = [dReg EXCEPT !.op1 = op1, !.op2 = op2]
        BY DEF ForwardStalled, op1, op2
    <2>2. ForwardStalled(dReg).stall = dReg.stall
        BY <1>1, <2>1 DEF LatchedD
    <2> QED
        BY <1>1, <2>1, <2>2 DEF CountDown, LatchedD
  <1>5. dReg.stall - 1 \in 0 .. 2
      BY <1>1 DEF LatchedD
  <1> HIDE DEF op1, op2
  <1>6. d \in LatchedD /\ d.stall = dReg.stall - 1
        /\ d.bubble = dReg.bubble /\ d.inst = dReg.inst
        /\ d.op1 = op1 /\ d.op2 = op2
      BY <1>1, <1>2, <1>3, <1>4, <1>5 DEF LatchedD
  <1> QED
      BY <1>2, <1>3, <1>6

\* The next state of the latches after fetch and decode.
LatchedF == [bubble : BOOLEAN, stall : 0 .. 2, pc : Int, inst : Latched]

LEMMA FetchTyped ==
    ASSUME Typed, fReg.stall = 0, NEW taken \in BOOLEAN
    PROVE  /\ fRegNew(taken) \in LatchedF
           /\ fRegNew(taken).stall = IF MemoryHazard(decoded(taken)) THEN 2 ELSE 0
  <1>1. ZeroInst \in Latched
      BY DEF Latched
  <1>2. fetched \in LatchedF /\ fetched.stall = 0
      BY <1>1 DEF fetched, LatchedF, Typed, TypeOK, Latched
  <1>3. NoFetch \in LatchedF /\ NoFetch.stall = 0
      BY <1>1 DEF NoFetch, LatchedF
  <1>4. \A f \in LatchedF : [f EXCEPT !.stall = 2] \in LatchedF
                            /\ [f EXCEPT !.stall = 2].stall = 2
      BY DEF LatchedF
  <1> QED
      BY <1>2, <1>3, <1>4 DEF fRegNew

LEMMA DecodeTyped ==
    ASSUME Typed, fReg.stall = 0, NEW taken \in BOOLEAN,
           NEW d, d = dRegNew(taken)
    PROVE  /\ d \in LatchedD
           /\ d.stall = IF MemoryHazard(decoded(taken)) THEN 2 ELSE 0
           /\ d.bubble <=> d.inst = ZeroInst
           /\ d.inst.rs1 # NoReg => d.op1 \in Value
           /\ d.inst.rs2 # NoReg => d.op2 \in Value
  <1> DEFINE w == WithForwarding(decoded(taken))
  <1>1. /\ w \in LatchedD /\ w.stall = 0
        /\ w.bubble <=> w.inst = ZeroInst
        /\ w.inst.rs1 # NoReg => w.op1 \in Value
        /\ w.inst.rs2 # NoReg => w.op2 \in Value
      BY DecodedType
  <1>2. MemoryHazard(w) <=> MemoryHazard(decoded(taken))
    <2>1. w.inst = decoded(taken).inst
        BY DEF WithForwarding, decoded, NoDecode
    <2> QED
        BY <2>1 DEF MemoryHazard
  <1> HIDE DEF w
  <1>3. dRegNew(taken) = IF Flush THEN NoDecode
                         ELSE IF MemoryHazard(w) THEN [w EXCEPT !.stall = 2]
                         ELSE w
      BY DEF dRegNew, w
  <1>4. Flush => ~MemoryHazard(w)
      BY DEF Flush, Mispredicts, Jumps, MemoryHazard, ResultInMemory,
             isBranch, isJump, isReadMem
  <1>5. CASE Flush
    <2>1. d = NoDecode
        BY <1>3, <1>5
    <2>2. ZeroInst \in Latched
        BY DEF Latched
    <2> QED
        BY <1>2, <1>4, <1>5, <2>1, <2>2, ValueType DEF NoDecode, LatchedD
  <1>6. CASE ~Flush /\ MemoryHazard(w)
    <2>1. d = [w EXCEPT !.stall = 2]
        BY <1>3, <1>6
    <2>2. d \in LatchedD /\ d.stall = 2
        BY <1>1, <2>1 DEF LatchedD
    <2>3. d.bubble = w.bubble /\ d.inst = w.inst /\ d.op1 = w.op1 /\ d.op2 = w.op2
        BY <1>1, <2>1 DEF LatchedD
    <2> QED
        BY <1>1, <1>2, <1>6, <2>2, <2>3
  <1>7. CASE ~Flush /\ ~MemoryHazard(w)
      BY <1>1, <1>2, <1>3, <1>7
  <1> QED
      BY <1>5, <1>6, <1>7

\* What the predictor answers, and what the latches and the targets become.
Predicted(taken) ==
    /\ taken \in IF DecodesBranch THEN Predictions(prog) ELSE {FALSE}
    /\ fReg' = IF fReg.stall > 0 THEN CountDown(fReg) ELSE fRegNew(taken)
    /\ dReg' = IF dReg.stall > 0 THEN CountDown(ForwardStalled(dReg))
               ELSE dRegNew(taken)
    /\ predictedPC' = IF DecodesBranch /\ taken THEN decodedTarget
                      ELSE predictedPC
    /\ anotherPC' = CASE DecodesBranch /\ taken -> fReg.pc + 1
                      [] DecodesBranch /\ ~taken -> decodedTarget
                      [] OTHER -> anotherPC

LEMMA SomethingPredicted ==
    ASSUME Typed, singleStep
    PROVE  \E taken \in BOOLEAN : Predicted(taken)
  <1>1. Predictions(prog) \subseteq BOOLEAN
      BY PredictionAssumption DEF Typed
  <1>2. PICK taken \in IF DecodesBranch THEN Predictions(prog) ELSE {FALSE} :
            Predicted(taken)
      BY DEF singleStep, Predicted
  <1> QED
      BY <1>1, <1>2

LEMMA LatchesTyped ==
    ASSUME Typed, singleStep
    PROVE  /\ fReg' \in LatchedF /\ dReg' \in LatchedD
           /\ fReg'.stall = dReg'.stall
           /\ dReg'.bubble <=> dReg'.inst = ZeroInst
           /\ dReg'.inst.rs1 # NoReg => dReg'.op1 \in Value
           /\ dReg'.inst.rs2 # NoReg => dReg'.op2 \in Value
  <1>1. PICK taken \in BOOLEAN : Predicted(taken)
      BY SomethingPredicted
  <1>2. fReg \in LatchedF /\ dReg \in LatchedD /\ fReg.stall = dReg.stall
      BY DEF Typed, TypeOK, Latches, LatchedF, LatchedD
  <1>3. CASE dReg.stall > 0
    <2>1. fReg' = CountDown(fReg) /\ dReg' = CountDown(ForwardStalled(dReg))
        BY <1>1, <1>2, <1>3 DEF Predicted
    <2>2. fReg' \in LatchedF /\ fReg'.stall = fReg.stall - 1
        BY <1>2, <1>3, <2>1 DEF CountDown, LatchedF
    <2>3. dReg.bubble <=> dReg.inst = ZeroInst
        BY DEF Typed, Latches
    <2> QED
        BY <1>2, <1>3, <2>1, <2>2, <2>3, StalledTyped
  <1>4. CASE ~(dReg.stall > 0)
    <2>1. fReg.stall = 0 /\ fReg' = fRegNew(taken) /\ dReg' = dRegNew(taken)
        BY <1>1, <1>2, <1>4 DEF Predicted, LatchedF
    <2> QED
        BY <2>1, FetchTyped, DecodeTyped
  <1> QED
      BY <1>3, <1>4

LEMMA TargetType ==
    ASSUME Typed
    PROVE  Target(dReg.inst, dReg.pc, dReg.op1, dReg.op2) \in Int
  <1>1. dReg.inst \in Latched /\ dReg.pc \in Int /\ dReg.op1 \in Int /\ dReg.op2 \in Int
      BY DEF Typed, TypeOK
  <1>2. dReg.inst.imm \in Int
      BY <1>1, LatchedFields
  <1>3. (dReg.op1 + dReg.op2) % NumValues \in Int
    <2>1. dReg.op1 + dReg.op2 \in Int
        BY <1>1
    <2> QED
        BY <2>1, Wraps, ValueType
  <1> QED
      BY <1>1, <1>2, <1>3 DEF Target

LEMMA CountersTyped ==
    ASSUME Typed, singleStep
    PROVE  pc' \in Int /\ predictedPC' \in Int /\ anotherPC' \in Int
  <1>1. PICK taken \in BOOLEAN : Predicted(taken)
      BY SomethingPredicted
  <1>2. pc \in Int /\ predictedPC \in Int /\ anotherPC \in Int /\ fReg.pc \in Int
      BY DEF Typed, TypeOK
  <1>3. decodedTarget \in Int
    <2>1. fReg.inst \in Latched
        BY DEF Typed, TypeOK
    <2> QED
        BY <1>2, <2>1, LatchedFields DEF decodedTarget
  <1>4. predictedPC' \in Int
      BY <1>1, <1>2, <1>3 DEF Predicted
  <1>5. anotherPC' \in Int
      BY <1>1, <1>2, <1>3 DEF Predicted
  <1>6. pcAfterStages(anotherPC') \in Int
      BY <1>2, <1>5, TargetType DEF pcAfterStages
  <1>7. pc' \in {predictedPC', pcAfterStages(anotherPC')}
      BY DEF singleStep
  <1> QED
      BY <1>4, <1>5, <1>6, <1>7

LEMMA OutputTyped ==
    ASSUME Typed, singleStep
    PROVE  input' \in Input /\ output' \in Seq(Value)
  <1>1. input' \in Input
      BY DEF singleStep, Typed, TypeOK
  <1>2. CASE Executing /\ Prints(dReg.inst)
    <2>1. dReg.inst \in Instruction
        BY <1>2, LatchedFields DEF Executing, Typed, TypeOK, Latches
    <2>2. dReg.op1 \in Value
        BY <1>2, <2>1, InstructionFields
           DEF Prints, ReadsNone, Typed, Latches
    <2>3. mem \in [Value -> Value]
        BY DEF Typed, TypeOK
    <2>4. String(mem, dReg.op1) \in Seq(Value)
        BY <2>2, <2>3, StringType
    <2>5. <<dReg.op1>> \in Seq(Value)
        BY <2>2
    <2> QED
        BY <1>1, <1>2, <2>4, <2>5 DEF singleStep, Printed
  <1>3. CASE ~(Executing /\ Prints(dReg.inst))
      BY <1>1, <1>3 DEF singleStep, Typed, TypeOK
  <1> QED
      BY <1>2, <1>3

LEMMA StepTyped ==
    ASSUME Typed, singleStep
    PROVE  Typed'
  <1>1. eReg' = executed /\ mReg' = accessed /\ reg' = RegAfter
        /\ mem' = MemAfter /\ reservation' = Reserved
        /\ prog' = prog /\ panicked' = panicked
      BY DEF singleStep
  <1>2. terminate' \in BOOLEAN
      BY DEF singleStep
  <1>3. /\ eReg' \in [bubble : BOOLEAN, inst : Latched, out : Value, op2 : Int]
        /\ eReg'.bubble <=> eReg'.inst = ZeroInst
        /\ eReg'.inst.rs2 # NoReg => eReg'.op2 \in Value
      BY <1>1, ExecutedType
  <1>4. /\ mReg' \in [bubble : BOOLEAN, inst : Latched, out : Value]
        /\ mReg'.bubble <=> mReg'.inst = ZeroInst
      BY <1>1, AccessedType
  <1>5. reg' \in [Reg -> Value] /\ mem' \in [Value -> Value]
        /\ reservation' \subseteq Value
      BY <1>1, RegAfterType, MemAfterType, ReservedType
  <1>6. prog' \in [Value -> Instruction] /\ prog' \in Programs
        /\ panicked' \in BOOLEAN
      BY <1>1 DEF Typed, TypeOK
  <1>7. TypeOK'
      BY <1>2, <1>3, <1>4, <1>5, <1>6, CountersTyped, LatchesTyped, OutputTyped
         DEF TypeOK, LatchedD, LatchedF
  <1>8. Latches'
      BY <1>3, <1>4, LatchesTyped DEF Latches
  <1> QED
      BY <1>6, <1>7, <1>8 DEF Typed

LEMMA NextTyped == Typed /\ [Next]_vars => Typed'
  <1> SUFFICES ASSUME Typed, [Next]_vars PROVE Typed'
      OBVIOUS
  <1>1. CASE singleStep
      BY <1>1, StepTyped
  <1>2. CASE panic
      BY <1>2 DEF panic, Typed, TypeOK, Latches
  <1>3. CASE UNCHANGED vars
      BY <1>3 DEF vars, Typed, TypeOK, Latches
  <1> QED
      BY <1>1, <1>2, <1>3 DEF Next

\* Every latch, register and byte has its type in every state, whatever the
\* programs, the predictor and the input.
THEOREM TypeCorrect == Spec => []TypeOK
  <1>1. Typed => TypeOK
      BY DEF Typed
  <1> QED
      BY InitTyped, NextTyped, <1>1, PTL DEF Spec
-----------------------------------------------------------------------------
(* The latches hold the path the program takes.                            *)

Word(at) == IF at \in Value THEN prog[at] ELSE ZeroInst

\* dReg holds the next instruction to execute, or is a bubble.  What was
\* fetched is right behind it, unless it is a branch predicted taken: then
\* nothing was, and the pc goes to its target once no stall holds it back.
PathInv ==
    /\ ~dReg.bubble => /\ dReg.pc \in Value /\ dReg.inst = prog[dReg.pc]
                       /\ dReg.inst.op # "UNKNOWN"
    /\ ~fReg.bubble => pc = fReg.pc + 1 /\ fReg.inst = Word(fReg.pc)
    /\ ~dReg.bubble /\ dReg.predictedBranch =>
        /\ isBranch(dReg.inst) /\ fReg.bubble
        /\ anotherPC = dReg.pc + 1
        /\ predictedPC = dReg.pc + dReg.inst.imm
        /\ dReg.stall = 0 => pc = predictedPC
    /\ ~dReg.bubble /\ ~dReg.predictedBranch =>
        /\ ~fReg.bubble /\ fReg.pc = dReg.pc + 1
        /\ isBranch(dReg.inst) => /\ anotherPC = dReg.pc + dReg.inst.imm
                                  /\ FALSE \in Predictions(prog)
    /\ dReg.stall > 0 => ~dReg.bubble
    /\ terminate \/ NextToExecute \in Value

\* Where execution goes on after dReg.
After == IF Taken(dReg.inst, dReg.op1, dReg.op2)
         THEN Target(dReg.inst, dReg.pc, dReg.op1, dReg.op2) ELSE dReg.pc + 1

LEMMA ProgFacts ==
    ASSUME Typed
    PROVE  /\ DOMAIN prog = Value
           /\ \A at \in Value : prog[at] \in Instruction /\ prog[at].op # "ZERO"
           /\ fReg.stall = dReg.stall /\ dReg.stall \in 0 .. 2
           /\ dReg.pc \in Int /\ fReg.pc \in Int /\ pc \in Int
           /\ dReg.bubble \in BOOLEAN /\ fReg.bubble \in BOOLEAN
           /\ dReg.inst \in Latched /\ fReg.inst \in Latched
           /\ dReg.inst.imm \in Int /\ fReg.inst.imm \in Int
  BY InstructionFields, LatchedFields DEF Typed, TypeOK, Latches

LEMMA TakenIsBoolean ==
    ASSUME NEW i, isBranch(i), NEW op1, NEW op2
    PROVE  Taken(i, op1, op2) \in BOOLEAN
  <1>1. CASE i.op = "BEQ"
      BY <1>1 DEF Taken
  <1>2. CASE i.op = "BNE"
      BY <1>2 DEF Taken
  <1> QED
      BY <1>1, <1>2 DEF isBranch

LEMMA StallStep ==
    ASSUME Typed, PathInv, singleStep, dReg.stall > 0
    PROVE  PathInv' /\ NextToExecute' = NextToExecute
  <1>1. PICK taken \in BOOLEAN : Predicted(taken)
      BY SomethingPredicted
  <1>2. ~dReg.bubble /\ ~Executing /\ ~Decoding /\ ~DecodesBranch
      BY ProgFacts DEF PathInv, Executing, Decoding, DecodesBranch
  <1>3. fReg' = CountDown(fReg) /\ dReg' = CountDown(ForwardStalled(dReg))
        /\ predictedPC' = predictedPC /\ anotherPC' = anotherPC
      BY <1>1, <1>2, ProgFacts DEF Predicted
  <1>4. /\ fReg'.bubble = fReg.bubble /\ fReg'.pc = fReg.pc /\ fReg'.inst = fReg.inst
        /\ fReg'.stall = fReg.stall - 1
      BY <1>3 DEF CountDown, Typed, TypeOK
  <1>5. /\ dReg'.bubble = dReg.bubble /\ dReg'.pc = dReg.pc /\ dReg'.inst = dReg.inst
        /\ dReg'.stall = dReg.stall - 1
        /\ dReg'.predictedBranch = dReg.predictedBranch
      BY <1>3 DEF CountDown, ForwardStalled, Typed, TypeOK
  <1>6. pcAfterStages(anotherPC') = pc
      BY <1>2, ProgFacts DEF pcAfterStages, Mispredicts, Jumps
  <1>7. pc' = IF dReg'.stall = 0 /\ dReg'.predictedBranch THEN predictedPC ELSE pc
      BY <1>2, <1>3, <1>4, <1>5, <1>6, ProgFacts DEF singleStep
  <1>8. ~terminate /\ ~terminate' /\ prog' = prog
      BY <1>2 DEF singleStep
  <1>9. NextToExecute' = dReg.pc /\ NextToExecute = dReg.pc
      BY <1>2, <1>5, <1>8 DEF NextToExecute
  <1>10. dReg.pc \in Value
      BY <1>2 DEF PathInv
  <1>11. Word(fReg.pc)' = Word(fReg.pc)
      BY <1>4, <1>8 DEF Word
  <1> QED
      BY <1>2, <1>3, <1>4, <1>5, <1>7, <1>8, <1>9, <1>10, <1>11 DEF PathInv

LEMMA FlushStep ==
    ASSUME Orderly, Typed, PathInv, singleStep, Flush
    PROVE  PathInv' /\ NextToExecute' = After /\ pc' = After
  <1>1. PICK taken \in BOOLEAN : Predicted(taken)
      BY SomethingPredicted
  <1> DEFINE i == dReg.inst
  <1>2. /\ Executing /\ dReg.stall = 0 /\ fReg.stall = 0 /\ ~dReg.bubble
        /\ ~(isBranch(i) /\ isJump(i)) /\ ~ResultInMemory(i)
        /\ i.op # "EXIT"
      BY ProgFacts DEF Flush, Mispredicts, Jumps, Executing, isBranch, isJump,
                       ResultInMemory, isReadMem
  <1>3. ~MemoryHazard(decoded(taken))
      BY <1>2 DEF MemoryHazard
  <1>4. fReg' = NoFetch /\ dReg' = NoDecode
      BY <1>1, <1>2, <1>3 DEF Predicted, fRegNew, dRegNew
  <1>5. Closed(prog) /\ Settled(prog) /\ (FALSE \in Predictions(prog) => Spaced(prog))
      BY DEF Orderly, Typed
  <1>6. dReg.pc \in Value /\ i = prog[dReg.pc] /\ i \in Instruction
      BY <1>2, ProgFacts DEF PathInv
  <1>7. pc' = pcAfterStages(anotherPC')
    <2>1. dReg'.bubble
        BY <1>4 DEF NoDecode
    <2> QED
        BY <2>1 DEF singleStep
  <1>8. ASSUME Mispredicts PROVE pc' = After /\ After \in Value
    <2>1. ~DecodesBranch
      <3>1. CASE dReg.predictedBranch
          BY <1>2, <3>1 DEF PathInv, DecodesBranch, Decoding
      <3>2. CASE ~dReg.predictedBranch
        <4>1. fReg.pc = dReg.pc + 1 /\ Spaced(prog) /\ fReg.inst = Word(fReg.pc)
            BY <1>2, <1>5, <1>8, <3>2 DEF PathInv, Mispredicts
        <4>2. isBranch(prog[dReg.pc])
            BY <1>6, <1>8 DEF Mispredicts
        <4> QED
            BY <1>6, <4>1, <4>2 DEF Spaced, Word, DecodesBranch, Decoding, ZeroInst,
                                     isBranch
      <3> QED
          BY <3>1, <3>2
    <2>2. anotherPC' = anotherPC
        BY <1>1, <2>1 DEF Predicted
    <2>3. pc' = anotherPC
      <3>1. pcAfterStages(anotherPC') = anotherPC'
          BY <1>2, <1>8 DEF pcAfterStages, Jumps, Mispredicts
      <3> QED
          BY <1>7, <2>2, <3>1
    <2>4. isBranch(i) /\ ~isJump(i)
          /\ dReg.predictedBranch # Taken(i, dReg.op1, dReg.op2)
        BY <1>2, <1>8 DEF Mispredicts
    <2>5. anotherPC = After
      <3>1. Target(i, dReg.pc, dReg.op1, dReg.op2) = dReg.pc + i.imm
          BY <2>4 DEF Target, isJump
      <3>2. dReg.predictedBranch \in BOOLEAN
          BY DEF Typed, TypeOK
      <3>3. Taken(i, dReg.op1, dReg.op2) \in BOOLEAN
          BY <2>4, TakenIsBoolean
      <3>4. CASE dReg.predictedBranch
        <4>1. ~Taken(i, dReg.op1, dReg.op2) /\ anotherPC = dReg.pc + 1
            BY <1>2, <2>4, <3>2, <3>3, <3>4 DEF PathInv
        <4> QED
            BY <4>1 DEF After
      <3>5. CASE ~dReg.predictedBranch
        <4>1. Taken(i, dReg.op1, dReg.op2) /\ anotherPC = dReg.pc + i.imm
            BY <1>2, <2>4, <3>2, <3>3, <3>5 DEF PathInv
        <4> QED
            BY <3>1, <4>1 DEF After
      <3> QED
          BY <3>4, <3>5
    <2>6. anotherPC \in Value
      <3>1. dReg.pc + i.imm \in Value
          BY <1>5, <1>6, <2>4 DEF Closed
      <3>2. dReg.pc + 1 \in Value
          BY <1>5, <1>6, <2>4 DEF Closed, isBranch
      <3> QED
          BY <1>2, <2>4, <3>1, <3>2 DEF PathInv
    <2> QED
        BY <2>3, <2>5, <2>6
  <1>9. ASSUME Jumps PROVE pc' = After /\ After \in Value
    <2>1. isJump(i) /\ ~Mispredicts
        BY <1>2, <1>9 DEF Jumps, Mispredicts
    <2>2. pcAfterStages(anotherPC') = Target(i, dReg.pc, dReg.op1, dReg.op2)
        BY <1>9, <2>1 DEF pcAfterStages
    <2>3. After = Target(i, dReg.pc, dReg.op1, dReg.op2)
        BY <2>1 DEF After, Taken, isJump
    <2>4. Target(i, dReg.pc, dReg.op1, dReg.op2) \in Value
      <3>1. CASE i.op = "JALR"
        <4>1. dReg.op1 + dReg.op2 \in Int
            BY DEF Typed, TypeOK
        <4> QED
            BY <3>1, <4>1, Wraps DEF Target
      <3>2. CASE i.op = "JAL"
          BY <1>5, <1>6, <3>2 DEF Closed, Target
      <3> QED
          BY <2>1, <3>1, <3>2 DEF isJump
    <2> QED
        BY <1>7, <2>2, <2>3, <2>4
  <1>10. pc' = After /\ After \in Value
      BY <1>8, <1>9 DEF Flush
  <1>11. terminate' = FALSE
      BY <1>2 DEF singleStep
  <1>12. NextToExecute' = pc'
      BY <1>4, <1>11 DEF NextToExecute, NoFetch, NoDecode
  <1> QED
      BY <1>4, <1>10, <1>11, <1>12 DEF PathInv, NoFetch, NoDecode

\* A step of a core that is neither stalled nor flushed moves the pc on.
LEMMA NoFlush ==
    ASSUME Typed, singleStep, dReg.stall = 0, ~Flush, NEW taken \in BOOLEAN,
           Predicted(taken)
    PROVE  /\ ~Mispredicts /\ ~Jumps /\ fReg.stall = 0
           /\ dReg' = dRegNew(taken) /\ fReg' = fRegNew(taken)
           /\ pcAfterStages(anotherPC') = pc + 1
           /\ ~terminate /\ prog' = prog
           /\ terminate' <=> (Executing /\ dReg.inst.op = "EXIT")
           /\ pc' = IF /\ ~dReg'.bubble /\ dReg'.stall = 0 /\ fReg'.stall = 0
                       /\ dReg'.predictedBranch
                    THEN predictedPC' ELSE pc + 1
  <1>1. ~Mispredicts /\ ~Jumps /\ fReg.stall = 0
      BY ProgFacts DEF Flush
  <1>2. pcAfterStages(anotherPC') = pc + 1
      BY <1>1 DEF pcAfterStages
  <1>3. dReg' = dRegNew(taken) /\ fReg' = fRegNew(taken)
      BY <1>1 DEF Predicted
  <1> QED
      BY <1>1, <1>2, <1>3 DEF singleStep

\* Nothing is decoded: what fetch brings is next.
LEMMA NothingDecoded ==
    ASSUME Typed, singleStep, dReg.stall = 0, ~Flush, ~Decoding,
           ~(Executing /\ ResultInMemory(dReg.inst))
    PROVE  /\ terminate' <=> (Executing /\ dReg.inst.op = "EXIT")
           /\ terminate' \/ pc \in Value => PathInv'
           /\ ~terminate' => NextToExecute' = pc
           /\ dReg' = NoDecode /\ fReg' = fetched
  <1>1. PICK taken \in BOOLEAN : Predicted(taken)
      BY SomethingPredicted
  <1>2. fReg.stall = 0 /\ dReg' = dRegNew(taken) /\ fReg' = fRegNew(taken)
        /\ prog' = prog
      BY <1>1, NoFlush
  <1>3. ~MemoryHazard(decoded(taken)) /\ ~MemoryHazard(WithForwarding(decoded(taken)))
      BY DEF MemoryHazard
  <1>4. WithForwarding(decoded(taken)) = NoDecode
      BY <1>2, DecodedType
  <1>5. dReg' = NoDecode
      BY <1>2, <1>3, <1>4 DEF dRegNew
  <1>6. ~decoded(taken).predictedBranch
      BY DEF decoded, NoDecode
  <1>7. fReg' = fetched
      BY <1>2, <1>3, <1>6 DEF fRegNew
  <1>8. pc' = pc + 1
      BY <1>1, <1>5, NoFlush DEF NoDecode
  <1>9. dReg'.bubble /\ dReg'.stall = 0
      BY <1>5 DEF NoDecode
  <1>10. ~fReg'.bubble /\ fReg'.pc = pc /\ fReg'.inst = Word(pc)
      BY <1>7, ProgFacts DEF fetched, Word
  <1>11. Word(fReg.pc)' = Word(pc)
      BY <1>2, <1>10 DEF Word
  <1>12. terminate' <=> (Executing /\ dReg.inst.op = "EXIT")
      BY <1>1, NoFlush
  <1>13. ~terminate' => NextToExecute' = pc
      BY <1>9, <1>10 DEF NextToExecute
  <1> QED
      BY <1>5, <1>7, <1>8, <1>9, <1>10, <1>11, <1>12, <1>13 DEF PathInv

\* An instruction is decoded: it is next, and what is fetched is behind it
\* unless a branch is predicted taken.
LEMMA SomethingDecoded ==
    ASSUME Orderly, Typed, PathInv, singleStep, dReg.stall = 0, ~Flush, Decoding,
           ~dReg.bubble => ~dReg.predictedBranch
    PROVE  /\ PathInv' /\ ~dReg'.bubble /\ dReg'.inst = fReg.inst
           /\ ~terminate' => NextToExecute' = fReg.pc
  <1>1. PICK taken \in BOOLEAN : Predicted(taken)
      BY SomethingPredicted
  <1> DEFINE w == WithForwarding(decoded(taken))
             hazard == MemoryHazard(decoded(taken))
             i == fReg.inst
  <1>2. fReg.stall = 0 /\ dReg' = dRegNew(taken) /\ fReg' = fRegNew(taken)
        /\ prog' = prog
      BY <1>1, NoFlush
  <1>3. ~fReg.bubble /\ fReg.pc \in Value /\ i = prog[fReg.pc] /\ i.op # "UNKNOWN"
        /\ pc = fReg.pc + 1
      BY DEF Decoding, PathInv, Word, ZeroInst, singleStep
  <1>4. /\ w \in LatchedD /\ w.stall = 0 /\ ~w.bubble
        /\ w.inst = i /\ w.pc = fReg.pc
        /\ w.predictedBranch = (isBranch(i) /\ taken)
      BY <1>2, DecodedType DEF decoded, WithForwarding
  <1>5. hazard <=> MemoryHazard(w)
      BY <1>4 DEF MemoryHazard, decoded
  <1>6. dReg' = IF hazard THEN [w EXCEPT !.stall = 2] ELSE w
      BY <1>2, <1>5 DEF dRegNew
  <1>7. /\ ~dReg'.bubble /\ dReg'.inst = i /\ dReg'.pc = fReg.pc
        /\ dReg'.predictedBranch = (isBranch(i) /\ taken)
        /\ dReg'.stall = IF hazard THEN 2 ELSE 0
    <2> HIDE DEF w, hazard
    <2> QED
        BY <1>4, <1>6 DEF LatchedD
  <1>8. decoded(taken).predictedBranch = (isBranch(i) /\ taken)
      BY DEF decoded
  <1>9. ~terminate' => NextToExecute' = fReg.pc
      BY <1>7 DEF NextToExecute
  <1>10. terminate' \/ NextToExecute' \in Value
      BY <1>3, <1>9
  <1>11. CASE isBranch(i) /\ taken
    <2>1. /\ fReg'.bubble /\ fReg'.stall = dReg'.stall
      <3>1. fReg' = IF hazard THEN [NoFetch EXCEPT !.stall = 2] ELSE NoFetch
          BY <1>2, <1>8, <1>11 DEF fRegNew
      <3> QED
          BY <1>7, <3>1 DEF NoFetch
    <2>2. predictedPC' = fReg.pc + i.imm /\ anotherPC' = fReg.pc + 1
        BY <1>1, <1>11 DEF Predicted, DecodesBranch, decodedTarget
    <2>3. dReg'.stall = 0 => pc' = predictedPC'
        BY <1>1, <1>7, <1>11, <2>1, NoFlush
    <2> QED
        BY <1>2, <1>3, <1>7, <1>9, <1>10, <1>11, <2>1, <2>2, <2>3 DEF PathInv
  <1>12. CASE ~(isBranch(i) /\ taken)
    <2>1. fReg' = IF hazard THEN [fetched EXCEPT !.stall = 2] ELSE fetched
        BY <1>2, <1>8, <1>12 DEF fRegNew
    <2>2. ~fReg'.bubble /\ fReg'.pc = pc /\ fReg'.inst = Word(pc)
        BY <2>1, ProgFacts DEF fetched, Word
    <2>3. ~dReg'.predictedBranch
        BY <1>7, <1>12
    <2>4. pc' = pc + 1
        BY <1>1, <2>3, NoFlush
    <2>5. ASSUME isBranch(i)
          PROVE  anotherPC' = fReg.pc + i.imm /\ FALSE \in Predictions(prog)
      <3>1. DecodesBranch /\ ~taken
          BY <1>12, <2>5 DEF DecodesBranch
      <3>2. taken = FALSE
          BY <3>1
      <3> QED
          BY <1>1, <3>1, <3>2 DEF Predicted, decodedTarget
    <2>6. Word(fReg.pc)' = Word(pc)
        BY <1>2, <2>2 DEF Word
    <2> QED
        BY <1>2, <1>3, <1>7, <1>9, <1>10, <2>2, <2>3, <2>4, <2>5, <2>6 DEF PathInv
  <1> QED
      BY <1>7, <1>9, <1>11, <1>12

\* The path goes on after what executes, and stays where nothing does.
LEMMA PathStep ==
    ASSUME Orderly, Typed, PathInv, singleStep
    PROVE  /\ PathInv'
           /\ terminate' <=> (Executing /\ dReg.inst.op = "EXIT")
           /\ ~terminate' => NextToExecute' = IF Executing THEN After ELSE NextToExecute
  <1>1. terminate' <=> (Executing /\ dReg.inst.op = "EXIT")
      BY DEF singleStep
  <1>2. CASE dReg.stall > 0
      BY <1>1, <1>2, StallStep DEF Executing
  <1>3. CASE Flush
      BY <1>1, <1>3, FlushStep DEF Flush, Mispredicts, Jumps
  <1>4. CASE dReg.stall = 0 /\ ~Flush /\ ~dReg.bubble
    <2> DEFINE i == dReg.inst
    <2>1. Executing /\ dReg.pc \in Value /\ i = prog[dReg.pc] /\ Closed(prog)
          /\ i \in Instruction
        BY <1>4, ProgFacts DEF Executing, PathInv, Orderly, Typed
    <2>2. isBranch(i) => dReg.predictedBranch = Taken(i, dReg.op1, dReg.op2)
        BY <1>4, <2>1 DEF Flush, Mispredicts
    <2>3. ~isJump(i)
        BY <1>4, <2>1 DEF Flush, Jumps
    <2>4. CASE dReg.predictedBranch
      <3>1. isBranch(i) /\ fReg.bubble /\ pc = dReg.pc + i.imm
          BY <1>4, <2>4 DEF PathInv
      <3>2. After = pc
          BY <2>2, <2>3, <2>4, <3>1 DEF After, Target, isJump
      <3>3. pc \in Value
          BY <2>1, <3>1 DEF Closed
      <3>4. ~Decoding /\ ~ResultInMemory(i)
          BY <3>1 DEF Decoding, ResultInMemory, isReadMem, isBranch
      <3> QED
          BY <1>1, <1>4, <2>1, <3>2, <3>3, <3>4, NothingDecoded
    <2>5. CASE ~dReg.predictedBranch
      <3>1. ~Taken(i, dReg.op1, dReg.op2)
        <4>1. CASE isBranch(i)
            BY <2>2, <2>5, <4>1
        <4>2. CASE ~isBranch(i)
            BY <2>3, <4>2 DEF Taken, isBranch
        <4> QED
            BY <4>1, <4>2
      <3>2. After = fReg.pc /\ ~fReg.bubble
          BY <1>4, <2>5, <3>1 DEF After, PathInv
      <3>3. CASE Decoding
          BY <1>1, <1>4, <2>1, <2>5, <3>2, <3>3, SomethingDecoded
      <3>4. CASE ~Decoding
        <4>1. fReg.inst.op = "ZERO" /\ fReg.inst = Word(fReg.pc)
            BY <1>4, <3>2, <3>4, ProgFacts DEF Decoding, PathInv
        <4>2. fReg.pc \notin Value
            BY <4>1, ProgFacts DEF Word
        <4>3. i.op = "EXIT"
            BY <2>1, <2>3, <3>2, <4>2, <1>4, <2>5 DEF Closed, isJump, PathInv
        <4> QED
            BY <1>1, <1>4, <2>1, <3>4, <4>3, NothingDecoded
               DEF ResultInMemory, isReadMem
      <3> QED
          BY <3>3, <3>4
    <2> QED
        BY <2>4, <2>5
  <1>5. CASE dReg.stall = 0 /\ ~Flush /\ dReg.bubble
    <2>1. ~Executing /\ ~terminate
        BY <1>5 DEF Executing, singleStep
    <2>2. CASE Decoding
      <3>1. NextToExecute = fReg.pc
          BY <1>5, <2>1, <2>2 DEF NextToExecute, Decoding
      <3> QED
          BY <1>1, <1>5, <2>1, <2>2, <3>1, SomethingDecoded
    <2>3. CASE ~Decoding
      <3>1. fReg.bubble
        <4>1. SUFFICES ASSUME ~fReg.bubble PROVE FALSE
            OBVIOUS
        <4>2. fReg.pc \in Value /\ fReg.inst = prog[fReg.pc]
            BY <1>5, <2>1, <4>1 DEF NextToExecute, PathInv, Word
        <4> QED
            BY <1>5, <2>3, <4>1, <4>2, ProgFacts DEF Decoding
      <3>2. NextToExecute = pc /\ pc \in Value
          BY <1>5, <2>1, <3>1 DEF NextToExecute, PathInv
      <3> QED
          BY <1>1, <1>5, <2>1, <2>3, <3>2, NothingDecoded
    <2> QED
        BY <2>2, <2>3
  <1> QED
      BY <1>2, <1>3, <1>4, <1>5, ProgFacts
-----------------------------------------------------------------------------
(* Registers and memory as the program sees them.                          *)

\* The operands of an instruction that is no longer being decoded are those
\* of the registers, but for what the memory stage still forwards.
Operand(r, op, imm) ==
    \/ op = IF r # NoReg THEN CommittedReg[r] ELSE imm
    \/ dReg.stall = 2 /\ Produces(eReg, r)
OperandInv ==
    ~dReg.bubble =>
        /\ Operand(dReg.inst.rs1, dReg.op1, dReg.inst.imm)
        /\ Operand(dReg.inst.rs2, dReg.op2, dReg.inst.imm)
        /\ dReg.inst.op = "PRINTS" => ~Stores

LEMMA CommittedType ==
    Typed => CommittedReg \in [Reg -> Value]
  BY MemoryOutType DEF Typed, TypeOK, CommittedReg

LEMMA CommittedTypeNext ==
    Typed /\ singleStep => CommittedReg' \in [Reg -> Value]
  <1>1. Typed /\ singleStep => Typed'
      BY StepTyped
  <1>2. Typed' => CommittedReg' \in [Reg -> Value]
    <2>1. Typed' => memoryOut' \in Value
        BY ValueType DEF Typed, TypeOK, memoryOut, Conditional, Stores
    <2> QED
        BY <2>1 DEF Typed, TypeOK, CommittedReg
  <1> QED
      BY <1>1, <1>2

LEMMA ExecutedProduces ==
    ASSUME Typed, NEW r
    PROVE  /\ Produces(executed, r) <=> Executing /\ Produces(dReg, r)
           /\ Produces(accessed, r) <=> Produces(eReg, r)
           /\ Produces(eReg, r) => accessed.out = memoryOut
  <1>1. eReg.bubble <=> eReg.inst = ZeroInst
      BY DEF Typed, Latches
  <1>2. ~Executing => ~Produces(executed, r)
      BY DEF executed, NoExecute, ZeroInst, Produces, writesReg
  <1>3. Executing => (Produces(executed, r) <=> Produces(dReg, r))
      BY DEF executed, Produces
  <1>4. eReg.bubble => ~Produces(eReg, r) /\ ~Produces(accessed, r)
      BY <1>1 DEF accessed, NoMemory, ZeroInst, Produces, writesReg
  <1>5. ~eReg.bubble => /\ Produces(accessed, r) <=> Produces(eReg, r)
                        /\ accessed.out = memoryOut
      BY DEF accessed, Produces
  <1> QED
      BY <1>2, <1>3, <1>4, <1>5

LEMMA CommitStep ==
    ASSUME Typed, singleStep
    PROVE  /\ \A r : Produces(eReg, r)' <=> Executing /\ Produces(dReg, r)
           /\ \A r \in Reg : CommittedReg'[r] =
                IF Executing /\ Produces(dReg, r) THEN memoryOut'
                ELSE CommittedReg[r]
           /\ mem' = MemAfter /\ reservation' = Reserved /\ eReg' = executed
  <1>1. eReg' = executed /\ mReg' = accessed /\ reg' = RegAfter
        /\ mem' = MemAfter /\ reservation' = Reserved
      BY DEF singleStep
  <1>2. \A r : Produces(eReg, r)' <=> Executing /\ Produces(dReg, r)
      BY <1>1, ExecutedProduces DEF Produces
  <1>3. ASSUME NEW r \in Reg
        PROVE  CommittedReg'[r] = IF Executing /\ Produces(dReg, r)
                                  THEN memoryOut' ELSE CommittedReg[r]
    <2>1. CommittedReg'[r] = IF Produces(eReg, r)' THEN memoryOut'
                             ELSE IF Produces(accessed, r) THEN accessed.out
                             ELSE RegAfter[r]
        BY <1>1 DEF CommittedReg, Produces
    <2>2. RegAfter[r] = IF Produces(mReg, r) THEN mReg.out ELSE reg[r]
        BY DEF RegAfter, Produces, Typed, TypeOK
    <2>3. CommittedReg[r] = IF Produces(eReg, r) THEN memoryOut
                            ELSE IF Produces(mReg, r) THEN mReg.out ELSE reg[r]
        BY DEF CommittedReg
    <2> QED
        BY <1>2, <2>1, <2>2, <2>3, ExecutedProduces
  <1> QED
      BY <1>1, <1>2, <1>3

\* Forwarding gives the register as it will be, unless the memory stage has
\* still to produce it.
LEMMA ForwardIsCommitted ==
    ASSUME Typed, singleStep, NEW r \in Reg,
           ~(Executing /\ ResultInMemory(dReg.inst) /\ Produces(dReg, r))
    PROVE  Forward(r, reg[r]) = CommittedReg'[r]
  <1>1. CASE Executing /\ Produces(dReg, r)
    <2>1. ~ResultInMemory(dReg.inst) /\ executed.inst = dReg.inst
        BY <1>1 DEF executed
    <2>2. memoryOut' = executed.out
        BY <2>1, CommitStep DEF memoryOut, Conditional, ResultInMemory
    <2> QED
        BY <1>1, <2>1, <2>2, CommitStep DEF Forward
  <1>2. CASE ~(Executing /\ Produces(dReg, r))
      BY <1>2, CommitStep DEF Forward, CommittedReg
  <1> QED
      BY <1>1, <1>2

\* What is decoded gets its operands: of one register and the immediate.
LEMMA DecodedOperand ==
    ASSUME Typed, singleStep, NEW r \in Reg \cup {NoReg}, NEW imm,
           NEW op, op = Forward(r, IF r # NoReg THEN reg[r] ELSE imm)
    PROVE  \/ op = IF r # NoReg THEN CommittedReg'[r] ELSE imm
           \/ Executing /\ ResultInMemory(dReg.inst) /\ Produces(dReg, r)
  <1>1. CASE r = NoReg
      BY <1>1, ForwardType, RegAssumption DEF NoReg
  <1>2. CASE r # NoReg
      BY <1>2, ForwardIsCommitted
  <1> QED
      BY <1>1, <1>2

LEMMA OperandsDecoded ==
    ASSUME Orderly, Typed, PathInv, singleStep, dReg.stall = 0, ~Flush, Decoding,
           ~dReg.bubble => ~dReg.predictedBranch
    PROVE  OperandInv'
  <1>1. PICK taken \in BOOLEAN : Predicted(taken)
      BY SomethingPredicted
  <1> DEFINE w == WithForwarding(decoded(taken))
             hazard == MemoryHazard(decoded(taken))
             i == fReg.inst
  <1>2. fReg.stall = 0 /\ dReg' = dRegNew(taken)
      BY <1>1, NoFlush
  <1>3. ~fReg.bubble /\ fReg.pc \in Value /\ i = prog[fReg.pc] /\ i \in Instruction
      BY ProgFacts DEF Decoding, PathInv, Word, ZeroInst
  <1>4. /\ w \in LatchedD /\ w.inst = i
        /\ w.op1 = Forward(i.rs1, Op1(reg, i))
        /\ w.op2 = Forward(i.rs2, Op2(reg, i))
      BY <1>2, DecodedType DEF decoded, WithForwarding
  <1>5. hazard <=> MemoryHazard(w)
      BY <1>4 DEF MemoryHazard, decoded
  <1>6. dReg' = IF hazard THEN [w EXCEPT !.stall = 2] ELSE w
      BY <1>2, <1>5 DEF dRegNew
  <1>7. /\ dReg'.inst = i /\ dReg'.op1 = w.op1 /\ dReg'.op2 = w.op2
        /\ hazard => dReg'.stall = 2
    <2> HIDE DEF w, hazard
    <2> QED
        BY <1>4, <1>6 DEF LatchedD
  <1>8. i.rs1 \in Reg \cup {NoReg} /\ i.rs2 \in Reg \cup {NoReg}
      BY <1>3, InstructionFields
  <1>9. \A r \in {i.rs1, i.rs2} :
            Executing /\ ResultInMemory(dReg.inst) /\ Produces(dReg, r)
                => dReg'.stall = 2 /\ Produces(eReg, r)'
    <2> SUFFICES ASSUME NEW r \in {i.rs1, i.rs2},
                        Executing, ResultInMemory(dReg.inst), Produces(dReg, r)
                 PROVE  dReg'.stall = 2 /\ Produces(eReg, r)'
        OBVIOUS
    <2>1. hazard
        BY DEF MemoryHazard, decoded, Produces
    <2> QED
        BY <1>7, <2>1, CommitStep
  <1>10. Operand(dReg.inst.rs1, dReg.op1, dReg.inst.imm)'
    <2>1. dReg'.op1 = Forward(i.rs1, IF i.rs1 # NoReg THEN reg[i.rs1] ELSE i.imm)
        BY <1>4, <1>7 DEF Op1
    <2>2. \/ dReg'.op1 = IF i.rs1 # NoReg THEN CommittedReg'[i.rs1] ELSE i.imm
          \/ Executing /\ ResultInMemory(dReg.inst) /\ Produces(dReg, i.rs1)
        BY <1>8, <2>1, DecodedOperand
    <2> QED
        BY <1>7, <1>9, <2>2 DEF Operand
  <1>11. Operand(dReg.inst.rs2, dReg.op2, dReg.inst.imm)'
    <2>1. dReg'.op2 = Forward(i.rs2, IF i.rs2 # NoReg THEN reg[i.rs2] ELSE i.imm)
        BY <1>4, <1>7 DEF Op2
    <2>2. \/ dReg'.op2 = IF i.rs2 # NoReg THEN CommittedReg'[i.rs2] ELSE i.imm
          \/ Executing /\ ResultInMemory(dReg.inst) /\ Produces(dReg, i.rs2)
        BY <1>8, <2>1, DecodedOperand
    <2> QED
        BY <1>7, <1>9, <2>2 DEF Operand
  <1>12. ASSUME i.op = "PRINTS" PROVE ~Stores'
    <2>1. eReg' = executed
        BY CommitStep
    <2>2. CASE Executing
      <3>1. dReg.pc \in Value /\ dReg.inst = prog[dReg.pc] /\ fReg.pc = dReg.pc + 1
          BY <2>2 DEF Executing, PathInv
      <3>2. Settled(prog)
          BY DEF Orderly, Typed
      <3>3. dReg.inst.op \notin {"STORE", "SC"}
          BY <1>3, <1>12, <3>1, <3>2 DEF Settled
      <3>4. eReg'.inst = dReg.inst
          BY <2>1, <2>2 DEF executed
      <3> QED
          BY <3>3, <3>4 DEF Stores, Conditional
    <2>3. CASE ~Executing
      <3>1. eReg'.inst.op = "ZERO"
          BY <2>1, <2>3 DEF executed, NoExecute, ZeroInst
      <3> QED
          BY <3>1 DEF Stores, Conditional
    <2> QED
        BY <2>2, <2>3
  <1> QED
      BY <1>7, <1>10, <1>11, <1>12 DEF OperandInv

LEMMA OperandsStalled ==
    ASSUME Typed, OperandInv, singleStep, dReg.stall > 0
    PROVE  OperandInv'
  <1>1. PICK taken \in BOOLEAN : Predicted(taken)
      BY SomethingPredicted
  <1> DEFINE Fed(r, op) == IF Produces(eReg, r) THEN memoryOut ELSE op
  <1>2. dReg' = CountDown(ForwardStalled(dReg)) /\ ~Executing
      BY <1>1 DEF Predicted, Executing
  <1>3. /\ dReg'.bubble = dReg.bubble /\ dReg'.inst = dReg.inst
        /\ dReg'.op1 = Fed(dReg.inst.rs1, dReg.op1)
        /\ dReg'.op2 = Fed(dReg.inst.rs2, dReg.op2)
    <2> HIDE DEF Fed
    <2>1. ForwardStalled(dReg) = [dReg EXCEPT !.op1 = Fed(dReg.inst.rs1, dReg.op1),
                                              !.op2 = Fed(dReg.inst.rs2, dReg.op2)]
        BY DEF ForwardStalled, Fed
    <2> QED
        BY <1>2, <2>1 DEF CountDown, Typed, TypeOK
  <1>4. \A r \in Reg : CommittedReg'[r] = CommittedReg[r]
      BY <1>2, CommitStep
  <1>5. dReg.inst.rs1 \in Reg \cup {NoReg} /\ dReg.inst.rs2 \in Reg \cup {NoReg}
      BY LatchedFields, ProgFacts
  <1>6. \A r \in Reg : Produces(eReg, r) => CommittedReg[r] = memoryOut
      BY DEF CommittedReg
  <1>7. ~Produces(eReg, NoReg)
      BY ProducesForRegisters, RegAssumption DEF NoReg
  <1>8. ASSUME NEW r \in Reg \cup {NoReg}, NEW op, NEW imm, Operand(r, op, imm)
        PROVE  Fed(r, op) = IF r # NoReg THEN CommittedReg'[r] ELSE imm
      BY <1>4, <1>6, <1>7, <1>8 DEF Operand
  <1>9. ~Stores'
    <2>1. eReg'.inst.op = "ZERO"
        BY <1>2, CommitStep DEF executed, NoExecute, ZeroInst
    <2> QED
        BY <2>1 DEF Stores, Conditional
  <1>10. CASE dReg.bubble
      BY <1>3, <1>10 DEF OperandInv
  <1>11. CASE ~dReg.bubble
    <2>1. dReg'.op1 = IF dReg.inst.rs1 # NoReg THEN CommittedReg'[dReg.inst.rs1]
                      ELSE dReg.inst.imm
      <3> HIDE DEF Fed
      <3> QED
          BY <1>3, <1>5, <1>8, <1>11 DEF OperandInv
    <2>2. dReg'.op2 = IF dReg.inst.rs2 # NoReg THEN CommittedReg'[dReg.inst.rs2]
                      ELSE dReg.inst.imm
      <3> HIDE DEF Fed
      <3> QED
          BY <1>3, <1>5, <1>8, <1>11 DEF OperandInv
    <2> QED
        BY <1>3, <1>9, <2>1, <2>2 DEF OperandInv, Operand
  <1> QED
      BY <1>10, <1>11

LEMMA OperandStep ==
    ASSUME Orderly, Typed, PathInv, OperandInv, singleStep
    PROVE  OperandInv'
  <1>1. PICK taken \in BOOLEAN : Predicted(taken)
      BY SomethingPredicted
  <1>2. CASE dReg.stall > 0
      BY <1>2, OperandsStalled
  <1>3. CASE dReg.stall = 0 /\ (Flush \/ ~Decoding)
    <2>1. dReg'.bubble
      <3>1. fReg.stall = 0 /\ dReg' = dRegNew(taken)
          BY <1>1, <1>3, ProgFacts DEF Predicted
      <3>2. CASE Flush
          BY <3>1, <3>2 DEF dRegNew, NoDecode
      <3>3. CASE ~Flush /\ ~Decoding
        <4>1. WithForwarding(decoded(taken)) = NoDecode
            BY <3>1, <3>3, DecodedType
        <4> QED
            BY <3>1, <3>3, <4>1 DEF dRegNew, NoDecode
      <3> QED
          BY <1>3, <3>2, <3>3
    <2> QED
        BY <2>1 DEF OperandInv
  <1>4. CASE dReg.stall = 0 /\ ~Flush /\ Decoding
    <2>1. ~dReg.bubble => ~dReg.predictedBranch
        BY <1>4 DEF PathInv, Decoding
    <2> QED
        BY <1>4, <2>1, OperandsDecoded
  <1> QED
      BY <1>2, <1>3, <1>4, ProgFacts
-----------------------------------------------------------------------------
(* Each excecute is a step of the instruction set, and nothing else shows. *)

LEMMA SameInstructions ==
    ASSUME NEW i, NEW at, NEW op1, NEW op2, NEW in, NEW m
    PROVE  /\ ISA!Out(i, at, op1, op2, in) = Out(i, at, op1, op2, in)
           /\ ISA!Op1(m, i) = Op1(m, i) /\ ISA!Op2(m, i) = Op2(m, i)
           /\ ISA!Taken(i, op1, op2) = Taken(i, op1, op2)
           /\ ISA!Target(i, at, op1, op2) = Target(i, at, op1, op2)
           /\ ISA!writesReg(i) = writesReg(i) /\ ISA!isReadMem(i) = isReadMem(i)
           /\ ISA!Prints(i) = Prints(i)
           /\ ISA!Printed(i, op1, m) = Printed(i, op1, m)
  BY DEF ISA!Out, Out, ISA!Op1, Op1, ISA!Op2, Op2, ISA!Taken, Taken,
         ISA!Target, Target, ISA!writesReg, writesReg, ISA!isReadMem, isReadMem,
         ISA!Prints, Prints, ISA!Printed, Printed, ISA!String, String,
         ISA!isJump, isJump, ISA!NoReg, NoReg, ISA!SystemCall, SystemCall

\* Orderly is in the invariant as the steps need it.
Inv == Orderly /\ Typed /\ PathInv /\ OperandInv

LEMMA InitInv == Orderly /\ Init => Inv
  <1> SUFFICES ASSUME Orderly, Init PROVE Inv
      OBVIOUS
  <1>1. PathInv
      BY ValueType DEF Init, PathInv, NextToExecute, NoFetch, NoDecode
  <1>2. OperandInv
      BY DEF Init, OperandInv, NoDecode
  <1> QED
      BY <1>1, <1>2, InitTyped DEF Inv

LEMMA NextInv == Inv /\ [Next]_vars => Inv'
  <1> SUFFICES ASSUME Inv, [Next]_vars PROVE Inv'
      OBVIOUS
  <1>1. Typed'
      BY NextTyped DEF Inv
  <1>2. CASE singleStep
      BY <1>1, <1>2, PathStep, OperandStep DEF Inv
  <1>3. CASE panic \/ UNCHANGED vars
    <2>1. UNCHANGED <<prog, pc, predictedPC, anotherPC, fReg, dReg, eReg, mReg,
                      reg, mem, reservation, input, output, terminate>>
        BY <1>3 DEF panic, vars
    <2>2. PathInv'
        BY <2>1 DEF Inv, PathInv, NextToExecute, Word
    <2>3. CommittedReg' = CommittedReg /\ Stores' = Stores
        BY <2>1 DEF CommittedReg, memoryOut, Stores, Conditional
    <2>4. OperandInv'
        BY <2>1, <2>3 DEF Inv, OperandInv, Operand
    <2> QED
        BY <1>1, <2>2, <2>4 DEF Inv
  <1> QED
      BY <1>2, <1>3 DEF Next

\* The instruction in dReg executes on the registers and memory that the
\* instructions before it leave.
LEMMA OperandsAreRead ==
    ASSUME Inv, Executing, ~terminate
    PROVE  /\ NextToExecute = dReg.pc /\ dReg.pc \in Value
           /\ dReg.inst = prog[dReg.pc] /\ dReg.inst \in Instruction
           /\ dReg.inst.op # "UNKNOWN"
           /\ dReg.op1 = Op1(CommittedReg, dReg.inst)
           /\ dReg.op2 = Op2(CommittedReg, dReg.inst)
           /\ dReg.inst.op = "PRINTS" => MemAfter = mem
  <1>1. ~dReg.bubble /\ dReg.stall = 0
      BY DEF Executing
  <1>2. NextToExecute = dReg.pc
      BY <1>1 DEF NextToExecute
  <1>3. dReg.pc \in Value /\ dReg.inst = prog[dReg.pc] /\ dReg.inst.op # "UNKNOWN"
      BY <1>1 DEF Inv, PathInv
  <1>4. dReg.inst \in Instruction
      BY <1>3, ProgFacts DEF Inv
  <1>5. dReg.op1 = Op1(CommittedReg, dReg.inst) /\ dReg.op2 = Op2(CommittedReg, dReg.inst)
      BY <1>1 DEF Inv, OperandInv, Operand, Op1, Op2
  <1>6. dReg.inst.op = "PRINTS" => MemAfter = mem
      BY <1>1 DEF Inv, OperandInv, MemAfter
  <1> QED
      BY <1>2, <1>3, <1>4, <1>5, <1>6

LEMMA ExecutingIsAStep ==
    ASSUME Inv, singleStep, Executing
    PROVE  ISA!Step
  <1> DEFINE i == dReg.inst
             out == executed.out
             stores == i.op = "STORE" \/ (i.op = "SC" /\ out \in Reserved)
             result == CASE isReadMem(i) -> MemAfter[out]
                         [] i.op = "SC" -> IF stores THEN 0 ELSE 1
                         [] OTHER -> out
  <1>1. ~terminate /\ prog' = prog /\ Typed /\ PathInv /\ Orderly
      BY DEF singleStep, Inv
  <1>2. /\ NextToExecute = dReg.pc /\ dReg.pc \in DOMAIN prog
        /\ i = prog[dReg.pc] /\ i.op # "UNKNOWN" /\ i \in Instruction
        /\ dReg.op1 = Op1(CommittedReg, i) /\ dReg.op2 = Op2(CommittedReg, i)
        /\ i.op = "PRINTS" => MemAfter = mem
      BY <1>1, OperandsAreRead, ProgFacts
  <1>3. /\ out = Out(i, dReg.pc, dReg.op1, dReg.op2, input)
        /\ eReg' = executed /\ executed.inst = i /\ executed.op2 = dReg.op2
        /\ mem' = MemAfter /\ reservation' = Reserved
      BY CommitStep, <1>1 DEF executed
  <1>4. NextToExecute' = CASE i.op = "EXIT" -> -1
                           [] Taken(i, dReg.op1, dReg.op2) ->
                                Target(i, dReg.pc, dReg.op1, dReg.op2)
                           [] OTHER -> dReg.pc + 1
    <2>1. CASE i.op = "EXIT"
      <3>1. terminate'
          BY <1>1, <2>1, PathStep
      <3>2. ~Taken(i, dReg.op1, dReg.op2)
          BY <2>1 DEF Taken, isJump
      <3> QED
          BY <2>1, <3>1, <3>2 DEF NextToExecute
    <2>2. CASE i.op # "EXIT"
      <3>1. NextToExecute' = After
          BY <1>1, <2>2, PathStep
      <3> QED
          BY <2>2, <3>1 DEF After
    <2> QED
        BY <2>1, <2>2
  <1>5. Stores' <=> stores
      BY <1>3 DEF Stores, Conditional
  <1>6. memoryOut' = result
      BY <1>3, <1>5 DEF memoryOut, Conditional
  <1>7. CommittedReg' = IF writesReg(i) THEN [CommittedReg EXCEPT ![i.rd] = result]
                        ELSE CommittedReg
    <2>1. CommittedReg \in [Reg -> Value] /\ CommittedReg' \in [Reg -> Value]
        BY <1>1, StepTyped, CommittedType, CommittedTypeNext
    <2>2. \A r \in Reg : CommittedReg'[r] =
              IF writesReg(i) /\ i.rd = r THEN result ELSE CommittedReg[r]
        BY <1>1, <1>6, CommitStep DEF Produces
    <2> HIDE DEF result
    <2> QED
        BY <2>1, <2>2
  <1>8. MemAfter' = IF stores THEN [MemAfter EXCEPT ![out] = dReg.op2] ELSE MemAfter
      BY <1>3, <1>5 DEF MemAfter
  <1>9. Reserved' = CASE i.op = "LR" -> Reserved \cup {out}
                      [] i.op = "SC" -> {}
                      [] OTHER -> Reserved
      BY <1>3 DEF Reserved, Conditional
  <1>10. input' \in IF i.op = "READ" THEN Value ELSE {input}
      BY MachineAssumption DEF singleStep
  <1>11. output' = IF Prints(i) THEN Printed(i, dReg.op1, MemAfter) ELSE output
    <2>1. output' = IF Prints(i) THEN Printed(i, dReg.op1, mem) ELSE output
        BY DEF singleStep
    <2> QED
        BY <1>2, <2>1 DEF Printed, Prints
  <1>12. /\ ISA!Op1(CommittedReg, i) = dReg.op1 /\ ISA!Op2(CommittedReg, i) = dReg.op2
         /\ ISA!Out(i, dReg.pc, dReg.op1, dReg.op2, input) = out
         /\ ISA!Taken(i, dReg.op1, dReg.op2) = Taken(i, dReg.op1, dReg.op2)
         /\ ISA!Target(i, dReg.pc, dReg.op1, dReg.op2)
              = Target(i, dReg.pc, dReg.op1, dReg.op2)
         /\ ISA!writesReg(i) = writesReg(i) /\ ISA!isReadMem(i) = isReadMem(i)
         /\ ISA!Prints(i) = Prints(i)
         /\ ISA!Printed(i, dReg.op1, MemAfter) = Printed(i, dReg.op1, MemAfter)
      BY <1>2, <1>3, SameInstructions
  <1>13. ISA!Value = Value /\ ISA!Exited = -1
      BY DEF ISA!Value, Value, ISA!Exited
  <1> HIDE DEF out
  <1> QED
      BY <1>1, <1>2, <1>4, <1>7, <1>8, <1>9, <1>10, <1>11, <1>12, <1>13 DEF ISA!Step

LEMMA OtherStepsShowNothing ==
    ASSUME Inv, [Next]_vars, ~(singleStep /\ Executing)
    PROVE  UNCHANGED ISA!vars
  <1>1. CASE singleStep
    <2>1. Typed /\ PathInv /\ Orderly /\ ~Executing /\ ~terminate
        BY <1>1 DEF Inv, singleStep
    <2>2. NextToExecute' = NextToExecute
        BY <1>1, <2>1, PathStep
    <2>3. eReg' = NoExecute /\ mem' = MemAfter /\ reservation' = Reserved
        BY <1>1, <2>1, CommitStep DEF executed
    <2>4. CommittedReg' = CommittedReg
      <3>1. CommittedReg \in [Reg -> Value] /\ CommittedReg' \in [Reg -> Value]
          BY <1>1, <2>1, CommittedType, CommittedTypeNext
      <3>2. \A r \in Reg : CommittedReg'[r] = CommittedReg[r]
          BY <1>1, <2>1, CommitStep
      <3> QED
          BY <3>1, <3>2
    <2>5. MemAfter' = MemAfter /\ Reserved' = Reserved
        BY <2>3 DEF MemAfter, Reserved, Stores, Conditional, NoExecute, ZeroInst
    <2>6. prog' = prog /\ input' = input /\ output' = output
        BY <1>1, <2>1 DEF singleStep
    <2> QED
        BY <2>2, <2>4, <2>5, <2>6 DEF ISA!vars
  <1>2. CASE panic \/ UNCHANGED vars
    <2>1. UNCHANGED <<prog, pc, predictedPC, anotherPC, fReg, dReg, eReg, mReg,
                      reg, mem, reservation, input, output, terminate>>
        BY <1>2 DEF panic, vars
    <2> QED
        BY <2>1 DEF ISA!vars, NextToExecute, CommittedReg, memoryOut, MemAfter,
                    Reserved, Stores, Conditional
  <1> QED
      BY <1>1, <1>2 DEF Next

LEMMA InitIsInit == Init => ISA!Init
  <1> SUFFICES ASSUME Init PROVE ISA!Init
      OBVIOUS
  <1>1. prog \in [Value -> Instruction]
      BY ProgramAssumption DEF Init
  <1>2. NextToExecute = 0
      BY DEF Init, NextToExecute, NoFetch, NoDecode
  <1>3. CommittedReg \in [Reg -> Value]
      BY InitTyped, CommittedType
  <1>4. MemAfter = mem /\ Reserved = reservation
      BY DEF Init, MemAfter, Reserved, Stores, Conditional, NoExecute, ZeroInst
  <1>5. mem \in [Value -> Value] /\ reservation = {} /\ input \in Value /\ output = <<>>
      BY MachineAssumption DEF Init
  <1>6. ISA!Instruction = Instruction /\ ISA!Value = Value
      BY DEF ISA!Instruction, Instruction, ISA!Value, Value, ISA!Op, Op,
             ISA!NoReg, NoReg, ISA!ReadsNone, ReadsNone, ISA!ReadsOne, ReadsOne,
             ISA!ReadsTwo, ReadsTwo, ISA!SystemCall, SystemCall
  <1> QED
      BY <1>1, <1>2, <1>3, <1>4, <1>5, <1>6 DEF ISA!Init

\* The pipeline implements the instruction set: whatever is in flight,
\* forwarded, stalled or predicted, what the program sees is one instruction
\* after another, for all orderly programs and whatever the predictor answers.
THEOREM ImplementsIsa == Orderly /\ Spec => ExecutesProgram
  <1>1. Inv /\ [Next]_vars => [ISA!Step]_ISA!vars
      BY ExecutingIsAStep, OtherStepsShowNothing
  <1> QED
      BY InitInv, NextInv, InitIsInit, <1>1, PTL DEF Spec, ExecutesProgram, ISA!Spec

\* What the strategy NT breaks where branches are adjacent holds for orderly
\* programs: a mispredicted branch goes on where it should have gone in the
\* first place.
THEOREM MispredictionsAreUndone == Orderly /\ Spec => GoesToAnother
  <1> DEFINE Undone == Mispredicts /\ ~panicked' =>
                pc' = IF dReg.predictedBranch THEN dReg.pc + 1
                      ELSE dReg.pc + dReg.inst.imm
  <1>1. ASSUME Inv, [Next]_vars
        PROVE  [Undone]_vars
    <2> SUFFICES ASSUME Mispredicts, ~panicked', ~UNCHANGED vars
                 PROVE  pc' = IF dReg.predictedBranch THEN dReg.pc + 1
                              ELSE dReg.pc + dReg.inst.imm
        OBVIOUS
    <2>1. singleStep
        BY <1>1 DEF Next, panic
    <2>2. pc' = After
        BY <1>1, <2>1, FlushStep DEF Flush, Inv
    <2>3. isBranch(dReg.inst)
          /\ dReg.predictedBranch # Taken(dReg.inst, dReg.op1, dReg.op2)
        BY DEF Mispredicts
    <2>4. Taken(dReg.inst, dReg.op1, dReg.op2) \in BOOLEAN
          /\ dReg.predictedBranch \in BOOLEAN
        BY <1>1, <2>3, TakenIsBoolean DEF Inv, Typed, TypeOK
    <2>5. Target(dReg.inst, dReg.pc, dReg.op1, dReg.op2) = dReg.pc + dReg.inst.imm
        BY <2>3 DEF Target, isBranch
    <2> QED
        BY <2>2, <2>3, <2>4, <2>5 DEF After
  <1>2. Inv /\ [Next]_vars => [Undone]_vars
      BY <1>1
  <1> QED
      BY InitInv, NextInv, <1>2, PTL DEF Spec, GoesToAnother
-----------------------------------------------------------------------------
\* A cycle that does not execute decodes, fetches or counts a stall down.
LEMMA IdleStep ==
    ASSUME Inv, singleStep, ~Executing
    PROVE  Idle' < Idle
  <1>1. Typed /\ PathInv /\ Orderly /\ ~terminate /\ ~Flush
      BY DEF Inv, singleStep, Flush, Mispredicts, Jumps
  <1>2. PICK taken \in BOOLEAN : Predicted(taken)
      BY <1>1, SomethingPredicted
  <1>3. CASE dReg.stall > 0
    <2>1. dReg.stall \in 0 .. 2 /\ fReg.stall = dReg.stall /\ Idle = dReg.stall
        BY <1>1, <1>3, ProgFacts DEF Idle
    <2>2. dReg' = CountDown(ForwardStalled(dReg))
        BY <1>2, <1>3 DEF Predicted
    <2>3. dReg'.stall = dReg.stall - 1 /\ dReg'.bubble = dReg.bubble /\ ~dReg.bubble
        BY <1>1, <1>3, <2>2, StalledTyped DEF PathInv
    <2>4. Idle' = dReg'.stall
      <3>1. CASE dReg'.stall = 0
          BY <2>3, <3>1 DEF Idle, Executing
      <3>2. CASE dReg'.stall # 0
          BY <2>1, <2>3, <3>2 DEF Idle, Executing
      <3> QED
          BY <3>1, <3>2
    <2> QED
        BY <2>1, <2>3, <2>4
  <1>4. CASE ~(dReg.stall > 0)
    <2>1. dReg.stall = 0 /\ fReg.stall = 0 /\ dReg.bubble
        BY <1>1, <1>4, ProgFacts DEF Executing
    <2>2. CASE Decoding
      <3>1. ~dReg'.bubble
          BY <1>1, <2>1, <2>2, SomethingDecoded
      <3>2. dReg' = dRegNew(taken) /\ ~MemoryHazard(decoded(taken))
          BY <1>2, <2>1 DEF Predicted, MemoryHazard
      <3>3. dReg'.stall = 0
          BY <1>1, <2>1, <3>2, DecodeTyped
      <3>4. Idle = 1
          BY <2>1, <2>2 DEF Idle, Decoding
      <3>5. Idle' = 0
          BY <3>1, <3>3 DEF Idle, Executing
      <3> QED
          BY <3>4, <3>5
    <2>3. CASE ~Decoding
      <3>1. fReg.bubble
        <4>1. SUFFICES ASSUME ~fReg.bubble PROVE FALSE
            OBVIOUS
        <4>2. fReg.pc \in Value /\ fReg.inst = prog[fReg.pc]
            BY <1>1, <2>1, <4>1 DEF NextToExecute, PathInv, Word
        <4> QED
            BY <1>1, <2>1, <2>3, <4>1, <4>2, ProgFacts DEF Decoding
      <3>2. dReg' = NoDecode /\ fReg' = fetched
          BY <1>1, <2>1, <2>3, NothingDecoded
      <3>3. Idle = 2
          BY <2>1, <3>1 DEF Idle
      <3>4. Idle' = 1
          BY <3>2 DEF Idle, Executing, NoDecode, fetched
      <3> QED
          BY <3>3, <3>4
    <2> QED
        BY <2>2, <2>3
  <1> QED
      BY <1>3, <1>4

\* In an orderly program an instruction executes at least in every third
\* cycle, whatever the predictor answers: the measure behind KeepsExecuting.
THEOREM IdlesBriefly == Orderly /\ Spec => StallsAreShort
  <1>1. ASSUME Inv, [Next]_vars
        PROVE  [~Executing /\ ~panicked' => Idle' < Idle]_vars
      BY <1>1, IdleStep DEF Next, panic
  <1>2. Inv /\ [Next]_vars => [~Executing /\ ~panicked' => Idle' < Idle]_vars
      BY <1>1
  <1> QED
      BY InitInv, NextInv, <1>2, PTL DEF Spec, StallsAreShort
=============================================================================
