--------------------------- MODULE BranchPredictor ---------------------------
(***************************************************************************)
(* The five strategies of the branch predictor, called as the pipeline     *)
(* calls them: decode predicts a branch, and one cycle later excecute      *)
(* trains the two-bit buffer and the perceptrons with its outcome, after   *)
(* decode has predicted the branch right behind it, if there is one and it *)
(* was fetched.  A program is the loop of branches it executes; cycles in  *)
(* which no branch is decoded or executed are left out.                    *)
(* A definition named Bad... is a mutant of the one after it.              *)
(***************************************************************************)
EXTENDS Integers, Sequences

CONSTANTS
    PC,                 \* addresses of branches
    NoPC,               \* no branch
    Backward,           \* the branches with a negative offset
    Programs,           \* sequences of Branch
    PRED_BUF_SIZE,
    perceptronnumber,
    historylength,
    HistoryKept,        \* history bits the mask 1 << historylength leaves
    threshold,
    WeightMod           \* a weight has WeightMod values (2^32)

\* A branch as it is executed; `behind` is the pc of the instruction after
\* it if that is a branch too.
Branch == [pc : PC, taken : BOOLEAN, behind : PC \cup {NoPC}]

ASSUME PCAssumption == PC \subseteq Nat /\ NoPC \notin PC /\ Backward \subseteq PC
\* What lies behind a branch that is not taken is what comes next.
Closed(p) == \A i \in DOMAIN p :
    ~p[i].taken /\ p[i].behind # NoPC => p[(i % Len(p)) + 1].pc = p[i].behind
ASSUME ProgramAssumption ==
    \A p \in Programs : p \in Seq(Branch) /\ p # <<>> /\ Closed(p)
ASSUME SizeAssumption ==
    /\ PRED_BUF_SIZE \in Nat \ {0} /\ perceptronnumber \in Nat \ {0}
    /\ historylength \in Nat /\ HistoryKept \in 0 .. historylength
    /\ threshold \in Nat /\ WeightMod \in Nat \ {0} /\ WeightMod % 2 = 0

VARIABLES
    strategy,
    program,            \* the loop that runs
    pos,                \* the branch of it that is decoded or next
    waiting,            \* the branch decode has left in dReg
    predbuf,
    perceptronTable,    \* perceptronTable[id][i]; 0 is the bias
    historyregister,    \* historyregister[i]: 1 or -1, the last outcome first
    yout                \* how sure the last perceptron prediction was
vars == <<strategy, program, pos, waiting, predbuf, perceptronTable,
          historyregister, yout>>

Strategy == {"AT", "NT", "BTFNT", "BPB", "PERCEPTRON"}
PredictorState == {"STRONG_TAKEN", "WEAK_TAKEN", "WEAK_NOT_TAKEN",
                   "STRONG_NOT_TAKEN"}
NoBranch == [pc |-> NoPC, predicted |-> FALSE]

Init ==
    /\ strategy \in Strategy
    /\ program \in Programs
    /\ pos = 1
    /\ waiting = NoBranch
    /\ predbuf = [i \in 0 .. PRED_BUF_SIZE - 1 |-> "WEAK_TAKEN"]
    /\ perceptronTable = [id \in 0 .. perceptronnumber - 1 |->
                            [i \in 0 .. historylength |-> 0]]
    /\ historyregister = [i \in 1 .. historylength |-> -1]
    /\ yout = 0
-----------------------------------------------------------------------------
Abs(n) == IF n < 0 THEN -n ELSE n

\* The perceptron's sum; a partial sum per history bit.
Output(pc) ==
    LET weights == perceptronTable[pc % perceptronnumber]
        sum[i \in 0 .. historylength] ==
            IF i = 0 THEN weights[0]
            ELSE sum[i - 1] + weights[i] * historyregister[i]
    IN  sum[historylength]

predict(pc) ==
    CASE strategy = "AT" -> TRUE
      [] strategy = "NT" -> FALSE
      [] strategy = "BTFNT" -> pc \in Backward
      [] strategy = "BPB" ->
            predbuf[pc % PRED_BUF_SIZE] \in {"STRONG_TAKEN", "WEAK_TAKEN"}
      [] strategy = "PERCEPTRON" -> Output(pc) >= 0

\* Forgets the sign of the sum.
BadYout(pc) == IF pc # NoPC /\ strategy = "PERCEPTRON" THEN Output(pc) ELSE yout
\* perceptronPredict leaves its sum behind, for whichever branch is trained
\* next; the other strategies leave yout alone.
Yout(pc) ==
    IF pc # NoPC /\ strategy = "PERCEPTRON" THEN Abs(Output(pc)) ELSE yout

\* A taken branch never becomes strongly predicted again.
Badupdate(state, taken) ==
    IF taken
    THEN CASE state = "STRONG_NOT_TAKEN" -> "WEAK_NOT_TAKEN"
           [] state = "WEAK_NOT_TAKEN" -> "WEAK_TAKEN"
           [] OTHER -> state
    ELSE CASE state = "STRONG_TAKEN" -> "WEAK_TAKEN"
           [] state = "WEAK_TAKEN" -> "WEAK_NOT_TAKEN"
           [] OTHER -> "STRONG_NOT_TAKEN"
update(state, taken) ==
    IF taken
    THEN CASE state = "STRONG_NOT_TAKEN" -> "WEAK_NOT_TAKEN"
           [] state = "WEAK_NOT_TAKEN" -> "WEAK_TAKEN"
           [] OTHER -> "STRONG_TAKEN"
    ELSE CASE state = "STRONG_TAKEN" -> "WEAK_TAKEN"
           [] state = "WEAK_TAKEN" -> "WEAK_NOT_TAKEN"
           [] OTHER -> "STRONG_NOT_TAKEN"

\* A weight is an int: the build wraps it.
Wrap(w) == ((w + WeightMod \div 2) % WeightMod) - WeightMod \div 2

BadTrained(weights, taken) ==
    LET t == IF taken THEN 1 ELSE -1
    IN  [i \in 0 .. historylength |->
            Wrap(weights[i] + (IF i = 0 THEN t ELSE historyregister[i]))]
Trained(weights, taken) ==
    LET t == IF taken THEN 1 ELSE -1
    IN  [i \in 0 .. historylength |->
            Wrap(weights[i] + (IF i = 0 THEN t ELSE t * historyregister[i]))]

\* perceptronUpdate trains on a miss and on a hit that was not sure enough,
\* as far as yout tells.
BadTrains(taken, predicted, sure) == TRUE
Trains(taken, predicted, sure) == predicted # taken \/ sure <= threshold

\* updatehistoryregister: shift, mask, and the new outcome below.
Shifted(taken) ==
    [i \in 1 .. historylength |->
        IF i = 1 THEN (IF taken THEN 1 ELSE -1)
        ELSE IF i <= HistoryKept THEN historyregister[i - 1] ELSE -1]
-----------------------------------------------------------------------------
Current == program[pos]

\* The branch decode finds: the next of the program, or while one waits the
\* one behind it, which was fetched unless the waiting one is predicted taken.
Decoded ==
    IF waiting = NoBranch THEN Current.pc
    ELSE IF waiting.predicted THEN NoPC ELSE Current.behind

Prediction(pc) == [pc |-> pc, predicted |-> predict(pc)]

\* No branch is in dReg: decode predicts one.
Decode ==
    /\ waiting = NoBranch
    /\ waiting' = Prediction(Decoded)
    /\ yout' = Yout(Decoded)
    /\ UNCHANGED <<strategy, program, pos, predbuf, perceptronTable,
                   historyregister>>

\* A branch is in dReg: decode predicts the one behind it, if there is one,
\* excecute trains every table with the outcome of the one in dReg, and a
\* misprediction flushes the one just decoded.
Execute ==
    LET taken == Current.taken
        buffer == waiting.pc % PRED_BUF_SIZE
        id == waiting.pc % perceptronnumber
    IN  /\ waiting # NoBranch
        /\ yout' = Yout(Decoded)
        /\ predbuf' = [predbuf EXCEPT ![buffer] = update(@, taken)]
        /\ perceptronTable' =
            IF Trains(taken, waiting.predicted, yout')
            THEN [perceptronTable EXCEPT ![id] = Trained(@, taken)]
            ELSE perceptronTable
        /\ historyregister' = Shifted(taken)
        /\ waiting' = IF waiting.predicted # taken \/ Decoded = NoPC
                      THEN NoBranch ELSE Prediction(Decoded)
        /\ pos' = (pos % Len(program)) + 1
        /\ UNCHANGED <<strategy, program>>

Next == Decode \/ Execute

\* The main loop steps the core until it terminates.
Spec == Init /\ [][Next]_vars /\ WF_vars(Next)
-----------------------------------------------------------------------------
Weight == - (WeightMod \div 2) .. WeightMod \div 2 - 1

\* Every table keeps its range, and the waiting branch is the one the program
\* executes next.
TypeOK ==
    /\ strategy \in Strategy /\ program \in Programs
    /\ pos \in 1 .. Len(program)
    /\ waiting \in {NoBranch} \cup [pc : {Current.pc}, predicted : BOOLEAN]
    /\ predbuf \in [0 .. PRED_BUF_SIZE - 1 -> PredictorState]
    /\ perceptronTable \in [0 .. perceptronnumber - 1 ->
                                [0 .. historylength -> Weight]]
    /\ historyregister \in [1 .. historylength -> {-1, 1}]
    /\ yout \in Nat

\* No branch of the program has another one right behind it.
Spaced == \A i \in DOMAIN program : program[i].behind = NoPC

\* When branches are spaced, yout belongs to the branch that is trained, and
\* the training stops by itself, also for loops that cannot be learnt: the
\* weights stay within twice the threshold and never come near their width.
WeightsStaySmall ==
    strategy = "PERCEPTRON" /\ Spaced =>
        \A id \in DOMAIN perceptronTable : \A i \in 0 .. historylength :
            Abs(perceptronTable[id][i]) <= 2 * threshold

Right == waiting # NoBranch => waiting.predicted = Current.taken

\* What the perceptrons can tell apart: some small weights give the right
\* sign for each branch of the loop under the history the loop leaves it.
PastOutcome(p, i, n) ==
    IF n > 1 /\ n > HistoryKept THEN -1
    ELSE IF p[((i - 1 - n) % Len(p)) + 1].taken THEN 1 ELSE -1
\* Weights w give the right sign for each branch of the loop that uses
\* perceptron id.
Separates(w, p, id) ==
    \A i \in DOMAIN p : p[i].pc % perceptronnumber = id =>
        LET sum[n \in 0 .. historylength] ==
                IF n = 0 THEN w[0]
                ELSE sum[n - 1] + w[n] * PastOutcome(p, i, n)
        IN  IF p[i].taken THEN sum[historylength] >= 0
            ELSE sum[historylength] < 0
SmallWeights == [0 .. historylength -> -1 .. 1]
Separable(p) ==
    \A id \in 0 .. perceptronnumber - 1 :
        \E w \in SmallWeights : Separates(w, p, id)
SeparablePrograms ==
    {p \in Programs : (\A i \in DOMAIN p : p[i].behind = NoPC) /\ Separable(p)}

\* A loop of spaced branches that perceptrons can tell apart is learnt: from
\* some point on, no branch of it is mispredicted.
PerceptronLearns ==
    strategy = "PERCEPTRON" /\ program \in SeparablePrograms => <>[]Right

\* The history is the one the loop leaves, no longer that of Init.
Steady ==
    \A n \in 1 .. historylength : historyregister[n] = PastOutcome(program, pos, n)

\* How far weights w are from u scaled up, with a bias that tells 0 from -1.
Scale == threshold + historylength + 1
Goal(u, i) == Scale * (2 * u[i] + (IF i = 0 THEN 1 ELSE 0))
Distance(u, w) ==
    LET sum[i \in 0 .. historylength] ==
            (w[i] - Goal(u, i)) * (w[i] - Goal(u, i))
                + (IF i = 0 THEN 0 ELSE sum[i - 1])
    IN  sum[historylength]

\* Why the perceptrons learn: each training brings a perceptron nearer to
\* every goal that can tell its branches apart, so that it is trained, and
\* mispredicts, only so many times.
TrainingApproaches ==
    [][strategy = "PERCEPTRON" /\ Spaced /\ Steady =>
        \A id \in DOMAIN perceptronTable :
            perceptronTable'[id] # perceptronTable[id] =>
                \A u \in SmallWeights : Separates(u, program, id) =>
                    Distance(u, perceptronTable'[id])
                        < Distance(u, perceptronTable[id])]_vars

\* Two taken branches follow each one that is not taken, in the order in
\* which the branches of an entry of the buffer come round.
Lap(p, e) ==
    SelectSeq(p, LAMBDA b : b.pc % PRED_BUF_SIZE = e)
Biased(p) ==
    \A e \in 0 .. PRED_BUF_SIZE - 1 :
        LET lap == Lap(p, e)
        IN  \A i \in DOMAIN lap : \A n \in 1 .. 2 :
                ~lap[i].taken => lap[((i - 1 + n) % Len(lap)) + 1].taken
BiasedPrograms == {p \in Programs : Biased(p)}

\* The two-bit buffer pays for a rare exit from a loop only once: from some
\* point on it predicts every taken branch right, also where the branches are
\* adjacent and where two of them share an entry.
BufferForgives ==
    strategy = "BPB" /\ program \in BiasedPrograms =>
        <>[](waiting # NoBranch /\ Current.taken => waiting.predicted)

\* A branch that was predicted right and surely is trained further only in a
\* cycle that also decoded a branch, whose yout is the one that is looked at.
OvertrainsBehindBranches ==
    [][/\ strategy = "PERCEPTRON" /\ waiting # NoBranch
       /\ waiting.predicted = Current.taken /\ yout > threshold
       /\ perceptronTable' # perceptronTable
       => Decoded # NoPC /\ Abs(Output(Decoded)) <= threshold]_vars
=============================================================================
