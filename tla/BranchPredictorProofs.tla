----------------------- MODULE BranchPredictorProofs ------------------------
(***************************************************************************)
(* The tables of the predictor keep their ranges, and the branch that is   *)
(* trained is the one that is executed: for any programs, tables, history  *)
(* and widths.  A perceptron that can tell its branches apart converges:   *)
(* every training brings its weights nearer to some that do, so that it is *)
(* trained, and mispredicts, a bounded number of times in all.             *)
(***************************************************************************)
EXTENDS BranchPredictor, SharedLemmas

(* The sum of a perceptron is a number: a recursive function is one that   *)
(* satisfies its equation if there is such a function, and there is one by *)
(* induction over the history.                                             *)

Table == [0 .. perceptronnumber - 1 -> [0 .. historylength -> Weight]]
History == [1 .. historylength -> {-1, 1}]

\* f has the partial sums of weights w under history h up to bit n.
SumsTo(f, w, h, n) ==
    f = [i \in 0 .. n |-> IF i = 0 THEN w[0] ELSE f[i - 1] + w[i] * h[i]]

LEMMA SumsExist ==
    ASSUME NEW n \in Nat, NEW w \in [0 .. n -> Int], NEW h \in [1 .. n -> Int]
    PROVE  \E f : SumsTo(f, w, h, n)
  <1> DEFINE S == Int
             E == [x \in S \X (1 .. n) |-> x[1] + w[x[2]] * h[x[2]]]
  <1>1. w[0] \in S /\ \A i \in 1 .. n : w[i] * h[i] \in Int
      OBVIOUS
  <1>2. Stepper(E, S, n)
      BY <1>1 DEF Stepper
  <1>3. \A s \in Int : \A i \in 1 .. n : E[<<s, i>>] = s + w[i] * h[i]
      OBVIOUS
  <1> HIDE DEF E, S
  <1>4. PICK f : Iterates(f, E, S, w[0], n)
      BY <1>1, <1>2, IterationExists
  <1>5. \A i \in 1 .. n : f[i - 1] \in Int
      BY <1>4 DEF S, Iterates
  <1>6. \A i \in 1 .. n : f[i] = f[i - 1] + w[i] * h[i]
      BY <1>3, <1>4, <1>5 DEF Iterates
  <1>7. \A i \in 0 .. n : f[i] = IF i = 0 THEN w[0] ELSE f[i - 1] + w[i] * h[i]
      BY <1>4, <1>6 DEF Iterates
  <1>8. f = [i \in 0 .. n |-> f[i]]
      BY <1>4 DEF Iterates
  <1> QED
      BY <1>7, <1>8 DEF SumsTo

LEMMA SumsAreInts ==
    ASSUME NEW n \in Nat, NEW w \in [0 .. n -> Int], NEW h \in [1 .. n -> Int],
           NEW f, SumsTo(f, w, h, n)
    PROVE  f[n] \in Int
  <1> DEFINE S == {m \in Nat : m <= n => f[m] \in Int}
  <1>1. 0 \in S
      BY DEF SumsTo
  <1>2. ASSUME NEW m \in Nat, m \in S PROVE m + 1 \in S
    <2> SUFFICES ASSUME m + 1 <= n PROVE f[m + 1] \in Int
        OBVIOUS
    <2>1. f[m] \in Int /\ w[m + 1] \in Int /\ h[m + 1] \in Int
        BY <1>2
    <2>2. w[m + 1] * h[m + 1] \in Int
        BY <2>1
    <2>3. f[m + 1] = f[m] + w[m + 1] * h[m + 1]
        BY DEF SumsTo
    <2> QED
        BY <2>1, <2>2, <2>3
  <1> HIDE DEF S
  <1>3. n \in S
      BY <1>1, <1>2, Induction
  <1> QED
      BY <1>3 DEF S

LEMMA OutputIsInt ==
    ASSUME perceptronTable \in Table, historyregister \in History, NEW pc \in Nat
    PROVE  Output(pc) \in Int
  <1> DEFINE w == perceptronTable[pc % perceptronnumber]
             h == historyregister
             sum[i \in 0 .. historylength] ==
                IF i = 0 THEN w[0] ELSE sum[i - 1] + w[i] * h[i]
  <1>1. historylength \in Nat /\ WeightMod \div 2 \in Nat
      BY SizeAssumption
  <1>2. pc % perceptronnumber \in 0 .. perceptronnumber - 1
      BY SizeAssumption
  <1>3. w \in [0 .. historylength -> Int] /\ h \in [1 .. historylength -> Int]
      BY <1>1, <1>2 DEF Table, History, Weight
  <1>4. sum = CHOOSE f : SumsTo(f, w, h, historylength)
      BY DEF sum, SumsTo
  <1>5. Output(pc) = sum[historylength]
      BY DEF Output
  <1> HIDE DEF sum, w, h
  <1>6. SumsTo(sum, w, h, historylength)
      BY <1>1, <1>3, <1>4, SumsExist
  <1> QED
      BY <1>1, <1>3, <1>5, <1>6, SumsAreInts
-----------------------------------------------------------------------------
(* TypeOK is inductive.                                                    *)

LEMMA ProgramFacts ==
    ASSUME TypeOK
    PROVE  /\ program \in Seq(Branch) /\ Closed(program)
           /\ pos \in DOMAIN program /\ Len(program) \in Nat \ {0}
           /\ Current \in Branch
  BY ProgramAssumption DEF TypeOK, Current

LEMMA YoutIsNat ==
    ASSUME TypeOK, NEW pc \in PC \cup {NoPC}
    PROVE  Yout(pc) \in Nat
  <1>1. CASE pc # NoPC /\ strategy = "PERCEPTRON"
    <2>1. Output(pc) \in Int
        BY <1>1, OutputIsInt, PCAssumption DEF TypeOK, Table, History
    <2> QED
        BY <1>1, <2>1 DEF Yout, Abs
  <1>2. CASE ~(pc # NoPC /\ strategy = "PERCEPTRON")
      BY <1>2 DEF Yout, TypeOK
  <1> QED
      BY <1>1, <1>2

LEMMA PredictIsBoolean ==
    ASSUME TypeOK, NEW pc
    PROVE  predict(pc) \in BOOLEAN
  <1>1. CASE strategy = "AT"
      BY <1>1 DEF predict
  <1>2. CASE strategy = "NT"
      BY <1>2 DEF predict
  <1>3. CASE strategy = "BTFNT"
      BY <1>3 DEF predict
  <1>4. CASE strategy = "BPB"
      BY <1>4 DEF predict
  <1>5. CASE strategy = "PERCEPTRON"
      BY <1>5 DEF predict
  <1> QED
      BY <1>1, <1>2, <1>3, <1>4, <1>5 DEF TypeOK, Strategy

\* The build's arithmetic wraps into the range of a weight.
LEMMA WrapInWeight == \A n \in Int : Wrap(n) \in Weight
  <1> TAKE n \in Int
  <1> DEFINE half == WeightMod \div 2
  <1>1. half \in Nat /\ WeightMod = half + half
      BY SizeAssumption
  <1>2. (n + half) % WeightMod \in 0 .. WeightMod - 1
      BY <1>1, SizeAssumption
  <1> QED
      BY <1>1, <1>2 DEF Wrap, Weight

LEMMA TrainedInTable ==
    ASSUME historyregister \in History, NEW taken \in BOOLEAN,
           NEW w \in [0 .. historylength -> Weight]
    PROVE  Trained(w, taken) \in [0 .. historylength -> Weight]
  <1> DEFINE t == IF taken THEN 1 ELSE -1
             added(i) == IF i = 0 THEN t ELSE t * historyregister[i]
  <1>1. \A i \in 0 .. historylength : added(i) \in {-1, 1}
      BY SizeAssumption DEF History
  <1>2. WeightMod \div 2 \in Nat
      BY SizeAssumption
  <1>3. \A i \in 0 .. historylength : w[i] \in Int
      BY <1>2 DEF Weight
  <1>4. \A i \in 0 .. historylength : w[i] + added(i) \in Int
      BY <1>1, <1>3
  <1>5. \A i \in 0 .. historylength : Wrap(w[i] + added(i)) \in Weight
      BY <1>4, WrapInWeight
  <1> QED
      BY <1>5 DEF Trained

LEMMA ShiftedIsHistory ==
    ASSUME historyregister \in History, NEW taken \in BOOLEAN
    PROVE  Shifted(taken) \in History
  <1>1. \A i \in 1 .. historylength : i # 1 => i - 1 \in 1 .. historylength
      BY SizeAssumption
  <1> QED
      BY <1>1 DEF Shifted, History

LEMMA InitTyped == Init => TypeOK
  <1> SUFFICES ASSUME Init PROVE TypeOK
      OBVIOUS
  <1>1. 0 \in Weight
      BY SizeAssumption DEF Weight
  <1>2. pos \in 1 .. Len(program)
      BY ProgramAssumption DEF Init
  <1>3. perceptronTable \in Table /\ historyregister \in History
      BY <1>1 DEF Init, Table, History
  <1>4. predbuf \in [0 .. PRED_BUF_SIZE - 1 -> PredictorState]
      BY DEF Init, PredictorState
  <1> QED
      BY <1>2, <1>3, <1>4 DEF Init, TypeOK, Table, History

LEMMA DecodeTyped == TypeOK /\ Decode => TypeOK'
  <1> SUFFICES ASSUME TypeOK, Decode PROVE TypeOK'
      OBVIOUS
  <1>1. Decoded = Current.pc /\ Current.pc \in PC /\ Current' = Current
      BY ProgramFacts DEF Decode, Decoded, Branch, Current
  <1>2. yout' \in Nat
      BY <1>1, YoutIsNat DEF Decode
  <1>3. waiting' \in [pc : {Current'.pc}, predicted : BOOLEAN]
      BY <1>1, PredictIsBoolean DEF Decode, Prediction
  <1> QED
      BY <1>2, <1>3 DEF Decode, TypeOK

LEMMA WaitingTyped ==
    ASSUME TypeOK, waiting # NoBranch
    PROVE  waiting = [pc |-> Current.pc, predicted |-> waiting.predicted]
           /\ waiting.predicted \in BOOLEAN /\ waiting.pc \in Nat
           /\ Decoded \in PC \cup {NoPC}
  <1>1. waiting \in [pc : {Current.pc}, predicted : BOOLEAN]
      BY DEF TypeOK
  <1> QED
      BY <1>1, ProgramFacts, PCAssumption DEF Decoded, Branch

\* The branch behind one that is not taken is the one the program comes to.
LEMMA ExecuteTyped == TypeOK /\ Execute => TypeOK'
  <1> SUFFICES ASSUME TypeOK, Execute PROVE TypeOK'
      OBVIOUS
  <1>1. /\ waiting.pc \in Nat /\ waiting.predicted \in BOOLEAN
        /\ Decoded \in PC \cup {NoPC} /\ Current.taken \in BOOLEAN
      BY WaitingTyped, ProgramFacts DEF Execute, Branch
  <1>2. yout' \in Nat
      BY <1>1, YoutIsNat DEF Execute
  <1>3. predbuf' \in [0 .. PRED_BUF_SIZE - 1 -> PredictorState]
    <2>1. waiting.pc % PRED_BUF_SIZE \in 0 .. PRED_BUF_SIZE - 1
        BY <1>1, SizeAssumption
    <2>2. \A s, t : update(s, t) \in PredictorState \cup {s}
        BY DEF update, PredictorState
    <2>3. \A s \in PredictorState : \A t : update(s, t) \in PredictorState
        BY <2>2
    <2> QED
        BY <2>1, <2>3 DEF Execute, TypeOK
  <1>4. perceptronTable' \in Table
    <2>1. waiting.pc % perceptronnumber \in 0 .. perceptronnumber - 1
        BY <1>1, SizeAssumption
    <2>2. perceptronTable \in Table /\ historyregister \in History
        BY DEF TypeOK, Table, History
    <2>3. \A w \in [0 .. historylength -> Weight] :
            Trained(w, Current.taken) \in [0 .. historylength -> Weight]
        BY <1>1, <2>2, TrainedInTable
    <2> QED
        BY <2>1, <2>2, <2>3 DEF Execute, Table
  <1>5. historyregister' \in History
      BY <1>1, ShiftedIsHistory DEF Execute, TypeOK, History
  <1>6. pos' \in 1 .. Len(program) /\ pos' = (pos % Len(program)) + 1
      BY ProgramFacts DEF Execute
  <1>7. ASSUME waiting' # NoBranch
        PROVE  waiting' \in [pc : {Current'.pc}, predicted : BOOLEAN]
    <2>1. /\ waiting.predicted = Current.taken /\ Decoded # NoPC
          /\ waiting' = Prediction(Decoded)
        BY <1>7 DEF Execute
    <2>2. ~Current.taken /\ Decoded = Current.behind
        BY <2>1, <1>1 DEF Decoded, Execute
    <2>3. Current' = program[(pos % Len(program)) + 1]
        BY <1>6 DEF Current, Execute
    <2>4. Current'.pc = Decoded
        BY <2>1, <2>2, <2>3, ProgramFacts DEF Closed, Current
    <2> QED
        BY <2>1, <2>4, PredictIsBoolean DEF Prediction
  <1>8. strategy' \in Strategy /\ program' = program /\ program \in Programs
      BY DEF Execute, TypeOK
  <1> QED
      BY <1>2, <1>3, <1>4, <1>5, <1>6, <1>7, <1>8 DEF TypeOK, Table, History

LEMMA NextTyped == TypeOK /\ [Next]_vars => TypeOK'
  <1>1. TypeOK /\ UNCHANGED vars => TypeOK'
      BY DEF TypeOK, vars, Current
  <1> QED
      BY <1>1, DecodeTyped, ExecuteTyped DEF Next

\* Weights stay ints of their width, the history has outcomes only, the sum
\* that is looked at is one, and what waits to be executed is the branch the
\* program executes next, also where one branch is right behind another.
THEOREM TypeCorrect == Spec => []TypeOK
  BY InitTyped, NextTyped, PTL DEF Spec
-----------------------------------------------------------------------------
LEMMA StepOvertrains ==
    ASSUME TypeOK, [Next]_vars,
           waiting # NoBranch, waiting.predicted = Current.taken,
           yout > threshold, perceptronTable' # perceptronTable
    PROVE  Decoded # NoPC /\ Abs(Output(Decoded)) <= threshold
  <1>1. Execute
      BY DEF Next, Decode, vars
  <1>2. Trains(Current.taken, waiting.predicted, yout')
      BY <1>1 DEF Execute
  <1>3. yout' = Yout(Decoded) /\ yout' <= threshold
      BY <1>1, <1>2 DEF Execute, Trains
  <1>4. yout \in Nat /\ threshold \in Nat
      BY SizeAssumption DEF TypeOK
  <1>5. yout' # yout
      BY <1>3, <1>4
  <1> QED
      BY <1>3, <1>5 DEF Yout

\* A perceptron that was right and sure is trained on only when the sum of
\* the branch decoded in the same cycle is taken for its own.
THEOREM SureOnesAreLeftAlone == Spec => OvertrainsBehindBranches
  <1>1. TypeOK /\ [Next]_vars =>
            [/\ strategy = "PERCEPTRON" /\ waiting # NoBranch
             /\ waiting.predicted = Current.taken /\ yout > threshold
             /\ perceptronTable' # perceptronTable
             => Decoded # NoPC /\ Abs(Output(Decoded)) <= threshold]_vars
      BY StepOvertrains
  <1> QED
      BY <1>1, TypeCorrect, PTL DEF Spec, OvertrainsBehindBranches
-----------------------------------------------------------------------------
(* Every training brings a perceptron nearer to each goal that tells its   *)
(* branches apart.  Three sums run over the same weights: the output, what *)
(* the goal says, and the distance; one training changes the last by the   *)
(* first two.                                                              *)

\* f has the partial sums, w[0] and then w[i] * h[i].
Partial(f, w, h, n) ==
    /\ f \in [0 .. n -> Int] /\ f[0] = w[0]
    /\ \A i \in 1 .. n : f[i] = f[i - 1] + w[i] * h[i]

LEMMA SumIsPartial ==
    ASSUME NEW n \in Nat, NEW w \in [0 .. n -> Int], NEW h \in [1 .. n -> Int],
           NEW s, s = CHOOSE f : SumsTo(f, w, h, n)
    PROVE  Partial(s, w, h, n)
  <1>1. SumsTo(s, w, h, n)
      BY SumsExist
  <1>2. s = [i \in 0 .. n |-> s[i]]
      BY <1>1 DEF SumsTo
  <1>3. s[0] = w[0] /\ \A i \in 1 .. n : s[i] = s[i - 1] + w[i] * h[i]
    <2>1. \A i \in 0 .. n : s[i] = IF i = 0 THEN w[0] ELSE s[i - 1] + w[i] * h[i]
        BY <1>1 DEF SumsTo
    <2>2. 0 \in 0 .. n /\ \A i \in 1 .. n : i \in 0 .. n /\ i # 0
        OBVIOUS
    <2> QED
        BY <2>1, <2>2
  <1> DEFINE S == {m \in Nat : m <= n => s[m] \in Int}
  <1>4. 0 \in S
      BY <1>3
  <1>5. ASSUME NEW m \in Nat, m \in S PROVE m + 1 \in S
    <2> SUFFICES ASSUME m + 1 <= n PROVE s[m + 1] \in Int
        OBVIOUS
    <2>1. s[m] \in Int /\ w[m + 1] \in Int /\ h[m + 1] \in Int
        BY <1>5
    <2>2. w[m + 1] * h[m + 1] \in Int
        BY <2>1
    <2>3. s[m + 1] = s[m] + w[m + 1] * h[m + 1]
      <3>1. m + 1 \in 1 .. n /\ (m + 1) - 1 = m
          OBVIOUS
      <3> QED
          BY <1>3, <3>1
    <2> QED
        BY <2>1, <2>2, <2>3
  <1> HIDE DEF S
  <1>6. Nat \subseteq S
      BY <1>4, <1>5, Induction
  <1>7. \A m \in 0 .. n : s[m] \in Int
      BY <1>6 DEF S
  <1> QED
      BY <1>2, <1>3, <1>7 DEF Partial

Weights == [0 .. historylength -> Int]
Past(p, i) == [n \in 1 .. historylength |-> PastOutcome(p, i, n)]

LEMMA OutputIsPartial ==
    ASSUME perceptronTable \in Table, historyregister \in History, NEW pc \in Nat
    PROVE  \E f : /\ Partial(f, perceptronTable[pc % perceptronnumber],
                             historyregister, historylength)
                  /\ Output(pc) = f[historylength]
  <1> DEFINE w == perceptronTable[pc % perceptronnumber]
             h == historyregister
             sum[i \in 0 .. historylength] ==
                IF i = 0 THEN w[0] ELSE sum[i - 1] + w[i] * h[i]
  <1>1. historylength \in Nat /\ WeightMod \div 2 \in Nat
      BY SizeAssumption
  <1>2. pc % perceptronnumber \in 0 .. perceptronnumber - 1
      BY SizeAssumption
  <1>3. w \in [0 .. historylength -> Int] /\ h \in [1 .. historylength -> Int]
      BY <1>1, <1>2 DEF Table, History, Weight
  <1>4. sum = CHOOSE f : SumsTo(f, w, h, historylength)
      BY DEF sum, SumsTo
  <1>5. Output(pc) = sum[historylength]
      BY DEF Output
  <1> HIDE DEF sum, w, h
  <1>6. Partial(sum, w, h, historylength)
      BY <1>1, <1>3, <1>4, SumIsPartial
  <1> QED
      BY <1>5, <1>6 DEF w, h

LEMMA SeparatesIs ==
    ASSUME NEW u \in Weights, NEW p, NEW id, Separates(u, p, id),
           NEW k \in DOMAIN p, p[k].pc % perceptronnumber = id
    PROVE  \E f : /\ Partial(f, u, Past(p, k), historylength)
                  /\ IF p[k].taken THEN f[historylength] >= 0
                     ELSE f[historylength] < 0
  <1> DEFINE h == Past(p, k)
             sum[n \in 0 .. historylength] ==
                IF n = 0 THEN u[0] ELSE sum[n - 1] + u[n] * PastOutcome(p, k, n)
             same[n \in 0 .. historylength] ==
                IF n = 0 THEN u[0] ELSE same[n - 1] + u[n] * h[n]
  <1>1. historylength \in Nat
      BY SizeAssumption
  <1>2. h \in [1 .. historylength -> Int]
      BY DEF Past, PastOutcome
  <1>3. IF p[k].taken THEN sum[historylength] >= 0 ELSE sum[historylength] < 0
      BY DEF Separates
  <1>4. same = CHOOSE f : SumsTo(f, u, h, historylength)
      BY DEF same, SumsTo
  <1>5. \A f : f = [n \in 0 .. historylength |->
                        IF n = 0 THEN u[0] ELSE f[n - 1] + u[n] * PastOutcome(p, k, n)]
               <=> SumsTo(f, u, h, historylength)
    <2> TAKE f
    <2>1. \A n \in 0 .. historylength : n # 0 => h[n] = PastOutcome(p, k, n)
        BY <1>1 DEF Past
    <2>2. \A n \in 0 .. historylength :
            (IF n = 0 THEN u[0] ELSE f[n - 1] + u[n] * PastOutcome(p, k, n))
            = (IF n = 0 THEN u[0] ELSE f[n - 1] + u[n] * h[n])
        BY <2>1
    <2> HIDE DEF h
    <2> QED
        BY <2>2 DEF SumsTo
  <1>6. sum = CHOOSE f : SumsTo(f, u, h, historylength)
    <2> HIDE DEF h
    <2> QED
        BY <1>5 DEF sum
  <1> HIDE DEF sum, same, h
  <1>7. Partial(sum, u, h, historylength)
      BY <1>1, <1>2, <1>6, SumIsPartial DEF Weights
  <1> QED
      BY <1>3, <1>7 DEF h

\* f has the partial sums of the distance.
Apart(f, u, w) ==
    /\ f \in [0 .. historylength -> Int]
    /\ f[0] = (w[0] - Goal(u, 0)) * (w[0] - Goal(u, 0))
    /\ \A i \in 1 .. historylength :
            f[i] = f[i - 1] + (w[i] - Goal(u, i)) * (w[i] - Goal(u, i))

LEMMA ScaleIs == Scale \in Nat \ {0} /\ historylength \in Nat /\ threshold \in Nat
  BY SizeAssumption DEF Scale

LEMMA GoalIs ==
    ASSUME NEW u \in Weights, NEW i \in 0 .. historylength
    PROVE  /\ Goal(u, i) \in Int /\ u[i] \in Int
           /\ i = 0 => Goal(u, i) = Scale * ((2 * u[i]) + 1)
           /\ i # 0 => Goal(u, i) = Scale * (2 * u[i])
  BY ScaleIs DEF Goal, Weights

LEMMA DistanceIs ==
    ASSUME NEW u \in Weights, NEW w \in Weights
    PROVE  \E f : Apart(f, u, w) /\ Distance(u, w) = f[historylength]
  <1> DEFINE gap == [i \in 0 .. historylength |-> w[i] - Goal(u, i)]
             first == [i \in 0 .. historylength |->
                            IF i = 0 THEN gap[0] * gap[0] ELSE gap[i]]
             rest == [i \in 1 .. historylength |-> gap[i]]
             sum[i \in 0 .. historylength] ==
                (w[i] - Goal(u, i)) * (w[i] - Goal(u, i))
                    + (IF i = 0 THEN 0 ELSE sum[i - 1])
  <1>1. historylength \in Nat /\ 0 \in 0 .. historylength
      BY ScaleIs
  <1>2. \A i \in 0 .. historylength : gap[i] = w[i] - Goal(u, i) /\ gap[i] \in Int
      BY GoalIs DEF Weights
  <1>3. /\ first \in [0 .. historylength -> Int] /\ rest \in [1 .. historylength -> Int]
        /\ first[0] = gap[0] * gap[0]
        /\ \A i \in 1 .. historylength : first[i] = gap[i] /\ rest[i] = gap[i]
    <2> HIDE DEF gap
    <2>1. gap[0] * gap[0] \in Int
        BY <1>1, <1>2
    <2> QED
        BY <1>1, <1>2, <2>1
  <1>4. Distance(u, w) = sum[historylength]
      BY DEF Distance
  <1> HIDE DEF gap, first, rest
  <1>5. PICK f : SumsTo(f, first, rest, historylength)
      BY <1>1, <1>3, SumsExist
  <1> DEFINE g == CHOOSE x : SumsTo(x, first, rest, historylength)
  <1>6. Partial(g, first, rest, historylength)
      BY <1>1, <1>3, SumIsPartial
  <1>7. g = [i \in 0 .. historylength |->
                (w[i] - Goal(u, i)) * (w[i] - Goal(u, i))
                    + (IF i = 0 THEN 0 ELSE g[i - 1])]
    <2> HIDE DEF g
    <2>1. ASSUME NEW i \in 0 .. historylength
          PROVE  g[i] = (w[i] - Goal(u, i)) * (w[i] - Goal(u, i))
                            + (IF i = 0 THEN 0 ELSE g[i - 1])
      <3>1. gap[i] = w[i] - Goal(u, i) /\ gap[i] \in Int /\ gap[i] * gap[i] \in Int
          BY <1>2
      <3>2. CASE i = 0
          BY <1>3, <1>6, <3>1, <3>2 DEF Partial
      <3>3. CASE i # 0
        <4>1. i \in 1 .. historylength /\ i - 1 \in 0 .. historylength
            BY <3>3, <1>1
        <4>2. g[i] = g[i - 1] + gap[i] * gap[i] /\ g[i - 1] \in Int
            BY <1>3, <1>6, <4>1 DEF Partial
        <4> QED
            BY <3>1, <3>3, <4>2
      <3> QED
          BY <3>2, <3>3
    <2>2. g = [i \in 0 .. historylength |-> g[i]]
        BY <1>6 DEF Partial
    <2> QED
        BY <2>1, <2>2
  <1>8. sum = [i \in 0 .. historylength |->
                (w[i] - Goal(u, i)) * (w[i] - Goal(u, i))
                    + (IF i = 0 THEN 0 ELSE sum[i - 1])]
    <2> HIDE DEF g
    <2> QED
        BY <1>7 DEF sum
  <1> HIDE DEF sum
  <1>9. Apart(sum, u, w)
    <2> DEFINE t(i) == (w[i] - Goal(u, i)) * (w[i] - Goal(u, i))
    <2>1. \A i \in 0 .. historylength : t(i) \in Int
        BY <1>2
    <2>2. \A i \in 0 .. historylength :
            sum[i] = t(i) + (IF i = 0 THEN 0 ELSE sum[i - 1])
        BY <1>8
    <2> HIDE DEF t
    <2> DEFINE S == {m \in Nat : m <= historylength => sum[m] \in Int}
    <2>3. 0 \in S
        BY <1>1, <2>1, <2>2
    <2>4. ASSUME NEW m \in Nat, m \in S PROVE m + 1 \in S
      <3> SUFFICES ASSUME m + 1 <= historylength PROVE sum[m + 1] \in Int
          OBVIOUS
      <3>1. m + 1 \in 0 .. historylength /\ m + 1 # 0 /\ (m + 1) - 1 = m
            /\ m <= historylength
          BY <1>1
      <3>2. sum[m + 1] = t(m + 1) + sum[m]
          BY <2>2, <3>1
      <3> QED
          BY <2>1, <2>4, <3>1, <3>2
    <2> HIDE DEF S
    <2>5. Nat \subseteq S
        BY <2>3, <2>4, Induction
    <2>6. \A m \in 0 .. historylength : sum[m] \in Int
        BY <2>5 DEF S
    <2>7. sum[0] = t(0)
        BY <1>1, <2>1, <2>2
    <2>8. ASSUME NEW i \in 1 .. historylength PROVE sum[i] = sum[i - 1] + t(i)
      <3>1. i \in 0 .. historylength /\ i # 0 /\ i - 1 \in 0 .. historylength
          BY <1>1
      <3>2. sum[i] = t(i) + sum[i - 1]
          BY <2>2, <3>1
      <3> QED
          BY <2>1, <2>6, <3>1, <3>2
    <2>9. sum = [i \in 0 .. historylength |-> sum[i]]
        BY <1>8
    <2> QED
        BY <2>6, <2>7, <2>8, <2>9 DEF Apart, t
  <1> QED
      BY <1>4, <1>9

\* The square of one gap after a training, t being the outcome and h the bit.
LEMMA SquareStep ==
    ASSUME NEW z \in Int, NEW x \in {-1, 1}
    PROVE  (z + x) * (z + x) = z * z + 2 * (x * z) + 1
  <1>1. CASE x = 1
      BY <1>1
  <1>2. CASE x = -1
      BY <1>2
  <1> QED
      BY <1>1, <1>2

GapIs(z, a, b, c) == z = a - c * (2 * b)
SquareIs(z, a, b, c, t, h) ==
    (z + t * h) * (z + t * h) =
        z * z + 2 * (t * (a * h)) - 2 * (c * (t * (2 * (b * h)))) + 1

LEMMA TermStep ==
    ASSUME NEW c \in Int, NEW a \in Int, NEW b \in Int, NEW t \in {-1, 1},
           NEW h \in {-1, 1}, NEW z \in Int, GapIs(z, a, b, c)
    PROVE  SquareIs(z, a, b, c, t, h)
  <1> USE DEF GapIs, SquareIs
  <1>1. t * h \in {-1, 1}
      OBVIOUS
  <1>2. (z + t * h) * (z + t * h) = z * z + 2 * ((t * h) * z) + 1
      BY <1>1, SquareStep
  <1>3. (t * h) * z = t * (a * h) - c * (t * (2 * (b * h)))
    <2>1. CASE t = 1 /\ h = 1
        BY <2>1
    <2>2. CASE t = 1 /\ h = -1
        BY <2>2
    <2>3. CASE t = -1 /\ h = 1
        BY <2>3
    <2>4. CASE t = -1 /\ h = -1
        BY <2>4
    <2> QED
        BY <2>1, <2>2, <2>3, <2>4
  <1>4. t * (a * h) \in Int /\ c * (t * (2 * (b * h))) \in Int /\ z * z \in Int
      OBVIOUS
  <1> QED
      BY <1>1, <1>2, <1>3, <1>4

\* What the goal says of one bit adds to what it says of the bits before it.
Adds(r, s, y) == r = s + y
Vote(c, t, s) == c * (t * ((2 * s) + 1))
More(c, t, y) == c * (t * (2 * y))
LEMMA VoteStep ==
    ASSUME NEW c \in Int, NEW t \in {-1, 1}, NEW s \in Int, NEW y \in Int,
           NEW r, Adds(r, s, y)
    PROVE  /\ Vote(c, t, r) = Vote(c, t, s) + More(c, t, y)
           /\ Vote(c, t, s) \in Int /\ More(c, t, y) \in Int
  <1> USE DEF Vote, More, Adds
  <1>1. CASE t = 1
      BY <1>1
  <1>2. CASE t = -1
      BY <1>2
  <1> QED
      BY <1>1, <1>2

LEMMA SignedSum ==
    ASSUME NEW t \in {-1, 1}, NEW s \in Int, NEW y \in Int, NEW r, Adds(r, s, y)
    PROVE  Adds(t * r, t * s, t * y) /\ t * s \in Int /\ t * y \in Int
  <1> USE DEF Adds
  <1>1. CASE t = 1
      BY <1>1
  <1>2. CASE t = -1
      BY <1>2
  <1> QED
      BY <1>1, <1>2

\* v is w after a training with outcome t under history h.
Stepped(v, w, h, t) ==
    /\ v[0] = w[0] + t
    /\ \A i \in 1 .. historylength : v[i] = w[i] + t * h[i]

\* What a training does to the distance: the output and the goal's vote.
LEMMA DistanceStep ==
    ASSUME NEW u \in Weights, NEW w \in Weights, NEW v \in Weights,
           NEW h \in History, NEW t \in {-1, 1}, Stepped(v, w, h, t),
           NEW f, Apart(f, u, w), NEW g, Apart(g, u, v),
           NEW P, Partial(P, w, h, historylength),
           NEW S, Partial(S, u, h, historylength)
    PROVE  g[historylength] =
                f[historylength] + 2 * (t * P[historylength])
                - 2 * (Scale * (t * ((2 * S[historylength]) + 1)))
                + (historylength + 1)
  <1> DEFINE vote(m) == Vote(Scale, t, S[m])
             Law(m) == g[m] = f[m] + 2 * (t * P[m]) - 2 * vote(m) + (m + 1)
             T == {m \in Nat : m <= historylength => Law(m)}
  <1>1. historylength \in Nat /\ Scale \in Int
      BY ScaleIs
  <1>2. 0 \in T
    <2> DEFINE z == w[0] - Goal(u, 0)
               c == Scale * ((2 * u[0]) + 1)
    <2>1. 0 \in 0 .. historylength /\ w[0] \in Int /\ u[0] \in Int /\ c \in Int
        BY <1>1 DEF Weights
    <2>2. Goal(u, 0) = c
        BY <2>1, GoalIs
    <2>3. z = w[0] - c /\ z \in Int
        BY <2>1, <2>2
    <2>4. v[0] - Goal(u, 0) = z + t
        BY <2>1, <2>2 DEF Stepped
    <2>5. f[0] = z * z /\ g[0] = (z + t) * (z + t)
        BY <2>4 DEF Apart
    <2>6. (z + t) * (z + t) = z * z + 2 * (t * z) + 1
      <3> HIDE DEF z
      <3> QED
          BY <2>3, SquareStep
    <2>7. S[0] = u[0] /\ P[0] = w[0]
        BY DEF Partial
    <2>8. t * z = t * w[0] - vote(0) /\ vote(0) \in Int /\ t * w[0] \in Int
      <3>1. vote(0) = Scale * (t * ((2 * u[0]) + 1))
          BY <2>7 DEF Vote
      <3> HIDE DEF z, vote
      <3>2. CASE t = 1
          BY <1>1, <2>1, <2>3, <3>1, <3>2
      <3>3. CASE t = -1
        <4>1. vote(0) = -c
            BY <1>1, <2>1, <3>1, <3>3
        <4> HIDE DEF c
        <4> QED
            BY <2>1, <2>3, <3>3, <4>1
      <3> QED
          BY <3>2, <3>3
    <2> HIDE DEF vote, z
    <2>9. z * z \in Int
        BY <2>3
    <2>10. Law(0)
        BY <2>5, <2>6, <2>7, <2>8, <2>9
    <2> QED
        BY <2>10
  <1>3. ASSUME NEW m \in Nat, m \in T PROVE m + 1 \in T
    <2> SUFFICES ASSUME m + 1 <= historylength PROVE Law(m + 1)
        OBVIOUS
    <2>15. PICK i \in Nat : i = m + 1
        OBVIOUS
    <2>1. /\ i \in 1 .. historylength /\ i \in 0 .. historylength /\ i # 0
          /\ i - 1 = m /\ m \in 0 .. historylength /\ m <= historylength
        BY <1>1, <2>15
    <2>2. /\ w[i] \in Int /\ u[i] \in Int /\ h[i] \in {-1, 1}
          /\ f[m] \in Int /\ g[m] \in Int /\ P[m] \in Int /\ S[m] \in Int
        BY <2>1 DEF Weights, History, Apart, Partial
    <2>3. Goal(u, i) = Scale * (2 * u[i]) /\ Goal(u, i) \in Int
        BY <2>1, GoalIs
    <2>17. PICK z \in Int : z = w[i] - Goal(u, i)
        BY <2>2, <2>3
    <2>4. /\ f[i] = f[m] + z * z
          /\ g[i] = g[m] + (v[i] - Goal(u, i)) * (v[i] - Goal(u, i))
          /\ P[i] = P[m] + w[i] * h[i] /\ S[i] = S[m] + u[i] * h[i]
        BY <2>1, <2>17 DEF Apart, Partial
    <2>5. v[i] = w[i] + t * h[i]
        BY <2>1 DEF Stepped
    <2>6. v[i] - Goal(u, i) = z + t * h[i] /\ z \in Int
        BY <2>2, <2>3, <2>5, <2>17
    <2>7. (z + t * h[i]) * (z + t * h[i]) =
            z * z + 2 * (t * (w[i] * h[i]))
                - 2 * (Scale * (t * (2 * (u[i] * h[i])))) + 1
      <3>1. GapIs(z, w[i], u[i], Scale)
          BY <2>3, <2>17 DEF GapIs
      <3>2. SquareIs(z, w[i], u[i], Scale, t, h[i])
          BY <1>1, <2>2, <3>1, TermStep
      <3> QED
          BY <3>2 DEF SquareIs
    <2>18. PICK a \in Int : a = w[i] * h[i]
        BY <2>2
    <2>8. PICK b \in Int : b = u[i] * h[i]
        BY <2>2
    <2>9. /\ vote(i) = vote(m) + More(Scale, t, b)
          /\ vote(m) \in Int /\ More(Scale, t, b) \in Int
      <3>1. Adds(S[i], S[m], b)
          BY <2>4, <2>8 DEF Adds
      <3> QED
          BY <1>1, <2>2, <3>1, VoteStep
    <2>10. /\ t * P[i] = t * P[m] + t * a
           /\ t * P[m] \in Int /\ t * a \in Int
      <3>1. Adds(P[i], P[m], a)
          BY <2>4, <2>18 DEF Adds
      <3>2. Adds(t * P[i], t * P[m], t * a) /\ t * P[m] \in Int /\ t * a \in Int
          BY <2>2, <3>1, SignedSum
      <3> QED
          BY <3>2 DEF Adds
    <2>11. Law(m)
        BY <1>3, <2>1
    <2>12. z * z \in Int
        BY <2>6
    <2>13. g[i] = g[m] + (z * z + 2 * (t * a) - 2 * More(Scale, t, b) + 1)
        BY <2>4, <2>6, <2>7, <2>8, <2>18 DEF More
    <2>14. f[i] = f[m] + z * z
        BY <2>4
    <2> HIDE DEF vote
    <2> DEFINE e == More(Scale, t, b)
    <2>16. Law(i)
      <3>1. /\ g[m] = f[m] + 2 * (t * P[m]) - 2 * vote(m) + (m + 1)
            /\ g[i] = g[m] + (z * z + 2 * (t * a) - 2 * e + 1)
            /\ f[i] = f[m] + z * z /\ t * P[i] = t * P[m] + t * a
            /\ vote(i) = vote(m) + e /\ i = m + 1
            /\ e \in Int /\ vote(m) \in Int
          BY <2>9, <2>10, <2>11, <2>13, <2>14, <2>15
      <3> HIDE DEF e, Law
      <3>2. PICK tp \in Int : tp = t * P[m]
          BY <2>10
      <3>3. PICK ta \in Int : ta = t * a
          BY <2>10
      <3>4. PICK zz \in Int : zz = z * z
          BY <2>12
      <3>5. PICK tq \in Int : tq = t * P[i] /\ tq = tp + ta
          BY <3>1, <3>2, <3>3
      <3>7. vote(i) \in Int /\ f[i] \in Int /\ f[i] = f[m] + zz
          BY <2>2, <3>1, <3>4
      <3>8. g[m] = f[m] + 2 * tp - 2 * vote(m) + (m + 1)
          BY <3>1, <3>2
      <3>9. g[i] = g[m] + (zz + 2 * ta - 2 * e + 1)
          BY <3>1, <3>3, <3>4
      <3> HIDE DEF vote
      <3>10. PICK vm \in Int, ee \in Int : vm = vote(m) /\ ee = e
          BY <3>1
      <3>11. vote(i) = vm + ee /\ i = m + 1 /\ f[m] \in Int
          BY <2>2, <3>1, <3>10
      <3>12. g[i] = (f[m] + 2 * tp - 2 * vm + (m + 1)) + (zz + 2 * ta - 2 * ee + 1)
          BY <3>8, <3>9, <3>10
      <3>6. g[i] = f[i] + 2 * tq - 2 * vote(i) + (i + 1)
          BY <3>5, <3>7, <3>11, <3>12
      <3> QED
          BY <3>5, <3>6 DEF Law
    <2> QED
        BY <2>15, <2>16
  <1> HIDE DEF T
  <1>4. historylength \in T
      BY <1>1, <1>2, <1>3, Induction
  <1> QED
      BY <1>1, <1>4 DEF T, Vote

\* A training that is due, of a perceptron that can do better, approaches.
LEMMA DueTrainingApproaches ==
    ASSUME NEW u \in Weights, NEW w \in Weights, NEW v \in Weights,
           NEW h \in History, NEW t \in {-1, 1}, Stepped(v, w, h, t),
           NEW P, Partial(P, w, h, historylength),
           NEW S, Partial(S, u, h, historylength),
           t * P[historylength] <= threshold,
           IF t = 1 THEN S[historylength] >= 0 ELSE S[historylength] < 0
    PROVE  /\ Distance(u, v) < Distance(u, w)
           /\ Distance(u, v) \in Int /\ Distance(u, w) \in Int
  <1> DEFINE n == historylength
  <1>1. n \in Nat /\ Scale \in Nat \ {0} /\ threshold \in Nat
        /\ Scale = threshold + n + 1
      BY ScaleIs DEF Scale
  <1>2. PICK f : Apart(f, u, w) /\ Distance(u, w) = f[n]
      BY DistanceIs
  <1>3. PICK g : Apart(g, u, v) /\ Distance(u, v) = g[n]
      BY DistanceIs
  <1>4. /\ f[n] \in Int /\ g[n] \in Int /\ P[n] \in Int /\ S[n] \in Int
      BY <1>1, <1>2, <1>3 DEF Apart, Partial
  <1> DEFINE k == t * ((2 * S[n]) + 1)
  <1>5. k \in Int /\ k >= 1
      BY <1>4
  <1>6. g[n] = f[n] + 2 * (t * P[n]) - 2 * (Scale * k) + (n + 1)
      BY <1>2, <1>3, DistanceStep
  <1> HIDE DEF k
  <1>7. Scale * k \in Int /\ Scale * k >= Scale
      BY <1>1, <1>5, ProductIsAtLeast
  <1>8. t * P[n] \in Int /\ t * P[n] <= threshold
      BY <1>4
  <1> HIDE DEF n
  <1>9. g[n] < f[n]
      BY <1>1, <1>4, <1>6, <1>7, <1>8
  <1> QED
      BY <1>2, <1>3, <1>4, <1>9 DEF n
-----------------------------------------------------------------------------
(* How far a distance reaches.                                             *)

LEMMA SquareBounds ==
    ASSUME NEW z \in Int
    PROVE  z * z \in Int /\ z * z >= 0 /\ z <= z * z /\ -(z * z) <= z
  <1>1. CASE z >= 1
    <2>1. z * z >= z
        BY <1>1, ProductIsAtLeast
    <2> QED
        BY <1>1, <2>1
  <1>2. CASE z = 0
      BY <1>2
  <1>3. CASE z <= -1
    <2>1. (-z) * (-z) >= -z
        BY <1>3, ProductIsAtLeast
    <2>2. (-z) * (-z) = z * z
        OBVIOUS
    <2> QED
        BY <1>3, <2>1, <2>2
  <1> QED
      BY <1>1, <1>2, <1>3

LEMMA SquareIsMonotone ==
    ASSUME NEW z \in Int, NEW d \in Nat, -d <= z, z <= d
    PROVE  z * z <= d * d /\ d * d \in Nat
  <1>1. d * d \in Nat
      OBVIOUS
  <1>2. (d - z) * (d + z) >= 0
    <2>1. d - z \in Nat /\ d + z \in Nat
        OBVIOUS
    <2> DEFINE a == d - z  b == d + z
    <2> HIDE DEF a, b
    <2>2. a * b >= 0
        BY <2>1 DEF a, b
    <2> QED
        BY <2>2 DEF a, b
  <1>3. (d - z) * (d + z) = d * d - z * z
      OBVIOUS
  <1> QED
      BY <1>1, <1>2, <1>3

\* No weight is farther from its goal than the distance says.
LEMMA GapsAreBelow ==
    ASSUME NEW u \in Weights, NEW w \in Weights
    PROVE  /\ Distance(u, w) \in Nat
           /\ \A i \in 0 .. historylength :
                -Distance(u, w) <= w[i] - Goal(u, i)
                    /\ w[i] - Goal(u, i) <= Distance(u, w)
  <1> DEFINE gap(i) == w[i] - Goal(u, i)
  <1>1. historylength \in Nat /\ \A i \in 0 .. historylength : gap(i) \in Int
      BY ScaleIs, GoalIs DEF Weights
  <1>2. PICK f : Apart(f, u, w) /\ Distance(u, w) = f[historylength]
      BY DistanceIs
  <1>3. /\ \A i \in 0 .. historylength : f[i] \in Int
        /\ f[0] = gap(0) * gap(0)
        /\ \A i \in 1 .. historylength : f[i] = f[i - 1] + gap(i) * gap(i)
      BY <1>2 DEF Apart
  <1> HIDE DEF gap
  <1> DEFINE Below(m) == /\ f[m] >= 0
                         /\ \A i \in 0 .. m : -f[m] <= gap(i) /\ gap(i) <= f[m]
             T == {m \in Nat : m <= historylength => Below(m)}
  <1>4. 0 \in T
    <2>1. gap(0) \in Int /\ 0 .. 0 = {0}
        BY <1>1
    <2> QED
        BY <1>3, <2>1, SquareBounds
  <1>5. ASSUME NEW m \in Nat, m \in T PROVE m + 1 \in T
    <2> SUFFICES ASSUME m + 1 <= historylength PROVE Below(m + 1)
        OBVIOUS
    <2>1. PICK n \in 1 .. historylength : n = m + 1
        OBVIOUS
    <2>2. n - 1 = m /\ m \in 0 .. historylength /\ n \in 0 .. historylength
          /\ m <= historylength
        BY <1>1, <2>1
    <2>3. PICK sq \in Int : sq = gap(n) * gap(n) /\ sq >= 0
                            /\ gap(n) <= sq /\ -sq <= gap(n)
        BY <1>1, <2>2, SquareBounds
    <2>4. f[n] = f[m] + sq /\ f[m] \in Int /\ f[n] \in Int /\ gap(n) \in Int
        BY <1>1, <1>3, <2>2, <2>3
    <2>5. Below(m)
        BY <1>5, <2>2
    <2>6. ASSUME NEW i \in 0 .. n PROVE -f[n] <= gap(i) /\ gap(i) <= f[n]
      <3>1. CASE i = n
          BY <2>3, <2>4, <2>5, <3>1
      <3>2. CASE i # n
        <4>1. i \in 0 .. m /\ gap(i) \in Int
            BY <1>1, <2>2, <3>2
        <4> QED
            BY <2>3, <2>4, <2>5, <4>1
      <3> QED
          BY <3>1, <3>2
    <2>7. f[n] >= 0
        BY <2>3, <2>4, <2>5
    <2> QED
        BY <2>1, <2>6, <2>7
  <1> HIDE DEF T
  <1>6. historylength \in T
      BY <1>1, <1>4, <1>5, Induction
  <1>7. Below(historylength) /\ f[historylength] \in Int
      BY <1>1, <1>3, <1>6 DEF T
  <1> QED
      BY <1>2, <1>7 DEF gap

\* Weights that are near their goals one by one are near them together.
LEMMA DistanceIsBelow ==
    ASSUME NEW u \in Weights, NEW w \in Weights, NEW d \in Nat,
           \A i \in 0 .. historylength :
                -d <= w[i] - Goal(u, i) /\ w[i] - Goal(u, i) <= d
    PROVE  Distance(u, w) <= (historylength + 1) * (d * d)
  <1> DEFINE gap(i) == w[i] - Goal(u, i)
             dd == d * d
  <1>1. historylength \in Nat /\ \A i \in 0 .. historylength : gap(i) \in Int
      BY ScaleIs, GoalIs DEF Weights
  <1>2. PICK f : Apart(f, u, w) /\ Distance(u, w) = f[historylength]
      BY DistanceIs
  <1>3. /\ \A i \in 0 .. historylength : f[i] \in Int
        /\ f[0] = gap(0) * gap(0)
        /\ \A i \in 1 .. historylength : f[i] = f[i - 1] + gap(i) * gap(i)
      BY <1>2 DEF Apart
  <1>4. \A i \in 0 .. historylength : -d <= gap(i) /\ gap(i) <= d
      OBVIOUS
  <1> HIDE DEF gap
  <1>5. /\ dd \in Nat
        /\ \A i \in 0 .. historylength : gap(i) * gap(i) \in Int /\ gap(i) * gap(i) <= dd
      BY <1>1, <1>4, SquareIsMonotone
  <1> HIDE DEF dd
  <1> DEFINE T == {m \in Nat : m <= historylength => f[m] <= (m + 1) * dd}
  <1>6. 0 \in T
    <2>1. 0 \in 0 .. historylength /\ (0 + 1) * dd = dd
        BY <1>1, <1>5
    <2> QED
        BY <1>3, <1>5, <2>1
  <1>7. ASSUME NEW m \in Nat, m \in T PROVE m + 1 \in T
    <2> SUFFICES ASSUME m + 1 <= historylength PROVE f[m + 1] <= ((m + 1) + 1) * dd
        OBVIOUS
    <2>1. PICK n \in 1 .. historylength : n = m + 1
        OBVIOUS
    <2>2. n - 1 = m /\ m \in 0 .. historylength /\ n \in 0 .. historylength
          /\ m <= historylength
        BY <1>1, <2>1
    <2>3. PICK sq \in Int : sq = gap(n) * gap(n) /\ sq <= dd
        BY <1>5, <2>2
    <2>4. f[n] = f[m] + sq /\ f[m] \in Int
        BY <1>3, <2>2, <2>3
    <2>5. f[m] <= (m + 1) * dd
        BY <1>7, <2>2
    <2>6. ((m + 1) + 1) * dd = (m + 1) * dd + dd /\ (m + 1) * dd \in Int
        BY <1>5
    <2> QED
        BY <1>5, <2>1, <2>3, <2>4, <2>5, <2>6
  <1> HIDE DEF T
  <1>8. historylength \in T
      BY <1>1, <1>6, <1>7, Induction
  <1> QED
      BY <1>1, <1>2, <1>8 DEF T, dd
-----------------------------------------------------------------------------
(* The history: after k branches it has the last k outcomes of the loop.   *)

\* The bits updatehistoryregister keeps; it sets the first in any case.
Bits == IF HistoryKept = 0 THEN 1 ELSE HistoryKept
Follows(k) ==
    \A n \in 1 .. historylength :
        historyregister[n] = IF n <= k THEN PastOutcome(program, pos, n) ELSE -1

LEMMA BitsIs == Bits \in Nat \ {0} /\ HistoryKept \in Nat
  BY SizeAssumption DEF Bits

LEMMA SteadyFollows ==
    ASSUME NEW k \in Nat, k >= Bits
    PROVE  Follows(k) <=> Steady
  <1>1. \A n \in 1 .. historylength :
            ~(n <= k) => PastOutcome(program, pos, n) = -1
      BY BitsIs, SizeAssumption DEF PastOutcome, Bits
  <1>2. \A n \in 1 .. historylength :
            (IF n <= k THEN PastOutcome(program, pos, n) ELSE -1)
                = PastOutcome(program, pos, n)
      BY <1>1
  <1> QED
      BY <1>2 DEF Follows, Steady

\* The same of the next state.
LEMMA SteadyFollowsThen ==
    ASSUME NEW k \in Nat, k >= Bits, Follows(k)'
    PROVE  Steady'
  <1>1. \A n \in 1 .. historylength :
            ~(n <= k) => PastOutcome(program, pos, n)' = -1
      BY BitsIs, SizeAssumption DEF PastOutcome, Bits
  <1> QED
      BY <1>1 DEF Follows, Steady

LEMMA RestOfRest ==
    ASSUME NEW d \in Nat \ {0}, NEW x \in Int, NEW n \in Int
    PROVE  ((x % d) - n) % d = (x - n) % d
  <1> DEFINE q == x \div d  r == x % d  p == (r - n) \div d  s == (r - n) % d
  <1>1. q \in Int /\ r \in 0 .. d - 1 /\ x = (d * q) + r
      BY DivisionIs
  <1>2. p \in Int /\ s \in 0 .. d - 1 /\ r - n = (d * p) + s
    <2>1. r - n \in Int
        BY <1>1
    <2> HIDE DEF r
    <2> QED
        BY <2>1, DivisionIs
  <1> HIDE DEF q, r, p, s
  <1>3. x - n = (d * (q + p)) + s
    <2>1. d * (q + p) = d * q + d * p /\ d * q \in Int /\ d * p \in Int
        BY <1>1, <1>2
    <2> QED
        BY <1>1, <1>2, <2>1
  <1>4. (x - n) % d = s
      BY <1>1, <1>2, <1>3, DivisionBy
  <1> QED
      BY <1>4 DEF s, r

\* Seen from the next branch, the outcomes are one branch further back.
LEMMA OutcomesShift ==
    ASSUME NEW p, Len(p) \in Nat \ {0}, NEW i \in 1 .. Len(p),
           NEW n \in Nat \ {0}
    PROVE  PastOutcome(p, (i % Len(p)) + 1, n) =
            IF n = 1 THEN (IF p[i].taken THEN 1 ELSE -1)
            ELSE IF n > HistoryKept THEN -1
            ELSE PastOutcome(p, i, n - 1)
  <1> DEFINE d == Len(p)
             back(j, m) == ((j - 1 - m) % d) + 1
  <1>1. d \in Nat \ {0} /\ i \in 1 .. d
      OBVIOUS
  <1> HIDE DEF d
  <1>2. back((i % d) + 1, n) = ((i - n) % d) + 1
    <2>1. i % d \in Int
        BY <1>1
    <2>2. ((i % d) + 1) - 1 - n = (i % d) - n
        BY <2>1
    <2>3. ((i % d) - n) % d = (i - n) % d
      <3>1. \A x \in Int, m \in Int : ((x % d) - m) % d = (x - m) % d
          BY <1>1, RestOfRest
      <3>2. i \in Int /\ n \in Int
          BY <1>1
      <3> QED
          BY <3>1, <3>2, Zenon
    <2> QED
        BY <2>2, <2>3
  <1>3. CASE n = 1
    <2>1. (i - n) % d = i - 1
      <3>1. i - 1 \in 0 .. d - 1
          BY <1>1
      <3> QED
          BY <1>1, <1>3, <3>1, SmallRest
    <2>2. back((i % d) + 1, n) = i
        BY <1>1, <1>2, <2>1
    <2>3. PastOutcome(p, (i % d) + 1, n) =
            IF p[back((i % d) + 1, n)].taken THEN 1 ELSE -1
        BY <1>3 DEF PastOutcome, d
    <2> HIDE DEF back
    <2> QED
        BY <1>3, <2>2, <2>3 DEF d
  <1>4. CASE n # 1
    <2>1. n - 1 \in Nat \ {0} /\ i - 1 - (n - 1) = i - n
        BY <1>1, <1>4
    <2>2. back(i, n - 1) = ((i - n) % d) + 1
        BY <2>1
    <2>3. PastOutcome(p, (i % d) + 1, n) =
            IF n > HistoryKept THEN -1
            ELSE IF p[back((i % d) + 1, n)].taken THEN 1 ELSE -1
        BY <1>4 DEF PastOutcome, d
    <2>4. n <= HistoryKept =>
            PastOutcome(p, i, n - 1) = IF p[back(i, n - 1)].taken THEN 1 ELSE -1
        BY <2>1, BitsIs DEF PastOutcome, d
    <2> HIDE DEF back
    <2> QED
        BY <1>2, <1>4, <2>2, <2>3, <2>4, BitsIs DEF d
  <1> QED
      BY <1>3, <1>4

LEMMA FollowsOn ==
    ASSUME TypeOK, Execute, NEW k \in Nat, Follows(k)
    PROVE  Follows(k + 1)'
  <1>1. /\ Len(program) \in Nat \ {0} /\ pos \in 1 .. Len(program)
        /\ program' = program /\ pos' = (pos % Len(program)) + 1
        /\ historyregister' = Shifted(Current.taken)
        /\ historylength \in Nat
      BY ProgramFacts, ScaleIs DEF Execute, TypeOK
  <1>2. ASSUME NEW n \in 1 .. historylength
        PROVE  historyregister'[n] =
                    IF n <= k + 1 THEN PastOutcome(program, pos', n) ELSE -1
    <2>1. historyregister'[n] =
            IF n = 1 THEN (IF Current.taken THEN 1 ELSE -1)
            ELSE IF n <= HistoryKept THEN historyregister[n - 1] ELSE -1
        BY <1>1 DEF Shifted
    <2>2. PastOutcome(program, pos', n) =
            IF n = 1 THEN (IF Current.taken THEN 1 ELSE -1)
            ELSE IF n > HistoryKept THEN -1
            ELSE PastOutcome(program, pos, n - 1)
        BY <1>1, OutcomesShift DEF Current
    <2>3. CASE n = 1
        BY <2>1, <2>2, <2>3
    <2>4. CASE n # 1 /\ n <= HistoryKept
      <3>1. n - 1 \in 1 .. historylength
          BY <1>1, <2>4
      <3>2. historyregister[n - 1] =
                IF n - 1 <= k THEN PastOutcome(program, pos, n - 1) ELSE -1
          BY <3>1 DEF Follows
      <3>3. n - 1 <= k <=> n <= k + 1
          OBVIOUS
      <3> QED
          BY <2>1, <2>2, <2>4, <3>2, <3>3, BitsIs
    <2>5. CASE n # 1 /\ ~(n <= HistoryKept)
        BY <2>1, <2>2, <2>5, BitsIs
    <2> QED
        BY <2>3, <2>4, <2>5
  <1> QED
      BY <1>1, <1>2 DEF Follows
-----------------------------------------------------------------------------
(* The invariant of learning.  In the first cycles, in which the history   *)
(* still shows what Init put there, weights are no larger than the number  *)
(* of branches executed; from then on no distance grows.                   *)

Farthest == Bits + 3 * Scale
Budget == (historylength + 1) * (Farthest * Farthest)
\* A weight has room for what learning needs.
Wide == Budget + 3 * Scale < WeightMod \div 2

Learns == strategy = "PERCEPTRON" /\ Spaced
\* What decode left belongs to the branch that waits.
Sure ==
    waiting # NoBranch =>
        /\ waiting.predicted <=> Output(waiting.pc) >= 0
        /\ yout = Abs(Output(waiting.pc))
Small(k) ==
    \A id \in 0 .. perceptronnumber - 1 : \A i \in 0 .. historylength :
        -k <= perceptronTable[id][i] /\ perceptronTable[id][i] <= k
Warm == \E k \in 0 .. Bits - 1 : Follows(k) /\ Small(k)
Near ==
    \A id \in 0 .. perceptronnumber - 1 : \A u \in SmallWeights :
        Separates(u, program, id) => Distance(u, perceptronTable[id]) <= Budget
LearnInv == TypeOK /\ (Learns => Sure /\ Near /\ (Steady \/ Warm))

LEMMA BudgetIs == Farthest \in Nat /\ Farthest <= Budget /\ Budget \in Nat
  <1>1. Farthest \in Nat \ {0} /\ historylength \in Nat
      BY BitsIs, ScaleIs DEF Farthest
  <1> HIDE DEF Farthest
  <1>2. Farthest * Farthest \in Nat /\ Farthest * Farthest >= Farthest
      BY <1>1, ProductIsAtLeast
  <1>3. PICK ff \in Nat : ff = Farthest * Farthest
      BY <1>2
  <1>4. Budget = historylength * ff + ff /\ historylength * ff \in Nat
      BY <1>1, <1>3 DEF Budget
  <1> QED
      BY <1>1, <1>2, <1>3, <1>4

LEMMA SmallWeightsIs ==
    ASSUME NEW u \in SmallWeights
    PROVE  /\ u \in Weights
           /\ \A i \in 0 .. historylength :
                /\ Goal(u, i) \in Int
                /\ -(3 * Scale) <= Goal(u, i) /\ Goal(u, i) <= 3 * Scale
  <1>1. u \in Weights
      BY DEF SmallWeights, Weights
  <1>2. ASSUME NEW i \in 0 .. historylength
        PROVE  /\ Goal(u, i) \in Int
               /\ -(3 * Scale) <= Goal(u, i) /\ Goal(u, i) <= 3 * Scale
    <2>1. u[i] \in {-1, 0, 1} /\ Scale \in Nat
        BY ScaleIs DEF SmallWeights
    <2>2. /\ i = 0 => Goal(u, i) = Scale * ((2 * u[i]) + 1)
          /\ i # 0 => Goal(u, i) = Scale * (2 * u[i])
        BY <1>1, GoalIs
    <2>3. CASE u[i] = -1
      <3>1. (2 * u[i]) + 1 = -1 /\ 2 * u[i] = -2
          BY <2>3
      <3> QED
          BY <2>1, <2>2, <3>1
    <2>4. CASE u[i] = 0
      <3>1. (2 * u[i]) + 1 = 1 /\ 2 * u[i] = 0
          BY <2>4
      <3> QED
          BY <2>1, <2>2, <3>1
    <2>5. CASE u[i] = 1
      <3>1. (2 * u[i]) + 1 = 3 /\ 2 * u[i] = 2
          BY <2>5
      <3> QED
          BY <2>1, <2>2, <3>1
    <2> QED
        BY <2>1, <2>3, <2>4, <2>5
  <1> QED
      BY <1>1, <1>2

LEMMA TableIs ==
    ASSUME TypeOK
    PROVE  /\ perceptronTable \in Table /\ historyregister \in History
           /\ \A id \in 0 .. perceptronnumber - 1 :
                /\ perceptronTable[id] \in [0 .. historylength -> Weight]
                /\ perceptronTable[id] \in Weights
           /\ WeightMod \div 2 \in Nat
  <1>1. WeightMod \div 2 \in Nat
      BY SizeAssumption
  <1> QED
      BY <1>1 DEF TypeOK, Table, History, Weights, Weight

LEMMA SmallIsNear ==
    ASSUME NEW w \in Weights, NEW k \in 0 .. Bits,
           \A i \in 0 .. historylength : -k <= w[i] /\ w[i] <= k,
           NEW u \in SmallWeights
    PROVE  Distance(u, w) <= Budget
  <1>1. u \in Weights
      BY SmallWeightsIs
  <1>2. ASSUME NEW i \in 0 .. historylength
        PROVE  -Farthest <= w[i] - Goal(u, i) /\ w[i] - Goal(u, i) <= Farthest
    <2>1. /\ w[i] \in Int /\ -k <= w[i] /\ w[i] <= k
          /\ k \in Nat /\ k <= Bits /\ Bits \in Nat
      <3>1. w[i] \in Int
          BY DEF Weights
      <3> QED
          BY <3>1, BitsIs
    <2>2. /\ Goal(u, i) \in Int
          /\ -(3 * Scale) <= Goal(u, i) /\ Goal(u, i) <= 3 * Scale
        BY SmallWeightsIs
    <2> QED
        BY <2>1, <2>2, ScaleIs DEF Farthest
  <1>3. Distance(u, w) <= (historylength + 1) * (Farthest * Farthest)
      BY <1>1, <1>2, BudgetIs, DistanceIsBelow
  <1> QED
      BY <1>3 DEF Budget

\* A weight that is near its goal is small.
LEMMA NearIsSmall ==
    ASSUME NEW u \in SmallWeights, NEW w \in Weights, Distance(u, w) <= Budget,
           NEW i \in 0 .. historylength
    PROVE  -(Budget + 3 * Scale) <= w[i] /\ w[i] <= Budget + 3 * Scale
  <1>1. u \in Weights /\ w[i] \in Int /\ Goal(u, i) \in Int
        /\ -(3 * Scale) <= Goal(u, i) /\ Goal(u, i) <= 3 * Scale
      BY SmallWeightsIs DEF Weights
  <1>2. /\ Distance(u, w) \in Nat
        /\ -Distance(u, w) <= w[i] - Goal(u, i)
        /\ w[i] - Goal(u, i) <= Distance(u, w)
      BY <1>1, GapsAreBelow
  <1> QED
      BY <1>1, <1>2, BudgetIs, ScaleIs

LEMMA WrapIsNothing ==
    ASSUME NEW n \in Int, n < WeightMod \div 2, -(WeightMod \div 2) <= n
    PROVE  Wrap(n) = n
  <1> DEFINE half == WeightMod \div 2
  <1>1. half \in Nat /\ WeightMod = half + half /\ WeightMod \in Nat \ {0}
      BY SizeAssumption
  <1>2. n + half \in 0 .. WeightMod - 1
      BY <1>1
  <1>3. (n + half) % WeightMod = n + half
      BY <1>1, <1>2, SmallRest
  <1> QED
      BY <1>1, <1>3 DEF Wrap

\* The outcome as a number.
Sign(taken) == IF taken THEN 1 ELSE -1
Unwrapped(w, h, t) ==
    [i \in 0 .. historylength |-> w[i] + (IF i = 0 THEN t ELSE t * h[i])]
InRange(v) ==
    \A i \in 0 .. historylength :
        v[i] < WeightMod \div 2 /\ -(WeightMod \div 2) <= v[i]

LEMMA UnwrappedIs ==
    ASSUME NEW w \in Weights, NEW h \in History, NEW t \in {-1, 1},
           NEW v, v = Unwrapped(w, h, t)
    PROVE  v \in Weights /\ Stepped(v, w, h, t)
           /\ \A i \in 0 .. historylength : v[i] - w[i] \in {-1, 1}
  <1>1. ASSUME NEW i \in 0 .. historylength
        PROVE  /\ (IF i = 0 THEN t ELSE t * h[i]) \in {-1, 1}
               /\ w[i] \in Int
               /\ v[i] = w[i] + (IF i = 0 THEN t ELSE t * h[i])
    <2>1. i # 0 => h[i] \in {-1, 1}
        BY ScaleIs DEF History
    <2>2. i # 0 => t * h[i] \in {-1, 1}
        BY <2>1
    <2> QED
        BY <2>2 DEF Weights, Unwrapped
  <1>2. v \in Weights /\ \A i \in 0 .. historylength : v[i] - w[i] \in {-1, 1}
    <2>1. \A i \in 0 .. historylength : v[i] \in Int /\ v[i] - w[i] \in {-1, 1}
        BY <1>1
    <2> QED
        BY <2>1 DEF Weights, Unwrapped
  <1>3. 0 \in 0 .. historylength
        /\ \A i \in 1 .. historylength : i \in 0 .. historylength /\ i # 0
      BY ScaleIs
  <1>4. Stepped(v, w, h, t)
      BY <1>1, <1>3 DEF Stepped
  <1> QED
      BY <1>2, <1>4

LEMMA TrainedIsUnwrapped ==
    ASSUME historyregister \in History, NEW w \in Weights, NEW taken \in BOOLEAN,
           NEW v, v = Unwrapped(w, historyregister, Sign(taken)), InRange(v)
    PROVE  Trained(w, taken) = v
  <1>1. Sign(taken) \in {-1, 1}
      BY DEF Sign
  <1>2. v \in Weights
      BY <1>1, UnwrappedIs
  <1>3. \A i \in 0 .. historylength : Wrap(v[i]) = v[i]
      BY <1>2, WrapIsNothing DEF InRange, Weights
  <1>4. Trained(w, taken) = [i \in 0 .. historylength |-> Wrap(v[i])]
      BY DEF Trained, Unwrapped, Sign
  <1> QED
      BY <1>2, <1>3, <1>4 DEF Weights
-----------------------------------------------------------------------------
(* One branch executed: what is trained, and what that does.               *)

\* The trainings that are due: the output is wrong or not far enough from 0.
Due(out, taken) == Sign(taken) * out <= threshold

LEMMA ExecuteTrains ==
    ASSUME TypeOK, Learns, Sure, Execute
    PROVE  /\ Current.pc \in Nat /\ Current.taken \in BOOLEAN
           /\ Current.pc % perceptronnumber \in 0 .. perceptronnumber - 1
           /\ waiting' = NoBranch /\ program' = program /\ strategy' = strategy
           /\ waiting.pc = Current.pc
           /\ \/ /\ perceptronTable' = perceptronTable
                 /\ waiting.predicted <=> Current.taken
              \/ /\ Due(Output(Current.pc), Current.taken)
                 /\ perceptronTable' =
                        [perceptronTable EXCEPT ![Current.pc % perceptronnumber] =
                            Trained(@, Current.taken)]
  <1>1. /\ waiting # NoBranch /\ waiting.pc = Current.pc /\ waiting.pc \in Nat
        /\ waiting.predicted \in BOOLEAN
      BY WaitingTyped DEF Execute
  <1>2. Current.taken \in BOOLEAN /\ Current.behind = NoPC
      BY ProgramFacts DEF Learns, Spaced, Current, Branch
  <1>3. Decoded = NoPC
      BY <1>1, <1>2 DEF Decoded
  <1>4. yout' = yout /\ waiting' = NoBranch
      BY <1>3 DEF Execute, Yout
  <1>5. Current.pc % perceptronnumber \in 0 .. perceptronnumber - 1
      BY <1>1, SizeAssumption
  <1>6. PICK out \in Int : out = Output(Current.pc)
      BY <1>1, TableIs, OutputIsInt
  <1>7. (waiting.predicted <=> out >= 0) /\ yout = Abs(out)
      BY <1>1, <1>6 DEF Sure
  <1>8. CASE Trains(Current.taken, waiting.predicted, yout)
    <2>1. perceptronTable' =
            [perceptronTable EXCEPT ![Current.pc % perceptronnumber] =
                Trained(@, Current.taken)]
        BY <1>1, <1>4, <1>8 DEF Execute
    <2>2. Due(out, Current.taken)
      <3>1. (waiting.predicted /\ ~Current.taken)
                \/ (~waiting.predicted /\ Current.taken) \/ yout <= threshold
          BY <1>1, <1>2, <1>8 DEF Trains
      <3>2. CASE Current.taken
          BY <1>6, <1>7, <3>1, <3>2, ScaleIs DEF Due, Sign, Abs
      <3>3. CASE ~Current.taken
          BY <1>6, <1>7, <3>1, <3>3, ScaleIs DEF Due, Sign, Abs
      <3> QED
          BY <3>2, <3>3
    <2> QED
        BY <1>1, <1>2, <1>4, <1>5, <1>6, <2>1, <2>2 DEF Execute
  <1>9. CASE ~Trains(Current.taken, waiting.predicted, yout)
    <2>1. perceptronTable' = perceptronTable
        BY <1>4, <1>9 DEF Execute
    <2>2. waiting.predicted <=> Current.taken
        BY <1>1, <1>2, <1>9 DEF Trains
    <2> QED
        BY <1>1, <1>2, <1>4, <1>5, <2>1, <2>2 DEF Execute
  <1> QED
      BY <1>8, <1>9

\* In the first cycles weights grow by at most one per branch.
LEMMA WarmStep ==
    ASSUME Wide, TypeOK, Learns, Sure, Execute, NEW k \in 0 .. Bits - 1,
           Follows(k), Small(k)
    PROVE  Follows(k + 1)' /\ Small(k + 1)'
  <1>1. k \in Nat /\ k + 1 <= Bits /\ Bits \in Nat
      BY BitsIs
  <1>2. Follows(k + 1)'
      BY <1>1, FollowsOn
  <1> DEFINE id == Current.pc % perceptronnumber
             w == perceptronTable[id]
             v == Unwrapped(w, historyregister, Sign(Current.taken))
  <1>3. /\ id \in 0 .. perceptronnumber - 1 /\ Current.taken \in BOOLEAN
        /\ perceptronTable' = perceptronTable
            \/ perceptronTable' =
                    [perceptronTable EXCEPT ![id] = Trained(w, Current.taken)]
      BY ExecuteTrains
  <1>4. w \in Weights /\ historyregister \in History /\ perceptronTable \in Table
      BY <1>3, TableIs
  <1>5. v \in Weights /\ \A i \in 0 .. historylength : v[i] - w[i] \in {-1, 1}
    <2>1. Sign(Current.taken) \in {-1, 1}
        BY DEF Sign
    <2> HIDE DEF w
    <2> QED
        BY <1>4, <2>1, UnwrappedIs
  <1>6. \A i \in 0 .. historylength : -k <= w[i] /\ w[i] <= k
      BY <1>3 DEF Small
  <1> HIDE DEF v, w, id
  <1>7. \A i \in 0 .. historylength : -(k + 1) <= v[i] /\ v[i] <= k + 1
    <2> TAKE i \in 0 .. historylength
    <2>1. v[i] \in Int /\ w[i] \in Int /\ v[i] - w[i] \in {-1, 1}
        BY <1>4, <1>5 DEF Weights
    <2> QED
        BY <1>1, <1>6, <2>1
  <1>8. InRange(v)
    <2>1. Bits + 3 * Scale <= Budget /\ Budget \in Nat /\ Scale \in Nat
          /\ Budget + 3 * Scale < WeightMod \div 2 /\ WeightMod \div 2 \in Nat
        BY BudgetIs, ScaleIs, TableIs DEF Farthest, Wide
    <2>2. ASSUME NEW i \in 0 .. historylength
          PROVE  v[i] < WeightMod \div 2 /\ -(WeightMod \div 2) <= v[i]
      <3>1. v[i] \in Int
          BY <1>5 DEF Weights
      <3> QED
          BY <1>1, <1>7, <2>1, <3>1
    <2> QED
        BY <2>2 DEF InRange
  <1>9. Trained(w, Current.taken) = v
      BY <1>3, <1>4, <1>8, TrainedIsUnwrapped DEF v
  <1>10. ASSUME NEW e \in 0 .. perceptronnumber - 1, NEW i \in 0 .. historylength
         PROVE  -(k + 1) <= perceptronTable'[e][i] /\ perceptronTable'[e][i] <= k + 1
    <2>1. /\ perceptronTable[e][i] \in Int
          /\ -k <= perceptronTable[e][i] /\ perceptronTable[e][i] <= k
      <3>1. perceptronTable[e] \in Weights
          BY TableIs
      <3> QED
          BY <3>1 DEF Small, Weights
    <2>2. CASE perceptronTable'[e] = perceptronTable[e]
        BY <1>1, <2>1, <2>2
    <2>3. CASE perceptronTable'[e] = v
        BY <1>7, <2>3
    <2> QED
        BY <1>3, <1>4, <1>9, <2>2, <2>3 DEF Table
  <1> QED
      BY <1>2, <1>10 DEF Small

\* With a history the loop has left, a training approaches every goal.
LEMMA SteadyStep ==
    ASSUME Wide, TypeOK, Learns, Sure, Near, Steady, Execute,
           NEW id \in 0 .. perceptronnumber - 1, NEW u \in SmallWeights,
           Separates(u, program, id)
    PROVE  /\ \/ perceptronTable'[id] = perceptronTable[id]
              \/ Distance(u, perceptronTable'[id]) < Distance(u, perceptronTable[id])
           /\ id = Current.pc % perceptronnumber
                    /\ ~(waiting.predicted <=> Current.taken) =>
                Distance(u, perceptronTable'[id]) < Distance(u, perceptronTable[id])
           /\ Distance(u, perceptronTable'[id]) \in Nat
           /\ Distance(u, perceptronTable[id]) \in Nat
  <1> DEFINE w == perceptronTable[id]
             h == historyregister
             t == Sign(Current.taken)
             v == Unwrapped(w, h, t)
  <1>1. /\ u \in Weights /\ w \in Weights /\ h \in History /\ t \in {-1, 1}
        /\ perceptronTable \in Table
      BY SmallWeightsIs, TableIs DEF Sign
  <1>2. v \in Weights /\ Stepped(v, w, h, t)
        /\ \A i \in 0 .. historylength : v[i] - w[i] \in {-1, 1}
    <2> HIDE DEF w, h, t
    <2> QED
        BY <1>1, UnwrappedIs
  <1>3. Distance(u, w) \in Nat /\ Distance(u, v) \in Nat
      BY <1>1, <1>2, GapsAreBelow
  <1>4. ASSUME id = Current.pc % perceptronnumber,
               Due(Output(Current.pc), Current.taken)
        PROVE  Distance(u, v) < Distance(u, w) /\ Trained(w, Current.taken) = v
    <2>1. Current.pc \in Nat /\ Current.taken \in BOOLEAN
        BY ExecuteTrains
    <2>2. PICK P : Partial(P, w, h, historylength)
                    /\ Output(Current.pc) = P[historylength]
        BY <1>1, <1>4, <2>1, OutputIsPartial
    <2>3. Past(program, pos) = h
        BY <1>1 DEF Steady, Past, History
    <2>4. PICK S : /\ Partial(S, u, h, historylength)
                   /\ IF Current.taken THEN S[historylength] >= 0
                      ELSE S[historylength] < 0
      <3>1. pos \in DOMAIN program /\ program[pos].pc % perceptronnumber = id
          BY <1>4, ProgramFacts DEF Current
      <3>2. \E S : /\ Partial(S, u, Past(program, pos), historylength)
                   /\ IF program[pos].taken THEN S[historylength] >= 0
                      ELSE S[historylength] < 0
          BY <1>1, <3>1, SeparatesIs
      <3> QED
          BY <2>3, <3>2 DEF Current
    <2>5. IF t = 1 THEN S[historylength] >= 0 ELSE S[historylength] < 0
        BY <2>1, <2>4 DEF Sign
    <2>6. t * P[historylength] <= threshold
        BY <1>4, <2>2 DEF Due
    <2> HIDE DEF v, w, h, t
    <2>7. Distance(u, v) < Distance(u, w)
        BY <1>1, <1>2, <2>2, <2>4, <2>5, <2>6, DueTrainingApproaches
    <2>8. Distance(u, w) <= Budget
        BY DEF Near, w
    <2>9. InRange(v)
      <3>1. Distance(u, v) <= Budget /\ Budget \in Nat /\ Scale \in Nat
            /\ Budget + 3 * Scale < WeightMod \div 2 /\ WeightMod \div 2 \in Nat
          BY <1>3, <2>7, <2>8, BudgetIs, ScaleIs, TableIs DEF Wide
      <3>2. ASSUME NEW i \in 0 .. historylength
            PROVE  v[i] < WeightMod \div 2 /\ -(WeightMod \div 2) <= v[i]
        <4>1. v[i] \in Int
            BY <1>2 DEF Weights
        <4>2. -(Budget + 3 * Scale) <= v[i] /\ v[i] <= Budget + 3 * Scale
            BY <1>2, <3>1, NearIsSmall
        <4> QED
            BY <3>1, <4>1, <4>2
      <3> QED
          BY <3>2 DEF InRange
    <2>10. Trained(w, Current.taken) = v
        BY <1>1, <2>1, <2>9, TrainedIsUnwrapped DEF v, h, t
    <2> QED
        BY <2>7, <2>10
  <1>5. CASE perceptronTable' = perceptronTable /\ (waiting.predicted <=> Current.taken)
      BY <1>3, <1>5
  <1>6. CASE /\ Due(Output(Current.pc), Current.taken)
             /\ perceptronTable' =
                    [perceptronTable EXCEPT ![Current.pc % perceptronnumber] =
                        Trained(@, Current.taken)]
    <2>1. CASE id = Current.pc % perceptronnumber
      <3>1. perceptronTable'[id] = v /\ Distance(u, v) < Distance(u, w)
          BY <1>1, <1>4, <1>6, <2>1 DEF Table
      <3> QED
          BY <1>3, <3>1
    <2>2. CASE id # Current.pc % perceptronnumber
      <3>1. perceptronTable'[id] = w
          BY <1>1, <1>6, <2>2 DEF Table
      <3> QED
          BY <1>3, <2>2, <3>1
    <2> QED
        BY <2>1, <2>2
  <1> QED
      BY <1>5, <1>6, ExecuteTrains
-----------------------------------------------------------------------------
LEMMA InitLearns == Init => LearnInv
  <1> SUFFICES ASSUME Init PROVE LearnInv
      OBVIOUS
  <1>1. TypeOK
      BY InitTyped
  <1>2. Sure
      BY DEF Init, Sure
  <1>3. 0 \in 0 .. Bits - 1 /\ 0 \in 0 .. Bits
      BY BitsIs
  <1>4. Follows(0)
      BY DEF Init, Follows
  <1>5. Small(0)
      BY DEF Init, Small
  <1>6. Near
    <2>1. \A id \in 0 .. perceptronnumber - 1 : perceptronTable[id] \in Weights
        BY <1>1, TableIs
    <2> QED
        BY <1>3, <1>5, <2>1, SmallIsNear DEF Near, Small
  <1> QED
      BY <1>1, <1>2, <1>3, <1>4, <1>5, <1>6 DEF LearnInv, Warm

\* A decode touches neither tables nor history.
LEMMA DecodeLearns ==
    ASSUME LearnInv, Decode
    PROVE  LearnInv'
  <1>1. TypeOK /\ TypeOK'
      BY DecodeTyped DEF LearnInv
  <1> SUFFICES ASSUME Learns' PROVE Sure' /\ Near' /\ (Steady' \/ Warm')
      BY <1>1 DEF LearnInv
  <1>2. Learns
      BY DEF Learns, Spaced, Decode
  <1>3. Near /\ (Steady \/ Warm)
      BY <1>2 DEF LearnInv
  <1>4. /\ program' = program /\ pos' = pos /\ perceptronTable' = perceptronTable
        /\ historyregister' = historyregister /\ Decoded = Current.pc
        /\ Current.pc \in PC /\ strategy = "PERCEPTRON"
      BY <1>1, <1>2, ProgramFacts DEF Decode, Decoded, Branch, Learns
  <1>5. Near' /\ (Steady' \/ Warm')
      BY <1>3, <1>4 DEF Near, Steady, Warm, Follows, Small
  <1>6. Sure'
    <2>1. waiting' = Prediction(Current.pc) /\ yout' = Yout(Current.pc)
        BY <1>4 DEF Decode
    <2>2. waiting'.pc = Current.pc /\ waiting'.predicted = predict(Current.pc)
        BY <2>1 DEF Prediction
    <2>3. predict(Current.pc) <=> Output(Current.pc) >= 0
        BY <1>4 DEF predict
    <2>4. yout' = Abs(Output(Current.pc))
        BY <1>4, <2>1, PCAssumption DEF Yout
    <2>5. Output(Current.pc)' = Output(Current.pc)
        BY <1>4 DEF Output, Current
    <2> QED
        BY <1>4, <2>2, <2>3, <2>4, <2>5 DEF Sure, Output
  <1> QED
      BY <1>5, <1>6

LEMMA ExecuteLearns ==
    ASSUME Wide, LearnInv, Execute
    PROVE  LearnInv'
  <1>1. TypeOK /\ TypeOK'
      BY ExecuteTyped DEF LearnInv
  <1> SUFFICES ASSUME Learns' PROVE Sure' /\ Near' /\ (Steady' \/ Warm')
      BY <1>1 DEF LearnInv
  <1>2. Learns
      BY DEF Learns, Spaced, Execute
  <1>3. Sure /\ Near /\ (Steady \/ Warm)
      BY <1>2 DEF LearnInv
  <1>4. waiting' = NoBranch /\ program' = program
      BY <1>1, <1>2, <1>3, ExecuteTrains
  <1>5. Sure'
      BY <1>4 DEF Sure, NoBranch
  <1>6. CASE Steady
    <2>1. Steady'
      <3>1. Bits \in Nat /\ Bits + 1 \in Nat /\ Bits >= Bits /\ Bits + 1 >= Bits
          BY BitsIs
      <3>2. Follows(Bits)
          BY <1>6, <3>1, SteadyFollows
      <3>3. Follows(Bits + 1)'
          BY <1>1, <3>1, <3>2, FollowsOn
      <3> QED
          BY <3>1, <3>3, SteadyFollowsThen
    <2>2. ASSUME NEW id \in 0 .. perceptronnumber - 1, NEW u \in SmallWeights,
                 Separates(u, program, id)
          PROVE  Distance(u, perceptronTable'[id]) <= Budget
      <3>1. Distance(u, perceptronTable[id]) <= Budget
          BY <1>3, <2>2 DEF Near
      <3> QED
          BY <1>1, <1>2, <1>3, <1>6, <2>2, <3>1, SteadyStep, BudgetIs
    <2> QED
        BY <1>4, <1>5, <2>1, <2>2 DEF Near
  <1>7. CASE Warm
    <2>1. PICK k \in 0 .. Bits - 1 : Follows(k) /\ Small(k)
        BY <1>7 DEF Warm
    <2>2. Follows(k + 1)' /\ Small(k + 1)'
        BY <1>1, <1>2, <1>3, <2>1, WarmStep
    <2>3. k + 1 \in 0 .. Bits /\ k + 1 \in Nat /\ Bits \in Nat
        BY BitsIs
    <2>4. Near'
      <3>1. \A id \in 0 .. perceptronnumber - 1 : perceptronTable'[id] \in Weights
        <4>1. WeightMod \div 2 \in Nat
            BY SizeAssumption
        <4> QED
            BY <1>1, <4>1 DEF TypeOK, Weights, Weight
      <3> QED
          BY <2>2, <2>3, <3>1, SmallIsNear DEF Near, Small
    <2>5. CASE k + 1 = Bits
      <3>1. Steady'
          BY <2>2, <2>3, <2>5, SteadyFollowsThen
      <3> QED
          BY <1>5, <2>4, <3>1
    <2>6. CASE k + 1 # Bits
      <3>1. k + 1 \in 0 .. Bits - 1
          BY <2>3, <2>6
      <3> QED
          BY <1>5, <2>2, <2>4, <3>1 DEF Warm
    <2> QED
        BY <2>5, <2>6
  <1> QED
      BY <1>3, <1>6, <1>7

LEMMA NextLearns == Wide /\ LearnInv /\ [Next]_vars => LearnInv'
  <1>1. ASSUME LearnInv, UNCHANGED vars PROVE LearnInv'
      BY <1>1 DEF LearnInv, TypeOK, Current, Learns, Spaced, Sure, Near, Steady,
                  Warm, Follows, Small, Output, vars
  <1> QED
      BY <1>1, DecodeLearns, ExecuteLearns DEF Next

LEMMA AlwaysLearns == ASSUME Wide PROVE Spec => []LearnInv
  <1>1. Init => LearnInv
      BY InitLearns
  <1>2. LearnInv /\ [Next]_vars => LearnInv'
      BY NextLearns
  <1> QED
      BY <1>1, <1>2, PTL DEF Spec

\* Every training of a perceptron that can do better brings it nearer to every
\* goal that does: the measure by which the perceptrons learn.
THEOREM TrainingsApproach == ASSUME Wide PROVE Spec => TrainingApproaches
  <1> DEFINE Approaches ==
        strategy = "PERCEPTRON" /\ Spaced /\ Steady =>
            \A id \in DOMAIN perceptronTable :
                perceptronTable'[id] # perceptronTable[id] =>
                    \A u \in SmallWeights : Separates(u, program, id) =>
                        Distance(u, perceptronTable'[id])
                            < Distance(u, perceptronTable[id])
  <1>1. ASSUME LearnInv, Next PROVE Approaches
    <2> SUFFICES ASSUME Learns, Steady,
                        NEW id \in 0 .. perceptronnumber - 1,
                        perceptronTable'[id] # perceptronTable[id],
                        NEW u \in SmallWeights, Separates(u, program, id)
                 PROVE  Distance(u, perceptronTable'[id])
                            < Distance(u, perceptronTable[id])
        BY <1>1, TableIs DEF Learns, LearnInv, Table
    <2>1. CASE Decode
        BY <2>1 DEF Decode
    <2>2. CASE Execute
        BY <1>1, <2>2, SteadyStep DEF LearnInv
    <2> QED
        BY <1>1, <2>1, <2>2 DEF Next
  <1>2. LearnInv /\ [Next]_vars => [Approaches]_vars
      BY <1>1
  <1>3. Spec => [][Approaches]_vars
      BY <1>2, AlwaysLearns, PTL DEF Spec
  <1> QED
      BY <1>3 DEF TrainingApproaches

\* Some small weights tell the branches of perceptron id apart.
CanLearn(id) == \E u \in SmallWeights : Separates(u, program, id)
WeightsNear ==
    Learns => \A id \in 0 .. perceptronnumber - 1 : CanLearn(id) =>
        \A i \in 0 .. historylength : Abs(perceptronTable[id][i]) <= Budget + 3 * Scale

\* The weights of a perceptron that can learn stay within a bound that the
\* history length and the threshold give, so that none ever wraps.
THEOREM WeightsKeepNear == ASSUME Wide PROVE Spec => []WeightsNear
  <1>1. ASSUME LearnInv PROVE WeightsNear
    <2> SUFFICES ASSUME Learns, NEW id \in 0 .. perceptronnumber - 1, CanLearn(id),
                        NEW i \in 0 .. historylength
                 PROVE  Abs(perceptronTable[id][i]) <= Budget + 3 * Scale
        BY DEF WeightsNear
    <2>1. PICK u \in SmallWeights : Separates(u, program, id)
        BY DEF CanLearn
    <2>2. perceptronTable[id] \in Weights /\ Distance(u, perceptronTable[id]) <= Budget
        BY <1>1, <2>1, TableIs DEF LearnInv, Near
    <2>3. -(Budget + 3 * Scale) <= perceptronTable[id][i]
            /\ perceptronTable[id][i] <= Budget + 3 * Scale
        BY <2>2, NearIsSmall
    <2>4. perceptronTable[id][i] \in Int /\ Budget \in Nat /\ Scale \in Nat
        BY <2>2, BudgetIs, ScaleIs DEF Weights
    <2> QED
        BY <2>3, <2>4 DEF Abs
  <1>2. LearnInv => WeightsNear
      BY <1>1
  <1> QED
      BY <1>2, AlwaysLearns, PTL
-----------------------------------------------------------------------------
(* How often a perceptron is wrong: a history variable counts its misses.  *)

VARIABLE misses
allvars == <<vars, misses>>

\* The branch that is executed now was mispredicted.
Missed(id) ==
    /\ waiting # NoBranch
    /\ waiting.pc % perceptronnumber = id
    /\ waiting.predicted # Current.taken
Counts ==
    misses' = [id \in 0 .. perceptronnumber - 1 |->
                    misses[id] + (IF Missed(id) THEN 1 ELSE 0)]
CountingSpec ==
    /\ Init /\ misses = [id \in 0 .. perceptronnumber - 1 |-> 0]
    /\ [][Next /\ Counts]_allvars
    /\ WF_vars(Next)

FewMisses ==
    Learns => \A id \in 0 .. perceptronnumber - 1 :
        CanLearn(id) => misses[id] <= Bits + Budget

\* A miss is paid for by the distance, or in the first cycles by the history.
Paid ==
    \A id \in 0 .. perceptronnumber - 1 : \A u \in SmallWeights :
        Separates(u, program, id) =>
            misses[id] + Distance(u, perceptronTable[id]) <= Bits + Budget
Starting(k) ==
    Follows(k) /\ Small(k)
        /\ \A id \in 0 .. perceptronnumber - 1 : misses[id] <= k
Counters == [0 .. perceptronnumber - 1 -> Nat]
CountInv ==
    /\ LearnInv /\ misses \in Counters
    /\ Learns => (Steady /\ Paid) \/ \E k \in 0 .. Bits - 1 : Starting(k)

LEMMA InitCounts ==
    Init /\ misses = [id \in 0 .. perceptronnumber - 1 |-> 0] => CountInv
  <1> SUFFICES ASSUME Init, misses = [id \in 0 .. perceptronnumber - 1 |-> 0]
               PROVE  CountInv
      OBVIOUS
  <1>1. LearnInv /\ misses \in Counters
      BY InitLearns DEF Counters
  <1>2. 0 \in 0 .. Bits - 1
      BY BitsIs
  <1>3. Starting(0)
      BY DEF Init, Starting, Follows, Small
  <1> QED
      BY <1>1, <1>2, <1>3 DEF CountInv

LEMMA ExecuteCounts ==
    ASSUME Wide, CountInv, Execute, Counts, Learns
    PROVE  (Steady' /\ Paid') \/ \E k \in 0 .. Bits - 1 : Starting(k)'
  <1>1. /\ TypeOK /\ Sure /\ Near /\ TypeOK' /\ LearnInv' /\ program' = program
        /\ misses \in Counters
      BY ExecuteTyped, ExecuteLearns DEF CountInv, LearnInv, Execute
  <1>2. /\ Current.pc % perceptronnumber \in 0 .. perceptronnumber - 1
        /\ waiting.pc = Current.pc /\ Current.taken \in BOOLEAN
        /\ waiting.predicted \in BOOLEAN
      BY <1>1, ExecuteTrains, WaitingTyped DEF Execute
  <1>3. \A id \in 0 .. perceptronnumber - 1 :
            misses'[id] = misses[id] + (IF Missed(id) THEN 1 ELSE 0)
      BY DEF Counts
  <1>4. CASE Steady /\ Paid
    <2>1. Steady'
      <3>1. Bits \in Nat /\ Bits + 1 \in Nat /\ Bits >= Bits /\ Bits + 1 >= Bits
          BY BitsIs
      <3>2. Follows(Bits)
          BY <1>4, <3>1, SteadyFollows
      <3>3. Follows(Bits + 1)'
          BY <1>1, <3>1, <3>2, FollowsOn
      <3> QED
          BY <3>1, <3>3, SteadyFollowsThen
    <2>2. ASSUME NEW id \in 0 .. perceptronnumber - 1, NEW u \in SmallWeights,
                 Separates(u, program, id)
          PROVE  misses'[id] + Distance(u, perceptronTable'[id]) <= Bits + Budget
      <3>1. misses[id] + Distance(u, perceptronTable[id]) <= Bits + Budget
            /\ misses[id] \in Nat /\ Bits + Budget \in Nat
          BY <1>1, <1>4, <2>2, BitsIs, BudgetIs DEF Paid, Counters
      <3>2. Missed(id) =>
                id = Current.pc % perceptronnumber
                    /\ ~(waiting.predicted <=> Current.taken)
          BY <1>2 DEF Missed
      <3>3. PICK a \in Nat : a = Distance(u, perceptronTable[id])
          BY <1>1, <1>4, <2>2, SteadyStep
      <3>4. PICK b \in Nat : b = Distance(u, perceptronTable'[id])
          BY <1>1, <1>4, <2>2, SteadyStep
      <3>5. b <= a /\ (Missed(id) => b < a)
          BY <1>1, <1>4, <2>2, <3>2, <3>3, <3>4, SteadyStep
      <3> QED
          BY <1>3, <3>1, <3>3, <3>4, <3>5
    <2> QED
        BY <1>1, <2>1, <2>2 DEF Paid
  <1>5. CASE \E k \in 0 .. Bits - 1 : Starting(k)
    <2>1. PICK k \in 0 .. Bits - 1 : Starting(k)
        BY <1>5
    <2>2. Follows(k + 1)' /\ Small(k + 1)'
        BY <1>1, <2>1, WarmStep DEF Starting
    <2>3. k \in Nat /\ k + 1 \in 0 .. Bits /\ k + 1 \in Nat /\ Bits \in Nat
        BY BitsIs
    <2>4. \A id \in 0 .. perceptronnumber - 1 :
            misses'[id] <= k + 1 /\ misses'[id] \in Nat
        BY <1>1, <1>3, <2>1, <2>3 DEF Starting, Counters
    <2>5. CASE k + 1 = Bits
      <3>1. Steady'
          BY <2>2, <2>3, <2>5, SteadyFollowsThen
      <3>2. Learns'
          BY <1>1 DEF Execute, Learns, Spaced
      <3>3. ASSUME NEW id \in 0 .. perceptronnumber - 1, NEW u \in SmallWeights,
                   Separates(u, program, id)
            PROVE  misses'[id] + Distance(u, perceptronTable'[id]) <= Bits + Budget
        <4>1. Distance(u, perceptronTable'[id]) <= Budget
            BY <1>1, <3>2, <3>3 DEF LearnInv, Near
        <4>2. Distance(u, perceptronTable'[id]) \in Nat
          <5>1. WeightMod \div 2 \in Nat
              BY SizeAssumption
          <5>2. perceptronTable'[id] \in Weights
              BY <1>1, <5>1 DEF TypeOK, Weights, Weight
          <5> QED
              BY <5>2, SmallWeightsIs, GapsAreBelow
        <4> QED
            BY <2>3, <2>4, <2>5, <4>1, <4>2, BudgetIs
      <3> QED
          BY <1>1, <3>1, <3>3 DEF Paid
    <2>6. CASE k + 1 # Bits
      <3>1. k + 1 \in 0 .. Bits - 1
          BY <2>3, <2>6
      <3>2. Starting(k + 1)'
          BY <2>2, <2>4 DEF Starting
      <3> QED
          BY <3>1, <3>2
    <2> QED
        BY <2>5, <2>6
  <1> QED
      BY <1>4, <1>5 DEF CountInv

LEMMA NextCounts == Wide /\ CountInv /\ [Next /\ Counts]_allvars => CountInv'
  <1>1. ASSUME CountInv, UNCHANGED allvars PROVE CountInv'
    <2>1. LearnInv' /\ program' = program
        BY <1>1 DEF CountInv, LearnInv, TypeOK, Current, Learns, Spaced, Sure, Near,
                    Steady, Warm, Follows, Small, Output, vars, allvars
    <2> QED
        BY <1>1, <2>1 DEF CountInv, Counters, Learns, Spaced, Steady, Paid, Starting,
                          Follows, Small, vars, allvars
  <1>2. ASSUME Wide, CountInv, Decode, Counts PROVE CountInv'
    <2>1. LearnInv'
        BY <1>2, DecodeLearns DEF CountInv
    <2>2. misses' = misses
      <3>1. \A id \in 0 .. perceptronnumber - 1 : ~Missed(id) /\ misses[id] \in Nat
          BY <1>2 DEF Decode, Missed, CountInv, Counters
      <3>2. misses' = [id \in 0 .. perceptronnumber - 1 |-> misses[id]]
          BY <1>2, <3>1 DEF Counts
      <3> QED
          BY <1>2, <3>2 DEF CountInv, Counters
    <2> QED
        BY <1>2, <2>1, <2>2 DEF Decode, CountInv, Learns, Spaced, Steady, Paid,
                                Starting, Follows, Small
  <1>3. ASSUME Wide, CountInv, Execute, Counts PROVE CountInv'
    <2>1. LearnInv'
        BY <1>3, ExecuteLearns DEF CountInv
    <2>2. misses' \in Counters
        BY <1>3 DEF CountInv, Counters, Counts
    <2>3. Learns' => Learns
        BY <1>3 DEF Execute, Learns, Spaced
    <2>4. Learns => (Steady' /\ Paid') \/ \E k \in 0 .. Bits - 1 : Starting(k)'
        BY <1>3, ExecuteCounts
    <2> QED
        BY <2>1, <2>2, <2>3, <2>4 DEF CountInv
  <1> QED
      BY <1>1, <1>2, <1>3 DEF Next

\* A perceptron that can tell its branches apart mispredicts only so many
\* times in all of a run, however long: the count that learning ends by.
THEOREM MissesAreFew == ASSUME Wide PROVE CountingSpec => []FewMisses
  <1>1. Init /\ misses = [id \in 0 .. perceptronnumber - 1 |-> 0] => CountInv
      BY InitCounts
  <1>2. CountInv /\ [Next /\ Counts]_allvars => CountInv'
      BY NextCounts
  <1>3. ASSUME CountInv PROVE FewMisses
    <2> SUFFICES ASSUME Learns, NEW id \in 0 .. perceptronnumber - 1, CanLearn(id)
                 PROVE  misses[id] <= Bits + Budget
        BY DEF FewMisses
    <2>1. PICK u \in SmallWeights : Separates(u, program, id)
        BY DEF CanLearn
    <2>2. misses[id] \in Nat /\ Bits \in Nat /\ Budget \in Nat
        BY <1>3, BitsIs, BudgetIs DEF CountInv, Counters
    <2>3. Distance(u, perceptronTable[id]) \in Nat
        BY <1>3, TableIs, SmallWeightsIs, GapsAreBelow DEF CountInv, LearnInv
    <2>4. CASE Paid
        BY <2>1, <2>2, <2>3, <2>4 DEF Paid
    <2>5. CASE \E k \in 0 .. Bits - 1 : Starting(k)
        BY <2>2, <2>5, BudgetIs DEF Starting
    <2> QED
        BY <1>3, <2>4, <2>5 DEF CountInv
  <1>4. CountInv => FewMisses
      BY <1>3
  <1> QED
      BY <1>1, <1>2, <1>4, PTL DEF CountingSpec
=============================================================================
