---------------------------- MODULE TrainingRunProofs ----------------------------
(***************************************************************************)
(* First the data loader by itself, for every batch size, sample count and *)
(* number of epochs: its counters and the stream agree, and the calls of   *)
(* next hand out exactly the stream of batches of SampleStream.            *)
(*                                                                         *)
(* Then what a training program that calls it guarantees for every size of *)
(* batch, file and snapshot interval and whatever crashes and resumptions  *)
(* it meets: its snapshots count right, a run that ends is complete, a     *)
(* process that did not resume trains in order, and one that did gets back *)
(* into step.                                                              *)
(***************************************************************************)
EXTENDS TrainingRun, TLAPS

-----------------------------------------------------------------------------
(* A product is as ordered as its factor. *)
LEMMA ProductOrder ==
  ASSUME NEW b \in Nat \ {0}, NEW q \in Int, NEW p \in Int, b * q < b * p + b
  PROVE  q <= p
<1>1. SUFFICES ASSUME q >= p + 1 PROVE FALSE
  OBVIOUS
<1>2. PICK d \in Nat : q = p + 1 + d
  <2>1. q - p - 1 \in Nat /\ q = p + 1 + (q - p - 1)
    BY <1>1
  <2> QED BY <2>1
<1>3. b * q = b * p + b + b * d
  BY <1>2
<1>4. b * d >= 0
  OBVIOUS
<1> QED BY <1>3, <1>4

(* Quotient and remainder are the only ones that fit. *)
LEMMA Division ==
  ASSUME NEW b \in Nat \ {0}, NEW q \in Nat, NEW r \in 0 .. b - 1
  PROVE  (q * b + r) % b = r /\ (q * b + r) \div b = q
<1> DEFINE a == q * b + r
           p == a \div b
           s == a % b
<1>1. a \in Nat
  <2>1. q * b \in Nat
    OBVIOUS
  <2> QED BY <2>1
<1> HIDE DEF a
<1>2. p \in Int /\ s \in 0 .. b - 1 /\ a = b * p + s
  BY <1>1
<1> HIDE DEF p, s
<1>3. a = b * q + r
  BY DEF a
<1>4. q <= p
  BY <1>2, <1>3, ProductOrder
<1>5. p <= q
  BY <1>2, <1>3, ProductOrder
<1>6. p = q /\ s = r
  BY <1>2, <1>3, <1>4, <1>5
<1> QED BY <1>6 DEF a, p, s

-----------------------------------------------------------------------------
(***************************************************************************)
(* The inductive invariant.  Position relates the counters; Control says   *)
(* where next can be when they have which values, Contents what the part   *)
(* of the batch read so far holds.                                         *)
(***************************************************************************)
Control ==
  /\ pc = "idle" => ~opened /\ given = 0 /\ epoch = 0 /\ sampleIter = 0
  /\ pc = "filling" => opened /\ epoch < loader.epochs /\ res > 0
  /\ pc = "ready" => opened /\ epoch < loader.epochs
  /\ pc = "over" => opened /\ epoch = loader.epochs /\ given = Stream!Total

Current == IF pc = "filling" THEN given ELSE given - 1

Have == IF pc = "filling" THEN loader.mini - res ELSE loader.mini

Contents ==
  Stream!Intact /\ pc \in {"filling", "ready"} =>
    \A j \in 1 .. Have : buf[j] = (Current * loader.mini + j - 1) % loader.num

IInv == TypeOK /\ Position /\ Control /\ Contents

LoaderOK ==
  /\ loader.num \in Nat /\ loader.mini \in Nat \ {0}
  /\ loader.epochs \in Nat /\ loader.file \in Nat

(* The constants' assumption, of the loader at hand. *)
LEMMA LoaderIsOK == ASSUME loader \in Loaders PROVE LoaderOK
  BY LoaderAssumption DEF LoaderOK

(* The loader just constructed. *)
LEMMA InitIInv == Init => IInv
<1> SUFFICES ASSUME Init PROVE IInv
  OBVIOUS
<1>1. LoaderOK
  BY LoaderIsOK DEF Init
<1>2. TypeOK
  <2>1. buf \in [1 .. loader.mini -> 0 .. loader.num - 1 \cup {Garbage}]
    BY Zenon DEF Init, FreshBuffer
  <2>2. 0 \in 0 .. loader.num /\ 0 \in 0 .. loader.epochs /\ 0 \in 0 .. loader.mini
    BY <1>1 DEF LoaderOK
  <2> QED BY <2>1, <2>2 DEF Init, TypeOK
<1>3. Position
  <2>1. 0 * loader.num = 0 /\ 0 * loader.mini = 0
    BY <1>1 DEF LoaderOK
  <2> QED BY <1>1, <2>1 DEF Init, Position, Consumed, LoaderOK
<1> QED BY <1>1, <1>2, <1>3 DEF Init, IInv, Control, Contents

(* How many whole batches the epochs hold: what is left over is no batch. *)
LEMMA WholeBatches ==
  ASSUME LoaderOK, NEW b \in Nat, NEW rest \in 0 .. loader.mini - 1,
         loader.epochs * loader.num = b * loader.mini + rest
  PROVE  b = Stream!Total
<1>1. loader.num * loader.epochs = b * loader.mini + rest
  BY DEF LoaderOK
<1>2. (b * loader.mini + rest) \div loader.mini = b
  BY Division DEF LoaderOK
<1> QED BY <1>1, <1>2 DEF Stream!Total

(* The call of next, up to its loop. *)
LEMMA CallStep == IInv /\ Call => IInv'
<1> SUFFICES ASSUME IInv, Call PROVE IInv'
  OBVIOUS
<1>1. LoaderOK
  BY LoaderIsOK DEF IInv, TypeOK
<1>2. TypeOK'
  BY <1>1 DEF IInv, TypeOK, Call, LoaderOK
<1>3. Position'
  <2>1. loader.mini - loader.mini = 0
    BY <1>1 DEF LoaderOK
  <2>2. pc' # "over" => (epoch * loader.num + sampleIter = given * loader.mini)
    BY <1>1 DEF IInv, TypeOK, LoaderOK, Position, Consumed, Control, Call
  <2>3. Consumed' = given * loader.mini + 0
    BY <1>1, <2>1 DEF Call, Consumed, LoaderOK
  <2>4. given * loader.mini \in Nat
    BY <1>1 DEF IInv, TypeOK, LoaderOK
  <2>5. (pc # "over" => epoch * loader.num + sampleIter = Consumed)'
    BY <2>2, <2>3, <2>4 DEF Call
  <2>6. (opened /\ ~failed => pos = sampleIter)'
    BY DEF Call, IInv, Position, Control, TypeOK
  <2>7. (loader.file >= loader.num => ~failed)'
    BY DEF Call, IInv, Position
  <2> QED BY <2>5, <2>6, <2>7 DEF Position
<1>4. Control'
  <2>1. CASE epoch = loader.epochs
    <3>1. CASE pc = "idle"
      <4>1. loader.epochs * loader.num = 0 * loader.mini + 0
        BY <1>1, <2>1, <3>1 DEF IInv, Control, LoaderOK
      <4>2. given = Stream!Total
        BY <1>1, <3>1, <4>1, WholeBatches DEF IInv, Control, LoaderOK
      <4> QED BY <2>1, <4>2 DEF Call, Control, Stream!Total
    <3>2. CASE pc = "over"
      BY <2>1, <3>2 DEF Call, Control, IInv, Stream!Total
    <3>3. pc \in {"idle", "over"}
      BY <1>1, <2>1 DEF IInv, Control, TypeOK, Call, LoaderOK
    <3> QED BY <3>1, <3>2, <3>3
  <2>2. CASE epoch # loader.epochs
    BY <1>1, <2>2 DEF Call, Control, IInv, TypeOK, LoaderOK
  <2> QED BY <2>1, <2>2
<1>5. Contents'
  <2> SUFFICES ASSUME pc' = "filling" PROVE Have' = 0
    BY DEF Contents, Call, Control, IInv
  <2> QED BY <1>1 DEF Call, Have, LoaderOK
<1> QED BY <1>2, <1>3, <1>4, <1>5 DEF IInv

(***************************************************************************)
(* One reading, of n samples: the new samples continue the batch where the *)
(* old ones end, the stream standing at sampleIter.                        *)
(***************************************************************************)
Count == Least(res, loader.num - sampleIter)

(* An iteration of the loop of next reads at least one sample, and not too many. *)
LEMMA CountOK ==
  ASSUME IInv, pc = "filling", sampleIter < loader.num
  PROVE  /\ LoaderOK
         /\ Count \in 1 .. res /\ sampleIter + Count \in 1 .. loader.num
         /\ Count = res \/ sampleIter + Count = loader.num
         /\ res \in 1 .. loader.mini
<1>1. LoaderOK
  BY LoaderIsOK DEF IInv, TypeOK
<1> QED BY <1>1 DEF IInv, TypeOK, Control, LoaderOK, Count, Least

(* Where the stream stands the file has the samples of this epoch. *)
LEMMA NextSamples ==
  ASSUME IInv, pc = "filling", sampleIter < loader.num,
         NEW j \in loader.mini - res + 1 .. loader.mini - res + Count
  PROVE  LET m == sampleIter + (j - (loader.mini - res)) - 1
         IN  /\ m \in 0 .. loader.num - 1
             /\ Filled(Count)[j] \in {m, Garbage}
             /\ Stream!Intact => Filled(Count)[j] = m
<1> DEFINE first == loader.mini - res
           m == sampleIter + (j - first) - 1
<1>1. LoaderOK /\ Count \in 1 .. res /\ sampleIter + Count \in 1 .. loader.num
      /\ res \in 1 .. loader.mini
  BY CountOK
<1>2. sampleIter \in Nat /\ pos \in Nat
  BY <1>1 DEF IInv, TypeOK, LoaderOK
<1>3. m \in 0 .. loader.num - 1 /\ j \in 1 .. loader.mini /\ j \in first + 1 .. first + Count
  BY <1>1, <1>2 DEF LoaderOK
<1>4. Filled(Count)[j] = Sample(pos + j - first - 1)
  BY <1>3 DEF Filled
<1>5. ~failed => pos + j - first - 1 = m
  BY <1>1, <1>2, <1>3 DEF IInv, Position, Control, LoaderOK
<1>6. Stream!Intact => ~failed /\ m < loader.file
  BY <1>1, <1>3 DEF IInv, Position, Stream!Intact, LoaderOK
<1>7. Sample(pos + j - first - 1) \in {m, Garbage}
  BY <1>5 DEF Sample
<1>8. Stream!Intact => Sample(pos + j - first - 1) = m
  BY <1>1, <1>3, <1>5, <1>6 DEF Sample, LoaderOK
<1> QED BY <1>3, <1>4, <1>7, <1>8

(* The samples in memory are samples of the file, or garbage. *)
LEMMA FilledType ==
  ASSUME IInv, pc = "filling", sampleIter < loader.num
  PROVE  Filled(Count) \in [1 .. loader.mini -> 0 .. loader.num - 1 \cup {Garbage}]
<1> SUFFICES ASSUME NEW j \in 1 .. loader.mini
             PROVE  Filled(Count)[j] \in 0 .. loader.num - 1 \cup {Garbage}
  BY DEF Filled
<1>1. CASE j \in loader.mini - res + 1 .. loader.mini - res + Count
  BY <1>1, NextSamples
<1>2. CASE j \notin loader.mini - res + 1 .. loader.mini - res + Count
  <2>1. Filled(Count)[j] = buf[j]
    BY <1>2 DEF Filled
  <2> QED BY <2>1 DEF IInv, TypeOK
<1> QED BY <1>1, <1>2

(* One iteration of the loop that reads. *)
LEMMA ReadStep == IInv /\ Read => IInv'
<1> SUFFICES ASSUME IInv, Read PROVE IInv'
  OBVIOUS
<1> DEFINE first == loader.mini - res
<1>1. /\ LoaderOK /\ Count \in 1 .. res /\ sampleIter + Count \in 1 .. loader.num
      /\ res \in 1 .. loader.mini /\ pc = "filling" /\ sampleIter < loader.num
  BY CountOK DEF Read
<1>2. /\ sampleIter \in Nat /\ pos \in Nat /\ epoch \in Nat /\ given \in Nat
      /\ opened /\ failed \in BOOLEAN /\ epoch < loader.epochs
  BY <1>1 DEF IInv, TypeOK, Control, LoaderOK
<1>3. /\ buf' = Filled(Count)
      /\ pos' = IF failed THEN pos ELSE Least(pos + Count, loader.file)
      /\ failed' = (failed \/ pos + Count > loader.file)
      /\ sampleIter' = sampleIter + Count
      /\ res' = res - Count
      /\ res = Count => pc' = "ready" /\ given' = given + 1
      /\ res # Count => pc' = pc /\ given' = given
      /\ loader' = loader /\ opened' = opened /\ epoch' = epoch
  BY DEF Read, Count
<1>4. TypeOK'
  <2>1. buf' \in [1 .. loader.mini -> 0 .. loader.num - 1 \cup {Garbage}]
    BY <1>1, <1>3, FilledType
  <2>2. pos' \in Nat
    BY <1>1, <1>2, <1>3 DEF Least, LoaderOK
  <2>3. sampleIter' \in 0 .. loader.num /\ res' \in 0 .. loader.mini /\ given' \in Nat
    BY <1>1, <1>2, <1>3 DEF LoaderOK
  <2>4. pc' \in {"idle", "filling", "ready", "over"}
    BY <1>1, <1>3
  <2>5. failed' \in BOOLEAN /\ opened' \in BOOLEAN
    BY <1>2, <1>3
  <2> QED BY <1>3, <2>1, <2>2, <2>3, <2>4, <2>5 DEF IInv, TypeOK
<1>5. Position'
  <2>1. epoch * loader.num + sampleIter = given * loader.mini + first
    BY <1>1 DEF IInv, Position, Consumed
  <2>2. epoch * loader.num \in Nat /\ given * loader.mini \in Nat
    BY <1>1, <1>2 DEF LoaderOK
  <2>3. (given + 1) * loader.mini = given * loader.mini + loader.mini
    BY <1>1, <1>2 DEF LoaderOK
  <2>4. Consumed' = given * loader.mini + first + Count
    <3>1. CASE res = Count
      BY <1>1, <1>3, <2>2, <2>3, <3>1 DEF Consumed, LoaderOK
    <3>2. CASE res # Count
      BY <1>1, <1>3, <2>2, <3>2 DEF Consumed, LoaderOK
    <3> QED BY <3>1, <3>2
  <2>5. (epoch * loader.num + sampleIter = Consumed)'
    BY <1>1, <1>2, <1>3, <2>1, <2>2, <2>4 DEF LoaderOK
  <2>6. (opened /\ ~failed => pos = sampleIter)'
    <3> SUFFICES ASSUME ~failed' PROVE pos' = sampleIter'
      OBVIOUS
    <3>1. ~failed /\ ~(pos + Count > loader.file)
      BY <1>3
    <3>2. pos = sampleIter
      BY <1>2, <3>1 DEF IInv, Position
    <3>3. Least(pos + Count, loader.file) = pos + Count
      BY <1>1, <1>2, <3>1 DEF Least, LoaderOK
    <3> QED BY <1>3, <3>1, <3>2, <3>3
  <2>7. (loader.file >= loader.num => ~failed)'
    BY <1>1, <1>2, <1>3 DEF IInv, Position, LoaderOK
  <2> QED BY <2>5, <2>6, <2>7 DEF Position
<1>6. Control'
  BY <1>1, <1>2, <1>3 DEF Control, LoaderOK
<1>7. Contents'
  <2>1. Current' = given
    BY <1>1, <1>2, <1>3 DEF Current
  <2>2. Have' = first + Count
    BY <1>1, <1>3 DEF Have, LoaderOK
  <2>3. Stream!Intact' <=> Stream!Intact
    BY <1>3 DEF Stream!Intact
  <2> SUFFICES ASSUME Stream!Intact, NEW j \in 1 .. first + Count
               PROVE  Filled(Count)[j] = (given * loader.mini + j - 1) % loader.num
    BY <1>3, <2>1, <2>2, <2>3 DEF Contents
  <2>4. CASE j <= first
    <3>1. j \in 1 .. loader.mini /\ j \notin first + 1 .. first + Count /\ j \in 1 .. first
      BY <1>1, <2>4 DEF LoaderOK
    <3>2. Filled(Count)[j] = buf[j]
      BY <3>1 DEF Filled
    <3> QED BY <1>1, <3>1, <3>2 DEF IInv, Contents, Current, Have
  <2>5. CASE j > first
    <3> DEFINE m == sampleIter + (j - first) - 1
    <3>1. j \in first + 1 .. first + Count
      BY <1>1, <2>5 DEF LoaderOK
    <3>2. m \in 0 .. loader.num - 1 /\ Filled(Count)[j] = m
      BY <1>1, <3>1, NextSamples
    <3>3. epoch * loader.num + sampleIter = given * loader.mini + first
      BY <1>1 DEF IInv, Position, Consumed
    <3>4. epoch * loader.num \in Nat /\ given * loader.mini \in Nat
      BY <1>1, <1>2 DEF LoaderOK
    <3>5. given * loader.mini + j - 1 = epoch * loader.num + m
      <4> DEFINE x == epoch * loader.num
                 y == given * loader.mini
      <4>1. x \in Nat /\ y \in Nat /\ x + sampleIter = y + first
        BY <3>3, <3>4
      <4>2. first \in Int /\ j \in Int
        BY <1>1 DEF LoaderOK
      <4> HIDE DEF x, y, first
      <4>3. y + j - 1 = x + (sampleIter + (j - first) - 1)
        BY <1>2, <4>1, <4>2
      <4> QED BY <4>3 DEF x, y, first
    <3> HIDE DEF m
    <3>6. loader.num \in Nat \ {0}
      BY <1>1, <1>2 DEF LoaderOK
    <3>7. (epoch * loader.num + m) % loader.num = m
      BY <1>2, <3>2, <3>6, Division
    <3> QED BY <3>2, <3>5, <3>7
  <2> QED BY <1>1, <2>4, <2>5 DEF LoaderOK
<1> QED BY <1>4, <1>5, <1>6, <1>7 DEF IInv

(* One iteration of the loop that restarts, or ends, the stream. *)
LEMMA WrapStep == IInv /\ Wrap => IInv'
<1> SUFFICES ASSUME IInv, Wrap PROVE IInv'
  OBVIOUS
<1>1. LoaderOK
  BY LoaderIsOK DEF IInv, TypeOK
<1>2. /\ pos \in Nat /\ epoch \in Nat /\ given \in Nat /\ res \in 1 .. loader.mini
      /\ opened /\ epoch < loader.epochs /\ pc = "filling" /\ sampleIter = loader.num
  BY <1>1 DEF IInv, TypeOK, Control, LoaderOK, Wrap
<1>3. (epoch + 1) * loader.num = epoch * loader.num + loader.num
  BY <1>1, <1>2 DEF LoaderOK
<1>4. epoch * loader.num \in Nat /\ given * loader.mini \in Nat
  BY <1>1, <1>2 DEF LoaderOK
<1>5. (epoch + 1) * loader.num = given * loader.mini + (loader.mini - res)
  BY <1>2, <1>3 DEF IInv, Position, Consumed
<1>6. TypeOK'
  BY <1>1, <1>2 DEF IInv, TypeOK, Wrap, LoaderOK
<1>7. Position'
  <2>1. pc' # "over" => (epoch * loader.num + sampleIter = Consumed)'
    <3> SUFFICES ASSUME pc' # "over"
                 PROVE  (epoch + 1) * loader.num + 0 = given * loader.mini + (loader.mini - res)
      BY DEF Wrap, Consumed
    <3> QED BY <1>3, <1>4, <1>5, <1>1 DEF LoaderOK
  <2> QED BY <1>2, <2>1 DEF IInv, Position, Wrap
<1>8. Control'
  <2>1. CASE epoch + 1 = loader.epochs
    <3>1. loader.epochs * loader.num = given * loader.mini + (loader.mini - res)
      BY <1>5, <2>1
    <3>2. loader.mini - res \in 0 .. loader.mini - 1
      BY <1>1, <1>2 DEF LoaderOK
    <3>3. given = Stream!Total
      BY <1>1, <1>2, <3>1, <3>2, WholeBatches
    <3> QED BY <1>2, <2>1, <3>3 DEF Control, Wrap, Stream!Total
  <2>2. CASE epoch + 1 # loader.epochs
    BY <1>1, <1>2, <2>2 DEF Control, Wrap, LoaderOK
  <2> QED BY <2>1, <2>2
<1>9. Contents'
  <2> SUFFICES ASSUME pc' = "filling" PROVE Contents'
    BY DEF Contents, Wrap
  <2> QED BY <1>2 DEF IInv, Contents, Current, Have, Wrap, Stream!Intact
<1> QED BY <1>6, <1>7, <1>8, <1>9 DEF IInv

-----------------------------------------------------------------------------
(***************************************************************************)
(* The loader implements the stream.                                       *)
(***************************************************************************)
(* The inductive invariant holds in every behaviour of the loader. *)
THEOREM Invariance == Spec => []IInv
<1>1. IInv /\ [Next]_loaderVars => IInv'
  <2>1. CASE UNCHANGED loaderVars
    BY <2>1 DEF loaderVars, IInv, TypeOK, Position, Consumed, Control, Contents,
                Current, Have, Stream!Intact, Stream!Total
  <2> QED BY <2>1, CallStep, ReadStep, WrapStep DEF Next
<1> QED BY <1>1, InitIInv, PTL DEF Spec

(* Whatever the parameters of the loader, its state has its type. *)
THEOREM TypeCorrect == Spec => []TypeOK
<1>1. IInv => TypeOK
  BY DEF IInv
<1> QED BY <1>1, Invariance, PTL

(* Whatever the parameters, no sample is lost or read twice, and unless the *)
(* file is too short the stream stands where the counters say.              *)
THEOREM PositionCorrect == Spec => []Position
<1>1. IInv => Position
  BY DEF IInv
<1> QED BY <1>1, Invariance, PTL

(* A batch is handed out only when there is one. *)
LEMMA OneMore ==
  ASSUME IInv, pc = "filling", sampleIter < loader.num, Count = res
  PROVE  given < Stream!Total
<1>1. /\ LoaderOK /\ res \in 1 .. loader.mini
      /\ Count \in 1 .. res /\ sampleIter + Count \in 1 .. loader.num
  BY CountOK
<1>2. epoch \in Nat /\ given \in Nat /\ epoch < loader.epochs /\ sampleIter \in Nat
  BY <1>1 DEF IInv, TypeOK, Control, LoaderOK
<1> DEFINE all == loader.num * loader.epochs
           q == all \div loader.mini
<1>3. all \in Nat
  BY <1>1 DEF LoaderOK
<1>4. (given + 1) * loader.mini <= all
  <2>1. epoch * loader.num + sampleIter = given * loader.mini + (loader.mini - res)
    BY <1>1 DEF IInv, Position, Consumed
  <2>2. (given + 1) * loader.mini = given * loader.mini + loader.mini
    BY <1>1, <1>2 DEF LoaderOK
  <2>3. PICK d \in Nat : loader.epochs = epoch + 1 + d
    <3>1. loader.epochs - epoch - 1 \in Nat
      BY <1>1, <1>2 DEF LoaderOK
    <3>2. loader.epochs = epoch + 1 + (loader.epochs - epoch - 1)
      BY <1>1, <1>2 DEF LoaderOK
    <3> QED BY <3>1, <3>2
  <2>4. all = epoch * loader.num + loader.num + loader.num * d
    BY <1>1, <1>2, <2>3 DEF LoaderOK
  <2>5. loader.num * d \in Nat /\ epoch * loader.num \in Nat /\ given * loader.mini \in Nat
    BY <1>1, <1>2 DEF LoaderOK
  <2> HIDE DEF all
  <2> QED BY <1>1, <1>2, <2>1, <2>2, <2>4, <2>5 DEF LoaderOK
<1> HIDE DEF all
<1> DEFINE r == all % loader.mini
<1>5. q \in Int /\ r \in 0 .. loader.mini - 1 /\ all = loader.mini * q + r
  BY <1>1, <1>3 DEF LoaderOK
<1> HIDE DEF q, r
<1>6. loader.mini * (given + 1) < loader.mini * q + loader.mini
  <2> DEFINE x == loader.mini * (given + 1)
             y == loader.mini * q
  <2>1. x \in Int /\ y \in Int /\ x = (given + 1) * loader.mini
    BY <1>1, <1>2, <1>5 DEF LoaderOK
  <2>2. x <= all /\ all = y + r
    BY <1>4, <1>5, <2>1
  <2> HIDE DEF x, y
  <2>3. x < y + loader.mini
    BY <1>1, <1>3, <1>5, <2>1, <2>2 DEF LoaderOK
  <2> QED BY <2>3 DEF x, y
<1>7. given + 1 <= q
  BY <1>1, <1>2, <1>5, <1>6, ProductOrder DEF LoaderOK
<1> QED BY <1>2, <1>5, <1>7 DEF q, all, Stream!Total

(* Every step of the loader is a step of the stream, or none. *)
LEMMA StepRefines ==
  IInv /\ IInv' /\ [Next]_loaderVars => [Stream!Next]_(Stream!streamVars)
<1> SUFFICES ASSUME IInv, IInv', [Next]_loaderVars
             PROVE  Stream!Next \/ UNCHANGED Stream!streamVars
  OBVIOUS
<1> USE DEF Stream!Next, Stream!streamVars, Stream!Nothing
<1>1. CASE UNCHANGED loaderVars
  BY <1>1 DEF loaderVars
<1>2. CASE Call
  <2>1. pc \in {"idle", "ready", "over"} /\ pc' \in {"filling", "over"}
        /\ loader' = loader /\ given' = given
    BY <1>2 DEF Call, IInv, TypeOK
  <2>2. pc' = "over" => given = Stream!Total
    BY <2>1 DEF IInv, Control, Stream!Total
  <2>3. pc = "over" => pc' = "over"
    BY <1>2 DEF IInv, Control, Call
  <2> QED BY <2>1, <2>2, <2>3 DEF Stream!Ask
<1>3. CASE Read
  <2>1. pc = "filling" /\ sampleIter < loader.num /\ loader' = loader
    BY <1>3 DEF Read
  <2>2. CASE res = Count
    <3>1. pc' = "ready" /\ given' = given + 1
      BY <1>3, <2>2 DEF Read, Count
    <3>2. given < Stream!Total
      BY <2>1, <2>2, OneMore
    <3>3. given \in Nat /\ LoaderOK
      BY LoaderIsOK DEF IInv, TypeOK
    <3>4. Stream!Intact => buf' = Stream!Batch(given)
      <4> SUFFICES ASSUME Stream!Intact PROVE buf' = Stream!Batch(given)
        OBVIOUS
      <4>1. buf' \in [1 .. loader.mini -> 0 .. loader.num - 1 \cup {Garbage}]
        BY <2>1 DEF IInv, TypeOK
      <4>2. \A j \in 1 .. loader.mini :
              buf'[j] = (given * loader.mini + j - 1) % loader.num
        <5>1. Current' = given /\ Have' = loader.mini
          BY <2>1, <3>1, <3>3 DEF Current, Have
        <5>2. Stream!Intact'
          BY <2>1 DEF Stream!Intact
        <5> QED BY <2>1, <3>1, <5>1, <5>2 DEF IInv, Contents
      <4> QED BY <4>1, <4>2 DEF Stream!Batch
    <3> QED BY <2>1, <3>1, <3>2, <3>4 DEF Stream!Hand
  <2>3. CASE res # Count
    <3>1. pc' = pc /\ given' = given
      BY <1>3, <2>3 DEF Read, Count
    <3> QED BY <2>1, <3>1
  <2> QED BY <2>2, <2>3
<1>4. CASE Wrap
  <2>1. pc = "filling" /\ pc' \in {"filling", "over"} /\ loader' = loader /\ given' = given
    BY <1>4 DEF Wrap
  <2>2. pc' = "over" => given = Stream!Total
    BY <2>1 DEF IInv, Control, Stream!Total
  <2> QED BY <2>1, <2>2 DEF Stream!Exhaust
<1> QED BY <1>1, <1>2, <1>3, <1>4 DEF Next

(* The loop over next sees exactly the batches of the stream, whatever the *)
(* batch size, the number of samples and of epochs.                        *)
THEOREM LoaderImplements == Spec => Implements
<1>1. Init => Stream!Init
  BY DEF Init, Stream!Init, Stream!Nothing
<1> QED BY <1>1, StepRefines, Invariance, PTL DEF Spec, Implements, Stream!Spec

-----------------------------------------------------------------------------
(* The program, and the parameters of its loader. *)
ProgramOK ==
  /\ LoaderOK
  /\ loader.mpi \in BOOLEAN /\ loader.maxIters \in Nat /\ loader.snapshot \in Nat

(* The constants' assumptions, of the loader at hand. *)
LEMMA ProgramIsOK == ASSUME loader \in Loaders PROVE ProgramOK
  BY LoaderIsOK, ProgramAssumption DEF ProgramOK

-----------------------------------------------------------------------------
(***************************************************************************)
(* The inductive invariant.  The loader may have been shifted, so its      *)
(* counters agree with each other (Counters) but not with the stream,      *)
(* which only follows them (Behind).                                       *)
(***************************************************************************)
Counters ==
  /\ pc # "over" => epoch * loader.num + sampleIter = Consumed
  /\ pc = "idle" => ~opened /\ (epoch = loader.epochs => sampleIter = 0)
  /\ pc = "filling" => opened /\ epoch < loader.epochs /\ res > 0
  /\ pc = "ready" => opened /\ epoch < loader.epochs
  /\ pc = "over" => opened /\ epoch = loader.epochs /\ given = Stream!Total

(* The epoch that the process resumed in. *)
ResumedIn == (from * loader.mini) \div loader.num

InStep == from = 0 \/ epoch > ResumedIn

Behind ==
  /\ pc = "idle" => given = from /\ (from = 0 \/ epoch = ResumedIn)
  /\ Stream!Intact /\ opened => ~failed /\ pos <= sampleIter /\ (InStep => pos = sampleIter)

Unresumed == from = 0 => Contents

(* Where the program is, and how many batches it has trained on. *)
Progress ==
  /\ phase = "started" =>
       pc = "idle" /\ iter = 0 /\ from = 0 /\ w.batches = <<>>
  /\ phase \in {"head", "fetch", "save", "saving", "ended"} => Done = iter
  /\ phase = "head" => pc # "filling"
  /\ phase \in {"save", "saving"} => pc \in {"ready", "over"}
  /\ phase \in {"head", "save", "saving"} =>
       /\ pc \in {"idle", "ready"} => given = iter
       /\ pc = "over" => loader.mpi
  /\ phase = "fetch" =>
       /\ pc # "idle"
       /\ pc = "filling" => given = iter
       /\ pc = "ready" => given = iter + 1
  /\ phase # "down" /\ pc = "over" => given <= iter /\ (~loader.mpi => given = iter)
  /\ phase = "ended" /\ ~loader.mpi => pc = "over"

(* The MPI program counts, and is not resumed. *)
MpiCounts ==
  loader.mpi =>
    /\ from = 0
    /\ phase \in {"head", "save", "saving"} => iter <= MaxIter
    /\ phase = "fetch" => iter < MaxIter
    /\ phase = "ended" => iter = MaxIter

(* A file of the serial program was written while there were batches. *)
FilesFit ==
  \A f \in files : f.whole /\ ~loader.mpi => f.at * loader.mini <= loader.num * loader.epochs

LoaderInv == TypeOK /\ from \in Nat /\ Counters /\ Behind /\ Unresumed

ProgramInv ==
  RunTypeOK /\ Progress /\ MpiCounts /\ FilesFit /\ SnapshotsCount /\ TrainsInOrder

RunInv == LoaderInv /\ ProgramInv

-----------------------------------------------------------------------------
(* The loader. *)

(* A process that has just begun. *)
LEMMA Constructed ==
  ASSUME loader \in Loaders, Construct, from' = 0 PROVE LoaderInv'
<1>1. ProgramOK
  BY ProgramIsOK
<1>2. TypeOK'
  <2>1. buf' \in [1 .. loader.mini -> 0 .. loader.num - 1 \cup {Garbage}]
    BY Zenon DEF Construct, FreshBuffer
  <2>2. 0 \in 0 .. loader.num /\ 0 \in 0 .. loader.epochs /\ 0 \in 0 .. loader.mini
    BY <1>1 DEF ProgramOK, LoaderOK
  <2>3. loader' = loader
    BY DEF Construct
  <2> QED BY <2>1, <2>2, <2>3 DEF TypeOK, Construct
<1>3. 0 * loader.num = 0 /\ 0 * loader.mini = 0
  BY <1>1 DEF ProgramOK, LoaderOK
<1> QED
  BY <1>1, <1>2, <1>3 DEF LoaderInv, Counters, Consumed, Behind, Unresumed, Contents,
       Construct, ProgramOK, LoaderOK, Stream!Total

(* What a snapshot counts fits in the epochs, so that a shift by it does. *)
LEMMA ShiftFits ==
  ASSUME LoaderOK, loader.num > 0, NEW b \in Nat, b * loader.mini <= loader.num * loader.epochs
  PROVE  LET e == (loader.mini * b) \div loader.num
             s == (loader.mini * b) % loader.num
         IN  /\ e \in 0 .. loader.epochs /\ s \in 0 .. loader.num - 1
             /\ e * loader.num + s = b * loader.mini
             /\ e = loader.epochs => s = 0
<1> DEFINE a == loader.mini * b
           e == a \div loader.num
           s == a % loader.num
<1>1. loader.num \in Nat \ {0} /\ loader.mini \in Nat /\ loader.epochs \in Nat
  BY DEF LoaderOK
<1>2. a \in Nat /\ a = b * loader.mini
  BY <1>1
<1> HIDE DEF a
<1>3. e \in Nat /\ s \in 0 .. loader.num - 1 /\ a = loader.num * e + s
  BY <1>1, <1>2
<1> HIDE DEF e, s
<1>4. loader.num * e \in Nat /\ loader.num * loader.epochs \in Nat
  BY <1>1, <1>3
<1>5. a <= loader.num * loader.epochs
  BY <1>2
<1>6. e <= loader.epochs
  <2>1. loader.num * e < loader.num * loader.epochs + loader.num
    BY <1>1, <1>2, <1>3, <1>4, <1>5
  <2> QED BY <1>1, <1>3, <2>1, ProductOrder
<1>7. e = loader.epochs => s = 0
  BY <1>3, <1>4, <1>5
<1>8. e * loader.num = loader.num * e
  BY <1>1, <1>3
<1> QED BY <1>1, <1>2, <1>3, <1>6, <1>7, <1>8 DEF e, s, a

(* A loader shifted before it is opened. *)
LEMMA Shifted ==
  ASSUME LoaderInv, NEW b \in Nat, b * loader.mini <= loader.num * loader.epochs,
         Shift(b), from' = b
  PROVE  LoaderInv'
<1>1. LoaderOK
  BY LoaderIsOK DEF LoaderInv, TypeOK
<1> DEFINE e == (loader.mini * b) \div loader.num
           s == (loader.mini * b) % loader.num
<1>2. /\ epoch' = e /\ sampleIter' = s /\ given' = b /\ pc = "idle" /\ pc' = "idle"
      /\ loader' = loader /\ opened' = opened /\ res' = res /\ buf' = buf
      /\ pos' \in {pos, s} /\ failed' \in BOOLEAN /\ loader.num > 0
  BY DEF Shift, LoaderInv, TypeOK
<1>3. /\ e \in 0 .. loader.epochs /\ s \in 0 .. loader.num - 1
      /\ e * loader.num + s = b * loader.mini
      /\ e = loader.epochs => s = 0
  BY <1>1, <1>2, ShiftFits
<1>4. e = (b * loader.mini) \div loader.num
  BY <1>1 DEF LoaderOK
<1> HIDE DEF e, s
<1>5. TypeOK'
  BY <1>1, <1>2, <1>3 DEF LoaderInv, TypeOK, LoaderOK
<1>6. Counters'
  BY <1>1, <1>2, <1>3 DEF LoaderInv, Counters, Consumed, LoaderOK
<1>7. Behind'
  BY <1>2, <1>4 DEF LoaderInv, Counters, Behind, ResumedIn
<1>8. Unresumed'
  BY <1>2 DEF Unresumed, Contents
<1> QED BY <1>5, <1>6, <1>7, <1>8 DEF LoaderInv

(* A loader that is left alone. *)
LEMMA LeftAlone == LoaderInv /\ UNCHANGED <<loaderVars, from>> => LoaderInv'
  BY DEF loaderVars, LoaderInv, TypeOK, Counters, Consumed, Behind, InStep, ResumedIn, Unresumed,
         Contents, Current, Have, Stream!Intact, Stream!Total

(* The call of next, up to its loop: the first opens the file at its beginning. *)
LEMMA Called == ASSUME LoaderInv, Call, from' = from PROVE LoaderInv'
<1>1. LoaderOK
  BY LoaderIsOK DEF LoaderInv, TypeOK
<1>2. TypeOK'
  BY <1>1 DEF LoaderInv, TypeOK, Call, LoaderOK
<1>3. /\ epoch' = epoch /\ sampleIter' = sampleIter /\ given' = given /\ loader' = loader
      /\ opened' /\ epoch \in Nat /\ sampleIter \in Nat /\ given \in Nat /\ pc # "filling"
  BY <1>1 DEF LoaderInv, TypeOK, Call, LoaderOK
<1>4. epoch * loader.num \in Nat /\ given * loader.mini \in Nat
  BY <1>1, <1>3 DEF LoaderOK
<1>5. pc # "over" => epoch * loader.num + sampleIter = given * loader.mini
  BY <1>3, <1>4 DEF LoaderInv, Counters, Consumed
<1>7. Behind'
  <2>1. pc' # "idle"
    BY DEF Call
  <2>2. ~opened => (sampleIter = 0 /\ from = 0) \/ ~InStep
    <3> SUFFICES ASSUME ~opened PROVE (sampleIter = 0 /\ from = 0) \/ ~InStep
      OBVIOUS
    <3>1. pc = "idle"
      BY DEF LoaderInv, TypeOK, Counters
    <3>2. given = from /\ (from = 0 \/ epoch = ResumedIn)
      BY <3>1 DEF LoaderInv, Behind
    <3>3. CASE from = 0
      <4>1. given * loader.mini = 0
        BY <1>1, <3>2, <3>3 DEF LoaderOK
      <4> QED BY <1>3, <1>4, <1>5, <3>1, <3>3, <4>1
    <3>4. CASE from # 0
      BY <1>3, <3>2, <3>4 DEF InStep
    <3> QED BY <3>3, <3>4
  <2>3. InStep' <=> InStep
    BY <1>3 DEF InStep, ResumedIn
  <2>4. Stream!Intact' <=> Stream!Intact
    BY <1>3 DEF Stream!Intact
  <2>5. Stream!Intact => ~failed' /\ pos' <= sampleIter /\ (InStep => pos' = sampleIter)
    <3>1. CASE opened
      BY <3>1 DEF Call, LoaderInv, Behind
    <3>2. CASE ~opened
      <4>1. ~failed'
        BY <3>2, Zenon DEF Call
      <4>2. pos' = 0
        BY <3>2 DEF Call
      <4> QED BY <1>3, <2>2, <3>2, <4>1, <4>2
    <3> QED BY <3>1, <3>2
  <2> QED BY <1>3, <2>1, <2>3, <2>4, <2>5 DEF Behind
<1>6. CASE epoch = loader.epochs
  <2>1. pc' = "over" /\ res' = res
    BY <1>6 DEF Call
  <2>2. given = Stream!Total
    <3>1. CASE pc = "over"
      BY <3>1 DEF LoaderInv, Counters
    <3>2. CASE pc # "over"
      <4>1. pc = "idle" /\ sampleIter = 0
        BY <1>1, <1>3, <1>6, <3>2 DEF LoaderInv, Counters, TypeOK, LoaderOK
      <4>2. loader.epochs * loader.num = given * loader.mini + 0
        BY <1>4, <1>5, <1>6, <3>2, <4>1
      <4> QED BY <1>1, <1>3, <4>2, WholeBatches DEF LoaderOK
    <3> QED BY <3>1, <3>2
  <2>3. Counters'
    BY <1>3, <1>6, <2>1, <2>2 DEF Counters, Stream!Total
  <2>4. Unresumed'
    BY <2>1 DEF Unresumed, Contents
  <2> QED BY <1>2, <1>7, <2>3, <2>4 DEF LoaderInv
<1>8. CASE epoch # loader.epochs
  <2>1. pc' = "filling" /\ res' = loader.mini
    BY <1>8 DEF Call
  <2>2. Counters'
    BY <1>1, <1>3, <1>4, <1>5, <1>8, <2>1 DEF LoaderInv, TypeOK, Counters, Consumed, LoaderOK
  <2>3. Unresumed'
    <3>1. Have' = 0
      BY <1>1, <1>3, <2>1 DEF Have, LoaderOK
    <3> QED BY <3>1 DEF Unresumed, Contents
  <2> QED BY <1>2, <1>7, <2>2, <2>3 DEF LoaderInv
<1> QED BY <1>6, <1>8

(* One reading makes between one sample and all that the batch lacks. *)
LEMMA CountFits ==
  ASSUME LoaderInv, pc = "filling", sampleIter < loader.num
  PROVE  /\ LoaderOK
         /\ Count \in 1 .. res /\ sampleIter + Count \in 1 .. loader.num
         /\ Count = res \/ sampleIter + Count = loader.num
         /\ res \in 1 .. loader.mini
<1>1. LoaderOK
  BY LoaderIsOK DEF LoaderInv, TypeOK
<1> QED BY <1>1 DEF LoaderInv, TypeOK, Counters, LoaderOK, Count, Least

(* What it reads: samples of the file; in step, those of the epoch at sampleIter. *)
LEMMA SamplesRead ==
  ASSUME LoaderInv, pc = "filling", sampleIter < loader.num,
         NEW j \in loader.mini - res + 1 .. loader.mini - res + Count
  PROVE  LET m == sampleIter + (j - (loader.mini - res)) - 1
         IN  /\ m \in 0 .. loader.num - 1
             /\ Filled(Count)[j] \in 0 .. loader.num - 1 \cup {Garbage}
             /\ Stream!Intact /\ InStep => Filled(Count)[j] = m
<1> DEFINE first == loader.mini - res
           k == j - first - 1
<1>1. LoaderOK /\ Count \in 1 .. res /\ sampleIter + Count \in 1 .. loader.num
      /\ res \in 1 .. loader.mini
  BY CountFits
<1>2. sampleIter \in Nat /\ pos \in Nat
  BY <1>1 DEF LoaderInv, TypeOK, LoaderOK
<1>3. /\ k \in 0 .. Count - 1 /\ j \in 1 .. loader.mini /\ j \in first + 1 .. first + Count
      /\ sampleIter + k \in 0 .. loader.num - 1
      /\ pos + j - first - 1 = pos + k /\ sampleIter + (j - first) - 1 = sampleIter + k
  BY <1>1, <1>2 DEF LoaderOK
<1>4. Filled(Count)[j] = Sample(pos + k)
  BY <1>3 DEF Filled
<1>5. Stream!Intact => ~failed /\ pos <= sampleIter /\ (InStep => pos = sampleIter)
  BY DEF LoaderInv, Counters, Behind
<1> HIDE DEF k, first
<1>6. Sample(pos + k) \in 0 .. loader.num - 1 \cup {Garbage}
  BY <1>1, <1>2, <1>3, <1>5 DEF Sample, Stream!Intact, LoaderOK
<1>7. Stream!Intact /\ InStep => Sample(pos + k) = sampleIter + k
  BY <1>1, <1>2, <1>3, <1>5 DEF Sample, Stream!Intact, LoaderOK
<1> QED BY <1>3, <1>4, <1>6, <1>7 DEF first

(* An iteration of the loop of next that reads. *)
LEMMA ReadOn == ASSUME LoaderInv, Read, from' = from PROVE LoaderInv'
<1> DEFINE first == loader.mini - res
<1>1. /\ LoaderOK /\ Count \in 1 .. res /\ sampleIter + Count \in 1 .. loader.num
      /\ res \in 1 .. loader.mini /\ pc = "filling" /\ sampleIter < loader.num
  BY CountFits DEF Read
<1>2. /\ sampleIter \in Nat /\ pos \in Nat /\ epoch \in Nat /\ given \in Nat
      /\ opened /\ failed \in BOOLEAN /\ epoch < loader.epochs
  BY <1>1 DEF LoaderInv, TypeOK, Counters, LoaderOK
<1>3. /\ buf' = Filled(Count)
      /\ pos' = IF failed THEN pos ELSE Least(pos + Count, loader.file)
      /\ failed' = (failed \/ pos + Count > loader.file)
      /\ sampleIter' = sampleIter + Count
      /\ res' = res - Count
      /\ res = Count => pc' = "ready" /\ given' = given + 1
      /\ res # Count => pc' = pc /\ given' = given
      /\ loader' = loader /\ opened' = opened /\ epoch' = epoch
  BY DEF Read, Count
<1>4. TypeOK'
  <2>1. buf' \in [1 .. loader.mini -> 0 .. loader.num - 1 \cup {Garbage}]
    <3> SUFFICES ASSUME NEW j \in 1 .. loader.mini
                 PROVE  Filled(Count)[j] \in 0 .. loader.num - 1 \cup {Garbage}
      BY <1>3 DEF Filled
    <3>1. CASE j \in first + 1 .. first + Count
      BY <1>1, <3>1, SamplesRead
    <3>2. CASE j \notin first + 1 .. first + Count
      <4>1. Filled(Count)[j] = buf[j]
        BY <3>2 DEF Filled
      <4> QED BY <4>1 DEF LoaderInv, TypeOK
    <3> QED BY <3>1, <3>2
  <2>2. pos' \in Nat
    BY <1>1, <1>2, <1>3 DEF Least, LoaderOK
  <2>3. sampleIter' \in 0 .. loader.num /\ res' \in 0 .. loader.mini /\ given' \in Nat
    BY <1>1, <1>2, <1>3 DEF LoaderOK
  <2>4. pc' \in {"idle", "filling", "ready", "over"}
    BY <1>1, <1>3
  <2>5. failed' \in BOOLEAN /\ opened' \in BOOLEAN
    BY <1>2, <1>3
  <2> QED BY <1>3, <2>1, <2>2, <2>3, <2>4, <2>5 DEF LoaderInv, TypeOK
<1>5. Counters'
  <2>1. epoch * loader.num + sampleIter = given * loader.mini + first
    BY <1>1 DEF LoaderInv, Counters, Consumed
  <2>2. epoch * loader.num \in Nat /\ given * loader.mini \in Nat
    BY <1>1, <1>2 DEF LoaderOK
  <2>3. (given + 1) * loader.mini = given * loader.mini + loader.mini
    BY <1>1, <1>2 DEF LoaderOK
  <2>4. Consumed' = given * loader.mini + first + Count
    <3>1. CASE res = Count
      BY <1>1, <1>3, <2>2, <2>3, <3>1 DEF Consumed, LoaderOK
    <3>2. CASE res # Count
      BY <1>1, <1>3, <2>2, <3>2 DEF Consumed, LoaderOK
    <3> QED BY <3>1, <3>2
  <2>5. (epoch * loader.num + sampleIter = Consumed)'
    BY <1>1, <1>2, <1>3, <2>1, <2>2, <2>4 DEF LoaderOK
  <2> QED BY <1>1, <1>2, <1>3, <2>5 DEF Counters, LoaderOK
<1>6. Behind'
  <2>1. pc' # "idle" /\ (InStep' <=> InStep) /\ (Stream!Intact' <=> Stream!Intact)
    BY <1>1, <1>3 DEF InStep, ResumedIn, Stream!Intact
  <2> SUFFICES ASSUME Stream!Intact
               PROVE  ~failed' /\ pos' <= sampleIter' /\ (InStep => pos' = sampleIter')
    BY <2>1 DEF Behind
  <2>2. ~failed /\ pos <= sampleIter /\ (InStep => pos = sampleIter)
    BY <1>2 DEF LoaderInv, Behind
  <2>3. ~(pos + Count > loader.file) /\ Least(pos + Count, loader.file) = pos + Count
    BY <1>1, <1>2, <2>2 DEF Least, Stream!Intact, LoaderOK
  <2>4. ~failed' /\ pos' = pos + Count
    BY <1>3, <2>2, <2>3
  <2> QED BY <1>1, <1>2, <1>3, <2>2, <2>4
<1>7. Unresumed'
  <2>1. Current' = given
    BY <1>1, <1>2, <1>3 DEF Current
  <2>2. Have' = first + Count
    BY <1>1, <1>3 DEF Have, LoaderOK
  <2>3. Stream!Intact' <=> Stream!Intact
    BY <1>3 DEF Stream!Intact
  <2> SUFFICES ASSUME from = 0, Stream!Intact, NEW j \in 1 .. first + Count
               PROVE  Filled(Count)[j] = (given * loader.mini + j - 1) % loader.num
    BY <1>3, <2>1, <2>2, <2>3 DEF Unresumed, Contents
  <2>4. CASE j <= first
    <3>1. j \in 1 .. loader.mini /\ j \notin first + 1 .. first + Count /\ j \in 1 .. first
      BY <1>1, <2>4 DEF LoaderOK
    <3>2. Filled(Count)[j] = buf[j]
      BY <3>1 DEF Filled
    <3> QED BY <1>1, <3>1, <3>2 DEF LoaderInv, Unresumed, Contents, Current, Have
  <2>5. CASE j > first
    <3> DEFINE m == sampleIter + (j - first) - 1
    <3>1. j \in first + 1 .. first + Count
      BY <1>1, <2>5 DEF LoaderOK
    <3>2. m \in 0 .. loader.num - 1 /\ Filled(Count)[j] = m
      BY <1>1, <3>1, SamplesRead DEF InStep
    <3>3. epoch * loader.num + sampleIter = given * loader.mini + first
      BY <1>1 DEF LoaderInv, Counters, Consumed
    <3>4. epoch * loader.num \in Nat /\ given * loader.mini \in Nat
      BY <1>1, <1>2 DEF LoaderOK
    <3>5. given * loader.mini + j - 1 = epoch * loader.num + m
      <4> DEFINE x == epoch * loader.num
                 y == given * loader.mini
      <4>1. x \in Nat /\ y \in Nat /\ x + sampleIter = y + first
        BY <3>3, <3>4
      <4>2. first \in Int /\ j \in Int
        BY <1>1 DEF LoaderOK
      <4> HIDE DEF x, y, first
      <4>3. y + j - 1 = x + (sampleIter + (j - first) - 1)
        BY <1>2, <4>1, <4>2
      <4> QED BY <4>3 DEF x, y, first
    <3> HIDE DEF m
    <3>6. loader.num \in Nat \ {0}
      BY <1>1, <1>2 DEF LoaderOK
    <3>7. (epoch * loader.num + m) % loader.num = m
      BY <1>2, <3>2, <3>6, Division
    <3> QED BY <3>2, <3>5, <3>7
  <2> QED BY <1>1, <2>4, <2>5 DEF LoaderOK
<1> QED BY <1>4, <1>5, <1>6, <1>7 DEF LoaderInv

(* One that restarts, or ends, the stream: whoever was behind is in step again. *)
LEMMA Wrapped == ASSUME LoaderInv, Wrap, from' = from PROVE LoaderInv'
<1>1. LoaderOK
  BY LoaderIsOK DEF LoaderInv, TypeOK
<1>2. /\ pos \in Nat /\ epoch \in Nat /\ given \in Nat /\ res \in 1 .. loader.mini
      /\ opened /\ epoch < loader.epochs /\ pc = "filling" /\ sampleIter = loader.num
  BY <1>1 DEF LoaderInv, TypeOK, Counters, LoaderOK, Wrap
<1>3. (epoch + 1) * loader.num = epoch * loader.num + loader.num
  BY <1>1, <1>2 DEF LoaderOK
<1>4. epoch * loader.num \in Nat /\ given * loader.mini \in Nat
  BY <1>1, <1>2 DEF LoaderOK
<1>5. (epoch + 1) * loader.num = given * loader.mini + (loader.mini - res)
  BY <1>2, <1>3 DEF LoaderInv, Counters, Consumed
<1>6. TypeOK'
  BY <1>1, <1>2 DEF LoaderInv, TypeOK, Wrap, LoaderOK
<1>7. Counters'
  <2>1. CASE epoch + 1 = loader.epochs
    <3>1. loader.epochs * loader.num = given * loader.mini + (loader.mini - res)
      BY <1>5, <2>1
    <3>2. loader.mini - res \in 0 .. loader.mini - 1
      BY <1>1, <1>2 DEF LoaderOK
    <3>3. given = Stream!Total
      BY <1>1, <1>2, <3>1, <3>2, WholeBatches
    <3> QED BY <1>2, <2>1, <3>3 DEF Counters, Wrap, Stream!Total
  <2>2. CASE epoch + 1 # loader.epochs
    <3>1. (epoch + 1) * loader.num + 0 = given * loader.mini + (loader.mini - res)
      BY <1>3, <1>4, <1>5, <1>1 DEF LoaderOK
    <3>2. (epoch * loader.num + sampleIter = Consumed)'
      BY <1>2, <2>2, <3>1 DEF Wrap, Consumed
    <3> QED BY <1>1, <1>2, <2>2, <3>2 DEF Counters, Wrap, LoaderOK
  <2> QED BY <2>1, <2>2
<1>8. Behind'
  BY <1>2 DEF LoaderInv, Behind, Wrap, InStep, ResumedIn, Stream!Intact
<1>9. Unresumed'
  <2> SUFFICES ASSUME pc' = "filling", from = 0 PROVE Contents'
    BY DEF Unresumed, Contents, Wrap
  <2> QED BY <1>2 DEF LoaderInv, Unresumed, Contents, Current, Have, Wrap, Stream!Intact
<1> QED BY <1>6, <1>7, <1>8, <1>9 DEF LoaderInv

-----------------------------------------------------------------------------
(* The program. *)

LEMMA RunBegins == RunInit => RunInv
<1> SUFFICES ASSUME RunInit PROVE RunInv
  OBVIOUS
<1>1. ProgramOK
  BY ProgramIsOK DEF RunInit, Init
<1>2. TypeOK
  BY InitIInv DEF RunInit, IInv
<1>3. 0 * loader.num = 0 /\ 0 * loader.mini = 0
  BY <1>1 DEF ProgramOK, LoaderOK
<1>4. LoaderInv
  BY <1>1, <1>2, <1>3 DEF RunInit, Init, LoaderInv, Counters, Consumed, Behind, Unresumed, Contents,
       ProgramOK, LoaderOK
<1>5. w \in Weights
  BY DEF RunInit, Weights
<1> QED
  BY <1>2, <1>4, <1>5, CrashAssumption DEF RunInit, RunInv, ProgramInv, RunTypeOK, Progress, MpiCounts,
       FilesFit, SnapshotsCount, TrainsInOrder

(* What a step that leaves the files alone keeps. *)
LEMMA FilesKept ==
  ASSUME RunInv, loader' = loader, files' = files
  PROVE  /\ FilesFit' /\ SnapshotsCount'
         /\ (\A f \in files : f.at \in Nat /\ f.whole \in BOOLEAN /\ f.w \in Weights)'
<1>1. Weights' = Weights
  BY DEF Weights
<1> QED
  BY <1>1 DEF RunInv, ProgramInv, RunTypeOK, FilesFit, SnapshotsCount

(* What a step that does not train keeps. *)
LEMMA OrderKept ==
  ASSUME RunInv, loader' = loader, w' = w, from' = from, phase # "down"
  PROVE  TrainsInOrder' /\ w' \in Weights' /\ Done' = Done
<1>1. Weights' = Weights
  BY DEF Weights
<1> QED
  BY <1>1 DEF RunInv, ProgramInv, RunTypeOK, TrainsInOrder, Done, Stream!Total, Stream!Batch

LEMMA MaxIterOK ==
  ASSUME loader \in Loaders PROVE MaxIter \in Nat
<1>1. ProgramOK
  BY ProgramIsOK
<1>2. loader.num * loader.epochs \in Nat
  BY <1>1 DEF ProgramOK, LoaderOK
<1> QED BY <1>1, <1>2 DEF MaxIter, ProgramOK, LoaderOK

LEMMA StartStep == RunInv /\ Start => RunInv'
<1> SUFFICES ASSUME RunInv, Start PROVE RunInv'
  OBVIOUS
<1>1. LoaderInv'
  BY Constructed DEF RunInv, LoaderInv, TypeOK, Start
<1>2. loader' = loader /\ files' = files /\ pc' = "idle"
  BY DEF Start, Construct
<1>3. w' \in Weights'
  BY DEF Start, Weights
<1>4. RunTypeOK'
  BY <1>1, <1>2, <1>3, FilesKept DEF RunInv, LoaderInv, ProgramInv, RunTypeOK, Start
<1>5. Progress' /\ MpiCounts' /\ TrainsInOrder'
  BY <1>2 DEF Start, Progress, MpiCounts, TrainsInOrder, Done
<1> QED BY <1>1, <1>2, <1>4, <1>5, FilesKept DEF RunInv, ProgramInv

LEMMA InitTensorsStep == RunInv /\ InitTensors => RunInv'
<1> SUFFICES ASSUME RunInv, InitTensors PROVE RunInv'
  OBVIOUS
<1>1. LoaderInv'
  BY LeftAlone DEF RunInv, InitTensors
<1>2. /\ loader' = loader /\ files' = files /\ pc' = pc /\ given' = given
      /\ iter' = iter /\ from' = from /\ crashes' = crashes /\ phase' = "head"
      /\ w' = [base |-> "init", batches |-> <<>>]
  BY DEF InitTensors, loaderVars
<1>3. pc = "idle" /\ iter = 0 /\ from = 0 /\ given = 0
  BY DEF RunInv, ProgramInv, Progress, InitTensors, LoaderInv, Behind
<1>4. w' \in Weights'
  BY <1>2 DEF Weights
<1>5. RunTypeOK'
  BY <1>1, <1>2, <1>4, FilesKept DEF RunInv, LoaderInv, ProgramInv, RunTypeOK
<1>6. MaxIter' \in Nat
  BY <1>2, MaxIterOK DEF RunInv, LoaderInv, TypeOK, MaxIter
<1>7. Progress' /\ MpiCounts' /\ TrainsInOrder'
  BY <1>2, <1>3, <1>6 DEF Progress, MpiCounts, TrainsInOrder, Done
<1> QED BY <1>1, <1>2, <1>5, <1>7, FilesKept DEF RunInv, ProgramInv

(* The count of a snapshot is that of its weights, and it fits in the epochs. *)
LEMMA RestoreStep == ASSUME RunInv, NEW f \in files, Restore(f) PROVE RunInv'
<1> DEFINE b == IF f.whole THEN f.at ELSE 0
<1>1. /\ Shift(b) /\ from' = b /\ iter' = b /\ ~loader.mpi /\ phase = "started" /\ phase' = "head"
      /\ w' = (IF f.whole THEN f.w ELSE w) /\ files' = files /\ crashes' = crashes
  BY DEF Restore
<1>2. b \in Nat
  BY DEF RunInv, ProgramInv, RunTypeOK
<1>3. ProgramOK
  BY ProgramIsOK DEF RunInv, LoaderInv, TypeOK
<1>4. b * loader.mini <= loader.num * loader.epochs
  <2>1. CASE f.whole
    BY <1>1, <2>1 DEF RunInv, ProgramInv, FilesFit
  <2>2. CASE ~f.whole
    <3>1. 0 * loader.mini = 0 /\ loader.num * loader.epochs \in Nat
      BY <1>3 DEF ProgramOK, LoaderOK
    <3> QED BY <2>2, <3>1
  <2> QED BY <2>1, <2>2
<1>5. loader' = loader /\ pc' = pc /\ given' = b /\ pc = "idle"
  BY <1>1 DEF Shift
<1>6. Len(w'.batches) = b /\ w' \in Weights'
  <2>1. Weights' = Weights
    BY <1>5 DEF Weights
  <2>2. CASE f.whole
    BY <1>1, <2>1, <2>2 DEF RunInv, ProgramInv, SnapshotsCount, RunTypeOK
  <2>3. CASE ~f.whole
    BY <1>1, <2>1, <2>3 DEF RunInv, ProgramInv, Progress, RunTypeOK
  <2> QED BY <2>2, <2>3
<1> HIDE DEF b
<1>7. LoaderInv'
  BY <1>1, <1>2, <1>4, Shifted DEF RunInv
<1>8. RunTypeOK'
  BY <1>1, <1>2, <1>5, <1>6, <1>7, FilesKept DEF RunInv, LoaderInv, ProgramInv, RunTypeOK
<1>9. Progress' /\ MpiCounts' /\ TrainsInOrder'
  BY <1>1, <1>2, <1>5, <1>6 DEF Progress, MpiCounts, TrainsInOrder, Done
<1> QED BY <1>1, <1>5, <1>7, <1>8, <1>9, FilesKept DEF RunInv, ProgramInv

LEMMA LoadStep == RunInv /\ Load => RunInv'
<1> SUFFICES ASSUME RunInv, Load PROVE RunInv'
  OBVIOUS
<1>1. /\ phase = "head" /\ phase' = "fetch" /\ iter' = iter /\ w' = w /\ from' = from
      /\ files' = files /\ crashes' = crashes /\ loader' = loader /\ given' = given
      /\ pc' \in {"filling", "over"} /\ (loader.mpi => iter < MaxIter)
      /\ (epoch = loader.epochs <=> pc' = "over")
  BY DEF Load, Call
<1>2. LoaderInv'
  BY Called DEF RunInv, Load
<1>3. iter \in Nat /\ pc \in {"idle", "ready", "over"}
  BY <1>1 DEF RunInv, ProgramInv, RunTypeOK, TypeOK, Progress
<1>4. pc = "over" => epoch = loader.epochs
  BY DEF RunInv, LoaderInv, Counters
<1>5. Progress'
  BY <1>1, <1>3, <1>4, OrderKept DEF RunInv, ProgramInv, Progress
<1>6. MpiCounts'
  BY <1>1 DEF RunInv, ProgramInv, MpiCounts, MaxIter
<1>7. RunTypeOK'
  BY <1>1, <1>2, FilesKept, OrderKept DEF RunInv, LoaderInv, ProgramInv, RunTypeOK
<1> QED BY <1>1, <1>2, <1>5, <1>6, <1>7, FilesKept, OrderKept DEF RunInv, ProgramInv

LEMMA FetchStep == RunInv /\ Fetch => RunInv'
<1> SUFFICES ASSUME RunInv, Fetch PROVE RunInv'
  OBVIOUS
<1>1. /\ phase = "fetch" /\ phase' = phase /\ iter' = iter /\ w' = w /\ from' = from
      /\ files' = files /\ crashes' = crashes /\ loader' = loader
      /\ pc = "filling"
      /\ \/ pc' = "ready" /\ given' = given + 1
         \/ pc' \in {"filling", "over"} /\ given' = given
  BY DEF Fetch, programVars, Read, Wrap
<1>2. LoaderInv'
  BY ReadOn, Wrapped DEF RunInv, Fetch, programVars
<1>3. iter \in Nat /\ given = iter
  BY <1>1 DEF RunInv, ProgramInv, RunTypeOK, Progress
<1>4. Progress'
  BY <1>1, <1>3, OrderKept DEF RunInv, ProgramInv, Progress
<1>5. MpiCounts'
  BY <1>1 DEF RunInv, ProgramInv, MpiCounts, MaxIter
<1>6. RunTypeOK'
  BY <1>1, <1>2, FilesKept, OrderKept DEF RunInv, LoaderInv, ProgramInv, RunTypeOK
<1> QED BY <1>1, <1>2, <1>4, <1>5, <1>6, FilesKept, OrderKept DEF RunInv, ProgramInv

(* The batch in memory is the next of the stream, or there is none left. *)
LEMMA TrainStep == RunInv /\ Train => RunInv'
<1> SUFFICES ASSUME RunInv, Train PROVE RunInv'
  OBVIOUS
<1>1. /\ phase = "fetch" /\ phase' \in {"save", "head"} /\ iter' = iter + 1
      /\ w' = [w EXCEPT !.batches = Append(w.batches, buf)]
      /\ from' = from /\ files' = files /\ crashes' = crashes /\ UNCHANGED loaderVars
      /\ pc = "ready" \/ (pc = "over" /\ loader.mpi)
  BY DEF Train
<1>2. loader' = loader /\ pc' = pc /\ given' = given /\ buf' = buf
  BY <1>1 DEF loaderVars
<1>3. LoaderInv'
  BY <1>1, LeftAlone DEF RunInv
<1>4. ProgramOK
  BY ProgramIsOK DEF RunInv, LoaderInv, TypeOK
<1>5. /\ iter \in Nat /\ given \in Nat /\ Done = iter
      /\ pc = "ready" => given = iter + 1
      /\ pc = "over" => given <= iter
  BY <1>1 DEF RunInv, ProgramInv, RunTypeOK, TypeOK, Progress
<1>6. buf \in [1 .. loader.mini -> Int]
  <2>1. 0 .. loader.num - 1 \cup {Garbage} \subseteq Int
    BY <1>4 DEF ProgramOK, LoaderOK, Garbage
  <2>2. buf \in [1 .. loader.mini -> 0 .. loader.num - 1 \cup {Garbage}]
    BY DEF RunInv, LoaderInv, TypeOK
  <2> QED BY <2>1, <2>2
<1>7. w \in Weights
  BY DEF RunInv, ProgramInv, RunTypeOK
<1>8. w.batches \in Seq([1 .. loader.mini -> Int]) /\ w.base \in {"garbage", "init"}
  BY <1>7 DEF Weights
<1>9. w' = [base |-> w.base, batches |-> Append(w.batches, buf)]
  BY <1>1, <1>7 DEF Weights
<1>10. w' \in Weights'
  BY <1>2, <1>6, <1>8, <1>9 DEF Weights
<1>11. /\ Done' = iter + 1
       /\ w'.batches[iter + 1] = buf
       /\ \A b \in 1 .. iter : w'.batches[b] = w.batches[b]
  BY <1>5, <1>6, <1>8, <1>9 DEF Done
<1>12. RunTypeOK'
  BY <1>1, <1>2, <1>3, <1>5, <1>10, FilesKept DEF RunInv, LoaderInv, ProgramInv, RunTypeOK
<1>13. Progress'
  BY <1>1, <1>2, <1>5, <1>11 DEF Progress
<1>14. MpiCounts'
  <2>1. MaxIter \in Nat /\ MaxIter' = MaxIter
    BY <1>2, MaxIterOK DEF RunInv, LoaderInv, TypeOK, MaxIter
  <2> QED BY <1>1, <1>2, <1>5, <2>1 DEF RunInv, ProgramInv, MpiCounts
<1>15. TrainsInOrder'
  <2> SUFFICES ASSUME from = 0, Stream!Intact, NEW b \in 1 .. iter + 1, b <= Stream!Total
               PROVE  w'.batches[b] = Stream!Batch(b - 1)
    BY <1>1, <1>2, <1>11 DEF TrainsInOrder, Stream!Intact, Stream!Total, Stream!Batch
  <2>1. CASE b \in 1 .. iter
    BY <1>1, <1>5, <1>11, <2>1 DEF RunInv, ProgramInv, TrainsInOrder, Stream!Intact
  <2>2. CASE b = iter + 1
    <3>1. pc # "over"
      <4>1. pc = "over" => given = Stream!Total
        BY DEF RunInv, LoaderInv, Counters
      <4> QED BY <1>5, <2>2, <4>1
    <3>2. pc = "ready" /\ given = iter + 1
      BY <1>1, <1>5, <3>1
    <3>3. \A j \in 1 .. loader.mini : buf[j] = (iter * loader.mini + j - 1) % loader.num
      BY <1>5, <3>2 DEF RunInv, LoaderInv, Unresumed, Contents, Current, Have
    <3>4. buf = Stream!Batch(iter)
      BY <1>6, <3>3 DEF Stream!Batch
    <3> QED BY <1>5, <1>11, <2>2, <3>4
  <2> QED BY <1>5, <2>1, <2>2
<1> QED BY <1>1, <1>2, <1>3, <1>12, <1>13, <1>14, <1>15, FilesKept DEF RunInv, ProgramInv

LEMMA FinishStep == RunInv /\ Finish => RunInv'
<1> SUFFICES ASSUME RunInv, Finish PROVE RunInv'
  OBVIOUS
<1>1. /\ phase' = "ended" /\ iter' = iter /\ w' = w /\ from' = from /\ files' = files
      /\ crashes' = crashes /\ UNCHANGED loaderVars
      /\ \/ phase = "fetch" /\ pc = "over" /\ ~loader.mpi
         \/ phase = "head" /\ loader.mpi /\ iter >= MaxIter
  BY DEF Finish
<1>2. loader' = loader /\ pc' = pc /\ given' = given
  BY <1>1 DEF loaderVars
<1>3. LoaderInv'
  BY <1>1, LeftAlone DEF RunInv
<1>4. iter \in Nat /\ MaxIter \in Nat /\ MaxIter' = MaxIter
  BY <1>2, MaxIterOK DEF RunInv, LoaderInv, ProgramInv, RunTypeOK, TypeOK, MaxIter
<1>5. Progress'
  BY <1>1, <1>2, OrderKept DEF RunInv, ProgramInv, Progress
<1>6. MpiCounts'
  BY <1>1, <1>2, <1>4 DEF RunInv, ProgramInv, MpiCounts
<1>7. RunTypeOK'
  BY <1>1, <1>2, <1>3, FilesKept, OrderKept DEF RunInv, LoaderInv, ProgramInv, RunTypeOK
<1> QED BY <1>1, <1>2, <1>3, <1>5, <1>6, <1>7, FilesKept, OrderKept DEF RunInv, ProgramInv

(* A file written now has the count of the weights, and there were batches for it. *)
LEMMA SaveStep == RunInv /\ (TruncateFile \/ WriteFile) => RunInv'
<1> SUFFICES ASSUME RunInv, TruncateFile \/ WriteFile PROVE RunInv'
  OBVIOUS
<1>1. /\ phase \in {"save", "saving"} /\ phase' \in {"saving", "head"}
      /\ iter' = iter /\ w' = w /\ from' = from /\ crashes' = crashes /\ UNCHANGED loaderVars
      /\ \E whole \in BOOLEAN : files' = Others \cup {[at |-> iter, whole |-> whole, w |-> w]}
  BY DEF TruncateFile, WriteFile
<1>2. loader' = loader /\ pc' = pc /\ given' = given
  BY <1>1 DEF loaderVars
<1>3. LoaderInv'
  BY <1>1, LeftAlone DEF RunInv
<1>4. iter \in Nat /\ Done = iter /\ w \in Weights /\ Weights' = Weights
  BY <1>1, <1>2 DEF RunInv, ProgramInv, RunTypeOK, Progress, Weights
<1>5. ~loader.mpi => iter * loader.mini <= loader.num * loader.epochs
  <2> SUFFICES ASSUME ~loader.mpi PROVE iter * loader.mini <= loader.num * loader.epochs
    OBVIOUS
  <2>1. pc = "ready" /\ given = iter
    BY <1>1 DEF RunInv, ProgramInv, Progress
  <2>2. LoaderOK /\ epoch \in Nat /\ sampleIter \in 0 .. loader.num /\ epoch < loader.epochs
    BY <2>1, LoaderIsOK DEF RunInv, LoaderInv, TypeOK, Counters, LoaderOK
  <2>3. epoch * loader.num + sampleIter = iter * loader.mini
    BY <1>4, <2>1, <2>2 DEF RunInv, LoaderInv, Counters, Consumed, LoaderOK
  <2>4. PICK d \in Nat : loader.epochs = epoch + 1 + d
    <3>1. loader.epochs - epoch - 1 \in Nat
      BY <2>2 DEF LoaderOK
    <3>2. loader.epochs = epoch + 1 + (loader.epochs - epoch - 1)
      BY <2>2 DEF LoaderOK
    <3> QED BY <3>1, <3>2
  <2>5. loader.num * loader.epochs = epoch * loader.num + loader.num + loader.num * d
    BY <2>2, <2>4 DEF LoaderOK
  <2>6. loader.num * d \in Nat /\ epoch * loader.num \in Nat
    BY <2>2 DEF LoaderOK
  <2> QED BY <2>2, <2>3, <2>5, <2>6 DEF LoaderOK
<1>6. \A f \in files' : f \in files \/ (f.at = iter /\ f.w = w /\ f.whole \in BOOLEAN)
  BY <1>1 DEF Others
<1>7. FilesFit' /\ SnapshotsCount'
  BY <1>2, <1>4, <1>5, <1>6 DEF RunInv, ProgramInv, FilesFit, SnapshotsCount, Done
<1>8. RunTypeOK'
  <2>1. (\A f \in files : f.at \in Nat /\ f.whole \in BOOLEAN /\ f.w \in Weights)'
    BY <1>4, <1>6 DEF RunInv, ProgramInv, RunTypeOK
  <2> QED BY <1>1, <1>2, <1>3, <1>4, <2>1 DEF RunInv, LoaderInv, ProgramInv, RunTypeOK
<1>9. Progress'
  <2>1. phase # "down" /\ Done' = Done
    BY <1>1 DEF Done
  <2> QED BY <1>1, <1>2, <2>1 DEF RunInv, ProgramInv, Progress
<1>10. MpiCounts'
  BY <1>1, <1>2 DEF RunInv, ProgramInv, MpiCounts, MaxIter
<1> QED BY <1>1, <1>2, <1>3, <1>7, <1>8, <1>9, <1>10, OrderKept DEF RunInv, ProgramInv

LEMMA CrashStep == RunInv /\ Crash => RunInv'
<1> SUFFICES ASSUME RunInv, Crash PROVE RunInv'
  OBVIOUS
<1>1. /\ phase # "down" /\ phase' = "down" /\ crashes' = crashes + 1 /\ crashes < MaxCrashes
      /\ iter' = iter /\ w' = w /\ from' = from /\ files' = files /\ UNCHANGED loaderVars
  BY DEF Crash
<1>2. loader' = loader
  BY <1>1 DEF loaderVars
<1>3. LoaderInv'
  BY <1>1, LeftAlone DEF RunInv
<1>4. crashes' \in 0 .. MaxCrashes
  BY <1>1, CrashAssumption DEF RunInv, ProgramInv, RunTypeOK
<1>5. Progress' /\ MpiCounts'
  BY <1>1, <1>2 DEF RunInv, ProgramInv, Progress, MpiCounts
<1>6. RunTypeOK'
  BY <1>1, <1>2, <1>3, <1>4, FilesKept, OrderKept DEF RunInv, LoaderInv, ProgramInv, RunTypeOK
<1> QED BY <1>1, <1>2, <1>3, <1>5, <1>6, FilesKept, OrderKept DEF RunInv, ProgramInv

LEMMA Stuttering == RunInv /\ UNCHANGED vars => RunInv'
<1> SUFFICES ASSUME RunInv, UNCHANGED vars PROVE RunInv'
  OBVIOUS
<1>1. /\ UNCHANGED loaderVars /\ from' = from /\ loader' = loader /\ pc' = pc /\ given' = given
      /\ phase' = phase /\ iter' = iter /\ w' = w /\ files' = files /\ crashes' = crashes
  BY DEF vars, programVars, loaderVars
<1>2. LoaderInv'
  BY <1>1, LeftAlone DEF RunInv
<1>3. Weights' = Weights
  BY <1>1 DEF Weights
<1> QED
  BY <1>1, <1>2, <1>3 DEF RunInv, LoaderInv, ProgramInv, RunTypeOK, Progress, MpiCounts, MaxIter, FilesFit,
       SnapshotsCount, TrainsInOrder, Done, Stream!Total, Stream!Batch

-----------------------------------------------------------------------------
(* The inductive invariant holds of every training program, whatever *)
(* crashes and resumptions it meets.                                 *)
THEOREM RunInvariance == RunSpec => []RunInv
<1>1. RunInv /\ [RunNext]_vars => RunInv'
  BY StartStep, InitTensorsStep, RestoreStep, LoadStep, FetchStep, TrainStep, FinishStep,
     SaveStep, CrashStep, Stuttering DEF RunNext, Step
<1> QED BY <1>1, RunBegins, PTL DEF RunSpec

(* A whole snapshot holds as many batches as it is named after, whoever wrote it. *)
THEOREM SnapshotsCorrect == RunSpec => []SnapshotsCount
<1>1. RunInv => SnapshotsCount
  BY DEF RunInv, ProgramInv
<1> QED BY <1>1, RunInvariance, PTL

(* A process that starts from nothing trains on the batches of the stream, in order. *)
THEOREM InOrder == RunSpec => []TrainsInOrder
<1>1. RunInv => TrainsInOrder
  BY DEF RunInv, ProgramInv
<1> QED BY <1>1, RunInvariance, PTL

(* A process that ends has trained on as many batches as one never interrupted. *)
THEOREM Complete == RunSpec => []RunComplete
<1>1. RunInv => RunComplete
  BY DEF RunInv, ProgramInv, Progress, MpiCounts, LoaderInv, Counters, RunComplete
<1> QED BY <1>1, RunInvariance, PTL

(* A resumed process never reads past the end of an intact file, and is in *)
(* step with it from the end of the epoch it resumed in.                   *)
THEOREM Realigns == RunSpec => []ResumeRealigns
<1>1. RunInv => ResumeRealigns
  BY DEF RunInv, LoaderInv, Behind, InStep, ResumedIn, Stream!Intact, ResumeRealigns
<1> QED BY <1>1, RunInvariance, PTL
=============================================================================
