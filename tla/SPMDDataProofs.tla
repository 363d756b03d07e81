----------------------------- MODULE SPMDDataProofs -----------------------------
(***************************************************************************)
(* Proofs about the data the ranks exchange: for every shape and number of *)
(* processes that divides it, the strided blocks of the emitted MPI types  *)
(* are the parts the layouts name; and in every run of a plan whose ops    *)
(* read what earlier ops have made, each operand of a kernel is this       *)
(* iteration's.                                                            *)
(***************************************************************************)
EXTENDS SPMDProofs

(* A cut axis can be divided among the processes. *)
ShapesOK ==
  /\ NProcs \in Nat \ {0} /\ Rows \in Nat /\ Cols \in Nat
  /\ Rows % NProcs = 0 /\ Cols % NProcs = 0

-----------------------------------------------------------------------------
(* Arithmetic.  A product is as ordered as its factor. *)
LEMMA FactorOrder ==
  ASSUME NEW m \in Nat \ {0}, NEW q \in Int, NEW p \in Int, q * m < p * m + m
  PROVE  q <= p
<1>1. SUFFICES ASSUME q >= p + 1 PROVE FALSE
  OBVIOUS
<1>2. PICK d \in Nat : q = p + 1 + d
  <2>1. q - p - 1 \in Nat /\ q = p + 1 + (q - p - 1)
    BY <1>1
  <2> QED BY <2>1
<1>3. q * m = p * m + m + d * m
  BY <1>2
<1>4. d * m >= 0
  OBVIOUS
<1> QED BY <1>3, <1>4

(* Quotient and remainder, of any numerator and as the only ones that fit. *)
LEMMA Quotient ==
  ASSUME NEW m \in Nat \ {0}, NEW a \in Int
  PROVE  a \div m \in Int /\ a % m \in 0 .. m - 1 /\ a = (a \div m) * m + (a % m)
<1> DEFINE p == a \div m
           s == a % m
<1>1. p \in Int /\ s \in 0 .. m - 1 /\ a = m * p + s
  OBVIOUS
<1> HIDE DEF p, s
<1>2. a = p * m + s
  BY <1>1
<1> QED BY <1>1, <1>2 DEF p, s

LEMMA QuotientUnique ==
  ASSUME NEW m \in Nat \ {0}, NEW q \in Int, NEW r \in 0 .. m - 1
  PROVE  (q * m + r) \div m = q /\ (q * m + r) % m = r
<1> DEFINE a == q * m + r
           p == a \div m
           s == a % m
<1>1. q * m \in Int /\ a \in Int
  OBVIOUS
<1>2. p \in Int /\ s \in 0 .. m - 1 /\ a = p * m + s
  BY <1>1, Quotient
<1>3. a = q * m + r
  OBVIOUS
<1> HIDE DEF a, p, s
<1>4. q * m < p * m + m /\ p * m < q * m + m
  BY <1>1, <1>2, <1>3
<1>5. q <= p /\ p <= q
  BY <1>2, <1>4, FactorOrder
<1>6. p = q
  BY <1>2, <1>5
<1>7. s = r
  BY <1>1, <1>2, <1>3, <1>6
<1> QED BY <1>6, <1>7 DEF a, p, s

(* The cells of k rows of m, by row and column. *)
LEMMA RowMajor ==
  ASSUME NEW k \in Nat, NEW m \in Nat, NEW c \in 1 .. k * m
  PROVE  /\ m # 0
         /\ (c - 1) \div m \in 0 .. k - 1 /\ (c - 1) % m \in 0 .. m - 1
         /\ c = ((c - 1) \div m) * m + ((c - 1) % m) + 1
<1>1. m # 0
  <2> SUFFICES ASSUME m = 0 PROVE FALSE
    OBVIOUS
  <2>1. k * m = 0
    OBVIOUS
  <2> QED BY <2>1
<1> DEFINE q == (c - 1) \div m
           s == (c - 1) % m
<1>2. q \in Int /\ s \in 0 .. m - 1 /\ c - 1 = q * m + s
  BY <1>1, Quotient
<1> HIDE DEF q, s
<1>3. q * m \in Int /\ k * m \in Int /\ (k - 1) * m = k * m - m /\ (-1) * m = -m
  BY <1>2
<1>4. q <= k - 1
  <2>1. q * m < (k - 1) * m + m
    BY <1>2, <1>3
  <2> QED BY <1>1, <1>2, <2>1, FactorOrder
<1>5. 0 <= q
  <2>1. 0 * m < q * m + m
    BY <1>2, <1>3
  <2> QED BY <1>1, <1>2, <2>1, FactorOrder
<1>6. q \in 0 .. k - 1
  BY <1>2, <1>4, <1>5
<1>7. c = q * m + s + 1
  <2>1. c \in Int
    OBVIOUS
  <2> QED BY <1>2, <1>3, <2>1
<1> QED BY <1>1, <1>2, <1>6, <1>7 DEF q, s

LEMMA CellOf ==
  ASSUME NEW k \in Nat, NEW m \in Nat, NEW a \in 0 .. k - 1, NEW b \in 0 .. m - 1,
         NEW c, c = a * m + b + 1
  PROVE  c \in 1 .. k * m /\ (c - 1) \div m = a /\ (c - 1) % m = b
<1>1. a * m \in Nat /\ k * m \in Nat
  OBVIOUS
<1>2. a * m + m <= k * m
  <2>1. PICK d \in Nat : k = a + 1 + d
    <3>1. k - a - 1 \in Nat /\ k = a + 1 + (k - a - 1)
      OBVIOUS
    <3> QED BY <3>1
  <2>2. k * m = a * m + m + d * m /\ d * m >= 0
    BY <2>1
  <2> QED BY <1>1, <2>2
<1>3. c - 1 = a * m + b
  BY <1>1
<1>4. c \in 1 .. k * m
  BY <1>1, <1>2
<1> QED BY <1>3, <1>4, QuotientUnique

-----------------------------------------------------------------------------
(* Shapes: the height and width of a part that is cut along that axis. *)
Height == Rows \div NProcs
Width == Cols \div NProcs

LEMMA Multiple ==
  ASSUME ShapesOK, NEW n \in Nat PROVE (n * NProcs) \div NProcs = n
<1>1. n * NProcs + 0 = n * NProcs
  BY DEF ShapesOK
<1> QED BY <1>1, QuotientUnique DEF ShapesOK

LEMMA Divided ==
  ASSUME ShapesOK
  PROVE  /\ Height \in Nat /\ Width \in Nat
         /\ Rows = Height * NProcs /\ Cols = Width * NProcs
         /\ Rows * Cols = (Height * Cols) * NProcs
         /\ Rows * Width = (Height * Width) * NProcs
<1>1. ASSUME NEW x \in Nat, x % NProcs = 0
      PROVE  x \div NProcs \in Nat /\ x = (x \div NProcs) * NProcs
  <2> DEFINE q == x \div NProcs
  <2>1. q \in Int /\ x = q * NProcs + 0
    BY <1>1, Quotient DEF ShapesOK
  <2> HIDE DEF q
  <2>2. 0 * NProcs < q * NProcs + NProcs
    BY <1>1, <2>1 DEF ShapesOK
  <2>3. 0 <= q
    BY <2>1, <2>2, FactorOrder DEF ShapesOK
  <2>4. x = q * NProcs
    BY <2>1 DEF ShapesOK
  <2> QED BY <2>1, <2>3, <2>4 DEF q
<1>2. /\ Height \in Nat /\ Width \in Nat
      /\ Rows = Height * NProcs /\ Cols = Width * NProcs
  BY <1>1 DEF ShapesOK, Height, Width
<1> HIDE DEF Height, Width
<1>3. (Height * NProcs) * Cols = (Height * Cols) * NProcs
  BY <1>2 DEF ShapesOK
<1>4. (Height * NProcs) * Width = (Height * Width) * NProcs
  BY <1>2 DEF ShapesOK
<1> QED BY <1>2, <1>3, <1>4

(* A cut along axis 0 names a run of cells. *)
LEMMA Contiguous ==
  ASSUME ShapesOK, NEW a \in Nat, NEW b \in Nat, NEW n \in Nat, a * b = n * NProcs,
         NEW r \in Rank
  PROVE  Vector(<<a, b>>, 0, r) = [c \in 1 .. n |-> n * r + c]
<1>1. Stride(<<a, b>>, 0) = a * b /\ Count(<<a, b>>, 0) = 1
  BY DEF Stride, Count
<1>2. (a * b) \div NProcs = n /\ 1 * n = n
  BY Multiple
<1>3. ASSUME NEW c \in 1 .. n
      PROVE  n * r + ((c - 1) \div n) * (a * b) + ((c - 1) % n) + 1 = n * r + c
  <2>1. /\ (c - 1) \div n \in 0 .. 1 - 1 /\ (c - 1) % n \in 0 .. n - 1
        /\ c = ((c - 1) \div n) * n + ((c - 1) % n) + 1
    <3>1. 1 \in Nat /\ c \in 1 .. 1 * n
      BY <1>2
    <3> QED BY <3>1, RowMajor
  <2> DEFINE q == (c - 1) \div n
             e == (c - 1) % n
  <2>2. q = 0 /\ e \in Int /\ c = q * n + e + 1
    BY <2>1
  <2> HIDE DEF q, e
  <2>3. n * r \in Int /\ a * b \in Int
    BY DEF Rank, ShapesOK
  <2>4. q * (a * b) = 0 /\ q * n = 0
    BY <2>2, <2>3
  <2>5. n * r + q * (a * b) + e + 1 = n * r + c
    BY <2>2, <2>3, <2>4
  <2> QED BY <2>5 DEF q, e
<1> QED BY <1>1, <1>2, <1>3 DEF Vector

(* A cut along axis 1 names a run of cells of every row. *)
LEMMA Strided ==
  ASSUME ShapesOK, NEW r \in Rank, NEW a \in Nat
  PROVE  Vector(<<a, Cols>>, 1, r) =
           [c \in 1 .. a * Width |->
              ((c - 1) \div Width) * Cols + (Width * r + ((c - 1) % Width)) + 1]
<1>1. Stride(<<a, Cols>>, 1) = Cols /\ Count(<<a, Cols>>, 1) = a
  BY DEF Stride, Count
<1>2. Cols \div NProcs = Width
  BY DEF Width
<1>3. ASSUME NEW c \in 1 .. a * Width
      PROVE  Width * r + ((c - 1) \div Width) * Cols + ((c - 1) % Width) + 1
               = ((c - 1) \div Width) * Cols + (Width * r + ((c - 1) % Width)) + 1
  <2> DEFINE q == (c - 1) \div Width
             e == (c - 1) % Width
  <2>1. q \in Int /\ e \in Int /\ Width \in Int
    BY RowMajor, Divided
  <2> HIDE DEF q, e
  <2>2. Width * r \in Int /\ q * Cols \in Int
    BY <2>1 DEF Rank, ShapesOK
  <2>3. Width * r + q * Cols + e + 1 = q * Cols + (Width * r + e) + 1
    BY <2>1, <2>2
  <2> QED BY <2>3 DEF q, e
<1> QED BY <1>1, <1>2, <1>3 DEF Vector

-----------------------------------------------------------------------------
(* Where the cells of a part are in the tensor. *)
LEMMA Shapes ==
  /\ Shape(0) = <<Height, Cols>> /\ Shape(1) = <<Rows, Width>>
  /\ Shape(Whole) = <<Rows, Cols>> /\ Shape(-1) = <<Rows, Cols>> /\ Shape(-2) = <<Rows, Cols>>
  /\ Size(0) = Height * Cols /\ Size(1) = Rows * Width
  /\ Size(Whole) = Rows * Cols /\ Size(-1) = Rows * Cols /\ Size(-2) = Rows * Cols
BY DEF Shape, Size, Height, Width, Whole

LEMMA GlobalWhole ==
  ASSUME ShapesOK, NEW lay \in {Whole, -1}, NEW r, NEW c \in 1 .. Rows * Cols
  PROVE  Global(lay, r, c) = c
<1> DEFINE q == (c - 1) \div Cols
           e == (c - 1) % Cols
<1>1. q \in Int /\ e \in Int /\ c = q * Cols + e + 1
  BY RowMajor DEF ShapesOK
<1>2. Global(lay, r, c) = (q + 0) * Cols + (e + 0) + 1
  BY Shapes DEF Global, Whole
<1> HIDE DEF q, e
<1> QED BY <1>1, <1>2

LEMMA GlobalRows ==
  ASSUME ShapesOK, NEW r \in Rank, NEW a \in 0 .. Height - 1, NEW b \in 0 .. Cols - 1
  PROVE  Global(0, r, a * Cols + b + 1) = (a + r * Height) * Cols + b + 1
<1> DEFINE c == a * Cols + b + 1
<1>1. (c - 1) \div Cols = a /\ (c - 1) % Cols = b
  <2>1. Height \in Nat /\ Cols \in Nat /\ c = a * Cols + b + 1
    BY Divided DEF ShapesOK
  <2> HIDE DEF c
  <2> QED BY <2>1, CellOf
<1>2. Global(0, r, c) = (((c - 1) \div Cols) + r * Height) * Cols + (((c - 1) % Cols) + 0) + 1
  BY Shapes DEF Global
<1> HIDE DEF c
<1>3. Global(0, r, c) = (a + r * Height) * Cols + (b + 0) + 1
  BY <1>1, <1>2
<1>4. b + 0 = b
  OBVIOUS
<1> QED BY <1>3, <1>4 DEF c

LEMMA GlobalColumns ==
  ASSUME ShapesOK, NEW r \in Rank, NEW a \in 0 .. Rows - 1, NEW b \in 0 .. Width - 1
  PROVE  Global(1, r, a * Width + b + 1) = a * Cols + (b + r * Width) + 1
<1> DEFINE c == a * Width + b + 1
<1>1. (c - 1) \div Width = a /\ (c - 1) % Width = b
  <2>1. Rows \in Nat /\ Width \in Nat /\ c = a * Width + b + 1
    BY Divided DEF ShapesOK
  <2> HIDE DEF c
  <2> QED BY <2>1, CellOf
<1>2. Global(1, r, c) = (((c - 1) \div Width) + 0) * Cols + (((c - 1) % Width) + r * Width) + 1
  BY Shapes DEF Global
<1> HIDE DEF c
<1>3. Global(1, r, c) = (a + 0) * Cols + (b + r * Width) + 1
  BY <1>1, <1>2
<1>4. a + 0 = a
  OBVIOUS
<1> QED BY <1>3, <1>4 DEF c

(* Rank r's rows of a tensor, or of columns of it. *)
LEMMA RowsBefore ==
  ASSUME ShapesOK, NEW r \in Rank, NEW m \in Nat, NEW a \in Int
  PROVE  (Height * m) * r + a * m = (a + r * Height) * m
<1>1. Height \in Int /\ r \in Int
  BY Divided DEF Rank, ShapesOK
<1>2. (Height * m) * r = (r * Height) * m
  BY <1>1
<1>3. (a + r * Height) * m = a * m + (r * Height) * m /\ (r * Height) * m \in Int /\ a * m \in Int
  BY <1>1
<1> QED BY <1>2, <1>3

(***************************************************************************)
(* What rank s gives for a part in layout lay of rank d, from its own part *)
(* in layout axis: a block of its part that is a block of the other.  A    *)
(* Gather is the case where the other is the whole tensor.                 *)
(***************************************************************************)
Block(lay, axis, s) == Vector(Shape(lay), axis, s)

Given(lay, axis, d) ==
  IF lay = Whole THEN All(axis) ELSE Vector(Shape(axis), lay, d)

Exchange == {<<Whole, 0>>, <<Whole, 1>>, <<0, 1>>, <<1, 0>>}

LEMMA Blocks ==
  ASSUME ShapesOK, NEW r \in Rank
  PROVE  /\ Block(Whole, 0, r) = [c \in 1 .. Height * Cols |-> (Height * Cols) * r + c]
         /\ Block(Whole, 1, r) = [c \in 1 .. Rows * Width |->
              ((c - 1) \div Width) * Cols + (Width * r + ((c - 1) % Width)) + 1]
         /\ Block(0, 1, r) = [c \in 1 .. Height * Width |->
              ((c - 1) \div Width) * Cols + (Width * r + ((c - 1) % Width)) + 1]
         /\ Block(1, 0, r) = [c \in 1 .. Height * Width |-> (Height * Width) * r + c]
<1>1. Height * Cols \in Nat /\ Height * Width \in Nat
  BY Divided DEF ShapesOK
<1>2. Vector(<<Rows, Cols>>, 0, r) = [c \in 1 .. Height * Cols |-> (Height * Cols) * r + c]
  <2>1. Rows \in Nat /\ Cols \in Nat /\ Rows * Cols = (Height * Cols) * NProcs
    BY Divided DEF ShapesOK
  <2> QED BY <1>1, <2>1, Contiguous, Zenon
<1>3. Vector(<<Rows, Width>>, 0, r) = [c \in 1 .. Height * Width |-> (Height * Width) * r + c]
  <2>1. Rows \in Nat /\ Width \in Nat /\ Rows * Width = (Height * Width) * NProcs
    BY Divided DEF ShapesOK
  <2> QED BY <1>1, <2>1, Contiguous, Zenon
<1>4. Rows \in Nat /\ Height \in Nat
  BY Divided DEF ShapesOK
<1> QED BY <1>2, <1>3, <1>4, Shapes, Strided DEF Block

(* Row a of rank r's rows is a row of the tensor, and so for columns. *)
LEMMA RowIn ==
  ASSUME ShapesOK, NEW r \in Rank, NEW a \in 0 .. Height - 1
  PROVE  a + r * Height \in 0 .. Rows - 1
<1>1. Height \in Nat \ {0} /\ NProcs \in Nat /\ Rows = Height * NProcs
  BY Divided DEF ShapesOK
<1>2. a \in Int /\ r \in 0 .. NProcs - 1
  BY DEF Rank
<1>3. r * Height + a + 1 \in 1 .. NProcs * Height
  BY <1>1, <1>2, CellOf
<1>4. NProcs * Height = Height * NProcs /\ r * Height \in Int
  BY <1>1, <1>2
<1> QED BY <1>1, <1>2, <1>3, <1>4

LEMMA ColumnIn ==
  ASSUME ShapesOK, NEW r \in Rank, NEW b \in 0 .. Width - 1
  PROVE  b + r * Width \in 0 .. Cols - 1 /\ Width * r + b = b + r * Width
<1>1. Width \in Nat \ {0} /\ NProcs \in Nat /\ Cols = Width * NProcs
  BY Divided DEF ShapesOK
<1>2. b \in Int /\ r \in 0 .. NProcs - 1
  BY DEF Rank
<1>3. r * Width + b + 1 \in 1 .. NProcs * Width
  BY <1>1, <1>2, CellOf
<1>4. NProcs * Width = Width * NProcs /\ r * Width \in Int /\ Width * r = r * Width
  BY <1>1, <1>2
<1> QED BY <1>1, <1>2, <1>3, <1>4

(* Every row of the tensor is one of some rank's, and so for columns. *)
LEMMA RowOf ==
  ASSUME ShapesOK, NEW x \in 0 .. Rows - 1
  PROVE  \E r \in Rank : \E a \in 0 .. Height - 1 : x = a + r * Height
<1>1. Height \in Nat /\ NProcs \in Nat /\ x \in Int /\ Rows = NProcs * Height
  BY Divided DEF ShapesOK
<1>2. PICK c : c = x + 1
  OBVIOUS
<1>3. c \in 1 .. NProcs * Height
  BY <1>1, <1>2
<1> DEFINE q == (c - 1) \div Height
           e == (c - 1) % Height
<1>4. q \in 0 .. NProcs - 1 /\ e \in 0 .. Height - 1 /\ c = q * Height + e + 1
  BY <1>1, <1>3, RowMajor
<1> HIDE DEF q, e
<1>5. q * Height \in Int /\ q \in Rank
  BY <1>1, <1>4 DEF Rank
<1>6. x = e + q * Height
  BY <1>1, <1>2, <1>4, <1>5
<1> QED BY <1>4, <1>5, <1>6

LEMMA ColumnOf ==
  ASSUME ShapesOK, NEW x \in 0 .. Cols - 1
  PROVE  \E r \in Rank : \E b \in 0 .. Width - 1 : x = b + r * Width
<1>1. Width \in Nat /\ NProcs \in Nat /\ x \in Int /\ Cols = NProcs * Width
  BY Divided DEF ShapesOK
<1>2. PICK c : c = x + 1
  OBVIOUS
<1>3. c \in 1 .. NProcs * Width
  BY <1>1, <1>2
<1> DEFINE q == (c - 1) \div Width
           e == (c - 1) % Width
<1>4. q \in 0 .. NProcs - 1 /\ e \in 0 .. Width - 1 /\ c = q * Width + e + 1
  BY <1>1, <1>3, RowMajor
<1> HIDE DEF q, e
<1>5. q * Width \in Int /\ q \in Rank
  BY <1>1, <1>4 DEF Rank
<1>6. x = e + q * Width
  BY <1>1, <1>2, <1>4, <1>5
<1> QED BY <1>4, <1>5, <1>6

(* Block and Given name cells of the two parts, the same of the tensor. *)
Agrees(lay, axis, s, d) ==
  /\ DOMAIN Given(lay, axis, d) = DOMAIN Block(lay, axis, s)
  /\ \A c \in DOMAIN Block(lay, axis, s) :
       /\ Given(lay, axis, d)[c] \in 1 .. Size(axis) /\ Block(lay, axis, s)[c] \in 1 .. Size(lay)
       /\ Global(axis, s, Given(lay, axis, d)[c]) = Global(lay, d, Block(lay, axis, s)[c])

LEMMA GatherRows ==
  ASSUME ShapesOK, NEW s \in Rank, NEW d \in Rank PROVE Agrees(Whole, 0, s, d)
<1>1. Given(Whole, 0, d) = [c \in 1 .. Height * Cols |-> c]
  BY Shapes DEF Given, All
<1>2. Block(Whole, 0, s) = [c \in 1 .. Height * Cols |-> (Height * Cols) * s + c]
  BY Blocks
<1>3. ASSUME NEW c \in 1 .. Height * Cols
      PROVE  LET x == (Height * Cols) * s + c
             IN  x \in 1 .. Rows * Cols /\ Global(0, s, c) = Global(Whole, d, x)
  <2>1. Height \in Nat /\ Cols \in Nat /\ Rows \in Nat
    BY Divided DEF ShapesOK
  <2> DEFINE a == (c - 1) \div Cols
             b == (c - 1) % Cols
  <2>2. a \in 0 .. Height - 1 /\ b \in 0 .. Cols - 1 /\ c = a * Cols + b + 1
    BY <2>1, RowMajor
  <2> HIDE DEF a, b
  <2>3. (Height * Cols) * s + c = (a + s * Height) * Cols + b + 1
    <3>1. Cols \in Nat /\ a \in Int /\ b \in Int /\ s \in Int /\ c \in Int
      BY <2>1, <2>2 DEF Rank
    <3>2. (Height * Cols) * s + a * Cols = (a + s * Height) * Cols
      BY <3>1, RowsBefore, Zenon
    <3>3. (Height * Cols) * s \in Int /\ a * Cols \in Int
      BY <2>1, <3>1
    <3> QED BY <2>2, <3>1, <3>2, <3>3
  <2>4. a + s * Height \in 0 .. Rows - 1
    BY <2>2, RowIn
  <2>5. (a + s * Height) * Cols + b + 1 \in 1 .. Rows * Cols
    BY <2>1, <2>2, <2>4, CellOf
  <2>6. Global(0, s, c) = (a + s * Height) * Cols + b + 1
    BY <2>2, GlobalRows
  <2> QED BY <2>3, <2>5, <2>6, GlobalWhole
<1> QED BY <1>1, <1>2, <1>3, Shapes DEF Agrees

LEMMA GatherColumns ==
  ASSUME ShapesOK, NEW s \in Rank, NEW d \in Rank PROVE Agrees(Whole, 1, s, d)
<1>1. Given(Whole, 1, d) = [c \in 1 .. Rows * Width |-> c]
  BY Shapes DEF Given, All
<1>2. Block(Whole, 1, s) = [c \in 1 .. Rows * Width |->
        ((c - 1) \div Width) * Cols + (Width * s + ((c - 1) % Width)) + 1]
  BY Blocks
<1>3. ASSUME NEW c \in 1 .. Rows * Width
      PROVE  LET x == ((c - 1) \div Width) * Cols + (Width * s + ((c - 1) % Width)) + 1
             IN  x \in 1 .. Rows * Cols /\ Global(1, s, c) = Global(Whole, d, x)
  <2>1. Width \in Nat /\ Cols \in Nat /\ Rows \in Nat
    BY Divided DEF ShapesOK
  <2> DEFINE a == (c - 1) \div Width
             b == (c - 1) % Width
  <2>2. a \in 0 .. Rows - 1 /\ b \in 0 .. Width - 1 /\ c = a * Width + b + 1
    BY <2>1, RowMajor
  <2> HIDE DEF a, b
  <2>3. Width * s + b = b + s * Width /\ b + s * Width \in 0 .. Cols - 1
    BY <2>2, ColumnIn
  <2>4. a * Cols + (b + s * Width) + 1 \in 1 .. Rows * Cols
    BY <2>1, <2>2, <2>3, CellOf
  <2>5. Global(1, s, c) = a * Cols + (b + s * Width) + 1
    BY <2>2, GlobalColumns
  <2>6. /\ a * Cols + (Width * s + b) + 1 \in 1 .. Rows * Cols
        /\ Global(1, s, c) = Global(Whole, d, a * Cols + (Width * s + b) + 1)
    BY <2>3, <2>4, <2>5, GlobalWhole
  <2> QED BY <2>6 DEF a, b
<1> QED BY <1>1, <1>2, <1>3, Shapes DEF Agrees

(***************************************************************************)
(* A Transform between rows and columns: cell (a, b) of the block is row a *)
(* of p's rows and column b of q's columns, whoever gives it.              *)
(***************************************************************************)
LEMMA Crossing ==
  ASSUME ShapesOK, NEW p \in Rank, NEW q \in Rank, NEW c \in 1 .. Height * Width
  PROVE  LET x == ((c - 1) \div Width) * Cols + (Width * q + ((c - 1) % Width)) + 1
             y == (Height * Width) * p + c
         IN  /\ x \in 1 .. Height * Cols /\ y \in 1 .. Rows * Width
             /\ Global(0, p, x) = Global(1, q, y)
<1>1. Width \in Nat /\ Height \in Nat /\ Cols \in Nat /\ Rows \in Nat
  BY Divided DEF ShapesOK
<1> DEFINE a == (c - 1) \div Width
           b == (c - 1) % Width
<1>2. a \in 0 .. Height - 1 /\ b \in 0 .. Width - 1 /\ c = a * Width + b + 1
  BY <1>1, RowMajor
<1> HIDE DEF a, b
<1>3. Width * q + b = b + q * Width /\ b + q * Width \in 0 .. Cols - 1
  BY <1>2, ColumnIn
<1>4. a + p * Height \in 0 .. Rows - 1
  BY <1>2, RowIn
<1>5. (Height * Width) * p + c = (a + p * Height) * Width + b + 1
  <2>1. Width \in Nat /\ a \in Int /\ b \in Int /\ p \in Int /\ c \in Int
    BY <1>1, <1>2 DEF Rank
  <2>2. (Height * Width) * p + a * Width = (a + p * Height) * Width
    BY <2>1, RowsBefore, Zenon
  <2>3. (Height * Width) * p \in Int /\ a * Width \in Int
    BY <1>1, <2>1
  <2> QED BY <1>2, <2>1, <2>2, <2>3
<1>6. a * Cols + (b + q * Width) + 1 \in 1 .. Height * Cols
  BY <1>1, <1>2, <1>3, CellOf
<1>7. (a + p * Height) * Width + b + 1 \in 1 .. Rows * Width
  BY <1>1, <1>2, <1>4, CellOf
<1>8. Global(0, p, a * Cols + (b + q * Width) + 1)
        = (a + p * Height) * Cols + (b + q * Width) + 1
  BY <1>2, <1>3, GlobalRows
<1>9. Global(1, q, (a + p * Height) * Width + b + 1)
        = (a + p * Height) * Cols + (b + q * Width) + 1
  BY <1>2, <1>4, GlobalColumns
<1>10. LET x == a * Cols + (Width * q + b) + 1
           y == (Height * Width) * p + c
       IN  /\ x \in 1 .. Height * Cols /\ y \in 1 .. Rows * Width
           /\ Global(0, p, x) = Global(1, q, y)
  BY <1>3, <1>5, <1>6, <1>7, <1>8, <1>9
<1> QED BY <1>10 DEF a, b

LEMMA Agreement ==
  ASSUME ShapesOK, NEW s \in Rank, NEW d \in Rank, NEW lay, NEW axis,
         <<lay, axis>> \in Exchange
  PROVE  Agrees(lay, axis, s, d)
<1>1. CASE lay = Whole /\ axis = 0
  BY <1>1, GatherRows
<1>2. CASE lay = Whole /\ axis = 1
  BY <1>2, GatherColumns
<1>3. CASE lay = 0 /\ axis = 1
  <2>1. Given(0, 1, d) = Block(1, 0, d)
    BY DEF Given, Block, Whole
  <2>2. ASSUME NEW c \in 1 .. Height * Width
        PROVE  /\ Block(0, 1, s)[c] \in 1 .. Height * Cols /\ Block(1, 0, d)[c] \in 1 .. Rows * Width
               /\ Global(0, d, Block(0, 1, s)[c]) = Global(1, s, Block(1, 0, d)[c])
    <3>1. /\ Block(0, 1, s)[c] = ((c - 1) \div Width) * Cols + (Width * s + ((c - 1) % Width)) + 1
          /\ Block(1, 0, d)[c] = (Height * Width) * d + c
      BY Blocks
    <3> QED BY <3>1, Crossing, Zenon
  <2>3. DOMAIN Block(0, 1, s) = 1 .. Height * Width /\ DOMAIN Block(1, 0, d) = 1 .. Height * Width
    BY Blocks
  <2>4. Agrees(0, 1, s, d)
    BY <2>1, <2>2, <2>3, Shapes DEF Agrees
  <2> QED BY <1>3, <2>4
<1>4. CASE lay = 1 /\ axis = 0
  <2>1. Given(1, 0, d) = Block(0, 1, d)
    BY DEF Given, Block, Whole
  <2>2. ASSUME NEW c \in 1 .. Height * Width
        PROVE  /\ Block(0, 1, d)[c] \in 1 .. Height * Cols /\ Block(1, 0, s)[c] \in 1 .. Rows * Width
               /\ Global(0, s, Block(0, 1, d)[c]) = Global(1, d, Block(1, 0, s)[c])
    <3>1. /\ Block(0, 1, d)[c] = ((c - 1) \div Width) * Cols + (Width * d + ((c - 1) % Width)) + 1
          /\ Block(1, 0, s)[c] = (Height * Width) * s + c
      BY Blocks
    <3> QED BY <3>1, Crossing, Zenon
  <2>3. DOMAIN Block(0, 1, d) = 1 .. Height * Width /\ DOMAIN Block(1, 0, s) = 1 .. Height * Width
    BY Blocks
  <2>4. Agrees(1, 0, s, d)
    BY <2>1, <2>2, <2>3, Shapes DEF Agrees
  <2> QED BY <1>4, <2>4
<1> QED BY <1>1, <1>2, <1>3, <1>4 DEF Exchange

-----------------------------------------------------------------------------
(* The blocks of all ranks cover a part. *)
LEMMA RowsCover ==
  ASSUME ShapesOK, NEW m \in Nat, NEW x \in 1 .. Rows * m
  PROVE  \E s \in Rank : \E c \in 1 .. Height * m : (Height * m) * s + c = x
<1>1. Height \in Nat /\ Rows \in Nat
  BY Divided DEF ShapesOK
<1> DEFINE q == (x - 1) \div m
           b == (x - 1) % m
<1>2. q \in 0 .. Rows - 1 /\ b \in 0 .. m - 1 /\ x = q * m + b + 1
  BY <1>1, RowMajor
<1> HIDE DEF q, b
<1>3. PICK s \in Rank, a \in 0 .. Height - 1 : q = a + s * Height
  BY <1>2, RowOf
<1>4. PICK c : c = a * m + b + 1
  OBVIOUS
<1>5. c \in 1 .. Height * m
  BY <1>1, <1>2, <1>4, CellOf
<1>6. /\ (Height * m) * s + a * m = (a + s * Height) * m
      /\ (Height * m) * s \in Int /\ a * m \in Int /\ b \in Int /\ c \in Int
  <2>1. s \in Int /\ a \in Int /\ b \in Int /\ c \in Int
    BY <1>2, <1>5 DEF Rank
  <2>2. (Height * m) * s + a * m = (a + s * Height) * m
    BY <1>1, <2>1, RowsBefore, Zenon
  <2> QED BY <1>1, <2>1, <2>2
<1>7. (Height * m) * s + c = x
  BY <1>2, <1>3, <1>4, <1>6
<1> QED BY <1>5, <1>7

LEMMA ColumnsCover ==
  ASSUME ShapesOK, NEW k \in Nat, NEW x \in 1 .. k * Cols
  PROVE  \E s \in Rank : \E c \in 1 .. k * Width :
           ((c - 1) \div Width) * Cols + (Width * s + ((c - 1) % Width)) + 1 = x
<1>1. Width \in Nat /\ Cols \in Nat
  BY Divided DEF ShapesOK
<1> DEFINE a == (x - 1) \div Cols
           q == (x - 1) % Cols
<1>2. a \in 0 .. k - 1 /\ q \in 0 .. Cols - 1 /\ x = a * Cols + q + 1
  BY <1>1, RowMajor
<1> HIDE DEF a, q
<1>3. PICK s \in Rank, b \in 0 .. Width - 1 : q = b + s * Width
  BY <1>2, ColumnOf
<1>4. PICK c : c = a * Width + b + 1
  OBVIOUS
<1>5. c \in 1 .. k * Width /\ (c - 1) \div Width = a /\ (c - 1) % Width = b
  BY <1>1, <1>2, <1>4, CellOf
<1>6. Width * s + b = q
  BY <1>3, ColumnIn
<1> QED BY <1>2, <1>5, <1>6

LEMMA Cover ==
  ASSUME ShapesOK, NEW lay, NEW axis, <<lay, axis>> \in Exchange, NEW x \in 1 .. Size(lay)
  PROVE  \E s \in Rank : \E c \in DOMAIN Block(lay, axis, s) : Block(lay, axis, s)[c] = x
<1>1. Height \in Nat /\ Rows \in Nat
  BY Divided DEF ShapesOK
<1>2. CASE lay = Whole /\ axis = 0
  <2>1. x \in 1 .. Rows * Cols
    BY <1>2, Shapes
  <2>2. PICK s \in Rank, c \in 1 .. Height * Cols : (Height * Cols) * s + c = x
    <3>1. Cols \in Nat
      BY Divided DEF ShapesOK
    <3> QED BY <2>1, <3>1, RowsCover
  <2>3. Block(Whole, 0, s) = [e \in 1 .. Height * Cols |-> (Height * Cols) * s + e]
    BY Blocks
  <2> QED BY <1>2, <2>2, <2>3
<1>3. CASE lay = Whole /\ axis = 1
  <2>1. x \in 1 .. Rows * Cols
    BY <1>3, Shapes
  <2>2. PICK s \in Rank, c \in 1 .. Rows * Width :
          ((c - 1) \div Width) * Cols + (Width * s + ((c - 1) % Width)) + 1 = x
    BY <1>1, <2>1, ColumnsCover
  <2>3. Block(Whole, 1, s) = [e \in 1 .. Rows * Width |->
          ((e - 1) \div Width) * Cols + (Width * s + ((e - 1) % Width)) + 1]
    BY Blocks
  <2> QED BY <1>3, <2>2, <2>3
<1>4. CASE lay = 0 /\ axis = 1
  <2>1. x \in 1 .. Height * Cols
    BY <1>4, Shapes
  <2>2. PICK s \in Rank, c \in 1 .. Height * Width :
          ((c - 1) \div Width) * Cols + (Width * s + ((c - 1) % Width)) + 1 = x
    BY <1>1, <2>1, ColumnsCover
  <2>3. Block(0, 1, s) = [e \in 1 .. Height * Width |->
          ((e - 1) \div Width) * Cols + (Width * s + ((e - 1) % Width)) + 1]
    BY Blocks
  <2> QED BY <1>4, <2>2, <2>3
<1>5. CASE lay = 1 /\ axis = 0
  <2>1. x \in 1 .. Rows * Width
    BY <1>5, Shapes
  <2>2. PICK s \in Rank, c \in 1 .. Height * Width : (Height * Width) * s + c = x
    <3>1. Width \in Nat
      BY Divided DEF ShapesOK
    <3> QED BY <2>1, <3>1, RowsCover
  <2>3. Block(1, 0, s) = [e \in 1 .. Height * Width |-> (Height * Width) * s + e]
    BY Blocks
  <2> QED BY <1>5, <2>2, <2>3
<1> QED BY <1>2, <1>3, <1>4, <1>5 DEF Exchange

-----------------------------------------------------------------------------
(***************************************************************************)
(* What the calls do to the data.  Filled says that a buffer for d's part  *)
(* of t in layout lay holds what the ranks of S have given for it.         *)
(***************************************************************************)
Filled(buffer, t, lay, axis, S, d, v) ==
  /\ buffer = [x \in 1 .. Size(lay) |-> buffer[x]]
  /\ \A s \in S : \A c \in DOMAIN Block(lay, axis, s) :
       LET x == Block(lay, axis, s)[c] IN buffer[x] = Stamp(t, Global(lay, d, x), v)

(* What s gives: the message it sends, or what it copies itself. *)
Gift(t, lay, axis, s, d, v) == Pick(Given(lay, axis, d), Part(t, axis, s, v))

LEMMA PartCells ==
  ASSUME NEW t, NEW lay, NEW r, NEW v
  PROVE  /\ DOMAIN Part(t, lay, r, v) = 1 .. Size(lay)
         /\ \A c \in 1 .. Size(lay) : Part(t, lay, r, v)[c] = Stamp(t, Global(lay, r, c), v)
BY DEF Part

LEMMA GiftCells ==
  ASSUME ShapesOK, NEW s \in Rank, NEW d \in Rank, NEW t, NEW v, NEW lay, NEW axis,
         <<lay, axis>> \in Exchange, NEW c \in DOMAIN Block(lay, axis, s)
  PROVE  /\ Block(lay, axis, s)[c] \in 1 .. Size(lay)
         /\ Gift(t, lay, axis, s, d, v)[c] = Stamp(t, Global(lay, d, Block(lay, axis, s)[c]), v)
<1>1. Agrees(lay, axis, s, d)
  BY Agreement
<1>2. /\ c \in DOMAIN Given(lay, axis, d) /\ Given(lay, axis, d)[c] \in 1 .. Size(axis)
      /\ Block(lay, axis, s)[c] \in 1 .. Size(lay)
      /\ Global(axis, s, Given(lay, axis, d)[c]) = Global(lay, d, Block(lay, axis, s)[c])
  BY <1>1 DEF Agrees
<1>3. Gift(t, lay, axis, s, d, v)[c] = Part(t, axis, s, v)[Given(lay, axis, d)[c]]
  BY <1>2 DEF Gift, Pick
<1> QED BY <1>2, <1>3, PartCells

(* A block that is put in its place fills it, and spoils no other. *)
LEMMA BlockFills ==
  ASSUME ShapesOK, NEW s \in Rank, NEW d \in Rank, NEW S \in SUBSET Rank,
         NEW t, NEW v, NEW lay, NEW axis, <<lay, axis>> \in Exchange,
         NEW buffer, Filled(buffer, t, lay, axis, S, d, v)
  PROVE  Filled(Put(Block(lay, axis, s), Gift(t, lay, axis, s, d, v), buffer),
                t, lay, axis, S \cup {s}, d, v)
<1> DEFINE cells == Block(lay, axis, s)
           gift == Gift(t, lay, axis, s, d, v)
           put == Put(cells, gift, buffer)
<1>1. DOMAIN buffer = 1 .. Size(lay)
  BY DEF Filled
<1>2. put = [x \in 1 .. Size(lay) |-> put[x]]
  BY <1>1 DEF Put
<1>3. ASSUME NEW x \in 1 .. Size(lay), \E c \in DOMAIN cells : cells[c] = x
      PROVE  put[x] = Stamp(t, Global(lay, d, x), v)
  <2>1. PICK e : e = CHOOSE c \in DOMAIN cells : cells[c] = x
    OBVIOUS
  <2>2. e \in DOMAIN cells /\ cells[e] = x
    BY <1>3, <2>1
  <2>3. put[x] = gift[e]
    BY <1>1, <1>3, <2>1 DEF Put
  <2>4. gift[e] = Stamp(t, Global(lay, d, cells[e]), v)
    BY <2>2, GiftCells
  <2> QED BY <2>2, <2>3, <2>4
<1>4. ASSUME NEW x \in 1 .. Size(lay), ~ \E c \in DOMAIN cells : cells[c] = x
      PROVE  put[x] = buffer[x]
  BY <1>1, <1>4 DEF Put
<1>5. ASSUME NEW q \in S \cup {s}, NEW c \in DOMAIN Block(lay, axis, q)
      PROVE  put[Block(lay, axis, q)[c]] = Stamp(t, Global(lay, d, Block(lay, axis, q)[c]), v)
  <2> DEFINE x == Block(lay, axis, q)[c]
  <2>1. q \in Rank
    OBVIOUS
  <2>2. x \in 1 .. Size(lay)
    BY <2>1, GiftCells
  <2>3. CASE \E e \in DOMAIN cells : cells[e] = x
    BY <1>3, <2>2, <2>3
  <2>4. CASE ~ \E e \in DOMAIN cells : cells[e] = x
    <3>1. q # s
      BY <2>4
    <3>2. buffer[x] = Stamp(t, Global(lay, d, x), v)
      BY <3>1 DEF Filled
    <3> QED BY <1>4, <2>2, <2>4, <3>2
  <2> QED BY <2>3, <2>4
<1> HIDE DEF put, cells, gift
<1>6. Filled(put, t, lay, axis, S \cup {s}, d, v)
  BY <1>2, <1>5 DEF Filled
<1> QED BY <1>6 DEF put, cells, gift

(* When all ranks have given, the part is whole. *)
LEMMA AllFilled ==
  ASSUME ShapesOK, NEW d \in Rank, NEW t, NEW v, NEW lay, NEW axis, <<lay, axis>> \in Exchange,
         NEW buffer, Filled(buffer, t, lay, axis, Rank, d, v)
  PROVE  buffer = Part(t, lay, d, v)
<1>1. ASSUME NEW x \in 1 .. Size(lay) PROVE buffer[x] = Stamp(t, Global(lay, d, x), v)
  BY Cover DEF Filled
<1>2. buffer = [x \in 1 .. Size(lay) |-> buffer[x]]
  BY DEF Filled
<1> QED BY <1>1, <1>2 DEF Part

-----------------------------------------------------------------------------
(***************************************************************************)
(* MPI_Send and MPI_Bcast of a Scatter (masterWorkerDispatcher): from the  *)
(* whole tensor, every rank is sent its part, whatever the axis.           *)
(***************************************************************************)
THEOREM ScatterDelivers ==
  ASSUME ShapesOK, NEW r \in Rank, NEW d \in Rank, OpAt(r).kind = "Scatter",
         OpAt(r).pre \in {-1, 0, 1}, NEW t, NEW v,
         Read(r, OpAt(r).ins[1]) = Part(t, Whole, 0, v)
  PROVE  Message(r, d).data = Part(t, OpAt(r).pre, d, v)
<1> DEFINE axis == OpAt(r).pre
           cells == Vector(<<Rows, Cols>>, axis, d)
           whole == Part(t, Whole, 0, v)
<1>1. CASE axis \in {0, 1}
  <2>1. cells = Block(Whole, axis, d) /\ <<Whole, axis>> \in Exchange /\ 0 \in Rank
    BY <1>1, Shapes DEF Block, Exchange, Rank, ShapesOK
  <2>2. Message(r, d).data = Pick(cells, whole)
    BY <1>1 DEF Message
  <2>3. Agrees(Whole, axis, d, 0)
    BY <2>1, Agreement
  <2>4. DOMAIN cells = 1 .. Size(axis)
    BY <2>1, <2>3 DEF Agrees, Given, All
  <2>5. ASSUME NEW c \in 1 .. Size(axis)
        PROVE  Pick(cells, whole)[c] = Stamp(t, Global(axis, d, c), v)
    <3>1. /\ cells[c] \in 1 .. Size(Whole)
          /\ Global(axis, d, c) = Global(Whole, 0, cells[c])
      BY <2>1, <2>3, <2>4 DEF Agrees, Given, All
    <3>2. Pick(cells, whole)[c] = whole[cells[c]]
      BY <2>4 DEF Pick
    <3> QED BY <3>1, <3>2, PartCells
  <2> QED BY <2>2, <2>4, <2>5 DEF Pick, Part
<1>2. CASE axis = -1
  <2>1. Message(r, d).data = whole
    BY <1>2 DEF Message
  <2>2. Size(-1) = Rows * Cols /\ Size(Whole) = Rows * Cols
    BY Shapes
  <2>3. ASSUME NEW c \in 1 .. Rows * Cols PROVE Global(-1, d, c) = Global(Whole, 0, c)
    BY GlobalWhole
  <2>4. Part(t, -1, d, v) = whole
    BY <2>2, <2>3 DEF Part
  <2> QED BY <1>2, <2>1, <2>4
<1> QED BY <1>1, <1>2

(***************************************************************************)
(* "tname = fname": where rank 0's part is no buffer of its own, it is the *)
(* beginning of the original.                                              *)
(***************************************************************************)
THEOREM SharedBeginning ==
  ASSUME ShapesOK, NEW b, plan.lay[b] \in {-1, 0}, b \in alias, NEW t, NEW v,
         mem[0][plan.of[b]] = Part(t, Whole, 0, v)
  PROVE  Read(0, b) = Part(t, plan.lay[b], 0, v)
<1> DEFINE lay == plan.lay[b]
           whole == Part(t, Whole, 0, v)
<1>1. Read(0, b) = [c \in 1 .. Size(lay) |-> whole[c]]
  BY DEF Read, Place, Pick, All
<1>2. ASSUME NEW c \in 1 .. Size(lay)
      PROVE  c \in 1 .. Size(Whole) /\ Global(lay, 0, c) = Global(Whole, 0, c)
  <2>1. CASE lay = -1
    BY <2>1, GlobalWhole, Shapes
  <2>2. CASE lay = 0
    <3>1. 0 \in Rank /\ c \in 1 .. Height * Cols
      BY <2>2, Shapes DEF Rank, ShapesOK
    <3>2. Agrees(Whole, 0, 0, 0)
      BY <3>1, GatherRows
    <3>3. Block(Whole, 0, 0) = [e \in 1 .. Height * Cols |-> (Height * Cols) * 0 + e]
      BY <3>1, Blocks
    <3>4. (Height * Cols) * 0 + c = c
      BY <3>1, Divided DEF ShapesOK
    <3>5. Block(Whole, 0, 0)[c] = c /\ c \in DOMAIN Block(Whole, 0, 0)
      BY <3>1, <3>3, <3>4
    <3>6. Given(Whole, 0, 0)[c] = c
      BY <2>2 DEF Given, All
    <3> QED BY <2>2, <3>2, <3>5, <3>6 DEF Agrees
  <2> QED BY <2>1, <2>2
<1>3. ASSUME NEW c \in 1 .. Size(lay) PROVE whole[c] = Stamp(t, Global(lay, 0, c), v)
  BY <1>2, PartCells
<1> QED BY <1>1, <1>3 DEF Part

(***************************************************************************)
(* A Gather, and a Transform between rows and columns: op makes a part in  *)
(* layout lay of parts in layout axis.                                     *)
(***************************************************************************)
Makes(op, lay, axis) ==
  /\ op.pre = axis /\ <<lay, axis>> \in Exchange
  /\ \/ op.kind = "Gather" /\ lay = Whole
     \/ op.kind = "Transform" /\ op.post = lay /\ lay >= 0

(***************************************************************************)
(* MPI_Send of a Gather and the sending half of a Transform                *)
(* (masterWorkerDispatcher, transformOpDispatcher): s sends d that part of *)
(* its own part which is d's.                                              *)
(***************************************************************************)
THEOREM ExchangeSends ==
  ASSUME ShapesOK, NEW s \in Rank, NEW d \in Rank, NEW lay, NEW axis, Makes(OpAt(s), lay, axis),
         NEW t, NEW v, Read(s, OpAt(s).ins[1]) = Part(t, axis, s, v)
  PROVE  Message(s, d).data = Gift(t, lay, axis, s, d, v)
<1>1. CASE OpAt(s).kind = "Gather" /\ lay = Whole
  <2>1. Message(s, d).data = Part(t, axis, s, v)
    BY <1>1 DEF Message
  <2>2. Given(lay, axis, d) = [c \in 1 .. Size(axis) |-> c]
    BY <1>1 DEF Given, All
  <2>3. Gift(t, lay, axis, s, d, v) = Part(t, axis, s, v)
    BY <2>2 DEF Gift, Pick, Part
  <2> QED BY <2>1, <2>3
<1>2. CASE OpAt(s).kind = "Transform" /\ OpAt(s).post = lay /\ lay >= 0
  <2>1. lay # Whole
    BY <1>2 DEF Whole
  <2> QED BY <1>2, <2>1 DEF Makes, Message, Gift, Given
<1> QED BY <1>1, <1>2 DEF Makes

(***************************************************************************)
(* MPI_Recv of a Gather and the receiving half of a Transform: the block   *)
(* that arrives from s fills its place in the receiver's buffer, beside    *)
(* the blocks that are there already.                                      *)
(***************************************************************************)
THEOREM ExchangeFills ==
  ASSUME ShapesOK, NEW s \in Rank, NEW r \in Rank, NEW lay, NEW axis, NEW t, NEW v,
         Makes(OpAt(r), lay, axis), Taken(r, s).data = Gift(t, lay, axis, s, r, v),
         NEW to, to = Place(r, OpAt(r).outs[1]), r \in DOMAIN mem, to \in DOMAIN mem[r],
         NEW S \in SUBSET Rank, Filled(mem[r][to], t, lay, axis, S, r, v),
         Received(r, s)
  PROVE  Filled(mem'[r][to], t, lay, axis, S \cup {s}, r, v)
<1> DEFINE op == OpAt(r)
           gift == Gift(t, lay, axis, s, r, v)
<1>1. Received(r, s) => Write(r, op.outs[1], Block(lay, axis, s), gift)
  <2>1. CASE op.kind = "Gather" /\ lay = Whole
    BY <2>1, Shapes DEF Received, Block, Makes
  <2>2. CASE op.kind = "Transform" /\ op.post = lay /\ lay >= 0
    BY <2>2 DEF Received, Block, Makes
  <2> QED BY <2>1, <2>2 DEF Makes
<1>2. mem'[r][to] = Put(Block(lay, axis, s), gift, mem[r][to])
  BY <1>1 DEF Write
<1>3. <<lay, axis>> \in Exchange
  BY DEF Makes
<1> QED BY <1>2, <1>3, BlockFills

(***************************************************************************)
(* Rank 0's own turn of a Gather (masterWorkerDispatcher: a copy after the *)
(* loop over the others): it fills its place as a message from it would.   *)
(***************************************************************************)
THEOREM OwnTurnFills ==
  ASSUME ShapesOK, NEW axis, NEW t, NEW v,
         OpAt(0).kind = "Gather", OpAt(0).pre = axis, axis \in {0, 1}, ~plan.benchmark,
         Read(0, OpAt(0).ins[1]) = Part(t, axis, 0, v),
         NEW to, to = Place(0, OpAt(0).outs[1]), 0 \in DOMAIN mem, to \in DOMAIN mem[0],
         NEW S \in SUBSET Rank, Filled(mem[0][to], t, Whole, axis, S, 0, v),
         OwnPart(0)
  PROVE  Filled(mem'[0][to], t, Whole, axis, S \cup {0}, 0, v)
<1>1. 0 \in Rank /\ <<Whole, axis>> \in Exchange
  BY DEF Rank, ShapesOK, Exchange
<1>2. Gift(t, Whole, axis, 0, 0, v) = Part(t, axis, 0, v)
  <2>1. Given(Whole, axis, 0) = [c \in 1 .. Size(axis) |-> c]
    BY DEF Given, All
  <2> QED BY <2>1 DEF Gift, Pick, Part
<1>3. Write(0, OpAt(0).outs[1], Block(Whole, axis, 0), Gift(t, Whole, axis, 0, 0, v))
  BY <1>2, Shapes DEF OwnPart, Block
<1>4. mem'[0][to] = Put(Block(Whole, axis, 0), Gift(t, Whole, axis, 0, 0, v), mem[0][to])
  BY <1>3 DEF Write
<1> QED BY <1>1, <1>4, BlockFills

(***************************************************************************)
(* What the ranks have filled together is what a reader of the result is   *)
(* to find: the whole tensor, or the rank's part in the new layout.        *)
(***************************************************************************)
THEOREM ExchangeCompletes ==
  ASSUME ShapesOK, NEW r \in Rank, NEW b, NEW axis, NEW t, NEW v,
         <<plan.lay[b], axis>> \in Exchange,
         Filled(mem[r][Place(r, b)], t, plan.lay[b], axis, Rank, r, v)
  PROVE  Read(r, b) = Part(t, plan.lay[b], r, v)
<1>1. mem[r][Place(r, b)] = Part(t, plan.lay[b], r, v)
  BY AllFilled
<1> QED BY <1>1 DEF Read, Pick, All, Part

(***************************************************************************)
(* MPI_Reduce (reduceOpDispatcher) makes the tensor of the summands.       *)
(***************************************************************************)
THEOREM SumsMake ==
  ASSUME ShapesOK, NEW r \in Rank, NEW t \in Nat \ {0}, NEW v,
         Read(r, OpAt(r).ins[1]) = Summand(t, 0, v),
         \A s \in Others : Taken(r, s).data = Summand(t, s, v)
  PROVE  Sum(r, t) = Part(t, Whole, 0, v)
<1> DEFINE own == Read(r, OpAt(r).ins[1])
<1>1. Size(-2) = Rows * Cols /\ Size(Whole) = Rows * Cols
  BY Shapes
<1>2. ASSUME NEW c \in 1 .. Rows * Cols
      PROVE  /\ own[c] # Unset /\ own[c].version = v
             /\ \A s \in Others : Taken(r, s).data[c] = [own[c] EXCEPT !.rank = s]
  <2>1. own[c] = [t |-> t, cell |-> c, version |-> v, rank |-> 0]
    BY <1>1 DEF Summand
  <2>2. own[c].t # Unset.t
    BY <2>1 DEF Unset
  <2>3. ASSUME NEW s \in Others PROVE Taken(r, s).data[c] = [own[c] EXCEPT !.rank = s]
    <3>1. Taken(r, s).data[c] = [t |-> t, cell |-> c, version |-> v, rank |-> s]
      BY <1>1 DEF Summand
    <3>2. [[t |-> t, cell |-> c, version |-> v, rank |-> 0] EXCEPT !.rank = s]
            = [t |-> t, cell |-> c, version |-> v, rank |-> s]
      OBVIOUS
    <3> QED BY <2>1, <3>1, <3>2
  <2>4. own[c].version = v
    BY <2>1
  <2> QED BY <2>2, <2>3, <2>4
<1>3. ASSUME NEW c \in 1 .. Rows * Cols PROVE Global(Whole, 0, c) = c
  BY GlobalWhole
<1>4. ASSUME NEW c \in 1 .. Rows * Cols PROVE Sum(r, t)[c] = Stamp(t, c, v)
  <2>1. Sum(r, t)[c] =
          IF own[c] = Unset THEN Unset
          ELSE IF \A s \in Others : Taken(r, s).data[c] = [own[c] EXCEPT !.rank = s]
          THEN Stamp(t, c, own[c].version) ELSE Unset
    BY <1>1 DEF Sum
  <2>2. Sum(r, t)[c] = Stamp(t, c, own[c].version)
    BY <1>2, <2>1
  <2>3. own[c].version = v
    BY <1>2
  <2> QED BY <2>2, <2>3
<1>5. Sum(r, t) = [c \in 1 .. Rows * Cols |-> Sum(r, t)[c]]
  BY <1>1 DEF Sum
<1> QED BY <1>1, <1>3, <1>4, <1>5 DEF Part

-----------------------------------------------------------------------------
(***************************************************************************)
(* What a plan is to be for its data to flow.  An op reads and writes      *)
(* buffers of the layouts its kind converts; the kernels on all processes  *)
(* work on parts, the others on originals.                                 *)
(***************************************************************************)
Reads(j) == {plan.ops[j].ins[x] : x \in DOMAIN plan.ops[j].ins}

Writes(j) == Results(plan.ops[j])

Tensors(b) ==
  /\ plan.of[b] \in Buffers /\ plan.lay[b] \in {Whole, -2, -1, 0, 1}
  /\ plan.of[plan.of[b]] = plan.of[b] /\ plan.lay[plan.of[b]] = Whole
  /\ plan.lay[b] = Whole => plan.of[b] = b /\ b \notin plan.hollow

KernelFlow(j) ==
  LET op == plan.ops[j]
  IN  /\ \A b \in Reads(j) : plan.lay[b] # -2
      /\ \A b \in Reads(j) \cup Writes(j) : plan.lay[b] = Whole <=> ~op.par
      /\ \A b \in Writes(j) : b \notin plan.hollow
      /\ ~op.sgd => \A b \in Writes(j) : plan.of[b] \notin plan.states

ScatterFlow(op) ==
  /\ op.pre \in {-1, 0, 1}
  /\ \E b \in Buffers \ plan.hollow :
       /\ op.outs = <<b>> /\ op.ins = <<plan.of[b]>>
       /\ plan.lay[b] = op.pre

JoinFlow(op) ==
  /\ op.kind = "Gather" => op.pre \in {0, 1}
  /\ \E b \in Buffers \ plan.hollow :
       /\ op.ins = <<b>> /\ op.outs = <<plan.of[b]>>
       /\ plan.lay[b] = IF op.kind = "Gather" THEN op.pre ELSE -2

TransformFlow(op) ==
  \E a, b \in Buffers :
    /\ op.ins = <<a>> /\ op.outs = <<b>> /\ plan.lay[b] # Whole
    /\ b \notin plan.hollow =>
         /\ a \notin plan.hollow /\ plan.of[a] = plan.of[b]
         /\ plan.lay[a] = op.pre /\ plan.lay[b] = op.post
         /\ <<op.post, op.pre>> \in Exchange /\ op.post # Whole

OpFlow(j) ==
  LET op == plan.ops[j]
  IN  /\ Reads(j) \cup Writes(j) \subseteq Buffers
      /\ op.kind = "Compute" => KernelFlow(j)
      /\ op.kind = "Scatter" => ScatterFlow(op)
      /\ op.kind \in {"Gather", "Reduce"} => JoinFlow(op)
      /\ op.kind = "Transform" => TransformFlow(op)
      /\ op.sgd \in BOOLEAN
      /\ op.sgd => op.kind = "Compute" /\ Writes(j) \subseteq Reads(j) \cap plan.states
      /\ ~op.sgd => Writes(j) \cap (plan.states \cup plan.data) = {}

OneWriter == \A j, k \in OpsOf : Writes(j) \cap Writes(k) # {} => j = k

(***************************************************************************)
(* What is read was there from the beginning, or an earlier op has made    *)
(* it.  (Not in benchmark mode, in which the Scatter of an input is cut    *)
(* off and its readers find whatever is there.)                            *)
(***************************************************************************)
MadeBefore(j, b) ==
  b \in plan.states \cup plan.data \/ \E i \in OpsOf : i < j /\ ~plan.ops[i].sgd /\ b \in Writes(i)

(* No op reads a weight or momentum, or a part of it, behind its SGD op. *)
Updates(k, t) == k \in OpsOf /\ plan.ops[k].sgd /\ t \in Writes(k)

UpdatedLast(t) ==
  \E k \in OpsOf :
    /\ Updates(k, t)
    /\ \A j \in OpsOf \ {k} : \A b \in Reads(j) : plan.of[b] = t => j < k

DataPlan ==
  /\ Len(plan.lay) \in Nat /\ \A b \in Buffers : Tensors(b)
  /\ plan.states \subseteq Buffers /\ plan.data \subseteq Buffers
  /\ \A t \in plan.states \cup plan.data : plan.lay[t] = Whole
  /\ plan.states \cap plan.data = {}
  /\ \A j \in OpsOf : OpFlow(j)
  /\ OneWriter
  /\ ~plan.benchmark => \A j \in OpsOf : \A b \in Reads(j) : MadeBefore(j, b)
  /\ \A t \in plan.states : UpdatedLast(t)

-----------------------------------------------------------------------------
(***************************************************************************)
(* What the memories hold.  Finished: rank r is past op j in its           *)
(* iteration.  At: the version a reader finds, that of the last iteration  *)
(* of a weight or momentum.                                                *)
(***************************************************************************)
Finished(r, j) == ip[r] = 0 \/ writer[ip[r]].op > j

Updated(t) == \A k \in OpsOf : Updates(k, t) => Finished(0, k)

At(b, n) == IF plan.of[b] \in plan.states THEN n - 1 ELSE n

Held(r, b, n) ==
  IF plan.lay[b] = -2 THEN Summand(plan.of[b], r, n) ELSE Part(plan.of[b], plan.lay[b], r, n)

Right(r, b) == mem[r][b] = Held(r, b, At(b, iter[r]))

(* Every buffer has its size. *)
Memory ==
  /\ mem = [r \in Rank |-> [b \in Buffers |-> mem[r][b]]]
  /\ \A r \in Rank : \A b \in Buffers :
       mem[r][b] = [c \in 1 .. Size(plan.lay[b]) |-> mem[r][b][c]]

(* The parts rank 0 has no buffer for are those of Scatters that share. *)
Shares(j) == plan.ops[j].kind = "Scatter" /\ plan.ops[j].pre \in {-1, 0}

Shared == \A b \in alias : \E j \in OpsOf : Shares(j) /\ plan.ops[j].outs = <<b>>

(* The weights and momenta on rank 0 are of the last iteration until updated. *)
Weights ==
  \A t \in plan.states :
    mem[0][t] = Part(t, Whole, 0, IF Updated(t) THEN iter[0] ELSE iter[0] - 1)

(* The batch is this iteration's. *)
Loaded ==
  \A t \in plan.data : iter[0] > 0 => mem[0][t] = Part(t, Whole, 0, iter[0])

(* Rank 0 shares what it has scattered so. *)
Sharing ==
  \A j \in OpsOf :
    /\ InText(j) /\ Shares(j) /\ iter[0] > 0
    /\ \/ Finished(0, j)
       \/ ip[0] # 0 /\ writer[ip[0]].op = j /\ plan.ops[j].pre = -1 /\ posted[0]
    => plan.ops[j].outs[1] \in alias

(* What a rank is past making, it has, unless it shares it. *)
MadeBy(r, j) ==
  \A b \in Writes(j) \ plan.hollow :
    (plan.lay[b] = Whole => r = 0) /\ ~(r = 0 /\ b \in alias) => Right(r, b)

Made ==
  \A r \in Rank : \A j \in OpsOf :
    InText(j) /\ ~plan.ops[j].sgd /\ iter[r] > 0 /\ Finished(r, j) => MadeBy(r, j)

(* What a rank is receiving, it has so far. *)
Arrived(r) ==
  LET j == writer[ip[r]].op
  IN  {s \in Rank : Transfer(s, r, j) /\ HasReceived(s, r, iter[r], j)}

Joins(r) == OpAt(r).kind = "Gather" /\ r = 0

Exchanges(r) == Moves(r) /\ OpAt(r).outs[1] \notin plan.hollow

Accepts(r) ==
  IF r = 0 THEN OpAt(r).kind = "Reduce" ELSE OpAt(r).kind = "Scatter"

Receives(r) ==
  LET b == OpAt(r).outs[1]
  IN  /\ Joins(r) \/ Exchanges(r) =>
           Filled(mem[r][b], plan.of[b], plan.lay[b], OpAt(r).pre, Arrived(r), r, At(b, iter[r]))
      /\ Accepts(r) /\ got[r] => Right(r, b)

Receiving == \A r \in Rank : Running(r) => Receives(r)

(* What a message of moment m from s to d is to carry. *)
Carries(s, d, m, data) ==
  LET op == plan.ops[m[2]]
      a == op.ins[1]
      b == op.outs[1]
  IN  /\ op.kind = "Scatter" => data = Part(plan.of[b], op.pre, d, At(b, m[1]))
      /\ op.kind = "Gather" => data = Gift(plan.of[a], Whole, op.pre, s, d, At(a, m[1]))
      /\ op.kind = "Reduce" => data = Summand(plan.of[a], s, At(a, m[1]))
      /\ op.kind = "Transform" /\ b \notin plan.hollow =>
           data = Gift(plan.of[b], op.post, op.pre, s, d, At(b, m[1]))

Carrying ==
  \A s, d \in Rank : \E e : Queue(s, d, e) /\
    \A x \in 1 .. Len(chan[s][d]) : \E m : m = chan[s][d][x] /\ Carries(s, d, e[x], m.data)

-----------------------------------------------------------------------------
(***************************************************************************)
(* The text leaves out no op before one that it has, and each role that an *)
(* op concerns has its line.                                               *)
(***************************************************************************)
Covered ==
  /\ \A j \in 1 .. at - 1 : InText(j) \/ \E x \in 1 .. Len(master) : master[x].op = j
  /\ \A j \in 1 .. at - 1 : ~TwoSided(j) => InText(j)
  /\ phase \in {"emitted", "running"} => at = Len(plan.ops) + 1

LEMMA CoveredBegins == ASSUME RunInit PROVE Covered
  BY DEF RunInit, Covered

LEMMA OtherCovers == ASSUME Emission, Covered, EmitOther PROVE Covered'
<1> PICK j \in OpsOf : j = at
  BY DEF Emission, EmitOther, OpsOf
<1> PICK line : line = Line(j, "all", IF ForAll(j) THEN "all" ELSE "master")
  OBVIOUS
<1>1. /\ at' = at + 1 /\ plan' = plan /\ phase = "calls" /\ phase' = phase
      /\ writer' = Append(Flushed, line) /\ line.op = j
  <2>1. ~plan.ops[j].once
    BY PlanFacts DEF Emission
  <2> QED BY <2>1 DEF Emission, EmitOther, Runable, Line
<1>2. /\ IsSeq(Flushed) /\ Len(Flushed) = Len(writer) + Len(master) + Len(master)
      /\ \A x \in 1 .. Len(writer) : Flushed[x] = writer[x]
      /\ \A x \in 1 .. Len(master) : Flushed[Len(writer) + x] = master[x]
  BY Flushing
<1>3. /\ Len(writer') = Len(Flushed) + 1 /\ writer'[Len(Flushed) + 1] = line
      /\ \A x \in 1 .. Len(Flushed) : writer'[x] = Flushed[x]
  <2> PICK f : f = Flushed
    OBVIOUS
  <2> QED BY <1>1, <1>2, AppendAny
<1>4. Len(writer) \in Nat /\ Len(master) \in Nat /\ at \in Nat
  BY DEF Emission, Buffered, TextOK, IsSeq
<1> PICK n, m : n = Len(writer) /\ m = Len(master)
  OBVIOUS
<1>5. ASSUME NEW i, InText(i) PROVE InText(i)'
  <2>1. PICK x \in 1 .. n : writer[x].op = i
    BY <1>5 DEF InText
  <2>2. x \in 1 .. Len(writer') /\ writer'[x] = writer[x]
    BY <1>2, <1>3, <1>4
  <2> QED BY <2>1, <2>2 DEF InText
<1>6. ASSUME NEW x \in 1 .. m PROVE \E i : i = master[x].op /\ InText(i)'
  <2>1. n + x \in 1 .. Len(writer') /\ writer'[n + x] = master[x]
    BY <1>2, <1>3, <1>4
  <2>2. PICK i : i = master[x].op
    OBVIOUS
  <2>3. writer'[n + x].op = i
    BY <2>1, <2>2
  <2>4. InText(i)'
    BY <2>1, <2>3 DEF InText
  <2> QED BY <2>2, <2>4
<1>7. InText(j)'
  <2>1. Len(Flushed) + 1 \in 1 .. Len(writer')
    BY <1>2, <1>3, <1>4
  <2> QED BY <1>1, <1>3, <2>1 DEF InText
<1>8. ASSUME NEW i \in 1 .. at' - 1 PROVE InText(i)'
  <2>1. CASE i = j
    BY <1>7, <2>1
  <2>2. CASE i # j
    <3>1. i \in Int /\ 1 <= i /\ i <= at + 1 - 1
      BY <1>1, <1>4
    <3>2. i \in 1 .. at - 1
      BY <1>4, <2>2, <3>1
    <3>3. CASE InText(i)
      BY <1>5, <3>3
    <3>4. CASE \E x \in 1 .. m : master[x].op = i
      BY <1>6, <3>4
    <3> QED BY <3>2, <3>3, <3>4 DEF Covered
  <2> QED BY <2>1, <2>2
<1> QED BY <1>1, <1>8 DEF Covered

LEMMA TwoSidedCovers == ASSUME Emission, Covered, EmitTwoSided PROVE Covered'
<1> PICK j \in OpsOf : j = at
  BY DEF Emission, EmitTwoSided, OpsOf
<1> PICK line : line = Line(j, "master", "master")
  OBVIOUS
<1>1. /\ at' = at + 1 /\ UNCHANGED <<plan, writer>> /\ phase = "calls" /\ phase' = phase
      /\ master' = Append(master, line) /\ line.op = j /\ TwoSided(j)
  <2>1. ~plan.ops[j].once
    BY PlanFacts DEF Emission
  <2> QED BY <2>1 DEF Emission, EmitTwoSided, Runable, Line
<1>2. IsSeq(master) /\ Len(master) \in Nat /\ at \in Nat
  BY DEF Emission, Buffered, IsSeq
<1>3. /\ Len(master') = Len(master) + 1 /\ master'[Len(master) + 1] = line
      /\ \A x \in 1 .. Len(master) : master'[x] = master[x]
  BY <1>1, <1>2, AppendAny
<1>4. ASSUME NEW i PROVE InText(i) <=> InText(i)'
  BY <1>1 DEF InText
<1>5. ASSUME NEW i \in 1 .. at' - 1, i # j PROVE i \in 1 .. at - 1
  <2>1. i \in Int /\ 1 <= i /\ i <= at + 1 - 1
    BY <1>1, <1>2, <1>5
  <2> QED BY <1>2, <1>5, <2>1
<1>6. ASSUME NEW i \in 1 .. at' - 1
      PROVE  InText(i)' \/ \E x \in 1 .. Len(master') : master'[x].op = i
  <2>1. CASE i = j
    <3>1. Len(master) + 1 \in 1 .. Len(master')
      BY <1>2, <1>3
    <3> QED BY <1>1, <1>3, <2>1, <3>1
  <2>2. CASE i # j
    <3>1. CASE InText(i)
      BY <1>4, <3>1
    <3>2. CASE \E x \in 1 .. Len(master) : master[x].op = i
      <4>1. PICK x \in 1 .. Len(master) : master[x].op = i
        BY <3>2
      <4>2. x \in 1 .. Len(master')
        BY <1>2, <1>3
      <4> QED BY <1>3, <4>1, <4>2
    <3> QED BY <1>5, <2>2, <3>1, <3>2 DEF Covered
  <2> QED BY <2>1, <2>2
<1>7. ASSUME NEW i \in 1 .. at' - 1, ~TwoSided(i)' PROVE InText(i)'
  <2>1. ~TwoSided(i) /\ i # j
    BY <1>1, <1>7 DEF TwoSided
  <2> QED BY <1>4, <1>5, <2>1 DEF Covered
<1> QED BY <1>1, <1>6, <1>7 DEF Covered

LEMMA StillCovered ==
  ASSUME Covered, UNCHANGED <<plan, at, writer, master>>,
         phase' \in {"emitted", "running"} => at = Len(plan.ops) + 1
  PROVE  Covered'
  BY DEF Covered, InText, TwoSided

LEMMA EmissionCovers == ASSUME Emission, Covered, EmitNext PROVE Covered'
<1>1. CASE EmitTensorInitializations
  <2>1. at' = 1 /\ at' - 1 = 0
    BY <1>1 DEF EmitTensorInitializations, Emission
  <2>2. phase' = "calls"
    BY <1>1 DEF EmitTensorInitializations
  <2> QED BY <2>1, <2>2 DEF Covered
<1>2. CASE EndFuncCalls
  <2>1. at = Len(plan.ops) + 1
    BY <1>2 DEF EndFuncCalls, Emission, Runnable
  <2> QED BY <1>2, <2>1, StillCovered DEF EndFuncCalls
<1> QED BY <1>1, <1>2, TwoSidedCovers, OtherCovers, SumStep DEF EmitNext

(* An op that comes before one of the text is in the text. *)
LEMMA EarlierInText ==
  ASSUME Emission, Covered, NEW j \in OpsOf, InText(j), NEW i \in OpsOf, i < j
  PROVE  InText(i)
<1>1. PICK y \in 1 .. Len(writer) : writer[y].op = j
  BY DEF InText
<1>2. j < at
  BY <1>1 DEF Emission, TextOK
<1>3. i \in 1 .. at - 1
  BY <1>2 DEF Emission, OpsOf, Runnable
<1>4. ASSUME NEW x \in 1 .. Len(master), master[x].op = i PROVE FALSE
  <2>1. j < i
    BY <1>1, <1>4 DEF Emission, Buffered
  <2> QED BY <2>1 DEF OpsOf, Emission, Runnable
<1> QED BY <1>3, <1>4 DEF Covered

(* The ranks an op of the text concerns have a line of it. *)
LEMMA LineFor ==
  ASSUME Emission, NEW j \in OpsOf, InText(j),
         NEW r \in Rank, r = 0 \/ TwoSided(j) \/ ForAll(j)
  PROVE  \E x \in 1 .. Len(writer) : writer[x].op = j /\ Runs(RankRole(r), writer[x])
<1>1. PICK y \in 1 .. Len(writer) : writer[y].op = j
  BY DEF InText
<1>2. RankRole(r) \in Role
  BY DEF RankRole, Role
<1>3. CASE TwoSided(j)
  BY <1>1, <1>2, <1>3 DEF Emission, TextOK, Paired
<1>4. CASE ~TwoSided(j)
  BY <1>1, <1>4 DEF Emission, TextOK, LineOf, Runs, RankRole
<1> QED BY <1>3, <1>4

-----------------------------------------------------------------------------
(* Whole buffers. *)
Sized(buffer, lay) == buffer = [x \in 1 .. Size(lay) |-> buffer[x]]

LEMMA PutAll ==
  ASSUME NEW lay, NEW buffer, Sized(buffer, lay), NEW data, Sized(data, lay)
  PROVE  Put(All(lay), data, buffer) = data
<1>1. DOMAIN buffer = 1 .. Size(lay) /\ DOMAIN All(lay) = 1 .. Size(lay)
  BY DEF Sized, All
<1>2. ASSUME NEW x \in 1 .. Size(lay)
      PROVE  /\ \E c \in DOMAIN All(lay) : All(lay)[c] = x
             /\ (CHOOSE c \in DOMAIN All(lay) : All(lay)[c] = x) = x
  <2>1. x \in DOMAIN All(lay) /\ \A c \in DOMAIN All(lay) : All(lay)[c] = c
    BY <1>1 DEF All
  <2> QED BY <2>1
<1>3. Put(All(lay), data, buffer) = [x \in 1 .. Size(lay) |-> data[x]]
  BY <1>1, <1>2 DEF Put
<1> QED BY <1>3 DEF Sized

LEMMA PickAll ==
  ASSUME NEW lay, NEW buffer, Sized(buffer, lay)
  PROVE  Pick(All(lay), buffer) = buffer
  BY DEF Sized, All, Pick

LEMMA PutSized ==
  ASSUME NEW lay, NEW buffer, Sized(buffer, lay), NEW cells, NEW data
  PROVE  Sized(Put(cells, data, buffer), lay)
<1>1. DOMAIN buffer = 1 .. Size(lay)
  BY DEF Sized
<1> QED BY <1>1 DEF Put, Sized

LEMMA HeldSized ==
  ASSUME NEW r, NEW b, NEW n PROVE Sized(Held(r, b, n), plan.lay[b])
  BY DEF Held, Sized, Part, Summand

LEMMA MemorySized ==
  ASSUME Memory, NEW r \in Rank, NEW b \in Buffers
  PROVE  Sized(mem[r][b], plan.lay[b])
  BY DEF Memory, Sized

(* A step that writes none but these buffers of that rank. *)
Touches(r, W) ==
  /\ Memory' /\ UNCHANGED plan
  /\ \A q \in Rank : \A b \in Buffers : (q = r /\ b \in W) \/ mem'[q][b] = mem[q][b]

LEMMA WriteTouches ==
  ASSUME Memory, UNCHANGED plan, NEW r \in Rank, NEW b \in Buffers, Place(r, b) = b,
         NEW cells, NEW data, Write(r, b, cells, data)
  PROVE  Touches(r, {b}) /\ mem'[r][b] = Put(cells, data, mem[r][b])
<1> PICK new : new = Put(cells, data, mem[r][b])
  OBVIOUS
<1>1. mem' = [mem EXCEPT ![r][b] = new]
  BY DEF Write
<1>2. /\ DOMAIN mem = Rank /\ \A q \in Rank : DOMAIN mem[q] = Buffers
  BY DEF Memory
<1>3. mem' = [q \in Rank |-> [x \in Buffers |-> IF q = r /\ x = b THEN new ELSE mem[q][x]]]
  <2>1. mem' = [mem EXCEPT ![r] = [mem[r] EXCEPT ![b] = new]]
    BY <1>1, <1>2
  <2>2. [mem[r] EXCEPT ![b] = new] = [x \in Buffers |-> IF x = b THEN new ELSE mem[r][x]]
    BY <1>2
  <2>3. ASSUME NEW q \in Rank
        PROVE  mem'[q] = [x \in Buffers |-> IF q = r /\ x = b THEN new ELSE mem[q][x]]
    <3>1. CASE q = r
      BY <1>2, <2>1, <2>2, <3>1
    <3>2. CASE q # r
      <4>1. mem'[q] = mem[q] /\ mem[q] = [x \in Buffers |-> mem[q][x]]
        BY <1>2, <2>1, <3>2 DEF Memory
      <4> QED BY <4>1, <3>2
    <3> QED BY <3>1, <3>2
  <2>4. mem' = [q \in Rank |-> mem'[q]]
    BY <1>2, <2>1
  <2> QED BY <2>3, <2>4
<1>4. ASSUME NEW q \in Rank, NEW x \in Buffers
      PROVE  /\ mem'[q][x] = IF q = r /\ x = b THEN new ELSE mem[q][x]
             /\ Sized(mem'[q][x], plan.lay[x])
  <2>1. Sized(new, plan.lay[b]) /\ Sized(mem[q][x], plan.lay[x])
    BY MemorySized, PutSized
  <2> QED BY <1>3, <2>1
<1>5. Buffers' = Buffers /\ \A lay : Size(lay)' = Size(lay)
  BY DEF Buffers, Size, Shape
<1>6. Memory'
  <2>1. mem' = [q \in Rank |-> [x \in Buffers |-> mem'[q][x]]]
    BY <1>3
  <2>2. ASSUME NEW q \in Rank, NEW x \in Buffers
        PROVE  mem'[q][x] = [c \in 1 .. Size(plan.lay[x]) |-> mem'[q][x][c]]
    BY <1>4 DEF Sized
  <2> QED BY <1>5, <2>1, <2>2 DEF Memory
<1> QED BY <1>4, <1>6 DEF Touches

-----------------------------------------------------------------------------
(* What a plan says of its ops. *)
LEMMA Converts ==
  ASSUME Runnable(plan), DataPlan, NEW j \in OpsOf, plan.ops[j].kind # "Compute"
  PROVE  /\ ~plan.ops[j].sgd
         /\ plan.ops[j].ins[1] \in Buffers /\ plan.ops[j].outs[1] \in Buffers
         /\ Reads(j) = {plan.ops[j].ins[1]} /\ Writes(j) = {plan.ops[j].outs[1]}
         /\ plan.ops[j].outs = <<plan.ops[j].outs[1]>>
<1>1. OpFlow(j) /\ plan.ops[j].kind \in {"Scatter", "Gather", "Reduce", "Transform"}
  BY PlanFacts DEF DataPlan, RunnableOp, Kind
<1>2. ~plan.ops[j].sgd
  BY <1>1 DEF OpFlow
<1>3. \E a, b : plan.ops[j].ins = <<a>> /\ plan.ops[j].outs = <<b>>
  BY <1>1 DEF OpFlow, ScatterFlow, JoinFlow, TransformFlow
<1>4. PICK a, b : plan.ops[j].ins = <<a>> /\ plan.ops[j].outs = <<b>>
  BY <1>3
<1>5. /\ DOMAIN plan.ops[j].ins = {1} /\ DOMAIN plan.ops[j].outs = {1}
      /\ plan.ops[j].ins[1] = a /\ plan.ops[j].outs[1] = b
  BY <1>4
<1>6. Reads(j) = {a} /\ Writes(j) = {b}
  BY <1>2, <1>5 DEF Reads, Writes, Results
<1> QED BY <1>1, <1>2, <1>4, <1>5, <1>6 DEF OpFlow

LEMMA Scattering ==
  ASSUME Runnable(plan), DataPlan, NEW j \in OpsOf, plan.ops[j].kind = "Scatter"
  PROVE  LET a == plan.ops[j].ins[1]
             b == plan.ops[j].outs[1]
         IN  /\ plan.ops[j].pre \in {-1, 0, 1} /\ plan.lay[b] = plan.ops[j].pre
             /\ a = plan.of[b] /\ plan.of[a] = a /\ plan.lay[a] = Whole
             /\ a \notin plan.hollow /\ b \notin plan.hollow
<1>1. ScatterFlow(plan.ops[j])
  BY DEF DataPlan, OpFlow
<1>2. PICK b \in Buffers \ plan.hollow :
        /\ plan.ops[j].outs = <<b>> /\ plan.ops[j].ins = <<plan.of[b]>>
        /\ plan.lay[b] = plan.ops[j].pre
  BY <1>1 DEF ScatterFlow
<1>3. Tensors(b) /\ Tensors(plan.of[b])
  BY DEF DataPlan, Tensors
<1> QED BY <1>1, <1>2, <1>3 DEF ScatterFlow, Tensors

LEMMA Joining ==
  ASSUME Runnable(plan), DataPlan, NEW j \in OpsOf, plan.ops[j].kind \in {"Gather", "Reduce"}
  PROVE  LET a == plan.ops[j].ins[1]
             b == plan.ops[j].outs[1]
         IN  /\ plan.ops[j].kind = "Gather" => plan.ops[j].pre \in {0, 1}
             /\ plan.lay[a] = IF plan.ops[j].kind = "Gather" THEN plan.ops[j].pre ELSE -2
             /\ b = plan.of[a] /\ plan.of[b] = b /\ plan.lay[b] = Whole
             /\ a \notin plan.hollow /\ b \notin plan.hollow
<1>1. JoinFlow(plan.ops[j])
  BY DEF DataPlan, OpFlow
<1>2. PICK a \in Buffers \ plan.hollow :
        /\ plan.ops[j].ins = <<a>> /\ plan.ops[j].outs = <<plan.of[a]>>
        /\ plan.lay[a] = IF plan.ops[j].kind = "Gather" THEN plan.ops[j].pre ELSE -2
  BY <1>1 DEF JoinFlow
<1>3. Tensors(a) /\ Tensors(plan.of[a])
  BY DEF DataPlan, Tensors
<1> QED BY <1>1, <1>2, <1>3 DEF JoinFlow, Tensors

LEMMA Transforming ==
  ASSUME Runnable(plan), DataPlan, NEW j \in OpsOf, plan.ops[j].kind = "Transform",
         plan.ops[j].outs[1] \notin plan.hollow
  PROVE  LET a == plan.ops[j].ins[1]
             b == plan.ops[j].outs[1]
         IN  /\ plan.lay[a] = plan.ops[j].pre /\ plan.lay[b] = plan.ops[j].post
             /\ plan.ops[j].pre \in {0, 1} /\ plan.ops[j].post \in {0, 1}
             /\ <<plan.ops[j].post, plan.ops[j].pre>> \in Exchange
             /\ plan.of[a] = plan.of[b] /\ a \notin plan.hollow
<1>1. TransformFlow(plan.ops[j])
  BY DEF DataPlan, OpFlow
<1>2. PICK a, b \in Buffers :
        /\ plan.ops[j].ins = <<a>> /\ plan.ops[j].outs = <<b>> /\ plan.lay[b] # Whole
        /\ b \notin plan.hollow =>
             /\ a \notin plan.hollow /\ plan.of[a] = plan.of[b]
             /\ plan.lay[a] = plan.ops[j].pre /\ plan.lay[b] = plan.ops[j].post
             /\ <<plan.ops[j].post, plan.ops[j].pre>> \in Exchange /\ plan.ops[j].post # Whole
  BY <1>1 DEF TransformFlow
<1>3. plan.ops[j].ins[1] = a /\ plan.ops[j].outs[1] = b
  BY <1>2
<1>4. <<plan.ops[j].post, plan.ops[j].pre>> \in Exchange /\ plan.ops[j].post # Whole
  BY <1>2, <1>3
<1>5. plan.ops[j].pre \in {0, 1} /\ plan.ops[j].post \in {0, 1}
  BY <1>4 DEF Exchange, Whole
<1> QED BY <1>2, <1>3, <1>4, <1>5

(* The buffers that are written are no operand of a sharing Scatter's. *)
LEMMA SharedOf ==
  ASSUME Runnable(plan), DataPlan, Shared, NEW b \in alias
  PROVE  /\ b \in Buffers /\ plan.lay[b] \in {-1, 0}
         /\ \A k \in OpsOf : b \in Writes(k) =>
              Shares(k) /\ plan.ops[k].outs = <<b>> /\ Writes(k) = {b} /\ Reads(k) = {plan.of[b]}
<1>1. PICK j \in OpsOf : Shares(j) /\ plan.ops[j].outs = <<b>>
  BY DEF Shared
<1>2. plan.ops[j].outs[1] = b /\ plan.ops[j].kind = "Scatter"
  BY <1>1 DEF Shares
<1>3. Writes(j) = {b} /\ b \in Buffers /\ Reads(j) = {plan.of[b]}
  BY <1>2, Converts, Scattering
<1>4. plan.lay[b] \in {-1, 0}
  BY <1>1, <1>2, Scattering DEF Shares
<1>5. ASSUME NEW k \in OpsOf, b \in Writes(k) PROVE k = j
  BY <1>3, <1>5 DEF DataPlan, OneWriter
<1> QED BY <1>1, <1>3, <1>4, <1>5

LEMMA PlaceWhole ==
  ASSUME Runnable(plan), DataPlan, Shared, NEW r, NEW b \in Buffers, plan.lay[b] = Whole
  PROVE  Place(r, b) = b
  BY SharedOf DEF Place, Whole

LEMMA PlaceWritten ==
  ASSUME Runnable(plan), DataPlan, Shared, NEW j \in OpsOf, NEW b \in Writes(j),
         NEW r, ~(r = 0 /\ Shares(j))
  PROVE  Place(r, b) = b
  BY SharedOf DEF Place

-----------------------------------------------------------------------------
(***************************************************************************)
(* The invariant of a run of such a plan.  What rank 0 stores is so in     *)
(* benchmark mode as well; the rest is of runs on data.                    *)
(***************************************************************************)
Stored == Memory /\ Shared /\ Weights

Flow == Loaded /\ Sharing /\ Made /\ Receiving /\ Carrying

DataInv ==
  /\ RunInv /\ DataPlan /\ Covered
  /\ phase # "running" => alias = {}
  /\ phase = "running" => Stored /\ (~plan.benchmark => Flow)

(* The op a rank is at, and that what comes before it is finished. *)
LEMMA AtOps ==
  ASSUME JobOK, RunInv, Covered, NEW r \in Rank, ip[r] # 0, NEW j, j = writer[ip[r]].op
  PROVE  /\ j \in OpsOf /\ j \in Nat /\ InText(j) /\ OpAt(r) = plan.ops[j] /\ RunnableOp(plan.ops[j])
         /\ ~Finished(r, j) /\ iter[r] > 0 /\ Runnable(plan)
         /\ \A i \in OpsOf : i < j => InText(i) /\ Finished(r, i)
         /\ \A i \in OpsOf : j <= i => ~Finished(r, i)
<1>1. /\ j \in OpsOf /\ j \in Nat /\ InText(j) /\ OpAt(r) = plan.ops[j] /\ RunnableOp(plan.ops[j])
  BY AtLine DEF RunInv
<1>2. Runnable(plan) /\ OpsOf \subseteq Nat
  BY DEF RunInv, Emission, OpsOf, Runnable
<1>3. iter[r] > 0
  BY DEF RunInv, Typed, Control
<1>4. ASSUME NEW i \in OpsOf PROVE (i < j => InText(i) /\ Finished(r, i)) /\ (j <= i => ~Finished(r, i))
  BY <1>1, <1>2, EarlierInText DEF RunInv, Finished
<1> QED BY <1>1, <1>2, <1>3, <1>4

(* While a weight, or a part of it, is still to be read, it is not updated. *)
LEMMA NotUpdated ==
  ASSUME JobOK, RunInv, Covered, DataPlan, ip[0] # 0, 0 \in Rank, NEW j, j = writer[ip[0]].op,
         NEW b \in Reads(j), plan.of[b] \in plan.states
  PROVE  ~Updated(plan.of[b])
<1> PICK t : t = plan.of[b]
  OBVIOUS
<1>1. PICK k \in OpsOf :
        /\ Updates(k, t)
        /\ \A l \in OpsOf \ {k} : \A x \in Reads(l) : plan.of[x] = t => l < k
  BY DEF DataPlan, UpdatedLast, Updates
<1>2. j \in OpsOf /\ j \in Nat /\ OpsOf \subseteq Nat
  BY AtOps DEF RunInv, Emission, OpsOf, Runnable
<1>3. j = k \/ j < k
  BY <1>1, <1>2
<1>4. ~Finished(0, k)
  BY <1>2, <1>3, AtOps
<1> QED BY <1>1, <1>4 DEF Updated

(***************************************************************************)
(* An original that the op rank 0 is at, or one before it, reads: it is    *)
(* there, a weight or momentum as the last iteration left it.              *)
(***************************************************************************)
LEMMA OriginalHeld ==
  ASSUME JobOK, DataInv, ~plan.benchmark, Running(0), NEW j, j = writer[ip[0]].op,
         NEW i \in OpsOf, i <= j, NEW t \in Reads(i), plan.lay[t] = Whole,
         t \in plan.states => ~Updated(t)
  PROVE  mem[0][t] = Part(t, Whole, 0, At(t, iter[0]))
<1>1. /\ RunInv /\ DataPlan /\ Covered /\ Stored /\ Flow /\ ip[0] # 0 /\ 0 \in Rank
  BY DEF DataInv, Running, Rank, JobOK
<1>2. /\ j \in OpsOf /\ j \in Nat /\ iter[0] > 0 /\ Runnable(plan)
      /\ \A k \in OpsOf : k < j => InText(k) /\ Finished(0, k)
  BY <1>1, AtOps
<1>3. t \in Buffers /\ plan.of[t] = t /\ t \notin plan.hollow /\ OpsOf \subseteq Nat
  BY <1>1, <1>2 DEF DataPlan, OpFlow, Tensors, OpsOf, Runnable
<1>4. t \notin alias
  BY <1>1, <1>2, SharedOf DEF Stored, Whole
<1>5. CASE t \in plan.states
  BY <1>1, <1>3, <1>5 DEF Stored, Weights, At
<1>6. CASE t \in plan.data
  <2>1. t \notin plan.states
    BY <1>1, <1>6 DEF DataPlan
  <2> QED BY <1>1, <1>2, <1>3, <1>6, <2>1 DEF Flow, Loaded, At
<1>7. CASE t \notin plan.states \cup plan.data
  <2>1. PICK k \in OpsOf : k < i /\ ~plan.ops[k].sgd /\ t \in Writes(k)
    BY <1>1, <1>7 DEF DataPlan, MadeBefore
  <2>2. InText(k) /\ Finished(0, k)
    BY <1>2, <1>3, <2>1
  <2>3. Right(0, t)
    BY <1>1, <1>2, <1>3, <1>4, <2>1, <2>2 DEF Flow, Made, MadeBy
  <2>4. plan.lay[t] # -2
    BY DEF Whole
  <2> QED BY <1>3, <2>3, <2>4 DEF Right, Held
<1> QED BY <1>5, <1>6, <1>7

(***************************************************************************)
(* What an op reads is right: a rank's part is what its maker made of it,  *)
(* and where rank 0 has no part of its own the original is there.          *)
(***************************************************************************)
LEMMA OperandHeld ==
  ASSUME JobOK, ShapesOK, DataInv, ~plan.benchmark, NEW r \in Rank, Running(r),
         NEW b \in Reads(writer[ip[r]].op), b \notin plan.hollow, plan.lay[b] = Whole => r = 0
  PROVE  Read(r, b) = Held(r, b, At(b, iter[r]))
<1> PICK j : j = writer[ip[r]].op
  OBVIOUS
<1>1. /\ RunInv /\ DataPlan /\ Covered /\ Stored /\ Flow /\ ip[r] # 0 /\ 0 \in Rank
  BY DEF DataInv, Running, Rank, JobOK
<1>2. /\ j \in OpsOf /\ j \in Nat /\ iter[r] > 0 /\ Runnable(plan)
      /\ \A k \in OpsOf : k < j => InText(k) /\ Finished(r, k)
  BY <1>1, AtOps
<1>3. b \in Buffers /\ Tensors(b) /\ OpsOf \subseteq Nat
  BY <1>1, <1>2 DEF DataPlan, OpFlow, OpsOf, Runnable
<1>4. Sized(mem[r][b], plan.lay[b])
  BY <1>1, <1>3, MemorySized DEF Stored
<1>5. CASE plan.lay[b] = Whole
  <2>1. r = 0 /\ plan.of[b] = b /\ Place(r, b) = b /\ plan.lay[b] # -2
    BY <1>1, <1>2, <1>3, <1>5, PlaceWhole DEF Stored, Tensors, Whole
  <2>2. b \in plan.states => ~Updated(b)
    BY <1>1, <1>2, <2>1, NotUpdated
  <2>3. mem[0][b] = Part(b, Whole, 0, At(b, iter[0]))
    BY <1>2, <1>5, <2>1, <2>2, OriginalHeld
  <2> QED BY <1>4, <1>5, <2>1, <2>3, PickAll DEF Read, Held
<1>6. CASE plan.lay[b] # Whole
  <2>1. b \notin plan.states \cup plan.data
    BY <1>1, <1>6 DEF DataPlan
  <2>2. PICK i \in OpsOf : i < j /\ ~plan.ops[i].sgd /\ b \in Writes(i)
    BY <1>1, <1>2, <2>1 DEF DataPlan, MadeBefore
  <2>3. InText(i) /\ Finished(r, i)
    BY <1>2, <2>2
  <2>4. CASE ~(r = 0 /\ b \in alias)
    <3>1. Right(r, b) /\ Place(r, b) = b
      BY <1>1, <1>2, <1>6, <2>2, <2>3, <2>4 DEF Flow, Made, MadeBy, Place
    <3> QED BY <1>4, <3>1, PickAll DEF Read, Right
  <2>5. CASE r = 0 /\ b \in alias
    <3>1. Reads(i) = {plan.of[b]} /\ plan.lay[b] \in {-1, 0}
      BY <1>1, <1>2, <2>2, <2>5, SharedOf DEF Stored
    <3> PICK t : t = plan.of[b]
      OBVIOUS
    <3>2. plan.of[t] = t /\ plan.lay[t] = Whole
      BY <1>3 DEF Tensors
    <3>3. t \in plan.states => ~Updated(t)
      BY <1>1, <1>2, <2>5, NotUpdated
    <3>4. mem[0][t] = Part(t, Whole, 0, At(t, iter[0]))
      BY <1>2, <1>3, <2>2, <2>5, <3>1, <3>2, <3>3, OriginalHeld
    <3>5. At(t, iter[0]) = At(b, iter[0])
      BY <3>2 DEF At
    <3>6. Read(0, b) = Part(t, plan.lay[b], 0, At(b, iter[0]))
      BY <2>5, <3>1, <3>4, <3>5, SharedBeginning
    <3> QED BY <2>5, <3>1, <3>6 DEF Held
  <2> QED BY <2>4, <2>5
<1> QED BY <1>5, <1>6

-----------------------------------------------------------------------------
(* What a rank has finished when it goes on, and when it begins again. *)
LEMMA Arrives ==
  ASSUME JobOK, RunInv, NEW r \in Rank, NEW z \in Nat \ {0}, GoTo(r, z),
         UNCHANGED <<plan, writer>>, NEW x \in 1 .. Len(writer), Runs(RankRole(r), writer[x])
  PROVE  Finished(r, writer[x].op)' <=> x < z
<1> PICK j : j = writer[x].op
  OBVIOUS
<1>1. Emission /\ Typed
  BY DEF RunInv
<1>2. \/ ip'[r] = 0
      \/ ip'[r] \in z .. Len(writer) /\ sub'[r] = FirstTurn(plan.ops[writer[ip'[r]].op])
  BY <1>1, Going
<1>3. FirstTurn(plan.ops[j]) \in Nat
  BY DEF FirstTurn
<1>4. (\/ ip'[r] = 0 \/ writer[ip'[r]].op > j
       \/ writer[ip'[r]].op = j /\ sub'[r] > FirstTurn(plan.ops[j])) <=> x < z
  BY <1>1, <1>3, Passing
<1>5. ~(ip'[r] # 0 /\ writer[ip'[r]].op = j /\ sub'[r] > FirstTurn(plan.ops[j]))
  BY <1>2, <1>3
<1>6. ASSUME NEW k PROVE Finished(r, k)' <=> (ip'[r] = 0 \/ writer[ip'[r]].op > k)
  BY DEF Finished
<1>7. Finished(r, j)' <=> x < z
  BY <1>4, <1>5, <1>6
<1>8. writer'[x].op = j
  OBVIOUS
<1> QED BY <1>7, <1>8 DEF Finished

LEMMA FinishedNext ==
  ASSUME JobOK, RunInv, NEW r \in Rank, ip[r] # 0, Advance(r), UNCHANGED <<plan, writer>>,
         NEW j \in OpsOf,
         \E x \in 1 .. Len(writer) : writer[x].op = j /\ Runs(RankRole(r), writer[x])
  PROVE  Finished(r, j)' <=>
           \/ Finished(r, j)
           \/ j = writer[ip[r]].op /\ ~(sub[r] < LastTurn(r))
<1>1. Emission /\ Typed /\ Control
  BY DEF RunInv
<1>2. /\ ip[r] \in 1 .. Len(writer) /\ Len(writer) \in Nat /\ writer[ip[r]].op \in Nat
      /\ Runs(RankRole(r), writer[ip[r]]) /\ OpsOf \subseteq Nat
  BY <1>1, AtLine DEF Emission, OpsOf, Runnable
<1>3. ASSUME NEW k PROVE Finished(r, k)' <=> (ip'[r] = 0 \/ writer[ip'[r]].op > k)
  BY DEF Finished
<1>4. CASE sub[r] < LastTurn(r)
  <2>1. ip' = ip
    BY <1>4 DEF Advance
  <2> QED BY <1>3, <1>4, <2>1 DEF Finished
<1>5. CASE ~(sub[r] < LastTurn(r))
  <2>1. PICK x \in 1 .. Len(writer) : writer[x].op = j /\ Runs(RankRole(r), writer[x])
    OBVIOUS
  <2> PICK z \in Nat \ {0} : z = ip[r] + 1
    BY <1>2
  <2>2. GoTo(r, z)
    BY <1>5 DEF Advance
  <2>3. Finished(r, writer[x].op)' <=> x < z
    BY <2>1, <2>2, Arrives
  <2>4. Finished(r, j)' <=> x < z
    BY <1>3, <2>1, <2>3 DEF Finished
  <2>5. RankRole(r) \in Role
    BY DEF RankRole, Role
  <2>6. /\ x < ip[r] => j < writer[ip[r]].op
        /\ ip[r] < x => writer[ip[r]].op < j
    BY <1>1, <1>2, <2>1, <2>5 DEF Emission, TextOK, Increasing
  <2>7. j \in Nat /\ (x = ip[r] => j = writer[ip[r]].op)
    BY <1>2, <2>1
  <2>8. x < z <=> x = ip[r] \/ x < ip[r]
    BY <1>2
  <2> PICK k, y : k = writer[ip[r]].op /\ y = ip[r]
    OBVIOUS
  <2>9. x < z <=> j = k \/ k > j
    <3>1. k \in Nat /\ y \in Nat /\ x \in Nat /\ j \in Nat
      BY <1>2, <2>7
    <3>2. (x < y => j < k) /\ (y < x => k < j) /\ (x = y => j = k)
      BY <2>6, <2>7
    <3>3. x < z <=> x = y \/ x < y
      BY <2>8
    <3> QED BY <3>1, <3>2, <3>3
  <2> QED BY <1>2, <1>5, <2>4, <2>9 DEF Finished
<1> QED BY <1>4, <1>5

LEMMA NoneFinished ==
  ASSUME JobOK, RunInv, NEW r \in Rank, GoTo(r, 1), UNCHANGED <<plan, writer>>,
         NEW j \in OpsOf,
         \E x \in 1 .. Len(writer) : writer[x].op = j /\ Runs(RankRole(r), writer[x])
  PROVE  ~Finished(r, j)'
<1>1. PICK x \in 1 .. Len(writer) : writer[x].op = j /\ Runs(RankRole(r), writer[x])
  OBVIOUS
<1>2. Len(writer) \in Nat
  BY DEF RunInv, Emission, TextOK, IsSeq
<1>3. ~(Finished(r, writer[x].op)')
  BY <1>1, <1>2, Arrives
<1>4. ASSUME NEW k PROVE Finished(r, k)' <=> (ip'[r] = 0 \/ writer[ip'[r]].op > k)
  BY DEF Finished
<1> QED BY <1>1, <1>3, <1>4 DEF Finished

-----------------------------------------------------------------------------
(***************************************************************************)
(* A step of a rank within an op: it writes no buffer but the op's         *)
(* results, and moves no other rank.                                       *)
(***************************************************************************)
Doing(r) ==
  /\ phase = "running" /\ ip[r] # 0 /\ UNCHANGED <<emitVars, iter>>
  /\ Touches(r, Writes(writer[ip[r]].op))
  /\ alias \subseteq alias' /\ (r # 0 => alias' = alias)
  /\ Advance(r) \/ UNCHANGED <<ip, sub>>
  /\ \A q \in Rank \ {r} : posted'[q] = posted[q] /\ got'[q] = got[q]

LEMMA OthersStay ==
  ASSUME JobOK, RunInv, NEW r \in Rank, Doing(r), NEW q \in Rank \ {r}
  PROVE  /\ ip'[q] = ip[q] /\ sub'[q] = sub[q] /\ posted'[q] = posted[q] /\ got'[q] = got[q]
         /\ \A b \in Buffers : mem'[q][b] = mem[q][b]
<1>1. Emission /\ Typed /\ ip[r] + 1 \in Nat \ {0}
  BY DEF RunInv, Typed
<1>2. CASE GoTo(r, ip[r] + 1)
  <2> PICK z \in Nat \ {0} : z = ip[r] + 1
    BY <1>1
  <2>1. GoTo(r, z)
    BY <1>2
  <2>2. ip'[q] = ip[q] /\ sub'[q] = sub[q]
    BY <1>1, <2>1, Going
  <2> QED BY <2>2 DEF Doing, Touches
<1>3. CASE sub' = [sub EXCEPT ![r] = @ + 1] /\ UNCHANGED ip
  BY <1>1, <1>3 DEF Typed, Doing, Touches
<1>4. CASE UNCHANGED <<ip, sub>>
  BY <1>4 DEF Doing, Touches
<1> QED BY <1>2, <1>3, <1>4 DEF Doing, Advance

(* Only the op a rank is at can become finished. *)
LEMMA FinishedOther ==
  ASSUME JobOK, RunInv, NEW r \in Rank, Doing(r), NEW q \in Rank, NEW i \in OpsOf,
         ~(q = r /\ i = writer[ip[r]].op),
         \E x \in 1 .. Len(writer) : writer[x].op = i /\ Runs(RankRole(q), writer[x])
  PROVE  Finished(q, i)' <=> Finished(q, i)
<1>0. UNCHANGED <<plan, writer>> /\ ip[r] # 0
  BY DEF Doing, emitVars
<1>1. CASE q # r
  <2>1. ip'[q] = ip[q]
    BY <1>1, OthersStay
  <2> QED BY <1>0, <2>1 DEF Finished
<1>2. CASE q = r /\ UNCHANGED ip
  BY <1>0, <1>2 DEF Finished
<1>3. CASE q = r /\ Advance(r)
  BY <1>0, <1>3, FinishedNext
<1> QED BY <1>1, <1>2, <1>3 DEF Doing

(* A rank without a line of an op keeps nothing that the op makes. *)
LEMMA NotConcerned ==
  ASSUME Emission, DataPlan, NEW i \in OpsOf, InText(i), NEW r \in Rank,
         ~(\E x \in 1 .. Len(writer) : writer[x].op = i /\ Runs(RankRole(r), writer[x]))
  PROVE  r # 0 /\ \A b \in Writes(i) : plan.lay[b] = Whole
<1>1. r # 0 /\ ~TwoSided(i) /\ ~ForAll(i)
  BY LineFor
<1>2. RunnableOp(plan.ops[i])
  BY PlanFacts DEF Emission
<1>3. plan.ops[i].kind = "Compute" /\ ~plan.ops[i].par
  BY <1>1, <1>2 DEF TwoSided, ForAll, RunnableOp, Kind
<1> QED BY <1>1, <1>3 DEF DataPlan, OpFlow, KernelFlow

LEMMA MadeKept ==
  ASSUME JobOK, RunInv, DataPlan, NEW r \in Rank, Doing(r), NEW q \in Rank, NEW i \in OpsOf,
         ~(q = r /\ i = writer[ip[r]].op), MadeBy(q, i)
  PROVE  MadeBy(q, i)'
<1> PICK j : j = writer[ip[r]].op
  OBVIOUS
<1>1. UNCHANGED <<plan, iter>> /\ alias \subseteq alias' /\ Touches(r, Writes(j))
  BY DEF Doing, emitVars
<1>2. j \in OpsOf
  BY AtLine DEF RunInv, Doing
<1>3. ASSUME NEW b \in Writes(i) \ plan.hollow, plan.lay[b] = Whole => q = 0,
             ~(q = 0 /\ b \in alias')
      PROVE  Right(q, b)'
  <2>1. Right(q, b)
    BY <1>1, <1>3 DEF MadeBy
  <2>2. b \in Buffers
    BY <1>3 DEF DataPlan, OpFlow
  <2>3. q = r => b \notin Writes(j)
    BY <1>2, <1>3 DEF DataPlan, OneWriter
  <2>4. mem'[q][b] = mem[q][b]
    BY <1>1, <2>2, <2>3 DEF Touches
  <2>5. Held(q, b, At(b, iter[q]))' = Held(q, b, At(b, iter[q]))
    BY <1>1 DEF Held, At, Part, Summand, Size, Shape, Global, Stamp
  <2> QED BY <2>1, <2>4, <2>5 DEF Right
<1>4. \A k : Writes(k)' = Writes(k)
  BY <1>1 DEF Writes, Results
<1> QED BY <1>1, <1>3, <1>4 DEF MadeBy

LEMMA MadeNext ==
  ASSUME JobOK, RunInv, DataPlan, Covered, Made, NEW r \in Rank, Doing(r),
         NEW j, j = writer[ip[r]].op,
         Finished(r, j)' /\ ~plan.ops[j].sgd => MadeBy(r, j)'
  PROVE  Made'
<1>1. UNCHANGED <<plan, writer, iter>> /\ ip[r] # 0
  BY DEF Doing, emitVars
<1>2. SUFFICES ASSUME NEW q \in Rank, NEW i \in OpsOf, InText(i), ~plan.ops[i].sgd,
                      iter[q] > 0, Finished(q, i)'
               PROVE  MadeBy(q, i)'
  <2>1. OpsOf' = OpsOf /\ \A i : InText(i)' = InText(i)
    BY <1>1 DEF OpsOf, InText
  <2> QED BY <1>1, <2>1 DEF Made
<1>3. CASE q = r /\ i = j
  BY <1>2, <1>3
<1>4. CASE /\ ~(q = r /\ i = j)
           /\ \E x \in 1 .. Len(writer) : writer[x].op = i /\ Runs(RankRole(q), writer[x])
  BY <1>2, <1>4, FinishedOther, MadeKept DEF Made
<1>5. CASE ~\E x \in 1 .. Len(writer) : writer[x].op = i /\ Runs(RankRole(q), writer[x])
  <2>1. q # 0 /\ \A b \in Writes(i) : plan.lay[b] = Whole
    BY <1>2, <1>5, NotConcerned DEF RunInv
  <2>2. Writes(i)' = Writes(i)
    BY <1>1 DEF Writes, Results
  <2> QED BY <1>1, <2>1, <2>2 DEF MadeBy
<1> QED BY <1>3, <1>4, <1>5

(* Only an SGD op touches weights and momenta, and its batch no op. *)
LEMMA StatesWritten ==
  ASSUME DataPlan, NEW j \in OpsOf
  PROVE  /\ Writes(j) \cap plan.states # {} => plan.ops[j].sgd
         /\ Writes(j) \cap plan.data = {}
  BY DEF DataPlan, OpFlow

LEMMA WeightsNext ==
  ASSUME JobOK, RunInv, DataPlan, Covered, Weights, NEW r \in Rank, Doing(r),
         NEW j, j = writer[ip[r]].op,
         r = 0 /\ plan.ops[j].sgd =>
           /\ Finished(0, j)'
           /\ \A t \in Writes(j) : mem'[0][t] = Part(t, Whole, 0, iter[0])
  PROVE  Weights'
<1>1. /\ UNCHANGED <<plan, writer, iter>> /\ ip[r] # 0 /\ phase = "running"
      /\ Touches(r, Writes(j)) /\ 0 \in Rank
  BY DEF Doing, emitVars, JobOK, Rank
<1>2. j \in OpsOf /\ InText(j)
  BY <1>1, AtLine DEF RunInv
<1>3. ASSUME NEW k \in OpsOf, plan.ops[k].sgd
      PROVE  \E x \in 1 .. Len(writer) : writer[x].op = k /\ Runs(RankRole(0), writer[x])
  <2>1. ~TwoSided(k)
    BY <1>3 DEF DataPlan, OpFlow, TwoSided
  <2>2. InText(k)
    BY <1>1, <2>1 DEF Covered, OpsOf, RunInv, Emission, Runnable
  <2> QED BY <1>1, <2>2, LineFor DEF RunInv
<1>4. ASSUME NEW t \in plan.states
      PROVE  mem'[0][t] = Part(t, Whole, 0, IF Updated(t)' THEN iter[0] ELSE iter[0] - 1)
  <2>1. t \in Buffers
    BY DEF DataPlan
  <2>2. CASE r = 0 /\ t \in Writes(j)
    <3>1. plan.ops[j].sgd
      BY <1>2, <2>2, StatesWritten
    <3>2. ASSUME NEW k \in OpsOf, Updates(k, t) PROVE k = j
      BY <1>2, <2>2, <3>2 DEF Updates, DataPlan, OneWriter
    <3>3. Updated(t)'
      <4>1. ASSUME NEW k \in OpsOf', Updates(k, t)' PROVE Finished(0, k)'
        <5>1. k = j
          BY <1>1, <3>2, <4>1 DEF Updates, OpsOf, Writes, Results
        <5> QED BY <2>2, <3>1, <5>1
      <4> QED BY <4>1 DEF Updated
    <3> QED BY <2>2, <3>1, <3>3
  <2>3. CASE ~(r = 0 /\ t \in Writes(j))
    <3>1. mem'[0][t] = mem[0][t]
      BY <1>1, <2>1, <2>3 DEF Touches
    <3>2. ASSUME NEW k \in OpsOf, Updates(k, t) PROVE Finished(0, k)' <=> Finished(0, k)
      <4>1. ~(0 = r /\ k = j)
        BY <2>3, <3>2 DEF Updates
      <4> QED BY <1>1, <1>3, <3>2, <4>1, FinishedOther DEF Updates
    <3>3. Updated(t)' <=> Updated(t)
      <4>1. OpsOf' = OpsOf /\ \A k : Updates(k, t)' <=> Updates(k, t)
        BY <1>1 DEF Updates, OpsOf, Writes, Results
      <4> QED BY <3>2, <4>1 DEF Updated
    <3> QED BY <3>1, <3>3 DEF Weights
  <2> QED BY <2>2, <2>3
<1>5. ASSUME NEW t, NEW v PROVE Part(t, Whole, 0, v)' = Part(t, Whole, 0, v)
  BY DEF Part, Size, Shape, Global, Stamp
<1> QED BY <1>1, <1>4, <1>5 DEF Weights

LEMMA LoadedNext ==
  ASSUME JobOK, RunInv, DataPlan, Loaded, NEW r \in Rank, Doing(r)
  PROVE  Loaded'
<1> PICK j : j = writer[ip[r]].op
  OBVIOUS
<1>1. UNCHANGED <<plan, iter>> /\ Touches(r, Writes(j)) /\ 0 \in Rank
  BY DEF Doing, emitVars, JobOK, Rank
<1>2. j \in OpsOf
  BY AtLine DEF RunInv, Doing
<1>3. ASSUME NEW t \in plan.data PROVE mem'[0][t] = mem[0][t]
  <2>1. t \in Buffers /\ t \notin Writes(j)
    BY <1>2, StatesWritten DEF DataPlan
  <2> QED BY <1>1, <2>1 DEF Touches
<1>4. ASSUME NEW t, NEW v PROVE Part(t, Whole, 0, v)' = Part(t, Whole, 0, v)
  BY DEF Part, Size, Shape, Global, Stamp
<1> QED BY <1>1, <1>3, <1>4 DEF Loaded

LEMMA SharingNext ==
  ASSUME JobOK, RunInv, DataPlan, Sharing, NEW r \in Rank, Doing(r),
         NEW j, j = writer[ip[r]].op,
         r = 0 /\ Shares(j) /\ (Finished(0, j)' \/ (plan.ops[j].pre = -1 /\ ip' = ip /\ posted'[0]))
           => plan.ops[j].outs[1] \in alias'
  PROVE  Sharing'
<1>1. /\ UNCHANGED <<plan, writer, iter>> /\ alias \subseteq alias' /\ ip[r] # 0 /\ 0 \in Rank
  BY DEF Doing, emitVars, JobOK, Rank
<1>2. j \in OpsOf
  BY <1>1, AtLine DEF RunInv
<1>3. SUFFICES ASSUME NEW i \in OpsOf, InText(i), Shares(i), iter[0] > 0,
                      \/ Finished(0, i)'
                      \/ ip'[0] # 0 /\ writer[ip'[0]].op = i /\ plan.ops[i].pre = -1 /\ posted'[0]
               PROVE  plan.ops[i].outs[1] \in alias'
  <2>1. OpsOf' = OpsOf /\ \A i : InText(i)' = InText(i) /\ Shares(i)' = Shares(i)
    BY <1>1 DEF OpsOf, InText, Shares
  <2> QED BY <1>1, <2>1 DEF Sharing
<1>4. TwoSided(i)
  BY <1>3 DEF Shares, TwoSided
<1>5. \E x \in 1 .. Len(writer) : writer[x].op = i /\ Runs(RankRole(0), writer[x])
  BY <1>1, <1>3, <1>4, LineFor DEF RunInv
<1>6. CASE Finished(0, i)'
  <2>1. CASE r = 0 /\ i = j
    BY <1>3, <1>6, <2>1
  <2>2. CASE ~(0 = r /\ i = j)
    BY <1>1, <1>3, <1>5, <1>6, <2>2, FinishedOther DEF Sharing
  <2> QED BY <2>1, <2>2
<1>7. CASE ip'[0] # 0 /\ writer[ip'[0]].op = i /\ plan.ops[i].pre = -1 /\ posted'[0]
  <2>1. CASE r # 0
    <3>1. ip'[0] = ip[0] /\ posted'[0] = posted[0]
      BY <1>1, <2>1, OthersStay
    <3> QED BY <1>1, <1>3, <1>7, <3>1 DEF Sharing
  <2>2. CASE r = 0
    <3>1. ip' = ip
      BY <1>7, <2>2 DEF Doing, Advance, RunInv, Typed
    <3> QED BY <1>3, <1>7, <2>2, <3>1
  <2> QED BY <2>1, <2>2
<1> QED BY <1>3, <1>6, <1>7

(* A step of another rank leaves alone what a rank is receiving. *)
LEMMA ReceivesSame ==
  ASSUME JobOK, RunInv, DataPlan, UNCHANGED <<plan, writer>>, NEW q \in Rank, ip[q] # 0,
         ip'[q] = ip[q], sub'[q] = sub[q], got'[q] = got[q], iter'[q] = iter[q],
         \A b \in Buffers : b \notin plan.data => mem'[q][b] = mem[q][b], Receives(q)
  PROVE  Receives(q)'
<1> PICK j : j = writer[ip[q]].op
  OBVIOUS
<1>3. j \in OpsOf /\ Runnable(plan)
  BY AtLine DEF RunInv, Emission
<1>4. OpAt(q)' = OpAt(q) /\ OpAt(q) = plan.ops[j] /\ writer'[ip'[q]].op = j
  BY DEF OpAt
<1> PICK op : op = plan.ops[j]
  OBVIOUS
<1> PICK b : b = op.outs[1]
  OBVIOUS
<1>5. ASSUME NEW s PROVE (Transfer(s, q, j) /\ HasReceived(s, q, iter[q], j))'
                           <=> Transfer(s, q, j) /\ HasReceived(s, q, iter[q], j)
  BY DEF Transfer, OpsOf, InText, HasReceived, Past, RecvTurn, Around, Sends
<1>6. Arrived(q)' = Arrived(q)
  BY <1>4, <1>5 DEF Arrived
<1>7. /\ Joins(q)' <=> Joins(q)
      /\ Exchanges(q)' <=> Exchanges(q)
      /\ Accepts(q)' <=> Accepts(q)
  BY <1>4 DEF Joins, Exchanges, Moves, Accepts
<1>8. ASSUME NEW x, NEW S
      PROVE  /\ Filled(x, plan.of[b], plan.lay[b], op.pre, S, q, At(b, iter[q]))'
                  <=> Filled(x, plan.of[b], plan.lay[b], op.pre, S, q, At(b, iter[q]))
             /\ Held(q, b, At(b, iter[q]))' = Held(q, b, At(b, iter[q]))
  BY DEF Filled, Block, Held, At, Part, Summand, Size, Shape, Global, Stamp, Vector, Count, Stride
<1>9. op.kind # "Compute" => mem'[q][b] = mem[q][b]
  <2>1. op.kind # "Compute" => b \in Buffers /\ b \in Writes(j)
    BY <1>3, Converts
  <2> QED BY <1>3, <2>1, StatesWritten
<1>10. Joins(q) \/ Exchanges(q) \/ Accepts(q) => op.kind # "Compute"
  BY <1>4 DEF Joins, Exchanges, Moves, Accepts
<1> QED BY <1>4, <1>6, <1>7, <1>8, <1>9, <1>10 DEF Receives, Right

LEMMA ReceivesKept ==
  ASSUME JobOK, RunInv, DataPlan, NEW r \in Rank, Doing(r), NEW q \in Rank \ {r},
         ip[q] # 0, Receives(q)
  PROVE  Receives(q)'
<1>1. UNCHANGED <<plan, writer, iter>>
  BY DEF Doing, emitVars
<1>2. /\ ip'[q] = ip[q] /\ sub'[q] = sub[q] /\ got'[q] = got[q]
      /\ \A b \in Buffers : mem'[q][b] = mem[q][b]
  BY OthersStay
<1> QED BY <1>1, <1>2, ReceivesSame

(* At a line that it has just come to a rank has received nothing yet. *)
LEMMA FreshArrival ==
  ASSUME JobOK, RunInv, DataPlan, NEW r \in Rank, NEW z \in Nat \ {0}, GoTo(r, z),
         UNCHANGED <<plan, writer>>, RunInv', Memory', ~got'[r], ip'[r] # 0
  PROVE  Receives(r)'
<1>1. Emission /\ Typed /\ Runnable(plan) /\ iter'[r] \in Nat
  BY DEF RunInv, Emission, Typed
<1> PICK n : n = iter'[r]
  OBVIOUS
<1> PICK j : j = writer[ip'[r]].op
  OBVIOUS
<1>2. /\ ip'[r] \in 1 .. Len(writer)
      /\ sub'[r] = FirstTurn(plan.ops[j])
  <2>1. ip'[r] \in z .. Len(writer) /\ sub'[r] = FirstTurn(plan.ops[writer[ip'[r]].op])
    BY <1>1, Going
  <2>2. Len(writer) \in Nat
    BY <1>1 DEF Emission, TextOK, IsSeq
  <2> QED BY <2>1, <2>2
<1>3. j \in OpsOf /\ InText(j)
  BY <1>1, <1>2 DEF Emission, TextOK, LineOf, InText
<1>4. OpAt(r)' = plan.ops[j] /\ writer'[ip'[r]].op = j
  BY DEF OpAt
<1>5. j \in Int
  BY <1>1, <1>3 DEF OpsOf, Runnable
<1>6. ASSUME NEW s \in Rank, (Transfer(s, r, j) /\ HasReceived(s, r, iter[r], j))' PROVE FALSE
  <2>1. Transfer(s, r, j)
    BY <1>6 DEF Transfer, OpsOf, InText, Sends
  <2>2. /\ RecvTurn(plan.ops[j], s, r) \in Nat
        /\ FirstTurn(plan.ops[j]) <= RecvTurn(plan.ops[j], s, r)
    BY <1>1, <2>1, Ends
  <2>3. RecvTurn(plan.ops[j], s, r)' = RecvTurn(plan.ops[j], s, r)
    BY DEF RecvTurn, Around
  <2>4. Past(r, n, j, RecvTurn(plan.ops[j], s, r), FALSE)'
    BY <1>6, <2>3 DEF HasReceived, Past
  <2>5. FirstTurn(plan.ops[j]) \in Int
    BY DEF FirstTurn
  <2> QED BY <1>1, <1>2, <1>4, <1>5, <2>2, <2>3, <2>4, <2>5 DEF Past
<1>7. Arrived(r)' = {}
  BY <1>4, <1>6 DEF Arrived
<1> PICK op : op = plan.ops[j]
  OBVIOUS
<1> PICK b : b = op.outs[1]
  OBVIOUS
<1>8. op.kind # "Compute" => Sized(mem'[r][b], plan.lay[b])
  <2>1. op.kind # "Compute" => b \in Buffers
    BY <1>1, <1>3, Converts
  <2> QED BY <2>1 DEF Memory, Sized, Size, Shape, Buffers
<1>9. Joins(r)' \/ Exchanges(r)' => op.kind # "Compute"
  BY <1>4 DEF Joins, Exchanges, Moves
<1>10. op.kind # "Compute" =>
         Filled(mem[r][b], plan.of[b], plan.lay[b], op.pre, {}, r, At(b, iter[r]))'
  BY <1>8 DEF Filled, Sized, Size, Shape
<1> QED BY <1>4, <1>7, <1>9, <1>10 DEF Receives

-----------------------------------------------------------------------------
(* The messages: what was sent is still under way as it was sent. *)
LEMMA CarriesKept ==
  ASSUME UNCHANGED plan, NEW s, NEW d, NEW m, NEW data
  PROVE  Carries(s, d, m, data)' <=> Carries(s, d, m, data)
  BY DEF Carries, Part, Gift, Given, All, Summand, At, Size, Shape, Global, Stamp, Vector,
         Count, Stride, Pick

LEMMA CarryingKept ==
  ASSUME Carrying, UNCHANGED <<plan, chan>>,
         \A s, d \in Rank : \A e : Queue(s, d, e) => Queue(s, d, e)'
  PROVE  Carrying'
<1>1. ASSUME NEW s \in Rank, NEW d \in Rank
      PROVE  \E e : /\ Queue(s, d, e)'
                    /\ \A x \in 1 .. Len(chan'[s][d]) :
                         \E m : m = chan'[s][d][x] /\ Carries(s, d, e[x], m.data)'
  <2>1. PICK e : /\ Queue(s, d, e)
                 /\ \A x \in 1 .. Len(chan[s][d]) :
                      \E m : m = chan[s][d][x] /\ Carries(s, d, e[x], m.data)
    BY DEF Carrying
  <2>2. ASSUME NEW x \in 1 .. Len(chan[s][d])
        PROVE  \E m : m = chan'[s][d][x] /\ Carries(s, d, e[x], m.data)'
    <3>1. PICK m : m = chan[s][d][x] /\ Carries(s, d, e[x], m.data)
      BY <2>1
    <3>2. Carries(s, d, e[x], m.data)'
      BY <3>1, CarriesKept
    <3> QED BY <3>1, <3>2
  <2> QED BY <2>1, <2>2
<1> QED BY <1>1 DEF Carrying

LEMMA CarryingPost ==
  ASSUME JobOK, RunInv, Carrying, NEW r \in Rank, Post(r), UNCHANGED emitVars,
         \A d \in Dests(r) : Carries(r, d, Now(r), Message(r, d).data)
  PROVE  Carrying'
<1>1. /\ Emission /\ Typed /\ Control /\ Queues /\ Causal /\ Bounded /\ UNCHANGED plan
      /\ \A s, d \in Rank : IsSeq(chan[s][d])
  BY DEF RunInv, emitVars, Typed
<1> PICK D : D = Dests(r)
  OBVIOUS
<1>2. ASSUME NEW s \in Rank, NEW d \in Rank
      PROVE  \E f : /\ Queue(s, d, f)'
                    /\ \A x \in 1 .. Len(chan'[s][d]) :
                         \E m : m = chan'[s][d][x] /\ Carries(s, d, f[x], m.data)'
  <2> PICK q : q = chan[s][d]
    OBVIOUS
  <2> PICK n : n = Len(q)
    OBVIOUS
  <2>1. PICK e : /\ Queue(s, d, e)
                 /\ \A x \in 1 .. n : Carries(s, d, e[x], q[x].data)
    BY DEF Carrying
  <2>2. PICK f : f = AfterPost(r, s, d, e) /\ Queue(s, d, f)'
    BY <1>1, <2>1, PostStep
  <2>3. n \in Nat /\ IsSeq(q)
    BY <1>1 DEF IsSeq
  <2>4. CASE s = r /\ d \in D
    <3> PICK m, now : m = Message(r, d) /\ now = Now(r)
      OBVIOUS
    <3> PICK p : p = chan'[s][d]
      OBVIOUS
    <3>1. p = Append(q, m)
      BY <1>1, <2>4 DEF Post, Typed
    <3>2. Len(p) = n + 1 /\ p[n + 1] = m /\ \A x \in 1 .. n : p[x] = q[x]
      BY <2>3, <3>1, AppendAny
    <3>3. f[n + 1] = now /\ \A x \in 1 .. n : f[x] = e[x]
      BY <2>2, <2>3, <2>4 DEF AfterPost
    <3>4. Carries(s, d, now, m.data)
      BY <2>4
    <3>5. ASSUME NEW x \in 1 .. n + 1 PROVE Carries(s, d, f[x], p[x].data)
      <4>1. CASE x = n + 1
        BY <3>2, <3>3, <3>4, <4>1
      <4>2. CASE x # n + 1
        <5>1. x \in 1 .. n
          BY <2>3, <4>2
        <5> QED BY <2>1, <3>2, <3>3, <5>1
      <4> QED BY <4>1, <4>2
    <3>6. ASSUME NEW x \in 1 .. n + 1
          PROVE  \E y : y = p[x] /\ Carries(s, d, f[x], y.data)'
      BY <1>1, <3>5, CarriesKept
    <3> QED BY <2>2, <3>2, <3>6
  <2>5. CASE ~(s = r /\ d \in D)
    <3>1. chan'[s][d] = q
      BY <1>1, <2>5 DEF Post, Typed
    <3>2. f = e
      BY <2>2, <2>5 DEF AfterPost
    <3>3. ASSUME NEW x \in 1 .. n PROVE \E m : m = q[x] /\ Carries(s, d, f[x], m.data)'
      BY <1>1, <2>1, <3>2, CarriesKept
    <3> QED BY <2>2, <3>1, <3>3
  <2> QED BY <2>4, <2>5
<1> QED BY <1>2 DEF Carrying

(* What a rank receives is what was sent for it. *)
LEMMA TakenCarries ==
  ASSUME JobOK, RunInv, Carrying, NEW r \in Rank, Receive(r), NEW s \in Sources(r)
  PROVE  /\ s \in Rank /\ First(Matching(r, s)) = 1 /\ IsSeq(chan[s][r]) /\ Len(chan[s][r]) > 0
         /\ Carries(s, r, Now(r), Taken(r, s).data)
<1>1. /\ Emission /\ Typed /\ Control /\ Queues /\ ip[r] # 0 /\ ~got[r]
      /\ Matching(r, s) # {}
  BY DEF RunInv, Receive, CanReceive, Running
<1>2. s \in Rank
  BY <1>1, Turns
<1>3. Len(chan[s][r]) > 0 /\ IsSeq(chan[s][r])
  BY <1>1, <1>2, Waiting DEF Typed
<1>4. First(Matching(r, s)) = 1
  BY <1>1, <1>2, <1>3, Fitting
<1>5. PICK e : /\ Queue(s, r, e)
               /\ \A x \in 1 .. Len(chan[s][r]) :
                    \E m : m = chan[s][r][x] /\ Carries(s, r, e[x], m.data)
  BY <1>2 DEF Carrying
<1>6. e[1] = Now(r)
  BY <1>1, <1>2, <1>3, <1>5, Awaited
<1>7. 1 \in 1 .. Len(chan[s][r])
  BY <1>3 DEF IsSeq
<1>8. Carries(s, r, e[1], chan[s][r][1].data)
  BY <1>5, <1>7
<1> QED BY <1>2, <1>3, <1>4, <1>6, <1>8 DEF Taken

LEMMA CarryingReceive ==
  ASSUME JobOK, RunInv, Carrying, NEW r \in Rank, Receive(r), UNCHANGED emitVars
  PROVE  Carrying'
<1>1. /\ Emission /\ Typed /\ Control /\ Queues /\ Causal /\ Bounded /\ UNCHANGED plan
      /\ \A s, d \in Rank : IsSeq(chan[s][d])
  BY DEF RunInv, emitVars, Typed
<1> PICK S : S = Sources(r)
  OBVIOUS
<1>2. ASSUME NEW s \in Rank, NEW d \in Rank
      PROVE  \E f : /\ Queue(s, d, f)'
                    /\ \A x \in 1 .. Len(chan'[s][d]) :
                         \E m : m = chan'[s][d][x] /\ Carries(s, d, f[x], m.data)'
  <2> PICK q : q = chan[s][d]
    OBVIOUS
  <2> PICK n : n = Len(q)
    OBVIOUS
  <2> PICK p : p = chan'[s][d]
    OBVIOUS
  <2>1. PICK e : /\ Queue(s, d, e)
                 /\ \A x \in 1 .. n : Carries(s, d, e[x], q[x].data)
    BY DEF Carrying
  <2>2. PICK f : f = AfterReceive(r, s, d, e) /\ Queue(s, d, f)'
    BY <1>1, <2>1, ReceiveStep
  <2>3. n \in Nat /\ IsSeq(q)
    BY <1>1 DEF IsSeq
  <2>4. chan'[s] = IF s \in S THEN [chan[s] EXCEPT ![r] = Without(@, First(Matching(r, s)))]
                   ELSE chan[s]
    BY DEF Receive
  <2>5. chan[s] = [x \in Rank |-> chan[s][x]]
    BY <1>1 DEF Typed
  <2>6. CASE d = r /\ s \in S
    <3>1. p = Without(q, 1) /\ n > 0
      BY <2>4, <2>5, <2>6, TakenCarries
    <3>2. Len(p) = n - 1 /\ \A x \in 1 .. n - 1 : p[x] = q[x + 1]
      BY <2>3, <3>1, DropFirst
    <3>3. \A x \in 1 .. n - 1 : f[x] = e[x + 1]
      BY <2>2, <2>6 DEF AfterReceive
    <3>4. ASSUME NEW x \in 1 .. n - 1 PROVE Carries(s, d, f[x], p[x].data)
      <4>1. PICK y \in 1 .. n : y = x + 1
        BY <2>3
      <4>2. f[x] = e[y] /\ p[x] = q[y]
        BY <3>2, <3>3, <4>1
      <4> QED BY <2>1, <4>2
    <3>5. ASSUME NEW x \in 1 .. n - 1 PROVE \E m : m = p[x] /\ Carries(s, d, f[x], m.data)'
      BY <1>1, <3>4, CarriesKept
    <3> QED BY <2>2, <3>2, <3>5
  <2>7. CASE ~(d = r /\ s \in S)
    <3>1. p = q
      BY <2>4, <2>5, <2>7
    <3>2. f = e
      BY <2>2, <2>7 DEF AfterReceive
    <3>3. ASSUME NEW x \in 1 .. n PROVE \E m : m = q[x] /\ Carries(s, d, f[x], m.data)'
      BY <1>1, <2>1, <3>2, CarriesKept
    <3> QED BY <2>2, <3>1, <3>3
  <2> QED BY <2>6, <2>7
<1> QED BY <1>2 DEF Carrying

-----------------------------------------------------------------------------
(* What each step of a rank does within its op. *)
LEMMA NothingTouched ==
  ASSUME Memory, UNCHANGED <<plan, mem>>, NEW r, NEW W PROVE Touches(r, W)
<1>1. Memory'
  BY DEF Memory, Buffers
<1> QED BY <1>1 DEF Touches

(* A rank that serves or is served: in what op, and rank 0's side is its own. *)
LEMMA Served ==
  ASSUME JobOK, RunInv, NEW r \in Rank, ip[r] # 0, Dests(r) \cup Sources(r) # {}
  PROVE  /\ OpAt(r).kind # "Compute"
         /\ OpAt(r).kind = "Transform" => Moves(r)
         /\ OpAt(r).kind = "Scatter" => IF r = 0 THEN Sources(r) = {} ELSE Dests(r) = {}
         /\ OpAt(r).kind \in {"Gather", "Reduce"} => IF r = 0 THEN Dests(r) = {} ELSE Sources(r) = {}
         /\ OpAt(r).kind \in {"Scatter", "Gather"} => (Side(r) = "master" <=> r = 0)
<1>1. OpAt(r).kind \in {"Scatter", "Gather"} => Side(r) = RankRole(r)
  BY AtLine DEF RunInv
<1>2. OpAt(r).kind \in {"Scatter", "Gather"} => (Side(r) = "master" <=> r = 0)
  BY <1>1 DEF RankRole
<1>3. OpAt(r).kind # "Compute" /\ (OpAt(r).kind = "Transform" => Moves(r))
  BY DEF Dests, Sources, Moves
<1>4. OpAt(r).kind = "Scatter" => IF r = 0 THEN Sources(r) = {} ELSE Dests(r) = {}
  BY <1>1 DEF Dests, Sources, Moves, RankRole
<1>5. OpAt(r).kind \in {"Gather", "Reduce"} => IF r = 0 THEN Dests(r) = {} ELSE Sources(r) = {}
  BY <1>1 DEF Dests, Sources, Moves, RankRole
<1> QED BY <1>2, <1>3, <1>4, <1>5

LEMMA PostDoes ==
  ASSUME JobOK, RunInv, Memory, NEW r \in Rank, Post(r), UNCHANGED emitVars
  PROVE  /\ Doing(r) /\ mem' = mem /\ ip' = ip /\ sub' = sub /\ got' = got /\ posted'[r]
         /\ OpAt(r).kind = "Scatter" /\ OpAt(r).pre = -1 => OpAt(r).outs[1] \in alias'
         /\ alias' \subseteq alias \cup {b \in {OpAt(r).outs[1]} :
                                          OpAt(r).kind = "Scatter" /\ OpAt(r).pre = -1}
<1>1. /\ phase = "running" /\ ip[r] # 0 /\ Dests(r) # {} /\ UNCHANGED plan
      /\ UNCHANGED <<ip, sub, got, iter, mem>> /\ posted' = [posted EXCEPT ![r] = TRUE]
  BY DEF Post, CanPost, Running, emitVars
<1>2. /\ posted'[r] /\ \A q \in Rank \ {r} : posted'[q] = posted[q]
  BY <1>1 DEF RunInv, Typed
<1>3. r # 0 => OpAt(r).kind # "Scatter"
  BY <1>1, Served
<1>4. /\ alias \subseteq alias' /\ (r # 0 => alias' = alias)
      /\ OpAt(r).kind = "Scatter" /\ OpAt(r).pre = -1 => OpAt(r).outs[1] \in alias'
      /\ alias' \subseteq alias \cup {b \in {OpAt(r).outs[1]} :
                                       OpAt(r).kind = "Scatter" /\ OpAt(r).pre = -1}
  BY <1>3 DEF Post
<1>5. Touches(r, Writes(writer[ip[r]].op))
  BY <1>1, NothingTouched
<1> QED BY <1>1, <1>2, <1>4, <1>5 DEF Doing

LEMMA TouchesMore ==
  ASSUME NEW r, NEW V, NEW W, V \subseteq W, Touches(r, V) PROVE Touches(r, W)
  BY DEF Touches

LEMMA ReceiveDoes ==
  ASSUME JobOK, RunInv, DataPlan, Memory, Shared, NEW r \in Rank, Receive(r),
         UNCHANGED emitVars, NEW b, b = OpAt(r).outs[1]
  PROVE  /\ Doing(r) /\ ip' = ip /\ sub' = sub /\ alias' = alias /\ got'[r] /\ posted' = posted
         /\ Place(r, b) = b /\ b \in Buffers
         /\ \E s \in Sources(r) : Received(r, s)
<1> PICK j : j = writer[ip[r]].op
  OBVIOUS
<1>1. /\ phase = "running" /\ ip[r] # 0 /\ Sources(r) # {} /\ UNCHANGED plan
      /\ UNCHANGED <<ip, sub, posted, iter, alias>> /\ got' = [got EXCEPT ![r] = TRUE]
      /\ \E s \in Sources(r) : Received(r, s)
  BY DEF Receive, CanReceive, Running, emitVars
<1>2. got'[r] /\ \A q \in Rank \ {r} : got'[q] = got[q]
  BY <1>1 DEF RunInv, Typed
<1>3. j \in OpsOf /\ OpAt(r) = plan.ops[j] /\ Runnable(plan)
  BY <1>1, AtLine DEF RunInv, Emission
<1>4. plan.ops[j].kind # "Compute" /\ ~(r = 0 /\ Shares(j))
  BY <1>1, <1>3, Served DEF Shares
<1>5. b \in Buffers /\ Writes(j) = {b}
  BY <1>3, <1>4, Converts
<1>6. Place(r, b) = b
  BY <1>3, <1>4, <1>5, PlaceWritten
<1>7. PICK s \in Sources(r) : Received(r, s)
  BY <1>1
<1>8. \E cells, data : Write(r, b, cells, data)
  BY <1>7 DEF Received
<1>9. Touches(r, {b})
  BY <1>1, <1>5, <1>6, <1>8, WriteTouches
<1> QED BY <1>1, <1>2, <1>5, <1>6, <1>9 DEF Doing

LEMMA ReturnDoes ==
  ASSUME JobOK, RunInv, Memory, NEW r \in Rank, Return(r), UNCHANGED emitVars
  PROVE  /\ Doing(r) /\ mem' = mem /\ alias' = alias /\ Advance(r) /\ ~posted'[r] /\ ~got'[r]
         /\ Dests(r) # {} => posted[r]
         /\ Sources(r) # {} => got[r]
<1>1. /\ phase = "running" /\ ip[r] # 0 /\ UNCHANGED <<plan, iter, mem, alias>> /\ Advance(r)
      /\ Dests(r) # {} => posted[r]
      /\ Sources(r) # {} => got[r]
  BY DEF Return, CanReturn, Running, Sent, emitVars
<1>2. /\ ~posted'[r] /\ ~got'[r]
      /\ \A q \in Rank \ {r} : posted'[q] = posted[q] /\ got'[q] = got[q]
  BY <1>1 DEF Advance, RunInv, Typed
<1>3. Touches(r, Writes(writer[ip[r]].op))
  BY <1>1, NothingTouched
<1> QED BY <1>1, <1>2, <1>3 DEF Doing

(* A local turn is the last of its op. *)
LEMMA LocalTurn ==
  ASSUME JobOK, RunInv, NEW r \in Rank, CanCompute(r)
  PROVE  /\ ip[r] # 0 /\ phase = "running" /\ ~(sub[r] < LastTurn(r))
         /\ OpAt(r).kind \in {"Compute", "Scatter", "Gather", "Transform"}
         /\ OpAt(r).kind = "Transform" => ~Moves(r)
         /\ OpAt(r).kind \in {"Scatter", "Gather"} => r = 0 /\ sub[r] = NProcs /\ OpAt(r).pre >= 0
<1>1. ip[r] # 0 /\ phase = "running" /\ Dests(r) = {} /\ Sources(r) = {}
  BY DEF CanCompute, Running
<1>2. /\ OpAt(r).kind \in {"Scatter", "Gather"} => Side(r) = RankRole(r)
      /\ OpAt(r).kind \notin {"Scatter", "Gather"} => Side(r) = "all"
      /\ RunnableOp(OpAt(r))
  BY <1>1, AtLine DEF RunInv
<1>3. /\ sub[r] \in Nat /\ FirstTurn(OpAt(r)) <= sub[r] /\ sub[r] <= LastTurn(r)
      /\ FirstTurn(OpAt(r)) \in Nat /\ NProcs \in Nat /\ NProcs > 1
  BY <1>1 DEF RunInv, Typed, Control, FirstTurn, JobOK
<1>4. 1 \in Others
  BY <1>3 DEF Others, Rank
<1>5. CASE OpAt(r).kind \in {"Scatter", "Gather"}
  <2>1. r = 0 /\ Side(r) = "master"
    BY <1>1, <1>2, <1>5 DEF Dests, Sources, RankRole
  <2>2. OpAt(r).pre >= 0
    BY <1>1, <1>2, <1>4, <1>5, <2>1 DEF Dests, RunnableOp
  <2>3. {sub[r]} \cap Others = {}
    BY <1>1, <1>5, <2>1, <2>2 DEF Dests, Sources
  <2>4. LastTurn(r) = NProcs /\ FirstTurn(OpAt(r)) = 1
    BY <1>5, <2>1, <2>2 DEF LastTurn, FirstTurn
  <2>5. sub[r] = NProcs
    BY <1>3, <2>3, <2>4 DEF Others, Rank
  <2> QED BY <1>1, <1>3, <1>5, <2>1, <2>2, <2>4, <2>5
<1>6. CASE OpAt(r).kind \notin {"Scatter", "Gather"}
  <2>1. OpAt(r).kind # "Reduce" /\ ~Moves(r)
    BY <1>1, <1>4, <1>6 DEF Dests, Sources, Moves
  <2>2. LastTurn(r) = FirstTurn(OpAt(r))
    BY <1>2, <1>6, <2>1 DEF LastTurn
  <2>3. OpAt(r).kind \in {"Compute", "Transform"}
    BY <1>2, <1>6, <2>1 DEF RunnableOp, Kind
  <2> QED BY <1>1, <1>3, <1>6, <2>1, <2>2, <2>3
<1> QED BY <1>5, <1>6

LEMMA KernelWrites ==
  ASSUME JobOK, RunInv, DataPlan, Memory, Shared, UNCHANGED plan, NEW r \in Rank, ip[r] # 0,
         NEW j, j = writer[ip[r]].op, plan.ops[j].kind = "Compute", Kernel(r)
  PROVE  Touches(r, Writes(j)) /\ \A b \in Writes(j) : mem'[r][b] = Result(r, b)
<1>1. j \in OpsOf /\ OpAt(r) = plan.ops[j] /\ Runnable(plan)
  BY AtLine DEF RunInv, Emission
<1> PICK W : W = Writes(j)
  OBVIOUS
<1>2. W = Results(OpAt(r)) /\ W \subseteq Buffers
  BY <1>1 DEF Writes, DataPlan, OpFlow
<1>3. \A b \in W : Place(r, b) = b
  BY <1>1, PlaceWritten DEF Shares
<1>4. ASSUME NEW x \in Buffers
      PROVE  /\ (\E b \in W : Place(r, b) = x) <=> x \in W
             /\ x \in W => (CHOOSE b \in W : Place(r, b) = x) = x
  BY <1>3
<1>5. mem' = [mem EXCEPT ![r] =
               [x \in Buffers |-> IF x \in W THEN Put(All(plan.lay[x]), Result(r, x), mem[r][x])
                                  ELSE mem[r][x]]]
  BY <1>2, <1>4 DEF Kernel
<1>6. DOMAIN mem = Rank
  BY DEF Memory
<1>7. ASSUME NEW b \in Buffers PROVE Sized(mem[r][b], plan.lay[b]) /\ Sized(Result(r, b), plan.lay[b])
  BY MemorySized DEF Result, Sized, Part, Summand
<1>8. ASSUME NEW b \in Buffers
      PROVE  mem'[r][b] = IF b \in W THEN Result(r, b) ELSE mem[r][b]
  <2>1. mem'[r] = [x \in Buffers |-> IF x \in W THEN Put(All(plan.lay[x]), Result(r, x), mem[r][x])
                                     ELSE mem[r][x]]
    BY <1>5, <1>6
  <2>2. Put(All(plan.lay[b]), Result(r, b), mem[r][b]) = Result(r, b)
    BY <1>7, PutAll
  <2> QED BY <2>1, <2>2
<1>9. \A q \in Rank \ {r} : mem'[q] = mem[q]
  BY <1>5, <1>6
<1>10. ASSUME NEW q \in Rank, NEW b \in Buffers PROVE Sized(mem'[q][b], plan.lay[b])
  <2>1. CASE q = r
    BY <1>7, <1>8, <2>1
  <2>2. CASE q # r
    BY <1>9, <2>2, MemorySized
  <2> QED BY <2>1, <2>2
<1>11. Memory'
  <2>1. mem' = [q \in Rank |-> mem'[q]]
    BY <1>5, <1>6
  <2>2. ASSUME NEW q \in Rank PROVE mem'[q] = [b \in Buffers |-> mem'[q][b]]
    <3>1. CASE q = r
      BY <1>5, <1>6, <3>1
    <3>2. CASE q # r
      <4>1. mem'[q] = mem[q] /\ mem[q] = [b \in Buffers |-> mem[q][b]]
        BY <1>9, <3>2 DEF Memory
      <4> QED BY <4>1
    <3> QED BY <3>1, <3>2
  <2>3. mem' = [q \in Rank |-> [b \in Buffers |-> mem'[q][b]]]
    BY <2>1, <2>2
  <2> QED BY <1>10, <2>3 DEF Memory, Buffers, Sized
<1> QED BY <1>2, <1>8, <1>9, <1>11 DEF Touches

LEMMA OwnPartDoes ==
  ASSUME JobOK, RunInv, DataPlan, Memory, Shared, UNCHANGED plan, 0 \in Rank, ip[0] # 0,
         NEW j, j = writer[ip[0]].op, plan.ops[j].kind \in {"Scatter", "Gather"},
         plan.ops[j].pre >= 0, NEW b, b = plan.ops[j].outs[1], OwnPart(0)
  PROVE  /\ Touches(0, Writes(j)) /\ alias \subseteq alias'
         /\ alias' \subseteq alias \cup {x \in {b} : Shares(j)}
         /\ ~plan.benchmark /\ Shares(j) => b \in alias'
         /\ ~Shares(j) => Place(0, b) = b
<1>1. j \in OpsOf /\ OpAt(0) = plan.ops[j] /\ Runnable(plan)
  BY AtLine DEF RunInv, Emission
<1>2. b \in Buffers /\ Writes(j) = {b}
  BY <1>1, Converts
<1>3. ~Shares(j) => Place(0, b) = b
  BY <1>1, <1>2, PlaceWritten
<1>4. plan.ops[j].kind = "Scatter" => (Shares(j) <=> plan.ops[j].pre = 0)
  BY DEF Shares
<1>5. plan.ops[j].kind = "Gather" => ~Shares(j)
  BY DEF Shares
<1>6. CASE UNCHANGED mem
  <2>1. Touches(0, Writes(j))
    BY <1>6, NothingTouched
  <2> QED BY <1>1, <1>3, <1>4, <1>5, <1>6, <2>1 DEF OwnPart
<1>7. CASE ~Shares(j) /\ \E cells, data : Write(0, b, cells, data)
  <2>1. Touches(0, Writes(j))
    BY <1>2, <1>3, <1>7, WriteTouches
  <2> QED BY <1>1, <1>3, <1>4, <1>5, <1>7, <2>1 DEF OwnPart
<1> QED BY <1>1, <1>4, <1>5, <1>6, <1>7 DEF OwnPart

LEMMA LocalDoes ==
  ASSUME JobOK, RunInv, DataPlan, Memory, Shared, NEW r \in Rank, Local(r), UNCHANGED emitVars,
         NEW j, j = writer[ip[r]].op
  PROVE  /\ Doing(r) /\ Advance(r) /\ ~posted'[r] /\ ~got'[r]
         /\ alias' \subseteq alias \cup {x \in {plan.ops[j].outs[1]} : Shares(j)}
<1>1. /\ phase = "running" /\ ip[r] # 0 /\ UNCHANGED <<plan, iter>> /\ Advance(r)
      /\ plan.ops[j].kind \in {"Compute", "Scatter", "Gather", "Transform"}
      /\ plan.ops[j].kind \in {"Scatter", "Gather"} => r = 0 /\ plan.ops[j].pre >= 0
      /\ OpAt(r) = plan.ops[j]
  BY LocalTurn DEF Local, emitVars, OpAt
<1>2. /\ ~posted'[r] /\ ~got'[r]
      /\ \A q \in Rank \ {r} : posted'[q] = posted[q] /\ got'[q] = got[q]
  BY <1>1 DEF Advance, RunInv, Typed
<1>3. /\ Touches(r, Writes(j)) /\ alias \subseteq alias' /\ (r # 0 => alias' = alias)
      /\ alias' \subseteq alias \cup {x \in {plan.ops[j].outs[1]} : Shares(j)}
  <2>1. CASE plan.ops[j].kind = "Compute"
    <3>1. Kernel(r) /\ alias' = alias
      BY <1>1, <2>1 DEF Local, Kernel
    <3> QED BY <1>1, <2>1, <3>1, KernelWrites
  <2>2. CASE plan.ops[j].kind \in {"Scatter", "Gather"}
    <3>1. r = 0 /\ OwnPart(0)
      BY <1>1, <2>2 DEF Local
    <3> QED BY <1>1, <2>2, <3>1, OwnPartDoes
  <2>3. CASE plan.ops[j].kind = "Transform"
    <3>1. UNCHANGED <<mem, alias>>
      BY <1>1, <2>3 DEF Local
    <3> QED BY <1>1, <3>1, NothingTouched
  <2> QED BY <1>1, <2>1, <2>2, <2>3
<1> QED BY <1>1, <1>2, <1>3 DEF Doing

-----------------------------------------------------------------------------
(* What rank 0 stores stays right, in benchmark mode as well. *)
LEMMA SharedNext ==
  ASSUME Runnable(plan), DataPlan, Shared, UNCHANGED plan, NEW j \in OpsOf,
         alias' \subseteq alias \cup {x \in {plan.ops[j].outs[1]} : Shares(j)}
  PROVE  Shared'
<1>1. ASSUME NEW b \in alias' PROVE \E k \in OpsOf : Shares(k) /\ plan.ops[k].outs = <<b>>
  <2>1. CASE b \in alias
    BY <2>1 DEF Shared
  <2>2. CASE b \notin alias
    <3>1. b = plan.ops[j].outs[1] /\ Shares(j)
      BY <1>1, <2>2
    <3>2. plan.ops[j].outs = <<plan.ops[j].outs[1]>>
      BY <3>1, Converts DEF Shares
    <3> QED BY <3>1, <3>2
  <2> QED BY <2>1, <2>2
<1> QED BY <1>1 DEF Shared, OpsOf, Shares

Acts(r) == Post(r) \/ Receive(r) \/ Return(r) \/ Local(r)

LEMMA ActsDo ==
  ASSUME JobOK, RunInv, DataPlan, Memory, Shared, NEW r \in Rank, Acts(r), UNCHANGED emitVars,
         NEW j, j = writer[ip[r]].op
  PROVE  /\ Doing(r)
         /\ alias' \subseteq alias \cup {x \in {plan.ops[j].outs[1]} : Shares(j)}
<1>1. OpAt(r) = plan.ops[j]
  BY DEF OpAt
<1>2. CASE Post(r)
  BY <1>1, <1>2, PostDoes DEF Shares
<1> QED BY <1>2, ReceiveDoes, ReturnDoes, LocalDoes DEF Acts

LEMMA Updating ==
  ASSUME JobOK, RunInv, DataPlan, Covered, Memory, Shared, 0 \in Rank, Acts(0), UNCHANGED emitVars,
         NEW j, j = writer[ip[0]].op, ip[0] # 0, plan.ops[j].sgd
  PROVE  /\ Finished(0, j)'
         /\ \A t \in Writes(j) : mem'[0][t] = Part(t, Whole, 0, iter[0])
<1>1. j \in OpsOf /\ OpAt(0) = plan.ops[j] /\ InText(j) /\ Runnable(plan)
  BY AtLine DEF RunInv, Emission
<1>2. plan.ops[j].kind = "Compute" /\ Writes(j) \subseteq plan.states
  BY <1>1 DEF DataPlan, OpFlow
<1>3. Dests(0) \cup Sources(0) = {}
  BY <1>1, <1>2, Served
<1>4. Local(0)
  BY <1>3 DEF Acts, Post, CanPost, Receive, CanReceive, Return, CanReturn
<1>5. UNCHANGED <<plan, writer>>
  BY DEF emitVars
<1>6. Finished(0, j)'
  <2>1. ~(sub[0] < LastTurn(0)) /\ Advance(0)
    BY <1>4, LocalTurn DEF Local
  <2>2. \E x \in 1 .. Len(writer) : writer[x].op = j /\ Runs(RankRole(0), writer[x])
    BY <1>1, LineFor DEF RunInv
  <2> QED BY <1>1, <1>5, <2>1, <2>2, FinishedNext
<1>7. Kernel(0)
  BY <1>1, <1>2, <1>4 DEF Local
<1>8. ASSUME NEW t \in Writes(j) PROVE mem'[0][t] = Part(t, Whole, 0, iter[0])
  <2>1. mem'[0][t] = Result(0, t)
    BY <1>2, <1>5, <1>7, KernelWrites
  <2>2. plan.lay[t] = Whole /\ plan.of[t] = t
    BY <1>2, <1>8 DEF DataPlan, Tensors
  <2> QED BY <2>1, <2>2 DEF Result, Whole
<1> QED BY <1>6, <1>8

LEMMA StoredNext ==
  ASSUME JobOK, RunInv, DataPlan, Covered, Stored, NEW r \in Rank, Acts(r), UNCHANGED emitVars
  PROVE  Stored'
<1> PICK j : j = writer[ip[r]].op
  OBVIOUS
<1>1. /\ Doing(r)
      /\ alias' \subseteq alias \cup {x \in {plan.ops[j].outs[1]} : Shares(j)}
  BY ActsDo DEF Stored
<1>2. ip[r] # 0 /\ UNCHANGED plan /\ Memory'
  BY <1>1 DEF Doing, Touches
<1>3. j \in OpsOf /\ Runnable(plan)
  BY <1>2, AtLine DEF RunInv, Emission
<1>4. Shared'
  BY <1>1, <1>2, <1>3, SharedNext DEF Stored
<1>5. Weights'
  BY <1>1, <1>2, Updating, WeightsNext DEF Stored
<1> QED BY <1>2, <1>4, <1>5 DEF Stored

-----------------------------------------------------------------------------
(* What a part of a tensor holds, and of a sum. *)
LEMMA HeldAs ==
  ASSUME NEW r, NEW b, NEW n
  PROVE  /\ plan.lay[b] = -2 => Held(r, b, n) = Summand(plan.of[b], r, n)
         /\ plan.lay[b] \in {Whole, -1, 0, 1} => Held(r, b, n) = Part(plan.of[b], plan.lay[b], r, n)
  BY DEF Held, Whole

(* The operand of the op that a rank is at, when it is no kernel. *)
LEMMA OperandRead ==
  ASSUME JobOK, ShapesOK, DataInv, ~plan.benchmark, NEW r \in Rank, Running(r),
         NEW j, j = writer[ip[r]].op, plan.ops[j].kind # "Compute",
         NEW a, a = plan.ops[j].ins[1], a \notin plan.hollow, plan.lay[a] = Whole => r = 0
  PROVE  /\ plan.lay[a] = -2 => Read(r, OpAt(r).ins[1]) = Summand(plan.of[a], r, At(a, iter[r]))
         /\ plan.lay[a] \in {Whole, -1, 0, 1} =>
              Read(r, OpAt(r).ins[1]) = Part(plan.of[a], plan.lay[a], r, At(a, iter[r]))
<1>1. RunInv /\ DataPlan /\ ip[r] # 0
  BY DEF DataInv, Running
<1>2. j \in OpsOf /\ OpAt(r) = plan.ops[j] /\ Runnable(plan)
  BY <1>1, AtLine DEF RunInv, Emission
<1>3. a \in Reads(j)
  BY <1>1, <1>2, Converts
<1>4. Read(r, a) = Held(r, a, At(a, iter[r]))
  BY <1>3, OperandHeld
<1>5. OpAt(r).ins[1] = a
  BY <1>2
<1>6. plan.lay[a] = -2 => Held(r, a, At(a, iter[r])) = Summand(plan.of[a], r, At(a, iter[r]))
  BY HeldAs
<1>7. plan.lay[a] \in {Whole, -1, 0, 1} =>
        Held(r, a, At(a, iter[r])) = Part(plan.of[a], plan.lay[a], r, At(a, iter[r]))
  BY HeldAs
<1> QED BY <1>4, <1>5, <1>6, <1>7, Zenon

(* A message that is sent carries what it is to carry. *)
LEMMA ScatterCarries ==
  ASSUME JobOK, ShapesOK, DataInv, ~plan.benchmark, NEW r \in Rank, Running(r), NEW d \in Rank,
         NEW j \in OpsOf, j = writer[ip[r]].op, plan.ops[j].kind = "Scatter", r = 0
  PROVE  Message(r, d).data = Part(plan.of[plan.ops[j].outs[1]], plan.ops[j].pre, d,
                                   At(plan.ops[j].outs[1], iter[r]))
<1>1. RunInv /\ DataPlan /\ Runnable(plan) /\ OpAt(r) = plan.ops[j]
  BY DEF DataInv, RunInv, Emission, OpAt
<1>2. /\ plan.ops[j].pre \in {-1, 0, 1} /\ plan.ops[j].ins[1] = plan.of[plan.ops[j].outs[1]]
      /\ plan.of[plan.ops[j].ins[1]] = plan.ops[j].ins[1] /\ plan.lay[plan.ops[j].ins[1]] = Whole
      /\ plan.ops[j].ins[1] \notin plan.hollow
  BY <1>1, Scattering
<1>3. At(plan.ops[j].outs[1], iter[r]) = At(plan.ops[j].ins[1], iter[r])
  BY <1>2 DEF At
<1>4. Read(r, OpAt(r).ins[1])
        = Part(plan.of[plan.ops[j].ins[1]], Whole, 0, At(plan.ops[j].ins[1], iter[r]))
  BY <1>2, OperandRead
<1>5. OpAt(r).kind = "Scatter" /\ OpAt(r).pre \in {-1, 0, 1}
  BY <1>1, <1>2
<1>6. Message(r, d).data
        = Part(plan.of[plan.ops[j].ins[1]], OpAt(r).pre, d, At(plan.ops[j].ins[1], iter[r]))
  BY <1>4, <1>5, ScatterDelivers
<1> QED BY <1>1, <1>2, <1>3, <1>6

LEMMA GatherCarries ==
  ASSUME JobOK, ShapesOK, DataInv, ~plan.benchmark, NEW r \in Rank, Running(r), NEW d \in Rank,
         NEW j \in OpsOf, j = writer[ip[r]].op, plan.ops[j].kind = "Gather"
  PROVE  Message(r, d).data = Gift(plan.of[plan.ops[j].ins[1]], Whole, plan.ops[j].pre, r, d,
                                   At(plan.ops[j].ins[1], iter[r]))
<1>1. RunInv /\ DataPlan /\ Runnable(plan) /\ OpAt(r) = plan.ops[j]
  BY DEF DataInv, RunInv, Emission, OpAt
<1>2. /\ plan.ops[j].pre \in {0, 1} /\ plan.lay[plan.ops[j].ins[1]] = plan.ops[j].pre
      /\ plan.ops[j].ins[1] \notin plan.hollow
  BY <1>1, Joining
<1>3. plan.lay[plan.ops[j].ins[1]] # Whole
  BY <1>2 DEF Whole
<1>4. Read(r, OpAt(r).ins[1])
        = Part(plan.of[plan.ops[j].ins[1]], plan.ops[j].pre, r, At(plan.ops[j].ins[1], iter[r]))
  BY <1>2, <1>3, OperandRead
<1>5. Makes(OpAt(r), Whole, plan.ops[j].pre)
  BY <1>1, <1>2 DEF Makes, Exchange
<1> QED BY <1>4, <1>5, ExchangeSends

LEMMA ReduceCarries ==
  ASSUME JobOK, ShapesOK, DataInv, ~plan.benchmark, NEW r \in Rank, Running(r), NEW d \in Rank,
         NEW j \in OpsOf, j = writer[ip[r]].op, plan.ops[j].kind = "Reduce"
  PROVE  Message(r, d).data = Summand(plan.of[plan.ops[j].ins[1]], r,
                                      At(plan.ops[j].ins[1], iter[r]))
<1>1. RunInv /\ DataPlan /\ Runnable(plan) /\ OpAt(r) = plan.ops[j]
  BY DEF DataInv, RunInv, Emission, OpAt
<1>2. plan.lay[plan.ops[j].ins[1]] = -2 /\ plan.ops[j].ins[1] \notin plan.hollow
  BY <1>1, Joining
<1>3. plan.lay[plan.ops[j].ins[1]] # Whole
  BY <1>2 DEF Whole
<1>4. Read(r, OpAt(r).ins[1])
        = Summand(plan.of[plan.ops[j].ins[1]], r, At(plan.ops[j].ins[1], iter[r]))
  BY <1>2, <1>3, OperandRead
<1>5. OpAt(r).kind = "Reduce"
  BY <1>1
<1>6. Message(r, d).data = Read(r, OpAt(r).ins[1])
  BY <1>5 DEF Message
<1> QED BY <1>4, <1>6

LEMMA TransformCarries ==
  ASSUME JobOK, ShapesOK, DataInv, ~plan.benchmark, NEW r \in Rank, Running(r), NEW d \in Rank,
         NEW j \in OpsOf, j = writer[ip[r]].op, plan.ops[j].kind = "Transform",
         plan.ops[j].outs[1] \notin plan.hollow
  PROVE  Message(r, d).data = Gift(plan.of[plan.ops[j].outs[1]], plan.ops[j].post,
                                   plan.ops[j].pre, r, d, At(plan.ops[j].outs[1], iter[r]))
<1>1. RunInv /\ DataPlan /\ Runnable(plan) /\ OpAt(r) = plan.ops[j]
  BY DEF DataInv, RunInv, Emission, OpAt
<1>2. /\ plan.lay[plan.ops[j].ins[1]] = plan.ops[j].pre /\ plan.ops[j].pre \in {0, 1}
      /\ plan.ops[j].post \in {0, 1} /\ <<plan.ops[j].post, plan.ops[j].pre>> \in Exchange
      /\ plan.of[plan.ops[j].ins[1]] = plan.of[plan.ops[j].outs[1]]
      /\ plan.ops[j].ins[1] \notin plan.hollow
  BY <1>1, Transforming
<1>3. plan.lay[plan.ops[j].ins[1]] # Whole
  BY <1>2 DEF Whole
<1>4. Read(r, OpAt(r).ins[1])
        = Part(plan.of[plan.ops[j].ins[1]], plan.ops[j].pre, r, At(plan.ops[j].ins[1], iter[r]))
  BY <1>2, <1>3, OperandRead
<1>5. At(plan.ops[j].outs[1], iter[r]) = At(plan.ops[j].ins[1], iter[r])
  BY <1>2 DEF At
<1>6. Makes(OpAt(r), plan.ops[j].post, plan.ops[j].pre)
  BY <1>1, <1>2 DEF Makes
<1>7. Message(r, d).data = Gift(plan.of[plan.ops[j].ins[1]], plan.ops[j].post,
                                plan.ops[j].pre, r, d, At(plan.ops[j].ins[1], iter[r]))
  <2>1. PICK t, v, lay, axis :
          /\ t = plan.of[plan.ops[j].ins[1]] /\ v = At(plan.ops[j].ins[1], iter[r])
          /\ lay = plan.ops[j].post /\ axis = plan.ops[j].pre
    OBVIOUS
  <2>2. Makes(OpAt(r), lay, axis) /\ Read(r, OpAt(r).ins[1]) = Part(t, axis, r, v)
    BY <1>4, <1>6, <2>1
  <2>3. Message(r, d).data = Gift(t, lay, axis, r, d, v)
    BY <2>2, ExchangeSends
  <2> QED BY <2>1, <2>3
<1> QED BY <1>2, <1>5, <1>7

LEMMA PostCarries ==
  ASSUME JobOK, ShapesOK, DataInv, ~plan.benchmark, NEW r \in Rank, Post(r), NEW d \in Dests(r)
  PROVE  Carries(r, d, Now(r), Message(r, d).data)
<1>1. /\ RunInv /\ DataPlan /\ Running(r) /\ ip[r] # 0 /\ Dests(r) \cup Sources(r) # {}
  BY DEF DataInv, Post, CanPost, Running
<1>2. PICK j \in OpsOf : j = writer[ip[r]].op /\ OpAt(r) = plan.ops[j]
  BY <1>1, AtLine DEF RunInv
<1>3. d \in Rank
  BY <1>1, Turns DEF RunInv
<1>4. Now(r)[1] = iter[r] /\ Now(r)[2] = j
  BY <1>2 DEF Now
<1>5. plan.ops[j].kind = "Scatter" => r = 0
  BY <1>1, <1>2, Served
<1>6. CASE plan.ops[j].kind = "Scatter"
  BY <1>1, <1>2, <1>3, <1>4, <1>5, <1>6, ScatterCarries DEF Carries
<1>7. CASE plan.ops[j].kind = "Gather"
  BY <1>1, <1>2, <1>3, <1>4, <1>7, GatherCarries DEF Carries
<1>8. CASE plan.ops[j].kind = "Reduce"
  BY <1>1, <1>2, <1>3, <1>4, <1>8, ReduceCarries DEF Carries
<1>9. CASE plan.ops[j].kind = "Transform"
  BY <1>1, <1>2, <1>3, <1>4, <1>9, TransformCarries DEF Carries
<1> QED BY <1>4, <1>6, <1>7, <1>8, <1>9 DEF Carries

-----------------------------------------------------------------------------
(* What has arrived, by the turn a rank is at; a receive adds its sources. *)
LEMMA ArrivedAs ==
  ASSUME JobOK, RunInv, NEW r \in Rank, ip[r] # 0, NEW j, j = writer[ip[r]].op, NEW s \in Rank
  PROVE  s \in Arrived(r) <=>
           /\ Transfer(s, r, j)
           /\ \/ sub[r] > RecvTurn(plan.ops[j], s, r)
              \/ sub[r] = RecvTurn(plan.ops[j], s, r) /\ got[r]
<1>1. iter[r] \in Nat /\ j \in Nat
  BY AtLine DEF RunInv, Typed
<1>2. HasReceived(s, r, iter[r], j) <=>
        \/ sub[r] > RecvTurn(plan.ops[j], s, r)
        \/ sub[r] = RecvTurn(plan.ops[j], s, r) /\ got[r]
  BY <1>1 DEF HasReceived, Past
<1> QED BY <1>2 DEF Arrived

LEMMA ArrivedReceive ==
  ASSUME JobOK, RunInv, NEW r \in Rank, Receive(r), UNCHANGED emitVars
  PROVE  Arrived(r)' = Arrived(r) \cup Sources(r)
<1>1. /\ ip[r] # 0 /\ ~got[r] /\ UNCHANGED <<plan, writer, ip, sub, iter>>
      /\ got' = [got EXCEPT ![r] = TRUE]
  BY DEF Receive, CanReceive, Running, emitVars
<1> PICK j : j = writer[ip[r]].op
  OBVIOUS
<1>2. got'[r] /\ iter[r] \in Nat /\ j \in Nat /\ sub[r] \in Nat
  BY <1>1, AtLine DEF RunInv, Typed
<1>3. ASSUME NEW s \in Rank
      PROVE  (Transfer(s, r, j) /\ HasReceived(s, r, iter[r], j))' <=>
               s \in Arrived(r) \/ s \in Sources(r)
  <2>1. Transfer(s, r, j)' <=> Transfer(s, r, j)
    BY <1>1 DEF Transfer, OpsOf, InText, Sends
  <2>2. RecvTurn(plan.ops[j], s, r)' = RecvTurn(plan.ops[j], s, r)
    BY <1>1 DEF RecvTurn, Around
  <2>3. HasReceived(s, r, iter[r], j)' <=>
          \/ sub[r] > RecvTurn(plan.ops[j], s, r)
          \/ sub[r] = RecvTurn(plan.ops[j], s, r)
    BY <1>1, <1>2, <2>2 DEF HasReceived, Past
  <2>4. s \in Sources(r) <=> Transfer(s, r, j) /\ RecvTurn(plan.ops[j], s, r) = sub[r]
    BY <1>1, Turns DEF RunInv
  <2>5. s \in Arrived(r) <=> Transfer(s, r, j) /\ sub[r] > RecvTurn(plan.ops[j], s, r)
    BY <1>1, ArrivedAs
  <2> QED BY <2>1, <2>3, <2>4, <2>5
<1>4. Sources(r) \subseteq Rank /\ Arrived(r) \subseteq Rank
  BY <1>1, Turns DEF RunInv, Arrived
<1>5. Arrived(r)' = {s \in Rank : (Transfer(s, r, j) /\ HasReceived(s, r, iter[r], j))'}
  BY <1>1 DEF Arrived
<1> QED BY <1>3, <1>4, <1>5

LEMMA ReceivesAs ==
  ASSUME UNCHANGED <<plan, writer, iter>>, NEW r, ip'[r] = ip[r],
         NEW j, j = writer[ip[r]].op, NEW b, b = plan.ops[j].outs[1]
  PROVE  Receives(r)' <=>
           /\ Joins(r) \/ Exchanges(r) =>
                Filled(mem'[r][b], plan.of[b], plan.lay[b], plan.ops[j].pre, Arrived(r)', r,
                       At(b, iter[r]))
           /\ Accepts(r) /\ got'[r] => mem'[r][b] = Held(r, b, At(b, iter[r]))
<1>1. OpAt(r)' = OpAt(r) /\ OpAt(r) = plan.ops[j]
  BY DEF OpAt
<1>2. /\ Joins(r)' <=> Joins(r)
      /\ Exchanges(r)' <=> Exchanges(r)
      /\ Accepts(r)' <=> Accepts(r)
  BY <1>1 DEF Joins, Exchanges, Moves, Accepts
<1>3. ASSUME NEW x, NEW S
      PROVE  /\ Filled(x, plan.of[b], plan.lay[b], plan.ops[j].pre, S, r, At(b, iter[r]))'
                  <=> Filled(x, plan.of[b], plan.lay[b], plan.ops[j].pre, S, r, At(b, iter[r]))
             /\ Held(r, b, At(b, iter[r]))' = Held(r, b, At(b, iter[r]))
  BY DEF Filled, Block, Held, At, Part, Summand, Size, Shape, Global, Stamp, Vector, Count, Stride
<1>4. PICK x, S : x = mem'[r][b] /\ S = Arrived(r)'
  OBVIOUS
<1> QED BY <1>1, <1>2, <1>3, <1>4 DEF Receives, Right

(* A block that arrives fills its place in what the rank is receiving. *)
LEMMA BlockReceived ==
  ASSUME JobOK, ShapesOK, DataInv, ~plan.benchmark, NEW r \in Rank, Receive(r),
         UNCHANGED emitVars, NEW j \in OpsOf, j = writer[ip[r]].op, NEW b, b = plan.ops[j].outs[1],
         NEW t, NEW v, NEW lay, NEW axis, Makes(OpAt(r), lay, axis),
         Filled(mem[r][b], t, lay, axis, Arrived(r), r, v),
         \A s \in Sources(r) : Taken(r, s).data = Gift(t, lay, axis, s, r, v),
         \A s, q \in Sources(r) : s = q
  PROVE  Filled(mem'[r][b], t, lay, axis, Arrived(r)', r, v)
<1>1. RunInv /\ DataPlan /\ Memory /\ Shared /\ ip[r] # 0
  BY DEF DataInv, Stored, Receive, CanReceive, Running
<1>2. OpAt(r).outs[1] = b
  BY DEF OpAt
<1>3. Place(r, OpAt(r).outs[1]) = b /\ b \in Buffers /\ \E s \in Sources(r) : Received(r, s)
  BY <1>1, <1>2, ReceiveDoes
<1>4. PICK s \in Sources(r) : Received(r, s)
  BY <1>3
<1>5. s \in Rank /\ Sources(r) \subseteq Rank
  BY <1>1, Turns DEF RunInv, JobOK, Rank
<1>6. r \in DOMAIN mem /\ b \in DOMAIN mem[r]
  BY <1>1, <1>3 DEF Memory
<1>7. PICK S \in SUBSET Rank : S = Arrived(r)
  BY DEF Arrived
<1>8. Filled(mem'[r][b], t, lay, axis, S \cup {s}, r, v)
  BY <1>3, <1>4, <1>5, <1>6, <1>7, ExchangeFills
<1>9. Arrived(r)' = S \cup Sources(r)
  BY <1>1, <1>7, ArrivedReceive
<1>10. Sources(r) = {s}
  BY <1>4
<1> QED BY <1>8, <1>9, <1>10

LEMMA GatherReceives ==
  ASSUME JobOK, ShapesOK, DataInv, ~plan.benchmark, NEW r \in Rank, Receive(r),
         UNCHANGED emitVars, NEW j \in OpsOf, j = writer[ip[r]].op, plan.ops[j].kind = "Gather",
         Receives(r)
  PROVE  Receives(r)'
<1>1. /\ RunInv /\ DataPlan /\ Carrying /\ Runnable(plan) /\ ip[r] # 0 /\ Sources(r) # {}
      /\ UNCHANGED <<plan, writer, iter, ip>>
  BY DEF DataInv, Flow, RunInv, Emission, Receive, CanReceive, Running, emitVars
<1>2. OpAt(r) = plan.ops[j]
  BY DEF OpAt
<1>3. r = 0 /\ Side(r) = "master"
  BY <1>1, <1>2, Served
<1>4. Joins(r) /\ ~Accepts(r)
  BY <1>2, <1>3 DEF Joins, Accepts
<1>5. PICK b, axis, v : b = plan.ops[j].outs[1] /\ axis = plan.ops[j].pre /\ v = At(b, iter[r])
  OBVIOUS
<1>6. PICK a : a = plan.ops[j].ins[1]
  OBVIOUS
<1>7. /\ axis \in {0, 1} /\ b = plan.of[a] /\ plan.of[b] = b /\ plan.lay[b] = Whole
  BY <1>1, <1>5, <1>6, Joining
<1>8. At(a, iter[r]) = v
  BY <1>5, <1>7 DEF At
<1>9. Makes(OpAt(r), Whole, axis)
  BY <1>2, <1>5, <1>7 DEF Makes, Exchange
<1>10. ASSUME NEW s \in Sources(r) PROVE Taken(r, s).data = Gift(b, Whole, axis, s, r, v)
  <2>1. Carries(s, r, Now(r), Taken(r, s).data)
    BY <1>1, TakenCarries
  <2> QED BY <1>5, <1>6, <1>7, <1>8, <2>1 DEF Carries, Now
<1>11. Filled(mem[r][b], b, Whole, axis, Arrived(r), r, v)
  BY <1>2, <1>4, <1>5, <1>7 DEF Receives
<1>12. \A s, q \in Sources(r) : s = q
  BY <1>2, <1>3 DEF Sources
<1>13. Filled(mem'[r][b], b, Whole, axis, Arrived(r)', r, v)
  BY <1>5, <1>9, <1>10, <1>11, <1>12, BlockReceived
<1> QED BY <1>1, <1>4, <1>5, <1>7, <1>13, ReceivesAs

LEMMA TransformReceives ==
  ASSUME JobOK, ShapesOK, DataInv, ~plan.benchmark, NEW r \in Rank, Receive(r),
         UNCHANGED emitVars, NEW j \in OpsOf, j = writer[ip[r]].op,
         plan.ops[j].kind = "Transform", Receives(r)
  PROVE  Receives(r)'
<1>1. /\ RunInv /\ DataPlan /\ Carrying /\ Runnable(plan) /\ ip[r] # 0 /\ Sources(r) # {}
      /\ UNCHANGED <<plan, writer, iter, ip>>
  BY DEF DataInv, Flow, RunInv, Emission, Receive, CanReceive, Running, emitVars
<1>2. OpAt(r) = plan.ops[j]
  BY DEF OpAt
<1>3. Moves(r) /\ ~Joins(r) /\ ~Accepts(r)
  BY <1>1, <1>2, Served DEF Joins, Accepts
<1>4. PICK b, axis, lay : b = plan.ops[j].outs[1] /\ axis = plan.ops[j].pre /\ lay = plan.ops[j].post
  OBVIOUS
<1>5. PICK v, t : v = At(b, iter[r]) /\ t = plan.of[b]
  OBVIOUS
<1>6. CASE b \in plan.hollow
  <2>1. ~Exchanges(r)
    BY <1>2, <1>4, <1>6 DEF Exchanges
  <2> QED BY <1>1, <1>3, <1>4, <2>1, ReceivesAs
<1>7. CASE b \notin plan.hollow
  <2>1. Exchanges(r)
    BY <1>2, <1>3, <1>4, <1>7 DEF Exchanges
  <2>2. /\ plan.lay[b] = lay /\ lay \in {0, 1} /\ <<lay, axis>> \in Exchange
    BY <1>1, <1>4, <1>7, Transforming
  <2>3. Makes(OpAt(r), lay, axis)
    BY <1>2, <1>4, <2>2 DEF Makes
  <2>4. ASSUME NEW s \in Sources(r) PROVE Taken(r, s).data = Gift(t, lay, axis, s, r, v)
    <3>1. Carries(s, r, Now(r), Taken(r, s).data)
      BY <1>1, TakenCarries
    <3> QED BY <1>4, <1>5, <1>7, <3>1 DEF Carries, Now
  <2>5. Filled(mem[r][b], t, lay, axis, Arrived(r), r, v)
    BY <1>2, <1>4, <1>5, <2>1, <2>2 DEF Receives
  <2>6. \A s, q \in Sources(r) : s = q
    BY <1>2 DEF Sources
  <2>7. Filled(mem'[r][b], t, lay, axis, Arrived(r)', r, v)
    BY <1>4, <2>3, <2>4, <2>5, <2>6, BlockReceived
  <2> QED BY <1>1, <1>3, <1>4, <1>5, <2>2, <2>7, ReceivesAs
<1> QED BY <1>6, <1>7

LEMMA ScatterReceives ==
  ASSUME JobOK, ShapesOK, DataInv, ~plan.benchmark, NEW r \in Rank, Receive(r),
         UNCHANGED emitVars, NEW j \in OpsOf, j = writer[ip[r]].op, plan.ops[j].kind = "Scatter"
  PROVE  Receives(r)'
<1>1. /\ RunInv /\ DataPlan /\ Memory /\ Shared /\ Carrying /\ Runnable(plan) /\ ip[r] # 0
      /\ Sources(r) # {} /\ UNCHANGED <<plan, writer, iter, ip>>
  BY DEF DataInv, Flow, Stored, RunInv, Emission, Receive, CanReceive, Running, emitVars
<1>2. OpAt(r) = plan.ops[j]
  BY DEF OpAt
<1>3. ~Joins(r) /\ ~Exchanges(r)
  BY <1>2 DEF Joins, Exchanges, Moves
<1>4. PICK b, v : b = plan.ops[j].outs[1] /\ v = At(b, iter[r])
  OBVIOUS
<1>5. plan.lay[b] = plan.ops[j].pre /\ plan.ops[j].pre \in {-1, 0, 1}
  BY <1>1, <1>4, Scattering
<1>6. Place(r, b) = b /\ b \in Buffers /\ \E s \in Sources(r) : Received(r, s)
  BY <1>1, <1>2, <1>4, ReceiveDoes
<1>7. PICK s \in Sources(r) : Received(r, s)
  BY <1>6
<1>8. Taken(r, s).data = Part(plan.of[b], plan.lay[b], r, v)
  <2>1. Carries(s, r, Now(r), Taken(r, s).data)
    BY <1>1, TakenCarries
  <2> QED BY <1>4, <1>5, <2>1 DEF Carries, Now
<1>9. Held(r, b, v) = Part(plan.of[b], plan.lay[b], r, v)
  BY <1>5, HeldAs
<1>10. PICK data : data = Held(r, b, v) /\ data = Taken(r, s).data
  BY <1>8, <1>9
<1>11. Write(r, b, All(plan.lay[b]), data)
  BY <1>2, <1>4, <1>7, <1>10 DEF Received
<1>12. mem'[r][b] = Put(All(plan.lay[b]), data, mem[r][b])
  BY <1>1, <1>6, <1>11, WriteTouches
<1>13. Sized(mem[r][b], plan.lay[b]) /\ Sized(data, plan.lay[b])
  BY <1>1, <1>6, <1>10, MemorySized, HeldSized
<1>14. mem'[r][b] = data
  BY <1>12, <1>13, PutAll
<1> QED BY <1>1, <1>3, <1>4, <1>10, <1>14, ReceivesAs

LEMMA ReduceReceives ==
  ASSUME JobOK, ShapesOK, DataInv, ~plan.benchmark, NEW r \in Rank, Receive(r),
         UNCHANGED emitVars, NEW j \in OpsOf, j = writer[ip[r]].op, plan.ops[j].kind = "Reduce"
  PROVE  Receives(r)'
<1>1. /\ RunInv /\ DataPlan /\ Memory /\ Shared /\ Carrying /\ Runnable(plan) /\ ip[r] # 0
      /\ Sources(r) # {} /\ UNCHANGED <<plan, writer, iter, ip>> /\ Running(r)
  BY DEF DataInv, Flow, Stored, RunInv, Emission, Receive, CanReceive, Running, emitVars
<1>2. OpAt(r) = plan.ops[j]
  BY DEF OpAt
<1>3. ~Joins(r) /\ ~Exchanges(r) /\ r = 0 /\ Sources(r) = Others
  BY <1>1, <1>2, Served DEF Joins, Exchanges, Moves, Sources
<1>4. PICK b, v, a : b = plan.ops[j].outs[1] /\ v = At(b, iter[r]) /\ a = plan.ops[j].ins[1]
  OBVIOUS
<1>5. /\ plan.lay[a] = -2 /\ a \notin plan.hollow /\ plan.of[a] = b
      /\ plan.of[b] = b /\ plan.lay[b] = Whole
  BY <1>1, <1>4, Joining
<1>6. At(a, iter[r]) = v
  BY <1>4, <1>5 DEF At
<1>7. Place(r, b) = b /\ b \in Buffers /\ \E s \in Sources(r) : Received(r, s)
  BY <1>1, <1>2, <1>4, ReceiveDoes
<1>8. Write(r, b, All(-2), Sum(r, b))
  BY <1>2, <1>4, <1>5, <1>7 DEF Received
<1>9. Read(r, OpAt(r).ins[1]) = Summand(b, 0, v)
  <2>1. plan.lay[a] # Whole /\ plan.ops[j].kind # "Compute"
    BY <1>5 DEF Whole
  <2>2. Read(r, OpAt(r).ins[1]) = Summand(plan.of[a], r, At(a, iter[r]))
    BY <1>1, <1>4, <1>5, <2>1, OperandRead
  <2> QED BY <1>3, <1>5, <1>6, <2>2
<1>10. ASSUME NEW s \in Others PROVE Taken(r, s).data = Summand(b, s, v)
  <2>1. Carries(s, r, Now(r), Taken(r, s).data)
    BY <1>1, <1>3, TakenCarries
  <2> QED BY <1>4, <1>5, <1>6, <2>1 DEF Carries, Now
<1>11. b \in Nat \ {0}
  BY <1>1, <1>7 DEF Buffers, DataPlan
<1>12. Sum(r, b) = Part(b, Whole, 0, v)
  BY <1>9, <1>10, <1>11, SumsMake
<1>13. PICK data : data = Held(r, b, v) /\ data = Sum(r, b)
  BY <1>3, <1>5, <1>12, HeldAs
<1>14. mem'[r][b] = Put(All(-2), data, mem[r][b])
  BY <1>1, <1>7, <1>8, <1>13, WriteTouches
<1>15. Sized(mem[r][b], plan.lay[b]) /\ Sized(data, plan.lay[b])
  BY <1>1, <1>7, <1>13, MemorySized, HeldSized
<1>16. Size(plan.lay[b]) = Size(-2)
  BY <1>5, Shapes
<1>17. mem'[r][b] = data
  <2>1. Sized(mem[r][b], -2) /\ Sized(data, -2)
    BY <1>15, <1>16 DEF Sized
  <2> QED BY <1>14, <2>1, PutAll
<1> QED BY <1>1, <1>3, <1>4, <1>13, <1>17, ReceivesAs

LEMMA ReceivesReceive ==
  ASSUME JobOK, ShapesOK, DataInv, ~plan.benchmark, NEW r \in Rank, Receive(r),
         UNCHANGED emitVars
  PROVE  Receives(r)'
<1>1. RunInv /\ ip[r] # 0 /\ Sources(r) # {} /\ Receives(r)
  BY DEF DataInv, Flow, Receiving, Receive, CanReceive, Running
<1>2. PICK j \in OpsOf : j = writer[ip[r]].op /\ OpAt(r) = plan.ops[j] /\ RunnableOp(OpAt(r))
  BY <1>1, AtLine DEF RunInv
<1>3. plan.ops[j].kind \in {"Scatter", "Gather", "Reduce", "Transform"}
  BY <1>1, <1>2, Served DEF RunnableOp, Kind
<1> QED BY <1>1, <1>2, <1>3, GatherReceives, TransformReceives, ScatterReceives, ReduceReceives

-----------------------------------------------------------------------------
(* A rank that leaves an op has made of it what it keeps. *)
LEMMA MadeAs ==
  ASSUME UNCHANGED <<plan, iter>>, NEW r, NEW j,
         \A b \in Writes(j) \ plan.hollow :
           (plan.lay[b] = Whole => r = 0) /\ ~(r = 0 /\ b \in alias') =>
             mem'[r][b] = Held(r, b, At(b, iter[r]))
  PROVE  MadeBy(r, j)'
<1>1. Writes(j)' = Writes(j)
  BY DEF Writes, Results
<1>2. ASSUME NEW b PROVE Held(r, b, At(b, iter[r]))' = Held(r, b, At(b, iter[r]))
  BY DEF Held, At, Part, Summand, Size, Shape, Global, Stamp
<1> QED BY <1>1, <1>2 DEF MadeBy, Right

(* A rank that is done with the turns of a Transform has a block of every rank. *)
LEMMA AllArrived ==
  ASSUME JobOK, RunInv, NEW r \in Rank, ip[r] # 0, NEW j \in OpsOf, j = writer[ip[r]].op,
         plan.ops[j].kind = "Transform", plan.ops[j].pre >= 0, ~plan.benchmark,
         ~(sub[r] < LastTurn(r)), got[r]
  PROVE  Arrived(r) = Rank
<1>1. sub[r] \in Nat /\ LastTurn(r) \in Int /\ Emission /\ InText(j)
  BY AtLine DEF RunInv, Typed, LastTurn, FirstTurn, JobOK
<1>2. ASSUME NEW s \in Rank PROVE s \in Arrived(r)
  <2>1. Transfer(s, r, j)
    BY <1>1 DEF Transfer, Sends
  <2>2. RecvTurn(plan.ops[j], s, r) <= LastTurn(r)
    BY <2>1, Turns DEF RunInv
  <2>3. RecvTurn(plan.ops[j], s, r) \in Nat
    BY <1>1, <2>1, Ends
  <2>4. sub[r] > RecvTurn(plan.ops[j], s, r) \/ sub[r] = RecvTurn(plan.ops[j], s, r)
    BY <1>1, <2>2, <2>3
  <2> QED BY <2>1, <2>4, ArrivedAs
<1> QED BY <1>2 DEF Arrived

LEMMA TransformMade ==
  ASSUME JobOK, ShapesOK, DataInv, ~plan.benchmark, NEW r \in Rank, Running(r),
         NEW j \in OpsOf, j = writer[ip[r]].op, plan.ops[j].kind = "Transform",
         ~(sub[r] < LastTurn(r)), Moves(r) => got[r],
         NEW b \in Writes(j), b \notin plan.hollow
  PROVE  mem[r][b] = Held(r, b, At(b, iter[r]))
<1>1. RunInv /\ DataPlan /\ Runnable(plan) /\ ip[r] # 0 /\ Receives(r) /\ OpAt(r) = plan.ops[j]
  BY DEF DataInv, RunInv, Emission, Running, Flow, Receiving, OpAt
<1>2. b = plan.ops[j].outs[1]
  BY <1>1, Converts
<1>3. /\ plan.ops[j].pre \in {0, 1} /\ plan.lay[b] = plan.ops[j].post /\ plan.lay[b] \in {0, 1}
      /\ <<plan.ops[j].post, plan.ops[j].pre>> \in Exchange
  BY <1>1, <1>2, Transforming
<1>4. PICK axis, lay, t, v :
        axis = plan.ops[j].pre /\ lay = plan.lay[b] /\ t = plan.of[b] /\ v = At(b, iter[r])
  OBVIOUS
<1>5. Moves(r) /\ Exchanges(r)
  BY <1>1, <1>2, <1>3 DEF Moves, Exchanges
<1>6. Arrived(r) = Rank
  BY <1>1, <1>3, <1>5, AllArrived
<1>7. Filled(mem[r][b], t, lay, axis, Rank, r, v)
  BY <1>1, <1>2, <1>4, <1>5, <1>6 DEF Receives
<1>8. mem[r][b] = Part(t, lay, r, v)
  BY <1>3, <1>4, <1>7, AllFilled
<1> QED BY <1>3, <1>4, <1>8, HeldAs

(* Rank 0 does not serve in the turn after it has served the others. *)
LEMMA ServesNone ==
  ASSUME JobOK, RunInv, NEW r \in Rank, ip[r] # 0, ~(sub[r] < LastTurn(r)),
         Side(r) = "master", OpAt(r).pre >= 0, OpAt(r).kind \in {"Scatter", "Gather"}
  PROVE  Dests(r) \cup Sources(r) = {}
<1>1. LastTurn(r) = NProcs
  BY DEF LastTurn
<1>2. sub[r] = NProcs
  BY <1>1 DEF RunInv, Typed, Control, JobOK
<1>3. {sub[r]} \cap Others = {}
  BY <1>2 DEF Others, Rank, JobOK
<1> QED BY <1>3 DEF Dests, Sources, Moves

LEMMA ReturnShares ==
  ASSUME JobOK, DataInv, ~plan.benchmark, 0 \in Rank, Return(0),
         NEW j \in OpsOf, j = writer[ip[0]].op, ~(sub[0] < LastTurn(0)),
         plan.ops[j].kind = "Scatter"
  PROVE  plan.ops[j].outs[1] \in alias
<1>1. /\ RunInv /\ DataPlan /\ Runnable(plan) /\ Running(0) /\ ip[0] # 0 /\ Sharing
      /\ Dests(0) \cup Sources(0) # {}
      /\ Dests(0) # {} => posted[0]
  BY DEF DataInv, RunInv, Emission, Return, CanReturn, Running, Flow, Sent
<1>2. OpAt(0) = plan.ops[j] /\ InText(j) /\ iter[0] > 0
  BY <1>1, AtOps DEF DataInv
<1>3. Side(0) = "master" /\ Sources(0) = {}
  BY <1>1, <1>2, Served
<1>4. plan.ops[j].pre \in {-1, 0, 1}
  BY <1>1, Scattering
<1>5. plan.ops[j].pre = -1
  BY <1>1, <1>2, <1>3, <1>4, ServesNone
<1>6. Shares(j) /\ posted[0]
  BY <1>1, <1>3, <1>5 DEF Shares
<1> QED BY <1>1, <1>2, <1>5, <1>6 DEF Sharing

LEMMA ReturnMade ==
  ASSUME JobOK, ShapesOK, DataInv, ~plan.benchmark, NEW r \in Rank, Return(r),
         UNCHANGED emitVars, NEW j \in OpsOf, j = writer[ip[r]].op, ~(sub[r] < LastTurn(r)),
         NEW b \in Writes(j), b \notin plan.hollow, plan.lay[b] = Whole => r = 0,
         ~(r = 0 /\ b \in alias)
  PROVE  mem[r][b] = Held(r, b, At(b, iter[r]))
<1>1. /\ RunInv /\ DataPlan /\ Runnable(plan) /\ Running(r) /\ ip[r] # 0 /\ Receives(r)
      /\ Dests(r) \cup Sources(r) # {}
      /\ Sources(r) # {} => got[r]
  BY DEF DataInv, RunInv, Emission, Return, CanReturn, Running, Flow, Receiving
<1>2. /\ OpAt(r) = plan.ops[j] /\ RunnableOp(plan.ops[j])
  BY <1>1, AtOps DEF DataInv
<1>3. plan.ops[j].kind \in {"Scatter", "Gather", "Reduce", "Transform"}
  BY <1>1, <1>2, Served DEF RunnableOp, Kind
<1>4. b = plan.ops[j].outs[1]
  BY <1>1, <1>3, Converts
<1>5. CASE plan.ops[j].kind = "Scatter" /\ r = 0
  BY <1>4, <1>5, ReturnShares
<1>6. CASE plan.ops[j].kind = "Scatter" /\ r # 0
  <2>1. Sources(r) # {}
    BY <1>1, <1>2, <1>6, Served
  <2> QED BY <1>1, <1>2, <1>4, <1>6, <2>1 DEF Receives, Accepts, Right
<1>7. CASE plan.ops[j].kind = "Gather"
  <2>0. plan.ops[j].pre \in {0, 1} /\ plan.lay[plan.ops[j].outs[1]] = Whole
    BY <1>1, <1>7, Joining
  <2>1. r = 0 /\ plan.ops[j].pre >= 0
    BY <1>4, <2>0
  <2>2. Side(r) = "master"
    BY <1>1, <1>2, <1>7, <2>1, Served
  <2> QED BY <1>1, <1>2, <1>7, <2>1, <2>2, ServesNone
<1>8. CASE plan.ops[j].kind = "Reduce"
  <2>1. r = 0
    BY <1>1, <1>4, <1>8, Joining
  <2>2. Sources(r) # {}
    BY <1>1, <1>2, <1>8, <2>1, Served
  <2> QED BY <1>1, <1>2, <1>4, <1>8, <2>1, <2>2 DEF Receives, Accepts, Right
<1>9. CASE plan.ops[j].kind = "Transform"
  <2>1. Moves(r) => Sources(r) # {}
    BY <1>2, <1>9 DEF Moves, Sources
  <2> QED BY <1>1, <1>9, <2>1, TransformMade
<1> QED BY <1>3, <1>5, <1>6, <1>7, <1>8, <1>9

(* Rank 0's own turn, after it has served the others. *)
LEMMA OwnPartMade ==
  ASSUME JobOK, ShapesOK, DataInv, ~plan.benchmark, 0 \in Rank, Local(0), UNCHANGED emitVars,
         NEW j \in OpsOf, j = writer[ip[0]].op, plan.ops[j].kind \in {"Scatter", "Gather"},
         NEW b \in Writes(j), b \notin alias'
  PROVE  mem'[0][b] = Held(0, b, At(b, iter[0]))
<1>1. /\ RunInv /\ DataPlan /\ Memory /\ Shared /\ Runnable(plan) /\ Running(0) /\ ip[0] # 0
      /\ Receives(0) /\ OpAt(0) = plan.ops[j] /\ UNCHANGED plan
  BY DEF DataInv, Stored, RunInv, Emission, Local, CanCompute, Running, Flow, Receiving, OpAt,
         emitVars
<1>2. /\ InText(j) /\ sub[0] = NProcs /\ plan.ops[j].pre >= 0 /\ OwnPart(0)
  <2>1. InText(j)
    BY <1>1, AtLine DEF RunInv
  <2>2. sub[0] = NProcs /\ plan.ops[j].pre >= 0
    BY <1>1, LocalTurn DEF Local
  <2>3. OwnPart(0)
    BY <1>1 DEF Local
  <2> QED BY <2>1, <2>2, <2>3
<1>3. b = plan.ops[j].outs[1] /\ b \in Buffers
  BY <1>1, Converts
<1>4. ~Shares(j) /\ Place(0, b) = b
  BY <1>1, <1>2, <1>3, OwnPartDoes
<1>5. CASE plan.ops[j].kind = "Scatter"
  <2>1. plan.lay[b] = plan.ops[j].pre /\ plan.ops[j].pre \in {-1, 0, 1}
    BY <1>1, <1>3, <1>5, Scattering
  <2>2. plan.ops[j].pre = 1
    BY <1>2, <1>4, <1>5, <2>1 DEF Shares
  <2>3. Message(0, 0).data = Part(plan.of[b], plan.lay[b], 0, At(b, iter[0]))
    BY <1>1, <1>3, <1>5, <2>1, ScatterCarries
  <2>4. Message(0, 0).data = Pick(Vector(<<Rows, Cols>>, 1, 0), Read(0, OpAt(0).ins[1]))
    BY <1>1, <1>5, <2>2 DEF Message
  <2>5. PICK data : data = Held(0, b, At(b, iter[0])) /\ data = Message(0, 0).data
    BY <2>1, <2>3, HeldAs
  <2>6. Write(0, b, All(plan.lay[b]), data)
    BY <1>1, <1>2, <1>3, <1>5, <2>1, <2>2, <2>4, <2>5 DEF OwnPart
  <2>7. mem'[0][b] = Put(All(plan.lay[b]), data, mem[0][b])
    BY <1>1, <1>3, <1>4, <2>6, WriteTouches
  <2>8. Sized(mem[0][b], plan.lay[b]) /\ Sized(data, plan.lay[b])
    BY <1>1, <1>3, <2>5, MemorySized, HeldSized
  <2> QED BY <2>5, <2>7, <2>8, PutAll
<1>6. CASE plan.ops[j].kind = "Gather"
  <2>1. PICK a, axis, v : a = plan.ops[j].ins[1] /\ axis = plan.ops[j].pre /\ v = At(b, iter[0])
    OBVIOUS
  <2>2. /\ axis \in {0, 1} /\ plan.lay[a] = axis /\ plan.of[a] = b /\ plan.of[b] = b
        /\ plan.lay[b] = Whole /\ a \notin plan.hollow
    BY <1>1, <1>3, <1>6, <2>1, Joining
  <2>3. Read(0, OpAt(0).ins[1]) = Part(b, axis, 0, v)
    <3>1. plan.lay[a] # Whole /\ plan.lay[a] \in {Whole, -1, 0, 1} /\ plan.ops[j].kind # "Compute"
      BY <1>6, <2>2 DEF Whole
    <3>2. At(a, iter[0]) = v
      BY <2>1, <2>2 DEF At
    <3>3. Read(0, OpAt(0).ins[1]) = Part(plan.of[a], plan.lay[a], 0, At(a, iter[0]))
      BY <1>1, <2>1, <2>2, <3>1, OperandRead
    <3> QED BY <2>2, <3>2, <3>3
  <2>4. PICK S \in SUBSET Rank : S = Arrived(0)
    BY DEF Arrived
  <2>5. Filled(mem[0][b], b, Whole, axis, S, 0, v)
    <3>1. Joins(0)
      BY <1>1, <1>6 DEF Joins
    <3> QED BY <1>1, <1>3, <2>1, <2>2, <2>4, <3>1 DEF Receives
  <2>6. S \cup {0} = Rank
    <3>1. ASSUME NEW s \in Rank \ {0} PROVE s \in Arrived(0)
      <4>1. Transfer(s, 0, j) /\ RecvTurn(plan.ops[j], s, 0) = s
        BY <1>2, <1>6 DEF Transfer, Sends, RecvTurn
      <4>2. sub[0] > s
        BY <1>2 DEF Rank, JobOK
      <4> QED BY <1>1, <4>1, <4>2, ArrivedAs
    <3> QED BY <2>4, <3>1
  <2>7. 0 \in DOMAIN mem /\ b \in DOMAIN mem[0]
    BY <1>1, <1>3 DEF Memory
  <2>8. b = Place(0, OpAt(0).outs[1]) /\ OpAt(0).kind = "Gather" /\ OpAt(0).pre = axis
    BY <1>1, <1>3, <1>4, <1>6, <2>1
  <2>9. Filled(mem'[0][b], b, Whole, axis, S \cup {0}, 0, v)
    BY <1>2, <2>2, <2>3, <2>5, <2>7, <2>8, OwnTurnFills
  <2>10. <<Whole, axis>> \in Exchange
    BY <2>2 DEF Exchange
  <2>11. mem'[0][b] = Part(b, Whole, 0, v)
    BY <2>6, <2>9, <2>10, AllFilled
  <2> QED BY <2>1, <2>2, <2>11, HeldAs
<1> QED BY <1>5, <1>6

LEMMA LocalMade ==
  ASSUME JobOK, ShapesOK, DataInv, ~plan.benchmark, NEW r \in Rank, Local(r),
         UNCHANGED emitVars, NEW j \in OpsOf, j = writer[ip[r]].op, ~plan.ops[j].sgd,
         NEW b \in Writes(j), b \notin plan.hollow, ~(r = 0 /\ b \in alias')
  PROVE  mem'[r][b] = Held(r, b, At(b, iter[r]))
<1>1. /\ RunInv /\ DataPlan /\ Memory /\ Shared /\ Runnable(plan) /\ Running(r) /\ ip[r] # 0
      /\ OpAt(r) = plan.ops[j] /\ UNCHANGED plan
  BY DEF DataInv, Stored, RunInv, Emission, Local, CanCompute, Running, OpAt, emitVars
<1>2. /\ ~(sub[r] < LastTurn(r))
      /\ plan.ops[j].kind \in {"Compute", "Scatter", "Gather", "Transform"}
      /\ plan.ops[j].kind \in {"Scatter", "Gather"} => r = 0
      /\ plan.ops[j].kind = "Transform" => ~Moves(r)
  BY <1>1, LocalTurn DEF Local
<1>3. CASE plan.ops[j].kind = "Compute"
  <2>1. Kernel(r)
    BY <1>1, <1>3 DEF Local
  <2>2. mem'[r][b] = Result(r, b)
    BY <1>1, <1>3, <2>1, KernelWrites
  <2>3. plan.of[b] \notin plan.states
    BY <1>3 DEF DataPlan, DataInv, OpFlow, KernelFlow
  <2> QED BY <2>2, <2>3 DEF Result, Held, At
<1>4. CASE plan.ops[j].kind \in {"Scatter", "Gather"}
  BY <1>2, <1>4, OwnPartMade
<1>5. CASE plan.ops[j].kind = "Transform"
  <2>1. mem[r][b] = Held(r, b, At(b, iter[r]))
    BY <1>1, <1>2, <1>5, TransformMade
  <2>2. mem' = mem
    BY <1>1, <1>5 DEF Local
  <2> QED BY <2>1, <2>2
<1> QED BY <1>2, <1>3, <1>4, <1>5

-----------------------------------------------------------------------------
(* The steps of a rank within the loop body keep what the data is to be. *)
LEMMA Staying ==
  ASSUME JobOK, RunInv, NEW r \in Rank, ip[r] # 0, NEW j, j = writer[ip[r]].op,
         UNCHANGED <<writer, ip>>
  PROVE  ~Finished(r, j)'
<1>1. j \in Nat
  BY AtLine DEF RunInv
<1> QED BY <1>1 DEF Finished

LEMMA Leaving ==
  ASSUME JobOK, RunInv, NEW r \in Rank, ip[r] # 0, NEW j \in OpsOf, j = writer[ip[r]].op,
         UNCHANGED emitVars, Advance(r), Finished(r, j)'
  PROVE  ~(sub[r] < LastTurn(r))
<1>1. UNCHANGED <<plan, writer>>
  BY DEF emitVars
<1>2. /\ ip[r] \in 1 .. Len(writer) /\ Runs(RankRole(r), writer[ip[r]])
      /\ j \in Nat
  BY AtLine DEF RunInv
<1>3. ~Finished(r, j)
  BY <1>2 DEF Finished
<1> QED BY <1>1, <1>2, <1>3, FinishedNext

LEMMA MadeActs ==
  ASSUME JobOK, ShapesOK, DataInv, ~plan.benchmark, NEW r \in Rank, Acts(r), UNCHANGED emitVars,
         phase = "running"
  PROVE  Made'
<1>1. RunInv /\ DataPlan /\ Covered /\ Memory /\ Shared /\ Made
  BY DEF DataInv, Stored, Flow
<1>2. PICK j : j = writer[ip[r]].op
  OBVIOUS
<1>3. Doing(r) /\ UNCHANGED <<plan, writer, iter>> /\ ip[r] # 0
  BY <1>1, <1>2, ActsDo DEF Doing, emitVars
<1>4. j \in OpsOf
  BY <1>1, <1>2, <1>3, AtLine DEF RunInv
<1>5. ASSUME Finished(r, j)', ~plan.ops[j].sgd PROVE MadeBy(r, j)'
  <2>1. CASE Post(r) \/ Receive(r)
    <3>1. ip' = ip
      BY <2>1 DEF Post, Receive
    <3> QED BY <1>1, <1>2, <1>3, <1>5, <3>1, Staying
  <2>2. CASE Return(r)
    <3>1. mem' = mem /\ alias' = alias /\ Advance(r)
      BY <2>2 DEF Return
    <3>2. ~(sub[r] < LastTurn(r))
      BY <1>1, <1>2, <1>3, <1>4, <1>5, <3>1, Leaving
    <3>3. ASSUME NEW b \in Writes(j) \ plan.hollow,
                 (plan.lay[b] = Whole => r = 0) /\ ~(r = 0 /\ b \in alias')
          PROVE  mem'[r][b] = Held(r, b, At(b, iter[r]))
      BY <1>2, <1>4, <2>2, <3>1, <3>2, <3>3, ReturnMade
    <3> QED BY <1>3, <3>3, MadeAs
  <2>3. CASE Local(r)
    <3>1. ASSUME NEW b \in Writes(j) \ plan.hollow, ~(r = 0 /\ b \in alias')
          PROVE  mem'[r][b] = Held(r, b, At(b, iter[r]))
      BY <1>2, <1>4, <1>5, <2>3, <3>1, LocalMade
    <3> QED BY <1>3, <3>1, MadeAs
  <2> QED BY <2>1, <2>2, <2>3 DEF Acts
<1> QED BY <1>1, <1>2, <1>3, <1>5, MadeNext

LEMMA SharingActs ==
  ASSUME JobOK, DataInv, ~plan.benchmark, NEW r \in Rank, Acts(r), UNCHANGED emitVars,
         phase = "running"
  PROVE  Sharing'
<1>1. RunInv /\ DataPlan /\ Memory /\ Shared /\ Sharing
  BY DEF DataInv, Stored, Flow
<1>2. PICK j : j = writer[ip[r]].op
  OBVIOUS
<1>3. Doing(r) /\ UNCHANGED <<plan, writer, iter>> /\ ip[r] # 0
  BY <1>1, <1>2, ActsDo DEF Doing, emitVars
<1>4. j \in OpsOf /\ OpAt(r) = plan.ops[j]
  BY <1>1, <1>2, <1>3, AtLine DEF RunInv
<1>5. ASSUME r = 0, Shares(j),
             Finished(0, j)' \/ (plan.ops[j].pre = -1 /\ ip' = ip /\ posted'[0])
      PROVE  plan.ops[j].outs[1] \in alias'
  <2>1. plan.ops[j].kind = "Scatter" /\ plan.ops[j].pre \in {-1, 0}
    BY <1>5 DEF Shares
  <2>2. CASE Post(r)
    <3>1. ip' = ip /\ (OpAt(r).kind = "Scatter" /\ OpAt(r).pre = -1 => OpAt(r).outs[1] \in alias')
      BY <1>1, <2>2, PostDoes
    <3>2. ~Finished(r, j)'
      BY <1>1, <1>2, <1>3, <3>1, Staying
    <3> QED BY <1>4, <1>5, <2>1, <3>1, <3>2
  <2>3. CASE Receive(r)
    <3>1. Sources(r) # {}
      BY <2>3 DEF Receive, CanReceive
    <3> QED BY <1>1, <1>3, <1>4, <1>5, <2>1, <3>1, Served
  <2>4. CASE Return(r)
    <3>1. alias' = alias /\ Advance(r) /\ ~posted'[0]
      BY <1>1, <1>5, <2>4, ReturnDoes
    <3>2. ~(sub[r] < LastTurn(r))
      BY <1>1, <1>2, <1>3, <1>4, <1>5, <3>1, Leaving
    <3> QED BY <1>2, <1>4, <1>5, <2>1, <2>4, <3>1, <3>2, ReturnShares
  <2>5. CASE Local(r)
    <3>1. OwnPart(0)
      BY <1>4, <1>5, <2>1, <2>5 DEF Local
    <3>2. plan.ops[j].pre >= 0
      BY <1>1, <1>4, <2>1, <2>5, LocalTurn DEF Local
    <3> QED BY <1>1, <1>2, <1>3, <1>5, <2>1, <3>1, <3>2, OwnPartDoes
  <2> QED BY <2>2, <2>3, <2>4, <2>5 DEF Acts
<1> QED BY <1>1, <1>2, <1>3, <1>5, SharingNext

LEMMA ReceivesPost ==
  ASSUME JobOK, DataInv, ~plan.benchmark, NEW r \in Rank, Post(r), UNCHANGED emitVars
  PROVE  Receives(r)'
<1>1. /\ RunInv /\ DataPlan /\ Runnable(plan) /\ ip[r] # 0 /\ Receives(r)
      /\ UNCHANGED <<plan, writer, iter, ip, sub, got, mem>>
  BY DEF DataInv, RunInv, Emission, Post, CanPost, Running, Flow, Receiving, emitVars
<1>2. PICK j, b : j = writer[ip[r]].op /\ b = plan.ops[j].outs[1]
  OBVIOUS
<1>3. ASSUME NEW s PROVE (Transfer(s, r, j) /\ HasReceived(s, r, iter[r], j))'
                           <=> Transfer(s, r, j) /\ HasReceived(s, r, iter[r], j)
  BY <1>1 DEF Transfer, OpsOf, InText, HasReceived, Past, RecvTurn, Around, Sends
<1>4. Arrived(r)' = Arrived(r)
  BY <1>1, <1>2, <1>3 DEF Arrived
<1>5. OpAt(r) = plan.ops[j]
  BY <1>2 DEF OpAt
<1> QED BY <1>1, <1>2, <1>4, <1>5, ReceivesAs DEF Receives, Right

LEMMA ReceivesAdvance ==
  ASSUME JobOK, DataInv, ~plan.benchmark, NEW r \in Rank, Return(r) \/ Local(r),
         UNCHANGED emitVars, RunInv', Memory', ip'[r] # 0
  PROVE  Receives(r)'
<1>1. /\ RunInv /\ DataPlan /\ Memory /\ Shared /\ ip[r] # 0 /\ Receives(r)
      /\ UNCHANGED <<plan, writer, iter>> /\ Advance(r)
  BY DEF DataInv, Stored, Return, CanReturn, Local, CanCompute, Running, Flow, Receiving, emitVars
<1>2. ~got'[r]
  BY <1>1 DEF Advance, RunInv, Typed
<1>3. CASE sub[r] < LastTurn(r)
  <2>1. Return(r)
    BY <1>1, <1>3, LocalTurn DEF Local
  <2>2. mem' = mem /\ ip' = ip /\ (Dests(r) # {} => posted[r]) /\ (Sources(r) # {} => got[r])
    BY <1>1, <1>3, <2>1, ReturnDoes DEF Advance
  <2>3. PICK j, b : j = writer[ip[r]].op /\ b = plan.ops[j].outs[1]
    OBVIOUS
  <2>4. PICK m \in Moment : m[1] = iter[r] /\ m[2] = j
    BY <1>1, <2>3, AtNow DEF RunInv
  <2>5. ASSUME NEW s \in Rank
        PROVE (Transfer(s, r, j) /\ HasReceived(s, r, iter[r], j))'
                <=> Transfer(s, r, j) /\ HasReceived(s, r, iter[r], j)
    <3>1. Transfer(s, r, j)' <=> Transfer(s, r, j)
      BY <1>1 DEF Transfer, OpsOf, InText, Sends
    <3>2. Transfer(s, r, m[2]) =>
            (HasReceived(s, r, m[1], m[2]) <=> HasReceived(s, r, m[1], m[2])')
      BY <1>1, <2>2, Settled DEF RunInv
    <3>3. /\ HasReceived(s, r, iter[r], j) <=> HasReceived(s, r, m[1], m[2])
          /\ HasReceived(s, r, iter[r], j)' <=> HasReceived(s, r, m[1], m[2])'
      BY <1>1, <2>4 DEF HasReceived
    <3> QED BY <2>4, <3>1, <3>2, <3>3
  <2>6. Arrived(r)' = Arrived(r)
    BY <1>1, <2>2, <2>3, <2>5 DEF Arrived
  <2>7. OpAt(r) = plan.ops[j]
    BY <2>3 DEF OpAt
  <2> QED BY <1>1, <1>2, <2>2, <2>3, <2>6, <2>7, ReceivesAs DEF Receives
<1>4. CASE ~(sub[r] < LastTurn(r))
  <2>1. PICK z \in Nat \ {0} : z = ip[r] + 1
    BY <1>1 DEF RunInv, Typed
  <2>2. GoTo(r, z)
    BY <1>1, <1>4, <2>1 DEF Advance
  <2> QED BY <1>1, <1>2, <2>2, FreshArrival
<1> QED BY <1>3, <1>4

LEMMA CarryingActs ==
  ASSUME JobOK, ShapesOK, DataInv, ~plan.benchmark, NEW r \in Rank, Acts(r), UNCHANGED emitVars,
         phase = "running"
  PROVE  Carrying'
<1>1. RunInv /\ Carrying /\ UNCHANGED plan
  BY DEF DataInv, Flow, emitVars
<1>2. CASE Post(r)
  BY <1>1, <1>2, PostCarries, CarryingPost
<1>3. CASE Receive(r)
  BY <1>1, <1>3, CarryingReceive
<1>4. CASE Return(r)
  <2>1. \A s, d \in Rank : \A e : Queue(s, d, e) => Queue(s, d, e)'
    BY <1>1, <1>4, AdvanceStep DEF Return, CanReturn
  <2> QED BY <1>1, <1>4, <2>1, CarryingKept DEF Return
<1>5. CASE Local(r)
  <2>1. \A s, d \in Rank : \A e : Queue(s, d, e) => Queue(s, d, e)'
    BY <1>1, <1>5, AdvanceStep DEF Local, CanCompute
  <2> QED BY <1>1, <1>5, <2>1, CarryingKept DEF Local
<1> QED BY <1>2, <1>3, <1>4, <1>5 DEF Acts

LEMMA FlowActs ==
  ASSUME JobOK, ShapesOK, DataInv, ~plan.benchmark, NEW r \in Rank, Acts(r), UNCHANGED emitVars,
         phase = "running", RunInv', Memory'
  PROVE  Flow'
<1>1. RunInv /\ DataPlan /\ Memory /\ Shared /\ Flow
  BY DEF DataInv, Stored
<1>2. Doing(r)
  BY <1>1, ActsDo
<1>3. ASSUME NEW q \in Rank, Running(q)' PROVE Receives(q)'
  <2>1. CASE q = r
    <3>1. ip'[r] # 0
      BY <1>3, <2>1 DEF Running
    <3> QED BY <2>1, <3>1, ReceivesPost, ReceivesReceive, ReceivesAdvance DEF Acts
  <2>2. CASE q # r
    <3>1. ip'[q] # 0 /\ ip'[q] = ip[q]
      BY <1>1, <1>2, <1>3, <2>2, OthersStay DEF Running
    <3>2. Receives(q)
      BY <1>1, <3>1 DEF Flow, Receiving, Running
    <3> QED BY <1>1, <1>2, <2>2, <3>1, <3>2, ReceivesKept
  <2> QED BY <2>1, <2>2
<1>4. Receiving'
  BY <1>3 DEF Receiving
<1>5. Loaded'
  BY <1>1, <1>2, LoadedNext DEF Flow
<1> QED BY <1>4, <1>5, MadeActs, SharingActs, CarryingActs DEF Flow

-----------------------------------------------------------------------------
(* The head of the loop: a batch is loaded, and nothing of the iteration is made. *)
LEMMA BeginMemory ==
  ASSUME JobOK, DataPlan, Memory, NEW r \in Rank, Begin(r), UNCHANGED emitVars
  PROVE  /\ Memory'
         /\ \A q \in Rank : \A b \in Buffers : b \notin plan.data => mem'[q][b] = mem[q][b]
         /\ \A q \in Rank \ {r} : \A b \in Buffers : mem'[q][b] = mem[q][b]
         /\ r = 0 /\ ~plan.benchmark =>
              \A b \in plan.data : mem'[0][b] = Part(b, Whole, 0, iter[0] + 1)
<1>1. UNCHANGED plan /\ plan.data \subseteq Buffers /\ \A b \in plan.data : plan.lay[b] = Whole
  BY DEF emitVars, DataPlan
<1>2. CASE r = 0 /\ ~plan.benchmark
  <2>1. mem' = [mem EXCEPT ![0] =
                  [b \in Buffers |-> IF b \in plan.data THEN Part(b, Whole, 0, iter[0] + 1)
                                     ELSE mem[0][b]]]
    BY <1>2 DEF Begin
  <2>2. DOMAIN mem = Rank /\ 0 \in Rank
    BY <1>2 DEF Memory
  <2>3. \A q \in Rank \ {0} : mem'[q] = mem[q]
    BY <2>1, <2>2
  <2>4. mem'[0] = [b \in Buffers |-> IF b \in plan.data THEN Part(b, Whole, 0, iter[0] + 1)
                                     ELSE mem[0][b]]
    BY <2>1, <2>2
  <2>5. ASSUME NEW q \in Rank, NEW b \in Buffers PROVE Sized(mem'[q][b], plan.lay[b])
    <3>1. CASE q = 0 /\ b \in plan.data
      <4>1. mem'[q][b] = Part(b, Whole, 0, iter[0] + 1)
        BY <2>4, <3>1
      <4> QED BY <1>1, <3>1, <4>1 DEF Sized, Part
    <3>2. CASE ~(q = 0 /\ b \in plan.data)
      <4>1. mem'[q][b] = mem[q][b]
        BY <2>3, <2>4, <3>2
      <4> QED BY <4>1, MemorySized
    <3> QED BY <3>1, <3>2
  <2>6. ASSUME NEW q \in Rank PROVE mem'[q] = [b \in Buffers |-> mem'[q][b]]
    <3>1. CASE q = 0
      BY <2>4, <3>1
    <3>2. CASE q # 0
      <4>1. mem'[q] = mem[q] /\ mem[q] = [b \in Buffers |-> mem[q][b]]
        BY <2>3, <3>2 DEF Memory
      <4> QED BY <4>1
    <3> QED BY <3>1, <3>2
  <2>7. mem' = [q \in Rank |-> [b \in Buffers |-> mem'[q][b]]]
    <3>1. mem' = [q \in Rank |-> mem'[q]]
      BY <2>1, <2>2
    <3> QED BY <2>6, <3>1
  <2>8. Memory'
    BY <1>1, <2>5, <2>7 DEF Memory, Buffers, Sized, Size, Shape
  <2> QED BY <1>1, <1>2, <2>3, <2>4, <2>8
<1>3. CASE ~(r = 0 /\ ~plan.benchmark)
  <2>1. mem' = mem
    BY <1>3 DEF Begin
  <2>2. Memory'
    BY <1>1, <2>1 DEF Memory, Buffers
  <2> QED BY <1>3, <2>1, <2>2
<1> QED BY <1>2, <1>3

LEMMA BeginControl ==
  ASSUME JobOK, RunInv, NEW r \in Rank, Begin(r), UNCHANGED emitVars
  PROVE  /\ UNCHANGED <<plan, writer, posted, got, alias, chan>> /\ GoTo(r, 1)
         /\ ip[r] = 0 /\ ~posted[r] /\ ~got[r] /\ iter'[r] = iter[r] + 1 /\ iter[r] \in Nat
         /\ \A q \in Rank \ {r} : ip'[q] = ip[q] /\ sub'[q] = sub[q] /\ iter'[q] = iter[q]
<1>1. /\ UNCHANGED <<plan, writer, posted, got, alias, chan>> /\ GoTo(r, 1) /\ ip[r] = 0
      /\ iter' = [iter EXCEPT ![r] = @ + 1] /\ Emission /\ Typed /\ Control
  BY DEF Begin, CanBegin, emitVars, RunInv
<1>2. ~posted[r] /\ ~got[r] /\ iter[r] \in Nat
  BY <1>1 DEF Control, Typed
<1>3. iter'[r] = iter[r] + 1 /\ \A q \in Rank \ {r} : iter'[q] = iter[q]
  BY <1>1 DEF Typed
<1>4. PICK z \in Nat \ {0} : z = 1
  OBVIOUS
<1>5. GoTo(r, z)
  BY <1>1, <1>4
<1>6. \A q \in Rank \ {r} : ip'[q] = ip[q] /\ sub'[q] = sub[q]
  BY <1>1, <1>5, Going
<1> QED BY <1>1, <1>2, <1>3, <1>6

LEMMA BeginWeights ==
  ASSUME JobOK, RunInv, DataPlan, Covered, Memory, Weights, phase = "running",
         NEW r \in Rank, Begin(r), UNCHANGED emitVars
  PROVE  Weights'
<1>1. /\ UNCHANGED <<plan, writer>> /\ GoTo(r, 1) /\ ip[r] = 0 /\ iter[r] \in Nat
      /\ iter'[r] = iter[r] + 1 /\ 0 \in Rank
      /\ \A q \in Rank \ {r} : ip'[q] = ip[q] /\ iter'[q] = iter[q]
  BY BeginControl DEF JobOK, Rank
<1>2. ASSUME NEW t \in plan.states
      PROVE  mem'[0][t] = Part(t, Whole, 0, IF Updated(t)' THEN iter'[0] ELSE iter'[0] - 1)
  <2>1. mem'[0][t] = mem[0][t]
    <3>1. t \in Buffers /\ t \notin plan.data
      BY DEF DataPlan
    <3> QED BY <1>1, <3>1, BeginMemory
  <2>2. mem[0][t] = Part(t, Whole, 0, IF Updated(t) THEN iter[0] ELSE iter[0] - 1)
    BY DEF Weights
  <2>3. CASE r # 0
    <3>1. Updated(t)' <=> Updated(t)
      BY <1>1, <2>3 DEF Updated, Updates, OpsOf, Writes, Results, Finished
    <3> QED BY <1>1, <2>1, <2>2, <2>3, <3>1
  <2>4. CASE r = 0
    <3>1. Updated(t)
      BY <1>1, <2>4 DEF Updated, Finished
    <3>2. PICK k \in OpsOf : Updates(k, t)
      BY DEF DataPlan, UpdatedLast, Updates
    <3>3. \E x \in 1 .. Len(writer) : writer[x].op = k /\ Runs(RankRole(0), writer[x])
      <4>1. ~TwoSided(k)
        BY <3>2 DEF Updates, DataPlan, OpFlow, TwoSided
      <4>2. InText(k)
        BY <4>1 DEF Covered, OpsOf, RunInv, Emission, Runnable
      <4> QED BY <1>1, <4>2, LineFor DEF RunInv
    <3>4. ~Finished(0, k)'
      BY <1>1, <2>4, <3>3, NoneFinished
    <3>5. ~Updated(t)'
      BY <1>1, <3>2, <3>4 DEF Updated, Updates, OpsOf, Writes, Results
    <3>6. iter'[0] - 1 = iter[0]
      BY <1>1, <2>4
    <3> QED BY <2>1, <2>2, <3>1, <3>5, <3>6
  <2> QED BY <2>3, <2>4
<1>3. ASSUME NEW t, NEW v PROVE Part(t, Whole, 0, v)' = Part(t, Whole, 0, v)
  BY <1>1 DEF Part, Size, Shape, Global, Stamp
<1> QED BY <1>1, <1>2, <1>3 DEF Weights

LEMMA BeginMade ==
  ASSUME JobOK, RunInv, DataPlan, Covered, Memory, Made, NEW r \in Rank, Begin(r),
         UNCHANGED emitVars
  PROVE  Made'
<1>1. /\ UNCHANGED <<plan, writer, alias>> /\ GoTo(r, 1)
      /\ \A q \in Rank \ {r} : ip'[q] = ip[q] /\ iter'[q] = iter[q]
  BY BeginControl
<1>2. \A k : Writes(k)' = Writes(k)
  BY <1>1 DEF Writes, Results
<1>3. SUFFICES ASSUME NEW q \in Rank, NEW i \in OpsOf, InText(i), ~plan.ops[i].sgd,
                      iter'[q] > 0, Finished(q, i)'
               PROVE  MadeBy(q, i)'
  <2>1. OpsOf' = OpsOf /\ \A i : InText(i)' = InText(i)
    BY <1>1 DEF OpsOf, InText
  <2> QED BY <1>1, <2>1 DEF Made
<1>4. CASE /\ q = r
           /\ \E x \in 1 .. Len(writer) : writer[x].op = i /\ Runs(RankRole(q), writer[x])
  BY <1>1, <1>3, <1>4, NoneFinished
<1>5. CASE ~\E x \in 1 .. Len(writer) : writer[x].op = i /\ Runs(RankRole(q), writer[x])
  <2>1. q # 0 /\ \A b \in Writes(i) : plan.lay[b] = Whole
    BY <1>3, <1>5, NotConcerned DEF RunInv
  <2> QED BY <1>1, <1>2, <2>1 DEF MadeBy
<1>6. CASE q # r
  <2>1. MadeBy(q, i)
    <3>1. Finished(q, i) /\ iter[q] > 0
      BY <1>1, <1>3, <1>6 DEF Finished
    <3> QED BY <1>3, <3>1 DEF Made
  <2>2. ASSUME NEW b \in Writes(i) PROVE mem'[q][b] = mem[q][b]
    <3>1. b \in Buffers
      BY DEF DataPlan, OpFlow
    <3> QED BY <1>6, <3>1, BeginMemory
  <2>3. ASSUME NEW b PROVE Held(q, b, At(b, iter[q]))' = Held(q, b, At(b, iter[q]))
    BY <1>1, <1>6 DEF Held, At, Part, Summand, Size, Shape, Global, Stamp
  <2> QED BY <1>1, <1>2, <2>1, <2>2, <2>3 DEF MadeBy, Right
<1> QED BY <1>4, <1>5, <1>6

LEMMA BeginLoaded ==
  ASSUME JobOK, RunInv, DataPlan, Memory, Loaded, ~plan.benchmark, NEW r \in Rank, Begin(r),
         UNCHANGED emitVars
  PROVE  Loaded'
<1>1. /\ UNCHANGED plan /\ iter'[r] = iter[r] + 1 /\ 0 \in Rank
      /\ \A q \in Rank \ {r} : iter'[q] = iter[q]
  BY BeginControl DEF JobOK, Rank
<1>2. ASSUME NEW t \in plan.data, iter'[0] > 0
      PROVE  mem'[0][t] = Part(t, Whole, 0, iter'[0])
  <2>1. CASE r = 0
    BY <1>1, <2>1, BeginMemory
  <2>2. CASE r # 0
    <3>1. t \in Buffers
      BY DEF DataPlan
    <3>2. mem'[0][t] = mem[0][t] /\ iter'[0] = iter[0]
      BY <1>1, <2>2, <3>1, BeginMemory
    <3> QED BY <1>2, <3>2 DEF Loaded
  <2> QED BY <2>1, <2>2
<1>3. ASSUME NEW t, NEW v PROVE Part(t, Whole, 0, v)' = Part(t, Whole, 0, v)
  BY <1>1 DEF Part, Size, Shape, Global, Stamp
<1> QED BY <1>1, <1>2, <1>3 DEF Loaded

LEMMA BeginSharing ==
  ASSUME JobOK, RunInv, Sharing, NEW r \in Rank, Begin(r), UNCHANGED emitVars
  PROVE  Sharing'
<1>1. /\ UNCHANGED <<plan, writer, posted, alias>> /\ GoTo(r, 1) /\ ~posted[r] /\ 0 \in Rank
      /\ \A q \in Rank \ {r} : ip'[q] = ip[q] /\ iter'[q] = iter[q]
  BY BeginControl DEF JobOK, Rank
<1>2. SUFFICES ASSUME NEW i \in OpsOf, InText(i), Shares(i), iter'[0] > 0,
                      \/ Finished(0, i)'
                      \/ ip'[0] # 0 /\ writer[ip'[0]].op = i /\ plan.ops[i].pre = -1 /\ posted'[0]
               PROVE  plan.ops[i].outs[1] \in alias'
  <2>1. OpsOf' = OpsOf /\ \A i : InText(i)' = InText(i) /\ Shares(i)' = Shares(i)
    BY <1>1 DEF OpsOf, InText, Shares
  <2> QED BY <1>1, <2>1 DEF Sharing
<1>3. CASE r = 0
  <2>1. \E x \in 1 .. Len(writer) : writer[x].op = i /\ Runs(RankRole(0), writer[x])
    BY <1>1, <1>2, LineFor DEF RunInv
  <2>2. ~Finished(0, i)'
    BY <1>1, <1>3, <2>1, NoneFinished
  <2> QED BY <1>1, <1>2, <1>3, <2>2
<1>4. CASE r # 0
  <2>1. ip'[0] = ip[0] /\ iter'[0] = iter[0] /\ posted'[0] = posted[0] /\ alias' = alias
    BY <1>1, <1>4
  <2>2. Finished(0, i)' <=> Finished(0, i)
    BY <1>1, <2>1 DEF Finished
  <2> QED BY <1>1, <1>2, <2>1, <2>2 DEF Sharing
<1> QED BY <1>3, <1>4

(* The plan is not touched, nor, by the ranks, its text. *)
LEMMA DataPlanKept ==
  ASSUME UNCHANGED plan
  PROVE  DataPlan' <=> DataPlan
<1>1. Buffers' = Buffers /\ OpsOf' = OpsOf /\ \A j : Reads(j)' = Reads(j) /\ Writes(j)' = Writes(j)
  BY DEF Buffers, OpsOf, Reads, Writes, Results
<1>2. ASSUME NEW b PROVE Tensors(b)' <=> Tensors(b)
  BY <1>1 DEF Tensors
<1>3. ASSUME NEW j PROVE OpFlow(j)' <=> OpFlow(j)
  BY <1>1 DEF OpFlow, KernelFlow, ScatterFlow, JoinFlow, TransformFlow
<1>4. ASSUME NEW j, NEW b PROVE MadeBefore(j, b)' <=> MadeBefore(j, b)
  BY <1>1 DEF MadeBefore
<1>5. ASSUME NEW t PROVE UpdatedLast(t)' <=> UpdatedLast(t)
  BY <1>1 DEF UpdatedLast, Updates
<1>6. OneWriter' <=> OneWriter
  BY <1>1 DEF OneWriter
<1> QED BY <1>1, <1>2, <1>3, <1>4, <1>5, <1>6 DEF DataPlan

LEMMA PlanKept ==
  ASSUME DataPlan, Covered, UNCHANGED <<plan, phase, at, writer, master>>
  PROVE  DataPlan' /\ Covered'
<1>1. Covered'
  BY DEF Covered, InText, TwoSided
<1> QED BY <1>1, DataPlanKept

LEMMA BeginKeeps ==
  ASSUME JobOK, DataInv, phase = "running", NEW r \in Rank, Begin(r), UNCHANGED emitVars
  PROVE  DataInv'
<1>1. /\ RunInv /\ DataPlan /\ Covered /\ Memory /\ Shared /\ Weights
      /\ ~plan.benchmark => Flow
  BY DEF DataInv, Stored
<1>2. UNCHANGED <<plan, phase, at, writer, master, worker, alias, chan, got>> /\ phase' = "running"
  BY DEF Begin, emitVars
<1>3. RunInv' /\ \A s, d \in Rank : \A e : Queue(s, d, e) => Queue(s, d, e)'
  BY <1>1, BeginStep
<1>4. DataPlan' /\ Covered'
  BY <1>1, <1>2, PlanKept
<1>5. Stored'
  <2>1. Shared'
    BY <1>1, <1>2 DEF Shared, OpsOf, Shares
  <2> QED BY <1>1, <2>1, BeginMemory, BeginWeights DEF Stored
<1>6. ASSUME ~plan.benchmark PROVE Flow'
  <2>1. Flow
    BY <1>1, <1>6
  <2>2. Loaded' /\ Sharing' /\ Made'
    BY <1>1, <1>6, <2>1, BeginLoaded, BeginSharing, BeginMade DEF Flow
  <2>3. Carrying'
    BY <1>2, <1>3, <2>1, CarryingKept DEF Flow
  <2>4. ASSUME NEW q \in Rank, ip'[q] # 0 PROVE Receives(q)'
    <3>1. CASE q = r
      <4>1. PICK z \in Nat \ {0} : z = 1
        OBVIOUS
      <4>2. GoTo(r, z) /\ ~got'[r] /\ UNCHANGED <<plan, writer>> /\ Memory'
        BY <1>1, <4>1, BeginControl, BeginMemory
      <4> QED BY <1>1, <1>3, <2>4, <3>1, <4>2, FreshArrival
    <3>2. CASE q # r
      <4>1. /\ ip'[q] = ip[q] /\ sub'[q] = sub[q] /\ got'[q] = got[q] /\ iter'[q] = iter[q]
            /\ UNCHANGED <<plan, writer>>
        BY <1>1, <3>2, BeginControl
      <4>2. Receives(q)
        BY <2>1, <2>4, <4>1 DEF Flow, Receiving, Running, Begin, CanBegin
      <4>3. \A b \in Buffers : b \notin plan.data => mem'[q][b] = mem[q][b]
        BY <1>1, BeginMemory
      <4> QED BY <1>1, <2>4, <4>1, <4>2, <4>3, ReceivesSame
    <3> QED BY <3>1, <3>2
  <2>5. Receiving'
    BY <2>4 DEF Receiving, Running
  <2> QED BY <2>2, <2>3, <2>5 DEF Flow
<1> QED BY <1>2, <1>3, <1>4, <1>5, <1>6 DEF DataInv

LEMMA ActsKeep ==
  ASSUME JobOK, ShapesOK, DataInv, NEW r \in Rank, Acts(r), UNCHANGED emitVars
  PROVE  DataInv'
<1>1. /\ phase = "running" /\ UNCHANGED <<plan, phase, at, writer, master>> /\ phase' = "running"
  BY DEF Acts, Post, CanPost, Receive, CanReceive, Return, CanReturn, Local, CanCompute, Running,
         emitVars
<1>2. RunInv /\ DataPlan /\ Covered /\ Stored
  BY <1>1 DEF DataInv
<1>3. RunInv'
  BY <1>2, RankSteps DEF Acts, RankStep
<1>4. DataPlan' /\ Covered'
  BY <1>1, <1>2, PlanKept
<1>5. Stored'
  BY <1>2, StoredNext
<1>6. ~plan.benchmark => Flow'
  BY <1>1, <1>3, <1>5, FlowActs DEF Stored
<1> QED BY <1>1, <1>3, <1>4, <1>5, <1>6 DEF DataInv

(* The launch: the weights and momenta are there, and nothing else is. *)
LEMMA LaunchKeeps ==
  ASSUME JobOK, DataInv, Launch PROVE DataInv'
<1>1. /\ RunInv /\ DataPlan /\ Covered /\ phase = "emitted" /\ phase' = "running" /\ alias = {}
      /\ UNCHANGED <<plan, at, writer, master>>
      /\ UNCHANGED <<ip, sub, posted, got, iter, alias, chan>> /\ 0 \in Rank
  BY DEF DataInv, Launch, JobOK, Rank
<1>2. RunInv'
  BY <1>1, LaunchStep
<1>3. \A r \in Rank : ip[r] = 0 /\ iter[r] = 0
  BY <1>1 DEF RunInv, Idle
<1>4. DataPlan' /\ Covered'
  <2>1. Buffers' = Buffers /\ OpsOf' = OpsOf /\ \A j : Reads(j)' = Reads(j) /\ Writes(j)' = Writes(j)
    BY <1>1 DEF Buffers, OpsOf, Reads, Writes, Results
  <2>2. DataPlan'
    BY <1>1, DataPlanKept
  <2>3. Covered'
    BY <1>1 DEF Covered, InText, TwoSided
  <2> QED BY <2>2, <2>3
<1>5. ASSUME NEW r \in Rank, NEW b \in Buffers
      PROVE  /\ mem'[r][b] = IF r = 0 /\ b \in plan.states THEN Part(b, Whole, 0, 0)
                             ELSE [c \in 1 .. Size(plan.lay[b]) |-> Unset]
             /\ Sized(mem'[r][b], plan.lay[b])
  <2>1. mem'[r][b] = IF r = 0 /\ b \in plan.states THEN Part(b, Whole, 0, 0)
                     ELSE [c \in 1 .. Size(plan.lay[b]) |-> Unset]
    BY DEF Launch
  <2>2. b \in plan.states => plan.lay[b] = Whole
    BY <1>1 DEF DataPlan
  <2>3. Sized(Part(b, Whole, 0, 0), Whole)
    BY DEF Sized, Part
  <2>4. Sized([c \in 1 .. Size(plan.lay[b]) |-> Unset], plan.lay[b])
    BY DEF Sized
  <2> QED BY <2>1, <2>2, <2>3, <2>4
<1>6. Memory'
  <2>1. mem' = [r \in Rank |-> [b \in Buffers |-> mem'[r][b]]]
    BY DEF Launch
  <2> QED BY <1>1, <1>5, <2>1 DEF Memory, Buffers, Sized, Size, Shape
<1>7. Shared'
  BY <1>1 DEF Shared
<1>8. Weights'
  <2>1. ASSUME NEW t \in plan.states PROVE mem'[0][t] = Part(t, Whole, 0, 0)
    <3>1. t \in Buffers
      BY <1>1 DEF DataPlan
    <3> QED BY <1>1, <1>5, <2>1, <3>1
  <2>2. ASSUME NEW t PROVE Updated(t)'
    BY <1>1, <1>3 DEF Updated, Finished
  <2>3. ASSUME NEW t, NEW v PROVE Part(t, Whole, 0, v)' = Part(t, Whole, 0, v)
    BY <1>1 DEF Part, Size, Shape, Global, Stamp
  <2> QED BY <1>1, <1>3, <2>1, <2>2, <2>3 DEF Weights
<1>9. Flow'
  <2>1. Loaded' /\ Sharing' /\ Made' /\ Receiving'
    BY <1>1, <1>3 DEF Loaded, Sharing, Made, Receiving, Running
  <2>2. ASSUME NEW s \in Rank, NEW d \in Rank
        PROVE  Len(chan'[s][d]) = 0 /\ (\E e : Queue(s, d, e))'
    <3>1. (\E e : Queue(s, d, e))'
      BY <1>2 DEF RunInv, Queues
    <3>2. PICK e : Queue(s, d, e)
      BY <1>1 DEF RunInv, Queues
    <3>3. \A m \in Moment : ~UnderWay(s, d, m)
      BY <1>3, NothingYet DEF UnderWay
    <3>4. Len(chan[s][d]) = 0
      BY <1>1, <3>2, <3>3, Empty DEF RunInv
    <3> QED BY <1>1, <3>1, <3>4
  <2>3. Carrying'
    BY <2>2 DEF Carrying
  <2> QED BY <2>1, <2>3 DEF Flow
<1> QED BY <1>1, <1>2, <1>4, <1>6, <1>7, <1>8, <1>9 DEF DataInv, Stored

(* The emission. *)
LEMMA EmitKeeps ==
  ASSUME JobOK, DataInv, EmitNext, UNCHANGED runVars PROVE DataInv'
<1>1. /\ RunInv /\ DataPlan /\ Covered /\ alias' = alias /\ plan' = plan
      /\ phase # "running" /\ phase' # "running"
  BY DEF DataInv, runVars, EmitNext, EmitTensorInitializations, EmitTwoSided, EmitOther,
         EmitSumTransform, EndFuncCalls
<1>2. RunInv'
  BY <1>1, EmittingStep
<1>3. Covered'
  BY <1>1, EmissionCovers DEF RunInv
<1>4. DataPlan'
  BY <1>1, DataPlanKept
<1> QED BY <1>1, <1>2, <1>3, <1>4 DEF DataInv

-----------------------------------------------------------------------------
(***************************************************************************)
(* In every run of a plan whose ops read what earlier ops have made, the   *)
(* memories of the ranks and the messages between them hold what they are  *)
(* to hold: DataInv is inductive.                                          *)
(***************************************************************************)
LEMMA DataStep ==
  ASSUME JobOK, ShapesOK, DataInv,
         [(EmitNext /\ UNCHANGED runVars) \/ RunNext]_<<emitVars, runVars>>
  PROVE  DataInv'
<1>1. CASE EmitNext /\ UNCHANGED runVars
  BY <1>1, EmitKeeps
<1>2. CASE Launch
  BY <1>2, LaunchKeeps
<1>3. ASSUME NEW r \in Rank, RankStep(r) PROVE DataInv'
  <2>1. CASE Begin(r)
    BY <1>3, <2>1, BeginKeeps DEF RankStep, Begin, CanBegin
  <2>2. CASE Acts(r)
    BY <1>3, <2>2, ActsKeep DEF RankStep
  <2> QED BY <1>3, <2>1, <2>2 DEF RankStep, Acts
<1>4. CASE UNCHANGED <<emitVars, runVars>>
  <2>1. RunInv'
    BY <1>4, RunStep DEF DataInv
  <2>2. /\ UNCHANGED <<plan, phase, at, hetero, writer, master, worker, ran>>
        /\ UNCHANGED <<ip, sub, posted, got, iter, mem, alias, chan>>
    BY <1>4 DEF emitVars, runVars
  <2>3. DataPlan' /\ Covered'
    BY <2>2, PlanKept DEF DataInv
  <2>4. ASSUME phase = "running" PROVE Stored'
    <3>0. Memory /\ Shared
      BY <2>2, <2>4 DEF DataInv, Stored
    <3>m. Memory'
      <4>1. Buffers' = Buffers
        BY <2>2 DEF Buffers
      <4>2. ASSUME NEW b, NEW q PROVE Sized(b, q)' = Sized(b, q)
        BY <2>2 DEF Sized, Size, Shape
      <4> QED BY <2>2, <3>0, <4>1, <4>2 DEF Memory
    <3>s. Shared'
      BY <2>2, <3>0 DEF Shared, OpsOf, Shares
    <3>1. Memory' /\ Shared'
      BY <3>m, <3>s
    <3>2. Weights'
      <4>1. ASSUME NEW t PROVE Updated(t)' <=> Updated(t)
        BY <2>2 DEF Updated, Updates, OpsOf, Writes, Results, Finished
      <4>2. ASSUME NEW t, NEW v PROVE Part(t, Whole, 0, v)' = Part(t, Whole, 0, v)
        BY <2>2 DEF Part, Size, Shape, Global, Stamp
      <4> QED BY <2>2, <2>4, <4>1, <4>2 DEF DataInv, Stored, Weights
    <3> QED BY <3>1, <3>2 DEF Stored
  <2>5. ASSUME phase = "running", ~plan.benchmark PROVE Flow'
    <3>1. DataPlan /\ RunInv /\ Flow
      BY <2>5 DEF DataInv
    <3>2. ASSUME NEW t, NEW lay, NEW r, NEW v
          PROVE  Part(t, lay, r, v)' = Part(t, lay, r, v)
      BY <2>2 DEF Part, Size, Shape, Global, Stamp
    <3>3. Loaded'
      BY <2>2, <3>1, <3>2 DEF Flow, Loaded
    <3>4. Sharing'
      BY <2>2, <3>1 DEF Flow, Sharing, OpsOf, InText, Shares, Finished
    <3>5. ASSUME NEW r, NEW b, NEW n PROVE Held(r, b, At(b, n))' = Held(r, b, At(b, n))
      BY <2>2 DEF Held, At, Part, Summand, Size, Shape, Global, Stamp
    <3>6. \A r, j : MadeBy(r, j) => MadeBy(r, j)'
      BY <2>2, <3>5 DEF MadeBy, Right, Writes, Results
    <3>7. Made'
      BY <2>2, <3>1, <3>6 DEF Flow, Made, OpsOf, InText, Finished
    <3>8. Receiving'
      <4>1. ASSUME NEW q \in Rank, ip'[q] # 0 PROVE Receives(q)'
        <5>1. Receives(q)
          BY <2>2, <2>5, <3>1, <4>1 DEF Flow, Receiving, Running
        <5> QED BY <2>2, <3>1, <4>1, <5>1, ReceivesSame
      <4> QED BY <4>1 DEF Receiving, Running
    <3>9. Carrying'
      <4>1. \A s, d \in Rank : \A e : Queue(s, d, e) => Queue(s, d, e)'
        BY <2>2 DEF Queue, UnderWay, Transfer, OpsOf, InText, Sends, HasSent, HasReceived, Past,
                    SendTurn, RecvTurn, Around
      <4> QED BY <2>2, <3>1, <4>1, CarryingKept DEF Flow
    <3> QED BY <3>3, <3>4, <3>7, <3>8, <3>9 DEF Flow
  <2> QED BY <2>1, <2>2, <2>3, <2>4, <2>5 DEF DataInv
<1> QED BY <1>1, <1>2, <1>3, <1>4 DEF RunNext

LEMMA DataBegins == ASSUME JobOK, RunInit, DataPlan PROVE DataInv
  BY RunBegins, CoveredBegins DEF RunInit, Start, DataInv

(***************************************************************************)
(* In every run of a plan whose ops read what earlier ops have made, and   *)
(* read weights before they are updated: weights, originals, parts, sums   *)
(* and the messages on their way hold, cell by cell, the iteration they    *)
(* are to hold, through every interleaving of the ranks.                   *)
(***************************************************************************)
THEOREM DataInvariant ==
  ASSUME JobOK, ShapesOK PROVE RunSpec /\ DataPlan => []DataInv
<1>1. RunInit /\ DataPlan => DataInv
  BY DataBegins
<1>2. DataInv /\ [(EmitNext /\ UNCHANGED runVars) \/ RunNext]_<<emitVars, runVars>> => DataInv'
  BY DataStep
<1> QED BY <1>1, <1>2, PTL DEF RunSpec

LEMMA KernelReads ==
  ASSUME JobOK, ShapesOK, DataInv PROVE OperandsCurrent
<1> SUFFICES ASSUME ~plan.benchmark, NEW r \in Rank, Running(r), OpAt(r).kind = "Compute",
                    NEW x \in DOMAIN OpAt(r).ins, OpAt(r).ins[x] \notin plan.hollow
             PROVE  Current(r, OpAt(r).ins[x])
  BY DEF OperandsCurrent
<1> PICK j : j = writer[ip[r]].op
  OBVIOUS
<1> PICK b : b = OpAt(r).ins[x]
  OBVIOUS
<1>1. RunInv /\ DataPlan /\ Covered /\ ip[r] # 0
  BY DEF DataInv, Running
<1>2. /\ j \in OpsOf /\ OpAt(r) = plan.ops[j] /\ Runnable(plan)
      /\ LineOf(writer[ip[r]]) /\ Runs(RankRole(r), writer[ip[r]])
  BY <1>1, AtLine DEF RunInv, Emission, TextOK
<1>3. b \in Reads(j)
  BY <1>2 DEF Reads
<1>4. KernelFlow(j) /\ b \in Buffers /\ Tensors(b)
  BY <1>1, <1>2, <1>3 DEF DataPlan, OpFlow
<1>5. plan.lay[b] # -2 /\ (plan.lay[b] = Whole <=> ~plan.ops[j].par)
  BY <1>3, <1>4 DEF KernelFlow
<1>6. ASSUME plan.lay[b] = Whole PROVE r = 0
  <2>1. ~TwoSided(j) /\ ~ForAll(j)
    BY <1>2, <1>5, <1>6 DEF TwoSided, ForAll
  <2>2. writer[ip[r]].guard = "master"
    BY <1>2, <2>1 DEF LineOf
  <2> QED BY <1>2, <2>2 DEF Runs, RankRole
<1>7. Read(r, b) = Held(r, b, At(b, iter[r]))
  BY <1>3, <1>6, OperandHeld
<1>8. Held(r, b, At(b, iter[r])) = Part(plan.of[b], plan.lay[b], r, At(b, iter[r]))
  BY <1>4, <1>5, HeldAs DEF Tensors
<1>9. At(b, iter[r]) = Version(r, b)
  BY DEF At, Version
<1> QED BY <1>7, <1>8, <1>9 DEF Current

LEMMA SnapshotReads ==
  ASSUME JobOK, ShapesOK, DataInv PROVE SnapshotCurrent
<1> SUFFICES ASSUME phase = "running", ip[0] = 0, NEW t \in plan.states
             PROVE  Read(0, t) = Part(t, Whole, 0, iter[0])
  BY DEF SnapshotCurrent
<1>1. RunInv /\ DataPlan /\ Stored /\ 0 \in Rank /\ Runnable(plan)
  BY DEF DataInv, RunInv, Emission, Rank, JobOK
<1>2. t \in Buffers /\ plan.lay[t] = Whole
  BY <1>1 DEF DataPlan
<1>3. Updated(t)
  BY DEF Updated, Finished
<1>4. mem[0][t] = Part(t, Whole, 0, iter[0])
  BY <1>1, <1>3 DEF Stored, Weights
<1>5. Sized(mem[0][t], plan.lay[t]) /\ Place(0, t) = t
  BY <1>1, <1>2, MemorySized, PlaceWhole DEF Stored
<1> QED BY <1>4, <1>5, PickAll DEF Read

(***************************************************************************)
(* Each operand that a kernel is called on holds that rank's part of the   *)
(* tensor as this iteration has computed it, or of a weight or momentum as *)
(* the last one left it.                                                   *)
(***************************************************************************)
THEOREM KernelsReadCurrent ==
  ASSUME JobOK, ShapesOK PROVE RunSpec /\ DataPlan => []OperandsCurrent
<1>1. DataInv => OperandsCurrent
  BY KernelReads
<1> QED BY <1>1, DataInvariant, PTL

(***************************************************************************)
(* Between iterations, when a snapshot is taken, rank 0's weights and      *)
(* momenta are those of the iterations it has counted; in benchmark mode   *)
(* as well.                                                                *)
(***************************************************************************)
THEOREM SnapshotsCurrent ==
  ASSUME JobOK, ShapesOK PROVE RunSpec /\ DataPlan => []SnapshotCurrent
<1>1. DataInv => SnapshotCurrent
  BY SnapshotReads
<1> QED BY <1>1, DataInvariant, PTL

=============================================================================
