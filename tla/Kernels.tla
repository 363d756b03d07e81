--------------------------------- MODULE Kernels ---------------------------------
(***************************************************************************)
(* The kernels a generated program calls (codegen/utils/kernels.h), on     *)
(* tensors of integers.  Where a kernel applies a transcendental function, *)
(* any function that is not linear serves: what is asked of the kernels is *)
(* which cells a result depends on, and what can be summed.                *)
(***************************************************************************)
EXTENDS Integers, Sequences, FiniteSets, FiniteSetsExt

(* A tensor: the lengths of its axes, and an integer at each tuple of indices from 0. *)
Cells(dim) ==
  {c \in [DOMAIN dim -> 0 .. Max({dim[i] : i \in DOMAIN dim} \cup {1}) - 1] :
     \A i \in DOMAIN dim : c[i] < dim[i]}

Make(dim, F(_)) == [dim |-> dim, at |-> [c \in Cells(dim) |-> F(c)]]

Upto(n) == 0 .. n - 1

SumOver(S, F(_)) == MapThenSumSet(F, S)

---------------------------------------------------------------------------
(* Matrices. *)

matrixMatrixMul(a, b) ==
  Make(<<a.dim[1], b.dim[2]>>,
       LAMBDA c : SumOver(Upto(a.dim[2]), LAMBDA p : a.at[<<c[1], p>>] * b.at[<<p, c[2]>>]))

batchedadd(batch, slice) ==
  Make(batch.dim, LAMBDA c : batch.at[c] + slice.at[<<c[2]>>])

(* The sum of each slice, in the cells of a vector of sliceSize cells. *)
batchedreduceadd(batch) ==
  Make(<<batch.dim[2]>>,
       LAMBDA c : IF c[1] < batch.dim[1]
                  THEN SumOver(Upto(batch.dim[2]), LAMBDA i : batch.at[<<c[1], i>>]) ELSE 0)

(* The shuffle {1, 0}. *)
transpose2d(a) == Make(<<a.dim[2], a.dim[1]>>, LAMBDA c : a.at[<<c[2], c[1]>>])

matrixTanh(a) == Make(a.dim, LAMBDA c : a.at[c] * a.at[c] * a.at[c])

(* Of the output b, and its gradient. *)
matrixTanhGrad(b, dy) == Make(b.dim, LAMBDA c : (1 - b.at[c] * b.at[c]) * dy.at[c])

relu(x) == Make(x.dim, LAMBDA c : IF x.at[c] > 0 THEN x.at[c] ELSE 0)

reluGrad(x, dy) == Make(x.dim, LAMBDA c : IF x.at[c] > 0 THEN dy.at[c] ELSE 0)

(* exp(x - max) / sum: of the whole row. *)
matrixSoftmax(a) ==
  Make(a.dim, LAMBDA c : LET Row(j) == a.at[<<c[1], j>>]
                         IN  (100 * 3 ^ (Row(c[2]) + 9)) \div SumOver(Upto(a.dim[2]), LAMBDA j : 3 ^ (Row(j) + 9)))

(* The mean over the rows of what each loses at its label; twelfths, so that it divides. *)
meanLoss(a, selected) ==
  Make(<<1>>, LAMBDA c :
         (12 * SumOver(Upto(a.dim[1]), LAMBDA i :
                         SumOver(Upto(a.dim[2]), LAMBDA j : a.at[<<i, j>>]) - a.at[<<i, selected.at[<<i>>]>>]))
           \div a.dim[1])

matrixSoftmaxWithLossGrad(selected, b) ==
  Make(b.dim, LAMBDA c : b.at[c] - (IF selected.at[<<c[1]>>] = c[2] THEN 1 ELSE 0))

(* The j-th best index of a row; of equal values the higher index comes first. *)
argMax(a, top) ==
  LET Better(i, j, k) == \/ a.at[<<i, j>>] > a.at[<<i, k>>]
                         \/ a.at[<<i, j>>] = a.at[<<i, k>>] /\ j > k
  IN  Make(<<a.dim[1], top>>, LAMBDA c :
             CHOOSE k \in Upto(a.dim[2]) :
               Cardinality({j \in Upto(a.dim[2]) : Better(c[1], j, k)}) = c[2])

(* The count of rows whose label is predicted, and of all rows. *)
accuracy(pred, label) ==
  Make(<<2>>, LAMBDA c :
         IF c[1] = 1 THEN pred.dim[1]
         ELSE Cardinality({i \in Upto(pred.dim[1]) :
                             \E j \in Upto(pred.dim[2]) : pred.at[<<i, j>>] = label.at[<<i, 0>>]}))

---------------------------------------------------------------------------
(* Images: batch, height, width, channel.  A window has a size, a stride and padding per axis. *)

(* Where the k-th cell of the window lies that makes output cell o. *)
At(o, k, win) ==
  <<o[2] * win.stride[1] - win.pad[1] + k[1], o[3] * win.stride[2] - win.pad[2] + k[2]>>

(* The cells of the window of o that lie in the image. *)
Taps(dim, o, win) ==
  {k \in Upto(win.kernel[1]) \X Upto(win.kernel[2]) :
     At(o, k, win)[1] \in Upto(dim[2]) /\ At(o, k, win)[2] \in Upto(dim[3])}

OutLength(dim, win, axis) ==
  (dim[axis + 1] + 2 * win.pad[axis] - win.kernel[axis]) \div win.stride[axis] + 1

(* The length of the axes of the output of a window over an image, of channels channels. *)
OutDim(dim, win, channels) == <<dim[1], OutLength(dim, win, 1), OutLength(dim, win, 2), channels>>

Input(x, o, k, win, c) == x.at[<<o[1], At(o, k, win)[1], At(o, k, win)[2], c>>]

conv2d(x, f, bias, win) ==
  Make(OutDim(x.dim, win, f.dim[1]), LAMBDA o :
         bias.at[<<o[4]>>]
           + SumOver(Taps(x.dim, o, win) \X Upto(x.dim[4]), LAMBDA t :
                       Input(x, o, t[1], win, t[2]) * f.at[<<o[4], t[1][1], t[1][2], t[2]>>]))

(* Mutant: a window that begins in the padding is skipped. *)
VisitsInside(dim, odim, win) ==
  UNION {{<<o, k>> : k \in {m \in Taps(dim, o, win) : <<0, 0>> \in Taps(dim, o, win)}} : o \in Cells(odim)}

(* Every output cell o with a tap k in its window: what the loops of conv2dGrad visit. *)
Visits(dim, odim, win) ==
  UNION {{<<o, k>> : k \in Taps(dim, o, win)} : o \in Cells(odim)}

conv2dInputGrad(dy, x, f, win) ==
  LET visits == Visits(x.dim, dy.dim, win)
  IN  Make(x.dim, LAMBDA i :
             SumOver({v \in visits : v[1][1] = i[1] /\ At(v[1], v[2], win) = <<i[2], i[3]>>},
                     LAMBDA v : f.at[<<v[1][4], v[2][1], v[2][2], i[4]>>] * dy.at[v[1]]))

conv2dFilterGrad(dy, x, f, win) ==
  LET visits == Visits(x.dim, dy.dim, win)
  IN  Make(f.dim, LAMBDA i :
             SumOver({v \in visits : v[1][4] = i[1] /\ v[2] = <<i[2], i[3]>>},
                     LAMBDA v : Input(x, v[1], v[2], win, i[4]) * dy.at[v[1]]))

(* Added where the first cell of the window is in the image. *)
conv2dBiasGrad(dy, x, f, win) ==
  LET visits == Visits(x.dim, dy.dim, win)
  IN  Make(<<f.dim[1]>>, LAMBDA i :
             SumOver({v \in visits : v[1][4] = i[1] /\ v[2] = <<0, 0>>}, LAMBDA v : dy.at[v[1]]))

(* The first of the greatest cells of the window of o. *)
Greatest(x, o, win) ==
  CHOOSE k \in Taps(x.dim, o, win) :
    \A m \in Taps(x.dim, o, win) \ {k} :
      LET a == Input(x, o, k, win, o[4])
          b == Input(x, o, m, win, o[4])
      IN  a > b \/ (a = b /\ (k[1] < m[1] \/ (k[1] = m[1] /\ k[2] < m[2])))

maxpool(x, win) ==
  Make(OutDim(x.dim, win, x.dim[4]), LAMBDA o : Input(x, o, Greatest(x, o, win), win, o[4]))

maxpoolGrad(dy, x, win) ==
  Make(x.dim, LAMBDA i :
         SumOver({o \in Cells(dy.dim) : /\ o[1] = i[1] /\ o[4] = i[4]
                                        /\ At(o, Greatest(x, o, win), win) = <<i[2], i[3]>>},
                 LAMBDA o : dy.at[o]))

avgpool(x, win) ==
  Make(OutDim(x.dim, win, x.dim[4]), LAMBDA o :
         SumOver(Taps(x.dim, o, win), LAMBDA k : Input(x, o, k, win, o[4]))
           \div (win.kernel[1] * win.kernel[2]))
=============================================================================
