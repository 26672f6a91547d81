---------------------------- MODULE KernelCatalog ----------------------------
(***************************************************************************)
(* The hundred problems of verify_kernelbench_l1_cpu: each a kernel of the *)
(* substrate called by positional integers on flat arrays and PyTorch's    *)
(* operator on tensors.                                                    *)
(*                                                                         *)
(* A result is a function of the flat index of an element to the set of    *)
(* what it is made of: tuples of flat indices into the operands (or of an  *)
(* index and its part in the formula).  The kernels compute by slices and  *)
(* offsets, as their loops do; PyTorch by the definition over coordinates. *)
(* The extents that only repeat (batches, images, rows) are smaller than   *)
(* the script's; the windows, strides, paddings, dilations and groups are  *)
(* the script's.                                                           *)
(***************************************************************************)
EXTENDS RowMajor

---------------------------------------------------------------------------
(* Convolutions of one, two and three dimensions.  A scalar stride, padding *)
(* or dilation stands for one in each.                                     *)

Spread(n, v) == [i \in 1..n |-> v]
Conv(cin, size, cout, k, s, p, d, g) ==
  [kind |-> "conv", cin |-> cin, size |-> size, cout |-> cout, k |-> k, s |-> s, p |-> p, d |-> d,
   op |-> << >>, g |-> g]
ConvT(cin, size, cout, k, s, p, op, d, g) ==
  [Conv(cin, size, cout, k, s, p, d, g) EXCEPT !.kind = "convT", !.op = op]

\* The integers of a call, in the order of the kernel's parameters ...
SlipArgs(q) == <<1, q.cin>> \o q.size \o <<q.cout>> \o q.k \o q.s \o q.p \o q.d \o q.op \o <<q.g>>
Args(q) == <<1, q.cin>> \o q.size \o <<q.cout>> \o q.k \o q.s \o q.p \o q.op \o q.d \o <<q.g>>
\* ... and what a kernel of n dimensions makes of them.
Params(a, n, transposed) ==
  LET at(j) == SubSeq(a, 3 + j * n, 2 + (j + 1) * n)           \* before Cout
      past(j) == SubSeq(a, 4 + j * n, 3 + (j + 1) * n)         \* after it
      t == IF transposed THEN 1 ELSE 0
  IN [N |-> a[1], cin |-> a[2], size |-> at(0), cout |-> a[3 + n], k |-> past(1), s |-> past(2),
      p |-> past(3), op |-> IF transposed THEN past(4) ELSE Spread(n, 0), d |-> past(4 + t),
      g |-> a[4 + ((5 + t) * n)]]

OutSize(v, transposed) ==
  [i \in DOMAIN v.size |->
     IF transposed THEN (v.size[i] - 1) * v.s[i] - 2 * v.p[i] + v.d[i] * (v.k[i] - 1) + v.op[i] + 1
     ELSE (v.size[i] + 2 * v.p[i] - v.d[i] * (v.k[i] - 1) - 1) \div v.s[i] + 1]
\* Where window position w of step i lies.
Reach(v, i, w) == [x \in DOMAIN v.size |-> i[x] * v.s[x] - v.p[x] + w[x] * v.d[x]]

\* im2col and a product per group: the group's slices of input, weight, output.
ConvKernel(v) ==
  LET out == OutSize(v, FALSE)   sp == Size(out)   in == Size(v.size)   taps == Size(v.k)
      cinG == v.cin \div v.g     coutG == v.cout \div v.g
      im == [p \in 0 .. sp - 1 |-> {t \in {<<Reach(v, At(out, p), At(v.k, w)), w>> : w \in 0 .. taps - 1} :
                                      Inside(v.size, t[1])}]
      col == [p \in 0 .. sp - 1 |-> {<<Flat(v.size, t[1]), t[2]>> : t \in im[p]}]
  IN [o \in 0 .. v.N * v.cout * sp - 1 |->
        LET n == o \div (v.cout * sp)    ch == (o \div sp) % v.cout
            g == ch \div coutG           co == ch % coutG
        IN {<<((n * v.cin) + g * cinG + c) * in + t[1], (g * coutG + co) * cinG * taps + c * taps + t[2]>> :
              c \in 0 .. cinG - 1, t \in col[o % sp]}]

\* A product with the transposed weights and col2im, which adds up columns.
ConvTKernel(v) ==
  LET out == OutSize(v, TRUE)    sp == Size(out)   in == Size(v.size)   taps == Size(v.k)
      cinG == v.cin \div v.g     coutG == v.cout \div v.g
      im == [h \in Indices(v.size) \X Indices(v.k) |-> Reach(v, At(v.size, h[1]), At(v.k, h[2]))]
      hits == [p \in 0 .. sp - 1 |-> LET at == At(out, p) IN {h \in DOMAIN im : im[h] = at}]
  IN [o \in 0 .. v.N * v.cout * sp - 1 |->
        LET n == o \div (v.cout * sp)    ch == (o \div sp) % v.cout
            g == ch \div coutG           co == ch % coutG
        IN {<<((n * v.cin) + g * cinG + ci) * in + h[1],
              g * cinG * coutG * taps + (ci * coutG + co) * taps + h[2]>> :
              ci \in 0 .. cinG - 1, h \in hits[o % sp]}]

\* PyTorch: weights (Cout, Cin/groups, k), of the transposed one (Cin, Cout/groups, k).
ConvDefined(q) ==
  LET t == q.kind = "convT"
      v == [q EXCEPT !.op = IF t THEN q.op ELSE Spread(Len(q.size), 0)]
      out == OutSize(v, t)
      own(co) == {ci \in 0 .. q.cin - 1 : ci \div (q.cin \div q.g) = co \div (q.cout \div q.g)}
      wDims == (IF t THEN <<q.cin, q.cout \div q.g>> ELSE <<q.cout, q.cin \div q.g>>) \o q.k
      weight(co, ci, w) == Flat(wDims, (IF t THEN <<ci, co % (q.cout \div q.g)>>
                                             ELSE <<co, ci % (q.cin \div q.g)>>) \o w)
      reached == [h \in (IF t THEN Grid(q.size) ELSE Grid(out)) \X Grid(q.k) |-> Reach(v, h[1], h[2])]
      pairs == [at \in Grid(out) |-> IF t THEN {h \in DOMAIN reached : reached[h] = at}
                  ELSE {h \in {<<reached[<<at, w>>], w>> : w \in Grid(q.k)} : Inside(q.size, h[1])}]
  IN [o \in Indices(<<1, q.cout>> \o out) |->
        LET c == At(<<1, q.cout>> \o out, o)
        IN {<<Flat(<<1, q.cin>> \o q.size, <<c[1], ci>> \o h[1]), weight(c[2], ci, h[2])>> :
              ci \in own(c[2]), h \in pairs[SubSeq(c, 3, Len(c))]}]

---------------------------------------------------------------------------
(* Pools: the two-dimensional kernels take a padding that is not passed    *)

Pool(avg, size, k, s) == [kind |-> "pool", avg |-> avg, size |-> size, k |-> k, s |-> s]
PoolReads(q, p) ==
  LET n == Len(q.size)
      v == [size |-> q.size, k |-> q.k, s |-> Spread(n, q.s), p |-> Spread(n, p), d |-> Spread(n, 1)]
      out == OutSize(v, FALSE)
  IN [o \in Indices(<<2>> \o out) |->
        LET c == At(<<2>> \o out, o)
            in == {i \in {Reach(v, Tail(c), w) : w \in Grid(q.k)} : Inside(q.size, i)}
        IN [of |-> {c[1] * Size(q.size) + Flat(q.size, i) : i \in in},
            by |-> IF ~q.avg THEN 1 ELSE IF n = 2 THEN Cardinality(in) ELSE Size(q.k)]]
PoolKernel(q, junk) == PoolReads(q, IF Len(q.size) = 2 THEN junk ELSE 0)
PoolDefined(q) == PoolReads(q, 0)

---------------------------------------------------------------------------
(* Products                                                                *)

Mm(batch, own, M, N, K) == [kind |-> "mm", batch |-> batch, own |-> own, M |-> M, N |-> N, K |-> K]
\* bmm multiplies slice by slice; a shared right operand makes it one product
\* of all the rows.
MmKernel(q) ==
  LET b == IF q.own THEN q.batch ELSE 1
      M == IF q.own THEN q.M ELSE q.batch * q.M
  IN [o \in 0 .. b * M * q.N - 1 |->
        LET s == o \div (M * q.N)   m == (o \div q.N) % M   n == o % q.N
        IN {<<s * M * q.K + m * q.K + k, s * q.K * q.N + k * q.N + n>> : k \in 0 .. q.K - 1}]
MmDefined(q) ==
  LET dims == <<q.batch, q.M, q.N>>
  IN [o \in Indices(dims) |->
        LET c == At(dims, o)
        IN {<<Flat(<<q.batch, q.M, q.K>>, <<c[1], c[2], k>>),
              Flat(<<q.batch, q.K, q.N>>, <<IF q.own THEN c[1] ELSE 0, k, c[3]>>)>> : k \in 0 .. q.K - 1}]

Diag(M, N) == [kind |-> "diag", M |-> M, N |-> N]
DiagKernel(q)  == [o \in 0 .. q.M * q.N - 1 |-> {<<o \div q.N, o>>}]
DiagDefined(q) == [o \in Indices(<<q.M, q.N>>) |-> LET c == At(<<q.M, q.N>>, o)
                                                   IN {<<c[1], Flat(<<q.M, q.N>>, c)>>}]

\* Heads: scores of a query with every key, and the values they weigh.
Sdpa(h, S, E) == [kind |-> "sdpa", h |-> h, S |-> S, E |-> E]
SdpaKernel(q) ==
  [o \in 0 .. q.h * q.S * q.E - 1 |->
     LET slot == (o \div (q.S * q.E)) * q.S * q.E
         s == (o \div q.E) % q.S   e == o % q.E
     IN {<<slot + s * q.E + i, slot + t * q.E + i, slot + t * q.E + e>> : t \in 0 .. q.S - 1, i \in 0 .. q.E - 1}]
SdpaDefined(q) ==
  LET dims == <<q.h, q.S, q.E>>
  IN [o \in Indices(dims) |->
        LET c == At(dims, o)
        IN {<<Flat(dims, <<c[1], c[2], i>>), Flat(dims, <<c[1], t, i>>), Flat(dims, <<c[1], t, c[3]>>)>> :
              t \in 0 .. q.S - 1, i \in 0 .. q.E - 1}]

---------------------------------------------------------------------------
(* Element by element, in order, over an axis                              *)

Elementwise(n) == [kind |-> "each", n |-> n]
EachKernel(q) == [o \in 0 .. q.n - 1 |-> {<<o>>}]

Scan(how, r, n) == [kind |-> "scan", how |-> how, rows |-> r, n |-> n]
\* The running sum as the loops leave it ...
ScanKernel(q) ==
  [o \in 0 .. q.rows * q.n - 1 |->
     LET row == (o \div q.n) * q.n
     IN {<<i>> : i \in CASE q.how = "reverse"   -> o .. row + q.n - 1
                         [] q.how = "exclusive" -> row .. o - 1
                         [] OTHER               -> row .. o}]
\* ... and as flips, a shift behind a zero, or PyTorch's cumsum.
ScanDefined(q) ==
  LET flip(i) == q.n - 1 - i
      upto(i) == {j \in 0 .. q.n - 1 : j <= i}
      sums(i) == CASE q.how = "reverse"   -> {flip(j) : j \in upto(flip(i))}
                   [] q.how = "exclusive" -> IF i = 0 THEN {} ELSE upto(i - 1)
                   [] OTHER               -> upto(i)
  IN [o \in Indices(<<q.rows, q.n>>) |->
        LET c == At(<<q.rows, q.n>>, o) IN {<<Flat(<<q.rows, q.n>>, <<c[1], j>>)>> : j \in sums(c[2])}]

\* over: the axes reduced; of an index the reduction also keeps its place there.
Reduce(index, dims, over) == [kind |-> "reduce", index |-> index, dims |-> dims, over |-> over]
ReduceKernel(q) ==
  LET outer == IF Len(q.dims) = 1 THEN 1 ELSE q.dims[1]
      dim   == IF Len(q.dims) = 1 THEN q.dims[1] ELSE q.dims[2]
      inner == IF Len(q.dims) = 1 THEN 1 ELSE q.dims[3]
  IN [o \in 0 .. outer * inner - 1 |->
        {<<((o \div inner) * dim + k) * inner + (o % inner), IF q.index THEN k ELSE 0>> : k \in 0 .. dim - 1}]
ReduceDefined(q) ==
  LET kept == SelectSeq([i \in DOMAIN q.dims |-> i], LAMBDA i : i # q.over)
      dims == [i \in DOMAIN kept |-> q.dims[kept[i]]]
  IN [o \in Indices(dims) |->
        {<<f, IF q.index THEN At(q.dims, f)[q.over] ELSE 0>> :
           f \in {f \in Indices(q.dims) : [i \in DOMAIN kept |-> At(q.dims, f)[kept[i]]] = At(dims, o)}}]

\* An element and those it is normalised over: slices of the array (run long),
\* or every stride-th of a slice; and whose weight it takes.
Norm(how, dims, keep, weight) ==
  [kind |-> "norm", how |-> how, dims |-> dims, keep |-> keep, weight |-> weight]
NormKernel(q) ==
  LET C == q.dims[2]
      sp == Size(SubSeq(q.dims, 3, Len(q.dims)))
      run == CASE q.how = "rows" -> C                        \* softmax, layernorm, l1, l2
               [] q.how = "instance" -> sp
               [] q.how = "group" -> q.dims[3] * Stride(q.dims, 3)
               [] q.how = "frobenius" -> Size(q.dims)
               [] OTHER -> 1
      group(o) == IF q.how = "rms" THEN {(o \div (C * sp)) * C * sp + c * sp + (o % sp) : c \in 0 .. C - 1}
                  ELSE (o \div run) * run .. (o \div run) * run + run - 1
      channel(o) == CASE q.how = "rows"  -> o % C
                      [] q.how = "group" -> (o \div Stride(q.dims, 3)) % (C * q.dims[3])
                      [] q.how = "batch" -> (o \div sp) % C
                      [] OTHER -> 0
  IN [o \in Indices(q.dims) |-> [of |-> o, over |-> group(o), weight |-> IF q.weight = {} THEN 0 ELSE channel(o)]]
NormDefined(q) ==
  LET Agree(f, o, axes) == \A i \in axes : At(q.dims, f)[i] = At(q.dims, o)[i]
      axes == SetToSortSeq(q.weight, <)
      weight(o) == Flat([i \in DOMAIN axes |-> q.dims[axes[i]]], [i \in DOMAIN axes |-> At(q.dims, o)[axes[i]]])
  IN [o \in Indices(q.dims) |->
        [of |-> o, over |-> {f \in Indices(q.dims) : Agree(f, o, q.keep)}, weight |-> weight(o)]]

\* Losses: what is paired, and what the sum is divided by.
Loss(how, r, cols) == [kind |-> "loss", how |-> how, rows |-> r, cols |-> cols]
LossKernel(q) ==
  LET n == q.rows * q.cols
  IN [of |-> CASE q.how = "classes" -> {<<b * q.cols + c, b>> : b \in 0 .. q.rows - 1, c \in 0 .. q.cols - 1}
               [] OTHER -> {<<i, i>> : i \in 0 .. n - 1},
      by |-> IF q.how = "each" THEN n ELSE q.rows]
LossDefined(q) ==
  LET dims == <<q.rows, q.cols>>
  IN [of |-> {<<Flat(dims, c), IF q.how = "classes" THEN c[1] ELSE Flat(dims, c)>> : c \in Grid(dims)},
      by |-> IF q.how = "each" THEN Size(dims) ELSE dims[1]]

---------------------------------------------------------------------------
(* The catalogue                                                           *)

Computed(q, junk) ==
  CASE q.kind \in {"conv", "convT"} ->
         LET v == Params(Args(q), Len(q.size), q.kind = "convT")
         IN IF q.kind = "conv" THEN ConvKernel(v) ELSE ConvTKernel(v)
    [] q.kind = "pool"   -> PoolKernel(q, junk)
    [] q.kind = "mm"     -> MmKernel(q)
    [] q.kind = "diag"   -> DiagKernel(q)
    [] q.kind = "sdpa"   -> SdpaKernel(q)
    [] q.kind = "each"   -> EachKernel(q)
    [] q.kind = "scan"   -> ScanKernel(q)
    [] q.kind = "reduce" -> ReduceKernel(q)
    [] q.kind = "norm"   -> NormKernel(q)
    [] q.kind = "loss"   -> LossKernel(q)
Defined(q) ==
  CASE q.kind \in {"conv", "convT"} -> ConvDefined(q)
    [] q.kind = "pool"   -> PoolDefined(q)
    [] q.kind = "mm"     -> MmDefined(q)
    [] q.kind = "diag"   -> DiagDefined(q)
    [] q.kind = "sdpa"   -> SdpaDefined(q)
    [] q.kind = "each"   -> EachKernel(q)
    [] q.kind = "scan"   -> ScanDefined(q)
    [] q.kind = "reduce" -> ReduceDefined(q)
    [] q.kind = "norm"   -> NormDefined(q)
    [] q.kind = "loss"   -> LossDefined(q)

\* Python's buffer has PyTorch's extents: what a kernel writes past them is lost, and
\* what it does not write is not the result.
Agree(q, junk) ==
  LET ref == Defined(q)   got == Computed(q, junk)
  IN IF q.kind = "loss" THEN got = ref ELSE \A o \in DOMAIN ref : o \in DOMAIN got /\ got[o] = ref[o]

One(n) == Spread(n, 1)
Nil(n) == Spread(n, 0)
C1(k, s, p, d, g) == Conv(2 * g, <<6>>, 2 * g, <<k>>, <<s>>, <<p>>, <<d>>, g)
C2(size, k, s, p, d, g) == Conv(2 * g, size, 2 * g, k, s, p, d, g)
C3(size, k, p) == Conv(2, size, 2, k, One(3), p, One(3), 1)
T1(s, p, d) == ConvT(2, <<4>>, 3, <<3>>, <<s>>, <<p>>, <<0>>, <<d>>, 1)
T2(size, k, s, p, d, g) == ConvT(2 * g, size, 3 * g, k, Spread(2, s), p, Nil(2), Spread(2, d), g)
T3(size, k, s, p, d, g, cout) == ConvT(2 * g, size, cout * g, k, Spread(3, s), p, Nil(3), Spread(3, d), g)
Depthwise(size, k, p) == Conv(3, size, 3, k, One(2), p, One(2), 3)
NCHW == <<2, 4, 6>>

\* The kernel a problem needs and how it calls it.
P(kernel, q) == [kernel |-> kernel, call |-> q]
Cnv(n, q) == P(<<"conv1d", "conv2d", "conv3d">>[n], q)
Trs(n, q) == P(<<"conv_transpose1d", "conv_transpose2d", "conv_transpose3d">>[n], q)
Each(kernel) == P(kernel, Elementwise(3))
Square == P("mm", Mm(1, TRUE, 3, 3, 3))

Matmuls ==
  <<Square, P("mm", Mm(1, TRUE, 2, 4, 3)), P("bmm", Mm(2, TRUE, 2, 2, 3)), P("mm", Mm(1, TRUE, 4, 1, 2)),
    P("scalar_mul", Elementwise(6)), P("mm", Mm(1, TRUE, 2, 2, 6)), P("mm", Mm(1, TRUE, 4, 4, 2)),
    P("mm", Mm(1, TRUE, 3, 4, 5)), P("mm", Mm(1, TRUE, 6, 2, 3)), P("3d_tensor_matmul", Mm(2, FALSE, 2, 4, 3)),
    P("4d_tensor_matmul", Mm(4, FALSE, 2, 4, 3)), P("diag_matmul", Diag(2, 3))>> \o [i \in 1..6 |-> Square]
Rows(kernel, weight) == P(kernel, Norm("rows", <<2, 3>>, {1}, weight))
Activations ==
  <<Each("relu"), Each("leaky_relu"), Each("sigmoid"), Each("tanh"), Rows("softmax", {}), Rows("logsoftmax", {}),
    Each("silu"), Each("gelu"), Each("selu"), Each("hardsigmoid"), Each("softplus"), Each("softsign"),
    Each("elu"), Each("clamp")>>
Norms ==
  <<P("batchnorm", Norm("batch", NCHW, {1, 2, 3}, {2})), P("instancenorm", Norm("instance", NCHW, {1, 2}, {})),
    P("groupnorm", Norm("group", <<2, 2, 2, 3>>, {1, 2}, {2, 3})), P("rmsnorm", Norm("rms", NCHW, {1, 3}, {})),
    P("frobenius_norm", Norm("frobenius", NCHW, {}, {})), Rows("l1norm", {}), Rows("l2norm", {}),
    Rows("layernorm", {2})>>
Pools ==
  <<P("maxpool1d", Pool(FALSE, <<8>>, <<4>>, 2)), P("maxpool2d", Pool(FALSE, <<4, 4>>, <<2, 2>>, 2)),
    P("maxpool3d", Pool(FALSE, <<4, 4, 4>>, <<2, 2, 2>>, 2)), P("avgpool1d", Pool(TRUE, <<8>>, <<4>>, 2)),
    P("avgpool2d", Pool(TRUE, <<4, 4>>, <<2, 2>>, 2)), P("avgpool3d", Pool(TRUE, <<4, 4, 4>>, <<2, 2, 2>>, 2))>>
All(kernel) == P(kernel, Reduce(FALSE, <<5>>, 1))
Along(kernel, index) == P(kernel, Reduce(index, <<2, 3, 2>>, 2))
Convolutions ==
  <<Cnv(3, C3(<<3, 3, 3>>, <<3, 3, 3>>, One(3))), Cnv(2, C2(<<4, 5>>, <<3, 3>>, One(2), Nil(2), One(2), 1)),
    Cnv(2, C2(<<4, 5>>, <<3, 5>>, One(2), <<1, 2>>, One(2), 1)), Trs(2, T2(<<3, 3>>, <<3, 3>>, 2, Nil(2), 1, 1)),
    Trs(3, T3(<<2, 2, 3>>, <<3, 3, 5>>, 2, <<1, 1, 2>>, 1, 1, 2)), Cnv(3, C3(<<2, 3, 2>>, <<3, 3, 3>>, One(3))),
    Cnv(3, C3(<<2, 2, 2>>, <<3, 5, 3>>, <<1, 2, 1>>)), Trs(3, T3(<<2, 2, 2>>, <<3, 3, 3>>, 2, One(3), 1, 1, 2)),
    Cnv(2, C2(<<4, 6>>, <<3, 5>>, One(2), <<1, 2>>, <<2, 2>>, 1)), Cnv(2, C2(<<3, 3>>, <<3, 3>>, One(2), One(2), One(2), 1)),
    Trs(1, T1(2, 1, 1)), Trs(2, T2(<<3, 3>>, <<3, 5>>, 2, <<1, 2>>, 1, 1)),
    Cnv(3, C3(<<2, 3, 4>>, <<3, 3, 5>>, <<1, 1, 2>>)), Cnv(1, C1(3, 1, 1, 1, 1)),
    Trs(3, T3(<<2, 2, 2>>, <<3, 5, 3>>, 2, <<1, 2, 1>>, 1, 1, 2)), Trs(2, T2(<<3, 3>>, <<3, 5>>, 2, One(2), 1, 1)),
    Trs(3, T3(<<2, 3, 2>>, <<3, 3, 3>>, 2, One(3), 1, 1, 2)), Trs(2, T2(<<2, 3>>, <<3, 3>>, 2, One(2), 1, 1)),
    Trs(3, T3(<<2, 2, 2>>, <<3, 3, 3>>, 1, One(3), 1, 2, 1)), Trs(3, T3(<<2, 2, 2>>, <<3, 3, 3>>, 2, One(3), 1, 2, 2)),
    Trs(1, T1(1, 1, 2)), Trs(2, T2(<<3, 3>>, <<3, 3>>, 1, One(2), 2, 2)), Cnv(1, C1(3, 2, 1, 2, 1)),
    Trs(3, T3(<<2, 2, 2>>, <<3, 3, 3>>, 2, One(3), 2, 1, 2)), Trs(2, T2(<<3, 3>>, <<3, 3>>, 1, One(2), 1, 1)),
    Trs(1, T1(2, 1, 2)), Cnv(2, C2(<<4, 4>>, <<3, 5>>, One(2), <<2, 4>>, <<2, 2>>, 1)),
    Trs(2, T2(<<3, 3>>, <<3, 3>>, 2, One(2), 2, 1)), Cnv(2, Depthwise(<<3, 3>>, <<3, 3>>, One(2))),
    Cnv(2, Depthwise(<<3, 3>>, <<3, 5>>, <<1, 2>>)), Cnv(2, Depthwise(<<2, 4>>, <<3, 3>>, One(2))),
    Cnv(2, Depthwise(<<2, 4>>, <<3, 5>>, <<1, 2>>)), Cnv(2, Depthwise(<<3, 3>>, <<3, 3>>, One(2))),
    Cnv(2, Conv(3, <<3, 3>>, 4, <<1, 1>>, One(2), Nil(2), One(2), 1)), Each("mingpt_newgelu")>>
Cumulative ==
  <<P("cumsum", Scan("sum", 1, 4)), P("cumprod", Scan("prod", 1, 4)), P("cumsum_reverse", Scan("reverse", 1, 4)),
    P("cumsum_exclusive", Scan("exclusive", 1, 4)), P("masked_cumsum", Scan("masked", 2, 3))>>
Losses ==
  <<P("mse_loss", Loss("each", 1, 4)), P("cross_entropy_loss", Loss("classes", 3, 2)),
    P("huber_loss", Loss("each", 1, 4)), P("scaled_dot_product_attention", Sdpa(2, 3, 2)),
    P("kl_div_loss", Loss("batch", 2, 3)), P("triplet_margin_loss", Loss("rows", 2, 3)),
    P("hinge_loss", Loss("each", 1, 4))>>

Catalog ==
  Matmuls \o Activations \o Norms \o Pools \o <<All("sum"), All("mean"), All("max"),
    Cnv(2, C2(<<4, 4>>, <<3, 3>>, One(2), One(2), One(2), 1)),
    Along("argmax_dim", TRUE), Along("argmin_dim", TRUE), Along("min_dim", FALSE)>>
    \o Convolutions \o Cumulative \o Losses

Right  == {i \in DOMAIN Catalog : Agree(Catalog[i].call, 0)}
Padded == {i \in Right : Catalog[i].call.kind = "pool" => Agree(Catalog[i].call, 1)}
=============================================================================
