---------------------------- MODULE KernelLayouts ----------------------------
(***************************************************************************)
(* The index arithmetic of the CUDA kernels that bit_identical_v2 and v3   *)
(* launch, as threads of a grid, and of the references they are compared   *)
(* with: im2col, col2im and the pools.                                     *)
(***************************************************************************)
EXTENDS RowMajor

(* v: fwd, the batch and channels, the image, and per axis the window k,   *)
(* stride s, padding p and dilation d; block: threads along the last axis. *)

Axes(v) == DOMAIN v.size
Out(v) == [i \in Axes(v) |->
             IF v.fwd THEN (v.size[i] + 2 * v.p[i] - v.d[i] * (v.k[i] - 1) - 1) \div v.s[i] + 1
             ELSE (v.size[i] - 1) * v.s[i] - 2 * v.p[i] + v.d[i] * (v.k[i] - 1) + 1]
Reach(v, o, w) == [i \in Axes(v) |-> o[i] * v.s[i] - v.p[i] + w[i] * v.d[i]]
Ceil(a, b) == (a + b - 1) \div b

\* The threads of a launch, along the axes x, y and z of its grid.
Launched(v) ==
  LET n == Len(v.size)   out == Out(v)
      y == IF n = 1 THEN IF v.fwd THEN v.B ELSE v.C ELSE IF n = 3 /\ ~v.fwd THEN out[1] * out[2] ELSE out[n - 1]
      z == IF n = 1 THEN IF v.fwd THEN 1 ELSE v.B
           ELSE IF ~v.fwd THEN v.B * v.C ELSE IF n = 2 THEN v.B ELSE v.B * out[1]
  IN (0 .. Ceil(out[n], v.block) * v.block - 1) \X (0 .. y - 1) \X (0 .. z - 1)

\* What thread t takes itself for: its image, channel and position.
PlaceTaken(v, t) ==
  LET n == Len(v.size)   out == Out(v)   x == t[1]   y == t[2]   z == t[3]
  IN CASE v.fwd  /\ n = 1 -> [b |-> y, c |-> 0, at |-> <<x>>]
       [] v.fwd  /\ n = 2 -> [b |-> z, c |-> 0, at |-> <<y, x>>]
       [] v.fwd  /\ n = 3 -> [b |-> z \div out[1], c |-> 0, at |-> <<z % out[1], y, x>>]
       [] ~v.fwd /\ n = 1 -> [b |-> z, c |-> y, at |-> <<x>>]
       [] ~v.fwd /\ n = 2 -> [b |-> z \div v.C, c |-> z % v.C, at |-> <<y, x>>]
       [] ~v.fwd /\ n = 3 -> [b |-> z \div v.C, c |-> z % v.C, at |-> <<y \div out[2], y % out[2], x>>]
Threads(v) == {p \in {PlaceTaken(v, t) : t \in Launched(v)} : p.b < v.B /\ Inside(Out(v), p.at)}

\* im2col: element and what is written there, an index of X or -1 for a zero.
From(v, b, c, i) == IF Inside(v.size, i) THEN Flat(<<v.B, v.C>> \o v.size, <<b, c>> \o i) ELSE -1
ImKernel(v) ==
  {LET row == Flat(<<v.B>> \o Out(v), <<p.b>> \o p.at)
       col == Flat(<<v.C>> \o v.k, <<c>> \o w)
   IN <<row * v.C * Size(v.k) + col, From(v, p.b, c, Reach(v, p.at, w))>> :
     p \in Threads(v), c \in 0 .. v.C - 1, w \in Grid(v.k)}
\* unfold gives (B, C k, out), which is transposed and given the extents (B, out, C, k).
ImDefined(v) ==
  LET out == Out(v)
      unfold == [u \in Grid(<<v.B, v.C * Size(v.k), Size(out)>>) |->
                   From(v, u[1], u[2] \div Size(v.k), Reach(v, At(out, u[3]), At(v.k, u[2] % Size(v.k))))]
  IN {<<Flat(<<v.B, Size(out), v.C * Size(v.k)>>, <<u[1], u[3], u[2]>>), unfold[u]>> : u \in DOMAIN unfold}

\* col2im: each element gathers the entries of the matrix that a step reaches.
CDiv(a, b) == IF a >= 0 THEN a \div b ELSE -((-a) \div b)
CRem(a, b) == a - b * CDiv(a, b)
Entry(v, b, c, o, w) == Flat(<<v.B>> \o v.size \o <<v.C>> \o v.k, <<b>> \o o \o <<c>> \o w)
ImageAt(v, b, c, l) == Flat(<<v.B, v.C>> \o Out(v), <<b, c>> \o l)
Back(v, l, w) == [i \in Axes(v) |-> l[i] + v.p[i] - w[i] * v.d[i]]
Gathered(v, b, c, l, C) == \* C: by the division of C, or by Python's
  LET step(w) == [i \in Axes(v) |-> IF C THEN CDiv(Back(v, l, w)[i], v.s[i]) ELSE Back(v, l, w)[i] \div v.s[i]]
      exact(w) == \A i \in Axes(v) : (IF C THEN CRem(Back(v, l, w)[i], v.s[i]) ELSE Back(v, l, w)[i] % v.s[i]) = 0
  IN {Entry(v, b, c, step(w), w) : w \in {w \in Grid(v.k) : exact(w) /\ Inside(v.size, step(w))}}
GatherKernel(v) ==
  {<<ImageAt(v, p.b, p.c, p.at), Gathered(v, p.b, p.c, p.at, TRUE)>> : p \in Threads(v)}
GatherLoops(v) ==
  {<<ImageAt(v, q[1], q[2], Tail(Tail(q))), Gathered(v, q[1], q[2], Tail(Tail(q)), FALSE)>> :
     q \in Grid(<<v.B, v.C>> \o Out(v))}
\* By definition an entry is added where its step and window reach.
Scattered(v) ==
  LET hits == {h \in Grid(v.size) \X Grid(v.k) : Inside(Out(v), Reach(v, h[1], h[2]))}
  IN {<<ImageAt(v, q[1], q[2], Tail(Tail(q))),
        {Entry(v, q[1], q[2], h[1], h[2]) : h \in {h \in hits : Reach(v, h[1], h[2]) = Tail(Tail(q))}}>> :
        q \in Grid(<<v.B, v.C>> \o Out(v))}

\* A pool: a thread per output of an image's channel, that counts what it reads.
PoolOut(v) == [i \in Axes(v) |-> (v.size[i] + 2 * v.p[i] - v.k[i]) \div v.s[i] + 1]
Window(v, b, c, at) ==
  LET in == {i \in {Reach(v, at, w) : w \in Grid(v.k)} : Inside(v.size, i)}
  IN <<Flat(<<v.B, v.C>> \o PoolOut(v), <<b, c>> \o at), {From(v, b, c, i) : i \in in}, Cardinality(in)>>
PoolKernel(v) ==
  LET out == PoolOut(v)
      threads == (0 .. Ceil(Size(out), v.block) * v.block - 1) \X (0 .. v.C - 1) \X (0 .. v.B - 1)
  IN {Window(v, t[3], t[2], <<t[1] \div out[2], t[1] % out[2]>>) : t \in {t \in threads : t[1] \div out[2] < out[1]}}
PoolLoops(v) == {Window(v, q[1], q[2], Tail(Tail(q))) : q \in Grid(<<v.B, v.C>> \o PoolOut(v))}

Same(n, a) == [i \in 1..n |-> a]
Matrix(fwd, B, C, size, k, p, block) ==
  [fwd |-> fwd, B |-> B, C |-> C, size |-> size, k |-> k, s |-> Same(Len(k), 1), p |-> p, d |-> Same(Len(k), 1), block |-> block]
Layout(name) ==
  CASE name = "conv_2d_forward"   -> Matrix(TRUE, 2, 3, <<4, 4>>, <<3, 3>>, <<1, 1>>, 16)
    [] name = "conv_1d_forward"   -> Matrix(TRUE, 2, 3, <<16>>, <<3>>, <<1>>, 64)
    [] name = "conv_3d_forward"   -> Matrix(TRUE, 1, 2, <<4, 4, 4>>, <<2, 2, 2>>, <<0, 0, 0>>, 16)
    [] name = "conv_transpose_1d" -> Matrix(FALSE, 2, 3, <<8>>, <<3>>, <<0>>, 32)
    [] name = "conv_transpose_2d" -> Matrix(FALSE, 2, 3, <<4, 5>>, <<3, 3>>, <<0, 0>>, 16)
    [] name = "conv_transpose_3d" -> Matrix(FALSE, 1, 2, <<3, 3, 3>>, <<2, 2, 2>>, <<0, 0, 0>>, 16)
    [] OTHER                      -> Matrix(TRUE, 2, 3, <<8, 8>>, <<3, 3>>, <<0, 0>>, 64)
Forwards == {"conv_2d_forward", "conv_1d_forward", "conv_3d_forward"}
Transposes == {"conv_transpose_1d", "conv_transpose_2d", "conv_transpose_3d"}
Pools == {"pool_2d_max", "pool_2d_avg"}
\* The kernels whose indices are their references'.
IndexedRight ==
  {n \in Forwards : ImKernel(Layout(n)) = ImDefined(Layout(n))}
    \cup {n \in Transposes : GatherKernel(Layout(n)) = GatherLoops(Layout(n))}
    \cup {n \in Pools : PoolKernel(Layout(n)) = PoolLoops(Layout(n))}

\* The indices of every kernel launched are its reference's.
IndicesAreRight == Forwards \cup Transposes \cup Pools = IndexedRight
\* The gather of col2im is the scatter that defines it, at any stride, padding and
\* dilation.
GatherIsScatter ==
  \A n \in 1..2, s \in 1..3, p \in 0..1, d \in 1..2 :
    LET v == [Matrix(FALSE, 1, 1, Same(n, 3), Same(n, 2), Same(n, p), 4) EXCEPT !.s = Same(n, s), !.d = Same(n, d)]
    IN GatherKernel(v) = Scattered(v) /\ GatherLoops(v) = Scattered(v)
=============================================================================
