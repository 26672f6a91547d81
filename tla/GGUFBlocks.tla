----------------------------- MODULE GGUFBlocks -----------------------------
(***************************************************************************)
(* How quantised weights are read from a GGUF file.  A tensor is a row of  *)
(* blocks; a block packs 32 or 256 elements, their scales and their        *)
(* minimums into bytes.  Three loaders of this repository unpack blocks    *)
(* with numpy slices: llamatov_run.py, lib/llamatov_helpers.py and         *)
(* llamatov_inference.py.  ggml, whose format it is, unpacks them with     *)
(* pointers that it advances; that walk is the state machine here.         *)
(*                                                                         *)
(* An element is where its value comes from: the bits of its quant, lowest *)
(* first, what is subtracted from them, and the bits of its scale and of   *)
(* its minimum.  Two elements are equal if they are the same number for    *)
(* every content of the block.                                             *)
(***************************************************************************)
EXTENDS Integers, Sequences, FiniteSetsExt

CONSTANTS
  Shapes,   \* tensor shapes considered
  Matrices  \* <<K, N>> of the weights that are packed again for dp4a

VARIABLES
  load,     \* [by, type]: the loader and the type of its block, for life
  ptr,      \* the walk's pointers
  last      \* the elements its last step wrote

blockVars == <<load, ptr, last>>

Types32 == {"Q4_0", "Q5_0", "Q8_0"}
Types   == Types32 \cup {"Q2_K", "Q3_K", "Q4_K", "Q5_K", "Q6_K"}

Loads == {[by |-> "run", type |-> t] : t \in Types}
    \cup {[by |-> "helpers", type |-> t] : t \in Types \ {"Q5_0", "Q5_K"}}
    \cup {[by |-> "inference", type |-> "Q2_K"]}

BlockSize(t)  == IF t \in Types32 THEN 32 ELSE 256

------------------------------------------------------------------------------
(* Bits and elements.                                                       *)

Bits(byte, shift, width) == [byte |-> byte, shift |-> shift, width |-> width]
Half(byte)      == <<Bits(byte, 0, 8), Bits(byte + 1, 0, 8)>>   \* an fp16
Nibble(byte, h) == Bits(byte, 4 * h, 4)

None == [bits |-> << >>, bias |-> 0]
Num(bits, bias) == [bits |-> bits, bias |-> bias]

\* d is the block's own factor, of which a scale or minimum is a multiple.
Elem(q, d, scale, dmin, min) ==
  [q |-> q, d |-> d, scale |-> scale, dmin |-> dmin, min |-> min]
Scaled(q, d, scale) == Elem(q, d, scale, << >>, None)

------------------------------------------------------------------------------
(* The loaders of llamatov_run.py: element e of a block.                    *)

RunQ4_0(e) == Scaled(Num(<<Nibble(2 + (e % 16), e \div 16)>>, 8), Half(0), None)

\* The four bytes of qh are one little-endian number.
RunQ5_0(e) ==
  Scaled(Num(<<Nibble(6 + (e % 16), e \div 16), Bits(2 + (e \div 8), e % 8, 1)>>, 16),
         Half(0), None)

RunQ8_0(e) == Scaled(Num(<<Bits(2 + e, 0, 8)>>, 0), Half(0), None)

SlipNeighbours(base, e) == Bits(base + (e \div 4), 2 * (e % 4), 2)

\* Two chunks of 32 bytes; a shift serves 16 bytes, then the other 16.
TwoBits(base, e) ==
  Bits(base + 32 * (e \div 128) + (e % 32), 2 * ((e % 128) \div 32), 2)

RunQ2K(e) ==
  Elem(Num(<<TwoBits(16, e)>>, 0),
       Half(80), Num(<<Nibble(e \div 16, 0)>>, 0),
       Half(82), Num(<<Nibble(e \div 16, 1)>>, 0))

\* Word w of the four that kmask1 and kmask2 make of the twelve scale bytes.
ScaleQ3K(s) ==
  LET w == s \div 4   b == s % 4
  IN  Num(<<Nibble(96 + 4 * (w % 2) + b, w \div 2), Bits(104 + b, 2 * w, 2)>>, 32)

RunQ3K(e) ==
  LET mbit == 4 * (e \div 128) + (e % 128) \div 32
  IN  Scaled(Num(<<TwoBits(32, e), Bits(e % 32, mbit, 1)>>, 4), Half(108), ScaleQ3K(e \div 16))

\* The twelve bytes from 4 on: eight scales and eight minimums of six bits.
ScaleQ4K(s) ==
  IF s < 4 THEN Num(<<Bits(4 + s, 0, 6)>>, 0)
           ELSE Num(<<Bits(8 + s, 0, 4), Bits(s, 6, 2)>>, 0)
MinQ4K(s) ==
  IF s < 4 THEN Num(<<Bits(8 + s, 0, 6)>>, 0)
           ELSE Num(<<Bits(8 + s, 4, 4), Bits(4 + s, 6, 2)>>, 0)

\* Group g of 64 elements: the low nibbles of its 32 bytes, then the high ones.
RunQ4K(e) ==
  Elem(Num(<<Nibble(16 + 32 * (e \div 64) + (e % 32), (e % 64) \div 32)>>, 0),
       Half(0), ScaleQ4K(e \div 32), Half(2), MinQ4K(e \div 32))

\* u1 and u2 are 1 << 2g and 1 << 2g+1.
RunQ5K(e) ==
  LET g == e \div 64   upper == (e % 64) \div 32
  IN  Elem(Num(<<Nibble(48 + 32 * g + (e % 32), upper),
                 Bits(16 + (e % 32), 2 * g + upper, 1)>>, 0),
           Half(0), ScaleQ4K(2 * g + upper), Half(2), MinQ4K(2 * g + upper))

\* q1 to q4 of a chunk: near and far bytes, low and high nibbles.
RunQ6K(e) ==
  LET n == e \div 128   quarter == (e % 128) \div 32   l == e % 32
  IN  Scaled(Num(<<Nibble(64 * n + 32 * (quarter % 2) + l, quarter \div 2),
                   Bits(128 + 32 * n + l, 2 * quarter, 2)>>, 32),
             Half(208), Num(<<Bits(192 + 8 * n + (l \div 16) + 2 * quarter, 0, 8)>>, 0))

Run(t, e) ==
  CASE t = "Q4_0" -> RunQ4_0(e) [] t = "Q5_0" -> RunQ5_0(e) [] t = "Q8_0" -> RunQ8_0(e)
    [] t = "Q2_K" -> RunQ2K(e)  [] t = "Q3_K" -> RunQ3K(e)
    [] t = "Q4_K" -> RunQ4K(e)  [] t = "Q5_K" -> RunQ5K(e)  [] t = "Q6_K" -> RunQ6K(e)

------------------------------------------------------------------------------
(* The older loaders.                                                       *)

\* np.stack(..., -1).reshape: the four quants of a byte are neighbours.
HelperQ2K(e) ==
  Elem(Num(<<Bits(16 + (e \div 4), 2 * (e % 4), 2)>>, 0),
       Half(80), Num(<<Nibble(e \div 16, 0)>>, 0),
       Half(82), Num(<<Nibble(e \div 16, 1)>>, 0))

HelperQ3K(e) ==
  LET s == e \div 16
  IN  Scaled(Num(<<Bits(32 + (e \div 4), 2 * (e % 4), 2), Bits(e \div 8, e % 8, 1)>>, 4),
             Half(108), Num(<<Nibble(96 + (s % 8), s \div 8)>>, 8))

HelperQ4_0(e) == Scaled(Num(<<Nibble(2 + (e % 16), e \div 16)>>, 8), Half(0), None)

\* Sub-blocks 0 to 3 from the low nibbles, 4 to 7 from the high ones.
HelperQ4K(e) ==
  Elem(Num(<<Nibble(16 + (e % 128), e \div 128)>>, 0),
       Half(0), ScaleQ4K(e \div 32), Half(2), MinQ4K(e \div 32))

HelperQ6K(e) ==
  Scaled(Num(<<Nibble(e \div 2, e % 2), Bits(128 + (e \div 4), 2 * (e % 4), 2)>>, 32),
         Half(208), Num(<<Bits(192 + (e \div 16), 0, 8)>>, 0))

HelperQ8_0(e) == Scaled(Num(<<Bits(2 + e, 0, 8)>>, 0), Half(0), None)

Helpers(t, e) ==
  CASE t = "Q4_0" -> HelperQ4_0(e) [] t = "Q8_0" -> HelperQ8_0(e)
    [] t = "Q2_K" -> HelperQ2K(e)  [] t = "Q3_K" -> HelperQ3K(e)
    [] t = "Q4_K" -> HelperQ4K(e)  [] t = "Q6_K" -> HelperQ6K(e)

\* Element j * 4 + k from bits 2k of byte j, as HelperQ2K.
InferenceQ2K(e) == HelperQ2K(e)

Loaded(l, e) ==
  CASE l.by = "run"       -> Run(l.type, e)
    [] l.by = "helpers"   -> Helpers(l.type, e)
    [] l.by = "inference" -> InferenceQ2K(e)

------------------------------------------------------------------------------
(* ggml's walk: dequantize_row_* of ggml-quants.c.                          *)

\* get_scale_min_k4(j, q, d, m), with q the byte at which the scales start.
GgmlScaleK4(j, q) ==
  IF j < 4 THEN Num(<<Bits(q + j, 0, 6)>>, 0)
           ELSE Num(<<Bits(q + j + 4, 0, 4), Bits(q + j - 4, 6, 2)>>, 0)
GgmlMinK4(j, q) ==
  IF j < 4 THEN Num(<<Bits(q + j + 4, 0, 6)>>, 0)
           ELSE Num(<<Bits(q + j + 4, 4, 4), Bits(q + j, 6, 2)>>, 0)

\* aux[0..3] of Q3_K, read as bytes.
GgmlScaleQ3(is) ==
  LET b == is % 4
      low == CASE is < 4  -> Bits(96 + b, 0, 4) [] is \in 4..7  -> Bits(100 + b, 0, 4)
               [] is \in 8..11 -> Bits(96 + b, 4, 4) [] OTHER -> Bits(100 + b, 4, 4)
  IN  Num(<<low, Bits(104 + b, 2 * (is \div 4), 2)>>, 32)

GgmlInit == [q |-> CASE load.type = "Q2_K" -> 16 [] load.type = "Q3_K" -> 32
                     [] load.type = "Q4_K" -> 16 [] load.type = "Q5_K" -> 48 [] OTHER -> 0,
             hi |-> 128, sc |-> 192, shift |-> 0, is |-> 0, m |-> 0, y |-> 0]

BlockInit ==
  /\ load \in Loads
  /\ ptr = GgmlInit
  /\ last = << >>

More == ptr.y < BlockSize(load.type)

\* One j of the loop over 16 bytes: outputs j and j + 16.
Walk4_0 ==
  /\ load.type \in {"Q4_0", "Q5_0"} /\ More
  /\ LET j   == ptr.y
         qs  == IF load.type = "Q4_0" THEN 2 ELSE 6
         qh(bit) == IF load.type = "Q4_0" THEN << >> ELSE <<Bits(2 + (bit \div 8), bit % 8, 1)>>
         off == IF load.type = "Q4_0" THEN 8 ELSE 16
     IN  /\ last' = [e \in {j, j + 16} |->
                      Scaled(Num(<<Nibble(qs + j, IF e = j THEN 0 ELSE 1)>> \o qh(e), off),
                             Half(0), None)]
         /\ ptr' = [ptr EXCEPT !.y = IF j = 15 THEN 32 ELSE j + 1]
  /\ UNCHANGED load

Walk8_0 ==
  /\ load.type = "Q8_0" /\ More
  /\ last' = [e \in {ptr.y} |-> Scaled(Num(<<Bits(2 + ptr.y, 0, 8)>>, 0), Half(0), None)]
  /\ ptr' = [ptr EXCEPT !.y = @ + 1]
  /\ UNCHANGED load

\* One shift of a chunk: 16 outputs from q[0..15], 16 from q[16..31], a scale
\* each.  The mask m moves with the shift and is never set back.
Walk2K3K ==
  /\ load.type \in {"Q2_K", "Q3_K"} /\ More
  /\ last' = [e \in ptr.y..(ptr.y + 31) |->
               LET l == e - ptr.y   is == ptr.is + (l \div 16)
                   two == Bits(ptr.q + l, ptr.shift, 2)
               IN  IF load.type = "Q2_K"
                   THEN Elem(Num(<<two>>, 0), Half(80), Num(<<Nibble(is, 0)>>, 0),
                                              Half(82), Num(<<Nibble(is, 1)>>, 0))
                   ELSE Scaled(Num(<<two, Bits(l, ptr.m, 1)>>, 4), Half(108), GgmlScaleQ3(is))]
  /\ ptr' = [ptr EXCEPT !.y = @ + 32, !.is = @ + 2, !.m = @ + 1,
                        !.shift = (@ + 2) % 8,
                        !.q = IF ptr.shift = 6 THEN @ + 32 ELSE @]
  /\ UNCHANGED load

\* 32 low nibbles, then 32 high ones, a scale and a minimum each.
Walk4K5K ==
  /\ load.type \in {"Q4_K", "Q5_K"} /\ More
  /\ last' = [e \in ptr.y..(ptr.y + 63) |->
               LET l == (e - ptr.y) % 32   h == (e - ptr.y) \div 32
                   fifth == IF load.type = "Q4_K" THEN << >> ELSE <<Bits(16 + l, ptr.m + h, 1)>>
               IN  Elem(Num(<<Nibble(ptr.q + l, h)>> \o fifth, 0),
                        Half(0), GgmlScaleK4(ptr.is + h, 4), Half(2), GgmlMinK4(ptr.is + h, 4))]
  /\ ptr' = [ptr EXCEPT !.y = @ + 64, !.q = @ + 32, !.is = @ + 2, !.m = @ + 2]
  /\ UNCHANGED load

\* One chunk: l from 0 to 31 writes y[l], y[l + 32], y[l + 64], y[l + 96].
Walk6K ==
  /\ load.type = "Q6_K" /\ More
  /\ last' = [e \in ptr.y..(ptr.y + 127) |->
               LET l == e % 32   is == l \div 16   part == (e - ptr.y) \div 32
                   ql == CASE part = 0 -> Nibble(ptr.q + l, 0) [] part = 1 -> Nibble(ptr.q + l + 32, 0)
                           [] part = 2 -> Nibble(ptr.q + l, 1) [] part = 3 -> Nibble(ptr.q + l + 32, 1)
               IN  Scaled(Num(<<ql, Bits(ptr.hi + l, 2 * part, 2)>>, 32),
                          Half(208), Num(<<Bits(ptr.sc + is + 2 * part, 0, 8)>>, 0))]
  /\ ptr' = [ptr EXCEPT !.y = @ + 128, !.q = @ + 64, !.hi = @ + 32, !.sc = @ + 8]
  /\ UNCHANGED load

BlockNext == Walk4_0 \/ Walk8_0 \/ Walk2K3K \/ Walk4K5K \/ Walk6K

------------------------------------------------------------------------------
(* From a flat row of elements to a tensor: the flat index of element ix.   *)

\* GGUF stores the first index fastest.
Natural(shape, ix) ==
  LET stride[d \in 1..Len(shape)] == IF d = 1 THEN 1 ELSE stride[d - 1] * shape[d - 1]
  IN  MapThenSumSet(LAMBDA d : ix[d] * stride[d], 1..Len(shape))

\* numpy's reshape: the last index fastest.
Reshaped(shape, ix) ==
  LET n == Len(shape)
      stride[d \in 1..n] == IF d = n THEN 1 ELSE stride[d + 1] * shape[d + 1]
  IN  MapThenSumSet(LAMBDA d : ix[d] * stride[d], 1..n)

Reverse(s) == [d \in 1..Len(s) |-> s[Len(s) + 1 - d]]

\* The tail of dq2k and dq3k, and lt for F32 and F16: matrices only.
MatrixOnly(shape, ix) ==
  IF Len(shape) = 2 THEN Reshaped(Reverse(shape), Reverse(ix)) ELSE Reshaped(shape, ix)

\* reshape([ne1, ne0]).T, and reshape([ne2, ne1, ne0]).transpose(2, 1, 0).
Finalized(shape, ix) ==
  IF Len(shape) \in {2, 3} THEN Reshaped(Reverse(shape), Reverse(ix)) ELSE Reshaped(shape, ix)

\* dq8_0 unpacks the shape into two before it looks at its length.
Raises(l, shape) == l.by = "run" /\ l.type = "Q8_0" /\ Len(shape) # 2

FlatIndex(l, shape, ix) ==
  CASE l.by # "run" -> Reshaped(shape, ix)
    [] l.by = "run" /\ l.type \in {"Q2_K", "Q3_K", "Q8_0"} -> MatrixOnly(shape, ix)
    [] OTHER -> Finalized(shape, ix)

------------------------------------------------------------------------------
(* Q8 blocks for k_dp4a_coal.  Quant i of the block at an address holds the *)
(* weight of an input k for an output n: <<k, n>>.  A block has B quants.   *)

B == 2

\* quantize_to_q8_padded64_coalesced(w, N, K) of a w of N rows and K columns:
\* quants run along a row; [nb, N] blocks.
Packed(w, N, addr, i) == w[addr % N, B * (addr \div N) + i]

\* What callers pass.  lt returns matrices of K rows and N columns.
WeightKN == [k \in Nat, n \in Nat |-> <<k, n>>]
WeightNK == [n \in Nat, k \in Nat |-> <<k, n>>]

\* gguf_q8_to_padded64_coalesced: row col of the file is output col.
Verbatim(N, addr, i) == <<B * (addr \div N) + i, addr % N>>

\* "as_is" is run_dp4a's and the C loop's, of which nothing is claimed below.
Pack(by, KN, addr, i) ==
  CASE by = "verbatim"  -> Verbatim(KN[2], addr, i)
    [] by = "transpose" -> Packed(WeightNK, KN[2], addr, i)
    [] by = "as_is"     -> Packed(WeightKN, KN[1], addr, i)

\* k_dp4a_coal: for output col, block kb * N + col holds inputs kb*32 to +31.
ReadsAt(KN, kb, col) == kb * KN[2] + col

------------------------------------------------------------------------------
(* Properties.                                                              *)

Exact == Loads \ {l \in Loads : l.by # "run" /\ l.type \notin {"Q4_0", "Q8_0"}}

Indices(shape) ==
  {ix \in [1..Len(shape) -> 0..(Max({shape[d] : d \in 1..Len(shape)}) - 1)] :
     \A d \in 1..Len(shape) : ix[d] < shape[d]}

\* llamatov_run.py reads every element of every type it knows as ggml's walk
\* does, whose pointers move at different rates (llamatov_run.py:64-489), and
\* its tensors have GGUF's order, so that w[:, :, e] is an expert; stacked
\* experts of Q2_K and Q3_K do not (llamatov_run.py:47-61).  The older loaders
\* read the elements of Q4_0 and Q8_0 as it does.
LoadsAsGgml ==
  /\ load \in Exact => \A e \in DOMAIN last : Loaded(load, e) = last[e]
  /\ load.by = "run" =>
       \A shape \in Shapes :
         ~Raises(load, shape) /\ (load.type \in {"Q2_K", "Q3_K"} => Len(shape) < 3) =>
           \A ix \in Indices(shape) : FlatIndex(load, shape, ix) = Natural(shape, ix)

\* The dp4a kernel multiplies input k with the weight of input k for its
\* output, whether a weight's blocks are copied as the file has them (Q8_0) or
\* packed again (llamatov_gpu_kvcache_dp4a.py:66-79).
DotsItsOwnWeights ==
  load.by = "run" =>
    LET by == IF load.type = "Q8_0" THEN "verbatim" ELSE "transpose"
    IN  \A KN \in Matrices :
          \A kb \in 0..(KN[1] \div B - 1), col \in 0..(KN[2] - 1), i \in 0..(B - 1) :
            Pack(by, KN, ReadsAt(KN, kb, col), i) = <<B * kb + i, col>>

\* What is computed with is what the file holds, on the host and on the device.
WeightsAreTheFiles == LoadsAsGgml /\ DotsItsOwnWeights
=============================================================================
