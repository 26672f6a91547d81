----------------------------- MODULE GraphConvert -----------------------------
(***************************************************************************)
(* The converters of bpd-substrate/tools: pytorch_to_prolog writes a       *)
(* network as facts, prolog_to_c, prolog_to_c_v2 and prolog_to_pytorch     *)
(* write a program from the facts, and pt_to_weights exports the weights   *)
(* the second one loads.  A value is the tree of the operations that give  *)
(* it, so that what is compared is the wiring: which operation, with which *)
(* weights, reads which values.  (A batch norm is one operation, whatever  *)
(* a program makes of it.)                                                 *)
(***************************************************************************)
EXTENDS Integers, Sequences, FiniteSets, SequencesExt, TLC

CONSTANT Networks \* networks, with the routes added to their facts or not

VARIABLES
  network, \* [layers, routed]
  facts,   \* the facts, in the file's order
  tool,    \* the converter whose program is run
  program, \* its statements
  stmt,    \* statements executed
  vars,    \* the program's variables
  end      \* how it ended

convertVars == <<network, facts, tool, program, stmt, vars, end>>

---------------------------------------------------------------------------
(* Networks: layer n of the model is Layers[n + 1]                         *)

Layer(type, n, add, act, from) == [type |-> type, n |-> n, add |-> add, act |-> act, from |-> from]
Layers == network.layers
Kinds == [Conv |-> "cbs", C3 |-> "c3", SPPF |-> "sppf", Upsample |-> "upsample", Concat |-> "concat", Detect |-> "detect"]
\* The layers that layer n reads.
From(n) == [m \in DOMAIN Layers[n + 1].from |-> LET f == Layers[n + 1].from[m] IN IF f = -1 THEN n - 1 ELSE f]

Tree(kind, op, args) == [kind |-> kind, op |-> IF kind \in {"conv2d", "batchnorm"} THEN op ELSE << >>, args |-> args]
Image == Tree("input", << >>, << >>)
Unset == Tree("unset", << >>, << >>)
\* A concatenation of a concatenation is one.
Cat(values) == Tree("concat", << >>, FlattenSeq([n \in DOMAIN values |->
                 IF values[n].kind = "concat" THEN values[n].args ELSE <<values[n]>>]))

---------------------------------------------------------------------------
(* The modules' forward                                                    *)

Bot(p, n) == Append(p, <<"bot0", "bot1", "bot2">>[n])
Sub(p, name) == Append(p, name)
Cbs(p, act, x) ==
  LET b == Tree("batchnorm", Sub(p, "bn"), <<Tree("conv2d", Sub(p, "conv"), <<x>>)>>)
  IN IF act THEN Tree("silu", << >>, <<b>>) ELSE b
Bottleneck(p, l, x) ==
  LET y == Cbs(Sub(p, "cv2"), l.act, Cbs(Sub(p, "cv1"), l.act, x))
  IN IF l.add THEN Tree("add", << >>, <<y, x>>) ELSE y
C3(p, l, x) ==
  LET m == FoldLeft(LAMBDA y, n : Bottleneck(Bot(p, n), l, y), Cbs(Sub(p, "cv1"), l.act, x), [n \in 1 .. l.n |-> n])
  IN Cbs(Sub(p, "cv3"), l.act, Cat(<<m, Cbs(Sub(p, "cv2"), l.act, x)>>))
SPPF(p, l, x) ==
  LET y == Cbs(Sub(p, "cv1"), l.act, x)
      pools == FoldLeft(LAMBDA ys, n : Append(ys, Tree("maxpool", << >>, <<Last(ys)>>)), <<y>>, <<1, 2, 3>>)
  IN Cbs(Sub(p, "cv2"), l.act, Cat(pools))
Forward(p, l, xs) ==
  CASE l.type = "Conv"     -> Cbs(p, l.act, xs[1])
    [] l.type = "C3"       -> C3(p, l, xs[1])
    [] l.type = "SPPF"     -> SPPF(p, l, xs[1])
    [] l.type = "Upsample" -> Tree("upsample", << >>, <<xs[1]>>)
    [] l.type = "Concat"   -> Cat(xs)
    [] l.type = "Detect"   -> Tree("conv2d", Sub(p, "head" \o ToString(Len(xs) - 1)), <<Last(xs)>>) \* its last head
Value == LET value[n \in 0 .. Len(Layers) - 1] ==
               Forward(<<n>>, Layers[n + 1], [m \in DOMAIN From(n) |-> IF From(n)[m] < 0 THEN Image ELSE value[From(n)[m]]])
         IN value

---------------------------------------------------------------------------
(* pytorch_to_prolog                                                       *)

Op(op, kind, ins) == [op |-> op, kind |-> kind, ins |-> ins]
None == <<-1>> \* the input of the first layer

CbsOut(p, act) == Sub(p, IF act THEN "act" ELSE "bn")
WalkCbs(p, act, in) ==
  <<Op(Sub(p, "conv"), "conv2d", <<in>>), Op(Sub(p, "bn"), "batchnorm", <<Sub(p, "conv")>>)>>
    \o IF act THEN <<Op(Sub(p, "act"), "silu", <<Sub(p, "bn")>>)>> ELSE << >>
WalkBottleneck(p, l, in) ==
  WalkCbs(Sub(p, "cv1"), l.act, in) \o WalkCbs(Sub(p, "cv2"), l.act, CbsOut(Sub(p, "cv1"), l.act))
    \o IF l.add THEN <<Op(Sub(p, "add"), "add", <<CbsOut(Sub(p, "cv2"), l.act), in>>)>> ELSE << >>
SlipBotIn(p, l, n) == CbsOut(Sub(p, "cv1"), l.act) \* bn_input is not moved on
\* What bottleneck n reads: for n + 1 = the last, what is concatenated.  Without a
\* shortcut it is the activation's output, also where there is no activation.
BotIn(p, l, n) ==
  IF n = 1 THEN CbsOut(Sub(p, "cv1"), l.act)
  ELSE IF l.add THEN Sub(Bot(p, n - 1), "add") ELSE Sub(Sub(Bot(p, n - 1), "cv2"), "act")
WalkC3(p, l, in) ==
  WalkCbs(Sub(p, "cv1"), l.act, in) \o WalkCbs(Sub(p, "cv2"), l.act, in)
    \o FlattenSeq([n \in 1 .. l.n |-> WalkBottleneck(Bot(p, n), l, BotIn(p, l, n))])
    \o <<Op(Sub(p, "concat"), "concat", <<BotIn(p, l, l.n + 1), CbsOut(Sub(p, "cv2"), l.act)>>)>>
    \o WalkCbs(Sub(p, "cv3"), l.act, Sub(p, "concat"))
WalkSPPF(p, l, in) ==
  LET outs == <<CbsOut(Sub(p, "cv1"), l.act), Sub(p, "pool0"), Sub(p, "pool1"), Sub(p, "pool2")>>
  IN WalkCbs(Sub(p, "cv1"), l.act, in)
       \o [n \in 1 .. 3 |-> Op(outs[n + 1], "maxpool", <<outs[n]>>)]
       \o <<Op(Sub(p, "concat"), "concat", outs)>>
       \o WalkCbs(Sub(p, "cv2"), l.act, Sub(p, "concat"))
WalkDetect(p, l) == [n \in DOMAIN l.from |-> Op(Sub(p, "head" \o ToString(n - 1)), "conv2d", << >>)]
\* A compound's own operation has no inputs; what follows reads the compound's output.
WalkLayer(n) ==
  LET l == Layers[n + 1]
      p == <<n>>
      in == IF n = 0 THEN None ELSE <<n - 1>>
      own(ins) == <<Op(p, Kinds[l.type], ins)>>
  IN CASE l.type = "Conv"   -> own(<< >>) \o WalkCbs(p, l.act, in)
       [] l.type = "C3"     -> own(<< >>) \o WalkC3(p, l, in)
       [] l.type = "SPPF"   -> own(<< >>) \o WalkSPPF(p, l, in)
       [] l.type = "Detect" -> own(<< >>) \o WalkDetect(p, l)
       [] l.type \in {"Upsample", "Concat"} -> own(IF n = 0 THEN << >> ELSE <<in>>)
WalkModel == <<Op(<< >>, "unknown_sequential", << >>)>> \o FlattenSeq([n \in DOMAIN Layers |-> WalkLayer(n - 1)])

---------------------------------------------------------------------------
(* Programs: statements that set a variable to an operation on variables   *)

Set(to, kind, op, args) == [to |-> to, kind |-> kind, op |-> op, args |-> args]
Cur == <<"cur">>
At(n) == IF n < 0 THEN <<"input">> ELSE <<"layer", n>>
Emits == {"conv2d", "batchnorm", "silu", "maxpool", "upsample"}

\* prolog_to_c: Kahn's sort, and one variable for every output.
TopoSort(ops) ==
  LET all == DOMAIN ops
      deps == [n \in all |-> {m \in all : ops[m].op \in ToSet(ops[n].ins)}]
      ready(done, last) == SelectSeq([n \in all |-> n], LAMBDA n : last \in deps[n] /\ deps[n] \subseteq ToSet(done))
      pop(s, any) == IF s.queue = << >> THEN s
                   ELSE LET done == Append(s.done, Head(s.queue))
                        IN [queue |-> Tail(s.queue) \o ready(done, Head(s.queue)), done |-> done]
      free == SelectSeq([n \in all |-> n], LAMBDA n : deps[n] = {})
      sorted == FoldLeft(pop, [queue |-> free, done |-> << >>], ops).done
  IN sorted \o SelectSeq([n \in all |-> n], LAMBDA n : n \notin ToSet(sorted))
EmitC(ops) ==
  LET call(f) == IF f.kind \in Emits THEN <<Set(Cur, f.kind, f.op, <<Cur>>)>>
                 ELSE IF f.kind = "add" /\ Len(f.ins) >= 2 THEN <<Set(Cur, "add", << >>, <<Cur, Cur>>)>>
                 ELSE IF f.kind = "concat" THEN [m \in 1 .. Len(f.ins) - 1 |-> Set(Cur, "concat", << >>, <<Cur, Cur>>)]
                 ELSE << >>
  IN FoldLeft(LAMBDA p, n : p \o call(ops[n]), <<Set(Cur, "copy", << >>, <<<<"input">>>>)>>, TopoSort(ops))

\* prolog_to_c_v2: the operations of a layer by their names, in the order of keys.
Has(f, part) == part \in ToSet(Tail(f.op))
Inside(f) == \E n \in 1 .. 3 : Has(f, <<"bot0", "bot1", "bot2">>[n])
OpsOf(ops, n) == SelectSeq(ops, LAMBDA f : f.op # << >> /\ Head(f.op) = n)
\* sorted(key = (part in name, ...)): False comes first, and a sort is stable.
ByKeys(ops, parts) ==
  LET earlier(f, g) == \E k \in DOMAIN parts : /\ ~Has(f, parts[k]) /\ Has(g, parts[k])
                                               /\ \A j \in 1 .. k - 1 : Has(f, parts[j]) = Has(g, parts[j])
      rank(n) == Cardinality({m \in DOMAIN ops : earlier(ops[m], ops[n]) \/ (m < n /\ ~earlier(ops[n], ops[m]))}) + 1
  IN [r \in DOMAIN ops |-> ops[CHOOSE n \in DOMAIN ops : rank(n) = r]]
\* _emit_single_op in a row: the first reads from, the others cur.
Row(ops, from) ==
  FlattenSeq([n \in DOMAIN ops |->
    LET in == IF n = 1 THEN from ELSE Cur
    IN CASE ops[n].kind \in {"conv2d", "batchnorm", "silu"} -> <<Set(Cur, ops[n].kind, ops[n].op, <<in>>)>>
         [] ops[n].kind = "add" -> <<Set(Cur, "add", << >>, <<Cur, Cur>>)>>
         [] OTHER -> << >>])
CbsKeys == <<"conv", "bn", "act">>
EmitC3(ops, in) ==
  LET bot(n) == ByKeys(SelectSeq(ops, LAMBDA f : Has(f, <<"bot0", "bot1", "bot2">>[n])), <<"cv1", "cv2", "conv", "bn">>)
  IN Row(ByKeys(SelectSeq(ops, LAMBDA f : Has(f, "cv1")), CbsKeys), in)
       \o Row(bot(1), Cur) \o Row(bot(2), Cur) \o Row(bot(3), Cur)
       \o Row(ByKeys(SelectSeq(ops, LAMBDA f : Has(f, "cv2") /\ ~Inside(f)), CbsKeys), in)
       \o <<Set(Cur, "concat", << >>, <<Cur, Cur>>)>>
       \o Row(ByKeys(SelectSeq(ops, LAMBDA f : Has(f, "cv3")), CbsKeys), Cur)
EmitSPPF(ops, in) ==
  LET p(n) == <<<<"y">>, <<"p1">>, <<"p2">>, <<"p3">>>>[n + 1]
  IN Row(ByKeys(SelectSeq(ops, LAMBDA f : Has(f, "cv1")), CbsKeys), in)
       \o <<Set(p(0), "copy", << >>, <<Cur>>)>>
       \o [n \in 1 .. 3 |-> Set(p(n), "maxpool", << >>, <<p(n - 1)>>)]
       \o <<Set(Cur, "concat", << >>, <<p(0), p(1)>>), Set(Cur, "concat", << >>, <<Cur, p(2)>>), Set(Cur, "concat", << >>, <<Cur, p(3)>>)>>
       \o Row(ByKeys(SelectSeq(ops, LAMBDA f : Has(f, "cv2")), CbsKeys), Cur)
\* The route facts and detect_inputs are not written by pytorch_to_prolog.
EmitLayer(ops, n) ==
  LET own == OpsOf(ops, n)
      from == IF network.routed THEN From(n) ELSE <<n - 1>>
      in == At(from[1])
      kept == <<Set(At(n), "copy", << >>, <<Cur>>)>>
      first == Head(own).kind
  IN CASE first = "cbs"  -> Row(Tail(own), in) \o kept
       [] first = "c3"   -> EmitC3(Tail(own), in) \o kept
       [] first = "sppf" -> EmitSPPF(Tail(own), in) \o kept
       [] first = "upsample" -> <<Set(At(n), "upsample", << >>, <<in>>)>>
       [] first = "concat" -> IF Len(from) > 1 THEN <<Set(At(n), "concat", << >>, <<in, At(from[2])>>)>> ELSE << >>
       [] first = "detect" -> IF network.routed
                              THEN [m \in DOMAIN from |-> Set(At(n), "conv2d", own[m + 1].op, <<At(from[m])>>)]
                              ELSE << >>
EmitRouted(ops) == FlattenSeq([n \in DOMAIN Layers |-> EmitLayer(ops, n - 1)])

\* prolog_to_pytorch: the layers in the order of their names as strings, each applied
\* to what the one before it gave; every Conv with SiLU, every bottleneck with its
\* shortcut, as many as there are additions and at least one.
Named(n) == IF n < 10 THEN <<n>> ELSE <<n \div 10, n % 10>>
Sooner(a, b) == \/ Named(a)[1] < Named(b)[1]
                \/ Named(a)[1] = Named(b)[1] /\ (Len(Named(a)) < Len(Named(b))
                                                 \/ (Len(Named(a)) = Len(Named(b)) /\ Last(Named(a)) < Last(Named(b))))
TopLayers ==
  LET all == 0 .. Len(Layers) - 1
  IN [r \in DOMAIN Layers |-> CHOOSE n \in all : Cardinality({m \in all : Sooner(m, n)}) = r - 1]
Built(ops, n) ==
  LET own == OpsOf(ops, n)
      adds == Len(SelectSeq(own, LAMBDA f : f.kind = "add"))
  IN [Layers[n + 1] EXCEPT !.n = IF adds = 0 THEN 1 ELSE adds, !.add = TRUE, !.act = TRUE]
EmitTorch(ops) == [n \in DOMAIN Layers |-> Set(<<"x">>, Layers[TopLayers[n] + 1].type, <<TopLayers[n]>>, <<<<"x">>>>)]

---------------------------------------------------------------------------
(* pt_to_weights and load_weights                                          *)

\* Keys of the state dict, without the last part, and the name m.i is given.
CbsKeysOf(p) == {Sub(p, "conv"), Sub(p, "bn")}
Exported(n) ==
  LET l == Layers[n + 1]
      p == <<n>>
      cvs(q, names) == UNION {CbsKeysOf(Sub(q, c)) : c \in names}
  IN CASE l.type = "Conv"   -> CbsKeysOf(p)
       [] l.type = "C3"     -> cvs(p, {"cv1", "cv2", "cv3"}) \cup UNION {cvs(Bot(p, m), {"cv1", "cv2"}) : m \in 1 .. l.n}
       [] l.type = "SPPF"   -> cvs(p, {"cv1", "cv2"})
       [] l.type = "Detect" -> {Bot(p, m) : m \in DOMAIN l.from}
       [] OTHER -> {}
Weights == UNION {Exported(n) : n \in 0 .. Len(Layers) - 1}
Fields == {f.op : f \in {f \in ToSet(facts) : f.kind \in {"conv2d", "batchnorm"}}}

---------------------------------------------------------------------------
ConvertInit ==
  /\ network \in Networks
  /\ facts = << >> /\ tool = "none" /\ program = << >> /\ stmt = 0
  /\ vars = <<"input">> :> Image @@ <<"x">> :> Image /\ end = "none"

Walk ==
  /\ facts = << >> /\ end = "none"
  /\ facts' = WalkModel
  /\ UNCHANGED <<network, tool, program, stmt, vars, end>>

Convert(name, statements) ==
  /\ facts # << >> /\ tool = "none"
  /\ tool' = name /\ program' = statements
  /\ UNCHANGED <<network, facts, stmt, vars, end>>
ToC      == Convert("prolog_to_c", EmitC(facts))
ToRouted == Convert("prolog_to_c_v2", EmitRouted(facts))
ToTorch  == Convert("prolog_to_pytorch", EmitTorch(facts))

Running == tool # "none" /\ end = "none" /\ stmt < Len(program)
Statement == program[stmt + 1]
Args == [n \in DOMAIN Statement.args |-> IF Statement.args[n] \in DOMAIN vars THEN vars[Statement.args[n]] ELSE Unset]
\* In the PyTorch program a layer is called; Concat has one tensor, Detect is None.
Raises == tool = "prolog_to_pytorch" /\ Statement.kind \in {"Concat", "Detect"}
Result ==
  IF tool = "prolog_to_pytorch" THEN Forward(Statement.op, Built(facts, Statement.op[1]), Args)
  ELSE CASE Statement.kind = "copy" -> Args[1]
         [] Statement.kind = "concat" -> Cat(Args)
         [] OTHER -> Tree(Statement.kind, Statement.op, Args)
Execute ==
  /\ Running /\ ~Raises
  /\ vars' = Statement.to :> Result @@ vars
  /\ stmt' = stmt + 1
  /\ UNCHANGED <<network, facts, tool, program, end>>
Raise ==
  /\ Running /\ Raises
  /\ end' = "TypeError"
  /\ UNCHANGED <<network, facts, tool, program, stmt, vars>>
Return ==
  /\ tool # "none" /\ end = "none" /\ stmt = Len(program)
  /\ end' = "returned"
  /\ UNCHANGED <<network, facts, tool, program, stmt, vars>>

ConvertNext == Walk \/ ToC \/ ToRouted \/ ToTorch \/ Execute \/ Raise \/ Return
ConvertSpec == ConvertInit /\ [][ConvertNext]_convertVars

---------------------------------------------------------------------------
\* The value of layer n by its facts, from what its first operations read.
ByFacts(n) ==
  LET own == Tail(OpsOf(facts, n))
      value[m \in DOMAIN own] ==
        LET of(name) == IF \E k \in 1 .. m - 1 : own[k].op = name
                        THEN value[CHOOSE k \in 1 .. m - 1 : own[k].op = name] ELSE Tree(ToString(name), << >>, << >>)
            args == [k \in DOMAIN own[m].ins |-> of(own[m].ins[k])]
        IN IF own[m].kind = "concat" THEN Cat(args) ELSE Tree(own[m].kind, own[m].op, args)
  IN value[Len(own)]
Final == Len(Layers) - 1
Types(ns) == {Layers[n + 1].type : n \in ns}
Chain == \A n \in 0 .. Final : From(n) = <<n - 1>>
Upstream(n) == LET up[m \in 0 .. Final] == {m} \cup UNION {up[k] : k \in {k \in ToSet(From(m)) : k >= 0}} IN up[n]

\* The facts of a compound layer are its module's forward on the output of the layer
\* before, but for a C3 whose bottlenecks have neither shortcut nor activation; and
\* every weight that is exported has the field of its own operation, but for Detect's.
FactsAreLayers ==
  facts # << >> =>
    /\ \A n \in 0 .. Final :
         LET l == Layers[n + 1]
             in == Tree(ToString(IF n = 0 THEN None ELSE <<n - 1>>), << >>, << >>)
         IN l.type \in {"Conv", "C3", "SPPF"} =>
              (ByFacts(n) = Forward(<<n>>, l, <<in>>) <=> ~(l.type = "C3" /\ ~l.add /\ ~l.act))
    /\ \A n \in 0 .. Final : Exported(n) \subseteq Fields <=> Layers[n + 1].type # "Detect"

\* A program computes what the network does just when: prolog_to_c's, all layers but
\* the last resample and the last is at most a Conv; prolog_to_c_v2's, for each layer,
\* no C3 or SPPF lies before it; prolog_to_pytorch's, a chain of at most ten layers
\* (or that only resamples after the second) has no activation but SiLU and no
\* bottleneck without its shortcut.
ProgramIsNetwork ==
  end = "returned" =>
    CASE tool = "prolog_to_c" ->
           vars[Cur] = Value[Final] <=> (Types(0 .. Final - 1) \subseteq {"Upsample"} /\ Types({Final}) \subseteq {"Upsample", "Conv"} /\ Chain)
      [] tool = "prolog_to_c_v2" ->
           network.routed => \A n \in 0 .. Final : At(n) \in DOMAIN vars /\ (vars[At(n)] = Value[n] <=> Types(Upstream(n)) \cap {"C3", "SPPF"} = {})
      [] tool = "prolog_to_pytorch" ->
           vars[<<"x">>] = Value[Final] <=>
             /\ Chain /\ (Final <= 9 \/ Types(2 .. Final) = {"Upsample"})
             /\ \A n \in DOMAIN Layers : Layers[n].type \in {"Conv", "C3", "SPPF"} => Layers[n].act /\ (Layers[n].type = "C3" => Layers[n].add)

GraphIsNetwork == FactsAreLayers /\ ProgramIsNetwork
=============================================================================
