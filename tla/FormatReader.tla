----------------------------- MODULE FormatReader -----------------------------
(***************************************************************************)
(* The GGUF reader is generated: generate.py writes gguf_reader.py from    *)
(* the facts of gguf.bpd, and ggufq answers queries with it.  What is      *)
(* modelled is the generator with any declaration, the program it writes,  *)
(* statement by statement, and the answer, to a file of any bytes.  A      *)
(* generation that fails leaves the program of an earlier one.             *)
(*                                                                         *)
(* Bytes are digits of base Base, lowest first.  The parser and the verbs  *)
(* that render a fact are not in the repository: they are modelled by the  *)
(* generated program that is.                                              *)
(***************************************************************************)
EXTENDS Integers, Sequences, FiniteSets, SequencesExt

CONSTANTS
  Base,         \* values of a byte
  Declarations, \* declarations of gguf.bpd, or None where there is no file
  Files,        \* files to be read, or Missing
  Asks,         \* what ggufq is asked
  Olds          \* declarations an earlier reader may be of

None == << >>        \* no gguf.bpd, or the source of no reader
Missing == <<Base>>  \* no file: not a byte

VARIABLES
  decl,   \* gguf.bpd as it is now
  reader, \* gguf_reader.py as it was last written
  gen,    \* the exit code of the generator, or "not run"
  file,   \* the file, once it is open
  pc,     \* the statement of the reader that is next
  env,    \* the fields read so far
  exit, answer

readerVars == <<decl, reader, gen, file, pc, env, exit, answer>>

---------------------------------------------------------------------------
(* Declarations                                                            *)

\* A field: its offset and width, its dimension, and what it must be: "bytes" or
\* "eq" for must_equal, "lt" for must_be_lt, "any".
Field(name, at, width, dim, must, to) ==
  [name |-> name, at |-> at, width |-> width, dim |-> dim, must |-> must, to |-> to]
\* A section: its place in the file, or -1 for a record; its size, 0 if variable.
Section(name, order, size, fields) == [name |-> name, order |-> order, size |-> size, fields |-> fields]

Number(bytes) == FoldRight(LAMBDA b, n : b + Base * n, bytes, 0)
Cut(raw, from, to) == SubSeq(raw, from + 1, IF to < Len(raw) THEN to ELSE Len(raw))
FieldsOf(d, name) == UNION {ToSet(d[s].fields) : s \in {s \in DOMAIN d : d[s].name = name}}

\* query_header_facts: the header's size and four constraints by the names of fields.
Facts(d) ==
  /\ \E s \in DOMAIN d : d[s].name = "header" /\ d[s].size > 0
  /\ \A want \in {<<"magic", "bytes">>, <<"version", "eq">>, <<"tensor_count", "lt">>, <<"metadata_kv_count", "lt">>} :
       \E f \in FieldsOf(d, "header") : <<f.name, f.must>> = want

\* The section of the lowest order; of equals the first.
Primary(d) ==
  LET tops == {s \in DOMAIN d : d[s].order >= 0}
  IN d[CHOOSE s \in tops : \A t \in tops : d[s].order < d[t].order \/ (d[s].order = d[t].order /\ s <= t)]

---------------------------------------------------------------------------
(* The program                                                             *)

Fixed(d) == SelectSeq(d, LAMBDA s : s.size > 0)
With(s, musts) == SelectSeq(s.fields, LAMBDA f : f.must \in musts)
\* Constants are named after sections and dimensions; the last line of a name counts.
Lines(d) ==
  [n \in DOMAIN Fixed(d) |-> <<Fixed(d)[n].name, "SIZE", Fixed(d)[n].size>>]
    \o FlattenSeq([n \in DOMAIN d |-> LET fs == With(d[n], {"eq", "lt"})
                                      IN [m \in DOMAIN fs |-> <<fs[m].dim, fs[m].must, fs[m].to>>]])
Constant(d, name, kind) ==
  LET at == {n \in DOMAIN Lines(d) : Lines(d)[n][1] = name /\ Lines(d)[n][2] = kind}
      lines == FoldLeft(LAMBDA kept, l : IF Contains(kept, l) THEN kept ELSE Append(kept, l), << >>,
                        [n \in 1..Len(Lines(d)) |-> IF n \in at THEN Lines(d)[n] ELSE <<"", "", 0>>])
  IN Last(SelectSeq(lines, LAMBDA l : l[1] = name))[3]

\* Statements of the primary section's parser, in the template's order.  Lengths and
\* bytes are checked of every section, numbers only of the primary one.
Lengths(d) == [n \in DOMAIN Fixed(d) |-> [do |-> "length", of |-> Fixed(d)[n].name]]
Equalities(d) == FlattenSeq([n \in DOMAIN d |-> LET fs == With(d[n], {"bytes"})
                                                IN [m \in DOMAIN fs |-> [do |-> "bytes", of |-> fs[m]]]])
Unpack(d) == LET fs == With(Primary(d), {"eq", "lt", "any"})
             IN IF fs = << >> THEN << >> ELSE <<[do |-> "unpack", of |-> fs]>>
SlipNumbers(d) == \* one call per dimension, as one constant
  LET fs == With(Primary(d), {"eq", "lt"})
      own == SelectSeq(fs, LAMBDA f : \A m \in DOMAIN fs : fs[m].dim = f.dim => fs[m].at <= f.at)
  IN [m \in DOMAIN own |-> [do |-> "number", of |-> own[m]]]
Numbers(d) ==
  LET fs == With(Primary(d), {"eq", "lt"}) IN [m \in DOMAIN fs |-> [do |-> "number", of |-> fs[m]]]
Program(d) == [of |-> d, body |-> Lengths(d) \o Equalities(d) \o Unpack(d) \o Numbers(d)]

NoReader == [of |-> None, body |-> << >>]

FormatInit ==
  /\ decl \in Declarations
  /\ reader \in {NoReader} \cup {Program(d) : d \in {d \in Olds : Facts(d)}}
  /\ gen = "not run" /\ file = Missing
  /\ pc = 0 /\ env = << >> /\ exit = "none" /\ answer = << >>

\* generate.main: no source, facts that are missing, or the program is written.
Generate ==
  /\ gen = "not run" /\ pc = 0 /\ exit = "none"
  /\ gen' = IF decl = None THEN "1" ELSE IF Facts(decl) THEN "0" ELSE "ValueError"
  /\ reader' = IF gen' = "0" THEN Program(decl) ELSE reader
  /\ UNCHANGED <<decl, file, pc, env, exit, answer>>

---------------------------------------------------------------------------
(* ggufq                                                                   *)

Running == exit = "none"
Ends(code) == exit' = code /\ UNCHANGED <<decl, reader, gen, file, pc, env, answer>>

\* The import fails without a reader, or of one whose header has another name.
Imports == IF reader = NoReader THEN FALSE ELSE Primary(reader.of).name = "header"
ImportError == Running /\ pc = 0 /\ ~Imports /\ Ends("1")

Open ==
  /\ Running /\ pc = 0 /\ Imports
  /\ file' \in Files \ {Missing}
  /\ pc' = 1
  /\ UNCHANGED <<decl, reader, gen, env, exit, answer>>
NoFile ==
  /\ Running /\ pc = 0 /\ Imports
  /\ exit' = "2"
  /\ UNCHANGED <<decl, reader, gen, file, pc, env, answer>>

Size == Constant(reader.of, "header", "SIZE")
Raw == Cut(file, 0, Size)
Statement == reader.body[pc]
Parsing == Running /\ pc \in 1 .. Len(reader.body)
\* What a statement finds; unpack reads on from the first of its fields.
Holds ==
  CASE Statement.do = "length" -> Len(Raw) >= Constant(reader.of, Statement.of, "SIZE")
    [] Statement.do = "bytes"  -> Cut(Raw, Statement.of.at, Statement.of.at + Statement.of.width) = Statement.of.to
    [] Statement.do = "unpack" -> TRUE
    [] Statement.do = "number" ->
         LET bound == Constant(reader.of, Statement.of.dim, Statement.of.must)
         IN IF Statement.of.must = "eq" THEN env[Statement.of.name] = bound ELSE env[Statement.of.name] < bound
Unpacked(fs) ==
  LET from(n) == fs[1].at + FoldLeft(LAMBDA a, f : a + f.width, 0, SubSeq(fs, 1, n - 1))
  IN [name \in {fs[n].name : n \in DOMAIN fs} |->
        LET n == CHOOSE n \in DOMAIN fs : fs[n].name = name
        IN Number(Cut(Raw, from(n), from(n) + fs[n].width))]

Pass ==
  /\ Parsing /\ Holds
  /\ pc' = pc + 1
  /\ env' = IF Statement.do = "unpack" THEN Unpacked(Statement.of) ELSE env
  /\ UNCHANGED <<decl, reader, gen, file, exit, answer>>
ParseError == Parsing /\ ~Holds /\ Ends("2")

\* header_to_dict knows four fields; the reader's dataclass has the declared ones.
Shown == {"magic", "version", "tensor_count", "metadata_kv_count"}
Keys == {f.name : f \in FieldsOf(reader.of, "header")}
\* (the list of keys, and the magic, show no number)
Show(names) == [n \in names \cap (Keys \ {"magic"}) |-> env[n]]
Answer ==
  /\ Running /\ pc > 0 /\ pc > Len(reader.body)
  /\ \E ask \in Asks :
       LET whole == {"summary", "none", "json", "."}
       IN /\ exit' = IF ask \in whole \cup {"keys"} \cup (Keys \cap Shown) THEN "0"
                     ELSE IF ask \in Keys THEN "KeyError" ELSE "3"
          /\ answer' = IF ask \in whole THEN Show(Shown) ELSE IF exit' = "0" THEN Show({ask}) ELSE << >>
  /\ UNCHANGED <<decl, reader, gen, file, pc, env>>

FormatNext == Generate \/ ImportError \/ Open \/ NoFile \/ Pass \/ ParseError \/ Answer
FormatSpec == FormatInit /\ [][FormatNext]_readerVars

---------------------------------------------------------------------------
\* What a declaration says of a file, read off its header's fields.
Valid(d, bytes) ==
  LET header == CHOOSE s \in ToSet(d) : s.name = "header"
      own(f) == SubSeq(bytes, f.at + 1, f.at + f.width)
  IN /\ Len(bytes) >= header.size
     /\ \A f \in ToSet(header.fields) :
          CASE f.must = "bytes" -> own(f) = f.to
            [] f.must = "eq"    -> Number(own(f)) = f.to
            [] f.must = "lt"    -> Number(own(f)) < f.to
            [] f.must = "any"   -> TRUE
\* Declarations the template is not made for: two bounds of one dimension, or a
\* second section of fixed size or fixed bytes, which is looked for in the header's.
Plain(d) ==
  LET fields == UNION {ToSet(d[n].fields) : n \in DOMAIN d}
  IN /\ \A f, g \in fields : f.dim = g.dim /\ f.must = g.must => f.to = g.to
     /\ Len(Fixed(d)) = 1 /\ \A n \in DOMAIN d : d[n].name # "header" => With(d[n], {"bytes"}) = << >>

\* The reader accepts a file just when it meets every constraint that was declared
\* when the reader was generated, and every number it shows is the one at the
\* declared offset; a generation that succeeds is of the present declaration and
\* one that fails changes nothing.
ReaderIsDeclared ==
  /\ gen = "0" => reader # NoReader /\ reader.of = decl
  /\ exit \in {"2", "0", "3", "KeyError"} /\ Plain(reader.of) =>
       (exit = "2" <=> (file = Missing \/ ~Valid(reader.of, file)))
  /\ exit = "0" =>
       \A name \in DOMAIN answer :
         LET f == CHOOSE f \in FieldsOf(reader.of, "header") : f.name = name
         IN answer[name] = Number(SubSeq(file, f.at + 1, f.at + f.width))
  /\ exit = "KeyError" => Keys # Shown
=============================================================================
