---------------------------- MODULE KernelProblems ----------------------------
(***************************************************************************)
(* verify_kernelbench_l1_cpu: the problems of KernelCatalog one after      *)
(* another, each compared bit for bit.  How a wrong kernel differs is left *)
(* out: it differs.                                                        *)
(***************************************************************************)
EXTENDS KernelCatalog

CONSTANT Libs \* builds of the library: which kernels it lacks, which are wrong, and the
              \* eighth integer a kernel finds that is given seven

VARIABLES
  lib,     \* the library that is loaded
  results, \* the status of each problem tried so far
  exit     \* the exit code, once there is one

problemVars == <<lib, results, exit>>

---------------------------------------------------------------------------
Init ==
  /\ lib \in Libs
  /\ results = << >> /\ exit = "none"

Next1 == Len(results) + 1
Try ==
  /\ exit = "none" /\ Next1 <= Len(Catalog)
  /\ LET k == Catalog[Next1].kernel
     IN results' = Append(results,
          IF k \in lib.missing THEN "MISSING_KERNEL"
          ELSE IF k \notin lib.wrong /\ Next1 \in (IF lib.junk = 0 THEN Right ELSE Padded)
          THEN "BIT_IDENTICAL" ELSE "DIVERGENT")
  /\ UNCHANGED <<lib, exit>>

Count(status) == Cardinality({i \in DOMAIN results : results[i] = status})
Finish ==
  /\ Len(results) = Len(Catalog) /\ exit = "none"
  /\ exit' = IF Count("BIT_IDENTICAL") = Len(results) THEN "0" ELSE "1"
  /\ UNCHANGED <<lib, results>>

Next == Try \/ Finish
Spec == Init /\ [][Next]_problemVars

---------------------------------------------------------------------------
\* A problem's status speaks of its kernel and nothing else: as the problems are
\* wired, a right kernel is BIT_IDENTICAL, whatever its strides, groups, layouts
\* and order of arguments, and the program succeeds just when every kernel is
\* there and right.  Pools of two dimensions are right when the padding nobody
\* passes happens to be 0.
StatusIsKernels ==
  LET Good(k) == k \notin lib.missing \cup lib.wrong /\ (k \in {"maxpool2d", "avgpool2d"} => lib.junk = 0)
  IN /\ \A i \in DOMAIN results :
          /\ (results[i] = "BIT_IDENTICAL") <=> Good(Catalog[i].kernel)
          /\ (results[i] = "MISSING_KERNEL") <=> (Catalog[i].kernel \in lib.missing)
     /\ exit = "0" => \A i \in DOMAIN Catalog : Good(Catalog[i].kernel)
     /\ exit = "1" => \E i \in DOMAIN Catalog : ~Good(Catalog[i].kernel)
=============================================================================
