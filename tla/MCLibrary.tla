------------------------------ MODULE MCLibrary ------------------------------
(***************************************************************************)
(* Instances of BenchmarkLibrary, Evaluation and Curation for TLC.  They   *)
(* share no state (an experiment reads an index that is there, the review  *)
(* tools only files), so a behaviour is one of any of them: the others     *)
(* rest.                                                                   *)
(***************************************************************************)
EXTENDS BenchmarkLibrary, Evaluation, Curation

CONSTANTS w1, w2, v1, v2, v3

VARIABLE mode  \* which of the three the behaviour is one of

Calm == [k \in Kinds |-> IF k \in {"import", "fetch"} THEN 1 ELSE 0]

(* What may happen around one import and one fetch command *)
FewBudgets ==
  {[Calm EXCEPT !["crash"] = 2, !["fetch"] = 2],
   [Calm EXCEPT !["stall"] = 1, !["delete"] = 1, !["import"] = 2],
   [Calm EXCEPT !["upload"] = 1, !["import"] = 2, !["retry"] = 1],
   [Calm EXCEPT !["crash"] = 1, !["delete"] = 1, !["error"] = 1],
   [Calm EXCEPT !["gone"] = 1, !["upload"] = 1, !["import"] = 2],
   [Calm EXCEPT !["upload"] = 1, !["delete"] = 1, !["stall"] = 1]}

Symmetry == Permutations({w1, w2}) \cup Permutations({v1, v2, v3})

(* Two parts of one video, the first cut in one of two ways; a query with   *)
(* two true ranges that overlap, and one that no segment answers well       *)
TwoParts == {"head", "tail"}
OneVideo == [p \in TwoParts |-> "a"]
FewCuts  == [p \in TwoParts |->
  IF p = "head" THEN {{<<0, 10>>, <<10, 20>>}, {<<0, 14>>, <<14, 20>>}} ELSE {{<<20, 30>>}}]

True(s, e) == [video |-> "a", s |-> s, e |-> e]
Hidden     == [video |-> "a", relevant |-> <<True(28, 60)>>]
Overlapped == [video |-> "a", relevant |-> <<True(8, 14), True(11, 22)>>]
TwoQueries == {Hidden, Overlapped}
OneByOne   == {{q} : q \in TwoQueries}

TwoCandidates == {"speech", "ocr"}
OneSource     == [c \in TwoCandidates |-> "lecture"]

NoExperiment == EvalInit /\ \A p \in TwoParts : built[p].cuts = CHOOSE c \in FewCuts[p] : TRUE

Init == /\ mode \in {"library", "evaluation", "curation"}
        /\ LibraryInit /\ CurationInit
        /\ IF mode = "evaluation" THEN EvalInit ELSE NoExperiment

Next == \/ mode = "library" /\ LibraryNext /\ UNCHANGED <<mode, evalVars, curationVars>>
        \/ mode = "evaluation" /\ EvalNext /\ UNCHANGED <<mode, libraryVars, curationVars>>
        \/ mode = "curation" /\ CurationNext /\ UNCHANGED <<mode, libraryVars, evalVars>>

Spec == Init /\ [][Next]_<<mode, libraryVars, evalVars, curationVars>>
=============================================================================
