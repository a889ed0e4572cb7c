--------------------------- MODULE MCKernelWriting --------------------------
(* Instances of KernelWriting and FindReplace for TLC. *)
EXTENDS FindReplace

CONSTANTS c1, c2

TwoCpus == {c1, c2}
OneStubborn == {c1}

SomeTexts ==
  {<<1, 1, 1, 1>>, <<1, 0, 1, 0>>, <<0, 1, 1, 0>>, <<1, 1, 0, 1>>, <<0, 0, 1, 0>>}

Plain(by, f, r, count, skip) ==
  [by |-> by, find |-> f, mask |-> <<>>, repl |-> r, keep |-> <<>>, count |-> count,
   skip |-> skip, from |-> 0, max |-> 0, loaded |-> TRUE]

\* Occurrences that overlap, are passed over, counted, masked, or cut off at an end.
SomeCalls ==
  { Plain("replace", <<1, 1>>, <<0, 1>>, 1, 1),
    [Plain("replace", <<1, 0>>, <<0, 1>>, 0, 0) EXCEPT !.mask = <<1, 0>>, !.keep = <<0, 1>>],
    [Plain("lookup", <<0>>, <<1>>, 2, 0) EXCEPT !.from = 1, !.max = 3],
    Plain("lookup", <<1, 0>>, <<0, 0>>, 0, 0),
    [Plain("lookup", <<1, 0>>, <<0, 0>>, 0, 0) EXCEPT !.loaded = FALSE] }
=============================================================================
