--------------------------- MODULE MCInferSchema ---------------------------
(***************************************************************************)
(* Small datasets for InferSchema: every column of up to three rows over   *)
(* all kinds of cell, with every sample window; pairs of columns of two    *)
(* rows; and the inputs refused before a cell is read.                     *)
(***************************************************************************)
EXTENDS InferSchema

Infer(n, rows, sample, full) ==
  [named |-> TRUE, datasets |-> 1, columns |-> n, dotted |-> {},
   rows |-> rows, sampleRows |-> sample, fullScan |-> full]

SomeCell == {"int", "bigInt", "float", "string", "timestamp", "absent", "null", "nested"}

SingleColumns ==
  {Infer(1, rows, sample, full) :
     rows \in UNION {[1..n -> [1..1 -> SomeCell]] : n \in 0..3}, sample \in 0..3, full \in BOOLEAN}
  \union
  {Infer(1, rows, 1, full) : rows \in [1..2 -> [1..1 -> Cell]], full \in BOOLEAN}

\* Late floats, mixes and unreadable cells in either column first.
TwoColumns ==
  {Infer(2, rows, sample, full) :
     rows \in [1..2 -> [1..2 -> {"int", "float", "string", "null", "nested"}]],
     sample \in {1, 2}, full \in BOOLEAN}

Unreadable ==
  {[Infer(n, <<>>, 1, FALSE) EXCEPT !.named = named, !.datasets = k, !.dotted = d] :
     named \in BOOLEAN, k \in 0..2, n \in 0..2, d \in {{}, {2}}}

MCInputs == SingleColumns \union TwoColumns \union Unreadable
=============================================================================
