-------------------------- MODULE MCSchemaRegistry --------------------------
(***************************************************************************)
(* A small world of schemas for SchemaRegistry.  A descriptor is           *)
(* <<file, name>>.  The -p file p and the bundle b define X, with a nested *)
(* X.N, differently; the bundle z defines an X with nothing nested; types  *)
(* of p, q and b are bound to X, X.N, an enum E and A.B; r is bound to a   *)
(* type of c, which it imports.  Each document file redefines some of them,*)
(* alike (vX, vB) or differently (the rest); vN defines an N in a package  *)
(* X, which is no message of that document.                                *)
(***************************************************************************)
EXTENDS SchemaRegistry, TLC

MCExternalFile == {"p", "q", "r", "c", "b", "z"}
MCDocumentFile == {"vX", "vB", "vY", "vE", "vA", "vC", "vN", "vBad"}

\* Every descriptor, with its definition's text.
MCShape ==
  (<<"p", "X">> :> 1) @@ (<<"p", "X.N">> :> 1) @@ (<<"p", "M">> :> 1) @@
  (<<"p", "W">> :> 1) @@ (<<"p", "E">> :> 1) @@ (<<"p", "V">> :> 1) @@
  (<<"q", "A.B">> :> 1) @@ (<<"q", "U">> :> 1) @@
  (<<"r", "R">> :> 1) @@ (<<"c", "C">> :> 1) @@
  (<<"b", "X">> :> 2) @@ (<<"b", "X.N">> :> 2) @@ (<<"b", "K">> :> 1) @@
  (<<"z", "X">> :> 3) @@
  (<<"vX", "X">> :> 1) @@ (<<"vX", "X.N">> :> 1) @@
  (<<"vB", "X">> :> 2) @@ (<<"vB", "X.N">> :> 2) @@
  (<<"vY", "X">> :> 4) @@ (<<"vY", "Y">> :> 1) @@
  (<<"vE", "E">> :> 2) @@
  (<<"vA", "A">> :> 1) @@ (<<"vA", "A.B">> :> 2) @@
  (<<"vC", "C">> :> 2) @@ (<<"vN", "X.N">> :> 5) @@ (<<"vBad", "D">> :> 1)

MCType == DOMAIN MCShape
MCName == {d[2] : d \in MCType}
MCFileOf == [d \in MCType |-> d[1]]
MCNameOf == [d \in MCType |-> d[2]]
MCMessages == {d \in MCType : d[2] # "E"}

MCEnclosing ==
  [d \in MCType |->
     CASE d[2] = "X.N" /\ d[1] # "vN" -> {<<d[1], "X">>}
       [] d = <<"vA", "A.B">> -> {<<"vA", "A">>}
       [] OTHER -> {}]

MCBinds ==
  [d \in MCType |->
     CASE d[2] = "X" /\ <<d[1], "X.N">> \in MCType -> {<<d[1], "X.N">>}
       [] d = <<"p", "M">> -> {<<"p", "X">>}
       [] d = <<"p", "W">> -> {<<"p", "X.N">>}
       [] d = <<"p", "V">> -> {<<"p", "E">>, <<"p", "M">>}
       [] d = <<"q", "U">> -> {<<"q", "A.B">>}
       [] d = <<"r", "R">> -> {<<"c", "C">>}
       [] d = <<"b", "K">> -> {<<"b", "X">>}
       [] d = <<"vY", "Y">> -> {<<"vY", "X">>}
       [] OTHER -> {}]

MCImportable == [f \in MCDocumentFile |-> f # "vBad"]

Refs == {{}, {"server", "schema"}, Coordinates}

\* Every mix of -p files and documents, with and without a bundle.
MCRequests ==
  [user    : {{}, {"p"}, {"p", "q"}, {"r"}, {"q", "r", "c"}},
   ref     : Refs,
   bundle  : {{"b"}, {"z", "q"}},
   virtual : {{}, {"vX"}, {"vY", "vE"}, {"vA", "vC"}, {"vBad"}},
   blobs   : {<<>>, <<{"vB"}>>, <<{"vE", "vY"}, {"vA", "vC"}>>}]
    \union
  [user    : {{"p"}, {"p", "q"}},
   ref     : Refs,
   bundle  : {{"b"}, {"z", "q"}},
   virtual : {{"vN"}},
   blobs   : {<<>>, <<{"vE"}>>}]

\* Those whose -p files import nothing that was not given with -p too and
\* whose document has @proto directives of one form only.
MCClosedRequests ==
  {request \in MCRequests :
     request.user # {"r"} /\ (request.virtual = {} \/ request.blobs = <<>>)}
=============================================================================
