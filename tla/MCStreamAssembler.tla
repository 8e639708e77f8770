------------------------- MODULE MCStreamAssembler -------------------------
(***************************************************************************)
(* Every stream of up to MaxEvents events out of six kinds: a delta, a     *)
(* delta with a finish reason after a comment line, two choices in one     *)
(* chunk, a line that is no JSON, one that is JSON but no chunk, and       *)
(* [DONE]; each with either end of a line.                                 *)
(***************************************************************************)
EXTENDS StreamAssembler

CONSTANT MaxEvents

Delta(content, finish) == [content |-> content, finish |-> finish]

MCEvent ==
    {<<Json(<<Delta(<<"a">>, None)>>)>>,
     <<Plain("other"), Json(<<Delta(<<"b">>, "length")>>)>>,
     <<Json(<<Delta(<<"a">>, None), Delta(<<"b">>, "stop")>>)>>,
     <<Plain("garbage")>>,
     <<Plain("misfit")>>,
     <<Plain("done")>>}

MCWire == UNION {[1..n -> MCEvent] : n \in 0..MaxEvents}
=============================================================================
