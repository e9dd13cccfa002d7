------------------------------- MODULE MCLogger -------------------------------
(***************************************************************************)
(* Logger for TLC: every format string of a few characters, with arguments *)
(* that hold what Format() and fprintf() could trip over.                  *)
(***************************************************************************)
EXTENDS Logger

MCSinkKind == [l1 |-> "FileNameSink", l2 |-> "shared"]

MCValues == {Arg("string", <<"{", "}">>), Arg("char", "NUL")}

MCCalls == [format : BoundedSeq({"{", "}", "x", "NUL"}, 4), values : BoundedSeq(MCValues, 2)]
=============================================================================
