----------------------------- MODULE MCPrnCheck -----------------------------
(* PrnCheck with command lines to start it with. *)
EXTENDS PrnCheck

Flag(f)    == [flag |-> f, value |-> NoValue]
With(f, v) == [flag |-> f, value |-> v]
Word(v)    == [flag |-> "word", value |-> v]

\* Well-formed ones of both value forms, one that sets a flag twice, one that
\* takes a flag for a value, and one of each error.
MCCommandLines == {
  <<>>,
  <<Flag("--quiet"), With("--login", 0), Flag("--json")>>,
  <<With("--threshold-hours", 1), Flag("--threshold-hours"), Word(2)>>,
  <<Flag("--state-file"), Flag("--quiet"), With("--login", 0)>>,
  <<Flag("--threshold-hours"), Flag("--json")>>,
  <<Flag("--login")>>,
  <<With("--quiet", 1)>>,
  <<Word(1)>>,
  <<Flag("--json"), Flag("--help"), Word(1)>> }

MCFewCommandLines == {<<>>}
=============================================================================
