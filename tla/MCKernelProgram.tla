--------------------------- MODULE MCKernelProgram ---------------------------
EXTENDS KernelProgram

MCChars == {-1, 0, 97}

A == [kind |-> "char", value |-> 97]
S == [kind |-> "string"]
P == [kind |-> "percent"]
D(i) == [kind |-> "int", value |-> i]
Other(v) == [kind |-> "other", value |-> v]

MCFormats ==
  { <<A, S, A>>, <<S, D(-7), S>>, <<D(15), P>>, <<D(0), D(10)>>,
    <<A, Other(<<CharX>>), S>>, <<Other(<<CharL, CharU>>)>>, <<A, Other(<<CharL, CharS>>)>>,
    <<Other(<<>>)>> }
=============================================================================
