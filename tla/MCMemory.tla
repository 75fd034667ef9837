------------------------------ MODULE MCMemory ------------------------------
(* Instances of Memory for TLC: small program images. *)
EXTENDS Memory

image(e, h, c) == [ends |-> e, headers |-> h, contents |-> c]

OnePage == image(<<1>>, 1, 1)
TwoSegments == image(<<1, 2>>, 2, 2)
ShortContents == image(<<1, 3>>, 2, 1)   \* ends inside its second segment
NotExecutable == image(<<>>, -1, 0)
ShortHeaders == image(<<1, 2>>, 1, 2)    \* ends before its second program header

DenseImages == {OnePage, TwoSegments, ShortContents, NotExecutable}
TruncatedImages == {ShortHeaders}
=============================================================================
