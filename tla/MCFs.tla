-------------------------------- MODULE MCFs --------------------------------
(***************************************************************************)
(* Fs on a disk that every resource of runs out of.                        *)
(***************************************************************************)
EXTENDS Fs

Bytes(s) == [k \in DOMAIN s |-> Cell(s[k], "")]

Names == {".", "..", "bin", "sh", "README.md", "f", "long", "longer"}

\* DIRSIZ is met by "longer", whose first bytes are "long".
MCClip == [x \in Names |-> IF x = "longer" THEN "long" ELSE x]

Call(path, flags) == [path |-> path, flags |-> flags]

\* New files, a name that is too long, truncation through a second open, an
\* append, a directory to read, a file that is no directory, a file that open
\* makes and then refuses.
MCOpens ==
    {Call(<<"f">>, {"O_RDWR", "O_CREATE"}),
     Call(<<"f">>, {"O_WRONLY", "O_CREATE", "O_TRUNC"}),
     Call(<<"/", "README.md">>, {"O_WRONLY", "O_APPEND"}),
     Call(<<"/", "bin", "/", "longer">>, {"O_CREATE", "O_TRUNC"}),
     Call(<<"f", "/", "long">>, {"O_CREATE"}),
     Call(<<"bin", "/">>, {})}
MCMkdirs == {<<"longer", "/">>}
MCChdirs == {<<"bin">>, <<"..">>, <<"f">>}

MCData == {Bytes(<<5, 6, 7, 8, 9>>)}
MCProgram == Bytes(<<8>>)
MCReadme == Bytes(<<9, 9>>)
=============================================================================
