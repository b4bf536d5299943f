------------------------------ MODULE MCBuild ------------------------------
(***************************************************************************)
(* Instances of Build.  One platform is enough for two invocations to      *)
(* contend; two platforms for locks taken one after the other and for the  *)
(* register sources they share.                                            *)
(***************************************************************************)
EXTENDS Build

Job(ls, cs, level, mode, clean) ==
    [plats |-> ls, cases |-> cs, level |-> level, mode |-> mode, clean |-> clean]

\* Two invocations for the same platforms in opposite orders, of different cases
\* and with other flags, the second with --clean; "lost" has no source, "bad"
\* does not compile.
Crossed ==
    ("p1" :> Job(<<"l1", "l2">>, <<"lost", "a">>, "info", "sv39", FALSE)) @@
    ("p2" :> Job(<<"l2", "l1">>, <<"bad", "b">>, "debug", "sv48", TRUE))

\* The same case for two platforms at once.
SameCase ==
    ("p1" :> Job(<<"l1">>, <<"a">>, "info", "sv39", FALSE)) @@
    ("p2" :> Job(<<"l2">>, <<"a", "b">>, "info", "sv39", FALSE))
=============================================================================
