------------------------------- MODULE MCDownload ------------------------------
(* Download on two builds and two files: a tarball and a patch. *)
EXTENDS Download, TLC

CONSTANTS b1, b2

MCOrder == <<"tar", "patch">>
Good == "good"
Bad == "bad"
Part == "part"
None == "none"
Error == "error"
MCContents == {Good, Bad, Part}

Line(t, h, f) == [type |-> t, hash |-> h, file |-> f]
Hashes(lines) == [exists |-> TRUE, lines |-> lines]
Missing == [exists |-> FALSE, lines |-> <<>>]

\* A .hash file that covers both files, the tarball by two hashes.
Covered == <<Missing, Hashes(<<Line("md5", Good, "tar"), Line("sha256", Good, "tar"),
                               Line("sha256", Good, "patch")>>)>>
\* A .hash file without the patch.
Partly == <<Hashes(<<Line("sha256", Good, "tar")>>)>>

MCCovered == [b \in Builds |-> Covered]
\* Two trees, one of which has no hash for the patch.
MCTwoTrees == [b \in Builds |-> IF b = b1 THEN Covered ELSE Partly]
MCNoCheck == [b \in Builds |-> {}]

\* A first mirror that may fail or serve anything; a second one that may fail.
MCServes == <<[f \in Files |-> {Error, Good, Bad}], [f \in Files |-> {Error, Good, Part}]>>
\* The same, with a second mirror that always serves the tarball.
MCReliable == <<[f \in Files |-> {Error, Good, Bad}],
                [f \in Files |-> IF f = "tar" THEN {Good} ELSE {Error, Good}]>>

MCLegacy == {None, Good, Bad}
================================================================================
