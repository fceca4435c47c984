----------------------------- MODULE MCApplyPatches ----------------------------
(* A package with two downloaded archives of patches, one with a series file and   *)
(* one with a README and a nested directory, and its own patch directory, which    *)
(* the recipe scans for *.patch only.                                              *)
EXTENDS ApplyPatches

MCDirs == {"dl", "unpacked", "dl2", "extra", "nested", "pkg"}
MCCalls == <<"dl", "dl2", "pkg">>
MCListing == [d \in MCDirs |->
    CASE d = "dl"       -> <<"debian.tar">>
      [] d = "unpacked" -> <<"d1", "d2">>
      [] d = "dl2"      -> <<"extra.tar">>
      [] d = "extra"    -> <<"README", "c.diff", "more">>
      [] d = "nested"   -> <<"old.bz", "packed.gz">>
      [] d = "pkg"      -> <<"a.patch", "b.patch">>]
MCSeries == [d \in MCDirs |-> IF d = "unpacked" THEN <<"d2", "d1">> ELSE "none"]
MCFiles == [d \in MCDirs |-> { MCListing[d][i] : i \in DOMAIN MCListing[d] }]
MCNested == [d \in MCDirs |->
    CASE d = "dl"    -> [n \in {"debian.tar"} |-> "unpacked"]
      [] d = "dl2"   -> [n \in {"extra.tar"} |-> "extra"]
      [] d = "extra" -> [n \in {"more"} |-> "nested"]
      [] OTHER       -> [n \in {} |-> "none"]]
MCTypeOf == [n \in UNION { MCFiles[d] : d \in MCDirs } |->
    CASE n \in {"a.patch", "b.patch"} -> "patch"
      [] n = "c.diff"     -> "diff"
      [] n = "old.bz"     -> "bzip"
      [] n = "packed.gz"  -> "gzip"
      [] OTHER            -> "other"]
================================================================================
