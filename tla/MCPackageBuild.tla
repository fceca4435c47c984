---- MODULE MCPackageBuild ----
(* Small configurations of PackageBuild: an application whose source is an   *)
(* override directory, and the library it depends on, which is patched.      *)
EXTENDS PackageBuild, TLC

CONSTANTS lib, app

MCPkgs == {lib, app}
MCDeps == (app :> {lib}) @@ (lib :> {})
NoDeps == [p \in MCPkgs |-> {}]
OnlyApp == {app}
OnlyLib == {lib}
NoPkg == {}
MCPatches == [p \in MCPkgs |-> IF p = lib THEN 2 ELSE 0]
====
