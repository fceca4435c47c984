--------------------------- MODULE PackageBuildProofs --------------------------
(***************************************************************************)
(* What PackageBuild guarantees for every set of packages, dependency      *)
(* graph and bound: the types, that a package is only worked on while its  *)
(* dependencies are installed and at rest, what the success of make means, *)
(* that a command leaves the other packages alone and that a rebuild       *)
(* installs the source of its start.                                       *)
(***************************************************************************)
EXTENDS PackageBuild, SequenceTheorems, FiniteSetTheorems, NaturalsInduction,
        WellFoundedInduction, TLAPS

\* The marks of the clean recipe.
Marks == Steps \cup {"per-package dir", "build dir"}

LEMMA ClosureType == ASSUME NEW goals PROVE Closure(goals) \subseteq Targets
  BY DEF Closure

LEMMA CleanForReinstallType == ASSUME NEW p PROVE CleanForReinstall(p) \in Seq(Steps)
<1>1. <<"installed", "install_staging", "install_target", "install_images",
        "install_host">> \in Seq(Steps)
  BY DEF Steps
<1>2. <<"rsync">> \in Seq(Steps) /\ <<>> \in Seq(Steps)
  BY DEF Steps
<1>3. ASSUME NEW a \in Seq(Steps), NEW b \in Seq(Steps) PROVE a \o b \in Seq(Steps)
  OBVIOUS
<1> QED
  BY <1>1, <1>2, <1>3 DEF CleanForReinstall

LEMMA CleanForType ==
  ASSUME NEW p, NEW c \in AllCommands
  PROVE  /\ CleanFor(p, c) \in Seq(Marks)
         /\ c # "dirclean" \/ ~PerPackage => CleanFor(p, c) \in Seq(Steps \cup {"build dir"})
<1>1. CleanForReinstall(p) \in Seq(Steps)
  BY CleanForReinstallType
<1>2. CleanForRebuild(p) \in Seq(Steps)
  BY <1>1 DEF CleanForRebuild, Steps
<1>3. CleanForReconfigure(p) \in Seq(Steps)
  BY <1>2 DEF CleanForReconfigure, Steps
<1>4. ASSUME NEW a \in Seq(Steps) PROVE a \in Seq(Marks) /\ a \in Seq(Steps \cup {"build dir"})
  BY SeqMonotonic DEF Marks
<1>5. /\ <<"per-package dir", "build dir">> \in Seq(Marks)
      /\ <<"build dir">> \in Seq(Marks)
      /\ <<"build dir">> \in Seq(Steps \cup {"build dir"})
      /\ <<>> \in Seq(Marks) /\ <<>> \in Seq(Steps \cup {"build dir"})
  BY DEF Marks
<1> QED
  BY <1>1, <1>2, <1>3, <1>4, <1>5 DEF CleanFor

LEMMA HeadTail ==
  ASSUME NEW S, NEW q \in Seq(S), q # <<>>
  PROVE  Head(q) \in S /\ Tail(q) \in Seq(S)
  OBVIOUS

\* Facts about the rules.
LEMMA StepsOfType == ASSUME NEW p PROVE StepsOf(p) \subseteq Steps
  BY DEF StepsOf, SourceSteps, Variants, InstallSteps, Steps

LEMMA VariantsType == ASSUME NEW p PROVE Variants(p) \subseteq InstallSteps \cap StepsOf(p)
  BY DEF StepsOf, Variants, InstallSteps

LEMMA TargetsType ==
  ASSUME NEW p, NEW s, <<p, s>> \in Targets
  PROVE  p \in Pkgs /\ s \in StepsOf(p) /\ s \in Steps
  BY DEF Targets

LEMMA VersionsWhole == ASSUME NEW v \in Versions PROVE Whole(v) /\ v \in Artefacts
  BY PackageAssumption DEF Versions, Whole, None, Partial, Artefacts

LEMMA ArtefactsNone == None \in Artefacts /\ Partial \in Artefacts
  BY DEF Artefacts

--------------------------------------------------------------------------------
(* Types *)

LEMMA InitTypes == Init => TypeOK
<1> SUFFICES ASSUME Init PROVE TypeOK
  OBVIOUS
<1>1. 1 \in Versions /\ 0 \in 0..MaxFaults /\ 0 \in 0..MaxEdits
  BY PackageAssumption DEF Versions
<1>2. stamps \in PkgStamps /\ stale \in PkgStamps /\ listed \in [Pkgs -> Nat]
  BY DEF Init, PkgStamps
<1>3. /\ tree \in [Pkgs -> Artefacts] /\ obj \in [Pkgs -> Artefacts]
      /\ inst \in [Pkgs -> [InstallSteps -> Artefacts]]
      /\ before \in [Pkgs -> BOOLEAN] /\ checked \in [Pkgs -> Artefacts]
  BY ArtefactsNone DEF Init
<1>4. src \in [Pkgs -> Versions] /\ srcAtStart \in [Pkgs -> Versions]
  BY <1>1 DEF Init
<1>5. cleanq \in Seq(Marks)
  BY DEF Init
<1> QED
  BY <1>1, <1>2, <1>3, <1>4, <1>5 DEF Init, TypeOK, AllCommands, Marks

LEMMA StartTypes ==
  ASSUME TypeOK, NEW p \in Pkgs, NEW c \in Commands, StartMake(c, p)
  PROVE  TypeOK'
<1>1. c \in AllCommands
  BY PackageAssumption
<1>2. cleanq' \in Seq(Marks)
  BY <1>1, CleanForType DEF StartMake
<1>3. wanted' \subseteq Targets
  BY ClosureType DEF StartMake
<1> QED
  BY <1>1, <1>2, <1>3 DEF StartMake, TypeOK, disk, PkgStamps, Marks

LEMMA CleanTypes == ASSUME TypeOK, Clean PROVE TypeOK'
<1>1. cleanq \in Seq(Marks)
  BY DEF TypeOK, Marks
<1>2. cleanq # <<>> /\ cleanq' = Tail(cleanq)
  BY DEF Clean, RemoveStamp, RemovePerPackageDir, RemoveBuildDir
<1>3. cleanq' \in Seq(Marks)
  BY <1>1, <1>2, HeadTail
<1>4. CASE RemoveStamp
  <2>1. stamps' \in PkgStamps /\ stale' \in PkgStamps
    BY <1>4 DEF RemoveStamp, TypeOK, PkgStamps
  <2> QED
    BY <1>3, <1>4, <2>1 DEF RemoveStamp, TypeOK, Marks, PkgStamps
<1>5. CASE RemovePerPackageDir
  <2>1. inst' \in [Pkgs -> [InstallSteps -> Artefacts]]
    BY <1>5, ArtefactsNone DEF RemovePerPackageDir, TypeOK
  <2> QED
    BY <1>3, <1>5, <2>1 DEF RemovePerPackageDir, TypeOK, Marks, PkgStamps
<1>6. CASE RemoveBuildDir
  <2>1. stamps' \in PkgStamps /\ stale' \in PkgStamps /\ listed' \in [Pkgs -> Nat]
    BY <1>6 DEF RemoveBuildDir, TypeOK, PkgStamps
  <2>2. /\ tree' \in [Pkgs -> Artefacts] /\ obj' \in [Pkgs -> Artefacts]
        /\ checked' \in [Pkgs -> Artefacts] /\ before' \in [Pkgs -> BOOLEAN]
    BY <1>6, ArtefactsNone DEF RemoveBuildDir, TypeOK
  <2> QED
    BY <1>3, <1>6, <2>1, <2>2 DEF RemoveBuildDir, TypeOK, Marks
<1> QED
  BY <1>4, <1>5, <1>6 DEF Clean

LEMMA RecipeStartTypes ==
  ASSUME TypeOK, NEW p \in Pkgs, NEW s \in Steps, StartRecipe(p, s)
  PROVE  TypeOK'
<1>1. active' \subseteq Targets
  BY DEF StartRecipe, Considers, TypeOK
<1>2. tree' \in [Pkgs -> Artefacts] /\ obj' \in [Pkgs -> Artefacts]
  BY ArtefactsNone DEF StartRecipe, TypeOK
<1>3. inst' \in [Pkgs -> [InstallSteps -> Artefacts]]
  BY ArtefactsNone DEF StartRecipe, TypeOK
<1>4. before' \in [Pkgs -> BOOLEAN]
  BY DEF StartRecipe, TypeOK
<1>5. checked' \in [Pkgs -> Artefacts]
  <2>1. inst[p] \in [InstallSteps -> Artefacts] /\ "install_target" \in InstallSteps
    BY DEF TypeOK, InstallSteps
  <2>2. inst[p]["install_target"] \in Artefacts
    BY <2>1
  <2> QED
    BY <2>2, ArtefactsNone DEF StartRecipe, TypeOK
<1> QED
  BY <1>1, <1>2, <1>3, <1>4, <1>5 DEF StartRecipe, TypeOK, PkgStamps

LEMMA RecipeEndTypes ==
  ASSUME TypeOK, NEW p \in Pkgs, NEW s \in Steps, EndRecipe(p, s)
  PROVE  TypeOK'
<1>1. active' \subseteq Targets /\ ready' \subseteq Targets
  BY DEF EndRecipe, TypeOK
<1>2. stamps' \in PkgStamps
  BY DEF EndRecipe, TypeOK, PkgStamps
<1>3. stale' \in PkgStamps
  <2>1. stale[p] \subseteq Steps /\ stamps[p] \subseteq Steps
    BY DEF TypeOK, PkgStamps
  <2>2. (stale[p] \ {s}) \cup { t \in stamps[p] : s \in Prereqs(p, t) } \in SUBSET Steps
    BY <2>1
  <2> QED
    BY <2>2 DEF EndRecipe, TypeOK, PkgStamps
<1>4. src[p] \in Artefacts
  BY VersionsWhole DEF TypeOK
<1>5. tree' \in [Pkgs -> Artefacts] /\ obj' \in [Pkgs -> Artefacts]
  BY <1>4 DEF EndRecipe, TypeOK
<1>6. inst' \in [Pkgs -> [InstallSteps -> Artefacts]]
  BY DEF EndRecipe, TypeOK
<1> QED
  BY <1>1, <1>2, <1>3, <1>5, <1>6 DEF EndRecipe, TypeOK

LEMMA EditTypes == ASSUME TypeOK, NEW p \in Pkgs, Edit(p) PROVE TypeOK'
<1>0. MaxEdits \in Nat /\ edits \in 0..MaxEdits /\ edits < MaxEdits
  BY PackageAssumption DEF TypeOK, Edit
<1>1. edits + 1 \in 0..MaxEdits /\ edits + 2 \in Versions
  BY <1>0 DEF Versions
<1>2. src' \in [Pkgs -> Versions]
  BY <1>1 DEF TypeOK, Edit
<1> QED
  BY <1>1, <1>2 DEF TypeOK, Edit, disk, run, PkgStamps

LEMMA FaultTypes ==
  ASSUME TypeOK, Interrupt \/ \E p \in Pkgs, s \in Steps : Fail(p, s)
  PROVE  TypeOK'
<1>0. /\ MaxFaults \in Nat /\ faults \in 0..MaxFaults
      /\ faults < MaxFaults /\ faults' = faults + 1
  BY PackageAssumption DEF TypeOK, Interrupt, Fail
<1>1. faults' \in 0..MaxFaults
  BY <1>0
<1>2. active' \subseteq Targets /\ ready' \subseteq Targets
  BY DEF TypeOK, Interrupt, Fail
<1>3. cleanq' \in Seq(Marks)
  <2>1. cleanq \in Seq(Marks) /\ <<>> \in Seq(Marks)
    BY EmptySeq DEF TypeOK, Marks
  <2>2. cleanq' = cleanq \/ cleanq' = <<>>
    BY DEF Interrupt, Fail
  <2> QED
    BY <2>1, <2>2
<1> QED
  BY <1>1, <1>2, <1>3 DEF TypeOK, Interrupt, Fail, disk, PkgStamps, Marks

LEMMA OtherTypes ==
  ASSUME TypeOK, NEW p \in Pkgs, NEW s \in Steps,
         \/ FindUpToDate(p, s) \/ ApplyPatch(p) \/ FindDuplicatePatch(p)
         \/ Succeed \/ GiveUp
  PROVE  TypeOK'
<1>1. CASE FindUpToDate(p, s)
  BY <1>1 DEF FindUpToDate, Considers, TypeOK, disk, PkgStamps
<1>2. CASE ApplyPatch(p)
  <2>0. listed \in [Pkgs -> Nat] /\ listed' = [listed EXCEPT ![p] = listed[p] + 1]
    BY <1>2 DEF ApplyPatch, TypeOK
  <2>1. listed' \in [Pkgs -> Nat]
    BY <2>0
  <2> QED
    BY <1>2, <2>1 DEF ApplyPatch, TypeOK, run, PkgStamps
<1>3. CASE FindDuplicatePatch(p) \/ Succeed
  BY <1>3 DEF FindDuplicatePatch, Succeed, TypeOK, disk, PkgStamps
<1>4. CASE GiveUp
  <2>1. cleanq' \in Seq(Marks)
    BY <1>4 DEF GiveUp, Marks
  <2> QED
    BY <1>4, <2>1 DEF GiveUp, TypeOK, disk, PkgStamps, Marks
<1> QED
  BY <1>1, <1>2, <1>3, <1>4

\* The types of all variables, whatever the packages, commands and bounds.
THEOREM BuildTypes == Spec => []TypeOK
<1>1. Init => TypeOK
  BY InitTypes
<1>2. TypeOK /\ [Next]_vars => TypeOK'
  <2> SUFFICES ASSUME TypeOK, [Next]_vars PROVE TypeOK'
    OBVIOUS
  <2>1. CASE UNCHANGED vars
    BY <2>1 DEF TypeOK, vars, disk, run, PkgStamps
  <2>2. "build" \in Steps
    BY DEF Steps
  <2>3. CASE MakeStep
    <3>1. CASE Clean
      BY <3>1, CleanTypes
    <3>2. CASE Succeed \/ GiveUp
      <4>1. PICK p \in Pkgs : TRUE
        BY DEF TypeOK
      <4> QED
        BY <2>2, <3>2, <4>1, OtherTypes
    <3>3. ASSUME NEW p \in Pkgs, NEW s \in Steps,
                 FindUpToDate(p, s) \/ StartRecipe(p, s) \/ EndRecipe(p, s)
          PROVE  TypeOK'
      BY <3>3, OtherTypes, RecipeStartTypes, RecipeEndTypes
    <3>4. ASSUME NEW p \in Pkgs, ApplyPatch(p) \/ FindDuplicatePatch(p)
          PROVE  TypeOK'
      BY <2>2, <3>4, OtherTypes
    <3> QED
      BY <2>3, <3>1, <3>2, <3>3, <3>4 DEF MakeStep
  <2>4. ASSUME NEW p \in Pkgs, NEW c \in Commands, StartMake(c, p) PROVE TypeOK'
    BY <2>4, StartTypes
  <2>5. ASSUME NEW p \in Pkgs, Edit(p) PROVE TypeOK'
    BY <2>5, EditTypes
  <2> QED
    BY <2>1, <2>3, <2>4, <2>5, FaultTypes DEF Next
<1> QED
  BY <1>1, <1>2, PTL DEF Spec

--------------------------------------------------------------------------------
(* The rules of one package *)

LEMMA Rules ==
  ASSUME NEW p \in Pkgs
  PROVE  /\ \A s \in Variants(p) \cup {"installed"} : "build" \in Prereqs(p, s)
         /\ Variants(p) \subseteq Prereqs(p, "installed")
         /\ "configure" \in Prereqs(p, "build")
         /\ p \notin Override => /\ "patch" \in Prereqs(p, "configure")
                               /\ "extract" \in Prereqs(p, "patch")
                               /\ "download" \in Prereqs(p, "extract")
         /\ p \in Override => <<p, "rsync">> \in OrderOnly(p, "configure")
         /\ Installed(Deps[p]) \subseteq OrderOnly(p, "configure")
<1>1. \A s \in Variants(p) \cup {"installed"} : "build" \in Prereqs(p, s)
  BY VariantsType DEF Prereqs, InstallSteps
<1>2. Variants(p) \subseteq Prereqs(p, "installed") /\ "configure" \in Prereqs(p, "build")
  BY DEF Prereqs, InstallSteps
<1>3. p \notin Override => /\ "patch" \in Prereqs(p, "configure")
                           /\ "extract" \in Prereqs(p, "patch")
                           /\ "download" \in Prereqs(p, "extract")
  BY DEF Prereqs, InstallSteps, SourceSteps
<1>4. /\ p \in Override => <<p, "rsync">> \in OrderOnly(p, "configure")
      /\ Installed(Deps[p]) \subseteq OrderOnly(p, "configure")
  BY DEF OrderOnly
<1> QED
  BY <1>1, <1>2, <1>3, <1>4

LEMMA PrereqsReady ==
  ASSUME ReadyInv, NEW p \in Pkgs, NEW s \in Steps, <<p, s>> \in ready \cup active
  PROVE  /\ \A r \in Prereqs(p, s) : <<p, r>> \in ready
         /\ \A t \in OrderOnly(p, s) : t \in ready
  BY DEF ReadyInv, AllPrereqs

\* When configure runs or is done, the source is there.
LEMMA SourceReady ==
  ASSUME ReadyInv, NEW p \in Pkgs, <<p, "configure">> \in ready \cup active
  PROVE  \A s \in SourceSteps(p) : <<p, s>> \in ready
<1> USE DEF Steps
<1>1. CASE p \in Override
  BY <1>1, Rules, PrereqsReady DEF SourceSteps
<1>2. CASE p \notin Override
  <2>1. <<p, "patch">> \in ready
    BY <1>2, Rules, PrereqsReady
  <2>2. <<p, "extract">> \in ready
    BY <1>2, <2>1, Rules, PrereqsReady
  <2>3. <<p, "download">> \in ready
    BY <1>2, <2>2, Rules, PrereqsReady
  <2> QED
    BY <1>2, <2>1, <2>2, <2>3 DEF SourceSteps
<1> QED
  BY <1>1, <1>2

\* When build runs or is done, configure is done.
LEMMA ConfigureReady ==
  ASSUME ReadyInv, NEW p \in Pkgs, NEW s \in NeedsDeps \cap StepsOf(p),
         <<p, s>> \in ready \cup active
  PROVE  /\ s = "configure" \/ <<p, "configure">> \in ready
         /\ s \in {"configure", "build"} \/ <<p, "build">> \in ready
         /\ \A q \in Deps[p] : <<q, "installed">> \in ready
<1>0. s \in Steps
  BY StepsOfType
<1>1. s \in {"configure", "build"} \/ s \in Variants(p) \cup {"installed"}
  BY DEF NeedsDeps, StepsOf, SourceSteps, InstallSteps
<1>2. s \in {"configure", "build"} \/ <<p, "build">> \in ready
  BY <1>0, <1>1, Rules, PrereqsReady
<1>3. s = "configure" \/ <<p, "configure">> \in ready
  BY <1>2, Rules, PrereqsReady DEF Steps
<1>4. \A t \in OrderOnly(p, "configure") : t \in ready
  BY <1>3, PrereqsReady DEF Steps
<1> QED
  BY <1>2, <1>3, <1>4, Rules DEF Installed

\* When a package is installed, all its steps are done.
LEMMA AllStepsReady ==
  ASSUME ReadyInv, NEW p \in Pkgs, <<p, "installed">> \in ready
  PROVE  \A s \in StepsOf(p) : <<p, s>> \in ready
<1>1. "installed" \in NeedsDeps \cap StepsOf(p) /\ "installed" \in Steps
  BY DEF NeedsDeps, StepsOf, Steps
<1>2. <<p, "configure">> \in ready /\ <<p, "build">> \in ready
  BY <1>1, ConfigureReady
<1>3. \A s \in Variants(p) : <<p, s>> \in ready
  BY <1>1, Rules, PrereqsReady
<1>4. \A s \in SourceSteps(p) : <<p, s>> \in ready
  BY <1>2, SourceReady
<1> QED
  BY <1>2, <1>3, <1>4 DEF StepsOf

--------------------------------------------------------------------------------
(* The invariant *)

files == <<stamps, stale, tree, obj, inst>>

LEMMA StampSame == ASSUME StampInv, UNCHANGED files PROVE StampInv'
  BY DEF StampInv, StampsTell, files, IsUpToDate

LEMMA ReadySame ==
  ASSUME ReadyInv, UNCHANGED <<stamps, stale, wanted>>,
         ready' \in {ready, {}}, active' \subseteq active,
         ready' = {} => active' = {} \/ ready = {},
         ~InRun' => active' = {},
         phase' = "ok" => wanted \subseteq ready'
  PROVE  ReadyInv'
  BY DEF ReadyInv, IsUpToDate

LEMMA CleanOver == ASSUME Orderly, OrderlyRun, CanConsider PROVE cleanq = <<>>
  BY DEF Orderly, OrderlyRun, CanConsider

LEMMA InitInv == Init => BuildInv
<1> SUFFICES ASSUME Init PROVE BuildInv
  OBVIOUS
<1>1. TypeOK
  BY InitTypes
<1>2. OrderlyRun
  BY EmptySeq DEF Init, OrderlyRun
<1>3. ReadyInv
  BY DEF Init, ReadyInv
<1>4. StampInv
  BY DEF Init, StampInv, StampsTell, IsUpToDate
<1> QED
  BY <1>1, <1>2, <1>3, <1>4 DEF BuildInv

LEMMA StartInv ==
  ASSUME Orderly, BuildInv, NEW p \in Pkgs, NEW c \in Commands, StartMake(c, p)
  PROVE  OrderlyRun' /\ ReadyInv' /\ StampInv'
<1>1. c \in AllCommands
  BY PackageAssumption
<1>2. PerPackage => c \notin {"rebuild all", "dirclean"}
  BY DEF Orderly
<1>3. cleanq' \in Seq(Steps \cup {"build dir"})
  BY <1>1, <1>2, CleanForType DEF StartMake
<1>4. OrderlyRun'
  BY <1>2, <1>3 DEF StartMake, OrderlyRun
<1>5. ReadyInv'
  BY DEF StartMake, ReadyInv, InRun
<1>6. StampInv'
  BY StampSame DEF StartMake, BuildInv, disk, files
<1> QED
  BY <1>4, <1>5, <1>6

LEMMA CleanInv ==
  ASSUME BuildInv, TypeOK', Clean
  PROVE  OrderlyRun' /\ ReadyInv' /\ StampInv'
<1>1. cleanq # <<>> /\ cleanq \in Seq(Steps \cup {"build dir"}) /\ ready = {} /\ active = {}
  BY DEF Clean, RemoveStamp, RemovePerPackageDir, RemoveBuildDir, BuildInv, OrderlyRun
<1>2. Head(cleanq) \in Steps \cup {"build dir"} /\ Tail(cleanq) \in Seq(Steps \cup {"build dir"})
  BY <1>1, HeadTail
<1>3. RemoveStamp \/ RemoveBuildDir
  BY <1>2 DEF Clean, RemovePerPackageDir, Steps
<1>4. OrderlyRun'
  BY <1>1, <1>2, <1>3 DEF RemoveStamp, RemoveBuildDir, BuildInv, OrderlyRun
<1>5. ReadyInv'
  BY <1>1, <1>3 DEF RemoveStamp, RemoveBuildDir, ReadyInv, InRun
<1>6. ASSUME NEW p \in Pkgs PROVE StampsTell(p)'
  <2>1. CASE RemoveStamp
    <3>1. /\ stamps'[p] \subseteq stamps[p] /\ stale'[p] \subseteq stale[p]
          /\ stamps'[p] \ stale'[p] \subseteq stamps[p] \ stale[p]
      BY <2>1 DEF RemoveStamp, BuildInv, TypeOK, PkgStamps
    <3>2. UNCHANGED <<tree, obj, inst>>
      BY <2>1 DEF RemoveStamp
    <3>3. StampsTell(p)
      BY DEF BuildInv, StampInv
    <3> QED
      BY <3>1, <3>2, <3>3 DEF StampsTell, IsUpToDate
  <2>2. CASE RemoveBuildDir
    <3>1. \/ stamps'[p] = {} /\ stale'[p] = {}
          \/ UNCHANGED <<stamps[p], stale[p], tree[p], obj[p], inst[p]>>
      BY <2>2 DEF RemoveBuildDir, BuildInv, TypeOK, PkgStamps
    <3>2. StampsTell(p)
      BY DEF BuildInv, StampInv
    <3> QED
      BY <3>1, <3>2 DEF StampsTell, IsUpToDate
  <2> QED
    BY <1>3, <2>1, <2>2
<1> QED
  BY <1>4, <1>5, <1>6 DEF StampInv

LEMMA FindInv ==
  ASSUME Orderly, BuildInv, NEW p \in Pkgs, NEW s \in Steps, FindUpToDate(p, s)
  PROVE  OrderlyRun' /\ ReadyInv' /\ StampInv'
<1>1. cleanq = <<>>
  BY CleanOver DEF FindUpToDate, Considers, BuildInv
<1>2. OrderlyRun'
  BY <1>1 DEF FindUpToDate, BuildInv, OrderlyRun
<1>3. ReadyInv'
  BY DEF FindUpToDate, Considers, Running, InRun, BuildInv, ReadyInv, disk, IsUpToDate
<1>4. StampInv'
  BY StampSame DEF FindUpToDate, BuildInv, disk, files
<1> QED
  BY <1>2, <1>3, <1>4

LEMMA RecipeStartInv ==
  ASSUME Orderly, BuildInv, NEW p \in Pkgs, NEW s \in Steps, StartRecipe(p, s)
  PROVE  OrderlyRun' /\ ReadyInv' /\ StampInv'
<1>1. cleanq = <<>> /\ UNCHANGED <<command, cleanq, ready, stamps, stale, phase, wanted>>
  BY CleanOver DEF StartRecipe, Considers, BuildInv
<1>2. /\ <<p, s>> \in Targets /\ <<p, s>> \in wanted /\ <<p, s>> \notin ready /\ AllPrereqs(p, s) \subseteq ready
      /\ ~IsUpToDate(p, s) /\ InRun /\ active' = active \cup {<<p, s>>}
  BY DEF StartRecipe, Considers, BuildInv, TypeOK, Running, InRun
<1>3. OrderlyRun'
  BY <1>1 DEF BuildInv, OrderlyRun
<1>4. ReadyInv'
  BY <1>1, <1>2 DEF BuildInv, ReadyInv, IsUpToDate, InRun
<1>5. ASSUME NEW q \in Pkgs PROVE StampsTell(q)'
  <2>1. StampsTell(q)
    BY DEF BuildInv, StampInv
  <2>2. CASE q # p
    <3>1. UNCHANGED <<tree[q], obj[q], inst[q]>>
      BY <2>2 DEF StartRecipe, BuildInv, TypeOK
    <3> QED
      BY <1>1, <2>1, <3>1 DEF StampsTell, IsUpToDate
  <2>3. CASE q = p
    <3>1. /\ tree'[p] = tree[p] \/ s \in {"rsync", "extract"}
          /\ obj'[p] = obj[p] \/ s = "build"
      BY DEF StartRecipe, BuildInv, TypeOK
    <3>2. \A i \in InstallSteps : i # s => inst'[p][i] = inst[p][i]
      BY DEF StartRecipe, BuildInv, TypeOK
    <3>3. s \in StepsOf(p) /\ Variants(p) \subseteq InstallSteps
      BY <1>2, TargetsType, VariantsType
    <3>4. s \in {"rsync", "extract"} => SourceSteps(p) \cap {"rsync", "extract"} = {s}
      BY <3>3 DEF StepsOf, SourceSteps, Variants, InstallSteps
    <3> QED
      BY <1>1, <1>2, <2>1, <2>3, <3>1, <3>2, <3>3, <3>4 DEF StampsTell, IsUpToDate
  <2> QED
    BY <2>2, <2>3
<1> QED
  BY <1>3, <1>4, <1>5 DEF StampInv

LEMMA RecipeEndInv ==
  ASSUME BuildInv, NEW p \in Pkgs, NEW s \in Steps, EndRecipe(p, s)
  PROVE  OrderlyRun' /\ ReadyInv' /\ StampInv'
<1> DEFINE tooOld == { t \in stamps[p] : s \in Prereqs(p, t) }
<1>1. /\ <<p, s>> \in active /\ <<p, s>> \in Targets /\ s \in StepsOf(p)
      /\ UNCHANGED <<command, cleanq, phase, wanted>>
      /\ active' = active \ {<<p, s>>} /\ ready' = ready \cup {<<p, s>>}
  BY TargetsType DEF EndRecipe, BuildInv, TypeOK
<1>2. /\ stamps'[p] = stamps[p] \cup {s}
      /\ stale'[p] = (stale[p] \ {s}) \cup tooOld
      /\ \A q \in Pkgs \ {p} : UNCHANGED <<stamps[q], stale[q], tree[q], obj[q], inst[q]>>
  BY DEF EndRecipe, BuildInv, TypeOK, PkgStamps
<1>3. cleanq = <<>>
  BY <1>1 DEF BuildInv, OrderlyRun
<1>4. OrderlyRun'
  BY <1>1, <1>3 DEF BuildInv, OrderlyRun
<1>5. s \notin Prereqs(p, s)
  BY <1>1 DEF Prereqs, Variants, InstallSteps, SourceSteps
<1>6. \A t \in Steps : <<p, t>> \in ready => s \notin Prereqs(p, t)
  BY <1>1, PrereqsReady DEF BuildInv, ReadyInv
<1>7. ReadyInv'
  <2>1. ASSUME NEW q \in Pkgs, NEW t \in Steps, <<q, t>> \in ready'
        PROVE  <<q, t>> \notin active' /\ IsUpToDate(q, t)'
    <3>1. CASE q # p
      BY <1>1, <1>2, <2>1, <3>1 DEF BuildInv, ReadyInv, IsUpToDate
    <3>2. CASE q = p /\ t = s
      BY <1>1, <1>2, <1>5, <3>2 DEF IsUpToDate
    <3>3. CASE q = p /\ t # s
      BY <1>1, <1>2, <1>6, <2>1, <3>3 DEF BuildInv, ReadyInv, IsUpToDate
    <3> QED
      BY <3>1, <3>2, <3>3
  <2>2. ASSUME NEW q \in Pkgs, NEW t \in Steps, <<q, t>> \in ready' \cup active'
        PROVE  AllPrereqs(q, t) \subseteq ready'
    BY <1>1, <2>2 DEF BuildInv, ReadyInv
  <2>3. ~InRun' => active' = {}
    BY <1>1 DEF BuildInv, ReadyInv, InRun
  <2>4. phase' = "ok" => wanted' \subseteq ready'
    BY <1>1 DEF BuildInv, ReadyInv
  <2>5. active' \subseteq wanted'
    BY <1>1 DEF BuildInv, ReadyInv
  <2> QED
    BY <2>1, <2>2, <2>3, <2>4, <2>5 DEF ReadyInv
<1>8. ASSUME NEW q \in Pkgs PROVE StampsTell(q)'
  <2>1. StampsTell(q)
    BY DEF BuildInv, StampInv
  <2>2. CASE q # p
    BY <1>2, <2>1, <2>2 DEF StampsTell, IsUpToDate
  <2>3. CASE q = p
    <3> DEFINE fresh == stamps'[p] \ stale'[p]
    <3>1. /\ fresh \subseteq (stamps[p] \ stale[p]) \cup {s}
          /\ stamps'[p] \subseteq StepsOf(p) /\ stale'[p] \subseteq StepsOf(p)
      BY <1>1, <1>2, <2>1, <2>3 DEF StampsTell
    <3>2. \A r \in SourceSteps(p) \cap {"rsync", "extract"} : r \in fresh => Whole(tree'[p])
      <4>1. CASE s \in {"rsync", "extract"}
        <5>1. tree'[p] = src[p] /\ src[p] \in Versions
          BY <4>1 DEF EndRecipe, BuildInv, TypeOK
        <5> QED
          BY <5>1, VersionsWhole
      <4>2. CASE s \notin {"rsync", "extract"}
        <5>1. tree'[p] = tree[p]
          BY <4>2 DEF EndRecipe, BuildInv, TypeOK
        <5> QED
          BY <2>1, <2>3, <3>1, <4>2, <5>1 DEF StampsTell, IsUpToDate
      <4> QED
        BY <4>1, <4>2
    <3>3. "build" \in fresh => Whole(obj'[p])
      <4>1. CASE s = "build"
        <5>1. obj'[p] = tree[p]
          BY <4>1 DEF EndRecipe, BuildInv, TypeOK
        <5>2. <<p, "configure">> \in ready
          BY <1>1, <4>1, ConfigureReady DEF BuildInv, NeedsDeps
        <5>3. \A r \in SourceSteps(p) : <<p, r>> \in ready
          BY <5>2, SourceReady DEF BuildInv
        <5>4. PICK r \in SourceSteps(p) \cap {"rsync", "extract"} : TRUE
          BY DEF SourceSteps
        <5>5. IsUpToDate(p, r)
          BY <5>3, <5>4 DEF BuildInv, ReadyInv, Steps
        <5> QED
          BY <2>1, <2>3, <5>1, <5>4, <5>5 DEF StampsTell
      <4>2. CASE s # "build"
        <5>1. obj'[p] = obj[p]
          BY <4>2 DEF EndRecipe, BuildInv, TypeOK
        <5> QED
          BY <2>1, <2>3, <3>1, <4>2, <5>1 DEF StampsTell, IsUpToDate
      <4> QED
        BY <4>1, <4>2
    <3>4. ASSUME NEW v \in Variants(p), v \in fresh
          PROVE  Whole(inst'[p][v]) /\ ("build" \in fresh => inst'[p][v] = obj'[p])
      <4>0. v \in InstallSteps /\ v # "build"
        BY VariantsType DEF InstallSteps
      <4>1. CASE s = v
        <5>1. inst'[p][v] = obj[p] /\ obj'[p] = obj[p]
          BY <4>0, <4>1 DEF EndRecipe, BuildInv, TypeOK
        <5>2. <<p, "build">> \in ready
          BY <1>1, <4>0, <4>1, ConfigureReady DEF BuildInv, NeedsDeps, InstallSteps
        <5>3. IsUpToDate(p, "build")
          BY <5>2 DEF BuildInv, ReadyInv, Steps
        <5> QED
          BY <2>1, <2>3, <5>1, <5>3 DEF StampsTell
      <4>2. CASE s # v /\ s # "build"
        <5>1. inst'[p][v] = inst[p][v] /\ obj'[p] = obj[p]
          BY <4>0, <4>2 DEF EndRecipe, BuildInv, TypeOK
        <5> QED
          BY <2>1, <2>3, <3>1, <3>4, <4>2, <5>1 DEF StampsTell, IsUpToDate
      <4>3. CASE s = "build"
        <5>1. v \notin stamps[p] \/ v \in tooOld
          BY <4>3, Rules
        <5> QED
          BY <1>2, <3>4, <4>0, <4>3, <5>1
      <4> QED
        BY <4>1, <4>2, <4>3
    <3> QED
      BY <2>3, <3>1, <3>2, <3>3, <3>4 DEF StampsTell, IsUpToDate
  <2> QED
    BY <2>2, <2>3
<1> QED
  BY <1>4, <1>7, <1>8 DEF StampInv

\* The actions that leave the stamps and the products alone.
LEMMA QuietInv ==
  ASSUME BuildInv, NEW p \in Pkgs, NEW s \in Steps,
         \/ Fail(p, s) \/ Interrupt \/ Edit(p)
         \/ ApplyPatch(p) \/ FindDuplicatePatch(p) \/ Succeed \/ GiveUp
  PROVE  OrderlyRun' /\ ReadyInv' /\ StampInv'
<1>1. UNCHANGED files
  BY DEF Fail, Interrupt, Edit, ApplyPatch, FindDuplicatePatch, Succeed, GiveUp, disk, files
<1>2. StampInv'
  BY <1>1, StampSame DEF BuildInv
<1>3. OrderlyRun'
  <2>1. CASE cleanq' = <<>> /\ command' = command
    BY <2>1, EmptySeq DEF BuildInv, OrderlyRun
  <2>2. CASE UNCHANGED <<cleanq, command, ready>> /\ active' \subseteq active
    BY <2>2 DEF BuildInv, OrderlyRun
  <2> QED
    BY <2>1, <2>2 DEF Fail, Interrupt, Edit, ApplyPatch, FindDuplicatePatch, Succeed, GiveUp, run
<1>4. UNCHANGED <<stamps, stale>>
  BY <1>1 DEF files
<1>5. ASSUME Interrupt PROVE ReadyInv'
  BY <1>4, <1>5, ReadySame DEF Interrupt, BuildInv, InRun
<1>6. ASSUME GiveUp PROVE ReadyInv'
  BY <1>4, <1>6, ReadySame DEF GiveUp, BuildInv, InRun
<1>7. ASSUME Fail(p, s) PROVE ReadyInv'
  BY <1>4, <1>7, ReadySame DEF Fail, BuildInv, InRun
<1>8. ASSUME Edit(p) \/ ApplyPatch(p) PROVE ReadyInv'
  <2>1. UNCHANGED <<phase, wanted, ready, active>>
    BY <1>8 DEF Edit, ApplyPatch, run
  <2> QED
    BY <1>4, <2>1, ReadySame DEF BuildInv, ReadyInv, InRun
<1>9. ASSUME FindDuplicatePatch(p) PROVE ReadyInv'
  BY <1>4, <1>9, ReadySame DEF FindDuplicatePatch, BuildInv, InRun
<1>10. ASSUME Succeed PROVE ReadyInv'
  <2>1. active = {}
    <3>1. active \subseteq ready
      BY <1>10 DEF Succeed, BuildInv, ReadyInv
    <3>2. active \subseteq Targets
      BY DEF BuildInv, TypeOK
    <3>3. ASSUME NEW t \in active PROVE FALSE
      <4>1. PICK q \in Pkgs, r \in Steps : t = <<q, r>>
        BY <3>2, <3>3 DEF Targets
      <4> QED
        BY <3>1, <3>3, <4>1 DEF BuildInv, ReadyInv
    <3> QED
      BY <3>3
  <2> QED
    BY <1>4, <1>10, <2>1, ReadySame DEF Succeed, BuildInv, InRun
<1> QED
  BY <1>2, <1>3, <1>5, <1>6, <1>7, <1>8, <1>9, <1>10

--------------------------------------------------------------------------------
(* The theorems *)

LEMMA NextInv == ASSUME Orderly, BuildInv, TypeOK', Next PROVE BuildInv'
<1>1. ASSUME NEW p \in Pkgs, NEW s \in Steps,
             \/ FindUpToDate(p, s) \/ StartRecipe(p, s) \/ EndRecipe(p, s)
             \/ ApplyPatch(p) \/ FindDuplicatePatch(p)
             \/ Fail(p, s) \/ Edit(p)
      PROVE  OrderlyRun' /\ ReadyInv' /\ StampInv'
  <2>1. CASE FindUpToDate(p, s)
    BY <2>1, FindInv
  <2>2. CASE StartRecipe(p, s)
    BY <2>2, RecipeStartInv
  <2>3. CASE EndRecipe(p, s)
    BY <2>3, RecipeEndInv
  <2>4. CASE ApplyPatch(p) \/ FindDuplicatePatch(p) \/ Fail(p, s) \/ Edit(p)
    BY <2>4, QuietInv
  <2> QED
    BY <1>1, <2>1, <2>2, <2>3, <2>4
<1>2. CASE Interrupt \/ Succeed \/ GiveUp
  <2>1. PICK p \in Pkgs : TRUE
    BY DEF BuildInv, TypeOK
  <2>2. "build" \in Steps
    BY DEF Steps
  <2>3. OrderlyRun' /\ ReadyInv' /\ StampInv'
    BY <1>2, <2>1, <2>2, QuietInv
  <2> QED
    BY <2>3 DEF BuildInv
<1>3. CASE Clean
  BY <1>3, CleanInv DEF BuildInv
<1>4. ASSUME NEW p \in Pkgs, NEW c \in Commands, StartMake(c, p) PROVE BuildInv'
  BY <1>4, StartInv DEF BuildInv
<1>5. "build" \in Steps
  BY DEF Steps
<1>6. ASSUME NEW p \in Pkgs, ApplyPatch(p) \/ FindDuplicatePatch(p) \/ Edit(p) PROVE BuildInv'
  BY <1>1, <1>5, <1>6 DEF BuildInv
<1>7. ASSUME NEW p \in Pkgs, NEW s \in Steps,
             FindUpToDate(p, s) \/ StartRecipe(p, s) \/ EndRecipe(p, s) \/ Fail(p, s)
      PROVE  BuildInv'
  BY <1>1, <1>7 DEF BuildInv
<1> QED
  BY <1>2, <1>3, <1>4, <1>6, <1>7 DEF Next, MakeStep

\* The inductive invariant: in an orderly project, a stamp that is not too old stands
\* for the whole product of its step, and what make found ready is, with all it needs.
THEOREM BuildInvariant == ASSUME Orderly PROVE Spec => []BuildInv
<1>1. Init => BuildInv
  BY InitInv
<1>2. BuildInv /\ TypeOK' /\ [Next]_vars => BuildInv'
  <2> SUFFICES ASSUME BuildInv, TypeOK', [Next]_vars PROVE BuildInv'
    OBVIOUS
  <2>1. CASE UNCHANGED vars
    <3>1. UNCHANGED <<stamps, stale, tree, obj, inst, phase, command, wanted, cleanq, ready, active>>
      BY <2>1 DEF vars, disk, run
    <3>2. OrderlyRun'
      BY <3>1 DEF BuildInv, OrderlyRun
    <3>3. ReadyInv'
      BY <3>1 DEF BuildInv, ReadyInv, InRun, IsUpToDate
    <3>4. StampInv'
      BY <3>1 DEF BuildInv, StampInv, StampsTell, IsUpToDate
    <3> QED
      BY <3>2, <3>3, <3>4 DEF BuildInv
  <2> QED
    BY <2>1, NextInv
<1> QED
  BY <1>1, <1>2, BuildTypes, PTL DEF Spec

\* A package is configured, built and installed only while each of its dependencies
\* is wholly installed and at rest, for every dependency graph.
THEOREM DependenciesFirst == ASSUME Orderly PROVE Spec => []DepsInstalled
<1>1. BuildInv => DepsInstalled
  <2> SUFFICES ASSUME BuildInv, NEW p \in Pkgs, NEW s \in NeedsDeps, <<p, s>> \in active,
                      NEW q \in Deps[p]
               PROVE  WhollyInstalled(q) /\ AtRest(q)
    BY DEF DepsInstalled
  <2>1. q \in Pkgs
    BY PackageAssumption
  <2>2. s \in StepsOf(p)
    BY TargetsType DEF BuildInv, TypeOK
  <2>3. <<q, "installed">> \in ready
    BY <2>2, ConfigureReady DEF BuildInv
  <2>4. \A r \in StepsOf(q) : <<q, r>> \in ready
    BY <2>1, <2>3, AllStepsReady DEF BuildInv
  <2>5. \A r \in StepsOf(q) : IsUpToDate(q, r) /\ <<q, r>> \notin active
    BY <2>1, <2>4, StepsOfType DEF BuildInv, ReadyInv
  <2>6. WhollyInstalled(q)
    BY <2>1, <2>5, VariantsType DEF WhollyInstalled, BuildInv, StampInv, StampsTell
  <2>7. AtRest(q)
    BY <2>5, TargetsType DEF AtRest, BuildInv, TypeOK
  <2> QED
    BY <2>6, <2>7
<1> QED
  BY <1>1, BuildInvariant, PTL

\* When make succeeds, every package it considered has all its stamps, none too old,
\* and has installed exactly what it built.
THEOREM SuccessIsInstalled == ASSUME Orderly PROVE Spec => []SuccessMeansInstalled
<1>1. BuildInv => SuccessMeansInstalled
  <2> SUFFICES ASSUME BuildInv, phase = "ok", NEW p \in Pkgs, <<p, "installed">> \in wanted
               PROVE  /\ Complete(p)
                      /\ \A s \in Variants(p) : Whole(obj[p]) /\ inst[p][s] = obj[p]
    BY DEF SuccessMeansInstalled
  <2>1. \A s \in StepsOf(p) : <<p, s>> \in ready
    BY AllStepsReady DEF BuildInv, ReadyInv
  <2>2. \A s \in StepsOf(p) : IsUpToDate(p, s)
    BY <2>1, StepsOfType DEF BuildInv, ReadyInv
  <2>3. StampsTell(p)
    BY DEF BuildInv, StampInv
  <2>4. Complete(p)
    BY <2>2, <2>3 DEF Complete, StampsTell, IsUpToDate
  <2>5. IsUpToDate(p, "build")
    BY <2>2 DEF StepsOf
  <2> QED
    BY <2>2, <2>3, <2>4, <2>5, VariantsType DEF StampsTell
<1> QED
  BY <1>1, BuildInvariant, PTL

--------------------------------------------------------------------------------
(* A complete package is left as it is *)

\* A recipe that ends leaves the stamps of the other steps up to date or makes them
\* too old; it never brings another step up to date.
LEMMA EndBringsOnlyItsStep ==
  ASSUME TypeOK, NEW p \in Pkgs, NEW s \in Steps, EndRecipe(p, s),
         NEW q \in Pkgs, NEW t \in Steps, <<q, t>> # <<p, s>>, IsUpToDate(q, t)'
  PROVE  IsUpToDate(q, t)
<1>1. CASE q # p
  BY <1>1 DEF EndRecipe, TypeOK, PkgStamps, IsUpToDate
<1>2. CASE q = p
  <2>1. /\ stamps'[p] = stamps[p] \cup {s}
        /\ stale'[p] = (stale[p] \ {s}) \cup { u \in stamps[p] : s \in Prereqs(p, u) }
    BY DEF EndRecipe, TypeOK, PkgStamps
  <2> QED
    BY <1>2, <2>1 DEF IsUpToDate
<1> QED
  BY <1>1, <1>2

LEMMA ActiveStep == ASSUME TypeOK, ActiveInv, [Next]_vars PROVE ActiveInv'
<1>1. CASE UNCHANGED <<stamps, stale>> /\ active' \subseteq active
  BY <1>1 DEF ActiveInv, IsUpToDate
<1>2. CASE Clean
  <2>1. active' = active
    BY <1>2 DEF Clean, RemoveStamp, RemovePerPackageDir, RemoveBuildDir
  <2>2. ASSUME NEW p \in Pkgs
        PROVE  stamps'[p] \ stale'[p] \subseteq stamps[p] \ stale[p]
    BY <1>2 DEF Clean, RemoveStamp, RemovePerPackageDir, RemoveBuildDir, TypeOK, PkgStamps
  <2> QED
    BY <2>1, <2>2 DEF ActiveInv, IsUpToDate
<1>3. ASSUME NEW p \in Pkgs, NEW s \in Steps, StartRecipe(p, s) PROVE ActiveInv'
  BY <1>3 DEF StartRecipe, ActiveInv, IsUpToDate
<1>4. ASSUME NEW p \in Pkgs, NEW s \in Steps, EndRecipe(p, s) PROVE ActiveInv'
  <2>1. active' = active \ {<<p, s>>}
    BY <1>4 DEF EndRecipe
  <2> QED
    BY <1>4, <2>1, EndBringsOnlyItsStep DEF ActiveInv
<1>5. ASSUME NEW p \in Pkgs, NEW s \in Steps, FindUpToDate(p, s) \/ Fail(p, s)
      PROVE  ActiveInv'
  BY <1>1, <1>5 DEF FindUpToDate, Fail, disk
<1>6. ASSUME NEW p \in Pkgs, ApplyPatch(p) \/ FindDuplicatePatch(p) \/ Edit(p)
      PROVE  ActiveInv'
  BY <1>1, <1>6 DEF ApplyPatch, FindDuplicatePatch, Edit, run, disk
<1>7. ASSUME NEW p \in Pkgs, NEW c \in Commands, StartMake(c, p) PROVE ActiveInv'
  BY <1>1, <1>7 DEF StartMake, disk
<1>8. CASE Interrupt \/ Succeed \/ GiveUp \/ UNCHANGED vars
  BY <1>1, <1>8 DEF Interrupt, Succeed, GiveUp, vars, disk, run
<1> QED
  BY <1>2, <1>3, <1>4, <1>5, <1>6, <1>7, <1>8 DEF Next, MakeStep

\* In a run of make, a package that is complete and not the one of the command keeps
\* its stamps and its products, and no recipe of it starts.
LEMMA OthersStep ==
  ASSUME TypeOK, ActiveInv, [Next]_vars, NEW q \in Pkgs, InRun, q # pkg, Complete(q)
  PROVE  /\ Complete(q)' /\ tree'[q] = tree[q] /\ obj'[q] = obj[q] /\ inst'[q] = inst[q]
         /\ \A s \in Steps : <<q, s>> \notin active' \ active
<1> DEFINE Kept == /\ UNCHANGED <<stamps[q], stale[q], tree[q], obj[q], inst[q]>>
                   /\ \A s \in Steps : <<q, s>> \notin active' \ active
<1>1. SUFFICES Kept
  BY DEF Complete
<1>2. \A s \in Steps : <<q, s>> \in Targets => IsUpToDate(q, s)
  BY TargetsType DEF Complete, IsUpToDate
<1>3. \A s \in Steps : <<q, s>> \notin active
  BY <1>2 DEF ActiveInv, TypeOK
<1>4. CASE UNCHANGED <<stamps, stale, tree, obj, inst>> /\ active' \subseteq active
  BY <1>4
<1>5. CASE Clean
  <2>1. pkg \in Pkgs /\ active' = active
    BY <1>5 DEF TypeOK, Clean, RemoveStamp, RemovePerPackageDir, RemoveBuildDir
  <2> QED
    BY <1>5, <2>1 DEF TypeOK, PkgStamps, Clean, RemoveStamp, RemovePerPackageDir, RemoveBuildDir
<1>6. ASSUME NEW p \in Pkgs, NEW s \in Steps, StartRecipe(p, s) PROVE Kept
  <2>1. <<p, s>> \in Targets /\ ~IsUpToDate(p, s) /\ active' = active \cup {<<p, s>>}
    BY <1>6 DEF StartRecipe, Considers, TypeOK
  <2>2. p # q
    BY <1>2, <2>1
  <2> QED
    BY <1>6, <2>1, <2>2 DEF StartRecipe, TypeOK
<1>7. ASSUME NEW p \in Pkgs, NEW s \in Steps, EndRecipe(p, s) PROVE Kept
  <2>1. p # q /\ active' \subseteq active
    BY <1>3, <1>7 DEF EndRecipe
  <2> QED
    BY <1>7, <2>1 DEF EndRecipe, TypeOK, PkgStamps
<1>8. ASSUME NEW p \in Pkgs, NEW s \in Steps, FindUpToDate(p, s) \/ Fail(p, s)
      PROVE  Kept
  BY <1>4, <1>8 DEF FindUpToDate, Fail, disk
<1>9. ASSUME NEW p \in Pkgs, ApplyPatch(p) \/ FindDuplicatePatch(p) \/ Edit(p)
      PROVE  Kept
  BY <1>4, <1>9 DEF ApplyPatch, FindDuplicatePatch, Edit, run, disk
<1>10. ASSUME NEW p \in Pkgs, NEW c \in Commands PROVE ~StartMake(c, p)
  BY DEF StartMake
<1>11. CASE Interrupt \/ Succeed \/ GiveUp \/ UNCHANGED vars
  BY <1>4, <1>11 DEF Interrupt, Succeed, GiveUp, vars, disk, run
<1> QED
  BY <1>5, <1>6, <1>7, <1>8, <1>9, <1>10, <1>11 DEF Next, MakeStep

\* Whatever is run in parallel, fails or is interrupted, a command about one package
\* leaves each other package that is complete as it is.
THEOREM OthersKept == Spec => OthersUntouched
<1>1. Init => ActiveInv
  BY DEF Init, ActiveInv
<1>2. TypeOK /\ ActiveInv /\ [Next]_vars => ActiveInv'
  BY ActiveStep
<1>3. TypeOK /\ ActiveInv /\ [Next]_vars =>
        [\A q \in Pkgs : InRun /\ q # pkg /\ Complete(q) =>
           /\ Complete(q)' /\ tree'[q] = tree[q] /\ obj'[q] = obj[q] /\ inst'[q] = inst[q]
           /\ \A s \in Steps : <<q, s>> \notin active' \ active]_vars
  BY OthersStep
<1> QED
  BY <1>1, <1>2, <1>3, BuildTypes, PTL DEF Spec, OthersUntouched

--------------------------------------------------------------------------------
(* The goals are wanted *)

LEMMA StepsFinite == IsFiniteSet(Steps)
<1>0. ASSUME NEW a, NEW b, NEW c, NEW d PROVE IsFiniteSet({a, b, c, d})
  <2>1. IsFiniteSet({a}) /\ IsFiniteSet({b}) /\ IsFiniteSet({c}) /\ IsFiniteSet({d})
    BY FS_Singleton
  <2>2. IsFiniteSet({a} \cup {b}) /\ IsFiniteSet({c} \cup {d})
    BY <2>1, FS_Union
  <2>3. IsFiniteSet(({a} \cup {b}) \cup ({c} \cup {d}))
    BY <2>2, FS_Union
  <2>4. {a, b, c, d} = ({a} \cup {b}) \cup ({c} \cup {d})
    OBVIOUS
  <2> QED
    BY <2>3, <2>4, Zenon
<1>1. /\ IsFiniteSet({"rsync", "download", "extract", "patch"})
      /\ IsFiniteSet({"configure", "build", "installed", "installed"})
      /\ IsFiniteSet(InstallSteps)
  BY <1>0 DEF InstallSteps
<1>2. Steps = {"rsync", "download", "extract", "patch"}
              \cup {"configure", "build", "installed", "installed"} \cup InstallSteps
  BY DEF Steps, InstallSteps
<1> QED
  BY <1>1, <1>2, FS_Union

LEMMA TargetsFinite == Cardinality(Targets) \in Nat
<1>1. IsFiniteSet(Pkgs \X Steps)
  BY PackageAssumption, StepsFinite, FS_Product
<1>2. Targets \in SUBSET (Pkgs \X Steps)
  BY DEF Targets
<1> QED
  BY <1>1, <1>2, FS_Subset, FS_CardinalityType

\* Induction over the numbers, for a set of them.
LEMMA AllNumbers ==
  ASSUME NEW S, 0 \in S, \A n \in Nat : n \in S => n + 1 \in S
  PROVE  Nat \subseteq S
<1> DEFINE R == { ab \in Nat \X Nat : ab[1] < ab[2] }
<1>1. SUFFICES ASSUME Nat \ S # {} PROVE FALSE
  OBVIOUS
<1>2. IsWellFoundedOn(R, Nat)
  BY NatLessThanWellFounded DEF OpToRel
<1>3. PICK x \in Nat \ S : \A y \in Nat \ S : <<y, x>> \notin R
  BY <1>1, <1>2, WFMin
<1>4. x # 0 /\ x - 1 \in Nat /\ <<x - 1, x>> \in R
  BY <1>3
<1>5. x - 1 \in S
  BY <1>3, <1>4
<1> QED
  BY <1>3, <1>4, <1>5

\* make considers its goals, whatever their prerequisites are.
LEMMA GoalsWanted == ASSUME NEW goals PROVE Targets \cap goals \subseteq Closure(goals)
<1> DEFINE Reach[n \in Nat] ==
             IF n = 0 THEN goals
             ELSE LET near == Reach[n - 1]
                  IN  near \cup UNION { AllPrereqs(t[1], t[2]) : t \in near }
           Def(near, n) == near \cup UNION { AllPrereqs(t[1], t[2]) : t \in near }
           S == { n \in Nat : goals \subseteq Reach[n] }
<1>1. Closure(goals) = Targets \cap Reach[Cardinality(Targets)]
  BY DEF Closure
<1>2. NatInductiveDefHypothesis(Reach, goals, Def)
  BY DEF NatInductiveDefHypothesis
<1>3. NatInductiveDefConclusion(Reach, goals, Def)
  BY <1>2, NatInductiveDef
<1> HIDE DEF Reach
<1>4. /\ Reach[0] = goals
      /\ \A n \in Nat : Reach[n + 1] = Reach[n] \cup UNION { AllPrereqs(t[1], t[2]) : t \in Reach[n] }
  BY <1>3 DEF NatInductiveDefConclusion
<1>5. 0 \in S /\ \A n \in Nat : n \in S => n + 1 \in S
  BY <1>4
<1>6. Nat \subseteq S
  BY <1>5, AllNumbers
<1> QED
  BY <1>1, <1>6, TargetsFinite

--------------------------------------------------------------------------------
(* A rebuild installs the source of its start *)

\* The part of EditsInv about the rebuilt package, of which an action may only take
\* steps away from those that are up to date.
LEMMA NothingOlderSame ==
  ASSUME EditsInv, UNCHANGED <<command, pkg, srcAtStart, wanted, tree, obj>>,
         \A s \in Variants(pkg) : inst'[pkg][s] = inst[pkg][s],
         Rebuilds' => Rebuilds, \A s \in Steps : Renewed(s)' => Renewed(s)
  PROVE  Rebuilds' => <<pkg', "installed">> \in wanted' /\ NothingOlder'
<1>1. Variants(pkg) \subseteq Steps /\ "rsync" \in Steps /\ "build" \in Steps
  BY VariantsType DEF Steps, InstallSteps
<1> QED
  BY <1>1 DEF EditsInv, NothingOlder

\* The sources only get newer.
LEMMA SourcesGrow ==
  ASSUME TypeOK, EditsInv, [Next]_vars
  PROVE  \A p \in Pkgs : srcAtStart'[p] <= src'[p] /\ src'[p] <= edits' + 1
<1> SUFFICES ASSUME NEW p \in Pkgs PROVE srcAtStart'[p] <= src'[p] /\ src'[p] <= edits' + 1
  OBVIOUS
<1>1. /\ srcAtStart[p] \in Int /\ src[p] \in Int /\ edits \in Int
      /\ srcAtStart[p] <= src[p] /\ src[p] <= edits + 1
  <2>1. src[p] \in Versions /\ srcAtStart[p] \in Versions /\ edits \in 0..MaxEdits
    BY DEF TypeOK
  <2>2. srcAtStart[p] <= src[p] /\ src[p] <= edits + 1
    BY DEF EditsInv
  <2> QED
    BY <2>1, <2>2 DEF Versions
<1>2. CASE UNCHANGED <<src, srcAtStart, edits>>
  BY <1>1, <1>2
<1>3. ASSUME NEW q \in Pkgs, Edit(q) PROVE srcAtStart'[p] <= src'[p] /\ src'[p] <= edits' + 1
  <2>1. /\ srcAtStart' = srcAtStart /\ edits' = edits + 1
        /\ src'[p] = src[p] \/ src'[p] = edits + 2
    BY <1>3 DEF Edit, run, TypeOK
  <2> QED
    BY <1>1, <2>1
<1>4. ASSUME NEW q \in Pkgs, NEW c \in Commands, StartMake(c, q)
      PROVE  srcAtStart'[p] <= src'[p] /\ src'[p] <= edits' + 1
  <2>1. srcAtStart' = src /\ src' = src /\ edits' = edits
    BY <1>4 DEF StartMake
  <2> QED
    BY <1>1, <2>1
<1>5. CASE Clean \/ Succeed \/ GiveUp \/ Interrupt \/ UNCHANGED vars
  BY <1>2, <1>5 DEF Clean, RemoveStamp, RemovePerPackageDir, RemoveBuildDir, Succeed, GiveUp,
                    Interrupt, vars, run
<1>6. ASSUME NEW q \in Pkgs, ApplyPatch(q) \/ FindDuplicatePatch(q)
      PROVE  UNCHANGED <<src, srcAtStart, edits>>
  BY <1>6 DEF ApplyPatch, FindDuplicatePatch, run
<1>7. ASSUME NEW q \in Pkgs, NEW s \in Steps,
             FindUpToDate(q, s) \/ StartRecipe(q, s) \/ EndRecipe(q, s) \/ Fail(q, s)
      PROVE  UNCHANGED <<src, srcAtStart, edits>>
  BY <1>7 DEF FindUpToDate, StartRecipe, EndRecipe, Fail
<1> QED
  BY <1>2, <1>3, <1>4, <1>5, <1>6, <1>7 DEF Next, MakeStep

In(s, q) == \E i \in 1..Len(q) : q[i] = s

LEMMA InJoined ==
  ASSUME NEW S, NEW a \in Seq(S), NEW b \in Seq(S), NEW x \in S, NEW s
  PROVE  /\ In(s, a) \/ In(s, b) => In(s, a \o b)
         /\ In(s, a) \/ s = x => In(s, Append(a, x))
<1>1. ASSUME NEW i \in 1..Len(a), a[i] = s PROVE In(s, a \o b) /\ In(s, Append(a, x))
  BY <1>1 DEF In
<1>2. ASSUME NEW i \in 1..Len(b), b[i] = s PROVE In(s, a \o b)
  <2>1. i + Len(a) \in 1..Len(a \o b) /\ (a \o b)[i + Len(a)] = s
    BY <1>2
  <2> QED
    BY <2>1 DEF In
<1>3. In(x, Append(a, x))
  <2>1. Len(a) + 1 \in 1..Len(Append(a, x)) /\ Append(a, x)[Len(a) + 1] = x
    OBVIOUS
  <2> QED
    BY <2>1 DEF In
<1> QED
  BY <1>1, <1>2, <1>3 DEF In

\* The clean recipe of a rebuild removes the stamp of each step a rebuild has to take
\* again, and the package is one of the goals.
LEMMA CleanListsSteps ==
  ASSUME NEW p \in Override
  PROVE  \A s \in {"rsync", "build"} \cup InstallSteps :
            In(s, CleanForRebuild(p)) /\ In(s, CleanForReconfigure(p))
<1> DEFINE installs == <<"installed", "install_staging", "install_target",
                         "install_images", "install_host">>
<1>1. /\ installs \in Seq(Steps) /\ <<"rsync">> \in Seq(Steps)
      /\ "build" \in Steps /\ "configure" \in Steps
  BY DEF Steps
<1>2. In("rsync", <<"rsync">>)
  BY DEF In
<1>3. ASSUME NEW s \in InstallSteps PROVE In(s, installs)
  <2>1. 2 \in 1..Len(installs) /\ installs[2] = "install_staging"
    OBVIOUS
  <2>2. 3 \in 1..Len(installs) /\ installs[3] = "install_target"
    OBVIOUS
  <2>3. 4 \in 1..Len(installs) /\ installs[4] = "install_images"
    OBVIOUS
  <2>4. 5 \in 1..Len(installs) /\ installs[5] = "install_host"
    OBVIOUS
  <2> QED
    BY <2>1, <2>2, <2>3, <2>4 DEF In, InstallSteps
<1> HIDE DEF installs
<1>4. \A s \in {"rsync"} \cup InstallSteps : In(s, <<"rsync">> \o installs)
  BY <1>1, <1>2, <1>3, InJoined
<1>5. CleanForReinstall(p) = <<"rsync">> \o installs
  BY DEF CleanForReinstall, installs
<1>6. \A s \in {"rsync", "build"} \cup InstallSteps : In(s, CleanForRebuild(p))
  BY <1>1, <1>4, <1>5, CleanForReinstallType, InJoined DEF CleanForRebuild
<1>7. CleanForRebuild(p) \in Seq(Steps)
  BY <1>1, CleanForReinstallType DEF CleanForRebuild
<1>8. \A s \in {"rsync", "build"} \cup InstallSteps : In(s, CleanForReconfigure(p))
  BY <1>1, <1>6, <1>7, InJoined DEF CleanForReconfigure
<1> QED
  BY <1>6, <1>8

LEMMA RebuildCleans ==
  ASSUME NEW p \in Override, NEW c \in {"rebuild", "reconfigure", "rebuild all"}
  PROVE  /\ \A s \in {"rsync", "build"} \cup InstallSteps : In(s, CleanFor(p, c))
         /\ <<p, "installed">> \in Targets \cap GoalsOf(p, c)
<1>1. CleanFor(p, c) = CleanForRebuild(p) \/ CleanFor(p, c) = CleanForReconfigure(p)
  BY Zenon DEF CleanFor
<1>2. <<p, "installed">> \in Targets
  BY PackageAssumption DEF Targets, StepsOf, Steps
<1>3. <<p, "installed">> \in GoalsOf(p, c)
  BY <1>2 DEF GoalsOf, Everything
<1> QED
  BY <1>1, <1>2, <1>3, CleanListsSteps

LEMMA RebuildStarts ==
  ASSUME NEW p \in Pkgs, NEW c \in Commands, StartMake(c, p)
  PROVE  Rebuilds' => <<pkg', "installed">> \in wanted' /\ NothingOlder'
<1> SUFFICES ASSUME Rebuilds' PROVE <<pkg', "installed">> \in wanted' /\ NothingOlder'
  OBVIOUS
<1>1. /\ p \in Override /\ c \in {"rebuild", "reconfigure", "rebuild all"}
      /\ pkg' = p /\ cleanq' = CleanFor(p, c) /\ wanted' = Closure(GoalsOf(p, c))
  BY DEF StartMake, Rebuilds
<1>2. <<pkg', "installed">> \in wanted'
  BY <1>1, RebuildCleans, GoalsWanted
<1>3. \A s \in {"rsync", "build"} \cup InstallSteps : ~Renewed(s)'
  BY <1>1, RebuildCleans DEF Renewed, In
<1>4. NothingOlder'
  BY <1>3, VariantsType DEF NothingOlder
<1> QED
  BY <1>2, <1>4

LEMMA TailKeeps ==
  ASSUME NEW S, NEW q \in Seq(S), q # <<>>, NEW i \in 1..Len(q)
  PROVE  \/ q[i] = Head(q)
         \/ i - 1 \in 1..Len(Tail(q)) /\ Tail(q)[i - 1] = q[i]
  OBVIOUS

LEMMA RebuildCleanStep ==
  ASSUME BuildInv, EditsInv, Clean
  PROVE  Rebuilds' => <<pkg', "installed">> \in wanted' /\ NothingOlder'
<1>0. cleanq # <<>> /\ cleanq \in Seq(Steps \cup {"build dir"}) /\ cleanq' = Tail(cleanq)
  BY DEF BuildInv, OrderlyRun, Clean, RemoveStamp, RemovePerPackageDir, RemoveBuildDir
<1>1. Head(cleanq) # "per-package dir"
  <2>1. Head(cleanq) \in Steps \cup {"build dir"}
    BY <1>0, HeadTail
  <2> QED
    BY <2>1 DEF Steps
<1>2. UNCHANGED <<phase, command, pkg, srcAtStart, wanted, inst>>
  BY <1>1 DEF Clean, RemoveStamp, RemovePerPackageDir, RemoveBuildDir
<1>3. pkg \in Pkgs
  BY DEF BuildInv, TypeOK
<1>4. CASE RemoveStamp
  <2>1. \A s \in Steps : IsUpToDate(pkg, s)' => IsUpToDate(pkg, s) /\ s # Head(cleanq)
    BY <1>2, <1>3, <1>4 DEF RemoveStamp, BuildInv, TypeOK, PkgStamps, IsUpToDate
  <2>2. ASSUME NEW i \in 1..Len(cleanq)
        PROVE  \/ cleanq[i] = Head(cleanq)
               \/ i - 1 \in 1..Len(cleanq') /\ cleanq'[i - 1] = cleanq[i]
    BY <1>0, TailKeeps
  <2>3. ASSUME NEW s \in Steps, Renewed(s)' PROVE Renewed(s)
    BY <2>1, <2>2, <2>3 DEF Renewed
  <2>4. UNCHANGED <<tree, obj>>
    BY <1>4 DEF RemoveStamp
  <2> QED
    BY <1>2, <2>3, <2>4, NothingOlderSame DEF Rebuilds
<1>5. CASE RemoveBuildDir
  <2>1. \A s : ~Renewed(s)'
    BY <1>2, <1>3, <1>5 DEF RemoveBuildDir, BuildInv, TypeOK, PkgStamps, Renewed, IsUpToDate
  <2> QED
    BY <1>2, <2>1 DEF EditsInv, NothingOlder, Rebuilds
<1> QED
  BY <1>1, <1>4, <1>5 DEF Clean, RemovePerPackageDir

LEMMA RebuildStartStep ==
  ASSUME BuildInv, EditsInv, NEW p \in Pkgs, NEW s \in Steps, StartRecipe(p, s)
  PROVE  Rebuilds' => <<pkg', "installed">> \in wanted' /\ NothingOlder'
<1> SUFFICES ASSUME Rebuilds' PROVE <<pkg', "installed">> \in wanted' /\ NothingOlder'
  OBVIOUS
<1>1. /\ UNCHANGED <<stamps, stale, phase, command, pkg, srcAtStart, wanted, cleanq>>
      /\ <<p, s>> \in Targets /\ ~IsUpToDate(p, s) /\ pkg \in Pkgs
  BY DEF StartRecipe, Considers, BuildInv, TypeOK
<1>2. \A t : Renewed(t)' <=> Renewed(t)
  BY <1>1 DEF Renewed, IsUpToDate
<1>3. Rebuilds /\ NothingOlder /\ <<pkg, "installed">> \in wanted
  BY <1>1 DEF Rebuilds, EditsInv
<1>4. p = pkg => s \notin {"extract"} /\ ~Renewed(s)
  BY <1>1, <1>3, TargetsType DEF Rebuilds, StepsOf, SourceSteps, Variants, InstallSteps, Renewed
<1>5. /\ (p = pkg /\ s = "rsync") \/ tree'[pkg] = tree[pkg]
      /\ (p = pkg /\ s = "build") \/ obj'[pkg] = obj[pkg]
  BY <1>1, <1>4 DEF StartRecipe, BuildInv, TypeOK
<1>6. \A v \in Variants(pkg) : (p = pkg /\ s = v) \/ inst'[pkg][v] = inst[pkg][v]
  BY <1>1, VariantsType DEF StartRecipe, BuildInv, TypeOK
<1> QED
  BY <1>1, <1>2, <1>3, <1>4, <1>5, <1>6 DEF NothingOlder

\* What a recipe of the rebuilt package makes, it makes from what is up to date.
LEMMA RebuildEndStep ==
  ASSUME BuildInv, EditsInv, NEW p \in Pkgs, NEW s \in Steps, EndRecipe(p, s)
  PROVE  Rebuilds' => <<pkg', "installed">> \in wanted' /\ NothingOlder'
<1> SUFFICES ASSUME Rebuilds' PROVE <<pkg', "installed">> \in wanted' /\ NothingOlder'
  OBVIOUS
<1>1. /\ UNCHANGED <<phase, command, pkg, srcAtStart, wanted, cleanq>>
      /\ <<p, s>> \in active /\ <<p, s>> \in Targets /\ s \in StepsOf(p) /\ pkg \in Pkgs
  BY TargetsType DEF EndRecipe, BuildInv, TypeOK
<1>2. Rebuilds /\ NothingOlder /\ <<pkg, "installed">> \in wanted
  BY <1>1 DEF Rebuilds, EditsInv
<1>3. cleanq = <<>>
  BY <1>1 DEF BuildInv, OrderlyRun
<1>4. \A t \in Steps : Renewed(t)' /\ (p # pkg \/ t # s) => Renewed(t)
  BY <1>1, EndBringsOnlyItsStep DEF Renewed, BuildInv
<1>5. \A t \in Steps : <<pkg, t>> \in ready => Renewed(t)
  BY <1>1, <1>3 DEF Renewed, BuildInv, ReadyInv
<1>6. Variants(pkg) \subseteq InstallSteps /\ InstallSteps \subseteq Steps \ {"rsync", "build"}
      /\ "rsync" \in Steps /\ "build" \in Steps
  BY VariantsType DEF InstallSteps, Steps
<1>7. Renewed("rsync")' => tree'[pkg] >= srcAtStart[pkg]
  <2>1. CASE p = pkg /\ s = "rsync"
    <3>1. tree'[pkg] = src[pkg]
      BY <2>1 DEF EndRecipe, BuildInv, TypeOK
    <3>2. src[pkg] \in Int /\ srcAtStart[pkg] \in Int /\ srcAtStart[pkg] <= src[pkg]
      <4>1. src[pkg] \in Versions /\ srcAtStart[pkg] \in Versions
        BY <1>1 DEF BuildInv, TypeOK
      <4>2. srcAtStart[pkg] <= src[pkg]
        BY <1>1 DEF EditsInv
      <4> QED
        BY <4>1, <4>2 DEF Versions
    <3> QED
      BY <3>1, <3>2
  <2>2. CASE p # pkg \/ s # "rsync"
    <3>1. p = pkg => s # "extract"
      BY <1>1, <1>2 DEF Rebuilds, StepsOf, SourceSteps, Variants, InstallSteps
    <3>2. tree'[pkg] = tree[pkg]
      BY <1>1, <2>2, <3>1 DEF EndRecipe, BuildInv, TypeOK
    <3> QED
      BY <1>2, <1>4, <1>6, <2>2, <3>2 DEF NothingOlder
  <2> QED
    BY <2>1, <2>2
<1>8. Renewed("build")' => obj'[pkg] >= srcAtStart[pkg]
  <2>1. CASE p = pkg /\ s = "build"
    <3>1. obj'[pkg] = tree[pkg]
      BY <2>1 DEF EndRecipe, BuildInv, TypeOK
    <3>2. <<pkg, "configure">> \in ready
      BY <1>1, <2>1, ConfigureReady DEF BuildInv, NeedsDeps
    <3>3. <<pkg, "rsync">> \in ready
      BY <1>1, <1>2, <3>2, SourceReady DEF BuildInv, Rebuilds, SourceSteps
    <3> QED
      BY <1>2, <1>5, <1>6, <3>1, <3>3 DEF NothingOlder
  <2>2. CASE p # pkg \/ s # "build"
    <3>1. obj'[pkg] = obj[pkg]
      BY <1>1, <2>2 DEF EndRecipe, BuildInv, TypeOK
    <3> QED
      BY <1>2, <1>4, <1>6, <2>2, <3>1 DEF NothingOlder
  <2> QED
    BY <2>1, <2>2
<1>9. ASSUME NEW v \in Variants(pkg), Renewed(v)' PROVE inst'[pkg][v] >= srcAtStart[pkg]
  <2>0. v \in InstallSteps /\ v \in Steps
    BY <1>6
  <2>1. CASE p = pkg /\ s = v
    <3>1. inst'[pkg][v] = obj[pkg]
      BY <1>1, <2>0, <2>1 DEF EndRecipe, BuildInv, TypeOK
    <3>2. <<pkg, "build">> \in ready
      BY <1>1, <1>6, <2>0, <2>1, ConfigureReady DEF BuildInv, NeedsDeps, InstallSteps
    <3> QED
      BY <1>2, <1>5, <1>6, <3>1, <3>2 DEF NothingOlder
  <2>2. CASE p # pkg \/ s # v
    <3>1. inst'[pkg][v] = inst[pkg][v]
      BY <1>1, <2>0, <2>2 DEF EndRecipe, BuildInv, TypeOK
    <3> QED
      BY <1>2, <1>4, <1>9, <2>0, <2>2, <3>1 DEF NothingOlder
  <2> QED
    BY <2>1, <2>2
<1> QED
  BY <1>1, <1>2, <1>7, <1>8, <1>9 DEF NothingOlder

LEMMA EditsStep == ASSUME BuildInv, EditsInv, [Next]_vars PROVE EditsInv'
<1> DEFINE Newer == Rebuilds' => <<pkg', "installed">> \in wanted' /\ NothingOlder'
<1>1. SUFFICES Newer
  BY SourcesGrow DEF EditsInv, BuildInv
<1>2. CASE /\ UNCHANGED <<stamps, stale, tree, obj, inst, command, pkg, srcAtStart, wanted>>
           /\ Rebuilds' => Rebuilds /\ cleanq' = cleanq
  <2>1. Rebuilds' => \A s : Renewed(s)' <=> Renewed(s)
    BY <1>2 DEF Renewed, IsUpToDate
  <2> QED
    BY <1>2, <2>1, NothingOlderSame
<1>3. ASSUME NEW p \in Pkgs, NEW s \in Steps, FindUpToDate(p, s) \/ Fail(p, s) PROVE Newer
  BY <1>2, <1>3 DEF FindUpToDate, Fail, disk, Rebuilds, InRun
<1>4. ASSUME NEW p \in Pkgs, ApplyPatch(p) \/ FindDuplicatePatch(p) \/ Edit(p) PROVE Newer
  BY <1>2, <1>4 DEF ApplyPatch, FindDuplicatePatch, Considers, Running, Edit, run, disk, Rebuilds
<1>5. CASE Interrupt \/ Succeed \/ GiveUp \/ UNCHANGED vars
  BY <1>2, <1>5 DEF Interrupt, Succeed, GiveUp, Running, vars, disk, run, Rebuilds
<1> QED
  BY <1>3, <1>4, <1>5, RebuildStarts, RebuildCleanStep, RebuildStartStep, RebuildEndStep
  DEF Next, MakeStep

\* When a rebuild of a package with an override source succeeds, what it has installed
\* is the source the user had when the command was given, or a later one.
THEOREM RebuildInstallsEdits == ASSUME Orderly PROVE Spec => []RebuildPicksUpEdits
<1>1. Init => EditsInv
  BY PackageAssumption DEF Init, EditsInv, Rebuilds
<1>2. BuildInv /\ EditsInv /\ [Next]_vars => EditsInv'
  BY EditsStep
<1>3. BuildInv /\ EditsInv => RebuildPicksUpEdits
  <2> SUFFICES ASSUME BuildInv, EditsInv, phase = "ok", Rebuilds, NEW s \in Variants(pkg)
               PROVE  inst[pkg][s] >= srcAtStart[pkg]
    BY DEF RebuildPicksUpEdits, Rebuilds
  <2>1. pkg \in Pkgs /\ <<pkg, "installed">> \in ready
    BY DEF BuildInv, TypeOK, ReadyInv, EditsInv
  <2>2. cleanq = <<>>
    BY <2>1 DEF BuildInv, OrderlyRun
  <2>3. <<pkg, s>> \in ready /\ s \in Steps
    BY <2>1, AllStepsReady, VariantsType, StepsOfType DEF BuildInv
  <2>4. Renewed(s)
    BY <2>1, <2>2, <2>3 DEF Renewed, BuildInv, ReadyInv
  <2> QED
    BY <2>4 DEF EditsInv, NothingOlder
<1> QED
  BY <1>1, <1>2, <1>3, BuildInvariant, PTL DEF Spec
================================================================================
