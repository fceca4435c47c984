------------------------------- MODULE ConfigFiles -------------------------------
(* What the saving of a configuration promises to whoever reads the directory,    *)
(* a later run above all: .config is replaced by a file that is whole, and the    *)
(* one that was there is the .old from then on. A kill may come after any step.   *)
EXTENDS TLAPS

CONSTANTS
    None,   \* no file
    Part    \* a file that was not written to its end

VARIABLES config, old, tmp
vars == <<config, old, tmp>>

Whole(f) == f \notin {None, Part}

Init == config # Part /\ old = None /\ tmp = None

\* The temporary file is made, written, left behind or removed.
Scratch == UNCHANGED <<config, old>>
\* The old file is kept under another name, when the new one is whole.
Keep == /\ Whole(config) /\ Whole(tmp)
        /\ old' = config /\ config' = None /\ UNCHANGED tmp
Install == /\ config = None /\ Whole(tmp)
           /\ config' = tmp /\ tmp' = None /\ UNCHANGED old

Next == Scratch \/ Keep \/ Install
Spec == Init /\ [][Next]_vars

(* Properties.                                                                    *)
\* Nobody finds a file that was not written to its end.
NeverPart == config # Part /\ old # Part
\* Once there is a configuration there is always one, whole, under its name or as .old.
Survives == [](Whole(config) => [](Whole(config) \/ Whole(old)))

--------------------------------------------------------------------------------
(* Proofs *)

\* There is a whole configuration, under one name or the other.
Kept == Whole(config) \/ Whole(old)

LEMMA StepNeverPart == ASSUME None # Part, NeverPart, [Next]_vars PROVE NeverPart'
  <1>1. CASE Scratch \/ UNCHANGED vars
    BY <1>1 DEF Scratch, vars, NeverPart
  <1>2. CASE Keep
    BY <1>2 DEF Keep, Whole, NeverPart
  <1>3. CASE Install
    BY <1>3 DEF Install, Whole, NeverPart
  <1>. QED BY <1>1, <1>2, <1>3 DEF Next

LEMMA StepKept == Kept /\ [Next]_vars => Kept'
  <1>. SUFFICES ASSUME Kept, [Next]_vars PROVE Kept'
    OBVIOUS
  <1>1. CASE Scratch \/ UNCHANGED vars
    BY <1>1 DEF Scratch, vars, Kept, Whole
  <1>2. CASE Keep
    BY <1>2 DEF Keep, Kept, Whole
  <1>3. CASE Install
    BY <1>3 DEF Install, Kept, Whole
  <1>. QED BY <1>1, <1>2, <1>3 DEF Next

\* A reader of .config or of .config.old finds a file that was written to its end, or none
\* (confdata.c:774-836, the temporary file and the two renames).
THEOREM NobodyReadsAPart == ASSUME None # Part PROVE Spec => []NeverPart
  <1>1. Init => NeverPart
    BY DEF Init, NeverPart
  <1>2. NeverPart /\ [Next]_vars => NeverPart'
    BY StepNeverPart
  <1>. QED BY <1>1, <1>2, PTL DEF Spec

\* Once there is a configuration there is always one, after any number of runs and of
\* kills between their steps.
THEOREM ConfigurationSurvives == Spec => Survives
  <1>1. Whole(config) => Kept
    BY DEF Kept
  <1>2. Kept <=> (Whole(config) \/ Whole(old))
    BY DEF Kept
  <1>. QED BY <1>1, <1>2, StepKept, PTL DEF Spec, Survives
================================================================================
