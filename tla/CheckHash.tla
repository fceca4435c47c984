------------------------------- MODULE CheckHash -------------------------------
(***************************************************************************)
(* support/download/check-hash: the verdict on one file, given the .hash   *)
(* files of its package.                                                   *)
(*                                                                         *)
(* A hash file is either missing ([exists |-> FALSE]) or a sequence of     *)
(* lines; a line names a hash type, a known hash and a file.  Comments and *)
(* empty lines are left out.  A hash is abstracted to the content it is    *)
(* the hash of: two contents have the same hash of a type only when they   *)
(* are the same content.                                                   *)
(***************************************************************************)
EXTENDS Integers, Sequences

\* The hash types check_one_hash knows; any other one ends the check with 4.
KnownTypes == {"md5", "sha1", "sha224", "sha256", "sha384", "sha512"}

\* The exit codes the callers tell apart.
Accepted == 0
Mismatch == 2
NoHash   == 3
BadType  == 4

\* Every line of every hash file that exists, as <<file index, line index>>.
AllLines(hfiles) ==
    { l \in (DOMAIN hfiles) \X UNION { DOMAIN hfiles[n].lines : n \in DOMAIN hfiles } :
        hfiles[l[1]].exists /\ l[2] \in DOMAIN hfiles[l[1]].lines }

\* The lines that name the file, in the order check-hash reads them.
LinesFor(hfiles, base) ==
    { l \in AllLines(hfiles) : hfiles[l[1]].lines[l[2]].file = base }

Before(l, m) == l[1] < m[1] \/ (l[1] = m[1] /\ l[2] < m[2])

\* check_one_hash: the exit code a line ends the check with, or Accepted to go on.
LineVerdict(line, content) ==
    IF line.type \notin KnownTypes THEN BadType
    ELSE IF line.hash = content THEN Accepted
    ELSE Mismatch

\* The whole script: the first line that does not match decides; a file no line
\* names is refused with NoHash, unless it is listed in BR_NO_CHECK_HASH_FOR.
CheckHash(hfiles, base, content, noCheckHashFor) ==
    LET Code(l) == LineVerdict(hfiles[l[1]].lines[l[2]], content)
        named   == LinesFor(hfiles, base)
        failing == { l \in named : Code(l) # Accepted }
    IN  IF \A i \in DOMAIN hfiles : ~hfiles[i].exists THEN Accepted
        ELSE IF failing # {}
             THEN Code(CHOOSE l \in failing : \A m \in failing \ {l} : Before(l, m))
        ELSE IF named # {} \/ base \in noCheckHashFor THEN Accepted
        ELSE NoHash
================================================================================
