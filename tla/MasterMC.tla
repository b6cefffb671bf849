------------------------------ MODULE MasterMC ------------------------------
(***************************************************************************)
(* Small instances of Master.  Functions over the submissions, which a     *)
(* .cfg cannot write, are defined here; s1 and s2 are the submissions, n1  *)
(* and n2 the names of their jobs.                                         *)
(***************************************************************************)
EXTENDS Master, TLC

CONSTANTS s1, s2, n1, n2

MCNameOf     == [s \in Subs |-> IF s = s1 THEN n1 ELSE n2]
MCNoDepend   == [s \in Subs |-> NoJob]
MCDepend     == [s \in Subs |-> IF s = s2 THEN 0 ELSE NoJob]
MCNoLimit    == [s \in Subs |-> NFrames]
MCOneCpu     == [s \in Subs |-> 1]
MCAllowed    == [s \in Subs |-> Comps]

(* Handlers are alike, and so are computers: every job may run on each.    *)
MCSymmetry   == Permutations(Handlers) \cup Permutations(Comps)
=============================================================================
