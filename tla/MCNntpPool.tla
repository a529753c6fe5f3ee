----------------------------- MODULE MCNntpPool -----------------------------
(* Small instances of NntpPool for TLC. *)
EXTENDS NntpPool, TLC
CONSTANTS i1, i2, l1, l2

Symmetry == Permutations({l1, l2})

(***************************************************************************)
(* A caller that has its session, or is on its way out, looks at its       *)
(* context no more: whether that is cancelled makes no difference then.    *)
(***************************************************************************)
Listening == {c \in Callers : pc[c] \in {"gate", "scan", "check", "dial", "parked", "reap", "reaped"}}
View == <<open, idle, stale, freed, lowGate, pc, ctxDone \cap Listening,
          keepWarm, sweep, kept, drain, closed>>
=============================================================================
