---------------------------- MODULE EngineOwnership ----------------------------
(***************************************************************************)
(* What the single-engine arrangement promises, without saying how: at any *)
(* time at most one engine owns the volume, an engine that is gone owns    *)
(* nothing, and only the owner touches the proof-of-life file.             *)
(***************************************************************************)
CONSTANTS
    Process,    \* engine processes
    Nobody,     \* the volume has no owner
    Absent,     \* there is no heartbeat file yet
    Empty       \* the file is truncated and not yet rewritten

VARIABLES
    owner,      \* the engine that owns the volume
    beat        \* whose heartbeat is in the file

vars == <<owner, beat>>

Init == owner = Nobody /\ beat = Absent

Claim(p) == owner = Nobody /\ owner' = p /\ UNCHANGED beat

Yield == owner # Nobody /\ owner' = Nobody /\ UNCHANGED beat

(* write_text opens with truncation and then writes: a reader may see either *)
Beat(p) ==
    /\ owner = p
    /\ \/ beat' = Empty
       \/ beat = Empty /\ beat' = p
    /\ UNCHANGED owner

Next == Yield \/ \E p \in Process : Claim(p) \/ Beat(p)

Spec == Init /\ [][Next]_vars
=============================================================================
