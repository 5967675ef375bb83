----------------------------- MODULE Watermark ------------------------------
(***************************************************************************)
(* What the shared sync checkpoint promises, without saying how: a mark on *)
(* the time line such that every promised row from the horizon up to the   *)
(* mark is settled (stored, counted as failed, or past retention).  New    *)
(* rows only appear at or after the mark, and the mark moves, forwards or  *)
(* backwards, only to a place that keeps the promise.                      *)
(***************************************************************************)
EXTENDS Integers

CONSTANTS Rows, Times, At

VARIABLES promised, settled, mark, horizon

wmVars == <<promised, settled, mark, horizon>>

\* The promise a mark m with horizon h makes.
Kept(h, m) == \A r \in promised : h <= At[r] /\ At[r] < m => r \in settled

Init ==
    /\ promised = {}
    /\ settled = {}
    /\ mark = 0
    /\ horizon = 0

Appear(r) ==
    /\ At[r] >= mark
    /\ promised' = promised \cup {r}
    /\ UNCHANGED <<settled, mark, horizon>>

\* Rows of a device that left the registry are no longer promised.
Release(S) ==
    /\ promised' = promised \ S
    /\ UNCHANGED <<settled, mark, horizon>>

Settle(S) ==
    /\ settled' = settled \cup S
    /\ UNCHANGED <<promised, mark, horizon>>

Move(h, m) ==
    /\ Kept(h, m)
    /\ mark' = m
    /\ horizon' = h
    /\ UNCHANGED <<promised, settled>>

Next ==
    \/ \E r \in Rows : Appear(r)
    \/ \E S \in SUBSET Rows : Release(S) \/ Settle(S)
    \/ \E h, m \in Times : Move(h, m)

Spec == Init /\ [][Next]_wmVars
=============================================================================
