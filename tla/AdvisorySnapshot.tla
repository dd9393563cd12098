-------------------------- MODULE AdvisorySnapshot --------------------------
(***************************************************************************)
(* What an advisory cache promises its readers.  Upstream goes through a   *)
(* series of complete states; a reader sees either one of them or nothing, *)
(* and while it sees something it is only ever moved forward.              *)
(***************************************************************************)
EXTENDS Naturals

CONSTANTS
    Advisories,
    MaxTime,     \* how often upstream changes
    Hidden       \* what a reader gets while the cache is rebuilding

VARIABLES
    history,     \* history[t]: every advisory's revision at upstream time t
    time,        \* upstream's present
    view,        \* what a reader of the cache sees
    asOf         \* the upstream time of that view

vars == <<history, time, view, asOf>>

States == [Advisories -> 0..MaxTime]

Init ==
    /\ history \in [0..MaxTime -> States]
    /\ time \in 0..MaxTime
    /\ view = Hidden
    /\ asOf = 0

Change ==
    /\ time < MaxTime
    /\ time' = time + 1
    /\ \E state \in States : history' = [history EXCEPT ![time + 1] = state]
    /\ UNCHANGED <<view, asOf>>

Hide ==
    /\ view # Hidden
    /\ view' = Hidden
    /\ asOf' = 0
    /\ UNCHANGED <<history, time>>

Show ==
    /\ view = Hidden
    /\ asOf' \in 0..time
    /\ view' = history[asOf']
    /\ UNCHANGED <<history, time>>

Advance ==
    /\ view # Hidden
    /\ asOf' \in asOf + 1 .. time
    /\ view' = history[asOf']
    /\ UNCHANGED <<history, time>>

Next == Change \/ Hide \/ Show \/ Advance

Spec == Init /\ [][Next]_vars
=============================================================================
