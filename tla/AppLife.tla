------------------------------- MODULE AppLife -------------------------------
(***************************************************************************)
(* What the lifecycle of the apps promises, with neither counters nor      *)
(* threads: an app is open until it is closed, then drains the requests it *)
(* admitted, and is gone once there are none.                              *)
(***************************************************************************)
CONSTANTS Apps, Requests, Removable

VARIABLES
    phase,   \* phase[a]: "none", "open", "draining" or "gone"
    serving  \* the pairs <<r, a>> where app a is serving request r

life == <<phase, serving>>

Init ==
    /\ phase = [a \in Apps |-> "none"]
    /\ serving = {}

Create(a) ==
    /\ phase[a] = "none"
    /\ phase' = [phase EXCEPT ![a] = "open"]
    /\ UNCHANGED serving

\* Requests are admitted by an open app only.
Admit(r, a) ==
    /\ phase[a] = "open"
    /\ serving' = serving \cup {<<r, a>>}
    /\ UNCHANGED phase

Finish(r, a) ==
    /\ <<r, a>> \in serving
    /\ serving' = serving \ {<<r, a>>}
    /\ UNCHANGED phase

Close(a) ==
    /\ phase[a] = "open"
    /\ phase' = [phase EXCEPT ![a] = "draining"]
    /\ UNCHANGED serving

\* An app goes away when it serves no one any more.
Remove(a) ==
    /\ phase[a] = "draining"
    /\ \A r \in Requests : <<r, a>> \notin serving
    /\ phase' = [phase EXCEPT ![a] = "gone"]
    /\ UNCHANGED serving

Next ==
    \E a \in Apps :
        \/ Create(a)
        \/ Close(a)
        \/ a \in Removable /\ Remove(a)
        \/ \E r \in Requests : Admit(r, a) \/ Finish(r, a)

Spec == Init /\ [][Next]_life

\* A request that is being served ends, and a drained app is removed.
Fairness ==
    /\ \A a \in Removable : WF_life(Remove(a))
    /\ \A a \in Apps, r \in Requests : WF_life(Finish(r, a))

FairSpec == Spec /\ Fairness
=============================================================================
