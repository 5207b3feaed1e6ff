------------------------------- MODULE MCJni -------------------------------
(***************************************************************************)
(* The JNI helper library for TLC.  A thread's crossings, references,      *)
(* handles, iterators and strings share no state: a behaviour exercises    *)
(* one of them.                                                            *)
(***************************************************************************)
EXTENDS JniCalls, JniRefs, JniObjects, Utf8, TLC

CONSTANTS e1, e2

VARIABLE side

MCElements == <<e1, e2>>

Perms == Permutations(Slots) \cup Permutations(Pins)

Init ==
    /\ RefsInit /\ ObjectsInit /\ CallsInit /\ UtfInit
    /\ side \in {"calls", "refs", "handles", "iteration", "strings"}
    /\ side # "calls" => vm /\ \A t \in Threads : th[t].java
    /\ side # "strings" => given = [kind |-> "text", of |-> <<>>]

Next ==
    \/ side = "calls" /\ CallsNext /\ UNCHANGED <<refVars, objVars, utfVars, side>>
    \/ side = "refs" /\ RefsNext /\ UNCHANGED <<callsVars, objVars, utfVars, side>>
    \/ side = "handles" /\ HandlesNext /\ UNCHANGED <<callsVars, refVars, utfVars, side>>
    \/ side = "iteration" /\ IterationNext /\ UNCHANGED <<callsVars, refVars, utfVars, side>>
    \/ side = "strings" /\ UtfNext /\ UNCHANGED <<callsVars, refVars, objVars, side>>

Spec == Init /\ [][Next]_<<callsVars, refVars, objVars, utfVars, side>>
=============================================================================
