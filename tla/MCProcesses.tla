----------------------------- MODULE MCProcesses -----------------------------
(* Instance of Processes for TLC: a command that talks and a silent one.    *)
EXTENDS Processes

OutputMC == [c \in Commands |-> IF c = Watched THEN 5 ELSE 0]

(* Bound: a log that has output is explored with one command and one        *)
(* DELETE; two of each with an empty one.                                   *)
LongLogAlone ==
    entries[Watched] > 0 =>
        /\ \A c \in Commands \ {Watched} : task[c] = "none"
        /\ \E d \in Deletes : \A e \in Deletes \ {d} : del[e] = "idle"
=============================================================================
