------------------------------ MODULE Directory ------------------------------
(***************************************************************************)
(* What the server's table of dictionaries promises to the tokenizations:  *)
(* a dictionary is found under its name, two names never lead to the same  *)
(* one, and while somebody works on a dictionary it stays where it is.     *)
(***************************************************************************)
CONSTANTS
    Name,
    Reserved,       \* the names nobody can create
    Dict,
    NoDict,
    Worker

VARIABLES
    dtionaries,     \* Name -> Dict, or NoDict
    working         \* Worker -> the dictionary it works on, or NoDict

dvars == <<dtionaries, working>>

Taken == {dtionaries[n] : n \in Name} \cup {working[t] : t \in Worker}

Init ==
    /\ dtionaries = [n \in Name |-> NoDict]
    /\ working = [t \in Worker |-> NoDict]

\* A new dictionary is not one that has another name or that somebody works on.
Create(n, d) ==
    /\ n \notin Reserved
    /\ dtionaries[n] = NoDict
    /\ d \notin Taken
    /\ dtionaries' = [dtionaries EXCEPT ![n] = d]
    /\ UNCHANGED working

Delete(n) ==
    /\ dtionaries[n] # NoDict
    /\ \A t \in Worker : working[t] # dtionaries[n]
    /\ dtionaries' = [dtionaries EXCEPT ![n] = NoDict]
    /\ UNCHANGED working

Begin(t, n) ==
    /\ working[t] = NoDict
    /\ dtionaries[n] # NoDict
    /\ working' = [working EXCEPT ![t] = dtionaries[n]]
    /\ UNCHANGED dtionaries

End(t) ==
    /\ working[t] # NoDict
    /\ working' = [working EXCEPT ![t] = NoDict]
    /\ UNCHANGED dtionaries

Next ==
    \/ \E n \in Name : Delete(n) \/ \E d \in Dict : Create(n, d)
    \/ \E t \in Worker : End(t) \/ \E n \in Name : Begin(t, n)

Spec == Init /\ [][Next]_dvars
==============================================================================
