---- MODULE IpcService ----
(***************************************************************************)
(* What the blocking IPC services promise, without slots, handles,         *)
(* generations, ticks or exception frames.  Every created object is a new  *)
(* one, for ever.  A process waits for one object at a time, at most one   *)
(* process waits for an object, and every wait ends with exactly one       *)
(* outcome: it got what it waited for, the time ran out, or the object was *)
(* closed.  Nothing that is available is withheld from a process that      *)
(* waits for it, and what is put is taken once.                            *)
(***************************************************************************)
EXTENDS Naturals

CONSTANTS Procs, Objects, NoProc

VARIABLES
    avail,      \* [Objects -> Nat]: units that may be taken at once
    holder,     \* [Objects -> Procs or NoProc]: owner of a mutex
    waits,      \* [Procs -> Objects or 0]: what a blocked process waits for
    outcome     \* [Procs -> how its wait ended in the last step, or "none"]

vars == <<avail, holder, waits, outcome>>

Ended(p, how) ==
    /\ waits' = [waits EXCEPT ![p] = 0]
    /\ outcome' = [q \in Procs |-> IF q = p THEN how ELSE "none"]
Waiting(k) == {p \in Procs : waits[p] = k}
Quiet == UNCHANGED waits /\ outcome' = [q \in Procs |-> "none"]

Init ==
    /\ avail = [k \in Objects |-> 0]
    /\ holder = [k \in Objects |-> NoProc]
    /\ waits = [p \in Procs |-> 0]
    /\ outcome = [p \in Procs |-> "none"]

\* An object that starts with a unit appears; objects go: who waits is told.
Open(k) ==
    /\ Waiting(k) = {} /\ avail[k] = 0 /\ holder[k] = NoProc
    /\ avail' = [avail EXCEPT ![k] = 1]
    /\ UNCHANGED holder /\ Quiet
Shut(K) ==
    /\ avail' = [k \in Objects |-> IF k \in K THEN 0 ELSE avail[k]]
    /\ holder' = [k \in Objects |-> IF k \in K THEN NoProc ELSE holder[k]]
    /\ waits' = [p \in Procs |-> IF waits[p] \in K THEN 0 ELSE waits[p]]
    /\ outcome' = [p \in Procs |-> IF waits[p] \in K THEN "closed" ELSE "none"]

\* A unit goes to the one that waits; it is stored only when nobody does.
Put(k) ==
    /\ UNCHANGED holder
    /\ \/ \E p \in Waiting(k) : Ended(p, "ok") /\ UNCHANGED avail
       \/ Waiting(k) = {} /\ avail' = [avail EXCEPT ![k] = @ + 1] /\ Quiet
Take(k) ==
    /\ avail[k] > 0 /\ Waiting(k) = {}
    /\ avail' = [avail EXCEPT ![k] = @ - 1]
    /\ UNCHANGED holder /\ Quiet

\* A mutex is taken when it is free and handed over when somebody waits.
Lock(p, k) ==
    /\ avail[k] > 0 /\ holder[k] = NoProc /\ Waiting(k) = {}
    /\ avail' = [avail EXCEPT ![k] = 0]
    /\ holder' = [holder EXCEPT ![k] = p] /\ Quiet
Unlock(k) ==
    /\ holder[k] # NoProc
    /\ \/ \E p \in Waiting(k) :
            holder' = [holder EXCEPT ![k] = p] /\ Ended(p, "ok") /\ UNCHANGED avail
       \/ /\ Waiting(k) = {} /\ Quiet
          /\ holder' = [holder EXCEPT ![k] = NoProc] /\ avail' = [avail EXCEPT ![k] = 1]

\* Only for what is not there, and alone.
Wait(p, k) ==
    /\ avail[k] = 0 /\ Waiting(k) = {} /\ waits[p] = 0
    /\ waits' = [waits EXCEPT ![p] = k]
    /\ outcome' = [q \in Procs |-> "none"]
    /\ UNCHANGED <<avail, holder>>
\* One tick may end the waits of several processes.
Expire(P) ==
    /\ \A p \in P : waits[p] # 0
    /\ waits' = [p \in Procs |-> IF p \in P THEN 0 ELSE waits[p]]
    /\ outcome' = [p \in Procs |-> IF p \in P THEN "timeout" ELSE "none"]
    /\ UNCHANGED <<avail, holder>>

Next ==
    \/ \E k \in Objects : Open(k) \/ Put(k) \/ Take(k) \/ Unlock(k)
    \/ \E p \in Procs, k \in Objects : Lock(p, k) \/ Wait(p, k)
    \/ \E K \in SUBSET Objects : Shut(K)
    \/ \E P \in SUBSET Procs : Expire(P)
    \/ Quiet /\ UNCHANGED <<avail, holder>>

Spec == Init /\ [][Next]_vars
====
