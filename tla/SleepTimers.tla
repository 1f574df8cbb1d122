---- MODULE SleepTimers ----
(***************************************************************************)
(* What sleeping promises, with no list and no deltas: every sleeper has a *)
(* number of ticks left.  A tick interrupt that accounts for step ticks    *)
(* wakes nobody whose time is not up, and wakes at the latest at the next  *)
(* interrupt whoever's time is up.                                         *)
(***************************************************************************)
EXTENDS Integers

CONSTANTS Tasks, MaxStep,
    Durations       \* the ticks a task may ask for

Awake == -1

VARIABLE left   \* ticks until each task is due, Awake for one that is not asleep

Asleep == {t \in Tasks : left[t] # Awake}

TypeOK == left \in [Tasks -> Nat \union {Awake}]

Init == left = [t \in Tasks |-> Awake]

\* A task goes to sleep for the time it asks for; 0 ticks are treated as 1.
Sleep(t) ==
    /\ t \notin Asleep
    /\ \E n \in Durations : left' = [left EXCEPT ![t] = IF n = 0 THEN 1 ELSE n]

\* Sleepers are taken out early, all at once (their application is stopped).
Cancel(C) ==
    left' = [t \in Tasks |-> IF t \in C THEN Awake ELSE left[t]]

Tick(step) ==
    \E W \in SUBSET {t \in Asleep : left[t] =< step} :
        /\ {t \in Asleep : left[t] = 0} \subseteq W
        /\ left' = [t \in Tasks |->
                      IF t \notin Asleep \/ t \in W THEN Awake ELSE left[t] - step]

Next ==
    \/ \E t \in Tasks : Sleep(t)
    \/ \E C \in SUBSET Asleep : Cancel(C)
    \/ \E step \in 1..MaxStep : Tick(step)

Spec == Init /\ [][Next]_left
====
