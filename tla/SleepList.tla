---- MODULE SleepList ----
(***************************************************************************)
(* The delta sleep queue of the HalaOS kernel (halaos_kernel.c).           *)
(*                                                                         *)
(* The C code links TCBs from g_sleep_head through sleep_next; here the    *)
(* list is the sequence of the tasks reachable from the head, together     *)
(* with every TCB's sleep_delta (also of TCBs that are not linked).  A     *)
(* task's due time is the sum of the deltas up to and including its own.   *)
(* The operators are pure: L is a record [q, delta].                       *)
(***************************************************************************)
EXTENDS Integers, Sequences, FiniteSets, SequencesExt

\* Prefix sums: Due(L)[j] ticks remain before the j-th linked task is due.
Due(L) ==
    LET due[j \in 0..Len(L.q)] ==
            IF j = 0 THEN 0 ELSE due[j-1] + L.delta[L.q[j]]
    IN  due

\* Mutant: the predecessor's link is cleared instead of passed on.
sleep_remove_cut(L, i) ==
    IF ~Contains(L.q, i) THEN L
    ELSE LET k == CHOOSE j \in DOMAIN L.q : L.q[j] = i
         IN  [q |-> SubSeq(L.q, 1, k - 1), delta |-> [L.delta EXCEPT ![i] = 0]]

\* Mutant: the successor does not inherit the delta.
sleep_remove_lossy(L, i) ==
    IF ~Contains(L.q, i) THEN L
    ELSE [q |-> RemoveFirst(L.q, i), delta |-> [L.delta EXCEPT ![i] = 0]]

\* sleep_remove: unlink i and hand its delta to its successor.  A task that is
\* not linked is left alone.
sleep_remove(L, i) ==
    IF ~Contains(L.q, i) THEN L
    ELSE LET k == CHOOSE j \in DOMAIN L.q : L.q[j] = i IN
         [q     |-> RemoveAt(L.q, k),
          delta |-> [t \in DOMAIN L.delta |->
                       IF t = i THEN 0
                       ELSE IF k < Len(L.q) /\ t = L.q[k+1]
                            THEN L.delta[t] + L.delta[i]
                            ELSE L.delta[t]]]

\* Mutant: the task is not unlinked first.
sleep_insert_twice(L, i, ticks) ==
    LET n   == IF ticks = 0 THEN 1 ELSE ticks
        due == Due(L)
        p   == Cardinality({j \in 1..Len(L.q) : due[j] =< n})
    IN  [q |-> InsertAt(L.q, p + 1, i), delta |-> [L.delta EXCEPT ![i] = n - due[p]]]

\* sleep_insert: walk past every task due no later than the new one, link it
\* there, and shorten the successor's delta by what is left of its own.
sleep_insert(L, i, ticks) ==
    LET n    == IF ticks = 0 THEN 1 ELSE ticks
        R    == sleep_remove(L, i)
        due  == Due(R)
        p    == Cardinality({j \in 1..Len(R.q) : due[j] =< n})
        left == n - due[p]
    IN  [q     |-> InsertAt(R.q, p + 1, i),
         delta |-> [t \in DOMAIN R.delta |->
                      IF t = i THEN left
                      ELSE IF p < Len(R.q) /\ t = R.q[p+1]
                           THEN R.delta[t] - left
                           ELSE R.delta[t]]]

\* What task_make_ready does to the queue: it resets the TCB's own link and
\* delta without unlinking the TCB, so the list now ends at i.
link_reset(L, i) ==
    [q     |-> IF Contains(L.q, i)
               THEN SubSeq(L.q, 1, CHOOSE j \in DOMAIN L.q : L.q[j] = i)
               ELSE L.q,
     delta |-> [L.delta EXCEPT ![i] = 0]]

\* How many tasks sleep_advance takes off the head: it stops as soon as the
\* elapsed ticks are used up, so a task with delta 0 behind one that consumed
\* the last tick stays linked until the next tick.
popped(L, elapsed) ==
    LET due == Due(L)
    IN  Cardinality({j \in 1..Len(L.q) : due[j-1] < elapsed /\ due[j] =< elapsed})

\* sleep_advance, without the wake-ups themselves: the popped tasks leave the
\* queue with delta 0 and the new head keeps what the ticks have not consumed.
sleep_advance(L, elapsed) ==
    LET n == popped(L, elapsed)
    IN  [q     |-> SubSeq(L.q, n + 1, Len(L.q)),
         delta |-> [t \in DOMAIN L.delta |->
                      IF \E j \in 1..n : L.q[j] = t THEN 0
                      ELSE IF n < Len(L.q) /\ t = L.q[n+1]
                           THEN L.delta[t] - (elapsed - Due(L)[n])
                           ELSE L.delta[t]]]

\* The tasks sleep_advance hands to task_make_ready.
woken(L, elapsed) == {L.q[j] : j \in 1..popped(L, elapsed)}
====
