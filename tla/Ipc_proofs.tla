---- MODULE Ipc_proofs ----
(***************************************************************************)
(* The IPC objects, for any processes, slots, capacities and timeouts.     *)
(* Each action of Ipc is first shown to be one of eight kinds of step,     *)
(* named for what it does to an object and to who waits (Steps).  The      *)
(* inductive invariant Base (Core: what object and waiter know of each     *)
(* other; Named: what an issued handle means) needs nothing beyond the     *)
(* assumptions of Ipc; lost wakeups, timeouts and the refinement of        *)
(* IpcService rest on it.  IInv adds what the counters, the generations    *)
(* and the locks say, and there a bound is needed: fewer creates than      *)
(* there are generations, for the code lets a generation come round.       *)
(***************************************************************************)
EXTENDS Ipc, TLAPS, FiniteSetTheorems, SequenceTheorems

Half == TickMod \div 2

LEMMA Sizes ==
    /\ NoProc \notin Procs /\ Shell \in Procs /\ Blockers \subseteq Procs
    /\ Cap \in Nat /\ Cap > 0 /\ MaxStep \in Nat /\ MaxStep > 0
    /\ MaxCreates \in Nat /\ MaxCreates > 0 /\ MaxValue \in Nat /\ MaxValue > 0
    /\ TickMod \in Nat /\ Half \in Nat /\ Half + Half \in {TickMod, TickMod - 1}
    /\ MaxStep <= Half /\ Half < TickMod /\ TickMod > 1
    /\ GenMod \in Nat /\ GenMod > 1
    /\ Timeouts \subseteq 1..Half
    /\ Wrap \in Nat /\ Cap < Wrap /\ MaxValue < Wrap
<1>1. /\ Cap \in Nat /\ Cap > 0 /\ MaxStep \in Nat /\ MaxStep > 0
      /\ MaxCreates \in Nat /\ MaxCreates > 0 /\ MaxValue \in Nat /\ MaxValue > 0
    BY SizeAssumption
<1>2. /\ TickMod \in Nat /\ MaxStep <= Half /\ \A d \in Timeouts : d \in 1..Half
    BY SizeAssumption, TimeAssumption DEF Half
<1>3. Half \in Nat /\ Half + Half \in {TickMod, TickMod - 1}
    BY <1>2 DEF Half
<1>4. Wrap \in Nat /\ Cap < Wrap /\ MaxValue < Wrap
    BY <1>1 DEF Wrap
<1> QED BY <1>1, <1>2, <1>3, <1>4, ProcAssumption, SizeAssumption

-----------------------------------------------------------------------------
(* Remainders of small numbers: the solvers know no others.                *)

LEMMA SmallMod ==
    ASSUME NEW n \in Nat, n > 0, NEW a \in 0..(n - 1) PROVE a % n = a
OBVIOUS

LEMMA BelowMod ==
    ASSUME NEW n \in Nat, n > 0, NEW a \in -n..-1 PROVE a % n = a + n
OBVIOUS

LEMMA AboveMod ==
    ASSUME NEW n \in Nat, n > 0, NEW a \in n..(n + n - 1) PROVE a % n = a - n
OBVIOUS

LEMMA ModRange ==
    ASSUME NEW n \in Nat, n > 0, NEW a \in Int PROVE a % n \in 0..(n - 1)
OBVIOUS

\* One more, modulo n.
LEMMA NextMod ==
    ASSUME NEW n \in Nat, n > 0, NEW a \in 0..(n - 1)
    PROVE  (a + 1) % n = IF a = n - 1 THEN 0 ELSE a + 1
<1>1. CASE a = n - 1
    BY <1>1, AboveMod
<1>2. CASE a # n - 1
    BY <1>2, SmallMod
<1> QED BY <1>1, <1>2

LEMMA FoldMod ==
    ASSUME NEW n \in Nat, n > 0, NEW a \in 0..(n + n - 1)
    PROVE  a % n = IF a < n THEN a ELSE a - n
<1>1. CASE a < n
    BY <1>1, SmallMod
<1>2. CASE ~(a < n)
    BY <1>2, AboveMod
<1> QED BY <1>1, <1>2

\* A deadline due in d ticks is reached within step ticks iff d <= step.
LEMMA DeadlineReached ==
    ASSUME NEW now \in 0..(TickMod - 1), NEW d \in 1..Half, NEW step \in 1..MaxStep
    PROVE  /\ Reached((now + step) % TickMod, (now + d) % TickMod) <=> d <= step
           /\ (((now + step) % TickMod) - now) % TickMod = step
           /\ d > step => (now + d) % TickMod = (((now + step) % TickMod) + (d - step)) % TickMod
<1> DEFINE M == TickMod  a == (now + step) % M  b == (now + d) % M
<1>1. /\ M \in Nat /\ M > 0 /\ Half \in Nat /\ Half + Half \in {M, M - 1} /\ MaxStep <= Half /\ Half < M
      /\ MaxStep \in Nat
    BY Sizes
<1> HIDE DEF M
<1>2. a = IF now + step < M THEN now + step ELSE now + step - M
    <2>1. now + step \in 0..(M + M - 1)
        BY <1>1 DEF M
    <2> QED BY <1>1, <2>1, FoldMod
<1>3. b = IF now + d < M THEN now + d ELSE now + d - M
    <2>1. now + d \in 0..(M + M - 1)
        BY <1>1 DEF M
    <2> QED BY <1>1, <2>1, FoldMod
<1> HIDE DEF a, b
<1>9. now \in 0..(M - 1) /\ a \in 0..(M - 1) /\ b \in 0..(M - 1)
    BY <1>1, <1>2, <1>3 DEF M
<1>4. (a - b) % M = IF d <= step THEN step - d ELSE step - d + M
    <2>1. a - b \in {step - d, step - d + M, step - d - M}
        BY <1>1, <1>2, <1>3
    <2>2. a \in 0..(M - 1) /\ b \in 0..(M - 1)
        BY <1>9
    <2>3. \A x \in 0..(M - 1) : x % M = x
        BY <1>1, SmallMod
    <2>4. \A x \in -M..-1 : x % M = x + M
        BY <1>1, BelowMod
    <2>5. step - d \in (1 - Half)..(Half - 1)
        BY <1>1
    <2> QED BY <1>1, <2>1, <2>2, <2>3, <2>4, <2>5
<1>5. (a - b) % M < Half <=> d <= step
    BY <1>1, <1>4
<1>6. (a - now) % M = step
    <2>1. a - now \in {step, step - M}
        BY <1>1, <1>2
    <2>2. step % M = step /\ (step - M) % M = step
        BY <1>1, SmallMod, BelowMod
    <2> QED BY <2>1, <2>2
<1>7. ASSUME d > step PROVE b = (a + (d - step)) % M
    <2>1. a + (d - step) \in {now + d, now + d - M} /\ a + (d - step) \in Nat
        BY <1>1, <1>2, <1>7
    <2>2. a + (d - step) \in 0..(M + M - 1)
        BY <1>1, <1>9, <2>1
    <2> DEFINE c == a + (d - step)
    <2> HIDE DEF c
    <2>3. c \in 0..(M + M - 1) /\ M > 0 /\ M \in Nat
        BY <1>1, <2>2 DEF c
    <2>4. c % M = IF c < M THEN c ELSE c - M
        BY <2>3, FoldMod
    <2>5. b = c % M
        BY <1>1, <1>3, <1>9, <2>1, <2>3, <2>4 DEF c
    <2> QED BY <2>5 DEF c
<1> QED BY <1>5, <1>6, <1>7 DEF Reached, Half, M, a, b
-----------------------------------------------------------------------------
(* The inductive invariant, in two parts: what objects and waiting         *)
(* processes know of each other, and (below) what handles mean.            *)

Types ==
    /\ obj \in [Slots -> Object]
    /\ blocked \subseteq Procs /\ ticks \in 0..(TickMod - 1)
    /\ due \in [Procs -> Nat] /\ res \in [Procs -> Results] /\ keys \in BOOLEAN
Others ==
    /\ life \in [Procs -> {"live", "exited", "gone"}] /\ plan \in Plans
    /\ issued \in Seq([slot : Slots, gen : 0..(GenMod - 1)]) /\ Len(issued) <= MaxCreates
    /\ holds \in [Procs -> SUBSET Serials]
    /\ ins \in [Serials -> 0..(Wrap - 1)] /\ outs \in [Serials -> 0..(Wrap - 1)]

\* Nobody waits at a free slot; a value is a count, of an event 0 or 1.
Blank == \A s \in Slots : obj[s].serial = 0 => obj[s].waiter = NoProc
Values == \A s \in Slots : obj[s].value \in Nat /\ (obj[s].type = "event" => obj[s].value <= 1)
\* An object with a deadline ahead of now by what is due.
Due(p, s) ==
    /\ obj[s].waiter = p /\ due[p] \in 1..Half
    /\ obj[s].deadline = (ticks + due[p]) % TickMod
Timed == \A p \in blocked : \E s \in Slots : Due(p, s)
\* Without keys who is recorded waits, and is recorded once.
Alone ==
    ~keys => /\ \A s \in Slots : obj[s].waiter # NoProc => obj[s].waiter \in blocked
             /\ \A s, r \in Slots : obj[s].waiter = obj[r].waiter /\ obj[s].waiter # NoProc => s = r

Core == Types /\ Blank /\ Values /\ Timed /\ Alone /\ NoLostWakeup

(***************************************************************************)
(* The steps by what they do to the objects and to who waits.  Put(s, q)   *)
(* leaves q in slot s.                                                     *)
(***************************************************************************)
Put(s, q) ==
    /\ s \in Slots /\ q \in Object /\ q.serial # 0
    /\ q.value \in Nat /\ (q.type = "event" => q.value <= 1)
    /\ obj' = [obj EXCEPT ![s] = q]
\* Nobody is woken.
Quietly(s, q) ==
    /\ Put(s, q) /\ q.waiter = obj[s].waiter
    /\ q.waiter # NoProc => q.deadline = obj[s].deadline /\ Unavailable(q, q.waiter)
    /\ NoWake /\ UNCHANGED <<ticks, env>>
\* The waiter is woken.
Serving(s, q) ==
    /\ Put(s, q) /\ obj[s].waiter # NoProc /\ q.waiter = NoProc
    /\ Wake({obj[s].waiter}, "ok") /\ UNCHANGED <<ticks, env>>
\* A process waits.
Blocking(p, s, timeout) ==
    /\ p \in Procs /\ p \notin blocked /\ s \in Slots /\ timeout \in Timeouts
    /\ obj[s].serial # 0 /\ Unavailable(obj[s], p) /\ obj[s].waiter = NoProc
    /\ obj' = [obj EXCEPT ![s].waiter = p, ![s].deadline = (ticks + timeout) % TickMod]
    /\ blocked' = blocked \union {p} /\ res' = [q \in Procs |-> "none"]
    /\ due' = [due EXCEPT ![p] = timeout] /\ UNCHANGED <<ticks, env>>
Ending(S) == S \subseteq Slots /\ Release(S) /\ UNCHANGED <<ticks, env>>
Idle == NoWake /\ UNCHANGED <<obj, ticks, env>>

LEMMA WakeNobody ==
    ASSUME Types, NoWake
    PROVE  blocked' = blocked /\ due' = due /\ res' = [p \in Procs |-> "none"]
<1>1. due' = [p \in Procs |-> due[p]] /\ due \in [Procs -> Nat]
    BY DEF NoWake, Wake, Types
<1>2. res' = [p \in Procs |-> "none"] /\ blocked' = blocked
    BY DEF NoWake, Wake
<1> QED BY <1>1, <1>2

LEMMA PutIs ==
    ASSUME Types, NEW s, NEW q, Put(s, q)
    PROVE  /\ s \in Slots /\ q \in Object /\ obj[s] \in Object
           /\ obj' \in [Slots -> Object] /\ obj'[s] = q
           /\ \A r \in Slots : r # s => obj'[r] = obj[r]
BY DEF Put, Types

LEMMA QuietlyKeeps ==
    ASSUME Core, NEW s, NEW q, Quietly(s, q) PROVE Core'
<1>1. /\ s \in Slots /\ obj' \in [Slots -> Object] /\ obj'[s] = q
      /\ \A r \in Slots : r # s => obj'[r] = obj[r]
    BY PutIs DEF Core, Quietly
<1>2. blocked' = blocked /\ due' = due /\ res' = [p \in Procs |-> "none"]
    BY WakeNobody DEF Core, Quietly
<1>3. ticks' = ticks /\ keys' = keys
    BY DEF Quietly, env
<1>4. \A r \in Slots : /\ obj'[r].waiter = obj[r].waiter
                       /\ obj[r].waiter # NoProc => obj'[r].deadline = obj[r].deadline
    BY <1>1 DEF Quietly
<1>5. Types'
    <2>1. res' \in [Procs -> Results]
        BY <1>2 DEF Results
    <2> QED BY <1>1, <1>2, <1>3, <2>1 DEF Types, Core
<1>6. Blank' /\ Values'
    BY <1>1 DEF Blank, Values, Core, Quietly, Put
<1>7. Timed'
    <2>1. \A p \in blocked, r \in Slots : Due(p, r) => Due(p, r)'
        BY <1>2, <1>3, <1>4, Sizes DEF Core, Types, Due
    <2> QED BY <1>2, <2>1 DEF Timed, Core
<1>8. Alone'
    BY <1>2, <1>3, <1>4 DEF Alone, Core
<1>9. NoLostWakeup'
    BY <1>1 DEF NoLostWakeup, Core, Quietly
<1> QED BY <1>5, <1>6, <1>7, <1>8, <1>9 DEF Core

LEMMA IdleKeeps == ASSUME Core, Idle PROVE Core'
<1>2. blocked' = blocked /\ due' = due /\ res' = [p \in Procs |-> "none"]
    BY WakeNobody DEF Core, Idle
<1>3. ticks' = ticks /\ keys' = keys /\ obj' = obj
    BY DEF Idle, env
<1>5. Types'
    <2>1. res' \in [Procs -> Results]
        BY <1>2 DEF Results
    <2> QED BY <1>2, <1>3, <2>1 DEF Types, Core
<1> QED BY <1>2, <1>3, <1>5 DEF Core, Blank, Values, Timed, Due, Alone, NoLostWakeup

(* Some objects forget their waiters, which are all woken; an object may   *)
(* become free.                                                            *)
Forgetting(S, result) ==
    /\ S \subseteq Slots /\ obj' \in [Slots -> Object]
    /\ \A s \in S : obj'[s].waiter = NoProc /\ obj'[s].value \in Nat
                    /\ (obj'[s].type = "event" => obj'[s].value <= 1)
    /\ \A s \in Slots \ S : obj'[s] = obj[s]
    /\ result \in Results /\ Wake({obj[s].waiter : s \in S} \ {NoProc}, result)
    /\ UNCHANGED <<ticks, env>>

LEMMA ForgettingKeeps ==
    ASSUME Core, NEW S, NEW result, Forgetting(S, result) PROVE Core'
<1> DEFINE P == {obj[s].waiter : s \in S} \ {NoProc}
<1>1. blocked' = blocked \ P /\ ticks' = ticks /\ keys' = keys
    BY DEF Forgetting, Wake, env
<1>2. \A s \in Slots : obj[s] \in Object /\ obj'[s] \in Object
    BY DEF Forgetting, Core, Types
<1>3. P \subseteq Procs
    BY <1>2 DEF Forgetting, Object
<1>4. res' = [p \in Procs |-> IF p \in P THEN result ELSE "none"]
      /\ due' = [p \in Procs |-> IF p \in P THEN 0 ELSE due[p]]
    BY DEF Forgetting, Wake
<1>10. \A s \in S : s \in Slots /\ obj'[s].waiter = NoProc
    BY DEF Forgetting
<1>11. \A s \in Slots : s \notin S => obj'[s] = obj[s]
    BY DEF Forgetting
<1>12. \A s \in S : obj[s].waiter \notin P => obj[s].waiter = NoProc
    OBVIOUS
<1> HIDE DEF P
<1>5. Types'
    <2>1. res' \in [Procs -> Results]
        BY <1>4 DEF Forgetting, Results
    <2>2. due' \in [Procs -> Nat]
        BY <1>4 DEF Core, Types
    <2> QED BY <1>1, <2>1, <2>2 DEF Types, Core, Forgetting
<1>6. Blank' /\ Values'
    BY <1>10, <1>11 DEF Blank, Values, Core, Forgetting
<1>7. Timed'
    <2> SUFFICES ASSUME NEW p \in blocked' PROVE \E s \in Slots : Due(p, s)'
        BY DEF Timed
    <2>1. p \in blocked /\ p \notin P /\ p \in Procs /\ p # NoProc
        BY <1>1, Sizes DEF Core, Types
    <2>2. PICK s \in Slots : Due(p, s)
        BY <2>1 DEF Core, Timed
    <2>3. s \notin S
        BY <1>12, <2>1, <2>2 DEF Due
    <2>4. due'[p] = due[p]
        BY <1>4, <2>1
    <2> QED BY <1>1, <1>11, <2>2, <2>3, <2>4 DEF Due
<1>8. Alone'
    <2> SUFFICES ASSUME ~keys PROVE Alone'
        BY <1>1 DEF Alone
    <2>1. \A s \in Slots : obj'[s].waiter # NoProc => s \notin S /\ obj'[s] = obj[s]
        BY <1>10, <1>11
    <2>2. \A s, r \in Slots : obj[s].waiter = obj[r].waiter /\ obj[s].waiter # NoProc => s = r
        BY DEF Alone, Core
    <2>3. ASSUME NEW s \in Slots, obj'[s].waiter # NoProc PROVE obj'[s].waiter \in blocked'
        <3>1. obj[s].waiter \in blocked /\ s \notin S /\ obj'[s].waiter = obj[s].waiter
            BY <2>1, <2>3 DEF Alone, Core
        <3>2. obj[s].waiter \notin P
            BY <2>2, <3>1 DEF P, Forgetting
        <3> QED BY <1>1, <3>1, <3>2
    <2>4. \A s, r \in Slots : obj'[s].waiter = obj'[r].waiter /\ obj'[s].waiter # NoProc => s = r
        BY <2>1, <2>2
    <2> QED BY <2>3, <2>4 DEF Alone
<1>9. NoLostWakeup'
    BY <1>10, <1>11 DEF NoLostWakeup, Core
<1> QED BY <1>5, <1>6, <1>7, <1>8, <1>9 DEF Core

LEMMA ServingForgets ==
    ASSUME Core, NEW s, NEW q, Serving(s, q) PROVE Forgetting({s}, "ok")
<1>1. /\ s \in Slots /\ obj' \in [Slots -> Object] /\ obj'[s] = q
      /\ \A r \in Slots : r # s => obj'[r] = obj[r]
    BY PutIs DEF Core, Serving
<1>2. {obj[r].waiter : r \in {s}} \ {NoProc} = {obj[s].waiter}
    BY DEF Serving
<1> QED BY <1>1, <1>2 DEF Forgetting, Serving, Put, Results

LEMMA FreeSlot ==
    ASSUME NEW gen \in 0..(GenMod - 1)
    PROVE  /\ Zero(gen) \in Object /\ Zero(gen).waiter = NoProc /\ Zero(gen).value = 0
           /\ Zero(gen).type = "none" /\ Zero(gen).serial = 0 /\ Zero(gen).gen = gen
           /\ Zero(gen).lock = NoProc /\ Zero(gen).owner = NoProc /\ Zero(gen).data = <<>>
           /\ Zero(gen).deadline = 0
<1>1. 0 \in Serials \union {0} /\ 0 \in Int /\ 0 \in 0..(TickMod - 1) /\ <<>> \in Seq(Nat)
    BY Sizes
<1> QED BY <1>1 DEF Zero, Object

LEMMA EndingForgets ==
    ASSUME Core, NEW S, Ending(S) PROVE Forgetting(S, "closed")
<1>1. obj' = [s \in Slots |-> IF s \in S THEN Zero(obj[s].gen) ELSE obj[s]]
    BY DEF Ending, Release
<1>2. \A s \in Slots : obj[s] \in Object /\ obj[s].gen \in 0..(GenMod - 1)
    BY DEF Core, Types, Object
<1>3. \A s \in Slots : Zero(obj[s].gen) \in Object /\ Zero(obj[s].gen).waiter = NoProc
                       /\ Zero(obj[s].gen).value = 0 /\ Zero(obj[s].gen).type = "none"
    BY <1>2, FreeSlot
<1>4. S \subseteq Slots
    BY DEF Ending
<1>5. obj' \in [Slots -> Object]
    BY <1>1, <1>2, <1>3
<1>6. \A s \in S : obj'[s].waiter = NoProc /\ obj'[s].value \in Nat
                    /\ (obj'[s].type = "event" => obj'[s].value <= 1)
    BY <1>1, <1>3, <1>4
<1>7. \A s \in Slots \ S : obj'[s] = obj[s]
    BY <1>1
<1> QED BY <1>4, <1>5, <1>6, <1>7 DEF Forgetting, Ending, Release, Results

LEMMA BlockingKeeps ==
    ASSUME Core, NEW p, NEW s, NEW timeout, Blocking(p, s, timeout) PROVE Core'
<1> DEFINE d == (ticks + timeout) % TickMod
<1>1. /\ p \in Procs /\ p \notin blocked /\ s \in Slots /\ timeout \in 1..Half
      /\ obj[s].serial # 0 /\ obj[s].waiter = NoProc /\ p # NoProc
    BY Sizes DEF Blocking
<1>2. ticks' = ticks /\ keys' = keys /\ d \in 0..(TickMod - 1) /\ timeout \in Nat
    BY <1>1, Sizes, ModRange DEF Blocking, env, Core, Types
<1>3. blocked' = blocked \union {p} /\ due' = [due EXCEPT ![p] = timeout]
      /\ res' = [q \in Procs |-> "none"]
    BY DEF Blocking
<1>4. obj' = [obj EXCEPT ![s].waiter = p, ![s].deadline = d] /\ obj \in [Slots -> Object]
    BY DEF Blocking, Core, Types
<1> HIDE DEF d
<1>5. obj[s] \in Object
    BY <1>1, <1>4
<1> DEFINE q == [obj[s] EXCEPT !.waiter = p, !.deadline = d]
<1>6. q \in Object
    BY <1>1, <1>2, <1>5 DEF Object
<1>7. /\ q.waiter = p /\ q.deadline = d /\ q.serial = obj[s].serial /\ q.value = obj[s].value
      /\ q.type = obj[s].type /\ q.data = obj[s].data /\ q.lock = obj[s].lock
    BY <1>5 DEF Object
<1>8. obj' \in [Slots -> Object] /\ obj'[s] = q /\ \A r \in Slots : r # s => obj'[r] = obj[r]
    BY <1>1, <1>4, <1>6
<1> HIDE DEF q
<1>9. Types'
    <2>1. res' \in [Procs -> Results]
        BY <1>3 DEF Results
    <2> QED BY <1>1, <1>2, <1>3, <1>8, <2>1 DEF Core, Types
<1>10. Blank' /\ Values'
    BY <1>1, <1>7, <1>8 DEF Blank, Values, Core
<1>11. Timed'
    <2> SUFFICES ASSUME NEW b \in blocked' PROVE \E r \in Slots : Due(b, r)'
        BY DEF Timed
    <2>1. CASE b = p
        <3>1. due'[p] = timeout
            BY <1>1, <1>3 DEF Core, Types
        <3>2. Due(p, s)'
            BY <1>1, <1>2, <1>7, <1>8, <3>1 DEF Due, d
        <3> QED BY <1>1, <2>1, <3>2
    <2>2. CASE b # p
        <3>1. b \in blocked /\ b \in Procs /\ b # NoProc
            BY <1>3, <2>2, Sizes DEF Core, Types
        <3>2. PICK r \in Slots : Due(b, r)
            BY <3>1 DEF Core, Timed
        <3>3. r # s
            BY <1>1, <3>1, <3>2 DEF Due
        <3>4. due'[b] = due[b]
            BY <1>3, <2>2, <3>1 DEF Core, Types
        <3> QED BY <1>2, <1>8, <3>2, <3>3, <3>4 DEF Due
    <2> QED BY <2>1, <2>2
<1>12. Alone'
    <2> SUFFICES ASSUME ~keys PROVE Alone'
        BY <1>2 DEF Alone
    <2>1. \A r \in Slots : obj[r].waiter # p
        BY <1>1 DEF Alone, Core
    <2> QED BY <1>1, <1>2, <1>3, <1>7, <1>8, <2>1 DEF Alone, Core
<1>13. NoLostWakeup'
    <2>1. Unavailable(q, p)
        BY <1>7 DEF Blocking, Unavailable
    <2> QED BY <1>7, <1>8, <2>1 DEF NoLostWakeup, Core
<1> QED BY <1>9, <1>10, <1>11, <1>12, <1>13 DEF Core

\* The objects whose waits a tick ends.
Over(step) ==
    {s \in Slots : obj[s].serial # 0 /\ obj[s].waiter # NoProc
                   /\ Reached((ticks + step) % TickMod, obj[s].deadline)}
TimedOut(step) == {obj[s].waiter : s \in Over(step)}

LEMMA TickIs ==
    ASSUME NEW step, Tick(step)
    PROVE  /\ ticks' = (ticks + step) % TickMod
           /\ obj' = [s \in Slots |-> IF s \in Over(step) THEN ClearWaiter(obj[s]) ELSE obj[s]]
           /\ blocked' = blocked \ TimedOut(step)
           /\ res' = [p \in Procs |-> IF p \in TimedOut(step) THEN "timeout" ELSE "none"]
           /\ due' = [p \in Procs |-> IF p \in blocked \ TimedOut(step) THEN due[p] - step ELSE 0]
           /\ UNCHANGED <<life, env>> /\ UNCHANGED ghosts
BY Zenon DEF Tick, Over, TimedOut

LEMMA ClearWaiterIs ==
    ASSUME NEW o \in Object
    PROVE  /\ ClearWaiter(o) \in Object /\ ClearWaiter(o).waiter = NoProc
           /\ ClearWaiter(o).serial = o.serial /\ ClearWaiter(o).gen = o.gen
           /\ ClearWaiter(o).type = o.type /\ ClearWaiter(o).owner = o.owner
           /\ ClearWaiter(o).value = o.value /\ ClearWaiter(o).lock = o.lock
           /\ ClearWaiter(o).data = o.data
<1>1. 0 \in 0..(TickMod - 1)
    BY Sizes
<1> QED BY <1>1 DEF ClearWaiter, Object

\* Who is not timed out by a tick has more time left than the tick takes.
LEMMA StillDue ==
    ASSUME Core, NEW step \in 1..MaxStep, NEW p, NEW s \in Slots, Due(p, s), p \in Procs
    PROVE  /\ s \notin Over(step) => due[p] > step
           /\ s \in Over(step) => due[p] <= step
           /\ due[p] > step => obj[s].deadline = (((ticks + step) % TickMod) + (due[p] - step)) % TickMod
           /\ (((ticks + step) % TickMod) - ticks) % TickMod = step
<1>1. ticks \in 0..(TickMod - 1) /\ due[p] \in 1..Half
    BY DEF Core, Types, Due
<1>2. obj[s].deadline = (ticks + due[p]) % TickMod /\ obj[s].waiter # NoProc
    BY Sizes DEF Due
<1>3. obj[s].serial # 0
    BY <1>2 DEF Core, Blank
<1>4. s \in Over(step) <=> Reached((ticks + step) % TickMod, (ticks + due[p]) % TickMod)
    BY <1>2, <1>3 DEF Over
<1> DEFINE d == due[p]
<1>5. d \in 1..Half
    BY <1>1
<1> HIDE DEF d
<1>6. /\ Reached((ticks + step) % TickMod, (ticks + d) % TickMod) <=> d <= step
      /\ (((ticks + step) % TickMod) - ticks) % TickMod = step
      /\ d > step => (ticks + d) % TickMod = (((ticks + step) % TickMod) + (d - step)) % TickMod
    BY <1>1, <1>5, DeadlineReached
<1>7. d \in Nat /\ step \in Nat
    BY <1>5, Sizes
<1> QED BY <1>2, <1>4, <1>6, <1>7 DEF d

LEMMA TickKeeps ==
    ASSUME Core, NEW step \in 1..MaxStep, Tick(step) PROVE Core'
<1> DEFINE S == Over(step)  P == TimedOut(step)  now == (ticks + step) % TickMod
<1>1. /\ ticks' = now /\ blocked' = blocked \ P /\ keys' = keys
      /\ obj' = [s \in Slots |-> IF s \in S THEN ClearWaiter(obj[s]) ELSE obj[s]]
      /\ res' = [p \in Procs |-> IF p \in P THEN "timeout" ELSE "none"]
      /\ due' = [p \in Procs |-> IF p \in blocked \ P THEN due[p] - step ELSE 0]
    BY TickIs DEF env
<1>2. \A s \in Slots : obj[s] \in Object
    BY DEF Core, Types
<1>3. \A s \in Slots : s \in S => obj'[s] = ClearWaiter(obj[s]) /\ obj[s].waiter \in P
    BY <1>1 DEF TimedOut
<1>4. \A s \in Slots : s \notin S => obj'[s] = obj[s]
    BY <1>1
<1>5. \A s \in Slots : s \in S => obj'[s] \in Object /\ obj'[s].waiter = NoProc
                                  /\ obj'[s].value = obj[s].value /\ obj'[s].type = obj[s].type
    BY <1>2, <1>3, ClearWaiterIs
<1>6. now \in 0..(TickMod - 1) /\ step \in Nat
    BY Sizes, ModRange DEF Core, Types
<1>7. ASSUME NEW p \in blocked, p \notin P
      PROVE  /\ p \in Procs /\ due[p] > step /\ due[p] \in 1..Half
             /\ \E s \in Slots : s \notin S /\ obj[s].waiter = p
                                 /\ obj[s].deadline = (now + (due[p] - step)) % TickMod
    <2>1. p \in Procs
        BY DEF Core, Types
    <2>2. PICK s \in Slots : Due(p, s)
        BY DEF Core, Timed
    <2>3. s \notin S
        BY <1>3, <1>7, <2>2 DEF Due
    <2>4. due[p] > step
        BY <2>1, <2>2, <2>3, StillDue
    <2>5. obj[s].deadline = (now + (due[p] - step)) % TickMod
        BY <2>1, <2>2, <2>4, StillDue
    <2> QED BY <2>1, <2>2, <2>3, <2>4, <2>5 DEF Due
<1>8. \A p \in blocked' : p \in blocked /\ p \notin P /\ due'[p] = due[p] - step
    BY <1>1, <1>7
<1> HIDE DEF S, P, now
<1>9. Types'
    <2>1. obj' \in [Slots -> Object]
        BY <1>1, <1>2, <1>4, <1>5
    <2>2. due' \in [Procs -> Nat]
        <3>1. \A p \in Procs : (IF p \in blocked \ P THEN due[p] - step ELSE 0) \in Nat
            BY <1>6, <1>7
        <3> QED BY <1>1, <3>1
    <2>3. res' \in [Procs -> Results]
        BY <1>1 DEF Results
    <2> QED BY <1>1, <1>6, <2>1, <2>2, <2>3 DEF Core, Types
<1>10. Blank' /\ Values'
    BY <1>4, <1>5 DEF Blank, Values, Core
<1>11. Timed'
    <2> SUFFICES ASSUME NEW p \in blocked' PROVE \E s \in Slots : Due(p, s)'
        BY DEF Timed
    <2>1. p \in blocked /\ p \notin P /\ due'[p] = due[p] - step
        BY <1>8
    <2>2. due[p] > step /\ due[p] \in 1..Half
        BY <1>7, <2>1
    <2>3. PICK s \in Slots : s \notin S /\ obj[s].waiter = p
                                 /\ obj[s].deadline = (now + (due[p] - step)) % TickMod
        BY <1>7, <2>1
    <2>4. due[p] - step \in 1..Half
        BY <2>2, <1>6, Sizes
    <2> QED BY <1>1, <1>4, <2>1, <2>3, <2>4 DEF Due
<1>12. Alone'
    <2> SUFFICES ASSUME ~keys PROVE Alone'
        BY <1>1 DEF Alone
    <2>1. \A s \in Slots : obj'[s].waiter # NoProc => s \notin S /\ obj'[s] = obj[s]
        BY <1>4, <1>5
    <2>2. \A s, r \in Slots : obj[s].waiter = obj[r].waiter /\ obj[s].waiter # NoProc => s = r
        BY DEF Alone, Core
    <2>3. ASSUME NEW s \in Slots, obj'[s].waiter # NoProc PROVE obj'[s].waiter \in blocked'
        <3>1. obj[s].waiter \in blocked /\ s \notin S /\ obj'[s].waiter = obj[s].waiter
              /\ obj[s].waiter # NoProc
            BY <2>1, <2>3 DEF Alone, Core
        <3>2. obj[s].waiter \notin P
            <4> SUFFICES ASSUME obj[s].waiter \in P PROVE FALSE
                OBVIOUS
            <4>1. PICK r \in Slots : r \in S /\ obj[r].waiter = obj[s].waiter
                BY DEF P, S, TimedOut, Over
            <4> QED BY <2>2, <3>1, <4>1
        <3> QED BY <1>1, <3>1, <3>2
    <2>4. \A s, r \in Slots : obj'[s].waiter = obj'[r].waiter /\ obj'[s].waiter # NoProc => s = r
        BY <2>1, <2>2
    <2> QED BY <2>3, <2>4 DEF Alone
<1>13. NoLostWakeup'
    BY <1>4, <1>5 DEF NoLostWakeup, Core
<1> QED BY <1>9, <1>10, <1>11, <1>12, <1>13 DEF Core

LEMMA KeyKeeps == ASSUME Core, KeyWake PROVE Core'
<1>1. /\ keys /\ keys' = keys /\ ticks' = ticks /\ obj' = obj /\ blocked' = blocked \ {Shell}
      /\ res' = [p \in Procs |-> IF p \in {Shell} THEN "key" ELSE "none"]
      /\ due' = [p \in Procs |-> IF p \in {Shell} THEN 0 ELSE due[p]]
    BY DEF KeyWake, Wake, env
<1>2. Types'
    <2>1. res' \in [Procs -> Results]
        BY <1>1 DEF Results
    <2>2. due' \in [Procs -> Nat]
        BY <1>1 DEF Core, Types
    <2> QED BY <1>1, <2>1, <2>2 DEF Core, Types
<1>3. Timed'
    <2> SUFFICES ASSUME NEW p \in blocked' PROVE \E s \in Slots : Due(p, s)'
        BY DEF Timed
    <2>1. p \in blocked /\ due'[p] = due[p]
        BY <1>1 DEF Core, Types
    <2> QED BY <1>1, <2>1 DEF Core, Timed, Due
<1> QED BY <1>1, <1>2, <1>3 DEF Core, Blank, Values, Alone, NoLostWakeup

-----------------------------------------------------------------------------
(* The calls by their kinds.                                               *)

LEMMA NamedIn ==
    ASSUME Core, NEW k, NEW s \in Slots, FromHandle(issued[k], s)
    PROVE  obj[s] \in Object /\ obj[s].serial # 0
BY DEF Core, Types, FromHandle

\* What a call through a handle leaves of an object.
SameName(o, q) == q.serial = o.serial /\ q.gen = o.gen /\ q.type = o.type /\ q.owner = o.owner
SameLock(o, q) == SameName(o, q) /\ q.lock = o.lock

\* The waiter of a queue, a semaphore or an event gets what is put.
Passed(s, q) ==
    /\ Serving(s, q) /\ SameLock(obj[s], q) /\ q.value = obj[s].value /\ q.data = obj[s].data
\* Only the data, only the value or only the lock of an object changes.
NewData(s, q, data) ==
    /\ Quietly(s, q) /\ SameLock(obj[s], q) /\ q.value = obj[s].value /\ q.data = data
    /\ obj[s].type = "queue"
NewValue(s, q, value) ==
    /\ Quietly(s, q) /\ SameLock(obj[s], q) /\ q.value = value /\ q.data = obj[s].data
    /\ obj[s].type \in {"sem", "event"}
NewLock(s, q, lock) ==
    /\ Put(s, q) /\ SameName(obj[s], q) /\ q.value = obj[s].value /\ q.data = obj[s].data
    /\ q.lock = lock /\ obj[s].type = "mutex"

DidSendByte(s, q, k) ==
    \/ Passed(s, q) /\ obj[s].type = "queue" /\ ins' = Plus1(ins, k) /\ outs' = Plus1(outs, k)
    \/ /\ NewData(s, q, Append(obj[s].data, ins[k])) /\ obj[s].waiter = NoProc
       /\ Len(obj[s].data) < Cap /\ ins' = Plus1(ins, k) /\ UNCHANGED outs
DidSetEvent(s, q) ==
    /\ obj[s].type = "event" /\ UNCHANGED <<ins, outs>>
    /\ Passed(s, q) \/ (NewValue(s, q, 1) /\ obj[s].waiter = NoProc)
DidReceive(s, q, k) ==
    /\ obj[s].waiter = NoProc /\ UNCHANGED ins
    /\ \/ NewData(s, q, Tail(obj[s].data)) /\ obj[s].data # <<>> /\ outs' = Plus1(outs, k)
       \/ NewValue(s, q, 0) /\ obj[s].type = "event" /\ obj[s].value = 1 /\ UNCHANGED outs
DidSemWait(s, q, k) ==
    /\ NewValue(s, q, obj[s].value - 1) /\ obj[s].type = "sem" /\ obj[s].value > 0
    /\ obj[s].waiter = NoProc /\ UNCHANGED ins /\ outs' = Plus1(outs, k)
DidSemPost(s, q, k) ==
    /\ obj[s].type = "sem" /\ ins' = Plus1(ins, k)
    /\ \/ Passed(s, q) /\ outs' = Plus1(outs, k)
       \/ /\ NewValue(s, q, obj[s].value + 1) /\ obj[s].waiter = NoProc
          /\ obj[s].value < MaxValue /\ UNCHANGED outs
DidLock(s, q, p, k) ==
    /\ NewLock(s, q, p) /\ Quietly(s, q) /\ obj[s].lock \in {NoProc, p}
    /\ holds' = [holds EXCEPT ![p] = @ \union {k}] /\ UNCHANGED <<ins, outs>>
DidUnlock(s, q, p, k) ==
    /\ obj[s].lock = p /\ UNCHANGED <<ins, outs>>
    /\ \/ /\ NewLock(s, q, obj[s].waiter) /\ Serving(s, q)
          /\ holds' = [Unheld(k) EXCEPT ![obj[s].waiter] =
                          IF obj[s].waiter \in blocked THEN @ \union {k} ELSE @]
       \/ /\ NewLock(s, q, NoProc) /\ Quietly(s, q) /\ obj[s].waiter = NoProc
          /\ holds' = Unheld(k)

\* The record updates, once and for all.
WithData(o, data) == [o EXCEPT !.data = data]
WithValue(o, value) == [o EXCEPT !.value = value]
WithLock(o, lock) == [o EXCEPT !.lock = lock]

LEMMA WithIs ==
    ASSUME NEW o \in Object, NEW data \in Seq(Nat), NEW value \in Int
    PROVE  /\ WithData(o, data) \in Object /\ SameLock(o, WithData(o, data))
           /\ WithData(o, data).data = data /\ WithData(o, data).value = o.value
           /\ WithData(o, data).waiter = o.waiter /\ WithData(o, data).deadline = o.deadline
           /\ WithValue(o, value) \in Object /\ SameLock(o, WithValue(o, value))
           /\ WithValue(o, value).data = o.data /\ WithValue(o, value).value = value
           /\ WithValue(o, value).waiter = o.waiter /\ WithValue(o, value).deadline = o.deadline
<1>1. WithData(o, data) \in Object /\ WithValue(o, value) \in Object
    BY DEF WithData, WithValue, Object
<1>2. /\ SameLock(o, WithData(o, data))
      /\ WithData(o, data).data = data /\ WithData(o, data).value = o.value
      /\ WithData(o, data).waiter = o.waiter /\ WithData(o, data).deadline = o.deadline
    BY DEF WithData, SameLock, SameName, Object
<1>3. /\ SameLock(o, WithValue(o, value))
      /\ WithValue(o, value).data = o.data /\ WithValue(o, value).value = value
      /\ WithValue(o, value).waiter = o.waiter /\ WithValue(o, value).deadline = o.deadline
    BY DEF WithValue, SameLock, SameName, Object
<1> QED BY <1>1, <1>2, <1>3

LEMMA WithLockIs ==
    ASSUME NEW o \in Object, NEW lock \in Procs \union {NoProc}
    PROVE  /\ WithLock(o, lock) \in Object /\ SameName(o, WithLock(o, lock))
           /\ WithLock(o, lock).data = o.data /\ WithLock(o, lock).value = o.value
           /\ WithLock(o, lock).lock = lock
           /\ WithLock(o, lock).waiter = o.waiter /\ WithLock(o, lock).deadline = o.deadline
<1>1. WithLock(o, lock) \in Object
    BY DEF WithLock, Object
<1>4. /\ SameName(o, WithLock(o, lock))
      /\ WithLock(o, lock).data = o.data /\ WithLock(o, lock).value = o.value
      /\ WithLock(o, lock).lock = lock
      /\ WithLock(o, lock).waiter = o.waiter /\ WithLock(o, lock).deadline = o.deadline
    BY DEF WithLock, SameName, Object
<1> QED BY <1>1, <1>4

LEMMA PassedIs ==
    ASSUME Core, NEW s \in Slots, obj[s].serial # 0, obj[s].waiter # NoProc,
           obj' = [obj EXCEPT ![s] = ClearWaiter(obj[s])], Wake({obj[s].waiter}, "ok"),
           UNCHANGED <<ticks, env>>
    PROVE  Passed(s, ClearWaiter(obj[s]))
<1> DEFINE q == ClearWaiter(obj[s])
<1>1. /\ q \in Object /\ q.waiter = NoProc
      /\ q.serial = obj[s].serial /\ q.gen = obj[s].gen /\ q.type = obj[s].type
      /\ q.owner = obj[s].owner /\ q.value = obj[s].value /\ q.lock = obj[s].lock
      /\ q.data = obj[s].data
    BY ClearWaiterIs DEF Core, Types
<1>2. obj' = [obj EXCEPT ![s] = q]
    OBVIOUS
<1>3. q.value \in Nat /\ (q.type = "event" => q.value <= 1)
    BY <1>1 DEF Core, Values
<1> HIDE DEF q
<1>4. Passed(s, q)
    BY <1>1, <1>2, <1>3 DEF Passed, Serving, Put, SameLock, SameName
<1> QED BY <1>4 DEF q

LEMMA NewDataIs ==
    ASSUME Core, NEW s \in Slots, obj[s].serial # 0, obj[s].waiter = NoProc, obj[s].type = "queue",
           NEW data \in Seq(Nat), obj' = [obj EXCEPT ![s] = WithData(obj[s], data)],
           NoWake, UNCHANGED <<ticks, env>>
    PROVE  NewData(s, WithData(obj[s], data), data)
<1>1. obj[s] \in Object /\ obj[s].value \in Nat /\ (obj[s].type = "event" => obj[s].value <= 1)
      /\ 0 \in Int
    BY DEF Core, Types, Values
<1> DEFINE q == WithData(obj[s], data)
<1>2. /\ q \in Object /\ SameLock(obj[s], q)
      /\ q.data = data /\ q.value = obj[s].value
      /\ q.waiter = obj[s].waiter /\ q.deadline = obj[s].deadline
    BY <1>1, WithIs
<1>3. obj' = [obj EXCEPT ![s] = q]
    OBVIOUS
<1> HIDE DEF q
<1>4. NewData(s, q, data)
    BY <1>1, <1>2, <1>3 DEF NewData, Quietly, Put, SameLock, SameName
<1> QED BY <1>4 DEF q

LEMMA NewValueIs ==
    ASSUME Core, NEW s \in Slots, obj[s].serial # 0, obj[s].waiter = NoProc,
           obj[s].type \in {"sem", "event"},
           NEW value \in Nat, obj[s].type = "event" => value <= 1,
           obj' = [obj EXCEPT ![s] = WithValue(obj[s], value)],
           NoWake, UNCHANGED <<ticks, env>>
    PROVE  NewValue(s, WithValue(obj[s], value), value)
<1>1. obj[s] \in Object /\ <<>> \in Seq(Nat) /\ value \in Int
    BY DEF Core, Types
<1> DEFINE q == WithValue(obj[s], value)
<1>2. /\ q \in Object /\ SameLock(obj[s], q)
      /\ q.data = obj[s].data /\ q.value = value
      /\ q.waiter = obj[s].waiter /\ q.deadline = obj[s].deadline
    BY <1>1, WithIs
<1>3. obj' = [obj EXCEPT ![s] = q]
    OBVIOUS
<1> HIDE DEF q
<1>4. NewValue(s, q, value)
    BY <1>2, <1>3 DEF NewValue, Quietly, Put, SameLock, SameName
<1> QED BY <1>4 DEF q

LEMMA IssuedSerials ==
    ASSUME Others PROVE DOMAIN issued = 1..Len(issued) /\ DOMAIN issued \subseteq Serials
                        /\ Len(issued) \in Nat
BY Sizes DEF Others, Serials

LEMMA SendIs ==
    ASSUME Core, Others, NEW p, NEW k, Send(p, k)
    PROVE  /\ \E s \in Slots, q \in Object :
                FromHandle(issued[k], s) /\ (DidSendByte(s, q, k) \/ DidSetEvent(s, q))
           /\ Runs(p) /\ k \in DOMAIN issued /\ UNCHANGED <<life, issued, holds>>
<1>1. PICK s \in Slots : FromHandle(issued[k], s) /\ (SendByte(s, k) \/ SetEvent(s))
    BY DEF Send
<1>2. Runs(p) /\ k \in DOMAIN issued /\ UNCHANGED <<life, ticks, env, issued, holds>>
    BY DEF Send
<1>3. obj[s].serial # 0 /\ obj[s] \in Object
    BY <1>1, NamedIn
<1>4. k \in Serials
    BY <1>2, IssuedSerials
<1>5. ASSUME SendByte(s, k) PROVE \E q \in Object : DidSendByte(s, q, k)
    <2>1. CASE obj[s].waiter # NoProc
        <3>1. /\ obj' = [obj EXCEPT ![s] = ClearWaiter(obj[s])] /\ Wake({obj[s].waiter}, "ok")
              /\ ins' = Plus1(ins, k) /\ outs' = Plus1(outs, k) /\ obj[s].type = "queue"
            BY <1>5, <2>1 DEF SendByte
        <3>2. Passed(s, ClearWaiter(obj[s]))
            BY <1>2, <1>3, <2>1, <3>1, PassedIs
        <3>3. ClearWaiter(obj[s]) \in Object
            BY <1>3, ClearWaiterIs
        <3> QED BY <3>1, <3>2, <3>3 DEF DidSendByte
    <2>2. CASE obj[s].waiter = NoProc
        <3> DEFINE data == Append(obj[s].data, ins[k])
        <3>1. /\ obj' = [obj EXCEPT ![s].data = Append(@, ins[k])] /\ NoWake
              /\ Len(obj[s].data) < Cap
              /\ ins' = Plus1(ins, k) /\ UNCHANGED outs /\ obj[s].type = "queue"
            BY <1>5, <2>2 DEF SendByte
        <3>2. data \in Seq(Nat)
            BY <1>3, <1>4, Sizes DEF Others, Object
        <3>3. obj' = [obj EXCEPT ![s] = WithData(obj[s], data)]
            BY <3>1 DEF WithData
        <3>4. WithData(obj[s], data) \in Object
            BY <1>3, <3>2 DEF WithData, Object
        <3> HIDE DEF data
        <3>5. NewData(s, WithData(obj[s], data), data)
            BY <1>2, <1>3, <2>2, <3>1, <3>2, <3>3, NewDataIs
        <3> QED BY <2>2, <3>1, <3>4, <3>5 DEF DidSendByte, data
    <2> QED BY <2>1, <2>2
<1>6. ASSUME SetEvent(s) PROVE \E q \in Object : DidSetEvent(s, q)
    <2>0. obj[s].type = "event" /\ UNCHANGED <<ins, outs>>
        BY <1>6 DEF SetEvent
    <2>1. CASE obj[s].waiter # NoProc
        <3>1. obj' = [obj EXCEPT ![s] = ClearWaiter(obj[s])] /\ Wake({obj[s].waiter}, "ok")
            BY <1>6, <2>1 DEF SetEvent
        <3>2. Passed(s, ClearWaiter(obj[s]))
            BY <1>2, <1>3, <2>1, <3>1, PassedIs
        <3>3. ClearWaiter(obj[s]) \in Object
            BY <1>3, ClearWaiterIs
        <3>4. DidSetEvent(s, ClearWaiter(obj[s]))
            BY <2>0, <3>2 DEF DidSetEvent
        <3> QED BY <3>3, <3>4
    <2>2. CASE obj[s].waiter = NoProc
        <3>1. obj' = [obj EXCEPT ![s].value = 1] /\ NoWake
            BY <1>6, <2>2 DEF SetEvent
        <3>3. obj' = [obj EXCEPT ![s] = WithValue(obj[s], 1)]
            BY <3>1 DEF WithValue
        <3>4. WithValue(obj[s], 1) \in Object
            BY <1>3 DEF WithValue, Object
        <3> DEFINE one == 1
        <3>5. one \in Nat /\ one <= 1 /\ obj[s].type \in {"sem", "event"}
              /\ obj' = [obj EXCEPT ![s] = WithValue(obj[s], one)]
            BY <2>0, <3>3
        <3> HIDE DEF one
        <3>6. NewValue(s, WithValue(obj[s], one), one)
            BY <1>2, <1>3, <2>2, <3>1, <3>5, NewValueIs
        <3>7. DidSetEvent(s, WithValue(obj[s], 1))
            BY <2>0, <2>2, <3>6 DEF DidSetEvent, one
        <3> QED BY <3>4, <3>7
    <2> QED BY <2>1, <2>2
<1> QED BY <1>1, <1>2, <1>5, <1>6

LEMMA ReceiveIs ==
    ASSUME Core, Others, NEW p, NEW k, Receive(p, k)
    PROVE  /\ \E s \in Slots, q \in Object : FromHandle(issued[k], s) /\ DidReceive(s, q, k)
           /\ Runs(p) /\ k \in DOMAIN issued /\ UNCHANGED <<life, issued, holds>>
<1>1. PICK s \in Slots :
        /\ FromHandle(issued[k], s)
        /\ \/ /\ obj[s].type = "queue" /\ obj[s].data # <<>>
              /\ obj' = [obj EXCEPT ![s].data = Tail(@)]
              /\ outs' = Plus1(outs, k)
           \/ /\ obj[s].type = "event" /\ obj[s].value > 0
              /\ obj' = [obj EXCEPT ![s].value = 0]
              /\ UNCHANGED outs
    BY DEF Receive
<1>2. Runs(p) /\ k \in DOMAIN issued /\ UNCHANGED <<life, ticks, env, issued, holds, ins>> /\ NoWake
    BY DEF Receive
<1>3. obj[s].serial # 0 /\ obj[s] \in Object
    BY <1>1, NamedIn
<1>4. obj[s].waiter = NoProc
    BY <1>1 DEF Core, NoLostWakeup, Unavailable, Values
<1>5. CASE /\ obj[s].type = "queue" /\ obj[s].data # <<>>
           /\ obj' = [obj EXCEPT ![s].data = Tail(@)]
           /\ outs' = Plus1(outs, k)
    <2> DEFINE data == Tail(obj[s].data)
    <2>1. data \in Seq(Nat)
        BY <1>3, <1>5 DEF Object
    <2>2. obj' = [obj EXCEPT ![s] = WithData(obj[s], data)]
        BY <1>5 DEF WithData
    <2>3. WithData(obj[s], data) \in Object
        BY <1>3, <2>1 DEF WithData, Object
    <2> HIDE DEF data
    <2>4. NewData(s, WithData(obj[s], data), data)
        BY <1>2, <1>3, <1>4, <1>5, <2>1, <2>2, NewDataIs
    <2>5. DidReceive(s, WithData(obj[s], data), k)
        BY <1>2, <1>4, <1>5, <2>4 DEF DidReceive, data
    <2> QED BY <1>1, <1>2, <2>3, <2>5
<1>6. CASE /\ obj[s].type = "event" /\ obj[s].value > 0
           /\ obj' = [obj EXCEPT ![s].value = 0]
           /\ UNCHANGED outs
    <2>1. obj[s].value = 1
        BY <1>6 DEF Core, Values
    <2>2. obj' = [obj EXCEPT ![s] = WithValue(obj[s], 0)]
        BY <1>6 DEF WithValue
    <2>3. WithValue(obj[s], 0) \in Object
        BY <1>3 DEF WithValue, Object
    <2> DEFINE none == 0
    <2>6. obj[s].type \in {"sem", "event"}
        BY <1>6
    <2>7. obj' = [obj EXCEPT ![s] = WithValue(obj[s], none)]
        BY <2>2
    <2>9. none \in Nat /\ none <= 1
        OBVIOUS
    <2> HIDE DEF none
    <2>8. NewValue(s, WithValue(obj[s], none), none)
        BY <1>2, <1>3, <1>4, <2>6, <2>7, <2>9, NewValueIs
    <2>4. NewValue(s, WithValue(obj[s], 0), 0)
        BY <2>8 DEF none
    <2>5. DidReceive(s, WithValue(obj[s], 0), k)
        BY <1>2, <1>4, <1>6, <2>1, <2>4 DEF DidReceive
    <2> QED BY <1>1, <1>2, <2>3, <2>5
<1> QED BY <1>1, <1>5, <1>6

LEMMA SemWaitIs ==
    ASSUME Core, Others, NEW p, NEW k, SemWait(p, k)
    PROVE  /\ \E s \in Slots, q \in Object : FromHandle(issued[k], s) /\ DidSemWait(s, q, k)
           /\ Runs(p) /\ k \in DOMAIN issued /\ UNCHANGED <<life, issued, holds>>
<1>1. PICK s \in Slots :
        /\ FromHandle(issued[k], s) /\ obj[s].type = "sem" /\ obj[s].value > 0
        /\ obj' = [obj EXCEPT ![s].value = @ - 1]
    BY DEF SemWait
<1>2. /\ Runs(p) /\ k \in DOMAIN issued /\ UNCHANGED <<life, ticks, env, issued, holds, ins>> /\ NoWake
      /\ outs' = Plus1(outs, k)
    BY DEF SemWait
<1>3. obj[s].serial # 0 /\ obj[s] \in Object
    BY <1>1, NamedIn
<1>4. obj[s].waiter = NoProc
    BY <1>1 DEF Core, NoLostWakeup, Unavailable, Values
<1> DEFINE value == obj[s].value - 1
<1>5. value \in Nat /\ value \in Int
    BY <1>1 DEF Core, Values
<1>6. obj' = [obj EXCEPT ![s] = WithValue(obj[s], value)]
    BY <1>1 DEF WithValue
<1>7. WithValue(obj[s], value) \in Object
    BY <1>3, <1>5 DEF WithValue, Object
<1> HIDE DEF value
<1>8. NewValue(s, WithValue(obj[s], value), value)
    BY <1>1, <1>2, <1>3, <1>4, <1>5, <1>6, NewValueIs
<1>9. DidSemWait(s, WithValue(obj[s], value), k)
    BY <1>1, <1>2, <1>4, <1>8 DEF DidSemWait, value
<1> QED BY <1>1, <1>2, <1>7, <1>9

LEMMA SemPostIs ==
    ASSUME Core, Others, NEW p, NEW k, SemPost(p, k)
    PROVE  /\ \E s \in Slots, q \in Object : FromHandle(issued[k], s) /\ DidSemPost(s, q, k)
           /\ Runs(p) /\ k \in DOMAIN issued /\ UNCHANGED <<life, issued, holds>>
<1>1. PICK s \in Slots :
        /\ FromHandle(issued[k], s) /\ obj[s].type = "sem"
        /\ \/ /\ obj[s].waiter # NoProc
              /\ obj' = [obj EXCEPT ![s] = ClearWaiter(@)]
              /\ Wake({obj[s].waiter}, "ok")
              /\ outs' = Plus1(outs, k)
           \/ /\ obj[s].waiter = NoProc /\ obj[s].value < MaxValue
              /\ obj' = [obj EXCEPT ![s].value = @ + 1]
              /\ NoWake /\ UNCHANGED outs
    BY DEF SemPost
<1>2. /\ Runs(p) /\ k \in DOMAIN issued /\ UNCHANGED <<life, ticks, env, issued, holds>>
      /\ ins' = Plus1(ins, k)
    BY DEF SemPost
<1>3. obj[s].serial # 0 /\ obj[s] \in Object
    BY <1>1, NamedIn
<1>4. CASE obj[s].waiter # NoProc
    <2>1. /\ obj' = [obj EXCEPT ![s] = ClearWaiter(obj[s])] /\ Wake({obj[s].waiter}, "ok")
          /\ outs' = Plus1(outs, k)
        BY <1>1, <1>4
    <2>2. Passed(s, ClearWaiter(obj[s]))
        BY <1>2, <1>3, <1>4, <2>1, PassedIs
    <2>3. ClearWaiter(obj[s]) \in Object
        BY <1>3, ClearWaiterIs
    <2>4. DidSemPost(s, ClearWaiter(obj[s]), k)
        BY <1>1, <1>2, <2>1, <2>2 DEF DidSemPost
    <2> QED BY <1>1, <1>2, <2>3, <2>4
<1>5. CASE obj[s].waiter = NoProc
    <2> DEFINE value == obj[s].value + 1
    <2>1. value \in Nat /\ value \in Int
        BY DEF Core, Values
    <2>2. /\ obj' = [obj EXCEPT ![s].value = @ + 1] /\ NoWake /\ UNCHANGED outs
          /\ obj[s].value < MaxValue
        BY <1>1, <1>5
    <2>3. obj' = [obj EXCEPT ![s] = WithValue(obj[s], value)]
        BY <2>2 DEF WithValue
    <2>4. WithValue(obj[s], value) \in Object
        BY <1>3, <2>1 DEF WithValue, Object
    <2> HIDE DEF value
    <2>5. NewValue(s, WithValue(obj[s], value), value)
        BY <1>1, <1>2, <1>3, <1>5, <2>1, <2>2, <2>3, NewValueIs
    <2>6. DidSemPost(s, WithValue(obj[s], value), k)
        BY <1>1, <1>2, <1>5, <2>2, <2>5 DEF DidSemPost, value
    <2> QED BY <1>1, <1>2, <2>4, <2>6
<1> QED BY <1>4, <1>5

LEMMA MutexLockIs ==
    ASSUME Core, Others, NEW p \in Procs, NEW k, MutexLock(p, k)
    PROVE  /\ \E s \in Slots, q \in Object : FromHandle(issued[k], s) /\ DidLock(s, q, p, k)
           /\ Runs(p) /\ k \in DOMAIN issued /\ UNCHANGED <<life, issued>>
<1>1. PICK s \in Slots :
        /\ FromHandle(issued[k], s) /\ obj[s].type = "mutex"
        /\ obj[s].lock \in {NoProc, p}
        /\ obj' = [obj EXCEPT ![s].lock = p]
    BY DEF MutexLock
<1>2. /\ Runs(p) /\ k \in DOMAIN issued /\ UNCHANGED <<life, ticks, env, issued, ins, outs>> /\ NoWake
      /\ holds' = [holds EXCEPT ![p] = @ \union {k}]
    BY DEF MutexLock
<1>3. obj[s].serial # 0 /\ obj[s] \in Object /\ obj[s].value \in Nat
    BY <1>1, NamedIn DEF Core, Values
<1> DEFINE q == WithLock(obj[s], p)
<1>4. obj' = [obj EXCEPT ![s] = q]
    BY <1>1 DEF WithLock
<1>5. /\ q \in Object /\ SameName(obj[s], q) /\ q.data = obj[s].data /\ q.value = obj[s].value
      /\ q.lock = p /\ q.waiter = obj[s].waiter /\ q.deadline = obj[s].deadline
    <2>1. p \in Procs \union {NoProc}
        OBVIOUS
    <2> QED BY <1>3, <2>1, WithLockIs
<1> HIDE DEF q
<1>6. q.waiter # NoProc => Unavailable(q, q.waiter)
    <2> SUFFICES ASSUME q.waiter # NoProc PROVE Unavailable(q, q.waiter)
        OBVIOUS
    <2>1. Unavailable(obj[s], obj[s].waiter)
        BY <1>5 DEF Core, NoLostWakeup
    <2>2. obj[s].lock = p /\ p # NoProc
        BY <1>1, <2>1, Sizes DEF Unavailable
    <2> QED BY <1>1, <1>5, <2>1, <2>2 DEF Unavailable, SameName
<1>7. q.type = "mutex" /\ q.serial # 0
    BY <1>1, <1>3, <1>5 DEF SameName
<1>8. Put(s, q)
    BY <1>3, <1>4, <1>5, <1>7 DEF Put
<1>9. NewLock(s, q, p) /\ Quietly(s, q)
    BY <1>1, <1>2, <1>5, <1>6, <1>8 DEF NewLock, Quietly
<1>10. DidLock(s, q, p, k)
    BY <1>1, <1>2, <1>9 DEF DidLock
<1> QED BY <1>1, <1>2, <1>5, <1>10

LEMMA MutexUnlockIs ==
    ASSUME Core, Others, NEW p \in Procs, NEW k, MutexUnlock(p, k)
    PROVE  /\ \E s \in Slots, q \in Object :
                FromHandle(issued[k], s) /\ obj[s].type = "mutex" /\ DidUnlock(s, q, p, k)
           /\ Runs(p) /\ k \in DOMAIN issued /\ UNCHANGED <<life, issued>>
<1>1. PICK s \in Slots :
        /\ FromHandle(issued[k], s) /\ obj[s].type = "mutex" /\ obj[s].lock = p
        /\ LET w == obj[s].waiter IN
           IF w # NoProc
           THEN /\ obj' = [obj EXCEPT ![s] = [ClearWaiter(@) EXCEPT !.lock = w]]
                /\ Wake({w}, "ok")
                /\ holds' = [Unheld(k) EXCEPT ![w] = IF w \in blocked THEN @ \union {k} ELSE @]
           ELSE /\ obj' = [obj EXCEPT ![s].lock = NoProc]
                /\ NoWake /\ holds' = Unheld(k)
    BY DEF MutexUnlock
<1>2. Runs(p) /\ k \in DOMAIN issued /\ UNCHANGED <<life, ticks, env, issued, ins, outs>>
    BY DEF MutexUnlock
<1>3. obj[s].serial # 0 /\ obj[s] \in Object /\ obj[s].value \in Nat
      /\ obj[s].data \in Seq(Nat) /\ obj[s].value \in Int /\ obj[s].waiter \in Procs \union {NoProc}
    BY <1>1, NamedIn DEF Core, Values, Object
<1>4. CASE obj[s].waiter # NoProc
    <2> DEFINE w == obj[s].waiter  c == ClearWaiter(obj[s])  q == WithLock(c, w)
    <2>1. /\ obj' = [obj EXCEPT ![s] = q] /\ Wake({w}, "ok")
          /\ holds' = [Unheld(k) EXCEPT ![w] = IF w \in blocked THEN @ \union {k} ELSE @]
        BY <1>1, <1>4 DEF WithLock
    <2>2. /\ c \in Object /\ c.waiter = NoProc /\ SameName(obj[s], c) /\ c.value = obj[s].value
          /\ c.data = obj[s].data
        BY <1>3, ClearWaiterIs DEF SameName
    <2> HIDE DEF c
    <2>3. /\ q \in Object /\ SameName(c, q) /\ q.data = c.data /\ q.value = c.value
          /\ q.lock = w /\ q.waiter = c.waiter
        <3>1. w \in Procs \union {NoProc}
            BY <1>3
        <3> QED BY <2>2, <3>1, WithLockIs
    <2> HIDE DEF q
    <2>4. q.type = "mutex" /\ q.serial # 0 /\ SameName(obj[s], q)
        BY <1>1, <1>3, <2>2, <2>3 DEF SameName
    <2>5. Put(s, q)
        BY <1>3, <2>1, <2>2, <2>3, <2>4 DEF Put
    <2>6. NewLock(s, q, w) /\ Serving(s, q)
        BY <1>1, <1>2, <1>4, <2>1, <2>2, <2>3, <2>4, <2>5 DEF NewLock, Serving
    <2>7. DidUnlock(s, q, p, k)
        BY <1>1, <1>2, <2>1, <2>6 DEF DidUnlock
    <2> QED BY <1>1, <1>2, <2>3, <2>7
<1>5. CASE obj[s].waiter = NoProc
    <2> DEFINE q == WithLock(obj[s], NoProc)
    <2>1. obj' = [obj EXCEPT ![s] = q] /\ NoWake /\ holds' = Unheld(k)
        BY <1>1, <1>5 DEF WithLock
    <2>2. /\ q \in Object /\ SameName(obj[s], q) /\ q.data = obj[s].data /\ q.value = obj[s].value
          /\ q.lock = NoProc /\ q.waiter = obj[s].waiter /\ q.deadline = obj[s].deadline
        <3>1. NoProc \in Procs \union {NoProc}
            OBVIOUS
        <3> QED BY <1>3, <3>1, WithLockIs
    <2> HIDE DEF q
    <2>3. q.type = "mutex" /\ q.serial # 0
        BY <1>1, <1>3, <2>2 DEF SameName
    <2>4. Put(s, q)
        BY <1>3, <2>1, <2>2, <2>3 DEF Put
    <2>5. NewLock(s, q, NoProc) /\ Quietly(s, q)
        BY <1>1, <1>2, <1>5, <2>1, <2>2, <2>4 DEF NewLock, Quietly
    <2>6. DidUnlock(s, q, p, k)
        BY <1>1, <1>2, <1>5, <2>1, <2>5 DEF DidUnlock
    <2> QED BY <1>1, <1>2, <2>2, <2>6
<1> QED BY <1>4, <1>5

LEMMA WaitIs ==
    ASSUME Core, Others, NEW p \in Procs, NEW k, NEW timeout \in Timeouts, Wait(p, k, timeout)
    PROVE  /\ \E s \in Slots : FromHandle(issued[k], s) /\ Blocking(p, s, timeout)
           /\ Runs(p) /\ k \in DOMAIN issued /\ UNCHANGED life /\ UNCHANGED ghosts
<1>1. PICK s \in Slots :
        /\ FromHandle(issued[k], s)
        /\ Unavailable(obj[s], p) /\ obj[s].waiter = NoProc
        /\ obj' = [obj EXCEPT ![s].waiter = p,
                              ![s].deadline = (ticks + timeout) % TickMod]
    BY DEF Wait
<1>2. /\ Runs(p) /\ k \in DOMAIN issued /\ UNCHANGED <<life, ticks, env>> /\ UNCHANGED ghosts
      /\ blocked' = blocked \union {p}
      /\ res' = [q \in Procs |-> "none"]
      /\ due' = [due EXCEPT ![p] = timeout]
    BY DEF Wait
<1>3. obj[s].serial # 0 /\ p \notin blocked
    BY <1>1, <1>2 DEF FromHandle, Runs
<1>4. Blocking(p, s, timeout)
    BY <1>1, <1>2, <1>3 DEF Blocking
<1> QED BY <1>1, <1>2, <1>4

DidCreate(s, q, initial) ==
    /\ obj[s].serial = 0 /\ Quietly(s, q) /\ q.waiter = NoProc
    /\ q.serial = Len(issued) + 1 /\ q.serial \in Serials /\ q.gen = NextGen(obj[s].gen)
    /\ q.type = plan[q.serial] /\ q.type \in {"queue", "sem", "mutex", "event"}
    /\ q.value = initial /\ initial \in {0, 1}
    /\ initial = 0 \/ q.type \in {"sem", "event"}
    /\ q.lock = NoProc /\ q.data = <<>>
    /\ issued' = Append(issued, Handle(s, q)) /\ ins' = [ins EXCEPT ![q.serial] = initial]
    /\ UNCHANGED <<life, holds, outs>>

\* A new object.
NewObject(gen, k, type, p, initial) ==
    [Zero(gen) EXCEPT !.serial = k, !.type = type, !.owner = p, !.value = initial]

LEMMA NewObjectIs ==
    ASSUME NEW gen \in 0..(GenMod - 1), NEW k \in Serials,
           NEW type \in {"queue", "sem", "mutex", "event"}, NEW p \in Procs, NEW initial \in {0, 1}
    PROVE  LET q == NewObject(gen, k, type, p, initial) IN
           /\ q \in Object /\ q.serial = k /\ q.gen = gen /\ q.type = type /\ q.value = initial
           /\ q.lock = NoProc /\ q.data = <<>> /\ q.waiter = NoProc
<1> DEFINE z == Zero(gen)
<1>1. /\ z \in Object /\ z.waiter = NoProc /\ z.gen = gen /\ z.lock = NoProc /\ z.data = <<>>
    BY FreeSlot
<1> HIDE DEF z
<1> DEFINE q == [z EXCEPT !.serial = k, !.type = type, !.owner = p, !.value = initial]
<1>4. /\ k \in Serials \union {0} /\ initial \in Int /\ p \in Procs \union {NoProc}
      /\ type \in {"none", "queue", "sem", "mutex", "event"}
    OBVIOUS
<1>2. q \in Object
    BY <1>1, <1>4 DEF Object
<1>3. /\ q.serial = k /\ q.gen = gen /\ q.type = type /\ q.value = initial
      /\ q.lock = NoProc /\ q.data = <<>> /\ q.waiter = NoProc
    BY <1>1 DEF Object
<1> QED BY <1>2, <1>3 DEF NewObject, z

LEMMA NextGenIs ==
    ASSUME NEW gen \in 0..(GenMod - 1)
    PROVE  NextGen(gen) \in 1..(GenMod - 1) /\ (gen + 1 < GenMod => NextGen(gen) = gen + 1)
<1>1. (gen + 1) % GenMod = IF gen = GenMod - 1 THEN 0 ELSE gen + 1
    BY Sizes, NextMod
<1> QED BY <1>1, Sizes DEF NextGen

LEMMA CreateIs ==
    ASSUME Core, Others, NEW p \in Procs, NEW initial \in {0, 1}, Create(p, initial)
    PROVE  \E s \in Slots, q \in Object : DidCreate(s, q, initial)
<1> DEFINE k == Len(issued) + 1
<1>1. /\ Runs(p) /\ Len(issued) < MaxCreates
      /\ initial = 0 \/ plan[k] \in {"sem", "event"}
      /\ NoWake /\ UNCHANGED <<life, ticks, env, holds, outs>>
    BY DEF Create
<1>2. PICK s \in Slots :
        /\ obj[s].serial = 0
        /\ LET o == [Zero(NextGen(obj[s].gen)) EXCEPT
                        !.serial = k, !.type = plan[k], !.owner = p, !.value = initial]
           IN  /\ obj' = [obj EXCEPT ![s] = o]
               /\ issued' = Append(issued, Handle(s, o))
               /\ ins' = [ins EXCEPT ![k] = initial]
    BY DEF Create
<1>3. k \in Serials
    BY <1>1, Sizes, IssuedSerials DEF Serials
<1>4. plan[k] \in {"queue", "sem", "mutex", "event"}
    BY <1>3, SizeAssumption DEF Others
<1> DEFINE gen == NextGen(obj[s].gen)  q == NewObject(gen, k, plan[k], p, initial)
<1>5. obj' = [obj EXCEPT ![s] = q] /\ issued' = Append(issued, Handle(s, q))
      /\ ins' = [ins EXCEPT ![k] = initial]
    BY <1>2 DEF NewObject
<1>6. gen \in 0..(GenMod - 1)
    <2>1. obj[s].gen \in 0..(GenMod - 1)
        BY DEF Core, Types, Object
    <2> QED BY <2>1, NextGenIs
<1> HIDE DEF k
<1> DEFINE type == plan[k]
<1>7. type \in {"queue", "sem", "mutex", "event"} /\ q = NewObject(gen, k, type, p, initial)
    BY <1>4
<1> HIDE DEF gen, type
<1>8. /\ q \in Object /\ q.serial = k /\ q.gen = gen /\ q.type = type /\ q.value = initial
      /\ q.lock = NoProc /\ q.data = <<>> /\ q.waiter = NoProc
    BY <1>3, <1>6, <1>7, NewObjectIs
<1> HIDE DEF q
<1>9. k # 0 /\ initial \in Nat /\ initial <= 1
    BY <1>3 DEF Serials
<1>10. Put(s, q)
    BY <1>5, <1>8, <1>9 DEF Put
<1>11. Quietly(s, q)
    BY <1>1, <1>2, <1>8, <1>10 DEF Quietly, Core, Blank
<1>12. DidCreate(s, q, initial)
    <2>1. q.serial = Len(issued) + 1 /\ q.type = plan[q.serial] /\ q.gen = NextGen(obj[s].gen)
        BY <1>8 DEF k, type, gen
    <2>2. initial = 0 \/ q.type \in {"sem", "event"}
        BY <1>1, <1>8 DEF k, type
    <2> QED BY <1>1, <1>2, <1>3, <1>5, <1>7, <1>8, <1>11, <2>1, <2>2 DEF DidCreate
<1> QED BY <1>8, <1>12

\* The end of objects: closed, or owned by a process that goes.
LEMMA CloseIs ==
    ASSUME Core, Others, NEW p, NEW k, Close(p, k)
    PROVE  \E S : Ending(S) /\ UNCHANGED <<life, issued>> /\ \A s \in S : obj[s].serial # 0
<1>1. PICK s \in Slots : FromHandle(issued[k], s) /\ obj[s].owner = p /\ Release({s})
    BY DEF Close
<1>2. UNCHANGED <<life, ticks, env, issued>>
    BY DEF Close
<1>3. Ending({s}) /\ obj[s].serial # 0
    BY <1>1, <1>2 DEF Ending, FromHandle
<1> QED BY <1>2, <1>3

LEMMA DeathIs ==
    ASSUME Core, Others, NEW p \in Procs, Kill(p) \/ Reap(p)
    PROVE  /\ \E S : Ending(S) /\ UNCHANGED issued /\ \A s \in S : obj[s].serial # 0
           /\ life' \in [Procs -> {"live", "exited", "gone"}]
           /\ \A q \in Procs : life'[q] = "live" => life[q] = "live"
<1>1. Release(Owned(p)) /\ UNCHANGED <<ticks, env, issued>>
    BY DEF Kill, Reap
<1>2. Owned(p) \subseteq Slots /\ \A s \in Owned(p) : obj[s].serial # 0
    BY DEF Owned
<1>3. Ending(Owned(p))
    BY <1>1, <1>2 DEF Ending
<1>4. life' = [life EXCEPT ![p] = "exited"] \/ life' = [life EXCEPT ![p] = "gone"]
    BY DEF Kill, Reap
<1>5. /\ life' \in [Procs -> {"live", "exited", "gone"}]
      /\ \A q \in Procs : life'[q] = "live" => life[q] = "live"
    BY <1>4 DEF Others
<1> QED BY <1>1, <1>2, <1>3, <1>5

LEMMA ExitIs ==
    ASSUME Core, Others, NEW p \in Procs, Exit(p)
    PROVE  /\ Idle /\ UNCHANGED ghosts
           /\ life' \in [Procs -> {"live", "exited", "gone"}]
           /\ \A q \in Procs : life'[q] = "live" => life[q] = "live"
<1>1. Idle /\ UNCHANGED ghosts
    BY DEF Exit, Idle
<1>2. life' = [life EXCEPT ![p] = "exited"]
    BY DEF Exit
<1>3. /\ life' \in [Procs -> {"live", "exited", "gone"}]
      /\ \A q \in Procs : life'[q] = "live" => life[q] = "live"
    BY <1>2 DEF Others
<1> QED BY <1>1, <1>3

(***************************************************************************)
(* Every step is one of eight.                                             *)
(***************************************************************************)
Dying ==
    /\ life' \in [Procs -> {"live", "exited", "gone"}]
    /\ \A p \in Procs : life'[p] = "live" => life[p] = "live"
DidUnits(s, q, k) ==
    /\ UNCHANGED holds
    /\ \/ DidSendByte(s, q, k) \/ DidSetEvent(s, q) \/ DidReceive(s, q, k)
       \/ DidSemWait(s, q, k) \/ DidSemPost(s, q, k)
DidMutex(s, q, p, k) ==
    \/ DidLock(s, q, p, k)
    \/ obj[s].type = "mutex" /\ DidUnlock(s, q, p, k)
Through(p, k, s) == Runs(p) /\ FromHandle(issued[k], s) /\ UNCHANGED <<life, issued>>

Creating == \E s \in Slots, q \in Object, initial \in {0, 1} : DidCreate(s, q, initial)
Moving ==
    \E p \in Procs, k \in DOMAIN issued, s \in Slots, q \in Object :
        Through(p, k, s) /\ DidUnits(s, q, k)
Locking ==
    \E p \in Procs, k \in DOMAIN issued, s \in Slots, q \in Object :
        Through(p, k, s) /\ DidMutex(s, q, p, k)
Stopping ==
    \E p \in Procs, k \in DOMAIN issued, s \in Slots, timeout \in Timeouts :
        Through(p, k, s) /\ Blocking(p, s, timeout) /\ UNCHANGED ghosts
Closing ==
    \E S : Ending(S) /\ UNCHANGED issued /\ Dying /\ \A s \in S : obj[s].serial # 0
Leaving == Idle /\ UNCHANGED ghosts /\ Dying
Ticking == \E step \in 1..MaxStep : Tick(step)

Step == \/ Creating \/ Moving \/ Locking \/ Stopping
        \/ Closing \/ Leaving \/ Ticking \/ KeyWake

LEMMA Steps == ASSUME Core, Others, Next PROVE Step
<1>0. life' = life => Dying
    BY DEF Dying, Others
<1>1. ASSUME NEW p \in Procs, NEW initial \in {0, 1}, Create(p, initial) PROVE Creating
    BY <1>1, CreateIs DEF Creating
<1>2. ASSUME NEW p \in Procs, NEW k \in Serials, Close(p, k) PROVE Closing
    BY <1>0, <1>2, CloseIs DEF Closing
<1>3. ASSUME NEW p \in Procs, NEW k \in Serials, Send(p, k) PROVE Moving
    <2>1. /\ \E s \in Slots, q \in Object :
                FromHandle(issued[k], s) /\ (DidSendByte(s, q, k) \/ DidSetEvent(s, q))
          /\ Runs(p) /\ k \in DOMAIN issued /\ UNCHANGED <<life, issued, holds>>
        BY <1>3, SendIs
    <2> QED BY <2>1 DEF Moving, Through, DidUnits
<1>4. ASSUME NEW p \in Procs, NEW k \in Serials, Receive(p, k) PROVE Moving
    <2>1. /\ \E s \in Slots, q \in Object : FromHandle(issued[k], s) /\ DidReceive(s, q, k)
          /\ Runs(p) /\ k \in DOMAIN issued /\ UNCHANGED <<life, issued, holds>>
        BY <1>4, ReceiveIs
    <2> QED BY <2>1 DEF Moving, Through, DidUnits
<1>5. ASSUME NEW p \in Procs, NEW k \in Serials, SemWait(p, k) PROVE Moving
    <2>1. /\ \E s \in Slots, q \in Object : FromHandle(issued[k], s) /\ DidSemWait(s, q, k)
          /\ Runs(p) /\ k \in DOMAIN issued /\ UNCHANGED <<life, issued, holds>>
        BY <1>5, SemWaitIs
    <2> QED BY <2>1 DEF Moving, Through, DidUnits
<1>6. ASSUME NEW p \in Procs, NEW k \in Serials, SemPost(p, k) PROVE Moving
    <2>1. /\ \E s \in Slots, q \in Object : FromHandle(issued[k], s) /\ DidSemPost(s, q, k)
          /\ Runs(p) /\ k \in DOMAIN issued /\ UNCHANGED <<life, issued, holds>>
        BY <1>6, SemPostIs
    <2> QED BY <2>1 DEF Moving, Through, DidUnits
<1>7. ASSUME NEW p \in Procs, NEW k \in Serials, MutexLock(p, k) PROVE Locking
    <2>1. /\ \E s \in Slots, q \in Object : FromHandle(issued[k], s) /\ DidLock(s, q, p, k)
          /\ Runs(p) /\ k \in DOMAIN issued /\ UNCHANGED <<life, issued>>
        BY <1>7, MutexLockIs
    <2> QED BY <2>1 DEF Locking, Through, DidMutex
<1>8. ASSUME NEW p \in Procs, NEW k \in Serials, MutexUnlock(p, k) PROVE Locking
    <2>1. /\ \E s \in Slots, q \in Object :
                FromHandle(issued[k], s) /\ obj[s].type = "mutex" /\ DidUnlock(s, q, p, k)
          /\ Runs(p) /\ k \in DOMAIN issued /\ UNCHANGED <<life, issued>>
        BY <1>8, MutexUnlockIs
    <2> QED BY <2>1 DEF Locking, Through, DidMutex
<1>9. ASSUME NEW p \in Procs, NEW k \in Serials, NEW timeout \in Timeouts, Wait(p, k, timeout)
      PROVE  Stopping
    <2>1. /\ \E s \in Slots : FromHandle(issued[k], s) /\ Blocking(p, s, timeout)
          /\ Runs(p) /\ k \in DOMAIN issued /\ UNCHANGED life /\ UNCHANGED ghosts
        BY <1>9, WaitIs
    <2>2. UNCHANGED issued
        BY <2>1 DEF ghosts
    <2> QED BY <2>1, <2>2 DEF Stopping, Through
<1>10. ASSUME NEW p \in Procs, Kill(p) \/ Reap(p) PROVE Closing
    BY <1>10, DeathIs DEF Closing, Dying
<1>11. ASSUME NEW p \in Procs, Exit(p) PROVE Leaving
    BY <1>11, ExitIs DEF Leaving, Dying
<1>12. ASSUME NEW p \in Procs, Call(p) PROVE Step
    BY <1>1, <1>2, <1>3, <1>4, <1>5, <1>6, <1>7, <1>8, <1>9, <1>12 DEF Call, Step
<1> QED BY <1>10, <1>11, <1>12 DEF Next, Step, Ticking

\* What each step leaves of the objects.
LEMMA KindOfMove ==
    ASSUME NEW s, NEW q, NEW k, DidUnits(s, q, k)
    PROVE  (Quietly(s, q) \/ Serving(s, q)) /\ SameLock(obj[s], q)
BY DEF DidUnits, DidSendByte, DidSetEvent, DidReceive, DidSemWait, DidSemPost,
       Passed, NewData, NewValue

LEMMA KindOfLock ==
    ASSUME NEW s, NEW q, NEW p, NEW k, DidMutex(s, q, p, k)
    PROVE  /\ Quietly(s, q) \/ Serving(s, q)
           /\ SameName(obj[s], q) /\ obj[s].type = "mutex" /\ q.data = obj[s].data
           /\ q.value = obj[s].value /\ UNCHANGED <<ins, outs>>
BY DEF DidMutex, DidLock, DidUnlock, NewLock

LEMMA StepKeepsCore == ASSUME Core, Step PROVE Core'
<1>1. ASSUME NEW s, NEW q, Quietly(s, q) \/ Serving(s, q) PROVE Core'
    BY <1>1, QuietlyKeeps, ServingForgets, ForgettingKeeps
<1>2. CASE Creating
    BY <1>1, <1>2 DEF Creating, DidCreate
<1>3. CASE Moving
    BY <1>1, <1>3, KindOfMove DEF Moving
<1>4. CASE Locking
    BY <1>1, <1>4, KindOfLock DEF Locking
<1>5. CASE Stopping
    BY <1>5, BlockingKeeps DEF Stopping
<1>6. CASE Closing
    BY <1>6, EndingForgets, ForgettingKeeps DEF Closing
<1>7. CASE Leaving
    BY <1>7, IdleKeeps DEF Leaving
<1>8. CASE Ticking
    BY <1>8, TickKeeps DEF Ticking
<1>9. CASE KeyWake
    BY <1>9, KeyKeeps
<1> QED BY <1>2, <1>3, <1>4, <1>5, <1>6, <1>7, <1>8, <1>9 DEF Step

-----------------------------------------------------------------------------
(* Handles.                                                                *)

\* An object has the serial under which the handle of its slot and generation
\* was issued.
Named ==
    \A s \in Slots : obj[s].serial # 0 =>
        /\ obj[s].serial \in DOMAIN issued /\ issued[obj[s].serial].slot = s
        /\ issued[obj[s].serial].gen = obj[s].gen

LEMMA SerialsDiffer ==
    ASSUME Named, NEW s \in Slots, NEW r \in Slots, obj[s].serial # 0, obj[s].serial = obj[r].serial
    PROVE  s = r
BY DEF Named

\* Only create names anything.
Renames ==
    /\ UNCHANGED issued
    /\ \A s \in Slots : /\ obj'[s].gen = obj[s].gen
                        /\ obj'[s].serial = obj[s].serial \/ obj'[s].serial = 0

LEMMA OldNames == ASSUME Core, Step, ~Creating PROVE Renames
<1>1. ASSUME NEW s, NEW q, Put(s, q), SameName(obj[s], q), UNCHANGED issued PROVE Renames
    <2>1. /\ s \in Slots /\ obj'[s] = q /\ \A r \in Slots : r # s => obj'[r] = obj[r]
        BY <1>1, PutIs DEF Core
    <2> QED BY <1>1, <2>1 DEF Renames, SameName
<1>2. ASSUME NEW s, NEW q, Quietly(s, q) \/ Serving(s, q) PROVE Put(s, q)
    BY <1>2 DEF Quietly, Serving
<1>3. CASE Moving
    <2>1. PICK k \in DOMAIN issued, p \in Procs, s \in Slots, q \in Object : Through(p, k, s) /\ DidUnits(s, q, k)
        BY <1>3 DEF Moving
    <2>2. SameName(obj[s], q) /\ Put(s, q) /\ UNCHANGED issued
        BY <1>2, <2>1, KindOfMove DEF SameLock, Through
    <2> QED BY <1>1, <2>2
<1>4. CASE Locking
    <2>1. PICK p \in Procs, k \in DOMAIN issued, s \in Slots, q \in Object : Through(p, k, s) /\ DidMutex(s, q, p, k)
        BY <1>4 DEF Locking
    <2>2. SameName(obj[s], q) /\ Put(s, q) /\ UNCHANGED issued
        BY <1>2, <2>1, KindOfLock DEF Through
    <2> QED BY <1>1, <2>2
<1>5. CASE Stopping
    <2>1. PICK p \in Procs, k \in DOMAIN issued, s \in Slots, timeout \in Timeouts : Through(p, k, s) /\ Blocking(p, s, timeout)
        BY <1>5 DEF Stopping
    <2>2. /\ obj' = [obj EXCEPT ![s].waiter = p, ![s].deadline = (ticks + timeout) % TickMod]
          /\ obj \in [Slots -> Object] /\ UNCHANGED issued
        BY <2>1 DEF Blocking, Core, Types, Through
    <2>3. \A r \in Slots : obj'[r].gen = obj[r].gen /\ obj'[r].serial = obj[r].serial
        BY <2>2 DEF Object
    <2> QED BY <2>2, <2>3 DEF Renames
<1>6. CASE Closing
    <2>1. PICK S : Ending(S) /\ UNCHANGED issued
        BY <1>6 DEF Closing
    <2>2. obj' = [s \in Slots |-> IF s \in S THEN Zero(obj[s].gen) ELSE obj[s]]
        BY <2>1 DEF Ending, Release
    <2>3. \A s \in Slots : Zero(obj[s].gen).gen = obj[s].gen /\ Zero(obj[s].gen).serial = 0
        BY FreeSlot DEF Core, Types, Object
    <2> QED BY <2>1, <2>2, <2>3 DEF Renames
<1>7. CASE Leaving
    BY <1>7 DEF Leaving, Idle, ghosts, Renames
<1>8. CASE Ticking
    <2>1. PICK step \in 1..MaxStep : Tick(step)
        BY <1>8 DEF Ticking
    <2>2. /\ obj' = [s \in Slots |-> IF s \in Over(step) THEN ClearWaiter(obj[s]) ELSE obj[s]]
          /\ UNCHANGED issued
        BY <2>1, TickIs DEF ghosts
    <2>3. \A s \in Slots : ClearWaiter(obj[s]).gen = obj[s].gen /\ ClearWaiter(obj[s]).serial = obj[s].serial
        BY ClearWaiterIs DEF Core, Types
    <2> QED BY <2>2, <2>3 DEF Renames
<1>9. CASE KeyWake
    BY <1>9 DEF KeyWake, ghosts, Renames
<1> QED BY <1>3, <1>4, <1>5, <1>6, <1>7, <1>8, <1>9 DEF Step

LEMMA CreateNames ==
    ASSUME Core, Others, NEW s \in Slots, NEW q \in Object, NEW initial \in {0, 1},
           DidCreate(s, q, initial)
    PROVE  /\ obj[s].serial = 0 /\ obj' \in [Slots -> Object] /\ obj'[s] = q
           /\ \A r \in Slots : r # s => obj'[r] = obj[r]
           /\ q.serial = Len(issued) + 1 /\ Len(issued') = Len(issued) + 1
           /\ Len(issued) \in Nat /\ DOMAIN issued = 1..Len(issued)
           /\ DOMAIN issued' = 1..(Len(issued) + 1)
           /\ issued'[Len(issued) + 1] = Handle(s, q)
           /\ \A k \in DOMAIN issued : issued'[k] = issued[k]
           /\ issued' \in Seq([slot : Slots, gen : 0..(GenMod - 1)])
           /\ Len(issued') <= MaxCreates
<1>1. obj[s].serial = 0 /\ Put(s, q) /\ issued' = Append(issued, Handle(s, q))
      /\ q.serial = Len(issued) + 1 /\ q.serial \in Serials
    BY DEF DidCreate, Quietly
<1>2. /\ obj' \in [Slots -> Object] /\ obj'[s] = q
      /\ \A r \in Slots : r # s => obj'[r] = obj[r]
    BY <1>1, PutIs DEF Core
<1>3. Handle(s, q) \in [slot : Slots, gen : 0..(GenMod - 1)]
    BY DEF Handle, Object
<1> DEFINE h == Handle(s, q)  H == [slot : Slots, gen : 0..(GenMod - 1)]
<1> HIDE DEF h, H
<1>4. issued \in Seq(H) /\ h \in H /\ issued' = Append(issued, h)
    BY <1>1, <1>3 DEF Others, h, H
<1>5. /\ issued' \in Seq(H) /\ Len(issued') = Len(issued) + 1 /\ issued'[Len(issued) + 1] = h
      /\ DOMAIN issued = 1..Len(issued) /\ Len(issued) \in Nat
      /\ \A k \in 1..Len(issued) : issued'[k] = issued[k]
      /\ DOMAIN issued' = 1..Len(issued')
    BY <1>4
<1>6. Len(issued') <= MaxCreates
    BY <1>1, <1>5, Sizes DEF Serials
<1> QED BY <1>1, <1>2, <1>5, <1>6 DEF h, H

LEMMA StepKeepsNamed == ASSUME Core, Others, Named, Step PROVE Named'
<1>1. CASE Creating
    <2>1. PICK s \in Slots, q \in Object, initial \in {0, 1} : DidCreate(s, q, initial)
        BY <1>1 DEF Creating
    <2>2. /\ obj'[s] = q /\ \A r \in Slots : r # s => obj'[r] = obj[r]
          /\ q.serial = Len(issued) + 1
          /\ Len(issued) \in Nat /\ DOMAIN issued = 1..Len(issued)
          /\ DOMAIN issued' = 1..(Len(issued) + 1)
          /\ issued'[Len(issued) + 1] = Handle(s, q)
          /\ \A k \in DOMAIN issued : issued'[k] = issued[k]
        BY <2>1, CreateNames
    <2>3. Handle(s, q).slot = s /\ Handle(s, q).gen = q.gen
        BY DEF Handle
    <2> SUFFICES ASSUME NEW r \in Slots, obj'[r].serial # 0
                 PROVE  /\ obj'[r].serial \in DOMAIN issued' /\ issued'[obj'[r].serial].slot = r
                        /\ issued'[obj'[r].serial].gen = obj'[r].gen
        BY DEF Named
    <2>4. CASE r = s
        BY <2>2, <2>3, <2>4
    <2>5. CASE r # s
        <3>1. /\ obj'[r] = obj[r] /\ obj[r].serial \in DOMAIN issued
              /\ issued[obj[r].serial].slot = r /\ issued[obj[r].serial].gen = obj[r].gen
            BY <2>2, <2>5 DEF Named
        <3> QED BY <2>2, <3>1
    <2> QED BY <2>4, <2>5
<1>2. CASE ~Creating
    <2>1. Renames
        BY <1>2, OldNames
    <2> QED BY <2>1 DEF Named, Renames
<1> QED BY <1>1, <1>2

\* While fewer objects have been created than there are generations, a handle
\* that fits the generation of its slot is the handle of the object there.
FewCreates == MaxCreates < GenMod
Fresh ==
    /\ \A s \in Slots : obj[s].gen <= Len(issued)
    /\ \A k \in DOMAIN issued, s \in Slots : issued[k].slot = s =>
        /\ issued[k].gen <= obj[s].gen
        /\ issued[k].gen = obj[s].gen /\ obj[s].serial # 0 => obj[s].serial = k

LEMMA StepKeepsFresh == ASSUME FewCreates, Core, Others, Fresh, Step PROVE Fresh'
<1>1. CASE Creating
    <2>1. PICK s \in Slots, q \in Object, initial \in {0, 1} : DidCreate(s, q, initial)
        BY <1>1 DEF Creating
    <2> DEFINE n == Len(issued)
    <2>2. /\ obj'[s] = q /\ \A r \in Slots : r # s => obj'[r] = obj[r]
          /\ q.serial = n + 1
          /\ n \in Nat /\ DOMAIN issued = 1..n /\ Len(issued') = n + 1
          /\ DOMAIN issued' = 1..(n + 1)
          /\ issued'[n + 1] = Handle(s, q)
          /\ \A k \in DOMAIN issued : issued'[k] = issued[k]
          /\ n + 1 <= MaxCreates
        BY <2>1, CreateNames
    <2>3. Handle(s, q).slot = s /\ Handle(s, q).gen = q.gen
        BY DEF Handle
    <2> HIDE DEF n
    <2>4. \A r \in Slots : obj[r].gen \in Nat /\ obj[r].gen <= n
        BY Sizes DEF Core, Types, Object, Fresh, n
    <2>5. q.gen = obj[s].gen + 1
        <3>1. q.gen = NextGen(obj[s].gen)
            BY <2>1 DEF DidCreate
        <3> DEFINE gen == obj[s].gen
        <3>2. gen \in 0..(GenMod - 1)
            BY DEF Core, Types, Object
        <3>3. gen <= n /\ gen \in Nat
            BY <2>4
        <3> HIDE DEF gen
        <3>4. gen + 1 < GenMod
            BY <2>2, <3>3, Sizes DEF FewCreates
        <3>5. NextGen(gen) = gen + 1
            BY <3>2, <3>4, NextGenIs
        <3> QED BY <3>1, <3>5 DEF gen
    <2>6. \A r \in Slots : obj'[r].gen <= n + 1
        BY <2>2, <2>4, <2>5
    <2>7. ASSUME NEW k \in 1..(n + 1), NEW r \in Slots, issued'[k].slot = r
          PROVE  /\ issued'[k].gen <= obj'[r].gen
                 /\ issued'[k].gen = obj'[r].gen /\ obj'[r].serial # 0 => obj'[r].serial = k
        <3>1. CASE k = n + 1
            BY <2>2, <2>3, <2>4, <2>5, <2>7, <3>1
        <3>2. CASE k # n + 1
            <4>1. k \in DOMAIN issued /\ issued'[k] = issued[k]
                BY <2>2, <3>2
            <4>5. issued[k].gen \in Nat
                <5> DEFINE H == [slot : Slots, gen : 0..(GenMod - 1)]
                <5>1. \A h \in H : h.gen \in Nat
                    BY Sizes
                <5> HIDE DEF H
                <5>2. issued \in Seq(H)
                    BY DEF Others, H
                <5> QED BY <4>1, <5>1, <5>2
            <4>2. issued[k].gen <= obj[r].gen
                BY <2>7, <4>1 DEF Fresh
            <4>3. CASE r = s
                BY <2>2, <2>4, <2>5, <4>1, <4>2, <4>3, <4>5
            <4>4. CASE r # s
                BY <2>2, <2>7, <4>1, <4>4 DEF Fresh
            <4> QED BY <4>3, <4>4
        <3> QED BY <3>1, <3>2
    <2> QED BY <2>2, <2>6, <2>7 DEF Fresh
<1>2. CASE ~Creating
    <2>1. Renames
        BY <1>2, OldNames
    <2> QED BY <2>1 DEF Fresh, Renames
<1> QED BY <1>1, <1>2

LEMMA HandlesMean ==
    ASSUME Fresh, NEW k \in DOMAIN issued, NEW s \in Slots, FromHandle(issued[k], s)
    PROVE  obj[s].serial = k
BY DEF Fresh, FromHandle

-----------------------------------------------------------------------------
(* Units.  A queue holds the numbers from its outs on, up to its ins.      *)

Stock(i, u) == (i - u) % Wrap
Counter == 0..(Wrap - 1)
Held(i, u) == [j \in 1..Stock(i, u) |-> (u + (j - 1)) % Wrap]
Up(n) == (n + 1) % Wrap

LEMMA StockIs ==
    ASSUME NEW i \in Counter, NEW u \in Counter
    PROVE  /\ Stock(i, u) = IF i >= u THEN i - u ELSE i - u + Wrap
           /\ Stock(i, u) \in Counter /\ Up(i) \in Counter
           /\ Stock(i, u) = 0 <=> i = u
           /\ Stock(i, u) + 1 < Wrap => Stock(Up(i), u) = Stock(i, u) + 1
           /\ Stock(i, u) > 0 => Stock(i, Up(u)) = Stock(i, u) - 1
<1> DEFINE W == Wrap
<1>1. W \in Nat /\ W > 1
    BY Sizes
<1>2. i \in 0..(W - 1) /\ u \in 0..(W - 1)
    BY DEF Counter
<1> HIDE DEF W
<1>3. ASSUME NEW a \in 0..(W - 1), NEW b \in 0..(W - 1)
      PROVE  (a - b) % W = IF a >= b THEN a - b ELSE a - b + W
    <2>1. CASE a >= b
        <3>1. a - b \in 0..(W - 1)
            BY <1>1, <2>1
        <3> QED BY <1>1, <2>1, <3>1, SmallMod
    <2>2. CASE ~(a >= b)
        <3>1. a - b \in -W..-1
            BY <1>1, <2>2
        <3> QED BY <1>1, <2>2, <3>1, BelowMod
    <2> QED BY <2>1, <2>2
<1>4. \A a \in 0..(W - 1) : (a + 1) % W = (IF a = W - 1 THEN 0 ELSE a + 1)
    BY <1>1, NextMod
<1> DEFINE i1 == (i + 1) % W  u1 == (u + 1) % W
<1>5. /\ i1 = (IF i = W - 1 THEN 0 ELSE i + 1) /\ u1 = (IF u = W - 1 THEN 0 ELSE u + 1)
    BY <1>2, <1>4
<1> HIDE DEF i1, u1
<1>6. i1 \in 0..(W - 1) /\ u1 \in 0..(W - 1)
    BY <1>1, <1>2, <1>5
<1>7. /\ (i - u) % W = IF i >= u THEN i - u ELSE i - u + W
      /\ (i1 - u) % W = IF i1 >= u THEN i1 - u ELSE i1 - u + W
      /\ (i - u1) % W = IF i >= u1 THEN i - u1 ELSE i - u1 + W
    BY <1>2, <1>3, <1>6
<1>8. /\ (i - u) % W \in 0..(W - 1) /\ ((i - u) % W = 0 <=> i = u)
      /\ ((i - u) % W) + 1 < W => (i1 - u) % W = ((i - u) % W) + 1
      /\ (i - u) % W > 0 => (i - u1) % W = ((i - u) % W) - 1
    BY <1>1, <1>2, <1>5, <1>6, <1>7
<1> QED BY <1>6, <1>7, <1>8 DEF Stock, Counter, Up, W, i1, u1

LEMMA HeldIs ==
    ASSUME NEW i \in Counter, NEW u \in Counter
    PROVE  /\ Held(i, u) \in Seq(Nat) /\ Len(Held(i, u)) = Stock(i, u)
           /\ Stock(i, u) + 1 < Wrap => Held(Up(i), u) = Append(Held(i, u), i)
           /\ Stock(i, u) > 0 => Held(i, Up(u)) = Tail(Held(i, u))
<1> DEFINE W == Wrap  n == Stock(i, u)
<1>1. W \in Nat /\ W > 1 /\ i \in 0..(W - 1) /\ u \in 0..(W - 1)
    BY Sizes DEF Counter
<1>2. /\ n = (IF i >= u THEN i - u ELSE i - u + W) /\ n \in 0..(W - 1)
      /\ n + 1 < W => Stock(Up(i), u) = n + 1
      /\ n > 0 => Stock(i, Up(u)) = n - 1
    BY StockIs DEF Counter
<1> DEFINE u1 == Up(u)
<1>3. u1 = IF u = W - 1 THEN 0 ELSE u + 1
    BY <1>1, NextMod DEF Up
<1>4. u1 \in 0..(W - 1)
    BY <1>1, <1>3
<1>5. Held(i, u) = [j \in 1..n |-> (u + (j - 1)) % W]
    BY DEF Held
<1>6. n + 1 < W => Held(Up(i), u) = [j \in 1..(n + 1) |-> (u + (j - 1)) % W]
    BY <1>2 DEF Held
<1>7. n > 0 => Held(i, u1) = [j \in 1..(n - 1) |-> (u1 + (j - 1)) % W]
    BY <1>2 DEF Held
<1> HIDE DEF W, n, u1
<1>8. ASSUME NEW a \in 0..(W - 1), NEW b \in 0..(W - 1)
      PROVE  (a + b) % W = IF a + b < W THEN a + b ELSE (a + b) - W
    <2>1. a + b \in 0..(W + W - 1)
        BY <1>1
    <2> DEFINE c == a + b
    <2> HIDE DEF c
    <2>2. c \in 0..(W + W - 1) /\ W > 0
        BY <1>1, <2>1 DEF c
    <2>3. c % W = IF c < W THEN c ELSE c - W
        BY <1>1, <2>2, FoldMod
    <2> QED BY <2>3 DEF c
<1>9. \A j \in 1..n : (u + (j - 1)) % W \in Nat
    BY <1>1, <1>2, ModRange
<1>10. Held(i, u) \in Seq(Nat) /\ Len(Held(i, u)) = n
    BY <1>2, <1>5, <1>9
<1>11. ASSUME n + 1 < W PROVE Held(Up(i), u) = Append(Held(i, u), i)
    <2>1. (u + n) % W = i
        <3>1. (u + n) % W = IF u + n < W THEN u + n ELSE (u + n) - W
            BY <1>1, <1>2, <1>8
        <3> QED BY <1>1, <1>2, <3>1
    <2> DEFINE a == Append(Held(i, u), i)  h == Held(Up(i), u)
    <2>2. /\ a \in Seq(Nat) /\ Len(a) = n + 1 /\ a[n + 1] = i
          /\ \A j \in 1..n : a[j] = Held(i, u)[j]
        <3>1. i \in Nat
            BY <1>1
        <3> QED BY <1>10, <3>1, AppendProperties
    <2>3. h = [j \in 1..(n + 1) |-> (u + (j - 1)) % W]
        BY <1>6, <1>11
    <2>4. h \in Seq(Nat) /\ Len(h) = n + 1
        <3>1. \A j \in 1..(n + 1) : (u + (j - 1)) % W \in Nat
            BY <1>1, <1>2, ModRange
        <3>2. n + 1 \in Nat
            BY <1>2
        <3> QED BY <2>3, <3>1, <3>2
    <2> HIDE DEF a, h
    <2>5. ASSUME NEW j \in 1..(n + 1) PROVE h[j] = a[j]
        <3>1. CASE j = n + 1
            <4>1. j - 1 = n
                BY <1>2, <3>1
            <4> QED BY <2>1, <2>2, <2>3, <3>1, <4>1
        <3>2. CASE j # n + 1
            <4>1. j \in 1..n
                BY <1>2, <3>2
            <4> QED BY <1>5, <2>2, <2>3, <4>1
        <3> QED BY <3>1, <3>2
    <2>6. h = a
        BY <2>2, <2>4, <2>5, SeqEqual
    <2> QED BY <2>6 DEF a, h
<1>12. ASSUME n > 0 PROVE Held(i, u1) = Tail(Held(i, u))
    <2> DEFINE a == Tail(Held(i, u))  h == Held(i, u1)
    <2>1. /\ a \in Seq(Nat) /\ Len(a) = n - 1
          /\ \A j \in 1..(n - 1) : a[j] = Held(i, u)[j + 1]
        <3>1. Held(i, u) # <<>>
            BY <1>2, <1>10, <1>12
        <3>2. a \in Seq(Nat) /\ Len(a) = Len(Held(i, u)) - 1
              /\ \A j \in 1..Len(a) : a[j] = Held(i, u)[j + 1]
            BY <1>10, <3>1, HeadTailProperties
        <3> QED BY <1>10, <3>2
    <2>2. h = [j \in 1..(n - 1) |-> (u1 + (j - 1)) % W]
        BY <1>7, <1>12
    <2>3. h \in Seq(Nat) /\ Len(h) = n - 1
        <3>1. \A j \in 1..(n - 1) : (u1 + (j - 1)) % W \in Nat
            BY <1>1, <1>2, <1>4, ModRange
        <3>2. n - 1 \in Nat
            BY <1>2, <1>12
        <3> QED BY <2>2, <3>1, <3>2
    <2> HIDE DEF a, h
    <2>4. ASSUME NEW j \in 1..(n - 1) PROVE h[j] = a[j]
        <3>1. j + 1 \in 1..n /\ (j + 1) - 1 = j /\ j \in 0..(W - 1) /\ j - 1 \in 0..(W - 1)
            BY <1>1, <1>2
        <3>2. Held(i, u)[j + 1] = (u + j) % W
            BY <1>5, <3>1
        <3>3. (u + j) % W = IF u + j < W THEN u + j ELSE (u + j) - W
            BY <1>1, <1>8, <3>1
        <3>4. (u1 + (j - 1)) % W = IF u1 + (j - 1) < W THEN u1 + (j - 1) ELSE (u1 + (j - 1)) - W
            BY <1>4, <1>8, <3>1
        <3>5. (u1 + (j - 1)) % W = (u + j) % W
            BY <1>1, <1>2, <1>3, <3>1, <3>3, <3>4
        <3> QED BY <2>1, <2>2, <3>2, <3>5
    <2>5. h = a
        BY <2>1, <2>3, <2>4, SeqEqual
    <2> QED BY <2>5 DEF a, h
<1> QED BY <1>10, <1>11, <1>12 DEF W, n, u1

Fits(o, i, u) ==
    /\ o.type = "queue" => Len(o.data) <= Cap /\ o.data = Held(i, u)
    /\ o.type = "sem" => o.value = Stock(i, u) /\ o.value <= MaxValue
Stored ==
    /\ \A s \in Slots :
        obj[s].serial # 0 => Fits(obj[s], ins[obj[s].serial], outs[obj[s].serial])
    /\ \A k \in Serials : k \notin DOMAIN issued => outs[k] = 0

\* One unit in, one unit out, and one handed to who waits for it.
LEMMA InFits ==
    ASSUME NEW o, NEW q, NEW i \in Counter, NEW u \in Counter, Fits(o, i, u),
           q.type = o.type,
           \/ o.type = "queue" /\ Len(o.data) < Cap /\ q.data = Append(o.data, i)
           \/ o.type = "sem" /\ o.value < MaxValue /\ q.value = o.value + 1
    PROVE  Fits(q, Up(i), u)
<1>1. /\ Stock(i, u) \in Nat
      /\ Stock(i, u) + 1 < Wrap => Stock(Up(i), u) = Stock(i, u) + 1
    BY StockIs, Sizes DEF Counter
<1>2. /\ Len(Held(i, u)) = Stock(i, u) /\ Held(i, u) \in Seq(Nat)
      /\ Stock(i, u) + 1 < Wrap => Held(Up(i), u) = Append(Held(i, u), i)
    BY HeldIs
<1>3. CASE o.type = "queue"
    <2>1. o.data = Held(i, u) /\ Stock(i, u) < Cap /\ q.data = Append(o.data, i) /\ q.type = "queue"
        BY <1>2, <1>3 DEF Fits
    <2>2. q.data = Held(Up(i), u)
        BY <1>1, <1>2, <2>1, Sizes
    <2>3. Len(q.data) = Stock(i, u) + 1
        <3>1. i \in Nat
            BY Sizes DEF Counter
        <3> QED BY <1>2, <2>1, <3>1, AppendProperties
    <2> QED BY <1>1, <2>1, <2>2, <2>3, Sizes DEF Fits
<1>4. CASE o.type = "sem"
    <2>1. o.value = Stock(i, u) /\ o.value < MaxValue /\ q.value = o.value + 1 /\ q.type = "sem"
        BY <1>4 DEF Fits
    <2> QED BY <1>1, <2>1, Sizes DEF Fits
<1> QED BY <1>3, <1>4

LEMMA OutFits ==
    ASSUME NEW o, NEW q, NEW i \in Counter, NEW u \in Counter, Fits(o, i, u),
           q.type = o.type,
           \/ o.type = "queue" /\ o.data # <<>> /\ q.data = Tail(o.data)
           \/ o.type = "sem" /\ o.value > 0 /\ q.value = o.value - 1
    PROVE  Fits(q, i, Up(u))
<1>1. /\ Stock(i, u) \in Nat
      /\ Stock(i, u) > 0 => Stock(i, Up(u)) = Stock(i, u) - 1
    BY StockIs, Sizes DEF Counter
<1>2. /\ Len(Held(i, u)) = Stock(i, u) /\ Held(i, u) \in Seq(Nat)
      /\ Stock(i, u) > 0 => Held(i, Up(u)) = Tail(Held(i, u))
    BY HeldIs
<1>3. CASE o.type = "queue"
    <2>1. /\ o.data = Held(i, u) /\ Stock(i, u) <= Cap /\ q.data = Tail(o.data) /\ q.type = "queue"
          /\ o.data # <<>>
        BY <1>2, <1>3 DEF Fits
    <2>2. Stock(i, u) > 0
        <3>1. Len(Held(i, u)) \in Nat \ {0}
            BY <1>2, <2>1, EmptySeq
        <3> QED BY <1>2, <3>1
    <2>3. q.data = Held(i, Up(u))
        BY <1>2, <2>1, <2>2
    <2>4. Len(q.data) = Stock(i, u) - 1
        BY <1>2, <2>1, HeadTailProperties
    <2> QED BY <1>1, <2>1, <2>3, <2>4, Sizes DEF Fits
<1>4. CASE o.type = "sem"
    <2>1. o.value = Stock(i, u) /\ o.value > 0 /\ q.value = o.value - 1 /\ q.type = "sem"
          /\ o.value <= MaxValue
        BY <1>4 DEF Fits
    <2> QED BY <1>1, <2>1, Sizes DEF Fits
<1> QED BY <1>3, <1>4

LEMMA PassFits ==
    ASSUME NEW o, NEW q, NEW i \in Counter, NEW u \in Counter, NEW w, Fits(o, i, u),
           q.type = o.type, q.data = o.data, q.value = o.value, o.type \in {"queue", "sem"},
           Unavailable(o, w), o.value \in Nat
    PROVE  Fits(q, Up(i), Up(u))
<1>1. Stock(i, u) = 0 <=> i = u
    BY StockIs
<1>2. Len(Held(i, u)) = Stock(i, u)
    BY HeldIs
<1>3. i = u
    <2>1. CASE o.type = "queue"
        <3>1. Held(i, u) = <<>>
            BY <2>1 DEF Fits, Unavailable
        <3> QED BY <1>1, <1>2, <3>1
    <2>2. CASE o.type = "sem"
        BY <1>1, <2>2 DEF Fits, Unavailable
    <2> QED BY <2>1, <2>2
<1>4. Up(i) \in Counter
    BY StockIs
<1>5. Stock(i, i) = 0 /\ Stock(Up(i), Up(i)) = 0
    BY <1>4, StockIs
<1>6. Held(Up(i), Up(i)) = <<>> /\ Held(i, i) = <<>>
    <2>1. \A n \in Counter : Stock(n, n) = 0 => Held(n, n) = <<>>
        <3> TAKE n \in Counter
        <3>1. Held(n, n) \in Seq(Nat) /\ Len(Held(n, n)) = Stock(n, n)
            BY HeldIs
        <3> QED BY <3>1, EmptySeq
    <2> QED BY <1>4, <1>5, <2>1
<1> QED BY <1>3, <1>5, <1>6 DEF Fits

\* What changes in the counters of one object.
Counts(f, g, k) ==
    /\ g \in [Serials -> Counter] /\ \A j \in Serials : j # k => g[j] = f[j]

LEMMA Plus1Is ==
    ASSUME NEW f \in [Serials -> Counter], NEW k \in Serials
    PROVE  Counts(f, Plus1(f, k), k) /\ Plus1(f, k)[k] = Up(f[k])
<1>1. Up(f[k]) \in Counter
    BY StockIs
<1>2. Plus1(f, k) = [f EXCEPT ![k] = Up(f[k])]
    BY DEF Plus1, Up
<1> QED BY <1>1, <1>2 DEF Counts

LEMMA MoveFits ==
    ASSUME Core, Others, NEW s \in Slots, NEW q, NEW k \in Serials,
           Fits(obj[s], ins[k], outs[k]), DidUnits(s, q, k)
    PROVE  Fits(q, ins'[k], outs'[k]) /\ Counts(ins, ins', k) /\ Counts(outs, outs', k)
<1> DEFINE o == obj[s]  i == ins[k]  u == outs[k]
<1>1. ins \in [Serials -> Counter] /\ outs \in [Serials -> Counter]
    BY DEF Others, Counter
<1>2. i \in Counter /\ u \in Counter /\ Fits(o, i, u)
    BY <1>1
<1>3. Counts(ins, ins, k) /\ Counts(outs, outs, k)
    BY <1>1 DEF Counts
<1>4. ins' = Plus1(ins, k) => Counts(ins, ins', k) /\ ins'[k] = Up(i)
    BY <1>1, Plus1Is
<1>5. outs' = Plus1(outs, k) => Counts(outs, outs', k) /\ outs'[k] = Up(u)
    BY <1>1, Plus1Is
<1>6. SameLock(o, q)
    BY KindOfMove
<1>7. q.type = o.type /\ o.value \in Nat /\ (o.waiter # NoProc => Unavailable(o, o.waiter))
    BY <1>6 DEF SameLock, SameName, Core, Values, NoLostWakeup
<1>8. Passed(s, q) => o.waiter # NoProc /\ q.data = o.data /\ q.value = o.value
    BY DEF Passed, Serving
<1> DEFINE w == o.waiter
<1>9. ASSUME Passed(s, q), o.type \in {"queue", "sem"} PROVE Fits(q, Up(i), Up(u))
    <2>1. Unavailable(o, w) /\ q.data = o.data /\ q.value = o.value
        BY <1>7, <1>8, <1>9
    <2> HIDE DEF o, i, u, w
    <2> QED BY <1>2, <1>7, <1>9, <2>1, PassFits
<1>10. ASSUME o.type = "event" PROVE Fits(q, i, u)
    BY <1>7, <1>10 DEF Fits
<1>11. CASE DidSendByte(s, q, k)
    <2>1. CASE Passed(s, q) /\ o.type = "queue" /\ ins' = Plus1(ins, k) /\ outs' = Plus1(outs, k)
        <3>1. Fits(q, Up(i), Up(u))
            BY <1>9, <2>1
        <3> QED BY <1>4, <1>5, <2>1, <3>1
    <2>2. CASE /\ NewData(s, q, Append(o.data, i)) /\ Len(o.data) < Cap
               /\ ins' = Plus1(ins, k) /\ UNCHANGED outs
        <3>1. q.data = Append(o.data, i) /\ o.type = "queue" /\ Len(o.data) < Cap
            BY <2>2 DEF NewData
        <3> HIDE DEF o, i, u
        <3>2. Fits(q, Up(i), u)
            BY <1>2, <1>7, <3>1, InFits
        <3> QED BY <1>3, <1>4, <2>2, <3>2 DEF u
    <2> QED BY <1>11, <2>1, <2>2 DEF DidSendByte
<1>12. CASE DidSetEvent(s, q)
    <2>1. o.type = "event" /\ ins' = ins /\ outs' = outs
        BY <1>12 DEF DidSetEvent
    <2> QED BY <1>3, <1>10, <2>1
<1>13. CASE DidReceive(s, q, k)
    <2>1. CASE NewData(s, q, Tail(o.data)) /\ o.data # <<>> /\ outs' = Plus1(outs, k)
        <3>1. q.data = Tail(o.data) /\ o.type = "queue" /\ o.data # <<>> /\ ins' = ins
            BY <1>13, <2>1 DEF NewData, DidReceive
        <3> HIDE DEF o, i, u
        <3>2. Fits(q, i, Up(u))
            BY <1>2, <1>7, <3>1, OutFits
        <3> QED BY <1>3, <1>5, <2>1, <3>1, <3>2 DEF i
    <2>2. CASE o.type = "event" /\ UNCHANGED outs
        <3>1. ins' = ins /\ outs' = outs
            BY <1>13, <2>2 DEF DidReceive
        <3> QED BY <1>3, <1>10, <2>2, <3>1
    <2> QED BY <1>13, <2>1, <2>2 DEF DidReceive
<1>14. CASE DidSemWait(s, q, k)
    <2>1. /\ o.type = "sem" /\ o.value > 0 /\ q.value = o.value - 1
          /\ ins' = ins /\ outs' = Plus1(outs, k)
        BY <1>14 DEF DidSemWait, NewValue
    <2> HIDE DEF o, i, u
    <2>2. Fits(q, i, Up(u))
        BY <1>2, <1>7, <2>1, OutFits
    <2> QED BY <1>3, <1>5, <2>1, <2>2 DEF i
<1>15. CASE DidSemPost(s, q, k)
    <2>1. o.type = "sem" /\ ins' = Plus1(ins, k)
        BY <1>15 DEF DidSemPost
    <2>2. CASE Passed(s, q) /\ outs' = Plus1(outs, k)
        <3>1. Fits(q, Up(i), Up(u))
            BY <1>9, <2>1, <2>2
        <3> QED BY <1>4, <1>5, <2>1, <2>2, <3>1
    <2>3. CASE NewValue(s, q, o.value + 1) /\ o.value < MaxValue /\ UNCHANGED outs
        <3>1. q.value = o.value + 1 /\ o.value < MaxValue /\ outs' = outs
            BY <2>3 DEF NewValue
        <3> HIDE DEF o, i, u
        <3>2. Fits(q, Up(i), u)
            BY <1>2, <1>7, <2>1, <3>1, InFits
        <3> QED BY <1>3, <1>4, <2>1, <3>1, <3>2 DEF u
    <2> QED BY <1>15, <2>2, <2>3 DEF DidSemPost
<1> QED BY <1>11, <1>12, <1>13, <1>14, <1>15 DEF DidUnits

\* The steps that move no unit.
SameContents ==
    /\ \A s \in Slots :
        /\ obj'[s].type = obj[s].type /\ obj'[s].data = obj[s].data
        /\ obj'[s].value = obj[s].value /\ obj'[s].serial = obj[s].serial
    /\ UNCHANGED <<ins, outs, issued>>

LEMMA NothingMoves ==
    ASSUME Core, Locking \/ Stopping \/ Leaving \/ Ticking \/ KeyWake
    PROVE  SameContents
<1>1. CASE Locking
    <2>1. PICK p \in Procs, k \in DOMAIN issued, s \in Slots, q \in Object : Through(p, k, s) /\ DidMutex(s, q, p, k)
        BY <1>1 DEF Locking
    <2>2. /\ Quietly(s, q) \/ Serving(s, q)
          /\ SameName(obj[s], q) /\ q.data = obj[s].data
          /\ q.value = obj[s].value /\ UNCHANGED <<ins, outs>>
        BY <2>1, KindOfLock
    <2>3. Put(s, q)
        BY <2>2 DEF Quietly, Serving
    <2>4. obj'[s] = q /\ \A r \in Slots : r # s => obj'[r] = obj[r]
        BY <2>3, PutIs DEF Core
    <2> QED BY <2>1, <2>2, <2>4 DEF SameContents, SameName, Through
<1>2. CASE Stopping
    <2>1. PICK p \in Procs, k \in DOMAIN issued, s \in Slots, timeout \in Timeouts : Blocking(p, s, timeout) /\ UNCHANGED ghosts
        BY <1>2 DEF Stopping
    <2>2. /\ obj' = [obj EXCEPT ![s].waiter = p, ![s].deadline = (ticks + timeout) % TickMod]
          /\ obj \in [Slots -> Object]
        BY <2>1 DEF Blocking, Core, Types
    <2>3. \A r \in Slots : /\ obj'[r].type = obj[r].type /\ obj'[r].data = obj[r].data
                           /\ obj'[r].value = obj[r].value /\ obj'[r].serial = obj[r].serial
        BY <2>2 DEF Object
    <2> QED BY <2>1, <2>3 DEF SameContents, ghosts
<1>3. CASE Leaving
    BY <1>3 DEF Leaving, Idle, ghosts, SameContents
<1>4. CASE Ticking
    <2>1. PICK step \in 1..MaxStep : Tick(step)
        BY <1>4 DEF Ticking
    <2>2. /\ obj' = [s \in Slots |-> IF s \in Over(step) THEN ClearWaiter(obj[s]) ELSE obj[s]]
          /\ UNCHANGED <<ins, outs, issued>>
        BY <2>1, TickIs DEF ghosts
    <2>3. \A s \in Slots : /\ ClearWaiter(obj[s]).type = obj[s].type /\ ClearWaiter(obj[s]).data = obj[s].data
                           /\ ClearWaiter(obj[s]).value = obj[s].value
                           /\ ClearWaiter(obj[s]).serial = obj[s].serial
        BY ClearWaiterIs DEF Core, Types
    <2> QED BY <2>2, <2>3 DEF SameContents
<1>5. CASE KeyWake
    BY <1>5 DEF KeyWake, ghosts, SameContents
<1> QED BY <1>1, <1>2, <1>3, <1>4, <1>5

\* The objects of S end: nobody holds them, nothing is left in them.
LEMMA EndingIs ==
    ASSUME Core, Others, NEW S, Ending(S)
    PROVE  LET K == {obj[s].serial : s \in S} IN
           /\ S \subseteq Slots
           /\ \A s \in S : obj'[s].serial = 0 /\ obj'[s].type = "none" /\ obj'[s].lock = NoProc
           /\ \A s \in Slots : s \notin S => obj'[s] = obj[s]
           /\ holds' = [p \in Procs |-> holds[p] \ K]
           /\ ins' = [k \in Serials |-> IF k \in K THEN 0 ELSE ins[k]]
           /\ outs' = [k \in Serials |-> IF k \in K THEN 0 ELSE outs[k]]
<1>1. S \subseteq Slots /\ Release(S)
    BY DEF Ending
<1>2. obj' = [s \in Slots |-> IF s \in S THEN Zero(obj[s].gen) ELSE obj[s]]
    BY <1>1 DEF Release
<1>3. \A s \in Slots : /\ Zero(obj[s].gen).serial = 0 /\ Zero(obj[s].gen).type = "none"
                       /\ Zero(obj[s].gen).lock = NoProc
    BY FreeSlot DEF Core, Types, Object
<1>4. /\ \A s \in S : obj'[s].serial = 0 /\ obj'[s].type = "none" /\ obj'[s].lock = NoProc
      /\ \A s \in Slots : s \notin S => obj'[s] = obj[s]
    BY <1>1, <1>2, <1>3
<1>5. LET K == {obj[s].serial : s \in S} IN
      /\ holds' = [p \in Procs |-> holds[p] \ K]
      /\ ins' = [k \in Serials |-> IF k \in K THEN 0 ELSE ins[k]]
      /\ outs' = [k \in Serials |-> IF k \in K THEN 0 ELSE outs[k]]
    BY <1>1 DEF Release
<1> QED BY <1>1, <1>4, <1>5

LEMMA StepKeepsStored ==
    ASSUME Core, Others, Named, Fresh, Stored, Step
    PROVE  Stored'
<1>0. Named'
    BY StepKeepsNamed
<1>1. CASE Creating
    <2>1. PICK s \in Slots, q \in Object, initial \in {0, 1} : DidCreate(s, q, initial)
        BY <1>1 DEF Creating
    <2> DEFINE n == Len(issued)
    <2>2. /\ obj'[s] = q /\ \A r \in Slots : r # s => obj'[r] = obj[r]
          /\ q.serial = n + 1 /\ n \in Nat /\ DOMAIN issued = 1..n /\ DOMAIN issued' = 1..(n + 1)
        BY <2>1, CreateNames
    <2>3. /\ ins' = [ins EXCEPT ![n + 1] = initial] /\ outs' = outs /\ n + 1 \in Serials
          /\ q.value = initial /\ q.data = <<>> /\ initial \in {0, 1}
          /\ initial = 0 \/ q.type \in {"sem", "event"}
        BY <2>1, <2>2 DEF DidCreate
    <2>4. ins'[n + 1] = initial /\ \A k \in Serials : k # n + 1 => ins'[k] = ins[k]
        BY <2>3 DEF Others
    <2> HIDE DEF n
    <2>5. outs[n + 1] = 0
        BY <2>2, <2>3 DEF Stored
    <2>6. Fits(q, initial, 0)
        <3>1. initial \in Counter /\ 0 \in Counter /\ initial \in Nat /\ initial <= MaxValue
            BY <2>3, Sizes DEF Counter
        <3>2. Stock(initial, 0) = initial
            BY <3>1, StockIs
        <3>3. q.type = "queue" => initial = 0
            BY <2>3
        <3>4. initial = 0 => Held(initial, 0) = <<>>
            <4>1. Held(initial, 0) \in Seq(Nat) /\ Len(Held(initial, 0)) = Stock(initial, 0)
                BY <3>1, HeldIs
            <4> QED BY <3>2, <4>1, EmptySeq
        <3> QED BY <2>3, <3>1, <3>2, <3>3, <3>4, Sizes DEF Fits
    <2>7. ASSUME NEW r \in Slots, obj'[r].serial # 0
          PROVE  Fits(obj'[r], ins'[obj'[r].serial], outs'[obj'[r].serial])
        <3>1. CASE r = s
            BY <2>2, <2>3, <2>4, <2>5, <2>6, <3>1
        <3>2. CASE r # s
            <4>1. obj'[r] = obj[r] /\ obj[r].serial \in 1..n
                BY <2>2, <2>7, <3>2 DEF Named
            <4>2. obj[r].serial \in Serials /\ obj[r].serial # n + 1
                BY <2>2, <4>1, IssuedSerials
            <4> QED BY <2>3, <2>4, <2>7, <4>1, <4>2 DEF Stored
        <3> QED BY <3>1, <3>2
    <2>8. \A k \in Serials : k \notin DOMAIN issued' => outs'[k] = 0
        BY <2>2, <2>3 DEF Stored
    <2> QED BY <2>7, <2>8 DEF Stored
<1>2. CASE Moving
    <2>1. PICK p \in Procs, k \in DOMAIN issued, s \in Slots, q \in Object : Through(p, k, s) /\ DidUnits(s, q, k)
        BY <1>2 DEF Moving
    <2>2. obj[s].serial = k /\ k \in Serials /\ k # 0 /\ UNCHANGED issued
        BY <2>1, HandlesMean, IssuedSerials DEF Through, Serials
    <2>3. /\ SameLock(obj[s], q) /\ Put(s, q)
        BY <2>1, KindOfMove DEF Quietly, Serving
    <2>4. obj'[s] = q /\ \A r \in Slots : r # s => obj'[r] = obj[r]
        BY <2>3, PutIs DEF Core
    <2>5. Fits(obj[s], ins[k], outs[k])
        BY <2>2 DEF Stored
    <2>6. Fits(q, ins'[k], outs'[k]) /\ Counts(ins, ins', k) /\ Counts(outs, outs', k)
        BY <2>1, <2>2, <2>5, MoveFits
    <2>7. ASSUME NEW r \in Slots, obj'[r].serial # 0
          PROVE  Fits(obj'[r], ins'[obj'[r].serial], outs'[obj'[r].serial])
        <3>1. CASE r = s
            BY <2>2, <2>3, <2>4, <2>6, <3>1 DEF SameLock, SameName
        <3>2. CASE r # s
            <4>1. obj'[r] = obj[r] /\ obj[r].serial \in DOMAIN issued
                BY <2>4, <2>7, <3>2 DEF Named
            <4>2. obj[r].serial \in Serials /\ obj[r].serial # k
                BY <2>2, <3>2, <4>1, IssuedSerials, SerialsDiffer
            <4> QED BY <2>6, <2>7, <4>1, <4>2 DEF Stored, Counts
        <3> QED BY <3>1, <3>2
    <2>8. \A j \in Serials : j \notin DOMAIN issued' => outs'[j] = 0
        BY <2>1, <2>2, <2>6 DEF Stored, Counts
    <2> QED BY <2>7, <2>8 DEF Stored
<1>3. CASE Locking \/ Stopping \/ Leaving \/ Ticking \/ KeyWake
    <2>1. SameContents
        BY <1>3, NothingMoves
    <2> QED BY <2>1 DEF Stored, SameContents, Fits
<1>4. CASE Closing
    <2>1. PICK S : Ending(S) /\ UNCHANGED issued
        BY <1>4 DEF Closing
    <2> DEFINE K == {obj[s].serial : s \in S}
    <2>2. /\ S \subseteq Slots /\ \A s \in S : obj'[s].serial = 0
          /\ \A s \in Slots : s \notin S => obj'[s] = obj[s]
          /\ ins' = [k \in Serials |-> IF k \in K THEN 0 ELSE ins[k]]
          /\ outs' = [k \in Serials |-> IF k \in K THEN 0 ELSE outs[k]]
        BY <2>1, EndingIs
    <2>3. ASSUME NEW r \in Slots, obj'[r].serial # 0
          PROVE  Fits(obj'[r], ins'[obj'[r].serial], outs'[obj'[r].serial])
        <3>1. r \notin S /\ obj'[r] = obj[r] /\ obj[r].serial # 0
            BY <2>2, <2>3
        <3>2. obj[r].serial \notin K
            BY <2>2, <3>1, SerialsDiffer
        <3>3. obj[r].serial \in Serials
            BY <3>1, IssuedSerials DEF Named
        <3> HIDE DEF K
        <3>4. ins'[obj[r].serial] = ins[obj[r].serial] /\ outs'[obj[r].serial] = outs[obj[r].serial]
            BY <2>2, <3>2, <3>3
        <3> QED BY <3>1, <3>4 DEF Stored
    <2> HIDE DEF K
    <2>4. \A j \in Serials : j \notin DOMAIN issued' => outs'[j] = 0
        BY <2>1, <2>2 DEF Stored
    <2> QED BY <2>3, <2>4 DEF Stored
<1> QED BY <1>1, <1>2, <1>3, <1>4 DEF Step

-----------------------------------------------------------------------------
(* Mutexes.                                                                *)

\* What a live process was told that it holds is locked for it.
Locked ==
    \A p \in Procs : life[p] = "live" =>
        \A k \in holds[p] : \E s \in Slots : obj[s].serial = k /\ obj[s].lock = p

LEMMA KeepsLocks ==
    ASSUME Locked, Dying, UNCHANGED holds,
           \A s \in Slots : obj'[s].serial = obj[s].serial /\ obj'[s].lock = obj[s].lock
    PROVE  Locked'
BY DEF Locked, Dying

LEMMA StepKeepsLocked ==
    ASSUME Core, Others, Named, Fresh, Locked, Step
    PROVE  Locked'
<1>0. UNCHANGED life => Dying
    BY DEF Others, Dying
<1>01. \A p \in Procs : holds[p] \subseteq Serials /\ p # NoProc
    BY Sizes DEF Others
<1>1. CASE Creating
    <2>1. PICK s \in Slots, q \in Object, initial \in {0, 1} : DidCreate(s, q, initial)
        BY <1>1 DEF Creating
    <2>2. obj[s].serial = 0 /\ \A r \in Slots : r # s => obj'[r] = obj[r]
        BY <2>1, CreateNames
    <2>3. UNCHANGED <<life, holds>> /\ 0 \notin Serials
        BY <2>1 DEF DidCreate, Serials
    <2> QED BY <1>01, <2>2, <2>3 DEF Locked
<1>2. CASE Moving
    <2>1. PICK p \in Procs, k \in DOMAIN issued, s \in Slots, q \in Object : Through(p, k, s) /\ DidUnits(s, q, k)
        BY <1>2 DEF Moving
    <2>2. SameLock(obj[s], q) /\ Put(s, q) /\ UNCHANGED <<life, holds>>
        BY <2>1, KindOfMove DEF Quietly, Serving, Through, DidUnits
    <2>3. obj'[s] = q /\ \A r \in Slots : r # s => obj'[r] = obj[r]
        BY <2>2, PutIs DEF Core
    <2>4. \A r \in Slots : obj'[r].serial = obj[r].serial /\ obj'[r].lock = obj[r].lock
        BY <2>2, <2>3 DEF SameLock, SameName
    <2> QED BY <1>0, <2>2, <2>4, KeepsLocks
<1>3. CASE Locking
    <2>1. PICK p \in Procs, k \in DOMAIN issued, s \in Slots, q \in Object : Through(p, k, s) /\ DidMutex(s, q, p, k)
        BY <1>3 DEF Locking
    <2>2. obj[s].serial = k /\ k \in Serials /\ UNCHANGED life
        BY <2>1, HandlesMean, IssuedSerials DEF Through
    <2>3. SameName(obj[s], q) /\ Put(s, q)
        BY <2>1, KindOfLock DEF Quietly, Serving
    <2>4. obj'[s] = q /\ q.serial = k /\ \A r \in Slots : r # s => obj'[r] = obj[r]
        BY <2>2, <2>3, PutIs DEF Core, SameName
    <2>5. \A r \in Slots : obj[r].serial = k => r = s
        BY <2>2, SerialsDiffer, IssuedSerials DEF Serials, Named
    \* Another mutex is locked as before; this one for who holds it.
    <2>6. ASSUME NEW x \in Procs, life[x] = "live", NEW j \in holds[x], j # k
          PROVE  \E r \in Slots : obj'[r].serial = j /\ obj'[r].lock = x
        <3>1. PICK r \in Slots : obj[r].serial = j /\ obj[r].lock = x
            BY <2>6 DEF Locked
        <3> QED BY <2>2, <2>4, <2>6, <3>1
    <2>7. ASSUME NEW x \in Procs, life[x] = "live", k \in holds[x] PROVE obj[s].lock = x
        BY <2>5, <2>7 DEF Locked
    <2>8. CASE DidLock(s, q, p, k)
        <3>1. /\ q.lock = p /\ obj[s].lock \in {NoProc, p} /\ holds' = [holds EXCEPT ![p] = @ \union {k}]
            BY <2>8 DEF DidLock, NewLock
        <3>2. ASSUME NEW x \in Procs, life[x] = "live", NEW j \in holds'[x]
              PROVE  \E r \in Slots : obj'[r].serial = j /\ obj'[r].lock = x
            <4>1. holds'[x] = IF x = p THEN holds[p] \union {k} ELSE holds[x]
                BY <3>1 DEF Others
            <4>2. CASE j = k
                <5>1. x = p
                    BY <1>01, <2>7, <3>1, <3>2, <4>1, <4>2
                <5> QED BY <2>4, <3>1, <4>2, <5>1
            <4>3. CASE j # k
                BY <2>6, <3>2, <4>1, <4>3
            <4> QED BY <4>2, <4>3
        <3> QED BY <2>2, <3>2 DEF Locked
    <2>9. CASE obj[s].type = "mutex" /\ DidUnlock(s, q, p, k)
        <3>1. CASE /\ NewLock(s, q, obj[s].waiter) /\ Serving(s, q)
                   /\ holds' = [Unheld(k) EXCEPT ![obj[s].waiter] =
                          IF obj[s].waiter \in blocked THEN @ \union {k} ELSE @]
            <4> DEFINE w == obj[s].waiter
            <4>1. q.lock = w /\ w \in Procs
                BY <3>1 DEF NewLock, Serving, Core, Types, Object
            <4>2. ASSUME NEW x \in Procs, life[x] = "live", NEW j \in holds'[x]
                  PROVE  \E r \in Slots : obj'[r].serial = j /\ obj'[r].lock = x
                <5>1. \/ j \in holds[x] /\ j # k
                      \/ x = w /\ j = k
                    BY <3>1, <4>1 DEF Unheld
                <5>2. CASE j \in holds[x] /\ j # k
                    BY <2>6, <4>2, <5>2
                <5>3. CASE x = w /\ j = k
                    BY <2>4, <4>1, <5>3
                <5> QED BY <5>1, <5>2, <5>3
            <4> QED BY <2>2, <4>2 DEF Locked
        <3>2. CASE holds' = Unheld(k)
            <4>1. \A x \in Procs : holds'[x] = holds[x] \ {k}
                BY <3>2 DEF Unheld
            <4> QED BY <2>2, <2>6, <4>1 DEF Locked
        <3> QED BY <2>9, <3>1, <3>2 DEF DidUnlock
    <2> QED BY <2>1, <2>8, <2>9 DEF DidMutex
<1>4. CASE Stopping
    <2>1. PICK p \in Procs, k \in DOMAIN issued, s \in Slots, timeout \in Timeouts : Through(p, k, s) /\ Blocking(p, s, timeout) /\ UNCHANGED ghosts
        BY <1>4 DEF Stopping
    <2>2. /\ obj' = [obj EXCEPT ![s].waiter = p, ![s].deadline = (ticks + timeout) % TickMod]
          /\ obj \in [Slots -> Object] /\ UNCHANGED <<life, holds>>
        BY <2>1 DEF Blocking, Core, Types, Through, ghosts
    <2>3. \A r \in Slots : obj'[r].lock = obj[r].lock /\ obj'[r].serial = obj[r].serial
        BY <2>2 DEF Object
    <2> QED BY <1>0, <2>2, <2>3, KeepsLocks
<1>5. CASE Closing
    <2>1. PICK S : Ending(S) /\ Dying
        BY <1>5 DEF Closing
    <2> DEFINE K == {obj[s].serial : s \in S}
    <2>2. /\ \A s \in Slots : s \notin S => obj'[s] = obj[s]
          /\ holds' = [p \in Procs |-> holds[p] \ K]
        BY <2>1, EndingIs
    <2>3. ASSUME NEW x \in Procs, life'[x] = "live", NEW j \in holds'[x]
          PROVE  \E r \in Slots : obj'[r].serial = j /\ obj'[r].lock = x
        <3>1. j \in holds[x] /\ j \notin K /\ life[x] = "live"
            BY <2>1, <2>2, <2>3 DEF Dying
        <3>2. PICK r \in Slots : obj[r].serial = j /\ obj[r].lock = x
            BY <3>1 DEF Locked
        <3>3. r \notin S
            BY <3>1, <3>2
        <3> QED BY <2>2, <3>2, <3>3
    <2> QED BY <2>3 DEF Locked
<1>6. CASE Leaving
    <2>1. Dying /\ UNCHANGED <<obj, holds>>
        BY <1>6 DEF Leaving, Idle, ghosts
    <2> QED BY <2>1, KeepsLocks
<1>7. CASE Ticking
    <2>1. PICK step \in 1..MaxStep : Tick(step)
        BY <1>7 DEF Ticking
    <2>2. /\ obj' = [s \in Slots |-> IF s \in Over(step) THEN ClearWaiter(obj[s]) ELSE obj[s]]
          /\ UNCHANGED <<life, holds>>
        BY <2>1, TickIs DEF ghosts
    <2>3. \A s \in Slots : ClearWaiter(obj[s]).lock = obj[s].lock /\ ClearWaiter(obj[s]).serial = obj[s].serial
        BY ClearWaiterIs DEF Core, Types
    <2>4. \A s \in Slots : obj'[s].serial = obj[s].serial /\ obj'[s].lock = obj[s].lock
        BY <2>2, <2>3
    <2> QED BY <1>0, <2>2, <2>4, KeepsLocks
<1>8. CASE KeyWake
    BY <1>0, <1>8, KeepsLocks DEF KeyWake, ghosts
<1> QED BY <1>1, <1>2, <1>3, <1>4, <1>5, <1>6, <1>7, <1>8 DEF Step

-----------------------------------------------------------------------------
(* The invariants.                                                         *)

LEMMA CountersTyped ==
    ASSUME Others, NEW s, NEW q, NEW k \in Serials, DidUnits(s, q, k)
    PROVE  ins' \in [Serials -> Counter] /\ outs' \in [Serials -> Counter]
<1>1. ins \in [Serials -> Counter] /\ outs \in [Serials -> Counter]
    BY DEF Others, Counter
<1>2. Plus1(ins, k) \in [Serials -> Counter] /\ Plus1(outs, k) \in [Serials -> Counter]
    BY <1>1, Plus1Is DEF Counts
<1>3. /\ ins' = ins \/ ins' = Plus1(ins, k)
      /\ outs' = outs \/ outs' = Plus1(outs, k)
    BY DEF DidUnits, DidSendByte, DidSetEvent, DidReceive, DidSemWait, DidSemPost
<1> QED BY <1>1, <1>2, <1>3

LEMMA StepKeepsOthers ==
    ASSUME Core, Others, Step
    PROVE  Others'
<1>1. /\ ins \in [Serials -> Counter] /\ outs \in [Serials -> Counter] /\ Counter = 0..(Wrap - 1)
      /\ holds \in [Procs -> SUBSET Serials]
    BY DEF Others, Counter
<1>2. UNCHANGED life => life' \in [Procs -> {"live", "exited", "gone"}]
    BY DEF Others
<1>3. ASSUME life' \in [Procs -> {"live", "exited", "gone"}], UNCHANGED plan, UNCHANGED issued,
             holds' \in [Procs -> SUBSET Serials],
             ins' \in [Serials -> Counter], outs' \in [Serials -> Counter]
      PROVE  Others'
    BY <1>1, <1>3 DEF Others
<1>4. CASE Creating
    <2>1. PICK s \in Slots, q \in Object, initial \in {0, 1} : DidCreate(s, q, initial)
        BY <1>4 DEF Creating
    <2>2. issued' \in Seq([slot : Slots, gen : 0..(GenMod - 1)]) /\ Len(issued') <= MaxCreates
        BY <2>1, CreateNames
    <2>3. /\ ins' = [ins EXCEPT ![q.serial] = initial] /\ UNCHANGED <<life, holds, outs, plan>>
        BY <2>1 DEF DidCreate, Quietly, env
    <2>4. initial \in Counter
        BY Sizes DEF Counter
    <2>5. ins' \in [Serials -> Counter]
        BY <1>1, <2>3, <2>4
    <2> QED BY <1>1, <2>2, <2>3, <2>5 DEF Others
<1>5. CASE Moving
    <2>1. PICK p \in Procs, k \in DOMAIN issued, s \in Slots, q \in Object : Through(p, k, s) /\ DidUnits(s, q, k)
        BY <1>5 DEF Moving
    <2>2. ins' \in [Serials -> Counter] /\ outs' \in [Serials -> Counter]
        BY <2>1, IssuedSerials, CountersTyped
    <2>3. UNCHANGED <<life, issued, holds, plan>>
        <3>1. Quietly(s, q) \/ Serving(s, q)
            BY <2>1, KindOfMove
        <3> QED BY <2>1, <3>1 DEF Through, DidUnits, Quietly, Serving, env
    <2> QED BY <1>1, <1>2, <1>3, <2>2, <2>3
<1>6. CASE Locking
    <2>1. PICK p \in Procs, k \in DOMAIN issued, s \in Slots, q \in Object : Through(p, k, s) /\ DidMutex(s, q, p, k)
        BY <1>6 DEF Locking
    <2>2. UNCHANGED <<life, issued, ins, outs, plan>> /\ k \in Serials
        <3>1. /\ Quietly(s, q) \/ Serving(s, q)
              /\ UNCHANGED <<ins, outs>>
            BY <2>1, KindOfLock
        <3> QED BY <2>1, <3>1, IssuedSerials DEF Through, Quietly, Serving, env
    <2>3. holds' \in [Procs -> SUBSET Serials]
        <3>1. Unheld(k) \in [Procs -> SUBSET Serials]
            BY <1>1 DEF Unheld
        <3>2. \/ holds' = [holds EXCEPT ![p] = @ \union {k}]
              \/ holds' = Unheld(k)
              \/ holds' = [Unheld(k) EXCEPT ![obj[s].waiter] =
                             IF obj[s].waiter \in blocked THEN @ \union {k} ELSE @]
            BY <2>1 DEF DidMutex, DidLock, DidUnlock
        <3>3. CASE holds' = [holds EXCEPT ![p] = @ \union {k}]
            BY <1>1, <2>2, <3>3
        <3>4. CASE holds' = [Unheld(k) EXCEPT ![obj[s].waiter] =
                             IF obj[s].waiter \in blocked THEN @ \union {k} ELSE @]
            BY <2>2, <3>1, <3>4
        <3> QED BY <3>1, <3>2, <3>3, <3>4
    <2> QED BY <1>1, <1>2, <1>3, <2>2, <2>3
<1>7. CASE Stopping
    <2>1. UNCHANGED <<life, issued, holds, plan, ins, outs>>
        BY <1>7 DEF Stopping, Through, Blocking, ghosts, env
    <2> QED BY <1>1, <1>2, <1>3, <2>1
<1>8. CASE Closing
    <2>1. PICK S : Ending(S) /\ UNCHANGED issued /\ Dying
        BY <1>8 DEF Closing
    <2> DEFINE K == {obj[s].serial : s \in S}
    <2>2. /\ holds' = [p \in Procs |-> holds[p] \ K]
          /\ ins' = [k \in Serials |-> IF k \in K THEN 0 ELSE ins[k]]
          /\ outs' = [k \in Serials |-> IF k \in K THEN 0 ELSE outs[k]]
        BY <2>1, EndingIs
    <2> HIDE DEF K
    <2>3. 0 \in Counter
        BY Sizes DEF Counter
    <2>4. ins' \in [Serials -> Counter] /\ outs' \in [Serials -> Counter]
        BY <1>1, <2>2, <2>3
    <2>5. holds' \in [Procs -> SUBSET Serials]
        BY <1>1, <2>2
    <2>6. UNCHANGED plan /\ life' \in [Procs -> {"live", "exited", "gone"}]
        BY <2>1 DEF Ending, env, Dying
    <2> QED BY <1>3, <2>1, <2>4, <2>5, <2>6
<1>9. CASE Leaving
    <2>1. UNCHANGED <<issued, holds, plan, ins, outs>> /\ life' \in [Procs -> {"live", "exited", "gone"}]
        BY <1>9 DEF Leaving, Idle, ghosts, env, Dying
    <2> QED BY <1>1, <1>3, <2>1
<1>10. CASE Ticking
    <2>1. PICK step \in 1..MaxStep : Tick(step)
        BY <1>10 DEF Ticking
    <2>2. UNCHANGED <<life, issued, holds, plan, ins, outs>>
        BY <2>1, TickIs DEF ghosts, env
    <2> QED BY <1>1, <1>2, <1>3, <2>2
<1>11. CASE KeyWake
    <2>1. UNCHANGED <<life, issued, holds, plan, ins, outs>>
        BY <1>11 DEF KeyWake, ghosts, env
    <2> QED BY <1>1, <1>2, <1>3, <2>1
<1> QED BY <1>4, <1>5, <1>6, <1>7, <1>8, <1>9, <1>10, <1>11 DEF Step

Base == Core /\ Others /\ Named
IInv == Base /\ Fresh /\ Stored /\ Locked

LEMMA InitBase == Init => Base
<1> SUFFICES ASSUME Init PROVE Base
    OBVIOUS
<1>1. /\ obj = [s \in Slots |-> Zero(0)] /\ life = [p \in Procs |-> "live"] /\ blocked = {}
      /\ ticks = 0 /\ keys \in BOOLEAN /\ plan \in Plans /\ issued = <<>>
      /\ holds = [p \in Procs |-> {}] /\ res = [p \in Procs |-> "none"]
      /\ ins = [k \in Serials |-> 0] /\ outs = [k \in Serials |-> 0] /\ due = [p \in Procs |-> 0]
    BY DEF Init
<1>2. 0 \in 0..(GenMod - 1)
    BY Sizes
<1>3. /\ Zero(0) \in Object /\ Zero(0).waiter = NoProc /\ Zero(0).value = 0
      /\ Zero(0).type = "none" /\ Zero(0).serial = 0
    BY <1>2, FreeSlot
<1>4. \A s \in Slots : obj[s] = Zero(0)
    BY <1>1
<1>5. Types
    <2>1. obj \in [Slots -> Object]
        BY <1>1, <1>3
    <2>2. ticks \in 0..(TickMod - 1)
        BY <1>1, Sizes
    <2>3. res \in [Procs -> Results]
        BY <1>1 DEF Results
    <2> QED BY <1>1, <2>1, <2>2, <2>3 DEF Types
<1>6. Blank /\ Values /\ Timed /\ Alone /\ NoLostWakeup
    BY <1>1, <1>3, <1>4 DEF Blank, Values, Timed, Alone, NoLostWakeup
<1>7. Others
    <2>1. issued \in Seq([slot : Slots, gen : 0..(GenMod - 1)]) /\ Len(issued) <= MaxCreates
        BY <1>1, Sizes
    <2>2. 0 \in 0..(Wrap - 1)
        BY Sizes
    <2> QED BY <1>1, <2>1, <2>2 DEF Others
<1>8. Named
    BY <1>3, <1>4 DEF Named
<1> QED BY <1>5, <1>6, <1>7, <1>8 DEF Base, Core

LEMMA InitRest == Init => Fresh /\ Stored /\ Locked
<1> SUFFICES ASSUME Init PROVE Fresh /\ Stored /\ Locked
    OBVIOUS
<1>1. /\ obj = [s \in Slots |-> Zero(0)] /\ issued = <<>>
      /\ holds = [p \in Procs |-> {}] /\ outs = [k \in Serials |-> 0]
    BY DEF Init
<1>2. 0 \in 0..(GenMod - 1)
    BY Sizes
<1>3. Zero(0).serial = 0 /\ Zero(0).gen = 0
    BY <1>2, FreeSlot
<1>4. \A s \in Slots : obj[s] = Zero(0)
    BY <1>1
<1>5. DOMAIN issued = {} /\ Len(issued) = 0
    BY <1>1
<1> QED BY <1>1, <1>3, <1>4, <1>5 DEF Fresh, Stored, Locked

LEMMA StutterKeeps ==
    ASSUME IInv \/ Base, UNCHANGED vars
    PROVE  (Base => Base') /\ (IInv => IInv')
<1>1. UNCHANGED <<obj, life, blocked, ticks, keys, plan, issued, holds, res, ins, outs, due>>
    BY DEF vars
<1>2. Core => Core'
    BY <1>1 DEF Core, Types, Blank, Values, Timed, Due, Alone, NoLostWakeup
<1>3. Others => Others'
    BY <1>1 DEF Others
<1>4. (Named => Named') /\ (Fresh => Fresh') /\ (Stored => Stored') /\ (Locked => Locked')
    BY <1>1 DEF Named, Fresh, Stored, Locked
<1> QED BY <1>2, <1>3, <1>4 DEF Base, IInv

LEMMA NextBase == Base /\ [Next]_vars => Base'
<1>1. ASSUME Base, Next PROVE Base'
    BY <1>1, Steps, StepKeepsCore, StepKeepsOthers, StepKeepsNamed DEF Base
<1> QED BY <1>1, StutterKeeps

LEMMA NextIInv == ASSUME FewCreates PROVE IInv /\ [Next]_vars => IInv'
<1>1. ASSUME IInv, Next PROVE IInv'
    <2>1. Core /\ Others /\ Named /\ Fresh /\ Stored /\ Locked /\ Step
        BY <1>1, Steps DEF Base, IInv
    <2>2. Base'
        BY <1>1, NextBase DEF IInv
    <2>3. Fresh' /\ Stored' /\ Locked'
        BY <2>1, StepKeepsFresh, StepKeepsStored, StepKeepsLocked
    <2> QED BY <2>2, <2>3 DEF IInv
<1> QED BY <1>1, StutterKeeps

LEMMA BaseInvariant == Spec => []Base
<1> QED BY InitBase, NextBase, PTL DEF Spec

LEMMA Invariance == ASSUME FewCreates PROVE Spec => []IInv
<1>1. Init => IInv
    BY InitBase, InitRest DEF IInv
<1> QED BY <1>1, NextIInv, PTL DEF Spec

LEMMA BaseTypes == Base => TypeOK
<1> SUFFICES ASSUME Base PROVE TypeOK
    OBVIOUS
<1>1. Types /\ Others
    BY DEF Base, Core
<1>2. ins \in [Serials -> Nat] /\ outs \in [Serials -> Nat]
    BY <1>1, Sizes DEF Others
<1> QED BY <1>1, <1>2 DEF TypeOK, Types, Others

LEMMA BaseRecorded == Base => BlockedAreRecorded
<1> SUFFICES ASSUME Base PROVE BlockedAreRecorded
    OBVIOUS
<1>1. ASSUME NEW p \in blocked PROVE WaitsAt(p) # {}
    <2>1. p \in Procs /\ p # NoProc
        BY Sizes DEF Base, Core, Types
    <2>2. PICK s \in Slots : Due(p, s)
        BY DEF Base, Core, Timed
    <2>3. obj[s].waiter = p /\ obj[s].serial # 0
        BY <2>1, <2>2 DEF Base, Core, Blank, Due
    <2> QED BY <2>3 DEF WaitsAt, Used
<1>2. ASSUME ~keys, NEW p \in blocked PROVE Cardinality(WaitsAt(p)) = 1
    <2>1. PICK s : s \in WaitsAt(p)
        BY <1>1
    <2>2. p # NoProc
        BY Sizes DEF Base, Core, Types
    <2>3. WaitsAt(p) = {s}
        BY <1>2, <2>1, <2>2 DEF WaitsAt, Base, Core, Alone
    <2> QED BY <2>3, FS_Singleton
<1>3. ~keys => \A s \in Slots : obj[s].waiter # NoProc => obj[s].waiter \in blocked
    BY DEF Base, Core, Alone
<1> QED BY <1>1, <1>2, <1>3 DEF BlockedAreRecorded

LEMMA LockedExcludes == Base /\ Locked => MutualExclusion
<1> SUFFICES ASSUME Base, Locked, NEW k \in Serials
             PROVE  LET P == {p \in Procs : life[p] = "live" /\ k \in holds[p]} IN
                    /\ Cardinality(P) <= 1
                    /\ \A p \in P : \E s \in Slots : obj[s].serial = k /\ obj[s].lock = p
    BY DEF MutualExclusion
<1> DEFINE P == {p \in Procs : life[p] = "live" /\ k \in holds[p]}
<1>1. \A p \in P : \E s \in Slots : obj[s].serial = k /\ obj[s].lock = p
    BY DEF Locked
<1>2. k # 0
    BY DEF Serials
<1>3. \A p, q \in P : p = q
    <2> TAKE p, q \in P
    <2>1. PICK s \in Slots : obj[s].serial = k /\ obj[s].lock = p
        BY <1>1
    <2>2. PICK r \in Slots : obj[r].serial = k /\ obj[r].lock = q
        BY <1>1
    <2>3. s = r
        BY <1>2, <2>1, <2>2, SerialsDiffer DEF Base
    <2> QED BY <2>1, <2>2, <2>3
<1> HIDE DEF P
<1>4. Cardinality(P) <= 1
    <2>1. CASE P = {}
        BY <2>1, FS_EmptySet
    <2>2. CASE P # {}
        <3>1. PICK p : P = {p}
            BY <1>3, <2>2
        <3> QED BY <3>1, FS_Singleton
    <2> QED BY <2>1, <2>2
<1> QED BY <1>1, <1>4 DEF P

(* Whatever is called, times out, dies or is typed, and however often      *)
(* generations wrap: every blocked process is recorded by an object whose  *)
(* deadline ends its wait, and nobody waits for what is there.             *)
THEOREM NoWakeupIsLost == Spec => [](TypeOK /\ BlockedAreRecorded /\ NoLostWakeup)
<1>1. Base => TypeOK /\ BlockedAreRecorded /\ NoLostWakeup
    BY BaseTypes, BaseRecorded DEF Base, Core
<1> QED BY <1>1, BaseInvariant, PTL

(* ObjectsSound for every number of processes and slots: with the above, at *)
(* most one live process believes that it holds a mutex, and the mutex      *)
(* agrees, as long as fewer objects are created than there are generations. *)
THEOREM ObjectsStaySound == ASSUME FewCreates PROVE Spec => []ObjectsSound
<1>1. IInv => ObjectsSound
    BY BaseTypes, BaseRecorded, LockedExcludes DEF IInv, Base, Core, ObjectsSound
<1> QED BY <1>1, Invariance, PTL

(* A handle never names another object than the one it was given for, as   *)
(* long as fewer objects are created than there are generations.           *)
THEOREM HandlesDoNotAge == ASSUME FewCreates PROVE Spec => []StaleHandlesRefused
<1>1. IInv => StaleHandlesRefused
    BY HandlesMean DEF IInv, StaleHandlesRefused
<1> QED BY <1>1, Invariance, PTL

(* What is put through a handle is taken once and in order, whoever waited, *)
(* timed out or was woken (send, receive, wait, post and kobj_ipc_tick).    *)
THEOREM NothingLostOrDoubled == ASSUME FewCreates PROVE Spec => []UnitsConserved
<1>1. ASSUME IInv PROVE UnitsConserved
    <2> SUFFICES ASSUME NEW s \in Slots, Used(s)
                 PROVE  LET o == obj[s]  k == o.serial IN
                        /\ o.type = "queue" =>
                            /\ Len(o.data) <= Cap
                            /\ o.data = [i \in 1..((ins[k] - outs[k]) % Wrap) |-> (outs[k] + i - 1) % Wrap]
                        /\ o.type = "sem" => o.value = (ins[k] - outs[k]) % Wrap
        BY DEF UnitsConserved
    <2> DEFINE k == obj[s].serial  i == ins[k]  u == outs[k]
    <2>1. k \in Serials
        BY <1>1, IssuedSerials DEF Used, IInv, Base, Named
    <2>2. i \in Counter /\ u \in Counter
        BY <1>1, <2>1 DEF IInv, Base, Others, Counter
    <2>3. Fits(obj[s], i, u)
        BY <1>1 DEF Used, IInv, Stored
    <2> HIDE DEF i, u
    <2>4. Stock(i, u) \in Nat /\ u \in Nat
        BY <2>2, StockIs, Sizes DEF Counter
    <2>5. \A j \in 1..Stock(i, u) : u + (j - 1) = u + j - 1 /\ (u + (j - 1)) % Wrap = (u + j - 1) % Wrap
        BY <2>4
    <2>6. Held(i, u) = [j \in 1..Stock(i, u) |-> (u + j - 1) % Wrap]
        BY <2>5 DEF Held
    <2>7. obj[s].type = "queue" => Len(obj[s].data) <= Cap /\ obj[s].data = [j \in 1..Stock(i, u) |-> (u + j - 1) % Wrap]
        BY <2>3, <2>6 DEF Fits
    <2>8. obj[s].type = "sem" => obj[s].value = Stock(i, u)
        BY <2>3 DEF Fits
    <2> QED BY <2>7, <2>8 DEF Stock, i, u
<1> QED BY <1>1, Invariance, PTL

-----------------------------------------------------------------------------
(* Timeouts.                                                               *)

LEMMA OnlyTicksTimeOut ==
    ASSUME Step, ~Ticking, NEW p \in Procs PROVE res'[p] # "timeout"
<1>1. ASSUME NEW P, NEW r, r # "timeout", Wake(P, r) PROVE res'[p] # "timeout"
    <2>1. res'[p] = IF p \in P THEN r ELSE "none"
        BY <1>1 DEF Wake
    <2> QED BY <1>1, <2>1
<1>2. NoWake => res'[p] # "timeout"
    BY <1>1 DEF NoWake
<1>3. ASSUME NEW s, NEW q, Quietly(s, q) \/ Serving(s, q) PROVE res'[p] # "timeout"
    BY <1>1, <1>2, <1>3 DEF Quietly, Serving
<1>4. CASE Creating
    BY <1>3, <1>4 DEF Creating, DidCreate
<1>5. CASE Moving
    BY <1>3, <1>5, KindOfMove DEF Moving
<1>6. CASE Locking
    BY <1>3, <1>6, KindOfLock DEF Locking
<1>7. CASE Stopping
    BY <1>7 DEF Stopping, Blocking
<1>8. CASE Closing
    <2>1. PICK S : Ending(S)
        BY <1>8 DEF Closing
    <2> QED BY <1>1, <2>1 DEF Ending, Release
<1>9. CASE Leaving
    BY <1>2, <1>9 DEF Leaving, Idle
<1>10. CASE KeyWake
    BY <1>1, <1>10 DEF KeyWake
<1> QED BY <1>4, <1>5, <1>6, <1>7, <1>8, <1>9, <1>10 DEF Step

(* kobj_ipc_tick ends a wait at the first tick at which its time is over   *)
(* and not before, across the wrap of g_ticks and tickless sleeps, for     *)
(* every timeout below half the range of g_ticks.                          *)
THEOREM TimeoutsAreExact == Spec => TimeoutsExact
<1> DEFINE Exact == ~keys => \A p \in blocked :
        /\ p \in blocked' => due'[p] > 0
        /\ p \notin blocked' /\ res'[p] = "timeout"
            => due[p] <= (ticks' - ticks) % TickMod
<1>1. ASSUME Base, Base', Next, ~keys, NEW p \in blocked
      PROVE  /\ p \in blocked' => due'[p] > 0
             /\ p \notin blocked' /\ res'[p] = "timeout"
                    => due[p] <= (ticks' - ticks) % TickMod
    <2>1. ASSUME p \in blocked' PROVE due'[p] > 0
        <3>1. PICK s \in Slots : Due(p, s)'
            BY <1>1, <2>1 DEF Base, Core, Timed
        <3> QED BY <3>1, Sizes DEF Due
    <2>2. ASSUME p \notin blocked', res'[p] = "timeout"
          PROVE  due[p] <= (ticks' - ticks) % TickMod
        <3>1. p \in Procs /\ p # NoProc /\ Core /\ Step
            BY <1>1, Steps, Sizes DEF Base, Core, Types
        <3>2. Ticking
            BY <2>2, <3>1, OnlyTicksTimeOut
        <3>3. PICK step \in 1..MaxStep : Tick(step)
            BY <3>2 DEF Ticking
        <3>4. /\ ticks' = (ticks + step) % TickMod
              /\ res' = [q \in Procs |-> IF q \in TimedOut(step) THEN "timeout" ELSE "none"]
            BY <3>3, TickIs
        <3>5. p \in TimedOut(step)
            BY <2>2, <3>1, <3>4
        <3>6. PICK s \in Over(step) : obj[s].waiter = p
            BY <3>5 DEF TimedOut
        <3>7. PICK r \in Slots : Due(p, r)
            BY <1>1 DEF Base, Core, Timed
        <3>8. s \in Slots /\ r = s
            BY <1>1, <3>1, <3>6, <3>7 DEF Base, Core, Alone, Due, Over
        <3>9. due[p] <= step
            BY <3>1, <3>6, <3>7, <3>8, StillDue
        <3>10. (((ticks + step) % TickMod) - ticks) % TickMod = step
            BY <3>1, <3>7, StillDue
        <3> QED BY <3>4, <3>9, <3>10
    <2> QED BY <2>1, <2>2
<1>2. Base /\ Base' /\ [Next]_vars => [Exact]_vars
    BY <1>1
<1>3. Spec => [][Exact]_vars
    BY <1>2, BaseInvariant, PTL DEF Spec
<1> QED BY <1>3 DEF TimeoutsExact

-----------------------------------------------------------------------------
(* The refinement: what the mapping of Ipc makes of a state without keys.  *)

ObjectView ==
    /\ Avail \in [Serials -> Nat] /\ Holder \in [Serials -> Procs \union {NoProc}]
    /\ \A s \in Slots : obj[s].serial # 0 =>
        Avail[obj[s].serial] = Content(obj[s]) /\ Holder[obj[s].serial] = obj[s].lock
    /\ \A k \in Serials : (\A s \in Slots : obj[s].serial # k) => Avail[k] = 0 /\ Holder[k] = NoProc
WaitView ==
    /\ Waits \in [Procs -> Serials \union {0}]
    /\ \A p \in Procs : p \in blocked <=> Waits[p] # 0
    /\ \A s \in Slots : obj[s].waiter # NoProc =>
        /\ obj[s].waiter \in Procs /\ obj[s].waiter \in blocked
        /\ obj[s].serial # 0 /\ Waits[obj[s].waiter] = obj[s].serial
    /\ \A p \in Procs : Waits[p] # 0 =>
        \E s \in Slots : obj[s].waiter = p /\ obj[s].serial = Waits[p]
    /\ \A s \in Slots : obj[s].serial # 0 => obj[s].serial \in Serials
    /\ \A s, r \in Slots : obj[s].serial # 0 /\ obj[s].serial = obj[r].serial => s = r
View == ObjectView /\ WaitView

LEMMA ContentNat ==
    ASSUME NEW o \in Object, o.value \in Nat
    PROVE  Content(o) \in Nat
BY DEF Content, Object

LEMMA ViewIs == Base /\ ~keys => View
<1> SUFFICES ASSUME Base, ~keys PROVE View
    OBVIOUS
<1>1. /\ \A s \in Slots : obj[s] \in Object /\ obj[s].value \in Nat
                          /\ (obj[s].serial # 0 => obj[s].serial \in Serials)
      /\ \A s, r \in Slots : obj[s].serial # 0 /\ obj[s].serial = obj[r].serial => s = r
    <2>1. \A s, r \in Slots : obj[s].serial # 0 /\ obj[s].serial = obj[r].serial => s = r
        BY SerialsDiffer DEF Base
    <2>2. \A s \in Slots : obj[s].serial # 0 => obj[s].serial \in Serials
        BY IssuedSerials DEF Base, Named
    <2> QED BY <2>1, <2>2 DEF Base, Core, Types, Values
<1>2. ASSUME NEW k \in Serials, Exists(k)
      PROVE  At(k) \in Slots /\ obj[At(k)].serial = k /\ \A s \in Slots : obj[s].serial = k => s = At(k)
    <2>1. k # 0
        BY DEF Serials
    <2>2. \E s \in Slots : obj[s].serial = k
        BY <1>2 DEF Exists
    <2>3. At(k) \in Slots /\ obj[At(k)].serial = k
        BY <2>2 DEF At
    <2> QED BY <1>1, <2>1, <2>3
<1>3. \A k \in Serials :
        /\ Avail[k] = IF Exists(k) THEN Content(obj[At(k)]) ELSE 0
        /\ Holder[k] = IF Exists(k) THEN obj[At(k)].lock ELSE NoProc
    BY DEF Avail, Holder
<1>4. Avail \in [Serials -> Nat] /\ Holder \in [Serials -> Procs \union {NoProc}]
    <2>1. ASSUME NEW k \in Serials, Exists(k)
          PROVE  Content(obj[At(k)]) \in Nat /\ obj[At(k)].lock \in Procs \union {NoProc}
        <3>1. At(k) \in Slots
            BY <1>2, <2>1
        <3>2. obj[At(k)] \in Object /\ obj[At(k)].value \in Nat
            BY <1>1, <3>1
        <3>3. obj[At(k)].lock \in Procs \union {NoProc}
            BY <3>2 DEF Object
        <3> QED BY <3>2, <3>3, ContentNat
    <2>2. Avail \in [Serials -> Nat]
        BY <2>1 DEF Avail
    <2>3. Holder \in [Serials -> Procs \union {NoProc}]
        BY <2>1 DEF Holder
    <2> QED BY <2>2, <2>3
<1>5. ObjectView
    <2>1. ASSUME NEW s \in Slots, obj[s].serial # 0
          PROVE  Avail[obj[s].serial] = Content(obj[s]) /\ Holder[obj[s].serial] = obj[s].lock
        <3>1. obj[s].serial \in Serials /\ Exists(obj[s].serial)
            BY <1>1, <2>1 DEF Exists
        <3>2. At(obj[s].serial) = s
            BY <1>2, <3>1
        <3> QED BY <1>3, <3>1, <3>2
    <2>2. ASSUME NEW k \in Serials, \A s \in Slots : obj[s].serial # k
          PROVE  Avail[k] = 0 /\ Holder[k] = NoProc
        <3>1. ~Exists(k)
            BY <2>2 DEF Exists
        <3> QED BY <1>3, <3>1
    <2> QED BY <1>4, <2>1, <2>2 DEF ObjectView
<1>6. WaitView
    <2>1. ASSUME NEW p \in Procs, p \in blocked
          PROVE  \E s \in Slots : /\ obj[s].waiter = p /\ obj[s].serial # 0 /\ Waits[p] = obj[s].serial
        <3>1. WaitsAt(p) # {}
            BY <2>1, BaseRecorded DEF BlockedAreRecorded
        <3> DEFINE s == CHOOSE s \in WaitsAt(p) : TRUE
        <3>2. s \in WaitsAt(p)
            BY <3>1
        <3>3. Waits[p] = obj[s].serial
            BY <2>1, <3>1 DEF Waits
        <3> QED BY <3>2, <3>3 DEF WaitsAt, Used
    <2>2. \A p \in Procs : p \notin blocked => Waits[p] = 0
        BY DEF Waits
    <2>3. Waits \in [Procs -> Serials \union {0}]
        <3>1. Waits = [p \in Procs |-> Waits[p]]
            BY DEF Waits
        <3>2. \A p \in Procs : Waits[p] \in Serials \union {0}
            BY <1>1, <2>1, <2>2
        <3> QED BY <3>1, <3>2
    <2>4. ASSUME NEW s \in Slots, obj[s].waiter # NoProc
          PROVE  /\ obj[s].waiter \in Procs /\ obj[s].waiter \in blocked
                 /\ obj[s].serial # 0 /\ Waits[obj[s].waiter] = obj[s].serial
        <3>1. obj[s].waiter \in blocked /\ obj[s].waiter \in Procs /\ obj[s].serial # 0
            BY <2>4 DEF Base, Core, Alone, Types, Blank
        <3>2. PICK r \in Slots : obj[r].waiter = obj[s].waiter /\ Waits[obj[s].waiter] = obj[r].serial
            BY <2>1, <3>1
        <3>3. r = s
            BY <2>4, <3>2 DEF Base, Core, Alone
        <3> QED BY <3>1, <3>2, <3>3
    <2>5. ASSUME NEW p \in Procs, Waits[p] # 0
          PROVE  \E s \in Slots : obj[s].waiter = p /\ obj[s].serial = Waits[p]
        BY <2>1, <2>2, <2>5
    <2>6. \A p \in Procs : p \in blocked <=> Waits[p] # 0
        BY <2>1, <2>2
    <2> QED BY <1>1, <2>3, <2>4, <2>5, <2>6 DEF WaitView
<1> QED BY <1>5, <1>6 DEF View

LEMMA ViewNext == Base' /\ ~keys' => View'
BY ViewIs, PTL

\* One object changes, or appears.
LEMMA OneObject ==
    ASSUME View, View', NEW s \in Slots, NEW q, NEW k \in Serials, obj'[s] = q, q.serial = k,
           \A r \in Slots : r # s => obj'[r] = obj[r],
           obj[s].serial \in {0, k}
    PROVE  /\ Avail' = [Avail EXCEPT ![k] = Content(q)] /\ Avail'[k] = Content(q)
           /\ Holder' = [Holder EXCEPT ![k] = q.lock] /\ Holder'[k] = q.lock
           /\ obj[s].serial = 0 => Avail[k] = 0 /\ Holder[k] = NoProc
           /\ obj[s].serial = k => Avail[k] = Content(obj[s]) /\ Holder[k] = obj[s].lock
<1>1. k # 0
    BY DEF Serials
<1>2. \A r \in Slots : r # s => obj[r].serial # k
    BY <1>1 DEF View, WaitView
<1>3. Avail'[k] = Content(q) /\ Holder'[k] = q.lock
    BY <1>1 DEF View, ObjectView
<1>4. ASSUME NEW j \in Serials, j # k PROVE Avail'[j] = Avail[j] /\ Holder'[j] = Holder[j]
    <2>1. j # 0
        BY DEF Serials
    <2>2. CASE \E r \in Slots : obj[r].serial = j
        <3>1. PICK r \in Slots : obj[r].serial = j
            BY <2>2
        <3>2. obj'[r] = obj[r]
            BY <1>4, <2>1, <3>1
        <3> QED BY <2>1, <3>1, <3>2 DEF View, ObjectView
    <2>3. CASE \A r \in Slots : obj[r].serial # j
        <3>1. \A r \in Slots : obj'[r].serial # j
            BY <1>4, <2>3
        <3> QED BY <2>3, <3>1 DEF View, ObjectView
    <2> QED BY <2>2, <2>3
<1>5. /\ Avail \in [Serials -> Nat] /\ Avail' \in [Serials -> Nat]
      /\ Holder \in [Serials -> Procs \union {NoProc}] /\ Holder' \in [Serials -> Procs \union {NoProc}]
    BY DEF View, ObjectView
<1>6. Avail' = [Avail EXCEPT ![k] = Content(q)]
    BY <1>3, <1>4, <1>5
<1>7. Holder' = [Holder EXCEPT ![k] = q.lock]
    BY <1>3, <1>4, <1>5
<1>8. obj[s].serial = 0 => Avail[k] = 0 /\ Holder[k] = NoProc
    BY <1>1, <1>2 DEF View, ObjectView
<1>9. obj[s].serial = k => Avail[k] = Content(obj[s]) /\ Holder[k] = obj[s].lock
    BY <1>1 DEF View, ObjectView
<1> QED BY <1>3, <1>6, <1>7, <1>8, <1>9

\* Who waits for an object is its waiter.
LEMMA WaitingIs ==
    ASSUME View, NEW s \in Slots, obj[s].serial # 0
    PROVE  Service!Waiting(obj[s].serial) = IF obj[s].waiter = NoProc THEN {} ELSE {obj[s].waiter}
<1>1. ASSUME NEW p \in Procs, Waits[p] = obj[s].serial PROVE obj[s].waiter = p
    <2>1. PICK r \in Slots : obj[r].waiter = p /\ obj[r].serial = Waits[p]
        BY <1>1 DEF View, WaitView
    <2>2. r = s
        BY <1>1, <2>1 DEF View, WaitView
    <2> QED BY <2>1, <2>2
<1>2. \A p \in Procs : obj[s].waiter = p /\ p # NoProc => Waits[p] = obj[s].serial
    BY DEF View, WaitView
<1>3. obj[s].waiter # NoProc => obj[s].waiter \in Procs
    BY DEF View, WaitView
<1>4. \A p \in Procs : p # NoProc
    BY Sizes
<1> QED BY <1>1, <1>2, <1>3, <1>4 DEF Service!Waiting

\* Nobody starts or ends a wait.
LEMMA SameWaits ==
    ASSUME View, View', blocked' = blocked,
           \A r \in Slots : obj'[r].waiter = obj[r].waiter,
           \A r \in Slots : obj[r].waiter # NoProc => obj'[r].serial = obj[r].serial
    PROVE  Waits' = Waits
<1>1. Waits \in [Procs -> Serials \union {0}] /\ Waits' \in [Procs -> Serials \union {0}]
    BY DEF View, WaitView
<1>2. ASSUME NEW p \in Procs PROVE Waits'[p] = Waits[p]
    <2>1. CASE Waits[p] # 0
        <3>1. PICK r \in Slots : obj[r].waiter = p /\ obj[r].serial = Waits[p]
            BY <2>1 DEF View, WaitView
        <3>2. p # NoProc
            BY Sizes
        <3>3. obj'[r].waiter = p /\ obj'[r].serial = obj[r].serial
            BY <3>1, <3>2
        <3> QED BY <3>1, <3>2, <3>3 DEF View, WaitView
    <2>2. CASE Waits[p] = 0
        <3> SUFFICES ASSUME Waits'[p] # 0 PROVE FALSE
            BY <2>2
        <3>1. PICK r \in Slots : obj'[r].waiter = p /\ obj'[r].serial = Waits'[p]
            BY DEF View, WaitView
        <3>2. p # NoProc
            BY Sizes
        <3>3. obj[r].waiter = p /\ obj[r].serial # 0 /\ Waits[p] = obj[r].serial
            BY <3>1, <3>2 DEF View, WaitView
        <3> QED BY <2>2, <3>3
    <2> QED BY <2>1, <2>2
<1> QED BY <1>1, <1>2

\* The waits of the waiters of S end.
LEMMA EndedWaits ==
    ASSUME View, View', NEW S \in SUBSET Slots,
           blocked' = blocked \ ({obj[s].waiter : s \in S} \ {NoProc}),
           \A r \in Slots : r \notin S => obj'[r] = obj[r]
    PROVE  Waits' = [p \in Procs |-> IF p \in {obj[s].waiter : s \in S} THEN 0 ELSE Waits[p]]
<1> DEFINE P == {obj[s].waiter : s \in S}
<1>1. Waits \in [Procs -> Serials \union {0}] /\ Waits' \in [Procs -> Serials \union {0}]
    BY DEF View, WaitView
<1>2. ASSUME NEW p \in Procs PROVE Waits'[p] = IF p \in P THEN 0 ELSE Waits[p]
    <2>0. p # NoProc
        BY Sizes
    <2>1. CASE p \in P
        <3>1. p \notin blocked'
            BY <2>0, <2>1
        <3> QED BY <2>1, <3>1 DEF View, WaitView
    <2>2. CASE p \notin P /\ Waits[p] # 0
        <3>1. PICK r \in Slots : obj[r].waiter = p /\ obj[r].serial = Waits[p]
            BY <2>2 DEF View, WaitView
        <3>2. r \notin S
            BY <2>2, <3>1
        <3>3. obj'[r] = obj[r]
            BY <3>2
        <3> QED BY <2>0, <2>2, <3>1, <3>3 DEF View, WaitView
    <2>3. CASE p \notin P /\ Waits[p] = 0
        <3>1. p \notin blocked
            <4> SUFFICES ASSUME p \in blocked PROVE FALSE
                OBVIOUS
            <4> QED BY <2>3 DEF View, WaitView
        <3>2. p \notin blocked'
            BY <3>1
        <3> QED BY <2>3, <3>2 DEF View, WaitView
    <2> QED BY <2>1, <2>2, <2>3
<1> HIDE DEF P
<1>3. Waits' = [p \in Procs |-> IF p \in P THEN 0 ELSE Waits[p]]
    BY <1>1, <1>2
<1> QED BY <1>3 DEF P

\* An object that changes and wakes nobody leaves the waits as they are.
LEMMA QuietIs ==
    ASSUME Base, View, View', NEW s \in Slots, NEW q, Quietly(s, q), obj[s].serial \in {0, q.serial}
    PROVE  Service!Quiet
<1>1. Core /\ Types
    BY DEF Base, Core
<1>2. obj'[s] = q /\ \A r \in Slots : r # s => obj'[r] = obj[r]
    BY <1>1, PutIs DEF Quietly
<1>3. blocked' = blocked /\ res' = [p \in Procs |-> "none"]
    BY <1>1, WakeNobody DEF Quietly
<1>4. \A r \in Slots : obj'[r].waiter = obj[r].waiter
    BY <1>2 DEF Quietly
<1>5. ASSUME NEW r \in Slots, obj[r].waiter # NoProc PROVE obj'[r].serial = obj[r].serial
    <2>1. obj[r].serial # 0
        BY <1>5 DEF View, WaitView
    <2> QED BY <1>2, <2>1
<1>6. Waits' = Waits
    BY <1>3, <1>4, <1>5, SameWaits
<1> QED BY <1>3, <1>6 DEF Service!Quiet

\* The waiter of an object gets what it waits for.
LEMMA EndedIs ==
    ASSUME Base, View, View', NEW s \in Slots, NEW q, Serving(s, q), obj[s].serial = q.serial
    PROVE  /\ obj[s].waiter \in Service!Waiting(q.serial)
           /\ Service!Ended(obj[s].waiter, "ok")
<1> DEFINE w == obj[s].waiter
<1>1. Core /\ Types
    BY DEF Base, Core
<1>2. obj'[s] = q /\ \A r \in Slots : r # s => obj'[r] = obj[r]
    BY <1>1, PutIs DEF Serving
<1>3. blocked' = blocked \ {w} /\ res' = [p \in Procs |-> IF p \in {w} THEN "ok" ELSE "none"]
    BY DEF Serving, Wake
<1>4. w # NoProc /\ w \in Procs /\ q.serial # 0 /\ Waits[w] = q.serial
    BY DEF Serving, View, WaitView
<1>5. {obj[r].waiter : r \in {s}} = {w}
    OBVIOUS
<1> HIDE DEF w
<1>6. {w} = {w} \ {NoProc}
    BY <1>4
<1>7. Waits' = [p \in Procs |-> IF p \in {w} THEN 0 ELSE Waits[p]]
    <2>1. {s} \in SUBSET Slots /\ \A r \in Slots : r \notin {s} => obj'[r] = obj[r]
        BY <1>2
    <2>2. blocked' = blocked \ ({obj[r].waiter : r \in {s}} \ {NoProc})
        BY <1>3, <1>5, <1>6
    <2>3. Waits' = [p \in Procs |-> IF p \in {obj[r].waiter : r \in {s}} THEN 0 ELSE Waits[p]]
        BY <2>1, <2>2, EndedWaits
    <2> QED BY <1>5, <2>3
<1>8. Waits \in [Procs -> Serials \union {0}]
    BY DEF View, WaitView
<1>9. Waits' = [Waits EXCEPT ![w] = 0]
    BY <1>4, <1>7, <1>8
<1>10. res' = [p \in Procs |-> IF p = w THEN "ok" ELSE "none"]
    BY <1>3
<1>11. Service!Ended(w, "ok") /\ w \in Service!Waiting(q.serial)
    BY <1>4, <1>9, <1>10 DEF Service!Ended, Service!Waiting
<1> QED BY <1>11 DEF w

\* Nobody waits for an object without a waiter.
LEMMA NoneWaits ==
    ASSUME View, NEW s \in Slots, obj[s].serial # 0, obj[s].waiter = NoProc
    PROVE  Service!Waiting(obj[s].serial) = {}
BY WaitingIs

\* What a call through a handle, or create, does to one object of the service.
LEMMA OneStep ==
    ASSUME Base, View, View', NEW s \in Slots, NEW q, Put(s, q), obj[s].serial \in {0, q.serial}
    PROVE  /\ q.serial \in Serials
           /\ Avail \in [Serials -> Nat] /\ Holder \in [Serials -> Procs \union {NoProc}]
           /\ Avail' = [Avail EXCEPT ![q.serial] = Content(q)]
           /\ Holder' = [Holder EXCEPT ![q.serial] = q.lock]
           /\ obj[s].serial = 0 => Avail[q.serial] = 0 /\ Holder[q.serial] = NoProc
           /\ obj[s].serial = q.serial =>
                Avail[q.serial] = Content(obj[s]) /\ Holder[q.serial] = obj[s].lock
<1>1. obj'[s] = q /\ \A r \in Slots : r # s => obj'[r] = obj[r]
    BY PutIs DEF Base, Core
<1>2. q.serial \in Serials
    BY <1>1 DEF View, WaitView, Put
<1>3. Avail \in [Serials -> Nat] /\ Holder \in [Serials -> Procs \union {NoProc}]
    BY DEF View, ObjectView
<1> QED BY <1>1, <1>2, <1>3, OneObject

\* What is not changed is not changed.
LEMMA SameAt ==
    ASSUME NEW S, NEW T, NEW f \in [S -> T], NEW x \in S
    PROVE  [f EXCEPT ![x] = f[x]] = f
OBVIOUS

LEMMA CreateMaps == ASSUME Base, View, View', Creating PROVE Service!Next
<1>1. PICK s \in Slots, q \in Object, initial \in {0, 1} : DidCreate(s, q, initial)
    BY DEF Creating
<1> DEFINE k == q.serial
<1>2. /\ obj[s].serial = 0 /\ Quietly(s, q) /\ Put(s, q)
      /\ q.lock = NoProc /\ Content(q) \in {0, 1}
    BY <1>1, EmptySeq DEF DidCreate, Quietly, Content
<1>3. /\ k \in Serials /\ Avail \in [Serials -> Nat] /\ Holder \in [Serials -> Procs \union {NoProc}]
      /\ Avail' = [Avail EXCEPT ![k] = Content(q)] /\ Holder' = [Holder EXCEPT ![k] = NoProc]
      /\ Avail[k] = 0 /\ Holder[k] = NoProc
    BY <1>2, OneStep
<1>4. Service!Quiet
    BY <1>2, QuietIs
<1>5. Holder' = Holder
    BY <1>3, SameAt
<1>6. Service!Waiting(k) = {}
    <2> SUFFICES ASSUME NEW p \in Procs, Waits[p] = k PROVE FALSE
        BY DEF Service!Waiting
    <2>1. k # 0
        BY <1>2 DEF Put
    <2>2. PICK r \in Slots : obj[r].serial = k
        BY <2>1 DEF View, WaitView
    <2>3. r # s
        BY <1>2, <2>1, <2>2
    <2>4. obj'[r].serial = k /\ obj'[s].serial = k
        BY <1>2, <2>2, <2>3, PutIs DEF Base, Core
    <2> QED BY <2>1, <2>3, <2>4 DEF View, WaitView
<1> HIDE DEF k
<1>7. CASE Content(q) = 1
    <2>1. Service!Open(k)
        BY <1>3, <1>4, <1>5, <1>6, <1>7 DEF Service!Open
    <2> QED BY <1>3, <2>1 DEF Service!Next
<1>8. CASE Content(q) = 0
    <2>1. Avail' = Avail
        BY <1>3, <1>8, SameAt
    <2> QED BY <1>4, <1>5, <2>1 DEF Service!Next
<1> QED BY <1>2, <1>7, <1>8

\* Sending, receiving, posting and taking.
LEMMA PassMaps ==
    ASSUME Base, View, View', NEW s \in Slots, NEW q, Passed(s, q), obj[s].type # "mutex"
    PROVE  Service!Next
<1> DEFINE k == q.serial
<1>1. /\ Put(s, q) /\ Serving(s, q) /\ obj[s].serial = k /\ q.lock = obj[s].lock
      /\ Content(q) = Content(obj[s])
    BY DEF Passed, Serving, SameLock, SameName, Content
<1>2. /\ k \in Serials /\ Avail \in [Serials -> Nat] /\ Holder \in [Serials -> Procs \union {NoProc}]
      /\ Avail' = [Avail EXCEPT ![k] = Avail[k]] /\ Holder' = [Holder EXCEPT ![k] = Holder[k]]
    BY <1>1, OneStep
<1>3. Avail' = Avail /\ Holder' = Holder
    BY <1>2, SameAt
<1>4. obj[s].waiter \in Service!Waiting(k) /\ Service!Ended(obj[s].waiter, "ok")
    BY <1>1, EndedIs
<1> HIDE DEF k
<1>5. Service!Put(k)
    BY <1>3, <1>4 DEF Service!Put
<1> QED BY <1>2, <1>5 DEF Service!Next

LEMMA MoveMapsTo ==
    ASSUME Base, View, View', NEW s \in Slots, NEW q, Quietly(s, q), obj[s].waiter = NoProc,
           SameLock(obj[s], q),
           \/ Content(q) = Content(obj[s]) + 1
           \/ Content(q) = Content(obj[s]) - 1 /\ Content(obj[s]) > 0
           \/ Content(q) = Content(obj[s])
    PROVE  Service!Next
<1> DEFINE k == q.serial
<1>1. Put(s, q) /\ obj[s].serial = k /\ k # 0 /\ q.lock = obj[s].lock
    BY DEF Quietly, Put, SameLock, SameName
<1>2. /\ k \in Serials /\ Avail \in [Serials -> Nat] /\ Holder \in [Serials -> Procs \union {NoProc}]
      /\ Avail' = [Avail EXCEPT ![k] = Content(q)] /\ Holder' = [Holder EXCEPT ![k] = Holder[k]]
      /\ Avail[k] = Content(obj[s])
    BY <1>1, OneStep
<1>3. Holder' = Holder
    BY <1>2, SameAt
<1>4. Service!Quiet /\ Service!Waiting(k) = {}
    BY <1>1, QuietIs, NoneWaits
<1> HIDE DEF k
<1>5. CASE Content(q) = Content(obj[s]) + 1
    <2>1. Service!Put(k)
        BY <1>2, <1>3, <1>4, <1>5 DEF Service!Put
    <2> QED BY <1>2, <2>1 DEF Service!Next
<1>6. CASE Content(q) = Content(obj[s]) - 1 /\ Content(obj[s]) > 0
    <2>1. Service!Take(k)
        BY <1>2, <1>3, <1>4, <1>6 DEF Service!Take
    <2> QED BY <1>2, <2>1 DEF Service!Next
<1>7. CASE Content(q) = Content(obj[s])
    <2>1. Avail' = Avail
        BY <1>2, <1>7, SameAt
    <2> QED BY <1>3, <1>4, <2>1 DEF Service!Next
<1> QED BY <1>5, <1>6, <1>7

\* One byte more.
LEMMA AppendIs ==
    ASSUME NEW data \in Seq(Nat), NEW b
    PROVE  Len(Append(data, b)) = Len(data) + 1 /\ Len(data) \in Nat
OBVIOUS

LEMMA MovingMaps == ASSUME Base, View, View', Moving PROVE Service!Next
<1>1. PICK k \in DOMAIN issued, s \in Slots, q \in Object : DidUnits(s, q, k)
    BY DEF Moving
<1>0. /\ obj[s] \in Object /\ obj[s].data \in Seq(Nat)
      /\ obj[s].value \in Nat /\ (obj[s].type = "event" => obj[s].value <= 1)
    BY DEF Base, Core, Types, Values, Object
<1>2. CASE \E data : NewData(s, q, data) /\ obj[s].waiter = NoProc
                       /\ Len(data) \in {Len(obj[s].data) + 1, Len(obj[s].data) - 1}
                       /\ (Len(data) = Len(obj[s].data) - 1 => Len(obj[s].data) > 0)
    <2>1. PICK data : NewData(s, q, data) /\ obj[s].waiter = NoProc
                       /\ Len(data) \in {Len(obj[s].data) + 1, Len(obj[s].data) - 1}
                       /\ (Len(data) = Len(obj[s].data) - 1 => Len(obj[s].data) > 0)
        BY <1>2
    <2>2. Content(obj[s]) = Len(obj[s].data) /\ Content(q) = Len(data)
        BY <2>1 DEF NewData, SameLock, SameName, Content
    <2>3. Quietly(s, q) /\ SameLock(obj[s], q)
        BY <2>1 DEF NewData
    <2> QED BY <2>1, <2>2, <2>3, MoveMapsTo
<1>3. CASE \E value : NewValue(s, q, value) /\ obj[s].waiter = NoProc
                       /\ value \in {obj[s].value + 1, obj[s].value - 1, obj[s].value}
                       /\ (value = obj[s].value - 1 => obj[s].value > 0)
    <2>1. PICK value : NewValue(s, q, value) /\ obj[s].waiter = NoProc
                       /\ value \in {obj[s].value + 1, obj[s].value - 1, obj[s].value}
                       /\ (value = obj[s].value - 1 => obj[s].value > 0)
        BY <1>3
    <2>2. Content(obj[s]) = obj[s].value /\ Content(q) = value
        BY <2>1 DEF NewValue, SameLock, SameName, Content
    <2>3. Quietly(s, q) /\ SameLock(obj[s], q)
        BY <2>1 DEF NewValue
    <2> QED BY <2>1, <2>2, <2>3, MoveMapsTo
<1>4. CASE DidSendByte(s, q, k)
    <2>1. CASE Passed(s, q) /\ obj[s].type = "queue"
        BY <2>1, PassMaps
    <2>2. CASE NewData(s, q, Append(obj[s].data, ins[k])) /\ obj[s].waiter = NoProc
        <3>1. Len(Append(obj[s].data, ins[k])) = Len(obj[s].data) + 1 /\ Len(obj[s].data) \in Nat
            BY <1>0, AppendIs
        <3> DEFINE data == Append(obj[s].data, ins[k])
        <3>2. NewData(s, q, data) /\ Len(data) = Len(obj[s].data) + 1
            BY <2>2, <3>1
        <3> HIDE DEF data
        <3>3. Len(data) # Len(obj[s].data) - 1
            BY <3>1, <3>2
        <3> QED BY <1>2, <2>2, <3>2, <3>3
    <2> QED BY <1>4, <2>1, <2>2 DEF DidSendByte
<1>5. CASE DidSetEvent(s, q)
    <2>1. CASE Passed(s, q)
        BY <1>5, <2>1, PassMaps DEF DidSetEvent
    <2>2. CASE NewValue(s, q, 1) /\ obj[s].waiter = NoProc
        <3>1. obj[s].type = "event"
            BY <1>5 DEF DidSetEvent
        <3>2. obj[s].value \in {0, 1}
            BY <1>0, <3>1
        <3> QED BY <1>3, <2>2, <3>2
    <2> QED BY <1>5, <2>1, <2>2 DEF DidSetEvent
<1>6. CASE DidReceive(s, q, k)
    <2>1. CASE NewData(s, q, Tail(obj[s].data)) /\ obj[s].data # <<>>
        <3>1. Len(Tail(obj[s].data)) = Len(obj[s].data) - 1 /\ Len(obj[s].data) > 0
            BY <1>0, <2>1, HeadTailProperties, EmptySeq, LenProperties
        <3> QED BY <1>2, <1>6, <2>1, <3>1 DEF DidReceive
    <2>2. CASE NewValue(s, q, 0) /\ obj[s].value = 1
        BY <1>3, <1>6, <2>2 DEF DidReceive
    <2> QED BY <1>6, <2>1, <2>2 DEF DidReceive
<1>7. CASE DidSemWait(s, q, k)
    BY <1>0, <1>3, <1>7 DEF DidSemWait
<1>8. CASE DidSemPost(s, q, k)
    <2>1. CASE Passed(s, q)
        BY <1>8, <2>1, PassMaps DEF DidSemPost
    <2>2. CASE NewValue(s, q, obj[s].value + 1) /\ obj[s].waiter = NoProc
        <3>1. obj[s].value + 1 # obj[s].value - 1
            BY <1>0
        <3> QED BY <1>3, <2>2, <3>1
    <2> QED BY <1>8, <2>1, <2>2 DEF DidSemPost
<1> QED BY <1>1, <1>4, <1>5, <1>6, <1>7, <1>8 DEF DidUnits

\* Mutexes.
LEMMA LockMaps ==
    ASSUME Base, View, View', NEW s \in Slots, NEW q, NEW p \in Procs, NEW k, DidLock(s, q, p, k)
    PROVE  Service!Next
<1> DEFINE j == q.serial
<1>1. /\ Put(s, q) /\ Quietly(s, q) /\ obj[s].serial = j /\ j # 0 /\ q.lock = p
      /\ obj[s].type = "mutex" /\ q.type = "mutex" /\ obj[s].lock \in {NoProc, p}
    BY DEF DidLock, NewLock, SameName, Put
<1>2. /\ j \in Serials /\ Avail \in [Serials -> Nat] /\ Holder \in [Serials -> Procs \union {NoProc}]
      /\ Avail' = [Avail EXCEPT ![j] = Content(q)] /\ Holder' = [Holder EXCEPT ![j] = p]
      /\ Avail[j] = Content(obj[s]) /\ Holder[j] = obj[s].lock
    BY <1>1, OneStep
<1>3. Service!Quiet
    BY <1>1, QuietIs
<1>4. p # NoProc
    BY Sizes
<1>5. Content(q) = 0
    BY <1>1, <1>4 DEF Content
<1>6. CASE obj[s].lock = NoProc
    <2>1. obj[s].waiter = NoProc
        BY <1>1, <1>6 DEF Base, Core, NoLostWakeup, Unavailable
    <2>2. Service!Waiting(j) = {}
        BY <1>1, <2>1, NoneWaits
    <2>3. Content(obj[s]) = 1
        BY <1>1, <1>6 DEF Content
    <2> HIDE DEF j
    <2>4. Service!Lock(p, j)
        BY <1>2, <1>3, <1>5, <1>6, <2>2, <2>3 DEF Service!Lock
    <2> QED BY <1>2, <2>4 DEF Service!Next
<1>7. CASE obj[s].lock = p
    <2>1. Content(obj[s]) = 0
        BY <1>1, <1>4, <1>7 DEF Content
    <2> HIDE DEF j
    <2>2. Avail' = Avail /\ Holder' = Holder
        BY <1>2, <1>5, <1>7, <2>1, SameAt
    <2> QED BY <1>3, <2>2 DEF Service!Next
<1> QED BY <1>1, <1>6, <1>7

LEMMA UnlockMaps ==
    ASSUME Base, View, View', NEW s \in Slots, NEW q, NEW p \in Procs, NEW k,
           DidUnlock(s, q, p, k)
    PROVE  Service!Next
<1> DEFINE j == q.serial
           w == obj[s].waiter
<1>1. /\ Put(s, q) /\ obj[s].serial = j /\ j # 0 /\ obj[s].lock = p
      /\ obj[s].type = "mutex" /\ q.type = "mutex"
      /\ \/ q.lock = w /\ Serving(s, q)
         \/ q.lock = NoProc /\ Quietly(s, q) /\ w = NoProc
    BY DEF DidUnlock, NewLock, SameName, Put
<1>2. /\ j \in Serials /\ Avail \in [Serials -> Nat] /\ Holder \in [Serials -> Procs \union {NoProc}]
      /\ Avail' = [Avail EXCEPT ![j] = Content(q)] /\ Holder' = [Holder EXCEPT ![j] = q.lock]
      /\ Avail[j] = Content(obj[s]) /\ Holder[j] = p
    BY <1>1, OneStep
<1>3. p # NoProc
    BY Sizes
<1>4. Avail[j] = 0
    BY <1>1, <1>2, <1>3 DEF Content
<1>5. CASE q.lock = w /\ Serving(s, q)
    <2>1. w \in Service!Waiting(j) /\ Service!Ended(w, "ok")
        BY <1>1, <1>5, EndedIs
    <2>2. w # NoProc
        BY <1>5 DEF Serving
    <2>3. Content(q) = 0
        BY <1>1, <1>5, <2>2 DEF Content
    <2> HIDE DEF j, w
    <2>4. Avail' = Avail
        BY <1>2, <1>4, <2>3, SameAt
    <2>5. Service!Unlock(j)
        BY <1>2, <1>3, <1>5, <2>1, <2>4 DEF Service!Unlock
    <2> QED BY <1>2, <2>5 DEF Service!Next
<1>6. CASE q.lock = NoProc /\ Quietly(s, q) /\ w = NoProc
    <2>1. Service!Quiet /\ Service!Waiting(j) = {}
        BY <1>1, <1>6, QuietIs, NoneWaits
    <2>2. Content(q) = 1
        BY <1>1, <1>6 DEF Content
    <2> HIDE DEF j, w
    <2>3. Service!Unlock(j)
        BY <1>2, <1>3, <1>6, <2>1, <2>2 DEF Service!Unlock
    <2> QED BY <1>2, <2>3 DEF Service!Next
<1> QED BY <1>1, <1>5, <1>6

LEMMA LockingMaps == ASSUME Base, View, View', Locking PROVE Service!Next
BY LockMaps, UnlockMaps DEF Locking, DidMutex

\* Objects that differ in their waiters only are the same to the service.
LEMMA SameObjects ==
    ASSUME View, View',
           \A s \in Slots : /\ obj'[s].serial = obj[s].serial /\ obj'[s].lock = obj[s].lock
                            /\ Content(obj'[s]) = Content(obj[s])
    PROVE  Avail' = Avail /\ Holder' = Holder
<1>1. /\ Avail \in [Serials -> Nat] /\ Avail' \in [Serials -> Nat]
      /\ Holder \in [Serials -> Procs \union {NoProc}] /\ Holder' \in [Serials -> Procs \union {NoProc}]
    BY DEF View, ObjectView
<1>2. ASSUME NEW k \in Serials PROVE Avail'[k] = Avail[k] /\ Holder'[k] = Holder[k]
    <2>1. CASE \E s \in Slots : obj[s].serial = k
        <3>1. PICK s \in Slots : obj[s].serial = k
            BY <2>1
        <3>2. k # 0
            BY DEF Serials
        <3>3. Avail[k] = Content(obj[s]) /\ Holder[k] = obj[s].lock
            BY <3>1, <3>2 DEF View, ObjectView
        <3>4. Avail'[k] = Content(obj'[s]) /\ Holder'[k] = obj'[s].lock
            BY <3>1, <3>2 DEF View, ObjectView
        <3> QED BY <3>3, <3>4
    <2>2. CASE \A s \in Slots : obj[s].serial # k
        BY <2>2 DEF View, ObjectView
    <2> QED BY <2>1, <2>2
<1> QED BY <1>1, <1>2

LEMMA SetWaiterIs ==
    ASSUME NEW o \in Object, NEW p, NEW d
    PROVE  LET q == [o EXCEPT !.waiter = p, !.deadline = d] IN
           /\ q.serial = o.serial /\ q.type = o.type /\ q.lock = o.lock /\ q.data = o.data
           /\ q.value = o.value /\ q.waiter = p
BY DEF Object

LEMMA StoppingMaps == ASSUME Base, View, View', Stopping PROVE Service!Next
<1>1. PICK p \in Procs, s \in Slots, timeout \in Timeouts : Blocking(p, s, timeout)
    BY DEF Stopping
<1> DEFINE k == obj[s].serial
           d == (ticks + timeout) % TickMod
           q == [obj[s] EXCEPT !.waiter = p, !.deadline = d]
<1>2. /\ obj[s] \in Object /\ obj[s].value \in Nat
    BY DEF Base, Core, Types, Values
<1>3. obj'[s] = q /\ \A r \in Slots : r # s => obj'[r] = obj[r]
    BY <1>1 DEF Blocking, Base, Core, Types
<1>4. /\ q.serial = k /\ q.type = obj[s].type /\ q.lock = obj[s].lock /\ q.data = obj[s].data
      /\ q.value = obj[s].value /\ q.waiter = p
    BY <1>2, SetWaiterIs
<1>5. /\ k # 0 /\ Unavailable(obj[s], p) /\ obj[s].waiter = NoProc
      /\ p \notin blocked /\ blocked' = blocked \union {p} /\ res' = [x \in Procs |-> "none"]
    BY <1>1 DEF Blocking
<1> HIDE DEF q
<1>6. Content(q) = Content(obj[s])
    BY <1>4 DEF Content
<1>7. Avail' = Avail /\ Holder' = Holder
    BY <1>3, <1>4, <1>6, SameObjects
<1>8. Content(obj[s]) = 0
    BY <1>2, <1>5, EmptySeq DEF Unavailable, Content
<1>9. k \in Serials /\ Avail[k] = 0 /\ Service!Waiting(k) = {} /\ Waits[p] = 0
    BY <1>5, <1>8, NoneWaits DEF View, ObjectView, WaitView
<1>10. p # NoProc
    BY Sizes
<1>11. Waits'[p] = k
    BY <1>3, <1>4, <1>5, <1>10 DEF View, WaitView
<1>12. ASSUME NEW x \in Procs, x # p PROVE Waits'[x] = Waits[x]
    <2>1. CASE Waits[x] = 0
        BY <1>5, <1>12, <2>1 DEF View, WaitView
    <2>2. CASE Waits[x] # 0
        <3>1. PICK r \in Slots : obj[r].waiter = x /\ obj[r].serial = Waits[x]
            BY <2>2 DEF View, WaitView
        <3>2. x # NoProc
            BY Sizes
        <3>3. obj'[r] = obj[r]
            BY <1>3, <1>5, <3>1, <3>2
        <3> QED BY <2>2, <3>1, <3>2, <3>3 DEF View, WaitView
    <2> QED BY <2>1, <2>2
<1>13. Waits \in [Procs -> Serials \union {0}] /\ Waits' \in [Procs -> Serials \union {0}]
    BY DEF View, WaitView
<1> HIDE DEF k
<1>14. Waits' = [Waits EXCEPT ![p] = k]
    BY <1>11, <1>12, <1>13
<1>15. Service!Wait(p, k)
    BY <1>5, <1>7, <1>9, <1>14 DEF Service!Wait
<1> QED BY <1>9, <1>15 DEF Service!Next

LEMMA ClosingMaps == ASSUME Base, View, View', Closing PROVE Service!Next
<1>1. PICK S : Ending(S) /\ \A s \in S : obj[s].serial # 0
    BY DEF Closing
<1> DEFINE K == {obj[s].serial : s \in S}
           P == {obj[s].waiter : s \in S}
<1>2. /\ S \subseteq Slots
      /\ \A s \in S : obj'[s].serial = 0
      /\ \A s \in Slots : s \notin S => obj'[s] = obj[s]
    BY <1>1, EndingIs DEF Base
<1>3. blocked' = blocked \ (P \ {NoProc}) /\ res' = [p \in Procs |-> IF p \in P \ {NoProc} THEN "closed" ELSE "none"]
    BY <1>1 DEF Ending, Release, Wake
<1>4. K \in SUBSET Serials /\ 0 \notin K
    BY <1>1, <1>2 DEF View, WaitView
<1>5. ASSUME NEW k \in Serials, k \in K PROVE Avail'[k] = 0 /\ Holder'[k] = NoProc
    <2>1. PICK s \in S : obj[s].serial = k
        BY <1>5
    <2>2. k # 0
        BY <1>4, <1>5
    <2>3. \A r \in Slots : obj'[r].serial # k
        BY <1>2, <2>1, <2>2 DEF View, WaitView
    <2> QED BY <2>3 DEF View, ObjectView
<1>6. ASSUME NEW k \in Serials, k \notin K PROVE Avail'[k] = Avail[k] /\ Holder'[k] = Holder[k]
    <2>1. k # 0
        BY DEF Serials
    <2>2. CASE \E s \in Slots : obj[s].serial = k
        <3>1. PICK s \in Slots : obj[s].serial = k
            BY <2>2
        <3>2. obj'[s] = obj[s]
            BY <1>2, <1>6, <3>1
        <3> QED BY <2>1, <3>1, <3>2 DEF View, ObjectView
    <2>3. CASE \A s \in Slots : obj[s].serial # k
        <3>1. \A s \in Slots : obj'[s].serial # k
            BY <1>2, <2>1, <2>3
        <3> QED BY <2>3, <3>1 DEF View, ObjectView
    <2> QED BY <2>2, <2>3
<1>7. ASSUME NEW p \in Procs PROVE p \in P <=> Waits[p] \in K
    <2>0. p # NoProc
        BY Sizes
    <2>1. ASSUME p \in P PROVE Waits[p] \in K
        BY <1>2, <2>0, <2>1 DEF View, WaitView
    <2>2. ASSUME Waits[p] \in K PROVE p \in P
        <3>1. PICK s \in S : obj[s].serial = Waits[p]
            BY <2>2
        <3>2. Waits[p] # 0
            BY <1>4, <2>2
        <3>3. PICK r \in Slots : obj[r].waiter = p /\ obj[r].serial = Waits[p]
            BY <3>2 DEF View, WaitView
        <3>4. r = s
            BY <1>2, <3>1, <3>2, <3>3 DEF View, WaitView
        <3> QED BY <3>3, <3>4
    <2> QED BY <2>1, <2>2
<1>8. Waits' = [p \in Procs |-> IF p \in P THEN 0 ELSE Waits[p]]
    BY <1>2, <1>3, EndedWaits
<1>9. /\ Avail' \in [Serials -> Nat] /\ Holder' \in [Serials -> Procs \union {NoProc}]
    BY DEF View, ObjectView
<1>10. \A p \in Procs : p # NoProc
    BY Sizes
<1> HIDE DEF K, P
<1>11. Avail' = [k \in Serials |-> IF k \in K THEN 0 ELSE Avail[k]]
    BY <1>5, <1>6, <1>9
<1>12. Holder' = [k \in Serials |-> IF k \in K THEN NoProc ELSE Holder[k]]
    BY <1>5, <1>6, <1>9
<1>13. Waits' = [p \in Procs |-> IF Waits[p] \in K THEN 0 ELSE Waits[p]]
    BY <1>7, <1>8
<1>14. res' = [p \in Procs |-> IF Waits[p] \in K THEN "closed" ELSE "none"]
    BY <1>3, <1>7, <1>10
<1>15. Service!Shut(K)
    BY <1>11, <1>12, <1>13, <1>14 DEF Service!Shut
<1> QED BY <1>4, <1>15 DEF Service!Next

LEMMA LeavingMaps == ASSUME Base, View, View', Leaving PROVE Service!Next
<1>1. obj' = obj /\ blocked' = blocked /\ res' = [p \in Procs |-> "none"]
    BY WakeNobody DEF Leaving, Idle, Base, Core
<1>2. Avail' = Avail /\ Holder' = Holder
    BY <1>1, SameObjects
<1>3. Waits' = Waits
    BY <1>1, SameWaits
<1> QED BY <1>1, <1>2, <1>3 DEF Service!Next, Service!Quiet

LEMMA TickingMaps == ASSUME Base, View, View', Ticking PROVE Service!Next
<1>1. PICK step \in 1..MaxStep : Tick(step)
    BY DEF Ticking
<1> DEFINE P == TimedOut(step)
<1>2. /\ obj' = [s \in Slots |-> IF s \in Over(step) THEN ClearWaiter(obj[s]) ELSE obj[s]]
      /\ blocked' = blocked \ P
      /\ res' = [p \in Procs |-> IF p \in P THEN "timeout" ELSE "none"]
    BY <1>1, TickIs
<1>3. ASSUME NEW s \in Slots
      PROVE  /\ obj'[s].serial = obj[s].serial /\ obj'[s].lock = obj[s].lock
             /\ Content(obj'[s]) = Content(obj[s])
    <2>1. obj[s] \in Object
        BY DEF Base, Core, Types
    <2>2. CASE s \in Over(step)
        <3>1. obj'[s] = ClearWaiter(obj[s])
            BY <1>2, <2>2
        <3> QED BY <2>1, <3>1, ClearWaiterIs DEF Content
    <2>3. CASE s \notin Over(step)
        BY <1>2, <2>3
    <2> QED BY <2>2, <2>3
<1>4. Avail' = Avail /\ Holder' = Holder
    BY <1>3, SameObjects
<1>5. Over(step) \in SUBSET Slots /\ NoProc \notin P /\ P = {obj[s].waiter : s \in Over(step)}
    BY DEF Over, TimedOut
<1>6. P \subseteq Procs /\ \A p \in P : Waits[p] # 0
    BY <1>5 DEF Over, View, WaitView
<1>7. Waits' = [p \in Procs |-> IF p \in P THEN 0 ELSE Waits[p]]
    <2>1. \A r \in Slots : r \notin Over(step) => obj'[r] = obj[r]
        BY <1>2
    <2>2. blocked' = blocked \ ({obj[s].waiter : s \in Over(step)} \ {NoProc})
        BY <1>2, <1>5
    <2>3. Waits' = [p \in Procs |-> IF p \in {obj[s].waiter : s \in Over(step)} THEN 0 ELSE Waits[p]]
        BY <1>5, <2>1, <2>2, EndedWaits
    <2> QED BY <1>5, <2>3
<1> HIDE DEF P
<1>8. Service!Expire(P)
    BY <1>2, <1>4, <1>6, <1>7 DEF Service!Expire
<1> QED BY <1>6, <1>8 DEF Service!Next

\* Every step is a step of the service, while no key can arrive.
LEMMA StepMaps == ASSUME Base, Base', Step, ~keys, ~keys' PROVE Service!Next
<1>1. View /\ View'
    BY ViewIs, ViewNext
<1>2. ~KeyWake
    BY DEF KeyWake
<1> QED BY <1>1, <1>2, CreateMaps, MovingMaps, LockingMaps, StoppingMaps, ClosingMaps,
           LeavingMaps, TickingMaps DEF Step

LEMMA KeysStay == ASSUME Base, Step PROVE keys' = keys
<1>1. \A s, q : Quietly(s, q) \/ Serving(s, q) => keys' = keys
    BY DEF Quietly, Serving, env
<1>2. Creating => keys' = keys
    BY <1>1 DEF Creating, DidCreate
<1>3. Moving => keys' = keys
    BY <1>1, KindOfMove DEF Moving
<1>4. Locking => keys' = keys
    BY <1>1, KindOfLock DEF Locking
<1>5. Stopping \/ Closing \/ Leaving \/ Ticking \/ KeyWake => keys' = keys
    BY TickIs DEF Stopping, Blocking, Closing, Ending, Leaving, Idle, Ticking, KeyWake, env
<1> QED BY <1>2, <1>3, <1>4, <1>5 DEF Step

\* No object exists at first.
LEMMA ServiceStarts == Init => Service!Init
<1> SUFFICES ASSUME Init PROVE Service!Init
    OBVIOUS
<1>1. /\ obj = [s \in Slots |-> Zero(0)] /\ blocked = {} /\ res = [p \in Procs |-> "none"]
    BY DEF Init
<1>2. Zero(0).serial = 0
    BY DEF Zero
<1>3. \A s \in Slots : obj[s].serial = 0
    BY <1>1, <1>2
<1>4. \A k \in Serials : ~Exists(k)
    BY <1>3 DEF Exists, Serials
<1>5. Avail = [k \in Serials |-> 0] /\ Holder = [k \in Serials |-> NoProc]
    BY <1>4 DEF Avail, Holder
<1>6. Waits = [p \in Procs |-> 0]
    BY <1>1 DEF Waits
<1> QED BY <1>1, <1>5, <1>6 DEF Service!Init

\* As long as no key readies the shell, the objects, with their slots, their
\* generations, their frames and their deadlines, do nothing the blocking
\* services do not promise: what is put goes to who waits, who waits gets one
\* outcome, and a mutex passes from its owner to its waiter.
THEOREM PromiseKept == Spec => KeepsPromise
<1>1. ASSUME Base, Base', [Next]_vars
      PROVE  [keys \/ Service!Next]_<<Service!vars, keys>>
    <2>1. CASE Next
        <3>1. Step
            BY <1>1, <2>1, Steps DEF Base
        <3>2. keys' = keys /\ keys \in BOOLEAN
            BY <1>1, <3>1, KeysStay DEF Base, Core, Types
        <3>3. CASE keys
            BY <3>3
        <3>4. CASE ~keys
            BY <1>1, <3>1, <3>2, <3>4, StepMaps
        <3> QED BY <3>3, <3>4
    <2>2. CASE UNCHANGED vars
        <3>1. UNCHANGED <<obj, blocked, keys, res>>
            BY <2>2 DEF vars
        <3>2. Avail' = Avail /\ Holder' = Holder /\ Waits' = Waits
            BY <3>1 DEF Avail, Holder, Waits, Exists, At, Content, WaitsAt, Used
        <3> QED BY <3>1, <3>2 DEF Service!vars
    <2> QED BY <1>1, <2>1, <2>2
<1>2. Base /\ Base' /\ [Next]_vars => [keys \/ Service!Next]_<<Service!vars, keys>>
    BY <1>1
<1>3. Spec => Service!Init
    BY ServiceStarts DEF Spec
<1>4. Spec => [][keys \/ Service!Next]_<<Service!vars, keys>>
    BY <1>2, BaseInvariant, PTL DEF Spec
<1> QED BY <1>3, <1>4 DEF KeepsPromise
====
