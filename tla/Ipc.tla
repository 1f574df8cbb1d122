---- MODULE Ipc ----
(***************************************************************************)
(* The IPC objects of halaos_objects.c: queues and pipes, semaphores,      *)
(* mutexes and events in HOS_MAX_IPC slots, named by a handle (slot and    *)
(* generation), each with at most one blocked process.  A blocking call    *)
(* leaves its exception frame and a deadline in the object; the frame gets *)
(* its result from the sender, from kobj_ipc_tick, or from whoever closes  *)
(* the object.  System calls and SysTick do not preempt one another, so a  *)
(* call is one step.  A call that the code refuses (-9, -11, -12, -13,     *)
(* -16, -110 for a zero value) changes nothing and is no step.             *)
(***************************************************************************)
EXTENDS Integers, Sequences, FiniteSets

CONSTANTS
    Procs,      \* processes; each is its own task
    Shell,      \* the one whose task the UART interrupt wakes
    Blockers,   \* those that make calls with a timeout
    Mortal,     \* those that exit or are killed
    Slots,      \* 1..HOS_MAX_IPC
    Owners,     \* those that create objects
    Plans,      \* bound: the types of the objects created in a behaviour
    Cap,        \* HOS_IPC_DATA
    Timeouts,   \* timeouts of blocking calls, in ticks
    MaxStep,    \* longest tickless sleep
    TickMod,    \* 2^32, the range of g_ticks
    GenMod,     \* 2^16, the range of a generation
    MaxCreates, \* bound: objects ever created
    MaxValue,   \* bound: units of a semaphore
    NoProc

Serials == 1..MaxCreates

ASSUME ProcAssumption ==
    /\ NoProc \notin Procs /\ Shell \in Blockers
    /\ Blockers \subseteq Procs /\ Mortal \subseteq Procs /\ Owners \subseteq Procs
    /\ Blockers \cap Mortal = {}   \* task_worker's entries never wait
ASSUME SizeAssumption ==
    /\ Slots = 1..Cardinality(Slots) /\ Slots # {}
    /\ Plans \subseteq [Serials -> {"queue", "sem", "mutex", "event"}]
    /\ \A n \in {Cap, MaxStep, MaxCreates, MaxValue} : n \in Nat /\ n > 0
    /\ TickMod \in Nat /\ GenMod \in Nat /\ GenMod > 1
ASSUME TimeAssumption ==
    \* deadlines are compared as signed differences
    /\ MaxStep <= TickMod \div 2
    /\ \A t \in Timeouts : t \in 1..(TickMod \div 2)

VARIABLES
    obj,        \* g_ipc_objects: a ring is a sequence, waiter # NoProc is wait_kind
    life,       \* state of a process: "live", "exited" (zombie), "gone"
    blocked,    \* tasks blocked by an IPC call
    ticks,      \* g_ticks
    keys,       \* may characters arrive while the shell waits?
    plan,       \* the types of the objects to be created
    \* what the processes know, and what was asked of the services
    issued,     \* handles returned by create, in order of creation
    holds,      \* mutexes that a process was told it holds
    res,        \* results that the last step wrote into frames of waits
    ins, outs,  \* units put into and taken from each created object, mod Wrap
    due         \* ticks until the wait of a blocked process is over

vars == <<obj, life, blocked, ticks, keys, plan, issued, holds, res, ins, outs, due>>
env == <<keys, plan>>
ghosts == <<issued, holds, ins, outs>>

Results == {"none", "ok", "timeout", "closed", "key"}
Zero(gen) ==
    [serial |-> 0, gen |-> gen, type |-> "none", owner |-> NoProc, value |-> 0,
     lock |-> NoProc, data |-> <<>>, waiter |-> NoProc, deadline |-> 0]
Wrap == Cap + MaxValue
Plus1(f, k) == [f EXCEPT ![k] = (@ + 1) % Wrap]
Unheld(k) == [p \in Procs |-> holds[p] \ {k}]

Init ==
    /\ obj = [s \in Slots |-> Zero(0)]
    /\ life = [p \in Procs |-> "live"]
    /\ blocked = {}
    /\ ticks = 0
    /\ keys \in BOOLEAN /\ plan \in Plans
    /\ issued = <<>>
    /\ holds = [p \in Procs |-> {}]
    /\ res = [p \in Procs |-> "none"]
    /\ ins = [k \in Serials |-> 0] /\ outs = [k \in Serials |-> 0]
    /\ due = [p \in Procs |-> 0]

\* A process that runs in user mode and can make a call.
Runs(p) == life[p] = "live" /\ p \notin blocked

(***************************************************************************)
(* Handles                                                                 *)
(***************************************************************************)
Handle(s, o) == [slot |-> s, gen |-> o.gen]
FromHandle(h, s) == h.slot = s /\ obj[s].serial # 0 /\ obj[s].gen = h.gen
\* Mutant: a slot is used again under the generation it had.
NextGen_same(gen) == gen
NextGen(gen) == IF (gen + 1) % GenMod = 0 THEN 1 ELSE gen + 1

(***************************************************************************)
(* Wakeups.  ipc_wake_waiter writes the result into the frame it recorded  *)
(* and makes the task ready, whatever that task does by now.               *)
(***************************************************************************)
ClearWaiter(o) == [o EXCEPT !.waiter = NoProc, !.deadline = 0]
Wake(P, r) ==
    /\ blocked' = blocked \ P
    /\ res' = [p \in Procs |-> IF p \in P THEN r ELSE "none"]
    /\ due' = [p \in Procs |-> IF p \in P THEN 0 ELSE due[p]]
NoWake == Wake({}, "none")

\* Release(S): the objects in the slots S go, who waits for them gets -125.
Release(S) ==
    /\ obj' = [s \in Slots |-> IF s \in S THEN Zero(obj[s].gen) ELSE obj[s]]
    /\ Wake({obj[s].waiter : s \in S} \ {NoProc}, "closed")
    /\ LET K == {obj[s].serial : s \in S}
           none(f) == [k \in Serials |-> IF k \in K THEN 0 ELSE f[k]]
       IN  /\ holds' = [p \in Procs |-> holds[p] \ K]
           /\ ins' = none(ins) /\ outs' = none(outs)
Owned(p) == {s \in Slots : obj[s].serial # 0 /\ obj[s].owner = p}

(***************************************************************************)
(* Create and close                                                        *)
(***************************************************************************)
Create(p, initial) ==
    /\ Runs(p) /\ p \in Owners /\ Len(issued) < MaxCreates
    /\ initial = 0 \/ plan[Len(issued) + 1] \in {"sem", "event"}
    /\ \E s \in Slots :
        /\ obj[s].serial = 0 /\ \A r \in 1..(s - 1) : obj[r].serial # 0
        /\ LET k == Len(issued) + 1
               o == [Zero(NextGen(obj[s].gen)) EXCEPT
                        !.serial = k, !.type = plan[k], !.owner = p, !.value = initial]
           IN  /\ obj' = [obj EXCEPT ![s] = o]
               /\ issued' = Append(issued, Handle(s, o))
               /\ ins' = [ins EXCEPT ![k] = initial]
    /\ NoWake /\ UNCHANGED <<life, ticks, env, holds, outs>>

Close(p, k) ==
    /\ Runs(p) /\ k \in DOMAIN issued
    /\ \E s \in Slots : FromHandle(issued[k], s) /\ obj[s].owner = p /\ Release({s})
    /\ UNCHANGED <<life, ticks, env, issued>>

(***************************************************************************)
(* Queues, pipes and events                                                *)
(***************************************************************************)
\* Mutant: the byte is stored although a receiver waits for it.
SendByte_stored(s, k) ==
    /\ obj[s].type = "queue" /\ Len(obj[s].data) < Cap
    /\ ins' = Plus1(ins, k)
    /\ obj' = [obj EXCEPT ![s].data = Append(@, ins[k])]
    /\ NoWake /\ UNCHANGED outs

\* A byte goes to the waiting receiver or into the ring; -11 when it is full.
SendByte(s, k) ==
    /\ obj[s].type = "queue"
    /\ ins' = Plus1(ins, k)
    /\ \/ /\ obj[s].waiter # NoProc
          /\ obj' = [obj EXCEPT ![s] = ClearWaiter(@)]
          /\ Wake({obj[s].waiter}, "ok")
          /\ outs' = Plus1(outs, k)
       \/ /\ obj[s].waiter = NoProc /\ Len(obj[s].data) < Cap
          /\ obj' = [obj EXCEPT ![s].data = Append(@, ins[k])]
          /\ NoWake /\ UNCHANGED outs
SetEvent(s) ==
    /\ obj[s].type = "event"
    /\ IF obj[s].waiter # NoProc
       THEN obj' = [obj EXCEPT ![s] = ClearWaiter(@)] /\ Wake({obj[s].waiter}, "ok")
       ELSE obj' = [obj EXCEPT ![s].value = 1] /\ NoWake
    /\ UNCHANGED <<ins, outs>>
Send(p, k) ==
    /\ Runs(p) /\ k \in DOMAIN issued
    /\ \E s \in Slots : FromHandle(issued[k], s) /\ (SendByte(s, k) \/ SetEvent(s))
    /\ UNCHANGED <<life, ticks, env, issued, holds>>

\* Mutant: the newest byte is taken, not the oldest.
Receive_newest(p, k) ==
    /\ Runs(p) /\ k \in DOMAIN issued
    /\ \E s \in Slots :
        /\ FromHandle(issued[k], s)
        /\ \/ /\ obj[s].type = "queue" /\ obj[s].data # <<>>
              /\ obj' = [obj EXCEPT ![s].data = SubSeq(@, 1, Len(@) - 1)]
              /\ outs' = Plus1(outs, k)
           \/ /\ obj[s].type = "event" /\ obj[s].value > 0
              /\ obj' = [obj EXCEPT ![s].value = 0]
              /\ UNCHANGED outs
    /\ NoWake /\ UNCHANGED <<life, ticks, env, issued, holds, ins>>
Receive(p, k) ==
    /\ Runs(p) /\ k \in DOMAIN issued
    /\ \E s \in Slots :
        /\ FromHandle(issued[k], s)
        /\ \/ /\ obj[s].type = "queue" /\ obj[s].data # <<>>
              /\ obj' = [obj EXCEPT ![s].data = Tail(@)]
              /\ outs' = Plus1(outs, k)
           \/ /\ obj[s].type = "event" /\ obj[s].value > 0
              /\ obj' = [obj EXCEPT ![s].value = 0]
              /\ UNCHANGED outs
    /\ NoWake /\ UNCHANGED <<life, ticks, env, issued, holds, ins>>

(***************************************************************************)
(* Semaphores and mutexes                                                  *)
(***************************************************************************)
SemWait(p, k) ==
    /\ Runs(p) /\ k \in DOMAIN issued
    /\ \E s \in Slots :
        /\ FromHandle(issued[k], s) /\ obj[s].type = "sem" /\ obj[s].value > 0
        /\ obj' = [obj EXCEPT ![s].value = @ - 1]
    /\ outs' = Plus1(outs, k)
    /\ NoWake /\ UNCHANGED <<life, ticks, env, issued, holds, ins>>

\* Mutant: a post that wakes the waiter counts up as well.
SemPost_both(p, k) ==
    /\ Runs(p) /\ k \in DOMAIN issued
    /\ ins' = Plus1(ins, k)
    /\ \E s \in Slots :
        /\ FromHandle(issued[k], s) /\ obj[s].type = "sem" /\ obj[s].value < MaxValue
        /\ obj' = [obj EXCEPT ![s] = [ClearWaiter(@) EXCEPT !.value = @ + 1]]
        /\ Wake({obj[s].waiter} \ {NoProc}, "ok")
    /\ UNCHANGED <<life, ticks, env, issued, holds, outs>>
SemPost(p, k) ==
    /\ Runs(p) /\ k \in DOMAIN issued
    /\ ins' = Plus1(ins, k)
    /\ \E s \in Slots :
        /\ FromHandle(issued[k], s) /\ obj[s].type = "sem"
        /\ \/ /\ obj[s].waiter # NoProc
              /\ obj' = [obj EXCEPT ![s] = ClearWaiter(@)]
              /\ Wake({obj[s].waiter}, "ok")
              /\ outs' = Plus1(outs, k)
           \/ /\ obj[s].waiter = NoProc /\ obj[s].value < MaxValue
              /\ obj' = [obj EXCEPT ![s].value = @ + 1]
              /\ NoWake /\ UNCHANGED outs
    /\ UNCHANGED <<life, ticks, env, issued, holds>>

\* The owner may lock again; one unlock then frees the mutex.
MutexLock(p, k) ==
    /\ Runs(p) /\ k \in DOMAIN issued
    /\ \E s \in Slots :
        /\ FromHandle(issued[k], s) /\ obj[s].type = "mutex"
        /\ obj[s].lock \in {NoProc, p}
        /\ obj' = [obj EXCEPT ![s].lock = p]
    /\ holds' = [holds EXCEPT ![p] = @ \union {k}]
    /\ NoWake /\ UNCHANGED <<life, ticks, env, issued, ins, outs>>

\* The mutex goes straight to the process that waits for it.
MutexUnlock(p, k) ==
    /\ Runs(p) /\ k \in DOMAIN issued
    /\ \E s \in Slots :
        /\ FromHandle(issued[k], s) /\ obj[s].type = "mutex" /\ obj[s].lock = p
        /\ LET w == obj[s].waiter IN
           IF w # NoProc
           THEN /\ obj' = [obj EXCEPT ![s] = [ClearWaiter(@) EXCEPT !.lock = w]]
                /\ Wake({w}, "ok")
                /\ holds' = [Unheld(k) EXCEPT ![w] = IF w \in blocked THEN @ \union {k} ELSE @]
           ELSE /\ obj' = [obj EXCEPT ![s].lock = NoProc]
                /\ NoWake /\ holds' = Unheld(k)
    /\ UNCHANGED <<life, ticks, env, issued, ins, outs>>

(***************************************************************************)
(* Waiting.  The immediate attempt failed, the timeout is not zero and     *)
(* nobody else waits for the object (-16): the caller blocks.              *)
(***************************************************************************)
Unavailable(o, p) ==
    \/ o.type = "queue" /\ o.data = <<>>
    \/ o.type \in {"sem", "event"} /\ o.value <= 0
    \/ o.type = "mutex" /\ o.lock \notin {NoProc, p}

Wait(p, k, timeout) ==
    /\ Runs(p) /\ p \in Blockers /\ k \in DOMAIN issued
    /\ \E s \in Slots :
        /\ FromHandle(issued[k], s)
        /\ Unavailable(obj[s], p) /\ obj[s].waiter = NoProc
        /\ obj' = [obj EXCEPT ![s].waiter = p,
                              ![s].deadline = (ticks + timeout) % TickMod]
    /\ blocked' = blocked \union {p}
    /\ res' = [q \in Procs |-> "none"]
    /\ due' = [due EXCEPT ![p] = timeout]
    /\ UNCHANGED <<life, ticks, env>> /\ UNCHANGED ghosts

\* SysTick: g_ticks advances by the ticks slept, waits whose deadline has come
\* end.  A tickless sleep looks at sleeping tasks only, not at these deadlines.
\* Mutant: an unsigned comparison.
Reached_unsigned(now, deadline) == now >= deadline
Reached(now, deadline) == (now - deadline) % TickMod < TickMod \div 2
\* Mutant: the deadlines of mutex waiters are not looked at.
Tick_forgets(step) ==
    LET now == (ticks + step) % TickMod
        over == {s \in Slots : /\ obj[s].type # "mutex" /\ obj[s].waiter # NoProc
                               /\ Reached(now, obj[s].deadline)}
        P == {obj[s].waiter : s \in over}
    IN  /\ ticks' = now
        /\ obj' = [s \in Slots |-> IF s \in over THEN ClearWaiter(obj[s]) ELSE obj[s]]
        /\ blocked' = blocked \ P
        /\ res' = [p \in Procs |-> IF p \in P THEN "timeout" ELSE "none"]
        /\ due' = [p \in Procs |-> IF p \in blocked \ P THEN (IF due[p] > step THEN due[p] - step ELSE 0) ELSE 0]
        /\ UNCHANGED <<life, env>> /\ UNCHANGED ghosts

Tick(step) ==
    LET now == (ticks + step) % TickMod
        over == {s \in Slots : /\ obj[s].serial # 0 /\ obj[s].waiter # NoProc
                               /\ Reached(now, obj[s].deadline)}
        P == {obj[s].waiter : s \in over}
    IN  /\ ticks' = now
        /\ obj' = [s \in Slots |-> IF s \in over THEN ClearWaiter(obj[s]) ELSE obj[s]]
        /\ blocked' = blocked \ P
        /\ res' = [p \in Procs |-> IF p \in P THEN "timeout" ELSE "none"]
        /\ due' = [p \in Procs |-> IF p \in blocked \ P THEN due[p] - step ELSE 0]
        /\ UNCHANGED <<life, env>> /\ UNCHANGED ghosts

\* A character for the console: uart_wake_shell readies the shell, which goes
\* on with the handle it passed as the result; the object still records it.
KeyWake ==
    /\ keys /\ Shell \in blocked
    /\ Wake({Shell}, "key")
    /\ UNCHANGED <<obj, life, ticks, env>> /\ UNCHANGED ghosts

(***************************************************************************)
(* The end of a process: its objects go when it is killed or reaped, not   *)
(* when it exits; a mutex it has locked stays locked.                      *)
(***************************************************************************)
Exit(p) ==
    /\ Runs(p) /\ p \in Mortal
    /\ life' = [life EXCEPT ![p] = "exited"]
    /\ NoWake /\ UNCHANGED <<obj, ticks, env>> /\ UNCHANGED ghosts
Kill(p) ==
    /\ Runs(Shell) /\ p \in Mortal /\ life[p] # "gone"
    /\ life' = [life EXCEPT ![p] = "exited"]
    /\ Release(Owned(p)) /\ UNCHANGED <<ticks, env, issued>>
Reap(p) ==
    /\ Runs(Shell) /\ p \in Mortal /\ life[p] = "exited"
    /\ life' = [life EXCEPT ![p] = "gone"]
    /\ Release(Owned(p)) /\ UNCHANGED <<ticks, env, issued>>

Call(p) ==
    \/ \E initial \in {0, 1} : Create(p, initial)
    \/ \E k \in Serials :
        \/ Close(p, k) \/ Send(p, k) \/ Receive(p, k)
        \/ SemWait(p, k) \/ SemPost(p, k) \/ MutexLock(p, k) \/ MutexUnlock(p, k)
        \/ \E timeout \in Timeouts : Wait(p, k, timeout)
Next ==
    \/ \E p \in Procs : Call(p) \/ Exit(p) \/ Kill(p) \/ Reap(p)
    \/ \E step \in 1..MaxStep : Tick(step)
    \/ KeyWake

Spec == Init /\ [][Next]_vars
\* The timer interrupt keeps coming.
FairSpec == Spec /\ WF_vars(\E step \in 1..MaxStep : Tick(step))

(***************************************************************************)
(* Properties                                                              *)
(***************************************************************************)
Object == [serial : Serials \union {0}, gen : 0..(GenMod - 1),
           type : {"none", "queue", "sem", "mutex", "event"},
           owner : Procs \union {NoProc}, value : Int, lock : Procs \union {NoProc},
           data : Seq(Nat), waiter : Procs \union {NoProc}, deadline : 0..(TickMod - 1)]

\* Types of the variables.
TypeOK ==
    /\ obj \in [Slots -> Object]
    /\ life \in [Procs -> {"live", "exited", "gone"}] /\ keys \in BOOLEAN /\ plan \in Plans
    /\ blocked \subseteq Procs /\ ticks \in 0..(TickMod - 1)
    /\ issued \in Seq([slot : Slots, gen : 0..(GenMod - 1)])
    /\ holds \in [Procs -> SUBSET Serials] /\ res \in [Procs -> Results]
    /\ ins \in [Serials -> Nat] /\ outs \in [Serials -> Nat]
    /\ due \in [Procs -> Nat]

Used(s) == obj[s].serial # 0
WaitsAt(p) == {s \in Slots : Used(s) /\ obj[s].waiter = p}

\* A blocked process is recorded by an object, whose event, timeout or end
\* will wake it, even after a key woke it from an earlier wait; without keys
\* by exactly one, and an object records nobody who does not wait.
BlockedAreRecorded ==
    /\ \A p \in blocked : WaitsAt(p) # {}
    /\ ~keys => /\ \A p \in blocked : Cardinality(WaitsAt(p)) = 1
                /\ \A s \in Slots : obj[s].waiter # NoProc => obj[s].waiter \in blocked

\* No process waits for what is there: no wakeup is lost between the failed
\* attempt of a blocking call, a send, a post, an unlock and a tick.
NoLostWakeup ==
    \A s \in Slots : obj[s].waiter # NoProc => Unavailable(obj[s], obj[s].waiter)

\* At most one live process believes it holds a mutex, and the mutex agrees,
\* also when it was handed to a waiter.
MutualExclusion ==
    \A k \in Serials :
        LET P == {p \in Procs : life[p] = "live" /\ k \in holds[p]} IN
        /\ Cardinality(P) <= 1
        /\ \A p \in P : \E s \in Slots : obj[s].serial = k /\ obj[s].lock = p

\* The objects are sound whatever is called, times out, dies or is typed: typed,
\* every waiter recorded, no wakeup lost, no mutex held twice.
ObjectsSound == TypeOK /\ BlockedAreRecorded /\ NoLostWakeup /\ MutualExclusion

\* What is put through a handle is taken once and in order, from the object
\* the handle was given for, whoever waited, timed out or was woken.
UnitsConserved ==
    \A s \in Slots : Used(s) =>
        LET o == obj[s]  k == o.serial IN
        /\ o.type = "queue" =>
            /\ Len(o.data) <= Cap
            /\ o.data = [i \in 1..((ins[k] - outs[k]) % Wrap) |-> (outs[k] + i - 1) % Wrap]
        /\ o.type = "sem" => o.value = (ins[k] - outs[k]) % Wrap

\* A handle of a closed object never names the next object in its slot.
StaleHandlesRefused ==
    \A k \in DOMAIN issued, s \in Slots : FromHandle(issued[k], s) => obj[s].serial = k

\* A wait ends with a timeout at the first tick at which its time is over,
\* and not before it, across the wrap of g_ticks too.
TimeoutsExact ==
    [][~keys => \A p \in blocked :
        /\ p \in blocked' => due'[p] > 0
        /\ p \notin blocked' /\ res'[p] = "timeout"
            => due[p] <= (ticks' - ticks) % TickMod]_vars

\* Every wait ends: kobj_ipc_tick bounds all of them.
WaitsEnd == \A p \in Procs : p \in blocked ~> p \notin blocked

(***************************************************************************)
(* Refinement: with unique objects instead of slots, and without time.     *)
(***************************************************************************)
At(k) == CHOOSE s \in Slots : obj[s].serial = k
Exists(k) == \E s \in Slots : obj[s].serial = k
Content(o) ==
    CASE o.type = "queue" -> Len(o.data)
      [] o.type = "mutex" -> IF o.lock = NoProc THEN 1 ELSE 0
      [] OTHER -> o.value
Avail == [k \in Serials |-> IF Exists(k) THEN Content(obj[At(k)]) ELSE 0]
Holder == [k \in Serials |-> IF Exists(k) THEN obj[At(k)].lock ELSE NoProc]
Waits == [p \in Procs |-> IF p \in blocked /\ WaitsAt(p) # {}
                          THEN obj[CHOOSE s \in WaitsAt(p) : TRUE].serial ELSE 0]
Service == INSTANCE IpcService WITH
    Objects <- Serials, avail <- Avail, holder <- Holder, waits <- Waits, outcome <- res

\* The objects implement the blocking services as long as no key arrives.
KeepsPromise == Service!Init /\ [][keys \/ Service!Next]_<<Service!vars, keys>>
====
