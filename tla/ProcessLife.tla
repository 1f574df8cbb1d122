---- MODULE ProcessLife ----
(***************************************************************************)
(* Processes run by the two dynamic worker tasks (halaos_objects.c and     *)
(* task_run_linked_process in halaos_tasks.c), with waitpid, kill, the     *)
(* console lock and the wake-up of the shell by USART1.                    *)
(*                                                                         *)
(* The shell, pid 2, is the only task that issues process system calls; it *)
(* holds the console lock while it executes a command.  System calls are   *)
(* atomic.  The worker's code runs in thread mode: the worker may lose the *)
(* CPU between any two of its steps.  In a behaviour that is not exposed   *)
(* that happens only at the positions the constant Windows names, and no   *)
(* character arrives during a command: some promises need that.            *)
(*                                                                         *)
(* The scheduler is the one of Sched, reduced to "some READY task gets the *)
(* CPU".  No application is running, so claims are never refused for one.  *)
(***************************************************************************)
EXTENDS Integers, FiniteSets, FiniteSetsExt

CONSTANTS
    Slots,          \* PCB indices from 2 up
    Workers,        \* TCB indices of the dynamic tasks, 11 and 12
    MaxPid,         \* bound: the last pid handed out
    Events,         \* bound: events of an entry before it exits
    KillStatus,     \* statuses passed to kill
    Windows         \* worker positions at which preemption does no harm

Shell == 1
None  == 0          \* no task, no PCB
Tasks == {Shell} \union Workers
Positions == {"loop", "step", "check", "lock", "print", "sleep", "final", "reap", "block"}

ASSUME Shape ==
    /\ Slots \subseteq Nat \ {0, 1} /\ IsFiniteSet(Slots)
    /\ Workers \subseteq Nat \ {0, 1} /\ IsFiniteSet(Workers)
    /\ MaxPid \in Nat \ {0, 1} /\ Events \subseteq Nat /\ KillStatus \subseteq Nat
    /\ Windows \subseteq Positions

VARIABLES
    proc,       \* g_processes
    next_pid,   \* g_next_pid
    fate,       \* history: status of each pid's own exit or last kill, -1 before
    task,       \* state of each TCB
    asleep,     \* workers linked in the sleep queue
    cur,        \* the task on the CPU, None while the scheduler chooses
    pc,         \* where each task is in its code
    ptr,        \* the worker's local variable process
    after,      \* what the worker does after its log line
    owner,      \* g_console_owner
    rx,         \* characters in the UART ring
    exposed     \* preemption anywhere and characters at any time, or not

state == <<proc, next_pid, fate, task, asleep, cur, pc, ptr, after, owner, rx>>
vars == <<state, exposed>>

Free == [state |-> "FREE", pid |-> 0, slot |-> None, wait |-> None, left |-> 0, status |-> 0]
Used == {i \in Slots : proc[i].state # "FREE"}

\* process_by_task: None, or the PCB linked to worker w.
process_by_task(w) ==
    LET linked == {i \in Used : proc[i].slot = w}
    IN  IF linked = {} THEN None ELSE Min(linked)

Init ==
    /\ proc = [i \in Slots |-> Free] /\ next_pid = 3
    /\ fate = [p \in 0..MaxPid |-> -1]
    /\ task = [t \in Tasks |-> IF t = Shell THEN "READY" ELSE "BLOCKED"]
    /\ asleep = {} /\ cur = None
    /\ pc = [t \in Tasks |-> IF t = Shell THEN "read" ELSE "loop"]
    /\ ptr = [w \in Workers |-> None] /\ after = [w \in Workers |-> "sleep"]
    /\ owner = None /\ rx = 0 /\ exposed \in BOOLEAN
-----------------------------------------------------------------------------
(* Scheduling and interrupts.                                              *)

Dispatch(t) ==
    /\ cur = None /\ task[t] = "READY" /\ cur' = t
    /\ UNCHANGED <<proc, next_pid, fate, task, asleep, pc, ptr, after, owner, rx>>

\* A tick takes the CPU away from the task; a task that is not READY any more
\* is not dispatched again until somebody makes it ready.
Preempt(t) ==
    /\ cur = t /\ (t = Shell \/ exposed \/ pc[t] \in Windows) /\ cur' = None
    /\ UNCHANGED <<proc, next_pid, fate, task, asleep, pc, ptr, after, owner, rx>>

\* sleep_advance makes a linked task ready, whatever its state is by then.
Wake(w) ==
    /\ w \in asleep /\ asleep' = asleep \ {w} /\ task' = [task EXCEPT ![w] = "READY"]
    /\ UNCHANGED <<proc, next_pid, fate, cur, pc, ptr, after, owner, rx>>

\* USART1 and uart_wake_shell.
KeyArrives ==
    /\ rx = 0 /\ (exposed \/ pc[Shell] = "read") /\ rx' = 1
    /\ task' = [task EXCEPT ![Shell] = IF @ = "BLOCKED" THEN "READY" ELSE @]
    /\ UNCHANGED <<proc, next_pid, fate, asleep, cur, pc, ptr, after, owner>>

Goto(t, position) == pc' = [pc EXCEPT ![t] = position]
Block(t) == task' = [task EXCEPT ![t] = "BLOCKED"] /\ cur' = None

\* console_lock: SVC_CONSOLE_LOCK, and SVC_YIELD as long as it is refused.
console_lock(t, position) ==
    \/ /\ owner \in {None, t} /\ owner' = t /\ Goto(t, position) /\ UNCHANGED cur
    \/ /\ owner \notin {None, t} /\ cur' = None /\ UNCHANGED <<owner, pc>>
-----------------------------------------------------------------------------
(* The shell.                                                              *)

ShellAt(position) == cur = Shell /\ pc[Shell] = position

ShellRead ==
    /\ ShellAt("read")
    /\ \/ rx > 0 /\ rx' = 0 /\ Goto(Shell, "lock") /\ UNCHANGED <<task, cur>>
       \/ rx = 0 /\ Block(Shell) /\ UNCHANGED <<rx, pc>>
    /\ UNCHANGED <<proc, next_pid, fate, asleep, ptr, after, owner>>

ShellLock ==
    /\ ShellAt("lock") /\ console_lock(Shell, "cmd")
    /\ UNCHANGED <<proc, next_pid, fate, task, asleep, ptr, after, rx>>

ShellDone ==
    /\ ShellAt("cmd") /\ owner' = None /\ Goto(Shell, "read")
    /\ UNCHANGED <<proc, next_pid, fate, task, asleep, cur, ptr, after, rx>>

\* process_allocate takes the first free PCB.
Allocated == Min(Slots \ Used)

process_spawn ==
    /\ ShellAt("cmd") /\ Used # Slots /\ next_pid =< MaxPid
    /\ next_pid' = next_pid + 1
    /\ proc' = [proc EXCEPT ![Allocated] = [Free EXCEPT !.state = "READY", !.pid = next_pid]]
    /\ UNCHANGED <<fate, task, asleep, cur, pc, ptr, after, owner, rx>>

\* Mutant: a worker may be claimed while a zombie is still linked to it.
Claimable_linked == {w \in Workers : task[w] = "BLOCKED"}

\* process_claim_task: the workers that are BLOCKED and linked to no process.
Claimable == {w \in Workers : task[w] = "BLOCKED" /\ process_by_task(w) = None}

\* Without a worker the PCB is given back, but the pid is spent.
process_spawn_exec(n) ==
    /\ ShellAt("cmd") /\ Used # Slots /\ next_pid =< MaxPid
    /\ next_pid' = next_pid + 1
    /\ IF Claimable = {} THEN UNCHANGED <<proc, task>>
       ELSE LET w == Min(Claimable) IN
            /\ proc' = [proc EXCEPT ![Allocated] =
                          [Free EXCEPT !.state = "READY", !.pid = next_pid, !.slot = w, !.left = n]]
            /\ task' = [task EXCEPT ![w] = "READY"]
    /\ UNCHANGED <<fate, asleep, cur, pc, ptr, after, owner, rx>>

\* process_release_task: the worker's TCB is reset, to BLOCKED as well.
released(i) == [t \in Tasks |-> IF t = proc[i].slot THEN "BLOCKED" ELSE task[t]]

process_kill(i, status) ==
    /\ ShellAt("cmd") /\ i \in Used /\ proc[i].pid > 2
    /\ proc' = [proc EXCEPT ![i].state = "EXITED", ![i].status = status]
    /\ fate' = [fate EXCEPT ![proc[i].pid] = status]
    /\ task' = released(i)
    /\ UNCHANGED <<next_pid, asleep, cur, pc, ptr, after, owner, rx>>

\* Mutant: the parent blocks for a child that has already exited.
process_wait_blocking_zombie(i) ==
    /\ ShellAt("cmd") /\ i \in Used /\ proc[i].pid > 2 /\ proc[i].wait = None
    /\ proc' = [proc EXCEPT ![i].wait = Shell]
    /\ Block(Shell) /\ Goto(Shell, "wait")
    /\ UNCHANGED <<next_pid, fate, asleep, ptr, after, owner, rx>>

\* waitpid: reap at once, or block with the PCB as the place to be found.
process_wait_blocking(i) ==
    /\ ShellAt("cmd") /\ i \in Used /\ proc[i].pid > 2
    /\ \/ /\ proc[i].state = "EXITED"
          /\ proc' = [proc EXCEPT ![i] = Free] /\ task' = released(i)
          /\ UNCHANGED <<cur, pc>>
       \/ /\ proc[i].state = "READY" /\ proc[i].wait = None
          /\ proc' = [proc EXCEPT ![i].wait = Shell]
          /\ Block(Shell) /\ Goto(Shell, "wait")
    /\ UNCHANGED <<next_pid, fate, asleep, ptr, after, owner, rx>>

\* The system call returns to the shell once it is on the CPU again.
WaitReturn ==
    /\ ShellAt("wait") /\ Goto(Shell, "cmd")
    /\ UNCHANGED <<proc, next_pid, fate, task, asleep, cur, ptr, after, owner, rx>>
-----------------------------------------------------------------------------
(* A worker: task_app_a, task_app_b without an application.                *)

At(w, position) == cur = w /\ pc[w] = position

\* Mutant: a process that has ended is found as well.
FetchProcess_any(w) ==
    /\ At(w, "loop")
    /\ IF process_by_task(w) # None
       THEN ptr' = [ptr EXCEPT ![w] = process_by_task(w)] /\ Goto(w, "step")
            /\ UNCHANGED <<task, cur>>
       ELSE Block(w) /\ UNCHANGED <<ptr, pc>>
    /\ UNCHANGED <<proc, next_pid, fate, asleep, after, owner, rx>>

\* kobj_process_task_step finds the process; without one the worker blocks.
FetchProcess(w) ==
    /\ At(w, "loop")
    /\ LET i == process_by_task(w) IN
       IF i # None /\ proc[i].state = "READY"
       THEN ptr' = [ptr EXCEPT ![w] = i] /\ Goto(w, "step") /\ UNCHANGED <<task, cur>>
       ELSE Block(w) /\ UNCHANGED <<ptr, pc>>
    /\ UNCHANGED <<proc, next_pid, fate, asleep, after, owner, rx>>

\* ... and advances it: one more event, or its exit.
TaskStep(w) ==
    LET i == ptr[w] IN
    /\ At(w, "step") /\ Goto(w, "check")
    /\ IF proc[i].left > 0
       THEN /\ proc' = [proc EXCEPT ![i].left = @ - 1]
            /\ after' = [after EXCEPT ![w] = "sleep"] /\ UNCHANGED fate
       ELSE /\ proc' = [proc EXCEPT ![i].state = "EXITED", ![i].status = 0]
            /\ after' = [after EXCEPT ![w] = "final"]
            /\ fate' = IF proc[i].slot = w /\ fate[proc[i].pid] = -1
                       THEN [fate EXCEPT ![proc[i].pid] = 0] ELSE fate
    /\ UNCHANGED <<next_pid, task, asleep, cur, ptr, owner, rx>>

\* console_available: the log line is skipped while somebody else has the lock.
CheckConsole(w) ==
    /\ At(w, "check")
    /\ Goto(w, IF owner \in {None, w} THEN "lock" ELSE after[w])
    /\ UNCHANGED <<proc, next_pid, fate, task, asleep, cur, ptr, after, owner, rx>>

AsyncBegin(w) ==
    /\ At(w, "lock") /\ console_lock(w, "print")
    /\ UNCHANGED <<proc, next_pid, fate, task, asleep, ptr, after, rx>>

\* Mutant: the lock is kept on the way out.
AsyncEnd_keep(w) ==
    /\ At(w, "print") /\ owner' = (IF after[w] = "final" THEN owner ELSE None)
    /\ Goto(w, after[w])
    /\ UNCHANGED <<proc, next_pid, fate, task, asleep, cur, ptr, after, rx>>

AsyncEnd(w) ==
    /\ At(w, "print") /\ owner' = None /\ Goto(w, after[w])
    /\ UNCHANGED <<proc, next_pid, fate, task, asleep, cur, ptr, after, rx>>

WorkerSleep(w) ==
    /\ At(w, "sleep") /\ Goto(w, "loop")
    /\ asleep' = asleep \union {w} /\ task' = [task EXCEPT ![w] = "SLEEP"] /\ cur' = None
    /\ UNCHANGED <<proc, next_pid, fate, ptr, after, owner, rx>>

\* Mutant: the parent is made ready before its child's PCB is freed.
FinalizeExit_early(w) ==
    /\ At(w, "final")
    /\ LET i == process_by_task(w) IN
       IF i # None /\ proc[i].state = "EXITED" /\ proc[i].wait # None
       THEN /\ ptr' = [ptr EXCEPT ![w] = i] /\ Goto(w, "reap")
            /\ task' = [released(i) EXCEPT ![Shell] = "READY"]
            /\ proc' = [proc EXCEPT ![i].slot = None]
       ELSE Goto(w, "block") /\ UNCHANGED <<ptr, task, proc>>
    /\ UNCHANGED <<next_pid, fate, asleep, cur, after, owner, rx>>

\* kobj_process_finalize_task_exit, and process_reap_and_wake up to the release
\* of the task, which takes READY away from the very worker that executes it ...
FinalizeExit(w) ==
    /\ At(w, "final")
    /\ LET i == process_by_task(w) IN
       IF i # None /\ proc[i].state = "EXITED" /\ proc[i].wait # None
       THEN /\ ptr' = [ptr EXCEPT ![w] = i] /\ Goto(w, "reap")
            /\ task' = released(i) /\ proc' = [proc EXCEPT ![i].slot = None]
       ELSE Goto(w, "block") /\ UNCHANGED <<ptr, task, proc>>
    /\ UNCHANGED <<next_pid, fate, asleep, cur, after, owner, rx>>

\* Mutant: nobody wakes the parent.
ReapAndWake_silent(w) ==
    /\ At(w, "reap") /\ Goto(w, "block")
    /\ proc' = [proc EXCEPT ![ptr[w]] = Free]
    /\ UNCHANGED <<next_pid, fate, task, asleep, cur, ptr, after, owner, rx>>

\* ... and from there on: the PCB is freed and the parent, noted at the start of
\* the function, is made ready.
ReapAndWake(w) ==
    /\ At(w, "reap") /\ Goto(w, "block")
    /\ proc' = [proc EXCEPT ![ptr[w]] = Free]
    /\ task' = [task EXCEPT ![Shell] = "READY"]
    /\ UNCHANGED <<next_pid, fate, asleep, cur, ptr, after, owner, rx>>

WorkerBlock(w) ==
    /\ At(w, "block") /\ Block(w) /\ Goto(w, "loop")
    /\ UNCHANGED <<proc, next_pid, fate, asleep, ptr, after, owner, rx>>
-----------------------------------------------------------------------------
ShellStep ==
    \/ ShellRead \/ ShellLock \/ ShellDone \/ process_spawn \/ WaitReturn
    \/ \E n \in Events : process_spawn_exec(n)
    \/ \E i \in Slots : \/ \E s \in KillStatus : process_kill(i, s)
                        \/ process_wait_blocking(i)

WorkerStep(w) ==
    \/ FetchProcess(w) \/ TaskStep(w) \/ CheckConsole(w) \/ AsyncBegin(w) \/ AsyncEnd(w)
    \/ WorkerSleep(w) \/ FinalizeExit(w) \/ ReapAndWake(w) \/ WorkerBlock(w)

Next ==
    /\ \/ \E t \in Tasks : Dispatch(t) \/ Preempt(t)
       \/ \E w \in Workers : Wake(w) \/ WorkerStep(w)
       \/ KeyArrives \/ ShellStep
    /\ UNCHANGED exposed

Spec == Init /\ [][Next]_vars

\* Ticks go on, so sleepers wake and a slice ends; a task that is READY again and again gets the
\* CPU, and gets on with its code, again and again (fair scheduling class).
Fairness ==
    /\ \A t \in Tasks : SF_state(Dispatch(t))
    /\ \A w \in Workers : WF_state(Wake(w)) /\ SF_state(WorkerStep(w))
    /\ WF_state(Preempt(Shell)) /\ SF_state(WaitReturn)
FairSpec == Spec /\ Fairness
-----------------------------------------------------------------------------
(* Properties.                                                             *)

\* Types and ranges.
TypeOK ==
    /\ proc \in [Slots -> [state : {"FREE", "READY", "EXITED"}, pid : 0..MaxPid,
                           slot : Workers \union {None}, wait : {None, Shell},
                           left : Nat, status : KillStatus \union {0}]]
    /\ next_pid \in 3..MaxPid+1 /\ fate \in [0..MaxPid -> KillStatus \union {-1, 0}]
    /\ task \in [Tasks -> {"READY", "BLOCKED", "SLEEP"}] /\ asleep \subseteq Workers
    /\ cur \in Tasks \union {None}
    /\ pc \in [Tasks -> Positions \union {"read", "cmd", "wait"}]
    /\ ptr \in [Workers -> Slots \union {None}] /\ after \in [Workers -> {"sleep", "final"}]
    /\ owner \in Tasks \union {None} /\ rx \in {0, 1} /\ exposed \in BOOLEAN

\* No two processes share a worker, although the worker itself, the parent's
\* waitpid and kill all take part in giving it back.
SlotsExclusive ==
    \A i, j \in Used : proc[i].slot = proc[j].slot /\ proc[i].slot # None => i = j

\* The shell does not wait on nothing: somebody still knows that it waits.
WaitIsRecorded ==
    pc[Shell] = "wait" /\ task[Shell] = "BLOCKED" => \E i \in Used : proc[i].wait = Shell

\* What holds of the registry wherever a worker is preempted and whenever
\* characters arrive (process_claim_task, process_reap_and_wake, waitpid).
RegistrySound == TypeOK /\ SlotsExclusive /\ WaitIsRecorded

\* A PCB says that the shell waits for it exactly while the shell is blocked in
\* waitpid: the frame pointer it holds is never that of a call that has returned.
WaiterWaits ==
    ~exposed => \A i \in Used :
        proc[i].wait = Shell => pc[Shell] = "wait" /\ task[Shell] = "BLOCKED"

\* The status kept for the parent is the one this very process ended with, by its
\* own exit or by kill; no worker writes it into somebody else's PCB.
ExitIsOwn ==
    ~exposed => \A i \in Slots : proc[i].state = "EXITED" => proc[i].status = fate[proc[i].pid]

\* Processes that have been linked to a worker get executed until they exit, and
\* with MaxPid started there is an end to that.
Started == {i \in Slots : proc[i].state = "READY" /\ proc[i].slot # None}
StartedRuns == ~exposed /\ Started # {} ~> Started = {}

\* waitpid for a running process returns: its exit reaps it and wakes the parent.
WaitReturns ==
    (~exposed /\ pc[Shell] = "wait" /\ \E i \in Used : proc[i].wait = Shell /\ proc[i].slot # None)
        ~> pc[Shell] # "wait"

\* A worker that has the console lock is READY at its log line, wherever it is
\* preempted, so it gives the lock back: nobody kills, claims or reaps it meanwhile.
ConsoleHolderRuns == \A w \in Workers : owner = w => task[w] = "READY" /\ pc[w] = "print"
====
