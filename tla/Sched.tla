---- MODULE Sched ----
(***************************************************************************)
(* The HalaOS kernel scheduler (halaos_kernel.c) with the system calls and *)
(* interrupts that drive it: SVC, PendSV, SysTick and USART1.              *)
(*                                                                         *)
(* SVC and USART1 run at exception priority 0, SysTick and PendSV at the   *)
(* lowest priority, so a system call is one atomic step, USART1 may arrive *)
(* between any two steps of SysTick_Handler, and thread code is preempted  *)
(* anywhere.  PendSV has the smaller exception number: once pended it runs *)
(* before the next SysTick and before any thread code.                     *)
(*                                                                         *)
(* Ticks are kept as differences (age of the RT window, ticks to the next  *)
(* release), which is all the code compares.  Among fair tasks the pick is *)
(* left open: virtual runtimes decide only which fair task runs, and when  *)
(* its slice ends.                                                         *)
(***************************************************************************)
EXTENDS SleepList

CONSTANTS
    Tasks,          \* TCB indices of the instance, a subset of 0..12
    Policy,         \* Tasks -> scheduling class
    Prio,           \* Tasks -> effective_prio
    Sleepers,       \* tasks whose code issues SVC_SLEEP
    SleepTicks,     \* arguments they pass
    LoadModes,      \* modes the shell passes to SVC_LOAD
    AppTypes,       \* application types the shell starts
    CompileWhen,    \* states of the compiler in which the shell queues a job
    Quantum,        \* RR quantum (ticks)
    RtWindow, RtBudget,     \* RT_WINDOW_TICKS, RT_BUDGET_TICKS
    DlPeriod, DlRuntime,    \* the deadline task's period and runtime
    MaxStep,        \* longest tickless sleep (ticks)
    RxRing          \* characters the UART ring holds

\* TCB indices given by kernel_main.
Idle == 0
Shell == 1
Compiler == 2
Vm == 3
Deadline == 9
HalaInit == 10
WorkerA == 11
WorkerB == 12

LoadTasks == Tasks \cap 4..9
RtTasks   == {t \in Tasks : Policy[t] \in {"FIFO", "RR"}}
FairTasks == {t \in Tasks : Policy[t] \in {"NORMAL", "BATCH"}}
Levels    == {Prio[t] : t \in RtTasks}
TaskState == {"READY", "SLEEP", "BLOCKED"}

\* The static task table: idle, shell and init exist, the only real-time tasks
\* are load generators, and none of those ever calls SVC_SLEEP.
ASSUME TaskTable ==
    /\ Tasks \subseteq 0..12
    /\ {Idle, Shell, HalaInit} \subseteq Tasks
    /\ Policy \in [Tasks -> {"IDLE", "NORMAL", "BATCH", "FIFO", "RR", "DEADLINE"}]
    /\ Prio \in [Tasks -> Nat]
    /\ \A t \in Tasks : /\ Policy[t] = "IDLE" <=> t = Idle
                        /\ Policy[t] = "DEADLINE" <=> t = Deadline
    /\ RtTasks = Tasks \cap 4..6
    /\ Sleepers \subseteq FairTasks
ASSUME Parameters ==
    /\ SleepTicks \subseteq Nat /\ LoadModes \subseteq 0..6
    /\ AppTypes \subseteq {"threads", "single", "bytecode"}
    /\ CompileWhen \subseteq TaskState
    /\ {Quantum, RtWindow, RtBudget, DlPeriod, DlRuntime, RxRing} \subseteq Nat \ {0}
    /\ MaxStep \in Nat /\ MaxStep >= 2

VARIABLES
    k,          \* run queues: current, state, rtq, sl (sleep list), need, pend
    a,          \* accounting: age, used, throttled, quantum, left, release, missed
    phase,      \* "thread", or the point SysTick_Handler has reached
    tickStep,   \* g_tick_step
    loadMode,   \* g_load_mode
    loadOn,     \* tasks with TF_LOAD_ENABLED
    blocking,   \* tasks inside block_current, before pend_resched
    rx,         \* characters in the UART ring
    job,        \* g_compiler_job
    booted      \* hala-init has made the shell ready

vars == <<k, a, phase, tickStep, loadMode, loadOn, blocking, rx, job, booted>>
-----------------------------------------------------------------------------
(* Run queues.                                                             *)

rt_enqueue(kk, i) == [kk EXCEPT !.rtq[Prio[i]] = Append(@, i)]

rt_remove(kk, i) ==
    IF i \in RtTasks THEN [kk EXCEPT !.rtq[Prio[i]] = RemoveFirst(@, i)] ELSE kk

\* Mutant: the expired task keeps the head.
rt_rotate_none(kk, p) == kk

rt_rotate(kk, p) ==
    [kk EXCEPT !.rtq[p] = IF Len(@) < 2 THEN @ ELSE Append(Tail(@), Head(@))]

\* The head of the highest level that is not empty (smallest number first).
highest_rt(kk) ==
    LET full == {p \in Levels : kk.rtq[p] # <<>>}
    IN  Head(kk.rtq[CHOOSE p \in full : \A r \in full : p =< r])

RtQueued(kk) == \E p \in Levels : kk.rtq[p] # <<>>

pend_resched(kk) == [kk EXCEPT !.need = TRUE, !.pend = TRUE]

task_make_ready(kk, i) ==
    IF kk.state[i] = "READY" THEN kk
    ELSE LET r == [kk EXCEPT !.state[i] = "READY", !.sl = link_reset(@, i), !.need = TRUE]
         IN  IF i \in RtTasks THEN rt_enqueue(r, i) ELSE r

\* block_current up to pend_resched, for a state other than TASK_SLEEP.
leave_cpu(kk) ==
    [rt_remove(kk, kk.current) EXCEPT !.state[kk.current] = "BLOCKED"]

block_current_sleep(kk, ticks) ==
    LET c == kk.current
    IN  pend_resched([rt_remove(kk, c) EXCEPT !.state[c] = "SLEEP",
                                              !.sl = sleep_insert(@, c, ticks)])

pick_deadline(kk, aa) ==
    {t \in Tasks : Policy[t] = "DEADLINE" /\ kk.state[t] = "READY" /\ aa.left > 0}

pick_fair(kk) == {t \in FairTasks : kk.state[t] = "READY"}

\* Mutant: the real-time class is looked at before the deadline class.
sched_pick_next_rt_first(kk, aa) ==
    IF ~aa.throttled /\ RtQueued(kk) THEN {highest_rt(kk)}
    ELSE IF pick_deadline(kk, aa) # {} THEN pick_deadline(kk, aa)
    ELSE IF pick_fair(kk) # {} THEN pick_fair(kk)
    ELSE {Idle}

\* The tasks the scheduler may pick: one, except among the fair class.
sched_pick_next(kk, aa) ==
    IF pick_deadline(kk, aa) # {} THEN pick_deadline(kk, aa)
    ELSE IF ~aa.throttled /\ RtQueued(kk) THEN {highest_rt(kk)}
    ELSE IF pick_fair(kk) # {} THEN pick_fair(kk)
    ELSE {Idle}

hala_schedule_next(kk, aa) ==
    {[kk EXCEPT !.current = n, !.need = FALSE] : n \in sched_pick_next(kk, aa)}

\* The tail of SVC_Handler: switch at once if asked to, and drop the PendSV.
SVC_Handler(kk, aa) ==
    IF kk.need THEN {[n EXCEPT !.pend = FALSE] : n \in hala_schedule_next(kk, aa)}
    ELSE {kk}
-----------------------------------------------------------------------------
(* Applications and load generators.                                       *)

demo_block_task(kk, i) ==
    IF i \notin Tasks THEN kk
    ELSE [rt_remove(kk, i) EXCEPT
            !.state[i] = "BLOCKED",
            !.sl = LET L == sleep_remove(@, i) IN [L EXCEPT !.delta[i] = 0]]

demo_stop(kk) ==
    pend_resched(demo_block_task(demo_block_task(demo_block_task(kk, Vm), WorkerA), WorkerB))

demo_start(kk, type) ==
    LET s == demo_stop(kk)
    IN  CASE type = "threads"  -> task_make_ready(task_make_ready(s, WorkerA), WorkerB)
          [] type = "single"   -> task_make_ready(s, WorkerA)
          [] type = "bytecode" -> task_make_ready(s, Vm)

\* Mutant: the disabled tasks stay in their ready queues.
load_disable_all_queued(kk) ==
    pend_resched([kk EXCEPT !.state = [t \in Tasks |->
                                         IF t \in LoadTasks THEN "BLOCKED" ELSE @[t]]])

load_disable_all(kk) ==
    LET d == rt_remove(rt_remove(rt_remove(kk, 4), 5), 6)
    IN  pend_resched([d EXCEPT !.state = [t \in Tasks |->
                                            IF t \in LoadTasks THEN "BLOCKED" ELSE @[t]]])

\* The generators load_enable starts in a mode.
started(mode) ==
    LoadTasks \cap ( (IF mode \in {1, 4} THEN {4, 5} ELSE {})
              \union (IF mode = 6 THEN {6} ELSE {})
              \union (IF mode \in {2, 4, 5} THEN {7, 8} ELSE {})
              \union (IF mode \in {3, 4} THEN {Deadline} ELSE {}) )

load_enable(kk, mode) ==
    LET on      == started(mode)
        d       == load_disable_all(kk)
        r       == [d EXCEPT !.state = [t \in Tasks |-> IF t \in on THEN "READY" ELSE @[t]]]
        enq(q, i) == IF i \in on THEN rt_enqueue(q, i) ELSE q
    IN  pend_resched(enq(enq(enq(r, 4), 5), 6))

load_accounts(aa, mode) ==
    LET on == started(mode)
        r  == [aa EXCEPT !.age = 0, !.used = 0, !.throttled = FALSE,
                         !.quantum = [t \in RtTasks |->
                                        IF t \in on /\ Policy[t] = "RR" THEN Quantum ELSE @[t]]]
    IN  IF Deadline \in on
        THEN [r EXCEPT !.left = DlRuntime, !.release = DlPeriod] ELSE r
-----------------------------------------------------------------------------
(* Tick accounting.  An account step maps a pair <<kk, aa>> to a pair.     *)

Sub(x, step) == IF x > step THEN x - step ELSE 0

\* The wake-ups of sleep_advance; a deadline task is released as it wakes.
WakeSleepers(kk, step) ==
    LET W == woken(kk.sl, step)
    IN  [kk EXCEPT !.sl    = sleep_advance(@, step),
                   !.state = [t \in Tasks |-> IF t \in W THEN "READY" ELSE @[t]],
                   !.need  = @ \/ \E t \in W : kk.state[t] # "READY"]

\* Mutant: a released job keeps the old deadline.
Release_stale(kk, aa, step) ==
    [aa EXCEPT !.left = IF Deadline \in woken(kk.sl, step) THEN DlRuntime ELSE @,
               !.release = IF @ >= step THEN @ - step ELSE -1]

\* release is next_release - g_ticks (= abs_deadline - g_ticks), cut off at -1.
Release(kk, aa, step) ==
    IF Deadline \in woken(kk.sl, step)
    THEN [aa EXCEPT !.left = DlRuntime, !.release = DlPeriod]
    ELSE [aa EXCEPT !.release = IF @ >= step THEN @ - step ELSE -1]

\* Mutant: the task that has used its runtime sleeps without asking for a switch.
deadline_account_quiet(kk, aa, step) ==
    LET b == [aa EXCEPT !.left = Sub(@, step), !.missed = @ \/ aa.release < 0]
        wait == IF aa.release > 0 THEN aa.release ELSE DlPeriod
    IN  <<IF b.left > 0 THEN kk
          ELSE [kk EXCEPT !.state[kk.current] = "SLEEP",
                          !.sl = sleep_insert(@, kk.current, wait)], b>>

deadline_account(kk, aa, step) ==
    LET c    == kk.current
        b    == [aa EXCEPT !.left = Sub(@, step), !.missed = @ \/ aa.release < 0]
        wait == IF aa.release > 0 THEN aa.release ELSE DlPeriod
    IN  <<IF b.left > 0 THEN kk
          ELSE pend_resched([kk EXCEPT !.state[c] = "SLEEP", !.sl = sleep_insert(@, c, wait)]), b>>

\* Mutant: rotation without preemption.
rr_account_quiet(kk, aa, step) ==
    LET c == kk.current
    IN  IF step >= aa.quantum[c]
        THEN <<rt_rotate(kk, Prio[c]), [aa EXCEPT !.quantum[c] = Quantum]>>
        ELSE <<kk, [aa EXCEPT !.quantum[c] = @ - step]>>

rr_account(kk, aa, step) ==
    LET c == kk.current
    IN  IF step >= aa.quantum[c]
        THEN <<pend_resched(rt_rotate(kk, Prio[c])), [aa EXCEPT !.quantum[c] = Quantum]>>
        ELSE <<kk, [aa EXCEPT !.quantum[c] = @ - step]>>

\* What the tick may do to the current task, by its class; a fair task's slice
\* may or may not end.
account(kk, aa, step) ==
    CASE Policy[kk.current] = "RR"       -> {rr_account(kk, aa, step)}
      [] Policy[kk.current] = "DEADLINE" -> {deadline_account(kk, aa, step)}
      [] kk.current \in FairTasks        -> {<<kk, aa>>, <<pend_resched(kk), aa>>}
      [] OTHER                           -> {<<kk, aa>>}

\* Mutants: the window start is not moved; the throttle does not preempt; there
\* is no throttle.
RtUsed(kk, aa, step) == IF kk.current \in RtTasks THEN [aa EXCEPT !.used = @ + step] ELSE aa
rt_account_same_window(kk, aa, step) ==
    LET w == IF aa.age + step >= RtWindow
             THEN [aa EXCEPT !.age = @ + step, !.used = 0, !.throttled = FALSE]
             ELSE [aa EXCEPT !.age = @ + step]
    IN  <<kk, RtUsed(kk, w, step)>>
rt_account_quiet(kk, aa, step) ==
    LET w == IF aa.age + step >= RtWindow
             THEN [aa EXCEPT !.age = 0, !.used = 0, !.throttled = FALSE]
             ELSE [aa EXCEPT !.age = @ + step]
        u == RtUsed(kk, w, step)
    IN  <<kk, [u EXCEPT !.throttled = @ \/ u.used >= RtBudget]>>
rt_account_unlimited(kk, aa, step) ==
    <<kk, [aa EXCEPT !.age = (@ + step) % RtWindow]>>

rt_account(kk, aa, step) ==
    LET age == aa.age + step
        w   == IF age >= RtWindow
               THEN [aa EXCEPT !.age = 0, !.used = 0, !.throttled = FALSE]
               ELSE [aa EXCEPT !.age = age]
        u   == IF kk.current \in RtTasks THEN [w EXCEPT !.used = @ + step] ELSE w
    IN  IF kk.current \in RtTasks /\ u.used >= RtBudget /\ ~u.throttled
        THEN <<pend_resched(kk), [u EXCEPT !.throttled = TRUE]>>
        ELSE <<kk, u>>
-----------------------------------------------------------------------------
Init ==
    /\ k = [current |-> HalaInit,
            state   |-> [t \in Tasks |-> IF t \in {Idle, HalaInit} THEN "READY" ELSE "BLOCKED"],
            rtq     |-> [p \in Levels |-> <<>>],
            sl      |-> [q |-> <<>>, delta |-> [t \in Tasks |-> 0]],
            need    |-> FALSE,
            pend    |-> FALSE]
    /\ a = [age |-> 0, used |-> 0, throttled |-> FALSE,
            quantum |-> [t \in RtTasks |-> Quantum],
            left |-> 1, release |-> DlPeriod, missed |-> FALSE]
    /\ phase = "thread" /\ tickStep = 1
    /\ loadMode = 0 /\ loadOn = {} /\ blocking = {}
    /\ rx = 0 /\ job = FALSE /\ booted = FALSE

\* c executes thread code: no exception is pending or active.
Running(c) ==
    /\ c \in Tasks /\ k.current = c /\ c \notin blocking
    /\ phase = "thread" /\ ~k.pend

SvcSleep(c, n) ==
    /\ Running(c) /\ c \in Sleepers
    /\ k' \in SVC_Handler(block_current_sleep(k, n), a)
    /\ UNCHANGED <<a, phase, tickStep, loadMode, loadOn, blocking, rx, job, booted>>

SvcYield(c) ==
    /\ Running(c) /\ c \in {Shell, Compiler, Vm, WorkerA, WorkerB}
    /\ k' \in SVC_Handler(pend_resched(k), a)
    /\ UNCHANGED <<a, phase, tickStep, loadMode, loadOn, blocking, rx, job, booted>>

\* Any other call, such as SVC_PUTC: its tail serves a switch left over from an
\* interrupt.
SvcPlain(c) ==
    /\ Running(c) /\ c \in FairTasks \ LoadTasks /\ k.need
    /\ k' \in SVC_Handler(k, a)
    /\ UNCHANGED <<a, phase, tickStep, loadMode, loadOn, blocking, rx, job, booted>>

\* SVC_READ: pop a character, or block until USART1 brings one.
SvcRead ==
    /\ Running(Shell)
    /\ \/ rx > 0 /\ rx' = rx - 1 /\ k' \in SVC_Handler(k, a)
       \/ rx = 0 /\ UNCHANGED rx /\ k' \in SVC_Handler(pend_resched(leave_cpu(k)), a)
    /\ UNCHANGED <<a, phase, tickStep, loadMode, loadOn, blocking, job, booted>>

\* SVC_QUEUE_COMPILE: refused while a job is queued (-16).
SvcQueueCompile ==
    /\ Running(Shell) /\ Compiler \in Tasks /\ k.state[Compiler] \in CompileWhen
    /\ ~job /\ job' = TRUE
    /\ k' \in SVC_Handler(task_make_ready(k, Compiler), a)
    /\ UNCHANGED <<a, phase, tickStep, loadMode, loadOn, blocking, rx, booted>>

\* The compiler task has finished its job.
CompileDone ==
    /\ Running(Compiler) /\ job /\ job' = FALSE
    /\ UNCHANGED <<k, a, phase, tickStep, loadMode, loadOn, blocking, rx, booted>>

SvcAppRun(type) ==
    /\ Running(Shell) /\ {WorkerA, WorkerB} \subseteq Tasks
    /\ type = "bytecode" => Vm \in Tasks
    /\ k' \in SVC_Handler(demo_start(k, type), a)
    /\ UNCHANGED <<a, phase, tickStep, loadMode, loadOn, blocking, rx, job, booted>>

SvcAppStop ==
    /\ Running(Shell) /\ AppTypes # {}
    /\ k' \in SVC_Handler(demo_stop(k), a)
    /\ UNCHANGED <<a, phase, tickStep, loadMode, loadOn, blocking, rx, job, booted>>

\* Mutant: a tickless period is not cut short.
SvcLoad_tickless(mode) ==
    /\ Running(Shell)
    /\ loadMode' = mode /\ loadOn' = started(mode)
    /\ a' = load_accounts(a, mode)
    /\ k' \in SVC_Handler(load_enable(k, mode), a')
    /\ UNCHANGED <<phase, tickStep, blocking, rx, job, booted>>

SvcLoad(mode) ==
    /\ Running(Shell)
    /\ tickStep' = 1 /\ loadMode' = mode /\ loadOn' = started(mode)
    /\ a' = load_accounts(a, mode)
    /\ k' \in SVC_Handler(load_enable(k, mode), a')
    /\ UNCHANGED <<phase, blocking, rx, job, booted>>

\* Ticks to program for a tickless idle.
next_event_ticks ==
    LET L == k.sl
        n == IF L.q # <<>> /\ L.delta[Head(L.q)] < MaxStep THEN L.delta[Head(L.q)] ELSE MaxStep
    IN  IF n < 2 THEN 2 ELSE n

\* SVC_IDLE: enter_idle_tickless.
SvcIdle ==
    /\ Running(Idle)
    /\ tickStep' = IF loadMode = 0 /\ tickStep = 1 THEN next_event_ticks ELSE tickStep
    /\ k' \in SVC_Handler(k, a)
    /\ UNCHANGED <<a, phase, loadMode, loadOn, blocking, rx, job, booted>>

\* hala-init, in thread mode, starts the shell.
HalaInitReady ==
    /\ Running(HalaInit) /\ ~booted /\ booted' = TRUE
    /\ k' = task_make_ready(k, Shell)
    /\ UNCHANGED <<a, phase, tickStep, loadMode, loadOn, blocking, rx, job>>

\* block_current called from thread mode: the task may be preempted after it
\* has given up its READY state and before it asks for a switch.
ThreadBlocks(c) ==
    \/ c = HalaInit /\ booted
    \/ c \in {Vm, WorkerA, WorkerB}
    \/ c \in LoadTasks \ loadOn

BlockBegin(c) ==
    /\ Running(c) /\ ThreadBlocks(c)
    /\ k' = leave_cpu(k) /\ blocking' = blocking \union {c}
    /\ UNCHANGED <<a, phase, tickStep, loadMode, loadOn, rx, job, booted>>

BlockPend(c) ==
    /\ k.current = c /\ c \in blocking /\ phase = "thread" /\ ~k.pend
    /\ k' = pend_resched(k) /\ blocking' = blocking \ {c}
    /\ UNCHANGED <<a, phase, tickStep, loadMode, loadOn, rx, job, booted>>

PendSV_Handler ==
    /\ phase = "thread" /\ k.pend
    /\ \E n \in hala_schedule_next(k, a) : k' = [n EXCEPT !.pend = FALSE]
    /\ UNCHANGED <<a, phase, tickStep, loadMode, loadOn, blocking, rx, job, booted>>

\* SysTick_Handler: everything up to the test of g_need_resched ...
SysTick_Handler ==
    /\ phase = "thread" /\ ~k.pend
    /\ phase' = "tick" /\ tickStep' = 1
    /\ \E r \in account(WakeSleepers(k, tickStep), Release(k, a, tickStep), tickStep) :
          LET s == rt_account(r[1], r[2], tickStep) IN k' = s[1] /\ a' = s[2]
    /\ UNCHANGED <<loadMode, loadOn, blocking, rx, job, booted>>

\* Mutant: SysTick never pends the switch.
SysTickPend_never ==
    /\ phase = "tick" /\ phase' = "tock"
    /\ UNCHANGED <<k, a, tickStep, loadMode, loadOn, blocking, rx, job, booted>>

\* ... the test itself ...
SysTickPend ==
    /\ phase = "tick" /\ phase' = "tock"
    /\ k' = IF k.need THEN [k EXCEPT !.pend = TRUE] ELSE k
    /\ UNCHANGED <<a, tickStep, loadMode, loadOn, blocking, rx, job, booted>>

\* ... and g_in_systick = 0 with the return.
SysTickReturn ==
    /\ phase = "tock" /\ phase' = "thread"
    /\ UNCHANGED <<k, a, tickStep, loadMode, loadOn, blocking, rx, job, booted>>

\* Mutant: the wake-up is left to SysTick as well.
uart_wake_shell_late(kk) ==
    IF kk.state[Shell] # "BLOCKED" \/ phase # "thread" THEN kk
    ELSE pend_resched([kk EXCEPT !.state[Shell] = "READY"])

\* A character arrives; inside SysTick the switch is left to SysTick's test.
uart_wake_shell(kk) ==
    IF kk.state[Shell] # "BLOCKED" THEN kk
    ELSE [kk EXCEPT !.state[Shell] = "READY", !.need = TRUE,
                    !.pend = @ \/ phase = "thread"]

USART1_IRQHandler ==
    /\ rx < RxRing /\ rx' = rx + 1
    /\ k' = uart_wake_shell(k)
    /\ UNCHANGED <<a, phase, tickStep, loadMode, loadOn, blocking, job, booted>>

Thread ==
    \/ \E c \in Tasks : \/ \E n \in SleepTicks : SvcSleep(c, n)
                        \/ SvcYield(c) \/ SvcPlain(c) \/ BlockBegin(c) \/ BlockPend(c)
    \/ \E type \in AppTypes : SvcAppRun(type)
    \/ \E mode \in LoadModes : SvcLoad(mode)
    \/ SvcRead \/ SvcQueueCompile \/ CompileDone \/ SvcAppStop \/ SvcIdle \/ HalaInitReady

Interrupt ==
    PendSV_Handler \/ SysTick_Handler \/ SysTickPend \/ SysTickReturn \/ USART1_IRQHandler

Next == Thread \/ Interrupt

Spec == Init /\ [][Next]_vars

\* The hardware takes a pending exception as soon as nothing of higher priority
\* runs; a SysTick that finds PendSV pending stays pending, hence SF.
Fairness ==
    /\ SF_vars(SysTick_Handler)
    /\ WF_vars(SysTickPend) /\ WF_vars(SysTickReturn) /\ WF_vars(PendSV_Handler)
FairSpec == Spec /\ Fairness

\* Thread code that is on the CPU again and again gets on: hala-init goes to
\* sleep, the shell comes back to SVC_READ, the compiler to SVC_SLEEP.
ThreadFairness ==
    /\ SF_vars(HalaInitReady)
    /\ SF_vars(BlockBegin(HalaInit)) /\ SF_vars(BlockPend(HalaInit))
    /\ SF_vars(SvcRead)
    /\ SF_vars(\E n \in SleepTicks : SvcSleep(Compiler, n))
LiveSpec == FairSpec /\ ThreadFairness
-----------------------------------------------------------------------------
(* Properties.                                                             *)

\* Types and ranges of the scheduler's state.
TypeOK ==
    /\ k.current \in Tasks
    /\ k.state \in [Tasks -> TaskState]
    /\ k.rtq \in [Levels -> Seq(RtTasks)]
    /\ k.sl.q \in Seq(Tasks) /\ k.sl.delta \in [Tasks -> Nat]
    /\ k.need \in BOOLEAN /\ k.pend \in BOOLEAN
    /\ a.age \in 0..RtWindow-1 /\ a.used \in Nat /\ a.throttled \in BOOLEAN
    /\ a.quantum \in [RtTasks -> 1..Quantum]
    /\ a.left \in 0..DlRuntime \union {1} /\ a.release \in -1..DlPeriod
    /\ a.missed \in BOOLEAN
    /\ phase \in {"thread", "tick", "tock"} /\ tickStep \in 1..MaxStep
    /\ loadMode \in LoadModes \union {0} /\ loadOn \subseteq LoadTasks
    /\ blocking \subseteq Tasks /\ rx \in 0..RxRing
    /\ job \in BOOLEAN /\ booted \in BOOLEAN

ThreadMode == phase = "thread" /\ ~k.pend

\* A task that is not READY never executes thread code, except the last line
\* of its own block_current: every handler that takes READY away from the
\* current task switches (SVC) or pends a switch (SysTick) before it returns.
CurrentRunnable ==
    ThreadMode /\ k.current \notin blocking => k.state[k.current] = "READY"

\* The ready queue of a priority level holds exactly the READY real-time tasks
\* of that level, each once, whatever mix of load changes, blocking, rotation
\* and wake-ups happened (rt_enqueue has no membership test of its own).
RtQueueExact ==
    \A p \in Levels :
        /\ \A i, j \in DOMAIN k.rtq[p] : k.rtq[p][i] = k.rtq[p][j] => i = j
        /\ ToSet(k.rtq[p]) = {t \in RtTasks : Prio[t] = p /\ k.state[t] = "READY"}

\* Every task in TASK_SLEEP is still linked in the sleep queue; one that is not
\* is never woken again.
SleepersLinked ==
    \A t \in Tasks : k.state[t] = "SLEEP" => Contains(k.sl.q, t)

\* No task is linked twice, so a walk of the list ends.
SleepListSimple ==
    \A i, j \in DOMAIN k.sl.q : k.sl.q[i] = k.sl.q[j] => i = j

\* The shell does not stay blocked in SVC_READ while the UART ring holds input
\* (the pop-or-block of SVC_READ cannot be split by USART1).
ShellHearsInput == rx > 0 => k.state[Shell] # "BLOCKED"

\* A real-time task that runs with no switch outstanding is the head of the
\* highest level that is not empty: nothing of higher priority waits, and a
\* task rotated to the tail has been preempted.
RunningRtIsFirst ==
    ThreadMode /\ ~k.need /\ k.current \in RtTasks \ blocking
        => k.current = highest_rt(k)

\* The deadline task, once released with budget, runs before everything else.
DeadlineFirst ==
    ThreadMode /\ ~k.need /\ pick_deadline(k, a) # {} => k.current = Deadline

\* sched_pick_next keeps the classes in order wherever an interrupt strikes.
ClassesInOrder == RunningRtIsFirst /\ DeadlineFirst

\* deadline_misses stays 0: however load changes, stale sleep entries and
\* real-time load interleave, the task gets its runtime before the deadline.
NoDeadlineMiss == ~a.missed

\* Real-time tasks never use more of a window than their budget: the throttle
\* stops them on the tick that exhausts it.
RtWithinBudget == a.used =< RtBudget

\* The tick accounting keeps both promises of the real-time classes.
RtTimeKept == NoDeadlineMiss /\ RtWithinBudget

\* The timer is slowed down only while no load generator is ready, so no tick of
\* several is ever charged to a task that has just been started.
TicklessOnlyIdle ==
    tickStep > 1 => \A t \in LoadTasks : k.state[t] # "READY"

\* A switch that has been asked for is made, also when the request was left
\* behind by thread code or by USART1 during the last lines of SysTick.
NeedServed == k.need ~> ~k.need

\* Every sleeper wakes up.
SleepersWake == \A t \in Tasks : k.state[t] = "SLEEP" ~> k.state[t] # "SLEEP"

\* Real-time load cannot keep the CPU: the throttle lets others run again and
\* again.
OthersRun == []<>(k.current \notin RtTasks)

\* While RR load stays on and the compiler task keeps waking up (which is what
\* gets the processor rescheduled after a throttled window), both RR tasks run
\* again and again.
RrShare ==
    (/\ <>[][~\E mode \in LoadModes : SvcLoad(mode)]_vars
     /\ <>[](loadMode = 1)
     /\ []<>(k.current = Compiler))
    => []<>(k.current = 4) /\ []<>(k.current = 5)

\* The processor is shared under real-time load, both ways.
RtShares == OthersRun /\ RrShare

\* The delta queue implements the abstract timers: the remaining time of a task
\* that sleeps by SVC_SLEEP is its prefix sum.  One that sleeps but is not
\* linked has no remaining time.
RemainingTicks ==
    [t \in Sleepers |->
        IF k.state[t] # "SLEEP" THEN -1
        ELSE IF Contains(k.sl.q, t) THEN Due(k.sl)[CHOOSE j \in DOMAIN k.sl.q : k.sl.q[j] = t]
        ELSE -2]
Timers == INSTANCE SleepTimers WITH Tasks <- Sleepers, left <- RemainingTicks,
                                    Durations <- SleepTicks
TimersSpec == Timers!Spec
====
