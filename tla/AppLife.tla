---- MODULE AppLife ----
(***************************************************************************)
(* The life of a demo application: demo_start makes the virtual machine or *)
(* the two workers ready, they count their iterations, hand messages over, *)
(* mark themselves done and block; the last one ends the application; the  *)
(* shell stops, continues, kills and starts it meanwhile.  A task that is  *)
(* READY may be the next to run at every label, which is what a preemptive *)
(* scheduler of one class amounts to.                                      *)
(***************************************************************************)
EXTENDS Integers, Sequences, FiniteSets

CONSTANTS
    Types,      \* of the applications that can be compiled
    RudeTypes,  \* sets of types compiled in one behaviour with rude commands
    Iterations, \* 5 or 20, of the workers
    VmLength,   \* instructions of the bytecode application before its HALT
    QueueSize,  \* ARRAY_LEN(g_demo_queue)
    Unsplit     \* labels at which no worker is preempted

Vm == 3   A == 11   B == 12     \* task_vm, task_app_a, task_app_b
Workers == {A, B}
AppTasks == {Vm, A, B}
Shell == 1
Nobody == 0

ASSUME AppAssumption ==
    /\ Types \subseteq {"bytecode", "threads", "ipc", "loop", "pipe", "fault"}
    /\ RudeTypes \subseteq SUBSET Types
    /\ {Iterations, VmLength, QueueSize} \subseteq Nat \ {0}
    /\ Unsplit \subseteq {"count", "mark", "clear"}

VARIABLES
    app,        \* g_app_running, _paused, _type, _thread_done, counters, exit status
    store,      \* the type in the header of the installed package
    q,          \* the demo queue
    state,      \* of the tasks
    at,         \* where each task is in its code
    doing,      \* the type a worker has seen at the head of its loop
    reg,        \* what a worker has read and not yet written back
    announced,  \* local of task_app_b
    vm,         \* position in the program, and what active_sequence says of it
    owner,      \* g_console_owner
    typing,     \* g_shell_typing
    shell,      \* what the shell is doing
    rude, mix,  \* may commands take effect wherever a task is? the types compiled
    started, joins, got     \* history: type last started, its ends, what was received

tasks == <<state, at, doing, reg, announced>>
console == <<owner, typing, shell>>
fixed == <<store, rude, mix>>
history == <<started, joins, got>>
vars == <<app, q, vm, tasks, console, fixed, history>>

Members(type) ==
    CASE type = "bytecode" -> {Vm} [] type \in {"threads", "ipc"} -> Workers [] OTHER -> {A}
EmptyQueue == [cell |-> [i \in 0..QueueSize-1 |-> 0], head |-> 0, tail |-> 0, count |-> 0]
Goal(type) == IF type = "pipe" THEN 1 ELSE Iterations
Bit(w) == IF w = A THEN 1 ELSE 2
Expected(type) == IF type \in {"threads", "ipc"} THEN 3 ELSE 1
Marked(w) == (app.done \div Bit(w)) % 2 = 1

Init ==
    /\ \/ rude = FALSE /\ mix = Types
       \/ rude = TRUE /\ mix \in RudeTypes
    /\ store \in mix
    /\ app = [running |-> FALSE, paused |-> FALSE, type |-> store, done |-> 0,
              a |-> 0, b |-> 0, status |-> 0]
    /\ q = EmptyQueue
    /\ state = [t \in AppTasks |-> "BLOCKED"] /\ at = [t \in AppTasks |-> "head"]
    /\ doing = [w \in Workers |-> "none"] /\ reg = [w \in Workers |-> 0] /\ announced = FALSE
    /\ vm = [pos |-> 0, active |-> "none"]
    /\ owner = Nobody /\ typing = FALSE /\ shell = "read"
    /\ started = "none" /\ joins = 0 /\ got = <<>>

(***************************************************************************)
(* Steps of a task.                                                        *)
(***************************************************************************)
Split(t) == \A w \in Workers \ {t} : at[w] \notin Unsplit
\* Polite commands are not preempted either.
Alone == ~rude /\ shell \in {"pause", "stop", "kill"}
Runs(t, label) == state[t] = "READY" /\ at[t] = label /\ Split(t) /\ ~Alone
Go(t, label) == at' = [at EXCEPT ![t] = label] /\ UNCHANGED state
WrittenBack(w) == reg' = [reg EXCEPT ![w] = 0]
Leave(t, st, label) == at' = [at EXCEPT ![t] = label] /\ state' = [state EXCEPT ![t] = st]
Keep == UNCHANGED <<fixed, typing, shell, history, reg>>
KeepApp == UNCHANGED <<app, q, vm, owner, announced>>

\* sleep_advance: the time is up.
Wake(t) ==
    /\ state[t] = "SLEEP" /\ state' = [state EXCEPT ![t] = "READY"]
    /\ UNCHANGED <<app, q, vm, at, doing, reg, announced, console, fixed, history>>

\* console_lock, from a label to the one behind it, and console_unlock.
Takes == [lock |-> "print", alock |-> "blocked", msglock |-> "msg"]
ConsoleLock(t) ==
    /\ \E label \in DOMAIN Takes :
        Runs(t, label) /\ owner = Nobody /\ owner' = t /\ Go(t, Takes[label])
    /\ Keep /\ UNCHANGED <<app, q, vm, doing, announced>>
Unlock(t) == owner' = Nobody

(***************************************************************************)
(* The workers, task_app_a and task_app_b                                  *)
(***************************************************************************)
Mine(w) == app.running /\ ~app.paused /\ app.type \in (Types \ {"bytecode"})
           /\ w \in Members(app.type)
Counter(w) == IF w = A THEN app.a ELSE app.b
\* The branches that look at g_shell_typing first.
Waits(w) ==
    typing /\ \/ app.type \in {"threads", "loop"} /\ Counter(w) < Goal(app.type)
              \/ app.type = "ipc" /\ (w = B \/ Counter(w) < Goal(app.type))
              \/ app.type = "fault"

\* The head of the loop.
LoopHead(w) ==
    /\ Runs(w, "head")
    /\ IF ~Mine(w)
       THEN /\ Leave(w, "BLOCKED", "head") /\ UNCHANGED doing
            /\ announced' = (announced /\ w # B)
       ELSE /\ doing' = [doing EXCEPT ![w] = app.type] /\ UNCHANGED announced
            /\ IF Waits(w) THEN Leave(w, "SLEEP", "head")
               ELSE Go(w, IF app.type = "ipc" /\ w = B THEN "pop"
                          ELSE IF app.type # "fault" /\ Counter(w) >= Goal(app.type) THEN "complete"
                          ELSE IF app.type = "ipc" THEN "push"
                          ELSE "lock")
    /\ Keep /\ UNCHANGED <<app, q, vm, owner>>

\* demo_queue_push writes the cell and the tail, then counts: read and written back.
Push ==
    /\ Runs(A, "push")
    /\ IF q.count >= QueueSize THEN Leave(A, "SLEEP", "head") /\ UNCHANGED <<q, reg>>
       ELSE /\ q' = [q EXCEPT !.cell[q.tail] = app.a + 1, !.tail = (@ + 1) % QueueSize]
            /\ reg' = [reg EXCEPT ![A] = q.count + 1] /\ Go(A, "count")
    /\ UNCHANGED <<app, vm, owner, typing, shell, fixed, history, doing, announced>>
\* demo_queue_pop; an empty queue is announced once.
Pop ==
    /\ Runs(B, "pop")
    /\ IF q.count = 0
       THEN /\ announced' = TRUE
            /\ IF announced THEN Leave(B, "SLEEP", "head") ELSE Go(B, "alock")
            /\ UNCHANGED <<q, reg, got>>
       ELSE /\ got' = Append(got, q.cell[q.head])
            /\ q' = [q EXCEPT !.head = (@ + 1) % QueueSize]
            /\ reg' = [reg EXCEPT ![B] = q.count - 1] /\ Go(B, "count")
            /\ announced' = FALSE
    /\ UNCHANGED <<app, vm, owner, typing, shell, fixed, started, joins, doing>>
\* The count is written back.
Count(w) ==
    /\ Runs(w, "count") /\ q' = [q EXCEPT !.count = reg[w]] /\ Go(w, "lock") /\ WrittenBack(w)
    /\ UNCHANGED <<app, vm, owner, typing, shell, fixed, history, doing, announced>>

\* The line is printed, between async_begin and async_end.
PrintLine(w) ==
    /\ Runs(w, "print") /\ Unlock(w)
    /\ Go(w, IF doing[w] = "fault" THEN "load" ELSE "inc")
    /\ Keep /\ UNCHANGED <<app, q, vm, doing, announced>>
\* "consumer blocked waiting for message"
Announced ==
    /\ Runs(B, "blocked") /\ Unlock(B) /\ Leave(B, "SLEEP", "head")
    /\ Keep /\ UNCHANGED <<app, q, vm, doing, announced>>
\* The iteration is counted; a consumer and the pipe demo go on at once.
Inc(w) ==
    /\ Runs(w, "inc")
    /\ app' = IF w = A THEN [app EXCEPT !.a = @ + 1] ELSE [app EXCEPT !.b = @ + 1]
    /\ IF doing[w] = "pipe" \/ (doing[w] = "ipc" /\ w = B /\ app.b + 1 >= Iterations)
       THEN Go(w, "complete")
       ELSE IF doing[w] = "ipc" /\ w = B THEN Go(w, "head") ELSE Leave(w, "SLEEP", "head")
    /\ Keep /\ UNCHANGED <<q, vm, owner, doing, announced>>

(***************************************************************************)
(* demo_thread_complete                                                    *)
(***************************************************************************)
\* The mark is set with a read and a write.
Complete(w) ==
    /\ Runs(w, "complete")
    /\ IF Marked(w) THEN Go(w, "join") /\ UNCHANGED reg
       ELSE reg' = [reg EXCEPT ![w] = app.done + Bit(w)] /\ Go(w, "mark")
    /\ KeepApp /\ UNCHANGED <<fixed, typing, shell, history, doing>>
\* Mutant: the mark of the other thread is overwritten.
Mark_only(w) ==
    /\ Runs(w, "mark") /\ app' = [app EXCEPT !.done = Bit(w)] /\ Go(w, "join")
    /\ WrittenBack(w)
    /\ UNCHANGED <<q, vm, owner, typing, shell, fixed, history, doing, announced>>
Mark(w) ==
    /\ Runs(w, "mark") /\ app' = [app EXCEPT !.done = reg[w]] /\ Go(w, "join")
    /\ WrittenBack(w)
    /\ UNCHANGED <<q, vm, owner, typing, shell, fixed, history, doing, announced>>
\* Mutant: the first thread that is done ends the application.
Join_any(w) ==
    /\ Runs(w, "join")
    /\ Go(w, IF app.running THEN "clear" ELSE "park")
    /\ KeepApp /\ Keep /\ UNCHANGED doing
Join(w) ==
    /\ Runs(w, "join")
    /\ Go(w, IF app.done = Expected(doing[w]) /\ app.running THEN "clear" ELSE "park")
    /\ KeepApp /\ Keep /\ UNCHANGED doing
\* The last one ends the application, and says so before it blocks.
Clear(w) ==
    /\ Runs(w, "clear")
    /\ app' = [app EXCEPT !.running = FALSE, !.status = 0]
    /\ joins' = IF joins = 2 THEN 2 ELSE joins + 1
    /\ Go(w, IF w = A /\ doing[w] = "ipc" /\ app.type \notin {"threads", "ipc"}
             THEN "park" ELSE "msglock")
    /\ UNCHANGED <<q, vm, owner, typing, shell, fixed, started, got, doing, reg, announced>>
Said(w) ==
    /\ Runs(w, "msg") /\ Unlock(w) /\ Go(w, "park")
    /\ Keep /\ UNCHANGED <<app, q, vm, doing, announced>>
Park(w) ==
    /\ Runs(w, "park") /\ Leave(w, "BLOCKED", "head")
    /\ KeepApp /\ Keep /\ UNCHANGED doing

\* HardFault_C: the application is over, the other worker is blocked, and this
\* one exits in task_fault_trampoline, for good: nothing sets its stack up again.
Fault ==
    /\ Runs(A, "load")
    /\ app' = [app EXCEPT !.running = FALSE, !.status = 139]
    /\ state' = [state EXCEPT ![A] = "ZOMBIE", ![B] = "BLOCKED"]
    /\ at' = [at EXCEPT ![A] = "spin"]
    /\ Keep /\ UNCHANGED <<q, vm, owner, doing, announced>>

WorkerStep(w) ==
    \/ LoopHead(w) \/ ConsoleLock(w) \/ Count(w) \/ PrintLine(w) \/ Inc(w)
    \/ Complete(w) \/ Mark(w) \/ Join(w) \/ Clear(w) \/ Said(w) \/ Park(w)
    \/ w = A /\ (Push \/ Fault)
    \/ w = B /\ (Pop \/ Announced)

(***************************************************************************)
(* task_vm.  The program prints once per instruction, or sleeps.           *)
(***************************************************************************)
VmHead ==
    /\ Runs(Vm, "head")
    /\ IF ~app.running \/ app.type # "bytecode"
       THEN vm' = [pos |-> 0, active |-> "none"] /\ Leave(Vm, "BLOCKED", "head")
       ELSE /\ vm' = IF vm.active = "same" THEN vm ELSE [pos |-> 0, active |-> "same"]
            /\ Go(Vm, "burst")
    /\ Keep /\ UNCHANGED <<app, q, owner, doing, announced>>
VmBurst ==
    /\ Runs(Vm, "burst")
    /\ IF ~app.running THEN Go(Vm, "head") /\ UNCHANGED <<app, vm, history>>
       ELSE IF vm.pos >= VmLength      \* HALT: vm_complete
       THEN /\ app' = [app EXCEPT !.running = FALSE, !.status = 0]
            /\ joins' = IF joins = 2 THEN 2 ELSE joins + 1
            /\ Go(Vm, "msglock") /\ UNCHANGED <<vm, started, got>>
       ELSE /\ vm' = [vm EXCEPT !.pos = @ + 1]
            /\ Go(Vm, "typing") \/ Leave(Vm, "SLEEP", "head")
            /\ UNCHANGED <<app, history>>
    /\ UNCHANGED <<q, owner, typing, shell, fixed, doing, reg, announced>>
\* Output waits while somebody types.
VmWaits ==
    /\ Runs(Vm, "typing")
    /\ IF typing THEN Leave(Vm, "SLEEP", "typing") ELSE Go(Vm, "lock")
    /\ KeepApp /\ Keep /\ UNCHANGED doing
VmPrint ==
    /\ Unlock(Vm) /\ \/ Runs(Vm, "print") /\ Go(Vm, "burst")
                     \/ Runs(Vm, "msg") /\ Go(Vm, "head")
    /\ Keep /\ UNCHANGED <<app, q, vm, doing, announced>>
VmStep == VmHead \/ VmBurst \/ VmWaits \/ VmPrint \/ ConsoleLock(Vm)

(***************************************************************************)
(* The shell.  A command is executed with the console locked.              *)
(***************************************************************************)
\* Polite commands meet every task at the head of its loop, or dead.
Met == Split(Shell) /\ (rude \/ \A t \in AppTasks : at[t] \in {"head", "spin"})

KeyTyped ==
    /\ shell = "read" /\ typing' = TRUE /\ shell' = "enter"
    /\ KeepApp /\ UNCHANGED <<state, at, doing, reg, fixed, history>>
\* Mutant: the command is executed without the console lock.
Enter_nolock ==
    /\ shell = "enter" /\ Split(Shell) /\ owner' = Shell
    /\ shell' = "command"
    /\ UNCHANGED <<app, q, vm, tasks, typing, fixed, history>>

Enter ==
    /\ shell = "enter" /\ owner = Nobody /\ Split(Shell) /\ owner' = Shell
    /\ shell' = "command"
    /\ UNCHANGED <<app, q, vm, tasks, typing, fixed, history>>
Done ==
    /\ shell = "done" /\ owner' = Nobody /\ typing' = FALSE /\ shell' = "read"
    /\ UNCHANGED <<app, q, vm, tasks, fixed, history>>
Command(next) == Met /\ shell' = next /\ UNCHANGED <<owner, typing, rude, mix>>
Stay == UNCHANGED <<at, doing, reg, announced>>

\* A command that is none of the following, or is refused.
OtherCommand ==
    /\ shell = "command" /\ shell' = "done"
    /\ UNCHANGED <<app, q, vm, tasks, owner, typing, fixed, history>>

\* demo_block_task of all three: their code goes on where it was.
Blocked == [t \in AppTasks |-> "BLOCKED"]
Readied(st, T) == [t \in AppTasks |-> IF t \in T THEN "READY" ELSE st[t]]

\* SVC_APP_RUN: demo_start, in one system call.
Run ==
    /\ shell = "command" /\ Command("done")
    /\ app' = [running |-> TRUE, paused |-> FALSE, type |-> store, done |-> 0,
               a |-> 0, b |-> 0, status |-> 0]
    /\ q' = EmptyQueue
    /\ state' = Readied(Blocked, Members(store))
    /\ started' = store /\ joins' = 0 /\ got' = <<>>
    /\ UNCHANGED <<store, vm>> /\ Stay

\* stop: the check, the flag, the tasks.
StopCheck ==
    /\ shell = "command" /\ app.running /\ Command("pause")
    /\ UNCHANGED <<app, q, vm, state, store, history>> /\ Stay
StopFlag ==
    /\ shell = "pause" /\ Command("stop") /\ app' = [app EXCEPT !.paused = TRUE]
    /\ UNCHANGED <<q, vm, state, store, history>> /\ Stay
Stopped(type) == IF type = "bytecode" THEN {Vm}
                 ELSE IF type \in {"threads", "ipc"} THEN Workers ELSE {A}
StopTasks ==
    /\ shell = "stop" /\ Command("done")
    /\ state' = [t \in AppTasks |-> IF t \in Stopped(app.type) THEN "STOPPED" ELSE "BLOCKED"]
    /\ UNCHANGED <<app, q, vm, store, history>> /\ Stay
Continue ==
    /\ shell = "command" /\ app.running /\ app.paused /\ Command("done")
    /\ app' = [app EXCEPT !.paused = FALSE]
    /\ state' = Readied(state, Stopped(app.type))
    /\ UNCHANGED <<q, vm, store, history>> /\ Stay

\* kill: demo_stop, here in thread mode, then the status.
KillFlags ==
    /\ shell = "command" /\ Command("kill")
    /\ app' = [app EXCEPT !.running = FALSE, !.paused = FALSE]
    /\ UNCHANGED <<q, vm, state, store, history>> /\ Stay
\* Mutant: only the workers are blocked.
KillTasks_workers ==
    /\ shell = "kill" /\ Command("done")
    /\ state' = [Blocked EXCEPT ![Vm] = state[Vm]] /\ app' = [app EXCEPT !.status = 137]
    /\ UNCHANGED <<q, vm, store, history>> /\ Stay
KillTasks ==
    /\ shell = "kill" /\ Command("done")
    /\ state' = Blocked /\ app' = [app EXCEPT !.status = 137]
    /\ UNCHANGED <<q, vm, store, history>> /\ Stay

\* SVC_COMPILE_EXEC by the compiler task, at any time: app_write changes the
\* package, g_app_type and the sequence number.
Compile ==
    /\ Split(Shell) /\ (rude \/ (Met /\ ~app.running))
    /\ store' \in mix /\ app' = [app EXCEPT !.type = store']
    /\ vm' = [vm EXCEPT !.active = IF @ = "none" THEN "none" ELSE "old"]
    /\ UNCHANGED <<q, tasks, console, rude, mix, history>>

ShellStep ==
    \/ Enter \/ Done \/ OtherCommand \/ Run \/ StopCheck \/ StopFlag \/ StopTasks \/ Continue
    \/ KillFlags \/ KillTasks
Next ==
    \/ \E t \in AppTasks : Wake(t)
    \/ \E w \in Workers : WorkerStep(w)
    \/ VmStep \/ KeyTyped \/ ShellStep \/ Compile

\* The scheduler runs every ready task, sleepers wake, who waits for the console
\* in turns with others gets it, and who types a line ends it.
Fairness ==
    /\ \A t \in AppTasks : WF_vars(Wake(t)) /\ SF_vars(ConsoleLock(t))
    /\ \A w \in Workers : WF_vars(WorkerStep(w))
    /\ WF_vars(VmStep) /\ SF_vars(ShellStep)
Spec == Init /\ [][Next]_vars
FairSpec == Spec /\ Fairness

(***************************************************************************)
(* Properties                                                              *)
(***************************************************************************)
Labels == {"head", "push", "pop", "count", "lock", "print", "alock", "blocked", "inc", "complete", "mark", "join",
           "clear", "msglock", "msg", "park", "load", "spin", "burst", "typing"}
\* Types and ranges.
TypeOK ==
    /\ app.type \in Types /\ app.done \in 0..3 /\ {app.a, app.b} \subseteq Nat
    /\ app.status \in {0, 137, 139} /\ store \in Types
    /\ q.count \in 0..QueueSize /\ q.head \in 0..QueueSize-1 /\ q.tail \in 0..QueueSize-1
    /\ state \in [AppTasks -> {"READY", "SLEEP", "BLOCKED", "STOPPED", "ZOMBIE"}]
    /\ at \in [AppTasks -> Labels] /\ vm.pos \in 0..VmLength
    /\ owner \in AppTasks \union {Shell, Nobody}

Printing == {"print", "blocked", "msg"}
\* The console is never left with a task that was stopped or killed, wherever a
\* command meets the tasks: whoever owns it runs.  (HardFault_C looks at nobody: a fault
\* application compiled while two threads run may take B down with the console.)
ConsoleHolderRuns ==
    ~rude \/ at[A] # "spin" =>
        /\ owner \in AppTasks => state[owner] = "READY" /\ at[owner] \in Printing
        /\ \A t \in AppTasks : at[t] \in Printing => owner = t

\* Types, and who has the console.
AppSound == TypeOK /\ ConsoleHolderRuns

\* After kill no task of an application is left to run, until the next run.
KilledStaysDead ==
    app.status = 137 => ~app.running /\ \A t \in AppTasks : state[t] = "BLOCKED"

\* An application that ends with status 0 has ended once, with all its iterations;
\* the messages were received once each, in order.
AllDone ==
    /\ joins = 1
    /\ started \in {"threads", "ipc"} => app.a = Iterations /\ app.b = Iterations
    /\ started \in {"loop", "pipe"} => app.a = Goal(started)
    /\ started = "ipc" => got = [i \in 1..Iterations |-> i] /\ q.count = 0
ExitZeroMeansDone ==
    ~rude /\ started # "none" /\ ~app.running /\ app.status = 0 /\ shell # "kill" => AllDone

\* An application that was started, and is not stopped, ends, when nobody types for
\* ever.  Not after a fault of its worker: that one never gets back to its loop.
Alive == \A t \in Members(app.type) : at[t] # "spin"
RunsToItsEnd ==
    ~rude /\ <>[]~typing => ((app.running /\ ~app.paused /\ Alive) ~> ~app.running \/ app.paused)
====
