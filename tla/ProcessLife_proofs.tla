---- MODULE ProcessLife_proofs ----
(***************************************************************************)
(* Processes on the dynamic workers, for any number of PCBs, workers and   *)
(* pids: which promises hold wherever a worker is preempted, and which     *)
(* ones hold as long as preemption and characters come where they do no    *)
(* harm.                                                                   *)
(*                                                                         *)
(* Two inductive invariants hold in every behaviour: RegInv (what a PCB    *)
(* may contain, and that the shell's wait is recorded) and ConsoleInv (who *)
(* has the console lock, and that this task is READY at its log line).     *)
(* QuietInv adds what holds in a behaviour that is not exposed: between    *)
(* finding its process and its final block a worker is on the CPU, so the  *)
(* PCB its local variable names is the one linked to it.                   *)
(***************************************************************************)
EXTENDS ProcessLife, WellFoundedInduction, TLAPS

\* Every nonempty set of naturals has a least element.
LEMMA LeastNatural ==
    ASSUME NEW T \in SUBSET Nat, T # {}
    PROVE  \E m \in T : \A j \in T : m =< j
<1>1. \E m \in T : \A j \in T : ~ (<<j, m>> \in OpToRel(<, Nat))
    BY NatLessThanWellFounded, WFMin
<1>2. \A j, m \in Nat : <<j, m>> \in OpToRel(<, Nat) <=> j < m
    BY DEF OpToRel
<1>3. PICK m \in T : \A j \in T : ~ (<<j, m>> \in OpToRel(<, Nat))
    BY <1>1
<1>4. ASSUME NEW j \in T PROVE m =< j
    <2>1. j \in Nat /\ m \in Nat
        OBVIOUS
    <2>2. ~ (j < m)
        BY <2>1, <1>2, <1>3
    <2> QED BY <2>1, <2>2
<1> QED BY <1>4

Pcb == [state : {"FREE", "READY", "EXITED"}, pid : 0..MaxPid,
        slot : Workers \union {None}, wait : {None, Shell},
        left : Nat, status : KillStatus \union {0}]

RegInv ==
    /\ TypeOK
    /\ \A w \in Workers : pc[w] \in {"step", "reap"} => ptr[w] # None
    /\ \A i \in Slots : proc[i].state = "FREE" => proc[i] = Free
    /\ \A i, j \in Slots : proc[i].slot = proc[j].slot /\ proc[i].slot # None => i = j
    /\ WaitIsRecorded

ConsoleInv ==
    /\ pc[Shell] \in {"read", "lock", "cmd", "wait"} /\ \A w \in Workers : pc[w] \in Positions
    /\ pc[Shell] \in {"cmd", "wait"} => owner = Shell
    /\ \A w \in Workers : owner = w <=> pc[w] = "print"
    /\ \A w \in Workers : owner = w => task[w] = "READY"
    /\ cur # None /\ pc[cur] \notin {"reap", "block"} => task[cur] = "READY"

-----------------------------------------------------------------------------
(* Constants, and the searches of the code.                                *)

LEMMA Constants ==
    /\ Shell \notin Workers /\ None \notin Workers /\ None \notin Slots /\ None \notin Tasks
    /\ Shell # None /\ Shell \in Tasks /\ \A w \in Workers : w \in Tasks
    /\ \A t \in Tasks : t = Shell \/ t \in Workers
    /\ Slots \in SUBSET Nat /\ Workers \in SUBSET Nat
    /\ MaxPid \in Nat /\ MaxPid >= 2 /\ Events \subseteq Nat /\ KillStatus \subseteq Nat
    /\ Windows \subseteq Positions
BY Shape DEF Shell, None, Tasks

LEMMA MinMember ==
    ASSUME NEW T \in SUBSET Nat, T # {}
    PROVE  Min(T) \in T
<1>1. \E x \in T : \A y \in T : x =< y
    BY LeastNatural
<1> QED BY <1>1 DEF Min

\* process_by_task finds a PCB that is linked to the worker, if there is one.
LEMMA FindsLinked ==
    ASSUME NEW w \in Workers
    PROVE  /\ process_by_task(w) = None => \A i \in Used : proc[i].slot # w
           /\ process_by_task(w) # None =>
                process_by_task(w) \in Used /\ proc[process_by_task(w)].slot = w
<1> DEFINE linked == {i \in Used : proc[i].slot = w}
<1>1. linked \in SUBSET Nat /\ linked \subseteq Slots
    BY Constants DEF Used
<1>2. linked # {} => Min(linked) \in linked
    BY <1>1, MinMember
<1>3. process_by_task(w) = IF linked = {} THEN None ELSE Min(linked)
    BY DEF process_by_task
<1>4. CASE linked = {}
    BY <1>3, <1>4
<1>5. CASE linked # {}
    <2>1. process_by_task(w) \in linked
        BY <1>2, <1>3, <1>5
    <2> QED BY <2>1, <1>1, Constants
<1> QED BY <1>4, <1>5

\* process_allocate finds a free PCB.
LEMMA AllocatesFree ==
    ASSUME Used # Slots
    PROVE  Allocated \in Slots /\ Allocated \notin Used
<1>1. Slots \ Used \in SUBSET Nat /\ Slots \ Used # {}
    BY Constants DEF Used
<1>2. Min(Slots \ Used) \in Slots \ Used
    BY <1>1, MinMember
<1> QED BY <1>2 DEF Allocated

\* process_claim_task finds a worker that is BLOCKED and linked to no PCB.
LEMMA ClaimsUnlinked ==
    ASSUME Claimable # {}
    PROVE  /\ Min(Claimable) \in Workers /\ task[Min(Claimable)] = "BLOCKED"
           /\ \A i \in Used : proc[i].slot # Min(Claimable)
<1>1. Claimable \in SUBSET Nat
    BY Constants DEF Claimable
<1>2. Min(Claimable) \in Claimable
    BY <1>1, MinMember
<1>3. Min(Claimable) \in Workers /\ process_by_task(Min(Claimable)) = None
    BY <1>2 DEF Claimable
<1> QED BY <1>2, <1>3, FindsLinked DEF Claimable

LEMMA Types ==
    ASSUME TypeOK
    PROVE  /\ proc \in [Slots -> Pcb] /\ \A i \in Slots : proc[i] \in Pcb
           /\ next_pid \in 3..MaxPid+1 /\ fate \in [0..MaxPid -> KillStatus \union {-1, 0}]
           /\ task \in [Tasks -> {"READY", "BLOCKED", "SLEEP"}] /\ asleep \subseteq Workers
           /\ cur \in Tasks \union {None}
           /\ pc \in [Tasks -> Positions \union {"read", "cmd", "wait"}]
           /\ ptr \in [Workers -> Slots \union {None}] /\ after \in [Workers -> {"sleep", "final"}]
           /\ owner \in Tasks \union {None} /\ rx \in {0, 1} /\ exposed \in BOOLEAN
BY DEF TypeOK, Pcb

\* What the operations write into a PCB.
LEMMA PcbWrites ==
    /\ Free \in Pcb
    /\ \A r \in Pcb, s \in KillStatus \union {0} :
            [r EXCEPT !.state = "EXITED", !.status = s] \in Pcb
    /\ \A r \in Pcb : [r EXCEPT !.wait = Shell] \in Pcb /\ [r EXCEPT !.slot = None] \in Pcb
    /\ \A r \in Pcb : r.left > 0 => [r EXCEPT !.left = r.left - 1] \in Pcb
    /\ \A r \in Pcb, p \in 0..MaxPid : [r EXCEPT !.state = "READY", !.pid = p] \in Pcb
    /\ \A r \in Pcb, p \in 0..MaxPid, w \in Workers, n \in Nat :
            [r EXCEPT !.state = "READY", !.pid = p, !.slot = w, !.left = n] \in Pcb
<1>1. Free \in Pcb
    BY Constants DEF Free, Pcb
<1>2. ASSUME NEW r \in Pcb, NEW s \in KillStatus \union {0}
      PROVE  [r EXCEPT !.state = "EXITED", !.status = s] \in Pcb
    BY DEF Pcb
<1>3. ASSUME NEW r \in Pcb
      PROVE  [r EXCEPT !.wait = Shell] \in Pcb /\ [r EXCEPT !.slot = None] \in Pcb
    BY DEF Pcb
<1>4. ASSUME NEW r \in Pcb, r.left > 0 PROVE [r EXCEPT !.left = r.left - 1] \in Pcb
    <2>1. r.left - 1 \in Nat
        BY <1>4 DEF Pcb
    <2> QED BY <2>1 DEF Pcb
<1>5. ASSUME NEW r \in Pcb, NEW p \in 0..MaxPid
      PROVE  [r EXCEPT !.state = "READY", !.pid = p] \in Pcb
    BY DEF Pcb
<1>6. ASSUME NEW r \in Pcb, NEW p \in 0..MaxPid, NEW w \in Workers, NEW n \in Nat
      PROVE  [r EXCEPT !.state = "READY", !.pid = p, !.slot = w, !.left = n] \in Pcb
    BY DEF Pcb
<1> QED BY <1>1, <1>2, <1>3, <1>4, <1>5, <1>6

\* A worker's task state after the release of a PCB's worker.
LEMMA Releases ==
    ASSUME TypeOK, NEW i \in Slots
    PROVE  /\ released(i) \in [Tasks -> {"READY", "BLOCKED", "SLEEP"}]
           /\ released(i)[Shell] = task[Shell]
           /\ \A w \in Workers : w # proc[i].slot => released(i)[w] = task[w]
<1>1. proc[i].slot # Shell
    BY Constants, Types DEF Pcb
<1> QED BY <1>1, Constants, Types DEF released

-----------------------------------------------------------------------------
LEMMA TypeStep ==
    ASSUME TypeOK, \A w \in Workers : pc[w] \in {"step", "reap"} => ptr[w] # None, Next
    PROVE  TypeOK'
<1> DEFINE Typed ==
        /\ proc' \in [Slots -> Pcb]
        /\ next_pid' \in 3..MaxPid+1 /\ fate' \in [0..MaxPid -> KillStatus \union {-1, 0}]
        /\ task' \in [Tasks -> {"READY", "BLOCKED", "SLEEP"}] /\ asleep' \subseteq Workers
        /\ cur' \in Tasks \union {None}
        /\ pc' \in [Tasks -> Positions \union {"read", "cmd", "wait"}]
        /\ ptr' \in [Workers -> Slots \union {None}] /\ after' \in [Workers -> {"sleep", "final"}]
        /\ owner' \in Tasks \union {None} /\ rx' \in {0, 1}
<1> SUFFICES Typed
    <2>1. exposed' \in BOOLEAN
        BY Types DEF Next
    <2> QED BY <2>1 DEF TypeOK, Pcb
<1> USE Types, Constants
<1>1. ASSUME NEW t \in Tasks, Dispatch(t) \/ Preempt(t) PROVE Typed
    BY <1>1 DEF Dispatch, Preempt
<1>2. ASSUME NEW w \in Workers, Wake(w) PROVE Typed
    BY <1>2 DEF Wake
<1>3. CASE KeyArrives
    BY <1>3 DEF KeyArrives
<1>4. CASE ShellRead \/ ShellLock \/ ShellDone \/ WaitReturn
    BY <1>4 DEF ShellRead, ShellLock, ShellDone, WaitReturn, Goto, Block, console_lock, Positions
<1>5. CASE process_spawn
    <2>1. [Free EXCEPT !.state = "READY", !.pid = next_pid] \in Pcb
        <3>1. next_pid \in 0..MaxPid
            BY <1>5 DEF process_spawn
        <3> QED BY <3>1, PcbWrites
    <2>2. next_pid' \in 3..MaxPid+1
        BY <1>5 DEF process_spawn
    <2> QED BY <1>5, <2>1, <2>2 DEF process_spawn
<1>6. ASSUME NEW n \in Events, process_spawn_exec(n) PROVE Typed
    <2>1. CASE Claimable = {}
        BY <1>6, <2>1 DEF process_spawn_exec
    <2>2. CASE Claimable # {}
        <3> DEFINE w == Min(Claimable)
        <3>1. w \in Workers
            BY <2>2, ClaimsUnlinked
        <3> HIDE DEF w
        <3>2. [Free EXCEPT !.state = "READY", !.pid = next_pid, !.slot = w, !.left = n] \in Pcb
            <4>1. next_pid \in 0..MaxPid /\ n \in Nat
                BY <1>6 DEF process_spawn_exec
            <4> QED BY <3>1, <4>1, PcbWrites
        <3>3. /\ proc' = [proc EXCEPT ![Allocated] =
                            [Free EXCEPT !.state = "READY", !.pid = next_pid, !.slot = w, !.left = n]]
              /\ task' = [task EXCEPT ![w] = "READY"]
            BY <1>6, <2>2 DEF process_spawn_exec, w
        <3>4. next_pid' \in 3..MaxPid+1
            BY <1>6 DEF process_spawn_exec
        <3> QED BY <1>6, <3>1, <3>2, <3>3, <3>4 DEF process_spawn_exec
    <2> QED BY <2>1, <2>2
<1>7. ASSUME NEW i \in Slots, NEW s \in KillStatus, process_kill(i, s) PROVE Typed
    <2>1. [proc[i] EXCEPT !.state = "EXITED", !.status = s] \in Pcb
        BY PcbWrites
    <2>2. proc' = [proc EXCEPT ![i] = [proc[i] EXCEPT !.state = "EXITED", !.status = s]]
        BY <1>7 DEF process_kill
    <2>3. proc[i].pid \in 0..MaxPid
        BY DEF Pcb
    <2> QED BY <1>7, <2>1, <2>2, <2>3, Releases DEF process_kill
<1>8. ASSUME NEW i \in Slots, process_wait_blocking(i) PROVE Typed
    <2>1. [proc[i] EXCEPT !.wait = Shell] \in Pcb /\ Free \in Pcb
        BY PcbWrites
    <2>0. /\ next_pid' = next_pid /\ fate' = fate /\ asleep' = asleep /\ ptr' = ptr
          /\ after' = after /\ owner' = owner /\ rx' = rx
        BY <1>8 DEF process_wait_blocking
    <2>2. CASE proc[i].state = "EXITED"
        <3>1. proc' = [proc EXCEPT ![i] = Free] /\ task' = released(i) /\ cur' = cur /\ pc' = pc
            BY <1>8, <2>2 DEF process_wait_blocking
        <3> QED BY <2>0, <2>1, <3>1, Releases
    <2>3. CASE proc[i].state = "READY"
        <3>1. /\ proc' = [proc EXCEPT ![i] = [proc[i] EXCEPT !.wait = Shell]]
              /\ task' = [task EXCEPT ![Shell] = "BLOCKED"] /\ cur' = None
              /\ pc' = [pc EXCEPT ![Shell] = "wait"]
            BY <1>8, <2>3 DEF process_wait_blocking, Goto, Block
        <3> QED BY <2>0, <2>1, <3>1
    <2> QED BY <1>8, <2>2, <2>3 DEF process_wait_blocking
<1>9. ASSUME NEW w \in Workers, FetchProcess(w) PROVE Typed
    <2> DEFINE i == process_by_task(w)
    <2>1. i # None => i \in Slots
        BY FindsLinked DEF Used
    <2>2. \/ i # None /\ ptr' = [ptr EXCEPT ![w] = i] /\ Goto(w, "step") /\ UNCHANGED <<task, cur>>
          \/ Block(w) /\ UNCHANGED <<ptr, pc>>
        BY <1>9 DEF FetchProcess
    <2>3. UNCHANGED <<proc, next_pid, fate, asleep, after, owner, rx>>
        BY <1>9 DEF FetchProcess
    <2> HIDE DEF i
    <2>4. CASE Block(w) /\ UNCHANGED <<ptr, pc>>
        BY <2>3, <2>4 DEF Block
    <2>5. CASE i # None /\ ptr' = [ptr EXCEPT ![w] = i] /\ Goto(w, "step") /\ UNCHANGED <<task, cur>>
        BY <2>1, <2>3, <2>5 DEF Goto, Positions
    <2> QED BY <2>2, <2>4, <2>5
<1>10. ASSUME NEW w \in Workers, TaskStep(w) PROVE Typed
    <2> DEFINE i == ptr[w]
    <2>0. i \in Slots
        BY <1>10 DEF TaskStep, At
    <2> HIDE DEF i
    <2>1. proc[i] \in Pcb /\ proc[i].left \in Nat
        BY <2>0 DEF Pcb
    <2>2. proc[i].left > 0 => [proc[i] EXCEPT !.left = proc[i].left - 1] \in Pcb
        BY <2>1, PcbWrites
    <2>3. [proc[i] EXCEPT !.state = "EXITED", !.status = 0] \in Pcb
        BY <2>1, PcbWrites
    <2>4. CASE proc[i].left > 0
        <3>1. proc' = [proc EXCEPT ![i] = [proc[i] EXCEPT !.left = proc[i].left - 1]]
            BY <1>10, <2>4 DEF TaskStep, i
        <3> QED BY <1>10, <2>0, <2>2, <2>4, <3>1 DEF TaskStep, Goto, Positions, i
    <2>5. CASE ~ (proc[i].left > 0)
        <3>1. proc' = [proc EXCEPT ![i] = [proc[i] EXCEPT !.state = "EXITED", !.status = 0]]
            <4>1. proc' = [proc EXCEPT ![i].state = "EXITED", ![i].status = 0]
                BY <1>10, <2>5 DEF TaskStep, i
            <4> QED BY <2>0, <4>1
        <3>2. fate' \in [0..MaxPid -> KillStatus \union {-1, 0}]
            BY <1>10, <2>5 DEF TaskStep, i
        <3> QED BY <1>10, <2>0, <2>3, <2>5, <3>1, <3>2 DEF TaskStep, Goto, Positions, i
    <2> QED BY <2>4, <2>5
<1>11. ASSUME NEW w \in Workers, CheckConsole(w) \/ AsyncBegin(w) \/ AsyncEnd(w) PROVE Typed
    <2>1. CASE CheckConsole(w)
        BY <2>1 DEF CheckConsole, Goto, Positions
    <2>2. CASE AsyncBegin(w)
        BY <2>2 DEF AsyncBegin, Goto, console_lock, Positions
    <2>3. CASE AsyncEnd(w)
        BY <2>3 DEF AsyncEnd, Goto, Positions
    <2> QED BY <1>11, <2>1, <2>2, <2>3
<1>12. ASSUME NEW w \in Workers, WorkerSleep(w) \/ WorkerBlock(w) PROVE Typed
    BY <1>12 DEF WorkerSleep, WorkerBlock, Goto, Block, Positions
<1>13. ASSUME NEW w \in Workers, FinalizeExit(w) PROVE Typed
    <2> DEFINE i == process_by_task(w)
    <2>1. CASE i # None /\ proc[i].state = "EXITED" /\ proc[i].wait # None
        <3>1. i \in Slots
            BY <2>1, FindsLinked DEF Used
        <3> HIDE DEF i
        <3>2. [proc[i] EXCEPT !.slot = None] \in Pcb
            BY <3>1, PcbWrites
        <3>3. proc' = [proc EXCEPT ![i] = [proc[i] EXCEPT !.slot = None]] /\ task' = released(i)
            BY <1>13, <2>1 DEF FinalizeExit, i
        <3>4. proc' \in [Slots -> Pcb] /\ task' \in [Tasks -> {"READY", "BLOCKED", "SLEEP"}]
            BY <3>1, <3>2, <3>3, Releases
        <3>5. ptr' = [ptr EXCEPT ![w] = i] /\ Goto(w, "reap")
            BY <1>13, <2>1 DEF FinalizeExit, i
        <3> QED BY <1>13, <3>1, <3>4, <3>5 DEF FinalizeExit, Goto, Positions
    <2>2. CASE ~ (i # None /\ proc[i].state = "EXITED" /\ proc[i].wait # None)
        BY <1>13, <2>2 DEF FinalizeExit, Goto, Positions
    <2> QED BY <2>1, <2>2
<1>14. ASSUME NEW w \in Workers, ReapAndWake(w) PROVE Typed
    BY <1>14, PcbWrites DEF ReapAndWake, Goto, Positions
<1> QED BY <1>1, <1>2, <1>3, <1>4, <1>5, <1>6, <1>7, <1>8, <1>9, <1>10, <1>11, <1>12, <1>13, <1>14
    DEF Next, ShellStep, WorkerStep

-----------------------------------------------------------------------------
(* What each operation on the registry does to it.                         *)

\* Outside these actions no PCB changes.
LEMMA RegistryUntouched ==
    ASSUME Next
    PROVE  \/ proc' = proc
           \/ process_spawn
           \/ \E n \in Events : process_spawn_exec(n)
           \/ \E i \in Slots, s \in KillStatus : process_kill(i, s)
           \/ \E i \in Slots : process_wait_blocking(i)
           \/ \E w \in Workers : TaskStep(w) \/ FinalizeExit(w) \/ ReapAndWake(w)
BY DEF Next, Dispatch, Preempt, Wake, KeyArrives, ShellStep, WorkerStep, ShellRead, ShellLock,
       ShellDone, WaitReturn, FetchProcess, CheckConsole, AsyncBegin, AsyncEnd, WorkerSleep,
       WorkerBlock

\* A PCB of its own for a process that is being started.
LEMMA SpawnEffect ==
    ASSUME TypeOK, process_spawn
    PROVE  \E a \in Slots :
             /\ proc[a].state = "FREE" /\ DOMAIN proc' = Slots
             /\ \A j \in Slots : j # a => proc'[j] = proc[j]
             /\ proc'[a] = [Free EXCEPT !.state = "READY", !.pid = next_pid]
<1>1. Allocated \in Slots /\ Allocated \notin Used
    BY AllocatesFree DEF process_spawn
<1> DEFINE a == Allocated
<1>2. proc' = [proc EXCEPT ![a] = [Free EXCEPT !.state = "READY", !.pid = next_pid]]
    BY DEF process_spawn
<1>3. a \in Slots /\ proc[a].state = "FREE"
    BY <1>1 DEF Used
<1> HIDE DEF a
<1> QED BY <1>2, <1>3, Types

LEMMA SpawnExecEffect ==
    ASSUME TypeOK, NEW n \in Events, process_spawn_exec(n)
    PROVE  \/ proc' = proc /\ task' = task
           \/ \E a \in Slots, w \in Workers :
                /\ proc[a].state = "FREE" /\ DOMAIN proc' = Slots
                /\ task[w] = "BLOCKED" /\ \A j \in Used : proc[j].slot # w
                /\ \A j \in Slots : j # a => proc'[j] = proc[j]
                /\ proc'[a] = [Free EXCEPT !.state = "READY", !.pid = next_pid, !.slot = w, !.left = n]
                /\ task' = [task EXCEPT ![w] = "READY"]
<1>1. CASE Claimable = {}
    BY <1>1 DEF process_spawn_exec
<1>2. CASE Claimable # {}
    <2> DEFINE a == Allocated
               w == Min(Claimable)
    <2>1. a \in Slots /\ proc[a].state = "FREE"
        BY AllocatesFree DEF process_spawn_exec, Used
    <2>2. w \in Workers /\ task[w] = "BLOCKED" /\ \A j \in Used : proc[j].slot # w
        BY <1>2, ClaimsUnlinked
    <2>3. /\ proc' = [proc EXCEPT ![a] =
                        [Free EXCEPT !.state = "READY", !.pid = next_pid, !.slot = w, !.left = n]]
          /\ task' = [task EXCEPT ![w] = "READY"]
        BY <1>2 DEF process_spawn_exec
    <2> HIDE DEF a, w
    <2>4. /\ \A j \in Slots : j # a => proc'[j] = proc[j]
          /\ proc'[a] = [Free EXCEPT !.state = "READY", !.pid = next_pid, !.slot = w, !.left = n]
          /\ DOMAIN proc' = Slots
        BY <2>1, <2>3, Types
    <2> QED BY <2>1, <2>2, <2>3, <2>4
<1> QED BY <1>1, <1>2

LEMMA KillEffect ==
    ASSUME TypeOK, NEW i \in Slots, NEW s \in KillStatus, process_kill(i, s)
    PROVE  /\ proc[i].state # "FREE" /\ DOMAIN proc' = Slots
           /\ \A j \in Slots : j # i => proc'[j] = proc[j]
           /\ proc'[i] = [proc[i] EXCEPT !.state = "EXITED", !.status = s]
           /\ task' = released(i)
BY Types DEF process_kill, Used

LEMMA WaitEffect ==
    ASSUME TypeOK, NEW i \in Slots, process_wait_blocking(i)
    PROVE  /\ DOMAIN proc' = Slots
           /\ \A j \in Slots : j # i => proc'[j] = proc[j]
           /\ \/ /\ proc[i].state = "EXITED" /\ proc'[i] = Free
                 /\ task' = released(i) /\ cur' = cur /\ pc' = pc
              \/ /\ proc[i].state = "READY" /\ proc[i].wait = None
                 /\ proc'[i] = [proc[i] EXCEPT !.wait = Shell]
                 /\ task' = [task EXCEPT ![Shell] = "BLOCKED"] /\ cur' = None
                 /\ pc' = [pc EXCEPT ![Shell] = "wait"]
<1>1. CASE proc[i].state = "EXITED"
    BY <1>1, Types DEF process_wait_blocking, Used
<1>2. CASE proc[i].state = "READY"
    <2>1. proc' = [proc EXCEPT ![i] = [proc[i] EXCEPT !.wait = Shell]]
        BY <1>2 DEF process_wait_blocking
    <2>2. /\ task' = [task EXCEPT ![Shell] = "BLOCKED"] /\ cur' = None
          /\ pc' = [pc EXCEPT ![Shell] = "wait"] /\ proc[i].wait = None
        BY <1>2 DEF process_wait_blocking, Goto, Block
    <2> QED BY <1>2, <2>1, <2>2, Types
<1> QED BY <1>1, <1>2 DEF process_wait_blocking

LEMMA StepEffect ==
    ASSUME TypeOK, NEW w \in Workers, TaskStep(w), ptr[w] # None
    PROVE  LET i == ptr[w] IN
           /\ i \in Slots /\ DOMAIN proc' = Slots
           /\ \A j \in Slots : j # i => proc'[j] = proc[j]
           /\ \/ /\ proc[i].left > 0 /\ fate' = fate
                 /\ proc'[i] = [proc[i] EXCEPT !.left = proc[i].left - 1]
              \/ /\ ~ (proc[i].left > 0)
                 /\ proc'[i] = [proc[i] EXCEPT !.state = "EXITED", !.status = 0]
                 /\ fate' = IF proc[i].slot = w /\ fate[proc[i].pid] = -1
                            THEN [fate EXCEPT ![proc[i].pid] = 0] ELSE fate
<1> DEFINE i == ptr[w]
<1>1. i \in Slots
    BY Types
<1>2. CASE proc[i].left > 0
    <2>1. proc' = [proc EXCEPT ![i].left = @ - 1] /\ fate' = fate
        BY <1>2 DEF TaskStep
    <2> HIDE DEF i
    <2>2. /\ DOMAIN proc' = Slots /\ \A j \in Slots : j # i => proc'[j] = proc[j]
          /\ proc'[i] = [proc[i] EXCEPT !.left = proc[i].left - 1]
        BY <1>1, <2>1, Types
    <2> QED BY <1>1, <1>2, <2>1, <2>2 DEF i
<1>3. CASE ~ (proc[i].left > 0)
    <2>1. /\ proc' = [proc EXCEPT ![i].state = "EXITED", ![i].status = 0]
          /\ fate' = IF proc[i].slot = w /\ fate[proc[i].pid] = -1
                     THEN [fate EXCEPT ![proc[i].pid] = 0] ELSE fate
        BY <1>3 DEF TaskStep
    <2> HIDE DEF i
    <2>2. /\ DOMAIN proc' = Slots /\ \A j \in Slots : j # i => proc'[j] = proc[j]
          /\ proc'[i] = [proc[i] EXCEPT !.state = "EXITED", !.status = 0]
        BY <1>1, <2>1, Types
    <2> QED BY <1>1, <1>3, <2>1, <2>2 DEF i
<1> QED BY <1>2, <1>3

LEMMA FinalEffect ==
    ASSUME TypeOK, NEW w \in Workers, FinalizeExit(w)
    PROVE  \/ /\ proc' = proc /\ task' = task /\ ptr' = ptr /\ pc' = [pc EXCEPT ![w] = "block"]
           \/ \E i \in Slots :
                /\ proc[i].slot = w /\ proc[i].state = "EXITED" /\ proc[i].wait # None
                /\ DOMAIN proc' = Slots /\ \A j \in Slots : j # i => proc'[j] = proc[j]
                /\ proc'[i] = [proc[i] EXCEPT !.slot = None]
                /\ task' = released(i) /\ ptr' = [ptr EXCEPT ![w] = i]
                /\ pc' = [pc EXCEPT ![w] = "reap"]
<1> DEFINE i == process_by_task(w)
<1>1. CASE i # None /\ proc[i].state = "EXITED" /\ proc[i].wait # None
    <2>1. i \in Slots /\ proc[i].slot = w
        BY <1>1, FindsLinked DEF Used
    <2>2. /\ proc' = [proc EXCEPT ![i].slot = None] /\ task' = released(i)
          /\ ptr' = [ptr EXCEPT ![w] = i] /\ pc' = [pc EXCEPT ![w] = "reap"]
        BY <1>1 DEF FinalizeExit, Goto
    <2> HIDE DEF i
    <2>3. /\ DOMAIN proc' = Slots /\ \A j \in Slots : j # i => proc'[j] = proc[j]
          /\ proc'[i] = [proc[i] EXCEPT !.slot = None]
        BY <2>1, <2>2, Types
    <2> QED BY <1>1, <2>1, <2>2, <2>3
<1>2. CASE ~ (i # None /\ proc[i].state = "EXITED" /\ proc[i].wait # None)
    BY <1>2 DEF FinalizeExit, Goto
<1> QED BY <1>1, <1>2

LEMMA ReapEffect ==
    ASSUME TypeOK, NEW w \in Workers, ReapAndWake(w), ptr[w] # None
    PROVE  /\ ptr[w] \in Slots /\ DOMAIN proc' = Slots
           /\ \A j \in Slots : j # ptr[w] => proc'[j] = proc[j]
           /\ proc'[ptr[w]] = Free
           /\ task' = [task EXCEPT ![Shell] = "READY"]
<1> DEFINE i == ptr[w]
<1>1. i \in Slots
    BY Types
<1>2. proc' = [proc EXCEPT ![i] = Free] /\ task' = [task EXCEPT ![Shell] = "READY"]
    BY DEF ReapAndWake
<1> HIDE DEF i
<1>3. /\ DOMAIN proc' = Slots /\ \A j \in Slots : j # i => proc'[j] = proc[j]
      /\ proc'[i] = Free
    BY <1>1, <1>2, Types
<1> QED BY <1>1, <1>2, <1>3 DEF i

-----------------------------------------------------------------------------
(* RegInv.                                                                 *)

LEMMA RegInit == Init => RegInv
<1> SUFFICES ASSUME Init PROVE RegInv
    OBVIOUS
<1>1. TypeOK
    <2>1. proc \in [Slots -> Pcb]
        BY PcbWrites DEF Init
    <2>2. next_pid \in 3..MaxPid+1 /\ fate \in [0..MaxPid -> KillStatus \union {-1, 0}]
        BY Constants DEF Init
    <2>3. /\ task \in [Tasks -> {"READY", "BLOCKED", "SLEEP"}] /\ asleep \subseteq Workers
          /\ cur \in Tasks \union {None}
          /\ pc \in [Tasks -> Positions \union {"read", "cmd", "wait"}]
          /\ ptr \in [Workers -> Slots \union {None}] /\ after \in [Workers -> {"sleep", "final"}]
          /\ owner \in Tasks \union {None} /\ rx \in {0, 1} /\ exposed \in BOOLEAN
        BY DEF Init, Positions
    <2> QED BY <2>1, <2>2, <2>3 DEF TypeOK, Pcb
<1>2. \A w \in Workers : pc[w] \notin {"step", "reap"}
    BY Constants DEF Init
<1>3. \A i \in Slots : proc[i] = Free
    BY DEF Init
<1>4. pc[Shell] = "read"
    BY Constants DEF Init
<1> QED BY <1>1, <1>2, <1>3, <1>4 DEF RegInv, Free, WaitIsRecorded

LEMMA LocalStep ==
    ASSUME RegInv, Next, NEW w \in Workers, pc'[w] \in {"step", "reap"}
    PROVE  ptr'[w] # None
<1>0. TypeOK /\ (pc[w] \in {"step", "reap"} => ptr[w] # None)
    BY DEF RegInv
<1>1. ASSUME NEW t \in Tasks, Dispatch(t) \/ Preempt(t) PROVE ptr'[w] # None
    BY <1>0, <1>1 DEF Dispatch, Preempt
<1>2. ASSUME NEW v \in Workers, Wake(v) PROVE ptr'[w] # None
    BY <1>0, <1>2 DEF Wake
<1>3. CASE KeyArrives
    BY <1>0, <1>3 DEF KeyArrives
<1>4. CASE ShellStep
    <2>1. ptr' = ptr /\ \/ pc' = pc \/ \E p : pc' = [pc EXCEPT ![Shell] = p]
        BY <1>4 DEF ShellStep, ShellRead, ShellLock, ShellDone, WaitReturn, process_spawn,
            process_spawn_exec, process_kill, process_wait_blocking, Goto, console_lock
    <2>2. pc'[w] = pc[w]
        BY <1>0, <2>1, Types, Constants
    <2> QED BY <1>0, <2>1, <2>2
<1>5. ASSUME NEW v \in Workers, v # w, WorkerStep(v) PROVE ptr'[w] # None
    <2>1. /\ \/ ptr' = ptr \/ \E i : ptr' = [ptr EXCEPT ![v] = i]
          /\ \/ pc' = pc \/ \E p : pc' = [pc EXCEPT ![v] = p]
        BY <1>5 DEF WorkerStep, FetchProcess, TaskStep, CheckConsole, AsyncBegin, AsyncEnd,
            WorkerSleep, FinalizeExit, ReapAndWake, WorkerBlock, Goto, console_lock
    <2>2. pc'[w] = pc[w] /\ ptr'[w] = ptr[w]
        BY <1>0, <2>1, <1>5, Types, Constants
    <2> QED BY <1>0, <2>2
<1>6. CASE FetchProcess(w)
    BY <1>0, <1>6, Types DEF FetchProcess, At, Block
<1>7. CASE FinalizeExit(w)
    <2>1. CASE ptr' = ptr /\ pc' = [pc EXCEPT ![w] = "block"]
        BY <2>1, <1>0, Types, Constants
    <2>2. CASE \E i \in Slots : ptr' = [ptr EXCEPT ![w] = i]
        BY <2>2, <1>0, Types, Constants
    <2>3. \/ ptr' = ptr /\ pc' = [pc EXCEPT ![w] = "block"]
          \/ \E i \in Slots : ptr' = [ptr EXCEPT ![w] = i]
        BY <1>0, <1>7, FinalEffect
    <2> QED BY <2>1, <2>2, <2>3
<1>8. CASE TaskStep(w) \/ CheckConsole(w) \/ AsyncBegin(w) \/ AsyncEnd(w) \/ WorkerSleep(w)
           \/ ReapAndWake(w) \/ WorkerBlock(w)
    <2>1. after[w] \in {"sleep", "final"}
        BY <1>0, Types
    <2>2. \/ pc' = pc /\ pc[w] = "lock"
          \/ \E p : pc' = [pc EXCEPT ![w] = p] /\ p \notin {"step", "reap"}
        BY <1>8, <2>1 DEF TaskStep, CheckConsole, AsyncBegin, AsyncEnd, WorkerSleep, ReapAndWake,
            WorkerBlock, Goto, console_lock, At
    <2> QED BY <1>0, <2>2, Types, Constants
<1> QED BY <1>1, <1>2, <1>3, <1>4, <1>5, <1>6, <1>7, <1>8 DEF Next, WorkerStep

\* The PCBs: a free one is empty, and no two share a worker.
LEMMA PcbStep ==
    ASSUME RegInv, Next
    PROVE  /\ \A i \in Slots : proc'[i].state = "FREE" => proc'[i] = Free
           /\ \A i, j \in Slots : proc'[i].slot = proc'[j].slot /\ proc'[i].slot # None => i = j
<1> DEFINE Empty(f) == \A i \in Slots : f[i].state = "FREE" => f[i] = Free
           Alone(f) == \A i, j \in Slots : f[i].slot = f[j].slot /\ f[i].slot # None => i = j
           Goal == Empty(proc') /\ Alone(proc')
<1> SUFFICES Goal
    OBVIOUS
<1>0. /\ TypeOK /\ Empty(proc) /\ Alone(proc) /\ \A i \in Slots : proc[i] \in Pcb
      /\ \A w \in Workers : pc[w] \in {"step", "reap"} => ptr[w] # None
    BY Types DEF RegInv
<1>1. Free.slot = None /\ Free.state = "FREE" /\ Free.left = 0
    BY DEF Free
<1>u. ASSUME NEW a \in Slots, \A j \in Slots : j # a => proc'[j] = proc[j],
             proc'[a].state = "FREE" => proc'[a] = Free,
             \/ proc'[a].slot = None
             \/ \A j \in Slots : j # a => proc[j].slot # proc'[a].slot
      PROVE  Goal
    <2>1. Empty(proc')
        BY <1>0, <1>u
    <2>2. ASSUME NEW i \in Slots, NEW j \in Slots, proc'[i].slot = proc'[j].slot, proc'[i].slot # None
          PROVE  i = j
        <3>1. CASE i = a \/ j = a
            BY <1>u, <2>2, <3>1
        <3>2. CASE i # a /\ j # a
            <4>1. proc[i].slot = proc[j].slot /\ proc[i].slot # None
                BY <1>u, <2>2, <3>2
            <4> QED BY <1>0, <4>1
        <3> QED BY <3>1, <3>2
    <2> QED BY <2>1, <2>2
<1>2. CASE proc' = proc
    BY <1>0, <1>2
<1> HIDE DEF Goal
<1>3. CASE process_spawn
    <2>1. PICK a \in Slots :
             /\ proc[a].state = "FREE" /\ DOMAIN proc' = Slots
             /\ \A j \in Slots : j # a => proc'[j] = proc[j]
             /\ proc'[a] = [Free EXCEPT !.state = "READY", !.pid = next_pid]
        BY <1>0, <1>3, SpawnEffect
    <2>2. proc'[a].state = "READY" /\ proc'[a].slot = None
        BY <2>1 DEF Free
    <2> QED BY <1>u, <2>1, <2>2
<1>4. ASSUME NEW n \in Events, process_spawn_exec(n) PROVE Goal
    <2>1. CASE proc' = proc
        BY <1>2, <2>1
    <2>2. CASE proc' # proc
        <3>1. PICK a \in Slots, w \in Workers :
                /\ proc[a].state = "FREE" /\ DOMAIN proc' = Slots
                /\ task[w] = "BLOCKED" /\ \A j \in Used : proc[j].slot # w
                /\ \A j \in Slots : j # a => proc'[j] = proc[j]
                /\ proc'[a] = [Free EXCEPT !.state = "READY", !.pid = next_pid, !.slot = w, !.left = n]
                /\ task' = [task EXCEPT ![w] = "READY"]
            BY <1>0, <1>4, <2>2, SpawnExecEffect
        <3>2. proc'[a].state = "READY" /\ proc'[a].slot = w
            BY <3>1 DEF Free
        <3>3. \A j \in Slots : proc[j].slot # w
            BY <1>0, <1>1, <3>1, Constants DEF Used
        <3>4. /\ \A j \in Slots : j # a => proc'[j] = proc[j]
              /\ \A j \in Slots : j # a => proc[j].slot # proc'[a].slot
              /\ proc'[a].state # "FREE"
            BY <3>1, <3>2, <3>3
        <3> QED BY <1>u, <3>4
    <2> QED BY <2>1, <2>2
<1>5. ASSUME NEW i \in Slots, NEW s \in KillStatus, process_kill(i, s) PROVE Goal
    <2>1. /\ \A j \in Slots : j # i => proc'[j] = proc[j]
          /\ proc'[i] = [proc[i] EXCEPT !.state = "EXITED", !.status = s]
        BY <1>0, <1>5, KillEffect
    <2>2. proc'[i].state = "EXITED" /\ proc'[i].slot = proc[i].slot
        BY <1>0, <2>1 DEF Pcb
    <2>3. proc'[i].slot = None \/ \A j \in Slots : j # i => proc[j].slot # proc'[i].slot
        BY <1>0, <2>2
    <2> QED BY <1>u, <2>1, <2>2, <2>3
<1>6. ASSUME NEW i \in Slots, process_wait_blocking(i) PROVE Goal
    <2>1. /\ \A j \in Slots : j # i => proc'[j] = proc[j]
          /\ \/ proc'[i] = Free
             \/ proc[i].state = "READY" /\ proc'[i] = [proc[i] EXCEPT !.wait = Shell]
        BY <1>0, <1>6, WaitEffect
    <2>2. \/ proc'[i] = Free
          \/ proc'[i].state = "READY" /\ proc'[i].slot = proc[i].slot
        BY <1>0, <2>1 DEF Pcb
    <2>3. proc'[i].slot = None \/ \A j \in Slots : j # i => proc[j].slot # proc'[i].slot
        BY <1>0, <1>1, <2>2
    <2> QED BY <1>u, <2>1, <2>2, <2>3
<1>7. ASSUME NEW w \in Workers, TaskStep(w) PROVE Goal
    <2>0. ptr[w] # None
        BY <1>0, <1>7 DEF TaskStep, At
    <2>1. PICK i \in Slots :
             /\ \A j \in Slots : j # i => proc'[j] = proc[j]
             /\ \/ proc[i].left > 0 /\ proc'[i] = [proc[i] EXCEPT !.left = proc[i].left - 1]
                \/ proc'[i] = [proc[i] EXCEPT !.state = "EXITED", !.status = 0]
        BY <1>0, <1>7, <2>0, StepEffect
    <2>2. /\ proc'[i].slot = proc[i].slot
          /\ proc'[i].state = "EXITED" \/ (proc'[i].state = proc[i].state /\ proc[i].left > 0)
        BY <1>0, <2>1 DEF Pcb
    <2>3. proc'[i].state # "FREE"
        BY <1>0, <1>1, <2>2
    <2>4. proc'[i].slot = None \/ \A j \in Slots : j # i => proc[j].slot # proc'[i].slot
        BY <1>0, <2>2
    <2> QED BY <1>u, <2>1, <2>3, <2>4
<1>8. ASSUME NEW w \in Workers, FinalizeExit(w) PROVE Goal
    <2>1. CASE proc' = proc
        BY <1>2, <2>1
    <2>2. CASE proc' # proc
        <3>1. PICK i \in Slots :
                /\ proc[i].state = "EXITED"
                /\ \A j \in Slots : j # i => proc'[j] = proc[j]
                /\ proc'[i] = [proc[i] EXCEPT !.slot = None]
            BY <1>0, <1>8, <2>2, FinalEffect
        <3>2. proc'[i].state = "EXITED" /\ proc'[i].slot = None
            BY <1>0, <3>1 DEF Pcb
        <3> QED BY <1>u, <3>1, <3>2
    <2> QED BY <2>1, <2>2
<1>9. ASSUME NEW w \in Workers, ReapAndWake(w) PROVE Goal
    <2>0. ptr[w] # None
        BY <1>0, <1>9 DEF ReapAndWake, At
    <2>1. ptr[w] \in Slots /\ proc'[ptr[w]] = Free
          /\ \A j \in Slots : j # ptr[w] => proc'[j] = proc[j]
        BY <1>0, <1>9, <2>0, ReapEffect
    <2> QED BY <1>u, <1>1, <2>1
<1> QED BY RegistryUntouched, <1>2, <1>3, <1>4, <1>5, <1>6, <1>7, <1>8, <1>9

\* While the shell is in waitpid only a worker's exit touches the registry.
LEMMA WaitStep ==
    ASSUME RegInv, Next
    PROVE  WaitIsRecorded'
<1>0. /\ TypeOK /\ \A i \in Slots : proc[i] \in Pcb
      /\ \A w \in Workers : pc[w] \in {"step", "reap"} => ptr[w] # None
    BY Types DEF RegInv
<1> DEFINE Told == \E i \in Slots : proc[i].state # "FREE" /\ proc[i].wait = Shell
           Goal == pc'[Shell] = "wait" /\ task'[Shell] = "BLOCKED" =>
                     \E i \in Slots : proc'[i].state # "FREE" /\ proc'[i].wait = Shell
<1>a. pc[Shell] = "wait" /\ task[Shell] = "BLOCKED" => Told
    BY DEF RegInv, WaitIsRecorded, Used
<1>b. SUFFICES Goal
    BY DEF WaitIsRecorded, Used
<1>1. ASSUME proc' = proc, pc'[Shell] = "wait" => pc[Shell] = "wait",
             task'[Shell] = "BLOCKED" => task[Shell] = "BLOCKED" \/ pc'[Shell] # "wait"
      PROVE  Goal
    BY <1>1, <1>a
<1> HIDE DEF Goal
<1>2. ASSUME NEW t \in Tasks, Dispatch(t) \/ Preempt(t) PROVE Goal
    BY <1>1, <1>2 DEF Dispatch, Preempt
<1>3. ASSUME NEW w \in Workers, Wake(w) PROVE Goal
    BY <1>0, <1>1, <1>3, Types, Constants DEF Wake
<1>4. CASE KeyArrives
    BY <1>0, <1>1, <1>4, Types, Constants DEF KeyArrives
<1>5. CASE ShellRead \/ ShellLock \/ ShellDone \/ WaitReturn
    <2>1. CASE ShellRead
        <3>1. /\ proc' = proc /\ pc[Shell] = "read"
              /\ pc' = pc \/ pc' = [pc EXCEPT ![Shell] = "lock"]
            BY <2>1 DEF ShellRead, ShellAt, Goto, Block
        <3> QED BY <1>0, <3>1, Types, Constants DEF Goal
    <2>2. CASE ShellLock
        <3>1. /\ proc' = proc /\ pc[Shell] = "lock"
              /\ pc' = pc \/ pc' = [pc EXCEPT ![Shell] = "cmd"]
            BY <2>2 DEF ShellLock, ShellAt, Goto, console_lock
        <3> QED BY <1>0, <3>1, Types, Constants DEF Goal
    <2>3. CASE ShellDone \/ WaitReturn
        <3>1. pc' = [pc EXCEPT ![Shell] = "read"] \/ pc' = [pc EXCEPT ![Shell] = "cmd"]
            BY <2>3 DEF ShellDone, WaitReturn, Goto
        <3> QED BY <1>0, <3>1, Types, Constants DEF Goal
    <2> QED BY <1>5, <2>1, <2>2, <2>3
<1>6. ASSUME process_spawn \/ (\E n \in Events : process_spawn_exec(n))
               \/ (\E i \in Slots, s \in KillStatus : process_kill(i, s))
      PROVE  Goal
    <2>1. pc' = pc /\ pc[Shell] = "cmd"
        BY <1>6 DEF process_spawn, process_spawn_exec, process_kill, ShellAt
    <2> QED BY <2>1 DEF Goal
<1>7. ASSUME NEW i \in Slots, process_wait_blocking(i) PROVE Goal
    <2>1. \/ pc' = pc
          \/ proc[i].state = "READY" /\ proc'[i] = [proc[i] EXCEPT !.wait = Shell]
        BY <1>0, <1>7, WaitEffect
    <2>2. pc[Shell] = "cmd"
        BY <1>7 DEF process_wait_blocking, ShellAt
    <2>3. \/ pc'[Shell] # "wait"
          \/ proc'[i].state = "READY" /\ proc'[i].wait = Shell
        BY <1>0, <2>1, <2>2 DEF Pcb
    <2> QED BY <2>3 DEF Goal
<1>8. ASSUME NEW w \in Workers, WorkerStep(w) PROVE Goal
    <2>1. pc'[Shell] = pc[Shell]
        <3>1. pc' = pc \/ \E p : pc' = [pc EXCEPT ![w] = p]
            BY <1>8 DEF WorkerStep, FetchProcess, TaskStep, CheckConsole, AsyncBegin, AsyncEnd,
                WorkerSleep, FinalizeExit, ReapAndWake, WorkerBlock, Goto, console_lock
        <3> QED BY <1>0, <3>1, Types, Constants
    <2>2. CASE ReapAndWake(w)
        <3>1. task'[Shell] = "READY"
            BY <1>0, <2>2, Types, Constants DEF ReapAndWake
        <3> QED BY <3>1 DEF Goal
    <2>3. CASE TaskStep(w)
        <3>0. ptr[w] # None /\ task' = task
            BY <1>0, <2>3 DEF TaskStep, At
        <3>1. PICK i \in Slots :
                 /\ \A j \in Slots : j # i => proc'[j] = proc[j]
                 /\ \/ proc[i].left > 0 /\ proc'[i] = [proc[i] EXCEPT !.left = proc[i].left - 1]
                    \/ proc'[i] = [proc[i] EXCEPT !.state = "EXITED", !.status = 0]
            BY <1>0, <2>3, <3>0, StepEffect
        <3>2. /\ proc'[i].wait = proc[i].wait
              /\ proc'[i].state = "EXITED" \/ proc'[i].state = proc[i].state
            BY <1>0, <3>1 DEF Pcb
        <3>3. Told => \E j \in Slots : proc'[j].state # "FREE" /\ proc'[j].wait = Shell
            BY <3>1, <3>2
        <3> QED BY <2>1, <3>0, <3>3, <1>a DEF Goal
    <2>4. CASE FinalizeExit(w)
        <3>1. CASE proc' = proc /\ task' = task
            BY <1>1, <2>1, <3>1
        <3>2. CASE ~ (proc' = proc /\ task' = task)
            <4>1. PICK i \in Slots :
                    /\ proc[i].state = "EXITED" /\ task' = released(i)
                    /\ \A j \in Slots : j # i => proc'[j] = proc[j]
                    /\ proc'[i] = [proc[i] EXCEPT !.slot = None]
                BY <1>0, <2>4, <3>2, FinalEffect
            <4>2. proc'[i].wait = proc[i].wait /\ proc'[i].state = proc[i].state
                BY <1>0, <4>1 DEF Pcb
            <4>3. task'[Shell] = task[Shell]
                BY <1>0, <4>1, Releases
            <4>4. Told => \E j \in Slots : proc'[j].state # "FREE" /\ proc'[j].wait = Shell
                BY <4>1, <4>2
            <4> QED BY <2>1, <4>3, <4>4, <1>a DEF Goal
        <3> QED BY <3>1, <3>2
    <2>5. CASE FetchProcess(w) \/ CheckConsole(w) \/ AsyncBegin(w) \/ AsyncEnd(w)
                 \/ WorkerSleep(w) \/ WorkerBlock(w)
        <3>1. proc' = proc /\ (task' = task \/ \E x : task' = [task EXCEPT ![w] = x])
            BY <2>5 DEF FetchProcess, CheckConsole, AsyncBegin, AsyncEnd, WorkerSleep, WorkerBlock,
                Block
        <3>2. task'[Shell] = task[Shell]
            BY <1>0, <3>1, Types, Constants
        <3> QED BY <1>1, <2>1, <3>1, <3>2
    <2> QED BY <1>8, <2>2, <2>3, <2>4, <2>5 DEF WorkerStep
<1> QED BY <1>2, <1>3, <1>4, <1>5, <1>6, <1>7, <1>8 DEF Next, ShellStep

LEMMA RegStep == RegInv /\ [Next]_vars => RegInv'
<1>1. ASSUME RegInv, Next PROVE RegInv'
    <2>1. TypeOK'
        BY <1>1, TypeStep DEF RegInv
    <2> QED BY <1>1, <2>1, LocalStep, PcbStep, WaitStep DEF RegInv
<1>2. ASSUME RegInv, UNCHANGED vars PROVE RegInv'
    BY <1>2 DEF RegInv, vars, state, TypeOK, WaitIsRecorded, Used
<1> QED BY <1>1, <1>2

LEMMA RegInvariant == Spec => []RegInv
BY RegInit, RegStep, PTL DEF Spec

\* Wherever workers are preempted and whenever characters arrive: no two processes share
\* a worker, and a shell blocked in waitpid is named by the PCB it waits for.
THEOREM RegistryIsSound == Spec => []RegistrySound
<1>1. RegInv => RegistrySound
    BY DEF RegInv, RegistrySound, SlotsExclusive, Used
<1> QED BY RegInvariant, <1>1, PTL

-----------------------------------------------------------------------------
(* ConsoleInv.                                                             *)

LEMMA ConsoleInit == Init => ConsoleInv
BY Constants DEF Init, ConsoleInv, Positions

LEMMA ConsoleStep ==
    ASSUME TypeOK, ConsoleInv, Next
    PROVE  ConsoleInv'
<1> USE Types, Constants
<1>0. DOMAIN pc = Tasks /\ DOMAIN task = Tasks /\ \A w \in Workers : w # Shell /\ w # None
    OBVIOUS
\* The shell's own steps that touch neither the tasks nor the console.
<1>a. ASSUME owner' = owner, task' = task, pc' = pc, cur' = cur PROVE ConsoleInv'
    BY <1>a DEF ConsoleInv
<1>1. ASSUME NEW t \in Tasks, Dispatch(t) \/ Preempt(t) PROVE ConsoleInv'
    BY <1>1 DEF Dispatch, Preempt, ConsoleInv
<1>2. ASSUME NEW w \in Workers, Wake(w) PROVE ConsoleInv'
    BY <1>2 DEF Wake, ConsoleInv
<1>3. CASE KeyArrives
    BY <1>3 DEF KeyArrives, ConsoleInv
<1>4. CASE ShellRead
    BY <1>4 DEF ShellRead, ShellAt, Goto, Block, ConsoleInv
<1>5. CASE ShellLock
    BY <1>5 DEF ShellLock, ShellAt, Goto, console_lock, ConsoleInv
<1>6. CASE ShellDone
    BY <1>6 DEF ShellDone, ShellAt, Goto, ConsoleInv
<1>7. CASE WaitReturn
    BY <1>7 DEF WaitReturn, ShellAt, Goto, ConsoleInv
<1>8. CASE process_spawn
    BY <1>8, <1>a DEF process_spawn
\* A command that changes the state of workers: the shell is on the CPU and has
\* the console, so no worker does.
<1>b. ASSUME cur = Shell, owner = Shell, owner' = owner, pc' = pc, cur' = cur,
             task' \in [Tasks -> {"READY", "BLOCKED", "SLEEP"}], task'[Shell] = task[Shell]
      PROVE  ConsoleInv'
    BY <1>b DEF ConsoleInv
<1>9. ASSUME NEW n \in Events, process_spawn_exec(n) PROVE ConsoleInv'
    <2>1. owner' = owner /\ pc' = pc /\ cur' = cur /\ cur = Shell /\ owner = Shell
        BY <1>9 DEF process_spawn_exec, ShellAt, ConsoleInv
    <2>2. task' = task \/ \E w \in Workers : task' = [task EXCEPT ![w] = "READY"]
        BY <1>9, SpawnExecEffect
    <2>3. task' \in [Tasks -> {"READY", "BLOCKED", "SLEEP"}] /\ task'[Shell] = task[Shell]
        BY <2>2
    <2> QED BY <1>b, <2>1, <2>3
<1>10. ASSUME NEW i \in Slots, NEW s \in KillStatus, process_kill(i, s) PROVE ConsoleInv'
    <2>1. owner' = owner /\ pc' = pc /\ cur' = cur /\ cur = Shell /\ owner = Shell
        BY <1>10 DEF process_kill, ShellAt, ConsoleInv
    <2>2. task' = released(i)
        BY <1>10 DEF process_kill
    <2> QED BY <1>b, <2>1, <2>2, Releases
<1>11. ASSUME NEW i \in Slots, process_wait_blocking(i) PROVE ConsoleInv'
    <2>0. owner' = owner /\ cur = Shell /\ owner = Shell /\ pc[Shell] = "cmd"
        BY <1>11 DEF process_wait_blocking, ShellAt, ConsoleInv
    <2>1. CASE task' = released(i) /\ cur' = cur /\ pc' = pc
        BY <1>b, <2>0, <2>1, Releases
    <2>2. CASE /\ task' = [task EXCEPT ![Shell] = "BLOCKED"] /\ cur' = None
               /\ pc' = [pc EXCEPT ![Shell] = "wait"]
        BY <2>0, <2>2 DEF ConsoleInv
    <2> QED BY <1>11, <2>1, <2>2, WaitEffect
<1>12. ASSUME NEW w \in Workers, FetchProcess(w) PROVE ConsoleInv'
    BY <1>12 DEF FetchProcess, At, Goto, Block, ConsoleInv, Positions
<1>13. ASSUME NEW w \in Workers, TaskStep(w) PROVE ConsoleInv'
    <2>1. /\ owner' = owner /\ task' = task /\ cur' = cur /\ cur = w /\ pc[w] = "step"
          /\ pc' = [pc EXCEPT ![w] = "check"]
        BY <1>13 DEF TaskStep, At, Goto
    <2> QED BY <2>1 DEF ConsoleInv, Positions
<1>14. ASSUME NEW w \in Workers, CheckConsole(w) PROVE ConsoleInv'
    <2>1. /\ owner' = owner /\ task' = task /\ cur' = cur /\ cur = w /\ pc[w] = "check"
          /\ \E p \in {"lock", "sleep", "final"} : pc' = [pc EXCEPT ![w] = p]
        BY <1>14 DEF CheckConsole, At, Goto
    <2> QED BY <2>1 DEF ConsoleInv, Positions
<1>15. ASSUME NEW w \in Workers, AsyncBegin(w) PROVE ConsoleInv'
    BY <1>15 DEF AsyncBegin, At, Goto, console_lock, ConsoleInv, Positions
<1>16. ASSUME NEW w \in Workers, AsyncEnd(w) PROVE ConsoleInv'
    <2>1. /\ owner' = None /\ task' = task /\ cur' = cur /\ cur = w /\ pc[w] = "print"
          /\ \E p \in {"sleep", "final"} : pc' = [pc EXCEPT ![w] = p]
        BY <1>16 DEF AsyncEnd, At, Goto
    <2> QED BY <2>1 DEF ConsoleInv, Positions
<1>17. ASSUME NEW w \in Workers, WorkerSleep(w) \/ WorkerBlock(w) PROVE ConsoleInv'
    BY <1>17 DEF WorkerSleep, WorkerBlock, At, Goto, Block, ConsoleInv, Positions
<1>18. ASSUME NEW w \in Workers, FinalizeExit(w) PROVE ConsoleInv'
    <2>0. owner' = owner /\ cur' = cur /\ cur = w /\ pc[w] = "final"
        BY <1>18 DEF FinalizeExit, At
    <2>1. CASE task' = task /\ pc' = [pc EXCEPT ![w] = "block"]
        BY <2>0, <2>1 DEF ConsoleInv, Positions
    <2>2. CASE ~ (task' = task /\ pc' = [pc EXCEPT ![w] = "block"])
        <3>0. PICK i \in Slots : /\ proc[i].slot = w /\ task' = released(i)
                                 /\ pc' = [pc EXCEPT ![w] = "reap"]
            BY <1>18, <2>2, FinalEffect
        <3>1. /\ pc' = [pc EXCEPT ![w] = "reap"] /\ task'[Shell] = task[Shell]
              /\ \A v \in Workers : v # w => task'[v] = task[v]
            BY <3>0, Releases
        <3> QED BY <2>0, <3>1 DEF ConsoleInv, Positions
    <2> QED BY <2>1, <2>2
<1>19. ASSUME NEW w \in Workers, ReapAndWake(w) PROVE ConsoleInv'
    BY <1>19 DEF ReapAndWake, At, Goto, ConsoleInv, Positions
<1> QED BY <1>1, <1>2, <1>3, <1>4, <1>5, <1>6, <1>7, <1>8, <1>9, <1>10, <1>11, <1>12, <1>13, <1>14,
           <1>15, <1>16, <1>17, <1>18, <1>19 DEF Next, ShellStep, WorkerStep

LEMMA ConsoleInductive == RegInv /\ ConsoleInv /\ [Next]_vars => ConsoleInv'
<1>1. ASSUME ConsoleInv, RegInv, Next PROVE ConsoleInv'
    BY <1>1, ConsoleStep DEF RegInv
<1>2. ASSUME ConsoleInv, UNCHANGED vars PROVE ConsoleInv'
    BY <1>2 DEF ConsoleInv, vars, state
<1> QED BY <1>1, <1>2

\* A worker that has the console lock is READY at its log line: nobody kills, claims or
\* reaps it meanwhile, because the shell needs the console for its commands.
THEOREM HolderRuns == Spec => []ConsoleHolderRuns
<1>1. ConsoleInv => ConsoleHolderRuns
    BY DEF ConsoleInv, ConsoleHolderRuns
<1> QED BY ConsoleInit, RegInvariant, ConsoleInductive, <1>1, PTL DEF Spec

-----------------------------------------------------------------------------
(* QuietInv: preemption and characters only where they do no harm.         *)

\* The positions at which preemption does no harm, whatever the instance.
HarmlessWindows == Windows \subseteq {"loop", "print", "sleep"}

\* From the moment it has found its process to its final block.
Section == {"step", "check", "lock", "final", "reap", "block"}

\* A worker in the section is on the CPU: its console is not taken away from
\* it, its process is the one linked to it, and the shell waits for what it reaps.
Focus ==
    /\ \A w \in Workers : pc[w] \in Section => cur = w
    /\ \A w \in Workers : pc[w] = "lock" => owner \in {None, w}
    /\ \A w \in Workers : pc[w] = "step" => proc[ptr[w]].state = "READY" /\ proc[ptr[w]].slot = w
    /\ \A w \in Workers : pc[w] = "reap" => proc[ptr[w]].wait = Shell

\* One PCB at most says that the shell waits, and it says so while it does.
Waiter ==
    /\ \A i \in Slots : proc[i].wait = Shell => pc[Shell] = "wait" /\ task[Shell] = "BLOCKED"
    /\ \A i, j \in Slots : proc[i].wait = Shell /\ proc[j].wait = Shell => i = j

\* Pids are not handed out twice, and what a PCB says of its end is true.
Fates ==
    /\ \A i \in Used : proc[i].pid \in 3..next_pid-1
    /\ \A i, j \in Used : proc[i].pid = proc[j].pid => i = j
    /\ \A p \in 0..MaxPid : p >= next_pid => fate[p] = -1
    /\ \A i \in Slots : proc[i].state = "READY" => fate[proc[i].pid] = -1
    /\ \A i \in Slots : proc[i].state = "EXITED" => proc[i].status = fate[proc[i].pid]

QuietInv == ~exposed => Focus /\ Waiter /\ Fates

LEMMA QuietInit == Init => QuietInv
<1> SUFFICES ASSUME Init PROVE Focus /\ Waiter /\ Fates
    BY DEF QuietInv
<1>1. /\ \A w \in Workers : pc[w] = "loop"
      /\ \A i \in Slots : proc[i].state = "FREE" /\ proc[i].wait = None
      /\ \A p \in 0..MaxPid : fate[p] = -1
    BY Constants DEF Init, Free
<1> QED BY <1>1, Constants DEF Focus, Waiter, Fates, Section, Used

\* While a worker is in the section nobody but an interrupt does anything else.
LEMMA FocusStep ==
    ASSUME RegInv, ConsoleInv, QuietInv, ~exposed, HarmlessWindows, Next
    PROVE  Focus'
<1> USE Types, Constants
<1>0. /\ TypeOK /\ Focus /\ Waiter
      /\ \A w \in Workers : pc[w] \in {"step", "reap"} => ptr[w] # None
    BY DEF RegInv, QuietInv
\* Nobody is in the section, before and after, but this worker.
<1>a. ASSUME NEW v \in Tasks, cur = v,
             \A w \in Workers : w # v => pc'[w] = pc[w],
             v \in Workers => v = cur' \/ pc'[v] \notin Section,
             v \in Workers /\ pc'[v] = "lock" => owner' \in {None, v},
             v \in Workers /\ pc'[v] = "step" => proc'[ptr'[v]].state = "READY" /\ proc'[ptr'[v]].slot = v,
             v \in Workers /\ pc'[v] = "reap" => proc'[ptr'[v]].wait = Shell
      PROVE  Focus'
    <2>1. \A w \in Workers : w # v => pc'[w] \notin Section
        BY <1>0, <1>a DEF Focus
    <2> QED BY <1>a, <2>1 DEF Focus, Section
<1>1. ASSUME NEW t \in Tasks, Dispatch(t) PROVE Focus'
    BY <1>0, <1>1 DEF Dispatch, Focus
<1>2. ASSUME NEW t \in Tasks, Preempt(t) PROVE Focus'
    <2>1. cur = t /\ (t \in Workers => pc[t] \notin Section) /\ pc' = pc
        BY <1>2 DEF Preempt, HarmlessWindows, Section
    <2> QED BY <1>a, <2>1 DEF Section
<1>3. ASSUME NEW w \in Workers, Wake(w) PROVE Focus'
    BY <1>0, <1>3 DEF Wake, Focus
<1>4. CASE KeyArrives
    BY <1>0, <1>4 DEF KeyArrives, Focus
<1>5. CASE ShellStep
    <2>1. cur = Shell /\ (pc' = pc \/ \E p : pc' = [pc EXCEPT ![Shell] = p])
        BY <1>5 DEF ShellStep, ShellRead, ShellLock, ShellDone, WaitReturn, process_spawn, ShellAt,
            process_spawn_exec, process_kill, process_wait_blocking, Goto, console_lock
    <2>2. \A w \in Workers : pc'[w] = pc[w]
        BY <2>1, <1>0
    <2> QED BY <1>a, <2>1, <2>2
<1>6. ASSUME NEW w \in Workers, FetchProcess(w) PROVE Focus'
    <2> DEFINE i == process_by_task(w)
    <2>0. cur = w /\ pc[w] = "loop" /\ proc' = proc
        BY <1>6 DEF FetchProcess, At
    <2>1. CASE i # None /\ proc[i].state = "READY"
        <3>1. i \in Slots /\ proc[i].slot = w
            BY <2>1, FindsLinked DEF Used
        <3>2. ptr' = [ptr EXCEPT ![w] = i] /\ pc' = [pc EXCEPT ![w] = "step"] /\ cur' = cur
            BY <1>6, <2>1 DEF FetchProcess, Goto
        <3> HIDE DEF i
        <3>3. /\ ptr'[w] = i /\ pc'[w] = "step" /\ \A v \in Workers : v # w => pc'[v] = pc[v]
            BY <1>0, <3>2
        <3> QED BY <1>a, <2>0, <2>1, <3>1, <3>2, <3>3
    <2>2. CASE ~ (i # None /\ proc[i].state = "READY")
        <3>1. pc' = pc
            BY <1>6, <2>2 DEF FetchProcess
        <3> QED BY <1>a, <2>0, <3>1 DEF Section
    <2> QED BY <2>1, <2>2
<1>7. ASSUME NEW w \in Workers, TaskStep(w) PROVE Focus'
    <2>1. cur = w /\ cur' = cur /\ pc' = [pc EXCEPT ![w] = "check"]
        BY <1>7 DEF TaskStep, At, Goto
    <2>2. pc'[w] = "check" /\ \A v \in Workers : v # w => pc'[v] = pc[v]
        BY <1>0, <2>1
    <2> QED BY <1>a, <2>1, <2>2
<1>8. ASSUME NEW w \in Workers, CheckConsole(w) PROVE Focus'
    <2>1. /\ cur = w /\ cur' = cur /\ owner' = owner
          /\ pc' = [pc EXCEPT ![w] = IF owner \in {None, w} THEN "lock" ELSE after[w]]
        BY <1>8 DEF CheckConsole, At, Goto
    <2>2. /\ pc'[w] = IF owner \in {None, w} THEN "lock" ELSE after[w]
          /\ \A v \in Workers : v # w => pc'[v] = pc[v]
        BY <1>0, <2>1
    <2>3. after[w] \in {"sleep", "final"}
        BY <1>0
    <2> QED BY <1>a, <2>1, <2>2, <2>3
<1>9. ASSUME NEW w \in Workers, AsyncBegin(w) PROVE Focus'
    <2>1. cur = w /\ owner \in {None, w}
        BY <1>0, <1>9 DEF AsyncBegin, At, Focus
    <2>2. cur' = cur /\ pc' = [pc EXCEPT ![w] = "print"]
        BY <1>9, <2>1 DEF AsyncBegin, console_lock, Goto
    <2>3. pc'[w] = "print" /\ \A v \in Workers : v # w => pc'[v] = pc[v]
        BY <1>0, <2>2
    <2> QED BY <1>a, <2>1, <2>2, <2>3
<1>10. ASSUME NEW w \in Workers, AsyncEnd(w) PROVE Focus'
    <2>1. cur = w /\ cur' = cur /\ pc' = [pc EXCEPT ![w] = after[w]]
        BY <1>10 DEF AsyncEnd, At, Goto
    <2>2. pc'[w] \in {"sleep", "final"} /\ \A v \in Workers : v # w => pc'[v] = pc[v]
        BY <1>0, <2>1
    <2> QED BY <1>a, <2>1, <2>2
<1>11. ASSUME NEW w \in Workers, WorkerSleep(w) \/ WorkerBlock(w) PROVE Focus'
    <2>1. cur = w /\ pc' = [pc EXCEPT ![w] = "loop"]
        BY <1>11 DEF WorkerSleep, WorkerBlock, At, Goto
    <2>2. pc'[w] = "loop" /\ \A v \in Workers : v # w => pc'[v] = pc[v]
        BY <1>0, <2>1
    <2> QED BY <1>a, <2>1, <2>2 DEF Section
<1>12. ASSUME NEW w \in Workers, FinalizeExit(w) PROVE Focus'
    <2>0. cur = w /\ cur' = cur
        BY <1>12 DEF FinalizeExit, At
    <2>1. CASE proc' = proc /\ pc' = [pc EXCEPT ![w] = "block"]
        <3>1. pc'[w] = "block" /\ \A v \in Workers : v # w => pc'[v] = pc[v]
            BY <1>0, <2>1
        <3> QED BY <1>a, <2>0, <3>1
    <2>2. CASE ~ (proc' = proc /\ pc' = [pc EXCEPT ![w] = "block"])
        <3>1. PICK i \in Slots :
                /\ proc[i].slot = w /\ proc[i].state = "EXITED" /\ proc[i].wait # None
                /\ DOMAIN proc' = Slots /\ \A j \in Slots : j # i => proc'[j] = proc[j]
                /\ proc'[i] = [proc[i] EXCEPT !.slot = None]
                /\ task' = released(i) /\ ptr' = [ptr EXCEPT ![w] = i]
                /\ pc' = [pc EXCEPT ![w] = "reap"]
            BY <1>0, <1>12, <2>2, FinalEffect
        <3>2. proc'[i].wait = Shell
            BY <1>0, <3>1 DEF Pcb
        <3>3. /\ pc'[w] = "reap" /\ ptr'[w] = i /\ \A v \in Workers : v # w => pc'[v] = pc[v]
            BY <1>0, <3>1
        <3> QED BY <1>a, <2>0, <3>2, <3>3
    <2> QED BY <2>1, <2>2
<1>13. ASSUME NEW w \in Workers, ReapAndWake(w) PROVE Focus'
    <2>1. cur = w /\ cur' = cur /\ pc' = [pc EXCEPT ![w] = "block"]
        BY <1>13 DEF ReapAndWake, At, Goto
    <2>2. pc'[w] = "block" /\ \A v \in Workers : v # w => pc'[v] = pc[v]
        BY <1>0, <2>1
    <2> QED BY <1>a, <2>1, <2>2
<1> QED BY <1>1, <1>2, <1>3, <1>4, <1>5, <1>6, <1>7, <1>8, <1>9, <1>10, <1>11, <1>12, <1>13
    DEF Next, WorkerStep

\* The shell's own steps find no PCB that names it.
LEMMA NobodyWaited ==
    ASSUME TypeOK, ConsoleInv, Waiter, cur = Shell
    PROVE  \A i \in Slots : proc[i].wait = None
<1>1. pc[Shell] \in {"read", "lock", "cmd", "wait"} /\ task[Shell] = "READY"
    BY Constants DEF ConsoleInv
<1>2. \A i \in Slots : proc[i].wait \in {None, Shell}
    BY Types DEF Pcb
<1> QED BY <1>1, <1>2 DEF Waiter

LEMMA WaiterStep ==
    ASSUME RegInv, ConsoleInv, QuietInv, ~exposed, Next
    PROVE  Waiter'
<1>0. /\ TypeOK /\ Focus /\ Waiter /\ \A i \in Slots : proc[i] \in Pcb
      /\ \A w \in Workers : pc[w] \in {"step", "reap"} => ptr[w] # None
    BY Types DEF RegInv, QuietInv
<1>n. None # Shell
    BY Constants
\* No PCB names the shell that did not before, and the shell stays where it is.
<1>a. ASSUME \A i \in Slots : proc'[i].wait = Shell => proc[i].wait = Shell,
             pc[Shell] = "wait" /\ task[Shell] = "BLOCKED" => pc'[Shell] = "wait" /\ task'[Shell] = "BLOCKED"
      PROVE  Waiter'
    BY <1>0, <1>a DEF Waiter
\* A step of the shell: at most this PCB names it, and then it waits.
<1>b. ASSUME cur = Shell, NEW a \in Slots,
             \A j \in Slots : j # a => proc'[j].wait = proc[j].wait,
             proc'[a].wait = Shell => pc'[Shell] = "wait" /\ task'[Shell] = "BLOCKED"
      PROVE  Waiter'
    <2>1. \A i \in Slots : proc[i].wait = None
        BY <1>0, <1>b, NobodyWaited
    <2>2. \A j \in Slots : j # a => proc'[j].wait # Shell
        BY <1>b, <1>n, <2>1
    <2> QED BY <1>b, <2>2 DEF Waiter
<1>1. ASSUME NEW t \in Tasks, Dispatch(t) \/ Preempt(t) PROVE Waiter'
    BY <1>a, <1>1 DEF Dispatch, Preempt
<1>2. ASSUME NEW w \in Workers, Wake(w) PROVE Waiter'
    <2>1. proc' = proc /\ pc' = pc /\ task'[Shell] = task[Shell]
        BY <1>0, <1>2, Types, Constants DEF Wake
    <2> QED BY <1>a, <2>1
<1>3. CASE KeyArrives
    <2>1. proc' = proc /\ pc[Shell] = "read"
        BY <1>3 DEF KeyArrives
    <2> QED BY <1>a, <2>1
<1>4. CASE ShellRead \/ ShellLock \/ ShellDone \/ WaitReturn
    <2>1. proc' = proc /\ cur = Shell
        BY <1>4 DEF ShellRead, ShellLock, ShellDone, WaitReturn, ShellAt
    <2>2. \A i \in Slots : proc[i].wait = None
        BY <1>0, <2>1, NobodyWaited
    <2> QED BY <1>n, <2>1, <2>2 DEF Waiter
<1>5. CASE process_spawn
    <2>1. PICK a \in Slots : /\ \A j \in Slots : j # a => proc'[j] = proc[j]
                             /\ proc'[a] = [Free EXCEPT !.state = "READY", !.pid = next_pid]
        BY <1>0, <1>5, SpawnEffect
    <2>2. proc'[a].wait = None /\ cur = Shell
        BY <1>5, <2>1 DEF Free, process_spawn, ShellAt
    <2> QED BY <1>b, <1>n, <2>1, <2>2
<1>6. ASSUME NEW n \in Events, process_spawn_exec(n) PROVE Waiter'
    <2>0. cur = Shell /\ pc' = pc
        BY <1>6 DEF process_spawn_exec, ShellAt
    <2>1. CASE proc' = proc /\ task' = task
        BY <1>a, <2>0, <2>1
    <2>2. CASE ~ (proc' = proc /\ task' = task)
        <3>1. PICK a \in Slots, w \in Workers :
                /\ proc[a].state = "FREE" /\ DOMAIN proc' = Slots
                /\ task[w] = "BLOCKED" /\ \A j \in Used : proc[j].slot # w
                /\ \A j \in Slots : j # a => proc'[j] = proc[j]
                /\ proc'[a] = [Free EXCEPT !.state = "READY", !.pid = next_pid, !.slot = w, !.left = n]
                /\ task' = [task EXCEPT ![w] = "READY"]
            BY <1>0, <1>6, <2>2, SpawnExecEffect
        <3>2. proc'[a].wait = None
            BY <3>1 DEF Free
        <3> QED BY <1>b, <1>n, <2>0, <3>1, <3>2
    <2> QED BY <2>1, <2>2
<1>7. ASSUME NEW i \in Slots, NEW s \in KillStatus, process_kill(i, s) PROVE Waiter'
    <2>1. /\ \A j \in Slots : j # i => proc'[j] = proc[j]
          /\ proc'[i] = [proc[i] EXCEPT !.state = "EXITED", !.status = s]
        BY <1>0, <1>7, KillEffect
    <2>2. proc'[i].wait = proc[i].wait
        BY <1>0, <2>1 DEF Pcb
    <2>4. cur = Shell
        BY <1>7 DEF process_kill, ShellAt
    <2>3. proc[i].wait = None
        BY <1>0, <2>4, NobodyWaited
    <2> QED BY <1>b, <1>n, <2>1, <2>2, <2>3, <2>4
<1>8. ASSUME NEW i \in Slots, process_wait_blocking(i) PROVE Waiter'
    <2>0. cur = Shell /\ \A j \in Slots : j # i => proc'[j] = proc[j]
        BY <1>0, <1>8, WaitEffect DEF process_wait_blocking, ShellAt
    <2>1. CASE proc'[i] = Free
        <3>1. proc'[i].wait = None
            BY <2>1 DEF Free
        <3> QED BY <1>b, <1>n, <2>0, <3>1
    <2>2. CASE proc'[i] # Free
        <3>1. task' = [task EXCEPT ![Shell] = "BLOCKED"] /\ pc' = [pc EXCEPT ![Shell] = "wait"]
            BY <1>0, <1>8, <2>2, WaitEffect
        <3>2. task'[Shell] = "BLOCKED" /\ pc'[Shell] = "wait"
            BY <1>0, <3>1, Types, Constants
        <3> QED BY <1>b, <2>0, <3>2
    <2> QED BY <2>1, <2>2
<1>9. ASSUME NEW w \in Workers, WorkerStep(w) PROVE Waiter'
    <2>1. pc'[Shell] = pc[Shell]
        <3>1. pc' = pc \/ \E p : pc' = [pc EXCEPT ![w] = p]
            BY <1>9 DEF WorkerStep, FetchProcess, TaskStep, CheckConsole, AsyncBegin, AsyncEnd,
                WorkerSleep, FinalizeExit, ReapAndWake, WorkerBlock, Goto, console_lock
        <3> QED BY <1>0, <3>1, Types, Constants
    <2>2. CASE ReapAndWake(w)
        <3>1. pc[w] = "reap"
            BY <2>2 DEF ReapAndWake, At
        <3>2. ptr[w] # None
            BY <1>0, <3>1
        <3>3. /\ ptr[w] \in Slots /\ proc'[ptr[w]] = Free
              /\ \A j \in Slots : j # ptr[w] => proc'[j] = proc[j]
            BY <1>0, <2>2, <3>2, ReapEffect
        <3>4. proc[ptr[w]].wait = Shell /\ proc'[ptr[w]].wait = None
            BY <1>0, <3>1, <3>3 DEF Focus, Free
        <3>5. \A j \in Slots : proc'[j].wait # Shell
            BY <1>0, <1>n, <3>3, <3>4 DEF Waiter
        <3> QED BY <3>5 DEF Waiter
    <2>3. CASE TaskStep(w)
        <3>0. ptr[w] # None /\ task' = task
            BY <1>0, <2>3 DEF TaskStep, At
        <3>1. PICK i \in Slots :
                 /\ \A j \in Slots : j # i => proc'[j] = proc[j]
                 /\ \/ proc'[i] = [proc[i] EXCEPT !.left = proc[i].left - 1]
                    \/ proc'[i] = [proc[i] EXCEPT !.state = "EXITED", !.status = 0]
            BY <1>0, <2>3, <3>0, StepEffect
        <3>2. proc'[i].wait = proc[i].wait
            BY <1>0, <3>1 DEF Pcb
        <3> QED BY <1>a, <2>1, <3>0, <3>1, <3>2
    <2>4. CASE FinalizeExit(w)
        <3>1. CASE proc' = proc /\ task' = task
            BY <1>a, <2>1, <3>1
        <3>2. CASE ~ (proc' = proc /\ task' = task)
            <4>1. PICK i \in Slots :
                    /\ task' = released(i) /\ \A j \in Slots : j # i => proc'[j] = proc[j]
                    /\ proc'[i] = [proc[i] EXCEPT !.slot = None]
                BY <1>0, <2>4, <3>2, FinalEffect
            <4>2. proc'[i].wait = proc[i].wait /\ task'[Shell] = task[Shell]
                BY <1>0, <4>1, Releases DEF Pcb
            <4> QED BY <1>a, <2>1, <4>1, <4>2
        <3> QED BY <3>1, <3>2
    <2>5. CASE FetchProcess(w) \/ CheckConsole(w) \/ AsyncBegin(w) \/ AsyncEnd(w)
                 \/ WorkerSleep(w) \/ WorkerBlock(w)
        <3>1. proc' = proc /\ (task' = task \/ \E x : task' = [task EXCEPT ![w] = x])
            BY <2>5 DEF FetchProcess, CheckConsole, AsyncBegin, AsyncEnd, WorkerSleep, WorkerBlock,
                Block
        <3>2. task'[Shell] = task[Shell]
            BY <1>0, <3>1, Types, Constants
        <3> QED BY <1>a, <2>1, <3>1, <3>2
    <2> QED BY <1>9, <2>2, <2>3, <2>4, <2>5 DEF WorkerStep
<1> QED BY <1>1, <1>2, <1>3, <1>4, <1>5, <1>6, <1>7, <1>8, <1>9 DEF Next, ShellStep

\* The ways a PCB changes: it is freed or keeps its pid and its fate, ...
LEMMA FatesKept ==
    ASSUME TypeOK, Fates, fate' = fate, next_pid' \in {next_pid, next_pid + 1}, NEW i \in Slots,
           \A j \in Slots : j # i => proc'[j] = proc[j],
           \/ proc'[i] = Free
           \/ /\ proc'[i].state = proc[i].state /\ proc'[i].pid = proc[i].pid
              /\ proc'[i].status = proc[i].status
    PROVE  Fates'
<1>1. Free.state = "FREE" /\ next_pid \in Nat /\ \A j \in Slots : proc[j].pid \in Nat
    BY Types DEF Free, Pcb
<1>2. \A j \in Slots :
         proc'[j].state # "FREE" => /\ proc[j].state = proc'[j].state /\ proc'[j].pid = proc[j].pid
                                    /\ proc'[j].status = proc[j].status
    BY <1>1
<1>3. \A j \in Used' : j \in Used /\ proc'[j].pid = proc[j].pid
    BY <1>2 DEF Used
<1>4. \A j \in Used' : proc'[j].pid \in 3..next_pid'-1
    BY <1>1, <1>3 DEF Fates
<1>5. \A j, k \in Used' : proc'[j].pid = proc'[k].pid => j = k
    BY <1>3 DEF Fates
<1>6. \A p \in 0..MaxPid : p >= next_pid' => fate'[p] = -1
    BY <1>1, Constants DEF Fates
<1>7. \A j \in Slots : proc'[j].state = "READY" => fate'[proc'[j].pid] = -1
    BY <1>2 DEF Fates
<1>8. \A j \in Slots : proc'[j].state = "EXITED" => proc'[j].status = fate'[proc'[j].pid]
    BY <1>2 DEF Fates
<1> QED BY <1>4, <1>5, <1>6, <1>7, <1>8 DEF Fates

\* ... it ends with a status that becomes the fate of its pid, ...
LEMMA FatesEnd ==
    ASSUME TypeOK, Fates, next_pid' = next_pid, NEW i \in Used, NEW s,
           \A j \in Slots : j # i => proc'[j] = proc[j],
           proc'[i].state = "EXITED", proc'[i].pid = proc[i].pid, proc'[i].status = s,
           fate' = [fate EXCEPT ![proc[i].pid] = s]
    PROVE  Fates'
<1>1. /\ \A j \in Used : proc[j].pid \in 3..next_pid-1 /\ j \in Slots
      /\ next_pid \in 3..MaxPid+1 /\ MaxPid \in Nat /\ DOMAIN fate = 0..MaxPid
    BY Types, Constants DEF Fates, Used
<1>2. \A j \in Used' : j \in Used /\ proc'[j].pid = proc[j].pid
    BY <1>1 DEF Used
<1>3. \A j \in Used : j # i => proc[j].pid # proc[i].pid
    BY DEF Fates
<1>4. fate'[proc[i].pid] = s /\ \A p \in 0..MaxPid : p # proc[i].pid => fate'[p] = fate[p]
    BY <1>1
<1>5. \A j \in Used : j # i => fate'[proc[j].pid] = fate[proc[j].pid]
    BY <1>1, <1>3, <1>4
<1>6. \A j \in Used' : proc'[j].pid \in 3..next_pid'-1
    BY <1>1, <1>2
<1>7. \A j, k \in Used' : proc'[j].pid = proc'[k].pid => j = k
    BY <1>2 DEF Fates
<1>8. \A p \in 0..MaxPid : p >= next_pid' => fate'[p] = -1
    BY <1>1, <1>4 DEF Fates
<1>9. \A j \in Slots : proc'[j].state = "READY" => fate'[proc'[j].pid] = -1
    BY <1>5 DEF Fates, Used
<1>10. \A j \in Slots : proc'[j].state = "EXITED" => proc'[j].status = fate'[proc'[j].pid]
    <2> TAKE j \in Slots
    <2>1. CASE j = i
        BY <1>4, <2>1
    <2>2. CASE j # i
        BY <1>5, <2>2 DEF Fates, Used
    <2> QED BY <2>1, <2>2
<1> QED BY <1>6, <1>7, <1>8, <1>9, <1>10 DEF Fates

\* ... or it is taken for a new process, with a pid nobody had.
LEMMA FatesStart ==
    ASSUME TypeOK, Fates, fate' = fate, next_pid =< MaxPid, next_pid' = next_pid + 1, NEW a \in Slots,
           proc[a].state = "FREE", \A j \in Slots : j # a => proc'[j] = proc[j],
           proc'[a].state = "READY", proc'[a].pid = next_pid
    PROVE  Fates'
<1>1. /\ \A j \in Used : proc[j].pid \in 3..next_pid-1
      /\ next_pid \in 3..MaxPid+1 /\ MaxPid \in Nat /\ DOMAIN fate = 0..MaxPid
    BY Types, Constants DEF Fates
<1>2. \A j \in Used' : j = a \/ (j \in Used /\ proc'[j] = proc[j])
    BY DEF Used
<1>3. \A j \in Used' : proc'[j].pid \in 3..next_pid'-1
    BY <1>1, <1>2
<1>4. \A j, k \in Used' : proc'[j].pid = proc'[k].pid => j = k
    <2> TAKE j, k \in Used'
    <2>1. CASE j = a \/ k = a
        BY <1>1, <1>2, <2>1
    <2>2. CASE j # a /\ k # a
        BY <1>2, <2>2 DEF Fates
    <2> QED BY <2>1, <2>2
<1>5. \A p \in 0..MaxPid : p >= next_pid' => fate'[p] = -1
    BY <1>1 DEF Fates
<1>6. fate'[next_pid] = -1
    BY <1>1 DEF Fates
<1>7. \A j \in Slots : proc'[j].state = "READY" => fate'[proc'[j].pid] = -1
    BY <1>6 DEF Fates
<1>8. \A j \in Slots : proc'[j].state = "EXITED" => proc'[j].status = fate'[proc'[j].pid]
    BY DEF Fates
<1> QED BY <1>3, <1>4, <1>5, <1>7, <1>8 DEF Fates

LEMMA FatesStep ==
    ASSUME RegInv, QuietInv, ~exposed, Next
    PROVE  Fates'
<1>0. /\ TypeOK /\ Focus /\ Fates /\ \A i \in Slots : proc[i] \in Pcb
      /\ \A w \in Workers : pc[w] \in {"step", "reap"} => ptr[w] # None
    BY Types DEF RegInv, QuietInv
<1>a. ASSUME proc' = proc, fate' = fate, next_pid' \in {next_pid, next_pid + 1} PROVE Fates'
    <2>1. CASE Slots = {}
        <3>1. next_pid \in Nat /\ Used = {} /\ Used' = {}
            BY <1>0, <2>1, Types DEF Used
        <3> QED BY <1>0, <1>a, <2>1, <3>1, Constants DEF Fates
    <2>2. ASSUME NEW i \in Slots PROVE Fates'
        BY <1>0, <1>a, FatesKept
    <2> QED BY <2>1, <2>2
<1>1. CASE process_spawn
    <2>1. PICK a \in Slots : /\ proc[a].state = "FREE" /\ DOMAIN proc' = Slots
                             /\ \A j \in Slots : j # a => proc'[j] = proc[j]
                             /\ proc'[a] = [Free EXCEPT !.state = "READY", !.pid = next_pid]
        BY <1>0, <1>1, SpawnEffect
    <2>2. proc'[a].state = "READY" /\ proc'[a].pid = next_pid
        BY <2>1 DEF Free
    <2>3. fate' = fate /\ next_pid =< MaxPid /\ next_pid' = next_pid + 1
        BY <1>1 DEF process_spawn
    <2> QED BY <1>0, <2>1, <2>2, <2>3, FatesStart
<1>2. ASSUME NEW n \in Events, process_spawn_exec(n) PROVE Fates'
    <2>0. fate' = fate /\ next_pid =< MaxPid /\ next_pid' = next_pid + 1
        BY <1>2 DEF process_spawn_exec
    <2>1. CASE proc' = proc /\ task' = task
        BY <1>a, <2>0, <2>1
    <2>2. CASE ~ (proc' = proc /\ task' = task)
        <3>1. PICK a \in Slots, w \in Workers :
                /\ proc[a].state = "FREE" /\ DOMAIN proc' = Slots
                /\ task[w] = "BLOCKED" /\ \A j \in Used : proc[j].slot # w
                /\ \A j \in Slots : j # a => proc'[j] = proc[j]
                /\ proc'[a] = [Free EXCEPT !.state = "READY", !.pid = next_pid, !.slot = w, !.left = n]
                /\ task' = [task EXCEPT ![w] = "READY"]
            BY <1>0, <1>2, <2>2, SpawnExecEffect
        <3>2. proc'[a].state = "READY" /\ proc'[a].pid = next_pid
            BY <3>1 DEF Free
        <3> QED BY <1>0, <2>0, <3>1, <3>2, FatesStart
    <2> QED BY <2>1, <2>2
<1>3. ASSUME NEW i \in Slots, NEW s \in KillStatus, process_kill(i, s) PROVE Fates'
    <2>1. /\ \A j \in Slots : j # i => proc'[j] = proc[j]
          /\ proc'[i] = [proc[i] EXCEPT !.state = "EXITED", !.status = s]
        BY <1>0, <1>3, KillEffect
    <2>2. proc'[i].state = "EXITED" /\ proc'[i].pid = proc[i].pid /\ proc'[i].status = s
        BY <1>0, <2>1 DEF Pcb
    <2>3. i \in Used /\ next_pid' = next_pid /\ fate' = [fate EXCEPT ![proc[i].pid] = s]
        BY <1>3 DEF process_kill
    <2> QED BY <1>0, <2>1, <2>2, <2>3, FatesEnd
<1>4. ASSUME NEW i \in Slots, process_wait_blocking(i) PROVE Fates'
    <2>1. /\ \A j \in Slots : j # i => proc'[j] = proc[j]
          /\ proc'[i] = Free \/ proc'[i] = [proc[i] EXCEPT !.wait = Shell]
        BY <1>0, <1>4, WaitEffect
    <2>2. \/ proc'[i] = Free
          \/ /\ proc'[i].state = proc[i].state /\ proc'[i].pid = proc[i].pid
             /\ proc'[i].status = proc[i].status
        BY <1>0, <2>1 DEF Pcb
    <2>3. next_pid' = next_pid /\ fate' = fate
        BY <1>4 DEF process_wait_blocking
    <2> QED BY <1>0, <2>1, <2>2, <2>3, FatesKept
<1>5. ASSUME NEW w \in Workers, TaskStep(w) PROVE Fates'
    <2>0. ptr[w] # None /\ pc[w] = "step" /\ next_pid' = next_pid
        BY <1>0, <1>5 DEF TaskStep, At
    <2> DEFINE i == ptr[w]
    <2>1. i \in Slots /\ proc[i].state = "READY" /\ proc[i].slot = w
        BY <1>0, <2>0, Types DEF Focus
    <2>2. /\ \A j \in Slots : j # i => proc'[j] = proc[j]
          /\ \/ fate' = fate /\ proc'[i] = [proc[i] EXCEPT !.left = proc[i].left - 1]
             \/ /\ proc'[i] = [proc[i] EXCEPT !.state = "EXITED", !.status = 0]
                /\ fate' = IF proc[i].slot = w /\ fate[proc[i].pid] = -1
                           THEN [fate EXCEPT ![proc[i].pid] = 0] ELSE fate
        BY <1>0, <1>5, <2>0, StepEffect
    <2> HIDE DEF i
    <2>3. fate[proc[i].pid] = -1
        BY <1>0, <2>1 DEF Fates
    <2>4. CASE fate' = fate /\ proc'[i] = [proc[i] EXCEPT !.left = proc[i].left - 1]
        <3>1. /\ proc'[i].state = proc[i].state /\ proc'[i].pid = proc[i].pid
              /\ proc'[i].status = proc[i].status
            BY <1>0, <2>1, <2>4 DEF Pcb
        <3> QED BY <1>0, <2>0, <2>1, <2>2, <2>4, <3>1, FatesKept
    <2>5. CASE proc'[i] = [proc[i] EXCEPT !.state = "EXITED", !.status = 0]
               /\ fate' = [fate EXCEPT ![proc[i].pid] = 0]
        <3>1. proc'[i].state = "EXITED" /\ proc'[i].pid = proc[i].pid /\ proc'[i].status = 0
            BY <1>0, <2>1, <2>5 DEF Pcb
        <3>2. i \in Used
            BY <2>1 DEF Used
        <3> QED BY <1>0, <2>0, <2>2, <2>5, <3>1, <3>2, FatesEnd
    <2> QED BY <2>1, <2>2, <2>3, <2>4, <2>5
<1>6. ASSUME NEW w \in Workers, FinalizeExit(w) PROVE Fates'
    <2>0. next_pid' = next_pid /\ fate' = fate
        BY <1>6 DEF FinalizeExit
    <2>1. CASE proc' = proc
        BY <1>a, <2>0, <2>1
    <2>2. CASE proc' # proc
        <3>1. PICK i \in Slots : /\ \A j \in Slots : j # i => proc'[j] = proc[j]
                                 /\ proc'[i] = [proc[i] EXCEPT !.slot = None]
            BY <1>0, <1>6, <2>2, FinalEffect
        <3>2. /\ proc'[i].state = proc[i].state /\ proc'[i].pid = proc[i].pid
              /\ proc'[i].status = proc[i].status
            BY <1>0, <3>1 DEF Pcb
        <3> QED BY <1>0, <2>0, <3>1, <3>2, FatesKept
    <2> QED BY <2>1, <2>2
<1>7. ASSUME NEW w \in Workers, ReapAndWake(w) PROVE Fates'
    <2>0. ptr[w] # None /\ next_pid' = next_pid /\ fate' = fate
        BY <1>0, <1>7 DEF ReapAndWake, At
    <2>1. ptr[w] \in Slots /\ proc'[ptr[w]] = Free
          /\ \A j \in Slots : j # ptr[w] => proc'[j] = proc[j]
        BY <1>0, <1>7, <2>0, ReapEffect
    <2> QED BY <1>0, <2>0, <2>1, FatesKept
<1>8. ASSUME proc' = proc PROVE Fates'
    <2>1. \/ next_pid' = next_pid /\ fate' = fate
          \/ process_spawn \/ \E n \in Events : process_spawn_exec(n)
          \/ \E i \in Slots, s \in KillStatus : process_kill(i, s)
          \/ \E w \in Workers : TaskStep(w)
        BY DEF Next, Dispatch, Preempt, Wake, KeyArrives, ShellStep, WorkerStep, ShellRead, ShellLock,
            ShellDone, WaitReturn, FetchProcess, CheckConsole, AsyncBegin, AsyncEnd, WorkerSleep,
            WorkerBlock, FinalizeExit, ReapAndWake, process_wait_blocking
    <2> QED BY <1>8, <1>a, <1>1, <1>2, <1>3, <1>5, <2>1
<1> QED BY RegistryUntouched, <1>1, <1>2, <1>3, <1>4, <1>5, <1>6, <1>7, <1>8

LEMMA QuietStep ==
    ASSUME HarmlessWindows, RegInv, ConsoleInv, QuietInv, [Next]_vars
    PROVE  QuietInv'
<1>1. CASE Next
    <2> SUFFICES ASSUME ~exposed' PROVE Focus' /\ Waiter' /\ Fates'
        BY DEF QuietInv
    <2>1. ~exposed
        BY <1>1 DEF Next
    <2> QED BY <1>1, <2>1, FocusStep, WaiterStep, FatesStep
<1>2. CASE UNCHANGED vars
    BY <1>2 DEF vars, state, QuietInv, Focus, Waiter, Fates, Used
<1> QED BY <1>1, <1>2

LEMMA QuietInvariant ==
    ASSUME HarmlessWindows
    PROVE  Spec => [](RegInv /\ ConsoleInv /\ QuietInv)
<1>1. RegInv /\ ConsoleInv /\ QuietInv /\ [Next]_vars => QuietInv'
    BY QuietStep
<1> QED BY ConsoleInit, ConsoleInductive, QuietInit, RegInvariant, <1>1, PTL DEF Spec

\* Where preemption does no harm, a PCB names the shell exactly while the shell is blocked in
\* waitpid: the frame pointer it holds is never that of a call that has returned.
THEOREM WaiterIsBlocked ==
    ASSUME HarmlessWindows
    PROVE  Spec => []WaiterWaits
<1>1. QuietInv => WaiterWaits
    BY DEF QuietInv, Waiter, WaiterWaits, Used
<1> QED BY QuietInvariant, <1>1, PTL

\* Where preemption does no harm, the status a parent collects is the one this very process
\* ended with: no worker writes its exit into a PCB that is somebody else's by then.
THEOREM StatusIsOwn ==
    ASSUME HarmlessWindows
    PROVE  Spec => []ExitIsOwn
<1>1. QuietInv => ExitIsOwn
    BY DEF QuietInv, Fates, ExitIsOwn
<1> QED BY QuietInvariant, <1>1, PTL
====
