---- MODULE AppLife_proofs ----
(***************************************************************************)
(* Proofs about the demo applications, for every number of iterations,     *)
(* length of program and queue, and every choice of applications.          *)
(*                                                                         *)
(* What a step does to the places of the tasks is said once per action     *)
(* (Moved); the rest is by the label a task comes from.  SoundInv is about *)
(* the console, faults and kill, and holds wherever a command meets the    *)
(* tasks.  DoneInv is about polite commands: an application that runs has  *)
(* got as far as its counters, its queue and the places of its workers     *)
(* say (Running), and one that is over has nothing left to count (Over).   *)
(***************************************************************************)
EXTENDS AppLife, TLAPS

TypesAll == {"bytecode", "threads", "ipc", "loop", "pipe", "fault"}
App == [running : BOOLEAN, paused : BOOLEAN, type : Types, done : 0..3,
        a : Nat, b : Nat, status : {0, 137, 139}]
Queue == [cell : [0..QueueSize-1 -> Nat], head : 0..QueueSize-1, tail : 0..QueueSize-1,
          count : 0..QueueSize]
VmLabels == {"head", "burst", "typing", "lock", "print", "msglock", "msg"}

States == {"READY", "SLEEP", "BLOCKED", "STOPPED", "ZOMBIE"}
Data ==
    /\ app \in App /\ q \in Queue /\ store \in Types /\ mix \subseteq Types
    /\ doing \in [Workers -> Types \union {"none"}]
    /\ reg \in [Workers -> Nat]
    /\ vm \in [pos : 0..VmLength, active : {"none", "same", "old"}]
    /\ owner \in AppTasks \union {Shell, Nobody}
    /\ shell \in {"read", "enter", "command", "pause", "stop", "kill", "done"}
    /\ started \in Types \union {"none"} /\ joins \in 0..2 /\ got \in Seq(Nat)
Code ==
    /\ state \in [AppTasks -> States]
    /\ at \in [AppTasks -> Labels] /\ at[Vm] \in VmLabels
Held ==
    /\ \A w \in Workers : at[w] = "count" => reg[w] \in 0..QueueSize
    /\ \A w \in Workers : at[w] = "mark" => reg[w] \in 0..3
Typed == Data /\ Code /\ Held

Executing == {"command", "pause", "stop", "kill", "done"}
Owned ==
    /\ owner = Shell <=> shell \in Executing
    /\ \A t \in AppTasks : owner = t <=> at[t] \in Printing
    /\ ~rude \/ at[A] # "spin" => \A t \in AppTasks : owner = t => state[t] = "READY"

Active(t) == state[t] \in {"READY", "SLEEP"}
\* A polite fault application is alone.
Outside == app.running => \A t \in AppTasks \ Members(app.type) : ~Active(t)
Faulty == /\ at[A] = "load" => doing[A] = "fault"
          /\ at[A] \in {"push", "count"} => doing[A] # "fault"
          /\ ~rude => Outside
          /\ ~rude /\ doing[A] = "fault" /\ at[A] \in {"lock", "print", "load"} => ~Active(B)

Killed ==
    /\ app.status = 137 =>
        ~app.running /\ (\A t \in AppTasks : state[t] = "BLOCKED") /\ shell \notin {"pause", "stop"}
    /\ shell = "kill" => ~app.running

SoundInv == Typed /\ Owned /\ Faulty /\ Killed

\* What A has put and B has taken.
InHand(w) == IF at[w] \in {"count", "lock", "print", "inc"} THEN 1 ELSE 0
Pushed == app.a + InHand(A)
Place(h, j) == IF h + j < QueueSize THEN h + j ELSE h + j - QueueSize

Handed ==
    /\ Len(got) = app.b + InHand(B) /\ \A i \in 1..Len(got) : got[i] = i
    /\ Len(got) <= Pushed /\ Pushed <= Iterations /\ Pushed - Len(got) <= QueueSize
    /\ q.tail = Place(q.head, Pushed - Len(got))
    /\ \A j \in 0..QueueSize-1 : j < Pushed - Len(got) => q.cell[Place(q.head, j)] = Len(got) + 1 + j
Counted ==
    /\ ~(at[A] = "count" /\ at[B] = "count")
    /\ \A w \in Workers : at[w] = "count" => reg[w] = Pushed - Len(got)
    /\ at[A] = "count" => q.count = Pushed - Len(got) - 1
    /\ at[B] = "count" => q.count = Pushed - Len(got) + 1
    /\ (\A w \in Workers : at[w] # "count") => q.count = Pushed - Len(got)

Has(d, w) == (d \div Bit(w)) % 2 = 1     \* the mark of w in d
Full(w) == Counter(w) = Goal(started)
Busy == {"push", "count", "lock", "print", "inc"}
Progress(w) ==
    /\ Counter(w) <= Goal(started)
    /\ at[w] \notin {"head", "spin"} => doing[w] = started
    /\ at[w] \in Busy => Counter(w) < Goal(started)
    /\ at[w] \in {"complete", "mark", "join", "clear"} => Full(w)
    /\ at[w] = "pop" => started = "ipc"
    /\ at[w] = "inc" => started # "fault"
Begun ==
    /\ started # "none" /\ app.type = started /\ joins = 0 /\ app.status = 0
    /\ started = "fault" => app.a = 0
Apart == \A t \in AppTasks \ Members(started) : ~Active(t) /\ at[t] \in {"head", "spin"}
Honest ==
    /\ \A u \in Workers : Has(app.done, u) => Full(u)
    /\ \A w, u \in Workers : at[w] = "mark" /\ Has(reg[w], u) => Full(u)
    /\ \A w \in Workers : at[w] = "clear" => app.done = Expected(started)
Running ==
    /\ Begun /\ Apart /\ Honest
    /\ \A w \in Workers \intersect Members(started) : Progress(w)
    /\ started = "ipc" => Handed /\ Counted
Over ==
    /\ AllDone
    /\ \A w \in Workers : at[w] \notin Busy
    /\ at[B] = "pop" => started = "ipc"
Ended == started # "none" /\ app.status = 0 /\ shell # "kill"
DoneInv == ~rude =>
    /\ app.running => Running
    /\ ~app.running => \A w \in Workers : at[w] # "clear"
    /\ ~app.running /\ Ended => Over

-----------------------------------------------------------------------------
LEMMA Names ==
    /\ Workers = {A, B} /\ AppTasks = {Vm, A, B} /\ A # B /\ A # Vm /\ B # Vm
    /\ Shell \notin AppTasks /\ Nobody \notin AppTasks /\ Shell # Nobody
    /\ Iterations \in Nat /\ Iterations > 0 /\ VmLength \in Nat /\ VmLength > 0
    /\ QueueSize \in Nat /\ QueueSize > 0
    /\ Types \subseteq TypesAll /\ RudeTypes \subseteq SUBSET Types
BY AppAssumption DEF Workers, AppTasks, A, B, Vm, Shell, Nobody, TypesAll

\* The marks of the two workers are two bits.
LEMMA Marks ==
    /\ Bit(A) = 1 /\ Bit(B) = 2
    /\ \A d \in 0..3, w \in Workers : ~Has(d, w) => d + Bit(w) \in 0..3
    /\ \A d \in 0..3, w, u \in Workers : ~Has(d, w) /\ Has(d + Bit(w), u) => u = w \/ Has(d, u)
    /\ Has(3, A) /\ Has(3, B) /\ Has(1, A) /\ ~Has(0, A) /\ ~Has(0, B)
<1>1. Bit(A) = 1 /\ Bit(B) = 2
    BY Names DEF Bit
<1>2. \A d \in 0..3 : /\ (d \div 1) % 2 = 1 <=> d \in {1, 3}
                    /\ (d \div 2) % 2 = 1 <=> d \in {2, 3}
    <2> TAKE d \in 0..3
    <2>1. d = 0 \/ d = 1 \/ d = 2 \/ d = 3
        OBVIOUS
    <2>2. /\ 0 \div 1 = 0 /\ 1 \div 1 = 1 /\ 2 \div 1 = 2 /\ 3 \div 1 = 3
          /\ 0 \div 2 = 0 /\ 1 \div 2 = 0 /\ 2 \div 2 = 1 /\ 3 \div 2 = 1
          /\ 0 % 2 = 0 /\ 1 % 2 = 1 /\ 2 % 2 = 0 /\ 3 % 2 = 1
        OBVIOUS
    <2>3. (d \div 1) % 2 = 1 <=> d \in {1, 3}
        BY <2>1, <2>2
    <2>4. (d \div 2) % 2 = 1 <=> d \in {2, 3}
        BY <2>1, <2>2
    <2> QED BY <2>3, <2>4
<1>3. \A d \in 0..3 : (Has(d, A) <=> d \in {1, 3}) /\ (Has(d, B) <=> d \in {2, 3})
    BY <1>1, <1>2 DEF Has
<1> HIDE DEF Has
<1>4. \A d \in 0..3, w \in Workers : ~Has(d, w) => d + Bit(w) \in 0..3
    BY <1>1, <1>3, Names
<1>5. \A d \in 0..3, w, u \in Workers : ~Has(d, w) /\ Has(d + Bit(w), u) => u = w \/ Has(d, u)
    BY <1>1, <1>3, <1>4, Names
<1> QED BY <1>1, <1>3, <1>4, <1>5

-----------------------------------------------------------------------------
LEMMA InitTyped == Init => Typed
<1> SUFFICES ASSUME Init PROVE Typed
    OBVIOUS
<1>1. app \in App
    BY Names DEF Init, App
<1>2. q \in Queue
    BY Names DEF Init, Queue, EmptyQueue
<1>3. /\ at \in [AppTasks -> Labels] /\ at[Vm] \in VmLabels /\ \A w \in Workers : at[w] = "head"
      /\ state \in [AppTasks -> {"READY", "SLEEP", "BLOCKED", "STOPPED", "ZOMBIE"}]
      /\ doing \in [Workers -> Types \union {"none"}] /\ reg \in [Workers -> Nat]
    BY Names DEF Init, Labels, VmLabels
<1>4. vm \in [pos : 0..VmLength, active : {"none", "same", "old"}]
    BY Names DEF Init
<1>5. mix \subseteq Types /\ store \in mix
    <2>1. mix = Types \/ mix \in RudeTypes
        BY DEF Init
    <2> QED BY <2>1, Names DEF Init
<1>6. /\ owner = Nobody /\ shell = "read" /\ started = "none" /\ joins = 0 /\ got = <<>>
    BY DEF Init
<1>9. <<>> \in Seq(Nat)
    OBVIOUS
<1>7. store \in Types
    BY <1>5
<1>10. /\ shell \in {"read", "enter", "command", "pause", "stop", "kill", "done"}
       /\ owner \in AppTasks \union {Shell, Nobody} /\ started \in Types \union {"none"}
       /\ joins \in 0..2 /\ got \in Seq(Nat)
    BY <1>6, <1>9
<1>11. Held
    BY <1>3 DEF Held
<1> QED BY <1>1, <1>2, <1>3, <1>4, <1>5, <1>7, <1>10, <1>11 DEF Typed, Data, Code, Held, States

-----------------------------------------------------------------------------
(* Where a step takes a task.                                              *)

\* Task t goes from label l to a label of L; it stays READY where it prints.
Moved(t, l, L) ==
    /\ state[t] = "READY" /\ at[t] = l /\ Split(t) /\ ~Alone
    /\ at' \in [AppTasks -> Labels] /\ at'[t] \in L
    /\ state' \in [AppTasks -> States]
    /\ state'[t] = "READY" \/ at'[t] \notin Printing
    /\ \A u \in AppTasks : u # t => at'[u] = at[u] /\ state'[u] = state[u]

LEMMA GoMoves ==
    ASSUME Typed, NEW t \in AppTasks, NEW l, Runs(t, l), NEW m \in Labels, Go(t, m)
    PROVE  Moved(t, l, {m}) /\ state' = state
BY DEF Typed, Code, Runs, Go, Moved, States

LEMMA LeaveMoves ==
    ASSUME Typed, NEW t \in AppTasks, NEW l, Runs(t, l), NEW m \in Labels \ Printing, NEW r \in States,
           Leave(t, r, m)
    PROVE  Moved(t, l, {m}) /\ state'[t] = r
BY DEF Typed, Code, Runs, Leave, Moved, States

LEMMA Wider ==
    ASSUME NEW t, NEW l, NEW L, NEW M, Moved(t, l, L), L \subseteq M PROVE Moved(t, l, M)
BY DEF Moved

LEMMA SomeLabels ==
    Labels = {"head", "push", "pop", "count", "lock", "print", "alock", "blocked", "inc", "complete", "mark", "join",
           "clear", "msglock", "msg", "park", "load", "spin", "burst", "typing"}
BY DEF Labels

LEMMA LoopHeadMoves ==
    ASSUME Typed, NEW w \in Workers, LoopHead(w) PROVE Moved(w, "head", {"head", "pop", "complete", "push", "lock"})
<1>1. CASE ~Mine(w)
    <2>1. Runs(w, "head") /\ Leave(w, "BLOCKED", "head")
        BY <1>1 DEF LoopHead
    <2>2. "head" \in Labels \ Printing /\ "BLOCKED" \in States /\ w \in AppTasks
        BY Names, SomeLabels DEF Printing, States
    <2>3. Moved(w, "head", {"head"})
        BY <2>1, <2>2, LeaveMoves
    <2> QED BY <2>3, Wider
<1>2. CASE Mine(w) /\ Waits(w)
    <2>1. Runs(w, "head") /\ Leave(w, "SLEEP", "head")
        BY <1>2 DEF LoopHead
    <2>2. "head" \in Labels \ Printing /\ "SLEEP" \in States /\ w \in AppTasks
        BY Names, SomeLabels DEF Printing, States
    <2>3. Moved(w, "head", {"head"})
        BY <2>1, <2>2, LeaveMoves
    <2> QED BY <2>3, Wider
<1>3. CASE Mine(w) /\ ~Waits(w)
    <2> DEFINE m == IF app.type = "ipc" /\ w = B THEN "pop"
                    ELSE IF app.type # "fault" /\ Counter(w) >= Goal(app.type) THEN "complete"
                    ELSE IF app.type = "ipc" THEN "push" ELSE "lock"
    <2>1. Runs(w, "head") /\ Go(w, m)
        BY <1>3 DEF LoopHead
    <2>2. m \in {"pop", "complete", "push", "lock"}
        OBVIOUS
    <2> HIDE DEF m
    <2>3. m \in Labels /\ w \in AppTasks
        BY <2>2, Names, SomeLabels
    <2>4. Moved(w, "head", {m})
        BY <2>1, <2>3, GoMoves
    <2> QED BY <2>2, <2>4, Wider
<1> QED BY <1>1, <1>2, <1>3

LEMMA PushMoves ==
    ASSUME Typed, Push PROVE Moved(A, "push", {"head", "count"})
BY Names, GoMoves, LeaveMoves, Wider, SomeLabels DEF Push, States, Printing

LEMMA PopMoves ==
    ASSUME Typed, Pop PROVE Moved(B, "pop", {"head", "alock", "count"})
<1>1. CASE q.count = 0 /\ announced
    <2>1. Runs(B, "pop") /\ Leave(B, "SLEEP", "head")
        BY <1>1 DEF Pop
    <2>2. "head" \in Labels \ Printing /\ "SLEEP" \in States /\ B \in AppTasks
        BY Names, SomeLabels DEF Printing, States
    <2>3. Moved(B, "pop", {"head"})
        BY <2>1, <2>2, LeaveMoves
    <2> QED BY <2>3, Wider
<1>2. CASE q.count = 0 /\ ~announced
    BY <1>2, Names, GoMoves, LeaveMoves, Wider, SomeLabels DEF Pop, States, Printing
<1>3. CASE q.count # 0
    BY <1>3, Names, GoMoves, LeaveMoves, Wider, SomeLabels DEF Pop, States, Printing
<1> QED BY <1>1, <1>2, <1>3

LEMMA CountMoves ==
    ASSUME Typed, NEW w \in Workers, Count(w) PROVE Moved(w, "count", {"lock"})
BY Names, GoMoves, LeaveMoves, Wider, SomeLabels DEF Count, States, Printing

LEMMA PrintMoves ==
    ASSUME Typed, NEW w \in Workers, PrintLine(w) PROVE Moved(w, "print", {"load", "inc"})
BY Names, GoMoves, LeaveMoves, Wider, SomeLabels DEF PrintLine, States, Printing

LEMMA AnnouncedMoves ==
    ASSUME Typed, Announced PROVE Moved(B, "blocked", {"head"})
BY Names, GoMoves, LeaveMoves, Wider, SomeLabels DEF Announced, States, Printing

LEMMA IncMoves ==
    ASSUME Typed, NEW w \in Workers, Inc(w) PROVE Moved(w, "inc", {"complete", "head"})
BY Names, GoMoves, LeaveMoves, Wider, SomeLabels DEF Inc, States, Printing

LEMMA CompleteMoves ==
    ASSUME Typed, NEW w \in Workers, Complete(w) PROVE Moved(w, "complete", {"join", "mark"})
BY Names, GoMoves, LeaveMoves, Wider, SomeLabels DEF Complete, States, Printing

LEMMA MarkMoves ==
    ASSUME Typed, NEW w \in Workers, Mark(w) PROVE Moved(w, "mark", {"join"})
BY Names, GoMoves, LeaveMoves, Wider, SomeLabels DEF Mark, States, Printing

LEMMA JoinMoves ==
    ASSUME Typed, NEW w \in Workers, Join(w) PROVE Moved(w, "join", {"clear", "park"})
BY Names, GoMoves, LeaveMoves, Wider, SomeLabels DEF Join, States, Printing

LEMMA ClearMoves ==
    ASSUME Typed, NEW w \in Workers, Clear(w) PROVE Moved(w, "clear", {"park", "msglock"})
BY Names, GoMoves, LeaveMoves, Wider, SomeLabels DEF Clear, States, Printing

LEMMA SaidMoves ==
    ASSUME Typed, NEW w \in Workers, Said(w) PROVE Moved(w, "msg", {"park"})
BY Names, GoMoves, LeaveMoves, Wider, SomeLabels DEF Said, States, Printing

LEMMA ParkMoves ==
    ASSUME Typed, NEW w \in Workers, Park(w) PROVE Moved(w, "park", {"head"})
BY Names, GoMoves, LeaveMoves, Wider, SomeLabels DEF Park, States, Printing

LEMMA VmHeadMoves ==
    ASSUME Typed, VmHead PROVE Moved(Vm, "head", {"head", "burst"})
BY Names, GoMoves, LeaveMoves, Wider, SomeLabels DEF VmHead, States, Printing

LEMMA VmBurstMoves ==
    ASSUME Typed, VmBurst PROVE Moved(Vm, "burst", {"head", "msglock", "typing"})
<1>1. CASE ~app.running
    BY <1>1, Names, GoMoves, LeaveMoves, Wider, SomeLabels DEF VmBurst, States, Printing
<1>2. CASE app.running /\ vm.pos >= VmLength
    BY <1>2, Names, GoMoves, LeaveMoves, Wider, SomeLabels DEF VmBurst, States, Printing
<1>3. CASE app.running /\ ~(vm.pos >= VmLength)
    <2>1. Runs(Vm, "burst") /\ (Go(Vm, "typing") \/ Leave(Vm, "SLEEP", "head"))
        BY <1>3 DEF VmBurst
    <2>2. /\ "head" \in Labels \ Printing /\ "typing" \in Labels /\ "SLEEP" \in States
          /\ Vm \in AppTasks
        BY Names, SomeLabels DEF Printing, States
    <2>3. Moved(Vm, "burst", {"typing"}) \/ Moved(Vm, "burst", {"head"})
        BY <2>1, <2>2, GoMoves, LeaveMoves
    <2> QED BY <2>3, Wider
<1> QED BY <1>1, <1>2, <1>3

LEMMA VmWaitsMoves ==
    ASSUME Typed, VmWaits PROVE Moved(Vm, "typing", {"typing", "lock"})
BY Names, GoMoves, LeaveMoves, Wider, SomeLabels DEF VmWaits, States, Printing

LEMMA VmPrintMoves ==
    ASSUME Typed, VmPrint
    PROVE  Moved(Vm, "print", {"burst"}) \/ Moved(Vm, "msg", {"head"})
BY Names, GoMoves, SomeLabels DEF VmPrint

LEMMA LockMoves ==
    ASSUME Typed, NEW t \in AppTasks, ConsoleLock(t)
    PROVE  \/ Moved(t, "lock", {"print"}) \/ Moved(t, "alock", {"blocked"})
           \/ Moved(t, "msglock", {"msg"})
<1>0. DOMAIN Takes = {"lock", "alock", "msglock"}
    BY DEF Takes
<1>1. PICK l \in DOMAIN Takes : Runs(t, l) /\ owner = Nobody /\ owner' = t /\ Go(t, Takes[l])
    BY DEF ConsoleLock
<1>2. \/ l = "lock" /\ Takes[l] = "print"
      \/ l = "alock" /\ Takes[l] = "blocked"
      \/ l = "msglock" /\ Takes[l] = "msg"
    <2>1. Takes["lock"] = "print" /\ Takes["alock"] = "blocked" /\ Takes["msglock"] = "msg"
        BY DEF Takes
    <2> QED BY <1>0, <1>1, <2>1
<1> QED BY <1>1, <1>2, GoMoves, SomeLabels

LEMMA FaultMoves ==
    ASSUME Typed, Fault
    PROVE  /\ state[A] = "READY" /\ at[A] = "load" /\ ~Alone
           /\ at' \in [AppTasks -> Labels] /\ state' \in [AppTasks -> States]
           /\ at'[A] = "spin" /\ state'[A] = "ZOMBIE" /\ state'[B] = "BLOCKED" /\ state'[Vm] = state[Vm]
           /\ \A u \in AppTasks : u # A => at'[u] = at[u]
BY Names, SomeLabels DEF Fault, Runs, Typed, Code, States

\* What the counters and the end of an application write.
LEMMA AppWrites ==
    \A r \in App : /\ \A n \in Nat : [r EXCEPT !.a = n] \in App /\ [r EXCEPT !.b = n] \in App
                   /\ [r EXCEPT !.running = FALSE, !.status = 0] \in App
<1> TAKE r \in App
<1>1. ASSUME NEW n \in Nat PROVE [r EXCEPT !.a = n] \in App /\ [r EXCEPT !.b = n] \in App
    BY DEF App
<1>2. [r EXCEPT !.running = FALSE, !.status = 0] \in App
    BY DEF App
<1> QED BY <1>1, <1>2

LEMMA DataStep == Typed /\ [Next]_vars => Data'
<1> SUFFICES ASSUME Typed, [Next]_vars PROVE Data'
    OBVIOUS
<1> USE Names
<1>0. Data
    BY DEF Typed
<1>1. ASSUME NEW t \in AppTasks, Wake(t) PROVE Data'
    BY <1>0, <1>1 DEF Data, App, Queue, fixed, console, tasks, history, Wake
<1>2. ASSUME NEW w \in Workers, LoopHead(w) PROVE Data'
    BY <1>0, <1>2 DEF Data, App, Queue, fixed, console, tasks, history, LoopHead, Keep
<1>3. ASSUME NEW w \in AppTasks, ConsoleLock(w) PROVE Data'
    BY <1>0, <1>3 DEF Data, App, Queue, fixed, console, tasks, history, ConsoleLock, Keep
<1>4. ASSUME NEW w \in Workers, Count(w) PROVE Data'
    BY <1>0, <1>4 DEF Data, App, Queue, fixed, console, tasks, history, Count, Runs, WrittenBack, Held, Typed
<1>5. ASSUME NEW w \in Workers, PrintLine(w) PROVE Data'
    BY <1>0, <1>5 DEF Data, App, Queue, fixed, console, tasks, history, PrintLine, Unlock, Keep
<1>6. ASSUME NEW w \in Workers, Inc(w) PROVE Data'
    <2>1. app' \in App
        <3>1. app.a + 1 \in Nat /\ app.b + 1 \in Nat
            BY <1>0 DEF Data, App
        <3>2. app' = [app EXCEPT !.a = app.a + 1] \/ app' = [app EXCEPT !.b = app.b + 1]
            BY <1>6 DEF Inc
        <3>3. app \in App
            BY <1>0 DEF Data
        <3> DEFINE m == app.a + 1  n == app.b + 1
        <3> HIDE DEF m, n
        <3>4. app' = [app EXCEPT !.a = m] \/ app' = [app EXCEPT !.b = n]
            BY <3>2 DEF m, n
        <3>5. m \in Nat /\ n \in Nat
            BY <3>1 DEF m, n
        <3> QED BY <3>3, <3>4, <3>5, AppWrites
    <2> QED BY <1>0, <1>6, <2>1 DEF Data, Inc, Keep, fixed, history
<1>7. ASSUME NEW w \in Workers, Complete(w) PROVE Data'
    <2>1. app.done + Bit(w) \in Nat
        BY <1>0 DEF Data, App, Bit
    <2>2. reg' \in [Workers -> Nat]
        BY <1>0, <1>7, <2>1 DEF Data, Complete
    <2> QED BY <1>0, <1>7, <2>2 DEF Data, Complete, KeepApp, fixed, history
<1>8. ASSUME NEW w \in Workers, Mark(w) PROVE Data'
    BY <1>0, <1>8 DEF Data, App, Queue, fixed, console, tasks, history, Mark, WrittenBack, Runs, Held, Typed
<1>9. ASSUME NEW w \in Workers, Join(w) PROVE Data'
    BY <1>0, <1>9 DEF Data, App, Queue, fixed, console, tasks, history, Join, Keep, KeepApp
<1>10. ASSUME NEW w \in Workers, Clear(w) PROVE Data'
    <2>1. app' \in App
        BY <1>0, <1>10 DEF Data, App, Clear
    <2>2. joins' \in 0..2
        BY <1>0, <1>10 DEF Data, Clear
    <2> QED BY <1>0, <1>10, <2>1, <2>2 DEF Data, Clear, fixed
<1>11. ASSUME NEW w \in Workers, Said(w) PROVE Data'
    BY <1>0, <1>11 DEF Data, App, Queue, fixed, console, tasks, history, Said, Unlock, Keep
<1>12. ASSUME NEW w \in Workers, Park(w) PROVE Data'
    BY <1>0, <1>12 DEF Data, App, Queue, fixed, console, tasks, history, Park, Keep, KeepApp
<1>13. ASSUME Push PROVE Data'
    <2>1. CASE q.count >= QueueSize
        BY <1>0, <1>13, <2>1 DEF Data, Push, fixed, history
    <2>2. CASE ~(q.count >= QueueSize)
        <3>0. q \in Queue /\ app \in App
            BY <1>0 DEF Data
        <3>6. q.count \in 0..QueueSize /\ q.tail \in 0..QueueSize-1 /\ app.a \in Nat
            BY <3>0 DEF App, Queue
        <3>1. /\ q \in Queue /\ app.a + 1 \in Nat /\ q.count + 1 \in Nat
              /\ q.tail \in 0..QueueSize-1
            BY <3>0, <3>6
        <3> DEFINE c == [q.cell EXCEPT ![q.tail] = app.a + 1]  m == (q.tail + 1) % QueueSize
        <3>2. c \in [0..QueueSize-1 -> Nat] /\ m \in 0..QueueSize-1
            BY <3>1 DEF Queue
        <3>3. q' = [q EXCEPT !.cell = c, !.tail = m]
            BY <1>13, <2>2, <3>1 DEF Push, Queue
        <3> HIDE DEF c, m
        <3>4. q' \in Queue
            BY <3>1, <3>2, <3>3 DEF Queue
        <3>5. reg' \in [Workers -> Nat]
            BY <1>0, <1>13, <2>2, <3>1 DEF Data, Push
        <3> QED BY <1>0, <1>13, <3>4, <3>5 DEF Data, Push, fixed, history
    <2> QED BY <2>1, <2>2
<1>14. ASSUME Fault PROVE Data'
    BY <1>0, <1>14 DEF Data, App, Queue, fixed, console, tasks, history, Fault, Keep
<1>15. ASSUME Pop PROVE Data'
    <2>1. CASE q.count = 0
        BY <1>0, <1>15, <2>1 DEF Data, Pop, fixed, history
    <2>2. CASE q.count # 0
        <3>1. /\ q \in Queue /\ q.cell[q.head] \in Nat /\ q.count - 1 \in Nat
              /\ q.head \in 0..QueueSize-1
            BY <1>0, <2>2 DEF Data, Queue
        <3> DEFINE m == (q.head + 1) % QueueSize
        <3>2. m \in 0..QueueSize-1
            BY <3>1
        <3>3. q' = [q EXCEPT !.head = m] /\ got' = Append(got, q.cell[q.head])
            BY <1>15, <2>2, <3>1 DEF Pop
        <3> HIDE DEF m
        <3>4. q' \in Queue
            BY <3>1, <3>2, <3>3 DEF Queue
        <3>5. reg' \in [Workers -> Nat]
            BY <1>0, <1>15, <2>2, <3>1 DEF Data, Pop
        <3>6. got' \in Seq(Nat)
            BY <1>0, <3>1, <3>3 DEF Data
        <3> QED BY <1>0, <1>15, <3>4, <3>5, <3>6 DEF Data, Pop, fixed
    <2> QED BY <2>1, <2>2
<1>16. ASSUME Announced PROVE Data'
    BY <1>0, <1>16 DEF Data, App, Queue, fixed, console, tasks, history, Announced, Unlock, Keep
<1>17. ASSUME VmHead PROVE Data'
    <2>1. vm' \in [pos : 0..VmLength, active : {"none", "same", "old"}]
        BY <1>0, <1>17 DEF Data, VmHead
    <2> QED BY <1>0, <1>17, <2>1 DEF Data, VmHead, Keep, fixed, history
<1>18. ASSUME VmBurst PROVE Data'
    <2>1. app' \in App
        BY <1>0, <1>18, AppWrites DEF Data, VmBurst
    <2>2. vm' \in [pos : 0..VmLength, active : {"none", "same", "old"}]
        <3>1. CASE vm' = vm
            BY <1>0, <3>1 DEF Data
        <3>2. CASE vm' # vm
            <4>1. ~(vm.pos >= VmLength) /\ vm' = [vm EXCEPT !.pos = vm.pos + 1]
                BY <1>18, <3>2 DEF VmBurst
            <4> QED BY <1>0, <4>1 DEF Data
        <3> QED BY <3>1, <3>2
    <2>3. joins' \in 0..2 /\ started' = started /\ got' = got
        BY <1>0, <1>18 DEF Data, VmBurst, history
    <2> QED BY <1>0, <1>18, <2>1, <2>2, <2>3 DEF Data, VmBurst, fixed
<1>19. ASSUME VmWaits PROVE Data'
    BY <1>0, <1>19 DEF Data, App, Queue, fixed, console, tasks, history, VmWaits, Keep, KeepApp
<1>20. ASSUME VmPrint PROVE Data'
    BY <1>0, <1>20 DEF Data, App, Queue, fixed, console, tasks, history, VmPrint, Unlock, Keep
<1>21. ASSUME KeyTyped PROVE Data'
    BY <1>0, <1>21 DEF Data, App, Queue, fixed, console, tasks, history, KeyTyped, KeepApp
<1>22. ASSUME Enter PROVE Data'
    BY <1>0, <1>22 DEF Data, App, Queue, fixed, console, tasks, history, Enter
<1>23. ASSUME Done PROVE Data'
    BY <1>0, <1>23 DEF Data, App, Queue, fixed, console, tasks, history, Done
<1>24. ASSUME OtherCommand PROVE Data'
    BY <1>0, <1>24 DEF Data, App, Queue, fixed, console, tasks, history, OtherCommand
<1>25. ASSUME Run PROVE Data'
    BY <1>0, <1>25 DEF Data, App, Queue, fixed, console, tasks, history, Run, Command, Stay, EmptyQueue
<1>26. ASSUME StopCheck PROVE Data'
    BY <1>0, <1>26 DEF Data, App, Queue, fixed, console, tasks, history, StopCheck, Command, Stay
<1>27. ASSUME StopFlag PROVE Data'
    BY <1>0, <1>27 DEF Data, App, Queue, fixed, console, tasks, history, StopFlag, Command, Stay
<1>28. ASSUME StopTasks PROVE Data'
    BY <1>0, <1>28 DEF Data, App, Queue, fixed, console, tasks, history, StopTasks, Command, Stay
<1>29. ASSUME Continue PROVE Data'
    BY <1>0, <1>29 DEF Data, App, Queue, fixed, console, tasks, history, Continue, Command, Stay
<1>30. ASSUME KillFlags PROVE Data'
    BY <1>0, <1>30 DEF Data, App, Queue, fixed, console, tasks, history, KillFlags, Command, Stay
<1>31. ASSUME KillTasks PROVE Data'
    BY <1>0, <1>31 DEF Data, App, Queue, fixed, console, tasks, history, KillTasks, Command, Stay
<1>32. ASSUME Compile PROVE Data'
    BY <1>0, <1>32 DEF Data, App, Queue, fixed, console, tasks, history, Compile
<1>33. ASSUME UNCHANGED vars PROVE Data'
    BY <1>0, <1>33 DEF Data, App, Queue, fixed, console, tasks, history, vars
<1> QED BY <1>1, <1>2, <1>3, <1>4, <1>5, <1>6, <1>7, <1>8, <1>9, <1>10, <1>11, <1>12, <1>13, <1>14,
           <1>15, <1>16, <1>17, <1>18, <1>19, <1>20, <1>21, <1>22, <1>23, <1>24, <1>25, <1>26, <1>27,
           <1>28, <1>29, <1>30, <1>31, <1>32, <1>33 DEF Next, WorkerStep, VmStep, ShellStep

\* The manner of the commands is chosen once.
LEMMA MannerStays == [Next]_vars => (rude' <=> rude)
<1> SUFFICES ASSUME [Next]_vars PROVE rude' <=> rude
    OBVIOUS
<1> DEFINE Same == rude' = rude
<1>1. ASSUME NEW t \in AppTasks, Wake(t) PROVE Same
    BY <1>1, Zenon DEF Wake, fixed
<1>2. ASSUME NEW t \in AppTasks, ConsoleLock(t) PROVE Same
    BY <1>2, Zenon DEF ConsoleLock, Keep, fixed
<1>3. ASSUME NEW w \in Workers, LoopHead(w) PROVE Same
    BY <1>3, Zenon DEF LoopHead, Keep, fixed
<1>4. ASSUME NEW w \in Workers, Count(w) PROVE Same
    BY <1>4, Zenon DEF Count, fixed
<1>5. ASSUME NEW w \in Workers, PrintLine(w) PROVE Same
    BY <1>5, Zenon DEF PrintLine, Keep, fixed
<1>6. ASSUME NEW w \in Workers, Inc(w) PROVE Same
    BY <1>6, Zenon DEF Inc, Keep, fixed
<1>7. ASSUME NEW w \in Workers, Complete(w) PROVE Same
    BY <1>7, Zenon DEF Complete, fixed
<1>8. ASSUME NEW w \in Workers, Mark(w) PROVE Same
    BY <1>8, Zenon DEF Mark, fixed
<1>9. ASSUME NEW w \in Workers, Join(w) PROVE Same
    BY <1>9, Zenon DEF Join, Keep, fixed
<1>10. ASSUME NEW w \in Workers, Clear(w) PROVE Same
    BY <1>10, Zenon DEF Clear, fixed
<1>11. ASSUME NEW w \in Workers, Said(w) PROVE Same
    BY <1>11, Zenon DEF Said, Keep, fixed
<1>12. ASSUME NEW w \in Workers, Park(w) PROVE Same
    BY <1>12, Zenon DEF Park, Keep, fixed
<1>13. ASSUME Push PROVE Same
    BY <1>13, Zenon DEF Push, fixed
<1>14. ASSUME Fault PROVE Same
    BY <1>14, Zenon DEF Fault, Keep, fixed
<1>15. ASSUME Pop PROVE Same
    BY <1>15, Zenon DEF Pop, fixed
<1>16. ASSUME Announced PROVE Same
    BY <1>16, Zenon DEF Announced, Keep, fixed
<1>17. ASSUME VmHead PROVE Same
    BY <1>17, Zenon DEF VmHead, Keep, fixed
<1>18. ASSUME VmBurst PROVE Same
    BY <1>18, Zenon DEF VmBurst, fixed
<1>19. ASSUME VmWaits PROVE Same
    BY <1>19, Zenon DEF VmWaits, Keep, fixed
<1>20. ASSUME VmPrint PROVE Same
    BY <1>20, Zenon DEF VmPrint, Keep, fixed
<1>21. ASSUME KeyTyped PROVE Same
    BY <1>21, Zenon DEF KeyTyped, fixed
<1>22. ASSUME Enter PROVE Same
    BY <1>22, Zenon DEF Enter, fixed
<1>23. ASSUME Done PROVE Same
    BY <1>23, Zenon DEF Done, fixed
<1>24. ASSUME OtherCommand PROVE Same
    BY <1>24, Zenon DEF OtherCommand, fixed
<1>25. ASSUME Run PROVE Same
    BY <1>25, Zenon DEF Run, Command
<1>26. ASSUME StopCheck PROVE Same
    BY <1>26, Zenon DEF StopCheck, Command
<1>27. ASSUME StopFlag PROVE Same
    BY <1>27, Zenon DEF StopFlag, Command
<1>28. ASSUME StopTasks PROVE Same
    BY <1>28, Zenon DEF StopTasks, Command
<1>29. ASSUME Continue PROVE Same
    BY <1>29, Zenon DEF Continue, Command
<1>30. ASSUME KillFlags PROVE Same
    BY <1>30, Zenon DEF KillFlags, Command
<1>31. ASSUME KillTasks PROVE Same
    BY <1>31, Zenon DEF KillTasks, Command
<1>32. ASSUME Compile PROVE Same
    BY <1>32, Zenon DEF Compile
<1>33. ASSUME UNCHANGED vars PROVE Same
    BY <1>33, Zenon DEF vars, fixed
<1> HIDE DEF Same
<1>50. Same
    BY Names, <1>1, <1>2, <1>3, <1>4, <1>5, <1>6, <1>7, <1>8, <1>9, <1>10, <1>11, <1>12, <1>13, <1>14, <1>15, <1>16, <1>17, <1>18, <1>19, <1>20, <1>21, <1>22, <1>23, <1>24, <1>25, <1>26, <1>27, <1>28, <1>29, <1>30, <1>31, <1>32, <1>33 DEF Next, WorkerStep, VmStep, ShellStep
<1> QED BY <1>50, Zenon DEF Same

LEMMA CodeStep == Typed /\ [Next]_vars => Code'
<1> SUFFICES ASSUME Typed, [Next]_vars PROVE Code'
    OBVIOUS
<1> USE Names
<1>0. Code
    BY DEF Typed
<1>1. ASSUME NEW t \in AppTasks, Wake(t) PROVE Code'
    BY <1>0, <1>1 DEF Code, States, Labels, VmLabels, Wake
<1>2. ASSUME NEW t \in AppTasks, ConsoleLock(t) PROVE Code'
    BY <1>0, <1>2, LockMoves DEF Moved, Code, VmLabels
<1>3. ASSUME NEW w \in Workers, LoopHead(w) PROVE Code'
    BY <1>0, <1>3, LoopHeadMoves DEF Moved, Code, VmLabels
<1>4. ASSUME NEW w \in Workers, Count(w) PROVE Code'
    BY <1>0, <1>4, CountMoves DEF Moved, Code, VmLabels
<1>5. ASSUME NEW w \in Workers, PrintLine(w) PROVE Code'
    BY <1>0, <1>5, PrintMoves DEF Moved, Code, VmLabels
<1>6. ASSUME NEW w \in Workers, Inc(w) PROVE Code'
    BY <1>0, <1>6, IncMoves DEF Moved, Code, VmLabels
<1>7. ASSUME NEW w \in Workers, Complete(w) PROVE Code'
    BY <1>0, <1>7, CompleteMoves DEF Moved, Code, VmLabels
<1>8. ASSUME NEW w \in Workers, Mark(w) PROVE Code'
    BY <1>0, <1>8, MarkMoves DEF Moved, Code, VmLabels
<1>9. ASSUME NEW w \in Workers, Join(w) PROVE Code'
    BY <1>0, <1>9, JoinMoves DEF Moved, Code, VmLabels
<1>10. ASSUME NEW w \in Workers, Clear(w) PROVE Code'
    BY <1>0, <1>10, ClearMoves DEF Moved, Code, VmLabels
<1>11. ASSUME NEW w \in Workers, Said(w) PROVE Code'
    BY <1>0, <1>11, SaidMoves DEF Moved, Code, VmLabels
<1>12. ASSUME NEW w \in Workers, Park(w) PROVE Code'
    BY <1>0, <1>12, ParkMoves DEF Moved, Code, VmLabels
<1>13. ASSUME Push PROVE Code'
    BY <1>0, <1>13, PushMoves DEF Moved, Code, VmLabels
<1>14. ASSUME Pop PROVE Code'
    BY <1>0, <1>14, PopMoves DEF Moved, Code, VmLabels
<1>15. ASSUME Announced PROVE Code'
    BY <1>0, <1>15, AnnouncedMoves DEF Moved, Code, VmLabels
<1>16. ASSUME VmHead PROVE Code'
    BY <1>0, <1>16, VmHeadMoves DEF Moved, Code, VmLabels
<1>17. ASSUME VmBurst PROVE Code'
    BY <1>0, <1>17, VmBurstMoves DEF Moved, Code, VmLabels
<1>18. ASSUME VmWaits PROVE Code'
    BY <1>0, <1>18, VmWaitsMoves DEF Moved, Code, VmLabels
<1>19. ASSUME VmPrint PROVE Code'
    BY <1>0, <1>19, VmPrintMoves DEF Moved, Code, VmLabels
<1>20. ASSUME Fault PROVE Code'
    BY <1>0, <1>20, FaultMoves DEF Code, VmLabels
<1>21. ASSUME KeyTyped PROVE Code'
    BY <1>0, <1>21 DEF Code, States, KeyTyped
<1>22. ASSUME Enter PROVE Code'
    BY <1>0, <1>22 DEF Code, States, Enter, tasks
<1>23. ASSUME Done PROVE Code'
    BY <1>0, <1>23 DEF Code, States, Done, tasks
<1>24. ASSUME OtherCommand PROVE Code'
    BY <1>0, <1>24 DEF Code, States, OtherCommand, tasks
<1>25. ASSUME Run PROVE Code'
    BY <1>0, <1>25 DEF Code, States, Run, Stay, Readied, Blocked
<1>26. ASSUME StopCheck PROVE Code'
    BY <1>0, <1>26 DEF Code, States, StopCheck, Stay
<1>27. ASSUME StopFlag PROVE Code'
    BY <1>0, <1>27 DEF Code, States, StopFlag, Stay
<1>28. ASSUME StopTasks PROVE Code'
    BY <1>0, <1>28 DEF Code, States, StopTasks, Stay
<1>29. ASSUME Continue PROVE Code'
    BY <1>0, <1>29 DEF Code, States, Continue, Stay, Readied
<1>30. ASSUME KillFlags PROVE Code'
    BY <1>0, <1>30 DEF Code, States, KillFlags, Stay
<1>31. ASSUME KillTasks PROVE Code'
    BY <1>0, <1>31 DEF Code, States, KillTasks, Stay, Blocked
<1>32. ASSUME Compile PROVE Code'
    BY <1>0, <1>32 DEF Code, States, Compile, tasks
<1>33. ASSUME UNCHANGED vars PROVE Code'
    BY <1>0, <1>33 DEF Code, States, vars, tasks
<1> QED BY <1>1, <1>2, <1>3, <1>4, <1>5, <1>6, <1>7, <1>8, <1>9, <1>10, <1>11, <1>12, <1>13, <1>14,
           <1>15, <1>16, <1>17, <1>18, <1>19, <1>20, <1>21, <1>22, <1>23, <1>24, <1>25, <1>26, <1>27,
           <1>28, <1>29, <1>30, <1>31, <1>32, <1>33 DEF Next, WorkerStep, VmStep, ShellStep

LEMMA HeldStep == Typed /\ [Next]_vars => Held'
<1> SUFFICES ASSUME Typed, [Next]_vars PROVE Held'
    OBVIOUS
<1> USE Names
<1> DEFINE Quiet == \A w \in Workers : at'[w] \in {"count", "mark"} => at'[w] = at[w] /\ reg'[w] = reg[w]
<1>0. Code /\ Held /\ reg \in [Workers -> Nat]
    BY DEF Typed, Data
<1>1. ASSUME NEW t \in AppTasks, Wake(t) PROVE Quiet
    BY <1>1 DEF Wake
<1>2. ASSUME NEW t \in AppTasks, ConsoleLock(t) PROVE Quiet
    BY <1>2, LockMoves DEF Moved, ConsoleLock, Keep
<1>3. ASSUME NEW w \in Workers, LoopHead(w) PROVE Quiet
    BY <1>0, <1>3, LoopHeadMoves DEF Moved, LoopHead, Keep
<1>4. ASSUME NEW w \in Workers, Count(w) PROVE Quiet
    BY <1>0, <1>4, CountMoves DEF Moved, Count, WrittenBack
<1>5. ASSUME NEW w \in Workers, PrintLine(w) PROVE Quiet
    BY <1>0, <1>5, PrintMoves DEF Moved, PrintLine, Keep
<1>6. ASSUME NEW w \in Workers, Inc(w) PROVE Quiet
    BY <1>0, <1>6, IncMoves DEF Moved, Inc, Keep
<1>7. ASSUME NEW w \in Workers, Mark(w) PROVE Quiet
    BY <1>0, <1>7, MarkMoves DEF Moved, Mark, WrittenBack
<1>8. ASSUME NEW w \in Workers, Join(w) PROVE Quiet
    BY <1>0, <1>8, JoinMoves DEF Moved, Join, Keep
<1>9. ASSUME NEW w \in Workers, Clear(w) PROVE Quiet
    BY <1>0, <1>9, ClearMoves DEF Moved, Clear
<1>10. ASSUME NEW w \in Workers, Said(w) PROVE Quiet
    BY <1>0, <1>10, SaidMoves DEF Moved, Said, Keep
<1>11. ASSUME NEW w \in Workers, Park(w) PROVE Quiet
    BY <1>0, <1>11, ParkMoves DEF Moved, Park, Keep
<1>12. ASSUME Announced PROVE Quiet
    BY <1>12, AnnouncedMoves DEF Moved, Announced, Keep
<1>13. ASSUME VmHead PROVE Quiet
    BY <1>13, VmHeadMoves DEF Moved, VmHead, Keep
<1>14. ASSUME VmBurst PROVE Quiet
    BY <1>14, VmBurstMoves DEF Moved, VmBurst
<1>15. ASSUME VmWaits PROVE Quiet
    BY <1>15, VmWaitsMoves DEF Moved, VmWaits, Keep
<1>16. ASSUME VmPrint PROVE Quiet
    BY <1>16, VmPrintMoves DEF Moved, VmPrint, Keep
<1>17. ASSUME Fault PROVE Quiet
    BY <1>17, FaultMoves DEF Fault, Keep
<1>18. ASSUME KeyTyped PROVE Quiet
    BY <1>18 DEF KeyTyped
<1>19. ASSUME Enter PROVE Quiet
    BY <1>19 DEF Enter, tasks
<1>20. ASSUME Done PROVE Quiet
    BY <1>20 DEF Done, tasks
<1>21. ASSUME OtherCommand PROVE Quiet
    BY <1>21 DEF OtherCommand, tasks
<1>22. ASSUME Run PROVE Quiet
    BY <1>22 DEF Run, Stay
<1>23. ASSUME StopCheck PROVE Quiet
    BY <1>23 DEF StopCheck, Stay
<1>24. ASSUME StopFlag PROVE Quiet
    BY <1>24 DEF StopFlag, Stay
<1>25. ASSUME StopTasks PROVE Quiet
    BY <1>25 DEF StopTasks, Stay
<1>26. ASSUME Continue PROVE Quiet
    BY <1>26 DEF Continue, Stay
<1>27. ASSUME KillFlags PROVE Quiet
    BY <1>27 DEF KillFlags, Stay
<1>28. ASSUME KillTasks PROVE Quiet
    BY <1>28 DEF KillTasks, Stay
<1>29. ASSUME Compile PROVE Quiet
    BY <1>29 DEF Compile, tasks
<1>30. ASSUME UNCHANGED vars PROVE Quiet
    BY <1>30 DEF vars, tasks
<1>40. Quiet => Held'
    BY <1>0 DEF Held
<1>41. ASSUME NEW w \in Workers, Complete(w) PROVE Held'
    <2>1. Moved(w, "complete", {"join", "mark"}) /\ \A u \in Workers : u # w => reg'[u] = reg[u]
        BY <1>0, <1>41, CompleteMoves DEF Complete
    <2>2. at'[w] = "mark" => reg'[w] \in 0..3
        <3>1. CASE Marked(w)
            BY <1>41, <3>1, GoMoves, SomeLabels DEF Complete, Moved
        <3>2. CASE ~Marked(w)
            <4>1. ~Has(app.done, w) /\ app.done \in 0..3
                BY <3>2 DEF Marked, Has, Typed, Data, App
            <4>2. reg'[w] = app.done + Bit(w)
                BY <1>0, <1>41, <3>2 DEF Complete
            <4> QED BY <4>1, <4>2, Marks
        <3> QED BY <3>1, <3>2
    <2> QED BY <1>0, <2>1, <2>2 DEF Held, Moved
<1>42. ASSUME Push PROVE Held'
    <2>1. q.count \in 0..QueueSize
        BY DEF Typed, Data, Queue
    <2>2. at'[A] = "count" => reg'[A] = q.count + 1 /\ q.count < QueueSize
        <3>1. CASE q.count >= QueueSize
            <4>1. Leave(A, "SLEEP", "head")
                BY <1>42, <3>1 DEF Push
            <4> QED BY <1>0, <4>1 DEF Leave, Code
        <3>2. CASE ~(q.count >= QueueSize)
            BY <1>0, <1>42, <2>1, <3>2 DEF Push
        <3> QED BY <3>1, <3>2
    <2>3. reg'[B] = reg[B]
        BY <1>0, <1>42 DEF Push
    <2> QED BY <1>0, <1>42, <2>1, <2>2, <2>3, PushMoves DEF Held, Moved
<1>43. ASSUME Pop PROVE Held'
    <2>1. q.count \in 0..QueueSize
        BY DEF Typed, Data, Queue
    <2>2. at'[B] = "count" => reg'[B] = q.count - 1 /\ q.count > 0
        <3>1. CASE q.count = 0
            <4>1. Leave(B, "SLEEP", "head") \/ Go(B, "alock")
                BY <1>43, <3>1 DEF Pop
            <4> QED BY <1>0, <4>1 DEF Leave, Go, Code
        <3>2. CASE q.count # 0
            BY <1>0, <1>43, <2>1, <3>2 DEF Pop
        <3> QED BY <3>1, <3>2
    <2>3. reg'[A] = reg[A]
        BY <1>0, <1>43 DEF Pop
    <2> QED BY <1>0, <1>43, <2>1, <2>2, <2>3, PopMoves DEF Held, Moved
<1> HIDE DEF Quiet
<1> QED BY <1>1, <1>2, <1>3, <1>4, <1>5, <1>6, <1>7, <1>8, <1>9, <1>10, <1>11, <1>12, <1>13, <1>14,
           <1>15, <1>16, <1>17, <1>18, <1>19, <1>20, <1>21, <1>22, <1>23, <1>24, <1>25, <1>26, <1>27,
           <1>28, <1>29, <1>30, <1>40, <1>41, <1>42, <1>43 DEF Next, WorkerStep, VmStep, ShellStep

LEMMA TypedStep == Typed /\ [Next]_vars => Typed'
BY DataStep, CodeStep, HeldStep DEF Typed

-----------------------------------------------------------------------------
(* The console.                                                            *)

\* A step between labels at which a task does not have the console.
LEMMA CalmStep ==
    ASSUME Typed, Owned, rude' <=> rude, owner' = owner, shell' = shell,
           NEW t \in AppTasks, NEW l, l \notin Printing, l # "spin", NEW L, Moved(t, l, L),
           L \intersect Printing = {}, "spin" \notin L
    PROVE  Owned'
<1>1. at'[t] \notin Printing /\ at[t] \notin Printing /\ (at'[A] = "spin" <=> at[A] = "spin")
    BY Names DEF Moved
<1>2. \A u \in AppTasks : at'[u] \in Printing <=> at[u] \in Printing
    BY <1>1 DEF Moved
<1>3. \A u \in AppTasks : owner = u => state'[u] = state[u]
    BY <1>1 DEF Moved, Owned
<1> QED BY <1>1, <1>2, <1>3 DEF Owned

\* A command leaves every task at its label; none of them has the console.
LEMMA CommandStep ==
    ASSUME Typed, Owned, owner' = owner, shell \in Executing, shell' \in Executing, at' = at
    PROVE  Owned'
BY Names DEF Owned

LEMMA UnlockStep ==
    ASSUME Typed, Owned, rude' <=> rude, owner' = Nobody, shell' = shell,
           NEW t \in AppTasks, NEW l, l \in Printing, NEW L, Moved(t, l, L),
           L \intersect Printing = {}, "spin" \notin L
    PROVE  Owned'
<1>1. owner = t /\ shell \notin Executing
    BY Names DEF Moved, Owned
<1>2. \A u \in AppTasks : at'[u] \notin Printing
    BY <1>1 DEF Moved, Owned
<1> QED BY Names, <1>1, <1>2 DEF Owned

LEMMA OwnedStep == Typed /\ Owned /\ Faulty /\ [Next]_vars => Owned'
<1> SUFFICES ASSUME Typed, Owned, Faulty, [Next]_vars PROVE Owned'
    OBVIOUS
<1> USE Names
<1>0. rude' <=> rude
    BY MannerStays
<1>1. ASSUME NEW t \in AppTasks, Wake(t) PROVE Owned'
    BY <1>0, <1>1 DEF Wake, Owned, console, Typed, Code, States
<1>2. ASSUME NEW w \in Workers, LoopHead(w) PROVE Owned'
    BY <1>0, <1>2, LoopHeadMoves, CalmStep DEF LoopHead, Printing, Keep
<1>3. ASSUME NEW w \in Workers, Count(w) PROVE Owned'
    BY <1>0, <1>3, CountMoves, CalmStep DEF Count, Printing
<1>4. ASSUME NEW w \in Workers, Inc(w) PROVE Owned'
    BY <1>0, <1>4, IncMoves, CalmStep DEF Inc, Printing, Keep
<1>5. ASSUME NEW w \in Workers, Complete(w) PROVE Owned'
    BY <1>0, <1>5, CompleteMoves, CalmStep DEF Complete, Printing, KeepApp
<1>6. ASSUME NEW w \in Workers, Mark(w) PROVE Owned'
    BY <1>0, <1>6, MarkMoves, CalmStep DEF Mark, Printing
<1>7. ASSUME NEW w \in Workers, Join(w) PROVE Owned'
    BY <1>0, <1>7, JoinMoves, CalmStep DEF Join, Printing, Keep, KeepApp
<1>8. ASSUME NEW w \in Workers, Clear(w) PROVE Owned'
    BY <1>0, <1>8, ClearMoves, CalmStep DEF Clear, Printing
<1>9. ASSUME NEW w \in Workers, Park(w) PROVE Owned'
    BY <1>0, <1>9, ParkMoves, CalmStep DEF Park, Printing, Keep, KeepApp
<1>10. ASSUME NEW w \in Workers, PrintLine(w) PROVE Owned'
    BY <1>0, <1>10, PrintMoves, UnlockStep DEF PrintLine, Unlock, Keep, Printing
<1>11. ASSUME NEW w \in Workers, Said(w) PROVE Owned'
    BY <1>0, <1>11, SaidMoves, UnlockStep DEF Said, Unlock, Keep, Printing
<1>12. ASSUME Announced PROVE Owned'
    BY <1>0, <1>12, AnnouncedMoves, UnlockStep DEF Announced, Unlock, Keep, Printing
<1>13. ASSUME VmPrint PROVE Owned'
    BY <1>0, <1>13, VmPrintMoves, UnlockStep DEF VmPrint, Unlock, Keep, Printing
<1>14. ASSUME Push PROVE Owned'
    BY <1>0, <1>14, PushMoves, CalmStep DEF Push, Printing
<1>15. ASSUME Pop PROVE Owned'
    BY <1>0, <1>15, PopMoves, CalmStep DEF Pop, Printing
<1>16. ASSUME VmHead PROVE Owned'
    BY <1>0, <1>16, VmHeadMoves, CalmStep DEF VmHead, Printing, Keep
<1>17. ASSUME VmBurst PROVE Owned'
    BY <1>0, <1>17, VmBurstMoves, CalmStep DEF VmBurst, Printing
<1>18. ASSUME VmWaits PROVE Owned'
    BY <1>0, <1>18, VmWaitsMoves, CalmStep DEF VmWaits, Printing, Keep, KeepApp
<1>19. ASSUME KeyTyped PROVE Owned'
    BY <1>0, <1>19 DEF KeyTyped, KeepApp, Owned, Executing
<1>20. ASSUME Enter PROVE Owned'
    BY <1>0, <1>20 DEF Enter, tasks, Owned, Executing
<1>21. ASSUME Done PROVE Owned'
    BY <1>0, <1>21 DEF Done, tasks, Owned, Executing
<1>22. ASSUME OtherCommand PROVE Owned'
    BY <1>0, <1>22 DEF OtherCommand, tasks, Owned, Executing
<1>23. ASSUME Run PROVE Owned'
    BY <1>23, CommandStep DEF Run, Command, Stay, Executing
<1>24. ASSUME StopCheck PROVE Owned'
    BY <1>24, CommandStep DEF StopCheck, Command, Stay, Executing
<1>25. ASSUME StopFlag PROVE Owned'
    BY <1>25, CommandStep DEF StopFlag, Command, Stay, Executing
<1>26. ASSUME StopTasks PROVE Owned'
    BY <1>26, CommandStep DEF StopTasks, Command, Stay, Executing
<1>27. ASSUME Continue PROVE Owned'
    BY <1>27, CommandStep DEF Continue, Command, Stay, Executing
<1>28. ASSUME KillFlags PROVE Owned'
    BY <1>28, CommandStep DEF KillFlags, Command, Stay, Executing
<1>29. ASSUME KillTasks PROVE Owned'
    BY <1>29, CommandStep DEF KillTasks, Command, Stay, Executing
<1>30. ASSUME Compile PROVE Owned'
    BY <1>0, <1>30 DEF Compile, tasks, console, Owned
<1>31. ASSUME UNCHANGED vars PROVE Owned'
    BY <1>0, <1>31 DEF vars, tasks, console, Owned
<1>40. ASSUME NEW t \in AppTasks, ConsoleLock(t) PROVE Owned'
    <2>1. owner = Nobody /\ owner' = t /\ shell' = shell
        BY <1>40 DEF ConsoleLock, Keep
    <2>2. PICK l : l \in {"lock", "alock", "msglock"} /\ Moved(t, l, {"print", "blocked", "msg"})
        BY <1>40, LockMoves, Wider
    <2>3. at'[t] \in Printing /\ state'[t] = "READY" /\ at'[t] # "spin" /\ at[t] # "spin"
        BY <2>2 DEF Moved, Printing
    <2>4. \A u \in AppTasks : u # t => at'[u] = at[u] /\ at[u] \notin Printing
        BY <2>1, <2>2 DEF Moved, Owned
    <2> QED BY <1>0, <2>1, <2>3, <2>4 DEF Owned
<1>41. ASSUME Fault PROVE Owned'
    <2>1. owner' = owner /\ shell' = shell
        BY <1>41 DEF Fault, Keep
    <2>2. /\ at[A] = "load" /\ state[A] = "READY" /\ at'[A] = "spin" /\ state'[Vm] = state[Vm]
          /\ \A u \in AppTasks : u # A => at'[u] = at[u]
        BY <1>41, FaultMoves
    <2>3. owner # A
        BY <2>2 DEF Owned, Printing
    <2>4. ~rude => ~Active(B)
        BY <2>2 DEF Faulty
    <2>5. ~rude => owner # B
        BY <2>2, <2>4 DEF Owned, Active
    <2> QED BY <1>0, <2>1, <2>2, <2>3, <2>5 DEF Owned, Printing
<1> QED BY <1>1, <1>2, <1>3, <1>4, <1>5, <1>6, <1>7, <1>8, <1>9, <1>10, <1>11, <1>12, <1>13, <1>14,
           <1>15, <1>16, <1>17, <1>18, <1>19, <1>20, <1>21, <1>22, <1>23, <1>24, <1>25, <1>26, <1>27,
           <1>28, <1>29, <1>30, <1>31, <1>40, <1>41 DEF Next, WorkerStep, VmStep, ShellStep

-----------------------------------------------------------------------------
(* A fault, and a kill.                                                    *)

LEMMA MembersAre ==
    /\ \A y \in Types : Members(y) \subseteq AppTasks
    /\ Members("fault") = {A} /\ Members("loop") = {A} /\ Members("pipe") = {A}
    /\ Members("bytecode") = {Vm} /\ Members("threads") = Workers /\ Members("ipc") = Workers
BY Names DEF Members, TypesAll

\* Whoever is not active stays so, whichever task makes a step.
LEMMA OnlyActiveMove ==
    ASSUME NEW t \in AppTasks, NEW l, NEW L, Moved(t, l, L)
    PROVE  Active(t) /\ \A u \in AppTasks : ~Active(u) => ~Active(u)'
BY DEF Moved, Active

\* What the tasks do to the application: they end it, or nothing but count.
Calmly ==
    /\ app'.running => app.running
    /\ app'.type = app.type /\ app'.paused = app.paused
    /\ app'.status = 137 => app.status = 137
    /\ shell' = shell
Tasks == \/ \E t \in AppTasks : Wake(t)
         \/ \E w \in Workers : WorkerStep(w)
         \/ VmStep

LEMMA TasksCalm == ASSUME Typed, Tasks PROVE Calmly
<1>0. app \in App
    BY DEF Typed, Data
<1>1. ASSUME app' = app, shell' = shell PROVE Calmly
    BY <1>1 DEF Calmly
<1>2. \A t \in AppTasks : Wake(t) => Calmly
    BY <1>1 DEF Wake, console
<1>3. \A t \in AppTasks : ConsoleLock(t) => Calmly
    BY <1>1 DEF ConsoleLock, Keep
<1>4. \A w \in Workers : LoopHead(w) \/ Count(w) \/ PrintLine(w) => Calmly
    BY <1>1 DEF LoopHead, Count, PrintLine, Keep
<1>5. \A w \in Workers : Complete(w) \/ Join(w) \/ Said(w) \/ Park(w) => Calmly
    BY <1>1 DEF Complete, Join, Said, Park, Keep, KeepApp
<1>6. Push \/ Pop \/ Announced \/ VmHead \/ VmWaits \/ VmPrint => Calmly
    BY <1>1 DEF Push, Pop, Announced, VmHead, VmWaits, VmPrint, Keep, KeepApp
<1>7. ASSUME NEW w \in Workers, Inc(w) PROVE Calmly
    BY <1>0, <1>7 DEF Inc, App, Keep, Calmly
<1>8. ASSUME NEW w \in Workers, Mark(w) PROVE Calmly
    BY <1>0, <1>8 DEF Mark, App, Calmly
<1>9. ASSUME NEW w \in Workers, Clear(w) PROVE Calmly
    BY <1>0, <1>9 DEF Clear, App, Calmly
<1>10. ASSUME Fault PROVE Calmly
    BY <1>0, <1>10 DEF Fault, App, Keep, Calmly
<1>11. ASSUME VmBurst PROVE Calmly
    <2>1. app' = app \/ app' = [app EXCEPT !.running = FALSE, !.status = 0]
        BY <1>11 DEF VmBurst
    <2>2. shell' = shell
        BY <1>11 DEF VmBurst
    <2>3. CASE app' = [app EXCEPT !.running = FALSE, !.status = 0]
        BY <1>0, <2>2, <2>3 DEF App, Calmly
    <2> QED BY <1>1, <2>1, <2>2, <2>3
<1> QED BY Names, <1>2, <1>3, <1>4, <1>5, <1>6, <1>7, <1>8, <1>9, <1>10, <1>11 DEF Tasks, WorkerStep, VmStep

\* A step of a task that is nothing to a fault application.
LEMMA TaskStep ==
    ASSUME Typed, Faulty, rude' <=> rude, NEW t \in AppTasks, NEW l, NEW L, Moved(t, l, L),
           Calmly, doing' = doing, "load" \notin L,
           t = A /\ L \intersect {"lock", "print"} # {} => l \in {"lock", "print", "count"},
           t = A /\ L \intersect {"push", "count"} # {} => l = "push"
    PROVE  Faulty'
<1>1. Active(t) /\ \A u \in AppTasks : ~Active(u) => ~Active(u)'
    BY OnlyActiveMove
<1>2. ~rude => Outside'
    BY <1>1 DEF Faulty, Outside, Calmly
<1>3. at'[A] \in {"lock", "print", "load"} => at[A] \in {"lock", "print", "load", "count"}
    BY Names DEF Moved
<1>5. at'[A] \in {"push", "count"} => at[A] \in {"push", "count"}
    BY Names DEF Moved
<1>4. at'[A] = "load" => at[A] = "load"
    BY Names DEF Moved
<1> QED BY Names, <1>1, <1>2, <1>3, <1>4, <1>5 DEF Faulty

\* A polite command meets A at its head, or dead.
LEMMA PoliteFaulty ==
    ASSUME Typed, Faulty, rude' <=> rude, Met, at' = at, doing' = doing, ~rude => Outside'
    PROVE  Faulty'
BY Names DEF Faulty, Met

LEMMA FaultyStep == Typed /\ Faulty /\ [Next]_vars => Faulty'
<1> SUFFICES ASSUME Typed, Faulty, [Next]_vars PROVE Faulty'
    OBVIOUS
<1> USE Names
<1>0. rude' <=> rude
    BY MannerStays
<1>1. ASSUME NEW t \in AppTasks, Wake(t) PROVE Faulty'
    BY <1>0, <1>1 DEF Wake, Faulty, Outside, Active, Typed, Code
<1>2. ASSUME NEW t \in AppTasks, ConsoleLock(t) PROVE Faulty'
    BY <1>0, <1>2, LockMoves, TaskStep, TasksCalm DEF Tasks, WorkerStep, VmStep, ConsoleLock, Keep
<1>3. ASSUME NEW w \in Workers, Count(w) PROVE Faulty'
    BY <1>0, <1>3, CountMoves, TaskStep, TasksCalm DEF Tasks, WorkerStep, VmStep, Count
<1>4. ASSUME NEW w \in Workers, Complete(w) PROVE Faulty'
    BY <1>0, <1>4, CompleteMoves, TaskStep, TasksCalm DEF Tasks, WorkerStep, VmStep, Complete, KeepApp
<1>5. ASSUME NEW w \in Workers, Mark(w) PROVE Faulty'
    BY <1>0, <1>5, MarkMoves, TaskStep, TasksCalm DEF Tasks, WorkerStep, VmStep, Mark
<1>6. ASSUME NEW w \in Workers, Join(w) PROVE Faulty'
    BY <1>0, <1>6, JoinMoves, TaskStep, TasksCalm DEF Tasks, WorkerStep, VmStep, Join, Keep, KeepApp
<1>7. ASSUME NEW w \in Workers, Said(w) PROVE Faulty'
    BY <1>0, <1>7, SaidMoves, TaskStep, TasksCalm DEF Tasks, WorkerStep, VmStep, Said, Keep
<1>8. ASSUME NEW w \in Workers, Park(w) PROVE Faulty'
    BY <1>0, <1>8, ParkMoves, TaskStep, TasksCalm DEF Tasks, WorkerStep, VmStep, Park, Keep, KeepApp
<1>9. ASSUME NEW w \in Workers, Inc(w) PROVE Faulty'
    BY <1>0, <1>9, IncMoves, TaskStep, TasksCalm DEF Tasks, WorkerStep, VmStep, Inc, Keep
<1>10. ASSUME NEW w \in Workers, Clear(w) PROVE Faulty'
    BY <1>0, <1>10, ClearMoves, TaskStep, TasksCalm DEF Tasks, WorkerStep, VmStep, Clear
<1>11. ASSUME Push PROVE Faulty'
    BY <1>0, <1>11, PushMoves, TaskStep, TasksCalm DEF Tasks, WorkerStep, VmStep, Push
<1>12. ASSUME Pop PROVE Faulty'
    BY <1>0, <1>12, PopMoves, TaskStep, TasksCalm DEF Tasks, WorkerStep, VmStep, Pop
<1>13. ASSUME Announced PROVE Faulty'
    BY <1>0, <1>13, AnnouncedMoves, TaskStep, TasksCalm DEF Tasks, WorkerStep, VmStep, Announced, Keep
<1>14. ASSUME VmHead PROVE Faulty'
    BY <1>0, <1>14, VmHeadMoves, TaskStep, TasksCalm DEF Tasks, WorkerStep, VmStep, VmHead, Keep
<1>15. ASSUME VmBurst PROVE Faulty'
    BY <1>0, <1>15, VmBurstMoves, TaskStep, TasksCalm DEF Tasks, WorkerStep, VmStep, VmBurst
<1>16. ASSUME VmWaits PROVE Faulty'
    BY <1>0, <1>16, VmWaitsMoves, TaskStep, TasksCalm DEF Tasks, WorkerStep, VmStep, VmWaits, Keep, KeepApp
<1>17. ASSUME VmPrint PROVE Faulty'
    BY <1>0, <1>17, VmPrintMoves, TaskStep, TasksCalm DEF Tasks, WorkerStep, VmStep, VmPrint, Keep
<1>18. ASSUME KeyTyped PROVE Faulty'
    BY <1>0, <1>18 DEF KeyTyped, KeepApp, Faulty, Outside, Active
<1>19. ASSUME Enter PROVE Faulty'
    BY <1>0, <1>19 DEF Enter, tasks, Faulty, Outside, Active
<1>20. ASSUME Done PROVE Faulty'
    BY <1>0, <1>20 DEF Done, tasks, Faulty, Outside, Active
<1>21. ASSUME OtherCommand PROVE Faulty'
    BY <1>0, <1>21 DEF OtherCommand, tasks, Faulty, Outside, Active
<1>22. ASSUME StopCheck PROVE Faulty'
    BY <1>0, <1>22, PoliteFaulty DEF StopCheck, Command, Stay, Faulty, Outside, Active
<1>23. ASSUME UNCHANGED vars PROVE Faulty'
    BY <1>0, <1>23 DEF vars, tasks, Faulty, Outside, Active
<1>40. ASSUME NEW w \in Workers, LoopHead(w) PROVE Faulty'
    <2>1. Moved(w, "head", {"head", "pop", "complete", "push", "lock"}) /\ app' = app
        BY <1>40, LoopHeadMoves DEF LoopHead
    <2>2. \A u \in AppTasks : ~Active(u) => ~Active(u)'
        BY <2>1, OnlyActiveMove
    <2>3. ~rude => Outside'
        BY <2>1, <2>2 DEF Faulty, Outside
    <2>4. \A u \in Workers : u # w => doing'[u] = doing[u] /\ at'[u] = at[u]
        BY <1>40, <2>1 DEF LoopHead, Typed, Data, Moved
    <2>5. ~Mine(w) => at'[w] = "head"
        BY <1>40 DEF LoopHead, Leave, Typed, Code
    <2>6. Mine(w) => doing'[w] = app.type
        BY <1>40 DEF LoopHead, Typed, Data
    <2>7. CASE w = A
        <3>2. at'[A] \in {"push", "count"} => doing'[A] # "fault"
            <4>1. CASE Mine(w) /\ app.type = "fault"
                <5>1. Leave(w, "SLEEP", "head") \/ Go(w, "lock")
                    BY <1>40, <2>7, <4>1 DEF LoopHead
                <5> QED BY <2>7, <5>1 DEF Leave, Go, Typed, Code
            <4> QED BY <2>5, <2>6, <2>7, <4>1
        <3>1. at'[A] # "load" /\ (at'[A] \in {"lock", "print", "load"} /\ doing'[A] = "fault" /\ ~rude => ~Active(B))
            BY <2>1, <2>5, <2>6, <2>7, MembersAre DEF Moved, Mine, Faulty, Outside
        <3> QED BY <1>0, <2>2, <2>3, <3>1, <3>2 DEF Faulty
    <2>8. CASE w = B
        <3>1. at'[A] = at[A] /\ doing'[A] = doing[A]
            BY <2>4, <2>8
        <3> QED BY <1>0, <2>2, <2>3, <3>1 DEF Faulty
    <2> QED BY <2>7, <2>8
<1>41. ASSUME NEW w \in Workers, PrintLine(w) PROVE Faulty'
    <2>1. Moved(w, "print", {"load", "inc"}) /\ app' = app /\ doing' = doing
        BY <1>41, PrintMoves DEF PrintLine
    <2>2. \A u \in AppTasks : ~Active(u) => ~Active(u)'
        BY <2>1, OnlyActiveMove
    <2>3. ~rude => Outside'
        BY <2>1, <2>2 DEF Faulty, Outside
    <2>4. at'[A] = "load" => doing[A] = "fault"
        <3>1. CASE w = A
            BY <1>41, <3>1 DEF PrintLine, Go, Typed, Code
        <3>2. CASE w # A
            BY <2>1, <3>2 DEF Moved, Faulty
        <3> QED BY <3>1, <3>2
    <2>5. at'[A] \in {"lock", "print", "load"} => at[A] \in {"lock", "print", "load"}
        BY <2>1 DEF Moved
    <2>6. at'[A] \in {"push", "count"} => at[A] \in {"push", "count"}
        BY <2>1 DEF Moved
    <2> QED BY <1>0, <2>1, <2>2, <2>3, <2>4, <2>5, <2>6 DEF Faulty
<1>42. ASSUME Fault PROVE Faulty'
    <2>1. at'[A] = "spin" /\ ~app'.running
        BY <1>42, FaultMoves DEF Fault, Typed, Data, App
    <2> QED BY <2>1 DEF Faulty, Outside
<1>43. ASSUME Run PROVE Faulty'
    <2>1. state' = Readied(Blocked, Members(store)) /\ app'.type = store
        BY <1>43 DEF Run
    <2>2. Outside'
        BY <2>1 DEF Outside, Readied, Blocked, Active
    <2> QED BY <1>0, <1>43, <2>2, PoliteFaulty DEF Run, Command, Stay
<1>44. ASSUME StopFlag PROVE Faulty'
    <2>1. app'.running = app.running /\ app'.type = app.type /\ state' = state
        BY <1>44 DEF StopFlag, Typed, Data, App
    <2>2. ~rude => Outside'
        BY <2>1 DEF Faulty, Outside, Active
    <2> QED BY <1>0, <1>44, <2>2, PoliteFaulty DEF StopFlag, Command, Stay
<1>45. ASSUME StopTasks PROVE Faulty'
    <2>1. Outside'
        BY <1>45 DEF StopTasks, Outside, Active
    <2> QED BY <1>0, <1>45, <2>1, PoliteFaulty DEF StopTasks, Command, Stay
<1>46. ASSUME Continue PROVE Faulty'
    <2>1. app'.running = app.running /\ app'.type = app.type /\ state' = Readied(state, Stopped(app.type))
        BY <1>46 DEF Continue, Typed, Data, App
    <2>2. Stopped(app.type) = Members(app.type)
        BY MembersAre DEF Stopped, Members
    <2>3. ~rude => Outside'
        BY <2>1, <2>2 DEF Faulty, Outside, Active, Readied
    <2> QED BY <1>0, <1>46, <2>3, PoliteFaulty DEF Continue, Command, Stay
<1>47. ASSUME KillFlags PROVE Faulty'
    <2>1. ~app'.running
        BY <1>47 DEF KillFlags, Typed, Data, App
    <2> QED BY <1>0, <1>47, <2>1, PoliteFaulty DEF KillFlags, Command, Stay, Outside
<1>48. ASSUME KillTasks PROVE Faulty'
    <2>1. Outside'
        BY <1>48 DEF KillTasks, Outside, Active, Blocked
    <2> QED BY <1>0, <1>48, <2>1, PoliteFaulty DEF KillTasks, Command, Stay
<1>49. ASSUME Compile PROVE Faulty'
    <2>1. app'.running = app.running /\ state' = state /\ at' = at /\ doing' = doing
        BY <1>49 DEF Compile, tasks, Typed, Data, App
    <2>2. CASE rude
        BY <1>0, <2>1, <2>2 DEF Faulty
    <2>3. CASE ~rude
        <3>1. Met /\ ~app.running
            BY <1>49, <2>3 DEF Compile
        <3> QED BY <1>0, <2>1, <3>1, PoliteFaulty DEF Outside
    <2> QED BY <2>2, <2>3
<1> QED BY <1>1, <1>2, <1>3, <1>4, <1>5, <1>6, <1>7, <1>8, <1>9, <1>10, <1>11, <1>12, <1>13, <1>14,
           <1>15, <1>16, <1>17, <1>18, <1>19, <1>20, <1>21, <1>22, <1>23, <1>40, <1>41, <1>42, <1>43,
           <1>44, <1>45, <1>46, <1>47, <1>48, <1>49 DEF Next, WorkerStep, VmStep, ShellStep

\* A task that makes a step is not BLOCKED.
LEMMA SomebodyRuns == ASSUME Tasks PROVE \E t \in AppTasks : state[t] # "BLOCKED"
BY Names DEF Tasks, Wake, WorkerStep, VmStep, Runs, LoopHead, ConsoleLock, Count, PrintLine, Inc,
    Complete, Mark, Join, Clear, Said, Park, Push, Fault, Pop, Announced, VmHead, VmBurst, VmWaits, VmPrint

LEMMA KilledStep == Typed /\ Killed /\ [Next]_vars => Killed'
<1> SUFFICES ASSUME Typed, Killed, [Next]_vars PROVE Killed'
    OBVIOUS
<1>0. app \in App
    BY DEF Typed, Data
<1>1. CASE Tasks
    <2>1. app.status # 137
        BY <1>1, SomebodyRuns DEF Killed
    <2> QED BY <1>1, <2>1, TasksCalm DEF Calmly, Killed
<1>2. CASE KeyTyped
    BY <1>0, <1>2 DEF KeyTyped, KeepApp, Killed
<1>3. CASE Enter
    BY <1>0, <1>3 DEF Enter, tasks, Killed
<1>4. CASE Done
    BY <1>0, <1>4 DEF Done, tasks, Killed
<1>5. CASE OtherCommand
    BY <1>0, <1>5 DEF OtherCommand, tasks, Killed
<1>6. CASE Run
    BY <1>0, <1>6 DEF Run, Command, App, Killed
<1>7. CASE StopCheck
    BY <1>0, <1>7 DEF StopCheck, Command, App, Killed
<1>8. CASE StopFlag
    BY <1>0, <1>8 DEF StopFlag, Command, App, Killed
<1>9. CASE StopTasks
    BY <1>0, <1>9 DEF StopTasks, Command, App, Killed
<1>10. CASE Continue
    BY <1>0, <1>10 DEF Continue, Command, App, Killed
<1>11. CASE KillFlags
    BY <1>0, <1>11 DEF KillFlags, Command, App, Killed
<1>12. CASE KillTasks
    BY <1>0, <1>12 DEF KillTasks, Command, App, Killed, Blocked
<1>13. CASE Compile
    BY <1>0, <1>13 DEF Compile, tasks, console, App, Killed
<1>14. CASE UNCHANGED vars
    BY <1>14 DEF vars, tasks, console, Killed
<1> QED BY <1>1, <1>2, <1>3, <1>4, <1>5, <1>6, <1>7, <1>8, <1>9, <1>10, <1>11, <1>12, <1>13,
           <1>14 DEF Next, Tasks, ShellStep

LEMMA SoundInit == Init => SoundInv
<1> SUFFICES ASSUME Init PROVE SoundInv
    OBVIOUS
<1>1. Typed
    BY InitTyped
<1>2. /\ \A t \in AppTasks : at[t] = "head" /\ state[t] = "BLOCKED"
      /\ owner = Nobody /\ shell = "read" /\ app.running = FALSE /\ app.status = 0
    BY DEF Init
<1>3. Owned
    BY <1>2, Names DEF Owned, Printing, Executing
<1>4. Faulty
    BY <1>2, Names DEF Faulty, Outside
<1>5. Killed
    BY <1>2 DEF Killed
<1> QED BY <1>1, <1>3, <1>4, <1>5 DEF SoundInv

LEMMA SoundInvariant == Spec => []SoundInv
<1>1. SoundInv /\ [Next]_vars => SoundInv'
    BY TypedStep, OwnedStep, FaultyStep, KilledStep DEF SoundInv
<1> QED BY SoundInit, <1>1, PTL DEF Spec

\* However commands, faults, compiles and the two workers interleave, the flags,
\* counters and queue of the demo application keep their ranges, and whoever owns the
\* console is READY where it prints: nobody is stopped or killed while it holds
\* console_lock (shell_execute, demo_block_task, HardFault_C; the exception
\* is the one that ConsoleHolderRuns names).
THEOREM AppStaysSound == Spec => []AppSound
<1>1. SoundInv => AppSound
    <2> SUFFICES ASSUME SoundInv PROVE AppSound
        OBVIOUS
    <2>1. TypeOK
        BY DEF SoundInv, Typed, Data, Code, App, Queue, TypeOK, States
    <2>2. ConsoleHolderRuns
        BY DEF SoundInv, Owned, ConsoleHolderRuns
    <2> QED BY <2>1, <2>2 DEF AppSound
<1> QED BY SoundInvariant, <1>1, PTL

\* Once kill has set status 137, all tasks of the application stay BLOCKED and it does
\* not run, until demo_start: no late wake-up or half-done stop revives one (demo_stop).
THEOREM DeadAfterKill == Spec => []KilledStaysDead
<1>1. SoundInv => KilledStaysDead
    BY DEF SoundInv, Killed, KilledStaysDead
<1> QED BY SoundInvariant, <1>1, PTL

-----------------------------------------------------------------------------
(* A polite application, from its start to its end.                        *)

\* The stores of the queue's count and of g_app_running are not preempted.
WholeSteps == {"count", "clear"} \subseteq Unsplit

LEMMA Undivided ==
    ASSUME WholeSteps, NEW t, NEW l, NEW L, Moved(t, l, L), NEW w \in Workers, w # t
    PROVE  at[w] \notin {"count", "clear"}
BY DEF WholeSteps, Moved, Split

\* Places in the ring.
LEMMA Ring ==
    ASSUME NEW h \in 0..QueueSize-1
    PROVE  /\ \A j \in 0..QueueSize : Place(h, j) \in 0..QueueSize-1
           /\ \A j, n \in 0..QueueSize-1 : j # n => Place(h, j) # Place(h, n)
           /\ \A j \in 0..QueueSize-1 : (Place(h, j) + 1) % QueueSize = Place(h, j + 1)
           /\ \A j \in 0..QueueSize-1 : Place((h + 1) % QueueSize, j) = Place(h, j + 1)
           /\ (h + 1) % QueueSize \in 0..QueueSize-1 /\ Place(h, 0) = h
<1>1. QueueSize \in Nat /\ QueueSize > 0
    BY Names
<1>2. \A x \in 0..QueueSize-1 : (x + 1) % QueueSize = IF x = QueueSize - 1 THEN 0 ELSE x + 1
    <2> TAKE x \in 0..QueueSize-1
    <2>1. CASE x = QueueSize - 1
        <3>1. QueueSize % QueueSize = 0
            BY <1>1
        <3> QED BY <2>1, <3>1, <1>1
    <2>2. CASE x # QueueSize - 1
        <3>1. x + 1 \in 0..QueueSize-1
            BY <1>1, <2>2
        <3> DEFINE y == x + 1
        <3> HIDE DEF y
        <3>2. y \in 0..QueueSize-1 => y % QueueSize = y
            BY <1>1
        <3> QED BY <2>2, <3>1, <3>2 DEF y
    <2> QED BY <2>1, <2>2
<1>3. \A j \in 0..QueueSize : Place(h, j) \in 0..QueueSize-1
    BY <1>1 DEF Place
<1>4. \A j, n \in 0..QueueSize-1 : j # n => Place(h, j) # Place(h, n)
    BY <1>1 DEF Place
<1>5. ASSUME NEW j \in 0..QueueSize-1 PROVE (Place(h, j) + 1) % QueueSize = Place(h, j + 1)
    <2>1. Place(h, j) \in 0..QueueSize-1
        BY <1>1, <1>3
    <2>2. (Place(h, j) + 1) % QueueSize = IF Place(h, j) = QueueSize - 1 THEN 0 ELSE Place(h, j) + 1
        BY <1>2, <2>1
    <2> QED BY <1>1, <2>2 DEF Place
<1>6. ASSUME NEW j \in 0..QueueSize-1 PROVE Place((h + 1) % QueueSize, j) = Place(h, j + 1)
    <2>1. (h + 1) % QueueSize = IF h = QueueSize - 1 THEN 0 ELSE h + 1
        BY <1>2
    <2> QED BY <1>1, <2>1 DEF Place
<1>7. (h + 1) % QueueSize \in 0..QueueSize-1 /\ Place(h, 0) = h
    BY <1>1, <1>2 DEF Place
<1> QED BY <1>3, <1>4, <1>5, <1>6, <1>7

\* Only what the step does to its own task matters.
Frame(t) == \A u \in Workers : u # t => reg'[u] = reg[u] /\ doing'[u] = doing[u]

LEMMA MemberMoves ==
    ASSUME Typed, Running, NEW t \in AppTasks, NEW l, NEW L, Moved(t, l, L)
    PROVE  t \in Members(started) /\ (t \in Workers => Progress(t))
BY DEF Running, Apart, Active, Moved

LEMMA ApartStays ==
    ASSUME Typed, Running, NEW t \in AppTasks, NEW l, NEW L, Moved(t, l, L), started' = started
    PROVE  Apart'
<1>1. t \in Members(started)
    BY MemberMoves
<1> QED BY <1>1, OnlyActiveMove DEF Running, Apart, Moved

LEMMA ProgressStays ==
    ASSUME NEW u \in Workers, Progress(u), at'[u] = at[u], doing'[u] = doing[u],
           Counter(u)' = Counter(u), started' = started
    PROVE  Progress(u)'
BY DEF Progress, Full

LEMMA HandedSame ==
    ASSUME Handed, Counted, app'.a = app.a, app'.b = app.b, got' = got, q' = q,
           \A w \in Workers : InHand(w)' = InHand(w),
           \A w \in Workers : (at'[w] = "count" <=> at[w] = "count") /\ (at[w] = "count" => reg'[w] = reg[w])
    PROVE  Handed' /\ Counted'
<1>1. Pushed' = Pushed /\ InHand(B)' = InHand(B)
    BY Names DEF Pushed
<1>2. Handed'
    BY <1>1 DEF Handed
<1>3. Counted'
    BY <1>1, Names DEF Counted
<1> QED BY <1>2, <1>3

\* A step that leaves the counters and the queue alone.
LEMMA Onward ==
    ASSUME Typed, Running, NEW t \in AppTasks, NEW l, NEW L, Moved(t, l, L), Frame(t),
           app' = app, started' = started, joins' = joins, got' = got, q' = q,
           t \in Workers => Progress(t)',
           t \in Workers /\ at'[t] = "mark" => \A u \in Workers : Has(reg'[t], u) => Full(u),
           t \in Workers /\ at'[t] = "clear" => app.done = Expected(started),
           l # "count", "count" \notin L, started = "ipc" /\ t \in Workers => InHand(t)' = InHand(t)
    PROVE  Running'
<1>1. Apart'
    BY ApartStays
<1>2. Begun'
    BY DEF Begun, Running
<1>3. \A u \in Workers : Counter(u)' = Counter(u) /\ Full(u)' = Full(u)
    BY DEF Counter, Full
<1>4. \A u \in Workers : u # t => at'[u] = at[u] /\ reg'[u] = reg[u] /\ doing'[u] = doing[u]
    BY Names DEF Frame, Moved
<1>5. \A u \in Workers \intersect Members(started) : Progress(u)'
    BY <1>3, <1>4, ProgressStays DEF Running
<1>6. Honest'
    <2>1. \A u \in Workers : Has(app'.done, u) => Full(u)'
        BY <1>3 DEF Running, Honest
    <2>2. \A w, u \in Workers : at'[w] = "mark" /\ Has(reg'[w], u) => Full(u)'
        BY <1>3, <1>4 DEF Running, Honest
    <2>3. \A w \in Workers : at'[w] = "clear" => app'.done = Expected(started')
        BY <1>4 DEF Running, Honest
    <2> QED BY <2>1, <2>2, <2>3 DEF Honest
<1>7. started = "ipc" => Handed' /\ Counted'
    <2> SUFFICES ASSUME started = "ipc" PROVE Handed' /\ Counted'
        OBVIOUS
    <2>1. \A w \in Workers : InHand(w)' = InHand(w)
        BY <1>4 DEF InHand
    <2>2. \A w \in Workers : (at'[w] = "count" <=> at[w] = "count") /\ (at[w] = "count" => reg'[w] = reg[w])
        BY <1>4 DEF Moved
    <2> QED BY <2>1, <2>2, HandedSame DEF Running
<1> QED BY <1>1, <1>2, <1>5, <1>6, <1>7 DEF Running

\* What the head of the loop decides.
LEMMA LoopHeads ==
    ASSUME Typed, NEW w \in Workers, LoopHead(w), at'[w] # "head"
    PROVE  /\ Mine(w) /\ doing'[w] = app.type
           /\ at'[w] = "pop" => app.type = "ipc" /\ w = B
           /\ at'[w] = "complete" => ~(Counter(w) < Goal(app.type))
           /\ at'[w] = "push" => app.type = "ipc" /\ Counter(w) < Goal(app.type)
           /\ at'[w] = "lock" => app.type # "ipc" /\ (app.type = "fault" \/ Counter(w) < Goal(app.type))
<1>1. Mine(w) /\ ~Waits(w)
    BY Names DEF LoopHead, Leave, Typed, Code
<1>2. doing'[w] = app.type
    BY <1>1 DEF LoopHead, Typed, Data
<1>3. Counter(w) \in Nat /\ Goal(app.type) \in Nat
    BY Names DEF Counter, Goal, Typed, Data, App
<1>4. at'[w] = IF app.type = "ipc" /\ w = B THEN "pop"
               ELSE IF app.type # "fault" /\ Counter(w) >= Goal(app.type) THEN "complete"
               ELSE IF app.type = "ipc" THEN "push" ELSE "lock"
    BY <1>1, Names DEF LoopHead, Go, Typed, Code
<1>5. CASE app.type = "ipc" /\ w = B
    BY <1>1, <1>2, <1>4, <1>5
<1>6. CASE ~(app.type = "ipc" /\ w = B) /\ app.type # "fault" /\ Counter(w) >= Goal(app.type)
    BY <1>1, <1>2, <1>3, <1>4, <1>6
<1>7. CASE ~(app.type = "ipc" /\ w = B) /\ ~(app.type # "fault" /\ Counter(w) >= Goal(app.type))
    BY <1>1, <1>2, <1>3, <1>4, <1>7
<1> QED BY <1>5, <1>6, <1>7

LEMMA LoopHeadRuns ==
    ASSUME Typed, Running, NEW w \in Workers, LoopHead(w) PROVE Running'
<1>0. /\ Moved(w, "head", {"head", "pop", "complete", "push", "lock"}) /\ app' = app /\ q' = q
      /\ started' = started /\ joins' = joins /\ got' = got /\ Frame(w)
    BY LoopHeadMoves DEF LoopHead, Keep, history, Frame, Typed, Data
<1>1. w \in AppTasks /\ w \in Members(started) /\ Progress(w) /\ app.type = started
    BY <1>0, Names, MemberMoves DEF Running, Begun
<1>2. Counter(w)' = Counter(w) /\ Counter(w) \in Nat /\ Goal(started) \in Nat /\ Goal(started) > 0
    BY <1>0, Names DEF Counter, Goal, Typed, Data, App
<1>3. CASE at'[w] = "head"
    <2>1. Progress(w)' /\ InHand(w)' = InHand(w)
        BY <1>0, <1>1, <1>2, <1>3 DEF Progress, Busy, InHand, Moved
    <2> QED BY <1>0, <1>1, <1>3, <2>1, Onward
<1>4. CASE at'[w] # "head"
    <2>1. /\ doing'[w] = started
          /\ at'[w] = "pop" => started = "ipc"
          /\ at'[w] = "complete" => ~(Counter(w) < Goal(started))
          /\ at'[w] = "push" => Counter(w) < Goal(started)
          /\ at'[w] = "lock" => started # "ipc" /\ (started = "fault" \/ Counter(w) < Goal(started))
        BY <1>1, <1>4, LoopHeads
    <2>2. started = "fault" => Counter(w) = 0
        BY <1>1, MembersAre DEF Running, Begun, Counter
    <2>3. at'[w] \in {"pop", "complete", "push", "lock"}
        BY <1>0, <1>4 DEF Moved
    <2>4. Progress(w)'
        BY <1>0, <1>1, <1>2, <2>1, <2>2, <2>3 DEF Progress, Full, Busy
    <2>5. started = "ipc" => InHand(w)' = InHand(w)
        BY <1>0, <2>1, <2>3 DEF InHand, Moved
    <2> QED BY <1>0, <1>1, <2>3, <2>4, <2>5, Onward
<1> QED BY <1>3, <1>4

\* A step of a worker that keeps its place in the work.
LEMMA ProgressOn ==
    ASSUME NEW w \in Workers, Progress(w), doing'[w] = doing[w], Counter(w)' = Counter(w), started' = started,
           at'[w] \notin {"head", "spin"} => at[w] \notin {"head", "spin"},
           at'[w] \in Busy => at[w] \in Busy,
           at'[w] \in {"complete", "mark", "join", "clear"} => at[w] \in {"complete", "mark", "join", "clear"},
           at'[w] = "pop" => at[w] = "pop", at'[w] = "inc" => doing[w] # "fault"
    PROVE  Progress(w)'
BY DEF Progress, Full, Busy

LEMMA ConsoleLockRuns ==
    ASSUME Typed, Running, NEW t \in AppTasks, ConsoleLock(t) PROVE Running'
<1>0. /\ app' = app /\ q' = q /\ doing' = doing /\ reg' = reg
      /\ started' = started /\ joins' = joins /\ got' = got /\ Frame(t)
    BY DEF ConsoleLock, Keep, history, Frame
<1>1. \A w \in Workers : Counter(w)' = Counter(w)
    BY <1>0 DEF Counter
<1>2. ASSUME NEW l \in {"lock", "alock", "msglock"}, NEW m \in {"print", "blocked", "msg"}, Moved(t, l, {m}),
             <<l, m>> \in {<<"lock", "print">>, <<"alock", "blocked">>, <<"msglock", "msg">>}
      PROVE  Running'
    <2>1. at[t] = l /\ at'[t] = m
        BY <1>2 DEF Moved
    <2>2. t \in Workers => Progress(t)
        BY <1>2, MemberMoves
    <2>3. t \in Workers => Progress(t)'
        BY <1>0, <1>1, <1>2, <2>1, <2>2, ProgressOn DEF Busy
    <2>4. t \in Workers => InHand(t)' = InHand(t)
        BY <1>2, <2>1 DEF InHand
    <2> QED BY <1>0, <1>2, <2>1, <2>3, <2>4, Onward
<1>3. CASE Moved(t, "lock", {"print"})
    BY <1>2, <1>3
<1>4. CASE Moved(t, "alock", {"blocked"})
    BY <1>2, <1>4
<1>5. CASE Moved(t, "msglock", {"msg"})
    BY <1>2, <1>5
<1> QED BY <1>3, <1>4, <1>5, LockMoves

LEMMA PrintLineRuns ==
    ASSUME Typed, Running, NEW w \in Workers, PrintLine(w) PROVE Running'
<1>0. /\ app' = app /\ q' = q /\ doing' = doing /\ reg' = reg
      /\ started' = started /\ joins' = joins /\ got' = got /\ Frame(w)
    BY DEF PrintLine, Keep, history, Frame
<1>1. Moved(w, "print", {"load", "inc"}) /\ w \in AppTasks
    BY Names, PrintMoves
<1>2. Counter(w)' = Counter(w)
    BY <1>0 DEF Counter
<1>3. at[w] = "print" /\ at'[w] \in {"load", "inc"} /\ Progress(w)
    BY <1>1, MemberMoves DEF Moved
<1>4. at'[w] = IF doing[w] = "fault" THEN "load" ELSE "inc"
    BY <1>1 DEF PrintLine, Go, Typed, Code
<1>5. doing[w] = started
    BY <1>3 DEF Progress
<1>6. Progress(w)'
    BY <1>0, <1>2, <1>3, <1>4, ProgressOn DEF Busy
<1>7. started = "ipc" => InHand(w)' = InHand(w)
    BY <1>3, <1>4, <1>5 DEF InHand
<1> QED BY <1>0, <1>1, <1>3, <1>6, <1>7, Onward

LEMMA CompleteRuns ==
    ASSUME Typed, Running, NEW w \in Workers, Complete(w) PROVE Running'
<1>0. /\ app' = app /\ q' = q /\ doing' = doing
      /\ started' = started /\ joins' = joins /\ got' = got /\ Frame(w)
    BY DEF Complete, KeepApp, history, Frame, Typed, Data
<1>1. Moved(w, "complete", {"join", "mark"}) /\ w \in AppTasks
    BY Names, CompleteMoves
<1>2. Counter(w)' = Counter(w)
    BY <1>0 DEF Counter
<1>3. at[w] = "complete" /\ at'[w] \in {"join", "mark"} /\ Progress(w)
    BY <1>1, MemberMoves DEF Moved
<1>4. Progress(w)' /\ Full(w)
    BY <1>0, <1>2, <1>3, ProgressOn DEF Busy, Progress
<1>5. ASSUME at'[w] = "mark", NEW u \in Workers, Has(reg'[w], u) PROVE Full(u)
    <2>1. ~Marked(w)
        BY <1>1, <1>5 DEF Complete, Go, Typed, Code
    <2>2. ~Has(app.done, w) /\ app.done \in 0..3
        BY <2>1 DEF Marked, Has, Typed, Data, App
    <2>3. reg'[w] = app.done + Bit(w)
        BY <2>1 DEF Complete, Typed, Data
    <2>4. u = w \/ Has(app.done, u)
        BY <1>5, <2>2, <2>3, Marks
    <2> QED BY <1>4, <2>4 DEF Running, Honest
<1>6. InHand(w)' = InHand(w)
    BY <1>3 DEF InHand
<1> QED BY <1>0, <1>1, <1>3, <1>4, <1>5, <1>6, Onward

LEMMA JoinRuns ==
    ASSUME Typed, Running, NEW w \in Workers, Join(w) PROVE Running'
<1>0. /\ app' = app /\ q' = q /\ doing' = doing /\ reg' = reg
      /\ started' = started /\ joins' = joins /\ got' = got /\ Frame(w)
    BY DEF Join, KeepApp, Keep, history, Frame
<1>1. Moved(w, "join", {"clear", "park"}) /\ w \in AppTasks
    BY Names, JoinMoves
<1>2. Counter(w)' = Counter(w)
    BY <1>0 DEF Counter
<1>3. at[w] = "join" /\ at'[w] \in {"clear", "park"} /\ Progress(w)
    BY <1>1, MemberMoves DEF Moved
<1>4. Progress(w)' /\ doing[w] = started
    BY <1>0, <1>2, <1>3, ProgressOn DEF Busy, Progress
<1>5. at'[w] = "clear" => app.done = Expected(started)
    BY <1>1, <1>4 DEF Join, Go, Typed, Code
<1>6. InHand(w)' = InHand(w)
    BY <1>3 DEF InHand
<1> QED BY <1>0, <1>1, <1>3, <1>4, <1>5, <1>6, Onward

LEMMA SaidRuns ==
    ASSUME Typed, Running, NEW w \in Workers, Said(w) \/ Park(w) PROVE Running'
<1>0. /\ app' = app /\ q' = q /\ doing' = doing /\ reg' = reg
      /\ started' = started /\ joins' = joins /\ got' = got /\ Frame(w)
    BY DEF Said, Park, KeepApp, Keep, history, Frame
<1>1. (Moved(w, "msg", {"park"}) \/ Moved(w, "park", {"head"})) /\ w \in AppTasks
    BY Names, SaidMoves, ParkMoves
<1>2. Counter(w)' = Counter(w)
    BY <1>0 DEF Counter
<1>3. at[w] \in {"msg", "park"} /\ at'[w] \in {"park", "head"} /\ Progress(w)
    BY <1>1, MemberMoves DEF Moved
<1>4. Progress(w)'
    BY <1>0, <1>2, <1>3, ProgressOn DEF Busy
<1>6. InHand(w)' = InHand(w)
    BY <1>3 DEF InHand
<1> QED BY <1>0, <1>1, <1>3, <1>4, <1>6, Onward

LEMMA AnnouncedRuns ==
    ASSUME Typed, Running, Announced PROVE Running'
<1>0. /\ app' = app /\ q' = q /\ doing' = doing /\ reg' = reg
      /\ started' = started /\ joins' = joins /\ got' = got /\ Frame(B)
    BY DEF Announced, Keep, history, Frame
<1>1. Moved(B, "blocked", {"head"}) /\ B \in Workers /\ B \in AppTasks
    BY Names, AnnouncedMoves
<1>2. Counter(B)' = Counter(B)
    BY <1>0 DEF Counter
<1>3. at[B] = "blocked" /\ at'[B] = "head" /\ Progress(B)
    BY <1>1, MemberMoves DEF Moved
<1>4. Progress(B)'
    BY <1>0, <1>1, <1>2, <1>3, ProgressOn DEF Busy
<1>6. InHand(B)' = InHand(B)
    BY <1>3 DEF InHand
<1> QED BY <1>0, <1>1, <1>3, <1>4, <1>6, Onward

\* The VM, until its HALT.
LEMMA VmRuns ==
    ASSUME Typed, app.running, Running, VmHead \/ VmWaits \/ VmPrint \/ (VmBurst /\ app' = app) PROVE Running'
<1>0. Vm \in AppTasks /\ Vm \notin Workers
    BY Names
<1>1. /\ app' = app /\ q' = q /\ doing' = doing /\ reg' = reg /\ started' = started /\ got' = got
    BY DEF VmHead, VmWaits, VmPrint, VmBurst, KeepApp, Keep, history
<1>2. joins' = joins
    <2>1. CASE VmBurst /\ app' = app
        <3> SUFFICES ASSUME joins' # joins PROVE FALSE
            OBVIOUS
        <3>1. app' = [app EXCEPT !.running = FALSE, !.status = 0]
            BY <2>1 DEF VmBurst, history
        <3>2. ~app'.running
            BY <3>1 DEF Typed, Data, App
        <3> QED BY <2>1, <3>2
    <2> QED BY <2>1 DEF VmHead, VmWaits, VmPrint, KeepApp, Keep, history
<1>3. Frame(Vm)
    BY <1>1 DEF Frame
<1>4. PICK l, L : Moved(Vm, l, L) /\ l # "count" /\ "count" \notin L
    <2>1. CASE VmHead
        BY <2>1, VmHeadMoves
    <2>2. CASE VmWaits
        BY <2>2, VmWaitsMoves
    <2>3. CASE VmPrint
        BY <2>3, VmPrintMoves
    <2>4. CASE VmBurst
        BY <2>4, VmBurstMoves
    <2> QED BY <2>1, <2>2, <2>3, <2>4
<1> QED BY <1>0, <1>1, <1>2, <1>3, <1>4, Onward

\* The steps that count, push and pop.
LEMMA CountRuns ==
    ASSUME Typed, Running, NEW w \in Workers, Count(w) PROVE Running'
<1>0. /\ app' = app /\ doing' = doing /\ started' = started /\ joins' = joins /\ got' = got
      /\ q' = [q EXCEPT !.count = reg[w]] /\ \A u \in Workers : u # w => reg'[u] = reg[u]
    BY DEF Count, Runs, history, WrittenBack, Typed, Data
<1>1. Moved(w, "count", {"lock"}) /\ w \in AppTasks
    BY Names, CountMoves
<1>2. \A u \in Workers : Counter(u)' = Counter(u) /\ Full(u)' = Full(u)
    BY <1>0 DEF Counter, Full
<1>3. at[w] = "count" /\ at'[w] = "lock" /\ \A u \in Workers : u # w => at'[u] = at[u]
    BY <1>1, Names DEF Moved
<1>4. Apart' /\ Begun'
    BY <1>0, <1>1, ApartStays DEF Running, Begun
<1>5. \A u \in Workers \intersect Members(started) : Progress(u)'
    <2> TAKE u \in Workers \intersect Members(started)
    <2>1. CASE u = w
        BY <1>0, <1>2, <1>3, <2>1, ProgressOn DEF Running, Busy
    <2>2. CASE u # w
        BY <1>0, <1>2, <1>3, <2>2, ProgressStays DEF Running
    <2> QED BY <2>1, <2>2
<1>6. Honest'
    BY <1>0, <1>2, <1>3 DEF Running, Honest
<1>7. started = "ipc" => Handed' /\ Counted'
    <2> SUFFICES ASSUME started = "ipc" PROVE Handed' /\ Counted'
        OBVIOUS
    <2>0. Handed /\ Counted
        BY DEF Running
    <2>1. \A u \in Workers : InHand(u)' = InHand(u)
        BY <1>3 DEF InHand
    <2>2. Pushed' = Pushed /\ InHand(B)' = InHand(B)
        BY <1>0, <2>1, Names DEF Pushed
    <2>3. q'.tail = q.tail /\ q'.head = q.head /\ q'.cell = q.cell /\ q'.count = reg[w]
        BY <1>0 DEF Typed, Data, Queue
    <2>4. Handed'
        BY <1>0, <2>0, <2>2, <2>3 DEF Handed
    <2>5. \A u \in Workers : at'[u] # "count"
        BY <1>3, <2>0, Names DEF Counted
    <2>6. reg[w] = Pushed - Len(got)
        BY <1>3, <2>0 DEF Counted
    <2>7. Counted'
        BY <1>0, <2>2, <2>3, <2>5, <2>6, Names DEF Counted
    <2> QED BY <2>4, <2>7
<1> QED BY <1>0, <1>4, <1>5, <1>6, <1>7 DEF Running

LEMMA MarkRuns ==
    ASSUME Typed, WholeSteps, Running, NEW w \in Workers, Mark(w) PROVE Running'
<1>0. /\ q' = q /\ doing' = doing /\ started' = started /\ joins' = joins /\ got' = got
      /\ app' = [app EXCEPT !.done = reg[w]] /\ \A u \in Workers : u # w => reg'[u] = reg[u]
    BY DEF Mark, Runs, history, WrittenBack, Typed, Data
<1>1. Moved(w, "mark", {"join"}) /\ w \in AppTasks
    BY Names, MarkMoves
<1>2. /\ app'.a = app.a /\ app'.b = app.b /\ app'.type = app.type /\ app'.status = app.status
      /\ app'.done = reg[w]
    BY <1>0 DEF Typed, Data, App
<1>20. \A u \in Workers : Counter(u)' = Counter(u) /\ Full(u)' = Full(u)
    BY <1>0, <1>2 DEF Counter, Full
<1>3. at[w] = "mark" /\ at'[w] = "join" /\ \A u \in Workers : u # w => at'[u] = at[u]
    BY <1>1, Names DEF Moved
<1>4. Apart' /\ Begun'
    BY <1>0, <1>1, <1>2, ApartStays DEF Running, Begun
<1>5. \A u \in Workers \intersect Members(started) : Progress(u)'
    <2> TAKE u \in Workers \intersect Members(started)
    <2>1. CASE u = w
        BY <1>0, <1>20, <1>3, <2>1, ProgressOn DEF Running, Busy
    <2>2. CASE u # w
        BY <1>0, <1>20, <1>3, <2>2, ProgressStays DEF Running
    <2> QED BY <2>1, <2>2
<1>6. Honest'
    <2>1. \A u \in Workers : u # w => at[u] # "clear"
        BY <1>1, Undivided
    <2> QED BY <1>0, <1>2, <1>20, <1>3, <2>1 DEF Running, Honest
<1>7. started = "ipc" => Handed' /\ Counted'
    <2> SUFFICES ASSUME started = "ipc" PROVE Handed' /\ Counted'
        OBVIOUS
    <2>1. \A u \in Workers : InHand(u)' = InHand(u)
        BY <1>3 DEF InHand
    <2>2. \A u \in Workers : (at'[u] = "count" <=> at[u] = "count") /\ (at[u] = "count" => reg'[u] = reg[u])
        BY <1>0, <1>3
    <2> QED BY <1>0, <1>2, <2>1, <2>2, HandedSame DEF Running
<1> QED BY <1>0, <1>4, <1>5, <1>6, <1>7 DEF Running

LEMMA IncRuns ==
    ASSUME Typed, WholeSteps, Running, NEW w \in Workers, Inc(w) PROVE Running'
<1>0. /\ q' = q /\ doing' = doing /\ reg' = reg /\ started' = started /\ joins' = joins /\ got' = got
      /\ app' = IF w = A THEN [app EXCEPT !.a = app.a + 1] ELSE [app EXCEPT !.b = app.b + 1]
    BY DEF Inc, Keep, history
<1>1. Moved(w, "inc", {"complete", "head"}) /\ w \in AppTasks
    BY Names, IncMoves
<1>2. /\ app'.type = app.type /\ app'.status = app.status /\ app'.done = app.done
      /\ app.a \in Nat /\ app.b \in Nat
      /\ w = A => app'.a = app.a + 1 /\ app'.b = app.b
      /\ w = B => app'.a = app.a /\ app'.b = app.b + 1
    BY <1>0, Names DEF Typed, Data, App
<1>3. at[w] = "inc" /\ at'[w] \in {"complete", "head"} /\ \A u \in Workers : u # w => at'[u] = at[u]
    BY <1>1, Names DEF Moved
<1>30. w \in Members(started) /\ Progress(w)
    BY <1>1, MemberMoves
<1>31. /\ doing[w] = started /\ Counter(w) < Goal(started) /\ started # "fault"
       /\ Goal(started) \in Nat /\ Counter(w) \in Nat
    BY <1>2, <1>3, <1>30, Names DEF Progress, Busy, Goal, Counter
<1>32. Counter(w)' = Counter(w) + 1 /\ \A u \in Workers : u # w => Counter(u)' = Counter(u)
    BY <1>2, Names DEF Counter
<1>33. Goal(started)' = Goal(started)
    BY <1>0 DEF Goal
<1>34. ~Full(w) /\ \A u \in Workers : Full(u) => Full(u)'
    BY <1>0, <1>31, <1>32 DEF Full
<1>4. Apart' /\ Begun'
    BY <1>0, <1>1, <1>2, <1>31, ApartStays DEF Running, Begun
<1>35. at'[w] = "complete" => Counter(w) + 1 = Goal(started)
    <2>1. CASE doing[w] = "pipe"
        BY <1>31, <2>1 DEF Goal
    <2>2. CASE doing[w] = "ipc" /\ w = B /\ app.b + 1 >= Iterations
        BY <1>31, <1>2, <2>2, Names DEF Goal, Counter
    <2>3. CASE ~(doing[w] = "pipe" \/ (doing[w] = "ipc" /\ w = B /\ app.b + 1 >= Iterations))
        BY <1>1, <2>3 DEF Inc, Go, Leave, Typed, Code
    <2> QED BY <2>1, <2>2, <2>3
<1>5. \A u \in Workers \intersect Members(started) : Progress(u)'
    <2> TAKE u \in Workers \intersect Members(started)
    <2>1. CASE u = w
        <3>1. Counter(w)' <= Goal(started)
            BY <1>31, <1>32
        <3>2. at'[w] = "complete" => Full(w)'
            BY <1>0, <1>32, <1>33, <1>35 DEF Full
        <3> QED BY <1>0, <1>3, <1>31, <2>1, <3>1, <3>2 DEF Progress, Busy
    <2>2. CASE u # w
        BY <1>0, <1>32, <1>3, <2>2, ProgressStays DEF Running
    <2> QED BY <2>1, <2>2
<1>6. Honest'
    BY <1>0, <1>2, <1>34, <1>3 DEF Running, Honest
<1>7. started = "ipc" => Handed' /\ Counted'
    <2> SUFFICES ASSUME started = "ipc" PROVE Handed' /\ Counted'
        OBVIOUS
    <2>0. Handed /\ Counted
        BY DEF Running
    <2>1. InHand(w) = 1 /\ InHand(w)' = 0 /\ \A u \in Workers : u # w => InHand(u)' = InHand(u)
        BY <1>3 DEF InHand
    <2>2. Pushed' = Pushed /\ app'.b + InHand(B)' = app.b + InHand(B)
        <3>1. CASE w = A
            BY <1>2, <2>1, <3>1, Names DEF Pushed
        <3>2. CASE w = B
            BY <1>2, <2>1, <3>2, Names DEF Pushed
        <3> QED BY <3>1, <3>2, Names
    <2>3. Handed'
        BY <1>0, <2>0, <2>2 DEF Handed
    <2>4. \A u \in Workers : at'[u] = "count" <=> at[u] = "count"
        BY <1>3
    <2>5. Counted'
        BY <1>0, <2>0, <2>2, <2>4, Names DEF Counted
    <2> QED BY <2>3, <2>5
<1> QED BY <1>0, <1>4, <1>5, <1>6, <1>7 DEF Running

LEMMA PushRuns ==
    ASSUME Typed, WholeSteps, Faulty, Running, Push PROVE Running'
<1>0. /\ app' = app /\ doing' = doing /\ started' = started /\ joins' = joins /\ got' = got
      /\ reg'[B] = reg[B] /\ Frame(A)
    BY Names DEF Push, Runs, history, Frame, Typed, Data
<1>1. Moved(A, "push", {"head", "count"}) /\ A \in AppTasks /\ A \in Workers
    BY Names, PushMoves
<1>2. \A u \in Workers : Counter(u)' = Counter(u) /\ Full(u)' = Full(u)
    BY <1>0 DEF Counter, Full
<1>3. at[A] = "push" /\ at'[A] \in {"head", "count"} /\ at'[B] = at[B] /\ at[B] # "count"
    BY <1>1, Names, Undivided DEF Moved
<1>4. Progress(A)
    BY <1>1, MemberMoves
<1>5. CASE q.count >= QueueSize
    <2>1. at'[A] = "head" /\ q' = q
        BY <1>1, <1>5 DEF Push, Leave, Typed, Code
    <2>2. Progress(A)'
        BY <1>0, <1>1, <1>2, <1>3, <1>4, <2>1, ProgressOn DEF Busy
    <2>3. InHand(A)' = InHand(A)
        BY <1>3, <2>1 DEF InHand
    <2>4. Moved(A, "push", {"head"})
        BY <1>1, <2>1 DEF Moved
    <2> QED BY <1>0, <1>1, <2>1, <2>2, <2>3, <2>4, Onward
<1>6. CASE ~(q.count >= QueueSize)
    <2>0. q \in Queue /\ app.a \in Nat /\ q.count \in 0..QueueSize /\ q.head \in 0..QueueSize-1
        BY DEF Typed, Data, App, Queue
    <2>1. /\ at'[A] = "count" /\ reg'[A] = q.count + 1
          /\ q' = [q EXCEPT !.cell[q.tail] = app.a + 1, !.tail = (q.tail + 1) % QueueSize]
        BY <1>1, <1>6 DEF Push, Go, Typed, Code, Data
    <2>2. Progress(A)'
        BY <1>0, <1>1, <1>2, <1>3, <1>4, <2>1, ProgressOn DEF Busy
    <2>3. Apart' /\ Begun'
        BY <1>0, <1>1, ApartStays DEF Running, Begun
    <2>4. \A u \in Workers \intersect Members(started) : Progress(u)'
        <3>1. B \in Members(started) => Progress(B)'
            BY <1>0, <1>2, <1>3, Names, ProgressStays DEF Running, Frame
        <3> QED BY <2>2, <3>1, Names
    <2>5. Honest'
        BY <1>0, <1>2, <1>3, <2>1, Names DEF Running, Honest
    <2>6. started = "ipc" => Handed' /\ Counted'
        <3> SUFFICES ASSUME started = "ipc" PROVE Handed' /\ Counted'
            OBVIOUS
        <3> DEFINE n == Pushed - Len(got)
        <3>0. Handed /\ Counted
            BY DEF Running
        <3>1. InHand(A) = 0 /\ InHand(A)' = 1 /\ InHand(B)' = InHand(B)
            BY <1>3, <2>1 DEF InHand
        <3>2. Pushed = app.a /\ Pushed' = app.a + 1 /\ Pushed \in Nat /\ Len(got) \in Nat
            BY <1>0, <2>0, <3>1 DEF Pushed, Typed, Data
        <3>3. q.count = n
            BY <1>3, <3>0, Names DEF Counted
        <3>4. n \in 0..QueueSize-1 /\ Len(got) <= Pushed
            BY <2>0, <3>0, <3>2, <3>3, <1>6, Names DEF Handed
        <3>5. q.tail = Place(q.head, n) /\ q.tail \in 0..QueueSize-1
            BY <2>0, <3>0 DEF Handed, Queue
        <3> DEFINE v == app.a + 1  m == (q.tail + 1) % QueueSize  c == [q.cell EXCEPT ![q.tail] = v]
        <3>6. m = Place(q.head, n + 1)
            <4> HIDE DEF n
            <4>1. (Place(q.head, n) + 1) % QueueSize = Place(q.head, n + 1)
                BY <2>0, <3>4, Ring
            <4> QED BY <3>5, <4>1
        <3>7. c[q.tail] = v /\ \A i \in 0..QueueSize-1 : i # q.tail => c[i] = q.cell[i]
            BY <2>0, <3>5 DEF Queue
        <3>8. q' = [q EXCEPT !.cell = c, !.tail = m]
            BY <2>0, <2>1 DEF Queue
        <3> HIDE DEF c, m
        <3>9. q'.cell = c /\ q'.tail = m /\ q'.head = q.head /\ q'.count = q.count
            BY <2>0, <3>8 DEF Queue
        <3>10. ASSUME NEW j \in 0..QueueSize-1, j < n + 1 PROVE c[Place(q.head, j)] = Len(got) + 1 + j
            <4>1. CASE j = n
                BY <3>2, <3>4, <3>5, <3>7, <4>1
            <4>2. CASE j # n
                <5>1. j < n
                    BY <3>4, <3>10, <4>2, Names
                <5>2. Place(q.head, j) \in 0..QueueSize-1 /\ Place(q.head, j) # q.tail
                    <6> HIDE DEF n
                    <6>1. j \in 0..QueueSize
                        BY Names
                    <6>2. Place(q.head, j) \in 0..QueueSize-1
                        BY <2>0, <6>1, Ring
                    <6>3. Place(q.head, j) # Place(q.head, n)
                        <7>1. \A x, y \in 0..QueueSize-1 : x # y => Place(q.head, x) # Place(q.head, y)
                            BY <2>0, Ring
                        <7> QED BY <3>4, <4>2, <7>1
                    <6> QED BY <3>5, <6>2, <6>3
                <5> QED BY <3>0, <3>7, <5>1, <5>2 DEF Handed
            <4> QED BY <4>1, <4>2
        <3>11. Pushed + 1 <= Iterations
            BY <1>3, <1>4, <3>2, Names DEF Progress, Busy, Handed, Counter, Goal
        <3>12. Handed'
            <4>1. Pushed' - Len(got) = n + 1 /\ n + 1 <= QueueSize /\ Len(got) <= Pushed' /\ Pushed' <= Iterations
                BY <3>2, <3>4, <3>11, Names
            <4> QED BY <1>0, <3>0, <3>1, <3>6, <3>9, <3>10, <4>1 DEF Handed
        <3>13. Counted'
            BY <1>0, <1>3, <2>1, <3>2, <3>3, <3>9, Names DEF Counted
        <3> QED BY <3>12, <3>13
    <2> QED BY <1>0, <2>3, <2>4, <2>5, <2>6 DEF Running
<1> QED BY <1>5, <1>6

LEMMA PopRuns ==
    ASSUME Typed, WholeSteps, Running, Pop PROVE Running'
<1>0. /\ app' = app /\ doing' = doing /\ started' = started /\ joins' = joins
      /\ reg'[A] = reg[A] /\ Frame(B)
    BY Names DEF Pop, Runs, Frame, Typed, Data
<1>1. Moved(B, "pop", {"head", "alock", "count"}) /\ B \in AppTasks /\ B \in Workers
    BY Names, PopMoves
<1>2. \A u \in Workers : Counter(u)' = Counter(u) /\ Full(u)' = Full(u)
    BY <1>0 DEF Counter, Full
<1>3. at[B] = "pop" /\ at'[B] \in {"head", "alock", "count"} /\ at'[A] = at[A] /\ at[A] # "count"
    BY <1>1, Names, Undivided DEF Moved
<1>4. Progress(B) /\ started = "ipc"
    BY <1>1, <1>3, MemberMoves DEF Progress
<1>5. CASE q.count = 0
    <2>1. at'[B] \in {"head", "alock"} /\ q' = q /\ got' = got
        BY <1>1, <1>5 DEF Pop, Go, Leave, Typed, Code
    <2>2. Progress(B)'
        BY <1>0, <1>1, <1>2, <1>3, <1>4, <2>1, ProgressOn DEF Busy
    <2>3. InHand(B)' = InHand(B)
        BY <1>3, <2>1 DEF InHand
    <2>4. Moved(B, "pop", {"head", "alock"})
        BY <1>1, <2>1 DEF Moved
    <2> QED BY <1>0, <1>1, <2>1, <2>2, <2>3, <2>4, Onward
<1>6. CASE q.count # 0
    <2>0. /\ q \in Queue /\ app.a \in Nat /\ app.b \in Nat /\ q.count \in 0..QueueSize
          /\ q.head \in 0..QueueSize-1 /\ got \in Seq(Nat) /\ q.cell[q.head] \in Nat
        BY DEF Typed, Data, App, Queue
    <2>1. /\ at'[B] = "count" /\ reg'[B] = q.count - 1 /\ got' = Append(got, q.cell[q.head])
          /\ q' = [q EXCEPT !.head = (q.head + 1) % QueueSize]
        BY <1>1, <1>6 DEF Pop, Go, Typed, Code, Data
    <2> DEFINE n == Pushed - Len(got)
    <2>2. Handed /\ Counted
        BY <1>4 DEF Running
    <2>3. InHand(B) = 0 /\ InHand(B)' = 1 /\ InHand(A)' = InHand(A) /\ InHand(A) \in {0, 1}
        BY <1>3, <2>1 DEF InHand
    <2>4. Pushed' = Pushed /\ Pushed \in Nat /\ Len(got) \in Nat /\ Len(got) = app.b
        BY <1>0, <2>0, <2>2, <2>3 DEF Pushed, Handed
    <2>5. q.count = n
        BY <1>3, <2>2, Names DEF Counted
    <2>6. n \in 1..QueueSize /\ Pushed <= Iterations
        BY <1>6, <2>0, <2>2, <2>4, <2>5 DEF Handed
    <2>7. Counter(B) = app.b /\ Counter(B) < Goal(started)
        BY <1>4, <2>4, <2>6, Names DEF Counter, Goal
    <2>8. Progress(B)'
        BY <1>0, <1>1, <1>2, <1>3, <1>4, <2>1, <2>7 DEF Progress, Busy
    <2>9. Apart' /\ Begun'
        BY <1>0, <1>1, ApartStays DEF Running, Begun
    <2>10. \A u \in Workers \intersect Members(started) : Progress(u)'
        <3>1. A \in Members(started) => Progress(A)'
            BY <1>0, <1>2, <1>3, Names, ProgressStays DEF Running, Frame
        <3> QED BY <2>8, <3>1, Names
    <2>11. Honest'
        BY <1>0, <1>2, <1>3, <2>1, Names DEF Running, Honest
    <2> DEFINE m == (q.head + 1) % QueueSize
    <2>12. m \in 0..QueueSize-1 /\ \A j \in 0..QueueSize-1 : Place(m, j) = Place(q.head, j + 1)
        BY <2>0, Ring
    <2>13. q.cell[q.head] = Len(got) + 1
        <3>1. Place(q.head, 0) = q.head
            BY <2>0, Ring
        <3> QED BY <2>2, <2>4, <2>6, <3>1, Names DEF Handed
    <2> HIDE DEF m
    <2>14. q'.cell = q.cell /\ q'.tail = q.tail /\ q'.head = m /\ q'.count = q.count
        BY <2>0, <2>1 DEF Queue, m
    <2> DEFINE L == Len(got) + 1
    <2>15. Len(got') = L /\ \A i \in 1..L : got'[i] = i
        <3>1. Len(got') = L /\ got'[L] = L /\ \A i \in 1..Len(got) : got'[i] = got[i]
            BY <2>0, <2>1, <2>13
        <3>2. \A i \in 1..Len(got) : got[i] = i
            BY <2>2 DEF Handed
        <3>3. \A i \in 1..L : i = L \/ i \in 1..Len(got)
            BY <2>4
        <3> HIDE DEF L
        <3> QED BY <3>1, <3>2, <3>3
    <2>16. Handed'
        <3>1. Len(got') = app'.b + InHand(B)' /\ \A i \in 1..Len(got') : got'[i] = i
            BY <1>0, <2>0, <2>3, <2>4, <2>15
        <3>2. Pushed' - Len(got') = n - 1 /\ Len(got') <= Pushed' /\ n - 1 <= QueueSize /\ Pushed' <= Iterations
            BY <2>4, <2>6, <2>15, Names
        <3>3. q'.tail = Place(m, n - 1)
            <4>1. q.tail = Place(q.head, n)
                BY <2>2 DEF Handed
            <4> HIDE DEF n
            <4>2. n - 1 \in 0..QueueSize-1 /\ (n - 1) + 1 = n
                BY <2>6, Names
            <4>3. Place(m, n - 1) = Place(q.head, (n - 1) + 1)
                BY <2>12, <4>2
            <4> QED BY <2>14, <4>1, <4>2, <4>3
        <3>4. ASSUME NEW j \in 0..QueueSize-1, j < n - 1 PROVE q.cell[Place(m, j)] = L + 1 + j
            <4>1. \A k \in 0..QueueSize-1 : k < n => q.cell[Place(q.head, k)] = Len(got) + 1 + k
                BY <2>2 DEF Handed
            <4> HIDE DEF n
            <4>2. j + 1 \in 0..QueueSize-1 /\ j + 1 < n
                BY <2>6, <3>4, Names
            <4>3. q.cell[Place(q.head, j + 1)] = Len(got) + 1 + (j + 1)
                BY <4>1, <4>2
            <4>4. Place(m, j) = Place(q.head, j + 1)
                BY <2>12
            <4> QED BY <2>4, <4>3, <4>4
        <3>5. Len(got') = L
            BY <2>15
        <3> HIDE DEF n, L
        <3> QED BY <2>14, <3>1, <3>2, <3>3, <3>4, <3>5 DEF Handed
    <2>17. Counted'
        <3>1. Pushed' - Len(got') = q.count - 1
            BY <2>4, <2>5, <2>15
        <3>2. q'.count = Pushed' - Len(got') + 1 /\ reg'[B] = Pushed' - Len(got')
            BY <2>0, <2>1, <2>14, <3>1
        <3> QED BY <1>3, <2>1, <3>2, Names DEF Counted
    <2> QED BY <1>0, <1>4, <2>9, <2>10, <2>11, <2>16, <2>17 DEF Running
<1> QED BY <1>5, <1>6

LEMMA WakeRuns ==
    ASSUME Typed, Running, NEW t \in AppTasks, Wake(t) PROVE Running'
<1>1. /\ app' = app /\ q' = q /\ at' = at /\ doing' = doing /\ reg' = reg
      /\ started' = started /\ joins' = joins /\ got' = got
      /\ \A u \in AppTasks : ~Active(u) => ~Active(u)'
    BY DEF Wake, history, Active, Typed, Code
<1>2. Apart' /\ Begun' /\ Honest'
    BY <1>1 DEF Running, Apart, Begun, Honest, Full, Counter
<1>3. \A w \in Workers \intersect Members(started) : Progress(w)'
    BY <1>1 DEF Running, Progress, Full, Counter
<1>4. Handed' <=> Handed
    BY <1>1 DEF Handed, Pushed, InHand
<1>5. Counted' <=> Counted
    BY <1>1 DEF Counted, Pushed, InHand
<1> QED BY <1>1, <1>2, <1>3, <1>4, <1>5 DEF Running

-----------------------------------------------------------------------------
(* How it ends.                                                            *)

\* Whoever is full has nothing in hand.
LEMMA FullIsDone ==
    ASSUME Typed, Running, NEW w \in Workers \intersect Members(started), Full(w)
    PROVE  at[w] \notin Busy
<1>1. Counter(w) \in Nat
    BY DEF Counter, Typed, Data, App
<1> QED BY <1>1 DEF Running, Progress, Full

LEMMA ClearEnds ==
    ASSUME Typed, Running, WholeSteps, NEW w \in Workers, Clear(w)
    PROVE  Over' /\ (\A u \in Workers : at'[u] # "clear") /\ ~app'.running
<1>0. /\ q' = q /\ started' = started /\ got' = got /\ joins' = IF joins = 2 THEN 2 ELSE joins + 1
      /\ app' = [app EXCEPT !.running = FALSE, !.status = 0]
    BY DEF Clear
<1>1. Moved(w, "clear", {"park", "msglock"}) /\ w \in AppTasks
    BY Names, ClearMoves
<1>2. app'.a = app.a /\ app'.b = app.b /\ ~app'.running /\ app.a \in Nat /\ app.b \in Nat
    BY <1>0 DEF Typed, Data, App
<1>3. at[w] = "clear" /\ at'[w] \in {"park", "msglock"} /\ \A u \in Workers : u # w => at'[u] = at[u]
    BY <1>1, Names DEF Moved
<1>4. w \in Members(started) /\ Progress(w) /\ Full(w) /\ app.done = Expected(started)
    BY <1>1, <1>3, MemberMoves DEF Running, Honest, Progress
<1>5. \A u \in Workers : at'[u] # "clear"
    BY <1>1, <1>3, Undivided
<1>6. joins' = 1 /\ started \in Types
    BY <1>0 DEF Running, Begun, Typed, Data
<1>7. started # "fault" /\ started # "bytecode"
    <2>1. started # "bytecode"
        BY <1>4, MembersAre, Names
    <2>2. started = "fault" => w = A /\ app.a = 0
        BY <1>4, MembersAre DEF Running, Begun
    <2> QED BY <1>4, <2>1, <2>2, Names DEF Full, Goal, Counter
<1>8. ASSUME NEW u \in Workers PROVE at[u] \notin Busy /\ (at[u] = "pop" => started = "ipc")
    <2>1. CASE u \in Members(started)
        <3>1. Has(app.done, u)
            <4>1. CASE started \in {"threads", "ipc"}
                BY <1>4, <4>1, Marks, Names DEF Expected
            <4>2. CASE started \in {"loop", "pipe"}
                BY <1>4, <2>1, <4>2, Marks, MembersAre DEF Expected
            <4> QED BY <1>6, <1>7, <4>1, <4>2, Names DEF TypesAll
        <3>2. Full(u) /\ Progress(u)
            BY <2>1, <3>1 DEF Running, Honest
        <3> QED BY <2>1, <3>2, FullIsDone DEF Progress
    <2>2. CASE u \notin Members(started)
        BY <2>2, Names DEF Running, Apart, Busy
    <2> QED BY <2>1, <2>2
<1>9. \A u \in Workers : at'[u] \notin Busy /\ (at'[u] = "pop" => started = "ipc")
    BY <1>3, <1>8 DEF Busy
<1>10. started \in {"threads", "ipc"} => app.a = Iterations /\ app.b = Iterations
    <2> SUFFICES ASSUME started \in {"threads", "ipc"} PROVE app.a = Iterations /\ app.b = Iterations
        OBVIOUS
    <2>1. Full(A) /\ Full(B)
        BY <1>4, Marks, Names DEF Expected, Running, Honest
    <2> QED BY <2>1, Names DEF Full, Counter, Goal
<1>11. started \in {"loop", "pipe"} => app.a = Goal(started)
    BY <1>4, MembersAre DEF Full, Counter
<1>12. started = "ipc" => got = [i \in 1..Iterations |-> i] /\ q.count = 0
    <2> SUFFICES ASSUME started = "ipc" PROVE got = [i \in 1..Iterations |-> i] /\ q.count = 0
        OBVIOUS
    <2>0. Handed /\ Counted
        BY DEF Running
    <2>1. InHand(A) = 0 /\ InHand(B) = 0 /\ at[A] # "count" /\ at[B] # "count"
        BY <1>8, Names DEF InHand, Busy
    <2>2. Len(got) = Iterations /\ Pushed = Iterations
        BY <1>2, <1>10, <2>0, <2>1, Names DEF Handed, Pushed
    <2>3. q.count = 0
        BY <2>0, <2>1, <2>2, Names DEF Counted
    <2>4. got \in Seq(Nat)
        BY DEF Typed, Data
    <2>5. DOMAIN got = 1..Iterations /\ got = [i \in DOMAIN got |-> got[i]]
        BY <2>2, <2>4
    <2>6. \A i \in 1..Iterations : got[i] = i
        BY <2>0, <2>2 DEF Handed
    <2> QED BY <2>3, <2>5, <2>6
<1>13. AllDone'
    BY <1>0, <1>2, <1>6, <1>10, <1>11, <1>12 DEF AllDone, Goal
<1>14. Over'
    BY <1>0, <1>9, <1>13, Names DEF Over
<1> QED BY <1>2, <1>5, <1>14

LEMMA HaltEnds ==
    ASSUME Typed, Running, VmBurst, app' # app
    PROVE  Over' /\ (\A u \in Workers : at'[u] # "clear") /\ ~app'.running
<1>1. /\ started' = started /\ joins' = IF joins = 2 THEN 2 ELSE joins + 1
      /\ app' = [app EXCEPT !.running = FALSE, !.status = 0]
    BY DEF VmBurst
<1>2. ~app'.running
    BY <1>1 DEF Typed, Data, App
<1>3. Moved(Vm, "burst", {"head", "msglock", "typing"}) /\ Vm \in AppTasks
    BY Names, VmBurstMoves
<1>4. Vm \in Members(started) /\ started \in Types
    BY <1>3, MemberMoves DEF Running, Begun, Typed, Data
<1>5. started = "bytecode"
    BY <1>4, MembersAre, Names DEF TypesAll
<1>6. \A u \in Workers : at'[u] \in {"head", "spin"}
    BY <1>3, <1>5, MembersAre, Names DEF Running, Apart, Moved
<1>7. joins' = 1
    BY <1>1 DEF Running, Begun
<1> QED BY <1>1, <1>2, <1>5, <1>6, <1>7, Names DEF Over, AllDone, Busy

-----------------------------------------------------------------------------
(* What is left to do after the end, and the commands.                     *)

LEMMA OverKeeps ==
    ASSUME Over, started' = started, joins' = joins, got' = got, q'.count = q.count,
           app'.a = app.a, app'.b = app.b,
           \A w \in Workers : at'[w] \notin Busy, at'[B] = "pop" => at[B] = "pop"
    PROVE  Over'
BY DEF Over, AllDone, Goal

\* The application is over: nobody is about to end it.
Rested == ~app.running /\ \A w \in Workers : at[w] # "clear"
\* What the tasks do then.
Resting ==
    /\ Rested' /\ started' = started /\ shell' = shell /\ (app'.status = 0 => app.status = 0)
    /\ Over /\ app'.status = 0 => Over'

\* A step that only moves a task that is not busy.
LEMMA RestingMove ==
    ASSUME Typed, Rested, NEW t \in AppTasks, NEW l, NEW L, Moved(t, l, L),
           app' = app, q' = q, history' = history, shell' = shell,
           "clear" \notin L, "pop" \notin L, l \in Busy \/ L \intersect Busy = {}
    PROVE  Resting
<1>1. \A w \in Workers : w # t => at'[w] = at[w]
    BY Names DEF Moved
<1>2. Rested' /\ started' = started /\ joins' = joins /\ got' = got
    BY <1>1 DEF Rested, Moved, history
<1>3. ASSUME Over, t \in Workers PROVE l \notin Busy
    BY <1>3 DEF Over, Moved
<1>4. ASSUME Over PROVE \A w \in Workers : at'[w] \notin Busy
    BY <1>1, <1>3, <1>4 DEF Over, Moved
<1>5. at'[B] = "pop" => at[B] = "pop"
    BY <1>1, Names DEF Moved
<1> QED BY <1>2, <1>4, <1>5, OverKeeps DEF Resting

LEMMA RestingStep == ASSUME Typed, Rested, Tasks PROVE Resting
<1> USE Names
<1>0. app \in App /\ app.running = FALSE /\ q \in Queue
    BY DEF Typed, Data, Rested, App
<1>1. ASSUME NEW t \in AppTasks, Wake(t) PROVE Resting
    <2>1. /\ app' = app /\ q' = q /\ at' = at /\ shell' = shell /\ started' = started /\ joins' = joins
          /\ got' = got
        BY <1>1 DEF Wake, console, history
    <2> QED BY <2>1, OverKeeps DEF Resting, Rested, Over
<1>2. ASSUME NEW t \in AppTasks, ConsoleLock(t) PROVE Resting
    BY <1>2, LockMoves, RestingMove DEF ConsoleLock, Keep, Busy
<1>3. ASSUME NEW w \in Workers, LoopHead(w) PROVE Resting
    <2>1. ~Mine(w)
        BY <1>0 DEF Mine
    <2>2. Moved(w, "head", {"head"})
        BY <1>3, <2>1, LoopHeadMoves DEF LoopHead, Leave, Moved, Typed, Code
    <2> QED BY <1>3, <2>2, RestingMove DEF LoopHead, Keep, Busy
<1>4. ASSUME NEW w \in Workers, PrintLine(w) PROVE Resting
    BY <1>4, PrintMoves, RestingMove DEF PrintLine, Keep, Busy
<1>5. ASSUME NEW w \in Workers, Complete(w) PROVE Resting
    BY <1>5, CompleteMoves, RestingMove DEF Complete, KeepApp, Busy
<1>6. ASSUME NEW w \in Workers, Join(w) PROVE Resting
    <2>1. Moved(w, "join", {"park"})
        BY <1>0, <1>6, JoinMoves DEF Join, Go, Moved, Typed, Code
    <2> QED BY <1>6, <2>1, RestingMove DEF Join, KeepApp, Keep, Busy
<1>7. ASSUME NEW w \in Workers, Said(w) PROVE Resting
    BY <1>7, SaidMoves, RestingMove DEF Said, Keep, Busy
<1>8. ASSUME NEW w \in Workers, Park(w) PROVE Resting
    BY <1>8, ParkMoves, RestingMove DEF Park, KeepApp, Keep, Busy
<1>9. ASSUME Announced PROVE Resting
    BY <1>9, AnnouncedMoves, RestingMove DEF Announced, Keep, Busy
<1>10. ASSUME VmHead PROVE Resting
    BY <1>10, VmHeadMoves, RestingMove DEF VmHead, Keep, Busy
<1>11. ASSUME VmBurst PROVE Resting
    <2>1. app' = app /\ history' = history
        BY <1>0, <1>11 DEF VmBurst
    <2> QED BY <1>11, <2>1, VmBurstMoves, RestingMove DEF VmBurst, Busy
<1>12. ASSUME VmWaits PROVE Resting
    <2>1. Moved(Vm, "typing", {"typing", "lock"})
        BY <1>12, VmWaitsMoves
    <2>2. /\ app' = app /\ q' = q /\ history' = history /\ shell' = shell
          /\ \A w \in Workers : at'[w] = at[w]
        BY <1>12, <2>1 DEF VmWaits, KeepApp, Keep, Moved
    <2> QED BY <2>2, OverKeeps DEF Resting, Rested, Over, history
<1>13. ASSUME VmPrint PROVE Resting
    BY <1>13, VmPrintMoves, RestingMove DEF VmPrint, Keep, Busy
<1>20. ASSUME NEW w \in Workers, Clear(w) PROVE Resting
    BY <1>20 DEF Clear, Runs, Rested
<1>21. ASSUME NEW w \in Workers, Count(w) PROVE Resting
    BY <1>21, CountMoves DEF Count, Moved, Rested, Resting, history, Over, Busy
<1>22. ASSUME NEW w \in Workers, Inc(w) PROVE Resting
    <2>1. app'.running = FALSE /\ app'.status = app.status
        BY <1>0, <1>22 DEF Inc, App
    <2> QED BY <1>22, <2>1, IncMoves DEF Inc, Keep, Moved, Rested, Resting, history, Over, Busy
<1>23. ASSUME NEW w \in Workers, Mark(w) PROVE Resting
    <2>1. app'.running = FALSE /\ app'.status = app.status /\ app'.a = app.a /\ app'.b = app.b
        BY <1>0, <1>23 DEF Mark, App
    <2>2. Moved(w, "mark", {"join"}) /\ q' = q /\ shell' = shell /\ started' = started /\ joins' = joins /\ got' = got
        BY <1>23, MarkMoves DEF Mark, history
    <2>3. \A u \in Workers : at'[u] = "join" \/ at'[u] = at[u]
        BY <2>2 DEF Moved
    <2>4. Rested'
        BY <2>1, <2>3 DEF Rested
    <2>5. Over => Over'
        BY <2>1, <2>2, <2>3, OverKeeps DEF Over, Busy
    <2> QED BY <2>1, <2>2, <2>4, <2>5 DEF Resting
<1>24. ASSUME Push PROVE Resting
    BY <1>24, PushMoves DEF Push, Moved, Rested, Resting, history, Over, Busy
<1>25. ASSUME Pop PROVE Resting
    <2>1. Moved(B, "pop", {"head", "alock", "count"}) /\ app' = app /\ shell' = shell
          /\ started' = started /\ joins' = joins
        BY <1>25, PopMoves DEF Pop
    <2>2. Rested'
        BY <2>1 DEF Rested, Moved
    <2>3. ASSUME Over PROVE Over'
        <3>1. at[B] = "pop" /\ started = "ipc"
            BY <2>1, <2>3 DEF Moved, Over
        <3>2. q.count = 0
            BY <2>3, <3>1 DEF Over, AllDone
        <3>3. q' = q /\ got' = got /\ at'[B] # "count"
            BY <1>25, <3>2 DEF Pop, Go, Leave, Typed, Code
        <3> QED BY <2>1, <2>3, <3>3, OverKeeps DEF Over, Moved, Busy
    <2> QED BY <2>1, <2>2, <2>3 DEF Resting
<1>26. ASSUME Fault PROVE Resting
    <2>1. app'.running = FALSE /\ app'.status = 139
        BY <1>0, <1>26 DEF Fault, App
    <2> QED BY <1>26, <2>1, FaultMoves DEF Fault, Keep, Rested, Resting, history
<1> QED BY <1>1, <1>2, <1>3, <1>4, <1>5, <1>6, <1>7, <1>8, <1>9, <1>10, <1>11, <1>12, <1>13, <1>20,
           <1>21, <1>22, <1>23, <1>24, <1>25, <1>26 DEF Tasks, WorkerStep, VmStep

LEMMA RunStarts ==
    ASSUME Typed, \A t \in AppTasks : at[t] \in {"head", "spin"}, Run PROVE Running'
<1>1. /\ app'.type = store /\ app'.done = 0 /\ app'.a = 0 /\ app'.b = 0 /\ app'.status = 0
      /\ q' = EmptyQueue /\ state' = Readied(Blocked, Members(store)) /\ started' = store
      /\ joins' = 0 /\ got' = <<>> /\ at' = at
    BY DEF Run, Stay
<1>2. store \in Types /\ store # "none"
    BY Names DEF Typed, Data, TypesAll
<1>3. \A w \in Workers : Counter(w)' = 0 /\ Goal(started)' \in Nat
    BY <1>1, Names DEF Counter, Goal
<1>4. Begun'
    BY <1>1, <1>2 DEF Begun
<1>5. Apart'
    BY <1>1 DEF Apart, Active, Readied, Blocked
<1>6. Honest'
    BY <1>1, Marks, Names DEF Honest
<1>7. \A w \in Workers : Progress(w)'
    BY <1>1, <1>3, Names DEF Progress, Busy
<1>8. \A w \in Workers : InHand(w)' = 0 /\ at'[w] # "count"
    BY <1>1, Names DEF InHand
<1>9. Pushed' = 0 /\ Len(got') = 0 /\ q'.head = 0 /\ q'.tail = 0 /\ q'.count = 0
    BY <1>1, <1>8, Names DEF Pushed, EmptyQueue
<1>10. Handed'
    <2>1. Pushed' - Len(got') = 0
        BY <1>9
    <2>2. q'.tail = Place(q'.head, Pushed' - Len(got'))
        BY <1>9, <2>1, Names DEF Place
    <2>3. Len(got') = app'.b + InHand(B)' /\ \A i \in 1..Len(got') : got'[i] = i
        BY <1>1, <1>8, <1>9, Names
    <2> QED BY <1>9, <2>1, <2>2, <2>3, Names DEF Handed
<1>11. Counted'
    BY <1>8, <1>9, Names DEF Counted
<1> QED BY <1>4, <1>5, <1>6, <1>7, <1>10, <1>11 DEF Running

\* stop and continue change nothing but who may run.
LEMMA RunningStays ==
    ASSUME Running, app'.a = app.a, app'.b = app.b, app'.type = app.type, app'.done = app.done,
           app'.status = app.status, q' = q, at' = at, doing' = doing, reg' = reg, history' = history, Apart'
    PROVE  Running'
<1>1. started' = started /\ joins' = joins /\ got' = got
    BY DEF history
<1>2. \A w \in Workers : Counter(w)' = Counter(w) /\ Full(w)' = Full(w) /\ InHand(w)' = InHand(w)
    BY <1>1 DEF Counter, Full, InHand
<1>3. Begun' /\ Honest'
    BY <1>1, <1>2 DEF Running, Begun, Honest
<1>4. \A w \in Workers \intersect Members(started) : Progress(w)'
    BY <1>1, <1>2, ProgressStays DEF Running
<1>5. started = "ipc" => Handed' /\ Counted'
    BY <1>1, <1>2, HandedSame DEF Running
<1> QED BY <1>1, <1>3, <1>4, <1>5 DEF Running

LEMMA DoneInit == Init => DoneInv
BY Names DEF Init, DoneInv, Ended

\* The application is left alone.
LEMMA DoneSame ==
    ASSUME Typed, DoneInv, rude' <=> rude, app' = app, q' = q, at' = at, state' = state, doing' = doing, reg' = reg,
           history' = history, shell # "kill" <=> shell' # "kill"
    PROVE  DoneInv'
<1> SUFFICES ASSUME ~rude PROVE DoneInv'
    BY DEF DoneInv
<1>1. started' = started /\ joins' = joins /\ got' = got
    BY DEF history
<1>2. Running => Running'
    BY <1>1, RunningStays DEF Running, Apart, Active
<1>3. Over => Over'
    BY <1>1, OverKeeps DEF Over
<1>4. Ended' <=> Ended
    BY <1>1 DEF Ended
<1> QED BY <1>2, <1>3, <1>4 DEF DoneInv

LEMMA DoneStep ==
    ASSUME WholeSteps, SoundInv, DoneInv, [Next]_vars PROVE DoneInv'
<1> USE Names
<1>0. Typed /\ Faulty /\ Killed /\ app \in App /\ (rude' <=> rude)
    BY MannerStays DEF SoundInv, Typed, Data
<1> SUFFICES ASSUME ~rude PROVE DoneInv'
    BY <1>0 DEF DoneInv
<1>a. ASSUME Running', app'.running PROVE DoneInv'
    BY <1>a DEF DoneInv
<1>b. ASSUME Rested', ~Ended' PROVE DoneInv'
    BY <1>b DEF DoneInv, Rested
<1>1. CASE Tasks /\ ~app.running
    <2>1. Resting
        BY <1>0, <1>1, RestingStep DEF DoneInv, Rested
    <2>2. Ended' => Ended
        BY <2>1 DEF Resting, Ended
    <2> QED BY <1>1, <2>1, <2>2 DEF DoneInv, Resting, Rested, Ended
<1>2. CASE Tasks /\ app.running
    <2>0. Running
        BY <1>2 DEF DoneInv
    <2>1. ASSUME Running', app'.running = app.running PROVE DoneInv'
        BY <1>2, <2>1 DEF DoneInv
    <2>2. ASSUME Over', \A u \in Workers : at'[u] # "clear", ~app'.running PROVE DoneInv'
        BY <2>2 DEF DoneInv
    <2>3. ASSUME NEW t \in AppTasks, Wake(t) PROVE DoneInv'
        BY <1>0, <2>0, <2>1, <2>3, WakeRuns DEF Wake
    <2>4. ASSUME NEW t \in AppTasks, ConsoleLock(t) PROVE DoneInv'
        BY <1>0, <2>0, <2>1, <2>4, ConsoleLockRuns DEF ConsoleLock
    <2>5. ASSUME NEW w \in Workers, LoopHead(w) PROVE DoneInv'
        BY <1>0, <2>0, <2>1, <2>5, LoopHeadRuns DEF LoopHead
    <2>6. ASSUME NEW w \in Workers, Count(w) PROVE DoneInv'
        BY <1>0, <2>0, <2>1, <2>6, CountRuns DEF Count
    <2>7. ASSUME NEW w \in Workers, PrintLine(w) PROVE DoneInv'
        BY <1>0, <2>0, <2>1, <2>7, PrintLineRuns DEF PrintLine
    <2>8. ASSUME NEW w \in Workers, Inc(w) PROVE DoneInv'
        <3>1. app'.running = app.running
            BY <1>0, <2>8 DEF Inc, App
        <3> QED BY <1>0, <2>0, <2>1, <2>8, <3>1, IncRuns
    <2>9. ASSUME NEW w \in Workers, Complete(w) PROVE DoneInv'
        BY <1>0, <2>0, <2>1, <2>9, CompleteRuns DEF Complete, KeepApp
    <2>10. ASSUME NEW w \in Workers, Mark(w) PROVE DoneInv'
        <3>1. app'.running = app.running
            BY <1>0, <2>10 DEF Mark, App
        <3> QED BY <1>0, <2>0, <2>1, <2>10, <3>1, MarkRuns
    <2>11. ASSUME NEW w \in Workers, Join(w) PROVE DoneInv'
        BY <1>0, <2>0, <2>1, <2>11, JoinRuns DEF Join, KeepApp
    <2>12. ASSUME NEW w \in Workers, Clear(w) PROVE DoneInv'
        BY <1>0, <2>0, <2>2, <2>12, ClearEnds
    <2>13. ASSUME NEW w \in Workers, Said(w) \/ Park(w) PROVE DoneInv'
        BY <1>0, <2>0, <2>1, <2>13, SaidRuns DEF Said, Park, KeepApp
    <2>14. ASSUME Push PROVE DoneInv'
        BY <1>0, <2>0, <2>1, <2>14, PushRuns DEF Push
    <2>15. ASSUME Pop PROVE DoneInv'
        BY <1>0, <2>0, <2>1, <2>15, PopRuns DEF Pop
    <2>16. ASSUME Announced PROVE DoneInv'
        BY <1>0, <2>0, <2>1, <2>16, AnnouncedRuns DEF Announced
    <2>17. ASSUME Fault PROVE DoneInv'
        <3>1. app'.running = FALSE /\ app'.status = 139
            BY <1>0, <2>17 DEF Fault, App
        <3>2. \A w \in Workers : w # A => at[w] # "clear"
            BY <2>17 DEF Fault, Runs, Split, WholeSteps
        <3>3. Rested'
            BY <1>0, <2>17, <3>1, <3>2, FaultMoves DEF Rested
        <3> QED BY <1>b, <3>1, <3>3 DEF Ended
    <2>18. ASSUME VmHead \/ VmWaits \/ VmPrint \/ (VmBurst /\ app' = app) PROVE DoneInv'
        <3>1. app' = app
            BY <2>18 DEF VmHead, VmWaits, VmPrint, KeepApp
        <3> QED BY <1>0, <1>2, <2>0, <2>1, <2>18, <3>1, VmRuns
    <2>19. ASSUME VmBurst, app' # app PROVE DoneInv'
        BY <1>0, <2>0, <2>2, <2>19, HaltEnds
    <2> QED BY <1>2, <2>3, <2>4, <2>5, <2>6, <2>7, <2>8, <2>9, <2>10, <2>11, <2>12, <2>13, <2>14, <2>15,
               <2>16, <2>17, <2>18, <2>19 DEF Tasks, WorkerStep, VmStep
<1>3. CASE KeyTyped
    BY <1>0, <1>3, DoneSame DEF KeyTyped, KeepApp
<1>4. CASE Enter
    BY <1>0, <1>4, DoneSame DEF Enter, tasks
<1>5. CASE Done
    BY <1>0, <1>5, DoneSame DEF Done, tasks
<1>6. CASE OtherCommand
    BY <1>0, <1>6, DoneSame DEF OtherCommand, tasks
<1>7. CASE Run
    <2>1. \A t \in AppTasks : at[t] \in {"head", "spin"}
        BY <1>7 DEF Run, Command, Met
    <2> QED BY <1>a, <1>0, <1>7, <2>1, RunStarts DEF Run
<1>8. CASE StopCheck
    BY <1>0, <1>8, DoneSame DEF StopCheck, Command, Stay
<1>9. CASE StopFlag
    <2>1. /\ app'.a = app.a /\ app'.b = app.b /\ app'.type = app.type /\ app'.done = app.done
          /\ app'.status = app.status /\ app'.running = app.running
        BY <1>0, <1>9 DEF StopFlag, App
    <2>2. /\ q' = q /\ at' = at /\ state' = state /\ doing' = doing /\ reg' = reg /\ history' = history
          /\ started' = started /\ joins' = joins /\ got' = got /\ shell # "kill" /\ shell' # "kill"
        BY <1>9 DEF StopFlag, Command, Stay, history
    <2>3. Running => Running'
        BY <2>1, <2>2, RunningStays DEF Running, Apart, Active
    <2>4. Over => Over'
        BY <2>1, <2>2, OverKeeps DEF Over
    <2> QED BY <2>1, <2>2, <2>3, <2>4 DEF DoneInv, Ended
<1>10. CASE StopTasks
    <2>1. /\ app' = app /\ q' = q /\ at' = at /\ doing' = doing /\ reg' = reg /\ history' = history
          /\ started' = started /\ joins' = joins /\ got' = got /\ shell # "kill" /\ shell' # "kill"
        BY <1>10 DEF StopTasks, Command, Stay, history
    <2>2. \A t \in AppTasks : ~Active(t)'
        BY <1>10 DEF StopTasks, Active
    <2>3. Running => Running'
        BY <2>1, <2>2, RunningStays DEF Running, Apart
    <2>4. Over => Over'
        BY <2>1, OverKeeps DEF Over
    <2> QED BY <2>1, <2>3, <2>4 DEF DoneInv, Ended
<1>11. CASE Continue
    <2>1. /\ app'.a = app.a /\ app'.b = app.b /\ app'.type = app.type /\ app'.done = app.done
          /\ app'.status = app.status /\ app'.running = app.running /\ app.running
        BY <1>0, <1>11 DEF Continue, App
    <2>2. /\ q' = q /\ at' = at /\ doing' = doing /\ reg' = reg /\ history' = history /\ started' = started
          /\ state' = Readied(state, Stopped(app.type))
        BY <1>11 DEF Continue, Command, Stay, history
    <2>3. Running
        BY <2>1 DEF DoneInv
    <2>4. Stopped(app.type) = Members(started)
        BY <2>3, MembersAre DEF Stopped, Members, Running, Begun
    <2>5. Apart'
        BY <2>2, <2>3, <2>4 DEF Running, Apart, Active, Readied
    <2>6. Running'
        BY <2>1, <2>2, <2>3, <2>5, RunningStays
    <2> QED BY <1>a, <2>1, <2>6
<1>12. CASE KillFlags
    <2>1. app'.running = FALSE /\ shell' = "kill" /\ at' = at
        BY <1>0, <1>12 DEF KillFlags, Command, Stay, App
    <2>2. \A t \in AppTasks : at[t] \in {"head", "spin"}
        BY <1>12 DEF KillFlags, Command, Met
    <2>3. Rested'
        BY <2>1, <2>2 DEF Rested
    <2> QED BY <1>b, <2>1, <2>3 DEF Ended
<1>13. CASE KillTasks
    <2>1. app'.running = app.running /\ app'.status = 137 /\ at' = at /\ ~app.running
        BY <1>0, <1>13 DEF KillTasks, Command, Stay, App, Killed
    <2>2. Rested'
        BY <2>1 DEF Rested, DoneInv
    <2> QED BY <1>b, <2>1, <2>2 DEF Ended
<1>14. CASE Compile
    <2>1. ~app.running
        BY <1>14 DEF Compile
    <2>2. app'.running = app.running /\ app'.a = app.a /\ app'.b = app.b /\ app'.status = app.status
        BY <1>0, <1>14 DEF Compile, App
    <2>3. /\ q' = q /\ at' = at /\ shell' = shell /\ started' = started /\ joins' = joins /\ got' = got
        BY <1>14 DEF Compile, tasks, console, history
    <2>4. Over => Over'
        BY <2>2, <2>3, OverKeeps DEF Over
    <2> QED BY <2>1, <2>2, <2>3, <2>4 DEF DoneInv, Ended
<1>15. CASE UNCHANGED vars
    BY <1>0, <1>15, DoneSame DEF vars, tasks, console
<1> QED BY <1>1, <1>2, <1>3, <1>4, <1>5, <1>6, <1>7, <1>8, <1>9, <1>10, <1>11, <1>12, <1>13, <1>14,
           <1>15
        DEF Next, Tasks, ShellStep

\* Polite commands, and no preemption between the read of the queue's count and
\* its store, nor between the decision of demo_thread_complete and its flag
\* (demo_queue_push, demo_queue_pop, demo_thread_complete): an application that exits
\* with status 0 has ended once, with all its iterations, and every message was
\* received once, in order.
THEOREM ZeroMeansDone == WholeSteps => (Spec => []ExitZeroMeansDone)
<1> SUFFICES ASSUME WholeSteps PROVE Spec => []ExitZeroMeansDone
    OBVIOUS
<1>1. Init => SoundInv /\ DoneInv
    BY SoundInit, DoneInit
<1>2. SoundInv /\ DoneInv /\ [Next]_vars => (SoundInv /\ DoneInv)'
    BY DoneStep, TypedStep, OwnedStep, FaultyStep, KilledStep DEF SoundInv
<1>3. SoundInv /\ DoneInv => ExitZeroMeansDone
    BY DEF DoneInv, ExitZeroMeansDone, Ended, Over
<1> QED BY <1>1, <1>2, <1>3, PTL DEF Spec
====
