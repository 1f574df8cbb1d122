---- MODULE Vfs ----
(***************************************************************************)
(* Files and descriptors of halaos_objects.c: tmpfs files, open-file       *)
(* descriptions shared by descriptors (dup2), one descriptor table per     *)
(* process slot, and what open, close, read, write, dup2, kill, exit, wait *)
(* and the kernel's own compound calls (cat, the object self test) do to   *)
(* them.  Every call is one system call and one step.  The tables are one  *)
(* record, so that a call made of others is the composition of operators:  *)
(* each returns the new tables and the result.                             *)
(***************************************************************************)
EXTENDS Integers, FiniteSets

CONSTANTS
    Slots,      \* process slots: 0..HOS_MAX_PROCESSES - 1 without slot 0 (init)
    Fds,        \* 0..HOS_MAX_FD - 1
    FirstFd,    \* first descriptor open returns (3)
    OpenIdx,    \* 0..HOS_MAX_OPEN_FILES - 1
    FileIdx,    \* 0..HOS_MAX_FILES - 1
    TmpPaths,   \* valid names in /tmp
    Devices,    \* virtual nodes: "null", "zero", "console", "proc"
    QaPath,     \* "/tmp/qa", one of TmpPaths
    FileData,   \* HOS_FILE_DATA
    QaLength,   \* bytes the self test writes
    Lengths,    \* lengths of reads and writes
    MaxPid,     \* bound: pids handed out
    None

ShellSlot == 1
ShellPid == 2

ASSUME TableAssumption ==
    /\ ShellSlot \in Slots /\ Slots \subseteq Nat \ {0} /\ IsFiniteSet(Slots)
    /\ Fds = 0..(Cardinality(Fds) - 1) /\ IsFiniteSet(Fds) /\ FirstFd \in Nat
    /\ OpenIdx \subseteq Nat /\ IsFiniteSet(OpenIdx)
    /\ FileIdx \subseteq Nat /\ IsFiniteSet(FileIdx)
    /\ FileData \in Nat /\ QaLength \in 0..FileData
    /\ Lengths \subseteq Nat /\ MaxPid \in Nat \ {0, 1}
    /\ QaPath \in TmpPaths /\ TmpPaths \cap Devices = {} /\ None \notin TmpPaths \union Devices
    /\ "tmp" \notin Devices /\ None # "tmp"

VARIABLES
    t,          \* the tables
    nextPid,    \* g_next_pid
    written     \* bytes ever written to each tmpfs file since it was created

vars == <<t, nextPid, written>>

FreeProc == [pid |-> 0, ppid |-> 0, state |-> "FREE", fdCount |-> 0]
FreeOpen == [used |-> FALSE, node |-> None, file |-> 0, refs |-> 0, offset |-> 0, owner |-> 0]
FreeFile == [used |-> FALSE, path |-> None, size |-> 0]
NoFds == [fd \in Fds |-> -1]

Init ==
    /\ t = [proc |-> [s \in Slots |-> IF s = ShellSlot
                        THEN [FreeProc EXCEPT !.pid = ShellPid, !.ppid = 1, !.state = "READY"]
                        ELSE FreeProc],
            fds |-> [s \in Slots |-> NoFds],
            open |-> [i \in OpenIdx |-> FreeOpen],
            files |-> [f \in FileIdx |-> FreeFile],
            openCount |-> 0, fileCount |-> 0, live |-> 2]
    /\ nextPid = 3
    /\ written = [f \in FileIdx |-> {}]

Least(S) == CHOOSE x \in S : \A y \in S : x <= y
SlotOf(T, pid) == {s \in Slots : T.proc[s].state # "FREE" /\ T.proc[s].pid = pid}
Ret(T, r) == [t |-> T, ret |-> r]

(***************************************************************************)
(* open.  A tmpfs file is found or made, and cut, before a description and *)
(* a descriptor are looked for: the -24 paths keep the new or cut file.    *)
(***************************************************************************)
TmpFile(T, path) == {f \in FileIdx : T.files[f].used /\ T.files[f].path = path}
\* The file of path after create and truncate; -2, -28 or its index.
MakeTmp(T, path, creat, trunc) ==
    LET cut(U, f) == IF trunc THEN [U EXCEPT !.files[f].size = 0] ELSE U
        free == {f \in FileIdx : ~T.files[f].used}
    IN  IF TmpFile(T, path) # {} THEN LET f == Least(TmpFile(T, path)) IN Ret(cut(T, f), f)
        ELSE IF ~creat THEN Ret(T, -2)
        ELSE IF free = {} THEN Ret(T, -28)
        ELSE LET f == Least(free) IN
             Ret([T EXCEPT !.files[f] = [used |-> TRUE, path |-> path, size |-> 0],
                           !.fileCount = @ + 1], f)

AllocateFd(T, s, i) ==
    LET free == {fd \in Fds : fd >= FirstFd /\ T.fds[s][fd] < 0}
    IN  IF free = {} THEN Ret(T, -24)
        ELSE Ret([T EXCEPT !.fds[s][Least(free)] = i, !.proc[s].fdCount = @ + 1], Least(free))

\* A description for the node, released again when there is no descriptor.
Describe(T, s, node, file) ==
    LET free == {i \in OpenIdx : ~T.open[i].used} IN
    IF free = {} THEN Ret(T, -24)
    ELSE LET i == Least(free)
             A == AllocateFd([T EXCEPT !.open[i] =
                     [used |-> TRUE, node |-> node, file |-> file, refs |-> 1,
                      offset |-> 0, owner |-> T.proc[s].pid]], s, i)
         IN  IF A.ret < 0 THEN Ret([A.t EXCEPT !.open[i] = FreeOpen], A.ret)
             ELSE Ret([A.t EXCEPT !.openCount = @ + 1], A.ret)

\* The nodes of /dev, /proc and /apps have fixed names.
virtual_node(path) == path \in Devices

VfsOpen(T, s, path, creat, trunc) ==
    IF virtual_node(path) THEN Describe(T, s, path, 0)
    ELSE LET M == MakeTmp(T, path, creat, trunc)
         IN  IF M.ret < 0 THEN M ELSE Describe(M.t, s, "tmp", M.ret)

(***************************************************************************)
(* close, dup2 and the release of all descriptors of a process             *)
(***************************************************************************)
\* One reference less; the last one frees the description.
Unref(T, i) ==
    IF T.open[i].refs <= 1
    THEN [T EXCEPT !.open[i] = FreeOpen, !.openCount = IF @ > 0 THEN @ - 1 ELSE 0]
    ELSE [T EXCEPT !.open[i].refs = @ - 1]

VfsClose(T, s, fd) ==
    LET i == T.fds[s][fd] IN
    IF i < 0 \/ ~T.open[i].used THEN Ret(T, -9)
    ELSE Ret(Unref([T EXCEPT !.fds[s][fd] = -1,
                             !.proc[s].fdCount = IF @ > 0 THEN @ - 1 ELSE 0], i), 0)

\* Mutant: the new descriptor is closed first, even when it is the old one.
VfsDup2_same(T, s, old, new) ==
    LET i == T.fds[s][old] IN
    IF i < 0 THEN Ret(T, -9)
    ELSE LET C == IF T.fds[s][new] >= 0 THEN VfsClose(T, s, new) ELSE Ret(T, 0)
         IN  Ret([C.t EXCEPT !.fds[s][new] = i, !.open[i].refs = @ + 1,
                             !.proc[s].fdCount = @ + 1], new)
VfsDup2(T, s, old, new) ==
    LET i == T.fds[s][old] IN
    IF i < 0 THEN Ret(T, -9)
    ELSE IF old = new THEN Ret(T, new)
    ELSE LET C == IF T.fds[s][new] >= 0 THEN VfsClose(T, s, new) ELSE Ret(T, 0)
         IN  IF C.ret # 0 THEN C
             ELSE Ret([C.t EXCEPT !.fds[s][new] = i, !.open[i].refs = @ + 1,
                                  !.proc[s].fdCount = @ + 1], new)

\* fd_release_owned: all descriptors of a process, in order.
FdReleaseOwned(T, s) ==
    LET upto[n \in {-1} \union Fds] ==
            IF n = -1 THEN T
            ELSE LET U == upto[n - 1]  i == U.fds[s][n]
                     V == IF i >= 0 /\ U.open[i].used THEN Unref(U, i) ELSE U
                 IN  [V EXCEPT !.fds[s][n] = -1]
    IN  [upto[Cardinality(Fds) - 1] EXCEPT !.proc[s].fdCount = 0]

(***************************************************************************)
(* read and write move the offset of the shared description.  Virtual      *)
(* nodes keep no bytes here: "proc" reads as at its end.                   *)
(***************************************************************************)
Clip(n, room) == IF n > room THEN room ELSE n
\* Mutant: a write is not clipped to the room in the file.
VfsWrite_long(T, s, fd, n) ==
    LET i == T.fds[s][fd] IN
    IF i < 0 \/ T.open[i].node # "tmp" THEN Ret(T, -9)
    ELSE LET f == T.open[i].file  end == T.open[i].offset + n
         IN  Ret([T EXCEPT !.open[i].offset = end,
                           !.files[f].size = IF end > @ THEN end ELSE @], n)
VfsWrite(T, s, fd, n) ==
    LET i == T.fds[s][fd] IN
    IF i < 0 THEN Ret(T, -9)
    ELSE IF T.open[i].node = "proc" \/ T.open[i].node = "zero" THEN Ret(T, -30)
    ELSE IF T.open[i].node # "tmp" THEN Ret(T, n)
    ELSE LET f == T.open[i].file  off == T.open[i].offset
             m == Clip(n, FileData - off)
         IN  Ret([T EXCEPT !.open[i].offset = off + m,
                           !.files[f].size = IF off + m > @ THEN off + m ELSE @], m)

VfsRead(T, s, fd, n) ==
    LET i == T.fds[s][fd] IN
    IF i < 0 THEN Ret(T, -9)
    ELSE IF T.open[i].node = "zero" THEN Ret(T, n)
    ELSE IF T.open[i].node # "tmp" THEN Ret(T, 0)
    ELSE LET f == T.open[i].file  off == T.open[i].offset
             left == IF T.files[f].size > off THEN T.files[f].size - off ELSE 0
             m == Clip(n, left)
         IN  Ret([T EXCEPT !.open[i].offset = off + m], m)

\* The bytes of tmpfs files that a write of n bytes covers.
Covers(T, s, fd, n) ==
    LET i == T.fds[s][fd]  o == T.open[i] IN
    [f \in FileIdx |->
        IF i >= 0 /\ o.used /\ o.node = "tmp" /\ o.file = f
        THEN written[f] \union (o.offset .. (o.offset + Clip(n, FileData - o.offset) - 1))
        ELSE written[f]]

(***************************************************************************)
(* Processes, as far as their descriptors go                               *)
(***************************************************************************)
FreeSlots(T) == {s \in Slots : s > ShellSlot /\ T.proc[s].state = "FREE"}
\* Mutant: a process starts with the descriptors of its parent (no references).
Spawned_inherits(T, s, ppid) ==
    [T EXCEPT !.proc[s] = [pid |-> nextPid, ppid |-> ppid, state |-> "READY",
                           fdCount |-> T.proc[ShellSlot].fdCount],
              !.fds[s] = T.fds[ShellSlot], !.live = @ + 1]
Spawned(T, s, ppid) ==
    [T EXCEPT !.proc[s] = [pid |-> nextPid, ppid |-> ppid, state |-> "READY", fdCount |-> 0],
              !.fds[s] = NoFds, !.live = @ + 1]
Killed(T, s) == [FdReleaseOwned(T, s) EXCEPT !.proc[s].state = "EXITED"]
Reaped(T, s) ==
    [FdReleaseOwned(T, s) EXCEPT !.proc[s] = FreeProc, !.live = IF @ > 0 THEN @ - 1 ELSE 0]

\* kobj_selftest: a child that opens, writes and closes a file, is killed and
\* waited for.  A step that fails leaves what the steps before it made.
SelfTest(T, ipcFree) ==
    LET free == FreeSlots(T)  s == Least(free)
        A == Spawned(T, s, ShellPid)
        B == VfsOpen(A, s, QaPath, TRUE, TRUE)
        C == VfsWrite(B.t, s, B.ret, QaLength)
        D == VfsClose(C.t, s, B.ret)
    IN  IF free = {} THEN Ret(T, -1)
        ELSE IF ~ipcFree THEN Ret(A, -1)
        ELSE IF B.ret < 0 THEN Ret(B.t, -1)
        ELSE IF C.ret # QaLength THEN Ret(C.t, -1)
        ELSE IF D.ret # 0 THEN Ret(D.t, -1)
        ELSE Ret(Reaped(Killed(D.t, s), s), 0)

(***************************************************************************)
(* Actions: the system calls of a live process, and of the kernel          *)
(***************************************************************************)
Calls(s) == t.proc[s].state = "READY"

\* A file slot that is taken anew holds no written byte.
Fresh(T) == [f \in FileIdx |-> IF ~t.files[f].used /\ T.files[f].used THEN {} ELSE written[f]]

Open(s) ==
    /\ Calls(s)
    /\ \E path \in TmpPaths \union Devices, creat, trunc \in BOOLEAN :
        LET R == VfsOpen(t, s, path, creat, trunc)
        IN  t' = R.t /\ written' = Fresh(R.t)
    /\ UNCHANGED nextPid
Close(s) ==
    /\ Calls(s) /\ \E fd \in Fds : t' = VfsClose(t, s, fd).t
    /\ UNCHANGED <<nextPid, written>>
Dup2(s) ==
    /\ Calls(s) /\ \E old, new \in Fds : t' = VfsDup2(t, s, old, new).t
    /\ UNCHANGED <<nextPid, written>>
Write(s) ==
    /\ Calls(s)
    /\ \E fd \in Fds, n \in Lengths :
        t' = VfsWrite(t, s, fd, n).t /\ written' = Covers(t, s, fd, n)
    /\ UNCHANGED nextPid
Read(s) ==
    /\ Calls(s) /\ \E fd \in Fds, n \in Lengths : t' = VfsRead(t, s, fd, n).t
    /\ UNCHANGED <<nextPid, written>>

\* kobj_vfs_console_cat: opens as the shell, reads to the end, closes.
Cat ==
    /\ \E path \in TmpPaths \union Devices :
        LET O == VfsOpen(t, ShellSlot, path, FALSE, FALSE)
            R == VfsRead(O.t, ShellSlot, O.ret, FileData)
        IN  t' = IF O.ret < 0 THEN O.t ELSE VfsClose(R.t, ShellSlot, O.ret).t
    /\ UNCHANGED <<nextPid, written>>

Spawn ==
    /\ nextPid <= MaxPid /\ FreeSlots(t) # {}
    /\ t' = Spawned(t, Least(FreeSlots(t)), ShellPid)
    /\ nextPid' = nextPid + 1 /\ UNCHANGED written
\* SVC_EXIT with nobody waiting: descriptors are kept until the wait.
Exit(s) ==
    /\ s # ShellSlot /\ Calls(s)
    /\ t' = [t EXCEPT !.proc[s].state = "EXITED"]
    /\ UNCHANGED <<nextPid, written>>
Kill(s) ==
    /\ s # ShellSlot /\ t.proc[s].state # "FREE"
    /\ t' = Killed(t, s) /\ UNCHANGED <<nextPid, written>>
Wait(s) ==
    /\ s # ShellSlot /\ t.proc[s].state = "EXITED"
    /\ t' = Reaped(t, s) /\ UNCHANGED <<nextPid, written>>
\* SVC_OBJECTS_SELFTEST, with or without a free IPC object.
ObjectsSelfTest ==
    /\ nextPid <= MaxPid
    /\ \E ipcFree \in BOOLEAN :
        LET R == SelfTest(t, ipcFree)
            opened == ipcFree /\ FreeSlots(t) # {} /\ TmpFile(R.t, QaPath) # {} /\ R.ret = 0
        IN  /\ t' = R.t
            /\ written' = [f \in FileIdx |->
                             Fresh(R.t)[f] \union (IF opened /\ R.t.files[f].path = QaPath
                                                   THEN 0..(QaLength - 1) ELSE {})]
    /\ nextPid' = IF FreeSlots(t) # {} THEN nextPid + 1 ELSE nextPid

Next ==
    \/ \E s \in Slots :
        Open(s) \/ Close(s) \/ Dup2(s) \/ Write(s) \/ Read(s) \/ Exit(s) \/ Kill(s) \/ Wait(s)
    \/ Cat \/ Spawn \/ ObjectsSelfTest

Spec == Init /\ [][Next]_vars

(***************************************************************************)
(* Properties                                                              *)
(***************************************************************************)
\* Types of the tables.
TypeOK ==
    /\ t.proc \in [Slots -> [pid : 0..MaxPid, ppid : 0..MaxPid,
                             state : {"FREE", "READY", "EXITED"}, fdCount : Nat]]
    /\ t.fds \in [Slots -> [Fds -> OpenIdx \union {-1}]]
    /\ t.open \in [OpenIdx -> [used : BOOLEAN, node : Devices \union {"tmp", None},
                               file : FileIdx \union {0}, refs : Nat, offset : Nat,
                               owner : 0..MaxPid]]
    /\ t.files \in [FileIdx -> [used : BOOLEAN, path : TmpPaths \union {None}, size : Nat]]
    /\ t.openCount \in Nat /\ t.fileCount \in Nat /\ t.live \in Nat
    /\ nextPid \in 3..(MaxPid + 1)
    /\ written \in [FileIdx -> SUBSET Nat]

Names(i) == {e \in Slots \X Fds : t.fds[e[1]][e[2]] = i}

\* A description lives exactly as long as descriptors name it: its reference
\* count is their number, through dup2 over an open descriptor, close, kill,
\* exit and wait in any order, and an open that fails leaves none behind.
RefsExact ==
    \A i \in OpenIdx :
        /\ t.open[i].refs = Cardinality(Names(i))
        /\ t.open[i].used = (Names(i) # {})

\* The counters shown by ps and /proc agree with the tables.
CountsExact ==
    /\ t.openCount = Cardinality({i \in OpenIdx : t.open[i].used})
    /\ t.fileCount = Cardinality({f \in FileIdx : t.files[f].used})
    /\ t.live = 1 + Cardinality({s \in Slots : t.proc[s].state # "FREE"})
    /\ \A s \in Slots : t.proc[s].fdCount = Cardinality({fd \in Fds : t.fds[s][fd] >= 0})

\* A description is named only by the process that opened it: a process that
\* gets the slot and the table row of an earlier one inherits nothing.
PrivateDescriptions ==
    \A i \in OpenIdx : \A e \in Names(i) :
        t.proc[e[1]].state # "FREE" /\ t.open[i].owner = t.proc[e[1]].pid

\* The tables of descriptors agree with one another and with the processes.
DescriptorsSound == TypeOK /\ RefsExact /\ CountsExact /\ PrivateDescriptions

\* Whoever cuts a file under another descriptor's offset, no read returns a
\* byte that nobody wrote, and no access leaves the file's data.
ReadsWereWritten ==
    /\ \A f \in FileIdx :
        /\ t.files[f].size <= FileData
        /\ t.files[f].size > 0 => 0..(t.files[f].size - 1) \subseteq written[f]
    /\ \A i \in OpenIdx : t.open[i].node = "tmp" =>
        /\ t.open[i].offset <= FileData /\ t.files[t.open[i].file].used

\* A step changes the descriptors and descriptions of at most one process:
\* killing, reaping or testing never touches what another one has open.
View(T, s) == <<T.fds[s], [fd \in Fds |-> IF T.fds[s][fd] < 0 THEN FreeOpen
                                          ELSE T.open[T.fds[s][fd]]]>>
OthersUntouched ==
    [][\A r, s \in Slots : r # s => View(t', r) = View(t, r) \/ View(t', s) = View(t, s)]_vars
====
