---- MODULE Vfs_proofs ----
(***************************************************************************)
(* Descriptors, descriptions and files, for any sizes of the tables: the   *)
(* reference counts and counters are exact, what a process has open is its *)
(* own, no read returns a byte nobody wrote, and no call touches what      *)
(* another process has open.                                               *)
(*                                                                         *)
(* Every call is a composition of operators on the tables, so each         *)
(* operator has a lemma: it keeps Sound, the invariant of the tables, and  *)
(* Filled, that of the files' contents, and changes the descriptors of one *)
(* slot Only.  Sound adds to the properties that a description is named    *)
(* from one slot only; Filled adds that whatever lies before the offset of *)
(* a description was written.                                              *)
(*                                                                         *)
(* Calls that open a file, move its bytes and close it are composed once   *)
(* more (Leaves, RedirectLeaves): what they leave of the tables and which  *)
(* file has the bytes is used by ShellLine_proofs.                         *)
(***************************************************************************)
EXTENDS Vfs, FiniteSetTheorems, WellFoundedInduction, TLAPS

\* Every nonempty set of naturals has a least element: the form of induction
\* used below.
LEMMA LeastNatural ==
    ASSUME NEW T \in SUBSET Nat, T # {}
    PROVE  \E m \in T : \A j \in T : m =< j
<1>1. \E m \in T : \A j \in T : ~ (<<j, m>> \in OpToRel(<, Nat))
    BY NatLessThanWellFounded, WFMin
<1>2. \A j, m \in Nat : <<j, m>> \in OpToRel(<, Nat) <=> j < m
    BY DEF OpToRel
<1>3. PICK m \in T : \A j \in T : ~ (<<j, m>> \in OpToRel(<, Nat))
    BY <1>1
<1>4. ASSUME NEW j \in T PROVE m =< j
    <2>1. j \in Nat /\ m \in Nat
        OBVIOUS
    <2>2. ~ (j < m)
        BY <2>1, <1>2, <1>3
    <2> QED BY <2>1, <2>2
<1> QED BY <1>4

Proc == [pid : 0..MaxPid, ppid : 0..MaxPid, state : {"FREE", "READY", "EXITED"}, fdCount : Nat]
OpenFile == [used : BOOLEAN, node : Devices \union {"tmp", None}, file : FileIdx \union {0},
             refs : Nat, offset : Nat, owner : 0..MaxPid]
File == [used : BOOLEAN, path : TmpPaths \union {None}, size : Nat]
Tables == [proc : [Slots -> Proc], fds : [Slots -> [Fds -> OpenIdx \union {-1}]],
           open : [OpenIdx -> OpenFile], files : [FileIdx -> File],
           openCount : Nat, fileCount : Nat, live : Nat]

-----------------------------------------------------------------------------
(* The invariant, on tables T.                                             *)

NamesIn(fds, i) == {e \in Slots \X Fds : fds[e[1]][e[2]] = i}

Refs(T) ==
    /\ \A i \in OpenIdx : /\ T.open[i].refs = Cardinality(NamesIn(T.fds, i))
                          /\ T.open[i].used = (NamesIn(T.fds, i) # {})
    /\ T.openCount = Cardinality({i \in OpenIdx : T.open[i].used})

\* What a slot names is its process's own.
Own(T) ==
    /\ \A s \in Slots, fd \in Fds : T.fds[s][fd] >= 0 =>
            T.proc[s].state # "FREE" /\ T.open[T.fds[s][fd]].owner = T.proc[s].pid
    /\ \A r, s \in Slots, fd, fe \in Fds : T.fds[r][fd] >= 0 /\ T.fds[r][fd] = T.fds[s][fe] => r = s

FdCount(T, s) == T.proc[s].fdCount = Cardinality({fd \in Fds : T.fds[s][fd] >= 0})
FileCount(T) == T.fileCount = Cardinality({f \in FileIdx : T.files[f].used})
Taken(proc) == {s \in Slots : proc[s].state # "FREE"}
Alive(T) ==
    /\ T.live = 1 + Cardinality(Taken(T.proc))
    /\ T.proc[ShellSlot].state = "READY"

\* fd_release_owned forgets the counter of its slot until it is done.
SoundBut(T, s) == /\ T \in Tables /\ Refs(T) /\ Own(T) /\ FileCount(T) /\ Alive(T)
                  /\ \A r \in Slots \ {s} : FdCount(T, r)
Sound(T) == /\ T \in Tables /\ Refs(T) /\ Own(T) /\ FileCount(T) /\ Alive(T)
            /\ \A r \in Slots : FdCount(T, r)

\* From T to U the descriptors of s alone have changed.
Only(T, U, s) ==
    \A r \in Slots \ {s} :
        /\ U.fds[r] = T.fds[r] /\ U.proc[r] = T.proc[r]
        /\ \A fd \in Fds : T.fds[r][fd] >= 0 => U.open[T.fds[r][fd]] = T.open[T.fds[r][fd]]

\* The bytes W of the files cover the sizes and whatever an offset has passed.
Filled(T, W) ==
    /\ \A f \in FileIdx : T.files[f].size <= FileData /\ 0..(T.files[f].size - 1) \subseteq W[f]
    /\ \A i \in OpenIdx : T.open[i].node = "tmp" =>
         /\ T.open[i].file \in FileIdx /\ T.files[T.open[i].file].used
         /\ T.open[i].offset <= FileData
         /\ 0..(T.open[i].offset - 1) \subseteq W[T.open[i].file]

\* Descriptions are dropped or keep their place in the file; the files stay.
Recedes(T, U) ==
    /\ U.files = T.files
    /\ \A i \in OpenIdx : U.open[i].node = "tmp" =>
         /\ T.open[i].node = "tmp" /\ U.open[i].file = T.open[i].file
         /\ U.open[i].offset = T.open[i].offset

-----------------------------------------------------------------------------
LEMMA Sizes ==
    /\ ShellSlot \in Slots /\ IsFiniteSet(Slots) /\ Slots \in SUBSET Nat
    /\ IsFiniteSet(Fds) /\ Fds \in SUBSET Nat /\ FirstFd \in Nat
    /\ Cardinality(Fds) \in Nat /\ Fds = 0..(Cardinality(Fds) - 1)
    /\ IsFiniteSet(OpenIdx) /\ OpenIdx \in SUBSET Nat
    /\ IsFiniteSet(FileIdx) /\ FileIdx \in SUBSET Nat
    /\ FileData \in Nat /\ QaLength \in 0..FileData /\ Lengths \subseteq Nat
    /\ MaxPid \in Nat /\ MaxPid >= 2 /\ QaPath \in TmpPaths
    /\ "tmp" \notin Devices /\ None # "tmp" /\ None \notin TmpPaths
    /\ IsFiniteSet(Slots \X Fds)
BY TableAssumption, FS_CardinalityType, FS_Product

\* What a descriptor holds is a number.
LEMMA Indexes ==
    \A x \in OpenIdx \union {-1} : x \in Int /\ (x >= 0 <=> x \in OpenIdx) /\ (x < 0 <=> x = -1)
                                   /\ (x < 0 => ~(x >= 0))
<1> TAKE x \in OpenIdx \union {-1}
<1>1. CASE x \in OpenIdx
    <2>1. x \in Nat
        BY <1>1, Sizes
    <2> QED BY <1>1, <2>1
<1>2. CASE x = -1
    <2>1. -1 \notin OpenIdx
        BY Sizes
    <2> QED BY <1>2, <2>1
<1> QED BY <1>1, <1>2

LEMMA LeastMember ==
    ASSUME NEW S \in SUBSET Nat, S # {}
    PROVE  Least(S) \in S
<1>1. \E x \in S : \A y \in S : x =< y
    BY LeastNatural
<1> QED BY <1>1 DEF Least

LEMMA Fields ==
    ASSUME NEW T \in Tables
    PROVE  /\ T.proc \in [Slots -> Proc] /\ T.fds \in [Slots -> [Fds -> OpenIdx \union {-1}]]
           /\ T.open \in [OpenIdx -> OpenFile] /\ T.files \in [FileIdx -> File]
           /\ T.openCount \in Nat /\ T.fileCount \in Nat /\ T.live \in Nat
           /\ \A s \in Slots : T.proc[s] \in Proc
           /\ \A s \in Slots, fd \in Fds : T.fds[s][fd] \in OpenIdx \union {-1}
           /\ \A s \in Slots, fd \in Fds : T.fds[s][fd] >= 0 => T.fds[s][fd] \in OpenIdx
           /\ \A i \in OpenIdx : T.open[i] \in OpenFile /\ T.open[i].refs \in Nat
                                 /\ T.open[i].offset \in Nat
           /\ \A f \in FileIdx : T.files[f] \in File /\ T.files[f].size \in Nat
<1>1. /\ T.proc \in [Slots -> Proc] /\ T.fds \in [Slots -> [Fds -> OpenIdx \union {-1}]]
      /\ T.open \in [OpenIdx -> OpenFile] /\ T.files \in [FileIdx -> File]
      /\ T.openCount \in Nat /\ T.fileCount \in Nat /\ T.live \in Nat
    BY DEF Tables
<1>2. \A s \in Slots, fd \in Fds : T.fds[s][fd] \in OpenIdx \union {-1}
    BY <1>1
<1>3. \A i \in OpenIdx : T.open[i] \in OpenFile
    BY <1>1
<1>4. \A f \in FileIdx : T.files[f] \in File
    BY <1>1
<1>5. \A i \in OpenIdx : T.open[i].refs \in Nat /\ T.open[i].offset \in Nat
    BY <1>3 DEF OpenFile
<1>6. \A f \in FileIdx : T.files[f].size \in Nat
    BY <1>4 DEF File
<1> QED BY <1>1, <1>2, <1>3, <1>4, <1>5, <1>6

Rows == [Slots -> [Fds -> OpenIdx \union {-1}]]
SetFd(fds, s, fd, i) == [fds EXCEPT ![s] = [fds[s] EXCEPT ![fd] = i]]

\* One descriptor of a slot is set to i, another value than before.
LEMMA NamesChange ==
    ASSUME NEW fds \in Rows, NEW s \in Slots, NEW fd \in Fds,
           NEW i \in OpenIdx \union {-1}, NEW o, o = fds[s][fd], i # o,
           NEW g, g = SetFd(fds, s, fd, i)
    PROVE  /\ g \in Rows /\ g[s][fd] = i
           /\ NamesIn(g, i) = NamesIn(fds, i) \union {<<s, fd>>} /\ <<s, fd>> \notin NamesIn(fds, i)
           /\ NamesIn(g, o) = NamesIn(fds, o) \ {<<s, fd>>} /\ <<s, fd>> \in NamesIn(fds, o)
           /\ \A j \in OpenIdx : j # i /\ j # o => NamesIn(g, j) = NamesIn(fds, j)
           /\ Cardinality(NamesIn(g, i)) = Cardinality(NamesIn(fds, i)) + 1
           /\ Cardinality(NamesIn(g, o)) = Cardinality(NamesIn(fds, o)) - 1
<1>1. /\ g \in Rows /\ g[s][fd] = i
      /\ \A r \in Slots, fe \in Fds : <<r, fe>> # <<s, fd>> => g[r][fe] = fds[r][fe]
    BY DEF Rows, SetFd
<1>2. NamesIn(g, i) = NamesIn(fds, i) \union {<<s, fd>>} /\ <<s, fd>> \notin NamesIn(fds, i)
    BY <1>1 DEF NamesIn
<1>3. NamesIn(g, o) = NamesIn(fds, o) \ {<<s, fd>>} /\ <<s, fd>> \in NamesIn(fds, o)
    BY <1>1 DEF NamesIn
<1>4. ASSUME NEW j \in OpenIdx, j # i, j # o PROVE NamesIn(g, j) = NamesIn(fds, j)
    BY <1>1, <1>4 DEF NamesIn
<1>5. \A j : IsFiniteSet(NamesIn(fds, j))
    <2> TAKE j
    <2>1. NamesIn(fds, j) \in SUBSET (Slots \X Fds)
        BY DEF NamesIn
    <2> QED BY <2>1, Sizes, FS_Subset
<1>6. Cardinality(NamesIn(g, i)) = Cardinality(NamesIn(fds, i)) + 1
    BY <1>2, <1>5, FS_AddElement
<1>7. Cardinality(NamesIn(g, o)) = Cardinality(NamesIn(fds, o)) - 1
    BY <1>3, <1>5, FS_RemoveElement
<1> QED BY <1>1, <1>2, <1>3, <1>4, <1>6, <1>7

\* The case of a closed descriptor.
LEMMA NamesGrow ==
    ASSUME NEW fds \in Rows, NEW s \in Slots, NEW fd \in Fds, fds[s][fd] \notin OpenIdx,
           NEW i \in OpenIdx, NEW g, g = SetFd(fds, s, fd, i)
    PROVE  /\ NamesIn(g, i) = NamesIn(fds, i) \union {<<s, fd>>}
           /\ \A j \in OpenIdx : j # i => NamesIn(g, j) = NamesIn(fds, j)
           /\ Cardinality(NamesIn(g, i)) = Cardinality(NamesIn(fds, i)) + 1
<1>1. /\ g[s][fd] = i
      /\ \A r \in Slots, fe \in Fds : <<r, fe>> # <<s, fd>> => g[r][fe] = fds[r][fe]
    BY DEF Rows, SetFd
<1>2. NamesIn(g, i) = NamesIn(fds, i) \union {<<s, fd>>} /\ <<s, fd>> \notin NamesIn(fds, i)
    BY <1>1 DEF NamesIn
<1>3. ASSUME NEW j \in OpenIdx, j # i PROVE NamesIn(g, j) = NamesIn(fds, j)
    BY <1>1, <1>3 DEF NamesIn
<1>4. IsFiniteSet(NamesIn(fds, i))
    <2>1. NamesIn(fds, i) \in SUBSET (Slots \X Fds)
        BY DEF NamesIn
    <2> QED BY <2>1, Sizes, FS_Subset
<1>5. Cardinality(NamesIn(g, i)) = Cardinality(NamesIn(fds, i)) + 1
    BY <1>2, <1>4, FS_AddElement
<1> QED BY <1>2, <1>3, <1>5

\* A description's reference goes, and the description with the last one.
LessOne(T, U, s, fd) ==
    LET i == T.fds[s][fd] IN
    /\ U.fds = SetFd(T.fds, s, fd, -1)
    /\ U.open = [T.open EXCEPT ![i] = IF T.open[i].refs <= 1 THEN FreeOpen
                                      ELSE [T.open[i] EXCEPT !.refs = T.open[i].refs - 1]]
    /\ U.openCount = IF T.open[i].refs <= 1
                     THEN (IF T.openCount > 0 THEN T.openCount - 1 ELSE 0) ELSE T.openCount

LEMMA DropKeeps ==
    ASSUME NEW T \in Tables, Refs(T), Own(T), NEW s \in Slots, NEW fd \in Fds, T.fds[s][fd] >= 0,
           NEW U \in Tables, LessOne(T, U, s, fd),
           \A r \in Slots : U.proc[r].state = T.proc[r].state /\ U.proc[r].pid = T.proc[r].pid
    PROVE  Refs(U) /\ Own(U)
<1> DEFINE i == T.fds[s][fd]
<1>0. i \in OpenIdx /\ i # -1 /\ -1 \notin OpenIdx
    BY Fields, Sizes
<1>1. /\ U.fds[s][fd] = -1 /\ \A r \in Slots, fe \in Fds : <<r, fe>> # <<s, fd>> => U.fds[r][fe] = T.fds[r][fe]
    BY Fields DEF LessOne, SetFd
<1>2. /\ NamesIn(U.fds, i) = NamesIn(T.fds, i) \ {<<s, fd>>} /\ <<s, fd>> \in NamesIn(T.fds, i)
      /\ \A j \in OpenIdx : j # i => NamesIn(U.fds, j) = NamesIn(T.fds, j)
      /\ Cardinality(NamesIn(U.fds, i)) = Cardinality(NamesIn(T.fds, i)) - 1
    <2>1. U.fds = SetFd(T.fds, s, fd, -1)
        BY DEF LessOne
    <2>2. T.fds \in Rows /\ -1 # i /\ -1 \in OpenIdx \union {-1} /\ i = T.fds[s][fd]
        BY <1>0, Fields DEF Rows
    <2> DEFINE m == -1
    <2> HIDE DEF i, m
    <2>3. /\ U.fds = SetFd(T.fds, s, fd, m) /\ m # i /\ m \in OpenIdx \union {-1}
        BY <2>1, <2>2 DEF m
    <2>4. /\ NamesIn(U.fds, i) = NamesIn(T.fds, i) \ {<<s, fd>>} /\ <<s, fd>> \in NamesIn(T.fds, i)
          /\ \A j \in OpenIdx : j # i /\ j # m => NamesIn(U.fds, j) = NamesIn(T.fds, j)
          /\ Cardinality(NamesIn(U.fds, i)) = Cardinality(NamesIn(T.fds, i)) - 1
        BY <2>2, <2>3, NamesChange
    <2>5. \A j \in OpenIdx : j # m
        BY <1>0 DEF m
    <2> QED BY <2>4, <2>5
<1>3. IsFiniteSet(NamesIn(U.fds, i))
    <2>1. NamesIn(U.fds, i) \in SUBSET (Slots \X Fds)
        BY DEF NamesIn
    <2> QED BY <2>1, Sizes, FS_Subset
<1>4. /\ Cardinality(NamesIn(U.fds, i)) = T.open[i].refs - 1 /\ T.open[i].used
      /\ Cardinality(NamesIn(U.fds, i)) \in Nat
      /\ Cardinality(NamesIn(U.fds, i)) = 0 <=> NamesIn(U.fds, i) = {}
    BY <1>0, <1>2, <1>3, FS_CardinalityType, FS_EmptySet DEF Refs
<1> HIDE DEF i
<1>5. /\ \A j \in OpenIdx : j # i => U.open[j] = T.open[j]
      /\ U.open[i] = IF T.open[i].refs <= 1 THEN FreeOpen
                     ELSE [T.open[i] EXCEPT !.refs = T.open[i].refs - 1]
    <2>1. U.open = [T.open EXCEPT ![i] = IF T.open[i].refs <= 1 THEN FreeOpen
                                         ELSE [T.open[i] EXCEPT !.refs = T.open[i].refs - 1]]
        BY DEF LessOne, i
    <2>2. T.open \in [OpenIdx -> OpenFile]
        BY Fields
    <2> QED BY <1>0, <2>1, <2>2
<1>6. /\ T.open[i].refs <= 1 => U.open[i].refs = 0 /\ ~U.open[i].used
      /\ T.open[i].refs > 1 => /\ U.open[i].refs = T.open[i].refs - 1 /\ U.open[i].used
                               /\ U.open[i].owner = T.open[i].owner
    BY <1>0, <1>4, <1>5, Fields DEF FreeOpen, OpenFile
<1>7. \A j \in OpenIdx : /\ U.open[j].refs = Cardinality(NamesIn(U.fds, j))
                         /\ U.open[j].used = (NamesIn(U.fds, j) # {})
    <2> TAKE j \in OpenIdx
    <2>1. CASE j = i
        <3>1. T.open[i].refs \in Nat
            BY <1>0, Fields
        <3>2. U.open[i].refs = Cardinality(NamesIn(U.fds, i))
            BY <1>4, <1>6, <3>1
        <3>3. U.open[i].used <=> NamesIn(U.fds, i) # {}
            BY <1>4, <1>6, <3>1
        <3>4. U.open[i].used \in BOOLEAN
            BY <1>0, Fields DEF OpenFile
        <3> QED BY <2>1, <3>2, <3>3, <3>4
    <2>2. CASE j # i
        BY <1>0, <1>2, <1>5, <2>2, Sizes DEF Refs
    <2> QED BY <2>1, <2>2
<1>8. U.openCount = Cardinality({j \in OpenIdx : U.open[j].used})
    <2> DEFINE A == {j \in OpenIdx : T.open[j].used}
               B == {j \in OpenIdx : U.open[j].used}
    <2>0. A \in SUBSET OpenIdx /\ IsFiniteSet(A) /\ i \in A
        BY <1>0, <1>4, Sizes, FS_Subset
    <2>1. CASE T.open[i].refs > 1
        <3>1. A = B
            BY <1>0, <1>4, <1>5, <1>6, <2>1
        <3>2. U.openCount = T.openCount
            BY <1>0, <2>1, Fields DEF LessOne, i
        <3> QED BY <3>1, <3>2 DEF Refs
    <2>2. CASE T.open[i].refs <= 1
        <3>1. B = A \ {i}
            BY <1>0, <1>5, <1>6, <2>2
        <3>2. Cardinality(B) = Cardinality(A) - 1 /\ Cardinality(A) \in Nat /\ Cardinality(B) \in Nat
            <4> HIDE DEF A, B
            <4> QED BY <2>0, <3>1, FS_RemoveElement, FS_CardinalityType
        <3>3. T.openCount = Cardinality(A)
            BY DEF Refs
        <3>4. U.openCount = IF T.openCount > 0 THEN T.openCount - 1 ELSE 0
            BY <2>2 DEF LessOne, i
        <3> HIDE DEF A, B
        <3>5. U.openCount = Cardinality(B)
            BY <3>2, <3>3, <3>4
        <3> QED BY <3>5 DEF B
    <2> QED BY <1>0, <2>1, <2>2, Fields
<1>9. \A r \in Slots, fe \in Fds : U.fds[r][fe] >= 0 =>
         U.proc[r].state # "FREE" /\ U.open[U.fds[r][fe]].owner = U.proc[r].pid
    <2> SUFFICES ASSUME NEW r \in Slots, NEW fe \in Fds, U.fds[r][fe] >= 0
                 PROVE  U.proc[r].state # "FREE" /\ U.open[U.fds[r][fe]].owner = U.proc[r].pid
        OBVIOUS
    <2>1. <<r, fe>> # <<s, fd>> /\ U.fds[r][fe] = T.fds[r][fe]
        BY <1>1
    <2>2. T.proc[r].state # "FREE" /\ T.open[T.fds[r][fe]].owner = T.proc[r].pid
        BY <2>1 DEF Own
    <2> DEFINE j == T.fds[r][fe]
    <2>3. j \in OpenIdx
        BY <2>1, Fields
    <2>4. U.open[j].owner = T.open[j].owner
        <3>1. CASE j # i
            BY <1>5, <2>3, <3>1
        <3>2. CASE j = i
            <4>1. <<r, fe>> \in NamesIn(U.fds, i)
                BY <2>1, <3>2 DEF NamesIn
            <4>2. T.open[i].refs > 1
                BY <1>0, <1>4, <4>1, Fields
            <4> QED BY <1>6, <3>2, <4>2
        <3> QED BY <3>1, <3>2
    <2> QED BY <2>1, <2>2, <2>4
<1>10. \A q, r \in Slots, fe, ff \in Fds : U.fds[q][fe] >= 0 /\ U.fds[q][fe] = U.fds[r][ff] => q = r
    BY <1>1 DEF Own
<1> QED BY <1>7, <1>8, <1>9, <1>10 DEF Refs, Own

LEMMA DropFrame ==
    ASSUME NEW T \in Tables, Own(T), NEW s \in Slots, NEW fd \in Fds, T.fds[s][fd] >= 0,
           NEW U \in Tables, LessOne(T, U, s, fd), U.files = T.files,
           \A r \in Slots \ {s} : U.proc[r] = T.proc[r]
    PROVE  Only(T, U, s) /\ Recedes(T, U)
<1> DEFINE i == T.fds[s][fd]
<1>0. i \in OpenIdx
    BY Fields
<1>1. \A r \in Slots \ {s} : U.fds[r] = T.fds[r]
    BY Fields DEF LessOne, SetFd
<1>2. /\ \A j \in OpenIdx : j # i => U.open[j] = T.open[j]
      /\ U.open[i] = IF T.open[i].refs <= 1 THEN FreeOpen
                     ELSE [T.open[i] EXCEPT !.refs = T.open[i].refs - 1]
    <2>1. U.open = [T.open EXCEPT ![i] = IF T.open[i].refs <= 1 THEN FreeOpen
                                         ELSE [T.open[i] EXCEPT !.refs = T.open[i].refs - 1]]
        BY DEF LessOne
    <2>2. T.open \in [OpenIdx -> OpenFile]
        BY Fields
    <2> HIDE DEF i
    <2> QED BY <1>0, <2>1, <2>2
<1>3. \A r \in Slots \ {s}, fe \in Fds : T.fds[r][fe] >= 0 => U.open[T.fds[r][fe]] = T.open[T.fds[r][fe]]
    <2> SUFFICES ASSUME NEW r \in Slots \ {s}, NEW fe \in Fds, T.fds[r][fe] >= 0
                 PROVE  U.open[T.fds[r][fe]] = T.open[T.fds[r][fe]]
        OBVIOUS
    <2>1. T.fds[r][fe] # i /\ T.fds[r][fe] \in OpenIdx
        BY Fields DEF Own
    <2> QED BY <1>2, <2>1
<1>4. \A j \in OpenIdx : U.open[j].node = "tmp" =>
         /\ T.open[j].node = "tmp" /\ U.open[j].file = T.open[j].file
         /\ U.open[j].offset = T.open[j].offset
    <2> TAKE j \in OpenIdx
    <2> HIDE DEF i
    <2>1. FreeOpen.node # "tmp"
        BY Sizes DEF FreeOpen
    <2>2. [T.open[i] EXCEPT !.refs = T.open[i].refs - 1].node = T.open[i].node
          /\ [T.open[i] EXCEPT !.refs = T.open[i].refs - 1].file = T.open[i].file
          /\ [T.open[i] EXCEPT !.refs = T.open[i].refs - 1].offset = T.open[i].offset
        BY <1>0, Fields DEF OpenFile
    <2> QED BY <1>2, <2>1, <2>2
<1> QED BY <1>1, <1>3, <1>4 DEF Only, Recedes

\* What Unref makes of the tables.
LEMMA UnrefFields ==
    ASSUME NEW T \in Tables, NEW i \in OpenIdx
    PROVE  LET U == Unref(T, i) IN
           /\ U \in Tables
           /\ U.proc = T.proc /\ U.fds = T.fds /\ U.files = T.files /\ U.fileCount = T.fileCount
           /\ U.live = T.live
           /\ U.open = [T.open EXCEPT ![i] = IF T.open[i].refs <= 1 THEN FreeOpen
                                             ELSE [T.open[i] EXCEPT !.refs = T.open[i].refs - 1]]
           /\ U.openCount = IF T.open[i].refs <= 1
                            THEN (IF T.openCount > 0 THEN T.openCount - 1 ELSE 0) ELSE T.openCount
<1> DEFINE U == Unref(T, i)
<1>0. T.open[i] \in OpenFile /\ T.open[i].refs \in Nat /\ T.openCount \in Nat
    BY Fields
<1>1. CASE T.open[i].refs <= 1
    <2>1. U = [T EXCEPT !.open = [T.open EXCEPT ![i] = FreeOpen],
                        !.openCount = IF T.openCount > 0 THEN T.openCount - 1 ELSE 0]
        BY <1>1 DEF Unref, Tables
    <2>2. FreeOpen \in OpenFile
        BY Sizes DEF FreeOpen, OpenFile
    <2>3. [T.open EXCEPT ![i] = FreeOpen] \in [OpenIdx -> OpenFile]
        BY <2>2, Fields
    <2>4. (IF T.openCount > 0 THEN T.openCount - 1 ELSE 0) \in Nat
        BY <1>0
    <2> HIDE DEF U
    <2>5. U \in Tables
        BY <2>1, <2>3, <2>4 DEF Tables
    <2> QED BY <1>1, <2>1, <2>5 DEF Tables, U
<1>2. CASE ~ (T.open[i].refs <= 1)
    <2>1. U = [T EXCEPT !.open = [T.open EXCEPT ![i] = [T.open[i] EXCEPT !.refs = T.open[i].refs - 1]]]
        BY <1>2 DEF Unref, Tables
    <2>2. [T.open[i] EXCEPT !.refs = T.open[i].refs - 1] \in OpenFile
        BY <1>0, <1>2 DEF OpenFile
    <2>3. [T.open EXCEPT ![i] = [T.open[i] EXCEPT !.refs = T.open[i].refs - 1]] \in [OpenIdx -> OpenFile]
        BY <2>2, Fields
    <2> HIDE DEF U
    <2>5. U \in Tables
        BY <2>1, <2>3 DEF Tables
    <2> QED BY <1>2, <2>1, <2>5 DEF Tables, U
<1> QED BY <1>1, <1>2

\* A descriptor and the counter of its slot are written together.
SetRow(T, s, fd, i, n) == [T EXCEPT !.fds[s][fd] = i, !.proc[s].fdCount = n]
LEMMA RowFields ==
    ASSUME NEW T \in Tables, NEW s \in Slots, NEW fd \in Fds, NEW i \in OpenIdx \union {-1},
           NEW n \in Nat, NEW U, U = SetRow(T, s, fd, i, n)
    PROVE  /\ U \in Tables /\ U.fds = SetFd(T.fds, s, fd, i)
           /\ U.proc = [T.proc EXCEPT ![s] = [T.proc[s] EXCEPT !.fdCount = n]]
           /\ U.open = T.open /\ U.files = T.files /\ U.openCount = T.openCount
           /\ U.fileCount = T.fileCount /\ U.live = T.live
<1> DEFINE P == [T.proc EXCEPT ![s] = [T.proc[s] EXCEPT !.fdCount = n]]
           F == SetFd(T.fds, s, fd, i)
<1>1. U = [T EXCEPT !.fds = F, !.proc = P]
    BY DEF Tables, SetFd, SetRow
<1>0. T.proc[s] \in Proc
    BY Fields
<1>2. [T.proc[s] EXCEPT !.fdCount = n] \in Proc
    BY <1>0 DEF Proc
<1>3. P \in [Slots -> Proc] /\ F \in [Slots -> [Fds -> OpenIdx \union {-1}]]
    BY <1>2, Fields DEF SetFd
<1> HIDE DEF P, F
<1>4. U \in Tables /\ U.proc = P /\ U.fds = F
    BY <1>1, <1>3 DEF Tables
<1>5. /\ U.open = T.open /\ U.files = T.files /\ U.openCount = T.openCount
      /\ U.fileCount = T.fileCount /\ U.live = T.live
    BY <1>1 DEF Tables
<1> QED BY <1>4, <1>5 DEF P, F

\* The number of descriptors of the slots after one has been written.
OpenFds(fds, s) == {fd \in Fds : fds[s][fd] >= 0}
LEMMA CountRow ==
    ASSUME NEW fds \in Rows, NEW s \in Slots, NEW fd \in Fds, NEW i \in OpenIdx \union {-1},
           NEW g, g = SetFd(fds, s, fd, i)
    PROVE  /\ \A r \in Slots \ {s} : g[r] = fds[r]
           /\ Cardinality(OpenFds(fds, s)) \in Nat
           /\ fds[s][fd] >= 0 /\ i = -1 =>
                /\ Cardinality(OpenFds(g, s)) = Cardinality(OpenFds(fds, s)) - 1
                /\ Cardinality(OpenFds(fds, s)) > 0
           /\ fds[s][fd] < 0 /\ i >= 0 =>
                Cardinality(OpenFds(g, s)) = Cardinality(OpenFds(fds, s)) + 1
<1>1. /\ \A r \in Slots \ {s} : g[r] = fds[r]
      /\ g[s][fd] = i /\ \A fe \in Fds : fe # fd => g[s][fe] = fds[s][fe]
    BY DEF SetFd, Rows
<1> DEFINE A == OpenFds(fds, s)
           B == OpenFds(g, s)
<1>2. IsFiniteSet(A) /\ IsFiniteSet(B)
    <2>1. A \in SUBSET Fds /\ B \in SUBSET Fds
        BY DEF OpenFds
    <2> QED BY <2>1, Sizes, FS_Subset
<1>3. Cardinality(A) \in Nat /\ Cardinality(B) \in Nat
    BY <1>2, FS_CardinalityType
<1>4. CASE fds[s][fd] >= 0 /\ i = -1
    <2>1. B = A \ {fd} /\ fd \in A
        BY <1>1, <1>4 DEF OpenFds
    <2> HIDE DEF A, B
    <2>2. Cardinality(B) = Cardinality(A) - 1
        BY <1>2, <2>1, FS_RemoveElement
    <2> QED BY <1>1, <1>3, <1>4, <2>2 DEF A, B
<1>5. CASE fds[s][fd] < 0 /\ i >= 0
    <2>1. B = A \union {fd} /\ fd \notin A
        <3>1. fd \notin A /\ fd \in B
            <4>0. fds[s][fd] \in OpenIdx \union {-1}
                BY DEF Rows
            <4>1. fds[s][fd] < 0 => ~(fds[s][fd] >= 0)
                BY <4>0, Indexes
            <4>2. ~(fds[s][fd] >= 0) /\ g[s][fd] >= 0
                BY <1>1, <1>5, <4>1
            <4> QED BY <4>2 DEF OpenFds
        <3>2. \A fe \in Fds : fe # fd => (fe \in A <=> fe \in B)
            BY <1>1 DEF OpenFds
        <3> QED BY <3>1, <3>2 DEF OpenFds
    <2> HIDE DEF A, B
    <2>2. Cardinality(B) = Cardinality(A) + 1
        BY <1>2, <2>1, FS_AddElement
    <2> QED BY <1>1, <1>3, <1>5, <2>2 DEF A, B
<1> QED BY <1>1, <1>3, <1>4, <1>5

LEMMA FdCountIs ==
    ASSUME NEW T, NEW s
    PROVE  FdCount(T, s) <=> T.proc[s].fdCount = Cardinality(OpenFds(T.fds, s))
BY DEF FdCount, OpenFds

\* vfs_close: a descriptor that names something goes, and its reference with it.
LEMMA CloseKeeps ==
    ASSUME NEW T, Sound(T), NEW s \in Slots, NEW fd \in Fds, T.fds[s][fd] >= 0
    PROVE  LET U == VfsClose(T, s, fd).t IN
           /\ VfsClose(T, s, fd).ret = 0
           /\ Sound(U) /\ Only(T, U, s) /\ Recedes(T, U)
           /\ U.fds = SetFd(T.fds, s, fd, -1)
           /\ U.proc[s].state = T.proc[s].state /\ U.proc[s].pid = T.proc[s].pid
<1> DEFINE i == T.fds[s][fd]
           c == T.proc[s].fdCount
           n == IF c > 0 THEN c - 1 ELSE 0
           V == SetRow(T, s, fd, -1, n)
           U == Unref(V, i)
<1>0. T \in Tables /\ Refs(T) /\ Own(T) /\ i \in OpenIdx /\ i >= 0 /\ T.proc[s] \in Proc
    BY Fields DEF Sound
<1>1. T.open[i].used
    <2>1. <<s, fd>> \in NamesIn(T.fds, i)
        BY DEF NamesIn
    <2> QED BY <1>0, <2>1 DEF Refs
<1>2. VfsClose(T, s, fd).t = U /\ VfsClose(T, s, fd).ret = 0
    <2>1. VfsClose(T, s, fd) = Ret(U, 0)
        <3>1. ~ (i < 0 \/ ~T.open[i].used)
            <4>1. i \in Nat
                BY <1>0, Sizes
            <4> HIDE DEF i
            <4> QED BY <1>1, <4>1
        <3> HIDE DEF n
        <3>2. V = [T EXCEPT !.fds[s][fd] = -1, !.proc[s].fdCount = IF @ > 0 THEN @ - 1 ELSE 0]
            BY <1>0 DEF Tables, Proc, SetRow, n
        <3> QED BY <3>1, <3>2 DEF VfsClose
    <2> HIDE DEF U
    <2> QED BY <2>1 DEF Ret
<1>3. c \in Nat /\ n \in Nat
    BY <1>0 DEF Proc
<1> HIDE DEF n
<1>4. /\ V \in Tables /\ V.fds = SetFd(T.fds, s, fd, -1)
      /\ V.proc = [T.proc EXCEPT ![s] = [T.proc[s] EXCEPT !.fdCount = n]]
      /\ V.open = T.open /\ V.files = T.files /\ V.openCount = T.openCount
      /\ V.fileCount = T.fileCount /\ V.live = T.live
    BY <1>0, <1>3, RowFields
<1> HIDE DEF V, i
<1>5. /\ U \in Tables
      /\ U.proc = V.proc /\ U.fds = V.fds /\ U.files = V.files /\ U.fileCount = V.fileCount
      /\ U.live = V.live
      /\ U.open = [V.open EXCEPT ![i] = IF V.open[i].refs <= 1 THEN FreeOpen
                                        ELSE [V.open[i] EXCEPT !.refs = V.open[i].refs - 1]]
      /\ U.openCount = IF V.open[i].refs <= 1
                       THEN (IF V.openCount > 0 THEN V.openCount - 1 ELSE 0) ELSE V.openCount
    BY <1>0, <1>4, UnrefFields
<1> HIDE DEF U
<1>6. LessOne(T, U, s, fd)
    BY <1>4, <1>5 DEF LessOne, i
<1>7. /\ \A r \in Slots : U.proc[r].state = T.proc[r].state /\ U.proc[r].pid = T.proc[r].pid
      /\ \A r \in Slots \ {s} : U.proc[r] = T.proc[r]
      /\ U.proc[s].fdCount = n
    <2>1. U.proc = [T.proc EXCEPT ![s] = [T.proc[s] EXCEPT !.fdCount = n]]
        BY <1>4, <1>5
    <2> QED BY <1>0, <2>1, Fields DEF Proc
<1>8. Refs(U) /\ Own(U)
    BY <1>0, <1>5, <1>6, <1>7, DropKeeps DEF i
<1>9. Only(T, U, s) /\ Recedes(T, U)
    BY <1>0, <1>4, <1>5, <1>6, <1>7, DropFrame DEF i
<1>10. FileCount(U) /\ Alive(U)
    <2>1. U.files = T.files /\ U.fileCount = T.fileCount /\ U.live = T.live
        BY <1>4, <1>5
    <2>2. Taken(U.proc) = Taken(T.proc)
        BY <1>7 DEF Taken
    <2> QED BY <1>7, <2>1, <2>2, Sizes DEF Sound, FileCount, Alive
<1>11. \A r \in Slots : FdCount(U, r)
    <2>0. T.fds \in Rows /\ U.fds = SetFd(T.fds, s, fd, -1) /\ T.fds[s][fd] >= 0
        BY <1>0, <1>4, <1>5, Fields DEF Rows
    <2>1. /\ \A r \in Slots \ {s} : U.fds[r] = T.fds[r]
          /\ Cardinality(OpenFds(U.fds, s)) = Cardinality(OpenFds(T.fds, s)) - 1
          /\ Cardinality(OpenFds(T.fds, s)) > 0
        BY <2>0, CountRow
    <2>2. FdCount(U, s)
        <3>1. T.proc[s].fdCount = Cardinality(OpenFds(T.fds, s))
            BY FdCountIs DEF Sound
        <3> QED BY <1>7, <2>1, <3>1, FdCountIs DEF n
    <2>3. ASSUME NEW r \in Slots, r # s PROVE FdCount(U, r)
        <3>1. FdCount(T, r) /\ U.fds[r] = T.fds[r] /\ U.proc[r] = T.proc[r]
            BY <1>7, <2>1, <2>3 DEF Sound
        <3> QED BY <3>1 DEF FdCount
    <2> QED BY <2>2, <2>3
<1>12. Sound(U) /\ U.fds = SetFd(T.fds, s, fd, -1)
    BY <1>4, <1>5, <1>8, <1>10, <1>11 DEF Sound
<1> QED BY <1>2, <1>7, <1>9, <1>12

-----------------------------------------------------------------------------
(* The release of all descriptors of a process.                            *)

LEMMA OnlyTransitive ==
    ASSUME NEW T \in Tables, NEW U, NEW V, NEW s, Only(T, U, s), Only(U, V, s)
    PROVE  Only(T, V, s)
BY DEF Only

LEMMA RecedesTransitive ==
    ASSUME NEW T, NEW U, NEW V, Recedes(T, U), Recedes(U, V)
    PROVE  Recedes(T, V)
BY DEF Recedes

\* One round of fd_release_owned.
FreeFd(U, s, n) ==
    LET i == U.fds[s][n]
        V == IF i >= 0 /\ U.open[i].used THEN Unref(U, i) ELSE U
    IN  [V EXCEPT !.fds[s][n] = -1]

LEMMA FreeFdKeeps ==
    ASSUME NEW T, NEW s \in Slots, SoundBut(T, s), NEW fd \in Fds,
           NEW U, U = FreeFd(T, s, fd)
    PROVE  /\ SoundBut(U, s) /\ Only(T, U, s) /\ Recedes(T, U)
           /\ U.proc = T.proc /\ U.live = T.live /\ U.fds = SetFd(T.fds, s, fd, -1)
<1> DEFINE i == T.fds[s][fd]
<1>0. T \in Tables /\ Refs(T) /\ Own(T) /\ FileCount(T) /\ Alive(T) /\ i \in OpenIdx \union {-1}
    BY Fields DEF SoundBut
<1>a. SetFd(T.fds, s, fd, -1) \in [Slots -> [Fds -> OpenIdx \union {-1}]]
    BY <1>0, Fields DEF SetFd
<1>1. CASE i >= 0
    <2>0. i \in OpenIdx
        BY <1>0, <1>1, Indexes
    <2>1. T.open[i].used
        <3>1. <<s, fd>> \in NamesIn(T.fds, i)
            BY DEF NamesIn
        <3> QED BY <1>0, <2>0, <3>1 DEF Refs
    <2> DEFINE V == Unref(T, i)
    <2>2. U = [V EXCEPT !.fds[s][fd] = -1]
        BY <1>1, <2>1 DEF FreeFd
    <2> HIDE DEF V
    <2>3. /\ V \in Tables
          /\ V.proc = T.proc /\ V.fds = T.fds /\ V.files = T.files /\ V.fileCount = T.fileCount
          /\ V.live = T.live
          /\ V.open = [T.open EXCEPT ![i] = IF T.open[i].refs <= 1 THEN FreeOpen
                                            ELSE [T.open[i] EXCEPT !.refs = T.open[i].refs - 1]]
          /\ V.openCount = IF T.open[i].refs <= 1
                           THEN (IF T.openCount > 0 THEN T.openCount - 1 ELSE 0) ELSE T.openCount
        <3> HIDE DEF i
        <3> QED BY <1>0, <2>0, UnrefFields DEF V
    <2> DEFINE F == SetFd(T.fds, s, fd, -1)
    <2>4. U = [V EXCEPT !.fds = F]
        BY <2>2, <2>3 DEF Tables, SetFd
    <2>5. F \in [Slots -> [Fds -> OpenIdx \union {-1}]]
        BY <1>a
    <2> HIDE DEF F, i
    <2>6. /\ U \in Tables /\ U.proc = V.proc /\ U.fds = F /\ U.files = V.files
          /\ U.fileCount = V.fileCount /\ U.live = V.live /\ U.open = V.open
          /\ U.openCount = V.openCount
        BY <2>3, <2>4, <2>5 DEF Tables
    <2>7. LessOne(T, U, s, fd)
        BY <2>3, <2>6 DEF LessOne, i, F
    <2>8. Refs(U) /\ Own(U)
        BY <1>0, <1>1, <2>3, <2>6, <2>7, DropKeeps DEF i
    <2>9. Only(T, U, s) /\ Recedes(T, U)
        BY <1>0, <1>1, <2>3, <2>6, <2>7, DropFrame DEF i
    <2>10. FileCount(U) /\ Alive(U)
        BY <1>0, <2>3, <2>6 DEF FileCount, Alive
    <2>11. \A r \in Slots \ {s} : FdCount(U, r)
        BY <2>3, <2>6, <2>9 DEF SoundBut, FdCount, Only
    <2> QED BY <2>3, <2>6, <2>8, <2>9, <2>10, <2>11 DEF SoundBut, F
<1>2. CASE ~(i >= 0)
    <2>1. i = -1
        BY <1>0, <1>2, Indexes
    <2>2. U = [T EXCEPT !.fds[s][fd] = -1]
        BY <1>2 DEF FreeFd
    <2>3. T.fds = SetFd(T.fds, s, fd, -1)
        BY <1>0, <2>1, Fields DEF SetFd
    <2>4. U = [T EXCEPT !.fds = SetFd(T.fds, s, fd, -1)]
        BY <1>0, <2>2 DEF Tables, SetFd
    <2>5. U = T
        BY <1>0, <2>3, <2>4 DEF Tables
    <2> QED BY <1>0, <2>3, <2>5 DEF SoundBut, Only, Recedes
<1> QED BY <1>1, <1>2

\* The tables when the descriptors below m have been released.
Released(T, U, s, m) ==
    /\ SoundBut(U, s) /\ Only(T, U, s) /\ Recedes(T, U)
    /\ U.proc = T.proc /\ U.live = T.live
    /\ \A fd \in 0..(m - 1) : U.fds[s][fd] = -1

LEMMA ReleaseRounds ==
    ASSUME NEW T, NEW s
    PROVE  \E u : /\ u[-1] = T
                  /\ \A n \in Fds : u[n] = FreeFd(u[n - 1], s, n)
                  /\ FdReleaseOwned(T, s) = [u[Cardinality(Fds) - 1] EXCEPT !.proc[s].fdCount = 0]
<1> DEFINE c == Cardinality(Fds)
           Rounds(f, m) == f = [n \in -1..(m - 1) |-> IF n = -1 THEN T ELSE FreeFd(f[n - 1], s, n)]
           Bad == {m \in 0..c : ~ \E f : Rounds(f, m)}
<1>0. c \in Nat /\ {-1} \union Fds = -1..(c - 1) /\ Fds = 0..(c - 1)
    BY Sizes
<1> HIDE DEF c
<1>1. Bad = {}
    <2> SUFFICES ASSUME Bad # {} PROVE FALSE
        OBVIOUS
    <2>0. Bad \subseteq 0..c /\ Bad \in SUBSET Nat
        BY <1>0
    <2> HIDE DEF Bad
    <2>1. PICK m \in Bad : \A j \in Bad : m =< j
        BY <2>0, LeastNatural
    <2>4. m \in 0..c /\ (m # 0 => m-1 \in 0..c /\ m-1 \notin Bad)
        BY <1>0, <2>0, <2>1
    <2> USE DEF Bad
    <2>2. CASE m = 0
        <3>1. Rounds([n \in -1..(0 - 1) |-> T], 0)
            OBVIOUS
        <3> QED BY <2>2, <3>1
    <2>3. CASE m # 0
        <3>1. m \in 1..c
            BY <1>0, <2>3, <2>4
        <3>2. PICK f : Rounds(f, m-1)
            <4> HIDE DEF Rounds
            <4> QED BY <2>3, <2>4
        <3> DEFINE g == [n \in -1..(m - 1) |->
                            IF n < m - 1 THEN f[n] ELSE FreeFd(f[m - 2], s, m - 1)]
        <3>3. Rounds(g, m)
            <4>1. ASSUME NEW n \in -1..(m - 1)
                  PROVE  g[n] = IF n = -1 THEN T ELSE FreeFd(g[n - 1], s, n)
                <5>1. CASE n < m - 1
                    <6>1. n \in -1..((m - 1) - 1) /\ m \in Nat
                        BY <1>0, <3>1, <5>1
                    <6>2. f[n] = IF n = -1 THEN T ELSE FreeFd(f[n - 1], s, n)
                        BY <3>2, <6>1
                    <6>3. g[n] = f[n] /\ (n # -1 => g[n - 1] = f[n - 1])
                        BY <5>1, <6>1
                    <6> QED BY <6>2, <6>3
                <5>2. CASE ~(n < m - 1)
                    <6>1. n = m - 1 /\ n # -1 /\ n - 1 = m - 2 /\ m - 2 \in -1..(m - 1)
                          /\ m - 2 < m - 1
                        BY <1>0, <3>1, <5>2
                    <6>2. g[n] = FreeFd(f[m - 2], s, m - 1) /\ g[m - 2] = f[m - 2]
                        BY <6>1
                    <6> QED BY <6>1, <6>2
                <5> QED BY <5>1, <5>2
            <4> HIDE DEF g
            <4>2. g = [n \in -1..(m - 1) |-> g[n]]
                BY DEF g
            <4> QED BY <4>1, <4>2
        <3> QED BY <2>4, <3>3
    <2> QED BY <2>2, <2>3
<1>2. PICK f : Rounds(f, c)
    <2> HIDE DEF Rounds
    <2>1. c \in 0..c
        BY <1>0
    <2> QED BY <2>1, <1>1
<1> DEFINE u == CHOOSE g : g = [n \in {-1} \union Fds |-> IF n = -1 THEN T ELSE FreeFd(g[n - 1], s, n)]
<1>3. f = [n \in {-1} \union Fds |-> IF n = -1 THEN T ELSE FreeFd(f[n - 1], s, n)]
    BY <1>0, <1>2
<1>4. u = [n \in {-1} \union Fds |-> IF n = -1 THEN T ELSE FreeFd(u[n - 1], s, n)]
    BY <1>3
<1>5. FdReleaseOwned(T, s) = [u[Cardinality(Fds) - 1] EXCEPT !.proc[s].fdCount = 0]
    BY DEF FdReleaseOwned, FreeFd
<1> HIDE DEF u
<1>6. u[-1] = T /\ \A n \in Fds : u[n] = FreeFd(u[n - 1], s, n)
    <2>1. \A n \in Fds : n # -1
        BY <1>0
    <2> QED BY <1>4, <2>1
<1> QED BY <1>5, <1>6

LEMMA ReleaseKeeps ==
    ASSUME NEW T, Sound(T), NEW s \in Slots, NEW U, U = FdReleaseOwned(T, s)
    PROVE  /\ Sound(U) /\ Only(T, U, s) /\ Recedes(T, U)
           /\ U.proc = [T.proc EXCEPT ![s] = [T.proc[s] EXCEPT !.fdCount = 0]]
           /\ U.live = T.live /\ U.fds[s] = NoFds
<1>0. Cardinality(Fds) \in Nat /\ Fds = 0..(Cardinality(Fds) - 1)
    BY Sizes
<1>1. PICK u : /\ u[-1] = T
               /\ \A n \in Fds : u[n] = FreeFd(u[n - 1], s, n)
               /\ FdReleaseOwned(T, s) = [u[Cardinality(Fds) - 1] EXCEPT !.proc[s].fdCount = 0]
    BY ReleaseRounds
<1> DEFINE c == Cardinality(Fds)
           Bad == {m \in 0..c : ~Released(T, u[m - 1], s, m)}
<1>a. T \in Tables
    BY DEF Sound
<1> HIDE DEF c
<1>2. Bad = {}
    <2> SUFFICES ASSUME Bad # {} PROVE FALSE
        OBVIOUS
    <2>0. Bad \subseteq 0..c /\ Bad \in SUBSET Nat
        BY <1>0 DEF c
    <2> HIDE DEF Bad
    <2>1. PICK m \in Bad : \A j \in Bad : m =< j
        BY <2>0, LeastNatural
    <2>4. m \in 0..c /\ (m # 0 => m-1 \in 0..c /\ m-1 \notin Bad)
        BY <1>0, <2>0, <2>1 DEF c
    <2> USE DEF Bad
    <2>2. CASE m = 0
        <3>1. m - 1 = -1 /\ 0..(m - 1) = {}
            BY <2>2
        <3>2. Released(T, T, s, m)
            BY <3>1 DEF Released, Sound, SoundBut, Only, Recedes
        <3> QED BY <1>1, <3>1, <3>2
    <2>3. CASE m # 0
        <3> DEFINE fd == m - 1
        <3>1. fd \in Fds /\ fd \in 0..c /\ fd \notin Bad /\ fd \in Nat
            BY <1>0, <2>3, <2>4 DEF c
        <3> HIDE DEF fd, Bad
        <3>2. Released(T, u[fd - 1], s, fd)
            BY <3>1 DEF Bad
        <3>3. u[fd] = FreeFd(u[fd - 1], s, fd)
            BY <1>1, <3>1
        <3>4. /\ SoundBut(u[fd], s) /\ Only(u[fd - 1], u[fd], s) /\ Recedes(u[fd - 1], u[fd])
              /\ u[fd].proc = u[fd - 1].proc /\ u[fd].live = u[fd - 1].live
              /\ u[fd].fds = SetFd(u[fd - 1].fds, s, fd, -1)
            BY <3>1, <3>2, <3>3, FreeFdKeeps DEF Released
        <3>5. \A fe \in 0..fd : u[fd].fds[s][fe] = -1
            <4>1. u[fd - 1] \in Tables
                BY <3>2 DEF Released, SoundBut
            <4>2. \A fe \in 0..fd : fe \in Fds /\ (fe # fd => fe \in 0..(fd - 1))
                BY <1>0, <3>1
            <4>3. \A fe \in 0..(fd - 1) : u[fd - 1].fds[s][fe] = -1
                BY <3>2 DEF Released
            <4>4. u[fd - 1].fds \in [Slots -> [Fds -> OpenIdx \union {-1}]]
                BY <4>1, Fields
            <4>5. \A fe \in Fds : u[fd].fds[s][fe] = IF fe = fd THEN -1 ELSE u[fd - 1].fds[s][fe]
                BY <3>1, <3>4, <4>4 DEF SetFd
            <4> QED BY <4>2, <4>3, <4>5
        <3>6. Only(T, u[fd], s) /\ Recedes(T, u[fd])
            BY <1>a, <3>2, <3>4, OnlyTransitive, RecedesTransitive DEF Released
        <3>7. m - 1 = fd
            BY DEF fd
        <3>8. Released(T, u[fd], s, m)
            BY <3>2, <3>4, <3>5, <3>6, <3>7 DEF Released
        <3> QED BY <3>7, <3>8 DEF Bad
    <2> QED BY <2>2, <2>3
<1> DEFINE V == u[c - 1]
<1>3. Released(T, V, s, c)
    <2>1. c \in 0..c
        BY <1>0 DEF c
    <2> QED BY <1>2, <2>1
<1>4. U = [V EXCEPT !.proc[s].fdCount = 0]
    BY <1>1 DEF c
<1> HIDE DEF V
<1>5. /\ V \in Tables /\ SoundBut(V, s) /\ Only(T, V, s) /\ Recedes(T, V)
      /\ V.proc = T.proc /\ V.live = T.live /\ \A fd \in Fds : V.fds[s][fd] = -1
    BY <1>0, <1>3 DEF Released, SoundBut, c
<1> DEFINE P == [T.proc EXCEPT ![s] = [T.proc[s] EXCEPT !.fdCount = 0]]
<1>6. U = [V EXCEPT !.proc = P]
    BY <1>4, <1>5 DEF Tables
<1>7. T.proc[s] \in Proc
    BY <1>a, Fields
<1>8. [T.proc[s] EXCEPT !.fdCount = 0] \in Proc
    BY <1>7 DEF Proc
<1>9. P \in [Slots -> Proc]
    BY <1>a, <1>8, Fields
<1> HIDE DEF P
<1>10. /\ U \in Tables /\ U.proc = P /\ U.fds = V.fds /\ U.open = V.open /\ U.files = V.files
       /\ U.openCount = V.openCount /\ U.fileCount = V.fileCount /\ U.live = V.live
    BY <1>5, <1>6, <1>9 DEF Tables
<1>11. /\ \A r \in Slots : P[r].state = T.proc[r].state /\ P[r].pid = T.proc[r].pid
       /\ \A r \in Slots \ {s} : P[r] = T.proc[r]
       /\ P[s].fdCount = 0
    BY <1>a, <1>7, Fields DEF P, Proc
<1>12. Refs(U) /\ FileCount(U)
    BY <1>5, <1>10 DEF SoundBut, Refs, FileCount
<1>13. Own(U)
    BY <1>5, <1>10, <1>11 DEF SoundBut, Own
<1>14. Alive(U)
    <2>1. Taken(U.proc) = Taken(V.proc)
        BY <1>5, <1>10, <1>11 DEF Taken
    <2> QED BY <1>5, <1>10, <1>11, <2>1, Sizes DEF SoundBut, Alive
<1>15. \A r \in Slots : FdCount(U, r)
    <2>1. ASSUME NEW r \in Slots \ {s} PROVE FdCount(U, r)
        BY <1>5, <1>10, <1>11 DEF SoundBut, FdCount
    <2>2. FdCount(U, s)
        <3>1. OpenFds(U.fds, s) = {}
            BY <1>5, <1>10 DEF OpenFds
        <3> QED BY <1>10, <1>11, <3>1, FdCountIs, FS_EmptySet
    <2> QED BY <2>1, <2>2
<1>16. U.fds[s] = NoFds
    <2>1. U.fds[s] \in [Fds -> OpenIdx \union {-1}]
        BY <1>10, Fields
    <2> QED BY <1>5, <1>10, <2>1 DEF NoFds
<1>17. Only(T, U, s) /\ Recedes(T, U)
    BY <1>5, <1>10, <1>11 DEF Only, Recedes
<1>18. Sound(U)
    BY <1>10, <1>12, <1>13, <1>14, <1>15 DEF Sound
<1> QED BY <1>5, <1>10, <1>16, <1>17, <1>18 DEF P

-----------------------------------------------------------------------------
(* The process of a slot changes.                                          *)

\* A slot without descriptors gets another process, or none.
LEMMA ProcessKeeps ==
    ASSUME NEW T, Sound(T), NEW s \in Slots, s # ShellSlot, T.fds[s] = NoFds,
           NEW p \in Proc, p.fdCount = 0,
           NEW U, U.proc = [T.proc EXCEPT ![s] = p], U.fds = T.fds, U \in Tables,
           U.open = T.open, U.files = T.files, U.openCount = T.openCount,
           U.fileCount = T.fileCount,
           U.live = 1 + Cardinality(Taken(U.proc))
    PROVE  Sound(U) /\ Only(T, U, s) /\ Recedes(T, U)
<1>0. T \in Tables /\ Refs(T) /\ Own(T) /\ FileCount(T) /\ Alive(T)
    BY DEF Sound
<1>1. U.proc[s] = p /\ \A r \in Slots \ {s} : U.proc[r] = T.proc[r]
    BY <1>0, Fields
<1>2. \A fd \in Fds : T.fds[s][fd] = -1 /\ ~(T.fds[s][fd] >= 0)
    BY DEF NoFds
<1>3. Refs(U) /\ FileCount(U)
    BY <1>0 DEF Refs, FileCount
<1>4. Own(U)
    BY <1>0, <1>1, <1>2 DEF Own
<1>5. Alive(U)
    BY <1>0, <1>1, Sizes DEF Alive
<1>6. \A r \in Slots : FdCount(U, r)
    <2>1. ASSUME NEW r \in Slots \ {s} PROVE FdCount(U, r)
        BY <1>1 DEF Sound, FdCount
    <2>2. FdCount(U, s)
        <3>1. OpenFds(U.fds, s) = {}
            BY <1>2 DEF OpenFds
        <3> QED BY <1>1, <3>1, FdCountIs, FS_EmptySet
    <2> QED BY <2>1, <2>2
<1>7. Only(T, U, s) /\ Recedes(T, U)
    BY <1>1 DEF Only, Recedes
<1> QED BY <1>3, <1>4, <1>5, <1>6, <1>7 DEF Sound

\* The number of processes when one slot is taken, kept or given back.
LEMMA LiveCount ==
    ASSUME NEW f \in [Slots -> Proc], NEW s \in Slots, NEW p \in Proc,
           NEW g, g = [f EXCEPT ![s] = p]
    PROVE  /\ Cardinality(Taken(f)) \in Nat /\ Cardinality(Taken(g)) \in Nat
           /\ f[s].state = "FREE" /\ p.state # "FREE" =>
                Cardinality(Taken(g)) = Cardinality(Taken(f)) + 1
           /\ f[s].state # "FREE" /\ p.state # "FREE" =>
                Cardinality(Taken(g)) = Cardinality(Taken(f))
           /\ f[s].state # "FREE" /\ p.state = "FREE" =>
                Cardinality(Taken(g)) = Cardinality(Taken(f)) - 1
<1> DEFINE A == Taken(f)
           B == Taken(g)
<1>1. g[s] = p /\ \A r \in Slots \ {s} : g[r] = f[r]
    OBVIOUS
<1>2. IsFiniteSet(A) /\ IsFiniteSet(B)
    <2>1. A \in SUBSET Slots /\ B \in SUBSET Slots
        BY DEF Taken
    <2> QED BY <2>1, Sizes, FS_Subset
<1>3. Cardinality(A) \in Nat /\ Cardinality(B) \in Nat
    BY <1>2, FS_CardinalityType
<1>4. (f[s].state = "FREE" /\ p.state # "FREE") => B = A \union {s} /\ s \notin A
    BY <1>1 DEF Taken
<1>5. (f[s].state # "FREE" /\ p.state # "FREE") => B = A
    BY <1>1 DEF Taken
<1>6. (f[s].state # "FREE" /\ p.state = "FREE") => B = A \ {s} /\ s \in A
    BY <1>1 DEF Taken
<1> HIDE DEF A, B
<1>7. (f[s].state = "FREE" /\ p.state # "FREE") => Cardinality(B) = Cardinality(A) + 1
    BY <1>2, <1>4, FS_AddElement
<1>8. (f[s].state # "FREE" /\ p.state = "FREE") => Cardinality(B) = Cardinality(A) - 1
    BY <1>2, <1>6, FS_RemoveElement
<1> QED BY <1>3, <1>5, <1>7, <1>8 DEF A, B

LEMMA KilledKeeps ==
    ASSUME NEW T, Sound(T), NEW s \in Slots, s # ShellSlot, T.proc[s].state # "FREE",
           NEW U, U = Killed(T, s)
    PROVE  /\ Sound(U) /\ Only(T, U, s) /\ Recedes(T, U) /\ U.fds[s] = NoFds
           /\ U.proc[s].state = "EXITED" /\ U.live = T.live
<1> DEFINE V == FdReleaseOwned(T, s)
           p == [V.proc[s] EXCEPT !.state = "EXITED"]
           P == [V.proc EXCEPT ![s] = p]
<1>1. U = [V EXCEPT !.proc[s].state = "EXITED"]
    BY DEF Killed
<1> HIDE DEF V
<1>2. /\ Sound(V) /\ Only(T, V, s) /\ Recedes(T, V)
      /\ V.proc = [T.proc EXCEPT ![s] = [T.proc[s] EXCEPT !.fdCount = 0]]
      /\ V.live = T.live /\ V.fds[s] = NoFds
    BY ReleaseKeeps DEF V
<1>3. T \in Tables /\ V \in Tables /\ V.proc[s] \in Proc /\ T.proc[s] \in Proc
    BY <1>2, Fields DEF Sound
<1>4. V.proc[s] = [T.proc[s] EXCEPT !.fdCount = 0]
    BY <1>2, <1>3, Fields
<1>5. p \in Proc /\ p.fdCount = 0 /\ p.state = "EXITED" /\ V.proc[s].state # "FREE"
    BY <1>3, <1>4 DEF Proc
<1>6. U = [V EXCEPT !.proc = P]
    BY <1>1, <1>3 DEF Tables
<1> HIDE DEF p
<1>7. P \in [Slots -> Proc] /\ P[s] = p
    BY <1>3, <1>5, Fields
<1>8. /\ U \in Tables /\ U.proc = [V.proc EXCEPT ![s] = p] /\ U.fds = V.fds /\ U.open = V.open
      /\ U.files = V.files /\ U.openCount = V.openCount /\ U.fileCount = V.fileCount
      /\ U.live = V.live
    <2> HIDE DEF P
    <2>1. /\ U \in Tables /\ U.proc = P /\ U.fds = V.fds /\ U.open = V.open
          /\ U.files = V.files /\ U.openCount = V.openCount /\ U.fileCount = V.fileCount
          /\ U.live = V.live
        BY <1>3, <1>6, <1>7 DEF Tables
    <2> QED BY <2>1 DEF P
<1>9. U.live = 1 + Cardinality(Taken(U.proc))
    <2>1. V.live = 1 + Cardinality(Taken(V.proc))
        BY <1>2 DEF Sound, Alive
    <2>2. Cardinality(Taken(U.proc))
             = Cardinality(Taken(V.proc))
        <3> HIDE DEF P
        <3>1. V.proc \in [Slots -> Proc]
            BY <1>3, Fields
        <3> QED BY <1>3, <1>5, <1>8, <3>1, LiveCount
    <2> QED BY <1>8, <2>1, <2>2
<1>10. Sound(U) /\ Only(V, U, s) /\ Recedes(V, U)
    BY <1>2, <1>5, <1>8, <1>9, ProcessKeeps
<1>11. Only(T, U, s) /\ Recedes(T, U)
    BY <1>2, <1>3, <1>10, OnlyTransitive, RecedesTransitive
<1>12. U.proc[s].state = "EXITED"
    BY <1>5, <1>7, <1>8
<1> QED BY <1>2, <1>8, <1>10, <1>11, <1>12

LEMMA ReapedKeeps ==
    ASSUME NEW T, Sound(T), NEW s \in Slots, s # ShellSlot, T.proc[s].state # "FREE",
           NEW U, U = Reaped(T, s)
    PROVE  Sound(U) /\ Only(T, U, s) /\ Recedes(T, U)
<1> DEFINE V == FdReleaseOwned(T, s)
           n == IF V.live > 0 THEN V.live - 1 ELSE 0
           P == [V.proc EXCEPT ![s] = FreeProc]
<1>1. U = [V EXCEPT !.proc[s] = FreeProc, !.live = IF @ > 0 THEN @ - 1 ELSE 0]
    BY DEF Reaped
<1> HIDE DEF V
<1>2. /\ Sound(V) /\ Only(T, V, s) /\ Recedes(T, V)
      /\ V.proc = [T.proc EXCEPT ![s] = [T.proc[s] EXCEPT !.fdCount = 0]]
      /\ V.live = T.live /\ V.fds[s] = NoFds
    BY ReleaseKeeps DEF V
<1>3. T \in Tables /\ V \in Tables /\ V.proc[s] \in Proc /\ T.proc[s] \in Proc /\ V.live \in Nat
    BY <1>2, Fields DEF Sound
<1>4. V.proc[s] = [T.proc[s] EXCEPT !.fdCount = 0]
    BY <1>2, <1>3, Fields
<1>5. FreeProc \in Proc /\ FreeProc.fdCount = 0 /\ FreeProc.state = "FREE"
      /\ V.proc[s].state # "FREE"
    BY <1>3, <1>4, Sizes DEF Proc, FreeProc
<1>6. U = [V EXCEPT !.proc = P, !.live = n]
    BY <1>1, <1>3 DEF Tables
<1>a. n \in Nat
    BY <1>3
<1>7. P \in [Slots -> Proc] /\ P[s] = FreeProc
    BY <1>3, <1>5, Fields
<1>8. /\ U \in Tables /\ U.proc = [V.proc EXCEPT ![s] = FreeProc] /\ U.fds = V.fds
      /\ U.open = V.open
      /\ U.files = V.files /\ U.openCount = V.openCount /\ U.fileCount = V.fileCount
      /\ U.live = n
    <2> HIDE DEF P, n
    <2>1. /\ U \in Tables /\ U.proc = P /\ U.fds = V.fds /\ U.open = V.open
          /\ U.files = V.files /\ U.openCount = V.openCount /\ U.fileCount = V.fileCount
          /\ U.live = n
        BY <1>3, <1>6, <1>7, <1>a DEF Tables
    <2> QED BY <2>1 DEF P
<1>9. U.live = 1 + Cardinality(Taken(U.proc))
    <2>1. V.live = 1 + Cardinality(Taken(V.proc))
        BY <1>2 DEF Sound, Alive
    <2>2. /\ Cardinality(Taken(U.proc))
               = Cardinality(Taken(V.proc)) - 1
          /\ Cardinality(Taken(V.proc)) \in Nat
        <3> HIDE DEF P
        <3>1. V.proc \in [Slots -> Proc]
            BY <1>3, Fields
        <3> QED BY <1>3, <1>5, <1>8, <3>1, LiveCount
    <2> QED BY <1>8, <2>1, <2>2
<1>10. Sound(U) /\ Only(V, U, s) /\ Recedes(V, U)
    BY <1>2, <1>5, <1>8, <1>9, ProcessKeeps
<1> QED BY <1>2, <1>3, <1>10, OnlyTransitive, RecedesTransitive

LEMMA SpawnedKeeps ==
    ASSUME NEW T, Sound(T), NEW s \in Slots, s # ShellSlot, T.proc[s].state = "FREE",
           nextPid \in 0..MaxPid, NEW q \in 0..MaxPid, NEW U, U = Spawned(T, s, q)
    PROVE  Sound(U) /\ Only(T, U, s) /\ Recedes(T, U) /\ U.proc[s].state = "READY"
<1> DEFINE p == [pid |-> nextPid, ppid |-> q, state |-> "READY", fdCount |-> 0]
           P == [T.proc EXCEPT ![s] = p]
           F == [T.fds EXCEPT ![s] = NoFds]
           n == T.live + 1
<1>1. T \in Tables /\ T.live \in Nat /\ Own(T)
    BY Fields DEF Sound
<1>2. T.fds[s] = NoFds
    <2>1. T.fds[s] \in [Fds -> OpenIdx \union {-1}]
        BY <1>1, Fields
    <2>2. ASSUME NEW fd \in Fds PROVE T.fds[s][fd] = -1
        <3>1. ~(T.fds[s][fd] >= 0) /\ T.fds[s][fd] \in OpenIdx \union {-1}
            BY <1>1, Fields DEF Own
        <3> QED BY <3>1, Indexes
    <2> QED BY <2>1, <2>2 DEF NoFds
<1>3. p \in Proc /\ p.fdCount = 0 /\ p.state = "READY"
    BY DEF Proc
<1>4. U = [T EXCEPT !.proc = P, !.fds = F, !.live = n]
    BY <1>1 DEF Spawned, Tables
<1>5. P \in [Slots -> Proc] /\ P[s] = p
    <2> HIDE DEF p
    <2> QED BY <1>1, <1>3, Fields
<1>6. F = T.fds /\ F \in [Slots -> [Fds -> OpenIdx \union {-1}]]
    BY <1>1, <1>2, Fields
<1> HIDE DEF p
<1>7. /\ U \in Tables /\ U.proc = [T.proc EXCEPT ![s] = p] /\ U.fds = T.fds /\ U.open = T.open
      /\ U.files = T.files /\ U.openCount = T.openCount /\ U.fileCount = T.fileCount
      /\ U.live = T.live + 1
    <2>0. n \in Nat
        BY <1>1
    <2> HIDE DEF P, F, n
    <2>1. /\ U \in Tables /\ U.proc = P /\ U.fds = F /\ U.open = T.open
          /\ U.files = T.files /\ U.openCount = T.openCount /\ U.fileCount = T.fileCount
          /\ U.live = n
        BY <1>1, <1>4, <1>5, <1>6, <2>0 DEF Tables
    <2> QED BY <1>6, <2>1 DEF P, n
<1>8. U.live = 1 + Cardinality(Taken(U.proc))
    <2>1. T.live = 1 + Cardinality(Taken(T.proc))
        BY DEF Sound, Alive
    <2>2. /\ Cardinality(Taken(U.proc))
               = Cardinality(Taken(T.proc)) + 1
          /\ Cardinality(Taken(T.proc)) \in Nat
        BY <1>1, <1>3, <1>7, Fields, LiveCount
    <2> QED BY <1>7, <2>1, <2>2
<1>9. Sound(U) /\ Only(T, U, s) /\ Recedes(T, U)
    BY <1>2, <1>3, <1>7, <1>8, ProcessKeeps
<1> QED BY <1>3, <1>5, <1>7, <1>9

\* SVC_EXIT keeps the descriptors.
LEMMA ExitKeeps ==
    ASSUME NEW T, Sound(T), NEW s \in Slots, s # ShellSlot, T.proc[s].state = "READY",
           NEW U, U = [T EXCEPT !.proc[s].state = "EXITED"]
    PROVE  Sound(U) /\ Only(T, U, s) /\ Recedes(T, U)
<1> DEFINE p == [T.proc[s] EXCEPT !.state = "EXITED"]
           P == [T.proc EXCEPT ![s] = p]
<1>1. T \in Tables /\ T.proc[s] \in Proc
    BY Fields DEF Sound
<1>2. p \in Proc /\ p.fdCount = T.proc[s].fdCount /\ p.state = "EXITED" /\ p.pid = T.proc[s].pid
    BY <1>1 DEF Proc
<1>3. U = [T EXCEPT !.proc = P]
    BY <1>1 DEF Tables
<1> HIDE DEF p
<1>4. P \in [Slots -> Proc] /\ P[s] = p /\ \A r \in Slots \ {s} : P[r] = T.proc[r]
    BY <1>1, <1>2, Fields
<1>5. /\ U \in Tables /\ U.proc = [T.proc EXCEPT ![s] = p] /\ U.fds = T.fds /\ U.open = T.open
      /\ U.files = T.files /\ U.openCount = T.openCount /\ U.fileCount = T.fileCount
      /\ U.live = T.live
    <2> HIDE DEF P
    <2>1. /\ U \in Tables /\ U.proc = P /\ U.fds = T.fds /\ U.open = T.open
          /\ U.files = T.files /\ U.openCount = T.openCount /\ U.fileCount = T.fileCount
          /\ U.live = T.live
        BY <1>1, <1>3, <1>4 DEF Tables
    <2> QED BY <2>1 DEF P
<1>6. U.proc[s] = p /\ \A r \in Slots \ {s} : U.proc[r] = T.proc[r]
    BY <1>4, <1>5
<1>7. Refs(U) /\ FileCount(U)
    BY <1>5 DEF Sound, Refs, FileCount
<1>8. Own(U)
    BY <1>2, <1>5, <1>6 DEF Sound, Own
<1>9. Alive(U)
    <2>1. Cardinality(Taken(U.proc))
             = Cardinality(Taken(T.proc))
        BY <1>1, <1>2, <1>5, Fields, LiveCount
    <2> QED BY <1>5, <1>6, <2>1, Sizes DEF Sound, Alive
<1>10. \A r \in Slots : FdCount(U, r)
    BY <1>2, <1>5, <1>6 DEF Sound, FdCount
<1>11. Only(T, U, s) /\ Recedes(T, U)
    BY <1>5, <1>6 DEF Only, Recedes
<1> QED BY <1>5, <1>7, <1>8, <1>9, <1>10, <1>11 DEF Sound

-----------------------------------------------------------------------------
(* A description gets a name: open and dup2.                               *)

\* An unused description is one without names.
LEMMA UnusedIsNameless ==
    ASSUME NEW T, Refs(T), NEW i \in OpenIdx, ~T.open[i].used
    PROVE  /\ T.open[i].refs = 0 /\ NamesIn(T.fds, i) = {}
           /\ \A r \in Slots, fd \in Fds : T.fds[r][fd] # i
<1>1. T.open[i].refs = Cardinality(NamesIn(T.fds, i)) /\ T.open[i].used = (NamesIn(T.fds, i) # {})
    BY DEF Refs
<1>2. NamesIn(T.fds, i) = {}
    BY <1>1
<1>3. ASSUME NEW r \in Slots, NEW fd \in Fds PROVE T.fds[r][fd] # i
    <2>1. <<r, fd>> \notin NamesIn(T.fds, i) /\ <<r, fd>> \in Slots \X Fds
        BY <1>2
    <2> QED BY <2>1 DEF NamesIn
<1> QED BY <1>1, <1>2, <1>3, FS_EmptySet

\* Descriptor fd of s, closed before, names description i.
OneMore(T, U, s, fd, i) ==
    /\ U.fds = SetFd(T.fds, s, fd, i)
    /\ U.open[i].used /\ U.open[i].refs = T.open[i].refs + 1
    /\ U.open[i].owner = T.proc[s].pid
    /\ \A j \in OpenIdx : j # i => U.open[j] = T.open[j]
    /\ U.openCount = IF T.open[i].used THEN T.openCount ELSE T.openCount + 1

\* Whatever names i does so from s.
NamedFrom(T, i, s) == \A r \in Slots, fe \in Fds : T.fds[r][fe] = i => r = s

LEMMA NameKeeps ==
    ASSUME NEW T \in Tables, Refs(T), Own(T), NEW s \in Slots, NEW fd \in Fds,
           ~(T.fds[s][fd] >= 0), NEW i \in OpenIdx,
           NamedFrom(T, i, s), T.proc[s].state # "FREE",
           NEW U \in Tables, OneMore(T, U, s, fd, i),
           \A r \in Slots : U.proc[r].state = T.proc[r].state /\ U.proc[r].pid = T.proc[r].pid
    PROVE  Refs(U) /\ Own(U) /\ \A r \in Slots \ {s} : U.fds[r] = T.fds[r]
<1>0. i # -1 /\ -1 \notin OpenIdx /\ i >= 0
    BY Indexes, Sizes
<1>1. /\ U.fds[s][fd] = i
      /\ \A r \in Slots, fe \in Fds : <<r, fe>> # <<s, fd>> => U.fds[r][fe] = T.fds[r][fe]
      /\ \A r \in Slots \ {s} : U.fds[r] = T.fds[r]
    BY Fields DEF OneMore, SetFd
<1>2. T.fds[s][fd] = -1
    <2>1. T.fds[s][fd] \in OpenIdx \union {-1}
        BY Fields
    <2> QED BY <2>1, Indexes
<1>3. /\ NamesIn(U.fds, i) = NamesIn(T.fds, i) \union {<<s, fd>>}
      /\ \A j \in OpenIdx : j # i => NamesIn(U.fds, j) = NamesIn(T.fds, j)
      /\ Cardinality(NamesIn(U.fds, i)) = Cardinality(NamesIn(T.fds, i)) + 1
    <2> DEFINE f == T.fds
               g == U.fds
    <2>1. g = SetFd(f, s, fd, i) /\ f \in Rows /\ f[s][fd] \notin OpenIdx
        BY <1>0, <1>2, Fields DEF OneMore, Rows
    <2> HIDE DEF f, g
    <2>2. /\ NamesIn(g, i) = NamesIn(f, i) \union {<<s, fd>>}
          /\ \A j \in OpenIdx : j # i => NamesIn(g, j) = NamesIn(f, j)
          /\ Cardinality(NamesIn(g, i)) = Cardinality(NamesIn(f, i)) + 1
        BY <2>1, NamesGrow
    <2> QED BY <2>2 DEF f, g
<1>4. \A j \in OpenIdx : /\ U.open[j].refs = Cardinality(NamesIn(U.fds, j))
                         /\ U.open[j].used = (NamesIn(U.fds, j) # {})
    <2> TAKE j \in OpenIdx
    <2>1. CASE j = i
        <3>1. U.open[i].refs = Cardinality(NamesIn(U.fds, i))
            BY <1>3 DEF OneMore, Refs
        <3>2. U.open[i].used = TRUE /\ NamesIn(U.fds, i) # {}
            <4>1. U.open[i].used \in BOOLEAN
                BY Fields DEF OpenFile
            <4> QED BY <1>3, <4>1 DEF OneMore
        <3> QED BY <2>1, <3>1, <3>2
    <2>2. CASE j # i
        BY <1>3, <2>2 DEF Refs, OneMore
    <2> QED BY <2>1, <2>2
<1>5. U.openCount = Cardinality({j \in OpenIdx : U.open[j].used})
    <2> DEFINE A == {j \in OpenIdx : T.open[j].used}
               B == {j \in OpenIdx : U.open[j].used}
    <2>0. A \in SUBSET OpenIdx /\ IsFiniteSet(A)
        BY Sizes, FS_Subset
    <2>1. T.openCount = Cardinality(A)
        BY DEF Refs
    <2>2. CASE T.open[i].used
        <3>1. A = B
            BY <2>2 DEF OneMore
        <3> QED BY <2>1, <2>2, <3>1 DEF OneMore
    <2>3. CASE ~T.open[i].used
        <3>1. B = A \union {i} /\ i \notin A
            BY <2>3 DEF OneMore
        <3>2. U.openCount = T.openCount + 1
            BY <2>3 DEF OneMore
        <3> HIDE DEF A, B
        <3>3. Cardinality(B) = Cardinality(A) + 1
            BY <2>0, <3>1, FS_AddElement
        <3>4. U.openCount = Cardinality(B)
            BY <2>1, <3>2, <3>3
        <3> QED BY <3>4 DEF B
    <2> QED BY <2>2, <2>3
<1>6. \A r \in Slots, fe \in Fds : U.fds[r][fe] >= 0 =>
         U.proc[r].state # "FREE" /\ U.open[U.fds[r][fe]].owner = U.proc[r].pid
    <2> SUFFICES ASSUME NEW r \in Slots, NEW fe \in Fds, U.fds[r][fe] >= 0
                 PROVE  U.proc[r].state # "FREE" /\ U.open[U.fds[r][fe]].owner = U.proc[r].pid
        OBVIOUS
    <2>1. CASE U.fds[r][fe] = i
        <3>1. r = s
            <4>1. r # s => U.fds[r] = T.fds[r]
                BY <1>1
            <4> QED BY <2>1, <4>1 DEF NamedFrom
        <3> QED BY <2>1, <3>1 DEF OneMore
    <2>2. CASE U.fds[r][fe] # i
        <3>1. U.fds[r][fe] = T.fds[r][fe] /\ U.fds[r][fe] \in OpenIdx
            BY <1>1, <2>2, Fields
        <3>2. T.proc[r].state # "FREE" /\ T.open[T.fds[r][fe]].owner = T.proc[r].pid
            BY <3>1 DEF Own
        <3> QED BY <2>2, <3>1, <3>2 DEF OneMore
    <2> QED BY <2>1, <2>2
<1>7. \A q, r \in Slots, fe, ff \in Fds : U.fds[q][fe] >= 0 /\ U.fds[q][fe] = U.fds[r][ff] => q = r
    <2> SUFFICES ASSUME NEW q \in Slots, NEW r \in Slots, NEW fe \in Fds, NEW ff \in Fds,
                        U.fds[q][fe] >= 0, U.fds[q][fe] = U.fds[r][ff]
                 PROVE  q = r
        OBVIOUS
    <2>1. CASE U.fds[q][fe] = i
        <3>1. \A x \in Slots, fx \in Fds : U.fds[x][fx] = i => x = s
            <4> TAKE x \in Slots, fx \in Fds
            <4>1. x # s => U.fds[x] = T.fds[x]
                BY <1>1
            <4> QED BY <4>1 DEF NamedFrom
        <3> QED BY <2>1, <3>1
    <2>2. CASE U.fds[q][fe] # i
        <3>1. \A x \in Slots, fx \in Fds : U.fds[x][fx] # i => U.fds[x][fx] = T.fds[x][fx]
            <4> TAKE x \in Slots, fx \in Fds
            <4>1. CASE x = s /\ fx = fd
                BY <1>1, <4>1
            <4>2. CASE ~(x = s /\ fx = fd)
                BY <1>1, <4>2
            <4> QED BY <4>1, <4>2
        <3>2. T.fds[q][fe] >= 0 /\ T.fds[q][fe] = T.fds[r][ff]
            BY <2>2, <3>1
        <3> QED BY <3>2 DEF Own
    <2> QED BY <2>1, <2>2
<1> QED BY <1>1, <1>4, <1>5, <1>6, <1>7 DEF Refs, Own

NewOpen(T, s, node, file) ==
    [used |-> TRUE, node |-> node, file |-> file, refs |-> 1, offset |-> 0,
     owner |-> T.proc[s].pid]
SetOpen(T, i, o) == [T EXCEPT !.open[i] = o]

LEMMA OpenFields ==
    ASSUME NEW T \in Tables, NEW i \in OpenIdx, NEW o \in OpenFile, NEW U, U = SetOpen(T, i, o)
    PROVE  /\ U \in Tables /\ U.open = [T.open EXCEPT ![i] = o] /\ U.open[i] = o
           /\ U.proc = T.proc /\ U.fds = T.fds /\ U.files = T.files /\ U.openCount = T.openCount
           /\ U.fileCount = T.fileCount /\ U.live = T.live
<1> DEFINE O == [T.open EXCEPT ![i] = o]
<1>1. U = [T EXCEPT !.open = O]
    BY DEF Tables, SetOpen
<1>2. O \in [OpenIdx -> OpenFile] /\ O[i] = o
    BY Fields
<1> HIDE DEF O
<1>3. /\ U \in Tables /\ U.open = O
      /\ U.proc = T.proc /\ U.fds = T.fds /\ U.files = T.files /\ U.openCount = T.openCount
      /\ U.fileCount = T.fileCount /\ U.live = T.live
    BY <1>1, <1>2 DEF Tables
<1> QED BY <1>2, <1>3 DEF O

\* A description on the way of an open: made, and dropped when no descriptor
\* is free; otherwise the descriptor returned names it.
LEMMA DescribeKeeps ==
    ASSUME NEW T, Sound(T), NEW s \in Slots, T.proc[s].state # "FREE",
           NEW node \in Devices \union {"tmp"}, NEW file \in FileIdx \union {0},
           NEW R, R = Describe(T, s, node, file)
    PROVE  /\ Sound(R.t) /\ Only(T, R.t, s) /\ R.t.files = T.files
           /\ R.ret \in Fds \union {-24}
           /\ \E i \in OpenIdx \union {-1} :
                /\ \A j \in OpenIdx : j # i => R.t.open[j] = T.open[j]
                /\ i \in OpenIdx => R.t.open[i] = FreeOpen \/ R.t.open[i] = NewOpen(T, s, node, file)
                /\ R.ret >= 0 => /\ i \in OpenIdx /\ R.t.fds[s][R.ret] = i
                                 /\ R.t.open[i] = NewOpen(T, s, node, file)
           /\ \A r \in Slots : R.t.proc[r].state = T.proc[r].state /\ R.t.proc[r].pid = T.proc[r].pid
<1>0. T \in Tables /\ Refs(T) /\ Own(T) /\ T.proc[s] \in Proc
    BY Fields DEF Sound
<1> DEFINE freeOpen == {i \in OpenIdx : ~T.open[i].used}
<1>1. CASE freeOpen = {}
    <2>1. R = Ret(T, -24)
        BY <1>1 DEF Describe
    <2>2. R.t = T /\ R.ret = -24
        BY <2>1 DEF Ret
    <2>3. \A j \in OpenIdx : j # -1
        BY Sizes
    <2> QED BY <2>2, <2>3 DEF Only
<1>2. CASE freeOpen # {}
    <2> DEFINE i == Least(freeOpen)
               o == NewOpen(T, s, node, file)
               D == SetOpen(T, i, o)
               A == AllocateFd(D, s, i)
               free == {fd \in Fds : fd >= FirstFd /\ D.fds[s][fd] < 0}
    <2>1. i \in OpenIdx /\ ~T.open[i].used
        <3>1. freeOpen \in SUBSET Nat
            BY Sizes
        <3> HIDE DEF freeOpen
        <3>2. i \in freeOpen
            BY <1>2, <3>1, LeastMember
        <3> QED BY <3>2 DEF freeOpen
    <2>2. R = IF A.ret < 0 THEN Ret([A.t EXCEPT !.open[i] = FreeOpen], A.ret)
              ELSE Ret([A.t EXCEPT !.openCount = @ + 1], A.ret)
        BY <1>2 DEF Describe, NewOpen, SetOpen
    <2>3. o \in OpenFile /\ FreeOpen \in OpenFile
        BY <1>0, Sizes DEF NewOpen, OpenFile, FreeOpen, Proc
    <2> HIDE DEF i, o, D
    <2>4. /\ D \in Tables /\ D.open = [T.open EXCEPT ![i] = o] /\ D.open[i] = o
          /\ D.proc = T.proc /\ D.fds = T.fds /\ D.files = T.files /\ D.openCount = T.openCount
          /\ D.fileCount = T.fileCount /\ D.live = T.live
        BY <1>0, <2>1, <2>3, OpenFields DEF D
    <2>5. /\ T.open[i].refs = 0 /\ \A r \in Slots, fd \in Fds : T.fds[r][fd] # i
        BY <1>0, <2>1, UnusedIsNameless
    <2>6. \A r \in Slots, fd \in Fds : T.fds[r][fd] >= 0 => T.fds[r][fd] \in OpenIdx \ {i}
        BY <1>0, <2>5, Fields
    <2>7. CASE free = {}
        <3>1. A = Ret(D, -24)
            BY <2>7 DEF AllocateFd
        <3>2. A.t = D /\ A.ret = -24
            <4> HIDE DEF A
            <4> QED BY <3>1 DEF Ret
        <3> HIDE DEF A
        <3>3. R = Ret(SetOpen(D, i, FreeOpen), -24)
            BY <2>2, <3>2 DEF SetOpen
        <3> DEFINE U == SetOpen(D, i, FreeOpen)
        <3>4. R.t = U /\ R.ret = -24
            <4> HIDE DEF U
            <4>1. R = Ret(U, -24)
                BY <3>3 DEF U
            <4> QED BY <4>1 DEF Ret
        <3> HIDE DEF U
        <3>5. /\ U \in Tables /\ U.open = [D.open EXCEPT ![i] = FreeOpen] /\ U.open[i] = FreeOpen
              /\ U.proc = D.proc /\ U.fds = D.fds /\ U.files = D.files /\ U.openCount = D.openCount
              /\ U.fileCount = D.fileCount /\ U.live = D.live
            BY <2>1, <2>3, <2>4, OpenFields DEF U
        <3>6. \A j \in OpenIdx : j # i => U.open[j] = T.open[j]
            BY <1>0, <2>1, <2>4, <3>5, Fields
        <3>7. Refs(U)
            <4>1. NamesIn(T.fds, i) = {} /\ Cardinality(NamesIn(T.fds, i)) = 0
                BY <2>5, FS_EmptySet DEF NamesIn
            <4>2. U.open[i].refs = 0 /\ U.open[i].used = FALSE
                BY <3>5 DEF FreeOpen
            <4>3. {j \in OpenIdx : U.open[j].used} = {j \in OpenIdx : T.open[j].used}
                BY <2>1, <3>6, <4>2
            <4>4. U.fds = T.fds /\ U.openCount = T.openCount
                BY <2>4, <3>5
            <4>5. \A j \in OpenIdx : /\ U.open[j].refs = Cardinality(NamesIn(U.fds, j))
                                     /\ U.open[j].used = (NamesIn(U.fds, j) # {})
                <5> TAKE j \in OpenIdx
                <5>1. CASE j = i
                    BY <4>1, <4>2, <4>4, <5>1
                <5>2. CASE j # i
                    BY <1>0, <3>6, <4>4, <5>2 DEF Refs
                <5> QED BY <5>1, <5>2
            <4> QED BY <1>0, <4>3, <4>4, <4>5 DEF Refs
        <3>8. Own(U)
            BY <1>0, <2>4, <2>6, <3>5, <3>6 DEF Own
        <3>9. Sound(U)
            BY <2>4, <3>5, <3>7, <3>8 DEF Sound, FileCount, Alive, FdCount
        <3>10. Only(T, U, s)
            BY <2>4, <2>6, <3>5, <3>6 DEF Only
        <3> QED BY <2>1, <2>4, <3>4, <3>5, <3>6, <3>9, <3>10
    <2>8. CASE free # {}
        <3> DEFINE fd == Least(free)
                   n == D.proc[s].fdCount + 1
                   V == SetRow(D, s, fd, i, n)
        <3>1. fd \in Fds /\ D.fds[s][fd] < 0
            <4>1. free \in SUBSET Nat
                BY Sizes
            <4> HIDE DEF free
            <4>2. fd \in free
                BY <2>8, <4>1, LeastMember
            <4> QED BY <4>2 DEF free
        <3>2. A = Ret([D EXCEPT !.fds[s][fd] = i, !.proc[s].fdCount = @ + 1], fd)
            BY <2>8 DEF AllocateFd
        <3>3. V = [D EXCEPT !.fds[s][fd] = i, !.proc[s].fdCount = @ + 1]
            BY <2>4 DEF SetRow, Tables
        <3>a. n \in Nat
            BY <2>4, Fields DEF Proc
        <3> HIDE DEF A, V, fd, n
        <3>4. A.t = V /\ A.ret = fd
            <4>1. A = Ret(V, fd)
                BY <3>2, <3>3
            <4> QED BY <4>1 DEF Ret
        <3> DEFINE U == [V EXCEPT !.openCount = @ + 1]
        <3>5. R.t = U /\ R.ret = fd /\ ~(fd < 0)
            <4>1. ~(fd < 0)
                BY <3>1, Sizes
            <4>2. R = Ret(U, fd)
                BY <2>2, <3>4, <4>1
            <4> HIDE DEF U
            <4> QED BY <4>1, <4>2 DEF Ret
        <3>6. /\ V \in Tables /\ V.fds = SetFd(D.fds, s, fd, i)
              /\ V.proc = [D.proc EXCEPT ![s] = [D.proc[s] EXCEPT !.fdCount = n]]
              /\ V.open = D.open /\ V.files = D.files /\ V.openCount = D.openCount
              /\ V.fileCount = D.fileCount /\ V.live = D.live
            BY <2>1, <2>4, <3>1, <3>a, RowFields DEF V
        <3>7. /\ U \in Tables /\ U.fds = V.fds /\ U.proc = V.proc /\ U.open = V.open
              /\ U.files = V.files /\ U.openCount = V.openCount + 1
              /\ U.fileCount = V.fileCount /\ U.live = V.live
            <4>1. V.openCount + 1 \in Nat
                BY <3>6, Fields
            <4> QED BY <3>6, <4>1 DEF Tables
        <3> HIDE DEF U
        <3>8. /\ U.fds = SetFd(T.fds, s, fd, i) /\ U.files = T.files /\ U.live = T.live
              /\ U.openCount = T.openCount + 1 /\ U.fileCount = T.fileCount
              /\ U.open = [T.open EXCEPT ![i] = o] /\ U.open[i] = o
              /\ U.proc = [T.proc EXCEPT ![s] = [T.proc[s] EXCEPT !.fdCount = n]]
            BY <2>4, <3>6, <3>7
        <3>9. /\ \A r \in Slots : U.proc[r].state = T.proc[r].state /\ U.proc[r].pid = T.proc[r].pid
              /\ \A r \in Slots \ {s} : U.proc[r] = T.proc[r]
              /\ U.proc[s].fdCount = n
            BY <1>0, <3>8, Fields DEF Proc
        <3>10. \A j \in OpenIdx : j # i => U.open[j] = T.open[j]
            BY <1>0, <2>1, <3>8, Fields
        <3>11. ~(T.fds[s][fd] >= 0) /\ T.fds[s][fd] < 0
            <4>1. T.fds[s][fd] \in OpenIdx \union {-1} /\ T.fds[s][fd] < 0
                BY <1>0, <2>4, <3>1, Fields
            <4> QED BY <4>1, Indexes
        <3>12. OneMore(T, U, s, fd, i)
            <4>1. o.used /\ o.refs = 1 /\ o.owner = T.proc[s].pid
                BY DEF o, NewOpen
            <4> QED BY <2>1, <2>5, <3>8, <3>10, <4>1 DEF OneMore
        <3>13. Refs(U) /\ Own(U) /\ \A r \in Slots \ {s} : U.fds[r] = T.fds[r]
            <4>1. NamedFrom(T, i, s)
                BY <2>5 DEF NamedFrom
            <4> QED BY <1>0, <2>1, <3>1, <3>7, <3>9, <3>11, <3>12, <4>1, NameKeeps
        <3>14. FileCount(U) /\ Alive(U)
            <4>1. Taken(U.proc) = Taken(T.proc)
                BY <3>9 DEF Taken
            <4> QED BY <3>8, <3>9, <4>1, Sizes DEF Sound, FileCount, Alive
        <3>15. \A r \in Slots : FdCount(U, r)
            <4>1. ASSUME NEW r \in Slots \ {s} PROVE FdCount(U, r)
                BY <3>9, <3>13 DEF Sound, FdCount
            <4>2. FdCount(U, s)
                <5>1. Cardinality(OpenFds(U.fds, s)) = Cardinality(OpenFds(T.fds, s)) + 1
                    <6>1. T.fds \in Rows /\ i \in OpenIdx \union {-1} /\ i >= 0
                        BY <1>0, <2>1, Fields, Indexes DEF Rows
                    <6> QED BY <3>1, <3>8, <3>11, <6>1, CountRow
                <5>2. T.proc[s].fdCount = Cardinality(OpenFds(T.fds, s))
                    BY FdCountIs DEF Sound
                <5>3. n = T.proc[s].fdCount + 1
                    BY <2>4 DEF n
                <5> QED BY <3>9, <5>1, <5>2, <5>3, FdCountIs
            <4> QED BY <4>1, <4>2
        <3>16. Sound(U)
            BY <3>7, <3>13, <3>14, <3>15 DEF Sound
        <3>17. Only(T, U, s)
            BY <2>6, <3>9, <3>10, <3>13 DEF Only
        <3>18. U.fds[s][fd] = i
            BY <1>0, <3>1, <3>8, Fields DEF SetFd
        <3> QED BY <2>1, <3>1, <3>5, <3>8, <3>9, <3>10, <3>16, <3>17, <3>18 DEF o
    <2> QED BY <2>7, <2>8
<1> QED BY <1>1, <1>2

-----------------------------------------------------------------------------
(* Contents: who is covered by which written bytes.                        *)

LEMMA RecedesFilled ==
    ASSUME NEW T, NEW U, NEW W, Filled(T, W), Recedes(T, U)
    PROVE  Filled(U, W)
BY DEF Filled, Recedes

LEMMA MoreIsWritten ==
    ASSUME NEW T, NEW W, NEW X, Filled(T, W), \A f \in FileIdx : W[f] \subseteq X[f]
    PROVE  Filled(T, X)
<1>1. ASSUME NEW f \in FileIdx
      PROVE  T.files[f].size <= FileData /\ 0..(T.files[f].size - 1) \subseteq X[f]
    <2>1. T.files[f].size <= FileData /\ 0..(T.files[f].size - 1) \subseteq W[f] /\ W[f] \subseteq X[f]
        BY DEF Filled
    <2> QED BY <2>1
<1>2. ASSUME NEW i \in OpenIdx, T.open[i].node = "tmp"
      PROVE  /\ T.open[i].file \in FileIdx /\ T.files[T.open[i].file].used
             /\ T.open[i].offset <= FileData
             /\ 0..(T.open[i].offset - 1) \subseteq X[T.open[i].file]
    <2>1. /\ T.open[i].file \in FileIdx /\ T.files[T.open[i].file].used
          /\ T.open[i].offset <= FileData
          /\ 0..(T.open[i].offset - 1) \subseteq W[T.open[i].file]
        BY <1>2 DEF Filled
    <2>2. W[T.open[i].file] \subseteq X[T.open[i].file]
        BY <2>1
    <2> QED BY <2>1, <2>2
<1> QED BY <1>1, <1>2 DEF Filled

\* The files from T to U: the same, made anew, or cut.
FilesStep(T, U) ==
    /\ U.open = T.open /\ U.fds = T.fds /\ U.proc = T.proc
    /\ \A f \in FileIdx : U.files[f] = T.files[f] \/ (U.files[f].used /\ U.files[f].size = 0)
FreshOf(T, U, W) == [f \in FileIdx |-> IF ~T.files[f].used /\ U.files[f].used THEN {} ELSE W[f]]

LEMMA FilesStepFilled ==
    ASSUME NEW T \in Tables, NEW U, NEW W, Filled(T, W), FilesStep(T, U)
    PROVE  Filled(U, FreshOf(T, U, W))
<1> DEFINE X == FreshOf(T, U, W)
<1>1. \A f \in FileIdx : X[f] = IF ~T.files[f].used /\ U.files[f].used THEN {} ELSE W[f]
    BY DEF FreshOf
<1> HIDE DEF X
<1>2. ASSUME NEW f \in FileIdx
      PROVE  U.files[f].size <= FileData /\ 0..(U.files[f].size - 1) \subseteq X[f]
    <2>1. CASE U.files[f] = T.files[f]
        BY <1>1, <2>1 DEF Filled
    <2>2. CASE U.files[f].used /\ U.files[f].size = 0
        <3>1. 0..(0 - 1) = {}
            OBVIOUS
        <3> QED BY <2>2, <3>1, Sizes
    <2> QED BY <2>1, <2>2 DEF FilesStep
<1>3. ASSUME NEW i \in OpenIdx, U.open[i].node = "tmp"
      PROVE  /\ U.open[i].file \in FileIdx /\ U.files[U.open[i].file].used
             /\ U.open[i].offset <= FileData
             /\ 0..(U.open[i].offset - 1) \subseteq X[U.open[i].file]
    <2>1. U.open[i] = T.open[i]
        BY DEF FilesStep
    <2>2. /\ T.open[i].file \in FileIdx /\ T.files[T.open[i].file].used
          /\ T.open[i].offset <= FileData
          /\ 0..(T.open[i].offset - 1) \subseteq W[T.open[i].file]
        BY <1>3, <2>1 DEF Filled
    <2>3. U.files[T.open[i].file].used /\ X[T.open[i].file] = W[T.open[i].file]
        BY <1>1, <2>2 DEF FilesStep
    <2> QED BY <2>1, <2>2, <2>3
<1> QED BY <1>2, <1>3 DEF Filled, X

SetFile(T, f, o, n) == [T EXCEPT !.files[f] = o, !.fileCount = n]

LEMMA FileFields ==
    ASSUME NEW T \in Tables, NEW f \in FileIdx, NEW o \in File, NEW n \in Nat,
           NEW U, U = SetFile(T, f, o, n)
    PROVE  /\ U \in Tables /\ U.files = [T.files EXCEPT ![f] = o]
           /\ U.files[f] = o /\ \A g \in FileIdx : g # f => U.files[g] = T.files[g]
           /\ U.proc = T.proc /\ U.fds = T.fds /\ U.open = T.open /\ U.openCount = T.openCount
           /\ U.fileCount = n /\ U.live = T.live
<1> DEFINE F == [T.files EXCEPT ![f] = o]
<1>1. U = [T EXCEPT !.files = F, !.fileCount = n]
    BY DEF Tables, SetFile
<1>2. F \in [FileIdx -> File] /\ F[f] = o /\ \A g \in FileIdx : g # f => F[g] = T.files[g]
    BY Fields
<1> HIDE DEF F
<1>3. /\ U \in Tables /\ U.files = F
      /\ U.proc = T.proc /\ U.fds = T.fds /\ U.open = T.open /\ U.openCount = T.openCount
      /\ U.fileCount = n /\ U.live = T.live
    BY <1>1, <1>2 DEF Tables
<1> QED BY <1>2, <1>3 DEF F

\* Only the files have changed.
LEMMA FilesSound ==
    ASSUME NEW T, Sound(T), NEW U \in Tables, U.proc = T.proc, U.fds = T.fds, U.open = T.open,
           U.openCount = T.openCount, U.live = T.live, FileCount(U)
    PROVE  Sound(U)
BY DEF Sound, Refs, Own, Alive, FdCount

LEMMA MakeTmpKeeps ==
    ASSUME NEW T, Sound(T), NEW path \in TmpPaths, NEW creat \in BOOLEAN, NEW trunc \in BOOLEAN,
           NEW M, M = MakeTmp(T, path, creat, trunc)
    PROVE  /\ Sound(M.t) /\ FilesStep(T, M.t) /\ M.ret \in FileIdx \union {-2, -28}
           /\ M.ret \in FileIdx => M.t.files[M.ret].used /\ M.t.files[M.ret].path = path
           /\ ~creat /\ ~trunc => M.t = T
<1>0. T \in Tables /\ FileCount(T)
    BY DEF Sound
<1> DEFINE S == TmpFile(T, path)
           free == {f \in FileIdx : ~T.files[f].used}
<1>1. CASE S # {}
    <2> DEFINE f == Least(S)
               o == [T.files[f] EXCEPT !.size = 0]
               U == SetFile(T, f, o, T.fileCount)
    <2>1. f \in FileIdx /\ T.files[f].used /\ T.files[f].path = path
        <3>1. S \in SUBSET Nat
            BY Sizes DEF TmpFile
        <3> HIDE DEF S
        <3>2. f \in S
            BY <1>1, <3>1, LeastMember
        <3> QED BY <3>2 DEF S, TmpFile
    <2>2. M = Ret(IF trunc THEN [T EXCEPT !.files[f].size = 0] ELSE T, f)
        BY <1>1 DEF MakeTmp
    <2> HIDE DEF f, S
    <2>3. M.ret = f /\ M.t = IF trunc THEN [T EXCEPT !.files[f].size = 0] ELSE T
        BY <2>2 DEF Ret
    <2>4. T.files[f] \in File /\ o \in File /\ o.used /\ o.path = path /\ o.size = 0
        <3>1. T.files[f] \in File
            BY <1>0, <2>1, Fields
        <3> QED BY <2>1, <3>1 DEF File
    <2>5. [T EXCEPT !.files[f].size = 0] = U
        BY <1>0 DEF Tables, SetFile
    <2> HIDE DEF U, o
    <2>6. /\ U \in Tables /\ U.files = [T.files EXCEPT ![f] = o]
          /\ U.files[f] = o /\ \A g \in FileIdx : g # f => U.files[g] = T.files[g]
          /\ U.proc = T.proc /\ U.fds = T.fds /\ U.open = T.open /\ U.openCount = T.openCount
          /\ U.fileCount = T.fileCount /\ U.live = T.live
        <3>1. T.fileCount \in Nat
            BY <1>0, Fields
        <3> QED BY <1>0, <2>1, <2>4, <3>1, FileFields DEF U
    <2>7. FileCount(U)
        <3>1. {g \in FileIdx : U.files[g].used} = {g \in FileIdx : T.files[g].used}
            BY <2>1, <2>4, <2>6
        <3> QED BY <1>0, <2>6, <3>1 DEF FileCount
    <2>8. Sound(U) /\ FilesStep(T, U)
        BY <2>4, <2>6, <2>7, FilesSound DEF FilesStep
    <2>9. CASE trunc
        <3>1. M.t = U
            BY <2>3, <2>5, <2>9
        <3> QED BY <2>1, <2>3, <2>4, <2>6, <2>8, <2>9, <3>1
    <2>10. CASE ~trunc
        <3>1. M.t = T
            BY <2>3, <2>10
        <3>2. FilesStep(T, T)
            BY DEF FilesStep
        <3> QED BY <2>1, <2>3, <3>1, <3>2
    <2> QED BY <2>9, <2>10
<1>2. CASE S = {} /\ (~creat \/ free = {})
    <2>1. M = Ret(T, -2) \/ M = Ret(T, -28)
        BY <1>2 DEF MakeTmp
    <2>2. M.t = T /\ M.ret \in {-2, -28}
        BY <2>1 DEF Ret
    <2>3. FilesStep(T, T) /\ -2 \notin FileIdx /\ -28 \notin FileIdx
        BY Sizes DEF FilesStep
    <2> QED BY <2>2, <2>3
<1>3. CASE S = {} /\ creat /\ free # {}
    <2> DEFINE f == Least(free)
               o == [used |-> TRUE, path |-> path, size |-> 0]
               n == T.fileCount + 1
               U == SetFile(T, f, o, n)
    <2>1. f \in FileIdx /\ ~T.files[f].used
        <3>1. free \in SUBSET Nat
            BY Sizes
        <3> HIDE DEF free
        <3>2. f \in free
            BY <1>3, <3>1, LeastMember
        <3> QED BY <3>2 DEF free
    <2>2. M = Ret([T EXCEPT !.files[f] = o, !.fileCount = @ + 1], f)
        BY <1>3 DEF MakeTmp
    <2> HIDE DEF f
    <2>3. M = Ret(U, f)
        BY <1>0, <2>2 DEF Tables, SetFile
    <2> HIDE DEF U
    <2>4. M.t = U /\ M.ret = f
        BY <2>3 DEF Ret
    <2>5. o \in File /\ n \in Nat /\ o.used /\ o.path = path /\ o.size = 0
        BY <1>0, Fields DEF File
    <2> HIDE DEF o, n
    <2>6. /\ U \in Tables /\ U.files = [T.files EXCEPT ![f] = o]
          /\ U.files[f] = o /\ \A g \in FileIdx : g # f => U.files[g] = T.files[g]
          /\ U.proc = T.proc /\ U.fds = T.fds /\ U.open = T.open /\ U.openCount = T.openCount
          /\ U.fileCount = n /\ U.live = T.live
        BY <1>0, <2>1, <2>5, FileFields DEF U
    <2>7. FileCount(U)
        <3> DEFINE A == {g \in FileIdx : T.files[g].used}
                   B == {g \in FileIdx : U.files[g].used}
        <3>1. B = A \union {f} /\ f \notin A
            BY <2>1, <2>5, <2>6
        <3>2. A \in SUBSET FileIdx /\ IsFiniteSet(A)
            BY Sizes, FS_Subset
        <3>3. T.fileCount = Cardinality(A)
            BY <1>0 DEF FileCount
        <3> HIDE DEF A, B
        <3>4. Cardinality(B) = Cardinality(A) + 1
            BY <3>1, <3>2, FS_AddElement
        <3>5. U.fileCount = Cardinality(B)
            BY <2>6, <3>3, <3>4 DEF n
        <3> QED BY <3>5 DEF FileCount, B
    <2>8. Sound(U) /\ FilesStep(T, U)
        BY <2>5, <2>6, <2>7, FilesSound DEF FilesStep
    <2> QED BY <1>3, <2>1, <2>4, <2>5, <2>6, <2>8
<1> QED BY <1>1, <1>2, <1>3

\* A new description starts at the beginning of an existing file.
LEMMA DescribeFilled ==
    ASSUME NEW T, Sound(T), NEW s \in Slots, T.proc[s].state # "FREE",
           NEW node \in Devices \union {"tmp"}, NEW file \in FileIdx \union {0},
           node = "tmp" => file \in FileIdx /\ T.files[file].used,
           NEW R, R = Describe(T, s, node, file), NEW W, Filled(T, W)
    PROVE  Filled(R.t, W)
<1>1. /\ R.t.files = T.files
      /\ \E i \in OpenIdx \union {-1} :
                /\ \A j \in OpenIdx : j # i => R.t.open[j] = T.open[j]
                /\ i \in OpenIdx => R.t.open[i] = FreeOpen \/ R.t.open[i] = NewOpen(T, s, node, file)
    BY DescribeKeeps
<1>2. PICK i \in OpenIdx \union {-1} :
                /\ \A j \in OpenIdx : j # i => R.t.open[j] = T.open[j]
                /\ i \in OpenIdx => R.t.open[i] = FreeOpen \/ R.t.open[i] = NewOpen(T, s, node, file)
    BY <1>1
<1>3. ASSUME NEW j \in OpenIdx, R.t.open[j].node = "tmp"
      PROVE  /\ R.t.open[j].file \in FileIdx /\ R.t.files[R.t.open[j].file].used
             /\ R.t.open[j].offset <= FileData
             /\ 0..(R.t.open[j].offset - 1) \subseteq W[R.t.open[j].file]
    <2>1. CASE j # i
        BY <1>1, <1>2, <1>3, <2>1 DEF Filled
    <2>2. CASE j = i
        <3>1. R.t.open[j] = NewOpen(T, s, node, file)
            BY <1>2, <1>3, <2>2, Sizes DEF FreeOpen
        <3>2. R.t.open[j].node = node /\ R.t.open[j].file = file /\ R.t.open[j].offset = 0
            BY <3>1 DEF NewOpen
        <3>3. 0..(0 - 1) = {}
            OBVIOUS
        <3> QED BY <1>1, <1>3, <3>2, <3>3, Sizes
    <2> QED BY <2>1, <2>2
<1>4. \A f \in FileIdx : R.t.files[f].size <= FileData /\ 0..(R.t.files[f].size - 1) \subseteq W[f]
    BY <1>1 DEF Filled
<1> QED BY <1>3, <1>4 DEF Filled

-----------------------------------------------------------------------------
(* The calls of a process.                                                 *)

\* What an open keeps, and where its descriptor stands.
Opened(T, R, s) ==
    /\ Sound(R.t) /\ Only(T, R.t, s) /\ R.ret \in Fds \union {-2, -24, -28}
    /\ \A r \in Slots : R.t.proc[r].state = T.proc[r].state /\ R.t.proc[r].pid = T.proc[r].pid
    /\ R.ret >= 0 => R.t.fds[s][R.ret] \in OpenIdx

\* An open that neither makes nor cuts a file.
Looks(creat, trunc) == creat = FALSE /\ trunc = FALSE

\* The descriptor returned stands at the beginning of the file of path.
AtStart(R, s, path) ==
    LET o == R.t.open[R.t.fds[s][R.ret]] IN
    o.node = "tmp" /\ o.offset = 0 /\ R.t.files[o.file].path = path

LEMMA OpenKeeps ==
    ASSUME NEW T, Sound(T), NEW s \in Slots, T.proc[s].state # "FREE",
           NEW path \in TmpPaths \union Devices, NEW creat \in BOOLEAN, NEW trunc \in BOOLEAN,
           NEW W, Filled(T, W), NEW R, R = VfsOpen(T, s, path, creat, trunc)
    PROVE  /\ Opened(T, R, s) /\ Filled(R.t, FreshOf(T, R.t, W))
           /\ Looks(creat, trunc) => R.t.files = T.files
           /\ path \in TmpPaths /\ R.ret >= 0 => AtStart(R, s, path)
<1>0. T \in Tables
    BY DEF Sound
<1>1. CASE path \in Devices
    <2>1. R = Describe(T, s, path, 0) /\ path # "tmp" /\ path \notin TmpPaths
        BY <1>1, TableAssumption DEF VfsOpen, virtual_node
    <2>2. path \in Devices \union {"tmp"} /\ 0 \in FileIdx \union {0}
        BY <1>1
    <2>3. /\ Sound(R.t) /\ Only(T, R.t, s) /\ R.t.files = T.files
          /\ R.ret \in Fds \union {-24}
          /\ \E i \in OpenIdx \union {-1} : R.ret >= 0 => i \in OpenIdx /\ R.t.fds[s][R.ret] = i
          /\ \A r \in Slots : R.t.proc[r].state = T.proc[r].state /\ R.t.proc[r].pid = T.proc[r].pid
        BY <2>1, <2>2, DescribeKeeps
    <2>4. Filled(R.t, W)
        BY <2>1, <2>2, DescribeFilled
    <2>5. \A f \in FileIdx : W[f] \subseteq FreshOf(T, R.t, W)[f]
        BY <2>3 DEF FreshOf
    <2>6. Filled(R.t, FreshOf(T, R.t, W))
        BY <2>4, <2>5, MoreIsWritten
    <2> QED BY <2>1, <2>3, <2>6 DEF Opened
<1>2. CASE path \in TmpPaths
    <2> DEFINE M == MakeTmp(T, path, creat, trunc)
    <2>1. R = IF M.ret < 0 THEN M ELSE Describe(M.t, s, "tmp", M.ret)
        BY <1>2, TableAssumption DEF VfsOpen, virtual_node
    <2> HIDE DEF M
    <2>2. /\ Sound(M.t) /\ FilesStep(T, M.t) /\ M.ret \in FileIdx \union {-2, -28}
          /\ M.ret \in FileIdx => M.t.files[M.ret].used /\ M.t.files[M.ret].path = path
          /\ ~creat /\ ~trunc => M.t = T
        BY <1>2, MakeTmpKeeps DEF M
    <2>3. Filled(M.t, FreshOf(T, M.t, W))
        BY <1>0, <2>2, FilesStepFilled
    <2>4. Only(T, M.t, s)
        BY <2>2 DEF FilesStep, Only
    <2>5. CASE M.ret < 0
        <3>1. R = M /\ M.ret \in {-2, -28} /\ ~(M.ret >= 0)
            <4>1. CASE M.ret \in FileIdx
                <5>1. M.ret \in Nat
                    BY <4>1, Sizes
                <5> QED BY <2>5, <5>1
            <4>2. CASE M.ret \in {-2, -28}
                BY <2>1, <2>5, <4>2
            <4> QED BY <2>2, <4>1, <4>2
        <3>2. Looks(creat, trunc) => R.t.files = T.files
            BY <2>2, <3>1 DEF Looks
        <3> QED BY <2>2, <2>3, <2>4, <3>1, <3>2 DEF Opened, FilesStep
    <2>6. CASE ~(M.ret < 0)
        <3>1. M.ret \in FileIdx /\ R = Describe(M.t, s, "tmp", M.ret)
            BY <2>1, <2>2, <2>6, Sizes
        <3>2. /\ M.t.proc[s].state # "FREE" /\ M.ret \in FileIdx \union {0}
              /\ "tmp" \in Devices \union {"tmp"} /\ M.t.files[M.ret].used
            BY <2>2, <3>1 DEF FilesStep
        <3> DEFINE node == "tmp"
                   file == M.ret
        <3>b. /\ node = "tmp" /\ R = Describe(M.t, s, node, file) /\ node \in Devices \union {"tmp"}
              /\ file \in FileIdx \union {0} /\ M.t.proc[s].state # "FREE"
              /\ node = "tmp" => file \in FileIdx /\ M.t.files[file].used
            BY <3>1, <3>2
        <3> HIDE DEF node, file
        <3>3. /\ Sound(R.t) /\ Only(M.t, R.t, s) /\ R.t.files = M.t.files
              /\ R.ret \in Fds \union {-24}
              /\ \E i \in OpenIdx \union {-1} :
                /\ \A j \in OpenIdx : j # i => R.t.open[j] = M.t.open[j]
                /\ i \in OpenIdx => R.t.open[i] = FreeOpen \/ R.t.open[i] = NewOpen(M.t, s, node, file)
                /\ R.ret >= 0 => /\ i \in OpenIdx /\ R.t.fds[s][R.ret] = i
                                 /\ R.t.open[i] = NewOpen(M.t, s, node, file)
              /\ \A r \in Slots : R.t.proc[r].state = M.t.proc[r].state /\ R.t.proc[r].pid = M.t.proc[r].pid
            BY <2>2, <3>b, DescribeKeeps
        <3>a. R.ret >= 0 =>
                 /\ R.t.fds[s][R.ret] \in OpenIdx
                 /\ R.t.open[R.t.fds[s][R.ret]] = NewOpen(M.t, s, node, file)
            BY <3>3
        <3>4. Filled(R.t, FreshOf(T, M.t, W))
            BY <2>2, <2>3, <3>b, DescribeFilled
        <3>5. FreshOf(T, M.t, W) = FreshOf(T, R.t, W)
            BY <3>3 DEF FreshOf
        <3>6. Only(T, R.t, s)
            BY <1>0, <2>4, <3>3, OnlyTransitive
        <3>7. Opened(T, R, s)
            BY <2>2, <3>3, <3>a, <3>6 DEF Opened, FilesStep
        <3>8. R.ret >= 0 => AtStart(R, s, path)
            <4> SUFFICES ASSUME R.ret >= 0 PROVE AtStart(R, s, path)
                OBVIOUS
            <4> DEFINE o == R.t.open[R.t.fds[s][R.ret]]
            <4>1. o = NewOpen(M.t, s, "tmp", M.ret)
                BY <3>a DEF node, file
            <4> HIDE DEF o
            <4>2. o.node = "tmp" /\ o.offset = 0 /\ o.file = M.ret
                BY <4>1 DEF NewOpen
            <4>3. R.t.files[o.file].path = path
                BY <2>2, <3>1, <3>3, <4>2
            <4> QED BY <4>2, <4>3 DEF o, AtStart
        <3>9. Looks(creat, trunc) => R.t.files = T.files
            BY <2>2, <3>3 DEF Looks
        <3> QED BY <3>4, <3>5, <3>7, <3>8, <3>9
    <2> QED BY <2>5, <2>6
<1> QED BY <1>1, <1>2

\* Reads and writes move the offset of the description of a descriptor.
Moved(T, U, i) ==
    /\ U.proc = T.proc /\ U.fds = T.fds /\ U.openCount = T.openCount
    /\ U.fileCount = T.fileCount /\ U.live = T.live
    /\ \A j \in OpenIdx : /\ U.open[j].used = T.open[j].used /\ U.open[j].refs = T.open[j].refs
                          /\ U.open[j].owner = T.open[j].owner
                          /\ j # i => U.open[j] = T.open[j]
    /\ \A f \in FileIdx : U.files[f].used = T.files[f].used /\ U.files[f].path = T.files[f].path

LEMMA MoveKeeps ==
    ASSUME NEW T, Sound(T), NEW s \in Slots, NEW fd \in Fds, T.fds[s][fd] >= 0,
           NEW U \in Tables, Moved(T, U, T.fds[s][fd])
    PROVE  Sound(U) /\ Only(T, U, s)
<1>0. T \in Tables /\ Refs(T) /\ Own(T)
    BY DEF Sound
<1>1. Refs(U)
    <2>1. {i \in OpenIdx : U.open[i].used} = {i \in OpenIdx : T.open[i].used}
        BY DEF Moved
    <2> QED BY <1>0, <2>1 DEF Refs, Moved
<1>2. Own(U)
    <2>1. \A r \in Slots, fe \in Fds : T.fds[r][fe] >= 0 =>
             U.open[T.fds[r][fe]].owner = T.open[T.fds[r][fe]].owner
        BY <1>0, Fields DEF Moved
    <2> QED BY <1>0, <2>1 DEF Own, Moved
<1>3. FileCount(U) /\ Alive(U) /\ \A r \in Slots : FdCount(U, r)
    <2>1. {f \in FileIdx : U.files[f].used} = {f \in FileIdx : T.files[f].used}
        BY DEF Moved
    <2>2. FileCount(U)
        BY <2>1 DEF Sound, FileCount, Moved
    <2>3. Alive(U)
        BY DEF Sound, Alive, Moved
    <2>4. \A r \in Slots : FdCount(U, r)
        BY DEF Sound, FdCount, Moved
    <2> QED BY <2>2, <2>3, <2>4
<1>4. Only(T, U, s)
    <2> SUFFICES ASSUME NEW r \in Slots \ {s}, NEW fe \in Fds, T.fds[r][fe] >= 0
                 PROVE  U.open[T.fds[r][fe]] = T.open[T.fds[r][fe]]
        BY DEF Only, Moved
    <2>1. T.fds[r][fe] # T.fds[s][fd] /\ T.fds[r][fe] \in OpenIdx
        BY <1>0, Fields DEF Own
    <2> QED BY <2>1 DEF Moved
<1> QED BY <1>1, <1>2, <1>3, <1>4 DEF Sound

LEMMA NamedIsUsed ==
    ASSUME NEW T, T \in Tables, Refs(T), NEW s \in Slots, NEW fd \in Fds, T.fds[s][fd] >= 0
    PROVE  T.open[T.fds[s][fd]].used /\ T.fds[s][fd] \in OpenIdx
<1>1. <<s, fd>> \in NamesIn(T.fds, T.fds[s][fd]) /\ T.fds[s][fd] \in OpenIdx
    BY Fields DEF NamesIn
<1> QED BY <1>1 DEF Refs

SetMove(T, i, off, f, size) == [T EXCEPT !.open[i].offset = off, !.files[f].size = size]

LEMMA MoveFields ==
    ASSUME NEW T \in Tables, NEW i \in OpenIdx, NEW f \in FileIdx, NEW off \in Nat,
           NEW size \in Nat, NEW U, U = SetMove(T, i, off, f, size)
    PROVE  /\ U \in Tables /\ Moved(T, U, i)
           /\ U.open[i].offset = off /\ U.open[i].node = T.open[i].node
           /\ U.open[i].file = T.open[i].file
           /\ U.files[f].size = size /\ \A g \in FileIdx : g # f => U.files[g] = T.files[g]
<1> DEFINE o == [T.open[i] EXCEPT !.offset = off]
           h == [T.files[f] EXCEPT !.size = size]
           O == [T.open EXCEPT ![i] = o]
           F == [T.files EXCEPT ![f] = h]
<1>1. U = [T EXCEPT !.open = O, !.files = F]
    BY DEF Tables, SetMove
<1>2. T.open[i] \in OpenFile /\ T.files[f] \in File
    BY Fields
<1>3. /\ o \in OpenFile /\ o.offset = off /\ o.node = T.open[i].node /\ o.file = T.open[i].file
      /\ o.used = T.open[i].used /\ o.refs = T.open[i].refs /\ o.owner = T.open[i].owner
    BY <1>2 DEF OpenFile
<1>4. h \in File /\ h.size = size /\ h.used = T.files[f].used /\ h.path = T.files[f].path
    BY <1>2 DEF File
<1> HIDE DEF o, h
<1>5. /\ O \in [OpenIdx -> OpenFile] /\ O[i] = o /\ \A j \in OpenIdx : j # i => O[j] = T.open[j]
      /\ F \in [FileIdx -> File] /\ F[f] = h /\ \A g \in FileIdx : g # f => F[g] = T.files[g]
    BY <1>3, <1>4, Fields
<1> HIDE DEF O, F
<1>6. /\ U \in Tables /\ U.open = O /\ U.files = F /\ U.proc = T.proc /\ U.fds = T.fds
      /\ U.openCount = T.openCount /\ U.fileCount = T.fileCount /\ U.live = T.live
    BY <1>1, <1>5 DEF Tables
<1>7. Moved(T, U, i)
    <2>1. \A j \in OpenIdx : /\ U.open[j].used = T.open[j].used /\ U.open[j].refs = T.open[j].refs
                             /\ U.open[j].owner = T.open[j].owner
                             /\ j # i => U.open[j] = T.open[j]
        BY <1>3, <1>5, <1>6
    <2>2. \A g \in FileIdx : U.files[g].used = T.files[g].used /\ U.files[g].path = T.files[g].path
        BY <1>4, <1>5, <1>6
    <2> QED BY <1>6, <2>1, <2>2 DEF Moved
<1> QED BY <1>3, <1>4, <1>5, <1>6, <1>7

CoversOf(T, s, fd, n, W) ==
    LET i == T.fds[s][fd]  o == T.open[i] IN
    [f \in FileIdx |->
        IF i >= 0 /\ o.used /\ o.node = "tmp" /\ o.file = f
        THEN W[f] \union (o.offset .. (o.offset + Clip(n, FileData - o.offset) - 1))
        ELSE W[f]]

\* The bytes below the new offset are the old ones and the ones just passed.
LEMMA MoveFilled ==
    ASSUME NEW T, NEW U, NEW W, NEW X, Filled(T, W), T \in Tables, U \in Tables,
           NEW i \in OpenIdx, Moved(T, U, i),
           U.open[i].node = T.open[i].node, U.open[i].file = T.open[i].file,
           T.open[i].node = "tmp", NEW f, f = T.open[i].file,
           \A g \in FileIdx : W[g] \subseteq X[g],
           \A g \in FileIdx : g # f => U.files[g].size = T.files[g].size,
           U.files[f].size <= FileData, 0..(U.files[f].size - 1) \subseteq X[f],
           U.open[i].offset <= FileData, 0..(U.open[i].offset - 1) \subseteq X[f]
    PROVE  Filled(U, X)
<1>1. ASSUME NEW g \in FileIdx
      PROVE  U.files[g].size <= FileData /\ 0..(U.files[g].size - 1) \subseteq X[g]
    <2>1. CASE g = f
        BY <2>1
    <2>2. CASE g # f
        <3>1. T.files[g].size <= FileData /\ 0..(T.files[g].size - 1) \subseteq W[g]
            BY DEF Filled
        <3>2. W[g] \subseteq X[g] /\ U.files[g].size = T.files[g].size
            BY <2>2
        <3> QED BY <3>1, <3>2
    <2> QED BY <2>1, <2>2
<1>2. ASSUME NEW j \in OpenIdx, U.open[j].node = "tmp"
      PROVE  /\ U.open[j].file \in FileIdx /\ U.files[U.open[j].file].used
             /\ U.open[j].offset <= FileData
             /\ 0..(U.open[j].offset - 1) \subseteq X[U.open[j].file]
    <2>1. CASE j = i
        <3>1. f \in FileIdx /\ T.files[f].used
            BY DEF Filled
        <3>2. U.files[f].used
            BY <3>1 DEF Moved
        <3> QED BY <2>1, <3>1, <3>2
    <2>2. CASE j # i
        <3> DEFINE g == T.open[j].file
        <3>1. U.open[j] = T.open[j]
            BY <2>2 DEF Moved
        <3>2. /\ g \in FileIdx /\ T.files[g].used /\ T.open[j].offset <= FileData
              /\ 0..(T.open[j].offset - 1) \subseteq W[g]
            BY <1>2, <3>1 DEF Filled
        <3>3. U.files[g].used /\ W[g] \subseteq X[g]
            BY <3>2 DEF Moved
        <3> HIDE DEF g
        <3>4. 0..(T.open[j].offset - 1) \subseteq X[g]
            BY <3>2, <3>3
        <3> QED BY <3>1, <3>2, <3>3, <3>4 DEF g
    <2> QED BY <2>1, <2>2
<1> QED BY <1>1, <1>2 DEF Filled

LEMMA CoversMore ==
    ASSUME NEW T, NEW s, NEW fd, NEW n, NEW W
    PROVE  \A f \in FileIdx : W[f] \subseteq CoversOf(T, s, fd, n, W)[f]
BY DEF CoversOf

\* A write of n bytes at the beginning of a file fits.
Roomy(T, s, fd, n) ==
    LET o == T.open[T.fds[s][fd]] IN
    T.fds[s][fd] >= 0 /\ o.node = "tmp" /\ o.offset = 0 /\ n <= FileData

LEMMA WriteKeeps ==
    ASSUME NEW T, Sound(T), NEW W, Filled(T, W), NEW s \in Slots, NEW fd \in Fds, NEW n \in Nat,
           NEW R, R = VfsWrite(T, s, fd, n)
    PROVE  /\ Sound(R.t) /\ Only(T, R.t, s) /\ Filled(R.t, CoversOf(T, s, fd, n, W))
           /\ R.t.fds = T.fds /\ R.t.proc = T.proc
           /\ \A f \in FileIdx : /\ R.t.files[f].used = T.files[f].used
                                 /\ R.t.files[f].path = T.files[f].path
           /\ Roomy(T, s, fd, n) => R.ret = n
<1> DEFINE i == T.fds[s][fd]
           X == CoversOf(T, s, fd, n, W)
<1>0. T \in Tables /\ Refs(T) /\ i \in OpenIdx \union {-1}
    BY Fields DEF Sound
<1>1. CASE ~(i >= 0 /\ T.open[i].node = "tmp")
    <2>1. R.t = T
        <3>1. R = Ret(T, -9) \/ R = Ret(T, -30) \/ R = Ret(T, n)
            <4>1. i < 0 \/ T.open[i].node # "tmp"
                BY <1>0, <1>1, Indexes
            <4> QED BY <4>1 DEF VfsWrite
        <3> QED BY <3>1 DEF Ret
    <2>2. Filled(T, X)
        BY CoversMore, MoreIsWritten
    <2> QED BY <1>1, <2>1, <2>2 DEF Only, Roomy
<1>2. CASE i >= 0 /\ T.open[i].node = "tmp"
    <2> DEFINE f == T.open[i].file
               off == T.open[i].offset
               m == Clip(n, FileData - off)
               size == IF off + m > T.files[f].size THEN off + m ELSE T.files[f].size
               U == SetMove(T, i, off + m, f, size)
    <2>1. i \in OpenIdx /\ T.open[i].used
        BY <1>0, <1>2, NamedIsUsed
    <2> HIDE DEF i, m, size, U
    <2>a. T \in Tables /\ f \in FileIdx /\ off \in Nat
        BY <1>0, <1>2, <2>1, Fields DEF Filled
    <2>2. /\ f \in FileIdx /\ T.files[f].used /\ off <= FileData /\ 0..(off - 1) \subseteq W[f]
          /\ T.files[f].size <= FileData /\ 0..(T.files[f].size - 1) \subseteq W[f]
        BY <1>2, <2>1 DEF Filled
    <2>3. off \in Nat /\ T.files[f].size \in Nat
        BY <2>a, Fields
    <2>4. m \in Nat /\ off + m <= FileData /\ (off = 0 /\ n <= FileData => m = n)
        <3> HIDE DEF off
        <3>1. off <= FileData /\ FileData \in Nat /\ off \in Nat
            BY <2>2, <2>3, Sizes
        <3>2. FileData - off \in Nat /\ off + (FileData - off) = FileData
            BY <3>1
        <3>3. m = IF n > FileData - off THEN FileData - off ELSE n
            BY DEF m, Clip
        <3> QED BY <3>1, <3>2, <3>3
    <2>5. R = Ret([T EXCEPT !.open[i].offset = off + m,
                            !.files[f].size = IF off + m > @ THEN off + m ELSE @], m)
        <3>1. ~(i < 0) /\ T.open[i].node # "proc" /\ T.open[i].node # "zero"
            BY <1>0, <1>2, Indexes
        <3> QED BY <1>2, <3>1 DEF VfsWrite, i, m
    <2>6. R = Ret(U, m)
        <3> HIDE DEF off, f
        <3> QED BY <2>a, <2>1, <2>5 DEF Tables, SetMove, U, size
    <2>7. R.t = U /\ R.ret = m
        <3> HIDE DEF m
        <3> QED BY <2>6 DEF Ret
    <2>8. size \in Nat /\ off + m \in Nat /\ size <= FileData
        <3> DEFINE old == T.files[f].size
        <3>1. old \in Nat /\ old <= FileData /\ size = IF off + m > old THEN off + m ELSE old
            BY <2>2, <2>3 DEF size
        <3> HIDE DEF off, old
        <3> QED BY <2>3, <2>4, <3>1, Sizes
    <2>9. /\ U \in Tables /\ Moved(T, U, i)
          /\ U.open[i].offset = off + m /\ U.open[i].node = T.open[i].node
          /\ U.open[i].file = T.open[i].file
          /\ U.files[f].size = size /\ \A g \in FileIdx : g # f => U.files[g] = T.files[g]
        <3> DEFINE to == off + m
        <3>1. /\ to \in Nat /\ U = SetMove(T, i, to, f, size) /\ size \in Nat
              /\ f \in FileIdx /\ T \in Tables
            BY <2>8, <2>a DEF U
        <3> HIDE DEF to, f, off
        <3>2. /\ U \in Tables /\ Moved(T, U, i)
              /\ U.open[i].offset = to /\ U.open[i].node = T.open[i].node
              /\ U.open[i].file = T.open[i].file
              /\ U.files[f].size = size /\ \A g \in FileIdx : g # f => U.files[g] = T.files[g]
            BY <2>1, <3>1, MoveFields
        <3> QED BY <3>2 DEF to
    <2>10. Sound(U) /\ Only(T, U, s)
        BY <1>2, <2>9, MoveKeeps DEF i
    <2>11. X[f] = W[f] \union (off .. (off + m - 1))
        BY <1>2, <2>1, <2>a DEF CoversOf, i, m
    <2>12. 0..(off + m - 1) \subseteq X[f] /\ 0..(size - 1) \subseteq X[f]
        <3> HIDE DEF X, m, off, f
        <3>1. 0..(off + m - 1) \subseteq X[f]
            <4> SUFFICES ASSUME NEW b \in 0..(off + m - 1) PROVE b \in X[f]
                OBVIOUS
            <4>1. b \in 0..(off - 1) \/ b \in off..(off + m - 1)
                BY <2>3, <2>4
            <4> QED BY <2>2, <2>11, <4>1
        <3>2. 0..(T.files[f].size - 1) \subseteq X[f]
            BY <2>2, <2>11
        <3>3. size = off + m \/ size = T.files[f].size
            BY DEF size, off, f
        <3>4. CASE size = off + m
            <4>1. size - 1 = off + m - 1
                BY <2>3, <2>4, <3>4
            <4> QED BY <3>1, <4>1, Zenon
        <3>5. CASE size = T.files[f].size
            BY <3>1, <3>2, <3>5
        <3> QED BY <3>3, <3>4, <3>5
    <2>13. Filled(U, X)
        <3>1. \A g \in FileIdx : W[g] \subseteq X[g]
            BY CoversMore
        <3>a. f = T.open[i].file
            OBVIOUS
        <3> HIDE DEF X, off, f
        <3>2. \A g \in FileIdx : g # f => U.files[g].size = T.files[g].size
            BY <2>9
        <3>3. U.files[f].size <= FileData /\ 0..(U.files[f].size - 1) \subseteq X[f]
            BY <2>8, <2>9, <2>12
        <3>4. U.open[i].offset <= FileData /\ 0..(U.open[i].offset - 1) \subseteq X[f]
            <4> DEFINE to == off + m
            <4>a. to <= FileData
                BY <2>4
            <4>b. U.open[i].offset = to
                BY <2>9
            <4>d. to - 1 = off + m - 1
                BY <2>3, <2>4
            <4>c. 0..(to - 1) \subseteq X[f]
                BY <4>d, <2>12, Zenon
            <4>1. to <= FileData /\ U.open[i].offset = to /\ 0..(to - 1) \subseteq X[f]
                BY <4>a, <4>b, <4>c, Zenon
            <4> HIDE DEF to
            <4> QED BY <4>1
        <3>5. Filled(T, W) /\ T \in Tables /\ U \in Tables /\ Moved(T, U, i) /\ T.open[i].node = "tmp"
            BY <1>2, <2>a, <2>9
        <3> QED BY <2>1, <2>9, <3>a, <3>1, <3>2, <3>3, <3>4, <3>5, MoveFilled
    <2>14. /\ U.fds = T.fds /\ U.proc = T.proc
           /\ \A g \in FileIdx : U.files[g].used = T.files[g].used /\ U.files[g].path = T.files[g].path
        BY <2>9 DEF Moved
    <2> QED BY <2>4, <2>7, <2>10, <2>13, <2>14 DEF i, Roomy
<1> QED BY <1>1, <1>2

LEMMA ReadKeeps ==
    ASSUME NEW T, Sound(T), NEW W, Filled(T, W), NEW s \in Slots, NEW fd \in Fds, NEW n \in Nat,
           NEW R, R = VfsRead(T, s, fd, n)
    PROVE  /\ Sound(R.t) /\ Only(T, R.t, s) /\ Filled(R.t, W)
           /\ R.t.fds = T.fds /\ R.t.proc = T.proc /\ R.t.files = T.files
<1> DEFINE i == T.fds[s][fd]
<1>0. T \in Tables /\ Refs(T) /\ i \in OpenIdx \union {-1}
    BY Fields DEF Sound
<1>1. CASE ~(i >= 0 /\ T.open[i].node = "tmp")
    <2>1. R.t = T
        <3>1. R = Ret(T, -9) \/ R = Ret(T, n) \/ R = Ret(T, 0)
            <4>1. i < 0 \/ T.open[i].node # "tmp"
                BY <1>0, <1>1, Indexes
            <4> QED BY <4>1 DEF VfsRead
        <3> QED BY <3>1 DEF Ret
    <2> QED BY <2>1 DEF Only
<1>2. CASE i >= 0 /\ T.open[i].node = "tmp"
    <2> DEFINE f == T.open[i].file
               off == T.open[i].offset
               size == T.files[f].size
               left == IF size > off THEN size - off ELSE 0
               m == Clip(n, left)
               U == SetMove(T, i, off + m, f, size)
    <2>1. i \in OpenIdx
        BY <1>0, <1>2, NamedIsUsed
    <2> HIDE DEF i, m, left, U
    <2>a. T \in Tables /\ f \in FileIdx /\ off \in Nat
        BY <1>0, <1>2, <2>1, Fields DEF Filled
    <2>2. /\ f \in FileIdx /\ T.files[f].used /\ off <= FileData /\ 0..(off - 1) \subseteq W[f]
          /\ size <= FileData /\ 0..(size - 1) \subseteq W[f]
        BY <1>2, <2>1 DEF Filled
    <2>3. off \in Nat /\ size \in Nat
        BY <2>a, Fields
    <2>4. m \in Nat /\ off + m <= FileData /\ (off + m <= off \/ off + m <= size)
        <3>0. left = IF size > off THEN size - off ELSE 0
            BY DEF left
        <3> HIDE DEF off, size
        <3>1. off <= FileData /\ size <= FileData /\ FileData \in Nat /\ off \in Nat /\ size \in Nat
            BY <2>2, <2>3, Sizes
        <3>2. m = IF n > left THEN left ELSE n
            BY DEF m, Clip
        <3>3. CASE size > off
            <4>1. left = size - off /\ left \in Nat
                BY <3>0, <3>1, <3>3
            <4> QED BY <3>1, <3>2, <4>1
        <3>4. CASE ~(size > off)
            <4>1. left = 0
                BY <3>0, <3>4
            <4> QED BY <3>1, <3>2, <4>1
        <3> QED BY <3>3, <3>4
    <2>5. R = Ret([T EXCEPT !.open[i].offset = off + m], m)
        <3>1. ~(i < 0) /\ T.open[i].node # "zero"
            BY <1>0, <1>2, Indexes
        <3> QED BY <1>2, <3>1 DEF VfsRead, i, m, left
    <2>6. [T EXCEPT !.open[i].offset = off + m] = U
        <3>1. [T.files EXCEPT ![f] = [T.files[f] EXCEPT !.size = size]] = T.files
            <4>1. T.files[f] \in File /\ T.files \in [FileIdx -> File]
                BY <2>a, Fields
            <4>2. [T.files[f] EXCEPT !.size = size] = T.files[f]
                BY <4>1 DEF File
            <4> HIDE DEF f, size
            <4> QED BY <4>1, <4>2
        <3> HIDE DEF off, f, size
        <3>2. U = [T EXCEPT !.open = [T.open EXCEPT ![i] = [T.open[i] EXCEPT !.offset = off + m]],
                            !.files = [T.files EXCEPT ![f] = [T.files[f] EXCEPT !.size = size]]]
            BY <2>a DEF Tables, SetMove, U
        <3>3. U = [T EXCEPT !.open = [T.open EXCEPT ![i] = [T.open[i] EXCEPT !.offset = off + m]],
                            !.files = T.files]
            BY <3>1, <3>2
        <3>4. [T EXCEPT !.open[i].offset = off + m]
               = [T EXCEPT !.open = [T.open EXCEPT ![i] = [T.open[i] EXCEPT !.offset = off + m]]]
            BY <2>a DEF Tables
        <3> QED BY <2>a, <3>3, <3>4 DEF Tables
    <2>7. R.t = U
        <3>1. R = Ret(U, m)
            BY <2>5, <2>6
        <3> QED BY <3>1 DEF Ret
    <2>8. off + m \in Nat
        <3> HIDE DEF off
        <3> QED BY <2>3, <2>4
    <2>9. /\ U \in Tables /\ Moved(T, U, i)
          /\ U.open[i].offset = off + m /\ U.open[i].node = T.open[i].node
          /\ U.open[i].file = T.open[i].file
          /\ U.files[f].size = size /\ \A g \in FileIdx : g # f => U.files[g] = T.files[g]
        <3> DEFINE to == off + m
        <3>1. to \in Nat /\ U = SetMove(T, i, to, f, size)
            BY <2>8 DEF U
        <3> HIDE DEF to, size, f, off
        <3>2. /\ U \in Tables /\ Moved(T, U, i)
              /\ U.open[i].offset = to /\ U.open[i].node = T.open[i].node
              /\ U.open[i].file = T.open[i].file
              /\ U.files[f].size = size /\ \A g \in FileIdx : g # f => U.files[g] = T.files[g]
            BY <2>1, <2>a, <2>3, <3>1, MoveFields
        <3> QED BY <3>2 DEF to
    <2>10. Sound(U) /\ Only(T, U, s)
        BY <1>2, <2>9, MoveKeeps DEF i
    <2>11. 0..(off + m - 1) \subseteq W[f]
        <3> HIDE DEF off, f, size
        <3> SUFFICES ASSUME NEW b \in 0..(off + m - 1) PROVE b \in W[f]
            OBVIOUS
        <3>1. b \in 0..(off - 1) \/ b \in 0..(size - 1)
            BY <2>3, <2>4
        <3> QED BY <2>2, <3>1
    <2>12. Filled(U, W)
        <3>1. \A g \in FileIdx : W[g] \subseteq W[g]
            OBVIOUS
        <3>2. f = T.open[i].file /\ \A g \in FileIdx : g # f => U.files[g].size = T.files[g].size
            BY <2>9
        <3> HIDE DEF size, off, f
        <3>3. U.files[f].size <= FileData /\ 0..(U.files[f].size - 1) \subseteq W[f]
            BY <2>2, <2>9
        <3>4. U.open[i].offset <= FileData /\ 0..(U.open[i].offset - 1) \subseteq W[f]
            <4> DEFINE to == off + m
            <4>a. to <= FileData
                BY <2>4
            <4>b. U.open[i].offset = to
                BY <2>9
            <4>d. to - 1 = off + m - 1
                BY <2>3, <2>4
            <4>c. 0..(to - 1) \subseteq W[f]
                BY <4>d, <2>11, Zenon
            <4>1. to <= FileData /\ U.open[i].offset = to /\ 0..(to - 1) \subseteq W[f]
                BY <4>a, <4>b, <4>c, Zenon
            <4> HIDE DEF to
            <4> QED BY <4>1
        <3>5. Filled(T, W) /\ T \in Tables /\ U \in Tables /\ Moved(T, U, i) /\ T.open[i].node = "tmp"
            BY <1>2, <2>a, <2>9
        <3> QED BY <2>1, <2>9, <3>1, <3>2, <3>3, <3>4, <3>5, MoveFilled
    <2>13. U.fds = T.fds /\ U.proc = T.proc
        BY <2>9 DEF Moved
    <2>14. U.files = T.files
        <3>1. U.files \in [FileIdx -> File] /\ T.files \in [FileIdx -> File]
            BY <2>a, <2>9, Fields
        <3>2. U.files[f] = T.files[f]
            <4>1. U.files[f] \in File /\ T.files[f] \in File
                BY <2>2, <3>1
            <4>2. U.files[f].used = T.files[f].used /\ U.files[f].path = T.files[f].path
                BY <2>2, <2>9 DEF Moved
            <4>3. U.files[f].size = T.files[f].size
                BY <2>9
            <4> HIDE DEF f, size
            <4> QED BY <4>1, <4>2, <4>3 DEF File
        <3> HIDE DEF f
        <3>3. \A g \in FileIdx : U.files[g] = T.files[g]
            BY <2>9, <3>2
        <3> QED BY <3>1, <3>3
    <2> QED BY <2>7, <2>10, <2>12, <2>13, <2>14
<1> QED BY <1>1, <1>2

\* What a call of the process in slot s keeps, that writes nothing.
Kept(T, U, s) == Sound(U) /\ Only(T, U, s) /\ Recedes(T, U)

LEMMA Stays ==
    ASSUME NEW T, Sound(T), NEW s
    PROVE  Kept(T, T, s)
BY DEF Kept, Only, Recedes

LEMMA CloseAlways ==
    ASSUME NEW T, Sound(T), NEW s \in Slots, NEW fd \in Fds, NEW U, U = VfsClose(T, s, fd).t
    PROVE  Kept(T, U, s)
<1>0. T \in Tables /\ Refs(T) /\ T.fds[s][fd] \in OpenIdx \union {-1}
    BY Fields DEF Sound
<1>1. CASE T.fds[s][fd] >= 0
    BY <1>1, CloseKeeps DEF Kept
<1>2. CASE ~(T.fds[s][fd] >= 0)
    <2>1. VfsClose(T, s, fd) = Ret(T, -9)
        BY <1>0, <1>2, Indexes DEF VfsClose
    <2>2. U = T
        BY <2>1 DEF Ret
    <2> QED BY <2>2, Stays
<1> QED BY <1>1, <1>2

\* dup2, once the new descriptor is closed.
Again(V, s, new, i) ==
    [V EXCEPT !.fds[s][new] = i, !.open[i].refs = @ + 1, !.proc[s].fdCount = @ + 1]
Shares(V, s, old, new, i) ==
    Sound(V) /\ V.fds[s][old] >= 0 /\ ~(V.fds[s][new] >= 0) /\ i = V.fds[s][old]

LEMMA NameAgain ==
    ASSUME NEW V, NEW s \in Slots, NEW old \in Fds, NEW new \in Fds,
           NEW i, Shares(V, s, old, new, i), NEW U, U = Again(V, s, new, i)
    PROVE  Kept(V, U, s)
<1> DEFINE o == [V.open[i] EXCEPT !.refs = V.open[i].refs + 1]
           D == SetOpen(V, i, o)
           n == V.proc[s].fdCount + 1
<1>1. V \in Tables /\ Refs(V) /\ Own(V) /\ i \in OpenIdx /\ V.open[i].used /\ i >= 0
    BY NamedIsUsed DEF Sound, Shares
<1>a. Sound(V) /\ ~(V.fds[s][new] >= 0)
    BY DEF Shares
<1>2. V.open[i] \in OpenFile /\ V.proc[s] \in Proc
    BY <1>1, Fields
<1>3. /\ o \in OpenFile /\ o.refs = V.open[i].refs + 1 /\ o.used /\ o.owner = V.open[i].owner
      /\ o.node = V.open[i].node /\ o.file = V.open[i].file /\ o.offset = V.open[i].offset
    BY <1>1, <1>2 DEF OpenFile
<1>4. n \in Nat
    BY <1>2 DEF Proc
<1>5. U = SetRow(D, s, new, i, n)
    BY <1>1 DEF Tables, SetRow, SetOpen, Again
<1> HIDE DEF o, D, n
<1>6. /\ D \in Tables /\ D.open = [V.open EXCEPT ![i] = o] /\ D.open[i] = o
      /\ D.proc = V.proc /\ D.fds = V.fds /\ D.files = V.files /\ D.openCount = V.openCount
      /\ D.fileCount = V.fileCount /\ D.live = V.live
    BY <1>1, <1>3, OpenFields DEF D
<1>7. /\ U \in Tables /\ U.fds = SetFd(D.fds, s, new, i)
      /\ U.proc = [D.proc EXCEPT ![s] = [D.proc[s] EXCEPT !.fdCount = n]]
      /\ U.open = D.open /\ U.files = D.files /\ U.openCount = D.openCount
      /\ U.fileCount = D.fileCount /\ U.live = D.live
    BY <1>1, <1>4, <1>5, <1>6, RowFields
<1>8. /\ U.fds = SetFd(V.fds, s, new, i) /\ U.files = V.files /\ U.live = V.live
      /\ U.openCount = V.openCount /\ U.fileCount = V.fileCount /\ U.open[i] = o
      /\ U.proc = [V.proc EXCEPT ![s] = [V.proc[s] EXCEPT !.fdCount = n]]
      /\ \A j \in OpenIdx : j # i => U.open[j] = V.open[j]
    BY <1>1, <1>6, <1>7, Fields
<1>9. /\ \A r \in Slots : U.proc[r].state = V.proc[r].state /\ U.proc[r].pid = V.proc[r].pid
      /\ \A r \in Slots \ {s} : U.proc[r] = V.proc[r]
      /\ U.proc[s].fdCount = n
    BY <1>1, <1>2, <1>8, Fields DEF Proc
<1>10. OneMore(V, U, s, new, i) /\ V.proc[s].state # "FREE"
    <2>1. V.open[i].owner = V.proc[s].pid /\ V.proc[s].state # "FREE"
        BY <1>1 DEF Own, Shares
    <2> QED BY <1>1, <1>3, <1>8, <2>1 DEF OneMore
<1>11. NamedFrom(V, i, s)
    BY <1>1 DEF Own, NamedFrom, Shares
<1>12. Refs(U) /\ Own(U) /\ \A r \in Slots \ {s} : U.fds[r] = V.fds[r]
    <2>1. V \in Tables /\ Refs(V) /\ Own(V) /\ i \in OpenIdx /\ U \in Tables
        BY <1>1, <1>7
    <2>2. \A r \in Slots : U.proc[r].state = V.proc[r].state /\ U.proc[r].pid = V.proc[r].pid
        BY <1>9
    <2> QED BY <2>1, <2>2, <1>a, <1>10, <1>11, NameKeeps
<1>13. FileCount(U) /\ Alive(U)
    <2>1. Taken(U.proc) = Taken(V.proc)
        BY <1>9 DEF Taken
    <2> QED BY <1>a, <1>8, <1>9, <2>1, Sizes DEF Sound, FileCount, Alive
<1>14. \A r \in Slots : FdCount(U, r)
    <2>1. ASSUME NEW r \in Slots \ {s} PROVE FdCount(U, r)
        BY <1>a, <1>9, <1>12 DEF Sound, FdCount
    <2>2. FdCount(U, s)
        <3>1. Cardinality(OpenFds(U.fds, s)) = Cardinality(OpenFds(V.fds, s)) + 1
            <4>1. V.fds \in Rows /\ i \in OpenIdx \union {-1} /\ V.fds[s][new] < 0
                <5>1. V.fds[s][new] \in OpenIdx \union {-1}
                    BY <1>1, Fields
                <5> QED BY <1>1, <1>a, <5>1, Fields, Indexes DEF Rows
            <4> QED BY <1>1, <1>8, <4>1, CountRow
        <3>2. V.proc[s].fdCount = Cardinality(OpenFds(V.fds, s))
            BY <1>a, FdCountIs DEF Sound
        <3> QED BY <1>9, <3>1, <3>2, FdCountIs DEF n
    <2> QED BY <2>1, <2>2
<1>15. Sound(U)
    BY <1>7, <1>12, <1>13, <1>14 DEF Sound
<1>16. Only(V, U, s)
    <2> SUFFICES ASSUME NEW r \in Slots \ {s}, NEW fe \in Fds, V.fds[r][fe] >= 0
                 PROVE  U.open[V.fds[r][fe]] = V.open[V.fds[r][fe]]
        BY <1>9, <1>12 DEF Only
    <2>1. V.fds[r][fe] # i /\ V.fds[r][fe] \in OpenIdx
        BY <1>1, <1>11, Fields DEF NamedFrom
    <2> QED BY <1>8, <2>1
<1>17. Recedes(V, U)
    <2>1. \A j \in OpenIdx : U.open[j].node = "tmp" =>
             /\ V.open[j].node = "tmp" /\ U.open[j].file = V.open[j].file
             /\ U.open[j].offset = V.open[j].offset
        <3> TAKE j \in OpenIdx
        <3>1. CASE j = i
            BY <1>3, <1>8, <3>1
        <3>2. CASE j # i
            BY <1>8, <3>2
        <3> QED BY <3>1, <3>2
    <2> QED BY <1>8, <2>1 DEF Recedes
<1> QED BY <1>15, <1>16, <1>17 DEF Kept

LEMMA Dup2Keeps ==
    ASSUME NEW T, Sound(T), NEW s \in Slots, NEW old \in Fds, NEW new \in Fds,
           NEW U, U = VfsDup2(T, s, old, new).t
    PROVE  Kept(T, U, s)
<1> DEFINE i == T.fds[s][old]
           C == IF T.fds[s][new] >= 0 THEN VfsClose(T, s, new) ELSE Ret(T, 0)
           V == C.t
<1>0. T \in Tables /\ i \in OpenIdx \union {-1} /\ T.fds[s][new] \in OpenIdx \union {-1}
    BY Fields DEF Sound
<1>1. CASE ~(i >= 0) \/ old = new
    <2>1. VfsDup2(T, s, old, new) = Ret(T, -9) \/ VfsDup2(T, s, old, new) = Ret(T, new)
        BY <1>0, <1>1, Indexes DEF VfsDup2
    <2>2. U = T
        BY <2>1 DEF Ret
    <2> QED BY <2>2, Stays
<1>2. CASE i >= 0 /\ old # new
    <2>1. /\ C.ret = 0 /\ Kept(T, V, s) /\ ~(V.fds[s][new] >= 0) /\ V.fds[s][old] = i
        <3>1. CASE T.fds[s][new] >= 0
            <4>1. C = VfsClose(T, s, new)
                BY <3>1
            <4> HIDE DEF C
            <4>2. /\ C.ret = 0 /\ Kept(T, V, s) /\ V.fds = SetFd(T.fds, s, new, -1)
                BY <3>1, <4>1, CloseKeeps DEF Kept
            <4>3. V.fds[s][new] = -1 /\ V.fds[s][old] = T.fds[s][old]
                BY <1>0, <1>2, <4>2, Fields DEF SetFd
            <4> QED BY <4>2, <4>3
        <3>2. CASE ~(T.fds[s][new] >= 0)
            <4>1. C = Ret(T, 0)
                BY <3>2
            <4> HIDE DEF C
            <4>2. V = T /\ C.ret = 0
                BY <4>1 DEF Ret
            <4> QED BY <3>2, <4>2, Stays
        <3> QED BY <3>1, <3>2
    <2>2. ~(i < 0)
        BY <1>0, <1>2, Indexes
    <2> DEFINE X == [C.t EXCEPT !.fds[s][new] = i, !.open[i].refs = @ + 1,
                                !.proc[s].fdCount = @ + 1]
    <2>3. VfsDup2(T, s, old, new) = Ret(X, new)
        <3>1. VfsDup2(T, s, old, new) = IF C.ret # 0 THEN C ELSE Ret(X, new)
            BY <1>2, <2>2, Zenon DEF VfsDup2
        <3> HIDE DEF X, C
        <3> QED BY <2>1, <3>1
    <2>4. U = X
        <3> HIDE DEF X, C, V
        <3> QED BY <2>3 DEF Ret
    <2>5. Kept(V, U, s)
        <3> HIDE DEF C
        <3>1. U = Again(V, s, new, i)
            BY <2>4 DEF Again
        <3>2. Shares(V, s, old, new, i)
            BY <1>2, <2>1 DEF Kept, Shares
        <3> HIDE DEF V, i, X
        <3> QED BY <3>1, <3>2, NameAgain
    <2> HIDE DEF V, C, X
    <2> QED BY <1>0, <2>1, <2>5, OnlyTransitive, RecedesTransitive DEF Kept
<1> QED BY <1>1, <1>2

-----------------------------------------------------------------------------
(* The compound calls of the kernel.                                       *)

CatOf(T, path) ==
    LET O == VfsOpen(T, ShellSlot, path, FALSE, FALSE)
        R == VfsRead(O.t, ShellSlot, O.ret, FileData)
    IN  IF O.ret < 0 THEN O.t ELSE VfsClose(R.t, ShellSlot, O.ret).t

LEMMA CatKeeps ==
    ASSUME NEW T, Sound(T), NEW W, Filled(T, W), NEW path \in TmpPaths \union Devices
    PROVE  Sound(CatOf(T, path)) /\ Only(T, CatOf(T, path), ShellSlot) /\ Filled(CatOf(T, path), W)
<1> DEFINE s == ShellSlot
           no == FALSE
           O == VfsOpen(T, s, path, no, no)
           R == VfsRead(O.t, s, O.ret, FileData)
           U == CatOf(T, path)
<1>a. U = IF O.ret < 0 THEN O.t ELSE VfsClose(R.t, s, O.ret).t
    BY Zenon DEF CatOf
<1> HIDE DEF O, R, U
<1>0. s \in Slots /\ T.proc[s].state # "FREE" /\ T \in Tables /\ FileData \in Nat
    BY Sizes DEF Sound, Alive
<1>1. no \in BOOLEAN /\ Looks(no, no) /\ O = VfsOpen(T, s, path, no, no)
    BY DEF O, Looks
<1>2. /\ Opened(T, O, s) /\ Filled(O.t, FreshOf(T, O.t, W)) /\ O.t.files = T.files
    <2> HIDE DEF s, no
    <2>1. Opened(T, O, s) /\ Filled(O.t, FreshOf(T, O.t, W))
        BY <1>0, <1>1, OpenKeeps
    <2>2. O.t.files = T.files
        BY <1>0, <1>1, OpenKeeps
    <2> QED BY <2>1, <2>2
<1>3. Filled(O.t, W)
    <2>1. \A f \in FileIdx : FreshOf(T, O.t, W)[f] \subseteq W[f]
        BY <1>2 DEF FreshOf
    <2> HIDE DEF s
    <2> QED BY <1>2, <2>1, MoreIsWritten
<1> HIDE DEF s, no
<1>4. CASE O.ret < 0
    BY <1>a, <1>2, <1>3, <1>4 DEF Opened, s, U
<1>5. CASE ~(O.ret < 0)
    <2>1. O.ret \in Fds
        <3>1. O.ret \in Fds \union {-2, -24, -28}
            BY <1>2 DEF Opened
        <3>2. O.ret \notin {-2, -24, -28}
            BY <1>5
        <3> QED BY <3>1, <3>2
    <2>2. Sound(O.t) /\ Only(T, O.t, s)
        BY <1>2 DEF Opened
    <2>3. R = VfsRead(O.t, s, O.ret, FileData)
        BY DEF R
    <2>4. Sound(R.t) /\ Only(O.t, R.t, s) /\ Filled(R.t, W)
        BY <1>0, <1>3, <2>1, <2>2, <2>3, ReadKeeps
    <2>5. U = VfsClose(R.t, s, O.ret).t
        BY <1>a, <1>5
    <2>6. Kept(R.t, U, s)
        BY <1>0, <2>1, <2>4, <2>5, CloseAlways
    <2>7. Sound(U) /\ Only(R.t, U, s) /\ Filled(U, W)
        BY <2>4, <2>6, RecedesFilled DEF Kept
    <2>8. Only(T, U, s)
        <3>1. Only(T, R.t, s)
            BY <1>0, <2>2, <2>4, OnlyTransitive
        <3> QED BY <1>0, <2>7, <3>1, OnlyTransitive
    <2> QED BY <2>7, <2>8 DEF s, U
<1> QED BY <1>4, <1>5

\* What the self test adds to the bytes written.
TestWrote(T, R, ipcFree, W) ==
    LET opened == ipcFree /\ FreeSlots(T) # {} /\ TmpFile(R.t, QaPath) # {} /\ R.ret = 0
    IN  [f \in FileIdx |->
            FreshOf(T, R.t, W)[f] \union (IF opened /\ R.t.files[f].path = QaPath
                                          THEN 0..(QaLength - 1) ELSE {})]

LEMMA TestWroteMore ==
    ASSUME NEW T, NEW R, NEW ipcFree, NEW W
    PROVE  \A f \in FileIdx : FreshOf(T, R.t, W)[f] \subseteq TestWrote(T, R, ipcFree, W)[f]
BY DEF TestWrote

\* The child opens, writes and closes, and is killed and reaped.
TestOpen(A, s) == VfsOpen(A, s, QaPath, TRUE, TRUE)
TestWrite(A, s) == VfsWrite(TestOpen(A, s).t, s, TestOpen(A, s).ret, QaLength)
TestClose(A, s) == VfsClose(TestWrite(A, s).t, s, TestOpen(A, s).ret)
TestEnd(A, s) == Reaped(Killed(TestClose(A, s).t, s), s)

LEMMA TestRuns ==
    ASSUME NEW T, Sound(T), NEW A, Sound(A), NEW s \in Slots, s # ShellSlot,
           A.proc[s].state = "READY", Only(T, A, s), Recedes(T, A),
           NEW W, Filled(T, W), FreeSlots(T) # {}, ~(TestOpen(A, s).ret < 0),
           NEW R, R.t = TestEnd(A, s), R.ret = 0
    PROVE  /\ TestWrite(A, s).ret = QaLength /\ TestClose(A, s).ret = 0
           /\ Sound(R.t) /\ Only(T, R.t, s) /\ Filled(R.t, TestWrote(T, R, TRUE, W))
<1> DEFINE yes == TRUE
           B == TestOpen(A, s)
           C == TestWrite(A, s)
           D == TestClose(A, s)
           U == TestEnd(A, s)
           fd == B.ret
           i == B.t.fds[s][fd]
           f == B.t.open[i].file
           W1 == FreshOf(A, B.t, W)
           W2 == CoversOf(B.t, s, fd, QaLength, W1)
           E == Killed(D.t, s)
<1>a. ~(fd < 0) /\ R.t = U
    OBVIOUS
<1> HIDE DEF B, C, D, U
<1>0. Filled(A, W) /\ A.files = T.files /\ T \in Tables /\ A.proc[s].state # "FREE"
    BY RecedesFilled DEF Recedes, Sound
<1>1. /\ Opened(A, B, s) /\ Filled(B.t, W1)
      /\ B.ret >= 0 => AtStart(B, s, QaPath)
    <2>1. /\ yes \in BOOLEAN /\ B = VfsOpen(A, s, QaPath, yes, yes)
          /\ QaPath \in TmpPaths \union Devices /\ QaPath \in TmpPaths
        BY Sizes DEF B, TestOpen
    <2> HIDE DEF yes
    <2>2. Opened(A, B, s) /\ Filled(B.t, FreshOf(A, B.t, W))
        BY <1>0, <2>1, OpenKeeps
    <2>3. B.ret >= 0 => AtStart(B, s, QaPath)
        BY <1>0, <2>1, OpenKeeps
    <2> QED BY <2>2, <2>3 DEF W1
<1>2. fd \in Fds /\ fd >= 0
    <2>1. fd \in Fds \union {-2, -24, -28}
        BY <1>1 DEF Opened
    <2> HIDE DEF fd
    <2>2. fd \notin {-2, -24, -28}
        BY <1>a
    <2>3. fd \in Fds
        BY <2>1, <2>2
    <2>4. fd \in Nat
        BY <2>3, Sizes
    <2> QED BY <2>3, <2>4
<1>3. /\ i \in OpenIdx /\ i >= 0 /\ B.t.open[i].node = "tmp" /\ B.t.open[i].offset = 0
      /\ B.t.files[f].path = QaPath
    BY <1>1, <1>2, Indexes DEF Opened, AtStart
<1> HIDE DEF fd, i, f, W1, W2, E, yes
<1>4. Sound(B.t) /\ Only(A, B.t, s) /\ B.t.proc[s].state = "READY"
    BY <1>1 DEF Opened
<1>5. QaLength \in Nat /\ QaLength <= FileData /\ FileData \in Nat
    BY Sizes
<1>6. /\ Sound(C.t) /\ Only(B.t, C.t, s) /\ Filled(C.t, W2)
      /\ C.t.fds = B.t.fds /\ C.t.proc = B.t.proc
      /\ \A g \in FileIdx : /\ C.t.files[g].used = B.t.files[g].used
                            /\ C.t.files[g].path = B.t.files[g].path
      /\ C.ret = QaLength
    <2>1. C = VfsWrite(B.t, s, fd, QaLength)
        BY DEF fd, C, B, TestWrite
    <2>a. Sound(B.t) /\ Filled(B.t, W1) /\ fd \in Fds /\ QaLength \in Nat
        BY <1>1, <1>2, <1>4, <1>5
    <2>2. /\ Sound(C.t) /\ Only(B.t, C.t, s) /\ Filled(C.t, CoversOf(B.t, s, fd, QaLength, W1))
          /\ C.t.fds = B.t.fds /\ C.t.proc = B.t.proc
          /\ \A g \in FileIdx : /\ C.t.files[g].used = B.t.files[g].used
                                /\ C.t.files[g].path = B.t.files[g].path
          /\ Roomy(B.t, s, fd, QaLength) => C.ret = QaLength
        BY <2>a, <2>1, WriteKeeps
    <2> QED BY <1>3, <1>5, <2>2 DEF W2, i, Roomy
<1>7. /\ D.ret = 0 /\ Kept(C.t, D.t, s) /\ D.t.proc[s].state = "READY"
    <2>1. D = VfsClose(C.t, s, fd) /\ C.t.fds[s][fd] >= 0
        BY <1>3, <1>6 DEF fd, i, D, C, B, TestClose
    <2>2. /\ D.ret = 0 /\ Sound(D.t) /\ Only(C.t, D.t, s) /\ Recedes(C.t, D.t)
          /\ D.t.proc[s].state = C.t.proc[s].state
        BY <1>2, <1>6, <2>1, CloseKeeps
    <2> QED BY <1>4, <1>6, <2>2 DEF Kept
<1>8. Kept(D.t, E, s) /\ E.proc[s].state = "EXITED"
    <2>1. Sound(D.t) /\ D.t.proc[s].state # "FREE"
        BY <1>7 DEF Kept
    <2> QED BY <2>1, KilledKeeps DEF Kept, E
<1>9. Kept(E, U, s)
    <2>1. Sound(E) /\ E.proc[s].state # "FREE" /\ U = Reaped(E, s)
        BY <1>8 DEF Kept, E, U, D, TestEnd
    <2> QED BY <2>1, ReapedKeeps DEF Kept
<1>10. Only(T, U, s)
    <2>1. Only(T, B.t, s)
        BY <1>0, <1>4, OnlyTransitive
    <2>2. Only(T, C.t, s)
        BY <1>0, <1>6, <2>1, OnlyTransitive
    <2>3. Only(T, D.t, s)
        BY <1>0, <1>7, <2>2, OnlyTransitive DEF Kept
    <2>4. Only(T, E, s)
        BY <1>0, <1>8, <2>3, OnlyTransitive DEF Kept
    <2> QED BY <1>0, <1>9, <2>4, OnlyTransitive DEF Kept
<1>11. Recedes(C.t, U)
    <2>1. Recedes(C.t, E)
        BY <1>7, <1>8, RecedesTransitive DEF Kept
    <2> QED BY <1>9, <2>1, RecedesTransitive DEF Kept
<1>12. Filled(U, W2) /\ U.files = C.t.files
    <2>1. Filled(U, W2)
        BY <1>6, <1>11, RecedesFilled
    <2>2. U.files = C.t.files
        BY <1>11 DEF Recedes
    <2> QED BY <2>1, <2>2
<1>13. FreshOf(T, U, W) = W1
    BY <1>0, <1>6, <1>12 DEF FreshOf, W1
<1>14. \A g \in FileIdx : W2[g] \subseteq TestWrote(T, R, TRUE, W)[g]
    <2> TAKE g \in FileIdx
    <2> DEFINE X == TestWrote(T, R, TRUE, W)
    <2>1. W1[g] \subseteq X[g]
        BY <1>a, <1>13 DEF TestWrote
    <2>2. CASE f # g
        <3>1. W2[g] = W1[g]
            BY <2>2 DEF W2, CoversOf, i, f
        <3> QED BY <2>1, <3>1
    <2>3. CASE f = g
        <3>1. B.t.files[f].used
            BY <1>1, <1>3 DEF Filled, f
        <3>2. U.files[g].used /\ U.files[g].path = QaPath
            BY <1>3, <1>6, <1>12, <2>3, <3>1
        <3>3. TmpFile(R.t, QaPath) # {}
            BY <1>a, <3>2 DEF TmpFile
        <3>4. X[g] = W1[g] \union 0..(QaLength - 1)
            BY <1>a, <1>13, <3>2, <3>3 DEF TestWrote
        <3>5. Clip(QaLength, FileData - 0) = QaLength
            BY <1>5 DEF Clip
        <3>6. B.t.open[i].offset = 0
            BY <1>3
        <3> DEFINE off == B.t.open[i].offset
                   n == Clip(QaLength, FileData - off)
        <3>7. W2[g] \subseteq W1[g] \union (off..(off + n - 1))
            BY DEF W2, CoversOf, i
        <3>8. off = 0 /\ off + n - 1 = QaLength - 1
            BY <1>5, <3>5, <3>6
        <3> HIDE DEF X, off, n
        <3>9. W2[g] \subseteq W1[g] \union (0..(QaLength - 1))
            BY <3>7, <3>8, Zenon
        <3> QED BY <3>4, <3>9, Zenon DEF X
    <2> QED BY <2>2, <2>3
<1>15. Filled(U, TestWrote(T, R, TRUE, W))
    BY <1>12, <1>14, MoreIsWritten
<1> QED BY <1>a, <1>6, <1>7, <1>9, <1>10, <1>15 DEF Kept, C, D

LEMMA SelfTestKeeps ==
    ASSUME NEW T, Sound(T), NEW W, Filled(T, W), nextPid \in 0..MaxPid, NEW ipcFree \in BOOLEAN,
           NEW R, R = SelfTest(T, ipcFree)
    PROVE  /\ Sound(R.t) /\ Filled(R.t, TestWrote(T, R, ipcFree, W))
           /\ \E s \in Slots : Only(T, R.t, s)
<1> DEFINE free == FreeSlots(T)
           s == Least(free)
           A == Spawned(T, s, ShellPid)
           B == TestOpen(A, s)
           C == TestWrite(A, s)
           D == TestClose(A, s)
           U == TestEnd(A, s)
<1>0. T \in Tables
    BY DEF Sound
<1>1. CASE free = {}
    <2>1. R = Ret(T, -1)
        BY <1>1 DEF SelfTest
    <2>2. R.t = T
        BY <2>1 DEF Ret
    <2>3. \A f \in FileIdx : W[f] \subseteq FreshOf(T, R.t, W)[f]
        BY <2>2 DEF FreshOf
    <2>4. \A f \in FileIdx : W[f] \subseteq TestWrote(T, R, ipcFree, W)[f]
        BY <2>3, TestWroteMore
    <2>5. Filled(T, TestWrote(T, R, ipcFree, W))
        BY <2>4, MoreIsWritten
    <2> QED BY <2>2, <2>5, Sizes DEF Only
<1>2. CASE free # {}
    <2>1. s \in Slots /\ s # ShellSlot /\ T.proc[s].state = "FREE"
        <3>1. free \in SUBSET Nat
            BY Sizes DEF FreeSlots
        <3> HIDE DEF free
        <3>2. s \in free
            BY <1>2, <3>1, LeastMember
        <3>3. s \in Slots /\ s > ShellSlot /\ T.proc[s].state = "FREE"
            BY <3>2 DEF free, FreeSlots
        <3> HIDE DEF s
        <3> QED BY <3>3, Sizes DEF ShellSlot
    <2>2. R = IF ~ipcFree THEN Ret(A, -1)
              ELSE IF B.ret < 0 THEN Ret(B.t, -1)
              ELSE IF C.ret # QaLength THEN Ret(C.t, -1)
              ELSE IF D.ret # 0 THEN Ret(D.t, -1)
              ELSE Ret(U, 0)
        BY <1>2, Zenon DEF SelfTest, TestOpen, TestWrite, TestClose, TestEnd
    <2> HIDE DEF s
    <2>3. Sound(A) /\ Only(T, A, s) /\ Recedes(T, A) /\ A.proc[s].state = "READY"
        <3>1. ShellPid \in 0..MaxPid
            BY Sizes DEF ShellPid
        <3> QED BY <2>1, <3>1, SpawnedKeeps
    <2> HIDE DEF A
    <2>4. Filled(A, W) /\ A.files = T.files
        BY <2>3, RecedesFilled DEF Recedes
    <2>5. CASE ~ipcFree
        <3>1. R = Ret(A, -1)
            BY <2>2, <2>5
        <3>2. R.t = A
            BY <3>1 DEF Ret
        <3>3. \A f \in FileIdx : W[f] \subseteq FreshOf(T, R.t, W)[f]
            BY <2>4, <3>2 DEF FreshOf
        <3>4. \A f \in FileIdx : W[f] \subseteq TestWrote(T, R, ipcFree, W)[f]
            BY <3>3, TestWroteMore
        <3>5. Filled(A, TestWrote(T, R, ipcFree, W))
            BY <2>4, <3>4, MoreIsWritten
        <3> QED BY <2>1, <2>3, <3>2, <3>5
    <2>6. CASE ipcFree /\ B.ret < 0
        <3>1. R = Ret(B.t, -1)
            <4> HIDE DEF B, C, D, U
            <4> QED BY <2>2, <2>6
        <3>2. R.t = B.t
            <4> HIDE DEF B
            <4> QED BY <3>1 DEF Ret
        <3> DEFINE yes == TRUE
        <3>3. /\ yes \in BOOLEAN /\ B = VfsOpen(A, s, QaPath, yes, yes)
              /\ QaPath \in TmpPaths \union Devices /\ A.proc[s].state # "FREE"
            BY <2>3, Sizes DEF TestOpen
        <3> HIDE DEF yes, B
        <3>4. Opened(A, B, s) /\ Filled(B.t, FreshOf(A, B.t, W))
            BY <2>1, <2>3, <2>4, <3>3, OpenKeeps
        <3>5. FreshOf(A, B.t, W) = FreshOf(T, R.t, W)
            BY <2>4, <3>2 DEF FreshOf
        <3>6. Filled(B.t, TestWrote(T, R, ipcFree, W))
            BY <3>4, <3>5, TestWroteMore, MoreIsWritten
        <3>7. Sound(B.t) /\ Only(T, B.t, s)
            BY <1>0, <2>3, <3>4, OnlyTransitive DEF Opened
        <3> QED BY <2>1, <3>2, <3>6, <3>7
    <2>7. CASE ipcFree /\ ~(B.ret < 0)
        <3> DEFINE Q == Ret(U, 0)
        <3>1. Q.t = U /\ Q.ret = 0
            <4> HIDE DEF U
            <4> QED BY DEF Ret
        <3> HIDE DEF Q
        <3>2. Q.t = TestEnd(A, s) /\ FreeSlots(T) # {} /\ ~(TestOpen(A, s).ret < 0)
            BY <1>2, <2>7, <3>1
        <3>3. /\ C.ret = QaLength /\ D.ret = 0
              /\ Sound(Q.t) /\ Only(T, Q.t, s) /\ Filled(Q.t, TestWrote(T, Q, TRUE, W))
            BY <2>1, <2>3, <3>1, <3>2, TestRuns
        <3> HIDE DEF B, C, D, U, free
        <3>4. R = Q
            BY <2>2, <2>7, <3>3 DEF Q
        <3>5. ipcFree = TRUE
            BY <2>7
        <3> QED BY <2>1, <3>3, <3>4, <3>5
    <2> QED BY <2>5, <2>6, <2>7
<1> QED BY <1>1, <1>2

-----------------------------------------------------------------------------
(* A call that opens a file, moves its bytes and closes it.                *)

\* A description that nobody uses is the one of the start.
Cleared(T) == \A i \in OpenIdx : ~T.open[i].used => T.open[i] = FreeOpen
\* No two files have a name.
PathsDiffer(T) ==
    \A f, g \in FileIdx :
        T.files[f].used /\ T.files[g].used /\ T.files[f].path = T.files[g].path => f = g
\* The processes differ in the number of their descriptors only.
SameProcs(T, U) ==
    \A s \in Slots : /\ U.proc[s].pid = T.proc[s].pid /\ U.proc[s].ppid = T.proc[s].ppid
                     /\ U.proc[s].state = T.proc[s].state

\* The counters follow from the rest.
LEMMA SameTables ==
    ASSUME NEW T, Sound(T), NEW U, Sound(U), SameProcs(T, U),
           U.fds = T.fds, U.open = T.open, U.files = T.files
    PROVE  U = T
<1>0. T \in Tables /\ U \in Tables
    BY DEF Sound
<1>1. U.proc = T.proc
    <2>1. T.proc \in [Slots -> Proc] /\ U.proc \in [Slots -> Proc]
        BY <1>0, Fields
    <2>2. ASSUME NEW s \in Slots PROVE U.proc[s] = T.proc[s]
        <3>1. FdCount(T, s) /\ FdCount(U, s)
            BY DEF Sound
        <3>2. U.proc[s].fdCount = T.proc[s].fdCount
            BY <3>1 DEF FdCount
        <3>3. T.proc[s] \in Proc /\ U.proc[s] \in Proc
            BY <2>1
        <3> QED BY <3>2, <3>3 DEF SameProcs, Proc
    <2> QED BY <2>1, <2>2
<1>2. U.openCount = T.openCount /\ U.fileCount = T.fileCount
    BY DEF Sound, Refs, FileCount
<1>3. U.live = T.live
    BY <1>1 DEF Sound, Alive
<1> QED BY <1>0, <1>1, <1>2, <1>3 DEF Tables

\* What Describe has made when it returns a descriptor.
Described(T, R, s, i, o) ==
    /\ ~T.open[i].used /\ T.fds[s][R.ret] = -1
    /\ R.t.fds = SetFd(T.fds, s, R.ret, i) /\ R.t.open = [T.open EXCEPT ![i] = o]
    /\ R.t.files = T.files /\ SameProcs(T, R.t)

LEMMA DescribeMakes ==
    ASSUME NEW T, Sound(T), NEW s \in Slots, NEW node \in Devices \union {"tmp"},
           NEW file \in FileIdx \union {0}, NEW R, R = Describe(T, s, node, file)
    PROVE  /\ R.ret >= 0 =>
                /\ R.ret \in Fds
                /\ \E i \in OpenIdx : Described(T, R, s, i, NewOpen(T, s, node, file))
           /\ ~(R.ret >= 0) => R.ret = -24 /\ (Cleared(T) => R.t = T)
<1>0. T \in Tables /\ Refs(T) /\ Own(T) /\ T.proc[s] \in Proc
    BY Fields DEF Sound
<1> DEFINE freeOpen == {i \in OpenIdx : ~T.open[i].used}
<1>1. CASE freeOpen = {}
    <2>1. R = Ret(T, -24)
        BY <1>1 DEF Describe
    <2>2. R.t = T /\ R.ret = -24
        BY <2>1 DEF Ret
    <2> QED BY <2>2
<1>2. CASE freeOpen # {}
    <2> DEFINE i == Least(freeOpen)
               o == NewOpen(T, s, node, file)
               D == SetOpen(T, i, o)
               A == AllocateFd(D, s, i)
               free == {fd \in Fds : fd >= FirstFd /\ D.fds[s][fd] < 0}
    <2>1. i \in OpenIdx /\ ~T.open[i].used
        <3>1. freeOpen \in SUBSET Nat
            BY Sizes
        <3> HIDE DEF freeOpen
        <3>2. i \in freeOpen
            BY <1>2, <3>1, LeastMember
        <3> QED BY <3>2 DEF freeOpen
    <2>2. R = IF A.ret < 0 THEN Ret([A.t EXCEPT !.open[i] = FreeOpen], A.ret)
              ELSE Ret([A.t EXCEPT !.openCount = @ + 1], A.ret)
        BY <1>2 DEF Describe, NewOpen, SetOpen
    <2>3. o \in OpenFile
        BY <1>0, Sizes DEF NewOpen, OpenFile, Proc
    <2> HIDE DEF i, o, D
    <2>4. /\ D \in Tables /\ D.open = [T.open EXCEPT ![i] = o]
          /\ D.proc = T.proc /\ D.fds = T.fds /\ D.files = T.files
        BY <1>0, <2>1, <2>3, OpenFields DEF D
    <2>5. CASE free = {}
        <3>1. A = Ret(D, -24)
            BY <2>5 DEF AllocateFd
        <3>2. A.t = D /\ A.ret = -24
            <4> HIDE DEF A
            <4> QED BY <3>1 DEF Ret
        <3> HIDE DEF A
        <3>3. R = Ret(SetOpen(D, i, FreeOpen), -24)
            BY <2>2, <3>2 DEF SetOpen
        <3> DEFINE U == SetOpen(D, i, FreeOpen)
        <3>4. R.t = U /\ R.ret = -24
            <4> HIDE DEF U
            <4>1. R = Ret(U, -24)
                BY <3>3 DEF U
            <4> QED BY <4>1 DEF Ret
        <3> HIDE DEF U
        <3>5. ASSUME Cleared(T) PROVE U = T
            <4>1. T.open[i] = FreeOpen /\ T.open \in [OpenIdx -> OpenFile]
                BY <1>0, <2>1, <3>5, Fields DEF Cleared
            <4>2. [[T.open EXCEPT ![i] = o] EXCEPT ![i] = FreeOpen] = T.open
                BY <2>1, <4>1
            <4>3. U = [D EXCEPT !.open = [D.open EXCEPT ![i] = FreeOpen]]
                BY <2>4 DEF U, SetOpen, Tables
            <4>4. D = [T EXCEPT !.open = [T.open EXCEPT ![i] = o]]
                BY <1>0 DEF D, SetOpen, Tables
            <4>5. U = [D EXCEPT !.open = T.open]
                BY <2>4, <4>2, <4>3
            <4> QED BY <1>0, <4>4, <4>5 DEF Tables
        <3> QED BY <3>4, <3>5
    <2>6. CASE free # {}
        <3> DEFINE fd == Least(free)
                   n == D.proc[s].fdCount + 1
                   V == SetRow(D, s, fd, i, n)
        <3>1. fd \in Fds /\ D.fds[s][fd] < 0
            <4>1. free \in SUBSET Nat
                BY Sizes
            <4> HIDE DEF free
            <4>2. fd \in free
                BY <2>6, <4>1, LeastMember
            <4> QED BY <4>2 DEF free
        <3>2. A = Ret([D EXCEPT !.fds[s][fd] = i, !.proc[s].fdCount = @ + 1], fd)
            BY <2>6 DEF AllocateFd
        <3>3. V = [D EXCEPT !.fds[s][fd] = i, !.proc[s].fdCount = @ + 1]
            BY <2>4 DEF SetRow, Tables
        <3>4. n \in Nat
            BY <2>4, Fields DEF Proc
        <3> HIDE DEF A, V, fd, n
        <3>5. A.t = V /\ A.ret = fd
            <4>1. A = Ret(V, fd)
                BY <3>2, <3>3
            <4> QED BY <4>1 DEF Ret
        <3> DEFINE U == [V EXCEPT !.openCount = @ + 1]
        <3>6. R.t = U /\ R.ret = fd /\ fd >= 0
            <4>1. ~(fd < 0) /\ fd >= 0
                BY <3>1, Sizes
            <4>2. R = Ret(U, fd)
                BY <2>2, <3>5, <4>1
            <4> HIDE DEF U
            <4> QED BY <4>1, <4>2 DEF Ret
        <3>7. /\ V \in Tables /\ V.fds = SetFd(D.fds, s, fd, i)
              /\ V.proc = [D.proc EXCEPT ![s] = [D.proc[s] EXCEPT !.fdCount = n]]
              /\ V.open = D.open /\ V.files = D.files
            BY <2>1, <2>4, <3>1, <3>4, RowFields DEF V
        <3>8. U.fds = V.fds /\ U.proc = V.proc /\ U.open = V.open /\ U.files = V.files
            BY <3>7 DEF Tables
        <3> HIDE DEF U
        <3>9. SameProcs(T, U)
            <4>1. U.proc = [T.proc EXCEPT ![s] = [T.proc[s] EXCEPT !.fdCount = n]]
                BY <2>4, <3>7, <3>8
            <4> QED BY <1>0, <4>1, Fields DEF Proc, SameProcs
        <3>10. T.fds[s][fd] = -1
            <4>1. T.fds[s][fd] \in OpenIdx \union {-1} /\ T.fds[s][fd] < 0
                BY <1>0, <2>4, <3>1, Fields
            <4> QED BY <4>1, Indexes
        <3>11. Described(T, R, s, i, o)
            BY <2>1, <2>4, <3>6, <3>7, <3>8, <3>9, <3>10 DEF Described
        <3> QED BY <2>1, <3>1, <3>6, <3>11 DEF o
    <2> QED BY <2>5, <2>6
<1> QED BY <1>1, <1>2

\* The descriptor of a description that is named once is closed.
LEMMA CloseFrees ==
    ASSUME NEW T, Sound(T), NEW s \in Slots, NEW fd \in Fds, NEW i, i = T.fds[s][fd],
           i \in OpenIdx, T.open[i].refs = 1, NEW U, U = VfsClose(T, s, fd).t
    PROVE  /\ Sound(U) /\ U.fds = SetFd(T.fds, s, fd, -1) /\ U.files = T.files
           /\ U.open = [T.open EXCEPT ![i] = FreeOpen] /\ SameProcs(T, U)
<1> DEFINE c == T.proc[s].fdCount
           n == IF c > 0 THEN c - 1 ELSE 0
           V == SetRow(T, s, fd, -1, n)
<1>0. T \in Tables /\ Refs(T) /\ Own(T) /\ i >= 0 /\ ~(i < 0) /\ T.proc[s] \in Proc
    BY Fields, Indexes DEF Sound
<1>1. T.open[i].used
    BY <1>0, NamedIsUsed
<1>2. U = Unref(V, i)
    <2> HIDE DEF n
    <2>1. V = [T EXCEPT !.fds[s][fd] = -1, !.proc[s].fdCount = IF @ > 0 THEN @ - 1 ELSE 0]
        BY <1>0 DEF Tables, Proc, SetRow, n
    <2>2. VfsClose(T, s, fd) = Ret(Unref(V, i), 0)
        BY <1>0, <1>1, <2>1 DEF VfsClose
    <2> DEFINE X == Unref(V, i)
    <2>3. VfsClose(T, s, fd) = Ret(X, 0)
        BY <2>2
    <2> HIDE DEF X
    <2>4. U = X
        BY <2>3 DEF Ret
    <2> QED BY <2>4 DEF X
<1>3. n \in Nat
    BY <1>0 DEF Proc
<1> HIDE DEF n
<1>4. /\ V \in Tables /\ V.fds = SetFd(T.fds, s, fd, -1)
      /\ V.proc = [T.proc EXCEPT ![s] = [T.proc[s] EXCEPT !.fdCount = n]]
      /\ V.open = T.open /\ V.files = T.files
    BY <1>0, <1>3, RowFields
<1> HIDE DEF V
<1>5. /\ U.proc = V.proc /\ U.fds = V.fds /\ U.files = V.files
      /\ U.open = [V.open EXCEPT ![i] = IF V.open[i].refs <= 1 THEN FreeOpen
                                        ELSE [V.open[i] EXCEPT !.refs = V.open[i].refs - 1]]
    <2> DEFINE X == Unref(V, i)
    <2>1. /\ X.proc = V.proc /\ X.fds = V.fds /\ X.files = V.files
          /\ X.open = [V.open EXCEPT ![i] = IF V.open[i].refs <= 1 THEN FreeOpen
                                            ELSE [V.open[i] EXCEPT !.refs = V.open[i].refs - 1]]
        BY <1>4, UnrefFields
    <2>2. U = X
        BY <1>2
    <2> HIDE DEF X
    <2> QED BY <2>1, <2>2
<1>6. U.open = [T.open EXCEPT ![i] = FreeOpen]
    BY <1>4, <1>5
<1>7. SameProcs(T, U)
    <2>1. U.proc = [T.proc EXCEPT ![s] = [T.proc[s] EXCEPT !.fdCount = n]]
        BY <1>4, <1>5
    <2> QED BY <1>0, <2>1, Fields DEF Proc, SameProcs
<1>8. Sound(U)
    BY CloseAlways DEF Kept
<1> QED BY <1>4, <1>5, <1>6, <1>7, <1>8

\* The bytes of every file may have been written.
Everything == [f \in FileIdx |-> Nat]

LEMMA FilledAnyhow ==
    ASSUME NEW T, NEW W, Filled(T, W), T \in Tables
    PROVE  Filled(T, Everything)
<1>1. \A f \in FileIdx : 0..(T.files[f].size - 1) \subseteq Nat
    OBVIOUS
<1>2. \A f \in FileIdx : Everything[f] = Nat
    BY DEF Everything
<1>3. \A i \in OpenIdx : 0..(T.open[i].offset - 1) \subseteq Nat
    OBVIOUS
<1> QED BY <1>1, <1>2, <1>3 DEF Filled

\* A read moves the offset of its description at most.
LEMMA ReadMoves ==
    ASSUME NEW T \in Tables, NEW s \in Slots, NEW fd \in Fds, NEW i, i = T.fds[s][fd], i \in OpenIdx,
           NEW n, NEW R, R = VfsRead(T, s, fd, n)
    PROVE  /\ R.t.open[i].refs = T.open[i].refs
           /\ [R.t.open EXCEPT ![i] = FreeOpen] = [T.open EXCEPT ![i] = FreeOpen]
<1>1. \/ R = Ret(T, -9) \/ R = Ret(T, n) \/ R = Ret(T, 0)
      \/ \E off, m : R = Ret([T EXCEPT !.open[i].offset = off], m)
    <2> DEFINE size == T.files[T.open[i].file].size
               left == IF size > T.open[i].offset THEN size - T.open[i].offset ELSE 0
               m == Clip(n, left)
    <2>1. \/ R = Ret(T, -9) \/ R = Ret(T, n) \/ R = Ret(T, 0)
          \/ R = Ret([T EXCEPT !.open[i].offset = T.open[i].offset + m], m)
        BY DEF VfsRead
    <2> HIDE DEF m
    <2> QED BY <2>1
<1>2. CASE R = Ret(T, -9) \/ R = Ret(T, n) \/ R = Ret(T, 0)
    BY <1>2 DEF Ret
<1>3. CASE \E off, m : R = Ret([T EXCEPT !.open[i].offset = off], m)
    <2>1. PICK off, m : R = Ret([T EXCEPT !.open[i].offset = off], m)
        BY <1>3
    <2> DEFINE o == [T.open[i] EXCEPT !.offset = off]
               open == [T.open EXCEPT ![i] = o]
    <2>2. R.t = [T EXCEPT !.open = open]
        BY <2>1 DEF Ret, Tables
    <2>3. o.refs = T.open[i].refs
        <3>1. T.open[i] \in OpenFile
            BY Fields
        <3> QED BY <3>1 DEF OpenFile
    <2> HIDE DEF o
    <2>4. R.t.open = open
        BY <2>2 DEF Tables
    <2>5. T.open \in [OpenIdx -> OpenFile]
        BY Fields
    <2> QED BY <2>3, <2>4, <2>5
<1> QED BY <1>1, <1>2, <1>3

\* A descriptor that is set and closed again leaves its table.
LEMMA SetAndClosed ==
    ASSUME NEW fds \in Rows, NEW s \in Slots, NEW fd \in Fds, fds[s][fd] = -1, NEW i
    PROVE  SetFd(SetFd(fds, s, fd, i), s, fd, -1) = fds
<1>1. fds[s] \in [Fds -> OpenIdx \union {-1}]
    BY DEF Rows
<1>2. [[fds[s] EXCEPT ![fd] = i] EXCEPT ![fd] = -1] = fds[s]
    BY <1>1
<1>3. SetFd(fds, s, fd, i)[s] = [fds[s] EXCEPT ![fd] = i]
    BY DEF Rows, SetFd
<1>4. SetFd(SetFd(fds, s, fd, i), s, fd, -1) = [SetFd(fds, s, fd, i) EXCEPT ![s] = fds[s]]
    BY <1>2, <1>3 DEF SetFd
<1> QED BY <1>4 DEF Rows, SetFd

\* open, read and close of an existing file, or of a node, leave the tables.
LEMMA ReadLeavesTables ==
    ASSUME NEW T, Sound(T), Cleared(T), NEW s \in Slots, T.proc[s].state # "FREE",
           NEW W, Filled(T, W), NEW path \in TmpPaths,
           NEW no \in BOOLEAN, ~no, NEW O, O = VfsOpen(T, s, path, no, no), ~(O.ret < 0), NEW n \in Nat,
           NEW R, R = VfsRead(O.t, s, O.ret, n)
    PROVE  VfsClose(R.t, s, O.ret).t = T
<1> DEFINE M == MakeTmp(T, path, no, no)
           U == VfsClose(R.t, s, O.ret).t
<1>0. T \in Tables /\ T.fds \in Rows
    BY Fields DEF Sound, Rows
<1>1. M.t = T /\ M.ret \in FileIdx \union {-2, -28}
    BY MakeTmpKeeps
<1>2. O = Describe(T, s, "tmp", M.ret) /\ M.ret \in FileIdx
    <2> HIDE DEF M
    <2>1. O = IF M.ret < 0 THEN M ELSE Describe(M.t, s, "tmp", M.ret)
        BY TableAssumption DEF VfsOpen, virtual_node, M
    <2>2. CASE M.ret \in {-2, -28}
        BY <2>1, <2>2
    <2>3. CASE M.ret \in FileIdx
        <3>1. M.ret \in Nat
            BY <2>3, Sizes
        <3> QED BY <1>1, <2>1, <2>3, <3>1
    <2> QED BY <1>1, <2>2, <2>3
<1> DEFINE node == "tmp"
           file == M.ret
           o == NewOpen(T, s, node, file)
<1>3. node \in Devices \union {"tmp"} /\ file \in FileIdx \union {0} /\ O = Describe(T, s, node, file)
    BY <1>2
<1> HIDE DEF M, node, file
<1>4. /\ O.ret >= 0 =>
            /\ O.ret \in Fds
            /\ \E i \in OpenIdx : Described(T, O, s, i, NewOpen(T, s, node, file))
      /\ ~(O.ret >= 0) => O.ret = -24 /\ (Cleared(T) => O.t = T)
    BY <1>3, DescribeMakes
<1>a. O.ret >= 0
    BY <1>4
<1>5. PICK i \in OpenIdx : O.ret \in Fds /\ Described(T, O, s, i, o)
    BY <1>4, <1>a
<1> HIDE DEF o
<1>6. Sound(O.t) /\ Filled(O.t, FreshOf(T, O.t, W)) /\ O.t.files = T.files
    <2>1. Opened(T, O, s) /\ Filled(O.t, FreshOf(T, O.t, W))
        BY OpenKeeps
    <2>2. O.t.files = T.files
        BY <1>5 DEF Described
    <2> QED BY <2>1, <2>2 DEF Opened
<1>7. O.t.fds[s][O.ret] = i /\ O.t.open[i] = o /\ o.refs = 1
    <2>1. T.open \in [OpenIdx -> OpenFile]
        BY <1>0, Fields
    <2> QED BY <1>0, <1>5, <2>1 DEF Described, SetFd, Rows, NewOpen, o
<1> DEFINE X == FreshOf(T, O.t, W)
<1>8. Sound(R.t) /\ R.t.fds = O.t.fds /\ R.t.proc = O.t.proc /\ R.t.files = O.t.files
    <2> HIDE DEF X
    <2>1. Filled(O.t, X)
        BY <1>6 DEF X
    <2> QED BY <1>5, <1>6, <2>1, ReadKeeps
<1>9. /\ R.t.open[i].refs = O.t.open[i].refs
      /\ [R.t.open EXCEPT ![i] = FreeOpen] = [O.t.open EXCEPT ![i] = FreeOpen]
    BY <1>5, <1>6, <1>7, ReadMoves DEF Sound
<1> HIDE DEF U
<1>10. /\ Sound(U) /\ U.fds = SetFd(R.t.fds, s, O.ret, -1) /\ U.files = R.t.files
       /\ U.open = [R.t.open EXCEPT ![i] = FreeOpen] /\ SameProcs(R.t, U)
    <2>1. i = R.t.fds[s][O.ret] /\ R.t.open[i].refs = 1
        BY <1>7, <1>8, <1>9
    <2>2. U = VfsClose(R.t, s, O.ret).t /\ O.ret \in Fds /\ i \in OpenIdx
        BY <1>5 DEF U
    <2> DEFINE A == R.t
               fd == O.ret
    <2>3. Sound(A) /\ i = A.fds[s][fd] /\ A.open[i].refs = 1 /\ i \in OpenIdx /\ fd \in Fds
        BY <1>8, <2>1, <2>2
    <2>4. U = VfsClose(A, s, fd).t
        BY <2>2
    <2> HIDE DEF A, fd
    <2>5. /\ Sound(U) /\ U.fds = SetFd(A.fds, s, fd, -1) /\ U.files = A.files
          /\ U.open = [A.open EXCEPT ![i] = FreeOpen] /\ SameProcs(A, U)
        BY <2>3, <2>4, CloseFrees
    <2> QED BY <2>5 DEF A, fd
<1>11. U.fds = T.fds
    <2>1. T.fds[s][O.ret] = -1 /\ U.fds = SetFd(SetFd(T.fds, s, O.ret, i), s, O.ret, -1)
        BY <1>5, <1>8, <1>10 DEF Described
    <2> QED BY <1>0, <1>5, <2>1, SetAndClosed
<1>12. U.open = T.open
    <2>1. U.open = [[T.open EXCEPT ![i] = o] EXCEPT ![i] = FreeOpen]
        BY <1>5, <1>9, <1>10 DEF Described
    <2>2. T.open[i] = FreeOpen /\ T.open \in [OpenIdx -> OpenFile]
        BY <1>0, <1>5, Fields DEF Cleared, Described
    <2> QED BY <2>1, <2>2
<1>13. SameProcs(T, U) /\ U.files = T.files
    BY <1>5, <1>6, <1>8, <1>10 DEF Described, SameProcs
<1> QED BY <1>10, <1>11, <1>12, <1>13, SameTables DEF U

\* An open that creates and cuts: the file of path is there and empty.
Emptied(path) == [used |-> TRUE, path |-> path, size |-> 0]

CutOrNot(T, M, path) ==
    /\ Sound(M.t) /\ PathsDiffer(M.t) /\ M.ret \in FileIdx \union {-2, -28}
    /\ M.t.open = T.open /\ M.t.fds = T.fds /\ M.t.proc = T.proc
    /\ M.ret \in FileIdx => M.t.files = [T.files EXCEPT ![M.ret] = Emptied(path)]
    /\ M.ret \notin FileIdx => M.t.files = T.files

LEMMA MakeTmpCuts ==
    ASSUME NEW T, Sound(T), PathsDiffer(T), NEW path \in TmpPaths,
           NEW yes, yes = TRUE, NEW M, M = MakeTmp(T, path, yes, yes)
    PROVE  CutOrNot(T, M, path)
<1> DEFINE S == TmpFile(T, path)
           free == {f \in FileIdx : ~T.files[f].used}
           o == Emptied(path)
<1>0. T \in Tables /\ T.files \in [FileIdx -> File] /\ T.fileCount \in Nat
    BY Fields DEF Sound
<1>1. Sound(M.t) /\ FilesStep(T, M.t) /\ M.ret \in FileIdx \union {-2, -28}
    BY MakeTmpKeeps
<1>2. o \in File /\ o.used /\ o.path = path
    BY DEF File, Emptied
<1>3. CASE S # {}
    <2> DEFINE f == Least(S)
               n == T.fileCount
               U == SetFile(T, f, o, n)
    <2>1. f \in FileIdx /\ T.files[f].used /\ T.files[f].path = path
        <3>1. S \in SUBSET Nat
            BY Sizes DEF TmpFile
        <3> HIDE DEF S
        <3>2. f \in S
            BY <1>3, <3>1, LeastMember
        <3> QED BY <3>2 DEF S, TmpFile
    <2>2. M = Ret([T EXCEPT !.files[f].size = 0], f)
        BY <1>3 DEF MakeTmp
    <2> HIDE DEF f, S
    <2>3. [T.files[f] EXCEPT !.size = 0] = o
        <3>1. T.files[f] \in File
            BY <1>0, <2>1
        <3>2. T.files[f].used \in BOOLEAN
            BY <3>1 DEF File
        <3>3. T.files[f].used = TRUE
            BY <2>1, <3>2
        <3> DEFINE h == [T.files[f] EXCEPT !.size = 0]
        <3>4. h \in File /\ h.used = T.files[f].used /\ h.path = T.files[f].path /\ h.size = 0
            BY <3>1 DEF File
        <3>5. o.used = TRUE /\ o.path = path /\ o.size = 0
            BY DEF Emptied
        <3>6. o.used = h.used /\ o.path = h.path /\ o.size = h.size
            BY <2>1, <3>3, <3>4, <3>5
        <3> HIDE DEF h, o
        <3>7. o = h
            BY <1>2, <3>4, <3>6 DEF File
        <3> QED BY <3>7 DEF h
    <2> HIDE DEF o
    <2>4. [T EXCEPT !.files[f].size = 0] = U
        <3>1. [T EXCEPT !.files[f].size = 0]
                = [T EXCEPT !.files = [T.files EXCEPT ![f] = [T.files[f] EXCEPT !.size = 0]]]
            BY <1>0 DEF Tables
        <3>2. [T EXCEPT !.files[f].size = 0] = [T EXCEPT !.files = [T.files EXCEPT ![f] = o]]
            BY <2>3, <3>1
        <3> QED BY <1>0, <3>2 DEF Tables, SetFile
    <2> HIDE DEF U, n
    <2>5. M.ret = f /\ M.t = U
        BY <2>2, <2>4 DEF Ret
    <2>6. U.files = [T.files EXCEPT ![f] = o]
        BY <1>0, <1>2, <2>1, FileFields DEF U, n
    <2>7. PathsDiffer(U)
        BY <1>0, <1>2, <2>1, <2>6 DEF PathsDiffer
    <2> QED BY <1>1, <2>1, <2>5, <2>6, <2>7 DEF FilesStep, o, CutOrNot
<1>4. CASE S = {} /\ free = {}
    <2>1. M = Ret(T, -28)
        BY <1>4 DEF MakeTmp
    <2>2. M.t = T /\ M.ret = -28
        BY <2>1 DEF Ret
    <2>3. -28 \notin FileIdx
        BY Sizes
    <2> QED BY <1>1, <2>2, <2>3 DEF FilesStep, CutOrNot
<1>5. CASE S = {} /\ free # {}
    <2> DEFINE f == Least(free)
               n == T.fileCount + 1
               U == SetFile(T, f, o, n)
    <2>1. f \in FileIdx /\ ~T.files[f].used
        <3>1. free \in SUBSET Nat
            BY Sizes
        <3> HIDE DEF free
        <3>2. f \in free
            BY <1>5, <3>1, LeastMember
        <3> QED BY <3>2 DEF free
    <2>2. M = Ret([T EXCEPT !.files[f] = o, !.fileCount = @ + 1], f)
        BY <1>5 DEF MakeTmp, Emptied
    <2> HIDE DEF f, o
    <2>3. M = Ret(U, f)
        BY <1>0, <2>2 DEF Tables, SetFile
    <2> HIDE DEF U
    <2>4. M.t = U /\ M.ret = f
        BY <2>3 DEF Ret
    <2>5. n \in Nat
        BY <1>0
    <2> HIDE DEF n
    <2>6. U.files = [T.files EXCEPT ![f] = o]
        BY <1>0, <1>2, <2>1, <2>5, FileFields DEF U
    <2>7. \A g \in FileIdx : ~(T.files[g].used /\ T.files[g].path = path)
        BY <1>5 DEF TmpFile
    <2>8. PathsDiffer(U)
        BY <1>0, <1>2, <2>1, <2>6, <2>7 DEF PathsDiffer
    <2> QED BY <1>1, <2>1, <2>4, <2>6, <2>8 DEF FilesStep, o, CutOrNot
<1> QED BY <1>3, <1>4, <1>5

\* A write at the beginning of a file that is empty.
Wrote(T, R, i, f, n) ==
    /\ R.ret = n /\ R.t.open[i].refs = T.open[i].refs
    /\ [R.t.open EXCEPT ![i] = FreeOpen] = [T.open EXCEPT ![i] = FreeOpen]
    /\ R.t.files = [T.files EXCEPT ![f] = [T.files[f] EXCEPT !.size = n]]

LEMMA WriteFills ==
    ASSUME NEW T, Sound(T), NEW s \in Slots, NEW fd \in Fds, NEW i, i = T.fds[s][fd], i \in OpenIdx,
           T.open[i].node = "tmp", T.open[i].offset = 0,
           NEW f \in FileIdx, f = T.open[i].file, T.files[f].size = 0,
           NEW n \in Nat, n <= FileData, NEW R, R = VfsWrite(T, s, fd, n)
    PROVE  Wrote(T, R, i, f, n)
<1>0. T \in Tables /\ T.open \in [OpenIdx -> OpenFile] /\ T.open[i] \in OpenFile
    BY Fields DEF Sound
<1>1. ~(i < 0) /\ FileData \in Nat
    BY Indexes, Sizes
<1>2. R = Ret([T EXCEPT !.open[i].offset = n, !.files[f].size = n], n)
    <2> DEFINE m == Clip(n, FileData - T.open[i].offset)
    <2>1. m = n
        BY <1>1 DEF Clip
    <2>2. R = Ret([T EXCEPT !.open[i].offset = T.open[i].offset + m,
                            !.files[f].size = IF T.open[i].offset + m > @ THEN T.open[i].offset + m ELSE @], m)
        BY <1>1 DEF VfsWrite
    <2> HIDE DEF m
    <2>3. T.open[i].offset + m = n
        BY <2>1
    <2>4. R = Ret([T EXCEPT !.open[i].offset = n,
                            !.files[f].size = IF n > @ THEN n ELSE @], n)
        BY <2>1, <2>2, <2>3
    <2>5. (IF n > T.files[f].size THEN n ELSE T.files[f].size) = n
        OBVIOUS
    <2> QED BY <1>0, <2>4, <2>5 DEF Tables
<1> DEFINE o == [T.open[i] EXCEPT !.offset = n]
           open == [T.open EXCEPT ![i] = o]
           files == [T.files EXCEPT ![f] = [T.files[f] EXCEPT !.size = n]]
<1>3. R = Ret([T EXCEPT !.open = open, !.files = files], n)
    BY <1>0, <1>2 DEF Tables
<1>4. o.refs = T.open[i].refs
    BY <1>0 DEF OpenFile
<1> HIDE DEF o, files
<1> DEFINE U == [T EXCEPT !.open = open, !.files = files]
<1>a. U.open = open /\ U.files = files
    BY <1>0 DEF Tables
<1>b. R = Ret(U, n)
    BY <1>3
<1> HIDE DEF U
<1>5. R.t.open = open /\ R.t.files = files /\ R.ret = n
    BY <1>a, <1>b DEF Ret
<1> QED BY <1>0, <1>4, <1>5 DEF files, Wrote

\* What an open that creates and cuts has made: description i, of the node of
\* path, and the empty file when it is one.
Opens(T, U, s, fd, i, path) ==
    LET o == U.open[i] IN
    /\ ~T.open[i].used /\ T.fds[s][fd] = -1 /\ SameProcs(T, U)
    /\ U.fds = SetFd(T.fds, s, fd, i) /\ U.open = [T.open EXCEPT ![i] = o]
    /\ o.used /\ o.refs = 1 /\ o.offset = 0
    /\ \/ path \in Devices /\ o.node = path /\ U.files = T.files
       \/ /\ path \in TmpPaths /\ o.node = "tmp" /\ o.file \in FileIdx
          /\ U.files = [T.files EXCEPT ![o.file] = Emptied(path)]

\* The node of path is there, and empty when it is a file.
Made(T, M, path, node, file) ==
    \/ path \in Devices /\ node = path /\ M.files = T.files
    \/ /\ path \in TmpPaths /\ node = "tmp" /\ file \in FileIdx
       /\ M.files = [T.files EXCEPT ![file] = Emptied(path)]

LEMMA DescribeOpens ==
    ASSUME NEW T, Sound(T), NEW M, Sound(M), M.open = T.open, M.fds = T.fds, M.proc = T.proc,
           NEW s \in Slots, NEW node \in Devices \union {"tmp"}, NEW file \in FileIdx \union {0},
           NEW O, O = Describe(M, s, node, file), O.ret >= 0, NEW path,
           Made(T, M, path, node, file)
    PROVE  /\ O.ret \in Fds /\ O.t.files = M.files
           /\ \E i \in OpenIdx : Opens(T, O.t, s, O.ret, i, path)
<1> DEFINE o == NewOpen(M, s, node, file)
<1>1. /\ O.ret >= 0 =>
            /\ O.ret \in Fds
            /\ \E i \in OpenIdx : Described(M, O, s, i, NewOpen(M, s, node, file))
      /\ ~(O.ret >= 0) => O.ret = -24 /\ (Cleared(M) => O.t = M)
    BY DescribeMakes
<1>2. PICK i \in OpenIdx : O.ret \in Fds /\ Described(M, O, s, i, o)
    BY <1>1
<1>3. o.used /\ o.refs = 1 /\ o.offset = 0 /\ o.node = node /\ o.file = file
    BY DEF NewOpen
<1> HIDE DEF o
<1>4. T.open \in [OpenIdx -> OpenFile]
    BY Fields DEF Sound
<1> DEFINE U == O.t
           fd == O.ret
<1>5. /\ U.open = [T.open EXCEPT ![i] = o] /\ U.fds = SetFd(T.fds, s, fd, i) /\ U.files = M.files
      /\ ~T.open[i].used /\ T.fds[s][fd] = -1 /\ SameProcs(M, U)
    BY <1>2 DEF Described
<1>6. SameProcs(T, U)
    BY <1>5 DEF SameProcs
<1>7. U.open[i] = o
    BY <1>4, <1>5
<1> HIDE DEF U, fd
<1>8. Opens(T, U, s, fd, i, path)
    BY <1>3, <1>5, <1>6, <1>7 DEF Opens, Made
<1> QED BY <1>2, <1>5, <1>8 DEF U, fd

CutOrOpened(T, O, s, path) ==
    /\ Sound(O.t) /\ Filled(O.t, Everything) /\ PathsDiffer(O.t)
    /\ O.ret < 0 =>
         /\ O.t.open = T.open /\ SameProcs(T, O.t)
         /\ \A f \in FileIdx : O.t.files[f] = T.files[f] \/ O.t.files[f].size = 0
    /\ ~(O.ret < 0) => O.ret \in Fds /\ \E i \in OpenIdx : Opens(T, O.t, s, O.ret, i, path)

LEMMA CutOpens ==
    ASSUME NEW T, Sound(T), Cleared(T), PathsDiffer(T), NEW W, Filled(T, W), NEW s \in Slots,
           T.proc[s].state # "FREE", NEW path \in TmpPaths \union Devices,
           NEW yes, yes = TRUE, NEW O, O = VfsOpen(T, s, path, yes, yes)
    PROVE  CutOrOpened(T, O, s, path)
<1> USE DEF CutOrOpened
<1>1. Sound(O.t) /\ Filled(O.t, Everything) /\ O.ret \in Fds \union {-2, -24, -28}
    <2>1. Opened(T, O, s) /\ Filled(O.t, FreshOf(T, O.t, W))
        BY OpenKeeps
    <2>2. Sound(O.t) /\ O.t \in Tables
        BY <2>1 DEF Opened, Sound
    <2> QED BY <2>1, <2>2, FilledAnyhow DEF Opened
<1>0. /\ \A r \in Fds \union {-2, -24, -28} : r < 0 <=> ~(r >= 0)
      /\ SameProcs(T, T)
    BY Sizes DEF SameProcs
<1>2. CASE path \in Devices
    <2> DEFINE file == 0
    <2>1. O = Describe(T, s, path, file) /\ path \notin TmpPaths
        BY <1>2, TableAssumption DEF VfsOpen, virtual_node
    <2>2. path \in Devices \union {"tmp"} /\ file \in FileIdx \union {0}
        BY <1>2
    <2> HIDE DEF file
    <2>3. CASE O.ret < 0
        <3>1. ~(O.ret >= 0)
            BY <1>0, <1>1, <2>3
        <3>2. /\ O.ret >= 0 =>
                    /\ O.ret \in Fds
                    /\ \E i \in OpenIdx : Described(T, O, s, i, NewOpen(T, s, path, file))
              /\ ~(O.ret >= 0) => O.ret = -24 /\ (Cleared(T) => O.t = T)
            BY <2>1, <2>2, DescribeMakes
        <3>3. O.t = T
            BY <3>1, <3>2
        <3> QED BY <1>0, <1>1, <2>3, <3>3
    <2>4. CASE ~(O.ret < 0)
        <3>1. O.ret >= 0
            BY <1>0, <1>1, <2>4
        <3>2. /\ O.ret \in Fds /\ O.t.files = T.files
              /\ \E i \in OpenIdx : Opens(T, O.t, s, O.ret, i, path)
            <4>1. Made(T, T, path, path, file)
                BY <1>2 DEF Made
            <4> QED BY <2>1, <2>2, <3>1, <4>1, DescribeOpens
        <3> QED BY <1>1, <2>4, <3>2 DEF PathsDiffer
    <2> QED BY <2>3, <2>4
<1>3. CASE path \in TmpPaths
    <2>0. PICK M : M = MakeTmp(T, path, yes, yes)
        OBVIOUS
    <2>1. O = IF M.ret < 0 THEN M ELSE Describe(M.t, s, "tmp", M.ret)
        BY <1>3, <2>0, TableAssumption DEF VfsOpen, virtual_node
    <2>2. /\ Sound(M.t) /\ PathsDiffer(M.t) /\ M.ret \in FileIdx \union {-2, -28}
          /\ M.t.open = T.open /\ M.t.fds = T.fds /\ M.t.proc = T.proc
          /\ M.ret \in FileIdx => M.t.files = [T.files EXCEPT ![M.ret] = Emptied(path)]
          /\ M.ret \notin FileIdx => M.t.files = T.files
        <3>1. CutOrNot(T, M, path)
            BY <1>3, <2>0, MakeTmpCuts
        <3> QED BY <3>1 DEF CutOrNot
    <2>a. SameProcs(T, M.t) /\ Cleared(M.t)
        BY <2>2 DEF SameProcs, Cleared
    <2>b. \A f \in FileIdx : M.t.files[f] = T.files[f] \/ M.t.files[f].size = 0
        <3>1. T.files \in [FileIdx -> File]
            BY Fields DEF Sound
        <3>2. Emptied(path).size = 0
            BY DEF Emptied
        <3> QED BY <2>2, <3>1, <3>2
    <2>3. CASE M.ret < 0
        <3>1. O = M
            BY <2>1, <2>3
        <3> QED BY <1>1, <2>2, <2>3, <2>a, <2>b, <3>1
    <2>4. CASE ~(M.ret < 0)
        <3> DEFINE node == "tmp"
                   file == M.ret
        <3>1. file \in FileIdx
            BY <2>2, <2>4
        <3>2. /\ O = Describe(M.t, s, node, file) /\ node \in Devices \union {"tmp"}
              /\ file \in FileIdx \union {0} /\ node = "tmp"
            BY <2>1, <2>4, <3>1
        <3> HIDE DEF node
        <3>3. CASE O.ret < 0
            <4>1. ~(O.ret >= 0)
                BY <1>0, <1>1, <3>3
            <4> HIDE DEF file
            <4>2. /\ O.ret >= 0 =>
                        /\ O.ret \in Fds
                        /\ \E i \in OpenIdx : Described(M.t, O, s, i, NewOpen(M.t, s, node, file))
                  /\ ~(O.ret >= 0) => O.ret = -24 /\ (Cleared(M.t) => O.t = M.t)
                BY <2>2, <3>2, DescribeMakes
            <4>3. O.t = M.t
                BY <2>a, <4>1, <4>2
            <4> QED BY <1>1, <2>2, <2>a, <2>b, <3>3, <4>3
        <3>4. CASE ~(O.ret < 0)
            <4>1. O.ret >= 0
                BY <1>0, <1>1, <3>4
            <4>2. M.t.files = [T.files EXCEPT ![file] = Emptied(path)]
                BY <2>2, <3>1
            <4>n. PICK N : N = M.t
                OBVIOUS
            <4>a. Sound(N) /\ N.open = T.open /\ N.fds = T.fds /\ N.proc = T.proc
                BY <2>2, <4>n
            <4>b. N.files = [T.files EXCEPT ![file] = Emptied(path)] /\ O = Describe(N, s, node, file)
                BY <3>2, <4>2, <4>n
            <4> HIDE DEF file
            <4>c. Made(T, N, path, node, file)
                BY <1>3, <3>1, <3>2, <4>b DEF Made
            <4>3. /\ O.ret \in Fds /\ O.t.files = N.files
                  /\ \E i \in OpenIdx : Opens(T, O.t, s, O.ret, i, path)
                BY <3>2, <4>1, <4>a, <4>b, <4>c, DescribeOpens
            <4>4. PathsDiffer(O.t)
                BY <2>2, <4>n, <4>3 DEF PathsDiffer
            <4> QED BY <1>1, <3>4, <4>3, <4>4
        <3> QED BY <3>3, <3>4
    <2> QED BY <2>3, <2>4
<1> QED BY <1>2, <1>3

\* What the shell leaves between its segments.
Tidy(T) == Sound(T) /\ Filled(T, Everything) /\ Cleared(T) /\ PathsDiffer(T)

\* The file that was made or cut holds n bytes now.
Holds(T, U, f, path, n) ==
    U.files = [T.files EXCEPT ![f] = [Emptied(path) EXCEPT !.size = n]]

\* After the open: n bytes are written and the descriptor is closed.
WritesCloses(T, U, s, fd, i, path, n, R, C) ==
    /\ Tidy(T) /\ Sound(U) /\ Filled(U, Everything) /\ PathsDiffer(U)
    /\ fd \in Fds /\ i \in OpenIdx /\ Opens(T, U, s, fd, i, path)
    /\ R = VfsWrite(U, s, fd, n) /\ C = VfsClose(R.t, s, fd).t

\* What is written through the descriptor of a fresh file, which is closed.
FileHolds(T, U, R, C, i, f, path, n) ==
    /\ R.ret = n /\ U.open[i].node = "tmp" /\ f \in FileIdx
    /\ U.files = [T.files EXCEPT ![f] = Emptied(path)]
    /\ Tidy(C) /\ C.open = T.open /\ SameProcs(T, C) /\ Holds(T, C, f, path, n)

LEMMA FileWritten ==
    ASSUME NEW T, NEW s \in Slots, NEW U, NEW fd, NEW i, NEW path \in TmpPaths,
           NEW n \in Nat, n <= FileData, NEW R, NEW C, WritesCloses(T, U, s, fd, i, path, n, R, C),
           NEW f, f = U.open[i].file
    PROVE  FileHolds(T, U, R, C, i, f, path, n) /\ U.fds[s][fd] = i
<1> USE DEF WritesCloses
<1>0. /\ T \in Tables /\ T.fds \in Rows /\ T.open \in [OpenIdx -> OpenFile]
      /\ T.files \in [FileIdx -> File] /\ U \in Tables
    BY Fields DEF Tidy, Sound, Rows
<1>1. /\ ~T.open[i].used /\ T.fds[s][fd] = -1 /\ SameProcs(T, U)
      /\ U.fds = SetFd(T.fds, s, fd, i) /\ U.open = [T.open EXCEPT ![i] = U.open[i]]
      /\ U.open[i].refs = 1 /\ U.open[i].offset = 0
      /\ U.open[i].node = "tmp" /\ f \in FileIdx
      /\ U.files = [T.files EXCEPT ![f] = Emptied(path)]
    BY TableAssumption DEF Opens
<1>2. U.fds[s][fd] = i
    BY <1>0, <1>1 DEF SetFd, Rows
<1>3. U.files[f] = Emptied(path) /\ U.files[f].size = 0
    BY <1>0, <1>1 DEF Emptied
<1>4. /\ R.ret = n /\ R.t.open[i].refs = 1
      /\ [R.t.open EXCEPT ![i] = FreeOpen] = [U.open EXCEPT ![i] = FreeOpen]
      /\ R.t.files = [U.files EXCEPT ![f] = [U.files[f] EXCEPT !.size = n]]
    <2>1. Wrote(U, R, i, f, n)
        BY <1>1, <1>2, <1>3, WriteFills
    <2> QED BY <1>1, <2>1 DEF Wrote
<1>5. Sound(R.t) /\ Filled(R.t, Everything) /\ R.t.fds = U.fds /\ R.t.proc = U.proc
    <2>1. /\ Sound(R.t) /\ Filled(R.t, CoversOf(U, s, fd, n, Everything))
          /\ R.t.fds = U.fds /\ R.t.proc = U.proc
        BY WriteKeeps
    <2>2. R.t \in Tables
        BY <2>1 DEF Sound
    <2> QED BY <2>1, <2>2, FilledAnyhow
<1> DEFINE A == R.t
<1>6. Sound(A) /\ i = A.fds[s][fd] /\ A.open[i].refs = 1 /\ C = VfsClose(A, s, fd).t
    BY <1>2, <1>4, <1>5
<1>7. Filled(C, Everything)
    <2>1. Kept(A, C, s)
        BY <1>6, CloseAlways
    <2> QED BY <1>5, <2>1, RecedesFilled DEF Kept
<1> HIDE DEF A
<1>8. /\ Sound(C) /\ C.fds = SetFd(A.fds, s, fd, -1) /\ C.files = A.files
      /\ C.open = [A.open EXCEPT ![i] = FreeOpen] /\ SameProcs(A, C)
    BY <1>6, CloseFrees
<1>9. C.open = T.open
    <2>1. C.open = [[T.open EXCEPT ![i] = U.open[i]] EXCEPT ![i] = FreeOpen]
        BY <1>1, <1>4, <1>8 DEF A
    <2>2. T.open[i] = FreeOpen
        BY <1>1 DEF Tidy, Cleared
    <2> QED BY <1>0, <2>1, <2>2
<1>10. SameProcs(T, C)
    BY <1>1, <1>5, <1>8 DEF A, SameProcs
<1>11. Holds(T, C, f, path, n)
    <2> DEFINE o == [Emptied(path) EXCEPT !.size = n]
    <2>1. C.files = [U.files EXCEPT ![f] = o]
        BY <1>3, <1>4, <1>8 DEF A
    <2> HIDE DEF o
    <2>2. C.files = [T.files EXCEPT ![f] = o]
        BY <1>0, <1>1, <2>1
    <2> QED BY <2>2 DEF o, Holds
<1>12. PathsDiffer(C)
    <2>1. \A g \in FileIdx : C.files[g].used = U.files[g].used /\ C.files[g].path = U.files[g].path
        BY <1>0, <1>1, <1>11 DEF Holds, Emptied
    <2> QED BY <2>1 DEF PathsDiffer
<1>13. Cleared(C)
    BY <1>9 DEF Tidy, Cleared
<1> QED BY <1>1, <1>2, <1>4, <1>7, <1>8, <1>9, <1>10, <1>11, <1>12, <1>13 DEF Tidy, FileHolds

\* What is written to a node: it takes it all, or nothing and the descriptor
\* stays open.
NodeTakes(T, U, R, C, path, n) ==
    /\ U.files = T.files
    /\ R.ret = n => Tidy(C) /\ C.open = T.open /\ SameProcs(T, C) /\ C.files = T.files
    /\ R.ret # n => /\ R.t = U /\ Tidy(U) /\ SameProcs(T, U) /\ path \in {"zero", "proc"}
                    /\ \A j \in OpenIdx : U.open[j] = T.open[j] \/ U.open[j].node = path

LEMMA NodeWritten ==
    ASSUME NEW T, NEW s \in Slots, NEW U, NEW fd, NEW i, NEW path \in Devices,
           NEW n \in Nat, NEW R, NEW C, WritesCloses(T, U, s, fd, i, path, n, R, C)
    PROVE  NodeTakes(T, U, R, C, path, n) /\ U.fds[s][fd] = i /\ U.open[i].node = path
<1> USE DEF WritesCloses
<1>0. /\ T \in Tables /\ T.fds \in Rows /\ T.open \in [OpenIdx -> OpenFile] /\ U \in Tables
    BY Fields DEF Tidy, Sound, Rows
<1>1. /\ ~T.open[i].used /\ T.fds[s][fd] = -1 /\ SameProcs(T, U)
      /\ U.fds = SetFd(T.fds, s, fd, i) /\ U.open = [T.open EXCEPT ![i] = U.open[i]]
      /\ U.open[i].used /\ U.open[i].refs = 1 /\ U.open[i].node = path /\ U.files = T.files
    BY TableAssumption DEF Opens
<1>2. U.fds[s][fd] = i
    BY <1>0, <1>1 DEF SetFd, Rows
<1>3. R.t = U /\ (R.ret # n => path \in {"zero", "proc"})
    <2>1. ~(i < 0) /\ path # "tmp"
        BY Indexes, TableAssumption
    <2>2. \/ path \in {"zero", "proc"} /\ R = Ret(U, -30)
          \/ R = Ret(U, n)
        BY <1>1, <1>2, <2>1 DEF VfsWrite
    <2> QED BY <2>2 DEF Ret
<1>4. ASSUME R.ret = n
      PROVE  Tidy(C) /\ C.open = T.open /\ SameProcs(T, C) /\ C.files = T.files
    <2>1. C = VfsClose(U, s, fd).t
        BY <1>3
    <2>2. /\ Sound(C) /\ C.fds = SetFd(U.fds, s, fd, -1) /\ C.files = U.files
          /\ C.open = [U.open EXCEPT ![i] = FreeOpen] /\ SameProcs(U, C)
        BY <1>1, <1>2, <2>1, CloseFrees
    <2>3. C.open = T.open
        <3>1. C.open = [[T.open EXCEPT ![i] = U.open[i]] EXCEPT ![i] = FreeOpen]
            BY <1>1, <2>2
        <3>2. T.open[i] = FreeOpen
            BY <1>1 DEF Tidy, Cleared
        <3> QED BY <1>0, <3>1, <3>2
    <2>4. Filled(C, Everything)
        <3>1. Kept(U, C, s)
            BY <2>1, CloseAlways
        <3> QED BY <3>1, RecedesFilled DEF Kept
    <2>5. SameProcs(T, C)
        BY <1>1, <2>2 DEF SameProcs
    <2>6. Cleared(C)
        BY <2>3 DEF Tidy, Cleared
    <2>7. PathsDiffer(C)
        BY <1>1, <2>2 DEF Tidy, PathsDiffer
    <2> QED BY <1>1, <2>2, <2>3, <2>4, <2>5, <2>6, <2>7 DEF Tidy
<1>5. /\ Tidy(U)
      /\ \A j \in OpenIdx : U.open[j] = T.open[j] \/ U.open[j].node = path
    <2>1. \A j \in OpenIdx : j # i => U.open[j] = T.open[j]
        BY <1>0, <1>1
    <2>2. Cleared(U)
        BY <1>1, <2>1 DEF Tidy, Cleared
    <2> QED BY <1>1, <2>1, <2>2 DEF Tidy
<1> QED BY <1>1, <1>2, <1>3, <1>4, <1>5 DEF NodeTakes

\* What a redirection leaves: open with create and cut, write, close when the
\* write was whole.
Leaves(T, O, R, U, s, path, n) ==
    LET o == O.t.open[O.t.fds[s][O.ret]] IN
    /\ Tidy(U) /\ SameProcs(T, U)
    /\ \A j \in OpenIdx : U.open[j] = T.open[j] \/ U.open[j].node \in {"zero", "proc"}
    /\ O.ret < 0 => \A f \in FileIdx : O.t.files[f] = T.files[f] \/ O.t.files[f].size = 0
    /\ ~(O.ret < 0) =>
        \/ path \in Devices /\ o.node = path /\ O.t.files = T.files /\ U.files = T.files
        \/ /\ path \in TmpPaths /\ o.node = "tmp" /\ o.file \in FileIdx /\ R.ret = n
           /\ O.t.files = [T.files EXCEPT ![o.file] = Emptied(path)]
           /\ Holds(T, U, o.file, path, n)

\* The two ways on from a whole and from a refused write.
Ends(R, C, U, n) == U = IF R.ret = n THEN C ELSE R.t

LEMMA FileLeaves ==
    ASSUME NEW T, NEW s \in Slots, NEW O, NEW A, A = O.t, ~(O.ret < 0), NEW fd, fd = O.ret,
           NEW i, NEW path \in TmpPaths, NEW n \in Nat, n <= FileData,
           NEW R, NEW C, NEW U, Ends(R, C, U, n), WritesCloses(T, A, s, fd, i, path, n, R, C)
    PROVE  Leaves(T, O, R, U, s, path, n)
<1>1. PICK f : f = A.open[i].file
    OBVIOUS
<1>2. FileHolds(T, A, R, C, i, f, path, n) /\ A.fds[s][fd] = i
    BY <1>1, FileWritten
<1>3. U = C /\ O.t.open[O.t.fds[s][O.ret]] = A.open[i]
    BY <1>2 DEF Ends, FileHolds
<1> QED BY <1>1, <1>2, <1>3 DEF Leaves, FileHolds

LEMMA NodeLeaves ==
    ASSUME NEW T, NEW s \in Slots, NEW O, NEW A, A = O.t, ~(O.ret < 0), NEW fd, fd = O.ret,
           NEW i, NEW path \in Devices, NEW n \in Nat,
           NEW R, NEW C, NEW U, Ends(R, C, U, n), WritesCloses(T, A, s, fd, i, path, n, R, C)
    PROVE  Leaves(T, O, R, U, s, path, n)
<1>1. NodeTakes(T, A, R, C, path, n) /\ A.fds[s][fd] = i /\ A.open[i].node = path
    BY NodeWritten
<1>2. O.t.open[O.t.fds[s][O.ret]] = A.open[i]
    BY <1>1
<1>3. CASE R.ret = n
    BY <1>1, <1>2, <1>3 DEF Ends, Leaves, NodeTakes
<1>4. CASE R.ret # n
    <2>1. U = A /\ Tidy(U) /\ SameProcs(T, U) /\ path \in {"zero", "proc"}
        BY <1>1, <1>4 DEF Ends, NodeTakes
    <2>2. \A j \in OpenIdx : U.open[j] = T.open[j] \/ U.open[j].node = path
        BY <1>1, <1>4, <2>1 DEF NodeTakes
    <2>3. A.files = T.files
        BY <1>1 DEF NodeTakes
    <2> QED BY <1>1, <1>2, <2>1, <2>2, <2>3 DEF Leaves
<1> QED BY <1>3, <1>4

\* The calls of a redirection: O opens, R writes, C closes, U is what is left.
Redirects(T, s, path, n, O, R, C, U) ==
    /\ O = VfsOpen(T, s, path, TRUE, TRUE)
    /\ R = VfsWrite(O.t, s, O.ret, n) /\ C = VfsClose(R.t, s, O.ret).t
    /\ U = IF O.ret < 0 THEN O.t ELSE IF R.ret = n THEN C ELSE R.t

LEMMA RedirectLeaves ==
    ASSUME NEW T, Tidy(T), NEW s \in Slots, T.proc[s].state # "FREE",
           NEW path \in TmpPaths \union Devices, NEW n \in Nat, n <= FileData,
           NEW O, NEW R, NEW C, NEW U, Redirects(T, s, path, n, O, R, C, U)
    PROVE  Leaves(T, O, R, U, s, path, n)
<1>0. Sound(T) /\ Cleared(T) /\ PathsDiffer(T) /\ Filled(T, Everything)
    BY DEF Tidy
<1>1. /\ Sound(O.t) /\ Filled(O.t, Everything) /\ PathsDiffer(O.t)
      /\ O.ret < 0 =>
            /\ O.t.open = T.open /\ SameProcs(T, O.t)
            /\ \A f \in FileIdx : O.t.files[f] = T.files[f] \/ O.t.files[f].size = 0
      /\ ~(O.ret < 0) =>
            O.ret \in Fds /\ \E i \in OpenIdx : Opens(T, O.t, s, O.ret, i, path)
    <2>1. CutOrOpened(T, O, s, path)
        <3>1. PICK yes : yes = TRUE
            OBVIOUS
        <3>2. O = VfsOpen(T, s, path, yes, yes)
            BY <3>1 DEF Redirects
        <3> QED BY <1>0, <3>1, <3>2, CutOpens
    <2> QED BY <2>1 DEF CutOrOpened
<1>2. CASE O.ret < 0
    <2>1. Cleared(O.t) /\ U = O.t
        BY <1>0, <1>1, <1>2 DEF Cleared, Redirects
    <2> QED BY <1>1, <1>2, <2>1 DEF Tidy, Leaves
<1>3. CASE ~(O.ret < 0)
    <2>1. PICK fd \in Fds, i \in OpenIdx : fd = O.ret /\ Opens(T, O.t, s, fd, i, path)
        BY <1>1, <1>3
    <2>a. PICK A : A = O.t
        OBVIOUS
    <2>2. R = VfsWrite(A, s, fd, n) /\ C = VfsClose(R.t, s, fd).t /\ Opens(T, A, s, fd, i, path)
        BY <2>1, <2>a DEF Redirects
    <2>b. Sound(A) /\ Filled(A, Everything) /\ PathsDiffer(A)
        BY <1>1, <2>a
    <2>c. WritesCloses(T, A, s, fd, i, path, n, R, C)
        BY <2>1, <2>2, <2>b DEF WritesCloses
    <2>d. Ends(R, C, U, n)
        BY <1>3 DEF Ends, Redirects
    <2>4. CASE path \in TmpPaths
        BY <1>3, <2>1, <2>a, <2>c, <2>d, <2>4, FileLeaves
    <2>5. CASE path \in Devices
        BY <1>3, <2>1, <2>a, <2>c, <2>d, <2>5, NodeLeaves
    <2> QED BY <2>4, <2>5
<1> QED BY <1>2, <1>3
-----------------------------------------------------------------------------
(* The inductive invariant and its steps.                                  *)

IInv ==
    /\ Sound(t) /\ Filled(t, written)
    /\ nextPid \in 3..(MaxPid + 1) /\ written \in [FileIdx -> SUBSET Nat]

LEMMA InitSound == Init => IInv
<1> SUFFICES ASSUME Init PROVE IInv
    OBVIOUS
<1> USE DEF Init
<1>1. \A s \in Slots : t.proc[s] = IF s = ShellSlot
                        THEN [FreeProc EXCEPT !.pid = ShellPid, !.ppid = 1, !.state = "READY"]
                        ELSE FreeProc
    OBVIOUS
<1>2. \A s \in Slots : /\ t.proc[s] \in Proc /\ t.proc[s].fdCount = 0
                       /\ t.proc[s].state = IF s = ShellSlot THEN "READY" ELSE "FREE"
    <2> TAKE s \in Slots
    <2> HIDE DEF Init
    <2> DEFINE shell == [FreeProc EXCEPT !.pid = ShellPid, !.ppid = 1, !.state = "READY"]
    <2>1. FreeProc \in Proc /\ FreeProc.fdCount = 0 /\ FreeProc.state = "FREE"
        BY Sizes DEF FreeProc, Proc
    <2>2. shell \in Proc /\ shell.fdCount = 0 /\ shell.state = "READY"
        <3> DEFINE ready == "READY"
        <3>1. ready \in {"FREE", "READY", "EXITED"} /\ ShellPid \in 0..MaxPid /\ 1 \in 0..MaxPid
            BY Sizes DEF ShellPid
        <3> HIDE DEF ready
        <3>2. [FreeProc EXCEPT !.pid = ShellPid, !.ppid = 1, !.state = ready] \in Proc
            BY <2>1, <3>1 DEF Proc
        <3>3. [FreeProc EXCEPT !.pid = ShellPid, !.ppid = 1, !.state = ready].fdCount = FreeProc.fdCount
            BY <2>1 DEF Proc
        <3>4. [FreeProc EXCEPT !.pid = ShellPid, !.ppid = 1, !.state = ready].state = ready
            BY <2>1 DEF Proc
        <3> QED BY <2>1, <3>2, <3>3, <3>4 DEF ready
    <2> HIDE DEF shell
    <2>3. CASE s = ShellSlot
        <3>1. t.proc[s] = shell
            BY <1>1, <2>3 DEF shell
        <3> QED BY <2>2, <2>3, <3>1
    <2>4. CASE s # ShellSlot
        <3>1. t.proc[s] = FreeProc
            BY <1>1, <2>4
        <3> QED BY <2>1, <2>4, <3>1
    <2> QED BY <2>3, <2>4
<1>3. FreeOpen \in OpenFile /\ FreeFile \in File
    BY Sizes DEF FreeOpen, OpenFile, FreeFile, File
<1>4. t \in Tables
    <2>1. t.proc \in [Slots -> Proc]
        BY <1>2
    <2>2. t.fds \in [Slots -> [Fds -> OpenIdx \union {-1}]]
        BY DEF NoFds
    <2>3. t.open \in [OpenIdx -> OpenFile] /\ t.files \in [FileIdx -> File]
        BY <1>3
    <2>4. t = [proc |-> t.proc, fds |-> t.fds, open |-> t.open, files |-> t.files,
               openCount |-> 0, fileCount |-> 0, live |-> 2]
        OBVIOUS
    <2> QED BY <2>1, <2>2, <2>3, <2>4 DEF Tables
<1>5. \A s \in Slots, fd \in Fds : t.fds[s][fd] = -1 /\ ~(t.fds[s][fd] >= 0)
    BY DEF NoFds
<1>6. /\ \A i \in OpenIdx : t.open[i] = FreeOpen
      /\ \A f \in FileIdx : t.files[f] = FreeFile
      /\ t.openCount = 0 /\ t.fileCount = 0 /\ t.live = 2
    OBVIOUS
<1>7. Refs(t)
    <2>1. ASSUME NEW i \in OpenIdx PROVE NamesIn(t.fds, i) = {}
        <3>1. i # -1
            BY Sizes
        <3> QED BY <1>5, <3>1 DEF NamesIn
    <2>2. {i \in OpenIdx : t.open[i].used} = {}
        BY <1>6 DEF FreeOpen
    <2>3. \A i \in OpenIdx : t.open[i].refs = 0 /\ t.open[i].used = FALSE
        BY <1>6 DEF FreeOpen
    <2> QED BY <1>6, <2>1, <2>2, <2>3, FS_EmptySet DEF Refs
<1>8. Own(t)
    BY <1>5 DEF Own
<1>9. FileCount(t)
    <2>1. {f \in FileIdx : t.files[f].used} = {}
        BY <1>6 DEF FreeFile
    <2> QED BY <1>6, <2>1, FS_EmptySet DEF FileCount
<1>10. Alive(t)
    <2>1. Taken(t.proc) = {ShellSlot}
        BY <1>2, Sizes DEF Taken
    <2>2. Cardinality({ShellSlot}) = 1
        BY FS_Singleton
    <2> HIDE DEF Init
    <2>3. t.live = 1 + Cardinality(Taken(t.proc))
        BY <1>6, <2>1, <2>2
    <2>4. t.proc[ShellSlot].state = "READY"
        BY <1>2, Sizes
    <2> QED BY <2>3, <2>4 DEF Alive
<1>11. \A s \in Slots : FdCount(t, s)
    <2> TAKE s \in Slots
    <2>1. OpenFds(t.fds, s) = {}
        BY <1>5 DEF OpenFds
    <2> QED BY <1>2, <2>1, FdCountIs, FS_EmptySet
<1>12. Filled(t, written)
    <2>1. \A f \in FileIdx : t.files[f].size = 0 /\ 0..(0 - 1) = {}
        BY <1>6 DEF FreeFile
    <2>2. \A i \in OpenIdx : t.open[i].node # "tmp"
        BY <1>6, Sizes DEF FreeOpen
    <2>3. ASSUME NEW f \in FileIdx
          PROVE  t.files[f].size <= FileData /\ 0..(t.files[f].size - 1) \subseteq written[f]
        <3>1. t.files[f].size = 0 /\ 0..(0 - 1) = {} /\ 0 <= FileData
            BY <2>1, Sizes
        <3> QED BY <3>1
    <2> QED BY <2>2, <2>3 DEF Filled
<1>13. nextPid \in 3..(MaxPid + 1) /\ written \in [FileIdx -> SUBSET Nat]
    BY Sizes
<1> QED BY <1>4, <1>7, <1>8, <1>9, <1>10, <1>11, <1>12, <1>13 DEF IInv, Sound

\* What one step keeps.
StepKeeps == IInv' /\ \E s \in Slots : Only(t, t', s)

LEMMA KeptStep ==
    ASSUME IInv, NEW s \in Slots, Kept(t, t', s), UNCHANGED written,
           nextPid' \in 3..(MaxPid + 1)
    PROVE  StepKeeps
<1>1. Filled(t', written)
    BY RecedesFilled DEF Kept, IInv
<1> QED BY <1>1 DEF StepKeeps, IInv, Kept

LEMMA FreshTyped ==
    ASSUME NEW T, NEW U, NEW W \in [FileIdx -> SUBSET Nat]
    PROVE  FreshOf(T, U, W) \in [FileIdx -> SUBSET Nat]
BY DEF FreshOf

LEMMA CoversTyped ==
    ASSUME NEW T \in Tables, NEW s \in Slots, NEW fd \in Fds, NEW n \in Nat,
           NEW W \in [FileIdx -> SUBSET Nat]
    PROVE  CoversOf(T, s, fd, n, W) \in [FileIdx -> SUBSET Nat]
<1> DEFINE i == T.fds[s][fd]
           off == T.open[i].offset
<1>1. i >= 0 => off \in Nat
    BY Fields
<1>2. ASSUME off \in Nat, NEW m PROVE off..m \in SUBSET Nat
    BY <1>2
<1>3. i >= 0 => off..(off + Clip(n, FileData - off) - 1) \in SUBSET Nat
    BY <1>1, <1>2
<1> QED BY <1>3 DEF CoversOf

LEMMA ProcessSteps ==
    ASSUME IInv, NEW s \in Slots, Open(s) \/ Close(s) \/ Dup2(s) \/ Write(s) \/ Read(s)
    PROVE  StepKeeps
<1>0. /\ Sound(t) /\ Filled(t, written) /\ nextPid \in 3..(MaxPid + 1)
      /\ written \in [FileIdx -> SUBSET Nat] /\ t \in Tables
    BY DEF IInv, Sound
<1>1. CASE Open(s)
    <2>1. PICK path \in TmpPaths \union Devices, creat \in BOOLEAN, trunc \in BOOLEAN :
            LET R == VfsOpen(t, s, path, creat, trunc)
            IN  t' = R.t /\ written' = Fresh(R.t)
        BY <1>1 DEF Open
    <2> DEFINE R == VfsOpen(t, s, path, creat, trunc)
    <2>2. /\ t' = R.t /\ written' = FreshOf(t, R.t, written) /\ nextPid' = nextPid
          /\ t.proc[s].state # "FREE"
        BY <1>1, <2>1 DEF Open, Fresh, FreshOf, Calls
    <2>3. Opened(t, R, s) /\ Filled(R.t, FreshOf(t, R.t, written))
        BY <1>0, <2>2, OpenKeeps
    <2> HIDE DEF R
    <2>4. Sound(t') /\ Only(t, t', s) /\ Filled(t', written')
        BY <2>2, <2>3 DEF Opened
    <2>5. written' \in [FileIdx -> SUBSET Nat]
        BY <1>0, <2>2, FreshTyped
    <2> QED BY <1>0, <2>2, <2>4, <2>5 DEF StepKeeps, IInv
<1>2. CASE Close(s)
    <2>1. PICK fd \in Fds : t' = VfsClose(t, s, fd).t
        BY <1>2 DEF Close
    <2>2. Kept(t, t', s)
        BY <1>0, <2>1, CloseAlways
    <2>3. UNCHANGED <<nextPid, written>>
        BY <1>2 DEF Close
    <2> QED BY <1>0, <2>2, <2>3, KeptStep
<1>3. CASE Dup2(s)
    <2>1. PICK old \in Fds, new \in Fds : t' = VfsDup2(t, s, old, new).t
        BY <1>3 DEF Dup2
    <2>2. Kept(t, t', s)
        BY <1>0, <2>1, Dup2Keeps
    <2>3. UNCHANGED <<nextPid, written>>
        BY <1>3 DEF Dup2
    <2> QED BY <1>0, <2>2, <2>3, KeptStep
<1>4. CASE Write(s)
    <2>1. PICK fd \in Fds, n \in Lengths :
            t' = VfsWrite(t, s, fd, n).t /\ written' = Covers(t, s, fd, n)
        BY <1>4 DEF Write
    <2> DEFINE R == VfsWrite(t, s, fd, n)
    <2>2. /\ t' = R.t /\ written' = CoversOf(t, s, fd, n, written) /\ nextPid' = nextPid
          /\ n \in Nat
        BY <1>4, <2>1, Sizes DEF Write, Covers, CoversOf
    <2>3. /\ Sound(R.t) /\ Only(t, R.t, s) /\ Filled(R.t, CoversOf(t, s, fd, n, written))
        BY <1>0, <2>2, WriteKeeps
    <2> HIDE DEF R
    <2>4. written' \in [FileIdx -> SUBSET Nat]
        BY <1>0, <2>2, CoversTyped
    <2> QED BY <1>0, <2>2, <2>3, <2>4 DEF StepKeeps, IInv
<1>5. CASE Read(s)
    <2>1. PICK fd \in Fds, n \in Lengths : t' = VfsRead(t, s, fd, n).t
        BY <1>5 DEF Read
    <2> DEFINE R == VfsRead(t, s, fd, n)
    <2>2. t' = R.t /\ UNCHANGED <<nextPid, written>> /\ n \in Nat
        BY <1>5, <2>1, Sizes DEF Read
    <2>3. /\ Sound(R.t) /\ Only(t, R.t, s) /\ Filled(R.t, written)
        BY <1>0, <2>2, ReadKeeps
    <2> HIDE DEF R
    <2> QED BY <1>0, <2>2, <2>3 DEF StepKeeps, IInv
<1> QED BY <1>1, <1>2, <1>3, <1>4, <1>5

LEMMA KernelSteps ==
    ASSUME IInv, NEW s \in Slots, Exit(s) \/ Kill(s) \/ Wait(s) \/ Spawn
    PROVE  StepKeeps
<1>0. Sound(t) /\ nextPid \in 3..(MaxPid + 1) /\ t \in Tables
    BY DEF IInv, Sound
<1>1. CASE Exit(s)
    <2>1. s # ShellSlot /\ t.proc[s].state = "READY" /\ t' = [t EXCEPT !.proc[s].state = "EXITED"]
        BY <1>1 DEF Exit, Calls
    <2>2. Kept(t, t', s)
        BY <1>0, <2>1, ExitKeeps DEF Kept
    <2>3. UNCHANGED <<nextPid, written>>
        BY <1>1 DEF Exit
    <2> QED BY <1>0, <2>2, <2>3, KeptStep
<1>2. CASE Kill(s)
    <2>1. s # ShellSlot /\ t.proc[s].state # "FREE" /\ t' = Killed(t, s)
        BY <1>2 DEF Kill
    <2>2. Kept(t, t', s)
        BY <1>0, <2>1, KilledKeeps DEF Kept
    <2>3. UNCHANGED <<nextPid, written>>
        BY <1>2 DEF Kill
    <2> QED BY <1>0, <2>2, <2>3, KeptStep
<1>3. CASE Wait(s)
    <2>1. s # ShellSlot /\ t.proc[s].state # "FREE" /\ t' = Reaped(t, s)
        BY <1>3 DEF Wait
    <2>2. Kept(t, t', s)
        BY <1>0, <2>1, ReapedKeeps DEF Kept
    <2>3. UNCHANGED <<nextPid, written>>
        BY <1>3 DEF Wait
    <2> QED BY <1>0, <2>2, <2>3, KeptStep
<1>4. CASE Spawn
    <2> DEFINE free == FreeSlots(t)
               c == Least(free)
    <2>1. /\ nextPid <= MaxPid /\ free # {} /\ t' = Spawned(t, c, ShellPid)
          /\ nextPid' = nextPid + 1 /\ UNCHANGED written
        BY <1>4 DEF Spawn
    <2>2. c \in Slots /\ c # ShellSlot /\ t.proc[c].state = "FREE"
        <3>1. free \in SUBSET Nat
            BY Sizes DEF FreeSlots
        <3> HIDE DEF free
        <3>2. c \in free
            BY <2>1, <3>1, LeastMember
        <3>3. c \in Slots /\ c > ShellSlot /\ t.proc[c].state = "FREE"
            BY <3>2 DEF free, FreeSlots
        <3> HIDE DEF c
        <3> QED BY <3>3, Sizes DEF ShellSlot
    <2> HIDE DEF c
    <2>3. nextPid \in 0..MaxPid /\ ShellPid \in 0..MaxPid /\ nextPid + 1 \in 3..(MaxPid + 1)
        BY <1>0, <2>1, Sizes DEF ShellPid
    <2>4. Kept(t, t', c)
        BY <1>0, <2>1, <2>2, <2>3, SpawnedKeeps DEF Kept
    <2> QED BY <2>1, <2>2, <2>3, <2>4, KeptStep
<1> QED BY <1>1, <1>2, <1>3, <1>4

LEMMA CompoundSteps ==
    ASSUME IInv, Cat \/ ObjectsSelfTest
    PROVE  StepKeeps
<1>0. /\ Sound(t) /\ Filled(t, written) /\ nextPid \in 3..(MaxPid + 1)
      /\ written \in [FileIdx -> SUBSET Nat]
    BY DEF IInv
<1>1. CASE Cat
    <2>1. PICK path \in TmpPaths \union Devices : t' = CatOf(t, path)
        BY <1>1 DEF Cat, CatOf
    <2>2. UNCHANGED <<nextPid, written>>
        BY <1>1 DEF Cat
    <2>3. Sound(t') /\ Only(t, t', ShellSlot) /\ Filled(t', written)
        BY <1>0, <2>1, CatKeeps
    <2> QED BY <1>0, <2>2, <2>3, Sizes DEF StepKeeps, IInv
<1>2. CASE ObjectsSelfTest
    <2>1. PICK ipcFree \in BOOLEAN :
            LET R == SelfTest(t, ipcFree)
                opened == ipcFree /\ FreeSlots(t) # {} /\ TmpFile(R.t, QaPath) # {} /\ R.ret = 0
            IN  /\ t' = R.t
                /\ written' = [f \in FileIdx |->
                                 Fresh(R.t)[f] \union (IF opened /\ R.t.files[f].path = QaPath
                                                       THEN 0..(QaLength - 1) ELSE {})]
        BY <1>2 DEF ObjectsSelfTest
    <2> DEFINE R == SelfTest(t, ipcFree)
    <2>2. /\ t' = R.t /\ written' = TestWrote(t, R, ipcFree, written) /\ nextPid <= MaxPid
          /\ nextPid' = nextPid + 1 \/ nextPid' = nextPid
        BY <1>2, <2>1 DEF ObjectsSelfTest, TestWrote, Fresh, FreshOf
    <2>3. nextPid \in 0..MaxPid /\ nextPid' \in 3..(MaxPid + 1)
        BY <1>0, <2>2, Sizes
    <2>4. /\ Sound(R.t) /\ Filled(R.t, TestWrote(t, R, ipcFree, written))
          /\ \E s \in Slots : Only(t, R.t, s)
        BY <1>0, <2>3, SelfTestKeeps
    <2>5. written' \in [FileIdx -> SUBSET Nat]
        <3>1. 0..(QaLength - 1) \in SUBSET Nat
            OBVIOUS
        <3>2. FreshOf(t, R.t, written) \in [FileIdx -> SUBSET Nat]
            BY <1>0, FreshTyped
        <3> HIDE DEF R
        <3> QED BY <2>2, <3>1, <3>2 DEF TestWrote
    <2> HIDE DEF R
    <2> QED BY <2>2, <2>3, <2>4, <2>5 DEF StepKeeps, IInv
<1> QED BY <1>1, <1>2

LEMMA NextKeeps == IInv /\ [Next]_vars => IInv' /\ (UNCHANGED vars \/ \E s \in Slots : Only(t, t', s))
<1> SUFFICES ASSUME IInv, [Next]_vars
             PROVE  IInv' /\ (UNCHANGED vars \/ \E s \in Slots : Only(t, t', s))
    OBVIOUS
<1>1. CASE UNCHANGED vars
    BY <1>1 DEF vars, IInv, Sound, Filled
<1>2. CASE Next
    <2>1. StepKeeps
        <3>1. CASE \E s \in Slots : Open(s) \/ Close(s) \/ Dup2(s) \/ Write(s) \/ Read(s)
            BY <3>1, ProcessSteps
        <3>2. CASE \E s \in Slots : Exit(s) \/ Kill(s) \/ Wait(s)
            BY <3>2, KernelSteps
        <3>3. CASE Spawn
            BY <3>3, KernelSteps, Sizes
        <3>4. CASE Cat \/ ObjectsSelfTest
            BY <3>4, CompoundSteps
        <3> QED BY <1>2, <3>1, <3>2, <3>3, <3>4 DEF Next
    <2> QED BY <2>1 DEF StepKeeps
<1> QED BY <1>1, <1>2

LEMMA Invariant == Spec => []IInv
<1>1. IInv /\ [Next]_vars => IInv'
    BY NextKeeps
<1> QED BY InitSound, <1>1, PTL DEF Spec

-----------------------------------------------------------------------------
(* Theorems                                                                *)

LEMMA SoundMeans == IInv => DescriptorsSound
<1> SUFFICES ASSUME IInv PROVE DescriptorsSound
    OBVIOUS
<1>0. /\ t \in Tables /\ Refs(t) /\ Own(t) /\ FileCount(t) /\ Alive(t)
      /\ \A s \in Slots : FdCount(t, s)
    BY DEF IInv, Sound
<1>1. \A i : Names(i) = NamesIn(t.fds, i)
    BY DEF Names, NamesIn
<1>2. TypeOK
    BY <1>0, Fields DEF TypeOK, IInv, Proc, OpenFile, File
<1>3. RefsExact
    BY <1>0, <1>1 DEF RefsExact, Refs
<1>4. CountsExact
    BY <1>0 DEF CountsExact, Refs, FileCount, Alive, Taken, FdCount
<1>5. PrivateDescriptions
    <2> SUFFICES ASSUME NEW i \in OpenIdx, NEW e \in Names(i)
                 PROVE  t.proc[e[1]].state # "FREE" /\ t.open[i].owner = t.proc[e[1]].pid
        BY DEF PrivateDescriptions
    <2>1. e[1] \in Slots /\ e[2] \in Fds /\ t.fds[e[1]][e[2]] = i /\ i >= 0
        BY Indexes DEF Names
    <2> QED BY <1>0, <2>1 DEF Own
<1> QED BY <1>2, <1>3, <1>4, <1>5 DEF DescriptorsSound

LEMMA FilledMeans == IInv => ReadsWereWritten
BY DEF IInv, Filled, ReadsWereWritten

LEMMA OnlyMeans ==
    ASSUME IInv, NEW x \in Slots, Only(t, t', x), NEW r \in Slots, r # x
    PROVE  View(t', r) = View(t, r)
<1>1. t'.fds[r] = t.fds[r]
    BY DEF Only
<1>2. ASSUME NEW fd \in Fds
      PROVE  (IF t'.fds[r][fd] < 0 THEN FreeOpen ELSE t'.open[t'.fds[r][fd]])
               = (IF t.fds[r][fd] < 0 THEN FreeOpen ELSE t.open[t.fds[r][fd]])
    <2>1. t.fds[r][fd] \in OpenIdx \union {-1}
        BY Fields DEF IInv, Sound
    <2>2. t.fds[r][fd] < 0 \/ t.fds[r][fd] >= 0
        BY <2>1, Indexes
    <2>3. t.fds[r][fd] >= 0 => t'.open[t.fds[r][fd]] = t.open[t.fds[r][fd]]
        BY DEF Only
    <2> QED BY <1>1, <2>2, <2>3
<1> QED BY <1>1, <1>2 DEF View

\* A description lives exactly as long as descriptors name it, the counters
\* agree with the tables and nobody inherits a descriptor: through open, dup2,
\* close, exit, kill, wait and the kernel's own calls of halaos_objects.c, for
\* any sizes of the tables.
THEOREM TablesAgree == Spec => []DescriptorsSound
<1>1. IInv => DescriptorsSound
    BY SoundMeans
<1> QED BY <1>1, Invariant, PTL

\* No read returns a byte that nobody wrote and no access leaves the data of
\* a file, whoever cuts a file under another descriptor's offset.
THEOREM OnlyWrittenIsRead == Spec => []ReadsWereWritten
<1>1. IInv => ReadsWereWritten
    BY FilledMeans
<1> QED BY <1>1, Invariant, PTL

\* A step changes what at most one process has open: kill, wait and the self
\* test of the kernel never touch the descriptors of another one.
THEOREM NobodyElseTouched == Spec => OthersUntouched
<1>1. IInv /\ [Next]_vars =>
        [\A r, s \in Slots : r # s => View(t', r) = View(t, r) \/ View(t', s) = View(t, s)]_vars
    <2> SUFFICES ASSUME IInv, [Next]_vars, ~UNCHANGED vars, NEW r \in Slots, NEW s \in Slots, r # s
                 PROVE  View(t', r) = View(t, r) \/ View(t', s) = View(t, s)
        OBVIOUS
    <2>1. PICK x \in Slots : Only(t, t', x)
        BY NextKeeps
    <2>2. r # x \/ s # x
        OBVIOUS
    <2> QED BY <2>1, <2>2, OnlyMeans
<1> QED BY <1>1, Invariant, PTL DEF Spec, OthersUntouched
====
