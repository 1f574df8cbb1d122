---- MODULE ShellLine_proofs ----
(***************************************************************************)
(* Pipelines and redirections, for any segments, outputs and sizes of the  *)
(* file tables: what a segment takes it gives back, and what it reports to *)
(* have delivered has arrived whole.                                       *)
(*                                                                         *)
(* A step of shell_execute_plan is a function of the shell's record, so    *)
(* the argument is by its value s.  PlanOf is the invariant of a plan: the *)
(* input of a stage is what the stages before it made of the first text,   *)
(* the last stage's output is all of it or known to be lost, there is one  *)
(* capture if there is a redirection and otherwise none, and no pipe is    *)
(* held between two steps.  TablesKept is that of the tables: Tidy, as in  *)
(* Vfs_proofs, with only refusing nodes open and every file as long as the *)
(* text it holds.  The lemmas of Vfs_proofs about a whole call that opens, *)
(* moves and closes (Leaves) give what `cat` and a redirection do to them. *)
(***************************************************************************)
EXTENDS ShellLine, SequenceTheorems, FiniteSetTheorems, TLAPS

P == INSTANCE Vfs_proofs WITH
        Slots <- {1}, FirstFd <- 3, QaPath <- CHOOSE p \in TmpPaths : TRUE, QaLength <- 8,
        Lengths <- {}, MaxPid <- 3, nextPid <- 3, written <- [f \in FileIdx |-> {}]

-----------------------------------------------------------------------------
(* The tables of the shell are those of Vfs_proofs.                        *)

LEMMA Tables == P!TableAssumption
<1>1. V!TableAssumption
    BY TableAssumption
<1> QED BY <1>1 DEF V!TableAssumption, P!TableAssumption, P!ShellSlot, V!ShellSlot,
       P!IsFiniteSet, V!IsFiniteSet, P!Cardinality, V!Cardinality

LEMMA SameRet ==
    ASSUME NEW T, NEW r
    PROVE  V!Ret(T, r) = P!Ret(T, r)
BY DEF V!Ret, P!Ret

LEMMA SameAllocateFd ==
    ASSUME NEW T, NEW s, NEW i
    PROVE  V!AllocateFd(T, s, i) = P!AllocateFd(T, s, i)
BY DEF V!Ret, P!Ret, V!AllocateFd, P!AllocateFd, V!Least, P!Least

LEMMA SameDescribe ==
    ASSUME NEW T, NEW s, NEW node, NEW file
    PROVE  V!Describe(T, s, node, file) = P!Describe(T, s, node, file)
BY SameAllocateFd DEF V!Ret, P!Ret, V!Describe, P!Describe, V!Least, P!Least, V!FreeOpen, P!FreeOpen

LEMMA SameMakeTmp ==
    ASSUME NEW T, NEW path, NEW creat, NEW trunc
    PROVE  V!MakeTmp(T, path, creat, trunc) = P!MakeTmp(T, path, creat, trunc)
BY DEF V!Ret, P!Ret, V!MakeTmp, P!MakeTmp, V!Least, P!Least, V!TmpFile, P!TmpFile

LEMMA SameOpen ==
    ASSUME NEW T, NEW s, NEW path, NEW creat, NEW trunc
    PROVE  V!VfsOpen(T, s, path, creat, trunc) = P!VfsOpen(T, s, path, creat, trunc)
BY SameMakeTmp, SameDescribe DEF V!VfsOpen, P!VfsOpen, V!virtual_node, P!virtual_node

LEMMA SameClose ==
    ASSUME NEW T, NEW s, NEW fd
    PROVE  V!VfsClose(T, s, fd) = P!VfsClose(T, s, fd)
BY DEF V!Ret, P!Ret, V!VfsClose, P!VfsClose, V!Unref, P!Unref, V!FreeOpen, P!FreeOpen

LEMMA SameRead ==
    ASSUME NEW T, NEW s, NEW fd, NEW n
    PROVE  V!VfsRead(T, s, fd, n) = P!VfsRead(T, s, fd, n)
BY DEF V!Ret, P!Ret, V!VfsRead, P!VfsRead, V!Clip, P!Clip

LEMMA SameWrite ==
    ASSUME NEW T, NEW s, NEW fd, NEW n
    PROVE  V!VfsWrite(T, s, fd, n) = P!VfsWrite(T, s, fd, n)
BY DEF V!Ret, P!Ret, V!VfsWrite, P!VfsWrite, V!Clip, P!Clip

LEMMA SameInit == V!Init => P!Init
BY DEF V!Init, P!Init, V!FreeProc, P!FreeProc, V!ShellSlot, P!ShellSlot, V!ShellPid, P!ShellPid,
       V!NoFds, P!NoFds, V!FreeOpen, P!FreeOpen, V!FreeFile, P!FreeFile

LEMMA SoundCounts == P!Sound(t) => V!RefsExact /\ V!CountsExact
BY DEF P!Sound, P!Refs, P!FileCount, P!Alive, P!Taken, P!FdCount, P!NamesIn,
       V!RefsExact, V!CountsExact, V!Names, P!Cardinality, V!Cardinality

-----------------------------------------------------------------------------
(* Texts, captures and the filters of a pipeline.                          *)

\* A text that was cut may have any number of line ends.
Cut == [bytes : Nat, lines : Nat]
Capture == [size : Nat, text : Cut, overflow : BOOLEAN]
\* Target and Stages use "" for what is missing.
Words == (UNION {{seg[i] : i \in DOMAIN seg} : seg \in Segments}) \union {""}
State == [pc : {"read", "command", "stage", "finish"}, words : Seq(Words), to : Words \union {None},
          at : 0..MaxStages, input : Cut, caps : Seq(Capture), shown : Texts, pipes : Nat,
          result : {0, -11, -12, -22, -28}, failed : BOOLEAN]

LEMMA Bounds ==
    /\ MaxStages = 3 /\ CaptureDepth = 2 /\ PipeBuffer = 128 /\ RedirectSize = 96
    /\ IpcData = 128 /\ FileData = 96 /\ CatLimit = 256
BY DEF MaxStages, CaptureDepth, PipeBuffer, RedirectSize, IpcData, FileData, CatLimit

LEMMA TextIs ==
    /\ NoText \in Texts /\ NewLine \in Texts
    /\ \A x \in Texts : x.bytes = 0 => x = NoText
    /\ \A x \in Texts : x.bytes \in Nat /\ x.lines \in Nat /\ x.lines <= x.bytes
    /\ \A b, l \in Nat : l <= b => Text(b, l) \in Texts
BY DEF NoText, NewLine, Text, Texts

LEMMA JoinedText ==
    ASSUME NEW x \in Texts, NEW y \in Texts
    PROVE  /\ Joined(x, y) \in Texts /\ Joined(x, y).bytes = x.bytes + y.bytes
           /\ Joined(NoText, x) = x
BY DEF Joined, NoText, Text, Texts

LEMMA FilteredText ==
    ASSUME NEW x \in Texts, NEW word
    PROVE  Filtered(word, x) \in Texts
<1>1. \A n \in Nat : Digits(n) \in 1..3
    BY DEF Digits
<1>2. CASE word = "cat"
    BY <1>2 DEF Filtered
<1>3. CASE word # "cat"
    <2>1. Digits(x.lines) \in 1..3 /\ Digits(x.bytes) \in 1..3
        BY <1>1, TextIs
    <2> HIDE DEF Digits
    <2>2. Filtered(word, x) = Text(15 + Digits(x.lines) + Digits(x.bytes), 1)
        BY <1>3 DEF Filtered
    <2>3. 15 + Digits(x.lines) + Digits(x.bytes) \in Nat /\ 1 <= 15 + Digits(x.lines) + Digits(x.bytes)
        BY <2>1
    <2> QED BY <2>2, <2>3, TextIs
<1> QED BY <1>2, <1>3

\* The text after the first j stages.
Whole(words, x, j) ==
    IF j = 1 THEN x
    ELSE IF j = 2 THEN Filtered(words[2], x)
    ELSE Filtered(words[3], Filtered(words[2], x))

LEMMA WholeText ==
    ASSUME NEW words, NEW x \in Texts, NEW j
    PROVE  Whole(words, x, j) \in Texts
BY FilteredText DEF Whole

LEMMA WholeNext ==
    ASSUME NEW words, NEW x, NEW j \in 2..3
    PROVE  Whole(words, x, j) = Filtered(words[j], Whole(words, x, j - 1))
<1>1. CASE j = 2
    BY <1>1 DEF Whole
<1>2. CASE j = 3
    BY <1>2 DEF Whole
<1> QED BY <1>1, <1>2

\* A pipeline of up to three stages means what its filters make of the text,
\* one after the other.
LEMMA MeaningIs ==
    ASSUME NEW words, NEW n \in 1..3, n = Len(words), NEW x
    PROVE  Meaning(words, x) = Whole(words, x, n)
<1> DEFINE Rounds(f) == f = [j \in 1..n |-> IF j = 1 THEN x ELSE Filtered(words[j], f[j - 1])]
           after == CHOOSE f : Rounds(f)
           g == [j \in 1..n |-> Whole(words, x, j)]
<1>1. Rounds(g)
    <2>1. ASSUME NEW j \in 1..n
          PROVE  g[j] = IF j = 1 THEN x ELSE Filtered(words[j], g[j - 1])
        <3>1. CASE j = 1
            BY <3>1 DEF Whole
        <3>2. CASE j # 1
            <4>1. j \in 2..3 /\ j - 1 \in 1..n
                BY <3>2
            <4>2. g[j] = Whole(words, x, j) /\ g[j - 1] = Whole(words, x, j - 1)
                BY <4>1
            <4> QED BY <3>2, <4>1, <4>2, WholeNext
        <3> QED BY <3>1, <3>2
    <2> QED BY <2>1
<1>2. Rounds(after)
    <2> HIDE DEF g, Rounds
    <2> QED BY <1>1
<1>3. Meaning(words, x) = after[n]
    BY DEF Meaning
<1> HIDE DEF after, g
<1>4. \A j \in 1..n : after[j] = IF j = 1 THEN x ELSE Filtered(words[j], after[j - 1])
    BY <1>2
<1>5. after[1] = Whole(words, x, 1)
    BY <1>4 DEF Whole
<1>6. n >= 2 => after[2] = Whole(words, x, 2)
    BY <1>4, <1>5 DEF Whole
<1>7. n = 3 => after[3] = Whole(words, x, 3)
    BY <1>4, <1>6 DEF Whole
<1>8. n = 1 \/ n = 2 \/ n = 3
    OBVIOUS
<1> QED BY <1>3, <1>5, <1>6, <1>7, <1>8

-----------------------------------------------------------------------------
(* The words of a segment.                                                 *)

LEMMA PlainIs ==
    ASSUME NEW seg \in Segments
    PROVE  /\ seg \in Seq(Words) /\ Plain(seg) \in Seq(Words)
           /\ Len(Plain(seg)) \in 0..Len(seg)
           /\ \A i \in 1..Len(Plain(seg)) : Plain(seg)[i] = seg[i]
           /\ Len(Plain(seg)) # Len(seg) => seg # <<>> /\ seg[Len(seg)] = "&"
<1>1. seg \in Seq(Words)
    <2> DEFINE Tokens == UNION {{r[i] : i \in DOMAIN r} : r \in Segments}
    <2>1. seg \in Seq(Tokens)
        BY SegmentAssumption
    <2> HIDE DEF Tokens
    <2>2. Seq(Tokens) \subseteq Seq(Words)
        <3>1. Tokens \subseteq Words
            BY DEF Tokens, Words
        <3> QED BY <3>1, SeqMonotonic
    <2> QED BY <2>1, <2>2
<1>2. Len(seg) \in Nat /\ \A i \in 1..Len(seg) : seg[i] \in Words
    BY <1>1, ElementOfSeq, LenProperties
<1>3. CASE seg # <<>> /\ seg[Len(seg)] = "&"
    <2> DEFINE m == Len(seg) - 1
    <2>1. Plain(seg) = SubSeq(seg, 1, m)
        BY <1>3 DEF Plain
    <2>2. m \in Nat
        BY <1>1, <1>2, <1>3, EmptySeq
    <2>3. \A i \in 1..m : seg[i] \in Words
        BY <1>2
    <2> HIDE DEF m
    <2>4. /\ SubSeq(seg, 1, m) \in Seq(Words) /\ Len(SubSeq(seg, 1, m)) = m
          /\ \A i \in 1..m : SubSeq(seg, 1, m)[i] = seg[i]
        <3>1. /\ SubSeq(seg, 1, m) \in Seq(Words)
              /\ Len(SubSeq(seg, 1, m)) = IF 1 <= m THEN m - 1 + 1 ELSE 0
              /\ \A i \in 1..(m - 1 + 1) : SubSeq(seg, 1, m)[i] = seg[1 + i - 1]
            BY <2>2, <2>3, SubSeqProperties
        <3> QED BY <2>2, <3>1
    <2> QED BY <1>1, <1>2, <1>3, <2>1, <2>2, <2>4 DEF m
<1>4. CASE ~(seg # <<>> /\ seg[Len(seg)] = "&")
    <2>1. Plain(seg) = seg
        BY <1>4 DEF Plain
    <2> QED BY <1>1, <1>2, <2>1
<1> QED BY <1>3, <1>4

\* In a well-formed segment the marks are the even places.
LEMMA TurnsTaken ==
    ASSUME NEW seg \in Segments, ~Malformed(seg), NEW s, s = Plain(seg)
    PROVE  \A i \in 1..Len(s) : /\ i \in {1, 3, 5} => s[i] \notin {"|", ">"}
                                /\ i \in {2, 4, 6} => s[i] \in {"|", ">"}
<1>1. /\ seg \in Seq(Words) /\ s \in Seq(Words) /\ Len(s) \in 0..Len(seg) /\ Len(seg) \in Nat
      /\ \A i \in 1..Len(s) : s[i] = seg[i]
      /\ DOMAIN s = 1..Len(s) /\ DOMAIN seg = 1..Len(seg)
    BY PlainIs, LenProperties
<1>2. \A i \in 1..(Len(s) - 1) : {i, i + 1} \cap Marks(s) # {}
    BY SegmentAssumption
<1>3. \A i \in Marks(seg) \union {0} : i + 1 \in 1..Len(seg) /\ i + 1 \notin Marks(seg)
    BY <1>1 DEF Malformed
<1>4. \A i \in 1..Len(s) : i \in Marks(s) <=> i \in Marks(seg)
    BY <1>1 DEF Marks
<1>5. \A i \in 1..Len(s) : i \in Marks(s) <=> s[i] \in {"|", ">"}
    BY <1>1 DEF Marks
<1>6. \A i \in 1..(Len(s) - 1) : /\ i \in Marks(s) => i + 1 \notin Marks(s)
                                 /\ i \notin Marks(s) => i + 1 \in Marks(s)
    <2> TAKE i \in 1..(Len(s) - 1)
    <2>1. i \in 1..Len(s) /\ i + 1 \in 1..Len(s)
        BY <1>1
    <2>2. i \in Marks(s) \/ i + 1 \in Marks(s)
        BY <1>2
    <2>3. i \in Marks(s) => i + 1 \notin Marks(s)
        BY <1>3, <1>4, <2>1
    <2> QED BY <2>2, <2>3
<1>7. 1 <= Len(s) => 1 \notin Marks(s)
    <2>1. 0 + 1 = 1
        OBVIOUS
    <2>2. 1 \notin Marks(seg)
        BY <1>3, <2>1
    <2> QED BY <1>1, <1>4, <2>2
<1> HIDE DEF Marks
<1>8. /\ 2 <= Len(s) => 2 \in Marks(s)
      /\ 3 <= Len(s) => 3 \notin Marks(s)
      /\ 4 <= Len(s) => 4 \in Marks(s)
      /\ 5 <= Len(s) => 5 \notin Marks(s)
      /\ 6 <= Len(s) => 6 \in Marks(s)
    <2>1. 1 + 1 = 2 /\ 2 + 1 = 3 /\ 3 + 1 = 4 /\ 4 + 1 = 5 /\ 5 + 1 = 6
        OBVIOUS
    <2>2. 2 <= Len(s) => 2 \in Marks(s)
        BY <1>1, <1>6, <1>7, <2>1
    <2>3. 3 <= Len(s) => 3 \notin Marks(s)
        BY <1>1, <1>6, <2>1, <2>2
    <2>4. 4 <= Len(s) => 4 \in Marks(s)
        BY <1>1, <1>6, <2>1, <2>3
    <2>5. 5 <= Len(s) => 5 \notin Marks(s)
        BY <1>1, <1>6, <2>1, <2>4
    <2>6. 6 <= Len(s) => 6 \in Marks(s)
        BY <1>1, <1>6, <2>1, <2>5
    <2> QED BY <2>2, <2>3, <2>4, <2>5, <2>6
<1> QED BY <1>1, <1>5, <1>7, <1>8

\* A sequence of at most five tokens has at most three odd places.
LEMMA Odds ==
    ASSUME NEW n \in 0..5
    PROVE  /\ (n + 1) \div 2 \in 0..3
           /\ \A k \in 1..((n + 1) \div 2) : 2 * k - 1 \in 1..n
           /\ n \in {1, 3, 5} \/ (n + 1) \div 2 \in 0..2
           /\ n > 0 => (n + 1) \div 2 \in 1..3
<1>1. n = 0 \/ n = 1 \/ n = 2 \/ n = 3 \/ n = 4 \/ n = 5
    OBVIOUS
<1>2. /\ (0 + 1) \div 2 = 0 /\ (1 + 1) \div 2 = 1 /\ (2 + 1) \div 2 = 1
      /\ (3 + 1) \div 2 = 2 /\ (4 + 1) \div 2 = 2 /\ (5 + 1) \div 2 = 3
    OBVIOUS
<1> QED BY <1>1, <1>2

LEMMA StagesAre ==
    ASSUME NEW seg \in Segments, ~Malformed(seg)
    PROVE  Stages(seg) \in Seq(Words) /\ Len(Stages(seg)) \in 1..MaxStages
<1> DEFINE s == Plain(seg)
           cut == {i \in DOMAIN s : s[i] = ">"}
           c == CHOOSE i \in cut : TRUE
           graph == IF cut = {} THEN s ELSE SubSeq(s, 1, c - 1)
           n == Len(graph)
           words == [k \in 1..((Len(graph) + 1) \div 2) |-> graph[2 * k - 1]]
<1>1. /\ seg \in Seq(Words) /\ s \in Seq(Words) /\ Len(s) \in 0..Len(seg) /\ Len(seg) \in Nat
      /\ \A i \in 1..Len(s) : s[i] = seg[i] /\ s[i] \in Words
      /\ DOMAIN s = 1..Len(s) /\ DOMAIN seg = 1..Len(seg)
    BY PlainIs, LenProperties, ElementOfSeq
<1>2. \A i \in 1..Len(s) : /\ i \in {1, 3, 5} => s[i] \notin {"|", ">"}
                           /\ i \in {2, 4, 6} => s[i] \in {"|", ">"}
    BY TurnsTaken
<1>3. Stages(seg) = IF graph = <<>> \/ graph[n] = "|" THEN Append(words, "") ELSE words
    BY DEF Stages
<1>4. /\ graph \in Seq(Words) /\ n \in 0..Len(s)
      /\ \A i \in 1..n : graph[i] = s[i] /\ i \notin cut
    <2> HIDE DEF s
    <2>1. CASE cut = {}
        BY <1>1, <2>1
    <2>2. CASE cut # {}
        <3> HIDE DEF cut
        <3>1. c \in cut
            BY <2>2
        <3> HIDE DEF c
        <3>2. c \in 1..Len(s)
            BY <1>1, <3>1 DEF cut
        <3>3. graph = SubSeq(s, 1, c - 1)
            BY <2>2
        <3>4. \A i \in 1..(c - 1) : s[i] \in Words
            BY <1>1, <3>2
        <3>5. /\ graph \in Seq(Words) /\ n = c - 1
              /\ \A i \in 1..n : graph[i] = s[i]
            <4>1. /\ SubSeq(s, 1, c - 1) \in Seq(Words)
                  /\ Len(SubSeq(s, 1, c - 1)) = IF 1 <= c - 1 THEN (c - 1) - 1 + 1 ELSE 0
                  /\ \A i \in 1..((c - 1) - 1 + 1) : SubSeq(s, 1, c - 1)[i] = s[1 + i - 1]
                BY <3>2, <3>4, SubSeqProperties
            <4> HIDE DEF graph
            <4> QED BY <3>2, <3>3, <4>1
        <3>6. \A i \in cut : i = c
            <4> DEFINE redirects == {i \in Marks(seg) : seg[i] # "|"}
            <4>1. ~(Cardinality(redirects) > 1)
                <5>1. redirects = Marks(seg) \ {i \in Marks(seg) : seg[i] = "|"}
                    OBVIOUS
                <5> HIDE DEF redirects
                <5> QED BY <5>1 DEF Malformed
            <4>2. \A i \in cut : i \in redirects
                BY <1>1 DEF cut, Marks
            <4>3. IsFiniteSet(redirects)
                <5>1. redirects \subseteq 1..Len(seg)
                    BY <1>1 DEF Marks
                <5>2. IsFiniteSet(1..Len(seg))
                    BY <1>1, FS_Interval
                <5> HIDE DEF redirects
                <5> QED BY <5>1, <5>2, FS_Subset
            <4> HIDE DEF redirects
            <4>4. ASSUME NEW i \in cut, i # c PROVE FALSE
                <5>1. {i, c} \subseteq redirects
                    BY <3>1, <4>2
                <5>2. Cardinality({i, c}) = 2
                    <6>1. /\ Cardinality({i}) = 1 /\ IsFiniteSet({i})
                        BY FS_Singleton
                    <6>2. Cardinality({i} \union {c}) = Cardinality({i}) + 1
                        BY <4>4, <6>1, FS_AddElement
                    <6>3. {i} \union {c} = {i, c}
                        OBVIOUS
                    <6> QED BY <6>1, <6>2, <6>3
                <5>3. Cardinality({i, c}) <= Cardinality(redirects)
                    BY <4>3, <5>1, FS_Subset
                <5>4. Cardinality(redirects) \in Nat
                    BY <4>3, FS_CardinalityType
                <5> QED BY <4>1, <5>2, <5>3, <5>4
            <4> QED BY <4>4
        <3> HIDE DEF graph
        <3> QED BY <1>1, <3>2, <3>5, <3>6
    <2> QED BY <2>1, <2>2
<1>5. n <= 5
    <2> HIDE DEF graph
    <2> SUFFICES ASSUME n > 5 PROVE FALSE
        BY <1>1, <1>4
    <2> DEFINE pipes == {i \in Marks(seg) : seg[i] = "|"}
    <2>1. {2, 4, 6} \subseteq pipes
        <3> HIDE DEF s
        <3>1. ASSUME NEW i \in {2, 4, 6} PROVE i \in pipes
            <4>1. i \in 1..n /\ i \in 1..Len(s) /\ i \in 1..Len(seg)
                BY <1>1, <1>4
            <4>2. s[i] \in {"|", ">"} /\ s[i] # ">"
                BY <1>1, <1>2, <1>4, <4>1
            <4> QED BY <1>1, <4>1, <4>2 DEF Marks
        <3> QED BY <3>1
    <2>2. IsFiniteSet(pipes)
        <3>1. pipes \subseteq 1..Len(seg)
            BY <1>1 DEF Marks
        <3>2. IsFiniteSet(1..Len(seg))
            BY <1>1, FS_Interval
        <3> HIDE DEF pipes
        <3> QED BY <3>1, <3>2, FS_Subset
    <2>3. Cardinality({2, 4, 6}) = 3
        <3>1. Cardinality({2}) = 1 /\ IsFiniteSet({2})
            BY FS_Singleton
        <3>a. PICK S : S = {2}
            OBVIOUS
        <3>2. Cardinality(S \union {4}) = 2 /\ IsFiniteSet(S \union {4})
            <4>1. 4 \notin S /\ IsFiniteSet(S) /\ Cardinality(S) = 1
                BY <3>1, <3>a
            <4> QED BY <4>1, FS_AddElement
        <3>b. PICK R : R = S \union {4}
            OBVIOUS
        <3>3. Cardinality(R \union {6}) = 3
            <4>1. IsFiniteSet(R) /\ Cardinality(R) = 2
                BY <3>2, <3>b, Zenon
            <4>2. 6 \notin R
                BY <3>a, <3>b
            <4> QED BY <4>1, <4>2, FS_AddElement
        <3>4. R \union {6} = {2, 4, 6}
            BY <3>a, <3>b
        <3> QED BY <3>3, <3>4
    <2>4. ~(Cardinality(pipes) >= 3)
        BY Bounds DEF Malformed
    <2> HIDE DEF pipes
    <2>5. Cardinality({2, 4, 6}) <= Cardinality(pipes) /\ Cardinality(pipes) \in Nat
        BY <2>1, <2>2, FS_Subset, FS_CardinalityType
    <2> QED BY <2>3, <2>4, <2>5
<1> HIDE DEF s, cut, graph
<1> DEFINE h == (n + 1) \div 2
<1>6. /\ n \in 0..5 /\ h \in 0..3 /\ (\A k \in 1..h : 2 * k - 1 \in 1..n)
      /\ n \in {1, 3, 5} \/ h \in 0..2
      /\ n > 0 => h \in 1..3
    <2>1. n \in 0..5
        <3>1. n \in 0..Len(s) /\ Len(s) \in Nat /\ n <= 5
            BY <1>1, <1>4, <1>5
        <3> HIDE DEF n
        <3> QED BY <3>1
    <2> HIDE DEF n
    <2> QED BY <2>1, Odds
<1>7. words \in Seq(Words) /\ Len(words) = h
    <2> HIDE DEF h
    <2>1. \A i \in 1..n : graph[i] \in Words
        BY <1>1, <1>4
    <2>2. \A k \in 1..h : graph[2 * k - 1] \in Words
        BY <1>6, <2>1
    <2>3. words = [k \in 1..h |-> graph[2 * k - 1]]
        BY DEF h
    <2>4. h \in Nat
        BY <1>6
    <2> HIDE DEF words
    <2>5. words \in [1..h -> Words]
        BY <2>2, <2>3
    <2> QED BY <2>4, <2>5, IsASeq, LenProperties
<1> HIDE DEF words, h
<1>8. CASE graph = <<>> \/ graph[n] = "|"
    <2>1. "" \in Words
        BY DEF Words
    <2>2. h \in 0..2
        <3>1. CASE n = 0
            BY <1>6, <3>1
        <3>2. CASE n # 0
            <4>1. graph # <<>> /\ n \in 1..n
                BY <1>6, <3>2
            <4>2. s[n] = "|" /\ n \in 1..Len(s)
                BY <1>1, <1>4, <1>8, <4>1
            <4>3. n \notin {1, 3, 5}
                BY <1>2, <4>2
            <4> QED BY <1>6, <4>3
        <3> QED BY <3>1, <3>2
    <2>3. Append(words, "") \in Seq(Words) /\ Len(Append(words, "")) = h + 1
        BY <1>7, <2>1, AppendProperties
    <2>4. h + 1 \in 1..MaxStages
        BY <2>2, Bounds
    <2>5. Stages(seg) = Append(words, "")
        BY <1>3, <1>8
    <2> QED BY <2>3, <2>4, <2>5
<1>9. CASE ~(graph = <<>> \/ graph[n] = "|")
    <2>1. n # 0
        BY <1>4, <1>9, EmptySeq
    <2> QED BY <1>3, <1>6, <1>7, <1>9, <2>1, Bounds
<1> QED BY <1>8, <1>9

-----------------------------------------------------------------------------
(* Captures: one for a redirection, one more around a stage.               *)

NewCapture(size) == [size |-> size, text |-> NoText, overflow |-> FALSE]

\* The capture of the redirection is there when the plan has one.
Owns(s) ==
    IF s.to = None THEN s.caps = <<>>
    ELSE /\ Len(s.caps) = 1 /\ s.caps[1].size = RedirectSize
         /\ s.caps[1].text.bytes <= RedirectSize
\* Where the last stage writes, and whether it did not fit.
Out(s) == IF s.to = None THEN s.shown ELSE Top(s.caps).text
Lost(s) == s.to # None /\ Top(s.caps).overflow
\* Two states of the shell differ in their captures and in what is shown.
Rest(s, u) ==
    /\ u.pc = s.pc /\ u.words = s.words /\ u.to = s.to /\ u.at = s.at /\ u.input = s.input
    /\ u.pipes = s.pipes /\ u.result = s.result /\ u.failed = s.failed

LEMMA CapturedIs ==
    ASSUME NEW c \in Capture, c.text = NoText, ~c.overflow, NEW x \in Texts,
           NEW d, d = Captured(c, x)
    PROVE  /\ d \in Capture /\ d.size = c.size /\ d.text.bytes <= c.size
           /\ ~d.overflow => d.text = x
<1>1. NoText.bytes = 0 /\ NoText.lines = 0 /\ x.bytes \in Nat /\ x.lines \in Nat
    BY TextIs DEF NoText, Text
<1>2. CASE c.text.bytes + x.bytes <= c.size
    <2>1. d = [c EXCEPT !.text = Joined(NoText, x)]
        BY <1>2 DEF Captured, Capture
    <2>2. Joined(NoText, x) = x /\ x \in Cut
        BY JoinedText, TextIs DEF Texts, Cut
    <2>3. d = [c EXCEPT !.text = x]
        BY <2>1, <2>2
    <2> QED BY <1>1, <1>2, <2>2, <2>3 DEF Capture
<1>3. CASE ~(c.text.bytes + x.bytes <= c.size)
    <2> DEFINE y == Text(c.size, c.text.lines + x.lines)
    <2>1. d = [c EXCEPT !.text = y, !.overflow = TRUE]
        BY <1>3 DEF Captured, Capture
    <2>2. y \in Cut /\ y.bytes = c.size /\ c.size \in Nat
        BY <1>1 DEF Text, Capture, Cut
    <2> HIDE DEF y
    <2>3. d.size = c.size /\ d.text = y /\ d.overflow /\ d \in Capture
        BY <2>1, <2>2 DEF Capture
    <2> QED BY <2>2, <2>3
<1> QED BY <1>2, <1>3

\* A capture is pushed and written; ended, it leaves what was there.
Pushed(caps, c, d, a, b) == a = Append(caps, c) /\ b = [a EXCEPT ![Len(a)] = d]
Pops(caps, c, d, a, b) ==
    /\ a \in Seq(Capture) /\ b \in Seq(Capture) /\ Len(a) = Len(caps) + 1
    /\ Len(b) = Len(caps) + 1 /\ a # <<>> /\ b # <<>>
    /\ Top(a) = c /\ Top(b) = d
    /\ shell_capture_end(a) = caps /\ shell_capture_end(b) = caps

LEMMA CapturePops ==
    ASSUME NEW caps \in Seq(Capture), NEW c \in Capture, NEW d \in Capture,
           NEW a, NEW b, Pushed(caps, c, d, a, b)
    PROVE  Pops(caps, c, d, a, b)
<1> DEFINE n == Len(caps)
<1>1. /\ n \in Nat /\ \A i \in 1..n : caps[i] \in Capture
    BY LenProperties, ElementOfSeq
<1>2. /\ a \in Seq(Capture) /\ Len(a) = n + 1 /\ a[n + 1] = c
      /\ \A i \in 1..n : a[i] = caps[i]
    BY AppendProperties DEF Pushed
<1>3. n + 1 \in 1..Len(a) /\ DOMAIN a = 1..(n + 1)
    BY <1>1, <1>2, LenProperties
<1>4. /\ b \in Seq(Capture) /\ Len(b) = n + 1 /\ b[n + 1] = d
      /\ \A i \in 1..n : b[i] = caps[i]
    <2>1. b \in Seq(Capture) /\ Len(b) = Len(a)
        BY <1>1, <1>2, <1>3, ExceptSeq DEF Pushed
    <2>2. \A i \in 1..(n + 1) : b[i] = IF i = n + 1 THEN d ELSE a[i]
        BY <1>2, <1>3 DEF Pushed
    <2> HIDE DEF n
    <2> QED BY <1>1, <1>2, <2>1, <2>2
<1> HIDE DEF n
<1>5. ASSUME NEW q \in Seq(Capture), Len(q) = n + 1, \A i \in 1..n : q[i] = caps[i]
      PROVE  SubSeq(q, 1, n) = caps
    <2>1. \A i \in 1..n : q[i] \in Capture
        BY <1>1, <1>5
    <2>2. /\ SubSeq(q, 1, n) \in Seq(Capture)
          /\ Len(SubSeq(q, 1, n)) = IF 1 <= n THEN n - 1 + 1 ELSE 0
          /\ \A i \in 1..(n - 1 + 1) : SubSeq(q, 1, n)[i] = q[1 + i - 1]
        BY <1>1, <2>1, SubSeqProperties
    <2>3. Len(SubSeq(q, 1, n)) = n /\ \A i \in 1..n : SubSeq(q, 1, n)[i] = caps[i]
        BY <1>1, <1>5, <2>2
    <2>4. Len(caps) = n
        BY DEF n
    <2> QED BY <2>2, <2>3, <2>4, SeqEqual
<1>6. /\ Top(a) = c /\ Top(b) = d
    BY <1>2, <1>4 DEF Top
<1>7. (n + 1) - 1 = n
    BY <1>1
<1>8. shell_capture_end(a) = caps /\ shell_capture_end(b) = caps
    BY <1>2, <1>4, <1>5, <1>7 DEF shell_capture_end
<1>9. a # <<>> /\ b # <<>>
    BY <1>1, <1>2, <1>4, EmptySeq
<1> QED BY <1>2, <1>4, <1>6, <1>8, <1>9 DEF n, Pops

\* A stage alone, or the last one, writes to the redirection or the console.
LEMMA LastWrites ==
    ASSUME NEW s \in State, Owns(s), Out(s) = NoText, ~Lost(s), NEW x \in Texts,
           NEW u, u = out_write(s, x)
    PROVE  u \in State /\ Owns(u) /\ Rest(s, u) /\ (~Lost(u) => Out(u) = x)
<1>1. CASE s.to = None
    <2>1. s.caps = <<>>
        BY <1>1 DEF Owns
    <2>2. u = [s EXCEPT !.shown = Joined(s.shown, x)]
        BY <2>1 DEF out_write, State
    <2>3. Joined(s.shown, x) = x
        BY <1>1, JoinedText DEF Out
    <2>4. u = [s EXCEPT !.shown = x]
        BY <2>2, <2>3
    <2>5. u \in State /\ Rest(s, u) /\ u.caps = s.caps /\ u.shown = x
        BY <2>4 DEF State, Rest
    <2> QED BY <1>1, <2>1, <2>5 DEF Rest, Owns, Out, Lost
<1>2. CASE s.to # None
    <2>1. s.caps \in Seq(Capture) /\ Len(s.caps) = 1 /\ s.caps[1].size = RedirectSize
        BY <1>2 DEF Owns, State
    <2>2. s.caps # <<>> /\ 1 \in 1..Len(s.caps)
        BY <2>1, EmptySeq
    <2> DEFINE c == s.caps[1]
               d == Captured(c, x)
               caps == [s.caps EXCEPT ![1] = d]
    <2>3. c \in Capture /\ c.text = NoText /\ ~c.overflow
        BY <1>2, <2>1, <2>2, ElementOfSeq DEF Out, Lost, Top
    <2>4. /\ d \in Capture /\ d.size = c.size /\ d.text.bytes <= c.size
          /\ ~d.overflow => d.text = x
        BY <2>3, CapturedIs
    <2>5. u = [s EXCEPT !.caps = caps]
        BY <2>1, <2>2 DEF out_write, State
    <2> HIDE DEF d
    <2>6. caps \in Seq(Capture) /\ Len(caps) = 1 /\ caps[1] = d
        <3>1. caps \in Seq(Capture) /\ Len(caps) = Len(s.caps)
            BY <2>1, <2>2, <2>4, ExceptSeq
        <3>2. DOMAIN s.caps = 1..1
            BY <2>1, LenProperties
        <3> QED BY <2>1, <3>1, <3>2
    <2> HIDE DEF caps
    <2>7. u \in State /\ Rest(s, u) /\ u.caps = caps
        BY <2>5, <2>6 DEF State, Rest
    <2>8. Top(u.caps) = d
        BY <2>6, <2>7 DEF Top
    <2> QED BY <1>2, <2>1, <2>4, <2>6, <2>7, <2>8 DEF Rest, Owns, Out, Lost
<1> QED BY <1>1, <1>2

\* A stage before the last one writes to a capture of its own.
Piped(s, b, w, x) ==
    /\ b \in State /\ Rest(s, b) /\ b.shown = s.shown
    /\ w \in State /\ Rest(s, w) /\ w.shown = s.shown
    /\ shell_capture_end(b.caps) = s.caps /\ shell_capture_end(w.caps) = s.caps
    /\ Top(b.caps) \in Capture /\ Top(b.caps).text = NoText /\ ~Top(b.caps).overflow
    /\ Top(w.caps) \in Capture /\ Top(w.caps).text.bytes <= PipeBuffer
    /\ ~Top(w.caps).overflow => Top(w.caps).text = x

\* The capture around such a stage.
Nest(s) == [s EXCEPT !.caps = shell_capture_begin(@, PipeBuffer)]
Nested(s, b) == b = Nest(s)

LEMMA StageWrites ==
    ASSUME NEW s \in State, Owns(s), NEW x \in Texts,
           NEW b, Nested(s, b),
           NEW w, w = out_write(b, x)
    PROVE  Piped(s, b, w, x)
<1> DEFINE caps == s.caps
           c == NewCapture(PipeBuffer)
           d == Captured(c, x)
           a == Append(caps, c)
           e == [a EXCEPT ![Len(a)] = d]
<1>1. caps \in Seq(Capture) /\ ~(Len(caps) >= CaptureDepth)
    <2>1. Len(<<>>) = 0
        BY EmptySeq
    <2>2. caps = <<>> \/ Len(caps) = 1
        BY DEF Owns
    <2>3. Len(caps) = 0 \/ Len(caps) = 1
        BY <2>1, <2>2
    <2>4. caps \in Seq(Capture)
        BY DEF State
    <2>5. PICK m : m = Len(caps)
        OBVIOUS
    <2>a. m \in Nat /\ (m = 0 \/ m = 1)
        BY <2>3, <2>4, <2>5, LenProperties
    <2>6. ~(m >= 2)
        BY <2>a
    <2>7. CaptureDepth = 2
        BY Bounds
    <2> QED BY <2>4, <2>5, <2>6, <2>7
<1>2. c \in Capture /\ c.text = NoText /\ ~c.overflow /\ c.size = PipeBuffer
    BY Bounds, TextIs DEF NewCapture, Capture, Cut, Texts
<1>3. b = [s EXCEPT !.caps = a]
    BY <1>1 DEF shell_capture_begin, NewCapture, Nested, Nest, State
<1> HIDE DEF c
<1>4. d \in Capture /\ d.text.bytes <= PipeBuffer /\ (~d.overflow => d.text = x)
    BY <1>2, CapturedIs
<1> HIDE DEF d, a
<1>5. /\ a \in Seq(Capture) /\ e \in Seq(Capture) /\ Len(a) = Len(caps) + 1
      /\ Len(e) = Len(caps) + 1 /\ a # <<>> /\ e # <<>>
      /\ Top(a) = c /\ Top(e) = d
      /\ shell_capture_end(a) = caps /\ shell_capture_end(e) = caps
    <2>1. PICK p, q : p = a /\ q = e
        OBVIOUS
    <2>2. p = Append(caps, c) /\ q = [p EXCEPT ![Len(p)] = d]
        BY <2>1 DEF a
    <2> HIDE DEF e
    <2>a. PICK cs : cs = s.caps
        OBVIOUS
    <2>b. Pushed(cs, c, d, p, q) /\ cs \in Seq(Capture)
        BY <1>1, <2>2, <2>a DEF Pushed
    <2>3. Pops(cs, c, d, p, q)
        BY <1>2, <1>4, <2>b, CapturePops
    <2> QED BY <2>1, <2>3, <2>a DEF Pops
<1>6. b \in State /\ b.caps = a /\ Rest(s, b) /\ b.shown = s.shown
    BY <1>3, <1>5 DEF State, Rest
<1>7. w = [b EXCEPT !.caps = e]
    <2>1. a[Len(a)] = c
        BY <1>5 DEF Top
    <2>2. w = [b EXCEPT !.caps[Len(a)] = Captured(@, x)]
        BY <1>5, <1>6 DEF out_write
    <2>3. w = [b EXCEPT !.caps = [a EXCEPT ![Len(a)] = Captured(a[Len(a)], x)]]
        BY <1>6, <2>2 DEF State
    <2> QED BY <2>1, <2>3 DEF d
<1> HIDE DEF e
<1>8. w \in State /\ w.caps = e /\ Rest(s, w) /\ w.shown = s.shown
    BY <1>5, <1>6, <1>7 DEF State, Rest
<1> QED BY <1>2, <1>4, <1>5, <1>6, <1>8 DEF Piped

-----------------------------------------------------------------------------
(* The tables between the calls, and a first command that reads a file.    *)

\* Tables T and texts H of the files: what is open is what refused a write.
Agree(T, H) ==
    /\ P!Tidy(T)
    /\ H \in [FileIdx -> Texts] /\ \A f \in FileIdx : H[f].bytes = T.files[f].size
    /\ \A i \in OpenIdx : T.open[i].used => T.open[i].node \in {"zero", "proc"}
TablesKept == Agree(t, holds)

LEMMA ShellLives ==
    ASSUME P!Tidy(t)
    PROVE  t.proc[1].state # "FREE" /\ P!Sound(t) /\ P!Cleared(t) /\ P!PathsDiffer(t)
           /\ P!Filled(t, P!Everything)
BY DEF P!Tidy, P!Sound, P!Alive, P!ShellSlot

LEMMA Descriptors == \A r \in Fds \union {-2, -24, -28} : r \in Int /\ (~(r < 0) <=> r >= 0)
BY P!Sizes, Tables

LEMMA CatLeaves ==
    ASSUME TablesKept, NEW path \in TmpPaths
    PROVE  shell_vfs_cat(path).t = t /\ shell_vfs_cat(path).text \in Texts
<1>0. /\ t.proc[1].state # "FREE" /\ P!Sound(t) /\ P!Cleared(t) /\ P!Filled(t, P!Everything)
      /\ 1 \in {1} /\ path \in TmpPaths \union Devices /\ 256 \in Nat
    BY ShellLives DEF TablesKept, Agree
<1>1. PICK no \in BOOLEAN : no = FALSE
    OBVIOUS
<1>2. PICK O : O = P!VfsOpen(t, 1, path, no, no)
    OBVIOUS
<1>3. PICK R : R = P!VfsRead(O.t, 1, O.ret, CatLimit)
    OBVIOUS
<1> DEFINE i == O.t.fds[1][O.ret]
           text == IF O.t.open[i].node = "tmp" THEN holds[O.t.open[i].file] ELSE NoText
<1>4. shell_vfs_cat(path) =
        IF O.ret < 0 THEN [t |-> t, text |-> Outputs["unknown"]]
        ELSE [t |-> P!VfsClose(R.t, 1, O.ret).t, text |-> Joined(text, NewLine)]
    BY <1>1, <1>2, <1>3, SameOpen, SameRead, SameClose DEF shell_vfs_cat
<1>5. P!Opened(t, O, 1) /\ \E W : P!Filled(O.t, W)
    BY <1>0, <1>1, <1>2, P!OpenKeeps, Tables
<1>6. CASE O.ret < 0
    BY <1>4, <1>6, BufferAssumption
<1>7. CASE ~(O.ret < 0)
    <2>1. P!VfsClose(R.t, 1, O.ret).t = t
        BY <1>0, <1>1, <1>2, <1>3, <1>7, Bounds, P!ReadLeavesTables, Tables
    <2>2. i \in OpenIdx
        BY <1>5, <1>7, Descriptors DEF P!Opened
    <2>3. O.t.open[i].node = "tmp" => O.t.open[i].file \in FileIdx
        BY <1>5, <2>2 DEF P!Filled
    <2>4. text \in Texts
        BY <2>3, TextIs DEF TablesKept, Agree
    <2> HIDE DEF text
    <2> QED BY <1>4, <1>7, <2>1, <2>4, JoinedText, TextIs
<1> QED BY <1>6, <1>7

LEMMA CommandLeaves ==
    ASSUME TablesKept, NEW word
    PROVE  shell_command(word).t = t /\ shell_command(word).text \in Texts
<1>1. CASE word \in TmpPaths
    BY <1>1, CatLeaves DEF shell_command
<1>2. CASE word \notin TmpPaths
    BY <1>2, BufferAssumption DEF shell_command
<1> QED BY <1>1, <1>2

\* A command prints the same while the tables and files are the same.
LEMMA PrintsTheSame ==
    ASSUME t' = t, holds' = holds, NEW w
    PROVE  (shell_command(w).text)' = shell_command(w).text
BY DEF shell_command, shell_vfs_cat

-----------------------------------------------------------------------------
(* The plan of a segment, in state s of the shell: x is what the first     *)
(* command prints.                                                         *)

PlanOf(s, x) ==
    /\ s \in State /\ s.pipes = 0 /\ s.input.bytes <= PipeBuffer
    /\ s.pc = "read" => s.caps = <<>> /\ s.shown = NoText /\ s.result = 0
    /\ s.pc # "read" => Len(s.words) \in 1..3 /\ s.at \in 1..Len(s.words) /\ Owns(s)
    /\ s.pc \in {"command", "stage"} => s.result = 0 /\ Out(s) = NoText /\ ~Lost(s)
    /\ s.pc = "command" => s.at = 1
    /\ s.pc = "stage" => s.at >= 2 /\ s.input = Whole(s.words, x, s.at - 1)
    /\ s.pc = "finish" /\ s.result = 0 /\ ~Lost(s) => Out(s) = Whole(s.words, x, Len(s.words))

LEMMA TargetIs ==
    ASSUME NEW seg \in Segments
    PROVE  Target(seg) \in Words \union {None}
<1> DEFINE s == Plain(seg)
           cut == {i \in DOMAIN s : s[i] = ">"}
<1>1. s \in Seq(Words) /\ Len(s) \in Nat /\ DOMAIN s = 1..Len(s) /\ \A i \in 1..Len(s) : s[i] \in Words
    BY PlainIs, LenProperties, ElementOfSeq
<1>2. Target(seg) = IF cut = {} THEN None ELSE IF s[Len(s)] = ">" THEN "" ELSE s[Len(s)]
    BY DEF Target
<1>3. "" \in Words
    BY DEF Words
<1> HIDE DEF s
<1>4. cut # {} => s[Len(s)] \in Words
    <2> SUFFICES ASSUME cut # {} PROVE s[Len(s)] \in Words
        OBVIOUS
    <2>1. PICK i \in 1..Len(s) : TRUE
        BY <1>1
    <2>2. Len(s) \in 1..Len(s)
        BY <1>1, <2>1
    <2> QED BY <1>1, <2>2
<1> QED BY <1>2, <1>3, <1>4

\* The next segment: refused, or its plan begins.
Begins(s, seg) ==
    [s EXCEPT !.pc = "command", !.words = Stages(seg), !.to = Target(seg), !.at = 1,
              !.failed = FALSE,
              !.caps = IF Target(seg) = None THEN @ ELSE shell_capture_begin(@, RedirectSize)]

LEMMA BackToRead ==
    ASSUME NEW s \in State, s.pipes = 0, s.caps = <<>>, NEW failed \in BOOLEAN, NEW x,
           NEW u, u = Read(s, failed)
    PROVE  PlanOf(u, x) /\ u.caps = <<>> /\ u.failed = failed /\ u.pc = "read"
<1>1. NoText \in Cut /\ NoText \in Texts /\ NoText.bytes = 0
    BY TextIs DEF NoText, Text, Cut
<1>2. <<>> \in Seq(Words) /\ None \in Words \union {None} /\ 0 \in 0..MaxStages
    BY EmptySeq, Bounds
<1>3. u = [s EXCEPT !.pc = "read", !.words = <<>>, !.to = None, !.at = 0, !.input = NoText,
                    !.shown = NoText, !.result = 0, !.failed = failed]
    BY DEF Read
<1>4. /\ u \in State /\ u.pc = "read" /\ u.caps = s.caps /\ u.pipes = s.pipes /\ u.input = NoText
      /\ u.shown = NoText /\ u.result = 0 /\ u.failed = failed
    <2> HIDE DEF NoText
    <2> QED BY <1>1, <1>2, <1>3 DEF State
<1> QED BY <1>1, <1>4, Bounds DEF PlanOf

LEMMA BeginKeeps ==
    ASSUME NEW s, NEW y, PlanOf(s, y), s.pc = "read", NEW seg \in Segments, ~Malformed(seg),
           NEW x, NEW u, u = Begins(s, seg)
    PROVE  PlanOf(u, x)
<1>0. s \in State /\ s.pipes = 0 /\ s.input.bytes <= PipeBuffer /\ s.caps = <<>>
      /\ s.shown = NoText /\ s.result = 0
    BY DEF PlanOf
<1> DEFINE words == Stages(seg)
           to == Target(seg)
           c == NewCapture(RedirectSize)
           caps == IF to = None THEN s.caps ELSE shell_capture_begin(s.caps, RedirectSize)
<1>1. words \in Seq(Words) /\ Len(words) \in 1..3 /\ to \in Words \union {None}
    BY StagesAre, TargetIs, Bounds
<1>2. c \in Capture /\ c.text = NoText /\ ~c.overflow /\ c.size = RedirectSize
    BY Bounds, TextIs DEF NewCapture, Capture, Cut, Texts
<1>3. shell_capture_begin(s.caps, RedirectSize) = Append(s.caps, c)
    <2>1. Len(<<>>) = 0 /\ ~(0 >= CaptureDepth)
        BY EmptySeq, Bounds
    <2> QED BY <1>0, <2>1 DEF shell_capture_begin, NewCapture
<1> HIDE DEF c
<1>4. /\ Append(s.caps, c) \in Seq(Capture) /\ Len(Append(s.caps, c)) = 1
      /\ Append(s.caps, c)[1] = c
    <2>1. <<>> \in Seq(Capture) /\ Len(<<>>) = 0
        BY EmptySeq
    <2> QED BY <1>0, <1>2, <2>1, AppendProperties
<1>5. caps \in Seq(Capture) /\ (to = None => caps = <<>>)
      /\ (to # None => Len(caps) = 1 /\ caps[1] = c)
    BY <1>0, <1>3, <1>4, EmptySeq
<1>6. u = [s EXCEPT !.pc = "command", !.words = words, !.to = to, !.at = 1,
                    !.failed = FALSE, !.caps = caps]
    BY <1>0 DEF Begins, State
<1> HIDE DEF words, to, caps
<1>7. /\ u \in State /\ u.pc = "command" /\ u.words = words /\ u.to = to /\ u.at = 1
      /\ u.caps = caps /\ u.pipes = 0 /\ u.input = s.input /\ u.result = 0 /\ u.shown = NoText
    <2>1. PICK w, ta, cs : w = words /\ ta = to /\ cs = caps
        OBVIOUS
    <2>2. u = [s EXCEPT !.pc = "command", !.words = w, !.to = ta, !.at = 1, !.failed = FALSE,
                        !.caps = cs]
        BY <1>6, <2>1
    <2>3. w \in Seq(Words) /\ ta \in Words \union {None} /\ cs \in Seq(Capture) /\ 1 \in 0..MaxStages
        BY <1>1, <1>5, <2>1, Bounds
    <2>4. /\ u \in State /\ u.pc = "command" /\ u.words = w /\ u.to = ta /\ u.at = 1
          /\ u.caps = cs /\ u.pipes = s.pipes /\ u.input = s.input /\ u.result = s.result
          /\ u.shown = s.shown
        BY <1>0, <2>2, <2>3 DEF State
    <2> QED BY <1>0, <2>1, <2>4
<1>8. Owns(u) /\ Out(u) = NoText /\ ~Lost(u)
    <2>1. CASE to = None
        BY <1>5, <1>7, <2>1 DEF Owns, Out, Lost
    <2>2. CASE to # None
        <3>1. Top(caps) = c
            BY <1>5, <2>2 DEF Top
        <3>2. c.text.bytes <= RedirectSize
            BY <1>2, Bounds DEF NoText, Text
        <3> QED BY <1>2, <1>5, <1>7, <2>2, <3>1, <3>2 DEF Owns, Out, Lost
    <2> QED BY <2>1, <2>2
<1>9. 1 \in 1..Len(u.words) /\ Len(u.words) \in 1..3
    <2>1. PICK n \in 1..3 : n = Len(words)
        BY <1>1
    <2>2. 1 \in 1..n
        OBVIOUS
    <2> QED BY <1>7, <2>1, <2>2
<1> QED BY <1>0, <1>7, <1>8, <1>9 DEF PlanOf

\* A capture that has ended: its text is the input of the next stage.
Ended(w) == [w EXCEPT !.caps = shell_capture_end(@), !.input = Top(w.caps).text]
\* e has the captures of s and all but its input.
Back(s, e) ==
    /\ e \in State /\ e.caps = s.caps /\ e.shown = s.shown
    /\ e.pc = s.pc /\ e.words = s.words /\ e.to = s.to /\ e.at = s.at
    /\ e.pipes = s.pipes /\ e.result = s.result

LEMMA EndedIs ==
    ASSUME NEW s \in State, NEW b, NEW w, NEW x, Piped(s, b, w, x), NEW e, e = Ended(w)
    PROVE  Back(s, e) /\ e.input = Top(w.caps).text
<1> DEFINE y == Top(w.caps).text
           caps == shell_capture_end(w.caps)
<1>1. w \in State /\ Rest(s, w) /\ w.shown = s.shown /\ caps = s.caps /\ y \in Cut
    BY DEF Piped, Capture
<1>2. e = [w EXCEPT !.caps = caps, !.input = y]
    BY DEF Ended, State, Piped
<1> HIDE DEF y, caps
<1>3. caps \in Seq(Capture)
    BY <1>1 DEF State
<1>4. /\ e \in State /\ e.caps = caps /\ e.input = y /\ e.shown = w.shown /\ e.pc = w.pc
      /\ e.words = w.words /\ e.to = w.to /\ e.at = w.at /\ e.pipes = w.pipes
      /\ e.result = w.result
    BY <1>1, <1>2, <1>3 DEF State
<1> QED BY <1>1, <1>4 DEF y, State, Rest, Back

LEMMA BackOwns ==
    ASSUME NEW s, NEW e, Back(s, e), Owns(s)
    PROVE  Owns(e) /\ Out(e) = Out(s) /\ (Lost(e) <=> Lost(s))
BY DEF Back, Owns, Out, Lost

\* A plan that goes on, and one that comes to its end.
Onward(e, at) == [e EXCEPT !.pc = "stage", !.at = at]

LEMMA Continues ==
    ASSUME NEW s, NEW x, PlanOf(s, x), s.pc \in {"command", "stage"}, NEW e, Back(s, e),
           NEW at \in 2..3, at <= Len(s.words), e.input.bytes <= PipeBuffer,
           e.input = Whole(s.words, x, at - 1), NEW u, u = Onward(e, at)
    PROVE  PlanOf(u, x) /\ u.words = s.words
<1>1. /\ u \in State /\ u.input = e.input /\ u.pc = "stage" /\ u.at = at
      /\ u.caps = e.caps /\ u.shown = e.shown /\ u.words = e.words /\ u.to = e.to
      /\ u.pipes = e.pipes /\ u.result = e.result
    <2>1. e \in State /\ at \in 0..MaxStages
        BY Bounds DEF Back
    <2> QED BY <2>1 DEF Onward, State
<1>2. /\ u.caps = s.caps /\ u.shown = s.shown /\ u.words = s.words /\ u.to = s.to
      /\ u.pipes = s.pipes /\ u.result = s.result
    BY <1>1 DEF Back
<1>3. Owns(u) /\ Out(u) = NoText /\ ~Lost(u)
    BY <1>2 DEF PlanOf, Owns, Out, Lost
<1>4. PICK n \in 1..3 : n = Len(s.words)
    BY DEF PlanOf
<1>5. at \in 1..n
    BY <1>4
<1> QED BY <1>1, <1>2, <1>3, <1>4, <1>5 DEF PlanOf

LEMMA Finishes ==
    ASSUME NEW s, NEW x, PlanOf(s, x), s.pc \in {"command", "stage"},
           NEW e \in State, Owns(e), e.words = s.words, e.at = s.at, e.pipes = 0,
           e.input.bytes <= PipeBuffer, NEW code \in {0, -11, -12, -22, -28},
           code = 0 /\ ~Lost(e) => Out(e) = Whole(s.words, x, Len(s.words)),
           NEW u, u = Fails(e, code)
    PROVE  PlanOf(u, x) /\ u.words = s.words
<1>1. u = [e EXCEPT !.pc = "finish", !.result = code]
    BY DEF Fails
<1>2. /\ u \in State /\ u.caps = e.caps /\ u.shown = e.shown /\ u.words = e.words /\ u.to = e.to
      /\ u.at = e.at /\ u.pipes = e.pipes /\ u.input = e.input /\ u.pc = "finish" /\ u.result = code
    BY <1>1 DEF State
<1>3. Owns(u) /\ Out(u) = Out(e) /\ (Lost(u) <=> Lost(e))
    BY <1>2 DEF Owns, Out, Lost
<1> QED BY <1>2, <1>3 DEF PlanOf

\* FirstCommand, in state s; x is what it prints.
FirstDone(s, x) ==
    LET alone == out_write(s, x)
        piped == out_write(Nest(s), x)
    IN  IF s.at = Len(s.words) THEN [alone EXCEPT !.pc = "finish"]
        ELSE IF Top(piped.caps).overflow THEN Fails(Ended(piped), -28)
        ELSE Onward(Ended(piped), 2)

LEMMA CommandKeeps ==
    ASSUME NEW s, NEW x \in Texts, PlanOf(s, x), s.pc = "command", NEW u, u = FirstDone(s, x)
    PROVE  PlanOf(u, x) /\ u.words = s.words
<1>0. /\ s \in State /\ s.pipes = 0 /\ s.input.bytes <= PipeBuffer /\ Owns(s) /\ s.result = 0
      /\ Out(s) = NoText /\ ~Lost(s) /\ s.at = 1 /\ Len(s.words) \in 1..3
    BY DEF PlanOf
<1>1. PICK a : a = out_write(s, x)
    OBVIOUS
<1>2. PICK b : Nested(s, b)
    BY DEF Nested
<1>3. PICK w : w = out_write(b, x)
    OBVIOUS
<1>4. PICK e : e = Ended(w)
    OBVIOUS
<1>5. u = IF s.at = Len(s.words) THEN [a EXCEPT !.pc = "finish"]
          ELSE IF Top(w.caps).overflow THEN Fails(e, -28)
          ELSE Onward(e, 2)
    BY <1>1, <1>2, <1>3, <1>4 DEF FirstDone, Nested
<1>6. CASE s.at = Len(s.words)
    <2>1. a \in State /\ Owns(a) /\ Rest(s, a) /\ (~Lost(a) => Out(a) = x)
        BY <1>0, <1>1, LastWrites
    <2>2. [a EXCEPT !.pc = "finish"] = Fails(a, 0)
        <3>1. a.result = 0
            BY <1>0, <2>1 DEF Rest
        <3> QED BY <2>1, <3>1 DEF Fails, State
    <2>3. u = Fails(a, 0)
        BY <1>5, <1>6, <2>2
    <2>4. Whole(s.words, x, Len(s.words)) = x
        BY <1>0, <1>6 DEF Whole
    <2>5. a.words = s.words /\ a.at = s.at /\ a.pipes = 0 /\ a.input.bytes <= PipeBuffer
        BY <1>0, <2>1 DEF Rest
    <2> QED BY <2>1, <2>3, <2>4, <2>5, Finishes
<1>7. CASE s.at # Len(s.words)
    <2>1. Piped(s, b, w, x)
        BY <1>0, <1>2, <1>3, StageWrites
    <2>2. Back(s, e) /\ e.input = Top(w.caps).text
        BY <1>0, <1>4, <2>1, EndedIs
    <2>3. e.input.bytes <= PipeBuffer
        BY <2>1, <2>2 DEF Piped
    <2>4. CASE Top(w.caps).overflow
        <3>1. u = Fails(e, -28)
            BY <1>5, <1>7, <2>4
        <3>2. Owns(e) /\ e \in State /\ e.words = s.words /\ e.at = s.at /\ e.pipes = 0
            BY <1>0, <2>2, BackOwns DEF Back
        <3> QED BY <2>3, <3>1, <3>2, Finishes
    <2>5. CASE ~Top(w.caps).overflow
        <3>1. u = Onward(e, 2)
            BY <1>5, <1>7, <2>5
        <3>2. e.input = Whole(s.words, x, 2 - 1)
            BY <2>1, <2>2, <2>5 DEF Piped, Whole
        <3>3. 2 <= Len(s.words)
            <4>1. PICK n \in 1..3 : n = Len(s.words)
                BY <1>0
            <4>2. n # 1 => 2 <= n
                OBVIOUS
            <4> QED BY <1>0, <1>7, <4>1, <4>2
        <3> QED BY <2>2, <2>3, <3>1, <3>2, <3>3, Continues
    <2> QED BY <2>4, <2>5
<1> QED BY <1>6, <1>7

\* PipeStage, in state s; other holders have taken some of the objects.
Held(s) == [s EXCEPT !.pipes = @ + 1]
Closed(e) == [e EXCEPT !.pipes = @ - 1]
Advanced(c) == [c EXCEPT !.at = @ + 1]
StageDone(s, others) ==
    LET word == s.words[s.at]
        last == s.at = Len(s.words)
        begun == IF last THEN Held(s) ELSE Nest(Held(s))
        code == IF word \in Filters THEN 0 ELSE -22
        ran == IF code = 0 THEN out_write(begun, Filtered(word, s.input)) ELSE begun
        ended == IF last THEN ran ELSE Ended(ran)
        closed == Closed(ended)
    IN  IF others + s.pipes >= Objects THEN Fails(s, -12)
        ELSE IF s.input.bytes > IpcData THEN Fails(s, -11)
        ELSE IF ~last /\ Top(ran.caps).overflow THEN Fails(closed, -28)
        ELSE IF code # 0 \/ last THEN Fails(closed, code)
        ELSE Advanced(closed)

\* The pipe of a stage is held, and closed again.
Holding(s, h) == h = Held(s)

LEMMA HoldingIs ==
    ASSUME NEW s \in State, s.pipes = 0, NEW h, Holding(s, h)
    PROVE  /\ h \in State /\ h.pipes = 1 /\ h.caps = s.caps /\ h.shown = s.shown /\ h.to = s.to
           /\ h.pc = s.pc /\ h.words = s.words /\ h.at = s.at /\ h.input = s.input
           /\ h.result = s.result
           /\ Owns(s) => Owns(h)
           /\ Out(h) = Out(s) /\ (Lost(h) <=> Lost(s))
<1>1. /\ h \in State /\ h.pipes = 1 /\ h.caps = s.caps /\ h.shown = s.shown /\ h.to = s.to
      /\ h.pc = s.pc /\ h.words = s.words /\ h.at = s.at /\ h.input = s.input
      /\ h.result = s.result
    BY DEF Holding, Held, State
<1> QED BY <1>1 DEF Owns, Out, Lost

LEMMA ClosedIs ==
    ASSUME NEW e \in State, e.pipes = 1, NEW c, c = Closed(e)
    PROVE  /\ c \in State /\ c.pipes = 0 /\ c.caps = e.caps /\ c.shown = e.shown /\ c.to = e.to
           /\ c.pc = e.pc /\ c.words = e.words /\ c.at = e.at /\ c.input = e.input
           /\ c.result = e.result
           /\ Owns(e) => Owns(c)
           /\ Out(c) = Out(e) /\ (Lost(c) <=> Lost(e))
<1>1. /\ c \in State /\ c.pipes = 0 /\ c.caps = e.caps /\ c.shown = e.shown /\ c.to = e.to
      /\ c.pc = e.pc /\ c.words = e.words /\ c.at = e.at /\ c.input = e.input
      /\ c.result = e.result
    BY DEF Closed, State
<1> QED BY <1>1 DEF Owns, Out, Lost

LEMMA StageKeeps ==
    ASSUME NEW s, NEW x \in Texts, PlanOf(s, x), s.pc = "stage", NEW others,
           NEW u, u = StageDone(s, others)
    PROVE  PlanOf(u, x) /\ u.words = s.words
<1>0. /\ s \in State /\ s.pipes = 0 /\ s.input.bytes <= PipeBuffer /\ Owns(s) /\ s.result = 0
      /\ Out(s) = NoText /\ ~Lost(s) /\ s.at >= 2 /\ Len(s.words) \in 1..3
      /\ s.at \in 1..Len(s.words) /\ s.input = Whole(s.words, x, s.at - 1)
    BY DEF PlanOf
<1> DEFINE word == s.words[s.at]
           code == IF word \in Filters THEN 0 ELSE -22
           f == Filtered(word, s.input)
<1>1. PICK n \in 1..3 : n = Len(s.words) /\ s.at \in 2..n
    <2>1. PICK n \in 1..3 : n = Len(s.words)
        BY <1>0
    <2>2. s.at \in 2..n
        BY <1>0, <2>1
    <2> QED BY <2>1, <2>2
<1>2. f \in Texts /\ f = Whole(s.words, x, s.at)
    <2>1. Whole(s.words, x, s.at - 1) \in Texts
        BY WholeText
    <2>2. s.at \in 2..3
        <3>1. 2..n \subseteq 2..3
            OBVIOUS
        <3> QED BY <1>1, <3>1
    <2> QED BY <1>0, <2>1, <2>2, FilteredText, WholeNext
<1>3. PICK h : Holding(s, h)
    BY DEF Holding
<1>4. /\ h \in State /\ h.pipes = 1 /\ h.caps = s.caps /\ h.shown = s.shown /\ h.to = s.to
      /\ h.pc = s.pc /\ h.words = s.words /\ h.at = s.at /\ h.input = s.input
      /\ h.result = s.result /\ Owns(h) /\ Out(h) = NoText /\ ~Lost(h)
    BY <1>0, <1>3, HoldingIs
<1> HIDE DEF word, f
<1>5. CASE s.at = n
    <2>1. PICK r : r = IF code = 0 THEN out_write(h, f) ELSE h
        OBVIOUS
    <2>2. PICK c : c = Closed(r)
        OBVIOUS
    <2>3. \/ u = Fails(s, -12) \/ u = Fails(s, -11) \/ u = Fails(c, code)
        BY <1>1, <1>3, <1>5, <2>1, <2>2 DEF StageDone, Holding, word, f
    <2>4. /\ r \in State /\ Owns(r) /\ r.pipes = 1 /\ r.words = s.words /\ r.at = s.at
          /\ r.input = s.input /\ (code = 0 /\ ~Lost(r) => Out(r) = f)
        <3>1. CASE code = 0
            <4>1. r = out_write(h, f)
                BY <2>1, <3>1
            <4>2. r \in State /\ Owns(r) /\ Rest(h, r) /\ (~Lost(r) => Out(r) = f)
                BY <1>2, <1>4, <4>1, LastWrites
            <4> QED BY <1>4, <4>2 DEF Rest
        <3>2. CASE code # 0
            BY <1>4, <2>1, <3>2
        <3> QED BY <3>1, <3>2
    <2>5. /\ c \in State /\ Owns(c) /\ c.pipes = 0 /\ c.words = s.words /\ c.at = s.at
          /\ c.input = s.input /\ (code = 0 /\ ~Lost(c) => Out(c) = Whole(s.words, x, Len(s.words)))
        BY <1>1, <1>2, <1>5, <2>2, <2>4, ClosedIs
    <2>6. code \in {0, -11, -12, -22, -28}
        OBVIOUS
    <2> HIDE DEF code
    <2>7. CASE u = Fails(c, code)
        BY <1>0, <2>5, <2>6, <2>7, Finishes
    <2>8. CASE u = Fails(s, -12)
        BY <1>0, <2>8, Finishes
    <2>9. CASE u = Fails(s, -11)
        BY <1>0, <2>9, Finishes
    <2> QED BY <2>3, <2>7, <2>8, <2>9
<1>6. CASE s.at # n
    <2>1. PICK b : Nested(h, b)
        BY DEF Nested
    <2>2. PICK w : w = out_write(b, f)
        OBVIOUS
    <2>3. PICK r : r = IF code = 0 THEN w ELSE b
        OBVIOUS
    <2>4. PICK e : e = Ended(r)
        OBVIOUS
    <2>5. PICK c : c = Closed(e)
        OBVIOUS
    <2>6. \/ u = Fails(s, -12) \/ u = Fails(s, -11) \/ u = Fails(c, -28)
          \/ code # 0 /\ u = Fails(c, code)
          \/ code = 0 /\ ~Top(r.caps).overflow /\ u = Advanced(c)
        <3>1. ~(s.at = Len(s.words)) /\ h = Held(s) /\ b = Nest(h)
            BY <1>1, <1>3, <1>6, <2>1 DEF Holding, Nested
        <3>2. r = IF code = 0 THEN out_write(Nest(Held(s)), f) ELSE Nest(Held(s))
            BY <2>2, <2>3, <3>1
        <3> QED BY <2>4, <2>5, <3>1, <3>2 DEF StageDone, word, f
    <2>7. Piped(h, b, w, f)
        BY <1>2, <1>4, <2>1, <2>2, StageWrites
    <2>8. \E y : Piped(h, b, r, y) /\ (code = 0 => y = f)
        <3>1. CASE code = 0
            BY <2>3, <2>7, <3>1
        <3>2. CASE code # 0
            <4>1. Piped(h, b, b, NoText)
                BY <2>7, Bounds DEF Piped, NoText, Text
            <4> QED BY <2>3, <3>2, <4>1
        <3> QED BY <3>1, <3>2
    <2>9. Back(h, e) /\ e.input = Top(r.caps).text
        BY <1>4, <2>4, <2>8, EndedIs
    <2>10. e.input.bytes <= PipeBuffer /\ (code = 0 /\ ~Top(r.caps).overflow => e.input = f)
        BY <2>8, <2>9 DEF Piped
    <2>11. e \in State /\ e.pipes = 1 /\ Owns(e)
        BY <1>4, <2>9, BackOwns DEF Back
    <2>12. /\ c \in State /\ c.pipes = 0 /\ c.caps = s.caps /\ c.shown = s.shown /\ c.to = s.to
           /\ c.pc = s.pc /\ c.words = s.words /\ c.at = s.at /\ c.input = e.input
           /\ c.result = s.result /\ Owns(c)
        BY <1>4, <2>5, <2>9, <2>11, ClosedIs DEF Back
    <2>13. Back(s, c) /\ c.input.bytes <= PipeBuffer
        BY <1>0, <2>10, <2>12 DEF Back
    <2>14. code \in {0, -11, -12, -22, -28}
        OBVIOUS
    <2>15. CASE code = 0 /\ ~Top(r.caps).overflow /\ u = Advanced(c)
        <3>1. PICK m \in 2..3 : m = s.at + 1 /\ m <= Len(s.words)
            <4>1. \A k \in 2..n : k # n => k + 1 \in 2..3 /\ k + 1 <= n
                OBVIOUS
            <4> QED BY <1>1, <1>6, <4>1
        <3>2. u = Onward(c, m)
            <4>1. c.pc = "stage" /\ c.at + 1 = m
                BY <2>12, <3>1
            <4> QED BY <2>12, <2>15, <4>1 DEF Advanced, Onward, State
        <3>3. c.input = Whole(s.words, x, m - 1)
            <4>1. m - 1 = s.at
                BY <1>1, <3>1
            <4> QED BY <1>2, <2>10, <2>12, <2>15, <4>1
        <3> HIDE DEF code
        <3> QED BY <2>13, <3>1, <3>2, <3>3, Continues
    <2> HIDE DEF code
    <2>16. CASE code # 0 /\ u = Fails(c, code)
        BY <2>12, <2>13, <2>14, <2>16, Finishes
    <2>17. CASE u = Fails(c, -28)
        BY <2>12, <2>13, <2>17, Finishes
    <2>18. CASE u = Fails(s, -12)
        BY <1>0, <2>18, Finishes
    <2>19. CASE u = Fails(s, -11)
        BY <1>0, <2>19, Finishes
    <2> QED BY <2>6, <2>15, <2>16, <2>17, <2>18, <2>19
<1> QED BY <1>5, <1>6

-----------------------------------------------------------------------------
(* The inductive invariant and its steps.                                  *)

Printed == shell_command(sh.words[1]).text
Plan == PlanOf(sh, Printed)
IInv == TablesKept /\ Plan

LEMMA InitKeeps == Init => IInv
<1> SUFFICES ASSUME Init PROVE IInv
    OBVIOUS
<1>1. P!Init /\ holds = [f \in FileIdx |-> NoText]
    BY SameInit DEF Init
<1>2. P!IInv
    BY <1>1, P!InitSound, Tables
<1>3. /\ \A i \in OpenIdx : t.open[i] = P!FreeOpen
      /\ \A f \in FileIdx : t.files[f] = P!FreeFile
    BY <1>1 DEF P!Init
<1>4. P!Tidy(t)
    <2>1. P!Sound(t) /\ P!Filled(t, [f \in FileIdx |-> {}])
        BY <1>2 DEF P!IInv
    <2>2. P!Filled(t, P!Everything)
        BY <2>1, P!FilledAnyhow, Tables DEF P!Sound
    <2> QED BY <1>3, <2>1, <2>2 DEF P!Tidy, P!Cleared, P!PathsDiffer, P!FreeFile
<1>5. TablesKept
    <2>1. holds \in [FileIdx -> Texts]
        BY <1>1, TextIs
    <2>2. \A f \in FileIdx : holds[f].bytes = t.files[f].size
        BY <1>1, <1>3 DEF NoText, Text, P!FreeFile
    <2>3. \A i \in OpenIdx : ~t.open[i].used
        BY <1>3 DEF P!FreeOpen
    <2> QED BY <1>4, <2>1, <2>2, <2>3 DEF TablesKept, Agree
<1>6. Plan
    <2>1. sh = [pc |-> "read", words |-> <<>>, to |-> None, at |-> 0, input |-> NoText,
                caps |-> <<>>, shown |-> NoText, pipes |-> 0, result |-> 0, failed |-> FALSE]
        BY DEF Init
    <2>2. NoText \in Cut /\ NoText \in Texts /\ NoText.bytes = 0 /\ 0 \in 0..MaxStages
          /\ <<>> \in Seq(Words) /\ <<>> \in Seq(Capture)
        BY TextIs, Bounds, EmptySeq DEF NoText, Text, Cut
    <2>3. sh \in State
        BY <2>1, <2>2 DEF State
    <2>4. sh.pc = "read" /\ sh.pipes = 0 /\ sh.input = NoText /\ sh.caps = <<>> /\ sh.shown = NoText
          /\ sh.result = 0
        BY <2>1
    <2> QED BY <2>2, <2>3, <2>4, Bounds DEF Plan, PlanOf
<1> QED BY <1>5, <1>6 DEF IInv

LEMMA SameTablesKept ==
    ASSUME TablesKept, t' = t, holds' = holds
    PROVE  TablesKept'
BY DEF TablesKept

LEMMA ExecuteKeeps ==
    ASSUME IInv, NEW seg \in Segments, shell_execute(seg)
    PROVE  IInv' /\ sh.pc = "read"
<1>1. sh.pc = "read" /\ UNCHANGED <<t, holds>>
      /\ sh' = IF Malformed(seg) \/ (Background(seg) /\ Stages(seg)[1] # "run")
               THEN Read(sh, TRUE)
               ELSE Begins(sh, seg)
    BY DEF shell_execute, Begins
<1>2. TablesKept'
    BY <1>1, SameTablesKept DEF IInv
<1>3. PICK s, u, x, y : s = sh /\ u = sh' /\ y = Printed /\ x = Printed'
    OBVIOUS
<1>4. PlanOf(s, y) /\ s.pc = "read"
    BY <1>1, <1>3 DEF IInv, Plan
<1>5. CASE u = Read(s, TRUE)
    <2>1. PICK failed \in BOOLEAN : failed = TRUE
        OBVIOUS
    <2>2. s \in State /\ s.pipes = 0 /\ s.caps = <<>> /\ u = Read(s, failed)
        BY <1>4, <1>5, <2>1 DEF PlanOf
    <2>3. PlanOf(u, x)
        BY <2>2, BackToRead
    <2> QED BY <1>1, <1>2, <1>3, <2>3 DEF IInv, Plan
<1>6. CASE ~Malformed(seg) /\ u = Begins(s, seg)
    <2>1. PlanOf(u, x)
        BY <1>4, <1>6, BeginKeeps
    <2> QED BY <1>1, <1>2, <1>3, <2>1 DEF IInv, Plan
<1> QED BY <1>1, <1>3, <1>5, <1>6

LEMMA CommandStep ==
    ASSUME IInv, FirstCommand
    PROVE  IInv' /\ sh.pc = "command"
<1> DEFINE R == shell_command(sh.words[1])
<1>0. PICK word : word = sh.words[1]
    OBVIOUS
<1>1. sh.pc = "command" /\ t' = R.t /\ holds' = holds /\ sh' = FirstDone(sh, R.text)
    BY DEF FirstCommand, FirstDone, Last, Nest, Ended, Onward
<1>2. R.t = t /\ R.text \in Texts
    BY CommandLeaves DEF IInv
<1>3. TablesKept' /\ (shell_command(word).text)' = shell_command(word).text
    BY <1>1, <1>2, SameTablesKept, PrintsTheSame DEF IInv
<1>4. PICK s, u, x : s = sh /\ u = sh' /\ x = Printed
    OBVIOUS
<1>5. PlanOf(s, x) /\ s.pc = "command" /\ u = FirstDone(s, x) /\ x \in Texts
    BY <1>1, <1>2, <1>4 DEF IInv, Plan, Printed
<1>6. PlanOf(u, x) /\ u.words = s.words
    BY <1>5, CommandKeeps
<1>7. Printed' = x
    <2>1. sh'.words[1] = word
        BY <1>0, <1>4, <1>6
    <2> QED BY <1>0, <1>3, <1>4, <2>1 DEF Printed
<1> QED BY <1>1, <1>3, <1>4, <1>6, <1>7 DEF IInv, Plan

LEMMA StageStep ==
    ASSUME IInv, PipeStage
    PROVE  IInv' /\ sh.pc = "stage"
<1>0. PICK word : word = sh.words[1]
    OBVIOUS
<1>1. sh.pc = "stage" /\ t' = t /\ holds' = holds /\ \E others \in 0..Objects : sh' = StageDone(sh, others)
    BY DEF PipeStage, StageDone, Last, Nest, Ended, Advanced, Held, Closed
<1>3. TablesKept' /\ (shell_command(word).text)' = shell_command(word).text
    BY <1>1, SameTablesKept, PrintsTheSame DEF IInv
<1>4. PICK s, u, x : s = sh /\ u = sh' /\ x = Printed
    OBVIOUS
<1>a. PICK others : u = StageDone(s, others)
    BY <1>1, <1>4
<1>5. PlanOf(s, x) /\ s.pc = "stage" /\ x \in Texts
    BY <1>1, <1>4, CommandLeaves DEF IInv, Plan, Printed
<1>6. PlanOf(u, x) /\ u.words = s.words
    BY <1>5, <1>a, StageKeeps
<1>7. Printed' = x
    <2>1. sh'.words[1] = word
        BY <1>0, <1>4, <1>6
    <2> QED BY <1>0, <1>3, <1>4, <2>1 DEF Printed
<1> QED BY <1>1, <1>3, <1>4, <1>6, <1>7 DEF IInv, Plan

\* What the end of a redirection leaves, K, when U are the tables after it.
Landed(O, text) ==
    [f \in FileIdx |->
        IF O.ret >= 0 /\ O.t.open[O.t.fds[1][O.ret]].node = "tmp"
                      /\ O.t.open[O.t.fds[1][O.ret]].file = f
        THEN text
        ELSE IF O.t.files[f].size = 0 THEN NoText ELSE holds[f]]
\* The text is in its file when open and write did not fail, and else nowhere.
Landing(O, R, U, K, path, text) ==
    /\ Agree(U, K)
    /\ ~(O.ret >= 0 /\ R.ret = text.bytes) => \A f \in FileIdx : K[f] \in {holds[f], NoText}
    /\ O.ret >= 0 /\ R.ret = text.bytes =>
         \A f \in FileIdx : K[f] = IF U.files[f].used /\ U.files[f].path = path THEN text ELSE holds[f]

LEMMA RedirectLands ==
    ASSUME TablesKept, NEW path \in TmpPaths \union Devices, NEW text \in Texts,
           NEW n, n = text.bytes,
           NEW O, NEW R, NEW U, P!Leaves(t, O, R, U, 1, path, n), O.ret < 0 => U = O.t,
           ~(O.ret < 0) <=> O.ret >= 0, NEW K, K = Landed(O, text)
    PROVE  Landing(O, R, U, K, path, text)
<1> DEFINE o == O.t.open[O.t.fds[1][O.ret]]
<1>0. /\ P!Tidy(t) /\ holds \in [FileIdx -> Texts]
      /\ \A f \in FileIdx : holds[f].bytes = t.files[f].size
      /\ \A i \in OpenIdx : t.open[i].used => t.open[i].node \in {"zero", "proc"}
    BY DEF TablesKept, Agree
<1>1. t.files \in [FileIdx -> P!File]
    BY <1>0, P!Fields, Tables DEF P!Tidy, P!Sound
<1>2. \A f \in FileIdx : K[f] = IF O.ret >= 0 /\ o.node = "tmp" /\ o.file = f THEN text
                                ELSE IF O.t.files[f].size = 0 THEN NoText ELSE holds[f]
    BY DEF Landed
<1>3. K \in [FileIdx -> Texts]
    BY <1>0, TextIs DEF Landed
<1>4. P!Tidy(U) /\ \A i \in OpenIdx : U.open[i].used => U.open[i].node \in {"zero", "proc"}
    BY <1>0 DEF P!Leaves
<1>5. \A f \in FileIdx : O.t.files[f] = t.files[f] =>
            holds[f] = IF O.t.files[f].size = 0 THEN NoText ELSE holds[f]
    BY <1>0, TextIs
<1>6. CASE O.ret < 0
    <2>1. \A f \in FileIdx : O.t.files[f] = t.files[f] \/ O.t.files[f].size = 0
        BY <1>6 DEF P!Leaves
    <2>2. \A f \in FileIdx : K[f] = IF O.t.files[f].size = 0 THEN NoText ELSE holds[f]
        BY <1>2, <1>6
    <2>3. \A f \in FileIdx : K[f].bytes = U.files[f].size
        <3>1. NoText.bytes = 0 /\ U = O.t
            BY <1>6 DEF NoText, Text
        <3> QED BY <1>0, <2>1, <2>2, <3>1
    <2> QED BY <1>3, <1>4, <1>6, <2>2, <2>3 DEF Landing, Agree
<1>7. CASE ~(O.ret < 0) /\ path \in Devices
    <2>1. o.node = path /\ O.t.files = t.files /\ U.files = t.files /\ path # "tmp"
        BY <1>7, Tables DEF P!Leaves, P!TableAssumption
    <2>2. \A f \in FileIdx : K[f] = holds[f]
        BY <1>2, <1>5, <2>1
    <2>3. \A f \in FileIdx : U.files[f].path # path
        BY <1>1, <1>7, <2>1, Tables DEF P!File, P!TableAssumption
    <2> QED BY <1>0, <1>3, <1>4, <2>1, <2>2, <2>3 DEF Landing, Agree
<1>8. CASE ~(O.ret < 0) /\ path \in TmpPaths
    <2> DEFINE g == o.file
    <2>1. /\ o.node = "tmp" /\ g \in FileIdx /\ R.ret = n
          /\ O.t.files = [t.files EXCEPT ![g] = P!Emptied(path)]
          /\ U.files = [t.files EXCEPT ![g] = [P!Emptied(path) EXCEPT !.size = n]]
        BY <1>8, Tables DEF P!Leaves, P!Holds, P!TableAssumption
    <2> HIDE DEF o, g
    <2>2. U.files[g].used /\ U.files[g].path = path /\ U.files[g].size = n
        BY <1>1, <2>1 DEF P!Emptied
    <2>3. \A f \in FileIdx : f # g => U.files[f] = t.files[f] /\ O.t.files[f] = t.files[f]
        BY <1>1, <2>1
    <2>4. K[g] = text
        BY <1>2, <1>8, <2>1 DEF g
    <2>5. \A f \in FileIdx : f # g => K[f] = holds[f]
        BY <1>2, <1>5, <2>3 DEF g
    <2>6. \A f \in FileIdx : U.files[f].used /\ U.files[f].path = path => f = g
        BY <1>4, <2>1, <2>2 DEF P!Tidy, P!PathsDiffer
    <2>7. \A f \in FileIdx : K[f].bytes = U.files[f].size
        BY <1>0, <2>2, <2>3, <2>4, <2>5
    <2>8. Agree(U, K)
        BY <1>3, <1>4, <2>7 DEF Agree
    <2> QED BY <1>8, <2>1, <2>2, <2>4, <2>5, <2>6, <2>8 DEF Landing
<1> QED BY <1>6, <1>7, <1>8

\* What WholeOrReported says of the step at the end of a segment.
Delivers ==
    LET whole == Meaning(sh.words, Printed) IN
    IF sh'.failed
    THEN \A f \in FileIdx : holds'[f] \in {holds[f], NoText}
    ELSE IF sh.to = None THEN sh.shown = whole
    ELSE \A f \in FileIdx :
            holds'[f] = IF t'.files[f].used /\ t'.files[f].path = sh.to THEN whole ELSE holds[f]

LEMMA FinishedPlan ==
    ASSUME IInv, sh.pc = "finish"
    PROVE  /\ sh \in State /\ sh.pipes = 0 /\ Owns(sh) /\ Printed \in Texts
           /\ sh.result = 0 /\ ~Lost(sh) => Out(sh) = Meaning(sh.words, Printed) /\ Out(sh) \in Texts
<1>1. PICK s, x : s = sh /\ x = Printed
    OBVIOUS
<1>2. PlanOf(s, x) /\ s.pc = "finish" /\ x \in Texts
    BY <1>1, CommandLeaves DEF IInv, Plan, Printed
<1>3. /\ s \in State /\ s.pipes = 0 /\ Owns(s) /\ Len(s.words) \in 1..3
      /\ s.result = 0 /\ ~Lost(s) => Out(s) = Whole(s.words, x, Len(s.words))
    BY <1>2 DEF PlanOf
<1>4. PICK n \in 1..3 : n = Len(s.words)
    BY <1>3
<1>5. Meaning(s.words, x) = Whole(s.words, x, n)
    BY <1>4, MeaningIs
<1>6. Whole(s.words, x, n) \in Texts
    BY <1>2, WholeText
<1> QED BY <1>1, <1>2, <1>3, <1>4, <1>5, <1>6

LEMMA PlainStep ==
    ASSUME IInv, FinishPlain
    PROVE  IInv' /\ sh.pc = "finish" /\ Delivers
<1>1. sh.pc = "finish" /\ sh.to = None /\ sh' = Read(sh, sh.result # 0) /\ t' = t /\ holds' = holds
    BY DEF FinishPlain
<1>2. /\ sh \in State /\ sh.pipes = 0 /\ sh.caps = <<>>
      /\ sh.result = 0 => sh.shown = Meaning(sh.words, Printed)
    <2>1. /\ sh \in State /\ sh.pipes = 0 /\ Owns(sh)
          /\ sh.result = 0 /\ ~Lost(sh) => Out(sh) = Meaning(sh.words, Printed) /\ Out(sh) \in Texts
        BY <1>1, FinishedPlan
    <2>2. ~Lost(sh) /\ sh.caps = <<>> /\ Out(sh) = sh.shown
        BY <1>1, <2>1 DEF Lost, Owns, Out
    <2> QED BY <2>1, <2>2
<1>3. PICK failed \in BOOLEAN : failed = (sh.result # 0)
    OBVIOUS
<1>4. PICK s, u, x : s = sh /\ u = sh' /\ x = Printed'
    OBVIOUS
<1>5. PlanOf(u, x) /\ u.failed = failed
    <2>1. s \in State /\ s.pipes = 0 /\ s.caps = <<>> /\ u = Read(s, failed)
        BY <1>1, <1>2, <1>3, <1>4
    <2> QED BY <2>1, BackToRead
<1>6. TablesKept'
    BY <1>1, SameTablesKept DEF IInv
<1>7. Delivers
    <2>1. CASE failed
        BY <1>1, <1>4, <1>5, <2>1 DEF Delivers
    <2>2. CASE ~failed
        BY <1>1, <1>2, <1>3, <1>4, <1>5, <2>2 DEF Delivers
    <2> QED BY <2>1, <2>2
<1> QED BY <1>1, <1>4, <1>5, <1>6, <1>7 DEF IInv, Plan

\* The capture of the redirection is ended.
EndCapture(s) == [s EXCEPT !.caps = shell_capture_end(@)]

LEMMA EndCaptureIs ==
    ASSUME NEW s \in State, Owns(s), s.to # None, s.pipes = 0, NEW d, d = EndCapture(s)
    PROVE  d \in State /\ d.pipes = 0 /\ d.caps = <<>>
<1>1. s.caps \in Seq(Capture) /\ Len(s.caps) = 1
    BY DEF Owns, State
<1>2. SubSeq(s.caps, 1, 0) = <<>>
    BY <1>1, SubSeqEmpty
<1>3. shell_capture_end(s.caps) = <<>>
    BY <1>1, <1>2 DEF shell_capture_end
<1>4. d = [s EXCEPT !.caps = <<>>]
    BY <1>3 DEF EndCapture, State
<1>5. <<>> \in Seq(Capture)
    BY EmptySeq
<1> QED BY <1>4, <1>5 DEF State

\* FinishRedirect when there is a whole output.
Opening(path) ==
    IF path \in TmpPaths \union Devices THEN V!VfsOpen(t, 1, path, TRUE, TRUE) ELSE V!Ret(t, -22)
Redirected ==
    LET top == Top(sh.caps)
        O == Opening(sh.to)
        W == V!VfsWrite(O.t, 1, O.ret, top.text.bytes)
        whole == O.ret >= 0 /\ W.ret = top.text.bytes
    IN  /\ sh.result = 0 /\ ~top.overflow
        /\ sh' = Read(EndCapture(sh), ~whole)
        /\ t' = IF O.ret < 0 THEN O.t ELSE IF whole THEN V!VfsClose(W.t, 1, O.ret).t ELSE W.t
        /\ holds' = Landed(O, top.text)

\* From the opening O of the target: the write R, the tables U and the texts K.
Ends(O, R, U, K, path, text, whole) ==
    /\ R = V!VfsWrite(O.t, 1, O.ret, text.bytes)
    /\ whole = (O.ret >= 0 /\ R.ret = text.bytes)
    /\ K = Landed(O, text)
    /\ U = IF O.ret < 0 THEN O.t ELSE IF whole THEN V!VfsClose(R.t, 1, O.ret).t ELSE R.t
\* A redirection delivers the whole text, or leaves the files, perhaps emptied.
Arrives(U, K, path, text, whole) ==
    /\ Agree(U, K)
    /\ ~whole => \A f \in FileIdx : K[f] \in {holds[f], NoText}
    /\ whole => \A f \in FileIdx : K[f] = IF U.files[f].used /\ U.files[f].path = path
                                          THEN text ELSE holds[f]

LEMMA RedirectTables ==
    ASSUME TablesKept, NEW path \in TmpPaths \union Devices, NEW text \in Texts,
           text.bytes \in Nat, text.bytes <= FileData,
           NEW O, O = Opening(path), NEW R, NEW U, NEW K, NEW whole \in BOOLEAN,
           Ends(O, R, U, K, path, text, whole)
    PROVE  Arrives(U, K, path, text, whole)
<1>1. t.proc[1].state # "FREE" /\ P!Sound(t) /\ P!Filled(t, P!Everything) /\ P!Tidy(t) /\ 1 \in {1}
    BY ShellLives DEF TablesKept, Agree
<1>2. O = P!VfsOpen(t, 1, path, TRUE, TRUE)
    BY SameOpen DEF Opening
<1>3. O.ret \in Fds \union {-2, -24, -28}
    <2>1. PICK yes \in BOOLEAN : yes = TRUE
        OBVIOUS
    <2>2. P!Opened(t, O, 1)
        BY <1>1, <1>2, <2>1, P!OpenKeeps, Tables
    <2> QED BY <2>2 DEF P!Opened
<1>4. ~(O.ret < 0) <=> O.ret >= 0
    BY <1>3, Descriptors
<1>5. PICK n \in Nat : n = text.bytes /\ n <= FileData
    OBVIOUS
<1>6. PICK C : C = P!VfsClose(R.t, 1, O.ret).t
    OBVIOUS
<1>7. P!Redirects(t, 1, path, n, O, R, C, U)
    <2>1. R = P!VfsWrite(O.t, 1, O.ret, n)
        BY <1>5, SameWrite DEF Ends
    <2>2. U = IF O.ret < 0 THEN O.t ELSE IF R.ret = n THEN C ELSE R.t
        BY <1>4, <1>5, <1>6, SameClose DEF Ends
    <2> QED BY <1>2, <1>6, <2>1, <2>2 DEF P!Redirects
<1>8. P!Leaves(t, O, R, U, 1, path, n)
    BY <1>1, <1>5, <1>7, P!RedirectLeaves, Tables
<1>9. O.ret < 0 => U = O.t
    BY DEF Ends
<1>10. K = Landed(O, text) /\ (whole <=> O.ret >= 0 /\ R.ret = text.bytes)
    BY DEF Ends
<1>11. Landing(O, R, U, K, path, text)
    BY <1>4, <1>5, <1>8, <1>9, <1>10, RedirectLands
<1> QED BY <1>10, <1>11 DEF Landing, Arrives

\* A redirection to no path at all fails.
LEMMA NoRedirect ==
    ASSUME TablesKept, NEW path, path \notin TmpPaths \union Devices, NEW text,
           NEW O, O = Opening(path), NEW R, NEW U, NEW K, NEW whole \in BOOLEAN,
           Ends(O, R, U, K, path, text, whole)
    PROVE  Arrives(U, K, path, text, whole)
<1>1. O.ret = -22 /\ O.t = t
    BY DEF Opening, V!Ret
<1>a. O.ret < 0 /\ ~(O.ret >= 0)
    BY <1>1
<1>b. U = t
    BY <1>1, <1>a DEF Ends
<1>c. whole <=> O.ret >= 0 /\ R.ret = text.bytes
    BY DEF Ends
<1>2. U = t /\ ~whole
    BY <1>a, <1>b, <1>c
<1>3. \A f \in FileIdx : K[f] = IF t.files[f].size = 0 THEN NoText ELSE holds[f]
    BY <1>1 DEF Ends, Landed
<1>4. \A f \in FileIdx : K[f] = holds[f]
    BY <1>3, TextIs DEF TablesKept, Agree
<1>5. K \in [FileIdx -> Texts]
    BY <1>4 DEF Ends, Landed, TablesKept, Agree
<1>6. Agree(U, K)
    BY <1>2, <1>4, <1>5 DEF TablesKept, Agree
<1> QED BY <1>2, <1>4, <1>6 DEF Arrives

LEMMA RedirectStep ==
    ASSUME IInv, FinishRedirect
    PROVE  IInv' /\ sh.pc = "finish" /\ Delivers
<1> DEFINE path == sh.to
           text == Top(sh.caps).text
<1>1. sh.pc = "finish" /\ sh.to # None
    BY DEF FinishRedirect
<1>2. /\ sh \in State /\ sh.pipes = 0 /\ Owns(sh)
      /\ sh.result = 0 /\ ~Lost(sh) => Out(sh) = Meaning(sh.words, Printed) /\ Out(sh) \in Texts
    BY <1>1, FinishedPlan
<1>3. PICK d : d = EndCapture(sh)
    OBVIOUS
<1>4. d \in State /\ d.pipes = 0 /\ d.caps = <<>>
    <2>1. PICK s : s = sh
        OBVIOUS
    <2> QED BY <1>1, <1>2, <1>3, <2>1, EndCaptureIs
<1>5. PICK u, x : u = sh' /\ x = Printed'
    OBVIOUS
<1>6. ASSUME NEW failed \in BOOLEAN, sh' = Read(d, failed)
      PROVE  Plan' /\ sh'.failed = failed
    <2>1. u = Read(d, failed)
        BY <1>5, <1>6
    <2>2. PlanOf(u, x) /\ u.failed = failed
        BY <1>4, <2>1, BackToRead
    <2> QED BY <1>5, <2>2 DEF Plan
<1>7. CASE sh' = Read(d, TRUE) /\ t' = t /\ holds' = holds
    <2>1. PICK failed \in BOOLEAN : failed = TRUE
        OBVIOUS
    <2>2. Plan' /\ sh'.failed
        BY <1>6, <1>7, <2>1
    <2>3. TablesKept'
        BY <1>7, SameTablesKept DEF IInv
    <2> QED BY <1>1, <1>7, <2>2, <2>3 DEF IInv, Delivers
<1>8. ASSUME Redirected
      PROVE  IInv' /\ Delivers
    <2>1. /\ sh.result = 0 /\ ~Lost(sh) /\ text \in Texts /\ text = Meaning(sh.words, Printed)
          /\ text.bytes \in Nat /\ text.bytes <= FileData
        <3>1. sh.result = 0 /\ ~Lost(sh)
            BY <1>8 DEF Redirected, Lost
        <3>2. Out(sh) = text
            BY <1>1 DEF Out
        <3>3. text.bytes <= RedirectSize
            <4>1. Len(sh.caps) = 1 /\ sh.caps[1].text.bytes <= RedirectSize
                BY <1>1, <1>2 DEF Owns
            <4> QED BY <4>1 DEF Top
        <3>4. text \in Texts /\ text = Meaning(sh.words, Printed)
            BY <1>2, <3>1, <3>2
        <3> QED BY <3>1, <3>3, <3>4, BufferAssumption, TextIs, Bounds
    <2>2. PICK O, R : O = Opening(path) /\ R = V!VfsWrite(O.t, 1, O.ret, text.bytes)
        OBVIOUS
    <2>3. PICK whole \in BOOLEAN : whole = (O.ret >= 0 /\ R.ret = text.bytes)
        OBVIOUS
    <2> HIDE DEF text, path
    <2>4. /\ sh' = Read(d, ~whole) /\ holds' = Landed(O, text)
          /\ t' = IF O.ret < 0 THEN O.t ELSE IF whole THEN V!VfsClose(R.t, 1, O.ret).t ELSE R.t
        BY <1>3, <1>8, <2>2, <2>3 DEF Redirected, EndCapture, path, text
    <2>5. Plan' /\ sh'.failed = ~whole
        <3>1. PICK failed \in BOOLEAN : failed = ~whole
            OBVIOUS
        <3> QED BY <1>6, <2>4, <3>1
    <2>6. /\ Agree(t', holds')
          /\ ~whole => \A f \in FileIdx : holds'[f] \in {holds[f], NoText}
          /\ whole => \A f \in FileIdx : holds'[f] = IF t'.files[f].used /\ t'.files[f].path = path
                                                     THEN text ELSE holds[f]
        <3>1. PICK U, K, p, q : U = t' /\ K = holds' /\ p = path /\ q = text
            OBVIOUS
        <3>2. Ends(O, R, U, K, p, q, whole) /\ O = Opening(p) /\ TablesKept
            BY <2>2, <2>3, <2>4, <3>1 DEF Ends, IInv
        <3>3. q \in Texts /\ q.bytes \in Nat /\ q.bytes <= FileData
            BY <2>1, <3>1
        <3>4. CASE p \in TmpPaths \union Devices
            <4>1. Arrives(U, K, p, q, whole)
                BY <3>2, <3>3, <3>4, RedirectTables
            <4> QED BY <3>1, <4>1 DEF Arrives
        <3>5. CASE p \notin TmpPaths \union Devices
            <4>1. Arrives(U, K, p, q, whole)
                BY <3>2, <3>5, NoRedirect
            <4> QED BY <3>1, <4>1 DEF Arrives
        <3> QED BY <3>4, <3>5
    <2>7. TablesKept'
        BY <2>6 DEF TablesKept
    <2>8. Delivers
        <3>1. CASE whole
            BY <1>1, <2>1, <2>5, <2>6, <3>1 DEF Delivers, path
        <3>2. CASE ~whole
            BY <2>5, <2>6, <3>2 DEF Delivers
        <3> QED BY <3>1, <3>2
    <2> QED BY <2>5, <2>7, <2>8 DEF IInv
<1> QED BY <1>1, <1>3, <1>7, <1>8 DEF FinishRedirect, EndCapture, Redirected, Opening, Landed

\* Every step keeps the invariant, and the one that ends a plan delivers.
LEMMA NextKeeps == IInv /\ [Next]_vars => IInv' /\ (sh.pc = "finish" => Delivers \/ UNCHANGED vars)
<1> SUFFICES ASSUME IInv, [Next]_vars
             PROVE  IInv' /\ (sh.pc = "finish" => Delivers \/ UNCHANGED vars)
    OBVIOUS
<1>1. ASSUME NEW seg \in Segments, shell_execute(seg) PROVE IInv' /\ sh.pc # "finish"
    BY <1>1, ExecuteKeeps
<1>2. CASE FirstCommand
    BY <1>2, CommandStep
<1>3. CASE PipeStage
    BY <1>3, StageStep
<1>4. CASE FinishPlain
    BY <1>4, PlainStep
<1>5. CASE FinishRedirect
    BY <1>5, RedirectStep
<1>6. CASE UNCHANGED vars
    <2>1. t' = t /\ holds' = holds /\ sh' = sh
        BY <1>6 DEF vars
    <2>2. TablesKept'
        BY <2>1, SameTablesKept DEF IInv
    <2>3. PICK word : word = sh.words[1]
        OBVIOUS
    <2>4. (shell_command(word).text)' = shell_command(word).text
        BY <2>1, PrintsTheSame
    <2>5. Plan'
        BY <2>1, <2>3, <2>4 DEF IInv, Plan, Printed
    <2> QED BY <1>6, <2>2, <2>5 DEF IInv
<1> QED BY <1>1, <1>2, <1>3, <1>4, <1>5, <1>6 DEF Next

LEMMA Invariant == Spec => []IInv
<1>1. Init => IInv
    BY InitKeeps
<1>2. IInv /\ [Next]_vars => IInv'
    BY NextKeeps
<1> QED BY <1>1, <1>2, PTL DEF Spec

LEMMA InvariantMeans == IInv => ShellSound
<1> SUFFICES ASSUME IInv PROVE ShellSound
    OBVIOUS
<1>1. PICK s, x : s = sh /\ x = Printed /\ PlanOf(s, x)
    BY DEF IInv, Plan
<1>2. /\ s \in State /\ s.pipes = 0 /\ s.input.bytes <= PipeBuffer
      /\ s.pc = "read" => s.caps = <<>>
      /\ s.pc # "read" => Owns(s)
    BY <1>1 DEF PlanOf
<1>3. Agree(t, holds)
    BY DEF IInv, TablesKept
<1>4. Len(s.caps) \in 0..CaptureDepth
    <2>1. Len(<<>>) = 0
        BY EmptySeq
    <2>2. Len(s.caps) = 0 \/ Len(s.caps) = 1
        BY <1>2, <2>1 DEF Owns
    <2>3. 0 \in 0..CaptureDepth /\ 1 \in 0..CaptureDepth
        BY Bounds
    <2> QED BY <2>2, <2>3
<1>5. s.input.bytes <= IpcData
    BY <1>2, Bounds
<1>6. 0 \in 0..Objects
    BY BufferAssumption
<1>7. TypeOK
    <2>1. /\ s.pc \in {"read", "command", "stage", "finish"} /\ s.at \in 0..MaxStages
          /\ s.failed \in BOOLEAN
        BY <1>2 DEF State
    <2> QED BY <1>1, <1>2, <1>3, <1>4, <1>5, <1>6, <2>1 DEF TypeOK, Agree
<1>8. SegmentGivesBack
    <2>1. V!RefsExact /\ V!CountsExact
        BY <1>3, SoundCounts DEF Agree, P!Tidy
    <2> QED BY <1>1, <1>2, <1>3, <2>1 DEF SegmentGivesBack, Agree
<1> QED BY <1>7, <1>8 DEF ShellSound

-----------------------------------------------------------------------------
(* The theorems.                                                           *)

\* A segment gives back its captures and its pipe, and leaves open only the
\* descriptors of redirections to nodes that refuse the write; reference
\* counts and counters of the file tables stay exact.
THEOREM SegmentsGiveBack == Spec => []ShellSound
<1>1. IInv => ShellSound
    BY InvariantMeans
<1> QED BY <1>1, Invariant, PTL

\* A segment that reports no error has delivered the whole text its pipeline
\* means, to the console or to the file; one that fails leaves every file as
\* it was, or empty.
THEOREM TextsArriveWhole == Spec => WholeOrReported
<1> DEFINE Arrived ==
        (sh.pc = "finish" /\ sh'.pc = "read") =>
            LET whole == Meaning(sh.words, shell_command(sh.words[1]).text) IN
            IF sh'.failed
            THEN \A f \in FileIdx : holds'[f] \in {holds[f], NoText}
            ELSE IF sh.to = None THEN sh.shown = whole
            ELSE \A f \in FileIdx :
                    holds'[f] = IF t'.files[f].used /\ t'.files[f].path = sh.to THEN whole ELSE holds[f]
<1>1. IInv /\ [Next]_vars => [Arrived]_vars
    BY NextKeeps DEF Delivers, Printed
<1> QED BY <1>1, Invariant, PTL DEF Spec, WholeOrReported
====
