---- MODULE Sched_proofs ----
(***************************************************************************)
(* Proofs about the scheduler for every task table, quantum, window, sleep *)
(* time and tickless step.                                                 *)
(*                                                                         *)
(* The argument is by the state of the run queues k alone.  Every function *)
(* of the kernel takes well-formed run queues to well-formed run queues    *)
(* (Good): the ready queues hold exactly the READY real-time tasks, and    *)
(* the sleep queue is a list without repetition of tasks that may sleep.   *)
(* Each kernel function has its lemma; an action only combines them.       *)
(*                                                                         *)
(* On top of it, TimeInv is about the choice of the scheduler and the tick *)
(* accounts: which class is on the CPU unless a switch has been asked for  *)
(* (Ordered), which generators may be READY (Loaded, Slow), and what they  *)
(* have used (Spent).                                                      *)
(*                                                                         *)
(* The refinement of SleepTimers maps a sleeper to its prefix sum.  Each   *)
(* function has a second lemma for it: which sleepers it takes out, and    *)
(* that nobody else's time changes (Stopped).                              *)
(***************************************************************************)
EXTENDS Sched, SequenceTheorems, FiniteSetTheorems, WellFoundedInduction, TLAPS

-----------------------------------------------------------------------------
(***************************************************************************)
(* What the list operations behind the ready queues and the sleep queue    *)
(* return: an element leaves, an element enters, the head moves to the     *)
(* tail.  The kernel keeps these lists without repetition.                 *)
(***************************************************************************)

Injective(s) == \A i, j \in DOMAIN s : s[i] = s[j] => i = j

\* Every nonempty set of naturals has a least element: the form of induction
\* used below.
LEMMA LeastNatural ==
    ASSUME NEW T \in SUBSET Nat, T # {}
    PROVE  \E m \in T : \A j \in T : m =< j
<1>1. \E m \in T : \A j \in T : ~ (<<j, m>> \in OpToRel(<, Nat))
    BY NatLessThanWellFounded, WFMin
<1>2. \A j, m \in Nat : <<j, m>> \in OpToRel(<, Nat) <=> j < m
    BY DEF OpToRel
<1>3. PICK m \in T : \A j \in T : ~ (<<j, m>> \in OpToRel(<, Nat))
    BY <1>1
<1>4. ASSUME NEW j \in T PROVE m =< j
    <2>1. j \in Nat /\ m \in Nat
        OBVIOUS
    <2>2. ~ (j < m)
        BY <2>1, <1>2, <1>3
    <2> QED BY <2>1, <2>2
<1> QED BY <1>4

\* Taking out the element at position m.
LEMMA RemoveAtSeq ==
    ASSUME NEW S, NEW s \in Seq(S), NEW m \in 1..Len(s)
    PROVE  /\ RemoveAt(s, m) \in Seq(S)
           /\ Len(RemoveAt(s, m)) = Len(s) - 1
           /\ \A i \in 1..Len(s)-1 :
                 RemoveAt(s, m)[i] = IF i < m THEN s[i] ELSE s[i+1]
<1> DEFINE u == SubSeq(s, 1, m-1)
           v == SubSeq(s, m+1, Len(s))
<1>0. Len(s) \in Nat /\ \A i \in 1..Len(s) : s[i] \in S
    BY ElementOfSeq, LenProperties
<1>1. /\ u \in Seq(S) /\ Len(u) = m-1
      /\ \A i \in 1..m-1 : u[i] = s[i]
    <2>1. \A i \in 1..m-1 : s[i] \in S
        BY <1>0
    <2>2. /\ u \in Seq(S) /\ Len(u) = IF 1 <= m-1 THEN m-1 ELSE 0
          /\ \A i \in 1..(m-1)-1+1 : u[i] = s[1+i-1]
        BY <2>1, SubSeqProperties, <1>0
    <2> QED BY <2>2
<1>2. /\ v \in Seq(S) /\ Len(v) = Len(s) - m
      /\ \A i \in 1..Len(s)-m : v[i] = s[m+i]
    <2>1. \A i \in m+1..Len(s) : s[i] \in S
        BY <1>0
    <2>2. /\ v \in Seq(S) /\ Len(v) = IF m+1 <= Len(s) THEN Len(s)-(m+1)+1 ELSE 0
          /\ \A i \in 1..Len(s)-(m+1)+1 : v[i] = s[(m+1)+i-1]
        BY <2>1, SubSeqProperties, <1>0
    <2> QED BY <2>2, <1>0
<1>3. /\ u \o v \in Seq(S)
      /\ Len(u \o v) = Len(u) + Len(v)
      /\ \A i \in 1..Len(u)+Len(v) :
            (u \o v)[i] = IF i <= Len(u) THEN u[i] ELSE v[i - Len(u)]
    BY <1>1, <1>2, ConcatProperties
<1>4. RemoveAt(s, m) = u \o v
    BY DEF RemoveAt
<1> HIDE DEF u, v
<1>5. \A i \in 1..Len(s)-1 : (u \o v)[i] = IF i < m THEN s[i] ELSE s[i+1]
    <2> TAKE i \in 1..Len(s)-1
    <2>1. CASE i < m
        BY <2>1, <1>0, <1>1, <1>2, <1>3
    <2>2. CASE i >= m
        <3>1. (u \o v)[i] = v[i-(m-1)] /\ i-(m-1) \in 1..Len(s)-m
            BY <2>2, <1>0, <1>1, <1>2, <1>3
        <3>2. v[i-(m-1)] = s[m+(i-(m-1))]
            BY <3>1, <1>2
        <3> QED BY <2>2, <3>1, <3>2, <1>0
    <2>3. i < m \/ i >= m
        BY <1>0
    <2> QED BY <2>1, <2>2, <2>3
<1>6. Len(u \o v) = Len(s) - 1
    BY <1>0, <1>1, <1>2, <1>3
<1> QED BY <1>3, <1>4, <1>5, <1>6

\* Removing the first occurrence from a list without repetition removes the
\* element and nothing else.
LEMMA RemoveFirstSet ==
    ASSUME NEW S, NEW s \in Seq(S), NEW e, Injective(s)
    PROVE  /\ RemoveFirst(s, e) \in Seq(S)
           /\ Injective(RemoveFirst(s, e))
           /\ ToSet(RemoveFirst(s, e)) = ToSet(s) \ {e}
<1>0. Len(s) \in Nat /\ DOMAIN s = 1..Len(s)
    BY LenProperties
<1>1. CASE ~ \E i \in 1..Len(s) : s[i] = e
    BY <1>0, <1>1 DEF RemoveFirst, ToSet
<1>2. CASE \E i \in 1..Len(s) : s[i] = e
    <2> PICK m \in 1..Len(s) : s[m] = e
        BY <1>2
    <2> DEFINE r == RemoveAt(s, m)
    <2>1. {i \in 1..Len(s) : s[i] = e} = {m}
        BY <1>0 DEF Injective
    <2>2. Min({m}) = m
        BY DEF Min
    <2>3. RemoveFirst(s, e) = r
        BY <1>2, <2>1, <2>2 DEF RemoveFirst, SelectInSeq
    <2>4. r \in Seq(S) /\ Len(r) = Len(s) - 1 /\ DOMAIN r = 1..Len(s)-1
        BY RemoveAtSeq, LenProperties
    <2>5. \A i \in 1..Len(s)-1 : r[i] = IF i < m THEN s[i] ELSE s[i+1]
        BY RemoveAtSeq
    <2> HIDE DEF r
    <2>6. Injective(r)
        <3> SUFFICES ASSUME NEW i \in 1..Len(s)-1, NEW j \in 1..Len(s)-1, r[i] = r[j]
                     PROVE  i = j
            BY <2>4 DEF Injective
        <3>1. PICK ii \in 1..Len(s) : r[i] = s[ii] /\ ii = IF i < m THEN i ELSE i+1
            BY <1>0, <2>5
        <3>2. PICK jj \in 1..Len(s) : r[j] = s[jj] /\ jj = IF j < m THEN j ELSE j+1
            BY <1>0, <2>5
        <3>3. ii = jj
            BY <1>0, <3>1, <3>2 DEF Injective
        <3> QED BY <1>0, <3>1, <3>2, <3>3
    <2>7. \A x \in ToSet(r) : x \in ToSet(s) \ {e}
        <3> TAKE x \in ToSet(r)
        <3>1. PICK i \in 1..Len(s)-1 : x = r[i]
            BY <2>4 DEF ToSet
        <3>2. PICK j \in 1..Len(s) : x = s[j] /\ j # m
            BY <1>0, <3>1, <2>5
        <3> QED BY <1>0, <3>2 DEF ToSet, Injective
    <2>8. ASSUME NEW x \in ToSet(s) \ {e} PROVE x \in ToSet(r)
        <3>1. PICK i \in 1..Len(s) : s[i] = x /\ i # m
            BY <1>0 DEF ToSet
        <3>2. \E j \in 1..Len(s)-1 : r[j] = x
            <4>1. CASE i < m
                BY <1>0, <3>1, <4>1, <2>5
            <4>2. CASE i > m
                <5>1. i-1 \in 1..Len(s)-1 /\ r[i-1] = s[(i-1)+1]
                    BY <1>0, <3>1, <4>2, <2>5
                <5> QED BY <5>1, <3>1
            <4> QED BY <3>1, <4>1, <4>2
        <3> QED BY <3>2, <2>4 DEF ToSet
    <2> QED BY <2>3, <2>4, <2>6, <2>7, <2>8
<1> QED BY <1>1, <1>2

\* Appending a new element.
LEMMA AppendSet ==
    ASSUME NEW S, NEW s \in Seq(S), NEW e \in S, Injective(s), e \notin ToSet(s)
    PROVE  /\ Append(s, e) \in Seq(S)
           /\ Injective(Append(s, e))
           /\ ToSet(Append(s, e)) = ToSet(s) \union {e}
<1> DEFINE r == Append(s, e)
<1>1. r \in Seq(S) /\ Len(r) = Len(s) + 1
    BY AppendProperties
<1>2. \A i \in 1..Len(s)+1 : r[i] = IF i =< Len(s) THEN s[i] ELSE e
    BY AppendProperties, LenProperties
<1>3. Len(s) \in Nat /\ DOMAIN s = 1..Len(s) /\ DOMAIN r = 1..Len(s)+1
    BY <1>1, LenProperties
<1> HIDE DEF r
<1>4. Injective(r)
    BY <1>2, <1>3 DEF Injective, ToSet
<1>5. ToSet(r) = ToSet(s) \union {e}
    <2>1. \A x \in ToSet(r) : x \in ToSet(s) \union {e}
        BY <1>2, <1>3 DEF ToSet
    <2>2. \A x \in ToSet(s) : x \in ToSet(r)
        BY <1>2, <1>3 DEF ToSet
    <2>3. e \in ToSet(r)
        BY <1>2, <1>3 DEF ToSet
    <2> QED BY <2>1, <2>2, <2>3
<1> QED BY <1>1, <1>4, <1>5 DEF r

\* Rotation keeps the elements.
LEMMA RotateSet ==
    ASSUME NEW S, NEW s \in Seq(S), Injective(s), Len(s) >= 2
    PROVE  /\ Append(Tail(s), Head(s)) \in Seq(S)
           /\ Injective(Append(Tail(s), Head(s)))
           /\ ToSet(Append(Tail(s), Head(s))) = ToSet(s)
<1> DEFINE r == Append(Tail(s), Head(s))
<1>0. s # <<>> /\ Len(s) \in Nat /\ DOMAIN s = 1..Len(s)
    BY LenProperties, EmptySeq
<1>1. /\ Head(s) \in S /\ Head(s) = s[1]
      /\ Tail(s) \in Seq(S) /\ Len(Tail(s)) = Len(s)-1
      /\ \A i \in 1..Len(s)-1 : Tail(s)[i] = s[i+1]
    BY <1>0, HeadTailProperties
<1>2. /\ r \in Seq(S) /\ Len(r) = Len(s)
      /\ \A i \in 1..Len(s) : r[i] = IF i < Len(s) THEN s[i+1] ELSE s[1]
    <2>1. /\ r \in Seq(S) /\ Len(r) = Len(Tail(s)) + 1
          /\ \A i \in 1..Len(Tail(s)) : r[i] = Tail(s)[i]
          /\ r[Len(Tail(s)) + 1] = Head(s)
        BY <1>1, AppendProperties
    <2>2. Len(r) = Len(s) /\ r[Len(s)] = s[1]
        BY <1>0, <1>1, <2>1
    <2>3. \A i \in 1..Len(s)-1 : r[i] = s[i+1]
        BY <1>1, <2>1
    <2> HIDE DEF r
    <2>4. \A i \in 1..Len(s) : r[i] = IF i < Len(s) THEN s[i+1] ELSE s[1]
        BY <1>0, <2>2, <2>3
    <2> QED BY <2>1, <2>2, <2>4
<1>3. DOMAIN r = 1..Len(s)
    BY <1>2, LenProperties
<1> HIDE DEF r
<1>4. Injective(r)
    <2> SUFFICES ASSUME NEW i \in 1..Len(s), NEW j \in 1..Len(s), r[i] = r[j]
                 PROVE  i = j
        BY <1>3 DEF Injective
    <2>1. PICK ii \in 1..Len(s) : r[i] = s[ii] /\ ii = IF i < Len(s) THEN i+1 ELSE 1
        BY <1>0, <1>2
    <2>2. PICK jj \in 1..Len(s) : r[j] = s[jj] /\ jj = IF j < Len(s) THEN j+1 ELSE 1
        BY <1>0, <1>2
    <2>3. ii = jj
        BY <1>0, <2>1, <2>2 DEF Injective
    <2> QED BY <1>0, <2>1, <2>2, <2>3
<1>5. \A x \in ToSet(r) : x \in ToSet(s)
    BY <1>0, <1>2, <1>3 DEF ToSet
<1>6. ASSUME NEW x \in ToSet(s) PROVE x \in ToSet(r)
    <2>1. PICK i \in 1..Len(s) : s[i] = x
        BY <1>0 DEF ToSet
    <2>2. CASE i = 1
        BY <2>1, <2>2, <1>0, <1>2, <1>3 DEF ToSet
    <2>3. CASE i > 1
        <3>1. i-1 \in 1..Len(s) /\ r[i-1] = s[(i-1)+1]
            BY <2>1, <2>3, <1>0, <1>2
        <3> QED BY <3>1, <2>1, <1>3 DEF ToSet
    <2> QED BY <2>1, <2>2, <2>3
<1>7. ToSet(r) = ToSet(s)
    BY <1>5, <1>6
<1> QED BY <1>2, <1>4, <1>7 DEF r

\* Inserting an element so that it stands at position m.
LEMMA InsertAtSeq ==
    ASSUME NEW S, NEW s \in Seq(S), NEW m \in 1..Len(s)+1, NEW e \in S
    PROVE  /\ InsertAt(s, m, e) \in Seq(S)
           /\ Len(InsertAt(s, m, e)) = Len(s) + 1
           /\ \A i \in 1..Len(s)+1 :
                 InsertAt(s, m, e)[i] = IF i < m THEN s[i]
                                        ELSE IF i = m THEN e ELSE s[i-1]
<1> DEFINE u == SubSeq(s, 1, m-1)
           v == SubSeq(s, m, Len(s))
           w == u \o <<e>>
<1>0. Len(s) \in Nat /\ \A i \in 1..Len(s) : s[i] \in S
    BY ElementOfSeq, LenProperties
<1>1. /\ u \in Seq(S) /\ Len(u) = m-1
      /\ \A i \in 1..m-1 : u[i] = s[i]
    <2>1. \A i \in 1..m-1 : s[i] \in S
        BY <1>0
    <2>2. /\ u \in Seq(S) /\ Len(u) = IF 1 <= m-1 THEN m-1 ELSE 0
          /\ \A i \in 1..(m-1)-1+1 : u[i] = s[1+i-1]
        BY <2>1, SubSeqProperties, <1>0
    <2> QED BY <2>2
<1>2. /\ v \in Seq(S) /\ Len(v) = Len(s) - m + 1
      /\ \A i \in 1..Len(s)-m+1 : v[i] = s[m+i-1]
    <2>1. \A i \in m..Len(s) : s[i] \in S
        BY <1>0
    <2>2. /\ v \in Seq(S) /\ Len(v) = IF m <= Len(s) THEN Len(s)-m+1 ELSE 0
          /\ \A i \in 1..Len(s)-m+1 : v[i] = s[m+i-1]
        BY <2>1, SubSeqProperties, <1>0
    <2> QED BY <2>2, <1>0
<1>3. /\ <<e>> \in Seq(S) /\ Len(<<e>>) = 1 /\ <<e>>[1] = e
    OBVIOUS
<1> HIDE DEF u, v
<1>4. /\ w \in Seq(S) /\ Len(w) = m
      /\ \A i \in 1..m : w[i] = IF i < m THEN s[i] ELSE e
    <2>1. /\ w \in Seq(S) /\ Len(w) = Len(u) + Len(<<e>>)
          /\ \A i \in 1..Len(u)+Len(<<e>>) :
                w[i] = IF i <= Len(u) THEN u[i] ELSE <<e>>[i - Len(u)]
        BY <1>1, <1>3, ConcatProperties
    <2>2. \A i \in 1..m : w[i] = IF i < m THEN s[i] ELSE e
        BY <2>1, <1>1, <1>3
    <2> QED BY <2>1, <2>2, <1>1, <1>3
<1> HIDE DEF w
<1>5. /\ w \o v \in Seq(S) /\ Len(w \o v) = Len(w) + Len(v)
      /\ \A i \in 1..Len(w)+Len(v) :
            (w \o v)[i] = IF i <= Len(w) THEN w[i] ELSE v[i - Len(w)]
    BY <1>2, <1>4, ConcatProperties
<1>6. InsertAt(s, m, e) = w \o v
    BY DEF InsertAt, u, v, w
<1>7. \A i \in 1..Len(s)+1 :
         (w \o v)[i] = IF i < m THEN s[i] ELSE IF i = m THEN e ELSE s[i-1]
    <2> TAKE i \in 1..Len(s)+1
    <2>1. CASE i =< m
        BY <2>1, <1>0, <1>2, <1>4, <1>5
    <2>2. CASE i > m
        <3>1. (w \o v)[i] = v[i-m] /\ i-m \in 1..Len(s)-m+1
            BY <2>2, <1>0, <1>2, <1>4, <1>5
        <3>2. v[i-m] = s[m+(i-m)-1]
            BY <3>1, <1>2
        <3> QED BY <2>2, <3>1, <3>2, <1>0
    <2>3. i =< m \/ i > m
        BY <1>0
    <2> QED BY <2>1, <2>2, <2>3
<1>8. Len(w \o v) = Len(s) + 1
    BY <1>0, <1>2, <1>4, <1>5
<1> QED BY <1>5, <1>6, <1>7, <1>8

-----------------------------------------------------------------------------
(***************************************************************************)
(* The delta sleep queue keeps its shape, whatever its length: due times   *)
(* are naturals that grow along the list, so no subtraction of             *)
(* sleep_insert or sleep_advance goes below zero, and each operation moves *)
(* the time of no other task than the one it is for.                       *)
(***************************************************************************)

\* A sleep list over the tasks T.
IsList(L, T) == L \in [q : Seq(T), delta : [T -> Nat]]

\* The recursion of Due is well founded: prefix sums exist and are naturals.
LEMMA DueSums ==
    ASSUME NEW T, NEW L, L.q \in Seq(T), L.delta \in [T -> Nat]
    PROVE  /\ Due(L) \in [0..Len(L.q) -> Nat]
           /\ Due(L)[0] = 0
           /\ \A j \in 1..Len(L.q) : Due(L)[j] = Due(L)[j-1] + L.delta[L.q[j]]
<1> DEFINE n == Len(L.q)
           d(j) == L.delta[L.q[j]]
           Sums(f, m) == /\ f \in [0..m -> Nat] /\ f[0] = 0
                         /\ \A j \in 1..m : f[j] = f[j-1] + d(j)
           Bad == {m \in 0..n : ~ \E f : Sums(f, m)}
<1>0. n \in Nat /\ \A j \in 1..n : d(j) \in Nat
    BY LenProperties, ElementOfSeq
<1> HIDE DEF n, d
<1>1. Bad = {}
    <2> SUFFICES ASSUME Bad # {} PROVE FALSE
        OBVIOUS
    <2>0. Bad \subseteq 0..n /\ Bad \in SUBSET Nat
        BY <1>0
    <2> HIDE DEF Bad
    <2>1. PICK m \in Bad : \A j \in Bad : m =< j
        BY <2>0, LeastNatural
    <2>4. m \in 0..n /\ (m # 0 => m-1 \in 0..n /\ m-1 \notin Bad)
        BY <1>0, <2>0, <2>1
    <2> USE DEF Bad
    <2>2. CASE m = 0
        <3>1. Sums([j \in 0..0 |-> 0], 0)
            BY <1>0
        <3> QED BY <2>2, <3>1
    <2>3. CASE m # 0
        <3>1. m \in 1..n
            BY <1>0, <2>3, <2>4
        <3>2. PICK f : Sums(f, m-1)
            <4> HIDE DEF Sums
            <4> QED BY <2>3, <2>4
        <3> DEFINE g == [j \in 0..m |-> IF j < m THEN f[j] ELSE f[m-1] + d(m)]
        <3>3. g \in [0..m -> Nat] /\ g[0] = 0
            BY <1>0, <3>1, <3>2
        <3>4. \A j \in 1..m : g[j] = g[j-1] + d(j)
            BY <1>0, <3>1, <3>2
        <3>5. Sums(g, m)
            BY <3>3, <3>4
        <3> QED BY <3>5
    <2> QED BY <2>2, <2>3
<1>2. PICK f : Sums(f, n)
    <2> HIDE DEF Sums
    <2>1. n \in 0..n
        BY <1>0
    <2> QED BY <2>1, <1>1
<1>3. f = [j \in 0..n |-> IF j = 0 THEN 0 ELSE f[j-1] + d(j)]
    BY <1>0, <1>2
<1>4. Due(L) = CHOOSE g : g = [j \in 0..n |-> IF j = 0 THEN 0 ELSE g[j-1] + d(j)]
    BY DEF Due, n, d
<1>5. Due(L) = [j \in 0..n |-> IF j = 0 THEN 0 ELSE Due(L)[j-1] + d(j)]
    BY <1>3, <1>4
<1> DEFINE u == Due(L)
           Off == {j \in 0..n : u[j] \notin Nat}
<1>6. /\ DOMAIN u = 0..n /\ u[0] = 0
      /\ \A j \in 1..n : u[j] = u[j-1] + d(j)
      /\ u = [j \in 0..n |-> u[j]]
    <2> HIDE DEF u
    <2>1. u = [j \in 0..n |-> IF j = 0 THEN 0 ELSE u[j-1] + d(j)]
        BY <1>5 DEF u
    <2> QED BY <1>0, <2>1
<1> HIDE DEF u
<1>7. Off = {}
    <2> SUFFICES ASSUME Off # {} PROVE FALSE
        OBVIOUS
    <2>0. Off \in SUBSET Nat
        BY <1>0
    <2> HIDE DEF Off
    <2>1. PICK m \in Off : \A j \in Off : m =< j
        BY <2>0, LeastNatural
    <2> USE DEF Off
    <2>2. m \in 1..n /\ m-1 \in 0..n /\ m-1 \notin Off
        BY <1>0, <1>6, <2>1
    <2>3. u[m-1] \in Nat /\ d(m) \in Nat /\ u[m] = u[m-1] + d(m)
        BY <1>0, <1>6, <2>2
    <2> QED BY <2>1, <2>3
<1>8. u \in [0..n -> Nat]
    <2>1. \A j \in 0..n : u[j] \in Nat
        BY <1>7
    <2> QED BY <1>6, <2>1
<1> QED BY <1>6, <1>8 DEF u, n, d

\* Due times do not decrease along the list.
LEMMA DueMonotone ==
    ASSUME NEW T, NEW L, L.q \in Seq(T), L.delta \in [T -> Nat],
           NEW i \in 0..Len(L.q), NEW j \in 0..Len(L.q), i =< j
    PROVE  Due(L)[i] =< Due(L)[j]
<1> DEFINE n == Len(L.q)
           u == Due(L)
           d(x) == L.delta[L.q[x]]
           Bad == {m \in i..n : u[m] < u[i]}
<1>0. n \in Nat /\ \A x \in 1..n : d(x) \in Nat
    BY LenProperties, ElementOfSeq
<1>1. u \in [0..n -> Nat] /\ \A x \in 1..n : u[x] = u[x-1] + d(x)
    BY DueSums
<1>2. i \in 0..n /\ j \in 0..n
    OBVIOUS
<1> HIDE DEF n, u, d
<1>3. Bad = {}
    <2> SUFFICES ASSUME Bad # {} PROVE FALSE
        OBVIOUS
    <2>0. Bad \in SUBSET Nat
        BY <1>0, <1>2
    <2> HIDE DEF Bad
    <2>1. PICK m \in Bad : \A x \in Bad : m =< x
        BY <2>0, LeastNatural
    <2>4. m-1 \notin Bad
        BY <2>0, <2>1
    <2> USE DEF Bad
    <2>5. m \in i..n /\ u[m] < u[i] /\ m # i
        BY <1>0, <1>1, <1>2
    <2>2. m \in 1..n /\ m-1 \in 0..n /\ m-1 \in i..n /\ m-1 \notin Bad
        BY <1>0, <1>2, <2>4, <2>5
    <2>3. u[m] = u[m-1] + d(m) /\ u[i] =< u[m-1]
        BY <1>0, <1>1, <1>2, <2>2
    <2> QED BY <1>0, <1>1, <1>2, <2>1, <2>2, <2>3
<1>4. u[i] =< u[j]
    <2>1. u[i] \in Nat /\ u[j] \in Nat /\ j \in i..n
        BY <1>0, <1>1, <1>2
    <2> QED BY <2>1, <1>3
<1> QED BY <1>4 DEF u

\* The tasks due by a time are the first ones of the list.
LEMMA DuePrefix ==
    ASSUME NEW T, NEW L, L.q \in Seq(T), L.delta \in [T -> Nat], NEW t \in Nat
    PROVE  LET p == Cardinality({j \in 1..Len(L.q) : Due(L)[j] =< t})
           IN  /\ p \in 0..Len(L.q)
               /\ {j \in 1..Len(L.q) : Due(L)[j] =< t} = 1..p
<1> DEFINE n == Len(L.q)
           u == Due(L)
           D == {j \in 1..n : u[j] =< t}
           Out == {m \in 1..n+1 : m \notin D}
<1>0. n \in Nat /\ u \in [0..n -> Nat]
    BY LenProperties, DueSums
<1>a. \A i, j \in 0..n : i =< j => u[i] =< u[j]
    BY DueMonotone
<1> HIDE DEF n, u
<1>1. PICK m \in Out : \A x \in Out : m =< x
    <2>1. n+1 \in Out
        BY <1>0
    <2>2. Out \in SUBSET Nat
        BY <1>0
    <2> HIDE DEF Out
    <2> QED BY <2>1, <2>2, LeastNatural
<1>2. \A j \in 1..n : j < m => j \in D
    BY <1>0, <1>1
<1>3. \A j \in 1..n : j >= m => j \notin D
    <2> TAKE j \in 1..n
    <2> HAVE j >= m
    <2>1. m \in 1..n /\ u[m] > t
        BY <1>0, <1>1
    <2>2. u[m] =< u[j]
        BY <2>1, <1>0, <1>a
    <2> QED BY <2>1, <2>2, <1>0
<1>4. D = 1..m-1
    BY <1>0, <1>1, <1>2, <1>3
<1>5. Cardinality(1..m-1) = m-1 /\ m-1 \in 0..n
    BY <1>0, <1>1, FS_Interval
<1>6. Cardinality(D) = m-1
    BY <1>4, <1>5
<1> HIDE DEF D
<1>7. LET p == Cardinality(D) IN p \in 0..n /\ D = 1..p
    BY <1>4, <1>5, <1>6
<1> QED BY <1>7 DEF D, n, u

-----------------------------------------------------------------------------
(* When each task is due.                                                  *)

\* The ticks until a linked task is due.
Time(L, t) == Due(L)[CHOOSE j \in DOMAIN L.q : L.q[j] = t]

LEMMA TimeAt ==
    ASSUME NEW T, NEW L, IsList(L, T), Injective(L.q), NEW j \in 1..Len(L.q)
    PROVE  Time(L, L.q[j]) = Due(L)[j]
<1>1. DOMAIN L.q = 1..Len(L.q)
    BY LenProperties DEF IsList
<1> DEFINE m == CHOOSE x \in DOMAIN L.q : L.q[x] = L.q[j]
<1>2. m \in DOMAIN L.q /\ L.q[m] = L.q[j]
    BY <1>1
<1>3. m = j
    BY <1>1, <1>2 DEF Injective
<1> QED BY <1>3 DEF Time

\* Whatever satisfies the recursion of Due is Due.
LEMMA DueUnique ==
    ASSUME NEW T, NEW L, IsList(L, T), NEW f, f[0] = 0,
           \A j \in 1..Len(L.q) : f[j] = f[j-1] + L.delta[L.q[j]],
           NEW i \in 0..Len(L.q)
    PROVE  f[i] = Due(L)[i]
<1> DEFINE n == Len(L.q)
           u == Due(L)
           d(x) == L.delta[L.q[x]]
           Bad == {m \in 0..n : f[m] # u[m]}
<1>1. n \in Nat /\ u[0] = 0 /\ \A j \in 1..n : u[j] = u[j-1] + d(j)
    BY LenProperties, DueSums DEF IsList
<1>2. f[0] = 0 /\ \A j \in 1..n : f[j] = f[j-1] + d(j)
    OBVIOUS
<1>3. i \in 0..n
    OBVIOUS
<1> HIDE DEF n, u, d
<1>4. Bad = {}
    <2> SUFFICES ASSUME Bad # {} PROVE FALSE
        OBVIOUS
    <2>0. Bad \in SUBSET Nat
        BY <1>1
    <2> HIDE DEF Bad
    <2>1. PICK m \in Bad : \A x \in Bad : m =< x
        BY <2>0, LeastNatural
    <2>2. m \in Nat /\ m-1 \notin Bad
        BY <2>0, <2>1
    <2> USE DEF Bad
    <2>3. m # 0 /\ m \in 1..n /\ m-1 \in 0..n
        BY <1>1, <1>2, <2>2
    <2> QED BY <1>1, <1>2, <2>2, <2>3
<1> QED BY <1>3, <1>4 DEF u

\* The sums over a sleep list.
LEMMA ListSums ==
    ASSUME NEW T, NEW L, IsList(L, T)
    PROVE  /\ Due(L)[0] = 0
           /\ \A j \in 1..Len(L.q) : Due(L)[j] = Due(L)[j-1] + L.delta[L.q[j]]
<1>1. L.q \in Seq(T) /\ L.delta \in [T -> Nat]
    BY DEF IsList
<1> HIDE DEF IsList
<1> QED BY <1>1, DueSums

\* Times are read off the list and the deltas of the linked tasks.
LEMMA TimeSame ==
    ASSUME NEW T, NEW L, IsList(L, T), Injective(L.q), NEW M, IsList(M, T),
           M.q = L.q, \A t \in ToSet(L.q) : M.delta[t] = L.delta[t]
    PROVE  \A t \in ToSet(L.q) : Time(M, t) = Time(L, t)
<1> DEFINE u == Due(L)
<1>1. Len(L.q) \in Nat /\ DOMAIN L.q = 1..Len(L.q)
    BY LenProperties DEF IsList
<1>2. u[0] = 0 /\ \A j \in 1..Len(L.q) : u[j] = u[j-1] + L.delta[L.q[j]]
    BY ListSums DEF u
<1>3. \A j \in 1..Len(L.q) : L.q[j] \in ToSet(L.q)
    BY <1>1 DEF ToSet
<1> HIDE DEF u
<1>4. u[0] = 0 /\ \A j \in 1..Len(M.q) : u[j] = u[j-1] + M.delta[M.q[j]]
    BY <1>2, <1>3
<1>5. \A j \in 0..Len(M.q) : u[j] = Due(M)[j]
    BY <1>4, DueUnique
<1>6. ASSUME NEW j \in 1..Len(L.q) PROVE Time(M, L.q[j]) = Time(L, L.q[j])
    <2>1. Time(M, L.q[j]) = Due(M)[j] /\ Time(L, L.q[j]) = u[j]
        BY TimeAt DEF u
    <2> QED BY <1>1, <1>5, <2>1
<1> QED BY <1>1, <1>6 DEF ToSet

-----------------------------------------------------------------------------
\* sleep_remove takes one task out and leaves a list; nobody else's time changes.
LEMMA SleepRemove ==
    ASSUME NEW T, NEW L, IsList(L, T), Injective(L.q), NEW i
    PROVE  /\ IsList(sleep_remove(L, i), T)
           /\ Injective(sleep_remove(L, i).q)
           /\ ToSet(sleep_remove(L, i).q) = ToSet(L.q) \ {i}
           /\ \A t \in ToSet(L.q) \ {i} : Time(sleep_remove(L, i), t) = Time(L, t)
<1>0. Len(L.q) \in Nat /\ DOMAIN L.q = 1..Len(L.q) /\ L.q \in Seq(T)
    BY LenProperties DEF IsList
<1>1. CASE ~Contains(L.q, i)
    BY <1>0, <1>1 DEF sleep_remove, Contains, ToSet
<1>2. CASE Contains(L.q, i)
    <2> DEFINE R == sleep_remove(L, i)
               m == CHOOSE j \in DOMAIN L.q : L.q[j] = i
               D == [t \in DOMAIN L.delta |->
                       IF t = i THEN 0
                       ELSE IF m < Len(L.q) /\ t = L.q[m+1]
                            THEN L.delta[t] + L.delta[i]
                            ELSE L.delta[t]]
    <2>1. m \in 1..Len(L.q) /\ L.q[m] = i /\ i \in T
        BY <1>0, <1>2, ElementOfSeq DEF Contains
    <2>2. R = [q |-> RemoveAt(L.q, m), delta |-> D]
        BY <1>2 DEF sleep_remove
    <2> HIDE DEF m
    <2>3. D \in [T -> Nat]
        BY <2>1 DEF IsList
    <2>4. RemoveAt(L.q, m) = RemoveFirst(L.q, i)
        <3>1. {j \in 1..Len(L.q) : L.q[j] = i} = {m}
            BY <1>0, <2>1 DEF Injective
        <3>2. Min({m}) = m
            BY <2>1 DEF Min
        <3> QED BY <1>2, <3>1, <3>2 DEF RemoveFirst, SelectInSeq, Contains
    <2>5. /\ RemoveAt(L.q, m) \in Seq(T)
          /\ Injective(RemoveAt(L.q, m))
          /\ ToSet(RemoveAt(L.q, m)) = ToSet(L.q) \ {i}
        BY <1>0, <2>4, RemoveFirstSet
    <2> DEFINE q == RemoveAt(L.q, m)
               n == Len(L.q)
               u == Due(L)
               f == [j \in 0..n-1 |-> IF j < m THEN u[j] ELSE u[j+1]]
    <2>6. /\ n \in Nat /\ L.delta \in [T -> Nat]
          /\ \A j \in 1..n : L.q[j] \in T
          /\ \A j, x \in 1..n : L.q[j] = L.q[x] => j = x
        BY <1>0, ElementOfSeq DEF IsList, Injective
    <2>7. /\ q \in Seq(T) /\ Len(q) = n - 1 /\ DOMAIN q = 1..n-1
          /\ \A j \in 1..n-1 : q[j] = IF j < m THEN L.q[j] ELSE L.q[j+1]
        <3> DEFINE r == L.q
        <3>1. r \in Seq(T) /\ m \in 1..Len(r)
            BY <1>0, <2>1
        <3> HIDE DEF r, D, f, u, R
        <3>2. /\ RemoveAt(r, m) \in Seq(T) /\ Len(RemoveAt(r, m)) = Len(r) - 1
              /\ \A j \in 1..Len(r)-1 :
                    RemoveAt(r, m)[j] = IF j < m THEN r[j] ELSE r[j+1]
            BY <3>1, RemoveAtSeq
        <3>3. DOMAIN RemoveAt(r, m) = 1..Len(RemoveAt(r, m))
            BY <3>2, LenProperties
        <3> QED BY <3>2, <3>3 DEF r
    <2>8. /\ u[0] = 0 /\ u \in [0..n -> Nat]
          /\ \A j \in 1..n : u[j] = u[j-1] + L.delta[L.q[j]]
        BY <1>0, <2>6, DueSums
    <2>9. \A t \in T : D[t] = IF t = i THEN 0
                              ELSE IF m < n /\ t = L.q[m+1] THEN L.delta[t] + L.delta[i]
                              ELSE L.delta[t]
        BY <2>6
    <2> HIDE DEF D, q, n, u
    <2>10. IsList(R, T) /\ R.q = q /\ R.delta = D /\ Injective(R.q)
           /\ ToSet(R.q) = ToSet(L.q) \ {i}
        BY <2>2, <2>3, <2>5 DEF IsList, q
    <2>11. f[0] = 0
        BY <2>1, <2>6, <2>8 DEF n
    <2>12. ASSUME NEW j \in 1..n-1 PROVE f[j] = f[j-1] + D[q[j]]
        <3>0. j \in 0..n-1 /\ j-1 \in 0..n-1 /\ j \in 1..n /\ j+1 \in 1..n /\ m \in 1..n
            BY <2>1, <2>6 DEF n
        <3>1. CASE j < m
            <4>1. q[j] = L.q[j] /\ L.q[j] \in T /\ L.q[j] # i
                BY <2>1, <2>6, <2>7, <3>0, <3>1
            <4>2. m < n => L.q[j] # L.q[m+1]
                <5>1. m < n => m+1 \in 1..n
                    BY <2>6, <3>0
                <5> QED BY <2>6, <3>0, <3>1, <5>1
            <4>3. D[q[j]] = L.delta[L.q[j]]
                BY <2>9, <4>1, <4>2
            <4>4. f[j] = u[j] /\ f[j-1] = u[j-1]
                BY <3>0, <3>1
            <4> QED BY <2>8, <3>0, <4>3, <4>4
        <3>2. CASE j = m
            <4>1. q[j] = L.q[m+1] /\ L.q[m+1] \in T /\ L.q[m+1] # i /\ m < n
                BY <2>1, <2>6, <2>7, <3>0, <3>2
            <4>2. D[q[j]] = L.delta[L.q[m+1]] + L.delta[i]
                BY <2>9, <4>1
            <4>3. f[j] = u[m+1] /\ f[j-1] = u[m-1]
                BY <3>0, <3>2
            <4>4. u[m] = u[m-1] + L.delta[i] /\ u[m+1] = u[(m+1)-1] + L.delta[L.q[m+1]]
                  /\ (m+1)-1 = m
                BY <2>1, <2>8, <3>0, <3>2
            <4>5. L.delta[i] \in Nat /\ L.delta[L.q[m+1]] \in Nat /\ u[m-1] \in Nat
                <5>1. m-1 \in 0..n
                    BY <2>6, <3>0
                <5>2. u[m-1] \in Nat
                    BY <2>8, <5>1
                <5> QED BY <2>1, <2>6, <4>1, <5>2
            <4> QED BY <4>2, <4>3, <4>4, <4>5
        <3>3. CASE j > m
            <4>1. q[j] = L.q[j+1] /\ L.q[j+1] \in T /\ L.q[j+1] # i
                <5>1. q[j] = L.q[j+1] /\ L.q[j+1] \in T
                    BY <2>6, <2>7, <3>0, <3>3
                <5>2. L.q[m] = i /\ j+1 # m
                    BY <2>1, <3>0, <3>3
                <5> QED BY <2>6, <3>0, <5>1, <5>2
            <4>2. m < n => L.q[j+1] # L.q[m+1]
                <5>1. m < n => m+1 \in 1..n
                    BY <2>6, <3>0
                <5> QED BY <2>6, <3>0, <3>3, <5>1
            <4>3. D[q[j]] = L.delta[L.q[j+1]]
                BY <2>9, <4>1, <4>2
            <4>4. f[j] = u[j+1] /\ f[j-1] = u[(j+1)-1]
                BY <3>0, <3>3
            <4> QED BY <2>8, <3>0, <4>3, <4>4
        <3> QED BY <3>0, <3>1, <3>2, <3>3
    <2> HIDE DEF f, R
    <2>13. \A j \in 0..n-1 : f[j] = Due(R)[j]
        <3>1. Len(R.q) = n-1 /\ \A j \in 1..Len(R.q) : f[j] = f[j-1] + R.delta[R.q[j]]
            BY <2>7, <2>10, <2>12
        <3> QED BY <2>10, <2>11, <3>1, DueUnique
    <2>14. ASSUME NEW t \in ToSet(L.q) \ {i} PROVE Time(R, t) = Time(L, t)
        <3>1. PICK j \in 1..n : L.q[j] = t
            BY <1>0 DEF ToSet, n
        <3> DEFINE x == IF j < m THEN j ELSE j-1
        <3>2. j # m /\ x \in 1..n-1 /\ x \in 0..n-1 /\ m \in 1..n
            BY <2>1, <2>6, <3>1 DEF n
        <3>3. q[x] = t /\ f[x] = u[j]
            BY <2>6, <2>7, <3>1, <3>2 DEF f
        <3>4. Time(R, R.q[x]) = Due(R)[x]
            BY <2>7, <2>10, <3>2, TimeAt
        <3>5. Time(L, L.q[j]) = Due(L)[j]
            BY TimeAt DEF n
        <3> QED BY <2>10, <2>13, <3>1, <3>2, <3>3, <3>4, <3>5 DEF u
    <2> QED BY <2>10, <2>14 DEF R
<1> QED BY <1>1, <1>2

\* sleep_insert links the task once, wherever it was before, to be due in the
\* ticks asked for; nobody else's time changes.
LEMMA SleepInsert ==
    ASSUME NEW T, NEW L, IsList(L, T), Injective(L.q), NEW i \in T, NEW ticks \in Nat
    PROVE  /\ IsList(sleep_insert(L, i, ticks), T)
           /\ Injective(sleep_insert(L, i, ticks).q)
           /\ ToSet(sleep_insert(L, i, ticks).q) = ToSet(L.q) \union {i}
           /\ Time(sleep_insert(L, i, ticks), i) = IF ticks = 0 THEN 1 ELSE ticks
           /\ \A t \in ToSet(L.q) \ {i} : Time(sleep_insert(L, i, ticks), t) = Time(L, t)
<1> DEFINE R == sleep_remove(L, i)
           x == IF ticks = 0 THEN 1 ELSE ticks
           u == Due(R)
           n == Len(R.q)
           p == Cardinality({j \in 1..n : u[j] =< x})
           left == x - u[p]
           D == [t \in DOMAIN R.delta |->
                      IF t = i THEN left
                      ELSE IF p < n /\ t = R.q[p + 1]
                           THEN R.delta[t] - left
                           ELSE R.delta[t]]
           q == InsertAt(R.q, p + 1, i)
<1>1. sleep_insert(L, i, ticks) = [q |-> q, delta |-> D]
    BY DEF sleep_insert
<1>2. /\ IsList(R, T) /\ Injective(R.q)
      /\ ToSet(R.q) = ToSet(L.q) \ {i}
      /\ \A t \in ToSet(L.q) \ {i} : Time(R, t) = Time(L, t)
    BY SleepRemove
<1>3. x \in Nat
    OBVIOUS
<1> HIDE DEF R, x
<1>4. R.q \in Seq(T) /\ R.delta \in [T -> Nat]
    BY <1>2 DEF IsList
<1>5. /\ u \in [0..n -> Nat] /\ u[0] = 0
      /\ \A j \in 1..n : u[j] = u[j-1] + R.delta[R.q[j]]
    BY <1>4, DueSums
<1>6. p \in 0..n /\ {j \in 1..n : u[j] =< x} = 1..p
    BY <1>3, <1>4, DuePrefix
<1>7. /\ n \in Nat /\ DOMAIN R.q = 1..n
      /\ \A j \in 1..n : R.q[j] \in T /\ R.q[j] # i
    <2>1. n \in Nat /\ DOMAIN R.q = 1..n /\ \A j \in 1..n : R.q[j] \in T
        BY <1>4, LenProperties, ElementOfSeq
    <2>2. \A j \in 1..n : R.q[j] # i
        BY <1>2, <2>1 DEF ToSet
    <2> QED BY <2>1, <2>2
<1> HIDE DEF p, u, n
<1>8. left \in Nat
    <2>1. p = 0 \/ p \in 1..p
        BY <1>6, <1>7
    <2>2. p \in 1..p => u[p] =< x
        BY <1>6
    <2>3. u[p] \in Nat /\ (p = 0 => u[p] = 0)
        BY <1>5, <1>6
    <2> QED BY <2>1, <2>2, <2>3, <1>3
<1>9. p < n => R.delta[R.q[p + 1]] - left \in Nat
    <2> HAVE p < n
    <2>1. p + 1 \in 1..n /\ p + 1 \notin 1..p
        BY <1>6, <1>7
    <2>2. ~ (u[p + 1] =< x)
        BY <2>1, <1>6
    <2>3. u[p + 1] = u[(p+1)-1] + R.delta[R.q[p + 1]] /\ (p+1)-1 = p
        BY <2>1, <1>5, <1>6, <1>7
    <2>4. u[p] \in Nat /\ u[p+1] \in Nat
        <3>1. p \in 0..n /\ p + 1 \in 0..n
            BY <2>1, <1>6, <1>7
        <3> QED BY <3>1, <1>5
    <2>5. R.delta[R.q[p + 1]] \in Nat
        <3>1. R.q[p + 1] \in T
            BY <2>1, <1>7
        <3> QED BY <3>1, <1>4
    <2> QED BY <2>2, <2>3, <2>4, <2>5, <1>3
<1>10. D \in [T -> Nat]
    <2> HIDE DEF left
    <2> QED BY <1>4, <1>8, <1>9
<1>11. /\ q \in Seq(T) /\ Len(q) = n + 1
       /\ \A j \in 1..n+1 : q[j] = IF j < p+1 THEN R.q[j]
                                   ELSE IF j = p+1 THEN i ELSE R.q[j-1]
    <2> DEFINE m == p + 1
    <2>1. m \in 1..Len(R.q)+1
        BY <1>6, <1>7 DEF n
    <2> HIDE DEF m, D
    <2>2. /\ InsertAt(R.q, m, i) \in Seq(T)
          /\ Len(InsertAt(R.q, m, i)) = Len(R.q) + 1
          /\ \A j \in 1..Len(R.q)+1 :
                InsertAt(R.q, m, i)[j] = IF j < m THEN R.q[j]
                                         ELSE IF j = m THEN i ELSE R.q[j-1]
        <3> DEFINE r == R.q
        <3>1. r \in Seq(T) /\ m \in 1..Len(r)+1
            BY <2>1, <1>4
        <3> HIDE DEF r, q, left
        <3>2. /\ InsertAt(r, m, i) \in Seq(T)
              /\ Len(InsertAt(r, m, i)) = Len(r) + 1
              /\ \A j \in 1..Len(r)+1 :
                    InsertAt(r, m, i)[j] = IF j < m THEN r[j]
                                           ELSE IF j = m THEN i ELSE r[j-1]
            BY <3>1, InsertAtSeq
        <3> QED BY <3>2 DEF r
    <2> QED BY <2>2 DEF n, m
<1>12. DOMAIN q = 1..n+1
    BY <1>11, LenProperties
<1> HIDE DEF q, D
<1>13. Injective(q)
    <2> SUFFICES ASSUME NEW j \in 1..n+1, NEW m \in 1..n+1, q[j] = q[m]
                 PROVE  j = m
        BY <1>12 DEF Injective
    <2>0. p \in 0..n /\ n \in Nat
        BY <1>6, <1>7
    <2>1. CASE j = p+1
        BY <2>0, <2>1, <1>7, <1>11
    <2>2. CASE m = p+1
        <3>1. q[m] = i
            BY <2>0, <2>2, <1>11
        <3> SUFFICES ASSUME j # p+1 PROVE FALSE
            BY <2>2
        <3>2. \E jj \in 1..n : q[j] = R.q[jj]
            BY <2>0, <1>11
        <3> QED BY <3>1, <3>2, <1>7
    <2>3. CASE j # p+1 /\ m # p+1
        <3>1. PICK jj \in 1..n : q[j] = R.q[jj] /\ jj = IF j < p+1 THEN j ELSE j-1
            BY <2>0, <2>3, <1>11
        <3>2. PICK mm \in 1..n : q[m] = R.q[mm] /\ mm = IF m < p+1 THEN m ELSE m-1
            BY <2>0, <2>3, <1>11
        <3>3. jj = mm
            BY <1>2, <1>7, <3>1, <3>2 DEF Injective
        <3> QED BY <2>0, <2>3, <3>1, <3>2, <3>3
    <2> QED BY <2>1, <2>2, <2>3
<1>14. ToSet(q) = ToSet(R.q) \union {i}
    <2>0. p \in 0..n /\ n \in Nat
        BY <1>6, <1>7
    <2>1. \A e \in ToSet(q) : e \in ToSet(R.q) \union {i}
        <3> SUFFICES ASSUME NEW j \in 1..n+1, j # p+1 PROVE q[j] \in ToSet(R.q)
            BY <1>11, <1>12, <2>0 DEF ToSet
        <3>1. \E jj \in 1..n : q[j] = R.q[jj]
            BY <2>0, <1>11
        <3> QED BY <3>1, <1>7 DEF ToSet
    <2>2. ASSUME NEW e \in ToSet(R.q) PROVE e \in ToSet(q)
        <3>1. PICK j \in 1..n : R.q[j] = e
            BY <1>7 DEF ToSet
        <3>2. \E jj \in 1..n+1 : q[jj] = e
            <4>1. CASE j < p+1
                BY <2>0, <3>1, <4>1, <1>11
            <4>2. CASE j >= p+1
                <5>1. j+1 \in 1..n+1 /\ ~ (j+1 < p+1) /\ j+1 # p+1 /\ (j+1)-1 = j
                    BY <2>0, <4>2
                <5>2. q[j+1] = R.q[(j+1)-1]
                    BY <5>1, <1>11
                <5> QED BY <5>1, <5>2, <3>1
            <4> QED BY <2>0, <4>1, <4>2
        <3> QED BY <3>2, <1>12 DEF ToSet
    <2>3. i \in ToSet(q)
        <3>1. p+1 \in 1..n+1 /\ q[p+1] = i
            BY <2>0, <1>11
        <3> QED BY <3>1, <1>12 DEF ToSet
    <2> QED BY <2>1, <2>2, <2>3
<1> DEFINE I == sleep_insert(L, i, ticks)
           f == [j \in 0..n+1 |-> IF j =< p THEN u[j] ELSE IF j = p+1 THEN x ELSE u[j-1]]
<1>15. /\ IsList(I, T) /\ I.q = q /\ I.delta = D /\ Injective(I.q)
       /\ ToSet(I.q) = ToSet(L.q) \union {i}
    BY <1>1, <1>2, <1>10, <1>11, <1>13, <1>14 DEF IsList
<1>16. \A t \in T : D[t] = IF t = i THEN left
                          ELSE IF p < n /\ t = R.q[p+1] THEN R.delta[t] - left
                          ELSE R.delta[t]
    <2> HIDE DEF left
    <2> QED BY <1>4 DEF D
<1>17. \A j \in 1..n : R.delta[R.q[j]] \in Nat
    BY <1>4, <1>7
<1>18. \A j, m \in 1..n : R.q[j] = R.q[m] => j = m
    BY <1>2, <1>7 DEF Injective
<1>19. p \in Nat /\ n \in Nat /\ p =< n /\ u[p] \in Nat
    BY <1>5, <1>6, <1>7
<1>20. f[0] = 0
    BY <1>5, <1>19
<1>21. ASSUME NEW j \in 1..n+1 PROVE f[j] = f[j-1] + D[q[j]]
    <2>0. j \in 0..n+1 /\ j-1 \in 0..n+1
        BY <1>19
    <2>1. CASE j =< p
        <3>1. j \in 1..n /\ q[j] = R.q[j]
            BY <1>11, <1>19, <2>1
        <3>2. p < n => p+1 \in 1..n /\ j # p+1
            BY <1>19, <2>1
        <3>3. D[q[j]] = R.delta[R.q[j]]
            BY <1>7, <1>16, <1>18, <3>1, <3>2
        <3>4. f[j] = u[j] /\ f[j-1] = u[j-1]
            BY <1>19, <2>0, <2>1
        <3> QED BY <1>5, <3>1, <3>3, <3>4
    <2>2. CASE j = p+1
        <3>1. q[j] = i
            BY <1>11, <1>19, <2>2
        <3>2. D[q[j]] = x - u[p]
            BY <1>16, <3>1
        <3>3. f[j] = x /\ f[j-1] = u[p]
            BY <1>19, <2>0, <2>2
        <3> QED BY <1>3, <1>19, <3>2, <3>3
    <2>3. CASE j = p+2
        <3>1. p+1 \in 1..n /\ p < n /\ j-1 = p+1 /\ (p+1)-1 = p
            BY <1>19, <2>3
        <3>2. q[j] = R.q[p+1]
            BY <1>11, <1>19, <2>3, <3>1
        <3>3. D[q[j]] = R.delta[R.q[p+1]] - (x - u[p])
            BY <1>7, <1>16, <3>1, <3>2
        <3>4. f[j] = u[p+1] /\ f[j-1] = x
            BY <1>19, <2>0, <2>3
        <3>5. u[p+1] = u[p] + R.delta[R.q[p+1]] /\ R.delta[R.q[p+1]] \in Nat
            BY <1>5, <1>17, <3>1
        <3> QED BY <1>3, <1>19, <3>3, <3>4, <3>5
    <2>4. CASE j > p+2
        <3>1. j-1 \in 1..n /\ q[j] = R.q[j-1] /\ j-1 # p+1
            BY <1>11, <1>19, <2>4
        <3>2. p < n => p+1 \in 1..n
            BY <1>19
        <3>3. D[q[j]] = R.delta[R.q[j-1]]
            BY <1>7, <1>16, <1>18, <3>1, <3>2
        <3>4. f[j] = u[j-1] /\ f[j-1] = u[(j-1)-1]
            BY <1>19, <2>0, <2>4
        <3> QED BY <1>5, <3>1, <3>3, <3>4
    <2> QED BY <1>19, <2>1, <2>2, <2>3, <2>4
<1> HIDE DEF f, I, left
<1>22. \A j \in 0..n+1 : f[j] = Due(I)[j]
    <2>1. Len(I.q) = n+1 /\ \A j \in 1..Len(I.q) : f[j] = f[j-1] + I.delta[I.q[j]]
        BY <1>11, <1>15, <1>21
    <2> QED BY <1>15, <1>20, <2>1, DueUnique
<1>23. \A j \in 1..n+1 : Time(I, q[j]) = f[j]
    <2> TAKE j \in 1..n+1
    <2>1. Time(I, I.q[j]) = Due(I)[j]
        BY <1>11, <1>15, TimeAt
    <2>2. j \in 0..n+1
        BY <1>19
    <2> QED BY <1>15, <1>22, <2>1, <2>2
<1>24. Time(I, i) = x
    <2>1. p+1 \in 1..n+1 /\ q[p+1] = i /\ p+1 \in 0..n+1 /\ ~(p+1 =< p)
        BY <1>11, <1>19
    <2> QED BY <1>23, <2>1 DEF f
<1>25. ASSUME NEW t \in ToSet(L.q) \ {i} PROVE Time(I, t) = Time(L, t)
    <2>1. PICK m \in 1..n : R.q[m] = t
        BY <1>2, <1>7 DEF ToSet
    <2> DEFINE j == IF m =< p THEN m ELSE m+1
    <2>2. j \in 1..n+1 /\ j \in 0..n+1 /\ q[j] = t /\ f[j] = u[m]
        <3>1. CASE m =< p
            BY <1>11, <1>19, <2>1, <3>1 DEF f
        <3>2. CASE m > p
            <4>1. j = m+1 /\ m+1 \in 1..n+1 /\ m+1 \in 0..n+1 /\ ~(m+1 < p+1) /\ m+1 # p+1
                  /\ ~(m+1 =< p) /\ (m+1)-1 = m
                BY <1>19, <3>2
            <4>2. q[m+1] = R.q[m]
                BY <1>11, <4>1
            <4>3. f[m+1] = u[m]
                BY <4>1 DEF f
            <4> QED BY <2>1, <4>1, <4>2, <4>3
        <3> QED BY <1>19, <3>1, <3>2
    <2>3. Time(R, R.q[m]) = Due(R)[m]
        BY <1>2, TimeAt DEF n
    <2> QED BY <1>2, <1>23, <2>1, <2>2, <2>3 DEF u
<1> QED BY <1>15, <1>24, <1>25 DEF I, x

\* What task_make_ready leaves is still a list, though perhaps a shorter one:
\* it keeps every task only if the one made ready was not linked.
LEMMA LinkReset ==
    ASSUME NEW T, NEW L, IsList(L, T), Injective(L.q), NEW i
    PROVE  /\ IsList(link_reset(L, i), T)
           /\ Injective(link_reset(L, i).q)
           /\ ToSet(link_reset(L, i).q) \subseteq ToSet(L.q)
           /\ i \notin ToSet(L.q) => link_reset(L, i).q = L.q
<1> DEFINE R == link_reset(L, i)
           D == [L.delta EXCEPT ![i] = 0]
<1>0. Len(L.q) \in Nat /\ DOMAIN L.q = 1..Len(L.q) /\ L.q \in Seq(T) /\ D \in [T -> Nat]
    BY LenProperties DEF IsList
<1> HIDE DEF D
<1>1. CASE ~Contains(L.q, i)
    <2>1. R = [q |-> L.q, delta |-> D]
        BY <1>1 DEF link_reset, D
    <2> QED BY <1>0, <2>1 DEF IsList
<1>2. CASE Contains(L.q, i)
    <2> DEFINE m == CHOOSE j \in DOMAIN L.q : L.q[j] = i
               s == SubSeq(L.q, 1, m)
    <2>1. m \in 1..Len(L.q) /\ L.q[m] = i
        BY <1>0, <1>2 DEF Contains
    <2>2. R = [q |-> s, delta |-> D]
        BY <1>2 DEF link_reset, D
    <2> HIDE DEF m
    <2>3. \A j \in 1..m : L.q[j] \in T
        BY <1>0, <2>1, ElementOfSeq
    <2>4. /\ s \in Seq(T) /\ Len(s) = m
          /\ \A j \in 1..m : s[j] = L.q[j]
        <3>1. /\ s \in Seq(T) /\ Len(s) = IF 1 <= m THEN m-1+1 ELSE 0
              /\ \A j \in 1..m-1+1 : s[j] = L.q[1+j-1]
            BY <2>1, <2>3, SubSeqProperties
        <3> QED BY <2>1, <3>1
    <2>5. DOMAIN s = 1..m
        BY <2>4, LenProperties
    <2> HIDE DEF s
    <2>8. \A j \in 1..m : j \in 1..Len(L.q)
        BY <1>0, <2>1
    <2>9. Injective(s)
        BY <1>0, <2>4, <2>5, <2>8 DEF Injective
    <2>6. Injective(s) /\ ToSet(s) \subseteq ToSet(L.q)
        BY <1>0, <2>4, <2>5, <2>8, <2>9 DEF ToSet
    <2>7. i \in ToSet(L.q)
        BY <1>0, <2>1 DEF ToSet
    <2> QED BY <1>0, <2>2, <2>4, <2>6, <2>7 DEF IsList
<1> QED BY <1>1, <1>2

\* sleep_advance keeps what it does not wake, with the elapsed ticks taken off
\* its time; it wakes nobody early and everybody whose time was up before.
LEMMA SleepAdvance ==
    ASSUME NEW T, NEW L, IsList(L, T), Injective(L.q), NEW elapsed \in Nat
    PROVE  /\ IsList(sleep_advance(L, elapsed), T)
           /\ Injective(sleep_advance(L, elapsed).q)
           /\ ToSet(sleep_advance(L, elapsed).q) = ToSet(L.q) \ woken(L, elapsed)
           /\ woken(L, elapsed) \subseteq ToSet(L.q)
           /\ \A t \in woken(L, elapsed) : Time(L, t) =< elapsed
           /\ elapsed > 0 => \A t \in ToSet(L.q) : Time(L, t) = 0 => t \in woken(L, elapsed)
           /\ \A t \in ToSet(L.q) \ woken(L, elapsed) :
                 Time(sleep_advance(L, elapsed), t) = Time(L, t) - elapsed
<1> DEFINE u == Due(L)
           n == Len(L.q)
           P == {j \in 1..n : u[j-1] < elapsed /\ u[j] =< elapsed}
           c == popped(L, elapsed)
           s == SubSeq(L.q, c + 1, n)
           D == [t \in DOMAIN L.delta |->
                       IF \E j \in 1..c : L.q[j] = t THEN 0
                       ELSE IF c < n /\ t = L.q[c+1]
                            THEN L.delta[t] - (elapsed - u[c])
                            ELSE L.delta[t]]
<1>1. sleep_advance(L, elapsed) = [q |-> s, delta |-> D]
    BY DEF sleep_advance
<1>2. /\ n \in Nat /\ DOMAIN L.q = 1..n /\ L.q \in Seq(T) /\ L.delta \in [T -> Nat]
      /\ \A j \in 1..n : L.q[j] \in T
    BY LenProperties, ElementOfSeq DEF IsList
<1>3. /\ u \in [0..n -> Nat] /\ u[0] = 0
      /\ \A j \in 1..n : u[j] = u[j-1] + L.delta[L.q[j]]
    BY <1>2, DueSums
<1>4. \A i, j \in 0..n : i =< j => u[i] =< u[j]
    BY <1>2, DueMonotone
<1>5. c = Cardinality(P)
    BY DEF popped
<1>6. woken(L, elapsed) = {L.q[j] : j \in 1..c}
    BY DEF woken
<1> HIDE DEF u, n, c
<1>7. c \in 0..n /\ P = 1..c
    <2> DEFINE Out == {m \in 1..n+1 : m \notin P}
    <2>1. PICK m \in Out : \A x \in Out : m =< x
        <3>1. n+1 \in Out
            BY <1>2
        <3>2. Out \in SUBSET Nat
            BY <1>2
        <3> HIDE DEF Out
        <3> QED BY <3>1, <3>2, LeastNatural
    <2>2. \A j \in 1..n : j < m => j \in P
        BY <1>2, <2>1
    <2>3. \A j \in 1..n : j >= m => j \notin P
        <3> TAKE j \in 1..n
        <3> HAVE j >= m
        <3>1. m \in 1..n /\ m \notin P /\ m \in 0..n /\ m-1 \in 0..n /\ j-1 \in 0..n /\ j \in 0..n
            BY <1>2, <2>1
        <3>2. u[m] =< u[j] /\ u[m-1] =< u[j-1]
            BY <3>1, <1>4
        <3>3. u[m] \in Nat /\ u[j] \in Nat /\ u[m-1] \in Nat /\ u[j-1] \in Nat
            BY <3>1, <1>3
        <3> QED BY <3>1, <3>2, <3>3
    <2>4. P = 1..m-1
        BY <1>2, <2>1, <2>2, <2>3
    <2>5. Cardinality(1..m-1) = m-1 /\ m-1 \in 0..n
        <3>1. m \in 1..n+1
            OBVIOUS
        <3> HIDE DEF Out, P, s, D
        <3> QED BY <3>1, <1>2, FS_Interval
    <2> QED BY <1>5, <2>4, <2>5
<1>8. u[c] =< elapsed /\ u[c] \in Nat
    <2>1. c = 0 \/ c \in P
        BY <1>2, <1>7
    <2> QED BY <2>1, <1>3, <1>7
<1>9. c < n => L.delta[L.q[c+1]] - (elapsed - u[c]) \in Nat
    <2> HAVE c < n
    <2>1. c+1 \in 1..n /\ c+1 \notin P
        <3> HIDE DEF P, s, D
        <3>1. c+1 \in 1..n /\ c+1 \notin 1..c
            BY <1>2, <1>7
        <3> QED BY <3>1, <1>7
    <2>2. u[c+1] = u[(c+1)-1] + L.delta[L.q[c+1]] /\ (c+1)-1 = c
        BY <2>1, <1>2, <1>3, <1>7
    <2>3. L.delta[L.q[c+1]] \in Nat
        BY <2>1, <1>2
    <2>4. u[c] >= elapsed \/ u[c+1] > elapsed
        BY <2>1, <2>2, <1>3, <1>8
    <2> QED BY <2>2, <2>3, <2>4, <1>8
<1>10. D \in [T -> Nat]
    <2> DEFINE left == L.delta[L.q[c+1]] - (elapsed - u[c])
    <2>1. \A t \in T : D[t] = IF \E j \in 1..c : L.q[j] = t THEN 0
                              ELSE IF c < n /\ t = L.q[c+1] THEN left ELSE L.delta[t]
        BY <1>2
    <2>2. D = [t \in T |-> D[t]]
        BY <1>2
    <2> HIDE DEF D, left
    <2>3. \A t \in T : D[t] \in Nat
        BY <1>2, <1>9, <2>1 DEF left
    <2> QED BY <2>2, <2>3
<1>11. /\ s \in Seq(T) /\ Len(s) = n - c
       /\ \A j \in 1..n-c : s[j] = L.q[c+j]
    <2>1. \A j \in c+1..n : L.q[j] \in T
        BY <1>2, <1>7
    <2>2. /\ s \in Seq(T) /\ Len(s) = IF c+1 <= n THEN n-(c+1)+1 ELSE 0
          /\ \A j \in 1..n-(c+1)+1 : s[j] = L.q[(c+1)+j-1]
        BY <2>1, <1>2, <1>7, SubSeqProperties
    <2> QED BY <2>2, <1>2, <1>7
<1>12. DOMAIN s = 1..n-c
    BY <1>11, LenProperties
<1> HIDE DEF s, D
<1>13. Injective(s)
    <2> SUFFICES ASSUME NEW i \in 1..n-c, NEW j \in 1..n-c, s[i] = s[j]
                 PROVE  i = j
        BY <1>12 DEF Injective
    <2>1. c+i \in 1..n /\ c+j \in 1..n
        BY <1>2, <1>7
    <2>2. L.q[c+i] = L.q[c+j]
        BY <1>11
    <2>3. c+i = c+j
        BY <1>2, <2>1, <2>2 DEF Injective
    <2> QED BY <1>7, <2>3
<1>14. woken(L, elapsed) \subseteq ToSet(L.q)
    BY <1>2, <1>6, <1>7 DEF ToSet
<1>15. \A e \in ToSet(s) : e \in ToSet(L.q) \ woken(L, elapsed)
    <2> SUFFICES ASSUME NEW j \in 1..n-c
                 PROVE  s[j] \in ToSet(L.q) \ woken(L, elapsed)
        BY <1>12 DEF ToSet
    <2>1. c+j \in 1..n /\ c+j \notin 1..c /\ s[j] = L.q[c+j]
        <3>1. c+j \in 1..n /\ c+j \notin 1..c
            BY <1>2, <1>7
        <3>2. s[j] = L.q[c+j]
            BY <1>11
        <3> QED BY <3>1, <3>2
    <2>2. \A m \in 1..c : L.q[m] # L.q[c+j]
        BY <2>1, <1>2, <1>7 DEF Injective
    <2> QED BY <2>1, <2>2, <1>2, <1>6 DEF ToSet
<1>16. ASSUME NEW e \in ToSet(L.q) \ woken(L, elapsed) PROVE e \in ToSet(s)
    <2>1. PICK j \in 1..n : L.q[j] = e
        BY <1>2 DEF ToSet
    <2>2. j \notin 1..c
        BY <2>1, <1>6
    <2>3. j-c \in 1..n-c /\ s[j-c] = L.q[c+(j-c)] /\ c+(j-c) = j
        BY <2>1, <2>2, <1>2, <1>7, <1>11
    <2> QED BY <2>1, <2>3, <1>12 DEF ToSet
<1>17. ToSet(s) = ToSet(L.q) \ woken(L, elapsed)
    BY <1>15, <1>16
<1> DEFINE A == sleep_advance(L, elapsed)
           f == [j \in 0..n-c |-> IF j = 0 THEN 0 ELSE u[c+j] - elapsed]
<1>18. /\ IsList(A, T) /\ A.q = s /\ A.delta = D /\ Injective(A.q)
       /\ ToSet(A.q) = ToSet(L.q) \ woken(L, elapsed)
    BY <1>1, <1>10, <1>11, <1>13, <1>17 DEF IsList
<1>19. \A t \in T : D[t] = IF \E j \in 1..c : L.q[j] = t THEN 0
                           ELSE IF c < n /\ t = L.q[c+1]
                                THEN L.delta[t] - (elapsed - u[c]) ELSE L.delta[t]
    BY <1>2 DEF D
<1>20. \A j, m \in 1..n : L.q[j] = L.q[m] => j = m
    BY <1>2 DEF Injective
<1>21. \A j \in 1..n : Time(L, L.q[j]) = u[j] /\ u[j] \in Nat
    <2> TAKE j \in 1..n
    <2>1. Time(L, L.q[j]) = Due(L)[j]
        BY TimeAt DEF n
    <2>2. j \in 0..n
        BY <1>2
    <2> QED BY <1>3, <2>1, <2>2 DEF u
<1>22. ASSUME NEW j \in 1..n-c PROVE f[j] = f[j-1] + D[s[j]]
    <2>0. /\ c+j \in 1..n /\ j \in 0..n-c /\ j-1 \in 0..n-c /\ (c+j)-1 = c+(j-1)
          /\ c+j \notin 1..c /\ c \in 0..n
        BY <1>2, <1>7
    <2>1. /\ s[j] = L.q[c+j] /\ L.q[c+j] \in T /\ ~ \E m \in 1..c : L.q[m] = s[j]
          /\ L.delta[L.q[c+j]] \in Nat
        <3>1. s[j] = L.q[c+j] /\ L.q[c+j] \in T
            BY <1>2, <1>11, <2>0
        <3>2. ASSUME NEW m \in 1..c PROVE L.q[m] # s[j]
            <4>1. m \in 1..n /\ m # c+j
                BY <1>2, <2>0
            <4> QED BY <1>20, <2>0, <3>1, <4>1
        <3> QED BY <1>2, <3>1, <3>2
    <2>2. /\ u[c+j] = u[c+(j-1)] + L.delta[L.q[c+j]]
          /\ u[c+(j-1)] \in Nat
        <3>1. c+(j-1) \in 0..n
            BY <1>2, <2>0
        <3>2. u[c+j] = u[(c+j)-1] + L.delta[L.q[c+j]]
            BY <1>3, <2>0
        <3> QED BY <1>3, <2>0, <3>1, <3>2
    <2>3. CASE j = 1
        <3>1. D[s[j]] = L.delta[L.q[c+1]] - (elapsed - u[c])
            <4>1. c < n /\ s[j] = L.q[c+1] /\ s[j] \in T
                BY <1>2, <2>0, <2>1, <2>3
            <4> QED BY <1>19, <2>1, <4>1
        <3>2. f[j] = u[c+1] - elapsed /\ f[j-1] = 0 /\ c+(j-1) = c
            BY <2>0, <2>3
        <3> QED BY <1>8, <2>1, <2>2, <2>3, <3>1, <3>2
    <2>4. CASE j # 1
        <3>1. c < n => c+1 \in 1..n /\ c+1 # c+j
            <4>1. j \in Nat /\ c \in Nat /\ n \in Nat
                BY <1>2, <2>0
            <4> QED BY <4>1, <2>4
        <3>2. D[s[j]] = L.delta[L.q[c+j]]
            BY <1>19, <1>20, <2>0, <2>1, <3>1
        <3>3. f[j] = u[c+j] - elapsed /\ f[j-1] = u[c+(j-1)] - elapsed
            BY <2>0, <2>4
        <3> QED BY <2>1, <2>2, <3>2, <3>3
    <2> QED BY <2>3, <2>4
<1>23. f[0] = 0 /\ 0 \in 0..n-c
    BY <1>2, <1>7
<1> HIDE DEF f, A, P
<1>24. \A j \in 0..n-c : f[j] = Due(A)[j]
    <2>1. Len(A.q) = n-c /\ \A j \in 1..Len(A.q) : f[j] = f[j-1] + A.delta[A.q[j]]
        BY <1>11, <1>18, <1>22
    <2> QED BY <1>18, <1>23, <2>1, DueUnique
<1>25. \A j \in 1..n-c : Time(A, s[j]) = u[c+j] - elapsed
    <2> TAKE j \in 1..n-c
    <2>1. Time(A, A.q[j]) = Due(A)[j]
        BY <1>11, <1>18, TimeAt
    <2>2. j \in 0..n-c /\ j # 0
        BY <1>2, <1>7
    <2>3. f[j] = u[c+j] - elapsed
        BY <2>2 DEF f
    <2> QED BY <1>18, <1>24, <2>1, <2>2, <2>3
<1>26. \A t \in woken(L, elapsed) : Time(L, t) =< elapsed
    <2>1. ASSUME NEW j \in 1..c PROVE Time(L, L.q[j]) =< elapsed
        <3>1. j \in 1..n /\ j \in P
            BY <1>2, <1>7
        <3> QED BY <1>21, <3>1 DEF P
    <2> QED BY <1>6, <2>1
<1>27. ASSUME elapsed > 0, NEW t \in ToSet(L.q), Time(L, t) = 0
       PROVE  t \in woken(L, elapsed)
    <2>1. PICK j \in 1..n : L.q[j] = t
        BY <1>2 DEF ToSet
    <2>2. u[j] = 0 /\ j \in 0..n /\ j-1 \in 0..n
        BY <1>2, <1>21, <1>27, <2>1
    <2>3. u[j-1] =< u[j] /\ u[j-1] \in Nat
        <3>1. j-1 =< j
            OBVIOUS
        <3> QED BY <1>3, <1>4, <2>2, <3>1
    <2>4. j \in P
        BY <1>27, <2>2, <2>3 DEF P
    <2> QED BY <1>6, <1>7, <2>1, <2>4
<1>28. ASSUME NEW t \in ToSet(L.q) \ woken(L, elapsed)
       PROVE  Time(A, t) = Time(L, t) - elapsed
    <2>1. PICK j \in 1..n-c : s[j] = t
        BY <1>12, <1>17 DEF ToSet
    <2>2. c+j \in 1..n /\ L.q[c+j] = t
        <3>1. c+j \in 1..n
            BY <1>2, <1>7
        <3> QED BY <1>11, <2>1, <3>1
    <2> QED BY <1>21, <1>25, <2>1, <2>2
<1> QED BY <1>14, <1>18, <1>26, <1>27, <1>28 DEF A

-----------------------------------------------------------------------------
(* The run queues.                                                         *)

RunQueues ==
    [current : Tasks, state : [Tasks -> TaskState], rtq : [Levels -> Seq(RtTasks)],
     sl : [q : Seq(Tasks), delta : [Tasks -> Nat]], need : BOOLEAN, pend : BOOLEAN]

\* The ready queues hold exactly the tasks of F, each once, at its level.
Queued(kk, F) ==
    /\ kk \in RunQueues
    /\ F \subseteq RtTasks
    /\ \A p \in Levels : /\ Injective(kk.rtq[p])
                         /\ ToSet(kk.rtq[p]) = {t \in F : Prio[t] = p}

Accounts ==
    [age : 0..RtWindow-1, used : Nat, throttled : BOOLEAN,
     quantum : [RtTasks -> 1..Quantum], left : 0..DlRuntime \union {1},
     release : -1..DlPeriod, missed : BOOLEAN]

RtReady(kk) == {t \in RtTasks : kk.state[t] = "READY"}

\* Tasks that the sleep queue may hold.
MaySleep == Sleepers \union (Tasks \cap {Deadline})

\* The sleep queue, and the state of the idle task.
Rest(kk) ==
    /\ Injective(kk.sl.q)
    /\ ToSet(kk.sl.q) \subseteq MaySleep
    /\ kk.state[Idle] = "READY"

Good(kk) == Queued(kk, RtReady(kk)) /\ Rest(kk)

\* Every sleeping task is linked, and a linked compiler sleeps.
Linked(kk) ==
    /\ \A t \in Tasks : kk.state[t] = "SLEEP" => t \in ToSet(kk.sl.q)
    /\ Compiler \in ToSet(kk.sl.q) => kk.state[Compiler] = "SLEEP"

\* The parameters as facts about numbers.
LEMMA ParameterFacts ==
    /\ Quantum \in Nat /\ Quantum > 0 /\ RtWindow \in Nat /\ RtWindow > 0
    /\ DlPeriod \in Nat /\ DlPeriod > 0 /\ DlRuntime \in Nat /\ DlRuntime > 0
    /\ RxRing \in Nat /\ RxRing > 0 /\ MaxStep \in Nat /\ MaxStep >= 2
    /\ 0 \in 0..RtWindow-1 /\ Quantum \in 1..Quantum
    /\ DlRuntime \in 0..DlRuntime \union {1} /\ DlPeriod \in -1..DlPeriod
<1>1. \A x \in {Quantum, RtWindow, RtBudget, DlPeriod, DlRuntime, RxRing} : x \in Nat \ {0}
    BY Parameters
<1> QED BY <1>1, Parameters

\* What the task table says of the tasks the kernel names.
LEMMA TableFacts ==
    /\ RtTasks \subseteq LoadTasks /\ LoadTasks \subseteq Tasks
    /\ \A t \in RtTasks : Prio[t] \in Levels /\ t \in {4, 5, 6}
    /\ MaySleep \cap RtTasks = {} /\ MaySleep \subseteq Tasks
    /\ Idle \in Tasks /\ Idle \notin MaySleep /\ Idle \notin RtTasks
    /\ Shell \in Tasks /\ Shell \notin RtTasks
    /\ HalaInit \in Tasks
    /\ FairTasks \cap RtTasks = {}
<1>1. RtTasks \subseteq LoadTasks /\ LoadTasks \subseteq Tasks
    BY TaskTable DEF RtTasks, LoadTasks
<1>2. \A t \in RtTasks : Prio[t] \in Levels /\ t \in {4, 5, 6}
    BY TaskTable DEF Levels
<1>3. FairTasks \cap RtTasks = {}
    BY DEF FairTasks, RtTasks
<1>4. MaySleep \cap RtTasks = {} /\ MaySleep \subseteq Tasks
    BY <1>3, TaskTable DEF MaySleep, FairTasks, Deadline
<1>5. Idle \in Tasks /\ Idle \notin MaySleep /\ Idle \notin RtTasks
    BY TaskTable DEF MaySleep, FairTasks, Deadline, Idle
<1>6. Shell \in Tasks /\ Shell \notin RtTasks
    BY TaskTable DEF Shell
<1>7. HalaInit \in Tasks
    BY TaskTable
<1> QED BY <1>1, <1>2, <1>3, <1>4, <1>5, <1>6, <1>7

-----------------------------------------------------------------------------
(* The ready queues.                                                       *)

\* The fields a ready queue operation leaves alone.
SameButRtq(kk, mm) ==
    /\ mm.current = kk.current /\ mm.state = kk.state /\ mm.sl = kk.sl
    /\ mm.need = kk.need /\ mm.pend = kk.pend

\* rt_enqueue files a real-time task that has just become READY.
LEMMA RtEnqueue ==
    ASSUME NEW kk, NEW F, Queued(kk, F), NEW i \in RtTasks, i \notin F
    PROVE  Queued(rt_enqueue(kk, i), F \union {i}) /\ SameButRtq(kk, rt_enqueue(kk, i))
<1> DEFINE mm == rt_enqueue(kk, i)
           r  == Prio[i]
           s  == kk.rtq[r]
<1>1. r \in Levels /\ s \in Seq(RtTasks) /\ Injective(s) /\ i \notin ToSet(s)
    BY TableFacts DEF Queued, RunQueues
<1>2. /\ Append(s, i) \in Seq(RtTasks) /\ Injective(Append(s, i))
      /\ ToSet(Append(s, i)) = ToSet(s) \union {i}
    BY <1>1, AppendSet
<1>3. mm \in RunQueues /\ SameButRtq(kk, mm)
    BY <1>1, <1>2 DEF Queued, RunQueues, rt_enqueue, SameButRtq
<1>4. \A p \in Levels : mm.rtq[p] = IF p = r THEN Append(s, i) ELSE kk.rtq[p]
    BY <1>1 DEF Queued, RunQueues, rt_enqueue
<1> HIDE DEF mm, s
<1>5. ASSUME NEW p \in Levels
      PROVE  Injective(mm.rtq[p]) /\ ToSet(mm.rtq[p]) = {t \in F \union {i} : Prio[t] = p}
    <2>1. CASE p = r
        BY <2>1, <1>2, <1>4 DEF Queued, s
    <2>2. CASE p # r
        BY <2>2, <1>4 DEF Queued
    <2> QED BY <2>1, <2>2
<1> QED BY <1>3, <1>5 DEF Queued, mm

\* rt_remove takes a task that stops being READY out of its queue.
LEMMA RtRemove ==
    ASSUME NEW kk, NEW F, Queued(kk, F), NEW i
    PROVE  Queued(rt_remove(kk, i), F \ {i}) /\ SameButRtq(kk, rt_remove(kk, i))
<1>1. CASE i \notin RtTasks
    <2>1. rt_remove(kk, i) = kk /\ F \ {i} = F
        BY <1>1 DEF rt_remove, Queued
    <2> QED BY <2>1 DEF SameButRtq
<1>2. CASE i \in RtTasks
    <2> DEFINE mm == rt_remove(kk, i)
               r  == Prio[i]
               s  == kk.rtq[r]
    <2>1. r \in Levels /\ s \in Seq(RtTasks) /\ Injective(s)
        BY <1>2, TableFacts DEF Queued, RunQueues
    <2>2. /\ RemoveFirst(s, i) \in Seq(RtTasks) /\ Injective(RemoveFirst(s, i))
          /\ ToSet(RemoveFirst(s, i)) = ToSet(s) \ {i}
        BY <2>1, RemoveFirstSet
    <2>3. mm \in RunQueues /\ SameButRtq(kk, mm)
        BY <1>2, <2>1, <2>2 DEF Queued, RunQueues, rt_remove, SameButRtq
    <2>4. \A p \in Levels : mm.rtq[p] = IF p = r THEN RemoveFirst(s, i) ELSE kk.rtq[p]
        BY <1>2, <2>1 DEF Queued, RunQueues, rt_remove
    <2> HIDE DEF mm, s
    <2>5. ASSUME NEW p \in Levels
          PROVE  Injective(mm.rtq[p]) /\ ToSet(mm.rtq[p]) = {t \in F \ {i} : Prio[t] = p}
        <3>1. CASE p = r
            BY <3>1, <2>2, <2>4 DEF Queued, s
        <3>2. CASE p # r
            BY <3>2, <2>4 DEF Queued
        <3> QED BY <3>1, <3>2
    <2> QED BY <2>3, <2>5 DEF Queued, mm
<1> QED BY <1>1, <1>2

\* Rotation changes the order of a level, not its tasks.
LEMMA RtRotate ==
    ASSUME NEW kk, NEW F, Queued(kk, F), NEW r \in Levels
    PROVE  Queued(rt_rotate(kk, r), F) /\ SameButRtq(kk, rt_rotate(kk, r))
<1> DEFINE mm == rt_rotate(kk, r)
           s  == kk.rtq[r]
           n  == IF Len(s) < 2 THEN s ELSE Append(Tail(s), Head(s))
<1>1. s \in Seq(RtTasks) /\ Injective(s) /\ Len(s) \in Nat
    BY LenProperties DEF Queued, RunQueues
<1>2. n \in Seq(RtTasks) /\ Injective(n) /\ ToSet(n) = ToSet(s)
    BY <1>1, RotateSet
<1>3. mm = [kk EXCEPT !.rtq[r] = n]
    BY DEF rt_rotate
<1> HIDE DEF n, mm
<1>4. mm \in RunQueues /\ SameButRtq(kk, mm)
    BY <1>2, <1>3 DEF Queued, RunQueues, SameButRtq
<1>5. \A p \in Levels : mm.rtq[p] = IF p = r THEN n ELSE kk.rtq[p]
    BY <1>3 DEF Queued, RunQueues
<1>6. ASSUME NEW p \in Levels
      PROVE  Injective(mm.rtq[p]) /\ ToSet(mm.rtq[p]) = {t \in F : Prio[t] = p}
    BY <1>2, <1>5 DEF Queued
<1> QED BY <1>4, <1>6 DEF Queued, mm

\* The head of the highest level is a READY real-time task.
LEMMA HighestRt ==
    ASSUME NEW kk, NEW F, Queued(kk, F), RtQueued(kk)
    PROVE  highest_rt(kk) \in F
<1> DEFINE full == {p \in Levels : kk.rtq[p] # <<>>}
           m == CHOOSE p \in full : \A r \in full : p =< r
<1>1. full # {} /\ full \in SUBSET Nat
    BY TaskTable DEF RtQueued, Levels, RtTasks
<1>2. m \in full
    <2> HIDE DEF full
    <2> QED BY <1>1, LeastNatural
<1>3. Head(kk.rtq[m]) = kk.rtq[m][1] /\ 1 \in DOMAIN kk.rtq[m]
    <2>1. kk.rtq[m] \in Seq(RtTasks) /\ kk.rtq[m] # <<>>
        BY <1>2 DEF Queued, RunQueues
    <2> HIDE DEF m
    <2> QED BY <2>1, EmptySeq, LenProperties
<1>4. Head(kk.rtq[m]) \in ToSet(kk.rtq[m])
    BY <1>3 DEF ToSet
<1>5. Head(kk.rtq[m]) \in F
    <2>1. ToSet(kk.rtq[m]) = {t \in F : Prio[t] = m}
        BY <1>2 DEF Queued
    <2> QED BY <2>1, <1>4
<1> QED BY <1>5 DEF highest_rt

-----------------------------------------------------------------------------
(* Kernel functions on the run queues.                                     *)

\* A switch request touches two flags only.
LEMMA PendResched ==
    ASSUME NEW kk, Good(kk)
    PROVE  /\ Good(pend_resched(kk))
           /\ pend_resched(kk).need = TRUE /\ pend_resched(kk).pend = TRUE
           /\ pend_resched(kk).current = kk.current
           /\ pend_resched(kk).state = kk.state /\ pend_resched(kk).sl = kk.sl
<1> DEFINE mm == pend_resched(kk)
<1>1. /\ mm \in RunQueues /\ mm.need = TRUE /\ mm.pend = TRUE /\ mm.current = kk.current
      /\ mm.state = kk.state /\ mm.sl = kk.sl /\ mm.rtq = kk.rtq
    BY DEF pend_resched, Good, Queued, RunQueues
<1> HIDE DEF mm
<1>2. RtReady(mm) = RtReady(kk)
    BY <1>1 DEF RtReady
<1>3. Good(mm)
    BY <1>1, <1>2 DEF Good, Queued, Rest
<1> QED BY <1>1, <1>3 DEF mm

\* task_make_ready keeps the run queues.
LEMMA TaskMakeReady ==
    ASSUME NEW kk, Good(kk), NEW i \in Tasks
    PROVE  LET mm == task_make_ready(kk, i)
           IN  /\ Good(mm) /\ mm.current = kk.current /\ mm.pend = kk.pend
               /\ mm.state = [kk.state EXCEPT ![i] = "READY"]
               /\ i \notin ToSet(kk.sl.q) => mm.sl.q = kk.sl.q
<1> DEFINE mm == task_make_ready(kk, i)
           r  == [kk EXCEPT !.state[i] = "READY", !.sl = link_reset(@, i), !.need = TRUE]
<1>1. CASE kk.state[i] = "READY"
    <2>1. mm = kk
        BY <1>1 DEF task_make_ready
    <2>2. kk.state = [kk.state EXCEPT ![i] = "READY"]
        BY <1>1 DEF Good, Queued, RunQueues
    <2> QED BY <2>1, <2>2
<1>2. CASE kk.state[i] # "READY"
    <2>1. mm = IF i \in RtTasks THEN rt_enqueue(r, i) ELSE r
        BY <1>2 DEF task_make_ready
    <2>2. /\ IsList(link_reset(kk.sl, i), Tasks)
          /\ Injective(link_reset(kk.sl, i).q)
          /\ ToSet(link_reset(kk.sl, i).q) \subseteq ToSet(kk.sl.q)
          /\ i \notin ToSet(kk.sl.q) => link_reset(kk.sl, i).q = kk.sl.q
        <3>1. IsList(kk.sl, Tasks) /\ Injective(kk.sl.q)
            BY DEF Good, Queued, Rest, RunQueues, IsList
        <3> QED BY <3>1, LinkReset
    <2>3. /\ r \in RunQueues /\ r.current = kk.current /\ r.pend = kk.pend
          /\ r.state = [kk.state EXCEPT ![i] = "READY"] /\ r.rtq = kk.rtq
          /\ r.sl = link_reset(kk.sl, i)
        BY <2>2 DEF Good, Queued, RunQueues, IsList, TaskState
    <2> HIDE DEF r, mm
    <2>4. Queued(r, RtReady(kk)) /\ Rest(r)
        <3>1. Rest(r)
            BY <2>2, <2>3, TableFacts DEF Good, Queued, RunQueues, Rest
        <3> QED BY <2>3, <3>1 DEF Good, Queued
    <2>5. RtReady(r) = RtReady(kk) \union (RtTasks \cap {i})
        BY <2>3, TableFacts DEF RtReady, Good, Queued, RunQueues
    <2>6. CASE i \in RtTasks
        <3>1. i \notin RtReady(kk)
            BY <1>2 DEF RtReady
        <3>2. Queued(mm, RtReady(kk) \union {i}) /\ SameButRtq(r, mm)
            BY <2>1, <2>4, <2>6, <3>1, RtEnqueue
        <3>3. RtReady(mm) = RtReady(kk) \union {i} /\ Rest(mm)
            BY <2>4, <2>5, <2>6, <3>2 DEF SameButRtq, RtReady, Rest
        <3> QED BY <2>2, <2>3, <3>2, <3>3 DEF Good, SameButRtq, mm
    <2>7. CASE i \notin RtTasks
        <3>1. mm = r /\ RtReady(r) = RtReady(kk)
            BY <2>1, <2>5, <2>7
        <3> QED BY <2>2, <2>3, <2>4, <3>1 DEF Good, mm
    <2> QED BY <2>6, <2>7
<1> QED BY <1>1, <1>2

retire(kk, i, st, L) == [rt_remove(kk, i) EXCEPT !.state[i] = st, !.sl = L]

\* A task other than idle that is taken off the ready queues, loses READY, and
\* keeps a sleep queue of the right kind.
LEMMA Retire ==
    ASSUME NEW kk, Good(kk), NEW i \in Tasks, i # Idle,
           NEW st \in TaskState, st # "READY", NEW L, IsList(L, Tasks), Injective(L.q), ToSet(L.q) \subseteq MaySleep
    PROVE  LET mm == retire(kk, i, st, L)
           IN  /\ Good(mm) /\ mm.current = kk.current /\ mm.pend = kk.pend
               /\ mm.state = [kk.state EXCEPT ![i] = st] /\ mm.sl = L
<1> DEFINE r  == rt_remove(kk, i)
           mm == [r EXCEPT !.state[i] = st, !.sl = L]
<1>1. Queued(r, RtReady(kk) \ {i}) /\ SameButRtq(kk, r)
    BY RtRemove DEF Good
<1> HIDE DEF r
<1>2. /\ mm \in RunQueues /\ mm.current = kk.current /\ mm.pend = kk.pend
      /\ mm.state = [kk.state EXCEPT ![i] = st] /\ mm.sl = L /\ mm.rtq = r.rtq
    BY <1>1 DEF Queued, RunQueues, SameButRtq, IsList
<1> HIDE DEF mm
<1>3. RtReady(mm) = RtReady(kk) \ {i}
    BY <1>2 DEF RtReady, Good, Queued, RunQueues
<1>4. Rest(mm)
    BY <1>2, TableFacts DEF Rest, Good, Queued, RunQueues
<1>5. Queued(mm, RtReady(mm))
    BY <1>1, <1>2, <1>3 DEF Queued
<1>6. Good(mm)
    BY <1>4, <1>5 DEF Good
<1> QED BY <1>2, <1>6 DEF mm, r, retire

\* Good run queues hold a list without repetitions.
LEMMA GoodList ==
    ASSUME NEW kk, Good(kk)
    PROVE  /\ IsList(kk.sl, Tasks) /\ Injective(kk.sl.q) /\ ToSet(kk.sl.q) \subseteq MaySleep
           /\ kk \in RunQueues
BY DEF Good, Queued, Rest, RunQueues, IsList

\* leave_cpu: the current task gives up READY, nobody else changes.
LEMMA LeaveCpu ==
    ASSUME NEW kk, Good(kk), kk.current # Idle
    PROVE  LET mm == leave_cpu(kk)
           IN  /\ Good(mm) /\ mm.current = kk.current /\ mm.pend = kk.pend
               /\ mm.state = [kk.state EXCEPT ![kk.current] = "BLOCKED"] /\ mm.sl = kk.sl
<1> DEFINE c == kk.current
           r == rt_remove(kk, c)
           l == kk.sl
<1>1. c \in Tasks /\ c # Idle /\ "BLOCKED" \in TaskState
    BY GoodList DEF RunQueues, TaskState
<1>2. IsList(l, Tasks) /\ Injective(l.q) /\ ToSet(l.q) \subseteq MaySleep
    BY GoodList
<1>3. r \in RunQueues /\ r.sl = l
    <2>1. Queued(r, RtReady(kk) \ {c}) /\ SameButRtq(kk, r)
        BY RtRemove DEF Good
    <2> QED BY <2>1 DEF Queued, SameButRtq
<1> HIDE DEF c, l
<1>4. leave_cpu(kk) = retire(kk, c, "BLOCKED", l)
    <2> HIDE DEF r
    <2>1. [r EXCEPT !.state[c] = "BLOCKED"] = [r EXCEPT !.state[c] = "BLOCKED", !.sl = l]
        BY <1>3 DEF RunQueues
    <2> QED BY <2>1 DEF leave_cpu, retire, r, c
<1>5. LET mm == retire(kk, c, "BLOCKED", l)
      IN  /\ Good(mm) /\ mm.current = kk.current /\ mm.pend = kk.pend
          /\ mm.state = [kk.state EXCEPT ![c] = "BLOCKED"] /\ mm.sl = l
    BY <1>1, <1>2, Retire
<1> QED BY <1>4, <1>5 DEF c, l

\* block_current_sleep keeps the run queues and asks for a switch.
LEMMA BlockCurrentSleep ==
    ASSUME NEW kk, Good(kk), kk.current \in Sleepers, NEW ticks \in Nat
    PROVE  LET mm == block_current_sleep(kk, ticks)
           IN  /\ Good(mm) /\ mm.current = kk.current /\ mm.need = TRUE
               /\ Linked(kk) => Linked(mm)
<1> DEFINE c == kk.current
           l == kk.sl
           L == sleep_insert(l, c, ticks)
           nn == retire(kk, c, "SLEEP", L)
<1>1. /\ c \in Tasks /\ c # Idle /\ "SLEEP" \in TaskState /\ c \in MaySleep
      /\ kk.state \in [Tasks -> TaskState]
    BY GoodList, TableFacts DEF RunQueues, TaskState, MaySleep
<1>2. IsList(l, Tasks) /\ Injective(l.q) /\ ToSet(l.q) \subseteq MaySleep
    BY GoodList
<1>3. rt_remove(kk, c).sl = l
    <2>1. SameButRtq(kk, rt_remove(kk, c))
        BY RtRemove DEF Good
    <2> QED BY <2>1 DEF SameButRtq
<1> HIDE DEF c, l
<1>4. IsList(L, Tasks) /\ Injective(L.q)
    BY <1>1, <1>2, SleepInsert
<1>5. ToSet(L.q) = ToSet(l.q) \union {c}
    <2>1. c \in Tasks
        BY <1>1
    <2> HIDE DEF nn
    <2> QED BY <2>1, <1>2, SleepInsert
<1>6. ToSet(L.q) \subseteq MaySleep
    BY <1>1, <1>2, <1>5
<1>7. block_current_sleep(kk, ticks) = pend_resched(nn)
    BY <1>3 DEF block_current_sleep, retire, c
<1> HIDE DEF L
<1>8. /\ Good(nn) /\ nn.current = kk.current
      /\ nn.state = [kk.state EXCEPT ![c] = "SLEEP"] /\ nn.sl = L
    BY <1>1, <1>4, <1>6, Retire
<1> HIDE DEF nn
<1>9. Linked(kk) => Linked(nn)
    BY <1>1, <1>5, <1>8 DEF Linked, l
<1>10. LET mm == pend_resched(nn)
       IN  /\ Good(mm) /\ mm.need = TRUE /\ mm.current = nn.current
           /\ mm.state = nn.state /\ mm.sl = nn.sl
    BY <1>8, PendResched
<1>11. Linked(nn) => Linked(pend_resched(nn))
    BY <1>10 DEF Linked
<1> QED BY <1>7, <1>8, <1>9, <1>10, <1>11

\* The scheduler picks a READY task.
LEMMA SchedPickNext ==
    ASSUME NEW kk, Good(kk), NEW aa, NEW n \in sched_pick_next(kk, aa)
    PROVE  n \in Tasks /\ kk.state[n] = "READY"
<1>1. CASE pick_deadline(kk, aa) # {}
    BY <1>1 DEF sched_pick_next, pick_deadline
<1>2. CASE pick_deadline(kk, aa) = {} /\ ~aa.throttled /\ RtQueued(kk)
    <2>1. n = highest_rt(kk)
        BY <1>2 DEF sched_pick_next
    <2>2. n \in RtReady(kk)
        BY <2>1, <1>2, HighestRt DEF Good
    <2> QED BY <2>2, TableFacts DEF RtReady
<1>3. CASE ~(~aa.throttled /\ RtQueued(kk)) /\ pick_deadline(kk, aa) = {}
    <2>1. n \in pick_fair(kk) \union {Idle}
        BY <1>3 DEF sched_pick_next
    <2> QED BY <2>1, TableFacts DEF pick_fair, FairTasks, Good, Rest
<1> QED BY <1>1, <1>2, <1>3

\* A change of the task on the CPU and of the two request flags.
LEMMA Switch ==
    ASSUME NEW kk, Good(kk), NEW mm \in RunQueues,
           mm.state = kk.state, mm.rtq = kk.rtq, mm.sl = kk.sl
    PROVE  Good(mm) /\ (Linked(kk) => Linked(mm))
<1>1. RtReady(mm) = RtReady(kk)
    BY DEF RtReady
<1>2. Queued(mm, RtReady(mm)) /\ Rest(mm)
    BY <1>1 DEF Good, Queued, Rest
<1> QED BY <1>2 DEF Good, Linked

\* The current task is READY unless a switch is pended.
Runnable(kk) == ~kk.pend => kk.state[kk.current] = "READY"

\* After hala_schedule_next a READY task is on the CPU.
LEMMA HalaScheduleNext ==
    ASSUME NEW kk, Good(kk), NEW aa, NEW nn \in hala_schedule_next(kk, aa)
    PROVE  LET mm == [nn EXCEPT !.pend = FALSE]
           IN  Good(mm) /\ Runnable(mm) /\ (Linked(kk) => Linked(mm))
<1>1. PICK n \in sched_pick_next(kk, aa) : nn = [kk EXCEPT !.current = n, !.need = FALSE]
    BY DEF hala_schedule_next
<1>2. n \in Tasks /\ kk.state[n] = "READY"
    BY SchedPickNext
<1> DEFINE mm == [nn EXCEPT !.pend = FALSE]
<1>3. /\ mm \in RunQueues /\ mm.current = n
      /\ mm.state = kk.state /\ mm.rtq = kk.rtq /\ mm.sl = kk.sl
    <2>1. kk \in RunQueues
        BY GoodList
    <2>2. mm = [kk EXCEPT !.current = n, !.need = FALSE, !.pend = FALSE]
        BY <1>1, <2>1 DEF RunQueues
    <2> HIDE DEF mm
    <2> QED BY <1>2, <2>1, <2>2 DEF RunQueues
<1> HIDE DEF mm
<1>4. Good(mm) /\ (Linked(kk) => Linked(mm))
    BY <1>3, Switch
<1>5. Runnable(mm)
    BY <1>2, <1>3 DEF Runnable
<1> QED BY <1>4, <1>5 DEF mm

\* A system call returns to a READY task, if it asked for a switch whenever it
\* took READY away from the current task.
LEMMA SvcHandler ==
    ASSUME NEW kk, Good(kk), NEW aa, NEW nn \in SVC_Handler(kk, aa),
           kk.need = TRUE \/ Runnable(kk)
    PROVE  Good(nn) /\ Runnable(nn) /\ (Linked(kk) => Linked(nn))
<1>1. CASE kk.need
    <2>1. PICK mm \in hala_schedule_next(kk, aa) : nn = [mm EXCEPT !.pend = FALSE]
        BY <1>1 DEF SVC_Handler
    <2> QED BY <2>1, HalaScheduleNext
<1>2. CASE ~kk.need
    BY <1>2 DEF SVC_Handler
<1> QED BY <1>1, <1>2

-----------------------------------------------------------------------------
(* Applications and load generators.                                       *)

\* demo_block_task takes one task off every queue.
LEMMA DemoBlockTask ==
    ASSUME NEW kk, Good(kk), NEW i \in Nat, i # Idle
    PROVE  LET mm == demo_block_task(kk, i)
           IN  /\ Good(mm)
               /\ Linked(kk) => Linked(mm)
               /\ ToSet(mm.sl.q) = ToSet(kk.sl.q) \ {i}
<1>1. CASE i \notin Tasks
    <2>1. demo_block_task(kk, i) = kk
        BY <1>1 DEF demo_block_task
    <2>2. i \notin ToSet(kk.sl.q)
        BY <1>1, GoodList, TableFacts
    <2> QED BY <2>1, <2>2
<1>2. CASE i \in Tasks
    <2> DEFINE l == kk.sl
               R == sleep_remove(l, i)
               L == [R EXCEPT !.delta[i] = 0]
               nn == retire(kk, i, "BLOCKED", L)
    <2>1. IsList(l, Tasks) /\ Injective(l.q) /\ ToSet(l.q) \subseteq MaySleep
        BY GoodList
    <2>2. rt_remove(kk, i).sl = l
        <3>1. SameButRtq(kk, rt_remove(kk, i))
            BY RtRemove DEF Good
        <3> QED BY <3>1 DEF SameButRtq
    <2>3. demo_block_task(kk, i) = nn
        BY <1>2, <2>2 DEF demo_block_task, retire
    <2> HIDE DEF l
    <2>4. IsList(R, Tasks) /\ Injective(R.q)
        BY <2>1, SleepRemove
    <2>5. ToSet(R.q) = ToSet(l.q) \ {i}
        <3> HIDE DEF nn, L
        <3> QED BY <2>1, SleepRemove
    <2> HIDE DEF R
    <2>6. IsList(L, Tasks) /\ L.q = R.q
        BY <1>2, <2>4 DEF IsList
    <2>7. Injective(L.q) /\ ToSet(L.q) = ToSet(l.q) \ {i} /\ ToSet(L.q) \subseteq MaySleep
        BY <2>1, <2>4, <2>5, <2>6
    <2> HIDE DEF L
    <2>8. "BLOCKED" \in TaskState
        BY DEF TaskState
    <2>9. Good(nn) /\ nn.state = [kk.state EXCEPT ![i] = "BLOCKED"] /\ nn.sl = L
        BY <1>2, <2>6, <2>7, <2>8, Retire
    <2> HIDE DEF nn
    <2>10. kk.state \in [Tasks -> TaskState]
        BY GoodList DEF RunQueues
    <2>11. Linked(kk) => Linked(nn)
        BY <1>2, <2>7, <2>9, <2>10 DEF Linked, l
    <2> QED BY <2>3, <2>7, <2>9, <2>11 DEF l
<1> QED BY <1>1, <1>2

\* demo_stop keeps the run queues and leaves the three tasks out of the sleep queue.
LEMMA DemoStop ==
    ASSUME NEW kk, Good(kk)
    PROVE  LET mm == demo_stop(kk)
           IN  /\ Good(mm) /\ mm.need = TRUE /\ mm.pend = TRUE
               /\ Linked(kk) => Linked(mm)
               /\ ToSet(mm.sl.q) \cap {Vm, WorkerA, WorkerB} = {}
<1> DEFINE x == demo_block_task(kk, Vm)
           y == demo_block_task(x, WorkerA)
           z == demo_block_task(y, WorkerB)
           mm == pend_resched(z)
<1>0. /\ Vm \in Nat /\ WorkerA \in Nat /\ WorkerB \in Nat
      /\ Vm # Idle /\ WorkerA # Idle /\ WorkerB # Idle
    BY DEF Vm, WorkerA, WorkerB, Idle
<1>1. Good(x) /\ (Linked(kk) => Linked(x)) /\ ToSet(x.sl.q) = ToSet(kk.sl.q) \ {Vm}
    BY <1>0, DemoBlockTask
<1> HIDE DEF x
<1>2. Good(y) /\ (Linked(x) => Linked(y)) /\ ToSet(y.sl.q) = ToSet(x.sl.q) \ {WorkerA}
    BY <1>0, <1>1, DemoBlockTask
<1> HIDE DEF y
<1>3. Good(z) /\ (Linked(y) => Linked(z)) /\ ToSet(z.sl.q) = ToSet(y.sl.q) \ {WorkerB}
    BY <1>0, <1>2, DemoBlockTask
<1> HIDE DEF z
<1>4. Good(mm) /\ mm.need = TRUE /\ mm.pend = TRUE /\ mm.state = z.state /\ mm.sl = z.sl
    BY <1>3, PendResched
<1>5. demo_stop(kk) = mm
    BY DEF demo_stop, x, y, z
<1> HIDE DEF mm
<1>6. Linked(z) => Linked(mm)
    BY <1>4 DEF Linked
<1>7. ToSet(mm.sl.q) \cap {Vm, WorkerA, WorkerB} = {}
    BY <1>1, <1>2, <1>3, <1>4
<1> QED BY <1>1, <1>2, <1>3, <1>4, <1>5, <1>6, <1>7

\* Making ready a task that is not in the sleep queue unlinks nobody.
LEMMA MakeReadyLinked ==
    ASSUME NEW kk, Good(kk), NEW i \in Tasks, i \notin ToSet(kk.sl.q)
    PROVE  LET mm == task_make_ready(kk, i)
           IN  /\ Good(mm) /\ mm.pend = kk.pend /\ mm.current = kk.current
               /\ mm.sl.q = kk.sl.q /\ (Linked(kk) => Linked(mm))
<1> DEFINE mm == task_make_ready(kk, i)
<1>1. /\ Good(mm) /\ mm.pend = kk.pend /\ mm.current = kk.current
      /\ mm.state = [kk.state EXCEPT ![i] = "READY"] /\ mm.sl.q = kk.sl.q
    BY TaskMakeReady
<1> HIDE DEF mm
<1>2. Linked(kk) => Linked(mm)
    BY <1>1, GoodList DEF Linked, RunQueues
<1> QED BY <1>1, <1>2 DEF mm

\* demo_start, for each kind of application.
LEMMA DemoStart ==
    ASSUME NEW kk, Good(kk), NEW type \in AppTypes, {WorkerA, WorkerB} \subseteq Tasks,
           type = "bytecode" => Vm \in Tasks
    PROVE  LET mm == demo_start(kk, type)
           IN  Good(mm) /\ Runnable(mm) /\ (Linked(kk) => Linked(mm))
<1> DEFINE s == demo_stop(kk)
           x == task_make_ready(s, WorkerA)
           y == task_make_ready(x, WorkerB)
           z == task_make_ready(s, Vm)
<1>1. /\ Good(s) /\ s.need = TRUE /\ s.pend = TRUE
      /\ Linked(kk) => Linked(s)
      /\ ToSet(s.sl.q) \cap {Vm, WorkerA, WorkerB} = {}
    BY DemoStop
<1>2. type \in {"threads", "single", "bytecode"}
    BY Parameters
<1>3. demo_start(kk, type) = IF type = "threads" THEN y
                             ELSE IF type = "single" THEN x ELSE z
    BY <1>2 DEF demo_start
<1> HIDE DEF s
<1>4. Good(x) /\ x.pend = TRUE /\ x.sl.q = s.sl.q /\ (Linked(s) => Linked(x))
    BY <1>1, MakeReadyLinked
<1> HIDE DEF x
<1>5. Good(y) /\ y.pend = TRUE /\ (Linked(x) => Linked(y))
    <2>1. WorkerB \notin ToSet(x.sl.q)
        BY <1>1, <1>4
    <2> QED BY <2>1, <1>4, MakeReadyLinked
<1>6. Vm \in Tasks => Good(z) /\ z.pend = TRUE /\ (Linked(s) => Linked(z))
    BY <1>1, MakeReadyLinked
<1> HIDE DEF y, z
<1>7. CASE type = "threads"
    BY <1>1, <1>3, <1>4, <1>5, <1>7 DEF Runnable
<1>8. CASE type = "single"
    BY <1>1, <1>3, <1>4, <1>8 DEF Runnable
<1>9. CASE type = "bytecode"
    BY <1>1, <1>3, <1>6, <1>9 DEF Runnable
<1> QED BY <1>2, <1>7, <1>8, <1>9

\* load_disable_all empties the ready queues.
LEMMA LoadDisableAll ==
    ASSUME NEW kk, Good(kk)
    PROVE  LET mm == load_disable_all(kk)
           IN  /\ Good(mm) /\ RtReady(mm) = {} /\ mm.pend = TRUE
               /\ Linked(kk) => Linked(mm)
<1> DEFINE F == ((RtReady(kk) \ {4}) \ {5}) \ {6}
           x == rt_remove(kk, 4)
           y == rt_remove(x, 5)
           d == rt_remove(y, 6)
           st == [t \in Tasks |-> IF t \in LoadTasks THEN "BLOCKED" ELSE d.state[t]]
           r == [d EXCEPT !.state = st]
<1>1. Queued(x, RtReady(kk) \ {4}) /\ SameButRtq(kk, x)
    BY RtRemove DEF Good
<1> HIDE DEF x
<1>2. Queued(y, (RtReady(kk) \ {4}) \ {5}) /\ SameButRtq(x, y)
    BY <1>1, RtRemove
<1> HIDE DEF y
<1>3. Queued(d, F) /\ SameButRtq(y, d)
    BY <1>2, RtRemove
<1>4. F = {}
    BY TableFacts DEF RtReady
<1>5. SameButRtq(kk, d)
    BY <1>1, <1>2, <1>3 DEF SameButRtq
<1>6. load_disable_all(kk) = pend_resched(r)
    BY DEF load_disable_all, x, y
<1> HIDE DEF d, F
<1>7. st \in [Tasks -> TaskState]
    BY <1>3 DEF Queued, RunQueues, TaskState
<1>8. /\ \A t \in RtTasks : st[t] # "READY"
      /\ st[Idle] = "READY"
      /\ \A t \in Tasks : st[t] = "SLEEP" => kk.state[t] = "SLEEP"
      /\ Compiler \in Tasks => st[Compiler] = kk.state[Compiler]
    <2>1. Idle \notin LoadTasks /\ Compiler \notin LoadTasks
        BY DEF LoadTasks, Idle, Compiler
    <2> QED BY <2>1, <1>5, TableFacts DEF SameButRtq, Good, Rest
<1> HIDE DEF st
<1>9. /\ r \in RunQueues /\ r.state = st /\ r.sl = kk.sl /\ r.rtq = d.rtq
    BY <1>3, <1>5, <1>7 DEF Queued, RunQueues, SameButRtq
<1> HIDE DEF r
<1>10. RtReady(r) = {}
    BY <1>8, <1>9 DEF RtReady
<1>11. Good(r)
    <2>1. Queued(r, {})
        BY <1>3, <1>4, <1>9 DEF Queued
    <2>2. Rest(r)
        BY <1>8, <1>9 DEF Good, Rest
    <2> QED BY <2>1, <2>2, <1>10 DEF Good
<1>12. Linked(kk) => Linked(r)
    BY <1>8, <1>9, GoodList, TableFacts DEF Linked
<1>13. LET mm == pend_resched(r)
       IN  Good(mm) /\ mm.pend = TRUE /\ mm.state = r.state /\ mm.sl = r.sl
    BY <1>11, PendResched
<1>14. RtReady(pend_resched(r)) = {} /\ (Linked(r) => Linked(pend_resched(r)))
    BY <1>10, <1>13 DEF RtReady, Linked
<1> QED BY <1>6, <1>12, <1>13, <1>14

enqIf(kk, on, i) == IF i \in on THEN rt_enqueue(kk, i) ELSE kk

\* The conditional enqueue of load_enable.
LEMMA EnqIf ==
    ASSUME NEW kk, NEW F, Queued(kk, F), NEW on, NEW i, i \in on => i \in RtTasks, i \notin F
    PROVE  Queued(enqIf(kk, on, i), F \union (on \cap {i})) /\ SameButRtq(kk, enqIf(kk, on, i))
<1>1. CASE i \in on
    <2>1. on \cap {i} = {i} /\ enqIf(kk, on, i) = rt_enqueue(kk, i)
        BY <1>1 DEF enqIf
    <2> QED BY <1>1, <2>1, RtEnqueue
<1>2. CASE i \notin on
    <2>1. F \union (on \cap {i}) = F /\ enqIf(kk, on, i) = kk
        BY <1>2 DEF enqIf
    <2> QED BY <2>1 DEF SameButRtq
<1> QED BY <1>1, <1>2

\* load_enable rebuilds the ready queues it has emptied.
LEMMA LoadEnable ==
    ASSUME NEW kk, Good(kk), NEW mode
    PROVE  LET mm == load_enable(kk, mode)
           IN  Good(mm) /\ Runnable(mm) /\ (Linked(kk) => Linked(mm))
<1> DEFINE on == started(mode)
           d == load_disable_all(kk)
           st == [t \in Tasks |-> IF t \in on THEN "READY" ELSE d.state[t]]
           r == [d EXCEPT !.state = st]
           x == enqIf(r, on, 4)
           y == enqIf(x, on, 5)
           z == enqIf(y, on, 6)
           F == ((on \cap {4}) \union (on \cap {5})) \union (on \cap {6})
<1>1. on \subseteq LoadTasks /\ on \cap {4, 5, 6} = on \cap RtTasks
    <2>1. on \subseteq LoadTasks
        BY DEF started
    <2> QED BY <2>1, TaskTable DEF LoadTasks
<1>2. /\ Good(d) /\ RtReady(d) = {} /\ d.pend = TRUE
      /\ Linked(kk) => Linked(d)
    BY LoadDisableAll
<1>3. load_enable(kk, mode) = pend_resched(z)
    BY DEF load_enable, enqIf
<1> HIDE DEF on, d
<1>4. st \in [Tasks -> TaskState]
    BY <1>2, GoodList DEF RunQueues, TaskState
<1>5. /\ \A t \in RtTasks : st[t] = "READY" <=> t \in on
      /\ st[Idle] = "READY"
      /\ \A t \in Tasks : st[t] = "SLEEP" => d.state[t] = "SLEEP"
      /\ Compiler \in Tasks => st[Compiler] = d.state[Compiler]
    <2>1. Compiler \notin on
        BY <1>1 DEF LoadTasks, Compiler
    <2> QED BY <2>1, <1>2, TableFacts DEF Good, Rest, RtReady
<1> HIDE DEF st
<1>6. /\ r \in RunQueues /\ r.state = st /\ r.sl = d.sl /\ r.rtq = d.rtq
    <2>1. d \in RunQueues
        BY <1>2, GoodList
    <2> QED BY <2>1, <1>4 DEF RunQueues
<1> HIDE DEF r
<1>7. Queued(r, {})
    BY <1>2, <1>6 DEF Good, Queued
<1>8. /\ 4 \in on => 4 \in RtTasks
      /\ 5 \in on => 5 \in RtTasks
      /\ 6 \in on => 6 \in RtTasks
    BY <1>1
<1>9. Queued(x, on \cap {4}) /\ SameButRtq(r, x)
    <2>1. Queued(x, {} \union (on \cap {4})) /\ SameButRtq(r, x)
        BY <1>7, <1>8, EnqIf
    <2>2. {} \union (on \cap {4}) = on \cap {4}
        OBVIOUS
    <2> QED BY <2>1, <2>2
<1> HIDE DEF x
<1>10. Queued(y, (on \cap {4}) \union (on \cap {5})) /\ SameButRtq(x, y)
    <2>1. 5 \notin on \cap {4}
        OBVIOUS
    <2> QED BY <2>1, <1>8, <1>9, EnqIf
<1> HIDE DEF y
<1>11. Queued(z, F) /\ SameButRtq(y, z)
    <2>1. 6 \notin (on \cap {4}) \union (on \cap {5})
        OBVIOUS
    <2> QED BY <2>1, <1>8, <1>10, EnqIf
<1> HIDE DEF z
<1>12. SameButRtq(r, z)
    BY <1>9, <1>10, <1>11 DEF SameButRtq
<1>13. F = RtReady(z)
    <2>1. F = on \cap RtTasks
        BY <1>1
    <2> HIDE DEF F
    <2> QED BY <2>1, <1>5, <1>6, <1>12 DEF SameButRtq, RtReady
<1>14. Good(z)
    <2>1. Rest(z)
        BY <1>2, <1>5, <1>6, <1>12 DEF SameButRtq, Good, Rest
    <2> QED BY <2>1, <1>11, <1>13 DEF Good
<1>15. Linked(d) => Linked(z)
    BY <1>2, <1>5, <1>6, <1>12, GoodList, TableFacts DEF Linked, SameButRtq
<1>16. LET mm == pend_resched(z)
       IN  Good(mm) /\ mm.pend = TRUE /\ mm.state = z.state /\ mm.sl = z.sl
    BY <1>14, PendResched
<1>17. Runnable(pend_resched(z)) /\ (Linked(z) => Linked(pend_resched(z)))
    BY <1>16 DEF Runnable, Linked
<1> QED BY <1>2, <1>3, <1>15, <1>16, <1>17

-----------------------------------------------------------------------------
(* The tick, and the character interrupt.                                  *)

\* The wake-ups of a tick keep the run queues.
LEMMA WakeSleepersGood ==
    ASSUME NEW kk, Good(kk), NEW step \in Nat
    PROVE  LET mm == WakeSleepers(kk, step)
           IN  /\ Good(mm) /\ mm.current = kk.current
               /\ Linked(kk) => Linked(mm)
               /\ Runnable(kk) => Runnable(mm)
<1> DEFINE l  == kk.sl
           W  == woken(l, step)
           L  == sleep_advance(l, step)
           st == [t \in Tasks |-> IF t \in W THEN "READY" ELSE kk.state[t]]
           nd == kk.need \/ \E t \in W : kk.state[t] # "READY"
           mm == [kk EXCEPT !.sl = L, !.state = st, !.need = nd]
<1>1. IsList(l, Tasks) /\ Injective(l.q) /\ ToSet(l.q) \subseteq MaySleep /\ kk \in RunQueues
    BY GoodList
<1>2. WakeSleepers(kk, step) = mm
    BY DEF WakeSleepers
<1> HIDE DEF l
<1>3. IsList(L, Tasks) /\ Injective(L.q) /\ W \subseteq ToSet(l.q)
    BY <1>1, SleepAdvance
<1>4. ToSet(L.q) = ToSet(l.q) \ W
    BY <1>1, SleepAdvance
<1> HIDE DEF W, L
<1>5. st \in [Tasks -> TaskState] /\ nd \in BOOLEAN
    BY <1>1 DEF RunQueues, TaskState
<1>6. /\ \A t \in RtTasks : st[t] = kk.state[t]
      /\ st[Idle] = "READY"
      /\ \A t \in Tasks : st[t] = IF t \in W THEN "READY" ELSE kk.state[t]
    BY <1>1, <1>3, TableFacts DEF Good, Rest
<1> HIDE DEF st, nd
<1>7. /\ mm \in RunQueues /\ mm.state = st /\ mm.sl = L /\ mm.rtq = kk.rtq
      /\ mm.current = kk.current /\ mm.pend = kk.pend
    BY <1>1, <1>3, <1>5 DEF RunQueues, IsList
<1> HIDE DEF mm
<1>8. RtReady(mm) = RtReady(kk)
    BY <1>6, <1>7 DEF RtReady
<1>9. Rest(mm)
    BY <1>1, <1>3, <1>4, <1>6, <1>7 DEF Rest
<1>10. Good(mm)
    BY <1>7, <1>8, <1>9 DEF Good, Queued
<1>11. Linked(kk) => Linked(mm)
    BY <1>1, <1>4, <1>6, <1>7, TableFacts DEF Linked, l
<1>12. Runnable(kk) => Runnable(mm)
    BY <1>1, <1>6, <1>7 DEF Runnable, RunQueues
<1> QED BY <1>2, <1>7, <1>10, <1>11, <1>12

\* What the tick leaves: a current task that lost READY is about to be switched
\* away from.
Ticked(kk, mm) ==
    /\ Good(mm) /\ mm.current = kk.current
    /\ Runnable(kk) => Runnable(mm)
    /\ Linked(kk) => Linked(mm)

\* A switch request after accounting keeps what accounting keeps.
LEMMA TickedPend ==
    ASSUME NEW kk, Good(kk)
    PROVE  Ticked(kk, pend_resched(kk))
<1>1. LET mm == pend_resched(kk)
      IN  /\ Good(mm) /\ mm.pend = TRUE /\ mm.current = kk.current
          /\ mm.state = kk.state /\ mm.sl = kk.sl
    BY PendResched
<1> QED BY <1>1 DEF Ticked, Runnable, Linked

\* deadline_account: the task stays or goes to sleep linked.
LEMMA DeadlineAccount ==
    ASSUME NEW kk, Good(kk), NEW aa \in Accounts, NEW step \in Nat,
           Policy[kk.current] = "DEADLINE"
    PROVE  Ticked(kk, deadline_account(kk, aa, step)[1])
<1> DEFINE c == kk.current
           l == kk.sl
           wait == IF aa.release > 0 THEN aa.release ELSE DlPeriod
           L == sleep_insert(l, c, wait)
           nn == retire(kk, c, "SLEEP", L)
           w == [kk EXCEPT !.state[c] = "SLEEP", !.sl = L]
<1>1. /\ c \in Tasks /\ c # Idle /\ "SLEEP" \in TaskState /\ c \in MaySleep
      /\ kk.state \in [Tasks -> TaskState] /\ c \notin RtTasks
    <2>1. c \in Tasks /\ kk.state \in [Tasks -> TaskState]
        BY GoodList DEF RunQueues
    <2>2. c = Deadline /\ c \notin RtTasks
        BY <2>1, TaskTable DEF RtTasks
    <2> QED BY <2>1, <2>2 DEF TaskState, MaySleep, Idle, Deadline
<1>2. IsList(l, Tasks) /\ Injective(l.q) /\ ToSet(l.q) \subseteq MaySleep
    BY GoodList
<1>3. deadline_account(kk, aa, step)[1] \in {kk, pend_resched(w)}
    BY DEF deadline_account
<1>4. w = nn
    <2>1. rt_remove(kk, c) = kk
        BY <1>1 DEF rt_remove
    <2> HIDE DEF c, L
    <2> QED BY <2>1 DEF retire
<1> HIDE DEF c, l
<1>7. wait \in Nat
    BY ParameterFacts DEF Accounts
<1>5. Ticked(kk, pend_resched(w))
    <2> HIDE DEF wait
    <2>1. IsList(L, Tasks) /\ Injective(L.q)
        BY <1>1, <1>2, <1>7, SleepInsert
    <2>2. ToSet(L.q) = ToSet(l.q) \union {c}
        <3>1. c \in Tasks
            BY <1>1
        <3> HIDE DEF nn, w
        <3> QED BY <3>1, <1>2, <1>7, SleepInsert
    <2>3. ToSet(L.q) \subseteq MaySleep
        BY <1>1, <1>2, <2>2
    <2> HIDE DEF L, w
    <2>4. /\ Good(nn) /\ nn.current = kk.current
          /\ nn.state = [kk.state EXCEPT ![c] = "SLEEP"] /\ nn.sl = L
        BY <1>1, <2>1, <2>3, Retire
    <2> HIDE DEF nn
    <2>5. Linked(kk) => Linked(nn)
        BY <1>1, <2>2, <2>4 DEF Linked, l
    <2>6. Ticked(nn, pend_resched(nn)) /\ Runnable(pend_resched(nn))
        BY <2>4, TickedPend, PendResched DEF Runnable
    <2> QED BY <1>4, <2>4, <2>5, <2>6 DEF Ticked
<1>6. Ticked(kk, kk)
    BY DEF Ticked
<1> QED BY <1>3, <1>5, <1>6

\* rr_account: the task stays or is rotated.
LEMMA RrAccount ==
    ASSUME NEW kk, Good(kk), NEW aa, NEW step, kk.current \in RtTasks
    PROVE  Ticked(kk, rr_account(kk, aa, step)[1])
<1> DEFINE r == rt_rotate(kk, Prio[kk.current])
<1>1. Queued(r, RtReady(kk)) /\ SameButRtq(kk, r)
    <2>1. Prio[kk.current] \in Levels
        BY TableFacts
    <2> QED BY <2>1, RtRotate DEF Good
<1>2. rr_account(kk, aa, step)[1] \in {kk, pend_resched(r)}
    BY DEF rr_account
<1> HIDE DEF r
<1>3. Ticked(kk, r)
    BY <1>1 DEF Good, SameButRtq, RtReady, Rest, Linked, Ticked, Runnable
<1>4. Ticked(r, pend_resched(r))
    BY <1>3, TickedPend DEF Ticked
<1>5. Ticked(kk, kk) /\ Ticked(kk, pend_resched(r))
    BY <1>3, <1>4 DEF Ticked
<1> QED BY <1>2, <1>5

\* account, in every case of its CASE, on the run queues and on the accounts.
LEMMA Account ==
    ASSUME NEW kk, Good(kk), NEW aa \in Accounts, NEW step \in Nat, step > 0,
           NEW r \in account(kk, aa, step)
    PROVE  Ticked(kk, r[1]) /\ r[2] \in Accounts
<1>0. kk.current \in Tasks /\ Ticked(kk, kk)
    BY GoodList DEF RunQueues, Ticked
<1>1. CASE Policy[kk.current] = "RR"
    <2>1. r = rr_account(kk, aa, step) /\ kk.current \in RtTasks
        BY <1>0, <1>1 DEF account, RtTasks, FairTasks
    <2>2. Ticked(kk, r[1])
        BY <2>1, RrAccount
    <2>3. r[2] \in Accounts
        <3> DEFINE c == kk.current
        <3>1. CASE step >= aa.quantum[c]
            <4>1. r[2] = [aa EXCEPT !.quantum[c] = Quantum]
                BY <2>1, <3>1 DEF rr_account
            <4> QED BY <2>1, <4>1, ParameterFacts DEF Accounts
        <3>2. CASE ~(step >= aa.quantum[c])
            <4>1. r[2] = [aa EXCEPT !.quantum[c] = @ - step]
                BY <2>1, <3>2 DEF rr_account
            <4>2. aa.quantum[c] - step \in 1..Quantum
                BY <2>1, <3>2, ParameterFacts DEF Accounts
            <4> QED BY <2>1, <4>1, <4>2 DEF Accounts
        <3> QED BY <3>1, <3>2
    <2> QED BY <2>2, <2>3
<1>2. CASE Policy[kk.current] = "DEADLINE"
    <2>1. r = deadline_account(kk, aa, step)
        BY <1>2 DEF account, FairTasks
    <2>2. Ticked(kk, r[1])
        BY <1>2, <2>1, DeadlineAccount
    <2>3. r[2] = [aa EXCEPT !.left = Sub(@, step), !.missed = @ \/ aa.release < 0]
        BY <2>1 DEF deadline_account
    <2>4. Sub(aa.left, step) \in 0..DlRuntime \union {1}
        BY ParameterFacts DEF Accounts, Sub
    <2>5. (aa.missed \/ aa.release < 0) \in BOOLEAN
        OBVIOUS
    <2>6. r[2] \in Accounts
        BY <2>3, <2>4, <2>5 DEF Accounts
    <2> QED BY <2>2, <2>6
<1>3. CASE Policy[kk.current] \notin {"RR", "DEADLINE"}
    <2>1. r \in {<<kk, aa>>, <<pend_resched(kk), aa>>}
        BY <1>3 DEF account
    <2>2. Ticked(kk, pend_resched(kk))
        BY TickedPend
    <2> QED BY <1>0, <2>1, <2>2
<1> QED BY <1>1, <1>2, <1>3

\* rt_account changes no queue and keeps its ranges.
LEMMA RtAccount ==
    ASSUME NEW kk, Good(kk), NEW aa \in Accounts, NEW step \in Nat
    PROVE  LET r == rt_account(kk, aa, step)
           IN  Ticked(kk, r[1]) /\ r[2] \in Accounts
<1> DEFINE r == rt_account(kk, aa, step)
           age == aa.age + step
           w == IF age >= RtWindow
                THEN [aa EXCEPT !.age = 0, !.used = 0, !.throttled = FALSE]
                ELSE [aa EXCEPT !.age = age]
           u == IF kk.current \in RtTasks THEN [w EXCEPT !.used = @ + step] ELSE w
<1>1. w \in Accounts
    <2>1. [aa EXCEPT !.age = 0, !.used = 0, !.throttled = FALSE] \in Accounts
        BY ParameterFacts DEF Accounts
    <2>2. ~(age >= RtWindow) => age \in 0..RtWindow-1
        BY ParameterFacts DEF Accounts
    <2>3. age \in 0..RtWindow-1 => [aa EXCEPT !.age = age] \in Accounts
        <3> HIDE DEF age
        <3> QED BY DEF Accounts
    <2> QED BY <2>1, <2>2, <2>3
<1> HIDE DEF w
<1>2. u \in Accounts
    BY <1>1 DEF Accounts
<1>3. \/ r[1] = kk /\ r[2] = u
      \/ r[1] = pend_resched(kk) /\ r[2] = [u EXCEPT !.throttled = TRUE]
    BY DEF rt_account, w
<1> HIDE DEF r, u
<1>4. [u EXCEPT !.throttled = TRUE] \in Accounts
    BY <1>2 DEF Accounts
<1>5. Ticked(kk, kk) /\ Ticked(kk, pend_resched(kk))
    BY TickedPend DEF Ticked
<1> QED BY <1>2, <1>3, <1>4, <1>5 DEF r

\* A release keeps the ranges of the accounts.
LEMMA ReleaseType ==
    ASSUME NEW kk, NEW aa \in Accounts, NEW step \in Nat
    PROVE  Release(kk, aa, step) \in Accounts
<1>1. CASE Deadline \in woken(kk.sl, step)
    BY <1>1, ParameterFacts DEF Release, Accounts
<1>2. CASE Deadline \notin woken(kk.sl, step)
    <2>1. (IF aa.release >= step THEN aa.release - step ELSE -1) \in -1..DlPeriod
        BY ParameterFacts DEF Accounts
    <2> QED BY <1>2, <2>1 DEF Release, Accounts
<1> QED BY <1>1, <1>2

\* Starting a load keeps the ranges of the accounts.
LEMMA LoadAccountsType ==
    ASSUME NEW aa \in Accounts, NEW mode
    PROVE  load_accounts(aa, mode) \in Accounts
<1> DEFINE on == started(mode)
           qs == [t \in RtTasks |->
                     IF t \in on /\ Policy[t] = "RR" THEN Quantum ELSE aa.quantum[t]]
           r == [aa EXCEPT !.age = 0, !.used = 0, !.throttled = FALSE, !.quantum = qs]
<1>1. qs \in [RtTasks -> 1..Quantum]
    BY ParameterFacts DEF Accounts
<1>2. r \in Accounts
    <2> HIDE DEF qs
    <2> QED BY <1>1, ParameterFacts DEF Accounts
<1>3. load_accounts(aa, mode) = IF Deadline \in on
                               THEN [r EXCEPT !.left = DlRuntime, !.release = DlPeriod] ELSE r
    BY DEF load_accounts
<1> HIDE DEF r
<1>4. [r EXCEPT !.left = DlRuntime, !.release = DlPeriod] \in Accounts
    BY <1>2, ParameterFacts DEF Accounts
<1> QED BY <1>2, <1>3, <1>4

\* The wake-up by USART1 keeps the run queues.
LEMMA UartWakeShell ==
    ASSUME Good(k)
    PROVE  LET mm == uart_wake_shell(k)
           IN  /\ Good(mm) /\ mm.current = k.current
               /\ Runnable(k) => Runnable(mm)
               /\ Linked(k) => Linked(mm)
<1> DEFINE p == k.pend \/ phase = "thread"
           mm == [k EXCEPT !.state[Shell] = "READY", !.need = TRUE, !.pend = p]
<1>1. p \in BOOLEAN /\ k \in RunQueues /\ Shell \in Tasks /\ Shell \notin RtTasks
    BY GoodList, TableFacts DEF RunQueues
<1>2. uart_wake_shell(k) = IF k.state[Shell] # "BLOCKED" THEN k ELSE mm
    BY DEF uart_wake_shell
<1>3. k.pend => p
    OBVIOUS
<1> HIDE DEF p
<1>4. /\ mm \in RunQueues /\ mm.current = k.current /\ mm.rtq = k.rtq /\ mm.sl = k.sl
      /\ mm.state = [k.state EXCEPT ![Shell] = "READY"] /\ mm.pend = p
    BY <1>1 DEF RunQueues, TaskState
<1> HIDE DEF mm
<1>5. RtReady(mm) = RtReady(k) /\ Rest(mm)
    BY <1>1, <1>4 DEF RtReady, RunQueues, Good, Rest
<1>6. Good(mm)
    BY <1>4, <1>5 DEF Good, Queued
<1>7. (Runnable(k) => Runnable(mm)) /\ (Linked(k) => Linked(mm))
    BY <1>1, <1>3, <1>4 DEF Runnable, Linked, RunQueues, Shell, Compiler
<1> QED BY <1>2, <1>4, <1>6, <1>7

\* What blocking in SVC_READ or in block_current leaves.
LEMMA LeaveLinked ==
    ASSUME NEW kk, Good(kk), kk.current # Idle, kk.state[kk.current] = "READY"
    PROVE  LET mm == leave_cpu(kk)
           IN  Good(mm) /\ mm.current = kk.current /\ (Linked(kk) => Linked(mm))
<1> DEFINE mm == leave_cpu(kk)
<1>1. /\ Good(mm) /\ mm.current = kk.current /\ mm.sl = kk.sl
      /\ mm.state = [kk.state EXCEPT ![kk.current] = "BLOCKED"]
    BY LeaveCpu
<1> HIDE DEF mm
<1>2. Linked(kk) => Linked(mm)
    BY <1>1, GoodList DEF Linked, RunQueues
<1> QED BY <1>1, <1>2 DEF mm

-----------------------------------------------------------------------------
(* The inductive invariant.                                                *)

\* Everything but the run queues is in its type.
OtherTypes ==
    /\ a \in Accounts
    /\ phase \in {"thread", "tick", "tock"} /\ tickStep \in 1..MaxStep
    /\ loadMode \in LoadModes \union {0} /\ loadOn \subseteq LoadTasks
    /\ blocking \subseteq Tasks /\ rx \in 0..RxRing
    /\ job \in BOOLEAN /\ booted \in BOOLEAN

\* Nobody makes a sleeping task ready behind the sleep queue's back.
NoTruncation == "SLEEP" \notin CompileWhen /\ Shell \notin Sleepers

QueueInv ==
    /\ Good(k)
    /\ k.current \notin blocking => Runnable(k)
    /\ NoTruncation => Linked(k)

IInv == OtherTypes /\ QueueInv

\* A tickless period is between 2 and MaxStep ticks.
LEMMA NextEventTicks ==
    ASSUME Good(k) PROVE next_event_ticks \in 1..MaxStep
<1> DEFINE L == k.sl
           d == L.delta[Head(L.q)]
           n == IF L.q # <<>> /\ d < MaxStep THEN d ELSE MaxStep
<1>1. L.q # <<>> => d \in Nat
    <2>1. L.q \in Seq(Tasks) /\ L.delta \in [Tasks -> Nat]
        BY GoodList DEF IsList
    <2> QED BY <2>1, HeadTailProperties
<1>2. next_event_ticks = IF n < 2 THEN 2 ELSE n
    BY DEF next_event_ticks
<1> HIDE DEF L, d
<1>3. n \in 0..MaxStep
    BY <1>1, ParameterFacts
<1> HIDE DEF n
<1> QED BY <1>2, <1>3, ParameterFacts

\* The inductive invariant holds at boot.
LEMMA InitInv == Init => IInv
<1> SUFFICES ASSUME Init PROVE IInv
    OBVIOUS
<1>1. k \in RunQueues
    BY TableFacts DEF Init, RunQueues, TaskState
<1>2. RtReady(k) = {}
    BY TaskTable DEF Init, RtReady, Idle, HalaInit
<1>3. \A p \in Levels : Injective(k.rtq[p]) /\ ToSet(k.rtq[p]) = {}
    BY DEF Init, Injective, ToSet
<1>4. Rest(k)
    BY TableFacts DEF Init, Rest, Injective, ToSet
<1>5. Good(k)
    BY <1>1, <1>2, <1>3, <1>4 DEF Good, Queued
<1>6. Runnable(k) /\ Linked(k)
    BY TableFacts DEF Init, Runnable, Linked, ToSet
<1>7. a \in Accounts
    BY ParameterFacts DEF Init, Accounts
<1>8. OtherTypes
    <2>1. 1 \in 1..MaxStep /\ 0 \in 0..RxRing
        BY ParameterFacts
    <2> QED BY <1>7, <2>1 DEF Init, OtherTypes
<1> QED BY <1>5, <1>6, <1>8 DEF IInv, QueueInv

\* A task that executes thread code is READY.
LEMMA RunningReady ==
    ASSUME IInv, NEW c, Running(c)
    PROVE  /\ Good(k) /\ Runnable(k) /\ k.current = c /\ c \in Tasks
           /\ NoTruncation => Linked(k)
BY DEF IInv, QueueInv, Running

\* The run queues after a system call.
LEMMA SvcInv ==
    ASSUME NEW kk, Good(kk), kk.need = TRUE \/ Runnable(kk), NoTruncation => Linked(kk),
           NEW aa, k' \in SVC_Handler(kk, aa)
    PROVE  QueueInv'
<1>1. Good(k') /\ Runnable(k') /\ (Linked(kk) => Linked(k'))
    BY SvcHandler
<1>2. Good(k)' /\ Runnable(k)' /\ (NoTruncation => Linked(k))'
    BY <1>1 DEF NoTruncation, Good, Queued, RunQueues, Rest, RtReady, Runnable, Linked
<1> QED BY <1>2 DEF QueueInv

\* The run queues after a step that keeps the current task.
LEMMA SameCurrent ==
    ASSUME QueueInv, NEW mm, k' = mm, Good(mm), mm.current = k.current,
           Runnable(k) => Runnable(mm), NoTruncation /\ Linked(k) => Linked(mm),
           blocking' = blocking
    PROVE  QueueInv'
BY DEF QueueInv, NoTruncation, Good, Queued, RunQueues, Rest, RtReady, Runnable, Linked

\* Every step keeps the part of the invariant that is about the queues.
LEMMA NextQueue == IInv /\ [Next]_vars => QueueInv'
<1> SUFFICES ASSUME IInv, [Next]_vars PROVE QueueInv'
    OBVIOUS
<1>0. QueueInv /\ OtherTypes /\ Good(k)
    BY DEF IInv, QueueInv
<1>1. ASSUME NEW c \in Tasks, NEW n \in SleepTicks, SvcSleep(c, n)
      PROVE  QueueInv'
    <2>1. /\ Running(c) /\ c \in Sleepers
          /\ k' \in SVC_Handler(block_current_sleep(k, n), a)
        BY <1>1 DEF SvcSleep
    <2>2. Good(k) /\ k.current = c /\ (NoTruncation => Linked(k))
        BY <2>1, RunningReady
    <2> DEFINE mm == block_current_sleep(k, n)
    <2>3. n \in Nat
        BY Parameters
    <2>4. Good(mm) /\ mm.need = TRUE /\ (Linked(k) => Linked(mm))
        BY <2>1, <2>2, <2>3, BlockCurrentSleep
    <2> HIDE DEF mm
    <2> QED BY <2>1, <2>2, <2>4, SvcInv DEF mm
<1>2. ASSUME NEW c \in Tasks, SvcYield(c)
      PROVE  QueueInv'
    <2>1. Running(c) /\ k' \in SVC_Handler(pend_resched(k), a)
        BY <1>2 DEF SvcYield
    <2>2. Good(k) /\ (NoTruncation => Linked(k))
        BY <2>1, RunningReady
    <2> DEFINE mm == pend_resched(k)
    <2>3. Good(mm) /\ mm.need = TRUE /\ (Linked(k) => Linked(mm))
        BY <2>2, PendResched, TickedPend DEF Ticked
    <2> HIDE DEF mm
    <2> QED BY <2>1, <2>2, <2>3, SvcInv DEF mm
<1>3. ASSUME NEW c \in Tasks, SvcPlain(c)
      PROVE  QueueInv'
    <2>1. Running(c) /\ k' \in SVC_Handler(k, a)
        BY <1>3 DEF SvcPlain
    <2> QED BY <2>1, RunningReady, SvcInv
<1>4. ASSUME NEW c \in Tasks, BlockBegin(c)
      PROVE  QueueInv'
    <2>1. Running(c) /\ ThreadBlocks(c) /\ k' = leave_cpu(k) /\ blocking' = blocking \union {c}
        BY <1>4 DEF BlockBegin
    <2>2. Good(k) /\ k.current = c /\ (NoTruncation => Linked(k))
        BY <2>1, RunningReady
    <2>3. c # Idle /\ k.state[c] = "READY"
        BY <2>1, RunningReady
           DEF ThreadBlocks, LoadTasks, Idle, HalaInit, Vm, WorkerA, WorkerB, Running, Runnable
    <2> DEFINE mm == leave_cpu(k)
    <2>4. Good(mm) /\ mm.current = c /\ (Linked(k) => Linked(mm))
        BY <2>2, <2>3, LeaveLinked
    <2> HIDE DEF mm
    <2>5. k' = mm
        BY <2>1 DEF mm
    <2> QED BY <2>1, <2>2, <2>4, <2>5
            DEF QueueInv, NoTruncation, Good, Queued, RunQueues, Rest, RtReady, Linked
<1>5. ASSUME NEW c \in Tasks, BlockPend(c)
      PROVE  QueueInv'
    <2>1. k' = pend_resched(k)
        BY <1>5 DEF BlockPend
    <2> DEFINE mm == pend_resched(k)
    <2>2. Good(mm) /\ mm.pend = TRUE /\ (Linked(k) => Linked(mm))
        BY <1>0, PendResched, TickedPend DEF Ticked
    <2> HIDE DEF mm
    <2>3. k' = mm
        BY <2>1 DEF mm
    <2> QED BY <1>0, <2>2, <2>3
            DEF QueueInv, NoTruncation, Good, Queued, RunQueues, Rest, RtReady, Runnable, Linked
<1>6. ASSUME NEW type \in AppTypes, SvcAppRun(type)
      PROVE  QueueInv'
    <2>1. /\ Running(Shell) /\ {WorkerA, WorkerB} \subseteq Tasks
          /\ type = "bytecode" => Vm \in Tasks
          /\ k' \in SVC_Handler(demo_start(k, type), a)
        BY <1>6 DEF SvcAppRun
    <2>2. Good(k) /\ (NoTruncation => Linked(k))
        BY <2>1, RunningReady
    <2> DEFINE mm == demo_start(k, type)
    <2>3. Good(mm) /\ Runnable(mm) /\ (Linked(k) => Linked(mm))
        BY <2>1, <2>2, DemoStart
    <2> HIDE DEF mm
    <2> QED BY <2>1, <2>2, <2>3, SvcInv DEF mm
<1>7. ASSUME NEW mode \in LoadModes, SvcLoad(mode)
      PROVE  QueueInv'
    <2>1. Running(Shell) /\ k' \in SVC_Handler(load_enable(k, mode), a')
        BY <1>7 DEF SvcLoad
    <2>2. Good(k) /\ (NoTruncation => Linked(k))
        BY <2>1, RunningReady
    <2> DEFINE mm == load_enable(k, mode)
    <2>3. Good(mm) /\ Runnable(mm) /\ (Linked(k) => Linked(mm))
        BY <2>2, LoadEnable
    <2> HIDE DEF mm
    <2> QED BY <2>1, <2>2, <2>3, SvcInv DEF mm
<1>8. CASE SvcRead
    <2>1. /\ Running(Shell)
          /\ \/ k' \in SVC_Handler(k, a)
             \/ k' \in SVC_Handler(pend_resched(leave_cpu(k)), a)
        BY <1>8 DEF SvcRead
    <2>2. Good(k) /\ Runnable(k) /\ k.current = Shell /\ (NoTruncation => Linked(k))
        BY <2>1, RunningReady
    <2> DEFINE l == leave_cpu(k)
               mm == pend_resched(l)
    <2>3. Good(l) /\ (Linked(k) => Linked(l))
        BY <2>1, <2>2, LeaveLinked DEF Shell, Idle, Running, Runnable
    <2> HIDE DEF l
    <2>4. Good(mm) /\ mm.need = TRUE /\ (Linked(l) => Linked(mm))
        BY <2>3, PendResched, TickedPend DEF Ticked
    <2> HIDE DEF mm
    <2>5. CASE k' \in SVC_Handler(k, a)
        BY <2>2, <2>5, SvcInv
    <2>6. CASE k' \in SVC_Handler(mm, a)
        BY <2>2, <2>3, <2>4, <2>6, SvcInv
    <2> QED BY <2>1, <2>5, <2>6 DEF l, mm
<1>9. CASE SvcQueueCompile
    <2>1. /\ Running(Shell) /\ Compiler \in Tasks /\ k.state[Compiler] \in CompileWhen
          /\ k' \in SVC_Handler(task_make_ready(k, Compiler), a)
        BY <1>9 DEF SvcQueueCompile
    <2>2. Good(k) /\ Runnable(k)
        BY <2>1, RunningReady
    <2> DEFINE mm == task_make_ready(k, Compiler)
    <2>3. /\ Good(mm) /\ mm.current = k.current /\ mm.pend = k.pend
          /\ mm.state = [k.state EXCEPT ![Compiler] = "READY"]
        BY <2>1, <2>2, TaskMakeReady
    <2> HIDE DEF mm
    <2>4. Runnable(mm)
        BY <2>2, <2>3, GoodList DEF Runnable, RunQueues
    <2>5. NoTruncation => Linked(mm)
        <3> SUFFICES ASSUME NoTruncation PROVE Linked(mm)
            OBVIOUS
        <3>1. Linked(k) /\ k.state[Compiler] # "SLEEP"
            BY <2>1, RunningReady DEF NoTruncation
        <3> QED BY <2>1, <2>2, <3>1, MakeReadyLinked DEF mm, Linked
    <2> QED BY <2>1, <2>3, <2>4, <2>5, SvcInv DEF mm
<1>10. CASE CompileDone
    BY <1>0, <1>10 DEF CompileDone, QueueInv, NoTruncation
<1>11. CASE SvcAppStop
    <2>1. Running(Shell) /\ k' \in SVC_Handler(demo_stop(k), a)
        BY <1>11 DEF SvcAppStop
    <2>2. Good(k) /\ (NoTruncation => Linked(k))
        BY <2>1, RunningReady
    <2> DEFINE mm == demo_stop(k)
    <2>3. Good(mm) /\ mm.need = TRUE /\ (Linked(k) => Linked(mm))
        BY <2>2, DemoStop
    <2> HIDE DEF mm
    <2> QED BY <2>1, <2>2, <2>3, SvcInv DEF mm
<1>12. CASE SvcIdle
    <2>1. Running(Idle) /\ k' \in SVC_Handler(k, a)
        BY <1>12 DEF SvcIdle
    <2> QED BY <2>1, RunningReady, SvcInv
<1>13. CASE HalaInitReady
    <2>1. Running(HalaInit) /\ k' = task_make_ready(k, Shell) /\ blocking' = blocking
        BY <1>13 DEF HalaInitReady
    <2> DEFINE mm == task_make_ready(k, Shell)
    <2>2. /\ Good(mm) /\ mm.current = k.current /\ mm.pend = k.pend
          /\ mm.state = [k.state EXCEPT ![Shell] = "READY"]
          /\ Shell \notin ToSet(k.sl.q) => mm.sl.q = k.sl.q
        BY <1>0, TableFacts, TaskMakeReady
    <2> HIDE DEF mm
    <2>3. Runnable(k) => Runnable(mm)
        BY <1>0, <2>2, GoodList DEF Runnable, RunQueues
    <2>4. NoTruncation /\ Linked(k) => Linked(mm)
        <3>1. NoTruncation => Shell \notin ToSet(k.sl.q)
            BY <1>0, GoodList DEF NoTruncation, MaySleep, Shell, Deadline
        <3> QED BY <1>0, <2>2, <3>1, GoodList DEF Linked, RunQueues
    <2>5. k' = mm
        BY <2>1 DEF mm
    <2> QED BY <1>0, <2>1, <2>2, <2>3, <2>4, <2>5, SameCurrent
<1>14. CASE PendSV_Handler
    <2>1. PICK n \in hala_schedule_next(k, a) : k' = [n EXCEPT !.pend = FALSE]
        BY <1>14 DEF PendSV_Handler
    <2> DEFINE mm == [n EXCEPT !.pend = FALSE]
    <2>2. Good(mm) /\ Runnable(mm) /\ (Linked(k) => Linked(mm))
        BY <1>0, HalaScheduleNext
    <2> HIDE DEF mm
    <2>3. k' = mm
        BY <2>1 DEF mm
    <2> QED BY <1>0, <2>2, <2>3
            DEF QueueInv, NoTruncation, Good, Queued, RunQueues, Rest, RtReady, Runnable, Linked
<1>15. CASE SysTick_Handler
    <2> DEFINE w == WakeSleepers(k, tickStep)
               b == Release(k, a, tickStep)
    <2>1. PICK r \in account(w, b, tickStep) : k' = rt_account(r[1], r[2], tickStep)[1]
        BY <1>15 DEF SysTick_Handler
    <2>2. blocking' = blocking
        BY <1>15 DEF SysTick_Handler
    <2>3. tickStep \in Nat /\ tickStep > 0
        BY <1>0, ParameterFacts DEF OtherTypes
    <2>4. /\ Good(w) /\ w.current = k.current
          /\ Linked(k) => Linked(w)
          /\ Runnable(k) => Runnable(w)
        BY <1>0, <2>3, WakeSleepersGood
    <2>5. b \in Accounts
        BY <1>0, <2>3, ReleaseType DEF OtherTypes
    <2> HIDE DEF w, b
    <2>6. Ticked(w, r[1]) /\ r[2] \in Accounts
        BY <2>1, <2>3, <2>4, <2>5, Account
    <2> DEFINE mm == rt_account(r[1], r[2], tickStep)[1]
    <2>7. Ticked(r[1], mm)
        <3>1. Good(r[1])
            BY <2>6 DEF Ticked
        <3> QED BY <2>3, <2>6, <3>1, RtAccount
    <2>8. k' = mm
        BY <2>1
    <2> HIDE DEF mm
    <2>9. /\ Good(mm) /\ mm.current = k.current
          /\ Runnable(k) => Runnable(mm)
          /\ Linked(k) => Linked(mm)
        BY <2>4, <2>6, <2>7 DEF Ticked
    <2> QED BY <1>0, <2>2, <2>8, <2>9, SameCurrent
<1>16. CASE SysTickPend
    <2> DEFINE mm == IF k.need THEN [k EXCEPT !.pend = TRUE] ELSE k
    <2>1. k' = mm /\ blocking' = blocking
        BY <1>16 DEF SysTickPend
    <2>2. /\ mm \in RunQueues /\ mm.state = k.state /\ mm.rtq = k.rtq /\ mm.sl = k.sl
          /\ mm.current = k.current /\ (~mm.pend => ~k.pend)
        <3>1. k \in RunQueues
            BY <1>0, GoodList
        <3>2. CASE k.need
            BY <3>1, <3>2 DEF RunQueues
        <3>3. CASE ~k.need
            BY <3>1, <3>3
        <3> QED BY <3>2, <3>3
    <2> HIDE DEF mm
    <2>3. Good(mm) /\ (Linked(k) => Linked(mm))
        BY <1>0, <2>2, Switch
    <2>4. Runnable(k) => Runnable(mm)
        BY <2>2 DEF Runnable
    <2> QED BY <1>0, <2>1, <2>2, <2>3, <2>4, SameCurrent
<1>17. CASE SysTickReturn
    BY <1>0, <1>17 DEF SysTickReturn, QueueInv, NoTruncation
<1>18. CASE USART1_IRQHandler
    <2> DEFINE mm == uart_wake_shell(k)
    <2>1. k' = mm /\ blocking' = blocking
        BY <1>18 DEF USART1_IRQHandler
    <2>2. /\ Good(mm) /\ mm.current = k.current
          /\ Runnable(k) => Runnable(mm)
          /\ Linked(k) => Linked(mm)
        BY <1>0, UartWakeShell
    <2> HIDE DEF mm
    <2> QED BY <1>0, <2>1, <2>2, SameCurrent
<1>19. CASE UNCHANGED vars
    BY <1>0, <1>19 DEF vars, QueueInv, NoTruncation
<1> QED BY <1>1, <1>2, <1>3, <1>4, <1>5, <1>6, <1>7, <1>8, <1>9, <1>10, <1>11, <1>12,
           <1>13, <1>14, <1>15, <1>16, <1>17, <1>18, <1>19 DEF Next, Thread, Interrupt

\* Every step keeps the ranges of the other variables.
LEMMA NextTypes == IInv /\ [Next]_vars => OtherTypes'
<1> SUFFICES ASSUME IInv, [Next]_vars PROVE OtherTypes'
    OBVIOUS
<1>0. OtherTypes /\ Good(k)
    BY DEF IInv, QueueInv
<1>1. CASE \E c \in Tasks : \/ \E n \in SleepTicks : SvcSleep(c, n)
                            \/ SvcYield(c) \/ SvcPlain(c)
    BY <1>0, <1>1 DEF OtherTypes, SvcSleep, SvcYield, SvcPlain
<1>2. CASE \E c \in Tasks : BlockBegin(c) \/ BlockPend(c)
    BY <1>0, <1>2 DEF OtherTypes, BlockBegin, BlockPend
<1>3. CASE (\E type \in AppTypes : SvcAppRun(type)) \/ SvcAppStop
    BY <1>0, <1>3 DEF OtherTypes, SvcAppRun, SvcAppStop
<1>4. ASSUME NEW mode \in LoadModes, SvcLoad(mode)
      PROVE  OtherTypes'
    <2>1. a' \in Accounts
        BY <1>0, <1>4, LoadAccountsType DEF SvcLoad, OtherTypes
    <2>2. loadOn' \subseteq LoadTasks
        BY <1>4 DEF SvcLoad, started
    <2>3. tickStep' \in 1..MaxStep
        BY <1>4, ParameterFacts DEF SvcLoad
    <2> QED BY <1>0, <1>4, <2>1, <2>2, <2>3 DEF SvcLoad, OtherTypes
<1>5. CASE SvcRead
    <2>1. rx' \in 0..RxRing
        BY <1>0, <1>5, ParameterFacts DEF SvcRead, OtherTypes
    <2> QED BY <1>0, <1>5, <2>1 DEF SvcRead, OtherTypes
<1>6. CASE SvcQueueCompile \/ CompileDone \/ HalaInitReady
    BY <1>0, <1>6 DEF OtherTypes, SvcQueueCompile, CompileDone, HalaInitReady
<1>7. CASE SvcIdle
    <2>1. tickStep' \in 1..MaxStep
        BY <1>0, <1>7, NextEventTicks DEF SvcIdle, OtherTypes
    <2> QED BY <1>0, <1>7, <2>1 DEF SvcIdle, OtherTypes
<1>8. CASE PendSV_Handler \/ SysTickPend \/ SysTickReturn
    BY <1>0, <1>8 DEF OtherTypes, PendSV_Handler, SysTickPend, SysTickReturn
<1>9. CASE SysTick_Handler
    <2> DEFINE w == WakeSleepers(k, tickStep)
               b == Release(k, a, tickStep)
    <2>1. PICK r \in account(w, b, tickStep) : a' = rt_account(r[1], r[2], tickStep)[2]
        BY <1>9 DEF SysTick_Handler
    <2>2. tickStep \in Nat /\ tickStep > 0
        BY <1>0, ParameterFacts DEF OtherTypes
    <2>3. Good(w) /\ b \in Accounts
        BY <1>0, <2>2, WakeSleepersGood, ReleaseType DEF OtherTypes
    <2> HIDE DEF w, b
    <2>4. Good(r[1]) /\ r[2] \in Accounts
        BY <2>1, <2>2, <2>3, Account DEF Ticked
    <2>5. rt_account(r[1], r[2], tickStep)[2] \in Accounts
        BY <2>2, <2>4, RtAccount
    <2>6. tickStep' \in 1..MaxStep
        BY <1>9, ParameterFacts DEF SysTick_Handler
    <2> QED BY <1>0, <1>9, <2>1, <2>5, <2>6 DEF SysTick_Handler, OtherTypes
<1>10. CASE USART1_IRQHandler
    <2>1. rx' \in 0..RxRing
        BY <1>0, <1>10, ParameterFacts DEF USART1_IRQHandler, OtherTypes
    <2> QED BY <1>0, <1>10, <2>1 DEF USART1_IRQHandler, OtherTypes
<1>11. CASE UNCHANGED vars
    BY <1>0, <1>11 DEF vars, OtherTypes
<1> QED BY <1>1, <1>2, <1>3, <1>4, <1>5, <1>6, <1>7, <1>8, <1>9, <1>10, <1>11
        DEF Next, Thread, Interrupt

\* The inductive invariant is an invariant.
LEMMA Inductive == Spec => []IInv
<1>1. IInv /\ [Next]_vars => IInv'
    BY NextQueue, NextTypes DEF IInv
<1> QED BY InitInv, <1>1, PTL DEF Spec

-----------------------------------------------------------------------------
(* The classes, the load generators and their accounts.                    *)

Ready(kk, t) == t \in Tasks /\ kk.state[t] = "READY"

\* The deadline task has runtime left, and time enough to use it.
Enough == DlRuntime =< DlPeriod
Kept(aa) ==
    /\ aa.left >= 1
    /\ Enough => aa.release >= (DlPeriod - DlRuntime) + aa.left

\* A switch is pended, or SysTick is about to pend one.
Asked(kk, ph) == kk.pend \/ (ph = "tick" /\ kk.need)

\* The task on the CPU is the one the classes put first, or a switch is asked for.
DeadlineOnCpu(kk, ph) ==
    Ready(kk, Deadline) /\ kk.current # Deadline => Asked(kk, ph)
IdleAlone(kk, ph) ==
    kk.current = Idle /\ ~Asked(kk, ph) => \A t \in LoadTasks \ RtTasks : ~Ready(kk, t)
InTime(kk, aa) ==
    Ready(kk, Deadline) \/ (kk.current = Deadline /\ ~kk.pend) => Kept(aa)
NotThrottled(kk, aa) == kk.current \in RtTasks /\ aa.throttled => kk.pend
RtIsFirst(kk, bl) ==
    kk.current \in RtTasks \ bl /\ ~kk.pend => RtQueued(kk) /\ kk.current = highest_rt(kk)
Ordered(kk, aa, bl, ph) ==
    /\ DeadlineOnCpu(kk, ph) /\ IdleAlone(kk, ph) /\ InTime(kk, aa)
    /\ NotThrottled(kk, aa) /\ RtIsFirst(kk, bl)

\* A real-time generator is READY only while its load is on.
Loaded == loadOn = started(loadMode) /\ \A t \in RtTasks : Ready(k, t) => t \in loadOn

\* While the timer is slowed down no generator is READY or on the CPU.
Slow ==
    tickStep > 1 => /\ k.current \notin LoadTasks
                    /\ \A t \in LoadTasks : ~Ready(k, t)

\* What the real-time class has used, and the deadlines.
Within(aa) == aa.used =< RtBudget /\ (aa.throttled \/ aa.used < RtBudget)
Spent == Within(a) /\ (Enough => ~a.missed)

TimeInv == Ordered(k, a, blocking, phase) /\ Loaded /\ Slow /\ Spent /\ ShellHearsInput

\* The task a pick leaves on the CPU is the one the classes put first.
LEMMA Picked ==
    ASSUME NEW kk, Good(kk), NEW aa \in Accounts, Ready(kk, Deadline) => Kept(aa),
           NEW nn \in hala_schedule_next(kk, aa), NEW bl
    PROVE  LET mm == [nn EXCEPT !.pend = FALSE]
           IN  Ordered(mm, aa, bl, "thread") /\ mm.state = kk.state
<1>1. PICK n \in sched_pick_next(kk, aa) : nn = [kk EXCEPT !.current = n, !.need = FALSE]
    BY DEF hala_schedule_next
<1>2. n \in Tasks /\ kk.state[n] = "READY"
    BY SchedPickNext
<1> DEFINE mm == [nn EXCEPT !.pend = FALSE]
<1>3. /\ mm.current = n /\ mm.state = kk.state /\ mm.rtq = kk.rtq /\ mm.pend = FALSE
    <2>1. kk \in RunQueues
        BY GoodList
    <2> QED BY <1>1, <2>1 DEF RunQueues
<1> HIDE DEF mm
<1>4. Ready(kk, Deadline) => n = Deadline
    <2> SUFFICES ASSUME Ready(kk, Deadline) PROVE n = Deadline
        OBVIOUS
    <2>1. Deadline \in pick_deadline(kk, aa)
        BY TaskTable DEF Ready, Kept, pick_deadline, Accounts
    <2>2. n \in pick_deadline(kk, aa)
        BY <2>1 DEF sched_pick_next
    <2> QED BY <2>2, TaskTable DEF pick_deadline
<1>5. CASE n = Deadline
    <2>1. n # Idle /\ n \notin RtTasks
        BY <1>2, <1>5, TaskTable DEF Deadline, Idle, RtTasks
    <2>2. Ready(kk, Deadline)
        BY <1>2, <1>5 DEF Ready
    <2> QED BY <1>3, <1>5, <2>1, <2>2 DEF mm, Ordered, DeadlineOnCpu, IdleAlone, InTime, NotThrottled,
                RtIsFirst, Ready
<1>6. CASE n \in RtTasks
    <2>1. n # Idle /\ n # Deadline
        BY <1>6, TableFacts DEF Deadline
    <2>2. ~aa.throttled /\ RtQueued(kk) /\ n = highest_rt(kk)
        <3>1. n \notin pick_deadline(kk, aa) /\ n \notin pick_fair(kk)
            BY <1>6, <2>1, TableFacts, TaskTable DEF pick_deadline, pick_fair
        <3> QED BY <1>6, <2>1, <3>1 DEF sched_pick_next
    <2>3. RtQueued(mm) /\ highest_rt(mm) = highest_rt(kk)
        BY <1>3, <2>2 DEF RtQueued, highest_rt
    <2> QED BY <1>3, <1>4, <2>1, <2>2, <2>3 DEF mm, Ordered, DeadlineOnCpu, IdleAlone, InTime,
                NotThrottled, RtIsFirst, Ready
<1>7. CASE n \notin RtTasks /\ n # Deadline
    <2>1. n = Idle => \A t \in LoadTasks \ RtTasks : ~Ready(kk, t)
        <3> SUFFICES ASSUME n = Idle, NEW t \in LoadTasks \ RtTasks, Ready(kk, t) PROVE FALSE
            OBVIOUS
        <3>1. t # Deadline /\ t # Idle
            BY <1>4, <1>7 DEF LoadTasks, Idle
        <3>2. t \in FairTasks
            BY <3>1, TaskTable DEF FairTasks, RtTasks, LoadTasks
        <3>3. t \in pick_fair(kk)
            BY <3>2 DEF pick_fair, Ready
        <3>4. Idle \notin pick_deadline(kk, aa) /\ Idle \notin pick_fair(kk)
            BY TaskTable DEF pick_deadline, pick_fair, FairTasks
        <3>5. RtQueued(kk) => highest_rt(kk) # Idle
            BY HighestRt, TableFacts DEF Good, RtReady
        <3> QED BY <3>3, <3>4, <3>5 DEF sched_pick_next
    <2> QED BY <1>3, <1>4, <1>7, <2>1 DEF mm, Ordered, DeadlineOnCpu, IdleAlone, InTime,
                NotThrottled, RtIsFirst, Ready
<1> QED BY <1>3, <1>5, <1>6, <1>7 DEF mm

\* The same for the tail of a system call.
LEMMA SvcOrder ==
    ASSUME NEW kk, Good(kk), NEW aa \in Accounts, Ready(kk, Deadline) => Kept(aa), NEW bl,
           kk.need = TRUE \/ Ordered(kk, aa, bl, "thread"), NEW nn \in SVC_Handler(kk, aa)
    PROVE  Ordered(nn, aa, bl, "thread") /\ nn.state = kk.state
<1>1. CASE kk.need
    <2>1. PICK mm \in hala_schedule_next(kk, aa) : nn = [mm EXCEPT !.pend = FALSE]
        BY <1>1 DEF SVC_Handler
    <2> QED BY <2>1, Picked
<1>2. CASE ~kk.need
    BY <1>2 DEF SVC_Handler
<1> QED BY <1>1, <1>2

\* Order outlives every step that keeps the CPU, takes READY away, or asks for a
\* switch.
LEMMA StillOrdered ==
    ASSUME NEW kk, NEW aa, NEW bl, NEW ph, Ordered(kk, aa, bl, ph),
           NEW mm, NEW cl, NEW qh,
           mm.current = kk.current,
           \A t \in LoadTasks : Ready(mm, t) => Ready(kk, t),
           Asked(kk, ph) => Asked(mm, qh), kk.pend => mm.pend,
           kk.current \in RtTasks \ cl /\ ~mm.pend => kk.current \notin bl /\ mm.rtq = kk.rtq
    PROVE  Ordered(mm, aa, cl, qh)
<1>1. Ready(mm, Deadline) => Ready(kk, Deadline)
    BY DEF Ready, LoadTasks, Deadline
<1>2. mm.rtq = kk.rtq => (RtQueued(mm) <=> RtQueued(kk)) /\ highest_rt(mm) = highest_rt(kk)
    BY DEF RtQueued, highest_rt
<1>3. DeadlineOnCpu(mm, qh) /\ IdleAlone(mm, qh)
    BY <1>1 DEF Ordered, DeadlineOnCpu, IdleAlone
<1>4. InTime(mm, aa) /\ NotThrottled(mm, aa)
    BY <1>1 DEF Ordered, InTime, NotThrottled
<1>5. RtIsFirst(mm, cl)
    BY <1>2 DEF Ordered, RtIsFirst
<1> QED BY <1>3, <1>4, <1>5 DEF Ordered

-----------------------------------------------------------------------------
(* What the kernel functions do to the states.                             *)

\* No generator becomes READY, and the shell does not come to wait for input.
Steady(kk, mm) ==
    /\ \A t \in LoadTasks : Ready(mm, t) => Ready(kk, t)
    /\ kk.state[Shell] # "BLOCKED" => mm.state[Shell] # "BLOCKED"

\* One state changes, neither a generator to READY nor the shell to BLOCKED.
LEMMA SteadyOne ==
    ASSUME NEW kk \in RunQueues, NEW mm, NEW i \in Tasks, NEW st,
           mm.state = [kk.state EXCEPT ![i] = st],
           st = "READY" => i \notin LoadTasks, st = "BLOCKED" => i # Shell
    PROVE  Steady(kk, mm)
BY DEF Steady, Ready, RunQueues

LEMMA BlockSleepSteady ==
    ASSUME NEW kk, Good(kk), kk.current \in Sleepers, NEW ticks
    PROVE  Steady(kk, block_current_sleep(kk, ticks))
<1> DEFINE c == kk.current
           r == rt_remove(kk, c)
           L == sleep_insert(r.sl, c, ticks)
           mm == block_current_sleep(kk, ticks)
<1>0. kk \in RunQueues /\ c \in Tasks
    BY GoodList DEF RunQueues
<1>1. r \in RunQueues /\ r.state = kk.state
    <2>1. Queued(r, RtReady(kk) \ {c}) /\ SameButRtq(kk, r)
        BY RtRemove DEF Good
    <2> QED BY <2>1 DEF Queued, SameButRtq
<1>2. mm = [[r EXCEPT !.state[c] = "SLEEP", !.sl = L] EXCEPT !.need = TRUE, !.pend = TRUE]
    BY DEF block_current_sleep, pend_resched
<1> HIDE DEF r, L, mm, c
<1>3. mm.state = [kk.state EXCEPT ![c] = "SLEEP"]
    BY <1>1, <1>2 DEF RunQueues
<1>4. Steady(kk, mm)
    BY <1>0, <1>3, SteadyOne
<1> QED BY <1>4 DEF mm

LEMMA DemoBlockSteady ==
    ASSUME NEW kk, Good(kk), NEW i \in {Vm, WorkerA, WorkerB}
    PROVE  Steady(kk, demo_block_task(kk, i))
<1>1. CASE i \notin Tasks
    BY <1>1 DEF demo_block_task, Steady
<1>2. CASE i \in Tasks
    <2> DEFINE r == rt_remove(kk, i)
               L == LET M == sleep_remove(r.sl, i) IN [M EXCEPT !.delta[i] = 0]
               mm == demo_block_task(kk, i)
    <2>0. kk \in RunQueues
        BY GoodList
    <2>1. r \in RunQueues /\ r.state = kk.state
        <3>1. Queued(r, RtReady(kk) \ {i}) /\ SameButRtq(kk, r)
            BY RtRemove DEF Good
        <3> QED BY <3>1 DEF Queued, SameButRtq
    <2>2. mm = [r EXCEPT !.state[i] = "BLOCKED", !.sl = L]
        BY <1>2 DEF demo_block_task
    <2> HIDE DEF r, L, mm
    <2>3. mm.state = [kk.state EXCEPT ![i] = "BLOCKED"]
        BY <2>1, <2>2 DEF RunQueues
    <2>4. Steady(kk, mm)
        BY <1>2, <2>0, <2>3, SteadyOne DEF Vm, WorkerA, WorkerB, Shell
    <2> QED BY <2>4 DEF mm
<1> QED BY <1>1, <1>2

LEMMA DemoStopSteady ==
    ASSUME NEW kk, Good(kk)
    PROVE  Steady(kk, demo_stop(kk))
<1> DEFINE x == demo_block_task(kk, Vm)
           y == demo_block_task(x, WorkerA)
           z == demo_block_task(y, WorkerB)
           mm == pend_resched(z)
<1>0. /\ Vm \in Nat /\ WorkerA \in Nat /\ WorkerB \in Nat
      /\ Vm # Idle /\ WorkerA # Idle /\ WorkerB # Idle
    BY DEF Vm, WorkerA, WorkerB, Idle
<1>1. Good(x) /\ Steady(kk, x)
    BY <1>0, DemoBlockTask, DemoBlockSteady
<1> HIDE DEF x
<1>2. Good(y) /\ Steady(x, y)
    BY <1>0, <1>1, DemoBlockTask, DemoBlockSteady
<1> HIDE DEF y
<1>3. Good(z) /\ Steady(y, z)
    BY <1>0, <1>2, DemoBlockTask, DemoBlockSteady
<1> HIDE DEF z
<1>4. mm.state = z.state
    BY <1>3, PendResched
<1>5. demo_stop(kk) = mm
    BY DEF demo_stop, x, y, z
<1> HIDE DEF mm
<1> QED BY <1>1, <1>2, <1>3, <1>4, <1>5 DEF Steady, Ready

\* task_make_ready either changes nothing or asks for a switch.
LEMMA MakeReadySteady ==
    ASSUME NEW kk, Good(kk), NEW i \in Tasks \ LoadTasks
    PROVE  LET mm == task_make_ready(kk, i)
           IN  /\ Steady(kk, mm) /\ (mm = kk \/ mm.need = TRUE)
               /\ mm.rtq = kk.rtq /\ mm.current = kk.current /\ mm.pend = kk.pend
<1> DEFINE mm == task_make_ready(kk, i)
           L  == link_reset(kk.sl, i)
           r  == [kk EXCEPT !.state[i] = "READY", !.sl = L, !.need = TRUE]
<1>1. kk \in RunQueues /\ i \notin RtTasks
    BY GoodList, TableFacts
<1>2. mm = IF kk.state[i] = "READY" THEN kk ELSE r
    BY <1>1 DEF task_make_ready
<1> HIDE DEF L, mm
<1>3. /\ r.need = TRUE /\ r.state = [kk.state EXCEPT ![i] = "READY"]
      /\ r.rtq = kk.rtq /\ r.current = kk.current /\ r.pend = kk.pend
    BY <1>1 DEF RunQueues
<1> HIDE DEF r
<1>4. Steady(kk, r)
    BY <1>1, <1>3, SteadyOne
<1>5. Steady(kk, kk)
    BY DEF Steady
<1> QED BY <1>2, <1>3, <1>4, <1>5 DEF mm

LEMMA DemoStartSteady ==
    ASSUME NEW kk, Good(kk), NEW type \in AppTypes, {WorkerA, WorkerB} \subseteq Tasks,
           type = "bytecode" => Vm \in Tasks
    PROVE  Steady(kk, demo_start(kk, type)) /\ demo_start(kk, type).need = TRUE
<1> DEFINE s == demo_stop(kk)
           x == task_make_ready(s, WorkerA)
           y == task_make_ready(x, WorkerB)
           z == task_make_ready(s, Vm)
<1>0. {Vm, WorkerA, WorkerB} \cap LoadTasks = {}
    BY DEF LoadTasks, Vm, WorkerA, WorkerB
<1>1. Good(s) /\ s.need = TRUE /\ Steady(kk, s)
    BY DemoStop, DemoStopSteady
<1>2. type \in {"threads", "single", "bytecode"}
    BY Parameters
<1>3. demo_start(kk, type) = IF type = "threads" THEN y
                             ELSE IF type = "single" THEN x ELSE z
    BY <1>2 DEF demo_start
<1> HIDE DEF s
<1>4. Good(x) /\ x.need = TRUE /\ Steady(s, x)
    BY <1>0, <1>1, TaskMakeReady, MakeReadySteady
<1> HIDE DEF x
<1>5. y.need = TRUE /\ Steady(x, y)
    BY <1>0, <1>4, MakeReadySteady
<1>6. Vm \in Tasks => z.need = TRUE /\ Steady(s, z)
    BY <1>0, <1>1, MakeReadySteady
<1> HIDE DEF y, z
<1>7. CASE type = "threads"
    BY <1>1, <1>3, <1>4, <1>5, <1>7 DEF Steady
<1>8. CASE type = "single"
    BY <1>1, <1>3, <1>4, <1>8 DEF Steady
<1>9. CASE type = "bytecode"
    BY <1>1, <1>3, <1>6, <1>9 DEF Steady
<1> QED BY <1>2, <1>7, <1>8, <1>9

\* A conditional enqueue leaves the states alone.
LEMMA EnqStates ==
    ASSUME NEW kk \in RunQueues, NEW on, NEW i, i \in on => i \in RtTasks
    PROVE  LET mm == enqIf(kk, on, i)
           IN  mm \in RunQueues /\ mm.state = kk.state /\ mm.sl = kk.sl
<1>1. CASE i \in on
    <2> DEFINE s == Append(kk.rtq[Prio[i]], i)
    <2>1. Prio[i] \in Levels /\ s \in Seq(RtTasks)
        <3>1. Prio[i] \in Levels /\ kk.rtq[Prio[i]] \in Seq(RtTasks)
            BY <1>1, TableFacts DEF RunQueues
        <3> QED BY <1>1, <3>1, AppendProperties
    <2>2. enqIf(kk, on, i) = [kk EXCEPT !.rtq[Prio[i]] = s]
        BY <1>1 DEF enqIf, rt_enqueue
    <2> HIDE DEF s
    <2> QED BY <2>1, <2>2 DEF RunQueues
<1>2. CASE i \notin on
    BY <1>2 DEF enqIf
<1> QED BY <1>1, <1>2

\* The states load_disable_all leaves.
LEMMA LoadDisableStates ==
    ASSUME NEW kk, Good(kk)
    PROVE  LET mm == load_disable_all(kk)
           IN  /\ mm \in RunQueues
               /\ mm.state = [t \in Tasks |-> IF t \in LoadTasks THEN "BLOCKED" ELSE kk.state[t]]
               /\ mm.sl = kk.sl
<1> DEFINE x == rt_remove(kk, 4)
           y == rt_remove(x, 5)
           d == rt_remove(y, 6)
           st == [t \in Tasks |-> IF t \in LoadTasks THEN "BLOCKED" ELSE d.state[t]]
           mm == pend_resched([d EXCEPT !.state = st])
<1>1. Queued(x, RtReady(kk) \ {4}) /\ SameButRtq(kk, x)
    BY RtRemove DEF Good
<1>2. load_disable_all(kk) = mm
    BY DEF load_disable_all
<1> HIDE DEF x
<1>3. Queued(y, (RtReady(kk) \ {4}) \ {5}) /\ SameButRtq(x, y)
    BY <1>1, RtRemove
<1> HIDE DEF y
<1>4. Queued(d, ((RtReady(kk) \ {4}) \ {5}) \ {6}) /\ SameButRtq(y, d)
    BY <1>3, RtRemove
<1> HIDE DEF d
<1>5. d \in RunQueues /\ d.state = kk.state /\ d.sl = kk.sl
    BY <1>1, <1>3, <1>4 DEF Queued, SameButRtq
<1>6. st \in [Tasks -> TaskState]
    BY <1>5 DEF RunQueues, TaskState
<1>7. mm \in RunQueues /\ mm.state = st /\ mm.sl = d.sl
    <2> HIDE DEF st
    <2> QED BY <1>5, <1>6 DEF RunQueues, pend_resched
<1> HIDE DEF mm
<1> QED BY <1>2, <1>5, <1>7

\* The states load_enable leaves.
LEMMA LoadEnableStates ==
    ASSUME NEW kk, Good(kk), NEW mode
    PROVE  LET mm == load_enable(kk, mode)
           IN  /\ mm.need = TRUE
               /\ \A t \in LoadTasks : Ready(mm, t) <=> t \in started(mode)
               /\ \A t \in LoadTasks : mm.state[t] # "SLEEP"
               /\ \A t \in Tasks \ LoadTasks : mm.state[t] = kk.state[t]
               /\ mm.sl = kk.sl
<1> DEFINE on == started(mode)
           d == load_disable_all(kk)
           st == [t \in Tasks |-> IF t \in on THEN "READY" ELSE d.state[t]]
           r == [d EXCEPT !.state = st]
           u == enqIf(r, on, 4)
           v == enqIf(u, on, 5)
           z == enqIf(v, on, 6)
           mm == pend_resched(z)
<1>0. on \subseteq LoadTasks /\ on \cap {4, 5, 6} \subseteq RtTasks
    BY TaskTable DEF started, LoadTasks
<1>1. load_enable(kk, mode) = mm
    BY DEF load_enable, enqIf
<1>2. /\ d \in RunQueues
      /\ d.state = [t \in Tasks |-> IF t \in LoadTasks THEN "BLOCKED" ELSE kk.state[t]]
      /\ d.sl = kk.sl
    BY LoadDisableStates
<1> HIDE DEF on, d
<1>3. st \in [Tasks -> TaskState]
    BY <1>2 DEF RunQueues, TaskState
<1>4. r \in RunQueues /\ r.state = st /\ r.sl = d.sl
    <2> HIDE DEF st
    <2> QED BY <1>2, <1>3 DEF RunQueues
<1> HIDE DEF r
<1>5. u \in RunQueues /\ u.state = st /\ u.sl = r.sl
    BY <1>0, <1>4, EnqStates
<1> HIDE DEF u
<1>6. v \in RunQueues /\ v.state = st /\ v.sl = u.sl
    BY <1>0, <1>5, EnqStates
<1> HIDE DEF v
<1>7. z \in RunQueues /\ z.state = st /\ z.sl = v.sl
    BY <1>0, <1>6, EnqStates
<1> HIDE DEF z
<1>8. mm.need = TRUE /\ mm.state = st /\ mm.sl = z.sl
    BY <1>7 DEF RunQueues, pend_resched
<1> HIDE DEF mm
<1>9. \A t \in LoadTasks : Ready(mm, t) <=> t \in on
    BY <1>0, <1>2, <1>8, TableFacts DEF Ready
<1>10. /\ \A t \in LoadTasks : mm.state[t] # "SLEEP"
       /\ \A t \in Tasks \ LoadTasks : mm.state[t] = kk.state[t]
    BY <1>0, <1>2, <1>8, TableFacts
<1>11. mm.sl = kk.sl
    BY <1>2, <1>4, <1>5, <1>6, <1>7, <1>8
<1> QED BY <1>1, <1>8, <1>9, <1>10, <1>11 DEF on

-----------------------------------------------------------------------------
(* What a tick does to the states and the accounts.                        *)

\* Accounting keeps the CPU, makes nobody READY, and only ever adds requests; it
\* changes the ready queues only where it asks for a switch.
Charged(kk, mm) ==
    /\ mm.current = kk.current
    /\ \A t \in Tasks : Ready(mm, t) => Ready(kk, t)
    /\ kk.state[Shell] # "BLOCKED" => mm.state[Shell] # "BLOCKED"
    /\ (kk.need => mm.need) /\ (kk.pend => mm.pend)
    /\ mm.pend \/ mm.rtq = kk.rtq

LEMMA ChargedPend ==
    ASSUME NEW kk \in RunQueues
    PROVE  Charged(kk, pend_resched(kk)) /\ pend_resched(kk).pend = TRUE
BY DEF RunQueues, pend_resched, Charged, Ready

\* The wake-ups of a tick.
LEMMA WakeStates ==
    ASSUME NEW kk, Good(kk), NEW step \in Nat
    PROVE  LET mm == WakeSleepers(kk, step)
           IN  /\ mm.current = kk.current /\ mm.pend = kk.pend /\ mm.rtq = kk.rtq
               /\ kk.need => mm.need
               /\ \A t \in Tasks : Ready(mm, t) /\ ~Ready(kk, t)
                       => mm.need /\ t \in woken(kk.sl, step)
               /\ \A t \in RtTasks : Ready(mm, t) => Ready(kk, t)
               /\ kk.state[Shell] # "BLOCKED" => mm.state[Shell] # "BLOCKED"
<1> DEFINE l  == kk.sl
           W  == woken(l, step)
           L  == sleep_advance(l, step)
           st == [t \in Tasks |-> IF t \in W THEN "READY" ELSE kk.state[t]]
           nd == kk.need \/ \E t \in W : kk.state[t] # "READY"
           mm == [kk EXCEPT !.sl = L, !.state = st, !.need = nd]
<1>1. IsList(l, Tasks) /\ Injective(l.q) /\ ToSet(l.q) \subseteq MaySleep /\ kk \in RunQueues
    BY GoodList
<1>2. WakeSleepers(kk, step) = mm
    BY DEF WakeSleepers
<1> HIDE DEF l
<1>3. W \subseteq ToSet(l.q)
    BY <1>1, SleepAdvance
<1> HIDE DEF W, L
<1>4. W \cap RtTasks = {}
    BY <1>1, <1>3, TableFacts
<1>5. /\ mm.state = st /\ mm.rtq = kk.rtq /\ mm.need = nd
      /\ mm.current = kk.current /\ mm.pend = kk.pend
    BY <1>1 DEF RunQueues
<1> HIDE DEF mm
<1>6. \A t \in Tasks : Ready(mm, t) /\ ~Ready(kk, t) => mm.need /\ t \in W
    BY <1>5 DEF Ready
<1>7. \A t \in RtTasks : Ready(mm, t) => Ready(kk, t)
    BY <1>4, <1>6, TableFacts
<1>8. kk.state[Shell] # "BLOCKED" => mm.state[Shell] # "BLOCKED"
    BY <1>5, TableFacts
<1> QED BY <1>2, <1>5, <1>6, <1>7, <1>8 DEF W, l

LEMMA RrCharged ==
    ASSUME NEW kk, Good(kk), NEW aa \in Accounts, NEW step \in Nat, kk.current \in RtTasks
    PROVE  LET r == rr_account(kk, aa, step)
           IN  /\ Charged(kk, r[1])
               /\ r[2].used = aa.used /\ r[2].throttled = aa.throttled
               /\ r[2].left = aa.left /\ r[2].release = aa.release
               /\ r[2].missed = aa.missed
<1> DEFINE c == kk.current
           r == rt_rotate(kk, Prio[c])
<1>1. kk \in RunQueues
    BY GoodList
<1>2. r \in RunQueues /\ SameButRtq(kk, r)
    <2>1. Prio[c] \in Levels
        BY TableFacts
    <2>2. Queued(r, RtReady(kk)) /\ SameButRtq(kk, r)
        BY <2>1, RtRotate DEF Good
    <2> QED BY <2>2 DEF Queued
<1> HIDE DEF r
<1>3. Charged(kk, pend_resched(r)) /\ Charged(kk, kk)
    BY <1>1, <1>2 DEF RunQueues, pend_resched, SameButRtq, Charged, Ready
<1>4. rr_account(kk, aa, step) =
        IF step >= aa.quantum[c] THEN <<pend_resched(r), [aa EXCEPT !.quantum[c] = Quantum]>>
        ELSE <<kk, [aa EXCEPT !.quantum[c] = @ - step]>>
    BY DEF rr_account, r
<1> QED BY <1>3, <1>4 DEF Accounts

\* The deadline task is charged a tick: it keeps enough time, or goes to sleep.
LEMMA DeadlineCharged ==
    ASSUME NEW kk, Good(kk), NEW aa \in Accounts, Policy[kk.current] = "DEADLINE",
           aa.left >= 1, Enough => aa.release >= (DlPeriod - DlRuntime) + (aa.left - 1)
    PROVE  LET r == deadline_account(kk, aa, 1)
           IN  /\ Charged(kk, r[1])
               /\ r[2].used = aa.used /\ r[2].throttled = aa.throttled
               /\ Enough => r[2].missed = aa.missed
               /\ Kept(r[2]) \/ (~Ready(r[1], Deadline) /\ r[1].pend = TRUE)
<1> DEFINE c == kk.current
           r == deadline_account(kk, aa, 1)
           wait == IF aa.release > 0 THEN aa.release ELSE DlPeriod
           L == sleep_insert(kk.sl, c, wait)
           b == [aa EXCEPT !.left = Sub(@, 1), !.missed = @ \/ aa.release < 0]
           s == [kk EXCEPT !.state[c] = "SLEEP", !.sl = L]
<1>1. kk \in RunQueues /\ c \in Tasks
    BY GoodList DEF RunQueues
<1>2. c = Deadline /\ c # Shell
    <2>1. c = Deadline
        BY <1>1, TaskTable
    <2> QED BY <2>1 DEF Deadline, Shell
<1>3. r = <<IF b.left > 0 THEN kk ELSE pend_resched(s), b>>
    BY DEF deadline_account
<1>4. /\ b.left = aa.left - 1 /\ b.release = aa.release
      /\ b.used = aa.used /\ b.throttled = aa.throttled
      /\ b.missed = (aa.missed \/ aa.release < 0)
    BY ParameterFacts DEF Accounts, Sub
<1> HIDE DEF b, L
<1>5. Enough => b.missed = aa.missed
    <2>1. Enough => ~(aa.release < 0)
        BY ParameterFacts DEF Accounts, Enough
    <2>2. aa.missed \in BOOLEAN
        BY DEF Accounts
    <2> QED BY <1>4, <2>1, <2>2
<1>6. b.left > 0 => Kept(b)
    BY <1>4, ParameterFacts DEF Accounts, Kept
<1>7. s \in [{"current", "state", "rtq", "sl", "need", "pend"} -> {s[w] : w \in DOMAIN s}]
    BY <1>1 DEF RunQueues
<1>8. /\ pend_resched(s).state = [kk.state EXCEPT ![c] = "SLEEP"]
      /\ pend_resched(s).pend = TRUE /\ pend_resched(s).need = TRUE
      /\ pend_resched(s).current = kk.current
    BY <1>1 DEF RunQueues, pend_resched
<1>9. Charged(kk, kk)
    BY DEF Charged
<1> HIDE DEF s
<1>10. Charged(kk, pend_resched(s)) /\ ~Ready(pend_resched(s), Deadline)
    BY <1>1, <1>2, <1>8 DEF RunQueues, Charged, Ready
<1> HIDE DEF r
<1>11. CASE b.left > 0
    <2>1. r[1] = kk /\ r[2] = b
        BY <1>3, <1>11
    <2> QED BY <2>1, <1>4, <1>5, <1>6, <1>9, <1>11 DEF r
<1>12. CASE ~(b.left > 0)
    <2>1. r[1] = pend_resched(s) /\ r[2] = b
        BY <1>3, <1>12
    <2> QED BY <2>1, <1>4, <1>5, <1>8, <1>10 DEF r
<1> QED BY <1>11, <1>12

\* The budget of a window is left, and a real-time task is charged one tick of it.
Chargeable(kk, aa, step) ==
    Within(aa) /\ (kk.current \in RtTasks => ~aa.throttled /\ step = 1)

\* rt_account on a current task that is not throttled, and on any other.
LEMMA RtCharged ==
    ASSUME NEW kk, Good(kk), NEW aa \in Accounts, NEW step \in Nat, Chargeable(kk, aa, step),
           NEW s, s = rt_account(kk, aa, step)
    PROVE  /\ Charged(kk, s[1])
           /\ s[2].left = aa.left /\ s[2].release = aa.release
           /\ s[2].missed = aa.missed
           /\ Within(s[2]) /\ NotThrottled(s[1], s[2])
<1> DEFINE age == aa.age + step
           w == IF age >= RtWindow
                THEN [aa EXCEPT !.age = 0, !.used = 0, !.throttled = FALSE]
                ELSE [aa EXCEPT !.age = age]
           u == IF kk.current \in RtTasks THEN [w EXCEPT !.used = @ + step] ELSE w
<1>0. RtBudget \in Nat /\ RtBudget >= 1
    BY Parameters
<1>14. Within(aa) /\ (kk.current \in RtTasks => ~aa.throttled /\ step = 1)
    BY DEF Chargeable
<1>1. kk \in RunQueues /\ Charged(kk, kk)
    BY GoodList DEF Charged
<1>2. Charged(kk, pend_resched(kk)) /\ pend_resched(kk).pend = TRUE
    BY <1>1, ChargedPend
<1>3. s = IF kk.current \in RtTasks /\ u.used >= RtBudget /\ ~u.throttled
          THEN <<pend_resched(kk), [u EXCEPT !.throttled = TRUE]>>
          ELSE <<kk, u>>
    BY DEF rt_account
<1>10. /\ [aa EXCEPT !.age = 0, !.used = 0, !.throttled = FALSE] \in Accounts
       /\ age < RtWindow => [aa EXCEPT !.age = age] \in Accounts
    <2>1. [aa EXCEPT !.age = 0, !.used = 0, !.throttled = FALSE] \in Accounts
        BY ParameterFacts DEF Accounts
    <2>2. age < RtWindow => age \in 0..RtWindow-1
        BY ParameterFacts DEF Accounts
    <2>3. age \in 0..RtWindow-1 => [aa EXCEPT !.age = age] \in Accounts
        <3> HIDE DEF age
        <3> QED BY DEF Accounts
    <2> QED BY <2>1, <2>2, <2>3
<1>11. age \in Int /\ RtWindow \in Int
    BY ParameterFacts DEF Accounts
<1> HIDE DEF age
<1>12. ASSUME age >= RtWindow
       PROVE  /\ w \in Accounts
              /\ w.left = aa.left /\ w.release = aa.release /\ w.missed = aa.missed
              /\ w.used \in Nat /\ w.used =< RtBudget /\ (w.throttled \/ w.used < RtBudget)
              /\ (w.throttled => aa.throttled)
    <2>1. w = [aa EXCEPT !.age = 0, !.used = 0, !.throttled = FALSE]
        BY <1>12
    <2>2. w.used = 0 /\ w.throttled = FALSE /\ w.left = aa.left
          /\ w.release = aa.release /\ w.missed = aa.missed
        BY <2>1 DEF Accounts
    <2> QED BY <1>0, <1>10, <2>1, <2>2
<1>13. ASSUME age < RtWindow
       PROVE  /\ w \in Accounts
              /\ w.left = aa.left /\ w.release = aa.release /\ w.missed = aa.missed
              /\ w.used \in Nat /\ w.used =< RtBudget /\ (w.throttled \/ w.used < RtBudget)
              /\ (w.throttled => aa.throttled)
    <2>1. w = [aa EXCEPT !.age = age]
        BY <1>11, <1>13
    <2>2. w.used = aa.used /\ w.throttled = aa.throttled /\ w.left = aa.left
          /\ w.release = aa.release /\ w.missed = aa.missed
        BY <2>1 DEF Accounts
    <2> QED BY <1>0, <1>10, <1>13, <1>14, <2>1, <2>2 DEF Within, Accounts
<1> HIDE DEF w
<1>4. /\ w \in Accounts
      /\ w.left = aa.left /\ w.release = aa.release /\ w.missed = aa.missed
      /\ w.used \in Nat /\ w.used =< RtBudget /\ (w.throttled \/ w.used < RtBudget)
      /\ (w.throttled => aa.throttled)
    BY <1>11, <1>12, <1>13
<1>5. u \in Accounts
    BY <1>4 DEF Accounts
<1>6. /\ u.left = aa.left /\ u.release = aa.release /\ u.missed = aa.missed
      /\ u.throttled = w.throttled
      /\ u.used = IF kk.current \in RtTasks THEN w.used + step ELSE w.used
    BY <1>4 DEF Accounts
<1>7. /\ [u EXCEPT !.throttled = TRUE].throttled = TRUE
      /\ [u EXCEPT !.throttled = TRUE].used = u.used
      /\ [u EXCEPT !.throttled = TRUE].left = u.left
      /\ [u EXCEPT !.throttled = TRUE].release = u.release
      /\ [u EXCEPT !.throttled = TRUE].missed = u.missed
    BY <1>5 DEF Accounts
<1> HIDE DEF u
<1>8. CASE kk.current \in RtTasks /\ u.used >= RtBudget /\ ~u.throttled
    <2>1. s[1] = pend_resched(kk) /\ s[2] = [u EXCEPT !.throttled = TRUE]
        BY <1>3, <1>8
    <2>2. u.used =< RtBudget
        BY <1>0, <1>4, <1>6, <1>8, <1>14
    <2> QED BY <1>2, <1>6, <1>7, <2>1, <2>2 DEF Within, NotThrottled, Charged
<1>9. CASE ~(kk.current \in RtTasks /\ u.used >= RtBudget /\ ~u.throttled)
    <2>1. s[1] = kk /\ s[2] = u
        BY <1>3, <1>9
    <2>2. kk.current \in RtTasks => ~u.throttled
        BY <1>4, <1>6, <1>14
    <2>3. u.used =< RtBudget /\ (u.throttled \/ u.used < RtBudget)
        BY <1>0, <1>4, <1>6, <1>9, <1>14
    <2> QED BY <1>1, <1>6, <2>1, <2>2, <2>3 DEF Within, NotThrottled, Charged
<1> QED BY <1>8, <1>9

-----------------------------------------------------------------------------
(* Every step keeps the order of the classes and the accounts.             *)

LEMMA InitTime == Init => TimeInv
<1> SUFFICES ASSUME Init PROVE TimeInv
    OBVIOUS
<1>1. /\ \A t \in LoadTasks : ~Ready(k, t)
      /\ ~Ready(k, Deadline) /\ k.current = HalaInit /\ k.current # Deadline
      /\ k.current # Idle /\ k.current \notin RtTasks /\ k.current \notin LoadTasks
    BY TableFacts DEF Init, Ready, LoadTasks, HalaInit, Idle, Deadline
<1>2. RtBudget \in Nat \ {0}
    BY Parameters
<1>3. started(0) = {}
    BY DEF started
<1>4. a.used = 0 /\ a.throttled = FALSE /\ a.missed = FALSE
    BY DEF Init
<1>5. Ordered(k, a, blocking, phase)
    BY <1>1, <1>4 DEF Ordered, DeadlineOnCpu, IdleAlone, InTime, NotThrottled, RtIsFirst
<1>6. Loaded /\ Slow /\ ShellHearsInput
    BY <1>1, <1>3, TableFacts DEF Init, Loaded, Slow, ShellHearsInput
<1>7. Spent
    BY <1>2, <1>4 DEF Spent, Within
<1> QED BY <1>5, <1>6, <1>7 DEF TimeInv

\* A system call that makes no generator READY.
LEMMA SvcTime ==
    ASSUME IInv, TimeInv, NEW c, Running(c),
           NEW mm, Good(mm), mm.need = TRUE \/ mm = k,
           \A t \in LoadTasks : Ready(mm, t) => Ready(k, t),
           rx' > 0 => mm.state[Shell] # "BLOCKED",
           k' \in SVC_Handler(mm, a),
           UNCHANGED <<a, phase, loadMode, loadOn, blocking>>,
           tickStep' = tickStep \/ \A t \in LoadTasks : ~Ready(k, t)
    PROVE  TimeInv'
<1>1. /\ Good(k) /\ Runnable(k) /\ a \in Accounts /\ phase = "thread" /\ ~k.pend
      /\ Ordered(k, a, blocking, "thread")
    BY RunningReady DEF IInv, OtherTypes, Running, TimeInv
<1>2. Ready(mm, Deadline) => Kept(a)
    <2>1. Ready(mm, Deadline) => Ready(k, Deadline)
        BY DEF Ready, LoadTasks, Deadline
    <2> QED BY <1>1, <2>1 DEF Ordered, InTime
<1>3. Ordered(k', a, blocking, "thread") /\ k'.state = mm.state
    <2> DEFINE bl == blocking
               nn == k'
    <2>1. Ordered(k, a, bl, "thread") /\ nn \in SVC_Handler(mm, a)
        BY <1>1
    <2> HIDE DEF bl, nn
    <2>2. Ordered(nn, a, bl, "thread") /\ nn.state = mm.state
        BY <1>1, <1>2, <2>1, SvcOrder
    <2> QED BY <2>2 DEF bl, nn
<1>4. Runnable(k') /\ Good(k')
    BY <1>1, SvcHandler
<1>5. ~k'.pend
    <2>1. CASE mm.need
        <3>1. PICK n \in hala_schedule_next(mm, a) : k' = [n EXCEPT !.pend = FALSE]
            BY <2>1 DEF SVC_Handler
        <3>2. PICK t : n = [mm EXCEPT !.current = t, !.need = FALSE]
            BY <3>1 DEF hala_schedule_next
        <3> QED BY <3>1, <3>2, GoodList DEF RunQueues
    <2>2. CASE ~mm.need
        BY <1>1, <2>2 DEF SVC_Handler
    <2> QED BY <2>1, <2>2
<1>6. \A t \in LoadTasks : Ready(k', t) => Ready(k, t)
    BY <1>3 DEF Ready
<1>7. Ordered(k, a, blocking, phase)'
    BY <1>1, <1>3 DEF Ordered, DeadlineOnCpu, IdleAlone, InTime, NotThrottled, RtIsFirst,
                      Ready, Asked, Kept, RtQueued, highest_rt
<1>8. Loaded' /\ Spent'
    BY <1>6, TableFacts DEF TimeInv, Loaded, Spent, Within, Ready
<1>9. Slow'
    <2>1. tickStep' > 1 => \A t \in LoadTasks : ~Ready(k, t)
        BY DEF TimeInv, Slow
    <2>2. k'.current \in Tasks
        BY <1>4, GoodList DEF RunQueues
    <2>3. Ready(k', k'.current)
        BY <1>4, <1>5, <2>2 DEF Runnable, Ready
    <2> QED BY <1>6, <2>1, <2>3 DEF Slow, Ready
<1>10. ShellHearsInput'
    BY <1>3 DEF ShellHearsInput
<1> QED BY <1>7, <1>8, <1>9, <1>10 DEF TimeInv

\* A step that keeps the task on the CPU and the accounts.
LEMMA QuietTime ==
    ASSUME IInv, TimeInv, NEW mm, k' = mm,
           mm.current = k.current,
           \A t \in LoadTasks : Ready(mm, t) => Ready(k, t),
           Asked(k, phase) => Asked(mm, phase'), k.pend => mm.pend,
           k.current \in RtTasks \ blocking' /\ ~mm.pend
               => k.current \notin blocking /\ mm.rtq = k.rtq,
           rx' > 0 => mm.state[Shell] # "BLOCKED",
           UNCHANGED <<a, tickStep, loadMode, loadOn>>
    PROVE  TimeInv'
<1>1. Ordered(mm, a, blocking', phase')
    <2> DEFINE cl == blocking'
               qh == phase'
    <2>1. /\ Asked(k, phase) => Asked(mm, qh)
          /\ k.current \in RtTasks \ cl /\ ~mm.pend => k.current \notin blocking /\ mm.rtq = k.rtq
          /\ Ordered(k, a, blocking, phase)
        BY DEF TimeInv
    <2> HIDE DEF cl, qh
    <2>2. Ordered(mm, a, cl, qh)
        BY <2>1, StillOrdered
    <2> QED BY <2>2 DEF cl, qh
<1>2. Ordered(k, a, blocking, phase)'
    BY <1>1 DEF Ordered, DeadlineOnCpu, IdleAlone, InTime, NotThrottled, RtIsFirst,
                Ready, Asked, Kept, RtQueued, highest_rt
<1>3. Loaded' /\ Spent' /\ Slow'
    BY TableFacts DEF TimeInv, Loaded, Spent, Within, Slow, Ready
<1>4. ShellHearsInput'
    BY DEF ShellHearsInput
<1> QED BY <1>2, <1>3, <1>4 DEF TimeInv

\* SVC_LOAD starts afresh.
LEMMA LoadTime ==
    ASSUME IInv, TimeInv, NEW mode \in LoadModes, SvcLoad(mode)
    PROVE  TimeInv'
<1> DEFINE mm == load_enable(k, mode)
           aa == load_accounts(a, mode)
           nn == k'
           bl == blocking
<1>1. /\ Running(Shell) /\ tickStep' = 1 /\ loadMode' = mode /\ loadOn' = started(mode)
      /\ a' = aa /\ k' \in SVC_Handler(mm, aa)
      /\ UNCHANGED <<phase, blocking, rx>>
    BY DEF SvcLoad
<1>2. Good(k) /\ a \in Accounts /\ phase = "thread"
    BY <1>1, RunningReady DEF IInv, OtherTypes, Running
<1>3. /\ Good(mm) /\ mm.need = TRUE
      /\ \A t \in LoadTasks : Ready(mm, t) <=> t \in started(mode)
      /\ mm.state[Shell] = k.state[Shell]
    <2>1. Shell \in Tasks \ LoadTasks
        BY TableFacts DEF LoadTasks, Shell
    <2> QED BY <1>2, <2>1, LoadEnable, LoadEnableStates
<1>4. aa \in Accounts
    BY <1>2, LoadAccountsType
<1>5. /\ aa.used = 0 /\ aa.throttled = FALSE /\ aa.missed = a.missed
      /\ Deadline \in started(mode) => aa.left = DlRuntime /\ aa.release = DlPeriod
    BY <1>2 DEF load_accounts, Accounts
<1>6. Ready(mm, Deadline) => Kept(aa)
    <2>1. Ready(mm, Deadline) => Deadline \in started(mode)
        BY <1>3 DEF Ready, LoadTasks, Deadline
    <2> QED BY <1>5, <2>1, ParameterFacts DEF Kept
<1> HIDE DEF mm, aa
<1>7. Ordered(nn, aa, bl, "thread") /\ nn.state = mm.state
    <2>1. nn \in SVC_Handler(mm, aa)
        BY <1>1
    <2> HIDE DEF nn, bl
    <2> QED BY <1>3, <1>4, <1>6, <2>1, SvcOrder
<1>8. Ordered(k, a, blocking, phase)'
    BY <1>1, <1>2, <1>7 DEF Ordered, DeadlineOnCpu, IdleAlone, InTime, NotThrottled, RtIsFirst,
                      Ready, Asked, Kept, RtQueued, highest_rt
<1>9. Loaded'
    BY <1>1, <1>3, <1>7, TableFacts DEF Loaded, Ready
<1>10. Slow' /\ ShellHearsInput'
    BY <1>1, <1>3, <1>7 DEF TimeInv, Slow, ShellHearsInput
<1>11. Spent'
    <2>1. RtBudget \in Nat \ {0}
        BY Parameters
    <2> QED BY <1>1, <1>5, <2>1 DEF TimeInv, Spent, Within
<1> QED BY <1>8, <1>9, <1>10, <1>11 DEF TimeInv

\* What Release leaves the deadline task, if it is on the CPU or READY after the
\* wake-ups: the runtime it had and a tick less of time, or a new period.
LEMMA ReleaseTime ==
    ASSUME NEW kk, NEW aa \in Accounts, NEW step \in Nat
    PROVE  LET b == Release(kk, aa, step)
           IN  /\ b.used = aa.used /\ b.throttled = aa.throttled /\ b.missed = aa.missed
               /\ Deadline \in woken(kk.sl, step) => Kept(b)
               /\ Kept(aa) /\ step = 1
                    => /\ b.left >= 1
                       /\ Enough => b.release >= (DlPeriod - DlRuntime) + (b.left - 1)
<1> DEFINE b == Release(kk, aa, step)
<1>1. CASE Deadline \in woken(kk.sl, step)
    <2>1. /\ b.used = aa.used /\ b.throttled = aa.throttled /\ b.missed = aa.missed
          /\ b.left = DlRuntime /\ b.release = DlPeriod
        BY <1>1 DEF Release, Accounts
    <2> HIDE DEF b
    <2>2. b.left >= 1 /\ b.release >= (DlPeriod - DlRuntime) + (b.left - 1) /\ Kept(b)
        BY <2>1, ParameterFacts DEF Kept
    <2> QED BY <2>1, <2>2 DEF b
<1>2. CASE Deadline \notin woken(kk.sl, step)
    <2>1. /\ b.used = aa.used /\ b.throttled = aa.throttled /\ b.missed = aa.missed
          /\ b.left = aa.left
          /\ b.release = IF aa.release >= step THEN aa.release - step ELSE -1
        BY <1>2 DEF Release, Accounts
    <2> HIDE DEF b
    <2>2. Kept(aa) /\ step = 1
            => /\ b.left >= 1
               /\ Enough => b.release >= (DlPeriod - DlRuntime) + (b.left - 1)
        BY <2>1, ParameterFacts DEF Kept, Enough, Accounts
    <2> QED BY <1>2, <2>1, <2>2 DEF b
<1> QED BY <1>1, <1>2

\* The accounting of the tick by the class of the current task.
LEMMA AccountTime ==
    ASSUME NEW kk, Good(kk), NEW aa \in Accounts, NEW step \in Nat,
           kk.current \in LoadTasks => step = 1,
           kk.current = Deadline
              => /\ aa.left >= 1
                 /\ Enough => aa.release >= (DlPeriod - DlRuntime) + (aa.left - 1),
           NEW r \in account(kk, aa, step)
    PROVE  /\ Charged(kk, r[1])
           /\ r[2].used = aa.used /\ r[2].throttled = aa.throttled
           /\ Enough => r[2].missed = aa.missed
           /\ kk.current # Deadline => r[2].left = aa.left /\ r[2].release = aa.release
           /\ kk.current = Deadline
                => Kept(r[2]) \/ (~Ready(r[1], Deadline) /\ r[1].pend = TRUE)
<1>0. /\ kk.current \in Tasks /\ kk \in RunQueues
      /\ Policy[kk.current] = "DEADLINE" <=> kk.current = Deadline
    BY GoodList, TaskTable DEF RunQueues
<1>1. CASE Policy[kk.current] = "RR"
    <2>1. r = rr_account(kk, aa, step) /\ kk.current \in RtTasks
        BY <1>0, <1>1 DEF account, RtTasks, FairTasks
    <2>2. kk.current # Deadline
        BY <1>0, <1>1
    <2> QED BY <2>1, <2>2, RrCharged
<1>2. CASE Policy[kk.current] = "DEADLINE"
    <2>1. kk.current = Deadline /\ kk.current \in LoadTasks
        BY <1>0, <1>2 DEF LoadTasks, Deadline
    <2>2. r = deadline_account(kk, aa, 1)
        BY <1>2, <2>1 DEF account, FairTasks
    <2> QED BY <1>2, <2>1, <2>2, DeadlineCharged
<1>3. CASE Policy[kk.current] \notin {"RR", "DEADLINE"}
    <2>1. r \in {<<kk, aa>>, <<pend_resched(kk), aa>>}
        BY <1>3 DEF account
    <2>2. kk.current # Deadline
        BY <1>0, <1>3
    <2>3. Charged(kk, pend_resched(kk)) /\ Charged(kk, kk)
        BY <1>0, ChargedPend DEF Charged
    <2> QED BY <2>1, <2>2, <2>3
<1> QED BY <1>1, <1>2, <1>3

\* SysTick_Handler, up to its test of g_need_resched.
LEMMA TickTime ==
    ASSUME IInv, TimeInv, SysTick_Handler
    PROVE  TimeInv'
<1> DEFINE w == WakeSleepers(k, tickStep)
           b == Release(k, a, tickStep)
<1>1. /\ Good(k) /\ a \in Accounts /\ tickStep \in Nat /\ tickStep > 0
      /\ phase = "thread" /\ ~k.pend /\ phase' = "tick" /\ tickStep' = 1
      /\ UNCHANGED <<loadMode, loadOn, blocking, rx>>
      /\ k.current \in Tasks
    <2>1. k.current \in Tasks
        BY GoodList DEF IInv, QueueInv, RunQueues
    <2> QED BY <2>1, ParameterFacts DEF IInv, QueueInv, OtherTypes, SysTick_Handler
<1>2. PICK r \in account(w, b, tickStep) :
            /\ k' = rt_account(r[1], r[2], tickStep)[1]
            /\ a' = rt_account(r[1], r[2], tickStep)[2]
    BY DEF SysTick_Handler
<1>3. Good(w) /\ b \in Accounts
    BY <1>1, WakeSleepersGood, ReleaseType
<1>4. /\ w.current = k.current /\ w.pend = k.pend /\ w.rtq = k.rtq
      /\ \A t \in Tasks : Ready(w, t) /\ ~Ready(k, t)
              => w.need /\ t \in woken(k.sl, tickStep)
      /\ \A t \in RtTasks : Ready(w, t) => Ready(k, t)
      /\ k.state[Shell] # "BLOCKED" => w.state[Shell] # "BLOCKED"
    BY <1>1, WakeStates
<1>5. /\ b.used = a.used /\ b.throttled = a.throttled /\ b.missed = a.missed
      /\ Deadline \in woken(k.sl, tickStep) => Kept(b)
      /\ Kept(a) /\ tickStep = 1
            => /\ b.left >= 1
               /\ Enough => b.release >= (DlPeriod - DlRuntime) + (b.left - 1)
    BY <1>1, ReleaseTime
<1> HIDE DEF w, b
\* A tick of several is never charged to a generator.
<1>6. k.current \in LoadTasks => tickStep = 1
    BY <1>1 DEF TimeInv, Slow
<1>7. k.current = Deadline
        => /\ b.left >= 1
           /\ Enough => b.release >= (DlPeriod - DlRuntime) + (b.left - 1)
    <2> SUFFICES ASSUME k.current = Deadline
                 PROVE  /\ b.left >= 1
                        /\ Enough => b.release >= (DlPeriod - DlRuntime) + (b.left - 1)
        OBVIOUS
    <2>1. Kept(a) /\ tickStep = 1
        BY <1>1, <1>6 DEF TimeInv, Ordered, InTime, LoadTasks, Deadline
    <2> QED BY <1>5, <2>1
<1>8. k.current # Deadline /\ Ready(w, Deadline) => Kept(b) /\ w.need
    BY <1>1, <1>4, <1>5 DEF TimeInv, Ordered, DeadlineOnCpu, Asked, Ready
<1>9. /\ Charged(w, r[1])
      /\ r[2].used = b.used /\ r[2].throttled = b.throttled
      /\ Enough => r[2].missed = b.missed
      /\ k.current # Deadline => r[2].left = b.left /\ r[2].release = b.release
      /\ k.current = Deadline
            => Kept(r[2]) \/ (~Ready(r[1], Deadline) /\ r[1].pend = TRUE)
    <2>1. /\ w.current \in LoadTasks => tickStep = 1
          /\ w.current = Deadline
              => /\ b.left >= 1
                 /\ Enough => b.release >= (DlPeriod - DlRuntime) + (b.left - 1)
          /\ tickStep \in Nat
        BY <1>1, <1>4, <1>6, <1>7
    <2>2. /\ Charged(w, r[1])
          /\ r[2].used = b.used /\ r[2].throttled = b.throttled
          /\ Enough => r[2].missed = b.missed
          /\ w.current # Deadline => r[2].left = b.left /\ r[2].release = b.release
          /\ w.current = Deadline
                => Kept(r[2]) \/ (~Ready(r[1], Deadline) /\ r[1].pend = TRUE)
        BY <1>2, <1>3, <2>1, AccountTime
    <2> QED BY <1>4, <2>2
<1>10. Good(r[1]) /\ r[2] \in Accounts /\ r[1].current = k.current
    BY <1>1, <1>2, <1>3, <1>4, <1>9, Account DEF Ticked, Charged
<1>11. k.current \in RtTasks => ~r[2].throttled /\ tickStep = 1
    BY <1>1, <1>5, <1>6, <1>9, TableFacts DEF TimeInv, Ordered, NotThrottled
<1>12. Within(r[2])
    BY <1>5, <1>9 DEF TimeInv, Spent, Within
<1> DEFINE s == rt_account(r[1], r[2], tickStep)
           mm == s[1]
           aa == s[2]
<1>13. /\ Charged(r[1], mm)
       /\ aa.left = r[2].left /\ aa.release = r[2].release
       /\ aa.missed = r[2].missed
       /\ Within(aa) /\ NotThrottled(mm, aa)
    <2> DEFINE q == r[1]
               e == r[2]
    <2>1. /\ Good(q) /\ e \in Accounts /\ tickStep \in Nat /\ Chargeable(q, e, tickStep)
          /\ q.current = k.current
        BY <1>1, <1>10, <1>11, <1>12 DEF Chargeable
    <2>2. s = rt_account(q, e, tickStep)
        OBVIOUS
    <2> HIDE DEF q, e, s, mm, aa
    <2>3. /\ Charged(q, s[1])
          /\ s[2].left = e.left /\ s[2].release = e.release /\ s[2].missed = e.missed
          /\ Within(s[2]) /\ NotThrottled(s[1], s[2])
        BY <2>1, <2>2, RtCharged
    <2> QED BY <2>1, <2>3 DEF q, e, mm, aa
<1>14. k' = mm /\ a' = aa
    BY <1>2
<1> HIDE DEF s, mm, aa
<1>15. /\ mm.current = k.current
       /\ \A t \in Tasks : Ready(mm, t) => Ready(w, t)
       /\ w.need => mm.need
       /\ mm.pend \/ mm.rtq = k.rtq
       /\ k.state[Shell] # "BLOCKED" => mm.state[Shell] # "BLOCKED"
       /\ r[1].pend => mm.pend
       /\ \A t \in Tasks : Ready(mm, t) => Ready(r[1], t)
    BY <1>4, <1>9, <1>13 DEF Charged
\* The order of the classes.
<1>16. DeadlineOnCpu(mm, "tick")
    <2> SUFFICES ASSUME Ready(mm, Deadline), mm.current # Deadline PROVE mm.need
        BY DEF DeadlineOnCpu, Asked
    <2>1. Ready(w, Deadline) /\ k.current # Deadline
        BY <1>15 DEF Ready
    <2> QED BY <1>8, <1>15, <2>1
<1>17. IdleAlone(mm, "tick")
    <2> SUFFICES ASSUME mm.current = Idle, ~mm.need, NEW t \in LoadTasks \ RtTasks, Ready(mm, t)
                 PROVE  FALSE
        BY DEF IdleAlone, Asked
    <2>1. Ready(w, t) /\ ~w.need /\ t \in Tasks
        BY <1>15, TableFacts
    <2>2. Ready(k, t)
        BY <1>4, <2>1
    <2> QED BY <1>1, <1>15, <2>2 DEF TimeInv, Ordered, IdleAlone, Asked
<1>18. InTime(mm, aa)
    <2> SUFFICES ASSUME Ready(mm, Deadline) \/ (mm.current = Deadline /\ ~mm.pend)
                 PROVE  Kept(aa)
        BY DEF InTime
    <2>1. Kept(r[2])
        <3>1. CASE k.current = Deadline
            BY <1>9, <1>15, <3>1 DEF Ready
        <3>2. CASE k.current # Deadline
            <4>1. Kept(b)
                BY <1>8, <1>15, <3>2 DEF Ready
            <4> QED BY <1>9, <3>2, <4>1 DEF Kept
        <3> QED BY <3>1, <3>2
    <2> QED BY <1>13, <2>1 DEF Kept
<1>20. RtIsFirst(mm, blocking)
    <2>1. mm.rtq = k.rtq => (RtQueued(mm) <=> RtQueued(k)) /\ highest_rt(mm) = highest_rt(k)
        BY DEF RtQueued, highest_rt
    <2> QED BY <1>1, <1>15, <2>1 DEF TimeInv, Ordered, RtIsFirst
<1>21. Ordered(k, a, blocking, phase)'
    BY <1>1, <1>14, <1>16, <1>17, <1>18, <1>13, <1>20
       DEF Ordered, DeadlineOnCpu, IdleAlone, InTime, NotThrottled, RtIsFirst,
           Ready, Asked, Kept, RtQueued, highest_rt
<1>22. Loaded'
    BY <1>1, <1>4, <1>14, <1>15, TableFacts DEF TimeInv, Loaded, Ready
<1>23. Slow' /\ ShellHearsInput'
    BY <1>1, <1>14, <1>15 DEF TimeInv, Slow, ShellHearsInput
<1>24. Spent'
    BY <1>5, <1>9, <1>13, <1>14 DEF TimeInv, Spent, Within
<1> QED BY <1>21, <1>22, <1>23, <1>24 DEF TimeInv

\* Every step keeps the order of the classes and the accounts.
LEMMA NextTime == IInv /\ TimeInv /\ [Next]_vars => TimeInv'
<1> SUFFICES ASSUME IInv, TimeInv, [Next]_vars PROVE TimeInv'
    OBVIOUS
<1>0. Good(k) /\ k \in RunQueues /\ a \in Accounts /\ rx \in Nat /\ ShellHearsInput
    <2>1. Good(k) /\ a \in Accounts /\ rx \in 0..RxRing
        BY DEF IInv, QueueInv, OtherTypes
    <2> QED BY <2>1, GoodList, ParameterFacts DEF TimeInv
\* What Steady says of the states a system call leaves.
<1> DEFINE Harmless(mm) ==
        /\ Good(mm) /\ (mm.need = TRUE \/ mm = k)
        /\ \A t \in LoadTasks : Ready(mm, t) => Ready(k, t)
        /\ rx > 0 => mm.state[Shell] # "BLOCKED"
<1>a. ASSUME NEW c, Running(c), NEW mm, Harmless(mm), rx' > 0 => rx > 0,
             k' \in SVC_Handler(mm, a),
             UNCHANGED <<a, phase, tickStep, loadMode, loadOn, blocking>>
      PROVE  TimeInv'
    <2>1. /\ Good(mm) /\ (mm.need = TRUE \/ mm = k)
          /\ \A t \in LoadTasks : Ready(mm, t) => Ready(k, t)
          /\ rx' > 0 => mm.state[Shell] # "BLOCKED"
        BY <1>a
    <2> QED BY <1>a, <2>1, SvcTime
<1>b. ASSUME NEW mm, Good(mm), mm.need = TRUE \/ mm = k, Steady(k, mm)
      PROVE  Harmless(mm)
    BY <1>0, <1>b DEF Steady, ShellHearsInput
<1> HIDE DEF Harmless
<1>c. Harmless(k)
    BY <1>0, <1>b DEF Steady
<1>1. ASSUME NEW c \in Tasks, NEW n \in SleepTicks, SvcSleep(c, n)
      PROVE  TimeInv'
    <2> DEFINE mm == block_current_sleep(k, n)
    <2>1. /\ Running(c) /\ c \in Sleepers /\ n \in Nat /\ k' \in SVC_Handler(mm, a)
          /\ UNCHANGED <<a, phase, tickStep, loadMode, loadOn, blocking, rx>>
        BY <1>1, Parameters DEF SvcSleep
    <2>2. k.current = c
        BY <2>1 DEF Running
    <2>3. Good(mm) /\ mm.need = TRUE /\ Steady(k, mm)
        BY <1>0, <2>1, <2>2, BlockCurrentSleep, BlockSleepSteady
    <2> HIDE DEF mm
    <2> QED BY <1>a, <1>b, <2>1, <2>3
<1>2. ASSUME NEW c \in Tasks, SvcYield(c)
      PROVE  TimeInv'
    <2> DEFINE mm == pend_resched(k)
    <2>1. /\ Running(c) /\ k' \in SVC_Handler(mm, a)
          /\ UNCHANGED <<a, phase, tickStep, loadMode, loadOn, blocking, rx>>
        BY <1>2 DEF SvcYield
    <2>2. Good(mm) /\ mm.need = TRUE /\ Steady(k, mm)
        BY <1>0, PendResched DEF Steady, Ready
    <2> HIDE DEF mm
    <2> QED BY <1>a, <1>b, <2>1, <2>2
<1>3. ASSUME NEW c \in Tasks, SvcPlain(c)
      PROVE  TimeInv'
    <2>1. /\ Running(c) /\ k' \in SVC_Handler(k, a)
          /\ UNCHANGED <<a, phase, tickStep, loadMode, loadOn, blocking, rx>>
        BY <1>3 DEF SvcPlain
    <2> QED BY <1>a, <1>c, <2>1
<1>4. ASSUME NEW c \in Tasks, BlockBegin(c)
      PROVE  TimeInv'
    <2> DEFINE mm == leave_cpu(k)
    <2>1. /\ k.current = c /\ c # Shell /\ c # Idle /\ phase = "thread"
          /\ k' = mm /\ blocking' = blocking \union {c}
          /\ UNCHANGED <<a, phase, tickStep, loadMode, loadOn, rx>>
        BY <1>4 DEF BlockBegin, Running, ThreadBlocks, LoadTasks, Shell, HalaInit, Vm,
                    WorkerA, WorkerB, Idle
    <2>2. /\ mm.current = k.current /\ mm.pend = k.pend
          /\ mm.state = [k.state EXCEPT ![c] = "BLOCKED"]
        BY <1>0, <2>1, LeaveCpu
    <2>3. Steady(k, mm)
        BY <1>0, <2>1, <2>2, SteadyOne
    <2>4. rx' > 0 => mm.state[Shell] # "BLOCKED"
        BY <1>0, <2>1, <2>3 DEF Steady, ShellHearsInput
    <2> HIDE DEF mm
    <2>5. /\ \A t \in LoadTasks : Ready(mm, t) => Ready(k, t)
          /\ Asked(k, phase) => Asked(mm, phase')
          /\ k.current \notin RtTasks \ blocking'
        BY <2>1, <2>2, <2>3 DEF Steady, Asked
    <2> QED BY <2>1, <2>2, <2>4, <2>5, QuietTime
<1>5. ASSUME NEW c \in Tasks, BlockPend(c)
      PROVE  TimeInv'
    <2> DEFINE mm == pend_resched(k)
    <2>1. k' = mm /\ UNCHANGED <<a, phase, tickStep, loadMode, loadOn, rx>>
        BY <1>5 DEF BlockPend
    <2>2. mm.current = k.current /\ mm.state = k.state /\ mm.pend = TRUE
        BY <1>0, PendResched
    <2> HIDE DEF mm
    <2>3. /\ \A t \in LoadTasks : Ready(mm, t) => Ready(k, t)
          /\ Asked(mm, phase') /\ mm.pend
          /\ rx' > 0 => mm.state[Shell] # "BLOCKED"
        BY <1>0, <2>1, <2>2 DEF Asked, Ready, ShellHearsInput
    <2> QED BY <2>1, <2>2, <2>3, QuietTime
<1>6. ASSUME NEW type \in AppTypes, SvcAppRun(type)
      PROVE  TimeInv'
    <2> DEFINE mm == demo_start(k, type)
    <2>1. /\ Running(Shell) /\ k' \in SVC_Handler(mm, a) /\ {WorkerA, WorkerB} \subseteq Tasks
          /\ type = "bytecode" => Vm \in Tasks
          /\ UNCHANGED <<a, phase, tickStep, loadMode, loadOn, blocking, rx>>
        BY <1>6 DEF SvcAppRun
    <2>2. Good(mm) /\ mm.need = TRUE /\ Steady(k, mm)
        BY <1>0, <2>1, DemoStart, DemoStartSteady
    <2> HIDE DEF mm
    <2> QED BY <1>a, <1>b, <2>1, <2>2
<1>7. ASSUME NEW mode \in LoadModes, SvcLoad(mode)
      PROVE  TimeInv'
    BY <1>7, LoadTime
<1>8. CASE SvcRead
    <2>1. /\ Running(Shell) /\ k.current = Shell
          /\ UNCHANGED <<a, phase, tickStep, loadMode, loadOn, blocking>>
        BY <1>8 DEF SvcRead, Running
    <2>2. CASE rx > 0 /\ rx' = rx - 1 /\ k' \in SVC_Handler(k, a)
        BY <1>a, <1>c, <2>1, <2>2
    <2>3. CASE rx = 0 /\ rx' = rx /\ k' \in SVC_Handler(pend_resched(leave_cpu(k)), a)
        <3> DEFINE l == leave_cpu(k)
                   mm == pend_resched(l)
        <3>1. Good(l) /\ l.state = [k.state EXCEPT ![Shell] = "BLOCKED"]
            BY <1>0, <2>1, LeaveCpu DEF Shell, Idle
        <3> HIDE DEF l
        <3>2. Good(mm) /\ mm.need = TRUE /\ mm.state = l.state
            BY <3>1, PendResched
        <3>3. k' \in SVC_Handler(mm, a)
            BY <2>3 DEF l
        <3> HIDE DEF mm
        <3>4. \A t \in LoadTasks : Ready(mm, t) => Ready(k, t)
            BY <1>0, <3>1, <3>2 DEF Ready, RunQueues
        <3>5. Harmless(mm)
            BY <2>3, <3>2, <3>4 DEF Harmless
        <3> QED BY <1>a, <2>1, <2>3, <3>3, <3>5
    <2> QED BY <1>8, <2>2, <2>3 DEF SvcRead
<1>9. CASE SvcQueueCompile
    <2> DEFINE mm == task_make_ready(k, Compiler)
    <2>1. /\ Running(Shell) /\ Compiler \in Tasks \ LoadTasks /\ k' \in SVC_Handler(mm, a)
          /\ UNCHANGED <<a, phase, tickStep, loadMode, loadOn, blocking, rx>>
        BY <1>9 DEF SvcQueueCompile, LoadTasks, Compiler
    <2>2. Good(mm) /\ (mm.need = TRUE \/ mm = k) /\ Steady(k, mm)
        BY <1>0, <2>1, TaskMakeReady, MakeReadySteady
    <2> HIDE DEF mm
    <2> QED BY <1>a, <1>b, <2>1, <2>2
<1>10. CASE SvcAppStop
    <2> DEFINE mm == demo_stop(k)
    <2>1. /\ Running(Shell) /\ k' \in SVC_Handler(mm, a)
          /\ UNCHANGED <<a, phase, tickStep, loadMode, loadOn, blocking, rx>>
        BY <1>10 DEF SvcAppStop
    <2>2. Good(mm) /\ mm.need = TRUE /\ Steady(k, mm)
        BY <1>0, DemoStop, DemoStopSteady
    <2> HIDE DEF mm
    <2> QED BY <1>a, <1>b, <2>1, <2>2
<1>11. CASE SvcIdle
    <2>1. /\ Running(Idle) /\ k' \in SVC_Handler(k, a)
          /\ tickStep' = tickStep \/ loadMode = 0
          /\ UNCHANGED <<a, phase, loadMode, loadOn, blocking, rx>>
        BY <1>11 DEF SvcIdle
\* With no load on and idle on the CPU, no generator is READY.
    <2>2. loadMode = 0 => \A t \in LoadTasks : ~Ready(k, t)
        <3> SUFFICES ASSUME loadMode = 0, NEW t \in LoadTasks, Ready(k, t) PROVE FALSE
            OBVIOUS
        <3>1. t \notin RtTasks
            <4>1. loadOn = {}
                BY DEF TimeInv, Loaded, started
            <4> QED BY <4>1 DEF TimeInv, Loaded
        <3>2. k.current = Idle /\ ~Asked(k, phase)
            BY <2>1 DEF Running, Asked
        <3> QED BY <3>1, <3>2 DEF TimeInv, Ordered, IdleAlone
    <2>3. /\ Good(k)
          /\ \A t \in LoadTasks : Ready(k, t) => Ready(k, t)
          /\ rx' > 0 => k.state[Shell] # "BLOCKED"
        BY <1>0, <2>1 DEF ShellHearsInput
    <2>4. tickStep' = tickStep \/ \A t \in LoadTasks : ~Ready(k, t)
        BY <2>1, <2>2
    <2> QED BY <2>1, <2>3, <2>4, SvcTime
<1>12. CASE HalaInitReady
    <2> DEFINE mm == task_make_ready(k, Shell)
    <2>1. /\ k' = mm /\ UNCHANGED <<a, phase, tickStep, loadMode, loadOn, blocking, rx>>
          /\ k.current = HalaInit /\ phase = "thread"
        BY <1>12 DEF HalaInitReady, Running
    <2>2. /\ Steady(k, mm) /\ mm.rtq = k.rtq /\ mm.current = k.current /\ mm.pend = k.pend
        <3>1. Shell \in Tasks \ LoadTasks
            BY TableFacts DEF LoadTasks, Shell
        <3> QED BY <1>0, <3>1, MakeReadySteady
    <2> HIDE DEF mm
    <2>3. k.current \notin RtTasks
        BY <2>1, TableFacts DEF HalaInit
    <2>4. /\ \A t \in LoadTasks : Ready(mm, t) => Ready(k, t)
          /\ Asked(k, phase) => Asked(mm, phase')
          /\ rx' > 0 => mm.state[Shell] # "BLOCKED"
        BY <1>0, <2>1, <2>2 DEF Steady, Asked, ShellHearsInput
    <2> QED BY <2>1, <2>2, <2>3, <2>4, QuietTime
<1>13. CASE PendSV_Handler
    <2>1. PICK n \in hala_schedule_next(k, a) : k' = [n EXCEPT !.pend = FALSE]
        BY <1>13 DEF PendSV_Handler
    <2> DEFINE mm == [n EXCEPT !.pend = FALSE]
               bl == blocking
    <2>2. /\ phase = "thread" /\ k' = mm
          /\ UNCHANGED <<a, phase, tickStep, loadMode, loadOn, blocking, rx>>
        BY <1>13, <2>1 DEF PendSV_Handler
    <2>3. Ready(k, Deadline) => Kept(a)
        BY DEF TimeInv, Ordered, InTime
    <2> HIDE DEF bl
    <2>4. Ordered(mm, a, bl, "thread") /\ mm.state = k.state
        BY <1>0, <2>1, <2>3, Picked
    <2>5. Good(mm) /\ Runnable(mm)
        BY <1>0, <2>1, HalaScheduleNext
    <2>6. mm.pend = FALSE
        <3>1. PICK t : n = [k EXCEPT !.current = t, !.need = FALSE]
            BY <2>1 DEF hala_schedule_next
        <3> QED BY <1>0, <3>1 DEF RunQueues
    <2> HIDE DEF mm
    <2>7. Ordered(k, a, blocking, phase)'
        BY <2>2, <2>4 DEF bl, Ordered, DeadlineOnCpu, IdleAlone, InTime, NotThrottled, RtIsFirst,
                          Ready, Asked, Kept, RtQueued, highest_rt
    <2>8. mm.current \in Tasks /\ Ready(mm, mm.current)
        BY <2>5, <2>6, GoodList DEF RunQueues, Runnable, Ready
    <2>9. Loaded' /\ Spent' /\ ShellHearsInput'
        BY <1>0, <2>2, <2>4, TableFacts DEF TimeInv, Loaded, Spent, Within, Ready, ShellHearsInput
    <2>10. Slow'
        BY <2>2, <2>4, <2>8 DEF TimeInv, Slow, Ready
    <2> QED BY <2>7, <2>9, <2>10 DEF TimeInv
<1>14. CASE SysTick_Handler
    BY <1>14, TickTime
<1>15. CASE SysTickPend
    <2> DEFINE mm == IF k.need THEN [k EXCEPT !.pend = TRUE] ELSE k
    <2>1. /\ k' = mm /\ phase = "tick" /\ phase' = "tock"
          /\ UNCHANGED <<a, tickStep, loadMode, loadOn, blocking, rx>>
        BY <1>15 DEF SysTickPend
    <2>2. /\ mm.current = k.current /\ mm.state = k.state /\ mm.rtq = k.rtq
          /\ mm.pend = (k.pend \/ k.need)
        BY <1>0 DEF RunQueues
    <2> HIDE DEF mm
    <2>3. /\ \A t \in LoadTasks : Ready(mm, t) => Ready(k, t)
          /\ Asked(k, phase) => Asked(mm, phase')
          /\ k.pend => mm.pend
          /\ rx' > 0 => mm.state[Shell] # "BLOCKED"
        BY <1>0, <2>1, <2>2 DEF Ready, Asked, ShellHearsInput
    <2> QED BY <2>1, <2>2, <2>3, QuietTime
<1>16. CASE SysTickReturn \/ CompileDone \/ UNCHANGED vars
    <2>1. /\ k' = k /\ (phase' = phase \/ (phase = "tock" /\ phase' = "thread"))
          /\ UNCHANGED <<a, tickStep, loadMode, loadOn, blocking, rx>>
        BY <1>16 DEF SysTickReturn, CompileDone, vars
    <2>2. Asked(k, phase) => Asked(k, phase')
        BY <2>1 DEF Asked
    <2>3. rx' > 0 => k.state[Shell] # "BLOCKED"
        BY <1>0, <2>1 DEF ShellHearsInput
    <2> QED BY <2>1, <2>2, <2>3, QuietTime
<1>17. CASE USART1_IRQHandler
    <2> DEFINE mm == uart_wake_shell(k)
    <2>1. k' = mm /\ UNCHANGED <<a, phase, tickStep, loadMode, loadOn, blocking>>
        BY <1>17 DEF USART1_IRQHandler
    <2>2. /\ mm.current = k.current /\ mm.rtq = k.rtq /\ (k.pend => mm.pend)
          /\ (k.need => mm.need) /\ mm.state[Shell] # "BLOCKED"
          /\ \A t \in LoadTasks : mm.state[t] = k.state[t]
        <3>1. CASE k.state[Shell] # "BLOCKED"
            BY <3>1 DEF uart_wake_shell
        <3>2. CASE k.state[Shell] = "BLOCKED"
            <4>1. Shell \notin LoadTasks
                BY DEF LoadTasks, Shell
            <4> DEFINE p == k.pend \/ phase = "thread"
            <4>2. mm = [k EXCEPT !.state[Shell] = "READY", !.need = TRUE, !.pend = p]
                BY <3>2 DEF uart_wake_shell
            <4>3. k.pend => p
                OBVIOUS
            <4> HIDE DEF p, mm
            <4> QED BY <1>0, <4>1, <4>2, <4>3, TableFacts DEF RunQueues
        <3> QED BY <3>1, <3>2
    <2> HIDE DEF mm
    <2>3. /\ \A t \in LoadTasks : Ready(mm, t) => Ready(k, t)
          /\ Asked(k, phase) => Asked(mm, phase')
        BY <2>1, <2>2 DEF Ready, Asked
    <2> QED BY <2>1, <2>2, <2>3, QuietTime
<1> QED BY <1>1, <1>2, <1>3, <1>4, <1>5, <1>6, <1>7, <1>8, <1>9, <1>10, <1>11, <1>12,
           <1>13, <1>14, <1>15, <1>16, <1>17 DEF Next, Thread, Interrupt

LEMMA InductiveTime == Spec => []TimeInv
<1>1. IInv /\ TimeInv /\ [Next]_vars => TimeInv'
    BY NextTime
<1> QED BY Inductive, InitTime, <1>1, PTL DEF Spec

-----------------------------------------------------------------------------
(* The delta queue implements the timers.                                  *)

\* The refinement mapping, of any run queues.
Left(kk) ==
    [t \in Sleepers |->
        IF kk.state[t] # "SLEEP" THEN -1
        ELSE IF Contains(kk.sl.q, t) THEN Due(kk.sl)[CHOOSE j \in DOMAIN kk.sl.q : kk.sl.q[j] = t]
        ELSE -2]

Asleep(kk, t) == kk.state[t] = "SLEEP"

\* From kk to mm the sleepers of C are taken out, nobody goes to sleep, and nobody
\* else's time changes.
Stopped(C, kk, mm) ==
    \A t \in Sleepers :
        /\ t \in C => ~Asleep(mm, t)
        /\ t \notin C => (Asleep(mm, t) <=> Asleep(kk, t))
        /\ t \notin C /\ Asleep(kk, t) => Time(mm.sl, t) = Time(kk.sl, t)

\* What the mapping is worth when the queues are in order.
LEMMA LeftAt ==
    ASSUME NEW kk, Good(kk), Linked(kk), NEW t \in Sleepers
    PROVE  /\ Left(kk)[t] = IF Asleep(kk, t) THEN Time(kk.sl, t) ELSE -1
           /\ Asleep(kk, t) => t \in ToSet(kk.sl.q) /\ Time(kk.sl, t) \in Nat
<1> DEFINE l == kk.sl
<1>0. IsList(l, Tasks) /\ Injective(l.q) /\ t \in Tasks
    BY GoodList, TaskTable DEF FairTasks
<1>1. Left(kk)[t] = IF ~Asleep(kk, t) THEN -1 ELSE IF Contains(l.q, t) THEN Time(l, t) ELSE -2
    BY DEF Left, Time, Asleep
<1>2. Asleep(kk, t) => t \in ToSet(l.q)
    BY <1>0 DEF Linked, Asleep
<1> HIDE DEF l
<1>3. DOMAIN l.q = 1..Len(l.q) /\ Len(l.q) \in Nat
    BY <1>0, LenProperties DEF IsList
<1>4. Contains(l.q, t) <=> t \in ToSet(l.q)
    BY <1>3 DEF Contains, ToSet
<1>5. ASSUME t \in ToSet(l.q) PROVE Time(l, t) \in Nat
    <2>1. PICK j \in 1..Len(l.q) : l.q[j] = t
        BY <1>3, <1>5 DEF ToSet
    <2>2. Time(l, l.q[j]) = Due(l)[j]
        BY <1>0, TimeAt
    <2>3. Due(l) \in [0..Len(l.q) -> Nat]
        BY <1>0, DueSums DEF IsList
    <2>4. j \in 0..Len(l.q)
        BY <1>3
    <2> QED BY <2>1, <2>2, <2>3, <2>4
<1> QED BY <1>1, <1>2, <1>4, <1>5 DEF l

\* What a step that only takes sleepers out does to the abstract timers.
LEMMA StoppedLeft ==
    ASSUME NEW kk, Good(kk), Linked(kk), NEW mm, Good(mm), Linked(mm),
           NEW C, Stopped(C, kk, mm)
    PROVE  Left(mm) = [t \in Sleepers |-> IF t \in C THEN -1 ELSE Left(kk)[t]]
<1>1. ASSUME NEW t \in Sleepers
      PROVE  Left(mm)[t] = IF t \in C THEN -1 ELSE Left(kk)[t]
    <2>1. /\ Left(mm)[t] = IF Asleep(mm, t) THEN Time(mm.sl, t) ELSE -1
          /\ Left(kk)[t] = IF Asleep(kk, t) THEN Time(kk.sl, t) ELSE -1
        BY LeftAt
    <2> QED BY <2>1 DEF Stopped
<1> DEFINE f == Left(mm)
<1>2. f = [t \in Sleepers |-> f[t]]
    BY DEF Left
<1> HIDE DEF f
<1>3. \A t \in Sleepers : f[t] = IF t \in C THEN -1 ELSE Left(kk)[t]
    BY <1>1 DEF f
<1> QED BY <1>2, <1>3 DEF f

\* The abstract timers do not change.
LEMMA SameLeft ==
    ASSUME NEW kk, Good(kk), Linked(kk), NEW mm, Good(mm), Linked(mm),
           Stopped({}, kk, mm)
    PROVE  Left(mm) = Left(kk)
<1> DEFINE f == Left(kk)
<1>1. Left(mm) = [t \in Sleepers |-> IF t \in {} THEN -1 ELSE f[t]]
    BY StoppedLeft
<1>2. f = [t \in Sleepers |-> f[t]]
    BY DEF Left
<1> HIDE DEF f
<1>3. Left(mm) = [t \in Sleepers |-> f[t]]
    BY <1>1
<1> QED BY <1>2, <1>3 DEF f

\* One such step after another, and the simplest of them.
LEMMA StoppedThen ==
    ASSUME NEW kk, NEW mm, NEW nn, NEW C, NEW D, Stopped(C, kk, mm), Stopped(D, mm, nn)
    PROVE  Stopped(C \union D, kk, nn)
BY DEF Stopped

LEMMA StoppedSame ==
    ASSUME NEW kk, NEW mm, mm.state = kk.state, mm.sl = kk.sl
    PROVE  Stopped({}, kk, mm)
BY DEF Stopped, Asleep

\* One task leaves a state other than SLEEP for another such state.
LEMMA StoppedOne ==
    ASSUME NEW kk \in RunQueues, NEW mm, mm.sl = kk.sl, NEW i \in Tasks, NEW st,
           mm.state = [kk.state EXCEPT ![i] = st], st # "SLEEP", kk.state[i] # "SLEEP"
    PROVE  Stopped({}, kk, mm)
BY TaskTable DEF Stopped, Asleep, RunQueues, FairTasks

\* A switch touches neither states nor sleep queue.
LEMMA SwitchTimes ==
    ASSUME NEW kk, Good(kk), NEW aa, NEW nn \in SVC_Handler(kk, aa)
    PROVE  Stopped({}, kk, nn)
<1>1. kk \in RunQueues
    BY GoodList
<1>2. nn.state = kk.state /\ nn.sl = kk.sl
    <2>1. CASE kk.need
        <3>1. PICK mm \in hala_schedule_next(kk, aa) : nn = [mm EXCEPT !.pend = FALSE]
            BY <2>1 DEF SVC_Handler
        <3>2. PICK n \in sched_pick_next(kk, aa) : mm = [kk EXCEPT !.current = n, !.need = FALSE]
            BY DEF hala_schedule_next
        <3> QED BY <1>1, <3>1, <3>2 DEF RunQueues
    <2>2. CASE ~kk.need
        BY <2>2 DEF SVC_Handler
    <2> QED BY <2>1, <2>2
<1> QED BY <1>2, StoppedSame

\* task_make_ready, of a task that is not in the sleep queue.
LEMMA MakeReadyTimes ==
    ASSUME NEW kk, Good(kk), Linked(kk), NEW i \in Tasks,
           i \notin ToSet(kk.sl.q), kk.state[i] # "SLEEP"
    PROVE  Stopped({}, kk, task_make_ready(kk, i))
<1> DEFINE mm == task_make_ready(kk, i)
           l == kk.sl
           L == link_reset(l, i)
           r == [kk EXCEPT !.state[i] = "READY", !.sl = L, !.need = TRUE]
<1>1. CASE kk.state[i] = "READY"
    <2>1. mm = kk
        BY <1>1 DEF task_make_ready
    <2> QED BY <2>1, StoppedSame
<1>2. CASE kk.state[i] # "READY"
    <2>1. /\ Good(mm) /\ mm.state = [kk.state EXCEPT ![i] = "READY"] /\ mm.sl.q = l.q
        BY TaskMakeReady
    <2>2. mm = IF i \in RtTasks THEN rt_enqueue(r, i) ELSE r
        BY <1>2 DEF task_make_ready
    <2> HIDE DEF mm, l, L
    <2>3. mm.sl = L
        <3>1. r.sl = L
            BY GoodList DEF RunQueues
        <3> HIDE DEF r
        <3>2. i \in RtTasks => rt_enqueue(r, i).sl = r.sl
            BY <2>2, <3>1 DEF rt_enqueue
        <3> QED BY <2>2, <3>1, <3>2
    <2>4. IsList(l, Tasks) /\ Injective(l.q) /\ IsList(L, Tasks)
        BY <2>1, <2>3, GoodList DEF l
    <2>5. L.q = l.q
        BY <2>1, <2>3
    <2>6. \A t \in ToSet(l.q) : L.delta[t] = l.delta[t]
        <3>1. L.delta = [l.delta EXCEPT ![i] = 0] /\ i \notin ToSet(l.q)
            BY DEF L, l, link_reset
        <3>2. l.delta \in [Tasks -> Nat] /\ ToSet(l.q) \subseteq Tasks
            BY GoodList, TableFacts DEF IsList, l
        <3> QED BY <3>1, <3>2
    <2>7. \A t \in ToSet(l.q) : Time(L, t) = Time(l, t)
        BY <2>4, <2>5, <2>6, TimeSame
    <2>8. kk.state \in [Tasks -> TaskState] /\ Sleepers \subseteq Tasks
        BY GoodList, TaskTable DEF RunQueues, FairTasks
    <2>9. ASSUME NEW t \in Sleepers
          PROVE  /\ Asleep(mm, t) <=> Asleep(kk, t)
                 /\ Asleep(kk, t) => Time(mm.sl, t) = Time(l, t)
        <3>1. Asleep(mm, t) <=> Asleep(kk, t)
            BY <2>1, <2>8 DEF Asleep
        <3>2. Asleep(kk, t) => t \in ToSet(l.q)
            BY <2>8 DEF Linked, Asleep, l
        <3> QED BY <2>3, <2>7, <3>1, <3>2
    <2> QED BY <2>9 DEF Stopped, mm, l
<1> QED BY <1>1, <1>2

\* block_current_sleep puts the task on the list for the time asked for.
LEMMA BlockSleepTimes ==
    ASSUME NEW kk, Good(kk), Linked(kk), kk.current \in Sleepers, NEW ticks \in Nat
    PROVE  LET mm == block_current_sleep(kk, ticks)
               c  == kk.current
           IN  /\ Asleep(mm, c) /\ Time(mm.sl, c) = IF ticks = 0 THEN 1 ELSE ticks
               /\ \A t \in Sleepers \ {c} :
                     /\ Asleep(mm, t) <=> Asleep(kk, t)
                     /\ Asleep(kk, t) => Time(mm.sl, t) = Time(kk.sl, t)
<1> DEFINE c == kk.current
           l == kk.sl
           r == rt_remove(kk, c)
           L == sleep_insert(l, c, ticks)
           mm == block_current_sleep(kk, ticks)
<1>0. /\ IsList(l, Tasks) /\ Injective(l.q) /\ c \in Tasks /\ Sleepers \subseteq Tasks
      /\ kk.state \in [Tasks -> TaskState]
    BY GoodList, TaskTable DEF RunQueues, FairTasks
<1>1. r \in RunQueues /\ r.state = kk.state /\ r.sl = l
    <2>1. Queued(r, RtReady(kk) \ {c}) /\ SameButRtq(kk, r)
        BY RtRemove DEF Good
    <2> QED BY <2>1 DEF Queued, SameButRtq
<1>2. mm = [[r EXCEPT !.state[c] = "SLEEP", !.sl = sleep_insert(@, c, ticks)]
                EXCEPT !.need = TRUE, !.pend = TRUE]
    BY DEF block_current_sleep, pend_resched
<1> HIDE DEF r, mm
<1>3. mm.state = [kk.state EXCEPT ![c] = "SLEEP"] /\ mm.sl = L
    BY <1>1, <1>2 DEF RunQueues
<1> HIDE DEF l, c
<1>4. /\ Time(L, c) = IF ticks = 0 THEN 1 ELSE ticks
      /\ \A t \in ToSet(l.q) \ {c} : Time(L, t) = Time(l, t)
    BY <1>0, SleepInsert
<1>5. Asleep(mm, c) /\ \A t \in Sleepers \ {c} : Asleep(mm, t) <=> Asleep(kk, t)
    BY <1>0, <1>3 DEF Asleep
<1>6. \A t \in Sleepers : Asleep(kk, t) => t \in ToSet(l.q)
    BY <1>0 DEF Linked, Asleep, l
<1> HIDE DEF L
<1>7. \A t \in Sleepers \ {c} : Asleep(kk, t) => Time(mm.sl, t) = Time(l, t)
    BY <1>3, <1>4, <1>6
<1> QED BY <1>3, <1>4, <1>5, <1>7 DEF mm, l, c

\* demo_block_task takes one task out.
LEMMA DemoBlockTimes ==
    ASSUME NEW kk, Good(kk), Linked(kk), NEW i \in {Vm, WorkerA, WorkerB}
    PROVE  Stopped({i}, kk, demo_block_task(kk, i))
<1> DEFINE mm == demo_block_task(kk, i)
<1>1. CASE i \notin Tasks
    <2>1. demo_block_task(kk, i) = kk /\ i \notin Sleepers
        BY <1>1, TaskTable DEF demo_block_task, FairTasks
    <2> QED BY <2>1 DEF Stopped
<1>2. CASE i \in Tasks
    <2> DEFINE l == kk.sl
               r == rt_remove(kk, i)
               R == sleep_remove(l, i)
               L == [R EXCEPT !.delta[i] = 0]
    <2>0. /\ IsList(l, Tasks) /\ Injective(l.q) /\ Sleepers \subseteq Tasks
          /\ kk.state \in [Tasks -> TaskState]
        BY GoodList, TaskTable DEF RunQueues, FairTasks
    <2>1. r \in RunQueues /\ r.state = kk.state /\ r.sl = l
        <3>1. Queued(r, RtReady(kk) \ {i}) /\ SameButRtq(kk, r)
            BY RtRemove DEF Good
        <3> QED BY <3>1 DEF Queued, SameButRtq
    <2>2. mm = [r EXCEPT !.state[i] = "BLOCKED",
                         !.sl = [sleep_remove(@, i) EXCEPT !.delta[i] = 0]]
        BY <1>2 DEF demo_block_task
    <2> HIDE DEF r, mm
    <2>3. mm.state = [kk.state EXCEPT ![i] = "BLOCKED"] /\ mm.sl = L
        BY <2>1, <2>2 DEF RunQueues
    <2> HIDE DEF l
    <2>4. /\ IsList(R, Tasks) /\ Injective(R.q)
          /\ \A t \in ToSet(l.q) \ {i} : Time(R, t) = Time(l, t)
        BY <2>0, SleepRemove
    <2>5. ToSet(R.q) = ToSet(l.q) \ {i}
        <3> HIDE DEF L, mm
        <3> QED BY <2>0, SleepRemove
    <2> HIDE DEF R
    <2>6. /\ IsList(L, Tasks) /\ L.q = R.q
          /\ \A t \in Tasks \ {i} : L.delta[t] = R.delta[t]
        BY <1>2, <2>4 DEF IsList
    <2>7. \A t \in ToSet(R.q) : L.delta[t] = R.delta[t]
        <3>1. ToSet(R.q) \subseteq Tasks \ {i}
            BY <2>5, GoodList, TableFacts DEF l
        <3> QED BY <2>6, <3>1
    <2> HIDE DEF L
    <2>8. \A t \in ToSet(R.q) : Time(L, t) = Time(R, t)
        BY <2>4, <2>6, <2>7, TimeSame
    <2>9. \A t \in Sleepers : Asleep(kk, t) => t \in ToSet(l.q)
        BY <2>0 DEF Linked, Asleep, l
    <2>10. ASSUME NEW t \in Sleepers
           PROVE  /\ t = i => ~Asleep(mm, t)
                  /\ t # i => (Asleep(mm, t) <=> Asleep(kk, t))
        BY <1>2, <2>0, <2>3 DEF Asleep
    <2>11. ASSUME NEW t \in Sleepers, t # i, Asleep(kk, t)
           PROVE  Time(mm.sl, t) = Time(l, t)
        BY <2>3, <2>4, <2>5, <2>8, <2>9, <2>11
    <2> QED BY <2>10, <2>11 DEF Stopped, mm, l
<1> QED BY <1>1, <1>2

\* demo_stop takes out the tasks of the application, demo_start no others.
LEMMA DemoStopTimes ==
    ASSUME NEW kk, Good(kk), Linked(kk)
    PROVE  Stopped({Vm, WorkerA, WorkerB}, kk, demo_stop(kk))
<1> DEFINE x == demo_block_task(kk, Vm)
           y == demo_block_task(x, WorkerA)
           z == demo_block_task(y, WorkerB)
           mm == pend_resched(z)
<1>0. /\ Vm \in Nat /\ WorkerA \in Nat /\ WorkerB \in Nat
      /\ Vm # Idle /\ WorkerA # Idle /\ WorkerB # Idle
    BY DEF Vm, WorkerA, WorkerB, Idle
<1>1. Good(x) /\ Linked(x) /\ Stopped({Vm}, kk, x)
    BY <1>0, DemoBlockTask, DemoBlockTimes
<1> HIDE DEF x
<1>2. Good(y) /\ Linked(y) /\ Stopped({WorkerA}, x, y)
    BY <1>0, <1>1, DemoBlockTask, DemoBlockTimes
<1> HIDE DEF y
<1>3. Good(z) /\ Stopped({WorkerB}, y, z)
    BY <1>0, <1>2, DemoBlockTask, DemoBlockTimes
<1> HIDE DEF z
<1>4. mm.state = z.state /\ mm.sl = z.sl
    BY <1>3, PendResched
<1>5. demo_stop(kk) = mm
    BY DEF demo_stop, x, y, z
<1> HIDE DEF mm
<1>6. Stopped({}, z, mm)
    BY <1>4, StoppedSame
<1>7. Stopped((({Vm} \union {WorkerA}) \union {WorkerB}) \union {}, kk, mm)
    <2>1. Stopped({Vm} \union {WorkerA}, kk, y)
        BY <1>1, <1>2, StoppedThen
    <2>2. Stopped(({Vm} \union {WorkerA}) \union {WorkerB}, kk, z)
        BY <2>1, <1>3, StoppedThen
    <2> QED BY <2>2, <1>6, StoppedThen
<1>8. (({Vm} \union {WorkerA}) \union {WorkerB}) \union {} = {Vm, WorkerA, WorkerB}
    OBVIOUS
<1> QED BY <1>5, <1>7, <1>8

LEMMA DemoStartTimes ==
    ASSUME NEW kk, Good(kk), Linked(kk), NEW type \in AppTypes, {WorkerA, WorkerB} \subseteq Tasks,
           type = "bytecode" => Vm \in Tasks
    PROVE  Stopped({Vm, WorkerA, WorkerB}, kk, demo_start(kk, type))
<1> DEFINE s == demo_stop(kk)
           x == task_make_ready(s, WorkerA)
           y == task_make_ready(x, WorkerB)
           z == task_make_ready(s, Vm)
           C == {Vm, WorkerA, WorkerB}
<1>1. /\ Good(s) /\ Linked(s) /\ ToSet(s.sl.q) \cap C = {} /\ Stopped(C, kk, s)
    BY DemoStop, DemoStopTimes
<1>2. type \in {"threads", "single", "bytecode"}
    BY Parameters
<1>3. demo_start(kk, type) = IF type = "threads" THEN y
                             ELSE IF type = "single" THEN x ELSE z
    BY <1>2 DEF demo_start
<1> HIDE DEF s
<1>4. /\ Good(x) /\ x.sl.q = s.sl.q /\ Linked(x)
      /\ Stopped({}, s, x)
    <2>1. s.state[WorkerA] # "SLEEP"
        BY <1>1 DEF Linked
    <2> QED BY <1>1, <2>1, MakeReadyLinked, MakeReadyTimes
<1> HIDE DEF x
<1>5. Stopped({}, x, y)
    <2>1. WorkerB \notin ToSet(x.sl.q)
        BY <1>1, <1>4
    <2>2. x.state[WorkerB] # "SLEEP"
        BY <1>4, <2>1 DEF Linked
    <2> QED BY <1>4, <2>1, <2>2, MakeReadyTimes
<1>6. Vm \in Tasks => Stopped({}, s, z)
    <2> HAVE Vm \in Tasks
    <2>1. s.state[Vm] # "SLEEP"
        BY <1>1 DEF Linked
    <2> QED BY <1>1, <2>1, MakeReadyTimes
<1> HIDE DEF y, z, C
<1>7. C \union {} = C
    OBVIOUS
<1>8. Stopped(C, kk, x)
    BY <1>1, <1>4, <1>7, StoppedThen
<1>9. Stopped(C, kk, y)
    BY <1>5, <1>7, <1>8, StoppedThen
<1>10. Vm \in Tasks => Stopped(C, kk, z)
    BY <1>1, <1>6, <1>7, StoppedThen
<1> QED BY <1>2, <1>3, <1>8, <1>9, <1>10 DEF C

\* A new load mode stops the generators and leaves the other sleepers alone.
LEMMA LoadTimes ==
    ASSUME NEW kk, Good(kk), NEW mode
    PROVE  Stopped(LoadTasks, kk, load_enable(kk, mode))
<1> DEFINE mm == load_enable(kk, mode)
<1>1. /\ \A t \in LoadTasks : mm.state[t] # "SLEEP"
      /\ \A t \in Tasks \ LoadTasks : mm.state[t] = kk.state[t]
      /\ mm.sl = kk.sl
    BY LoadEnableStates
<1> HIDE DEF mm
<1> QED BY <1>1, TaskTable DEF Stopped, Asleep, FairTasks, mm

\* The wake-ups of a tick: nobody early, and everybody whose time was up before.
LEMMA WakeTimes ==
    ASSUME NEW kk, Good(kk), Linked(kk), NEW step \in Nat, step > 0,
           NEW mm, mm = WakeSleepers(kk, step), NEW t \in Sleepers
    PROVE  LET W == woken(kk.sl, step)
           IN  /\ Asleep(mm, t) <=> Asleep(kk, t) /\ t \notin W
               /\ Asleep(kk, t) /\ t \in W => Time(kk.sl, t) =< step
               /\ Asleep(kk, t) /\ Time(kk.sl, t) = 0 => t \in W
               /\ Asleep(mm, t) => Time(mm.sl, t) = Time(kk.sl, t) - step
<1> DEFINE l  == kk.sl
           W  == woken(l, step)
           L  == sleep_advance(l, step)
           st == [i \in Tasks |-> IF i \in W THEN "READY" ELSE kk.state[i]]
           nd == kk.need \/ \E i \in W : kk.state[i] # "READY"
<1>0. /\ IsList(l, Tasks) /\ Injective(l.q) /\ kk \in RunQueues /\ t \in Tasks
    BY GoodList, TaskTable DEF FairTasks
<1>1. mm = [kk EXCEPT !.sl = L, !.state = st, !.need = nd]
    BY DEF WakeSleepers
<1>2. mm.sl = L /\ mm.state[t] = IF t \in W THEN "READY" ELSE kk.state[t]
    <2> HIDE DEF L, W, nd
    <2> QED BY <1>0, <1>1 DEF RunQueues
<1>3. Asleep(kk, t) => t \in ToSet(l.q)
    BY <1>0 DEF Linked, Asleep
<1> HIDE DEF l, st, nd
<1>4. \A i \in W : Time(l, i) =< step
    BY <1>0, SleepAdvance
<1>5. \A i \in ToSet(l.q) : Time(l, i) = 0 => i \in W
    BY <1>0, SleepAdvance
<1>6. \A i \in ToSet(l.q) \ W : Time(L, i) = Time(l, i) - step
    BY <1>0, SleepAdvance
<1> HIDE DEF L, W
<1> QED BY <1>2, <1>3, <1>4, <1>5, <1>6 DEF Asleep, l, W

\* Accounting puts at most the deadline task to sleep, which never calls SVC_SLEEP.
LEMMA AccountTimes ==
    ASSUME NEW kk, Good(kk), Linked(kk), NEW aa \in Accounts, NEW step \in Nat,
           NEW r \in account(kk, aa, step)
    PROVE  Stopped({}, kk, r[1])
<1>0. /\ kk.current \in Tasks /\ kk \in RunQueues /\ kk.state \in [Tasks -> TaskState]
      /\ Sleepers \subseteq Tasks
    BY GoodList, TaskTable DEF RunQueues, FairTasks
<1>1. Stopped({}, kk, kk) /\ Stopped({}, kk, pend_resched(kk))
    <2>1. pend_resched(kk).state = kk.state /\ pend_resched(kk).sl = kk.sl
        BY PendResched
    <2> QED BY <2>1, StoppedSame
<1>2. CASE Policy[kk.current] = "RR"
    <2> DEFINE q == rt_rotate(kk, Prio[kk.current])
    <2>1. r = rr_account(kk, aa, step) /\ kk.current \in RtTasks
        BY <1>0, <1>2 DEF account, RtTasks, FairTasks
    <2>2. r[1] \in {kk, pend_resched(q)}
        BY <2>1 DEF rr_account
    <2>3. Queued(q, RtReady(kk)) /\ SameButRtq(kk, q)
        <3>1. Prio[kk.current] \in Levels
            BY <2>1, TableFacts
        <3> QED BY <3>1, RtRotate DEF Good
    <2> HIDE DEF q
    <2>4. q \in RunQueues /\ q.state = kk.state /\ q.sl = kk.sl
        BY <2>3 DEF Queued, SameButRtq
    <2>5. pend_resched(q).state = kk.state /\ pend_resched(q).sl = kk.sl
        BY <2>4 DEF RunQueues, pend_resched
    <2>6. Stopped({}, kk, pend_resched(q))
        BY <2>5, StoppedSame
    <2> QED BY <1>1, <2>2, <2>6
<1>3. CASE Policy[kk.current] = "DEADLINE"
    <2> DEFINE c == kk.current
               l == kk.sl
               wait == IF aa.release > 0 THEN aa.release ELSE DlPeriod
               L == sleep_insert(l, c, wait)
               w == [kk EXCEPT !.state[c] = "SLEEP", !.sl = L]
               mm == pend_resched(w)
    <2>1. r[1] \in {kk, mm}
        BY <1>3 DEF account, deadline_account, FairTasks
    <2>2. c \notin Sleepers
        BY <1>3, TaskTable DEF FairTasks
    <2>3. wait \in Nat
        BY ParameterFacts DEF Accounts
    <2>4. IsList(l, Tasks) /\ Injective(l.q)
        BY GoodList
    <2>5. mm.sl = L /\ mm.state = [kk.state EXCEPT ![c] = "SLEEP"]
        <3> HIDE DEF L
        <3> QED BY <1>0 DEF RunQueues, pend_resched
    <2> HIDE DEF mm, w, wait, l, c
    <2>6. \A t \in ToSet(l.q) \ {c} : Time(L, t) = Time(l, t)
        BY <1>0, <2>3, <2>4, SleepInsert DEF c
    <2>7. \A t \in Sleepers : Asleep(kk, t) => t \in ToSet(l.q)
        BY <1>0 DEF Linked, Asleep, l
    <2> HIDE DEF L
    <2>8. ASSUME NEW t \in Sleepers
          PROVE  Asleep(mm, t) <=> Asleep(kk, t)
        <3>1. t # c /\ t \in Tasks
            BY <1>0, <2>2
        <3> QED BY <1>0, <2>5, <3>1 DEF Asleep
    <2>9. ASSUME NEW t \in Sleepers, Asleep(kk, t)
          PROVE  Time(mm.sl, t) = Time(l, t)
        <3>1. t # c /\ t \in ToSet(l.q)
            BY <2>2, <2>7, <2>9
        <3> QED BY <2>5, <2>6, <3>1
    <2>10. Stopped({}, kk, mm)
        BY <2>8, <2>9 DEF Stopped, l
    <2> QED BY <1>1, <2>1, <2>10
<1>4. CASE Policy[kk.current] \notin {"RR", "DEADLINE"}
    <2>1. r \in {<<kk, aa>>, <<pend_resched(kk), aa>>}
        BY <1>4 DEF account
    <2> QED BY <1>1, <2>1
<1> QED BY <1>2, <1>3, <1>4

\* The throttle touches no queue.
LEMMA RtAccountTimes ==
    ASSUME NEW kk, Good(kk), NEW aa, NEW step
    PROVE  Stopped({}, kk, rt_account(kk, aa, step)[1])
<1>1. rt_account(kk, aa, step)[1] \in {kk, pend_resched(kk)}
    BY DEF rt_account
<1>2. pend_resched(kk).state = kk.state /\ pend_resched(kk).sl = kk.sl
    BY PendResched
<1> QED BY <1>1, <1>2, StoppedSame

-----------------------------------------------------------------------------
(* Each action of the kernel is an action of the timers, or changes none.  *)

\* Nobody sleeps at the start.
LEMMA InitTimers == Init => Timers!Init
<1> SUFFICES ASSUME Init PROVE Timers!Init
    OBVIOUS
<1>1. \A t \in Sleepers : k.state[t] # "SLEEP"
    BY TaskTable DEF Init, FairTasks
<1> QED BY <1>1 DEF Timers!Init, Timers!Awake, RemainingTicks

\* A step that takes the sleepers of C out, if any, is a Cancel.
LEMMA CancelStep ==
    ASSUME Good(k), Linked(k), Good(k'), Linked(k'), NEW C, Stopped(C, k, k')
    PROVE  Timers!Next
<1> DEFINE f == RemainingTicks
           g == RemainingTicks'
           D == {t \in C \cap Sleepers : f[t] # -1}
<1>1. f = Left(k) /\ g = Left(k')
    BY DEF RemainingTicks, Left
<1>2. Left(k') = [t \in Sleepers |-> IF t \in C THEN -1 ELSE Left(k)[t]]
    BY StoppedLeft
<1> HIDE DEF f, g
<1>3. g = [t \in Sleepers |-> IF t \in C THEN -1 ELSE f[t]]
    BY <1>1, <1>2
<1>4. g = [t \in Sleepers |-> IF t \in D THEN -1 ELSE f[t]]
    BY <1>3
<1>5. D \in SUBSET Timers!Asleep
    BY DEF Timers!Asleep, Timers!Awake, f
<1> HIDE DEF D
<1>6. Timers!Cancel(D)
    BY <1>4 DEF Timers!Cancel, Timers!Awake, f, g
<1> QED BY <1>5, <1>6 DEF Timers!Next

\* SVC_SLEEP is Sleep.
LEMMA SleepStep ==
    ASSUME IInv, NoTruncation, IInv', NEW c \in Tasks, NEW n \in SleepTicks, SvcSleep(c, n)
    PROVE  Timers!Next
<1> DEFINE mm == block_current_sleep(k, n)
           f == RemainingTicks
           g == RemainingTicks'
           x == IF n = 0 THEN 1 ELSE n
<1>1. Running(c) /\ c \in Sleepers /\ k' \in SVC_Handler(mm, a) /\ n \in Nat
    BY Parameters DEF SvcSleep
<1>2. /\ Good(k) /\ Linked(k) /\ k.current = c /\ k.state[c] = "READY"
    BY <1>1, RunningReady DEF Running, Runnable
<1>3. /\ Good(mm) /\ Linked(mm)
      /\ Asleep(mm, c) /\ Time(mm.sl, c) = x
      /\ \A t \in Sleepers \ {c} : /\ Asleep(mm, t) <=> Asleep(k, t)
                                   /\ Asleep(k, t) => Time(mm.sl, t) = Time(k.sl, t)
    BY <1>1, <1>2, BlockCurrentSleep, BlockSleepTimes
<1> HIDE DEF mm, x
<1>4. Good(k') /\ Linked(k')
    BY DEF IInv, QueueInv, NoTruncation, Good, Queued, RunQueues, Rest, RtReady, Linked
<1>5. Left(k') = Left(mm)
    <2>1. Stopped({}, mm, k')
        BY <1>1, <1>3, SwitchTimes
    <2> QED BY <1>3, <1>4, <2>1, SameLeft
<1>6. f = Left(k) /\ g = Left(mm)
    BY <1>5 DEF RemainingTicks, Left
<1>7. \A t \in Sleepers : /\ Left(k)[t] = IF Asleep(k, t) THEN Time(k.sl, t) ELSE -1
                          /\ Left(mm)[t] = IF Asleep(mm, t) THEN Time(mm.sl, t) ELSE -1
    BY <1>2, <1>3, LeftAt
<1>8. f = [t \in Sleepers |-> f[t]] /\ g = [t \in Sleepers |-> g[t]]
    BY DEF RemainingTicks
<1> HIDE DEF f, g
<1>9. f[c] = -1 /\ g[c] = x
    BY <1>1, <1>2, <1>3, <1>6, <1>7 DEF Asleep
<1>10. \A t \in Sleepers \ {c} : g[t] = f[t]
    <2> TAKE t \in Sleepers \ {c}
    <2>1. /\ Asleep(mm, t) <=> Asleep(k, t)
          /\ Asleep(k, t) => Time(mm.sl, t) = Time(k.sl, t)
        BY <1>3
    <2>2. /\ f[t] = IF Asleep(k, t) THEN Time(k.sl, t) ELSE -1
          /\ g[t] = IF Asleep(mm, t) THEN Time(mm.sl, t) ELSE -1
        BY <1>6, <1>7
    <2> QED BY <2>1, <2>2 DEF Asleep
<1>11. g = [f EXCEPT ![c] = x]
    BY <1>8, <1>9, <1>10
<1>12. c \notin Timers!Asleep
    BY <1>9 DEF Timers!Asleep, Timers!Awake, f
<1>13. Timers!Sleep(c)
    BY <1>11, <1>12 DEF Timers!Sleep, f, g, x
<1> QED BY <1>1, <1>13 DEF Timers!Next

\* SysTick is Tick, of the sleepers that sleep_advance takes off the list.
LEMMA TickStep ==
    ASSUME IInv, NoTruncation, IInv', SysTick_Handler
    PROVE  Timers!Next
<1> DEFINE w == WakeSleepers(k, tickStep)
           b == Release(k, a, tickStep)
           f == RemainingTicks
           g == RemainingTicks'
           W == {t \in woken(k.sl, tickStep) \cap Sleepers : Asleep(k, t)}
<1>0. Good(k) /\ Linked(k) /\ a \in Accounts
    BY DEF IInv, QueueInv, OtherTypes
<1>1. PICK r \in account(w, b, tickStep) : k' = rt_account(r[1], r[2], tickStep)[1]
    BY DEF SysTick_Handler
<1>2. tickStep \in Nat /\ tickStep > 0 /\ tickStep \in 1..MaxStep
    BY ParameterFacts DEF IInv, OtherTypes
<1>3. Good(w) /\ Linked(w)
    BY <1>0, <1>2, WakeSleepersGood
<1>4. b \in Accounts
    BY <1>0, <1>2, ReleaseType
<1>5. ASSUME NEW t \in Sleepers
      PROVE  LET V == woken(k.sl, tickStep)
             IN  /\ Asleep(w, t) <=> Asleep(k, t) /\ t \notin V
                 /\ Asleep(k, t) /\ t \in V => Time(k.sl, t) =< tickStep
                 /\ Asleep(k, t) /\ Time(k.sl, t) = 0 => t \in V
                 /\ Asleep(w, t) => Time(w.sl, t) = Time(k.sl, t) - tickStep
    BY <1>0, <1>2, WakeTimes
<1> HIDE DEF w, b
<1>6. Ticked(w, r[1]) /\ r[2] \in Accounts /\ Stopped({}, w, r[1])
    BY <1>1, <1>2, <1>3, <1>4, Account, AccountTimes
<1>7. Good(k') /\ Linked(k')
    BY DEF IInv, QueueInv, NoTruncation, Good, Queued, RunQueues, Rest, RtReady, Linked
<1>8. Left(k') = Left(w)
    <2>1. Good(r[1])
        BY <1>6 DEF Ticked
    <2>2. Stopped({}, r[1], k')
        BY <1>1, <2>1, RtAccountTimes
    <2>3. Stopped({} \union {}, w, k')
        BY <1>6, <2>2, StoppedThen
    <2>4. {} \union {} = {}
        OBVIOUS
    <2> QED BY <1>3, <1>7, <2>3, <2>4, SameLeft
<1>9. f = Left(k) /\ g = Left(w)
    BY <1>8 DEF RemainingTicks, Left
<1>10. \A t \in Sleepers : /\ Left(k)[t] = IF Asleep(k, t) THEN Time(k.sl, t) ELSE -1
                           /\ Asleep(k, t) => Time(k.sl, t) \in Nat
                           /\ Left(w)[t] = IF Asleep(w, t) THEN Time(w.sl, t) ELSE -1
    BY <1>0, <1>3, LeftAt
<1>11. g = [t \in Sleepers |-> g[t]]
    BY DEF RemainingTicks
<1> HIDE DEF f, g
<1>12. Timers!Asleep = {t \in Sleepers : Asleep(k, t)}
    <2>1. \A t \in Sleepers : f[t] # -1 <=> Asleep(k, t)
        BY <1>9, <1>10
    <2> QED BY <2>1 DEF Timers!Asleep, Timers!Awake, f
<1>13. W \in SUBSET {t \in Timers!Asleep : f[t] =< tickStep}
    BY <1>5, <1>9, <1>10, <1>12
<1>14. {t \in Timers!Asleep : f[t] = 0} \subseteq W
    BY <1>5, <1>9, <1>10, <1>12
<1>15. \A t \in Sleepers :
           g[t] = IF t \notin Timers!Asleep \/ t \in W THEN -1 ELSE f[t] - tickStep
    BY <1>5, <1>9, <1>10, <1>12
<1> HIDE DEF W
<1>16. g = [t \in Sleepers |->
               IF t \notin Timers!Asleep \/ t \in W THEN -1 ELSE f[t] - tickStep]
    BY <1>11, <1>15
<1>17. Timers!Tick(tickStep)
    BY <1>13, <1>14, <1>16 DEF Timers!Tick, Timers!Awake, f, g
<1> QED BY <1>2, <1>17 DEF Timers!Next

\* A system call whose kernel function leaves the sleepers alone, or takes some out.
LEMMA SvcStep ==
    ASSUME Good(k), Linked(k), Good(k'), Linked(k'),
           NEW kk, Good(kk), NEW aa, k' \in SVC_Handler(kk, aa), NEW C, Stopped(C, k, kk)
    PROVE  Timers!Next
<1>1. Stopped({}, kk, k')
    BY SwitchTimes
<1>2. Stopped(C \union {}, k, k')
    BY <1>1, StoppedThen
<1> QED BY <1>2, CancelStep

\* Every step of the kernel is a step of the timers, or none.
LEMMA TimersNext ==
    ASSUME IInv, IInv', NoTruncation, [Next]_vars
    PROVE  Timers!Next \/ UNCHANGED RemainingTicks
<1>0. Good(k) /\ Linked(k) /\ Good(k') /\ Linked(k')
    <2>1. Good(k) /\ Linked(k)
        BY DEF IInv, QueueInv
    <2>2. Good(k') /\ Linked(k')
        BY DEF IInv, QueueInv, NoTruncation, Good, Queued, RunQueues, Rest, RtReady, Linked
    <2> QED BY <2>1, <2>2
<1>a. k \in RunQueues /\ k.state \in [Tasks -> TaskState]
    BY <1>0, GoodList DEF RunQueues
<1>b. Stopped({}, k, k) /\ Stopped({}, k, pend_resched(k)) /\ Good(pend_resched(k))
    <2>1. /\ pend_resched(k).state = k.state /\ pend_resched(k).sl = k.sl
          /\ Good(pend_resched(k))
        BY <1>0, PendResched
    <2> QED BY <2>1, StoppedSame
<1>c. ASSUME k.current # Idle, k.state[k.current] = "READY"
      PROVE  LET l == leave_cpu(k)
             IN  Good(l) /\ Stopped({}, k, l)
    <2> DEFINE l == leave_cpu(k)
    <2>1. Good(l) /\ l.sl = k.sl /\ l.state = [k.state EXCEPT ![k.current] = "BLOCKED"]
        BY <1>0, <1>c, LeaveCpu
    <2> HIDE DEF l
    <2>2. k.current \in Tasks
        BY <1>a DEF RunQueues
    <2>3. Stopped({}, k, l)
        BY <1>a, <1>c, <2>1, <2>2, StoppedOne
    <2> QED BY <2>1, <2>3 DEF l
<1>1. ASSUME NEW c \in Tasks, NEW n \in SleepTicks, SvcSleep(c, n)
      PROVE  Timers!Next
    BY <1>1, SleepStep
<1>2. ASSUME NEW c \in Tasks, SvcYield(c)
      PROVE  Timers!Next
    BY <1>0, <1>b, <1>2, SvcStep DEF SvcYield
<1>3. ASSUME NEW c \in Tasks, SvcPlain(c)
      PROVE  Timers!Next
    BY <1>0, <1>b, <1>3, SvcStep DEF SvcPlain
<1>4. ASSUME NEW c \in Tasks, BlockBegin(c)
      PROVE  Timers!Next
    <2>1. Running(c) /\ ThreadBlocks(c) /\ k' = leave_cpu(k)
        BY <1>4 DEF BlockBegin
    <2>2. k.current = c /\ c # Idle /\ k.state[c] = "READY"
        BY <2>1, RunningReady
           DEF ThreadBlocks, LoadTasks, Idle, HalaInit, Vm, WorkerA, WorkerB, Running, Runnable
    <2>3. Stopped({}, k, k')
        BY <1>c, <2>1, <2>2
    <2> QED BY <1>0, <2>3, CancelStep
<1>5. ASSUME NEW c \in Tasks, BlockPend(c)
      PROVE  Timers!Next
    BY <1>0, <1>b, <1>5, CancelStep DEF BlockPend
<1>6. ASSUME NEW type \in AppTypes, SvcAppRun(type)
      PROVE  Timers!Next
    <2>1. /\ {WorkerA, WorkerB} \subseteq Tasks /\ (type = "bytecode" => Vm \in Tasks)
          /\ k' \in SVC_Handler(demo_start(k, type), a)
        BY <1>6 DEF SvcAppRun
    <2> DEFINE mm == demo_start(k, type)
    <2>2. Good(mm) /\ Stopped({Vm, WorkerA, WorkerB}, k, mm)
        BY <1>0, <2>1, DemoStart, DemoStartTimes
    <2> HIDE DEF mm
    <2> QED BY <1>0, <2>1, <2>2, SvcStep DEF mm
<1>7. ASSUME NEW mode \in LoadModes, SvcLoad(mode)
      PROVE  Timers!Next
    <2>1. k' \in SVC_Handler(load_enable(k, mode), a')
        BY <1>7 DEF SvcLoad
    <2> DEFINE mm == load_enable(k, mode)
               aa == a'
    <2>2. Good(mm) /\ Stopped(LoadTasks, k, mm)
        BY <1>0, LoadEnable, LoadTimes
    <2>3. k' \in SVC_Handler(mm, aa)
        BY <2>1
    <2> HIDE DEF mm, aa
    <2> QED BY <1>0, <2>2, <2>3, SvcStep
<1>8. CASE SvcRead
    <2>1. /\ Running(Shell)
          /\ \/ k' \in SVC_Handler(k, a)
             \/ k' \in SVC_Handler(pend_resched(leave_cpu(k)), a)
        BY <1>8 DEF SvcRead
    <2> DEFINE l == leave_cpu(k)
               mm == pend_resched(l)
    <2>2. Good(l) /\ Stopped({}, k, l)
        BY <1>c, <2>1, RunningReady DEF Shell, Idle, Running, Runnable
    <2> HIDE DEF l
    <2>3. Good(mm) /\ mm.state = l.state /\ mm.sl = l.sl
        BY <2>2, PendResched
    <2> HIDE DEF mm
    <2>4. Stopped({} \union {}, k, mm)
        BY <2>2, <2>3, StoppedSame, StoppedThen
    <2>5. CASE k' \in SVC_Handler(k, a)
        BY <1>0, <1>b, <2>5, SvcStep
    <2>6. CASE k' \in SVC_Handler(mm, a)
        BY <1>0, <2>3, <2>4, <2>6, SvcStep
    <2> QED BY <2>1, <2>5, <2>6 DEF l, mm
<1>9. CASE SvcQueueCompile
    <2>1. /\ Compiler \in Tasks /\ k.state[Compiler] \in CompileWhen
          /\ k' \in SVC_Handler(task_make_ready(k, Compiler), a)
        BY <1>9 DEF SvcQueueCompile
    <2> DEFINE mm == task_make_ready(k, Compiler)
    <2>2. k.state[Compiler] # "SLEEP" /\ Compiler \notin ToSet(k.sl.q)
        BY <1>0, <2>1 DEF NoTruncation, Linked
    <2>3. Good(mm) /\ Stopped({}, k, mm)
        BY <1>0, <2>1, <2>2, MakeReadyLinked, MakeReadyTimes
    <2> HIDE DEF mm
    <2> QED BY <1>0, <2>1, <2>3, SvcStep DEF mm
<1>10. CASE CompileDone \/ SysTickReturn \/ UNCHANGED vars
    <2>1. k' = k
        BY <1>10 DEF CompileDone, SysTickReturn, vars
    <2> QED BY <2>1 DEF RemainingTicks
<1>11. CASE SvcAppStop
    <2>1. k' \in SVC_Handler(demo_stop(k), a)
        BY <1>11 DEF SvcAppStop
    <2> DEFINE mm == demo_stop(k)
    <2>2. Good(mm) /\ Stopped({Vm, WorkerA, WorkerB}, k, mm)
        BY <1>0, DemoStop, DemoStopTimes
    <2> HIDE DEF mm
    <2> QED BY <1>0, <2>1, <2>2, SvcStep DEF mm
<1>12. CASE SvcIdle
    BY <1>0, <1>b, <1>12, SvcStep DEF SvcIdle
<1>13. CASE HalaInitReady
    <2>1. k' = task_make_ready(k, Shell)
        BY <1>13 DEF HalaInitReady
    <2>2. Shell \notin ToSet(k.sl.q)
        BY <1>0, GoodList DEF NoTruncation, MaySleep, Shell, Deadline
    <2>3. k.state[Shell] # "SLEEP" /\ Shell \in Tasks
        BY <1>0, <2>2, TableFacts DEF Linked
    <2>4. Stopped({}, k, k')
        BY <1>0, <2>1, <2>2, <2>3, MakeReadyTimes
    <2> QED BY <1>0, <2>4, CancelStep
<1>14. CASE PendSV_Handler
    <2>1. PICK n \in hala_schedule_next(k, a) : k' = [n EXCEPT !.pend = FALSE]
        BY <1>14 DEF PendSV_Handler
    <2>2. PICK i \in sched_pick_next(k, a) : n = [k EXCEPT !.current = i, !.need = FALSE]
        BY DEF hala_schedule_next
    <2>3. k'.state = k.state /\ k'.sl = k.sl
        BY <1>a, <2>1, <2>2 DEF RunQueues
    <2>4. Stopped({}, k, k')
        BY <2>3, StoppedSame
    <2> QED BY <1>0, <2>4, CancelStep
<1>15. CASE SysTick_Handler
    BY <1>15, TickStep
<1>16. CASE SysTickPend
    <2>1. k'.state = k.state /\ k'.sl = k.sl
        BY <1>a, <1>16 DEF SysTickPend, RunQueues
    <2>2. Stopped({}, k, k')
        BY <2>1, StoppedSame
    <2> QED BY <1>0, <2>2, CancelStep
<1>17. CASE USART1_IRQHandler
    <2>1. k' = uart_wake_shell(k)
        BY <1>17 DEF USART1_IRQHandler
    <2>2. CASE k.state[Shell] # "BLOCKED"
        <3>1. k' = k
            BY <2>1, <2>2 DEF uart_wake_shell
        <3> QED BY <3>1 DEF RemainingTicks
    <2>3. CASE k.state[Shell] = "BLOCKED"
        <3>1. k'.sl = k.sl /\ k'.state = [k.state EXCEPT ![Shell] = "READY"]
            BY <1>a, <2>1, <2>3 DEF uart_wake_shell, RunQueues
        <3>2. Stopped({}, k, k')
            BY <1>a, <2>3, <3>1, TableFacts, StoppedOne
        <3> QED BY <1>0, <3>2, CancelStep
    <2> QED BY <2>2, <2>3
<1> QED BY <1>1, <1>2, <1>3, <1>4, <1>5, <1>6, <1>7, <1>8, <1>9, <1>10, <1>11, <1>12,
           <1>13, <1>14, <1>15, <1>16, <1>17 DEF Next, Thread, Interrupt

-----------------------------------------------------------------------------
(* The theorems.                                                           *)

\* The scheduler's state keeps its types and ranges: in particular the deltas of
\* the sleep queue stay naturals (the C code subtracts them as unsigned 16 bit
\* integers) and every tick accounts for 1 to MaxStep ticks.
THEOREM TypeCorrect == Spec => []TypeOK
<1>1. IInv => TypeOK
    <2> SUFFICES ASSUME IInv PROVE TypeOK
        OBVIOUS
    <2>1. k \in RunQueues /\ OtherTypes
        BY GoodList DEF IInv, QueueInv
    <2>2. /\ k.current \in Tasks
          /\ k.state \in [Tasks -> TaskState]
          /\ k.rtq \in [Levels -> Seq(RtTasks)]
          /\ k.sl.q \in Seq(Tasks) /\ k.sl.delta \in [Tasks -> Nat]
          /\ k.need \in BOOLEAN /\ k.pend \in BOOLEAN
        BY <2>1 DEF RunQueues
    <2>3. /\ a.age \in 0..RtWindow-1 /\ a.used \in Nat /\ a.throttled \in BOOLEAN
          /\ a.quantum \in [RtTasks -> 1..Quantum]
          /\ a.left \in 0..DlRuntime \union {1} /\ a.release \in -1..DlPeriod
          /\ a.missed \in BOOLEAN
        BY <2>1 DEF OtherTypes, Accounts
    <2> QED BY <2>1, <2>2, <2>3 DEF TypeOK, OtherTypes
<1> QED BY Inductive, <1>1, PTL

\* The ready queue of every priority level holds exactly the READY real-time
\* tasks of that level, each once, whatever the shell loads or stops.
THEOREM ReadyQueuesExact == Spec => []RtQueueExact
<1>1. IInv => RtQueueExact
    BY DEF IInv, QueueInv, Good, Queued, RtReady, Injective, RtQueueExact
<1> QED BY Inductive, <1>1, PTL

\* Only a READY task executes thread code.
THEOREM OnlyReadyRuns == Spec => []CurrentRunnable
<1>1. IInv => CurrentRunnable
    BY DEF IInv, QueueInv, Runnable, CurrentRunnable, ThreadMode
<1> QED BY Inductive, <1>1, PTL

\* The sleep queue never holds a task twice, so every walk along it ends.
THEOREM NoTaskLinkedTwice == Spec => []SleepListSimple
<1>1. IInv => SleepListSimple
    BY DEF IInv, QueueInv, Good, Rest, Injective, SleepListSimple
<1> QED BY Inductive, <1>1, PTL

\* As long as no compile job is queued while the compiler sleeps, and the shell
\* itself does not sleep, no sleeping task is lost from the sleep queue.
THEOREM NoSleeperLost == NoTruncation => (Spec => []SleepersLinked)
<1> SUFFICES ASSUME NoTruncation PROVE Spec => []SleepersLinked
    OBVIOUS
<1>1. IInv => SleepersLinked
    <2> SUFFICES ASSUME IInv PROVE SleepersLinked
        OBVIOUS
    <2>1. Linked(k) /\ k.sl.q \in Seq(Tasks)
        BY GoodList DEF IInv, QueueInv, IsList
    <2>2. DOMAIN k.sl.q = 1..Len(k.sl.q)
        BY <2>1, LenProperties
    <2> QED BY <2>1, <2>2 DEF Linked, SleepersLinked, Contains, ToSet
<1> QED BY Inductive, <1>1, PTL

\* Sleeping keeps its promise: under the same assumption the delta queue implements
\* the timers of SleepTimers, so nobody is woken before the time asked for, and
\* everybody at the latest by the interrupt after the one that uses the time up,
\* however the list is cut, reordered and advanced by several ticks at once.
THEOREM TimeIsKept == NoTruncation => (Spec => TimersSpec)
<1> SUFFICES ASSUME NoTruncation PROVE Spec => TimersSpec
    OBVIOUS
<1>1. IInv /\ IInv' /\ [Next]_vars => [Timers!Next]_RemainingTicks
    BY TimersNext
<1> QED BY <1>1, InitTimers, Inductive, PTL DEF Spec, TimersSpec, Timers!Spec

\* The shell does not stay blocked in SVC_READ while the UART ring holds input.
THEOREM ShellIsHeard == Spec => []ShellHearsInput
<1>1. TimeInv => ShellHearsInput
    BY DEF TimeInv
<1> QED BY InductiveTime, <1>1, PTL

\* sched_pick_next keeps the classes in order wherever an interrupt strikes: the
\* deadline task first, then the head of the highest real-time level.
THEOREM ClassesStayInOrder == Spec => []ClassesInOrder
<1>1. TimeInv => ClassesInOrder
    <2> SUFFICES ASSUME TimeInv PROVE ClassesInOrder
        OBVIOUS
    <2>1. RunningRtIsFirst
        BY DEF TimeInv, Ordered, RtIsFirst, RunningRtIsFirst, ThreadMode
    <2>2. DeadlineFirst
        <3> SUFFICES ASSUME ThreadMode, pick_deadline(k, a) # {} PROVE k.current = Deadline
            BY DEF DeadlineFirst
        <3>1. Ready(k, Deadline)
            BY TaskTable DEF pick_deadline, Ready
        <3> QED BY <3>1 DEF TimeInv, Ordered, DeadlineOnCpu, Asked, ThreadMode
    <2> QED BY <2>1, <2>2 DEF ClassesInOrder
<1> QED BY InductiveTime, <1>1, PTL

\* The timer is slowed down only while no load generator is READY.
THEOREM TicklessAlone == Spec => []TicklessOnlyIdle
<1>1. TimeInv => TicklessOnlyIdle
    BY TableFacts DEF TimeInv, Slow, TicklessOnlyIdle, Ready
<1> QED BY InductiveTime, <1>1, PTL

\* Real-time tasks never use more of a window than their budget.
THEOREM BudgetIsKept == Spec => []RtWithinBudget
<1>1. TimeInv => RtWithinBudget
    BY DEF TimeInv, Spent, Within, RtWithinBudget
<1> QED BY InductiveTime, <1>1, PTL

\* A deadline task whose runtime fits its period meets every deadline, and the
\* real-time tasks stay within the budget of each window.
THEOREM RtTimeIsKept == Enough => (Spec => []RtTimeKept)
<1> SUFFICES ASSUME Enough PROVE Spec => []RtTimeKept
    OBVIOUS
<1>1. TimeInv => RtTimeKept
    BY DEF TimeInv, Spent, Within, RtTimeKept, NoDeadlineMiss, RtWithinBudget
<1> QED BY InductiveTime, <1>1, PTL
====
