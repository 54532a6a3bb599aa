------------------------ MODULE HostNetworkProofs ------------------------
(* network-init keeps the host's files sound, the keys equal and its promise,  *)
(* for every set of clients, directories and lines of /etc/exports, and every  *)
(* number of failures, restarts and keys: of the files as far as no write of   *)
(* them is cut short, of the promise as far as no other client's init takes it *)
(* away, both as the properties say.                                           *)
EXTENDS HostNetwork, FiniteSetTheorems, SequenceTheorems, TLAPS

-----------------------------------------------------------------------------
(* Induction on numbers and on lists, for properties given as sets.            *)

(* A set of numbers that is not empty has a smallest member. *)
LEMMA Smallest ==
    ASSUME NEW S \in SUBSET Nat, S # {}
    PROVE  \E n \in S : \A m \in S : n <= m
<1>0. PICK R, T : R = StrictSubsetOrdering(Nat) /\ T = {0..n : n \in S}
  OBVIOUS
<1>1. T \subseteq FiniteSubsetsOf(Nat) /\ T # {}
  <2>1. \A n \in S : IsFiniteSet(0..n) /\ 0..n \subseteq Nat
    BY FS_Interval
  <2> QED  BY <1>0, <2>1 DEF FiniteSubsetsOf
<1>2. IsWellFoundedOn(R, FiniteSubsetsOf(Nat))
  BY <1>0, FS_StrictSubsetOrderingWellFounded
<1>3. PICK x \in T : \A y \in T : <<y, x>> \notin R
  BY <1>1, <1>2, WFMin, Zenon
<1>4. PICK n \in S : x = 0..n
  BY <1>0
<1>5. ASSUME NEW m \in S, m < n
      PROVE  FALSE
  <2>1. 0..m \subseteq 0..n /\ 0..m # 0..n
    <3>1. n \in 0..n /\ n \notin 0..m
      BY <1>5
    <3> QED  BY <1>5, <3>1
  <2>2. <<0..m, 0..n>> \in StrictSubsetOrdering(Nat)
    BY <2>1 DEF StrictSubsetOrdering
  <2> QED  BY <1>0, <1>3, <1>4, <2>2
<1> QED  BY <1>5

(* What holds of 0, and of n + 1 if of n, holds of all numbers. *)
LEMMA NatInduct ==
    ASSUME NEW B \in SUBSET Nat, 0 \in B, \A n \in B : n + 1 \in B
    PROVE  B = Nat
<1> SUFFICES ASSUME B # Nat
             PROVE  FALSE
  OBVIOUS
<1>1. PICK m \in Nat \ B : \A k \in Nat \ B : m <= k
  BY Smallest
<1>2. m - 1 \in Nat /\ ~(m <= m - 1)
  BY <1>1
<1> QED  BY <1>1, <1>2

(* What holds of the empty list, and of a list with one line more, holds of all lists. *)
LEMMA SeqInduct ==
    ASSUME NEW X, NEW B \in SUBSET Seq(X), <<>> \in B,
           \A l \in B, x \in X : Append(l, x) \in B
    PROVE  B = Seq(X)
<1>1. PICK N : N = {n \in Nat : \A l \in Seq(X) : Len(l) = n => l \in B}
  OBVIOUS
<1>2. 0 \in N
  <2>1. \A l \in Seq(X) : Len(l) = 0 => l = <<>>
    OBVIOUS
  <2> QED  BY <1>1, <2>1
<1>3. ASSUME NEW n \in N
      PROVE  n + 1 \in N
  <2> SUFFICES ASSUME NEW l \in Seq(X), Len(l) = n + 1
               PROVE  l \in B
    BY <1>1
  <2>0. n \in Nat
    BY <1>1
  <2>1. PICK f : f = SubSeq(l, 1, n)
    OBVIOUS
  <2>2. f \in Seq(X) /\ Len(f) = n /\ l[n + 1] \in X
    BY <2>0, <2>1
  <2>3. PICK u : u = Append(f, l[n + 1])
    OBVIOUS
  <2>4. u \in Seq(X) /\ Len(u) = n + 1
    BY <2>2, <2>3
  <2>5. \A i \in 1..Len(l) : l[i] = u[i]
    <3>1. \A i \in 1..n : f[i] = l[i]
      <4>1. (\A i \in 1..n : l[i] \in X) /\ 1 \in Int /\ n \in Int
        BY <2>0
      <4>2. \A i \in 1..(n - 1 + 1) : f[i] = l[1 + i - 1]
        BY <2>1, <4>1, SubSeqProperties
      <4> QED  BY <2>0, <4>2
    <3>2. u[n + 1] = l[n + 1] /\ \A i \in 1..n : u[i] = f[i]
      BY <2>0, <2>2, <2>3
    <3>3. \A i \in 1..Len(l) : i \in 1..n \/ i = n + 1
      BY <2>0
    <3> QED  BY <3>1, <3>2, <3>3
  <2>6. l = u
    BY <2>0, <2>4, <2>5, SeqEqual
  <2>7. f \in B
    BY <1>1, <2>2
  <2> QED  BY <2>2, <2>3, <2>6, <2>7
<1>4. N = Nat
  BY <1>1, <1>2, <1>3, NatInduct
<1>5. ASSUME NEW l \in Seq(X)
      PROVE  l \in B
  <2>1. Len(l) \in N
    BY <1>4
  <2> QED  BY <1>1, <2>1
<1> QED  BY <1>5

-----------------------------------------------------------------------------
(* Keep, the filter for the lines of /etc/exports.                             *)

(* One step of its recursion, and a function that takes n of them. *)
KeepStep(list, S, f, i) ==
    IF i = 0 THEN <<>>
    ELSE IF list[i] \in S THEN Append(f[i - 1], list[i]) ELSE f[i - 1]

Keeps(f, list, S, n) == f = [i \in 0..n |-> KeepStep(list, S, f, i)]

(* There is such a function, so the definition of Keep is one. *)
LEMMA KeepsExists ==
    ASSUME NEW list, NEW S, NEW n \in Nat
    PROVE  \E f : Keeps(f, list, S, n)
<1>1. PICK B : B = {k \in Nat : \E f : Keeps(f, list, S, k)}
  OBVIOUS
<1>2. 0 \in B
  <2>1. Keeps([i \in 0..0 |-> <<>>], list, S, 0)
    BY DEF Keeps, KeepStep
  <2> QED  BY <1>1, <2>1
<1>3. ASSUME NEW k \in B
      PROVE  k + 1 \in B
  <2>1. k \in Nat
    BY <1>1
  <2>2. PICK f : Keeps(f, list, S, k)
    BY <1>1
  <2>3. PICK m : m = k + 1
    OBVIOUS
  <2>4. PICK g : g = [i \in 0..m |-> IF i = m THEN KeepStep(list, S, f, m) ELSE f[i]]
    OBVIOUS
  <2>5. Keeps(g, list, S, m)
    <3>1. DOMAIN f = 0..k /\ \A i \in 0..k : f[i] = KeepStep(list, S, f, i)
      BY <2>2 DEF Keeps
    <3>2. ASSUME NEW i \in 0..m
          PROVE  g[i] = KeepStep(list, S, g, i)
      <4>1. i # 0 => i - 1 \in 0..k /\ g[i - 1] = f[i - 1]
        BY <2>1, <2>3, <2>4
      <4>2. i # m => i \in 0..k /\ g[i] = f[i]
        BY <2>1, <2>3, <2>4
      <4>3. m # 0
        BY <2>1, <2>3
      <4> QED  BY <2>4, <3>1, <4>1, <4>2, <4>3 DEF KeepStep
    <3> QED  BY <2>4, <3>2 DEF Keeps
  <2> QED  BY <1>1, <2>1, <2>3, <2>5
<1>4. B = Nat
  BY <1>1, <1>2, <1>3, NatInduct
<1> QED  BY <1>1, <1>4

(* What is kept of a list is what such a function has for all of it. *)
LEMMA KeepIs ==
    ASSUME NEW X, NEW list \in Seq(X), NEW S
    PROVE  \E f : Keeps(f, list, S, Len(list)) /\ Keep(list, S) = f[Len(list)]
<1> DEFINE kept == CHOOSE f : f = [i \in 0..Len(list) |->
               IF i = 0 THEN <<>>
               ELSE IF list[i] \in S THEN Append(f[i - 1], list[i]) ELSE f[i - 1]]
<1>1. Keep(list, S) = kept[Len(list)]
  BY DEF Keep
<1>2. \E f : Keeps(f, list, S, Len(list))
  <2>1. Len(list) \in Nat
    OBVIOUS
  <2> HIDE DEF kept
  <2> QED  BY <2>1, KeepsExists
<1>3. Keeps(kept, list, S, Len(list))
  BY <1>2 DEF Keeps, KeepStep
<1> QED  BY <1>1, <1>3

(* Lists that begin alike are kept alike so far. *)
LEMMA KeepsSame ==
    ASSUME NEW l1, NEW l2, NEW S, NEW m \in Nat, NEW n \in Nat, m <= n,
           \A i \in 1..m : l1[i] = l2[i],
           NEW f, Keeps(f, l1, S, m), NEW g, Keeps(g, l2, S, n)
    PROVE  \A i \in 0..m : f[i] = g[i]
<1>1. PICK B : B = {i \in Nat : i <= m => f[i] = g[i]}
  OBVIOUS
<1>2. /\ \A i \in 0..m : f[i] = KeepStep(l1, S, f, i)
      /\ \A i \in 0..n : g[i] = KeepStep(l2, S, g, i)
  BY DEF Keeps
<1>3. 0 \in B
  BY <1>1, <1>2 DEF KeepStep
<1>4. ASSUME NEW i \in B
      PROVE  i + 1 \in B
  <2> SUFFICES ASSUME i + 1 <= m
               PROVE  f[i + 1] = g[i + 1]
    BY <1>1
  <2>1. i \in Nat /\ i <= m /\ i + 1 # 0 /\ (i + 1) - 1 = i /\ i + 1 \in 1..m
        /\ i + 1 \in 0..m /\ i + 1 \in 0..n
    BY <1>1
  <2>2. f[i] = g[i] /\ l1[i + 1] = l2[i + 1]
    BY <1>1, <2>1
  <2> QED  BY <1>2, <2>1, <2>2 DEF KeepStep
<1>5. B = Nat
  BY <1>1, <1>3, <1>4, NatInduct
<1> QED  BY <1>1, <1>5

(* Nothing is kept of nothing. *)
LEMMA KeepEmpty ==
    ASSUME NEW S
    PROVE  Keep(<<>>, S) = <<>>
<1>1. PICK l : l = <<>> /\ l \in Seq({}) /\ Len(l) = 0
  BY EmptySeq
<1>2. PICK f : Keeps(f, l, S, Len(l)) /\ Keep(l, S) = f[Len(l)]
  BY <1>1, KeepIs
<1> QED  BY <1>1, <1>2 DEF Keeps, KeepStep

(* Of one line more, one more is kept or not. *)
LEMMA KeepAppend ==
    ASSUME NEW X, NEW list \in Seq(X), NEW x \in X, NEW S
    PROVE  Keep(Append(list, x), S) =
              IF x \in S THEN Append(Keep(list, S), x) ELSE Keep(list, S)
<1>1. PICK l, n : l = Append(list, x) /\ n = Len(list)
  OBVIOUS
<1>2. /\ n \in Nat /\ l \in Seq(X) /\ Len(l) = n + 1 /\ l[n + 1] = x
      /\ \A i \in 1..n : list[i] = l[i]
  BY <1>1
<1>3. PICK f : Keeps(f, list, S, n) /\ Keep(list, S) = f[n]
  BY <1>1, KeepIs
<1>4. PICK g : Keeps(g, l, S, n + 1) /\ Keep(l, S) = g[n + 1]
  BY <1>1, <1>2, KeepIs
<1>5. f[n] = g[n]
  BY <1>2, <1>3, <1>4, KeepsSame
<1>6. g[n + 1] = KeepStep(l, S, g, n + 1)
  <2>1. n + 1 \in 0..(n + 1)
    BY <1>2
  <2> QED  BY <1>4, <2>1 DEF Keeps
<1>7. n + 1 # 0 /\ (n + 1) - 1 = n
  BY <1>2
<1> QED  BY <1>1, <1>2, <1>3, <1>4, <1>5, <1>6, <1>7 DEF KeepStep

(* The lines of a longer list. *)
LEMMA Longer ==
    ASSUME NEW X, NEW l \in Seq(X), NEW x
    PROVE  /\ ToSet(Append(l, x)) = ToSet(l) \union {x}
           /\ DOMAIN Append(l, x) = 1..(Len(l) + 1)
           /\ Append(l, x)[Len(l) + 1] = x
           /\ \A i \in 1..Len(l) : Append(l, x)[i] = l[i]
<1>1. PICK u, n : u = Append(l, x) /\ n = Len(l)
  OBVIOUS
<1>2. /\ n \in Nat /\ DOMAIN l = 1..n /\ DOMAIN u = 1..(n + 1) /\ u[n + 1] = x
      /\ \A i \in 1..n : u[i] = l[i]
  BY <1>1
<1>3. \A i \in 1..(n + 1) : i \in 1..n \/ i = n + 1
  BY <1>2
<1>4. n + 1 \in 1..(n + 1) /\ \A i \in 1..n : i \in 1..(n + 1)
  BY <1>2
<1> QED  BY <1>1, <1>2, <1>3, <1>4 DEF ToSet

(* What is kept: the lines that are in the set, and no others. *)
LEMMA KeepLines ==
    ASSUME NEW X, NEW list \in Seq(X), NEW S
    PROVE  /\ Keep(list, S) \in Seq(X \intersect S)
           /\ ToSet(Keep(list, S)) = ToSet(list) \intersect S
<1>1. PICK B : B = {l \in Seq(X) : /\ Keep(l, S) \in Seq(X \intersect S)
                                   /\ ToSet(Keep(l, S)) = ToSet(l) \intersect S}
  OBVIOUS
<1>2. <<>> \in B
  <2>1. PICK e, k : e = <<>> /\ k = Keep(e, S)
    OBVIOUS
  <2>2. ToSet(e) = {} /\ e \in Seq(X) /\ e \in Seq(X \intersect S)
    BY <2>1, EmptySeq DEF ToSet
  <2>3. k = e
    BY <2>1, KeepEmpty
  <2> QED  BY <1>1, <2>1, <2>2, <2>3
<1>3. ASSUME NEW l \in B, NEW x \in X
      PROVE  Append(l, x) \in B
  <2>0. l \in Seq(X) /\ Append(l, x) \in Seq(X)
    BY <1>1
  <2>1. PICK k : k = Keep(l, S)
    OBVIOUS
  <2>2. k \in Seq(X \intersect S) /\ ToSet(k) = ToSet(l) \intersect S
    BY <1>1, <2>1
  <2>3. Keep(Append(l, x), S) = IF x \in S THEN Append(k, x) ELSE k
    BY <2>0, <2>1, KeepAppend
  <2>4. ToSet(Append(l, x)) = ToSet(l) \union {x} /\ ToSet(Append(k, x)) = ToSet(k) \union {x}
    BY <2>0, <2>2, Longer
  <2>5. x \in S => Append(k, x) \in Seq(X \intersect S)
    BY <2>2
  <2> QED  BY <1>1, <2>0, <2>2, <2>3, <2>4, <2>5
<1>4. B = Seq(X)
  BY <1>1, <1>2, <1>3, SeqInduct
<1> QED  BY <1>1, <1>4

(* What is dropped first is not missed when fewer are kept. *)
LEMMA KeepFewer ==
    ASSUME NEW X, NEW list \in Seq(X), NEW S, NEW T \in SUBSET S
    PROVE  Keep(Keep(list, S), T) = Keep(list, T)
<1>1. PICK B : B = {l \in Seq(X) : Keep(Keep(l, S), T) = Keep(l, T)}
  OBVIOUS
<1>2. <<>> \in B
  BY <1>1, KeepEmpty
<1>3. ASSUME NEW l \in B, NEW x \in X
      PROVE  Append(l, x) \in B
  <2>0. l \in Seq(X) /\ Append(l, x) \in Seq(X)
    BY <1>1
  <2>1. PICK k : k = Keep(l, S)
    OBVIOUS
  <2>2. k \in Seq(X) /\ Keep(k, T) = Keep(l, T)
    <3>1. k \in Seq(X \intersect S)
      BY <2>0, <2>1, KeepLines
    <3>2. X \intersect S \subseteq X
      OBVIOUS
    <3> QED  BY <1>1, <2>1, <3>1, <3>2, SeqMonotonic
  <2>3. /\ Keep(Append(l, x), S) = IF x \in S THEN Append(k, x) ELSE k
        /\ Keep(Append(l, x), T) = IF x \in T THEN Append(Keep(l, T), x) ELSE Keep(l, T)
        /\ Keep(Append(k, x), T) = IF x \in T THEN Append(Keep(k, T), x) ELSE Keep(k, T)
    BY <2>0, <2>1, <2>2, KeepAppend, SMTT(60)
  <2>4. PICK u : u = Append(l, x)
    OBVIOUS
  <2>5. CASE x \in S
    <3>1. Keep(Keep(u, S), T) = Keep(Append(k, x), T)
      BY <2>3, <2>4, <2>5
    <3>2. Keep(Keep(u, S), T) = Keep(u, T)
      BY <2>2, <2>3, <2>4, <3>1
    <3> QED  BY <1>1, <2>0, <2>4, <3>2
  <2>6. CASE x \notin S
    <3>1. Keep(Keep(u, S), T) = Keep(k, T) /\ x \notin T
      BY <2>3, <2>4, <2>6
    <3>2. Keep(Keep(u, S), T) = Keep(u, T)
      BY <2>2, <2>3, <2>4, <3>1
    <3> QED  BY <1>1, <2>0, <2>4, <3>2
  <2> QED  BY <2>5, <2>6
<1>4. B = Seq(X)
  BY <1>1, <1>2, <1>3, SeqInduct
<1> QED  BY <1>1, <1>4

(* A line more keeps every line single if it is the administrator's or new. *)
LEMMA OnceAppend ==
    ASSUME NEW X, NEW l \in Seq(X), NEW x
    PROVE  Once(Append(l, x)) <=> Once(l) /\ (x \in AdminLines \/ x \notin ToSet(l))
<1>1. PICK u, n : u = Append(l, x) /\ n = Len(l)
  OBVIOUS
<1>2. /\ n \in Nat /\ DOMAIN l = 1..n /\ DOMAIN u = 1..(n + 1) /\ u[n + 1] = x
      /\ \A i \in 1..n : u[i] = l[i]
  BY <1>1, Longer
<1>3. /\ \A i \in 1..(n + 1) : i \in 1..n \/ i = n + 1
      /\ n + 1 \in 1..(n + 1) /\ \A i \in 1..n : i \in 1..(n + 1) /\ i # n + 1
  BY <1>2
<1>4. x \in ToSet(l) <=> \E i \in 1..n : l[i] = x
  BY <1>2 DEF ToSet
<1>5. ASSUME Once(u)
      PROVE  Once(l) /\ (x \in AdminLines \/ x \notin ToSet(l))
  BY <1>2, <1>3, <1>4, <1>5 DEF Once
<1>6. ASSUME Once(l), x \in AdminLines \/ x \notin ToSet(l)
      PROVE  Once(u)
  BY <1>2, <1>3, <1>4, <1>6 DEF Once
<1> QED  BY <1>1, <1>5, <1>6

(* Nothing becomes double when less is kept. *)
LEMMA KeepOnce ==
    ASSUME NEW X, NEW list \in Seq(X), NEW S, Once(list)
    PROVE  Once(Keep(list, S))
<1>1. PICK B : B = {l \in Seq(X) : Once(l) => Once(Keep(l, S))}
  OBVIOUS
<1>2. <<>> \in B
  BY <1>1, KeepEmpty DEF Once
<1>3. ASSUME NEW l \in B, NEW x \in X
      PROVE  Append(l, x) \in B
  <2>0. l \in Seq(X) /\ Append(l, x) \in Seq(X)
    BY <1>1
  <2>1. PICK k : k = Keep(l, S)
    OBVIOUS
  <2>2. k \in Seq(X \intersect S) /\ ToSet(k) = ToSet(l) \intersect S
    BY <2>0, <2>1, KeepLines
  <2>3. Keep(Append(l, x), S) = IF x \in S THEN Append(k, x) ELSE k
    BY <2>0, <2>1, KeepAppend
  <2>4. Once(l) => Once(k)
    BY <1>1, <2>1
  <2>5. Once(Append(l, x)) => Once(l) /\ (x \in AdminLines \/ x \notin ToSet(l))
    BY <2>0, OnceAppend
  <2>6. Once(k) /\ (x \in AdminLines \/ x \notin ToSet(k)) => Once(Append(k, x))
    BY <2>2, OnceAppend
  <2> QED  BY <1>1, <2>0, <2>2, <2>3, <2>4, <2>5, <2>6
<1>4. B = Seq(X)
  BY <1>1, <1>2, <1>3, SeqInduct
<1> QED  BY <1>1, <1>4

-----------------------------------------------------------------------------
(* /etc/exports.                                                               *)

(* What may be in /etc/exports, and in a copy of its lines. *)
Lines == Dirs \union AdminLines
FileLines == Lines \union {"V4"}

(* V4 is no line of its own, and priosun's lines are not the administrator's. *)
LEMMA LinesApart ==
    /\ "V4" \notin Lines /\ "missing" \notin Lines /\ Dirs \intersect AdminLines = {}
    /\ MaxMounts \in Nat \ {0}
  BY NetworkAssumption DEF Lines

(* One line more for a list without double lines. *)
LEMMA AddLine ==
    ASSUME NEW l \in Seq(FileLines), Once(l), NEW x \in FileLines, x \notin AdminLines,
           x \notin ToSet(l)
    PROVE  /\ Append(l, x) \in Seq(FileLines) /\ Once(Append(l, x))
           /\ Admin(Append(l, x)) = Admin(l)
           /\ ToSet(Append(l, x)) = ToSet(l) \union {x}
<1>1. Once(Append(l, x))
  BY OnceAppend
<1>2. Admin(Append(l, x)) = Admin(l)
  BY KeepAppend DEF Admin
<1>3. ToSet(Append(l, x)) = ToSet(l) \union {x}
  BY Longer
<1> QED  BY <1>1, <1>2, <1>3

(* What configure_nfs writes is made of lines of the file, *)
LEMMA ExportedLines ==
    ASSUME NEW l \in Seq(Lines), NEW d \in Dirs
    PROVE  Exported(l, d) \in Seq(FileLines) /\ d \in ToSet(Exported(l, d))
<1>1. PICK m : m = IF d \in ToSet(l) THEN l ELSE Append(l, d)
  OBVIOUS
<1>2. d \in FileLines /\ "V4" \in FileLines /\ l \in Seq(FileLines)
  BY SeqMonotonic DEF Lines, FileLines
<1>3. m \in Seq(FileLines) /\ d \in ToSet(m)
  <2>1. ToSet(Append(l, d)) = ToSet(l) \union {d}
    BY <1>2, Longer
  <2> QED  BY <1>1, <1>2, <2>1
<1>4. ToSet(Append(m, "V4")) = ToSet(m) \union {"V4"}
  BY <1>3, Longer
<1>5. Exported(l, d) = Append(m, "V4")
  BY <1>1 DEF Exported
<1> QED  BY <1>2, <1>3, <1>4, <1>5

(* and sound if the lines that it has read are. *)
LEMMA ExportedSound ==
    ASSUME NEW l \in Seq(Lines), Once(l), NEW d \in Dirs
    PROVE  LET new == Exported(l, d) IN
           /\ new \in Seq(FileLines) /\ new # <<>> /\ Last(new) = "V4" /\ Once(new)
           /\ Admin(new) = Admin(l) /\ d \in ToSet(new)
<1>1. PICK m : m = IF d \in ToSet(l) THEN l ELSE Append(l, d)
  OBVIOUS
<1>2. /\ "V4" \notin Lines /\ d \notin AdminLines /\ "V4" \notin AdminLines
      /\ d # "V4" /\ d \in FileLines /\ "V4" \in FileLines
  BY LinesApart DEF Lines, FileLines
<1>3. l \in Seq(FileLines)
  BY SeqMonotonic DEF FileLines
<1>4. "V4" \notin ToSet(l)
  BY <1>2 DEF ToSet
<1>5. /\ m \in Seq(FileLines) /\ Once(m) /\ Admin(m) = Admin(l)
      /\ d \in ToSet(m) /\ "V4" \notin ToSet(m)
  BY <1>1, <1>2, <1>3, <1>4, AddLine
<1>6. PICK new : new = Append(m, "V4")
  OBVIOUS
<1>7. /\ new \in Seq(FileLines) /\ Once(new) /\ Admin(new) = Admin(m)
      /\ ToSet(new) = ToSet(m) \union {"V4"}
  BY <1>2, <1>5, <1>6, AddLine
<1>8. new # <<>> /\ Last(new) = "V4"
  BY <1>5, <1>6 DEF Last
<1>9. new = Exported(l, d)
  BY <1>1, <1>6 DEF Exported
<1> QED  BY <1>5, <1>7, <1>8, <1>9

(* What is written over something else begins with all of it, *)
LEMMA OverLines ==
    ASSUME NEW X, NEW new \in Seq(X), NEW old \in Seq(X)
    PROVE  Over(new, old) \in Seq(X) /\ ToSet(new) \subseteq ToSet(Over(new, old))
<1>1. PICK m, n, rest : m = Len(new) /\ n = Len(old) /\ rest = SubSeq(old, m + 1, n)
  OBVIOUS
<1>2. m \in Nat /\ n \in Nat /\ m + 1 \in Int /\ n \in Int
  BY <1>1
<1>3. \A i \in (m + 1)..n : old[i] \in X
  BY <1>1, <1>2
<1>4. rest \in Seq(X)
  BY <1>1, <1>2, <1>3, SubSeqProperties
<1>5. PICK all : all = new \o rest
  OBVIOUS
<1>6. /\ all \in Seq(X) /\ Len(all) = m + Len(rest) /\ Len(rest) \in Nat
      /\ \A i \in 1..(m + Len(rest)) : i <= m => all[i] = new[i]
  BY <1>1, <1>4, <1>5, ConcatProperties
<1>7. \A i \in 1..m : i \in DOMAIN all /\ all[i] = new[i]
  BY <1>2, <1>6
<1>8. ToSet(new) \subseteq ToSet(all)
  <2>1. DOMAIN new = 1..m
    BY <1>1
  <2> QED  BY <1>7, <2>1 DEF ToSet
<1> QED  BY <1>1, <1>5, <1>6, <1>8 DEF Over

(* and is all there is if the file was empty. *)
LEMMA OverEmpty ==
    ASSUME NEW X, NEW new \in Seq(X)
    PROVE  Over(new, <<>>) = new
<1>1. PICK m, e : m = Len(new) + 1 /\ e = <<>> /\ e \in Seq(X) /\ Len(e) = 0
  BY EmptySeq
<1>2. m \in Int /\ 0 \in Int /\ 0 < m
  BY <1>1
<1>3. SubSeq(e, m, 0) = <<>>
  BY <1>2, SubSeqEmpty
<1>4. new \o <<>> = new
  BY ConcatEmptySeq
<1> QED  BY <1>1, <1>3, <1>4 DEF Over

(* A write that fails has written lines of what it was to write. *)
LEMMA CutLines ==
    ASSUME NEW X, NEW new \in Seq(X), NEW n \in 0..Len(new)
    PROVE  SubSeq(new, 1, n) \in Seq(X)
<1>1. 1 \in Int /\ n \in Int /\ \A i \in 1..n : new[i] \in X
  OBVIOUS
<1> QED  BY <1>1, SubSeqProperties

(* The lines that configure_nfs keeps are lines for a copy. *)
LEMMA ReadLines ==
    ASSUME exports \in Seq(FileLines)
    PROVE  Keep(exports, Lines) \in Seq(Lines)
<1>1. FileLines \intersect Lines = Lines
  BY DEF FileLines
<1> QED  BY <1>1, KeepLines

(* Those of a sound file are sound. *)
LEMMA ReadSound ==
    ASSUME scenario \in Scenarios, exports \in Seq(FileLines),
           Admin(exports) = Admin(scenario.exports),
           exports # scenario.exports => Once(exports)
    PROVE  Admin(Keep(exports, Lines)) = Admin(scenario.exports) /\ Once(Keep(exports, Lines))
<1>1. PICK l : l = Keep(exports, Lines)
  OBVIOUS
<1>2. Admin(l) = Admin(exports)
  BY <1>1, KeepFewer DEF Admin, Lines
<1>3. Once(l)
  <2>1. CASE exports # scenario.exports
    BY <1>1, <2>1, KeepOnce
  <2>2. CASE exports = scenario.exports
    <3>1. scenario.exports \in Seq(AdminLines \union {"V4"})
      BY NetworkAssumption
    <3>2. l \in Seq((AdminLines \union {"V4"}) \intersect Lines)
      BY <1>1, <2>2, <3>1, KeepLines
    <3>3. \A i \in DOMAIN l : l[i] \in AdminLines
      BY <3>2, LinesApart
    <3> QED  BY <3>3 DEF Once
  <2> QED  BY <2>1, <2>2
<1> QED  BY <1>1, <1>2, <1>3

-----------------------------------------------------------------------------
(* One step.                                                                   *)

(* The type invariant, variable by variable. *)
LEMMA Types ==
    TypeOK <=>
      /\ scenario \in Scenarios
      /\ bridge \subseteq Families /\ jailnet \subseteq Families
      /\ served \subseteq Families /\ listens \subseteq Families
      /\ exports \in Seq(FileLines)
      /\ jail \in {"none", "partial", "whole"} /\ hints \in {"none", "partial", "whole"}
      /\ packages \in BOOLEAN /\ running \in BOOLEAN /\ managed \in BOOLEAN
      /\ keaKey \in 0..scenario.keys /\ knotKey \in 0..scenario.keys
      /\ keys \in 0..scenario.keys
      /\ loaded \in (0..scenario.keys) \X (0..scenario.keys)
      /\ mounts \in 0..MaxMounts
      /\ forward \subseteq Servers /\ resolv \subseteq Servers
      /\ pc \in [Threads -> PCs]
      /\ config \in [Threads -> Configs] /\ key \in [Threads -> 0..scenario.keys]
      /\ lines \in [Threads -> Seq(Lines)] /\ servers \in [Threads -> SUBSET Servers]
      /\ result \in [Threads -> {"none", "ok", "error"}]
      /\ failures \in 0..scenario.failures /\ restarts \in 0..scenario.restarts
  BY DEF TypeOK, FileLines, Lines

(* The bounds are numbers. *)
LEMMA Bounds ==
    ASSUME scenario \in Scenarios
    PROVE  /\ scenario.keys \in Nat /\ scenario.failures \in Nat
           /\ scenario.restarts \in Nat /\ MaxMounts \in Nat \ {0}
  BY NetworkAssumption

(* What every step of init does to the threads: another call for its own, and
   nothing to the others. *)
LocalStep(t) ==
    /\ scenario' = scenario /\ restarts' = restarts
    /\ pc[t] # "idle"
    /\ config'[t] = config[t] \/ pc'[t] = "idle"
    /\ pc' \in [Threads -> PCs] /\ config' \in [Threads -> Configs]
    /\ result' \in [Threads -> {"none", "ok", "error"}]
    /\ failures' \in 0..scenario.failures
    /\ lines' = [lines EXCEPT ![t] = lines'[t]] /\ key' = [key EXCEPT ![t] = key'[t]]
    /\ servers' = [servers EXCEPT ![t] = servers'[t]]
    /\ \A u \in Threads : u # t =>
          pc'[u] = pc[u] /\ config'[u] = config[u] /\ result'[u] = result[u]

(* The empty configuration of a thread without a request. *)
LEMMA NoConfigIs == NoConfig \in Configs /\ NoConfig.families = {}
  BY DEF NoConfig, Configs

(* The copies of a thread with, or without, another value for its own. *)
LEMMA CopiesAre ==
    ASSUME TypeOK, NEW t \in Threads
    PROVE  /\ \A x : lines' = [lines EXCEPT ![t] = x] =>
                     lines' = [lines EXCEPT ![t] = lines'[t]] /\ lines'[t] = x
           /\ \A x : key' = [key EXCEPT ![t] = x] =>
                     key' = [key EXCEPT ![t] = key'[t]] /\ key'[t] = x
           /\ \A x : servers' = [servers EXCEPT ![t] = x] =>
                     servers' = [servers EXCEPT ![t] = servers'[t]] /\ servers'[t] = x
           /\ UNCHANGED lines => lines' = [lines EXCEPT ![t] = lines'[t]]
           /\ UNCHANGED key => key' = [key EXCEPT ![t] = key'[t]]
           /\ UNCHANGED servers => servers' = [servers EXCEPT ![t] = servers'[t]]
  BY Types

(* A step to the next call. *)
LEMMA GoesIsLocal ==
    ASSUME TypeOK, NEW t \in Threads, NEW from \in PCs, from # "idle", NEW to \in PCs,
           Goes(t, from, to),
           lines' = [lines EXCEPT ![t] = lines'[t]], key' = [key EXCEPT ![t] = key'[t]],
           servers' = [servers EXCEPT ![t] = servers'[t]]
    PROVE  LocalStep(t)
  BY Types DEF LocalStep, Goes, world

(* Where it leads. *)
LEMMA GoesTo ==
    ASSUME TypeOK, NEW t \in Threads, NEW from, NEW to, Goes(t, from, to)
    PROVE  pc[t] = from /\ pc'[t] = to /\ config'[t] = config[t] /\ result' = result
  BY Types DEF Goes

(* The same, with nothing to remember. *)
LEMMA StepIsLocal ==
    ASSUME TypeOK, NEW t \in Threads, NEW from \in PCs, from # "idle", NEW to \in PCs,
           Step(t, from, to)
    PROVE  /\ LocalStep(t) /\ pc[t] = from /\ pc'[t] = to /\ config'[t] = config[t]
           /\ lines' = lines /\ key' = key /\ servers' = servers /\ result' = result
  BY GoesIsLocal, GoesTo, CopiesAre DEF Step, copies

(* The end of a request, with or without a failed call. *)
LEMMA ReturnIsLocal ==
    ASSUME TypeOK, NEW t \in Threads, NEW from \in PCs, from # "idle",
           NEW outcome \in {"ok", "error"}, Returns(t, from, outcome),
           failures' \in 0..scenario.failures
    PROVE  /\ LocalStep(t) /\ pc[t] = from /\ pc'[t] = "idle" /\ result'[t] = outcome
           /\ lines'[t] = <<>> /\ key'[t] = 0 /\ servers'[t] = {}
<1>1. "idle" \in PCs
  BY DEF PCs
<1>2. /\ lines' = [lines EXCEPT ![t] = lines'[t]] /\ lines'[t] = <<>>
      /\ key' = [key EXCEPT ![t] = key'[t]] /\ key'[t] = 0
      /\ servers' = [servers EXCEPT ![t] = servers'[t]] /\ servers'[t] = {}
  BY CopiesAre DEF Returns
<1> QED  BY <1>1, <1>2, Types, NoConfigIs DEF LocalStep, Returns

(* A request that ends without a failed call. *)
LEMMA EndIsLocal ==
    ASSUME TypeOK, NEW t \in Threads, NEW from \in PCs, from # "idle",
           NEW outcome \in {"ok", "error"}, Ends(t, from, outcome)
    PROVE  /\ LocalStep(t) /\ pc[t] = from /\ pc'[t] = "idle" /\ result'[t] = outcome
           /\ lines'[t] = <<>> /\ key'[t] = 0 /\ servers'[t] = {}
<1>1. failures' \in 0..scenario.failures /\ Returns(t, from, outcome)
  BY Types DEF Ends
<1> QED  BY <1>1, ReturnIsLocal

(* A failed call. *)
LEMMA FailIsLocal ==
    ASSUME TypeOK, NEW t \in Threads, NEW from \in PCs, from # "idle", NEW fault,
           Fails(t, from, fault)
    PROVE  /\ LocalStep(t) /\ pc[t] = from /\ pc'[t] = "idle" /\ result'[t] = "error"
           /\ lines'[t] = <<>> /\ key'[t] = 0 /\ servers'[t] = {}
           /\ fault \in scenario.faults
<1>0. scenario.failures \in Nat
  BY Types, NetworkAssumption
<1>1. /\ failures' \in 0..scenario.failures /\ Returns(t, from, "error")
      /\ fault \in scenario.faults
  BY <1>0, Types DEF Fails, May
<1>2. "error" \in {"ok", "error"}
  OBVIOUS
<1> QED  BY <1>1, <1>2, ReturnIsLocal

(* A call in a jail that is not whole may break. *)
LEMMA BreakIsLocal ==
    ASSUME TypeOK, NEW t \in Threads, NEW from \in PCs, from # "idle", Breaks(t, from)
    PROVE  /\ LocalStep(t) /\ pc[t] = from /\ pc'[t] = "idle" /\ result'[t] = "error"
           /\ lines'[t] = <<>> /\ key'[t] = 0 /\ servers'[t] = {}
  BY EndIsLocal DEF Breaks

(* Every call of init is such a step. *)
LEMMA InitIsLocal ==
    ASSUME TypeOK, NEW t \in Threads, InitStep(t)
    PROVE  LocalStep(t)
<1> USE StepIsLocal, EndIsLocal, FailIsLocal, BreakIsLocal DEF PCs, BeforeKey
<1>1. CASE ReadExports(t)
  <2>1. CASE Ends(t, "nfs", "error")
    BY <2>1
  <2>2. CASE /\ Goes(t, "nfs", "exports") /\ UNCHANGED <<key, servers>>
             /\ lines' = [lines EXCEPT ![t] = Keep(exports, Dirs \union AdminLines)]
    BY <2>2, CopiesAre, GoesIsLocal
  <2> QED  BY <1>1, <2>1, <2>2 DEF ReadExports
<1>2. CASE GenerateKey(t)
  <2>1. CASE /\ Goes(t, "kea_key", "kea_key_write") /\ UNCHANGED <<lines, servers>>
             /\ key' = [key EXCEPT ![t] = keys']
    BY <2>1, CopiesAre, GoesIsLocal
  <2> QED  BY <1>2, <2>1 DEF GenerateKey
<1>3. CASE EmptyForward(t)
  <2>1. CASE /\ Goes(t, "forward", "forward_write") /\ UNCHANGED <<lines, key>>
             /\ servers' = [servers EXCEPT ![t] = Upstreams(config[t], resolv)]
    BY <2>1, CopiesAre, GoesIsLocal
  <2> QED  BY <1>3, <2>1 DEF EmptyForward
<1>4. CASE ConfigureHost(t) \/ EmptyExports(t) \/ WriteExports(t) \/ LookForJail(t)
  BY <1>4 DEF ConfigureHost, EmptyExports, WriteExports, LookForJail
<1>5. CASE CheckJail(t) \/ CreateJail(t) \/ UnpackJail(t)
  BY <1>5 DEF CheckJail, CreateJail, UnpackJail
<1>6. CASE InstallPackages(t) \/ ConfigureNetwork(t)
  BY <1>6 DEF InstallPackages, ConfigureNetwork
<1>7. CASE WriteKeaKey(t) \/ EmptyKnotKey(t) \/ WriteKnotKey(t) \/ WriteServices(t)
  BY <1>7 DEF WriteKeaKey, EmptyKnotKey, WriteKnotKey, WriteServices
<1>8. CASE MountUnbound(t) \/ StartJail(t) \/ BootJail(t)
  BY <1>8 DEF MountUnbound, StartJail, BootJail
<1>9. CASE LookForHints(t) \/ FetchHints(t) \/ WriteUnbound(t)
  BY <1>9 DEF LookForHints, FetchHints, WriteUnbound
<1>10. CASE WriteForward(t) \/ WriteResolvconf(t)
  BY <1>10 DEF WriteForward, WriteResolvconf
<1>11. CASE RestartUnbound(t) \/ Resolvconf(t)
  BY <1>11 DEF RestartUnbound, Resolvconf
<1> QED  BY <1>1, <1>2, <1>3, <1>4, <1>5, <1>6, <1>7, <1>8, <1>9, <1>10, <1>11
         DEF InitStep

(* What a step of init does to /etc/exports and to the copy of its lines. *)
ExportsMove(t) ==
    LET new == Exported(lines[t], config[t].projects) IN
    \/ /\ exports' = exports /\ lines'[t] \in {lines[t], <<>>}
       /\ pc[t] # "exports_write" /\ pc'[t] \notin {"exports", "exports_write"}
    \/ /\ pc[t] = "nfs" /\ pc'[t] = "exports" /\ config[t].projects # "missing"
       /\ exports' = exports /\ lines'[t] = Keep(exports, Lines)
    \/ /\ pc[t] = "exports" /\ pc'[t] = "exports_write"
       /\ exports' = <<>> /\ lines'[t] = lines[t]
    \/ /\ pc[t] = "exports_write" /\ pc'[t] \in {"jail", "idle"}
       /\ exports' = Over(new, exports) /\ lines'[t] \in {lines[t], <<>>}
    \/ /\ pc[t] = "exports_write" /\ pc'[t] = "idle" /\ "exports" \in scenario.faults
       /\ \E n \in 0..Len(new) : exports' = Over(SubSeq(new, 1, n), exports)
       /\ lines'[t] = <<>>

(* Only configure_nfs touches them. *)
LEMMA ExportsMoves ==
    ASSUME TypeOK, NEW t \in Threads, InitStep(t)
    PROVE  ExportsMove(t)
<1>1. CASE ReadExports(t)
  <2>1. CASE Ends(t, "nfs", "error")
    <3>1. pc[t] = "nfs" /\ pc'[t] = "idle" /\ lines'[t] = <<>>
      BY <2>1, EndIsLocal DEF PCs, BeforeKey
    <3> QED  BY <1>1, <3>1 DEF ReadExports, ExportsMove, nfs
  <2>2. CASE Goes(t, "nfs", "exports") /\ config[t].projects # "missing"
             /\ lines' = [lines EXCEPT ![t] = Keep(exports, Lines)]
    <3>1. pc'[t] = "exports" /\ pc[t] = "nfs" /\ lines'[t] = Keep(exports, Lines)
      BY <2>2, GoesTo, CopiesAre
    <3> QED  BY <1>1, <2>2, <3>1 DEF ReadExports, ExportsMove, nfs
  <2> QED  BY <1>1, <2>1, <2>2 DEF ReadExports, Lines
<1>2. CASE EmptyExports(t)
  BY <1>2, StepIsLocal, FailIsLocal DEF EmptyExports, ExportsMove, PCs, BeforeKey
<1>3. CASE WriteExports(t)
  <2>1. PICK new : new = Exported(lines[t], config[t].projects)
    OBVIOUS
  <2>2. CASE Step(t, "exports_write", "jail") /\ exports' = Over(new, exports)
    BY <2>1, <2>2, StepIsLocal DEF ExportsMove, PCs, BeforeKey
  <2>3. CASE /\ Fails(t, "exports_write", "exports")
             /\ \E n \in 0..Len(new) : exports' = Over(SubSeq(new, 1, n), exports)
    BY <2>1, <2>3, FailIsLocal DEF ExportsMove, PCs, BeforeKey
  <2>4. CASE Fails(t, "exports_write", "nfs") /\ exports' = Over(new, exports)
    BY <2>1, <2>4, FailIsLocal DEF ExportsMove, PCs, BeforeKey
  <2> QED  BY <1>3, <2>1, <2>2, <2>3, <2>4 DEF WriteExports
<1>4. CASE GenerateKey(t)
  <2>1. CASE Fails(t, "kea_key", "kea_key")
    BY <1>4, <2>1, FailIsLocal DEF GenerateKey, ExportsMove, PCs, BeforeKey, nfs
  <2>2. CASE Goes(t, "kea_key", "kea_key_write") /\ UNCHANGED lines
    BY <1>4, <2>2, GoesTo DEF GenerateKey, ExportsMove, nfs
  <2> QED  BY <1>4, <2>1, <2>2 DEF GenerateKey
<1>5. CASE EmptyForward(t)
  <2>1. CASE Fails(t, "forward", "unbound")
    BY <1>5, <2>1, FailIsLocal DEF EmptyForward, ExportsMove, PCs, nfs
  <2>2. CASE Goes(t, "forward", "forward_write") /\ UNCHANGED lines
    BY <1>5, <2>2, GoesTo DEF EmptyForward, ExportsMove, nfs
  <2> QED  BY <1>5, <2>1, <2>2 DEF EmptyForward
<1>6. ASSUME NEW from \in PCs \ {"idle", "exports_write"},
             NEW to \in PCs \ {"exports", "exports_write"},
             exports' = exports,
             \/ Step(t, from, to) \/ \E f : Fails(t, from, f) \/ Breaks(t, from)
             \/ \E o \in {"ok", "error"} : Ends(t, from, o)
      PROVE  ExportsMove(t)
  BY <1>6, StepIsLocal, EndIsLocal, FailIsLocal, BreakIsLocal DEF ExportsMove
<1> USE <1>6 DEF PCs, BeforeKey, nfs
<1>7. CASE ConfigureHost(t) \/ LookForJail(t) \/ CheckJail(t)
  BY <1>7 DEF ConfigureHost, LookForJail, CheckJail
<1>8. CASE CreateJail(t) \/ UnpackJail(t)
  BY <1>8 DEF CreateJail, UnpackJail
<1>9. CASE InstallPackages(t) \/ ConfigureNetwork(t)
  BY <1>9 DEF InstallPackages, ConfigureNetwork
<1>10. CASE WriteKeaKey(t) \/ EmptyKnotKey(t) \/ WriteKnotKey(t) \/ WriteServices(t)
  BY <1>10 DEF WriteKeaKey, EmptyKnotKey, WriteKnotKey, WriteServices
<1>11. CASE MountUnbound(t) \/ StartJail(t) \/ BootJail(t)
  BY <1>11 DEF MountUnbound, StartJail, BootJail
<1>12. CASE LookForHints(t) \/ FetchHints(t) \/ WriteUnbound(t)
  BY <1>12 DEF LookForHints, FetchHints, WriteUnbound
<1>13. CASE WriteForward(t) \/ WriteResolvconf(t)
  BY <1>13 DEF WriteForward, WriteResolvconf
<1>14. CASE RestartUnbound(t) \/ Resolvconf(t)
  BY <1>14 DEF RestartUnbound, Resolvconf
<1> QED  BY <1>1, <1>2, <1>3, <1>4, <1>5, <1>7, <1>8, <1>9, <1>10, <1>11, <1>12,
            <1>13, <1>14 DEF InitStep

(* What a step of init does to the keys. *)
KeysMove(t) ==
    \/ /\ UNCHANGED <<keys, keaKey, knotKey>> /\ key'[t] \in {key[t], 0}
       /\ pc[t] # "kea_key" /\ pc'[t] \notin Keying
       /\ pc[t] \in Keying => scenario.faults \intersect {"kea_key", "knot_key"} # {}
       /\ pc'[t] \in BeforeKey => pc[t] \in BeforeKey
    \/ /\ pc[t] = "kea_key" /\ keys' = keys + 1 /\ UNCHANGED knotKey
       /\ \/ pc'[t] = "kea_key_write" /\ key'[t] = keys + 1 /\ keaKey' = 0
          \/ /\ pc'[t] = "idle" /\ key'[t] = 0 /\ UNCHANGED keaKey
             /\ "kea_key" \in scenario.faults
    \/ /\ pc[t] = "kea_key_write" /\ UNCHANGED <<keys, knotKey>>
       /\ \/ pc'[t] = "knot_key" /\ key'[t] = key[t] /\ keaKey' = key[t]
          \/ /\ pc'[t] = "idle" /\ key'[t] = 0 /\ keaKey' \in {0, key[t]}
             /\ "kea_key" \in scenario.faults
    \/ /\ pc[t] = "knot_key" /\ UNCHANGED <<keys, keaKey>>
       /\ pc'[t] = "knot_key_write" /\ key'[t] = key[t] /\ knotKey' = 0
    \/ /\ pc[t] = "knot_key_write" /\ UNCHANGED <<keys, keaKey>>
       /\ \/ pc'[t] = "services" /\ key'[t] = key[t] /\ knotKey' = key[t]
          \/ /\ pc'[t] = "idle" /\ key'[t] = 0 /\ knotKey' \in {0, key[t]}
             /\ "knot_key" \in scenario.faults

(* Only configure_services touches them. *)
LEMMA KeysMoves ==
    ASSUME TypeOK, NEW t \in Threads, InitStep(t)
    PROVE  KeysMove(t)
<1>1. CASE GenerateKey(t)
  <2>1. CASE Fails(t, "kea_key", "kea_key") /\ UNCHANGED keaKey
    BY <1>1, <2>1, FailIsLocal DEF GenerateKey, KeysMove, PCs, BeforeKey
  <2>2. CASE Goes(t, "kea_key", "kea_key_write") /\ key' = [key EXCEPT ![t] = keys']
             /\ keaKey' = 0
    <3>1. pc[t] = "kea_key" /\ pc'[t] = "kea_key_write" /\ key'[t] = keys'
      BY <2>2, GoesTo, CopiesAre
    <3> QED  BY <1>1, <2>2, <3>1 DEF GenerateKey, KeysMove
  <2> QED  BY <1>1, <2>1, <2>2 DEF GenerateKey
<1>2. CASE WriteKeaKey(t)
  BY <1>2, StepIsLocal, FailIsLocal DEF WriteKeaKey, KeysMove, PCs, BeforeKey
<1>3. CASE EmptyKnotKey(t)
  <2>1. CASE Step(t, "knot_key", "knot_key_write") /\ knotKey' = 0
    BY <1>3, <2>1, StepIsLocal DEF EmptyKnotKey, KeysMove, Keying, PCs, BeforeKey
  <2>2. CASE Fails(t, "knot_key", "knot_key") /\ UNCHANGED knotKey
    BY <1>3, <2>2, FailIsLocal DEF EmptyKnotKey, KeysMove, Keying, PCs, BeforeKey
  <2> QED  BY <1>3, <2>1, <2>2 DEF EmptyKnotKey
<1>4. CASE WriteKnotKey(t)
  <2>1. CASE Step(t, "knot_key_write", "services") /\ knotKey' = key[t]
    BY <1>4, <2>1, StepIsLocal DEF WriteKnotKey, KeysMove, PCs, BeforeKey
  <2>2. CASE Fails(t, "knot_key_write", "knot_key") /\ knotKey' \in {0, key[t]}
    BY <1>4, <2>2, FailIsLocal DEF WriteKnotKey, KeysMove, PCs, BeforeKey
  <2> QED  BY <1>4, <2>1, <2>2 DEF WriteKnotKey
<1>5. CASE ReadExports(t)
  <2>1. CASE Ends(t, "nfs", "error")
    BY <1>5, <2>1, EndIsLocal DEF ReadExports, KeysMove, Keying, PCs, BeforeKey, dns
  <2>2. CASE Goes(t, "nfs", "exports") /\ UNCHANGED key
    BY <1>5, <2>2, GoesTo DEF ReadExports, KeysMove, Keying, BeforeKey, dns
  <2> QED  BY <1>5, <2>1, <2>2 DEF ReadExports
<1>6. CASE EmptyForward(t)
  <2>1. CASE Fails(t, "forward", "unbound")
    BY <1>6, <2>1, FailIsLocal DEF EmptyForward, KeysMove, Keying, PCs, BeforeKey, dns
  <2>2. CASE Goes(t, "forward", "forward_write") /\ UNCHANGED key
    BY <1>6, <2>2, GoesTo DEF EmptyForward, KeysMove, Keying, BeforeKey, dns
  <2> QED  BY <1>6, <2>1, <2>2 DEF EmptyForward
<1>7. ASSUME NEW from \in PCs \ ({"idle", "kea_key"} \union Keying), NEW to \in PCs \ Keying,
             UNCHANGED <<keys, keaKey, knotKey>>, to \in BeforeKey => from \in BeforeKey,
             \/ Step(t, from, to) \/ \E f : Fails(t, from, f) \/ Breaks(t, from)
             \/ \E o \in {"ok", "error"} : Ends(t, from, o)
      PROVE  KeysMove(t)
  BY <1>7, StepIsLocal, EndIsLocal, FailIsLocal, BreakIsLocal
     DEF KeysMove, Keying, BeforeKey
<1> USE <1>7 DEF PCs, BeforeKey, Keying, dns
<1>8. CASE ConfigureHost(t) \/ EmptyExports(t) \/ WriteExports(t)
  BY <1>8 DEF ConfigureHost, EmptyExports, WriteExports
<1>9. CASE LookForJail(t) \/ CheckJail(t) \/ CreateJail(t) \/ UnpackJail(t)
  BY <1>9 DEF LookForJail, CheckJail, CreateJail, UnpackJail
<1>10. CASE InstallPackages(t) \/ ConfigureNetwork(t) \/ WriteServices(t)
  BY <1>10 DEF InstallPackages, ConfigureNetwork, WriteServices
<1>11. CASE MountUnbound(t) \/ StartJail(t) \/ BootJail(t)
  BY <1>11 DEF MountUnbound, StartJail, BootJail
<1>12. CASE LookForHints(t) \/ FetchHints(t) \/ WriteUnbound(t)
  BY <1>12 DEF LookForHints, FetchHints, WriteUnbound
<1>13. CASE WriteForward(t) \/ WriteResolvconf(t)
  BY <1>13 DEF WriteForward, WriteResolvconf
<1>14. CASE RestartUnbound(t) \/ Resolvconf(t)
  BY <1>14 DEF RestartUnbound, Resolvconf
<1> QED  BY <1>1, <1>2, <1>3, <1>4, <1>5, <1>6, <1>8, <1>9, <1>10, <1>11, <1>12,
            <1>13, <1>14 DEF InitStep

(* What a step of init does to forward.conf and its user. *)
ForwardMove(t) ==
    \/ /\ UNCHANGED managed /\ forward' \in {forward, {"isp"}}
       /\ servers'[t] \in {servers[t], {}}
       /\ pc[t] # "forward_write" /\ pc'[t] # "forward_write"
       /\ pc'[t] \in PastForward => pc[t] \in PastForward
    \/ /\ UNCHANGED managed /\ forward' = {} /\ pc'[t] = "forward_write"
       /\ servers'[t] = Upstreams(config[t], resolv)
    \/ /\ UNCHANGED managed /\ pc[t] = "forward_write" /\ servers'[t] \in {servers[t], {}}
       /\ pc'[t] # "forward_write"
       /\ \E end \in SUBSET forward :
             \/ forward' = servers[t] \union end
             \/ /\ "unbound" \in scenario.faults
                /\ \E part \in SUBSET servers[t] : forward' = part \union end
    \/ /\ forward' = forward /\ pc[t] = "manage" /\ managed' \in BOOLEAN
       /\ servers'[t] \in {servers[t], {}} /\ pc'[t] # "forward_write"

(* Only configure_host_unbound touches them. *)
LEMMA ForwardMoves ==
    ASSUME TypeOK, NEW t \in Threads, InitStep(t)
    PROVE  ForwardMove(t)
<1>1. CASE EmptyForward(t)
  <2>1. CASE Fails(t, "forward", "unbound") /\ UNCHANGED forward
    BY <1>1, <2>1, FailIsLocal DEF EmptyForward, ForwardMove, PastForward, PCs
  <2>2. CASE Goes(t, "forward", "forward_write") /\ forward' = {}
             /\ servers' = [servers EXCEPT ![t] = Upstreams(config[t], resolv)]
    <3>1. pc'[t] = "forward_write" /\ servers'[t] = Upstreams(config[t], resolv)
      BY <2>2, GoesTo, CopiesAre
    <3> QED  BY <1>1, <2>2, <3>1 DEF EmptyForward, ForwardMove
  <2> QED  BY <1>1, <2>1, <2>2 DEF EmptyForward
<1>2. CASE WriteForward(t)
  <2>1. PICK end \in SUBSET forward :
           \/ Step(t, "forward_write", "manage") /\ forward' = servers[t] \union end
           \/ /\ Fails(t, "forward_write", "unbound")
              /\ \E part \in SUBSET servers[t] : forward' = part \union end
    BY <1>2 DEF WriteForward
  <2>2. UNCHANGED managed
    BY <1>2 DEF WriteForward
  <2>3. CASE Step(t, "forward_write", "manage") /\ forward' = servers[t] \union end
    BY <2>2, <2>3, StepIsLocal DEF ForwardMove, PCs
  <2>4. CASE /\ Fails(t, "forward_write", "unbound")
             /\ \E part \in SUBSET servers[t] : forward' = part \union end
    BY <2>2, <2>4, FailIsLocal DEF ForwardMove, PCs
  <2> QED  BY <2>1, <2>3, <2>4
<1>3. CASE WriteResolvconf(t)
  <2>1. /\ pc[t] = "manage" /\ pc'[t] # "forward_write" /\ forward' = forward
        /\ servers'[t] \in {servers[t], {}}
    BY <1>3, StepIsLocal, FailIsLocal DEF WriteResolvconf, PCs
  <2>2. managed' \in BOOLEAN
    BY <1>3 DEF WriteResolvconf
  <2> QED  BY <2>1, <2>2 DEF ForwardMove
<1>4. CASE ReadExports(t)
  <2>1. CASE Ends(t, "nfs", "error")
    BY <1>4, <2>1, EndIsLocal
       DEF ReadExports, ForwardMove, PastForward, PCs, BeforeKey, unbound
  <2>2. CASE Goes(t, "nfs", "exports") /\ UNCHANGED servers
    BY <1>4, <2>2, GoesTo DEF ReadExports, ForwardMove, PastForward, unbound
  <2> QED  BY <1>4, <2>1, <2>2 DEF ReadExports
<1>5. CASE GenerateKey(t)
  <2>1. CASE Fails(t, "kea_key", "kea_key")
    BY <1>5, <2>1, FailIsLocal
       DEF GenerateKey, ForwardMove, PastForward, PCs, BeforeKey, unbound
  <2>2. CASE Goes(t, "kea_key", "kea_key_write") /\ UNCHANGED servers
    BY <1>5, <2>2, GoesTo DEF GenerateKey, ForwardMove, PastForward, unbound
  <2> QED  BY <1>5, <2>1, <2>2 DEF GenerateKey
<1>6. ASSUME NEW from \in PCs \ {"idle", "forward_write"}, NEW to \in PCs \ {"forward_write"},
             UNCHANGED managed, forward' \in {forward, {"isp"}},
             to \in PastForward => from \in PastForward,
             \/ Step(t, from, to) \/ \E f : Fails(t, from, f) \/ Breaks(t, from)
             \/ \E o \in {"ok", "error"} : Ends(t, from, o)
      PROVE  ForwardMove(t)
  <2>1. /\ pc[t] = from /\ pc'[t] \in {to, "idle"} /\ servers'[t] \in {servers[t], {}}
    BY <1>6, StepIsLocal, EndIsLocal, FailIsLocal, BreakIsLocal
  <2>2. "idle" \notin PastForward
    BY DEF PastForward
  <2> QED  BY <1>6, <2>1, <2>2 DEF ForwardMove
<1> USE <1>6 DEF PCs, BeforeKey, PastForward, unbound
<1>7. CASE ConfigureHost(t) \/ EmptyExports(t)
  <2>1. /\ UNCHANGED managed /\ UNCHANGED forward
        /\ \/ Step(t, "host", "nfs") \/ Fails(t, "host", "host")
           \/ Step(t, "exports", "exports_write") \/ Fails(t, "exports", "exports")
    BY <1>7 DEF ConfigureHost, EmptyExports
  <2> QED  BY <2>1
<1>8. CASE LookForJail(t) \/ CheckJail(t) \/ CreateJail(t) \/ UnpackJail(t)
  BY <1>8 DEF LookForJail, CheckJail, CreateJail, UnpackJail
<1>9. CASE InstallPackages(t) \/ ConfigureNetwork(t) \/ WriteServices(t)
  BY <1>9 DEF InstallPackages, ConfigureNetwork, WriteServices
<1>10. CASE WriteKeaKey(t) \/ EmptyKnotKey(t) \/ WriteKnotKey(t)
  BY <1>10 DEF WriteKeaKey, EmptyKnotKey, WriteKnotKey
<1>11. CASE MountUnbound(t) \/ StartJail(t) \/ BootJail(t)
  BY <1>11 DEF MountUnbound, StartJail, BootJail
<1>12. CASE LookForHints(t) \/ FetchHints(t) \/ WriteUnbound(t)
  BY <1>12 DEF LookForHints, FetchHints, WriteUnbound
<1>13. CASE RestartUnbound(t) \/ Resolvconf(t)
  BY <1>13 DEF RestartUnbound, Resolvconf
<1>14. CASE WriteExports(t)
  <2>1. /\ UNCHANGED managed /\ UNCHANGED forward
        /\ \/ Step(t, "exports_write", "jail") \/ Fails(t, "exports_write", "exports")
           \/ Fails(t, "exports_write", "nfs")
    BY <1>14 DEF WriteExports
  <2> QED  BY <2>1
<1> QED  BY <1>1, <1>2, <1>3, <1>4, <1>5, <1>7, <1>8, <1>9, <1>10, <1>11, <1>12,
            <1>13, <1>14 DEF InitStep

(* What a step of init does to the dataset of the jail. *)
JailMove(t) ==
    \/ /\ jail' = jail /\ pc[t] # "unpack" /\ pc'[t] # "unpack"
       /\ pc'[t] \in PastJail => pc[t] \in PastJail \/ (pc[t] = "jail" /\ jail # "none")
    \/ /\ jail' = (IF jail = "none" THEN "partial" ELSE jail) /\ pc'[t] = "unpack"
       /\ pc[t] = "zfs_create"
    \/ jail' = "whole"
    \/ /\ jail' = jail /\ pc[t] = "unpack" /\ pc'[t] = "idle"
       /\ \/ "create" \in scenario.faults
          \/ \E u \in Threads \ {t} : pc[u] = "unpack"

(* Only its creation touches it. *)
LEMMA JailMoves ==
    ASSUME TypeOK, NEW t \in Threads, InitStep(t)
    PROVE  JailMove(t)
<1> DEFINE Past == PastJail
<1>0. /\ \A c \in PCs \ Past : c \in {"idle", "jail", "create", "zfs_create", "unpack", "host",
                                    "nfs", "exports", "exports_write"}
      /\ {"idle", "jail", "create", "zfs_create", "unpack"} \intersect Past = {}
      /\ {"exports", "nfs", "exports_write", "host"} \intersect Past = {}
  BY DEF PCs, BeforeKey, PastJail, PastPackages, PastNetwork, PastKeaKey, PastServices,
         PastMount, PastStart, PastHints, PastUnbound, PastForward
<1> HIDE DEF Past
<1>1. CASE LookForJail(t)
  <2>1. /\ pc[t] = "jail" /\ jail' = jail
        /\ pc'[t] = "create" \/ (pc'[t] = "packages" /\ jail # "none")
    BY <1>1, StepIsLocal DEF LookForJail, PCs, BeforeKey, dataset
  <2> QED  BY <1>0, <2>1 DEF JailMove, Past
<1>2. CASE CreateJail(t)
  BY <1>0, <1>2, StepIsLocal, FailIsLocal DEF CreateJail, JailMove, PCs, BeforeKey, Past
<1>3. CASE UnpackJail(t)
  <2>1. CASE Step(t, "unpack", "packages") /\ jail' = "whole"
    BY <2>1 DEF JailMove
  <2>2. CASE /\ \/ Fails(t, "unpack", "create")
                \/ (\E u \in Threads \ {t} : pc[u] = "unpack") /\ Ends(t, "unpack", "error")
             /\ UNCHANGED jail
    BY <2>2, FailIsLocal, EndIsLocal DEF JailMove, PCs, BeforeKey
  <2> QED  BY <1>3, <2>1, <2>2 DEF UnpackJail
<1>4. LocalStep(t)
  BY InitIsLocal
<1>5. ASSUME jail' = jail, pc[t] \in PCs \ {"unpack"}, pc'[t] # "unpack",
             pc[t] \in Past \/ pc'[t] \notin Past
      PROVE  JailMove(t)
  BY <1>5 DEF JailMove, Past
<1>6. ASSUME NEW from \in PCs \ {"idle", "unpack"}, NEW to \in PCs \ {"unpack"},
             from \in Past \/ to \notin Past, jail' = jail,
             \/ Step(t, from, to) \/ \E f : Fails(t, from, f) \/ Breaks(t, from)
             \/ \E o \in {"ok", "error"} : Ends(t, from, o)
      PROVE  JailMove(t)
  BY <1>0, <1>5, <1>6, StepIsLocal, EndIsLocal, FailIsLocal, BreakIsLocal
<1>7. CASE ReadExports(t)
  <2>1. CASE Ends(t, "nfs", "error")
    BY <1>0, <1>6, <1>7, <2>1 DEF ReadExports, PCs, BeforeKey, dataset
  <2>2. CASE Goes(t, "nfs", "exports")
    BY <1>0, <1>5, <1>7, <2>2, GoesTo DEF ReadExports, PCs, BeforeKey, dataset
  <2> QED  BY <1>7, <2>1, <2>2 DEF ReadExports
<1>8. \A c \in PCs : c \notin {"idle", "jail", "create", "zfs_create", "unpack", "host",
                            "nfs", "exports", "exports_write"} => c \in Past
  BY <1>0
<1>9. CASE GenerateKey(t)
  <2>1. pc[t] = "kea_key" /\ pc'[t] # "unpack"
    BY <1>9, GoesTo, FailIsLocal DEF GenerateKey, PCs, BeforeKey
  <2> QED  BY <1>5, <1>8, <1>9, <2>1 DEF GenerateKey, PCs, BeforeKey, dataset
<1>10. CASE EmptyForward(t)
  <2>1. pc[t] = "forward" /\ pc'[t] # "unpack"
    BY <1>10, GoesTo, FailIsLocal DEF EmptyForward, PCs
  <2> QED  BY <1>5, <1>8, <1>10, <2>1 DEF EmptyForward, PCs, dataset
<1> USE <1>0, <1>6, <1>8 DEF PCs, BeforeKey, dataset
<1>11. CASE ConfigureHost(t) \/ EmptyExports(t) \/ WriteExports(t) \/ CheckJail(t)
  BY <1>11 DEF ConfigureHost, EmptyExports, WriteExports, CheckJail
<1>12. CASE InstallPackages(t) \/ ConfigureNetwork(t) \/ WriteServices(t)
  BY <1>12 DEF InstallPackages, ConfigureNetwork, WriteServices
<1>13. CASE WriteKeaKey(t) \/ EmptyKnotKey(t) \/ WriteKnotKey(t)
  BY <1>13 DEF WriteKeaKey, EmptyKnotKey, WriteKnotKey
<1>14. CASE MountUnbound(t) \/ StartJail(t) \/ BootJail(t)
  BY <1>14 DEF MountUnbound, StartJail, BootJail
<1>15. CASE LookForHints(t) \/ FetchHints(t) \/ WriteUnbound(t)
  BY <1>15 DEF LookForHints, FetchHints, WriteUnbound
<1>16. CASE WriteForward(t) \/ WriteResolvconf(t)
  BY <1>16 DEF WriteForward, WriteResolvconf
<1>17. CASE RestartUnbound(t) \/ Resolvconf(t)
  BY <1>17 DEF RestartUnbound, Resolvconf
<1> QED  BY <1>1, <1>2, <1>3, <1>7, <1>9, <1>10, <1>11, <1>12, <1>13, <1>14, <1>15,
            <1>16, <1>17 DEF InitStep

(* What a step of init leaves of what the inits have done, and what it may add. *)
SharedMove(t) ==
    LET c == config[t] IN
    /\ bridge \subseteq bridge' /\ bridge' \subseteq bridge \union c.families
    /\ packages' \in BOOLEAN /\ running' \in BOOLEAN /\ (packages => packages')
    /\ jailnet' \in {jailnet, {}, c.families} /\ served' \in {served, {}, c.families}
    /\ listens' \in {listens, {}, c.families}
    /\ mounts' \in {mounts, mounts + 1} /\ mounts' <= MaxMounts
    /\ loaded' \in {loaded, <<keaKey, knotKey>>, <<0, 0>>}
    /\ running' => \/ running /\ loaded' = loaded
                   \/ pc[t] = "start" /\ loaded' = <<keaKey, knotKey>>
    /\ hints' \in {"none", "partial", "whole"}
    /\ hints # "none" /\ ("hints" \notin scenario.faults \/ pc'[t] # "idle") =>
          hints' # "none"
    /\ resolv' \in {resolv, {"local"}}

(* Every step of init leaves what is there, or makes it as its configuration says. *)
LEMMA SharedMoves ==
    ASSUME TypeOK, NEW t \in Threads, InitStep(t)
    PROVE  SharedMove(t)
<1> USE Types, LinesApart DEF SharedMove
<1>0. mounts \in Nat /\ mounts <= MaxMounts
  BY LinesApart
<1>1. ASSUME UNCHANGED nfs, UNCHANGED dataset, UNCHANGED dns, UNCHANGED instance,
             UNCHANGED unbound
      PROVE  SharedMove(t)
  BY <1>0, <1>1 DEF nfs, dataset, dns, instance, unbound
<1>2. ASSUME UNCHANGED bridge, UNCHANGED packages, UNCHANGED jailnet, UNCHANGED served,
             UNCHANGED instance, UNCHANGED hints, UNCHANGED listens, UNCHANGED resolv
      PROVE  SharedMove(t)
  BY <1>0, <1>2 DEF instance
<1>3. CASE \/ ReadExports(t) \/ LookForJail(t) \/ CheckJail(t) \/ RestartUnbound(t)
           \/ EmptyExports(t) \/ WriteExports(t) \/ CreateJail(t)
  BY <1>2, <1>3 DEF ReadExports, LookForJail, CheckJail, RestartUnbound, EmptyExports,
     WriteExports, CreateJail, nfs, dataset, dns, unbound
<1>4. CASE GenerateKey(t) \/ WriteKeaKey(t) \/ EmptyKnotKey(t) \/ WriteKnotKey(t)
  BY <1>2, <1>4 DEF GenerateKey, WriteKeaKey, EmptyKnotKey, WriteKnotKey, nfs, dataset,
     unbound
<1>5. CASE EmptyForward(t) \/ WriteForward(t) \/ WriteResolvconf(t)
  BY <1>2, <1>5 DEF EmptyForward, WriteForward, WriteResolvconf, nfs, dataset, dns
<1>6. CASE ConfigureHost(t)
  BY <1>0, <1>6 DEF ConfigureHost, dataset, dns, instance, unbound
<1>7. CASE UnpackJail(t)
  BY <1>0, <1>7 DEF UnpackJail, nfs, dns, instance, unbound
<1>8. CASE InstallPackages(t)
  <2>1. packages' \in BOOLEAN /\ (packages => packages')
    BY <1>8 DEF InstallPackages
  <2>2. /\ bridge' = bridge /\ jailnet' = jailnet /\ served' = served
        /\ mounts' = mounts /\ running' = running /\ loaded' = loaded /\ hints' = hints
        /\ listens' = listens /\ resolv' = resolv
    BY <1>8 DEF InstallPackages, nfs, dns, instance, unbound
  <2> QED  BY <1>0, <2>1, <2>2
<1>9. CASE ConfigureNetwork(t)
  BY <1>0, <1>9 DEF ConfigureNetwork, nfs, dns, instance, unbound
<1>10. CASE WriteServices(t)
  BY <1>0, <1>10 DEF WriteServices, nfs, dataset, instance, unbound
<1>11. CASE MountUnbound(t)
  BY <1>0, <1>11 DEF MountUnbound, nfs, dataset, dns, unbound
<1>12. CASE StartJail(t) \/ BootJail(t)
  <2>1. running' \in BOOLEAN
    BY <1>12 DEF StartJail, BootJail
  <2>2. /\ loaded' \in {loaded, <<keaKey, knotKey>>, <<0, 0>>}
        /\ running' => \/ running /\ loaded' = loaded
                       \/ pc[t] = "start" /\ loaded' = <<keaKey, knotKey>>
    <3>1. CASE StartJail(t)
      BY <3>1 DEF StartJail, Step, Goes
    <3>2. CASE BootJail(t)
      BY <3>2 DEF BootJail
    <3> QED  BY <1>12, <3>1, <3>2
  <2>3. /\ bridge' = bridge /\ packages' = packages /\ jailnet' = jailnet
        /\ served' = served /\ mounts' = mounts /\ hints' = hints /\ listens' = listens
        /\ resolv' = resolv
    BY <1>12 DEF StartJail, BootJail, nfs, dataset, dns, unbound
  <2> QED  BY <1>0, <2>1, <2>2, <2>3
<1>13. CASE LookForHints(t)
  BY <1>0, <1>13 DEF LookForHints, nfs, dataset, dns, instance
<1>14. CASE FetchHints(t)
  <2>1. CASE Fails(t, "fetching", "hints")
    <3>1. pc'[t] = "idle" /\ "hints" \in scenario.faults
      BY <2>1, FailIsLocal DEF PCs
    <3> QED  BY <1>0, <1>14, <3>1 DEF FetchHints, nfs, dataset, dns, instance
  <2> QED  BY <1>0, <1>14, <2>1 DEF FetchHints, nfs, dataset, dns, instance
<1>15. CASE WriteUnbound(t)
  BY <1>0, <1>15 DEF WriteUnbound, nfs, dataset, dns, instance
<1>16. CASE Resolvconf(t)
  BY <1>0, <1>16 DEF Resolvconf, nfs, dataset, dns, instance
<1> QED  BY <1>3, <1>4, <1>5, <1>6, <1>7, <1>8, <1>9, <1>10, <1>11, <1>12, <1>13, <1>14,
            <1>15, <1>16 DEF InitStep

(* Unbound forwards to somebody else. *)
LEMMA UpstreamsOthers ==
    ASSUME NEW c \in Configs, NEW named \in SUBSET Servers
    PROVE  LET new == Upstreams(c, named) IN
           new \subseteq Servers /\ "local" \notin new /\ new # {}
  BY DEF Upstreams, Servers

(* An init that generates a key finds one left. *)
LEMMA KeyForInit ==
    ASSUME TypeOK, KeysLeft, NEW t \in Threads, pc[t] \in BeforeKey
    PROVE  keys + 1 <= scenario.keys
<1>1. t \in Beginning
  BY DEF Beginning
<1>2. Cardinality(Beginning) \in Nat /\ Cardinality(Beginning) # 0
  BY <1>1, FS_CardinalityType, FS_EmptySet DEF KeysLeft
<1>3. PICK n, K : n = Cardinality(Beginning) /\ K = scenario.keys
  OBVIOUS
<1>4. n \in Nat /\ n # 0 /\ K \in Nat /\ keys \in Nat /\ keys + n <= K
  BY <1>2, <1>3, Types, Bounds DEF KeysLeft
<1> QED  BY <1>3, <1>4

(* The types, in a step of init. *)
LEMMA InitKeepsTypes ==
    ASSUME TypeOK, KeysLeft, LinesSound, NEW t \in Threads, InitStep(t)
    PROVE  TypeOK'
<1>1. LocalStep(t) /\ scenario' = scenario
  BY InitIsLocal DEF LocalStep
<1>2. SharedMove(t)
  BY SharedMoves
<1>3. ExportsMove(t) /\ KeysMove(t) /\ ForwardMove(t) /\ JailMove(t)
  BY ExportsMoves, KeysMoves, ForwardMoves, JailMoves
<1>4. config[t] \in Configs /\ config[t].families \subseteq Families
  BY Types DEF Configs
<1>5. exports' \in Seq(FileLines)
  <2>1. PICK new : new = Exported(lines[t], config[t].projects)
    OBVIOUS
  <2>2. ASSUME pc[t] = "exports_write"
        PROVE  new \in Seq(FileLines)
    <3>1. lines[t] \in Seq(Lines) /\ config[t].projects \in Dirs
      BY <1>4, <2>2, Types DEF LinesSound, Configs
    <3> QED  BY <2>1, <3>1, ExportedLines
  <2>3. CASE pc[t] = "exports_write" /\ exports' = Over(new, exports)
    BY <2>2, <2>3, OverLines, Types
  <2>4. CASE pc[t] = "exports_write"
             /\ \E n \in 0..Len(new) : exports' = Over(SubSeq(new, 1, n), exports)
    <3>1. PICK n \in 0..Len(new) : exports' = Over(SubSeq(new, 1, n), exports)
      BY <2>4
    <3>2. SubSeq(new, 1, n) \in Seq(FileLines)
      BY <2>2, <2>4, CutLines
    <3> QED  BY <3>1, <3>2, OverLines, Types
  <2>5. CASE exports' \in {exports, <<>>}
    BY <2>5, Types, EmptySeq
  <2> QED  BY <1>3, <2>1, <2>3, <2>4, <2>5 DEF ExportsMove
<1>6. lines' \in [Threads -> Seq(Lines)]
  <2>1. PICK l : l = Keep(exports, Lines)
    OBVIOUS
  <2>2. l \in Seq(Lines)
    BY <2>1, Types, ReadLines
  <2>3. lines'[t] \in {lines[t], <<>>, l}
    BY <1>3, <2>1 DEF ExportsMove
  <2>4. lines'[t] \in Seq(Lines)
    BY <2>2, <2>3, Types, EmptySeq
  <2> QED  BY <1>1, <2>4, Types DEF LocalStep
<1>7. /\ keys' \in 0..scenario.keys /\ keaKey' \in 0..scenario.keys
      /\ knotKey' \in 0..scenario.keys /\ key'[t] \in 0..scenario.keys
  <2>1. pc[t] = "kea_key" => keys + 1 <= scenario.keys
    BY KeyForInit DEF BeforeKey
  <2>2. PICK K : K = scenario.keys /\ K \in Nat
    BY Types, Bounds
  <2>3. /\ keys \in 0..K /\ keaKey \in 0..K /\ knotKey \in 0..K
        /\ key[t] \in 0..K /\ 0 \in 0..K
    BY <2>2, Types
  <2>4. pc[t] = "kea_key" => keys + 1 \in 0..K
    BY <2>1, <2>2, <2>3
  <2> QED  BY <1>3, <2>2, <2>3, <2>4 DEF KeysMove
<1>8. key' \in [Threads -> 0..scenario.keys]
  BY <1>1, <1>7, Types DEF LocalStep
<1>9. resolv' \subseteq Servers
  BY <1>2, Types DEF SharedMove, Servers
<1>10. PICK new : new = Upstreams(config[t], resolv) /\ new \subseteq Servers
  BY <1>4, UpstreamsOthers, Types
<1>11. forward' \subseteq Servers /\ servers'[t] \subseteq Servers /\ managed' \in BOOLEAN
  <2>1. servers[t] \subseteq Servers /\ {"isp"} \subseteq Servers
    BY Types DEF Servers
  <2>2. managed' \in BOOLEAN
    BY <1>3, Types DEF ForwardMove
  <2>3. servers'[t] \subseteq Servers
    BY <1>3, <1>10, <2>1 DEF ForwardMove
  <2>4. \/ forward' \in {forward, {"isp"}, {}}
        \/ \E end \in SUBSET forward, part \in SUBSET servers[t] : forward' = part \union end
    BY <1>3 DEF ForwardMove
  <2>5. forward' \subseteq Servers
    BY <2>1, <2>4, Types
  <2> QED  BY <2>2, <2>3, <2>5
<1>12. servers' \in [Threads -> SUBSET Servers]
  BY <1>1, <1>11, Types DEF LocalStep
<1>13. /\ bridge' \subseteq Families /\ jailnet' \subseteq Families
       /\ served' \subseteq Families /\ listens' \subseteq Families
  BY <1>2, <1>4, Types DEF SharedMove
<1>14. jail' \in {"none", "partial", "whole"}
  BY <1>3, Types DEF JailMove
<1>15. /\ hints' \in {"none", "partial", "whole"}
       /\ packages' \in BOOLEAN /\ running' \in BOOLEAN
  BY <1>2 DEF SharedMove
<1>16. loaded' \in (0..scenario.keys) \X (0..scenario.keys) /\ mounts' \in 0..MaxMounts
  <2>1. <<0, 0>> \in (0..scenario.keys) \X (0..scenario.keys)
    BY Types, Bounds
  <2>2. <<keaKey, knotKey>> \in (0..scenario.keys) \X (0..scenario.keys)
    BY Types
  <2>3. loaded' \in (0..scenario.keys) \X (0..scenario.keys)
    BY <1>2, <2>1, <2>2, Types DEF SharedMove
  <2>4. mounts' \in 0..MaxMounts
    BY <1>2, Types, LinesApart DEF SharedMove
  <2> QED  BY <2>3, <2>4
<1>17. /\ scenario' \in Scenarios /\ failures' \in 0..scenario'.failures
       /\ restarts' \in 0..scenario'.restarts
       /\ pc' \in [Threads -> PCs] /\ config' \in [Threads -> Configs]
       /\ result' \in [Threads -> {"none", "ok", "error"}]
  BY <1>1, Types DEF LocalStep
<1> QED  BY <1>1, <1>5, <1>6, <1>7, <1>8, <1>9, <1>11, <1>12, <1>13, <1>14, <1>15, <1>16,
            <1>17 DEF TypeOK, FileLines, Lines

(* Who is at work, in a step of init. *)
LEMMA InitKeepsAtWork ==
    ASSUME TypeOK, AtWork, NEW t \in Threads, InitStep(t)
    PROVE  AtWork'
<1>1. LocalStep(t)
  BY InitIsLocal
<1>2. ASSUME NEW u \in Threads, pc'[u] # "idle"
      PROVE  pc[u] # "idle" /\ config'[u] = config[u]
  BY <1>1, <1>2 DEF LocalStep
<1> QED  BY <1>1, <1>2 DEF AtWork, Asked, LocalStep

(* A single client has a single request at work. *)
LEMMA OneAtWork ==
    ASSUME AtWork, OneThread, NEW t \in Threads, pc[t] # "idle",
           NEW u \in Threads, pc[u] # "idle" \/ u \in scenario.others
    PROVE  u = t
<1>1. <<t, config[t]>> \in scenario.inits
  BY DEF AtWork, Asked
<1>2. CASE pc[u] # "idle"
  <2>1. <<u, config[u]>> \in scenario.inits
    BY <1>2 DEF AtWork, Asked
  <2> QED  BY <1>1, <2>1 DEF OneThread
<1>3. CASE u \in scenario.others
  BY <1>1, <1>3 DEF OneThread
<1> QED  BY <1>2, <1>3

(* All other threads are idle, then, and stay so. *)
LEMMA OthersIdle ==
    ASSUME TypeOK, AtWork, OneThread, NEW t \in Threads, InitStep(t),
           NEW u \in Threads, u # t
    PROVE  pc[u] = "idle" /\ pc'[u] = "idle"
<1>1. pc[t] # "idle" /\ pc'[u] = pc[u]
  BY InitIsLocal DEF LocalStep
<1> QED  BY <1>1, OneAtWork

(* What is assumed of a scenario stays as it is. *)
LEMMA ScenarioStays ==
    ASSUME scenario' = scenario
    PROVE  /\ OneThread' <=> OneThread
           /\ OneConfig' <=> OneConfig
           /\ Agreed' <=> Agreed
           /\ \A faults : NoneCut(faults)' <=> NoneCut(faults)
  BY DEF OneThread, OneConfig, Agreed, NoneCut

(* /etc/exports and the copies of its lines, in a step of init. *)
LEMMA InitKeepsFiles ==
    ASSUME TypeOK, AtWork, ExportsSound, LinesSound, NEW t \in Threads, InitStep(t)
    PROVE  ExportsSound' /\ LinesSound'
<1>1. LocalStep(t) /\ ExportsMove(t) /\ scenario' = scenario
  BY InitIsLocal, ExportsMoves DEF LocalStep
<1>2. OneThread => \A u \in Threads : u # t => pc[u] = "idle" /\ pc'[u] = "idle"
  BY OthersIdle
<1>3. NoneCut({"exports"}) => OneThread /\ "exports" \notin scenario.faults
  BY DEF NoneCut
<1>4. PICK new : new = Exported(lines[t], config[t].projects)
  OBVIOUS
<1>5. ASSUME pc[t] = "exports_write", NoneCut({"exports"})
      PROVE  /\ new \in Seq(FileLines) /\ new # <<>> /\ Last(new) = "V4" /\ Once(new)
             /\ Admin(new) = Admin(scenario.exports) /\ Over(new, exports) = new
  <2>1. /\ Once(lines[t]) /\ lines[t] \in Seq(Lines) /\ config[t].projects \in Dirs
        /\ Admin(lines[t]) = Admin(scenario.exports) /\ exports = <<>>
    BY <1>3, <1>5, Types DEF LinesSound, Configs
  <2>2. /\ new \in Seq(FileLines) /\ new # <<>> /\ Last(new) = "V4" /\ Once(new)
        /\ Admin(new) = Admin(lines[t])
    BY <1>4, <2>1, ExportedSound
  <2> QED  BY <2>1, <2>2, OverEmpty
<1>6. ExportsSound'
  <2>1. SUFFICES ASSUME NoneCut({"exports"}), \A u \in Threads : pc'[u] # "exports_write"
                 PROVE  /\ Admin(exports') = Admin(scenario.exports)
                        /\ exports' # scenario.exports =>
                              exports' # <<>> /\ Last(exports') = "V4" /\ Once(exports')
    BY <1>1, ScenarioStays DEF ExportsSound
  <2>2. CASE exports' = exports /\ pc[t] # "exports_write"
    <3>1. \A u \in Threads : pc[u] # "exports_write"
      BY <1>2, <1>3, <2>1, <2>2
    <3> QED  BY <2>1, <2>2, <3>1 DEF ExportsSound
  <2>3. CASE pc[t] = "exports_write" /\ exports' = Over(new, exports)
    BY <1>5, <2>1, <2>3
  <2> QED  BY <1>1, <1>3, <1>4, <2>1, <2>2, <2>3 DEF ExportsMove
<1>7. ASSUME pc'[t] \in {"exports", "exports_write"}
      PROVE  /\ config'[t].projects # "missing"
             /\ pc'[t] = "exports_write" => exports' = <<>>
             /\ NoneCut({"exports"}) =>
                   Admin(lines'[t]) = Admin(scenario.exports) /\ Once(lines'[t])
  <2>1. config'[t] = config[t]
    BY <1>1, <1>7 DEF LocalStep
  <2>2. CASE /\ pc[t] = "nfs" /\ pc'[t] = "exports" /\ config[t].projects # "missing"
             /\ lines'[t] = Keep(exports, Lines)
    <3>1. ASSUME NoneCut({"exports"})
          PROVE  Admin(lines'[t]) = Admin(scenario.exports) /\ Once(lines'[t])
      <4>1. \A u \in Threads : pc[u] # "exports_write"
        BY <1>2, <1>3, <2>2, <3>1
      <4>2. /\ Admin(exports) = Admin(scenario.exports)
            /\ exports # scenario.exports => Once(exports)
        BY <3>1, <4>1 DEF ExportsSound
      <4> QED  BY <2>2, <4>2, Types, ReadSound
    <3> QED  BY <2>1, <2>2, <3>1
  <2>3. CASE /\ pc[t] = "exports" /\ pc'[t] = "exports_write"
             /\ exports' = <<>> /\ lines'[t] = lines[t]
    BY <2>1, <2>3 DEF LinesSound
  <2> QED  BY <1>1, <1>7, <2>2, <2>3 DEF ExportsMove
<1>8. ASSUME NEW u \in Threads, u # t, pc'[u] \in {"exports", "exports_write"}
      PROVE  /\ config'[u].projects # "missing" /\ ~OneThread
             /\ NoneCut({"exports"}) =>
                   Admin(lines'[u]) = Admin(scenario.exports) /\ Once(lines'[u])
  BY <1>1, <1>2, <1>3, <1>8, Types DEF LocalStep, LinesSound
<1>9. LinesSound'
  BY <1>1, <1>7, <1>8, ScenarioStays DEF LinesSound
<1> QED  BY <1>6, <1>9

(* forward.conf, in a step of init. *)
LEMMA InitKeepsForward ==
    ASSUME TypeOK, ServersSound, ForwardWritten, ForwardsUpstream,
           NEW t \in Threads, InitStep(t)
    PROVE  ServersSound' /\ ForwardWritten' /\ ForwardsUpstream'
<1>1. LocalStep(t) /\ ForwardMove(t) /\ scenario' = scenario
  BY InitIsLocal, ForwardMoves DEF LocalStep
<1>2. PICK new : new = Upstreams(config[t], resolv)
  OBVIOUS
<1>3. "local" \notin new /\ new # {}
  <2>1. config[t] \in Configs /\ resolv \in SUBSET Servers
    BY Types
  <2> QED  BY <1>2, <2>1, UpstreamsOthers
<1>4. "local" \notin servers[t] /\ (pc[t] = "forward_write" => servers[t] # {})
  BY DEF ServersSound
<1>5. \A u \in Threads : u # t => pc'[u] = pc[u] /\ servers'[u] = servers[u]
  BY <1>1, Types DEF LocalStep
<1>6. ServersSound'
  <2>1. "local" \notin servers'[t] /\ (pc'[t] = "forward_write" => servers'[t] # {})
    BY <1>1, <1>2, <1>3, <1>4 DEF ForwardMove
  <2>2. \A u \in Threads : u # t =>
           "local" \notin servers'[u] /\ (pc'[u] = "forward_write" => servers'[u] # {})
    BY <1>5 DEF ServersSound
  <2> QED  BY <2>1, <2>2 DEF ServersSound
<1>7. "local" \notin forward'
  <2>1. \/ forward' \in {forward, {"isp"}, {}}
        \/ \E end \in SUBSET forward, part \in SUBSET servers[t] : forward' = part \union end
    BY <1>1 DEF ForwardMove
  <2>2. "local" \notin forward
    BY DEF ForwardsUpstream
  <2> QED  BY <1>4, <2>1, <2>2
<1>8. ForwardWritten'
  <2>1. SUFFICES ASSUME scenario.restarts = 0, "unbound" \notin scenario.faults
                 PROVE  \/ forward' # {} \/ \E u \in Threads : pc'[u] = "forward_write"
                        \/ ~managed' /\ \A u \in Threads : pc'[u] \notin PastForward
    BY <1>1 DEF ForwardWritten
  <2>2. \/ forward # {} \/ \E u \in Threads : pc[u] = "forward_write"
        \/ ~managed /\ \A u \in Threads : pc[u] \notin PastForward
    BY <2>1 DEF ForwardWritten
  <2>3. CASE pc'[t] = "forward_write"
    BY <2>3
  <2>4. CASE /\ pc[t] = "forward_write"
             /\ \E end \in SUBSET forward : forward' = servers[t] \union end
    BY <1>4, <2>4
  <2>5. CASE /\ UNCHANGED managed /\ forward' \in {forward, {"isp"}}
             /\ pc[t] # "forward_write"
             /\ pc'[t] \in PastForward => pc[t] \in PastForward
    <3>1. CASE forward # {}
      BY <2>5, <3>1
    <3>2. CASE \E u \in Threads : pc[u] = "forward_write"
      BY <1>5, <2>5, <3>2
    <3>3. CASE ~managed /\ \A u \in Threads : pc[u] \notin PastForward
      <4>1. \A u \in Threads : pc'[u] \notin PastForward
        BY <1>5, <2>5, <3>3
      <4>2. ~managed'
        BY <2>5, <3>3
      <4> QED  BY <4>1, <4>2
    <3> QED  BY <2>2, <3>1, <3>2, <3>3
  <2>6. CASE forward' = forward /\ pc[t] = "manage"
    <3>1. pc[t] \in PastForward /\ pc[t] # "forward_write"
      BY <2>6 DEF PastForward
    <3>2. forward' # {} \/ \E u \in Threads : pc'[u] = "forward_write"
      BY <1>5, <2>2, <2>6, <3>1
    <3> QED  BY <3>2
  <2> QED  BY <1>1, <2>1, <2>3, <2>4, <2>5, <2>6 DEF ForwardMove
<1>9. ForwardsUpstream'
  BY <1>7, <1>8 DEF ForwardsUpstream, ForwardWritten
<1> QED  BY <1>6, <1>8, <1>9

(* The keys that are left, in a step of init. *)
LEMMA InitKeepsKeysLeft ==
    ASSUME TypeOK, KeysLeft, NEW t \in Threads, InitStep(t)
    PROVE  KeysLeft'
<1>1. LocalStep(t) /\ KeysMove(t) /\ scenario' = scenario
  BY InitIsLocal, KeysMoves DEF LocalStep
<1>2. PICK B, C, K : B = Beginning /\ C = Beginning' /\ K = scenario.keys
  OBVIOUS
<1>3. /\ IsFiniteSet(B) /\ Cardinality(B) \in Nat /\ K \in Nat /\ keys \in Nat
      /\ keys + Cardinality(B) <= K
  BY <1>2, FS_CardinalityType, Types, Bounds DEF KeysLeft
<1>4. \A u \in Threads : u # t => (pc'[u] \in BeforeKey <=> pc[u] \in BeforeKey)
  BY <1>1 DEF LocalStep
<1>5. CASE UNCHANGED keys /\ (pc'[t] \in BeforeKey => pc[t] \in BeforeKey)
  <2>1. C \subseteq B
    BY <1>2, <1>4, <1>5 DEF Beginning
  <2>2. IsFiniteSet(C) /\ Cardinality(C) <= Cardinality(B) /\ Cardinality(C) \in Nat
    BY <1>3, <2>1, FS_Subset, FS_CardinalityType, SMTT(60)
  <2>3. keys' + Cardinality(C) <= K
    BY <1>3, <1>5, <2>2
  <2> QED  BY <1>1, <1>2, <2>2, <2>3 DEF KeysLeft
<1>6. CASE pc[t] = "kea_key" /\ keys' = keys + 1 /\ pc'[t] \in {"kea_key_write", "idle"}
  <2>1. t \in B /\ C = B \ {t}
    BY <1>2, <1>4, <1>6 DEF Beginning, BeforeKey
  <2>2. IsFiniteSet(C) /\ Cardinality(C) = Cardinality(B) - 1
    BY <1>3, <2>1, FS_RemoveElement
  <2>3. keys' + Cardinality(C) <= K
    BY <1>3, <1>6, <2>2
  <2> QED  BY <1>1, <1>2, <2>2, <2>3 DEF KeysLeft
<1>7. {"kea_key_write", "knot_key", "knot_key_write", "services", "idle"}
         \intersect BeforeKey = {}
  BY DEF BeforeKey
<1> QED  BY <1>1, <1>5, <1>6, <1>7 DEF KeysMove

(* The keys in the two files and those that the services have read, in a step of init. *)
LEMMA InitKeepsKeys ==
    ASSUME TypeOK, AtWork, KeysWritten, KeysAgree, NEW t \in Threads, InitStep(t)
    PROVE  KeysWritten' /\ KeysAgree'
<1>1. LocalStep(t) /\ SharedMove(t) /\ KeysMove(t) /\ scenario' = scenario
  BY InitIsLocal, SharedMoves, KeysMoves DEF LocalStep
<1>2. \A u \in Threads : pc'[u] \in Keying => key'[u] # 0
  <2>1. pc'[t] \in Keying => key'[t] # 0
    <3>1. keys + 1 # 0 /\ (pc[t] \in Keying => key[t] # 0)
      BY Types, Bounds DEF KeysWritten
    <3> QED  BY <1>1, <3>1 DEF KeysMove, Keying
  <2>2. \A u \in Threads : u # t => pc'[u] = pc[u] /\ key'[u] = key[u]
    BY <1>1, Types DEF LocalStep
  <2> QED  BY <2>1, <2>2 DEF KeysWritten
<1>3. SUFFICES ASSUME NoneCut({"kea_key", "knot_key"})
               PROVE  /\ \A u \in Threads : pc'[u] \in {"knot_key", "knot_key_write"} =>
                            key'[u] = keaKey'
                      /\ keaKey' = knotKey' \/ \E u \in Threads : pc'[u] \in Keying
                      /\ running' => loaded'[1] = loaded'[2]
  BY <1>1, <1>2, ScenarioStays DEF KeysWritten, KeysAgree
<1>4. OneThread /\ scenario.faults \intersect {"kea_key", "knot_key"} = {}
  BY <1>3 DEF NoneCut
<1>5. ASSUME NEW u \in Threads, u # t
      PROVE  pc[u] = "idle" /\ pc'[u] = "idle"
  BY <1>4, <1>5, OthersIdle
<1>6. /\ pc[t] \in {"knot_key", "knot_key_write"} => key[t] = keaKey
      /\ keaKey = knotKey \/ pc[t] \in Keying
  BY <1>3, <1>5 DEF KeysWritten, Keying
<1>7. /\ pc'[t] \in {"knot_key", "knot_key_write"} => key'[t] = keaKey'
      /\ keaKey' = knotKey' \/ pc'[t] \in Keying
  BY <1>1, <1>4, <1>6 DEF KeysMove, Keying
<1>8. ASSUME running'
      PROVE  loaded'[1] = loaded'[2]
  <2>1. CASE running /\ loaded' = loaded
    BY <1>3, <2>1 DEF KeysAgree
  <2>2. CASE pc[t] = "start" /\ loaded' = <<keaKey, knotKey>>
    BY <1>6, <2>2 DEF Keying
  <2> QED  BY <1>1, <1>8, <2>1, <2>2 DEF SharedMove
<1> QED  BY <1>5, <1>7, <1>8

(* The dataset of the jail, in a step of init. *)
LEMMA InitKeepsJailMade ==
    ASSUME TypeOK, AtWork, JailMade, NEW t \in Threads, InitStep(t)
    PROVE  JailMade'
<1>1. JailMove(t) /\ scenario' = scenario
  BY InitIsLocal, JailMoves DEF LocalStep
<1>2. SUFFICES ASSUME NoneCut({"create"})
               PROVE  /\ jail' = "partial" => \E u \in Threads : pc'[u] = "unpack"
                      /\ \A u \in Threads : pc'[u] \in PastJail => jail' = "whole"
  BY <1>1, ScenarioStays DEF JailMade
<1>3. OneThread /\ "create" \notin scenario.faults
  BY <1>2 DEF NoneCut
<1>4. ASSUME NEW u \in Threads, u # t
      PROVE  pc[u] = "idle" /\ pc'[u] = "idle"
  BY <1>3, <1>4, OthersIdle
<1>5. {"idle", "unpack", "jail"} \intersect PastJail = {}
  BY DEF PastJail, PastPackages, PastNetwork, PastKeaKey, PastServices, PastMount, PastStart,
         PastHints, PastUnbound, PastForward
<1>6. /\ jail = "partial" => pc[t] = "unpack"
      /\ pc[t] \in PastJail => jail = "whole"
  BY <1>2, <1>4 DEF JailMade
<1>7. jail \in {"none", "partial", "whole"}
  BY Types
<1>8. /\ jail' = "partial" => pc'[t] = "unpack"
      /\ pc'[t] \in PastJail => jail' = "whole"
  BY <1>1, <1>3, <1>4, <1>5, <1>6, <1>7 DEF JailMove
<1> QED  BY <1>4, <1>5, <1>8

-----------------------------------------------------------------------------
(* What is in place stays there.                                               *)

(* A step of an init undoes nothing that lasts, unless its fetch of the root hints
   fails. *)
LEMMA KeptLasts ==
    ASSUME TypeOK, NEW t \in Threads, InitStep(t), NEW c, NEW call, LastsSince(c, call),
           "hints" \notin scenario.faults \/ pc'[t] # "idle"
    PROVE  LastsSince(c, call)'
<1>1. SharedMove(t) /\ JailMove(t)
  BY SharedMoves, JailMoves
<1>2. jail # "none" => jail' # "none"
  BY <1>1 DEF JailMove
<1>3. mounts > 0 => mounts' > 0
  BY <1>1, Types, LinesApart DEF SharedMove
<1>4. /\ c.families \subseteq bridge => c.families \subseteq bridge'
      /\ packages => packages'
      /\ hints # "none" => hints' # "none"
  BY <1>1 DEF SharedMove
<1> QED  BY <1>2, <1>3, <1>4 DEF LastsSince

(* What an init has just done is in place, with what it had done before. *)
LEMMA OwnLasts ==
    ASSUME TypeOK, NEW t \in Threads, InitStep(t), LastsSince(config[t], pc[t]),
           NEW c, c = config[t], NEW to, to = pc'[t], to # "idle"
    PROVE  LastsSince(c, to)'
<1>1. PICK from : from = pc[t]
  OBVIOUS
<1>2. LastsSince(c, from)'
  BY <1>1, KeptLasts
<1>3. /\ \A x, y : Goes(t, x, y) \/ Step(t, x, y) => from = x /\ to = y
      /\ \A x, o : ~Ends(t, x, o) /\ ~Fails(t, x, o) /\ ~Breaks(t, x)
  BY <1>1, Types DEF Goes, Step, Ends, Fails, Breaks, Returns
<1> USE <1>3 DEF PastForward, PastUnbound, PastHints, PastStart, PastMount, PastServices,
                 PastKeaKey, PastNetwork, PastPackages, PastJail, PastExports, PastNfs,
                 PastHost
<1>4. CASE ConfigureHost(t)
  <2>1. from = "host" /\ to = "nfs" /\ c.families \subseteq bridge'
    BY <1>4 DEF ConfigureHost
  <2> QED  BY <1>2, <2>1 DEF LastsSince
<1>5. CASE ReadExports(t)
  <2>1. from = "nfs" /\ to = "exports"
    BY <1>5 DEF ReadExports
  <2> QED  BY <1>2, <2>1 DEF LastsSince
<1>6. CASE EmptyExports(t) \/ WriteExports(t)
  <2>1. \/ from = "exports" /\ to = "exports_write"
        \/ from = "exports_write" /\ to = "jail"
    BY <1>6 DEF EmptyExports, WriteExports
  <2> QED  BY <1>2, <2>1 DEF LastsSince
<1>7. CASE LookForJail(t)
  <2>1. /\ from = "jail"
        /\ to = "create" \/ (to = "packages" /\ jail' # "none")
    BY <1>7 DEF LookForJail, dataset
  <2> QED  BY <1>2, <2>1 DEF LastsSince
<1>8. CASE CheckJail(t)
  <2>1. from = "create" /\ to = "zfs_create"
    BY <1>8 DEF CheckJail
  <2> QED  BY <1>2, <2>1 DEF LastsSince
<1>9. CASE CreateJail(t)
  <2>1. from = "zfs_create" /\ to = "unpack" /\ jail' # "none"
    BY <1>9 DEF CreateJail
  <2> QED  BY <1>2, <2>1 DEF LastsSince
<1>10. CASE UnpackJail(t)
  <2>1. from = "unpack" /\ to = "packages" /\ jail' = "whole"
    BY <1>10 DEF UnpackJail
  <2> QED  BY <1>2, <2>1 DEF LastsSince
<1>11. CASE InstallPackages(t)
  <2>1. from = "packages" /\ to = "network" /\ packages'
    BY <1>11 DEF InstallPackages
  <2> QED  BY <1>2, <2>1 DEF LastsSince
<1>12. CASE ConfigureNetwork(t)
  <2>1. from = "network" /\ to = "kea_key"
    BY <1>12 DEF ConfigureNetwork
  <2> QED  BY <1>2, <2>1 DEF LastsSince
<1>13. CASE GenerateKey(t)
  <2>1. from = "kea_key" /\ to = "kea_key_write"
    BY <1>13 DEF GenerateKey
  <2> QED  BY <1>2, <2>1 DEF LastsSince
<1>14. CASE WriteKeaKey(t) \/ EmptyKnotKey(t) \/ WriteKnotKey(t)
  <2>1. \/ from = "kea_key_write" /\ to = "knot_key"
        \/ from = "knot_key" /\ to = "knot_key_write"
        \/ from = "knot_key_write" /\ to = "services"
    BY <1>14 DEF WriteKeaKey, EmptyKnotKey, WriteKnotKey
  <2> QED  BY <1>2, <2>1 DEF LastsSince
<1>15. CASE WriteServices(t)
  <2>1. from = "services" /\ to = "mount"
    BY <1>15 DEF WriteServices
  <2> QED  BY <1>2, <2>1 DEF LastsSince
<1>16. CASE MountUnbound(t)
  <2>1. from = "mount" /\ to = "start" /\ mounts' > 0
    BY <1>16, Types, LinesApart DEF MountUnbound
  <2> QED  BY <1>2, <2>1 DEF LastsSince
<1>17. CASE StartJail(t) \/ BootJail(t)
  <2>1. \/ from = "start" /\ to \in {"booting", "hints"}
        \/ from = "booting" /\ to = "hints"
    BY <1>17 DEF StartJail, BootJail
  <2> QED  BY <1>2, <2>1 DEF LastsSince
<1>18. CASE LookForHints(t)
  <2>1. from = "hints" /\ (to = "fetching" \/ (to = "unbound" /\ hints' # "none"))
    BY <1>18 DEF LookForHints
  <2> QED  BY <1>2, <2>1 DEF LastsSince
<1>19. CASE FetchHints(t)
  <2>1. from = "fetching" /\ to = "unbound" /\ hints' # "none"
    BY <1>19 DEF FetchHints
  <2> QED  BY <1>2, <2>1 DEF LastsSince
<1>20. CASE WriteUnbound(t)
  <2>1. from = "unbound" /\ to = "forward"
    BY <1>20 DEF WriteUnbound
  <2> QED  BY <1>2, <2>1 DEF LastsSince
<1>21. CASE EmptyForward(t)
  <2>1. from = "forward" /\ to = "forward_write"
    BY <1>21 DEF EmptyForward
  <2> QED  BY <1>2, <2>1 DEF LastsSince
<1>22. CASE WriteForward(t)
  <2>1. from = "forward_write" /\ to = "manage"
    BY <1>22 DEF WriteForward
  <2> QED  BY <1>2, <2>1 DEF LastsSince
<1>23. CASE WriteResolvconf(t)
  <2>1. from = "manage" /\ to = "restart"
    BY <1>23 DEF WriteResolvconf
  <2> QED  BY <1>2, <2>1 DEF LastsSince
<1>24. CASE RestartUnbound(t)
  <2>1. from = "restart" /\ to = "resolvconf"
    BY <1>24 DEF RestartUnbound
  <2> QED  BY <1>2, <2>1 DEF LastsSince
<1>25. CASE Resolvconf(t)
  BY <1>25 DEF Resolvconf
<1> QED  BY <1>4, <1>5, <1>6, <1>7, <1>8, <1>9, <1>10, <1>11, <1>12, <1>13, <1>14, <1>15,
            <1>16, <1>17, <1>18, <1>19, <1>20, <1>21, <1>22, <1>23, <1>24, <1>25
         DEF InitStep

(* The same of what others could take away. *)
LEMMA OwnInPlace ==
    ASSUME TypeOK, LinesSound, ServersSound, KeysWritten, NEW t \in Threads, InitStep(t),
           InPlace(config[t], pc[t]),
           NEW c, c = config[t], NEW to, to = pc'[t], to # "idle"
    PROVE  InPlace(c, to)'
<1>1. PICK from : from = pc[t]
  OBVIOUS
<1>2. InPlace(c, from)
  BY <1>1
<1>3. /\ \A x, y : Goes(t, x, y) \/ Step(t, x, y) => from = x /\ to = y
      /\ \A x, o : ~Ends(t, x, o) /\ ~Fails(t, x, o) /\ ~Breaks(t, x)
  BY <1>1, Types DEF Goes, Step, Ends, Fails, Breaks, Returns
<1>4. pc[t] = "exports_write" => lines[t] \in Seq(Lines) /\ config[t].projects \in Dirs
  BY Types DEF LinesSound, Configs
<1>5. pc[t] = "kea_key_write" => key[t] # 0
  BY DEF KeysWritten, Keying
<1>6. pc[t] = "forward_write" => servers[t] # {}
  BY DEF ServersSound
<1> USE <1>3 DEF PastForward, PastUnbound, PastHints, PastStart, PastMount, PastServices,
                 PastKeaKey, PastNetwork, PastPackages, PastJail, PastExports, PastNfs,
                 PastHost
<1>7. CASE ConfigureHost(t) \/ ReadExports(t) \/ EmptyExports(t)
  <2>1. to \in {"nfs", "exports", "exports_write"}
    BY <1>7 DEF ConfigureHost, ReadExports, EmptyExports
  <2> QED  BY <2>1 DEF InPlace
<1>8. CASE WriteExports(t)
  <2>1. from = "exports_write" /\ to = "jail"
        /\ exports' = Over(Exported(lines[t], config[t].projects), exports)
    BY <1>8 DEF WriteExports
  <2>2. PICK new : new = Exported(lines[t], config[t].projects)
    OBVIOUS
  <2>3. new \in Seq(FileLines) /\ c.projects \in ToSet(new)
    BY <1>1, <1>4, <2>1, <2>2, ExportedLines
  <2>4. c.projects \in ToSet(exports')
    BY <2>1, <2>2, <2>3, OverLines, Types
  <2> QED  BY <2>1, <2>4 DEF InPlace
<1>9. CASE LookForJail(t) \/ CheckJail(t) \/ CreateJail(t) \/ UnpackJail(t)
  <2>1. /\ from \in {"jail", "create", "zfs_create", "unpack"} /\ exports' = exports
        /\ to \in {"create", "zfs_create", "unpack", "packages"}
    BY <1>9 DEF LookForJail, CheckJail, CreateJail, UnpackJail, nfs
  <2> QED  BY <1>2, <2>1 DEF InPlace
<1>10. CASE InstallPackages(t)
  <2>1. from = "packages" /\ to = "network" /\ exports' = exports
    BY <1>10 DEF InstallPackages, nfs
  <2> QED  BY <1>2, <2>1 DEF InPlace
<1>11. CASE ConfigureNetwork(t)
  <2>1. /\ from = "network" /\ to = "kea_key" /\ exports' = exports
        /\ jailnet' = c.families
    BY <1>11 DEF ConfigureNetwork, nfs
  <2> QED  BY <1>2, <2>1 DEF InPlace
<1>12. CASE GenerateKey(t)
  <2>1. /\ from = "kea_key" /\ to = "kea_key_write" /\ exports' = exports
        /\ jailnet' = jailnet
    BY <1>12 DEF GenerateKey, nfs, dataset
  <2> QED  BY <1>2, <2>1 DEF InPlace
<1>13. CASE WriteKeaKey(t)
  <2>1. /\ from = "kea_key_write" /\ to = "knot_key" /\ keaKey' # 0
        /\ exports' = exports /\ jailnet' = jailnet
    BY <1>1, <1>5, <1>13 DEF WriteKeaKey, nfs, dataset
  <2> QED  BY <1>2, <2>1 DEF InPlace
<1>14. CASE EmptyKnotKey(t) \/ WriteKnotKey(t)
  <2>1. /\ \/ from = "knot_key" /\ to = "knot_key_write"
           \/ from = "knot_key_write" /\ to = "services"
        /\ exports' = exports /\ jailnet' = jailnet /\ keaKey' = keaKey
    BY <1>14 DEF EmptyKnotKey, WriteKnotKey, nfs, dataset
  <2> QED  BY <1>2, <2>1 DEF InPlace
<1>15. CASE WriteServices(t)
  <2>1. /\ from = "services" /\ to = "mount" /\ served' = c.families
        /\ exports' = exports /\ jailnet' = jailnet /\ keaKey' = keaKey
    BY <1>15 DEF WriteServices, nfs, dataset
  <2> QED  BY <1>2, <2>1 DEF InPlace
<1>16. CASE MountUnbound(t) \/ StartJail(t) \/ BootJail(t)
  <2>1. /\ \/ from = "mount" /\ to = "start"
           \/ from = "start" /\ to = "booting"
           \/ from \in {"start", "booting"} /\ to = "hints" /\ running'
        /\ exports' = exports /\ jailnet' = jailnet /\ keaKey' = keaKey
        /\ served' = served
    BY <1>16 DEF MountUnbound, StartJail, BootJail, nfs, dataset, dns
  <2> QED  BY <1>2, <2>1 DEF InPlace
<1>17. CASE LookForHints(t) \/ FetchHints(t)
  <2>1. /\ \/ from = "hints" /\ to \in {"fetching", "unbound"}
           \/ from = "fetching" /\ to = "unbound"
        /\ exports' = exports /\ jailnet' = jailnet /\ keaKey' = keaKey
        /\ served' = served /\ running' = running
    BY <1>17 DEF LookForHints, FetchHints, nfs, dataset, dns, instance
  <2> QED  BY <1>2, <2>1 DEF InPlace
<1>18. CASE WriteUnbound(t)
  <2>1. /\ from = "unbound" /\ to = "forward" /\ listens' = c.families
        /\ exports' = exports /\ jailnet' = jailnet /\ keaKey' = keaKey
        /\ served' = served /\ running' = running
    BY <1>18 DEF WriteUnbound, nfs, dataset, dns, instance
  <2> QED  BY <1>2, <2>1 DEF InPlace
<1>19. CASE EmptyForward(t)
  <2>1. /\ from = "forward" /\ to = "forward_write" /\ listens' = listens
        /\ exports' = exports /\ jailnet' = jailnet /\ keaKey' = keaKey
        /\ served' = served /\ running' = running
    BY <1>19 DEF EmptyForward, nfs, dataset, dns, instance
  <2> QED  BY <1>2, <2>1 DEF InPlace
<1>20. CASE WriteForward(t)
  <2>1. /\ from = "forward_write" /\ to = "manage" /\ listens' = listens
        /\ exports' = exports /\ jailnet' = jailnet /\ keaKey' = keaKey
        /\ served' = served /\ running' = running /\ servers[t] \subseteq forward'
    BY <1>20 DEF WriteForward, nfs, dataset, dns, instance
  <2> QED  BY <1>1, <1>2, <1>6, <2>1 DEF InPlace
<1>21. CASE WriteResolvconf(t)
  <2>1. /\ from = "manage" /\ to = "restart" /\ listens' = listens
        /\ exports' = exports /\ jailnet' = jailnet /\ keaKey' = keaKey
        /\ served' = served /\ running' = running /\ forward' = forward
    BY <1>21 DEF WriteResolvconf, nfs, dataset, dns, instance
  <2> QED  BY <1>2, <2>1 DEF InPlace
<1>22. CASE RestartUnbound(t)
  <2>1. /\ from = "restart" /\ to = "resolvconf" /\ listens' = listens
        /\ exports' = exports /\ jailnet' = jailnet /\ keaKey' = keaKey
        /\ served' = served /\ running' = running /\ forward' = forward
    BY <1>22 DEF RestartUnbound, nfs, dataset, dns, instance, unbound
  <2> QED  BY <1>2, <2>1 DEF InPlace
<1>23. CASE Resolvconf(t)
  BY <1>23 DEF Resolvconf
<1> QED  BY <1>7, <1>8, <1>9, <1>10, <1>11, <1>12, <1>13, <1>14, <1>15, <1>16, <1>17,
            <1>18, <1>19, <1>20, <1>21, <1>22, <1>23 DEF InitStep

(* Of a thread without a request nothing needs to be in place. *)
LEMMA IdleInPlace ==
    ASSUME NEW c
    PROVE  InPlace(c, "idle") /\ LastsSince(c, "idle")
  BY DEF InPlace, LastsSince, PastForward, PastUnbound, PastHints, PastStart, PastMount,
         PastServices, PastKeaKey, PastNetwork, PastPackages, PastJail, PastExports,
         PastNfs, PastHost

(* Nor when it has just begun. *)
LEMMA FirstInPlace ==
    ASSUME NEW c
    PROVE  InPlace(c, "host") /\ LastsSince(c, "host")
  BY DEF InPlace, LastsSince, PastForward, PastUnbound, PastHints, PastStart, PastMount,
         PastServices, PastKeaKey, PastNetwork, PastPackages, PastJail, PastExports,
         PastNfs, PastHost

(* What the inits have passed is in place, in a step of init. *)
LEMMA InitKeepsInPlace ==
    ASSUME TypeOK, LinesSound, ServersSound, KeysWritten, AtWork, AllInPlace,
           NEW t \in Threads, InitStep(t)
    PROVE  AllInPlace'
<1>1. LocalStep(t)
  BY InitIsLocal
<1>2. scenario' = scenario /\ pc[t] # "idle"
  BY <1>1 DEF LocalStep
<1>3. SUFFICES ASSUME NEW u \in Threads
               PROVE  /\ OneThread \/ Agreed => LastsSince(config[u], pc[u])'
                      /\ OneThread => InPlace(config[u], pc[u])'
  BY <1>2, ScenarioStays DEF AllInPlace
<1>4. PICK c, call : c = config'[u] /\ call = pc'[u]
  OBVIOUS
<1>5. /\ OneThread \/ Agreed => LastsSince(config[t], pc[t]) /\ LastsSince(config[u], pc[u])
      /\ OneThread => InPlace(config[t], pc[t])
  BY <1>3 DEF AllInPlace
<1>6. CASE call = "idle"
  <2>1. (InPlace(c, call) /\ LastsSince(c, call))'
    BY <1>6 DEF InPlace, LastsSince, PastForward, PastUnbound, PastHints, PastStart,
         PastMount, PastServices, PastKeaKey, PastNetwork, PastPackages, PastJail,
         PastExports, PastNfs, PastHost
  <2> QED  BY <1>4, <2>1
<1>7. CASE u = t /\ call # "idle"
  <2>1. config'[t] = config[t] /\ pc'[t] # "idle"
    BY <1>1, <1>4, <1>7 DEF LocalStep
  <2>2. OneThread \/ Agreed => LastsSince(c, call)'
    BY <1>4, <1>5, <1>7, <2>1, OwnLasts
  <2>3. OneThread => InPlace(c, call)'
    BY <1>4, <1>5, <1>7, <2>1, OwnInPlace
  <2> QED  BY <1>4, <2>2, <2>3
<1>8. CASE u # t /\ call # "idle"
  <2>1. pc'[u] = pc[u] /\ config'[u] = config[u]
    BY <1>1, <1>8 DEF LocalStep
  <2>2. ~OneThread
    BY <1>2, <1>4, <1>8, <2>1, OneAtWork
  <2>3. Agreed => LastsSince(c, call)'
    BY <1>4, <1>5, <2>1, KeptLasts DEF Agreed
  <2> QED  BY <1>4, <2>2, <2>3
<1> QED  BY <1>6, <1>7, <1>8

-----------------------------------------------------------------------------
(* The other steps.                                                            *)

(* A request begins. *)
LEMMA BeginStep ==
    ASSUME Inv, NEW t \in Threads, NEW c, Begin(t, c)
    PROVE  Inv'
<1>1. c \in Configs
  <2>1. scenario.inits \subseteq Threads \X Configs
    BY Types, NetworkAssumption DEF Inv
  <2> QED  BY <2>1 DEF Begin
<1>2. /\ pc' = [pc EXCEPT ![t] = pc'[t]] /\ config' = [config EXCEPT ![t] = config'[t]]
      /\ pc[t] = "idle" /\ <<t, c>> \in scenario.inits
      /\ \/ pc'[t] = "idle" /\ config'[t] = NoConfig
         \/ pc'[t] = "host" /\ config'[t] = c /\ c.families # {}
  BY Types DEF Inv, Begin, Refused
<1>3. /\ UNCHANGED <<scenario, bridge, exports, jail, packages, jailnet, keaKey, knotKey,
                     keys, served, mounts, running, loaded>>
      /\ UNCHANGED <<hints, listens, forward, resolv, managed, lines, key, servers, failures,
                     restarts>>
  BY DEF Begin, nfs, dataset, dns, instance, unbound, copies, world
<1>4. TypeOK'
  <2>1. result' \in [Threads -> {"none", "ok", "error"}]
    BY Types DEF Inv, Begin
  <2>2. pc' \in [Threads -> PCs] /\ config' \in [Threads -> Configs]
    <3>1. pc'[t] \in PCs /\ config'[t] \in Configs
      BY <1>1, <1>2, NoConfigIs DEF PCs, BeforeKey
    <3>2. pc \in [Threads -> PCs] /\ config \in [Threads -> Configs]
      BY Types DEF Inv
    <3> QED  BY <1>2, <3>1, <3>2
  <2> QED  BY <1>3, <2>1, <2>2 DEF Inv, TypeOK
<1>5. \A u \in Threads : u # t => pc'[u] = pc[u] /\ config'[u] = config[u]
  BY <1>2, Types DEF Inv
<1>6. \A u \in Threads : /\ (pc'[u] \in {"idle", "host"} <=> pc[u] \in {"idle", "host"})
                         /\ (pc[u] \notin {"idle", "host"} =>
                                pc'[u] = pc[u] /\ config'[u] = config[u])
  BY <1>2, <1>5
<1>7. ExportsSound' /\ LinesSound'
  <2>1. ExportsSound'
    BY <1>3, <1>6, ScenarioStays DEF Inv, ExportsSound
  <2>2. ASSUME NEW u \in Threads, pc'[u] \in {"exports", "exports_write"}
        PROVE  pc'[u] = pc[u] /\ config'[u] = config[u]
    BY <1>6, <2>2
  <2>3. LinesSound'
    BY <1>3, <2>2, ScenarioStays DEF Inv, LinesSound
  <2> QED  BY <2>1, <2>3
<1>8. ServersSound' /\ ForwardWritten' /\ ForwardsUpstream'
  <2>1. {"idle", "host"} \intersect PastForward = {}
    BY DEF PastForward
  <2>2. \A u \in Threads : /\ pc'[u] \in PastForward => pc[u] \in PastForward
                           /\ (pc'[u] = "forward_write" <=> pc[u] = "forward_write")
    BY <1>6, <2>1
  <2>3. ServersSound'
    BY <1>3, <2>2 DEF Inv, ServersSound
  <2>4. ForwardWritten'
    BY <1>3, <2>2 DEF Inv, ForwardWritten
  <2>5. "local" \notin forward'
    BY <1>3 DEF Inv, ForwardsUpstream
  <2> QED  BY <2>3, <2>4, <2>5 DEF ForwardsUpstream, ForwardWritten
<1>9. KeysLeft'
  <2>1. PICK B, C, K : B = Beginning /\ C = Beginning' /\ K = scenario.keys
    OBVIOUS
  <2>2. C = B \/ C = B \union {t}
    BY <1>2, <1>5, <2>1 DEF Beginning, BeforeKey
  <2>3. IsFiniteSet(B) /\ Cardinality(B) \in Nat /\ keys + Cardinality(B) < K
    BY <2>1, FS_CardinalityType DEF Begin, Inv, KeysLeft, Beginning
  <2>4. IsFiniteSet(C) /\ Cardinality(C) \in {Cardinality(B), Cardinality(B) + 1}
    BY <2>2, <2>3, FS_AddElement
  <2>5. keys' = keys /\ keys \in Nat /\ K \in Nat /\ scenario' = scenario
    BY <1>3, <2>1, Types, Bounds DEF Inv
  <2>6. keys' + Cardinality(C) <= K
    BY <2>3, <2>4, <2>5
  <2> QED  BY <2>1, <2>4, <2>5, <2>6 DEF KeysLeft
<1>10. AtWork'
  <2>1. ASSUME NEW u \in Threads, pc'[u] # "idle"
        PROVE  <<u, config'[u]>> \in scenario.inits /\ config'[u].families # {}
    <3>1. CASE u = t
      BY <1>2, <2>1, <3>1
    <3>2. CASE u # t
      BY <1>5, <2>1, <3>2 DEF Inv, AtWork, Asked
    <3> QED  BY <3>1, <3>2
  <2> QED  BY <1>3, <2>1 DEF AtWork, Asked
<1>11. KeysWritten' /\ KeysAgree'
  <2>1. {"idle", "host"} \intersect Keying = {}
    BY DEF Keying
  <2>2. \A u \in Threads : /\ (pc'[u] \in Keying <=> pc[u] \in Keying)
                           /\ (pc'[u] \in {"knot_key", "knot_key_write"} <=>
                                  pc[u] \in {"knot_key", "knot_key_write"})
    BY <1>6, <2>1
  <2>3. KeysWritten'
    BY <1>3, <2>2, ScenarioStays DEF Inv, KeysWritten
  <2>4. KeysAgree'
    BY <1>3, ScenarioStays DEF Inv, KeysAgree
  <2> QED  BY <2>3, <2>4
<1>12. JailMade'
  <2>1. {"idle", "host"} \intersect PastJail = {}
    BY DEF PastJail, PastPackages, PastNetwork, PastKeaKey, PastServices, PastMount,
           PastStart, PastHints, PastUnbound, PastForward
  <2>2. \A u \in Threads : /\ pc'[u] \in PastJail => pc[u] \in PastJail
                           /\ (pc'[u] = "unpack" <=> pc[u] = "unpack")
    BY <1>6, <2>1
  <2> QED  BY <1>3, <2>2, ScenarioStays DEF Inv, JailMade
<1>13. AllInPlace'
  <2>1. SUFFICES ASSUME NEW u \in Threads
                 PROVE  /\ OneThread \/ Agreed => LastsSince(config[u], pc[u])'
                        /\ OneThread => InPlace(config[u], pc[u])'
    BY <1>3, ScenarioStays DEF AllInPlace
  <2>2. PICK c1, call : c1 = config'[u] /\ call = pc'[u]
    OBVIOUS
  <2>3. CASE call \in {"idle", "host"}
    <3>1. (InPlace(c1, call) /\ LastsSince(c1, call))'
      BY <2>3 DEF InPlace, LastsSince, PastForward, PastUnbound, PastHints, PastStart,
         PastMount, PastServices, PastKeaKey, PastNetwork, PastPackages, PastJail,
         PastExports, PastNfs, PastHost
    <3> QED  BY <2>2, <3>1
  <2>4. CASE call \notin {"idle", "host"}
    <3>1. call = pc[u] /\ c1 = config[u]
      BY <1>6, <2>2, <2>4
    <3>2. /\ OneThread \/ Agreed => LastsSince(c1, call)
          /\ OneThread => InPlace(c1, call)
      BY <2>1, <3>1 DEF Inv, AllInPlace
    <3>3. /\ LastsSince(c1, call) => LastsSince(c1, call)'
          /\ InPlace(c1, call) => InPlace(c1, call)'
      BY <1>3 DEF InPlace, LastsSince
    <3> QED  BY <2>2, <3>2, <3>3
  <2> QED  BY <2>3, <2>4
<1> QED  BY <1>4, <1>7, <1>8, <1>9, <1>10, <1>11, <1>12, <1>13 DEF Inv

(* Another client starts or stops the jail. *)
LEMMA OtherStep ==
    ASSUME Inv, NEW t \in Threads, OtherStarts(t) \/ OtherStops(t)
    PROVE  Inv'
<1>1. t \in scenario.others /\ pc[t] = "idle"
      /\ running' \in BOOLEAN /\ loaded' \in {<<0, 0>>, <<keaKey, knotKey>>}
      /\ (running' => loaded' = <<keaKey, knotKey>>)
  BY DEF OtherStarts, OtherStops
<1>2. /\ UNCHANGED <<scenario, bridge, exports, jail, packages, jailnet, keaKey, knotKey,
                     keys, served, mounts>>
      /\ UNCHANGED <<hints, listens, forward, resolv, managed>>
      /\ UNCHANGED <<pc, config, lines, key, servers, result, failures, restarts>>
  BY DEF OtherStarts, OtherStops, nfs, dataset, dns, unbound, copies, locals, world
<1>3. TypeOK'
  <2>1. loaded' \in (0..scenario.keys) \X (0..scenario.keys)
    <3>1. /\ 0 \in 0..scenario.keys /\ keaKey \in 0..scenario.keys
          /\ knotKey \in 0..scenario.keys
      BY Types, Bounds DEF Inv
    <3> QED  BY <1>1, <3>1
  <2> QED  BY <1>1, <1>2, <2>1 DEF Inv, TypeOK
<1>4. /\ ExportsSound' /\ LinesSound' /\ ServersSound' /\ ForwardWritten'
      /\ KeysLeft' /\ AtWork' /\ KeysWritten' /\ JailMade'
  BY <1>2, ScenarioStays DEF Inv, ExportsSound, LinesSound, ServersSound, ForwardWritten,
     KeysLeft, Beginning, AtWork, Asked, KeysWritten, JailMade
<1>5. ForwardsUpstream'
  BY <1>2, <1>4 DEF Inv, ForwardsUpstream, ForwardWritten
<1>6. ASSUME OneThread, NEW u \in Threads
      PROVE  pc[u] = "idle"
  BY <1>1, <1>6, OneAtWork DEF Inv
<1>7. KeysAgree'
  <2>1. SUFFICES ASSUME running', NoneCut({"kea_key", "knot_key"})
                 PROVE  loaded'[1] = loaded'[2]
    BY <1>2, ScenarioStays DEF KeysAgree
  <2>2. OneThread
    BY <2>1 DEF NoneCut
  <2>3. keaKey = knotKey
    BY <1>6, <2>1, <2>2 DEF Inv, KeysWritten, Keying
  <2> QED  BY <1>1, <2>1, <2>3
<1>8. AllInPlace'
  <2>1. ~Agreed
    BY <1>1 DEF Agreed
  <2>2. SUFFICES ASSUME OneThread, NEW u \in Threads
                 PROVE  LastsSince(config[u], pc[u])' /\ InPlace(config[u], pc[u])'
    BY <1>2, <2>1, ScenarioStays DEF AllInPlace
  <2>3. pc'[u] = "idle"
    BY <1>2, <1>6, <2>2
  <2> QED  BY <2>3 DEF InPlace, LastsSince, PastForward, PastUnbound, PastHints, PastStart,
         PastMount, PastServices, PastKeaKey, PastNetwork, PastPackages, PastJail,
         PastExports, PastNfs, PastHost
<1> QED  BY <1>3, <1>4, <1>5, <1>7, <1>8 DEF Inv

(* A lease comes. *)
LEMMA LeaseStep ==
    ASSUME Inv, LeaseRenewed
    PROVE  Inv'
<1>1. /\ UNCHANGED <<scenario, bridge, exports, jail, packages, jailnet, keaKey, knotKey,
                     keys, served, mounts, running, loaded>>
      /\ UNCHANGED <<hints, listens, managed>>
      /\ UNCHANGED <<pc, config, lines, key, servers, result, failures, restarts>>
  BY DEF LeaseRenewed, nfs, dataset, dns, instance, copies, locals, world
<1>2. resolv' \in {{"local"}, {"isp"}} /\ forward' \in {forward, {"isp"}}
  BY DEF LeaseRenewed
<1>3. TypeOK'
  <2>1. forward' \subseteq Servers /\ resolv' \subseteq Servers
    BY <1>2, Types DEF Inv, Servers
  <2> QED  BY <1>1, <2>1 DEF Inv, TypeOK
<1>4. ForwardWritten' /\ ForwardsUpstream'
  <2>1. forward # {} => forward' # {}
    BY <1>2
  <2>2. ForwardWritten'
    BY <1>1, <2>1 DEF Inv, ForwardWritten
  <2>3. "local" \notin forward'
    BY <1>2 DEF Inv, ForwardsUpstream
  <2> QED  BY <2>2, <2>3 DEF ForwardsUpstream, ForwardWritten
<1>5. /\ ExportsSound' /\ LinesSound' /\ ServersSound' /\ KeysLeft' /\ AtWork'
      /\ KeysWritten' /\ KeysAgree' /\ JailMade'
  BY <1>1, ScenarioStays DEF Inv, ExportsSound, LinesSound, ServersSound, KeysLeft,
     Beginning, AtWork, Asked, KeysWritten, KeysAgree, JailMade
<1>6. AllInPlace'
  <2>1. forward # {} => forward' # {}
    BY <1>2
  <2> QED  BY <1>1, <2>1, ScenarioStays DEF Inv, AllInPlace, InPlace, LastsSince
<1> QED  BY <1>3, <1>4, <1>5, <1>6 DEF Inv

(* The daemon dies. *)
LEMMA DeathStep ==
    ASSUME Inv, DaemonDies
    PROVE  Inv'
<1>1. /\ UNCHANGED <<scenario, bridge, exports, jail, packages, jailnet, keaKey, knotKey,
                     keys, mounts, running, loaded>>
      /\ UNCHANGED <<hints, forward, resolv, failures>>
  BY DEF DaemonDies, nfs, dataset, instance
<1>2. scenario.restarts # 0 /\ restarts' \in 0..scenario.restarts
  <2>1. scenario.restarts \in Nat /\ restarts \in Nat
    BY Types, NetworkAssumption DEF Inv
  <2> QED  BY <2>1 DEF DaemonDies
<1>3. \A t \in Threads : pc'[t] = "idle" /\ servers'[t] = {}
  BY DEF DaemonDies
<1>4. TypeOK'
  <2>1. /\ pc' \in [Threads -> PCs] /\ config' \in [Threads -> Configs]
        /\ result' \in [Threads -> {"none", "ok", "error"}]
    BY NoConfigIs DEF DaemonDies, PCs
  <2>2. /\ key' \in [Threads -> 0..scenario.keys] /\ lines' \in [Threads -> Seq(Lines)]
        /\ servers' \in [Threads -> SUBSET Servers]
    BY Types, Bounds, EmptySeq DEF DaemonDies, Inv
  <2>3. served' \subseteq Families /\ listens' \subseteq Families
    BY Types DEF DaemonDies, Left, Inv
  <2>4. managed' \in BOOLEAN
    BY Types DEF DaemonDies, Inv
  <2> QED  BY <1>1, <1>2, <2>1, <2>2, <2>3, <2>4 DEF Inv, TypeOK, Lines
<1>5. \A faults : ~NoneCut(faults)'
  BY <1>1, <1>2 DEF NoneCut
<1>6. ExportsSound' /\ LinesSound' /\ AtWork' /\ KeysWritten' /\ KeysAgree' /\ JailMade'
  BY <1>3, <1>5 DEF ExportsSound, LinesSound, AtWork, KeysWritten, KeysAgree, JailMade,
     Keying
<1>7. ServersSound' /\ ForwardWritten' /\ ForwardsUpstream'
  BY <1>1, <1>2, <1>3 DEF Inv, ServersSound, ForwardWritten, ForwardsUpstream
<1>8. KeysLeft'
  <2>1. PICK C : C = Beginning'
    OBVIOUS
  <2>2. C = {}
    BY <1>3, <2>1 DEF Beginning, BeforeKey
  <2>3. keys' + 0 <= scenario'.keys
    BY <1>1, Types, Bounds DEF Inv
  <2> QED  BY <2>1, <2>2, <2>3, FS_EmptySet DEF KeysLeft
<1>9. AllInPlace'
  BY <1>3 DEF AllInPlace, InPlace, LastsSince, PastForward, PastUnbound, PastHints,
       PastStart, PastMount, PastServices, PastKeaKey, PastNetwork, PastPackages, PastJail,
       PastExports, PastNfs, PastHost
<1> QED  BY <1>4, <1>6, <1>7, <1>8, <1>9 DEF Inv

-----------------------------------------------------------------------------
(* The theorems.                                                               *)

(* It holds at the beginning. *)
LEMMA InvInit == Init => Inv
<1> SUFFICES ASSUME Init
             PROVE  Inv
  OBVIOUS
<1>1. \A t \in Threads : pc[t] = "idle" /\ servers[t] = {}
  BY DEF Init
<1>2. TypeOK
  <2>1. /\ scenario.exports \in Seq(AdminLines \union {"V4"})
        /\ scenario.resolv \subseteq {"local", "isp"}
        /\ scenario.failures \in Nat /\ scenario.restarts \in Nat
        /\ scenario.keys \in Nat /\ scenario \in Scenarios
    BY NetworkAssumption DEF Init
  <2>2. exports \in Seq(FileLines)
    BY <2>1, SeqMonotonic DEF Init, FileLines, Lines
  <2>3. /\ pc \in [Threads -> PCs] /\ config \in [Threads -> Configs]
        /\ result \in [Threads -> {"none", "ok", "error"}]
    BY NoConfigIs DEF Init, PCs
  <2>4. /\ key \in [Threads -> 0..scenario.keys] /\ lines \in [Threads -> Seq(Lines)]
        /\ servers \in [Threads -> SUBSET Servers]
    BY <2>1, EmptySeq DEF Init
  <2>5. /\ bridge \subseteq Families /\ jailnet \subseteq Families
        /\ served \subseteq Families /\ listens \subseteq Families
        /\ jail \in {"none", "partial", "whole"} /\ hints \in {"none", "partial", "whole"}
        /\ packages \in BOOLEAN /\ running \in BOOLEAN /\ managed \in BOOLEAN
    BY DEF Init
  <2>6. /\ keaKey \in 0..scenario.keys /\ knotKey \in 0..scenario.keys
        /\ keys \in 0..scenario.keys
        /\ loaded \in (0..scenario.keys) \X (0..scenario.keys) /\ mounts \in 0..MaxMounts
        /\ failures \in 0..scenario.failures /\ restarts \in 0..scenario.restarts
    BY <2>1, LinesApart DEF Init
  <2>7. forward \subseteq Servers /\ resolv \subseteq Servers
    BY <2>1 DEF Init, Servers
  <2> QED  BY <2>1, <2>2, <2>3, <2>4, <2>5, <2>6, <2>7, Types
<1>3. /\ ExportsSound /\ LinesSound /\ ServersSound /\ AtWork /\ KeysWritten
      /\ KeysAgree
  BY <1>1 DEF Init, ExportsSound, LinesSound, ServersSound, AtWork, KeysWritten, KeysAgree,
              Keying
<1>4. ForwardWritten /\ ForwardsUpstream
  BY <1>1 DEF Init, ForwardWritten, ForwardsUpstream, PastForward
<1>5. KeysLeft
  <2>1. Beginning = {}
    BY <1>1 DEF Beginning, BeforeKey
  <2>2. scenario.keys \in Nat
    BY NetworkAssumption DEF Init
  <2> QED  BY <2>1, <2>2, FS_EmptySet DEF Init, KeysLeft
<1>6. JailMade
  BY <1>1 DEF Init, JailMade, PastJail, PastPackages, PastNetwork, PastKeaKey, PastServices,
       PastMount, PastStart, PastHints, PastUnbound, PastForward
<1>7. AllInPlace
  BY <1>1, IdleInPlace DEF AllInPlace
<1> QED  BY <1>2, <1>3, <1>4, <1>5, <1>6, <1>7 DEF Inv

(* And every step keeps it. *)
LEMMA InvStep == Inv /\ [Next]_vars => Inv'
<1> SUFFICES ASSUME Inv, [Next]_vars
             PROVE  Inv'
  OBVIOUS
<1>1. ASSUME NEW t \in Threads, NEW q \in scenario.inits, Begin(t, q[2])
      PROVE  Inv'
  BY <1>1, BeginStep
<1>2. ASSUME NEW t \in Threads, InitStep(t)
      PROVE  Inv'
  <2>1. TypeOK' /\ AtWork' /\ KeysLeft'
    BY <1>2, InitKeepsTypes, InitKeepsAtWork, InitKeepsKeysLeft DEF Inv
  <2>2. ExportsSound' /\ LinesSound'
    BY <1>2, InitKeepsFiles DEF Inv
  <2>3. ServersSound' /\ ForwardWritten' /\ ForwardsUpstream'
    BY <1>2, InitKeepsForward DEF Inv
  <2>4. KeysWritten' /\ KeysAgree' /\ JailMade'
    BY <1>2, InitKeepsKeys, InitKeepsJailMade DEF Inv
  <2>5. AllInPlace'
    BY <1>2, InitKeepsInPlace DEF Inv
  <2> QED  BY <2>1, <2>2, <2>3, <2>4, <2>5 DEF Inv
<1>3. ASSUME NEW t \in Threads, OtherStarts(t) \/ OtherStops(t)
      PROVE  Inv'
  BY <1>3, OtherStep
<1>4. CASE LeaseRenewed \/ DaemonDies
  BY <1>4, LeaseStep, DeathStep
<1>5. CASE UNCHANGED vars
  <2>1. /\ UNCHANGED <<scenario, bridge, exports, jail, packages, jailnet, keaKey, knotKey,
                       keys, served, mounts, running, loaded>>
        /\ UNCHANGED <<hints, listens, forward, resolv, managed>>
        /\ UNCHANGED <<pc, config, lines, key, servers, result, failures, restarts>>
    BY <1>5 DEF vars, nfs, dataset, dns, instance, unbound, copies, locals, world
  <2>2. TypeOK'
    BY <2>1 DEF Inv, TypeOK
  <2>3. /\ ExportsSound' /\ ForwardsUpstream' /\ KeysLeft' /\ AtWork' /\ LinesSound'
        /\ ServersSound' /\ ForwardWritten'
    BY <2>1, ScenarioStays DEF Inv, ExportsSound, ForwardsUpstream, KeysLeft, Beginning,
       AtWork, Asked, LinesSound, ServersSound, ForwardWritten
  <2>4. KeysWritten' /\ KeysAgree' /\ JailMade'
    BY <2>1, ScenarioStays DEF Inv, KeysWritten, KeysAgree, JailMade
  <2>5. AllInPlace'
    BY <2>1, ScenarioStays DEF Inv, AllInPlace, InPlace, LastsSince
  <2> QED  BY <2>2, <2>3, <2>4, <2>5 DEF Inv
<1> QED  BY <1>1, <1>2, <1>3, <1>4, <1>5 DEF Next

(* The files that init rewrites are sound as far as their writes are not cut short, and
   what an init has passed is in place as far as no other takes it away, for any number
   of clients, with any configurations (network.rs:14-94, 189-215, 620-660). *)
THEOREM InvHolds == Spec => []Inv
<1> QED  BY InvInit, InvStep, PTL DEF Spec

(* Kea signs its updates with the key that Knot expects whenever the jail runs, if one
   client is at work, no write of a key fails and the daemon does not die in one
   (network.rs:196-215). *)
THEOREM KeysAlwaysAgree == Spec => []KeysAgree
<1>1. Inv => KeysAgree
  BY DEF Inv
<1> QED  BY <1>1, InvHolds, PTL

(* Unbound never forwards to itself, whoever is at work and whatever fails; and if one
   client is at work, no write of /etc/exports fails and the daemon does not die in one,
   the file has the administrator's lines in their order and priosun's once, but for the
   moment in which it is written (network.rs:71-94, 620-660). *)
THEOREM FilesAlwaysSound == Spec => [](ExportsSound /\ ForwardsUpstream)
<1>1. Inv => ExportsSound /\ ForwardsUpstream
  BY DEF Inv
<1> QED  BY <1>1, InvHolds, PTL

(* An init succeeds only with its last call; what a step of it leaves in place then. *)
LEMMA SuccessDelivers ==
    ASSUME Inv, NEW t \in Threads, NEW c, config[t] = c, Resolvconf(t),
           result'[t] = "ok"
    PROVE  /\ OneThread => Delivered(c)'
           /\ Agreed => Lasts(c)'
<1>1. Ends(t, "resolvconf", "ok") /\ resolv' = {"local"}
      /\ forward' = IF scenario.lease THEN {"isp"} ELSE forward
  <2>1. ~Fails(t, "resolvconf", "resolvconf")
    <3>1. "error" # "ok"
      OBVIOUS
    <3> QED  BY <3>1, FailIsLocal DEF Inv, PCs
  <2> QED  BY <2>1 DEF Resolvconf
<1>2. pc[t] = "resolvconf"
  BY <1>1 DEF Ends, Returns
<1>3. /\ OneThread \/ Agreed => LastsSince(c, "resolvconf")
      /\ OneThread => InPlace(c, "resolvconf")
  BY <1>2 DEF Inv, AllInPlace
<1>4. /\ UNCHANGED <<bridge, exports, jail, packages, jailnet, served, keaKey>>
      /\ UNCHANGED <<mounts, running, hints, listens, scenario>>
  BY <1>1 DEF Resolvconf, nfs, dataset, dns, instance, Ends, Returns
<1>5. OneThread \/ Agreed => Lasts(c)'
  <2>1. OneThread \/ Agreed =>
           /\ c.families \subseteq bridge /\ jail # "none" /\ packages /\ mounts > 0
           /\ hints # "none"
    BY <1>3 DEF LastsSince, PastForward, PastUnbound, PastHints, PastStart, PastMount,
       PastServices, PastKeaKey, PastNetwork, PastPackages, PastJail, PastExports, PastNfs,
       PastHost
  <2> QED  BY <1>4, <2>1 DEF Lasts
<1>6. OneThread => Delivered(c)'
  <2>1. OneThread =>
           /\ c.projects \in ToSet(exports) /\ jailnet = c.families
           /\ served = c.families /\ keaKey # 0 /\ running /\ listens = c.families
           /\ forward # {}
    BY <1>3 DEF InPlace, PastForward, PastUnbound, PastHints, PastStart, PastMount,
       PastServices, PastKeaKey, PastNetwork, PastPackages, PastJail, PastExports, PastNfs,
       PastHost
  <2>2. NoneCut({"create"}) => jail = "whole"
    BY <1>2 DEF Inv, JailMade, PastJail, PastPackages, PastNetwork, PastKeaKey,
       PastServices, PastMount, PastStart, PastHints, PastUnbound, PastForward
  <2>3. NoneCut({"create"})' => jail' = "whole"
    BY <1>4, <2>2, ScenarioStays
  <2>4. OneThread => forward' # {}
    BY <1>1, <2>1
  <2> QED  BY <1>1, <1>4, <1>5, <2>1, <2>3, <2>4 DEF Delivered
<1> QED  BY <1>5, <1>6

(* Only the last call ends with success. *)
LEMMA OnlyLastSucceeds ==
    ASSUME Inv, NEW t \in Threads, NEW u \in Threads, InitStep(u),
           result[t] # "ok", result'[t] = "ok"
    PROVE  u = t /\ Resolvconf(t)
<1>1. LocalStep(u)
  BY InitIsLocal DEF Inv
<1>2. u = t
  BY <1>1 DEF LocalStep
<1>3. TypeOK
  BY DEF Inv
<1>4. ASSUME NEW from \in PCs, from # "idle", NEW to \in PCs
      PROVE  ~Goes(t, from, to)
  BY DEF Goes
<1>5. ASSUME NEW from \in PCs, from # "idle", NEW fault
      PROVE  ~Fails(t, from, fault)
  BY <1>3, <1>5, FailIsLocal
<1>6. ASSUME NEW from \in PCs, from # "idle"
      PROVE  ~Ends(t, from, "error") /\ ~Breaks(t, from)
  BY <1>3, <1>6, EndIsLocal, BreakIsLocal
<1>7. ASSUME NEW from \in PCs, from # "idle", NEW to \in PCs
      PROVE  ~Step(t, from, to)
  BY <1>4, <1>7 DEF Step
<1> HIDE <1>3
<1> USE <1>4, <1>5, <1>6, <1>7 DEF PCs, BeforeKey
<1>8. ~ConfigureHost(t) /\ ~ReadExports(t) /\ ~EmptyExports(t) /\ ~WriteExports(t)
  BY DEF ConfigureHost, ReadExports, EmptyExports, WriteExports
<1>9. ~LookForJail(t) /\ ~CheckJail(t) /\ ~CreateJail(t) /\ ~UnpackJail(t)
  BY DEF LookForJail, CheckJail, CreateJail, UnpackJail
<1>10. ~InstallPackages(t) /\ ~ConfigureNetwork(t) /\ ~GenerateKey(t) /\ ~WriteKeaKey(t)
  BY DEF InstallPackages, ConfigureNetwork, GenerateKey, WriteKeaKey
<1>11. ~EmptyKnotKey(t) /\ ~WriteKnotKey(t) /\ ~WriteServices(t)
  BY DEF EmptyKnotKey, WriteKnotKey, WriteServices
<1>12. ~MountUnbound(t) /\ ~StartJail(t) /\ ~BootJail(t)
  BY DEF MountUnbound, StartJail, BootJail
<1>13. ~LookForHints(t) /\ ~FetchHints(t) /\ ~WriteUnbound(t) /\ ~EmptyForward(t)
  BY DEF LookForHints, FetchHints, WriteUnbound, EmptyForward
<1>14. ~WriteForward(t) /\ ~WriteResolvconf(t) /\ ~RestartUnbound(t)
  BY DEF WriteForward, WriteResolvconf, RestartUnbound
<1> QED  BY <1>2, <1>8, <1>9, <1>10, <1>11, <1>12, <1>13, <1>14 DEF InitStep

(* Success of the one client means that everything is in place, however many of its inits
   failed half way or had another configuration before; success of one of many that agree
   on the configuration, when no fetch fails and nobody stops the jail, that what none of
   them takes away is in place: the bridge, a dataset of the jail, its packages, the mount
   and the root hints (network.rs:14-42). *)
THEOREM InitAlwaysDelivers == Spec => InitDelivers
<1>1. Inv /\ [Next]_vars =>
        [\A t \in Threads, c \in Configs :
          /\ config[t] = c /\ result[t] # "ok" /\ result'[t] = "ok"
          => /\ OneThread => Delivered(c)'
             /\ Agreed => Lasts(c)']_vars
  <2>1. SUFFICES ASSUME Inv, Next, NEW t \in Threads, NEW c \in Configs,
                        config[t] = c, result[t] # "ok", result'[t] = "ok"
                 PROVE  /\ OneThread => Delivered(c)'
                        /\ Agreed => Lasts(c)'
    OBVIOUS
  <2>2. ASSUME NEW u \in Threads, InitStep(u)
        PROVE  /\ OneThread => Delivered(c)'
               /\ Agreed => Lasts(c)'
    BY <2>1, <2>2, OnlyLastSucceeds, SuccessDelivers
  <2>3. ASSUME NEW u \in Threads, NEW q \in scenario.inits, Begin(u, q[2])
        PROVE  FALSE
    BY <2>1, <2>3, Types DEF Inv, Begin
  <2>4. ASSUME NEW u \in Threads, OtherStarts(u) \/ OtherStops(u)
        PROVE  FALSE
    BY <2>1, <2>4 DEF OtherStarts, OtherStops, locals
  <2>5. CASE LeaseRenewed \/ DaemonDies
    BY <2>1, <2>5 DEF LeaseRenewed, DaemonDies, locals
  <2> QED  BY <2>1, <2>2, <2>3, <2>4, <2>5 DEF Next
<1> QED  BY <1>1, InvHolds, PTL DEF Spec, InitDelivers
=============================================================================
