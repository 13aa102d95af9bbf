---------------------------- MODULE SequenceLemmas ----------------------------
(***************************************************************************)
(* Lemmas about recursion over the positions of a sequence: selections       *)
(* (Selection.tla) and concatenations (FlattenSeq of SequencesExt).         *)
(*                                                                         *)
(* The principle of induction is stated for sets of numbers, and a step of a *)
(* recursion is given as a function, so that the lemmas can be cited without *)
(* an operator for a parameter.                                             *)
(***************************************************************************)
EXTENDS Selection, SequencesExt, WellFoundedInduction, TLAPS

\* A nonempty set of natural numbers has a least element.
LEMMA LeastNatural ==
  ASSUME NEW T \in SUBSET Nat, T # {}
  PROVE  \E m \in T : \A k \in T : m <= k
<1> DEFINE R == {p \in Nat \X Nat : p[1] < p[2]}
<1>1. IsWellFoundedOn(R, Nat)
  BY NatLessThanWellFounded, Zenon DEF OpToRel
<1>2. PICK m \in T : \A k \in T : <<k, m>> \notin R
  <2> HIDE DEF R
  <2> QED
    BY <1>1, WFMin
<1>3. \A k \in T : ~ (k < m)
  BY <1>2
<1> QED
  BY <1>2, <1>3

\* Induction: a set with 0 and, with every number, the next one, has all numbers.
LEMMA Induction ==
  ASSUME NEW S, 0 \in S, \A n \in Nat : n \in S => n + 1 \in S
  PROVE  Nat \subseteq S
<1> SUFFICES ASSUME Nat \ S # {} PROVE FALSE
  OBVIOUS
<1>1. PICK m \in Nat \ S : \A k \in Nat \ S : m <= k
  BY LeastNatural
<1>2. m # 0 /\ m - 1 \in Nat /\ m - 1 \in S
  BY <1>1
<1> QED
  BY <1>1, <1>2

\* f is what comes of n steps from base: step[<<v, i>>] is the value after v in step i.
Iterated(f, n, base, step) ==
    f = [i \in 0..n |-> IF i = 0 THEN base ELSE step[<<f[i - 1], i>>]]

\* An iteration of a function exists, and stays in the range of the function.
LEMMA IterationExists ==
  ASSUME NEW T, NEW base \in T, NEW n \in Nat, NEW step \in [T \X (1..n) -> T]
  PROVE  \E f \in [0..n -> T] : Iterated(f, n, base, step)
<1> DEFINE S == {k \in Nat : k <= n => \E f \in [0..k -> T] : Iterated(f, k, base, step)}
<1>1. 0 \in S
  <2> DEFINE f == [i \in 0..0 |-> base]
  <2>1. f \in [0..0 -> T] /\ Iterated(f, 0, base, step)
    BY DEF Iterated
  <2> QED
    BY <2>1
<1>2. ASSUME NEW k \in Nat, k \in S PROVE k + 1 \in S
  <2> SUFFICES ASSUME k + 1 <= n
               PROVE  \E f \in [0..(k + 1) -> T] : Iterated(f, k + 1, base, step)
    OBVIOUS
  <2>1. PICK g \in [0..k -> T] : Iterated(g, k, base, step)
    BY <1>2
  <2>2. g[0] = base /\ \A i \in 1..k : g[i] = step[<<g[i - 1], i>>]
    BY <2>1 DEF Iterated
  <2> DEFINE f == [i \in 0..(k + 1) |-> IF i <= k THEN g[i] ELSE step[<<g[k], k + 1>>]]
  <2>3. k \in 0..k /\ k + 1 \in 1..n /\ \A i \in 0..(k + 1) : i <= k => i \in 0..k
    OBVIOUS
  <2>4. step[<<g[k], k + 1>>] \in T
    BY <2>1, <2>3
  <2>5. f \in [0..(k + 1) -> T]
    BY <2>3, <2>4
  <2>6. \A i \in 0..(k + 1) : f[i] = IF i = 0 THEN base ELSE step[<<f[i - 1], i>>]
    <3> TAKE i \in 0..(k + 1)
    <3>1. CASE i = 0
      BY <2>2, <3>1
    <3>2. CASE i \in 1..k
      <4>1. f[i] = g[i] /\ f[i - 1] = g[i - 1]
        BY <3>2
      <4> HIDE DEF f
      <4> QED
        BY <2>2, <3>2, <4>1
    <3>3. CASE i = k + 1
      <4>1. f[k + 1] = step[<<g[k], k + 1>>] /\ f[k] = g[k] /\ (k + 1) - 1 = k /\ k + 1 # 0
        BY <2>3
      <4> HIDE DEF f
      <4> QED
        BY <3>3, <4>1
    <3> QED
      BY <3>1, <3>2, <3>3
  <2>7. Iterated(f, k + 1, base, step)
    <3> HIDE DEF f
    <3>1. f = [i \in 0..(k + 1) |-> f[i]]
      BY <2>5
    <3> QED
      BY <2>6, <3>1 DEF Iterated
  <2> QED
    BY <2>5, <2>7
<1>3. n \in S
  <2> HIDE DEF S
  <2> QED
    BY <1>1, <1>2, Induction
<1> QED
  BY <1>3

-----------------------------------------------------------------------------
(***************************************************************************)
(* Selections                                                               *)
(***************************************************************************)

\* What a loop keeps of the first i elements of s.
Keeps(f, s, S) ==
    f = [i \in 0..Len(s) |->
            IF i = 0 THEN <<>>
            ELSE IF s[i] \in S THEN Append(f[i - 1], s[i]) ELSE f[i - 1]]

\* The same, element by element.
KeepsEach(f, s, S) ==
    /\ f[0] = <<>> /\ f = [i \in 0..Len(s) |-> f[i]]
    /\ \A i \in 1..Len(s) : s[i] \in S => f[i] = Append(f[i - 1], s[i])
    /\ \A i \in 1..Len(s) : s[i] \notin S => f[i] = f[i - 1]

LEMMA KeptEach ==
  ASSUME NEW s, Len(s) \in Nat, NEW S, NEW f, Keeps(f, s, S)
  PROVE  KeepsEach(f, s, S)
<1>1. Len(s) \in Nat
  OBVIOUS
<1>2. \A i \in 0..Len(s) :
         f[i] = IF i = 0 THEN <<>>
                ELSE IF s[i] \in S THEN Append(f[i - 1], s[i]) ELSE f[i - 1]
  BY <1>1 DEF Keeps
<1>3. \A i \in 1..Len(s) : f[i] = IF s[i] \in S THEN Append(f[i - 1], s[i]) ELSE f[i - 1]
  <2> TAKE i \in 1..Len(s)
  <2>1. i \in 0..Len(s) /\ i # 0
    BY <1>1
  <2> QED
    BY <1>2, <2>1
<1>4. f[0] = <<>>
  BY <1>1, <1>2
<1>5. f = [i \in 0..Len(s) |-> f[i]]
  BY DEF Keeps
<1> QED
  BY <1>3, <1>4, <1>5 DEF KeepsEach

LEMMA SelectIsKept ==
  ASSUME NEW T, NEW s \in Seq(T), NEW S
  PROVE  \E f \in [0..Len(s) -> Seq(T \cap S)] : Keeps(f, s, S) /\ Select(s, S) = f[Len(s)]
<1> DEFINE step == [z \in Seq(T) \X (1..Len(s)) |->
                      IF s[z[2]] \in S THEN Append(z[1], s[z[2]]) ELSE z[1]]
<1>1. PICK g \in [0..Len(s) -> Seq(T)] : Iterated(g, Len(s), <<>>, step)
  <2>1. step \in [Seq(T) \X (1..Len(s)) -> Seq(T)]
    OBVIOUS
  <2>2. <<>> \in Seq(T) /\ Len(s) \in Nat
    OBVIOUS
  <2> HIDE DEF step
  <2> QED
    BY <2>1, <2>2, IterationExists
<1>2. Keeps(g, s, S)
  <2>1. \A i \in 0..Len(s) :
           g[i] = IF i = 0 THEN <<>>
                  ELSE IF s[i] \in S THEN Append(g[i - 1], s[i]) ELSE g[i - 1]
    <3> TAKE i \in 0..Len(s)
    <3>1. g[i] = IF i = 0 THEN <<>> ELSE step[<<g[i - 1], i>>]
      <4> HIDE DEF step
      <4> QED
        BY <1>1 DEF Iterated
    <3>2. CASE i = 0
      <4> HIDE DEF step
      <4> QED
        BY <3>1, <3>2
    <3>3. CASE i # 0
      <4>1. i - 1 \in 0..Len(s) /\ i \in 1..Len(s)
        BY <3>3
      <4>2. <<g[i - 1], i>> \in Seq(T) \X (1..Len(s))
        BY <1>1, <4>1
      <4> DEFINE z == <<g[i - 1], i>>
      <4>3. step[z] = IF s[z[2]] \in S THEN Append(z[1], s[z[2]]) ELSE z[1]
        BY <4>2
      <4>4. z[1] = g[i - 1] /\ z[2] = i
        OBVIOUS
      <4> HIDE DEF step, z
      <4>5. step[z] = IF s[i] \in S THEN Append(g[i - 1], s[i]) ELSE g[i - 1]
        BY <4>3, <4>4
      <4> QED
        BY <3>1, <3>3, <4>5 DEF z
    <3> QED
      BY <3>2, <3>3
  <2> HIDE DEF step
  <2>2. g = [i \in 0..Len(s) |-> g[i]]
    BY <1>1
  <2> QED
    BY <2>1, <2>2, Zenon DEF Keeps
<1> DEFINE f == CHOOSE f : Keeps(f, s, S)
<1>3. Keeps(f, s, S)
  BY <1>2
<1>4. Select(s, S) = f[Len(s)]
  BY DEF Select, Keeps
<1> HIDE DEF f
<1>5. KeepsEach(f, s, S)
  <2>1. Len(s) \in Nat
    OBVIOUS
  <2> QED
    BY <1>3, <2>1, KeptEach
<1> DEFINE R == {i \in Nat : i <= Len(s) => f[i] \in Seq(T \cap S)}
<1>6. 0 \in R
  <2>1. f[0] = <<>>
    BY <1>5 DEF KeepsEach
  <2>2. <<>> \in Seq(T \cap S)
    OBVIOUS
  <2> HIDE DEF f
  <2> QED
    BY <2>1, <2>2
<1>7. ASSUME NEW i \in Nat, i \in R PROVE i + 1 \in R
  <2> SUFFICES ASSUME i + 1 <= Len(s) PROVE f[i + 1] \in Seq(T \cap S)
    OBVIOUS
  <2>1. f[i] \in Seq(T \cap S) /\ i + 1 \in 1..Len(s) /\ (i + 1) - 1 = i
    BY <1>7
  <2>2. s[i + 1] \in T
    BY <2>1
  <2>3. CASE s[i + 1] \in S
    <3>1. f[i + 1] = Append(f[i], s[i + 1])
      BY <1>5, <2>1, <2>3 DEF KeepsEach
    <3> QED
      BY <2>1, <2>2, <2>3, <3>1
  <2>4. CASE s[i + 1] \notin S
    <3>1. f[i + 1] = f[i]
      BY <1>5, <2>1, <2>4 DEF KeepsEach
    <3> QED
      BY <2>1, <3>1
  <2> QED
    BY <2>3, <2>4
<1>8. \A i \in 0..Len(s) : f[i] \in Seq(T \cap S)
  <2>1. Nat \subseteq R
    <3> HIDE DEF R
    <3> QED
      BY <1>6, <1>7, Induction
  <2> QED
    BY <2>1
<1>9. f \in [0..Len(s) -> Seq(T \cap S)]
  BY <1>5, <1>8 DEF KeepsEach
<1> QED
  BY <1>3, <1>4, <1>9

\* A selection has elements of the set only, at most as many as there were, and is all
\* of the sequence or nothing of it when it should be, or when its length says so.
LEMMA Selections ==
  ASSUME NEW T, NEW s \in Seq(T), NEW S
  PROVE  /\ Select(s, S) \in Seq(T \cap S)
         /\ Len(Select(s, S)) <= Len(s)
         /\ (\A i \in DOMAIN s : s[i] \in S) => Select(s, S) = s
         /\ (\A i \in DOMAIN s : s[i] \notin S) => Select(s, S) = <<>>
         /\ Len(Select(s, S)) = Len(s) => Select(s, S) = s
<1>1. PICK f \in [0..Len(s) -> Seq(T \cap S)] : Keeps(f, s, S) /\ Select(s, S) = f[Len(s)]
  BY SelectIsKept
<1>2. KeepsEach(f, s, S)
  <2>1. Len(s) \in Nat
    OBVIOUS
  <2> QED
    BY <1>1, <2>1, KeptEach
<1> DEFINE All(i) == Len(f[i]) = i /\ \A k \in 1..i : f[i][k] = s[k]
           P(i) == /\ Len(f[i]) <= i
                   /\ (\A k \in 1..i : s[k] \in S) => All(i)
                   /\ (\A k \in 1..i : s[k] \notin S) => f[i] = <<>>
                   /\ Len(f[i]) = i => All(i)
           R == {i \in Nat : i <= Len(s) => P(i)}
<1>3. 0 \in R
  BY <1>2 DEF KeepsEach
<1>4. ASSUME NEW i \in Nat, i \in R PROVE i + 1 \in R
  <2> SUFFICES ASSUME i + 1 <= Len(s) PROVE P(i + 1)
    OBVIOUS
  <2>1. P(i) /\ i + 1 \in 1..Len(s) /\ (i + 1) - 1 = i
    BY <1>4
  <2>2. f[i] \in Seq(T \cap S) /\ Len(f[i]) \in Nat
    BY <2>1
  <2>3. CASE s[i + 1] \in S
    <3>1. f[i + 1] = Append(f[i], s[i + 1])
      BY <1>2, <2>1, <2>3 DEF KeepsEach
    <3>2. /\ Len(f[i + 1]) = Len(f[i]) + 1 /\ f[i + 1][Len(f[i]) + 1] = s[i + 1]
          /\ \A k \in 1..Len(f[i]) : f[i + 1][k] = f[i][k]
      BY <2>2, <3>1, <2>3
    <3>3. All(i) => All(i + 1)
      BY <2>2, <3>2
    <3> QED
      BY <2>1, <2>2, <2>3, <3>2, <3>3
  <2>4. CASE s[i + 1] \notin S
    <3>1. f[i + 1] = f[i]
      BY <1>2, <2>1, <2>4 DEF KeepsEach
    <3> QED
      BY <2>1, <2>2, <2>4, <3>1
  <2> QED
    BY <2>3, <2>4
<1>5. P(Len(s))
  <2>1. Nat \subseteq R
    <3> HIDE DEF R
    <3> QED
      BY <1>3, <1>4, Induction
  <2>2. Len(s) \in R
    BY <2>1
  <2> QED
    BY <2>2
<1>6. f[Len(s)] \in Seq(T \cap S)
  BY <1>1
<1>7. All(Len(s)) => f[Len(s)] = s
  BY <1>6
<1> QED
  BY <1>1, <1>5, <1>6, <1>7

-----------------------------------------------------------------------------
(***************************************************************************)
(* Concatenations                                                           *)
(***************************************************************************)

\* Where the i-th sequence of ss is in s: after position off[i - 1], up to off[i].
PlacesIn(off, ss, s) ==
    /\ off[0] = 0 /\ off[Len(ss)] = Len(s)
    /\ \A i \in 1..Len(ss) : off[i] = off[i - 1] + Len(ss[i])
    /\ \A i, j \in 0..Len(ss) : i <= j => off[i] <= off[j]
    /\ \A i \in 1..Len(ss) : \A k \in 1..Len(ss[i]) :
          off[i - 1] + k \in 1..Len(s) /\ s[off[i - 1] + k] = ss[i][k]
    /\ \A n \in 1..Len(s) : \E i \in 1..Len(ss) : n - off[i - 1] \in 1..Len(ss[i])

\* What the recursion of FlattenSeq says, for each place.
Concatenates(f, ss) ==
    f = [i \in 1..Len(ss) |-> IF i = 1 THEN ss[i] ELSE f[i - 1] \o ss[i]]

LEMMA TwoLengths ==
  ASSUME NEW a \in Nat, NEW b \in Nat
  PROVE  /\ a + b \in Nat /\ a <= a + b
         /\ \A k \in 1..a : k \in 1..(a + b)
         /\ \A k \in 1..b : a + k \in 1..(a + b)
         /\ \A n \in 1..(a + b) : n \in 1..a \/ n - a \in 1..b
OBVIOUS

LEMMA EmptyFirst ==
  ASSUME NEW T, NEW s \in Seq(T)
  PROVE  <<>> \o s = s
OBVIOUS

LEMMA Joined ==
  ASSUME NEW T, NEW s \in Seq(T), NEW t \in Seq(T)
  PROVE  /\ s \o t \in Seq(T) /\ Len(s \o t) = Len(s) + Len(t)
         /\ \A k \in 1..Len(s) : (s \o t)[k] = s[k]
         /\ \A k \in 1..Len(t) : (s \o t)[Len(s) + k] = t[k]
OBVIOUS

\* FlattenSeq joins one sequence after the other.
LEMMA FlattenJoins ==
  ASSUME NEW T, NEW ss \in Seq(Seq(T)), Len(ss) # 0
  PROVE  \E g : /\ g[0] = <<>> /\ g[Len(ss)] = FlattenSeq(ss)
                /\ \A i \in 1..Len(ss) : g[i] = g[i - 1] \o ss[i]
<1> DEFINE step == [z \in Seq(T) \X (1..Len(ss)) |-> z[1] \o ss[z[2]]]
<1>1. PICK h \in [0..Len(ss) -> Seq(T)] : Iterated(h, Len(ss), <<>>, step)
  <2>1. step \in [Seq(T) \X (1..Len(ss)) -> Seq(T)]
    <3> SUFFICES ASSUME NEW z \in Seq(T) \X (1..Len(ss)) PROVE z[1] \o ss[z[2]] \in Seq(T)
      OBVIOUS
    <3>1. z[1] \in Seq(T) /\ ss[z[2]] \in Seq(T)
      OBVIOUS
    <3> QED
      BY <3>1, Joined
  <2>2. <<>> \in Seq(T) /\ Len(ss) \in Nat
    OBVIOUS
  <2> HIDE DEF step
  <2> QED
    BY <2>1, <2>2, IterationExists
<1>2. \A i \in 1..Len(ss) : h[i] = h[i - 1] \o ss[i]
  <2> TAKE i \in 1..Len(ss)
  <2>1. i \in 0..Len(ss) /\ i # 0 /\ i - 1 \in 0..Len(ss)
    OBVIOUS
  <2>2. <<h[i - 1], i>> \in Seq(T) \X (1..Len(ss))
    BY <1>1, <2>1
  <2>3. step[<<h[i - 1], i>>] = h[i - 1] \o ss[i]
    BY <2>2
  <2>4. h[i] = step[<<h[i - 1], i>>]
    <3> HIDE DEF step
    <3> QED
      BY <1>1, <2>1 DEF Iterated
  <2> QED
    BY <2>3, <2>4
<1>3. h[0] = <<>>
  <2> HIDE DEF step
  <2>1. 0 \in 0..Len(ss)
    OBVIOUS
  <2> QED
    BY <1>1, <2>1 DEF Iterated
<1> HIDE DEF step
<1>4. Concatenates([i \in 1..Len(ss) |-> h[i]], ss)
  <2> DEFINE f == [i \in 1..Len(ss) |-> h[i]]
  <2>1. \A i \in 1..Len(ss) : f[i] = IF i = 1 THEN ss[i] ELSE f[i - 1] \o ss[i]
    <3> TAKE i \in 1..Len(ss)
    <3>1. CASE i = 1
      <4>1. h[1] = <<>> \o ss[1] /\ ss[1] \in Seq(T)
        <5>1. h[i] = h[i - 1] \o ss[i] /\ i - 1 = 0 /\ ss[i] \in Seq(T)
          <6>1. i \in 1..Len(ss) /\ i - 1 = 0
            BY <3>1
          <6>2. ss[i] \in Seq(T)
            OBVIOUS
          <6> HIDE DEF f
          <6> QED
            BY <1>2, <6>1, <6>2
        <5> HIDE DEF f
        <5>2. h[i - 1] = <<>>
          BY <1>3, <5>1
        <5> QED
          BY <3>1, <5>1, <5>2
      <4>2. <<>> \o ss[1] = ss[1]
        BY <4>1, EmptyFirst
      <4>3. f[i] = h[i]
        OBVIOUS
      <4> HIDE DEF f
      <4> QED
        BY <3>1, <4>1, <4>2, <4>3
    <3>2. CASE i # 1
      <4>1. i - 1 \in 1..Len(ss)
        BY <3>2
      <4> QED
        BY <1>2, <3>2, <4>1
    <3> QED
      BY <3>1, <3>2
  <2>2. f = [i \in 1..Len(ss) |-> f[i]]
    OBVIOUS
  <2> HIDE DEF f
  <2>3. f = [i \in 1..Len(ss) |-> IF i = 1 THEN ss[i] ELSE f[i - 1] \o ss[i]]
    BY <2>1, <2>2
  <2> QED
    BY <2>3 DEF Concatenates, f
<1> DEFINE f == CHOOSE f : Concatenates(f, ss)
<1>5. Concatenates(f, ss)
  BY <1>4
<1>6. FlattenSeq(ss) = f[Len(ss)]
  BY DEF FlattenSeq, Concatenates
<1> HIDE DEF f
<1> DEFINE g == [i \in 0..Len(ss) |-> IF i = 0 THEN <<>> ELSE f[i]]
<1>7. \A i \in 1..Len(ss) : f[i] = IF i = 1 THEN ss[i] ELSE f[i - 1] \o ss[i]
  BY <1>5 DEF Concatenates
<1>8. \A i \in 1..Len(ss) : g[i] = g[i - 1] \o ss[i]
  <2> TAKE i \in 1..Len(ss)
  <2>1. CASE i = 1
    <3>1. ss[1] \in Seq(T) /\ g[0] = <<>> /\ g[1] = ss[1]
      BY <1>7, <2>1
    <3>2. <<>> \o ss[1] = ss[1]
      BY <3>1, EmptyFirst
    <3>3. i - 1 = 0
      BY <2>1
    <3> HIDE DEF g
    <3> QED
      BY <2>1, <3>1, <3>2, <3>3
  <2>2. CASE i # 1
    <3>1. i - 1 \in 0..Len(ss) /\ i - 1 # 0 /\ i \in 0..Len(ss) /\ i # 0
      BY <2>2
    <3>2. g[i] = f[i] /\ g[i - 1] = f[i - 1]
      BY <3>1
    <3> HIDE DEF g
    <3> QED
      BY <1>7, <2>2, <3>2
  <2> QED
    BY <2>1, <2>2
<1>9. g[0] = <<>> /\ g[Len(ss)] = f[Len(ss)]
  <2>1. 0 \in 0..Len(ss) /\ Len(ss) \in 0..Len(ss)
    OBVIOUS
  <2> QED
    BY <2>1
<1> HIDE DEF g
<1> QED
  BY <1>6, <1>8, <1>9

\* FlattenSeq puts every element of every sequence in its place, and nothing else.
LEMMA Flattening ==
  ASSUME NEW T, NEW ss \in Seq(Seq(T))
  PROVE  /\ FlattenSeq(ss) \in Seq(T)
         /\ \E off \in [0..Len(ss) -> Nat] : PlacesIn(off, ss, FlattenSeq(ss))
<1>1. CASE Len(ss) = 0
  <2>1. FlattenSeq(ss) = <<>> /\ <<>> \in Seq(T) /\ Len(<<>>) = 0
    BY <1>1 DEF FlattenSeq
  <2> DEFINE off == [i \in 0..Len(ss) |-> 0]
  <2>2. PlacesIn(off, ss, <<>>)
    BY <1>1 DEF PlacesIn
  <2>3. off \in [0..Len(ss) -> Nat]
    OBVIOUS
  <2> QED
    BY <2>1, <2>2, <2>3
<1>2. CASE Len(ss) # 0
  <2>1. PICK g : /\ g[0] = <<>> /\ g[Len(ss)] = FlattenSeq(ss)
                 /\ \A i \in 1..Len(ss) : g[i] = g[i - 1] \o ss[i]
    BY <1>2, FlattenJoins
  <2> DEFINE off == [i \in 0..Len(ss) |-> Len(g[i])]
             P(i) == /\ g[i] \in Seq(T)
                     /\ \A j \in 0..i : off[j] <= off[i] /\ off[j] \in Nat
                     /\ \A j \in 1..i : \A k \in 1..Len(ss[j]) :
                           /\ off[j - 1] + k \in 1..Len(g[i])
                           /\ g[i][off[j - 1] + k] = ss[j][k]
                     /\ \A n \in 1..Len(g[i]) : \E j \in 1..i : n - off[j - 1] \in 1..Len(ss[j])
             R == {i \in Nat : i <= Len(ss) => P(i)}
  <2>2. \A i \in 0..Len(ss) : off[i] = Len(g[i])
    OBVIOUS
  <2> HIDE DEF off, P, R
  <2>3. 0 \in R
    <3>1. g[0] = <<>> /\ off[0] = Len(g[0])
      BY <2>1, <2>2
    <3>2. g[0] \in Seq(T) /\ Len(g[0]) = 0
      BY <3>1
    <3>3. P(0)
      BY <3>1, <3>2 DEF P
    <3> QED
      BY <3>3 DEF R
  <2>4. ASSUME NEW i \in Nat, i \in R PROVE i + 1 \in R
    <3> SUFFICES ASSUME i + 1 <= Len(ss) PROVE P(i + 1)
      BY DEF R
    <3>1. i \in 0..Len(ss) /\ i + 1 \in 1..Len(ss) /\ i + 1 \in 0..Len(ss)
      OBVIOUS
    <3>2. P(i)
      BY <2>4 DEF R
    <3>3. ss[i + 1] \in Seq(T) /\ g[i] \in Seq(T) /\ (i + 1) - 1 = i
      BY <3>1, <3>2 DEF P
    <3>4. g[i + 1] = g[i] \o ss[i + 1]
      BY <2>1, <3>1, <3>3
    <3>5. /\ g[i + 1] \in Seq(T) /\ Len(g[i + 1]) = Len(g[i]) + Len(ss[i + 1])
          /\ \A k \in 1..Len(g[i]) : g[i + 1][k] = g[i][k]
          /\ \A k \in 1..Len(ss[i + 1]) : g[i + 1][Len(g[i]) + k] = ss[i + 1][k]
      <4> DEFINE s == g[i] t == ss[i + 1]
      <4>1. s \in Seq(T) /\ t \in Seq(T) /\ g[i + 1] = s \o t
        BY <3>3, <3>4
      <4> HIDE DEF s, t
      <4>2. /\ s \o t \in Seq(T) /\ Len(s \o t) = Len(s) + Len(t)
            /\ \A k \in 1..Len(s) : (s \o t)[k] = s[k]
            /\ \A k \in 1..Len(t) : (s \o t)[Len(s) + k] = t[k]
        BY <4>1, Joined
      <4> QED
        BY <4>1, <4>2 DEF s, t
    <3>6. /\ Len(g[i]) \in Nat /\ Len(ss[i + 1]) \in Nat
          /\ off[i] = Len(g[i]) /\ off[i + 1] = Len(g[i + 1])
      BY <2>2, <3>1, <3>3
    <3>7. LET a == Len(g[i]) b == Len(ss[i + 1])
           IN  /\ a + b \in Nat /\ a <= a + b
               /\ \A k \in 1..a : k \in 1..(a + b)
               /\ \A k \in 1..b : a + k \in 1..(a + b)
               /\ \A n \in 1..(a + b) : n \in 1..a \/ n - a \in 1..b
      BY <3>6, TwoLengths
    <3>8. \A j \in 0..(i + 1) : off[j] <= off[i + 1] /\ off[j] \in Nat
      <4>1. off[i] <= off[i + 1] /\ off[i] \in Nat /\ off[i + 1] \in Nat
        BY <3>5, <3>6, <3>7
      <4>2. \A j \in 0..i : off[j] <= off[i] /\ off[j] \in Nat
        BY <3>2 DEF P
      <4>3. \A j \in 0..(i + 1) : j \in 0..i \/ j = i + 1
        OBVIOUS
      <4> QED
        BY <4>1, <4>2, <4>3
    <3>9. ASSUME NEW j \in 1..(i + 1), NEW k \in 1..Len(ss[j])
          PROVE  off[j - 1] + k \in 1..Len(g[i + 1]) /\ g[i + 1][off[j - 1] + k] = ss[j][k]
      <4>1. CASE j \in 1..i
        <5>1. off[j - 1] + k \in 1..Len(g[i]) /\ g[i][off[j - 1] + k] = ss[j][k]
          BY <3>2, <4>1 DEF P
        <5>2. off[j - 1] + k \in 1..Len(g[i + 1])
          BY <3>5, <3>7, <5>1
        <5>3. g[i + 1][off[j - 1] + k] = g[i][off[j - 1] + k]
          BY <3>5, <5>1
        <5> QED
          BY <5>1, <5>2, <5>3
      <4>2. CASE j = i + 1
        <5>1. k \in 1..Len(ss[i + 1]) /\ off[j - 1] = Len(g[i])
          BY <3>3, <3>6, <4>2
        <5>2. Len(g[i]) + k \in 1..Len(g[i + 1])
          BY <3>5, <3>7, <5>1
        <5> QED
          BY <3>5, <4>2, <5>1, <5>2
      <4> QED
        BY <4>1, <4>2
    <3>10. ASSUME NEW n \in 1..Len(g[i + 1])
          PROVE  \E j \in 1..(i + 1) : n - off[j - 1] \in 1..Len(ss[j])
      <4>1. CASE n \in 1..Len(g[i])
        <5>1. PICK j \in 1..i : n - off[j - 1] \in 1..Len(ss[j])
          BY <3>2, <4>1 DEF P
        <5> QED
          BY <5>1
      <4>2. CASE n \notin 1..Len(g[i])
        <5>1. n \in 1..(Len(g[i]) + Len(ss[i + 1]))
          BY <3>5
        <5>2. n - off[i] \in 1..Len(ss[i + 1])
          BY <3>6, <3>7, <4>2, <5>1
        <5> QED
          BY <3>3, <5>2
      <4> QED
        BY <4>1, <4>2
    <3> QED
      BY <3>5, <3>8, <3>9, <3>10 DEF P
  <2>5. \A i \in 0..Len(ss) : P(i)
    <3>1. Nat \subseteq R
      BY <2>3, <2>4, Induction
    <3>2. \A i \in 0..Len(ss) : i \in R
      BY <3>1
    <3> QED
      BY <3>2 DEF R
  <2>6. Len(ss) \in 0..Len(ss) /\ 0 \in 0..Len(ss)
    OBVIOUS
  <2>7. off \in [0..Len(ss) -> Nat]
    <3>1. \A i \in 0..Len(ss) : off[i] \in Nat
      BY <2>5 DEF P
    <3> QED
      BY <3>1 DEF off
  <2>8. off[0] = 0 /\ off[Len(ss)] = Len(g[Len(ss)])
    BY <2>1, <2>2, <2>6
  <2>9. ASSUME NEW i \in 1..Len(ss) PROVE off[i] = off[i - 1] + Len(ss[i])
    <3>1. i \in 0..Len(ss) /\ i - 1 \in 0..Len(ss)
      OBVIOUS
    <3>2. g[i - 1] \in Seq(T) /\ ss[i] \in Seq(T) /\ g[i] = g[i - 1] \o ss[i]
      <4>1. P(i - 1)
        BY <2>5, <3>1
      <4>2. g[i - 1] \in Seq(T)
        BY <4>1 DEF P
      <4>3. ss[i] \in Seq(T)
        OBVIOUS
      <4>4. g[i] = g[i - 1] \o ss[i]
        BY <2>1
      <4> QED
        BY <4>2, <4>3, <4>4
    <3>3. Len(g[i - 1] \o ss[i]) = Len(g[i - 1]) + Len(ss[i])
      <4> DEFINE s == g[i - 1] t == ss[i]
      <4>1. s \in Seq(T) /\ t \in Seq(T)
        BY <3>2
      <4> HIDE DEF s, t
      <4>2. Len(s \o t) = Len(s) + Len(t)
        BY <4>1
      <4> QED
        BY <4>2 DEF s, t
    <3> QED
      BY <2>2, <3>1, <3>2, <3>3
  <2>10. \A i, j \in 0..Len(ss) : i <= j => off[i] <= off[j]
    BY <2>5 DEF P
  <2>11. P(Len(ss))
    BY <2>5, <2>6
  <2>12. PlacesIn(off, ss, g[Len(ss)])
    BY <2>8, <2>9, <2>10, <2>11 DEF PlacesIn, P
  <2> QED
    BY <2>1, <2>7, <2>11, <2>12 DEF P
<1> QED
  BY <1>1, <1>2
=============================================================================
