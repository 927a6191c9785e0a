----------------------- MODULE FirmwareVersionsProofs ------------------------
(***************************************************************************)
(* Proofs about FirmwareVersions: the order of versions, the list that is  *)
(* kept in it, upgrade paths, retention and rollback targets, for any set  *)
(* of versions and any number of files.                                    *)
(***************************************************************************)
EXTENDS FirmwareVersions, TLAPS, WellFoundedInduction, FiniteSetTheorems, SequenceTheorems

\* Induction along a list: a set that holds 0 and, with each index, the next
\* one, holds all indices.
LEMMA CountUp ==
  ASSUME NEW n \in Nat, NEW S, 0 \in S, \A i \in 1 .. n : i - 1 \in S => i \in S
  PROVE  0 .. n \subseteq S
<1> DEFINE missing == (0 .. n) \ S
<1> SUFFICES ASSUME missing # {} PROVE FALSE
  OBVIOUS
<1>1. missing \subseteq Nat
  BY SMT
<1> HIDE DEF missing
<1>2. PICK x \in missing : \A y \in missing : ~ (<<y, x>> \in OpToRel(<, Nat))
  BY <1>1, NatLessThanWellFounded, WFMin, Zenon
<1>3. \A y \in missing : ~ (y < x)
  BY <1>1, <1>2 DEF OpToRel
<1> USE DEF missing
<1>4. x \in 1 .. n
  BY SMT
<1>5. x - 1 \in 0 .. n /\ x - 1 < x
  BY <1>4, SMT
<1>6. x - 1 \in S
  BY <1>3, <1>5
<1> QED
  BY <1>4, <1>6

\* f is defined by recursion along 1 .. n, from base by one step after another.
Recursive(f, n, T, base, step) ==
  /\ f \in [0 .. n -> T]
  /\ f[0] = base /\ \A i \in 1 .. n : f[i] = step[i][f[i - 1]]

\* A definition by recursion along a list defines a function.
LEMMA Recursion ==
  ASSUME NEW n \in Nat, NEW T, NEW base \in T, NEW step,
         \A i \in 1 .. n : \A x \in T : step[i][x] \in T
  PROVE  \E f : Recursive(f, n, T, base, step)
<1> DEFINE Defines(f, m) == f[0] = base /\ \A i \in 1 .. m : f[i] = step[i][f[i - 1]]
           S == {m \in 0 .. n : \E f \in [0 .. m -> T] : Defines(f, m)}
<1>1. 0 \in S
  <2> DEFINE f == [i \in 0 .. 0 |-> base]
  <2>1. f \in [0 .. 0 -> T] /\ f[0] = base
    BY SMT
  <2>2. Defines(f, 0)
    BY <2>1, SMT
  <2> HIDE DEF f, Defines
  <2> QED
    BY <2>1, <2>2, SMT
<1>2. ASSUME NEW m \in 1 .. n, m - 1 \in S PROVE m \in S
  <2>1. PICK f \in [0 .. m - 1 -> T] : Defines(f, m - 1)
    BY <1>2
  <2>2. f[m - 1] \in T /\ m \in 1 .. n
    BY SMT
  <2> DEFINE g == [i \in 0 .. m |-> IF i = m THEN step[m][f[m - 1]] ELSE f[i]]
  <2>3. step[m][f[m - 1]] \in T
    BY <2>2
  <2>4. \A i \in 0 .. m : i # m => i \in 0 .. m - 1
    BY SMT
  <2>5. g \in [0 .. m -> T]
    BY <2>3, <2>4
  <2>6. g[m] = step[m][f[m - 1]] /\ \A i \in 0 .. m - 1 : g[i] = f[i]
    BY SMT
  <2> HIDE DEF g
  <2>7. g[0] = base
    BY <2>1, <2>6, SMT
  <2>8. ASSUME NEW i \in 1 .. m PROVE g[i] = step[i][g[i - 1]]
    <3>1. CASE i = m
      <4>1. g[i - 1] = f[m - 1]
        BY <2>6, <3>1, SMT
      <4> QED
        BY <2>6, <3>1, <4>1
    <3>2. CASE i # m
      <4>1. i \in 1 .. m - 1 /\ i \in 0 .. m - 1 /\ i - 1 \in 0 .. m - 1
        BY <3>2, SMT
      <4> QED
        BY <2>1, <2>6, <4>1
    <3> QED
      BY <3>1, <3>2
  <2>9. m \in 0 .. n
    BY SMT
  <2> QED
    BY <2>5, <2>7, <2>8, <2>9
<1> HIDE DEF S
<1>3. 0 .. n \subseteq S
  BY <1>1, <1>2, CountUp
<1>4. n \in S
  BY <1>3, SMT
<1> QED
  BY <1>4 DEF S, Recursive

-----------------------------------------------------------------------------
\* The elements of two sequences that are joined.
LEMMA Joined ==
  ASSUME NEW S, NEW s \in Seq(S), NEW t \in Seq(S)
  PROVE  /\ s \o t \in Seq(S) /\ Len(s \o t) = Len(s) + Len(t)
         /\ \A i \in 1 .. Len(s) : (s \o t)[i] = s[i]
         /\ \A i \in 1 .. Len(t) : (s \o t)[Len(s) + i] = t[i]
<1>1. Len(s) \in Nat /\ Len(t) \in Nat
  OBVIOUS
<1>2. /\ s \o t \in Seq(S) /\ Len(s \o t) = Len(s) + Len(t)
      /\ \A i \in 1 .. Len(s) + Len(t) :
           (s \o t)[i] = IF i <= Len(s) THEN s[i] ELSE t[i - Len(s)]
  BY ConcatProperties
<1>3. ASSUME NEW i \in 1 .. Len(s) PROVE (s \o t)[i] = s[i]
  <2>1. i \in 1 .. Len(s) + Len(t) /\ i <= Len(s)
    BY <1>1, SMT
  <2> QED
    BY <1>2, <2>1
<1>4. ASSUME NEW i \in 1 .. Len(t) PROVE (s \o t)[Len(s) + i] = t[i]
  <2>1. /\ Len(s) + i \in 1 .. Len(s) + Len(t) /\ ~(Len(s) + i <= Len(s))
        /\ (Len(s) + i) - Len(s) = i
    BY <1>1, SMT
  <2> QED
    BY <1>2, <2>1
<1> QED
  BY <1>2, <1>3, <1>4

\* No tuple is less than itself, as Python compares tuples of numbers.
LEMMA LexIrreflexive ==
  ASSUME NEW s \in Seq(Int)
  PROVE  ~LexLess(s, s, Below)
<1> SUFFICES ASSUME NEW n \in 0 .. Len(s) - 1, n < Len(s) => s[n + 1] < s[n + 1]
             PROVE  FALSE
  BY DEF LexLess, Below
<1>1. Len(s) \in Nat
  OBVIOUS
<1>2. n < Len(s) /\ n + 1 \in 1 .. Len(s)
  BY <1>1, SMT
<1>3. s[n + 1] \in Int
  BY <1>2
<1> QED
  BY <1>2, <1>3, SMT

\* It is transitive.
LEMMA LexTransitive ==
  ASSUME NEW s \in Seq(Int), NEW t \in Seq(Int), NEW u \in Seq(Int),
         LexLess(s, t, Below), LexLess(t, u, Below)
  PROVE  LexLess(s, u, Below)
<1>1. PICK n \in 0 .. Len(t) - 1 :
        /\ n <= Len(s) /\ \A i \in 1 .. n : s[i] = t[i]
        /\ n < Len(s) => s[n + 1] < t[n + 1]
  BY DEF LexLess, Below
<1>2. PICK m \in 0 .. Len(u) - 1 :
        /\ m <= Len(t) /\ \A i \in 1 .. m : t[i] = u[i]
        /\ m < Len(t) => t[m + 1] < u[m + 1]
  BY DEF LexLess, Below
<1>3. Len(s) \in Nat /\ Len(t) \in Nat /\ Len(u) \in Nat /\ n \in Nat /\ m \in Nat
  BY SMT
<1>4. /\ \A i \in 1 .. Len(s) : s[i] \in Int
      /\ \A i \in 1 .. Len(t) : t[i] \in Int
      /\ \A i \in 1 .. Len(u) : u[i] \in Int
  OBVIOUS
<1>5. CASE n <= m
  <2>1. n \in 0 .. Len(u) - 1 /\ n <= Len(s) /\ \A i \in 1 .. n : s[i] = u[i]
    BY <1>1, <1>2, <1>3, <1>5, SMT
  <2>2. ASSUME n < Len(s) PROVE s[n + 1] < u[n + 1]
    <3>1. n + 1 \in 1 .. Len(s) /\ n + 1 \in 1 .. Len(t) /\ n + 1 \in 1 .. Len(u)
      BY <1>2, <1>3, <1>5, <2>2, SMT
    <3>2. s[n + 1] < t[n + 1] /\ s[n + 1] \in Int /\ t[n + 1] \in Int /\ u[n + 1] \in Int
      <4>1. s[n + 1] < t[n + 1]
        BY <1>1, <2>2
      <4>2. s[n + 1] \in Int /\ t[n + 1] \in Int /\ u[n + 1] \in Int
        BY <1>4, <3>1
      <4> QED
        BY <4>1, <4>2
    <3>3. CASE n < m
      <4>1. t[n + 1] = u[n + 1]
        BY <1>2, <1>3, <3>3, SMT
      <4> QED
        BY <3>2, <4>1
    <3>4. CASE n = m
      <4>1. t[n + 1] < u[n + 1]
        BY <1>2, <1>3, <3>1, <3>4, SMT
      <4> QED
        BY <3>2, <4>1, SMT
    <3> QED
      BY <1>3, <1>5, <3>3, <3>4, SMT
  <2> QED
    BY <2>1, <2>2 DEF LexLess, Below
<1>6. CASE m < n
  <2>1. m \in 0 .. Len(u) - 1 /\ m <= Len(s) /\ \A i \in 1 .. m : s[i] = u[i]
    <3>1. m \in 0 .. Len(u) - 1 /\ m <= Len(s)
      BY <1>1, <1>3, <1>6, SMT
    <3>2. \A i \in 1 .. m : i \in 1 .. n
      BY <1>3, <1>6, SMT
    <3> QED
      BY <1>1, <1>2, <3>1, <3>2
  <2>2. s[m + 1] = t[m + 1] /\ t[m + 1] < u[m + 1]
    BY <1>1, <1>2, <1>3, <1>6, SMT
  <2> QED
    BY <2>1, <2>2 DEF LexLess, Below
<1> QED
  BY <1>3, <1>5, <1>6, SMT

\* s and t have the same first n elements.
Alike(s, t, n) == \A i \in 1 .. n : s[i] = t[i]

\* One list begins with the other, or there is a first difference.
LEMMA FirstDifference ==
  ASSUME NEW T, NEW s \in Seq(T), NEW t \in Seq(T)
  PROVE  \/ Len(s) <= Len(t) /\ Alike(s, t, Len(s))
         \/ Len(t) < Len(s) /\ Alike(s, t, Len(t))
         \/ \E n \in Nat : /\ n + 1 \in 1 .. Len(s) /\ n + 1 \in 1 .. Len(t)
                           /\ Alike(s, t, n) /\ s[n + 1] # t[n + 1]
<1>1. Len(s) \in Nat /\ Len(t) \in Nat
  OBVIOUS
<1> DEFINE shorter == IF Len(s) <= Len(t) THEN Len(s) ELSE Len(t)
           S == {m \in 0 .. shorter :
                   \/ Alike(s, t, m)
                   \/ \E n \in 0 .. m - 1 : Alike(s, t, n) /\ s[n + 1] # t[n + 1]}
<1>2. shorter \in Nat /\ shorter <= Len(s) /\ shorter <= Len(t)
  BY <1>1, SMT
<1> HIDE DEF shorter
<1>3. 0 \in S
  BY <1>2, SMT DEF Alike
<1>4. ASSUME NEW m \in 1 .. shorter, m - 1 \in S PROVE m \in S
  <2>1. m \in 0 .. shorter
    BY <1>2, SMT
  <2>2. CASE \E n \in 0 .. m - 2 : Alike(s, t, n) /\ s[n + 1] # t[n + 1]
    <3>1. PICK n \in 0 .. m - 2 : Alike(s, t, n) /\ s[n + 1] # t[n + 1]
      BY <2>2
    <3>2. n \in 0 .. m - 1
      BY SMT
    <3> QED
      BY <2>1, <3>1, <3>2
  <2>3. CASE Alike(s, t, m - 1)
    <3>1. CASE s[m] = t[m]
      <4>1. Alike(s, t, m)
        BY <2>3, <3>1, SMT DEF Alike
      <4> QED
        BY <2>1, <4>1
    <3>2. CASE s[m] # t[m]
      <4>1. m - 1 \in 0 .. m - 1 /\ (m - 1) + 1 = m
        BY SMT
      <4> QED
        BY <2>1, <2>3, <3>2, <4>1
    <3> QED
      BY <3>1, <3>2
  <2> QED
    BY <1>4, <2>2, <2>3, SMT
<1>5. shorter \in S
  <2> HIDE DEF S
  <2>1. 0 .. shorter \subseteq S
    BY <1>2, <1>3, <1>4, CountUp
  <2> QED
    BY <1>2, <2>1, SMT
<1>6. CASE \E n \in 0 .. shorter - 1 : Alike(s, t, n) /\ s[n + 1] # t[n + 1]
  <2>1. PICK n \in 0 .. shorter - 1 : Alike(s, t, n) /\ s[n + 1] # t[n + 1]
    BY <1>6
  <2>2. n \in Nat /\ n + 1 \in 1 .. Len(s) /\ n + 1 \in 1 .. Len(t)
    BY <1>1, <1>2, SMT
  <2> QED
    BY <2>1, <2>2
<1>7. CASE Alike(s, t, shorter)
  <2>1. CASE Len(s) <= Len(t)
    BY <1>7, <2>1 DEF shorter
  <2>2. CASE ~(Len(s) <= Len(t))
    <3>1. shorter = Len(t) /\ Len(t) < Len(s)
      BY <1>1, <2>2, SMT DEF shorter
    <3> QED
      BY <1>7, <3>1
  <2> QED
    BY <2>1, <2>2
<1> QED
  BY <1>5, <1>6, <1>7

\* Two different tuples are ordered one way or the other.
LEMMA LexTotal ==
  ASSUME NEW s \in Seq(Int), NEW t \in Seq(Int), s # t
  PROVE  LexLess(s, t, Below) \/ LexLess(t, s, Below)
<1>1. Len(s) \in Nat /\ Len(t) \in Nat
  OBVIOUS
<1>2. CASE Len(s) <= Len(t) /\ Alike(s, t, Len(s))
  <2>1. Len(s) # Len(t)
    BY <1>2, SeqEqual DEF Alike
  <2>2. Len(s) \in 0 .. Len(t) - 1 /\ ~(Len(s) < Len(s)) /\ Len(s) <= Len(s)
    BY <1>1, <1>2, <2>1, SMT
  <2> QED
    BY <1>2, <2>2 DEF LexLess, Alike
<1>3. CASE Len(t) < Len(s) /\ Alike(s, t, Len(t))
  <2>1. Len(t) \in 0 .. Len(s) - 1 /\ ~(Len(t) < Len(t)) /\ Len(t) <= Len(t)
    BY <1>1, <1>3, SMT
  <2> QED
    BY <1>3, <2>1 DEF LexLess, Alike
<1>4. CASE \E n \in Nat : /\ n + 1 \in 1 .. Len(s) /\ n + 1 \in 1 .. Len(t)
                          /\ Alike(s, t, n) /\ s[n + 1] # t[n + 1]
  <2>1. PICK n \in Nat : /\ n + 1 \in 1 .. Len(s) /\ n + 1 \in 1 .. Len(t)
                         /\ Alike(s, t, n) /\ s[n + 1] # t[n + 1]
    BY <1>4
  <2>2. n \in 0 .. Len(s) - 1 /\ n \in 0 .. Len(t) - 1 /\ n <= Len(s) /\ n <= Len(t)
    BY <1>1, <2>1, SMT
  <2>3. s[n + 1] \in Int /\ t[n + 1] \in Int
    BY <2>1
  <2>4. s[n + 1] < t[n + 1] \/ t[n + 1] < s[n + 1]
    BY <2>1, <2>3, SMT
  <2> QED
    BY <2>1, <2>2, <2>4 DEF LexLess, Below, Alike
<1> QED
  BY <1>2, <1>3, <1>4, FirstDifference

-----------------------------------------------------------------------------
\* text are the strings that spelling out a pre-release goes through.
Spelling(text, pre) ==
  /\ text \in [0 .. Len(pre) -> Seq(Nat)]
  /\ Text(pre) = text[Len(pre)] /\ text[0] = << >>
  /\ \A i \in 1 .. Len(pre) :
       text[i] = IF i = 1 THEN pre[1] ELSE text[i - 1] \o <<Dot>> \o pre[i]

\* The string of a pre-release, built up identifier by identifier.
LEMMA TextDef ==
  ASSUME NEW pre \in Seq(Seq(Nat))
  PROVE  \E text : Spelling(text, pre)
<1> DEFINE N == Len(pre)
           Longer(text, i) == IF i = 1 THEN pre[1] ELSE text \o <<Dot>> \o pre[i]
           step == [i \in 1 .. N |-> [t \in Seq(Nat) |-> Longer(t, i)]]
           text == CHOOSE f : f = [i \in 0 .. N |->
                     IF i = 0 THEN << >>
                     ELSE IF i = 1 THEN pre[1] ELSE f[i - 1] \o <<Dot>> \o pre[i]]
<1>1. N \in Nat /\ \A i \in 1 .. N : pre[i] \in Seq(Nat)
  OBVIOUS
<1>2. \A t \in Seq(Nat), i \in 1 .. N : Longer(t, i) \in Seq(Nat)
  <2> SUFFICES ASSUME NEW t \in Seq(Nat), NEW i \in 1 .. N PROVE Longer(t, i) \in Seq(Nat)
    OBVIOUS
  <2>1. pre[i] \in Seq(Nat) /\ <<Dot>> \in Seq(Nat) /\ pre[1] \in Seq(Nat)
    BY <1>1, SMT DEF Dot
  <2>2. t \o <<Dot>> \in Seq(Nat)
    BY <2>1, ConcatProperties
  <2> QED
    BY <2>1, <2>2, ConcatProperties
<1>3. \A i \in 1 .. N : \A t \in Seq(Nat) : step[i][t] \in Seq(Nat)
  BY <1>2
<1>4. \A t \in Seq(Nat), i \in 1 .. N : step[i][t] = Longer(t, i)
  OBVIOUS
<1>5. << >> \in Seq(Nat)
  OBVIOUS
<1> HIDE DEF N, Longer, step
<1>6. PICK f \in [0 .. N -> Seq(Nat)] :
        f[0] = << >> /\ \A i \in 1 .. N : f[i] = step[i][f[i - 1]]
  <2> DEFINE none == << >>
             T == Seq(Nat)
  <2>1. N \in Nat /\ none \in T /\ \A i \in 1 .. N : \A t \in T : step[i][t] \in T
    BY <1>1, <1>3, <1>5
  <2> HIDE DEF none, T
  <2>2. \E f : Recursive(f, N, T, none, step)
    BY <2>1, Recursion
  <2> QED
    BY <2>2 DEF none, T, Recursive
<1>7. f = [i \in 0 .. N |->
             IF i = 0 THEN << >>
             ELSE IF i = 1 THEN pre[1] ELSE f[i - 1] \o <<Dot>> \o pre[i]]
  <2> SUFFICES ASSUME NEW i \in 0 .. N
               PROVE  f[i] = IF i = 0 THEN << >>
                             ELSE IF i = 1 THEN pre[1] ELSE f[i - 1] \o <<Dot>> \o pre[i]
    OBVIOUS
  <2>1. CASE i = 0
    BY <1>6, <2>1
  <2>2. CASE i # 0
    <3>1. i \in 1 .. N /\ i - 1 \in 0 .. N
      BY <1>1, <2>2, SMT
    <3>2. f[i] = Longer(f[i - 1], i)
      BY <1>4, <1>6, <3>1
    <3> QED
      BY <2>2, <3>2 DEF Longer
  <2> QED
    BY <2>1, <2>2
<1>8. text = [i \in 0 .. N |->
                IF i = 0 THEN << >>
                ELSE IF i = 1 THEN pre[1] ELSE text[i - 1] \o <<Dot>> \o pre[i]]
  BY <1>7
<1>9. Text(pre) = text[N]
  BY DEF Text, N
<1> HIDE DEF text
<1>10. text[0] = << >> /\ \A i \in 1 .. N : text[i] = Longer(text[i - 1], i)
  <2>1. 0 \in 0 .. N /\ \A i \in 1 .. N : i \in 0 .. N /\ i # 0
    BY <1>1, SMT
  <2> QED
    BY <1>8, <2>1 DEF Longer
<1>11. \A i \in 0 .. N : text[i] \in Seq(Nat)
  <2> DEFINE S == {i \in 0 .. N : text[i] \in Seq(Nat)}
  <2>1. 0 \in S
    <3>1. 0 \in 0 .. N
      BY <1>1, SMT
    <3> QED
      BY <1>5, <1>10, <3>1
  <2>2. ASSUME NEW i \in 1 .. N, i - 1 \in S PROVE i \in S
    <3>1. i \in 0 .. N
      BY <1>1, SMT
    <3> QED
      BY <1>2, <1>10, <2>2, <3>1
  <2> HIDE DEF S
  <2>3. 0 .. N \subseteq S
    BY <1>1, <2>1, <2>2, CountUp
  <2> QED
    BY <2>3 DEF S
<1>12. text \in [0 .. N -> Seq(Nat)]
  <2>1. text = [i \in 0 .. N |-> text[i]]
    BY <1>8
  <2> QED
    BY <1>11, <2>1
<1>13. Text(pre) = text[N] /\ text[0] = << >>
       /\ \A i \in 1 .. N :
            text[i] = IF i = 1 THEN pre[1] ELSE text[i - 1] \o <<Dot>> \o pre[i]
  BY <1>9, <1>10 DEF Longer
<1>14. Spelling(text, pre)
  BY <1>12, <1>13, Zenon DEF N, Spelling
<1> QED
  BY <1>14

\* What requests name as versions.
Semantic == [major : Nat, minor : Nat, patch : Nat, pre : Seq(Seq(Nat)), build : Nat,
             spelling : Nat]

\* The tuple versions are compared by, entry by entry.
LEMMA TupleEntries ==
  ASSUME NEW v \in Semantic
  PROVE  LET tuple == ComparisonTuple(v)
         IN  /\ tuple \in Seq(Int) /\ Text(v.pre) \in Seq(Nat)
             /\ Len(tuple) = 4 + Len(Text(v.pre))
             /\ tuple[1] = v.major /\ tuple[2] = v.minor /\ tuple[3] = v.patch
             /\ tuple[4] = IF v.pre = << >> THEN 1 ELSE 0
             /\ \A i \in 1 .. Len(Text(v.pre)) : tuple[4 + i] = Text(v.pre)[i]
<1>1. /\ v.major \in Nat /\ v.minor \in Nat /\ v.patch \in Nat
      /\ v.pre \in Seq(Seq(Nat))
  BY DEF Semantic
<1>2. Text(v.pre) \in Seq(Nat)
  <2>1. PICK text : Spelling(text, v.pre)
    BY <1>1, TextDef
  <2>2. Len(v.pre) \in 0 .. Len(v.pre)
    BY <1>1, SMT
  <2> QED
    BY <2>1, <2>2 DEF Spelling
<1> DEFINE core == <<v.major, v.minor, v.patch>>
           flag == IF v.pre = << >> THEN 1 ELSE 0
           last == <<flag>>
           text == Text(v.pre)
<1>3. text \in Seq(Int)
  BY <1>2
<1>4. /\ core \in Seq(Int) /\ Len(core) = 3
      /\ core[1] = v.major /\ core[2] = v.minor /\ core[3] = v.patch
  BY <1>1
<1>5. last \in Seq(Int) /\ Len(last) = 1 /\ last[1] = flag
  OBVIOUS
<1> HIDE DEF core, flag, last, text
<1> DEFINE head == core \o last
<1>6. /\ head \in Seq(Int) /\ Len(head) = 4
      /\ head[1] = core[1] /\ head[2] = core[2] /\ head[3] = core[3] /\ head[4] = flag
  <2>1. core \in Seq(Int) /\ last \in Seq(Int)
    BY <1>4, <1>5
  <2>2. /\ core \o last \in Seq(Int) /\ Len(core \o last) = Len(core) + Len(last)
        /\ \A i \in 1 .. Len(core) : (core \o last)[i] = core[i]
        /\ \A i \in 1 .. Len(last) : (core \o last)[Len(core) + i] = last[i]
    <3>1. core \o last \in Seq(Int) /\ Len(core \o last) = Len(core) + Len(last)
      BY <2>1, Joined, Zenon
    <3>2. \A i \in 1 .. Len(core) : (core \o last)[i] = core[i]
      BY <2>1, Joined, Zenon
    <3>3. ASSUME NEW i \in 1 .. Len(last) PROVE (core \o last)[Len(core) + i] = last[i]
      BY <2>1, <3>3, Joined, SMT
    <3> QED
      BY <3>1, <3>2, <3>3
  <2> HIDE DEF head
  <2>3. 1 \in 1 .. 3 /\ 2 \in 1 .. 3 /\ 3 \in 1 .. 3 /\ 1 \in 1 .. 1 /\ 3 + 1 = 4
    BY SMT
  <2>4. Len(core) = 3
    BY <1>4
  <2>5. Len(last) = 1 /\ last[1] = flag
    BY <1>5
  <2>6. (core \o last)[1] = core[1] /\ (core \o last)[2] = core[2] /\ (core \o last)[3] = core[3]
    BY <2>2, <2>3, <2>4, Zenon
  <2>7. (core \o last)[4] = flag
    BY <2>2, <2>3, <2>4, <2>5, Zenon
  <2>8. Len(core \o last) = 4
    BY <2>2, <2>3, <2>4, <2>5, Zenon
  <2> QED
    BY <2>2, <2>6, <2>7, <2>8, Zenon DEF head
<1> HIDE DEF head
<1>7. /\ head \o text \in Seq(Int) /\ Len(head \o text) = 4 + Len(text)
      /\ \A i \in 1 .. 4 : (head \o text)[i] = head[i]
      /\ \A i \in 1 .. Len(text) : (head \o text)[4 + i] = text[i]
  <2>1. head \in Seq(Int) /\ text \in Seq(Int)
    BY <1>3, <1>6
  <2>2. /\ head \o text \in Seq(Int) /\ Len(head \o text) = Len(head) + Len(text)
        /\ \A i \in 1 .. Len(head) : (head \o text)[i] = head[i]
        /\ \A i \in 1 .. Len(text) : (head \o text)[Len(head) + i] = text[i]
    <3>1. head \o text \in Seq(Int) /\ Len(head \o text) = Len(head) + Len(text)
      BY <2>1, Joined, Zenon
    <3>2. \A i \in 1 .. Len(head) : (head \o text)[i] = head[i]
      BY <2>1, Joined, Zenon
    <3>3. ASSUME NEW i \in 1 .. Len(text) PROVE (head \o text)[Len(head) + i] = text[i]
      BY <2>1, <3>3, Joined, SMT
    <3> QED
      BY <3>1, <3>2, <3>3
  <2>3. Len(head) = 4
    BY <1>6
  <2> QED
    BY <2>2, <2>3, Zenon
<1>9. ComparisonTuple(v) = head \o text
  BY DEF ComparisonTuple, Core, head, core, flag, last, text
<1>8. /\ head[1] = v.major /\ head[2] = v.minor /\ head[3] = v.patch /\ head[4] = flag
  BY <1>4, <1>6
<1>10. 1 \in 1 .. 4 /\ 2 \in 1 .. 4 /\ 3 \in 1 .. 4 /\ 4 \in 1 .. 4
  BY SMT
<1> QED
  BY <1>2, <1>7, <1>8, <1>9, <1>10 DEF text, flag


\* The order of versions is a strict weak order, and versions that neither
\* comes before the other are the same (__lt__, __eq__ of SemanticVersion).
LEMMA LessOrder ==
  ASSUME NEW u \in Semantic, NEW v \in Semantic, NEW w \in Semantic
  PROVE  /\ ~Less(u, u)
         /\ Less(u, v) /\ Less(v, w) => Less(u, w)
         /\ Less(u, v) \/ Same(u, v) \/ Less(v, u)
         /\ Same(u, v) => Same(v, u) /\ ~Less(u, v)
         /\ Same(u, v) /\ Less(v, w) => Less(u, w)
         /\ Less(u, v) /\ Same(v, w) => Less(u, w)
<1>1. /\ ComparisonTuple(u) \in Seq(Int) /\ ComparisonTuple(v) \in Seq(Int)
      /\ ComparisonTuple(w) \in Seq(Int)
  BY TupleEntries
<1>2. ~Less(u, u)
  BY <1>1, LexIrreflexive DEF Less
<1>3. Less(u, v) /\ Less(v, w) => Less(u, w)
  BY <1>1, LexTransitive DEF Less
<1>4. Less(u, v) \/ Same(u, v) \/ Less(v, u)
  BY <1>1, LexTotal DEF Less, Same
<1>5. Same(u, v) => Same(v, u) /\ ~Less(u, v)
  BY <1>2 DEF Less, Same
<1>6. /\ Same(u, v) /\ Less(v, w) => Less(u, w)
      /\ Less(u, v) /\ Same(v, w) => Less(u, w)
  BY DEF Less, Same
<1> QED
  BY <1>2, <1>3, <1>4, <1>5, <1>6

\* What UpgradeType compares first agrees with the order.
LEMMA LessMajor ==
  ASSUME NEW u \in Semantic, NEW v \in Semantic
  PROVE  (Less(u, v) \/ Same(u, v)) => u.major <= v.major
<1> DEFINE s == ComparisonTuple(u)
           t == ComparisonTuple(v)
<1>1. u.major \in Nat /\ v.major \in Nat
  BY DEF Semantic
<1>2. s[1] = u.major /\ t[1] = v.major /\ Len(s) = 4 + Len(Text(u.pre))
      /\ Text(u.pre) \in Seq(Nat)
  BY TupleEntries
<1>3. Len(Text(u.pre)) \in Nat
  BY <1>2
<1>4. CASE Same(u, v)
  BY <1>1, <1>2, <1>4 DEF Same
<1>5. CASE Less(u, v)
  <2> HIDE DEF s, t
  <2>1. PICK n \in 0 .. Len(t) - 1 :
          /\ \A i \in 1 .. n : s[i] = t[i]
          /\ n < Len(s) => s[n + 1] < t[n + 1]
    BY <1>5 DEF Less, LexLess, Below, s, t
  <2>2. n \in Nat
    BY SMT
  <2>3. CASE n = 0
    BY <1>1, <1>2, <1>3, <2>1, <2>3, SMT
  <2>4. CASE n # 0
    BY <1>1, <1>2, <2>1, <2>2, <2>4, SMT
  <2> QED
    BY <2>3, <2>4
<1> QED
  BY <1>4, <1>5

-----------------------------------------------------------------------------
\* kept are the lists that filtering s by S goes through.
Filtering(kept, s, S, T) ==
  /\ kept \in [0 .. Len(s) -> Seq(T)]
  /\ Filter(s, S) = kept[Len(s)] /\ kept[0] = << >>
  /\ \A i \in 1 .. Len(s) :
       kept[i] = IF s[i] \in S THEN Append(kept[i - 1], s[i]) ELSE kept[i - 1]

\* A filtered list, built up element by element.
LEMMA FilterDef ==
  ASSUME NEW T, NEW s \in Seq(T), NEW S
  PROVE  \E kept : Filtering(kept, s, S, T)
<1> DEFINE N == Len(s)
           Longer(t, i) == IF s[i] \in S THEN Append(t, s[i]) ELSE t
           step == [i \in 1 .. N |-> [t \in Seq(T) |-> Longer(t, i)]]
           kept == CHOOSE f : f = [i \in 0 .. N |->
                     IF i = 0 THEN << >>
                     ELSE IF s[i] \in S THEN Append(f[i - 1], s[i]) ELSE f[i - 1]]
<1>1. N \in Nat /\ \A i \in 1 .. N : s[i] \in T
  OBVIOUS
<1>2. \A t \in Seq(T), i \in 1 .. N : Longer(t, i) \in Seq(T)
  BY <1>1
<1>3. \A i \in 1 .. N : \A t \in Seq(T) : step[i][t] \in Seq(T)
  BY <1>2
<1>4. \A t \in Seq(T), i \in 1 .. N : step[i][t] = Longer(t, i)
  OBVIOUS
<1>5. << >> \in Seq(T)
  OBVIOUS
<1> HIDE DEF N, Longer, step
<1>6. PICK f \in [0 .. N -> Seq(T)] :
        f[0] = << >> /\ \A i \in 1 .. N : f[i] = step[i][f[i - 1]]
  <2> DEFINE none == << >>
             U == Seq(T)
  <2>1. N \in Nat /\ none \in U /\ \A i \in 1 .. N : \A t \in U : step[i][t] \in U
    BY <1>1, <1>3, <1>5
  <2> HIDE DEF none, U
  <2>2. \E f : Recursive(f, N, U, none, step)
    BY <2>1, Recursion
  <2> QED
    BY <2>2 DEF none, U, Recursive
<1>7. f = [i \in 0 .. N |->
             IF i = 0 THEN << >>
             ELSE IF s[i] \in S THEN Append(f[i - 1], s[i]) ELSE f[i - 1]]
  <2> SUFFICES ASSUME NEW i \in 0 .. N
               PROVE  f[i] = IF i = 0 THEN << >>
                             ELSE IF s[i] \in S THEN Append(f[i - 1], s[i]) ELSE f[i - 1]
    OBVIOUS
  <2>1. CASE i = 0
    BY <1>6, <2>1
  <2>2. CASE i # 0
    <3>1. i \in 1 .. N /\ i - 1 \in 0 .. N
      BY <1>1, <2>2, SMT
    <3>2. f[i] = Longer(f[i - 1], i)
      BY <1>4, <1>6, <3>1
    <3> QED
      BY <2>2, <3>2 DEF Longer
  <2> QED
    BY <2>1, <2>2
<1>8. kept = [i \in 0 .. N |->
                IF i = 0 THEN << >>
                ELSE IF s[i] \in S THEN Append(kept[i - 1], s[i]) ELSE kept[i - 1]]
  BY <1>7
<1>9. Filter(s, S) = kept[N]
  BY DEF Filter, N
<1> HIDE DEF kept
<1>10. kept[0] = << >> /\ \A i \in 1 .. N : kept[i] = Longer(kept[i - 1], i)
  <2>1. 0 \in 0 .. N /\ \A i \in 1 .. N : i \in 0 .. N /\ i # 0
    BY <1>1, SMT
  <2> QED
    BY <1>8, <2>1 DEF Longer
<1>11. \A i \in 0 .. N : kept[i] \in Seq(T)
  <2> DEFINE M == {i \in 0 .. N : kept[i] \in Seq(T)}
  <2>1. 0 \in M
    <3>1. 0 \in 0 .. N
      BY <1>1, SMT
    <3> QED
      BY <1>5, <1>10, <3>1
  <2>2. ASSUME NEW i \in 1 .. N, i - 1 \in M PROVE i \in M
    <3>1. i \in 0 .. N
      BY <1>1, SMT
    <3> QED
      BY <1>2, <1>10, <2>2, <3>1
  <2> HIDE DEF M
  <2>3. 0 .. N \subseteq M
    BY <1>1, <2>1, <2>2, CountUp
  <2> QED
    BY <2>3 DEF M
<1>12. kept \in [0 .. N -> Seq(T)]
  <2>1. kept = [i \in 0 .. N |-> kept[i]]
    BY <1>8
  <2> QED
    BY <1>11, <2>1
<1>13. Filter(s, S) = kept[N] /\ kept[0] = << >>
       /\ \A i \in 1 .. N :
            kept[i] = IF s[i] \in S THEN Append(kept[i - 1], s[i]) ELSE kept[i - 1]
  BY <1>9, <1>10 DEF Longer
<1>14. Filtering(kept, s, S, T)
  BY <1>12, <1>13, Zenon DEF N, Filtering
<1> QED
  BY <1>14

\* Every element of s is related by R to all that come after it.
InOrder(s, R) == \A i, j \in DOMAIN s : i < j => <<s[i], s[j]>> \in R

\* An element added at the end.
LEMMA Appended ==
  ASSUME NEW T, NEW s \in Seq(T), NEW x \in T
  PROVE  /\ Append(s, x) \in Seq(T) /\ Len(Append(s, x)) = Len(s) + 1
         /\ \A i \in 1 .. Len(s) : Append(s, x)[i] = s[i]
         /\ Append(s, x)[Len(s) + 1] = x
         /\ Range(Append(s, x)) = Range(s) \cup {x}
<1>1. /\ Append(s, x) \in Seq(T) /\ Len(Append(s, x)) = Len(s) + 1
      /\ \A i \in 1 .. Len(s) : Append(s, x)[i] = s[i]
      /\ Append(s, x)[Len(s) + 1] = x
  BY AppendProperties
<1>2. Len(s) \in Nat /\ DOMAIN s = 1 .. Len(s)
      /\ DOMAIN Append(s, x) = 1 .. Len(Append(s, x))
  BY <1>1
<1>3. \A i : i \in 1 .. Len(s) + 1 <=> i \in 1 .. Len(s) \/ i = Len(s) + 1
  BY <1>2, SMT
<1>4. Range(Append(s, x)) = Range(s) \cup {x}
  <2> DEFINE t == Append(s, x)
             n == Len(s)
  <2> HIDE DEF t, n
  <2>1. /\ DOMAIN t = 1 .. n + 1 /\ DOMAIN s = 1 .. n /\ t[n + 1] = x
        /\ \A i \in 1 .. n : t[i] = s[i]
        /\ \A i : i \in 1 .. n + 1 <=> i \in 1 .. n \/ i = n + 1
    BY <1>1, <1>2, <1>3 DEF t, n
  <2>2. Range(t) = Range(s) \cup {x}
    BY <2>1, Zenon DEF Range
  <2> QED
    BY <2>2 DEF t
<1> QED
  BY <1>1, <1>4

\* Filtering a list keeps the elements of the set, and their order.
LEMMA FilterProperties ==
  ASSUME NEW T, NEW s \in Seq(T), NEW S, NEW R, InOrder(s, R)
  PROVE  /\ Filter(s, S) \in Seq(T)
         /\ Range(Filter(s, S)) = Range(s) \cap S
         /\ InOrder(Filter(s, S), R)
<1> DEFINE N == Len(s)
<1>1. N \in Nat /\ DOMAIN s = 1 .. N /\ \A i \in 1 .. N : s[i] \in T
  OBVIOUS
<1> PICK kept : Filtering(kept, s, S, T)
  BY FilterDef, Zenon
<1>2. /\ kept \in [0 .. N -> Seq(T)] /\ Filter(s, S) = kept[N] /\ kept[0] = << >>
      /\ \A i \in 1 .. N :
           kept[i] = IF s[i] \in S THEN Append(kept[i - 1], s[i]) ELSE kept[i - 1]
  BY DEF Filtering
<1> HIDE DEF N
<1> DEFINE Part(m) == {s[i] : i \in 1 .. m} \cap S
           M == {m \in 0 .. N : Range(kept[m]) = Part(m) /\ InOrder(kept[m], R)}
<1>3. 0 \in M
  <2>1. 0 \in 0 .. N /\ 1 .. 0 = {} /\ DOMAIN kept[0] = {}
    BY <1>1, <1>2, SMT
  <2> QED
    BY <1>2, <2>1 DEF Range, InOrder
<1>4. ASSUME NEW m \in 1 .. N, m - 1 \in M PROVE m \in M
  <2>1. /\ m \in 0 .. N /\ m - 1 \in 0 .. N /\ m \in Nat
        /\ \A i : i \in 1 .. m <=> i \in 1 .. m - 1 \/ i = m
    BY <1>1, SMT
  <2> DEFINE t == kept[m - 1]
  <2>2. t \in Seq(T) /\ s[m] \in T
    BY <1>1, <1>2, <2>1
  <2>3. Range(t) = Part(m - 1) /\ InOrder(t, R)
    BY <1>4
  <2>4. CASE s[m] \in S
    <3>1. kept[m] = Append(t, s[m])
      BY <1>2, <2>4
    <3>2. /\ Len(kept[m]) = Len(t) + 1 /\ kept[m] \in Seq(T)
          /\ \A i \in 1 .. Len(t) : kept[m][i] = t[i]
          /\ kept[m][Len(t) + 1] = s[m]
          /\ Range(kept[m]) = Range(t) \cup {s[m]}
      BY <2>2, <3>1, Appended
    <3>3. Range(kept[m]) = Part(m)
      <4>1. Part(m) = Part(m - 1) \cup {s[m]}
        BY <2>1, <2>4
      <4> QED
        BY <2>3, <3>2, <4>1
    <3>4. ASSUME NEW i \in DOMAIN kept[m], NEW j \in DOMAIN kept[m], i < j
          PROVE  <<kept[m][i], kept[m][j]>> \in R
      <4>1. Len(t) \in Nat /\ DOMAIN t = 1 .. Len(t) /\ DOMAIN kept[m] = 1 .. Len(t) + 1
        BY <2>2, <3>2
      <4> HIDE DEF t
      <4>2. i \in 1 .. Len(t) /\ (j \in 1 .. Len(t) \/ j = Len(t) + 1)
        BY <3>4, <4>1, SMT
      <4>3. CASE j \in 1 .. Len(t)
        BY <2>3, <3>2, <3>4, <4>1, <4>2, <4>3 DEF InOrder
      <4>4. CASE j = Len(t) + 1
        <5>1. t[i] \in Range(t)
          BY <4>1, <4>2 DEF Range
        <5>2. PICK k \in 1 .. m - 1 : t[i] = s[k]
          BY <2>3, <5>1
        <5>3. k \in DOMAIN s /\ m \in DOMAIN s /\ k < m
          BY <1>1, <2>1, SMT
        <5>4. <<s[k], s[m]>> \in R
          BY <5>3 DEF InOrder
        <5> QED
          BY <3>2, <4>2, <4>4, <5>2, <5>4
      <4> QED
        BY <4>2, <4>3, <4>4
    <3>5. InOrder(kept[m], R)
      BY <3>4 DEF InOrder
    <3> QED
      BY <2>1, <3>3, <3>5
  <2>5. CASE s[m] \notin S
    <3>1. kept[m] = t
      BY <1>2, <2>5
    <3>2. Part(m) = Part(m - 1)
      BY <2>1, <2>5
    <3> QED
      BY <2>1, <2>3, <3>1, <3>2
  <2> QED
    BY <2>4, <2>5
<1>5. N \in M
  <2> HIDE DEF M
  <2>1. 0 .. N \subseteq M
    BY <1>1, <1>3, <1>4, CountUp
  <2> QED
    BY <1>1, <2>1, SMT
<1>6. N \in 0 .. N
  BY <1>1, SMT
<1>7. Part(N) = Range(s) \cap S
  BY <1>1 DEF Range
<1> QED
  BY <1>2, <1>5, <1>6, <1>7


\* A part of a list.
LEMMA PartOf ==
  ASSUME NEW T, NEW s \in Seq(T), NEW m \in 1 .. Len(s) + 1, NEW n \in 0 .. Len(s),
         m <= n + 1
  PROVE  /\ SubSeq(s, m, n) \in Seq(T) /\ Len(SubSeq(s, m, n)) = n - m + 1
         /\ \A j \in 1 .. n - m + 1 : SubSeq(s, m, n)[j] = s[m + j - 1]
<1>1. Len(s) \in Nat /\ \A j \in 1 .. Len(s) : s[j] \in T
  OBVIOUS
<1>2. m \in Int /\ n \in Int /\ \A j \in m .. n : j \in 1 .. Len(s)
  BY <1>1, SMT
<1>3. \A j \in m .. n : s[j] \in T
  BY <1>1, <1>2
<1>4. /\ SubSeq(s, m, n) \in Seq(T)
      /\ Len(SubSeq(s, m, n)) = IF m <= n THEN n - m + 1 ELSE 0
      /\ \A j \in 1 .. n - m + 1 : SubSeq(s, m, n)[j] = s[m + j - 1]
  BY <1>2, <1>3, SubSeqProperties
<1>5. (IF m <= n THEN n - m + 1 ELSE 0) = n - m + 1
  BY <1>2, SMT
<1> QED
  BY <1>4, <1>5

\* An element put in its place.
LEMMA Inserted ==
  ASSUME NEW T, NEW s \in Seq(T), NEW i \in 1 .. Len(s) + 1, NEW x \in T
  PROVE  LET new == InsertAt(s, i, x)
         IN  /\ new \in Seq(T) /\ Len(new) = Len(s) + 1
             /\ \A j \in 1 .. i - 1 : new[j] = s[j]
             /\ new[i] = x
             /\ \A j \in i .. Len(s) : new[j + 1] = s[j]
<1> DEFINE low == SubSeq(s, 1, i - 1)
           mid == <<x>>
           high == SubSeq(s, i, Len(s))
<1>1. /\ Len(s) \in Nat /\ i \in Nat /\ i - 1 \in 0 .. Len(s) /\ 1 \in 1 .. Len(s) + 1
      /\ Len(s) \in 0 .. Len(s) /\ 1 <= (i - 1) + 1 /\ i <= Len(s) + 1
  BY SMT
<1>2. /\ low \in Seq(T) /\ Len(low) = i - 1
      /\ \A j \in 1 .. i - 1 : low[j] = s[j]
  <2>1. /\ low \in Seq(T) /\ Len(low) = (i - 1) - 1 + 1
        /\ \A j \in 1 .. (i - 1) - 1 + 1 : low[j] = s[1 + j - 1]
    BY <1>1, PartOf, Zenon
  <2>2. (i - 1) - 1 + 1 = i - 1 /\ \A j \in 1 .. i - 1 : 1 + j - 1 = j
    BY <1>1, SMT
  <2> QED
    BY <2>1, <2>2
<1>3. /\ high \in Seq(T) /\ Len(high) = Len(s) - i + 1
      /\ \A j \in 1 .. Len(s) - i + 1 : high[j] = s[i + j - 1]
  BY <1>1, PartOf, Zenon
<1>4. mid \in Seq(T) /\ Len(mid) = 1 /\ mid[1] = x
  OBVIOUS
<1>5. InsertAt(s, i, x) = low \o mid \o high
  BY DEF InsertAt
<1> HIDE DEF low, mid, high
<1> DEFINE head == low \o mid
<1>6. /\ head \in Seq(T) /\ Len(head) = i /\ head[i] = x
      /\ \A j \in 1 .. i - 1 : head[j] = s[j]
  <2>1. head \in Seq(T) /\ Len(head) = Len(low) + Len(mid)
    BY <1>2, <1>4, Joined
  <2>2. ASSUME NEW j \in 1 .. i - 1 PROVE head[j] = low[j]
    <3>1. j \in 1 .. Len(low)
      BY <1>2
    <3> QED
      BY <1>2, <1>4, <3>1, Joined, Zenon
  <2>3. head[Len(low) + 1] = mid[1]
    <3>1. 1 \in 1 .. Len(mid)
      BY <1>4, SMT
    <3> QED
      BY <1>2, <1>4, <3>1, Joined
  <2>4. (i - 1) + 1 = i
    BY <1>1, SMT
  <2> QED
    BY <1>2, <1>4, <2>1, <2>2, <2>3, <2>4
<1> HIDE DEF head
<1>7. head \o high \in Seq(T) /\ Len(head \o high) = Len(s) + 1
  <2>1. head \o high \in Seq(T) /\ Len(head \o high) = Len(head) + Len(high)
    BY <1>3, <1>6, Joined
  <2> QED
    BY <1>1, <1>3, <1>6, <2>1, SMT
<1>8. \A j \in 1 .. i : (head \o high)[j] = head[j]
  <2> SUFFICES ASSUME NEW j \in 1 .. i PROVE (head \o high)[j] = head[j]
    OBVIOUS
  <2>1. j \in 1 .. Len(head)
    BY <1>6
  <2> QED
    BY <1>3, <1>6, <2>1, Joined, Zenon
<1>9. ASSUME NEW j \in i .. Len(s) PROVE (head \o high)[j + 1] = s[j]
  <2>1. /\ j - i + 1 \in 1 .. Len(s) - i + 1 /\ i + (j - i + 1) = j + 1
        /\ i + (j - i + 1) - 1 = j
    BY <1>1, SMT
  <2>2. j - i + 1 \in 1 .. Len(high)
    BY <1>3, <2>1
  <2>3. (head \o high)[Len(head) + (j - i + 1)] = high[j - i + 1]
    BY <1>3, <1>6, <2>2, Joined
  <2>4. high[j - i + 1] = s[i + (j - i + 1) - 1]
    BY <1>3, <2>1
  <2> QED
    BY <1>6, <2>1, <2>3, <2>4
<1>10. i \in 1 .. i /\ \A j \in 1 .. i - 1 : j \in 1 .. i
  BY <1>1, SMT
<1>11. InsertAt(s, i, x) = head \o high
  BY <1>5 DEF head
<1> QED
  BY <1>6, <1>7, <1>8, <1>9, <1>10, <1>11

\* It is in order where it is related to what surrounds it.
LEMMA InsertedInOrder ==
  ASSUME NEW T, NEW s \in Seq(T), NEW i \in 1 .. Len(s) + 1, NEW x \in T,
         NEW R, InOrder(s, R),
         \A j \in DOMAIN s : IF j < i THEN <<s[j], x>> \in R ELSE <<x, s[j]>> \in R
  PROVE  /\ InsertAt(s, i, x) \in Seq(T) /\ InOrder(InsertAt(s, i, x), R)
         /\ Range(InsertAt(s, i, x)) = Range(s) \cup {x}
<1> DEFINE new == InsertAt(s, i, x)
<1>1. /\ new \in Seq(T) /\ Len(new) = Len(s) + 1
      /\ \A j \in 1 .. i - 1 : new[j] = s[j]
      /\ new[i] = x
      /\ \A j \in i .. Len(s) : new[j + 1] = s[j]
  BY Inserted
<1>2. Len(s) \in Nat /\ DOMAIN s = 1 .. Len(s) /\ DOMAIN new = 1 .. Len(s) + 1
  BY <1>1
<1> DEFINE At(j) == IF j < i THEN j ELSE j - 1
<1> HIDE DEF new
<1>3. \A j \in DOMAIN new : j # i => At(j) \in DOMAIN s /\ new[j] = s[At(j)]
  <2> SUFFICES ASSUME NEW j \in 1 .. Len(s) + 1, j # i
               PROVE  At(j) \in DOMAIN s /\ new[j] = s[At(j)]
    BY <1>2
  <2>1. CASE j < i
    <3>1. j \in 1 .. i - 1 /\ j \in 1 .. Len(s)
      BY <1>2, <2>1, SMT
    <3> QED
      BY <1>1, <1>2, <2>1, <3>1
  <2>2. CASE ~(j < i)
    <3>1. j - 1 \in i .. Len(s) /\ j - 1 \in 1 .. Len(s) /\ (j - 1) + 1 = j
      BY <1>2, <2>2, SMT
    <3>2. new[(j - 1) + 1] = s[j - 1]
      BY <1>1, <3>1
    <3> QED
      BY <1>2, <2>2, <3>1, <3>2
  <2> QED
    BY <2>1, <2>2
<1>4. ASSUME NEW j \in DOMAIN new, NEW k \in DOMAIN new, j < k
      PROVE  <<new[j], new[k]>> \in R
  <2>0. j \in 1 .. Len(s) + 1 /\ k \in 1 .. Len(s) + 1
    BY <1>2
  <2>1. CASE j # i /\ k # i
    <3>1. At(j) < At(k)
      BY <1>2, <1>4, <2>0, <2>1, SMT
    <3> QED
      BY <1>3, <2>1, <3>1 DEF InOrder
  <2>2. CASE j = i
    <3>1. k # i /\ ~(k < i) /\ ~(At(k) < i)
      BY <1>2, <1>4, <2>0, <2>2, SMT
    <3> QED
      BY <1>1, <1>3, <2>2, <3>1
  <2>3. CASE k = i
    <3>1. j # i /\ At(j) < i
      BY <1>2, <1>4, <2>0, <2>3, SMT
    <3> QED
      BY <1>1, <1>3, <2>3, <3>1
  <2> QED
    BY <2>1, <2>2, <2>3
<1>5. InOrder(new, R)
  BY <1>4 DEF InOrder
<1>6. Range(new) = Range(s) \cup {x}
  <2>1. Range(new) \subseteq Range(s) \cup {x}
    BY <1>1, <1>3 DEF Range
  <2>2. \A j \in 1 .. Len(s) : \/ j \in 1 .. i - 1 /\ j \in 1 .. Len(s) + 1
                               \/ j \in i .. Len(s) /\ j + 1 \in 1 .. Len(s) + 1
    BY <1>2, SMT
  <2>3. \A j \in 1 .. Len(s) : \E k \in 1 .. Len(s) + 1 : new[k] = s[j]
    BY <1>1, <2>2
  <2>4. i \in 1 .. Len(s) + 1
    OBVIOUS
  <2>5. x \in Range(new)
    BY <1>1, <1>2, <2>4 DEF Range
  <2>6. Range(s) \subseteq Range(new)
    BY <1>2, <2>3 DEF Range
  <2> QED
    BY <2>1, <2>5, <2>6
<1> QED
  BY <1>1, <1>5, <1>6 DEF new


-----------------------------------------------------------------------------
\* The pairs of versions in ascending order, and those that differ.
Known == VersionSet \cup Parsed
Ascent == {p \in Known \X Known : Less(p[1], p[2])}
Apart == {p \in Known \X Known : p[1] # p[2]}

\* _versions is sorted after every registration, and holds no version twice.
Sorted == InOrder(registered, Ascent)
VersionsInv == TypeOK /\ Sorted

\* The versions requests carry, and what is parsed of them, are versions.
LEMMA VersionsAreSemantic == Known \subseteq Semantic
<1>1. VersionSet \subseteq Semantic
  BY VersionsAssumption DEF Semantic
<1>2. ASSUME NEW v \in VersionSet PROVE SemanticVersion(v) \in Semantic
  <2>1. v \in Semantic
    BY <1>1
  <2> QED
    BY <2>1 DEF Semantic, SemanticVersion
<1> QED
  BY <1>1, <1>2 DEF Known, Parsed

\* A list of the ones or the others is a list of known versions.
LEMMA ListsOfKnown ==
  /\ \A s \in Seq(VersionSet) : s \in Seq(Known)
  /\ \A s \in Seq(Parsed) : s \in Seq(Known)
BY DEF Known

\* A list without repetition, told by its pairs in list order.
LEMMA InjectiveIsApart ==
  ASSUME NEW s \in Seq(Known)
  PROVE  IsInjective(s) <=> InOrder(s, Apart)
<1>1. DOMAIN s = 1 .. Len(s) /\ \A i \in DOMAIN s : s[i] \in Known
  OBVIOUS
<1>2. ASSUME IsInjective(s) PROVE InOrder(s, Apart)
  <2> SUFFICES ASSUME NEW i \in DOMAIN s, NEW j \in DOMAIN s, i < j
               PROVE  <<s[i], s[j]>> \in Apart
    BY DEF InOrder
  <2>1. i # j
    BY <1>1, SMT
  <2>2. s[i] # s[j]
    BY <1>2, <2>1 DEF IsInjective
  <2> QED
    BY <1>1, <2>2 DEF Apart
<1>3. ASSUME InOrder(s, Apart) PROVE IsInjective(s)
  <2> SUFFICES ASSUME NEW i \in DOMAIN s, NEW j \in DOMAIN s, s[i] = s[j], i # j
               PROVE  FALSE
    BY DEF IsInjective
  <2>1. i < j \/ j < i
    BY <1>1, SMT
  <2>2. <<s[i], s[j]>> \in Apart \/ <<s[j], s[i]>> \in Apart
    BY <1>3, <2>1 DEF InOrder
  <2> QED
    BY <2>2 DEF Apart
<1> QED
  BY <1>2, <1>3

\* A list in ascending order holds no version twice.
LEMMA AscentIsApart ==
  ASSUME NEW s \in Seq(Known), InOrder(s, Ascent)
  PROVE  IsInjective(s)
<1>1. \A p \in Ascent : p \in Apart
  <2> SUFFICES ASSUME NEW p \in Known \X Known, Less(p[1], p[2])
               PROVE  p[1] # p[2]
    BY DEF Ascent, Apart
  <2>1. p[1] \in Semantic
    BY VersionsAreSemantic
  <2> QED
    BY <2>1, LessOrder
<1>2. InOrder(s, Apart)
  BY <1>1 DEF InOrder
<1> QED
  BY <1>2, InjectiveIsApart

\* Initially nothing is registered and there is no file.
LEMMA InitVersions == Init => VersionsInv
<1> SUFFICES ASSUME Init PROVE VersionsInv
  OBVIOUS
<1>1. registered = << >> /\ stored = << >> /\ history = << >> /\ keep = KeepPrevious
  BY DEF Init
<1>2. DOMAIN registered = {} /\ DOMAIN stored = {}
  BY <1>1
<1>3. KeepPrevious \in Nat \ {0}
  BY VersionsAssumption
<1>4. IsInjective(registered) /\ IsInjective(stored) /\ InOrder(registered, Ascent)
  BY <1>2 DEF IsInjective, InOrder
<1> QED
  BY <1>1, <1>3, <1>4 DEF VersionsInv, TypeOK, Sorted

\* Retention leaves the files modified last, in their order.
LEMMA CleanupPart ==
  ASSUME TypeOK, CleanupOldVersions
  PROVE  /\ stored' \in Seq(VersionSet) /\ IsInjective(stored')
         /\ Len(stored) <= keep => stored' = stored
         /\ Len(stored) > keep =>
              /\ Len(stored') = keep
              /\ \A j \in 1 .. keep : stored'[j] = stored[Len(stored) - keep + j]
<1>1. /\ stored \in Seq(VersionSet) /\ IsInjective(stored) /\ keep \in Nat /\ keep >= 1
      /\ Len(stored) \in Nat
  BY DEF TypeOK
<1>2. CASE Len(stored) <= keep
  BY <1>1, <1>2 DEF CleanupOldVersions
<1>3. CASE Len(stored) > keep
  <2> DEFINE m == Len(stored) - keep + 1
             n == Len(stored)
  <2>1. stored' = SubSeq(stored, m, n)
    BY <1>1, <1>3, SMT DEF CleanupOldVersions
  <2>2. /\ m \in 1 .. Len(stored) + 1 /\ n \in 0 .. Len(stored) /\ m <= n + 1
        /\ n - m + 1 = keep
    BY <1>1, <1>3, SMT
  <2>3. \A j \in 1 .. keep : m + j - 1 = Len(stored) - keep + j
    BY <1>1, SMT
  <2> HIDE DEF m, n
  <2>4. /\ stored' \in Seq(VersionSet) /\ Len(stored') = keep
        /\ \A j \in 1 .. keep : stored'[j] = stored[m + j - 1]
    BY <1>1, <2>1, <2>2, PartOf
  <2>5. \A j \in 1 .. keep : stored'[j] = stored[Len(stored) - keep + j]
    BY <2>3, <2>4
  <2>6. IsInjective(stored')
    <3> SUFFICES ASSUME NEW i \in DOMAIN stored', NEW j \in DOMAIN stored',
                        stored'[i] = stored'[j]
                 PROVE  i = j
      BY DEF IsInjective
    <3>1. DOMAIN stored' = 1 .. keep /\ DOMAIN stored = 1 .. Len(stored)
      BY <1>1, <2>4
    <3>2. stored[Len(stored) - keep + i] = stored[Len(stored) - keep + j]
      BY <2>5, <3>1
    <3>3. Len(stored) - keep + i \in DOMAIN stored /\ Len(stored) - keep + j \in DOMAIN stored
      BY <1>1, <1>3, <3>1, SMT
    <3>4. Len(stored) - keep + i = Len(stored) - keep + j
      BY <1>1, <3>2, <3>3 DEF IsInjective
    <3> QED
      BY <1>1, <3>1, <3>4, SMT
  <2>7. ~(Len(stored) <= keep)
    BY <1>1, <1>3, SMT
  <2> QED
    BY <2>4, <2>5, <2>6, <2>7
<1> QED
  BY <1>1, <1>2, <1>3, SMT


\* A registration keeps the list sorted and without repetition.
LEMMA RegisterStep ==
  ASSUME VersionsInv, NEW v \in VersionSet, RegisterVersion(v)
  PROVE  registered' \in Seq(Parsed) /\ Sorted'
<1> DEFINE sv == SemanticVersion(v)
<1>0. sv \in Parsed /\ sv \in Known
  BY DEF Parsed, Known
<1>1. registered \in Seq(Parsed) /\ InOrder(registered, Ascent)
  BY DEF VersionsInv, TypeOK, Sorted
<1>2. CASE UNCHANGED registered
  BY <1>1, <1>2 DEF Sorted
<1>3. ASSUME NEW i \in 1 .. Len(registered) + 1,
             \A j \in DOMAIN registered :
               IF j < i THEN Less(registered[j], sv) ELSE Less(sv, registered[j]),
             registered' = InsertAt(registered, i, sv)
      PROVE  registered' \in Seq(Parsed) /\ Sorted'
  <2> HIDE DEF sv
  <2>1. \A j \in DOMAIN registered : registered[j] \in Known
    BY <1>1 DEF Known
  <2>2. \A j \in DOMAIN registered :
          IF j < i THEN <<registered[j], sv>> \in Ascent ELSE <<sv, registered[j]>> \in Ascent
    BY <1>0, <1>3, <2>1 DEF Ascent
  <2>3. /\ InsertAt(registered, i, sv) \in Seq(Parsed)
        /\ InOrder(InsertAt(registered, i, sv), Ascent)
    BY <1>0, <1>1, <2>2, InsertedInOrder
  <2> QED
    BY <1>3, <2>3 DEF Sorted
<1> QED
  BY <1>2, <1>3 DEF RegisterVersion

\* A written file is one more, and no version has two.
LEMMA SaveStep ==
  ASSUME TypeOK, NEW v \in VersionSet, SaveFirmware(v)
  PROVE  stored' \in Seq(VersionSet) /\ IsInjective(stored')
<1>1. stored \in Seq(VersionSet) /\ IsInjective(stored) /\ stored' = Append(stored, v)
      /\ v \notin Range(stored)
  BY DEF TypeOK, SaveFirmware, Files
<1>2. /\ stored' \in Seq(VersionSet) /\ Len(stored') = Len(stored) + 1
      /\ \A i \in 1 .. Len(stored) : stored'[i] = stored[i]
      /\ stored'[Len(stored) + 1] = v
  BY <1>1, Appended
<1>3. /\ DOMAIN stored = 1 .. Len(stored) /\ DOMAIN stored' = 1 .. Len(stored) + 1
      /\ \A i \in 1 .. Len(stored) + 1 : i \in 1 .. Len(stored) \/ i = Len(stored) + 1
  BY <1>1, <1>2, SMT
<1>4. \A i \in 1 .. Len(stored) : stored[i] # v
  BY <1>1, <1>3 DEF Range
<1>5. IsInjective(stored')
  <2> SUFFICES ASSUME NEW i \in DOMAIN stored', NEW j \in DOMAIN stored',
                      stored'[i] = stored'[j]
               PROVE  i = j
    BY DEF IsInjective
  <2>1. CASE i \in 1 .. Len(stored) /\ j \in 1 .. Len(stored)
    BY <1>1, <1>2, <1>3, <2>1 DEF IsInjective
  <2>2. CASE i = Len(stored) + 1 \/ j = Len(stored) + 1
    BY <1>2, <1>3, <1>4, <2>2
  <2> QED
    BY <1>3, <2>1, <2>2
<1> QED
  BY <1>2, <1>5

\* Deleting files by their versions repeats none.
LEMMA DeleteStep ==
  ASSUME TypeOK, NEW v \in VersionSet, DeleteFirmware(v)
  PROVE  stored' \in Seq(VersionSet) /\ IsInjective(stored')
<1>1. stored \in Seq(VersionSet) /\ InOrder(stored, Apart)
      /\ stored' = Filter(stored, Files \ {v})
  BY ListsOfKnown, InjectiveIsApart DEF TypeOK, DeleteFirmware
<1>2. stored' \in Seq(VersionSet) /\ InOrder(stored', Apart)
  BY <1>1, FilterProperties
<1> QED
  BY <1>2, ListsOfKnown, InjectiveIsApart

\* Every step keeps the list of versions sorted, and the types.
LEMMA NextVersions ==
  VersionsInv /\ [Next]_vars => VersionsInv'
<1> SUFFICES ASSUME VersionsInv, [Next]_vars PROVE VersionsInv'
  OBVIOUS
<1>0. /\ TypeOK /\ Sorted
      /\ registered \in Seq(Parsed) /\ stored \in Seq(VersionSet)
      /\ IsInjective(registered) /\ IsInjective(stored) /\ keep \in Nat \ {0}
      /\ history \in Seq([from : VersionSet, to : VersionSet])
  BY DEF VersionsInv, TypeOK
<1>1. ASSUME NEW v \in VersionSet, RegisterVersion(v) PROVE VersionsInv'
  <2>1. registered' \in Seq(Parsed) /\ Sorted' /\ UNCHANGED <<stored, keep, history>>
    BY <1>1, RegisterStep DEF RegisterVersion
  <2>2. IsInjective(registered')
    BY <2>1, ListsOfKnown, AscentIsApart DEF Sorted
  <2> QED
    BY <1>0, <2>1, <2>2 DEF VersionsInv, TypeOK
<1>2. ASSUME NEW v \in VersionSet, SaveFirmware(v) PROVE VersionsInv'
  BY <1>0, <1>2, SaveStep DEF SaveFirmware, VersionsInv, TypeOK, Sorted
<1>3. ASSUME NEW v \in VersionSet, DeleteFirmware(v) PROVE VersionsInv'
  BY <1>0, <1>3, DeleteStep DEF DeleteFirmware, VersionsInv, TypeOK, Sorted
<1>4. ASSUME NEW n \in Limits, SetRollbackLimit(n) PROVE VersionsInv'
  <2>1. n \in Nat \ {0}
    BY <1>4, VersionsAssumption, SMT DEF SetRollbackLimit
  <2> QED
    BY <1>0, <1>4, <2>1 DEF SetRollbackLimit, VersionsInv, TypeOK, Sorted
<1>5. CASE CleanupOldVersions
  <2>1. stored' \in Seq(VersionSet) /\ IsInjective(stored')
    BY <1>0, <1>5, CleanupPart
  <2> QED
    BY <1>0, <1>5, <2>1 DEF CleanupOldVersions, VersionsInv, TypeOK, Sorted
<1>6. ASSUME NEW u \in VersionSet, NEW v \in VersionSet, ExecuteRollback(u, v)
      PROVE  VersionsInv'
  <2>1. [from |-> u, to |-> v] \in [from : VersionSet, to : VersionSet]
    OBVIOUS
  <2>2. history' \in Seq([from : VersionSet, to : VersionSet])
    BY <1>0, <1>6, <2>1, Appended DEF ExecuteRollback
  <2> QED
    BY <1>0, <1>6, <2>2 DEF ExecuteRollback, VersionsInv, TypeOK, Sorted
<1>7. CASE Restart
  <2>1. /\ registered' = << >> /\ history' = << >> /\ keep' = KeepPrevious
        /\ UNCHANGED stored /\ KeepPrevious \in Nat \ {0}
    BY <1>7, VersionsAssumption DEF Restart
  <2>2. DOMAIN registered' = {}
    BY <2>1
  <2>3. IsInjective(registered') /\ InOrder(registered', Ascent)
    BY <2>2 DEF IsInjective, InOrder
  <2> QED
    BY <1>0, <2>1, <2>3 DEF VersionsInv, TypeOK, Sorted
<1>8. CASE UNCHANGED vars
  BY <1>0, <1>8 DEF vars, VersionsInv, TypeOK, Sorted
<1> QED
  BY <1>1, <1>2, <1>3, <1>4, <1>5, <1>6, <1>7, <1>8 DEF Next

\* The versions known, the files and the limit keep their types, and the list
\* stays sorted, whatever is registered, written, deleted or restarted.
THEOREM VersionsStaySorted == Spec => []VersionsInv
<1>1. Init => VersionsInv
  BY InitVersions
<1>2. VersionsInv /\ [Next]_vars => VersionsInv'
  BY NextVersions
<1> QED
  BY <1>1, <1>2, PTL DEF Spec

\* No version is listed twice and none has two files (register_version,
\* save_firmware).
THEOREM VersionsTyped == Spec => []TypeOK
<1>1. VersionsInv => TypeOK
  BY DEF VersionsInv
<1> QED
  BY <1>1, VersionsStaySorted, PTL


-----------------------------------------------------------------------------
\* The places in the list where a new version keeps it sorted.
Place(v, i) ==
  \A j \in DOMAIN registered :
    IF j < i THEN Less(registered[j], v) ELSE Less(v, registered[j])

\* A version that the list does not hold has one place in it.
OnePlace ==
  \A v \in Parsed :
    (\A u \in Range(registered) : ~Same(u, v)) =>
      /\ \E i \in 1 .. Len(registered) + 1 : Place(v, i)
      /\ \A i, k \in 1 .. Len(registered) + 1 : Place(v, i) /\ Place(v, k) => i = k

\* Registering succeeds, with one outcome, in every state: sorting leaves one
\* place for a version that is not in the list (register_version).
THEOREM RegistrationHasOneOutcome == Spec => []OnePlace
<1>1. VersionsInv => OnePlace
  <2> SUFFICES ASSUME VersionsInv, NEW v \in Parsed,
                      \A u \in Range(registered) : ~Same(u, v)
               PROVE  /\ \E i \in 1 .. Len(registered) + 1 : Place(v, i)
                      /\ \A i, k \in 1 .. Len(registered) + 1 :
                           Place(v, i) /\ Place(v, k) => i = k
    BY DEF OnePlace
  <2> DEFINE n == Len(registered)
             Fits(i, m) == \A j \in 1 .. m :
                             IF j < i THEN Less(registered[j], v) ELSE Less(v, registered[j])
             S == {m \in 0 .. n : \E i \in 1 .. m + 1 : Fits(i, m)}
  <2>1. /\ n \in Nat /\ DOMAIN registered = 1 .. n /\ InOrder(registered, Ascent)
        /\ v \in Semantic /\ \A j \in 1 .. n : registered[j] \in Known
    BY VersionsAreSemantic DEF VersionsInv, TypeOK, Sorted, Known
  <2>2. \A j \in 1 .. n : registered[j] \in Semantic /\ ~Same(registered[j], v)
    BY <2>1, VersionsAreSemantic DEF Range
  <2>3. 0 \in S
    BY <2>1, SMT
  <2>4. ASSUME NEW m \in 1 .. n, m - 1 \in S PROVE m \in S
    <3>1. PICK i \in 1 .. (m - 1) + 1 : Fits(i, m - 1)
      BY <2>4
    <3>2. /\ m \in 0 .. n /\ i \in 1 .. m /\ i \in 1 .. m + 1 /\ m + 1 \in 1 .. m + 1
          /\ \A j \in 1 .. m : j \in 1 .. m - 1 \/ (j = m /\ ~(j < i) /\ j < m + 1)
          /\ \A j \in 1 .. m - 1 : j < m + 1
      BY <2>1, SMT
    <3>3. CASE Less(v, registered[m])
      <4>1. Fits(i, m)
        BY <3>1, <3>2, <3>3
      <4> QED
        BY <3>2, <4>1
    <3>4. CASE Less(registered[m], v)
      <4>1. ASSUME NEW j \in 1 .. m - 1 PROVE Less(registered[j], v)
        <5>1. j \in DOMAIN registered /\ m \in DOMAIN registered /\ j < m
          BY <2>1, SMT
        <5>2. Less(registered[j], registered[m])
          BY <2>1, <5>1 DEF InOrder, Ascent
        <5> QED
          BY <2>1, <2>2, <3>4, <5>1, <5>2, LessOrder
      <4>2. Fits(m + 1, m)
        BY <3>2, <3>4, <4>1
      <4> QED
        BY <3>2, <4>2
    <3>5. Less(v, registered[m]) \/ Less(registered[m], v)
      BY <2>1, <2>2, LessOrder
    <3> QED
      BY <3>3, <3>4, <3>5
  <2> HIDE DEF S
  <2>5. 0 .. n \subseteq S
    BY <2>1, <2>3, <2>4, CountUp
  <2>6. n \in S
    BY <2>1, <2>5, SMT
  <2>7. \E i \in 1 .. Len(registered) + 1 : Place(v, i)
    BY <2>1, <2>6 DEF S, Place
  <2>8. ASSUME NEW i \in 1 .. n + 1, NEW k \in 1 .. n + 1,
               Place(v, i), Place(v, k), i < k
        PROVE  FALSE
    <3>1. i \in 1 .. n /\ i \in DOMAIN registered /\ ~(i < i)
      BY <2>1, <2>8, SMT
    <3>2. Less(registered[i], v) /\ Less(v, registered[i])
      BY <2>8, <3>1 DEF Place
    <3> QED
      BY <2>1, <2>2, <3>1, <3>2, LessOrder
  <2>9. \A i, k \in 1 .. n + 1 : Place(v, i) /\ Place(v, k) => i = k
    <3>1. \A i, k \in 1 .. n + 1 : i < k \/ k < i \/ i = k
      BY <2>1, SMT
    <3> QED
      BY <2>8, <3>1
  <2> QED
    BY <2>7, <2>9
<1> QED
  BY <1>1, VersionsStaySorted, PTL

-----------------------------------------------------------------------------
\* Between two versions in order, an upgrade is major when the number grows.
LEMMA MajorUpgrade ==
  ASSUME NEW u \in Semantic, NEW v \in Semantic, Less(u, v)
  PROVE  UpgradeType(u, v) = "major" <=> u.major < v.major
<1>1. ~Same(u, v) /\ ~Less(v, u)
  BY LessOrder
<1>2. u.major \in Nat /\ v.major \in Nat
  BY DEF Semantic
<1>3. UpgradeType(u, v) = CASE v.major > u.major -> "major"
                            [] v.major <= u.major /\ v.minor > u.minor -> "minor"
                            [] OTHER -> "patch"
  BY <1>1, <1>2 DEF UpgradeType
<1> QED
  BY <1>2, <1>3

\* What the upgrade path is: the versions registered after u and up to v, in
\* ascending order.
LEMMA PathDef ==
  ASSUME VersionsInv, NEW u \in Known, NEW v \in Known
  PROVE  LET path == UpgradePath(u, v)
         IN  /\ path \in Seq(Known)
             /\ Range(path) = {w \in Range(registered) : Less(u, w) /\ AtMost(w, v)}
             /\ \A i, j \in DOMAIN path : i < j => Less(path[i], path[j])
<1> DEFINE S == {w \in Range(registered) : Less(u, w) /\ AtMost(w, v)}
<1>1. registered \in Seq(Known) /\ InOrder(registered, Ascent)
  BY ListsOfKnown DEF VersionsInv, TypeOK, Sorted
<1> HIDE DEF S
<1>2. /\ Filter(registered, S) \in Seq(Known)
      /\ Range(Filter(registered, S)) = Range(registered) \cap S
      /\ InOrder(Filter(registered, S), Ascent)
  BY <1>1, FilterProperties
<1>3. UpgradePath(u, v) = Filter(registered, S)
  BY DEF UpgradePath, S
<1>4. Range(registered) \cap S = S
  BY DEF S
<1>5. \A i, j \in DOMAIN Filter(registered, S) :
        i < j => Less(Filter(registered, S)[i], Filter(registered, S)[j])
  BY <1>2 DEF InOrder, Ascent
<1> QED
  BY <1>2, <1>3, <1>4, <1>5 DEF S

\* The hops of an upgrade: from u to the first version of the path, and on.
LEMMA HopsDef ==
  ASSUME VersionsInv, NEW u \in Known, NEW v \in Known
  PROVE  LET path == UpgradePath(u, v)
             hops == <<u>> \o path
         IN  /\ hops[1] = u
             /\ \A i \in 1 .. Len(path) :
                  /\ hops[i + 1] = path[i] /\ path[i] \in Known
                  /\ hops[i] \in Known /\ (i = 1 \/ Less(u, hops[i]))
                  /\ Less(hops[i], hops[i + 1])
                  /\ Less(u, hops[i + 1]) /\ AtMost(hops[i + 1], v)
<1> DEFINE path == UpgradePath(u, v)
           first == <<u>>
           hops == first \o path
<1>1. /\ path \in Seq(Known)
      /\ Range(path) = {w \in Range(registered) : Less(u, w) /\ AtMost(w, v)}
      /\ \A i, j \in DOMAIN path : i < j => Less(path[i], path[j])
  BY PathDef
<1>2. first \in Seq(Known) /\ Len(first) = 1 /\ first[1] = u
  OBVIOUS
<1> HIDE DEF path, first
<1>3. Len(path) \in Nat /\ DOMAIN path = 1 .. Len(path)
  BY <1>1
<1>4. hops[1] = u
  <2>1. 1 \in 1 .. Len(first)
    BY <1>2, SMT
  <2> QED
    BY <1>1, <1>2, <2>1, Joined
<1>5. ASSUME NEW i \in 1 .. Len(path) PROVE hops[1 + i] = path[i]
  <2>1. i \in 1 .. Len(path) /\ first \in Seq(Known) /\ path \in Seq(Known)
    BY <1>1, <1>2
  <2> HIDE DEF hops
  <2>2. (first \o path)[Len(first) + i] = path[i]
    BY <2>1, Joined
  <2> USE DEF hops
  <2> QED
    BY <1>2, <2>2
<1> HIDE DEF hops
<1>6. \A i \in 1 .. Len(path) : hops[i + 1] = path[i]
  <2>1. \A i \in 1 .. Len(path) : 1 + i = i + 1
    BY SMT
  <2> QED
    BY <1>5, <2>1
<1>7. \A i \in 1 .. Len(path) :
        path[i] \in Known /\ Less(u, path[i]) /\ AtMost(path[i], v)
  BY <1>1, <1>3 DEF Range
<1>8. ASSUME NEW i \in 1 .. Len(path)
      PROVE  /\ hops[i] \in Known /\ (i = 1 \/ Less(u, hops[i]))
             /\ Less(hops[i], hops[i + 1])
  <2>1. CASE i = 1
    BY <1>4, <1>6, <1>7, <2>1
  <2>2. CASE i # 1
    <3>1. i - 1 \in 1 .. Len(path) /\ (i - 1) + 1 = i /\ i - 1 < i
      BY <1>3, <2>2, SMT
    <3>2. hops[i] = path[i - 1]
      BY <1>6, <3>1
    <3> QED
      BY <1>1, <1>3, <1>6, <1>7, <3>1, <3>2
  <2> QED
    BY <2>1, <2>2
<1> QED
  BY <1>4, <1>6, <1>7, <1>8 DEF path, first, hops


\* When the target is registered the path is not empty and ends there.
LEMMA PathEnds ==
  ASSUME VersionsInv, NEW u \in Known, NEW v \in Known,
         Less(u, v), NEW w \in Range(registered), Same(w, v)
  PROVE  LET path == UpgradePath(u, v)
         IN  path # << >> /\ Len(path) \in 1 .. Len(path) /\ Same(Last(path), v)
<1> DEFINE path == UpgradePath(u, v)
<1>1. /\ path \in Seq(Known)
      /\ Range(path) = {x \in Range(registered) : Less(u, x) /\ AtMost(x, v)}
      /\ \A i, j \in DOMAIN path : i < j => Less(path[i], path[j])
  BY PathDef
<1>2. registered \in Seq(Known)
  BY ListsOfKnown DEF VersionsInv, TypeOK
<1>3. u \in Semantic /\ v \in Semantic /\ w \in Semantic /\ w \in Known
  BY <1>2, VersionsAreSemantic DEF Range
<1>4. Less(u, w) /\ AtMost(w, v)
  <2>1. Same(v, w)
    BY <1>3, LessOrder
  <2> QED
    BY <1>3, <2>1, LessOrder DEF AtMost
<1> HIDE DEF path
<1>5. PICK k \in DOMAIN path : path[k] = w
  BY <1>1, <1>4 DEF Range
<1>6. /\ DOMAIN path = 1 .. Len(path) /\ Len(path) \in Nat
      /\ k \in 1 .. Len(path) /\ Len(path) \in 1 .. Len(path)
  BY <1>1, <1>5, SMT
<1>7. path # << >>
  BY <1>6
<1> DEFINE end == path[Len(path)]
<1>8. end \in Semantic /\ AtMost(end, v)
  BY <1>1, <1>6, VersionsAreSemantic DEF Range
<1>9. CASE k = Len(path)
  BY <1>5, <1>6, <1>7, <1>9 DEF Last, path
<1>10. CASE k # Len(path)
  <2>1. k < Len(path)
    BY <1>6, <1>10, SMT
  <2>2. Less(w, end)
    BY <1>1, <1>5, <1>6, <2>1
  <2> HIDE DEF end
  <2>3. Less(v, end)
    <3>1. Same(v, w)
      BY <1>3, LessOrder
    <3> QED
      BY <1>3, <1>8, <2>2, <3>1, LessOrder
  <2>4. ~Less(end, v)
    BY <1>3, <1>8, <2>3, LessOrder
  <2>5. ~Same(end, v)
    <3>1. Same(end, v) => Same(v, end)
      BY <1>3, <1>8, LessOrder
    <3>2. Same(v, end) => ~Less(v, end)
      BY <1>3, <1>8, LessOrder
    <3> QED
      BY <2>3, <3>1, <3>2
  <2> QED
    BY <1>8, <2>4, <2>5 DEF AtMost
<1> QED
  BY <1>9, <1>10

\* The whole upgrade is a major one just when a hop is.
LEMMA MajorHop ==
  ASSUME VersionsInv, NEW u \in Known, NEW v \in Known,
         Less(u, v), NEW w \in Range(registered), Same(w, v)
  PROVE  LET path == UpgradePath(u, v)
             hops == <<u>> \o path
         IN  UpgradeType(u, v) = "major" <=>
               \E i \in DOMAIN path : UpgradeType(hops[i], hops[i + 1]) = "major"
<1> DEFINE path == UpgradePath(u, v)
           hops == <<u>> \o path
           N == Len(path)
<1>1. /\ path \in Seq(Known)
      /\ Len(path) \in 1 .. Len(path) /\ Same(Last(path), v)
  BY PathDef, PathEnds
<1>2. /\ hops[1] = u
      /\ \A i \in 1 .. Len(path) :
           /\ hops[i + 1] = path[i] /\ path[i] \in Known
           /\ hops[i] \in Known /\ (i = 1 \/ Less(u, hops[i]))
           /\ Less(hops[i], hops[i + 1])
           /\ Less(u, hops[i + 1]) /\ AtMost(hops[i + 1], v)
  BY HopsDef
<1> HIDE DEF path, hops
<1>3. N \in Nat /\ N \in 1 .. N /\ DOMAIN path = 1 .. N
  BY <1>1, SMT
<1>4. hops[N + 1] = path[N] /\ Same(path[N], v)
  BY <1>1, <1>2, <1>3 DEF Last
<1> HIDE DEF N
<1>5. /\ u \in Semantic /\ v \in Semantic
      /\ \A i \in 1 .. N : hops[i] \in Semantic /\ hops[i + 1] \in Semantic
  BY <1>2, VersionsAreSemantic DEF N
<1>6. /\ u.major \in Nat /\ v.major \in Nat
      /\ \A i \in 1 .. N : hops[i].major \in Nat /\ hops[i + 1].major \in Nat
  BY <1>5 DEF Semantic
<1>7. UpgradeType(u, v) = "major" <=> u.major < v.major
  BY <1>5, MajorUpgrade
<1>8. \A i \in 1 .. N : UpgradeType(hops[i], hops[i + 1]) = "major"
                          <=> hops[i].major < hops[i + 1].major
  BY <1>2, <1>5, MajorUpgrade DEF N
<1>9. \A i \in 1 .. N : u.major <= hops[i].major /\ hops[i + 1].major <= v.major
  <2> SUFFICES ASSUME NEW i \in 1 .. N
               PROVE  u.major <= hops[i].major /\ hops[i + 1].major <= v.major
    OBVIOUS
  <2>1. u.major <= hops[i].major
    <3>1. CASE i = 1
      BY <1>2, <1>6, <3>1
    <3>2. CASE i # 1
      BY <1>2, <1>5, <3>2, LessMajor DEF N
    <3> QED
      BY <3>1, <3>2
  <2>2. hops[i + 1].major <= v.major
    BY <1>2, <1>5, LessMajor DEF N, AtMost
  <2> QED
    BY <2>1, <2>2
<1>10. ASSUME NEW i \in 1 .. N, hops[i].major < hops[i + 1].major
       PROVE  u.major < v.major
  BY <1>6, <1>9, <1>10, SMT
<1>11. ASSUME u.major < v.major, \A i \in 1 .. N : ~(hops[i].major < hops[i + 1].major)
       PROVE  FALSE
  <2> DEFINE S == {m \in 0 .. N : hops[m + 1].major <= u.major}
  <2>1. 0 \in S
    <3>1. 0 \in 0 .. N /\ 0 + 1 = 1 /\ u.major <= u.major
      BY <1>3, <1>6, SMT
    <3> QED
      BY <1>2, <3>1
  <2>2. ASSUME NEW m \in 1 .. N, m - 1 \in S PROVE m \in S
    <3>1. m \in 0 .. N /\ (m - 1) + 1 = m
      BY <1>3, SMT
    <3>2. hops[m].major <= u.major
      BY <2>2, <3>1
    <3>3. hops[m + 1].major <= u.major
      BY <1>6, <1>11, <3>2, SMT
    <3> QED
      BY <3>1, <3>3
  <2> HIDE DEF S
  <2>3. 0 .. N \subseteq S
    BY <1>3, <2>1, <2>2, CountUp
  <2>4. N \in S
    BY <1>3, <2>3, SMT
  <2>5. hops[N + 1].major <= u.major
    BY <2>4 DEF S
  <2>6. v.major <= hops[N + 1].major
    <3>1. Same(v, hops[N + 1]) /\ hops[N + 1] \in Semantic
      BY <1>3, <1>4, <1>5, LessOrder
    <3> QED
      BY <1>5, <3>1, LessMajor
  <2>7. hops[N + 1].major \in Nat
    BY <1>3, <1>6
  <2> QED
    BY <1>6, <1>11, <2>5, <2>6, <2>7, SMT
<1>12. UpgradeType(u, v) = "major" <=>
         \E i \in 1 .. N : UpgradeType(hops[i], hops[i + 1]) = "major"
  BY <1>7, <1>8, <1>10, <1>11
<1> QED
  BY <1>3, <1>12 DEF path, hops

\* A path climbs from one registered version to the next, misses none, ends at
\* a registered target and keeps the kind of the upgrade (get_upgrade_path,
\* check_upgrade_policy), for any versions registered in any order.
THEOREM PathsClimb == Spec => []UpgradePathsClimb
<1>1. VersionsInv => UpgradePathsClimb
  <2> SUFFICES ASSUME VersionsInv, NEW u \in VersionSet, NEW v \in VersionSet
               PROVE  LET path == UpgradePath(u, v)
                          hops == <<u>> \o path
                      IN  /\ \A i \in 1 .. Len(path) : Less(hops[i], hops[i + 1])
                          /\ \A w \in Range(registered) :
                               Less(u, w) /\ Less(w, v) => w \in Range(path)
                          /\ Less(u, v) /\ (\E w \in Range(registered) : Same(w, v))
                               => /\ path # << >> /\ Same(Last(path), v)
                                  /\ UpgradeType(u, v) = "major" <=>
                                       \E i \in DOMAIN path :
                                         UpgradeType(hops[i], hops[i + 1]) = "major"
    BY Zenon DEF UpgradePathsClimb
  <2> DEFINE path == UpgradePath(u, v)
             hops == <<u>> \o path
  <2>0. u \in Known /\ v \in Known
    BY DEF Known
  <2>1. \A i \in 1 .. Len(path) : Less(hops[i], hops[i + 1])
    BY <2>0, HopsDef
  <2>2. \A w \in Range(registered) : Less(u, w) /\ Less(w, v) => w \in Range(path)
    BY <2>0, PathDef DEF AtMost
  <2>3. ASSUME Less(u, v), NEW w \in Range(registered), Same(w, v)
        PROVE  /\ path # << >> /\ Same(Last(path), v)
               /\ UpgradeType(u, v) = "major" <=>
                    \E i \in DOMAIN path :
                      UpgradeType(hops[i], hops[i + 1]) = "major"
    <3>1. path # << >> /\ Same(Last(path), v)
      BY <2>0, <2>3, PathEnds
    <3>2. UpgradeType(u, v) = "major" <=>
            \E i \in DOMAIN path : UpgradeType(hops[i], hops[i + 1]) = "major"
      BY <2>0, <2>3, MajorHop, Zenon
    <3> QED
      BY <3>1, <3>2
  <2> QED
    BY <2>1, <2>2, <2>3
<1> QED
  BY <1>1, VersionsStaySorted, PTL


-----------------------------------------------------------------------------
\* Of a list in ascending order, all but the last come before the last.
LEMMA BelowLast ==
  ASSUME NEW s \in Seq(VersionSet), IsInjective(s), s # << >>,
         \A i, j \in DOMAIN s : i < j => Less(s[i], s[j])
  PROVE  LET below == {v \in Range(s) : Less(v, Last(s))}
         IN  below = {s[i] : i \in 1 .. Len(s) - 1} /\ Cardinality(below) = Len(s) - 1
<1> DEFINE n == Len(s)
           below == {v \in Range(s) : Less(v, Last(s))}
           f == [i \in 1 .. n - 1 |-> s[i]]
<1>1. /\ n \in Nat /\ n \in 1 .. n /\ n - 1 \in Nat /\ DOMAIN s = 1 .. n
      /\ \A i \in 1 .. n : s[i] \in VersionSet
      /\ \A i \in 1 .. n : i = n \/ (i \in 1 .. n - 1 /\ i < n)
      /\ \A i \in 1 .. n - 1 : i \in 1 .. n /\ i < n
  <2>1. n \in Nat /\ DOMAIN s = 1 .. n /\ \A i \in 1 .. n : s[i] \in VersionSet
    OBVIOUS
  <2>2. n # 0
    <3> SUFFICES ASSUME Len(s) = 0 PROVE s = << >>
      OBVIOUS
    <3> QED
      BY EmptySeq
  <2> HIDE DEF n
  <2> QED
    BY <2>1, <2>2, SMT
<1>2. Last(s) = s[n]
  BY DEF Last
<1> HIDE DEF n
<1>3. ~Less(s[n], s[n])
  BY <1>1, VersionsAreSemantic, LessOrder DEF Known
<1>4. below = {s[i] : i \in 1 .. n - 1}
  <2>1. ASSUME NEW v \in below PROVE v \in {s[i] : i \in 1 .. n - 1}
    <3>1. PICK i \in 1 .. n : v = s[i]
      BY <1>1 DEF Range
    <3>2. i # n
      BY <1>2, <1>3, <3>1
    <3> QED
      BY <1>1, <3>1, <3>2
  <2>2. ASSUME NEW i \in 1 .. n - 1 PROVE s[i] \in below
    <3>1. i \in 1 .. n /\ i < n
      BY <1>1
    <3>2. Less(s[i], s[n])
      BY <1>1, <3>1
    <3> QED
      BY <1>1, <1>2, <3>1, <3>2 DEF Range
  <2> QED
    BY <2>1, <2>2
<1> HIDE DEF below
<1>5. ExistsBijection(1 .. n - 1, below)
  <2>1. f \in [1 .. n - 1 -> below]
    BY <1>4
  <2>2. f \in Injection(1 .. n - 1, below)
    <3> SUFFICES ASSUME NEW i \in 1 .. n - 1, NEW j \in 1 .. n - 1, f[i] = f[j]
                 PROVE  i = j
      BY <2>1 DEF Injection, IsInjective
    <3> QED
      BY <1>1 DEF IsInjective
  <2>3. f \in Surjection(1 .. n - 1, below)
    BY <1>4, <2>1 DEF Surjection
  <2> QED
    BY <2>2, <2>3 DEF ExistsBijection, Bijection
<1>6. Cardinality(below) = n - 1
  BY <1>1, <1>5, FS_CountingElements
<1> QED
  BY <1>4, <1>6 DEF n, below

\* The smaller of two counts.
LEMMA MinOfTwo ==
  ASSUME NEW a \in Int, NEW b \in Int
  PROVE  Min({a, b}) = IF a <= b THEN a ELSE b
<1> DEFINE m == IF a <= b THEN a ELSE b
<1>1. m \in {a, b} /\ \A y \in {a, b} : m =< y
  BY SMT
<1>2. \A x \in {a, b} : (\A y \in {a, b} : x =< y) => x = m
  BY SMT
<1> HIDE DEF m
<1>3. Min({a, b}) = m
  BY <1>1, <1>2 DEF Min
<1> QED
  BY <1>3 DEF m

\* What one clean-up does to the targets of the version written last.
LEMMA CleanupStep ==
  ASSUME TypeOK, CleanupOldVersions, stored # << >>
  PROVE  LET latest == Last(stored)
             before == {v \in Files : CanRollback(latest, v)}
             after == {v \in Range(stored') : Less(v, latest)}
         IN  /\ stored' # << >> /\ Last(stored') = latest
             /\ Ascending =>
                  /\ Cardinality(after) = Min({Cardinality(before), keep - 1})
                  /\ \A u \in before \ after, v \in after : Less(u, v)
<1> DEFINE n == Len(stored)
           k == Len(stored')
           latest == Last(stored)
           before == {v \in Files : CanRollback(latest, v)}
           after == {v \in Range(stored') : Less(v, latest)}
<1>1. /\ stored \in Seq(VersionSet) /\ IsInjective(stored)
      /\ stored' \in Seq(VersionSet) /\ IsInjective(stored') /\ keep \in Nat /\ keep >= 1
  BY CleanupPart DEF TypeOK
<1>2. n \in Nat /\ n >= 1 /\ DOMAIN stored = 1 .. n /\ DOMAIN stored' = 1 .. k
  <2>1. n \in Nat /\ DOMAIN stored = 1 .. n /\ DOMAIN stored' = 1 .. k
    BY <1>1
  <2>2. n # 0
    BY <1>1, EmptySeq
  <2> HIDE DEF n
  <2> QED
    BY <2>1, <2>2, SMT
<1>3. /\ k = (IF n <= keep THEN n ELSE keep)
      /\ \A j \in 1 .. k : stored'[j] = stored[n - k + j]
  <2>1. CASE n <= keep
    <3>1. stored' = stored
      BY <2>1, CleanupPart
    <3>2. k = n
      BY <3>1
    <3> HIDE DEF n, k
    <3>3. \A j \in 1 .. k : n - k + j = j
      BY <1>2, <3>2, SMT
    <3> QED
      BY <2>1, <3>1, <3>2, <3>3
  <2>2. CASE ~(n <= keep)
    <3>1. n > keep
      BY <1>1, <1>2, <2>2, SMT
    <3>2. k = keep /\ \A j \in 1 .. keep : stored'[j] = stored[n - keep + j]
      BY <3>1, CleanupPart
    <3> QED
      BY <2>2, <3>2
  <2> QED
    BY <2>1, <2>2
<1>4. latest = stored[n] /\ Last(stored') = stored'[k]
  BY DEF Last
<1> HIDE DEF n, k, latest
<1>5. /\ k \in Nat /\ k >= 1 /\ k \in 1 .. k /\ n - k \in Nat /\ n - k + k = n
      /\ k - 1 = IF n - 1 <= keep - 1 THEN n - 1 ELSE keep - 1
  BY <1>1, <1>2, <1>3, SMT
<1>6. stored' # << >> /\ Last(stored') = latest
  <2>1. stored' # << >>
    BY <1>2, <1>5
  <2> QED
    BY <1>3, <1>4, <1>5, <2>1
<1>7. ASSUME Ascending
      PROVE  /\ Cardinality(after) = Min({Cardinality(before), keep - 1})
             /\ \A u \in before \ after, v \in after : Less(u, v)
  <2>1. \A i, j \in DOMAIN stored : i < j => Less(stored[i], stored[j])
    BY <1>7 DEF Ascending
  <2>2. \A i, j \in DOMAIN stored' : i < j => Less(stored'[i], stored'[j])
    <3> SUFFICES ASSUME NEW i \in 1 .. k, NEW j \in 1 .. k, i < j
                 PROVE  Less(stored'[i], stored'[j])
      BY <1>2
    <3>1. n - k + i \in 1 .. n /\ n - k + j \in 1 .. n /\ n - k + i < n - k + j
      BY <1>2, <1>5, SMT
    <3> QED
      BY <1>2, <1>3, <2>1, <3>1
  <2>3. before = {stored[i] : i \in 1 .. n - 1} /\ Cardinality(before) = n - 1
    BY <1>1, <2>1, BelowLast DEF CanRollback, Files, n, latest
  <2>4. after = {stored'[i] : i \in 1 .. k - 1} /\ Cardinality(after) = k - 1
    BY <1>1, <1>6, <2>2, BelowLast DEF k
  <2>5. Cardinality(after) = Min({Cardinality(before), keep - 1})
    <3>1. n - 1 \in Int /\ keep - 1 \in Int
      BY <1>1, <1>2, SMT
    <3>2. Min({n - 1, keep - 1}) = IF n - 1 <= keep - 1 THEN n - 1 ELSE keep - 1
      BY <3>1, MinOfTwo
    <3> QED
      BY <1>5, <2>3, <2>4, <3>2
  <2> HIDE DEF before, after
  <2>6. ASSUME NEW u \in before \ after, NEW v \in after PROVE Less(u, v)
    <3>1. PICK i \in 1 .. n - 1 : u = stored[i]
      BY <2>3
    <3>2. PICK j \in 1 .. k - 1 : v = stored'[j]
      BY <2>4
    <3>3. v = stored[n - k + j] /\ n - k + j \in 1 .. n /\ i \in 1 .. n
      <4>1. j \in 1 .. k /\ n - k + j \in 1 .. n /\ i \in 1 .. n
        BY <1>2, <1>5, SMT
      <4> QED
        BY <1>3, <3>2, <4>1
    <3>4. i < n - k + j
      <4> SUFFICES ASSUME ~(i < n - k + j) PROVE FALSE
        OBVIOUS
      <4>1. /\ i - (n - k) \in 1 .. k - 1 /\ i - (n - k) \in 1 .. k
            /\ n - k + (i - (n - k)) = i
        BY <1>2, <1>5, SMT
      <4>2. stored'[i - (n - k)] = stored[i]
        BY <1>3, <4>1
      <4>3. u \in after
        BY <2>4, <3>1, <4>1, <4>2
      <4> QED
        BY <4>3
    <3> QED
      BY <1>2, <2>1, <3>1, <3>3, <3>4
  <2> QED
    BY <2>5, <2>6
<1> QED
  BY <1>6, <1>7 DEF latest

\* Retention keeps the file written last, and where files were written in
\* ascending order the highest targets the limit has room for
\* (cleanup_old_versions), for any number of files and any limit.
THEOREM CleanupKeepsTargets == Spec => CleanupKeepsRollback
<1>1. TypeOK /\ [Next]_vars =>
        [CleanupOldVersions /\ stored # << >> =>
           LET latest == Last(stored)
               before == {v \in Files : CanRollback(latest, v)}
               after == {v \in Range(stored') : Less(v, latest)}
           IN  /\ stored' # << >> /\ Last(stored') = latest
               /\ Ascending =>
                    /\ Cardinality(after) = Min({Cardinality(before), keep - 1})
                    /\ \A u \in before \ after, v \in after : Less(u, v)]_vars
  BY CleanupStep
<1> QED
  BY <1>1, VersionsTyped, PTL DEF Spec, CleanupKeepsRollback


-----------------------------------------------------------------------------
\* Identifiers as VERSION_PATTERN lets them through.
Words(pre) ==
  /\ pre \in Seq(Seq(Nat))
  /\ \A i \in DOMAIN pre : pre[i] # << >> /\ \A j \in DOMAIN pre[i] : pre[i][j] >= 48

\* t begins with s.
Begins(s, t) == Len(s) <= Len(t) /\ \A i \in 1 .. Len(s) : t[i] = s[i]

\* Where identifier k + 1 begins, less one.
Offset(text, k) == IF k = 0 THEN 0 ELSE Len(text[k]) + 1

\* A string begins with itself.
LEMMA BeginsItself ==
  ASSUME NEW s \in Seq(Nat)
  PROVE  Begins(s, s)
<1>1. Len(s) \in Nat
  OBVIOUS
<1> QED
  BY <1>1 DEF Begins

\* What begins with t begins with the beginnings of t.
LEMMA BeginsOn ==
  ASSUME NEW s \in Seq(Nat), NEW t \in Seq(Nat), NEW u \in Seq(Nat),
         Begins(s, t), Begins(t, u)
  PROVE  Begins(s, u)
<1>1. Len(s) \in Nat /\ Len(t) \in Nat /\ Len(u) \in Nat
  OBVIOUS
<1>2. Len(s) <= Len(t) /\ Len(t) <= Len(u)
  BY DEF Begins
<1>3. Len(s) <= Len(u) /\ \A i \in 1 .. Len(s) : i \in 1 .. Len(t)
  BY <1>1, <1>2, SMT
<1> QED
  BY <1>3 DEF Begins

\* One identifier more: after the string so far and a dot.
LEMMA SpellingStep ==
  ASSUME NEW pre, Words(pre), NEW text, Spelling(text, pre),
         NEW k \in 0 .. Len(pre) - 1
  PROVE  /\ text[k] \in Seq(Nat) /\ text[k + 1] \in Seq(Nat)
         /\ Len(text[k + 1]) = Offset(text, k) + Len(pre[k + 1])
         /\ \A j \in 1 .. Len(pre[k + 1]) : text[k + 1][Offset(text, k) + j] = pre[k + 1][j]
         /\ k # 0 => text[k + 1][Len(text[k]) + 1] = Dot
         /\ Begins(text[k], text[k + 1])
<1>1. /\ pre \in Seq(Seq(Nat)) /\ text \in [0 .. Len(pre) -> Seq(Nat)] /\ text[0] = << >>
      /\ \A i \in 1 .. Len(pre) :
           text[i] = IF i = 1 THEN pre[1] ELSE text[i - 1] \o <<Dot>> \o pre[i]
  BY DEF Words, Spelling
<1>2. Len(pre) \in Nat /\ \A i \in 1 .. Len(pre) : pre[i] \in Seq(Nat)
  BY <1>1
<1>3. k \in 0 .. Len(pre) /\ k + 1 \in 0 .. Len(pre) /\ k + 1 \in 1 .. Len(pre)
      /\ (k + 1) - 1 = k /\ k \in Nat
  BY <1>2, SMT
<1>4. text[k] \in Seq(Nat) /\ text[k + 1] \in Seq(Nat) /\ pre[k + 1] \in Seq(Nat)
  BY <1>1, <1>2, <1>3
<1>5. CASE k = 0
  <2>1. text[k + 1] = pre[k + 1] /\ text[k] = << >>
    BY <1>1, <1>3, <1>5
  <2>2. Len(text[k]) = 0 /\ Offset(text, k) = 0
    BY <1>5, <2>1 DEF Offset
  <2>3. Len(pre[k + 1]) \in Nat /\ \A j \in 1 .. Len(pre[k + 1]) : 0 + j = j
    BY <1>4, SMT
  <2>4. Begins(text[k], text[k + 1])
    BY <2>1, <2>2, <2>3, SMT DEF Begins
  <2> QED
    BY <1>4, <1>5, <2>1, <2>2, <2>3, <2>4
<1>6. CASE k # 0
  <2> DEFINE t == text[k]
             id == pre[k + 1]
             dot == <<Dot>>
             head == t \o dot
             n == Len(text[k])
  <2>1. text[k + 1] = head \o id
    <3>1. k + 1 # 1
      BY <1>3, <1>6, SMT
    <3> QED
      BY <1>1, <1>3, <3>1
  <2>2. t \in Seq(Nat) /\ id \in Seq(Nat) /\ n \in Nat /\ Len(id) \in Nat
    BY <1>4
  <2>3. dot \in Seq(Nat) /\ Len(dot) = 1 /\ dot[1] = Dot
    BY DEF Dot
  <2>4. n = Len(t)
    OBVIOUS
  <2> HIDE DEF t, id, dot, n
  <2>5. head \in Seq(Nat) /\ Len(head) = n + 1
    <3>1. t \o dot \in Seq(Nat) /\ Len(t \o dot) = Len(t) + Len(dot)
      BY <2>2, <2>3, Joined, Zenon
    <3> QED
      BY <2>3, <2>4, <3>1
  <2>6. ASSUME NEW i \in 1 .. n PROVE head[i] = t[i]
    <3>1. i \in 1 .. Len(t)
      BY <2>4
    <3> QED
      BY <2>2, <2>3, <3>1, Joined, Zenon
  <2>7. head[n + 1] = Dot
    <3>1. 1 \in 1 .. Len(dot)
      BY <2>3, SMT
    <3>2. t \in Seq(Nat) /\ dot \in Seq(Nat)
      BY <2>2, <2>3
    <3> HIDE DEF head
    <3>3. (t \o dot)[Len(t) + 1] = dot[1]
      BY <3>1, <3>2, Joined
    <3> QED
      BY <2>3, <2>4, <3>3 DEF head
  <2> HIDE DEF head
  <2> DEFINE new == head \o id
  <2>8. Len(new) = n + 1 + Len(id)
    <3>1. Len(new) = Len(head) + Len(id)
      BY <2>2, <2>5, Joined
    <3> QED
      BY <2>5, <3>1
  <2>9. ASSUME NEW i \in 1 .. n + 1 PROVE new[i] = head[i]
    <3>1. i \in 1 .. Len(head)
      BY <2>5
    <3> QED
      BY <2>2, <2>5, <3>1, Joined, Zenon
  <2>10. ASSUME NEW j \in 1 .. Len(id) PROVE new[n + 1 + j] = id[j]
    <3>1. (head \o id)[Len(head) + j] = id[j]
      BY <2>2, <2>5, <2>10, Joined, SMT
    <3> QED
      BY <2>5, <3>1
  <2>11. n + 1 \in 1 .. n + 1 /\ n <= n + 1 + Len(id) /\ \A i \in 1 .. n : i \in 1 .. n + 1
    BY <2>2, SMT
  <2> HIDE DEF new
  <2>12. new[n + 1] = Dot
    BY <2>7, <2>9, <2>11
  <2>13. Begins(t, new)
    BY <2>4, <2>6, <2>8, <2>9, <2>11 DEF Begins
  <2>14. Offset(text, k) = n + 1
    BY <1>6 DEF Offset, n
  <2>15. text[k + 1] = new
    BY <2>1 DEF new
  <2> QED
    BY <1>4, <2>8, <2>10, <2>12, <2>13, <2>14, <2>15 DEF t, id, n
<1> QED
  BY <1>5, <1>6

\* The string begins with every part of it.
LEMMA SpellingBegins ==
  ASSUME NEW pre, Words(pre), NEW text, Spelling(text, pre), NEW k \in 0 .. Len(pre)
  PROVE  text[k] \in Seq(Nat) /\ Text(pre) \in Seq(Nat) /\ Begins(text[k], Text(pre))
<1> DEFINE N == Len(pre)
           S == {m \in 0 .. N : m < k \/ Begins(text[k], text[m])}
<1>1. pre \in Seq(Seq(Nat)) /\ text \in [0 .. N -> Seq(Nat)] /\ Text(pre) = text[N]
  BY DEF Words, Spelling
<1>2. N \in Nat /\ k \in 0 .. N
  BY <1>1
<1> HIDE DEF N
<1>3. N \in 0 .. N /\ ~(N < k) /\ 0 \in 0 .. N /\ (0 < k \/ k = 0)
  BY <1>2, SMT
<1>4. text[k] \in Seq(Nat) /\ Text(pre) \in Seq(Nat)
  BY <1>1, <1>2, <1>3
<1>5. 0 \in S
  BY <1>3, <1>4, BeginsItself
<1>6. ASSUME NEW m \in 1 .. N, m - 1 \in S PROVE m \in S
  <2>1. m \in 0 .. N /\ m - 1 \in 0 .. N - 1 /\ m - 1 \in 0 .. N /\ (m - 1) + 1 = m
        /\ (m < k \/ m = k \/ ~(m - 1 < k))
    BY <1>2, SMT
  <2>2. CASE m < k
    BY <2>1, <2>2
  <2>3. CASE m = k
    BY <1>4, <2>1, <2>3, BeginsItself
  <2>4. CASE ~(m - 1 < k)
    <3>1. Begins(text[k], text[m - 1])
      BY <1>6, <2>4
    <3>2. Begins(text[m - 1], text[m])
      BY <2>1, SpellingStep DEF N
    <3>3. text[m - 1] \in Seq(Nat) /\ text[m] \in Seq(Nat)
      BY <1>1, <2>1
    <3>4. Begins(text[k], text[m])
      BY <1>4, <3>1, <3>2, <3>3, BeginsOn
    <3> QED
      BY <2>1, <3>4
  <2> QED
    BY <2>1, <2>2, <2>3, <2>4
<1> HIDE DEF S
<1>7. 0 .. N \subseteq S
  BY <1>2, <1>5, <1>6, CountUp
<1>8. N \in S
  BY <1>3, <1>7
<1>9. Begins(text[k], text[N])
  BY <1>3, <1>8 DEF S
<1> QED
  BY <1>1, <1>4, <1>9


\* What is alike is spelled alike.
LEMMA SpelledAlike ==
  ASSUME NEW P, Words(P), NEW Q, Words(Q), NEW f, Spelling(f, P), NEW g, Spelling(g, Q),
         NEW n \in Nat, n <= Len(P), n <= Len(Q), Alike(P, Q, n)
  PROVE  f[n] = g[n]
<1>1. /\ f[0] = << >> /\ g[0] = << >>
      /\ \A i \in 1 .. Len(P) :
           f[i] = IF i = 1 THEN P[1] ELSE f[i - 1] \o <<Dot>> \o P[i]
      /\ \A i \in 1 .. Len(Q) :
           g[i] = IF i = 1 THEN Q[1] ELSE g[i - 1] \o <<Dot>> \o Q[i]
  BY DEF Spelling
<1>2. Len(P) \in Nat /\ Len(Q) \in Nat
  BY DEF Words
<1> DEFINE S == {m \in 0 .. n : f[m] = g[m]}
<1>3. 0 \in S
  BY <1>1, SMT
<1>4. ASSUME NEW m \in 1 .. n, m - 1 \in S PROVE m \in S
  <2>1. m \in 0 .. n /\ m \in 1 .. Len(P) /\ m \in 1 .. Len(Q)
    BY <1>2, SMT
  <2>2. P[m] = Q[m]
    BY DEF Alike
  <2>3. f[m - 1] = g[m - 1]
    BY <1>4
  <2>4. f[m] = IF m = 1 THEN P[1] ELSE f[m - 1] \o <<Dot>> \o P[m]
    BY <1>1, <2>1
  <2>5. g[m] = IF m = 1 THEN Q[1] ELSE g[m - 1] \o <<Dot>> \o Q[m]
    BY <1>1, <2>1
  <2>6. f[m] = g[m]
    <3>1. CASE m = 1
      BY <2>2, <2>4, <2>5, <3>1
    <3>2. CASE m # 1
      BY <2>2, <2>3, <2>4, <2>5, <3>2
    <3> QED
      BY <3>1, <3>2
  <2> QED
    BY <2>1, <2>6
<1> HIDE DEF S
<1>5. 0 .. n \subseteq S
  BY <1>3, <1>4, CountUp
<1>6. n \in S
  BY <1>5, SMT
<1> QED
  BY <1>6 DEF S

\* q stands in b after the first c characters, and a dot or the end after it.
StandsAt(q, b, c) ==
  /\ Len(b) >= c + Len(q) /\ \A j \in 1 .. Len(q) : b[c + j] = q[j]
  /\ Len(b) > c + Len(q) => b[c + Len(q) + 1] = Dot

\* Where two strings differ first in an identifier they are ordered as the
\* identifiers are, because every word character comes after the dot.
LEMMA OrderedAt ==
  ASSUME NEW a \in Seq(Nat), NEW b \in Seq(Nat), NEW c \in Nat, Alike(a, b, c),
         NEW p \in Seq(Nat), NEW q \in Seq(Nat), StandsAt(p, a, c), StandsAt(q, b, c),
         \A j \in DOMAIN p : p[j] >= 48, LexLess(q, p, Below)
  PROVE  LexLess(b, a, Below)
<1>1. /\ Len(a) \in Nat /\ Len(b) \in Nat /\ Len(p) \in Nat /\ Len(q) \in Nat
      /\ Len(a) >= c + Len(p) /\ Len(b) >= c + Len(q)
  BY DEF StandsAt
<1>2. PICK n \in 0 .. Len(p) - 1 :
        /\ n <= Len(q) /\ \A i \in 1 .. n : q[i] = p[i]
        /\ n < Len(q) => q[n + 1] < p[n + 1]
  BY DEF LexLess, Below
<1>3. /\ c + n \in 0 .. Len(a) - 1 /\ c + n <= Len(b) /\ n \in Nat
      /\ n + 1 \in 1 .. Len(p)
  BY <1>1, <1>2, SMT
<1>4. a[c + n + 1] = p[n + 1]
  <2>1. c + (n + 1) = c + n + 1
    BY <1>3, SMT
  <2> QED
    BY <1>3, <2>1 DEF StandsAt
<1>5. ASSUME NEW i \in 1 .. c + n PROVE b[i] = a[i]
  <2>1. CASE i \in 1 .. c
    BY <2>1 DEF Alike
  <2>2. CASE i \notin 1 .. c
    <3>1. /\ i - c \in 1 .. n /\ i - c \in 1 .. Len(p) /\ i - c \in 1 .. Len(q)
          /\ c + (i - c) = i
      <4>1. n \in Nat /\ n <= Len(p) /\ n <= Len(q) /\ i \in 1 .. c + n
        BY <1>1, <1>2, <1>3, <1>5
      <4> QED
        BY <1>1, <2>2, <4>1, SMT
    <3>2. b[i] = q[i - c] /\ a[i] = p[i - c]
      BY <3>1 DEF StandsAt
    <3> QED
      BY <1>2, <3>1, <3>2
  <2> QED
    BY <2>1, <2>2
<1>6. ASSUME c + n < Len(b) PROVE b[c + n + 1] < a[c + n + 1]
  <2>1. CASE n < Len(q)
    <3>1. n + 1 \in 1 .. Len(q) /\ c + (n + 1) = c + n + 1
      BY <1>1, <1>3, <2>1, SMT
    <3>2. b[c + n + 1] = q[n + 1]
      BY <3>1 DEF StandsAt
    <3> QED
      BY <1>2, <1>4, <2>1, <3>2
  <2>2. CASE ~(n < Len(q))
    <3>1. n = Len(q) /\ Len(b) > c + Len(q)
      BY <1>1, <1>2, <1>3, <1>6, <2>2, SMT
    <3>2. b[c + n + 1] = 46
      BY <3>1 DEF StandsAt, Dot
    <3>3. p[n + 1] >= 48 /\ p[n + 1] \in Nat
      BY <1>3
    <3> QED
      BY <1>4, <3>2, <3>3, SMT
  <2> QED
    BY <2>1, <2>2
<1> QED
  BY <1>3, <1>5, <1>6 DEF LexLess, Below

\* Between two identifiers there is a dot.
LEMMA DotAfter ==
  ASSUME NEW P, Words(P), NEW f, Spelling(f, P), NEW m \in 0 .. Len(P) - 1, m # 0
  PROVE  Text(P)[Len(f[m]) + 1] = Dot
<1> DEFINE next == f[m + 1]
           x == Len(f[m])
           y == Len(P[m + 1])
           z == Len(next)
<1>1. P \in Seq(Seq(Nat))
  BY DEF Words
<1>2. m + 1 \in 0 .. Len(P) /\ m + 1 \in 1 .. Len(P)
  <2>1. Len(P) \in Nat
    BY <1>1
  <2> QED
    BY <2>1, SMT
<1>3. next[x + 1] = Dot /\ z = Offset(f, m) + y /\ f[m] \in Seq(Nat)
  BY SpellingStep
<1>4. Begins(next, Text(P))
  BY <1>2, SpellingBegins
<1>5. P[m + 1] \in Seq(Nat)
  BY <1>1, <1>2
<1>6. z = x + 1 + y /\ x \in Nat /\ y \in Nat
  BY <1>3, <1>5 DEF Offset
<1> HIDE DEF x, y, z
<1>7. x + 1 \in 1 .. z
  BY <1>6, SMT
<1> HIDE DEF next
<1>8. Text(P)[x + 1] = next[x + 1]
  BY <1>4, <1>7 DEF Begins, z
<1> QED
  BY <1>3, <1>8 DEF x

\* An identifier stands in the string where its spelling puts it.
LEMMA StandsInText ==
  ASSUME NEW P, Words(P), NEW f, Spelling(f, P), NEW n \in Nat, n + 1 \in 1 .. Len(P)
  PROVE  StandsAt(P[n + 1], Text(P), Offset(f, n))
<1> DEFINE a == Text(P)
           p == P[n + 1]
           c == Offset(f, n)
           now == f[n + 1]
<1>1. P \in Seq(Seq(Nat)) /\ Text(P) = f[Len(P)]
  BY DEF Words, Spelling
<1>2. Len(P) \in Nat /\ p \in Seq(Nat)
  BY <1>1
<1>3. /\ n \in 0 .. Len(P) - 1 /\ n + 1 \in 0 .. Len(P) /\ n \in 0 .. Len(P)
      /\ (n + 1 = Len(P) \/ n + 1 \in 0 .. Len(P) - 1)
  BY <1>2, SMT
<1>4. f[n] \in Seq(Nat) /\ now \in Seq(Nat) /\ a \in Seq(Nat) /\ Begins(now, a)
  BY <1>3, SpellingBegins
<1>5. c \in Nat
  BY <1>4, SMT DEF Offset
<1>6. Len(now) = c + Len(p) /\ \A j \in 1 .. Len(p) : now[c + j] = p[j]
  BY <1>3, SpellingStep
<1>7. Len(a) >= c + Len(p) /\ \A j \in 1 .. Len(p) : a[c + j] = p[j]
  <2> HIDE DEF a, p, c, now
  <2>1. Len(now) <= Len(a) /\ \A i \in 1 .. Len(now) : a[i] = now[i]
    BY <1>4 DEF Begins
  <2>2. Len(p) \in Nat /\ \A j \in 1 .. Len(p) : c + j \in 1 .. c + Len(p)
    BY <1>2, <1>5, SMT
  <2>3. Len(a) \in Nat
    BY <1>4
  <2>4. Len(a) >= c + Len(p)
    BY <1>5, <1>6, <2>1, <2>2, <2>3, SMT
  <2> QED
    BY <1>6, <2>1, <2>2, <2>4
<1>8. ASSUME Len(a) > c + Len(p) PROVE a[c + Len(p) + 1] = Dot
  <2>1. n + 1 # Len(P)
    <3> SUFFICES ASSUME n + 1 = Len(P) PROVE FALSE
      OBVIOUS
    <3>1. a = now
      BY <1>1
    <3>2. Len(a) = c + Len(p)
      BY <1>6, <3>1
    <3>3. Len(a) \in Nat
      BY <1>4
    <3> QED
      BY <1>8, <3>2, <3>3, SMT
  <2> DEFINE m == n + 1
  <2>2. m \in 0 .. Len(P) - 1 /\ m # 0
    BY <1>2, <1>3, <2>1, SMT
  <2> HIDE DEF m
  <2>6. a[Len(f[m]) + 1] = Dot
    BY <2>2, DotAfter
  <2>7. Len(f[m]) = c + Len(p)
    BY <1>6 DEF m
  <2> QED
    BY <2>6, <2>7
<1> QED
  BY <1>7, <1>8 DEF StandsAt


\* Two identifiers compared as strings.
IdLess(p, q) == LexLess(p, q, Below)

\* Up to the identifiers where they first differ the strings are alike.
LEMMA TextsAlike ==
  ASSUME NEW P, Words(P), NEW Q, Words(Q), NEW f, Spelling(f, P), NEW g, Spelling(g, Q),
         NEW n \in Nat, n + 1 \in 1 .. Len(P), n + 1 \in 1 .. Len(Q), Alike(P, Q, n)
  PROVE  /\ Offset(f, n) = Offset(g, n) /\ Offset(f, n) \in Nat
         /\ Alike(Text(P), Text(Q), Offset(f, n))
<1> DEFINE a == Text(P)
           b == Text(Q)
           h == f[n]
<1>1. P \in Seq(Seq(Nat)) /\ Q \in Seq(Seq(Nat))
  BY DEF Words
<1>2. /\ n <= Len(P) /\ n <= Len(Q) /\ n \in 0 .. Len(P) - 1 /\ n \in 0 .. Len(Q) - 1
      /\ n \in 0 .. Len(P) /\ n \in 0 .. Len(Q)
  <2>1. Len(P) \in Nat /\ Len(Q) \in Nat
    BY <1>1
  <2> QED
    BY <2>1, SMT
<1>3. f[n] = g[n]
  BY <1>2, SpelledAlike
<1>4. h \in Seq(Nat) /\ Begins(h, a)
  BY <1>2, SpellingBegins
<1>5. Begins(h, b)
  <2>1. Begins(g[n], b)
    BY <1>2, SpellingBegins
  <2> QED
    BY <1>3, <2>1
<1>6. Len(h) \in Nat
  BY <1>4
<1>7. Offset(f, n) = Offset(g, n)
  BY <1>3 DEF Offset
<1>8. CASE n = 0
  BY <1>7, <1>8, SMT DEF Offset, Alike
<1>9. CASE n # 0
  <2>1. a[Len(h) + 1] = Dot
    BY <1>2, <1>9, DotAfter
  <2>2. b[Len(h) + 1] = Dot
    <3>1. b[Len(g[n]) + 1] = Dot
      BY <1>2, <1>9, DotAfter
    <3> QED
      BY <1>3, <3>1
  <2>3. Offset(f, n) = Len(h) + 1
    BY <1>9 DEF Offset
  <2> HIDE DEF a, b, h
  <2>4. \A i \in 1 .. Len(h) + 1 : i \in 1 .. Len(h) \/ i = Len(h) + 1
    BY <1>6, SMT
  <2>5. \A i \in 1 .. Len(h) : a[i] = h[i] /\ b[i] = h[i]
    BY <1>4, <1>5 DEF Begins
  <2>6. Alike(a, b, Len(h) + 1)
    BY <2>1, <2>2, <2>4, <2>5 DEF Alike
  <2>7. Len(h) + 1 \in Nat
    BY <1>6
  <2> QED
    BY <1>7, <2>3, <2>6, <2>7 DEF a, b
<1> QED
  BY <1>8, <1>9

\* The strings of two pre-releases are ordered as their identifiers are, one
\* after the other, each as a string (_comparison_tuple).
LEMMA TextOrder ==
  ASSUME NEW P, Words(P), NEW Q, Words(Q), LexLess(Text(P), Text(Q), Below)
  PROVE  LexLess(P, Q, IdLess)
<1> DEFINE a == Text(P)
           b == Text(Q)
<1>1. P \in Seq(Seq(Nat)) /\ Q \in Seq(Seq(Nat))
  BY DEF Words
<1>2. Len(P) \in Nat /\ Len(Q) \in Nat
  BY <1>1
<1> PICK f : Spelling(f, P)
  BY <1>1, TextDef
<1> PICK g : Spelling(g, Q)
  BY <1>1, TextDef
<1>3. a \in Seq(Nat) /\ b \in Seq(Nat) /\ a \in Seq(Int) /\ b \in Seq(Int)
  <2>1. Len(P) \in 0 .. Len(P) /\ Len(Q) \in 0 .. Len(Q)
    BY <1>2, SMT
  <2>2. a \in Seq(Nat) /\ b \in Seq(Nat)
    BY <2>1, SpellingBegins
  <2> QED
    BY <2>2
<1>4. LexLess(a, b, Below)
  OBVIOUS
<1>5. ~LexLess(b, a, Below)
  BY <1>3, <1>4, LexTransitive, LexIrreflexive
<1> HIDE DEF a, b
<1>6. CASE Len(P) <= Len(Q) /\ Alike(P, Q, Len(P))
  <2>1. Len(P) # Len(Q)
    <3> SUFFICES ASSUME Len(P) = Len(Q) PROVE FALSE
      OBVIOUS
    <3>1. P = Q
      BY <1>1, <1>6, SeqEqual DEF Alike
    <3>2. a = b
      BY <3>1 DEF a, b
    <3> QED
      BY <1>4, <1>5, <3>2
  <2>2. Len(P) \in 0 .. Len(Q) - 1 /\ Len(P) <= Len(P) /\ ~(Len(P) < Len(P))
    BY <1>2, <1>6, <2>1, SMT
  <2> QED
    BY <1>6, <2>2 DEF LexLess, Alike
<1>7. CASE Len(Q) < Len(P) /\ Alike(P, Q, Len(Q))
  <2>1. Len(Q) <= Len(P) /\ Len(Q) <= Len(Q) /\ Len(Q) \in 0 .. Len(P)
    BY <1>2, <1>7, SMT
  <2>2. f[Len(Q)] = b
    <3>1. f[Len(Q)] = g[Len(Q)]
      BY <1>2, <1>7, <2>1, SpelledAlike
    <3> QED
      BY <3>1 DEF Spelling, b
  <2>3. Begins(b, a)
    BY <2>1, <2>2, SpellingBegins DEF a
  <2>4. PICK n \in 0 .. Len(b) - 1 : n < Len(a) => a[n + 1] < b[n + 1]
    BY <1>4 DEF LexLess, Below
  <2>5. Len(b) <= Len(a) /\ Len(a) \in Nat /\ Len(b) \in Nat
    BY <1>3, <2>3 DEF Begins
  <2>6. n < Len(a) /\ n + 1 \in 1 .. Len(b)
    BY <2>5, SMT
  <2>7. a[n + 1] = b[n + 1] /\ b[n + 1] \in Nat
    BY <1>3, <2>3, <2>6 DEF Begins
  <2> QED
    BY <2>4, <2>6, <2>7, SMT
<1>8. CASE \E n \in Nat : /\ n + 1 \in 1 .. Len(P) /\ n + 1 \in 1 .. Len(Q)
                          /\ Alike(P, Q, n) /\ P[n + 1] # Q[n + 1]
  <2>1. PICK n \in Nat : /\ n + 1 \in 1 .. Len(P) /\ n + 1 \in 1 .. Len(Q)
                         /\ Alike(P, Q, n) /\ P[n + 1] # Q[n + 1]
    BY <1>8
  <2> DEFINE p == P[n + 1]
             q == Q[n + 1]
             c == Offset(f, n)
  <2>2. c = Offset(g, n) /\ c \in Nat /\ Alike(a, b, c)
    BY <2>1, TextsAlike DEF a, b
  <2>3. StandsAt(p, a, c)
    BY <2>1, StandsInText DEF a
  <2>4. StandsAt(q, b, c)
    <3>1. StandsAt(q, b, Offset(g, n))
      BY <2>1, StandsInText DEF b
    <3> QED
      BY <2>2, <3>1
  <2>5. /\ p \in Seq(Nat) /\ q \in Seq(Nat) /\ p # q
        /\ \A j \in DOMAIN p : p[j] >= 48
    BY <1>1, <2>1 DEF Words
  <2> HIDE DEF p, q, c
  <2>6. ~LexLess(q, p, Below)
    BY <1>3, <1>5, <2>2, <2>3, <2>4, <2>5, OrderedAt
  <2>7. IdLess(p, q)
    <3>1. p \in Seq(Int) /\ q \in Seq(Int)
      BY <2>5
    <3>2. LexLess(p, q, Below)
      BY <2>5, <2>6, <3>1, LexTotal, Zenon
    <3> QED
      BY <3>2 DEF IdLess
  <2>8. n \in 0 .. Len(Q) - 1 /\ n <= Len(P)
    BY <1>2, <2>1, SMT
  <2> QED
    BY <2>1, <2>7, <2>8 DEF LexLess, Alike, p, q
<1> QED
  BY <1>1, <1>6, <1>7, <1>8, FirstDifference


-----------------------------------------------------------------------------
\* The number that one digit stands for.
LEMMA ValueOfDigit ==
  ASSUME NEW id \in Seq(Nat), Len(id) = 1
  PROVE  Value(id) = id[1] - 48
<1>1. id[1] \in Nat
  <2>1. 1 \in 1 .. Len(id)
    BY SMT
  <2> QED
    BY <2>1, ElementOfSeq
<1> DEFINE value == CHOOSE f : f = [i \in 0 .. Len(id) |->
                      IF i = 0 THEN 0 ELSE 10 * f[i - 1] + id[i] - 48]
           digit == [i \in 0 .. 1 |-> IF i = 0 THEN 0 ELSE id[1] - 48]
<1>2. digit[0] = 0 /\ digit[1] = id[1] - 48
  BY SMT
<1>3. digit = [i \in 0 .. Len(id) |->
                 IF i = 0 THEN 0 ELSE 10 * digit[i - 1] + id[i] - 48]
  <2> SUFFICES ASSUME NEW i \in 0 .. 1
               PROVE  digit[i] = IF i = 0 THEN 0 ELSE 10 * digit[i - 1] + id[i] - 48
    BY Zenon
  <2>1. i = 0 \/ i = 1
    BY SMT
  <2> HIDE DEF digit
  <2>2. CASE i = 0
    BY <1>2, <2>2
  <2>3. CASE i = 1
    <3>1. digit[i - 1] = 0 /\ id[i] = id[1] /\ digit[i] = id[1] - 48
      BY <1>2, <2>3, SMT
    <3>2. 10 * 0 + id[1] - 48 = id[1] - 48
      BY <1>1, SMT
    <3> QED
      BY <2>3, <3>1, <3>2
  <2> QED
    BY <2>1, <2>2, <2>3
<1> HIDE DEF digit
<1>4. value = [i \in 0 .. Len(id) |->
                 IF i = 0 THEN 0 ELSE 10 * value[i - 1] + id[i] - 48]
  BY <1>3
<1>5. Value(id) = value[1]
  BY DEF Value
<1> HIDE DEF value
<1>6. value[0] = 0 /\ value[1] = 10 * value[1 - 1] + id[1] - 48
  <2>1. 0 \in 0 .. Len(id) /\ 1 \in 0 .. Len(id) /\ 1 # 0
    BY SMT
  <2> QED
    BY <1>4, <2>1, Zenon
<1>7. value[1 - 1] = 0
  <2>1. 1 - 1 = 0
    BY SMT
  <2> QED
    BY <1>6, <2>1
<1> QED
  BY <1>1, <1>5, <1>6, <1>7, SMT

\* Identifiers of one digit, or that begin with something else, are ordered as
\* the standard orders them.
LEMMA SimpleIds ==
  ASSUME NEW p \in Seq(Nat), p # << >>, \A j \in DOMAIN p : p[j] >= 48,
         NEW q \in Seq(Nat), q # << >>, \A j \in DOMAIN q : q[j] >= 48,
         ~IsDigit(p[1]) \/ Len(p) = 1, ~IsDigit(q[1]) \/ Len(q) = 1, IdLess(p, q)
  PROVE  IdBefore(p, q)
<1>1. /\ Len(p) \in Nat /\ Len(q) \in Nat /\ 1 \in 1 .. Len(p) /\ 1 \in 1 .. Len(q)
      /\ DOMAIN p = 1 .. Len(p) /\ DOMAIN q = 1 .. Len(q)
  <2>1. /\ Len(p) \in Nat /\ Len(q) \in Nat
        /\ DOMAIN p = 1 .. Len(p) /\ DOMAIN q = 1 .. Len(q)
    OBVIOUS
  <2>2. Len(p) # 0 /\ Len(q) # 0
    BY EmptySeq
  <2> QED
    BY <2>1, <2>2, SMT
<1>2. p[1] \in Nat /\ q[1] \in Nat /\ p[1] >= 48 /\ q[1] >= 48
  BY <1>1
<1>3. PICK n \in 0 .. Len(q) - 1 :
        /\ n <= Len(p) /\ \A i \in 1 .. n : p[i] = q[i]
        /\ n < Len(p) => p[n + 1] < q[n + 1]
  BY DEF IdLess, LexLess, Below
<1>4. CASE Numeric(p) /\ Numeric(q)
  <2>1. IsDigit(p[1]) /\ IsDigit(q[1])
    BY <1>1, <1>4 DEF Numeric
  <2>2. Len(p) = 1 /\ Len(q) = 1
    BY <2>1
  <2>3. n = 0 /\ n < Len(p)
    BY <2>2, SMT
  <2>4. p[1] < q[1]
    BY <1>3, <2>3, SMT
  <2>5. Value(p) = p[1] - 48 /\ Value(q) = q[1] - 48
    BY <2>2, ValueOfDigit
  <2>6. Value(p) < Value(q)
    BY <1>2, <2>4, <2>5, SMT
  <2> QED
    BY <1>4, <2>6 DEF IdBefore
<1>5. CASE Numeric(p) /\ ~Numeric(q)
  BY <1>5 DEF IdBefore
<1>6. CASE ~Numeric(p) /\ Numeric(q)
  <2>1. IsDigit(q[1]) /\ Len(q) = 1
    BY <1>1, <1>6 DEF Numeric
  <2>2. n = 0 /\ n < Len(p)
    BY <1>1, <2>1, SMT
  <2>3. p[1] < q[1]
    BY <1>3, <2>2, SMT
  <2>4. IsDigit(p[1])
    <3>1. q[1] <= 57
      BY <1>2, <2>1, SMT DEF IsDigit
    <3> DEFINE x == p[1]
               y == q[1]
    <3>3. x \in Nat /\ y \in Nat /\ x < y /\ y <= 57
      BY <1>2, <2>3, <3>1
    <3> HIDE DEF x, y
    <3>4. x <= 57
      BY <3>3, SMT
    <3>5. x >= 48
      BY <1>2 DEF x
    <3>6. x \in 48 .. 57
      BY <3>3, <3>4, <3>5, SMT
    <3> QED
      BY <3>6 DEF IsDigit, x
  <2>5. Len(p) = 1
    BY <2>4
  <2>6. \A j \in 1 .. 1 : j = 1
    BY SMT
  <2>7. Numeric(p)
    BY <1>1, <2>4, <2>5, <2>6 DEF Numeric
  <2> QED
    BY <1>6, <2>7
<1>7. CASE ~Numeric(p) /\ ~Numeric(q)
  <2>1. Numeric(p) = Numeric(q)
    BY <1>7 DEF Numeric
  <2>2. IdBefore(p, q) = LexLess(p, q, Below)
    BY <1>7, <2>1, Zenon DEF IdBefore
  <2> QED
    BY <2>2 DEF IdLess
<1> QED
  BY <1>4, <1>5, <1>6, <1>7

\* The pre-release of every version that is known.
LEMMA PreReleases == \A v \in Known : Words(v.pre)
<1>1. \A v \in VersionSet : v \in Semantic /\ Words(v.pre)
  BY VersionsAssumption, VersionsAreSemantic DEF Words, Semantic, Known
<1>2. ASSUME NEW v \in VersionSet PROVE SemanticVersion(v).pre = v.pre
  BY <1>1 DEF SemanticVersion, Semantic
<1> QED
  BY <1>1, <1>2 DEF Known, Parsed

\* Versions with simple pre-releases are ordered by rule 11 of the standard.
LEMMA SimpleVersions ==
  ASSUME NEW u \in Known, NEW v \in Known, Simple(u), Simple(v), Less(u, v)
  PROVE  Precedes(u, v)
<1> DEFINE s == ComparisonTuple(u)
           t == ComparisonTuple(v)
           a == Text(u.pre)
           b == Text(v.pre)
<1>1. /\ u \in Semantic /\ v \in Semantic /\ Words(u.pre) /\ Words(v.pre)
      /\ u.pre \in Seq(Seq(Nat)) /\ v.pre \in Seq(Seq(Nat))
  BY VersionsAreSemantic, PreReleases DEF Semantic
<1>2. /\ s[1] = u.major /\ s[2] = u.minor /\ s[3] = u.patch
      /\ s[4] = (IF u.pre = << >> THEN 1 ELSE 0)
      /\ Len(s) = 4 + Len(a) /\ a \in Seq(Nat) /\ \A i \in 1 .. Len(a) : s[4 + i] = a[i]
  BY <1>1, TupleEntries
<1>3. /\ t[1] = v.major /\ t[2] = v.minor /\ t[3] = v.patch
      /\ t[4] = (IF v.pre = << >> THEN 1 ELSE 0)
      /\ Len(t) = 4 + Len(b) /\ b \in Seq(Nat) /\ \A i \in 1 .. Len(b) : t[4 + i] = b[i]
  BY <1>1, TupleEntries
<1>4. Len(a) \in Nat /\ Len(b) \in Nat
  BY <1>2, <1>3
<1> HIDE DEF s, t, a, b
<1>5. PICK n \in 0 .. Len(t) - 1 :
        /\ n <= Len(s) /\ \A i \in 1 .. n : s[i] = t[i]
        /\ n < Len(s) => s[n + 1] < t[n + 1]
  BY DEF Less, LexLess, Below, s, t
<1>6. /\ Core(u) = <<s[1], s[2], s[3]>> /\ Core(v) = <<t[1], t[2], t[3]>>
  BY <1>2, <1>3 DEF Core
<1>7. CASE n \in 0 .. 2
  <2> DEFINE x == Core(u)
             y == Core(v)
  <2>1. /\ Len(x) = 3 /\ Len(y) = 3
        /\ x[1] = s[1] /\ x[2] = s[2] /\ x[3] = s[3]
        /\ y[1] = t[1] /\ y[2] = t[2] /\ y[3] = t[3]
    BY <1>6
  <2>2. s[n + 1] < t[n + 1]
    BY <1>2, <1>4, <1>5, <1>7, SMT
  <2> HIDE DEF x, y
  <2>3. \A i \in 1 .. 3 : x[i] = s[i] /\ y[i] = t[i]
    <3>1. \A i \in 1 .. 3 : i = 1 \/ i = 2 \/ i = 3
      BY SMT
    <3> QED
      BY <2>1, <3>1
  <2>4. /\ n \in 0 .. Len(y) - 1 /\ n <= Len(x) /\ n + 1 \in 1 .. 3
        /\ \A i \in 1 .. n : i \in 1 .. 3
    BY <1>7, <2>1, SMT
  <2>5. x[n + 1] < y[n + 1] /\ \A i \in 1 .. n : x[i] = y[i]
    BY <1>5, <2>2, <2>3, <2>4
  <2>6. LexLess(x, y, Below)
    BY <2>4, <2>5 DEF LexLess, Below
  <2> QED
    BY <2>6 DEF Precedes, x, y
<1>8. CASE n \notin 0 .. 2
  <2>1. n \in Nat /\ n >= 3
    BY <1>8, SMT
  <2>2. Core(u) = Core(v)
    <3>1. 1 \in 1 .. n /\ 2 \in 1 .. n /\ 3 \in 1 .. n
      BY <2>1, SMT
    <3> QED
      BY <1>5, <1>6, <3>1
  <2>3. CASE n = 3
    <3>1. s[4] < t[4]
      BY <1>2, <1>4, <1>5, <2>3, SMT
    <3>2. u.pre # << >> /\ v.pre = << >>
      BY <1>2, <1>3, <3>1
    <3> QED
      BY <2>2, <3>2 DEF Precedes
  <2>4. CASE n # 3
    <3> DEFINE m == n - 4
    <3>1. /\ 4 \in 1 .. n /\ m \in 0 .. Len(b) - 1 /\ m <= Len(a) /\ 4 + (m + 1) = n + 1
          /\ (m < Len(a) => n < Len(s) /\ m + 1 \in 1 .. Len(a)) /\ m + 1 \in 1 .. Len(b)
      BY <1>2, <1>3, <1>4, <1>5, <2>1, <2>4, SMT
    <3>2. s[4] = t[4]
      BY <1>5, <3>1
    <3>3. v.pre # << >>
      <4> SUFFICES ASSUME v.pre = << >> PROVE FALSE
        OBVIOUS
      <4>1. PICK text : Spelling(text, v.pre)
        BY <1>1, TextDef
      <4>2. Len(v.pre) = 0
        OBVIOUS
      <4>3. b = << >>
        BY <4>1, <4>2 DEF Spelling, b
      <4>4. Len(b) = 0
        BY <4>3
      <4> QED
        BY <3>1, <4>4, SMT
    <3>4. u.pre # << >>
      BY <1>2, <1>3, <3>2, <3>3
    <3> HIDE DEF m
    <3>5. ASSUME NEW i \in 1 .. m PROVE a[i] = b[i]
      <4>1. 4 + i \in 1 .. n /\ i \in 1 .. Len(a) /\ i \in 1 .. Len(b)
        BY <1>4, <2>1, <3>1, <3>5, SMT DEF m
      <4> QED
        BY <1>2, <1>3, <1>5, <4>1
    <3>6. ASSUME m < Len(a) PROVE a[m + 1] < b[m + 1]
      <4>1. s[n + 1] < t[n + 1]
        BY <1>5, <3>1, <3>6
      <4>2. s[4 + (m + 1)] = a[m + 1] /\ t[4 + (m + 1)] = b[m + 1]
        BY <1>2, <1>3, <3>1, <3>6
      <4> QED
        BY <3>1, <4>1, <4>2
    <3>7. LexLess(a, b, Below)
      BY <3>1, <3>5, <3>6 DEF LexLess, Below
    <3>8. LexLess(u.pre, v.pre, IdLess)
      BY <1>1, <3>7, TextOrder DEF a, b
    <3>9. LexLess(u.pre, v.pre, IdBefore)
      <4>1. PICK k \in 0 .. Len(v.pre) - 1 :
              /\ k <= Len(u.pre) /\ \A i \in 1 .. k : u.pre[i] = v.pre[i]
              /\ k < Len(u.pre) => IdLess(u.pre[k + 1], v.pre[k + 1])
        BY <3>8 DEF LexLess
      <4>2. ASSUME k < Len(u.pre) PROVE IdBefore(u.pre[k + 1], v.pre[k + 1])
        <5>1. /\ Len(u.pre) \in Nat /\ Len(v.pre) \in Nat
              /\ DOMAIN u.pre = 1 .. Len(u.pre) /\ DOMAIN v.pre = 1 .. Len(v.pre)
          BY <1>1
        <5>2. k + 1 \in DOMAIN u.pre /\ k + 1 \in DOMAIN v.pre
          BY <4>2, <5>1, SMT
        <5> DEFINE p == u.pre[k + 1]
                   q == v.pre[k + 1]
        <5>3. /\ p \in Seq(Nat) /\ p # << >> /\ \A j \in DOMAIN p : p[j] >= 48
              /\ q \in Seq(Nat) /\ q # << >> /\ \A j \in DOMAIN q : q[j] >= 48
          BY <1>1, <5>2 DEF Words
        <5>4. (~IsDigit(p[1]) \/ Len(p) = 1) /\ (~IsDigit(q[1]) \/ Len(q) = 1)
          BY <5>2 DEF Simple
        <5>5. IdLess(p, q)
          BY <4>1, <4>2
        <5> HIDE DEF p, q
        <5>6. IdBefore(p, q)
          BY <5>3, <5>4, <5>5, SimpleIds
        <5> QED
          BY <5>6 DEF p, q
      <4> QED
        BY <4>1, <4>2 DEF LexLess
    <3> QED
      BY <2>2, <3>4, <3>9 DEF Precedes
  <2> QED
    BY <2>3, <2>4
<1> QED
  BY <1>7, <1>8

\* Versions with simple pre-releases are listed as Semantic Versioning orders
\* them (register_version, _comparison_tuple), for any versions.
THEOREM SimpleVersionsInOrder == Spec => []SimpleOrderIsSemVer
<1>1. VersionsInv => SimpleOrderIsSemVer
  <2> SUFFICES ASSUME VersionsInv, NEW i \in DOMAIN registered, NEW j \in DOMAIN registered,
                      i < j, Simple(registered[i]), Simple(registered[j])
               PROVE  Precedes(registered[i], registered[j])
    BY DEF SimpleOrderIsSemVer
  <2>1. registered[i] \in Known /\ registered[j] \in Known
    BY DEF VersionsInv, TypeOK, Known
  <2>2. <<registered[i], registered[j]>> \in Ascent
    BY DEF VersionsInv, Sorted, InOrder
  <2>3. Less(registered[i], registered[j])
    BY <2>2 DEF Ascent
  <2> QED
    BY <2>1, <2>3, SimpleVersions
<1> QED
  BY <1>1, VersionsStaySorted, PTL
=============================================================================
