------------------------------ MODULE ListLemmas ------------------------------
(***************************************************************************)
(* Facts about lists that the proofs of the components share: induction,   *)
(* and what FlattenSeq and FoldLeft, which are defined by recursion, are.   *)
(*                                                                          *)
(* Induction is over a set of numbers: to show something of every number,   *)
(* one shows that the set of the numbers of which it holds has 0 and, with   *)
(* any number, the next.                                                     *)
(***************************************************************************)
EXTENDS Integers, SequencesExt, SequenceTheorems, WellFoundedInduction, TLAPS

\* The natural numbers are well-founded.
LEMMA NaturalsWellFounded == IsWellFoundedOn({ss \in Nat \X Nat : ss[1] < ss[2]}, Nat)
BY NatLessThanWellFounded DEF OpToRel

\* A set that has 0 and, with a number, the next one, has them all.
LEMMA SetInduction ==
  ASSUME NEW A, 0 \in A, \A n \in Nat : n \in A => n + 1 \in A
  PROVE  Nat \subseteq A
<1> DEFINE T == Nat \ A
           R == {ss \in Nat \X Nat : ss[1] < ss[2]}
<1>1. SUFFICES ASSUME T # {} PROVE FALSE
  OBVIOUS
<1>2. T \subseteq Nat
  OBVIOUS
<1> HIDE DEF T
<1>3. PICK x \in T : \A y \in T : ~(<<y, x>> \in R)
  <2> HIDE DEF R
  <2>1. IsWellFoundedOn(R, Nat)
    BY NaturalsWellFounded DEF R
  <2>2. \E x \in T : \A y \in T : ~(<<y, x>> \in R)
    BY <1>1, <1>2, <2>1, WFMin
  <2>3. QED
    BY <2>2
<1>4. x \in Nat /\ x # 0
  BY DEF T
<1>5. x - 1 \in Nat /\ x - 1 < x /\ x - 1 + 1 = x
  BY <1>4
<1>6. <<x - 1, x>> \in R
  BY <1>4, <1>5
<1>7. x - 1 \in A
  BY <1>3, <1>5, <1>6 DEF T
<1>8. QED
  BY <1>4, <1>5, <1>7 DEF T

\* What a recursion does with each number up to N and the result so far, and a
\* run of it that starts with c.
Steps(N, S)         == [(1 .. N) \X S -> S]
IsRun(f, N, c, step) == f[0] = c /\ \A i \in 1 .. N : f[i] = step[<<i, f[i - 1]>>]
Runs(N, S, c, step) == {f \in [0 .. N -> S] : IsRun(f, N, c, step)}

\* A recursion can be run up to any number.
LEMMA FiniteRecursion ==
  ASSUME NEW N \in Nat, NEW S, NEW c \in S, NEW step \in Steps(N, S)
  PROVE  Runs(N, S, c, step) # {}
<1> DEFINE Good(n, f) == f[0] = c /\ \A i \in 1 .. n : f[i] = step[<<i, f[i - 1]>>]
           A == {n \in Nat : n <= N => \E f \in [0 .. n -> S] : Good(n, f)}
<1>1. 0 \in A
  <2> DEFINE g == [i \in 0 .. 0 |-> c]
  <2>1. g \in [0 .. 0 -> S] /\ g[0] = c
    OBVIOUS
  <2>2. Good(0, g)
    BY <2>1
  <2>3. QED
    BY <2>1, <2>2
<1>2. ASSUME NEW n \in Nat, n \in A PROVE n + 1 \in A
  <2> SUFFICES ASSUME n + 1 <= N
               PROVE  \E f \in [0 .. (n + 1) -> S] : Good(n + 1, f)
    OBVIOUS
  <2>1. PICK f \in [0 .. n -> S] : Good(n, f)
    BY <1>2
  <2>2. n + 1 \in 1 .. N /\ f[n] \in S
    BY <2>1
  <2> DEFINE v == step[<<n + 1, f[n]>>]
             g == [i \in 0 .. (n + 1) |-> IF i = n + 1 THEN v ELSE f[i]]
  <2>3. v \in S
    BY <2>2 DEF Steps
  <2> HIDE DEF v
  <2>4. g \in [0 .. (n + 1) -> S]
    BY <2>1, <2>3
  <2>5. g[n + 1] = v /\ \A i \in 0 .. n : g[i] = f[i]
    OBVIOUS
  <2>6. g[0] = c
    BY <2>1, <2>5
  <2> HIDE DEF g
  <2>7. ASSUME NEW i \in 1 .. (n + 1) PROVE g[i] = step[<<i, g[i - 1]>>]
    <3>1. CASE i = n + 1
      <4>1. i - 1 = n /\ g[i - 1] = f[n]
        BY <2>5, <3>1
      <4>2. QED
        BY <2>5, <3>1, <4>1 DEF v
    <3>2. CASE i # n + 1
      <4>1. i \in 1 .. n /\ i \in 0 .. n /\ i - 1 \in 0 .. n
        BY <3>2
      <4>2. g[i] = f[i] /\ g[i - 1] = f[i - 1]
        BY <2>5, <4>1
      <4>3. QED
        BY <2>1, <4>1, <4>2
    <3>3. QED
      BY <3>1, <3>2
  <2>8. QED
    BY <2>4, <2>6, <2>7
<1> HIDE DEF A
<1>3. Nat \subseteq A
  BY <1>1, <1>2, SetInduction
<1>4. N \in A
  BY <1>3
<1>5. QED
  BY <1>4 DEF A, Runs, IsRun

----------------------------------------------------------------------------
(* FlattenSeq                                                               *)

\* A list of lists is flattened one by one: there are the lists flattened up to
\* each place, and the last of them is the result.
LEMMA FlattenRuns ==
  ASSUME NEW S, NEW ss \in Seq(Seq(S))
  PROVE  \E f \in [0 .. Len(ss) -> Seq(S)] :
           /\ f[0] = <<>>
           /\ \A i \in 1 .. Len(ss) : f[i] = f[i - 1] \o ss[i]
           /\ FlattenSeq(ss) = f[Len(ss)]
<1> DEFINE N == Len(ss)
           step == [p \in (1 .. N) \X Seq(S) |-> p[2] \o ss[p[1]]]
           E(f) == f = [i \in 1 .. N |-> IF i = 1 THEN ss[i] ELSE f[i - 1] \o ss[i]]
<1>1. N \in Nat /\ \A i \in 1 .. N : ss[i] \in Seq(S)
  OBVIOUS
<1>2. << >> \in Seq(S)
  OBVIOUS
<1>3. step \in [(1 .. N) \X Seq(S) -> Seq(S)]
  BY <1>1
<1>4. \A i \in 1 .. N, s \in Seq(S) : step[<<i, s>>] = s \o ss[i]
  BY <1>1
<1> HIDE DEF step
<1>5. PICK f \in [0 .. N -> Seq(S)] :
        f[0] = << >> /\ \A i \in 1 .. N : f[i] = step[<<i, f[i - 1]>>]
  <2> DEFINE D == Seq(S)
             e == << >>
  <2>1. N \in Nat /\ e \in D /\ step \in Steps(N, D)
    BY <1>1, <1>2, <1>3 DEF Steps
  <2> HIDE DEF N, D, e
  <2>2. Runs(N, D, e, step) # {}
    BY <2>1, FiniteRecursion
  <2>3. QED
    BY <2>2 DEF D, e, Runs, IsRun
<1>6. \A i \in 1 .. N : i - 1 \in 0 .. N /\ f[i - 1] \in Seq(S)
  <2> DEFINE D == Seq(S)
  <2> HIDE DEF N, D
  <2>1. \A i \in 1 .. N : i - 1 \in 0 .. N
    BY <1>1
  <2>2. f \in [0 .. N -> D]
    BY <1>5 DEF D
  <2>3. \A i \in 1 .. N : f[i - 1] \in D
    BY <2>1, <2>2
  <2>4. QED
    BY <2>1, <2>3 DEF D
<1>7. \A i \in 1 .. N : f[i] = f[i - 1] \o ss[i]
  BY <1>4, <1>5, <1>6
<1>8. CASE N = 0
  <2>1. FlattenSeq(ss) = ss /\ ss = << >>
    BY <1>8 DEF FlattenSeq
  <2>2. QED
    BY <1>1, <1>5, <1>7, <1>8, <2>1
<1>9. CASE N # 0
  <2> DEFINE g == [i \in 1 .. N |-> f[i]]
             c == CHOOSE h : E(h)
  <2>1. E(g)
    <3>1. f[1] = ss[1]
      <4>1. 1 \in 1 .. N
        BY <1>1, <1>9
      <4>2. f[1] = f[0] \o ss[1]
        <5>1. 1 - 1 = 0
          OBVIOUS
        <5> HIDE DEF N
        <5>2. f[1] = f[1 - 1] \o ss[1]
          BY <1>7, <4>1
        <5>3. QED
          BY <5>1, <5>2
      <4>3. QED
        BY <1>1, <1>5, <4>1, <4>2
    <3>2. \A i \in 1 .. N : i # 1 => i - 1 \in 1 .. N
      BY <1>1
    <3>3. \A i \in 1 .. N : i # 1 => g[i - 1] = f[i - 1]
      BY <3>2
    <3> DEFINE r == [i \in 1 .. N |-> IF i = 1 THEN ss[i] ELSE g[i - 1] \o ss[i]]
    <3>4. \A i \in 1 .. N : g[i] = f[i]
      OBVIOUS
    <3> HIDE DEF g
    <3>5. \A i \in 1 .. N : r[i] = f[i]
      BY <1>7, <3>1, <3>3
    <3>6. g = r
      <4>1. g = [i \in 1 .. N |-> g[i]]
        BY DEF g
      <4>2. r = [i \in 1 .. N |-> r[i]]
        OBVIOUS
      <4> HIDE DEF r
      <4>3. QED
        BY <3>4, <3>5, <4>1, <4>2
    <3>7. QED
      BY <3>6
  <2>2. E(c)
    BY <2>1
  <2>3. FlattenSeq(ss) = c[N]
    BY <1>9 DEF FlattenSeq
  <2> HIDE DEF c
  <2> DEFINE A == {n \in Nat : n + 1 \in 1 .. N => c[n + 1] = f[n + 1]}
  <2>4. 0 \in A
    <3>1. 1 \in 1 .. N
      BY <1>1, <1>9
    <3>2. c[1] = ss[1] /\ g[1] = ss[1]
      BY <2>1, <2>2, <3>1
    <3>3. QED
      BY <3>1, <3>2
  <2>5. ASSUME NEW n \in Nat, n \in A PROVE n + 1 \in A
    <3> SUFFICES ASSUME n + 2 \in 1 .. N PROVE c[n + 2] = f[n + 2]
      OBVIOUS
    <3>1. n + 1 \in 1 .. N /\ n + 2 # 1 /\ (n + 2) - 1 = n + 1
      BY <1>1
    <3>2. c[n + 1] = f[n + 1]
      BY <2>5, <3>1
    <3>3. c[n + 2] = c[n + 1] \o ss[n + 2]
      <4>1. \A i \in 1 .. N :
              c[i] = IF i = 1 THEN ss[i] ELSE c[i - 1] \o ss[i]
        BY <2>2
      <4>2. c[n + 2] = c[(n + 2) - 1] \o ss[n + 2]
        BY <3>1, <4>1
      <4>3. QED
        BY <3>1, <4>2
    <3>4. f[n + 2] = f[n + 1] \o ss[n + 2]
      BY <1>7, <3>1
    <3>5. QED
      BY <3>2, <3>3, <3>4
  <2> HIDE DEF A
  <2>6. Nat \subseteq A
    BY <2>4, <2>5, SetInduction
  <2>7. N - 1 \in Nat /\ (N - 1) + 1 = N /\ N \in 1 .. N
    BY <1>1, <1>9
  <2>8. c[N] = f[N]
    <3>1. N - 1 \in A
      BY <2>6, <2>7
    <3> HIDE DEF N
    <3>2. QED
      BY <2>7, <3>1 DEF A
  <2>9. QED
    BY <1>5, <1>7, <2>3, <2>8
<1>10. QED
  BY <1>8, <1>9

\* Whatever goes through the lists in this way ends with the flattened list.
LEMMA FlattenIs ==
  ASSUME NEW S, NEW ss \in Seq(Seq(S)), NEW f, f[0] = << >>,
         \A i \in 1 .. Len(ss) : f[i] = f[i - 1] \o ss[i]
  PROVE  FlattenSeq(ss) = f[Len(ss)]
<1> DEFINE N == Len(ss)
<1>1. N \in Nat
  OBVIOUS
<1>2. PICK g \in [0 .. N -> Seq(S)] :
        /\ g[0] = <<>>
        /\ \A i \in 1 .. N : g[i] = g[i - 1] \o ss[i]
        /\ FlattenSeq(ss) = g[N]
  BY FlattenRuns
<1> DEFINE A == {n \in Nat : n <= N => f[n] = g[n]}
<1> HIDE DEF N
<1>3. 0 \in A
  BY <1>2
<1>4. ASSUME NEW n \in Nat, n \in A PROVE n + 1 \in A
  <2> SUFFICES ASSUME n + 1 <= N PROVE f[n + 1] = g[n + 1]
    OBVIOUS
  <2>1. n + 1 \in 1 .. N /\ (n + 1) - 1 = n /\ n <= N
    BY <1>1
  <2>2. f[n + 1] = f[n] \o ss[n + 1] /\ g[n + 1] = g[n] \o ss[n + 1]
    BY <1>2, <2>1 DEF N
  <2>3. QED
    BY <1>4, <2>1, <2>2
<1> HIDE DEF A
<1>5. Nat \subseteq A
  BY <1>3, <1>4, SetInduction
<1>6. QED
  BY <1>1, <1>2, <1>5 DEF A, N

\* Flattening nothing gives nothing.
LEMMA FlattenEmpty == FlattenSeq(<<>>) = << >>
BY DEF FlattenSeq

\* A flattened list has the elements of its lists, and no others.
LEMMA FlattenType ==
  ASSUME NEW S, NEW ss \in Seq(Seq(S))
  PROVE  FlattenSeq(ss) \in Seq(S)
<1>1. Len(ss) \in Nat /\ Len(ss) \in 0 .. Len(ss)
  OBVIOUS
<1>2. PICK f \in [0 .. Len(ss) -> Seq(S)] : FlattenSeq(ss) = f[Len(ss)]
  BY FlattenRuns
<1>3. QED
  BY <1>1, <1>2

\* One list more goes to the end.
LEMMA FlattenAppend ==
  ASSUME NEW S, NEW ss \in Seq(Seq(S)), NEW s \in Seq(S)
  PROVE  FlattenSeq(Append(ss, s)) = FlattenSeq(ss) \o s
<1> DEFINE N == Len(ss)
           tt == Append(ss, s)
<1>1. N \in Nat /\ tt \in Seq(Seq(S)) /\ Len(tt) = N + 1
  OBVIOUS
<1>2. tt[N + 1] = s /\ \A i \in 1 .. N : tt[i] = ss[i]
  OBVIOUS
<1>3. PICK f \in [0 .. N -> Seq(S)] :
        /\ f[0] = <<>>
        /\ \A i \in 1 .. N : f[i] = f[i - 1] \o ss[i]
        /\ FlattenSeq(ss) = f[N]
  BY FlattenRuns
<1> DEFINE g == [i \in 0 .. (N + 1) |-> IF i = N + 1 THEN f[N] \o s ELSE f[i]]
<1> HIDE DEF N, tt
<1>4. g[N + 1] = f[N] \o s /\ \A i \in 0 .. N : g[i] = f[i]
  BY <1>1
<1>5. g[0] = << >>
  BY <1>1, <1>3, <1>4
<1> HIDE DEF g
<1>6. ASSUME NEW i \in 1 .. (N + 1) PROVE g[i] = g[i - 1] \o tt[i]
  <2>1. CASE i = N + 1
    <3>1. i - 1 = N /\ N \in 0 .. N
      BY <1>1, <2>1
    <3>2. QED
      BY <1>2, <1>4, <2>1, <3>1
  <2>2. CASE i # N + 1
    <3>1. i \in 1 .. N /\ i \in 0 .. N /\ i - 1 \in 0 .. N
      BY <1>1, <2>2
    <3>2. QED
      BY <1>2, <1>3, <1>4, <3>1
  <2>3. QED
    BY <2>1, <2>2
<1>7. FlattenSeq(tt) = g[Len(tt)]
  BY <1>1, <1>5, <1>6, FlattenIs
<1>8. QED
  BY <1>1, <1>3, <1>4, <1>7 DEF tt

\* A set that has the empty list and, with a list, that list with any element
\* more, has them all.
LEMMA ListInduction ==
  ASSUME NEW S, NEW A, << >> \in A,
         \A s \in Seq(S), x \in S : s \in A => Append(s, x) \in A
  PROVE  Seq(S) \subseteq A
<1> DEFINE B == {n \in Nat : \A s \in Seq(S) : Len(s) = n => s \in A}
<1>1. 0 \in B
  <2>1. \A s \in Seq(S) : Len(s) = 0 => s = << >>
    OBVIOUS
  <2>2. QED
    BY <2>1
<1>2. ASSUME NEW n \in Nat, n \in B PROVE n + 1 \in B
  <2> SUFFICES ASSUME NEW s \in Seq(S), Len(s) = n + 1 PROVE s \in A
    OBVIOUS
  <2> DEFINE t == SubSeq(s, 1, n)
             x == s[n + 1]
  <2>1. x \in S /\ t \in Seq(S) /\ Len(t) = n
    OBVIOUS
  <2>2. s = Append(t, x)
    OBVIOUS
  <2> HIDE DEF t, x
  <2>3. t \in A
    BY <1>2, <2>1
  <2>4. QED
    BY <2>1, <2>2, <2>3
<1> HIDE DEF B
<1>3. Nat \subseteq B
  BY <1>1, <1>2, SetInduction
<1>4. \A s \in Seq(S) : Len(s) \in Nat
  OBVIOUS
<1>5. QED
  BY <1>3, <1>4 DEF B

----------------------------------------------------------------------------
(* Lists that are computed element by element                               *)

\* Every element of s is replaced by the list that h has for it.
FlatMap(s, h) == FlattenSeq([i \in DOMAIN s |-> h[s[i]]])

\* h has a list over T for every element of S.
Lists(h, S, T) == \A x \in S : h[x] \in Seq(T)

\* The lists that FlatMap puts together.
LEMMA FlatMapParts ==
  ASSUME NEW S, NEW T, NEW s \in Seq(S), NEW h, Lists(h, S, T)
  PROVE  [i \in DOMAIN s |-> h[s[i]]] \in Seq(Seq(T))
<1>1. DOMAIN s = 1 .. Len(s) /\ Len(s) \in Nat /\ \A i \in DOMAIN s : s[i] \in S
  OBVIOUS
<1>2. \A i \in DOMAIN s : h[s[i]] \in Seq(T)
  BY <1>1 DEF Lists
<1> DEFINE D == Seq(T)
           m == [i \in 1 .. Len(s) |-> h[s[i]]]
<1>3. m \in [1 .. Len(s) -> D]
  BY <1>1, <1>2
<1> HIDE DEF D, m
<1>4. m \in Seq(D)
  BY <1>1, <1>3
<1>5. QED
  BY <1>1, <1>4 DEF D, m

\* Nothing gives nothing.
LEMMA FlatMapEmpty == ASSUME NEW h PROVE FlatMap(<<>>, h) = << >>
<1>1. [i \in DOMAIN <<>> |-> h[<<>>[i]]] = << >>
  OBVIOUS
<1>2. QED
  BY <1>1, FlattenEmpty DEF FlatMap

\* The elements are those of the replacements.
LEMMA FlatMapType ==
  ASSUME NEW S, NEW T, NEW s \in Seq(S), NEW h, Lists(h, S, T)
  PROVE  FlatMap(s, h) \in Seq(T)
BY FlatMapParts, FlattenType DEF FlatMap

\* One element more adds its replacement at the end.
LEMMA FlatMapAppend ==
  ASSUME NEW S, NEW T, NEW h, Lists(h, S, T)
  PROVE  \A s \in Seq(S), x \in S : FlatMap(Append(s, x), h) = FlatMap(s, h) \o h[x]
<1> TAKE s \in Seq(S), x \in S
<1> DEFINE m == [i \in DOMAIN s |-> h[s[i]]]
           r == Append(s, x)
<1>1. m \in Seq(Seq(T)) /\ h[x] \in Seq(T)
  BY FlatMapParts DEF Lists
<1>2. /\ DOMAIN s = 1 .. Len(s) /\ Len(s) \in Nat /\ DOMAIN r = 1 .. (Len(s) + 1)
      /\ r[Len(s) + 1] = x /\ \A i \in 1 .. Len(s) : r[i] = s[i]
  OBVIOUS
<1>3. Len(m) = Len(s)
  BY <1>2
<1>4. Append(m, h[x]) = [i \in 1 .. (Len(s) + 1) |-> IF i = Len(s) + 1 THEN h[x] ELSE m[i]]
  BY <1>1, <1>3
<1> HIDE DEF r
<1>5. \A i \in 1 .. (Len(s) + 1) :
        h[r[i]] = IF i = Len(s) + 1 THEN h[x] ELSE m[i]
  <2> TAKE i \in 1 .. (Len(s) + 1)
  <2>1. CASE i = Len(s) + 1
    BY <1>2, <2>1
  <2>2. CASE i # Len(s) + 1
    <3>1. i \in 1 .. Len(s)
      BY <1>2, <2>2
    <3>2. QED
      BY <1>2, <2>2, <3>1
  <2>3. QED
    BY <2>1, <2>2
<1> HIDE DEF m
<1>6. [i \in DOMAIN r |-> h[r[i]]] = Append(m, h[x])
  BY <1>2, <1>4, <1>5
<1>7. FlattenSeq(Append(m, h[x])) = FlattenSeq(m) \o h[x]
  BY <1>1, FlattenAppend
<1>8. QED
  BY <1>6, <1>7 DEF FlatMap, m, r

\* Two lists in a row give their results in a row.
LEMMA FlatMapConcat ==
  ASSUME NEW S, NEW T, NEW h, Lists(h, S, T)
  PROVE  \A s, t \in Seq(S) : FlatMap(s \o t, h) = FlatMap(s, h) \o FlatMap(t, h)
<1> TAKE s, t \in Seq(S)
<1>0. \A u \in Seq(S), x \in S : FlatMap(Append(u, x), h) = FlatMap(u, h) \o h[x]
  BY FlatMapAppend, Zenon
<1> DEFINE A == {r \in Seq(S) : FlatMap(s \o r, h) = FlatMap(s, h) \o FlatMap(r, h)}
<1>1. << >> \in A
  <2>1. FlatMap(s, h) \in Seq(T)
    BY FlatMapType
  <2>2. s \o << >> = s /\ FlatMap(s, h) \o << >> = FlatMap(s, h)
    BY <2>1
  <2>3. FlatMap(<<>>, h) = << >> /\ << >> \in Seq(S)
    BY FlatMapEmpty
  <2>4. QED
    BY <2>2, <2>3
<1>2. ASSUME NEW r \in Seq(S), NEW x \in S, r \in A PROVE Append(r, x) \in A
  <2>1. s \o Append(r, x) = Append(s \o r, x) /\ s \o r \in Seq(S)
    OBVIOUS
  <2>2. FlatMap(Append(s \o r, x), h) = FlatMap(s \o r, h) \o h[x]
    BY <1>0, <2>1, Zenon
  <2>3. FlatMap(Append(r, x), h) = FlatMap(r, h) \o h[x]
    BY <1>0, Zenon
  <2>4. FlatMap(s, h) \in Seq(T) /\ FlatMap(r, h) \in Seq(T)
    BY FlatMapType
  <2> h[x] \in Seq(T)
    BY DEF Lists
  <2> Append(r, x) \in Seq(S)
    OBVIOUS
  <2>5. (FlatMap(s, h) \o FlatMap(r, h)) \o h[x] = FlatMap(s, h) \o (FlatMap(r, h) \o h[x])
    <3>1. \A u, v, w \in Seq(T) : (u \o v) \o w = u \o (v \o w)
      BY ConcatAssociative
    <3>2. QED
      BY <2>4, <3>1, Zenon
  <2>6. FlatMap(s \o r, h) = FlatMap(s, h) \o FlatMap(r, h)
    BY <1>2
  <2>7. FlatMap(s \o Append(r, x), h) = FlatMap(s, h) \o FlatMap(Append(r, x), h)
    BY <2>1, <2>2, <2>3, <2>5, <2>6, Zenon
  <2>8. QED
    BY <2>7
<1> HIDE DEF A
<1>3. Seq(S) \subseteq A
  BY <1>1, <1>2, ListInduction
<1>4. QED
  BY <1>3 DEF A

\* Concatenation of three lists, without naming the lists.
LEMMA ConcatThree ==
  \A S : \A u, v, w \in Seq(S) : (u \o v) \o w = u \o (v \o w)
BY ConcatAssociative

\* What FlatMap makes of lists in a row is what it makes of each, in a row.
LEMMA FlatMapFlatten ==
  ASSUME NEW S, NEW T, NEW h, Lists(h, S, T)
  PROVE  \A ss \in Seq(Seq(S)) :
           FlatMap(FlattenSeq(ss), h) = FlattenSeq([i \in DOMAIN ss |-> FlatMap(ss[i], h)])
<1>0. \A u, v \in Seq(S) : FlatMap(u \o v, h) = FlatMap(u, h) \o FlatMap(v, h)
  BY FlatMapConcat
<1> TAKE ss \in Seq(Seq(S))
<1> DEFINE D == Seq(S)
           g == [s \in D |-> FlatMap(s, h)]
           A == {rr \in Seq(D) : FlatMap(FlattenSeq(rr), h) = FlatMap(rr, g)}
<1>1. Lists(g, D, T)
  BY FlatMapType DEF Lists
<1>a. \A u \in Seq(D), v \in D : FlatMap(Append(u, v), g) = FlatMap(u, g) \o g[v]
  <2> HIDE DEF D, g
  <2>1. QED
    BY <1>1, FlatMapAppend, Zenon
<1>2. << >> \in A
  BY FlatMapEmpty, FlattenEmpty
<1>3. ASSUME NEW rr \in Seq(D), NEW s \in D, rr \in A PROVE Append(rr, s) \in A
  <2>1. FlattenSeq(Append(rr, s)) = FlattenSeq(rr) \o s /\ FlattenSeq(rr) \in Seq(S)
    BY FlattenAppend, FlattenType
  <2>2. FlatMap(FlattenSeq(rr) \o s, h) = FlatMap(FlattenSeq(rr), h) \o FlatMap(s, h)
    BY <1>0, <2>1
  <2> HIDE DEF D
  <2>3. FlatMap(Append(rr, s), g) = FlatMap(rr, g) \o g[s]
    BY <1>a
  <2>4. g[s] = FlatMap(s, h)
    OBVIOUS
  <2>5. FlatMap(FlattenSeq(rr), h) = FlatMap(rr, g)
    BY <1>3
  <2>6. FlatMap(FlattenSeq(Append(rr, s)), h) = FlatMap(Append(rr, s), g)
    BY <2>1, <2>2, <2>3, <2>4, <2>5, Zenon
  <2>7. Append(rr, s) \in Seq(D)
    BY AppendProperties
  <2>8. QED
    BY <2>6, <2>7
<1>4. Seq(D) \subseteq A
  <2> HIDE DEF A, D
  <2>1. QED
    BY <1>2, <1>3, ListInduction
<1>5. FlatMap(FlattenSeq(ss), h) = FlatMap(ss, g)
  BY <1>4
<1>6. [i \in DOMAIN ss |-> g[ss[i]]] = [i \in DOMAIN ss |-> FlatMap(ss[i], h)]
  OBVIOUS
<1>7. QED
  BY <1>5, <1>6 DEF FlatMap

\* A list whose elements are replaced by themselves is the list.
LEMMA FlatMapSame ==
  ASSUME NEW S, NEW s \in Seq(S), NEW h, \A i \in DOMAIN s : h[s[i]] = <<s[i]>>
  PROVE  FlatMap(s, h) = s
<1> DEFINE m == [i \in DOMAIN s |-> h[s[i]]]
           f == [i \in 0 .. Len(s) |-> SubSeq(s, 1, i)]
<1>1. DOMAIN s = 1 .. Len(s) /\ Len(s) \in Nat /\ \A i \in DOMAIN s : s[i] \in S
  OBVIOUS
<1>2. m \in Seq(Seq(S)) /\ Len(m) = Len(s) /\ \A i \in 1 .. Len(s) : m[i] = <<s[i]>>
  <2> DEFINE D == Seq(S)
  <2>0. \A i \in 1 .. Len(s) : <<s[i]>> \in D
    BY <1>1
  <2> HIDE DEF D
  <2>1. \A i \in 1 .. Len(s) : m[i] = <<s[i]>> /\ m[i] \in D
    BY <1>1, <2>0
  <2>2. m \in [1 .. Len(s) -> D]
    BY <1>1, <2>1
  <2> HIDE DEF D, m
  <2>3. m \in Seq(D) /\ Len(m) = Len(s)
    BY <1>1, <2>2
  <2>4. QED
    BY <2>1, <2>3 DEF D
<1>3. f[0] = << >>
  <2>1. SubSeq(s, 1, 0) = << >>
    BY SubSeqEmpty
  <2>2. QED
    BY <1>1, <2>1
<1>4. \A i \in 1 .. Len(s) : f[i] = f[i - 1] \o m[i]
  <2> TAKE i \in 1 .. Len(s)
  <2>1. /\ i - 1 \in 0 .. Len(s) /\ i \in 0 .. Len(s)
        /\ 1 \in 1 .. Len(s) /\ i \in 1 .. Len(s)
    BY <1>1
  <2>2. SubSeq(s, 1, i) = SubSeq(s, 1, i - 1) \o <<s[i]>>
    BY <2>1, SubSeqRecursiveSecond
  <2>3. QED
    BY <1>2, <2>1, <2>2
<1> HIDE DEF m, f
<1>5. FlattenSeq(m) = f[Len(s)]
  BY <1>2, <1>3, <1>4, FlattenIs
<1>6. f[Len(s)] = s
  BY <1>1, SubSeqFull DEF f
<1>7. QED
  BY <1>5, <1>6 DEF FlatMap, m

\* g has an element of U for every element of T.
Elements(g, T, U) == \A y \in T : g[y] \in U

\* g of every element of t, and of every element of the lists of h.
Image(t, g)           == [k \in DOMAIN t |-> g[t[k]]]
ImageOfLists(h, S, g) == [x \in S |-> Image(h[x], g)]

\* To take g of every element of the result is to take it in the replacements.
LEMMA FlatMapImage ==
  ASSUME NEW S, NEW T, NEW U, NEW h, Lists(h, S, T), NEW g, Elements(g, T, U)
  PROVE  \A s \in Seq(S) : Image(FlatMap(s, h), g) = FlatMap(s, ImageOfLists(h, S, g))
<1> DEFINE Img(t) == [k \in DOMAIN t |-> g[t[k]]]
           h2 == [x \in S |-> Img(h[x])]
           A == {s \in Seq(S) : Img(FlatMap(s, h)) = FlatMap(s, h2)}
<1>1. \A t \in Seq(T) : Img(t) \in Seq(U) /\ Len(Img(t)) = Len(t)
  BY DEF Elements
<1>2. Lists(h2, S, U)
  BY <1>1 DEF Lists
<1>3. \A s \in Seq(S), x \in S : FlatMap(Append(s, x), h) = FlatMap(s, h) \o h[x]
  BY FlatMapAppend
<1>4. \A s \in Seq(S), x \in S : FlatMap(Append(s, x), h2) = FlatMap(s, h2) \o h2[x]
  <2> HIDE DEF h2
  <2>1. QED
    BY <1>2, FlatMapAppend
<1>5. \A s, t \in Seq(T) : Img(s \o t) = Img(s) \o Img(t)
  <2> TAKE s, t \in Seq(T)
  <2> DEFINE a == Img(s \o t)
             b == Img(s) \o Img(t)
  <2>1. /\ s \o t \in Seq(T) /\ Len(s \o t) = Len(s) + Len(t)
        /\ Len(s) \in Nat /\ Len(t) \in Nat
    OBVIOUS
  <2>2. /\ Img(s) \in Seq(U) /\ Len(Img(s)) = Len(s) /\ Img(t) \in Seq(U)
        /\ Len(Img(t)) = Len(t) /\ Img(s \o t) \in Seq(U) /\ Len(Img(s \o t)) = Len(s) + Len(t)
    BY <1>1, <2>1
  <2>3. b \in Seq(U) /\ Len(b) = Len(s) + Len(t)
    <3> DEFINE p == Img(s)
               q == Img(t)
    <3>1. p \in Seq(U) /\ q \in Seq(U) /\ Len(p) = Len(s) /\ Len(q) = Len(t)
      BY <2>2
    <3> HIDE DEF p, q
    <3>2. p \o q \in Seq(U) /\ Len(p \o q) = Len(s) + Len(t)
      BY <3>1
    <3>3. QED
      BY <3>2 DEF p, q
  <2>4. ASSUME NEW i \in 1 .. Len(s) + Len(t) PROVE a[i] = b[i]
    <3>1. a[i] = g[(s \o t)[i]]
      BY <2>1
    <3>2. CASE i <= Len(s)
      <4>1. i \in 1 .. Len(s)
        BY <2>1, <3>2
      <4>2. (s \o t)[i] = s[i] /\ b[i] = Img(s)[i] /\ Img(s)[i] = g[s[i]]
        BY <2>1, <2>2, <4>1
      <4>3. QED
        BY <3>1, <4>2
    <3>3. CASE ~(i <= Len(s))
      <4>1. i - Len(s) \in 1 .. Len(t)
        BY <2>1, <3>3
      <4>2. (s \o t)[i] = t[i - Len(s)]
        BY <2>1, <3>3, ConcatProperties
      <4>3. b[i] = Img(t)[i - Len(s)]
        BY <2>1, <2>2, <3>3, ConcatProperties
      <4>4. Img(t)[i - Len(s)] = g[t[i - Len(s)]]
        BY <2>1, <4>1
      <4>5. QED
        BY <3>1, <4>2, <4>3, <4>4
    <3>4. QED
      BY <3>2, <3>3
  <2> HIDE DEF a, b
  <2>5. a \in Seq(U) /\ Len(a) = Len(s) + Len(t)
    BY <2>2 DEF a
  <2>6. a = b
    BY <2>3, <2>4, <2>5, SeqEqual
  <2>7. QED
    BY <2>6 DEF a, b
<1>6. << >> \in A
  <2>1. Img(<<>>) = << >>
    OBVIOUS
  <2>2. FlatMap(<<>>, h) = << >> /\ FlatMap(<<>>, h2) = << >> /\ << >> \in Seq(S)
    BY FlatMapEmpty
  <2>3. QED
    BY <2>1, <2>2
<1>7. ASSUME NEW s \in Seq(S), NEW x \in S, s \in A PROVE Append(s, x) \in A
  <2>1. FlatMap(s, h) \in Seq(T) /\ h[x] \in Seq(T) /\ h2[x] = Img(h[x])
    BY FlatMapType DEF Lists
  <2> HIDE DEF h2
  <2>2. Img(FlatMap(s, h) \o h[x]) = Img(FlatMap(s, h)) \o Img(h[x])
    BY <1>5, <2>1
  <2> HIDE DEF Img
  <2>3. Img(FlatMap(Append(s, x), h)) = FlatMap(Append(s, x), h2)
    BY <1>3, <1>4, <1>7, <2>1, <2>2
  <2>4. QED
    BY <2>3
<1>8. Seq(S) \subseteq A
  <2> HIDE DEF A
  <2>1. QED
    BY <1>6, <1>7, ListInduction
<1>9. h2 = ImageOfLists(h, S, g)
  BY DEF ImageOfLists, Image
<1>10. \A t : Img(t) = Image(t, g)
  BY DEF Image
<1> HIDE DEF h2, Img
<1>11. QED
  BY <1>8, <1>9, <1>10

\* Every element is in the replacement of some element.
LEMMA FlatMapRange ==
  ASSUME NEW S, NEW T, NEW h, Lists(h, S, T)
  PROVE  \A s \in Seq(S) :
           ToSet(FlatMap(s, h)) = UNION {ToSet(h[s[i]]) : i \in DOMAIN s}
<1> DEFINE R(s) == UNION {ToSet(h[s[i]]) : i \in DOMAIN s}
           A == {s \in Seq(S) : ToSet(FlatMap(s, h)) = R(s)}
<1>1. \A s \in Seq(S), x \in S : FlatMap(Append(s, x), h) = FlatMap(s, h) \o h[x]
  BY FlatMapAppend
<1>2. << >> \in A
  <2>1. FlatMap(<<>>, h) = << >> /\ << >> \in Seq(S) /\ DOMAIN << >> = {}
    BY FlatMapEmpty
  <2>2. R(<<>>) = {} /\ ToSet(<<>>) = {}
    BY <2>1 DEF ToSet
  <2>3. QED
    BY <2>1, <2>2
<1>3. \A t, u \in Seq(T) : ToSet(t \o u) = ToSet(t) \cup ToSet(u)
  <2>1. \A t \in Seq(T) : ToSet(t) = Range(t)
    BY DEF ToSet, Range
  <2>2. \A t, u \in Seq(T) : t \o u \in Seq(T) /\ Range(t \o u) = Range(t) \cup Range(u)
    BY RangeConcatenation
  <2>3. QED
    BY <2>1, <2>2
<1>4. ASSUME NEW s \in Seq(S), NEW x \in S, s \in A PROVE Append(s, x) \in A
  <2> DEFINE r == Append(s, x)
  <2>1. /\ r \in Seq(S) /\ DOMAIN s = 1 .. Len(s) /\ Len(s) \in Nat
        /\ DOMAIN r = 1 .. (Len(s) + 1)
        /\ r[Len(s) + 1] = x /\ \A i \in 1 .. Len(s) : r[i] = s[i]
    OBVIOUS
  <2>2. ToSet(FlatMap(r, h)) = ToSet(FlatMap(s, h)) \cup ToSet(h[x])
    <3>1. FlatMap(s, h) \in Seq(T) /\ h[x] \in Seq(T)
      BY FlatMapType DEF Lists
    <3>2. QED
      BY <1>1, <1>3, <3>1
  <2> HIDE DEF r
  <2>3. DOMAIN r = DOMAIN s \cup {Len(s) + 1}
    BY <2>1
  <2>4. R(r) = R(s) \cup ToSet(h[x])
    BY <2>1, <2>3
  <2>5. QED
    BY <1>4, <2>1, <2>2, <2>4 DEF r
<1> HIDE DEF A
<1>5. Seq(S) \subseteq A
  BY <1>2, <1>4, ListInduction
<1>6. QED
  BY <1>5 DEF A

\* A list of one list.
LEMMA FlattenOne == ASSUME NEW S, NEW s \in Seq(S) PROVE FlattenSeq(<<s>>) = s
<1>1. << >> \in Seq(Seq(S)) /\ Append(<<>>, s) = <<s>> /\ << >> \o s = s
  OBVIOUS
<1>2. FlattenSeq(Append(<<>>, s)) = FlattenSeq(<<>>) \o s
  BY <1>1, FlattenAppend
<1>3. QED
  BY <1>1, <1>2, FlattenEmpty
----------------------------------------------------------------------------
(* FoldLeft, which goes from the whole of a list's places down to none      *)

\* The greatest of some numbers up to N is one of them, and no other is it.
LEMMA MaxOfPlaces ==
  ASSUME NEW N \in Nat, NEW t \in SUBSET (1 .. N), t # {}
  PROVE  Max(t) \in t /\ \A i \in t : i <= Max(t)
<1> DEFINE A == {n \in Nat : \A u \in SUBSET (1 .. n) :
                   u # {} => \E x \in u : \A y \in u : x >= y}
<1>1. 0 \in A
  <2>1. \A u \in SUBSET (1 .. 0) : u = {}
    <3>1. \A i : i \notin 1 .. 0
      OBVIOUS
    <3>2. QED
      BY <3>1, Zenon
  <2>2. QED
    BY <2>1
<1>2. ASSUME NEW n \in Nat, n \in A PROVE n + 1 \in A
  <2> SUFFICES ASSUME NEW u \in SUBSET (1 .. (n + 1)), u # {}
               PROVE  \E x \in u : \A y \in u : x >= y
    OBVIOUS
  <2>1. CASE n + 1 \in u
    <3>1. \A y \in u : n + 1 >= y
      OBVIOUS
    <3>2. QED
      BY <2>1, <3>1
  <2>2. CASE n + 1 \notin u
    <3>1. u \in SUBSET (1 .. n)
      BY <2>2
    <3>2. QED
      BY <1>2, <3>1
  <2>3. QED
    BY <2>1, <2>2
<1> HIDE DEF A
<1>3. Nat \subseteq A
  BY <1>1, <1>2, SetInduction
<1>4. \E x \in t : \A y \in t : x >= y
  BY <1>3 DEF A
<1>5. Max(t) \in t /\ \A y \in t : Max(t) >= y
  BY <1>4 DEF Max
<1> DEFINE x == Max(t)
<1>6. x \in t /\ \A y \in t : x >= y
  BY <1>5
<1> HIDE DEF x
<1>7. \A y \in t : y \in 1 .. N
  OBVIOUS
<1>8. \A y \in t : y \in Int
  BY <1>7
<1>9. \A y \in t : y <= x
  BY <1>6, <1>8
<1>10. QED
  BY <1>6, <1>9 DEF x

\* A recursion from a set of places to the set without its greatest, and what
\* it gives for the first places of a list.
DownSets(N, S, c, step) ==
  {it \in [SUBSET (1 .. N) -> S] :
     /\ it[{}] = c
     /\ \A t \in SUBSET (1 .. N) : t # {} => it[t] = step[<<Max(t), it[t \ {Max(t)}]>>]}

\* There is such a recursion.
LEMMA SubsetRecursion ==
  ASSUME NEW N \in Nat, NEW S, NEW c \in S, NEW step \in Steps(N, S)
  PROVE  DownSets(N, S, c, step) # {}
<1> DEFINE Good(n, it) ==
             /\ it[{}] = c
             /\ \A t \in SUBSET (1 .. n) :
                  t # {} => it[t] = step[<<Max(t), it[t \ {Max(t)}]>>]
           A == {n \in Nat : n <= N => \E it \in [SUBSET (1 .. n) -> S] : Good(n, it)}
<1>1. 0 \in A
  <2> DEFINE g == [t \in SUBSET (1 .. 0) |-> c]
  <2>1. \A t \in SUBSET (1 .. 0) : t = {}
    <3>1. \A i : i \notin 1 .. 0
      OBVIOUS
    <3>2. QED
      BY <3>1, Zenon
  <2>2. g \in [SUBSET (1 .. 0) -> S] /\ g[{}] = c
    OBVIOUS
  <2> HIDE DEF g
  <2>3. Good(0, g)
    BY <2>1, <2>2
  <2> HIDE DEF Good
  <2>4. QED
    BY <2>2, <2>3
<1> HIDE DEF Good
<1>2. ASSUME NEW n \in Nat, n \in A PROVE n + 1 \in A
  <2> n + 1 \in Nat
    OBVIOUS
  <2> SUFFICES ASSUME n + 1 <= N
               PROVE  \E it \in [SUBSET (1 .. (n + 1)) -> S] : Good(n + 1, it)
    BY Zenon
  <2>1. PICK f \in [SUBSET (1 .. n) -> S] : Good(n, f)
    <3>1. n <= N
      OBVIOUS
    <3>2. QED
      BY <1>2, <3>1
  <2> DEFINE P == SUBSET (1 .. n)
             Q == SUBSET (1 .. (n + 1))
             g == [t \in Q |-> IF n + 1 \in t
                               THEN step[<<n + 1, f[t \ {n + 1}]>>] ELSE f[t]]
  <2>2. n + 1 \in 1 .. N /\ \A t \in Q : t \ {n + 1} \in P /\ (n + 1 \notin t => t \in P)
    <3>1. n + 1 \in 1 .. N
      OBVIOUS
    <3>2. \A i \in 1 .. (n + 1) : i # n + 1 => i \in 1 .. n
      OBVIOUS
    <3>3. QED
      BY <3>1, <3>2, Zenon
  <2>3. \A t \in P : t \in Q /\ n + 1 \notin t
    <3>1. n + 1 \notin 1 .. n /\ \A i \in 1 .. n : i \in 1 .. (n + 1)
      OBVIOUS
    <3>2. QED
      BY <3>1, Zenon
  <2>4. \A t \in Q : n + 1 \in t => Max(t) = n + 1
    <3> SUFFICES ASSUME NEW t \in Q, n + 1 \in t PROVE Max(t) = n + 1
      OBVIOUS
    <3>1. n + 1 \in Nat /\ t \in SUBSET (1 .. (n + 1)) /\ t # {}
      OBVIOUS
    <3> DEFINE x == Max(t)
    <3>2. x \in t /\ \A i \in t : i <= x
      BY <3>1, MaxOfPlaces
    <3> HIDE DEF x
    <3>3. x \in 1 .. (n + 1) /\ n + 1 <= x
      BY <3>1, <3>2
    <3>4. QED
      BY <3>3 DEF x
  <2>5. \A t \in P : t # {} => t \ {Max(t)} \in P
    OBVIOUS
  <2>a. {} \in P
    OBVIOUS
  <2>b. f[{}] = c /\ \A t \in P : t # {} => f[t] = step[<<Max(t), f[t \ {Max(t)}]>>]
    BY <2>1 DEF Good
  <2>c. f \in [P -> S]
    BY <2>1
  <2> HIDE DEF P, Q
  <2>6. \A s \in S : step[<<n + 1, s>>] \in S
    BY <2>2 DEF Steps
  <2>7. g \in [Q -> S]
    BY <2>2, <2>6, <2>c
  <2>8. \A t \in P : g[t] = f[t]
    BY <2>3
  <2>9. \A t \in Q : n + 1 \in t => g[t] = step[<<n + 1, g[t \ {n + 1}]>>]
    <3> SUFFICES ASSUME NEW t \in Q, n + 1 \in t
                 PROVE  g[t] = step[<<n + 1, g[t \ {n + 1}]>>]
      OBVIOUS
    <3>1. g[t] = step[<<n + 1, f[t \ {n + 1}]>>]
      OBVIOUS
    <3>2. g[t \ {n + 1}] = f[t \ {n + 1}]
      BY <2>2, <2>8
    <3>3. QED
      BY <3>1, <3>2
  <2> HIDE DEF g
  <2>10. g[{}] = c
    BY <2>8, <2>a, <2>b
  <2>11. ASSUME NEW t \in Q, t # {} PROVE g[t] = step[<<Max(t), g[t \ {Max(t)}]>>]
    <3>1. CASE n + 1 \in t
      BY <2>4, <2>9, <3>1
    <3>2. CASE n + 1 \notin t
      <4>1. t \in P /\ t \ {Max(t)} \in P
        BY <2>2, <2>5, <2>11, <3>2
      <4>2. g[t] = f[t] /\ g[t \ {Max(t)}] = f[t \ {Max(t)}]
        BY <2>8, <4>1
      <4>3. QED
        BY <2>11, <2>b, <4>1, <4>2
    <3>3. QED
      BY <3>1, <3>2
  <2>12. Good(n + 1, g)
    BY <2>10, <2>11 DEF Q, Good
  <2>13. QED
    BY <2>7, <2>12 DEF Q
<1> HIDE DEF A
<1>3. Nat \subseteq A
  BY <1>1, <1>2, SetInduction
<1>4. N \in A /\ N <= N
  BY <1>3
<1>5. \E it \in [SUBSET (1 .. N) -> S] : Good(N, it)
  BY <1>4 DEF A
<1>6. QED
  BY <1>5 DEF DownSets, Good

\* The greatest of the first i places is i, and i - 1 remain without it.
LEMMA FirstPlaces ==
  ASSUME NEW N \in Nat, NEW i \in 1 .. N
  PROVE  /\ 1 .. i \in SUBSET (1 .. N) /\ 1 .. i # {}
         /\ Max(1 .. i) = i /\ (1 .. i) \ {i} = 1 .. (i - 1)
<1>1. i \in Nat /\ 1 .. i \in SUBSET (1 .. i) /\ i \in 1 .. i
  OBVIOUS
<1>2. Max(1 .. i) \in 1 .. i /\ \A k \in 1 .. i : k <= Max(1 .. i)
  BY <1>1, MaxOfPlaces
<1>3. Max(1 .. i) = i
  <2> DEFINE x == Max(1 .. i)
  <2>1. x \in 1 .. i /\ i <= x
    BY <1>1, <1>2
  <2> HIDE DEF x
  <2>2. x = i
    BY <2>1
  <2>3. QED
    BY <2>2 DEF x
<1>4. QED
  BY <1>1, <1>3
=============================================================================
