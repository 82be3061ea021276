--------------------------- MODULE PageTextProofs ---------------------------
(***************************************************************************)
(* What cleaning a page does to its text, for pages of any length and any  *)
(* classes of lines.  The loops of the code are recursive functions; facts *)
(* about them are proved by induction over the line, which rests on the    *)
(* least element of a set of numbers (a theorem of the library) and needs  *)
(* no operator as a parameter.                                             *)
(***************************************************************************)
EXTENDS PageText, SequenceTheorems, WellFoundedInduction, TLAPS

-----------------------------------------------------------------------------
(* Induction and recursion over 0..N.                                      *)

LEMMA Least ==
    ASSUME NEW T, T \subseteq Nat, T # {}
    PROVE  \E x \in T : \A y \in T : x <= y
<1>1. PICK x \in T : \A y \in T : ~ (<<y, x>> \in OpToRel(<, Nat))
  BY NatLessThanWellFounded, WFMin
<1>2. \A y \in T : ~ (y < x)
  BY <1>1 DEF OpToRel
<1> QED
  BY <1>2

\* A set with 0 that goes on from i - 1 to i has every number up to N.
LEMMA UpToN ==
    ASSUME NEW N \in Nat, NEW T, 0 \in T,
           \A i \in 1..N : i - 1 \in T => i \in T
    PROVE  \A i \in 0..N : i \in T
<1> DEFINE Bad == (0..N) \ T
<1>1. Bad \subseteq Nat
  OBVIOUS
<1>2. ASSUME Bad # {} PROVE FALSE
  <2> HIDE DEF Bad
  <2>1. PICK m \in Bad : \A y \in Bad : m <= y
    BY <1>1, <1>2, Least
  <2> USE DEF Bad
  <2>2. m \in 1..N /\ m - 1 \in 0..N /\ m - 1 \notin Bad
    BY <2>1
  <2> QED
    BY <2>1, <2>2
<1> QED
  BY <1>2

\* g[i] is what the first i functions of F make of a value.
Iteration(g, N, base, F) ==
    g[0] = base /\ \A i \in 1..N : g[i] = F[i][g[i - 1]]

LEMMA Iterate ==
    ASSUME NEW N \in Nat, NEW X, NEW base \in X,
           NEW F \in [1..N -> [X -> X]]
    PROVE  \E g \in [0..N -> X] : Iteration(g, N, base, F)
<1> DEFINE Reaches(n) == \E g \in [0..n -> X] : Iteration(g, n, base, F)
           T == {n \in 0..N : Reaches(n)}
<1>1. Reaches(0)
  <2> DEFINE g == [i \in 0..0 |-> base]
  <2>1. g \in [0..0 -> X] /\ Iteration(g, 0, base, F)
    BY DEF Iteration
  <2> QED
    BY <2>1
<1>2. ASSUME NEW n \in 1..N, Reaches(n - 1)
      PROVE  Reaches(n)
  <2>1. PICK g \in [0..(n - 1) -> X] : Iteration(g, n - 1, base, F)
    BY <1>2
  <2> DEFINE h == [i \in 0..n |-> IF i = n THEN F[n][g[n - 1]] ELSE g[i]]
  <2>2. h \in [0..n -> X] /\ h[0] = base
    BY <2>1 DEF Iteration
  <2>3. ASSUME NEW i \in 1..n PROVE h[i] = F[i][h[i - 1]]
    <3>1. CASE i = n
      BY <3>1
    <3>2. CASE i # n
      <4>1. i \in 1..(n - 1) /\ i - 1 # n /\ i \in 0..n /\ i - 1 \in 0..n
        BY <3>2
      <4>2. h[i] = g[i] /\ h[i - 1] = g[i - 1]
        BY <3>2, <4>1
      <4> QED
        BY <2>1, <4>1, <4>2 DEF Iteration
    <3> QED
      BY <3>1, <3>2
  <2> QED
    BY <2>2, <2>3 DEF Iteration
<1> HIDE DEF Reaches
<1>3. 0 \in T /\ \A i \in 1..N : i - 1 \in T => i \in T
  BY <1>1, <1>2
<1>4. N \in T
  <2> HIDE DEF T
  <2>1. N \in 0..N
    OBVIOUS
  <2>2. \A i \in 0..N : i \in T
    BY <1>3, UpToN
  <2> QED
    BY <2>1, <2>2
<1> QED
  BY <1>4 DEF Reaches


-----------------------------------------------------------------------------
(* The lines that are kept.                                                *)

\* u is what the loop of Without has kept after each line.
WithoutRun(u, s, drop) ==
    /\ Without(s, drop) = u[Len(s)]
    /\ u[0] = <<>>
    /\ \A i \in 1..Len(s) :
          u[i] = IF s[i] \in drop THEN u[i - 1] ELSE Append(u[i - 1], s[i])

LEMMA WithoutLoop ==
    ASSUME NEW S, NEW s \in Seq(S), NEW drop
    PROVE  \E u \in [0..Len(s) -> Seq(S \ drop)] : WithoutRun(u, s, drop)
<1> DEFINE N == Len(s)
           X == Seq(S \ drop)
           Step(i, x) == IF s[i] \in drop THEN x ELSE Append(x, s[i])
           F == [i \in 1..N |-> [x \in X |-> Step(i, x)]]
           v == CHOOSE u : u = [i \in 0..N |->
                    IF i = 0 THEN <<>>
                    ELSE IF s[i] \in drop THEN u[i - 1]
                    ELSE Append(u[i - 1], s[i])]
<1>1. N \in Nat /\ <<>> \in X
  OBVIOUS
<1>2. ASSUME NEW i \in 1..N, NEW x \in X PROVE Step(i, x) \in X
  OBVIOUS
<1>3. /\ F \in [1..N -> [X -> X]]
      /\ \A i \in 1..N, x \in X : F[i][x] = Step(i, x)
  <2> HIDE DEF Step, N, X
  <2> QED
    BY <1>2
<1>4. PICK g \in [0..N -> X] : Iteration(g, N, <<>>, F)
  <2> HIDE DEF F, N, X, v
  <2>1. F \in [1..N -> [X -> X]]
    BY <1>3
  <2> QED
    BY <1>1, <2>1, Iterate
<1>5. ASSUME NEW i \in 0..N
      PROVE  g[i] = IF i = 0 THEN <<>>
                    ELSE IF s[i] \in drop THEN g[i - 1]
                    ELSE Append(g[i - 1], s[i])
  <2>1. CASE i = 0
    BY <1>4, <2>1 DEF Iteration
  <2>2. CASE i # 0
    <3>1. i \in 1..N /\ g[i - 1] \in X
      BY <1>1, <2>2
    <3>2. g[i] = Step(i, g[i - 1])
      BY <1>3, <1>4, <3>1 DEF Iteration
    <3> QED
      BY <2>2, <3>2
  <2> QED
    BY <2>1, <2>2
<1>6. g = [i \in 0..N |->
              IF i = 0 THEN <<>>
              ELSE IF s[i] \in drop THEN g[i - 1]
              ELSE Append(g[i - 1], s[i])]
  BY <1>4, <1>5
<1>7. v = [i \in 0..N |->
              IF i = 0 THEN <<>>
              ELSE IF s[i] \in drop THEN v[i - 1]
              ELSE Append(v[i - 1], s[i])]
  BY <1>6, Zenon
<1>8. Without(s, drop) = v[N]
  BY DEF Without
<1> HIDE DEF v, F, N, X
<1>9. v[0] = <<>>
  BY <1>1, <1>7
<1>10. ASSUME NEW i \in 1..N
       PROVE  v[i] = Step(i, v[i - 1])
  <2>1. i \in 0..N /\ i # 0
    BY <1>1
  <2> QED
    BY <1>7, <2>1
<1> HIDE DEF Step
<1>11. \A i \in 0..N : v[i] \in X
  <2> DEFINE T == {i \in 0..N : v[i] \in X}
  <2>1. 0 \in T
    BY <1>1, <1>9
  <2>2. ASSUME NEW i \in 1..N, i - 1 \in T PROVE i \in T
    <3>1. i \in 0..N /\ v[i - 1] \in X
      BY <1>1, <2>2
    <3> QED
      BY <1>2, <1>10, <3>1
  <2> HIDE DEF T
  <2>3. \A i \in 0..N : i \in T
    BY <1>1, <2>1, <2>2, UpToN
  <2> QED
    BY <2>3 DEF T
<1>12. v \in [0..N -> X]
  BY <1>7, <1>11
<1> QED
  <2>1. WithoutRun(v, s, drop)
    BY <1>8, <1>9, <1>10 DEF N, Step, WithoutRun
  <2> QED
    BY <1>12, <2>1 DEF N, X

LEMMA WithoutType ==
    ASSUME NEW S, NEW s \in Seq(S), NEW drop
    PROVE  /\ Without(s, drop) \in Seq(S \ drop)
           /\ Without(s, drop) \in Seq(S)
<1>1. PICK u \in [0..Len(s) -> Seq(S \ drop)] : WithoutRun(u, s, drop)
  BY WithoutLoop
<1>2. Len(s) \in 0..Len(s)
  OBVIOUS
<1>3. Without(s, drop) \in Seq(S \ drop)
  BY <1>1, <1>2 DEF WithoutRun
<1> QED
  BY <1>3, SeqMonotonic

LEMMA WithoutEmpty ==
    ASSUME NEW drop
    PROVE  Without(<<>>, drop) = <<>>
<1>1. <<>> \in Seq({}) /\ Len(<<>>) = 0
  OBVIOUS
<1>2. \E u : WithoutRun(u, <<>>, drop)
  BY <1>1, WithoutLoop
<1> QED
  BY <1>1, <1>2 DEF WithoutRun

\* One line more: it is kept, or it is not.
LEMMA WithoutAppend ==
    ASSUME NEW S, NEW s \in Seq(S), NEW x \in S, NEW drop
    PROVE  Without(Append(s, x), drop) =
              IF x \in drop THEN Without(s, drop)
                            ELSE Append(Without(s, drop), x)
<1> DEFINE N == Len(s)
           t == Append(s, x)
           Step(i, y) == IF s[i] \in drop THEN y ELSE Append(y, s[i])
<1>1. /\ N \in Nat /\ t \in Seq(S) /\ Len(t) = N + 1 /\ t[N + 1] = x
      /\ \A i \in 1..N : t[i] = s[i]
  OBVIOUS
<1>2. PICK u : WithoutRun(u, s, drop)
  BY WithoutLoop
<1>3. PICK v : WithoutRun(v, t, drop)
  <2> HIDE DEF t
  <2> QED
    BY <1>1, WithoutLoop
<1>4. /\ u[0] = <<>> /\ v[0] = <<>>
      /\ Without(s, drop) = u[N] /\ Without(t, drop) = v[N + 1]
      /\ \A i \in 1..N : u[i] = Step(i, u[i - 1])
  <2> HIDE DEF t
  <2> QED
    BY <1>1, <1>2, <1>3 DEF WithoutRun
<1>5. \A i \in 1..(N + 1) : v[i] = IF t[i] \in drop THEN v[i - 1]
                                   ELSE Append(v[i - 1], t[i])
  <2> HIDE DEF t, N
  <2> QED
    BY <1>1, <1>3 DEF WithoutRun
<1> HIDE DEF t, N
<1>6. \A i \in 1..N : v[i] = Step(i, v[i - 1])
  <2> SUFFICES ASSUME NEW i \in 1..N PROVE v[i] = Step(i, v[i - 1])
    OBVIOUS
  <2>1. i \in 1..(N + 1) /\ t[i] = s[i]
    BY <1>1
  <2> QED
    BY <1>5, <2>1
<1> HIDE DEF Step
<1>7. v[N] = u[N]
  <2> DEFINE T == {i \in 0..N : v[i] = u[i]}
  <2>1. 0 \in T
    BY <1>1, <1>4
  <2>2. ASSUME NEW i \in 1..N, i - 1 \in T PROVE i \in T
    <3>1. i \in 0..N /\ v[i - 1] = u[i - 1]
      BY <1>1, <2>2
    <3> QED
      BY <1>4, <1>6, <3>1
  <2> HIDE DEF T
  <2>3. \A i \in 0..N : i \in T
    BY <1>1, <2>1, <2>2, UpToN
  <2> QED
    BY <1>1, <2>3 DEF T
<1>8. N + 1 \in 1..(N + 1) /\ (N + 1) - 1 = N
  BY <1>1
<1>9. v[N + 1] = IF x \in drop THEN v[N] ELSE Append(v[N], x)
  BY <1>1, <1>5, <1>8
<1> QED
  BY <1>4, <1>7, <1>9 DEF t

-----------------------------------------------------------------------------
(* The lines that are joined.                                              *)

\* u is the set of lines with a second one appended after each line.
JoinsRun(u, s) ==
    /\ Joins(s) = u[Len(s)]
    /\ u[0] = {}
    /\ \A i \in 1..Len(s) :
          u[i] = IF Joinable(s, i) /\ (i - 1) \notin u[i - 1]
                 THEN u[i - 1] \cup {i} ELSE u[i - 1]

LEMMA JoinsLoop ==
    ASSUME NEW s, Len(s) \in Nat
    PROVE  \E u : JoinsRun(u, s)
<1> DEFINE N == Len(s)
           X == SUBSET (1..N)
           Step(i, x) == IF Joinable(s, i) /\ (i - 1) \notin x
                         THEN x \cup {i} ELSE x
           F == [i \in 1..N |-> [x \in X |-> Step(i, x)]]
           v == CHOOSE u : u = [i \in 0..N |->
                    IF i = 0 THEN {}
                    ELSE IF Joinable(s, i) /\ (i - 1) \notin u[i - 1]
                         THEN u[i - 1] \cup {i} ELSE u[i - 1]]
<1>1. N \in Nat /\ {} \in X
  OBVIOUS
<1>2. ASSUME NEW i \in 1..N, NEW x \in X PROVE Step(i, x) \in X
  OBVIOUS
<1>3. /\ F \in [1..N -> [X -> X]]
      /\ \A i \in 1..N, x \in X : F[i][x] = Step(i, x)
  <2> HIDE DEF Step, N, X
  <2> QED
    BY <1>2
<1>4. PICK g \in [0..N -> X] : Iteration(g, N, {}, F)
  <2> HIDE DEF F, N, X, v
  <2>1. F \in [1..N -> [X -> X]]
    BY <1>3
  <2> QED
    BY <1>1, <2>1, Iterate
<1>5. ASSUME NEW i \in 0..N
      PROVE  g[i] = IF i = 0 THEN {}
                    ELSE IF Joinable(s, i) /\ (i - 1) \notin g[i - 1]
                         THEN g[i - 1] \cup {i} ELSE g[i - 1]
  <2> HIDE DEF N, X, F
  <2>1. CASE i = 0
    BY <1>4, <2>1 DEF Iteration
  <2>2. CASE i # 0
    <3>1. i \in 1..N /\ g[i - 1] \in X
      BY <1>1, <1>4, <2>2
    <3>2. g[i] = Step(i, g[i - 1])
      BY <1>3, <1>4, <3>1 DEF Iteration
    <3> QED
      BY <2>2, <3>2
  <2> QED
    BY <2>1, <2>2
<1>6. g = [i \in 0..N |->
              IF i = 0 THEN {}
              ELSE IF Joinable(s, i) /\ (i - 1) \notin g[i - 1]
                   THEN g[i - 1] \cup {i} ELSE g[i - 1]]
  BY <1>4, <1>5
<1>7. v = [i \in 0..N |->
              IF i = 0 THEN {}
              ELSE IF Joinable(s, i) /\ (i - 1) \notin v[i - 1]
                   THEN v[i - 1] \cup {i} ELSE v[i - 1]]
  BY <1>6, Zenon
<1>8. Joins(s) = v[N]
  BY DEF Joins
<1> HIDE DEF v, F, N, X
<1>9. v[0] = {}
  BY <1>1, <1>7
<1>10. ASSUME NEW i \in 1..N
       PROVE  v[i] = Step(i, v[i - 1])
  <2>1. i \in 0..N /\ i # 0
    BY <1>1
  <2> QED
    BY <1>7, <2>1
<1> QED
  BY <1>8, <1>9, <1>10 DEF N, JoinsRun

\* A line gets the next one appended if it is broken off there and is not
\* itself the line that was appended before: no line is in two pairs.
THEOREM JoinsAre ==
    ASSUME NEW s, Len(s) \in Nat
    PROVE  /\ Joins(s) \subseteq 1..Len(s)
           /\ \A i \in 1..Len(s) :
                 i \in Joins(s) <=> Joinable(s, i) /\ (i - 1) \notin Joins(s)
<1> DEFINE N == Len(s)
<1>1. N \in Nat
  OBVIOUS
<1>2. PICK u : JoinsRun(u, s)
  BY JoinsLoop
<1> DEFINE Right(n) ==
              /\ u[n] \subseteq 1..n
              /\ \A i \in 1..n :
                    i \in u[n] <=> Joinable(s, i) /\ (i - 1) \notin u[n]
           T == {n \in 0..N : Right(n)}
<1>3. /\ u[0] = {} /\ Joins(s) = u[N]
      /\ \A i \in 1..N : u[i] = IF Joinable(s, i) /\ (i - 1) \notin u[i - 1]
                                THEN u[i - 1] \cup {i} ELSE u[i - 1]
  BY <1>2 DEF JoinsRun
<1> HIDE DEF N
<1>4. 0 \in T
  BY <1>1, <1>3
<1>5. ASSUME NEW n \in 1..N, n - 1 \in T PROVE n \in T
  <2>1. n - 1 \in 0..N /\ Right(n - 1)
    BY <1>5
  <2>2. u[n] = IF Joinable(s, n) /\ (n - 1) \notin u[n - 1]
               THEN u[n - 1] \cup {n} ELSE u[n - 1]
    BY <1>3
  <2>3. n \notin u[n - 1] /\ u[n] \subseteq 1..n
    BY <2>1, <2>2
  <2>4. ASSUME NEW i \in 1..n
        PROVE  i \in u[n] <=> Joinable(s, i) /\ (i - 1) \notin u[n]
    <3>1. i - 1 \in u[n] <=> i - 1 \in u[n - 1]
      BY <2>2
    <3>2. CASE i = n
      BY <2>2, <2>3, <3>1, <3>2
    <3>3. CASE i # n
      <4>1. i \in 1..(n - 1) /\ (i \in u[n] <=> i \in u[n - 1])
        BY <2>2, <3>3
      <4> QED
        BY <2>1, <3>1, <4>1
    <3> QED
      BY <3>2, <3>3
  <2> QED
    BY <1>1, <2>3, <2>4
<1> HIDE DEF T
<1>6. \A n \in 0..N : n \in T
  BY <1>1, <1>4, <1>5, UpToN
<1>7. Right(N)
  <2>1. N \in T
    BY <1>1, <1>6
  <2> QED
    BY <2>1 DEF T
<1> QED
  BY <1>3, <1>7 DEF N

-----------------------------------------------------------------------------
(* Sequences put together.                                                 *)

\* f[i] is the first i sequences of q, put together.
FlattenRun(f, q) ==
    /\ FlattenSeq(q) = f[Len(q)]
    /\ f[1] = q[1]
    /\ \A i \in 2..Len(q) : f[i] = f[i - 1] \o q[i]

LEMMA FlattenLoop ==
    ASSUME NEW S, NEW q \in Seq(Seq(S)), q # <<>>
    PROVE  \E f \in [1..Len(q) -> Seq(S)] : FlattenRun(f, q)
<1> DEFINE N == Len(q)
           M == N - 1
           X == Seq(S)
           Step(k, x) == x \o q[k + 1]
           F == [k \in 1..M |-> [x \in X |-> Step(k, x)]]
           v == CHOOSE f : f = [i \in 1..N |->
                    IF i = 1 THEN q[i] ELSE f[i - 1] \o q[i]]
<1>1. /\ N \in Nat \ {0} /\ M \in Nat /\ M + 1 = N
      /\ \A i \in 1..N : q[i] \in X
  OBVIOUS
<1>2. ASSUME NEW k \in 1..M, NEW x \in X PROVE Step(k, x) \in X
  <2>1. k + 1 \in 1..N
    OBVIOUS
  <2>2. q[k + 1] \in X
    BY <1>1, <2>1
  <2> QED
    BY <2>2
<1>3. /\ F \in [1..M -> [X -> X]]
      /\ \A k \in 1..M, x \in X : F[k][x] = Step(k, x)
  <2> HIDE DEF Step, M, X
  <2> QED
    BY <1>2
<1> HIDE DEF X, M, N, F, v
<1>4. PICK g \in [0..M -> X] : Iteration(g, M, q[1], F)
  <2>1. F \in [1..M -> [X -> X]] /\ q[1] \in X
    BY <1>1, <1>3
  <2> QED
    BY <1>1, <2>1, Iterate
<1> DEFINE h == [i \in 1..N |-> g[i - 1]]
<1>5. /\ h \in [1..N -> X]
      /\ \A i \in 1..N : h[i] = g[i - 1]
  BY <1>1
<1>6. h[1] = q[1]
  BY <1>1, <1>4, <1>5 DEF Iteration
<1>7. ASSUME NEW i \in 2..N PROVE h[i] = h[i - 1] \o q[i]
  <2>1. i - 1 \in 1..M /\ i - 1 \in 1..N /\ i \in 1..N /\ (i - 1) + 1 = i
    BY <1>1
  <2> DEFINE k == i - 1
  <2>2. k \in 1..M /\ k - 1 \in 0..M /\ k + 1 = i
    BY <1>1
  <2> HIDE DEF k
  <2>3. g[k] = F[k][g[k - 1]] /\ g[k - 1] \in X
    BY <1>4, <2>2 DEF Iteration
  <2>4. g[k] = Step(k, g[k - 1])
    BY <1>3, <2>2, <2>3
  <2>5. g[k] = g[k - 1] \o q[i]
    BY <2>2, <2>4
  <2> QED
    BY <1>5, <2>1, <2>5 DEF k
<1>8. h = [i \in 1..N |-> IF i = 1 THEN q[i] ELSE h[i - 1] \o q[i]]
  <2>1. ASSUME NEW i \in 1..N
        PROVE  h[i] = IF i = 1 THEN q[i] ELSE h[i - 1] \o q[i]
    <3> HIDE DEF h
    <3>1. i = 1 \/ i \in 2..N
      BY <1>1
    <3> QED
      BY <1>6, <1>7, <3>1
  <2> HIDE DEF h
  <2> QED
    BY <1>5, <2>1
<1> HIDE DEF h
<1>9. v = [i \in 1..N |-> IF i = 1 THEN q[i] ELSE v[i - 1] \o q[i]]
  BY <1>8, Zenon DEF v
<1>10. FlattenSeq(q) = v[N]
  <2>1. Len(q) # 0
    BY <1>1 DEF N
  <2> QED
    BY <2>1 DEF FlattenSeq, v, N
<1>11. v[1] = q[1]
  BY <1>1, <1>9
<1>12. ASSUME NEW i \in 2..N PROVE v[i] = v[i - 1] \o q[i]
  <2>1. i \in 1..N /\ i # 1
    BY <1>1
  <2> QED
    BY <1>9, <2>1
<1>13. \A i \in 1..N : v[i] \in X
  <2> DEFINE T == {i \in 0..N : i > 0 => v[i] \in X}
  <2>1. 0 \in T
    BY <1>1
  <2>2. ASSUME NEW i \in 1..N, i - 1 \in T PROVE i \in T
    <3>1. CASE i = 1
      BY <1>1, <1>11, <3>1
    <3>2. CASE i # 1
      <4>1. i \in 2..N /\ v[i - 1] \in X /\ q[i] \in X /\ i \in 0..N
        BY <1>1, <2>2, <3>2
      <4>2. v[i] \in X
        <5>1. v[i] = v[i - 1] \o q[i]
          BY <1>12, <4>1
        <5> QED
          BY <4>1, <5>1, ConcatProperties DEF X
      <4> QED
        BY <4>1, <4>2
    <3> QED
      BY <3>1, <3>2
  <2> HIDE DEF T
  <2>3. \A i \in 0..N : i \in T
    BY <1>1, <2>1, <2>2, UpToN
  <2> QED
    BY <1>1, <2>3 DEF T
<1>14. v \in [1..N -> X]
  BY <1>9, <1>13
<1> QED
  BY <1>10, <1>11, <1>12, <1>14 DEF FlattenRun, N, X

\* Lines are dropped from the parts of a text as from the whole.
LEMMA WithoutConcat ==
    ASSUME NEW S, NEW s \in Seq(S), NEW t \in Seq(S), NEW drop
    PROVE  Without(s \o t, drop) = Without(s, drop) \o Without(t, drop)
<1> DEFINE N == Len(t)
           Part(n) == SubSeq(t, 1, n)
           W(x) == Without(x, drop)
           T == {n \in 0..N : W(s \o Part(n)) = W(s) \o W(Part(n))}
<1>1. N \in Nat
  OBVIOUS
<1>2. 0 \in T
  <2>1. Part(0) = <<>> /\ s \o <<>> = s
    OBVIOUS
  <2>2. W(s) \in Seq(S)
    BY WithoutType
  <2>3. W(s) \o <<>> = W(s)
    BY <2>2
  <2>4. W(<<>>) = <<>>
    BY WithoutEmpty
  <2> HIDE DEF Part, W
  <2>5. W(s \o Part(0)) = W(s) \o W(Part(0))
    BY <2>1, <2>3, <2>4
  <2> QED
    BY <1>1, <2>5
<1>3. ASSUME NEW n \in 1..N, n - 1 \in T PROVE n \in T
  <2>1. /\ Part(n - 1) \in Seq(S) /\ t[n] \in S
        /\ Part(n) = Append(Part(n - 1), t[n])
    OBVIOUS
  <2> DEFINE r == Part(n - 1)
             x == t[n]
             y == s \o r
  <2>2. r \in Seq(S) /\ x \in S /\ Part(n) = Append(r, x)
    BY <2>1
  <2>3. W(y) = W(s) \o W(r)
    BY <1>3
  <2> HIDE DEF r, x, Part
  <2>4. s \o Append(r, x) = Append(y, x) /\ y \in Seq(S)
    BY <2>2
  <2> HIDE DEF y
  <2>5. W(s) \in Seq(S) /\ W(r) \in Seq(S)
    BY <2>2, WithoutType
  <2>6. W(Append(r, x)) = IF x \in drop THEN W(r) ELSE Append(W(r), x)
    BY <2>2, WithoutAppend
  <2>7. W(Append(y, x)) = IF x \in drop THEN W(y) ELSE Append(W(y), x)
    BY <2>2, <2>4, WithoutAppend
  <2>8. W(s) \o Append(W(r), x) = Append(W(s) \o W(r), x)
    <3> HIDE DEF W
    <3> QED
      BY <2>2, <2>5
  <2>9. W(s \o Part(n)) = W(s) \o W(Part(n))
    BY <2>2, <2>3, <2>4, <2>6, <2>7, <2>8
  <2> QED
    BY <1>1, <2>9
<1> HIDE DEF T, N
<1>4. N \in T
  <2>1. \A n \in 0..N : n \in T
    BY <1>1, <1>2, <1>3, UpToN
  <2> QED
    BY <1>1, <2>1
<1>5. W(s \o Part(N)) = W(s) \o W(Part(N))
  BY <1>4 DEF T
<1>6. Part(N) = t
  BY SubSeqFull DEF N
<1> QED
  BY <1>5, <1>6

-----------------------------------------------------------------------------
(* The text of a page.                                                     *)

\* What line i adds to the text.
Piece(s, i) ==
    IF i \in Joins(s) \/ i = Len(s) THEN <<s[i]>> ELSE <<s[i], Break>>

\* f[i] is the text of the first i lines.
FixRun(f, s) ==
    /\ FixBrokenLines(s) = f[Len(s)]
    /\ f[1] = Piece(s, 1)
    /\ \A i \in 2..Len(s) : f[i] = f[i - 1] \o Piece(s, i)

LEMMA FixLoop ==
    ASSUME NEW S, NEW s \in Seq(S), s # <<>>
    PROVE  \E f \in [1..Len(s) -> Seq(S \cup {Break})] : FixRun(f, s)
<1> DEFINE N == Len(s)
           Y == S \cup {Break}
           q == [i \in DOMAIN s |-> Piece(s, i)]
<1>1. N \in Nat \ {0} /\ DOMAIN s = 1..N
  OBVIOUS
<1>2. ASSUME NEW i \in 1..N PROVE Piece(s, i) \in Seq(Y)
  <2>1. s[i] \in Y /\ Break \in Y
    BY <1>1
  <2> HIDE DEF Y
  <2>2. <<s[i]>> \in Seq(Y) /\ <<s[i], Break>> \in Seq(Y)
    BY <2>1
  <2> QED
    BY <2>2 DEF Piece
<1>3. /\ q \in Seq(Seq(Y)) /\ Len(q) = N
      /\ \A i \in 1..N : q[i] = Piece(s, i)
  <2> HIDE DEF N, Y
  <2>1. q = [i \in 1..N |-> Piece(s, i)] /\ q \in [1..N -> Seq(Y)]
    BY <1>1, <1>2
  <2> HIDE DEF q
  <2> QED
    BY <1>1, <2>1
<1>4. FixBrokenLines(s) = FlattenSeq(q)
  BY DEF FixBrokenLines, Piece
<1> HIDE DEF q, N, Y
<1>5. q # <<>>
  BY <1>1, <1>3
<1>6. PICK f \in [1..Len(q) -> Seq(Y)] : FlattenRun(f, q)
  BY <1>3, <1>5, FlattenLoop
<1>7. /\ f[1] = Piece(s, 1)
      /\ \A i \in 2..N : f[i] = f[i - 1] \o Piece(s, i)
      /\ FixBrokenLines(s) = f[N]
  <2>1. f[1] = q[1] /\ q[1] = Piece(s, 1)
    BY <1>1, <1>3, <1>6 DEF FlattenRun
  <2>2. ASSUME NEW i \in 2..N PROVE f[i] = f[i - 1] \o Piece(s, i)
    <3>1. i \in 2..Len(q) /\ i \in 1..N
      BY <1>1, <1>3
    <3> QED
      BY <1>3, <1>6, <3>1 DEF FlattenRun
  <2>3. FixBrokenLines(s) = f[N]
    BY <1>3, <1>4, <1>6 DEF FlattenRun
  <2> QED
    BY <2>1, <2>2, <2>3
<1>8. FixRun(f, s)
  BY <1>7 DEF FixRun, N
<1>9. f \in [1..N -> Seq(Y)]
  BY <1>3, <1>6
<1> QED
  BY <1>8, <1>9 DEF N, Y

LEMMA FixEmpty == FixBrokenLines(<<>>) = <<>>
<1> DEFINE q == [i \in DOMAIN <<>> |-> Piece(<<>>, i)]
<1>1. q = <<>> /\ Len(<<>>) = 0
  OBVIOUS
<1>2. FixBrokenLines(<<>>) = FlattenSeq(q)
  BY DEF FixBrokenLines, Piece
<1>3. FlattenSeq(<<>>) = <<>>
  BY <1>1 DEF FlattenSeq
<1> HIDE DEF q
<1> QED
  BY <1>1, <1>2, <1>3

LEMMA FixType ==
    ASSUME NEW S, NEW s \in Seq(S)
    PROVE  FixBrokenLines(s) \in Seq(S \cup {Break})
<1>1. CASE s = <<>>
  <2>1. FixBrokenLines(s) = <<>>
    BY <1>1, FixEmpty
  <2> QED
    BY <2>1, EmptySeq
<1>2. CASE s # <<>>
  <2>1. PICK f \in [1..Len(s) -> Seq(S \cup {Break})] : FixRun(f, s)
    BY <1>2, FixLoop
  <2>2. Len(s) \in 1..Len(s)
    BY <1>2
  <2> QED
    BY <2>1, <2>2 DEF FixRun
<1> QED
  BY <1>1, <1>2

\* The text of a page is made of its lines, of line breaks and of the mark.
LEMMA TextType ==
    ASSUME NEW S, NEW page \in Seq(S)
    PROVE  TextOf(page) \in Seq(S \cup {Break, Mark})
<1> DEFINE B == S \cup {Break, Mark}
           t == FixBrokenLines(Kept(page))
<1>1. t \in Seq(S \cup {Break})
  BY WithoutType, FixType DEF Kept
<1> HIDE DEF t
<1>2. t \in Seq(B) /\ <<Mark>> \in Seq(B)
  BY <1>1, SeqMonotonic
<1> HIDE DEF B
<1>3. <<Mark>> \o t \in Seq(B)
  BY <1>2, ConcatProperties
<1> QED
  BY <1>3 DEF TextOf, t, B

LEMMA WithoutOne ==
    ASSUME NEW x, NEW drop
    PROVE  Without(<<x>>, drop) = IF x \in drop THEN <<>> ELSE <<x>>
<1>1. <<>> \in Seq({x}) /\ <<x>> = Append(<<>>, x) /\ x \in {x}
  OBVIOUS
<1>2. Without(Append(<<>>, x), drop) =
         IF x \in drop THEN Without(<<>>, drop)
                       ELSE Append(Without(<<>>, drop), x)
  BY <1>1, WithoutAppend
<1>3. Without(<<>>, drop) = <<>>
  BY WithoutEmpty
<1> QED
  BY <1>1, <1>2, <1>3

\* A line adds itself to the text, and breaks.
LEMMA PieceLines ==
    ASSUME NEW S, Break \notin S, Mark \notin S, NEW s \in Seq(S),
           NEW i \in 1..Len(s)
    PROVE  /\ Piece(s, i) \in Seq(S \cup {Break})
           /\ Without(Piece(s, i), {Break, Mark}) = <<s[i]>>
<1> DEFINE D == {Break, Mark}
           Y == S \cup {Break}
<1>1. s[i] \in Y /\ s[i] \notin D /\ Break \in Y /\ Break \in D
  BY ElementOfSeq
<1> HIDE DEF Y, D
<1>2. /\ <<s[i]>> \in Seq(Y) /\ <<Break>> \in Seq(Y)
      /\ <<s[i], Break>> \in Seq(Y)
      /\ <<s[i], Break>> = <<s[i]>> \o <<Break>>
  BY <1>1
<1>3. Without(<<s[i]>>, D) = <<s[i]>> /\ Without(<<Break>>, D) = <<>>
  BY <1>1, WithoutOne
<1>4. Without(<<s[i], Break>>, D) = <<s[i]>> \o <<>>
  <2> DEFINE a == <<s[i]>>
             b == <<Break>>
  <2>1. a \in Seq(Y) /\ b \in Seq(Y)
    BY <1>2
  <2> HIDE DEF a, b
  <2>2. Without(a \o b, D) = Without(a, D) \o Without(b, D)
    BY <2>1, WithoutConcat
  <2> QED
    BY <1>2, <1>3, <2>2 DEF a, b
<1>5. <<s[i]>> \o <<>> = <<s[i]>>
  BY <1>2
<1> QED
  BY <1>2, <1>3, <1>4, <1>5 DEF Piece, Y, D

LEMMA FixKeepsLines ==
    ASSUME NEW S, Break \notin S, Mark \notin S, NEW s \in Seq(S)
    PROVE  Without(FixBrokenLines(s), {Break, Mark}) = s
<1> DEFINE D == {Break, Mark}
           Y == S \cup {Break}
           N == Len(s)
<1>1. CASE s = <<>>
  BY <1>1, FixEmpty, WithoutEmpty
<1>2. CASE s # <<>>
  <2>1. N \in Nat \ {0}
    BY <1>2
  <2>2. PICK f \in [1..N -> Seq(Y)] : FixRun(f, s)
    BY <1>2, FixLoop
  <2> DEFINE T == {n \in 0..N :
                     n > 0 => Without(f[n], D) = SubSeq(s, 1, n)}
  <2>3. \A i \in 1..N : /\ Piece(s, i) \in Seq(Y)
                        /\ Without(Piece(s, i), D) = <<s[i]>>
    BY PieceLines
  <2>4. \A n \in 1..N : SubSeq(s, 1, n) =
           IF n = 1 THEN <<s[1]>> ELSE SubSeq(s, 1, n - 1) \o <<s[n]>>
    <3> SUFFICES ASSUME NEW n \in 1..N
                 PROVE  SubSeq(s, 1, n) = IF n = 1 THEN <<s[1]>>
                           ELSE SubSeq(s, 1, n - 1) \o <<s[n]>>
      OBVIOUS
    <3>1. SubSeq(s, 1, n) = SubSeq(s, 1, n - 1) \o <<s[n]>>
      BY SubSeqRecursiveSecond
    <3>2. SubSeq(s, 1, 0) = <<>> /\ <<>> \o <<s[1]>> = <<s[1]>>
      BY <2>1
    <3>3. CASE n = 1
      <4>1. n - 1 = 0
        BY <3>3
      <4>2. SubSeq(s, 1, n) = SubSeq(s, 1, 0) \o <<s[1]>>
        BY <3>1, <3>3, <4>1
      <4> QED
        BY <3>2, <3>3, <4>2
    <3>4. CASE n # 1
      BY <3>1, <3>4
    <3> QED
      BY <3>3, <3>4
  <2>5. 0 \in T
    BY <2>1
  <2>6. ASSUME NEW n \in 1..N, n - 1 \in T PROVE n \in T
    <3> HIDE DEF D, Y
    <3>1. CASE n = 1
      <4>1. Without(f[1], D) = <<s[1]>>
        BY <2>1, <2>2, <2>3 DEF FixRun
      <4> QED
        BY <2>4, <3>1, <4>1
    <3>2. CASE n # 1
      <4>1. /\ n \in 2..N /\ n - 1 \in 1..N
            /\ Without(f[n - 1], D) = SubSeq(s, 1, n - 1)
        BY <2>1, <2>6, <3>2
      <4>2. f[n] = f[n - 1] \o Piece(s, n) /\ f[n - 1] \in Seq(Y)
        BY <2>2, <4>1 DEF FixRun
      <4>3. Without(f[n], D) = SubSeq(s, 1, n - 1) \o <<s[n]>>
        <5> DEFINE a == f[n - 1]
                   b == Piece(s, n)
        <5>1. a \in Seq(Y) /\ b \in Seq(Y)
          BY <2>3, <4>2
        <5> HIDE DEF a, b
        <5>2. Without(a \o b, D) = Without(a, D) \o Without(b, D)
          BY <5>1, WithoutConcat
        <5> QED
          BY <2>3, <4>1, <4>2, <5>2 DEF a, b
      <4> QED
        BY <2>4, <3>2, <4>3
    <3> QED
      BY <3>1, <3>2
  <2> HIDE DEF T, D, Y
  <2>7. \A n \in 0..N : n \in T
    <3> HIDE DEF N
    <3> QED
      BY <2>1, <2>5, <2>6, UpToN
  <2>8. Without(f[N], D) = SubSeq(s, 1, N)
    <3> HIDE DEF N
    <3> QED
      BY <2>1, <2>7 DEF T
  <2>9. SubSeq(s, 1, N) = s
    BY SubSeqFull
  <2> QED
    BY <2>2, <2>8, <2>9 DEF FixRun, D
<1> QED
  BY <1>1, <1>2

\* Of a page of any length, the text has every line that is kept, once and in
\* the order of the page, and nothing else but line breaks and the mark; no
\* noise is kept.
THEOREM TextKeepsLines ==
    ASSUME NEW S, Break \notin S, Mark \notin S, NEW page \in Seq(S)
    PROVE  /\ Without(TextOf(page), {Break, Mark}) = Kept(page)
           /\ Kept(page) \in Seq(S \ Noise)
<1> DEFINE D == {Break, Mark}
           B == S \cup {Break, Mark}
           t == FixBrokenLines(Kept(page))
<1>1. Kept(page) \in Seq(S) /\ Kept(page) \in Seq(S \ Noise)
  BY WithoutType DEF Kept
<1>2. t \in Seq(S \cup {Break}) /\ Without(t, D) = Kept(page)
  BY <1>1, FixType, FixKeepsLines
<1>3. t \in Seq(B) /\ <<Mark>> \in Seq(B)
  <2>1. S \cup {Break} \subseteq B /\ Mark \in B
    OBVIOUS
  <2> HIDE DEF B, t
  <2> QED
    BY <1>2, <2>1, SeqMonotonic
<1> HIDE DEF t, B
<1>4. Without(<<Mark>>, D) = <<>>
  BY WithoutOne
<1> DEFINE m == <<Mark>>
<1>5. m \in Seq(B) /\ t \in Seq(B)
  BY <1>3
<1> HIDE DEF D, m
<1>6. Without(m \o t, D) = Without(m, D) \o Without(t, D)
  BY <1>5, WithoutConcat
<1>7. <<>> \o Kept(page) = Kept(page)
  BY <1>1
<1> QED
  BY <1>1, <1>2, <1>4, <1>6, <1>7 DEF TextOf, t, D, m

\* Of lines in any number, two share a line of the text only if the second
\* goes on where the first was broken off, and no third one follows them.
THEOREM TextJoinsOnlyBroken ==
    ASSUME NEW S, Break \notin S, NEW s \in Seq(S)
    PROVE  OnlyBrokenJoined(FixBrokenLines(s))
<1> DEFINE N == Len(s)
           Y == S \cup {Break}
           Goes(t, n) ==
              /\ t \in Seq(Y) /\ Len(t) > 0
              /\ OnlyBrokenJoined(t)
              /\ t[Len(t)] = IF n \in Joins(s) \/ n = N THEN s[n] ELSE Break
              /\ n \in Joins(s) /\ Len(t) > 1 => t[Len(t) - 1] = Break
<1>1. CASE s = <<>>
  <2>1. FixBrokenLines(s) = <<>> /\ Len(<<>>) = 0
    BY <1>1, FixEmpty
  <2> QED
    BY <2>1 DEF OnlyBrokenJoined
<1>2. CASE s # <<>>
  <2>1. N \in Nat \ {0} /\ \A i \in 1..N : s[i] \in S
    BY <1>2
  <2>2. PICK f \in [1..N -> Seq(Y)] : FixRun(f, s)
    BY <1>2, FixLoop
  <2>3. /\ f[1] = Piece(s, 1) /\ FixBrokenLines(s) = f[N]
        /\ \A i \in 2..N : f[i] = f[i - 1] \o Piece(s, i)
    BY <2>2 DEF FixRun
  <2>4. /\ Joins(s) \subseteq 1..N
        /\ \A i \in 1..N :
              i \in Joins(s) <=> Joinable(s, i) /\ (i - 1) \notin Joins(s)
        /\ \A i \in Joins(s) :
              i < N /\ s[i] \in Unfinished /\ s[i + 1] \in Lower
    BY <2>1, JoinsAre DEF Joinable
  <2>5. \A i \in 1..N :
           IF i \in Joins(s) \/ i = N THEN Piece(s, i) = <<s[i]>>
                                      ELSE Piece(s, i) = <<s[i], Break>>
    BY DEF Piece
  <2> DEFINE T == {n \in 0..N : n > 0 => Goes(f[n], n)}
  <2> HIDE DEF N, Y
  <2>6. Goes(f[1], 1)
    <3> DEFINE t == f[1]
    <3>1. t \in Seq(Y) /\ (t = <<s[1]>> \/ t = <<s[1], Break>>)
      BY <2>1, <2>2, <2>3, <2>5
    <3>2. IF 1 \in Joins(s) \/ 1 = N
          THEN Len(t) = 1 /\ t[1] = s[1]
          ELSE Len(t) = 2 /\ t[1] = s[1] /\ t[2] = Break
      <4>1. 1 \in 1..N
        BY <2>1
      <4>2. IF 1 \in Joins(s) \/ 1 = N THEN t = <<s[1]>>
                                       ELSE t = <<s[1], Break>>
        BY <2>3, <2>5, <4>1
      <4> HIDE DEF t
      <4> QED
        BY <4>2
    <3> HIDE DEF t
    <3>3. OnlyBrokenJoined(t)
      <4>1. ASSUME NEW i \in 1..(Len(t) - 1)
            PROVE  i + 1 = 2 /\ t[2] = Break
        <5>1. Len(t) = 1 \/ (Len(t) = 2 /\ t[2] = Break)
          BY <3>2
        <5>2. CASE Len(t) = 1
          BY <5>2
        <5>3. CASE Len(t) = 2
          BY <5>1, <5>3
        <5> QED
          BY <5>1, <5>2, <5>3
      <4> QED
        BY <4>1 DEF OnlyBrokenJoined
    <3> QED
      BY <3>1, <3>2, <3>3 DEF t
  <2>7. ASSUME NEW n \in 2..N, Goes(f[n - 1], n - 1)
        PROVE  Goes(f[n], n)
    <3> DEFINE r == f[n - 1]
               t == f[n]
               k == Len(r)
               p == Piece(s, n)
    <3>1. /\ n \in 1..N /\ n - 1 \in 1..N /\ n - 1 # N
          /\ s[n] \in S /\ s[n] # Break
      BY <2>1
    <3>2. t = r \o p /\ r \in Seq(Y) /\ t \in Seq(Y) /\ k \in Nat \ {0}
      <4>1. t = r \o p
        BY <2>3
      <4>2. r \in Seq(Y) /\ t \in Seq(Y)
        BY <2>2, <3>1
      <4>3. k > 0
        BY <2>7
      <4> HIDE DEF r, t, p
      <4> QED
        BY <4>1, <4>2, <4>3
    <3>3. p = <<s[n]>> \/ p = <<s[n], Break>>
      BY <2>5, <3>1
    <3>4. p = <<s[n]>> <=> n \in Joins(s) \/ n = N
      <4>1. <<s[n]>> # <<s[n], Break>>
        OBVIOUS
      <4> QED
        BY <2>5, <3>1, <4>1
    <3> HIDE DEF p
    <3>5. /\ \A i \in 1..k : t[i] = r[i]
          /\ t[k + 1] = s[n]
          /\ Len(t) = IF n \in Joins(s) \/ n = N THEN k + 1 ELSE k + 2
          /\ Len(t) = k + 2 => t[k + 2] = Break
      <4>1. CASE p = <<s[n]>>
        BY <3>2, <3>4, <4>1
      <4>2. CASE p = <<s[n], Break>>
        BY <3>2, <3>3, <3>4, <4>2
      <4> QED
        BY <3>3, <4>1, <4>2
    <3>6. /\ OnlyBrokenJoined(r)
          /\ r[k] = IF n - 1 \in Joins(s) THEN s[n - 1] ELSE Break
          /\ n - 1 \in Joins(s) /\ k > 1 => r[k - 1] = Break
      BY <2>7, <3>1
    <3>7. n - 1 \in Joins(s) =>
             n \notin Joins(s) /\ s[n - 1] \in Unfinished /\ s[n] \in Lower
      <4>1. (n - 1) + 1 = n
        BY <3>1
      <4> QED
        BY <2>4, <3>1, <4>1
    <3> HIDE DEF t, r, k
    <3>8. ASSUME NEW i \in 1..(Len(t) - 1), t[i] # Break, t[i + 1] # Break
          PROVE  /\ t[i] \in Unfinished /\ t[i + 1] \in Lower
                 /\ i > 1 => t[i - 1] = Break
      <4>1. i \in Nat /\ i >= 1 /\ i <= k
        BY <3>2, <3>5, <3>8
      <4>2. CASE i = k
        <5>1. n - 1 \in Joins(s) /\ t[i] = s[n - 1] /\ t[i + 1] = s[n]
          <6>1. k \in 1..k
            BY <3>2
          <6>2. t[k] = r[k] /\ t[k + 1] = s[n]
            BY <3>5, <6>1
          <6> QED
            BY <3>6, <3>8, <4>2, <6>2
        <5>2. k > 1 => t[k - 1] = r[k - 1]
          <6>1. k > 1 => k - 1 \in 1..k
            BY <3>2
          <6> QED
            BY <3>5, <6>1
        <5> QED
          BY <3>6, <3>7, <4>2, <5>1, <5>2
      <4>3. CASE i < k
        <5>1. /\ i \in 1..(k - 1) /\ t[i] = r[i] /\ t[i + 1] = r[i + 1]
              /\ i > 1 => t[i - 1] = r[i - 1]
          <6>1. /\ i \in 1..(k - 1) /\ i \in 1..k /\ i + 1 \in 1..k
                /\ i > 1 => i - 1 \in 1..k
            BY <3>2, <4>1, <4>3
          <6> QED
            BY <3>5, <6>1
        <5> QED
          BY <3>6, <3>8, <5>1 DEF OnlyBrokenJoined, k
      <4> QED
        BY <3>2, <4>1, <4>2, <4>3
    <3>9. OnlyBrokenJoined(t)
      BY <3>8 DEF OnlyBrokenJoined
    <3>10. t[Len(t)] = IF n \in Joins(s) \/ n = N THEN s[n] ELSE Break
      BY <3>2, <3>5
    <3>11. n \in Joins(s) /\ Len(t) > 1 => t[Len(t) - 1] = Break
      <4>1. n \in Joins(s) => n - 1 \notin Joins(s)
        BY <3>7
      <4>2. n \in Joins(s) => Len(t) - 1 = k /\ t[k] = r[k]
        BY <3>2, <3>5
      <4> QED
        BY <3>6, <4>1, <4>2
    <3>12. Len(t) > 0
      BY <3>2, <3>5
    <3> QED
      BY <3>2, <3>9, <3>10, <3>11, <3>12 DEF t
  <2> HIDE DEF Goes
  <2>8. 0 \in T
    BY <2>1
  <2>9. ASSUME NEW n \in 1..N, n - 1 \in T PROVE n \in T
    <3>1. CASE n = 1
      BY <2>1, <2>6, <3>1
    <3>2. CASE n # 1
      <4>1. n \in 2..N /\ n \in 0..N /\ Goes(f[n - 1], n - 1)
        BY <2>1, <2>9, <3>2
      <4> QED
        BY <2>7, <4>1
    <3> QED
      BY <3>1, <3>2
  <2> HIDE DEF T
  <2>10. \A n \in 0..N : n \in T
    BY <2>1, <2>8, <2>9, UpToN
  <2>11. Goes(f[N], N)
    BY <2>1, <2>10 DEF T
  <2> QED
    BY <2>3, <2>11 DEF Goes
<1> QED
  BY <1>1, <1>2
=============================================================================
