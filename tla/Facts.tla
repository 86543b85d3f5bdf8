------------------------------- MODULE Facts -------------------------------
(***************************************************************************)
(* What the proofs need to know about numbers and sequences: a set of      *)
(* numbers has a least element, which is how a property of every index is  *)
(* proved; a loop written as a recursive function has a state for each of  *)
(* its rounds; remainders, for the ring buffers; and for the queues of the *)
(* kernel the elements, and their being distinct, of a sequence that       *)
(* something is appended to or taken from the front of.                    *)
(***************************************************************************)
EXTENDS Integers, Sequences, Functions, WellFoundedInduction, TLAPS

-----------------------------------------------------------------------------
(* Numbers                                                                 *)

LEMMA LeastNumber ==
    ASSUME NEW T \in SUBSET Nat, T # {}
    PROVE  \E n \in T : \A m \in T : n <= m
  <1>1. IsWellFoundedOn(OpToRel(<, Nat), Nat)
    BY NatLessThanWellFounded
  <1>2. PICK n \in T : \A m \in T : ~(<<m, n>> \in OpToRel(<, Nat))
    BY <1>1, WFMin
  <1>3. \A m \in T : ~(m < n)
    BY <1>2 DEF OpToRel
  <1> QED BY <1>3

\* Induction up to N, with the set of numbers for which something holds.
LEMMA UpTo ==
    ASSUME NEW N \in Nat, NEW T, 0 \in T, \A n \in 1 .. N : n - 1 \in T => n \in T
    PROVE  0 .. N \subseteq T
  <1> DEFINE Bad == {n \in 0 .. N : n \notin T}
  <1>1. SUFFICES ASSUME Bad # {} PROVE FALSE
    OBVIOUS
  <1>2. Bad \in SUBSET Nat
    OBVIOUS
  <1>3. PICK n \in Bad : \A k \in Bad : n <= k
    BY <1>1, <1>2, LeastNumber
  <1>4. n \in 1 .. N /\ n - 1 \in 0 .. N /\ ~(n <= n - 1)
    BY <1>3
  <1>5. n - 1 \in T
    BY <1>3, <1>4
  <1> QED BY <1>3, <1>4, <1>5

\* A loop of N rounds that starts from e and takes x to F[n][x] in round n has
\* a state for each round, if no round leads out of U.
IsLoop(N, U, e, F) == N \in Nat /\ e \in U /\ F \in [1 .. N -> [U -> U]]
Runs(g, N, U, e, F) == /\ g \in [0 .. N -> U] /\ g[0] = e
                       /\ \A n \in 1 .. N : g[n] = F[n][g[n - 1]]
LEMMA LoopRuns ==
    ASSUME NEW N, NEW U, NEW e, NEW F, IsLoop(N, U, e, F)
    PROVE  \E g : Runs(g, N, U, e, F)
  <1> USE DEF IsLoop
  <1> DEFINE Run(g, k) == /\ g \in [0 .. k -> U] /\ g[0] = e
                          /\ \A n \in 1 .. k : g[n] = F[n][g[n - 1]]
             T == {k \in 0 .. N : \E g : Run(g, k)}
  <1>1. 0 \in T
    <2>1. PICK g : g = [n \in 0 .. 0 |-> e]
      OBVIOUS
    <2>2. g \in [0 .. 0 -> U] /\ g[0] = e /\ 1 .. 0 = {}
      BY <2>1
    <2>3. Run(g, 0)
      BY <2>2
    <2> QED BY <2>3
  <1>2. ASSUME NEW k \in 1 .. N, k - 1 \in T PROVE k \in T
    <2>1. PICK g : Run(g, k - 1)
      BY <1>2
    <2> DEFINE h == [n \in 0 .. k |-> IF n = k THEN F[k][g[k - 1]] ELSE g[n]]
    <2>2. g[k - 1] \in U /\ F[k][g[k - 1]] \in U
      BY <1>2, <2>1
    <2>3. h \in [0 .. k -> U]
      BY <2>1, <2>2
    <2>4. h[0] = e
      BY <2>1, <1>2
    <2>5. ASSUME NEW n \in 1 .. k PROVE h[n] = F[n][h[n - 1]]
      <3>1. n - 1 \in 0 .. k /\ n - 1 # k /\ n \in 0 .. k /\ (n # k => n \in 1 .. k - 1)
        BY <2>5
      <3>2. h[n - 1] = g[n - 1]
        BY <3>1
      <3> QED BY <2>1, <3>1, <3>2
    <2> HIDE DEF h
    <2> QED BY <2>3, <2>4, <2>5
  <1>3. N \in T
    <2> HIDE DEF T
    <2>1. 0 .. N \subseteq T
      BY <1>1, <1>2, UpTo
    <2> QED BY <2>1
  <1>4. PICK g : Run(g, N)
    BY <1>3
  <1> QED BY <1>4 DEF Runs

LEMMA ModFacts ==
    ASSUME NEW N \in Nat \ {0}, NEW a \in Int
    PROVE  a % N \in 0 .. N - 1 /\ a \div N \in Int /\ a = N * (a \div N) + (a % N)
  <1>1. a % N \in 0 .. N - 1
    OBVIOUS
  <1>2. a \div N \in Int
    OBVIOUS
  <1>3. a = N * (a \div N) + (a % N)
    OBVIOUS
  <1> QED BY <1>1, <1>2, <1>3

LEMMA DivAtMost ==
    ASSUME NEW N \in Nat \ {0}, NEW a \in Int, NEW q \in Int
    PROVE  a \div N <= q <=> a < N * q + N
  <1>1. PICK d \in Int, r \in 0 .. N - 1 : d = a \div N /\ a = N * d + r
    BY ModFacts
  <1>2. CASE d <= q
    <2>1. N * d <= N * q
      BY <1>2
    <2> QED BY <1>1, <1>2, <2>1
  <1>3. CASE d >= q + 1
    <2>1. N * d >= N * (q + 1)
      BY <1>3
    <2>2. N * (q + 1) = N * q + N
      OBVIOUS
    <2> QED BY <1>1, <1>3, <2>1, <2>2
  <1> QED BY <1>2, <1>3

LEMMA Multiple ==
    ASSUME NEW N \in Nat \ {0}, NEW q \in Int, -N < N * q, N * q < N
    PROVE  q = 0
  <1>1. CASE q >= 1
    <2>1. N * q >= N * 1
      BY <1>1
    <2> QED BY <2>1
  <1>2. CASE q <= -1
    <2>1. N * q <= N * (-1)
      BY <1>2
    <2> QED BY <2>1
  <1> QED BY <1>1, <1>2

\* Two numbers that differ by less than N have the same remainder only if equal.
LEMMA ModInjective ==
    ASSUME NEW N \in Nat \ {0}, NEW a \in Int, NEW b \in Int, -N < a - b, a - b < N,
           a % N = b % N
    PROVE  a = b
  <1>1. PICK c \in Int, d \in Int, r \in Int : a = N * c + r /\ b = N * d + r
    <2>1. a = N * (a \div N) + (a % N) /\ a \div N \in Int /\ a % N \in 0 .. N - 1
      BY ModFacts
    <2>2. b = N * (b \div N) + (b % N) /\ b \div N \in Int /\ b % N \in 0 .. N - 1
      BY ModFacts
    <2>3. a % N \in Int
      BY <2>1
    <2> QED BY <2>1, <2>2, <2>3
  <1>2. a - b = N * (c - d)
    <2>1. N * (c - d) = N * c - N * d
      OBVIOUS
    <2>2. N * c \in Int /\ N * d \in Int
      OBVIOUS
    <2> QED BY <1>1, <2>1, <2>2
  <1>3. c - d = 0
    <2>1. c - d \in Int
      OBVIOUS
    <2> QED BY <1>2, <2>1, Multiple
  <1> QED BY <1>2, <1>3

LEMMA ModIs ==
    ASSUME NEW N \in Nat \ {0}, NEW a \in Int, NEW r \in 0 .. N - 1, NEW q \in Int, a = N * q + r
    PROVE  a % N = r
  <1>1. PICK c \in Int, d \in 0 .. N - 1 : c = a \div N /\ d = a % N /\ a = N * c + d
    BY ModFacts
  <1>2. N * (c - q) = r - d
    <2>1. N * c + d = N * q + r
      BY <1>1
    <2>2. N * (c - q) = N * c - N * q
      OBVIOUS
    <2>3. N * c \in Int /\ N * q \in Int
      OBVIOUS
    <2> QED BY <2>1, <2>2, <2>3
  <1>3. c - q = 0
    <2>1. -N < r - d /\ r - d < N
      OBVIOUS
    <2>2. c - q \in Int
      OBVIOUS
    <2> QED BY <1>2, <2>1, <2>2, Multiple
  <1>4. r = d
    BY <1>2, <1>3
  <1> QED BY <1>1, <1>4

LEMMA ModAdds ==
    ASSUME NEW N \in Nat \ {0}, NEW a \in Int, NEW b \in Int
    PROVE  ((a % N) + b) % N = (a + b) % N
  <1>1. PICK c, d : c = a \div N /\ d = a % N
    OBVIOUS
  <1>2. c \in Int /\ d \in 0 .. N - 1 /\ a = N * c + d
    BY <1>1, ModFacts
  <1>3. d + b \in Int
    BY <1>2
  <1>4. PICK e, r : e = (d + b) \div N /\ r = (d + b) % N
    OBVIOUS
  <1>5. e \in Int /\ r \in 0 .. N - 1 /\ d + b = N * e + r
    BY <1>3, <1>4, ModFacts
  <1>6. a + b = N * (c + e) + r
    <2>1. N * (c + e) = N * c + N * e
      BY <1>2, <1>5
    <2>2. N * c \in Int /\ N * e \in Int /\ d \in Int /\ r \in Int
      BY <1>2, <1>5
    <2> QED BY <1>2, <1>5, <2>1, <2>2
  <1>7. (a + b) % N = r
    <2>1. c + e \in Int /\ a + b \in Int
      BY <1>2, <1>5
    <2> QED BY <1>5, <1>6, <2>1, ModIs
  <1> QED BY <1>1, <1>4, <1>7

-----------------------------------------------------------------------------
(* Sequences                                                               *)

\* The elements of a sequence are in the set it is a sequence of.
LEMMA RangeOfSeq ==
    ASSUME NEW S, NEW s \in Seq(S)
    PROVE  /\ DOMAIN s = 1 .. Len(s)
           /\ Len(s) \in Nat
           /\ Range(s) = {s[i] : i \in 1 .. Len(s)}
           /\ Range(s) \subseteq S
  BY DEF Range

\* list_add_before on the head of a list: one more element, last.
LEMMA AppendFacts ==
    ASSUME NEW S, NEW s \in Seq(S), NEW e \in S
    PROVE  /\ Append(s, e) \in Seq(S)
           /\ Range(Append(s, e)) = Range(s) \cup {e}
           /\ IsInjective(s) /\ e \notin Range(s) => IsInjective(Append(s, e))
  <1> DEFINE n == Len(s)
             t == Append(s, e)
  <1>1. /\ t \in Seq(S) /\ Len(t) = n + 1 /\ n \in Nat
        /\ \A i \in 1 .. n : t[i] = s[i]
        /\ t[n + 1] = e
        /\ DOMAIN t = 1 .. n + 1 /\ DOMAIN s = 1 .. n
    OBVIOUS
  <1>2. \A i \in 1 .. n + 1 : i = n + 1 \/ i \in 1 .. n
    BY <1>1
  <1>3. Range(t) = Range(s) \cup {e}
    <2>1. \A i \in 1 .. n + 1 : t[i] \in Range(s) \cup {e}
      BY <1>1, <1>2 DEF Range
    <2>2. \A i \in 1 .. n : i \in 1 .. n + 1 /\ s[i] \in Range(t)
      <3> TAKE i \in 1 .. n
      <3>1. i \in 1 .. n + 1
        BY <1>1
      <3> QED BY <1>1, <3>1 DEF Range
    <2>3. e \in Range(t)
      <3>1. n + 1 \in 1 .. n + 1
        BY <1>1
      <3> QED BY <1>1, <3>1 DEF Range
    <2> HIDE DEF t
    <2> QED BY <1>1, <2>1, <2>2, <2>3 DEF Range
  <1>4. ASSUME IsInjective(s), e \notin Range(s)
        PROVE  IsInjective(t)
    <2> SUFFICES ASSUME NEW i \in 1 .. n + 1, NEW j \in 1 .. n + 1, t[i] = t[j]
                 PROVE  i = j
      BY <1>1 DEF IsInjective
    <2>1. \A k \in 1 .. n : t[k] \in Range(s)
      BY <1>1 DEF Range
    <2>2. CASE i \in 1 .. n /\ j \in 1 .. n
      BY <1>1, <1>4, <2>2 DEF IsInjective
    <2>3. CASE i = n + 1 \/ j = n + 1
      BY <1>1, <1>2, <1>4, <2>1, <2>3
    <2> QED BY <1>2, <2>2, <2>3
  <1> QED BY <1>1, <1>3, <1>4

\* Taking the first element of a list off it.
LEMMA TailFacts ==
    ASSUME NEW S, NEW s \in Seq(S), s # <<>>
    PROVE  /\ Head(s) \in S /\ Head(s) \in Range(s)
           /\ Tail(s) \in Seq(S)
           /\ IsInjective(s) => /\ IsInjective(Tail(s))
                                /\ Range(Tail(s)) = Range(s) \ {Head(s)}
  <1> DEFINE n == Len(s)
             t == Tail(s)
  <1>1. /\ t \in Seq(S) /\ n \in Nat \ {0} /\ Len(t) = n - 1
        /\ \A i \in 1 .. n - 1 : t[i] = s[i + 1]
        /\ DOMAIN t = 1 .. n - 1 /\ DOMAIN s = 1 .. n
        /\ Head(s) = s[1]
        /\ 1 \in 1 .. n
    OBVIOUS
  <1>2. Head(s) \in S /\ Head(s) \in Range(s)
    BY <1>1 DEF Range
  <1>3. ASSUME IsInjective(s)
        PROVE  IsInjective(t) /\ Range(t) = Range(s) \ {Head(s)}
    <2>1. \A i \in 1 .. n - 1 : i + 1 \in 1 .. n /\ i + 1 # 1
      BY <1>1
    <2>2. IsInjective(t)
      <3> SUFFICES ASSUME NEW i \in 1 .. n - 1, NEW j \in 1 .. n - 1,
                          t[i] = t[j]
                   PROVE  i = j
        BY <1>1 DEF IsInjective
      <3>1. i + 1 = j + 1
        BY <1>1, <1>3, <2>1 DEF IsInjective
      <3> QED BY <3>1
    <2>3. \A i \in 1 .. n - 1 : t[i] \in Range(s) \ {Head(s)}
      BY <1>1, <1>3, <2>1 DEF IsInjective, Range
    <2>4. \A i \in 1 .. n : i # 1 => s[i] \in Range(t)
      <3> SUFFICES ASSUME NEW i \in 1 .. n, i # 1 PROVE s[i] \in Range(t)
        OBVIOUS
      <3>1. i - 1 \in 1 .. n - 1 /\ (i - 1) + 1 = i
        BY <1>1
      <3>2. t[i - 1] = s[i]
        BY <1>1, <3>1
      <3> HIDE DEF t
      <3> QED BY <1>1, <3>1, <3>2 DEF Range
    <2> HIDE DEF t
    <2> QED BY <1>1, <2>2, <2>3, <2>4 DEF Range
  <1> QED BY <1>1, <1>2, <1>3

\* Putting one list behind another.
LEMMA ConcatFacts ==
    ASSUME NEW S, NEW s \in Seq(S), NEW r \in Seq(S)
    PROVE  /\ s \o r \in Seq(S)
           /\ Range(s \o r) = Range(s) \cup Range(r)
           /\ IsInjective(s) /\ IsInjective(r) /\ Range(s) \cap Range(r) = {}
                  => IsInjective(s \o r)
  <1> DEFINE n == Len(s)
             m == Len(r)
             t == s \o r
  <1>1. /\ t \in Seq(S) /\ n \in Nat /\ m \in Nat /\ Len(t) = n + m
        /\ DOMAIN s = 1 .. n /\ DOMAIN r = 1 .. m /\ DOMAIN t = 1 .. n + m
        /\ \A i \in 1 .. n : t[i] = s[i]
    OBVIOUS
  <1>2. \A i \in 1 .. m : i + n \in 1 .. n + m /\ t[i + n] = r[i]
    OBVIOUS
  <1>3. \A i \in 1 .. n : i \in 1 .. n + m
    BY <1>1
  <1>4. \A i \in 1 .. n + m : i \in 1 .. n \/ (i - n \in 1 .. m /\ (i - n) + n = i)
    BY <1>1
  <1> HIDE DEF t
  <1>5. Range(t) = Range(s) \cup Range(r)
    <2>1. \A i \in 1 .. n + m : t[i] \in Range(s) \cup Range(r)
      BY <1>1, <1>2, <1>4 DEF Range
    <2>2. \A i \in 1 .. n : s[i] \in Range(t)
      BY <1>1, <1>3 DEF Range
    <2>3. \A i \in 1 .. m : r[i] \in Range(t)
      BY <1>1, <1>2 DEF Range
    <2> QED BY <1>1, <2>1, <2>2, <2>3 DEF Range
  <1>6. ASSUME IsInjective(s), IsInjective(r), Range(s) \cap Range(r) = {}
        PROVE  IsInjective(t)
    <2> SUFFICES ASSUME NEW i \in 1 .. n + m, NEW j \in 1 .. n + m, t[i] = t[j]
                 PROVE  i = j
      BY <1>1 DEF IsInjective
    <2>1. \A k \in 1 .. n : t[k] \in Range(s)
      BY <1>1 DEF Range
    <2>2. \A k \in 1 .. n + m : k - n \in 1 .. m /\ (k - n) + n = k
                                  => t[k] = r[k - n] /\ t[k] \in Range(r)
      BY <1>1, <1>2 DEF Range
    <2>3. CASE i \in 1 .. n /\ j \in 1 .. n
      BY <1>1, <1>6, <2>3 DEF IsInjective
    <2>4. CASE i - n \in 1 .. m /\ (i - n) + n = i /\ j - n \in 1 .. m /\ (j - n) + n = j
      <3>1. i - n = j - n
        BY <1>1, <1>6, <2>2, <2>4 DEF IsInjective
      <3> QED BY <3>1, <2>4
    <2> QED BY <1>4, <1>6, <2>1, <2>2, <2>3, <2>4
  <1> QED BY <1>1, <1>5, <1>6 DEF t

\* The list of at most one element.
LEMMA SingletonFacts ==
    ASSUME NEW S, NEW e \in S
    PROVE  /\ <<e>> \in Seq(S) /\ <<>> \in Seq(S)
           /\ Range(<<e>>) = {e} /\ Range(<<>>) = {}
           /\ IsInjective(<<e>>) /\ IsInjective(<<>>)
  <1>1. DOMAIN <<e>> = {1} /\ <<e>>[1] = e
    OBVIOUS
  <1>2. DOMAIN <<>> = {}
    OBVIOUS
  <1>3. Range(<<e>>) = {e} /\ IsInjective(<<e>>)
    BY <1>1 DEF Range, IsInjective
  <1>4. Range(<<>>) = {} /\ IsInjective(<<>>)
    BY <1>2 DEF Range, IsInjective
  <1> QED BY <1>3, <1>4

\* Sequences are equal when their elements are.
LEMMA SameSeqs ==
    ASSUME NEW S, NEW s \in Seq(S), NEW r \in Seq(S), Len(s) = Len(r),
           \A i \in 1 .. Len(s) : s[i] = r[i]
    PROVE  s = r
  OBVIOUS

LEMMA ConcatElements ==
    ASSUME NEW S, NEW s \in Seq(S), NEW r \in Seq(S)
    PROVE  /\ s \o r \in Seq(S) /\ Len(s \o r) = Len(s) + Len(r)
           /\ Len(s) \in Nat /\ Len(r) \in Nat
           /\ \A i \in 1 .. Len(s) : (s \o r)[i] = s[i]
           /\ \A i \in 1 .. Len(r) : (s \o r)[Len(s) + i] = r[i]
  OBVIOUS

LEMMA ConcatEmpty ==
    ASSUME NEW S, NEW s \in Seq(S)
    PROVE  s \o <<>> = s /\ <<>> \o s = s
  OBVIOUS

LEMMA ConcatAssoc ==
    ASSUME NEW S, NEW a \in Seq(S), NEW b \in Seq(S), NEW c \in Seq(S)
    PROVE  (a \o b) \o c = a \o (b \o c)
  <1>1. PICK k \in Nat, m \in Nat, n \in Nat : k = Len(a) /\ m = Len(b) /\ n = Len(c)
    OBVIOUS
  <1>2. PICK ab, bc, l, r : ab = a \o b /\ bc = b \o c /\ l = ab \o c /\ r = a \o bc
    OBVIOUS
  <1>3. /\ ab \in Seq(S) /\ Len(ab) = k + m
        /\ \A i \in 1 .. k : ab[i] = a[i]
        /\ \A i \in 1 .. m : ab[k + i] = b[i]
    BY <1>1, <1>2, ConcatElements
  <1>4. /\ bc \in Seq(S) /\ Len(bc) = m + n
        /\ \A i \in 1 .. m : bc[i] = b[i]
        /\ \A i \in 1 .. n : bc[m + i] = c[i]
    BY <1>1, <1>2, ConcatElements
  <1>5. /\ l \in Seq(S) /\ Len(l) = k + m + n
        /\ \A i \in 1 .. k + m : l[i] = ab[i]
        /\ \A i \in 1 .. n : l[k + m + i] = c[i]
    BY <1>1, <1>2, <1>3, ConcatElements
  <1>6. /\ r \in Seq(S) /\ Len(r) = k + (m + n)
        /\ \A i \in 1 .. k : r[i] = a[i]
        /\ \A i \in 1 .. m + n : r[k + i] = bc[i]
    BY <1>1, <1>2, <1>4, ConcatElements
  <1>7. ASSUME NEW i \in 1 .. k + m + n PROVE l[i] = r[i]
    <2>1. CASE i <= k
      <3>1. i \in 1 .. k /\ i \in 1 .. k + m
        BY <2>1
      <3> QED BY <1>3, <1>5, <1>6, <3>1
    <2>2. CASE k < i /\ i <= k + m
      <3>1. PICK j \in 1 .. m : k + j = i
        <4>1. i - k \in 1 .. m /\ k + (i - k) = i
          BY <2>2
        <4> QED BY <4>1
      <3>2. j \in 1 .. m + n /\ i \in 1 .. k + m
        BY <2>2
      <3> QED BY <1>3, <1>4, <1>5, <1>6, <3>1, <3>2
    <2>3. CASE k + m < i
      <3>1. PICK j \in 1 .. n : k + m + j = i
        <4>1. i - k - m \in 1 .. n /\ k + m + (i - k - m) = i
          BY <2>3
        <4> QED BY <4>1
      <3>2. m + j \in 1 .. m + n /\ k + (m + j) = i
        BY <3>1
      <3>3. l[i] = c[j] /\ bc[m + j] = c[j]
        BY <1>4, <1>5, <3>1
      <3>4. r[k + (m + j)] = bc[m + j]
        BY <1>6, <3>2
      <3> QED BY <3>2, <3>3, <3>4
    <2> QED BY <2>1, <2>2, <2>3
  <1>8. Len(l) = Len(r) /\ \A i \in 1 .. Len(l) : l[i] = r[i]
    <2>1. k + m + n = k + (m + n)
      OBVIOUS
    <2> QED BY <1>5, <1>6, <1>7, <2>1
  <1>9. l = r
    BY <1>5, <1>6, <1>8, SameSeqs
  <1> QED BY <1>2, <1>9

\* A sequence is what it starts with followed by the rest.
LEMMA SplitFacts ==
    ASSUME NEW S, NEW s \in Seq(S), NEW k \in 0 .. Len(s)
    PROVE  /\ SubSeq(s, 1, k) \in Seq(S) /\ Len(SubSeq(s, 1, k)) = k
           /\ SubSeq(s, k + 1, Len(s)) \in Seq(S)
           /\ Len(SubSeq(s, k + 1, Len(s))) = Len(s) - k
           /\ \A i \in 1 .. Len(s) - k : SubSeq(s, k + 1, Len(s))[i] = s[k + i]
           /\ s = SubSeq(s, 1, k) \o SubSeq(s, k + 1, Len(s))
  <1>1. PICK n \in Nat : n = Len(s) /\ k \in 0 .. n
    OBVIOUS
  <1>2. PICK a, b : a = SubSeq(s, 1, k) /\ b = SubSeq(s, k + 1, n)
    OBVIOUS
  <1>3. a \in Seq(S) /\ Len(a) = k /\ \A i \in 1 .. k : a[i] = s[i]
    BY <1>1, <1>2
  <1>4. b \in Seq(S) /\ Len(b) = n - k /\ \A i \in 1 .. n - k : b[i] = s[k + i]
    BY <1>1, <1>2
  <1>5. PICK r : r = a \o b
    OBVIOUS
  <1>6. /\ r \in Seq(S) /\ Len(r) = n
        /\ \A i \in 1 .. k : r[i] = a[i]
        /\ \A i \in 1 .. n - k : r[k + i] = b[i]
    <2>1. /\ r \in Seq(S) /\ Len(r) = Len(a) + Len(b)
          /\ \A i \in 1 .. Len(a) : r[i] = a[i]
          /\ \A i \in 1 .. Len(b) : r[Len(a) + i] = b[i]
      <3>0. a \in Seq(S) /\ b \in Seq(S)
        BY <1>3, <1>4
      <3>1. /\ a \o b \in Seq(S) /\ Len(a \o b) = Len(a) + Len(b)
            /\ \A i \in 1 .. Len(a) : (a \o b)[i] = a[i]
            /\ \A i \in 1 .. Len(b) : (a \o b)[Len(a) + i] = b[i]
        BY <3>0
      <3> QED BY <1>5, <3>1, Zenon
    <2>2. k + (n - k) = n
      BY <1>1
    <2> QED BY <1>3, <1>4, <2>1, <2>2
  <1>7. ASSUME NEW i \in 1 .. n PROVE s[i] = r[i]
    <2>1. CASE i <= k
      <3>1. i \in 1 .. k
        BY <1>1, <2>1
      <3> QED BY <1>3, <1>6, <3>1
    <2>2. CASE i > k
      <3>1. i - k \in 1 .. n - k /\ k + (i - k) = i
        BY <1>1, <2>2
      <3> QED BY <1>4, <1>6, <3>1
    <2> QED BY <1>1, <2>1, <2>2
  <1>8. s = r
    BY <1>1, <1>6, <1>7, SameSeqs
  <1> QED BY <1>1, <1>2, <1>3, <1>4, <1>5, <1>8

LEMMA HeadFacts ==
    ASSUME NEW S, NEW s \in Seq(S), s # <<>>
    PROVE  /\ Head(s) \in S /\ Head(s) = s[1] /\ Tail(s) \in Seq(S)
           /\ Len(Tail(s)) = Len(s) - 1
           /\ \A i \in 1 .. Len(s) - 1 : Tail(s)[i] = s[i + 1]
           /\ s = <<Head(s)>> \o Tail(s)
  <1>1. PICK n \in Nat : n = Len(s) /\ 1 \in 1 .. n
    OBVIOUS
  <1>2. PICK h, t : h = Head(s) /\ t = Tail(s)
    OBVIOUS
  <1>3. h \in S /\ h = s[1] /\ t \in Seq(S) /\ Len(t) = n - 1
        /\ \A i \in 1 .. n - 1 : t[i] = s[i + 1]
    BY <1>1, <1>2
  <1>4. PICK u : u = <<h>>
    OBVIOUS
  <1>5. u \in Seq(S) /\ Len(u) = 1 /\ u[1] = h
    BY <1>3, <1>4
  <1>6. PICK r : r = u \o t
    OBVIOUS
  <1>7. /\ r \in Seq(S) /\ Len(r) = Len(u) + Len(t)
        /\ \A i \in 1 .. Len(u) : r[i] = u[i]
        /\ \A i \in 1 .. Len(t) : r[Len(u) + i] = t[i]
    <2>0. u \in Seq(S) /\ t \in Seq(S)
      BY <1>3, <1>5
    <2>1. /\ u \o t \in Seq(S) /\ Len(u \o t) = Len(u) + Len(t)
          /\ \A i \in 1 .. Len(u) : (u \o t)[i] = u[i]
          /\ \A i \in 1 .. Len(t) : (u \o t)[Len(u) + i] = t[i]
      BY <2>0
    <2> QED BY <1>6, <2>1, Zenon
  <1>8. ASSUME NEW i \in 1 .. n PROVE s[i] = r[i]
    <2>1. CASE i = 1
      BY <1>3, <1>5, <1>7, <2>1
    <2>2. CASE i # 1
      <3>1. i - 1 \in 1 .. n - 1 /\ (i - 1) + 1 = i /\ 1 + (i - 1) = i
        BY <1>1, <2>2
      <3>2. t[i - 1] = s[(i - 1) + 1]
        BY <1>3, <3>1
      <3>3. r[1 + (i - 1)] = t[i - 1]
        BY <1>3, <1>5, <1>7, <3>1
      <3> QED BY <3>1, <3>2, <3>3
    <2> QED BY <2>1, <2>2
  <1>9. Len(s) = Len(r)
    BY <1>1, <1>3, <1>5, <1>7
  <1>10. s = r
    BY <1>1, <1>7, <1>8, <1>9, SameSeqs
  <1> QED BY <1>1, <1>2, <1>3, <1>4, <1>6, <1>10

\* The parts of a sequence without repetition have no element in common.
LEMMA PartsFacts ==
    ASSUME NEW S, NEW s \in Seq(S), NEW r \in Seq(S), IsInjective(s \o r)
    PROVE  IsInjective(s) /\ IsInjective(r) /\ Range(s) \cap Range(r) = {}
  <1>1. PICK m \in Nat, n \in Nat : m = Len(s) /\ n = Len(r)
    OBVIOUS
  <1>2. PICK t : t = s \o r
    OBVIOUS
  <1>3. /\ t \in Seq(S) /\ Len(t) = m + n
        /\ \A i \in 1 .. m : t[i] = s[i]
        /\ \A i \in 1 .. n : t[m + i] = r[i]
    BY <1>1, <1>2, ConcatElements
  <1>4. \A i, j \in 1 .. m + n : t[i] = t[j] => i = j
    <2>1. DOMAIN t = 1 .. m + n /\ IsInjective(t)
      BY <1>2, <1>3
    <2> QED BY <2>1 DEF IsInjective
  <1>5. ASSUME NEW i \in 1 .. m, NEW j \in 1 .. m, s[i] = s[j] PROVE i = j
    <2>1. i \in 1 .. m + n /\ j \in 1 .. m + n /\ t[i] = t[j]
      BY <1>3, <1>5
    <2> QED BY <1>4, <2>1
  <1>6. ASSUME NEW i \in 1 .. n, NEW j \in 1 .. n, r[i] = r[j] PROVE i = j
    <2>1. m + i \in 1 .. m + n /\ m + j \in 1 .. m + n /\ t[m + i] = t[m + j]
      BY <1>3, <1>6
    <2>2. m + i = m + j
      BY <1>4, <2>1
    <2> QED BY <2>2
  <1>7. ASSUME NEW i \in 1 .. m, NEW j \in 1 .. n, s[i] = r[j] PROVE FALSE
    <2>1. i \in 1 .. m + n /\ m + j \in 1 .. m + n /\ t[i] = t[m + j] /\ i # m + j
      BY <1>3, <1>7
    <2> QED BY <1>4, <2>1
  <1>8. DOMAIN s = 1 .. m /\ DOMAIN r = 1 .. n
    BY <1>1
  <1> QED BY <1>5, <1>6, <1>7, <1>8 DEF IsInjective, Range
=============================================================================
