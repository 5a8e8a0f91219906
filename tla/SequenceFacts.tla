---------------------------- MODULE SequenceFacts ----------------------------
(***************************************************************************)
(* Facts about sequences, and about the loops that walk along them, that   *)
(* the proofs share.                                                       *)
(*                                                                         *)
(* The induction here is over sets: a set of numbers that is closed under  *)
(* the step holds them all.  It needs no operator as a parameter, so the   *)
(* provers can use it.                                                     *)
(***************************************************************************)
EXTENDS Integers, SequencesExt, SequenceTheorems, WellFoundedInduction, TLAPS

\* A function on an initial interval is a sequence.
LEMMA IntervalSeq ==
  ASSUME NEW S, NEW n \in Nat, NEW s \in [1..n -> S]
  PROVE  s \in Seq(S) /\ Len(s) = n /\ DOMAIN s = 1 .. n
OBVIOUS

\* An element put in front moves the others by one place.
LEMMA PushedFirst ==
  ASSUME NEW S, NEW s \in Seq(S), NEW e \in S
  PROVE  /\ <<e>> \o s \in Seq(S)
         /\ DOMAIN (<<e>> \o s) = 1 .. Len(s) + 1
         /\ (<<e>> \o s)[1] = e
         /\ \A n \in DOMAIN s : (<<e>> \o s)[n + 1] = s[n]
         /\ \A n \in DOMAIN (<<e>> \o s) : n = 1 \/ n - 1 \in DOMAIN s
OBVIOUS

\* An element taken out moves those after it.
LEMMA TakenOut ==
  ASSUME NEW S, NEW s \in Seq(S), NEW p \in DOMAIN s
  PROVE  /\ RemoveAt(s, p) \in Seq(S)
         /\ DOMAIN RemoveAt(s, p) = 1 .. Len(s) - 1
         /\ Len(RemoveAt(s, p)) = Len(s) - 1
         /\ \A n \in DOMAIN RemoveAt(s, p) :
              RemoveAt(s, p)[n] = IF n < p THEN s[n] ELSE s[n + 1]
<1>1. p \in 1 .. Len(s) /\ p \in Nat /\ Len(s) \in Nat /\ DOMAIN s = 1 .. Len(s)
  OBVIOUS
<1>. DEFINE before == SubSeq(s, 1, p - 1)
            after == SubSeq(s, p + 1, Len(s))
<1>2. /\ before \in Seq(S) /\ Len(before) = p - 1
      /\ \A n \in 1 .. p - 1 : before[n] = s[n]
  BY <1>1, SubSeqProperties
<1>3. /\ after \in Seq(S) /\ Len(after) = Len(s) - p
      /\ \A n \in 1 .. Len(s) - p : after[n] = s[p + n]
  BY <1>1, SubSeqProperties
<1>4. RemoveAt(s, p) = before \o after
  BY DEF RemoveAt
<1>. HIDE DEF before, after
<1>5. /\ before \o after \in Seq(S)
      /\ Len(before \o after) = Len(s) - 1
      /\ \A n \in 1 .. Len(s) - 1 : (before \o after)[n] =
            IF n <= Len(before) THEN before[n] ELSE after[n - Len(before)]
  <2>1. Len(before) + Len(after) = Len(s) - 1
    BY <1>1, <1>2, <1>3
  <2>2. /\ before \o after \in Seq(S)
        /\ Len(before \o after) = Len(before) + Len(after)
        /\ \A n \in 1 .. Len(before) + Len(after) : (before \o after)[n] =
              IF n <= Len(before) THEN before[n] ELSE after[n - Len(before)]
    BY <1>2, <1>3, ConcatProperties
  <2>. QED
    BY <2>1, <2>2
<1>6. ASSUME NEW n \in 1 .. Len(s) - 1
      PROVE  (before \o after)[n] = IF n < p THEN s[n] ELSE s[n + 1]
  <2>1. CASE n < p
    BY <2>1, <1>1, <1>2, <1>5
  <2>2. CASE ~(n < p)
    <3>1. n - Len(before) \in 1 .. Len(s) - p /\ p + (n - Len(before)) = n + 1
      BY <2>2, <1>1, <1>2
    <3>2. after[n - Len(before)] = s[n + 1] /\ ~(n <= Len(before))
      <4>1. after[n - Len(before)] = s[p + (n - Len(before))]
        BY <3>1, <1>3
      <4>2. ~(n <= Len(before))
        BY <2>2, <1>1, <1>2
      <4>. QED
        BY <3>1, <4>1, <4>2
    <3>. QED
      BY <3>2, <2>2, <1>5
  <2>. QED
    BY <2>1, <2>2
<1>7. DOMAIN (before \o after) = 1 .. Len(s) - 1 /\ Len(s) - 1 \in Nat
  BY <1>5
<1>. QED
  BY <1>4, <1>5, <1>6, <1>7

\* A prefix of a sequence.
LEMMA Prefix ==
  ASSUME NEW S, NEW s \in Seq(S), NEW n \in 0 .. Len(s)
  PROVE  /\ SubSeq(s, 1, n) \in Seq(S)
         /\ Len(SubSeq(s, 1, n)) = n /\ DOMAIN SubSeq(s, 1, n) = 1 .. n
         /\ \A i \in 1 .. n : SubSeq(s, 1, n)[i] = s[i]
OBVIOUS

\* An element put in place of another one.
LEMMA PlaceReplaced ==
  ASSUME NEW S, NEW s \in Seq(S), NEW p \in DOMAIN s, NEW e \in S,
         NEW r, r = [s EXCEPT ![p] = e]
  PROVE  /\ r \in Seq(S) /\ Len(r) = Len(s) /\ DOMAIN r = DOMAIN s
         /\ \A n \in DOMAIN s : r[n] = IF n = p THEN e ELSE s[n]
OBVIOUS

-----------------------------------------------------------------------------
\* A set that holds 0 and, with a number, the next one.
LEMMA Induct ==
  ASSUME NEW n \in Nat, NEW G, 0 \in G, \A k \in 1 .. n : k - 1 \in G => k \in G
  PROVE  \A k \in 0 .. n : k \in G
<1>. DEFINE T == {k \in 0 .. n : k \notin G}
<1>. SUFFICES ASSUME T # {} PROVE FALSE
  OBVIOUS
<1>1. T \subseteq Nat
  OBVIOUS
<1>. HIDE DEF T
<1>2. PICK k \in T : \A j \in T : ~(<<j, k>> \in OpToRel(<, Nat))
  BY <1>1, NatLessThanWellFounded, WFMin
<1>3. \A j \in T : ~(j < k)
  BY <1>1, <1>2 DEF OpToRel
<1>4. k \in 1 .. n /\ k \notin G
  BY DEF T
<1>5. k - 1 \notin T
  BY <1>3, <1>4
<1>. QED
  BY <1>4, <1>5 DEF T

\* f begins with b, and each later value is F of the one before.
StepsBy(f, n, F, b) == f[0] = b /\ \A k \in 1 .. n : f[k] = F[<<f[k - 1], k>>]

\* A recursive function on a part of the natural numbers exists.
LEMMA Recursion ==
  ASSUME NEW S, NEW n \in Nat, NEW F \in [S \X (1 .. n) -> S], NEW b \in S
  PROVE  \E f \in [0 .. n -> S] : StepsBy(f, n, F, b)
<1>. DEFINE Def(f, m) == f[0] = b /\ \A k \in 1 .. m : f[k] = F[<<f[k - 1], k>>]
            G == {m \in 0 .. n : \E f \in [0 .. m -> S] : Def(f, m)}
<1>1. 0 \in G
  <2>1. Def([k \in 0 .. 0 |-> b], 0) /\ [k \in 0 .. 0 |-> b] \in [0 .. 0 -> S]
    OBVIOUS
  <2>2. \E f \in [0 .. 0 -> S] : Def(f, 0)
    BY <2>1
  <2>. QED
    BY <2>2
<1>2. ASSUME NEW m \in 1 .. n, m - 1 \in G PROVE m \in G
  <2>1. PICK f \in [0 .. m - 1 -> S] : Def(f, m - 1)
    BY <1>2
  <2>. DEFINE g == [k \in 0 .. m |-> IF k = m THEN F[<<f[m - 1], m>>] ELSE f[k]]
  <2>2. g \in [0 .. m -> S]
    BY <2>1
  <2>3. \A k \in 0 .. m - 1 : g[k] = f[k]
    BY <2>1
  <2>4. g[m] = F[<<f[m - 1], m>>]
    OBVIOUS
  <2>. HIDE DEF g
  <2>5. Def(g, m)
    <3>1. g[0] = b
      BY <2>1, <2>3
    <3>2. ASSUME NEW k \in 1 .. m PROVE g[k] = F[<<g[k - 1], k>>]
      <4>1. CASE k = m
        BY <4>1, <2>3, <2>4
      <4>2. CASE k # m
        BY <4>2, <2>1, <2>3
      <4>. QED
        BY <4>1, <4>2
    <3>. QED
      BY <3>1, <3>2
  <2>. QED
    BY <2>2, <2>5
<1>. HIDE DEF G
<1>3. n \in G
  BY <1>1, <1>2, Induct
<1>. QED
  BY <1>3 DEF G, StepsBy

LEMMA LastOfInterval ==
  ASSUME NEW n \in Nat, NEW k \in 1 .. n
  PROVE  /\ Max(1 .. k) = k /\ (1 .. k) \ {k} = 1 .. (k - 1)
         /\ 1 .. k # {} /\ 1 .. k \in SUBSET (1 .. n)
<1>1. Max(1 .. k) = k
  BY DEF Max
<1>2. (1 .. k) \ {k} = 1 .. (k - 1)
  OBVIOUS
<1>3. 1 .. k # {} /\ 1 .. k \in SUBSET (1 .. n)
  OBVIOUS
<1>. QED
  BY <1>1, <1>2, <1>3

\* A set of numbers up to n has a last one.
LEMMA LastOfSet ==
  ASSUME NEW n \in Nat, NEW t \in SUBSET (1 .. n), t # {}
  PROVE  Max(t) \in t /\ \A x \in t : x <= Max(t)
<1>. DEFINE G == {k \in 0 .. n : (\E x \in t : x <= k) => \E y \in t : \A x \in t : x <= k => y >= x}
<1>1. 0 \in G
  OBVIOUS
<1>2. ASSUME NEW k \in 1 .. n, k - 1 \in G PROVE k \in G
  <2>1. CASE k \in t
    BY <2>1
  <2>2. CASE k \notin t
    <3>1. \A x \in t : x <= k <=> x <= k - 1
      BY <2>2
    <3>. QED
      BY <1>2, <3>1
  <2>. QED
    BY <2>1, <2>2
<1>. HIDE DEF G
<1>3. n \in G
  BY <1>1, <1>2, Induct
<1>4. (\E x \in t : x <= n) => \E y \in t : \A x \in t : x <= n => y >= x
  BY <1>3 DEF G
<1>5. \A x \in t : x <= n
  OBVIOUS
<1>6. \E y \in t : \A x \in t : y >= x
  BY <1>4, <1>5
<1>. QED
  BY <1>5, <1>6 DEF Max

\* f of a set takes its last number and leaves the others to f: what a fold is.
FoldsBy(f, n, F, b) ==
  \A t \in SUBSET (1 .. n) : f[t] = IF t = {} THEN b ELSE F[<<f[t \ {Max(t)}], Max(t)>>]

\* The function over the subsets of an interval by which a fold is defined exists.
LEMMA FoldExists ==
  ASSUME NEW S, NEW n \in Nat, NEW F \in [S \X (1 .. n) -> S], NEW b \in S
  PROVE  \E f \in [SUBSET (1 .. n) -> S] : FoldsBy(f, n, F, b)
<1>. DEFINE Def(f, m) ==
              \A t \in SUBSET (1 .. m) :
                f[t] = IF t = {} THEN b ELSE F[<<f[t \ {Max(t)}], Max(t)>>]
<1>. DEFINE G == {m \in 0 .. n : \E h \in [SUBSET (1 .. m) -> S] : Def(h, m)}
<1>1. 0 \in G
  <2>1. 1 .. 0 = {} /\ SUBSET (1 .. 0) = {{}}
    OBVIOUS
  <2>2. [t \in SUBSET (1 .. 0) |-> b] \in [SUBSET (1 .. 0) -> S]
    OBVIOUS
  <2>3. Def([t \in SUBSET (1 .. 0) |-> b], 0)
    BY <2>1
  <2>. HIDE DEF Def
  <2>4. \E h \in [SUBSET (1 .. 0) -> S] : Def(h, 0)
    BY <2>2, <2>3
  <2>5. 0 \in 0 .. n
    OBVIOUS
  <2>. QED
    BY <2>4, <2>5, Zenon
<1>2. ASSUME NEW m \in 1 .. n, m - 1 \in G PROVE m \in G
  <2>1. PICK f \in [SUBSET (1 .. m - 1) -> S] : Def(f, m - 1)
    BY <1>2
  <2>. DEFINE g == [t \in SUBSET (1 .. m) |->
                     IF m \in t THEN F[<<f[t \ {m}], m>>] ELSE f[t]]
  <2>2. ASSUME NEW t \in SUBSET (1 .. m)
        PROVE  /\ m \in t => t \ {m} \in SUBSET (1 .. m - 1) /\ Max(t) = m
               /\ m \notin t => t \in SUBSET (1 .. m - 1)
               /\ t # {} /\ m \notin t => t \ {Max(t)} \in SUBSET (1 .. m - 1)
    <3>1. m \in t => \A x \in t : m >= x
      OBVIOUS
    <3>2. m \in t => \A y \in t : (\A x \in t : y >= x) => y = m
      OBVIOUS
    <3>3. m \in t => Max(t) = m
      BY <3>1, <3>2 DEF Max
    <3>4. m \in t => t \ {m} \in SUBSET (1 .. m - 1)
      OBVIOUS
    <3>5. m \notin t => t \in SUBSET (1 .. m - 1)
      OBVIOUS
    <3>. QED
      BY <3>3, <3>4, <3>5
  <2>3. g \in [SUBSET (1 .. m) -> S]
    BY <2>1, <2>2
  <2>4. \A t \in SUBSET (1 .. m - 1) : g[t] = f[t]
    OBVIOUS
  <2>5. \A t \in SUBSET (1 .. m) : g[t] = IF m \in t THEN F[<<f[t \ {m}], m>>] ELSE f[t]
    OBVIOUS
  <2>. HIDE DEF g
  <2>6. ASSUME NEW t \in SUBSET (1 .. m)
        PROVE  g[t] = IF t = {} THEN b ELSE F[<<g[t \ {Max(t)}], Max(t)>>]
    <3>1. CASE m \in t
      BY <3>1, <2>2, <2>4, <2>5
    <3>2. CASE m \notin t
      BY <3>2, <2>1, <2>2, <2>4, <2>5
    <3>. QED
      BY <3>1, <3>2
  <2>7. Def(g, m)
    BY <2>6
  <2>. HIDE DEF Def
  <2>. QED
    BY <2>3, <2>7
<1>. HIDE DEF G
<1>3. n \in G
  BY <1>1, <1>2, Induct
<1>. QED
  BY <1>3 DEF G, FoldsBy

\* Where each element of a flattened sequence comes from.
LEMMA FlattenPlaces ==
  ASSUME NEW T, NEW seqs \in Seq(Seq(T))
  PROVE  /\ FlattenSeq(seqs) \in Seq(T)
         /\ \E p \in [1 .. Len(FlattenSeq(seqs)) -> (1 .. Len(seqs)) \X Nat] :
              /\ IsInjective(p)
              /\ \A i \in 1 .. Len(FlattenSeq(seqs)) :
                   /\ p[i][2] \in DOMAIN seqs[p[i][1]]
                   /\ FlattenSeq(seqs)[i] = seqs[p[i][1]][p[i][2]]
<1>. DEFINE n == Len(seqs)
            Places(s, k) ==
              \E p \in [1 .. Len(s) -> (1 .. k) \X Nat] :
                /\ IsInjective(p)
                /\ \A i \in 1 .. Len(s) :
                     p[i][2] \in DOMAIN seqs[p[i][1]] /\ s[i] = seqs[p[i][1]][p[i][2]]
            F == [x \in Seq(T) \X (1 .. n) |-> x[1] \o seqs[x[2]]]
<1>1. n \in Nat /\ DOMAIN seqs = 1 .. n /\ \A k \in 1 .. n : seqs[k] \in Seq(T)
  OBVIOUS
<1>. HIDE DEF n
<1>2. F \in [Seq(T) \X (1 .. n) -> Seq(T)] /\ << >> \in Seq(T)
  BY <1>1
<1>3. PICK f \in [0 .. n -> Seq(T)] :
        f[0] = << >> /\ \A k \in 1 .. n : f[k] = F[<<f[k - 1], k>>]
  <2>. DEFINE S == Seq(T)
              e == << >>
  <2>1. F \in [S \X (1 .. n) -> S] /\ e \in S
    BY <1>2
  <2>. HIDE DEF F, S, e
  <2>0. n \in Nat
    BY <1>1
  <2>2. \E f \in [0 .. n -> S] : StepsBy(f, n, F, e)
    BY <2>0, <2>1, Recursion, Zenon
  <2>. QED
    BY <2>2 DEF S, e, StepsBy
<1>4. ASSUME NEW k \in 1 .. n
      PROVE  f[k - 1] \in Seq(T) /\ f[k] \in Seq(T) /\ f[k] = f[k - 1] \o seqs[k]
  <2>1. k - 1 \in 0 .. n /\ k \in 0 .. n
    BY <1>1
  <2>2. f[k - 1] \in Seq(T) /\ f[k] \in Seq(T)
    BY <2>1, <1>3
  <2>3. <<f[k - 1], k>> \in Seq(T) \X (1 .. n)
    BY <2>2
  <2>4. F[<<f[k - 1], k>>] = f[k - 1] \o seqs[k]
    BY <2>3
  <2>. QED
    BY <2>2, <2>4, <1>3
<1>. HIDE DEF F
<1>5. Places(f[0], 0)
  <2>1. Len(f[0]) = 0
    BY <1>3
  <2>. DEFINE p == [i \in 1 .. 0 |-> <<i, i>>]
  <2>2. p \in [1 .. 0 -> (1 .. 0) \X Nat] /\ IsInjective(p) /\ 1 .. 0 = {}
    BY DEF IsInjective
  <2>. HIDE DEF p
  <2>3. /\ p \in [1 .. Len(f[0]) -> (1 .. 0) \X Nat]
        /\ \A i \in 1 .. Len(f[0]) : p[i][2] \in DOMAIN seqs[p[i][1]] /\ f[0][i] = seqs[p[i][1]][p[i][2]]
    BY <2>1, <2>2
  <2>. QED
    BY <2>2, <2>3
<1>6. ASSUME NEW k \in 1 .. n, Places(f[k - 1], k - 1) PROVE Places(f[k], k)
  <2>. DEFINE s == f[k - 1]
              m == Len(s)
              c == seqs[k]
  <2>0. f[k - 1] \in Seq(T) /\ seqs[k] \in Seq(T) /\ f[k] = f[k - 1] \o seqs[k]
    BY <1>1, <1>4
  <2>1. s \in Seq(T) /\ c \in Seq(T) /\ f[k] = s \o c /\ m \in Nat /\ Len(c) \in Nat
    BY <2>0
  <2>2. PICK p \in [1 .. m -> (1 .. k - 1) \X Nat] :
          /\ IsInjective(p)
          /\ \A i \in 1 .. m : p[i][2] \in DOMAIN seqs[p[i][1]] /\ s[i] = seqs[p[i][1]][p[i][2]]
    BY <1>6
  <2>. HIDE DEF s, c, m
  <2>3. /\ Len(s \o c) = m + Len(c)
        /\ \A i \in 1 .. m : (s \o c)[i] = s[i]
        /\ \A i \in m + 1 .. m + Len(c) : (s \o c)[i] = c[i - m] /\ i - m \in DOMAIN c
    BY <2>1 DEF m
  <2>. DEFINE q == [i \in 1 .. m + Len(c) |-> IF i <= m THEN p[i] ELSE <<k, i - m>>]
  <2>4. /\ \A i \in 1 .. m : q[i] = p[i] /\ p[i] \in (1 .. k - 1) \X Nat
        /\ \A i \in m + 1 .. m + Len(c) : q[i] = <<k, i - m>>
        /\ q \in [1 .. m + Len(c) -> (1 .. k) \X Nat]
    BY <2>1, <2>2
  <2>. HIDE DEF q
  <2>5. IsInjective(q)
    <3>. SUFFICES ASSUME NEW i \in 1 .. m + Len(c), NEW j \in 1 .. m + Len(c), q[i] = q[j]
                  PROVE  i = j
      BY <2>4 DEF IsInjective
    <3>1. i \in 1 .. m \/ i \in m + 1 .. m + Len(c)
      BY <2>1
    <3>2. j \in 1 .. m \/ j \in m + 1 .. m + Len(c)
      BY <2>1
    <3>3. CASE i \in 1 .. m /\ j \in 1 .. m
      <4>1. p[i] = p[j] /\ DOMAIN p = 1 .. m
        BY <3>3, <2>2, <2>4
      <4>. QED
        BY <4>1, <3>3, <2>2 DEF IsInjective
    <3>4. CASE i \in m + 1 .. m + Len(c) /\ j \in m + 1 .. m + Len(c)
      <4>1. i - m = j - m
        BY <3>4, <2>4
      <4>. QED
        BY <4>1, <2>1, <3>4
    <3>5. CASE i \in 1 .. m /\ j \in m + 1 .. m + Len(c)
      <4>1. p[i][1] \in 1 .. k - 1 /\ p[i][1] = k
        BY <3>5, <2>4
      <4>. QED
        BY <4>1
    <3>6. CASE j \in 1 .. m /\ i \in m + 1 .. m + Len(c)
      <4>1. p[j][1] \in 1 .. k - 1 /\ p[j][1] = k
        BY <3>6, <2>4
      <4>. QED
        BY <4>1
    <3>. QED
      BY <3>1, <3>2, <3>3, <3>4, <3>5, <3>6
  <2>6. ASSUME NEW i \in 1 .. m + Len(c)
        PROVE  q[i][2] \in DOMAIN seqs[q[i][1]] /\ (s \o c)[i] = seqs[q[i][1]][q[i][2]]
    <3>1. CASE i \in 1 .. m
      BY <3>1, <2>2, <2>3, <2>4
    <3>2. CASE i \in m + 1 .. m + Len(c)
      <4>1. /\ q[i] = <<k, i - m>> /\ (s \o c)[i] = c[i - m] /\ i - m \in DOMAIN c
        BY <3>2, <2>3, <2>4
      <4>2. q[i][1] = k /\ q[i][2] = i - m
        BY <4>1
      <4>. QED
        BY <4>1, <4>2 DEF c
    <3>3. i \in 1 .. m \/ i \in m + 1 .. m + Len(c)
      BY <2>1
    <3>. QED
      BY <3>1, <3>2, <3>3
  <2>7. Len(f[k]) = m + Len(c)
    BY <2>1, <2>3
  <2>8. /\ q \in [1 .. Len(f[k]) -> (1 .. k) \X Nat]
        /\ \A i \in 1 .. Len(f[k]) : q[i][2] \in DOMAIN seqs[q[i][1]] /\ f[k][i] = seqs[q[i][1]][q[i][2]]
    BY <2>1, <2>4, <2>6, <2>7
  <2>. QED
    BY <2>5, <2>8
<1>. DEFINE G == {k \in 0 .. n : Places(f[k], k)}
<1>7. n \in G
  <2>. HIDE DEF Places
  <2>1. 0 \in G /\ \A k \in 1 .. n : k - 1 \in G => k \in G
    BY <1>1, <1>5, <1>6
  <2>. HIDE DEF G
  <2>2. \A k \in 0 .. n : k \in G
    BY <1>1, <2>1, Induct
  <2>. QED
    BY <1>1, <2>2
<1>8. FlattenSeq(seqs) = f[n]
  <2>1. CASE n = 0
    BY <2>1, <1>1, <1>3 DEF FlattenSeq, n
  <2>2. CASE n # 0
    <3>. DEFINE Def(g) == g = [i \in 1 .. n |-> IF i = 1 THEN seqs[i] ELSE g[i - 1] \o seqs[i]]
                g0 == [i \in 1 .. n |-> f[i]]
                g1 == CHOOSE g : Def(g)
    <3>1. f[1] = seqs[1]
      <4>1. 1 \in 1 .. n /\ 1 - 1 = 0
        BY <2>2, <1>1
      <4>2. f[1] = f[1 - 1] \o seqs[1] /\ seqs[1] \in Seq(T)
        BY <4>1, <1>1, <1>4
      <4>3. << >> \o seqs[1] = seqs[1]
        BY <4>2
      <4>. QED
        BY <4>1, <4>2, <4>3, <1>3
    <3>2. \A i \in 1 .. n : g0[i] = IF i = 1 THEN seqs[i] ELSE g0[i - 1] \o seqs[i]
      <4>. SUFFICES ASSUME NEW i \in 1 .. n
                    PROVE  g0[i] = IF i = 1 THEN seqs[i] ELSE g0[i - 1] \o seqs[i]
        OBVIOUS
      <4>1. CASE i = 1
        BY <4>1, <3>1
      <4>2. CASE i # 1
        <5>1. i - 1 \in 1 .. n /\ g0[i] = f[i] /\ g0[i - 1] = f[i - 1]
          BY <4>2, <1>1
        <5>. QED
          BY <4>2, <5>1, <1>4
      <4>. QED
        BY <4>1, <4>2
    <3>. HIDE DEF g0
    <3>3. Def(g0)
      BY <3>2 DEF g0
    <3>4. Def(g1)
      BY <3>3
    <3>. HIDE DEF g1
    <3>5. \A k \in 1 .. n : g1[k] = IF k = 1 THEN seqs[k] ELSE g1[k - 1] \o seqs[k]
      BY <3>4
    <3>. DEFINE H == {k \in 0 .. n : k > 0 => g1[k] = f[k]}
    <3>6. 0 \in H
      BY <1>1
    <3>7. ASSUME NEW k \in 1 .. n, k - 1 \in H PROVE k \in H
      <4>1. CASE k = 1
        BY <4>1, <3>5, <3>1, <2>2, <1>1
      <4>2. CASE k # 1
        <5>1. k - 1 \in 0 .. n /\ k - 1 > 0 /\ g1[k - 1] = f[k - 1]
          BY <4>2, <3>7, <1>1
        <5>2. g1[k] = g1[k - 1] \o seqs[k]
          BY <4>2, <3>5
        <5>3. f[k] = f[k - 1] \o seqs[k]
          BY <1>4
        <5>4. g1[k] = f[k] /\ k \in 0 .. n
          BY <5>1, <5>2, <5>3, <1>1
        <5>. QED
          BY <5>4
      <4>. QED
        BY <4>1, <4>2
    <3>8. n \in H
      <4>. HIDE DEF H
      <4>1. \A k \in 0 .. n : k \in H
        BY <1>1, <3>6, <3>7, Induct
      <4>. QED
        BY <1>1, <4>1
    <3>9. FlattenSeq(seqs) = g1[n]
      BY <2>2 DEF FlattenSeq, n, g1
    <3>. QED
      BY <2>2, <3>8, <3>9, <1>1
  <2>. QED
    BY <2>1, <2>2
<1>. HIDE DEF Places
<1>9. Places(f[n], n) /\ f[n] \in Seq(T)
  BY <1>1, <1>3, <1>7
<1>10. Places(FlattenSeq(seqs), Len(seqs)) /\ FlattenSeq(seqs) \in Seq(T)
  BY <1>8, <1>9 DEF n
<1>. QED
  BY <1>10 DEF Places
=============================================================================
