------------------------- MODULE Ledger89DiskProof -------------------------
(***************************************************************************)
(* Lemmas about the contents of a ledger's files: sequences, the scan of a *)
(* part, what a power loss leaves of it, recovery and the look-up of a     *)
(* record. Then plans: an operation is a plan, so its proof follows the    *)
(* plan from the state it starts in. A world is the state without the      *)
(* plan, and Sound(v, p) says that plan p, from world v, keeps the         *)
(* directory recoverable through every call, also a failing one, and ends  *)
(* with a handle that works. Every plan that changes parts writes new files *)
(* and publishes a manifest that names them.                               *)
(***************************************************************************)
EXTENDS Ledger89, FiniteSetTheorems, TLAPS

---------------------------------------------------------------------------
(* Sequences, whatever their elements are.                                 *)

\* A sequence is a function on 1..Len.
LEMMA SeqIs ==
    ASSUME NEW c, IsSeq(c)
    PROVE  /\ Len(c) \in Nat /\ DOMAIN c = 1..Len(c)
           /\ c = [i \in 1..Len(c) |-> c[i]]
<1> DEFINE S == ToSet(c)
<1>1. c \in Seq(S)
  BY DEF IsSeq
<1> HIDE DEF S
<1>2. Len(c) \in Nat /\ c \in [1..Len(c) -> S]
  BY <1>1
<1> QED BY <1>2

\* A function on 1..n is a sequence of length n.
LEMMA SeqIntro ==
    ASSUME NEW n \in Nat, NEW f, f = [i \in 1..n |-> f[i]]
    PROVE  IsSeq(f) /\ Len(f) = n
<1> DEFINE S == ToSet(f)
<1>1. f \in [1..n -> S]
  <2>1. DOMAIN f = 1..n
    OBVIOUS
  <2>2. \A i \in 1..n : f[i] \in S
    BY <2>1 DEF ToSet
  <2> QED BY <2>2
<1> HIDE DEF S
<1>2. f \in Seq(S) /\ Len(f) = n
  BY <1>1
<1>3. f \in Seq(ToSet(f)) /\ Len(f) = n
  BY <1>2 DEF S
<1> QED BY <1>3 DEF IsSeq

\* A sequence over a set is a sequence.
LEMMA SeqTyped ==
    ASSUME NEW S, NEW c \in Seq(S)
    PROVE  IsSeq(c)
<1>1. Len(c) \in Nat /\ c \in [1..Len(c) -> S]
  OBVIOUS
<1>2. c = [i \in 1..Len(c) |-> c[i]]
  BY <1>1
<1> QED BY <1>1, <1>2, SeqIntro

\* Two sequences with the same items are the same.
LEMMA SeqSame ==
    ASSUME NEW c, NEW d, IsSeq(c), IsSeq(d), Len(c) = Len(d),
           \A i \in 1..Len(c) : c[i] = d[i]
    PROVE  c = d
<1> DEFINE X == [i \in 1..Len(c) |-> c[i]]
           Y == [i \in 1..Len(d) |-> d[i]]
<1>1. X = Y
  OBVIOUS
<1>2. c = X /\ d = Y
  BY SeqIs
<1> HIDE DEF X, Y
<1> QED BY <1>1, <1>2

\* The empty sequence is the only one of length 0.
LEMMA SeqEmpty ==
    /\ IsSeq(<< >>) /\ Len(<< >>) = 0
    /\ \A c : IsSeq(c) /\ Len(c) = 0 => c = << >>
<1>1. IsSeq(<< >>) /\ Len(<< >>) = 0
  <2>1. << >> \in Seq({})
    OBVIOUS
  <2> QED BY <2>1, SeqTyped
<1>2. ASSUME NEW c, IsSeq(c), Len(c) = 0
      PROVE  c = << >>
  BY <1>1, <1>2, SeqSame
<1> QED BY <1>1, <1>2

\* A sequence of one item.
LEMMA SeqOne ==
    ASSUME NEW x
    PROVE  IsSeq(<<x>>) /\ Len(<<x>>) = 1 /\ <<x>>[1] = x
<1>1. <<x>> \in Seq({x})
  OBVIOUS
<1> QED BY <1>1, SeqTyped

\* Appending puts the item at the end and moves nothing.
LEMMA SeqAppend ==
    ASSUME NEW c, IsSeq(c), NEW x
    PROVE  /\ IsSeq(Append(c, x)) /\ Len(Append(c, x)) = Len(c) + 1
           /\ \A i \in 1..Len(c) : Append(c, x)[i] = c[i]
           /\ Append(c, x)[Len(c) + 1] = x
<1> DEFINE S == ToSet(c) \union {x}
<1>1. c \in Seq(S) /\ x \in S
  <2>1. \A i \in 1..Len(c) : c[i] \in S
    BY SeqIs DEF ToSet
  <2>2. Len(c) \in Nat /\ c = [i \in 1..Len(c) |-> c[i]]
    BY SeqIs
  <2>3. c \in [1..Len(c) -> S]
    BY <2>1, <2>2
  <2> QED BY <2>2, <2>3
<1> HIDE DEF S
<1>2. Append(c, x) \in Seq(S)
  BY <1>1
<1>3. IsSeq(Append(c, x))
  BY <1>2, SeqTyped
<1> QED BY <1>1, <1>3

\* What a subsequence holds.
LEMMA SeqSub ==
    ASSUME NEW c, IsSeq(c), NEW a \in Nat \ {0}, NEW b \in Nat, b <= Len(c), a <= b + 1
    PROVE  /\ IsSeq(SubSeq(c, a, b)) /\ Len(SubSeq(c, a, b)) = b - a + 1
           /\ \A i \in 1..b - a + 1 : SubSeq(c, a, b)[i] = c[a + i - 1]
<1>1. Len(c) \in Nat /\ c \in Seq(ToSet(c))
  BY SeqIs DEF IsSeq
<1>2. SubSeq(c, a, b) = [i \in 1..b - a + 1 |-> c[a + i - 1]]
  BY <1>1
<1>3. b - a + 1 \in Nat
  BY <1>1
<1> HIDE DEF IsSeq
<1> DEFINE s == SubSeq(c, a, b)
<1>4. s = [i \in 1..b - a + 1 |-> s[i]]
  BY <1>2
<1> HIDE DEF s
<1>5. IsSeq(s) /\ Len(s) = b - a + 1
  BY <1>3, <1>4, SeqIntro
<1> QED BY <1>2, <1>5 DEF s

\* What a prefix holds.
LEMMA SeqPrefix ==
    ASSUME NEW c, IsSeq(c), NEW n \in 0..Len(c)
    PROVE  /\ IsSeq(SubSeq(c, 1, n)) /\ Len(SubSeq(c, 1, n)) = n
           /\ \A i \in 1..n : SubSeq(c, 1, n)[i] = c[i]
<1>1. Len(c) \in Nat
  BY SeqIs
<1> DEFINE s == SubSeq(c, 1, n)
<1>2. /\ IsSeq(s) /\ Len(s) = n - 1 + 1
      /\ \A i \in 1..n - 1 + 1 : s[i] = c[1 + i - 1]
  BY <1>1, SeqSub
<1> HIDE DEF s
<1>3. \A i \in 1..n : s[i] = c[i]
  BY <1>1, <1>2
<1> QED BY <1>1, <1>2, <1>3 DEF s

\* What a concatenation holds.
LEMMA SeqCat ==
    ASSUME NEW p, NEW q, IsSeq(p), IsSeq(q)
    PROVE  /\ IsSeq(p \o q) /\ Len(p \o q) = Len(p) + Len(q)
           /\ \A i \in 1..Len(p) : (p \o q)[i] = p[i]
           /\ \A i \in 1..Len(q) : (p \o q)[Len(p) + i] = q[i]
<1> DEFINE S == ToSet(p) \union ToSet(q)
<1>1. p \in Seq(S) /\ q \in Seq(S)
  <2>1. ASSUME NEW c, c = p \/ c = q
        PROVE  c \in Seq(S)
    <3>1. Len(c) \in Nat /\ c = [i \in 1..Len(c) |-> c[i]]
      BY <2>1, SeqIs
    <3>2. \A i \in 1..Len(c) : c[i] \in S
      BY <2>1, SeqIs DEF ToSet
    <3>3. c \in [1..Len(c) -> S]
      BY <3>1, <3>2
    <3> QED BY <3>1, <3>3
  <2> QED BY <2>1
<1> HIDE DEF S
<1>2. p \o q \in Seq(S)
  BY <1>1
<1>3. IsSeq(p \o q)
  BY <1>2, SeqTyped
<1> QED BY <1>1, <1>3

\* What the tail of a nonempty sequence holds.
LEMMA SeqTail ==
    ASSUME NEW c, IsSeq(c), c # << >>
    PROVE  /\ Len(c) > 0 /\ Head(c) = c[1]
           /\ IsSeq(Tail(c)) /\ Len(Tail(c)) = Len(c) - 1
           /\ \A i \in 1..Len(c) - 1 : Tail(c)[i] = c[i + 1]
<1>1. c \in Seq(ToSet(c)) /\ Len(c) \in Nat
  BY SeqIs DEF IsSeq
<1>2. Tail(c) \in Seq(ToSet(c))
  BY <1>1
<1>3. IsSeq(Tail(c))
  BY <1>2, SeqTyped
<1> HIDE DEF IsSeq
<1> QED BY <1>1, <1>3

---------------------------------------------------------------------------
(* Induction, and functions defined by recursion.                          *)

\* Every set of natural numbers has a least element.
LEMMA LeastNat ==
    ASSUME NEW S, S \subseteq Nat, S # {}
    PROVE  \E m \in S : \A n \in S : m <= n
<1> DEFINE below == {0..n : n \in S}
<1>1. below \subseteq FiniteSubsetsOf(Nat) /\ below # {}
  <2>1. ASSUME NEW n \in S
        PROVE  0..n \in SUBSET Nat /\ IsFiniteSet(0..n)
    <3>1. n \in Int /\ 0..n \in SUBSET Nat
      OBVIOUS
    <3> QED BY <3>1, FS_Interval
  <2> QED BY <2>1 DEF FiniteSubsetsOf
<1>2. PICK m \in S :
         \A n \in S : <<0..n, 0..m>> \notin StrictSubsetOrdering(Nat)
  <2>1. PICK s \in below :
           \A t \in below : ~(<<t, s>> \in StrictSubsetOrdering(Nat))
    <3> HIDE DEF below
    <3> QED BY <1>1, WFMin, FS_StrictSubsetOrderingWellFounded
  <2> QED BY <2>1
<1>3. ASSUME NEW n \in S, n < m
      PROVE  FALSE
  <2>1. /\ 0..n \in SUBSET Nat /\ 0..m \in SUBSET Nat
        /\ 0..n \subseteq 0..m /\ 0..n # 0..m
    <3>1. n \in Nat /\ m \in Nat
      OBVIOUS
    <3>2. m \in 0..m /\ m \notin 0..n
      BY <1>3, <3>1
    <3> QED BY <1>3, <3>1, <3>2
  <2>2. <<0..n, 0..m>> \in StrictSubsetOrdering(Nat)
    BY <2>1 DEF StrictSubsetOrdering
  <2> QED BY <1>2, <2>2
<1> QED BY <1>3


\* What holds at the start of an interval and is passed on holds everywhere.
LEMMA Induction ==
    ASSUME NEW a \in Nat, NEW b \in Nat, NEW S, a \in S,
           \A n \in a..b : n < b /\ n \in S => n + 1 \in S
    PROVE  \A n \in a..b : n \in S
<1> DEFINE D == {n \in a..b : n \notin S}
<1>1. ASSUME D # {}
      PROVE  FALSE
  <2>1. PICK m \in D : \A n \in D : m <= n
    <3>1. D \subseteq Nat
      OBVIOUS
    <3> HIDE DEF D
    <3> QED BY <1>1, <3>1, LeastNat
  <2>2. m \in a..b /\ m # a /\ m \notin S
    OBVIOUS
  <2>3. m - 1 \in a..b /\ m - 1 < b /\ m - 1 \notin D
    BY <2>1, <2>2
  <2>4. m - 1 \in S
    BY <2>3
  <2>5. (m - 1) + 1 \in S
    BY <2>3, <2>4
  <2> QED BY <2>2, <2>5
<1> QED BY <1>1

\* A value computed step by step along an interval.
Steps(S, a, b, x, g) ==
    a \in Nat /\ b \in Nat /\ a <= b /\ x \in S /\ g \in [(a..b) \X S -> S]

\* f is the table of the recursion over a..b that starts from x and steps by g.
Computes(f, S, a, b, x, g) ==
    /\ f \in [a..b -> S] /\ f[a] = x
    /\ \A k \in a..b : k # a => f[k] = g[<<k, f[k - 1]>>]

\* Every such recursion has a table: its existence by induction over b.
LEMMA Recursion ==
    ASSUME NEW S, NEW a, NEW b, NEW x, NEW g, Steps(S, a, b, x, g)
    PROVE  \E f : Computes(f, S, a, b, x, g)
<1>0. /\ a \in Nat /\ b \in Nat /\ a <= b /\ x \in S
      /\ g \in [(a..b) \X S -> S]
  BY DEF Steps
<1> DEFINE Good(n, f) == \A k \in a..n :
                            f[k] = (IF k = a THEN x ELSE g[<<k, f[k - 1]>>])
           T == {n \in a..b : \E f \in [a..n -> S] : Good(n, f)}
<1>1. a \in T
  <2> USE <1>0
  <2> DEFINE e == [k \in a..a |-> x]
  <2>1. e \in [a..a -> S] /\ Good(a, e)
    OBVIOUS
  <2> HIDE DEF e
  <2> QED BY <2>1
<1>2. ASSUME NEW n \in a..b, n < b, n \in T
      PROVE  n + 1 \in T
  <2> USE <1>0
  <2>1. PICK f \in [a..n -> S] : Good(n, f)
    BY <1>2
  <2> DEFINE e == [k \in a..n + 1 |-> IF k <= n THEN f[k] ELSE g[<<n + 1, f[n]>>]]
  <2>2. e \in [a..n + 1 -> S]
    <3>1. n + 1 \in a..b /\ f[n] \in S
      BY <1>2
    <3>2. g[<<n + 1, f[n]>>] \in S
      BY <3>1
    <3> QED BY <3>1
  <2>3. ASSUME NEW k \in a..n + 1
        PROVE  e[k] = IF k = a THEN x ELSE g[<<k, e[k - 1]>>]
    <3>1. CASE k <= n
      <4>1. k \in a..n /\ (k # a => k - 1 \in a..n /\ k - 1 <= n)
        BY <3>1
      <4>2. e[k] = f[k] /\ (k # a => e[k - 1] = f[k - 1])
        BY <4>1
      <4> HIDE DEF e
      <4> QED BY <2>1, <4>1, <4>2
    <3>2. CASE k = n + 1
      <4>1. k # a /\ e[k] = g[<<n + 1, f[n]>>] /\ e[k - 1] = f[n]
        BY <3>2
      <4> QED BY <3>2, <4>1
    <3> QED BY <3>1, <3>2
  <2>4. n + 1 \in a..b
    BY <1>2
  <2> HIDE DEF e
  <2> QED BY <2>2, <2>3, <2>4
<1>3. b \in T
  <2> HIDE DEF T
  <2>1. \A n \in a..b : n \in T
    BY <1>0, <1>1, <1>2, Induction
  <2> QED BY <1>0, <2>1
<1>4. PICK f \in [a..b -> S] : Good(b, f)
  BY <1>3
<1>5. a \in a..b
  BY <1>0
<1> QED BY <1>4, <1>5 DEF Computes

---------------------------------------------------------------------------
(* The scan of a part.                                                     *)

\* The lengths of the batches are numbers.
Counted(d, c, n) ==
    /\ d.first \in Nat
    /\ \A k \in 3..n : c[k].t = "batch" => Len(c[k].recs) \in Nat

\* f is the table from which Expected counts the records of the items 3..n.
Sums(f, d, c, n) ==
    /\ f \in [2..n -> Nat] /\ f[2] = d.first /\ Expected(d, c, n) = f[n]
    /\ \A k \in 3..n : f[k] = IF c[k].t = "batch" THEN f[k - 1] + Len(c[k].recs)
                              ELSE f[k - 1]

\* Expected has its table.
LEMMA ExpectedValues ==
    ASSUME NEW d, NEW c, NEW n \in Nat, n >= 2, Counted(d, c, n)
    PROVE  \E f : Sums(f, d, c, n)
<1> DEFINE F(f) == [k \in 2..n |->
               IF k = 2 THEN d.first
               ELSE IF c[k].t = "batch" THEN f[k - 1] + Len(c[k].recs) ELSE f[k - 1]]
           after == CHOOSE f : f = F(f)
<1>1. \E f : f \in [2..n -> Nat] /\ f = F(f)
  <2> DEFINE g == [p \in (2..n) \X Nat |->
                      IF p[1] > 2 /\ c[p[1]].t = "batch"
                      THEN p[2] + Len(c[p[1]].recs) ELSE p[2]]
  <2>1. /\ \A k \in 3..n : \A y \in Nat :
              g[<<k, y>>] = IF c[k].t = "batch" THEN y + Len(c[k].recs) ELSE y
        /\ g \in [(2..n) \X Nat -> Nat]
    BY DEF Counted
  <2> HIDE DEF g
  <2>2. PICK f : Computes(f, Nat, 2, n, d.first, g)
    <3>1. Steps(Nat, 2, n, d.first, g)
      BY <2>1 DEF Counted, Steps
    <3> QED BY <3>1, Recursion
  <2>3. \A k \in 2..n : f[k] = F(f)[k]
    <3> SUFFICES ASSUME NEW k \in 2..n
                 PROVE  f[k] = F(f)[k]
      OBVIOUS
    <3>1. f[k] = IF k = 2 THEN d.first ELSE g[<<k, f[k - 1]>>]
      BY <2>2 DEF Computes
    <3>2. k # 2 => k \in 3..n /\ k - 1 \in 2..n /\ f[k - 1] \in Nat
      BY <2>2 DEF Computes
    <3> QED BY <2>1, <3>1, <3>2
  <2>4. f \in [2..n -> Nat]
    BY <2>2 DEF Computes
  <2>5. f = F(f)
    BY <2>3, <2>4
  <2> QED BY <2>4, <2>5
<1>2. after = F(after)
  BY <1>1
<1>3. Expected(d, c, n) = after[n]
  BY DEF Expected
<1>4. \A k \in 2..n :
         after[k] = IF k = 2 THEN d.first
                    ELSE IF c[k].t = "batch" THEN after[k - 1] + Len(c[k].recs)
                         ELSE after[k - 1]
  <2> DEFINE G(f) == \A k \in 2..n :
         f[k] = IF k = 2 THEN d.first
                ELSE IF c[k].t = "batch" THEN f[k - 1] + Len(c[k].recs) ELSE f[k - 1]
  <2>1. \A f : f = F(f) => G(f)
    OBVIOUS
  <2> HIDE DEF F, G
  <2>2. G(after)
    BY <1>2, <2>1
  <2> QED BY <2>2 DEF G
<1>5. DOMAIN after = 2..n
  <2>1. \A f : f = F(f) => DOMAIN f = 2..n
    OBVIOUS
  <2> HIDE DEF F
  <2> QED BY <1>2, <2>1
<1> HIDE DEF after
<1>6. \A k \in 2..n : after[k] \in Nat
  <2> DEFINE S == {k \in 2..n : after[k] \in Nat}
  <2>1. 2 \in S
    BY <1>4 DEF Counted
  <2>2. ASSUME NEW k \in 2..n, k < n, k \in S
        PROVE  k + 1 \in S
    <3>1. /\ k + 1 \in 3..n /\ after[k] \in Nat
          /\ c[k + 1].t = "batch" => Len(c[k + 1].recs) \in Nat
      BY <2>2 DEF Counted
    <3>2. after[k + 1] = IF c[k + 1].t = "batch" THEN after[k] + Len(c[k + 1].recs)
                         ELSE after[k]
      BY <1>4, <3>1
    <3> QED BY <3>1, <3>2
  <2> HIDE DEF S
  <2>3. \A k \in 2..n : k \in S
    BY <2>1, <2>2, Induction
  <2> QED BY <2>3 DEF S
<1>7. after = [k \in 2..n |-> after[k]]
  <2>1. \A f : f = F(f) => f = [k \in 2..n |-> f[k]]
    OBVIOUS
  <2> HIDE DEF F
  <2> QED BY <1>2, <2>1
<1> HIDE DEF F
<1>8. after \in [2..n -> Nat]
  BY <1>6, <1>7
<1> QED BY <1>3, <1>4, <1>8 DEF Sums

\* Expected, unfolded by one item.
LEMMA ExpectedStep ==
    ASSUME NEW d, NEW c, NEW n \in Nat, n >= 2, Counted(d, c, n)
    PROVE  /\ Expected(d, c, n) \in Nat
           /\ n = 2 => Expected(d, c, n) = d.first
           /\ n > 2 => Expected(d, c, n) =
                          IF c[n].t = "batch" THEN Expected(d, c, n - 1) + Len(c[n].recs)
                          ELSE Expected(d, c, n - 1)
<1>1. PICK f : Sums(f, d, c, n)
  BY ExpectedValues
<1>2. ASSUME n > 2
      PROVE  Expected(d, c, n - 1) = f[n - 1]
  <2>1. n - 1 \in Nat /\ n - 1 >= 2 /\ Counted(d, c, n - 1)
    BY <1>2 DEF Counted
  <2>2. PICK e : Sums(e, d, c, n - 1)
    BY <2>1, ExpectedValues
  <2> DEFINE S == {k \in 2..n - 1 : e[k] = f[k]}
  <2>3. 2 \in S
    BY <1>1, <1>2, <2>2 DEF Sums
  <2>4. ASSUME NEW k \in 2..n - 1, k < n - 1, k \in S
        PROVE  k + 1 \in S
    <3>1. k + 1 \in 3..n - 1 /\ k + 1 \in 3..n /\ (k + 1) - 1 = k /\ e[k] = f[k]
      BY <2>4
    <3>2. /\ e[k + 1] = IF c[k + 1].t = "batch" THEN e[k] + Len(c[k + 1].recs) ELSE e[k]
          /\ f[k + 1] = IF c[k + 1].t = "batch" THEN f[k] + Len(c[k + 1].recs) ELSE f[k]
      BY <1>1, <2>2, <3>1 DEF Sums
    <3> QED BY <3>1, <3>2
  <2> HIDE DEF S
  <2>5. \A k \in 2..n - 1 : k \in S
    BY <2>1, <2>3, <2>4, Induction
  <2>6. n - 1 \in S
    BY <2>1, <2>5
  <2> QED BY <2>2, <2>6 DEF S, Sums
<1> QED BY <1>1, <1>2 DEF Sums

\* It does not depend on what follows, and it only grows.
LEMMA ExpectedSame ==
    ASSUME NEW d, NEW e, d.first = e.first, NEW b, NEW c, NEW n \in Nat, n >= 2,
           Counted(d, b, n), \A k \in 3..n : c[k] = b[k]
    PROVE  Expected(e, c, n) = Expected(d, b, n)
<1> DEFINE S == {k \in 2..n : Expected(e, c, k) = Expected(d, b, k)}
<1>1. \A k \in 2..n : Counted(d, b, k) /\ Counted(e, c, k)
  BY DEF Counted
<1>2. 2 \in S
  BY <1>1, ExpectedStep
<1>3. ASSUME NEW k \in 2..n, k < n, k \in S
      PROVE  k + 1 \in S
  <2>1. k + 1 \in 3..n /\ k + 1 > 2 /\ (k + 1) - 1 = k /\ k + 1 \in Nat /\ k + 1 \in 2..n
    BY <1>3
  <2>2. /\ Expected(d, b, k + 1) =
              IF b[k + 1].t = "batch" THEN Expected(d, b, k) + Len(b[k + 1].recs)
              ELSE Expected(d, b, k)
        /\ Expected(e, c, k + 1) =
              IF c[k + 1].t = "batch" THEN Expected(e, c, k) + Len(c[k + 1].recs)
              ELSE Expected(e, c, k)
    BY <1>1, <2>1, ExpectedStep
  <2> QED BY <1>3, <2>1, <2>2
<1> HIDE DEF S
<1>4. \A k \in 2..n : k \in S
  BY <1>2, <1>3, Induction
<1>5. n \in S
  BY <1>4
<1> QED BY <1>5 DEF S

\* Expected never falls along a file.
LEMMA ExpectedGrows ==
    ASSUME NEW d, NEW c, NEW n \in Nat, Counted(d, c, n), NEW m \in 2..n
    PROVE  /\ Expected(d, c, m) \in Nat /\ Expected(d, c, m) <= Expected(d, c, n)
           /\ d.first <= Expected(d, c, m)
<1>1. \A k \in 2..n : Counted(d, c, k) /\ Expected(d, c, k) \in Nat
  <2>1. \A k \in 2..n : Counted(d, c, k)
    BY DEF Counted
  <2> QED BY <2>1, ExpectedStep
<1>2. ASSUME NEW k \in 2..n, k < n
      PROVE  Expected(d, c, k) <= Expected(d, c, k + 1)
  <2>1. k + 1 \in 3..n /\ k + 1 > 2 /\ (k + 1) - 1 = k /\ k + 1 \in 2..n
    BY <1>2
  <2>2. Expected(d, c, k + 1) =
              IF c[k + 1].t = "batch" THEN Expected(d, c, k) + Len(c[k + 1].recs)
              ELSE Expected(d, c, k)
    BY <1>1, <2>1, ExpectedStep
  <2>3. c[k + 1].t = "batch" => Len(c[k + 1].recs) \in Nat
    BY <2>1 DEF Counted
  <2> QED BY <1>1, <2>2, <2>3
<1> DEFINE S == {k \in m..n : Expected(d, c, m) <= Expected(d, c, k)}
           T == {k \in 2..m : d.first <= Expected(d, c, k)}
<1>3. m \in S /\ 2 \in T
  BY <1>1, ExpectedStep DEF Counted
<1>4. ASSUME NEW k \in m..n, k < n, k \in S
      PROVE  k + 1 \in S
  <2>1. k \in 2..n /\ k + 1 \in 2..n /\ k + 1 \in m..n
    BY <1>4
  <2>2. /\ Expected(d, c, k) \in Nat /\ Expected(d, c, k + 1) \in Nat
        /\ Expected(d, c, m) \in Nat
    BY <1>1, <2>1
  <2> QED BY <1>2, <1>4, <2>1, <2>2
<1>5. ASSUME NEW k \in 2..m, k < m, k \in T
      PROVE  k + 1 \in T
  <2>1. k \in 2..n /\ k + 1 \in 2..n /\ k + 1 \in 2..m /\ k < n
    BY <1>5
  <2>2. /\ Expected(d, c, k) \in Nat /\ Expected(d, c, k + 1) \in Nat
        /\ d.first \in Nat
    BY <1>1, <2>1 DEF Counted
  <2> QED BY <1>2, <1>5, <2>1, <2>2
<1>6. m \in Nat /\ n \in Nat /\ 2 \in Nat
  OBVIOUS
<1> HIDE DEF S, T
<1>7. \A k \in m..n : k \in S
  BY <1>3, <1>4, <1>6, Induction
<1>8. \A k \in 2..m : k \in T
  BY <1>3, <1>5, <1>6, Induction
<1>9. n \in S /\ m \in T
  BY <1>7, <1>8
<1> QED BY <1>1, <1>9 DEF S, T

---------------------------------------------------------------------------
(* Greatest elements.                                                      *)

\* The greatest element of a set of naturals, recognised.
LEMMA MaxIs ==
    ASSUME NEW S, S \subseteq Nat, NEW m \in S, \A x \in S : x <= m
    PROVE  Max(S) = m
<1>1. \A x \in S : x >= m => x = m
  OBVIOUS
<1>2. \A y \in S : m >= y
  OBVIOUS
<1> QED BY <1>1, <1>2 DEF Max

\* A nonempty bounded set of naturals has its greatest element.
LEMMA MaxOf ==
    ASSUME NEW S, NEW n \in Nat, S \subseteq 0..n, S # {}
    PROVE  Max(S) \in S /\ \A x \in S : x <= Max(S)
<1> DEFINE T == {n - x : x \in S}
<1>1. T \subseteq Nat /\ T # {}
  <2>1. \A x \in S : n - x \in Nat
    <3>1. \A x \in 0..n : n - x \in Nat
      OBVIOUS
    <3> QED BY <3>1
  <2>2. PICK x \in S : TRUE
    OBVIOUS
  <2>3. n - x \in T
    OBVIOUS
  <2> QED BY <2>1, <2>3
<1>2. PICK t \in T : \A y \in T : t <= y
  <2> HIDE DEF T
  <2> QED BY <1>1, LeastNat
<1>3. PICK m \in S : t = n - m
  OBVIOUS
<1>4. ASSUME NEW x \in S
      PROVE  x <= m
  <2>1. n - m <= n - x
    BY <1>2, <1>3
  <2>2. x \in Nat /\ m \in Nat
    OBVIOUS
  <2> QED BY <2>1, <2>2
<1>5. S \subseteq Nat
  OBVIOUS
<1>6. Max(S) = m
  BY <1>4, <1>5, MaxIs
<1> QED BY <1>4, <1>6

---------------------------------------------------------------------------
(* Good parts.                                                             *)

\* In a good part the record counts are naturals, as Expected needs them.
LEMMA GoodCounted ==
    ASSUME NEW d, NEW c, NEW n, NEW log, GoodPart(d, c, n, log), d.first \in Nat
    PROVE  /\ n \in Nat /\ n >= 2 /\ n <= Len(c) /\ Len(c) \in Nat
           /\ \A k \in 2..n : Counted(d, c, k)
<1>1. n \in 2..Len(c) /\ Len(c) \in Nat
  BY SeqIs DEF GoodPart
<1> QED BY <1>1 DEF GoodPart, Counted

\* The batches lie one behind the other.
LEMMA GoodBatches ==
    ASSUME NEW d, NEW c, NEW n, NEW log, GoodPart(d, c, n, log), d.first \in Nat,
           NEW k \in 3..n
    PROVE  /\ Expected(d, c, k - 1) \in Nat /\ Expected(d, c, k) \in Nat
           /\ d.first <= Expected(d, c, k - 1) /\ Expected(d, c, k) <= Expected(d, c, n)
           /\ \/ /\ c[k].t = "batch" /\ c[k].first = Expected(d, c, k - 1)
                 /\ Len(c[k].recs) \in Nat \ {0}
                 /\ Expected(d, c, k) = c[k].first + Len(c[k].recs)
              \/ /\ c[k].t = "marker" /\ c[k].id = d.id
                 /\ c[k].end = Expected(d, c, k) /\ Expected(d, c, k) = Expected(d, c, k - 1)
<1>1. n \in Nat /\ n >= 2 /\ \A j \in 2..n : Counted(d, c, j)
  BY GoodCounted
<1>2. k \in 2..n /\ k - 1 \in 2..n /\ k - 1 \in 2..k /\ k > 2 /\ n \in 2..n
  BY <1>1
<1>3. /\ Expected(d, c, k - 1) \in Nat /\ Expected(d, c, k) \in Nat
      /\ d.first <= Expected(d, c, k - 1) /\ Expected(d, c, k) <= Expected(d, c, n)
  BY <1>1, <1>2, ExpectedGrows
<1>4. k \in Nat /\ k >= 2 /\ Counted(d, c, k)
  BY <1>1, <1>2
<1>5. Expected(d, c, k) = IF c[k].t = "batch" THEN Expected(d, c, k - 1) + Len(c[k].recs)
                          ELSE Expected(d, c, k - 1)
  BY <1>2, <1>4, ExpectedStep
<1>6. \/ c[k].t = "batch" /\ c[k].first = Expected(d, c, k - 1)
      \/ c[k].t = "marker" /\ c[k].id = d.id /\ c[k].end = Expected(d, c, k - 1)
  BY DEF GoodPart, ScanBatches
<1>7. c[k].t = "batch" => Len(c[k].recs) \in Nat \ {0}
  BY DEF GoodPart
<1> QED BY <1>3, <1>5, <1>6, <1>7

\* A good part is good up to every earlier item.
LEMMA GoodShorter ==
    ASSUME NEW d, NEW c, NEW n, NEW log, GoodPart(d, c, n, log), NEW m \in 2..n
    PROVE  GoodPart(d, c, m, log)
<1>1. n \in 2..Len(c) /\ Len(c) \in Nat
  BY SeqIs DEF GoodPart
<1>2. m \in 2..Len(c) /\ 3..m \subseteq 3..n
  BY <1>1
<1> QED BY <1>2 DEF GoodPart, ScanBatches

\* What matters is the items up to n and the part of the log they hold.
LEMMA GoodSame ==
    ASSUME NEW d, NEW b, NEW n, NEW log, GoodPart(d, b, n, log), d.first \in Nat,
           NEW e, e.id = d.id, e.first = d.first,
           NEW c, IsSeq(c), n <= Len(c), \A k \in 1..n : c[k] = b[k],
           NEW new, Len(new) \in Nat, Expected(d, b, n) <= Len(new) + 1,
           \A i \in d.first..Expected(d, b, n) - 1 : new[i] = log[i]
    PROVE  GoodPart(e, c, n, new) /\ Expected(e, c, n) = Expected(d, b, n)
<1>1. n \in Nat /\ n >= 2 /\ (\A j \in 2..n : Counted(d, b, j)) /\ Len(c) \in Nat
  BY GoodCounted, SeqIs
<1>2. ASSUME NEW m \in 2..n
      PROVE  Expected(e, c, m) = Expected(d, b, m)
  <2>1. m \in Nat /\ m >= 2 /\ Counted(d, b, m) /\ \A k \in 3..m : c[k] = b[k]
    BY <1>1
  <2> QED BY <2>1, ExpectedSame
<1>3. ScanHead(e, c, TRUE, 0)
  <2>1. c[1] = b[1] /\ c[2] = b[2] /\ Len(c) >= 2
    BY <1>1
  <2> QED BY <2>1 DEF GoodPart, ScanHead
<1>4. ScanBatches(e, c, n, TRUE, 0)
  <2> SUFFICES ASSUME NEW k \in 3..n
               PROVE  \/ c[k].t = "batch" /\ c[k].first = Expected(e, c, k - 1)
                      \/ c[k].t = "marker" /\ c[k].id = e.id /\ c[k].end = Expected(e, c, k - 1)
    BY DEF ScanBatches
  <2>0. k \in 1..n /\ k - 1 \in 2..n
    BY <1>1
  <2>1. c[k] = b[k] /\ Expected(e, c, k - 1) = Expected(d, b, k - 1)
    BY <1>2, <2>0
  <2> QED BY <2>1, GoodBatches
<1>5. ASSUME NEW k \in 3..n, c[k].t = "batch"
      PROVE  /\ Len(c[k].recs) \in Nat \ {0}
             /\ c[k].first \in 1..Len(new) + 1 - Len(c[k].recs)
             /\ \A j \in 1..Len(c[k].recs) : new[c[k].first + j - 1] = c[k].recs[j]
  <2>1. c[k] = b[k]
    BY <1>1
  <2>2. /\ Len(b[k].recs) \in Nat \ {0} /\ b[k].first \in 1..Len(log) + 1 - Len(b[k].recs)
        /\ \A j \in 1..Len(b[k].recs) : log[b[k].first + j - 1] = b[k].recs[j]
    BY <1>5, <2>1 DEF GoodPart
  <2>3. /\ Expected(d, b, k - 1) \in Nat /\ Expected(d, b, k) \in Nat
        /\ d.first <= Expected(d, b, k - 1) /\ Expected(d, b, k) <= Expected(d, b, n)
        /\ b[k].first = Expected(d, b, k - 1)
        /\ Expected(d, b, k) = b[k].first + Len(b[k].recs)
    BY <1>5, <2>1, GoodBatches
  <2>4. Expected(d, b, n) \in Nat
    BY <1>1, ExpectedStep
  <2> DEFINE x == Expected(d, b, n)
             y == b[k].first
             l == Len(b[k].recs)
  <2>5. /\ x \in Nat /\ l \in Nat \ {0} /\ y \in Nat /\ y >= 1
        /\ d.first <= y /\ y + l <= x /\ x <= Len(new) + 1
        /\ \A i \in d.first..x - 1 : new[i] = log[i]
    BY <2>2, <2>3, <2>4
  <2> HIDE DEF x, y, l
  <2>6. y \in 1..Len(new) + 1 - l /\ \A j \in 1..l : y + j - 1 \in d.first..x - 1
    BY <2>5
  <2>7. \A j \in 1..l : new[y + j - 1] = log[y + j - 1]
    BY <2>5, <2>6
  <2> QED BY <2>1, <2>2, <2>5, <2>6, <2>7 DEF y, l
<1>6. n \in 2..Len(c)
  BY <1>1
<1>7. GoodPart(e, c, n, new)
  BY <1>3, <1>4, <1>5, <1>6 DEF GoodPart
<1>8. n \in 2..n
  BY <1>1
<1> QED BY <1>2, <1>7, <1>8

\* One more batch or marker.
LEMMA GoodNext ==
    ASSUME NEW d, NEW c, NEW n, NEW log, GoodPart(d, c, n, log), d.first \in Nat,
           n + 1 <= Len(c), Len(log) \in Nat,
           \/ /\ c[n + 1].t = "batch" /\ c[n + 1].first = Expected(d, c, n)
              /\ Len(c[n + 1].recs) \in Nat \ {0} /\ 1 <= c[n + 1].first
              /\ c[n + 1].first + Len(c[n + 1].recs) <= Len(log) + 1
              /\ \A j \in 1..Len(c[n + 1].recs) :
                    log[c[n + 1].first + j - 1] = c[n + 1].recs[j]
           \/ /\ c[n + 1].t = "marker" /\ c[n + 1].id = d.id
              /\ c[n + 1].end = Expected(d, c, n)
    PROVE  /\ GoodPart(d, c, n + 1, log)
           /\ Expected(d, c, n + 1) =
                 IF c[n + 1].t = "batch" THEN Expected(d, c, n) + Len(c[n + 1].recs)
                 ELSE Expected(d, c, n)
<1>1. n \in Nat /\ n >= 2 /\ Counted(d, c, n) /\ Expected(d, c, n) \in Nat /\ Len(c) \in Nat
  <2>1. n \in Nat /\ n >= 2 /\ Len(c) \in Nat /\ \A k \in 2..n : Counted(d, c, k)
    BY GoodCounted
  <2>2. Counted(d, c, n)
    BY <2>1
  <2> QED BY <2>1, <2>2, ExpectedStep
<1>2. n + 1 \in Nat /\ n + 1 > 2 /\ (n + 1) - 1 = n /\ n + 1 \in 2..Len(c)
  BY <1>1
<1>3. \A k \in 3..n + 1 : k \in 3..n \/ k = n + 1
  BY <1>1
<1>4. Counted(d, c, n + 1)
  BY <1>1, <1>3 DEF Counted
<1>5. Expected(d, c, n + 1) =
         IF c[n + 1].t = "batch" THEN Expected(d, c, n) + Len(c[n + 1].recs)
         ELSE Expected(d, c, n)
  BY <1>2, <1>4, ExpectedStep
<1>6. ScanBatches(d, c, n + 1, TRUE, 0)
  <2> SUFFICES ASSUME NEW k \in 3..n + 1
               PROVE  \/ c[k].t = "batch" /\ c[k].first = Expected(d, c, k - 1)
                      \/ c[k].t = "marker" /\ c[k].id = d.id /\ c[k].end = Expected(d, c, k - 1)
    BY DEF ScanBatches
  <2>1. CASE k \in 3..n
    BY <2>1, GoodBatches
  <2>2. CASE k = n + 1
    BY <1>2, <2>2
  <2> QED BY <1>3, <2>1, <2>2
<1>7. ASSUME NEW k \in 3..n + 1, c[k].t = "batch"
      PROVE  /\ Len(c[k].recs) \in Nat \ {0}
             /\ c[k].first \in 1..Len(log) + 1 - Len(c[k].recs)
             /\ \A j \in 1..Len(c[k].recs) : log[c[k].first + j - 1] = c[k].recs[j]
  <2>1. CASE k \in 3..n
    BY <1>7, <2>1 DEF GoodPart
  <2>2. CASE k = n + 1
    <3>1. /\ c[n + 1].first = Expected(d, c, n)
          /\ Len(c[n + 1].recs) \in Nat \ {0} /\ 1 <= c[n + 1].first
          /\ c[n + 1].first + Len(c[n + 1].recs) <= Len(log) + 1
          /\ \A j \in 1..Len(c[n + 1].recs) :
                log[c[n + 1].first + j - 1] = c[n + 1].recs[j]
      BY <1>7, <2>2
    <3> DEFINE x == c[n + 1]
               y == c[n + 1].first
               l == Len(c[n + 1].recs)
    <3>2. y \in Nat /\ l \in Nat /\ 1 <= y /\ y + l <= Len(log) + 1
      BY <1>1, <3>1
    <3>3. y \in 1..Len(log) + 1 - l
      <4> HIDE DEF y, l
      <4> QED BY <3>2
    <3>4. c[k] = c[n + 1]
      BY <2>2
    <3> QED BY <3>1, <3>3, <3>4
  <2> QED BY <1>3, <2>1, <2>2
<1>8. GoodPart(d, c, n + 1, log)
  BY <1>2, <1>6, <1>7 DEF GoodPart
<1> QED BY <1>5, <1>8

---------------------------------------------------------------------------
(* The active part. k is its last marker.                                  *)

\* c is a good active file whose last marker is item k.
ActiveUpTo(d, rev, c, k, s) ==
    /\ IsSeq(c) /\ k \in 2..Len(c)
    /\ GoodPart(d, c, k, s.log)
    /\ c[k].t = "marker" /\ c[k].end \in s.stable..Len(s.log) + 1
    /\ \A j \in 2..Len(c) : c[j].t = "marker" =>
          j <= k /\ c[j].id = d.id /\ c[j].rev = rev

\* A good active file has a last marker.
LEMMA ActivePick ==
    ASSUME NEW d, NEW rev, NEW c, NEW s
    PROVE  GoodActive(d, rev, c, s) <=> \E k : ActiveUpTo(d, rev, c, k, s)
BY DEF GoodActive, ActiveUpTo, GoodPart

\* A marker of a good part carries the end the scan expects there.
LEMMA MarkerEnd ==
    ASSUME NEW d, NEW c, NEW k, NEW log, GoodPart(d, c, k, log), d.first \in Nat,
           c[k].t = "marker"
    PROVE  c[k].end = Expected(d, c, k) /\ c[k].id = d.id
<1>1. k \in Nat /\ k >= 2 /\ \A j \in 2..k : Counted(d, c, j)
  BY GoodCounted
<1>2. CASE k = 2
  <2>1. Counted(d, c, 2) /\ Expected(d, c, 2) = d.first
    <3>1. Counted(d, c, 2)
      BY <1>1
    <3> QED BY <3>1, ExpectedStep
  <2>2. c[2].end = d.first /\ c[2].id = d.id
    BY DEF GoodPart, ScanHead
  <2> QED BY <1>2, <2>1, <2>2
<1>3. CASE k > 2
  <2>1. k \in 3..k
    BY <1>1, <1>3
  <2> QED BY <2>1, GoodBatches
<1> QED BY <1>1, <1>2, <1>3

\* Recovery's scan of a good active file stops at its last marker and accepts it.
LEMMA ActiveIs ==
    ASSUME NEW d, NEW rev, NEW c, NEW k, NEW s, ActiveUpTo(d, rev, c, k, s), d.first \in Nat
    PROVE  /\ LastMarker(d, c, rev) = k /\ ScanActive(d, c, rev)
           /\ c[k].end = Expected(d, c, k) /\ Expected(d, c, k) \in Nat
           /\ d.first <= Expected(d, c, k)
<1>1. /\ k \in 2..Len(c) /\ Len(c) \in Nat /\ GoodPart(d, c, k, s.log) /\ c[k].t = "marker"
      /\ \A j \in 2..Len(c) : c[j].t = "marker" => j <= k /\ c[j].id = d.id /\ c[j].rev = rev
  BY SeqIs DEF ActiveUpTo
<1>2. k \in MarkersOf(d, c, rev) /\ MarkersOf(d, c, rev) \subseteq Nat
      /\ \A j \in MarkersOf(d, c, rev) : j <= k
  BY <1>1 DEF MarkersOf
<1>3. LastMarker(d, c, rev) = k
  <2>1. Max(MarkersOf(d, c, rev)) = k
    BY <1>2, MaxIs
  <2>2. MarkersOf(d, c, rev) # {}
    BY <1>2
  <2> QED BY <2>1, <2>2 DEF LastMarker
<1>4. c[k].end = Expected(d, c, k)
  BY <1>1, MarkerEnd
<1>5. k \in Nat /\ k >= 2 /\ \A j \in 2..k : Counted(d, c, j)
  BY <1>1, GoodCounted
<1>6. Expected(d, c, k) \in Nat /\ d.first <= Expected(d, c, k)
  <2>1. k \in 2..k /\ Counted(d, c, k)
    BY <1>5
  <2> QED BY <1>5, <2>1, ExpectedGrows
<1>7. ScanActive(d, c, rev)
  <2>1. ScanHead(d, c, FALSE, rev)
    <3>1. 2 \in 2..Len(c) /\ c[2].t = "marker"
      BY <1>1 DEF GoodPart, ScanHead
    <3> QED BY <1>1, <3>1 DEF GoodPart, ScanHead
  <2>2. ScanBatches(d, c, k, FALSE, rev)
    <3>1. 3..k \subseteq 2..Len(c)
      BY <1>1
    <3> QED BY <1>1, <3>1 DEF GoodPart, ScanBatches
  <2>3. k # 0
    BY <1>1
  <2> QED BY <1>3, <1>4, <2>1, <2>2, <2>3 DEF ScanActive
<1> QED BY <1>3, <1>4, <1>6, <1>7

\* What follows the last marker does not matter.
LEMMA ActiveSame ==
    ASSUME NEW d, NEW rev, NEW b, NEW k, NEW s, ActiveUpTo(d, rev, b, k, s), d.first \in Nat,
           NEW c, IsSeq(c), k <= Len(c), \A i \in 1..k : c[i] = b[i],
           \A i \in k + 1..Len(c) : c[i].t # "marker",
           NEW new, Len(new.log) \in Nat, b[k].end \in new.stable..Len(new.log) + 1,
           \A i \in d.first..b[k].end - 1 : new.log[i] = s.log[i]
    PROVE  ActiveUpTo(d, rev, c, k, new)
<1>1. /\ k \in 2..Len(b) /\ Len(b) \in Nat /\ Len(c) \in Nat
      /\ GoodPart(d, b, k, s.log) /\ b[k].t = "marker"
      /\ \A j \in 2..Len(b) : b[j].t = "marker" => j <= k /\ b[j].id = d.id /\ b[j].rev = rev
  BY SeqIs DEF ActiveUpTo
<1>2. b[k].end = Expected(d, b, k) /\ Expected(d, b, k) \in Nat
  BY ActiveIs
<1>3. Expected(d, b, k) <= Len(new.log) + 1
  BY <1>2
<1>4. GoodPart(d, c, k, new.log)
  <2> DEFINE log == s.log
             nlog == new.log
  <2>1. /\ GoodPart(d, b, k, log) /\ Len(nlog) \in Nat /\ Expected(d, b, k) <= Len(nlog) + 1
        /\ \A i \in d.first..Expected(d, b, k) - 1 : nlog[i] = log[i]
    BY <1>1, <1>2, <1>3
  <2> HIDE DEF log, nlog
  <2>2. GoodPart(d, c, k, nlog)
    BY <2>1, GoodSame
  <2> QED BY <2>2 DEF nlog
<1>5. k \in 2..Len(c) /\ k \in 1..k /\ c[k] = b[k]
  BY <1>1
<1>6. ASSUME NEW j \in 2..Len(c), c[j].t = "marker"
      PROVE  j <= k /\ c[j].id = d.id /\ c[j].rev = rev
  <2>1. j \in 1..k /\ j \in 2..Len(b)
    BY <1>1, <1>6
  <2> QED BY <1>1, <1>6, <2>1
<1> QED BY <1>1, <1>4, <1>5, <1>6 DEF ActiveUpTo

\* Writing a marker.
LEMMA ActiveMark ==
    ASSUME NEW d, NEW rev, NEW c, NEW n, n = Len(c), NEW s, GoodPart(d, c, n, s.log),
           d.first \in Nat, Len(s.log) \in Nat,
           \A j \in 2..n : c[j].t = "marker" => c[j].rev = rev,
           NEW e, e = Expected(d, c, n), e \in s.stable..Len(s.log) + 1
    PROVE  ActiveUpTo(d, rev, Append(c, Marker(d.id, rev, e)), n + 1, s)
<1> DEFINE x == Marker(d.id, rev, e)
           b == Append(c, x)
           log == s.log
<1>1. IsSeq(c) /\ n \in Nat /\ n >= 2 /\ n <= Len(c)
  BY GoodCounted DEF GoodPart
<1>2. /\ IsSeq(b) /\ Len(b) = n + 1 /\ b[n + 1] = x /\ \A i \in 1..n : b[i] = c[i]
  BY <1>1, SeqAppend
<1>3. x.t = "marker" /\ x.id = d.id /\ x.rev = rev /\ x.end = e
  BY DEF Marker
<1>4. e \in Nat
  <2>1. \A k \in 2..n : Counted(d, c, k)
    BY GoodCounted
  <2>2. Counted(d, c, n)
    BY <1>1, <2>1
  <2> QED BY <1>1, <2>2, ExpectedStep
<1> HIDE DEF x, b, log
<1>5. GoodPart(d, b, n, log) /\ Expected(d, b, n) = e
  <2>1. /\ GoodPart(d, c, n, log) /\ Len(log) \in Nat /\ Expected(d, c, n) <= Len(log) + 1
        /\ n <= Len(b)
    BY <1>1, <1>2, <1>4 DEF log
  <2> QED BY <1>2, <2>1, GoodSame
<1>6. GoodPart(d, b, n + 1, log)
  <2>1. /\ b[n + 1].t = "marker" /\ b[n + 1].id = d.id /\ b[n + 1].end = Expected(d, b, n)
        /\ n + 1 <= Len(b) /\ Len(log) \in Nat
    BY <1>1, <1>2, <1>3, <1>5 DEF log
  <2> QED BY <1>5, <2>1, GoodNext
<1>7. ASSUME NEW j \in 2..Len(b), b[j].t = "marker"
      PROVE  j <= n + 1 /\ b[j].id = d.id /\ b[j].rev = rev
  <2>1. CASE j = n + 1
    BY <1>1, <1>2, <1>3, <2>1
  <2>2. CASE j # n + 1
    <3>1. j \in 2..n /\ j \in 1..n /\ j <= n + 1
      BY <1>1, <1>2, <2>2
    <3>2. c[j].t = "marker" /\ b[j] = c[j]
      BY <1>2, <1>7, <3>1
    <3>3. c[j].id = d.id
      <4>1. j = 2 \/ j \in 3..n
        BY <3>1
      <4>2. CASE j = 2
        BY <4>2 DEF GoodPart, ScanHead
      <4>3. CASE j \in 3..n
        BY <3>2, <4>3 DEF GoodPart, ScanBatches
      <4> QED BY <4>1, <4>2, <4>3
    <3> QED BY <3>1, <3>2, <3>3
  <2> QED BY <2>1, <2>2
<1>8. n + 1 \in 2..Len(b) /\ b[n + 1].t = "marker" /\ b[n + 1].end \in s.stable..Len(s.log) + 1
  BY <1>1, <1>2, <1>3
<1>9. ActiveUpTo(d, rev, b, n + 1, s)
  BY <1>2, <1>6, <1>7, <1>8 DEF ActiveUpTo, log
<1> QED BY <1>9 DEF b, x

---------------------------------------------------------------------------
(* What a power loss leaves of a file.                                     *)

\* A prefix, item by item.
LEMMA PrefixIs ==
    ASSUME NEW p, NEW q, IsSeq(p), IsSeq(q)
    PROVE  IsPrefix(p, q) <=> Len(p) <= Len(q) /\ \A i \in 1..Len(p) : p[i] = q[i]
<1>1. Len(p) \in Nat /\ Len(q) \in Nat
  BY SeqIs
<1>2. Len(p) \in 0..Len(p)
  BY <1>1
<1> DEFINE x == SubSeq(p, 1, Len(p))
           y == SubSeq(q, 1, Len(p))
<1>3. IsSeq(x) /\ Len(x) = Len(p) /\ \A i \in 1..Len(p) : x[i] = p[i]
  BY <1>2, SeqPrefix
<1>4. CASE Len(p) <= Len(q)
  <2>1. Len(p) \in 0..Len(q)
    BY <1>1, <1>4
  <2>2. IsSeq(y) /\ Len(y) = Len(p) /\ \A i \in 1..Len(p) : y[i] = q[i]
    BY <2>1, SeqPrefix
  <2>3. IsPrefix(p, q) <=> x = y
    BY <1>4 DEF IsPrefix
  <2>4. ASSUME \A i \in 1..Len(p) : p[i] = q[i]
        PROVE  x = y
    <3>1. Len(x) = Len(y) /\ \A i \in 1..Len(x) : x[i] = y[i]
      BY <1>3, <2>2, <2>4
    <3> HIDE DEF x, y
    <3> QED BY <1>3, <2>2, <3>1, SeqSame
  <2> HIDE DEF x, y
  <2>5. x = y => \A i \in 1..Len(p) : p[i] = q[i]
    BY <1>3, <2>2
  <2> QED BY <1>4, <2>3, <2>4, <2>5
<1>5. CASE ~(Len(p) <= Len(q))
  BY <1>5 DEF IsPrefix
<1> QED BY <1>4, <1>5

\* SubSeq from 1 is a prefix.
LEMMA PrefixSub ==
    ASSUME NEW c, IsSeq(c), NEW n \in 0..Len(c)
    PROVE  IsPrefix(SubSeq(c, 1, n), c)
<1>1. /\ IsSeq(SubSeq(c, 1, n)) /\ Len(SubSeq(c, 1, n)) = n
      /\ \A i \in 1..n : SubSeq(c, 1, n)[i] = c[i]
  BY SeqPrefix
<1>2. n <= Len(c)
  BY SeqIs
<1> QED BY <1>1, <1>2, PrefixIs

\* c is a prefix of live behind lo, and perhaps a torn item.
Cut(live, lo, c) ==
    \E n \in lo..Len(live) :
        \/ c = SubSeq(live, 1, n)
        \/ n < Len(live) /\ c = Append(SubSeq(live, 1, n), Torn)

\* What is written is durable up to some point.
LEMMA SurvivorsCut ==
    ASSUME NEW f, IsSeq(f.live), IsSeq(f.hard), IsPrefix(f.hard, f.live),
           NEW c \in Survivors(f) \union {f.live}
    PROVE  Cut(f.live, Len(f.hard), c)
<1> DEFINE l == f.live
           q == f.hard
<1>1. IsSeq(l) /\ IsSeq(q) /\ Len(l) \in Nat /\ Len(q) \in Nat
  BY SeqIs
<1>2. Len(q) <= Len(l) /\ \A i \in 1..Len(q) : q[i] = l[i]
  BY <1>1, PrefixIs
<1> SUFFICES Cut(l, Len(q), c)
  OBVIOUS
<1>3. ASSUME c = l
      PROVE  Cut(l, Len(q), c)
  <2>1. Len(l) \in Len(q)..Len(l) /\ Len(l) \in 0..Len(l)
    BY <1>1, <1>2
  <2> DEFINE y == SubSeq(l, 1, Len(l))
  <2>2. IsSeq(y) /\ Len(y) = Len(l) /\ \A i \in 1..Len(l) : y[i] = l[i]
    BY <1>1, <2>1, SeqPrefix
  <2> HIDE DEF y, l
  <2>3. y = l
    BY <1>1, <2>2, SeqSame
  <2> QED BY <1>3, <2>1, <2>3 DEF Cut, y
<1>4. ASSUME c = q
      PROVE  Cut(l, Len(q), c)
  <2>1. Len(q) \in Len(q)..Len(l) /\ Len(q) \in 0..Len(l)
    BY <1>1, <1>2
  <2> DEFINE y == SubSeq(l, 1, Len(q))
  <2>2. IsSeq(y) /\ Len(y) = Len(q) /\ \A i \in 1..Len(q) : y[i] = l[i]
    BY <1>1, <2>1, SeqPrefix
  <2> HIDE DEF y, q
  <2>3. y = q
    BY <1>1, <1>2, <2>2, SeqSame
  <2> HIDE DEF l
  <2> QED BY <1>4, <2>1, <2>3 DEF Cut, y
<1>5. ASSUME NEW n \in 0..Len(l), c = SubSeq(l, 1, n), IsPrefix(q, c)
      PROVE  Cut(l, Len(q), c)
  <2>1. IsSeq(c) /\ Len(c) = n
    BY <1>1, <1>5, SeqPrefix
  <2>2. Len(q) <= n
    BY <1>1, <1>5, <2>1, PrefixIs
  <2>3. n \in Len(q)..Len(l)
    BY <1>1, <2>2
  <2> QED BY <1>5, <2>3 DEF Cut
<1>6. ASSUME NEW n \in 0..Len(l) - 1, c = Append(SubSeq(l, 1, n), Torn), IsPrefix(q, c)
      PROVE  Cut(l, Len(q), c)
  <2> DEFINE y == SubSeq(l, 1, n)
  <2>0. n \in 0..Len(l) /\ n < Len(l)
    BY <1>1
  <2>1. IsSeq(y) /\ Len(y) = n /\ \A i \in 1..n : y[i] = l[i]
    BY <1>1, <2>0, SeqPrefix
  <2>2. IsSeq(c) /\ Len(c) = n + 1 /\ c[n + 1] = Torn
    BY <1>6, <2>1, SeqAppend
  <2>3. CASE Len(q) <= n
    <3>1. n \in Len(q)..Len(l)
      BY <1>1, <2>0, <2>3
    <3> QED BY <1>6, <2>0, <3>1 DEF Cut
  <2>4. CASE ~(Len(q) <= n)
    <3>0. Len(q) <= Len(c) /\ \A i \in 1..Len(q) : q[i] = c[i]
      <4>1. IsPrefix(q, c) /\ IsSeq(q) /\ IsSeq(c)
        BY <1>1, <1>6, <2>2
      <4> HIDE DEF q, l
      <4> QED BY ONLY <4>1, PrefixIs
    <3>1. Len(q) = n + 1 /\ \A i \in 1..n + 1 : c[i] = q[i]
      <4> HIDE DEF q, l
      <4> QED BY <1>1, <2>0, <2>2, <2>4, <3>0
    <3>2. c = q
      BY <1>1, <2>2, <3>1, SeqSame
    <3> QED BY <1>4, <3>2
  <2> QED BY <2>3, <2>4
<1> QED BY <1>2, <1>3, <1>4, <1>5, <1>6 DEF Survivors

\* A file that was synced survives as it is.
LEMMA SurvivorsHard ==
    ASSUME NEW f, IsSeq(f.live), f.hard = f.live, NEW c \in Survivors(f) \union {f.live}
    PROVE  c = f.live
<1>1. f.live \in Seq(ToSet(f.live)) /\ IsPrefix(f.live, f.live)
  BY PrefixIs, SeqIs DEF IsSeq
<1> QED BY <1>1 DEF Survivors

---------------------------------------------------------------------------
(* The active part of a table, whatever a power loss leaves of it.         *)

\* What a safe active file gives: both its contents are good and one extends the other.
LEMMA SafeIs ==
    ASSUME NEW d, NEW rev, NEW f, NEW s, SafeActive(d, rev, f, s)
    PROVE  /\ IsSeq(f.live) /\ IsSeq(f.hard)
           /\ GoodActive(d, rev, f.live, s) /\ GoodActive(d, rev, f.hard, s)
           /\ IsPrefix(f.hard, f.live) \/ IsPrefix(f.live, f.hard)
<1>1. f.hard \in Survivors(f)
  BY DEF Survivors
<1>2. GoodActive(d, rev, f.live, s) /\ GoodActive(d, rev, f.hard, s)
  BY <1>1 DEF SafeActive
<1>3. IsSeq(f.live) /\ IsSeq(f.hard)
  BY <1>2 DEF GoodActive, GoodPart
<1>4. ASSUME ~IsPrefix(f.hard, f.live), ~IsPrefix(f.live, f.hard)
      PROVE  FALSE
  <2>1. 0 \in 0..Len(f.live)
    BY <1>3, SeqIs
  <2>2. SubSeq(f.live, 1, 0) \in Survivors(f)
    BY <1>4, <2>1 DEF Survivors
  <2>3. Len(SubSeq(f.live, 1, 0)) = 0
    BY <1>3, <2>1, SeqPrefix
  <2>4. PICK k \in 2..Len(SubSeq(f.live, 1, 0)) : TRUE
    BY <2>2 DEF SafeActive, GoodActive
  <2> QED BY <2>3, <2>4
<1> QED BY <1>2, <1>3, <1>4

\* A synced file.
LEMMA SafeHard ==
    ASSUME NEW d, NEW rev, NEW f, NEW s, f.hard = f.live, GoodActive(d, rev, f.live, s)
    PROVE  SafeActive(d, rev, f, s)
<1>1. IsSeq(f.live)
  BY DEF GoodActive, GoodPart
<1>2. \A c \in Survivors(f) \union {f.live} : GoodActive(d, rev, c, s)
  BY <1>1, SurvivorsHard
<1>3. ASSUME NEW k \in 1..Len(f.hard)
      PROVE  IsPrefix(SubSeq(f.hard, 1, k), f.live)
  <2>1. k \in 0..Len(f.live)
    BY <1>1, SeqIs
  <2> QED BY <1>1, <2>1, PrefixSub
<1> QED BY <1>2, <1>3 DEF SafeActive

\* More of the log, below the same stable index.
LEMMA SafeLog ==
    ASSUME NEW d, NEW rev, NEW f, NEW s, SafeActive(d, rev, f, s), d.first \in Nat,
           NEW new, s.stable \in Nat, new.stable \in Nat, new.stable <= s.stable,
           Len(s.log) \in Nat, Len(new.log) \in Nat, Len(s.log) <= Len(new.log),
           \A i \in d.first..Len(s.log) : new.log[i] = s.log[i]
    PROVE  SafeActive(d, rev, f, new)
<1>1. ASSUME NEW c \in Survivors(f) \union {f.live}
      PROVE  GoodActive(d, rev, c, new)
  <2>1. PICK k : ActiveUpTo(d, rev, c, k, s)
    <3>1. GoodActive(d, rev, c, s)
      BY DEF SafeActive
    <3> QED BY <3>1, ActivePick
  <2>2. IsSeq(c) /\ k \in 2..Len(c) /\ c[k].end \in s.stable..Len(s.log) + 1 /\ Len(c) \in Nat
    BY <2>1, SeqIs DEF ActiveUpTo
  <2>3. c[k].end \in new.stable..Len(new.log) + 1
    BY <2>2
  <2>4. \A i \in d.first..c[k].end - 1 : new.log[i] = s.log[i]
    <3> DEFINE a == d.first
               e == c[k].end
               n == Len(s.log)
    <3>1. a \in Nat /\ e \in Int /\ n \in Nat /\ e <= n + 1
      BY <2>2
    <3>2. \A i \in a..e - 1 : i \in a..n
      <4> HIDE DEF a, e, n
      <4> QED BY <3>1
    <3> QED BY <3>2
  <2>5. \A i \in k + 1..Len(c) : c[i].t # "marker"
    BY <2>1, <2>2 DEF ActiveUpTo
  <2>6. k <= Len(c) /\ \A i \in 1..k : c[i] = c[i]
    BY <2>2
  <2>7. ActiveUpTo(d, rev, c, k, new)
    BY <2>1, <2>2, <2>3, <2>4, <2>5, <2>6, ActiveSame
  <2> QED BY <2>7, ActivePick
<1> QED BY <1>1 DEF SafeActive

\* What is cut off below the last marker of everything that survives.
LEMMA CutGood ==
    ASSUME NEW d, NEW rev, NEW l, NEW s, IsSeq(l), d.first \in Nat, Len(s.log) \in Nat,
           NEW lo \in Nat, \A n \in lo..Len(l) : GoodActive(d, rev, SubSeq(l, 1, n), s),
           NEW c, Cut(l, lo, c)
    PROVE  GoodActive(d, rev, c, s)
<1>1. PICK n \in lo..Len(l) : \/ c = SubSeq(l, 1, n)
                              \/ c = Append(SubSeq(l, 1, n), Torn)
  BY DEF Cut
<1> DEFINE y == SubSeq(l, 1, n)
<1>2. GoodActive(d, rev, y, s)
  OBVIOUS
<1>3. PICK k : ActiveUpTo(d, rev, y, k, s)
  BY <1>2, ActivePick
<1> HIDE DEF y
<1>4. ASSUME c = Append(y, Torn)
      PROVE  GoodActive(d, rev, c, s)
  <2>1. /\ IsSeq(y) /\ k \in 2..Len(y) /\ Len(y) \in Nat
        /\ y[k].end \in s.stable..Len(s.log) + 1
        /\ \A j \in 2..Len(y) : y[j].t = "marker" => j <= k
    BY <1>3, SeqIs DEF ActiveUpTo
  <2>2. /\ IsSeq(c) /\ Len(c) = Len(y) + 1 /\ c[Len(y) + 1] = Torn
        /\ \A i \in 1..Len(y) : c[i] = y[i]
    BY <1>4, <2>1, SeqAppend
  <2>3. k <= Len(c) /\ \A i \in 1..k : c[i] = y[i]
    BY <2>1, <2>2
  <2>4. ASSUME NEW i \in k + 1..Len(c)
        PROVE  c[i].t # "marker"
    <3>1. CASE i = Len(y) + 1
      BY <2>2, <3>1 DEF Torn
    <3>2. CASE i # Len(y) + 1
      <4> DEFINE n1 == Len(y)
      <4>0. k \in 2..n1 /\ n1 \in Nat /\ i \in k + 1..n1 + 1 /\ i # n1 + 1
        BY <2>1, <2>2, <3>2
      <4>1. i \in 2..n1 /\ i \in 1..n1 /\ ~(i <= k)
        <5> HIDE DEF n1
        <5> QED BY <4>0
      <4> QED BY <2>1, <2>2, <4>1
    <3> QED BY <3>1, <3>2
  <2>5. ActiveUpTo(d, rev, c, k, s)
    BY <1>3, <2>1, <2>2, <2>3, <2>4, ActiveSame
  <2> QED BY <2>5, ActivePick
<1>5. ASSUME c = y
      PROVE  GoodActive(d, rev, c, s)
  BY <1>2, <1>5
<1> QED BY <1>1, <1>4, <1>5 DEF y

\* What survives of a file that is written at its end.
LEMMA SafeCuts ==
    ASSUME NEW d, NEW rev, NEW f, NEW s, IsSeq(f.live), IsSeq(f.hard),
           d.first \in Nat, Len(s.log) \in Nat, IsPrefix(f.hard, f.live)
    PROVE  SafeActive(d, rev, f, s) <=>
              \A n \in Len(f.hard)..Len(f.live) : GoodActive(d, rev, SubSeq(f.live, 1, n), s)
<1> DEFINE l == f.live
           q == f.hard
<1>1. Len(l) \in Nat /\ Len(q) \in Nat /\ Len(q) <= Len(l) /\ \A i \in 1..Len(q) : q[i] = l[i]
  <2>1. Len(l) \in Nat /\ Len(q) \in Nat
    BY SeqIs
  <2> QED BY <2>1, PrefixIs
<1>2. ASSUME \A n \in Len(q)..Len(l) : GoodActive(d, rev, SubSeq(l, 1, n), s)
      PROVE  SafeActive(d, rev, f, s)
  <2>1. ASSUME NEW c \in Survivors(f) \union {f.live}
        PROVE  GoodActive(d, rev, c, s)
    <3>1. Cut(l, Len(q), c)
      BY SurvivorsCut
    <3> QED BY <1>1, <1>2, <3>1, CutGood
  <2>2. ASSUME NEW k \in 1..Len(f.hard)
        PROVE  IsPrefix(SubSeq(f.hard, 1, k), f.live)
    <3> DEFINE y == SubSeq(q, 1, k)
    <3>1. k \in 0..Len(q) /\ k <= Len(q) /\ k \in Nat
      BY <1>1
    <3>2. IsSeq(y) /\ Len(y) = k /\ \A i \in 1..k : y[i] = q[i]
      BY <3>1, SeqPrefix
    <3> HIDE DEF y
    <3>3. Len(y) <= Len(l) /\ \A i \in 1..Len(y) : y[i] = l[i]
      BY <1>1, <3>1, <3>2
    <3>4. IsPrefix(y, l)
      BY <3>2, <3>3, PrefixIs
    <3> QED BY <3>4 DEF y
  <2> QED BY <2>1, <2>2 DEF SafeActive
<1>3. ASSUME SafeActive(d, rev, f, s), NEW n \in Len(q)..Len(l)
      PROVE  GoodActive(d, rev, SubSeq(l, 1, n), s)
  <2> DEFINE y == SubSeq(l, 1, n)
  <2>1. n \in 0..Len(l) /\ Len(q) <= n
    BY <1>1
  <2>2. IsSeq(y) /\ Len(y) = n /\ \A i \in 1..n : y[i] = l[i]
    BY <2>1, SeqPrefix
  <2>3. CASE IsPrefix(l, q)
    <3>1. Len(l) <= Len(q)
      BY <2>3, PrefixIs
    <3>2. n = Len(l)
      BY <1>1, <3>1
    <3> HIDE DEF y
    <3>3. y = l
      BY <2>2, <3>2, SeqSame
    <3>4. GoodActive(d, rev, l, s)
      BY <1>3, SafeIs
    <3>5. GoodActive(d, rev, y, s)
      BY <3>3, <3>4
    <3> QED BY <3>5 DEF y
  <2>4. CASE ~IsPrefix(l, q)
    <3>1. IsPrefix(q, y)
      <4> HIDE DEF y
      <4>1. Len(q) <= Len(y) /\ \A i \in 1..Len(q) : q[i] = y[i]
        BY <1>1, <2>1, <2>2
      <4> QED BY <2>2, <4>1, PrefixIs
    <3>2. y \in Survivors(f)
      BY <2>1, <2>4, <3>1 DEF Survivors
    <3> QED BY <1>3, <3>2 DEF SafeActive
  <2> QED BY <2>3, <2>4
<1> QED BY <1>2, <1>3

\* A batch after the last marker leaves an active file good for the same log.
LEMMA ActiveBatch ==
    ASSUME NEW d, NEW rev, NEW c, NEW s, GoodActive(d, rev, c, s), d.first \in Nat,
           Len(s.log) \in Nat, NEW x, x.t # "marker"
    PROVE  GoodActive(d, rev, Append(c, x), s)
<1>1. PICK k : ActiveUpTo(d, rev, c, k, s)
  BY ActivePick
<1>2. /\ IsSeq(c) /\ k \in 2..Len(c) /\ Len(c) \in Nat
      /\ c[k].end \in s.stable..Len(s.log) + 1
      /\ \A j \in 2..Len(c) : c[j].t = "marker" => j <= k
  BY <1>1, SeqIs DEF ActiveUpTo
<1> DEFINE b == Append(c, x)
           n == Len(c)
<1>3. IsSeq(b) /\ Len(b) = n + 1 /\ b[n + 1] = x /\ \A i \in 1..n : b[i] = c[i]
  BY <1>2, SeqAppend
<1> HIDE DEF b, n
<1>4. n \in Nat /\ k \in 2..n
  BY <1>2 DEF n
<1>5. k <= Len(b) /\ \A i \in 1..k : b[i] = c[i]
  BY <1>3, <1>4
<1>6. ASSUME NEW i \in k + 1..Len(b)
      PROVE  b[i].t # "marker"
  <2>1. CASE i = n + 1
    BY <1>3, <2>1
  <2>2. CASE i # n + 1
    <3>1. i \in 2..n /\ i \in 1..n /\ ~(i <= k)
      BY <1>3, <1>4, <2>2
    <3> QED BY <1>2, <1>3, <3>1 DEF n
  <2> QED BY <2>1, <2>2
<1>7. ActiveUpTo(d, rev, b, k, s)
  BY <1>1, <1>2, <1>3, <1>5, <1>6, ActiveSame
<1>8. GoodActive(d, rev, b, s)
  BY <1>7, ActivePick
<1> QED BY <1>8 DEF b

\* A write behind the end.
LEMMA SafeAppend ==
    ASSUME NEW d, NEW rev, NEW f, NEW s, SafeActive(d, rev, f, s), IsPrefix(f.hard, f.live),
           d.first \in Nat, Len(s.log) \in Nat,
           NEW x, GoodActive(d, rev, Append(f.live, x), s),
           NEW g, g.live = Append(f.live, x), g.hard = f.hard
    PROVE  SafeActive(d, rev, g, s) /\ IsPrefix(g.hard, g.live)
<1> DEFINE l == f.live
           q == f.hard
           b == g.live
           n == Len(l)
<1>1. IsSeq(l) /\ IsSeq(q)
  BY SafeIs
<1>2. n \in Nat /\ Len(q) \in Nat
  BY <1>1, SeqIs
<1>3. Len(q) <= n /\ \A i \in 1..Len(q) : q[i] = l[i]
  BY <1>1, PrefixIs
<1>4. IsSeq(b) /\ Len(b) = n + 1 /\ b[n + 1] = x /\ \A i \in 1..n : b[i] = l[i]
  BY <1>1, SeqAppend
<1>5. GoodActive(d, rev, b, s)
  OBVIOUS
<1>6. \A m \in Len(q)..n : GoodActive(d, rev, SubSeq(l, 1, m), s)
  BY <1>1, SafeCuts
<1>7. g.hard = q
  OBVIOUS
<1> HIDE DEF l, q, b, n
<1>8. IsPrefix(q, b)
  <2>1. Len(q) <= Len(b) /\ \A i \in 1..Len(q) : q[i] = b[i]
    BY <1>2, <1>3, <1>4
  <2> QED BY <1>1, <1>4, <2>1, PrefixIs
<1>9. ASSUME NEW m \in Len(q)..Len(b)
      PROVE  GoodActive(d, rev, SubSeq(b, 1, m), s)
  <2>1. m \in 0..Len(b) /\ m \in Nat
    BY <1>2, <1>4
  <2>2. IsSeq(SubSeq(b, 1, m)) /\ Len(SubSeq(b, 1, m)) = m
        /\ \A i \in 1..m : SubSeq(b, 1, m)[i] = b[i]
    BY <1>4, <2>1, SeqPrefix
  <2>3. CASE m = n + 1
    <3>1. SubSeq(b, 1, m) = b
      BY <1>4, <2>2, <2>3, SeqSame
    <3> QED BY <1>5, <3>1
  <2>4. CASE m # n + 1
    <3>1. m \in 0..n /\ m \in Len(q)..n /\ Len(l) = n
      BY <1>2, <1>4, <2>4 DEF n
    <3>2. IsSeq(SubSeq(l, 1, m)) /\ Len(SubSeq(l, 1, m)) = m
          /\ \A i \in 1..m : SubSeq(l, 1, m)[i] = l[i]
      BY <1>1, <3>1, SeqPrefix
    <3>3. \A i \in 1..m : SubSeq(l, 1, m)[i] = SubSeq(b, 1, m)[i]
      BY <1>4, <2>2, <3>1, <3>2
    <3>4. SubSeq(l, 1, m) = SubSeq(b, 1, m)
      BY <2>2, <3>2, <3>3, SeqSame
    <3> QED BY <1>6, <3>1, <3>4
  <2> QED BY <2>3, <2>4
<1>10. IsSeq(g.live) /\ IsSeq(g.hard) /\ IsPrefix(g.hard, g.live)
       /\ \A m \in Len(g.hard)..Len(g.live) : GoodActive(d, rev, SubSeq(g.live, 1, m), s)
  BY <1>1, <1>4, <1>7, <1>8, <1>9 DEF b
<1> QED BY <1>10, SafeCuts

\* Trimming behind the last marker.
LEMMA SafeTrim ==
    ASSUME NEW d, NEW rev, NEW f, NEW s, SafeActive(d, rev, f, s), d.first \in Nat,
           Len(s.log) \in Nat,
           NEW g, g.live = SubSeq(f.live, 1, LastMarker(d, f.live, rev)), g.hard = f.hard
    PROVE  SafeActive(d, rev, g, s)
<1> DEFINE l == f.live
           q == f.hard
           k == LastMarker(d, l, rev)
           b == SubSeq(l, 1, k)
<1>1. /\ IsSeq(l) /\ IsSeq(q) /\ GoodActive(d, rev, l, s) /\ GoodActive(d, rev, q, s)
      /\ IsPrefix(q, l) \/ IsPrefix(l, q)
  BY SafeIs
<1>2. ActiveUpTo(d, rev, l, k, s)
  <2>1. PICK j : ActiveUpTo(d, rev, l, j, s)
    BY <1>1, ActivePick
  <2>2. k = j
    BY <2>1, ActiveIs
  <2> QED BY <2>1, <2>2
<1>3. /\ k \in 2..Len(l) /\ Len(l) \in Nat /\ Len(q) \in Nat
      /\ \A j \in 2..Len(l) : l[j].t = "marker" => j <= k
      /\ l[k].end \in s.stable..Len(s.log) + 1
  BY <1>1, <1>2, SeqIs DEF ActiveUpTo
<1>4. k \in 0..Len(l) /\ k \in Nat
  BY <1>3
<1>5. IsSeq(b) /\ Len(b) = k /\ \A i \in 1..k : b[i] = l[i]
  BY <1>1, <1>4, SeqPrefix
<1>6. g.live = b /\ g.hard = q
  OBVIOUS
<1>7. ASSUME IsPrefix(q, l)
      PROVE  \A m \in Len(q)..Len(l) : GoodActive(d, rev, SubSeq(l, 1, m), s)
  BY <1>1, <1>7, SafeCuts
<1> HIDE DEF l, q, k, b
<1>8. GoodActive(d, rev, b, s)
  <2>1. k <= Len(b) /\ (\A i \in 1..k : b[i] = l[i]) /\ \A i \in k + 1..Len(b) : b[i].t # "marker"
    BY <1>4, <1>5
  <2>2. ActiveUpTo(d, rev, b, k, s)
    BY <1>2, <1>3, <1>5, <2>1, ActiveSame
  <2> QED BY <2>2, ActivePick
<1>9. CASE IsPrefix(q, l) /\ Len(q) <= k
  <2>1. Len(q) <= Len(l) /\ \A i \in 1..Len(q) : q[i] = l[i]
    BY <1>1, <1>9, PrefixIs
  <2>2. IsPrefix(q, b)
    <3>1. Len(q) <= Len(b) /\ \A i \in 1..Len(q) : q[i] = b[i]
      BY <1>3, <1>4, <1>5, <1>9, <2>1
    <3> QED BY <1>1, <1>5, <3>1, PrefixIs
  <2>3. ASSUME NEW m \in Len(q)..Len(b)
        PROVE  GoodActive(d, rev, SubSeq(b, 1, m), s)
    <3>1. m \in 0..Len(l) /\ m \in 0..Len(b) /\ m \in Len(q)..Len(l) /\ m \in 0..k
      BY <1>3, <1>4, <1>5
    <3>2. /\ IsSeq(SubSeq(b, 1, m)) /\ Len(SubSeq(b, 1, m)) = m
          /\ \A i \in 1..m : SubSeq(b, 1, m)[i] = b[i]
      BY <1>5, <3>1, SeqPrefix
    <3>3. /\ IsSeq(SubSeq(l, 1, m)) /\ Len(SubSeq(l, 1, m)) = m
          /\ \A i \in 1..m : SubSeq(l, 1, m)[i] = l[i]
      BY <1>1, <3>1, SeqPrefix
    <3>4. \A i \in 1..m : SubSeq(l, 1, m)[i] = SubSeq(b, 1, m)[i]
      BY <1>4, <1>5, <3>1, <3>2, <3>3
    <3>5. SubSeq(l, 1, m) = SubSeq(b, 1, m)
      BY <3>2, <3>3, <3>4, SeqSame
    <3> QED BY <1>7, <1>9, <3>1, <3>5
  <2>4. /\ IsSeq(g.live) /\ IsSeq(g.hard) /\ IsPrefix(g.hard, g.live)
        /\ \A m \in Len(g.hard)..Len(g.live) : GoodActive(d, rev, SubSeq(g.live, 1, m), s)
    BY <1>1, <1>5, <1>6, <2>2, <2>3
  <2> QED BY <2>4, SafeCuts
<1>10. CASE ~(IsPrefix(q, l) /\ Len(q) <= k)
  <2>1. k <= Len(q) /\ \A i \in 1..k : b[i] = q[i]
    <3>1. CASE IsPrefix(q, l)
      <4>1. Len(q) <= Len(l) /\ \A i \in 1..Len(q) : q[i] = l[i]
        BY <1>1, <3>1, PrefixIs
      <4> QED BY <1>3, <1>4, <1>5, <1>10, <3>1, <4>1
    <3>2. CASE IsPrefix(l, q)
      <4>1. Len(l) <= Len(q) /\ \A i \in 1..Len(l) : l[i] = q[i]
        BY <1>1, <3>2, PrefixIs
      <4> QED BY <1>3, <1>4, <1>5, <4>1
    <3> QED BY <1>1, <3>1, <3>2
  <2>2. IsPrefix(b, q)
    BY <1>1, <1>5, <2>1, PrefixIs
  <2>3. \A c \in Survivors(g) \union {g.live} : GoodActive(d, rev, c, s)
    <3>1. \A c \in Survivors(g) \union {g.live} : c = b \/ c = q
      BY <1>6, <2>2 DEF Survivors
    <3> QED BY <1>1, <1>8, <3>1
  <2>4. ASSUME NEW j \in 1..Len(g.hard), g.hard[j].t = "marker"
        PROVE  IsPrefix(SubSeq(g.hard, 1, j), g.live)
    <3> DEFINE y == SubSeq(q, 1, j)
    <3>1. j \in 0..Len(q) /\ j \in Nat /\ j >= 1
      BY <1>3, <1>6
    <3>2. IsSeq(y) /\ Len(y) = j /\ \A i \in 1..j : y[i] = q[i]
      BY <1>1, <3>1, SeqPrefix
    <3>3. IsPrefix(y, l)
      BY <1>6, <2>4 DEF SafeActive, q, l
    <3> HIDE DEF y
    <3>4. j <= Len(l) /\ \A i \in 1..j : y[i] = l[i]
      BY <1>1, <3>2, <3>3, PrefixIs
    <3>5. j <= k
      <4>1. CASE j = 1
        BY <1>3, <4>1
      <4>2. CASE j # 1
        <5>1. j \in 2..Len(l) /\ j \in 1..j
          BY <1>3, <3>1, <3>4, <4>2
        <5>2. l[j].t = "marker"
          BY <1>6, <2>4, <3>2, <3>4, <5>1
        <5> QED BY <1>3, <5>1, <5>2
      <4> QED BY <4>1, <4>2
    <3>6. Len(y) <= Len(b) /\ \A i \in 1..Len(y) : y[i] = b[i]
      BY <1>4, <1>5, <3>1, <3>2, <3>4, <3>5
    <3>7. IsPrefix(y, b)
      BY <1>5, <3>2, <3>6, PrefixIs
    <3> QED BY <1>6, <3>7 DEF y
  <2> QED BY <2>3, <2>4 DEF SafeActive
<1> QED BY <1>9, <1>10

---------------------------------------------------------------------------
(* Manifests.                                                              *)

\* The parts of a manifest or a handle, one behind the other.
Chain(p, first) ==
    /\ IsSeq(p) /\ Len(p) > 0 /\ p[1].first = first /\ first \in Nat
    /\ \A i \in 1..Len(p) :
          /\ p[i] = Desc(p[i].id, p[i].first, p[i].end)
          /\ p[i].id \in Nat /\ p[i].first \in Nat /\ p[i].end \in Nat
    /\ \A i \in 1..Len(p) - 1 : p[i].end = p[i + 1].first
    /\ \A i, j \in 1..Len(p) : p[i].id = p[j].id => i = j

\* None of them ends before it begins.
Rising(p) == \A i \in 1..Len(p) : p[i].first <= p[i].end

\* The descriptors a manifest lists, the active part last.
Descs(m) == Append(m.sealed, m.active)

\* What the descriptors of a manifest are.
LEMMA DescsIs ==
    ASSUME NEW m, IsSeq(m.sealed)
    PROVE  /\ IsSeq(Descs(m)) /\ Len(Descs(m)) = Len(m.sealed) + 1
           /\ \A i \in 1..Len(m.sealed) : Descs(m)[i] = m.sealed[i]
           /\ Descs(m)[Len(m.sealed) + 1] = m.active
           /\ Referenced(m) = {Descs(m)[i].id : i \in 1..Len(Descs(m))}
           /\ Len(m.sealed) \in Nat
<1>1. Len(m.sealed) \in Nat
  BY SeqIs
<1>2. /\ IsSeq(Descs(m)) /\ Len(Descs(m)) = Len(m.sealed) + 1
      /\ \A i \in 1..Len(m.sealed) : Descs(m)[i] = m.sealed[i]
      /\ Descs(m)[Len(m.sealed) + 1] = m.active
  BY SeqAppend DEF Descs
<1> DEFINE n == Len(m.sealed)
           p == Descs(m)
<1>3. \A i \in 1..n + 1 : i \in 1..n \/ i = n + 1
  BY <1>1
<1>4. 1..n \subseteq 1..n + 1 /\ n + 1 \in 1..n + 1
  BY <1>1
<1>5. Referenced(m) = {p[i].id : i \in 1..n + 1}
  <2>1. ASSUME NEW x \in Referenced(m)
        PROVE  \E i \in 1..n + 1 : x = p[i].id
    BY <1>2, <1>4, <2>1 DEF Referenced
  <2>2. ASSUME NEW i \in 1..n + 1
        PROVE  p[i].id \in Referenced(m)
    <3>1. CASE i \in 1..n
      BY <1>2, <3>1 DEF Referenced
    <3>2. CASE i = n + 1
      BY <1>2, <3>2 DEF Referenced
    <3> QED BY <1>3, <3>1, <3>2
  <2> HIDE DEF n, p
  <2> QED BY <2>1, <2>2
<1> QED BY <1>1, <1>2, <1>5

\* The two sequences that led89_manifest_decode compares.
LEMMA ContiguousIs ==
    ASSUME NEW m, IsSeq(m.sealed)
    PROVE  Contiguous(m) <=>
              /\ Descs(m)[1].first = m.first
              /\ \A i \in 1..Len(m.sealed) : Descs(m)[i].end = Descs(m)[i + 1].first
<1> DEFINE n == Len(m.sealed)
           p == Descs(m)
           e == [i \in 1..n |-> m.sealed[i].end]
           f == [i \in 1..n |-> m.sealed[i].first]
           x == <<m.first>> \o e
           y == f \o <<m.active.first>>
<1>1. /\ n \in Nat /\ (\A i \in 1..n : p[i] = m.sealed[i]) /\ p[n + 1] = m.active
  BY DescsIs
<1>2. IsSeq(e) /\ Len(e) = n /\ \A i \in 1..n : e[i] = p[i].end
  <2>1. e = [i \in 1..n |-> e[i]] /\ \A i \in 1..n : e[i] = p[i].end
    BY <1>1
  <2> HIDE DEF e
  <2> QED BY <1>1, <2>1, SeqIntro
<1>3. IsSeq(f) /\ Len(f) = n /\ \A i \in 1..n : f[i] = p[i].first
  <2>1. f = [i \in 1..n |-> f[i]] /\ \A i \in 1..n : f[i] = p[i].first
    BY <1>1
  <2> HIDE DEF f
  <2> QED BY <1>1, <2>1, SeqIntro
<1> DEFINE a == <<m.first>>
           b == <<m.active.first>>
<1>4. IsSeq(a) /\ Len(a) = 1 /\ a[1] = m.first /\ IsSeq(b) /\ Len(b) = 1 /\ b[1] = p[n + 1].first
  BY <1>1, SeqOne
<1>5. Contiguous(m) <=> x = y
  BY DEF Contiguous
<1> HIDE DEF e, f, a, b
<1>6. /\ IsSeq(x) /\ Len(x) = n + 1 /\ x[1] = m.first
      /\ \A i \in 1..n : x[i + 1] = p[i].end
  <2>1. IsSeq(x) /\ Len(x) = 1 + n /\ x[1] = a[1] /\ \A i \in 1..n : x[1 + i] = e[i]
    <3>1. 1 \in 1..1
      OBVIOUS
    <3> QED BY <1>2, <1>4, <3>1, SeqCat DEF a
  <2>2. 1 + n = n + 1 /\ \A i \in 1..n : 1 + i = i + 1
    BY <1>1
  <2> HIDE DEF x
  <2> QED BY <1>2, <1>4, <2>1, <2>2
<1>7. /\ IsSeq(y) /\ Len(y) = n + 1 /\ \A i \in 1..n + 1 : y[i] = p[i].first
  <2>1. /\ IsSeq(y) /\ Len(y) = n + 1 /\ (\A i \in 1..n : y[i] = f[i])
        /\ \A i \in 1..1 : y[n + i] = b[i]
    BY <1>3, <1>4, SeqCat DEF b
  <2> HIDE DEF y
  <2>2. y[n + 1] = p[n + 1].first
    BY <1>4, <2>1
  <2>3. \A i \in 1..n + 1 : i \in 1..n \/ i = n + 1
    BY <1>1
  <2> QED BY <1>3, <2>1, <2>2, <2>3
<1> HIDE DEF x, y, p, n
<1>8. ASSUME x = y
      PROVE  p[1].first = m.first /\ \A i \in 1..n : p[i].end = p[i + 1].first
  <2>1. 1 \in 1..n + 1 /\ \A i \in 1..n : i + 1 \in 1..n + 1
    BY <1>1
  <2> QED BY <1>6, <1>7, <1>8, <2>1
<1>9. ASSUME p[1].first = m.first, \A i \in 1..n : p[i].end = p[i + 1].first
      PROVE  x = y
  <2>1. ASSUME NEW j \in 1..n + 1
        PROVE  x[j] = y[j]
    <3>1. CASE j = 1
      BY <1>6, <1>7, <1>9, <3>1
    <3>2. CASE j # 1
      <4>1. j - 1 \in 1..n /\ (j - 1) + 1 = j
        BY <1>1, <3>2
      <4> QED BY <1>6, <1>7, <1>9, <4>1
    <3> QED BY <3>1, <3>2
  <2> QED BY <1>6, <1>7, <2>1, SeqSame
<1>10. Contiguous(m) <=> p[1].first = m.first /\ \A i \in 1..n : p[i].end = p[i + 1].first
  BY <1>5, <1>8, <1>9
<1> QED BY <1>10 DEF p, n

\* What a good manifest gives.
LEMMA ManifestIs ==
    ASSUME NEW m, GoodManifest(m)
    PROVE  /\ IsSeq(m.sealed) /\ Len(m.sealed) \in Nat
           /\ Chain(Descs(m), m.first) /\ m.first \in Nat \ {0}
           /\ m.active.end = m.active.first
<1>1. IsSeq(m.sealed) /\ Contiguous(m) /\ m.first \in Nat \ {0} /\ m.active.end = m.active.first
  BY DEF GoodManifest
<1> DEFINE n == Len(m.sealed)
           p == Descs(m)
<1>2. /\ IsSeq(p) /\ Len(p) = n + 1 /\ (\A i \in 1..n : p[i] = m.sealed[i])
      /\ p[n + 1] = m.active /\ n \in Nat
  BY <1>1, DescsIs
<1>3. p[1].first = m.first /\ \A i \in 1..n : p[i].end = p[i + 1].first
  BY <1>1, ContiguousIs
<1>4. \A i \in 1..n + 1 : i \in 1..n \/ i = n + 1
  BY <1>2
<1>5. ASSUME NEW i \in 1..n + 1
      PROVE  /\ p[i] = Desc(p[i].id, p[i].first, p[i].end)
             /\ p[i].id \in Nat /\ p[i].first \in Nat /\ p[i].end \in Nat
  <2>1. p[i] \in ToSet(m.sealed) \union {m.active}
    <3>1. CASE i \in 1..n
      <4>1. p[i] = m.sealed[i] /\ i \in DOMAIN m.sealed
        BY <1>1, <1>2, <3>1, SeqIs
      <4> QED BY <4>1 DEF ToSet
    <3>2. CASE i = n + 1
      BY <1>2, <3>2
    <3> QED BY <1>4, <3>1, <3>2
  <2> HIDE DEF p
  <2> QED BY <2>1 DEF GoodManifest
<1>6. ASSUME NEW i \in 1..n + 1, NEW j \in 1..n + 1, p[i].id = p[j].id
      PROVE  i = j
  <2>1. (i \in 1..n \/ i = n + 1) /\ (j \in 1..n \/ j = n + 1)
    BY <1>4
  <2>2. CASE i \in 1..n /\ j \in 1..n
    BY <1>2, <1>6, <2>2 DEF GoodManifest
  <2>3. CASE i \in 1..n /\ j = n + 1
    BY <1>2, <1>6, <2>3 DEF GoodManifest
  <2>4. CASE i = n + 1 /\ j \in 1..n
    BY <1>2, <1>6, <2>4 DEF GoodManifest
  <2> QED BY <2>1, <2>2, <2>3, <2>4
<1> HIDE DEF n, p
<1>7. Chain(p, m.first)
  <2>1. Len(p) > 0 /\ Len(p) - 1 = n /\ m.first \in Nat
    BY <1>1, <1>2
  <2> QED BY <1>2, <1>3, <1>5, <1>6, <2>1 DEF Chain
<1> QED BY <1>1, <1>2, <1>7 DEF p, n

\* What makes a manifest good.
LEMMA ManifestIntro ==
    ASSUME NEW m, m.t = "manifest", m.first \in Nat \ {0}, m.rev \in Nat, IsSeq(m.sealed),
           Chain(Descs(m), m.first), m.active.end = m.active.first
    PROVE  GoodManifest(m)
<1> DEFINE n == Len(m.sealed)
           p == Descs(m)
<1>1. /\ IsSeq(p) /\ Len(p) = n + 1 /\ (\A i \in 1..n : p[i] = m.sealed[i])
      /\ p[n + 1] = m.active /\ n \in Nat
  BY DescsIs
<1>2. n = Len(p) - 1 /\ 1..n \subseteq 1..Len(p) /\ n + 1 \in 1..Len(p) /\ n + 1 \notin 1..n
  BY <1>1
<1>3. Contiguous(m)
  <2>1. p[1].first = m.first /\ \A i \in 1..n : p[i].end = p[i + 1].first
    BY <1>2 DEF Chain
  <2> QED BY <2>1, ContiguousIs
<1>4. \A i \in 1..Len(p) :
          /\ p[i] = Desc(p[i].id, p[i].first, p[i].end)
          /\ p[i].id \in Nat /\ p[i].first \in Nat /\ p[i].end \in Nat
  BY DEF Chain
<1>5. ASSUME NEW d \in ToSet(m.sealed) \union {m.active}
      PROVE  \E i \in 1..Len(p) : d = p[i]
  <2>1. CASE d = m.active
    BY <1>1, <1>2, <2>1
  <2>2. CASE d \in ToSet(m.sealed)
    <3>1. PICK i \in DOMAIN m.sealed : d = m.sealed[i]
      BY <2>2 DEF ToSet
    <3>2. i \in 1..n
      BY SeqIs
    <3> QED BY <1>1, <1>2, <3>1, <3>2
  <2> QED BY <2>1, <2>2
<1>6. \A i, j \in 1..Len(p) : p[i].id = p[j].id => i = j
  BY DEF Chain
<1> HIDE DEF p
<1>7. \A d \in ToSet(m.sealed) \union {m.active} :
          /\ d = Desc(d.id, d.first, d.end)
          /\ d.id \in Nat /\ d.first \in Nat /\ d.end \in Nat
  BY <1>4, <1>5
<1>8. /\ \A i, j \in 1..n : m.sealed[i].id = m.sealed[j].id => i = j
      /\ \A i \in 1..n : m.sealed[i].id # m.active.id
  <2>1. ASSUME NEW i \in 1..n, NEW j \in 1..n, m.sealed[i].id = m.sealed[j].id
        PROVE  i = j
    BY <1>1, <1>2, <1>6, <2>1
  <2>2. ASSUME NEW i \in 1..n, m.sealed[i].id = m.active.id
        PROVE  FALSE
    <3>1. p[i].id = p[n + 1].id /\ i # n + 1 /\ i \in 1..Len(p) /\ n + 1 \in 1..Len(p)
      BY <1>1, <1>2, <2>2
    <3> QED BY <1>6, <3>1
  <2> QED BY <2>1, <2>2
<1> QED BY <1>3, <1>7, <1>8 DEF GoodManifest

\* Parts of a chain lie in order of the records they hold.
LEMMA ChainRises ==
    ASSUME NEW p, NEW first, Chain(p, first), Rising(p)
    PROVE  /\ \A i, j \in 1..Len(p) : i < j => p[i].end <= p[j].first
           /\ \A i \in 1..Len(p) : first <= p[i].first
<1> DEFINE n == Len(p)
<1>1. /\ n \in Nat /\ p[1].first = first /\ first \in Nat
      /\ \A i \in 1..n : p[i].first \in Nat /\ p[i].end \in Nat /\ p[i].first <= p[i].end
      /\ \A i \in 1..n - 1 : p[i].end = p[i + 1].first
  BY SeqIs DEF Chain, Rising
<1> HIDE DEF n
<1>2. ASSUME NEW i \in 1..n, NEW j \in 1..n, i < j
      PROVE  p[i].end <= p[j].first
  <2> DEFINE S == {k \in i + 1..n : p[i].end <= p[k].first}
  <2>1. i + 1 \in S
    <3>1. i \in 1..n - 1 /\ i + 1 \in i + 1..n /\ i + 1 \in 1..n
      BY <1>1, <1>2
    <3> QED BY <1>1, <3>1
  <2>2. ASSUME NEW k \in i + 1..n, k < n, k \in S
        PROVE  k + 1 \in S
    <3>1. k \in 1..n - 1 /\ k \in 1..n /\ k + 1 \in i + 1..n /\ k + 1 \in 1..n
      BY <1>1, <2>2
    <3>2. p[k].first <= p[k].end /\ p[k].end = p[k + 1].first /\ p[i].end <= p[k].first
      BY <1>1, <2>2, <3>1
    <3>3. p[k].first \in Nat /\ p[k].end \in Nat /\ p[k + 1].first \in Nat /\ p[i].end \in Nat
      BY <1>1, <3>1
    <3>4. p[i].end <= p[k + 1].first
      BY <3>2, <3>3
    <3> QED BY <3>1, <3>4
  <2>3. i + 1 \in Nat /\ j \in i + 1..n
    BY <1>1, <1>2
  <2> HIDE DEF S
  <2>4. \A k \in i + 1..n : k \in S
    BY <1>1, <2>1, <2>2, <2>3, Induction
  <2> QED BY <2>3, <2>4 DEF S
<1>3. ASSUME NEW i \in 1..n
      PROVE  first <= p[i].first
  <2>1. CASE i = 1
    BY <1>1, <2>1
  <2>2. CASE i # 1
    <3>1. 1 \in 1..n /\ 1 < i
      BY <1>1, <2>2
    <3>2. p[1].end <= p[i].first /\ p[1].first <= p[1].end
      BY <1>1, <1>2, <3>1
    <3>3. p[1].end \in Nat /\ p[i].first \in Nat
      BY <1>1, <3>1
    <3> QED BY <1>1, <3>2, <3>3
  <2> QED BY <2>1, <2>2
<1> QED BY <1>2, <1>3 DEF n

\* The scan of a good sealed part accepts it, and its footer closes it.
LEMMA SealedIs ==
    ASSUME NEW d, NEW c, NEW log, GoodSealed(d, c, log), d.first \in Nat
    PROVE  /\ IsSeq(c) /\ Len(c) \in Nat /\ Len(c) >= 3 /\ GoodPart(d, c, Len(c) - 1, log)
           /\ Expected(d, c, Len(c) - 1) = d.end /\ d.end \in Nat /\ d.first <= d.end /\ d.first < d.end
           /\ ScanSealed(d, c) /\ c[Len(c)].t = "footer"
           /\ c[Len(c)].digest = SubSeq(c, 2, Len(c) - 1)
<1> DEFINE n == Len(c) - 1
<1>1. /\ d.first < d.end /\ GoodPart(d, c, n, log) /\ ScanSealed(d, c)
      /\ c[Len(c)].digest = SubSeq(c, 2, Len(c) - 1)
  BY DEF GoodSealed
<1>2. IsSeq(c) /\ Len(c) \in Nat
  BY <1>1, SeqIs DEF GoodPart
<1>3. n + 1 = Len(c)
  BY <1>2
<1>4. Expected(d, c, n) = d.end /\ Len(c) >= 3 /\ c[n + 1].t = "footer"
  BY <1>1 DEF ScanSealed
<1>5. n \in Nat /\ n >= 2 /\ \A k \in 2..n : Counted(d, c, k)
  BY <1>1, GoodCounted
<1>6. n \in 2..n /\ Counted(d, c, n)
  BY <1>5
<1>7. Expected(d, c, n) \in Nat /\ d.first <= Expected(d, c, n)
  BY <1>5, <1>6, ExpectedGrows
<1> QED BY <1>1, <1>2, <1>3, <1>4, <1>7

\* A sealed part stays good for a log with the same records in its range.
LEMMA SealedSame ==
    ASSUME NEW d, NEW c, NEW log, GoodSealed(d, c, log), d.first \in Nat,
           NEW new, Len(new) \in Nat, d.end <= Len(new) + 1,
           \A i \in d.first..d.end - 1 : new[i] = log[i]
    PROVE  GoodSealed(d, c, new)
<1> DEFINE n == Len(c) - 1
<1>1. /\ IsSeq(c) /\ GoodPart(d, c, n, log) /\ Expected(d, c, n) = d.end
      /\ Len(c) \in Nat /\ ScanSealed(d, c) /\ d.first < d.end
      /\ c[Len(c)].digest = SubSeq(c, 2, Len(c) - 1)
  BY SealedIs
<1>2. n <= Len(c) /\ \A k \in 1..n : c[k] = c[k]
  BY <1>1
<1> HIDE DEF n
<1>3. GoodPart(d, c, n, new)
  BY <1>1, <1>2, GoodSame
<1> QED BY <1>1, <1>3 DEF GoodSealed, n

\* A file with the same contents is as safe.
LEMMA SafeSame ==
    ASSUME NEW d, NEW rev, NEW f, NEW s, SafeActive(d, rev, f, s),
           NEW g, g.live = f.live, g.hard = f.hard
    PROVE  SafeActive(d, rev, g, s)
<1>1. Survivors(g) = Survivors(f)
  BY DEF Survivors
<1> QED BY <1>1 DEF SafeActive

\* The parts of a manifest that holds log s.
LEMMA ReadyChain ==
    ASSUME NEW F, NEW d, NEW m, NEW s, Ready(F, d, m, s), Len(s.log) \in Nat, s.stable \in Nat
    PROVE  /\ GoodManifest(m) /\ Chain(Descs(m), s.first) /\ Rising(Descs(m))
           /\ m.active.first \in Nat /\ m.active.first <= Len(s.log) + 1
           /\ \A i \in 1..Len(m.sealed) :
                 /\ m.sealed[i].first \in Nat /\ m.sealed[i].end \in Nat
                 /\ s.first <= m.sealed[i].first
                 /\ m.sealed[i].first <= m.sealed[i].end
                 /\ m.sealed[i].end <= m.active.first
<1> DEFINE n == Len(m.sealed)
           p == Descs(m)
<1>1. GoodManifest(m) /\ m.first = s.first
  BY DEF Ready
<1>2. IsSeq(m.sealed) /\ Chain(p, s.first) /\ m.active.end = m.active.first
  BY <1>1, ManifestIs
<1>3. /\ IsSeq(p) /\ Len(p) = n + 1 /\ (\A i \in 1..n : p[i] = m.sealed[i])
      /\ p[n + 1] = m.active /\ n \in Nat
  BY <1>2, DescsIs
<1>4. \A i \in 1..n + 1 : p[i].first \in Nat /\ p[i].end \in Nat
  BY <1>2, <1>3 DEF Chain
<1>5. m.active.first \in Nat /\ n + 1 \in 1..n + 1 /\ 1..n \subseteq 1..n + 1
      /\ \A i \in 1..n + 1 : i \in 1..n \/ i = n + 1
  BY <1>3, <1>4
<1>6. ASSUME NEW i \in 1..n
      PROVE  p[i].first <= p[i].end
  <2>1. GoodSealed(m.sealed[i], F[Part(m.sealed[i].id)].live, s.log)
    BY DEF Ready
  <2>2. p[i] = m.sealed[i] /\ m.sealed[i].first \in Nat
    BY <1>3, <1>4, <1>5
  <2> QED BY <2>1, <2>2, SealedIs
<1>7. Rising(p)
  <2>1. p[n + 1].first <= p[n + 1].end
    BY <1>2, <1>3, <1>5
  <2> HIDE DEF p
  <2> QED BY <1>3, <1>5, <1>6, <2>1 DEF Rising
<1>8. m.active.first <= Len(s.log) + 1
  <2> DEFINE f == F[Part(m.active.id)]
  <2>1. GoodActive(m.active, m.rev, f.live, s)
    <3>1. SafeActive(m.active, m.rev, f, s)
      BY DEF Ready
    <3> QED BY <3>1, SafeIs
  <2>2. PICK k : ActiveUpTo(m.active, m.rev, f.live, k, s)
    BY <2>1, ActivePick
  <2> DEFINE e == Expected(m.active, f.live, k)
  <2>3. m.active.first <= e /\ e \in Nat /\ f.live[k].end = e
    BY <1>5, <2>2, ActiveIs
  <2>4. f.live[k].end \in s.stable..Len(s.log) + 1
    BY <2>2 DEF ActiveUpTo
  <2> HIDE DEF e, f
  <2> QED BY <1>5, <2>3, <2>4
<1>9. ASSUME NEW i \in 1..n
      PROVE  /\ p[i].first \in Nat /\ p[i].end \in Nat /\ s.first <= p[i].first
             /\ p[i].first <= p[i].end /\ p[i].end <= p[n + 1].first
  <2>1. i < n + 1 /\ i \in 1..Len(p) /\ n + 1 \in 1..Len(p)
    BY <1>3, <1>5
  <2> QED BY <1>2, <1>4, <1>6, <1>3, <1>7, <2>1, ChainRises
<1> QED BY <1>1, <1>2, <1>3, <1>5, <1>7, <1>8, <1>9

---------------------------------------------------------------------------
(* Tables that lead to a log.                                              *)

\* The table d publishes m, and what m refers to recovers s.
LeadsTo(F, d, m, s) ==
    /\ Cur(d.cur) \in DOMAIN F /\ Man(d.cur) \in DOMAIN F
    /\ F[Cur(d.cur)].live = <<Current(d.cur)>>
    /\ F[Cur(d.cur)].hard = <<Current(d.cur)>>
    /\ d.cur \in d.man
    /\ F[Man(d.cur)].live = <<m>> /\ F[Man(d.cur)].hard = <<m>>
    /\ m.gen = d.cur
    /\ Ready(F, d, m, s)

\* Leads names its manifest: the one CURRENT points to.
LEMMA LeadsIs ==
    ASSUME NEW F, NEW d, NEW s, d.cur # 0
    PROVE  /\ Leads(F, d, s) => LeadsTo(F, d, ManifestAt(F, d.cur), s)
           /\ \A m : LeadsTo(F, d, m, s) => m = ManifestAt(F, d.cur) /\ Leads(F, d, s)
<1>1. Leads(F, d, s) => LeadsTo(F, d, ManifestAt(F, d.cur), s)
  BY DEF Leads, LeadsTo
<1>2. ASSUME NEW m, LeadsTo(F, d, m, s)
      PROVE  m = ManifestAt(F, d.cur)
  <2>1. F[Man(d.cur)].live = <<m>>
    BY <1>2 DEF LeadsTo
  <2>2. <<m>>[1] = m
    OBVIOUS
  <2> QED BY <2>1, <2>2 DEF ManifestAt
<1>3. ASSUME NEW m, LeadsTo(F, d, m, s)
      PROVE  Leads(F, d, s)
  <2>1. m = ManifestAt(F, d.cur)
    BY <1>2, <1>3
  <2>2. LeadsTo(F, d, ManifestAt(F, d.cur), s)
    BY <1>3, <2>1
  <2> QED BY <2>2 DEF Leads, LeadsTo
<1> QED BY <1>1, <1>2, <1>3

\* Files G say of f what files F say.
SameFile(F, G, f) == f \in DOMAIN G /\ G[f].live = F[f].live /\ G[f].hard = F[f].hard

\* What manifest m refers to is as it was, but for the active part.
KeepsSealed(F, G, d, e, m) ==
    /\ e.cur = d.cur /\ d.cur \in e.man /\ Referenced(m) \subseteq e.part
    /\ SameFile(F, G, Cur(d.cur)) /\ SameFile(F, G, Man(d.cur))
    /\ \A i \in 1..Len(m.sealed) : SameFile(F, G, Part(m.sealed[i].id))
    /\ Part(m.active.id) \in DOMAIN G

\* A table goes on leading when its sealed parts stay and the active file is safe for the new log.
LEMMA LeadsChange ==
    ASSUME NEW F, NEW d, NEW m, NEW s, LeadsTo(F, d, m, s), Len(s.log) \in Nat, s.stable \in Nat,
           NEW G, NEW e, KeepsSealed(F, G, d, e, m),
           NEW new, new.first = s.first, new.rev = s.rev, Len(new.log) \in Nat,
           m.active.first <= Len(new.log) + 1,
           \A i \in s.first..m.active.first - 1 : new.log[i] = s.log[i],
           SafeActive(m.active, m.rev, G[Part(m.active.id)], new)
    PROVE  LeadsTo(G, e, m, new)
<1>1. Ready(F, d, m, s)
  BY DEF LeadsTo
<1>2. /\ GoodManifest(m) /\ Chain(Descs(m), s.first)
      /\ m.active.first \in Nat
      /\ \A i \in 1..Len(m.sealed) :
            /\ m.sealed[i].first \in Nat /\ m.sealed[i].end \in Nat
            /\ s.first <= m.sealed[i].first
            /\ m.sealed[i].first <= m.sealed[i].end
            /\ m.sealed[i].end <= m.active.first
  BY <1>1, ReadyChain
<1>3. s.first \in Nat
  BY <1>2 DEF Chain
<1>4. ASSUME NEW i \in 1..Len(m.sealed)
      PROVE  LET f == G[Part(m.sealed[i].id)]
             IN f.live = f.hard /\ GoodSealed(m.sealed[i], f.live, new.log)
  <2> DEFINE x == m.sealed[i]
             c == F[Part(m.sealed[i].id)].live
             nl == new.log
             ol == s.log
  <2>1. F[Part(m.sealed[i].id)].hard = c /\ GoodSealed(x, c, ol)
    BY <1>1 DEF Ready
  <2>2. G[Part(m.sealed[i].id)].live = c /\ G[Part(m.sealed[i].id)].hard = c
    BY <2>1 DEF KeepsSealed, SameFile
  <2>3. /\ x.first \in Nat /\ x.end \in Nat /\ s.first <= x.first
        /\ x.end <= m.active.first
    BY <1>2
  <2>4. x.end <= Len(nl) + 1 /\ \A j \in x.first..x.end - 1 : nl[j] = ol[j]
    <3> DEFINE a == m.active.first
               y == x.first
               z == x.end
               l == Len(nl)
               b == s.first
    <3>1. a \in Nat /\ y \in Nat /\ z \in Nat /\ b \in Nat /\ b <= y /\ z <= a /\ a <= l + 1 /\ l \in Nat
      BY <1>2, <1>3, <2>3
    <3>2. z <= l + 1 /\ \A j \in y..z - 1 : j \in b..a - 1
      <4> HIDE DEF a, y, z, l, b
      <4> QED BY <3>1
    <3>3. \A j \in b..a - 1 : nl[j] = ol[j]
      OBVIOUS
    <3> QED BY <3>2, <3>3
  <2>5. Len(nl) \in Nat
    OBVIOUS
  <2> HIDE DEF x, c, nl, ol
  <2>6. GoodSealed(x, c, nl)
    BY <2>1, <2>3, <2>4, <2>5, SealedSame
  <2> QED BY <2>2, <2>6 DEF x, nl
<1>5. \A id \in Referenced(m) : Part(id) \in DOMAIN G
  BY DEF KeepsSealed, SameFile, Referenced
<1>6. Ready(G, e, m, new)
  <2>1. m.first = new.first /\ m.rev = new.rev /\ Referenced(m) \subseteq e.part
    BY <1>1 DEF Ready, KeepsSealed
  <2> QED BY <1>2, <1>4, <1>5, <2>1 DEF Ready
<1> QED BY <1>6 DEF LeadsTo, KeepsSealed, SameFile

\* What a table needs of the files.
Keeps(F, G, d, e) ==
    /\ e.cur = d.cur
    /\ d.cur # 0 =>
          LET m == ManifestAt(F, d.cur)
          IN /\ d.cur \in e.man /\ Referenced(m) \subseteq e.part
             /\ SameFile(F, G, Cur(d.cur)) /\ SameFile(F, G, Man(d.cur))
             /\ \A id \in Referenced(m) : SameFile(F, G, Part(id))

\* A change that keeps the files the table refers to keeps what it leads to.
LEMMA LeadsKept ==
    ASSUME NEW F, NEW d, NEW s, Leads(F, d, s), Len(s.log) \in Nat, s.stable \in Nat,
           NEW G, NEW e, Keeps(F, G, d, e)
    PROVE  /\ Leads(G, e, s)
           /\ d.cur # 0 => ManifestAt(G, e.cur) = ManifestAt(F, d.cur)
<1>1. CASE d.cur = 0
  <2>1. e.cur = 0
    BY <1>1 DEF Keeps
  <2> QED BY <1>1, <2>1 DEF Leads
<1>2. CASE d.cur # 0
  <2> DEFINE m == ManifestAt(F, d.cur)
  <2>1. LeadsTo(F, d, m, s)
    BY <1>2, LeadsIs
  <2>2. /\ e.cur = d.cur /\ d.cur \in e.man /\ Referenced(m) \subseteq e.part
        /\ SameFile(F, G, Cur(d.cur)) /\ SameFile(F, G, Man(d.cur))
        /\ \A id \in Referenced(m) : SameFile(F, G, Part(id))
    BY <1>2 DEF Keeps
  <2> HIDE DEF m
  <2>3. KeepsSealed(F, G, d, e, m)
    <3>1. /\ \A i \in 1..Len(m.sealed) : m.sealed[i].id \in Referenced(m)
          /\ m.active.id \in Referenced(m)
      BY DEF Referenced
    <3> QED BY <2>2, <3>1 DEF KeepsSealed, SameFile
  <2>4. SafeActive(m.active, m.rev, G[Part(m.active.id)], s)
    <3>1. SafeActive(m.active, m.rev, F[Part(m.active.id)], s)
      BY <2>1 DEF LeadsTo, Ready
    <3>2. SameFile(F, G, Part(m.active.id))
      BY <2>2 DEF Referenced
    <3> QED BY <3>1, <3>2, SafeSame DEF SameFile
  <2>5. m.active.first <= Len(s.log) + 1
    <3>1. Ready(F, d, m, s)
      BY <2>1 DEF LeadsTo
    <3> QED BY <3>1, ReadyChain
  <2>6. LeadsTo(G, e, m, s)
    BY <2>1, <2>3, <2>4, <2>5, LeadsChange
  <2>7. e.cur # 0
    BY <1>2, <2>2
  <2> QED BY <2>6, <2>7, LeadsIs DEF m
<1> QED BY <1>1, <1>2

---------------------------------------------------------------------------
(* A power loss.                                                           *)

\* Which names a table has.
LEMMA Named ==
    ASSUME NEW d, NEW n
    PROVE  /\ HasName(d, Part(n)) <=> n \in d.part
           /\ HasName(d, Man(n)) <=> n \in d.man
           /\ HasName(d, Cur(n)) <=> n = d.cur \/ n = d.tmp
BY DEF HasName, Part, Man, Cur

\* A sequence is over every set its items are in.
LEMMA SeqIn ==
    ASSUME NEW c, IsSeq(c), NEW S, \A i \in 1..Len(c) : c[i] \in S
    PROVE  c \in Seq(S)
<1>1. Len(c) \in Nat /\ c = [i \in 1..Len(c) |-> c[i]]
  BY SeqIs
<1>2. c \in [1..Len(c) -> S]
  BY <1>1
<1> QED BY <1>1, <1>2

\* Log s cut at index k.
CutAt(s, k) == [s EXCEPT !.log = SubSeq(@, 1, k - 1), !.stable = k]

\* Every record of the log is stable.
IsSettled(s) == s.stable = Len(s.log) + 1

\* What a log of the abstract specification is.
LEMMA LogIs ==
    ASSUME NEW s, IsLog(s)
    PROVE  /\ IsSeq(s.log) /\ Len(s.log) \in Nat /\ s.first \in Nat \ {0}
           /\ s.stable \in Nat /\ s.first <= s.stable /\ s.stable <= Len(s.log) + 1
           /\ s.rev \in Nat
           /\ \A i \in 1..Len(s.log) : s.log[i] \in Value \union {Gone}
           /\ \A i \in 1..s.first - 1 : s.log[i] = Gone
<1>1. IsSeq(s.log)
  BY SeqTyped DEF IsLog
<1>2. Len(s.log) \in Nat
  BY <1>1, SeqIs
<1> QED BY <1>1, <1>2 DEF IsLog

\* A cut at or after the stable end is a settled log with the same records up to the cut.
LEMMA CutIs ==
    ASSUME NEW s, IsLog(s), NEW k \in s.stable..Len(s.log) + 1
    PROVE  /\ CutAt(s, k) \in Log!Cuts(s) /\ IsLog(CutAt(s, k)) /\ IsSettled(CutAt(s, k))
           /\ CutAt(s, k).first = s.first /\ CutAt(s, k).rev = s.rev
           /\ CutAt(s, k).stable = k /\ Len(CutAt(s, k).log) = k - 1
           /\ \A i \in 1..k - 1 : CutAt(s, k).log[i] = s.log[i]
<1> DEFINE t == CutAt(s, k)
           l == SubSeq(s.log, 1, k - 1)
           n == Len(s.log)
<1>1. /\ IsSeq(s.log) /\ n \in Nat /\ s.first \in Nat \ {0} /\ s.stable \in Nat
      /\ s.first <= s.stable /\ s.rev \in Nat
      /\ \A i \in 1..n : s.log[i] \in Value \union {Gone}
      /\ \A i \in 1..s.first - 1 : s.log[i] = Gone
  BY LogIs
<1>2. s = [log |-> s.log, first |-> s.first, stable |-> s.stable, rev |-> s.rev]
  BY DEF IsLog
<1>3. t = [log |-> l, first |-> s.first, stable |-> k, rev |-> s.rev]
  <2>1. t = [s EXCEPT !.log = SubSeq(s.log, 1, k - 1), !.stable = k]
    BY DEF CutAt
  <2> HIDE DEF t, l
  <2>2. t = [s EXCEPT !.log = l, !.stable = k]
    BY <2>1 DEF l
  <2> QED BY <1>2, <2>2
<1>4. k \in Nat /\ k - 1 \in 0..n /\ s.first <= k /\ k >= 1
  BY <1>1
<1>5. IsSeq(l) /\ Len(l) = k - 1 /\ \A i \in 1..k - 1 : l[i] = s.log[i]
  BY <1>1, <1>4, SeqPrefix
<1>6. l \in Seq(Value \union {Gone})
  <2>1. \A i \in 1..Len(l) : l[i] \in Value \union {Gone}
    <3>1. 1..k - 1 \subseteq 1..n
      BY <1>1, <1>4
    <3> HIDE DEF l
    <3> QED BY <1>1, <1>5, <3>1
  <2> HIDE DEF l
  <2> QED BY <1>5, <2>1, SeqIn
<1>7. t \in Log!Cuts(s)
  BY DEF Log!Cuts, Log!LogEnd, CutAt
<1> HIDE DEF l, t
<1>8. t.log = l /\ t.first = s.first /\ t.stable = k /\ t.rev = s.rev
      /\ t = [log |-> t.log, first |-> t.first, stable |-> t.stable, rev |-> t.rev]
  BY <1>3
<1>9. s.first \in 1..Len(l) + 1 /\ k \in s.first..Len(l) + 1
      /\ \A i \in 1..s.first - 1 : l[i] = Gone
  <2>1. \A i \in 1..s.first - 1 : i \in 1..k - 1
    BY <1>1, <1>4
  <2> QED BY <1>1, <1>4, <1>5, <2>1
<1>10. IsLog(t)
  BY <1>1, <1>6, <1>8, <1>9 DEF IsLog
<1>11. IsSettled(t)
  BY <1>4, <1>5, <1>8 DEF IsSettled
<1> QED BY <1>5, <1>7, <1>8, <1>10, <1>11 DEF t

\* A power loss, as a step from one disk to another.
Loses(F, ds, G, es) ==
    \E d \in ToSet(ds) :
        /\ es = <<d>>
        /\ \A f \in DOMAIN F : HasName(d, f) =>
              /\ f \in DOMAIN G
              /\ G[f].hard = G[f].live /\ G[f].live \in Survivors(F[f])

\* PowerLoss is such a step.
LEMMA LossIs ==
    PowerLoss => Loses(file, dirs, file', dirs')
<1> SUFFICES ASSUME PowerLoss
             PROVE  Loses(file, dirs, file', dirs')
  OBVIOUS
<1>1. PICK d \in ToSet(dirs) :
        LET kept == Reached(<<d>>)
            open == {f \in kept : file[f].live # file[f].hard}
        IN \E cut \in [open -> UNION {Survivors(file[f]) : f \in open}] :
              /\ \A f \in open : cut[f] \in Survivors(file[f])
              /\ dirs' = <<d>>
              /\ file' = [f \in kept |->
                             LET c == IF f \in open THEN cut[f]
                                      ELSE file[f].hard
                             IN [live |-> c, hard |-> c]]
  BY DEF PowerLoss
<1> DEFINE kept == Reached(<<d>>)
           open == {f \in kept : file[f].live # file[f].hard}
<1>2. PICK cut : /\ \A f \in open : cut[f] \in Survivors(file[f])
                 /\ dirs' = <<d>>
                 /\ file' = [f \in kept |->
                                LET c == IF f \in open THEN cut[f]
                                         ELSE file[f].hard
                                IN [live |-> c, hard |-> c]]
  BY <1>1
<1>3. ASSUME NEW f \in DOMAIN file, HasName(d, f)
      PROVE  /\ f \in DOMAIN file'
             /\ file'[f].hard = file'[f].live /\ file'[f].live \in Survivors(file[f])
  <2>1. f \in kept
    <3>1. <<d>>[1] = d /\ 1 \in DOMAIN <<d>>
      OBVIOUS
    <3>2. d \in ToSet(<<d>>)
      BY <3>1 DEF ToSet
    <3> QED BY <1>3, <3>2 DEF Reached
  <2> DEFINE c == IF f \in open THEN cut[f] ELSE file[f].hard
  <2>2. f \in DOMAIN file' /\ file'[f] = [live |-> c, hard |-> c]
    BY <1>2, <2>1
  <2>3. c \in Survivors(file[f])
    BY <1>2 DEF Survivors
  <2> HIDE DEF c
  <2> QED BY <2>2, <2>3
<1> QED BY <1>2, <1>3 DEF Loses

\* A file that was synced is found again.
LEMMA LossHard ==
    ASSUME NEW F, NEW G, NEW f, IsSeq(F[f].live), F[f].hard = F[f].live,
           f \in DOMAIN G, G[f].hard = G[f].live, G[f].live \in Survivors(F[f])
    PROVE  SameFile(F, G, f)
<1> DEFINE x == F[f]
           c == G[f].live
<1>1. IsSeq(x.live) /\ x.hard = x.live /\ c \in Survivors(x) \union {x.live}
  OBVIOUS
<1> HIDE DEF x, c
<1>2. c = x.live
  BY <1>1, SurvivorsHard
<1> QED BY <1>2 DEF SameFile, x, c

\* Every good active file holds exactly a cut of the log: what recovery will find.
LEMMA ActiveCut ==
    ASSUME NEW d, NEW rev, NEW c, NEW s, GoodActive(d, rev, c, s), IsLog(s),
           d.first \in Nat, d.first >= 1
    PROVE  \E k \in s.stable..Len(s.log) + 1 :
              d.first <= k /\ GoodActive(d, rev, c, CutAt(s, k))
<1>1. PICK j : ActiveUpTo(d, rev, c, j, s)
  BY ActivePick
<1> DEFINE k == c[j].end
           t == CutAt(s, k)
<1>2. /\ IsSeq(c) /\ j \in 2..Len(c) /\ Len(c) \in Nat /\ k \in s.stable..Len(s.log) + 1
      /\ \A i \in 2..Len(c) : c[i].t = "marker" => i <= j
  BY <1>1, SeqIs DEF ActiveUpTo
<1>3. d.first <= k /\ k \in Nat
  BY <1>1, ActiveIs
<1>4. t.stable = k /\ Len(t.log) = k - 1 /\ \A i \in 1..k - 1 : t.log[i] = s.log[i]
  BY <1>2, CutIs
<1> HIDE DEF t
<1>5. Len(t.log) \in Nat /\ k \in t.stable..Len(t.log) + 1
      /\ \A i \in d.first..k - 1 : t.log[i] = s.log[i]
  <2>1. \A i \in d.first..k - 1 : i \in 1..k - 1
    BY <1>3
  <2>2. k - 1 \in Nat /\ k \in k..(k - 1) + 1
    BY <1>3
  <2> QED BY <1>4, <2>1, <2>2
<1>6. j <= Len(c) /\ (\A i \in 1..j : c[i] = c[i]) /\ \A i \in j + 1..Len(c) : c[i].t # "marker"
  BY <1>2
<1>7. ActiveUpTo(d, rev, c, j, t)
  BY <1>1, <1>2, <1>5, <1>6, ActiveSame
<1>8. GoodActive(d, rev, c, t)
  BY <1>7, ActivePick
<1> QED BY <1>2, <1>3, <1>8 DEF t

\* What is left of a table leads to a cut of the log.
LEMMA LossLeads ==
    ASSUME NEW F, NEW d, NEW s, Leads(F, d, s), IsLog(s), NEW G,
           \A f \in DOMAIN F : HasName(d, f) =>
              f \in DOMAIN G /\ G[f].hard = G[f].live /\ G[f].live \in Survivors(F[f])
    PROVE  \E k \in s.stable..Len(s.log) + 1 : Leads(G, d, CutAt(s, k))
<1>1. CASE d.cur = 0
  <2>1. s = EmptyLog /\ s.stable = 1 /\ s.log = << >> /\ s.first = 1 /\ s.rev = 0
    BY <1>1 DEF Leads, EmptyLog
  <2>2. 1 \in s.stable..Len(s.log) + 1
    BY <2>1, SeqEmpty
  <2> DEFINE t == CutAt(s, 1)
  <2>3. IsLog(t) /\ t.first = 1 /\ t.rev = 0 /\ t.stable = 1 /\ Len(t.log) = 1 - 1
    BY <2>1, <2>2, CutIs
  <2> HIDE DEF t
  <2>4. t = [log |-> t.log, first |-> t.first, stable |-> t.stable, rev |-> t.rev] /\ IsSeq(t.log)
    BY <2>3, LogIs DEF IsLog
  <2>5. t.log = << >>
    BY <2>3, <2>4, SeqEmpty
  <2>6. t = EmptyLog
    BY <2>3, <2>4, <2>5 DEF EmptyLog
  <2>7. Leads(G, d, t)
    BY <1>1, <2>6 DEF Leads
  <2> QED BY <2>2, <2>7 DEF t
<1>2. CASE d.cur # 0
  <2> DEFINE m == ManifestAt(F, d.cur)
             a == m.active
             f == F[Part(a.id)]
             c == G[Part(a.id)].live
  <2>1. LeadsTo(F, d, m, s)
    BY <1>2, LeadsIs
  <2>2. Ready(F, d, m, s) /\ d.cur \in d.man
    BY <2>1 DEF LeadsTo
  <2>3. /\ GoodManifest(m) /\ Chain(Descs(m), s.first) /\ a.first \in Nat
        /\ Len(s.log) \in Nat /\ s.stable \in Nat /\ s.first \in Nat \ {0}
    BY <2>2, LogIs, ReadyChain
  <2>4. a.first >= 1
    <3>1. Rising(Descs(m))
      BY <2>2, <2>3, ReadyChain
    <3>2. IsSeq(m.sealed)
      BY <2>3, ManifestIs
    <3>3. /\ Len(Descs(m)) = Len(m.sealed) + 1 /\ Descs(m)[Len(m.sealed) + 1] = a
          /\ Len(m.sealed) \in Nat
      BY <3>2, DescsIs
    <3>4. Len(m.sealed) + 1 \in 1..Len(Descs(m))
      BY <3>3
    <3>5. s.first <= a.first
      BY <2>3, <3>1, <3>3, <3>4, ChainRises
    <3> QED BY <2>3, <3>5
  <2>5. /\ Cur(d.cur) \in DOMAIN F /\ HasName(d, Cur(d.cur))
        /\ Man(d.cur) \in DOMAIN F /\ HasName(d, Man(d.cur))
        /\ \A id \in Referenced(m) : Part(id) \in DOMAIN F /\ HasName(d, Part(id))
    BY <2>1, <2>2, Named DEF LeadsTo, Ready
  <2>6. SameFile(F, G, Cur(d.cur)) /\ SameFile(F, G, Man(d.cur))
    <3>1. /\ F[Cur(d.cur)].hard = F[Cur(d.cur)].live /\ F[Man(d.cur)].hard = F[Man(d.cur)].live
          /\ IsSeq(F[Cur(d.cur)].live) /\ IsSeq(F[Man(d.cur)].live)
      BY <2>1, SeqOne DEF LeadsTo
    <3> QED BY <2>5, <3>1, LossHard
  <2>7. ASSUME NEW i \in 1..Len(m.sealed)
        PROVE  SameFile(F, G, Part(m.sealed[i].id))
    <3> DEFINE x == Part(m.sealed[i].id)
    <3>1. F[x].live = F[x].hard /\ IsSeq(F[x].live)
      BY <2>2 DEF Ready, GoodSealed, GoodPart
    <3>2. x \in DOMAIN F /\ HasName(d, x)
      BY <2>5 DEF Referenced
    <3> QED BY <3>1, <3>2, LossHard
  <2>8. Part(a.id) \in DOMAIN G /\ G[Part(a.id)].hard = c /\ c \in Survivors(f)
    BY <2>5 DEF Referenced
  <2>9. GoodActive(a, m.rev, c, s)
    BY <2>2, <2>8 DEF Ready, SafeActive
  <2>10. PICK k \in s.stable..Len(s.log) + 1 :
            a.first <= k /\ GoodActive(a, m.rev, c, CutAt(s, k))
    <3> HIDE DEF a, c
    <3> QED BY <2>3, <2>4, <2>9, ActiveCut
  <2> DEFINE t == CutAt(s, k)
  <2>11. /\ t.first = s.first /\ t.rev = s.rev /\ Len(t.log) = k - 1
         /\ \A i \in 1..k - 1 : t.log[i] = s.log[i]
    BY CutIs
  <2>12. SafeActive(a, m.rev, G[Part(a.id)], t)
    BY <2>8, <2>10, SafeHard
  <2>13. KeepsSealed(F, G, d, d, m)
    BY <2>2, <2>6, <2>7, <2>8 DEF KeepsSealed, Ready
  <2> HIDE DEF t
  <2>14. /\ Len(t.log) \in Nat /\ a.first <= Len(t.log) + 1
         /\ \A i \in s.first..a.first - 1 : t.log[i] = s.log[i]
    <3>1. k \in Nat /\ k >= 1
      BY <2>3, <2>4, <2>10
    <3> DEFINE u == a.first
               b == s.first
    <3>2. u \in Nat /\ u <= k /\ b \in Nat \ {0}
      BY <2>3, <2>10
    <3>3. k - 1 \in Nat /\ u <= (k - 1) + 1 /\ \A i \in b..u - 1 : i \in 1..k - 1
      <4> HIDE DEF u, b
      <4> QED BY <3>1, <3>2
    <3> QED BY <2>11, <3>3
  <2>15. LeadsTo(G, d, m, t)
    <3> HIDE DEF m
    <3> QED BY <2>1, <2>3, <2>11, <2>12, <2>13, <2>14, LeadsChange
  <2>16. Leads(G, d, t)
    <3> HIDE DEF m
    <3> QED BY <1>2, <2>15, LeadsIs
  <2> QED BY <2>16 DEF t
<1> QED BY <1>1, <1>2

---------------------------------------------------------------------------
(* The directory entries of a part.                                        *)

\* The directory entry of batch k.
EntryOf(c, k, p) == Entry(c[k].first, Len(c[k].recs), k, p)

\* f is the table from which Entries collects the batches of the items 3..n.
Lists(f, c, n, p) ==
    /\ DOMAIN f = 2..n /\ f[2] = << >> /\ Entries(c, n, p) = f[n]
    /\ \A k \in 2..n : IsSeq(f[k])
    /\ \A k \in 3..n : f[k] = IF c[k].t = "batch" THEN Append(f[k - 1], EntryOf(c, k, p))
                              ELSE f[k - 1]

\* Entries has its table.
LEMMA EntriesValues ==
    ASSUME NEW c, NEW p, NEW n \in Nat, n >= 2
    PROVE  \E f : Lists(f, c, n, p)
<1> DEFINE F(f) == [k \in 2..n |->
               IF k = 2 THEN << >>
               ELSE IF c[k].t = "batch"
                    THEN Append(f[k - 1], Entry(c[k].first, Len(c[k].recs), k, p))
                    ELSE f[k - 1]]
           dir == CHOOSE f : f = F(f)
           E == {Entry(c[k].first, Len(c[k].recs), k, p) : k \in 2..n}
           S == Seq(E)
<1>1. \E f : f \in [2..n -> S] /\ f = F(f)
  <2> DEFINE g == [q \in (2..n) \X S |->
                      IF q[1] > 2 /\ c[q[1]].t = "batch"
                      THEN Append(q[2], Entry(c[q[1]].first, Len(c[q[1]].recs), q[1], p))
                      ELSE q[2]]
  <2>0. \A k \in 2..n, y \in S :
           /\ Append(y, Entry(c[k].first, Len(c[k].recs), k, p)) \in S
    <3> SUFFICES ASSUME NEW k \in 2..n, NEW y \in S
                 PROVE  Append(y, Entry(c[k].first, Len(c[k].recs), k, p)) \in S
      OBVIOUS
    <3> DEFINE x == Entry(c[k].first, Len(c[k].recs), k, p)
    <3>1. x \in E
      OBVIOUS
    <3> HIDE DEF x, E
    <3>2. Append(y, x) \in Seq(E)
      BY <3>1
    <3> QED BY <3>2 DEF x
  <2> HIDE DEF S, E
  <2>1. /\ \A k \in 3..n : \A y \in S :
              g[<<k, y>>] = IF c[k].t = "batch"
                            THEN Append(y, Entry(c[k].first, Len(c[k].recs), k, p)) ELSE y
        /\ g \in [(2..n) \X S -> S]
    <3>1. ASSUME NEW q \in (2..n) \X S
          PROVE  g[q] \in S
      <4>1. q[1] \in 2..n /\ q[2] \in S
        OBVIOUS
      <4>2. Append(q[2], Entry(c[q[1]].first, Len(c[q[1]].recs), q[1], p)) \in S
        BY <2>0, <4>1
      <4> QED BY <4>1, <4>2
    <3>2. g \in [(2..n) \X S -> S]
      BY <3>1
    <3>3. ASSUME NEW k \in 3..n, NEW y \in S
          PROVE  g[<<k, y>>] = IF c[k].t = "batch"
                            THEN Append(y, Entry(c[k].first, Len(c[k].recs), k, p)) ELSE y
      <4>1. <<k, y>> \in (2..n) \X S /\ k > 2 /\ <<k, y>>[1] = k /\ <<k, y>>[2] = y
        OBVIOUS
      <4> QED BY <4>1
    <3> QED BY <3>2, <3>3
  <2> HIDE DEF g
  <2>2. PICK f : Computes(f, S, 2, n, << >>, g)
    <3>0. << >> \in S
      BY DEF S
    <3>1. Steps(S, 2, n, << >>, g)
      BY <2>1, <3>0 DEF Steps
    <3> QED BY <3>1, Recursion
  <2>3. \A k \in 2..n : f[k] = F(f)[k]
    <3> SUFFICES ASSUME NEW k \in 2..n
                 PROVE  f[k] = F(f)[k]
      OBVIOUS
    <3>1. f[k] = IF k = 2 THEN << >> ELSE g[<<k, f[k - 1]>>]
      BY <2>2 DEF Computes
    <3>2. k # 2 => k \in 3..n /\ k - 1 \in 2..n /\ f[k - 1] \in S
      BY <2>2 DEF Computes
    <3> QED BY <2>1, <3>1, <3>2
  <2>4. f \in [2..n -> S]
    BY <2>2 DEF Computes
  <2>5. f = F(f)
    BY <2>3, <2>4
  <2> QED BY <2>4, <2>5
<1>2. dir = F(dir)
  BY <1>1
<1>3. Entries(c, n, p) = dir[n]
  BY DEF Entries
<1> DEFINE G(f) == /\ DOMAIN f = 2..n
                   /\ \A k \in 2..n :
                         f[k] = IF k = 2 THEN << >>
                                ELSE IF c[k].t = "batch"
                                     THEN Append(f[k - 1], Entry(c[k].first, Len(c[k].recs), k, p))
                                     ELSE f[k - 1]
<1>4. \A f : f = F(f) => G(f)
  OBVIOUS
<1> HIDE DEF F, dir
<1>5. G(dir)
  BY <1>2, <1>4
<1>6. dir[2] = << >>
  <2>1. 2 \in 2..n
    OBVIOUS
  <2> QED BY <1>5, <2>1
<1>7. \A k \in 3..n : dir[k] = IF c[k].t = "batch" THEN Append(dir[k - 1], EntryOf(c, k, p))
                               ELSE dir[k - 1]
  <2> SUFFICES ASSUME NEW k \in 3..n
               PROVE  dir[k] = IF c[k].t = "batch" THEN Append(dir[k - 1], EntryOf(c, k, p))
                               ELSE dir[k - 1]
    OBVIOUS
  <2>1. k \in 2..n /\ k # 2
    OBVIOUS
  <2> QED BY <1>5, <2>1 DEF EntryOf
<1>8. \A k \in 2..n : IsSeq(dir[k])
  <2> DEFINE T == {k \in 2..n : IsSeq(dir[k])}
  <2>1. 2 \in T
    BY <1>6, SeqEmpty
  <2>2. ASSUME NEW k \in 2..n, k < n, k \in T
        PROVE  k + 1 \in T
    <3>1. k + 1 \in 3..n /\ (k + 1) - 1 = k /\ k + 1 \in 2..n /\ IsSeq(dir[k])
      BY <2>2
    <3>2. dir[k + 1] = IF c[k + 1].t = "batch" THEN Append(dir[k], EntryOf(c, k + 1, p))
                       ELSE dir[k]
      BY <1>7, <3>1
    <3>3. IsSeq(Append(dir[k], EntryOf(c, k + 1, p)))
      BY <3>1, SeqAppend
    <3> QED BY <3>1, <3>2, <3>3
  <2> HIDE DEF T
  <2>3. \A k \in 2..n : k \in T
    BY <2>1, <2>2, Induction
  <2> QED BY <2>3 DEF T
<1> QED BY <1>3, <1>5, <1>6, <1>7, <1>8 DEF Lists

\* Entries, unfolded by one item.
LEMMA EntriesStep ==
    ASSUME NEW c, NEW p, NEW n \in Nat, n >= 2
    PROVE  /\ IsSeq(Entries(c, n, p))
           /\ n = 2 => Entries(c, n, p) = << >>
           /\ n > 2 => Entries(c, n, p) =
                          IF c[n].t = "batch" THEN Append(Entries(c, n - 1, p), EntryOf(c, n, p))
                          ELSE Entries(c, n - 1, p)
<1>1. PICK f : Lists(f, c, n, p)
  BY EntriesValues
<1>2. ASSUME n > 2
      PROVE  Entries(c, n - 1, p) = f[n - 1]
  <2>1. n - 1 \in Nat /\ n - 1 >= 2
    BY <1>2
  <2>2. PICK e : Lists(e, c, n - 1, p)
    BY <2>1, EntriesValues
  <2> DEFINE S == {k \in 2..n - 1 : e[k] = f[k]}
  <2>3. 2 \in S
    BY <1>1, <1>2, <2>2 DEF Lists
  <2>4. ASSUME NEW k \in 2..n - 1, k < n - 1, k \in S
        PROVE  k + 1 \in S
    <3>1. k + 1 \in 3..n - 1 /\ k + 1 \in 3..n /\ (k + 1) - 1 = k /\ e[k] = f[k]
      BY <2>4
    <3>2. /\ e[k + 1] = IF c[k + 1].t = "batch" THEN Append(e[k], EntryOf(c, k + 1, p)) ELSE e[k]
          /\ f[k + 1] = IF c[k + 1].t = "batch" THEN Append(f[k], EntryOf(c, k + 1, p)) ELSE f[k]
      BY <1>1, <2>2, <3>1 DEF Lists
    <3> QED BY <3>1, <3>2
  <2> HIDE DEF S
  <2>5. \A k \in 2..n - 1 : k \in S
    BY <2>1, <2>3, <2>4, Induction
  <2>6. n - 1 \in S
    BY <2>1, <2>5
  <2> QED BY <2>2, <2>6 DEF S, Lists
<1>3. n \in 2..n /\ (n > 2 => n \in 3..n)
  OBVIOUS
<1> QED BY <1>1, <1>2, <1>3 DEF Lists

---------------------------------------------------------------------------
(* Directories, whose entries lie one behind the other.                    *)

\* What entry e says of a part with items c that holds records of the log.
Locates(c, e, log) ==
    /\ e = Entry(e.first, e.count, e.pos, e.part)
    /\ e.first \in Nat /\ e.count \in Nat \ {0} /\ e.pos \in 3..Len(c)
    /\ c[e.pos].t = "batch" /\ c[e.pos].first = e.first
    /\ Len(c[e.pos].recs) = e.count
    /\ \A j \in 1..e.count : log[e.first + j - 1] = c[e.pos].recs[j]

\* Every entry has a first index and holds at least one record.
Counts(dir) ==
    /\ IsSeq(dir)
    /\ \A i \in 1..Len(dir) : dir[i].first \in Nat /\ dir[i].count \in Nat \ {0}

\* The index after the entry's last record.
EndOf(e) == e.first + e.count

\* The entries cover lo..hi - 1 without a gap or an overlap.
Linked(dir, lo, hi) ==
    /\ Counts(dir) /\ lo \in Nat /\ hi \in Nat
    /\ Len(dir) = 0 => lo = hi
    /\ Len(dir) > 0 => dir[1].first = lo /\ EndOf(dir[Len(dir)]) = hi
    /\ \A i \in 1..Len(dir) - 1 : dir[i + 1].first = EndOf(dir[i])

\* No entries cover nothing.
LEMMA LinkedEmpty ==
    ASSUME NEW lo \in Nat
    PROVE  Linked(<< >>, lo, lo)
<1>1. IsSeq(<< >>) /\ Len(<< >>) = 0
  BY SeqEmpty
<1> QED BY <1>1 DEF Linked, Counts

\* One entry covers its own range.
LEMMA LinkedOne ==
    ASSUME NEW e, e.first \in Nat, e.count \in Nat \ {0}
    PROVE  Linked(<<e>>, e.first, EndOf(e))
<1>1. IsSeq(<<e>>) /\ Len(<<e>>) = 1 /\ <<e>>[1] = e
  BY SeqOne
<1> DEFINE dir == <<e>>
<1>2. /\ IsSeq(dir) /\ Len(dir) = 1 /\ dir[1] = e
  BY <1>1
<1> HIDE DEF dir
<1>3. Linked(dir, e.first, EndOf(e))
  <2>1. EndOf(e) \in Nat
    BY DEF EndOf
  <2>2. \A i \in 1..Len(dir) : i = 1
    BY <1>2
  <2>3. Len(dir) - 1 = 0
    BY <1>2
  <2> QED BY <1>2, <2>1, <2>2, <2>3 DEF Linked, Counts
<1> QED BY <1>3 DEF dir

\* Adjacent ranges join.
LEMMA LinkedCat ==
    ASSUME NEW p, NEW q, NEW a, NEW b, NEW c, Linked(p, a, b), Linked(q, b, c)
    PROVE  Linked(p \o q, a, c)
<1> DEFINE d == p \o q
           m == Len(p)
           n == Len(q)
<1>1. IsSeq(p) /\ IsSeq(q) /\ m \in Nat /\ n \in Nat
  BY SeqIs DEF Linked, Counts
<1>2. /\ IsSeq(d) /\ Len(d) = m + n /\ (\A i \in 1..m : d[i] = p[i])
      /\ \A i \in 1..n : d[m + i] = q[i]
  BY <1>1, SeqCat
<1> HIDE DEF d
<1>3. \A i \in 1..m + n : i \in 1..m \/ (i - m \in 1..n /\ m + (i - m) = i)
  BY <1>1
<1>4. Counts(d)
  <2> SUFFICES ASSUME NEW i \in 1..m + n
               PROVE  d[i].first \in Nat /\ d[i].count \in Nat \ {0}
    BY <1>2 DEF Counts
  <2>1. CASE i \in 1..m
    BY <1>2, <2>1 DEF Linked, Counts
  <2>2. CASE i - m \in 1..n /\ m + (i - m) = i
    <3>1. d[i] = q[i - m]
      BY <1>2, <2>2
    <3> QED BY <2>2, <3>1 DEF Linked, Counts
  <2> QED BY <1>3, <2>1, <2>2
<1>5. ASSUME NEW i \in 1..m + n - 1
      PROVE  d[i + 1].first = EndOf(d[i])
  <2>1. CASE i + 1 \in 1..m
    <3>1. i \in 1..m /\ i \in 1..m - 1
      BY <1>1, <2>1
    <3>2. p[i + 1].first = EndOf(p[i])
      BY <3>1 DEF Linked
    <3> QED BY <1>2, <2>1, <3>1, <3>2
  <2>2. CASE i = m
    <3>1. m > 0 /\ n > 0 /\ m \in 1..m /\ 1 \in 1..n /\ i + 1 = m + 1
      BY <1>1, <2>2
    <3>2. d[i] = p[m] /\ d[i + 1] = q[1]
      BY <1>2, <2>2, <3>1
    <3> QED BY <3>1, <3>2 DEF Linked
  <2>3. CASE i > m
    <3> DEFINE j == i - m
    <3>1. j \in 1..n - 1 /\ j \in 1..n /\ j + 1 \in 1..n /\ m + j = i /\ m + (j + 1) = i + 1
      BY <1>1, <2>3
    <3> HIDE DEF j
    <3>2. d[i] = q[j] /\ d[i + 1] = q[j + 1]
      BY <1>2, <3>1
    <3> QED BY <3>1, <3>2 DEF Linked
  <2>4. i + 1 \in 1..m \/ i = m \/ i > m
    BY <1>1
  <2> QED BY <2>1, <2>2, <2>3, <2>4
<1>6. m + n > 0 => d[1].first = a /\ EndOf(d[m + n]) = c
  <2> HAVE m + n > 0
  <2>1. d[1].first = a
    <3>1. CASE m > 0
      <4>1. 1 \in 1..m
        BY <1>1, <3>1
      <4> QED BY <1>2, <3>1, <4>1 DEF Linked
    <3>2. CASE m = 0
      <4>1. 1 \in 1..n /\ m + 1 = 1 /\ a = b
        BY <1>1, <3>2 DEF Linked
      <4>2. d[1] = q[1]
        BY <1>2, <4>1
      <4> QED BY <1>1, <3>2, <4>1, <4>2 DEF Linked
    <3> QED BY <1>1, <3>1, <3>2
  <2>2. EndOf(d[m + n]) = c
    <3>1. CASE n > 0
      <4>1. n \in 1..n
        BY <1>1, <3>1
      <4>2. d[m + n] = q[n]
        BY <1>2, <4>1
      <4> QED BY <3>1, <4>2 DEF Linked
    <3>2. CASE n = 0
      <4>1. m \in 1..m /\ m + n = m /\ b = c /\ m > 0
        BY <1>1, <3>2 DEF Linked
      <4>2. d[m + n] = p[m]
        BY <1>2, <4>1
      <4> QED BY <4>1, <4>2 DEF Linked
    <3> QED BY <1>1, <3>1, <3>2
  <2> QED BY <2>1, <2>2
<1>7. m + n = 0 => a = c
  <2> HAVE m + n = 0
  <2>1. m = 0 /\ n = 0
    BY <1>1
  <2> QED BY <2>1 DEF Linked
<1>8. a \in Nat /\ c \in Nat
  BY DEF Linked
<1>9. Linked(d, a, c)
  BY <1>2, <1>4, <1>5, <1>6, <1>7, <1>8 DEF Linked
<1> QED BY <1>9 DEF d

\* Append is concatenation with one item.
LEMMA AppendCat ==
    ASSUME NEW c, IsSeq(c), NEW x
    PROVE  Append(c, x) = c \o <<x>>
<1> DEFINE p == Append(c, x)
           q == c \o <<x>>
           n == Len(c)
<1>1. n \in Nat /\ IsSeq(<<x>>) /\ Len(<<x>>) = 1 /\ <<x>>[1] = x
  BY SeqIs, SeqOne
<1>2. IsSeq(p) /\ Len(p) = n + 1 /\ (\A i \in 1..n : p[i] = c[i]) /\ p[n + 1] = x
  BY SeqAppend
<1>3. IsSeq(q) /\ Len(q) = n + 1 /\ (\A i \in 1..n : q[i] = c[i]) /\ q[n + 1] = x
  <2>1. /\ IsSeq(q) /\ Len(q) = n + Len(<<x>>) /\ (\A i \in 1..n : q[i] = c[i])
        /\ \A i \in 1..Len(<<x>>) : q[n + i] = <<x>>[i]
    BY <1>1, SeqCat
  <2>2. 1 \in 1..Len(<<x>>)
    BY <1>1
  <2> HIDE DEF q
  <2> QED BY <1>1, <2>1, <2>2
<1> HIDE DEF p, q
<1>4. ASSUME NEW i \in 1..Len(p)
      PROVE  p[i] = q[i]
  <2>1. i \in 1..n \/ i = n + 1
    BY <1>1, <1>2
  <2> QED BY <1>2, <1>3, <2>1
<1>5. p = q
  BY <1>2, <1>3, <1>4, SeqSame
<1> QED BY <1>5 DEF p, q

\* An entry that starts at the end extends the range.
LEMMA LinkedAppend ==
    ASSUME NEW dir, NEW lo, NEW hi, Linked(dir, lo, hi),
           NEW e, e.first = hi, e.count \in Nat \ {0}
    PROVE  Linked(Append(dir, e), lo, EndOf(e))
<1>1. IsSeq(dir) /\ hi \in Nat
  BY DEF Linked, Counts
<1>2. Linked(<<e>>, hi, EndOf(e))
  BY <1>1, LinkedOne
<1>3. Linked(dir \o <<e>>, lo, EndOf(e))
  BY <1>2, LinkedCat
<1> QED BY <1>1, <1>3, AppendCat

\* Entries of a covered range lie in order and inside it.
LEMMA LinkedRange ==
    ASSUME NEW dir, NEW lo, NEW hi, Linked(dir, lo, hi)
    PROVE  /\ \A i, j \in 1..Len(dir) : i < j => EndOf(dir[i]) <= dir[j].first
           /\ \A i \in 1..Len(dir) : lo <= dir[i].first /\ EndOf(dir[i]) <= hi
<1> DEFINE n == Len(dir)
<1>1. /\ n \in Nat /\ lo \in Nat /\ hi \in Nat
      /\ \A i \in 1..n : dir[i].first \in Nat /\ EndOf(dir[i]) \in Nat
                         /\ dir[i].first <= EndOf(dir[i])
      /\ \A i \in 1..n - 1 : dir[i + 1].first = EndOf(dir[i])
      /\ n > 0 => dir[1].first = lo /\ EndOf(dir[n]) = hi
  <2>1. n \in Nat
    BY SeqIs DEF Linked, Counts
  <2>2. \A i \in 1..n : dir[i].first \in Nat /\ dir[i].count \in Nat
    BY DEF Linked, Counts
  <2> QED BY <2>1, <2>2 DEF Linked, EndOf
<1> HIDE DEF n
<1>2. ASSUME NEW i \in 1..n, NEW j \in 1..n, i < j
      PROVE  EndOf(dir[i]) <= dir[j].first
  <2> DEFINE S == {k \in i + 1..n : EndOf(dir[i]) <= dir[k].first}
  <2>1. i + 1 \in S
    <3>1. i \in 1..n - 1 /\ i + 1 \in i + 1..n /\ i + 1 \in 1..n
      BY <1>1, <1>2
    <3> QED BY <1>1, <3>1
  <2>2. ASSUME NEW k \in i + 1..n, k < n, k \in S
        PROVE  k + 1 \in S
    <3>1. k \in 1..n - 1 /\ k \in 1..n /\ k + 1 \in i + 1..n /\ k + 1 \in 1..n
      BY <1>1, <2>2
    <3>2. /\ dir[k].first <= EndOf(dir[k]) /\ EndOf(dir[k]) = dir[k + 1].first
          /\ EndOf(dir[i]) <= dir[k].first
      BY <1>1, <2>2, <3>1
    <3>3. /\ dir[k].first \in Nat /\ EndOf(dir[k]) \in Nat
          /\ dir[k + 1].first \in Nat /\ EndOf(dir[i]) \in Nat
      BY <1>1, <3>1
    <3>4. EndOf(dir[i]) <= dir[k + 1].first
      BY <3>2, <3>3
    <3> QED BY <3>1, <3>4
  <2>3. i + 1 \in Nat /\ j \in i + 1..n
    BY <1>1, <1>2
  <2> HIDE DEF S
  <2>4. \A k \in i + 1..n : k \in S
    BY <1>1, <2>1, <2>2, <2>3, Induction
  <2> QED BY <2>3, <2>4 DEF S
<1>3. ASSUME NEW i \in 1..n
      PROVE  lo <= dir[i].first /\ EndOf(dir[i]) <= hi
  <2>1. 1 \in 1..n /\ n \in 1..n /\ n > 0
    BY <1>1
  <2>2. lo <= dir[i].first
    <3>1. CASE i = 1
      BY <1>1, <2>1, <3>1
    <3>2. CASE i # 1
      <4>1. EndOf(dir[1]) <= dir[i].first /\ dir[1].first <= EndOf(dir[1])
        BY <1>1, <1>2, <2>1, <3>2
      <4>2. EndOf(dir[1]) \in Nat /\ dir[i].first \in Nat
        BY <1>1, <2>1
      <4> QED BY <1>1, <2>1, <4>1, <4>2
    <3> QED BY <3>1, <3>2
  <2>3. EndOf(dir[i]) <= hi
    <3>1. CASE i = n
      BY <1>1, <2>1, <3>1
    <3>2. CASE i # n
      <4>1. EndOf(dir[i]) <= dir[n].first /\ dir[n].first <= EndOf(dir[n])
        BY <1>1, <1>2, <2>1, <3>2
      <4>2. EndOf(dir[i]) \in Nat /\ dir[n].first \in Nat
        BY <1>1, <2>1
      <4> QED BY <1>1, <2>1, <4>1, <4>2
    <3> QED BY <3>1, <3>2
  <2> QED BY <2>2, <2>3
<1> QED BY <1>2, <1>3 DEF n

\* The entries of a good part cover its records, and each locates its own.
LEMMA EntriesAre ==
    ASSUME NEW d, NEW c, NEW n, NEW log, GoodPart(d, c, n, log), d.first \in Nat, NEW p
    PROVE  /\ Linked(Entries(c, n, p), d.first, Expected(d, c, n))
           /\ \A i \in 1..Len(Entries(c, n, p)) :
                 /\ Entries(c, n, p)[i].part = p /\ Locates(c, Entries(c, n, p)[i], log)
                 /\ Entries(c, n, p)[i].pos \in 3..n
<1> DEFINE OK(k) == /\ Linked(Entries(c, k, p), d.first, Expected(d, c, k))
                    /\ \A i \in 1..Len(Entries(c, k, p)) :
                          /\ Entries(c, k, p)[i].part = p /\ Locates(c, Entries(c, k, p)[i], log)
                          /\ Entries(c, k, p)[i].pos \in 3..k
           S == {k \in 2..n : OK(k)}
<1>1. n \in Nat /\ n >= 2 /\ n <= Len(c) /\ Len(c) \in Nat /\ \A k \in 2..n : Counted(d, c, k)
  BY GoodCounted
<1>2. OK(2)
  <2>1. Entries(c, 2, p) = << >>
    BY EntriesStep
  <2>2. Counted(d, c, 2)
    BY <1>1
  <2>3. Expected(d, c, 2) = d.first
    BY <2>2, ExpectedStep
  <2>4. Linked(<< >>, d.first, d.first) /\ Len(<< >>) = 0
    BY LinkedEmpty, SeqEmpty
  <2> QED BY <2>1, <2>3, <2>4
<1>3. ASSUME NEW k \in 2..n, k < n, OK(k)
      PROVE  OK(k + 1)
  <2> DEFINE x == EntryOf(c, k + 1, p)
             old == Entries(c, k, p)
             new == Entries(c, k + 1, p)
  <2>1. k + 1 \in 3..n /\ k + 1 > 2 /\ k + 1 >= 2 /\ (k + 1) - 1 = k /\ k + 1 \in Nat
    BY <1>1, <1>3
  <2>2. new = IF c[k + 1].t = "batch" THEN Append(old, x) ELSE old
    BY <2>1, EntriesStep
  <2>3. /\ Expected(d, c, k) \in Nat /\ Expected(d, c, k + 1) \in Nat
        /\ \/ /\ c[k + 1].t = "batch" /\ c[k + 1].first = Expected(d, c, k)
              /\ Len(c[k + 1].recs) \in Nat \ {0}
              /\ Expected(d, c, k + 1) = c[k + 1].first + Len(c[k + 1].recs)
           \/ c[k + 1].t = "marker" /\ Expected(d, c, k + 1) = Expected(d, c, k)
    <3> DEFINE j == k + 1
    <3>1. j \in 3..n /\ j - 1 = k
      BY <2>1
    <3> HIDE DEF j
    <3>2. /\ Expected(d, c, j - 1) \in Nat /\ Expected(d, c, j) \in Nat
          /\ \/ /\ c[j].t = "batch" /\ c[j].first = Expected(d, c, j - 1)
                /\ Len(c[j].recs) \in Nat \ {0}
                /\ Expected(d, c, j) = c[j].first + Len(c[j].recs)
             \/ c[j].t = "marker" /\ Expected(d, c, j) = Expected(d, c, j - 1)
      BY <3>1, GoodBatches
    <3>3. /\ Expected(d, c, k) \in Nat /\ Expected(d, c, j) \in Nat
          /\ \/ /\ c[j].t = "batch" /\ c[j].first = Expected(d, c, k)
                /\ Len(c[j].recs) \in Nat \ {0}
                /\ Expected(d, c, j) = c[j].first + Len(c[j].recs)
             \/ c[j].t = "marker" /\ Expected(d, c, j) = Expected(d, c, k)
      BY <3>1, <3>2
    <3> QED BY <3>3 DEF j
  <2>4. CASE c[k + 1].t = "marker"
    <3>1. new = old /\ Expected(d, c, k + 1) = Expected(d, c, k)
      BY <2>2, <2>3, <2>4
    <3>2. \A i \in 1..Len(old) : old[i].pos \in 3..k + 1
      BY <1>1, <1>3
    <3> QED BY <1>3, <3>1, <3>2
  <2>5. CASE c[k + 1].t = "batch"
    <3>1. /\ x = Entry(c[k + 1].first, Len(c[k + 1].recs), k + 1, p)
          /\ x.first = c[k + 1].first /\ x.count = Len(c[k + 1].recs)
          /\ x.pos = k + 1 /\ x.part = p
      BY DEF EntryOf, Entry
    <3>2. /\ x.first = Expected(d, c, k) /\ x.count \in Nat \ {0}
          /\ EndOf(x) = Expected(d, c, k + 1)
      BY <2>3, <2>5, <3>1 DEF EndOf
    <3>3. k + 1 \in 3..Len(c)
      BY <1>1, <2>1
    <3>4. \A j \in 1..Len(c[k + 1].recs) : log[c[k + 1].first + j - 1] = c[k + 1].recs[j]
      BY <2>1, <2>5 DEF GoodPart
    <3>5. Locates(c, x, log)
      <4>1. x = Entry(x.first, x.count, x.pos, x.part)
        BY <3>1
      <4> HIDE DEF x
      <4> QED BY <2>3, <2>5, <3>1, <3>2, <3>3, <3>4, <4>1 DEF Locates
    <3> HIDE DEF x
    <3>6. Linked(Append(old, x), d.first, Expected(d, c, k + 1))
      BY <1>3, <3>2, LinkedAppend
    <3>7. /\ IsSeq(old) /\ Len(old) \in Nat
          /\ \A i \in 1..Len(old) : /\ old[i].part = p /\ Locates(c, old[i], log)
                                     /\ old[i].pos \in 3..k
      BY <1>3, SeqIs DEF Linked, Counts
    <3>8. new = Append(old, x)
      BY <2>2, <2>5
    <3>9. Len(new) = Len(old) + 1 /\ new[Len(old) + 1] = x /\ \A i \in 1..Len(old) : new[i] = old[i]
      BY <3>7, <3>8, SeqAppend
    <3> HIDE DEF new, old
    <3>10. ASSUME NEW i \in 1..Len(new)
           PROVE  new[i].part = p /\ Locates(c, new[i], log) /\ new[i].pos \in 3..k + 1
      <4>1. i \in 1..Len(old) \/ i = Len(old) + 1
        BY <3>7, <3>9
      <4>2. k + 1 \in 3..k + 1 /\ \A j \in 3..k : j \in 3..k + 1
        BY <1>1, <2>1
      <4> QED BY <3>1, <3>5, <3>7, <3>9, <4>1, <4>2
    <3> QED BY <3>6, <3>8, <3>10 DEF new
  <2> QED BY <2>3, <2>4, <2>5
<1> HIDE DEF OK
<1>4. 2 \in S /\ \A k \in 2..n : k < n /\ k \in S => k + 1 \in S
  <2>1. 2 \in 2..n
    BY <1>1
  <2>2. ASSUME NEW k \in 2..n, k < n, k \in S
        PROVE  k + 1 \in S
    <3>1. k + 1 \in 2..n
      BY <1>1, <2>2
    <3> QED BY <1>3, <2>2, <3>1
  <2> QED BY <1>2, <2>1, <2>2
<1> HIDE DEF S
<1>5. \A k \in 2..n : k \in S
  BY <1>1, <1>4, Induction
<1>6. n \in S
  BY <1>1, <1>5
<1>7. OK(n)
  BY <1>6 DEF S
<1> QED BY <1>7 DEF OK

---------------------------------------------------------------------------
(* Flattening.                                                             *)

\* f is the table from which FlattenSeq joins q.
Joins(f, q) ==
    /\ DOMAIN f = 1..Len(q) /\ f[1] = q[1]
    /\ \A i \in 2..Len(q) : f[i] = f[i - 1] \o q[i]
    /\ \A i \in 1..Len(q) : IsSeq(f[i])
    /\ FlattenSeq(q) = f[Len(q)]

\* FlattenSeq has its table.
LEMMA FlattenIs ==
    ASSUME NEW q, IsSeq(q), Len(q) > 0, \A i \in 1..Len(q) : IsSeq(q[i])
    PROVE  \E f : Joins(f, q)
<1> DEFINE n == Len(q)
           F(f) == [i \in 1..n |-> IF i = 1 THEN q[i] ELSE f[i - 1] \o q[i]]
           flat == CHOOSE f : f = F(f)
           E == UNION {ToSet(q[i]) : i \in 1..n}
           S == Seq(E)
<1>1. n \in Nat /\ n >= 1 /\ 1 \in Nat
  BY SeqIs
<1>2. \A i \in 1..n : q[i] \in S
  <2> SUFFICES ASSUME NEW i \in 1..n
               PROVE  q[i] \in Seq(E)
    OBVIOUS
  <2>1. IsSeq(q[i])
    OBVIOUS
  <2>2. DOMAIN q[i] = 1..Len(q[i])
    BY <2>1, SeqIs
  <2>3. \A j \in 1..Len(q[i]) : q[i][j] \in E
    BY <2>2 DEF ToSet
  <2> HIDE DEF E, n
  <2> QED BY <2>1, <2>3, SeqIn
<1>3. \A x, y \in S : x \o y \in S
  <2> HIDE DEF E
  <2> QED OBVIOUS
<1> HIDE DEF S, E, n
<1>4. \E f : f \in [1..n -> S] /\ f = F(f)
  <2> DEFINE g == [z \in (1..n) \X S |-> z[2] \o q[z[1]]]
  <2>1. ASSUME NEW z \in (1..n) \X S
        PROVE  z[2] \o q[z[1]] \in S
    <3>1. z[1] \in 1..n /\ z[2] \in S
      OBVIOUS
    <3> QED BY <1>2, <1>3, <3>1
  <2>2. g \in [(1..n) \X S -> S]
    BY <2>1
  <2>3. ASSUME NEW k \in 1..n, NEW y \in S
        PROVE  g[<<k, y>>] = y \o q[k]
    <3>1. <<k, y>> \in (1..n) \X S /\ <<k, y>>[1] = k /\ <<k, y>>[2] = y
      OBVIOUS
    <3> QED BY <3>1
  <2> HIDE DEF g
  <2>4. PICK f : Computes(f, S, 1, n, q[1], g)
    <3>1. q[1] \in S
      BY <1>1, <1>2
    <3>2. Steps(S, 1, n, q[1], g)
      BY <1>1, <2>2, <3>1 DEF Steps
    <3> QED BY <3>2, Recursion
  <2>5. f \in [1..n -> S]
    BY <2>4 DEF Computes
  <2>6. ASSUME NEW k \in 1..n
        PROVE  f[k] = F(f)[k]
    <3>1. CASE k = 1
      BY <2>4, <3>1 DEF Computes
    <3>2. CASE k # 1
      <4>1. k - 1 \in 1..n
        BY <1>1, <3>2
      <4>2. f[k] = g[<<k, f[k - 1]>>] /\ f[k - 1] \in S
        BY <2>4, <2>5, <3>2, <4>1 DEF Computes
      <4>3. f[k] = f[k - 1] \o q[k]
        BY <2>3, <4>2
      <4> QED BY <3>2, <4>3
    <3> QED BY <3>1, <3>2
  <2>7. f = F(f)
    BY <2>5, <2>6
  <2> QED BY <2>5, <2>7
<1>5. flat = F(flat)
  BY <1>4
<1>6. FlattenSeq(q) = flat[n]
  <2>1. Len(q) # 0
    BY <1>1 DEF n
  <2> QED BY <2>1 DEF FlattenSeq, n
<1> DEFINE G(f) == DOMAIN f = 1..n /\ \A i \in 1..n : f[i] = IF i = 1 THEN q[i] ELSE f[i - 1] \o q[i]
<1>7. \A f : f = F(f) => G(f)
  OBVIOUS
<1> HIDE DEF F, flat
<1>8. G(flat)
  BY <1>5, <1>7
<1>9. flat[1] = q[1] /\ \A i \in 2..n : flat[i] = flat[i - 1] \o q[i]
  <2>1. 1 \in 1..n /\ \A i \in 2..n : i \in 1..n /\ i # 1
    BY <1>1
  <2> QED BY <1>8, <2>1
<1>10. \A i \in 1..n : IsSeq(flat[i])
  <2> DEFINE T == {k \in 1..n : IsSeq(flat[k])}
  <2>1. 1 \in T
    BY <1>1, <1>9 DEF n
  <2>2. ASSUME NEW k \in 1..n, k < n, k \in T
        PROVE  k + 1 \in T
    <3>1. k + 1 \in 2..n /\ (k + 1) - 1 = k /\ k + 1 \in 1..n /\ IsSeq(flat[k])
      BY <1>1, <2>2
    <3>2. flat[k + 1] = flat[k] \o q[k + 1] /\ IsSeq(q[k + 1])
      BY <1>9, <3>1 DEF n
    <3>3. IsSeq(flat[k] \o q[k + 1])
      BY <3>1, <3>2, SeqCat
    <3>4. IsSeq(flat[k + 1])
      BY <3>2, <3>3
    <3> QED BY <3>1, <3>4
  <2> HIDE DEF T
  <2>3. \A k \in 1..n : k \in T
    BY <1>1, <2>1, <2>2, Induction
  <2> QED BY <2>3 DEF T
<1> QED BY <1>6, <1>8, <1>9, <1>10 DEF Joins, n

---------------------------------------------------------------------------
(* Looking up an index.                                                    *)

\* The midpoint of the binary search halves a nonempty range.
LEMMA Middle ==
    ASSUME NEW n \in Nat, NEW lo \in 1..n + 1, NEW hi \in 1..n + 1, lo < hi
    PROVE  LET mid == lo + (hi - lo) \div 2
           IN /\ mid \in 1..n /\ mid \in 1..n + 1 /\ mid + 1 \in 1..n + 1
              /\ lo <= mid /\ mid < hi
              /\ mid - lo < hi - lo /\ hi - (mid + 1) < hi - lo
OBVIOUS

\* One step of the binary search with function f for the halves.
Halving(f, dir, i, lo, hi) ==
    IF lo >= hi THEN 0
    ELSE LET mid == lo + (hi - lo) \div 2
         IN IF i < dir[mid].first THEN f[lo, mid]
            ELSE IF i >= dir[mid].first + dir[mid].count
                 THEN f[mid + 1, hi]
                 ELSE mid

\* f tabulates the binary search over every range.
Halves(f, dir, i) ==
    LET D == 1..Len(dir) + 1
    IN \A lo, hi \in D : f[lo, hi] = Halving(f, dir, i, lo, hi)

\* The binary search has its table: every call shortens the range.
LEMMA HalvesExist ==
    ASSUME NEW dir, NEW i, Len(dir) \in Nat
    PROVE  \E f \in [(1..Len(dir) + 1) \X (1..Len(dir) + 1) -> Nat] : Halves(f, dir, i)
<1> DEFINE N == Len(dir)
           D == 1..N + 1
           V == [D \X D -> Nat]
           OK(f, n) == \A lo, hi \in D : hi - lo <= n => f[lo, hi] = Halving(f, dir, i, lo, hi)
           S == {n \in 0..N + 1 : \E f \in V : OK(f, n)}
<1>0. N \in Nat
  OBVIOUS
<1> HIDE DEF N
<1>1. 0 \in S
  <2> DEFINE z == [p \in D \X D |-> 0]
  <2>1. z \in V
    OBVIOUS
  <2>2. ASSUME NEW lo \in D, NEW hi \in D, hi - lo <= 0
        PROVE  z[lo, hi] = Halving(z, dir, i, lo, hi)
    <3>1. lo >= hi
      BY <2>2, <1>0
    <3>2. z[lo, hi] = 0
      OBVIOUS
    <3> HIDE DEF z
    <3> QED BY <3>1, <3>2 DEF Halving
  <2>3. OK(z, 0)
    <3> HIDE DEF z
    <3> QED BY <2>2, Zenon
  <2>4. 0 \in 0..N + 1
    BY <1>0
  <2> HIDE DEF z, V, OK
  <2> QED BY <2>1, <2>3, <2>4
<1>2. ASSUME NEW n \in 0..N + 1, n < N + 1, n \in S
      PROVE  n + 1 \in S
  <2>1. PICK f \in V : OK(f, n)
    BY <1>2
  <2> DEFINE g == [p \in D \X D |-> IF p[2] - p[1] <= n THEN f[p]
                                    ELSE Halving(f, dir, i, p[1], p[2])]
  <2>2. ASSUME NEW lo \in D, NEW hi \in D
        PROVE  /\ Halving(f, dir, i, lo, hi) \in Nat
               /\ hi - lo <= n + 1 => Halving(g, dir, i, lo, hi) = Halving(f, dir, i, lo, hi)
    <3> DEFINE mid == lo + (hi - lo) \div 2
    <3>1. CASE lo >= hi
      BY <3>1 DEF Halving
    <3>2. CASE lo < hi
      <4>1. /\ mid \in 1..N /\ mid \in D /\ mid + 1 \in D
            /\ mid - lo < hi - lo /\ hi - (mid + 1) < hi - lo
        BY <1>0, <3>2, Middle
      <4>2. mid \in Nat /\ ~(lo >= hi)
        BY <3>2, <4>1
      <4> HIDE DEF mid
      <4>3. f[lo, mid] \in Nat /\ f[mid + 1, hi] \in Nat
        BY <4>1
      <4>4. ASSUME hi - lo <= n + 1
            PROVE  g[lo, mid] = f[lo, mid] /\ g[mid + 1, hi] = f[mid + 1, hi]
        <5>1. mid - lo <= n /\ hi - (mid + 1) <= n
          BY <4>1, <4>2, <4>4
        <5> QED BY <4>1, <5>1
      <4> HIDE DEF g
      <4>5. /\ Halving(f, dir, i, lo, hi) = IF i < dir[mid].first THEN f[lo, mid]
                      ELSE IF i >= dir[mid].first + dir[mid].count THEN f[mid + 1, hi] ELSE mid
            /\ Halving(g, dir, i, lo, hi) = IF i < dir[mid].first THEN g[lo, mid]
                      ELSE IF i >= dir[mid].first + dir[mid].count THEN g[mid + 1, hi] ELSE mid
        BY <4>2 DEF Halving, mid
      <4>6. CASE i < dir[mid].first
        BY <4>3, <4>4, <4>5, <4>6
      <4>7. CASE ~(i < dir[mid].first) /\ i >= dir[mid].first + dir[mid].count
        BY <4>3, <4>4, <4>5, <4>7
      <4>8. CASE ~(i < dir[mid].first) /\ ~(i >= dir[mid].first + dir[mid].count)
        BY <4>2, <4>5, <4>8
      <4> QED BY <4>6, <4>7, <4>8
    <3> QED BY <1>0, <3>1, <3>2
  <2>3. g \in V
    <3>1. ASSUME NEW p \in D \X D
          PROVE  (IF p[2] - p[1] <= n THEN f[p] ELSE Halving(f, dir, i, p[1], p[2])) \in Nat
      <4>1. p[1] \in D /\ p[2] \in D /\ f[p] \in Nat
        OBVIOUS
      <4> QED BY <2>2, <4>1
    <3> QED BY <3>1
  <2>4. ASSUME NEW lo \in D, NEW hi \in D, hi - lo <= n + 1
        PROVE  g[lo, hi] = Halving(g, dir, i, lo, hi)
    <3>1. <<lo, hi>> \in D \X D /\ <<lo, hi>>[1] = lo /\ <<lo, hi>>[2] = hi
      OBVIOUS
    <3>2. g[lo, hi] = IF hi - lo <= n THEN f[lo, hi] ELSE Halving(f, dir, i, lo, hi)
      BY <3>1
    <3>3. hi - lo <= n => f[lo, hi] = Halving(f, dir, i, lo, hi)
      BY <2>1
    <3>4. Halving(g, dir, i, lo, hi) = Halving(f, dir, i, lo, hi)
      BY <2>2, <2>4
    <3> HIDE DEF g
    <3> QED BY <3>2, <3>3, <3>4
  <2>5. OK(g, n + 1)
    <3> HIDE DEF g
    <3> QED BY <2>4
  <2> HIDE DEF g, V, OK, S
  <2>6. n + 1 \in 0..N + 1
    <3>1. n \in Nat /\ n < N + 1
      BY <1>0, <1>2
    <3> QED BY <1>0, <3>1
  <2> QED BY <2>3, <2>5, <2>6 DEF S
<1> HIDE DEF S
<1>3. \A n \in 0..N + 1 : n \in S
  <2>1. 0 \in Nat /\ N + 1 \in Nat
    BY <1>0
  <2> QED BY <1>1, <1>2, <2>1, Induction
<1>4. N + 1 \in S
  BY <1>0, <1>3
<1>5. PICK f \in V : OK(f, N + 1)
  BY <1>4 DEF S
<1>6. \A lo, hi \in D : hi - lo <= N + 1
  BY <1>0
<1>7. \A lo, hi \in D : f[lo, hi] = Halving(f, dir, i, lo, hi)
  BY <1>5, <1>6
<1> QED BY <1>7 DEF Halves, N

\* The entry of an index is found.
LEMMA HalvesFind ==
    ASSUME NEW dir, NEW lo0, NEW hi0, Linked(dir, lo0, hi0), NEW e \in 1..Len(dir),
           NEW i \in Nat, dir[e].first <= i, i < EndOf(dir[e]),
           NEW f, Halves(f, dir, i)
    PROVE  f[1, Len(dir) + 1] = e
<1> DEFINE N == Len(dir)
           D == 1..N + 1
           OK(n) == \A lo, hi \in D : hi - lo <= n /\ lo <= e /\ e < hi => f[lo, hi] = e
           S == {n \in 0..N : OK(n)}
<1>0. /\ N \in Nat /\ e \in 1..N
      /\ \A j \in 1..N : dir[j].first \in Nat /\ EndOf(dir[j]) \in Nat
      /\ \A j \in 1..N : dir[j].first + dir[j].count = EndOf(dir[j])
  <2>1. N \in Nat /\ \A j \in 1..N : dir[j].first \in Nat /\ dir[j].count \in Nat
    BY SeqIs DEF Linked, Counts
  <2> QED BY <2>1 DEF EndOf
<1>1. \A j, k \in 1..N : j < k => EndOf(dir[j]) <= dir[k].first
  BY LinkedRange
<1>2. \A j \in 1..N : /\ j < e => EndOf(dir[j]) <= i
                      /\ e < j => i < dir[j].first
  <2> SUFFICES ASSUME NEW j \in 1..N
               PROVE  /\ j < e => EndOf(dir[j]) <= i
                      /\ e < j => i < dir[j].first
    OBVIOUS
  <2>1. j < e => EndOf(dir[j]) <= dir[e].first
    BY <1>0, <1>1
  <2>2. e < j => EndOf(dir[e]) <= dir[j].first
    BY <1>0, <1>1
  <2>3. EndOf(dir[j]) \in Nat /\ dir[e].first \in Nat /\ EndOf(dir[e]) \in Nat /\ dir[j].first \in Nat
    BY <1>0
  <2> QED BY <2>1, <2>2, <2>3
<1>3. \A lo, hi \in D : f[lo, hi] = Halving(f, dir, i, lo, hi)
  BY DEF Halves
<1> HIDE DEF N
<1>4. 0 \in S
  <2>1. OK(0)
    <3> SUFFICES ASSUME NEW lo \in D, NEW hi \in D, hi - lo <= 0, lo <= e, e < hi
                 PROVE  FALSE
      OBVIOUS
    <3>1. lo \in Nat /\ hi \in Nat /\ e \in Nat
      BY <1>0
    <3> QED BY <3>1
  <2> HIDE DEF OK
  <2> QED BY <1>0, <2>1
<1>5. ASSUME NEW n \in 0..N, n < N, n \in S
      PROVE  n + 1 \in S
  <2>1. OK(n)
    BY <1>5
  <2>2. ASSUME NEW lo \in D, NEW hi \in D, hi - lo <= n + 1, lo <= e, e < hi
        PROVE  f[lo, hi] = e
    <3> DEFINE mid == lo + (hi - lo) \div 2
    <3>1. lo < hi
      BY <1>0, <2>2
    <3>2. /\ mid \in 1..N /\ mid \in D /\ mid + 1 \in D /\ lo <= mid /\ mid < hi
          /\ mid - lo < hi - lo /\ hi - (mid + 1) < hi - lo
      BY <1>0, <3>1, Middle
    <3>3. ~(lo >= hi)
      BY <1>0, <3>1
    <3>4. f[lo, hi] = IF i < dir[mid].first THEN f[lo, mid]
                      ELSE IF i >= dir[mid].first + dir[mid].count THEN f[mid + 1, hi] ELSE mid
      BY <1>3, <3>3 DEF Halving
    <3> HIDE DEF mid
    <3>5. mid - lo <= n /\ hi - (mid + 1) <= n
      <4>1. n \in Nat /\ mid \in Nat /\ lo \in Nat /\ hi \in Nat
        BY <1>0, <3>2
      <4> HIDE DEF OK, S
      <4> QED BY <2>2, <3>2, <4>1
    <3>10. mid \in Nat /\ e \in Nat
      BY <1>0, <3>2
    <3>6. dir[mid].first + dir[mid].count = EndOf(dir[mid]) /\ EndOf(dir[mid]) \in Nat
          /\ dir[mid].first \in Nat /\ mid \in Nat /\ e \in Nat
      BY <1>0, <3>2, <3>10
    <3>7. CASE mid = e
      <4>1. ~(i < dir[mid].first) /\ ~(i >= dir[mid].first + dir[mid].count)
        BY <3>6, <3>7
      <4> QED BY <3>4, <3>7, <4>1
    <3>8. CASE mid < e
      <4>1. EndOf(dir[mid]) <= i
        BY <1>2, <3>2, <3>8
      <4>2. dir[mid].first <= EndOf(dir[mid])
        <5>1. dir[mid].count \in Nat
          BY <3>2 DEF Linked, Counts, N
        <5> QED BY <3>6, <5>1
      <4>3. ~(i < dir[mid].first) /\ i >= dir[mid].first + dir[mid].count
        BY <3>6, <4>1, <4>2
      <4>4. f[lo, hi] = f[mid + 1, hi]
        BY <3>4, <4>3
      <4>5. mid + 1 <= e
        BY <3>6, <3>8
      <4>6. f[mid + 1, hi] = e
        <5> DEFINE x == mid + 1
        <5>1. x \in D /\ hi \in D /\ hi - x <= n /\ x <= e /\ e < hi
          BY <2>2, <3>2, <3>5, <4>5
        <5> HIDE DEF x
        <5>2. f[x, hi] = e
          BY <2>1, <5>1
        <5> QED BY <5>2 DEF x
      <4> QED BY <4>4, <4>6
    <3>9. CASE e < mid
      <4>1. i < dir[mid].first
        BY <1>2, <3>2, <3>9
      <4>2. f[lo, hi] = f[lo, mid]
        BY <3>4, <4>1
      <4>3. f[lo, mid] = e
        BY <2>1, <2>2, <3>2, <3>5, <3>9
      <4> QED BY <4>2, <4>3
    <3>11. mid = e \/ mid < e \/ e < mid
      BY <3>10
    <3> QED BY <3>7, <3>8, <3>9, <3>11
  <2>3. OK(n + 1)
    BY <2>2
  <2> HIDE DEF OK, S
  <2>4. n + 1 \in 0..N
    <3>1. n \in Nat /\ n < N
      BY <1>0, <1>5
    <3> QED BY <1>0, <3>1
  <2> QED BY <2>3, <2>4 DEF S
<1> HIDE DEF S
<1>6. \A n \in 0..N : n \in S
  <2>1. 0 \in Nat
    OBVIOUS
  <2> QED BY <1>0, <1>4, <1>5, <2>1, Induction
<1>7. OK(N)
  <2>1. N \in S
    BY <1>0, <1>6
  <2> QED BY <2>1 DEF S
<1>8. 1 \in D /\ N + 1 \in D /\ (N + 1) - 1 <= N /\ 1 <= e /\ e < N + 1
  BY <1>0
<1> QED BY <1>7, <1>8 DEF N

\* The binary search finds the entry that holds index i.
LEMMA DirFindIs ==
    ASSUME NEW dir, NEW lo, NEW hi, Linked(dir, lo, hi), NEW e \in 1..Len(dir),
           NEW i \in Nat, dir[e].first <= i, i < EndOf(dir[e])
    PROVE  DirFind(dir, i) = e
<1> DEFINE D == 1..Len(dir) + 1
           F(f) == [w \in D \X D |->
                       LET l == w[1]
                           u == w[2]
                           mid == l + (u - l) \div 2
                       IN IF l >= u THEN 0
                          ELSE IF i < dir[mid].first THEN f[<<l, mid>>]
                          ELSE IF i >= dir[mid].first + dir[mid].count
                               THEN f[<<mid + 1, u>>]
                          ELSE mid]
           half == CHOOSE f : f = F(f)
<1>1. DirFind(dir, i) = half[1, Len(dir) + 1]
  BY DEF DirFind
<1>9. ASSUME NEW f, NEW l \in D, NEW u \in D
      PROVE  F(f)[l, u] = Halving(f, dir, i, l, u)
  BY DEF Halving
<1>10. ASSUME NEW f
       PROVE  F(f) = [p \in D \X D |-> F(f)[p]]
  OBVIOUS
<1> HIDE DEF F
<1>2. \A f : f = F(f) => Halves(f, dir, i)
  <2> SUFFICES ASSUME NEW f, f = F(f)
               PROVE  Halves(f, dir, i)
    OBVIOUS
  <2>1. ASSUME NEW l \in D, NEW u \in D
        PROVE  f[l, u] = Halving(f, dir, i, l, u)
    <3>1. F(f)[l, u] = Halving(f, dir, i, l, u)
      BY <1>9
    <3> QED BY <3>1
  <2> QED BY <2>1 DEF Halves
<1>3. \A f \in [D \X D -> Nat] : Halves(f, dir, i) => f = F(f)
  <2> SUFFICES ASSUME NEW f \in [D \X D -> Nat], Halves(f, dir, i)
               PROVE  f = F(f)
    OBVIOUS
  <2>1. ASSUME NEW p \in D \X D
        PROVE  F(f)[p] = f[p]
    <3>1. PICK l \in D, u \in D : p = <<l, u>>
      OBVIOUS
    <3>2. F(f)[l, u] = Halving(f, dir, i, l, u)
      BY <1>9
    <3>3. f[l, u] = Halving(f, dir, i, l, u)
      BY DEF Halves
    <3> QED BY <3>1, <3>2, <3>3
  <2>2. F(f) = [p \in D \X D |-> F(f)[p]]
    BY <1>10
  <2>3. f = [p \in D \X D |-> f[p]]
    OBVIOUS
  <2> DEFINE X == F(f)
  <2> HIDE DEF X
  <2>4. [p \in D \X D |-> X[p]] = [p \in D \X D |-> f[p]]
    BY <2>1 DEF X
  <2> QED BY <2>2, <2>3, <2>4 DEF X
<1>4. Len(dir) \in Nat
  BY SeqIs DEF Linked, Counts
<1>5. \E f : f = F(f)
  <2>1. PICK f \in [D \X D -> Nat] : Halves(f, dir, i)
    BY <1>4, HalvesExist
  <2> HIDE DEF F
  <2> QED BY <1>3, <2>1
<1> HIDE DEF F
<1>6. half = F(half)
  BY <1>5
<1> HIDE DEF half
<1>7. Halves(half, dir, i)
  BY <1>2, <1>6
<1>8. half[1, Len(dir) + 1] = e
  BY <1>7, HalvesFind
<1> QED BY <1>1, <1>8

\* An index of the directory lies in one of its entries.
LEMMA LinkedHas ==
    ASSUME NEW dir, NEW lo, NEW hi, Linked(dir, lo, hi), NEW i \in lo..hi - 1
    PROVE  \E e \in 1..Len(dir) : dir[e].first <= i /\ i < EndOf(dir[e])
<1> DEFINE N == Len(dir)
           S == {k \in 1..N : dir[k].first <= i}
<1>0. /\ N \in Nat /\ lo \in Nat /\ hi \in Nat /\ lo <= i /\ i < hi /\ i \in Nat
      /\ \A j \in 1..N : dir[j].first \in Nat /\ EndOf(dir[j]) \in Nat
  <2>1. N \in Nat /\ lo \in Nat /\ hi \in Nat
        /\ \A j \in 1..N : dir[j].first \in Nat /\ dir[j].count \in Nat
    BY SeqIs DEF Linked, Counts
  <2> QED BY <2>1 DEF EndOf
<1>1. N > 0 /\ dir[1].first = lo /\ EndOf(dir[N]) = hi
  <2>1. N # 0
    BY <1>0 DEF Linked
  <2> QED BY <1>0, <2>1 DEF Linked
<1>2. S \subseteq 0..N /\ S # {}
  <2>1. 1 \in S
    BY <1>0, <1>1
  <2> QED BY <2>1
<1> DEFINE e == Max(S)
<1>3. e \in S /\ \A x \in S : x <= e
  <2> HIDE DEF S
  <2> QED BY <1>0, <1>2, MaxOf
<1> HIDE DEF e
<1>4. e \in 1..N /\ dir[e].first <= i
  BY <1>3
<1>5. i < EndOf(dir[e])
  <2>1. CASE e = N
    BY <1>0, <1>1, <2>1
  <2>2. CASE e # N
    <3>1. e \in 1..N - 1 /\ e + 1 \in 1..N /\ ~(e + 1 <= e)
      BY <1>0, <1>4, <2>2
    <3>2. ~(dir[e + 1].first <= i)
      BY <1>3, <3>1
    <3>3. dir[e + 1].first = EndOf(dir[e])
      BY <3>1 DEF Linked
    <3> QED BY <1>0, <1>4, <3>2, <3>3
  <2> QED BY <2>1, <2>2
<1> QED BY <1>4, <1>5

---------------------------------------------------------------------------
(* What the tables of a directory lead to.                                 *)

\* Every table that a power loss may leave leads to one of the logs S.
Safe(F, ds, S) ==
    /\ IsSeq(ds) /\ Len(ds) > 0
    /\ \A s \in S : IsLog(s)
    /\ \A k \in 1..Len(ds) : IsTable(ds[k]) /\ \E s \in S : Leads(F, ds[k], s)

\* All of them lead through generation g to log s.
AllLead(F, ds, g, s) ==
    /\ IsSeq(ds) /\ Len(ds) > 0 /\ IsLog(s)
    /\ \A k \in 1..Len(ds) : IsTable(ds[k]) /\ ds[k].cur = g /\ Leads(F, ds[k], s)

\* The cuts of every log of a set.
CutsOf(S) == UNION {Log!Cuts(s) : s \in S}

\* The directory of a ledger that nobody has open.
Closed(F, ds, S) ==
    /\ \A s \in S : IsLog(s)
    /\ \E s \in CutsOf(S) : IsSettled(s) /\ AllLead(F, ds, Last(ds).cur, s)

\* Tables that all lead to one acceptable log are safe.
LEMMA AllLeadSafe ==
    ASSUME NEW F, NEW ds, NEW g, NEW s, AllLead(F, ds, g, s), NEW S, s \in S,
           \A t \in S : IsLog(t)
    PROVE  Safe(F, ds, S)
BY DEF AllLead, Safe

\* A power loss leaves a directory that leads to a cut of one of the logs.
LEMMA LossCloses ==
    ASSUME NEW F, NEW ds, NEW S, Safe(F, ds, S), NEW G, NEW es, Loses(F, ds, G, es)
    PROVE  Closed(G, es, S)
<1>1. PICK d \in ToSet(ds) :
        /\ es = <<d>>
        /\ \A f \in DOMAIN F : HasName(d, f) =>
              /\ f \in DOMAIN G
              /\ G[f].hard = G[f].live /\ G[f].live \in Survivors(F[f])
  BY DEF Loses
<1>2. PICK i \in 1..Len(ds) : d = ds[i]
  <2>1. DOMAIN ds = 1..Len(ds)
    BY SeqIs DEF Safe
  <2> QED BY <2>1 DEF ToSet
<1>3. PICK s \in S : IsLog(s) /\ IsTable(d) /\ Leads(F, d, s)
  BY <1>2 DEF Safe
<1>4. PICK k \in s.stable..Len(s.log) + 1 : Leads(G, d, CutAt(s, k))
  BY <1>1, <1>3, LossLeads
<1> DEFINE t == CutAt(s, k)
<1>5. t \in Log!Cuts(s) /\ IsLog(t) /\ IsSettled(t)
  BY <1>3, CutIs
<1>6. Leads(G, d, t)
  BY <1>4
<1> HIDE DEF t
<1>7. IsSeq(es) /\ Len(es) = 1 /\ es[1] = d
  BY <1>1, SeqOne
<1>8. Last(es) = d
  BY <1>7 DEF Last
<1>9. AllLead(G, es, d.cur, t)
  BY <1>3, <1>5, <1>6, <1>7 DEF AllLead
<1>10. t \in CutsOf(S)
  BY <1>3, <1>5 DEF CutsOf
<1> QED BY <1>5, <1>8, <1>9, <1>10 DEF Closed, Safe

---------------------------------------------------------------------------
(* Recovery.                                                               *)

\* Reading a file by its current name gives its live content.
LEMMA ReadIs ==
    ASSUME NEW f, HasName(Names, f)
    PROVE  Read(f) = file[f].live
BY DEF Read

\* The table the process sees leads where all the tables lead.
LEMMA NamesIs ==
    ASSUME NEW g, NEW s, AllLead(file, dirs, g, s)
    PROVE  IsTable(Names) /\ Names.cur = g /\ Leads(file, Names, s)
<1>1. Len(dirs) \in Nat
  BY SeqIs DEF AllLead
<1>2. Len(dirs) \in 1..Len(dirs)
  BY <1>1 DEF AllLead
<1> QED BY <1>2 DEF Names, Last, AllLead

\* CURRENT leads to its manifest and the parts of it pass their scans.
LEMMA RecoveredIs ==
    ASSUME NEW g, NEW s, AllLead(file, dirs, g, s), g # 0
    PROVE  Recovered = {ManifestAt(file, g)}
<1> DEFINE m == ManifestAt(file, g)
<1>1. LeadsTo(file, Names, m, s) /\ Names.cur = g /\ IsLog(s)
  BY NamesIs, LeadsIs DEF AllLead
<1> HIDE DEF m
<1>2. Read(Cur(g)) = <<Current(g)>>
  <2>1. HasName(Names, Cur(g))
    BY <1>1, Named
  <2> QED BY <1>1, <2>1, ReadIs DEF LeadsTo
<1>3. Read(Man(g)) = <<m>> /\ m.gen = g /\ Ready(file, Names, m, s)
  <2>1. HasName(Names, Man(g))
    BY <1>1, Named DEF LeadsTo
  <2> QED BY <1>1, <2>1, ReadIs DEF LeadsTo
<1>4. <<Current(g)>>[1].gen = g /\ IsCurrent(<<Current(g)>>)
  BY DEF Current, IsCurrent
<1>5. IsManifest(<<m>>, g)
  BY <1>3 DEF IsManifest, Ready, GoodManifest
<1>6. Recoverable(m)
  <2>1. GoodManifest(m)
    BY <1>3 DEF Ready
  <2>2. ASSUME NEW i \in 1..Len(m.sealed)
        PROVE  ScanSealed(m.sealed[i], Read(Part(m.sealed[i].id)))
    <3>1. m.sealed[i].id \in Names.part
      BY <1>3 DEF Ready, Referenced
    <3>2. HasName(Names, Part(m.sealed[i].id))
      BY <3>1, Named
    <3>3. GoodSealed(m.sealed[i], file[Part(m.sealed[i].id)].live, s.log)
      BY <1>3 DEF Ready
    <3> QED BY <3>2, <3>3, ReadIs DEF GoodSealed
  <2>3. ScanActive(m.active, Read(Part(m.active.id)), m.rev)
    <3>1. m.active.id \in Names.part
      BY <1>3 DEF Ready, Referenced
    <3>2. HasName(Names, Part(m.active.id))
      BY <3>1, Named
    <3> DEFINE c == file[Part(m.active.id)].live
    <3>3. GoodActive(m.active, m.rev, c, s)
      BY <1>3, SafeIs DEF Ready
    <3>4. m.active.first \in Nat
      BY <1>1, <1>3, LogIs, ReadyChain
    <3> HIDE DEF c
    <3>5. PICK k : ActiveUpTo(m.active, m.rev, c, k, s)
      BY <3>3, ActivePick
    <3>6. ScanActive(m.active, c, m.rev)
      BY <3>4, <3>5, ActiveIs
    <3> QED BY <3>2, <3>6, ReadIs DEF c
  <2> QED BY <2>2, <2>3 DEF Recoverable
<1> QED BY <1>1, <1>2, <1>3, <1>4, <1>5, <1>6 DEF Recovered, m

---------------------------------------------------------------------------
(* The handle that recovery makes.                                         *)

\* Nothing joined is empty.
LEMMA FlattenNone ==
    FlattenSeq(<< >>) = << >>
BY DEF FlattenSeq

\* Directories that follow one another, joined.
LEMMA JoinLinked ==
    ASSUME NEW q, IsSeq(q), Len(q) > 0, NEW b,
           \A i \in 1..Len(q) : Linked(q[i], b[i], b[i + 1])
    PROVE  /\ Linked(FlattenSeq(q), b[1], b[Len(q) + 1])
           /\ \A j \in 1..Len(FlattenSeq(q)) :
                 \E i \in 1..Len(q) : \E l \in 1..Len(q[i]) : FlattenSeq(q)[j] = q[i][l]
<1> DEFINE n == Len(q)
<1>1. n \in Nat /\ 1 \in Nat /\ \A i \in 1..n : IsSeq(q[i])
  BY SeqIs DEF Linked, Counts
<1>2. PICK f : Joins(f, q)
  BY <1>1, FlattenIs
<1> DEFINE From(x) == \E i \in 1..n : \E l \in 1..Len(q[i]) : x = q[i][l]
           OK(i) == /\ Linked(f[i], b[1], b[i + 1])
                    /\ \A j \in 1..Len(f[i]) : From(f[i][j])
           S == {i \in 1..n : OK(i)}
<1>3. 1 \in S
  <2>1. f[1] = q[1] /\ 1 \in 1..n
    BY <1>1, <1>2 DEF Joins
  <2> QED BY <2>1
<1>4. ASSUME NEW i \in 1..n, i < n, i \in S
      PROVE  i + 1 \in S
  <2> DEFINE k == i + 1
  <2>1. k \in 1..n /\ k \in 2..n /\ k - 1 = i /\ i \in Nat
    BY <1>1, <1>4
  <2>2. OK(i)
    BY <1>4
  <2> HIDE DEF k
  <2>3. f[k] = f[i] \o q[k] /\ IsSeq(f[i]) /\ IsSeq(q[k])
    BY <1>1, <1>2, <2>1 DEF Joins
  <2>4. Linked(f[i], b[1], b[k]) /\ Linked(q[k], b[k], b[k + 1])
    BY <2>1, <2>2 DEF k
  <2>5. Linked(f[k], b[1], b[k + 1])
    BY <2>3, <2>4, LinkedCat
  <2>6. ASSUME NEW j \in 1..Len(f[k])
        PROVE  From(f[k][j])
    <3> DEFINE a == Len(f[i])
               c == Len(q[k])
    <3> DEFINE y == f[i]
               z == q[k]
    <3>0. IsSeq(y) /\ IsSeq(z)
      BY <2>3
    <3> HIDE DEF y, z
    <3>4. /\ Len(y \o z) = Len(y) + Len(z) /\ Len(y) \in Nat /\ Len(z) \in Nat
          /\ \A x \in 1..Len(y) : (y \o z)[x] = y[x]
          /\ \A x \in 1..Len(z) : (y \o z)[Len(y) + x] = z[x]
      BY <3>0, SeqCat, SeqIs
    <3>5. f[k] = y \o z
      BY <2>3 DEF y, z
    <3>6. /\ Len(f[k]) = Len(y) + Len(z)
          /\ \A x \in 1..Len(y) : f[k][x] = y[x]
          /\ \A x \in 1..Len(z) : f[k][Len(y) + x] = z[x]
      BY <3>4, <3>5
    <3>1. /\ Len(f[k]) = a + c /\ a \in Nat /\ c \in Nat
          /\ \A x \in 1..a : f[k][x] = f[i][x]
          /\ \A x \in 1..c : f[k][a + x] = q[k][x]
      BY <3>4, <3>6 DEF y, z
    <3>2. CASE j <= a
      <4>1. j \in 1..a
        BY <3>1, <3>2
      <4> QED BY <2>2, <3>1, <4>1
    <3>3. CASE j > a
      <4> DEFINE x == j - a
      <4>1. x \in 1..c /\ a + x = j
        <5>1. j \in 1..a + c
          BY <3>1
        <5> HIDE DEF a, c
        <5> QED BY <3>1, <3>3, <5>1
      <4> HIDE DEF x, a
      <4>2. f[k][j] = q[k][x]
        BY <3>1, <4>1
      <4> QED BY <2>1, <4>1, <4>2
    <3> QED BY <3>1, <3>2, <3>3
  <2>7. OK(k)
    BY <2>5, <2>6
  <2> QED BY <2>1, <2>7 DEF k
<1> HIDE DEF S
<1>5. \A i \in 1..n : i \in S
  <2>1. 1 \in 1..n
    BY <1>1
  <2> HIDE DEF n
  <2> QED BY <1>1, <1>3, <1>4, Induction
<1>6. OK(n)
  <2>1. n \in S
    BY <1>1, <1>5
  <2> QED BY <2>1 DEF S
<1>7. f[n] = FlattenSeq(q)
  BY <1>2 DEF Joins
<1> QED BY <1>6, <1>7

\* Handle hd finds the records of the log in the files of table d.
Finds(F, d, hd, log) ==
    /\ IsSeq(hd.parts)
    /\ \A p \in 1..Len(hd.parts) :
          hd.parts[p].id \in d.part /\ Part(hd.parts[p].id) \in DOMAIN F
    /\ Linked(hd.dir, hd.first, hd.end)
    /\ \A i \in 1..Len(hd.dir) :
          /\ hd.dir[i].part \in 1..Len(hd.parts)
          /\ Locates(F[Part(hd.parts[hd.dir[i].part].id)].live, hd.dir[i], log)

\* Entry e of the directory lies in the range of its part.
Within(parts, e) ==
    /\ e.part \in 1..Len(parts)
    /\ parts[e.part].first <= e.first
    /\ e.part < Len(parts) => EndOf(e) <= parts[e.part].end

\* Every entry of the handle's directory lies within the part it names.
InRange(hd) == \A i \in 1..Len(hd.dir) : Within(hd.parts, hd.dir[i])

\* What ties a handle to the log it serves.
Matches(hd, s) ==
    /\ hd.first = s.first /\ hd.stable = s.stable /\ hd.rev = s.rev
    /\ hd.end = Len(s.log) + 1

\* The handle of an open ledger is well formed.
IsHandle(hd) ==
    /\ hd = [gen |-> hd.gen, rev |-> hd.rev, first |-> hd.first, end |-> hd.end,
             stable |-> hd.stable, dirty |-> hd.dirty, next |-> hd.next,
             parts |-> hd.parts, active |-> hd.active, len |-> hd.len, dir |-> hd.dir]
    /\ Chain(hd.parts, hd.first) /\ Rising(hd.parts)
    /\ hd.active = Len(hd.parts) /\ InRange(hd)
    /\ hd.gen \in Nat \ {0} /\ hd.next \in Nat
    /\ hd.dirty \in BOOLEAN /\ (~hd.dirty => hd.stable = hd.end)

\* ledger89_read returns the record of the log at every index in range.
LEMMA ReadRecordIs ==
    ASSUME NEW hd, NEW log, Finds(file, Names, hd, log), NEW i \in hd.first..hd.end - 1
    PROVE  ReadRecord(hd, i) = log[i]
<1>1. PICK e \in 1..Len(hd.dir) : hd.dir[e].first <= i /\ i < EndOf(hd.dir[e])
  BY LinkedHas DEF Finds
<1>2. hd.first \in Nat /\ hd.end \in Nat /\ Len(hd.dir) \in Nat
  BY SeqIs DEF Finds, Linked, Counts
<1>3. i \in Nat /\ e \in Nat /\ e # 0
  BY <1>2
<1>4. DirFind(hd.dir, i) = e
  BY <1>1, <1>3, DirFindIs DEF Finds
<1> DEFINE x == hd.dir[e]
           id == hd.parts[x.part].id
           c == file[Part(id)].live
           k == i - x.first + 1
<1>5. Locates(c, x, log) /\ id \in Names.part
  BY DEF Finds
<1>6. Read(Part(id)) = c
  BY <1>5, Named, ReadIs
<1> HIDE DEF x, c
<1>7. /\ x.first \in Nat /\ x.count \in Nat /\ x.pos <= Len(c) /\ c[x.pos].t = "batch"
      /\ Len(c[x.pos].recs) = x.count
      /\ \A j \in 1..x.count : log[x.first + j - 1] = c[x.pos].recs[j]
  BY <1>5 DEF Locates
<1>8. x.first <= i /\ i < x.first + x.count
  BY <1>1 DEF EndOf, x
<1>9. k \in 1..x.count /\ x.first + k - 1 = i
  BY <1>3, <1>7, <1>8
<1> HIDE DEF k
<1>10. log[i] = c[x.pos].recs[k] /\ k <= x.count
  BY <1>7, <1>9
<1> QED BY <1>3, <1>4, <1>6, <1>7, <1>10 DEF ReadRecord, x, k

\* The entries of the sealed parts of a manifest.
Sealed(F, m, i) == F[Part(m.sealed[i].id)].live

\* The entry locates its records inside the sealed part it names.
InPart(F, m, e, log) ==
    /\ e.part \in 1..Len(m.sealed)
    /\ Locates(Sealed(F, m, e.part), e, log)
    /\ m.sealed[e.part].first <= e.first /\ EndOf(e) <= m.sealed[e.part].end

\* The directories of the sealed parts, joined, cover the log up to the active part.
LEMMA SealedDirs ==
    ASSUME NEW F, NEW m, NEW log, GoodManifest(m),
           \A i \in 1..Len(m.sealed) : GoodSealed(m.sealed[i], Sealed(F, m, i), log),
           NEW q, q = [i \in 1..Len(m.sealed) |->
                          Entries(Sealed(F, m, i), Len(Sealed(F, m, i)) - 1, i)]
    PROVE  /\ Linked(FlattenSeq(q), m.first, m.active.first)
           /\ \A j \in 1..Len(FlattenSeq(q)) : InPart(F, m, FlattenSeq(q)[j], log)
<1> DEFINE n == Len(m.sealed)
           flat == FlattenSeq(q)
<1>1. /\ n \in Nat /\ Chain(Descs(m), m.first) /\ m.first \in Nat
      /\ Len(Descs(m)) = n + 1 /\ Descs(m)[n + 1] = m.active
      /\ \A i \in 1..n : Descs(m)[i] = m.sealed[i]
  BY ManifestIs, DescsIs
<1>2. IsSeq(q) /\ Len(q) = n
  <2>1. q = [i \in 1..n |-> q[i]]
    OBVIOUS
  <2> QED BY <1>1, <2>1, SeqIntro
<1>3. ASSUME NEW i \in 1..n
      PROVE  /\ Linked(q[i], m.sealed[i].first, m.sealed[i].end)
             /\ \A l \in 1..Len(q[i]) : InPart(F, m, q[i][l], log)
  <2> DEFINE d == m.sealed[i]
             c == Sealed(F, m, i)
             x == Len(c) - 1
             es == Entries(c, x, i)
  <2>1. i \in 1..n + 1 /\ d = Descs(m)[i]
    BY <1>1
  <2>2. d.first \in Nat /\ GoodSealed(d, c, log)
    BY <1>1, <2>1 DEF Chain
  <2>3. q[i] = es
    OBVIOUS
  <2> HIDE DEF d, c
  <2>4. GoodPart(d, c, x, log) /\ Expected(d, c, x) = d.end
    BY <2>2, SealedIs
  <2> HIDE DEF x
  <2>5. /\ Linked(es, d.first, d.end)
        /\ \A l \in 1..Len(es) : es[l].part = i /\ Locates(c, es[l], log)
    BY <2>2, <2>4, EntriesAre
  <2> HIDE DEF es
  <2>6. ASSUME NEW l \in 1..Len(es)
        PROVE  InPart(F, m, es[l], log)
    <3>1. d.first <= es[l].first /\ EndOf(es[l]) <= d.end
      BY <2>5, LinkedRange
    <3> QED BY <2>5, <3>1 DEF InPart, c, d
  <2> QED BY <2>3, <2>5, <2>6 DEF d
<1>4. CASE n = 0
  <2>1. q = << >>
    BY <1>2, <1>4, SeqEmpty
  <2>2. flat = << >> /\ Len(flat) = 0
    BY <2>1, FlattenNone, SeqEmpty
  <2>3. m.active.first = m.first
    <3>1. Descs(m)[1] = m.active
      BY <1>1, <1>4
    <3> QED BY <1>1, <3>1 DEF Chain
  <2>4. Linked(<< >>, m.first, m.first)
    BY <1>1, LinkedEmpty
  <2> HIDE DEF flat
  <2>5. /\ Linked(flat, m.first, m.active.first)
        /\ \A j \in 1..Len(flat) : InPart(F, m, flat[j], log)
    <3>1. Linked(flat, m.first, m.active.first)
      BY ONLY <2>2, <2>3, <2>4
    <3>2. 1..Len(flat) = {}
      BY ONLY <2>2
    <3> QED BY ONLY <3>1, <3>2
  <2> QED BY ONLY <2>5 DEF flat
<1>5. CASE n # 0
  <2> DEFINE b == [i \in 1..n + 1 |-> Descs(m)[i].first]
  <2>1. /\ b[1] = m.first /\ b[n + 1] = m.active.first
        /\ \A i \in 1..n : b[i] = m.sealed[i].first /\ b[i + 1] = m.sealed[i].end
    <3>1. 1 \in 1..n + 1 /\ n + 1 \in 1..n + 1
      BY <1>1
    <3>2. b[1] = m.first /\ b[n + 1] = m.active.first
      BY <1>1, <3>1 DEF Chain
    <3>3. ASSUME NEW i \in 1..n
          PROVE  b[i] = m.sealed[i].first /\ b[i + 1] = m.sealed[i].end
      <4>1. i \in 1..n + 1 /\ i + 1 \in 1..n + 1 /\ i \in 1..Len(Descs(m)) - 1
        BY <1>1
      <4> QED BY <1>1, <4>1 DEF Chain
    <3> QED BY <3>2, <3>3
  <2> HIDE DEF b
  <2>4. \A i \in 1..n : Linked(q[i], m.sealed[i].first, m.sealed[i].end)
    BY ONLY <1>3
  <2>2. Len(q) > 0 /\ \A i \in 1..Len(q) : Linked(q[i], b[i], b[i + 1])
    <3>1. \A i \in 1..n : Linked(q[i], b[i], b[i + 1])
      BY ONLY <2>1, <2>4
    <3>2. n > 0
      BY ONLY <1>1, <1>5
    <3> QED BY ONLY <1>2, <3>1, <3>2
  <2>3. /\ Linked(flat, b[1], b[Len(q) + 1])
        /\ \A j \in 1..Len(flat) : \E i \in 1..Len(q) : \E l \in 1..Len(q[i]) : flat[j] = q[i][l]
    BY ONLY <1>2, <2>2, JoinLinked
  <2> HIDE DEF flat
  <2>5. \A i \in 1..n : \A l \in 1..Len(q[i]) : InPart(F, m, q[i][l], log)
    BY ONLY <1>3
  <2>6. /\ Linked(flat, m.first, m.active.first)
        /\ \A j \in 1..Len(flat) : InPart(F, m, flat[j], log)
    BY ONLY <1>2, <2>1, <2>3, <2>5
  <2> QED BY ONLY <2>6 DEF flat
<1> QED BY <1>4, <1>5

\* Whether a part is good depends on the descriptor's id and first index only.
LEMMA PartAlike ==
    ASSUME NEW d, NEW e, d.id = e.id, d.first = e.first, d.first \in Nat,
           NEW c, NEW n, NEW log, GoodPart(d, c, n, log)
    PROVE  GoodPart(e, c, n, log) /\ Expected(e, c, n) = Expected(d, c, n)
<1>1. /\ n \in Nat /\ n >= 2 /\ n <= Len(c)
      /\ \A k \in 2..n : Counted(d, c, k)
  BY GoodCounted
<1>2. \A k \in 2..n : Expected(e, c, k) = Expected(d, c, k)
  <2>1. ASSUME NEW k \in 2..n
        PROVE  Expected(e, c, k) = Expected(d, c, k)
    <3>1. k \in Nat /\ k >= 2 /\ Counted(d, c, k)
      BY <1>1
    <3> QED BY <3>1, ExpectedSame
  <2> QED BY <2>1
<1>3. n \in 2..n
  BY <1>1
<1>4. ScanHead(e, c, TRUE, 0)
  BY DEF GoodPart, ScanHead
<1>5. ScanBatches(e, c, n, TRUE, 0)
  <2>1. \A k \in 3..n : k - 1 \in 2..n
    BY <1>1
  <2> QED BY <1>2, <2>1 DEF GoodPart, ScanBatches
<1> QED BY <1>2, <1>3, <1>4, <1>5 DEF GoodPart

\* Handle hd has the parts of manifest m.
Describes(m, hd) ==
    /\ IsSeq(m.sealed) /\ Len(hd.parts) = Len(m.sealed) + 1
    /\ \A i \in 1..Len(m.sealed) : m.sealed[i] = hd.parts[i]
    /\ m.active.id = hd.parts[Len(hd.parts)].id
    /\ m.active.first = hd.parts[Len(hd.parts)].first
    /\ m.first = hd.first /\ m.rev = hd.rev

\* The parts of a manifest, the active one with the end index e.
LEMMA ChainWith ==
    ASSUME NEW m, GoodManifest(m), NEW e \in Nat,
           NEW p, p = Append(m.sealed, [m.active EXCEPT !.end = e])
    PROVE  /\ Chain(p, m.first) /\ Len(p) = Len(m.sealed) + 1
           /\ \A i \in 1..Len(m.sealed) : p[i] = m.sealed[i]
           /\ p[Len(p)] = Desc(m.active.id, m.active.first, e)
<1> DEFINE n == Len(m.sealed)
           q == Descs(m)
           x == Desc(m.active.id, m.active.first, e)
<1>1. /\ n \in Nat /\ Chain(q, m.first) /\ IsSeq(m.sealed) /\ Len(q) = n + 1 /\ q[n + 1] = m.active
      /\ \A i \in 1..n : q[i] = m.sealed[i]
  BY ManifestIs, DescsIs
<1>2. n + 1 \in 1..n + 1
  BY <1>1
<1>3. m.active = Desc(m.active.id, m.active.first, m.active.end)
  BY <1>1, <1>2 DEF Chain
<1>4. [m.active EXCEPT !.end = e] = x
  BY <1>3 DEF Desc
<1>5. x.id = m.active.id /\ x.first = m.active.first /\ x.end = e
  BY DEF Desc
<1>6. x = Desc(x.id, x.first, x.end)
  BY <1>5
<1> HIDE DEF x, q
<1>7. /\ IsSeq(p) /\ Len(p) = n + 1 /\ p[n + 1] = x
      /\ \A i \in 1..n : p[i] = m.sealed[i]
  BY <1>1, <1>4, SeqAppend
<1>8. \A i \in 1..n + 1 : p[i].id = q[i].id /\ p[i].first = q[i].first
  <2>1. ASSUME NEW i \in 1..n + 1
        PROVE  p[i].id = q[i].id /\ p[i].first = q[i].first
    <3>1. i \in 1..n \/ i = n + 1
      BY <1>1
    <3> QED BY <1>1, <1>5, <1>7, <3>1
  <2> QED BY <2>1
<1>9. ASSUME NEW i \in 1..n + 1
      PROVE  p[i] = Desc(p[i].id, p[i].first, p[i].end) /\ p[i].end \in Nat
  <2>1. i \in 1..n \/ i = n + 1
    BY <1>1
  <2> QED BY <1>1, <1>5, <1>6, <1>7, <2>1 DEF Chain
<1>10. ASSUME NEW i \in 1..n
       PROVE  p[i].end = p[i + 1].first
  <2>1. i + 1 \in 1..n + 1 /\ i \in 1..Len(q) - 1
    BY <1>1
  <2>2. q[i].end = q[i + 1].first
    BY <1>1, <2>1 DEF Chain
  <2> QED BY <1>1, <1>7, <1>8, <2>1, <2>2
<1>11. Chain(p, m.first)
  <2>1. 1 \in 1..n + 1 /\ Len(p) > 0 /\ Len(p) - 1 = n
    BY <1>1, <1>7
  <2>2. p[1].first = m.first /\ m.first \in Nat
    BY <1>1, <1>8, <2>1 DEF Chain
  <2>3. \A i \in 1..n + 1 : p[i].id \in Nat /\ p[i].first \in Nat
    BY <1>1, <1>8 DEF Chain
  <2>4. \A i, j \in 1..n + 1 : p[i].id = p[j].id => i = j
    BY <1>1, <1>8 DEF Chain
  <2> QED BY <1>7, <1>9, <1>10, <2>1, <2>2, <2>3, <2>4 DEF Chain
<1> QED BY <1>7, <1>11 DEF x

\* The active part of a manifest that recovers to log s.
LEMMA ActiveScan ==
    ASSUME NEW g, NEW s, AllLead(file, dirs, g, s), g # 0, IsSettled(s),
           NEW m, m = ManifestAt(file, g),
           NEW c, c = Read(Part(m.active.id)), NEW k, k = LastMarker(m.active, c, m.rev)
    PROVE  /\ c = file[Part(m.active.id)].live
           /\ ActiveUpTo(m.active, m.rev, c, k, s)
           /\ Expected(m.active, c, k) = Len(s.log) + 1
           /\ m.active.first \in Nat /\ m.active.first <= Len(s.log) + 1
           /\ Ready(file, Names, m, s) /\ m.gen = g /\ g \in Nat
<1>1. LeadsTo(file, Names, m, s) /\ Names.cur = g /\ IsLog(s) /\ IsTable(Names)
  BY NamesIs, LeadsIs DEF AllLead
<1>2. Ready(file, Names, m, s) /\ m.gen = g /\ g \in Nat
  BY <1>1 DEF LeadsTo, IsTable
<1>3. m.active.first \in Nat /\ m.active.first <= Len(s.log) + 1
  BY <1>1, <1>2, LogIs, ReadyChain
<1>4. c = file[Part(m.active.id)].live
  <2>1. m.active.id \in Names.part
    BY <1>2 DEF Ready, Referenced
  <2> QED BY <2>1, Named, ReadIs
<1>5. GoodActive(m.active, m.rev, c, s)
  BY <1>2, <1>4, SafeIs DEF Ready
<1>6. PICK j : ActiveUpTo(m.active, m.rev, c, j, s)
  BY <1>5, ActivePick
<1>7. j = k /\ c[j].end = Expected(m.active, c, j) /\ Expected(m.active, c, j) \in Nat
  BY <1>3, <1>6, ActiveIs
<1>8. c[j].end = Len(s.log) + 1
  <2>1. c[j].end \in s.stable..Len(s.log) + 1 /\ s.stable = Len(s.log) + 1 /\ Len(s.log) \in Nat
    BY <1>1, <1>6, LogIs DEF ActiveUpTo, IsSettled
  <2> QED BY <2>1
<1> QED BY <1>2, <1>3, <1>4, <1>6, <1>7, <1>8

\* The handle recovery builds matches the log it recovered.
LEMMA RecoveredHandleIs ==
    ASSUME NEW g, NEW s, AllLead(file, dirs, g, s), g # 0, IsSettled(s),
           NEW m, m = ManifestAt(file, g), NEW hd, hd = RecoveredHandle(m)
    PROVE  /\ IsHandle(hd) /\ hd.gen = g /\ ~hd.dirty /\ hd.next = 0
           /\ Matches(hd, s) /\ Describes(m, hd) /\ Finds(file, Names, hd, s.log)
           /\ ActiveUpTo(m.active, m.rev, file[Part(m.active.id)].live, hd.len, s)
           /\ hd.parts[Len(hd.parts)] = Desc(m.active.id, m.active.first, hd.end)
           /\ \A j \in 1..Len(hd.dir) :
                 hd.dir[j].part = Len(hd.parts) => hd.dir[j].pos \in 3..hd.len
<1> DEFINE n == Len(m.sealed)
           c == Read(Part(m.active.id))
           k == LastMarker(m.active, c, m.rev)
           end == Expected(m.active, c, k)
           q == [i \in 1..n |-> Entries(Sealed(file, m, i), Len(Sealed(file, m, i)) - 1, i)]
           es == Entries(c, k, n + 1)
           p == Append(m.sealed, [m.active EXCEPT !.end = end])
<1>1. /\ c = file[Part(m.active.id)].live /\ ActiveUpTo(m.active, m.rev, c, k, s)
      /\ end = Len(s.log) + 1 /\ m.active.first \in Nat /\ m.active.first <= end
      /\ Ready(file, Names, m, s) /\ m.gen = g /\ g \in Nat
  BY ActiveScan
<1>2. IsLog(s)
  BY DEF AllLead
<1>3. /\ GoodManifest(m) /\ IsSeq(m.sealed) /\ n \in Nat /\ m.first = s.first /\ m.rev = s.rev
      /\ \A i \in 1..n : GoodSealed(m.sealed[i], Sealed(file, m, i), s.log)
  BY <1>1, ManifestIs DEF Ready, Sealed
<1>4. Len(s.log) \in Nat /\ end \in Nat /\ s.first \in Nat \ {0} /\ s.stable = Len(s.log) + 1
      /\ s.rev \in Nat
  BY <1>1, <1>2, LogIs DEF IsSettled
<1>5. [i \in 1..n |->
         LET x == Read(Part(m.sealed[i].id)) IN Entries(x, Len(x) - 1, i)] = q
  <2>1. ASSUME NEW i \in 1..n
        PROVE  Read(Part(m.sealed[i].id)) = Sealed(file, m, i)
    <3>1. m.sealed[i].id \in Names.part
      BY <1>1 DEF Ready, Referenced
    <3> QED BY <3>1, Named, ReadIs DEF Sealed
  <2> QED BY <2>1
<1>6. hd = [gen |-> m.gen, rev |-> m.rev, first |-> m.first,
            end |-> end, stable |-> end, dirty |-> FALSE, next |-> 0,
            parts |-> p, active |-> n + 1, len |-> k,
            dir |-> FlattenSeq(q) \o es]
  <2> HIDE DEF q
  <2> QED BY <1>5 DEF RecoveredHandle
<1> HIDE DEF c, k, end, q, es, p
<1>7. /\ hd.gen = m.gen /\ hd.rev = m.rev /\ hd.first = m.first /\ hd.end = end
      /\ hd.stable = end /\ hd.dirty = FALSE /\ hd.next = 0 /\ hd.parts = p
      /\ hd.active = n + 1 /\ hd.len = k /\ hd.dir = FlattenSeq(q) \o es
  BY <1>6
<1>8. /\ Chain(p, m.first) /\ Len(p) = n + 1 /\ p[n + 1] = Desc(m.active.id, m.active.first, end)
      /\ \A i \in 1..n : p[i] = m.sealed[i]
  <2>1. p = Append(m.sealed, [m.active EXCEPT !.end = end])
    BY DEF p
  <2>2. /\ Chain(p, m.first) /\ Len(p) = n + 1 /\ p[Len(p)] = Desc(m.active.id, m.active.first, end)
        /\ \A i \in 1..n : p[i] = m.sealed[i]
    <3>1. GoodManifest(m) /\ end \in Nat
      BY <1>3, <1>4
    <3> QED BY ONLY <2>1, <3>1, ChainWith
  <2> QED BY <2>2
<1>9. p[n + 1].id = m.active.id /\ p[n + 1].first = m.active.first /\ p[n + 1].end = end
  BY <1>8 DEF Desc
<1>10. /\ Linked(FlattenSeq(q), m.first, m.active.first)
       /\ \A j \in 1..Len(FlattenSeq(q)) : InPart(file, m, FlattenSeq(q)[j], s.log)
  <2>1. q = [i \in 1..Len(m.sealed) |->
                Entries(Sealed(file, m, i), Len(Sealed(file, m, i)) - 1, i)]
    BY DEF q
  <2> QED BY <1>3, <2>1, SealedDirs
<1>11. /\ Linked(es, m.active.first, end)
       /\ \A l \in 1..Len(es) : es[l].part = n + 1 /\ Locates(c, es[l], s.log) /\ es[l].pos \in 3..k
  <2>1. GoodPart(m.active, c, k, s.log)
    BY <1>1 DEF ActiveUpTo
  <2> DEFINE x == n + 1
             y == Entries(c, k, x)
  <2>2. /\ Linked(y, m.active.first, Expected(m.active, c, k))
        /\ \A l \in 1..Len(y) : /\ y[l].part = x /\ Locates(c, y[l], s.log)
                                /\ y[l].pos \in 3..k
    BY <1>1, <2>1, EntriesAre
  <2>3. y = es
    BY DEF es
  <2> HIDE DEF y
  <2> QED BY <2>2, <2>3 DEF end
<1>12. Linked(hd.dir, hd.first, hd.end)
  BY <1>7, <1>10, <1>11, LinkedCat
<1> DEFINE OK(e) == /\ Within(p, e)
                    /\ Locates(file[Part(p[e.part].id)].live, e, s.log)
                    /\ e.part = n + 1 => e.pos \in 3..k
<1>13. ASSUME NEW j \in 1..Len(FlattenSeq(q))
       PROVE  OK(FlattenSeq(q)[j])
  <2> DEFINE e == FlattenSeq(q)[j]
  <2>1. InPart(file, m, e, s.log)
    BY <1>10
  <2> HIDE DEF e
  <2>2. e.part \in 1..n /\ e.part \in 1..n + 1 /\ p[e.part] = m.sealed[e.part]
    BY <1>3, <1>8, <2>1 DEF InPart
  <2>4. e.part # n + 1
    BY <1>3, <2>2
  <2>3. OK(e)
    BY <1>8, <2>1, <2>2, <2>4 DEF InPart, Within, Sealed
  <2> QED BY <2>3 DEF e
<1>14. ASSUME NEW l \in 1..Len(es)
       PROVE  OK(es[l])
  <2>1. /\ es[l].part = n + 1 /\ Locates(c, es[l], s.log) /\ m.active.first <= es[l].first
        /\ es[l].pos \in 3..k
    BY <1>11, LinkedRange
  <2>2. n + 1 \in 1..n + 1 /\ ~(n + 1 < n + 1)
    BY <1>3
  <2> QED BY <1>1, <1>8, <1>9, <2>1, <2>2 DEF Within
<1> HIDE DEF OK
<1>15. \A j \in 1..Len(hd.dir) : OK(hd.dir[j])
  <2> DEFINE y == FlattenSeq(q)
             z == y \o es
  <2>1. IsSeq(y) /\ IsSeq(es)
    BY <1>10, <1>11 DEF Linked, Counts
  <2>2. \A j \in 1..Len(y) : OK(y[j])
    BY <1>13
  <2> HIDE DEF y
  <2>3. /\ Len(z) = Len(y) + Len(es) /\ Len(y) \in Nat /\ Len(es) \in Nat
        /\ \A j \in 1..Len(y) : z[j] = y[j]
        /\ \A j \in 1..Len(es) : z[Len(y) + j] = es[j]
    BY <2>1, SeqCat, SeqIs
  <2> HIDE DEF z
  <2>4. ASSUME NEW j \in 1..Len(z)
        PROVE  OK(z[j])
    <3>1. CASE j <= Len(y)
      <4>1. j \in 1..Len(y)
        BY <2>3, <3>1
      <4> QED BY <2>2, <2>3, <4>1
    <3>2. CASE j > Len(y)
      <4> DEFINE x == j - Len(y)
      <4>1. x \in 1..Len(es) /\ Len(y) + x = j
        BY <2>3, <3>2
      <4> HIDE DEF x
      <4> QED BY <1>14, <2>3, <4>1
    <3>3. j \in Nat
      BY <2>3
    <3> QED BY <2>3, <3>1, <3>2, <3>3
  <2> QED BY <1>7, <2>4 DEF z, y
<1>16. Finds(file, Names, hd, s.log)
  <2>1. ASSUME NEW i \in 1..n + 1
        PROVE  p[i].id \in Names.part /\ Part(p[i].id) \in DOMAIN file
    <3>1. p[i].id \in Referenced(m)
      <4>1. i \in 1..n \/ i = n + 1
        BY <1>3
      <4> QED BY <1>8, <1>9, <4>1 DEF Referenced
    <3> QED BY <1>1, <3>1 DEF Ready
  <2> QED BY <1>7, <1>8, <1>12, <1>15, <2>1 DEF Finds, OK, Chain, Within
<1>17. Matches(hd, s)
  BY <1>1, <1>3, <1>4, <1>7 DEF Matches
<1>18. Describes(m, hd)
  BY <1>3, <1>7, <1>8, <1>9 DEF Describes
<1>19. Rising(p)
  <2>1. \A i \in 1..n : m.sealed[i].first <= m.sealed[i].end
    BY <1>1, <1>4, ReadyChain
  <2>2. ASSUME NEW i \in 1..n + 1
        PROVE  p[i].first <= p[i].end
    <3>1. i \in 1..n \/ i = n + 1
      BY <1>3
    <3> QED BY <1>1, <1>8, <1>9, <2>1, <3>1
  <2> QED BY <1>8, <2>2 DEF Rising
<1>20. IsHandle(hd)
  <2>1. hd = [gen |-> hd.gen, rev |-> hd.rev, first |-> hd.first, end |-> hd.end,
             stable |-> hd.stable, dirty |-> hd.dirty, next |-> hd.next,
             parts |-> hd.parts, active |-> hd.active, len |-> hd.len, dir |-> hd.dir]
    BY <1>6, <1>7
  <2>2. InRange(hd)
    BY <1>7, <1>15 DEF InRange, OK
  <2>4. hd.gen \in Nat \ {0} /\ hd.next \in Nat
    BY <1>1, <1>7
  <2>5. hd.dirty \in BOOLEAN /\ hd.stable = hd.end
    BY <1>7
  <2>3. hd.gen \in Nat \ {0} /\ hd.next \in Nat /\ hd.dirty \in BOOLEAN /\ hd.stable = hd.end
    BY <2>4, <2>5
  <2> QED BY <1>7, <1>8, <1>19, <2>1, <2>2, <2>3 DEF IsHandle
<1>21. ActiveUpTo(m.active, m.rev, file[Part(m.active.id)].live, hd.len, s)
  BY <1>1, <1>7
<1>22. hd.parts[Len(hd.parts)] = Desc(m.active.id, m.active.first, hd.end)
  BY <1>7, <1>8
<1>23. \A j \in 1..Len(hd.dir) : hd.dir[j].part = Len(hd.parts) => hd.dir[j].pos \in 3..hd.len
  BY <1>7, <1>8, <1>15 DEF OK
<1> QED BY <1>1, <1>7, <1>16, <1>17, <1>18, <1>20, <1>21, <1>22, <1>23

\* What the application is told on opening is what the directory leads to.
LEMMA LogOfIs ==
    ASSUME NEW s, IsLog(s), NEW hd, Matches(hd, s), IsSettled(s),
           Finds(file, Names, hd, s.log)
    PROVE  LogOf(hd) = s
<1>1. /\ IsSeq(s.log) /\ Len(s.log) \in Nat /\ s.first \in Nat /\ s.first <= Len(s.log) + 1
      /\ \A i \in 1..s.first - 1 : s.log[i] = Gone
  BY LogIs
<1>2. /\ hd.first = s.first /\ hd.stable = s.stable /\ hd.rev = s.rev
      /\ hd.end = Len(s.log) + 1 /\ hd.end - 1 = Len(s.log)
  BY <1>1 DEF Matches
<1>3. ASSUME NEW i \in 1..Len(s.log)
      PROVE  (IF i < hd.first THEN Gone ELSE ReadRecord(hd, i)) = s.log[i]
  <2>1. CASE i < hd.first
    BY <1>1, <1>2, <2>1
  <2>2. CASE ~(i < hd.first)
    <3>1. i \in hd.first..hd.end - 1
      BY <1>1, <1>2, <2>2
    <3> QED BY <2>2, <3>1, ReadRecordIs
  <2> QED BY <2>1, <2>2
<1>4. [i \in 1..Len(s.log) |-> IF i < hd.first THEN Gone ELSE ReadRecord(hd, i)]
        = [i \in 1..Len(s.log) |-> s.log[i]]
  BY <1>3
<1>5. s.log = [i \in 1..Len(s.log) |-> s.log[i]]
  BY <1>1, SeqIs
<1>6. LogOf(hd) = [log |-> s.log, first |-> s.first, stable |-> s.stable, rev |-> s.rev]
  BY <1>2, <1>4, <1>5 DEF LogOf
<1> QED BY <1>6 DEF IsLog

\* Opening a closed ledger has a plan, whatever a crash left on the disk.
LEMMA OpenPlansExist ==
    ASSUME NEW S, Closed(file, dirs, S)
    PROVE  OpenPlans # {}
<1>1. PICK s \in CutsOf(S) : IsSettled(s) /\ AllLead(file, dirs, Names.cur, s)
  BY DEF Closed, Names
<1>2. CASE Names.cur = 0
  BY <1>2 DEF OpenPlans
<1>3. CASE Names.cur # 0
  <2> DEFINE m == ManifestAt(file, Names.cur)
             id == Max(Names.part \union {m.active.id}) + 1
  <2>1. Recovered = {m}
    BY <1>1, <1>3, RecoveredIs
  <2>2. id \in NextFileIds(m)
    BY DEF NextFileIds
  <2> HIDE DEF m, id
  <2>3. OpenPlan(m, id) \in {OpenPlan(m, x) : x \in NextFileIds(m)}
    BY <2>2
  <2>4. OpenPlan(m, id) \in UNION {{OpenPlan(y, x) : x \in NextFileIds(y)} : y \in Recovered}
    BY <2>1, <2>3
  <2> QED BY <1>3, <2>4 DEF OpenPlans
<1> QED BY <1>2, <1>3

\* Whatever a power loss leaves of a directory all of whose tables lead to one
\* of the logs S, it leads to a cut of one of them: no record below a stable
\* index is lost and none is invented (led89_find_last_marker, led89_part_scan).
THEOREM PowerLossKeepsLogs ==
    ASSUME NEW S, Safe(file, dirs, S), PowerLoss
    PROVE  Closed(file', dirs', S)
BY LossIs, LossCloses

\* Recovery finds the one manifest that CURRENT leads to, and the handle it
\* builds returns exactly the records of the log (led89_recover,
\* led89_dir_find, led89_read_at_body).
THEOREM RecoveryIsExact ==
    ASSUME NEW g, NEW s, AllLead(file, dirs, g, s), g # 0, IsSettled(s)
    PROVE  \E m : Recovered = {m} /\ LogOf(RecoveredHandle(m)) = s
<1> DEFINE m == ManifestAt(file, g)
           hd == RecoveredHandle(m)
<1>1. Recovered = {m}
  BY RecoveredIs
<1>2. Matches(hd, s) /\ Finds(file, Names, hd, s.log)
  BY RecoveredHandleIs
<1>3. IsLog(s)
  BY DEF AllLead
<1> HIDE DEF hd
<1>4. LogOf(hd) = s
  BY <1>2, <1>3, LogOfIs
<1> QED BY <1>1, <1>4 DEF hd

---------------------------------------------------------------------------
(* Worlds.                                                                 *)

\* The state a plan's steps change: disk, mode, handle, and what the caller was told.
World(F, ds, md, hd, s, S) ==
    [file |-> F, dirs |-> ds, mode |-> md, h |-> hd, cur |-> s, next |-> S]

\* The world of the current state.
Now == World(file, dirs, mode, h, told.cur, told.next)

\* The same world on another disk.
With(v, F, ds) == World(F, ds, v.mode, v.h, v.cur, v.next)

\* The table the process sees.
Top(v) == Last(v.dirs)

\* The logs the caller would accept.
Logs(v) == {v.cur} \union v.next

\* The bounds of a handle, which hold even halfway through an operation.
Typed(hd) ==
    /\ hd.first <= hd.stable /\ hd.stable <= hd.end
    /\ hd.active \in 1..Len(hd.parts)

\* What holds of an open ledger at every step of an operation: a power loss
\* leaves one of its logs, and unless it is being rewritten its records are
\* found.
Steady(v) ==
    /\ AreFiles(v.file) /\ Safe(v.file, v.dirs, Logs(v))
    /\ v.mode = "open" =>
          /\ Typed(v.h)
          /\ v.next = {} => Finds(v.file, Top(v), v.h, v.cur.log)

\* The active part as the handle knows it: nothing else follows.
Whole(F, hd, log) ==
    LET d == hd.parts[Len(hd.parts)]
        f == F[Part(d.id)]
    IN /\ GoodPart(d, f.live, Len(f.live), log)
       /\ Expected(d, f.live, Len(f.live)) = hd.end
       /\ hd.len = Len(f.live) /\ IsPrefix(f.hard, f.live)

\* The log cut at its stable end.
StableLog(s) == CutAt(s, s.stable)

\* The ledger between two operations. All that may survive leads to the log up
\* to its stable index.
Good(v) ==
    /\ v.mode = "open" /\ v.next = {} /\ IsLog(v.cur)
    /\ IsHandle(v.h) /\ Matches(v.h, v.cur)
    /\ \A p \in 1..Len(v.h.parts) : v.h.parts[p].id < v.h.next
    /\ AllLead(v.file, v.dirs, v.h.gen, StableLog(v.cur))
    /\ Describes(ManifestAt(v.file, v.h.gen), v.h)
    /\ Finds(v.file, Top(v), v.h, v.cur.log)
    /\ Whole(v.file, v.h, v.cur.log)

---------------------------------------------------------------------------
(* Calls of the file system.                                               *)

\* The tables after the process changed its own to d.
NamedIn(ds, d) == IF d = Last(ds) THEN ds ELSE Append(ds, d)

\* The files after f was created or truncated to nothing.
CreatedIn(F, f) ==
    [g \in DOMAIN F \union {f} |->
        IF g # f THEN F[g]
        ELSE [live |-> << >>, hard |-> IF f \in DOMAIN F THEN F[f].hard ELSE << >>]]

\* The files after item x was written to the end of f.
WrittenIn(F, f, x) == [F EXCEPT ![f].live = Append(@, x)]

\* The table without the name f.
Unlinked(d, f) ==
    CASE f[1] = "part" -> [d EXCEPT !.part = @ \ {f[2]}]
      [] f[1] = "man" -> [d EXCEPT !.man = @ \ {f[2]}]
      [] f[1] = "cur" -> [d EXCEPT !.tmp = 0]

\* What is read of a file by the call that seals a part.
ReadIn(F, ds, f) == IF HasName(Last(ds), f) THEN F[f].live ELSE << >>

\* One disk call, as a step from one disk to another.
Performed(c, F, ds, G, es) ==
    \/ c.op = "create" /\ G = CreatedIn(F, c.f) /\ es = NamedIn(ds, AddName(Last(ds), c.f))
    \/ c.op = "write" /\ G = WrittenIn(F, c.f, c.item) /\ es = ds
    \/ /\ c.op = "seal" /\ es = ds
       /\ G = WrittenIn(F, c.f, [c.item EXCEPT !.digest = Tail(ReadIn(F, ds, c.f))])
    \/ c.op = "trim" /\ G = [F EXCEPT ![c.f].live = SubSeq(@, 1, c.n)] /\ es = ds
    \/ c.op = "fsync" /\ G = [F EXCEPT ![c.f].hard = F[c.f].live] /\ es = ds
    \/ /\ c.op = "syncdir" /\ es = <<Last(ds)>>
       /\ G = [f \in {f \in DOMAIN F : \E d \in ToSet(es) : HasName(d, f)} |-> F[f]]
    \/ c.op = "rename" /\ es = NamedIn(ds, [Last(ds) EXCEPT !.cur = c.g, !.tmp = 0]) /\ G = F
    \/ c.op = "unlink" /\ es = NamedIn(ds, Unlinked(Last(ds), c.f)) /\ G = F

\* Perform is such a step.
LEMMA PerformIs ==
    ASSUME NEW c, Perform(c)
    PROVE  Performed(c, file, dirs, file', dirs')
BY DEF Perform, Performed, Create, Write, Trim, Fsync, SyncDir, Rename, Unlink, SetNames,
       CreatedIn, WrittenIn, NamedIn, Unlinked, ReadIn, Read, Names, Reached

\* A disk call has one outcome.
LEMMA PerformedOnce ==
    ASSUME NEW c, NEW F, NEW ds, NEW G, NEW es, NEW H, NEW fs,
           Performed(c, F, ds, G, es), Performed(c, F, ds, H, fs)
    PROVE  G = H /\ es = fs
BY DEF Performed

\* A failing call had no effect, its whole effect or wrote a part of an item.
LEMMA MisperformIs ==
    ASSUME NEW c, Misperform(c)
    PROVE  \/ file' = file /\ dirs' = dirs
           \/ Performed(c, file, dirs, file', dirs')
           \/ /\ c.op \in {"write", "seal"}
              /\ file' = WrittenIn(file, c.f, Torn) /\ dirs' = dirs
BY DEF Misperform, Performed, Create, Write, Trim, SetNames,
       CreatedIn, WrittenIn, NamedIn, Names, disk

\* What the tables are after the process changed its own.
LEMMA NamedInIs ==
    ASSUME NEW ds, IsSeq(ds), Len(ds) > 0, NEW d, NEW es, es = NamedIn(ds, d)
    PROVE  /\ IsSeq(es) /\ Len(es) > 0 /\ Last(es) = d /\ es[1] = ds[1]
           /\ \A k \in 1..Len(es) : es[k] = d \/ \E j \in 1..Len(ds) : es[k] = ds[j]
<1>1. CASE d = Last(ds)
  BY <1>1 DEF NamedIn
<1>2. CASE d # Last(ds)
  <2>1. es = Append(ds, d)
    BY <1>2 DEF NamedIn
  <2>2. /\ IsSeq(es) /\ Len(es) = Len(ds) + 1 /\ Len(ds) \in Nat
        /\ \A i \in 1..Len(ds) : es[i] = ds[i]
        /\ es[Len(ds) + 1] = d
    BY <2>1, SeqAppend, SeqIs
  <2>3. Last(es) = d
    BY <2>2 DEF Last
  <2>4. 1 \in 1..Len(ds)
    BY <2>2
  <2>5. ASSUME NEW k \in 1..Len(es)
        PROVE  es[k] = d \/ \E j \in 1..Len(ds) : es[k] = ds[j]
    <3>1. k \in 1..Len(ds) \/ k = Len(ds) + 1
      BY <2>2
    <3> QED BY <2>2, <3>1
  <2> QED BY <2>2, <2>3, <2>4, <2>5
<1> QED BY <1>1, <1>2

---------------------------------------------------------------------------
(* Plans.                                                                  *)

\* What the application may be told of log s in world u.
Appends(s, t) ==
    \E n \in 1..Len(t.log) : LET k == Len(t.log) - n
                             IN s = [t EXCEPT !.log = SubSeq(@, 1, k)]

\* What the caller may be told next.
Tells(u, s) ==
    \/ u.mode = "opening" /\ s \in CutsOf(Logs(u))
    \/ u.mode = "open" /\ u.next = {} /\ (Appends(u.cur, s) \/ s = SyncedLog(u.cur))
    \/ u.mode = "open" /\ s \in u.next

\* A handle assignment, as a step from one world to another.
Assigned(c, u, w) ==
    /\ w = World(u.file, u.dirs, "open", c.h, w.cur, w.next)
    /\ \/ c.told = {} /\ u.mode = "open" /\ w.cur = u.cur /\ w.next = u.next
       \/ c.told = {w.cur} /\ w.next = {} /\ Tells(u, w.cur)

\* Call c leads from world u to world w, and if it fails the ledger is left
\* as steady as it was.
StepOK(c, u, w) ==
    /\ Steady(w)
    /\ IF c.op = "set" THEN Assigned(c, u, w)
       ELSE IF c.op = "alloc" THEN w = u /\ u.mode = "open"
       ELSE /\ w = With(u, w.file, w.dirs)
            /\ Performed(c, u.file, u.dirs, w.file, w.dirs)
            /\ c.op \in {"write", "seal"} =>
                  Steady(With(u, WrittenIn(u.file, c.f, Torn), u.dirs))

\* In the configurations S, plan p goes on from world u. The failure of a quiet
\* call is passed over.
Advances(S, u, p) ==
    IF p = << >> THEN Good(u)
    ELSE /\ Quiet(Head(p)) => <<u, Tail(p)>> \in S
         /\ \E w : StepOK(Head(p), u, w) /\ <<w, Tail(p)>> \in S

\* In a set of worlds with their plans, each advances within the set.
GoesOn(S) == \A u, q : <<u, q>> \in S => Advances(S, u, q)

\* The plan is sound from world v: it keeps the ledger recoverable at every step and failure.
Sound(v, p) == \E S : <<v, p>> \in S /\ GoesOn(S)

\* A plan that advances within a set advances within a larger one.
LEMMA AdvancesIn ==
    ASSUME NEW S, NEW u, NEW p, Advances(S, u, p), NEW T, S \subseteq T
    PROVE  Advances(T, u, p)
BY DEF Advances

\* The empty plan is sound from a good world.
LEMMA SoundEnd ==
    ASSUME NEW v, Good(v)
    PROVE  Sound(v, << >>)
<1> DEFINE S == {<<v, << >>>>}
<1>1. ASSUME NEW u, NEW q, <<u, q>> \in S
      PROVE  Advances(S, u, q)
  BY <1>1 DEF Advances
<1> QED BY <1>1 DEF Sound, GoesOn

\* A plan is sound when its first call is and the rest is.
LEMMA SoundStep ==
    ASSUME NEW v, NEW p, p # << >>, NEW w, StepOK(Head(p), v, w), Sound(w, Tail(p)),
           Quiet(Head(p)) => Sound(v, Tail(p))
    PROVE  Sound(v, p)
<1>1. PICK S1 : <<w, Tail(p)>> \in S1 /\ GoesOn(S1)
  BY DEF Sound
<1>2. PICK S2 : (Quiet(Head(p)) => <<v, Tail(p)>> \in S2) /\ GoesOn(S2)
  <2>1. CASE Quiet(Head(p))
    BY <2>1 DEF Sound
  <2>2. CASE ~Quiet(Head(p))
    <3>1. GoesOn({})
      BY DEF GoesOn
    <3> QED BY <2>2, <3>1
  <2> QED BY <2>1, <2>2
<1> DEFINE S == S1 \union S2 \union {<<v, p>>}
<1>3. Advances(S, v, p)
  BY <1>1, <1>2 DEF Advances
<1>4. ASSUME NEW u, NEW q, <<u, q>> \in S
      PROVE  Advances(S, u, q)
  <2>1. S1 \subseteq S /\ S2 \subseteq S
    OBVIOUS
  <2>2. CASE <<u, q>> \in S1
    <3>1. Advances(S1, u, q)
      BY <1>1, <2>2 DEF GoesOn
    <3> HIDE DEF S
    <3> QED BY <2>1, <3>1, AdvancesIn
  <2>3. CASE <<u, q>> \in S2
    <3>1. Advances(S2, u, q)
      BY <1>2, <2>3 DEF GoesOn
    <3> HIDE DEF S
    <3> QED BY <2>1, <3>1, AdvancesIn
  <2>4. CASE <<u, q>> = <<v, p>>
    BY <1>3, <2>4
  <2> QED BY <1>4, <2>2, <2>3, <2>4
<1>5. <<v, p>> \in S
  OBVIOUS
<1> HIDE DEF S
<1> QED BY <1>4, <1>5 DEF Sound, GoesOn

\* The first call of a sound plan is sound, and so is the rest after it.
LEMMA SoundNow ==
    ASSUME NEW v, NEW p, Sound(v, p), p # << >>
    PROVE  /\ \E w : StepOK(Head(p), v, w) /\ Sound(w, Tail(p))
           /\ Quiet(Head(p)) => Sound(v, Tail(p))
<1>1. PICK S : <<v, p>> \in S /\ GoesOn(S)
  BY DEF Sound
<1>2. Advances(S, v, p)
  BY <1>1 DEF GoesOn
<1> QED BY <1>1, <1>2 DEF Advances, Sound

\* A sound plan that is done leaves a good ledger.
LEMMA SoundDone ==
    ASSUME NEW v, Sound(v, << >>)
    PROVE  Good(v)
<1>1. PICK S : <<v, << >>>> \in S /\ GoesOn(S)
  BY DEF Sound
<1> QED BY <1>1 DEF Advances, GoesOn

\* Plan p leads from world v to world w.
Via(v, p, w) == IsSeq(p) /\ \A q : IsSeq(q) /\ Sound(w, q) => Sound(v, p \o q)

\* A plan begins with its first call and goes on with the rest.
LEMMA SeqCons ==
    ASSUME NEW c, NEW q, IsSeq(q), NEW p, p = <<c>> \o q
    PROVE  p # << >> /\ Head(p) = c /\ Tail(p) = q /\ IsSeq(p)
<1>1. IsSeq(<<c>>) /\ Len(<<c>>) = 1 /\ <<c>>[1] = c
  BY SeqOne
<1>2. /\ IsSeq(p) /\ Len(p) = 1 + Len(q) /\ Len(q) \in Nat
      /\ \A i \in 1..1 : p[i] = <<c>>[i]
      /\ \A i \in 1..Len(q) : p[1 + i] = q[i]
  BY <1>1, SeqCat, SeqIs
<1>3. p # << >>
  BY <1>2, SeqEmpty
<1>4. /\ Head(p) = p[1] /\ IsSeq(Tail(p)) /\ Len(Tail(p)) = Len(p) - 1
      /\ \A i \in 1..Len(p) - 1 : Tail(p)[i] = p[i + 1]
  BY <1>2, <1>3, SeqTail
<1>5. Head(p) = c
  BY <1>1, <1>2, <1>4
<1>6. Tail(p) = q
  <2>1. Len(Tail(p)) = Len(q) /\ \A i \in 1..Len(q) : Tail(p)[i] = q[i]
    BY <1>2, <1>4
  <2> QED BY <1>4, <2>1, SeqSame
<1> QED BY <1>2, <1>3, <1>5, <1>6

\* Concatenation is associative.
LEMMA SeqAssoc ==
    ASSUME NEW p, NEW q, NEW r, IsSeq(p), IsSeq(q), IsSeq(r)
    PROVE  (p \o q) \o r = p \o (q \o r)
<1> DEFINE a == Len(p)
           b == Len(q)
           c == Len(r)
           pq == p \o q
           qr == q \o r
           x == pq \o r
           y == p \o qr
<1>1. a \in Nat /\ b \in Nat /\ c \in Nat
  BY SeqIs
<1>2. /\ IsSeq(pq) /\ Len(pq) = a + b
      /\ \A i \in 1..a : pq[i] = p[i]
      /\ \A i \in 1..b : pq[a + i] = q[i]
  BY SeqCat
<1>3. /\ IsSeq(qr) /\ Len(qr) = b + c
      /\ \A i \in 1..b : qr[i] = q[i]
      /\ \A i \in 1..c : qr[b + i] = r[i]
  BY SeqCat
<1> HIDE DEF pq, qr
<1>4. /\ IsSeq(x) /\ Len(x) = a + b + c
      /\ \A i \in 1..a + b : x[i] = pq[i]
      /\ \A i \in 1..c : x[a + b + i] = r[i]
  <2>1. /\ IsSeq(x) /\ Len(x) = Len(pq) + c
        /\ \A i \in 1..Len(pq) : x[i] = pq[i]
        /\ \A i \in 1..c : x[Len(pq) + i] = r[i]
    <3>1. IsSeq(pq) /\ IsSeq(r)
      BY <1>2
    <3> QED BY ONLY <3>1, SeqCat
  <2> HIDE DEF x, a, b, c
  <2> QED BY <1>2, <2>1
<1>5. /\ IsSeq(y) /\ Len(y) = a + (b + c)
      /\ \A i \in 1..a : y[i] = p[i]
      /\ \A i \in 1..b + c : y[a + i] = qr[i]
  BY <1>3, SeqCat
<1> HIDE DEF x, y, a, b, c
<1>6. ASSUME NEW i \in 1..a + b + c
      PROVE  x[i] = y[i]
  <2>1. CASE i <= a
    <3>1. i \in 1..a /\ i \in 1..a + b
      BY <1>1, <2>1
    <3> QED BY <1>2, <1>4, <1>5, <3>1
  <2>2. CASE a < i /\ i <= a + b
    <3> DEFINE k == i - a
    <3>1. k \in 1..b /\ k \in 1..b + c /\ a + k = i /\ i \in 1..a + b
      BY <1>1, <2>2
    <3> HIDE DEF k
    <3> QED BY <1>2, <1>3, <1>4, <1>5, <3>1
  <2>3. CASE a + b < i
    <3> DEFINE k == i - (a + b)
               l == i - a
    <3>1. k \in 1..c /\ a + b + k = i /\ l \in 1..b + c /\ a + l = i /\ b + k = l
      BY <1>1, <2>3
    <3> HIDE DEF k, l
    <3>2. x[i] = r[k] /\ qr[l] = r[k]
      BY <1>3, <1>4, <3>1
    <3>3. y[i] = qr[l]
      BY <1>5, <3>1
    <3> QED BY <3>2, <3>3
  <2> QED BY <1>1, <2>1, <2>2, <2>3
<1>7. Len(x) = Len(y)
  BY <1>1, <1>4, <1>5
<1>8. x = y
  BY <1>4, <1>5, <1>6, <1>7, SeqSame
<1> QED BY <1>8 DEF x, y, pq, qr

\* Nothing concatenated changes nothing.
LEMMA CatNone ==
    ASSUME NEW p, IsSeq(p)
    PROVE  p \o << >> = p /\ << >> \o p = p
<1> DEFINE x == p \o << >>
           y == << >> \o p
<1>1. IsSeq(<< >>) /\ Len(<< >>) = 0
  BY SeqEmpty
<1>2. /\ IsSeq(x) /\ Len(x) = Len(p) + 0
      /\ \A i \in 1..Len(p) : x[i] = p[i]
  BY <1>1, SeqCat
<1>3. /\ IsSeq(y) /\ Len(y) = 0 + Len(p)
      /\ \A i \in 1..Len(p) : y[0 + i] = p[i]
  BY <1>1, SeqCat
<1>4. Len(p) \in Nat
  BY SeqIs
<1> HIDE DEF x, y
<1>5. Len(x) = Len(p) /\ Len(y) = Len(p)
  BY <1>2, <1>3, <1>4
<1>6. \A i \in 1..Len(p) : y[i] = p[i]
  <2>1. \A i \in 1..Len(p) : 0 + i = i
    BY <1>4
  <2> QED BY <1>3, <2>1
<1>7. x = p
  BY <1>2, <1>5, SeqSame
<1>8. y = p
  <2>1. \A i \in 1..Len(y) : y[i] = p[i]
    BY <1>5, <1>6
  <2> QED BY <1>3, <1>5, <2>1, SeqSame
<1> QED BY <1>7, <1>8 DEF x, y

\* No calls lead nowhere else.
LEMMA ViaNone ==
    ASSUME NEW v
    PROVE  Via(v, << >>, v)
<1>1. IsSeq(<< >>)
  BY SeqEmpty
<1>2. \A q : IsSeq(q) => << >> \o q = q
  BY CatNone
<1> QED BY <1>1, <1>2 DEF Via

\* One sound call is a way.
LEMMA ViaStep ==
    ASSUME NEW c, ~Quiet(c), NEW v, NEW w, StepOK(c, v, w)
    PROVE  Via(v, <<c>>, w)
<1>1. IsSeq(<<c>>)
  BY SeqOne
<1>2. ASSUME NEW q, IsSeq(q), Sound(w, q)
      PROVE  Sound(v, <<c>> \o q)
  <2> DEFINE p == <<c>> \o q
  <2>1. p # << >> /\ Head(p) = c /\ Tail(p) = q
    BY <1>2, SeqCons
  <2> HIDE DEF p
  <2>2. Sound(v, p)
    BY <1>2, <2>1, SoundStep
  <2> QED BY <2>2 DEF p
<1> QED BY <1>1, <1>2 DEF Via

\* One way after another is a way.
LEMMA ViaThen ==
    ASSUME NEW v, NEW p, NEW w, Via(v, p, w), NEW q, NEW x, Via(w, q, x)
    PROVE  Via(v, p \o q, x)
<1>1. IsSeq(p) /\ IsSeq(q)
  BY DEF Via
<1>2. IsSeq(p \o q)
  BY <1>1, SeqCat
<1>3. ASSUME NEW r, IsSeq(r), Sound(x, r)
      PROVE  Sound(v, (p \o q) \o r)
  <2>1. Sound(w, q \o r)
    BY <1>3 DEF Via
  <2>2. IsSeq(q \o r)
    BY <1>1, <1>3, SeqCat
  <2>3. Sound(v, p \o (q \o r))
    BY <2>1, <2>2 DEF Via
  <2>4. (p \o q) \o r = p \o (q \o r)
    BY <1>1, <1>3, SeqAssoc
  <2> QED BY <2>3, <2>4
<1> QED BY <1>2, <1>3 DEF Via

\* A plan is sound when a way leads to where its rest is sound.
LEMMA ViaSound ==
    ASSUME NEW v, NEW p, NEW w, Via(v, p, w)
    PROVE  /\ Good(w) => Sound(v, p)
           /\ \A q : IsSeq(q) /\ Sound(w, q) => Sound(v, p \o q)
<1>1. IsSeq(p) /\ IsSeq(<< >>)
  BY SeqEmpty DEF Via
<1>2. Good(w) => Sound(v, p \o << >>)
  BY <1>1, SoundEnd DEF Via
<1>3. p \o << >> = p
  BY <1>1, CatNone
<1> QED BY <1>2, <1>3 DEF Via

\* Two calls, one after the other.
LEMMA Pair ==
    ASSUME NEW a, NEW b
    PROVE  <<a, b>> = <<a>> \o <<b>>
<1> DEFINE z == <<a>>
<1>0. IsSeq(z) /\ Len(z) = 1 /\ z[1] = a
  BY SeqOne
<1> DEFINE x == <<a, b>>
           y == <<b>>
           w == z \o y
<1>1. x \in Seq({a, b}) /\ y \in Seq({b})
  OBVIOUS
<1>2. IsSeq(x) /\ IsSeq(y) /\ Len(x) = 2 /\ Len(y) = 1
  BY <1>1, SeqTyped
<1>3. x[1] = a /\ x[2] = b /\ y[1] = b
  OBVIOUS
<1> HIDE DEF x, y, z
<1>4. /\ IsSeq(w) /\ Len(w) = Len(z) + Len(y)
      /\ \A i \in 1..Len(z) : w[i] = z[i]
      /\ \A i \in 1..Len(y) : w[Len(z) + i] = y[i]
  <2>1. IsSeq(z) /\ IsSeq(y)
    BY <1>0, <1>2
  <2> QED BY ONLY <2>1, SeqCat
<1> HIDE DEF w
<1>5. Len(w) = 2 /\ w[1] = a /\ w[2] = y[1]
  BY <1>0, <1>2, <1>4
<1>6. \A i \in 1..2 : x[i] = w[i]
  BY <1>3, <1>5
<1>7. x = w
  BY <1>2, <1>4, <1>5, <1>6, SeqSame
<1> QED BY <1>7 DEF x, y, z, w

\* Three calls, the first put before two.
LEMMA PairOnto ==
    ASSUME NEW a, NEW b, NEW c
    PROVE  <<a, b, c>> = <<a>> \o <<b, c>>
<1> DEFINE z == <<a>>
<1>0. IsSeq(z) /\ Len(z) = 1 /\ z[1] = a
  BY SeqOne
<1> DEFINE x == <<a, b, c>>
           y == <<b, c>>
           w == z \o y
<1>1. x \in Seq({a, b, c}) /\ y \in Seq({b, c})
  OBVIOUS
<1>2. IsSeq(x) /\ IsSeq(y) /\ Len(x) = 3 /\ Len(y) = 2
  BY <1>1, SeqTyped
<1>3. x[1] = a /\ x[2] = b /\ x[3] = c /\ y[1] = b /\ y[2] = c
  OBVIOUS
<1> HIDE DEF x, y, z
<1>4. /\ IsSeq(w) /\ Len(w) = Len(z) + Len(y)
      /\ \A i \in 1..Len(z) : w[i] = z[i]
      /\ \A i \in 1..Len(y) : w[Len(z) + i] = y[i]
  <2>1. IsSeq(z) /\ IsSeq(y)
    BY <1>0, <1>2
  <2> QED BY ONLY <2>1, SeqCat
<1> HIDE DEF w
<1>5. Len(w) = 3 /\ w[1] = a /\ w[2] = y[1] /\ w[3] = y[2]
  BY <1>0, <1>2, <1>4
<1>6. \A i \in 1..3 : x[i] = w[i]
  BY <1>3, <1>5
<1>7. x = w
  BY <1>2, <1>4, <1>5, <1>6, SeqSame
<1> QED BY <1>7 DEF x, y, z, w

\* Four calls, the first put before three.
LEMMA TripleOnto ==
    ASSUME NEW a, NEW b, NEW c, NEW d
    PROVE  <<a, b, c, d>> = <<a>> \o <<b, c, d>>
<1> DEFINE z == <<a>>
<1>0. IsSeq(z) /\ Len(z) = 1 /\ z[1] = a
  BY SeqOne
<1> DEFINE x == <<a, b, c, d>>
           y == <<b, c, d>>
           w == z \o y
<1>1. x \in Seq({a, b, c, d}) /\ y \in Seq({b, c, d})
  OBVIOUS
<1>2. IsSeq(x) /\ IsSeq(y) /\ Len(x) = 4 /\ Len(y) = 3
  BY <1>1, SeqTyped
<1>3. x[1] = a /\ x[2] = b /\ x[3] = c /\ x[4] = d /\ y[1] = b /\ y[2] = c /\ y[3] = d
  OBVIOUS
<1> HIDE DEF x, y, z
<1>4. /\ IsSeq(w) /\ Len(w) = Len(z) + Len(y)
      /\ \A i \in 1..Len(z) : w[i] = z[i]
      /\ \A i \in 1..Len(y) : w[Len(z) + i] = y[i]
  <2>1. IsSeq(z) /\ IsSeq(y)
    BY <1>0, <1>2
  <2> QED BY ONLY <2>1, SeqCat
<1> HIDE DEF w
<1>5. Len(w) = 4 /\ w[1] = a /\ w[2] = y[1] /\ w[3] = y[2] /\ w[4] = y[3]
  BY <1>0, <1>2, <1>4
<1>6. \A i \in 1..4 : x[i] = w[i]
  BY <1>3, <1>5
<1>7. x = w
  BY <1>2, <1>4, <1>5, <1>6, SeqSame
<1> QED BY <1>7 DEF x, y, z, w

\* Three calls, one after the other.
LEMMA Triple ==
    ASSUME NEW a, NEW b, NEW c
    PROVE  <<a, b, c>> = <<a>> \o (<<b>> \o <<c>>)
<1>1. <<a, b, c>> = <<a>> \o <<b, c>> /\ <<b, c>> = <<b>> \o <<c>>
  BY PairOnto, Pair
<1> QED BY <1>1

---------------------------------------------------------------------------
(* Changes to a file that no table needs.                                  *)

\* What table d publishes does not refer to f.
FreeOf(F, d, f) ==
    d.cur # 0 => /\ f # Cur(d.cur) /\ f # Man(d.cur)
                 /\ \A id \in Referenced(ManifestAt(F, d.cur)) : f # Part(id)

\* No table that may survive a crash refers to f.
Free(F, ds, f) == \A k \in 1..Len(ds) : FreeOf(F, ds[k], f)

\* G is F but for file f.
OffFile(F, G, f) ==
    DOMAIN F \subseteq DOMAIN G /\ \A x \in DOMAIN F : x # f => G[x] = F[x]

\* Table e has all that table d has.
Extends(d, e) ==
    IsTable(e) /\ e.cur = d.cur /\ d.man \subseteq e.man /\ d.part \subseteq e.part

\* Every new table extends an old one, so nothing published loses a name.
Grows(ds, es) ==
    /\ IsSeq(es) /\ Len(es) > 0 /\ Extends(Last(ds), Last(es))
    /\ \A k \in 1..Len(es) : \E j \in 1..Len(ds) : Extends(ds[j], es[k])

\* A change to a file nothing refers to leaves the table leading where it led.
LEMMA FreeLeads ==
    ASSUME NEW F, NEW d, NEW s, Leads(F, d, s), IsLog(s), NEW f, FreeOf(F, d, f),
           NEW G, OffFile(F, G, f), NEW e, Extends(d, e)
    PROVE  /\ Leads(G, e, s) /\ FreeOf(G, e, f)
           /\ d.cur # 0 => ManifestAt(G, d.cur) = ManifestAt(F, d.cur)
<1>1. Len(s.log) \in Nat /\ s.stable \in Nat
  BY LogIs
<1>2. Keeps(F, G, d, e)
  <2>1. e.cur = d.cur
    BY DEF Extends
  <2>2. ASSUME d.cur # 0
        PROVE  LET m == ManifestAt(F, d.cur)
               IN /\ d.cur \in e.man /\ Referenced(m) \subseteq e.part
                  /\ SameFile(F, G, Cur(d.cur)) /\ SameFile(F, G, Man(d.cur))
                  /\ \A id \in Referenced(m) : SameFile(F, G, Part(id))
    <3> DEFINE m == ManifestAt(F, d.cur)
    <3>1. LeadsTo(F, d, m, s)
      BY <2>2, LeadsIs
    <3> HIDE DEF m
    <3>2. /\ d.cur \in d.man /\ Referenced(m) \subseteq d.part
          /\ Cur(d.cur) \in DOMAIN F /\ Man(d.cur) \in DOMAIN F
          /\ \A id \in Referenced(m) : Part(id) \in DOMAIN F
      BY <3>1 DEF LeadsTo, Ready
    <3>3. /\ f # Cur(d.cur) /\ f # Man(d.cur)
          /\ \A id \in Referenced(m) : f # Part(id)
      BY <2>2 DEF FreeOf, m
    <3>4. \A x \in DOMAIN F : x # f => SameFile(F, G, x)
      BY DEF OffFile, SameFile
    <3>5. /\ d.cur \in e.man /\ Referenced(m) \subseteq e.part
          /\ SameFile(F, G, Cur(d.cur)) /\ SameFile(F, G, Man(d.cur))
          /\ \A id \in Referenced(m) : SameFile(F, G, Part(id))
      BY <3>2, <3>3, <3>4 DEF Extends
    <3> QED BY <3>5 DEF m
  <2> QED BY <2>1, <2>2 DEF Keeps
<1>3. Leads(G, e, s) /\ (d.cur # 0 => ManifestAt(G, e.cur) = ManifestAt(F, d.cur))
  BY <1>1, <1>2, LeadsKept
<1>4. e.cur = d.cur
  BY DEF Extends
<1> QED BY <1>3, <1>4 DEF FreeOf

\* A table extends itself.
LEMMA ExtendsSelf ==
    ASSUME NEW d, IsTable(d)
    PROVE  Extends(d, d)
BY DEF Extends

\* A change to a file nothing refers to leaves the disk safe.
LEMMA FreeSafe ==
    ASSUME NEW F, NEW ds, NEW f, Free(F, ds, f), NEW G, OffFile(F, G, f), NEW es, Grows(ds, es),
           NEW S, Safe(F, ds, S)
    PROVE  /\ Safe(G, es, S) /\ Free(G, es, f)
           /\ \A g, s : AllLead(F, ds, g, s) =>
                 AllLead(G, es, g, s) /\ (g # 0 => ManifestAt(G, g) = ManifestAt(F, g))
<1>1. ASSUME NEW k \in 1..Len(es)
      PROVE  IsTable(es[k]) /\ FreeOf(G, es[k], f) /\ \E s \in S : Leads(G, es[k], s)
  <2>1. PICK j \in 1..Len(ds) : Extends(ds[j], es[k])
    BY DEF Grows
  <2>2. PICK s \in S : IsLog(s) /\ Leads(F, ds[j], s)
    BY DEF Safe
  <2>3. FreeOf(F, ds[j], f)
    BY DEF Free
  <2>4. Leads(G, es[k], s) /\ FreeOf(G, es[k], f)
    BY <2>1, <2>2, <2>3, FreeLeads
  <2> QED BY <2>1, <2>4 DEF Extends
<1>2. Safe(G, es, S) /\ Free(G, es, f)
  BY <1>1 DEF Safe, Grows, Free
<1>3. ASSUME NEW g, NEW s, AllLead(F, ds, g, s)
      PROVE  AllLead(G, es, g, s) /\ (g # 0 => ManifestAt(G, g) = ManifestAt(F, g))
  <2>1. ASSUME NEW k \in 1..Len(es)
        PROVE  /\ IsTable(es[k]) /\ es[k].cur = g /\ Leads(G, es[k], s)
               /\ g # 0 => ManifestAt(G, g) = ManifestAt(F, g)
    <3>1. PICK j \in 1..Len(ds) : Extends(ds[j], es[k])
      BY DEF Grows
    <3>2. IsLog(s) /\ Leads(F, ds[j], s) /\ ds[j].cur = g
      BY <1>3 DEF AllLead
    <3>3. FreeOf(F, ds[j], f)
      BY DEF Free
    <3>4. /\ Leads(G, es[k], s)
          /\ ds[j].cur # 0 => ManifestAt(G, ds[j].cur) = ManifestAt(F, ds[j].cur)
      BY <3>1, <3>2, <3>3, FreeLeads
    <3> QED BY <3>1, <3>2, <3>4 DEF Extends
  <2>2. 1 \in 1..Len(es)
    BY SeqIs DEF Grows
  <2> QED BY <1>3, <2>1, <2>2 DEF AllLead, Grows
<1> QED BY <1>2, <1>3

\* A handle still finds its records when its parts keep their contents.
LEMMA FindsKept ==
    ASSUME NEW F, NEW d, NEW hd, NEW log, Finds(F, d, hd, log),
           NEW G, NEW e, d.part \subseteq e.part,
           \A p \in 1..Len(hd.parts) : /\ Part(hd.parts[p].id) \in DOMAIN G
                                       /\ G[Part(hd.parts[p].id)].live = F[Part(hd.parts[p].id)].live
    PROVE  Finds(G, e, hd, log)
BY DEF Finds

\* Neither a table nor the open ledger needs file f.
Spare(v, f) ==
    /\ Free(v.file, v.dirs, f)
    /\ v.mode = "open" /\ v.next = {} => \A p \in 1..Len(v.h.parts) : f # Part(v.h.parts[p].id)

\* A change to a spare file keeps the world steady.
LEMMA SpareChange ==
    ASSUME NEW v, Steady(v), NEW f, Spare(v, f), NEW G, OffFile(v.file, G, f), AreFiles(G),
           NEW es, Grows(v.dirs, es), NEW w, w = With(v, G, es)
    PROVE  /\ Steady(w) /\ Spare(w, f)
           /\ \A g, s : AllLead(v.file, v.dirs, g, s) =>
                 /\ AllLead(w.file, w.dirs, g, s)
                 /\ g # 0 => ManifestAt(w.file, g) = ManifestAt(v.file, g)
<1>1. /\ w.file = G /\ w.dirs = es /\ w.mode = v.mode /\ w.h = v.h
      /\ w.cur = v.cur /\ w.next = v.next
  BY DEF With, World
<1>2. Logs(w) = Logs(v)
  BY <1>1 DEF Logs
<1>3. Free(v.file, v.dirs, f) /\ Safe(v.file, v.dirs, Logs(v))
  BY DEF Spare, Steady
<1>4. /\ Safe(G, es, Logs(v)) /\ Free(G, es, f)
      /\ \A g, s : AllLead(v.file, v.dirs, g, s) =>
            AllLead(G, es, g, s) /\ (g # 0 => ManifestAt(G, g) = ManifestAt(v.file, g))
  BY <1>3, FreeSafe
<1>5. ASSUME v.mode = "open", v.next = {}
      PROVE  Finds(G, Last(es), v.h, v.cur.log)
  <2>1. Finds(v.file, Last(v.dirs), v.h, v.cur.log)
    BY <1>5 DEF Steady, Top
  <2>2. Last(v.dirs).part \subseteq Last(es).part
    BY DEF Grows, Extends
  <2>3. \A p \in 1..Len(v.h.parts) :
           /\ Part(v.h.parts[p].id) \in DOMAIN G
           /\ G[Part(v.h.parts[p].id)].live = v.file[Part(v.h.parts[p].id)].live
    <3>1. \A p \in 1..Len(v.h.parts) : Part(v.h.parts[p].id) \in DOMAIN v.file
      BY <2>1 DEF Finds
    <3> QED BY <1>5, <3>1 DEF OffFile, Spare
  <2> QED BY <2>1, <2>2, <2>3, FindsKept
<1>6. Steady(w)
  BY <1>1, <1>2, <1>4, <1>5 DEF Steady, Top
<1>7. Spare(w, f)
  BY <1>1, <1>4 DEF Spare
<1> QED BY <1>1, <1>4, <1>6, <1>7

\* What all tables lead to in v they lead to in w.
KeepsAll(v, w) ==
    \A g, s : AllLead(v.file, v.dirs, g, s) =>
        /\ AllLead(w.file, w.dirs, g, s)
        /\ g # 0 => ManifestAt(w.file, g) = ManifestAt(v.file, g)

\* The files after f was made durable.
FsyncedIn(F, f) == [F EXCEPT ![f].hard = F[f].live]

\* Creating f changes f alone and leaves it empty.
LEMMA CreatedIs ==
    ASSUME NEW F, AreFiles(F), NEW f, NEW G, G = CreatedIn(F, f)
    PROVE  /\ OffFile(F, G, f) /\ AreFiles(G) /\ DOMAIN G = DOMAIN F \union {f}
           /\ G[f].live = << >>
BY DEF CreatedIn, OffFile, AreFiles

\* Writing to f changes f alone, by one item at its end.
LEMMA WrittenIs ==
    ASSUME NEW F, AreFiles(F), NEW f, f \in DOMAIN F, NEW x, NEW G, G = WrittenIn(F, f, x)
    PROVE  /\ OffFile(F, G, f) /\ AreFiles(G) /\ DOMAIN G = DOMAIN F
           /\ G[f] = [live |-> Append(F[f].live, x), hard |-> F[f].hard]
<1>1. F[f] = [live |-> F[f].live, hard |-> F[f].hard]
  BY DEF AreFiles
<1>2. DOMAIN G = DOMAIN F /\ G[f] = [F[f] EXCEPT !.live = Append(F[f].live, x)]
      /\ \A g \in DOMAIN F : g # f => G[g] = F[g]
  BY DEF WrittenIn
<1>3. G[f] = [live |-> Append(F[f].live, x), hard |-> F[f].hard]
  <2> DEFINE y == F[f]
             l == Append(F[f].live, x)
             b == F[f].live
             c == F[f].hard
  <2>1. y = [live |-> b, hard |-> c] /\ G[f] = [y EXCEPT !.live = l]
    BY <1>1, <1>2
  <2> HIDE DEF y, l, b, c
  <2>2. G[f] = [live |-> l, hard |-> c]
    BY <2>1
  <2> QED BY <2>2 DEF l, c
<1>4. AreFiles(G)
  BY <1>2, <1>3 DEF AreFiles
<1> QED BY <1>2, <1>3, <1>4 DEF OffFile

\* Syncing f changes f alone, and makes its content durable.
LEMMA FsyncedIs ==
    ASSUME NEW F, AreFiles(F), NEW f, f \in DOMAIN F, NEW G, G = FsyncedIn(F, f)
    PROVE  /\ OffFile(F, G, f) /\ AreFiles(G) /\ DOMAIN G = DOMAIN F
           /\ G[f] = [live |-> F[f].live, hard |-> F[f].live]
<1>1. F[f] = [live |-> F[f].live, hard |-> F[f].hard]
  BY DEF AreFiles
<1>2. DOMAIN G = DOMAIN F /\ G[f] = [F[f] EXCEPT !.hard = F[f].live]
      /\ \A g \in DOMAIN F : g # f => G[g] = F[g]
  BY DEF FsyncedIn
<1>3. G[f] = [live |-> F[f].live, hard |-> F[f].live]
  <2> DEFINE y == F[f]
             b == F[f].live
             c == F[f].hard
  <2>1. y = [live |-> b, hard |-> c] /\ G[f] = [y EXCEPT !.hard = b]
    BY <1>1, <1>2
  <2> HIDE DEF y, b, c
  <2>2. G[f] = [live |-> b, hard |-> b]
    BY <2>1
  <2> QED BY <2>2 DEF b
<1>4. AreFiles(G)
  BY <1>2, <1>3 DEF AreFiles
<1> QED BY <1>2, <1>3, <1>4 DEF OffFile

\* A name the ledger gives to a file.
IsFileName(f) == \E n \in Nat : f = Part(n) \/ f = Man(n) \/ f = Cur(n)

\* Adding a name extends the table by it.
LEMMA AddNameIs ==
    ASSUME NEW d, IsTable(d), NEW f, IsFileName(f)
    PROVE  Extends(d, AddName(d, f)) /\ HasName(AddName(d, f), f)
<1>1. PICK n \in Nat : f = Part(n) \/ f = Man(n) \/ f = Cur(n)
  BY DEF IsFileName
<1> DEFINE e == AddName(d, f)
<1>2. d \in [part : SUBSET Nat, man : SUBSET Nat, cur : Nat, tmp : Nat]
      /\ IsFiniteSet(d.part) /\ IsFiniteSet(d.man)
  BY DEF IsTable
<1>3. IsFiniteSet(d.part \union {n}) /\ IsFiniteSet(d.man \union {n})
  BY <1>2, FS_AddElement
<1>4. CASE f = Part(n)
  <2>1. f[1] = "part" /\ f[2] = n
    BY <1>4 DEF Part
  <2>2. e = [d EXCEPT !.part = @ \union {n}]
    BY <2>1 DEF AddName
  <2>3. e \in [part : SUBSET Nat, man : SUBSET Nat, cur : Nat, tmp : Nat]
        /\ e.part = d.part \union {n} /\ e.man = d.man /\ e.cur = d.cur
    BY <1>2, <2>2
  <2> HIDE DEF e
  <2>4. Extends(d, e)
    BY <1>2, <1>3, <2>3 DEF Extends, IsTable
  <2> QED BY <2>1, <2>3, <2>4 DEF e, HasName
<1>5. CASE f = Man(n)
  <2>1. f[1] = "man" /\ f[2] = n
    BY <1>5 DEF Man
  <2>2. e = [d EXCEPT !.man = @ \union {n}]
    BY <2>1 DEF AddName
  <2>3. e \in [part : SUBSET Nat, man : SUBSET Nat, cur : Nat, tmp : Nat]
        /\ e.part = d.part /\ e.man = d.man \union {n} /\ e.cur = d.cur
    BY <1>2, <2>2
  <2> HIDE DEF e
  <2>4. Extends(d, e)
    BY <1>2, <1>3, <2>3 DEF Extends, IsTable
  <2> QED BY <2>1, <2>3, <2>4 DEF e, HasName
<1>6. CASE f = Cur(n)
  <2>1. f[1] = "cur" /\ f[2] = n
    BY <1>6 DEF Cur
  <2>2. e = [d EXCEPT !.tmp = n]
    BY <2>1 DEF AddName
  <2>3. e \in [part : SUBSET Nat, man : SUBSET Nat, cur : Nat, tmp : Nat]
        /\ e.part = d.part /\ e.man = d.man /\ e.cur = d.cur /\ e.tmp = n
    BY <1>2, <2>2
  <2> HIDE DEF e
  <2>4. Extends(d, e)
    BY <1>2, <2>3 DEF Extends, IsTable
  <2> QED BY <2>1, <2>3, <2>4 DEF e, HasName
<1> QED BY <1>1, <1>4, <1>5, <1>6

\* A safe disk has at least one table, the process's own last.
LEMMA SafeTables ==
    ASSUME NEW F, NEW ds, NEW S, Safe(F, ds, S)
    PROVE  /\ IsSeq(ds) /\ Len(ds) \in Nat /\ Len(ds) > 0 /\ Len(ds) \in 1..Len(ds)
           /\ Last(ds) = ds[Len(ds)] /\ IsTable(Last(ds))
           /\ \A k \in 1..Len(ds) : IsTable(ds[k])
<1>1. IsSeq(ds) /\ Len(ds) > 0 /\ \A k \in 1..Len(ds) : IsTable(ds[k])
  BY DEF Safe
<1>2. Len(ds) \in Nat
  BY <1>1, SeqIs
<1>3. Last(ds) = ds[Len(ds)]
  BY DEF Last
<1> QED BY <1>1, <1>2, <1>3

\* Changing the process's table to an extension of it only adds names.
LEMMA NamedGrows ==
    ASSUME NEW F, NEW ds, NEW S, Safe(F, ds, S), NEW d, Extends(Last(ds), d),
           NEW es, es = NamedIn(ds, d) \/ es = ds
    PROVE  Grows(ds, es) /\ (es = NamedIn(ds, d) => Last(es) = d)
<1>1. /\ IsSeq(ds) /\ Len(ds) \in Nat /\ Len(ds) > 0 /\ Len(ds) \in 1..Len(ds)
      /\ Last(ds) = ds[Len(ds)] /\ IsTable(Last(ds))
      /\ \A k \in 1..Len(ds) : IsTable(ds[k])
  BY SafeTables
<1>2. CASE es = ds
  <2>1. \A k \in 1..Len(ds) : Extends(ds[k], ds[k])
    BY <1>1, ExtendsSelf
  <2>2. Grows(ds, es)
    BY <1>1, <1>2, <2>1 DEF Grows
  <2>3. es = NamedIn(ds, d) => Last(es) = d
    BY <1>1, NamedInIs
  <2> QED BY <2>2, <2>3
<1>3. CASE es = NamedIn(ds, d)
  <2>1. /\ IsSeq(es) /\ Len(es) > 0 /\ Last(es) = d
        /\ \A k \in 1..Len(es) : es[k] = d \/ \E j \in 1..Len(ds) : es[k] = ds[j]
    BY <1>1, <1>3, NamedInIs
  <2>2. ASSUME NEW k \in 1..Len(es)
        PROVE  \E j \in 1..Len(ds) : Extends(ds[j], es[k])
    <3>1. CASE es[k] = d
      BY <1>1, <3>1
    <3>2. CASE \E j \in 1..Len(ds) : es[k] = ds[j]
      BY <1>1, <3>2, ExtendsSelf
    <3> QED BY <2>1, <3>1, <3>2
  <2> QED BY <2>1, <2>2 DEF Grows
<1> QED BY <1>2, <1>3

---------------------------------------------------------------------------
(* Writing a new file.                                                     *)

\* Plan p, which touches no file but f, leads from v to w.
Fills(v, p, f, w) ==
    /\ Via(v, p, w) /\ Steady(w) /\ Spare(w, f) /\ KeepsAll(v, w)
    /\ w = With(v, w.file, w.dirs)
    /\ OffFile(v.file, w.file, f) /\ Extends(Top(v), Top(w))

\* The same world on another disk differs in the disk alone.
LEMMA WithIs ==
    ASSUME NEW v, NEW F, NEW ds, NEW w, w = With(v, F, ds)
    PROVE  /\ w.file = F /\ w.dirs = ds /\ w.mode = v.mode /\ w.h = v.h
           /\ w.cur = v.cur /\ w.next = v.next /\ Logs(w) = Logs(v)
           /\ \A G, es : With(w, G, es) = With(v, G, es)
BY DEF With, World, Logs

\* Filling a spare file in two stages.
LEMMA FillsThen ==
    ASSUME NEW v, NEW p, NEW f, NEW w, Fills(v, p, f, w), NEW q, NEW x, Fills(w, q, f, x)
    PROVE  Fills(v, p \o q, f, x)
<1>1. Via(v, p \o q, x)
  BY ViaThen DEF Fills
<1>2. KeepsAll(v, x)
  BY DEF Fills, KeepsAll
<1>3. x = With(v, x.file, x.dirs)
  BY WithIs DEF Fills
<1>4. OffFile(v.file, x.file, f)
  BY DEF Fills, OffFile
<1>5. Extends(Top(v), Top(x))
  BY DEF Fills, Extends
<1> QED BY <1>1, <1>2, <1>3, <1>4, <1>5 DEF Fills

\* A call that changes only the spare file f.
LEMMA FillsCall ==
    ASSUME NEW v, Steady(v), NEW f, Spare(v, f),
           NEW c, ~Quiet(c), c.op # "set", c.op # "alloc",
           NEW G, OffFile(v.file, G, f), AreFiles(G), NEW es, Grows(v.dirs, es),
           Performed(c, v.file, v.dirs, G, es),
           c.op \in {"write", "seal"} => c.f = f /\ f \in DOMAIN v.file
    PROVE  Fills(v, <<c>>, f, With(v, G, es))
<1> DEFINE w == With(v, G, es)
<1>1. /\ w.file = G /\ w.dirs = es
      /\ w = With(v, w.file, w.dirs)
  BY WithIs
<1>2. Steady(w) /\ Spare(w, f) /\ KeepsAll(v, w)
  BY SpareChange DEF KeepsAll
<1>3. ASSUME c.op \in {"write", "seal"}
      PROVE  Steady(With(v, WrittenIn(v.file, c.f, Torn), v.dirs))
  <2> DEFINE T == WrittenIn(v.file, f, Torn)
  <2>1. AreFiles(v.file) /\ Safe(v.file, v.dirs, Logs(v))
    BY DEF Steady
  <2>2. OffFile(v.file, T, f) /\ AreFiles(T)
    BY <1>3, <2>1, WrittenIs
  <2>3. IsTable(Top(v))
    BY <2>1, SafeTables DEF Top
  <2>4. Extends(Last(v.dirs), Top(v))
    BY <2>3, ExtendsSelf DEF Top
  <2>5. Grows(v.dirs, v.dirs)
    BY <2>1, <2>4, NamedGrows
  <2> HIDE DEF T
  <2>6. Steady(With(v, T, v.dirs))
    BY <2>2, <2>5, SpareChange
  <2> QED BY <1>3, <2>6 DEF T
<1>4. StepOK(c, v, w)
  BY <1>1, <1>2, <1>3 DEF StepOK
<1>5. Via(v, <<c>>, w)
  BY <1>4, ViaStep
<1>6. Extends(Top(v), Top(w))
  BY <1>1 DEF Grows, Top
<1> QED BY <1>1, <1>2, <1>5, <1>6 DEF Fills

\* What a steady world gives.
LEMMA SteadyIs ==
    ASSUME NEW v, Steady(v)
    PROVE  /\ AreFiles(v.file) /\ Safe(v.file, v.dirs, Logs(v)) /\ IsTable(Top(v))
           /\ Extends(Last(v.dirs), Top(v)) /\ Grows(v.dirs, v.dirs)
<1>1. AreFiles(v.file) /\ Safe(v.file, v.dirs, Logs(v))
  BY DEF Steady
<1>2. IsTable(Top(v))
  BY <1>1, SafeTables DEF Top
<1>3. Extends(Last(v.dirs), Top(v))
  BY <1>2, ExtendsSelf DEF Top
<1>4. Grows(v.dirs, v.dirs)
  BY <1>1, <1>3, NamedGrows
<1> QED BY <1>1, <1>2, <1>3, <1>4

\* Creating a spare file is sound.
LEMMA FillsCreate ==
    ASSUME NEW v, Steady(v), NEW f, Spare(v, f), IsFileName(f)
    PROVE  \E w : /\ Fills(v, <<CreateCall(f)>>, f, w)
                  /\ f \in DOMAIN w.file /\ w.file[f].live = << >>
                  /\ w.dirs = NamedIn(v.dirs, AddName(Top(v), f))
                  /\ Top(w) = AddName(Top(v), f)
<1> DEFINE c == CreateCall(f)
           G == CreatedIn(v.file, f)
           es == NamedIn(v.dirs, AddName(Top(v), f))
           w == With(v, G, es)
<1>1. AreFiles(v.file) /\ Safe(v.file, v.dirs, Logs(v)) /\ IsTable(Top(v))
  BY SteadyIs
<1>2. OffFile(v.file, G, f) /\ AreFiles(G) /\ DOMAIN G = DOMAIN v.file \union {f}
      /\ G[f].live = << >>
  BY <1>1, CreatedIs
<1>3. Extends(Last(v.dirs), AddName(Top(v), f))
  BY <1>1, AddNameIs DEF Top
<1>4. Grows(v.dirs, es) /\ Last(es) = AddName(Top(v), f)
  BY <1>1, <1>3, NamedGrows
<1>5. c.op = "create" /\ c.f = f
  BY DEF CreateCall
<1>6. ~Quiet(c)
  BY <1>5 DEF Quiet
<1>7. Performed(c, v.file, v.dirs, G, es)
  BY <1>5 DEF Performed, Top
<1>8. w.file = G /\ w.dirs = es
  BY WithIs
<1> HIDE DEF c, G, es
<1>9. Fills(v, <<c>>, f, w)
  BY <1>2, <1>4, <1>5, <1>6, <1>7, FillsCall
<1>10. Fills(v, <<c>>, f, w) /\ f \in DOMAIN w.file /\ w.file[f].live = << >>
       /\ w.dirs = es /\ Top(w) = AddName(Top(v), f)
  BY <1>2, <1>4, <1>8, <1>9 DEF Top
<1> HIDE DEF w
<1> QED BY <1>10 DEF c, es

\* Writing to a spare file is sound.
LEMMA FillsWrite ==
    ASSUME NEW v, Steady(v), NEW f, Spare(v, f), f \in DOMAIN v.file,
           NEW x, NEW c, c = WriteCall(f, x)
                         \/ /\ c.op = "seal" /\ c.f = f
                            /\ x = [c.item EXCEPT !.digest = Tail(ReadIn(v.file, v.dirs, f))]
    PROVE  \E w : /\ Fills(v, <<c>>, f, w)
                  /\ DOMAIN w.file = DOMAIN v.file /\ w.dirs = v.dirs
                  /\ w.file[f].live = Append(v.file[f].live, x)
<1> DEFINE G == WrittenIn(v.file, f, x)
           w == With(v, G, v.dirs)
<1>1. AreFiles(v.file) /\ Grows(v.dirs, v.dirs)
  BY SteadyIs
<1>2. OffFile(v.file, G, f) /\ AreFiles(G) /\ DOMAIN G = DOMAIN v.file
      /\ G[f].live = Append(v.file[f].live, x)
  <2>1. G = WrittenIn(v.file, f, x)
    OBVIOUS
  <2> HIDE DEF G
  <2>2. OffFile(v.file, G, f) /\ AreFiles(G) /\ DOMAIN G = DOMAIN v.file
        /\ G[f] = [live |-> Append(v.file[f].live, x), hard |-> v.file[f].hard]
    BY <1>1, <2>1, WrittenIs
  <2> QED BY <2>2
<1>3. c.op \in {"write", "seal"} /\ c.f = f
  BY DEF WriteCall
<1>4. ~Quiet(c)
  BY <1>3 DEF Quiet
<1>5. Performed(c, v.file, v.dirs, G, v.dirs)
  <2>1. CASE c = WriteCall(f, x)
    <3>1. c.op = "write" /\ c.f = f /\ c.item = x
      BY <2>1 DEF WriteCall
    <3> QED BY <3>1 DEF Performed
  <2>2. CASE c.op = "seal" /\ c.f = f
             /\ x = [c.item EXCEPT !.digest = Tail(ReadIn(v.file, v.dirs, f))]
    BY <2>2 DEF Performed
  <2> QED BY <2>1, <2>2
<1>6. w.file = G /\ w.dirs = v.dirs
  BY WithIs
<1> HIDE DEF G
<1>7. Fills(v, <<c>>, f, w)
  BY <1>1, <1>2, <1>3, <1>4, <1>5, FillsCall
<1> HIDE DEF w
<1> QED BY <1>2, <1>6, <1>7

\* Syncing a spare file is sound.
LEMMA FillsFsync ==
    ASSUME NEW v, Steady(v), NEW f, Spare(v, f), f \in DOMAIN v.file
    PROVE  \E w : /\ Fills(v, <<FsyncCall(f)>>, f, w)
                  /\ DOMAIN w.file = DOMAIN v.file /\ w.dirs = v.dirs
                  /\ w.file[f].live = v.file[f].live /\ w.file[f].hard = v.file[f].live
<1> DEFINE c == FsyncCall(f)
           G == FsyncedIn(v.file, f)
           w == With(v, G, v.dirs)
<1>1. AreFiles(v.file) /\ Grows(v.dirs, v.dirs)
  BY SteadyIs
<1>2. OffFile(v.file, G, f) /\ AreFiles(G) /\ DOMAIN G = DOMAIN v.file
      /\ G[f].live = v.file[f].live /\ G[f].hard = v.file[f].live
  <2>1. G = FsyncedIn(v.file, f)
    OBVIOUS
  <2> HIDE DEF G
  <2>2. OffFile(v.file, G, f) /\ AreFiles(G) /\ DOMAIN G = DOMAIN v.file
        /\ G[f] = [live |-> v.file[f].live, hard |-> v.file[f].live]
    BY <1>1, <2>1, FsyncedIs
  <2> QED BY <2>2
<1>3. c.op = "fsync" /\ c.f = f
  BY DEF FsyncCall
<1>4. ~Quiet(c)
  BY <1>3 DEF Quiet
<1>5. Performed(c, v.file, v.dirs, G, v.dirs)
  BY <1>3 DEF Performed, FsyncedIn
<1>6. w.file = G /\ w.dirs = v.dirs
  BY WithIs
<1> HIDE DEF G, c
<1>7. Fills(v, <<c>>, f, w)
  BY <1>1, <1>2, <1>3, <1>4, <1>5, FillsCall
<1> HIDE DEF w
<1> QED BY <1>2, <1>6, <1>7 DEF c

\* A new file f with content c, on the disk and durable.
Makes(v, p, f, c, w) ==
    /\ Fills(v, p, f, w) /\ f \in DOMAIN w.file
    /\ w.file[f].live = c /\ w.file[f].hard = c
    /\ w.dirs = NamedIn(v.dirs, AddName(Top(v), f)) /\ Top(w) = AddName(Top(v), f)

\* write_new_file makes a durable file of one item, soundly.
LEMMA NewFileMade ==
    ASSUME NEW v, Steady(v), NEW f, Spare(v, f), IsFileName(f), NEW x
    PROVE  \E w : Makes(v, WriteNewFile(f, x), f, <<x>>, w)
<1>1. PICK a : /\ Fills(v, <<CreateCall(f)>>, f, a)
               /\ f \in DOMAIN a.file /\ a.file[f].live = << >>
               /\ a.dirs = NamedIn(v.dirs, AddName(Top(v), f))
               /\ Top(a) = AddName(Top(v), f)
  BY FillsCreate
<1>2. Steady(a) /\ Spare(a, f)
  BY <1>1 DEF Fills
<1>3. PICK b : /\ Fills(a, <<WriteCall(f, x)>>, f, b)
               /\ DOMAIN b.file = DOMAIN a.file /\ b.dirs = a.dirs
               /\ b.file[f].live = Append(a.file[f].live, x)
  BY <1>1, <1>2, FillsWrite
<1>4. Steady(b) /\ Spare(b, f)
  BY <1>3 DEF Fills
<1>5. PICK w : /\ Fills(b, <<FsyncCall(f)>>, f, w)
               /\ DOMAIN w.file = DOMAIN b.file /\ w.dirs = b.dirs
               /\ w.file[f].live = b.file[f].live /\ w.file[f].hard = b.file[f].live
  BY <1>1, <1>3, <1>4, FillsFsync
<1>6. Fills(a, <<WriteCall(f, x)>> \o <<FsyncCall(f)>>, f, w)
  BY <1>3, <1>5, FillsThen
<1>7. Fills(v, <<CreateCall(f)>> \o (<<WriteCall(f, x)>> \o <<FsyncCall(f)>>), f, w)
  BY <1>1, <1>6, FillsThen
<1>8. WriteNewFile(f, x) = <<CreateCall(f)>> \o (<<WriteCall(f, x)>> \o <<FsyncCall(f)>>)
  <2>1. WriteNewFile(f, x) = <<CreateCall(f), WriteCall(f, x), FsyncCall(f)>>
    BY DEF WriteNewFile
  <2> QED BY ONLY <2>1, Triple
<1>9. Append(<< >>, x) = <<x>>
  OBVIOUS
<1>10. Top(w) = Top(a)
  BY <1>3, <1>5 DEF Top
<1> QED BY <1>1, <1>3, <1>5, <1>7, <1>8, <1>9, <1>10 DEF Makes

\* part_create makes a durable file of a header and a marker, soundly.
LEMMA PartMade ==
    ASSUME NEW v, Steady(v), NEW id \in Nat, Spare(v, Part(id)), NEW first, NEW rev
    PROVE  \E w : Makes(v, PartCreate(id, first, rev), Part(id),
                        <<Header(id, rev, first), Marker(id, rev, first)>>, w)
<1> DEFINE f == Part(id)
           x == Header(id, rev, first)
           y == Marker(id, rev, first)
<1>0. IsFileName(f)
  BY DEF IsFileName
<1>8. PartCreate(id, first, rev)
        = <<CreateCall(f)>> \o (<<WriteCall(f, x)>> \o (<<WriteCall(f, y)>> \o <<FsyncCall(f)>>))
  <2>1. PartCreate(id, first, rev)
          = <<CreateCall(f), WriteCall(f, x), WriteCall(f, y), FsyncCall(f)>>
    BY DEF PartCreate
  <2> DEFINE a == CreateCall(f)
             b == WriteCall(f, x)
             c == WriteCall(f, y)
             d == FsyncCall(f)
  <2> HIDE DEF a, b, c, d
  <2>2. <<a, b, c, d>> = <<a>> \o <<b, c, d>>
    BY ONLY TripleOnto
  <2>3. <<b, c, d>> = <<b>> \o (<<c>> \o <<d>>)
    BY ONLY Triple
  <2>4. <<a, b, c, d>> = <<a>> \o (<<b>> \o (<<c>> \o <<d>>))
    BY ONLY <2>2, <2>3
  <2> QED BY <2>1, <2>4 DEF a, b, c, d
<1> HIDE DEF f, x, y
<1>1. PICK a : /\ Fills(v, <<CreateCall(f)>>, f, a)
               /\ f \in DOMAIN a.file /\ a.file[f].live = << >>
               /\ a.dirs = NamedIn(v.dirs, AddName(Top(v), f))
               /\ Top(a) = AddName(Top(v), f)
  BY <1>0, FillsCreate DEF f
<1>2. Steady(a) /\ Spare(a, f)
  BY <1>1 DEF Fills
<1>3. PICK b : /\ Fills(a, <<WriteCall(f, x)>>, f, b)
               /\ DOMAIN b.file = DOMAIN a.file /\ b.dirs = a.dirs
               /\ b.file[f].live = Append(a.file[f].live, x)
  BY <1>1, <1>2, FillsWrite
<1>4. Steady(b) /\ Spare(b, f) /\ f \in DOMAIN b.file
  BY <1>1, <1>3 DEF Fills
<1>5. PICK e : /\ Fills(b, <<WriteCall(f, y)>>, f, e)
               /\ DOMAIN e.file = DOMAIN b.file /\ e.dirs = b.dirs
               /\ e.file[f].live = Append(b.file[f].live, y)
  BY <1>4, FillsWrite
<1>6. Steady(e) /\ Spare(e, f)
  BY <1>5 DEF Fills
<1>7. PICK w : /\ Fills(e, <<FsyncCall(f)>>, f, w)
               /\ DOMAIN w.file = DOMAIN e.file /\ w.dirs = e.dirs
               /\ w.file[f].live = e.file[f].live /\ w.file[f].hard = e.file[f].live
  BY <1>1, <1>3, <1>5, <1>6, FillsFsync
<1>9. Fills(b, <<WriteCall(f, y)>> \o <<FsyncCall(f)>>, f, w)
  BY <1>5, <1>7, FillsThen
<1>10. Fills(a, <<WriteCall(f, x)>> \o (<<WriteCall(f, y)>> \o <<FsyncCall(f)>>), f, w)
  BY <1>3, <1>9, FillsThen
<1>11. Fills(v, PartCreate(id, first, rev), f, w)
  BY <1>1, <1>8, <1>10, FillsThen
<1>12. Append(Append(<< >>, x), y) = <<x, y>>
  <2>1. Append(<< >>, x) = <<x>>
    OBVIOUS
  <2>2. Append(<<x>>, y) = <<x>> \o <<y>>
    BY SeqOne, AppendCat
  <2>3. <<x, y>> = <<x>> \o <<y>>
    BY Pair
  <2> QED BY <2>1, <2>2, <2>3
<1>13. Top(w) = Top(a)
  BY <1>3, <1>5, <1>7 DEF Top
<1>14. Makes(v, PartCreate(id, first, rev), f, <<x, y>>, w)
  BY <1>1, <1>3, <1>5, <1>7, <1>11, <1>12, <1>13 DEF Makes
<1> QED BY <1>14 DEF f, x, y

---------------------------------------------------------------------------
(* Publishing a manifest.                                                  *)

\* A manifest stays ready while the files it refers to stay.
LEMMA ReadyKept ==
    ASSUME NEW F, NEW d, NEW m, NEW s, Ready(F, d, m, s),
           NEW G, NEW e, Referenced(m) \subseteq e.part,
           \A id \in Referenced(m) : SameFile(F, G, Part(id))
    PROVE  Ready(G, e, m, s)
<1>1. \A i \in 1..Len(m.sealed) : m.sealed[i].id \in Referenced(m)
  BY DEF Referenced
<1>2. m.active.id \in Referenced(m)
  BY DEF Referenced
<1>3. SafeActive(m.active, m.rev, G[Part(m.active.id)], s)
  BY <1>2, SafeSame DEF Ready, SameFile
<1>4. \A i \in 1..Len(m.sealed) :
         /\ G[Part(m.sealed[i].id)].live = F[Part(m.sealed[i].id)].live
         /\ G[Part(m.sealed[i].id)].hard = F[Part(m.sealed[i].id)].hard
  BY <1>1 DEF SameFile
<1>5. \A i \in 1..Len(m.sealed) :
         LET f == G[Part(m.sealed[i].id)]
         IN f.live = f.hard /\ GoodSealed(m.sealed[i], f.live, s.log)
  BY <1>4 DEF Ready
<1>6. \A id \in Referenced(m) : Part(id) \in DOMAIN G
  BY DEF SameFile
<1> QED BY <1>3, <1>5, <1>6 DEF Ready

\* World w is v with some of its files gone that the names in view do not
\* include, and only those names.
Narrows(v, w) ==
    /\ w = With(v, w.file, w.dirs) /\ w.dirs = <<Top(v)>> /\ AreFiles(w.file)
    /\ \A f \in DOMAIN v.file : HasName(Top(v), f) =>
          f \in DOMAIN w.file /\ w.file[f] = v.file[f]

\* Settling the directory keeps what its table leads to.
LEMMA NarrowsLeads ==
    ASSUME NEW v, NEW w, Narrows(v, w), NEW s, IsLog(s), Leads(v.file, Top(v), s)
    PROVE  /\ Leads(w.file, Top(v), s)
           /\ Top(v).cur # 0 =>
                 ManifestAt(w.file, Top(v).cur) = ManifestAt(v.file, Top(v).cur)
<1> DEFINE F == v.file
           G == w.file
           d == Top(v)
           m == ManifestAt(F, d.cur)
<1>1. \A f \in DOMAIN F : HasName(d, f) => SameFile(F, G, f)
  BY DEF Narrows, SameFile
<1>2. Len(s.log) \in Nat /\ s.stable \in Nat
  BY LogIs
<1> HIDE DEF F, G, d
<1>3. ASSUME d.cur # 0
      PROVE  /\ d.cur \in d.man /\ Referenced(m) \subseteq d.part
             /\ SameFile(F, G, Cur(d.cur)) /\ SameFile(F, G, Man(d.cur))
             /\ \A id \in Referenced(m) : SameFile(F, G, Part(id))
  <2>1. LeadsTo(F, d, m, s)
    BY <1>3, LeadsIs DEF F, d
  <2>2. Cur(d.cur) \in DOMAIN F /\ Man(d.cur) \in DOMAIN F /\ d.cur \in d.man
        /\ Referenced(m) \subseteq d.part
        /\ \A id \in Referenced(m) : Part(id) \in DOMAIN F
    BY <2>1 DEF LeadsTo, Ready
  <2>3. HasName(d, Cur(d.cur)) /\ HasName(d, Man(d.cur))
        /\ \A id \in Referenced(m) : HasName(d, Part(id))
    BY <2>2, Named
  <2> QED BY <1>1, <2>2, <2>3
<1>4. Keeps(F, G, d, d)
  BY <1>3 DEF Keeps
<1> QED BY <1>2, <1>4, LeadsKept DEF F, G, d

\* Settling the directory keeps the world steady.
LEMMA NarrowsSteady ==
    ASSUME NEW v, Steady(v), NEW w, Narrows(v, w)
    PROVE  Steady(w) /\ KeepsAll(v, w) /\ Top(w) = Top(v)
<1>1. /\ w.mode = v.mode /\ w.h = v.h /\ w.cur = v.cur /\ w.next = v.next
      /\ Logs(w) = Logs(v) /\ w.dirs = <<Top(v)>>
  BY WithIs DEF Narrows
<1>2. /\ IsSeq(v.dirs) /\ Len(v.dirs) \in 1..Len(v.dirs) /\ Top(v) = v.dirs[Len(v.dirs)]
      /\ IsTable(Top(v))
  BY SafeTables DEF Steady, Top
<1>3. IsSeq(w.dirs) /\ Len(w.dirs) = 1 /\ w.dirs[1] = Top(v)
  BY <1>1, SeqOne
<1>4. Top(w) = Top(v)
  BY <1>3 DEF Top, Last
<1>5. PICK t \in Logs(v) : Leads(v.file, Top(v), t)
  BY <1>2 DEF Steady, Safe
<1>6. IsLog(t) /\ \A s \in Logs(v) : IsLog(s)
  BY DEF Steady, Safe
<1>7. Leads(w.file, Top(v), t)
  BY <1>5, <1>6, NarrowsLeads
<1>8. Safe(w.file, w.dirs, Logs(w))
  BY <1>1, <1>2, <1>3, <1>6, <1>7 DEF Safe
<1>9. ASSUME v.mode = "open", v.next = {}
      PROVE  Finds(w.file, Top(w), v.h, v.cur.log)
  <2>1. Finds(v.file, Top(v), v.h, v.cur.log)
    BY <1>9 DEF Steady
  <2>2. \A p \in 1..Len(v.h.parts) :
           /\ v.h.parts[p].id \in Top(v).part
           /\ Part(v.h.parts[p].id) \in DOMAIN v.file
    BY <2>1 DEF Finds
  <2>3. \A p \in 1..Len(v.h.parts) :
           /\ Part(v.h.parts[p].id) \in DOMAIN w.file
           /\ w.file[Part(v.h.parts[p].id)].live = v.file[Part(v.h.parts[p].id)].live
    BY <2>2, Named DEF Narrows
  <2>4. Finds(w.file, Top(v), v.h, v.cur.log)
    BY <2>1, <2>3, FindsKept
  <2> QED BY <1>4, <2>4
<1>10. Steady(w)
  BY <1>1, <1>8, <1>9 DEF Steady, Narrows
<1>11. ASSUME NEW g, NEW s, AllLead(v.file, v.dirs, g, s)
       PROVE  /\ AllLead(w.file, w.dirs, g, s)
              /\ g # 0 => ManifestAt(w.file, g) = ManifestAt(v.file, g)
  <2>1. IsLog(s) /\ Leads(v.file, Top(v), s) /\ Top(v).cur = g
    BY <1>2, <1>11 DEF AllLead
  <2>2. Leads(w.file, Top(v), s)
        /\ (g # 0 => ManifestAt(w.file, g) = ManifestAt(v.file, g))
    BY <2>1, NarrowsLeads
  <2> QED BY <1>2, <1>3, <2>1, <2>2 DEF AllLead
<1> QED BY <1>4, <1>10, <1>11 DEF KeepsAll

\* Syncing the directory.
LEMMA DirSynced ==
    ASSUME NEW v, Steady(v), NEW c, c \in {SyncDirCall, QuietSyncDir}
    PROVE  \E w : Narrows(v, w) /\ StepOK(c, v, w)
<1> DEFINE es == <<Top(v)>>
           G == [f \in {f \in DOMAIN v.file : \E d \in ToSet(es) : HasName(d, f)} |-> v.file[f]]
           w == With(v, G, es)
<1>1. w.file = G /\ w.dirs = es /\ w = With(v, w.file, w.dirs)
  BY WithIs
<1>2. Top(v) \in ToSet(es)
  <2>1. DOMAIN es = {1} /\ es[1] = Top(v)
    OBVIOUS
  <2> QED BY <2>1 DEF ToSet
<1>3. AreFiles(G)
  BY DEF Steady, AreFiles
<1>4. \A f \in DOMAIN v.file : HasName(Top(v), f) => f \in DOMAIN G /\ G[f] = v.file[f]
  BY <1>2
<1>5. c.op = "syncdir"
  BY DEF SyncDirCall, QuietSyncDir
<1>6. Performed(c, v.file, v.dirs, G, es)
  BY <1>5 DEF Performed, Top
<1> HIDE DEF G
<1>7. Narrows(v, w)
  BY <1>1, <1>3, <1>4 DEF Narrows
<1>8. Steady(w)
  BY <1>7, NarrowsSteady
<1>9. StepOK(c, v, w)
  BY <1>1, <1>5, <1>6, <1>8 DEF StepOK
<1> HIDE DEF w
<1> QED BY <1>7, <1>9

\* A file that manifest m does not speak of.
LEMMA FillsReady ==
    ASSUME NEW v, NEW p, NEW f, NEW w, Fills(v, p, f, w),
           NEW m, NEW s, Ready(v.file, Top(v), m, s), \A id \in Referenced(m) : f # Part(id)
    PROVE  Ready(w.file, Top(w), m, s)
<1>1. \A id \in Referenced(m) : SameFile(v.file, w.file, Part(id))
  <2>1. \A id \in Referenced(m) : Part(id) \in DOMAIN v.file
    BY DEF Ready
  <2>2. \A x \in DOMAIN v.file : x # f => x \in DOMAIN w.file /\ w.file[x] = v.file[x]
    BY DEF Fills, OffFile
  <2> QED BY <2>1, <2>2 DEF SameFile
<1>2. Referenced(m) \subseteq Top(w).part
  BY DEF Fills, Extends, Ready
<1> QED BY <1>1, <1>2, ReadyKept

\* Settling the directory keeps a manifest ready.
LEMMA NarrowsReady ==
    ASSUME NEW v, NEW w, Narrows(v, w), NEW m, NEW s, Ready(v.file, Top(v), m, s)
    PROVE  Ready(w.file, Top(v), m, s)
<1>1. Referenced(m) \subseteq Top(v).part /\ \A id \in Referenced(m) : Part(id) \in DOMAIN v.file
  BY DEF Ready
<1>2. \A id \in Referenced(m) : SameFile(v.file, w.file, Part(id))
  BY <1>1, Named DEF Narrows, SameFile
<1> QED BY <1>1, <1>2, ReadyKept

\* The files of the manifest and of CURRENT that another generation will have.
LEMMA NewNames ==
    ASSUME NEW v, Steady(v), NEW g0, NEW s0, AllLead(v.file, v.dirs, g0, s0),
           NEW g, g # g0
    PROVE  Spare(v, Man(g)) /\ Spare(v, Cur(g))
<1>1. \A k \in 1..Len(v.dirs) : v.dirs[k].cur = g0
  BY DEF AllLead
<1>2. Man(g) # Man(g0) /\ Cur(g) # Cur(g0) /\ Man(g) # Cur(g0) /\ Cur(g) # Man(g0)
  BY DEF Man, Cur
<1>3. \A n : Man(g) # Part(n) /\ Cur(g) # Part(n)
  BY DEF Man, Cur, Part
<1>4. \A k \in 1..Len(v.dirs) :
         FreeOf(v.file, v.dirs[k], Man(g)) /\ FreeOf(v.file, v.dirs[k], Cur(g))
  BY <1>1, <1>2, <1>3 DEF FreeOf
<1> QED BY <1>3, <1>4 DEF Spare, Free

\* Manifest m is written, durable and has a durable name, and its parts hold
\* log s.
Stored(v, m, s) ==
    /\ m.gen \in Top(v).man /\ Man(m.gen) \in DOMAIN v.file
    /\ v.file[Man(m.gen)].live = <<m>> /\ v.file[Man(m.gen)].hard = <<m>>
    /\ Ready(v.file, Top(v), m, s)

\* The files of the parts that v names are those of w.
KeepsParts(v, w) ==
    /\ Top(w).part = Top(v).part
    /\ \A n \in Top(v).part : Part(n) \in DOMAIN v.file =>
          Part(n) \in DOMAIN w.file /\ w.file[Part(n)] = v.file[Part(n)]

\* Manifest m of log s is stored beside the one in force.
Stores(v, g0, s0, m, s, w) ==
    /\ Via(v, ManifestPublish(m), w) /\ Steady(w)
    /\ w = With(v, w.file, w.dirs) /\ KeepsParts(v, w)
    /\ AllLead(w.file, w.dirs, g0, s0) /\ Stored(w, m, s)

\* Manifest m of log s is put in force.
Installs(v, m, s, w) ==
    /\ Via(v, CurrentPublish(m.gen), w) /\ Steady(w)
    /\ w = With(v, w.file, w.dirs) /\ KeepsParts(v, w)
    /\ AllLead(w.file, w.dirs, m.gen, s) /\ ManifestAt(w.file, m.gen) = m

\* Storing a manifest makes it durable before any table points to it.
LEMMA ManifestPublished ==
    ASSUME NEW v, Steady(v), NEW g0, NEW s0, AllLead(v.file, v.dirs, g0, s0),
           NEW m, m.gen \in Nat, m.gen # g0, NEW s, Ready(v.file, Top(v), m, s)
    PROVE  \E w : Stores(v, g0, s0, m, s, w)
<1> DEFINE f == Man(m.gen)
<1>1. Spare(v, f) /\ IsFileName(f) /\ \A n : f # Part(n)
  BY NewNames DEF IsFileName, Man, Part
<1>2. PICK a : Makes(v, WriteNewFile(f, m), f, <<m>>, a)
  <2> HIDE DEF f
  <2> QED BY <1>1, NewFileMade
<1>3. Fills(v, WriteNewFile(f, m), f, a) /\ Steady(a) /\ AllLead(a.file, a.dirs, g0, s0)
  BY <1>2 DEF Makes, Fills, KeepsAll
<1>4. PICK w : Narrows(a, w) /\ StepOK(SyncDirCall, a, w)
  BY <1>3, DirSynced
<1>5. Steady(w) /\ KeepsAll(a, w) /\ Top(w) = Top(a)
  BY <1>3, <1>4, NarrowsSteady
<1>6. ~Quiet(SyncDirCall)
  BY DEF Quiet, SyncDirCall
<1>7. Via(v, ManifestPublish(m), w)
  <2>1. Via(a, <<SyncDirCall>>, w)
    BY <1>4, <1>6, ViaStep
  <2>2. Via(v, WriteNewFile(f, m), a)
    BY <1>3 DEF Fills
  <2> QED BY <2>1, <2>2, ViaThen DEF ManifestPublish
<1>8. w = With(v, w.file, w.dirs)
  BY <1>3, <1>4, WithIs DEF Fills, Narrows
<1>9. AllLead(w.file, w.dirs, g0, s0)
  BY <1>3, <1>5 DEF KeepsAll
<1>10. IsTable(Top(v))
  BY SteadyIs
<1>11. Top(a) = AddName(Top(v), f)
  BY <1>2 DEF Makes
<1>12. Top(w).part = Top(v).part /\ m.gen \in Top(w).man
  <2>1. f[1] = "man" /\ f[2] = m.gen
    BY DEF Man
  <2>2. Top(a) = [Top(v) EXCEPT !.man = @ \union {m.gen}]
    BY <1>11, <2>1 DEF AddName
  <2>3. Top(v) \in [part : SUBSET Nat, man : SUBSET Nat, cur : Nat, tmp : Nat]
    BY <1>10 DEF IsTable
  <2>4. Top(a).part = Top(v).part /\ m.gen \in Top(a).man
    BY <2>2, <2>3
  <2> QED BY <1>5, <2>4
<1>13. f \in DOMAIN w.file /\ w.file[f].live = <<m>> /\ w.file[f].hard = <<m>>
  <2>1. HasName(Top(a), f)
    BY <1>5, <1>12, Named
  <2>2. f \in DOMAIN a.file /\ a.file[f].live = <<m>> /\ a.file[f].hard = <<m>>
    BY <1>2 DEF Makes
  <2> HIDE DEF f
  <2> QED BY <1>4, <2>1, <2>2 DEF Narrows
<1>14. Ready(w.file, Top(w), m, s)
  <2>1. Ready(a.file, Top(a), m, s)
    BY <1>1, <1>3, FillsReady
  <2> QED BY <1>4, <1>5, <2>1, NarrowsReady
<1>15. Stored(w, m, s)
  BY <1>12, <1>13, <1>14 DEF Stored
<1>16. ASSUME NEW n \in Top(v).part, Part(n) \in DOMAIN v.file
       PROVE  Part(n) \in DOMAIN w.file /\ w.file[Part(n)] = v.file[Part(n)]
  <2>1. Part(n) \in DOMAIN a.file /\ a.file[Part(n)] = v.file[Part(n)]
    <3>1. OffFile(v.file, a.file, f)
      BY <1>3 DEF Fills
    <3> HIDE DEF f
    <3> QED BY <1>1, <1>16, <3>1 DEF OffFile
  <2>2. HasName(Top(a), Part(n))
    BY <1>5, <1>12, <1>16, Named
  <2> QED BY <1>4, <2>1, <2>2 DEF Narrows
<1> HIDE DEF f
<1> QED BY <1>5, <1>7, <1>8, <1>9, <1>12, <1>15, <1>16 DEF Stores, KeepsParts

\* What leads to log s leads to a log that the application may find.
Backs(v, s) ==
    /\ IsLog(s)
    /\ \E t \in Logs(v) : \A F, d : d.cur # 0 /\ Leads(F, d, s) => Leads(F, d, t)

\* The rename that puts manifest m in force.
LEMMA Renamed ==
    ASSUME NEW v, Steady(v), NEW m, NEW s, Backs(v, s), Stored(v, m, s),
           m.gen \in Nat, m.gen # 0, Cur(m.gen) \in DOMAIN v.file,
           v.file[Cur(m.gen)].live = <<Current(m.gen)>>,
           v.file[Cur(m.gen)].hard = <<Current(m.gen)>>
    PROVE  \E w : /\ StepOK(RenameCall(m.gen), v, w) /\ w = With(v, v.file, w.dirs)
                  /\ Leads(v.file, Top(w), s) /\ Top(w).cur = m.gen
                  /\ Top(w).part = Top(v).part /\ IsTable(Top(w))
<1> DEFINE g == m.gen
           c == RenameCall(g)
           F == v.file
           d == [Top(v) EXCEPT !.cur = g, !.tmp = 0]
           es == NamedIn(v.dirs, d)
           w == With(v, F, es)
<1>1. AreFiles(F) /\ Safe(F, v.dirs, Logs(v)) /\ IsTable(Top(v))
  BY SteadyIs
<1>2. IsTable(d) /\ d.part = Top(v).part /\ d.man = Top(v).man /\ d.cur = g
  <2>1. Top(v) \in [part : SUBSET Nat, man : SUBSET Nat, cur : Nat, tmp : Nat]
        /\ IsFiniteSet(Top(v).part) /\ IsFiniteSet(Top(v).man)
    BY <1>1 DEF IsTable
  <2>2. d \in [part : SUBSET Nat, man : SUBSET Nat, cur : Nat, tmp : Nat]
        /\ d.part = Top(v).part /\ d.man = Top(v).man /\ d.cur = g
    BY <2>1
  <2> HIDE DEF d
  <2> QED BY <2>1, <2>2 DEF IsTable
<1> HIDE DEF d
<1>3. Ready(F, d, m, s)
  <2>1. Ready(F, Top(v), m, s)
    BY DEF Stored
  <2>2. \A id \in Referenced(m) : SameFile(F, F, Part(id))
    BY <2>1 DEF Ready, SameFile
  <2>3. Referenced(m) \subseteq d.part
    BY <1>2, <2>1 DEF Ready
  <2> QED BY <2>1, <2>2, <2>3, ReadyKept
<1>4. LeadsTo(F, d, m, s)
  BY <1>2, <1>3 DEF LeadsTo, Stored
<1>5. Leads(F, d, s)
  BY <1>2, <1>4, LeadsIs
<1>6. /\ IsSeq(es) /\ Len(es) > 0 /\ Last(es) = d
      /\ \A k \in 1..Len(es) : es[k] = d \/ \E j \in 1..Len(v.dirs) : es[k] = v.dirs[j]
  BY <1>1, SafeTables, NamedInIs
<1>7. Safe(F, es, Logs(v))
  <2>1. ASSUME NEW k \in 1..Len(es)
        PROVE  IsTable(es[k]) /\ \E t \in Logs(v) : Leads(F, es[k], t)
    <3>1. CASE es[k] = d
      <4>1. d.cur # 0 /\ Leads(F, d, s)
        BY <1>2, <1>5
      <4>2. \E t \in Logs(v) : Leads(F, d, t)
        BY <4>1 DEF Backs
      <4> QED BY <1>2, <3>1, <4>2
    <3>2. CASE \E j \in 1..Len(v.dirs) : es[k] = v.dirs[j]
      BY <1>1, <3>2 DEF Safe
    <3> QED BY <1>6, <3>1, <3>2
  <2> HIDE DEF es
  <2> QED BY <1>1, <1>6, <2>1 DEF Safe
<1>8. /\ w.file = F /\ w.dirs = es /\ w.mode = v.mode /\ w.h = v.h
      /\ w.cur = v.cur /\ w.next = v.next /\ Logs(w) = Logs(v) /\ Top(w) = d
      /\ w = With(v, w.file, w.dirs) /\ w = With(v, v.file, w.dirs)
  BY <1>6, WithIs DEF Top
<1>9. ASSUME v.mode = "open", v.next = {}
      PROVE  Finds(F, d, v.h, v.cur.log)
  <2>1. Finds(F, Top(v), v.h, v.cur.log)
    BY <1>9 DEF Steady
  <2>2. \A p \in 1..Len(v.h.parts) : Part(v.h.parts[p].id) \in DOMAIN F
    BY <2>1 DEF Finds
  <2> QED BY <1>2, <2>1, <2>2, FindsKept
<1>10. c.op = "rename" /\ c.g = g
  BY DEF RenameCall
<1>11. Performed(c, F, v.dirs, F, es)
  BY <1>10 DEF Performed, Top, d
<1> HIDE DEF es, w
<1>12. Steady(w)
  BY <1>1, <1>7, <1>8, <1>9 DEF Steady
<1>13. StepOK(c, v, w)
  BY <1>8, <1>10, <1>11, <1>12 DEF StepOK
<1> QED BY <1>2, <1>5, <1>8, <1>13

\* A manifest that is stored is put in force: from then on every table leads
\* to its log.
LEMMA CurrentPublished ==
    ASSUME NEW v, Steady(v), NEW g0, NEW s0, AllLead(v.file, v.dirs, g0, s0),
           NEW m, m.gen \in Nat, m.gen # 0, m.gen # g0, NEW s, Backs(v, s), Stored(v, m, s)
    PROVE  \E w : Installs(v, m, s, w)
<1> DEFINE g == m.gen
           f == Cur(g)
           x == Current(g)
<1>1. Spare(v, f) /\ IsFileName(f) /\ (\A n : f # Part(n)) /\ f # Man(g)
  BY NewNames DEF IsFileName, Man, Part, Cur
<1>2. PICK a : Makes(v, WriteNewFile(f, x), f, <<x>>, a)
  <2> HIDE DEF f
  <2> QED BY <1>1, NewFileMade
<1>3. Fills(v, WriteNewFile(f, x), f, a) /\ Steady(a)
  BY <1>2 DEF Makes, Fills
<1>4. /\ a.mode = v.mode /\ a.h = v.h /\ a.cur = v.cur /\ a.next = v.next
      /\ Logs(a) = Logs(v) /\ a = With(v, a.file, a.dirs)
  BY <1>3, WithIs DEF Fills
<1>5. Top(a).part = Top(v).part /\ Top(a).man = Top(v).man
  <2>1. f[1] = "cur" /\ f[2] = g
    BY DEF Cur
  <2>2. Top(a) = [Top(v) EXCEPT !.tmp = g]
    BY <1>2, <2>1 DEF AddName, Makes
  <2>3. Top(v) \in [part : SUBSET Nat, man : SUBSET Nat, cur : Nat, tmp : Nat]
    BY SteadyIs DEF IsTable
  <2> QED BY <2>2, <2>3
<1>6. Stored(a, m, s)
  <2>1. Ready(a.file, Top(a), m, s)
    BY <1>1, <1>3, FillsReady DEF Stored
  <2>2. Man(g) \in DOMAIN a.file /\ a.file[Man(g)] = v.file[Man(g)]
    <3>1. OffFile(v.file, a.file, f) /\ Man(g) \in DOMAIN v.file
      BY <1>3 DEF Fills, Stored
    <3> HIDE DEF f
    <3> QED BY <1>1, <3>1 DEF OffFile
  <2> QED BY <1>5, <2>1, <2>2 DEF Stored
<1>7. f \in DOMAIN a.file /\ a.file[f].live = <<x>> /\ a.file[f].hard = <<x>>
  BY <1>2 DEF Makes
<1>8. PICK b : /\ StepOK(RenameCall(g), a, b) /\ b = With(a, a.file, b.dirs)
               /\ Leads(a.file, Top(b), s) /\ Top(b).cur = g
               /\ Top(b).part = Top(a).part /\ IsTable(Top(b))
  <2>1. Backs(a, s)
    BY <1>4 DEF Backs
  <2> QED BY <1>3, <1>6, <1>7, <2>1, Renamed
<1>9. /\ Steady(b) /\ b.file = a.file /\ b = With(v, b.file, b.dirs)
  BY <1>4, <1>8, WithIs DEF StepOK
<1>10. PICK w : Narrows(b, w) /\ StepOK(SyncDirCall, b, w)
  BY <1>9, DirSynced
<1>11. Steady(w) /\ Top(w) = Top(b) /\ w = With(b, w.file, w.dirs) /\ w.dirs = <<Top(b)>>
  BY <1>9, <1>10, NarrowsSteady DEF Narrows
<1>12. IsLog(s)
  BY DEF Backs
<1>13. /\ Leads(w.file, Top(b), s)
       /\ ManifestAt(w.file, g) = ManifestAt(b.file, g)
  BY <1>8, <1>9, <1>10, <1>12, NarrowsLeads
<1>14. AllLead(w.file, w.dirs, g, s)
  <2>1. IsSeq(w.dirs) /\ Len(w.dirs) = 1 /\ w.dirs[1] = Top(b)
    BY <1>11, SeqOne
  <2> QED BY <1>8, <1>12, <1>13, <2>1 DEF AllLead
<1>15. ManifestAt(w.file, g) = m
  <2>1. <<m>>[1] = m
    OBVIOUS
  <2> QED BY <1>6, <1>9, <1>13, <2>1 DEF ManifestAt, Stored
<1>16. ~Quiet(SyncDirCall) /\ ~Quiet(RenameCall(g))
  BY DEF Quiet, SyncDirCall, RenameCall
<1>17. Via(v, CurrentPublish(g), w)
  <2>1. Via(b, <<SyncDirCall>>, w)
    BY <1>10, <1>16, ViaStep
  <2>2. Via(a, <<RenameCall(g)>>, b)
    BY <1>8, <1>16, ViaStep
  <2>3. Via(v, WriteNewFile(f, x), a)
    BY <1>3 DEF Fills
  <2>4. Via(a, <<RenameCall(g)>> \o <<SyncDirCall>>, w)
    BY <2>1, <2>2, ViaThen
  <2>5. <<RenameCall(g), SyncDirCall>> = <<RenameCall(g)>> \o <<SyncDirCall>>
    BY Pair
  <2>6. Via(v, WriteNewFile(f, x) \o <<RenameCall(g), SyncDirCall>>, w)
    BY <2>3, <2>4, <2>5, ViaThen
  <2> QED BY <2>6 DEF CurrentPublish
<1>18. ASSUME NEW n \in Top(v).part, Part(n) \in DOMAIN v.file
       PROVE  Part(n) \in DOMAIN w.file /\ w.file[Part(n)] = v.file[Part(n)]
  <2>1. Part(n) \in DOMAIN a.file /\ a.file[Part(n)] = v.file[Part(n)]
    <3>1. OffFile(v.file, a.file, f)
      BY <1>3 DEF Fills
    <3> HIDE DEF f
    <3> QED BY <1>1, <1>18, <3>1 DEF OffFile
  <2>2. HasName(Top(b), Part(n))
    BY <1>5, <1>8, <1>18, Named
  <2> QED BY <1>9, <1>10, <2>1, <2>2 DEF Narrows
<1>19. w = With(v, w.file, w.dirs)
  BY <1>9, <1>11, WithIs
<1> HIDE DEF f, x
<1> QED BY <1>5, <1>8, <1>11, <1>14, <1>15, <1>17, <1>18, <1>19 DEF Installs, KeepsParts

---------------------------------------------------------------------------
(* Logs that a directory leads to.                                         *)

\* What leads to a log leads to a longer one that is no more stable.
LEMMA LeadsMore ==
    ASSUME NEW F, NEW d, NEW t, Leads(F, d, t), d.cur # 0, IsLog(t), NEW s, IsLog(s),
           s.first = t.first, s.rev = t.rev, s.stable <= t.stable,
           Len(t.log) <= Len(s.log), \A i \in 1..Len(t.log) : s.log[i] = t.log[i]
    PROVE  Leads(F, d, s)
<1> DEFINE m == ManifestAt(F, d.cur)
<1>1. /\ Len(t.log) \in Nat /\ t.stable \in Nat /\ t.first \in Nat \ {0}
      /\ Len(s.log) \in Nat /\ s.stable \in Nat /\ s.first \in Nat \ {0}
  BY LogIs
<1>2. LeadsTo(F, d, m, t)
  BY LeadsIs
<1> HIDE DEF m
<1>3. Ready(F, d, m, t)
  BY <1>2 DEF LeadsTo
<1>4. /\ m.active.first \in Nat /\ m.active.first <= Len(t.log) + 1
      /\ GoodManifest(m) /\ m.first = t.first
  BY <1>1, <1>3, ReadyChain DEF Ready
<1>5. t.first <= m.active.first
  <2>1. Chain(Descs(m), t.first) /\ Rising(Descs(m)) /\ IsSeq(m.sealed)
    BY <1>1, <1>3, <1>4, ReadyChain, ManifestIs
  <2>2. /\ Len(Descs(m)) = Len(m.sealed) + 1 /\ Descs(m)[Len(m.sealed) + 1] = m.active
        /\ Len(m.sealed) \in Nat
    BY <2>1, DescsIs
  <2>3. \A i \in 1..Len(Descs(m)) : t.first <= Descs(m)[i].first
    BY <2>1, ChainRises
  <2>4. Len(m.sealed) + 1 \in 1..Len(Descs(m))
    BY <2>2
  <2> QED BY <2>2, <2>3, <2>4
<1>6. KeepsSealed(F, F, d, d, m)
  <2>1. \A i \in 1..Len(m.sealed) : m.sealed[i].id \in Referenced(m)
    BY DEF Referenced
  <2>2. m.active.id \in Referenced(m)
    BY DEF Referenced
  <2> QED BY <1>2, <1>3, <2>1, <2>2 DEF KeepsSealed, SameFile, LeadsTo, Ready
<1>7. SafeActive(m.active, m.rev, F[Part(m.active.id)], s)
  <2>1. SafeActive(m.active, m.rev, F[Part(m.active.id)], t)
    BY <1>3 DEF Ready
  <2>2. \A i \in m.active.first..Len(t.log) : s.log[i] = t.log[i]
    BY <1>1, <1>4, <1>5
  <2> QED BY <1>1, <1>4, <2>1, <2>2, SafeLog
<1>8. m.active.first <= Len(s.log) + 1
      /\ \A i \in t.first..m.active.first - 1 : s.log[i] = t.log[i]
  BY <1>1, <1>4
<1>9. LeadsTo(F, d, m, s)
  BY <1>1, <1>2, <1>6, <1>7, <1>8, LeadsChange
<1> QED BY <1>9, LeadsIs

\* Tables that lead to a log lead to one that extends it beyond its stable end.
LEMMA AllLeadMore ==
    ASSUME NEW F, NEW ds, NEW g, g # 0, NEW t, AllLead(F, ds, g, t), NEW s, IsLog(s),
           s.first = t.first, s.rev = t.rev, s.stable <= t.stable,
           Len(t.log) <= Len(s.log), \A i \in 1..Len(t.log) : s.log[i] = t.log[i]
    PROVE  AllLead(F, ds, g, s)
BY LeadsMore DEF AllLead

\* A log extends each of its cuts.
LEMMA CutMore ==
    ASSUME NEW s, IsLog(s), NEW k \in s.stable..Len(s.log) + 1, NEW t, t = CutAt(s, k)
    PROVE  /\ IsLog(t) /\ IsSettled(t) /\ s.first = t.first /\ s.rev = t.rev /\ s.stable <= t.stable
           /\ Len(t.log) <= Len(s.log) /\ \A i \in 1..Len(t.log) : s.log[i] = t.log[i]
<1>1. s.stable \in Nat /\ Len(s.log) \in Nat
  BY LogIs
<1>2. /\ IsLog(t) /\ IsSettled(t) /\ t.first = s.first /\ t.rev = s.rev
      /\ t.stable = k /\ Len(t.log) = k - 1 /\ \A i \in 1..k - 1 : t.log[i] = s.log[i]
  BY CutIs
<1> QED BY <1>1, <1>2

\* What leads to the stable part of the log leads to the log.
LEMMA BacksSelf ==
    ASSUME NEW v, Steady(v), NEW s \in Logs(v)
    PROVE  Backs(v, s)
BY DEF Backs, Steady, Safe

\* The stable part of an accepted log is backed.
LEMMA BacksStable ==
    ASSUME NEW v, NEW s \in Logs(v), IsLog(s)
    PROVE  Backs(v, StableLog(s))
<1> DEFINE t == StableLog(s)
<1>1. s.stable \in s.stable..Len(s.log) + 1
  BY LogIs
<1>2. /\ IsLog(t) /\ s.first = t.first /\ s.rev = t.rev /\ s.stable <= t.stable
      /\ Len(t.log) <= Len(s.log) /\ \A i \in 1..Len(t.log) : s.log[i] = t.log[i]
  BY <1>1, CutMore DEF StableLog
<1> HIDE DEF t
<1>3. \A F, d : d.cur # 0 /\ Leads(F, d, t) => Leads(F, d, s)
  BY <1>2, LeadsMore
<1>4. Backs(v, t)
  BY <1>2, <1>3 DEF Backs
<1> QED BY <1>4 DEF t

\* What leads to the stable part of a log leads to the log.
LEMMA StableLeads ==
    ASSUME NEW F, NEW ds, NEW g, g # 0, NEW s, IsLog(s), AllLead(F, ds, g, StableLog(s))
    PROVE  AllLead(F, ds, g, s)
<1>1. s.stable \in s.stable..Len(s.log) + 1
  BY LogIs
<1> DEFINE t == CutAt(s, s.stable)
<1>2. StableLog(s) = t
  BY DEF StableLog
<1> HIDE DEF t
<1>3. /\ s.first = t.first /\ s.rev = t.rev /\ s.stable <= t.stable
      /\ Len(t.log) <= Len(s.log) /\ \A i \in 1..Len(t.log) : s.log[i] = t.log[i]
  BY <1>1, CutMore DEF t
<1> QED BY <1>2, <1>3, AllLeadMore

\* A power loss leaves a directory as safe as it was.
LEMMA LossSafe ==
    ASSUME NEW F, NEW ds, NEW S, Safe(F, ds, S), NEW G, NEW es, Loses(F, ds, G, es)
    PROVE  Safe(G, es, S)
<1>1. PICK d \in ToSet(ds) :
         /\ es = <<d>>
         /\ \A f \in DOMAIN F : HasName(d, f) =>
               f \in DOMAIN G /\ G[f].hard = G[f].live /\ G[f].live \in Survivors(F[f])
  BY DEF Loses
<1>2. PICK k \in 1..Len(ds) : ds[k] = d
  BY SeqIs DEF ToSet, Safe
<1>3. IsTable(d) /\ (\A s \in S : IsLog(s)) /\ \E s \in S : Leads(F, d, s)
  BY <1>2 DEF Safe
<1>4. PICK s \in S : Leads(F, d, s)
  BY <1>3
<1>5. IsLog(s)
  BY <1>3
<1>6. Leads(G, d, s)
  <2>1. CASE d.cur = 0
    BY <1>4, <2>1 DEF Leads
  <2>2. CASE d.cur # 0
    <3>1. PICK j \in s.stable..Len(s.log) + 1 : Leads(G, d, CutAt(s, j))
      BY <1>1, <1>4, <1>5, LossLeads
    <3> DEFINE t == CutAt(s, j)
    <3>2. /\ IsLog(t) /\ s.first = t.first /\ s.rev = t.rev /\ s.stable <= t.stable
          /\ Len(t.log) <= Len(s.log) /\ \A i \in 1..Len(t.log) : s.log[i] = t.log[i]
      <4>1. t = CutAt(s, j)
        OBVIOUS
      <4> HIDE DEF t
      <4> QED BY <1>5, <4>1, CutMore
    <3>3. Leads(G, d, t)
      BY <3>1
    <3> HIDE DEF t
    <3> QED BY <1>5, <2>2, <3>2, <3>3, LeadsMore
  <2> QED BY <2>1, <2>2
<1>7. IsSeq(es) /\ Len(es) = 1 /\ es[1] = d
  BY <1>1, SeqOne
<1> QED BY <1>3, <1>4, <1>6, <1>7 DEF Safe

============================================================================
