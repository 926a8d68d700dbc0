------------------------- MODULE Ledger89PlanProof -------------------------
(***************************************************************************)
(* The plan of prune_before is sound; the lists of parts and batches that  *)
(* truncate_from makes, and the handles that it goes through.              *)
(***************************************************************************)
EXTENDS Ledger89CallProof

---------------------------------------------------------------------------
(* Cutting the list of parts and the directory.                            *)

\* The sealed parts that end at or before i, up to the first that does not.
LEMMA PartsUpToIs ==
    ASSUME NEW hd, IsSeq(hd.parts), Len(hd.parts) > 0, NEW i, NEW n, n = PartsUpTo(hd, i)
    PROVE  /\ n \in 0..Len(hd.parts) - 1
           /\ \A p \in 1..n : hd.parts[p].end <= i
           /\ n < Len(hd.parts) - 1 => ~(hd.parts[n + 1].end <= i)
<1> DEFINE N == Len(hd.parts) - 1
           S == {k \in 0..N : \A p \in 1..k : hd.parts[p].end <= i}
<1>1. N \in Nat
  BY SeqIs
<1>2. n = Max(S)
  BY DEF PartsUpTo
<1>3. 0 \in S /\ S \subseteq 0..N
  BY <1>1
<1> HIDE DEF S
<1>4. n \in S /\ \A k \in S : k <= n
  BY <1>1, <1>2, <1>3, MaxOf
<1>5. n \in 0..N /\ \A p \in 1..n : hd.parts[p].end <= i
  BY <1>4 DEF S
<1>6. ASSUME n < N, hd.parts[n + 1].end <= i
      PROVE  FALSE
  <2>1. n + 1 \in 0..N
    BY <1>1, <1>5, <1>6
  <2>2. ASSUME NEW p \in 1..n + 1
        PROVE  hd.parts[p].end <= i
    <3>1. p = n + 1 \/ p \in 1..n
      BY <1>5
    <3> QED BY <1>5, <1>6, <3>1
  <2>3. n + 1 \in S
    BY <2>1, <2>2 DEF S
  <2>4. n + 1 <= n
    BY <1>4, <2>3
  <2> QED BY <1>5, <2>4
<1> QED BY <1>5, <1>6

\* The entries before the first one of a part behind p.
LEMMA EntriesUpToIs ==
    ASSUME NEW dir, IsSeq(dir), NEW p, NEW n, n = EntriesUpTo(dir, p)
    PROVE  /\ n \in 0..Len(dir)
           /\ \A e \in 1..n : dir[e].part <= p
           /\ n < Len(dir) => ~(dir[n + 1].part <= p)
<1> DEFINE N == Len(dir)
           S == {k \in 0..N : \A e \in 1..k : dir[e].part <= p}
<1>1. N \in Nat
  BY SeqIs
<1>2. n = Max(S)
  BY DEF EntriesUpTo
<1>3. 0 \in S /\ S \subseteq 0..N
  BY <1>1
<1> HIDE DEF S
<1>4. n \in S /\ \A k \in S : k <= n
  BY <1>1, <1>2, <1>3, MaxOf
<1>5. n \in 0..N /\ \A e \in 1..n : dir[e].part <= p
  BY <1>4 DEF S
<1>6. ASSUME n < N, dir[n + 1].part <= p
      PROVE  FALSE
  <2>1. n + 1 \in 0..N
    BY <1>1, <1>5, <1>6
  <2>2. ASSUME NEW e \in 1..n + 1
        PROVE  dir[e].part <= p
    <3>1. e = n + 1 \/ e \in 1..n
      BY <1>5
    <3> QED BY <1>5, <1>6, <3>1
  <2>3. n + 1 \in S
    BY <2>1, <2>2 DEF S
  <2>4. n + 1 <= n
    BY <1>4, <2>3
  <2> QED BY <1>5, <2>4
<1> QED BY <1>5, <1>6

\* Two halves of a directory.
CutsAt(dir, n, lo, x) ==
    /\ n \in 0..Len(dir) /\ (n > 0 => x = EndOf(dir[n]))
    /\ n < Len(dir) => x = dir[n + 1].first
    /\ Len(dir) = 0 => x = lo

\* Both halves of the directory cover their ranges.
Halved(dir, n, lo, x, hi) ==
    /\ Linked(SubSeq(dir, 1, n), lo, x) /\ Linked(SubSeq(dir, n + 1, Len(dir)), x, hi)
    /\ Len(SubSeq(dir, 1, n)) = n /\ Len(SubSeq(dir, n + 1, Len(dir))) = Len(dir) - n
    /\ \A e \in 1..n : SubSeq(dir, 1, n)[e] = dir[e]
    /\ \A e \in 1..Len(dir) - n : SubSeq(dir, n + 1, Len(dir))[e] = dir[n + e]

\* A directory cut at an entry's boundary covers both ranges.
LEMMA LinkedSplit ==
    ASSUME NEW dir, NEW lo, NEW hi, Linked(dir, lo, hi), NEW n, NEW x, CutsAt(dir, n, lo, x)
    PROVE  Halved(dir, n, lo, x, hi)
<1>0. /\ n \in 0..Len(dir) /\ (n > 0 => x = EndOf(dir[n]))
      /\ (n < Len(dir) => x = dir[n + 1].first) /\ (Len(dir) = 0 => x = lo)
  BY DEF CutsAt
<1> DEFINE L == Len(dir)
           a == SubSeq(dir, 1, n)
           b == SubSeq(dir, n + 1, L)
<1>1. /\ IsSeq(dir) /\ lo \in Nat /\ hi \in Nat /\ L \in Nat
      /\ \A i \in 1..L : dir[i].first \in Nat /\ dir[i].count \in Nat \ {0}
      /\ L = 0 => lo = hi
      /\ L > 0 => dir[1].first = lo /\ EndOf(dir[L]) = hi
      /\ \A i \in 1..L - 1 : dir[i + 1].first = EndOf(dir[i])
  BY SeqIs DEF Linked, Counts
<1>2. IsSeq(a) /\ Len(a) = n /\ \A e \in 1..n : a[e] = dir[e]
  BY <1>0, <1>1, SeqPrefix
<1>3. IsSeq(b) /\ Len(b) = L - n /\ \A e \in 1..L - n : b[e] = dir[n + e]
  <2> DEFINE c == n + 1
  <2>1. c \in Nat \ {0} /\ c <= L + 1 /\ L - c + 1 = L - n /\ \A e \in 1..L - n : c + e - 1 = n + e
    BY <1>0, <1>1
  <2> HIDE DEF c
  <2>2. /\ IsSeq(SubSeq(dir, c, L)) /\ Len(SubSeq(dir, c, L)) = L - c + 1
        /\ \A i \in 1..L - c + 1 : SubSeq(dir, c, L)[i] = dir[c + i - 1]
    BY <1>1, <2>1, SeqSub
  <2>3. IsSeq(SubSeq(dir, c, L)) /\ Len(SubSeq(dir, c, L)) = L - n
        /\ \A e \in 1..L - n : SubSeq(dir, c, L)[e] = dir[n + e]
    BY <2>1, <2>2
  <2> QED BY <2>3 DEF c
<1>4. x \in Nat
  <2>1. CASE n > 0
    BY <1>0, <1>1, <2>1 DEF EndOf
  <2>2. CASE n = 0 /\ L > 0
    BY <1>0, <1>1, <2>2
  <2>3. CASE L = 0
    BY <1>0, <1>1, <2>3
  <2> QED BY <1>0, <1>1, <2>1, <2>2, <2>3
<1>5. (n = 0 => x = lo) /\ (n = L => x = hi)
  BY <1>0, <1>1
<1> HIDE DEF a, b
<1>6. Linked(a, lo, x)
  <2>0. \A e \in 1..n : e \in 1..L
    BY <1>0, <1>1
  <2>1. Counts(a)
    BY <1>1, <1>2, <2>0 DEF Counts
  <2>2. \A i \in 1..n - 1 : a[i + 1].first = EndOf(a[i])
    <3>1. \A i \in 1..n - 1 : i \in 1..n /\ i + 1 \in 1..n /\ i \in 1..L - 1
      BY <1>0, <1>1
    <3> QED BY <1>1, <1>2, <3>1
  <2>3. n > 0 => 1 \in 1..n /\ n \in 1..n /\ L > 0
    BY <1>0, <1>1
  <2>4. n > 0 => a[1].first = lo /\ EndOf(a[n]) = x
    BY <1>0, <1>1, <1>2, <2>3
  <2> QED BY <1>1, <1>2, <1>4, <1>5, <2>1, <2>2, <2>4 DEF Linked
<1>7. Linked(b, x, hi)
  <2>0. \A e \in 1..L - n : n + e \in 1..L
    BY <1>0, <1>1
  <2>1. Counts(b)
    BY <1>1, <1>3, <2>0 DEF Counts
  <2>2. \A i \in 1..L - n - 1 : b[i + 1].first = EndOf(b[i])
    <3>1. \A i \in 1..L - n - 1 : /\ i \in 1..L - n /\ i + 1 \in 1..L - n /\ n + i \in 1..L - 1
                                  /\ (n + i) + 1 = n + (i + 1)
      BY <1>0, <1>1
    <3>2. ASSUME NEW i \in 1..L - n - 1
          PROVE  b[i + 1].first = EndOf(b[i])
      <4>1. b[i + 1] = dir[(n + i) + 1] /\ b[i] = dir[n + i]
        BY <1>3, <3>1
      <4>2. dir[(n + i) + 1].first = EndOf(dir[n + i])
        BY <1>1, <3>1
      <4> QED BY <4>1, <4>2
    <3> QED BY <3>2
  <2>3. n < L => 1 \in 1..L - n /\ L - n \in 1..L - n /\ n + (L - n) = L /\ L > 0
    BY <1>0, <1>1
  <2>4. n < L => b[1].first = x /\ EndOf(b[L - n]) = hi
    BY <1>0, <1>1, <1>3, <2>3
  <2>5. (L - n = 0 => n = L) /\ (L - n > 0 => n < L)
    BY <1>0, <1>1
  <2> QED BY <1>1, <1>3, <1>4, <1>5, <2>1, <2>2, <2>4, <2>5 DEF Linked
<1> QED BY <1>2, <1>3, <1>6, <1>7 DEF a, b, Halved

\* The entries up to a part are those of the records before the next one.
LEMMA DirCut ==
    ASSUME NEW ps, NEW a, Chain(ps, a), Rising(ps), NEW dir, NEW b, Linked(dir, a, b),
           \A i \in 1..Len(dir) : Within(ps, dir[i]), ps[Len(ps)].first <= b,
           NEW p \in 0..Len(ps) - 1, NEW n, n = EntriesUpTo(dir, p)
    PROVE  /\ n \in 0..Len(dir)
           /\ Halved(dir, n, a, ps[p + 1].first, b)
           /\ \A e \in 1..n : dir[e].part <= p
           /\ \A e \in n + 1..Len(dir) : dir[e].part > p
<1> DEFINE L == Len(dir)
           N == Len(ps)
           x == ps[p + 1].first
<1>1. /\ IsSeq(ps) /\ N \in Nat /\ N > 0 /\ ps[1].first = a /\ a \in Nat
      /\ \A i \in 1..N : ps[i].first \in Nat /\ ps[i].end \in Nat
      /\ \A i \in 1..N - 1 : ps[i].end = ps[i + 1].first
  BY SeqIs DEF Chain
<1>2. /\ \A i, j \in 1..N : i < j => ps[i].end <= ps[j].first
      /\ \A i \in 1..N : a <= ps[i].first
  BY ChainRises
<1>3. /\ IsSeq(dir) /\ L \in Nat /\ b \in Nat
      /\ \A i \in 1..L : dir[i].first \in Nat /\ dir[i].count \in Nat \ {0} /\ EndOf(dir[i]) \in Nat
                         /\ dir[i].first < EndOf(dir[i])
      /\ L = 0 => a = b
      /\ L > 0 => dir[1].first = a /\ EndOf(dir[L]) = b
      /\ \A i \in 1..L - 1 : dir[i + 1].first = EndOf(dir[i])
  BY SeqIs DEF Linked, Counts, EndOf
<1>4. \A i, j \in 1..L : i < j => EndOf(dir[i]) <= dir[j].first
  BY LinkedRange
<1>5. \A i \in 1..L : /\ dir[i].part \in 1..N /\ ps[dir[i].part].first <= dir[i].first
                      /\ dir[i].part < N => EndOf(dir[i]) <= ps[dir[i].part].end
  BY DEF Within
<1>6. /\ n \in 0..L /\ \A e \in 1..n : dir[e].part <= p
      /\ n < L => ~(dir[n + 1].part <= p)
  BY <1>3, EntriesUpToIs
<1>7. p + 1 \in 1..N /\ p \in Nat /\ x \in Nat /\ N \in 1..N
  BY <1>1
<1>8. \A e \in 1..n : EndOf(dir[e]) <= x
  <2> SUFFICES ASSUME NEW e \in 1..n PROVE EndOf(dir[e]) <= x
    OBVIOUS
  <2>1. e \in 1..L /\ dir[e].part \in 1..N /\ dir[e].part <= p
    BY <1>3, <1>5, <1>6
  <2>2. dir[e].part < p + 1 /\ dir[e].part < N
    BY <1>1, <2>1
  <2>3. EndOf(dir[e]) <= ps[dir[e].part].end
    BY <1>5, <2>1, <2>2
  <2>4. ps[dir[e].part].end <= x
    BY <1>2, <1>7, <2>1, <2>2
  <2>5. ps[dir[e].part].end \in Nat /\ EndOf(dir[e]) \in Nat
    BY <1>1, <1>3, <2>1
  <2> QED BY <1>7, <2>3, <2>4, <2>5
<1>9. n < L => x <= dir[n + 1].first
  <2> SUFFICES ASSUME n < L PROVE x <= dir[n + 1].first
    OBVIOUS
  <2>1. n + 1 \in 1..L
    BY <1>3, <1>6
  <2>2. dir[n + 1].part \in 1..N /\ dir[n + 1].part > p /\ ps[dir[n + 1].part].first <= dir[n + 1].first
    BY <1>1, <1>5, <1>6, <2>1
  <2>3. dir[n + 1].part = p + 1 \/ p + 1 < dir[n + 1].part
    BY <1>1, <2>2
  <2>4. CASE dir[n + 1].part = p + 1
    BY <2>2, <2>4
  <2>5. CASE p + 1 < dir[n + 1].part
    <3>1. ps[p + 1].end <= ps[dir[n + 1].part].first /\ ps[p + 1].first <= ps[p + 1].end
      BY <1>2, <1>7, <2>2, <2>5 DEF Rising
    <3>2. ps[p + 1].end \in Nat /\ ps[dir[n + 1].part].first \in Nat /\ dir[n + 1].first \in Nat
      BY <1>1, <1>3, <1>7, <2>1, <2>2
    <3> DEFINE a1 == ps[p + 1].end
               a2 == ps[dir[n + 1].part].first
               a3 == dir[n + 1].first
    <3>3. x <= a1 /\ a1 <= a2 /\ a2 <= a3
      BY <2>2, <3>1
    <3>4. x \in Nat /\ a1 \in Nat /\ a2 \in Nat /\ a3 \in Nat
      BY <1>7, <3>2
    <3> HIDE DEF x, a1, a2, a3
    <3>5. x <= a3
      BY ONLY <3>3, <3>4
    <3> QED BY <3>5 DEF a3
  <2> QED BY <2>3, <2>4, <2>5
<1>10. a <= x /\ x <= b
  <2>1. a <= x
    BY <1>2, <1>7
  <2>2. x <= ps[N].first
    <3>1. CASE p + 1 = N
      BY <1>7, <3>1
    <3>2. CASE p + 1 < N
      <4>1. ps[p + 1].end <= ps[N].first /\ ps[p + 1].first <= ps[p + 1].end
        BY <1>2, <1>7, <3>2 DEF Rising
      <4>2. ps[p + 1].end \in Nat /\ ps[N].first \in Nat
        BY <1>1, <1>7
      <4> QED BY <1>7, <4>1, <4>2
    <3> QED BY <1>1, <3>1, <3>2
  <2>3. ps[N].first \in Nat /\ ps[N].first <= b
    BY <1>1, <1>7
  <2> QED BY <1>3, <1>7, <2>1, <2>2, <2>3
<1>11. n > 0 => x = EndOf(dir[n])
  <2> SUFFICES ASSUME n > 0 PROVE x = EndOf(dir[n])
    OBVIOUS
  <2>1. n \in 1..n /\ n \in 1..L /\ EndOf(dir[n]) \in Nat /\ EndOf(dir[n]) <= x
    BY <1>3, <1>6, <1>8
  <2>2. CASE n < L
    <3>1. n \in 1..L - 1
      BY <1>3, <2>1, <2>2
    <3>2. dir[n + 1].first = EndOf(dir[n])
      BY <1>3, <3>1
    <3>3. x <= EndOf(dir[n])
      BY <1>9, <2>2, <3>2
    <3> QED BY <1>7, <2>1, <3>3
  <2>3. CASE n = L
    <3>1. EndOf(dir[n]) = b
      BY <1>3, <2>1, <2>3
    <3> QED BY <1>3, <1>7, <1>10, <2>1, <3>1
  <2> QED BY <1>3, <1>6, <2>2, <2>3
<1>12. n < L => x = dir[n + 1].first
  <2> SUFFICES ASSUME n < L PROVE x = dir[n + 1].first
    OBVIOUS
  <2>1. CASE n > 0
    <3>1. n \in 1..L - 1
      BY <1>3, <1>6, <2>1
    <3> QED BY <1>3, <1>11, <2>1, <3>1
  <2>2. CASE n = 0
    <3>1. dir[n + 1].first = a
      BY <1>3, <2>2
    <3> QED BY <1>1, <1>7, <1>9, <1>10, <3>1
  <2> QED BY <1>6, <2>1, <2>2
<1>13. L = 0 => x = a
  BY <1>1, <1>3, <1>7, <1>10
<1>14. \A e \in n + 1..L : dir[e].part > p
  <2> SUFFICES ASSUME NEW e \in n + 1..L, ~(dir[e].part > p) PROVE FALSE
    OBVIOUS
  <2>1. e \in 1..L /\ n < L /\ n + 1 \in 1..L /\ dir[e].part \in 1..N /\ dir[e].part <= p
    BY <1>3, <1>5, <1>6, <1>7
  <2>2. dir[e].part < p + 1 /\ dir[e].part < N
    BY <1>1, <2>1
  <2>3. EndOf(dir[e]) <= ps[dir[e].part].end /\ ps[dir[e].part].end <= x
    BY <1>2, <1>5, <1>7, <2>1, <2>2
  <2>4. x <= dir[e].first
    <3>1. x = dir[n + 1].first
      BY <1>12, <2>1
    <3>2. CASE e = n + 1
      BY <1>3, <2>1, <3>1, <3>2
    <3>3. CASE n + 1 < e
      <4>1. EndOf(dir[n + 1]) <= dir[e].first /\ dir[n + 1].first < EndOf(dir[n + 1])
        BY <1>3, <1>4, <2>1, <3>3
      <4>2. EndOf(dir[n + 1]) \in Nat /\ dir[e].first \in Nat /\ dir[n + 1].first \in Nat
        BY <1>3, <2>1
      <4> QED BY <3>1, <4>1, <4>2
    <3> QED BY <1>3, <1>6, <3>2, <3>3
  <2>5. ps[dir[e].part].end \in Nat /\ EndOf(dir[e]) \in Nat /\ dir[e].first \in Nat
        /\ dir[e].first < EndOf(dir[e])
    BY <1>1, <1>3, <2>1
  <2> QED BY <1>7, <2>3, <2>4, <2>5
<1> HIDE DEF x
<1>15. CutsAt(dir, n, a, x)
  BY <1>6, <1>11, <1>12, <1>13 DEF CutsAt
<1>16. Halved(dir, n, a, x, b)
  BY <1>15, LinkedSplit
<1> QED BY <1>6, <1>14, <1>16 DEF x

\* The parts from number a on.
PartsFrom(p, first, a, q) ==
    /\ Chain(p, first) /\ Rising(p) /\ a \in 1..Len(p) /\ q = SubSeq(p, a, Len(p))

\* q is the parts of p from a on.
PartsThere(p, a, q) ==
    /\ Chain(q, p[a].first) /\ Rising(q) /\ Len(q) = Len(p) - a + 1
    /\ \A i \in 1..Len(q) : a + i - 1 \in 1..Len(p) /\ q[i] = p[a + i - 1]

\* They are a list of parts again.
LEMMA ChainFrom ==
    ASSUME NEW p, NEW first, NEW a, NEW q, PartsFrom(p, first, a, q)
    PROVE  PartsThere(p, a, q)
<1> SUFFICES ASSUME Chain(p, first), Rising(p), a \in 1..Len(p), q = SubSeq(p, a, Len(p))
             PROVE  /\ Chain(q, p[a].first) /\ Rising(q) /\ Len(q) = Len(p) - a + 1
                    /\ \A i \in 1..Len(q) : a + i - 1 \in 1..Len(p) /\ q[i] = p[a + i - 1]
  BY DEF PartsFrom, PartsThere
<1>1. /\ IsSeq(p) /\ Len(p) \in Nat /\ first \in Nat
      /\ \A i \in 1..Len(p) :
            /\ p[i] = Desc(p[i].id, p[i].first, p[i].end)
            /\ p[i].id \in Nat /\ p[i].first \in Nat /\ p[i].end \in Nat
      /\ \A i \in 1..Len(p) - 1 : p[i].end = p[i + 1].first
      /\ \A i, j \in 1..Len(p) : p[i].id = p[j].id => i = j
  BY SeqIs DEF Chain
<1>2. a \in Nat \ {0} /\ Len(p) <= Len(p) /\ a <= Len(p) + 1
  BY <1>1
<1>3. IsSeq(q) /\ Len(q) = Len(p) - a + 1 /\ \A i \in 1..Len(p) - a + 1 : q[i] = p[a + i - 1]
  BY <1>1, <1>2, SeqSub
<1>4. /\ Len(q) \in Nat /\ Len(q) > 0 /\ 1 \in 1..Len(q) /\ a + 1 - 1 = a
      /\ \A i \in 1..Len(q) : a + i - 1 \in 1..Len(p) /\ a + i - 1 \in Nat
      /\ \A i, j \in 1..Len(q) : a + i - 1 = a + j - 1 => i = j
      /\ \A i \in 1..Len(q) - 1 : /\ i \in 1..Len(q) /\ i + 1 \in 1..Len(q)
                                  /\ a + i - 1 \in 1..Len(p) - 1
                                  /\ a + (i + 1) - 1 = (a + i - 1) + 1
  BY <1>1, <1>3
<1>5. \A i \in 1..Len(q) : q[i] = p[a + i - 1]
  BY <1>3
<1>6. q[1].first = p[a].first /\ p[a].first \in Nat
  BY <1>1, <1>4, <1>5
<1>7. \A i \in 1..Len(q) :
         /\ q[i] = Desc(q[i].id, q[i].first, q[i].end)
         /\ q[i].id \in Nat /\ q[i].first \in Nat /\ q[i].end \in Nat
  <2> SUFFICES ASSUME NEW i \in 1..Len(q), NEW j \in 1..Len(p), j = a + i - 1
               PROVE  /\ q[i] = Desc(q[i].id, q[i].first, q[i].end)
                      /\ q[i].id \in Nat /\ q[i].first \in Nat /\ q[i].end \in Nat
    BY <1>4
  <2>1. q[i] = p[j]
    BY <1>5
  <2> QED BY <1>1, <2>1
<1>8. ASSUME NEW i \in 1..Len(q) - 1
      PROVE  q[i].end = q[i + 1].first
  <2> DEFINE j == a + i - 1
  <2>1. j \in 1..Len(p) - 1 /\ q[i] = p[j] /\ q[i + 1] = p[j + 1]
    BY <1>4, <1>5
  <2> HIDE DEF j
  <2> QED BY <1>1, <2>1
<1>9. ASSUME NEW i \in 1..Len(q), NEW j \in 1..Len(q), q[i].id = q[j].id
      PROVE  i = j
  <2>1. p[a + i - 1].id = p[a + j - 1].id
    BY <1>5, <1>9
  <2>2. a + i - 1 = a + j - 1
    BY <1>1, <1>4, <2>1
  <2> QED BY <1>4, <2>2
<1>10. Chain(q, p[a].first)
  BY <1>3, <1>4, <1>6, <1>7, <1>8, <1>9 DEF Chain
<1>11. Rising(q)
  BY <1>4, <1>5 DEF Rising
<1> QED BY <1>3, <1>4, <1>5, <1>10, <1>11

\* Renumbering the parts of a directory leaves what it covers.
LEMMA LinkedMoved ==
    ASSUME NEW dir, NEW lo, NEW hi, Linked(dir, lo, hi), NEW q, IsSeq(q), Len(q) = Len(dir),
           \A i \in 1..Len(dir) : q[i].first = dir[i].first /\ q[i].count = dir[i].count
    PROVE  Linked(q, lo, hi)
<1>1. /\ IsSeq(dir) /\ Len(dir) \in Nat /\ lo \in Nat /\ hi \in Nat
      /\ \A i \in 1..Len(dir) : dir[i].first \in Nat /\ dir[i].count \in Nat \ {0}
      /\ Len(dir) = 0 => lo = hi
      /\ Len(dir) > 0 => dir[1].first = lo /\ EndOf(dir[Len(dir)]) = hi
      /\ \A i \in 1..Len(dir) - 1 : dir[i + 1].first = EndOf(dir[i])
  BY SeqIs DEF Linked, Counts
<1>2. \A i \in 1..Len(dir) : EndOf(q[i]) = EndOf(dir[i])
  BY DEF EndOf
<1>3. Len(dir) > 0 => 1 \in 1..Len(dir) /\ Len(dir) \in 1..Len(dir)
  BY <1>1
<1>4. \A i \in 1..Len(dir) - 1 : i \in 1..Len(dir) /\ i + 1 \in 1..Len(dir)
  BY <1>1
<1>5. \A i \in 1..Len(dir) - 1 : q[i + 1].first = EndOf(q[i])
  BY <1>1, <1>2, <1>4
<1>6. Len(dir) > 0 => q[1].first = lo /\ EndOf(q[Len(dir)]) = hi
  BY <1>1, <1>2, <1>3
<1>7. Counts(q)
  BY <1>1 DEF Counts
<1> QED BY <1>1, <1>5, <1>6, <1>7 DEF Linked

\* An entry whose part was renumbered still locates its records.
LEMMA LocatesMoved ==
    ASSUME NEW c, NEW e, NEW log, Locates(c, e, log), NEW x, NEW f,
           f = Entry(e.first, e.count, e.pos, x), NEW new,
           \A i \in e.first..EndOf(e) - 1 : new[i] = log[i]
    PROVE  Locates(c, f, new)
<1>1. /\ e.first \in Nat /\ e.count \in Nat \ {0} /\ e.pos \in 3..Len(c)
      /\ c[e.pos].t = "batch" /\ c[e.pos].first = e.first
      /\ Len(c[e.pos].recs) = e.count
      /\ \A j \in 1..e.count : log[e.first + j - 1] = c[e.pos].recs[j]
  BY DEF Locates
<1>2. f.first = e.first /\ f.count = e.count /\ f.pos = e.pos /\ f.part = x
      /\ f = Entry(f.first, f.count, f.pos, f.part)
  BY DEF Entry
<1>3. \A j \in 1..e.count : e.first + j - 1 \in e.first..EndOf(e) - 1
  BY <1>1 DEF EndOf
<1>4. \A j \in 1..e.count : new[e.first + j - 1] = c[e.pos].recs[j]
  BY <1>1, <1>3
<1> QED BY <1>1, <1>2, <1>4 DEF Locates

\* The active part of a handle with the same active part.
LEMMA WholeLog ==
    ASSUME NEW F, NEW hd, NEW log, Whole(F, hd, log), NEW d, d = hd.parts[Len(hd.parts)],
           d.first \in Nat, NEW r, r.parts[Len(r.parts)] = d, r.end = hd.end, r.len = hd.len,
           NEW new, Len(new) \in Nat, hd.end <= Len(new) + 1,
           \A i \in d.first..hd.end - 1 : new[i] = log[i]
    PROVE  Whole(F, r, new)
<1> DEFINE f == F[Part(d.id)]
           c == f.live
<1>1. /\ GoodPart(d, c, Len(c), log) /\ Expected(d, c, Len(c)) = hd.end
      /\ hd.len = Len(c) /\ IsPrefix(f.hard, c)
  BY DEF Whole
<1> HIDE DEF f
<1>2. IsSeq(c) /\ Len(c) \in Nat
  BY <1>1, SeqIs DEF GoodPart
<1>3. Expected(d, c, Len(c)) <= Len(new) + 1
      /\ \A i \in d.first..Expected(d, c, Len(c)) - 1 : new[i] = log[i]
  BY <1>1
<1>4. \A k \in 1..Len(c) : c[k] = c[k]
  OBVIOUS
<1>5. d.id = d.id /\ d.first = d.first /\ Len(c) <= Len(c)
  BY <1>2
<1>6. GoodPart(d, c, Len(c), new) /\ Expected(d, c, Len(c)) = Expected(d, c, Len(c))
  <2> DEFINE n == Len(c)
  <2> HIDE DEF c, n
  <2>1. GoodPart(d, c, n, log) /\ IsSeq(c) /\ n <= Len(c)
    BY <1>1, <1>2, <1>5 DEF n
  <2>2. Expected(d, c, n) <= Len(new) + 1 /\ \A i \in d.first..Expected(d, c, n) - 1 : new[i] = log[i]
    BY <1>3 DEF n
  <2>3. GoodPart(d, c, n, new)
    BY <2>1, <2>2, GoodSame
  <2> QED BY <2>3 DEF n
<1> QED BY <1>1, <1>6 DEF Whole, f

\* The active part begins where the log does, or below its end.
LEMMA WholeFirst ==
    ASSUME NEW F, NEW hd, NEW log, Whole(F, hd, log), NEW d, d = hd.parts[Len(hd.parts)],
           d.first \in Nat
    PROVE  d.first <= hd.end /\ hd.end \in Nat
<1> DEFINE c == F[Part(d.id)].live
           n == Len(c)
<1>1. GoodPart(d, c, n, log) /\ Expected(d, c, n) = hd.end
  BY DEF Whole
<1> HIDE DEF c, n
<1>2. n \in Nat /\ n >= 2 /\ n \in 2..n /\ Counted(d, c, n)
  BY <1>1, GoodCounted
<1>3. Expected(d, c, n) \in Nat /\ d.first <= Expected(d, c, n)
  BY <1>2, ExpectedGrows
<1> QED BY <1>1, <1>3

---------------------------------------------------------------------------
(* Pruning.                                                                *)

\* What pruning takes from the log.
LEMMA PrunedLogIs ==
    ASSUME NEW s, IsLog(s), NEW to \in s.first..s.stable, NEW t, t = PrunedLog(s, to)
    PROVE  /\ IsLog(t) /\ t.first = to /\ t.stable = s.stable /\ t.rev = s.rev
           /\ Len(t.log) = Len(s.log) /\ \A i \in to..Len(s.log) : t.log[i] = s.log[i]
<1>1. /\ s = [log |-> s.log, first |-> s.first, stable |-> s.stable, rev |-> s.rev]
      /\ s.log \in Seq(Value \union {Gone}) /\ s.rev \in Nat
      /\ s.first \in 1..Len(s.log) + 1 /\ s.stable \in s.first..Len(s.log) + 1
  BY DEF IsLog
<1>2. Len(s.log) \in Nat /\ IsSeq(s.log) /\ DOMAIN s.log = 1..Len(s.log)
      /\ s.first \in Nat \ {0} /\ s.stable \in Nat
      /\ \A i \in 1..Len(s.log) : s.log[i] \in Value \union {Gone}
  BY LogIs, SeqIs
<1> DEFINE l == [i \in DOMAIN s.log |-> IF i < to THEN Gone ELSE s.log[i]]
<1>3. t = [log |-> l, first |-> to, stable |-> s.stable, rev |-> s.rev]
  BY <1>1 DEF PrunedLog
<1>4. to \in Nat \ {0} /\ to <= Len(s.log) + 1
  BY <1>1, <1>2
<1>5. l \in Seq(Value \union {Gone}) /\ Len(l) = Len(s.log)
  <2>1. l = [i \in 1..Len(s.log) |-> l[i]]
    BY <1>2
  <2>2. \A i \in 1..Len(s.log) : l[i] \in Value \union {Gone}
    BY <1>2
  <2> HIDE DEF l
  <2>3. IsSeq(l) /\ Len(l) = Len(s.log)
    BY <1>2, <2>1, SeqIntro
  <2> QED BY <2>2, <2>3, SeqIn
<1>6. \A i \in 1..to - 1 : l[i] = Gone
  BY <1>2, <1>4
<1>7. \A i \in to..Len(s.log) : l[i] = s.log[i]
  BY <1>2, <1>4
<1> HIDE DEF l
<1>8. t.log = l /\ t.first = to /\ t.stable = s.stable /\ t.rev = s.rev
  BY <1>3
<1>9. t = [log |-> t.log, first |-> t.first, stable |-> t.stable, rev |-> t.rev]
  BY <1>3
<1>10. IsLog(t)
  BY <1>1, <1>2, <1>4, <1>5, <1>6, <1>8, <1>9 DEF IsLog
<1> QED BY <1>5, <1>7, <1>8, <1>10

\* The entry, field by field.
EntryAs(e) == Entry(e.first, e.count, e.pos, e.part)

\* The directory without its first n entries, its parts renumbered.
Moved(dir, n, drop) ==
    [k \in 1..Len(dir) - n |-> [dir[n + k] EXCEPT !.part = @ - drop]]

\* The handle of a pruned ledger, of generation g.
ShiftedAs(hd, drop, g) ==
    HandleOf(g, hd.rev, hd.parts[drop + 1].first, hd.end, hd.stable, hd.dirty, hd.next,
             SubSeq(hd.parts, drop + 1, Len(hd.parts)), Len(hd.parts) - drop, hd.len,
             Moved(hd.dir, EntriesUpTo(hd.dir, drop), drop))

\* The handle after the parts before drop were taken out.
LEMMA ShiftedIs ==
    ASSUME NEW hd, IsHandle(hd), NEW drop
    PROVE  /\ Shifted(hd, drop) = ShiftedAs(hd, drop, hd.gen)
           /\ [Shifted(hd, drop) EXCEPT !.gen = @ + 1] = ShiftedAs(hd, drop, hd.gen + 1)
<1>1. hd = HandleOf(hd.gen, hd.rev, hd.first, hd.end, hd.stable, hd.dirty, hd.next,
                    hd.parts, hd.active, hd.len, hd.dir)
  BY HandleIs
<1> DEFINE gn == hd.gen
           rv == hd.rev
           fi == hd.first
           en == hd.end
           st == hd.stable
           di == hd.dirty
           nx == hd.next
           pa == hd.parts
           ac == hd.active
           le == hd.len
           dr == hd.dir
           q == SubSeq(hd.parts, drop + 1, Len(hd.parts))
           ds == Moved(hd.dir, EntriesUpTo(hd.dir, drop), drop)
           a == hd.parts[drop + 1].first
           x == Len(hd.parts) - drop
           w == [hd EXCEPT !.first = a, !.parts = q, !.active = x, !.dir = ds]
<1>2. Shifted(hd, drop) = w
  BY DEF Shifted, Moved
<1>3. hd = HandleOf(gn, rv, fi, en, st, di, nx, pa, ac, le, dr)
  BY <1>1
<1>4. w = [hd EXCEPT !.first = a, !.parts = q, !.active = x, !.dir = ds]
  OBVIOUS
<1> HIDE DEF gn, rv, fi, en, st, di, nx, pa, ac, le, dr, q, ds, a, x, w
<1>5. w = HandleOf(gn, rv, a, en, st, di, nx, q, x, le, ds)
  BY <1>3, <1>4 DEF HandleOf
<1> DEFINE y == [w EXCEPT !.gen = @ + 1]
<1>6. y = [w EXCEPT !.gen = @ + 1]
  OBVIOUS
<1> HIDE DEF y
<1>7. y = HandleOf(gn + 1, rv, a, en, st, di, nx, q, x, le, ds)
  BY <1>5, <1>6 DEF HandleOf
<1>8. Shifted(hd, drop) = HandleOf(gn, rv, a, en, st, di, nx, q, x, le, ds)
      /\ [Shifted(hd, drop) EXCEPT !.gen = @ + 1] = HandleOf(gn + 1, rv, a, en, st, di, nx, q, x, le, ds)
  <2>1. [Shifted(hd, drop) EXCEPT !.gen = @ + 1] = y
    BY <1>2 DEF y
  <2> QED BY <1>2, <1>5, <1>7, <2>1
<1> QED BY <1>8 DEF ShiftedAs, gn, rv, en, st, di, nx, le, q, ds, a, x

\* The entries of the parts behind the dropped ones, renumbered.
LEMMA MovedIs ==
    ASSUME NEW ps, NEW a, Chain(ps, a), Rising(ps), NEW dir, NEW b, Linked(dir, a, b),
           \A i \in 1..Len(dir) : Within(ps, dir[i]) /\ dir[i] = EntryAs(dir[i]),
           ps[Len(ps)].first <= b,
           NEW p \in 0..Len(ps) - 1, NEW n, n = EntriesUpTo(dir, p), NEW q, q = Moved(dir, n, p)
    PROVE  /\ n \in 0..Len(dir) /\ Linked(q, ps[p + 1].first, b) /\ Len(q) = Len(dir) - n
           /\ \A i \in 1..Len(q) :
                 /\ n + i \in 1..Len(dir)
                 /\ q[i] = Entry(dir[n + i].first, dir[n + i].count, dir[n + i].pos, dir[n + i].part - p)
                 /\ dir[n + i].part \in p + 1..Len(ps)
<1> DEFINE L == Len(dir)
           x == ps[p + 1].first
<1>1. /\ n \in 0..L /\ Halved(dir, n, a, x, b) /\ \A e \in n + 1..L : dir[e].part > p
  BY DirCut
<1>2. IsSeq(dir) /\ L \in Nat
  BY SeqIs DEF Linked, Counts
<1>3. IsSeq(ps) /\ Len(ps) \in Nat
  BY SeqIs DEF Chain
<1> DEFINE c == SubSeq(dir, n + 1, L)
<1>4. /\ Linked(c, x, b) /\ Len(c) = L - n /\ \A e \in 1..L - n : c[e] = dir[n + e]
  BY <1>1 DEF Halved
<1> HIDE DEF c, x
<1>5. L - n \in Nat /\ \A i \in 1..L - n : n + i \in 1..L /\ n + i \in n + 1..L
  BY <1>1, <1>2
<1>6. IsSeq(q) /\ Len(q) = L - n /\ \A i \in 1..L - n : q[i] = [dir[n + i] EXCEPT !.part = @ - p]
  <2> DEFINE m == L - n
  <2>0. q = [i \in 1..L - n |-> [dir[n + i] EXCEPT !.part = @ - p]]
    BY DEF Moved
  <2>1. \A i \in 1..L - n : q[i] = [dir[n + i] EXCEPT !.part = @ - p]
    BY <2>0
  <2>2. q = [i \in 1..m |-> q[i]]
    BY <2>0
  <2>3. m \in Nat
    BY <1>5
  <2> HIDE DEF m
  <2>4. IsSeq(q) /\ Len(q) = m
    BY <2>2, <2>3, SeqIntro
  <2> QED BY <2>1, <2>4 DEF m
<1>7. ASSUME NEW i \in 1..L - n
      PROVE  /\ q[i] = Entry(dir[n + i].first, dir[n + i].count, dir[n + i].pos, dir[n + i].part - p)
             /\ dir[n + i].part \in p + 1..Len(ps)
  <2> DEFINE e == dir[n + i]
  <2>1. n + i \in 1..L /\ n + i \in n + 1..L
    BY <1>5
  <2>2. Within(ps, e) /\ e = EntryAs(e) /\ e.part > p
    BY <1>1, <2>1
  <2>3. e.part \in p + 1..Len(ps)
    BY <1>3, <2>2 DEF Within
  <2>4. q[i] = [e EXCEPT !.part = @ - p]
    BY <1>6
  <2> HIDE DEF e
  <2>5. ASSUME NEW f1, NEW f2, NEW f3, NEW f4, NEW k, k = Entry(f1, f2, f3, f4), NEW w,
               w = [k EXCEPT !.part = @ - p]
        PROVE  w = Entry(f1, f2, f3, f4 - p)
    BY <2>5 DEF Entry
  <2>6. q[i] = Entry(e.first, e.count, e.pos, e.part - p)
    BY <2>2, <2>4, <2>5 DEF EntryAs
  <2> QED BY <2>3, <2>6 DEF e
<1>8. \A i \in 1..L - n : q[i].first = c[i].first /\ q[i].count = c[i].count
  <2>1. \A u, v, w, z : Entry(u, v, w, z).first = u /\ Entry(u, v, w, z).count = v
    BY DEF Entry
  <2>2. ASSUME NEW i \in 1..L - n
        PROVE  q[i].first = c[i].first /\ q[i].count = c[i].count
    <3> DEFINE e == dir[n + i]
    <3>1. q[i] = Entry(e.first, e.count, e.pos, e.part - p) /\ c[i] = e
      BY <1>4, <1>7
    <3> HIDE DEF e
    <3> QED BY <2>1, <3>1
  <2> QED BY <2>2
<1>9. Linked(q, x, b)
  BY <1>4, <1>6, <1>8, LinkedMoved
<1> QED BY <1>1, <1>5, <1>6, <1>7, <1>9 DEF x

\* A ledger of which n parts can be dropped.
Prunable(F, d, hd, s, n) ==
    /\ IsHandle(hd) /\ IsLog(s) /\ Matches(hd, s) /\ Finds(F, d, hd, s.log)
    /\ Whole(F, hd, s.log) /\ PartsHold(F, d, hd.parts, StableLog(s))
    /\ n \in 1..Len(hd.parts) - 1 /\ hd.parts[n].end <= hd.stable
    /\ \A p \in 1..Len(hd.parts) : hd.parts[p].id < hd.next

\* It is pruned to index to, and its log becomes t.
Prunes(F, d, hd, s, n, ps, to, t) ==
    /\ Prunable(F, d, hd, s, n)
    /\ ps = hd.parts /\ to = ps[n + 1].first /\ t = PrunedLog(s, to)

\* Pruning the first n parts moves the start of the log to index to.
PrunesTo(hd, s, n, ps, to, t) ==
    /\ Chain(ps, hd.first) /\ Rising(ps) /\ Len(ps) \in Nat /\ n + 1 \in 1..Len(ps)
    /\ n \in Nat /\ to \in hd.first..hd.stable
    /\ \A i \in n + 1..Len(ps) : to <= ps[i].first
    /\ IsLog(t) /\ t.first = to /\ t.stable = s.stable /\ t.rev = s.rev
    /\ Len(t.log) = Len(s.log) /\ \A i \in to..Len(s.log) : t.log[i] = s.log[i]
    /\ hd.end = Len(s.log) + 1 /\ hd.first = s.first /\ hd.stable = s.stable
    /\ ps[Len(ps)].first <= hd.end /\ to \in Nat
    /\ \A i \in 1..Len(ps) : ps[i].first \in Nat /\ ps[i].end \in Nat

\* What a prune the code allows gives.
LEMMA PrunableIs ==
    ASSUME NEW F, NEW d, NEW hd, NEW s, NEW n, NEW ps, NEW to, NEW t,
           Prunes(F, d, hd, s, n, ps, to, t)
    PROVE  PrunesTo(hd, s, n, ps, to, t)
<1>0. /\ Prunable(F, d, hd, s, n)
      /\ ps = hd.parts /\ to = ps[n + 1].first /\ t = PrunedLog(s, to)
  BY DEF Prunes
<1>1. /\ Chain(ps, hd.first) /\ Rising(ps) /\ Len(ps) > 0
      /\ IsSeq(ps) /\ Len(ps) \in Nat /\ hd.first \in Nat
      /\ \A i \in 1..Len(ps) : ps[i].first \in Nat /\ ps[i].end \in Nat
      /\ \A i \in 1..Len(ps) - 1 : ps[i].end = ps[i + 1].first
  BY <1>0, SeqIs DEF Prunable, IsHandle, Chain
<1>2. n \in 1..Len(ps) - 1 /\ ps[n].end <= hd.stable
  BY <1>0 DEF Prunable
<1>3. n + 1 \in 1..Len(ps) /\ n \in Nat /\ to = ps[n].end /\ to \in Nat
  BY <1>0, <1>1, <1>2
<1>4. /\ \A i, j \in 1..Len(ps) : i < j => ps[i].end <= ps[j].first
      /\ \A i \in 1..Len(ps) : hd.first <= ps[i].first
  BY <1>1, ChainRises
<1>5. /\ s.first \in Nat /\ s.stable \in Nat /\ Len(s.log) \in Nat /\ IsLog(s)
  BY <1>0, LogIs DEF Prunable
<1>6. hd.first = s.first /\ hd.stable = s.stable /\ hd.end = Len(s.log) + 1
  BY <1>0 DEF Prunable, Matches
<1>7. to \in s.first..s.stable
  <2>1. hd.first <= to
    BY <1>0, <1>3, <1>4
  <2>2. to <= hd.stable
    BY <1>2, <1>3
  <2> QED BY <1>3, <1>5, <1>6, <2>1, <2>2
<1>8. /\ IsLog(t) /\ t.first = to /\ t.stable = s.stable /\ t.rev = s.rev
      /\ Len(t.log) = Len(s.log) /\ \A i \in to..Len(s.log) : t.log[i] = s.log[i]
  BY <1>0, <1>5, <1>7, PrunedLogIs
<1>9. ASSUME NEW i \in n + 1..Len(ps)
      PROVE  to <= ps[i].first
  <2>1. i \in 1..Len(ps) /\ n \in 1..Len(ps) /\ n < i
    BY <1>1, <1>2
  <2> QED BY <1>3, <1>4, <2>1
<1>10. ps[Len(ps)].first <= hd.end
  <2>1. Whole(F, hd, s.log) /\ Len(ps) \in 1..Len(ps)
    BY <1>0, <1>1 DEF Prunable
  <2> DEFINE dd == ps[Len(ps)]
  <2>2. dd.first \in Nat /\ dd = hd.parts[Len(hd.parts)]
    BY <1>0, <1>1, <2>1
  <2> HIDE DEF dd
  <2>3. dd.first <= hd.end
    BY <2>1, <2>2, WholeFirst
  <2> QED BY <2>3 DEF dd
<1> QED BY <1>1, <1>3, <1>6, <1>7, <1>8, <1>9, <1>10 DEF PrunesTo

\* The parts that stay hold what is left of the log.
LEMMA PrunedParts ==
    ASSUME NEW F, NEW d, NEW hd, NEW s, NEW n, NEW ps, NEW to, NEW t,
           Prunes(F, d, hd, s, n, ps, to, t), NEW q, q = SubSeq(ps, n + 1, Len(ps))
    PROVE  PartsHold(F, d, q, StableLog(t))
<1> DEFINE N == Len(ps)
           b == StableLog(s)
           u == StableLog(t)
<1>1. /\ Chain(ps, hd.first) /\ Rising(ps) /\ N \in Nat /\ n + 1 \in 1..N
      /\ n \in Nat /\ \A i \in n + 1..N : to <= ps[i].first
      /\ IsLog(t) /\ t.first = to /\ t.stable = s.stable /\ t.rev = s.rev
      /\ Len(t.log) = Len(s.log) /\ \A i \in to..Len(s.log) : t.log[i] = s.log[i]
      /\ ps[N].first <= hd.end /\ to \in Nat
      /\ \A i \in 1..N : ps[i].first \in Nat /\ ps[i].end \in Nat
  BY PrunableIs DEF PrunesTo
<1>2. IsLog(s) /\ PartsHold(F, d, ps, b)
  BY DEF Prunes, Prunable
<1>3. /\ IsLog(b) /\ b.rev = s.rev /\ b.stable = s.stable
      /\ Len(b.log) = s.stable - 1 /\ \A i \in 1..s.stable - 1 : b.log[i] = s.log[i]
  BY <1>2, StableIs
<1>4. /\ IsLog(u) /\ u.rev = t.rev /\ u.stable = t.stable
      /\ Len(u.log) = t.stable - 1 /\ \A i \in 1..t.stable - 1 : u.log[i] = t.log[i]
  BY <1>1, StableIs
<1> HIDE DEF b, u
<1>5. /\ Len(b.log) \in Nat /\ Len(u.log) = Len(b.log) /\ u.stable = b.stable /\ u.rev = b.rev
      /\ b.stable \in Nat /\ b.stable = Len(b.log) + 1
  <2>1. s.stable \in Nat /\ s.stable > 0
    BY <1>2, LogIs
  <2> QED BY <1>1, <1>3, <1>4, <2>1, LogIs
<1>6. \A i \in to..Len(b.log) : u.log[i] = b.log[i]
  <2>1. s.stable \in Nat /\ s.stable <= Len(s.log) + 1 /\ Len(s.log) \in Nat
    BY <1>2, LogIs
  <2>2. to > 0
    BY <1>1, LogIs
  <2>3. \A i \in to..s.stable - 1 : i \in 1..s.stable - 1 /\ i \in to..Len(s.log)
    BY <1>1, <2>1, <2>2
  <2>4. ASSUME NEW i \in to..Len(b.log)
        PROVE  u.log[i] = b.log[i]
    <3>1. i \in 1..s.stable - 1 /\ i \in to..Len(s.log)
      BY <1>3, <2>3
    <3>2. u.log[i] = t.log[i] /\ b.log[i] = s.log[i] /\ t.log[i] = s.log[i]
      BY <1>1, <1>3, <1>4, <3>1
    <3> QED BY <3>2
  <2> QED BY <2>4
<1>7. /\ Len(q) = N - n /\ N - n \in Nat \ {0}
      /\ \A i \in 1..N - n : n + i \in n + 1..N /\ n + i \in 1..N /\ q[i] = ps[n + i]
  <2>1. /\ Len(q) = N - (n + 1) + 1
        /\ \A i \in 1..Len(q) : n + 1 + i - 1 \in 1..N /\ q[i] = ps[n + 1 + i - 1]
    <3>1. PartsFrom(ps, hd.first, n + 1, q)
      BY <1>1 DEF PartsFrom
    <3> DEFINE l == n + 1
    <3>2. PartsFrom(ps, hd.first, l, q)
      BY <3>1
    <3> HIDE DEF l
    <3>3. PartsThere(ps, l, q)
      BY <3>2, ChainFrom
    <3> QED BY <3>3 DEF l, PartsThere
  <2>2. N - (n + 1) + 1 = N - n /\ N - n \in Nat \ {0}
        /\ \A i \in 1..N - n : n + 1 + i - 1 = n + i /\ n + i \in n + 1..N
    <3>1. N \in Nat /\ n \in Nat /\ n + 1 \in 1..N
      BY <1>1
    <3> HIDE DEF N
    <3> QED BY ONLY <3>1
  <2> QED BY <2>1, <2>2
<1>8. /\ \A i \in 1..N : ps[i].id \in d.part /\ Part(ps[i].id) \in DOMAIN F
      /\ \A i \in 1..N - 1 : /\ F[Part(ps[i].id)].live = F[Part(ps[i].id)].hard
                             /\ GoodSealed(ps[i], F[Part(ps[i].id)].live, b.log)
      /\ SafeActive(Base(ps[N]), b.rev, F[Part(ps[N].id)], b)
  BY <1>2 DEF PartsHold
<1>9. ASSUME NEW j \in n + 1..N - 1
      PROVE  GoodSealed(ps[j], F[Part(ps[j].id)].live, u.log)
  <2> DEFINE e == ps[j]
             c == F[Part(ps[j].id)].live
  <2>1. j \in 1..N - 1 /\ j \in 1..N /\ j \in n + 1..N /\ N \in 1..N
    BY <1>1
  <2>2. GoodSealed(e, c, b.log) /\ e.first \in Nat /\ e.end \in Nat /\ to <= e.first
    BY <1>1, <1>8, <2>1
  <2>3. e.end <= Len(b.log) + 1
    <3>1. /\ \A i, k \in 1..N : i < k => ps[i].end <= ps[k].first
      BY <1>1, ChainRises
    <3>2. e.end <= ps[N].first
      BY <2>1, <3>1
    <3>3. ps[N].first <= b.stable
      <4> DEFINE f == F[Part(ps[N].id)]
                 x == Base(ps[N])
      <4>1. GoodActive(x, b.rev, f.live, b)
        BY <1>8, SafeIs
      <4>2. x.first = ps[N].first /\ x.first \in Nat
        BY <1>1, <2>1 DEF Base, Desc
      <4> HIDE DEF f, x
      <4>3. PICK k : ActiveUpTo(x, b.rev, f.live, k, b)
        BY <4>1, ActivePick
      <4>4. f.live[k].end = Expected(x, f.live, k) /\ x.first <= Expected(x, f.live, k)
        BY <4>2, <4>3, ActiveIs
      <4>5. f.live[k].end \in b.stable..Len(b.log) + 1
        BY <4>3 DEF ActiveUpTo
      <4>6. Len(b.log) + 1 = b.stable
        BY <1>5
      <4> QED BY <1>5, <4>2, <4>4, <4>5, <4>6
    <3>4. ps[N].first \in Nat
      BY <1>1, <2>1
    <3>5. e.end <= b.stable
      BY <1>5, <2>2, <3>2, <3>3, <3>4
    <3> QED BY <1>5, <3>5
  <2>4. \A i \in e.first..e.end - 1 : u.log[i] = b.log[i]
    <3>0. to \in Nat /\ e.first \in Nat /\ e.end \in Nat /\ to <= e.first /\ e.end <= Len(b.log) + 1
          /\ Len(b.log) \in Nat
      BY <1>1, <1>5, <2>2, <2>3
    <3> HIDE DEF e
    <3>1. \A i \in e.first..e.end - 1 : i \in to..Len(b.log)
      BY ONLY <3>0
    <3> QED BY <1>6, <3>1
  <2> DEFINE old == b.log
             new == u.log
  <2>5. GoodSealed(e, c, old) /\ e.end <= Len(new) + 1 /\ Len(new) \in Nat
        /\ \A i \in e.first..e.end - 1 : new[i] = old[i]
    BY <1>5, <2>2, <2>3, <2>4
  <2> HIDE DEF e, c, old, new
  <2>6. GoodSealed(e, c, new)
    BY <2>2, <2>5, SealedSame
  <2> QED BY <2>6 DEF e, c, new
<1>10. SafeActive(Base(ps[N]), u.rev, F[Part(ps[N].id)], u)
  <2> DEFINE x == Base(ps[N])
             f == F[Part(ps[N].id)]
  <2>1. x.first = ps[N].first /\ N \in 1..N /\ N \in n + 1..N
    BY <1>1 DEF Base, Desc
  <2>2. SafeActive(x, b.rev, f, b) /\ x.first \in Nat /\ to <= x.first
    BY <1>1, <1>8, <2>1
  <2>3. \A i \in x.first..Len(b.log) : u.log[i] = b.log[i]
    <3>1. \A i \in x.first..Len(b.log) : i \in to..Len(b.log)
      BY <1>1, <1>5, <2>2
    <3> QED BY <1>6, <3>1
  <2> HIDE DEF x, f
  <2>4. u.stable <= b.stable /\ Len(b.log) <= Len(u.log) /\ u.stable \in Nat /\ Len(u.log) \in Nat
    BY <1>5
  <2>5. SafeActive(x, b.rev, f, u)
    BY <1>5, <2>2, <2>3, <2>4, SafeLog
  <2> QED BY <1>5, <2>5 DEF x, f
<1>11. \A i \in 1..Len(q) : q[i].id \in d.part /\ Part(q[i].id) \in DOMAIN F
  BY <1>7, <1>8
<1>12. ASSUME NEW i \in 1..Len(q) - 1
       PROVE  /\ F[Part(q[i].id)].live = F[Part(q[i].id)].hard
              /\ GoodSealed(q[i], F[Part(q[i].id)].live, u.log)
  <2> DEFINE j == n + i
  <2>1. j \in n + 1..N - 1 /\ j \in 1..N - 1 /\ i \in 1..N - n
    <3>1. N \in Nat /\ n \in Nat /\ i \in 1..N - n - 1
      BY <1>1, <1>7
    <3> HIDE DEF N
    <3> QED BY ONLY <3>1
  <2>2. q[i] = ps[j]
    BY <1>7, <2>1
  <2> HIDE DEF j
  <2> QED BY <1>8, <1>9, <2>1, <2>2
<1>13. q[Len(q)] = ps[N]
  <2>1. Len(q) \in 1..N - n /\ n + Len(q) = N
    <3>1. N \in Nat /\ n \in Nat /\ Len(q) = N - n /\ N - n \in Nat \ {0}
      BY <1>1, <1>7
    <3> HIDE DEF N
    <3> QED BY ONLY <3>1
  <2> QED BY <1>7, <2>1
<1>14. PartsHold(F, d, q, u)
  BY <1>10, <1>11, <1>12, <1>13 DEF PartsHold
<1> QED BY <1>14 DEF u

\* What moves, and what is then found in its place.
MovesIn(ps, a, dir, b, p, n, q) ==
    /\ Chain(ps, a) /\ Rising(ps) /\ Linked(dir, a, b)
    /\ \A i \in 1..Len(dir) : Within(ps, dir[i]) /\ dir[i] = EntryAs(dir[i])
    /\ ps[Len(ps)].first <= b
    /\ p \in 0..Len(ps) - 1 /\ n = EntriesUpTo(dir, p) /\ q = Moved(dir, n, p)

\* q is the directory without the pruned entries, its parts renumbered.
MovesOut(ps, dir, b, p, n, q) ==
    /\ n \in 0..Len(dir) /\ Linked(q, ps[p + 1].first, b) /\ Len(q) = Len(dir) - n
    /\ \A i \in 1..Len(q) :
          /\ n + i \in 1..Len(dir)
          /\ q[i] = Entry(dir[n + i].first, dir[n + i].count, dir[n + i].pos, dir[n + i].part - p)
          /\ dir[n + i].part \in p + 1..Len(ps)

\* Moving, with its premises and its result in one piece each.
LEMMA MovedAs ==
    ASSUME NEW ps, NEW a, NEW dir, NEW b, NEW p, NEW n, NEW q, MovesIn(ps, a, dir, b, p, n, q)
    PROVE  MovesOut(ps, dir, b, p, n, q)
<1>1. /\ Chain(ps, a) /\ Rising(ps) /\ Linked(dir, a, b)
      /\ \A i \in 1..Len(dir) : Within(ps, dir[i]) /\ dir[i] = EntryAs(dir[i])
      /\ ps[Len(ps)].first <= b
      /\ p \in 0..Len(ps) - 1 /\ n = EntriesUpTo(dir, p) /\ q = Moved(dir, n, p)
  BY DEF MovesIn
<1>2. /\ n \in 0..Len(dir) /\ Linked(q, ps[p + 1].first, b) /\ Len(q) = Len(dir) - n
      /\ \A i \in 1..Len(q) :
            /\ n + i \in 1..Len(dir)
            /\ q[i] = Entry(dir[n + i].first, dir[n + i].count, dir[n + i].pos, dir[n + i].part - p)
            /\ dir[n + i].part \in p + 1..Len(ps)
  BY <1>1, MovedIs
<1> QED BY <1>2 DEF MovesOut

\* The handle of what is left.
HandleOn(F, d, r, t) ==
    /\ IsHandle(r) /\ Matches(r, t) /\ Finds(F, d, r, t.log) /\ Whole(F, r, t.log)
    /\ \A p \in 1..Len(r.parts) : r.parts[p].id < r.next

\* The handle after a prune finds the records that remain.
LEMMA PrunedHandle ==
    ASSUME NEW F, NEW d, NEW hd, NEW s, NEW n, NEW ps, NEW to, NEW t,
           Prunes(F, d, hd, s, n, ps, to, t), NEW g \in Nat \ {0},
           NEW r, r = ShiftedAs(hd, n, g)
    PROVE  HandleOn(F, d, r, t) /\ r.parts = SubSeq(ps, n + 1, Len(ps)) /\ r.gen = g
<1> DEFINE N == Len(ps)
           q == SubSeq(ps, n + 1, N)
           dir == hd.dir
           k == EntriesUpTo(dir, n)
           D == Moved(dir, k, n)
           x == N - n
<1>1. /\ Chain(ps, hd.first) /\ Rising(ps) /\ N \in Nat /\ n + 1 \in 1..N
      /\ n \in Nat /\ \A i \in n + 1..N : to <= ps[i].first
      /\ IsLog(t) /\ t.first = to /\ t.stable = s.stable /\ t.rev = s.rev
      /\ Len(t.log) = Len(s.log) /\ \A i \in to..Len(s.log) : t.log[i] = s.log[i]
      /\ hd.end = Len(s.log) + 1 /\ hd.first = s.first /\ hd.stable = s.stable
      /\ ps[N].first <= hd.end /\ to \in Nat
      /\ \A i \in 1..N : ps[i].first \in Nat /\ ps[i].end \in Nat
  BY PrunableIs DEF PrunesTo
<1>2. /\ ps = hd.parts /\ to = ps[n + 1].first
      /\ IsHandle(hd) /\ IsLog(s) /\ Matches(hd, s) /\ Finds(F, d, hd, s.log)
      /\ Whole(F, hd, s.log) /\ \A p \in 1..N : ps[p].id < hd.next
  BY DEF Prunes, Prunable
<1>3. r = HandleOf(g, hd.rev, to, hd.end, hd.stable, hd.dirty, hd.next, q, x, hd.len, D)
  BY <1>2 DEF ShiftedAs
<1> HIDE DEF D, x, q
<1>4. /\ r.gen = g /\ r.rev = hd.rev /\ r.first = to /\ r.end = hd.end /\ r.stable = hd.stable
      /\ r.dirty = hd.dirty /\ r.next = hd.next /\ r.parts = q /\ r.active = x
      /\ r.len = hd.len /\ r.dir = D
  BY <1>3, HandleOfIs
<1>5. /\ Linked(dir, hd.first, hd.end)
      /\ \A i \in 1..Len(dir) :
            dir[i].part \in 1..N /\ Locates(F[Part(ps[dir[i].part].id)].live, dir[i], s.log)
      /\ \A p \in 1..N : ps[p].id \in d.part /\ Part(ps[p].id) \in DOMAIN F
  BY <1>2 DEF Finds
<1>6. \A i \in 1..Len(dir) : Within(ps, dir[i]) /\ dir[i] = EntryAs(dir[i])
  BY <1>2, <1>5 DEF IsHandle, InRange, Locates, EntryAs
<1>7. n \in 0..N - 1
  BY <1>1
<1>8. /\ k \in 0..Len(dir) /\ Linked(D, to, hd.end) /\ Len(D) = Len(dir) - k
      /\ \A i \in 1..Len(D) :
            /\ k + i \in 1..Len(dir)
            /\ D[i] = Entry(dir[k + i].first, dir[k + i].count, dir[k + i].pos, dir[k + i].part - n)
            /\ dir[k + i].part \in n + 1..N
  <2>1. k = EntriesUpTo(dir, n) /\ D = Moved(dir, k, n)
    BY DEF D
  <2>2. MovesIn(ps, hd.first, dir, hd.end, n, k, D)
    BY <1>1, <1>5, <1>6, <1>7, <2>1 DEF MovesIn
  <2>3. MovesOut(ps, dir, hd.end, n, k, D)
    <3> HIDE DEF k, dir
    <3> QED BY <2>2, MovedAs
  <2> HIDE DEF k, dir
  <2> QED BY <1>2, <2>3 DEF MovesOut
<1>9. /\ Chain(q, to) /\ Rising(q) /\ Len(q) = x
      /\ \A i \in 1..x : n + i \in 1..N /\ q[i] = ps[n + i]
  <2> DEFINE l == n + 1
             fst == hd.first
  <2>3. PartsFrom(ps, fst, l, q)
    BY <1>1 DEF q, PartsFrom
  <2>1. /\ Chain(q, ps[n + 1].first) /\ Rising(q) /\ Len(q) = N - (n + 1) + 1
        /\ \A i \in 1..Len(q) : n + 1 + i - 1 \in 1..N /\ q[i] = ps[n + 1 + i - 1]
    <3> HIDE DEF l, fst
    <3>1. PartsThere(ps, l, q)
      BY <2>3, ChainFrom
    <3> QED BY <3>1 DEF l, PartsThere
  <2>2. N - (n + 1) + 1 = x /\ \A i \in 1..x : n + 1 + i - 1 = n + i
    <3>1. N \in Nat /\ n \in Nat
      BY <1>1
    <3> HIDE DEF N
    <3> QED BY ONLY <3>1 DEF x
  <2> QED BY <1>2, <2>1, <2>2
<1>10. x \in Nat /\ x > 0 /\ n + x = N
  <2>1. N \in Nat /\ n \in Nat /\ n + 1 \in 1..N
    BY <1>1
  <2> HIDE DEF N
  <2> QED BY ONLY <2>1 DEF x
<1>11. ASSUME NEW i \in 1..Len(D)
       PROVE  /\ Within(q, D[i]) /\ D[i].part \in 1..Len(q)
              /\ Locates(F[Part(q[D[i].part].id)].live, D[i], t.log)
  <2> DEFINE e == dir[k + i]
             j == e.part
             m == j - n
             f == D[i]
             c == F[Part(ps[j].id)].live
  <2>1. k + i \in 1..Len(dir) /\ f = Entry(e.first, e.count, e.pos, m) /\ j \in n + 1..N
    BY <1>8
  <2>2. Within(ps, e) /\ Locates(c, e, s.log)
    BY <1>5, <1>6, <2>1
  <2>3. f.first = e.first /\ f.count = e.count /\ f.part = m /\ EndOf(f) = EndOf(e)
    BY <2>1 DEF Entry, EndOf
  <2>4. m \in 1..x /\ n + m = j /\ j \in Nat
    <3>1. N \in Nat /\ n \in Nat /\ j \in n + 1..N
      BY <1>1, <2>1
    <3> HIDE DEF N, j
    <3> QED BY ONLY <3>1 DEF x
  <2>5. q[m] = ps[j]
    BY <1>9, <2>4
  <2>6. ps[j].first <= e.first /\ (j < N => EndOf(e) <= ps[j].end)
    BY <2>2 DEF Within
  <2>7. e.first \in Nat /\ e.count \in Nat \ {0} /\ EndOf(e) \in Nat
    BY <2>2, LocatesIs
  <2>8. m < x => j < N
    <3>1. N \in Nat /\ n \in Nat
      BY <1>1
    <3>2. x \in Nat /\ n + x = N
      BY <1>10
    <3>3. m \in 1..x /\ n + m = j
      BY <2>4
    <3> HIDE DEF N, j, m
    <3> QED BY ONLY <3>1, <3>2, <3>3
  <2> HIDE DEF f, j, m, c, e
  <2>9. Within(q, f)
    BY <1>9, <2>3, <2>4, <2>5, <2>6, <2>8 DEF Within
  <2>10. \A y \in e.first..EndOf(e) - 1 : t.log[y] = s.log[y]
    <3>1. to <= ps[j].first /\ ps[j].first \in Nat
      <4>1. j \in 1..N
        BY <1>1, <2>1
      <4> QED BY <1>1, <2>1, <4>1
    <3>2. EndOf(e) <= hd.end
      <4>1. k + i \in 1..Len(dir) /\ Linked(dir, hd.first, hd.end)
        BY <1>5, <2>1
      <4> QED BY <4>1, LinkedRange DEF e
    <3>3. \A y \in e.first..EndOf(e) - 1 : y \in to..Len(s.log)
      <4>1. /\ to \in Nat /\ e.first \in Nat /\ EndOf(e) \in Nat /\ ps[j].first \in Nat
            /\ to <= ps[j].first /\ ps[j].first <= e.first /\ EndOf(e) <= Len(s.log) + 1
            /\ Len(s.log) \in Nat
        BY <1>1, <1>2, <2>6, <2>7, <3>1, <3>2, LogIs
      <4> QED BY ONLY <4>1
    <3> QED BY <1>1, <3>3
  <2>11. Locates(c, f, t.log)
    <3> DEFINE old == s.log
               new == t.log
    <3>1. Locates(c, e, old) /\ f = Entry(e.first, e.count, e.pos, m)
          /\ \A y \in e.first..EndOf(e) - 1 : new[y] = old[y]
      BY <2>1, <2>2, <2>10 DEF f, m
    <3> HIDE DEF old, new
    <3>2. Locates(c, f, new)
      BY <3>1, LocatesMoved
    <3> QED BY <3>2 DEF new
  <2>12. f.part \in 1..Len(q) /\ F[Part(q[f.part].id)].live = c
    BY <1>9, <2>3, <2>4, <2>5 DEF c
  <2> QED BY <2>9, <2>11, <2>12 DEF f
<1>12. IsHandle(r)
  <2>1. InRange(r)
    BY <1>4, <1>11 DEF InRange
  <2>2. /\ hd.next \in Nat /\ hd.dirty \in BOOLEAN /\ (~hd.dirty => hd.stable = hd.end)
    BY <1>2 DEF IsHandle
  <2> DEFINE gr == hd.rev
             b == hd.end
             c == hd.stable
             e == hd.dirty
             nx == hd.next
             l == hd.len
  <2>3. r = HandleOf(g, gr, to, b, c, e, nx, q, x, l, D)
    BY <1>3
  <2>4. nx \in Nat /\ e \in BOOLEAN /\ (~e => c = b) /\ x = Len(q)
    BY <1>9, <2>2
  <2> HIDE DEF gr, b, c, e, nx, l
  <2> QED BY <1>9, <2>1, <2>3, <2>4, HandleIntro
<1>13. Matches(r, t)
  BY <1>1, <1>2, <1>4 DEF Matches
<1>14. Finds(F, d, r, t.log)
  <2>1. IsSeq(q)
    BY <1>9 DEF Chain
  <2>2. \A p \in 1..Len(q) : q[p].id \in d.part /\ Part(q[p].id) \in DOMAIN F
    BY <1>5, <1>9
  <2>3. Linked(r.dir, r.first, r.end) /\ r.parts = q /\ r.dir = D
    BY <1>4, <1>8
  <2> HIDE DEF k, dir
  <2> QED BY <1>11, <2>1, <2>2, <2>3 DEF Finds
<1>15. Whole(F, r, t.log)
  <2> DEFINE dd == ps[N]
             old == s.log
             new == t.log
  <2>1. dd = hd.parts[Len(hd.parts)] /\ dd.first \in Nat /\ r.parts[Len(r.parts)] = dd
    <3>1. x \in 1..x /\ N \in 1..N
      BY <1>1, <1>10
    <3>2. q[x] = ps[N] /\ Len(q) = x
      BY <1>9, <1>10, <3>1
    <3> QED BY <1>1, <1>2, <1>4, <3>1, <3>2
  <2>2. r.end = hd.end /\ r.len = hd.len /\ Len(new) \in Nat /\ hd.end <= Len(new) + 1
    <3>1. Len(s.log) \in Nat
      BY <1>2, LogIs
    <3> QED BY <1>1, <1>4, <3>1
  <2>3. \A i \in dd.first..hd.end - 1 : new[i] = old[i]
    <3>1. Len(s.log) \in Nat /\ N \in n + 1..N
      BY <1>1, <1>2, LogIs
    <3>2. to <= dd.first
      BY <1>1, <3>1
    <3>3. /\ to \in Nat /\ dd.first \in Nat /\ to <= dd.first /\ hd.end = Len(s.log) + 1
          /\ Len(s.log) \in Nat
      BY <1>1, <2>1, <3>1, <3>2
    <3> HIDE DEF dd
    <3>4. \A i \in dd.first..hd.end - 1 : i \in to..Len(s.log)
      BY ONLY <3>3
    <3> QED BY <1>1, <3>4
  <2>4. Whole(F, hd, old)
    BY <1>2
  <2> HIDE DEF dd, old, new
  <2>5. Whole(F, r, new)
    BY <2>1, <2>2, <2>3, <2>4, WholeLog
  <2> QED BY <2>5 DEF new
<1>16. \A p \in 1..Len(r.parts) : r.parts[p].id < r.next
  BY <1>2, <1>4, <1>9
<1> QED BY <1>4, <1>12, <1>13, <1>14, <1>15, <1>16 DEF HandleOn, q

\* A handle that has the log has its indices in order.
LEMMA HandleTyped ==
    ASSUME NEW hd, IsHandle(hd), NEW s, IsLog(s), Matches(hd, s)
    PROVE  Typed(hd)
<1>1. hd.active \in 1..Len(hd.parts)
  BY HandleIs
<1>2. /\ s.first <= s.stable /\ s.stable <= Len(s.log) + 1
      /\ hd.first = s.first /\ hd.stable = s.stable /\ hd.end = Len(s.log) + 1
  BY LogIs DEF Matches
<1> QED BY <1>1, <1>2 DEF Typed

\* Assigning a handle while the log is being rewritten.
LEMMA StepSet ==
    ASSUME NEW v, Steady(v), v.mode = "open", v.next # {}, NEW hd, Typed(hd),
           NEW w, w = World(v.file, v.dirs, "open", hd, v.cur, v.next)
    PROVE  Steady(w) /\ Via(v, <<Set(hd)>>, w)
<1>1. /\ w.file = v.file /\ w.dirs = v.dirs /\ w.mode = "open" /\ w.h = hd
      /\ w.cur = v.cur /\ w.next = v.next
  BY WorldIs
<1>2. Steady(w)
  BY <1>1 DEF Steady, Logs
<1>3. Set(hd).op = "set" /\ Set(hd).h = hd /\ Set(hd).told = {}
  BY DEF Set
<1>4. w = World(v.file, v.dirs, "open", Set(hd).h, w.cur, w.next)
  BY <1>1, <1>3
<1>5. Assigned(Set(hd), v, w)
  BY <1>1, <1>3, <1>4 DEF Assigned
<1>6. StepOK(Set(hd), v, w)
  BY <1>2, <1>3, <1>5 DEF StepOK
<1>7. ~Quiet(Set(hd))
  BY <1>3 DEF Quiet
<1> QED BY <1>2, <1>6, <1>7, ViaStep

\* Putting the parts of led89_publish_manifest together.
LEMMA PublishJoins ==
    ASSUME NEW a, NEW b, NEW m, NEW k, NEW r, IsSeq(a), IsSeq(b), IsSeq(m), IsSeq(k), IsSeq(r)
    PROVE  /\ Cat(Cat(Cat(Cat(a, b), m), k), r) = Cat(Cat(a, b), Cat(Cat(m, k), r))
           /\ IsSeq(Cat(a, b)) /\ IsSeq(Cat(m, k))
<1>1. IsSeq(Cat(a, b)) /\ IsSeq(Cat(m, k))
  BY CatAssoc
<1> DEFINE x == Cat(a, b)
<1>2. IsSeq(x)
  BY <1>1
<1> HIDE DEF x
<1>3. Cat(Cat(Cat(x, m), k), r) = Cat(x, Cat(Cat(m, k), r))
  BY <1>2, PlanEnds
<1> QED BY <1>1, <1>3 DEF x

\* The list of obsolete parts and the manifest are allocated, the manifest is
\* published and the operation returns (led89_publish_manifest).
LEMMA PublishPlanVia ==
    ASSUME NEW v, NEW g0, NEW s0, NEW r, NEW t, Presents(v, g0, s0, r, t),
           NEW hd, NEW rev, hd.parts = r.parts, hd.first = r.first, r.gen = hd.gen + 1, r.rev = rev
    PROVE  \E w : /\ Does(v, PublishPlan(hd, rev) \o <<Return(r, t)>>, r, t, w)
                  /\ IsSeq(PublishPlan(hd, rev))
<1>0. SUFFICES ASSUME NEW m1, m1 = ManifestOf(hd, r.gen, r.rev),
                      NEW a1, a1 = IF Len(hd.parts) > 1 THEN <<Alloc(FALSE)>> ELSE << >>,
                      NEW b1, b1 = <<Alloc(TRUE)>>, NEW p1, p1 = ManifestPublish(m1),
                      NEW k1, k1 = CurrentPublish(r.gen), NEW r1, r1 = <<Return(r, t)>>
               PROVE  \E w : /\ Does(v, PublishPlan(hd, rev) \o <<Return(r, t)>>, r, t, w)
                             /\ IsSeq(PublishPlan(hd, rev))
  OBVIOUS
<1>q1. m1 = ManifestOf(hd, r.gen, r.rev)
  BY <1>0
<1>q2. a1 = (IF Len(hd.parts) > 1 THEN <<Alloc(FALSE)>> ELSE << >>)
       /\ b1 = <<Alloc(TRUE)>> /\ p1 = ManifestPublish(m1) /\ k1 = CurrentPublish(r.gen)
       /\ r1 = <<Return(r, t)>>
  BY <1>0
<1>1. Steady(v) /\ v.mode = "open"
  BY DEF Presents
<1>2. Via(v, b1, v)
  BY <1>1, <1>q2, StepAlloc
<1>3. Via(v, a1, v)
  <2>1. Via(v, << >>, v)
    BY ViaNone
  <2>2. Via(v, <<Alloc(FALSE)>>, v)
    BY <1>1, StepAlloc
  <2>3. a1 = << >> \/ a1 = <<Alloc(FALSE)>>
    BY <1>q2
  <2> QED BY <2>1, <2>2, <2>3
<1>4. Via(v, a1 \o b1, v)
  BY <1>2, <1>3, ViaThen
<1>5. PublishedAs(hd, r, m1)
  BY <1>q1 DEF PublishedAs
<1>6. PICK w : TakesOver(v, m1, r, t, w)
  BY <1>5, HandleTakesOver
<1>7. Via(v, (p1 \o k1) \o r1, w) /\ Good(w) /\ Steady(w) /\ w.h = r /\ w.cur = t
  BY <1>6, <1>q2 DEF TakesOver
<1>8. Via(v, (a1 \o b1) \o ((p1 \o k1) \o r1), w)
  BY <1>4, <1>7, ViaThen
<1>9. PublishPlan(hd, rev) = ((a1 \o b1) \o p1) \o k1
  BY <1>q1, <1>q2 DEF PublishPlan
<1>10. IsSeq(a1) /\ IsSeq(b1) /\ IsSeq(p1) /\ IsSeq(k1) /\ IsSeq(r1)
  <2>1. IsSeq(a1) /\ IsSeq(b1)
    BY <1>2, <1>3 DEF Via
  <2> QED BY <2>1, <1>q2, PublishSeq
<1>11. /\ (((a1 \o b1) \o p1) \o k1) \o r1 = (a1 \o b1) \o ((p1 \o k1) \o r1)
       /\ IsSeq(((a1 \o b1) \o p1) \o k1)
  <2>1. /\ Cat(Cat(Cat(Cat(a1, b1), p1), k1), r1) = Cat(Cat(a1, b1), Cat(Cat(p1, k1), r1))
        /\ IsSeq(Cat(a1, b1))
    BY <1>10, PublishJoins
  <2> DEFINE x == Cat(a1, b1)
  <2>2. IsSeq(x)
    BY <2>1
  <2> HIDE DEF x
  <2>3. IsSeq(Cat(Cat(x, p1), k1))
    <3> DEFINE y == Cat(x, p1)
    <3>1. IsSeq(y)
      BY <1>10, <2>2, CatAssoc
    <3> HIDE DEF y
    <3>2. IsSeq(Cat(y, k1))
      BY <1>10, <3>1, CatAssoc
    <3> QED BY <3>2 DEF y
  <2> QED BY <2>1, <2>3 DEF x, Cat
<1>12. Via(v, PublishPlan(hd, rev) \o <<Return(r, t)>>, w)
  BY <1>8, <1>9, <1>11, <1>q2
<1>13. Does(v, PublishPlan(hd, rev) \o <<Return(r, t)>>, r, t, w)
  BY <1>7, <1>12 DEF Does
<1> QED BY <1>9, <1>11, <1>13

\* What prune_before is asked: some part ends at or below the index.
PruneAsked(v, i, n, ps, to, t, u) ==
    /\ Good(v) /\ Steady(v) /\ i \in v.h.first + 1..v.h.stable
    /\ n = PartsUpTo(v.h, i) /\ n > 0
    /\ ps = v.h.parts /\ to = ps[n + 1].first /\ t = PrunedLog(v.cur, to)
    /\ u = World(v.file, v.dirs, "open", v.h, v.cur, {t})

\* Then the first n parts can go.
LEMMA PruneAskedIs ==
    ASSUME NEW v, NEW i, NEW n, NEW ps, NEW to, NEW t, NEW u, PruneAsked(v, i, n, ps, to, t, u)
    PROVE  Prunes(v.file, Top(v), v.h, v.cur, n, ps, to, t)
<1> DEFINE hd == v.h
           s == v.cur
<1>1. /\ Good(v) /\ Steady(v) /\ i \in v.h.first + 1..v.h.stable
      /\ n = PartsUpTo(hd, i) /\ n > 0 /\ ps = hd.parts /\ to = ps[n + 1].first
      /\ t = PrunedLog(s, to)
  BY DEF PruneAsked
<1>2. /\ IsHandle(hd) /\ IsLog(s) /\ Matches(hd, s) /\ Finds(v.file, Top(v), hd, s.log)
      /\ Whole(v.file, hd, s.log) /\ \A p \in 1..Len(hd.parts) : hd.parts[p].id < hd.next
      /\ AllLead(v.file, v.dirs, hd.gen, StableLog(s)) /\ Describes(ManifestAt(v.file, hd.gen), hd)
  BY <1>1 DEF Good
<1>3. PartsHold(v.file, Top(v), hd.parts, StableLog(s))
  <2> DEFINE g == hd.gen
             F == v.file
             ds == v.dirs
             m == ManifestAt(F, g)
             b == StableLog(s)
  <2>1. g # 0 /\ AllLead(F, ds, g, b) /\ m = ManifestAt(F, g) /\ Describes(m, hd)
    BY <1>2 DEF IsHandle
  <2> HIDE DEF g, F, ds, m, b, hd, s
  <2>2. Ready(F, Last(ds), m, b)
    BY <2>1, AllLeadIs
  <2>3. PartsHold(F, Last(ds), hd.parts, b)
    <3> DEFINE d == Last(ds)
    <3>1. Ready(F, d, m, b)
      BY <2>2
    <3> HIDE DEF d
    <3>2. PartsHold(F, d, hd.parts, b)
      BY <2>1, <3>1, PartsHoldIs
    <3> QED BY <3>2 DEF d
  <2> QED BY <2>3 DEF F, ds, b, Top
<1>4. IsSeq(hd.parts) /\ Len(hd.parts) \in Nat /\ Len(hd.parts) > 0
  BY <1>2, HandleIs
<1>5. n \in 0..Len(hd.parts) - 1 /\ \A p \in 1..n : hd.parts[p].end <= i
  BY <1>1, <1>4, PartsUpToIs
<1>6. n \in 1..Len(hd.parts) - 1 /\ n \in 1..n
  BY <1>1, <1>4, <1>5
<1>7. hd.parts[n].end <= hd.stable
  <2>1. hd.parts[n].end <= i /\ hd.parts[n].end \in Nat
    <3>1. n \in 1..Len(hd.parts)
      BY <1>4, <1>6
    <3> QED BY <1>2, <1>5, <1>6, <3>1 DEF IsHandle, Chain
  <2>2. hd.stable \in Nat /\ hd.first \in Nat
    BY <1>2, LogIs DEF Matches
  <2>3. i \in hd.first + 1..hd.stable
    BY <1>1
  <2> DEFINE x == hd.parts[n].end
             y == hd.stable
             z == hd.first
  <2>4. x <= i /\ x \in Nat /\ y \in Nat /\ z \in Nat /\ i \in z + 1..y
    BY <2>1, <2>2, <2>3
  <2> HIDE DEF x, y, z
  <2>5. x <= y
    BY ONLY <2>4
  <2> QED BY <2>5 DEF x, y
<1>8. Prunable(v.file, Top(v), hd, s, n)
  BY <1>2, <1>3, <1>6, <1>7 DEF Prunable
<1> QED BY <1>1, <1>8 DEF Prunes

\* Until the pruned ledger is published, the old log or the new one is found.
LEMMA PruneStarts ==
    ASSUME NEW v, NEW i, NEW n, NEW ps, NEW to, NEW t, NEW u, PruneAsked(v, i, n, ps, to, t, u),
           NEW h1, h1 = ShiftedAs(v.h, n, v.h.gen),
           NEW w, w = World(u.file, u.dirs, "open", h1, u.cur, u.next)
    PROVE  Steady(u) /\ Steady(w) /\ Via(u, <<Set(h1)>>, w)
<1>1. /\ Good(v) /\ Steady(v) /\ u = World(v.file, v.dirs, "open", v.h, v.cur, {t})
  BY DEF PruneAsked
<1>2. Prunes(v.file, Top(v), v.h, v.cur, n, ps, to, t)
  BY PruneAskedIs
<1>3. IsLog(t)
  BY <1>2, PrunableIs DEF PrunesTo
<1>4. /\ u.file = v.file /\ u.dirs = v.dirs /\ u.mode = "open" /\ u.h = v.h
      /\ u.cur = v.cur /\ u.next = {t}
  BY <1>1, WorldIs
<1>5. /\ IsHandle(v.h) /\ IsLog(v.cur) /\ Matches(v.h, v.cur) /\ v.h.gen \in Nat \ {0}
      /\ AllLead(v.file, v.dirs, v.h.gen, StableLog(v.cur))
  BY <1>1 DEF Good, IsHandle
<1>6. Safe(v.file, v.dirs, {v.cur} \union {t})
  <2> DEFINE g == v.h.gen
             s == v.cur
             S == {s} \union {t}
  <2>1. g # 0 /\ IsLog(s) /\ AllLead(v.file, v.dirs, g, StableLog(s))
    BY <1>5
  <2>2. s \in S /\ \A x \in S : IsLog(x)
    BY <1>3, <1>5
  <2> HIDE DEF g, s, S
  <2>3. AllLead(v.file, v.dirs, g, s)
    BY <2>1, StableLeads
  <2>4. Safe(v.file, v.dirs, S)
    BY <2>2, <2>3, AllLeadSafe
  <2> QED BY <2>4 DEF s, S
<1>7. AreFiles(v.file)
  BY <1>1 DEF Steady
<1>8. Typed(v.h)
  BY <1>5, HandleTyped
<1>9. Steady(u)
  BY <1>4, <1>6, <1>7, <1>8 DEF Steady, Logs
<1>10. Typed(h1)
  <2> DEFINE g == v.h.gen
  <2>1. g \in Nat \ {0} /\ h1 = ShiftedAs(v.h, n, g)
    BY <1>5
  <2> HIDE DEF g
  <2>2. HandleOn(v.file, Top(v), h1, t)
    BY <1>2, <2>1, PrunedHandle
  <2> QED BY <1>3, <2>2, HandleTyped DEF HandleOn
<1>11. u.next # {}
  BY <1>4
<1> QED BY <1>4, <1>9, <1>10, <1>11, StepSet

\* Then it is published and its handle works.
LEMMA PruneFinishes ==
    ASSUME NEW v, NEW i, NEW n, NEW ps, NEW to, NEW t, NEW u, PruneAsked(v, i, n, ps, to, t, u),
           NEW h1, h1 = ShiftedAs(v.h, n, v.h.gen), NEW r, r = ShiftedAs(v.h, n, v.h.gen + 1),
           NEW w, w = World(u.file, u.dirs, "open", h1, u.cur, u.next)
    PROVE  /\ Presents(w, v.h.gen, StableLog(v.cur), r, t)
           /\ h1.parts = r.parts /\ h1.first = r.first /\ r.gen = h1.gen + 1 /\ r.rev = v.h.rev
           /\ r.parts = SubSeq(ps, n + 1, Len(ps))
<1>1. /\ Good(v) /\ u = World(v.file, v.dirs, "open", v.h, v.cur, {t})
  BY DEF PruneAsked
<1>2. Prunes(v.file, Top(v), v.h, v.cur, n, ps, to, t)
  BY PruneAskedIs
<1>3. IsLog(t)
  BY <1>2, PrunableIs DEF PrunesTo
<1>4. /\ w.file = v.file /\ w.dirs = v.dirs /\ w.mode = "open" /\ w.cur = v.cur /\ w.next = {t}
      /\ Top(w) = Top(v)
  BY <1>1, WorldIs DEF Top
<1>5. v.h.gen \in Nat \ {0} /\ AllLead(v.file, v.dirs, v.h.gen, StableLog(v.cur))
  BY <1>1 DEF Good, IsHandle
<1>6. Steady(w)
  BY PruneStarts
<1>7. HandleOn(v.file, Top(v), r, t) /\ r.parts = SubSeq(ps, n + 1, Len(ps)) /\ r.gen = v.h.gen + 1
  <2> DEFINE g == v.h.gen + 1
  <2>1. g \in Nat \ {0} /\ r = ShiftedAs(v.h, n, g)
    BY <1>5
  <2> HIDE DEF g
  <2>2. HandleOn(v.file, Top(v), r, t) /\ r.parts = SubSeq(ps, n + 1, Len(ps)) /\ r.gen = g
    BY <1>2, <2>1, PrunedHandle
  <2> QED BY <2>2 DEF g
<1>8. PartsHold(v.file, Top(v), r.parts, StableLog(t))
  BY <1>2, <1>7, PrunedParts
<1>9. Backs(w, StableLog(t))
  BY <1>3, <1>4, BacksStable DEF Logs
<1>10. Tells(w, t)
  BY <1>4 DEF Tells
<1>11. /\ IsHandle(r) /\ Matches(r, t) /\ Finds(v.file, Top(v), r, t.log) /\ Whole(v.file, r, t.log)
       /\ \A p \in 1..Len(r.parts) : r.parts[p].id < r.next
  BY <1>7 DEF HandleOn
<1>12. r.gen # v.h.gen
  BY <1>5, <1>7
<1>13. Presents(w, v.h.gen, StableLog(v.cur), r, t)
  BY <1>3, <1>4, <1>5, <1>6, <1>8, <1>9, <1>10, <1>11, <1>12 DEF Presents
<1>14. h1.parts = r.parts /\ h1.first = r.first /\ h1.gen = v.h.gen /\ r.rev = v.h.rev
  BY HandleOfIs DEF ShiftedAs
<1> QED BY <1>7, <1>13, <1>14

\* prune_before keeps the ledger recoverable through every call, and ends with
\* a handle of what is left.
LEMMA PrunePlanSound ==
    ASSUME NEW v, NEW i, NEW n, NEW ps, NEW to, NEW t, NEW u, PruneAsked(v, i, n, ps, to, t, u)
    PROVE  Steady(u) /\ Sound(u, PrunePlan(v.h, v.cur, i))
<1>0. SUFFICES ASSUME NEW hd1, hd1 = v.h, NEW s1, s1 = v.cur,
                      NEW h1, h1 = ShiftedAs(hd1, n, hd1.gen),
                      NEW r1, r1 = ShiftedAs(hd1, n, hd1.gen + 1),
                      NEW w1, w1 = World(u.file, u.dirs, "open", h1, u.cur, u.next),
                      NEW a1, a1 = <<Set(h1)>>, NEW p1, p1 = PublishPlan(h1, hd1.rev),
                      NEW b1, b1 = <<Return(r1, t)>>,
                      NEW o1, o1 = SubSeq(ps, 1, n), NEW l1, l1 = UnlinkPlan(o1)
               PROVE  Steady(u) /\ Sound(u, PrunePlan(hd1, s1, i))
  OBVIOUS
<1>q1. hd1 = v.h /\ s1 = v.cur
  BY <1>0
<1>q2. h1 = ShiftedAs(hd1, n, hd1.gen) /\ r1 = ShiftedAs(hd1, n, hd1.gen + 1)
       /\ w1 = World(u.file, u.dirs, "open", h1, u.cur, u.next)
  BY <1>0
<1>q3. a1 = <<Set(h1)>> /\ p1 = PublishPlan(h1, hd1.rev) /\ b1 = <<Return(r1, t)>>
       /\ o1 = SubSeq(ps, 1, n) /\ l1 = UnlinkPlan(o1)
  BY <1>0
<1>1. /\ Good(v) /\ n = PartsUpTo(hd1, i) /\ n > 0 /\ ps = hd1.parts /\ to = ps[n + 1].first
      /\ t = PrunedLog(s1, to)
  BY <1>q1 DEF PruneAsked
<1>2. IsHandle(hd1)
  BY <1>1, <1>q1 DEF Good
<1>3. Prunes(v.file, Top(v), v.h, v.cur, n, ps, to, t)
  BY PruneAskedIs
<1>4. Steady(u) /\ Steady(w1) /\ Via(u, a1, w1)
  BY <1>q1, <1>q2, <1>q3, PruneStarts
<1>5. /\ Presents(w1, v.h.gen, StableLog(v.cur), r1, t)
      /\ h1.parts = r1.parts /\ h1.first = r1.first /\ r1.gen = h1.gen + 1 /\ r1.rev = hd1.rev
      /\ r1.parts = SubSeq(ps, n + 1, Len(ps))
  BY <1>q1, <1>q2, PruneFinishes
<1>6. PICK w : Does(w1, p1 \o b1, r1, t, w) /\ IsSeq(p1)
  <2> DEFINE rev == hd1.rev
             g == v.h.gen
             b == StableLog(v.cur)
  <2>1. Presents(w1, g, b, r1, t) /\ r1.rev = rev
    BY <1>5
  <2> HIDE DEF rev, g, b
  <2>2. \E w : Does(w1, PublishPlan(h1, rev) \o <<Return(r1, t)>>, r1, t, w)
               /\ IsSeq(PublishPlan(h1, rev))
    BY <1>5, <2>1, PublishPlanVia
  <2> QED BY <2>2, <1>q3 DEF rev
<1>7. Via(w1, p1 \o b1, w) /\ Good(w) /\ Steady(w) /\ w.h = r1
  BY <1>6 DEF Does
<1>8. Via(u, a1 \o (p1 \o b1), w)
  BY <1>4, <1>7, ViaThen
<1>9. /\ IsSeq(ps) /\ n \in 1..Len(ps) /\ Len(ps) \in Nat /\ n \in Nat /\ n + 1 \in 1..Len(ps)
      /\ \A j, k \in 1..Len(ps) : ps[j].id = ps[k].id => j = k
  <2>1. Chain(ps, hd1.first) /\ Len(ps) \in Nat /\ n + 1 \in 1..Len(ps) /\ n \in Nat
    BY <1>3, <1>q1, PrunableIs DEF PrunesTo
  <2> QED BY <1>1, <2>1 DEF Chain
<1>10. IsSeq(o1) /\ Len(o1) = n /\ \A j \in 1..n : o1[j] = ps[j]
  <2>1. n \in 0..Len(ps)
    BY <1>9
  <2> QED BY <1>9, <1>q3, <2>1, SeqPrefix
<1>11. ASSUME NEW j \in 1..Len(o1), NEW p \in 1..Len(w.h.parts)
       PROVE  w.h.parts[p].id # o1[j].id
  <2> DEFINE q == w.h.parts
  <2>1. q = SubSeq(ps, n + 1, Len(ps)) /\ n + 1 \in Nat \ {0} /\ Len(ps) <= Len(ps)
        /\ n + 1 <= Len(ps) + 1
    BY <1>5, <1>7, <1>9
  <2>2. Len(q) = Len(ps) - (n + 1) + 1
        /\ \A k \in 1..Len(ps) - (n + 1) + 1 : q[k] = ps[n + 1 + k - 1]
    BY <1>9, <2>1, SeqSub
  <2>3. p \in 1..Len(ps) - (n + 1) + 1
    BY <2>2
  <2>4. n + 1 + p - 1 \in 1..Len(ps) /\ n + 1 + p - 1 > n /\ j \in 1..Len(ps) /\ j <= n
    BY <1>9, <1>10, <2>3
  <2>5. q[p] = ps[n + 1 + p - 1] /\ o1[j] = ps[j]
    BY <1>10, <2>2, <2>3
  <2> QED BY <1>9, <2>4, <2>5
<1>12. Sound(w, l1)
  BY <1>7, <1>10, <1>11, <1>q3, UnlinkPlanSound
<1>13. IsSeq(l1)
  <2> DEFINE q == [k \in 1..Len(o1) |-> UnlinkCall(Part(o1[k].id))]
             z == <<QuietSyncDir>>
  <2>1. Len(o1) \in Nat
    BY <1>9, <1>10
  <2>2. IsSeq(q) /\ IsSeq(z)
    BY <2>1, SeqIntro, SeqOne
  <2>3. l1 = q \o z
    BY <1>q3 DEF UnlinkPlan
  <2> HIDE DEF q, z
  <2> QED BY <2>2, <2>3, SeqCat
<1>14. Sound(u, (a1 \o (p1 \o b1)) \o l1)
  BY <1>8, <1>12, <1>13, ViaSound
<1>15. PrunePlan(hd1, s1, i) = ((a1 \o p1) \o b1) \o l1
  <2>1. /\ Shifted(hd1, n) = h1 /\ [h1 EXCEPT !.gen = @ + 1] = r1
    BY <1>2, <1>q2, ShiftedIs
  <2>2. h1.first = to
    BY <1>1, <1>q2, HandleOfIs DEF ShiftedAs
  <2>3. PrunePlan(hd1, s1, i)
          = ((<<Set(h1)>> \o PublishPlan(h1, hd1.rev)) \o <<Return([h1 EXCEPT !.gen = @ + 1], PrunedLog(s1, h1.first))>>)
            \o UnlinkPlan(SubSeq(hd1.parts, 1, n))
    BY <1>1, <2>1 DEF PrunePlan
  <2> QED BY <1>1, <1>q3, <2>1, <2>2, <2>3
<1>16. (a1 \o p1) \o b1 = a1 \o (p1 \o b1)
  <2>1. IsSeq(a1) /\ IsSeq(p1) /\ IsSeq(b1)
    BY <1>4, <1>6, <1>q3, SeqOne DEF Via
  <2>2. Cat(Cat(a1, p1), b1) = Cat(a1, Cat(p1, b1))
    BY <2>1, CatAssoc
  <2> QED BY <2>2 DEF Cat
<1> QED BY <1>4, <1>14, <1>15, <1>16

---------------------------------------------------------------------------
(* The batches that a truncation copies.                                   *)

\* The ranges of a list of batches.
Shape(cs) == [k \in 1..Len(cs) |-> [first |-> cs[k].first, count |-> Len(cs[k].recs)]]

\* The batch holds the log's records.
Fits(x, log) ==
    x.t = "batch" /\ \A j \in 1..Len(x.recs) : log[x.first + j - 1] = x.recs[j]

\* Batches that follow each other from index lo to index hi, as in the log.
Follow(cs, lo, hi, log) ==
    IsSeq(cs) /\ Linked(Shape(cs), lo, hi) /\ \A k \in 1..Len(cs) : Fits(cs[k], log)

\* What a batch covers.
LEMMA ShapeIs ==
    ASSUME NEW cs, IsSeq(cs), NEW e, e = Shape(cs)
    PROVE  /\ Len(cs) \in Nat /\ IsSeq(e) /\ Len(e) = Len(cs)
           /\ \A k \in 1..Len(cs) : e[k].first = cs[k].first /\ e[k].count = Len(cs[k].recs)
<1>1. Len(cs) \in Nat
  BY SeqIs
<1>2. e = [k \in 1..Len(cs) |-> e[k]]
  BY DEF Shape
<1>3. \A k \in 1..Len(cs) : e[k] = [first |-> cs[k].first, count |-> Len(cs[k].recs)]
  BY DEF Shape
<1>4. IsSeq(e) /\ Len(e) = Len(cs)
  BY <1>1, <1>2, SeqIntro
<1>5. ASSUME NEW k \in 1..Len(cs)
      PROVE  e[k].first = cs[k].first /\ e[k].count = Len(cs[k].recs)
  <2> DEFINE a == cs[k].first
             b == Len(cs[k].recs)
  <2>1. e[k] = [first |-> a, count |-> b]
    BY <1>3
  <2> HIDE DEF a, b
  <2>2. e[k].first = a /\ e[k].count = b
    BY ONLY <2>1
  <2> QED BY <2>2 DEF a, b
<1> QED BY <1>1, <1>4, <1>5

\* Batch k of the list.
LEMMA FollowIs ==
    ASSUME NEW cs, NEW lo, NEW hi, NEW log, Follow(cs, lo, hi, log)
    PROVE  /\ IsSeq(cs) /\ Len(cs) \in Nat /\ lo \in Nat /\ hi \in Nat
           /\ Len(cs) = 0 => lo = hi
           /\ Len(cs) > 0 => /\ cs[1].first = lo
                             /\ cs[Len(cs)].first + Len(cs[Len(cs)].recs) = hi
           /\ \A k \in 1..Len(cs) :
                 /\ Fits(cs[k], log) /\ cs[k].first \in Nat /\ Len(cs[k].recs) \in Nat \ {0}
                 /\ lo <= cs[k].first /\ cs[k].first + Len(cs[k].recs) <= hi
           /\ \A k \in 1..Len(cs) - 1 : cs[k + 1].first = cs[k].first + Len(cs[k].recs)
<1>0. SUFFICES ASSUME NEW e, e = Shape(cs)
               PROVE  /\ IsSeq(cs) /\ Len(cs) \in Nat /\ lo \in Nat /\ hi \in Nat
                      /\ Len(cs) = 0 => lo = hi
                      /\ Len(cs) > 0 => /\ cs[1].first = lo
                                        /\ cs[Len(cs)].first + Len(cs[Len(cs)].recs) = hi
                      /\ \A k \in 1..Len(cs) :
                            /\ Fits(cs[k], log) /\ cs[k].first \in Nat
                            /\ Len(cs[k].recs) \in Nat \ {0}
                            /\ lo <= cs[k].first /\ cs[k].first + Len(cs[k].recs) <= hi
                      /\ \A k \in 1..Len(cs) - 1 :
                            cs[k + 1].first = cs[k].first + Len(cs[k].recs)
  OBVIOUS
<1>1. IsSeq(cs) /\ Linked(e, lo, hi) /\ \A k \in 1..Len(cs) : Fits(cs[k], log)
  BY <1>0 DEF Follow
<1>2. /\ Len(cs) \in Nat /\ Len(e) = Len(cs)
      /\ \A k \in 1..Len(cs) : e[k].first = cs[k].first /\ e[k].count = Len(cs[k].recs)
  BY <1>0, <1>1, ShapeIs
<1>3. \A k \in 1..Len(cs) : EndOf(e[k]) = cs[k].first + Len(cs[k].recs)
  BY <1>2 DEF EndOf
<1>4. /\ lo \in Nat /\ hi \in Nat /\ (Len(e) = 0 => lo = hi)
      /\ (Len(e) > 0 => e[1].first = lo /\ EndOf(e[Len(e)]) = hi)
      /\ \A k \in 1..Len(e) : e[k].first \in Nat /\ e[k].count \in Nat \ {0}
      /\ \A k \in 1..Len(e) - 1 : e[k + 1].first = EndOf(e[k])
  BY <1>1 DEF Linked, Counts
<1>5. \A k \in 1..Len(e) : lo <= e[k].first /\ EndOf(e[k]) <= hi
  BY <1>1, LinkedRange
<1>6. /\ (Len(cs) > 0 => 1 \in 1..Len(cs) /\ Len(cs) \in 1..Len(cs))
      /\ \A k \in 1..Len(cs) - 1 : k \in 1..Len(cs) /\ k + 1 \in 1..Len(cs)
  BY <1>2
<1>7. \A k \in 1..Len(cs) : /\ cs[k].first \in Nat /\ Len(cs[k].recs) \in Nat \ {0}
                            /\ lo <= cs[k].first /\ cs[k].first + Len(cs[k].recs) <= hi
  BY <1>2, <1>3, <1>4, <1>5
<1>8. \A k \in 1..Len(cs) - 1 : cs[k + 1].first = cs[k].first + Len(cs[k].recs)
  BY <1>2, <1>3, <1>4, <1>6
<1>9. Len(cs) > 0 => /\ cs[1].first = lo
                     /\ cs[Len(cs)].first + Len(cs[Len(cs)].recs) = hi
  BY <1>2, <1>3, <1>4, <1>6
<1> QED BY <1>1, <1>2, <1>4, <1>7, <1>8, <1>9

\* A single batch.
LEMMA FollowOne ==
    ASSUME NEW x, NEW log, Fits(x, log), x.first \in Nat, Len(x.recs) \in Nat \ {0}
    PROVE  Follow(<<x>>, x.first, x.first + Len(x.recs), log)
<1> DEFINE cs == <<x>>
           y == [first |-> x.first, count |-> Len(x.recs)]
<1>1. IsSeq(cs) /\ Len(cs) = 1 /\ cs[1] = x
  BY SeqOne
<1>2. IsSeq(<<y>>) /\ Len(<<y>>) = 1 /\ <<y>>[1] = y
  BY SeqOne
<1>3. Shape(cs) = <<y>>
  <2> DEFINE e == Shape(cs)
             o == <<y>>
  <2>1. IsSeq(e) /\ Len(e) = 1 /\ e[1] = y
    <3>1. e[1] = y
      BY <1>1 DEF Shape
    <3>2. IsSeq(e) /\ Len(e) = Len(cs)
      <4> HIDE DEF cs
      <4> QED BY <1>1, ShapeIs
    <3> QED BY <1>1, <3>1, <3>2
  <2>2. IsSeq(o) /\ Len(o) = 1 /\ o[1] = y
    BY <1>2
  <2> HIDE DEF e, o
  <2>3. e = o
    BY <2>1, <2>2, SeqSame
  <2> QED BY <2>3 DEF e, o
<1>4. y.first \in Nat /\ y.count \in Nat \ {0} /\ EndOf(y) = x.first + Len(x.recs)
  BY DEF EndOf
<1>5. Linked(<<y>>, x.first, x.first + Len(x.recs))
  <2>1. y.first = x.first
    OBVIOUS
  <2> HIDE DEF y
  <2>2. Linked(<<y>>, y.first, EndOf(y))
    BY <1>4, LinkedOne
  <2> QED BY <1>4, <2>1, <2>2
<1> QED BY <1>1, <1>3, <1>5 DEF Follow

\* Two lists, one behind the other.
LEMMA FollowCat ==
    ASSUME NEW p, NEW q, NEW a, NEW b, NEW c, NEW log, Follow(p, a, b, log), Follow(q, b, c, log)
    PROVE  Follow(Cat(p, q), a, c, log)
<1>0. SUFFICES ASSUME NEW r, r = p \o q, NEW x, x = Shape(p), NEW y, y = Shape(q),
                      NEW z, z = Shape(r)
               PROVE  Follow(r, a, c, log)
  BY DEF Cat
<1>1. /\ IsSeq(p) /\ IsSeq(q) /\ Linked(x, a, b) /\ Linked(y, b, c)
      /\ (\A k \in 1..Len(p) : Fits(p[k], log)) /\ \A k \in 1..Len(q) : Fits(q[k], log)
  BY <1>0 DEF Follow
<1>2. /\ IsSeq(r) /\ Len(r) = Len(p) + Len(q) /\ Len(p) \in Nat /\ Len(q) \in Nat
      /\ (\A k \in 1..Len(p) : r[k] = p[k]) /\ \A k \in 1..Len(q) : r[Len(p) + k] = q[k]
  BY <1>0, <1>1, SeqCat, SeqIs
<1>3. IsSeq(x) /\ Len(x) = Len(p) /\ IsSeq(y) /\ Len(y) = Len(q) /\ IsSeq(z) /\ Len(z) = Len(r)
  BY <1>0, <1>1, <1>2, ShapeIs
<1>4. \A i \in 1..Len(r) : i \in 1..Len(p) \/ (i - Len(p) \in 1..Len(q) /\ Len(p) + (i - Len(p)) = i)
  BY <1>2
<1>5. z = x \o y
  <2> DEFINE w == x \o y
  <2>1. /\ IsSeq(w) /\ Len(w) = Len(x) + Len(y)
        /\ (\A k \in 1..Len(x) : w[k] = x[k]) /\ \A k \in 1..Len(y) : w[Len(x) + k] = y[k]
    BY <1>3, SeqCat
  <2> HIDE DEF w
  <2>2. ASSUME NEW i \in 1..Len(z)
        PROVE  z[i] = w[i]
    <3>1. z[i] = [first |-> r[i].first, count |-> Len(r[i].recs)]
      BY <1>0, <1>3 DEF Shape
    <3>2. CASE i \in 1..Len(p)
      <4>1. x[i] = [first |-> p[i].first, count |-> Len(p[i].recs)]
        BY <1>0, <3>2 DEF Shape
      <4>2. w[i] = x[i] /\ r[i] = p[i]
        BY <1>2, <1>3, <2>1, <3>2
      <4> QED BY <3>1, <4>1, <4>2
    <3>3. CASE i - Len(p) \in 1..Len(q) /\ Len(p) + (i - Len(p)) = i
      <4> DEFINE j == i - Len(p)
      <4>1. j \in 1..Len(q) /\ Len(p) + j = i
        BY <3>3
      <4> HIDE DEF j
      <4>2. y[j] = [first |-> q[j].first, count |-> Len(q[j].recs)]
        BY <1>0, <4>1 DEF Shape
      <4>3. w[i] = y[j] /\ r[i] = q[j]
        BY <1>2, <1>3, <2>1, <4>1
      <4> QED BY <3>1, <4>2, <4>3
    <3> QED BY <1>3, <1>4, <3>2, <3>3
  <2>3. z = w
    BY <1>2, <1>3, <2>1, <2>2, SeqSame
  <2> QED BY <2>3 DEF w
<1>6. Linked(z, a, c)
  BY <1>1, <1>5, LinkedCat
<1>7. ASSUME NEW i \in 1..Len(r)
      PROVE  Fits(r[i], log)
  <2>1. CASE i \in 1..Len(p)
    BY <1>1, <1>2, <2>1
  <2>2. CASE i - Len(p) \in 1..Len(q) /\ Len(p) + (i - Len(p)) = i
    <3>1. r[i] = q[i - Len(p)]
      BY <1>2, <2>2
    <3> QED BY <1>1, <2>2, <3>1
  <2> QED BY <1>4, <2>1, <2>2
<1> QED BY <1>0, <1>2, <1>6, <1>7 DEF Follow

\* A list of lists, flattened.
LEMMA FollowFlat ==
    ASSUME NEW q, IsSeq(q), Len(q) > 0, NEW b, NEW log,
           \A i \in 1..Len(q) : Follow(q[i], b[i], b[i + 1], log)
    PROVE  Follow(FlattenSeq(q), b[1], b[Len(q) + 1], log)
<1> DEFINE n == Len(q)
<1>1. n \in Nat /\ 1 \in Nat /\ \A i \in 1..n : IsSeq(q[i])
  BY SeqIs DEF Follow
<1>2. PICK f : Joins(f, q)
  BY <1>1, FlattenIs
<1> DEFINE OK(i) == Follow(f[i], b[1], b[i + 1], log)
           S == {i \in 1..n : OK(i)}
<1>3. 1 \in S
  <2>1. f[1] = q[1] /\ 1 \in 1..n
    BY <1>1, <1>2 DEF Joins
  <2> QED BY <2>1
<1>4. ASSUME NEW i \in 1..n, i < n, i \in S
      PROVE  i + 1 \in S
  <2> DEFINE k == i + 1
  <2>1. k \in 1..n /\ k \in 2..n /\ k - 1 = i /\ i \in Nat
    BY <1>1, <1>4
  <2>2. OK(i)
    BY <1>4
  <2> HIDE DEF k
  <2>3. f[k] = f[i] \o q[k]
    BY <1>2, <2>1 DEF Joins
  <2>4. Follow(f[i], b[1], b[k], log) /\ Follow(q[k], b[k], b[k + 1], log)
    BY <2>1, <2>2 DEF k
  <2>5. Follow(Cat(f[i], q[k]), b[1], b[k + 1], log)
    BY <2>4, FollowCat
  <2>6. OK(k)
    BY <2>3, <2>5 DEF Cat
  <2> QED BY <2>1, <2>6 DEF k
<1> HIDE DEF S
<1>5. \A i \in 1..n : i \in S
  BY <1>1, <1>3, <1>4, Induction
<1>6. OK(n)
  BY <1>1, <1>5 DEF S
<1>7. FlattenSeq(q) = f[n]
  BY <1>2 DEF Joins
<1> QED BY <1>6, <1>7

\* Batches of one record each.
LEMMA FollowSingles ==
    ASSUME NEW n \in Nat, NEW a \in Nat, NEW recs, NEW log,
           \A j \in 1..n : log[a + j - 1] = recs[j],
           NEW cs, cs = [k \in 1..n |-> Batch(a + k - 1, <<recs[k]>>)]
    PROVE  Follow(cs, a, a + n, log)
<1>1. cs = [k \in 1..n |-> cs[k]] /\ \A k \in 1..n : cs[k] = Batch(a + k - 1, <<recs[k]>>)
  OBVIOUS
<1>2. IsSeq(cs) /\ Len(cs) = n
  BY <1>1, SeqIntro
<1>3. ASSUME NEW k \in 1..n
      PROVE  /\ cs[k].t = "batch" /\ cs[k].first = a + k - 1 /\ cs[k].first \in Nat
             /\ Len(cs[k].recs) = 1 /\ cs[k].recs[1] = recs[k]
  <2> DEFINE o == <<recs[k]>>
             l == a + k - 1
  <2>1. Len(o) = 1 /\ o[1] = recs[k] /\ l \in Nat
    BY SeqOne
  <2>2. cs[k] = Batch(l, o)
    BY <1>1
  <2> HIDE DEF o, l
  <2>3. cs[k].t = "batch" /\ cs[k].first = l /\ cs[k].recs = o
    BY <2>2 DEF Batch
  <2> QED BY <2>1, <2>3 DEF l
<1>4. \A k \in 1..n : Fits(cs[k], log)
  <2> SUFFICES ASSUME NEW k \in 1..n, NEW j \in 1..Len(cs[k].recs)
               PROVE  log[cs[k].first + j - 1] = cs[k].recs[j]
    BY <1>3 DEF Fits
  <2>1. Len(cs[k].recs) = 1
    BY <1>3
  <2>2. j = 1
    <3> DEFINE l == Len(cs[k].recs)
    <3>1. j \in 1..l /\ l = 1
      BY <2>1
    <3> HIDE DEF l
    <3> QED BY ONLY <3>1
  <2>3. a + k - 1 + 1 - 1 = a + k - 1
    OBVIOUS
  <2>4. log[a + k - 1] = recs[k] /\ cs[k].first = a + k - 1 /\ cs[k].recs[1] = recs[k]
    BY <1>3
  <2> QED BY <2>2, <2>3, <2>4
<1> DEFINE e == Shape(cs)
<1>5. /\ IsSeq(e) /\ Len(e) = n
      /\ \A k \in 1..n : e[k].first = a + k - 1 /\ e[k].count = 1
  <2>1. /\ IsSeq(e) /\ Len(e) = Len(cs)
        /\ \A k \in 1..Len(cs) : e[k].first = cs[k].first /\ e[k].count = Len(cs[k].recs)
    <3>1. e = Shape(cs)
      OBVIOUS
    <3> HIDE DEF e
    <3> QED BY ONLY <1>2, <3>1, ShapeIs
  <2> HIDE DEF e
  <2> QED BY <1>2, <1>3, <2>1
<1> HIDE DEF e
<1>6. /\ (n > 0 => n \in 1..n /\ 1 \in 1..n /\ a + 1 - 1 = a /\ a + n - 1 + 1 = a + n)
      /\ \A k \in 1..n : a + k - 1 \in Nat
      /\ \A k \in 1..n - 1 : k \in 1..n /\ k + 1 \in 1..n /\ a + (k + 1) - 1 = a + k - 1 + 1
  OBVIOUS
<1>7. Linked(e, a, a + n)
  <2>1. /\ n = 0 => a = a + n
        /\ a + n \in Nat /\ 1 \in Nat \ {0}
    OBVIOUS
  <2>2. \A k \in 1..n : EndOf(e[k]) = a + k - 1 + 1
    BY <1>5 DEF EndOf
  <2>3. Counts(e)
    BY <1>5, <1>6, <2>1 DEF Counts
  <2>4. \A k \in 1..n - 1 : e[k + 1].first = EndOf(e[k])
    BY <1>5, <1>6, <2>2
  <2>5. n > 0 => e[1].first = a /\ EndOf(e[n]) = a + n
    BY <1>5, <1>6, <2>2
  <2> QED BY <1>5, <2>1, <2>3, <2>4, <2>5 DEF Linked
<1> QED BY <1>2, <1>4, <1>7 DEF Follow, e

\* led89_copy_entry on the records of the entry.
CopyOf(recs, e, from) ==
    IF e.first + e.count <= from THEN <<Batch(e.first, recs)>>
    ELSE [k \in 1..from - e.first |-> Batch(e.first + k - 1, <<recs[k]>>)]

\* The copy of an entry's records that lie before from covers them.
LEMMA CopyOfFollows ==
    ASSUME NEW c, NEW e, NEW log, Locates(c, e, log), NEW from \in Nat, e.first <= from,
           NEW q, q = CopyOf(c[e.pos].recs, e, from),
           NEW b, b = IF EndOf(e) <= from THEN EndOf(e) ELSE from
    PROVE  Follow(q, e.first, b, log)
<1> DEFINE recs == c[e.pos].recs
           a == e.first
           n == e.count
<1>1. /\ a \in Nat /\ n \in Nat \ {0} /\ Len(recs) = n /\ a <= from
      /\ \A j \in 1..n : log[a + j - 1] = recs[j]
  BY DEF Locates
<1>2. /\ q = (IF a + n <= from THEN <<Batch(a, recs)>>
              ELSE [k \in 1..from - a |-> Batch(a + k - 1, <<recs[k]>>)])
      /\ b = IF a + n <= from THEN a + n ELSE from
  BY DEF CopyOf, EndOf
<1>3. e.first = a
  OBVIOUS
<1> HIDE DEF recs, a, n
<1>4. CASE a + n <= from
  <2> DEFINE x == Batch(a, recs)
  <2>1. x.t = "batch" /\ x.first = a /\ x.recs = recs
    BY DEF Batch
  <2>2. Fits(x, log) /\ x.first \in Nat /\ Len(x.recs) \in Nat \ {0}
        /\ x.first + Len(x.recs) = a + n
    BY <1>1, <2>1 DEF Fits
  <2>3. q = <<x>> /\ b = a + n
    BY <1>2, <1>4
  <2> HIDE DEF x
  <2>4. Follow(<<x>>, x.first, x.first + Len(x.recs), log)
    BY <2>2, FollowOne
  <2> QED BY <1>3, <2>1, <2>2, <2>3, <2>4
<1>5. CASE ~(a + n <= from)
  <2> DEFINE m == from - a
  <2>1. m \in Nat /\ a + m = from /\ \A j \in 1..m : j \in 1..n
    BY <1>1, <1>5
  <2>2. q = [k \in 1..m |-> Batch(a + k - 1, <<recs[k]>>)] /\ b = a + m
    BY <1>2, <1>5, <2>1
  <2> HIDE DEF m
  <2>3. \A j \in 1..m : log[a + j - 1] = recs[j]
    BY <1>1, <2>1
  <2>4. Follow(q, a, a + m, log)
    BY <1>1, <2>1, <2>2, <2>3, FollowSingles
  <2> QED BY <1>3, <2>2, <2>4
<1> QED BY <1>4, <1>5

\* led89_copy_prefix: the first entry it copies, and the last one.
CopyStart(dir, boundary) ==
    Max({k \in 0..Len(dir) : \A e \in 1..k : dir[e].part # boundary})

\* The last entry of the boundary part that starts before from.
CopyStop(dir, boundary, from, start) ==
    Max({k \in start..Len(dir) :
            \A e \in start + 1..k : dir[e].part = boundary /\ dir[e].first < from})

\* An index inside the first part that is not kept.
CutsPart(ps, a, dir, b, keep, n, from) ==
    /\ Chain(ps, a) /\ Rising(ps) /\ Linked(dir, a, b)
    /\ \A i \in 1..Len(dir) : Within(ps, dir[i])
    /\ ps[Len(ps)].first <= b /\ keep \in 0..Len(ps) - 1 /\ n = EntriesUpTo(dir, keep)
    /\ from \in Nat /\ ps[keep + 1].first < from /\ from <= b
    /\ keep + 1 < Len(ps) => from < ps[keep + 1].end

\* The entries the copy takes cover first..from - 1.
CopiedRange(dir, n, stop, first, from) ==
    /\ n \in Nat /\ stop \in n + 1..Len(dir) /\ dir[n + 1].first = first
    /\ \A i \in n + 1..stop : dir[i].first < from
    /\ \A i \in n + 1..stop - 1 : EndOf(dir[i]) = dir[i + 1].first
    /\ from <= EndOf(dir[stop])

\* What is copied are the entries that begin behind the kept parts and before
\* the index.
LEMMA CopyRangeIs ==
    ASSUME NEW ps, NEW a, NEW dir, NEW b, NEW keep, NEW n, NEW from,
           CutsPart(ps, a, dir, b, keep, n, from),
           NEW start, start = CopyStart(dir, keep + 1),
           NEW stop, stop = CopyStop(dir, keep + 1, from, start)
    PROVE  start = n /\ CopiedRange(dir, n, stop, ps[keep + 1].first, from)
<1> DEFINE N == Len(ps)
           L == Len(dir)
           B == keep + 1
           f == ps[B].first
<1>1. /\ Chain(ps, a) /\ Rising(ps) /\ Linked(dir, a, b)
      /\ \A i \in 1..L : Within(ps, dir[i])
      /\ ps[N].first <= b /\ keep \in 0..N - 1 /\ n = EntriesUpTo(dir, keep)
      /\ from \in Nat /\ f < from /\ from <= b
      /\ B < N => from < ps[B].end
  BY DEF CutsPart
<1>2. /\ IsSeq(dir) /\ L \in Nat /\ b \in Nat
      /\ (L > 0 => EndOf(dir[L]) = b)
      /\ \A i \in 1..L : dir[i].first \in Nat
      /\ \A i \in 1..L - 1 : dir[i + 1].first = EndOf(dir[i])
  BY <1>1, SeqIs DEF Linked, Counts
<1>3. /\ N \in Nat /\ \A i \in 1..N : ps[i].first \in Nat /\ ps[i].end \in Nat
      /\ \A i, j \in 1..N : i < j => ps[i].end <= ps[j].first
  BY <1>1, ChainRises, SeqIs DEF Chain
<1>4. /\ n \in 0..L /\ Halved(dir, n, a, f, b)
      /\ (\A e \in 1..n : dir[e].part <= keep) /\ \A e \in n + 1..L : dir[e].part > keep
  <2> HIDE DEF N, L, f
  <2>1. /\ n \in 0..Len(dir) /\ Halved(dir, n, a, ps[keep + 1].first, b)
        /\ \A e \in 1..n : dir[e].part <= keep
        /\ \A e \in n + 1..Len(dir) : dir[e].part > keep
    BY <1>1, DirCut DEF N, L, f
  <2> QED BY <2>1 DEF L, f
<1>5. keep \in Nat /\ B \in 1..N /\ B \in Nat /\ f \in Nat /\ n \in Nat
  BY <1>1, <1>3, <1>4
<1>6. n < L /\ n + 1 \in 1..L /\ dir[n + 1].first = f
  <2> DEFINE R == SubSeq(dir, n + 1, L)
  <2>1. Linked(R, f, b) /\ Len(R) = L - n /\ \A e \in 1..L - n : R[e] = dir[n + e]
    BY <1>4 DEF Halved
  <2> HIDE DEF R
  <2>2. (Len(R) = 0 => f = b) /\ (Len(R) > 0 => R[1].first = f)
    BY <2>1 DEF Linked
  <2>3. f # b
    BY <1>1, <1>2, <1>5
  <2>4. Len(R) > 0 /\ n < L /\ 1 \in 1..L - n /\ n + 1 \in 1..L
    BY <1>2, <1>4, <2>1, <2>2, <2>3
  <2> QED BY <2>1, <2>2, <2>4
<1>7. ASSUME NEW e \in n + 1..L, dir[e].first < from
      PROVE  dir[e].part = B
  <2>1. e \in 1..L
    BY <1>2, <1>5
  <2>2. dir[e].part \in 1..N /\ ps[dir[e].part].first <= dir[e].first /\ dir[e].part > keep
    BY <1>1, <1>4, <2>1 DEF Within
  <2>3. CASE dir[e].part > B
    <3> DEFINE p == dir[e].part
    <3>1. B < N /\ ps[B].end <= ps[p].first
      BY <1>3, <1>5, <2>2, <2>3
    <3>2. from < ps[B].end
      BY <1>1, <3>1
    <3>3. /\ from \in Nat /\ ps[B].end \in Nat /\ ps[p].first \in Nat /\ dir[e].first \in Nat
      BY <1>1, <1>2, <1>3, <1>5, <2>1, <2>2
    <3>4. ps[p].first <= dir[e].first /\ dir[e].first < from
      BY <1>7, <2>2
    <3> QED BY <3>1, <3>2, <3>3, <3>4
  <2> QED BY <1>5, <2>2, <2>3
<1> HIDE DEF f
<1>8. start = n
  <2> DEFINE S == {k \in 0..L : \A e \in 1..k : dir[e].part # B}
  <2>1. S \subseteq Nat
    BY <1>2
  <2>2. n \in S
    BY <1>1, <1>4, <1>5
  <2>3. ASSUME NEW k \in S
        PROVE  k <= n
    <3>1. CASE k > n
      <4>1. n + 1 \in 1..k
        BY <1>5, <3>1
      <4>2. dir[n + 1].part # B
        BY <4>1
      <4>3. n + 1 \in n + 1..L
        BY <1>6
      <4> QED BY <1>1, <1>6, <1>7, <4>2, <4>3
    <3> QED BY <1>5, <2>1, <3>1
  <2>4. start = Max(S)
    BY DEF CopyStart
  <2> HIDE DEF S
  <2> QED BY <2>1, <2>2, <2>3, <2>4, MaxIs
<1> DEFINE T == {k \in n..L : \A e \in n + 1..k : dir[e].part = B /\ dir[e].first < from}
<1>9. stop = Max(T)
  BY <1>8 DEF CopyStop
<1>10. n + 1 \in T
  <2>1. n + 1 \in n..L /\ \A e \in n + 1..n + 1 : e = n + 1
    BY <1>2, <1>5, <1>6
  <2>2. dir[n + 1].first < from /\ n + 1 \in n + 1..L
    BY <1>1, <1>6
  <2> QED BY <1>7, <2>1, <2>2
<1>11. stop \in T /\ \A k \in T : k <= stop
  <2>1. T \subseteq 0..L /\ T # {}
    <3>1. T \subseteq n..L
      OBVIOUS
    <3>2. n..L \subseteq 0..L
      BY <1>2, <1>5
    <3>3. n + 1 \in T
      BY <1>10
    <3> HIDE DEF T
    <3> QED BY <3>1, <3>2, <3>3
  <2> HIDE DEF T
  <2> QED BY <1>2, <1>9, <2>1, MaxOf
<1>12. /\ stop \in n + 1..L /\ \A e \in n + 1..stop : dir[e].part = B /\ dir[e].first < from
  BY <1>5, <1>10, <1>11
<1>13. \A i \in n + 1..stop - 1 : EndOf(dir[i]) = dir[i + 1].first
  <2>1. \A i \in n + 1..stop - 1 : i \in 1..L - 1
    BY <1>2, <1>5, <1>12
  <2> QED BY <1>2, <2>1
<1>14. from <= EndOf(dir[stop])
  <2>1. CASE stop = L
    BY <1>1, <1>2, <1>6, <2>1
  <2>2. CASE stop < L
    <3>1. stop \in 1..L - 1 /\ stop + 1 \in n..L /\ stop + 1 \in n + 1..L /\ stop \in Nat
          /\ stop + 1 \in 1..L
      BY <1>2, <1>5, <1>12, <2>2
    <3>2. EndOf(dir[stop]) = dir[stop + 1].first /\ dir[stop + 1].first \in Nat
      BY <1>2, <3>1
    <3>3. CASE dir[stop + 1].first < from
      <4>1. dir[stop + 1].part = B
        BY <1>7, <3>1, <3>3
      <4>2. \A e \in n + 1..stop + 1 : e \in n + 1..stop \/ e = stop + 1
        BY <1>5, <3>1
      <4>3. stop + 1 \in T
        BY <1>12, <3>1, <3>3, <4>1, <4>2
      <4>4. stop + 1 <= stop
        BY <1>11, <4>3
      <4> QED BY <3>1, <4>4
    <3> QED BY <1>1, <3>2, <3>3
  <2> QED BY <1>2, <1>5, <1>12, <2>1, <2>2
<1> HIDE DEF T
<1>15. CopiedRange(dir, n, stop, f, from)
  BY <1>5, <1>6, <1>12, <1>13, <1>14 DEF CopiedRange
<1> QED BY <1>8, <1>15 DEF f

\* The batches that the entries n + 1 to stop are copied to.
LEMMA CopiesFollow ==
    ASSUME NEW dir, NEW n, NEW stop, NEW first, NEW from \in Nat,
           CopiedRange(dir, n, stop, first, from), NEW log, NEW c,
           \A i \in 1..Len(dir) : Locates(c[i], dir[i], log), NEW lo, NEW hi, Linked(dir, lo, hi),
           NEW q, q = [i \in 1..stop - n |-> CopyOf(c[n + i][dir[n + i].pos].recs, dir[n + i], from)]
    PROVE  Follow(FlattenSeq(q), first, from, log)
<1> DEFINE L == stop - n
           b == [i \in 1..L + 1 |-> IF i <= L THEN dir[n + i].first ELSE from]
<1>1. /\ n \in Nat /\ stop \in n + 1..Len(dir) /\ dir[n + 1].first = first
      /\ \A i \in n + 1..stop : dir[i].first < from
      /\ \A i \in n + 1..stop - 1 : EndOf(dir[i]) = dir[i + 1].first
      /\ from <= EndOf(dir[stop])
  BY DEF CopiedRange
<1>2. Len(dir) \in Nat
  BY SeqIs DEF Linked, Counts
<1>3. /\ L \in Nat /\ L > 0 /\ n + L = stop /\ stop \in Nat
      /\ \A i \in 1..L : n + i \in n + 1..stop /\ n + i \in 1..Len(dir) /\ i \in Nat
      /\ \A i \in 1..L : i # L => n + i \in n + 1..stop - 1 /\ i + 1 \in 1..L
                                  /\ n + (i + 1) = n + i + 1
      /\ 1 \in 1..L + 1 /\ L + 1 \in 1..L + 1 /\ 1 <= L /\ ~(L + 1 <= L)
  BY <1>1, <1>2
<1>4. /\ b[1] = first /\ b[L + 1] = from
      /\ \A i \in 1..L : /\ b[i] = dir[n + i].first
                         /\ b[i + 1] = IF i = L THEN from ELSE dir[n + i + 1].first
  <2>1. b[1] = first /\ b[L + 1] = from
    BY <1>1, <1>3
  <2>2. ASSUME NEW i \in 1..L
        PROVE  /\ b[i] = dir[n + i].first
               /\ b[i + 1] = IF i = L THEN from ELSE dir[n + i + 1].first
    <3>1. i \in 1..L + 1 /\ i <= L /\ i + 1 \in 1..L + 1 /\ (i + 1 <= L <=> i # L)
      BY <1>3
    <3> QED BY <1>3, <3>1
  <2> QED BY <2>1, <2>2
<1>5. IsSeq(q) /\ Len(q) = L
  <2>1. q = [i \in 1..L |-> q[i]]
    OBVIOUS
  <2> HIDE DEF L
  <2> QED BY ONLY <1>3, <2>1, SeqIntro
<1>6. ASSUME NEW i \in 1..L
      PROVE  Follow(q[i], b[i], b[i + 1], log)
  <2> DEFINE e == dir[n + i]
             a == c[n + i]
             p == q[i]
             z == IF EndOf(e) <= from THEN EndOf(e) ELSE from
  <2>1. /\ n + i \in 1..Len(dir) /\ Locates(a, e, log) /\ e.first < from
        /\ p = CopyOf(a[e.pos].recs, e, from) /\ b[i] = e.first
    BY <1>1, <1>3, <1>4
  <2>2. e.first \in Nat /\ EndOf(e) \in Nat
    BY <2>1, LocatesIs
  <2>3. e.first <= from
    BY <2>1, <2>2
  <2>4. z = z
    OBVIOUS
  <2>5. b[i + 1] = z
    <3>1. CASE i = L
      <4>1. from <= EndOf(e)
        BY <1>1, <1>3, <3>1
      <4> QED BY <1>4, <2>2, <3>1, <4>1
    <3>2. CASE i # L
      <4>1. EndOf(e) = dir[n + i + 1].first
        BY <1>1, <1>3, <3>2
      <4>2. dir[n + i + 1].first < from
        BY <1>1, <1>3, <3>2
      <4>3. b[i + 1] = dir[n + i + 1].first
        <5> HIDE DEF b, L
        <5> QED BY <1>4, <3>2
      <4> DEFINE a1 == dir[n + i + 1].first
                 a2 == EndOf(e)
                 b1 == b[i + 1]
      <4>4. a2 = a1 /\ a1 < from /\ b1 = a1 /\ a2 \in Nat /\ from \in Nat
        <5> HIDE DEF b
        <5> QED BY <2>2, <4>1, <4>2, <4>3
      <4>5. z = IF a2 <= from THEN a2 ELSE from
        OBVIOUS
      <4> HIDE DEF a1, a2, b1, b, z, e
      <4>6. b1 = z
        BY ONLY <4>4, <4>5
      <4> QED BY <4>6 DEF b1
    <3> QED BY <3>1, <3>2
  <2>6. Follow(p, e.first, z, log)
    <3>1. z = IF EndOf(e) <= from THEN EndOf(e) ELSE from
      OBVIOUS
    <3> HIDE DEF e, a, p, z
    <3> QED BY ONLY <2>1, <2>3, <3>1, from \in Nat, CopyOfFollows
  <2> QED BY <2>1, <2>5, <2>6
<1>7. Follow(FlattenSeq(q), b[1], b[L + 1], log)
  <2> HIDE DEF L, b
  <2>1. Len(q) > 0 /\ \A i \in 1..Len(q) : Follow(q[i], b[i], b[i + 1], log)
    BY <1>3, <1>5, <1>6
  <2>2. Follow(FlattenSeq(q), b[1], b[Len(q) + 1], log)
    BY ONLY <1>5, <2>1, FollowFlat
  <2> QED BY <1>5, <2>2
<1> QED BY <1>4, <1>7

\* What led89_copy_prefix reads from the files is the log up to the index.
LEMMA CopiesAre ==
    ASSUME NEW hd, NEW log, Finds(file, Names, hd, log), NEW ps, ps = hd.parts,
           NEW dir, dir = hd.dir, NEW a, NEW b, NEW keep, NEW n, NEW from,
           CutsPart(ps, a, dir, b, keep, n, from)
    PROVE  Follow(Copies(hd, keep + 1, from), ps[keep + 1].first, from, log)
<1>0. SUFFICES ASSUME NEW start, start = CopyStart(dir, keep + 1),
                      NEW stop, stop = CopyStop(dir, keep + 1, from, start)
               PROVE  Follow(Copies(hd, keep + 1, from), ps[keep + 1].first, from, log)
  OBVIOUS
<1>1. start = n /\ CopiedRange(dir, n, stop, ps[keep + 1].first, from)
  BY <1>0, CopyRangeIs
<1> DEFINE c == [i \in 1..Len(dir) |-> file[Part(ps[dir[i].part].id)].live]
<1>2. /\ IsSeq(ps)
      /\ \A p \in 1..Len(ps) : ps[p].id \in Names.part /\ Part(ps[p].id) \in DOMAIN file
      /\ Linked(dir, hd.first, hd.end)
      /\ \A i \in 1..Len(dir) :
            /\ dir[i].part \in 1..Len(ps)
            /\ Locates(file[Part(ps[dir[i].part].id)].live, dir[i], log)
  BY DEF Finds
<1>3. ASSUME NEW i \in 1..Len(dir)
      PROVE  /\ Locates(c[i], dir[i], log)
             /\ CopyEntry(hd, dir[i], from) = CopyOf(c[i][dir[i].pos].recs, dir[i], from)
  <2>1. c[i] = file[Part(ps[dir[i].part].id)].live
    OBVIOUS
  <2>2. HasName(Names, Part(ps[dir[i].part].id))
    BY <1>2, Named
  <2>3. Read(Part(ps[dir[i].part].id)) = c[i]
    BY <2>1, <2>2, ReadIs
  <2> HIDE DEF c
  <2> QED BY <1>2, <2>1, <2>3 DEF CopyEntry, CopyOf
<1> DEFINE q == [i \in 1..stop - n |-> CopyOf(c[n + i][dir[n + i].pos].recs, dir[n + i], from)]
           q0 == [i \in 1..stop - start |-> CopyEntry(hd, dir[start + i], from)]
<1>4. from \in Nat
  BY DEF CutsPart
<1>5. Follow(FlattenSeq(q), ps[keep + 1].first, from, log)
  <2> DEFINE f == ps[keep + 1].first
             lo == hd.first
             hi == hd.end
  <2>1. CopiedRange(dir, n, stop, f, from) /\ Linked(dir, lo, hi) /\ q = q
        /\ \A i \in 1..Len(dir) : Locates(c[i], dir[i], log)
    BY <1>1, <1>2, <1>3
  <2>2. q = [i \in 1..stop - n |-> CopyOf(c[n + i][dir[n + i].pos].recs, dir[n + i], from)]
    OBVIOUS
  <2> HIDE DEF c, q, f, lo, hi
  <2>3. Follow(FlattenSeq(q), f, from, log)
    BY ONLY <1>4, <2>1, <2>2, CopiesFollow
  <2> QED BY <2>3 DEF f
<1>6. q0 = q
  <2>1. n \in Nat /\ stop \in n + 1..Len(dir) /\ Len(dir) \in Nat
    <3>1. Len(dir) \in Nat
      BY <1>2, SeqIs DEF Linked, Counts
    <3> QED BY <1>1, <3>1 DEF CopiedRange
  <2>2. \A i \in 1..stop - n : n + i \in 1..Len(dir)
    BY <2>1
  <2> HIDE DEF c
  <2>3. \A i \in 1..stop - n :
           CopyEntry(hd, dir[n + i], from) = CopyOf(c[n + i][dir[n + i].pos].recs, dir[n + i], from)
    BY <1>3, <2>2
  <2> QED BY <1>1, <2>3
<1>7. Copies(hd, keep + 1, from) = FlattenSeq(q0)
  BY <1>0 DEF Copies, CopyStart, CopyStop
<1> QED BY <1>5, <1>6, <1>7

---------------------------------------------------------------------------
(* Truncation.                                                             *)

\* What truncating does to a log.
LEMMA TruncatedLogIs ==
    ASSUME NEW s, IsLog(s), NEW from \in s.first..Len(s.log), NEW t, t = TruncatedLog(s, from)
    PROVE  /\ IsLog(t) /\ IsSettled(t) /\ StableLog(t) = t
           /\ t.first = s.first /\ t.stable = from /\ t.rev = s.rev + 1
           /\ Len(t.log) = from - 1 /\ \A i \in 1..from - 1 : t.log[i] = s.log[i]
<1>1. /\ s = [log |-> s.log, first |-> s.first, stable |-> s.stable, rev |-> s.rev]
      /\ s.rev \in Nat /\ s.first \in 1..Len(s.log) + 1
  BY DEF IsLog
<1>2. /\ Len(s.log) \in Nat /\ IsSeq(s.log) /\ s.first \in Nat \ {0} /\ s.stable \in Nat
      /\ \A i \in 1..Len(s.log) : s.log[i] \in Value \union {Gone}
      /\ \A i \in 1..s.first - 1 : s.log[i] = Gone
  BY LogIs
<1>3. from \in Nat \ {0} /\ from - 1 \in 0..Len(s.log) /\ s.first <= from
  BY <1>2
<1> DEFINE l == SubSeq(s.log, 1, from - 1)
<1>4. t = [log |-> l, first |-> s.first, stable |-> from, rev |-> s.rev + 1]
  BY <1>1 DEF TruncatedLog
<1>5. IsSeq(l) /\ Len(l) = from - 1 /\ \A i \in 1..from - 1 : l[i] = s.log[i]
  BY <1>2, <1>3, SeqPrefix
<1> HIDE DEF l
<1>6. l \in Seq(Value \union {Gone})
  <2>1. \A i \in 1..Len(l) : l[i] \in Value \union {Gone}
    BY <1>2, <1>3, <1>5
  <2> QED BY <1>5, <2>1, SeqIn
<1>7. t.log = l /\ t.first = s.first /\ t.stable = from /\ t.rev = s.rev + 1
  BY <1>4
<1>8. t = [log |-> t.log, first |-> t.first, stable |-> t.stable, rev |-> t.rev]
  BY <1>4
<1>9. IsLog(t) /\ IsSettled(t)
  <2>1. \A i \in 1..s.first - 1 : l[i] = Gone
    BY <1>2, <1>3, <1>5
  <2> QED BY <1>1, <1>2, <1>3, <1>5, <1>6, <1>7, <1>8, <2>1 DEF IsLog, IsSettled
<1>10. StableLog(t) = t
  BY <1>9, StableIs
<1> QED BY <1>5, <1>7, <1>9, <1>10

\* Batches hold the records of every log that agrees with theirs.
LEMMA FollowLog ==
    ASSUME NEW cs, NEW lo, NEW hi, NEW log, Follow(cs, lo, hi, log), NEW new,
           \A i \in lo..hi - 1 : new[i] = log[i]
    PROVE  Follow(cs, lo, hi, new)
<1>1. lo \in Nat /\ hi \in Nat
      /\ \A k \in 1..Len(cs) :
            /\ Fits(cs[k], log) /\ cs[k].first \in Nat /\ Len(cs[k].recs) \in Nat \ {0}
            /\ lo <= cs[k].first /\ cs[k].first + Len(cs[k].recs) <= hi
  BY FollowIs
<1>2. ASSUME NEW k \in 1..Len(cs)
      PROVE  Fits(cs[k], new)
  <2>1. \A j \in 1..Len(cs[k].recs) : new[cs[k].first + j - 1] = log[cs[k].first + j - 1]
    <3> DEFINE a == cs[k].first
               n == Len(cs[k].recs)
    <3>1. a \in Nat /\ n \in Nat /\ lo <= a /\ a + n <= hi
      BY <1>1
    <3> HIDE DEF a, n
    <3>2. \A j \in 1..n : a + j - 1 \in lo..hi - 1
      BY <1>1, <3>1
    <3>3. \A j \in 1..n : new[a + j - 1] = log[a + j - 1]
      BY <3>2
    <3> QED BY <3>3 DEF a, n
  <2> QED BY <1>1, <2>1 DEF Fits
<1> QED BY <1>2 DEF Follow

\* A plan that, while the log is being rewritten, writes only to a file that
\* no directory needs and may assign the handle.
Builds(v, p, f, w) ==
    /\ Via(v, p, w) /\ Steady(w) /\ KeepsAll(v, w)
    /\ w.mode = "open" /\ w.cur = v.cur /\ w.next = v.next /\ w.next # {}
    /\ Free(w.file, w.dirs, f)
    /\ OffFile(v.file, w.file, f) /\ Extends(Top(v), Top(w))

\* Building in two stages.
LEMMA BuildsThen ==
    ASSUME NEW v, NEW p, NEW f, NEW w, Builds(v, p, f, w), NEW q, NEW x, Builds(w, q, f, x)
    PROVE  Builds(v, p \o q, f, x)
<1>1. Via(v, p \o q, x)
  BY ViaThen DEF Builds
<1>2. KeepsAll(v, x)
  BY DEF Builds, KeepsAll
<1>3. OffFile(v.file, x.file, f)
  BY DEF Builds, OffFile
<1>4. Extends(Top(v), Top(x))
  BY DEF Builds, Extends
<1> QED BY <1>1, <1>2, <1>3, <1>4 DEF Builds

\* Filling a spare file builds it.
LEMMA BuildsFills ==
    ASSUME NEW v, v.mode = "open", v.next # {}, NEW p, NEW f, NEW w, Fills(v, p, f, w)
    PROVE  Builds(v, p, f, w)
<1>1. w.mode = v.mode /\ w.cur = v.cur /\ w.next = v.next
  BY WithIs DEF Fills
<1> QED BY <1>1 DEF Fills, Builds, Spare

\* Assigning the handle while a file is being built is sound.
LEMMA BuildsSet ==
    ASSUME NEW v, Steady(v), v.mode = "open", v.next # {}, NEW hd, Typed(hd),
           NEW f, Free(v.file, v.dirs, f)
    PROVE  \E w : Builds(v, <<Set(hd)>>, f, w) /\ w.file = v.file /\ w.dirs = v.dirs /\ w.h = hd
<1> DEFINE w == World(v.file, v.dirs, "open", hd, v.cur, v.next)
<1>1. Steady(w) /\ Via(v, <<Set(hd)>>, w)
  BY StepSet
<1>2. /\ w.file = v.file /\ w.dirs = v.dirs /\ w.mode = "open" /\ w.h = hd
      /\ w.cur = v.cur /\ w.next = v.next /\ Top(w) = Top(v)
  BY DEF World, Top
<1> HIDE DEF w
<1>3. KeepsAll(v, w) /\ OffFile(v.file, w.file, f)
  BY <1>2 DEF KeepsAll, OffFile
<1>4. Extends(Top(v), Top(w))
  BY <1>2, SteadyIs, ExtendsSelf
<1>5. Builds(v, <<Set(hd)>>, f, w)
  BY <1>1, <1>2, <1>3, <1>4 DEF Builds
<1> QED BY <1>2, <1>5

\* The contents of a part being copied: k batches, up to index e.
FilledBy(c, d, cs, k, e, log) ==
    /\ Holds(d, c, e, log) /\ Len(c) = k + 2
    /\ \A j \in 1..k : c[j + 2] = cs[j]

\* The file f of world v holds the first k batches of the copy.
Filled(v, f, d, cs, k, e, log) ==
    f \in DOMAIN v.file /\ FilledBy(v.file[f].live, d, cs, k, e, log)

\* Batch x goes behind index e of a part.
Adds(d, x, e, log) ==
    /\ d.first \in Nat /\ Len(log) \in Nat /\ x.t = "batch" /\ x.first = e
    /\ Len(x.recs) \in Nat \ {0} /\ 1 <= e /\ e + Len(x.recs) <= Len(log) + 1
    /\ \A j \in 1..Len(x.recs) : log[e + j - 1] = x.recs[j]

\* The index after a batch written at e.
EndAfter(x, e) == e + Len(x.recs)

\* One more batch.
LEMMA FilledMore ==
    ASSUME NEW c, NEW d, NEW cs, NEW k \in Nat, NEW e, NEW log, FilledBy(c, d, cs, k, e, log),
           NEW x, x = cs[k + 1], Adds(d, x, e, log)
    PROVE  FilledBy(Plus(c, x), d, cs, k + 1, EndAfter(x, e), log)
<1>a. /\ d.first \in Nat /\ Len(log) \in Nat /\ x.t = "batch" /\ x.first = e
      /\ Len(x.recs) \in Nat \ {0} /\ 1 <= e /\ e + Len(x.recs) <= Len(log) + 1
      /\ \A j \in 1..Len(x.recs) : log[e + j - 1] = x.recs[j]
  BY DEF Adds
<1>1. /\ IsSeq(c) /\ GoodPart(d, c, Len(c), log) /\ e = Expected(d, c, Len(c)) /\ Len(c) = k + 2
      /\ \A j \in 1..k : c[j + 2] = cs[j]
  BY DEF FilledBy, Holds
<1>2. e \in Nat
  BY <1>1, <1>a, GoodCounted, ExpectedStep
<1>3. Continues(d, c, log, e, x, log)
  <2>1. e <= Len(log) + 1
    BY <1>2, <1>a
  <2> QED BY <1>1, <1>a, <2>1 DEF Continues
<1>4. Holds(d, Plus(c, x), e + Len(x.recs), log) /\ Len(Plus(c, x)) = k + 3
  BY <1>1, <1>3, <1>a, WholeMore
<1>5. \A j \in 1..k + 1 : Plus(c, x)[j + 2] = cs[j]
  <2>1. /\ \A i \in 1..k + 2 : Append(c, x)[i] = c[i]
        /\ Append(c, x)[k + 3] = x
    BY <1>1, SeqAppend
  <2> QED BY <1>1, <2>1 DEF Plus
<1> QED BY <1>4, <1>5 DEF FilledBy, EndAfter

\* Copying a batch and adding it to the directory in memory.
LEMMA CopyStep ==
    ASSUME NEW v, Steady(v), v.mode = "open", v.next # {}, NEW f, Free(v.file, v.dirs, f),
           NEW d, NEW cs, NEW k \in Nat, NEW e, NEW log, Filled(v, f, d, cs, k, e, log),
           NEW x, x = cs[k + 1], Adds(d, x, e, log), NEW hd, Typed(hd)
    PROVE  \E w : /\ Builds(v, <<WriteCall(f, x), Set(hd)>>, f, w)
                  /\ Filled(w, f, d, cs, k + 1, EndAfter(x, e), log)
<1>1. f \in DOMAIN v.file /\ Spare(v, f)
  BY DEF Filled, Spare
<1>2. PICK y : /\ Fills(v, <<WriteCall(f, x)>>, f, y)
               /\ DOMAIN y.file = DOMAIN v.file /\ y.dirs = v.dirs
               /\ y.file[f].live = Append(v.file[f].live, x)
  <2> DEFINE c == WriteCall(f, x)
  <2>1. c = WriteCall(f, x)
    OBVIOUS
  <2> HIDE DEF c
  <2>2. \E w : /\ Fills(v, <<c>>, f, w)
               /\ DOMAIN w.file = DOMAIN v.file /\ w.dirs = v.dirs
               /\ w.file[f].live = Append(v.file[f].live, x)
    BY <1>1, <2>1, FillsWrite
  <2> QED BY <2>1, <2>2
<1>3. Builds(v, <<WriteCall(f, x)>>, f, y)
  BY <1>2, BuildsFills
<1>4. FilledBy(y.file[f].live, d, cs, k + 1, EndAfter(x, e), log)
  <2> DEFINE c == v.file[f].live
  <2>1. FilledBy(c, d, cs, k, e, log) /\ y.file[f].live = Plus(c, x)
    BY <1>2 DEF Filled, Plus
  <2> HIDE DEF c
  <2>2. FilledBy(Plus(c, x), d, cs, k + 1, EndAfter(x, e), log)
    BY <2>1, FilledMore
  <2> QED BY <2>1, <2>2
<1>5. PICK w : Builds(y, <<Set(hd)>>, f, w) /\ w.file = y.file
  <2>1. Steady(y) /\ y.mode = "open" /\ y.next # {} /\ Free(y.file, y.dirs, f)
    BY <1>3 DEF Builds
  <2> QED BY <2>1, BuildsSet
<1>6. Builds(v, <<WriteCall(f, x)>> \o <<Set(hd)>>, f, w)
  BY <1>3, <1>5, BuildsThen
<1>7. <<WriteCall(f, x), Set(hd)>> = <<WriteCall(f, x)>> \o <<Set(hd)>>
  BY ONLY Pair
<1> QED BY <1>1, <1>2, <1>4, <1>5, <1>6, <1>7 DEF Filled

\* Two calls are a sequence.
LEMMA SeqTwo ==
    ASSUME NEW a, NEW b
    PROVE  IsSeq(<<a, b>>)
BY SeqOne, SeqCat, Pair

\* The index behind the first k batches.
Behind(cs, k, first) == IF k = 0 THEN first ELSE cs[k].first + Len(cs[k].recs)

\* No calls build nothing.
LEMMA BuildsNone ==
    ASSUME NEW v, Steady(v), v.mode = "open", v.next # {}, NEW f, Free(v.file, v.dirs, f)
    PROVE  Builds(v, << >>, f, v)
<1>1. Via(v, << >>, v)
  BY ViaNone
<1>2. Extends(Top(v), Top(v))
  BY SteadyIs, ExtendsSelf
<1> QED BY <1>1, <1>2 DEF Builds, KeepsAll, OffFile

\* Copying all batches.
LEMMA CopyRun ==
    ASSUME NEW v, Steady(v), v.mode = "open", v.next # {}, NEW f, Free(v.file, v.dirs, f),
           NEW d, NEW cs, NEW first, NEW from, NEW log, Follow(cs, first, from, log),
           Len(cs) > 0, Filled(v, f, d, cs, 0, first, log),
           d.first \in Nat, Len(log) \in Nat, 1 <= first, from <= Len(log) + 1,
           NEW hs, \A k \in 1..Len(cs) : Typed(hs[k]),
           NEW q, q = [k \in 1..Len(cs) |-> <<WriteCall(f, cs[k]), Set(hs[k])>>]
    PROVE  \E w : Builds(v, FlattenSeq(q), f, w) /\ Filled(w, f, d, cs, Len(cs), from, log)
<1>1. /\ IsSeq(cs) /\ Len(cs) \in Nat /\ first \in Nat /\ from \in Nat
      /\ cs[1].first = first /\ cs[Len(cs)].first + Len(cs[Len(cs)].recs) = from
      /\ \A k \in 1..Len(cs) :
            /\ Fits(cs[k], log) /\ cs[k].first \in Nat /\ Len(cs[k].recs) \in Nat \ {0}
            /\ first <= cs[k].first /\ cs[k].first + Len(cs[k].recs) <= from
      /\ \A k \in 1..Len(cs) - 1 : cs[k + 1].first = cs[k].first + Len(cs[k].recs)
  BY FollowIs
<1>2. IsSeq(q) /\ Len(q) = Len(cs)
  <2>1. q = [k \in 1..Len(cs) |-> q[k]]
    OBVIOUS
  <2> QED BY <1>1, <2>1, SeqIntro
<1>3. \A k \in 1..Len(cs) : q[k] = <<WriteCall(f, cs[k]), Set(hs[k])>>
  OBVIOUS
<1>4. \A k \in 1..Len(cs) : IsSeq(q[k])
  <2>1. \A a, b : IsSeq(<<a, b>>)
    BY SeqTwo
  <2> QED BY <1>3, <2>1
<1>5. PICK j : Joins(j, q)
  BY <1>1, <1>2, <1>4, FlattenIs
<1> DEFINE p(k) == IF k = 0 THEN << >> ELSE j[k]
           S == {k \in 0..Len(cs) : \E w : /\ Builds(v, p(k), f, w)
                                           /\ Filled(w, f, d, cs, k, Behind(cs, k, first), log)}
<1>6. 0 \in S
  <2>1. Builds(v, << >>, f, v)
    BY BuildsNone
  <2> QED BY <1>1, <2>1 DEF Behind
<1>7. ASSUME NEW k \in 0..Len(cs), k < Len(cs) /\ k \in S
      PROVE  k + 1 \in S
  <2>1. PICK w : Builds(v, p(k), f, w) /\ Filled(w, f, d, cs, k, Behind(cs, k, first), log)
    BY <1>7
  <2> DEFINE e == Behind(cs, k, first)
             x == cs[k + 1]
             hd == hs[k + 1]
  <2>2. k \in Nat /\ k + 1 \in 1..Len(cs) /\ k + 1 \in 0..Len(cs) /\ k + 1 # 0
    BY <1>1, <1>7
  <2>3. x.first = e
    BY <1>1, <2>2 DEF Behind
  <2>4. x.t = "batch" /\ \A i \in 1..Len(x.recs) : log[x.first + i - 1] = x.recs[i]
    BY <1>1, <2>2 DEF Fits
  <2>5. /\ Len(x.recs) \in Nat \ {0} /\ e \in Nat /\ first <= e /\ e + Len(x.recs) <= from
        /\ \A i \in 1..Len(x.recs) : log[e + i - 1] = x.recs[i]
    BY <1>1, <2>2, <2>3, <2>4
  <2>6. Typed(hd) /\ Behind(cs, k + 1, first) = e + Len(x.recs)
    BY <2>2, <2>3 DEF Behind
  <2>7. Filled(w, f, d, cs, k, e, log) /\ x = cs[k + 1]
    BY <2>1
  <2>8. Steady(w) /\ w.mode = "open" /\ w.next # {} /\ Free(w.file, w.dirs, f)
    BY <2>1 DEF Builds
  <2>9. q[k + 1] = <<WriteCall(f, x), Set(hd)>>
    BY <1>3, <2>2
  <2>10. p(k + 1) = p(k) \o q[k + 1]
    <3>1. CASE k = 0
      <4>1. p(k + 1) = q[1] /\ p(k) = << >>
        BY <1>5, <3>1, <2>2 DEF Joins
      <4>2. << >> \o q[1] = q[1]
        BY <1>4, <2>2, <3>1, CatNone
      <4> QED BY <3>1, <4>1, <4>2
    <3>2. CASE k # 0
      <4>1. k + 1 \in 2..Len(q)
        BY <1>2, <2>2, <3>2
      <4>2. j[k + 1] = j[(k + 1) - 1] \o q[k + 1]
        BY <1>5, <4>1 DEF Joins
      <4>3. (k + 1) - 1 = k
        BY <2>2
      <4> QED BY <2>2, <3>2, <4>2, <4>3
    <3> QED BY <3>1, <3>2
  <2>11. 1 <= e /\ e + Len(x.recs) <= Len(log) + 1
    <3> DEFINE n == Len(x.recs)
               b == Len(log)
    <3>1. n \in Nat /\ e \in Nat /\ b \in Nat /\ first \in Nat /\ from \in Nat
          /\ first <= e /\ e + n <= from /\ 1 <= first /\ from <= b + 1
      BY <1>1, <2>5
    <3> HIDE DEF n, b, e
    <3>2. 1 <= e /\ e + n <= b + 1
      BY ONLY <3>1
    <3> QED BY <3>2 DEF n, b
  <2>a. Adds(d, x, e, log)
    BY <2>3, <2>4, <2>5, <2>11 DEF Adds
  <2> HIDE DEF e, x, hd, p, S
  <2>12. \E y : /\ Builds(w, <<WriteCall(f, x), Set(hd)>>, f, y)
                /\ Filled(y, f, d, cs, k + 1, EndAfter(x, e), log)
    BY <2>2, <2>6, <2>7, <2>8, <2>a, CopyStep
  <2>13. \E y : /\ Builds(w, q[k + 1], f, y)
                /\ Filled(y, f, d, cs, k + 1, Behind(cs, k + 1, first), log)
    BY <2>6, <2>9, <2>12 DEF EndAfter
  <2>14. \E y : /\ Builds(v, p(k + 1), f, y)
                /\ Filled(y, f, d, cs, k + 1, Behind(cs, k + 1, first), log)
    BY <2>1, <2>10, <2>13, BuildsThen
  <2> QED BY <2>2, <2>14 DEF S
<1>8. Len(cs) \in S
  <2> HIDE DEF S
  <2>1. 0 \in Nat /\ Len(cs) \in 0..Len(cs)
    BY <1>1
  <2> QED BY <1>1, <1>6, <1>7, <2>1, Induction
<1>9. PICK w : /\ Builds(v, p(Len(cs)), f, w)
               /\ Filled(w, f, d, cs, Len(cs), Behind(cs, Len(cs), first), log)
  BY <1>8
<1>10. p(Len(cs)) = FlattenSeq(q) /\ Behind(cs, Len(cs), first) = from
  <2>1. FlattenSeq(q) = j[Len(q)]
    BY <1>5 DEF Joins
  <2> QED BY <1>1, <1>2, <2>1 DEF Behind
<1> QED BY <1>9, <1>10

\* The end of a copy: its marker, its footer and the sync of its file.
CopyEnd(id, first, from, rev) ==
    <<WriteCall(Part(id), Marker(id, rev, from)), SealCall(Desc(id, first, from)),
      FsyncCall(Part(id))>>

\* A sealed copy that holds the batches.
CopyOfAll(c, id, first, from, cs, log) ==
    /\ GoodSealed(Desc(id, first, from), c, log)
    /\ Len(c) = Len(cs) + 4 /\ \A j \in 1..Len(cs) : c[j + 2] = cs[j]

\* It is there, and synced.
CopyHeld(F, id, first, from, cs, log) ==
    /\ Part(id) \in DOMAIN F /\ F[Part(id)].live = F[Part(id)].hard
    /\ CopyOfAll(F[Part(id)].live, id, first, from, cs, log)

\* All batches and the last marker.
Marked(c, b, d, cs, rev, from, log) ==
    /\ FilledBy(b, d, cs, Len(cs), from, log) /\ c = Plus(b, Marker(d.id, rev, from))
    /\ Len(cs) \in Nat /\ d.first \in Nat /\ Len(log) \in Nat /\ from <= Len(log) + 1
    /\ d.first < from

\* A marked copy, sealed, is a copy of everything up to from.
LEMMA CopySealed ==
    ASSUME NEW c, NEW b, NEW d, NEW cs, NEW rev, NEW from, NEW log,
           Marked(c, b, d, cs, rev, from, log), NEW x, Seals(d, c, from, x)
    PROVE  CopyOfAll(Plus(c, x), d.id, d.first, from, cs, log)
<1> DEFINE y == Marker(d.id, rev, from)
           n == Len(cs)
<1>a. /\ FilledBy(b, d, cs, n, from, log) /\ n \in Nat /\ d.first \in Nat /\ Len(log) \in Nat
      /\ from <= Len(log) + 1 /\ d.first < from
  BY DEF Marked
<1>1. y.t = "marker" /\ y.id = d.id /\ y.end = from /\ c = Plus(b, y)
  BY DEF Marker, Marked
<1>b. n = Len(cs)
  OBVIOUS
<1> HIDE DEF n
<1> HIDE DEF y
<1>2. /\ IsSeq(b) /\ GoodPart(d, b, Len(b), log) /\ from = Expected(d, b, Len(b)) /\ Len(b) = n + 2
      /\ \A j \in 1..n : b[j + 2] = cs[j]
  BY <1>a DEF FilledBy, Holds
<1>3. Continues(d, b, log, from, y, log)
  BY <1>1, <1>2, <1>a DEF Continues
<1>4. Holds(d, c, from, log) /\ Len(c) = n + 3
  BY <1>1, <1>2, <1>3, <1>a, WholeMore
<1>5. GoodSealed(Desc(d.id, d.first, from), Plus(c, x), log)
  BY <1>4, <1>a, SealedFrom
<1>6. IsSeq(c)
  BY <1>4 DEF Holds
<1>7. \A j \in 1..n : c[j + 2] = cs[j]
  <2>1. \A i \in 1..Len(b) : Append(b, y)[i] = b[i]
    BY <1>2, SeqAppend
  <2> QED BY <1>1, <1>2, <1>a, <2>1 DEF Plus
<1>8. Len(Plus(c, x)) = n + 4 /\ \A i \in 1..n + 3 : Plus(c, x)[i] = c[i]
  BY <1>4, <1>6, <1>a, SeqAppend DEF Plus
<1> QED BY <1>5, <1>7, <1>8, <1>b, <1>a DEF CopyOfAll

\* Call c puts x behind file f.
PutsAt(v, f, x, c) ==
    \/ c = WriteCall(f, x)
    \/ /\ c.op = "seal" /\ c.f = f
       /\ x = [c.item EXCEPT !.digest = Tail(ReadIn(v.file, v.dirs, f))]

\* Writing or sealing a spare file puts one item at its end, soundly.
LEMMA FillsPuts ==
    ASSUME NEW v, Steady(v), NEW f, Spare(v, f), f \in DOMAIN v.file,
           NEW x, NEW c, PutsAt(v, f, x, c)
    PROVE  \E w : /\ Fills(v, <<c>>, f, w)
                  /\ DOMAIN w.file = DOMAIN v.file /\ w.dirs = v.dirs
                  /\ w.file[f].live = Plus(v.file[f].live, x)
BY FillsWrite DEF PutsAt, Plus

\* Marking, syncing and sealing the copy is sound and leaves a sealed part.
LEMMA CopyEnds ==
    ASSUME NEW v, Steady(v), v.mode = "open", v.next # {}, NEW id, NEW f, f = Part(id),
           Free(v.file, v.dirs, f), id \in Top(v).part,
           NEW first, NEW d, d = Desc(id, first, first), NEW cs, IsSeq(cs), NEW from, NEW log,
           Filled(v, f, d, cs, Len(cs), from, log),
           first \in Nat, first < from, Len(log) \in Nat, from <= Len(log) + 1, NEW rev
    PROVE  \E w : /\ Builds(v, CopyEnd(id, first, from, rev), f, w)
                  /\ CopyHeld(w.file, id, first, from, cs, log)
<1>1. f \in DOMAIN v.file /\ Spare(v, f)
  BY DEF Filled, Spare
<1> DEFINE m == Marker(id, rev, from)
           c1 == WriteCall(f, m)
           c2 == SealCall(Desc(id, first, from))
           b == v.file[f].live
<1>2. PICK y : /\ Fills(v, <<c1>>, f, y)
               /\ DOMAIN y.file = DOMAIN v.file /\ y.dirs = v.dirs
               /\ y.file[f].live = Plus(b, m)
  <2>1. PutsAt(v, f, m, c1)
    BY DEF PutsAt
  <2> HIDE DEF c1, m
  <2> QED BY <1>1, <2>1, FillsPuts
<1>3. Builds(v, <<c1>>, f, y)
  <2> HIDE DEF c1
  <2> QED BY <1>2, BuildsFills
<1> DEFINE x == [c2.item EXCEPT !.digest = Tail(ReadIn(y.file, y.dirs, f))]
<1>4. Steady(y) /\ y.mode = "open" /\ y.next # {} /\ Free(y.file, y.dirs, f) /\ Spare(y, f)
      /\ f \in DOMAIN y.file
  BY <1>1, <1>2, <1>3 DEF Builds, Fills
<1>5. PICK z : /\ Fills(y, <<c2>>, f, z)
               /\ DOMAIN z.file = DOMAIN y.file /\ z.dirs = y.dirs
               /\ z.file[f].live = Plus(y.file[f].live, x)
  <2>1. c2.op = "seal" /\ c2.f = f
    BY DEF SealCall, Desc
  <2>2. x = [c2.item EXCEPT !.digest = Tail(ReadIn(y.file, y.dirs, f))]
    OBVIOUS
  <2>3. PutsAt(y, f, x, c2)
    BY <2>1, <2>2 DEF PutsAt
  <2> HIDE DEF c2, x
  <2> QED BY <1>4, <2>3, FillsPuts
<1>6. Builds(y, <<c2>>, f, z)
  <2> HIDE DEF c2
  <2> QED BY <1>4, <1>5, BuildsFills
<1>7. Steady(z) /\ z.mode = "open" /\ z.next # {} /\ Spare(z, f) /\ f \in DOMAIN z.file
  BY <1>4, <1>5, <1>6 DEF Builds, Fills
<1>8. PICK w : /\ Fills(z, <<FsyncCall(f)>>, f, w)
               /\ DOMAIN w.file = DOMAIN z.file /\ w.dirs = z.dirs
               /\ w.file[f].live = z.file[f].live /\ w.file[f].hard = z.file[f].live
  BY <1>7, FillsFsync
<1>9. Builds(z, <<FsyncCall(f)>>, f, w)
  BY <1>7, <1>8, BuildsFills
<1>10. Builds(v, <<c1>> \o (<<c2>> \o <<FsyncCall(f)>>), f, w)
  <2> HIDE DEF c1, c2
  <2>1. Builds(y, <<c2>> \o <<FsyncCall(f)>>, f, w)
    BY <1>6, <1>9, BuildsThen
  <2> QED BY <1>3, <2>1, BuildsThen
<1>11. CopyEnd(id, first, from, rev) = <<c1>> \o (<<c2>> \o <<FsyncCall(f)>>)
  <2>1. CopyEnd(id, first, from, rev) = <<c1, c2, FsyncCall(f)>>
    BY DEF CopyEnd
  <2> HIDE DEF c1, c2
  <2> QED BY ONLY <2>1, Triple
<1>12. ReadIn(y.file, y.dirs, f) = Plus(b, m)
  <2>1. HasName(Last(y.dirs), f)
    BY <1>2, Named DEF Top
  <2> QED BY <1>2, <2>1 DEF ReadIn
<1>13. Seals(d, Plus(b, m), from, x)
  <2>1. c2.item = Footer(id, first, from, << >>)
    BY DEF SealCall, Desc
  <2>2. x = [c2.item EXCEPT !.digest = Tail(Plus(b, m))]
    BY <1>12
  <2> DEFINE l == Tail(Plus(b, m))
  <2>3. x = [Footer(id, first, from, << >>) EXCEPT !.digest = l]
    BY <2>1, <2>2
  <2>4. d.id = id /\ d.first = first
    BY DEF Desc
  <2> HIDE DEF x, l
  <2>5. x.t = "footer" /\ x.id = id /\ x.first = first /\ x.end = from /\ x.digest = l
    BY <2>3 DEF Footer
  <2> QED BY <2>4, <2>5 DEF Seals, l
<1>14. CopyOfAll(w.file[f].live, id, first, from, cs, log)
  <2> DEFINE c == Plus(b, m)
  <2>1. w.file[f].live = Plus(c, x)
    BY <1>2, <1>5, <1>8
  <2>2. d.id = id /\ d.first = first
    BY DEF Desc
  <2>3. FilledBy(b, d, cs, Len(cs), from, log)
    BY DEF Filled
  <2>4. Len(cs) \in Nat
    BY SeqIs
  <2>5. c = Plus(b, Marker(d.id, rev, from))
    BY <2>2
  <2>6. Seals(d, c, from, x)
    BY <1>13
  <2> HIDE DEF c, x, b, m
  <2>7. Marked(c, b, d, cs, rev, from, log)
    BY <2>2, <2>3, <2>4, <2>5 DEF Marked
  <2>8. CopyOfAll(Plus(c, x), d.id, d.first, from, cs, log)
    BY <2>6, <2>7, CopySealed
  <2> QED BY <2>1, <2>2, <2>8
<1>15. CopyHeld(w.file, id, first, from, cs, log)
  BY <1>7, <1>8, <1>14 DEF CopyHeld
<1> QED BY <1>10, <1>11, <1>15

\* A new part: its header and its baseline marker, synced.
LEMMA PartBuilds ==
    ASSUME NEW v, Steady(v), v.mode = "open", v.next # {}, NEW id \in Nat, NEW f, f = Part(id),
           Free(v.file, v.dirs, f), NEW first, NEW rev
    PROVE  \E w : /\ Builds(v, PartCreate(id, first, rev), f, w) /\ f \in DOMAIN w.file
                  /\ w.file[f].live = Fresh(id, rev, first)
                  /\ w.file[f].hard = Fresh(id, rev, first) /\ id \in Top(w).part
<1>1. Spare(v, f)
  BY DEF Spare
<1>2. PICK w : Makes(v, PartCreate(id, first, rev), f,
                     <<Header(id, rev, first), Marker(id, rev, first)>>, w)
  BY <1>1, PartMade
<1>3. /\ Fills(v, PartCreate(id, first, rev), f, w) /\ f \in DOMAIN w.file
      /\ w.file[f].live = Fresh(id, rev, first) /\ w.file[f].hard = Fresh(id, rev, first)
      /\ Top(w) = AddName(Top(v), f)
  BY <1>2 DEF Makes, Fresh
<1>4. Builds(v, PartCreate(id, first, rev), f, w)
  BY <1>3, BuildsFills
<1>5. id \in Top(w).part
  <2>1. IsTable(Top(v)) /\ IsFileName(f)
    BY SteadyIs DEF IsFileName
  <2>2. HasName(Top(w), f)
    BY <1>3, <2>1, AddNameIs
  <2> QED BY <2>2, Named
<1> QED BY <1>3, <1>4, <1>5

\* led89_make_copy.
LEMMA CopyVia ==
    ASSUME NEW v, Steady(v), v.mode = "open", v.next # {}, NEW id \in Nat, NEW f, f = Part(id),
           Free(v.file, v.dirs, f),
           NEW cs, NEW first \in Nat \ {0}, NEW from, NEW log, Follow(cs, first, from, log),
           first < from, Len(log) \in Nat, from <= Len(log) + 1, NEW rev,
           NEW hs, \A k \in 1..Len(cs) : Typed(hs[k]),
           NEW q, q = [k \in 1..Len(cs) |-> <<WriteCall(f, cs[k]), Set(hs[k])>>]
    PROVE  \E w : /\ Builds(v, (PartCreate(id, first, rev) \o FlattenSeq(q))
                               \o CopyEnd(id, first, from, rev), f, w)
                  /\ CopyHeld(w.file, id, first, from, cs, log) /\ id \in Top(w).part
<1>1. PICK w1 : /\ Builds(v, PartCreate(id, first, rev), f, w1) /\ f \in DOMAIN w1.file
                /\ w1.file[f].live = Fresh(id, rev, first) /\ id \in Top(w1).part
  BY PartBuilds
<1> DEFINE d == Desc(id, first, first)
<1>2. d.id = id /\ d.first = first /\ d = Desc(id, first, first)
  BY DEF Desc
<1> HIDE DEF d
<1>3. Filled(w1, f, d, cs, 0, first, log)
  <2>1. /\ Len(Fresh(id, rev, first)) = 2 /\ Holds(d, Fresh(id, rev, first), first, log)
    BY <1>2, FreshIs
  <2> QED BY <1>1, <2>1 DEF Filled, FilledBy
<1>4. IsSeq(cs) /\ Len(cs) > 0
  <2>1. IsSeq(cs) /\ Len(cs) \in Nat /\ from \in Nat /\ (Len(cs) = 0 => first = from)
    BY FollowIs
  <2> QED BY <2>1
<1>5. Steady(w1) /\ w1.mode = "open" /\ w1.next # {} /\ Free(w1.file, w1.dirs, f)
  BY <1>1 DEF Builds
<1>6. PICK w2 : /\ Builds(w1, FlattenSeq(q), f, w2)
                /\ Filled(w2, f, d, cs, Len(cs), from, log)
  <2>1. d.first \in Nat /\ 1 <= first
    BY <1>2
  <2> QED BY <1>3, <1>4, <1>5, <2>1, CopyRun
<1>7. Steady(w2) /\ w2.mode = "open" /\ w2.next # {} /\ Free(w2.file, w2.dirs, f)
      /\ id \in Top(w2).part
  BY <1>1, <1>6 DEF Builds, Extends
<1>8. PICK w : /\ Builds(w2, CopyEnd(id, first, from, rev), f, w)
               /\ CopyHeld(w.file, id, first, from, cs, log)
  BY <1>2, <1>4, <1>6, <1>7, CopyEnds
<1>9. Builds(v, PartCreate(id, first, rev) \o FlattenSeq(q), f, w2)
  BY <1>1, <1>6, BuildsThen
<1>10. Builds(v, (PartCreate(id, first, rev) \o FlattenSeq(q)) \o CopyEnd(id, first, from, rev), f, w)
  BY <1>8, <1>9, BuildsThen
<1>11. id \in Top(w).part
  BY <1>7, <1>8 DEF Builds, Extends
<1> QED BY <1>8, <1>10, <1>11

\* The new parts of a truncated ledger: the copy, if there is one, and the
\* empty active part, both ending at the index.
TailOf(ps, a, keep, q, from) ==
    /\ Chain(ps, a) /\ Rising(ps) /\ keep \in 0..Len(ps) - 1 /\ from \in Nat
    /\ IsSeq(q) /\ Len(q) \in {1, 2}
    /\ q[1].first = ps[keep + 1].first /\ q[1].first <= from /\ q[Len(q)].first = from
    /\ \A j \in 1..Len(q) :
          /\ q[j] = Desc(q[j].id, q[j].first, from) /\ q[j].id \in Nat /\ q[j].end = from
          /\ \A p \in 1..Len(ps) : ps[p].id < q[j].id
    /\ Len(q) = 2 => q[1].id # q[2].id

\* What a concatenation of parts or entries holds.
LEMMA CatIs ==
    ASSUME NEW p, NEW q, IsSeq(p), IsSeq(q), NEW c, c = Cat(p, q)
    PROVE  /\ IsSeq(c) /\ Len(c) = Len(p) + Len(q)
           /\ \A i \in 1..Len(p) : c[i] = p[i]
           /\ \A i \in 1..Len(q) : c[Len(p) + i] = q[i]
BY SeqCat DEF Cat

\* Its parts: the kept ones and those.
JoinedTo(P, ps, a, keep, q) ==
    /\ Chain(P, a) /\ Rising(P) /\ Len(P) = keep + Len(q) /\ Len(P) \in Nat \ {0}
    /\ \A i \in 1..keep : P[i] = ps[i]
    /\ \A j \in 1..Len(q) : P[keep + j] = q[j]

\* The kept parts followed by the new ones form a chain.
LEMMA TailChain ==
    ASSUME NEW ps, NEW a, NEW keep, NEW q, NEW from, TailOf(ps, a, keep, q, from),
           NEW P, P = Cat(SubSeq(ps, 1, keep), q)
    PROVE  JoinedTo(P, ps, a, keep, q)
<1>1. /\ IsSeq(ps) /\ Len(ps) \in Nat /\ Len(ps) > 0 /\ keep \in 0..Len(ps) /\ keep \in Nat
      /\ from \in Nat /\ keep + 1 \in 1..Len(ps)
  BY SeqIs DEF TailOf, Chain
<1>2. /\ IsSeq(q) /\ Len(q) \in {1, 2}
      /\ q[1].first = ps[keep + 1].first /\ q[1].first <= from /\ q[Len(q)].first = from
      /\ \A j \in 1..Len(q) :
            /\ q[j] = Desc(q[j].id, q[j].first, from) /\ q[j].id \in Nat /\ q[j].end = from
            /\ \A p \in 1..Len(ps) : ps[p].id < q[j].id
      /\ Len(q) = 2 => q[1].id # q[2].id
  BY DEF TailOf
<1>3. /\ ps[1].first = a /\ a \in Nat
      /\ \A i \in 1..Len(ps) :
            /\ ps[i] = Desc(ps[i].id, ps[i].first, ps[i].end)
            /\ ps[i].id \in Nat /\ ps[i].first \in Nat /\ ps[i].end \in Nat
            /\ ps[i].first <= ps[i].end
      /\ \A i \in 1..Len(ps) - 1 : ps[i].end = ps[i + 1].first
      /\ \A i, j \in 1..Len(ps) : ps[i].id = ps[j].id => i = j
  BY DEF TailOf, Chain, Rising
<1> DEFINE k == SubSeq(ps, 1, keep)
<1>4. IsSeq(k) /\ Len(k) = keep /\ \A i \in 1..keep : k[i] = ps[i]
  BY <1>1, SeqPrefix
<1> HIDE DEF k
<1>5. /\ IsSeq(P) /\ Len(P) = keep + Len(q)
      /\ \A i \in 1..keep : P[i] = ps[i]
      /\ \A j \in 1..Len(q) : P[keep + j] = q[j]
  <2>1. P = Cat(k, q)
    BY DEF k
  <2>2. IsSeq(k) /\ IsSeq(q)
    BY <1>2, <1>4
  <2>3. /\ IsSeq(P) /\ Len(P) = Len(k) + Len(q)
        /\ \A i \in 1..Len(k) : P[i] = k[i]
        /\ \A i \in 1..Len(q) : P[Len(k) + i] = q[i]
    BY ONLY <2>1, <2>2, CatIs
  <2> QED BY ONLY <1>4, <2>3
<1>6. \A i \in 1..Len(P) : i \in 1..keep \/ \E j \in 1..Len(q) : i = keep + j
  <2>1. ASSUME NEW i \in 1..Len(P), i \notin 1..keep
        PROVE  i - keep \in 1..Len(q) /\ i = keep + (i - keep)
    BY <1>1, <1>2, <1>5, <2>1
  <2> QED BY <2>1
<1>7. \A j \in 1..Len(q) : q[j].first \in Nat /\ q[j].end = from /\ q[j].first <= from
  <2>1. \A j \in 1..Len(q) : q[j].end = from
    BY <1>2
  <2>2. q[1].first \in Nat
    BY <1>1, <1>2, <1>3
  <2>3. \A j \in 1..Len(q) : j = 1 \/ j = Len(q)
    BY <1>2
  <2> QED BY <1>1, <1>2, <2>1, <2>2, <2>3
<1>8. \A i \in 1..Len(P) : /\ P[i] = Desc(P[i].id, P[i].first, P[i].end)
                           /\ P[i].id \in Nat /\ P[i].first \in Nat /\ P[i].end \in Nat
                           /\ P[i].first <= P[i].end
  <2> TAKE i \in 1..Len(P)
  <2>1. CASE i \in 1..keep
    <3>1. P[i] = ps[i] /\ i \in 1..Len(ps)
      BY <1>1, <1>5, <2>1
    <3> QED BY <1>3, <3>1
  <2>2. CASE \E j \in 1..Len(q) : i = keep + j
    <3>1. PICK j \in 1..Len(q) : i = keep + j
      BY <2>2
    <3>2. P[i] = q[j]
      BY <1>5, <3>1
    <3>3. q[j] = Desc(q[j].id, q[j].first, q[j].end)
      BY <1>2, <1>7
    <3> QED BY <1>1, <1>2, <1>7, <3>2, <3>3
  <2> QED BY <1>6, <2>1, <2>2
<1>9. P[1].first = a
  <2>1. CASE keep = 0
    <3>1. P[1] = q[1]
      BY <1>2, <1>5, <2>1
    <3> QED BY <1>2, <1>3, <2>1, <3>1
  <2>2. CASE keep # 0
    <3>1. P[1] = ps[1]
      BY <1>1, <1>5, <2>2
    <3> QED BY <1>3, <3>1
  <2> QED BY <2>1, <2>2
<1>10. \A i \in 1..Len(P) - 1 : P[i].end = P[i + 1].first
  <2> TAKE i \in 1..Len(P) - 1
  <2>1. i \in 1..Len(P) /\ i + 1 \in 1..Len(P)
    BY <1>1, <1>2, <1>5
  <2>2. CASE i + 1 \in 1..keep
    <3>1. i \in 1..keep /\ i \in 1..Len(ps) - 1
      BY <1>1, <2>2
    <3> QED BY <1>3, <1>5, <2>2, <3>1
  <2>3. CASE i = keep
    <3>1. i \in 1..keep /\ i \in 1..Len(ps) - 1 /\ 1 \in 1..Len(q)
      BY <1>1, <1>2, <2>3
    <3>2. P[i] = ps[i] /\ P[i + 1] = q[1]
      BY <1>5, <2>3, <3>1
    <3> QED BY <1>2, <1>3, <2>3, <3>1, <3>2
  <2>4. CASE i > keep
    <3>1. Len(q) = 2 /\ i = keep + 1
      <4> DEFINE l == Len(q)
      <4>1. l \in {1, 2} /\ i \in 1..(keep + l) - 1 /\ keep \in Nat /\ i > keep
        BY <1>1, <1>2, <1>5, <2>4
      <4> HIDE DEF l
      <4>2. l = 2 /\ i = keep + 1
        BY ONLY <4>1
      <4> QED BY <4>2 DEF l
    <3>2. P[i] = q[1] /\ P[i + 1] = q[2]
      <4>1. 1 \in 1..Len(q) /\ 2 \in 1..Len(q) /\ i + 1 = keep + 2
        BY <1>1, <3>1
      <4> QED BY <1>5, <3>1, <4>1
    <3>3. q[1].end = from /\ q[2].first = from
      BY <1>2, <1>7, <3>1
    <3> QED BY <3>2, <3>3
  <2>5. i + 1 \in 1..keep \/ i = keep \/ i > keep
    BY <1>1, <2>1
  <2> QED BY <2>2, <2>3, <2>4, <2>5
<1>11. \A i, j \in 1..Len(P) : P[i].id = P[j].id => i = j
  <2> SUFFICES ASSUME NEW i \in 1..Len(P), NEW j \in 1..Len(P), P[i].id = P[j].id
               PROVE  i = j
    OBVIOUS
  <2>1. \A x \in 1..keep : x \in 1..Len(ps) /\ P[x].id = ps[x].id
    BY <1>1, <1>5
  <2>2. \A x \in 1..Len(q) : P[keep + x].id = q[x].id
    BY <1>5
  <2>3. \A x \in 1..keep : \A y \in 1..Len(q) : P[x].id # P[keep + y].id
    <3> TAKE x \in 1..keep
    <3> TAKE y \in 1..Len(q)
    <3>1. ps[x].id < q[y].id /\ ps[x].id \in Nat /\ q[y].id \in Nat
      BY <1>2, <1>3, <2>1
    <3>2. P[x].id = ps[x].id /\ P[keep + y].id = q[y].id
      BY <2>1, <2>2
    <3> QED BY <3>1, <3>2
  <2>4. CASE i \in 1..keep /\ j \in 1..keep
    BY <1>3, <2>1, <2>4
  <2>5. CASE \E x, y \in 1..Len(q) : i = keep + x /\ j = keep + y
    <3>1. PICK x \in 1..Len(q), y \in 1..Len(q) : i = keep + x /\ j = keep + y
      BY <2>5
    <3>2. q[x].id = q[y].id
      BY <2>2, <3>1
    <3>3. x = y
      <4>1. CASE Len(q) = 1
        BY <4>1
      <4>2. CASE Len(q) = 2
        <5>1. x \in {1, 2} /\ y \in {1, 2} /\ q[1].id # q[2].id
          BY <1>2, <4>2
        <5> QED BY <3>2, <5>1
      <4> QED BY <1>2, <4>1, <4>2
    <3> QED BY <3>1, <3>3
  <2> QED BY <1>6, <2>3, <2>4, <2>5
<1>12. Len(P) \in Nat \ {0}
  BY <1>1, <1>2, <1>5
<1>13. Chain(P, a)
  BY <1>3, <1>5, <1>8, <1>9, <1>10, <1>11, <1>12 DEF Chain
<1>14. Rising(P)
  BY <1>8 DEF Rising
<1> QED BY <1>5, <1>12, <1>13, <1>14 DEF JoinedTo

\* The directory in memory over the parts, cut behind the entries of keep parts.
DirCuts(F, ps, a, dir, b, keep, n, log) ==
    /\ Chain(ps, a) /\ Rising(ps) /\ Linked(dir, a, b) /\ ps[Len(ps)].first <= b
    /\ \A i \in 1..Len(dir) : /\ Within(ps, dir[i])
                              /\ Locates(F[Part(ps[dir[i].part].id)].live, dir[i], log)
    /\ keep \in 0..Len(ps) - 1 /\ n = EntriesUpTo(dir, keep)

\* The files of the first keep parts stay as they were.
Keeping(F, G, ps, keep) ==
    \A p \in 1..keep : Part(ps[p].id) \in DOMAIN G /\ G[Part(ps[p].id)] = F[Part(ps[p].id)]

\* The entries of the copy.
DirTail(G, q, keep, E, from, log) ==
    /\ Linked(E, q[1].first, from)
    /\ \A i \in 1..Len(E) :
          /\ E[i].part = keep + 1 /\ Len(q) = 2
          /\ Locates(G[Part(q[1].id)].live, E[i], log)

\* The directory covers the records from a and locates them in the files.
DirThere(G, P, D, a, from, log) ==
    /\ Linked(D, a, from)
    /\ \A i \in 1..Len(D) : /\ Within(P, D[i])
                            /\ Locates(G[Part(P[D[i].part].id)].live, D[i], log)

\* The kept entries followed by the new ones cover the truncated log.
LEMMA TailDir ==
    ASSUME NEW F, NEW ps, NEW a, NEW dir, NEW b, NEW keep, NEW n, NEW log,
           DirCuts(F, ps, a, dir, b, keep, n, log), NEW G, Keeping(F, G, ps, keep),
           NEW q, NEW from, TailOf(ps, a, keep, q, from), NEW P, JoinedTo(P, ps, a, keep, q),
           NEW new, \A i \in a..from - 1 : new[i] = log[i],
           NEW E, DirTail(G, q, keep, E, from, new), NEW D, D = Cat(SubSeq(dir, 1, n), E)
    PROVE  DirThere(G, P, D, a, from, new)
<1>1. /\ Chain(ps, a) /\ Rising(ps) /\ Linked(dir, a, b) /\ ps[Len(ps)].first <= b
      /\ \A i \in 1..Len(dir) : Within(ps, dir[i])
      /\ \A i \in 1..Len(dir) : Locates(F[Part(ps[dir[i].part].id)].live, dir[i], log)
      /\ keep \in 0..Len(ps) - 1 /\ n = EntriesUpTo(dir, keep)
  BY DEF DirCuts
<1>2. /\ n \in 0..Len(dir) /\ Halved(dir, n, a, ps[keep + 1].first, b)
      /\ \A e \in 1..n : dir[e].part <= keep
  BY <1>1, DirCut
<1> DEFINE k == SubSeq(dir, 1, n)
           x == ps[keep + 1].first
<1>3. /\ Linked(k, a, x) /\ Len(k) = n /\ \A e \in 1..n : k[e] = dir[e]
  BY <1>2 DEF Halved
<1>4. q[1].first = x /\ q[1].first <= from /\ from \in Nat /\ Len(q) \in {1, 2} /\ q[1].end = from
      /\ keep \in Nat /\ Len(dir) \in Nat /\ n \in Nat /\ IsSeq(E) /\ IsSeq(k)
  <2>1. keep \in Nat /\ Len(dir) \in Nat
    BY <1>1, SeqIs DEF Linked, Counts, Chain
  <2>2. IsSeq(E)
    BY DEF DirTail, Linked, Counts
  <2>3. 1 \in 1..Len(q)
    BY DEF TailOf
  <2>4. IsSeq(k)
    BY <1>3 DEF Linked, Counts
  <2> QED BY <1>2, <2>1, <2>2, <2>3, <2>4 DEF TailOf
<1>5. Linked(E, x, from)
  BY <1>4 DEF DirTail
<1>6. Linked(D, a, from)
  <2> HIDE DEF k, x
  <2>1. Linked(k \o E, a, from)
    BY <1>3, <1>5, LinkedCat
  <2> QED BY <2>1 DEF Cat, k
<1>7. /\ Len(D) = n + Len(E) /\ Len(E) \in Nat
      /\ \A i \in 1..n : D[i] = dir[i]
      /\ \A i \in 1..Len(E) : D[n + i] = E[i]
  <2>1. D = Cat(k, E)
    OBVIOUS
  <2> HIDE DEF k
  <2>2. IsSeq(k) /\ IsSeq(E)
    BY <1>4
  <2>3. /\ Len(D) = Len(k) + Len(E)
        /\ \A i \in 1..Len(k) : D[i] = k[i]
        /\ \A i \in 1..Len(E) : D[Len(k) + i] = E[i]
    BY ONLY <2>1, <2>2, CatIs
  <2>4. Len(E) \in Nat
    BY <2>2, SeqIs
  <2> QED BY ONLY <1>3, <2>3, <2>4
<1>8. ASSUME NEW i \in 1..n
      PROVE  /\ Within(P, dir[i])
             /\ Locates(G[Part(P[dir[i].part].id)].live, dir[i], new)
  <2> DEFINE e == dir[i]
             p == dir[i].part
  <2>1. i \in 1..Len(dir)
    BY <1>2, <1>4
  <2>2. Within(ps, e) /\ Locates(F[Part(ps[p].id)].live, e, log) /\ p <= keep
    BY <1>1, <1>2, <2>1
  <2>3. p \in 1..Len(ps) /\ ps[p].first <= e.first /\ (p < Len(ps) => EndOf(e) <= ps[p].end)
    BY <2>2 DEF Within
  <2>4. p \in 1..keep /\ p < Len(ps)
    BY <1>1, <1>4, <2>2, <2>3
  <2>5. P[p] = ps[p] /\ Len(P) = keep + Len(q)
    BY <2>4 DEF JoinedTo
  <2>6. p \in 1..Len(P)
    BY <1>4, <2>4, <2>5
  <2>7. Within(P, e)
    BY <2>3, <2>4, <2>5, <2>6 DEF Within
  <2>8. G[Part(P[p].id)] = F[Part(ps[p].id)]
    BY <2>4, <2>5 DEF Keeping
  <2>9. e.first \in Nat /\ EndOf(e) \in Nat
    BY <2>2, LocatesIs
  <2>10. a <= e.first /\ EndOf(e) <= x
    <3>1. \A j \in 1..Len(k) : a <= k[j].first /\ EndOf(k[j]) <= x
      <4> HIDE DEF k, x
      <4> QED BY <1>3, LinkedRange
    <3> QED BY <1>3, <3>1
  <2>11. \A j \in e.first..EndOf(e) - 1 : new[j] = log[j]
    <3> DEFINE lo == e.first
               hi == EndOf(e)
    <3>1. a <= lo /\ hi <= x /\ x <= from /\ lo \in Nat /\ hi \in Nat /\ from \in Nat
          /\ a \in Nat /\ x \in Nat
      BY <1>3, <1>4, <2>9, <2>10 DEF Linked
    <3> HIDE DEF lo, hi, x
    <3>2. \A j \in lo..hi - 1 : j \in a..from - 1
      BY ONLY <3>1
    <3> QED BY <3>2 DEF lo, hi
  <2>12. Locates(F[Part(ps[p].id)].live, e, new)
    <3> DEFINE c == F[Part(ps[p].id)].live
    <3>1. Locates(c, e, log)
      BY <2>2
    <3>2. Longer(c, c)
      <4>1. Len(c) \in Nat
        <5>1. \A d \in 1..keep : TRUE
          OBVIOUS
        <5>2. e.pos \in 3..Len(c)
          BY <3>1 DEF Locates
        <5> QED BY <5>2
      <4> QED BY <4>1 DEF Longer
    <3> HIDE DEF c, e, p
    <3> QED BY <2>11, <3>1, <3>2, LocatesMore DEF c
  <2> QED BY <2>7, <2>8, <2>12
<1>9. ASSUME NEW i \in 1..Len(E)
      PROVE  /\ Within(P, E[i])
             /\ Locates(G[Part(P[E[i].part].id)].live, E[i], new)
  <2>1. E[i].part = keep + 1 /\ Len(q) = 2 /\ Locates(G[Part(q[1].id)].live, E[i], new)
    BY DEF DirTail
  <2>2. P[keep + 1] = q[1] /\ Len(P) = keep + 2
    BY <2>1 DEF JoinedTo
  <2>3. q[1].first <= E[i].first /\ EndOf(E[i]) <= from
    <3>1. x <= E[i].first /\ EndOf(E[i]) <= from
      <4> HIDE DEF x
      <4> QED BY <1>5, LinkedRange
    <3> QED BY <1>4, <3>1
  <2>4. Within(P, E[i])
    <3>1. E[i].part \in 1..Len(P)
      BY <1>4, <2>1, <2>2
    <3> QED BY <1>4, <2>1, <2>2, <2>3, <3>1 DEF Within
  <2> QED BY <2>1, <2>2, <2>4
<1>10. ASSUME NEW i \in 1..Len(D)
       PROVE  Within(P, D[i]) /\ Locates(G[Part(P[D[i].part].id)].live, D[i], new)
  <2>1. CASE i \in 1..n
    BY <1>7, <1>8, <2>1
  <2>2. CASE i \notin 1..n
    <3>1. i - n \in 1..Len(E) /\ i = n + (i - n)
      BY <1>4, <1>7, <2>2
    <3>2. D[i] = E[i - n]
      BY <1>7, <3>1
    <3> QED BY <1>9, <3>1, <3>2
  <2> QED BY <2>1, <2>2
<1> QED BY <1>6, <1>10 DEF DirThere

\* The files of the new parts.
TailFiles(G, e, q, from, t) ==
    /\ \A j \in 1..Len(q) : q[j].id \in e.part /\ Part(q[j].id) \in DOMAIN G
    /\ G[Part(q[Len(q)].id)].live = Fresh(q[Len(q)].id, t.rev, from)
    /\ G[Part(q[Len(q)].id)].hard = Fresh(q[Len(q)].id, t.rev, from)
    /\ Len(q) = 2 => /\ G[Part(q[1].id)].live = G[Part(q[1].id)].hard
                     /\ GoodSealed(q[1], G[Part(q[1].id)].live, t.log)

\* The log up to the index.
UpTo(s, t, a, from) ==
    /\ Len(t.log) \in Nat /\ Len(t.log) = from - 1 /\ t.stable = from
    /\ \A i \in a..from - 1 : t.log[i] = s.log[i]

\* The kept parts followed by the new ones hold the truncated log.
LEMMA TailHolds ==
    ASSUME NEW F, NEW d, NEW ps, NEW s, PartsHold(F, d, ps, s), NEW a, NEW keep, NEW q, NEW from,
           TailOf(ps, a, keep, q, from), NEW P, JoinedTo(P, ps, a, keep, q),
           NEW G, Keeping(F, G, ps, keep), NEW e, \A p \in 1..keep : ps[p].id \in e.part,
           NEW t, UpTo(s, t, a, from), TailFiles(G, e, q, from, t)
    PROVE  PartsHold(G, e, P, t)
<1>1. /\ keep \in 0..Len(ps) - 1 /\ keep \in Nat /\ Len(ps) \in Nat /\ Len(q) \in {1, 2} /\ from \in Nat
      /\ Chain(ps, a) /\ Rising(ps)
      /\ q[1].first = ps[keep + 1].first /\ q[1].first <= from /\ q[Len(q)].first = from
  BY SeqIs DEF TailOf, Chain
<1>2. /\ Len(P) = keep + Len(q) /\ Len(P) \in Nat \ {0}
      /\ \A i \in 1..keep : P[i] = ps[i]
      /\ \A j \in 1..Len(q) : P[keep + j] = q[j]
  BY DEF JoinedTo
<1>3. \A i \in 1..Len(P) : i \in 1..keep \/ (i - keep \in 1..Len(q) /\ i = keep + (i - keep))
  BY <1>1, <1>2
<1>4. \A i \in 1..Len(P) : P[i].id \in e.part /\ Part(P[i].id) \in DOMAIN G
  <2> TAKE i \in 1..Len(P)
  <2>1. CASE i \in 1..keep
    BY <1>2, <2>1 DEF Keeping
  <2>2. CASE i - keep \in 1..Len(q) /\ i = keep + (i - keep)
    <3>1. P[i] = q[i - keep]
      BY <1>2, <2>2
    <3> QED BY <2>2, <3>1 DEF TailFiles
  <2> QED BY <1>3, <2>1, <2>2
<1>5. ASSUME NEW i \in 1..Len(P) - 1
      PROVE  LET f == G[Part(P[i].id)]
             IN f.live = f.hard /\ GoodSealed(P[i], f.live, t.log)
  <2>1. CASE i \in 1..keep
    <3> DEFINE c == F[Part(ps[i].id)].live
               p == ps[i]
               log == s.log
               new == t.log
    <3>1. P[i] = p /\ G[Part(p.id)] = F[Part(p.id)] /\ i \in 1..Len(ps) - 1
      BY <1>1, <1>2, <2>1 DEF Keeping
    <3>2. F[Part(p.id)].live = F[Part(p.id)].hard /\ GoodSealed(p, c, log)
      BY <3>1 DEF PartsHold
    <3>3. p.first \in Nat /\ p.end \in Nat /\ a <= p.first /\ p.end <= from /\ a \in Nat
      <4>1. \A x, y \in 1..Len(ps) : x < y => ps[x].end <= ps[y].first
        BY <1>1, ChainRises
      <4>2. i \in 1..Len(ps) /\ keep + 1 \in 1..Len(ps) /\ i < keep + 1
        BY <1>1, <2>1
      <4>3. p.end <= ps[keep + 1].first /\ a <= p.first
        BY <1>1, <4>1, <4>2, ChainRises
      <4>4. p.first \in Nat /\ p.end \in Nat /\ ps[keep + 1].first \in Nat /\ a \in Nat
        BY <1>1, <4>2 DEF Chain
      <4> DEFINE u == p.end
                 w == ps[keep + 1].first
      <4>5. u <= w /\ w <= from /\ u \in Nat /\ w \in Nat /\ from \in Nat
        BY <1>1, <4>3, <4>4
      <4> HIDE DEF u, w, p
      <4>6. u <= from
        BY ONLY <4>5
      <4> QED BY <4>3, <4>4, <4>6 DEF u
    <3>4. Len(new) = from - 1 /\ Len(new) \in Nat
      BY DEF UpTo
    <3>5. Len(new) \in Nat /\ p.end <= Len(new) + 1
      <4> DEFINE u == p.end
                 l == Len(new)
      <4>1. l = from - 1 /\ l \in Nat /\ from \in Nat /\ u <= from /\ u \in Nat
        BY <1>1, <3>3, <3>4
      <4> HIDE DEF u, l
      <4>2. u <= l + 1
        BY ONLY <4>1
      <4> QED BY <3>4, <4>2 DEF u, l
    <3>6. \A x \in p.first..p.end - 1 : new[x] = log[x]
      <4> DEFINE lo == p.first
                 hi == p.end
      <4>1. lo \in Nat /\ hi \in Nat /\ a \in Nat /\ from \in Nat /\ a <= lo /\ hi <= from
        BY <1>1, <3>3
      <4> HIDE DEF lo, hi
      <4>2. \A x \in lo..hi - 1 : x \in a..from - 1
        BY ONLY <4>1
      <4>3. \A x \in a..from - 1 : new[x] = log[x]
        BY DEF UpTo
      <4> QED BY <4>2, <4>3 DEF lo, hi
    <3>7. GoodSealed(p, c, new)
      <4> HIDE DEF p, c, log, new
      <4> QED BY <3>2, <3>3, <3>5, <3>6, SealedSame
    <3> QED BY <3>1, <3>2, <3>7
  <2>2. CASE i \notin 1..keep
    <3>1. Len(q) = 2 /\ i = keep + 1
      <4> DEFINE l == Len(q)
      <4>1. l \in {1, 2} /\ i \in 1..(keep + l) - 1 /\ keep \in Nat /\ i \notin 1..keep
        BY <1>1, <1>2, <2>2
      <4> HIDE DEF l
      <4>2. l = 2 /\ i = keep + 1
        BY ONLY <4>1
      <4> QED BY <4>2 DEF l
    <3>2. P[i] = q[1]
      BY <1>2, <3>1
    <3> QED BY <3>1, <3>2 DEF TailFiles
  <2> QED BY <2>1, <2>2
<1>6. SafeActive(Base(P[Len(P)]), t.rev, G[Part(P[Len(P)].id)], t)
  <2>1. P[Len(P)] = q[Len(q)]
    <3>1. Len(q) \in 1..Len(q)
      BY <1>1
    <3> QED BY <1>2, <3>1
  <2> DEFINE id == q[Len(q)].id
             b == Base(q[Len(q)])
             f == G[Part(id)]
             rev == t.rev
  <2>2. b.id = id /\ b.first = from
    BY <1>1 DEF Base, Desc
  <2>3. f.live = Fresh(id, rev, from) /\ f.hard = Fresh(id, rev, from)
    BY DEF TailFiles
  <2>4. from \in t.stable..Len(t.log) + 1
    <3>1. t.stable = from /\ Len(t.log) + 1 = from
      BY <1>1 DEF UpTo
    <3> QED BY <1>1, <3>1
  <2>5. GoodActive(b, rev, Fresh(id, rev, from), t)
    <3> HIDE DEF id, b, f, rev
    <3> QED BY <1>1, <2>2, <2>4, FreshIs
  <2>6. SafeActive(b, rev, f, t)
    <3> HIDE DEF id, b, f, rev
    <3> QED BY <2>3, <2>5, SafeHard
  <2> QED BY <2>1, <2>6
<1> QED BY <1>4, <1>5, <1>6 DEF PartsHold

\* The handle's active part, just created, is whole.
LEMMA TailWhole ==
    ASSUME NEW G, NEW e, NEW q, NEW from \in Nat, NEW t, TailFiles(G, e, q, from, t),
           NEW r, r.parts[Len(r.parts)] = q[Len(q)], q[Len(q)].first = from,
           r.end = from, r.len = 2, NEW log
    PROVE  Whole(G, r, log)
<1> DEFINE d == q[Len(q)]
           f == G[Part(d.id)]
           c == Fresh(d.id, t.rev, from)
<1>1. f.live = c /\ f.hard = c
  BY DEF TailFiles
<1>2. Len(c) = 2 /\ IsSeq(c) /\ Holds(d, c, from, log)
  BY FreshIs
<1>3. IsPrefix(c, c)
  BY <1>2, PrefixIs
<1> HIDE DEF c
<1> QED BY <1>1, <1>2, <1>3 DEF Whole, Holds

\* A ledger with log s, no record of which is unsynced, that is truncated at from:
\* keep parts are kept and n entries of the directory in memory.
Truncates(F, d, hd, s, from, keep, ps, n, t) ==
    /\ IsHandle(hd) /\ IsLog(s) /\ Matches(hd, s) /\ IsSettled(s)
    /\ Finds(F, d, hd, s.log) /\ PartsHold(F, d, ps, s)
    /\ \A p \in 1..Len(ps) : ps[p].id < hd.next
    /\ keep \in 0..Len(ps) - 1 /\ ps[keep + 1].first <= from
    /\ keep + 1 < Len(ps) => from < ps[keep + 1].end
    /\ ps[Len(ps)].first <= hd.end /\ from \in hd.first..hd.end - 1
    /\ ps = hd.parts /\ n = EntriesUpTo(hd.dir, keep) /\ t = TruncatedLog(s, from)

\* The facts about it that the proofs below need.
TruncatesTo(F, hd, s, from, keep, ps, n, t) ==
    /\ Chain(ps, hd.first) /\ Rising(ps) /\ Len(ps) \in Nat /\ keep + 1 \in 1..Len(ps)
    /\ DirCuts(F, ps, hd.first, hd.dir, hd.end, keep, n, s.log)
    /\ IsLog(t) /\ IsSettled(t) /\ StableLog(t) = t /\ UpTo(s, t, hd.first, from)
    /\ t.first = hd.first /\ t.rev = hd.rev + 1 /\ t.stable = from
    /\ from \in Nat \ {0} /\ hd.next \in Nat /\ hd.first \in Nat /\ hd.end \in Nat
    /\ \A p \in 1..Len(ps) : ps[p].id < hd.next /\ ps[p].id \in Nat
    /\ ps[keep + 1].first \in Nat \ {0} /\ ps[keep + 1].first <= from

\* What a truncation the code allows gives.
LEMMA TruncatesIs ==
    ASSUME NEW F, NEW d, NEW hd, NEW s, NEW from, NEW keep, NEW ps, NEW n, NEW t,
           Truncates(F, d, hd, s, from, keep, ps, n, t)
    PROVE  TruncatesTo(F, hd, s, from, keep, ps, n, t)
<1>1. /\ IsHandle(hd) /\ IsLog(s) /\ Matches(hd, s) /\ IsSettled(s)
      /\ Finds(F, d, hd, s.log)
      /\ \A p \in 1..Len(ps) : ps[p].id < hd.next
      /\ keep \in 0..Len(ps) - 1 /\ ps[keep + 1].first <= from
      /\ ps[Len(ps)].first <= hd.end /\ from \in hd.first..hd.end - 1
      /\ ps = hd.parts /\ n = EntriesUpTo(hd.dir, keep) /\ t = TruncatedLog(s, from)
  BY DEF Truncates
<1>2. /\ Chain(ps, hd.first) /\ Rising(ps) /\ \A i \in 1..Len(hd.dir) : Within(ps, hd.dir[i])
      /\ hd.next \in Nat
  BY <1>1 DEF IsHandle, InRange
<1>3. /\ Linked(hd.dir, hd.first, hd.end)
      /\ \A i \in 1..Len(hd.dir) : Locates(F[Part(ps[hd.dir[i].part].id)].live, hd.dir[i], s.log)
  BY <1>1 DEF Finds
<1>4. DirCuts(F, ps, hd.first, hd.dir, hd.end, keep, n, s.log)
  BY <1>1, <1>2, <1>3 DEF DirCuts
<1>5. hd.first = s.first /\ hd.rev = s.rev /\ hd.end = Len(s.log) + 1 /\ Len(s.log) \in Nat
      /\ s.first \in Nat \ {0}
  BY <1>1, LogIs DEF Matches
<1>6. from \in s.first..Len(s.log) /\ from \in Nat \ {0}
  BY <1>1, <1>5
<1>7. /\ IsLog(t) /\ IsSettled(t) /\ StableLog(t) = t
      /\ t.first = s.first /\ t.stable = from /\ t.rev = s.rev + 1
      /\ Len(t.log) = from - 1 /\ \A i \in 1..from - 1 : t.log[i] = s.log[i]
  BY <1>1, <1>6, TruncatedLogIs
<1>8. UpTo(s, t, hd.first, from)
  <2>1. \A i \in hd.first..from - 1 : i \in 1..from - 1
    BY <1>5, <1>6
  <2> QED BY <1>6, <1>7, <2>1 DEF UpTo
<1>9. /\ Len(ps) \in Nat /\ keep + 1 \in 1..Len(ps)
      /\ \A p \in 1..Len(ps) : ps[p].id \in Nat /\ ps[p].first \in Nat
  BY <1>1, <1>2, SeqIs DEF Chain
<1>10. ps[keep + 1].first \in Nat \ {0}
  <2>1. hd.first <= ps[keep + 1].first
    BY <1>2, <1>9, ChainRises
  <2> QED BY <1>5, <1>9, <2>1
<1> QED BY <1>1, <1>2, <1>4, <1>5, <1>6, <1>7, <1>8, <1>9, <1>10 DEF TruncatesTo

\* The handle of a ledger truncated to from.
TruncatedAs(hd, g, from, nx, P, D) ==
    HandleOf(g, hd.rev + 1, hd.first, from, from, FALSE, nx, P, Len(P), 2, D)

\* The files after the new parts have been written.
Rewritten(F, G, e, hd, from, keep, ps, t, q, E) ==
    /\ TailOf(ps, hd.first, keep, q, from) /\ Keeping(F, G, ps, keep)
    /\ \A p \in 1..keep : ps[p].id \in e.part
    /\ TailFiles(G, e, q, from, t) /\ DirTail(G, q, keep, E, from, t.log)

\* The handle after a truncation finds exactly the records that remain.
LEMMA TruncatedHandle ==
    ASSUME NEW F, NEW d, NEW hd, NEW s, NEW from, NEW keep, NEW ps, NEW n, NEW t,
           Truncates(F, d, hd, s, from, keep, ps, n, t),
           NEW G, NEW e, NEW q, NEW E, Rewritten(F, G, e, hd, from, keep, ps, t, q, E),
           NEW g \in Nat \ {0}, NEW nx \in Nat, hd.next <= nx, \A j \in 1..Len(q) : q[j].id < nx,
           NEW P, P = Cat(SubSeq(ps, 1, keep), q), NEW D, D = Cat(SubSeq(hd.dir, 1, n), E),
           NEW r, r = TruncatedAs(hd, g, from, nx, P, D)
    PROVE  HandleOn(G, e, r, t) /\ PartsHold(G, e, r.parts, t) /\ r.parts = P
<1> DEFINE a == hd.first
           dir == hd.dir
           b == hd.end
           rev == hd.rev + 1
           log == s.log
           new == t.log
<1>1. TruncatesTo(F, hd, s, from, keep, ps, n, t)
  BY TruncatesIs
<1>2. /\ TailOf(ps, a, keep, q, from) /\ Keeping(F, G, ps, keep)
      /\ \A p \in 1..keep : ps[p].id \in e.part
      /\ TailFiles(G, e, q, from, t) /\ DirTail(G, q, keep, E, from, new)
  BY DEF Rewritten
<1>3. JoinedTo(P, ps, a, keep, q)
  <2> HIDE DEF a
  <2> QED BY <1>2, TailChain
<1>4. /\ DirCuts(F, ps, a, dir, b, keep, n, log) /\ UpTo(s, t, a, from)
      /\ \A i \in a..from - 1 : new[i] = log[i]
      /\ IsLog(t) /\ t.first = a /\ t.rev = rev /\ t.stable = from /\ from \in Nat /\ from # 0
      /\ keep + 1 \in 1..Len(ps) /\ Len(ps) \in Nat
      /\ \A p \in 1..Len(ps) : ps[p].id < hd.next /\ ps[p].id \in Nat
  BY <1>1 DEF TruncatesTo, UpTo
<1>5. PartsHold(F, d, ps, s)
  BY DEF Truncates
<1>6. DirThere(G, P, D, a, from, new)
  <2>1. /\ DirCuts(F, ps, a, dir, b, keep, n, log) /\ Keeping(F, G, ps, keep)
        /\ TailOf(ps, a, keep, q, from) /\ JoinedTo(P, ps, a, keep, q)
        /\ \A i \in a..from - 1 : new[i] = log[i]
        /\ DirTail(G, q, keep, E, from, new) /\ D = Cat(SubSeq(dir, 1, n), E)
    BY <1>2, <1>3, <1>4
  <2> HIDE DEF a, dir, b, log, new, rev
  <2> QED BY ONLY <2>1, TailDir
<1>7. PartsHold(G, e, P, t)
  <2>1. /\ PartsHold(F, d, ps, s) /\ TailOf(ps, a, keep, q, from) /\ JoinedTo(P, ps, a, keep, q)
        /\ Keeping(F, G, ps, keep) /\ \A p \in 1..keep : ps[p].id \in e.part
        /\ UpTo(s, t, a, from) /\ TailFiles(G, e, q, from, t)
    BY <1>2, <1>3, <1>4, <1>5
  <2> HIDE DEF a, dir, b, log, new, rev
  <2> QED BY ONLY <2>1, TailHolds
<1>8. /\ r.gen = g /\ r.rev = rev /\ r.first = a /\ r.end = from /\ r.stable = from
      /\ r.dirty = FALSE /\ r.next = nx /\ r.parts = P /\ r.active = Len(P) /\ r.len = 2 /\ r.dir = D
  <2> DEFINE l == Len(P)
  <2>1. r = HandleOf(g, rev, a, from, from, FALSE, nx, P, l, 2, D)
    BY DEF TruncatedAs
  <2> HIDE DEF l, rev, a
  <2>2. /\ r.gen = g /\ r.rev = rev /\ r.first = a /\ r.end = from /\ r.stable = from
        /\ r.dirty = FALSE /\ r.next = nx /\ r.parts = P /\ r.active = l /\ r.len = 2 /\ r.dir = D
    BY ONLY <2>1 DEF HandleOf
  <2> QED BY <2>2 DEF l
<1>9. /\ Chain(P, a) /\ Rising(P) /\ Len(P) = keep + Len(q) /\ Len(P) \in Nat \ {0}
      /\ \A i \in 1..keep : P[i] = ps[i]
      /\ \A j \in 1..Len(q) : P[keep + j] = q[j]
  BY <1>3 DEF JoinedTo
<1>10. IsHandle(r)
  <2>1. InRange(r)
    BY <1>6, <1>8 DEF InRange, DirThere
  <2> DEFINE l == Len(P)
  <2>2. r = HandleOf(g, rev, a, from, from, FALSE, nx, P, l, 2, D) /\ l = Len(P)
    BY DEF TruncatedAs
  <2>3. /\ Chain(P, a) /\ Rising(P) /\ g \in Nat \ {0} /\ nx \in Nat /\ FALSE \in BOOLEAN
        /\ from = from
    BY <1>9
  <2> HIDE DEF l, rev, a
  <2> QED BY ONLY <2>1, <2>2, <2>3, HandleIntro
<1>11. Matches(r, t)
  <2>1. from = Len(t.log) + 1
    BY <1>4 DEF UpTo
  <2> QED BY <1>4, <1>8, <2>1 DEF Matches
<1>12. Finds(G, e, r, new)
  <2>1. IsSeq(P) /\ \A p \in 1..Len(P) : P[p].id \in e.part /\ Part(P[p].id) \in DOMAIN G
    BY <1>7, <1>9 DEF PartsHold, Chain
  <2> HIDE DEF a, new, rev, dir, b, log
  <2>2. Linked(D, a, from)
        /\ \A i \in 1..Len(D) : D[i].part \in 1..Len(P)
                                /\ Locates(G[Part(P[D[i].part].id)].live, D[i], new)
    BY <1>6 DEF DirThere, Within
  <2> QED BY <1>8, <2>1, <2>2 DEF Finds
<1>13. Whole(G, r, new)
  <2>1. r.parts[Len(r.parts)] = q[Len(q)] /\ q[Len(q)].first = from
    <3>1. Len(q) \in 1..Len(q) /\ q[Len(q)].first = from
      BY <1>2 DEF TailOf
    <3>2. r.parts = P /\ Len(P) = keep + Len(q) /\ \A j \in 1..Len(q) : P[keep + j] = q[j]
      BY <1>8, <1>9
    <3>3. P[Len(P)] = q[Len(q)]
      BY ONLY <3>1, <3>2
    <3> QED BY ONLY <3>1, <3>2, <3>3
  <2>2. /\ TailFiles(G, e, q, from, t) /\ r.end = from /\ r.len = 2 /\ from \in Nat
    BY <1>2, <1>4, <1>8
  <2> HIDE DEF new
  <2> QED BY ONLY <2>1, <2>2, TailWhole
<1>14. \A p \in 1..Len(r.parts) : r.parts[p].id < r.next
  <2> SUFFICES ASSUME NEW p \in 1..Len(P)
               PROVE  P[p].id < nx
    BY <1>8
  <2>0. keep \in Nat /\ keep < Len(ps) /\ Len(q) \in Nat /\ hd.next \in Nat
    BY <1>1, <1>2, <1>4 DEF TailOf, TruncatesTo
  <2>1. CASE p \in 1..keep
    <3>1. P[p] = ps[p] /\ ps[p].id < hd.next /\ ps[p].id \in Nat
      BY <1>4, <1>9, <2>0, <2>1
    <3> QED BY <2>0, <3>1
  <2>2. CASE p \notin 1..keep
    <3>1. p - keep \in 1..Len(q) /\ p = keep + (p - keep)
      BY <1>9, <2>0, <2>2
    <3>0. \A j \in 1..Len(q) : P[keep + j] = q[j]
      BY <1>9
    <3>2. P[p] = q[p - keep]
      BY ONLY <3>0, <3>1
    <3> QED BY <3>1, <3>2
  <2> QED BY <2>1, <2>2
<1> QED BY <1>7, <1>8, <1>10, <1>11, <1>12, <1>13, <1>14 DEF HandleOn

\* The call of truncate_from: u is the state in which the new log is pending.
TruncateAsked(v, from, keep, ps, n, t, u) ==
    /\ Good(v) /\ Steady(v) /\ v.h.end = v.h.stable /\ from \in v.h.first..v.h.end - 1
    /\ keep = PartsUpTo(v.h, from) /\ ps = v.h.parts /\ n = EntriesUpTo(v.h.dir, keep)
    /\ t = TruncatedLog(v.cur, from)
    /\ u = World(v.file, v.dirs, "open", v.h, v.cur, {t})

\* What such a call starts from.
LEMMA TruncateAskedIs ==
    ASSUME NEW v, NEW from, NEW keep, NEW ps, NEW n, NEW t, NEW u,
           TruncateAsked(v, from, keep, ps, n, t, u)
    PROVE  /\ Truncates(v.file, Top(v), v.h, v.cur, from, keep, ps, n, t)
           /\ StableLog(v.cur) = v.cur
<1> DEFINE hd == v.h
           s == v.cur
<1>1. /\ Good(v) /\ Steady(v) /\ hd.end = hd.stable /\ from \in hd.first..hd.end - 1
      /\ keep = PartsUpTo(hd, from) /\ ps = hd.parts /\ n = EntriesUpTo(hd.dir, keep)
      /\ t = TruncatedLog(s, from)
  BY DEF TruncateAsked
<1>2. /\ IsHandle(hd) /\ IsLog(s) /\ Matches(hd, s) /\ Finds(v.file, Top(v), hd, s.log)
      /\ Whole(v.file, hd, s.log) /\ \A p \in 1..Len(hd.parts) : hd.parts[p].id < hd.next
      /\ AllLead(v.file, v.dirs, hd.gen, StableLog(s)) /\ Describes(ManifestAt(v.file, hd.gen), hd)
  BY <1>1 DEF Good
<1>3. IsSettled(s) /\ StableLog(s) = s
  <2>1. IsSettled(s)
    BY <1>1, <1>2 DEF Matches, IsSettled
  <2> HIDE DEF s
  <2>2. StableLog(s) = s
    BY <1>2, <2>1, StableIs
  <2> QED BY <2>1, <2>2
<1>4. PartsHold(v.file, Top(v), hd.parts, s)
  <2> DEFINE g == hd.gen
             F == v.file
             ds == v.dirs
             m == ManifestAt(F, g)
  <2>1. g # 0 /\ AllLead(F, ds, g, s) /\ m = ManifestAt(F, g) /\ Describes(m, hd)
    BY <1>2, <1>3 DEF IsHandle
  <2> HIDE DEF g, F, ds, m, hd, s
  <2>2. Ready(F, Last(ds), m, s)
    BY <2>1, AllLeadIs
  <2>3. PartsHold(F, Last(ds), hd.parts, s)
    <3> DEFINE d == Last(ds)
    <3>1. Ready(F, d, m, s)
      BY <2>2
    <3> HIDE DEF d
    <3>2. PartsHold(F, d, hd.parts, s)
      BY <2>1, <3>1, PartsHoldIs
    <3> QED BY <3>2 DEF d
  <2> QED BY <2>3 DEF F, ds, Top
<1>5. /\ IsSeq(ps) /\ Len(ps) \in Nat /\ Len(ps) > 0 /\ Len(ps) \in 1..Len(ps)
      /\ Chain(ps, hd.first) /\ Rising(ps)
  BY <1>1, <1>2, HandleIs DEF IsHandle
<1>6. ps[Len(ps)].first <= hd.end /\ hd.end \in Nat /\ ps[Len(ps)].first \in Nat
  <2> DEFINE d == ps[Len(ps)]
             F == v.file
             log == s.log
  <2>1. d = hd.parts[Len(hd.parts)] /\ d.first \in Nat /\ Whole(F, hd, log)
    BY <1>1, <1>2, <1>5 DEF Chain
  <2> HIDE DEF d, F, log, hd
  <2>2. d.first <= hd.end /\ hd.end \in Nat
    BY <2>1, WholeFirst
  <2> QED BY <2>1, <2>2 DEF d
<1>7. /\ keep \in 0..Len(ps) - 1 /\ \A p \in 1..keep : ps[p].end <= from
      /\ keep < Len(ps) - 1 => ~(ps[keep + 1].end <= from)
  <2> HIDE DEF hd
  <2> QED BY <1>1, <1>5, PartsUpToIs
<1>8. hd.first \in Nat /\ from \in Nat /\ hd.first <= from
  BY <1>1, <1>2, <1>6, LogIs DEF Matches
<1>9. ps[keep + 1].first <= from
  <2>1. CASE keep = 0
    BY <1>5, <1>8, <2>1 DEF Chain
  <2>2. CASE keep # 0
    <3>1. keep \in 1..keep /\ keep \in 1..Len(ps) - 1
      BY <1>5, <1>7, <2>2
    <3>2. ps[keep].end <= from /\ ps[keep].end = ps[keep + 1].first
      BY <1>5, <1>7, <3>1 DEF Chain
    <3> QED BY <3>2
  <2> QED BY <2>1, <2>2
<1>10. keep + 1 < Len(ps) => from < ps[keep + 1].end
  <2>1. ASSUME keep + 1 < Len(ps)
        PROVE  from < ps[keep + 1].end
    <3>1. keep < Len(ps) - 1 /\ keep + 1 \in 1..Len(ps)
      BY <1>5, <1>7, <2>1
    <3>2. ps[keep + 1].end \in Nat /\ ~(ps[keep + 1].end <= from)
      BY <1>5, <1>7, <3>1 DEF Chain
    <3> DEFINE x == ps[keep + 1].end
    <3>3. x \in Nat /\ ~(x <= from)
      BY <3>2
    <3> HIDE DEF x
    <3>4. from < x
      BY ONLY <1>8, <3>3
    <3> QED BY <3>4 DEF x
  <2> QED BY <2>1
<1> QED BY <1>1, <1>2, <1>3, <1>4, <1>6, <1>7, <1>9, <1>10 DEF Truncates

\* Until the truncated ledger is published, the old log or the new one is found.
LEMMA TruncateStarts ==
    ASSUME NEW v, NEW from, NEW keep, NEW ps, NEW n, NEW t, NEW u,
           TruncateAsked(v, from, keep, ps, n, t, u)
    PROVE  /\ Steady(u) /\ u.mode = "open" /\ u.cur = v.cur /\ u.next = {t} /\ u.h = v.h
           /\ u.file = v.file /\ u.dirs = v.dirs /\ Top(u) = Top(v)
           /\ v.h.gen \in Nat \ {0} /\ v.h.next \in Nat
           /\ AllLead(u.file, u.dirs, v.h.gen, v.cur)
           /\ Describes(ManifestAt(u.file, v.h.gen), v.h)
<1>1. /\ Good(v) /\ Steady(v) /\ u = World(v.file, v.dirs, "open", v.h, v.cur, {t})
  BY DEF TruncateAsked
<1>2. StableLog(v.cur) = v.cur
  BY TruncateAskedIs
<1>3. IsLog(t)
  <2>1. Truncates(v.file, Top(v), v.h, v.cur, from, keep, ps, n, t)
    BY TruncateAskedIs
  <2> DEFINE F == v.file
             d == Top(v)
             hd == v.h
             s == v.cur
  <2>2. Truncates(F, d, hd, s, from, keep, ps, n, t)
    BY <2>1
  <2> HIDE DEF F, d, hd, s
  <2>3. TruncatesTo(F, hd, s, from, keep, ps, n, t)
    BY <2>2, TruncatesIs
  <2> QED BY <2>3 DEF TruncatesTo
<1>4. /\ u.file = v.file /\ u.dirs = v.dirs /\ u.mode = "open" /\ u.h = v.h
      /\ u.cur = v.cur /\ u.next = {t} /\ Top(u) = Top(v)
  BY <1>1, WorldIs DEF Top
<1>5. /\ IsHandle(v.h) /\ IsLog(v.cur) /\ Matches(v.h, v.cur) /\ v.h.gen \in Nat \ {0}
      /\ v.h.next \in Nat /\ AllLead(v.file, v.dirs, v.h.gen, v.cur)
      /\ Describes(ManifestAt(v.file, v.h.gen), v.h)
  BY <1>1, <1>2 DEF Good, IsHandle
<1>6. Safe(v.file, v.dirs, {v.cur} \union {t})
  <2> DEFINE g == v.h.gen
             s == v.cur
             S == {s} \union {t}
  <2>1. g # 0 /\ IsLog(s) /\ AllLead(v.file, v.dirs, g, s)
    BY <1>5
  <2>2. s \in S /\ \A x \in S : IsLog(x)
    BY <1>3, <1>5
  <2> HIDE DEF g, s, S
  <2>4. Safe(v.file, v.dirs, S)
    BY <2>1, <2>2, AllLeadSafe
  <2> QED BY <2>4 DEF s, S
<1>7. AreFiles(v.file)
  BY <1>1 DEF Steady
<1>8. Typed(v.h)
  BY <1>5, HandleTyped
<1>9. Steady(u)
  BY <1>4, <1>6, <1>7, <1>8 DEF Steady, Logs
<1> QED BY <1>4, <1>5, <1>9

\* No manifest refers to a file with a new id.
LEMMA TruncateFree ==
    ASSUME NEW v, NEW from, NEW keep, NEW ps, NEW n, NEW t, NEW u,
           TruncateAsked(v, from, keep, ps, n, t, u),
           NEW w, KeepsAll(u, w), NEW id \in Nat, v.h.next <= id
    PROVE  /\ Free(w.file, w.dirs, Part(id))
           /\ AllLead(w.file, w.dirs, v.h.gen, v.cur)
           /\ ManifestAt(w.file, v.h.gen) = ManifestAt(u.file, v.h.gen)
<1>1. /\ v.h.gen \in Nat \ {0} /\ v.h.next \in Nat
      /\ AllLead(u.file, u.dirs, v.h.gen, v.cur)
      /\ Describes(ManifestAt(u.file, v.h.gen), v.h)
  BY TruncateStarts
<1>2. Good(v)
  BY DEF TruncateAsked
<1>3. /\ AllLead(w.file, w.dirs, v.h.gen, v.cur)
      /\ ManifestAt(w.file, v.h.gen) = ManifestAt(u.file, v.h.gen)
  BY <1>1 DEF KeepsAll
<1>4. /\ IsSeq(v.h.parts) /\ \A p \in 1..Len(v.h.parts) : v.h.parts[p].id < v.h.next /\ v.h.parts[p].id \in Nat
  BY <1>2 DEF Good, IsHandle, Chain
<1>5. Free(w.file, w.dirs, Part(id))
  <2> DEFINE hd == v.h
             g == hd.gen
             F == w.file
             ds == w.dirs
             m == ManifestAt(F, g)
             s == v.cur
  <2>1. /\ AllLead(F, ds, g, s) /\ m = ManifestAt(F, g) /\ Describes(m, hd) /\ IsSeq(hd.parts)
        /\ \A p \in 1..Len(hd.parts) : hd.parts[p].id < hd.next /\ hd.parts[p].id \in Nat
        /\ hd.next \in Nat /\ hd.next <= id
    BY <1>1, <1>3, <1>4
  <2> HIDE DEF hd, g, F, ds, m, s
  <2>2. Referenced(m) = {hd.parts[p].id : p \in 1..Len(hd.parts)}
    BY <2>1, IdsAre
  <2>3. \A i \in Referenced(m) : i # id
    <3> DEFINE l == hd.next
    <3>1. \A p \in 1..Len(hd.parts) : hd.parts[p].id # id
      BY <2>1
    <3> QED BY <2>2, <3>1
  <2>4. Free(F, ds, Part(id))
    BY <2>1, <2>3, FreePart
  <2> QED BY <2>4 DEF F, ds
<1> QED BY <1>3, <1>5

\* A state keeps what leads in it.
LEMMA KeepsSelf ==
    ASSUME NEW v
    PROVE  KeepsAll(v, v)
BY DEF KeepsAll
---------------------------------------------------------------------------
(* The handles that a truncation goes through.                             *)

\* A handle whose parts, directory and next file id have been replaced.
Remade(hd, i, p, x, l, ds) ==
    HandleOf(hd.gen, hd.rev, hd.first, hd.end, hd.stable, hd.dirty, i, p, x, l, ds)

\* The directory entries of the first k batches of a copy, in part number p.
CopyDir(cs, k, p) == [j \in 1..k |-> Entry(cs[j].first, Len(cs[j].recs), 2 + j, p)]

\* The directory with the entries of the rebuilt part moved after the kept ones.
MovedTo(ds, keep, old) ==
    SubSeq(ds, 1, EntriesUpTo(ds, keep))
    \o [k \in 1..Len(ds) - old |-> [ds[old + k] EXCEPT !.part = keep + 1]]

\* The first keep parts followed by the last m.
RebuiltTo(p, keep, m) ==
    LET all == Len(p) IN SubSeq(p, 1, keep) \o SubSeq(p, all - m + 1, all)

\* Such handles keep their indices in order.
LEMMA RemadeTyped ==
    ASSUME NEW hd, IsHandle(hd), NEW s, IsLog(s), Matches(hd, s),
           NEW i, NEW p, NEW x, x \in 1..Len(p), NEW l, NEW ds,
           NEW y, y = Remade(hd, i, p, x, l, ds)
    PROVE  Typed(y)
<1> DEFINE g == hd.gen
           r == hd.rev
           a == hd.first
           b == hd.end
           c == hd.stable
           e == hd.dirty
<1>1. y = HandleOf(g, r, a, b, c, e, i, p, x, l, ds)
  BY DEF Remade
<1>2. a <= c /\ c <= b
  BY HandleTyped DEF Typed
<1> HIDE DEF g, r, a, b, c, e
<1>3. y.first = a /\ y.end = b /\ y.stable = c /\ y.parts = p /\ y.active = x
  BY <1>1, HandleOfIs
<1> QED BY <1>2, <1>3 DEF Typed

\* led89_make_copy adds a part and its entries.
LEMMA CopyHandleIs ==
    ASSUME NEW hd, IsHandle(hd), NEW bd, NEW from, NEW cs, NEW k
    PROVE  WithCopy(hd, bd, from, cs, k)
             = Remade(hd, hd.next + 1, Append(hd.parts, Desc(hd.next, hd.parts[bd].first, from)),
                      hd.active, hd.len, hd.dir \o CopyDir(cs, k, Len(hd.parts) + 1))
<1> DEFINE g == hd.gen
           r == hd.rev
           a == hd.first
           b == hd.end
           c == hd.stable
           e == hd.dirty
           nx == hd.next
           p == hd.parts
           x == hd.active
           l == hd.len
           ds == hd.dir
           q == Append(p, Desc(nx, p[bd].first, from))
           es == ds \o CopyDir(cs, k, Len(p) + 1)
<1>1. hd = HandleOf(g, r, a, b, c, e, nx, p, x, l, ds)
  BY HandleIs
<1>2. WithCopy(hd, bd, from, cs, k) = [hd EXCEPT !.parts = q, !.next = nx + 1, !.dir = es]
  BY DEF WithCopy, CopyDir
<1>3. Remade(hd, nx + 1, q, x, l, es) = HandleOf(g, r, a, b, c, e, nx + 1, q, x, l, es)
  BY DEF Remade
<1> DEFINE w == [hd EXCEPT !.parts = q, !.next = nx + 1, !.dir = es]
           i == nx + 1
<1>w. w = [hd EXCEPT !.parts = q, !.next = i, !.dir = es]
  OBVIOUS
<1> HIDE DEF g, r, a, b, c, e, nx, p, x, l, ds, q, es, w, i
<1>v. w = HandleOf(g, r, a, b, c, e, i, q, x, l, es)
  BY ONLY <1>1, <1>w DEF HandleOf
<1>4. [hd EXCEPT !.parts = q, !.next = nx + 1, !.dir = es]
        = HandleOf(g, r, a, b, c, e, nx + 1, q, x, l, es)
  BY <1>v DEF w, i
<1>5. WithCopy(hd, bd, from, cs, k) = Remade(hd, nx + 1, q, x, l, es)
  BY <1>2, <1>3, <1>4
<1> QED BY <1>5 DEF nx, q, x, l, es, p, ds

\* What such a handle holds.
LEMMA RemadeIs ==
    ASSUME NEW hd, NEW i, NEW p, NEW x, NEW l, NEW ds, NEW y, y = Remade(hd, i, p, x, l, ds)
    PROVE  /\ y.gen = hd.gen /\ y.first = hd.first /\ y.parts = p /\ y.active = x
           /\ y.next = i /\ y.dir = ds
<1> DEFINE g == hd.gen
           r == hd.rev
           a == hd.first
           b == hd.end
           c == hd.stable
           e == hd.dirty
<1>1. y = HandleOf(g, r, a, b, c, e, i, p, x, l, ds)
  BY DEF Remade
<1> HIDE DEF g, r, a, b, c, e
<1>2. y.parts = p /\ y.active = x /\ y.next = i /\ y.dir = ds /\ y.gen = g /\ y.first = a
  BY ONLY <1>1 DEF HandleOf
<1> QED BY <1>2 DEF g, a

\* The active part is added.
LEMMA WithActiveIs ==
    ASSUME NEW hd, NEW i, NEW p, NEW x, NEW l, NEW ds, NEW y, y = Remade(hd, i, p, x, l, ds),
           NEW from
    PROVE  WithActive(y, from) = Remade(hd, i + 1, Append(p, Desc(i, from, from)), x, l, ds)
<1> DEFINE g == hd.gen
           r == hd.rev
           a == hd.first
           b == hd.end
           c == hd.stable
           e == hd.dirty
<1>1. y = HandleOf(g, r, a, b, c, e, i, p, x, l, ds)
  BY DEF Remade
<1>2. \A j, q, z, m, es : Remade(hd, j, q, z, m, es) = HandleOf(g, r, a, b, c, e, j, q, z, m, es)
  BY DEF Remade
<1>3. y.parts = p /\ y.next = i /\ y.dir = ds
  BY RemadeIs
<1> DEFINE q == Append(p, Desc(i, from, from))
           k == i + 1
           w == [y EXCEPT !.parts = q, !.next = k]
<1>4. WithActive(y, from) = w
  BY <1>3 DEF WithActive
<1>w. w = [y EXCEPT !.parts = q, !.next = k]
  OBVIOUS
<1> HIDE DEF g, r, a, b, c, e, k, w, q
<1>v. w = HandleOf(g, r, a, b, c, e, k, q, x, l, ds)
  BY ONLY <1>1, <1>w DEF HandleOf
<1>5. WithActive(y, from) = Remade(hd, k, q, x, l, ds)
  BY ONLY <1>2, <1>4, <1>v
<1> QED BY <1>5 DEF k, q

\* led89_move_dir.
LEMMA MoveDirIs ==
    ASSUME NEW hd, NEW i, NEW p, NEW x, NEW l, NEW ds, NEW y, y = Remade(hd, i, p, x, l, ds),
           NEW keep, NEW old
    PROVE  MoveDir(y, keep, old) = Remade(hd, i, p, x, l, MovedTo(ds, keep, old))
<1> DEFINE g == hd.gen
           r == hd.rev
           a == hd.first
           b == hd.end
           c == hd.stable
           e == hd.dirty
<1>1. y = HandleOf(g, r, a, b, c, e, i, p, x, l, ds)
  BY DEF Remade
<1>2. \A j, q, z, m, es : Remade(hd, j, q, z, m, es) = HandleOf(g, r, a, b, c, e, j, q, z, m, es)
  BY DEF Remade
<1>3. y.parts = p /\ y.next = i /\ y.dir = ds
  BY RemadeIs
<1> DEFINE q == MovedTo(ds, keep, old)
           w == [y EXCEPT !.dir = q]
<1>4. MoveDir(y, keep, old) = w
  BY <1>3 DEF MoveDir, MovedTo
<1>w. w = [y EXCEPT !.dir = q]
  OBVIOUS
<1> HIDE DEF g, r, a, b, c, e, w, q
<1>v. w = HandleOf(g, r, a, b, c, e, i, p, x, l, q)
  BY ONLY <1>1, <1>w DEF HandleOf
<1>5. MoveDir(y, keep, old) = Remade(hd, i, p, x, l, q)
  BY ONLY <1>2, <1>4, <1>v
<1> QED BY <1>5 DEF q

\* The directory is cut when nothing is copied.
LEMMA DropDirIs ==
    ASSUME NEW hd, NEW i, NEW p, NEW x, NEW l, NEW ds, NEW y, y = Remade(hd, i, p, x, l, ds),
           NEW keep
    PROVE  DropDir(y, keep) = Remade(hd, i, p, x, l, SubSeq(ds, 1, EntriesUpTo(ds, keep)))
<1> DEFINE g == hd.gen
           r == hd.rev
           a == hd.first
           b == hd.end
           c == hd.stable
           e == hd.dirty
<1>1. y = HandleOf(g, r, a, b, c, e, i, p, x, l, ds)
  BY DEF Remade
<1>2. \A j, q, z, m, es : Remade(hd, j, q, z, m, es) = HandleOf(g, r, a, b, c, e, j, q, z, m, es)
  BY DEF Remade
<1>3. y.parts = p /\ y.next = i /\ y.dir = ds
  BY RemadeIs
<1> DEFINE q == SubSeq(ds, 1, EntriesUpTo(ds, keep))
           w == [y EXCEPT !.dir = q]
<1>4. DropDir(y, keep) = w
  BY <1>3 DEF DropDir
<1>w. w = [y EXCEPT !.dir = q]
  OBVIOUS
<1> HIDE DEF g, r, a, b, c, e, w, q
<1>v. w = HandleOf(g, r, a, b, c, e, i, p, x, l, q)
  BY ONLY <1>1, <1>w DEF HandleOf
<1>5. DropDir(y, keep) = Remade(hd, i, p, x, l, q)
  BY ONLY <1>2, <1>4, <1>v
<1> QED BY <1>5 DEF q

\* led89_rebuild_parts.
LEMMA RebuildPartsIs ==
    ASSUME NEW hd, NEW i, NEW p, NEW x, NEW l, NEW ds, NEW y, y = Remade(hd, i, p, x, l, ds),
           NEW keep, NEW m
    PROVE  RebuildParts(y, keep, m) = Remade(hd, i, RebuiltTo(p, keep, m), keep + m, 2, ds)
<1> DEFINE g == hd.gen
           r == hd.rev
           a == hd.first
           b == hd.end
           c == hd.stable
           e == hd.dirty
<1>1. y = HandleOf(g, r, a, b, c, e, i, p, x, l, ds)
  BY DEF Remade
<1>2. \A j, q, z, o, es : Remade(hd, j, q, z, o, es) = HandleOf(g, r, a, b, c, e, j, q, z, o, es)
  BY DEF Remade
<1>3. y.parts = p /\ y.next = i /\ y.dir = ds
  BY RemadeIs
<1> DEFINE q == RebuiltTo(p, keep, m)
           k == keep + m
           w == [y EXCEPT !.parts = q, !.active = k, !.len = 2]
<1>4. RebuildParts(y, keep, m) = w
  BY <1>3 DEF RebuildParts, RebuiltTo
<1>w. w = [y EXCEPT !.parts = q, !.active = k, !.len = 2]
  OBVIOUS
<1> HIDE DEF g, r, a, b, c, e, w, q, k
<1>v. w = HandleOf(g, r, a, b, c, e, i, q, k, 2, ds)
  BY ONLY <1>1, <1>w DEF HandleOf
<1>5. RebuildParts(y, keep, m) = Remade(hd, i, q, k, 2, ds)
  BY ONLY <1>2, <1>4, <1>v
<1> QED BY <1>5 DEF q, k

\* The handle of the truncated ledger.
ReturnedAs(hd, rev, from) ==
    [hd EXCEPT !.gen = @ + 1, !.rev = rev, !.end = from, !.stable = from, !.dirty = FALSE]

\* The handle truncate_from returns, field by field.
LEMMA ReturnedIs ==
    ASSUME NEW hd, NEW i, NEW p, NEW ds, NEW from
    PROVE  ReturnedAs(Remade(hd, i, p, Len(p), 2, ds), hd.rev + 1, from)
             = TruncatedAs(hd, hd.gen + 1, from, i, p, ds)
<1> DEFINE x == Len(p)
           l == 2
           rev == hd.rev + 1
           y == Remade(hd, i, p, x, l, ds)
           g == hd.gen
           r == hd.rev
           a == hd.first
           b == hd.end
           c == hd.stable
           e == hd.dirty
<1>1. y = HandleOf(g, r, a, b, c, e, i, p, x, l, ds)
  BY DEF Remade
<1>2. y.gen = g
  BY RemadeIs
<1> DEFINE k == g + 1
           w == ReturnedAs(y, rev, from)
<1>w. w = [y EXCEPT !.gen = k, !.rev = rev, !.end = from, !.stable = from, !.dirty = FALSE]
  BY <1>2 DEF ReturnedAs
<1> HIDE DEF g, r, a, b, c, e, k, w, x, l, rev, y
<1>v. w = HandleOf(k, rev, a, from, from, FALSE, i, p, x, l, ds)
  BY ONLY <1>1, <1>w DEF HandleOf
<1> QED BY <1>v DEF k, w, g, a, x, l, rev, y, TruncatedAs

\* The first elements of a longer sequence.
LEMMA PrefixOf ==
    ASSUME NEW p, IsSeq(p), NEW q, IsSeq(q), Len(p) <= Len(q),
           \A i \in 1..Len(p) : q[i] = p[i], NEW k \in 0..Len(p)
    PROVE  SubSeq(q, 1, k) = SubSeq(p, 1, k)
<1> DEFINE x == SubSeq(q, 1, k)
           y == SubSeq(p, 1, k)
<1>1. k \in 0..Len(q) /\ Len(p) \in Nat
  BY SeqIs
<1>2. /\ IsSeq(x) /\ Len(x) = k /\ \A i \in 1..k : x[i] = q[i]
  BY <1>1, SeqPrefix
<1>3. /\ IsSeq(y) /\ Len(y) = k /\ \A i \in 1..k : y[i] = p[i]
  BY SeqPrefix
<1> HIDE DEF x, y
<1>4. \A i \in 1..Len(x) : x[i] = y[i]
  BY <1>1, <1>2, <1>3
<1>5. x = y
  BY <1>2, <1>3, <1>4, SeqSame
<1> QED BY <1>5 DEF x, y

\* led89_rebuild_parts keeps the first parts and the one or two that were added.
LEMMA RebuiltIs ==
    ASSUME NEW ps, IsSeq(ps), NEW keep \in 0..Len(ps), NEW A, NEW p, p = Append(ps, A)
    PROVE  RebuiltTo(p, keep, 1) = Cat(SubSeq(ps, 1, keep), <<A>>)
<1>1. Len(ps) \in Nat
  BY SeqIs
<1>2. /\ IsSeq(p) /\ Len(p) = Len(ps) + 1 /\ p[Len(ps) + 1] = A
      /\ \A i \in 1..Len(ps) : p[i] = ps[i]
  BY SeqAppend
<1>3. SubSeq(p, 1, keep) = SubSeq(ps, 1, keep)
  <2>1. Len(ps) <= Len(p)
    BY <1>1, <1>2
  <2>2. IsSeq(ps) /\ keep \in 0..Len(ps)
    OBVIOUS
  <2> QED BY ONLY <1>2, <2>1, <2>2, PrefixOf
<1>4. SubSeq(p, Len(p) - 1 + 1, Len(p)) = <<A>>
  <2> DEFINE a == Len(p) - 1 + 1
             b == Len(p)
             x == SubSeq(p, a, b)
             y == <<A>>
  <2>1. a \in Nat \ {0} /\ b \in Nat /\ b <= Len(p) /\ a <= b + 1 /\ b - a + 1 = 1 /\ a = Len(ps) + 1
    BY <1>1, <1>2
  <2>2. IsSeq(y) /\ Len(y) = 1 /\ y[1] = A
    BY SeqOne
  <2>3. /\ IsSeq(x) /\ Len(x) = b - a + 1 /\ \A i \in 1..b - a + 1 : x[i] = p[a + i - 1]
    <3>1. /\ IsSeq(p) /\ a \in Nat \ {0} /\ b \in Nat /\ b <= Len(p) /\ a <= b + 1
      BY <1>2, <2>1
    <3> HIDE DEF a, b
    <3> QED BY ONLY <3>1, SeqSub
  <2>4. x[1] = p[Len(ps) + 1]
    <3>1. 1 \in 1..b - a + 1 /\ a + 1 - 1 = Len(ps) + 1
      BY <1>1, <2>1
    <3> HIDE DEF a, b, x
    <3> QED BY <2>3, <3>1
  <2>5. Len(x) = 1
    BY <2>1, <2>3
  <2> HIDE DEF a, b, x, y
  <2>6. \A i \in 1..Len(x) : x[i] = y[i]
    BY <1>2, <2>2, <2>4, <2>5
  <2>7. x = y
    BY <2>2, <2>3, <2>5, <2>6, SeqSame
  <2> QED BY <2>7 DEF x, y, a, b
<1>5. RebuiltTo(p, keep, 1) = SubSeq(p, 1, keep) \o SubSeq(p, Len(p) - 1 + 1, Len(p))
  BY DEF RebuiltTo
<1> QED BY <1>3, <1>4, <1>5 DEF Cat

\* The kept parts, a copy and the new active part.
RebuildsAs(ps, keep, A, C, p, r, P) ==
    /\ IsSeq(ps) /\ keep \in 0..Len(ps) /\ p = Append(ps, A) /\ r = Append(p, C)
    /\ P = Cat(SubSeq(ps, 1, keep), <<A, C>>)

\* The rebuilt parts are the kept ones followed by the new ones.
LEMMA RebuiltAs ==
    ASSUME NEW ps, NEW keep, NEW A, NEW C, NEW p, NEW r, NEW P, RebuildsAs(ps, keep, A, C, p, r, P)
    PROVE  RebuiltTo(r, keep, 2) = P
<1> SUFFICES ASSUME IsSeq(ps), keep \in 0..Len(ps), p = Append(ps, A)
             PROVE  RebuiltTo(Append(p, C), keep, 2) = Cat(SubSeq(ps, 1, keep), <<A, C>>)
  BY DEF RebuildsAs
<1>1. Len(ps) \in Nat
  BY SeqIs
<1>2. /\ IsSeq(p) /\ Len(p) = Len(ps) + 1 /\ p[Len(ps) + 1] = A
      /\ \A i \in 1..Len(ps) : p[i] = ps[i]
  BY SeqAppend
<1> DEFINE q == Append(p, C)
           a == Len(q) - 2 + 1
           b == Len(q)
           x == SubSeq(q, a, b)
           y == <<A, C>>
<1>3. /\ IsSeq(q) /\ Len(q) = Len(p) + 1 /\ q[Len(p) + 1] = C
      /\ \A i \in 1..Len(p) : q[i] = p[i]
  BY <1>2, SeqAppend
<1>4. /\ Len(ps) <= Len(q) /\ \A i \in 1..Len(ps) : q[i] = ps[i]
      /\ q[Len(ps) + 1] = A /\ q[Len(ps) + 2] = C
  BY <1>1, <1>2, <1>3
<1>5. SubSeq(q, 1, keep) = SubSeq(ps, 1, keep)
  <2> HIDE DEF q
  <2> QED BY <1>3, <1>4, PrefixOf
<1>6. a \in Nat \ {0} /\ b \in Nat /\ b <= Len(q) /\ a <= b + 1 /\ b - a + 1 = 2 /\ a = Len(ps) + 1
  BY <1>1, <1>2, <1>3
<1>7. IsSeq(y) /\ Len(y) = 2 /\ y[1] = A /\ y[2] = C
  BY SeqTwo
<1> HIDE DEF q
<1>8. /\ IsSeq(x) /\ Len(x) = b - a + 1 /\ \A i \in 1..b - a + 1 : x[i] = q[a + i - 1]
  <2> HIDE DEF a, b
  <2> QED BY <1>3, <1>6, SeqSub
<1> HIDE DEF a, b, x, y
<1>9. x[1] = A /\ x[2] = C /\ Len(x) = 2
  <2>1. 1 \in 1..b - a + 1 /\ 2 \in 1..b - a + 1 /\ a + 1 - 1 = Len(ps) + 1 /\ a + 2 - 1 = Len(ps) + 2
    BY <1>1, <1>6
  <2> QED BY <1>4, <1>6, <1>8, <2>1
<1>10. \A i \in 1..Len(x) : x[i] = y[i]
  BY <1>7, <1>9
<1>11. x = y
  BY <1>7, <1>8, <1>9, <1>10, SeqSame
<1>12. RebuiltTo(q, keep, 2) = SubSeq(q, 1, keep) \o x
  BY DEF RebuiltTo, x, a, b
<1> QED BY <1>5, <1>11, <1>12 DEF q, y, Cat

\* The entries of a copy.
LEMMA CopyDirIs ==
    ASSUME NEW cs, NEW k \in Nat, NEW p, NEW E, E = CopyDir(cs, k, p)
    PROVE  /\ IsSeq(E) /\ Len(E) = k
           /\ \A j \in 1..k : E[j] = Entry(cs[j].first, Len(cs[j].recs), 2 + j, p)
<1>1. E = [j \in 1..k |-> E[j]]
  BY DEF CopyDir
<1>2. IsSeq(E) /\ Len(E) = k
  BY <1>1, SeqIntro
<1>3. \A j \in 1..k : E[j] = Entry(cs[j].first, Len(cs[j].recs), 2 + j, p)
  BY DEF CopyDir
<1> QED BY <1>2, <1>3

\* The directory of the kept parts and of a copy, n entries after the others.
MovesAs(dir, cs, k, p, keep, n, ds, D) ==
    /\ IsSeq(dir) /\ k \in Nat /\ p \in Nat /\ keep \in Nat /\ keep < p /\ n = Len(dir)
    /\ ds = Cat(dir, CopyDir(cs, k, p))
    /\ D = Cat(SubSeq(dir, 1, EntriesUpTo(dir, keep)), CopyDir(cs, k, keep + 1))

\* led89_move_dir renumbers the entries of the copy.
LEMMA MovedToAs ==
    ASSUME NEW dir, NEW cs, NEW k, NEW p, NEW keep, NEW z, NEW ds, NEW d,
           MovesAs(dir, cs, k, p, keep, z, ds, d)
    PROVE  MovedTo(ds, keep, z) = d
<1> SUFFICES ASSUME IsSeq(dir), k \in Nat, p \in Nat, keep \in Nat, keep < p,
                    ds = Cat(dir, CopyDir(cs, k, p))
             PROVE  MovedTo(ds, keep, Len(dir))
                      = Cat(SubSeq(dir, 1, EntriesUpTo(dir, keep)), CopyDir(cs, k, keep + 1))
  BY DEF MovesAs
<1> DEFINE E == CopyDir(cs, k, p)
           D == CopyDir(cs, k, keep + 1)
           l == Len(dir)
           n == EntriesUpTo(dir, keep)
           m == EntriesUpTo(ds, keep)
           q == [j \in 1..Len(ds) - l |-> [ds[l + j] EXCEPT !.part = keep + 1]]
<1>1. /\ IsSeq(E) /\ Len(E) = k
      /\ \A j \in 1..k : E[j] = Entry(cs[j].first, Len(cs[j].recs), 2 + j, p)
  <2>1. E = CopyDir(cs, k, p) /\ k \in Nat
    OBVIOUS
  <2> HIDE DEF E
  <2> QED BY ONLY <2>1, CopyDirIs
<1>2. /\ IsSeq(D) /\ Len(D) = k
      /\ \A j \in 1..k : D[j] = Entry(cs[j].first, Len(cs[j].recs), 2 + j, keep + 1)
  BY CopyDirIs
<1>3. l \in Nat /\ IsSeq(dir) /\ l = Len(dir)
  BY SeqIs
<1>4. ds = Cat(dir, E)
  OBVIOUS
<1>5. /\ IsSeq(ds) /\ Len(ds) = l + k
      /\ \A i \in 1..l : ds[i] = dir[i]
      /\ \A j \in 1..k : ds[l + j] = E[j]
  <2>0. IsSeq(dir) /\ IsSeq(E) /\ ds = Cat(dir, E)
    BY <1>1, <1>3, <1>4
  <2> HIDE DEF E
  <2>1. /\ IsSeq(ds) /\ Len(ds) = Len(dir) + Len(E)
        /\ \A i \in 1..Len(dir) : ds[i] = dir[i]
        /\ \A i \in 1..Len(E) : ds[Len(dir) + i] = E[i]
    BY ONLY <2>0, CatIs
  <2> QED BY <1>1, <2>1
<1>6. /\ n \in 0..l /\ \A e \in 1..n : dir[e].part <= keep
      /\ n < l => ~(dir[n + 1].part <= keep)
  <2>1. n = EntriesUpTo(dir, keep)
    OBVIOUS
  <2> HIDE DEF n, l
  <2> QED BY ONLY <1>3, <2>1, EntriesUpToIs
<1>7. /\ m \in 0..Len(ds) /\ \A e \in 1..m : ds[e].part <= keep
      /\ m < Len(ds) => ~(ds[m + 1].part <= keep)
  <2>1. m = EntriesUpTo(ds, keep)
    OBVIOUS
  <2> HIDE DEF m
  <2> QED BY ONLY <1>5, <2>1, EntriesUpToIs
<1>8. \A j \in 1..k : E[j].part = p
  BY <1>1 DEF Entry
<1>9. m = n
  <2> HIDE DEF m, n, E, l
  <2>1. ASSUME m < n PROVE FALSE
    <3>1. m + 1 \in 1..n /\ m + 1 \in 1..l /\ m < Len(ds)
      BY ONLY <1>3, <1>5, <1>6, <1>7, <2>1, k \in Nat
    <3>2. ds[m + 1] = dir[m + 1]
      BY <1>5, <3>1
    <3> QED BY <1>6, <1>7, <3>1, <3>2
  <2>2. ASSUME n < m PROVE FALSE
    <3>1. n + 1 \in 1..m /\ n + 1 \in 1..Len(ds) /\ n \in Nat
      BY <1>3, <1>5, <1>6, <1>7, <2>2
    <3>2. CASE n < l
      <4>1. ds[n + 1] = dir[n + 1]
        BY <1>3, <1>5, <3>1, <3>2
      <4> QED BY <1>6, <1>7, <3>1, <3>2, <4>1
    <3>3. CASE ~(n < l)
      <4>1. n = l /\ 1 \in 1..k
        BY <1>3, <1>5, <1>6, <3>1, <3>3
      <4>2. ds[n + 1] = E[1] /\ E[1].part = p
        BY <1>5, <1>8, <4>1
      <4>3. p <= keep
        BY <1>7, <3>1, <4>2
      <4> QED BY <4>3
    <3> QED BY <3>2, <3>3
  <2>3. m \in Nat /\ n \in Nat
    BY <1>3, <1>5, <1>6, <1>7
  <2>4. m < n \/ n < m \/ m = n
    BY ONLY <2>3
  <2> QED BY <2>1, <2>2, <2>4
<1>10. SubSeq(ds, 1, n) = SubSeq(dir, 1, n)
  <2>1. /\ Len(dir) <= Len(ds) /\ n \in 0..Len(dir) /\ \A i \in 1..Len(dir) : ds[i] = dir[i]
    BY <1>3, <1>5, <1>6
  <2> HIDE DEF n
  <2> QED BY ONLY <1>3, <1>5, <2>1, PrefixOf
<1>11. q = D
  <2>1. q = [j \in 1..Len(ds) - l |-> q[j]] /\ Len(ds) - l = k
    BY <1>3, <1>5
  <2>2. ASSUME NEW j \in 1..k
        PROVE  q[j] = D[j]
    <3>1. q[j] = [ds[l + j] EXCEPT !.part = keep + 1]
      BY <2>1
    <3> DEFINE a == cs[j].first
               b == Len(cs[j].recs)
               c == 2 + j
               x == ds[l + j]
               y == q[j]
               o == keep + 1
    <3>2. x = Entry(a, b, c, p) /\ y = [x EXCEPT !.part = o]
      BY <1>1, <1>5, <3>1
    <3>3. D[j] = Entry(a, b, c, o)
      BY <1>2
    <3> HIDE DEF a, b, c, x, y, o
    <3>4. y = Entry(a, b, c, o)
      BY ONLY <3>2 DEF Entry
    <3> QED BY <3>3, <3>4 DEF y
  <2>3. q = [j \in 1..k |-> q[j]]
    BY <2>1
  <2> HIDE DEF q, D
  <2>4. IsSeq(q) /\ Len(q) = k
    BY ONLY <2>3, SeqIntro, k \in Nat
  <2>5. \A j \in 1..Len(q) : q[j] = D[j]
    BY <2>2, <2>4
  <2> QED BY ONLY <1>2, <2>4, <2>5, SeqSame
<1>12. MovedTo(ds, keep, l) = SubSeq(ds, 1, m) \o q
  BY DEF MovedTo
<1> QED BY <1>9, <1>10, <1>11, <1>12 DEF Cat

\* The parts the truncation no longer refers to.
LeftBehind(ps, keep) == SubSeq(ps, keep + 1, Len(ps))

\* The parts that a truncation leaves behind are not among the new ones.
LEMMA TailApart ==
    ASSUME NEW ps, NEW a, NEW keep, NEW q, NEW from, TailOf(ps, a, keep, q, from),
           NEW P, JoinedTo(P, ps, a, keep, q), NEW o, o = LeftBehind(ps, keep)
    PROVE  /\ IsSeq(o) /\ Len(o) \in Nat
           /\ \A i \in 1..Len(o) : \A p \in 1..Len(P) : P[p].id # o[i].id
<1>1. /\ Chain(ps, a) /\ keep \in 0..Len(ps) - 1 /\ Len(q) \in Nat
      /\ \A j \in 1..Len(q) : q[j].id \in Nat /\ \A p \in 1..Len(ps) : ps[p].id < q[j].id
  BY DEF TailOf
<1>2. /\ Len(P) = keep + Len(q) /\ \A i \in 1..keep : P[i] = ps[i]
      /\ \A j \in 1..Len(q) : P[keep + j] = q[j]
  BY DEF JoinedTo
<1>3. /\ IsSeq(ps) /\ Len(ps) \in Nat /\ keep \in Nat
      /\ \A i \in 1..Len(ps) : ps[i].id \in Nat
      /\ \A i, j \in 1..Len(ps) : ps[i].id = ps[j].id => i = j
  BY <1>1, SeqIs DEF Chain
<1>4. /\ IsSeq(o) /\ Len(o) = Len(ps) - (keep + 1) + 1
      /\ \A i \in 1..Len(ps) - (keep + 1) + 1 : o[i] = ps[(keep + 1) + i - 1]
  <2> DEFINE x == keep + 1
             y == Len(ps)
  <2>1. IsSeq(ps) /\ x \in Nat \ {0} /\ y \in Nat /\ y <= Len(ps) /\ x <= y + 1 /\ o = SubSeq(ps, x, y)
    BY <1>1, <1>3 DEF LeftBehind
  <2> HIDE DEF x, y
  <2>2. /\ IsSeq(SubSeq(ps, x, y)) /\ Len(SubSeq(ps, x, y)) = y - x + 1
        /\ \A i \in 1..y - x + 1 : SubSeq(ps, x, y)[i] = ps[x + i - 1]
    BY ONLY <2>1, SeqSub
  <2>3. IsSeq(o) /\ Len(o) = y - x + 1 /\ \A i \in 1..y - x + 1 : o[i] = ps[x + i - 1]
    BY ONLY <2>1, <2>2
  <2> QED BY <2>3 DEF x, y
<1>5. ASSUME NEW i \in 1..Len(o), NEW p \in 1..Len(P)
      PROVE  P[p].id # o[i].id
  <2>1. /\ (keep + 1) + i - 1 \in 1..Len(ps) /\ (keep + 1) + i - 1 > keep
        /\ i \in 1..Len(ps) - (keep + 1) + 1
    BY ONLY <1>1, <1>3, <1>4
  <2> DEFINE k == (keep + 1) + i - 1
  <2>2. o[i] = ps[k] /\ k \in 1..Len(ps) /\ k > keep
    BY <1>4, <2>1
  <2> HIDE DEF k
  <2>3. CASE p \in 1..keep
    <3>1. P[p] = ps[p] /\ p \in 1..Len(ps) /\ p # k
      BY ONLY <1>1, <1>2, <1>3, <2>2, <2>3
    <3> QED BY <1>3, <2>2, <3>1
  <2>4. CASE p \notin 1..keep
    <3>1. p - keep \in 1..Len(q) /\ p = keep + (p - keep)
      BY ONLY <1>1, <1>2, <1>3, <2>4, p \in 1..Len(P)
    <3>2. P[p] = q[p - keep]
      BY ONLY <1>2, <3>1
    <3>3. ps[k].id < q[p - keep].id /\ ps[k].id \in Nat /\ q[p - keep].id \in Nat
      BY <1>1, <1>3, <2>2, <3>1
    <3> DEFINE y == ps[k].id
               z == q[p - keep].id
    <3>4. y < z /\ y \in Nat /\ z \in Nat
      BY <3>3
    <3> HIDE DEF y, z
    <3>5. y # z
      BY ONLY <3>4
    <3>6. P[p].id = z /\ o[i].id = y
      BY ONLY <2>2, <3>2 DEF y, z
    <3> QED BY ONLY <3>5, <3>6
  <2> QED BY <2>3, <2>4
<1>6. Len(o) \in Nat
  BY ONLY <1>4, SeqIs
<1>7. \A i \in 1..Len(o) : \A p \in 1..Len(P) : P[p].id # o[i].id
  BY ONLY <1>5
<1> QED BY ONLY <1>4, <1>6, <1>7

\* The new files are there: x is the state in which they are.
TruncateBuilt(v, from, keep, ps, n, t, u, x, q, E, nx) ==
    /\ TruncateAsked(v, from, keep, ps, n, t, u)
    /\ Steady(x) /\ KeepsAll(u, x) /\ x.mode = "open" /\ x.cur = v.cur /\ x.next = {t}
    /\ Rewritten(v.file, x.file, Top(x), v.h, from, keep, ps, t, q, E)
    /\ nx \in Nat /\ v.h.next <= nx /\ \A j \in 1..Len(q) : q[j].id < nx

\* What the handle is then, before and after the new ledger is published.
LEMMA TruncatePresents ==
    ASSUME NEW v, NEW from, NEW keep, NEW ps, NEW n, NEW t, NEW u, NEW x, NEW q, NEW E, NEW nx,
           TruncateBuilt(v, from, keep, ps, n, t, u, x, q, E, nx),
           NEW P, P = Cat(SubSeq(ps, 1, keep), q), NEW D, D = Cat(SubSeq(v.h.dir, 1, n), E),
           NEW h4, h4 = Remade(v.h, nx, P, Len(P), 2, D),
           NEW r, r = TruncatedAs(v.h, v.h.gen + 1, from, nx, P, D),
           NEW w, w = World(x.file, x.dirs, "open", h4, x.cur, x.next), Steady(w)
    PROVE  /\ Presents(w, v.h.gen, v.cur, r, t) /\ r.parts = P
           /\ h4.parts = r.parts /\ h4.first = r.first /\ r.gen = h4.gen + 1 /\ r.rev = v.h.rev + 1
<1> DEFINE F == v.file
           d == Top(v)
           hd == v.h
           s == v.cur
           G == x.file
           e == Top(x)
           g == hd.gen + 1
<1>1. /\ TruncateAsked(v, from, keep, ps, n, t, u) /\ KeepsAll(u, x)
      /\ x.mode = "open" /\ x.cur = v.cur /\ x.next = {t}
      /\ Rewritten(F, G, e, hd, from, keep, ps, t, q, E)
      /\ nx \in Nat /\ hd.next <= nx /\ \A j \in 1..Len(q) : q[j].id < nx
  BY DEF TruncateBuilt
<1>2. Truncates(F, d, hd, s, from, keep, ps, n, t)
  BY <1>1, TruncateAskedIs
<1>3. hd.gen \in Nat \ {0} /\ hd.next \in Nat
  BY <1>1, TruncateStarts
<1>4. /\ w.file = x.file /\ w.dirs = x.dirs /\ w.mode = "open" /\ w.h = h4
      /\ w.cur = v.cur /\ w.next = {t} /\ Top(w) = Top(x)
  BY <1>1, WorldIs DEF Top
<1>5. AllLead(w.file, w.dirs, hd.gen, s)
  <2> DEFINE id == hd.next
  <2>1. id \in Nat /\ hd.next <= id
    BY <1>3
  <2> HIDE DEF id
  <2>2. AllLead(x.file, x.dirs, v.h.gen, v.cur)
    BY <1>1, <2>1, TruncateFree
  <2> QED BY <1>4, <2>2
<1>6. HandleOn(G, e, r, t) /\ PartsHold(G, e, r.parts, t) /\ r.parts = P
  <2>1. /\ g \in Nat \ {0} /\ nx \in Nat /\ hd.next <= nx /\ \A j \in 1..Len(q) : q[j].id < nx
        /\ P = Cat(SubSeq(ps, 1, keep), q) /\ D = Cat(SubSeq(hd.dir, 1, n), E)
        /\ r = TruncatedAs(hd, g, from, nx, P, D)
        /\ Rewritten(F, G, e, hd, from, keep, ps, t, q, E)
    BY <1>1, <1>3
  <2> HIDE DEF F, d, hd, s, G, e, g
  <2> QED BY ONLY <1>2, <2>1, TruncatedHandle
<1>7. IsLog(t) /\ StableLog(t) = t
  <2> HIDE DEF F, d, hd, s
  <2>1. TruncatesTo(F, hd, s, from, keep, ps, n, t)
    BY ONLY <1>2, TruncatesIs
  <2> QED BY <2>1 DEF TruncatesTo
<1>8. Backs(w, StableLog(t))
  <2>1. t \in Logs(w)
    BY <1>4 DEF Logs
  <2> QED BY ONLY <1>7, <2>1, BacksStable
<1>9. Tells(w, t)
  BY <1>4 DEF Tells
<1>10. /\ IsHandle(r) /\ Matches(r, t) /\ Finds(G, e, r, t.log) /\ Whole(G, r, t.log)
       /\ \A p \in 1..Len(r.parts) : r.parts[p].id < r.next
  BY <1>6 DEF HandleOn
<1>11. r.gen = g /\ r.first = hd.first /\ r.rev = hd.rev + 1 /\ r.parts = P
  <2> DEFINE l == Len(P)
             y == hd.rev + 1
             z == hd.first
  <2>1. r = HandleOf(g, y, z, from, from, FALSE, nx, P, l, 2, D)
    BY DEF TruncatedAs
  <2> HIDE DEF l, y, z, g
  <2>2. r.gen = g /\ r.first = z /\ r.rev = y /\ r.parts = P
    BY ONLY <2>1 DEF HandleOf
  <2> QED BY <2>2 DEF y, z
<1>12. h4.parts = P /\ h4.first = hd.first /\ h4.gen = hd.gen
  <2> DEFINE l == Len(P)
  <2>1. h4 = Remade(hd, nx, P, l, 2, D)
    OBVIOUS
  <2> HIDE DEF l, hd
  <2> QED BY ONLY <2>1, RemadeIs
<1>13. r.gen # hd.gen
  BY <1>3, <1>11
<1>14. StableLog(t) = t /\ PartsHold(G, e, r.parts, StableLog(t))
  BY <1>6, <1>7
<1>15. Presents(w, hd.gen, s, r, t)
  <2>1. /\ Steady(w) /\ w.mode = "open" /\ AllLead(w.file, w.dirs, hd.gen, s) /\ r.gen # hd.gen
        /\ IsLog(t) /\ IsHandle(r) /\ Matches(r, t) /\ Backs(w, StableLog(t))
        /\ \A p \in 1..Len(r.parts) : r.parts[p].id < r.next
        /\ PartsHold(w.file, Top(w), r.parts, StableLog(t))
        /\ Finds(w.file, Top(w), r, t.log) /\ Whole(w.file, r, t.log)
        /\ Tells(w, t)
    BY <1>4, <1>5, <1>7, <1>8, <1>9, <1>10, <1>13, <1>14
  <2> HIDE DEF F, d, hd, s, G, e, g
  <2> QED BY ONLY <2>1 DEF Presents
<1> QED BY <1>11, <1>12, <1>15

\* A list of unlinks is a list.
LEMMA UnlinkSeq ==
    ASSUME NEW o, Len(o) \in Nat
    PROVE  IsSeq(UnlinkPlan(o))
<1> DEFINE q == [k \in 1..Len(o) |-> UnlinkCall(Part(o[k].id))]
           z == <<QuietSyncDir>>
<1>1. IsSeq(q) /\ IsSeq(z)
  BY SeqIntro, SeqOne
<1>2. UnlinkPlan(o) = q \o z
  BY DEF UnlinkPlan
<1> HIDE DEF q, z
<1> QED BY ONLY <1>1, <1>2, SeqCat

\* Handle h3, an allocation, handle h4.
Reset(h3, h4) == <<Set(h3), Alloc(TRUE), Set(h4)>>

\* The assignments between the files and the manifest.
LEMMA ResetVia ==
    ASSUME NEW v, Steady(v), v.mode = "open", v.next # {}, NEW h3, Typed(h3), NEW h4, Typed(h4),
           NEW w, w = World(v.file, v.dirs, "open", h4, v.cur, v.next)
    PROVE  Steady(w) /\ Via(v, Reset(h3, h4), w) /\ IsSeq(Reset(h3, h4))
<1>0. SUFFICES ASSUME NEW a, a = <<Set(h3)>>, NEW b, b = <<Alloc(TRUE)>>, NEW c, c = <<Set(h4)>>,
                      NEW y, y = World(v.file, v.dirs, "open", h3, v.cur, v.next)
               PROVE  Steady(w) /\ Via(v, Reset(h3, h4), w) /\ IsSeq(Reset(h3, h4))
  OBVIOUS
<1>q. /\ a = <<Set(h3)>> /\ b = <<Alloc(TRUE)>> /\ c = <<Set(h4)>>
      /\ y = World(v.file, v.dirs, "open", h3, v.cur, v.next)
      /\ w = World(v.file, v.dirs, "open", h4, v.cur, v.next)
  BY <1>0
<1>1. Steady(y) /\ Via(v, a, y)
  BY <1>q, StepSet
<1>2. /\ y.file = v.file /\ y.dirs = v.dirs /\ y.mode = "open" /\ y.h = h3
      /\ y.cur = v.cur /\ y.next = v.next
  BY <1>q, WorldIs
<1>3. Via(y, b, y)
  BY <1>1, <1>2, <1>q, StepAlloc
<1>4. Steady(w) /\ Via(y, c, w)
  <2>1. w = World(y.file, y.dirs, "open", h4, y.cur, y.next) /\ y.next # {}
    BY <1>2, <1>q
  <2> QED BY <1>1, <1>2, <1>q, <2>1, StepSet
<1>5. Via(y, b \o c, w)
  BY ONLY <1>3, <1>4, ViaThen
<1>6. Via(v, a \o (b \o c), w)
  BY ONLY <1>1, <1>5, ViaThen
<1>7. Reset(h3, h4) = a \o (b \o c)
  BY <1>q, Triple DEF Reset
<1>8. Via(v, Reset(h3, h4), w)
  BY ONLY <1>6, <1>7
<1> QED BY <1>4, <1>8 DEF Via

\* A truncation whose new files are there is published, and the obsolete parts
\* are removed.
LEMMA TruncateFinishes ==
    ASSUME NEW v, NEW from, NEW keep, NEW ps, NEW n, NEW t, NEW u, NEW x, NEW q, NEW E, NEW nx,
           TruncateBuilt(v, from, keep, ps, n, t, u, x, q, E, nx),
           NEW P, P = Cat(SubSeq(ps, 1, keep), q), NEW D, D = Cat(SubSeq(v.h.dir, 1, n), E),
           NEW h4, h4 = Remade(v.h, nx, P, Len(P), 2, D),
           NEW r, r = TruncatedAs(v.h, v.h.gen + 1, from, nx, P, D),
           NEW h3, Typed(h3), NEW p, Via(u, p, x), NEW c, c = Reset(h3, h4),
           NEW m, m = PublishPlan(h4, v.h.rev + 1), NEW k, k = <<Return(r, t)>>,
           NEW l, l = UnlinkPlan(LeftBehind(ps, keep))
    PROVE  Sound(u, (((p \o c) \o m) \o k) \o l)
<1>0. SUFFICES ASSUME NEW w, w = World(x.file, x.dirs, "open", h4, x.cur, x.next),
                      NEW o, o = LeftBehind(ps, keep), NEW hd, hd = v.h,
                      NEW rev, rev = v.h.rev + 1
               PROVE  Sound(u, (((p \o c) \o m) \o k) \o l)
  OBVIOUS
<1>q1. /\ w = World(x.file, x.dirs, "open", h4, x.cur, x.next)
       /\ c = Reset(h3, h4) /\ m = PublishPlan(h4, rev) /\ k = <<Return(r, t)>>
       /\ l = UnlinkPlan(o) /\ hd = v.h /\ rev = v.h.rev + 1
  BY <1>0
<1>q2. P = Cat(SubSeq(ps, 1, keep), q) /\ D = Cat(SubSeq(v.h.dir, 1, n), E)
       /\ h4 = Remade(v.h, nx, P, Len(P), 2, D)
       /\ r = TruncatedAs(v.h, v.h.gen + 1, from, nx, P, D)
  OBVIOUS
<1>q3. o = LeftBehind(ps, keep)
  BY <1>0
<1>1. /\ TruncateAsked(v, from, keep, ps, n, t, u)
      /\ Steady(x) /\ x.mode = "open" /\ x.cur = v.cur /\ x.next = {t} /\ x.next # {}
      /\ Rewritten(v.file, x.file, Top(x), v.h, from, keep, ps, t, q, E)
  BY DEF TruncateBuilt
<1>2. IsHandle(hd) /\ IsLog(v.cur) /\ Matches(hd, v.cur)
  BY <1>1, <1>q1 DEF TruncateAsked, Good
<1>3. TailOf(ps, v.h.first, keep, q, from) /\ JoinedTo(P, ps, v.h.first, keep, q)
  <2> DEFINE a == v.h.first
  <2>1. TailOf(ps, a, keep, q, from)
    BY <1>1 DEF Rewritten
  <2> HIDE DEF a
  <2>2. P = Cat(SubSeq(ps, 1, keep), q)
    BY <1>q2
  <2>3. JoinedTo(P, ps, a, keep, q)
    BY ONLY <2>1, <2>2, TailChain
  <2> QED BY <2>1, <2>3 DEF a
<1>4. Typed(h4)
  <2> DEFINE z == Len(P)
             s == v.cur
  <2>1. h4 = Remade(hd, nx, P, z, 2, D) /\ z \in 1..Len(P)
    BY <1>3, <1>q1, <1>q2 DEF JoinedTo
  <2>2. IsHandle(hd) /\ IsLog(s) /\ Matches(hd, s)
    BY <1>2
  <2> HIDE DEF z, s
  <2> QED BY ONLY <2>1, <2>2, RemadeTyped
<1>5. Steady(w) /\ Via(x, c, w) /\ IsSeq(c)
  <2>1. Typed(h3)
    OBVIOUS
  <2> QED BY ONLY <1>1, <1>4, <1>q1, <2>1, ResetVia
<1>6. /\ Presents(w, v.h.gen, v.cur, r, t) /\ r.parts = P
      /\ h4.parts = r.parts /\ h4.first = r.first /\ r.gen = h4.gen + 1 /\ r.rev = rev
  <2>1. TruncateBuilt(v, from, keep, ps, n, t, u, x, q, E, nx)
    OBVIOUS
  <2>2. /\ Presents(w, v.h.gen, v.cur, r, t) /\ r.parts = P
        /\ h4.parts = r.parts /\ h4.first = r.first /\ r.gen = h4.gen + 1 /\ r.rev = v.h.rev + 1
    BY ONLY <1>5, <1>q1, <1>q2, <2>1, TruncatePresents
  <2> QED BY <1>q1, <2>2
<1>7. PICK z : Does(w, m \o k, r, t, z) /\ IsSeq(m)
  <2> DEFINE g == v.h.gen
             b == v.cur
  <2>1. Presents(w, g, b, r, t) /\ h4.parts = r.parts /\ h4.first = r.first /\ r.gen = h4.gen + 1 /\ r.rev = rev
    BY <1>6
  <2> HIDE DEF g, b
  <2>2. \E z : Does(w, PublishPlan(h4, rev) \o <<Return(r, t)>>, r, t, z)
               /\ IsSeq(PublishPlan(h4, rev))
    BY ONLY <2>1, PublishPlanVia
  <2> QED BY ONLY <2>2, <1>q1
<1>8. Via(w, m \o k, z) /\ Good(z) /\ Steady(z) /\ z.h = r
  BY ONLY <1>7 DEF Does
<1>9. /\ IsSeq(o) /\ Len(o) \in Nat
      /\ \A i \in 1..Len(o) : \A j \in 1..Len(P) : P[j].id # o[i].id
  <2> DEFINE a == v.h.first
  <2>1. TailOf(ps, a, keep, q, from) /\ JoinedTo(P, ps, a, keep, q)
    BY <1>3
  <2> HIDE DEF a
  <2> QED BY ONLY <2>1, <1>q3, TailApart
<1>10. Sound(z, l) /\ IsSeq(l)
  <2>1. z.h.parts = P
    BY <1>6, <1>8
  <2>2. \A i \in 1..Len(o) : \A j \in 1..Len(z.h.parts) : z.h.parts[j].id # o[i].id
    BY ONLY <1>9, <2>1
  <2>3. Sound(z, UnlinkPlan(o))
    BY ONLY <1>8, <1>9, <2>2, UnlinkPlanSound
  <2>4. IsSeq(UnlinkPlan(o))
    BY ONLY <1>9, UnlinkSeq
  <2> QED BY ONLY <2>3, <2>4, <1>q1
<1>11. Via(u, p, x)
  OBVIOUS
<1>12. Via(u, p \o c, w)
  BY ONLY <1>5, <1>11, ViaThen
<1>13. Via(u, (p \o c) \o (m \o k), z)
  BY ONLY <1>8, <1>12, ViaThen
<1>14. Sound(u, ((p \o c) \o (m \o k)) \o l)
  BY ONLY <1>10, <1>13, ViaSound
<1>15. ((p \o c) \o m) \o k = (p \o c) \o (m \o k)
  <2> DEFINE y == p \o c
  <2>1. IsSeq(y) /\ IsSeq(m) /\ IsSeq(k)
    BY <1>7, <1>12, <1>q1, SeqOne DEF Via
  <2> HIDE DEF y
  <2>2. Cat(Cat(y, m), k) = Cat(y, Cat(m, k))
    BY ONLY <2>1, CatAssoc
  <2> QED BY ONLY <2>2 DEF Cat, y
<1> QED BY ONLY <1>14, <1>15

============================================================================
