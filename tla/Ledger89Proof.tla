--------------------------- MODULE Ledger89Proof ---------------------------
(***************************************************************************)
(* A ledger over a file system that fails and loses power keeps its        *)
(* promises, for every set of records, size of parts and number of         *)
(* operations and failures: truncate_from, opening and creating, and the   *)
(* theorems of the specification.                                          *)
(*                                                                         *)
(* The faults are those the code is built for: calls and allocations that  *)
(* fail, and power losses. What goes wrong when publishing or listing the  *)
(* directory fails, or when a process reopens what it left in the middle   *)
(* of an operation, the runs show.                                         *)
(***************************************************************************)
EXTENDS Ledger89PlanProof

---------------------------------------------------------------------------
(* The new files of a truncation.                                          *)

\* Parts of which the first keep are kept, the next one begins at first, and
\* whose ids are below nx.
TailFrom(ps, a, keep, first, from, nx) ==
    /\ Chain(ps, a) /\ Rising(ps) /\ keep \in 0..Len(ps) - 1 /\ from \in Nat /\ nx \in Nat
    /\ \A p \in 1..Len(ps) : ps[p].id < nx /\ ps[p].id \in Nat
    /\ ps[keep + 1].first = first /\ first \in Nat /\ first <= from

\* A new active part follows them, or a copy and a new active part.
LEMMA TailOneIs ==
    ASSUME NEW ps, NEW a, NEW keep, NEW from, NEW nx, TailFrom(ps, a, keep, from, from, nx),
           NEW A, A = Desc(nx, from, from), NEW q, q = <<A>>
    PROVE  TailOf(ps, a, keep, q, from) /\ \A j \in 1..Len(q) : q[j].id < nx + 1
<1>1. /\ Chain(ps, a) /\ Rising(ps) /\ keep \in 0..Len(ps) - 1 /\ from \in Nat /\ nx \in Nat
      /\ \A p \in 1..Len(ps) : ps[p].id < nx /\ ps[p].id \in Nat
      /\ ps[keep + 1].first = from
  BY DEF TailFrom
<1>2. IsSeq(q) /\ Len(q) = 1 /\ q[1] = A
  BY SeqOne
<1>3. A.id = nx /\ A.first = from /\ A.end = from /\ A = Desc(A.id, A.first, from)
  BY DEF Desc
<1>4. \A j \in 1..Len(q) : j = 1
  BY ONLY <1>2
<1>5. /\ q[1].first = ps[keep + 1].first /\ q[1].first <= from /\ q[Len(q)].first = from
  BY ONLY <1>1, <1>2, <1>3
<1>6. ASSUME NEW j \in 1..Len(q)
      PROVE  /\ q[j] = Desc(q[j].id, q[j].first, from) /\ q[j].id \in Nat /\ q[j].end = from
             /\ q[j].id < nx + 1
             /\ \A p \in 1..Len(ps) : ps[p].id < q[j].id
  <2>1. q[j] = A
    BY ONLY <1>2, <1>4, j \in 1..Len(q)
  <2>2. nx < nx + 1
    BY ONLY <1>1
  <2> QED BY ONLY <1>1, <1>3, <2>1, <2>2
<1>7. ~(Len(q) = 2) /\ Len(q) \in {1, 2}
  BY ONLY <1>2
<1> QED BY ONLY <1>1, <1>2, <1>5, <1>6, <1>7 DEF TailOf

\* A sealed copy and an empty part continue the kept parts.
LEMMA TailTwoIs ==
    ASSUME NEW ps, NEW a, NEW keep, NEW first, NEW from, NEW nx,
           TailFrom(ps, a, keep, first, from, nx),
           NEW A, A = Desc(nx, first, from), NEW C, C = Desc(nx + 1, from, from),
           NEW q, q = <<A, C>>
    PROVE  TailOf(ps, a, keep, q, from) /\ \A j \in 1..Len(q) : q[j].id < nx + 2
<1>1. /\ Chain(ps, a) /\ Rising(ps) /\ keep \in 0..Len(ps) - 1 /\ from \in Nat /\ nx \in Nat
      /\ \A p \in 1..Len(ps) : ps[p].id < nx /\ ps[p].id \in Nat
      /\ ps[keep + 1].first = first /\ first \in Nat /\ first <= from
  BY DEF TailFrom
<1>2. IsSeq(q) /\ Len(q) = 2 /\ q[1] = A /\ q[2] = C
  BY SeqTwo
<1>3. /\ A.id = nx /\ A.first = first /\ A.end = from /\ A = Desc(A.id, A.first, from)
      /\ C.id = nx + 1 /\ C.first = from /\ C.end = from /\ C = Desc(C.id, C.first, from)
  BY DEF Desc
<1>4. \A j \in 1..Len(q) : j = 1 \/ j = 2
  BY ONLY <1>2
<1>5. /\ q[1].first = ps[keep + 1].first /\ q[1].first <= from /\ q[Len(q)].first = from
  BY ONLY <1>1, <1>2, <1>3
<1>6. ASSUME NEW x, x = A \/ x = C
      PROVE  /\ x = Desc(x.id, x.first, from) /\ x.id \in Nat /\ x.end = from
             /\ x.id < nx + 2
             /\ \A p \in 1..Len(ps) : ps[p].id < x.id
  <2>1. x.id = nx \/ x.id = nx + 1
    BY ONLY <1>3, <1>6
  <2>2. x.id \in Nat /\ x.id < nx + 2 /\ nx <= x.id
    <3> DEFINE y == x.id
    <3>1. y = nx \/ y = nx + 1
      BY <2>1
    <3> HIDE DEF y
    <3>2. y \in Nat /\ y < nx + 2 /\ nx <= y
      BY ONLY <1>1, <3>1
    <3> QED BY <3>2 DEF y
  <2>3. ASSUME NEW p \in 1..Len(ps)
        PROVE  ps[p].id < x.id
    <3> DEFINE y == x.id
               z == ps[p].id
    <3>1. y \in Nat /\ nx <= y /\ z \in Nat /\ z < nx
      BY ONLY <1>1, <2>2, p \in 1..Len(ps)
    <3> HIDE DEF y, z
    <3>2. z < y
      BY ONLY <1>1, <3>1
    <3> QED BY <3>2 DEF y, z
  <2> QED BY ONLY <1>3, <1>6, <2>2, <2>3
<1>7. ASSUME NEW j \in 1..Len(q)
      PROVE  /\ q[j] = Desc(q[j].id, q[j].first, from) /\ q[j].id \in Nat /\ q[j].end = from
             /\ q[j].id < nx + 2
             /\ \A p \in 1..Len(ps) : ps[p].id < q[j].id
  <2>1. q[j] = A \/ q[j] = C
    BY ONLY <1>2, <1>4, j \in 1..Len(q)
  <2> QED BY ONLY <1>6, <2>1
<1>8. q[1].id # q[2].id /\ Len(q) \in {1, 2}
  <2>1. nx # nx + 1
    BY ONLY <1>1
  <2> QED BY ONLY <1>2, <1>3, <2>1
<1> QED BY ONLY <1>1, <1>2, <1>5, <1>7, <1>8 DEF TailOf

\* Only parts with an id of nx or more have changed.
Beyond(F, G, d, e, nx) ==
    /\ d.part \subseteq e.part
    /\ \A f \in DOMAIN F : (\A i \in Nat : nx <= i => f # Part(i)) => f \in DOMAIN G /\ G[f] = F[f]

\* Files numbered from nx on are none of the kept parts'.
LEMMA BeyondKeeps ==
    ASSUME NEW F, NEW d, NEW hd, NEW log, Finds(F, d, hd, log), NEW ps, ps = hd.parts,
           NEW a, NEW keep, NEW first, NEW from, NEW nx, TailFrom(ps, a, keep, first, from, nx),
           NEW G, NEW e, Beyond(F, G, d, e, nx)
    PROVE  Keeping(F, G, ps, keep) /\ \A p \in 1..keep : ps[p].id \in e.part
<1>1. /\ keep \in 0..Len(ps) - 1 /\ nx \in Nat /\ Len(ps) \in Nat
      /\ \A p \in 1..Len(ps) : ps[p].id < nx /\ ps[p].id \in Nat
  BY SeqIs DEF TailFrom, Chain
<1>2. \A p \in 1..Len(ps) : ps[p].id \in d.part /\ Part(ps[p].id) \in DOMAIN F
  BY DEF Finds
<1>3. ASSUME NEW p \in 1..keep
      PROVE  /\ ps[p].id \in e.part
             /\ Part(ps[p].id) \in DOMAIN G /\ G[Part(ps[p].id)] = F[Part(ps[p].id)]
  <2>1. p \in 1..Len(ps)
    BY ONLY <1>1, p \in 1..keep
  <2> DEFINE y == ps[p].id
  <2>2. y < nx /\ y \in Nat /\ y \in d.part /\ Part(y) \in DOMAIN F
    BY ONLY <1>1, <1>2, <2>1
  <2> HIDE DEF y
  <2>3. \A i \in Nat : nx <= i => Part(y) # Part(i)
    BY ONLY <1>1, <2>2 DEF Part
  <2>4. y \in e.part /\ Part(y) \in DOMAIN G /\ G[Part(y)] = F[Part(y)]
    BY ONLY <2>2, <2>3, Beyond(F, G, d, e, nx) DEF Beyond
  <2> QED BY <2>4 DEF y
<1> QED BY ONLY <1>3 DEF Keeping

\* What is built behind the file ids in use leaves the other files alone.
LEMMA BuildsBeyond ==
    ASSUME NEW v, NEW p, NEW id \in Nat, NEW f, f = Part(id), NEW w, Builds(v, p, f, w),
           NEW nx \in Nat, nx <= id
    PROVE  Beyond(v.file, w.file, Top(v), Top(w), nx)
<1> DEFINE F == v.file
           G == w.file
           d == Top(v)
           e == Top(w)
<1>1. OffFile(F, G, f) /\ d.part \subseteq e.part
  BY DEF Builds, Extends
<1>2. \A x \in DOMAIN F : (\A i \in Nat : nx <= i => x # Part(i)) => x # f
  OBVIOUS
<1> HIDE DEF F, G, d, e
<1>3. Beyond(F, G, d, e, nx)
  BY ONLY <1>1, <1>2 DEF Beyond, OffFile
<1> QED BY <1>3 DEF F, G, d, e

\* One building after the other.
LEMMA BeyondBeyond ==
    ASSUME NEW F, NEW G, NEW d, NEW e, NEW nx, Beyond(F, G, d, e, nx),
           NEW H, NEW b, Beyond(G, H, e, b, nx)
    PROVE  Beyond(F, H, d, b, nx)
BY DEF Beyond

\* The new parts, with the kept ones as they were, are a rewritten tail.
LEMMA BeyondRewrites ==
    ASSUME NEW F, NEW d, NEW hd, NEW s, NEW from, NEW keep, NEW ps, NEW n, NEW t,
           Truncates(F, d, hd, s, from, keep, ps, n, t),
           NEW first, NEW nx, TailFrom(ps, hd.first, keep, first, from, nx),
           NEW G, NEW e, Beyond(F, G, d, e, nx), NEW q, TailOf(ps, hd.first, keep, q, from),
           TailFiles(G, e, q, from, t), NEW E, DirTail(G, q, keep, E, from, t.log)
    PROVE  Rewritten(F, G, e, hd, from, keep, ps, t, q, E)
<1> DEFINE a == hd.first
           log == s.log
<1>1. Finds(F, d, hd, log) /\ ps = hd.parts
  BY DEF Truncates
<1>2. TailFrom(ps, a, keep, first, from, nx) /\ Beyond(F, G, d, e, nx)
  OBVIOUS
<1> HIDE DEF a, log
<1>3. Keeping(F, G, ps, keep) /\ \A p \in 1..keep : ps[p].id \in e.part
  BY ONLY <1>1, <1>2, BeyondKeeps
<1> QED BY <1>3 DEF Rewritten

\* Where the new parts begin.
LEMMA TruncatesTail ==
    ASSUME NEW F, NEW d, NEW hd, NEW s, NEW from, NEW keep, NEW ps, NEW n, NEW t,
           Truncates(F, d, hd, s, from, keep, ps, n, t), NEW first, first = ps[keep + 1].first
    PROVE  TailFrom(ps, hd.first, keep, first, from, hd.next)
<1>1. TruncatesTo(F, hd, s, from, keep, ps, n, t)
  BY TruncatesIs
<1>2. keep \in 0..Len(ps) - 1
  BY DEF Truncates
<1> QED BY <1>1, <1>2 DEF TruncatesTo, TailFrom

\* A truncation at the beginning of a part makes a new active part.
LEMMA AloneBuilt ==
    ASSUME NEW v, NEW from, NEW keep, NEW ps, NEW n, NEW t, NEW u,
           TruncateAsked(v, from, keep, ps, n, t, u), ps[keep + 1].first = from,
           NEW i, i = v.h.next, NEW rev, rev = v.h.rev + 1,
           NEW A, A = Desc(i, from, from), NEW q, q = <<A>>
    PROVE  \E x : /\ Via(u, PartCreate(i, from, rev), x)
                  /\ TruncateBuilt(v, from, keep, ps, n, t, u, x, q, << >>, i + 1)
<1> DEFINE f == Part(i)
           F == v.file
           d == Top(v)
           hd == v.h
           s == v.cur
<1>1. Truncates(F, d, hd, s, from, keep, ps, n, t)
  BY TruncateAskedIs
<1>2. /\ Steady(u) /\ u.mode = "open" /\ u.cur = v.cur /\ u.next = {t} /\ u.file = F
      /\ Top(u) = d /\ i \in Nat
  BY TruncateStarts
<1>3. t.rev = rev /\ from \in Nat \ {0}
  <2>1. TruncatesTo(F, hd, s, from, keep, ps, n, t)
    BY <1>1, TruncatesIs
  <2> QED BY <2>1 DEF TruncatesTo
<1>4. TailFrom(ps, hd.first, keep, from, from, i)
  BY <1>1, TruncatesTail
<1>5. TailOf(ps, hd.first, keep, q, from) /\ \A j \in 1..Len(q) : q[j].id < i + 1
  <2> DEFINE a == hd.first
  <2>1. TailFrom(ps, a, keep, from, from, i) /\ A = Desc(i, from, from) /\ q = <<A>>
    BY <1>4
  <2> HIDE DEF a
  <2>2. TailOf(ps, a, keep, q, from) /\ \A j \in 1..Len(q) : q[j].id < i + 1
    BY ONLY <2>1, TailOneIs
  <2> QED BY <2>2 DEF a
<1>6. Free(u.file, u.dirs, f)
  <2>1. KeepsAll(u, u) /\ v.h.next <= i
    BY <1>2, KeepsSelf
  <2> QED BY <2>1, <1>2, TruncateFree
<1>7. PICK x : /\ Builds(u, PartCreate(i, from, rev), f, x) /\ f \in DOMAIN x.file
               /\ x.file[f].live = Fresh(i, rev, from)
               /\ x.file[f].hard = Fresh(i, rev, from) /\ i \in Top(x).part
  BY <1>2, <1>6, PartBuilds
<1>8. /\ Via(u, PartCreate(i, from, rev), x) /\ Steady(x) /\ KeepsAll(u, x)
      /\ x.mode = "open" /\ x.cur = v.cur /\ x.next = {t}
  BY <1>2, <1>7 DEF Builds
<1>9. Beyond(F, x.file, d, Top(x), i)
  <2>1. Beyond(u.file, x.file, Top(u), Top(x), i)
    BY <1>2, <1>7, BuildsBeyond
  <2> QED BY <2>1, <1>2
<1>10. TailFiles(x.file, Top(x), q, from, t)
  <2> DEFINE G == x.file
             e == Top(x)
             c == Fresh(i, rev, from)
  <2>1. Len(q) = 1 /\ q[1].id = i /\ i \in e.part /\ Part(i) \in DOMAIN G
    BY <1>7 DEF Desc
  <2>2. G[Part(i)].live = c /\ G[Part(i)].hard = c /\ c = Fresh(i, t.rev, from)
    BY <1>3, <1>7
  <2> HIDE DEF G, e, c
  <2>3. TailFiles(G, e, q, from, t)
    BY ONLY <2>1, <2>2 DEF TailFiles
  <2> QED BY <2>3 DEF G, e
<1>11. DirTail(x.file, q, keep, << >>, from, t.log)
  <2>1. q[1].first = from
    BY DEF Desc
  <2>2. Linked(<< >>, from, from)
    BY <1>3 DEF Linked, Counts, IsSeq
  <2> QED BY <2>1, <2>2 DEF DirTail
<1>12. Rewritten(F, x.file, Top(x), hd, from, keep, ps, t, q, << >>)
  <2> DEFINE G == x.file
             e == Top(x)
             E == << >>
  <2>1. /\ Truncates(F, d, hd, s, from, keep, ps, n, t)
        /\ TailFrom(ps, hd.first, keep, from, from, i) /\ Beyond(F, G, d, e, i)
        /\ TailOf(ps, hd.first, keep, q, from) /\ TailFiles(G, e, q, from, t)
        /\ DirTail(G, q, keep, E, from, t.log)
    BY <1>1, <1>4, <1>5, <1>9, <1>10, <1>11
  <2> HIDE DEF G, e, E, F, d, hd, s
  <2>2. Rewritten(F, G, e, hd, from, keep, ps, t, q, E)
    BY ONLY <2>1, BeyondRewrites
  <2> QED BY <2>2 DEF G, e, E
<1>13. i + 1 \in Nat /\ v.h.next <= i + 1
  BY <1>2
<1> HIDE DEF F, hd
<1>14. TruncateBuilt(v, from, keep, ps, n, t, u, x, q, << >>, i + 1)
  BY <1>5, <1>8, <1>12, <1>13 DEF TruncateBuilt, F, hd
<1> QED BY <1>8, <1>14

\* A list of one copied batch more begins at an item more.
LEMMA FollowsAt ==
    ASSUME NEW cs, NEW lo, NEW hi, NEW log, Follow(cs, lo, hi, log), NEW k \in 1..Len(cs)
    PROVE  /\ cs[k].t = "batch" /\ Len(cs[k].recs) \in Nat \ {0} /\ cs[k].first \in Nat
           /\ \A j \in 1..Len(cs[k].recs) : log[cs[k].first + j - 1] = cs[k].recs[j]
<1> DEFINE n == Len(cs[k].recs)
           a == cs[k].first
           S == Shape(cs)
<1>1. IsSeq(cs) /\ Linked(S, lo, hi) /\ Fits(cs[k], log)
  BY DEF Follow
<1>2. S[k] = [first |-> a, count |-> n] /\ Len(S) = Len(cs)
  BY <1>1 DEF Shape, IsSeq
<1> HIDE DEF S, a, n
<1>3. S[k].first \in Nat /\ S[k].count \in Nat \ {0}
  BY <1>1, <1>2 DEF Linked, Counts
<1>4. S[k].first = a /\ S[k].count = n
  BY <1>2
<1> QED BY <1>1, <1>3, <1>4 DEF Fits, a, n

\* The entries made for the copied batches locate them in the copy.
LEMMA CopyLocates ==
    ASSUME NEW cs, NEW first, NEW from, NEW log, Follow(cs, first, from, log),
           NEW c, NEW id, NEW held, CopyOfAll(c, id, first, from, cs, held),
           NEW p, NEW E, E = CopyDir(cs, Len(cs), p)
    PROVE  /\ Linked(E, first, from)
           /\ \A i \in 1..Len(E) : E[i].part = p /\ Locates(c, E[i], log)
<1> DEFINE m == Len(cs)
           S == Shape(cs)
<1>1. m \in Nat /\ Linked(S, first, from) /\ Len(S) = m
  BY DEF Follow, IsSeq, Shape
<1>2. IsSeq(E) /\ Len(E) = m /\ \A j \in 1..m : E[j] = Entry(cs[j].first, Len(cs[j].recs), 2 + j, p)
  <2> HIDE DEF m
  <2>1. m \in Nat /\ E = CopyDir(cs, m, p)
    BY <1>1 DEF m
  <2> QED BY ONLY <2>1, CopyDirIs
<1>3. \A j \in 1..m : E[j].first = S[j].first /\ E[j].count = S[j].count
  <2> SUFFICES ASSUME NEW j \in 1..m
               PROVE  E[j].first = S[j].first /\ E[j].count = S[j].count
    OBVIOUS
  <2>1. S[j] = [first |-> cs[j].first, count |-> Len(cs[j].recs)]
    BY <1>1 DEF Shape
  <2>2. E[j] = Entry(cs[j].first, Len(cs[j].recs), 2 + j, p)
    BY <1>2
  <2> HIDE DEF S, m
  <2> QED BY ONLY <2>1, <2>2 DEF Entry
<1>4. Linked(E, first, from)
  <2> HIDE DEF S, m
  <2>1. /\ Linked(S, first, from) /\ IsSeq(E) /\ Len(E) = Len(S)
        /\ \A j \in 1..Len(S) : E[j].first = S[j].first /\ E[j].count = S[j].count
    BY <1>1, <1>2, <1>3
  <2> QED BY ONLY <2>1, LinkedMoved
<1>5. ASSUME NEW i \in 1..m
      PROVE  E[i].part = p /\ Locates(c, E[i], log)
  <2> DEFINE x == cs[i]
             n == Len(x.recs)
             e == E[i]
  <2>1. /\ x.t = "batch" /\ n \in Nat \ {0} /\ x.first \in Nat
        /\ \A j \in 1..n : log[x.first + j - 1] = x.recs[j]
    BY FollowsAt
  <2>2. e = Entry(x.first, n, 2 + i, p)
    BY <1>2
  <2>3. c[i + 2] = x /\ Len(c) = m + 4
    BY DEF CopyOfAll
  <2> HIDE DEF x, n, e, m
  <2>4. /\ e.first = x.first /\ e.count = n /\ e.pos = i + 2 /\ e.part = p
        /\ e = Entry(e.first, e.count, e.pos, e.part)
    BY <2>2 DEF Entry
  <2>5. i + 2 \in 3..Len(c) /\ c[e.pos] = x
    BY <1>1, <2>3, <2>4
  <2>6. Len(x.recs) = n
    BY DEF n
  <2>7. Locates(c, e, log)
    BY ONLY <2>1, <2>4, <2>5, <2>6 DEF Locates
  <2> QED BY <2>4, <2>7 DEF e
<1> QED BY <1>2, <1>4, <1>5

\* The calls of led89_copy_prefix.
CopyWrites(hd, boundary, from, cs, f) ==
    [k \in 1..Len(cs) |-> <<WriteCall(f, cs[k]), Set(WithCopy(hd, boundary, from, cs, k))>>]

\* A copy is made of its head, its batches and its end.
CopyJoined(i, first, from, rev, q) ==
    (PartCreate(i, first, rev) \o FlattenSeq(q)) \o CopyEnd(i, first, from, rev)

\* The plan that copies the boundary part, in the stages the proof follows.
LEMMA CopyPlanIs ==
    ASSUME NEW hd, NEW b, NEW from, NEW rev
    PROVE  CopyPlan(hd, b, from, rev)
             = CopyJoined(hd.next, hd.parts[b].first, from, rev,
                          CopyWrites(hd, b, from, Copies(hd, b, from), Part(hd.next)))
BY DEF CopyPlan, CopyWrites, CopyEnd, CopyJoined

\* The handle while the batches are copied.
LEMMA CopyTyped ==
    ASSUME NEW hd, IsHandle(hd), NEW s, IsLog(s), Matches(hd, s),
           NEW boundary, NEW from, NEW cs, NEW k
    PROVE  Typed(WithCopy(hd, boundary, from, cs, k))
<1> DEFINE A == Desc(hd.next, hd.parts[boundary].first, from)
           p == Append(hd.parts, A)
           x == hd.active
           i == hd.next + 1
           l == hd.len
           ds == hd.dir \o CopyDir(cs, k, Len(hd.parts) + 1)
           y == WithCopy(hd, boundary, from, cs, k)
<1>1. y = Remade(hd, i, p, x, l, ds)
  BY CopyHandleIs
<1>2. x \in 1..Len(p)
  <2>1. IsSeq(hd.parts) /\ x \in 1..Len(hd.parts)
    BY HandleIs
  <2> HIDE DEF A, x
  <2> QED BY <2>1 DEF IsSeq
<1> HIDE DEF p, x, i, l, ds, y
<1>3. Typed(y)
  BY <1>1, <1>2, RemadeTyped
<1> QED BY <1>3 DEF y

\* What is left to copy of the log is in the truncated one.
LEMMA CopyFollows ==
    ASSUME NEW hd, NEW s, NEW from, NEW keep, NEW ps, NEW n, NEW t,
           Truncates(file, Names, hd, s, from, keep, ps, n, t),
           NEW first, first = ps[keep + 1].first, first < from,
           NEW cs, cs = Copies(hd, keep + 1, from)
    PROVE  Follow(cs, first, from, t.log) /\ IsSeq(cs)
<1>1. TruncatesTo(file, hd, s, from, keep, ps, n, t)
  BY TruncatesIs
<1>2. /\ IsHandle(hd) /\ IsLog(s) /\ Matches(hd, s) /\ Finds(file, Names, hd, s.log)
      /\ keep \in 0..Len(ps) - 1 /\ (keep + 1 < Len(ps) => from < ps[keep + 1].end)
      /\ ps[Len(ps)].first <= hd.end /\ from \in hd.first..hd.end - 1
      /\ ps = hd.parts /\ n = EntriesUpTo(hd.dir, keep) /\ t = TruncatedLog(s, from)
  BY DEF Truncates
<1>3. /\ Chain(ps, hd.first) /\ Rising(ps) /\ first \in Nat \ {0} /\ from \in Nat \ {0}
      /\ hd.end \in Nat /\ hd.first \in Nat
  BY <1>1 DEF TruncatesTo
<1>4. CutsPart(ps, hd.first, hd.dir, hd.end, keep, n, from)
  <2>1. Linked(hd.dir, hd.first, hd.end)
    BY <1>2 DEF Finds
  <2>2. \A i \in 1..Len(hd.dir) : Within(ps, hd.dir[i])
    BY <1>2 DEF IsHandle, InRange
  <2>3. from <= hd.end
    BY <1>2, <1>3
  <2> QED BY <1>2, <1>3, <2>1, <2>2, <2>3 DEF CutsPart
<1>5. Follow(cs, first, from, s.log)
  <2> DEFINE a == hd.first
             b == hd.end
             dir == hd.dir
             log == s.log
             x == Copies(hd, keep + 1, from)
  <2>1. /\ Finds(file, Names, hd, log) /\ ps = hd.parts /\ dir = hd.dir
        /\ CutsPart(ps, a, dir, b, keep, n, from)
    BY <1>2, <1>4
  <2> HIDE DEF a, b, dir, log
  <2>2. Follow(Copies(hd, keep + 1, from), ps[keep + 1].first, from, log)
    BY ONLY <2>1, CopiesAre
  <2> QED BY <2>2 DEF log
<1>6. \A i \in first..from - 1 : t.log[i] = s.log[i]
  <2>1. from \in s.first..Len(s.log)
    BY <1>2, <1>3 DEF Matches, IsLog
  <2>2. IsLog(s) /\ t = TruncatedLog(s, from)
    BY <1>2
  <2>3. /\ IsLog(t) /\ IsSettled(t) /\ StableLog(t) = t
        /\ t.first = s.first /\ t.stable = from /\ t.rev = s.rev + 1
        /\ Len(t.log) = from - 1 /\ \A i \in 1..from - 1 : t.log[i] = s.log[i]
    BY ONLY <2>1, <2>2, TruncatedLogIs
  <2> QED BY <1>3, <2>3
<1>7. Follow(cs, first, from, t.log)
  <2> DEFINE log == s.log
             new == t.log
  <2>1. Follow(cs, first, from, log) /\ \A i \in first..from - 1 : new[i] = log[i]
    BY <1>5, <1>6
  <2> HIDE DEF log, new
  <2>2. Follow(cs, first, from, new)
    BY ONLY <2>1, FollowLog
  <2> QED BY <2>2 DEF new
<1> QED BY <1>7 DEF Follow

\* A truncation inside a part first copies what it keeps of the part.
LEMMA CopyMade ==
    ASSUME NEW v, NEW from, NEW keep, NEW ps, NEW n, NEW t, NEW u,
           TruncateAsked(v, from, keep, ps, n, t, u), v.file = file, Top(v) = Names,
           NEW first, first = ps[keep + 1].first, first < from,
           NEW i, i = v.h.next, NEW rev, rev = v.h.rev + 1,
           NEW cs, cs = Copies(v.h, keep + 1, from)
    PROVE  \E w : /\ Builds(u, CopyPlan(v.h, keep + 1, from, rev), Part(i), w)
                  /\ CopyHeld(w.file, i, first, from, cs, t.log) /\ i \in Top(w).part
<1> DEFINE f == Part(i)
           hd == v.h
           s == v.cur
           log == t.log
           q == CopyWrites(hd, keep + 1, from, cs, f)
           hs == [k \in 1..Len(cs) |-> WithCopy(hd, keep + 1, from, cs, k)]
<1>1. Truncates(v.file, Top(v), hd, s, from, keep, ps, n, t)
  BY TruncateAskedIs
<1>2. Truncates(file, Names, hd, s, from, keep, ps, n, t)
  BY <1>1
<1>3. /\ Steady(u) /\ u.mode = "open" /\ u.next # {} /\ i \in Nat
  <2>1. Steady(u) /\ u.mode = "open" /\ u.next = {t} /\ i \in Nat
    BY TruncateStarts
  <2> QED BY <2>1
<1>4. IsHandle(hd) /\ IsLog(s) /\ Matches(hd, s) /\ ps = hd.parts
  BY <1>2 DEF Truncates
<1>5. Free(u.file, u.dirs, f)
  <2>1. KeepsAll(u, u) /\ v.h.next <= i
    BY <1>3, KeepsSelf
  <2> QED BY <2>1, <1>3, TruncateFree
<1>6. Follow(cs, first, from, log) /\ IsSeq(cs)
  BY <1>2, CopyFollows
<1>7. first \in Nat \ {0} /\ Len(log) \in Nat /\ from <= Len(log) + 1
  <2>1. TruncatesTo(file, hd, s, from, keep, ps, n, t)
    BY <1>2, TruncatesIs
  <2>2. first \in Nat \ {0} /\ UpTo(s, t, hd.first, from) /\ from \in Nat \ {0}
    BY <2>1 DEF TruncatesTo
  <2> QED BY <2>2 DEF UpTo
<1>8. \A k \in 1..Len(cs) : hs[k] = WithCopy(hd, keep + 1, from, cs, k)
  OBVIOUS
<1>9. \A k \in 1..Len(cs) : Typed(hs[k])
  BY <1>4, <1>8, CopyTyped
<1>10. q = [k \in 1..Len(cs) |-> <<WriteCall(f, cs[k]), Set(hs[k])>>]
  BY <1>8 DEF CopyWrites
<1>11. f = Part(i)
  OBVIOUS
<1>12. CopyPlan(hd, keep + 1, from, rev)
         = (PartCreate(i, first, rev) \o FlattenSeq(q)) \o CopyEnd(i, first, from, rev)
  <2>1. first = hd.parts[keep + 1].first /\ i = hd.next /\ cs = Copies(hd, keep + 1, from)
    BY <1>4
  <2> DEFINE b == keep + 1
  <2>2. first = hd.parts[b].first /\ i = hd.next /\ cs = Copies(hd, b, from)
    BY <2>1
  <2>3. q = CopyWrites(hd, b, from, cs, Part(i))
    OBVIOUS
  <2> HIDE DEF hd, q, f, b
  <2>4. CopyPlan(hd, b, from, rev)
          = CopyJoined(hd.next, hd.parts[b].first, from, rev,
                       CopyWrites(hd, b, from, Copies(hd, b, from), Part(hd.next)))
    BY ONLY CopyPlanIs
  <2>5. CopyPlan(hd, b, from, rev) = CopyJoined(i, first, from, rev, q)
    BY ONLY <2>2, <2>3, <2>4
  <2> QED BY <2>5 DEF CopyJoined, b
<1> HIDE DEF f, hs, log, q
<1>13. \E w : /\ Builds(u, (PartCreate(i, first, rev) \o FlattenSeq(q))
                            \o CopyEnd(i, first, from, rev), f, w)
              /\ CopyHeld(w.file, i, first, from, cs, log) /\ i \in Top(w).part
  <2>1. first < from
    OBVIOUS
  <2> QED BY ONLY <2>1, <1>3, <1>5, <1>6, <1>7, <1>9, <1>10, <1>11, CopyVia
<1> QED BY <1>12, <1>13 DEF f, log

\* A building that goes on behind another one.
LEMMA BuildsOn ==
    ASSUME NEW v, NEW p, NEW f, NEW w, Builds(v, p, f, w), NEW q, NEW g, NEW x, Builds(w, q, g, x)
    PROVE  /\ Via(v, p \o q, x) /\ KeepsAll(v, x) /\ Steady(x)
           /\ x.mode = "open" /\ x.cur = v.cur /\ x.next = v.next
<1>1. Via(v, p, w) /\ Via(w, q, x)
  BY DEF Builds
<1>2. Via(v, p \o q, x)
  BY <1>1, ViaThen
<1>3. KeepsAll(v, w) /\ KeepsAll(w, x)
  BY DEF Builds
<1>4. KeepsAll(v, x)
  BY <1>3 DEF KeepsAll
<1> QED BY <1>2, <1>4 DEF Builds

\* The copy and the new active part.
LEMMA CopyFiles ==
    ASSUME NEW G, NEW e, NEW i \in Nat, NEW first, NEW from, NEW cs, NEW t,
           CopyHeld(G, i, first, from, cs, t.log), i \in e.part, i + 1 \in e.part,
           Part(i + 1) \in DOMAIN G, NEW c, c = Fresh(i + 1, t.rev, from),
           G[Part(i + 1)].live = c, G[Part(i + 1)].hard = c,
           NEW A, A = Desc(i, first, from), NEW C, C = Desc(i + 1, from, from), NEW q, q = <<A, C>>
    PROVE  TailFiles(G, e, q, from, t)
<1>0. /\ i \in e.part /\ i + 1 \in e.part /\ Part(i + 1) \in DOMAIN G
      /\ G[Part(i + 1)].live = Fresh(i + 1, t.rev, from)
      /\ G[Part(i + 1)].hard = Fresh(i + 1, t.rev, from)
  OBVIOUS
<1>1. Len(q) = 2 /\ q[1] = A /\ q[2] = C /\ q[1].id = i /\ q[2].id = i + 1
  BY DEF Desc
<1>2. /\ Part(i) \in DOMAIN G /\ G[Part(i)].live = G[Part(i)].hard
      /\ GoodSealed(A, G[Part(i)].live, t.log)
  BY DEF CopyHeld, CopyOfAll
<1>3. \A j \in 1..Len(q) : q[j].id \in e.part /\ Part(q[j].id) \in DOMAIN G
  <2>1. \A j \in 1..2 : j = 1 \/ j = 2
    OBVIOUS
  <2> QED BY ONLY <1>0, <1>1, <1>2, <2>1
<1>4. /\ G[Part(q[Len(q)].id)].live = Fresh(q[Len(q)].id, t.rev, from)
      /\ G[Part(q[Len(q)].id)].hard = Fresh(q[Len(q)].id, t.rev, from)
  BY ONLY <1>0, <1>1
<1>5. GoodSealed(q[1], G[Part(q[1].id)].live, t.log) /\ G[Part(q[1].id)].live = G[Part(q[1].id)].hard
  BY ONLY <1>1, <1>2
<1> QED BY ONLY <1>3, <1>4, <1>5 DEF TailFiles

\* The entries of the copy.
LEMMA CopyTail ==
    ASSUME NEW G, NEW i, NEW first, NEW from, NEW cs, NEW log,
           Follow(cs, first, from, log), CopyHeld(G, i, first, from, cs, log),
           NEW A, A = Desc(i, first, from), NEW C, NEW q, q = <<A, C>>,
           NEW keep, NEW E, E = CopyDir(cs, Len(cs), keep + 1)
    PROVE  DirTail(G, q, keep, E, from, log)
<1> DEFINE c == G[Part(i)].live
           p == keep + 1
<1>1. CopyOfAll(c, i, first, from, cs, log) /\ E = CopyDir(cs, Len(cs), p)
  BY DEF CopyHeld
<1>2. Follow(cs, first, from, log)
  OBVIOUS
<1>3. Len(q) = 2 /\ q[1].id = i /\ q[1].first = first
  BY DEF Desc
<1> HIDE DEF c, p
<1>4. /\ Linked(E, first, from)
      /\ \A k \in 1..Len(E) : E[k].part = p /\ Locates(c, E[k], log)
  BY ONLY <1>1, <1>2, CopyLocates
<1> QED BY ONLY <1>3, <1>4 DEF DirTail, c, p

\* A truncation inside a part makes a copy of it and a new active part.
LEMMA CopyBuilt ==
    ASSUME NEW v, NEW from, NEW keep, NEW ps, NEW n, NEW t, NEW u,
           TruncateAsked(v, from, keep, ps, n, t, u), v.file = file, Top(v) = Names,
           NEW first, first = ps[keep + 1].first, first < from,
           NEW i, i = v.h.next, NEW rev, rev = v.h.rev + 1,
           NEW cs, cs = Copies(v.h, keep + 1, from), NEW E, E = CopyDir(cs, Len(cs), keep + 1),
           NEW A, A = Desc(i, first, from), NEW C, C = Desc(i + 1, from, from), NEW q, q = <<A, C>>
    PROVE  \E x : /\ Via(u, CopyPlan(v.h, keep + 1, from, rev) \o PartCreate(i + 1, from, rev), x)
                  /\ TruncateBuilt(v, from, keep, ps, n, t, u, x, q, E, i + 2)
<1> DEFINE F == v.file
           d == Top(v)
           hd == v.h
           s == v.cur
           f == Part(i)
           g == Part(i + 1)
           a == PartCreate(i + 1, from, rev)
           b == CopyPlan(v.h, keep + 1, from, rev)
<1>1. Truncates(F, d, hd, s, from, keep, ps, n, t)
  BY TruncateAskedIs
<1>2. /\ Steady(u) /\ u.mode = "open" /\ u.cur = v.cur /\ u.next = {t} /\ u.file = F
      /\ Top(u) = d /\ i \in Nat
  BY TruncateStarts
<1>3. t.rev = rev /\ from \in Nat \ {0}
  <2>1. TruncatesTo(F, hd, s, from, keep, ps, n, t)
    BY <1>1, TruncatesIs
  <2> QED BY <2>1 DEF TruncatesTo
<1>4. PICK w : Builds(u, b, f, w) /\ CopyHeld(w.file, i, first, from, cs, t.log) /\ i \in Top(w).part
  BY CopyMade
<1>5. Steady(w) /\ KeepsAll(u, w) /\ w.mode = "open" /\ w.next = {t} /\ w.next # {}
  <2>1. w.next = u.next
    BY <1>4 DEF Builds
  <2> QED BY <1>2, <1>4, <2>1 DEF Builds
<1>6. Free(w.file, w.dirs, g)
  <2>1. v.h.next <= i + 1 /\ i + 1 \in Nat
    BY <1>2
  <2> QED BY <2>1, <1>5, TruncateFree
<1>7. PICK x : /\ Builds(w, a, g, x) /\ g \in DOMAIN x.file
               /\ x.file[g].live = Fresh(i + 1, rev, from)
               /\ x.file[g].hard = Fresh(i + 1, rev, from) /\ i + 1 \in Top(x).part
  <2>1. i + 1 \in Nat
    BY <1>2
  <2> QED BY <2>1, <1>5, <1>6, PartBuilds
<1>8. /\ Via(u, b \o a, x) /\ KeepsAll(u, x) /\ Steady(x)
      /\ x.mode = "open" /\ x.cur = u.cur /\ x.next = u.next
  <2> HIDE DEF b, f, a, g
  <2> QED BY ONLY <1>4, <1>7, BuildsOn
<1>9. Beyond(w.file, x.file, Top(w), Top(x), i + 1)
  <2>1. i + 1 \in Nat /\ i + 1 <= i + 1
    BY <1>2
  <2> QED BY <2>1, <1>7, BuildsBeyond
<1>10. Beyond(F, x.file, d, Top(x), i)
  <2>1. Beyond(u.file, w.file, Top(u), Top(w), i)
    BY <1>2, <1>4, BuildsBeyond
  <2>2. Beyond(F, w.file, d, Top(w), i)
    BY <2>1, <1>2
  <2>3. Beyond(w.file, x.file, Top(w), Top(x), i)
    <3> DEFINE P == w.file
               Q == x.file
               o == Top(w)
               r == Top(x)
    <3>1. Beyond(P, Q, o, r, i + 1)
      BY <1>9
    <3> HIDE DEF P, Q, o, r
    <3>2. \A k \in Nat : i + 1 <= k => i <= k
      BY <1>2
    <3>3. Beyond(P, Q, o, r, i)
      BY ONLY <3>1, <3>2 DEF Beyond
    <3> QED BY <3>3 DEF P, Q, o, r
  <2> QED BY <2>2, <2>3, BeyondBeyond
<1>11. CopyHeld(x.file, i, first, from, cs, t.log) /\ i \in Top(x).part
  <2>1. f \in DOMAIN w.file
    BY <1>4 DEF CopyHeld
  <2>2. \A k \in Nat : i + 1 <= k => f # Part(k)
    BY <1>2 DEF Part
  <2>3. f \in DOMAIN x.file /\ x.file[f] = w.file[f] /\ i \in Top(x).part
    BY <2>1, <2>2, <1>4, <1>9 DEF Beyond
  <2> QED BY <2>3, <1>4 DEF CopyHeld
<1>12. TailFrom(ps, hd.first, keep, first, from, i)
  BY <1>1, TruncatesTail
<1>13. TailOf(ps, hd.first, keep, q, from) /\ \A j \in 1..Len(q) : q[j].id < i + 2
  <2> DEFINE o == hd.first
  <2>1. /\ TailFrom(ps, o, keep, first, from, i)
        /\ A = Desc(i, first, from) /\ C = Desc(i + 1, from, from) /\ q = <<A, C>>
    BY <1>12
  <2> HIDE DEF o
  <2>2. TailOf(ps, o, keep, q, from) /\ \A j \in 1..Len(q) : q[j].id < i + 2
    BY ONLY <2>1, TailTwoIs
  <2> QED BY <2>2 DEF o
<1>14. TailFiles(x.file, Top(x), q, from, t)
  <2> DEFINE G == x.file
             e == Top(x)
             c == Fresh(i + 1, t.rev, from)
  <2>1. /\ i \in Nat /\ CopyHeld(G, i, first, from, cs, t.log) /\ i \in e.part /\ i + 1 \in e.part
        /\ Part(i + 1) \in DOMAIN G /\ c = Fresh(i + 1, t.rev, from)
        /\ G[Part(i + 1)].live = c /\ G[Part(i + 1)].hard = c
        /\ A = Desc(i, first, from) /\ C = Desc(i + 1, from, from) /\ q = <<A, C>>
    BY <1>2, <1>3, <1>7, <1>11
  <2> HIDE DEF G, e, c
  <2>2. TailFiles(G, e, q, from, t)
    BY ONLY <2>1, CopyFiles
  <2> QED BY <2>2 DEF G, e
<1>15. DirTail(x.file, q, keep, E, from, t.log)
  <2> DEFINE G == x.file
             log == t.log
  <2>1. Follow(cs, first, from, log)
    <3>1. Truncates(file, Names, hd, s, from, keep, ps, n, t)
      BY <1>1
    <3> QED BY <3>1, CopyFollows
  <2>2. /\ CopyHeld(G, i, first, from, cs, log) /\ E = CopyDir(cs, Len(cs), keep + 1)
        /\ A = Desc(i, first, from) /\ q = <<A, C>>
    BY <1>11
  <2> HIDE DEF G, log
  <2>3. DirTail(G, q, keep, E, from, log)
    BY ONLY <2>1, <2>2, CopyTail
  <2> QED BY <2>3 DEF G, log
<1>16. Rewritten(F, x.file, Top(x), hd, from, keep, ps, t, q, E)
  <2> DEFINE G == x.file
             e == Top(x)
  <2>1. /\ Truncates(F, d, hd, s, from, keep, ps, n, t)
        /\ TailFrom(ps, hd.first, keep, first, from, i) /\ Beyond(F, G, d, e, i)
        /\ TailOf(ps, hd.first, keep, q, from) /\ TailFiles(G, e, q, from, t)
        /\ DirTail(G, q, keep, E, from, t.log)
    BY <1>1, <1>10, <1>12, <1>13, <1>14, <1>15
  <2> HIDE DEF G, e, F, d, hd, s
  <2>2. Rewritten(F, G, e, hd, from, keep, ps, t, q, E)
    BY ONLY <2>1, BeyondRewrites
  <2> QED BY <2>2 DEF G, e
<1>17. i + 2 \in Nat /\ v.h.next <= i + 2
  BY <1>2
<1>18. x.cur = v.cur /\ x.next = {t}
  BY <1>2, <1>8
<1> HIDE DEF F, hd, b, a
<1>19. TruncateBuilt(v, from, keep, ps, n, t, u, x, q, E, i + 2)
  BY <1>8, <1>13, <1>16, <1>17, <1>18 DEF TruncateBuilt, F, hd
<1> QED BY <1>8, <1>19 DEF b, a

\* The handles of a truncation: with the new parts behind the old ones and the
\* directory of the kept ones, and the one that is returned.
WithCopied(hd, keep, from, cs) ==
    MoveDir(WithActive(WithCopy(hd, keep + 1, from, cs, Len(cs)), from), keep, Len(hd.dir))

\* The handle after the parts beyond keep were replaced by an empty one.
WithEmptied(hd, keep, from) == DropDir(WithActive(hd, from), keep)

\* A handle that is rebuilt with parts P and returned.
Reshapes(hd, s, nx, p, x, l, ds, keep, m, P, from, h3, h4, h5) ==
    /\ IsHandle(hd) /\ IsLog(s) /\ Matches(hd, s) /\ x \in 1..Len(p)
    /\ h3 = Remade(hd, nx, p, x, l, ds) /\ RebuiltTo(p, keep, m) = P /\ Len(P) = keep + m
    /\ h4 = RebuildParts(h3, keep, m) /\ h5 = ReturnedAs(h4, hd.rev + 1, from)

\* The handles between the steps of a truncation.
Reshaped(hd, nx, P, ds, from, h3, h4, h5) ==
    /\ Typed(h3) /\ h4 = Remade(hd, nx, P, Len(P), 2, ds)
    /\ h5 = TruncatedAs(hd, hd.gen + 1, from, nx, P, ds)

\* Each intermediate handle is well formed, and the last is the truncated one.
LEMMA ReshapedAs ==
    ASSUME NEW hd, NEW s, NEW nx, NEW p, NEW x, NEW l, NEW ds, NEW keep, NEW m, NEW P,
           NEW from, NEW h3, NEW h4, NEW h5,
           Reshapes(hd, s, nx, p, x, l, ds, keep, m, P, from, h3, h4, h5)
    PROVE  Reshaped(hd, nx, P, ds, from, h3, h4, h5)
<1> DEFINE rev == hd.rev + 1
<1>0. /\ IsHandle(hd) /\ IsLog(s) /\ Matches(hd, s) /\ x \in 1..Len(p)
      /\ h3 = Remade(hd, nx, p, x, l, ds) /\ RebuiltTo(p, keep, m) = P /\ Len(P) = keep + m
      /\ h4 = RebuildParts(h3, keep, m) /\ h5 = ReturnedAs(h4, rev, from)
  BY DEF Reshapes
<1>1. Typed(h3)
  BY <1>0, RemadeTyped
<1>2. h4 = Remade(hd, nx, RebuiltTo(p, keep, m), keep + m, 2, ds)
  BY <1>0, RebuildPartsIs
<1> DEFINE z == Len(P)
<1>3. RebuiltTo(p, keep, m) = P /\ keep + m = z
  BY <1>0
<1> HIDE DEF z, rev
<1>4. h4 = Remade(hd, nx, P, z, 2, ds)
  BY ONLY <1>2, <1>3
<1>5. h4 = Remade(hd, nx, P, Len(P), 2, ds)
  BY <1>4 DEF z
<1>6. ReturnedAs(h4, hd.rev + 1, from) = TruncatedAs(hd, hd.gen + 1, from, nx, P, ds)
  BY ONLY <1>5, ReturnedIs
<1>7. h5 = TruncatedAs(hd, hd.gen + 1, from, nx, P, ds)
  BY <1>0, <1>6 DEF rev
<1> QED BY <1>1, <1>4, <1>7 DEF z, Reshaped

\* Without a copy.
LEMMA ReshapedAlone ==
    ASSUME NEW hd, IsHandle(hd), IsSeq(hd.dir), NEW s, IsLog(s), Matches(hd, s),
           NEW ps, ps = hd.parts, NEW keep \in 0..Len(ps), NEW from, NEW i, i = hd.next,
           NEW A, A = Desc(i, from, from), NEW q, q = <<A>>,
           NEW P, P = Cat(SubSeq(ps, 1, keep), q), Len(P) = keep + 1,
           NEW D, D = Cat(SubSeq(hd.dir, 1, EntriesUpTo(hd.dir, keep)), << >>),
           NEW h3, h3 = WithEmptied(hd, keep, from), NEW h4, h4 = RebuildParts(h3, keep, 1),
           NEW h5, h5 = ReturnedAs(h4, hd.rev + 1, from)
    PROVE  Reshaped(hd, i + 1, P, D, from, h3, h4, h5)
<1> DEFINE x == hd.active
           l == hd.len
           dir == hd.dir
           p == Append(ps, A)
           ds == SubSeq(dir, 1, EntriesUpTo(dir, keep))
<1>1. hd = Remade(hd, i, ps, x, l, dir) /\ IsSeq(ps) /\ x \in 1..Len(ps)
  BY HandleIs DEF Remade
<1>2. x \in 1..Len(p)
  <2> HIDE DEF x
  <2> QED BY ONLY <1>1 DEF IsSeq
<1>3. WithActive(hd, from) = Remade(hd, i + 1, p, x, l, dir)
  <2> DEFINE B == Desc(i, from, from)
             r == Append(ps, B)
  <2> HIDE DEF x, l, dir
  <2>1. WithActive(hd, from) = Remade(hd, i + 1, r, x, l, dir)
    BY ONLY <1>1, WithActiveIs
  <2>2. p = r
    OBVIOUS
  <2> QED BY <2>1, <2>2
<1>4. h3 = Remade(hd, i + 1, p, x, l, ds)
  <2> DEFINE y == WithActive(hd, from)
             j == i + 1
  <2>1. y = Remade(hd, j, p, x, l, dir)
    BY <1>3
  <2>2. h3 = DropDir(y, keep)
    BY DEF WithEmptied
  <2> HIDE DEF y, j, p, x, l, dir
  <2>3. DropDir(y, keep) = Remade(hd, j, p, x, l, SubSeq(dir, 1, EntriesUpTo(dir, keep)))
    BY ONLY <2>1, DropDirIs
  <2> QED BY <2>2, <2>3 DEF j
<1>5. IsSeq(ds)
  <2>1. IsSeq(dir)
    OBVIOUS
  <2>2. EntriesUpTo(dir, keep) \in 0..Len(dir)
    <3> DEFINE n == EntriesUpTo(dir, keep)
    <3>1. IsSeq(dir) /\ n = EntriesUpTo(dir, keep)
      BY <2>1
    <3> HIDE DEF dir, n
    <3>2. n \in 0..Len(dir)
      BY ONLY <3>1, EntriesUpToIs
    <3> QED BY <3>2 DEF n
  <2> DEFINE n == EntriesUpTo(dir, keep)
  <2> HIDE DEF dir, n
  <2>3. IsSeq(SubSeq(dir, 1, n))
    BY ONLY <2>1, <2>2, SeqPrefix DEF n
  <2> QED BY <2>3 DEF n
<1>6. D = ds
  <2>1. ds \o << >> = ds
    BY <1>5, CatNone
  <2> QED BY <2>1 DEF Cat
<1>7. RebuiltTo(p, keep, 1) = P
  <2>1. /\ IsSeq(ps) /\ keep \in 0..Len(ps) /\ p = Append(ps, A)
        /\ P = Cat(SubSeq(ps, 1, keep), q) /\ q = <<A>>
    BY <1>1
  <2> HIDE DEF p
  <2>2. RebuiltTo(p, keep, 1) = Cat(SubSeq(ps, 1, keep), <<A>>)
    BY ONLY <2>1, RebuiltIs
  <2> QED BY ONLY <2>1, <2>2
<1> DEFINE nx == i + 1
<1>8. h3 = Remade(hd, nx, p, x, l, ds)
  BY <1>4
<1>9. /\ IsHandle(hd) /\ IsLog(s) /\ Matches(hd, s) /\ Len(P) = keep + 1
      /\ h4 = RebuildParts(h3, keep, 1) /\ h5 = ReturnedAs(h4, hd.rev + 1, from)
  OBVIOUS
<1> HIDE DEF nx, p, x, l, ds
<1>10. Reshapes(hd, s, nx, p, x, l, ds, keep, 1, P, from, h3, h4, h5)
  BY ONLY <1>2, <1>7, <1>8, <1>9 DEF Reshapes
<1>11. Reshaped(hd, nx, P, ds, from, h3, h4, h5)
  BY ONLY <1>10, ReshapedAs
<1> QED BY ONLY <1>6, <1>11 DEF nx

\* With a copy.
ReshapesCopy(hd, s, ps, keep, from, i, first, cs, A, C, q, P, E, D, h3, h4, h5) ==
    /\ IsHandle(hd) /\ IsSeq(hd.dir) /\ IsLog(s) /\ Matches(hd, s)
    /\ ps = hd.parts /\ keep \in 0..Len(ps) - 1 /\ i = hd.next /\ i \in Nat
    /\ first = ps[keep + 1].first /\ IsSeq(cs)
    /\ A = Desc(i, first, from) /\ C = Desc(i + 1, from, from) /\ q = <<A, C>>
    /\ P = Cat(SubSeq(ps, 1, keep), q) /\ Len(P) = keep + 2
    /\ E = CopyDir(cs, Len(cs), keep + 1)
    /\ D = Cat(SubSeq(hd.dir, 1, EntriesUpTo(hd.dir, keep)), E)
    /\ h3 = WithCopied(hd, keep, from, cs) /\ h4 = RebuildParts(h3, keep, 2)
    /\ h5 = ReturnedAs(h4, hd.rev + 1, from)

\* The same for a truncation that copies the boundary part.
LEMMA ReshapedCopy ==
    ASSUME NEW hd, NEW s, NEW ps, NEW keep, NEW from, NEW i, NEW first, NEW cs, NEW A, NEW C,
           NEW q, NEW P, NEW E, NEW D, NEW h3, NEW h4, NEW h5,
           ReshapesCopy(hd, s, ps, keep, from, i, first, cs, A, C, q, P, E, D, h3, h4, h5)
    PROVE  Reshaped(hd, i + 2, P, D, from, h3, h4, h5)
<1> SUFFICES ASSUME IsHandle(hd), IsSeq(hd.dir), IsLog(s), Matches(hd, s),
                    ps = hd.parts, keep \in 0..Len(ps) - 1, i = hd.next, i \in Nat,
                    first = ps[keep + 1].first, IsSeq(cs),
                    A = Desc(i, first, from), C = Desc(i + 1, from, from), q = <<A, C>>,
                    P = Cat(SubSeq(ps, 1, keep), q), Len(P) = keep + 2,
                    E = CopyDir(cs, Len(cs), keep + 1),
                    D = Cat(SubSeq(hd.dir, 1, EntriesUpTo(hd.dir, keep)), E),
                    h3 = WithCopied(hd, keep, from, cs), h4 = RebuildParts(h3, keep, 2),
                    h5 = ReturnedAs(h4, hd.rev + 1, from)
             PROVE  Reshaped(hd, i + 2, P, D, from, h3, h4, h5)
  BY DEF ReshapesCopy
<1> DEFINE x == hd.active
           l == hd.len
           dir == hd.dir
           m == Len(cs)
           z == Len(ps) + 1
           p == Append(ps, A)
           r == Append(p, C)
           d1 == Cat(dir, CopyDir(cs, m, z))
           y == WithCopy(hd, keep + 1, from, cs, m)
           w == WithActive(y, from)
           nx == i + 2
<1>1. IsSeq(ps) /\ x \in 1..Len(ps) /\ Len(ps) \in Nat /\ keep \in Nat /\ m \in Nat
  BY HandleIs DEF IsSeq
<1>2. y = Remade(hd, i + 1, p, x, l, d1)
  BY CopyHandleIs DEF Cat
<1>3. x \in 1..Len(r)
  <2> HIDE DEF x
  <2> QED BY ONLY <1>1 DEF IsSeq
<1>4. w = Remade(hd, nx, r, x, l, d1)
  <2> DEFINE j == i + 1
             B == Desc(j, from, from)
             v == Append(p, B)
  <2>1. y = Remade(hd, j, p, x, l, d1)
    BY <1>2
  <2> HIDE DEF x, l, d1, y, p, j
  <2>2. WithActive(y, from) = Remade(hd, j + 1, v, x, l, d1)
    BY ONLY <2>1, WithActiveIs
  <2>3. v = r
    BY DEF j
  <2>4. j + 1 = nx
    BY DEF j
  <2> QED BY <2>2, <2>3, <2>4
<1>5. h3 = Remade(hd, nx, r, x, l, MovedTo(d1, keep, Len(dir)))
  <2>1. h3 = MoveDir(w, keep, Len(dir))
    BY DEF WithCopied
  <2> HIDE DEF nx, r, x, l, d1, w, dir
  <2>2. MoveDir(w, keep, Len(dir)) = Remade(hd, nx, r, x, l, MovedTo(d1, keep, Len(dir)))
    BY ONLY <1>4, MoveDirIs
  <2> QED BY <2>1, <2>2
<1>6. MovedTo(d1, keep, Len(dir)) = D
  <2>1. /\ IsSeq(dir) /\ m \in Nat /\ z \in Nat /\ keep \in Nat /\ keep < z
        /\ d1 = Cat(dir, CopyDir(cs, m, z))
    BY <1>1
  <2>2. D = Cat(SubSeq(dir, 1, EntriesUpTo(dir, keep)), CopyDir(cs, m, keep + 1))
    OBVIOUS
  <2> DEFINE n == Len(dir)
  <2>3. MovesAs(dir, cs, m, z, keep, n, d1, D)
    BY <2>1, <2>2 DEF MovesAs
  <2> HIDE DEF dir, m, z, d1, n
  <2>4. MovedTo(d1, keep, n) = D
    BY ONLY <2>3, MovedToAs
  <2> QED BY <2>4 DEF n
<1>7. RebuiltTo(r, keep, 2) = P
  <2>1. /\ IsSeq(ps) /\ keep \in 0..Len(ps) /\ p = Append(ps, A) /\ r = Append(p, C)
        /\ P = Cat(SubSeq(ps, 1, keep), q) /\ q = <<A, C>>
    BY <1>1
  <2> HIDE DEF p, r
  <2>2. RebuildsAs(ps, keep, A, C, p, r, P)
    BY ONLY <2>1 DEF RebuildsAs
  <2> QED BY ONLY <2>2, RebuiltAs
<1>8. h3 = Remade(hd, nx, r, x, l, D)
  BY <1>5, <1>6
<1>9. /\ IsHandle(hd) /\ IsLog(s) /\ Matches(hd, s) /\ Len(P) = keep + 2
      /\ h4 = RebuildParts(h3, keep, 2) /\ h5 = ReturnedAs(h4, hd.rev + 1, from)
  OBVIOUS
<1> HIDE DEF nx, r, x, l
<1>11. Reshapes(hd, s, nx, r, x, l, D, keep, 2, P, from, h3, h4, h5)
  BY ONLY <1>3, <1>7, <1>8, <1>9 DEF Reshapes
<1>12. Reshaped(hd, nx, P, D, from, h3, h4, h5)
  BY ONLY <1>11, ReshapedAs
<1> QED BY <1>12 DEF nx

\* The calls of a truncation that begins with c.
TruncateCalls(c, h3, h4, rev, h5, t, o) ==
    (((c \o Reset(h3, h4)) \o PublishPlan(h4, rev)) \o <<Return(h5, t)>>) \o UnlinkPlan(o)

\* The plan of a truncation at a part boundary.
AloneCalls(hd, s, from, keep, i, rev) ==
    LET h3 == WithEmptied(hd, keep, from)
        h4 == RebuildParts(h3, keep, 1)
    IN TruncateCalls(<< >> \o PartCreate(i, from, rev), h3, h4, rev, ReturnedAs(h4, rev, from),
                     TruncatedLog(s, from), LeftBehind(hd.parts, keep))

\* The plan of a truncation inside a part.
CopyCalls(hd, s, from, keep, i, rev) ==
    LET h3 == WithCopied(hd, keep, from, Copies(hd, keep + 1, from))
        h4 == RebuildParts(h3, keep, 2)
    IN TruncateCalls(CopyPlan(hd, keep + 1, from, rev) \o PartCreate(i, from, rev), h3, h4, rev,
                     ReturnedAs(h4, rev, from), TruncatedLog(s, from), LeftBehind(hd.parts, keep))

\* A truncation at the beginning of a part.
LEMMA AlonePlanIs ==
    ASSUME NEW hd, NEW s, NEW from, NEW keep, keep = PartsUpTo(hd, from),
           ~(from > hd.parts[keep + 1].first)
    PROVE  TruncatePlan(hd, s, from) = AloneCalls(hd, s, from, keep, hd.next, hd.rev + 1)
BY DEF TruncatePlan, AloneCalls, TruncateCalls, Reset, WithEmptied, ReturnedAs, LeftBehind

\* A truncation inside a part.
LEMMA CopyCallsAre ==
    ASSUME NEW hd, NEW s, NEW from, NEW keep, keep = PartsUpTo(hd, from),
           from > hd.parts[keep + 1].first, NEW i,
           i = WithCopy(hd, keep + 1, from, Copies(hd, keep + 1, from),
                        Len(Copies(hd, keep + 1, from))).next
    PROVE  TruncatePlan(hd, s, from) = CopyCalls(hd, s, from, keep, i, hd.rev + 1)
BY DEF TruncatePlan, CopyCalls, TruncateCalls, Reset, WithCopied, ReturnedAs, LeftBehind

\* Once the new parts are there, the rest of a truncation is sound.
LEMMA TruncateEnds ==
    ASSUME NEW v, NEW from, NEW keep, NEW ps, NEW n, NEW t, NEW u, NEW x, NEW q, NEW E, NEW nx,
           TruncateBuilt(v, from, keep, ps, n, t, u, x, q, E, nx),
           NEW P, P = Cat(SubSeq(ps, 1, keep), q), NEW D, D = Cat(SubSeq(v.h.dir, 1, n), E),
           NEW h3, NEW h4, NEW h5, Reshaped(v.h, nx, P, D, from, h3, h4, h5),
           NEW p, Via(u, p, x), NEW rev, rev = v.h.rev + 1, NEW o, o = LeftBehind(ps, keep)
    PROVE  Sound(u, TruncateCalls(p, h3, h4, rev, h5, t, o))
<1> DEFINE c == Reset(h3, h4)
           m == PublishPlan(h4, v.h.rev + 1)
           k == <<Return(h5, t)>>
           l == UnlinkPlan(LeftBehind(ps, keep))
           b == Len(P)
           g == v.h.gen + 1
<1>1. /\ Typed(h3) /\ h4 = Remade(v.h, nx, P, Len(P), 2, D)
      /\ h5 = TruncatedAs(v.h, g, from, nx, P, D)
  BY DEF Reshaped
<1>2. /\ TruncateBuilt(v, from, keep, ps, n, t, u, x, q, E, nx) /\ Via(u, p, x)
      /\ P = Cat(SubSeq(ps, 1, keep), q) /\ D = Cat(SubSeq(v.h.dir, 1, n), E)
      /\ c = Reset(h3, h4) /\ m = PublishPlan(h4, v.h.rev + 1) /\ k = <<Return(h5, t)>>
      /\ l = UnlinkPlan(LeftBehind(ps, keep))
  OBVIOUS
<1>3. Sound(u, (((p \o c) \o m) \o k) \o l)
  <2> HIDE DEF c, m, k, l
  <2> QED BY ONLY <1>1, <1>2, TruncateFinishes DEF g
<1> QED BY <1>3 DEF TruncateCalls

\* What a truncation knows of the handle it starts with.
LEMMA TruncateHandle ==
    ASSUME NEW v, NEW from, NEW keep, NEW ps, NEW n, NEW t, NEW u,
           TruncateAsked(v, from, keep, ps, n, t, u)
    PROVE  /\ IsHandle(v.h) /\ IsSeq(v.h.dir) /\ IsLog(v.cur) /\ Matches(v.h, v.cur)
           /\ ps = v.h.parts /\ keep \in 0..Len(ps) - 1 /\ Len(ps) \in Nat
           /\ n = EntriesUpTo(v.h.dir, keep) /\ keep = PartsUpTo(v.h, from)
           /\ t = TruncatedLog(v.cur, from) /\ v.h.next \in Nat
           /\ ps[keep + 1].first \in Nat /\ from \in Nat /\ ps[keep + 1].first <= from
<1> DEFINE F == v.file
           d == Top(v)
           hd == v.h
           s == v.cur
<1>1. Truncates(F, d, hd, s, from, keep, ps, n, t)
  BY TruncateAskedIs
<1>2. TruncatesTo(F, hd, s, from, keep, ps, n, t)
  BY <1>1, TruncatesIs
<1>3. /\ IsHandle(hd) /\ IsLog(s) /\ Matches(hd, s) /\ Finds(F, d, hd, s.log)
      /\ keep \in 0..Len(ps) - 1
      /\ ps = hd.parts /\ n = EntriesUpTo(hd.dir, keep) /\ t = TruncatedLog(s, from)
  BY <1>1 DEF Truncates
<1>4. IsSeq(hd.dir)
  BY <1>3 DEF Finds, Linked, Counts
<1>5. /\ Len(ps) \in Nat /\ hd.next \in Nat /\ from \in Nat
      /\ ps[keep + 1].first \in Nat /\ ps[keep + 1].first <= from
  BY <1>2 DEF TruncatesTo
<1>6. keep = PartsUpTo(v.h, from)
  BY DEF TruncateAsked
<1> HIDE DEF F, d
<1> QED BY <1>3, <1>4, <1>5, <1>6

\* Truncating at a part boundary is sound.
LEMMA TruncateAlone ==
    ASSUME NEW v, NEW from, NEW keep, NEW ps, NEW n, NEW t, NEW u,
           TruncateAsked(v, from, keep, ps, n, t, u), ps[keep + 1].first = from
    PROVE  Sound(u, AloneCalls(v.h, v.cur, from, keep, v.h.next, v.h.rev + 1))
<1>0. SUFFICES ASSUME NEW hd, hd = v.h, NEW s, s = v.cur, NEW i, i = hd.next,
                      NEW rev, rev = v.h.rev + 1, NEW A, A = Desc(i, from, from),
                      NEW q, q = <<A>>, NEW E, E = << >>,
                      NEW P, P = Cat(SubSeq(ps, 1, keep), q),
                      NEW D, D = Cat(SubSeq(hd.dir, 1, EntriesUpTo(hd.dir, keep)), E),
                      NEW h3, h3 = WithEmptied(hd, keep, from),
                      NEW h4, h4 = RebuildParts(h3, keep, 1),
                      NEW h5, h5 = ReturnedAs(h4, rev, from),
                      NEW a, a = PartCreate(i, from, rev), NEW o, o = LeftBehind(ps, keep)
               PROVE  Sound(u, AloneCalls(hd, s, from, keep, i, rev))
  OBVIOUS
<1>q1. hd = v.h /\ s = v.cur /\ i = hd.next /\ i = v.h.next /\ rev = v.h.rev + 1 /\ rev = hd.rev + 1
  BY <1>0
<1>q2. A = Desc(i, from, from) /\ q = <<A>> /\ E = << >> /\ P = Cat(SubSeq(ps, 1, keep), q)
  BY <1>0
<1>q3. /\ D = Cat(SubSeq(hd.dir, 1, EntriesUpTo(hd.dir, keep)), E)
       /\ D = Cat(SubSeq(hd.dir, 1, EntriesUpTo(hd.dir, keep)), << >>)
  BY <1>0
<1>q4. /\ h3 = WithEmptied(hd, keep, from) /\ h4 = RebuildParts(h3, keep, 1)
       /\ h5 = ReturnedAs(h4, rev, from) /\ h5 = ReturnedAs(h4, hd.rev + 1, from)
  BY <1>0
<1>q5. a = PartCreate(i, from, rev) /\ o = LeftBehind(ps, keep)
  BY <1>0
<1>1. TruncateAsked(v, from, keep, ps, n, t, u) /\ ps[keep + 1].first = from
  BY <1>0
<1>2. /\ IsHandle(hd) /\ IsSeq(hd.dir) /\ IsLog(s) /\ Matches(hd, s)
      /\ ps = hd.parts /\ keep \in 0..Len(ps) - 1 /\ Len(ps) \in Nat
      /\ n = EntriesUpTo(hd.dir, keep) /\ t = TruncatedLog(s, from)
  BY ONLY <1>1, <1>q1, TruncateHandle
<1>3. PICK x : Via(u, a, x) /\ TruncateBuilt(v, from, keep, ps, n, t, u, x, q, E, i + 1)
  <2>1. \E x : /\ Via(u, PartCreate(i, from, rev), x)
               /\ TruncateBuilt(v, from, keep, ps, n, t, u, x, q, << >>, i + 1)
    BY ONLY <1>1, <1>q1, <1>q2, AloneBuilt
  <2> QED BY ONLY <2>1, <1>q2, <1>q5
<1>4. Len(P) = keep + 1
  <2>1. TailOf(ps, v.h.first, keep, q, from)
    BY <1>3 DEF TruncateBuilt, Rewritten
  <2> DEFINE b == v.h.first
  <2>2. TailOf(ps, b, keep, q, from)
    BY <2>1
  <2> HIDE DEF b
  <2>3. JoinedTo(P, ps, b, keep, q)
    BY ONLY <2>2, <1>q2, TailChain
  <2>4. Len(q) = 1
    BY <1>q2
  <2> QED BY <2>3, <2>4 DEF JoinedTo
<1>5. Reshaped(hd, i + 1, P, D, from, h3, h4, h5)
  <2>1. keep \in 0..Len(ps)
    BY <1>2
  <2> QED BY ONLY <1>2, <1>4, <1>q1, <1>q2, <1>q3, <1>q4, <2>1, ReshapedAlone
<1>6. Sound(u, TruncateCalls(a, h3, h4, rev, h5, t, o))
  <2> DEFINE nx == i + 1
  <2>1. TruncateBuilt(v, from, keep, ps, n, t, u, x, q, E, nx) /\ Via(u, a, x)
    BY <1>3
  <2>2. Reshaped(v.h, nx, P, D, from, h3, h4, h5) /\ D = Cat(SubSeq(v.h.dir, 1, n), E)
    BY ONLY <1>2, <1>5, <1>q1, <1>q3 DEF nx
  <2> HIDE DEF nx
  <2> QED BY ONLY <2>1, <2>2, <1>q1, <1>q2, <1>q5, TruncateEnds
<1>7. << >> \o a = a
  BY <1>3, CatNone DEF Via
<1>8. AloneCalls(hd, s, from, keep, i, rev) = TruncateCalls(<< >> \o a, h3, h4, rev, h5, t, o)
  BY ONLY <1>2, <1>q4, <1>q5 DEF AloneCalls
<1> QED BY ONLY <1>6, <1>7, <1>8

\* Truncating inside a part is sound.
LEMMA TruncateCopy ==
    ASSUME NEW v, NEW from, NEW keep, NEW ps, NEW n, NEW t, NEW u,
           TruncateAsked(v, from, keep, ps, n, t, u), v.file = file, Top(v) = Names,
           ps[keep + 1].first < from
    PROVE  Sound(u, CopyCalls(v.h, v.cur, from, keep, v.h.next + 1, v.h.rev + 1))
<1>0. SUFFICES ASSUME NEW hd, hd = v.h, NEW s, s = v.cur, NEW i, i = hd.next,
                      NEW rev, rev = v.h.rev + 1, NEW first, first = ps[keep + 1].first,
                      NEW cs, cs = Copies(hd, keep + 1, from),
                      NEW A, A = Desc(i, first, from), NEW C, C = Desc(i + 1, from, from),
                      NEW q, q = <<A, C>>, NEW E, E = CopyDir(cs, Len(cs), keep + 1),
                      NEW P, P = Cat(SubSeq(ps, 1, keep), q),
                      NEW D, D = Cat(SubSeq(hd.dir, 1, EntriesUpTo(hd.dir, keep)), E),
                      NEW h3, h3 = WithCopied(hd, keep, from, cs),
                      NEW h4, h4 = RebuildParts(h3, keep, 2),
                      NEW h5, h5 = ReturnedAs(h4, rev, from),
                      NEW a, a = CopyPlan(hd, keep + 1, from, rev) \o PartCreate(i + 1, from, rev),
                      NEW o, o = LeftBehind(ps, keep)
               PROVE  Sound(u, CopyCalls(hd, s, from, keep, i + 1, rev))
  OBVIOUS
<1>q1. hd = v.h /\ s = v.cur /\ i = hd.next /\ i = v.h.next /\ rev = v.h.rev + 1 /\ rev = hd.rev + 1
  BY <1>0
<1>q2. A = Desc(i, first, from) /\ C = Desc(i + 1, from, from) /\ q = <<A, C>>
       /\ P = Cat(SubSeq(ps, 1, keep), q)
  BY <1>0
<1>q3. /\ D = Cat(SubSeq(hd.dir, 1, EntriesUpTo(hd.dir, keep)), E)
       /\ E = CopyDir(cs, Len(cs), keep + 1)
  BY <1>0
<1>q4. /\ h3 = WithCopied(hd, keep, from, cs) /\ h4 = RebuildParts(h3, keep, 2)
       /\ h5 = ReturnedAs(h4, rev, from) /\ h5 = ReturnedAs(h4, hd.rev + 1, from)
  BY <1>0
<1>q5. /\ a = CopyPlan(hd, keep + 1, from, rev) \o PartCreate(i + 1, from, rev)
       /\ o = LeftBehind(ps, keep)
  BY <1>0
<1>q6. first = ps[keep + 1].first /\ first < from /\ cs = Copies(hd, keep + 1, from)
       /\ cs = Copies(v.h, keep + 1, from)
  BY <1>0
<1>1. TruncateAsked(v, from, keep, ps, n, t, u) /\ v.file = file /\ Top(v) = Names
  BY <1>0
<1>2. /\ IsHandle(hd) /\ IsSeq(hd.dir) /\ IsLog(s) /\ Matches(hd, s)
      /\ ps = hd.parts /\ keep \in 0..Len(ps) - 1 /\ Len(ps) \in Nat
      /\ n = EntriesUpTo(hd.dir, keep) /\ t = TruncatedLog(s, from) /\ i \in Nat
  BY ONLY <1>1, <1>q1, TruncateHandle
<1>3. PICK x : Via(u, a, x) /\ TruncateBuilt(v, from, keep, ps, n, t, u, x, q, E, i + 2)
  <2>1. \E x : /\ Via(u, CopyPlan(v.h, keep + 1, from, rev) \o PartCreate(i + 1, from, rev), x)
               /\ TruncateBuilt(v, from, keep, ps, n, t, u, x, q, E, i + 2)
    BY ONLY <1>1, <1>q1, <1>q2, <1>q3, <1>q6, CopyBuilt
  <2>2. a = CopyPlan(v.h, keep + 1, from, rev) \o PartCreate(i + 1, from, rev)
    BY ONLY <1>q1, <1>q5
  <2> QED BY ONLY <2>1, <2>2
<1>4. Len(P) = keep + 2
  <2>1. TailOf(ps, v.h.first, keep, q, from)
    BY <1>3 DEF TruncateBuilt, Rewritten
  <2> DEFINE b == v.h.first
  <2>2. TailOf(ps, b, keep, q, from)
    BY <2>1
  <2> HIDE DEF b
  <2>3. JoinedTo(P, ps, b, keep, q)
    BY ONLY <2>2, <1>q2, TailChain
  <2>4. Len(q) = 2
    BY <1>q2
  <2> QED BY <2>3, <2>4 DEF JoinedTo
<1>5. Reshaped(hd, i + 2, P, D, from, h3, h4, h5)
  <2>1. IsSeq(cs)
    <3>1. Truncates(file, Names, hd, s, from, keep, ps, n, t)
      BY <1>1, <1>q1, TruncateAskedIs
    <3> QED BY <3>1, <1>q6, CopyFollows
  <2>2. ReshapesCopy(hd, s, ps, keep, from, i, first, cs, A, C, q, P, E, D, h3, h4, h5)
    BY ONLY <1>2, <1>4, <1>q1, <1>q2, <1>q3, <1>q4, <1>q6, <2>1 DEF ReshapesCopy
  <2> QED BY ONLY <2>2, ReshapedCopy
<1>6. Sound(u, TruncateCalls(a, h3, h4, rev, h5, t, o))
  <2> DEFINE nx == i + 2
  <2>1. TruncateBuilt(v, from, keep, ps, n, t, u, x, q, E, nx) /\ Via(u, a, x)
    BY <1>3
  <2>2. Reshaped(v.h, nx, P, D, from, h3, h4, h5) /\ D = Cat(SubSeq(v.h.dir, 1, n), E)
    BY ONLY <1>2, <1>5, <1>q1, <1>q3 DEF nx
  <2> HIDE DEF nx
  <2> QED BY ONLY <2>1, <2>2, <1>q1, <1>q2, <1>q5, TruncateEnds
<1>7. CopyCalls(hd, s, from, keep, i + 1, rev) = TruncateCalls(a, h3, h4, rev, h5, t, o)
  <2>1. CopyCalls(hd, s, from, keep, i + 1, rev)
          = TruncateCalls(CopyPlan(hd, keep + 1, from, rev) \o PartCreate(i + 1, from, rev),
                          h3, h4, rev, h5, t, LeftBehind(ps, keep))
    BY ONLY <1>2, <1>q4, <1>q6 DEF CopyCalls
  <2> QED BY ONLY <2>1, <1>q5
<1> QED BY ONLY <1>6, <1>7

\* The id of the new active part, after a copy.
LEMMA AfterCopy ==
    ASSUME NEW hd, IsHandle(hd), NEW b, NEW from, NEW cs, NEW k
    PROVE  WithCopy(hd, b, from, cs, k).next = hd.next + 1
<1> DEFINE y == WithCopy(hd, b, from, cs, k)
           i == hd.next + 1
           p == Append(hd.parts, Desc(hd.next, hd.parts[b].first, from))
           x == hd.active
           l == hd.len
           ds == hd.dir \o CopyDir(cs, k, Len(hd.parts) + 1)
<1>1. y = Remade(hd, i, p, x, l, ds)
  BY CopyHandleIs
<1> HIDE DEF y, i, p, x, l, ds
<1>2. y.next = i
  BY ONLY <1>1, RemadeIs
<1> QED BY <1>2 DEF y, i

\* Every step of a truncation keeps the ledger recoverable, and the last one
\* leaves a good ledger.
LEMMA TruncatePlanSound ==
    ASSUME NEW v, NEW from, NEW keep, NEW ps, NEW n, NEW t, NEW u,
           TruncateAsked(v, from, keep, ps, n, t, u), v.file = file, Top(v) = Names
    PROVE  Steady(u) /\ Sound(u, TruncatePlan(v.h, v.cur, from))
<1> DEFINE hd == v.h
           s == v.cur
           rev == v.h.rev + 1
<1>1. /\ IsHandle(hd) /\ ps = hd.parts /\ keep = PartsUpTo(hd, from) /\ hd.next \in Nat
      /\ ps[keep + 1].first \in Nat /\ from \in Nat /\ ps[keep + 1].first <= from
  BY TruncateHandle
<1>2. Steady(u)
  BY TruncateStarts
<1>3. CASE ps[keep + 1].first = from
  <2>1. ~(from > hd.parts[keep + 1].first)
    BY <1>1, <1>3
  <2>2. TruncatePlan(hd, s, from) = AloneCalls(hd, s, from, keep, hd.next, hd.rev + 1)
    <3> HIDE DEF hd, s
    <3> QED BY <1>1, <2>1, AlonePlanIs
  <2>3. Sound(u, AloneCalls(v.h, v.cur, from, keep, v.h.next, v.h.rev + 1))
    BY <1>3, TruncateAlone
  <2> QED BY <1>2, <2>2, <2>3
<1>4. CASE ps[keep + 1].first < from
  <2> DEFINE i == hd.next + 1
  <2>1. from > hd.parts[keep + 1].first
    BY <1>1, <1>4
  <2>2. TruncatePlan(hd, s, from) = CopyCalls(hd, s, from, keep, i, hd.rev + 1)
    <3>1. i = WithCopy(hd, keep + 1, from, Copies(hd, keep + 1, from),
                       Len(Copies(hd, keep + 1, from))).next
      <4> HIDE DEF hd
      <4> QED BY <1>1, AfterCopy
    <3> HIDE DEF hd, s, i
    <3> QED BY <1>1, <2>1, <3>1, CopyCallsAre
  <2>3. Sound(u, CopyCalls(v.h, v.cur, from, keep, v.h.next + 1, v.h.rev + 1))
    BY <1>4, TruncateCopy
  <2> QED BY <1>2, <2>2, <2>3
<1> QED BY <1>1, <1>3, <1>4

---------------------------------------------------------------------------
\* A ledger that is being opened: all that is on the disk is settled log s, a
\* cut of what the application may find again (led89_open_io).
Opening(v, g, s) ==
    /\ v.mode = "opening" /\ AreFiles(v.file) /\ AllLead(v.file, v.dirs, g, s)
    /\ IsSettled(s) /\ s \in CutsOf(Logs(v)) /\ \A l \in Logs(v) : IsLog(l)

\* What opening finds is a cut of one of the logs of the application.
LEMMA OpeningCuts ==
    ASSUME NEW v, NEW g, NEW s, Opening(v, g, s)
    PROVE  \E l \in Logs(v) : IsLog(l) /\ \E k \in l.stable..Len(l.log) + 1 : s = CutAt(l, k)
<1>1. PICK l \in Logs(v) : s \in Log!Cuts(l)
  BY DEF Opening, CutsOf
<1>2. IsLog(l)
  BY <1>1 DEF Opening
<1>3. \E k \in l.stable..Len(l.log) + 1 : s = CutAt(l, k)
  BY <1>1 DEF Log!Cuts, Log!LogEnd, CutAt
<1> QED BY <1>1, <1>2, <1>3

\* It may be cut off there, lose power again, and be told to the application.
LEMMA OpeningSteady ==
    ASSUME NEW v, NEW g, g # 0, NEW s, Opening(v, g, s)
    PROVE  Steady(v) /\ Tells(v, s)
<1>1. PICK l \in Logs(v) : IsLog(l) /\ \E k \in l.stable..Len(l.log) + 1 : s = CutAt(l, k)
  BY OpeningCuts
<1>2. PICK k \in l.stable..Len(l.log) + 1 : s = CutAt(l, k)
  BY <1>1
<1>3. /\ IsLog(s) /\ IsSettled(s) /\ l.first = s.first /\ l.rev = s.rev /\ l.stable <= s.stable
      /\ Len(s.log) <= Len(l.log) /\ \A i \in 1..Len(s.log) : l.log[i] = s.log[i]
  BY <1>1, <1>2, CutMore
<1>4. AllLead(v.file, v.dirs, g, s)
  BY DEF Opening
<1>5. AllLead(v.file, v.dirs, g, l)
  <2> DEFINE F == v.file
             ds == v.dirs
  <2>1. AllLead(F, ds, g, s)
    BY <1>4
  <2> HIDE DEF F, ds
  <2>2. AllLead(F, ds, g, l)
    BY <1>1, <1>3, <2>1, AllLeadMore
  <2> QED BY <2>2 DEF F, ds
<1>6. \A t \in Logs(v) : IsLog(t)
  BY DEF Opening
<1>7. Safe(v.file, v.dirs, Logs(v))
  BY <1>1, <1>5, <1>6, AllLeadSafe
<1>8. v.mode = "opening" /\ AreFiles(v.file) /\ s \in CutsOf(Logs(v))
  BY DEF Opening
<1>9. Steady(v)
  BY <1>7, <1>8 DEF Steady
<1>10. Tells(v, s)
  BY <1>8 DEF Tells
<1> QED BY <1>9, <1>10

\* Once the ledger is in order, opening returns.
LEMMA OpeningReturns ==
    ASSUME NEW v, NEW s, Tells(v, s), NEW hd, GoodAs(v.file, v.dirs, hd, s)
    PROVE  Sound(v, <<Return(hd, s)>>)
<1> DEFINE w == World(v.file, v.dirs, "open", hd, s, {})
<1>1. Good(w) /\ Steady(w)
  BY GoodIntro
<1> HIDE DEF w
<1>2. w = World(v.file, v.dirs, "open", hd, s, {})
  BY DEF w
<1>3. Via(v, <<Return(hd, s)>>, w)
  BY <1>1, <1>2, StepReturn
<1> QED BY <1>1, <1>3, ViaSound

\* Removing files that the handle does not use changes nothing.
LEMMA OpeningUnlinks ==
    ASSUME NEW v, NEW s, NEW hd, Opening(v, hd.gen, s), GoodAs(v.file, v.dirs, hd, s),
           NEW q, IsSeq(q),
           \A i \in 1..Len(q) : q[i] = UnlinkCall(q[i].f) /\ Unused(hd, q[i].f)
    PROVE  Sound(v, q \o <<Return(hd, s)>>)
<1> DEFINE F == v.file
           E == {es \in Seq(Tables) : GoodAs(F, es, hd, s)}
           rest == <<Return(hd, s)>>
<1>1. ASSUME NEW es, GoodAs(F, es, hd, s)
      PROVE  es \in Seq(Tables)
  <2> HIDE DEF F
  <2>1. AllLead(F, es, hd.gen, StableLog(s))
    BY <1>1 DEF GoodAs
  <2> QED BY <2>1, TablesAre
<1>2. IsLog(s) /\ IsSettled(s) /\ hd.gen # 0
  BY DEF GoodAs, Opening, IsHandle
<1>3. StableLog(s) = s
  BY <1>2, StableIs
<1>4. ASSUME NEW es, GoodAs(F, es, hd, s)
      PROVE  Steady(With(v, F, es)) /\ Sound(With(v, F, es), rest)
  <2> DEFINE w == With(v, F, es)
  <2>1. AllLead(F, es, hd.gen, s)
    BY <1>3, <1>4 DEF GoodAs
  <2>2. /\ w.file = F /\ w.dirs = es /\ w.mode = v.mode /\ Logs(w) = Logs(v)
    BY WithIs
  <2> HIDE DEF w
  <2>3. Opening(w, hd.gen, s)
    BY <2>1, <2>2 DEF Opening
  <2>4. Steady(w) /\ Tells(w, s)
    BY <1>2, <2>3, OpeningSteady
  <2>5. GoodAs(w.file, w.dirs, hd, s)
    BY <1>4, <2>2
  <2>6. Sound(w, rest)
    BY <2>4, <2>5, OpeningReturns
  <2> QED BY <2>4, <2>6 DEF w
<1>5. ASSUME NEW i \in 1..Len(q), NEW es \in E
      PROVE  NamedIn(es, Unlinked(Last(es), q[i].f)) \in E
  <2> DEFINE f == q[i].f
             fs == NamedIn(es, Unlinked(Last(es), f))
  <2>1. Unused(hd, f)
    OBVIOUS
  <2>2. GoodAs(F, es, hd, s)
    BY <1>5
  <2> HIDE DEF F, f
  <2>3. GoodAs(F, fs, hd, s)
    BY <2>1, <2>2, UnlinkGoodAs
  <2> HIDE DEF fs
  <2>4. fs \in E
    BY <1>1, <2>3
  <2> QED BY <2>4 DEF fs, f
<1>6. v.dirs \in E
  BY <1>1
<1>7. Tells(v, s)
  BY <1>2, OpeningSteady
<1>8. Sound(v, rest)
  BY <1>7, OpeningReturns
<1>9. \A es \in E : Steady(With(v, F, es)) /\ Sound(With(v, F, es), rest)
  BY <1>4
<1>10. IsSeq(rest)
  BY SeqOne
<1> HIDE DEF E, rest
<1>11. Sound(v, q \o rest)
  BY <1>5, <1>6, <1>8, <1>9, <1>10, UnlinkRun
<1> QED BY <1>11 DEF rest

\* The handle that recovery makes of manifest m (led89_recover).
Recovers(F, d, m, hd, s) ==
    /\ IsHandle(hd) /\ ~hd.dirty /\ hd.gen # 0
    /\ Matches(hd, s) /\ Describes(m, hd) /\ Finds(F, d, hd, s.log)
    /\ ActiveUpTo(m.active, m.rev, F[Part(m.active.id)].live, hd.len, s)
    /\ hd.parts[Len(hd.parts)] = Desc(m.active.id, m.active.first, hd.end)
    /\ \A j \in 1..Len(hd.dir) : hd.dir[j].part = Len(hd.parts) => hd.dir[j].pos \in 3..hd.len

\* A file without what followed item k.
CutOff(F, G, f, k) ==
    /\ AreFiles(G) /\ OffFile(F, G, f) /\ f \in DOMAIN F
    /\ G[f].live = SubSeq(F[f].live, 1, k) /\ IsPrefix(G[f].hard, G[f].live)

\* An entry of a directory is found in the beginning of the file, too.
LEMMA LocatesFewer ==
    ASSUME NEW c, NEW e, NEW log, Locates(c, e, log), NEW b, NEW k \in Nat, Len(b) = k,
           \A i \in 1..k : b[i] = c[i], e.pos \in 3..k
    PROVE  Locates(b, e, log)
<1>1. e.pos \in 1..k /\ b[e.pos] = c[e.pos] /\ e.pos \in 3..Len(b)
  OBVIOUS
<1> QED BY <1>1 DEF Locates

\* When the last part of a chain is cut off behind what the handle knows of
\* it, its directory is still right (led89_trim_active).
LEMMA FindsCut ==
    ASSUME NEW F, NEW d, NEW m, NEW hd, NEW s, Recovers(F, d, m, hd, s), NEW G,
           NEW f, f = Part(m.active.id), CutOff(F, G, f, hd.len)
    PROVE  Finds(G, d, hd, s.log)
<1> DEFINE ps == hd.parts
           c == F[f].live
           b == G[f].live
           k == hd.len
<1>1. /\ IsHandle(hd) /\ Finds(F, d, hd, s.log) /\ ActiveUpTo(m.active, m.rev, c, k, s)
      /\ ps[Len(ps)] = Desc(m.active.id, m.active.first, hd.end)
      /\ \A j \in 1..Len(hd.dir) : hd.dir[j].part = Len(ps) => hd.dir[j].pos \in 3..k
  BY DEF Recovers
<1>2. /\ OffFile(F, G, f) /\ f \in DOMAIN F /\ b = SubSeq(c, 1, k)
  BY DEF CutOff
<1>3. IsSeq(c) /\ k \in 2..Len(c)
  BY <1>1 DEF ActiveUpTo
<1>4. k \in 0..Len(c) /\ k \in Nat
  BY <1>3, SeqIs
<1>5. Len(b) = k /\ \A i \in 1..k : b[i] = c[i]
  <2>1. IsSeq(SubSeq(c, 1, k)) /\ Len(SubSeq(c, 1, k)) = k /\ \A i \in 1..k : SubSeq(c, 1, k)[i] = c[i]
    BY <1>3, <1>4, SeqPrefix
  <2> QED BY <1>2, <2>1
<1>6. /\ IsSeq(ps) /\ Len(ps) \in Nat /\ Len(ps) \in 1..Len(ps)
      /\ \A i, j \in 1..Len(ps) : ps[i].id = ps[j].id => i = j
  BY <1>1, HandleIs DEF IsHandle, Chain
<1>7. ps[Len(ps)].id = m.active.id
  BY <1>1 DEF Desc
<1>8. ASSUME NEW p \in 1..Len(ps)
      PROVE  /\ ps[p].id \in d.part /\ Part(ps[p].id) \in DOMAIN G
             /\ p = Len(ps) => Part(ps[p].id) = f
             /\ p # Len(ps) => G[Part(ps[p].id)] = F[Part(ps[p].id)]
  <2>1. ps[p].id \in d.part /\ Part(ps[p].id) \in DOMAIN F
    BY <1>1, <1>8 DEF Finds
  <2>2. Part(ps[p].id) \in DOMAIN G
    BY <1>2, <2>1 DEF OffFile
  <2>3. p # Len(ps) => Part(ps[p].id) # f
    BY <1>6, <1>7, <1>8 DEF Part
  <2>4. p # Len(ps) => G[Part(ps[p].id)] = F[Part(ps[p].id)]
    BY <1>2, <2>1, <2>3 DEF OffFile
  <2> QED BY <1>7, <2>1, <2>2, <2>4
<1>9. ASSUME NEW i \in 1..Len(hd.dir)
      PROVE  /\ hd.dir[i].part \in 1..Len(ps)
             /\ Locates(G[Part(ps[hd.dir[i].part].id)].live, hd.dir[i], s.log)
  <2> DEFINE e == hd.dir[i]
             p == e.part
  <2>1. p \in 1..Len(ps) /\ Locates(F[Part(ps[p].id)].live, e, s.log)
    BY <1>1, <1>9 DEF Finds
  <2>2. CASE p = Len(ps)
    <3>1. e.pos \in 3..k
      BY <1>1, <1>9, <2>2
    <3>2. Locates(c, e, s.log)
      BY <1>8, <2>1, <2>2
    <3> HIDE DEF c, b, k, e
    <3>3. Locates(b, e, s.log)
      BY <1>4, <1>5, <3>1, <3>2, LocatesFewer
    <3>4. Part(ps[p].id) = f
      BY <1>8, <2>1, <2>2
    <3> QED BY <2>1, <3>3, <3>4 DEF b, e
  <2>3. CASE p # Len(ps)
    BY <1>8, <2>1, <2>3
  <2> QED BY <2>2, <2>3
<1>10. Linked(hd.dir, hd.first, hd.end)
  BY <1>1 DEF Finds
<1> QED BY <1>6, <1>8, <1>9, <1>10 DEF Finds

\* And its active part is whole: nothing follows its last marker.
LEMMA WholeCut ==
    ASSUME NEW F, NEW d, NEW m, NEW hd, NEW s, Recovers(F, d, m, hd, s), NEW G,
           NEW f, f = Part(m.active.id), CutOff(F, G, f, hd.len),
           IsLog(s), IsSettled(s), m.active.first \in Nat
    PROVE  Whole(G, hd, s.log)
<1> DEFINE a == m.active
           q == hd.parts[Len(hd.parts)]
           c == F[f].live
           b == G[f].live
           k == hd.len
<1>1. /\ ActiveUpTo(a, m.rev, c, k, s) /\ q = Desc(a.id, a.first, hd.end)
      /\ Matches(hd, s)
  BY DEF Recovers
<1>2. b = SubSeq(c, 1, k) /\ IsPrefix(G[f].hard, b)
  BY DEF CutOff
<1>3. IsSeq(c) /\ k \in 2..Len(c) /\ GoodPart(a, c, k, s.log) /\ c[k].end \in s.stable..Len(s.log) + 1
  BY <1>1 DEF ActiveUpTo
<1>4. k \in 0..Len(c) /\ k \in Nat
  BY <1>3, SeqIs
<1>5. IsSeq(b) /\ Len(b) = k /\ \A i \in 1..k : b[i] = c[i]
  <2>1. IsSeq(SubSeq(c, 1, k)) /\ Len(SubSeq(c, 1, k)) = k /\ \A i \in 1..k : SubSeq(c, 1, k)[i] = c[i]
    BY <1>3, <1>4, SeqPrefix
  <2> QED BY <1>2, <2>1
<1>6. q.id = a.id /\ q.first = a.first
  BY <1>1 DEF Desc
<1>7. /\ Len(s.log) \in Nat /\ s.stable = Len(s.log) + 1 /\ hd.end = Len(s.log) + 1
  BY <1>1, LogIs DEF IsSettled, Matches
<1>8. c[k].end = Expected(a, c, k)
  BY <1>1, ActiveIs
<1>9. Expected(a, c, k) = hd.end /\ Expected(a, c, k) <= Len(s.log) + 1
  BY <1>3, <1>7, <1>8
<1> HIDE DEF a, q, c, b, k
<1>10. GoodPart(q, b, k, s.log) /\ Expected(q, b, k) = Expected(a, c, k)
  <2> DEFINE log == s.log
  <2>1. /\ GoodPart(a, c, k, log) /\ a.first \in Nat /\ q.id = a.id /\ q.first = a.first
        /\ IsSeq(b) /\ k <= Len(b) /\ \A i \in 1..k : b[i] = c[i]
        /\ Len(log) \in Nat /\ Expected(a, c, k) <= Len(log) + 1
        /\ \A i \in a.first..Expected(a, c, k) - 1 : log[i] = log[i]
    BY <1>3, <1>4, <1>5, <1>6, <1>7, <1>9 DEF a
  <2> HIDE DEF log
  <2>2. GoodPart(q, b, k, log) /\ Expected(q, b, k) = Expected(a, c, k)
    BY ONLY <2>1, GoodSame
  <2> QED BY <2>2 DEF log
<1>11. Part(q.id) = f
  BY <1>6 DEF a
<1> QED BY <1>2, <1>5, <1>9, <1>10, <1>11 DEF Whole, q, b, k

\* So the handle is the one of a good ledger.
LEMMA RecoveredGood ==
    ASSUME NEW F, NEW ds, NEW hd, NEW s, AllLead(F, ds, hd.gen, s), IsSettled(s),
           NEW m, m = ManifestAt(F, hd.gen), Recovers(F, Last(ds), m, hd, s),
           \A p \in 1..Len(hd.parts) : hd.parts[p].id < hd.next,
           NEW G, NEW f, f = Part(m.active.id), CutOff(F, G, f, hd.len),
           SafeActive(m.active, m.rev, G[f], s)
    PROVE  GoodAs(G, ds, hd, s)
<1> DEFINE g == hd.gen
           a == m.active
<1>1. g # 0 /\ IsHandle(hd) /\ Matches(hd, s) /\ Describes(m, hd)
  BY DEF Recovers
<1>2. AllLead(F, ds, g, s) /\ m = ManifestAt(F, g)
  OBVIOUS
<1> HIDE DEF g
<1>3. /\ IsLog(s) /\ a.first \in Nat \ {0} /\ a.first <= Len(s.log) + 1
  BY <1>1, <1>2, AllLeadIs
<1>4. OffFile(F, G, Part(m.active.id)) /\ SafeActive(m.active, m.rev, G[Part(m.active.id)], s)
  BY DEF CutOff
<1>5. \A i \in s.first..m.active.first - 1 : s.log[i] = s.log[i]
  OBVIOUS
<1>6. AllLead(G, ds, g, s) /\ ManifestAt(G, g) = m
  BY <1>1, <1>2, <1>3, <1>4, <1>5, ActiveChanged
<1>7. StableLog(s) = s
  BY <1>3, StableIs
<1>8. Finds(G, Last(ds), hd, s.log)
  BY FindsCut
<1>9. Whole(G, hd, s.log)
  BY <1>3, WholeCut
<1>10. AreFiles(G)
  BY DEF CutOff
<1> QED BY <1>1, <1>3, <1>6, <1>7, <1>8, <1>9, <1>10 DEF GoodAs, g

\* The handle with its next file id set.
LEMMA RecoversNext ==
    ASSUME NEW F, NEW d, NEW m, NEW hd, NEW s, Recovers(F, d, m, hd, s), NEW id \in Nat,
           NEW r, r = [hd EXCEPT !.next = id]
    PROVE  /\ Recovers(F, d, m, r, s) /\ r.next = id /\ r.gen = hd.gen /\ r.parts = hd.parts
           /\ r.len = hd.len /\ Active(r) = Active(hd)
<1>1. IsHandle(hd)
  BY DEF Recovers
<1>2. hd = HandleOf(hd.gen, hd.rev, hd.first, hd.end, hd.stable, hd.dirty, hd.next,
                    hd.parts, hd.active, hd.len, hd.dir)
  BY <1>1, HandleIs
<1>3. r = HandleOf(hd.gen, hd.rev, hd.first, hd.end, hd.stable, hd.dirty, id,
                   hd.parts, hd.active, hd.len, hd.dir)
  BY <1>2 DEF HandleOf
<1>4. /\ r.gen = hd.gen /\ r.rev = hd.rev /\ r.first = hd.first /\ r.end = hd.end
      /\ r.stable = hd.stable /\ r.dirty = hd.dirty /\ r.next = id /\ r.parts = hd.parts
      /\ r.active = hd.active /\ r.len = hd.len /\ r.dir = hd.dir
  BY <1>3, HandleOfIs
<1>5. IsHandle(r)
  <2>1. r = [gen |-> r.gen, rev |-> r.rev, first |-> r.first, end |-> r.end,
             stable |-> r.stable, dirty |-> r.dirty, next |-> r.next,
             parts |-> r.parts, active |-> r.active, len |-> r.len, dir |-> r.dir]
    BY <1>3, <1>4 DEF HandleOf
  <2>2. InRange(r)
    BY <1>1, <1>4 DEF IsHandle, InRange
  <2>3. /\ Chain(r.parts, r.first) /\ Rising(r.parts) /\ r.active = Len(r.parts)
        /\ r.gen \in Nat \ {0} /\ r.next \in Nat
    BY <1>1, <1>4 DEF IsHandle
  <2>4. r.dirty \in BOOLEAN /\ (~r.dirty => r.stable = r.end)
    BY <1>1, <1>4 DEF IsHandle
  <2> QED BY <2>1, <2>2, <2>3, <2>4 DEF IsHandle
<1>6. Matches(r, s) /\ Describes(m, r) /\ Finds(F, d, r, s.log)
  BY <1>4 DEF Recovers, Matches, Describes, Finds
<1>7. Recovers(F, d, m, r, s)
  <2>1. ~r.dirty /\ r.gen # 0
    BY <1>4 DEF Recovers
  <2>2. ActiveUpTo(m.active, m.rev, F[Part(m.active.id)].live, r.len, s)
    BY <1>4 DEF Recovers
  <2>3. r.parts[Len(r.parts)] = Desc(m.active.id, m.active.first, r.end)
    BY <1>4 DEF Recovers
  <2>4. \A j \in 1..Len(r.dir) : r.dir[j].part = Len(r.parts) => r.dir[j].pos \in 3..r.len
    BY <1>4 DEF Recovers
  <2> QED BY <1>5, <1>6, <2>1, <2>2, <2>3, <2>4 DEF Recovers
<1> QED BY <1>4, <1>7 DEF Active

---------------------------------------------------------------------------
\* A finite set of numbers has a largest one.
LEMMA FiniteBound ==
    ASSUME NEW S \in SUBSET Nat, IsFiniteSet(S)
    PROVE  \E b \in Nat : \A x \in S : x <= b
<1> DEFINE Bounded(T) == \E b \in Nat : \A x \in T : x <= b
           P == {n \in Nat : \A T \in SUBSET Nat :
                    IsFiniteSet(T) /\ Cardinality(T) = n => Bounded(T)}
<1>1. 0 \in P
  <2>1. ASSUME NEW T \in SUBSET Nat, IsFiniteSet(T), Cardinality(T) = 0
        PROVE  Bounded(T)
    <3>1. T = {}
      BY <2>1, FS_EmptySet
    <3> QED BY <3>1
  <2> QED BY <2>1
<1>2. ASSUME NEW n \in Nat, n \in P
      PROVE  n + 1 \in P
  <2>1. ASSUME NEW T \in SUBSET Nat, IsFiniteSet(T), Cardinality(T) = n + 1
        PROVE  Bounded(T)
    <3>1. T # {}
      <4>1. n + 1 # 0
        BY <1>2
      <4> QED BY <2>1, <4>1, FS_EmptySet
    <3>2. PICK x \in T : TRUE
      BY <3>1
    <3> DEFINE U == T \ {x}
    <3>3. IsFiniteSet(U) /\ Cardinality(U) = Cardinality(T) - 1
      BY <2>1, <3>2, FS_RemoveElement
    <3>4. Cardinality(U) = n /\ U \in SUBSET Nat
      BY <2>1, <3>3
    <3>5. Bounded(U)
      BY <1>2, <3>3, <3>4
    <3>6. PICK b \in Nat : \A y \in U : y <= b
      BY <3>5
    <3>7. x \in Nat /\ b + x \in Nat
      BY <3>2
    <3>8. \A y \in T : y <= b + x
      <4>1. ASSUME NEW y \in T
            PROVE  y <= b + x
        <5>1. y \in Nat
          OBVIOUS
        <5>2. CASE y = x
          BY <3>7, <5>2
        <5>3. CASE y # x
          BY <3>6, <3>7, <5>1, <5>3
        <5> QED BY <5>2, <5>3
      <4> QED BY <4>1
    <3> QED BY <3>7, <3>8
  <2> QED BY <1>2, <2>1
<1> HIDE DEF P
<1>3. \A n \in 0..Cardinality(S) : n \in P
  <2>1. Cardinality(S) \in Nat
    BY FS_CardinalityType
  <2>2. \A n \in 0..Cardinality(S) : n < Cardinality(S) /\ n \in P => n + 1 \in P
    BY <1>2, <2>1
  <2> QED BY <1>1, <2>1, <2>2, Induction
<1>4. Cardinality(S) \in 0..Cardinality(S)
  BY FS_CardinalityType
<1>5. Cardinality(S) \in P
  BY <1>3, <1>4
<1> QED BY <1>5 DEF P

\* The file id after the largest one is new (led89_find_next_file_id).
LEMMA NextIdIs ==
    ASSUME NEW S \in SUBSET Nat, IsFiniteSet(S), S # {}, NEW id, id = Max(S) + 1
    PROVE  id \in Nat /\ \A x \in S : x < id
<1>1. PICK b \in Nat : \A x \in S : x <= b
  BY FiniteBound
<1>2. S \subseteq 0..b
  BY <1>1
<1>3. Max(S) \in S /\ \A x \in S : x <= Max(S)
  BY <1>2, MaxOf
<1> DEFINE m == Max(S)
<1>4. m \in Nat /\ id = m + 1 /\ \A x \in S : x \in Nat /\ x <= m
  BY <1>3
<1> HIDE DEF m
<1> QED BY ONLY <1>4

\* A finite set of files is listed by a sequence (led89_gc_orphans).
LEMMA ListedIs ==
    ASSUME NEW S, IsFiniteSet(S), NEW q, q = SetToSeq(S)
    PROVE  Cardinality(S) \in Nat /\ q \in [1..Cardinality(S) -> S]
<1> DEFINE n == Cardinality(S)
<1>1. n \in Nat /\ ExistsBijection(1..n, S)
  BY FS_CardinalityType
<1>2. \E f \in [1..n -> S] : IsInjective(f)
  BY <1>1 DEF ExistsBijection, Bijection, Injection, IsInjective
<1>3. q = CHOOSE f \in [1..n -> S] : IsInjective(f)
  BY DEF SetToSeq
<1> HIDE DEF n
<1>4. q \in [1..n -> S]
  BY <1>2, <1>3
<1> QED BY <1>1, <1>4 DEF n

\* UnlinkAll unlinks files of the set only.
LEMMA UnlinkAllIs ==
    ASSUME NEW S, IsFiniteSet(S), NEW u, u = UnlinkAll(S)
    PROVE  IsSeq(u) /\ \A i \in 1..Len(u) : u[i] = UnlinkCall(u[i].f) /\ u[i].f \in S
<1> DEFINE q == SetToSeq(S)
           n == Cardinality(S)
<1>1. n \in Nat /\ q \in [1..n -> S]
  BY ListedIs
<1>2. u = [i \in 1..Len(q) |-> UnlinkCall(q[i])]
  BY DEF UnlinkAll
<1> HIDE DEF q, n
<1>3. Len(q) = n /\ \A i \in 1..n : q[i] \in S
  <2>1. q = [i \in 1..n |-> q[i]]
    BY <1>1
  <2>2. Len(q) = n
    BY <1>1, <2>1, SeqIntro
  <2> QED BY <1>1, <2>2
<1>4. \A i \in 1..n : u[i] = UnlinkCall(q[i])
  BY <1>2, <1>3
<1>5. IsSeq(u) /\ Len(u) = n
  <2>1. u = [i \in 1..n |-> u[i]]
    BY <1>2, <1>3
  <2> QED BY <1>1, <2>1, SeqIntro
<1>6. ASSUME NEW i \in 1..Len(u)
      PROVE  u[i] = UnlinkCall(u[i].f) /\ u[i].f \in S
  <2> DEFINE f == q[i]
             c == u[i]
  <2>1. c = UnlinkCall(f) /\ f \in S
    BY <1>3, <1>4, <1>5, <1>6
  <2> HIDE DEF f, c
  <2>2. c.f = f
    BY <2>1 DEF UnlinkCall
  <2>3. c = UnlinkCall(c.f) /\ c.f \in S
    BY ONLY <2>1, <2>2
  <2> QED BY <2>3 DEF c
<1> QED BY <1>5, <1>6

\* The names of finitely many files are finitely many.
LEMMA FinitelyNamed ==
    ASSUME NEW S, IsFiniteSet(S), NEW k
    PROVE  IsFiniteSet({<<k, n>> : n \in S})
<1> DEFINE T == {<<k, n>> : n \in S}
           f == [x \in T |-> x[2]]
<1>1. f \in [T -> S]
  OBVIOUS
<1>2. \A x, y \in T : f[x] = f[y] => x = y
  OBVIOUS
<1>3. f \in Injection(T, S)
  BY <1>1, <1>2 DEF Injection, IsInjective
<1> HIDE DEF T, f
<1>4. IsFiniteSet(T)
  BY <1>3, FS_Injection
<1> QED BY <1>4 DEF T

\* What garbage collection removes, and what creating a ledger removes first.
LEMMA OrphansFinite ==
    ASSUME NEW d, IsTable(d), NEW A, A \subseteq d.part, NEW B, B \subseteq d.man
    PROVE  IsFiniteSet((IF d.tmp = 0 THEN {} ELSE {Cur(d.tmp)})
                         \union {Part(id) : id \in A} \union {Man(n) : n \in B})
<1> DEFINE X == IF d.tmp = 0 THEN {} ELSE {Cur(d.tmp)}
           Y == {Part(id) : id \in A}
           Z == {Man(n) : n \in B}
<1>1. IsFiniteSet(A) /\ IsFiniteSet(B)
  <2>1. IsFiniteSet(d.part) /\ IsFiniteSet(d.man)
    BY DEF IsTable
  <2> QED BY <2>1, FS_Subset
<1>2. IsFiniteSet(X)
  <2>1. IsFiniteSet({}) /\ IsFiniteSet({Cur(d.tmp)})
    BY FS_EmptySet, FS_Singleton
  <2> QED BY <2>1
<1>3. IsFiniteSet(Y)
  <2>1. Y = {<<"part", id>> : id \in A}
    BY DEF Part
  <2>2. IsFiniteSet({<<"part", id>> : id \in A})
    BY <1>1, FinitelyNamed
  <2> QED BY <2>1, <2>2
<1>4. IsFiniteSet(Z)
  <2>1. Z = {<<"man", n>> : n \in B}
    BY DEF Man
  <2>2. IsFiniteSet({<<"man", n>> : n \in B})
    BY <1>1, FinitelyNamed
  <2> QED BY <2>1, <2>2
<1> HIDE DEF X, Y, Z
<1>5. IsFiniteSet((X \union Y) \union Z)
  BY <1>2, <1>3, <1>4, FS_Union
<1> QED BY <1>5 DEF X, Y, Z

---------------------------------------------------------------------------
\* truncate to the first k items.
TrimmedIn(F, f, k) == [F EXCEPT ![f].live = SubSeq(@, 1, k)]

\* What truncate leaves of the files.
LEMMA TrimmedIs ==
    ASSUME NEW F, AreFiles(F), NEW f, f \in DOMAIN F, NEW k, NEW G, G = TrimmedIn(F, f, k)
    PROVE  /\ OffFile(F, G, f) /\ AreFiles(G) /\ DOMAIN G = DOMAIN F
           /\ G[f] = [live |-> SubSeq(F[f].live, 1, k), hard |-> F[f].hard]
<1>1. F[f] = [live |-> F[f].live, hard |-> F[f].hard]
  BY DEF AreFiles
<1>2. DOMAIN G = DOMAIN F /\ G[f] = [F[f] EXCEPT !.live = SubSeq(F[f].live, 1, k)]
      /\ \A g \in DOMAIN F : g # f => G[g] = F[g]
  BY DEF TrimmedIn
<1>3. G[f] = [live |-> SubSeq(F[f].live, 1, k), hard |-> F[f].hard]
  <2> DEFINE y == F[f]
             l == SubSeq(F[f].live, 1, k)
             b == F[f].live
             c == F[f].hard
  <2>1. y = [live |-> b, hard |-> c] /\ G[f] = [y EXCEPT !.live = l]
    BY <1>1, <1>2
  <2> HIDE DEF y, l, b, c
  <2>2. G[f] = [live |-> l, hard |-> c]
    BY <2>1
  <2> QED BY <2>2 DEF l, c
<1>4. AreFiles(G)
  BY <1>2, <1>3 DEF AreFiles
<1> QED BY <1>2, <1>3, <1>4 DEF OffFile

\* A change of the active part that keeps it safe keeps the opening going.
LEMMA OpeningKept ==
    ASSUME NEW v, NEW g, g # 0, NEW s, Opening(v, g, s), NEW m, m = ManifestAt(v.file, g),
           NEW f, f = Part(m.active.id), NEW G, AreFiles(G), OffFile(v.file, G, f),
           SafeActive(m.active, m.rev, G[f], s), NEW w, w = With(v, G, v.dirs)
    PROVE  Opening(w, g, s) /\ ManifestAt(w.file, g) = m /\ Steady(w)
<1> DEFINE F == v.file
           ds == v.dirs
<1>1. /\ v.mode = "opening" /\ AllLead(F, ds, g, s) /\ IsSettled(s)
      /\ s \in CutsOf(Logs(v)) /\ \A l \in Logs(v) : IsLog(l)
  BY DEF Opening
<1>2. w.file = G /\ w.dirs = ds /\ w.mode = v.mode /\ Logs(w) = Logs(v)
  BY WithIs
<1>3. OffFile(F, G, Part(m.active.id)) /\ SafeActive(m.active, m.rev, G[Part(m.active.id)], s)
  OBVIOUS
<1>4. m = ManifestAt(F, g)
  OBVIOUS
<1> HIDE DEF F, ds
<1>5. IsLog(s) /\ m.active.first <= Len(s.log) + 1
  BY <1>1, <1>4, AllLeadIs
<1>6. \A i \in s.first..m.active.first - 1 : s.log[i] = s.log[i]
  OBVIOUS
<1>7. AllLead(G, ds, g, s) /\ ManifestAt(G, g) = m
  <2>1. g # 0 /\ AllLead(F, ds, g, s)
    BY <1>1
  <2> QED BY ONLY <2>1, <1>3, <1>4, <1>5, <1>6, ActiveChanged
<1>8. Opening(w, g, s)
  BY <1>1, <1>2, <1>7 DEF Opening
<1>9. Steady(w)
  BY <1>8, OpeningSteady
<1> QED BY <1>2, <1>7, <1>8, <1>9

\* The calls of TrimPlan: content c, of which the handle knows k items.
TrimCalls(f, c, k) ==
    IF k >= Len(c) THEN << >> ELSE <<TrimCall(f, k), FsyncCall(f)>>

\* What the writer finds when it opens a ledger.
Found(v, m, hd, s) ==
    /\ Opening(v, hd.gen, s) /\ m = ManifestAt(v.file, hd.gen)
    /\ Recovers(v.file, Top(v), m, hd, s)
    /\ \A p \in 1..Len(hd.parts) : hd.parts[p].id < hd.next

\* And what trimming the active part makes of it.
InOrder(v, p, hd, s, w) ==
    /\ Via(v, p, w) /\ w.dirs = v.dirs /\ Opening(w, hd.gen, s)
    /\ GoodAs(w.file, w.dirs, hd, s)

\* The active part of what is found.
LEMMA FoundIs ==
    ASSUME NEW v, NEW m, NEW hd, NEW s, Found(v, m, hd, s), NEW f, f = Part(m.active.id),
           NEW F, F = v.file, NEW c, c = F[f].live
    PROVE  /\ hd.gen # 0 /\ AllLead(F, v.dirs, hd.gen, s) /\ IsLog(s) /\ IsSettled(s)
           /\ AreFiles(F) /\ f \in DOMAIN F /\ SafeActive(m.active, m.rev, F[f], s)
           /\ m.active.first \in Nat /\ Len(s.log) \in Nat
           /\ ActiveUpTo(m.active, m.rev, c, hd.len, s) /\ LastMarker(m.active, c, m.rev) = hd.len
           /\ IsSeq(c) /\ Len(c) \in Nat /\ hd.len \in 2..Len(c)
<1> DEFINE g == hd.gen
           ds == v.dirs
<1>1. /\ g # 0 /\ ActiveUpTo(m.active, m.rev, c, hd.len, s)
  BY DEF Found, Recovers
<1>2. AllLead(F, ds, g, s) /\ m = ManifestAt(F, g) /\ IsSettled(s) /\ AreFiles(F)
  BY DEF Found, Opening
<1> HIDE DEF g, ds
<1>7. /\ IsLog(s) /\ Len(s.log) \in Nat /\ m.active.first \in Nat \ {0}
      /\ SafeActive(m.active, m.rev, F[Part(m.active.id)], s) /\ Part(m.active.id) \in DOMAIN F
  BY ONLY <1>1, <1>2, AllLeadIs
<1>3. /\ IsLog(s) /\ Len(s.log) \in Nat /\ SafeActive(m.active, m.rev, F[f], s) /\ f \in DOMAIN F
      /\ m.active.first \in Nat \ {0}
  BY <1>7
<1>4. LastMarker(m.active, c, m.rev) = hd.len
  BY <1>1, <1>3, ActiveIs
<1>5. IsSeq(c) /\ hd.len \in 2..Len(c)
  BY <1>1 DEF ActiveUpTo
<1>6. Len(c) \in Nat
  BY <1>5, SeqIs
<1> QED BY <1>1, <1>2, <1>3, <1>4, <1>5, <1>6 DEF g, ds

\* The active part is cut off behind its last marker, and synced before
\* anything is appended to it (led89_trim_active).
LEMMA TrimVia ==
    ASSUME NEW v, NEW m, NEW hd, NEW s, Found(v, m, hd, s), NEW f, f = Part(m.active.id),
           NEW c, c = v.file[f].live, hd.len < Len(c)
    PROVE  \E w : InOrder(v, <<TrimCall(f, hd.len), FsyncCall(f)>>, hd, s, w)
<1> DEFINE F == v.file
           k == hd.len
           g == hd.gen
           G == TrimmedIn(F, f, k)
           u == With(v, G, v.dirs)
           H == FsyncedIn(G, f)
           w == With(u, H, u.dirs)
           x == TrimCall(f, k)
           y == FsyncCall(f)
<1>1. /\ g # 0 /\ AllLead(F, v.dirs, g, s) /\ IsLog(s) /\ IsSettled(s)
      /\ AreFiles(F) /\ f \in DOMAIN F /\ SafeActive(m.active, m.rev, F[f], s)
      /\ m.active.first \in Nat /\ Len(s.log) \in Nat
      /\ ActiveUpTo(m.active, m.rev, c, k, s) /\ LastMarker(m.active, c, m.rev) = k
      /\ IsSeq(c) /\ Len(c) \in Nat /\ k \in 2..Len(c)
  BY FoundIs
<1>2. /\ Opening(v, g, s) /\ m = ManifestAt(F, g) /\ Recovers(F, Last(v.dirs), m, hd, s)
      /\ \A p \in 1..Len(hd.parts) : hd.parts[p].id < hd.next
  BY DEF Found, Top
<1>3. /\ OffFile(F, G, f) /\ AreFiles(G) /\ DOMAIN G = DOMAIN F
      /\ G[f] = [live |-> SubSeq(c, 1, k), hard |-> F[f].hard]
  <2>1. AreFiles(F) /\ f \in DOMAIN F /\ c = F[f].live
    BY <1>1
  <2>2. G = TrimmedIn(F, f, k)
    OBVIOUS
  <2> HIDE DEF F, G, k
  <2>3. /\ OffFile(F, G, f) /\ AreFiles(G) /\ DOMAIN G = DOMAIN F
        /\ G[f] = [live |-> SubSeq(F[f].live, 1, k), hard |-> F[f].hard]
    BY ONLY <2>1, <2>2, TrimmedIs
  <2> QED BY ONLY <2>1, <2>3
<1>4. G[f].live = SubSeq(c, 1, k) /\ G[f].hard = F[f].hard
  <2> DEFINE a == G[f]
             l == SubSeq(c, 1, k)
             d == F[f].hard
  <2>1. a = [live |-> l, hard |-> d]
    BY <1>3
  <2> HIDE DEF a, l, d
  <2>2. a.live = l /\ a.hard = d
    BY <2>1
  <2> QED BY <2>2 DEF a, l, d
<1>5. SafeActive(m.active, m.rev, G[f], s)
  <2> DEFINE b == F[f]
             e == G[f]
  <2>1. /\ SafeActive(m.active, m.rev, b, s) /\ m.active.first \in Nat /\ Len(s.log) \in Nat
        /\ e.live = SubSeq(b.live, 1, LastMarker(m.active, b.live, m.rev)) /\ e.hard = b.hard
    BY <1>1, <1>4
  <2> HIDE DEF b, e
  <2>2. SafeActive(m.active, m.rev, e, s)
    BY ONLY <2>1, SafeTrim
  <2> QED BY <2>2 DEF e
<1>6. f \in DOMAIN G
  BY <1>1, <1>3
<1> HIDE DEF G
<1>7. Opening(u, g, s) /\ ManifestAt(u.file, g) = m /\ Steady(u)
  <2>1. /\ g # 0 /\ Opening(v, g, s) /\ m = ManifestAt(v.file, g) /\ f = Part(m.active.id)
        /\ AreFiles(G) /\ OffFile(v.file, G, f) /\ SafeActive(m.active, m.rev, G[f], s)
        /\ u = With(v, G, v.dirs)
    BY <1>1, <1>2, <1>3, <1>5
  <2> HIDE DEF g, u
  <2>2. Opening(u, g, s) /\ ManifestAt(u.file, g) = m /\ Steady(u)
    BY ONLY <2>1, OpeningKept
  <2> QED BY <2>2
<1>8. u.file = G /\ u.dirs = v.dirs
  BY WithIs
<1>9. /\ OffFile(G, H, f) /\ AreFiles(H) /\ DOMAIN H = DOMAIN G
      /\ H[f] = [live |-> G[f].live, hard |-> G[f].live]
  BY <1>3, <1>6, FsyncedIs
<1>10. H[f].live = G[f].live /\ H[f].hard = G[f].live
  BY <1>9
<1>11. SafeActive(m.active, m.rev, H[f], s)
  <2>1. GoodActive(m.active, m.rev, G[f].live, s)
    BY <1>5, SafeIs
  <2> DEFINE e == H[f]
  <2>2. e.hard = e.live /\ GoodActive(m.active, m.rev, e.live, s)
    BY <1>10, <2>1
  <2> HIDE DEF e
  <2>3. SafeActive(m.active, m.rev, e, s)
    BY <2>2, SafeHard
  <2> QED BY <2>3 DEF e
<1> HIDE DEF H, u
<1>12. Opening(w, g, s) /\ Steady(w)
  <2>1. /\ g # 0 /\ Opening(u, g, s) /\ m = ManifestAt(u.file, g) /\ f = Part(m.active.id)
        /\ AreFiles(H) /\ OffFile(u.file, H, f) /\ SafeActive(m.active, m.rev, H[f], s)
        /\ w = With(u, H, u.dirs)
    BY <1>1, <1>7, <1>8, <1>9, <1>11
  <2> HIDE DEF g, w
  <2>2. Opening(w, g, s) /\ ManifestAt(w.file, g) = m /\ Steady(w)
    BY ONLY <2>1, OpeningKept
  <2> QED BY <2>2
<1>13. w.file = H /\ w.dirs = v.dirs
  BY <1>8, WithIs
<1>14. CutOff(F, H, f, k)
  <2>1. OffFile(F, H, f)
    BY <1>3, <1>9 DEF OffFile
  <2>2. H[f].live = SubSeq(F[f].live, 1, k)
    BY <1>4, <1>10
  <2>3. IsPrefix(H[f].hard, H[f].live)
    <3>1. IsSeq(SubSeq(c, 1, k))
      BY <1>1, SeqPrefix
    <3> DEFINE b == H[f].live
    <3>2. IsSeq(b) /\ H[f].hard = b
      BY <1>4, <1>10, <3>1
    <3> HIDE DEF b
    <3>3. IsPrefix(b, b)
      BY <3>2, PrefixIs, SeqIs
    <3> QED BY <3>2, <3>3 DEF b
  <2> QED BY <1>1, <1>9, <2>1, <2>2, <2>3 DEF CutOff
<1>15. GoodAs(H, v.dirs, hd, s)
  BY <1>1, <1>2, <1>11, <1>14, RecoveredGood
<1>16. StepOK(x, v, u)
  <2>1. x.op = "trim" /\ x.f = f /\ x.n = k
    BY DEF TrimCall
  <2>2. Performed(x, v.file, v.dirs, u.file, u.dirs)
    BY <1>8, <2>1 DEF Performed, G, TrimmedIn
  <2>3. u = With(v, u.file, u.dirs)
    BY <1>8 DEF u
  <2> QED BY <1>7, <2>1, <2>2, <2>3 DEF StepOK
<1>17. StepOK(y, u, w)
  <2>1. y.op = "fsync" /\ y.f = f
    BY DEF FsyncCall
  <2>2. Performed(y, u.file, u.dirs, w.file, w.dirs)
    BY <1>8, <1>13, <2>1 DEF Performed, H, FsyncedIn
  <2>3. w = With(u, w.file, w.dirs)
    BY <1>8, <1>13
  <2> QED BY <1>12, <2>1, <2>2, <2>3 DEF StepOK
<1>18. ~Quiet(x) /\ ~Quiet(y)
  BY DEF Quiet, TrimCall, FsyncCall
<1> HIDE DEF w, x, y
<1>19. Via(v, <<x>>, u) /\ Via(u, <<y>>, w)
  BY <1>16, <1>17, <1>18, ViaStep
<1>20. Via(v, <<x>> \o <<y>>, w)
  BY <1>19, ViaThen
<1>21. <<x>> \o <<y>> = <<x, y>>
  BY Pair
<1>22. InOrder(v, <<x, y>>, hd, s, w)
  BY <1>12, <1>13, <1>15, <1>20, <1>21 DEF InOrder
<1> QED BY <1>22 DEF x, y

\* A part without a tail is as durable as it is long, and is not touched.
LEMMA TrimNone ==
    ASSUME NEW v, NEW m, NEW hd, NEW s, Found(v, m, hd, s), NEW f, f = Part(m.active.id),
           NEW c, c = v.file[f].live, ~(hd.len < Len(c)), IsPrefix(v.file[f].hard, c)
    PROVE  InOrder(v, << >>, hd, s, v)
<1> DEFINE F == v.file
           k == hd.len
<1>1. /\ hd.gen # 0 /\ AllLead(F, v.dirs, hd.gen, s) /\ IsLog(s) /\ IsSettled(s)
      /\ AreFiles(F) /\ f \in DOMAIN F /\ SafeActive(m.active, m.rev, F[f], s)
      /\ m.active.first \in Nat /\ Len(s.log) \in Nat
      /\ ActiveUpTo(m.active, m.rev, c, k, s) /\ LastMarker(m.active, c, m.rev) = k
      /\ IsSeq(c) /\ Len(c) \in Nat /\ k \in 2..Len(c)
  BY FoundIs
<1>2. /\ Opening(v, hd.gen, s) /\ m = ManifestAt(F, hd.gen) /\ Recovers(F, Last(v.dirs), m, hd, s)
      /\ \A p \in 1..Len(hd.parts) : hd.parts[p].id < hd.next
  BY DEF Found, Top
<1>3. k = Len(c)
  BY <1>1
<1>4. SubSeq(c, 1, k) = c
  <2>1. Len(c) \in 0..Len(c)
    BY <1>1
  <2>2. /\ IsSeq(SubSeq(c, 1, Len(c))) /\ Len(SubSeq(c, 1, Len(c))) = Len(c)
        /\ \A i \in 1..Len(c) : SubSeq(c, 1, Len(c))[i] = c[i]
    BY <1>1, <2>1, SeqPrefix
  <2> DEFINE b == SubSeq(c, 1, Len(c))
  <2> HIDE DEF b
  <2>3. b = c
    BY <1>1, <2>2, SeqSame DEF b
  <2> QED BY <1>3, <2>3 DEF b
<1>5. CutOff(F, F, f, k)
  BY <1>1, <1>4 DEF CutOff, OffFile
<1>6. GoodAs(F, v.dirs, hd, s)
  <2>1. AllLead(F, v.dirs, hd.gen, s) /\ IsSettled(s) /\ SafeActive(m.active, m.rev, F[f], s)
    BY <1>1
  <2> HIDE DEF F
  <2> QED BY <1>2, <1>5, <2>1, RecoveredGood
<1> QED BY <1>2, <1>6, ViaNone DEF InOrder

\* Nothing that garbage collection removes is used by the handle.
LEMMA OrphansUnused ==
    ASSUME NEW d, IsTable(d), NEW m, NEW hd, Describes(m, hd), NEW S,
           S = (IF d.tmp = 0 THEN {} ELSE {Cur(d.tmp)})
                 \union {Part(id) : id \in d.part \ Referenced(m)}
    PROVE  IsFiniteSet(S) /\ \A f \in S : Unused(hd, f)
<1> DEFINE A == d.part \ Referenced(m)
           X == IF d.tmp = 0 THEN {} ELSE {Cur(d.tmp)}
           Y == {Part(id) : id \in A}
           Z == {Man(n) : n \in {}}
<1>1. IsFiniteSet((X \union Y) \union Z)
  <2>1. A \subseteq d.part /\ {} \subseteq d.man
    OBVIOUS
  <2> HIDE DEF A
  <2>2. IsFiniteSet((IF d.tmp = 0 THEN {} ELSE {Cur(d.tmp)})
                         \union {Part(id) : id \in A} \union {Man(n) : n \in {}})
    BY <2>1, OrphansFinite
  <2> QED BY <2>2
<1>2. (X \union Y) \union Z = S
  OBVIOUS
<1>3. IsFiniteSet(S)
  BY <1>1, <1>2
<1>4. ASSUME NEW p \in 1..Len(hd.parts)
      PROVE  hd.parts[p].id \in Referenced(m)
  <2>1. /\ IsSeq(m.sealed) /\ Len(hd.parts) = Len(m.sealed) + 1
        /\ \A i \in 1..Len(m.sealed) : m.sealed[i] = hd.parts[i]
        /\ m.active.id = hd.parts[Len(hd.parts)].id
    BY DEF Describes
  <2>2. p \in 1..Len(m.sealed) \/ p = Len(hd.parts)
    BY <2>1, SeqIs
  <2> QED BY <2>1, <2>2 DEF Referenced
<1>5. ASSUME NEW f \in S
      PROVE  Unused(hd, f)
  <2>1. f \in X \/ f \in Y
    OBVIOUS
  <2>2. CASE f \in X
    BY <2>2 DEF Unused
  <2>3. CASE f \in Y
    <3>1. PICK n \in A : f = Part(n)
      BY <2>3
    <3>2. \A p \in 1..Len(hd.parts) : hd.parts[p].id # n
      BY <1>4, <3>1
    <3> QED BY <3>1, <3>2 DEF Unused
  <2> QED BY <2>1, <2>2, <2>3
<1> QED BY <1>3, <1>5

\* TrimPlan of the handle that recovery makes.
LEMMA TrimPlanIs ==
    ASSUME NEW m, NEW hd, NEW s, Recovers(file, Names, m, hd, s), NEW f, f = Part(m.active.id)
    PROVE  TrimPlan(hd) = TrimCalls(f, file[f].live, hd.len)
<1>1. IsHandle(hd) /\ hd.parts[Len(hd.parts)] = Desc(m.active.id, m.active.first, hd.end)
  BY DEF Recovers
<1>2. Active(hd) = hd.parts[Len(hd.parts)] /\ Len(hd.parts) \in 1..Len(hd.parts)
  BY <1>1, HandleIs
<1>3. Active(hd).id = m.active.id
  BY <1>1, <1>2 DEF Desc
<1>4. m.active.id \in Names.part
  BY <1>2, <1>3 DEF Recovers, Finds
<1>5. Read(Part(Active(hd).id)) = file[f].live
  BY <1>3, <1>4, Named, ReadIs
<1> QED BY <1>3, <1>5 DEF TrimPlan, TrimCalls

\* What a writer does when it opens a ledger leaves every directory that a
\* power loss can leave recoverable, and ends in a good ledger (led89_open_io).
LEMMA RecoveryPlanSound ==
    ASSUME NEW v, v.file = file, v.dirs = dirs, NEW g, g # 0, NEW s, Opening(v, g, s),
           NEW m, m = ManifestAt(file, g), NEW f, f = Part(m.active.id),
           IsPrefix(file[f].hard, file[f].live),
           NEW id, id = Max(Names.part \union {m.active.id}) + 1
    PROVE  Sound(v, OpenPlan(m, id))
<1> DEFINE r == RecoveredHandle(m)
           hd == [r EXCEPT !.next = id]
           gc == GcOrphans(m)
           ret == <<Return(hd, s)>>
           trim == TrimPlan(hd)
<1>1. AllLead(file, dirs, g, s) /\ IsSettled(s) /\ Top(v) = Names
  BY DEF Opening, Top, Names
<1>2. IsLog(s) /\ IsTable(Names)
  BY <1>1, NamesIs DEF AllLead
<1>3. Recovers(file, Names, m, r, s) /\ r.gen = g
  <2>1. /\ IsHandle(r) /\ r.gen = g /\ ~r.dirty /\ r.next = 0
        /\ Matches(r, s) /\ Describes(m, r) /\ Finds(file, Names, r, s.log)
        /\ ActiveUpTo(m.active, m.rev, file[Part(m.active.id)].live, r.len, s)
        /\ r.parts[Len(r.parts)] = Desc(m.active.id, m.active.first, r.end)
        /\ \A j \in 1..Len(r.dir) : r.dir[j].part = Len(r.parts) => r.dir[j].pos \in 3..r.len
    BY <1>1, RecoveredHandleIs
  <2> HIDE DEF r
  <2> QED BY <2>1 DEF Recovers
<1>4. Describes(m, r)
  BY <1>3 DEF Recovers
<1> DEFINE S == Names.part \union {m.active.id}
<1>5. id \in Nat /\ \A x \in S : x < id
  <2>1. m.active.id \in Names.part
    <3>1. /\ IsHandle(r) /\ m.active.id = r.parts[Len(r.parts)].id
          /\ \A p \in 1..Len(r.parts) : r.parts[p].id \in Names.part
      BY <1>3 DEF Recovers, Describes, Finds
    <3> HIDE DEF r
    <3>2. Len(r.parts) \in 1..Len(r.parts)
      BY <3>1, HandleIs
    <3> QED BY <3>1, <3>2
  <2>2. S = Names.part
    BY <2>1
  <2>3. S \in SUBSET Nat /\ IsFiniteSet(S)
    BY <1>2, <2>2 DEF IsTable
  <2>4. S # {} /\ id = Max(S) + 1
    OBVIOUS
  <2> HIDE DEF S
  <2> QED BY <2>3, <2>4, NextIdIs
<1> HIDE DEF r
<1>6. /\ Recovers(file, Names, m, hd, s) /\ hd.next = id /\ hd.gen = r.gen
      /\ hd.parts = r.parts /\ hd.len = r.len /\ Active(hd) = Active(r)
  BY <1>3, <1>5, RecoversNext
<1> HIDE DEF hd
<1>7. \A p \in 1..Len(hd.parts) : hd.parts[p].id < hd.next
  <2>1. \A p \in 1..Len(hd.parts) : hd.parts[p].id \in S
    BY <1>6 DEF Recovers, Finds
  <2> QED BY <1>5, <1>6, <2>1
<1>8. hd.gen = g
  BY <1>3, <1>6
<1>9. Found(v, m, hd, s)
  BY <1>1, <1>6, <1>7, <1>8 DEF Found
<1>10. trim = TrimCalls(f, file[f].live, hd.len)
  BY <1>6, TrimPlanIs
<1>11. \E w : InOrder(v, trim, hd, s, w)
  <2> DEFINE c == file[f].live
             k == hd.len
  <2>1. k \in Nat /\ Len(c) \in Nat
    <3>1. /\ ActiveUpTo(m.active, m.rev, v.file[Part(m.active.id)].live, k, s)
      BY <1>6 DEF Recovers
    <3>2. IsSeq(c) /\ k \in 2..Len(c)
      BY <3>1 DEF ActiveUpTo
    <3> QED BY <3>2, SeqIs
  <2>2. k < Len(c) \/ ~(k < Len(c))
    OBVIOUS
  <2>3. CASE k < Len(c)
    <3>1. trim = <<TrimCall(f, k), FsyncCall(f)>>
      BY <1>10, <2>1, <2>3 DEF TrimCalls
    <3>2. \E w : InOrder(v, <<TrimCall(f, k), FsyncCall(f)>>, hd, s, w)
      BY <1>9, <2>3, TrimVia
    <3> QED BY <3>1, <3>2
  <2>4. CASE ~(k < Len(c))
    <3>1. trim = << >>
      BY <1>10, <2>1, <2>4 DEF TrimCalls
    <3>2. InOrder(v, << >>, hd, s, v)
      BY <1>9, <2>4, TrimNone
    <3> QED BY <3>1, <3>2
  <2> QED BY <2>2, <2>3, <2>4
<1>12. PICK w : InOrder(v, trim, hd, s, w)
  BY <1>11
<1>13. IsSeq(gc) /\ \A i \in 1..Len(gc) : gc[i] = UnlinkCall(gc[i].f) /\ Unused(hd, gc[i].f)
  <2> DEFINE O == (IF Names.tmp = 0 THEN {} ELSE {Cur(Names.tmp)})
                    \union {Part(n) : n \in Names.part \ Referenced(m)}
  <2>1. Describes(m, hd)
    BY <1>6 DEF Recovers
  <2>2. IsFiniteSet(O) /\ \A x \in O : Unused(hd, x)
    BY <1>2, <2>1, OrphansUnused
  <2>3. gc = UnlinkAll(O)
    BY DEF GcOrphans, TmpOrphan
  <2> HIDE DEF O, gc
  <2>4. IsSeq(gc) /\ \A i \in 1..Len(gc) : gc[i] = UnlinkCall(gc[i].f) /\ gc[i].f \in O
    BY <2>2, <2>3, UnlinkAllIs
  <2> QED BY <2>2, <2>4
<1>14. LogOf(hd) = s
  <2>1. Matches(hd, s) /\ Finds(file, Names, hd, s.log)
    BY <1>6 DEF Recovers
  <2> QED BY <1>1, <1>2, <2>1, LogOfIs
<1>15. OpenPlan(m, id) = (trim \o gc) \o ret
  <2>1. id # 0
    <3>1. m.active.id \in Nat
      BY <1>3, HandleIs DEF Recovers, Describes, IsHandle, Chain
    <3> DEFINE x == m.active.id
    <3>2. x \in Nat /\ x < id /\ id \in Nat
      BY <1>5, <3>1
    <3> HIDE DEF x
    <3> QED BY ONLY <3>2
  <2> QED BY <1>14, <2>1 DEF OpenPlan, hd, r
<1> HIDE DEF trim, gc
<1>16. Sound(w, gc \o ret)
  BY <1>12, <1>13, OpeningUnlinks DEF InOrder
<1>17. IsSeq(trim) /\ IsSeq(ret) /\ IsSeq(gc)
  BY <1>12, <1>13, SeqOne DEF InOrder, Via
<1> HIDE DEF ret
<1>18. IsSeq(gc \o ret)
  BY <1>17, SeqCat
<1>19. Sound(v, trim \o (gc \o ret))
  BY <1>12, <1>16, <1>18, ViaSound DEF InOrder
<1>20. (trim \o gc) \o ret = trim \o (gc \o ret)
  BY <1>17, SeqAssoc
<1> QED BY <1>15, <1>19, <1>20

---------------------------------------------------------------------------
\* The log of a new ledger.
LEMMA EmptyLogIs ==
    ASSUME NEW s, s = EmptyLog
    PROVE  /\ IsLog(s) /\ IsSettled(s) /\ StableLog(s) = s /\ s.log = << >> /\ Len(s.log) = 0
           /\ s.first = 1 /\ s.stable = 1 /\ s.rev = 0
           /\ \A S : s \in S => s \in CutsOf(S)
<1>1. s.log = << >> /\ s.first = 1 /\ s.stable = 1 /\ s.rev = 0
      /\ s = [log |-> s.log, first |-> s.first, stable |-> s.stable, rev |-> s.rev]
  BY DEF EmptyLog
<1>2. IsSeq(s.log) /\ Len(s.log) = 0
  BY <1>1, SeqEmpty
<1>3. s.log \in Seq(Value \union {Gone})
  <2>1. \A i \in 1..Len(s.log) : s.log[i] \in Value \union {Gone}
    BY <1>2
  <2> QED BY <1>2, <2>1, SeqIn
<1>4. IsLog(s)
  <2>1. s.first \in 1..Len(s.log) + 1 /\ s.stable \in s.first..Len(s.log) + 1 /\ s.rev \in Nat
    BY <1>1, <1>2
  <2>2. \A i \in 1..s.first - 1 : s.log[i] = Gone
    BY <1>1
  <2> HIDE DEF EmptyLog
  <2> QED BY <1>1, <1>3, <2>1, <2>2 DEF IsLog
<1>5. IsSettled(s)
  BY <1>1, <1>2 DEF IsSettled
<1>6. StableLog(s) = s
  BY <1>4, <1>5, StableIs
<1>7. ASSUME NEW S, s \in S
      PROVE  s \in CutsOf(S)
  <2>1. s.stable \in s.stable..Len(s.log) + 1
    BY <1>1, <1>2
  <2>2. CutAt(s, s.stable) \in Log!Cuts(s)
    BY <1>4, <2>1, CutIs
  <2>3. s \in Log!Cuts(s)
    BY <1>6, <2>2 DEF StableLog
  <2> QED BY <1>7, <2>3 DEF CutsOf
<1> QED BY <1>1, <1>2, <1>4, <1>5, <1>6, <1>7

\* The handle of a new ledger.
LEMMA NewHandleIs ==
    ASSUME NEW hd, hd = NewHandle, NEW q, q = Desc(1, 1, 1)
    PROVE  /\ IsHandle(hd) /\ hd.gen = 1 /\ hd.rev = 0 /\ hd.first = 1 /\ hd.end = 1
           /\ hd.stable = 1 /\ hd.next = 2 /\ hd.len = 2 /\ hd.dir = << >>
           /\ hd.parts = <<q>> /\ Len(hd.parts) = 1 /\ hd.parts[1] = q
           /\ Chain(hd.parts, 1) /\ q.id = 1 /\ q.first = 1 /\ q.end = 1 /\ Base(q) = q
<1> DEFINE p == <<q>>
           e == << >>
<1>1. hd = HandleOf(1, 0, 1, 1, 1, FALSE, 2, p, 1, 2, e)
  BY DEF NewHandle, HandleOf
<1>2. IsSeq(p) /\ Len(p) = 1 /\ p[1] = q
  BY SeqOne
<1>3. q.id = 1 /\ q.first = 1 /\ q.end = 1 /\ q = Desc(q.id, q.first, q.end)
  BY DEF Desc
<1>4. Base(q) = q
  BY <1>3 DEF Base
<1>5. IsSeq(e) /\ Len(e) = 0
  BY SeqEmpty
<1> HIDE DEF p, e
<1>6. /\ hd.gen = 1 /\ hd.rev = 0 /\ hd.first = 1 /\ hd.end = 1 /\ hd.stable = 1
      /\ hd.dirty = FALSE /\ hd.next = 2 /\ hd.parts = p /\ hd.active = 1
      /\ hd.len = 2 /\ hd.dir = e
  BY ONLY <1>1 DEF HandleOf
<1>7. Chain(p, 1) /\ Rising(p)
  <2>1. \A i \in 1..Len(p) : i = 1
    BY <1>2
  <2>2. Chain(p, 1)
    <3>1. \A i \in 1..Len(p) - 1 : FALSE
      BY <1>2
    <3>2. Len(p) > 0 /\ p[1].first = 1 /\ 1 \in Nat
      BY <1>2, <1>3
    <3>3. \A i \in 1..Len(p) :
            /\ p[i] = Desc(p[i].id, p[i].first, p[i].end)
            /\ p[i].id \in Nat /\ p[i].first \in Nat /\ p[i].end \in Nat
      BY <1>2, <1>3, <2>1
    <3> QED BY <1>2, <2>1, <3>1, <3>2, <3>3 DEF Chain
  <2>3. Rising(p)
    BY <1>2, <1>3, <2>1 DEF Rising
  <2> QED BY <2>2, <2>3
<1>8. IsHandle(hd)
  <2>1. InRange(hd)
    <3>1. \A i \in 1..Len(e) : FALSE
      BY <1>5
    <3> QED BY <1>6, <3>1 DEF InRange
  <2>2. 1 = Len(p) /\ 1 \in Nat \ {0} /\ 2 \in Nat /\ FALSE \in BOOLEAN
    BY <1>2
  <2> QED BY <1>1, <1>7, <2>1, <2>2, HandleIntro
<1> QED BY <1>2, <1>3, <1>4, <1>6, <1>7, <1>8 DEF p, e

\* A directory without a CURRENT: opening creates a ledger in it.
Blank(v) ==
    /\ v.mode = "opening" /\ AreFiles(v.file) /\ AllLead(v.file, v.dirs, 0, EmptyLog)
    /\ EmptyLog \in Logs(v) /\ \A l \in Logs(v) : IsLog(l)

\* It is the directory of an empty ledger.
LEMMA BlankSteady ==
    ASSUME NEW v, Blank(v)
    PROVE  Steady(v) /\ Tells(v, EmptyLog)
<1>1. Safe(v.file, v.dirs, Logs(v))
  BY AllLeadSafe DEF Blank
<1>2. Steady(v)
  BY <1>1 DEF Steady, Blank
<1>3. Tells(v, EmptyLog)
  BY EmptyLogIs DEF Tells, Blank
<1> QED BY <1>2, <1>3

\* The first part of a new ledger: its directory is ready for a manifest.
LEMMA FirstPart ==
    ASSUME NEW v, Blank(v)
    PROVE  \E w : /\ Via(v, PartCreate(1, 1, 0), w) /\ Blank(w) /\ Steady(w)
                  /\ PartsHold(w.file, Top(w), <<Desc(1, 1, 1)>>, EmptyLog)
                  /\ w.file[Part(1)].live = Fresh(1, 0, 1) /\ w.file[Part(1)].hard = Fresh(1, 0, 1)
<1> DEFINE s == EmptyLog
           f == Part(1)
           c == Fresh(1, 0, 1)
           q == Desc(1, 1, 1)
           ps == <<q>>
<1>1. /\ v.mode = "opening" /\ AllLead(v.file, v.dirs, 0, s) /\ s \in Logs(v)
      /\ \A l \in Logs(v) : IsLog(l)
  BY DEF Blank
<1>2. Steady(v)
  BY BlankSteady
<1>3. Spare(v, f)
  <2>1. \A k \in 1..Len(v.dirs) : v.dirs[k].cur = 0
    BY <1>1 DEF AllLead
  <2>2. Free(v.file, v.dirs, f)
    BY <2>1 DEF Free, FreeOf
  <2> QED BY <1>1, <2>2 DEF Spare
<1>4. \E w : Makes(v, PartCreate(1, 1, 0), f, c, w)
  <2>1. 1 \in Nat
    OBVIOUS
  <2>2. \E w : Makes(v, PartCreate(1, 1, 0), Part(1), <<Header(1, 0, 1), Marker(1, 0, 1)>>, w)
    BY <1>2, <1>3, <2>1, PartMade
  <2> QED BY <2>2 DEF Fresh
<1>5. PICK w : Makes(v, PartCreate(1, 1, 0), f, c, w)
  BY <1>4
<1>6. /\ Via(v, PartCreate(1, 1, 0), w) /\ Steady(w) /\ KeepsAll(v, w)
      /\ w = With(v, w.file, w.dirs) /\ f \in DOMAIN w.file
      /\ w.file[f].live = c /\ w.file[f].hard = c /\ Top(w) = AddName(Top(v), f)
  BY <1>5 DEF Makes, Fills
<1>7. w.mode = "opening" /\ Logs(w) = Logs(v)
  BY <1>1, <1>6, WithIs
<1>8. AllLead(w.file, w.dirs, 0, s)
  BY <1>1, <1>6 DEF KeepsAll
<1>9. Blank(w)
  BY <1>1, <1>6, <1>7, <1>8, SteadyIs DEF Blank
<1>10. 1 \in Top(w).part
  <2>1. Top(w) = [Top(v) EXCEPT !.part = @ \union {1}]
    BY <1>6 DEF AddName, Part
  <2>2. IsTable(Top(v))
    BY <1>2, SteadyIs
  <2> QED BY <2>1, <2>2 DEF IsTable
<1>11. q.id = 1 /\ q.first = 1 /\ Base(q) = q /\ Len(ps) = 1 /\ ps[1] = q
  BY NewHandleIs
<1>12. GoodActive(q, 0, c, s)
  <2>1. 1 \in s.stable..Len(s.log) + 1
    BY EmptyLogIs
  <2>2. 1 \in Nat /\ q.id = 1 /\ q.first = 1
    BY <1>11
  <2> HIDE DEF s, q
  <2> QED BY <2>1, <2>2, FreshIs
<1> HIDE DEF c, q, f
<1>13. SafeActive(q, 0, w.file[f], s)
  <2> DEFINE e == w.file[f]
  <2>1. e.hard = e.live /\ GoodActive(q, 0, e.live, s)
    BY <1>6, <1>12
  <2> HIDE DEF e, s
  <2>2. SafeActive(q, 0, e, s)
    BY <2>1, SafeHard
  <2> QED BY <2>2 DEF e
<1>14. s.rev = 0
  BY EmptyLogIs
<1> HIDE DEF s, ps
<1>15. PartsHold(w.file, Top(w), ps, s)
  <2>1. \A i \in 1..Len(ps) : ps[i].id \in Top(w).part /\ Part(ps[i].id) \in DOMAIN w.file
    BY <1>6, <1>10, <1>11 DEF f
  <2>2. \A i \in 1..Len(ps) - 1 : FALSE
    BY <1>11
  <2>3. SafeActive(Base(ps[Len(ps)]), s.rev, w.file[Part(ps[Len(ps)].id)], s)
    BY <1>11, <1>13, <1>14 DEF f
  <2> QED BY <2>1, <2>2, <2>3 DEF PartsHold
<1>16. /\ w.file[f].live = c /\ w.file[f].hard = c
  BY <1>6
<1> QED BY <1>6, <1>9, <1>15, <1>16 DEF s, f, c, ps, q

\* The handle of a new ledger is the one of a good ledger.
LEMMA NewHandleGood ==
    ASSUME NEW F, AreFiles(F), NEW ds, AllLead(F, ds, 1, EmptyLog),
           PartsHold(F, Last(ds), <<Desc(1, 1, 1)>>, EmptyLog),
           F[Part(1)].live = Fresh(1, 0, 1), F[Part(1)].hard = Fresh(1, 0, 1),
           Describes(ManifestAt(F, 1), NewHandle)
    PROVE  GoodAs(F, ds, NewHandle, EmptyLog)
<1> DEFINE hd == NewHandle
           s == EmptyLog
           q == Desc(1, 1, 1)
           ps == hd.parts
           c == Fresh(1, 0, 1)
<1>1. /\ IsHandle(hd) /\ hd.gen = 1 /\ hd.rev = 0 /\ hd.first = 1 /\ hd.end = 1
      /\ hd.stable = 1 /\ hd.next = 2 /\ hd.len = 2 /\ hd.dir = << >>
      /\ ps = <<q>> /\ Len(ps) = 1 /\ ps[1] = q
      /\ Chain(ps, 1) /\ q.id = 1 /\ q.first = 1 /\ q.end = 1
  BY NewHandleIs
<1>2. /\ IsLog(s) /\ StableLog(s) = s /\ Len(s.log) = 0 /\ s.first = 1 /\ s.stable = 1 /\ s.rev = 0
  BY EmptyLogIs
<1>3. PartsHold(F, Last(ds), ps, s)
  BY <1>1
<1> HIDE DEF hd, s, q
<1>4. Matches(hd, s)
  BY <1>1, <1>2 DEF Matches
<1>5. Finds(F, Last(ds), hd, s.log)
  <2>1. IsSeq(ps)
    BY <1>1 DEF Chain
  <2>2. \A p \in 1..Len(ps) : ps[p].id \in Last(ds).part /\ Part(ps[p].id) \in DOMAIN F
    BY <1>3 DEF PartsHold
  <2>3. Linked(hd.dir, hd.first, hd.end)
    <3>1. Linked(<< >>, 1, 1)
      BY LinkedEmpty
    <3> QED BY <1>1, <3>1
  <2>4. \A i \in 1..Len(hd.dir) : FALSE
    BY <1>1, SeqEmpty
  <2> QED BY <2>1, <2>2, <2>3, <2>4 DEF Finds
<1>6. Whole(F, hd, s.log)
  <2> DEFINE log == s.log
  <2>1. 1 \in Nat /\ q.id = 1 /\ q.first = 1
    BY <1>1
  <2> HIDE DEF log
  <2>2. Len(c) = 2 /\ IsSeq(c) /\ Holds(q, c, 1, log)
    BY <2>1, FreshIs
  <2>3. F[Part(q.id)].live = c /\ F[Part(q.id)].hard = c
    BY <1>1
  <2> HIDE DEF c
  <2>4. GoodPart(q, c, Len(c), log) /\ 1 = Expected(q, c, Len(c))
    BY <2>2 DEF Holds
  <2>5. IsPrefix(c, c)
    BY <2>2, PrefixIs, SeqIs
  <2> QED BY <1>1, <2>2, <2>3, <2>4, <2>5 DEF Whole, log
<1>7. \A p \in 1..Len(ps) : ps[p].id < hd.next
  <2>1. \A p \in 1..Len(ps) : p = 1
    BY <1>1
  <2> QED BY <1>1, <2>1
<1>8. AllLead(F, ds, hd.gen, StableLog(s)) /\ Describes(ManifestAt(F, hd.gen), hd)
  BY <1>1, <1>2 DEF s, hd
<1>9. GoodAs(F, ds, hd, s)
  BY <1>1, <1>2, <1>4, <1>5, <1>6, <1>7, <1>8 DEF GoodAs
<1> QED BY <1>9 DEF hd, s

\* Publishing its manifest makes a ledger of the directory.
LEMMA FirstPublished ==
    ASSUME NEW v, Blank(v), Steady(v), NEW m, m = ManifestOf(NewHandle, 1, 0),
           PartsHold(v.file, Top(v), <<Desc(1, 1, 1)>>, EmptyLog),
           v.file[Part(1)].live = Fresh(1, 0, 1), v.file[Part(1)].hard = Fresh(1, 0, 1)
    PROVE  \E w : /\ Via(v, ManifestPublish(m) \o CurrentPublish(1), w) /\ Tells(w, EmptyLog)
                  /\ GoodAs(w.file, w.dirs, NewHandle, EmptyLog)
<1> DEFINE hd == NewHandle
           s == EmptyLog
           ps == <<Desc(1, 1, 1)>>
           c == Fresh(1, 0, 1)
<1>1. /\ hd.first = 1 /\ hd.parts = ps /\ Chain(hd.parts, 1)
  BY NewHandleIs
<1>2. /\ IsLog(s) /\ s.first = 1 /\ s.rev = 0 /\ \A S : s \in S => s \in CutsOf(S)
  BY EmptyLogIs
<1>3. Ready(v.file, Top(v), m, s) /\ m.gen = 1 /\ m.rev = 0 /\ Portrays(m, hd)
  <2> HIDE DEF hd, s
  <2>1. Publishable(hd, s.rev)
    BY <1>1, <1>2 DEF Publishable
  <2>2. PartsHold(v.file, Top(v), hd.parts, s) /\ m = ManifestOf(hd, 1, s.rev)
    BY <1>1, <1>2 DEF hd, s
  <2>3. Renders(v.file, Top(v), hd, s, 1, m)
    BY <1>1, <1>2, <2>1, <2>2 DEF Renders
  <2>4. Ready(v.file, Top(v), m, s) /\ m.gen = 1 /\ m.rev = s.rev /\ Portrays(m, hd)
    BY ONLY <2>3, ReadyOf
  <2> QED BY <1>2, <2>4
<1>4. Describes(m, hd)
  BY <1>3, NewHandleIs DEF Portrays
<1>5. /\ v.mode = "opening" /\ AllLead(v.file, v.dirs, 0, s) /\ s \in Logs(v)
  BY DEF Blank
<1> HIDE DEF hd, s
<1>6. Backs(v, s)
  BY <1>5, BacksSelf
<1>7. \E w : Publishes(v, m, s, w)
  <2>1. m.gen \in Nat /\ m.gen # 0
    BY <1>3
  <2> DEFINE F == v.file
             ds == v.dirs
             d == Top(v)
             z == 0
  <2>2. /\ AllLead(v.file, v.dirs, z, s) /\ m.gen # z
    BY <1>5, <2>1
  <2> HIDE DEF z
  <2>3. \E w : Publishes(v, m, s, w)
    BY <1>3, <1>6, <2>1, <2>2, PublishVia
  <2> QED BY <2>3
<1>8. PICK w : Publishes(v, m, s, w)
  BY <1>7
<1>9. /\ Via(v, ManifestPublish(m) \o CurrentPublish(1), w) /\ Steady(w)
      /\ w = With(v, w.file, w.dirs) /\ KeepsParts(v, w)
      /\ AllLead(w.file, w.dirs, 1, s) /\ ManifestAt(w.file, 1) = m
  BY <1>3, <1>8 DEF Publishes
<1>10. w.mode = "opening" /\ Logs(w) = Logs(v)
  BY <1>5, <1>9, WithIs
<1>11. Tells(w, s)
  BY <1>2, <1>5, <1>10 DEF Tells
<1>12. /\ w.file[Part(1)].live = c /\ w.file[Part(1)].hard = c
       /\ PartsHold(w.file, Top(w), ps, s)
  <2> DEFINE q == Desc(1, 1, 1)
  <2>1. q.id = 1 /\ Len(ps) = 1 /\ ps[1] = q /\ Base(q) = q
    BY NewHandleIs
  <2> HIDE DEF ps, q
  <2>2. /\ 1 \in Top(v).part /\ Part(1) \in DOMAIN v.file
        /\ SafeActive(q, s.rev, v.file[Part(1)], s)
    <3>1. PartsHold(v.file, Top(v), ps, s)
      BY DEF ps, s
    <3> QED BY <2>1, <3>1 DEF PartsHold
  <2>3. /\ 1 \in Top(w).part /\ Part(1) \in DOMAIN w.file /\ w.file[Part(1)] = v.file[Part(1)]
    BY <1>9, <2>2 DEF KeepsParts
  <2>4. \A i \in 1..Len(ps) : i = 1
    BY <2>1
  <2>5. \A i \in 1..Len(ps) - 1 : FALSE
    BY <2>1
  <2>6. PartsHold(w.file, Top(w), ps, s)
    BY <2>1, <2>2, <2>3, <2>4, <2>5 DEF PartsHold
  <2> QED BY <2>3, <2>6
<1>13. GoodAs(w.file, w.dirs, hd, s)
  <2>1. AreFiles(w.file)
    BY <1>9, SteadyIs
  <2>2. Describes(ManifestAt(w.file, 1), hd)
    BY <1>4, <1>9
  <2> QED BY <1>9, <1>12, <2>1, <2>2, NewHandleGood DEF hd, s, Top
<1> QED BY <1>9, <1>11, <1>13 DEF hd, s

\* Creating a ledger, once the directory is clean (led89_create_ledger).
CreateRest ==
    (PartCreate(1, 1, 0)
     \o (ManifestPublish(ManifestOf(NewHandle, 1, 0)) \o CurrentPublish(1)))
    \o <<Return(NewHandle, EmptyLog)>>

\* It ends in a good ledger.
LEMMA CreateRestSound ==
    ASSUME NEW v, Blank(v)
    PROVE  Sound(v, CreateRest)
<1> DEFINE a == PartCreate(1, 1, 0)
           m == ManifestOf(NewHandle, 1, 0)
           b == ManifestPublish(m) \o CurrentPublish(1)
           ret == <<Return(NewHandle, EmptyLog)>>
<1>1. \E w : /\ Via(v, a, w) /\ Blank(w) /\ Steady(w)
             /\ PartsHold(w.file, Top(w), <<Desc(1, 1, 1)>>, EmptyLog)
             /\ w.file[Part(1)].live = Fresh(1, 0, 1) /\ w.file[Part(1)].hard = Fresh(1, 0, 1)
  BY FirstPart
<1>2. PICK w : /\ Via(v, a, w) /\ Blank(w) /\ Steady(w)
               /\ PartsHold(w.file, Top(w), <<Desc(1, 1, 1)>>, EmptyLog)
               /\ w.file[Part(1)].live = Fresh(1, 0, 1) /\ w.file[Part(1)].hard = Fresh(1, 0, 1)
  BY <1>1
<1>3. \E x : Via(w, b, x) /\ Tells(x, EmptyLog) /\ GoodAs(x.file, x.dirs, NewHandle, EmptyLog)
  BY <1>2, FirstPublished
<1>4. PICK x : Via(w, b, x) /\ Tells(x, EmptyLog) /\ GoodAs(x.file, x.dirs, NewHandle, EmptyLog)
  BY <1>3
<1>5. Sound(x, ret)
  BY <1>4, OpeningReturns
<1>6. IsSeq(ret)
  BY SeqOne
<1> HIDE DEF a, b, ret
<1>7. Via(v, a \o b, x)
  BY <1>2, <1>4, ViaThen
<1>8. Sound(v, (a \o b) \o ret)
  BY <1>5, <1>6, <1>7, ViaSound
<1> QED BY <1>8 DEF CreateRest, a, b, ret, m

\* The plan of creating a ledger is made of sequences.
LEMMA CreateSeqs ==
    /\ IsSeq(PartCreate(1, 1, 0)) /\ IsSeq(ManifestPublish(ManifestOf(NewHandle, 1, 0)))
    /\ IsSeq(CurrentPublish(1)) /\ IsSeq(<<Return(NewHandle, EmptyLog)>>)
<1>1. \A id, first, rev : IsSeq(PartCreate(id, first, rev))
  BY SeqFour DEF PartCreate
<1>2. \A m : IsSeq(ManifestPublish(m)) /\ \A g : IsSeq(CurrentPublish(g))
  BY PublishSeq
<1> QED BY <1>1, <1>2, SeqOne

\* Cleaning the directory first removes nothing that is needed
\* (led89_clean_dir_for_create).
LEMMA CreateCleans ==
    ASSUME NEW v, Blank(v), NEW q, IsSeq(q),
           \A i \in 1..Len(q) : q[i] = UnlinkCall(q[i].f) /\ Needless(v.file, 0, q[i].f)
    PROVE  Sound(v, q \o CreateRest)
<1> DEFINE F == v.file
           s == EmptyLog
           E == {es \in Seq(Tables) : AllLead(F, es, 0, s)}
<1>1. /\ v.mode = "opening" /\ AreFiles(F) /\ AllLead(F, v.dirs, 0, s)
      /\ s \in Logs(v) /\ \A l \in Logs(v) : IsLog(l)
  BY DEF Blank
<1>2. ASSUME NEW es, AllLead(F, es, 0, s)
      PROVE  es \in Seq(Tables)
  <2> DEFINE z == 0
  <2>1. AllLead(F, es, z, s)
    BY <1>2
  <2> HIDE DEF z, F, s
  <2> QED BY <2>1, TablesAre
<1>3. ASSUME NEW es \in E
      PROVE  Steady(With(v, F, es)) /\ Sound(With(v, F, es), CreateRest)
  <2> DEFINE w == With(v, F, es)
  <2>1. /\ w.file = F /\ w.dirs = es /\ w.mode = v.mode /\ Logs(w) = Logs(v)
    BY WithIs
  <2> HIDE DEF w
  <2>2. AllLead(w.file, w.dirs, 0, s)
    BY <2>1
  <2>3. Blank(w)
    BY <1>1, <2>1, <2>2 DEF Blank
  <2>4. Steady(w) /\ Sound(w, CreateRest)
    BY <2>3, BlankSteady, CreateRestSound
  <2> QED BY <2>4 DEF w
<1>4. ASSUME NEW i \in 1..Len(q), NEW es \in E
      PROVE  NamedIn(es, Unlinked(Last(es), q[i].f)) \in E
  <2> DEFINE f == q[i].f
             fs == NamedIn(es, Unlinked(Last(es), f))
             z == 0
  <2>1. Needless(F, z, f) /\ AllLead(F, es, z, s)
    OBVIOUS
  <2> HIDE DEF F, f, s, z
  <2>2. AllLead(F, fs, z, s)
    BY <2>1, UnlinkLeads
  <2> HIDE DEF fs
  <2>3. fs \in E
    BY <1>2, <2>2 DEF z
  <2> QED BY <2>3 DEF fs, f
<1>5. v.dirs \in E
  BY <1>1, <1>2
<1>6. Sound(v, CreateRest)
  BY CreateRestSound
<1>7. IsSeq(CreateRest)
  <2>1. Sound(v, CreateRest)
    BY <1>6
  <2> DEFINE a == PartCreate(1, 1, 0)
             m == ManifestOf(NewHandle, 1, 0)
             b == ManifestPublish(m)
             k == CurrentPublish(1)
             ret == <<Return(NewHandle, EmptyLog)>>
  <2>2. IsSeq(a) /\ IsSeq(b) /\ IsSeq(k) /\ IsSeq(ret)
    BY CreateSeqs
  <2> HIDE DEF a, b, k, ret
  <2>3. IsSeq(b \o k)
    BY <2>2, SeqCat
  <2>4. IsSeq(a \o (b \o k))
    BY <2>2, <2>3, SeqCat
  <2>5. IsSeq((a \o (b \o k)) \o ret)
    BY <2>2, <2>4, SeqCat
  <2> QED BY <2>5 DEF CreateRest, a, b, k, ret, m
<1>8. \A es \in E : Steady(With(v, F, es)) /\ Sound(With(v, F, es), CreateRest)
  BY <1>3
<1> HIDE DEF E
<1> QED BY <1>4, <1>5, <1>6, <1>7, <1>8, UnlinkRun

\* A new ledger has no records.
LEMMA NewLogIs == LogOf(NewHandle) = EmptyLog
<1> DEFINE hd == NewHandle
           l == [i \in 1..hd.end - 1 |-> IF i < hd.first THEN Gone ELSE ReadRecord(hd, i)]
<1>1. hd.end = 1 /\ hd.first = 1 /\ hd.stable = 1 /\ hd.rev = 0
  BY NewHandleIs
<1>2. l = << >>
  <2>1. DOMAIN l = 1..0
    BY <1>1
  <2> HIDE DEF hd
  <2>2. IsSeq(l) /\ Len(l) = 0
    <3>1. l \in [1..0 -> {}]
      BY <1>1
    <3> HIDE DEF l
    <3>2. l \in Seq({}) /\ Len(l) = 0
      BY <3>1
    <3> QED BY <3>2, <2>1 DEF IsSeq
  <2> QED BY <2>2, SeqEmpty
<1>3. LogOf(hd) = [log |-> l, first |-> 1, stable |-> 1, rev |-> 0]
  <2> HIDE DEF hd
  <2> QED BY <1>1 DEF LogOf
<1> HIDE DEF l
<1> QED BY <1>2, <1>3 DEF EmptyLog, hd

\* Creating a ledger in a directory that holds none: every file is removed and
\* the first part, manifest and CURRENT are written (led89_create_ledger).
LEMMA CreatePlanSound ==
    ASSUME NEW v, v.file = file, v.dirs = dirs, Blank(v)
    PROVE  Sound(v, CreateLedger)
<1> DEFINE O == ((IF Names.tmp = 0 THEN {} ELSE {Cur(Names.tmp)})
                  \union {Part(id) : id \in Names.part}) \union {Man(n) : n \in Names.man}
           q == UnlinkAll(O)
           a == PartCreate(1, 1, 0)
           b == ManifestPublish(ManifestOf(NewHandle, 1, 0))
           c == CurrentPublish(1)
           r == <<Return(NewHandle, EmptyLog)>>
<1>1. IsTable(Names)
  BY NamesIs DEF Blank, AllLead, Names, Last
<1>2. IsFiniteSet(O)
  <2> DEFINE d == Names
             A == d.part
             B == d.man
  <2>1. IsTable(d) /\ A \subseteq d.part /\ B \subseteq d.man
    BY <1>1
  <2> HIDE DEF d, A, B
  <2>2. IsFiniteSet((IF d.tmp = 0 THEN {} ELSE {Cur(d.tmp)})
                     \union {Part(id) : id \in A} \union {Man(n) : n \in B})
    BY <2>1, OrphansFinite
  <2> QED BY <2>2 DEF d, A, B
<1>3. \A x \in O : Needless(v.file, 0, x)
  BY DEF Needless
<1> HIDE DEF O
<1>4. IsSeq(q) /\ \A i \in 1..Len(q) : q[i] = UnlinkCall(q[i].f) /\ q[i].f \in O
  BY <1>2, UnlinkAllIs
<1>5. CreateLedger = (((q \o a) \o b) \o c) \o r
  BY NewLogIs DEF CreateLedger, TmpOrphan, O
<1> HIDE DEF q
<1>6. \A i \in 1..Len(q) : q[i] = UnlinkCall(q[i].f) /\ Needless(v.file, 0, q[i].f)
  BY <1>3, <1>4
<1>7. Sound(v, q \o CreateRest)
  BY <1>4, <1>6, CreateCleans
<1>8. IsSeq(a) /\ IsSeq(b) /\ IsSeq(c) /\ IsSeq(r)
  BY CreateSeqs
<1>9. CreateRest = (a \o (b \o c)) \o r
  BY DEF CreateRest
<1> HIDE DEF a, b, c, r
<1>10. (((q \o a) \o b) \o c) \o r = q \o ((a \o (b \o c)) \o r)
  <2>1. Cat(Cat(q, a), b) = Cat(q, Cat(a, b)) /\ IsSeq(Cat(q, a)) /\ IsSeq(Cat(a, b))
    BY <1>4, <1>8, CatAssoc
  <2>2. Cat(Cat(q, Cat(a, b)), c) = Cat(q, Cat(Cat(a, b), c))
    BY <1>4, <1>8, <2>1, CatAssoc
  <2>3. Cat(Cat(a, b), c) = Cat(a, Cat(b, c)) /\ IsSeq(Cat(b, c))
    BY <1>8, CatAssoc
  <2>4. IsSeq(Cat(a, Cat(b, c)))
    BY <1>8, <2>3, CatAssoc
  <2>5. Cat(Cat(q, Cat(a, Cat(b, c))), r) = Cat(q, Cat(Cat(a, Cat(b, c)), r))
    BY <1>4, <1>8, <2>4, CatAssoc
  <2>6. Cat(Cat(Cat(Cat(q, a), b), c), r) = Cat(q, Cat(Cat(a, Cat(b, c)), r))
    BY <2>1, <2>2, <2>3, <2>5
  <2> QED BY <2>6 DEF Cat
<1> QED BY <1>5, <1>7, <1>9, <1>10

---------------------------------------------------------------------------
(* Opening a ledger that has been closed.                                  *)

\* Nothing has been cut off the active part since it was last synced.
Tidy(F, g) ==
    g # 0 => LET f == F[Part(ManifestAt(F, g).active.id)]
             IN IsPrefix(f.hard, f.live)

\* The world that opening starts in.
Shut(v) ==
    /\ v.mode = "opening" /\ AreFiles(v.file)
    /\ Safe(v.file, v.dirs, Logs(v)) /\ Closed(v.file, v.dirs, Logs(v))
    /\ Tidy(v.file, Top(v).cur)

\* There is one way to open a ledger, if the directory can be listed.
LEMMA OpenPlansAre ==
    ASSUME NEW g, NEW s, AllLead(file, dirs, g, s), g # 0, "list" \notin Faults,
           NEW m, m = ManifestAt(file, g), NEW p \in OpenPlans
    PROVE  p = OpenPlan(m, Max(Names.part \union {m.active.id}) + 1)
<1>1. Recovered = {m} /\ Names.cur = g
  BY RecoveredIs, NamesIs
<1>2. NextFileIds(m) = {Max(Names.part \union {m.active.id}) + 1}
  BY DEF NextFileIds
<1>3. OpenPlans = UNION {{OpenPlan(x, id) : id \in NextFileIds(x)} : x \in Recovered}
  BY <1>1 DEF OpenPlans
<1>4. PICK x \in Recovered : \E id \in NextFileIds(x) : p = OpenPlan(x, id)
  BY <1>3
<1>5. PICK id \in NextFileIds(x) : p = OpenPlan(x, id)
  BY <1>4
<1>6. x = m
  BY <1>1
<1>7. id = Max(Names.part \union {m.active.id}) + 1
  BY <1>2, <1>6
<1> QED BY <1>5, <1>6, <1>7

\* Every table of a closed directory without CURRENT leads to the empty log.
LEMMA ShutBlank ==
    ASSUME NEW v, Shut(v), Top(v).cur = 0
    PROVE  Blank(v)
<1> DEFINE F == v.file
           ds == v.dirs
           S == Logs(v)
<1>1. /\ Safe(F, ds, S) /\ Closed(F, ds, S) /\ Last(ds).cur = 0
  BY DEF Shut, Top
<1>2. PICK s \in CutsOf(S) : AllLead(F, ds, 0, s)
  BY <1>1 DEF Closed
<1> HIDE DEF F, ds, S
<1>3. 1 \in 1..Len(ds)
  BY <1>2, SeqIs DEF AllLead
<1>4. /\ ds[1].cur = 0 /\ Leads(F, ds[1], s)
  BY <1>2, <1>3 DEF AllLead
<1>5. PICK t \in S : Leads(F, ds[1], t)
  BY <1>1, <1>3 DEF Safe
<1>6. s = EmptyLog /\ t = EmptyLog
  BY <1>4, <1>5 DEF Leads
<1>7. /\ AllLead(F, ds, 0, EmptyLog) /\ EmptyLog \in S /\ \A l \in S : IsLog(l)
  BY <1>1, <1>2, <1>5, <1>6 DEF Safe
<1> QED BY <1>7 DEF Shut, Blank, F, ds, S

\* Every table of a closed directory leads to what remains of a log.
LEMMA ShutOpens ==
    ASSUME NEW v, Shut(v), NEW g, g = Top(v).cur
    PROVE  \E s : Opening(v, g, s)
<1>1. PICK s \in CutsOf(Logs(v)) : IsSettled(s) /\ AllLead(v.file, v.dirs, g, s)
  BY DEF Shut, Closed, Top
<1>2. \A l \in Logs(v) : IsLog(l)
  BY DEF Shut, Safe
<1>3. Opening(v, g, s)
  BY <1>1, <1>2 DEF Opening, Shut
<1> QED BY <1>3

\* Whatever a writer does to open a directory or to create a ledger in it
\* leads to a ledger that works (led89_open_io).
LEMMA OpenPlanSound ==
    ASSUME NEW v, v.file = file, v.dirs = dirs, Shut(v), "list" \notin Faults,
           NEW p \in OpenPlans
    PROVE  Sound(v, p) /\ Steady(v)
<1>1. Top(v) = Names
  BY DEF Top, Names
<1>2. CASE Names.cur = 0
  <2>1. Blank(v)
    BY <1>1, <1>2, ShutBlank
  <2>2. p = CreateLedger
    BY <1>2 DEF OpenPlans
  <2>3. Sound(v, CreateLedger)
    BY <2>1, CreatePlanSound
  <2> QED BY <2>1, <2>2, <2>3, BlankSteady
<1>3. CASE Names.cur # 0
  <2> DEFINE g == Names.cur
             m == ManifestAt(file, g)
             f == Part(m.active.id)
             id == Max(Names.part \union {m.active.id}) + 1
  <2>1. PICK s : Opening(v, g, s)
    BY <1>1, ShutOpens
  <2>2. AllLead(file, dirs, g, s)
    BY <2>1 DEF Opening
  <2>3. p = OpenPlan(m, id)
    BY <1>3, <2>2, OpenPlansAre
  <2>4. IsPrefix(file[f].hard, file[f].live)
    BY <1>1, <1>3 DEF Shut, Tidy
  <2> HIDE DEF g, m, f, id
  <2>5. Sound(v, OpenPlan(m, id))
    <3>1. /\ g # 0 /\ m = ManifestAt(file, g) /\ f = Part(m.active.id)
          /\ id = Max(Names.part \union {m.active.id}) + 1
      BY <1>3 DEF g, m, f, id
    <3> QED BY <2>1, <2>4, <3>1, RecoveryPlanSound
  <2>6. Steady(v)
    BY <1>3, <2>1, OpeningSteady DEF g
  <2> QED BY <2>3, <2>5, <2>6
<1> QED BY <1>2, <1>3

---------------------------------------------------------------------------
(* What holds between two steps.                                           *)

\* The directory of a ledger that nobody has open.
Rests(F, ds, S) == Closed(F, ds, S) /\ Tidy(F, Last(ds).cur)

\* A handle that only reads.
Views(v) ==
    /\ v.next = {} /\ IsSettled(v.cur)
    /\ AllLead(v.file, v.dirs, Top(v).cur, v.cur) /\ Tidy(v.file, Top(v).cur)
    /\ IsHandle(v.h) /\ Matches(v.h, v.cur) /\ Finds(v.file, Top(v), v.h, v.cur.log)

\* The same world, its ledger open.
Opened(v) == World(v.file, v.dirs, "open", v.h, v.cur, v.next)

\* World v, in which plan p is under way, by the mode of the ledger.
Going(v, p) ==
    \/ v.mode = "closed" /\ p = << >> /\ Rests(v.file, v.dirs, Logs(v))
    \/ v.mode \in {"opening", "open"} /\ Sound(v, p)
    \/ v.mode = "readonly" /\ p = << >> /\ Views(v)
    \/ v.mode = "poisoned" /\ p = << >> /\ Steady(Opened(v))
    \/ v.mode = "failed" /\ p = << >>

\* The inductive invariant.
LedgerInv ==
    /\ ops \in 0..MaxOps /\ fails \in 0..MaxFails
    /\ told = [cur |-> told.cur, next |-> told.next]
    /\ Steady(Now) /\ Going(Now, todo)

\* The faults that the theorems are about.
FaultsHandled == Faults \subseteq {"io", "nomem"}

\* The parts of the current world.
LEMMA NowIs ==
    /\ Now.file = file /\ Now.dirs = dirs /\ Now.mode = mode /\ Now.h = h
    /\ Now.cur = told.cur /\ Now.next = told.next /\ Top(Now) = Names
    /\ Logs(Now) = {told.cur} \union told.next
BY DEF Now, World, Top, Names, Logs

\* An intact call leads where the plan says.
LEMMA CallGoesOn ==
    ASSUME NEW v, NEW p, Sound(v, p), p # << >>, Head(p).op \notin {"set", "alloc"},
           NEW G, NEW es, Performed(Head(p), v.file, v.dirs, G, es), NEW w, w = With(v, G, es)
    PROVE  Sound(w, Tail(p)) /\ Steady(w)
<1>1. PICK x : StepOK(Head(p), v, x) /\ Sound(x, Tail(p))
  BY SoundNow
<1>2. /\ Steady(x) /\ x = With(v, x.file, x.dirs)
      /\ Performed(Head(p), v.file, v.dirs, x.file, x.dirs)
  BY <1>1 DEF StepOK
<1>3. x.file = G /\ x.dirs = es
  BY <1>2, PerformedOnce
<1>4. x = w
  BY <1>2, <1>3
<1> QED BY <1>1, <1>2, <1>4

\* An assignment, and what it tells the application.
LEMMA AssignGoesOn ==
    ASSUME NEW v, NEW p, Sound(v, p), p # << >>, Head(p).op = "set"
    PROVE  \E w : /\ Assigned(Head(p), v, w) /\ Sound(w, Tail(p)) /\ Steady(w)
                  /\ w = World(v.file, v.dirs, "open", Head(p).h, w.cur, w.next)
<1>1. PICK x : StepOK(Head(p), v, x) /\ Sound(x, Tail(p))
  BY SoundNow
<1> QED BY <1>1 DEF StepOK, Assigned

\* An allocation changes nothing, and only an open ledger makes one.
LEMMA AllocGoesOn ==
    ASSUME NEW v, NEW p, Sound(v, p), p # << >>, Head(p).op = "alloc"
    PROVE  Sound(v, Tail(p)) /\ Steady(v) /\ v.mode = "open"
<1>1. PICK x : StepOK(Head(p), v, x) /\ Sound(x, Tail(p))
  BY SoundNow
<1> QED BY <1>1 DEF StepOK

\* A call that fails leaves the ledger as steady as it was.
LEMMA CallFails ==
    ASSUME NEW v, Steady(v), NEW p, Sound(v, p), p # << >>, Head(p).op \notin {"set", "alloc"},
           NEW c, c = Head(p), NEW F, F = v.file, NEW ds, ds = v.dirs, NEW G, NEW es,
           \/ G = F /\ es = ds
           \/ Performed(c, F, ds, G, es)
           \/ c.op \in {"write", "seal"} /\ G = WrittenIn(F, c.f, Torn) /\ es = ds,
           NEW w, w = With(v, G, es), v = With(v, F, ds)
    PROVE  Steady(w)
<1>1. PICK x : StepOK(c, v, x) /\ Sound(x, Tail(p))
  BY SoundNow
<1>2. c.op \in {"write", "seal"} => Steady(With(v, WrittenIn(F, c.f, Torn), ds))
  BY <1>1 DEF StepOK
<1>3. Performed(c, F, ds, G, es) => Steady(w)
  BY CallGoesOn
<1> QED BY <1>2, <1>3

\* A power loss keeps whatever the application may find again.
LEMMA LossRests ==
    ASSUME NEW v, Steady(v), NEW G, NEW es, Loses(v.file, v.dirs, G, es),
           AreFiles(G), \A f \in DOMAIN G : G[f].hard = G[f].live,
           NEW w, w = World(G, es, "closed", NoHandle, v.cur, v.next)
    PROVE  Steady(w) /\ Going(w, << >>)
<1> DEFINE S == Logs(v)
           F == v.file
           ds == v.dirs
<1>1. Safe(F, ds, S) /\ Loses(F, ds, G, es)
  BY DEF Steady
<1>2. /\ w.file = G /\ w.dirs = es /\ w.mode = "closed" /\ Logs(w) = S
  BY DEF World, Logs
<1> HIDE DEF S, F, ds
<1>3. Safe(G, es, S) /\ Closed(G, es, S)
  BY <1>1, LossSafe, LossCloses
<1>4. Steady(w)
  BY <1>2, <1>3 DEF Steady
<1>5. Tidy(G, Last(es).cur)
  <2> DEFINE g == Last(es).cur
             m == ManifestAt(G, g)
  <2>1. PICK s \in CutsOf(S) : AllLead(G, es, g, s)
    BY <1>3 DEF Closed
  <2>2. SUFFICES ASSUME g # 0
                 PROVE  IsPrefix(G[Part(m.active.id)].hard, G[Part(m.active.id)].live)
    BY DEF Tidy
  <2> HIDE DEF g, m
  <2>3. /\ Part(m.active.id) \in DOMAIN G /\ SafeActive(m.active, m.rev, G[Part(m.active.id)], s)
    BY <2>1, <2>2, AllLeadIs DEF m
  <2> DEFINE f == G[Part(m.active.id)]
  <2>4. f.hard = f.live /\ SafeActive(m.active, m.rev, f, s)
    BY <2>3
  <2> HIDE DEF f
  <2>5. IsSeq(f.live)
    BY <2>4 DEF SafeActive, GoodActive, GoodPart
  <2>6. IsPrefix(f.hard, f.live)
    <3> DEFINE c == f.live
    <3>1. IsSeq(c) /\ Len(c) \in Nat /\ \A i \in 1..Len(c) : c[i] = c[i]
      BY <2>5, SeqIs
    <3> HIDE DEF c
    <3>2. IsPrefix(c, c)
      BY <3>1, PrefixIs
    <3> QED BY <2>4, <3>2 DEF c
  <2> QED BY <2>6 DEF f
<1>6. Rests(w.file, w.dirs, Logs(w))
  BY <1>2, <1>3, <1>5 DEF Rests
<1> QED BY <1>2, <1>4, <1>6 DEF Going

\* An open ledger between two operations can be closed.
LEMMA GoodRests ==
    ASSUME NEW v, Good(v), Steady(v), NEW w, w = World(v.file, v.dirs, "closed", NoHandle, v.cur, v.next)
    PROVE  Steady(w) /\ Going(w, << >>)
<1> DEFINE S == Logs(v)
           F == v.file
           ds == v.dirs
           g == v.h.gen
           t == StableLog(v.cur)
           m == ManifestAt(F, g)
<1>1. /\ Safe(F, ds, S) /\ AreFiles(F) /\ AllLead(F, ds, g, t) /\ IsLog(v.cur) /\ v.cur \in S
      /\ S = {v.cur}
  BY DEF Steady, Good, Logs
<1>2. /\ w.file = F /\ w.dirs = ds /\ w.mode = "closed" /\ Logs(w) = S
  BY DEF World, Logs
<1>3. Steady(w)
  <2> HIDE DEF F, ds, S
  <2> QED BY <1>1, <1>2 DEF Steady
<1>4. t \in Log!Cuts(v.cur) /\ IsSettled(t)
  <2> DEFINE s == v.cur
             k == s.stable
  <2>1. IsLog(s) /\ k \in s.stable..Len(s.log) + 1
    BY <1>1, LogIs
  <2> HIDE DEF k
  <2>2. CutAt(s, k) \in Log!Cuts(s) /\ IsSettled(CutAt(s, k))
    BY <2>1, CutIs
  <2>3. t = CutAt(s, k)
    BY DEF StableLog, k
  <2> QED BY <2>2, <2>3
<1>5. Last(ds).cur = g
  <2> HIDE DEF F, ds, g, t
  <2>1. Len(ds) \in 1..Len(ds) /\ Last(ds) = ds[Len(ds)]
    BY <1>1, SeqIs DEF AllLead, Last
  <2> QED BY <1>1, <2>1 DEF AllLead
<1>6. \A s \in S : IsLog(s)
  BY <1>1
<1>7. t \in CutsOf(S)
  BY <1>1, <1>4 DEF CutsOf
<1>8. Closed(F, ds, S)
  <2> HIDE DEF F, ds, S, g, t
  <2> QED BY <1>1, <1>4, <1>5, <1>6, <1>7 DEF Closed
<1>9. Tidy(F, g)
  <2>1. GoodAs(F, ds, v.h, v.cur)
    BY GoodOut
  <2>2. Whole(F, v.h, v.cur.log) /\ Describes(m, v.h)
    BY DEF Good
  <2> DEFINE f == F[Part(m.active.id)]
             y == v.h
  <2>3. f = F[Part(y.parts[Len(y.parts)].id)]
    BY <2>2 DEF Describes
  <2>4. IsPrefix(f.hard, f.live)
    BY <2>2, <2>3 DEF Whole
  <2> QED BY <2>4 DEF Tidy
<1>10. Rests(w.file, w.dirs, Logs(w))
  <2> HIDE DEF F, ds, S, g, t
  <2> QED BY <1>2, <1>5, <1>8, <1>9 DEF Rests
<1> QED BY <1>2, <1>3, <1>10 DEF Going

\* A log with nothing to lose is the only cut of itself there is.
LEMMA CutSelf ==
    ASSUME NEW s, IsLog(s), IsSettled(s)
    PROVE  s \in Log!Cuts(s)
<1> DEFINE k == s.stable
<1>1. k \in s.stable..Len(s.log) + 1
  BY LogIs
<1>2. k = s.stable /\ k = Len(s.log) + 1
  BY DEF IsSettled
<1> HIDE DEF k
<1>3. CutAt(s, k) \in Log!Cuts(s) /\ IsLog(CutAt(s, k)) /\ IsSettled(CutAt(s, k))
      /\ CutAt(s, k).first = s.first /\ CutAt(s, k).rev = s.rev
      /\ CutAt(s, k).stable = k /\ Len(CutAt(s, k).log) = k - 1
      /\ \A i \in 1..k - 1 : CutAt(s, k).log[i] = s.log[i]
  BY <1>1, CutIs
<1> DEFINE t == CutAt(s, k)
           a == t.log
           b == s.log
<1>4. IsLog(t) /\ Len(a) = k - 1 /\ k = Len(b) + 1 /\ \A i \in 1..k - 1 : a[i] = b[i]
  BY <1>2, <1>3
<1>5. t.first = s.first /\ t.rev = s.rev /\ t.stable = s.stable
  BY <1>2, <1>3
<1> HIDE DEF t
<1>6. IsSeq(a) /\ IsSeq(b) /\ Len(b) \in Nat
  BY <1>4, LogIs
<1> HIDE DEF a, b
<1>7. Len(a) = Len(b) /\ \A i \in 1..Len(b) : a[i] = b[i]
  BY <1>4, <1>6
<1>8. a = b
  BY <1>6, <1>7, SeqSame
<1>9. t = s
  BY <1>4, <1>5, <1>8 DEF IsLog, a, b
<1> QED BY <1>3, <1>9 DEF t

\* A handle that only reads can be closed.
LEMMA ViewsRest ==
    ASSUME NEW v, Views(v), Steady(v), NEW w, w = World(v.file, v.dirs, "closed", NoHandle, v.cur, v.next)
    PROVE  Steady(w) /\ Going(w, << >>)
<1> DEFINE S == Logs(v)
           F == v.file
           ds == v.dirs
           g == Last(ds).cur
           s == v.cur
<1>1. /\ Safe(F, ds, S) /\ AreFiles(F) /\ AllLead(F, ds, g, s) /\ Tidy(F, g) /\ IsSettled(s)
      /\ S = {s}
  BY DEF Steady, Views, Logs, Top
<1>2. /\ w.file = F /\ w.dirs = ds /\ w.mode = "closed" /\ Logs(w) = S
  BY DEF World, Logs
<1> HIDE DEF S, F, ds, g, s
<1>3. Steady(w)
  BY <1>1, <1>2 DEF Steady
<1>4. IsLog(s)
  BY <1>1 DEF AllLead
<1>5. s \in CutsOf(S)
  BY <1>1, <1>4, CutSelf DEF CutsOf
<1>6. Closed(F, ds, S)
  BY <1>1, <1>4, <1>5 DEF Closed, g
<1>7. Rests(w.file, w.dirs, Logs(w))
  BY <1>1, <1>2, <1>6 DEF Rests, g
<1> QED BY <1>2, <1>3, <1>7 DEF Going

\* A closed directory is one to open.
LEMMA RestsOpens ==
    ASSUME NEW F, NEW ds, NEW md, NEW hd, NEW s, NEW S, NEW v, v = World(F, ds, md, hd, s, S),
           Steady(v), Rests(F, ds, Logs(v)), NEW w, w = World(F, ds, "opening", hd, s, S)
    PROVE  Shut(w) /\ w.file = F /\ w.dirs = ds
<1>1. /\ v.file = F /\ v.dirs = ds /\ w.file = F /\ w.dirs = ds /\ w.mode = "opening"
      /\ Logs(w) = Logs(v)
  BY DEF World, Logs
<1>2. AreFiles(F) /\ Safe(F, ds, Logs(v))
  BY <1>1 DEF Steady
<1> QED BY <1>1, <1>2 DEF Shut, Rests, Top

---------------------------------------------------------------------------
(* The steps.                                                              *)

\* What holds in each mode.
LEMMA InMode ==
    ASSUME LedgerInv
    PROVE  /\ mode \in {"closed", "opening", "open", "readonly", "poisoned", "failed"}
           /\ mode = "closed" => todo = << >> /\ Rests(file, dirs, Logs(Now))
           /\ mode \in {"opening", "open"} => Sound(Now, todo)
           /\ mode = "readonly" => todo = << >> /\ Views(Now)
           /\ mode = "poisoned" => todo = << >> /\ Steady(Opened(Now))
           /\ mode = "failed" => todo = << >>
           /\ todo # << >> => mode \in {"opening", "open"}
<1>1. Going(Now, todo)
  BY DEF LedgerInv
<1>2. Now.file = file /\ Now.dirs = dirs /\ Now.mode = mode
  BY NowIs
<1> QED BY <1>1, <1>2 DEF Going

\* An open ledger between two operations is a good one.
LEMMA MutableGood ==
    ASSUME LedgerInv, Mutable
    PROVE  /\ Good(Now) /\ Steady(Now) /\ Now.h = h /\ Now.cur = told.cur
           /\ told.next = {} /\ mode = "open"
           /\ Now = World(file, dirs, "open", h, told.cur, {})
<1>1. mode = "open" /\ todo = << >>
  BY DEF Mutable, Idle
<1>2. Sound(Now, << >>)
  BY <1>1, InMode
<1>3. Good(Now) /\ Steady(Now)
  BY <1>2, SoundDone DEF LedgerInv
<1>4. Now.h = h /\ Now.cur = told.cur /\ Now.next = told.next
  BY NowIs
<1>5. Now.next = {}
  BY <1>3 DEF Good
<1>6. Now = World(file, dirs, "open", h, told.cur, {})
  BY <1>1, <1>4, <1>5 DEF Now
<1> QED BY <1>1, <1>3, <1>4, <1>5, <1>6

\* An operation starts, its plan sound.
LEMMA StartKeeps ==
    ASSUME LedgerInv, Mutable, NEW p, NEW S, Start(p, S), NEW u,
           u = World(file, dirs, "open", h, told.cur, S), Steady(u), Sound(u, p)
    PROVE  LedgerInv'
<1>1. mode = "open"
  BY DEF Mutable
<1>2. /\ ops' \in 0..MaxOps /\ fails' \in 0..MaxFails /\ todo' = p
      /\ file' = file /\ dirs' = dirs /\ mode' = "open" /\ h' = h
  BY <1>1, BoundsAssumption DEF LedgerInv, Start
<1>3. told' = [cur |-> told.cur, next |-> S]
  <2>1. told = [cur |-> told.cur, next |-> told.next] /\ told' = [told EXCEPT !.next = S]
    BY DEF LedgerInv, Start
  <2> QED BY <2>1
<1>4. Now' = u
  BY <1>2, <1>3 DEF Now
<1>5. u.mode = "open"
  BY DEF World
<1>6. Going(u, p)
  BY <1>5 DEF Going
<1> QED BY <1>2, <1>3, <1>4, <1>6 DEF LedgerInv

\* append.
LEMMA AppendKeeps ==
    ASSUME LedgerInv, AppendOp
    PROVE  LedgerInv'
<1>1. Mutable
  BY DEF AppendOp
<1>2. PICK recs \in Batches : Start(AppendPlan(h, told.cur, recs), {})
  BY DEF AppendOp
<1>3. recs \in Seq(Value) \ {<< >>}
  BY BatchesAssumption
<1>4. /\ Good(Now) /\ Steady(Now) /\ Now.h = h /\ Now.cur = told.cur
      /\ Now = World(file, dirs, "open", h, told.cur, {})
  BY <1>1, MutableGood
<1>5. Sound(Now, AppendPlan(Now.h, Now.cur, recs))
  BY <1>3, <1>4, AppendPlanSound
<1>6. Sound(Now, AppendPlan(h, told.cur, recs))
  BY <1>4, <1>5
<1> QED BY <1>1, <1>2, <1>4, <1>6, StartKeeps

\* sync.
LEMMA SyncKeeps ==
    ASSUME LedgerInv, SyncOp
    PROVE  LedgerInv'
<1>1. Mutable /\ Start(SyncPlan(h, told.cur), {})
  BY DEF SyncOp
<1>2. /\ Good(Now) /\ Steady(Now) /\ Now.h = h /\ Now.cur = told.cur
      /\ Now = World(file, dirs, "open", h, told.cur, {})
  BY <1>1, MutableGood
<1>3. Sound(Now, SyncPlan(Now.h, Now.cur))
  BY <1>2, SyncRotateSound
<1>4. Sound(Now, SyncPlan(h, told.cur))
  BY <1>2, <1>3
<1> QED BY <1>1, <1>2, <1>4, StartKeeps

\* rotate.
LEMMA RotateKeeps ==
    ASSUME LedgerInv, RotateOp
    PROVE  LedgerInv'
<1>1. Mutable /\ MustRotate(h) /\ Start(RotatePlan(h, told.cur), {})
  BY DEF RotateOp
<1>2. /\ Good(Now) /\ Steady(Now) /\ Now.h = h /\ Now.cur = told.cur
      /\ Now = World(file, dirs, "open", h, told.cur, {})
  BY <1>1, MutableGood
<1>3. Sound(Now, RotatePlan(Now.h, Now.cur))
  BY <1>1, <1>2, SyncRotateSound
<1>4. Sound(Now, RotatePlan(h, told.cur))
  BY <1>2, <1>3
<1> QED BY <1>1, <1>2, <1>4, StartKeeps

\* truncate_from.
LEMMA TruncateKeeps ==
    ASSUME LedgerInv, TruncateOp
    PROVE  LedgerInv'
<1>1. Mutable /\ h.end = h.stable
  BY DEF TruncateOp
<1>2. PICK from \in h.first..h.end - 1 :
        Start(TruncatePlan(h, told.cur, from), {TruncatedLog(told.cur, from)})
  BY DEF TruncateOp
<1> DEFINE t == TruncatedLog(told.cur, from)
           u == World(file, dirs, "open", h, told.cur, {t})
           keep == PartsUpTo(h, from)
           n == EntriesUpTo(h.dir, keep)
<1>3. /\ Good(Now) /\ Steady(Now) /\ Now.h = h /\ Now.cur = told.cur
  BY <1>1, MutableGood
<1>4. Now.file = file /\ Now.dirs = dirs /\ Top(Now) = Names
  BY NowIs
<1>5. TruncateAsked(Now, from, keep, h.parts, n, t, u)
  BY <1>1, <1>2, <1>3, <1>4 DEF TruncateAsked
<1> HIDE DEF t, u, keep, n
<1>6. Steady(u) /\ Sound(u, TruncatePlan(Now.h, Now.cur, from))
  BY <1>4, <1>5, TruncatePlanSound
<1>7. Sound(u, TruncatePlan(h, told.cur, from)) /\ Start(TruncatePlan(h, told.cur, from), {t})
  BY <1>2, <1>3, <1>6 DEF t
<1>8. u = World(file, dirs, "open", h, told.cur, {t})
  BY DEF u
<1> QED BY <1>1, <1>6, <1>7, <1>8, StartKeeps

\* prune_before.
LEMMA PruneKeeps ==
    ASSUME LedgerInv, PruneOp
    PROVE  LedgerInv'
<1>1. Mutable
  BY DEF PruneOp
<1>2. PICK i \in h.first + 1..h.stable :
        /\ PartsUpTo(h, i) > 0
        /\ Start(PrunePlan(h, told.cur, i),
                 {PrunedLog(told.cur, h.parts[PartsUpTo(h, i) + 1].first)})
  BY DEF PruneOp
<1> DEFINE n == PartsUpTo(h, i)
           to == h.parts[n + 1].first
           t == PrunedLog(told.cur, to)
           u == World(file, dirs, "open", h, told.cur, {t})
<1>3. /\ Good(Now) /\ Steady(Now) /\ Now.h = h /\ Now.cur = told.cur
  BY <1>1, MutableGood
<1>4. Now.file = file /\ Now.dirs = dirs
  BY NowIs
<1>5. PruneAsked(Now, i, n, h.parts, to, t, u)
  BY <1>2, <1>3, <1>4 DEF PruneAsked
<1>6. Start(PrunePlan(h, told.cur, i), {t})
  BY <1>2
<1> HIDE DEF t, u, n, to
<1>7. Steady(u) /\ Sound(u, PrunePlan(Now.h, Now.cur, i))
  BY <1>5, PrunePlanSound
<1>8. Sound(u, PrunePlan(h, told.cur, i)) /\ u = World(file, dirs, "open", h, told.cur, {t})
  BY <1>3, <1>7 DEF u
<1> QED BY <1>1, <1>6, <1>7, <1>8, StartKeeps

\* What a manifest refers to is finite.
LEMMA ReferencedNext ==
    ASSUME NEW m, GoodManifest(m), NEW id, id = Max(Referenced(m)) + 1
    PROVE  id \in Nat
<1> DEFINE n == Len(m.sealed)
           f == [i \in 1..n |-> m.sealed[i].id]
           X == {f[i] : i \in 1..n}
           S == Referenced(m)
<1>1. n \in Nat /\ DOMAIN m.sealed = 1..n
  BY SeqIs DEF GoodManifest
<1>2. IsFiniteSet(1..n)
  BY <1>1, FS_Interval
<1>3. S = X \union {m.active.id}
  BY DEF Referenced
<1>4. S \in SUBSET Nat
  <2>1. \A d \in ToSet(m.sealed) \union {m.active} : d.id \in Nat
    BY DEF GoodManifest
  <2>2. \A i \in 1..n : m.sealed[i] \in ToSet(m.sealed)
    BY <1>1 DEF ToSet
  <2>3. \A i \in 1..n : f[i] \in Nat
    BY <2>1, <2>2
  <2>4. m.active.id \in Nat
    BY <2>1
  <2> HIDE DEF f, S, n
  <2> QED BY <1>3, <2>3, <2>4
<1>5. IsFiniteSet(S) /\ S # {}
  <2> DEFINE a == m.active.id
  <2>1. S = X \union {a}
    BY <1>3
  <2> HIDE DEF S, f, n, a
  <2>2. IsFiniteSet(X)
    <3> DEFINE B == 1..n
    <3>1. f \in Surjection(B, X) /\ IsFiniteSet(B)
      BY <1>2 DEF f, Surjection
    <3> QED BY <3>1, FS_Surjection
  <2> QED BY <2>1, <2>2, FS_AddElement
<1>6. id = Max(S) + 1
  OBVIOUS
<1> HIDE DEF S
<1> QED BY <1>4, <1>5, <1>6, NextIdIs

\* A reader finds what a writer would (led89_open_io).
LEMMA ReadOnlyViews ==
    ASSUME NEW S, Rests(file, dirs, S), AreFiles(file), Names.cur # 0, NEW m \in Recovered,
           NEW hd, hd = [RecoveredHandle(m) EXCEPT !.next = Max(Referenced(m)) + 1],
           NEW w, w = World(file, dirs, "readonly", hd, LogOf(hd), {})
    PROVE  Steady(w) /\ Views(w) /\ LogOf(hd) \in CutsOf(S)
<1> DEFINE g == Names.cur
           r == RecoveredHandle(m)
           id == Max(Referenced(m)) + 1
<1>1. Closed(file, dirs, S) /\ Tidy(file, g) /\ g = Last(dirs).cur
  BY DEF Rests, Names
<1>2. PICK s \in CutsOf(S) : IsSettled(s) /\ AllLead(file, dirs, g, s)
  BY <1>1 DEF Closed
<1>3. m = ManifestAt(file, g)
  BY <1>2, RecoveredIs
<1> HIDE DEF g
<1>4. g # 0
  BY DEF g
<1>5. GoodManifest(m)
  BY <1>2, <1>3, <1>4, AllLeadIs
<1>6. id \in Nat
  BY <1>5, ReferencedNext
<1>7. Recovers(file, Names, m, r, s)
  <2>1. /\ IsHandle(r) /\ r.gen = g /\ ~r.dirty /\ r.next = 0
        /\ Matches(r, s) /\ Describes(m, r) /\ Finds(file, Names, r, s.log)
        /\ ActiveUpTo(m.active, m.rev, file[Part(m.active.id)].live, r.len, s)
        /\ r.parts[Len(r.parts)] = Desc(m.active.id, m.active.first, r.end)
        /\ \A j \in 1..Len(r.dir) : r.dir[j].part = Len(r.parts) => r.dir[j].pos \in 3..r.len
    BY <1>2, <1>3, <1>4, RecoveredHandleIs
  <2> HIDE DEF r
  <2> QED BY <1>4, <2>1 DEF Recovers
<1>8. hd = [r EXCEPT !.next = id]
  OBVIOUS
<1> HIDE DEF r, id
<1>9. Recovers(file, Names, m, hd, s)
  BY ONLY <1>6, <1>7, <1>8, RecoversNext
<1>10. IsHandle(hd) /\ Matches(hd, s) /\ Finds(file, Names, hd, s.log)
  BY <1>9 DEF Recovers
<1>11. IsLog(s)
  BY <1>2 DEF AllLead
<1>12. LogOf(hd) = s
  BY <1>2, <1>10, <1>11, LogOfIs
<1>13. /\ w.file = file /\ w.dirs = dirs /\ w.mode = "readonly" /\ w.h = hd /\ w.cur = s
       /\ w.next = {} /\ Logs(w) = {s} /\ Top(w) = Names
  BY <1>12 DEF World, Logs, Top, Names
<1>14. Safe(file, dirs, {s})
  <2>1. s \in {s} /\ \A x \in {s} : IsLog(x)
    BY <1>11
  <2> QED BY <1>2, <2>1, AllLeadSafe
<1>15. Steady(w)
  BY <1>13, <1>14 DEF Steady
<1>16. Views(w)
  BY <1>1, <1>2, <1>10, <1>13 DEF Views, g
<1> QED BY <1>12, <1>15, <1>16

\* open: a writer starts on what it finds.
LEMMA OpenKeeps ==
    ASSUME LedgerInv, OpenOp, "list" \notin Faults
    PROVE  LedgerInv'
<1>1. /\ mode = "closed" /\ todo' \in OpenPlans /\ mode' = "opening"
      /\ UNCHANGED <<file, dirs, h, told, ops, fails>>
  BY DEF OpenOp
<1> DEFINE w == World(file, dirs, "opening", h, told.cur, told.next)
<1>2. Rests(file, dirs, Logs(Now)) /\ Steady(Now)
  BY <1>1, InMode DEF LedgerInv
<1>3. Now = World(file, dirs, mode, h, told.cur, told.next)
  BY DEF Now
<1>4. Shut(w) /\ w.file = file /\ w.dirs = dirs
  BY <1>2, <1>3, RestsOpens
<1>5. Now' = w
  BY <1>1 DEF Now
<1>6. w.mode = "opening"
  BY DEF World
<1> HIDE DEF w
<1>7. PICK p : p = todo' /\ p \in OpenPlans
  BY <1>1
<1>8. Sound(w, p) /\ Steady(w)
  BY <1>4, <1>7, OpenPlanSound
<1>9. Going(w, p)
  BY <1>6, <1>8 DEF Going
<1> QED BY <1>1, <1>5, <1>7, <1>8, <1>9 DEF LedgerInv

\* open: a reader takes what it finds.
LEMMA ReadOnlyKeeps ==
    ASSUME LedgerInv, OpenReadOnly
    PROVE  LedgerInv'
<1>1. /\ mode = "closed" /\ Names.cur # 0 /\ mode' = "readonly"
      /\ UNCHANGED <<file, dirs, todo, ops, fails>>
  BY DEF OpenReadOnly
<1>2. PICK m \in Recovered :
        LET hd == [RecoveredHandle(m) EXCEPT !.next = Max(Referenced(m)) + 1]
        IN h' = hd /\ told' = [cur |-> LogOf(hd), next |-> {}]
  BY DEF OpenReadOnly
<1> DEFINE hd == [RecoveredHandle(m) EXCEPT !.next = Max(Referenced(m)) + 1]
           w == World(file, dirs, "readonly", hd, LogOf(hd), {})
<1>3. h' = hd /\ told' = [cur |-> LogOf(hd), next |-> {}]
  BY <1>2
<1>4. Rests(file, dirs, Logs(Now)) /\ todo = << >> /\ AreFiles(file)
  <2>1. Steady(Now) /\ Now.file = file
    BY NowIs DEF LedgerInv
  <2> QED BY <1>1, <2>1, InMode DEF Steady
<1>5. Steady(w) /\ Views(w)
  BY <1>1, <1>4, ReadOnlyViews
<1>6. Now' = w
  BY <1>1, <1>3 DEF Now
<1>7. Going(w, << >>)
  <2>1. w.mode = "readonly"
    BY DEF World
  <2> HIDE DEF w
  <2> QED BY <1>5, <2>1 DEF Going
<1> HIDE DEF w, hd
<1> QED BY <1>1, <1>3, <1>4, <1>5, <1>6, <1>7 DEF LedgerInv

\* close, and the end of a process.
LEMMA CloseKeeps ==
    ASSUME LedgerInv, Close, "reopen" \notin Faults
    PROVE  LedgerInv'
<1>1. /\ todo = << >> /\ mode \in {"open", "readonly"}
      /\ mode' = "closed" /\ h' = NoHandle /\ todo' = << >>
      /\ UNCHANGED <<file, dirs, told, ops, fails>>
  BY DEF Close, Idle
<1> DEFINE w == World(file, dirs, "closed", NoHandle, told.cur, told.next)
<1>2. Now' = w
  BY <1>1 DEF Now
<1>3. /\ Now.file = file /\ Now.dirs = dirs /\ Now.cur = told.cur /\ Now.next = told.next
  BY NowIs
<1>4. w = World(Now.file, Now.dirs, "closed", NoHandle, Now.cur, Now.next)
  BY <1>3
<1> HIDE DEF w
<1>5. Steady(Now)
  BY DEF LedgerInv
<1>6. Steady(w) /\ Going(w, << >>)
  <2>1. CASE mode = "open"
    <3>1. Good(Now)
      BY <1>1, <2>1, MutableGood DEF Mutable, Idle
    <3> QED BY <1>4, <1>5, <3>1, GoodRests
  <2>2. CASE mode = "readonly"
    <3>1. Views(Now)
      BY <2>2, InMode
    <3> QED BY <1>4, <1>5, <3>1, ViewsRest
  <2> QED BY <1>1, <2>1, <2>2
<1> QED BY <1>1, <1>2, <1>6 DEF LedgerInv

\* An assignment of a plan, or its return.
LEMMA AssignKeeps ==
    ASSUME LedgerInv, Assign
    PROVE  /\ LedgerInv'
           /\ Assigned(Head(todo), Now, Now')
<1> DEFINE c == Head(todo)
<1>1. /\ todo # << >> /\ c.op = "set" /\ todo' = Tail(todo) /\ h' = c.h
      /\ mode' = (IF mode = "opening" THEN "open" ELSE mode)
      /\ UNCHANGED <<file, dirs, ops, fails>>
  BY DEF Assign
<1>2. \/ c.told = {} /\ told' = told
      \/ c.told # {} /\ \E s \in c.told : told' = [cur |-> s, next |-> {}]
  BY DEF Assign
<1>3. Sound(Now, todo) /\ mode \in {"opening", "open"}
  BY <1>1, InMode
<1> HIDE DEF c
<1>4. PICK w : /\ Assigned(c, Now, w) /\ Sound(w, Tail(todo)) /\ Steady(w)
               /\ w = World(Now.file, Now.dirs, "open", c.h, w.cur, w.next)
  BY <1>1, <1>3, AssignGoesOn DEF c
<1>5. /\ Now.file = file /\ Now.dirs = dirs /\ Now.mode = mode
      /\ Now.cur = told.cur /\ Now.next = told.next
  BY NowIs
<1>6. \/ c.told = {} /\ mode = "open" /\ w.cur = told.cur /\ w.next = told.next
      \/ c.told = {w.cur} /\ w.next = {}
  BY <1>4, <1>5 DEF Assigned
<1>7. told'.cur = w.cur /\ told'.next = w.next /\ told' = [cur |-> told'.cur, next |-> told'.next]
  <2>1. told = [cur |-> told.cur, next |-> told.next]
    BY DEF LedgerInv
  <2> DEFINE a == w.cur
             b == w.next
  <2> HIDE DEF a, b
  <2>2. CASE c.told = {} /\ a = told.cur /\ b = told.next
    <3>1. told' = told
      BY <1>2, <2>2
    <3> QED BY ONLY <2>1, <2>2, <3>1 DEF a, b
  <2>3. CASE c.told = {a} /\ b = {}
    <3>1. told' = [cur |-> a, next |-> {}]
      BY <1>2, <2>3
    <3> QED BY ONLY <2>3, <3>1 DEF a, b
  <2> QED BY <1>6, <2>2, <2>3 DEF a, b
<1>8. mode' = "open"
  BY <1>1, <1>3
<1>9. Now' = w
  BY <1>1, <1>4, <1>5, <1>7, <1>8 DEF Now
<1>10. Going(w, Tail(todo))
  <2>1. w.mode = "open"
    BY <1>4 DEF World
  <2> QED BY <1>4, <2>1 DEF Going
<1>11. LedgerInv'
  BY <1>1, <1>4, <1>7, <1>9, <1>10 DEF LedgerInv
<1> QED BY <1>4, <1>9, <1>11 DEF c

\* One call of a plan.
LEMMA IoKeeps ==
    ASSUME LedgerInv, Io
    PROVE  LedgerInv'
<1> DEFINE c == Head(todo)
<1>1. /\ todo # << >> /\ c.op # "set" /\ todo' = Tail(todo)
      /\ UNCHANGED <<mode, h, told, ops, fails>>
      /\ IF c.op = "alloc" THEN UNCHANGED disk ELSE Perform(c)
  BY DEF Io
<1>2. Sound(Now, todo) /\ mode \in {"opening", "open"}
  BY <1>1, InMode
<1>3. /\ Now.file = file /\ Now.dirs = dirs /\ Now.mode = mode /\ Now.h = h
      /\ Now.cur = told.cur /\ Now.next = told.next
  BY NowIs
<1>4. Now' = With(Now, file', dirs')
  BY <1>1, <1>3 DEF Now, With
<1>5. Now'.mode = mode
  BY <1>3, <1>4, WithIs
<1>6. Sound(Now', Tail(todo)) /\ Steady(Now')
  <2>1. CASE c.op = "alloc"
    <3>1. file' = file /\ dirs' = dirs
      BY <1>1, <2>1 DEF disk
    <3>2. Now' = Now
      BY <1>1, <3>1 DEF Now
    <3> QED BY <1>1, <1>2, <2>1, <3>2, AllocGoesOn
  <2>2. CASE c.op # "alloc"
    <3>1. Perform(c) /\ c.op \notin {"set", "alloc"}
      BY <1>1, <2>2
    <3>2. Performed(c, file, dirs, file', dirs')
      BY <3>1, PerformIs
    <3>3. Performed(c, Now.file, Now.dirs, file', dirs')
      BY <1>3, <3>2
    <3> QED BY <1>1, <1>2, <1>4, <3>1, <3>3, CallGoesOn
  <2> QED BY <2>1, <2>2
<1>7. Going(Now', Tail(todo))
  BY <1>2, <1>5, <1>6 DEF Going
<1> QED BY <1>1, <1>6, <1>7 DEF LedgerInv

\* What a call that fails does to the files.
LEMMA Misperforms ==
    ASSUME LedgerInv, todo # << >>, Head(todo).op \notin {"set", "alloc"}, Misperform(Head(todo))
    PROVE  Steady(With(Now, file', dirs'))
<1> DEFINE c == Head(todo)
           F == file
           ds == dirs
<1>1. \/ file' = F /\ dirs' = ds
      \/ Performed(c, F, ds, file', dirs')
      \/ c.op \in {"write", "seal"} /\ file' = WrittenIn(F, c.f, Torn) /\ dirs' = ds
  BY MisperformIs
<1>2. Sound(Now, todo) /\ Steady(Now)
  BY InMode DEF LedgerInv
<1>3. F = Now.file /\ ds = Now.dirs /\ c.op \notin {"set", "alloc"}
  BY NowIs
<1>4. Now = With(Now, F, ds)
  BY NowIs DEF With, Now
<1> HIDE DEF F, ds
<1> QED BY <1>1, <1>2, <1>3, <1>4, CallFails

\* A call that fails.
LEMMA IoFailsKeeps ==
    ASSUME LedgerInv, IoFails
    PROVE  LedgerInv'
<1> DEFINE c == Head(todo)
<1>1. /\ todo # << >> /\ c.op \notin {"set", "alloc"} /\ fails < MaxFails /\ fails' = fails + 1
      /\ UNCHANGED <<told, ops>>
  BY DEF IoFails
<1>2. fails' \in 0..MaxFails /\ ops' \in 0..MaxOps
  BY <1>1, BoundsAssumption DEF LedgerInv
<1>3. /\ Sound(Now, todo) /\ mode \in {"opening", "open"} /\ Steady(Now)
      /\ told = [cur |-> told.cur, next |-> told.next]
  BY <1>1, InMode DEF LedgerInv
<1>4. /\ Now.file = file /\ Now.dirs = dirs /\ Now.mode = mode /\ Now.h = h
      /\ Now.cur = told.cur /\ Now.next = told.next
  BY NowIs
<1>5. CASE Quiet(c)
  <2>1. todo' = Tail(todo) /\ UNCHANGED <<file, dirs, mode, h>>
    BY <1>5 DEF IoFails
  <2>2. Now' = Now
    BY <1>1, <2>1 DEF Now
  <2>3. Sound(Now, Tail(todo))
    BY <1>1, <1>3, <1>5, SoundNow
  <2>4. Going(Now, Tail(todo))
    BY <1>3, <1>4, <2>3 DEF Going
  <2> QED BY <1>1, <1>2, <1>3, <2>1, <2>2, <2>4 DEF LedgerInv
<1>6. CASE ~Quiet(c)
  <2>1. /\ Misperform(c) /\ todo' = << >>
        /\ mode' = (IF mode = "opening" THEN "failed" ELSE "poisoned")
        /\ h' = (IF mode = "opening" THEN NoHandle ELSE h)
    BY <1>6 DEF IoFails
  <2> DEFINE w == With(Now, file', dirs')
  <2>2. Steady(w)
    BY <1>1, <2>1, Misperforms
  <2>3. /\ w.file = file' /\ w.dirs = dirs' /\ w.mode = mode /\ w.h = h
        /\ w.cur = told.cur /\ w.next = told.next /\ Logs(w) = Logs(Now)
    BY <1>4, WithIs
  <2> HIDE DEF w
  <2>4. /\ Now'.file = file' /\ Now'.dirs = dirs' /\ Now'.mode = mode'
        /\ Now'.cur = told.cur /\ Now'.next = told.next /\ Now'.h = h'
    BY <1>1 DEF Now, World
  <2>5. Steady(Now')
    <3>1. AreFiles(w.file) /\ Safe(w.file, w.dirs, Logs(w)) /\ Logs(w) = Logs(Now')
      BY <2>2, <2>3, <2>4 DEF Steady, Logs
    <3>2. mode' # "open"
      BY <1>3, <2>1
    <3> QED BY <2>3, <2>4, <3>1, <3>2 DEF Steady
  <2>6. Going(Now', << >>)
    <3>1. CASE mode = "opening"
      BY <2>1, <2>4, <3>1 DEF Going
    <3>2. CASE mode = "open"
      <4>1. w = World(file', dirs', "open", h, told.cur, told.next)
        BY <1>4, <3>2 DEF w, With
      <4>2. Opened(Now') = w
        BY <2>1, <2>4, <3>2, <4>1 DEF Opened
      <4> QED BY <2>1, <2>2, <2>4, <3>2, <4>2 DEF Going
    <3> QED BY <1>3, <3>1, <3>2
  <2> QED BY <1>1, <1>2, <1>3, <2>1, <2>5, <2>6 DEF LedgerInv
<1> QED BY <1>5, <1>6

\* An allocation that fails.
LEMMA AllocFailsKeeps ==
    ASSUME LedgerInv, AllocFails, "publish" \notin Faults
    PROVE  LedgerInv'
<1>1. /\ todo # << >> /\ Head(todo).op = "alloc" /\ fails < MaxFails /\ fails' = fails + 1
      /\ todo' = << >> /\ mode' = "poisoned" /\ UNCHANGED <<file, dirs, h, told, ops>>
  BY DEF AllocFails
<1>2. fails' \in 0..MaxFails /\ ops' \in 0..MaxOps
  BY <1>1, BoundsAssumption DEF LedgerInv
<1>3. Sound(Now, todo) /\ Steady(Now) /\ told = [cur |-> told.cur, next |-> told.next]
  BY <1>1, InMode DEF LedgerInv
<1>4. /\ Now.file = file /\ Now.dirs = dirs /\ Now.mode = mode /\ Now.h = h
      /\ Now.cur = told.cur /\ Now.next = told.next
  BY NowIs
<1>5. mode = "open"
  BY <1>1, <1>3, <1>4, AllocGoesOn
<1>6. /\ Now'.file = file /\ Now'.dirs = dirs /\ Now'.mode = "poisoned" /\ Now'.h = h
      /\ Now'.cur = told.cur /\ Now'.next = told.next
  BY <1>1 DEF Now, World
<1>7. Steady(Now')
  <2>1. Logs(Now') = Logs(Now)
    BY <1>4, <1>6 DEF Logs
  <2> QED BY <1>3, <1>4, <1>6, <2>1 DEF Steady
<1>8. Opened(Now') = Now
  BY <1>5, <1>6 DEF Opened, Now
<1>9. Going(Now', << >>)
  BY <1>3, <1>6, <1>8 DEF Going
<1> QED BY <1>1, <1>2, <1>3, <1>7, <1>9 DEF LedgerInv

\* A power loss.
LEMMA CrashKeeps ==
    ASSUME LedgerInv, Crash
    PROVE  LedgerInv'
<1>1. /\ fails < MaxFails /\ fails' = fails + 1 /\ PowerLoss
      /\ mode' = "closed" /\ h' = NoHandle /\ todo' = << >> /\ UNCHANGED <<told, ops>>
  BY DEF Crash
<1>2. fails' \in 0..MaxFails /\ ops' \in 0..MaxOps
  BY <1>1, BoundsAssumption DEF LedgerInv
<1>3. Loses(file, dirs, file', dirs')
  BY <1>1, LossIs
<1>4. AreFiles(file') /\ \A f \in DOMAIN file' : file'[f].hard = file'[f].live
  <2>1. PICK kept, cut : file' = [f \in kept |-> [live |-> cut[f], hard |-> cut[f]]]
    <3>1. PICK d \in ToSet(dirs) :
            LET kept == Reached(<<d>>)
                open == {f \in kept : file[f].live # file[f].hard}
            IN \E cut \in [open -> UNION {Survivors(file[f]) : f \in open}] :
                  file' = [f \in kept |->
                             LET c == IF f \in open THEN cut[f] ELSE file[f].hard
                             IN [live |-> c, hard |-> c]]
      BY <1>1 DEF PowerLoss
    <3> DEFINE kept == Reached(<<d>>)
               open == {f \in kept : file[f].live # file[f].hard}
    <3>2. PICK cut : file' = [f \in kept |->
                             LET c == IF f \in open THEN cut[f] ELSE file[f].hard
                             IN [live |-> c, hard |-> c]]
      BY <3>1
    <3> HIDE DEF kept, open
    <3> DEFINE all == [f \in kept |-> IF f \in open THEN cut[f] ELSE file[f].hard]
    <3>3. file' = [f \in kept |-> [live |-> all[f], hard |-> all[f]]]
      BY <3>2
    <3> QED BY <3>3
  <2> QED BY <2>1 DEF AreFiles
<1> DEFINE w == World(file', dirs', "closed", NoHandle, told.cur, told.next)
<1>5. Now' = w
  BY <1>1 DEF Now
<1>6. Now.file = file /\ Now.dirs = dirs /\ Now.cur = told.cur /\ Now.next = told.next
  BY NowIs
<1>7. Loses(Now.file, Now.dirs, file', dirs') /\ Steady(Now)
      /\ w = World(file', dirs', "closed", NoHandle, Now.cur, Now.next)
  BY <1>3, <1>6 DEF LedgerInv
<1> HIDE DEF w
<1>8. Steady(w) /\ Going(w, << >>)
  BY <1>4, <1>7, LossRests
<1> QED BY <1>1, <1>2, <1>5, <1>8 DEF LedgerInv

\* A ledger that has been closed.
LEMMA InitHolds ==
    ASSUME Init
    PROVE  LedgerInv
<1>1. PICK start \in Boot :
        /\ file = start.file /\ dirs = <<start.names>>
        /\ told = [cur |-> start.log, next |-> {}]
  BY DEF Init
<1>2. /\ mode = "closed" /\ todo = << >> /\ ops = 0 /\ fails = 0
  BY DEF Init
<1>3. ops \in 0..MaxOps /\ fails \in 0..MaxFails
  BY <1>2, BoundsAssumption
<1> DEFINE F == start.file
           d == start.names
           s == start.log
           ds == <<d>>
           S == {s}
<1>4. /\ AreFiles(F) /\ IsTable(d) /\ IsLog(s) /\ IsSettled(s) /\ Leads(F, d, s)
      /\ \A f \in DOMAIN F : IsPrefix(F[f].hard, F[f].live)
  BY BootAssumption DEF IsSettled
<1>5. /\ Now.file = F /\ Now.dirs = ds /\ Now.mode = "closed" /\ Logs(Now) = S
      /\ Now.cur = s /\ Now.next = {} /\ told = [cur |-> told.cur, next |-> told.next]
  BY <1>1, <1>2, NowIs
<1> HIDE DEF F, d, s, ds
<1>6. IsSeq(ds) /\ Len(ds) = 1 /\ ds[1] = d
  BY SeqOne DEF ds
<1>7. Last(ds) = d
  BY <1>6 DEF Last
<1>8. AllLead(F, ds, d.cur, s) /\ s \in S /\ \A t \in S : IsLog(t)
  BY <1>4, <1>6 DEF AllLead
<1>9. Safe(F, ds, S)
  BY <1>8, AllLeadSafe
<1>10. s \in CutsOf(S)
  <2>1. IsLog(s) /\ Now.cur = s /\ Now.next = {}
    BY <1>4, <1>5
  <2>2. s \in Log!Cuts(s)
    BY <1>4, CutSelf
  <2> QED BY <2>2 DEF CutsOf
<1>11. Closed(F, ds, S)
  BY <1>4, <1>7, <1>8, <1>10 DEF Closed
<1>12. Tidy(F, d.cur)
  <2> DEFINE g == d.cur
             m == ManifestAt(F, g)
  <2>1. SUFFICES ASSUME g # 0
                 PROVE  IsPrefix(F[Part(m.active.id)].hard, F[Part(m.active.id)].live)
    BY DEF Tidy
  <2>2. AllLead(F, ds, g, s)
    BY <1>8
  <2> HIDE DEF g, m
  <2>3. Part(m.active.id) \in DOMAIN F
    BY <2>1, <2>2, AllLeadIs DEF m
  <2> QED BY <1>4, <2>3
<1>13. Rests(F, ds, S)
  BY <1>7, <1>11, <1>12 DEF Rests
<1>14. Steady(Now)
  BY <1>4, <1>5, <1>9 DEF Steady
<1>15. Going(Now, todo)
  BY <1>2, <1>5, <1>13 DEF Going
<1> QED BY <1>3, <1>5, <1>14, <1>15 DEF LedgerInv

\* Every step.
LEMMA NextKeeps ==
    ASSUME FaultsHandled, LedgerInv, [Next]_vars
    PROVE  LedgerInv'
<1>1. "list" \notin Faults /\ "reopen" \notin Faults /\ "publish" \notin Faults
  BY DEF FaultsHandled
<1>2. CASE UNCHANGED vars
  BY <1>2 DEF vars, LedgerInv, Now, Going, Rests, Views, Opened, Idle, Names
<1>3. CASE Next
  BY <1>1, <1>3, AppendKeeps, SyncKeeps, RotateKeeps, TruncateKeeps, PruneKeeps, OpenKeeps,
     ReadOnlyKeeps, CloseKeeps, AssignKeeps, IoKeeps, IoFailsKeeps, AllocFailsKeeps, CrashKeeps
     DEF Next
<1> QED BY <1>2, <1>3

---------------------------------------------------------------------------
(* The theorems.                                                           *)

\* Whatever is called and whatever fails, the directory stays one that a ledger
\* can be opened from, and what is under way is a plan that ends in a ledger
\* that works (led89_check_mutable, led89_open_io).
THEOREM LedgerStaysSound ==
    ASSUME FaultsHandled
    PROVE  Spec => []LedgerInv
<1>1. Init => LedgerInv
  BY InitHolds
<1>2. LedgerInv /\ [Next]_vars => LedgerInv'
  BY NextKeeps
<1> QED BY <1>1, <1>2, PTL DEF Spec

\* What the application was told of is a log.
LEMMA ToldIsLog ==
    ASSUME LedgerInv
    PROVE  IsLog(told.cur) /\ \A s \in told.next : IsLog(s)
<1>1. Steady(Now) /\ Logs(Now) = {told.cur} \union told.next
  BY NowIs DEF LedgerInv
<1> QED BY <1>1 DEF Steady, Safe

\* A handle that reads finds its records.
LEMMA ReaderFinds ==
    ASSUME LedgerInv, Idle,
           mode \in {"open", "readonly"} \/ (mode = "poisoned" /\ told.next = {})
    PROVE  Finds(file, Names, h, told.cur.log)
<1>1. /\ Now.file = file /\ Now.dirs = dirs /\ Now.mode = mode /\ Now.h = h
      /\ Now.cur = told.cur /\ Now.next = told.next /\ Top(Now) = Names
  BY NowIs
<1>2. CASE mode = "open"
  <2>1. Good(Now)
    BY <1>2, MutableGood DEF Mutable
  <2> QED BY <1>1, <2>1 DEF Good
<1>3. CASE mode = "readonly"
  <2>1. Views(Now)
    BY <1>3, InMode
  <2> QED BY <1>1, <2>1 DEF Views
<1>4. CASE mode = "poisoned" /\ told.next = {}
  <2>1. Steady(Opened(Now))
    BY <1>4, InMode
  <2> DEFINE w == Opened(Now)
  <2>2. /\ w.file = file /\ w.mode = "open" /\ w.h = h /\ w.cur = told.cur /\ w.next = {}
        /\ Top(w) = Names
    BY <1>1, <1>4 DEF Opened, World, Top, Names
  <2> HIDE DEF w
  <2>3. Steady(w)
    BY <2>1 DEF w
  <2> QED BY <2>2, <2>3 DEF Steady
<1> QED BY <1>2, <1>3, <1>4

\* The type invariant.
LEMMA TypeHolds ==
    ASSUME LedgerInv
    PROVE  LedgerTypeOK
<1>1. /\ ops \in 0..MaxOps /\ fails \in 0..MaxFails /\ Steady(Now)
      /\ mode \in {"closed", "opening", "open", "readonly", "poisoned", "failed"}
  BY InMode DEF LedgerInv
<1>2. /\ Now.mode = mode /\ Now.h = h /\ Now.cur = told.cur
  BY NowIs
<1>3. told.cur.log \in Seq(Value \union {Gone})
  BY ToldIsLog DEF IsLog
<1>4. mode = "open" => Typed(h)
  BY <1>1, <1>2 DEF Steady
<1>5. mode = "readonly" => Typed(h)
  <2>1. SUFFICES ASSUME mode = "readonly" PROVE Typed(h)
    OBVIOUS
  <2>2. Views(Now)
    BY <2>1, InMode
  <2>3. IsHandle(h) /\ Matches(h, told.cur)
    BY <1>2, <2>2 DEF Views
  <2>4. h.active \in 1..Len(h.parts)
    BY <2>3, HandleIs
  <2>5. told.cur.first <= told.cur.stable /\ told.cur.stable <= Len(told.cur.log) + 1
    BY ToldIsLog, LogIs
  <2> QED BY <2>3, <2>4, <2>5 DEF Matches, Typed
<1> QED BY <1>1, <1>3, <1>4, <1>5 DEF LedgerTypeOK, Typed

\* The handle and the log it serves stay what they are said to be, whatever
\* fails.
THEOREM LedgerTypes ==
    ASSUME FaultsHandled
    PROVE  Spec => []LedgerTypeOK
BY LedgerStaysSound, TypeHolds, PTL

\* No failure and no power loss leaves a directory that opening refuses as
\* corrupt (led89_recover).
THEOREM LedgerAlwaysRecovers ==
    ASSUME FaultsHandled
    PROVE  Spec => []AlwaysRecovers
<1>1. LedgerInv => AlwaysRecovers
  <2>1. SUFFICES ASSUME LedgerInv, mode = "closed" PROVE OpenPlans # {}
    BY DEF AlwaysRecovers
  <2>2. Closed(file, dirs, Logs(Now))
    BY <2>1, InMode DEF Rests
  <2> QED BY <2>2, OpenPlansExist
<1> QED BY <1>1, LedgerStaysSound, PTL

\* What is read is what was appended, also by a handle that failed
\* (led89_dir_find, led89_read_at_body).
THEOREM LedgerReadsExactly ==
    ASSUME FaultsHandled
    PROVE  Spec => []ReadsAreExact
<1>1. LedgerInv => ReadsAreExact
  <2>1. SUFFICES ASSUME LedgerInv, Idle,
                        mode \in {"open", "readonly"} \/ (mode = "poisoned" /\ told.next = {}),
                        NEW i \in h.first..h.end - 1
                 PROVE  ReadRecord(h, i) = told.cur.log[i]
    BY DEF ReadsAreExact
  <2>2. Finds(file, Names, h, told.cur.log)
    BY <2>1, ReaderFinds
  <2> DEFINE log == told.cur.log
  <2> HIDE DEF log
  <2>3. Finds(file, Names, h, log)
    BY <2>2 DEF log
  <2>4. ReadRecord(h, i) = log[i]
    BY <2>3, ReadRecordIs
  <2> QED BY <2>4 DEF log
<1> QED BY <1>1, LedgerStaysSound, PTL

\* An open ledger writes exactly behind what it knows of its active part
\* (led89_trim_active, led89_active_append).
THEOREM LedgerWritesAtEnd ==
    ASSUME FaultsHandled
    PROVE  Spec => []WritesAtEnd
<1>1. LedgerInv => WritesAtEnd
  <2>1. SUFFICES ASSUME LedgerInv, mode = "open", Idle
                 PROVE  h.len = Len(Read(Part(Active(h).id)))
    BY DEF WritesAtEnd
  <2>2. Good(Now) /\ Now.h = h /\ Now.file = file /\ Top(Now) = Names
    BY <2>1, MutableGood, NowIs DEF Mutable
  <2> DEFINE d == h.parts[Len(h.parts)]
             f == Part(d.id)
  <2>3. Active(h) = d /\ Len(h.parts) \in 1..Len(h.parts)
    BY <2>2, HandleIs DEF Good
  <2>4. h.len = Len(file[f].live)
    BY <2>2 DEF Good, Whole
  <2>5. d.id \in Names.part
    BY <2>2, <2>3 DEF Good, Finds
  <2>6. HasName(Names, f)
    BY <2>5, Named
  <2>7. Read(f) = file[f].live
    <3> HIDE DEF f
    <3> QED BY <2>6, ReadIs
  <2> QED BY <2>3, <2>4, <2>7
<1> QED BY <1>1, LedgerStaysSound, PTL

\* verify finds the digest of every sealed part and every batch of the
\* directory in their places (led89_verify).
THEOREM LedgerVerifies ==
    ASSUME FaultsHandled
    PROVE  Spec => []VerifyFindsNothing
<1>1. LedgerInv => VerifyFindsNothing
  <2>1. SUFFICES ASSUME LedgerInv, mode = "open", Idle
                 PROVE  VerifyPasses(h)
    BY DEF VerifyFindsNothing
  <2>2. /\ Good(Now) /\ Now.h = h /\ Now.file = file /\ Now.dirs = dirs /\ Top(Now) = Names
        /\ Now.cur = told.cur
    BY <2>1, MutableGood, NowIs DEF Mutable
  <2> DEFINE g == h.gen
             m == ManifestAt(file, g)
             s == StableLog(told.cur)
             log == told.cur.log
             n == Len(m.sealed)
  <2>3. /\ AllLead(file, dirs, g, s) /\ IsHandle(h) /\ Describes(m, h) /\ Finds(file, Names, h, log)
    BY <2>2 DEF Good
  <2> HIDE DEF m, s, log, g
  <2>4. g # 0
    BY <2>3 DEF IsHandle, g
  <2>5. Ready(file, Names, m, s) /\ n \in Nat
    BY <2>3, <2>4, AllLeadIs, ManifestIs DEF m, Names
  <2>6. /\ Len(h.parts) = n + 1 /\ \A i \in 1..n : m.sealed[i] = h.parts[i]
    BY <2>3 DEF Describes
  <2>7. \A p \in 1..Len(h.parts) : Read(Part(h.parts[p].id)) = file[Part(h.parts[p].id)].live
    <3> SUFFICES ASSUME NEW p \in 1..Len(h.parts), NEW f, f = Part(h.parts[p].id)
                 PROVE  Read(f) = file[f].live
      OBVIOUS
    <3>1. h.parts[p].id \in Names.part
      BY <2>3 DEF Finds
    <3>2. HasName(Names, f)
      BY <3>1, Named
    <3> QED BY <3>2, ReadIs
  <2>8. ASSUME NEW i \in 1..Len(h.parts) - 1
        PROVE  LET c == Read(Part(h.parts[i].id))
               IN /\ Len(c) > 0
                  /\ c[Len(c)].t = "footer"
                  /\ c[Len(c)].digest = SubSeq(c, 2, Len(c) - 1)
    <3> DEFINE c == Read(Part(h.parts[i].id))
               d == m.sealed[i]
    <3>1. i \in 1..n /\ i \in 1..Len(h.parts)
      BY <2>5, <2>6
    <3>2. c = file[Part(d.id)].live
      BY <2>6, <2>7, <3>1
    <3>3. GoodSealed(d, c, s.log)
      BY <2>5, <3>1, <3>2 DEF Ready
    <3> HIDE DEF c, d
    <3>4. /\ Len(c) >= 3 /\ c[(Len(c) - 1) + 1].t = "footer"
          /\ c[Len(c)].digest = SubSeq(c, 2, Len(c) - 1) /\ Len(c) \in Nat
      BY <3>3, SeqIs DEF GoodSealed, ScanSealed, GoodPart
    <3>5. (Len(c) - 1) + 1 = Len(c)
      BY <3>4
    <3>6. Len(c) > 0 /\ c[Len(c)].t = "footer"
      BY <3>4, <3>5
    <3> QED BY <3>4, <3>6 DEF c
  <2>9. ASSUME NEW e \in 1..Len(h.dir)
        PROVE  LET c == Read(Part(h.parts[h.dir[e].part].id))
               IN h.dir[e].pos <= Len(c) /\ c[h.dir[e].pos].t = "batch"
    <3>1. /\ h.dir[e].part \in 1..Len(h.parts)
          /\ Locates(file[Part(h.parts[h.dir[e].part].id)].live, h.dir[e], log)
      BY <2>3 DEF Finds
    <3> DEFINE c == Read(Part(h.parts[h.dir[e].part].id))
               x == h.dir[e]
    <3>2. Locates(c, x, log)
      BY <2>7, <3>1
    <3> HIDE DEF c, x
    <3>3. x.pos \in 3..Len(c) /\ c[x.pos].t = "batch"
      BY <3>2 DEF Locates
    <3>4. x.pos <= Len(c)
      BY <3>3
    <3> QED BY <3>3, <3>4 DEF c, x
  <2> QED BY <2>8, <2>9 DEF VerifyPasses
<1> QED BY <1>1, LedgerStaysSound, PTL

---------------------------------------------------------------------------
(* The ledger implements the durable log.                                  *)

\* What the start of an operation tells.
LEMMA StartTells ==
    ASSUME LedgerInv, Mutable, NEW p, NEW S, Start(p, S)
    PROVE  /\ told'.cur = told.cur /\ told'.next = S /\ mode' = "open" /\ mode = "open"
           /\ told.next = {} /\ IsLog(told.cur)
<1>1. told = [cur |-> told.cur, next |-> told.next] /\ told' = [told EXCEPT !.next = S]
  BY DEF LedgerInv, Start
<1>2. told'.cur = told.cur /\ told'.next = S
  BY <1>1
<1>3. mode = "open" /\ mode' = "open"
  BY DEF Mutable, Start
<1> QED BY <1>2, <1>3, MutableGood, ToldIsLog

\* append, sync and rotate begin unnoticed.
LEMMA StartStutters ==
    ASSUME LedgerInv, AppendOp \/ SyncOp \/ RotateOp
    PROVE  UNCHANGED Log!dvars
<1>1. Mutable /\ \E p : Start(p, {})
  BY DEF AppendOp, SyncOp, RotateOp
<1>2. PICK p : Start(p, {})
  BY <1>1
<1>3. told'.cur = told.cur /\ told'.next = told.next /\ mode' = mode
  BY <1>1, <1>2, StartTells
<1> QED BY <1>3 DEF Log!dvars

\* The truncated log, field by field.
LEMMA TruncatedFields ==
    ASSUME NEW s, IsLog(s), NEW from
    PROVE  TruncatedLog(s, from) =
             [log |-> SubSeq(s.log, 1, from - 1), first |-> s.first,
              stable |-> from, rev |-> s.rev + 1]
<1> DEFINE log == SubSeq(s.log, 1, from - 1)
<1>1. s = [log |-> s.log, first |-> s.first, stable |-> s.stable, rev |-> s.rev]
  BY DEF IsLog
<1>2. TruncatedLog(s, from) = [s EXCEPT !.log = log, !.stable = from, !.rev = @ + 1]
  BY DEF TruncatedLog
<1> HIDE DEF log
<1>3. TruncatedLog(s, from) = [log |-> log, first |-> s.first, stable |-> from, rev |-> s.rev + 1]
  BY ONLY <1>1, <1>2
<1> QED BY <1>3 DEF log

\* truncate_from begins what the durable log calls a truncation.
LEMMA TruncateBegins ==
    ASSUME LedgerInv, TruncateOp
    PROVE  Log!BeginTruncate
<1>1. Mutable /\ h.end = h.stable
  BY DEF TruncateOp
<1>2. PICK from \in h.first..h.end - 1 :
        Start(TruncatePlan(h, told.cur, from), {TruncatedLog(told.cur, from)})
  BY DEF TruncateOp
<1> DEFINE s == told.cur
           t == TruncatedLog(s, from)
<1>3. /\ told'.cur = s /\ told'.next = {t} /\ mode' = "open" /\ mode = "open"
      /\ told.next = {} /\ IsLog(s)
  BY <1>1, <1>2, StartTells
<1>4. Matches(h, s)
  <2>1. Good(Now) /\ Now.h = h /\ Now.cur = told.cur
    BY <1>1, MutableGood
  <2> QED BY <2>1 DEF Good
<1>5. s.stable = Len(s.log) + 1 /\ from \in s.first..s.stable - 1
  BY <1>1, <1>2, <1>4 DEF Matches
<1>6. t = Log!Truncated(from)
  BY <1>3, TruncatedFields DEF Log!Truncated
<1> HIDE DEF t
<1> QED BY <1>3, <1>5, <1>6 DEF Log!BeginTruncate, Log!LogEnd

\* prune_before begins what the durable log calls a pruning.
LEMMA PruneBegins ==
    ASSUME LedgerInv, PruneOp
    PROVE  Log!BeginPrune
<1>1. Mutable
  BY DEF PruneOp
<1>2. PICK i \in h.first + 1..h.stable :
        /\ PartsUpTo(h, i) > 0
        /\ Start(PrunePlan(h, told.cur, i),
                 {PrunedLog(told.cur, h.parts[PartsUpTo(h, i) + 1].first)})
  BY DEF PruneOp
<1> DEFINE s == told.cur
           n == PartsUpTo(h, i)
           to == h.parts[n + 1].first
           t == PrunedLog(s, to)
           u == World(file, dirs, "open", h, s, {t})
           ps == h.parts
<1>3. /\ told'.cur = s /\ told'.next = {t} /\ mode' = "open" /\ mode = "open"
      /\ told.next = {} /\ IsLog(s)
  BY <1>1, <1>2, StartTells
<1>4. /\ Good(Now) /\ Steady(Now) /\ Now.h = h /\ Now.cur = s
  BY <1>1, MutableGood
<1>5. Now.file = file /\ Now.dirs = dirs
  BY NowIs
<1>6. PruneAsked(Now, i, n, ps, to, t, u)
  BY <1>2, <1>4, <1>5 DEF PruneAsked
<1>7. t = Log!Pruned(to)
  BY DEF Log!Pruned, PrunedLog
<1>8. to = ps[n + 1].first /\ ps = h.parts
  OBVIOUS
<1> HIDE DEF t, u, n, to, ps
<1>9. Prunes(Now.file, Top(Now), Now.h, Now.cur, n, ps, to, t)
  BY <1>6, PruneAskedIs
<1>10. PrunesTo(Now.h, Now.cur, n, ps, to, t)
  BY <1>9, PrunableIs
<1>11. /\ Chain(ps, h.first) /\ Rising(ps) /\ n + 1 \in 1..Len(ps) /\ n \in Nat
       /\ to \in h.first..h.stable /\ h.first = s.first /\ h.stable = s.stable
       /\ Len(ps) \in Nat
  BY <1>4, <1>10 DEF PrunesTo
<1>12. /\ n \in 1..Len(ps) - 1 /\ PartsHold(Now.file, Top(Now), ps, StableLog(s))
  BY <1>4, <1>8, <1>9 DEF Prunes, Prunable
<1>13. ps[1].first < ps[1].end
  <2>1. 1 \in 1..Len(ps) - 1
    BY <1>11, <1>12
  <2> DEFINE c == Now.file[Part(ps[1].id)].live
             log == StableLog(s).log
  <2>2. GoodSealed(ps[1], c, log)
    BY <1>12, <2>1 DEF PartsHold
  <2> HIDE DEF c, log
  <2> QED BY <2>2 DEF GoodSealed
<1>14. /\ \A j, k \in 1..Len(ps) : j < k => ps[j].end <= ps[k].first
       /\ \A j \in 1..Len(ps) : h.first <= ps[j].first
  BY <1>11, ChainRises
<1>15. 1 \in 1..Len(ps) /\ 1 < n + 1
  BY <1>11, <1>12
<1>16. ps[1].end <= to /\ h.first <= ps[1].first
  BY <1>8, <1>11, <1>14, <1>15
<1>17. ps[1].first \in Nat /\ ps[1].end \in Nat /\ h.first \in Nat
  BY <1>11, <1>15 DEF Chain
<1>18. to \in s.first + 1..s.stable
  <2> DEFINE a == h.first
             b == h.stable
             x == ps[1].first
             y == ps[1].end
  <2>1. to \in a..b /\ a \in Nat /\ x \in Nat /\ y \in Nat /\ a <= x /\ x < y /\ y <= to
    BY <1>11, <1>13, <1>16, <1>17
  <2> HIDE DEF a, b, x, y
  <2>2. to \in a + 1..b
    BY ONLY <2>1
  <2> QED BY <1>11, <2>2 DEF a, b
<1> QED BY <1>3, <1>7, <1>18 DEF Log!BeginPrune

\* The cuts of the logs that a ledger may be found with.
LEMMA OpensCut ==
    ASSUME NEW s, s \in CutsOf(Logs(Now))
    PROVE  s \in UNION {Log!Cuts(x) : x \in {told.cur} \union told.next}
BY NowIs DEF CutsOf

\* What an assignment tells the application is a step of the durable log.
LEMMA AssignTells ==
    ASSUME LedgerInv, Assign
    PROVE  [Log!DurableNext]_(Log!dvars)
<1> DEFINE c == Head(todo)
           s == told'.cur
<1>1. Assigned(c, Now, Now') /\ todo # << >>
  BY AssignKeeps DEF Assign
<1>2. Now.mode = mode /\ Now.cur = told.cur /\ Now.next = told.next
  BY NowIs
<1>3. Now'.mode = mode' /\ Now'.cur = s /\ Now'.next = told'.next
  BY DEF Now, World
<1>4. mode' = "open" /\ mode \in {"opening", "open"}
  <2>1. Now'.mode = "open"
    BY <1>1 DEF Assigned, World
  <2> QED BY <1>1, <1>3, <2>1, InMode
<1> HIDE DEF c
<1>5. \/ mode = "open" /\ s = told.cur /\ told'.next = told.next
      \/ told'.next = {} /\ Tells(Now, s)
  BY <1>1, <1>2, <1>3 DEF Assigned
<1>6. CASE mode = "open" /\ s = told.cur /\ told'.next = told.next
  BY <1>4, <1>6 DEF Log!dvars
<1>7. CASE told'.next = {} /\ Tells(Now, s)
  <2>1. CASE mode = "opening" /\ s \in CutsOf(Logs(Now))
    <3>1. s \in UNION {Log!Cuts(x) : x \in {told.cur} \union told.next}
      BY <2>1, OpensCut
    <3> QED BY <1>4, <1>7, <2>1, <3>1 DEF Log!DurableNext, Log!Open
  <2>2. CASE mode = "open" /\ told.next = {} /\ Appends(told.cur, s)
    <3>1. \E n \in 1..Len(s.log) :
             LET k == Len(s.log) - n
             IN told.cur = [s EXCEPT !.log = SubSeq(@, 1, k)]
      BY <2>2 DEF Appends
    <3>2. Log!AppendRecords
      BY <1>4, <1>7, <2>2, <3>1 DEF Log!AppendRecords
    <3> QED BY <3>2 DEF Log!DurableNext
  <2>3. CASE mode = "open" /\ told.next = {} /\ s = SyncedLog(told.cur)
    <3>1. Log!Sync
      BY <1>4, <1>7, <2>3 DEF Log!Sync, SyncedLog, Log!LogEnd
    <3> QED BY <3>1 DEF Log!DurableNext
  <2>4. CASE mode = "open" /\ s \in told.next
    <3>1. Log!Commit
      BY <1>4, <1>7, <2>4 DEF Log!Commit
    <3> QED BY <3>1 DEF Log!DurableNext
  <2> QED BY <1>2, <1>7, <2>1, <2>2, <2>3, <2>4 DEF Tells
<1> QED BY <1>5, <1>6, <1>7

\* A reader, too, finds one of the logs.
LEMMA ReadOnlyOpens ==
    ASSUME LedgerInv, OpenReadOnly
    PROVE  Log!Open
<1>1. /\ mode = "closed" /\ Names.cur # 0 /\ mode' = "readonly"
  BY DEF OpenReadOnly
<1>2. PICK m \in Recovered :
        LET hd == [RecoveredHandle(m) EXCEPT !.next = Max(Referenced(m)) + 1]
        IN h' = hd /\ told' = [cur |-> LogOf(hd), next |-> {}]
  BY DEF OpenReadOnly
<1> DEFINE hd == [RecoveredHandle(m) EXCEPT !.next = Max(Referenced(m)) + 1]
           s == LogOf(hd)
           w == World(file, dirs, "readonly", hd, s, {})
<1>3. told'.cur = s /\ told'.next = {}
  BY <1>2
<1>4. Rests(file, dirs, Logs(Now)) /\ AreFiles(file)
  <2>1. Steady(Now) /\ Now.file = file
    BY NowIs DEF LedgerInv
  <2> QED BY <1>1, <2>1, InMode DEF Steady
<1>5. s \in CutsOf(Logs(Now))
  BY <1>1, <1>4, ReadOnlyViews
<1> HIDE DEF s
<1>6. s \in UNION {Log!Cuts(x) : x \in {told.cur} \union told.next}
  BY <1>5, OpensCut
<1> QED BY <1>1, <1>3, <1>6 DEF Log!Open

\* Whatever closes the ledger or breaks it takes it down, and changes nothing
\* of what was told.
LEMMA Downs ==
    ASSUME UNCHANGED told, mode' \in {"closed", "failed", "poisoned"}
    PROVE  [Log!DurableNext]_(Log!dvars)
<1>1. CASE mode \in {"open", "readonly"}
  <2>1. Log!Down
    BY <1>1 DEF Log!Down
  <2> QED BY <2>1 DEF Log!DurableNext
<1>2. CASE mode \notin {"open", "readonly"}
  BY <1>2 DEF Log!dvars
<1> QED BY <1>1, <1>2

\* Every step of the ledger is a step of the durable log, or none.
LEMMA DurableStep ==
    ASSUME FaultsHandled, LedgerInv, [Next]_vars
    PROVE  [Log!DurableNext]_(Log!dvars)
<1>1. "list" \notin Faults /\ "reopen" \notin Faults /\ "publish" \notin Faults
  BY DEF FaultsHandled
<1>2. CASE AppendOp \/ SyncOp \/ RotateOp
  BY <1>2, StartStutters
<1>3. CASE TruncateOp
  BY <1>3, TruncateBegins DEF Log!DurableNext
<1>4. CASE PruneOp
  BY <1>4, PruneBegins DEF Log!DurableNext
<1>5. CASE OpenOp
  <2>1. mode = "closed" /\ mode' = "opening" /\ UNCHANGED told
    BY <1>5 DEF OpenOp
  <2> QED BY <2>1 DEF Log!dvars
<1>6. CASE OpenReadOnly
  BY <1>6, ReadOnlyOpens DEF Log!DurableNext
<1>7. CASE Close
  <2>1. mode' = "closed" /\ UNCHANGED told
    BY <1>7 DEF Close
  <2> QED BY <2>1, Downs
<1>8. CASE Assign
  BY <1>8, AssignTells
<1>9. CASE Io
  <2>1. UNCHANGED <<mode, told>>
    BY <1>9 DEF Io
  <2> QED BY <2>1 DEF Log!dvars
<1>10. CASE IoFails
  <2>1. UNCHANGED told /\ (mode' = mode \/ mode' \in {"failed", "poisoned"})
    BY <1>10 DEF IoFails
  <2>2. CASE mode' = mode
    BY <2>1, <2>2 DEF Log!dvars
  <2> QED BY <2>1, <2>2, Downs
<1>11. CASE AllocFails
  <2>1. UNCHANGED told /\ mode' = "poisoned"
    BY <1>1, <1>11 DEF AllocFails
  <2> QED BY <2>1, Downs
<1>12. CASE Crash
  <2>1. mode' = "closed" /\ UNCHANGED told
    BY <1>12 DEF Crash
  <2> QED BY <2>1, Downs
<1>13. CASE UNCHANGED vars
  BY <1>13 DEF vars, Log!dvars
<1> QED BY <1>2, <1>3, <1>4, <1>5, <1>6, <1>7, <1>8, <1>9, <1>10, <1>11, <1>12, <1>13 DEF Next

\* A ledger that has been closed is a durable log.
LEMMA DurableStart ==
    ASSUME Init
    PROVE  Log!DurableInit
<1>1. PICK start \in Boot : told = [cur |-> start.log, next |-> {}]
  BY DEF Init
<1> DEFINE s == start.log
<1>2. IsLog(s) /\ s.stable = Len(s.log) + 1
  BY BootAssumption
<1>3. told.cur = s /\ told.next = {}
  BY <1>1
<1>4. mode = "closed"
  BY DEF Init
<1>5. s.log \in Seq(Value \union {Gone}) /\ s.first \in 1..Len(s.log) + 1
  BY <1>2 DEF IsLog
<1> HIDE DEF s
<1> QED BY <1>2, <1>3, <1>4, <1>5 DEF Log!DurableInit, Log!LogEnd

\* Whatever fails and whenever, the application finds its log again: what sync
\* acknowledged, no index twice, a truncation or a pruning entirely or not at
\* all (ledger89.h "never a mixture", ledger89_truncate.c).
THEOREM LedgerIsDurable ==
    ASSUME FaultsHandled
    PROVE  Spec => ImplementsDurableLog
<1>1. Init => Log!DurableInit
  BY DurableStart
<1>2. LedgerInv /\ [Next]_vars => [Log!DurableNext]_(Log!dvars)
  BY DurableStep
<1> QED BY <1>1, <1>2, LedgerStaysSound, PTL DEF Spec, ImplementsDurableLog, Log!DurableSpec

\* What a log keeps of the records below its stable index when it is cut.
LEMMA CutKeeps ==
    ASSUME NEW s, IsLog(s), NEW t, t \in Log!Cuts(s)
    PROVE  /\ t.stable >= s.stable
           /\ \A i \in 1..s.stable - 1 : t.log[i] = s.log[i]
<1>1. PICK k \in s.stable..Len(s.log) + 1 : t = [s EXCEPT !.log = SubSeq(@, 1, k - 1), !.stable = k]
  BY DEF Log!Cuts, Log!LogEnd
<1>2. t = CutAt(s, k)
  BY <1>1 DEF CutAt
<1>3. CutAt(s, k).stable = k /\ \A i \in 1..k - 1 : CutAt(s, k).log[i] = s.log[i]
  BY CutIs
<1>4. s.stable \in Nat /\ k \in Nat /\ s.stable <= k
  BY LogIs
<1> HIDE <1>1
<1>5. \A i \in 1..s.stable - 1 : i \in 1..k - 1
  BY <1>4
<1> QED BY <1>2, <1>3, <1>4, <1>5

\* What an open handle has reported below stable_end is found again by the
\* next one, unless a truncation or a pruning was under way (ledger89.h
\* "Records guaranteed locally durable", led89_recover).
THEOREM LedgerStableSurvives ==
    ASSUME FaultsHandled
    PROVE  Spec => StableSurvives
<1> DEFINE A == mode \notin {"open", "readonly"} /\ mode' \in {"open", "readonly"}
                  /\ told.next = {} =>
                      /\ told'.cur.stable >= told.cur.stable
                      /\ \A i \in 1..told.cur.stable - 1 :
                            told'.cur.log[i] = told.cur.log[i]
<1>1. LedgerInv /\ [Next]_vars => [A]_vars
  <2>1. SUFFICES ASSUME LedgerInv, [Next]_vars, mode \notin {"open", "readonly"},
                        mode' \in {"open", "readonly"}, told.next = {}
                 PROVE  /\ told'.cur.stable >= told.cur.stable
                        /\ \A i \in 1..told.cur.stable - 1 :
                              told'.cur.log[i] = told.cur.log[i]
    OBVIOUS
  <2> DEFINE s == told.cur
             t == told'.cur
  <2>2. [Log!DurableNext]_(Log!dvars)
    BY <2>1, DurableStep
  <2>3. Log!DurableNext
    BY <2>1, <2>2 DEF Log!dvars
  <2>4. Log!Open
    BY <2>1, <2>3 DEF Log!DurableNext, Log!AppendRecords, Log!Sync, Log!BeginTruncate,
       Log!BeginPrune, Log!Commit, Log!Abort, Log!Down
  <2>5. t \in UNION {Log!Cuts(x) : x \in {s} \union told.next}
    BY <2>4 DEF Log!Open
  <2>6. t \in Log!Cuts(s)
    BY <2>1, <2>5
  <2>7. IsLog(s)
    BY <2>1, ToldIsLog
  <2> HIDE DEF s, t
  <2>8. t.stable >= s.stable /\ \A i \in 1..s.stable - 1 : t.log[i] = s.log[i]
    BY <2>6, <2>7, CutKeeps
  <2> QED BY <2>8 DEF s, t
<1> QED BY <1>1, LedgerStaysSound, PTL DEF Spec, StableSurvives

---------------------------------------------------------------------------
(* What a durable CURRENT leads to is never rewritten.                     *)

\* The parts that the durable table of ds leads to.
PublishedIn(F, ds) ==
    IF ds[1].cur = 0 THEN {} ELSE Referenced(F[Man(ds[1].cur)].hard[1])

\* The last marker of a file.
LastMark(c) == Max({k \in 1..Len(c) : c[k].t = "marker"})

\* What is durable of a file, up to its last marker, is there.
Rooted(f) ==
    /\ IsSeq(f.live) /\ IsSeq(f.hard)
    /\ IsPrefix(f.hard, f.live) \/ IsPrefix(f.live, f.hard)
    /\ LastMark(f.hard) \in 1..Len(f.hard)
    /\ IsPrefix(SubSeq(f.hard, 1, LastMark(f.hard)), f.live)

\* The last marker of a file that has one.
LEMMA LastMarkIs ==
    ASSUME NEW c, IsSeq(c), NEW k \in 1..Len(c), c[k].t = "marker"
    PROVE  LastMark(c) \in 1..Len(c) /\ c[LastMark(c)].t = "marker"
<1> DEFINE ms == {j \in 1..Len(c) : c[j].t = "marker"}
<1>1. Len(c) \in Nat /\ k \in ms
  BY SeqIs
<1>2. ms \subseteq 0..Len(c) /\ ms # {}
  BY <1>1
<1>3. LastMark(c) = Max(ms)
  BY DEF LastMark
<1> HIDE DEF ms
<1>4. Max(ms) \in ms
  BY <1>1, <1>2, MaxOf
<1> QED BY <1>3, <1>4 DEF ms

\* An active part is marked.
LEMMA ActiveMarked ==
    ASSUME NEW d, NEW rev, NEW f, NEW s, SafeActive(d, rev, f, s)
    PROVE  Rooted(f)
<1> DEFINE c == f.hard
           l == f.live
           m == LastMark(c)
<1>1. /\ IsSeq(l) /\ IsSeq(c) /\ GoodActive(d, rev, c, s)
      /\ IsPrefix(c, l) \/ IsPrefix(l, c)
  BY SafeIs
<1>2. \A k \in 1..Len(c) : c[k].t = "marker" => IsPrefix(SubSeq(c, 1, k), l)
  BY DEF SafeActive
<1> HIDE DEF c, l
<1>3. PICK k \in 2..Len(c) : c[k].t = "marker"
  BY <1>1 DEF GoodActive
<1>4. k \in 1..Len(c)
  BY <1>1, SeqIs
<1>5. m \in 1..Len(c) /\ c[m].t = "marker"
  BY <1>1, <1>3, <1>4, LastMarkIs
<1> HIDE DEF m
<1>6. IsPrefix(SubSeq(c, 1, m), l)
  BY <1>2, <1>5
<1> QED BY <1>1, <1>5, <1>6 DEF Rooted, c, l, m

\* A sealed part is marked.
LEMMA SealedMarked ==
    ASSUME NEW d, NEW f, NEW log, f.live = f.hard, GoodSealed(d, f.live, log)
    PROVE  Rooted(f)
<1> DEFINE c == f.hard
           m == LastMark(c)
<1>1. IsSeq(c) /\ ScanHead(d, c, TRUE, 0) /\ Len(c) >= 3 /\ Len(c) \in Nat
  BY SeqIs DEF GoodSealed, GoodPart, ScanSealed
<1>2. f.live = c
  OBVIOUS
<1> HIDE DEF c
<1>3. 2 \in 1..Len(c) /\ c[2].t = "marker"
  BY <1>1 DEF ScanHead
<1>4. m \in 1..Len(c)
  BY <1>1, <1>3, LastMarkIs
<1> HIDE DEF m
<1>5. m \in 0..Len(c) /\ Len(c) \in 0..Len(c)
  BY <1>1, <1>4
<1>6. IsPrefix(SubSeq(c, 1, m), c)
  BY <1>1, <1>5, PrefixSub
<1>7. IsPrefix(c, c)
  BY <1>1, PrefixIs
<1> QED BY <1>1, <1>2, <1>4, <1>6, <1>7 DEF Rooted, c, m

\* Every part that the durable CURRENT leads to is there and marked.
LEMMA PublishedMarked ==
    ASSUME NEW F, NEW ds, NEW S, Safe(F, ds, S), NEW id \in PublishedIn(F, ds)
    PROVE  Part(id) \in DOMAIN F /\ id \in ds[1].part /\ Rooted(F[Part(id)])
<1> DEFINE d == ds[1]
           g == d.cur
<1>1. g # 0 /\ id \in Referenced(F[Man(g)].hard[1])
  BY DEF PublishedIn
<1>2. PICK s \in S : Leads(F, d, s)
  <2>1. 1 \in 1..Len(ds)
    BY SeqIs DEF Safe
  <2> QED BY <2>1 DEF Safe
<1> DEFINE m == ManifestAt(F, g)
<1> HIDE DEF d
<1>3. LeadsTo(F, d, m, s)
  BY <1>1, <1>2, LeadsIs
<1> HIDE DEF m, g
<1>4. Ready(F, d, m, s) /\ F[Man(g)].hard = <<m>>
  BY <1>3 DEF LeadsTo, g
<1>5. id \in Referenced(m)
  <2>1. F[Man(g)].hard[1] = m
    BY <1>4
  <2> QED BY <1>1, <2>1
<1>6. Part(id) \in DOMAIN F /\ id \in d.part
  BY <1>4, <1>5 DEF Ready
<1>7. CASE id = m.active.id
  <2> DEFINE f == F[Part(id)]
             a == m.active
             r == m.rev
  <2>1. SafeActive(a, r, f, s)
    BY <1>4, <1>7 DEF Ready
  <2> HIDE DEF f, a, r
  <2>2. Rooted(f)
    BY <2>1, ActiveMarked
  <2> QED BY <1>6, <2>2 DEF f, d
<1>8. CASE id # m.active.id
  <2>1. PICK i \in 1..Len(m.sealed) : id = m.sealed[i].id
    BY <1>5, <1>8 DEF Referenced
  <2> DEFINE f == F[Part(id)]
             a == m.sealed[i]
             log == s.log
  <2>2. f.live = f.hard /\ GoodSealed(a, f.live, log)
    BY <1>4, <2>1 DEF Ready
  <2> HIDE DEF f, a, log
  <2>3. Rooted(f)
    BY <2>2, SealedMarked
  <2> QED BY <1>6, <2>3 DEF f, d
<1> QED BY <1>7, <1>8

\* Of a marked file a power loss leaves what is marked.
LEMMA MarkedSurvives ==
    ASSUME NEW f, Rooted(f), NEW l, l \in Survivors(f), IsSeq(l)
    PROVE  IsPrefix(SubSeq(f.hard, 1, LastMark(f.hard)), l)
<1> DEFINE c == f.hard
           m == LastMark(c)
           p == SubSeq(c, 1, m)
<1>1. /\ IsSeq(f.live) /\ IsSeq(c) /\ m \in 1..Len(c) /\ IsPrefix(p, f.live)
      /\ IsPrefix(c, f.live) \/ IsPrefix(f.live, c)
  BY DEF Rooted
<1>2. \/ l = c
      \/ /\ IsPrefix(c, f.live) => IsPrefix(c, l)
         /\ IsPrefix(f.live, c) => l = f.live
  BY DEF Survivors
<1> SUFFICES IsPrefix(p, l)
  OBVIOUS
<1> HIDE DEF c, m
<1>3. m \in 0..Len(c) /\ Len(c) \in Nat
  BY <1>1, SeqIs
<1>4. IsPrefix(p, c) /\ IsSeq(p) /\ Len(p) = m
  BY <1>1, <1>3, PrefixSub, SeqPrefix
<1> HIDE DEF p
<1>5. CASE l = c
  BY <1>4, <1>5
<1>6. CASE l = f.live
  BY <1>1, <1>6
<1>7. CASE IsPrefix(c, l)
  <2>1. Len(p) <= Len(c) /\ \A i \in 1..Len(p) : p[i] = c[i]
    BY <1>1, <1>4, PrefixIs
  <2>2. Len(c) <= Len(l) /\ \A i \in 1..Len(c) : c[i] = l[i]
    BY <1>1, <1>7, PrefixIs
  <2>3. Len(l) \in Nat
    BY SeqIs
  <2>4. \A i \in 1..m : i \in 1..Len(c)
    BY <1>3
  <2>5. Len(p) <= Len(l) /\ \A i \in 1..Len(p) : p[i] = l[i]
    BY <1>3, <1>4, <2>1, <2>2, <2>3, <2>4
  <2>6. IsPrefix(p, l)
    BY <1>4, <2>5, PrefixIs
  <2> QED BY <2>6
<1> QED BY <1>1, <1>2, <1>5, <1>6, <1>7

\* A call leaves what is durable of a file or makes durable what is there.
LEMMA CallHard ==
    ASSUME NEW c, NEW F, AreFiles(F), NEW ds, NEW G, NEW es, Performed(c, F, ds, G, es),
           NEW f \in DOMAIN F, f \in DOMAIN G
    PROVE  G[f].hard = F[f].hard \/ G[f].live = F[f].live
<1>1. F[f] = [live |-> F[f].live, hard |-> F[f].hard]
  BY DEF AreFiles
<1>2. ASSUME NEW x, G = WrittenIn(F, c.f, x)
      PROVE  G[f].hard = F[f].hard
  <2> DEFINE y == Append(F[c.f].live, x)
  <2>1. G = [F EXCEPT ![c.f].live = y]
    BY <1>2 DEF WrittenIn
  <2> HIDE DEF y
  <2> QED BY ONLY <1>1, <2>1, f \in DOMAIN F
<1>3. CASE c.op = "create"
  BY <1>3 DEF Performed, CreatedIn
<1>4. CASE c.op \in {"write", "seal"}
  <2>1. \E x : G = WrittenIn(F, c.f, x)
    BY <1>4 DEF Performed
  <2> QED BY <1>2, <2>1
<1>5. CASE c.op = "trim"
  <2> DEFINE y == SubSeq(F[c.f].live, 1, c.n)
  <2>1. G = [F EXCEPT ![c.f].live = y]
    BY <1>5 DEF Performed
  <2> HIDE DEF y
  <2> QED BY ONLY <1>1, <2>1, f \in DOMAIN F
<1>6. CASE c.op = "fsync"
  <2>1. G = [F EXCEPT ![c.f].hard = F[c.f].live]
    BY <1>6 DEF Performed
  <2> QED BY ONLY <1>1, <2>1, f \in DOMAIN F
<1>7. CASE c.op = "syncdir"
  BY <1>7 DEF Performed
<1>8. CASE c.op \in {"rename", "unlink"}
  BY <1>8 DEF Performed
<1> QED BY <1>3, <1>4, <1>5, <1>6, <1>7, <1>8 DEF Performed

\* So does every step that is not a power loss.
LEMMA StepHard ==
    ASSUME LedgerInv, [Next]_vars, NEW f \in DOMAIN file, f \in DOMAIN file'
    PROVE  file'[f].hard = file[f].hard \/ file'[f].live = file[f].live \/ PowerLoss
<1>1. AreFiles(file)
  <2>1. Steady(Now) /\ Now.file = file
    BY NowIs DEF LedgerInv
  <2> QED BY <2>1 DEF Steady
<1>2. CASE UNCHANGED file
  BY <1>2
<1>3. ASSUME NEW c, Performed(c, file, dirs, file', dirs')
      PROVE  file'[f].hard = file[f].hard \/ file'[f].live = file[f].live
  <2> DEFINE F == file
             G == file'
             ds == dirs
             es == dirs'
  <2>1. AreFiles(F) /\ Performed(c, F, ds, G, es) /\ f \in DOMAIN F /\ f \in DOMAIN G
    BY <1>1, <1>3
  <2> HIDE DEF F, G, ds, es
  <2>2. G[f].hard = F[f].hard \/ G[f].live = F[f].live
    BY ONLY <2>1, CallHard
  <2> QED BY <2>2 DEF F, G
<1>4. CASE Io
  <2>1. CASE Head(todo).op = "alloc"
    <3>1. UNCHANGED file
      BY <1>4, <2>1 DEF Io, disk
    <3> QED BY <1>2, <3>1
  <2>2. CASE Head(todo).op # "alloc"
    <3>1. Perform(Head(todo))
      BY <1>4, <2>2 DEF Io
    <3>2. Performed(Head(todo), file, dirs, file', dirs')
      BY <3>1, PerformIs
    <3> QED BY <1>3, <3>2
  <2> QED BY <2>1, <2>2
<1>5. CASE IoFails
  <2> DEFINE c == Head(todo)
             x == Append(file[c.f].live, Torn)
  <2>1. UNCHANGED file \/ Misperform(c)
    BY <1>5 DEF IoFails
  <2> HIDE DEF c
  <2>2. CASE Misperform(c) /\ file' = WrittenIn(file, c.f, Torn)
    <3>1. file' = [file EXCEPT ![c.f].live = x]
      BY <2>2 DEF WrittenIn
    <3>2. file[f] = [live |-> file[f].live, hard |-> file[f].hard]
      BY <1>1 DEF AreFiles
    <3> HIDE DEF x
    <3>3. file'[f].hard = file[f].hard
      BY ONLY <3>1, <3>2, f \in DOMAIN file
    <3> QED BY <3>3
  <2> QED BY <1>2, <1>3, <2>1, <2>2, MisperformIs
<1>6. CASE Crash
  BY <1>6 DEF Crash
<1>7. CASE Next /\ ~Io /\ ~IoFails /\ ~Crash
  <2>1. UNCHANGED file
    BY <1>7 DEF Next, AppendOp, SyncOp, RotateOp, TruncateOp, PruneOp, Start, OpenOp,
       OpenReadOnly, Close, Assign, AllocFails
  <2> QED BY <1>2, <2>1
<1>8. CASE UNCHANGED vars
  BY <1>2, <1>8 DEF vars
<1> QED BY <1>4, <1>5, <1>6, <1>7, <1>8

\* The parts that the durable CURRENT leads to only grow, and its sealed
\* parts never change, until another CURRENT is durable
\* (ledger89_truncate.c "never destructively modified").
THEOREM LedgerPublishedImmutable ==
    ASSUME FaultsHandled
    PROVE  Spec => PublishedImmutable
<1> DEFINE A == \A id \in PublishedParts :
                   id \in PublishedParts' =>
                      /\ Part(id) \in DOMAIN file'
                      /\ LET c == file[Part(id)].hard
                             m == Max({k \in 1..Len(c) : c[k].t = "marker"})
                         IN IsPrefix(SubSeq(c, 1, m), file'[Part(id)].live)
<1>1. LedgerInv /\ LedgerInv' /\ [Next]_vars => [A]_vars
  <2>1. SUFFICES ASSUME LedgerInv, LedgerInv', [Next]_vars,
                        NEW id \in PublishedParts, id \in PublishedParts',
                        NEW f, f = Part(id), NEW c, c = file[f].hard
                 PROVE  f \in DOMAIN file' /\ IsPrefix(SubSeq(c, 1, LastMark(c)), file'[f].live)
    BY DEF LastMark
  <2>2. PICK S : Safe(file, dirs, S)
    <3>1. Steady(Now) /\ Now.file = file /\ Now.dirs = dirs
      BY <2>1, NowIs DEF LedgerInv
    <3> QED BY <3>1 DEF Steady
  <2>3. PICK T : Safe(file', dirs', T)
    <3>1. Steady(Now') /\ Now'.file = file' /\ Now'.dirs = dirs'
      BY <2>1 DEF LedgerInv, Now, World
    <3> QED BY <3>1 DEF Steady
  <2>4. id \in PublishedIn(file, dirs) /\ id \in PublishedIn(file', dirs')
    BY <2>1 DEF PublishedParts, PublishedIn
  <2> DEFINE F == file
             G == file'
             ds == dirs
             es == dirs'
             x == F[f]
             y == G[f]
             p == SubSeq(c, 1, LastMark(c))
  <2>5. /\ Safe(F, ds, S) /\ Safe(G, es, T)
        /\ id \in PublishedIn(F, ds) /\ id \in PublishedIn(G, es) /\ f = Part(id)
    BY <2>1, <2>2, <2>3, <2>4
  <2>6. f \in DOMAIN F /\ Rooted(x) /\ c = x.hard
    <3> HIDE DEF F, G, ds, es
    <3>1. Part(id) \in DOMAIN F /\ Rooted(F[Part(id)])
      BY ONLY <2>5, PublishedMarked
    <3> QED BY <2>1, <3>1 DEF F
  <2>7. f \in DOMAIN G /\ Rooted(y) /\ id \in es[1].part
    <3> HIDE DEF F, G, ds, es
    <3>1. Part(id) \in DOMAIN G /\ id \in es[1].part /\ Rooted(G[Part(id)])
      BY ONLY <2>5, PublishedMarked
    <3> QED BY <2>5, <3>1
  <2>8. y.hard = x.hard \/ y.live = x.live \/ PowerLoss
    BY <2>1, <2>6, <2>7, StepHard
  <2>9. PowerLoss => y.live \in Survivors(x)
    <3>1. SUFFICES ASSUME PowerLoss PROVE y.live \in Survivors(x)
      OBVIOUS
    <3>2. Loses(F, ds, G, es)
      BY <3>1, LossIs
    <3> HIDE DEF F, G, ds, es
    <3>3. PICK d \in ToSet(ds) :
            /\ es = <<d>>
            /\ \A q \in DOMAIN F : HasName(d, q) => G[q].live \in Survivors(F[q])
      BY <3>2 DEF Loses
    <3>4. es[1] = d
      BY <3>3
    <3>5. HasName(d, f)
      BY <2>5, <2>7, <3>4, Named
    <3> QED BY <2>6, <3>3, <3>5 DEF x, y
  <2> HIDE DEF F, G, ds, es, x, y
  <2>10. IsPrefix(p, x.live) /\ IsSeq(y.live) /\ (y.hard = c => IsPrefix(p, y.live))
    BY <2>6, <2>7 DEF Rooted
  <2>11. y.live \in Survivors(x) => IsPrefix(p, y.live)
    BY <2>6, <2>10, MarkedSurvives
  <2>12. IsPrefix(p, y.live)
    BY <2>6, <2>8, <2>9, <2>10, <2>11
  <2> QED BY <2>7, <2>12 DEF p, G, y
<1> QED BY <1>1, LedgerStaysSound, PTL DEF Spec, PublishedImmutable

============================================================================
