------------------------- MODULE Ledger89CallProof -------------------------
(***************************************************************************)
(* The plans of sync, append and rotate are sound, and so is the removal   *)
(* of files that no manifest names any more.                               *)
(***************************************************************************)
EXTENDS Ledger89DiskProof

---------------------------------------------------------------------------
(* The active part.                                                        *)

\* What it means for every table to lead to s, spelt out.
LEMMA AllLeadIs ==
    ASSUME NEW F, NEW ds, NEW g, g # 0, NEW s, AllLead(F, ds, g, s), NEW m, m = ManifestAt(F, g)
    PROVE  /\ IsLog(s) /\ Len(s.log) \in Nat /\ s.stable \in Nat /\ s.first \in Nat \ {0}
           /\ \A k \in 1..Len(ds) : LeadsTo(F, ds[k], m, s)
           /\ LeadsTo(F, Last(ds), m, s) /\ IsTable(Last(ds)) /\ Last(ds).cur = g
           /\ Ready(F, Last(ds), m, s) /\ GoodManifest(m)
           /\ SafeActive(m.active, m.rev, F[Part(m.active.id)], s)
           /\ Part(m.active.id) \in DOMAIN F /\ m.active.id \in Last(ds).part
           /\ m.active.first \in Nat \ {0} /\ m.active.first <= Len(s.log) + 1
           /\ s.first <= m.active.first
<1>1. IsLog(s) /\ IsSeq(ds) /\ Len(ds) > 0
  BY DEF AllLead
<1>2. Len(s.log) \in Nat /\ s.stable \in Nat /\ s.first \in Nat \ {0}
  BY <1>1, LogIs
<1>3. ASSUME NEW k \in 1..Len(ds)
      PROVE  LeadsTo(F, ds[k], m, s) /\ IsTable(ds[k]) /\ ds[k].cur = g
  BY LeadsIs DEF AllLead
<1>4. Last(ds) = ds[Len(ds)] /\ Len(ds) \in 1..Len(ds)
  BY <1>1, SeqIs DEF Last
<1>5. LeadsTo(F, Last(ds), m, s) /\ IsTable(Last(ds)) /\ Last(ds).cur = g
  BY <1>3, <1>4
<1>6. Ready(F, Last(ds), m, s)
  BY <1>5 DEF LeadsTo
<1>7. /\ GoodManifest(m) /\ Chain(Descs(m), s.first) /\ Rising(Descs(m))
      /\ m.active.first \in Nat /\ m.active.first <= Len(s.log) + 1
  BY <1>2, <1>6, ReadyChain
<1>8. s.first <= m.active.first
  <2>1. /\ Len(Descs(m)) = Len(m.sealed) + 1 /\ Descs(m)[Len(m.sealed) + 1] = m.active
        /\ Len(m.sealed) \in Nat
    BY <1>7, ManifestIs, DescsIs
  <2>2. \A i \in 1..Len(Descs(m)) : s.first <= Descs(m)[i].first
    BY <1>7, ChainRises
  <2>3. Len(m.sealed) + 1 \in 1..Len(Descs(m))
    BY <2>1
  <2> QED BY <2>1, <2>2, <2>3
<1>9. m.active.id \in Referenced(m)
  BY DEF Referenced
<1>10. /\ SafeActive(m.active, m.rev, F[Part(m.active.id)], s)
       /\ Part(m.active.id) \in DOMAIN F /\ m.active.id \in Last(ds).part
  BY <1>6, <1>9 DEF Ready
<1>11. m.active.first \in Nat \ {0}
  BY <1>2, <1>7, <1>8
<1> QED BY <1>1, <1>2, <1>3, <1>5, <1>6, <1>7, <1>8, <1>10, <1>11

\* Only the active part has changed, and is safe for log t.
LEMMA ActiveChanged ==
    ASSUME NEW F, NEW ds, NEW g, g # 0, NEW s, AllLead(F, ds, g, s), NEW m, m = ManifestAt(F, g),
           NEW G, OffFile(F, G, Part(m.active.id)), NEW t, IsLog(t),
           t.first = s.first, t.rev = s.rev, m.active.first <= Len(t.log) + 1,
           \A i \in s.first..m.active.first - 1 : t.log[i] = s.log[i],
           SafeActive(m.active, m.rev, G[Part(m.active.id)], t)
    PROVE  AllLead(G, ds, g, t) /\ ManifestAt(G, g) = m
<1>1. /\ Len(s.log) \in Nat /\ s.stable \in Nat /\ GoodManifest(m)
      /\ \A k \in 1..Len(ds) : LeadsTo(F, ds[k], m, s)
      /\ Part(m.active.id) \in DOMAIN F
  BY AllLeadIs
<1>2. Len(t.log) \in Nat
  BY LogIs
<1>3. ASSUME NEW k \in 1..Len(ds)
      PROVE  LeadsTo(G, ds[k], m, t)
  <2> DEFINE d == ds[k]
  <2>1. LeadsTo(F, d, m, s)
    BY <1>1
  <2> HIDE DEF d
  <2>2. \A x \in DOMAIN F : x # Part(m.active.id) => SameFile(F, G, x)
    BY DEF OffFile, SameFile
  <2>3. /\ Cur(d.cur) \in DOMAIN F /\ Man(d.cur) \in DOMAIN F /\ d.cur \in d.man
        /\ Referenced(m) \subseteq d.part /\ \A id \in Referenced(m) : Part(id) \in DOMAIN F
    BY <2>1 DEF LeadsTo, Ready
  <2>4. Cur(d.cur) # Part(m.active.id) /\ Man(d.cur) # Part(m.active.id)
    BY DEF Cur, Man, Part
  <2>5. \A i \in 1..Len(m.sealed) :
           m.sealed[i].id \in Referenced(m) /\ Part(m.sealed[i].id) # Part(m.active.id)
    BY <1>1 DEF GoodManifest, Referenced, Part
  <2>6. Part(m.active.id) \in DOMAIN G
    BY <1>1 DEF OffFile
  <2>7. KeepsSealed(F, G, d, d, m)
    BY <2>2, <2>3, <2>4, <2>5, <2>6 DEF KeepsSealed
  <2>8. LeadsTo(G, d, m, t)
    BY <1>1, <1>2, <2>1, <2>7, LeadsChange
  <2> QED BY <2>8 DEF d
<1>4. ASSUME NEW k \in 1..Len(ds)
      PROVE  IsTable(ds[k]) /\ ds[k].cur = g /\ Leads(G, ds[k], t) /\ m = ManifestAt(G, g)
  <2> DEFINE d == ds[k]
  <2>1. IsTable(d) /\ d.cur = g
    BY DEF AllLead
  <2>2. LeadsTo(G, d, m, t)
    BY <1>3
  <2> HIDE DEF d
  <2>3. m = ManifestAt(G, d.cur) /\ Leads(G, d, t)
    BY <2>1, <2>2, LeadsIs
  <2>4. IsTable(d) /\ d.cur = g /\ Leads(G, d, t) /\ m = ManifestAt(G, g)
    BY <2>1, <2>3
  <2> QED BY <2>4 DEF d
<1>5. 1 \in 1..Len(ds)
  BY SeqIs DEF AllLead
<1> QED BY <1>4, <1>5 DEF AllLead

\* An item that leaves the active part good is appended to it.
LEMMA WrittenLeads ==
    ASSUME NEW F, AreFiles(F), NEW ds, NEW g, g # 0, NEW s, AllLead(F, ds, g, s),
           NEW m, m = ManifestAt(F, g), NEW f, f = Part(m.active.id),
           IsPrefix(F[f].hard, F[f].live),
           NEW x, GoodActive(m.active, m.rev, Append(F[f].live, x), s),
           NEW G, G = WrittenIn(F, f, x)
    PROVE  /\ AllLead(G, ds, g, s) /\ ManifestAt(G, g) = m /\ IsPrefix(G[f].hard, G[f].live)
<1>1. /\ SafeActive(m.active, m.rev, F[f], s) /\ f \in DOMAIN F /\ m.active.first \in Nat
      /\ Len(s.log) \in Nat /\ IsLog(s) /\ m.active.first <= Len(s.log) + 1
  BY AllLeadIs
<1>2. /\ OffFile(F, G, f)
      /\ G[f] = [live |-> Append(F[f].live, x), hard |-> F[f].hard]
  BY <1>1, WrittenIs
<1>3. G[f].live = Append(F[f].live, x) /\ G[f].hard = F[f].hard
  BY <1>2
<1>4. SafeActive(m.active, m.rev, G[f], s) /\ IsPrefix(G[f].hard, G[f].live)
  <2> DEFINE a == m.active
             y == F[f]
             z == G[f]
  <2>1. /\ SafeActive(a, m.rev, y, s) /\ a.first \in Nat /\ Len(s.log) \in Nat
        /\ IsPrefix(y.hard, y.live) /\ GoodActive(a, m.rev, Append(y.live, x), s)
        /\ z.live = Append(y.live, x) /\ z.hard = y.hard
    BY <1>1, <1>3
  <2> HIDE DEF a, y, z
  <2>2. SafeActive(a, m.rev, z, s) /\ IsPrefix(z.hard, z.live)
    BY <2>1, SafeAppend
  <2> QED BY <2>2 DEF a, y, z
<1> QED BY <1>1, <1>2, <1>4, ActiveChanged

\* The active part is synced.
LEMMA SyncedLeads ==
    ASSUME NEW F, AreFiles(F), NEW ds, NEW g, g # 0, NEW s, AllLead(F, ds, g, s),
           NEW m, m = ManifestAt(F, g), NEW f, f = Part(m.active.id),
           NEW t, IsLog(t), t.first = s.first, t.rev = s.rev, t.log = s.log,
           GoodActive(m.active, m.rev, F[f].live, t), NEW G, G = FsyncedIn(F, f)
    PROVE  /\ AllLead(G, ds, g, t) /\ ManifestAt(G, g) = m /\ IsPrefix(G[f].hard, G[f].live)
<1>1. /\ SafeActive(m.active, m.rev, F[f], s) /\ f \in DOMAIN F
      /\ m.active.first <= Len(s.log) + 1
  BY AllLeadIs
<1>2. OffFile(F, G, f) /\ G[f] = [live |-> F[f].live, hard |-> F[f].live]
  BY <1>1, FsyncedIs
<1>3. G[f].live = F[f].live /\ G[f].hard = F[f].live /\ IsSeq(F[f].live)
  BY <1>1, <1>2, SafeIs
<1>4. SafeActive(m.active, m.rev, G[f], t)
  BY <1>3, SafeHard
<1>5. IsPrefix(G[f].hard, G[f].live)
  BY <1>3, PrefixIs, SeqIs
<1> QED BY <1>1, <1>2, <1>4, <1>5, ActiveChanged

\* What is found is found again when items are added behind it.
Longer(b, c) == Len(b) \in Nat /\ Len(c) \in Nat /\ Len(b) <= Len(c) /\ \A i \in 1..Len(b) : c[i] = b[i]

\* An entry still locates its records in a longer file.
LEMMA LocatesMore ==
    ASSUME NEW b, NEW c, Longer(b, c), NEW e, NEW log, NEW new, Locates(b, e, log),
           \A i \in e.first..EndOf(e) - 1 : new[i] = log[i]
    PROVE  Locates(c, e, new)
<1>1. /\ e.first \in Nat /\ e.count \in Nat /\ e.pos \in 3..Len(b) /\ Len(b) \in Nat
      /\ Len(c) \in Nat /\ Len(b) <= Len(c)
  BY DEF Locates, Longer
<1>2. e.pos \in 1..Len(b) /\ e.pos \in 3..Len(c)
  BY <1>1
<1>3. c[e.pos] = b[e.pos]
  BY <1>2 DEF Longer
<1>4. \A j \in 1..e.count : e.first + j - 1 \in e.first..EndOf(e) - 1
  BY <1>1 DEF EndOf
<1> QED BY <1>2, <1>3, <1>4 DEF Locates

\* An entry that locates records has a range of naturals.
LEMMA LocatesIs ==
    ASSUME NEW c, NEW e, NEW log, Locates(c, e, log)
    PROVE  e.first \in Nat /\ e.count \in Nat \ {0} /\ EndOf(e) \in Nat
<1>1. e.first \in Nat /\ e.count \in Nat \ {0}
  BY DEF Locates
<1> QED BY <1>1 DEF EndOf

\* A handle still finds its records when its files grow.
LEMMA FindsMore ==
    ASSUME NEW F, NEW d, NEW hd, NEW log, Finds(F, d, hd, log), NEW G, NEW e, NEW new,
           \A p \in 1..Len(hd.parts) :
              LET f == Part(hd.parts[p].id)
              IN hd.parts[p].id \in e.part /\ f \in DOMAIN G /\ Longer(F[f].live, G[f].live),
           \A i \in hd.first..hd.end - 1 : new[i] = log[i]
    PROVE  Finds(G, e, hd, new)
<1>1. /\ \A i \in 1..Len(hd.dir) : hd.first <= hd.dir[i].first /\ EndOf(hd.dir[i]) <= hd.end
      /\ hd.first \in Nat /\ hd.end \in Nat
  BY LinkedRange DEF Finds, Linked
<1>2. ASSUME NEW i \in 1..Len(hd.dir)
      PROVE  Locates(G[Part(hd.parts[hd.dir[i].part].id)].live, hd.dir[i], new)
  <2> DEFINE p == hd.dir[i].part
             f == Part(hd.parts[p].id)
             x == hd.dir[i]
  <2>1. p \in 1..Len(hd.parts) /\ Locates(F[f].live, x, log)
    BY DEF Finds
  <2>2. Longer(F[f].live, G[f].live)
    BY <2>1
  <2>3. \A j \in x.first..EndOf(x) - 1 : j \in hd.first..hd.end - 1
    <3>2. hd.first <= x.first /\ EndOf(x) <= hd.end
      BY <1>1
    <3> HIDE DEF x
    <3>1. x.first \in Nat /\ EndOf(x) \in Nat
      BY <2>1, LocatesIs
    <3> QED BY <1>1, <3>1, <3>2
  <2>4. \A j \in x.first..EndOf(x) - 1 : new[j] = log[j]
    BY <2>3
  <2> HIDE DEF x, f
  <2>5. Locates(G[f].live, x, new)
    BY <2>1, <2>2, <2>4, LocatesMore
  <2> QED BY <2>5 DEF x, f
<1> QED BY <1>2 DEF Finds

\* A content is as long as itself.
LEMMA LongerSelf ==
    ASSUME NEW c, Len(c) \in Nat
    PROVE  Longer(c, c)
BY DEF Longer

\* Appending makes a content longer.
LEMMA LongerAppend ==
    ASSUME NEW c, IsSeq(c), NEW x
    PROVE  Longer(c, Append(c, x))
BY SeqAppend, SeqIs DEF Longer

---------------------------------------------------------------------------
(* A ledger that is open, in the middle of an append, a sync or a rotation. *)

\* The file of the handle's active part.
ActiveFile(hd) == Part(hd.parts[Len(hd.parts)].id)

\* The ledger is open between operations: handle, disk and log agree.
Live(v) ==
    /\ v.mode = "open" /\ v.next = {} /\ IsLog(v.cur)
    /\ IsHandle(v.h) /\ Matches(v.h, v.cur)
    /\ AreFiles(v.file) /\ AllLead(v.file, v.dirs, v.h.gen, v.cur)
    /\ Describes(ManifestAt(v.file, v.h.gen), v.h)
    /\ Finds(v.file, Top(v), v.h, v.cur.log)
    /\ IsPrefix(v.file[ActiveFile(v.h)].hard, v.file[ActiveFile(v.h)].live)

\* A live world is steady.
LEMMA LiveSteady ==
    ASSUME NEW v, Live(v)
    PROVE  Steady(v)
<1>1. Logs(v) = {v.cur}
  BY DEF Logs, Live
<1>2. IsLog(v.cur) /\ AllLead(v.file, v.dirs, v.h.gen, v.cur)
  BY DEF Live
<1>3. Safe(v.file, v.dirs, Logs(v))
  <2>1. v.cur \in Logs(v) /\ \A t \in Logs(v) : IsLog(t)
    BY <1>1, <1>2
  <2> QED BY <1>2, <2>1, AllLeadSafe
<1>4. Typed(v.h)
  <2>1. v.cur.first <= v.cur.stable /\ v.cur.stable <= Len(v.cur.log) + 1
    BY <1>2, LogIs
  <2>2. Len(v.h.parts) \in 1..Len(v.h.parts) /\ v.h.active = Len(v.h.parts)
    BY SeqIs DEF Live, IsHandle, Chain
  <2> QED BY <2>1, <2>2 DEF Typed, Matches, Live
<1> QED BY <1>3, <1>4 DEF Steady, Live

\* A good world on well-formed files is live.
LEMMA GoodLive ==
    ASSUME NEW v, Good(v), AreFiles(v.file)
    PROVE  Live(v)
<1>1. v.h.gen # 0 /\ IsLog(v.cur)
  BY DEF Good, IsHandle
<1>2. AllLead(v.file, v.dirs, v.h.gen, v.cur)
  BY <1>1, StableLeads DEF Good
<1> QED BY <1>2 DEF Live, Good, Whole, ActiveFile

\* What a live world gives about the active part.
LEMMA LiveIs ==
    ASSUME NEW v, Live(v), NEW m, m = ManifestAt(v.file, v.h.gen), NEW f, f = ActiveFile(v.h),
           NEW d, d = v.h.parts[Len(v.h.parts)]
    PROVE  /\ v.h.gen \in Nat \ {0} /\ f = Part(m.active.id) /\ f \in DOMAIN v.file
           /\ m.active.id \in Top(v).part /\ m.active.id \in Nat
           /\ m.active.first \in Nat \ {0} /\ m.active.first <= Len(v.cur.log) + 1
           /\ d.id = m.active.id /\ d.first = m.active.first
           /\ m.rev = v.h.rev /\ m.rev = v.cur.rev /\ Len(v.cur.log) \in Nat
           /\ v.h.end = Len(v.cur.log) + 1 /\ v.h.stable = v.cur.stable
           /\ IsSeq(v.file[f].live) /\ IsSeq(v.file[f].hard)
           /\ GoodActive(m.active, m.rev, v.file[f].live, v.cur)
           /\ Ready(v.file, Top(v), m, v.cur) /\ GoodManifest(m)
           /\ IsPrefix(v.file[f].hard, v.file[f].live)
<1>1. v.h.gen \in Nat \ {0} /\ AllLead(v.file, v.dirs, v.h.gen, v.cur)
  BY DEF Live, IsHandle
<1>2. /\ Len(v.cur.log) \in Nat /\ Ready(v.file, Last(v.dirs), m, v.cur) /\ GoodManifest(m)
      /\ SafeActive(m.active, m.rev, v.file[Part(m.active.id)], v.cur)
      /\ Part(m.active.id) \in DOMAIN v.file /\ m.active.id \in Last(v.dirs).part
      /\ m.active.first \in Nat \ {0} /\ m.active.first <= Len(v.cur.log) + 1
  <2> DEFINE F == v.file
             ds == v.dirs
             g == v.h.gen
             s == v.cur
  <2>1. g # 0 /\ AllLead(F, ds, g, s) /\ m = ManifestAt(F, g)
    BY <1>1
  <2> HIDE DEF F, ds, g, s
  <2>2. /\ Len(s.log) \in Nat /\ Ready(F, Last(ds), m, s) /\ GoodManifest(m)
        /\ SafeActive(m.active, m.rev, F[Part(m.active.id)], s)
        /\ Part(m.active.id) \in DOMAIN F /\ m.active.id \in Last(ds).part
        /\ m.active.first \in Nat \ {0} /\ m.active.first <= Len(s.log) + 1
    BY <2>1, AllLeadIs
  <2> QED BY <2>2 DEF F, ds, g, s
<1>3. d.id = m.active.id /\ d.first = m.active.first /\ m.rev = v.h.rev
  BY DEF Live, Describes
<1>4. v.h.rev = v.cur.rev /\ v.h.end = Len(v.cur.log) + 1 /\ v.h.stable = v.cur.stable
  BY DEF Live, Matches
<1>5. f = Part(m.active.id)
  BY <1>3 DEF ActiveFile
<1>6. /\ IsSeq(v.file[f].live) /\ IsSeq(v.file[f].hard)
      /\ GoodActive(m.active, m.rev, v.file[f].live, v.cur)
  BY <1>2, <1>5, SafeIs
<1>7. m.active.id \in Nat
  BY <1>2 DEF GoodManifest
<1>8. IsPrefix(v.file[f].hard, v.file[f].live)
  BY DEF Live
<1> QED BY <1>1, <1>2, <1>3, <1>4, <1>5, <1>6, <1>7, <1>8 DEF Top

\* An item is written to the active part, and its manifest stays good.
LEMMA LiveChange ==
    ASSUME NEW v, Live(v), NEW G, AreFiles(G), OffFile(v.file, G, ActiveFile(v.h)),
           Longer(v.file[ActiveFile(v.h)].live, G[ActiveFile(v.h)].live),
           AllLead(G, v.dirs, v.h.gen, v.cur), ManifestAt(G, v.h.gen) = ManifestAt(v.file, v.h.gen),
           IsPrefix(G[ActiveFile(v.h)].hard, G[ActiveFile(v.h)].live),
           NEW w, w = With(v, G, v.dirs)
    PROVE  Live(w)
<1>1. /\ w.file = G /\ w.dirs = v.dirs /\ w.mode = v.mode /\ w.h = v.h
      /\ w.cur = v.cur /\ w.next = v.next
  BY WithIs
<1>2. Finds(v.file, Top(v), v.h, v.cur.log) /\ Top(w) = Top(v)
  BY <1>1 DEF Live, Top
<1>3. ASSUME NEW p \in 1..Len(v.h.parts)
      PROVE  LET f == Part(v.h.parts[p].id)
             IN v.h.parts[p].id \in Top(v).part /\ f \in DOMAIN G /\ Longer(v.file[f].live, G[f].live)
  <2> DEFINE f == Part(v.h.parts[p].id)
  <2>1. v.h.parts[p].id \in Top(v).part /\ f \in DOMAIN v.file
    BY <1>2 DEF Finds
  <2>2. IsSeq(v.file[f].live)
    <3> DEFINE m == ManifestAt(v.file, v.h.gen)
    <3>1. Describes(m, v.h) /\ Ready(v.file, Top(v), m, v.cur) /\ IsSeq(v.file[ActiveFile(v.h)].live)
      BY LiveIs DEF Live
    <3> HIDE DEF m
    <3>2. CASE p = Len(v.h.parts)
      BY <3>1, <3>2 DEF ActiveFile
    <3>3. CASE p # Len(v.h.parts)
      <4>1. Len(m.sealed) \in Nat /\ Len(v.h.parts) = Len(m.sealed) + 1
        BY <3>1, SeqIs DEF Describes
      <4>2. p \in 1..Len(m.sealed)
        BY <3>3, <4>1
      <4>3. m.sealed[p] = v.h.parts[p]
        BY <3>1, <4>2 DEF Describes
      <4>4. GoodSealed(m.sealed[p], v.file[Part(m.sealed[p].id)].live, v.cur.log)
        BY <3>1, <4>2 DEF Ready
      <4> QED BY <4>3, <4>4 DEF GoodSealed, GoodPart
    <3> QED BY <3>2, <3>3
  <2>3. f \in DOMAIN G
    BY <2>1 DEF OffFile
  <2>4. Longer(v.file[f].live, G[f].live)
    <3>1. CASE f = ActiveFile(v.h)
      BY <3>1
    <3>2. CASE f # ActiveFile(v.h)
      <4>1. G[f] = v.file[f]
        BY <2>1, <3>2 DEF OffFile
      <4> QED BY <2>2, <4>1, LongerSelf, SeqIs
    <3> QED BY <3>1, <3>2
  <2> QED BY <2>1, <2>3, <2>4
<1>4. Finds(G, Top(v), v.h, v.cur.log)
  BY <1>2, <1>3, FindsMore
<1> QED BY <1>1, <1>2, <1>4 DEF Live

\* The manifest and the active part of an open ledger.
ManOf(v) == ManifestAt(v.file, v.h.gen)
\* The active file.
FileOf(v) == ActiveFile(v.h)
\* The active file's live content.
Content(v) == v.file[FileOf(v)].live
\* The active file's durable content.
Durable(v) == v.file[FileOf(v)].hard
\* Append, kept as one symbol so that a leaf does not expand it.
Plus(c, x) == Append(c, x)

\* Nothing but the content of the active part has changed.
Alike(v, w) ==
    /\ w.h = v.h /\ w.cur = v.cur /\ w.dirs = v.dirs
    /\ ManOf(w) = ManOf(v) /\ FileOf(w) = FileOf(v)

\* An item that the active part may hold is written to it.
Writes(v, x, w) ==
    /\ Live(v) /\ GoodActive(ManOf(v).active, ManOf(v).rev, Plus(Content(v), x), v.cur)
    /\ w = With(v, WrittenIn(v.file, FileOf(v), x), v.dirs)


\* What writing an item to the active file changes.
LEMMA WritesIs ==
    ASSUME NEW v, NEW x, NEW w, Writes(v, x, w)
    PROVE  /\ Live(v) /\ Live(w) /\ Alike(v, w) /\ Content(w) = Plus(Content(v), x)
           /\ w.file = WrittenIn(v.file, FileOf(v), x) /\ FileOf(v) \in DOMAIN w.file
           /\ OffFile(v.file, w.file, FileOf(v))
<1> SUFFICES ASSUME NEW m, m = ManifestAt(v.file, v.h.gen), NEW f, f = ActiveFile(v.h)
             PROVE  /\ Live(v) /\ Live(w) /\ w.h = v.h /\ w.cur = v.cur /\ w.dirs = v.dirs
                    /\ w.file[f].live = Append(v.file[f].live, x) /\ w.file[f].hard = v.file[f].hard
                    /\ OffFile(v.file, w.file, f) /\ ManifestAt(w.file, w.h.gen) = m
                    /\ w.file = WrittenIn(v.file, f, x) /\ f \in DOMAIN w.file
  BY DEF Alike, Content, FileOf, ManOf, Plus
<1> DEFINE G == WrittenIn(v.file, f, x)
<1>0. /\ Live(v) /\ GoodActive(m.active, m.rev, Append(v.file[f].live, x), v.cur)
      /\ w = With(v, G, v.dirs)
  BY DEF Writes, ManOf, FileOf, Content, Plus
<1>1. G = WrittenIn(v.file, f, x) /\ w.file = G /\ w.dirs = v.dirs /\ w.h = v.h /\ w.cur = v.cur
  BY <1>0, WithIs
<1> HIDE DEF G
<1>2. /\ v.h.gen # 0 /\ f = Part(m.active.id) /\ f \in DOMAIN v.file /\ AreFiles(v.file)
      /\ IsSeq(v.file[f].live) /\ IsPrefix(v.file[f].hard, v.file[f].live)
      /\ AllLead(v.file, v.dirs, v.h.gen, v.cur)
  BY <1>0, LiveIs DEF Live
<1>3. /\ OffFile(v.file, G, f) /\ AreFiles(G)
      /\ G[f] = [live |-> Append(v.file[f].live, x), hard |-> v.file[f].hard]
  <2> DEFINE F == v.file
  <2>1. AreFiles(F) /\ f \in DOMAIN F /\ G = WrittenIn(F, f, x)
    BY <1>1, <1>2
  <2> HIDE DEF F
  <2>2. /\ OffFile(F, G, f) /\ AreFiles(G)
        /\ G[f] = [live |-> Append(F[f].live, x), hard |-> F[f].hard]
    BY <2>1, WrittenIs
  <2> QED BY <2>2 DEF F
<1>4. G[f].live = Append(v.file[f].live, x) /\ G[f].hard = v.file[f].hard
  BY <1>3
<1>5. AllLead(G, v.dirs, v.h.gen, v.cur) /\ ManifestAt(G, v.h.gen) = m /\ IsPrefix(G[f].hard, G[f].live)
  <2> DEFINE F == v.file
             ds == v.dirs
             g == v.h.gen
             s == v.cur
  <2>1. /\ AreFiles(F) /\ g # 0 /\ AllLead(F, ds, g, s) /\ m = ManifestAt(F, g)
        /\ f = Part(m.active.id) /\ IsPrefix(F[f].hard, F[f].live)
        /\ GoodActive(m.active, m.rev, Append(F[f].live, x), s) /\ G = WrittenIn(F, f, x)
    BY <1>0, <1>1, <1>2
  <2> HIDE DEF F, ds, g, s
  <2>2. AllLead(G, ds, g, s) /\ ManifestAt(G, g) = m /\ IsPrefix(G[f].hard, G[f].live)
    BY <2>1, WrittenLeads
  <2> QED BY <2>2 DEF F, ds, g, s
<1>6. Longer(v.file[f].live, G[f].live)
  BY <1>2, <1>4, LongerAppend
<1>7. w = With(v, G, v.dirs)
  BY <1>0
<1>8. Live(w)
  BY <1>0, <1>3, <1>5, <1>6, <1>7, LiveChange
<1>9. f \in DOMAIN G
  BY <1>2, <1>3 DEF OffFile
<1> QED BY <1>0, <1>1, <1>3, <1>4, <1>5, <1>8, <1>9

\* Syncing the active file of a live world is sound.
LEMMA LiveFsynced ==
    ASSUME NEW v, Live(v), NEW m, m = ManifestAt(v.file, v.h.gen), NEW f, f = ActiveFile(v.h),
           NEW w, w = With(v, FsyncedIn(v.file, f), v.dirs)
    PROVE  /\ Live(w) /\ w.h = v.h /\ w.cur = v.cur /\ w.dirs = v.dirs /\ Top(w) = Top(v)
           /\ w.file[f].live = v.file[f].live /\ w.file[f].hard = v.file[f].live
           /\ OffFile(v.file, w.file, f) /\ ManifestAt(w.file, w.h.gen) = m
           /\ StepOK(FsyncCall(f), v, w) /\ Via(v, <<FsyncCall(f)>>, w)
           /\ \A t : /\ IsLog(t) /\ t.first = v.cur.first /\ t.rev = v.cur.rev /\ t.log = v.cur.log
                     /\ GoodActive(m.active, m.rev, v.file[f].live, t)
                     => AllLead(w.file, w.dirs, w.h.gen, t)
<1> DEFINE G == FsyncedIn(v.file, f)
           c == FsyncCall(f)
<1>1. G = FsyncedIn(v.file, f) /\ w.file = G /\ w.dirs = v.dirs /\ w.h = v.h /\ w.cur = v.cur
  BY WithIs
<1>9. c.op = "fsync" /\ c.f = f
  BY DEF FsyncCall
<1>10. Performed(c, v.file, v.dirs, G, v.dirs)
  BY <1>9 DEF Performed, FsyncedIn
<1> HIDE DEF G
<1>2. /\ v.h.gen # 0 /\ f = Part(m.active.id) /\ f \in DOMAIN v.file /\ AreFiles(v.file)
      /\ IsSeq(v.file[f].live) /\ GoodActive(m.active, m.rev, v.file[f].live, v.cur)
      /\ AllLead(v.file, v.dirs, v.h.gen, v.cur) /\ IsLog(v.cur)
  BY LiveIs DEF Live
<1>3. /\ OffFile(v.file, G, f) /\ AreFiles(G)
      /\ G[f] = [live |-> v.file[f].live, hard |-> v.file[f].live]
  <2> DEFINE F == v.file
  <2>1. AreFiles(F) /\ f \in DOMAIN F /\ G = FsyncedIn(F, f)
    BY <1>1, <1>2
  <2> HIDE DEF F
  <2>2. OffFile(F, G, f) /\ AreFiles(G) /\ G[f] = [live |-> F[f].live, hard |-> F[f].live]
    BY <2>1, FsyncedIs
  <2> QED BY <2>2 DEF F
<1>4. G[f].live = v.file[f].live /\ G[f].hard = v.file[f].live
  BY <1>3
<1>5. ASSUME NEW t, IsLog(t), t.first = v.cur.first, t.rev = v.cur.rev, t.log = v.cur.log,
             GoodActive(m.active, m.rev, v.file[f].live, t)
      PROVE  AllLead(G, v.dirs, v.h.gen, t) /\ ManifestAt(G, v.h.gen) = m
             /\ IsPrefix(G[f].hard, G[f].live)
  <2> DEFINE F == v.file
             ds == v.dirs
             g == v.h.gen
             s == v.cur
  <2>1. /\ AreFiles(F) /\ g # 0 /\ AllLead(F, ds, g, s) /\ m = ManifestAt(F, g)
        /\ f = Part(m.active.id) /\ GoodActive(m.active, m.rev, F[f].live, t)
        /\ G = FsyncedIn(F, f)
        /\ IsLog(t) /\ t.first = s.first /\ t.rev = s.rev /\ t.log = s.log
    BY <1>1, <1>2, <1>5
  <2> HIDE DEF F, ds, g, s
  <2>2. AllLead(G, ds, g, t) /\ ManifestAt(G, g) = m /\ IsPrefix(G[f].hard, G[f].live)
    BY <2>1, SyncedLeads
  <2> QED BY <2>2 DEF F, ds, g, s
<1>6. Longer(v.file[f].live, G[f].live)
  BY <1>2, <1>4, LongerSelf, SeqIs
<1>7. w = With(v, G, v.dirs)
  BY <1>1
<1>8. Live(w) /\ ManifestAt(G, v.h.gen) = m
  <2>1. AllLead(G, v.dirs, v.h.gen, v.cur) /\ ManifestAt(G, v.h.gen) = m
        /\ IsPrefix(G[f].hard, G[f].live)
    BY <1>2, <1>5
  <2> QED BY <1>3, <1>6, <1>7, <2>1, LiveChange
<1>11. Steady(w)
  BY <1>8, LiveSteady
<1>12. StepOK(c, v, w) /\ ~Quiet(c)
  BY <1>1, <1>7, <1>9, <1>10, <1>11 DEF StepOK, Quiet
<1>13. Via(v, <<c>>, w)
  BY <1>12, ViaStep
<1>14. \A t : /\ IsLog(t) /\ t.first = v.cur.first /\ t.rev = v.cur.rev /\ t.log = v.cur.log
              /\ GoodActive(m.active, m.rev, v.file[f].live, t)
              => AllLead(w.file, w.dirs, w.h.gen, t)
  BY <1>1, <1>5
<1> HIDE DEF c
<1>15. Live(w) /\ w.h = v.h /\ w.cur = v.cur /\ w.dirs = v.dirs /\ Top(w) = Top(v)
  BY <1>1, <1>8 DEF Top
<1>16. w.file[f].live = v.file[f].live /\ w.file[f].hard = v.file[f].live
       /\ OffFile(v.file, w.file, f) /\ ManifestAt(w.file, w.h.gen) = m
  BY <1>1, <1>3, <1>4, <1>8
<1> QED BY <1>12, <1>13, <1>14, <1>15, <1>16 DEF c

\* The calls that write item x to the active part.
PutsIn(v, x, c) ==
    \/ c = WriteCall(FileOf(v), x)
    \/ /\ c.op = "seal" /\ c.f = FileOf(v)
       /\ x = [c.item EXCEPT !.digest = Tail(ReadIn(v.file, v.dirs, FileOf(v)))]


\* A call that writes such an item; it may also write a part of it.
LEMMA WritesStep ==
    ASSUME NEW v, NEW x, NEW w, Writes(v, x, w), NEW c, PutsIn(v, x, c)
    PROVE  StepOK(c, v, w) /\ Via(v, <<c>>, w)
<1> SUFFICES ASSUME NEW m, m = ManifestAt(v.file, v.h.gen), NEW f, f = ActiveFile(v.h)
             PROVE  StepOK(c, v, w) /\ Via(v, <<c>>, w)
  OBVIOUS
<1>0. /\ Live(v) /\ w.file = WrittenIn(v.file, f, x) /\ w.dirs = v.dirs
      /\ w = With(v, WrittenIn(v.file, f, x), v.dirs)
      /\ \/ c = WriteCall(f, x)
         \/ /\ c.op = "seal" /\ c.f = f
            /\ x = [c.item EXCEPT !.digest = Tail(ReadIn(v.file, v.dirs, f))]
  BY WritesIs DEF Writes, FileOf, Alike, PutsIn
<1>1. Live(w)
  BY WritesIs
<1>2. Steady(w)
  BY <1>1, LiveSteady
<1>3. /\ GoodActive(m.active, m.rev, v.file[f].live, v.cur) /\ m.active.first \in Nat
      /\ Len(v.cur.log) \in Nat
  BY <1>0, LiveIs
<1>4. GoodActive(m.active, m.rev, Append(v.file[f].live, Torn), v.cur)
  <2>1. Torn.t # "marker"
    BY DEF Torn
  <2> DEFINE a == m.active
             y == v.file[f].live
  <2> HIDE DEF a, y
  <2>2. GoodActive(a, m.rev, Append(y, Torn), v.cur)
    <3>1. GoodActive(a, m.rev, y, v.cur) /\ a.first \in Nat
      BY <1>3 DEF a, y
    <3> QED BY <1>3, <2>1, <3>1, ActiveBatch
  <2> QED BY <2>2 DEF a, y
<1>5. Steady(With(v, WrittenIn(v.file, f, Torn), v.dirs))
  <2> DEFINE u == With(v, WrittenIn(v.file, f, Torn), v.dirs)
  <2>1. Live(u)
    <3>1. Writes(v, Torn, u)
      BY <1>0, <1>4 DEF Writes, ManOf, FileOf, Content, Plus
    <3> HIDE DEF u
    <3> QED BY <3>1, WritesIs
  <2> HIDE DEF u
  <2>2. Steady(u)
    BY <2>1, LiveSteady
  <2> QED BY <2>2 DEF u
<1>6. c.op \in {"write", "seal"} /\ c.f = f
  BY <1>0 DEF WriteCall
<1>7. w.file = WrittenIn(v.file, f, x) /\ w.dirs = v.dirs
  BY <1>0
<1>8. Performed(c, v.file, v.dirs, w.file, w.dirs)
  <2>1. CASE c = WriteCall(f, x)
    <3>1. c.op = "write" /\ c.f = f /\ c.item = x
      BY <2>1 DEF WriteCall
    <3> QED BY <1>7, <3>1 DEF Performed
  <2>2. CASE c.op = "seal" /\ c.f = f
             /\ x = [c.item EXCEPT !.digest = Tail(ReadIn(v.file, v.dirs, f))]
    BY <1>7, <2>2 DEF Performed
  <2> QED BY <1>0, <2>1, <2>2
<1>9. w = With(v, w.file, w.dirs)
  BY <1>0, <1>7
<1>10. ~Quiet(c)
  BY <1>6 DEF Quiet
<1>11. StepOK(c, v, w)
  BY <1>2, <1>5, <1>6, <1>8, <1>9 DEF StepOK
<1> QED BY <1>10, <1>11, ViaStep

---------------------------------------------------------------------------
(* sync and append.                                                        *)

\* Item x may follow b, which holds log up to e, when the log is to be new.
Continues(d, b, log, e, x, new) ==
    /\ GoodPart(d, b, Len(b), log) /\ d.first \in Nat /\ e = Expected(d, b, Len(b))
    /\ Len(new) \in Nat /\ e <= Len(new) + 1 /\ \A i \in d.first..e - 1 : new[i] = log[i]
    /\ \/ x.t = "marker" /\ x.id = d.id /\ x.end = e
       \/ /\ x.t = "batch" /\ x.first = e /\ Len(x.recs) \in Nat \ {0} /\ 1 <= e
          /\ e + Len(x.recs) <= Len(new) + 1
          /\ \A j \in 1..Len(x.recs) : new[e + j - 1] = x.recs[j]

\* One more item of a part that is known as a whole.
\* What a part holds, and holds with one item more.
Holds(d, c, e, log) == IsSeq(c) /\ GoodPart(d, c, Len(c), log) /\ e = Expected(d, c, Len(c))

\* A part that holds the log goes on holding it after the next batch or marker.
LEMMA WholeMore ==
    ASSUME NEW d, NEW b, NEW log, NEW e, NEW x, NEW new, Continues(d, b, log, e, x, new)
    PROVE  /\ IsSeq(b) /\ Len(b) \in Nat /\ Len(b) >= 2
           /\ Len(Plus(b, x)) = Len(b) + 1 /\ Plus(b, x)[Len(b) + 1] = x
           /\ x.t = "batch" => Holds(d, Plus(b, x), e + Len(x.recs), new)
           /\ x.t = "marker" => Holds(d, Plus(b, x), e, new)
<1> DEFINE n == Len(b)
           c == Plus(b, x)
<1>0. /\ n = Len(b) /\ c = Append(b, x) /\ GoodPart(d, b, n, log) /\ d.first \in Nat
      /\ e = Expected(d, b, n) /\ Len(new) \in Nat /\ e <= Len(new) + 1
  BY DEF Continues, Plus
<1>5. \A i \in d.first..e - 1 : new[i] = log[i]
  BY DEF Continues
<1>6. \/ x.t = "marker" /\ x.id = d.id /\ x.end = e
      \/ /\ x.t = "batch" /\ x.first = e /\ Len(x.recs) \in Nat \ {0} /\ 1 <= e
         /\ e + Len(x.recs) <= Len(new) + 1
         /\ \A j \in 1..Len(x.recs) : new[e + j - 1] = x.recs[j]
  BY DEF Continues
<1> HIDE DEF n, c
<1>1. n \in Nat /\ n >= 2 /\ IsSeq(b)
  BY <1>0, GoodCounted DEF GoodPart
<1>2. IsSeq(c) /\ Len(c) = n + 1 /\ c[n + 1] = x /\ \A i \in 1..n : c[i] = b[i]
  BY <1>0, <1>1, SeqAppend
<1>3. GoodPart(d, c, n, new) /\ Expected(d, c, n) = e
  <2>1. d.id = d.id /\ d.first = d.first /\ n <= Len(c) /\ GoodPart(d, b, n, log) /\ d.first \in Nat
        /\ IsSeq(c) /\ Len(new) \in Nat /\ \A k \in 1..n : c[k] = b[k]
    BY <1>0, <1>1, <1>2
  <2>2. Expected(d, b, n) <= Len(new) + 1 /\ Expected(d, b, n) = e
        /\ \A i \in d.first..Expected(d, b, n) - 1 : new[i] = log[i]
    BY <1>0, <1>5
  <2>3. GoodPart(d, c, n, new) /\ Expected(d, c, n) = Expected(d, b, n)
    BY ONLY <2>1, <2>2, GoodSame
  <2> QED BY <2>2, <2>3
<1>4. /\ GoodPart(d, c, n + 1, new)
      /\ Expected(d, c, n + 1) =
            IF c[n + 1].t = "batch" THEN Expected(d, c, n) + Len(c[n + 1].recs)
            ELSE Expected(d, c, n)
  <2> DEFINE y == c[n + 1]
             k == Expected(d, c, n)
  <2>1. \/ /\ y.t = "batch" /\ y.first = k
           /\ Len(y.recs) \in Nat \ {0} /\ 1 <= y.first
           /\ y.first + Len(y.recs) <= Len(new) + 1
           /\ \A j \in 1..Len(y.recs) : new[y.first + j - 1] = y.recs[j]
        \/ y.t = "marker" /\ y.id = d.id /\ y.end = k
    BY <1>2, <1>3, <1>6
  <2>2. n + 1 <= Len(c) /\ GoodPart(d, c, n, new) /\ d.first \in Nat /\ Len(new) \in Nat
    BY <1>0, <1>1, <1>2, <1>3
  <2> QED BY ONLY <2>1, <2>2, GoodNext
<1>7. GoodPart(d, c, Len(c), new)
  BY <1>2, <1>4
<1>8. x.t = "batch" => Holds(d, c, e + Len(x.recs), new)
  BY <1>2, <1>3, <1>4, <1>7 DEF Holds
<1>9. x.t = "marker" => Holds(d, c, e, new)
  BY <1>2, <1>3, <1>4, <1>7 DEF Holds
<1> QED BY <1>1, <1>2, <1>8, <1>9 DEF n, c

\* Two logs with the same parts are the same.
LEMMA LogSame ==
    ASSUME NEW s, IsLog(s), NEW t, IsLog(t), s.first = t.first, s.rev = t.rev,
           s.stable = t.stable, Len(s.log) = Len(t.log),
           \A i \in 1..Len(s.log) : s.log[i] = t.log[i]
    PROVE  s = t
<1>1. IsSeq(s.log) /\ IsSeq(t.log)
  BY LogIs
<1>2. s.log = t.log
  BY <1>1, SeqSame
<1>3. s = [log |-> s.log, first |-> s.first, stable |-> s.stable, rev |-> s.rev]
  BY DEF IsLog
<1>4. t = [log |-> t.log, first |-> t.first, stable |-> t.stable, rev |-> t.rev]
  BY DEF IsLog
<1> QED BY <1>2, <1>3, <1>4

\* What the stable part of a log is.
LEMMA StableIs ==
    ASSUME NEW s, IsLog(s), NEW t, t = StableLog(s)
    PROVE  /\ IsLog(t) /\ IsSettled(t) /\ t.first = s.first /\ t.rev = s.rev /\ t.stable = s.stable
           /\ Len(t.log) = s.stable - 1 /\ \A i \in 1..s.stable - 1 : t.log[i] = s.log[i]
           /\ IsSettled(s) => t = s
<1>1. s.stable \in s.stable..Len(s.log) + 1 /\ s.stable \in Nat /\ Len(s.log) \in Nat
  BY LogIs
<1> DEFINE k == s.stable
           u == CutAt(s, k)
<1>2. t = u
  BY DEF StableLog
<1>3. /\ IsLog(u) /\ IsSettled(u) /\ u.first = s.first /\ u.rev = s.rev
      /\ u.stable = k /\ Len(u.log) = k - 1 /\ \A i \in 1..k - 1 : u.log[i] = s.log[i]
  BY <1>1, CutIs
<1> HIDE DEF u
<1>4. ASSUME IsSettled(s)
      PROVE  t = s
  <2>1. Len(s.log) = k - 1
    BY <1>1, <1>4 DEF IsSettled
  <2> QED BY <1>2, <1>3, <2>1, LogSame
<1> QED BY <1>2, <1>3, <1>4

\* What a log is after a sync: every record stable.
LEMMA SyncedIs ==
    ASSUME NEW s, IsLog(s), NEW t, t = SyncedLog(s)
    PROVE  /\ IsLog(t) /\ IsSettled(t) /\ t.log = s.log /\ t.first = s.first /\ t.rev = s.rev
           /\ t.stable = Len(s.log) + 1 /\ StableLog(t) = t
           /\ IsSettled(s) => t = s
<1>1. /\ Len(s.log) \in Nat /\ s.first \in Nat \ {0} /\ s.stable \in Nat
      /\ s.first <= s.stable /\ s.stable <= Len(s.log) + 1
  BY LogIs
<1>2. s = [log |-> s.log, first |-> s.first, stable |-> s.stable, rev |-> s.rev]
  BY DEF IsLog
<1>3. t = [log |-> s.log, first |-> s.first, stable |-> Len(s.log) + 1, rev |-> s.rev]
  <2> DEFINE k == Len(s.log) + 1
             a == s.log
             b == s.first
             c == s.stable
             e == s.rev
  <2>1. s = [log |-> a, first |-> b, stable |-> c, rev |-> e] /\ t = [s EXCEPT !.stable = k]
    BY <1>2 DEF SyncedLog
  <2> HIDE DEF k, a, b, c, e
  <2>2. t = [log |-> a, first |-> b, stable |-> k, rev |-> e]
    BY <2>1
  <2> QED BY <2>2 DEF k, a, b, e
<1>4. t.log = s.log /\ t.first = s.first /\ t.rev = s.rev /\ t.stable = Len(s.log) + 1
  BY <1>3
<1>5. /\ s.log \in Seq(Value \union {Gone}) /\ s.rev \in Nat
      /\ s.first \in 1..Len(s.log) + 1 /\ \A i \in 1..s.first - 1 : s.log[i] = Gone
  BY DEF IsLog
<1>6. IsLog(t)
  <2>1. t.stable \in t.first..Len(t.log) + 1
    BY <1>1, <1>4
  <2> QED BY <1>3, <1>4, <1>5, <2>1 DEF IsLog
<1>7. IsSettled(t)
  BY <1>4 DEF IsSettled
<1>8. StableLog(t) = t
  BY <1>6, <1>7, StableIs
<1>9. IsSettled(s) => t = s
  BY <1>2, <1>3 DEF IsSettled
<1> QED BY <1>4, <1>6, <1>7, <1>8, <1>9

\* Logs that agree up to their stable index.
LEMMA StableSame ==
    ASSUME NEW s, IsLog(s), NEW t, IsLog(t), s.first = t.first, s.rev = t.rev,
           s.stable = t.stable, \A i \in 1..s.stable - 1 : s.log[i] = t.log[i]
    PROVE  StableLog(s) = StableLog(t)
<1> DEFINE a == StableLog(s)
           b == StableLog(t)
<1>1. /\ IsLog(a) /\ a.first = s.first /\ a.rev = s.rev /\ a.stable = s.stable
      /\ Len(a.log) = s.stable - 1 /\ \A i \in 1..s.stable - 1 : a.log[i] = s.log[i]
  BY StableIs
<1>2. /\ IsLog(b) /\ b.first = t.first /\ b.rev = t.rev /\ b.stable = t.stable
      /\ Len(b.log) = t.stable - 1 /\ \A i \in 1..t.stable - 1 : b.log[i] = t.log[i]
  BY StableIs
<1> HIDE DEF a, b
<1>3. a = b
  BY <1>1, <1>2, LogSame
<1> QED BY <1>3 DEF a, b

\* An allocation changes nothing; an operation makes it with an open ledger.
LEMMA StepAlloc ==
    ASSUME NEW v, Steady(v), v.mode = "open", NEW poisons
    PROVE  StepOK(Alloc(poisons), v, v) /\ Via(v, <<Alloc(poisons)>>, v)
<1>1. Alloc(poisons).op = "alloc"
  BY DEF Alloc
<1>2. StepOK(Alloc(poisons), v, v)
  BY <1>1 DEF StepOK
<1>3. ~Quiet(Alloc(poisons))
  BY <1>1 DEF Quiet
<1> QED BY <1>2, <1>3, ViaStep



\* The fields of a world.
LEMMA WorldIs ==
    ASSUME NEW F, NEW ds, NEW md, NEW hd, NEW s, NEW S, NEW w, w = World(F, ds, md, hd, s, S)
    PROVE  /\ w.file = F /\ w.dirs = ds /\ w.mode = md /\ w.h = hd /\ w.cur = s /\ w.next = S
           /\ Top(w) = Last(ds)
BY DEF World, Top

\* An operation returns.
LEMMA StepReturn ==
    ASSUME NEW v, NEW hd, NEW s, Tells(v, s), NEW w, w = World(v.file, v.dirs, "open", hd, s, {}),
           Steady(w)
    PROVE  StepOK(Return(hd, s), v, w) /\ Via(v, <<Return(hd, s)>>, w)
<1> DEFINE c == Return(hd, s)
<1>1. c.op = "set" /\ c.h = hd /\ c.told = {s}
  BY DEF Return
<1>2. w.cur = s /\ w.next = {}
  BY WorldIs
<1>3. Assigned(c, v, w)
  BY <1>1, <1>2 DEF Assigned
<1>4. StepOK(c, v, w)
  BY <1>1, <1>3 DEF StepOK
<1>5. ~Quiet(c)
  BY <1>1 DEF Quiet
<1> QED BY <1>4, <1>5, ViaStep

\* The active part between two operations.
LEMMA GoodIs ==
    ASSUME NEW v, Good(v), Steady(v), NEW m, m = ManifestAt(v.file, v.h.gen),
           NEW f, f = ActiveFile(v.h), NEW b, b = v.file[f].live,
           NEW d, d = v.h.parts[Len(v.h.parts)]
    PROVE  /\ Live(v) /\ AreFiles(v.file) /\ IsSeq(b) /\ Len(b) \in Nat /\ v.h.len = Len(b)
           /\ GoodPart(d, b, Len(b), v.cur.log) /\ Expected(d, b, Len(b)) = v.h.end
           /\ GoodPart(m.active, b, Len(b), v.cur.log) /\ Expected(m.active, b, Len(b)) = v.h.end
           /\ \A j \in 2..Len(b) : b[j].t = "marker" => b[j].rev = m.rev
           /\ GoodActive(m.active, m.rev, b, StableLog(v.cur))
<1>1. AreFiles(v.file)
  BY DEF Steady
<1>2. Live(v)
  BY <1>1, GoodLive
<1>3. /\ f = Part(m.active.id) /\ m.active.first \in Nat \ {0}
      /\ d.id = m.active.id /\ d.first = m.active.first
      /\ IsSeq(b) /\ GoodActive(m.active, m.rev, b, v.cur) /\ v.h.gen \in Nat \ {0}
  BY <1>2, LiveIs
<1>4. /\ GoodPart(d, b, Len(b), v.cur.log) /\ Expected(d, b, Len(b)) = v.h.end
      /\ v.h.len = Len(b)
  BY DEF Good, Whole, ActiveFile
<1>5. /\ GoodPart(m.active, b, Len(b), v.cur.log)
      /\ Expected(m.active, b, Len(b)) = Expected(d, b, Len(b))
  <2> DEFINE a == m.active
             n == Len(b)
             l == v.cur.log
  <2>1. d.id = a.id /\ d.first = a.first /\ d.first \in Nat /\ GoodPart(d, b, n, l)
    BY <1>3, <1>4
  <2> HIDE DEF a, n, l
  <2>2. GoodPart(a, b, n, l) /\ Expected(a, b, n) = Expected(d, b, n)
    BY <2>1, PartAlike
  <2> QED BY <2>2 DEF a, n, l
<1>6. \A j \in 2..Len(b) : b[j].t = "marker" => b[j].rev = m.rev
  BY <1>3 DEF GoodActive
<1>7. GoodActive(m.active, m.rev, b, StableLog(v.cur))
  <2> DEFINE F == v.file
             ds == v.dirs
             g == v.h.gen
             s == StableLog(v.cur)
  <2>1. g # 0 /\ AllLead(F, ds, g, s) /\ m = ManifestAt(F, g)
    BY <1>3 DEF Good
  <2> HIDE DEF F, ds, g, s
  <2>2. SafeActive(m.active, m.rev, F[Part(m.active.id)], s)
    BY <2>1, AllLeadIs
  <2>3. GoodActive(m.active, m.rev, F[Part(m.active.id)].live, s)
    BY <2>2, SafeIs
  <2> QED BY <1>3, <2>3 DEF F, s
<1> QED BY <1>1, <1>2, <1>3, <1>4, <1>5, <1>6, <1>7, SeqIs

\* A batch written to the active file leaves it good for the log.
LEMMA BatchGood ==
    ASSUME NEW v, Live(v), NEW m, m = ManifestAt(v.file, v.h.gen), NEW f, f = ActiveFile(v.h),
           NEW x, x.t # "marker", NEW s, GoodActive(m.active, m.rev, v.file[f].live, s),
           Len(s.log) \in Nat
    PROVE  GoodActive(m.active, m.rev, Append(v.file[f].live, x), s)
<1> DEFINE a == m.active
           y == v.file[f].live
<1>1. a.first \in Nat /\ GoodActive(a, m.rev, y, s)
  BY LiveIs
<1> HIDE DEF a, y
<1>2. GoodActive(a, m.rev, Append(y, x), s)
  BY <1>1, ActiveBatch
<1> QED BY <1>2 DEF a, y

\* The log after records were appended.
AppendedLog(s, recs) == [s EXCEPT !.log = @ \o recs]

\* What appending adds to the log.
LEMMA AppendedLogIs ==
    ASSUME NEW s, IsLog(s), NEW recs \in Seq(Value) \ {<< >>}, NEW t, t = AppendedLog(s, recs)
    PROVE  /\ IsLog(t) /\ t.first = s.first /\ t.stable = s.stable /\ t.rev = s.rev
           /\ Len(recs) \in Nat \ {0} /\ Len(t.log) = Len(s.log) + Len(recs)
           /\ \A i \in 1..Len(s.log) : t.log[i] = s.log[i]
           /\ \A j \in 1..Len(recs) : t.log[Len(s.log) + j] = recs[j]
           /\ Appends(s, t)
<1>1. /\ IsSeq(s.log) /\ Len(s.log) \in Nat /\ s.first \in Nat \ {0}
      /\ s.stable \in Nat /\ s.first <= s.stable /\ s.stable <= Len(s.log) + 1
      /\ s.rev \in Nat
      /\ \A i \in 1..Len(s.log) : s.log[i] \in Value \union {Gone}
      /\ \A i \in 1..s.first - 1 : s.log[i] = Gone
  BY LogIs
<1>2. IsSeq(recs) /\ Len(recs) \in Nat \ {0} /\ \A j \in 1..Len(recs) : recs[j] \in Value
  <2>1. IsSeq(recs)
    BY SeqTyped
  <2>2. Len(recs) \in Nat /\ Len(recs) # 0
    BY <2>1, SeqIs, SeqEmpty
  <2> QED BY <2>1, <2>2
<1> DEFINE l == s.log \o recs
           a == Len(s.log)
           b == Len(recs)
<1>3. /\ IsSeq(l) /\ Len(l) = a + b
      /\ \A i \in 1..a : l[i] = s.log[i]
      /\ \A j \in 1..b : l[a + j] = recs[j]
  BY <1>1, <1>2, SeqCat
<1>4. s = [log |-> s.log, first |-> s.first, stable |-> s.stable, rev |-> s.rev]
  BY DEF IsLog
<1>5. t = [log |-> l, first |-> s.first, stable |-> s.stable, rev |-> s.rev]
  <2> DEFINE k == s.log
             o == s.first
             c == s.stable
             e == s.rev
  <2>1. s = [log |-> k, first |-> o, stable |-> c, rev |-> e] /\ t = [s EXCEPT !.log = l]
    BY <1>4 DEF AppendedLog
  <2> HIDE DEF k, o, c, e, l
  <2>2. t = [log |-> l, first |-> o, stable |-> c, rev |-> e]
    BY <2>1
  <2> QED BY <2>2 DEF o, c, e
<1>6. a \in Nat /\ b \in Nat \ {0}
  BY <1>1, <1>2
<1> HIDE DEF l
<1>7. t.log = l /\ t.first = s.first /\ t.stable = s.stable /\ t.rev = s.rev
  BY <1>5
<1>8. l \in Seq(Value \union {Gone})
  <2>1. ASSUME NEW i \in 1..Len(l)
        PROVE  l[i] \in Value \union {Gone}
    <3>1. CASE i <= a
      <4>1. i \in 1..a
        BY <1>3, <1>6, <3>1
      <4> QED BY <1>1, <1>3, <4>1
    <3>2. CASE a < i
      <4>1. i - a \in 1..b /\ a + (i - a) = i
        BY <1>3, <1>6, <3>2
      <4>2. l[i] = recs[i - a]
        BY <1>3, <4>1
      <4> QED BY <1>2, <4>1, <4>2
    <3> QED BY <1>3, <1>6, <3>1, <3>2
  <2> QED BY <1>3, <2>1, SeqIn
<1>9. IsLog(t)
  <2> HIDE DEF a, b
  <2>1. /\ t.first \in 1..Len(t.log) + 1 /\ t.stable \in t.first..Len(t.log) + 1
    BY <1>1, <1>3, <1>6, <1>7 DEF a
  <2>2. \A i \in 1..t.first - 1 : t.log[i] = Gone
    <3>1. \A i \in 1..s.first - 1 : i \in 1..a
      BY <1>1, <1>6 DEF a
    <3> QED BY <1>1, <1>3, <1>7, <3>1
  <2>3. t = [log |-> t.log, first |-> t.first, stable |-> t.stable, rev |-> t.rev]
    BY <1>5, <1>7
  <2> QED BY <1>1, <1>7, <1>8, <2>1, <2>2, <2>3 DEF IsLog
<1>10. Appends(s, t)
  <2>1. b \in 1..Len(t.log) /\ Len(t.log) - b = a
    BY <1>3, <1>6, <1>7
  <2>2. SubSeq(l, 1, a) = s.log
    <3>1. a \in 0..Len(l)
      BY <1>3, <1>6
    <3>2. IsSeq(SubSeq(l, 1, a)) /\ Len(SubSeq(l, 1, a)) = a
          /\ \A i \in 1..a : SubSeq(l, 1, a)[i] = l[i]
      BY <1>3, <3>1, SeqPrefix
    <3> DEFINE p == SubSeq(l, 1, a)
               q == s.log
    <3>3. IsSeq(p) /\ IsSeq(q) /\ Len(p) = Len(q) /\ \A i \in 1..Len(p) : p[i] = q[i]
      BY <1>1, <1>3, <3>2
    <3> HIDE DEF p, q
    <3>4. p = q
      BY <3>3, SeqSame
    <3> QED BY <3>4 DEF p, q
  <2>3. s = [t EXCEPT !.log = SubSeq(@, 1, a)]
    <3> DEFINE k == s.log
               o == s.first
               c == s.stable
               e == s.rev
    <3>1. s = [log |-> k, first |-> o, stable |-> c, rev |-> e]
          /\ t = [log |-> l, first |-> o, stable |-> c, rev |-> e]
          /\ SubSeq(l, 1, a) = k
      BY <1>4, <1>5, <2>2
    <3> HIDE DEF k, o, c, e, a
    <3>2. t.log = l
      BY <3>1
    <3>3. [t EXCEPT !.log = k] = [log |-> k, first |-> o, stable |-> c, rev |-> e]
      BY <3>1
    <3>4. SubSeq(t.log, 1, a) = k
      BY <3>1, <3>2
    <3>5. [t EXCEPT !.log = SubSeq(@, 1, a)] = [t EXCEPT !.log = k]
      BY ONLY <3>4
    <3> QED BY <3>1, <3>3, <3>5
  <2> HIDE DEF a, b
  <2> QED BY <2>1, <2>3 DEF Appends
<1> QED BY <1>2, <1>3, <1>7, <1>9, <1>10

\* A handle is a record with these fields.
HandleOf(g, r, a, b, c, e, n, ps, x, l, ds) ==
    [gen |-> g, rev |-> r, first |-> a, end |-> b, stable |-> c, dirty |-> e, next |-> n,
     parts |-> ps, active |-> x, len |-> l, dir |-> ds]

\* The shape of a handle, whose last part is the active one.
LEMMA HandleIs ==
    ASSUME NEW hd, IsHandle(hd)
    PROVE  /\ hd = HandleOf(hd.gen, hd.rev, hd.first, hd.end, hd.stable, hd.dirty, hd.next,
                            hd.parts, hd.active, hd.len, hd.dir)
           /\ IsSeq(hd.parts) /\ Len(hd.parts) \in Nat /\ Len(hd.parts) > 0
           /\ Len(hd.parts) \in 1..Len(hd.parts) /\ hd.active = Len(hd.parts)
           /\ hd.active \in 1..Len(hd.parts) /\ Active(hd) = hd.parts[Len(hd.parts)]
           /\ ActiveFile(hd) = Part(Active(hd).id)
<1>1. IsSeq(hd.parts) /\ Len(hd.parts) > 0 /\ hd.active = Len(hd.parts)
  BY DEF IsHandle, Chain
<1>2. Len(hd.parts) \in Nat
  BY <1>1, SeqIs
<1>3. hd = HandleOf(hd.gen, hd.rev, hd.first, hd.end, hd.stable, hd.dirty, hd.next,
                    hd.parts, hd.active, hd.len, hd.dir)
  BY DEF IsHandle, HandleOf
<1> QED BY <1>1, <1>2, <1>3 DEF Active, ActiveFile

\* The fields of a handle that is built from them.
LEMMA HandleOfIs ==
    ASSUME NEW g, NEW r, NEW a, NEW b, NEW c, NEW e, NEW n, NEW ps, NEW x, NEW l, NEW ds,
           NEW hd, hd = HandleOf(g, r, a, b, c, e, n, ps, x, l, ds)
    PROVE  /\ hd.gen = g /\ hd.rev = r /\ hd.first = a /\ hd.end = b /\ hd.stable = c
           /\ hd.dirty = e /\ hd.next = n /\ hd.parts = ps /\ hd.active = x
           /\ hd.len = l /\ hd.dir = ds
BY DEF HandleOf

\* When such a record is a handle.
LEMMA HandleIntro ==
    ASSUME NEW g, NEW r, NEW a, NEW b, NEW c, NEW e, NEW n, NEW ps, NEW x, NEW l, NEW ds,
           NEW hd, hd = HandleOf(g, r, a, b, c, e, n, ps, x, l, ds),
           Chain(ps, a), Rising(ps), x = Len(ps), InRange(hd),
           g \in Nat \ {0}, n \in Nat, e \in BOOLEAN, ~e => c = b
    PROVE  IsHandle(hd)
<1>1. /\ hd.gen = g /\ hd.rev = r /\ hd.first = a /\ hd.end = b /\ hd.stable = c
      /\ hd.dirty = e /\ hd.next = n /\ hd.parts = ps /\ hd.active = x
      /\ hd.len = l /\ hd.dir = ds
  BY HandleOfIs
<1>2. hd = [gen |-> hd.gen, rev |-> hd.rev, first |-> hd.first, end |-> hd.end,
            stable |-> hd.stable, dirty |-> hd.dirty, next |-> hd.next,
            parts |-> hd.parts, active |-> hd.active, len |-> hd.len, dir |-> hd.dir]
  <2>1. hd = HandleOf(hd.gen, hd.rev, hd.first, hd.end, hd.stable, hd.dirty, hd.next,
                      hd.parts, hd.active, hd.len, hd.dir)
    BY <1>1
  <2> QED BY <2>1 DEF HandleOf
<1>3. hd.dirty \in BOOLEAN /\ (~hd.dirty => hd.stable = hd.end)
  BY <1>1
<1>4. /\ Chain(hd.parts, hd.first) /\ Rising(hd.parts) /\ hd.active = Len(hd.parts)
      /\ hd.gen \in Nat \ {0} /\ hd.next \in Nat
  BY <1>1
<1> QED BY <1>2, <1>3, <1>4 DEF IsHandle

\* The handle after an append.
LEMMA AppendedIs ==
    ASSUME NEW hd, IsHandle(hd), NEW recs, NEW e, e = Entry(hd.end, Len(recs), hd.len + 1, hd.active)
    PROVE  Appended(hd, recs)
             = HandleOf(hd.gen, hd.rev, hd.first, hd.end + Len(recs), hd.stable, TRUE, hd.next,
                        hd.parts, hd.active, hd.len + 1, Append(hd.dir, e))
<1> DEFINE g == hd.gen
           r == hd.rev
           a == hd.first
           b == hd.end
           c == hd.stable
           y == hd.dirty
           n == hd.next
           ps == hd.parts
           x == hd.active
           l == hd.len
           ds == hd.dir
           b2 == hd.end + Len(recs)
           l2 == hd.len + 1
           ds2 == Append(hd.dir, e)
<1>1. hd = HandleOf(g, r, a, b, c, y, n, ps, x, l, ds)
  BY HandleIs
<1>2. Appended(hd, recs) = [hd EXCEPT !.end = b2, !.dirty = TRUE, !.len = l2, !.dir = ds2]
  BY DEF Appended
<1> DEFINE w == [hd EXCEPT !.end = b2, !.dirty = TRUE, !.len = l2, !.dir = ds2]
<1>5. w = [hd EXCEPT !.end = b2, !.dirty = TRUE, !.len = l2, !.dir = ds2]
  OBVIOUS
<1> HIDE DEF g, r, a, b, c, y, n, ps, x, l, ds, b2, l2, ds2, w
<1>3. w = HandleOf(g, r, a, b2, c, TRUE, n, ps, x, l2, ds2)
  BY <1>1, <1>5 DEF HandleOf
<1>4. Appended(hd, recs) = HandleOf(g, r, a, b2, c, TRUE, n, ps, x, l2, ds2)
  BY <1>2, <1>3, <1>5
<1> QED BY <1>4 DEF g, r, a, b2, c, n, ps, x, l2, ds2

\* The handle after sync.
LEMMA SyncedHandleIs ==
    ASSUME NEW hd, IsHandle(hd)
    PROVE  /\ Synced(hd)
                = HandleOf(hd.gen, hd.rev, hd.first, hd.end, hd.end, FALSE, hd.next,
                           hd.parts, hd.active, IF hd.dirty THEN hd.len + 1 ELSE hd.len, hd.dir)
           /\ ~hd.dirty => Synced(hd) = hd
<1> DEFINE g == hd.gen
           r == hd.rev
           a == hd.first
           b == hd.end
           c == hd.stable
           y == hd.dirty
           n == hd.next
           ps == hd.parts
           x == hd.active
           l == hd.len
           ds == hd.dir
           l2 == IF hd.dirty THEN hd.len + 1 ELSE hd.len
<1>1. hd = HandleOf(g, r, a, b, c, y, n, ps, x, l, ds)
  BY HandleIs
<1>2. Synced(hd) = [hd EXCEPT !.stable = b, !.dirty = FALSE, !.len = l2]
  BY DEF Synced
<1>3. ~y => c = b /\ y = FALSE /\ l2 = l
  BY DEF IsHandle
<1> DEFINE w == [hd EXCEPT !.stable = b, !.dirty = FALSE, !.len = l2]
<1>7. w = [hd EXCEPT !.stable = b, !.dirty = FALSE, !.len = l2]
  OBVIOUS
<1> HIDE DEF g, r, a, b, c, y, n, ps, x, l, ds, l2, w
<1>4. w = HandleOf(g, r, a, b, b, FALSE, n, ps, x, l2, ds)
  BY <1>1, <1>7 DEF HandleOf
<1>5. Synced(hd) = HandleOf(g, r, a, b, b, FALSE, n, ps, x, l2, ds)
  BY <1>2, <1>4, <1>7
<1>6. ~y => Synced(hd) = hd
  BY <1>1, <1>3, <1>5
<1> QED BY <1>5, <1>6 DEF g, r, a, b, n, ps, x, l2, ds, y

\* An append into the active part is sound.
LEMMA AppendSound ==
    ASSUME NEW v, Good(v), Steady(v), NEW recs \in Seq(Value) \ {<< >>}
    PROVE  Sound(v, ActiveAppend(v.h, v.cur, recs))
<1>0. SUFFICES ASSUME NEW hd1, hd1 = v.h, NEW s1, s1 = v.cur, NEW m1, m1 = ManifestAt(v.file, hd1.gen),
                    NEW f1, f1 = ActiveFile(hd1), NEW b1, b1 = v.file[f1].live,
                    NEW d1, d1 = hd1.parts[Len(hd1.parts)], NEW x1, x1 = Batch(hd1.end, recs),
                    NEW t1, t1 = AppendedLog(s1, recs), NEW r1, r1 = Appended(hd1, recs),
                    NEW a1, a1 = With(v, WrittenIn(v.file, f1, x1), v.dirs),
                    NEW w1, w1 = World(a1.file, a1.dirs, "open", r1, t1, {}),
                    NEW e1, e1 = Entry(hd1.end, Len(recs), hd1.len + 1, hd1.active),
                    NEW k1, k1 = Len(recs), NEW end1, end1 = hd1.end + k1,
                    NEW len1, len1 = hd1.len + 1, NEW dir1, dir1 = Append(hd1.dir, e1),
                    NEW c1, c1 = Append(b1, x1)
             PROVE  Sound(v, ActiveAppend(hd1, s1, recs))
  OBVIOUS
<1>q1. hd1 = v.h /\ s1 = v.cur
  BY <1>0
<1>q2. m1 = ManifestAt(v.file, hd1.gen) /\ f1 = ActiveFile(hd1) /\ b1 = v.file[f1].live
       /\ d1 = hd1.parts[Len(hd1.parts)]
  BY <1>0
<1>q3. x1 = Batch(hd1.end, recs) /\ k1 = Len(recs)
  BY <1>0
<1>q4. t1 = AppendedLog(s1, recs)
  BY <1>0
<1>q5. r1 = Appended(hd1, recs)
  BY <1>0
<1>q6. a1 = With(v, WrittenIn(v.file, f1, x1), v.dirs)
  BY <1>0
<1>q7. w1 = World(a1.file, a1.dirs, "open", r1, t1, {})
  BY <1>0
<1>q8. e1 = Entry(hd1.end, k1, len1, hd1.active)
  BY <1>0
<1>q9. end1 = hd1.end + k1 /\ len1 = hd1.len + 1 /\ dir1 = Append(hd1.dir, e1)
  BY <1>0
<1>q10. c1 = Append(b1, x1)
  BY <1>0
<1>1. /\ Live(v) /\ AreFiles(v.file) /\ IsSeq(b1) /\ Len(b1) \in Nat /\ hd1.len = Len(b1)
      /\ GoodPart(d1, b1, Len(b1), s1.log) /\ Expected(d1, b1, Len(b1)) = hd1.end
      /\ GoodActive(m1.active, m1.rev, b1, StableLog(s1))
  BY <1>q1, <1>q2, GoodIs
<1>2. /\ hd1.gen \in Nat \ {0} /\ f1 = Part(m1.active.id) /\ f1 \in DOMAIN v.file
      /\ d1.first \in Nat \ {0} /\ d1.first <= hd1.end
      /\ Len(s1.log) \in Nat /\ hd1.end = Len(s1.log) + 1
      /\ GoodActive(m1.active, m1.rev, b1, s1) /\ IsPrefix(v.file[f1].hard, b1)
  <2>1. /\ hd1.gen \in Nat \ {0} /\ f1 = Part(m1.active.id) /\ f1 \in DOMAIN v.file
        /\ d1.first = m1.active.first /\ m1.active.first \in Nat \ {0}
        /\ m1.active.first <= Len(s1.log) + 1
        /\ Len(s1.log) \in Nat /\ hd1.end = Len(s1.log) + 1
        /\ GoodActive(m1.active, m1.rev, b1, s1) /\ IsPrefix(v.file[f1].hard, b1)
    BY <1>1, <1>q1, <1>q2, LiveIs
  <2> QED BY <2>1
<1>3. IsLog(s1) /\ IsHandle(hd1) /\ v.mode = "open" /\ v.next = {} /\ Matches(hd1, s1)
  BY <1>1, <1>q1 DEF Live
<1>4. /\ IsLog(t1) /\ t1.first = s1.first /\ t1.stable = s1.stable /\ t1.rev = s1.rev
      /\ k1 \in Nat \ {0} /\ Len(t1.log) = Len(s1.log) + k1
      /\ \A i \in 1..Len(s1.log) : t1.log[i] = s1.log[i]
      /\ \A j \in 1..k1 : t1.log[Len(s1.log) + j] = recs[j]
      /\ Appends(s1, t1)
  <2>1. /\ IsLog(t1) /\ t1.first = s1.first /\ t1.stable = s1.stable /\ t1.rev = s1.rev
        /\ Len(recs) \in Nat \ {0} /\ Len(t1.log) = Len(s1.log) + Len(recs)
        /\ \A i \in 1..Len(s1.log) : t1.log[i] = s1.log[i]
        /\ \A j \in 1..Len(recs) : t1.log[Len(s1.log) + j] = recs[j]
        /\ Appends(s1, t1)
    <3>1. IsLog(s1) /\ recs \in Seq(Value) \ {<< >>}
      BY <1>3
    <3> QED BY ONLY <3>1, <1>q4, AppendedLogIs
  <2> QED BY <1>q3, <2>1
<1>5. x1.t = "batch" /\ x1.first = hd1.end /\ x1.recs = recs /\ x1.t # "marker"
  BY <1>q3 DEF Batch
<1>6. ActiveAppend(hd1, s1, recs)
        = <<WriteCall(f1, x1)>> \o (<<Alloc(TRUE)>> \o <<Return(r1, t1)>>)
  <2>1. f1 = Part(Active(hd1).id)
    BY <1>3, <1>q2, HandleIs
  <2>2. ActiveAppend(hd1, s1, recs) = <<WriteCall(f1, x1), Alloc(TRUE), Return(r1, t1)>>
    BY <1>q3, <1>q4, <1>q5, <2>1 DEF ActiveAppend, AppendedLog
  <2> QED BY ONLY <2>2, Triple
<1>7. r1 = HandleOf(hd1.gen, hd1.rev, hd1.first, end1, hd1.stable, TRUE, hd1.next,
                   hd1.parts, hd1.active, len1, dir1)
  BY <1>3, <1>q3, <1>q5, <1>q8, <1>q9, AppendedIs
<1>8. /\ r1.gen = hd1.gen /\ r1.rev = hd1.rev /\ r1.first = hd1.first /\ r1.end = end1
      /\ r1.stable = hd1.stable /\ r1.next = hd1.next /\ r1.parts = hd1.parts
      /\ r1.active = hd1.active /\ r1.len = len1 /\ r1.dir = dir1
  BY ONLY <1>7 DEF HandleOf
<1>9. /\ GoodActive(m1.active, m1.rev, c1, s1)
      /\ GoodActive(m1.active, m1.rev, c1, StableLog(s1))
  <2>1. Len(s1.log) \in Nat /\ Len(StableLog(s1).log) \in Nat
    <3>1. IsLog(StableLog(s1))
      BY <1>3, StableIs
    <3> QED BY <1>2, <3>1, LogIs
  <2> QED BY <1>1, <1>2, <1>5, <1>q1, <1>q2, <1>q10, <2>1, BatchGood
<1>10. /\ Live(a1) /\ a1.h = hd1 /\ a1.cur = s1 /\ a1.dirs = v.dirs /\ Top(a1) = Top(v)
       /\ a1.file[f1].live = c1
       /\ OffFile(v.file, a1.file, f1) /\ ManifestAt(a1.file, hd1.gen) = m1
       /\ a1.file = WrittenIn(v.file, f1, x1) /\ a1.mode = "open" /\ a1.next = {}
       /\ Via(v, <<WriteCall(f1, x1)>>, a1)
  <2>1. f1 = FileOf(v) /\ m1 = ManOf(v) /\ b1 = Content(v)
    BY <1>q1, <1>q2 DEF FileOf, ManOf, Content
  <2>2. GoodActive(ManOf(v).active, ManOf(v).rev, Plus(Content(v), x1), v.cur)
    BY <1>9, <1>q1, <1>q10, <2>1 DEF Plus
  <2>3. a1 = With(v, WrittenIn(v.file, FileOf(v), x1), v.dirs)
    BY <1>q6, <2>1
  <2>4. Writes(v, x1, a1)
    BY ONLY <1>1, <2>2, <2>3 DEF Writes
  <2>5. PutsIn(v, x1, WriteCall(f1, x1))
    BY ONLY <2>1 DEF PutsIn
  <2>6. Via(v, <<WriteCall(f1, x1)>>, a1)
    BY ONLY <2>4, <2>5, WritesStep
  <2>7. /\ Live(a1) /\ Alike(v, a1) /\ Content(a1) = Plus(Content(v), x1)
        /\ a1.file = WrittenIn(v.file, FileOf(v), x1) /\ OffFile(v.file, a1.file, FileOf(v))
    BY ONLY <2>4, WritesIs
  <2>8. /\ a1.h = v.h /\ a1.cur = v.cur /\ a1.dirs = v.dirs
        /\ ManOf(a1) = ManOf(v) /\ FileOf(a1) = FileOf(v)
    BY <2>7 DEF Alike
  <2>9. a1.file[f1].live = c1
    <3>1. Content(a1) = a1.file[FileOf(a1)].live
      BY DEF Content
    <3> QED BY <1>q10, <2>1, <2>7, <2>8, <3>1 DEF Plus
  <2>10. ManifestAt(a1.file, hd1.gen) = m1
    <3>1. ManOf(a1) = ManifestAt(a1.file, a1.h.gen)
      BY DEF ManOf
    <3> QED BY <1>q1, <2>1, <2>8, <3>1
  <2>11. Top(a1) = Top(v) /\ a1.mode = "open" /\ a1.next = {}
    BY <2>7, <2>8 DEF Live, Top
  <2> QED BY <1>q1, <2>1, <2>6, <2>7, <2>8, <2>9, <2>10, <2>11
<1>12. AllLead(a1.file, a1.dirs, hd1.gen, StableLog(t1))
  <2>1. StableLog(t1) = StableLog(s1)
    <3>1. \A i \in 1..t1.stable - 1 : t1.log[i] = s1.log[i]
      <4>1. s1.stable \in Nat /\ s1.stable <= Len(s1.log) + 1
        BY <1>3, LogIs
      <4> QED BY <1>2, <1>4, <4>1
    <3> QED BY <1>3, <1>4, <3>1, StableSame
  <2> DEFINE F == v.file
             g == hd1.gen
             ds == v.dirs
             u == StableLog(s1)
             G == a1.file
  <2>2. /\ AreFiles(F) /\ g # 0 /\ AllLead(F, ds, g, u) /\ m1 = ManifestAt(F, g)
        /\ f1 = Part(m1.active.id) /\ IsPrefix(F[f1].hard, F[f1].live)
        /\ GoodActive(m1.active, m1.rev, Append(F[f1].live, x1), u)
        /\ G = WrittenIn(F, f1, x1)
    BY <1>1, <1>2, <1>9, <1>10, <1>q1, <1>q2, <1>q10 DEF Good
  <2> HIDE DEF F, g, ds, u, G
  <2>3. AllLead(G, ds, g, u)
    BY <2>2, WrittenLeads
  <2> QED BY <1>10, <2>1, <2>3 DEF G, ds, g, u
<1>13. /\ IsSeq(c1) /\ Len(c1) = len1 /\ Len(b1) >= 2 /\ c1[len1] = x1
       /\ GoodPart(d1, c1, len1, t1.log) /\ Expected(d1, c1, len1) = end1
  <2> DEFINE n == Len(b1)
             o == hd1.end
             l == s1.log
             new == t1.log
  <2>1. /\ GoodPart(d1, b1, n, l) /\ d1.first \in Nat /\ o = Expected(d1, b1, n)
        /\ Len(new) \in Nat /\ o <= Len(new) + 1
    BY <1>1, <1>2, <1>4
  <2>2. \A i \in d1.first..o - 1 : new[i] = l[i]
    BY <1>2, <1>4
  <2>3. /\ x1.t = "batch" /\ x1.first = o /\ x1.recs = recs /\ Len(x1.recs) \in Nat \ {0} /\ 1 <= o
        /\ o + Len(x1.recs) <= Len(new) + 1 /\ Len(x1.recs) = k1
    BY <1>2, <1>4, <1>5, <1>q3
  <2>4. \A j \in 1..Len(x1.recs) : new[o + j - 1] = x1.recs[j]
    <3>1. \A j \in 1..k1 : o + j - 1 = Len(s1.log) + j
      BY <1>2, <1>4
    <3> QED BY <1>4, <2>3, <3>1
  <2> HIDE DEF n, o, l, new
  <2>5. n = Len(b1) /\ len1 = n + 1 /\ end1 = o + k1
    BY <1>1, <1>q9 DEF n, o
  <2>6. Continues(d1, b1, l, o, x1, new)
    BY <2>1, <2>2, <2>3, <2>4, <2>5 DEF Continues
  <2>7. Holds(d1, c1, o + Len(x1.recs), new) /\ Len(c1) = n + 1 /\ c1[n + 1] = x1 /\ n >= 2
    <3>1. c1 = Plus(b1, x1)
      BY <1>q10 DEF Plus
    <3> QED BY ONLY <3>1, <2>3, <2>5, <2>6, WholeMore
  <2> QED BY ONLY <2>3, <2>5, <2>7 DEF Holds, n, o, new
<1>14. Whole(a1.file, r1, t1.log)
  <2>1. r1.parts[Len(r1.parts)] = d1 /\ Part(d1.id) = f1
    BY <1>8, <1>q2 DEF ActiveFile
  <2>2. IsPrefix(a1.file[f1].hard, a1.file[f1].live)
    BY <1>10, <1>q2 DEF Live
  <2> QED BY <1>8, <1>10, <1>13, <2>1, <2>2 DEF Whole
<1>15. Finds(a1.file, Top(a1), r1, t1.log)
  <2>1. Finds(a1.file, Top(a1), hd1, s1.log)
    BY <1>10 DEF Live
  <2>2. /\ \A p \in 1..Len(hd1.parts) :
              LET y == Part(hd1.parts[p].id)
              IN hd1.parts[p].id \in Top(a1).part /\ y \in DOMAIN a1.file
        /\ Linked(hd1.dir, hd1.first, hd1.end) /\ IsSeq(hd1.dir) /\ IsSeq(hd1.parts)
    BY <2>1 DEF Finds, Linked, Counts
  <2>3. ASSUME NEW i \in 1..Len(hd1.dir)
        PROVE  /\ hd1.dir[i].part \in 1..Len(hd1.parts)
               /\ Locates(a1.file[Part(hd1.parts[hd1.dir[i].part].id)].live, hd1.dir[i], t1.log)
    <3> DEFINE y == hd1.dir[i]
               c == a1.file[Part(hd1.parts[y.part].id)].live
               l == s1.log
               new == t1.log
    <3>1. y.part \in 1..Len(hd1.parts) /\ Locates(c, y, l)
      BY <2>1 DEF Finds
    <3>2. hd1.first <= y.first /\ EndOf(y) <= hd1.end
      BY <2>2, LinkedRange
    <3> HIDE DEF y, c
    <3>3. y.first \in Nat /\ EndOf(y) \in Nat /\ Len(c) \in Nat
      <4>1. y.first \in Nat /\ EndOf(y) \in Nat
        BY <3>1, LocatesIs
      <4>2. Len(c) \in Nat
        BY <3>1 DEF Locates
      <4> QED BY <4>1, <4>2
    <3>4. hd1.first \in Nat \ {0}
      BY <1>3, LogIs DEF Matches
    <3>5. \A j \in y.first..EndOf(y) - 1 : j \in 1..Len(s1.log)
      BY <1>2, <3>2, <3>3, <3>4
    <3>6. \A j \in y.first..EndOf(y) - 1 : new[j] = l[j]
      BY <1>4, <3>5
    <3>7. Longer(c, c)
      BY <3>3, LongerSelf
    <3> HIDE DEF new, l
    <3>8. Locates(c, y, new)
      BY <3>1, <3>6, <3>7, LocatesMore
    <3> QED BY <3>1, <3>8 DEF y, c, new
  <2>4. e1.first = hd1.end /\ e1.count = k1 /\ e1.pos = len1 /\ e1.part = hd1.active
        /\ e1 = Entry(e1.first, e1.count, e1.pos, e1.part)
    BY <1>q8 DEF Entry
  <2>5. Linked(dir1, hd1.first, end1)
    <3>1. Linked(Append(hd1.dir, e1), hd1.first, EndOf(e1))
      BY <1>4, <2>2, <2>4, LinkedAppend
    <3> QED BY <1>q9, <2>4, <3>1 DEF EndOf
  <2>6. Locates(c1, e1, t1.log)
    <3>1. e1.first \in Nat /\ e1.count \in Nat \ {0} /\ e1.pos \in 3..Len(c1) /\ c1[e1.pos] = x1
      BY <1>1, <1>2, <1>4, <1>13, <1>q9, <2>4
    <3>2. \A j \in 1..e1.count : t1.log[e1.first + j - 1] = x1.recs[j]
      <4>1. \A j \in 1..k1 : e1.first + j - 1 = Len(s1.log) + j
        BY <1>2, <1>4, <2>4
      <4> QED BY <1>4, <1>5, <2>4, <4>1
    <3>3. Len(x1.recs) = e1.count
      BY <1>5, <1>q3, <2>4
    <3> QED BY <1>5, <2>4, <3>1, <3>2, <3>3 DEF Locates
  <2>7. hd1.active = Len(hd1.parts) /\ Len(hd1.parts) \in 1..Len(hd1.parts)
        /\ Part(hd1.parts[hd1.active].id) = f1
    BY <1>3, <1>q2, HandleIs DEF ActiveFile
  <2>8. /\ IsSeq(r1.dir) /\ Len(r1.dir) = Len(hd1.dir) + 1 /\ Len(hd1.dir) \in Nat
        /\ \A i \in 1..Len(hd1.dir) : r1.dir[i] = hd1.dir[i]
        /\ r1.dir[Len(hd1.dir) + 1] = e1
    BY <1>8, <1>q9, <2>2, SeqAppend, SeqIs
  <2>9. ASSUME NEW i \in 1..Len(r1.dir)
        PROVE  /\ r1.dir[i].part \in 1..Len(r1.parts)
               /\ Locates(a1.file[Part(r1.parts[r1.dir[i].part].id)].live, r1.dir[i], t1.log)
    <3>1. CASE i \in 1..Len(hd1.dir)
      BY <1>8, <2>3, <2>8, <3>1
    <3>2. CASE i = Len(hd1.dir) + 1
      <4>1. r1.dir[i] = e1 /\ e1.part = Len(hd1.parts)
        BY <2>4, <2>7, <2>8, <3>2
      <4>2. Part(r1.parts[e1.part].id) = f1
        BY <1>8, <2>4, <2>7
      <4>3. Locates(a1.file[f1].live, e1, t1.log)
        BY <1>10, <2>6
      <4> QED BY <1>8, <2>7, <4>1, <4>2, <4>3
    <3>3. i \in 1..Len(hd1.dir) \/ i = Len(hd1.dir) + 1
      BY <2>8
    <3> QED BY <3>1, <3>2, <3>3
  <2> QED BY <1>8, <2>2, <2>5, <2>9 DEF Finds
<1>16. IsHandle(r1)
  <2>1. /\ Chain(hd1.parts, hd1.first) /\ Rising(hd1.parts) /\ hd1.active = Len(hd1.parts)
        /\ InRange(hd1) /\ hd1.gen \in Nat \ {0} /\ hd1.next \in Nat
    BY <1>3 DEF IsHandle
  <2>2. IsSeq(hd1.dir)
    BY <1>1, <1>q1 DEF Live, Finds, Linked, Counts
  <2>3. /\ Len(r1.dir) = Len(hd1.dir) + 1 /\ Len(hd1.dir) \in Nat
        /\ \A i \in 1..Len(hd1.dir) : r1.dir[i] = hd1.dir[i]
        /\ r1.dir[Len(hd1.dir) + 1] = e1
    BY <1>8, <1>q9, <2>2, SeqAppend, SeqIs
  <2>4. Within(hd1.parts, e1)
    <3>1. e1.first = hd1.end /\ e1.part = Len(hd1.parts)
      BY <1>q8, <2>1 DEF Entry
    <3>2. hd1.parts[Len(hd1.parts)].first <= hd1.end /\ Len(hd1.parts) \in 1..Len(hd1.parts)
          /\ Len(hd1.parts) \in Nat
      BY <1>2, <1>3, <1>q2, HandleIs
    <3> QED BY <3>1, <3>2 DEF Within
  <2>5. InRange(r1)
    <3>1. ASSUME NEW i \in 1..Len(r1.dir)
          PROVE  Within(r1.parts, r1.dir[i])
      <4>1. CASE i \in 1..Len(hd1.dir)
        BY <1>8, <2>1, <2>3, <4>1 DEF InRange
      <4>2. CASE i = Len(hd1.dir) + 1
        BY <1>8, <2>3, <2>4, <4>2
      <4> QED BY <2>3, <4>1, <4>2
    <3> QED BY <3>1 DEF InRange
  <2>6. TRUE \in BOOLEAN /\ (~TRUE => hd1.stable = end1)
    OBVIOUS
  <2> QED BY <1>7, <2>1, <2>5, <2>6, HandleIntro
<1>17. w1.file = a1.file /\ w1.dirs = a1.dirs /\ w1.mode = "open" /\ w1.h = r1 /\ w1.cur = t1 /\ w1.next = {}
       /\ Top(w1) = Top(a1)
  BY <1>q7, WorldIs DEF Top
<1>18. Matches(r1, t1)
  BY <1>2, <1>3, <1>4, <1>8, <1>q9 DEF Matches
<1>19. Describes(ManifestAt(a1.file, r1.gen), r1)
  <2>1. Describes(m1, hd1)
    BY <1>q1, <1>q2 DEF Good
  <2> QED BY <1>8, <1>10, <2>1 DEF Describes
<1>20. \A p \in 1..Len(r1.parts) : r1.parts[p].id < r1.next
  BY <1>8, <1>q1 DEF Good
<1>21. Good(w1)
  <2>1. AllLead(w1.file, w1.dirs, w1.h.gen, StableLog(w1.cur))
    BY <1>8, <1>12, <1>17
  <2>2. Describes(ManifestAt(w1.file, w1.h.gen), w1.h) /\ Finds(w1.file, Top(w1), w1.h, w1.cur.log)
        /\ Whole(w1.file, w1.h, w1.cur.log)
    BY <1>14, <1>15, <1>17, <1>19
  <2> QED BY <1>4, <1>16, <1>17, <1>18, <1>20, <2>1, <2>2 DEF Good
<1>22. Steady(w1)
  <2>1. AreFiles(w1.file)
    BY <1>10, <1>17 DEF Live
  <2> QED BY <1>21, <2>1, GoodLive, LiveSteady
<1>23. Steady(a1)
  BY <1>10, LiveSteady
<1>24. Via(a1, <<Return(r1, t1)>>, w1)
  <2>1. Tells(a1, t1)
    BY <1>4, <1>10 DEF Tells
  <2> QED BY <1>22, <1>q7, <2>1, StepReturn
<1>25. Via(a1, <<Alloc(TRUE)>>, a1)
  BY <1>10, <1>23, StepAlloc DEF Live
<1>26. Via(v, <<WriteCall(f1, x1)>> \o (<<Alloc(TRUE)>> \o <<Return(r1, t1)>>), w1)
  BY <1>10, <1>24, <1>25, ViaThen
<1> QED BY <1>6, <1>21, <1>26, ViaSound

\* Files, tables, handle and log between two operations.
GoodAs(F, ds, hd, s) ==
    /\ AreFiles(F) /\ IsLog(s) /\ IsHandle(hd) /\ Matches(hd, s)
    /\ \A p \in 1..Len(hd.parts) : hd.parts[p].id < hd.next
    /\ AllLead(F, ds, hd.gen, StableLog(s))
    /\ Describes(ManifestAt(F, hd.gen), hd)
    /\ Finds(F, Last(ds), hd, s.log)
    /\ Whole(F, hd, s.log)

\* A disk, handle and log that agree make a good world.
LEMMA GoodIntro ==
    ASSUME NEW F, NEW ds, NEW hd, NEW s, GoodAs(F, ds, hd, s)
    PROVE  /\ Good(World(F, ds, "open", hd, s, {}))
           /\ Steady(World(F, ds, "open", hd, s, {}))
<1> DEFINE w == World(F, ds, "open", hd, s, {})
<1>1. /\ w.file = F /\ w.dirs = ds /\ w.mode = "open" /\ w.h = hd /\ w.cur = s /\ w.next = {}
      /\ Top(w) = Last(ds)
  BY WorldIs
<1> HIDE DEF w
<1>2. /\ AreFiles(F) /\ IsLog(s) /\ IsHandle(hd) /\ Matches(hd, s)
      /\ \A p \in 1..Len(hd.parts) : hd.parts[p].id < hd.next
      /\ AllLead(F, ds, hd.gen, StableLog(s))
      /\ Describes(ManifestAt(F, hd.gen), hd)
      /\ Finds(F, Last(ds), hd, s.log)
      /\ Whole(F, hd, s.log)
  BY DEF GoodAs
<1>3. Good(w)
  BY <1>1, <1>2 DEF Good
<1>4. Steady(w)
  BY <1>1, <1>2, <1>3, GoodLive, LiveSteady
<1> QED BY <1>3, <1>4 DEF w

\* fdatasync of the active part.
Fsyncs(v, w) == Live(v) /\ w = With(v, FsyncedIn(v.file, FileOf(v)), v.dirs)

\* Log t is log s, of which as much is stable as content c marks.
Firms(v, c, t) ==
    /\ IsLog(t) /\ t.first = v.cur.first /\ t.rev = v.cur.rev /\ t.log = v.cur.log
    /\ GoodActive(ManOf(v).active, ManOf(v).rev, c, t)

\* What syncing the active file changes.
LEMMA FsyncsIs ==
    ASSUME NEW v, NEW w, Fsyncs(v, w)
    PROVE  /\ Live(w) /\ Alike(v, w) /\ Content(w) = Content(v) /\ Durable(w) = Content(v)
           /\ OffFile(v.file, w.file, FileOf(v)) /\ FileOf(v) \in DOMAIN w.file
           /\ StepOK(FsyncCall(FileOf(v)), v, w)
           /\ Via(v, <<FsyncCall(FileOf(v))>>, w)
           /\ \A t : Firms(v, Content(v), t) => AllLead(w.file, w.dirs, w.h.gen, t)
<1>0. SUFFICES ASSUME NEW m1, m1 = ManifestAt(v.file, v.h.gen), NEW f1, f1 = ActiveFile(v.h)
              PROVE  /\ Live(w) /\ Alike(v, w) /\ Content(w) = Content(v)
                     /\ Durable(w) = Content(v)
                     /\ OffFile(v.file, w.file, FileOf(v)) /\ FileOf(v) \in DOMAIN w.file
                     /\ StepOK(FsyncCall(FileOf(v)), v, w)
                     /\ Via(v, <<FsyncCall(FileOf(v))>>, w)
                     /\ \A t : Firms(v, Content(v), t) => AllLead(w.file, w.dirs, w.h.gen, t)
  OBVIOUS
<1>1. m1 = ManifestAt(v.file, v.h.gen) /\ f1 = ActiveFile(v.h)
  BY <1>0
<1>2. Live(v) /\ w = With(v, FsyncedIn(v.file, f1), v.dirs)
  BY <1>1 DEF Fsyncs, FileOf
<1>3. /\ Live(w) /\ w.h = v.h /\ w.cur = v.cur /\ w.dirs = v.dirs /\ Top(w) = Top(v)
      /\ w.file[f1].live = v.file[f1].live /\ w.file[f1].hard = v.file[f1].live
      /\ OffFile(v.file, w.file, f1) /\ ManifestAt(w.file, w.h.gen) = m1
      /\ StepOK(FsyncCall(f1), v, w) /\ Via(v, <<FsyncCall(f1)>>, w)
  BY <1>1, <1>2, LiveFsynced
<1>4. \A t : /\ IsLog(t) /\ t.first = v.cur.first /\ t.rev = v.cur.rev /\ t.log = v.cur.log
             /\ GoodActive(m1.active, m1.rev, v.file[f1].live, t)
             => AllLead(w.file, w.dirs, w.h.gen, t)
  BY <1>1, <1>2, LiveFsynced
<1>5. f1 = FileOf(v) /\ m1 = ManOf(v)
  BY <1>1 DEF FileOf, ManOf
<1>6. FileOf(w) = f1 /\ ManOf(w) = m1
  BY <1>1, <1>3 DEF FileOf, ManOf
<1>7. Content(v) = v.file[f1].live
  BY <1>5 DEF Content
<1>8. Content(w) = w.file[f1].live /\ Durable(w) = w.file[f1].hard
  BY <1>6 DEF Content, Durable
<1>9. Alike(v, w)
  BY <1>3, <1>5, <1>6 DEF Alike
<1>10. f1 \in DOMAIN w.file
  BY <1>3, <1>6, LiveIs DEF FileOf
<1>11. \A t : Firms(v, Content(v), t) => AllLead(w.file, w.dirs, w.h.gen, t)
  BY <1>4, <1>5, <1>7 DEF Firms
<1> QED BY <1>3, <1>5, <1>7, <1>8, <1>9, <1>10, <1>11

\* After sync: the plan leads from v to w.
Syncs(v, w) ==
    /\ Via(v, SyncPlan(v.h, v.cur), w) /\ Good(w) /\ Steady(w)
    /\ w.h = Synced(v.h) /\ w.cur = SyncedLog(v.cur) /\ w.dirs = v.dirs
    /\ FileOf(w) = FileOf(v) /\ ManOf(w) = ManOf(v)

\* A dirty handle gets its marker, durable before the call returns.
LEMMA SyncDirty ==
    ASSUME NEW v, Good(v), Steady(v), v.h.dirty
    PROVE  \E w : Syncs(v, w)
<1>0. SUFFICES ASSUME NEW hd1, hd1 = v.h, NEW s1, s1 = v.cur, NEW m1, m1 = ManOf(v),
                    NEW f1, f1 = FileOf(v), NEW b1, b1 = Content(v),
                    NEW d1, d1 = hd1.parts[Len(hd1.parts)],
                    NEW x1, x1 = Marker(d1.id, hd1.rev, hd1.end),
                    NEW c1, c1 = Plus(b1, x1), NEW t1, t1 = SyncedLog(s1),
                    NEW r1, r1 = Synced(hd1),
                    NEW a1, a1 = With(v, WrittenIn(v.file, f1, x1), v.dirs),
                    NEW z1, z1 = With(a1, FsyncedIn(a1.file, FileOf(a1)), a1.dirs),
                    NEW w1, w1 = World(z1.file, z1.dirs, "open", r1, t1, {})
             PROVE  Syncs(v, w1)
  OBVIOUS
<1>q1. hd1 = v.h /\ s1 = v.cur
  BY <1>0
<1>q2. m1 = ManOf(v) /\ f1 = FileOf(v) /\ b1 = Content(v) /\ d1 = hd1.parts[Len(hd1.parts)]
  BY <1>0
<1>q3. x1 = Marker(d1.id, hd1.rev, hd1.end)
  BY <1>0
<1>q4. c1 = Plus(b1, x1)
  BY <1>0
<1>q5. t1 = SyncedLog(s1) /\ r1 = Synced(hd1)
  BY <1>0
<1>q6. a1 = With(v, WrittenIn(v.file, f1, x1), v.dirs)
  BY <1>0
<1>q7. z1 = With(a1, FsyncedIn(a1.file, FileOf(a1)), a1.dirs)
  BY <1>0
<1>q8. w1 = World(z1.file, z1.dirs, "open", r1, t1, {})
  BY <1>0
<1>1. /\ Live(v) /\ AreFiles(v.file) /\ IsSeq(b1) /\ Len(b1) \in Nat /\ hd1.len = Len(b1)
      /\ GoodPart(d1, b1, Len(b1), s1.log) /\ Expected(d1, b1, Len(b1)) = hd1.end
      /\ GoodPart(m1.active, b1, Len(b1), s1.log) /\ Expected(m1.active, b1, Len(b1)) = hd1.end
      /\ \A j \in 2..Len(b1) : b1[j].t = "marker" => b1[j].rev = m1.rev
  BY <1>q1, <1>q2, GoodIs DEF ManOf, FileOf, Content
<1>2. /\ hd1.gen \in Nat \ {0} /\ f1 = Part(m1.active.id)
      /\ d1.id = m1.active.id /\ d1.first = m1.active.first /\ m1.active.first \in Nat \ {0}
      /\ m1.active.first <= Len(s1.log) + 1 /\ m1.rev = hd1.rev
      /\ Len(s1.log) \in Nat /\ hd1.end = Len(s1.log) + 1
  BY <1>1, <1>q1, <1>q2, LiveIs DEF ManOf, FileOf
<1>3. IsLog(s1) /\ IsHandle(hd1) /\ v.mode = "open" /\ v.next = {} /\ Matches(hd1, s1)
  BY <1>1, <1>q1 DEF Live
<1>4. /\ IsLog(t1) /\ t1.log = s1.log /\ t1.first = s1.first /\ t1.rev = s1.rev
      /\ t1.stable = Len(s1.log) + 1 /\ StableLog(t1) = t1
  BY <1>3, <1>q5, SyncedIs
<1>5. x1.t = "marker" /\ x1.id = d1.id /\ x1.end = hd1.end
  BY <1>q3 DEF Marker
<1>6. hd1.end \in s1.stable..Len(s1.log) + 1 /\ hd1.end \in t1.stable..Len(s1.log) + 1
  <2>1. s1.stable \in Nat /\ s1.stable <= Len(s1.log) + 1
    BY <1>3, LogIs
  <2> QED BY <1>2, <1>4, <2>1
<1>7. /\ GoodActive(m1.active, m1.rev, c1, s1) /\ GoodActive(m1.active, m1.rev, c1, t1)
  <2> DEFINE a == m1.active
             n == Len(b1)
             e == hd1.end
             rev == m1.rev
  <2>1. /\ n = Len(b1) /\ GoodPart(a, b1, n, s1.log) /\ a.first \in Nat /\ Len(s1.log) \in Nat
        /\ \A j \in 2..n : b1[j].t = "marker" => b1[j].rev = rev
        /\ e = Expected(a, b1, n) /\ e \in s1.stable..Len(s1.log) + 1
        /\ e \in t1.stable..Len(t1.log) + 1 /\ t1.log = s1.log
    BY <1>1, <1>2, <1>4, <1>6
  <2>2. c1 = Append(b1, Marker(a.id, rev, e))
    BY <1>2, <1>q3, <1>q4 DEF Plus
  <2> HIDE DEF a, n, e, rev
  <2>3. ActiveUpTo(a, rev, Append(b1, Marker(a.id, rev, e)), n + 1, s1)
    BY <2>1, ActiveMark
  <2>4. ActiveUpTo(a, rev, Append(b1, Marker(a.id, rev, e)), n + 1, t1)
    BY <2>1, ActiveMark
  <2>5. GoodActive(a, rev, c1, s1) /\ GoodActive(a, rev, c1, t1)
    BY <2>2, <2>3, <2>4, ActivePick
  <2> QED BY <2>5 DEF a, rev
<1>8. Writes(v, x1, a1)
  BY <1>1, <1>7, <1>q1, <1>q2, <1>q4, <1>q6 DEF Writes
<1>9. Via(v, <<WriteCall(f1, x1)>>, a1)
  <2>1. PutsIn(v, x1, WriteCall(f1, x1))
    BY <1>q2 DEF PutsIn
  <2> QED BY <1>8, <2>1, WritesStep
<1>10. /\ Live(a1) /\ Alike(v, a1) /\ Content(a1) = c1 /\ OffFile(v.file, a1.file, f1)
       /\ a1.h = hd1 /\ a1.cur = s1 /\ a1.dirs = v.dirs /\ ManOf(a1) = m1 /\ FileOf(a1) = f1
  <2>1. /\ Live(a1) /\ Alike(v, a1) /\ Content(a1) = Plus(Content(v), x1)
        /\ OffFile(v.file, a1.file, FileOf(v))
    BY <1>8, WritesIs
  <2> QED BY <1>q1, <1>q2, <1>q4, <2>1 DEF Alike
<1>11. Fsyncs(a1, z1)
  BY <1>10, <1>q7 DEF Fsyncs
<1>12. /\ Live(z1) /\ Alike(a1, z1) /\ Content(z1) = c1 /\ Durable(z1) = c1
       /\ Via(a1, <<FsyncCall(f1)>>, z1)
       /\ z1.h = hd1 /\ z1.cur = s1 /\ z1.dirs = v.dirs /\ ManOf(z1) = m1 /\ FileOf(z1) = f1
       /\ z1.mode = "open" /\ z1.next = {}
  <2>1. /\ Live(z1) /\ Alike(a1, z1) /\ Content(z1) = Content(a1) /\ Durable(z1) = Content(a1)
        /\ Via(a1, <<FsyncCall(FileOf(a1))>>, z1)
    BY <1>11, FsyncsIs
  <2>2. z1.mode = "open" /\ z1.next = {}
    BY <2>1 DEF Live
  <2> QED BY <1>10, <2>1, <2>2 DEF Alike
<1>13. AllLead(z1.file, z1.dirs, hd1.gen, t1)
  <2>1. Firms(a1, Content(a1), t1)
    BY <1>4, <1>7, <1>10 DEF Firms
  <2>2. AllLead(z1.file, z1.dirs, z1.h.gen, t1)
    BY <1>11, <2>1, FsyncsIs
  <2> QED BY <1>12, <2>2
<1>14. /\ r1.gen = hd1.gen /\ r1.rev = hd1.rev /\ r1.first = hd1.first /\ r1.end = hd1.end
       /\ r1.stable = hd1.end /\ r1.dirty = FALSE /\ r1.next = hd1.next /\ r1.parts = hd1.parts
       /\ r1.active = hd1.active /\ r1.len = hd1.len + 1 /\ r1.dir = hd1.dir
       /\ IsHandle(r1)
  <2> DEFINE l == hd1.len + 1
  <2>1. r1 = HandleOf(hd1.gen, hd1.rev, hd1.first, hd1.end, hd1.end, FALSE, hd1.next,
                      hd1.parts, hd1.active, l, hd1.dir)
    BY <1>3, <1>q1, <1>q5, SyncedHandleIs
  <2> HIDE DEF l
  <2>2. /\ r1.gen = hd1.gen /\ r1.rev = hd1.rev /\ r1.first = hd1.first /\ r1.end = hd1.end
        /\ r1.stable = hd1.end /\ r1.dirty = FALSE /\ r1.next = hd1.next /\ r1.parts = hd1.parts
        /\ r1.active = hd1.active /\ r1.len = l /\ r1.dir = hd1.dir
    BY <2>1 DEF HandleOf
  <2>3. r1 = [gen |-> r1.gen, rev |-> r1.rev, first |-> r1.first, end |-> r1.end,
              stable |-> r1.stable, dirty |-> r1.dirty, next |-> r1.next,
              parts |-> r1.parts, active |-> r1.active, len |-> r1.len, dir |-> r1.dir]
    BY <2>1, <2>2 DEF HandleOf
  <2>4. /\ Chain(hd1.parts, hd1.first) /\ Rising(hd1.parts) /\ hd1.active = Len(hd1.parts)
        /\ hd1.gen \in Nat \ {0} /\ hd1.next \in Nat
        /\ \A i \in 1..Len(hd1.dir) : Within(hd1.parts, hd1.dir[i])
    BY <1>3 DEF IsHandle, InRange
  <2>5. IsHandle(r1)
    BY <2>2, <2>3, <2>4 DEF IsHandle, InRange
  <2> QED BY <2>2, <2>5 DEF l
<1>15. Matches(r1, t1)
  BY <1>2, <1>3, <1>4, <1>14 DEF Matches
<1>16. \A p \in 1..Len(r1.parts) : r1.parts[p].id < r1.next
  BY <1>14, <1>q1 DEF Good
<1>17. Describes(ManifestAt(z1.file, r1.gen), r1)
  <2>1. Describes(m1, hd1)
    BY <1>12 DEF Live, ManOf
  <2>2. ManifestAt(z1.file, r1.gen) = m1
    BY <1>12, <1>14 DEF ManOf
  <2> QED BY <1>14, <2>1, <2>2 DEF Describes
<1>18. Finds(z1.file, Last(z1.dirs), r1, t1.log)
  <2>1. Finds(z1.file, Last(z1.dirs), hd1, s1.log)
    BY <1>12 DEF Live, Top
  <2> QED BY <1>4, <1>14, <2>1 DEF Finds
<1>19. Holds(d1, c1, hd1.end, s1.log) /\ Len(c1) = hd1.len + 1 /\ IsSeq(c1)
  <2>1. Continues(d1, b1, s1.log, hd1.end, x1, s1.log)
    BY <1>1, <1>2, <1>5 DEF Continues
  <2>2. Holds(d1, c1, hd1.end, s1.log) /\ Len(c1) = Len(b1) + 1
    BY <1>5, <1>q4, <2>1, WholeMore
  <2> QED BY <1>1, <2>2 DEF Holds
<1>20. Whole(z1.file, r1, t1.log)
  <2>1. r1.parts[Len(r1.parts)] = d1 /\ Part(d1.id) = f1
    BY <1>2, <1>14, <1>q2
  <2>2. z1.file[f1].live = c1 /\ z1.file[f1].hard = c1
    BY <1>12 DEF Content, Durable
  <2>3. IsPrefix(c1, c1)
    BY <1>19, PrefixIs, SeqIs
  <2> QED BY <1>4, <1>14, <1>19, <2>1, <2>2, <2>3 DEF Whole, Holds
<1>21. GoodAs(z1.file, z1.dirs, r1, t1)
  <2>1. AreFiles(z1.file)
    BY <1>12 DEF Live
  <2>2. AllLead(z1.file, z1.dirs, r1.gen, StableLog(t1))
    BY <1>4, <1>13, <1>14
  <2> QED BY <1>4, <1>14, <1>15, <1>16, <1>17, <1>18, <1>20, <2>1, <2>2 DEF GoodAs
<1>22. Good(w1) /\ Steady(w1)
  BY <1>21, <1>q8, GoodIntro
<1>23. Via(z1, <<Return(r1, t1)>>, w1)
  <2>1. Tells(z1, t1)
    BY <1>12, <1>q5 DEF Tells
  <2> QED BY <1>22, <1>q8, <2>1, StepReturn
<1>24. Via(v, <<WriteCall(f1, x1)>> \o (<<FsyncCall(f1)>> \o <<Return(r1, t1)>>), w1)
  BY <1>9, <1>12, <1>23, ViaThen
<1>25. SyncPlan(hd1, s1) = <<WriteCall(f1, x1)>> \o (<<FsyncCall(f1)>> \o <<Return(r1, t1)>>)
  <2>1. Active(hd1) = d1 /\ f1 = Part(d1.id)
    BY <1>2, <1>3, <1>q2, HandleIs
  <2>2. hd1.dirty
    BY <1>q1
  <2>3. SyncPlan(hd1, s1) = <<WriteCall(f1, x1), FsyncCall(f1), Return(r1, t1)>>
    BY <1>q3, <1>q5, <2>1, <2>2 DEF SyncPlan
  <2> QED BY ONLY <2>3, Triple
<1>26. /\ w1.h = r1 /\ w1.cur = t1 /\ w1.dirs = v.dirs /\ FileOf(w1) = f1 /\ ManOf(w1) = m1
       /\ Content(w1) = c1 /\ Durable(w1) = c1
  <2>1. w1.file = z1.file /\ w1.dirs = z1.dirs /\ w1.h = r1 /\ w1.cur = t1
    BY <1>q8, WorldIs
  <2>2. FileOf(w1) = f1
    BY <1>12, <1>14, <2>1 DEF FileOf, ActiveFile
  <2>3. ManOf(w1) = m1
    BY <1>12, <1>14, <2>1 DEF ManOf
  <2> QED BY <1>12, <2>1, <2>2, <2>3 DEF Content, Durable
<1> QED BY <1>22, <1>24, <1>25, <1>26, <1>q1, <1>q2, <1>q5 DEF Syncs

---------------------------------------------------------------------------
(* Manifests of handles.                                                   *)

\* The descriptor of an active part as the manifest has it.
Base(q) == Desc(q.id, q.first, q.first)

\* The parts ps of a handle hold log s.
PartsHold(F, d, ps, s) ==
    /\ \A i \in 1..Len(ps) : ps[i].id \in d.part /\ Part(ps[i].id) \in DOMAIN F
    /\ \A i \in 1..Len(ps) - 1 :
          LET f == F[Part(ps[i].id)]
          IN f.live = f.hard /\ GoodSealed(ps[i], f.live, s.log)
    /\ SafeActive(Base(ps[Len(ps)]), s.rev, F[Part(ps[Len(ps)].id)], s)

\* Handle hd is to be published with revision rev.
Publishable(hd, rev) ==
    Chain(hd.parts, hd.first) /\ hd.first \in Nat \ {0} /\ rev \in Nat

\* The manifest made from a publishable handle is good and lists its parts.
LEMMA ManifestOfIs ==
    ASSUME NEW hd, NEW g, NEW rev, Publishable(hd, rev)
    PROVE  /\ GoodManifest(ManifestOf(hd, g, rev)) /\ ManifestOf(hd, g, rev).gen = g
           /\ ManifestOf(hd, g, rev).rev = rev /\ ManifestOf(hd, g, rev).first = hd.first
           /\ IsSeq(ManifestOf(hd, g, rev).sealed)
           /\ Len(ManifestOf(hd, g, rev).sealed) = Len(hd.parts) - 1
           /\ \A i \in 1..Len(hd.parts) - 1 : ManifestOf(hd, g, rev).sealed[i] = hd.parts[i]
           /\ ManifestOf(hd, g, rev).active = Base(hd.parts[Len(hd.parts)])
           /\ Len(hd.parts) \in Nat \ {0}
<1>0. SUFFICES ASSUME NEW m, m = ManifestOf(hd, g, rev), NEW p, p = hd.parts, NEW n, n = Len(p)
              PROVE  /\ GoodManifest(m) /\ m.gen = g /\ m.rev = rev /\ m.first = hd.first
                     /\ IsSeq(m.sealed) /\ Len(m.sealed) = n - 1
                     /\ \A i \in 1..n - 1 : m.sealed[i] = p[i]
                     /\ m.active = Base(p[n]) /\ n \in Nat \ {0}
  OBVIOUS
<1>q1. m = ManifestOf(hd, g, rev) /\ p = hd.parts
  BY <1>0
<1>q2. n = Len(p)
  BY <1>0
<1>1. Chain(p, hd.first) /\ hd.first \in Nat \ {0} /\ rev \in Nat
  BY <1>q1 DEF Publishable
<1>2. /\ IsSeq(p) /\ n > 0 /\ p[1].first = hd.first /\ hd.first \in Nat
      /\ \A i \in 1..n : /\ p[i] = Desc(p[i].id, p[i].first, p[i].end)
                         /\ p[i].id \in Nat /\ p[i].first \in Nat /\ p[i].end \in Nat
      /\ \A i \in 1..n - 1 : p[i].end = p[i + 1].first
      /\ \A i, j \in 1..n : p[i].id = p[j].id => i = j
  BY <1>1, <1>q2 DEF Chain
<1>3. n \in Nat \ {0} /\ n \in 1..n
  BY <1>2, <1>q2, SeqIs
<1> DEFINE k == n - 1
           x == [p[n] EXCEPT !.end = p[n].first]
           ss == SubSeq(p, 1, k)
<1>4. /\ m.t = "manifest" /\ m.gen = g /\ m.rev = rev /\ m.first = hd.first
      /\ m.sealed = ss /\ m.active = x
  BY <1>q1, <1>q2 DEF ManifestOf, Manifest
<1>5. x = Base(p[n])
  <2>1. p[n] = Desc(p[n].id, p[n].first, p[n].end)
    BY <1>2, <1>3
  <2> QED BY <2>1 DEF Desc, Base
<1>6. k \in 0..n
  BY <1>3
<1>7. IsSeq(ss) /\ Len(ss) = k /\ \A i \in 1..k : ss[i] = p[i]
  BY <1>2, <1>6, <1>q2, SeqPrefix
<1> HIDE DEF k, x, ss
<1>8. x.id = p[n].id /\ x.first = p[n].first /\ x.end = p[n].first /\ x = Desc(x.id, x.first, x.end)
  BY <1>5 DEF Base, Desc
<1> DEFINE q == Descs(m)
<1>9. /\ IsSeq(q) /\ Len(q) = k + 1 /\ (\A i \in 1..k : q[i] = p[i]) /\ q[k + 1] = x
  BY <1>4, <1>7, DescsIs
<1>10. k + 1 = n
  BY <1>3 DEF k
<1> HIDE DEF q
<1>11. \A i \in 1..n : q[i].id = p[i].id /\ q[i].first = p[i].first
  <2>1. ASSUME NEW i \in 1..n
        PROVE  q[i].id = p[i].id /\ q[i].first = p[i].first
    <3>1. i \in 1..k \/ i = n
      BY <1>3 DEF k
    <3> QED BY <1>8, <1>9, <1>10, <3>1
  <2> QED BY <2>1
<1>12. ASSUME NEW i \in 1..n
       PROVE  q[i] = Desc(q[i].id, q[i].first, q[i].end) /\ q[i].end \in Nat
  <2>1. i \in 1..k \/ i = n
    BY <1>3 DEF k
  <2> QED BY <1>2, <1>3, <1>8, <1>9, <1>10, <2>1
<1>13. ASSUME NEW i \in 1..n - 1
       PROVE  q[i].end = q[i + 1].first
  <2>1. i \in 1..k /\ i + 1 \in 1..n
    BY <1>3 DEF k
  <2> QED BY <1>2, <1>9, <1>11, <2>1
<1>14. Chain(q, hd.first)
  <2>1. 1 \in 1..n
    BY <1>3
  <2>2. Len(q) = n /\ IsSeq(q) /\ n > 0 /\ q[1].first = hd.first /\ hd.first \in Nat
    BY <1>2, <1>9, <1>10, <1>11, <2>1
  <2>3. \A i \in 1..n : q[i].id \in Nat /\ q[i].first \in Nat
    BY <1>2, <1>11
  <2>4. \A i, j \in 1..n : q[i].id = q[j].id => i = j
    BY <1>2, <1>11
  <2> QED BY <1>12, <1>13, <2>2, <2>3, <2>4 DEF Chain
<1>15. GoodManifest(m)
  <2>1. m.active.end = m.active.first /\ IsSeq(m.sealed)
    BY <1>4, <1>7, <1>8
  <2>2. Chain(Descs(m), m.first)
    BY <1>4, <1>14 DEF q
  <2> QED BY <1>1, <1>4, <2>1, <2>2, ManifestIntro
<1> QED BY <1>3, <1>4, <1>5, <1>7, <1>15 DEF k

\* Manifest m is that of every handle with the parts of hd.
Portrays(m, hd) ==
    \A x : x.parts = hd.parts /\ x.first = hd.first /\ x.rev = m.rev => Describes(m, x)

\* The parts of handle hd hold log s, and m is its manifest of generation g.
Renders(F, d, hd, s, g, m) ==
    /\ Publishable(hd, s.rev) /\ hd.first = s.first
    /\ PartsHold(F, d, hd.parts, s) /\ m = ManifestOf(hd, g, s.rev)

\* A handle whose parts hold log s is published as a manifest that is ready.
LEMMA ReadyOf ==
    ASSUME NEW F, NEW d, NEW hd, NEW s, NEW g, NEW m, Renders(F, d, hd, s, g, m)
    PROVE  Ready(F, d, m, s) /\ m.gen = g /\ m.rev = s.rev /\ Portrays(m, hd)
<1>0. SUFFICES ASSUME NEW p, p = hd.parts, NEW n, n = Len(p)
              PROVE  Ready(F, d, m, s) /\ m.gen = g /\ m.rev = s.rev /\ Portrays(m, hd)
  OBVIOUS
<1>q1. m = ManifestOf(hd, g, s.rev) /\ p = hd.parts
  BY <1>0 DEF Renders
<1>h. Publishable(hd, s.rev) /\ hd.first = s.first /\ PartsHold(F, d, hd.parts, s)
  BY DEF Renders
<1>q2. n = Len(p)
  BY <1>0
<1>1. /\ GoodManifest(m) /\ m.gen = g /\ m.rev = s.rev /\ m.first = hd.first
      /\ IsSeq(m.sealed) /\ Len(m.sealed) = n - 1
      /\ \A i \in 1..n - 1 : m.sealed[i] = p[i]
      /\ m.active = Base(p[n]) /\ n \in Nat \ {0}
  BY <1>h, <1>q1, <1>q2, ManifestOfIs
<1>2. m.active.id = p[n].id /\ m.active.first = p[n].first
  BY <1>1 DEF Base, Desc
<1>3. /\ \A i \in 1..n : p[i].id \in d.part /\ Part(p[i].id) \in DOMAIN F
      /\ \A i \in 1..n - 1 :
            LET f == F[Part(p[i].id)]
            IN f.live = f.hard /\ GoodSealed(p[i], f.live, s.log)
      /\ SafeActive(Base(p[n]), s.rev, F[Part(p[n].id)], s)
  BY <1>h, <1>q1, <1>q2 DEF PartsHold
<1>4. ASSUME NEW id \in Referenced(m)
      PROVE  id \in d.part /\ Part(id) \in DOMAIN F
  <2>1. \E i \in 1..n : id = p[i].id
    <3>1. CASE id = m.active.id
      BY <1>1, <1>2, <3>1
    <3>2. CASE \E i \in 1..Len(m.sealed) : id = m.sealed[i].id
      <4>1. PICK i \in 1..Len(m.sealed) : id = m.sealed[i].id
        BY <3>2
      <4>2. i \in 1..n - 1 /\ i \in 1..n
        BY <1>1
      <4> QED BY <1>1, <4>1, <4>2
    <3> QED BY <3>1, <3>2 DEF Referenced
  <2> QED BY <1>3, <2>1
<1>5. \A i \in 1..Len(m.sealed) :
          LET f == F[Part(m.sealed[i].id)]
          IN f.live = f.hard /\ GoodSealed(m.sealed[i], f.live, s.log)
  BY <1>1, <1>3
<1>6. SafeActive(m.active, m.rev, F[Part(m.active.id)], s)
  BY <1>1, <1>2, <1>3
<1>7. Ready(F, d, m, s)
  BY <1>h, <1>1, <1>4, <1>5, <1>6 DEF Ready
<1>8. ASSUME NEW x, x.parts = p, x.first = hd.first, x.rev = s.rev
      PROVE  Describes(m, x)
  <2>1. Len(m.sealed) + 1 = n
    BY <1>1
  <2> QED BY <1>1, <1>2, <1>8, <1>q2, <2>1 DEF Describes
<1>9. Portrays(m, hd)
  BY <1>1, <1>8, <1>q1 DEF Portrays
<1> QED BY <1>1, <1>7, <1>9

\* The parts of a manifest that is ready hold its log.
LEMMA PartsHoldIs ==
    ASSUME NEW F, NEW d, NEW m, NEW s, Ready(F, d, m, s), NEW hd, Describes(m, hd)
    PROVE  PartsHold(F, d, hd.parts, s)
<1>0. SUFFICES ASSUME NEW p, p = hd.parts, NEW n, n = Len(p)
              PROVE  PartsHold(F, d, p, s)
  OBVIOUS
<1>q1. p = hd.parts
  BY <1>0
<1>q2. n = Len(p)
  BY <1>0
<1>1. /\ IsSeq(m.sealed) /\ n = Len(m.sealed) + 1 /\ \A i \in 1..Len(m.sealed) : m.sealed[i] = p[i]
      /\ m.active.id = p[n].id /\ m.active.first = p[n].first
  BY <1>q1, <1>q2 DEF Describes
<1>2. Len(m.sealed) \in Nat
  BY <1>1, SeqIs
<1>3. /\ GoodManifest(m) /\ m.rev = s.rev /\ Referenced(m) \subseteq d.part
      /\ \A id \in Referenced(m) : Part(id) \in DOMAIN F
      /\ \A i \in 1..Len(m.sealed) :
          LET f == F[Part(m.sealed[i].id)]
          IN f.live = f.hard /\ GoodSealed(m.sealed[i], f.live, s.log)
      /\ SafeActive(m.active, m.rev, F[Part(m.active.id)], s)
  BY DEF Ready
<1>4. m.active = Base(p[n])
  <2>1. m.active = Desc(m.active.id, m.active.first, m.active.end) /\ m.active.end = m.active.first
    BY <1>3 DEF GoodManifest
  <2> QED BY <1>1, <2>1 DEF Base
<1>5. ASSUME NEW i \in 1..n
      PROVE  p[i].id \in d.part /\ Part(p[i].id) \in DOMAIN F
  <2>1. p[i].id \in Referenced(m)
    <3>1. CASE i = n
      BY <1>1, <3>1 DEF Referenced
    <3>2. CASE i \in 1..Len(m.sealed)
      BY <1>1, <3>2 DEF Referenced
    <3>3. i = n \/ i \in 1..Len(m.sealed)
      BY <1>1, <1>2
    <3> QED BY <3>1, <3>2, <3>3
  <2> QED BY <1>3, <2>1
<1>6. \A i \in 1..n - 1 :
          LET f == F[Part(p[i].id)]
          IN f.live = f.hard /\ GoodSealed(p[i], f.live, s.log)
  BY <1>1, <1>2, <1>3
<1>7. SafeActive(Base(p[n]), s.rev, F[Part(p[n].id)], s)
  BY <1>1, <1>3, <1>4
<1> QED BY <1>5, <1>6, <1>7, <1>q2 DEF PartsHold

\* The content of a new part.
Fresh(id, rev, e) == <<Header(id, rev, e), Marker(id, rev, e)>>

\* A newly created part holds nothing and is good as an active part.
LEMMA FreshIs ==
    ASSUME NEW id, NEW rev, NEW e \in Nat, NEW d, d.id = id, d.first = e
    PROVE  /\ Len(Fresh(id, rev, e)) = 2 /\ IsSeq(Fresh(id, rev, e))
           /\ \A log : Holds(d, Fresh(id, rev, e), e, log)
           /\ \A s : e \in s.stable..Len(s.log) + 1 =>
                 GoodActive(d, rev, Fresh(id, rev, e), s)
<1> DEFINE c == Fresh(id, rev, e)
           x == Header(id, rev, e)
           y == Marker(id, rev, e)
<1>1. c \in Seq({x, y}) /\ Len(c) = 2 /\ c[1] = x /\ c[2] = y
  BY DEF Fresh
<1>2. IsSeq(c)
  BY <1>1, SeqTyped
<1>3. x.t = "header" /\ x.id = id /\ x.first = e /\ y.t = "marker" /\ y.id = id /\ y.end = e /\ y.rev = rev
  BY DEF Header, Marker
<1> HIDE DEF c, x, y
<1>4. ScanHead(d, c, TRUE, 0)
  BY <1>1, <1>3 DEF ScanHead
<1>5. 3..2 = {} /\ 2 \in 2..2 /\ 2 \in Nat /\ 2 >= 2
  OBVIOUS
<1>6. \A log : GoodPart(d, c, 2, log)
  BY <1>1, <1>2, <1>4, <1>5 DEF GoodPart, ScanBatches
<1>7. Expected(d, c, 2) = e
  <2>1. Counted(d, c, 2)
    BY <1>5 DEF Counted
  <2>2. Expected(d, c, 2) = d.first
    BY <1>5, <2>1, ExpectedStep
  <2> QED BY <2>2
<1>8. \A log : Holds(d, c, e, log)
  BY <1>1, <1>2, <1>6, <1>7 DEF Holds
<1>9. ASSUME NEW s, e \in s.stable..Len(s.log) + 1
      PROVE  GoodActive(d, rev, c, s)
  <2>1. \A j \in 2..Len(c) : j = 2
    BY <1>1
  <2>2. \A j \in 2..Len(c) : c[j].t = "marker" => j <= 2 /\ c[j].id = d.id /\ c[j].rev = rev
    BY <1>1, <1>3, <2>1
  <2>3. 2 \in 2..Len(c) /\ GoodPart(d, c, 2, s.log) /\ c[2].t = "marker" /\ c[2].end = e
    BY <1>1, <1>3, <1>5, <1>6
  <2> QED BY <1>9, <2>2, <2>3 DEF GoodActive
<1> QED BY <1>1, <1>2, <1>8, <1>9 DEF c

\* Item x is the footer of the part with content b.
Seals(d, b, e, x) ==
    /\ x.t = "footer" /\ x.id = d.id /\ x.first = d.first /\ x.end = e
    /\ x.digest = Tail(b)

\* A part that holds the log and is sealed is a good sealed part.
LEMMA SealedFrom ==
    ASSUME NEW d, NEW b, NEW e, NEW log, Holds(d, b, e, log), d.first \in Nat,
           d.first < e, Len(log) \in Nat, e <= Len(log) + 1, NEW x, Seals(d, b, e, x)
    PROVE  GoodSealed(Desc(d.id, d.first, e), Plus(b, x), log)
<1> DEFINE c == Plus(b, x)
           q == Desc(d.id, d.first, e)
           n == Len(b)
<1>1. GoodPart(d, b, n, log) /\ e = Expected(d, b, n) /\ IsSeq(b)
  BY DEF Holds
<1>2. n \in Nat /\ n >= 2
  BY <1>1, GoodCounted
<1>3. /\ IsSeq(c) /\ Len(c) = n + 1 /\ c[n + 1] = x /\ \A i \in 1..n : c[i] = b[i]
  BY <1>1, SeqAppend DEF Plus
<1>4. q.id = d.id /\ q.first = d.first /\ q.end = e
  BY DEF Desc
<1> HIDE DEF c, q, n
<1>5. GoodPart(q, c, n, log) /\ Expected(q, c, n) = e
  <2>1. /\ GoodPart(d, b, n, log) /\ d.first \in Nat /\ q.id = d.id /\ q.first = d.first
        /\ IsSeq(c) /\ n <= Len(c) /\ \A k \in 1..n : c[k] = b[k]
    BY <1>1, <1>2, <1>3, <1>4
  <2>2. /\ Len(log) \in Nat /\ Expected(d, b, n) <= Len(log) + 1
        /\ \A i \in d.first..Expected(d, b, n) - 1 : log[i] = log[i]
    BY <1>1
  <2> QED BY <1>1, <2>1, <2>2, GoodSame
<1>6. Len(c) - 1 = n /\ Len(c) >= 3 /\ n + 1 \in Nat
  BY <1>2, <1>3
<1>7. ScanSealed(q, c)
  <2>1. ScanHead(q, c, TRUE, 0) /\ ScanBatches(q, c, n, TRUE, 0)
    BY <1>5 DEF GoodPart
  <2>2. c[n + 1].t = "footer" /\ c[n + 1].id = q.id /\ c[n + 1].first = q.first /\ c[n + 1].end = q.end
    BY <1>3, <1>4 DEF Seals
  <2> QED BY <1>4, <1>5, <1>6, <2>1, <2>2 DEF ScanSealed
<1>8. c[Len(c)].digest = SubSeq(c, 2, Len(c) - 1)
  <2>1. c[Len(c)].digest = Tail(b)
    BY <1>3 DEF Seals
  <2>2. IsSeq(Tail(b)) /\ Len(Tail(b)) = n - 1 /\ \A i \in 1..n - 1 : Tail(b)[i] = b[i + 1]
    <3>1. b # << >>
      BY <1>2, SeqEmpty DEF n
    <3> QED BY <1>1, <3>1, SeqTail DEF n
  <2>3. IsSeq(SubSeq(c, 2, n)) /\ Len(SubSeq(c, 2, n)) = n - 1
        /\ \A i \in 1..n - 1 : SubSeq(c, 2, n)[i] = c[i + 1]
    <3>1. 2 \in Nat \ {0} /\ n <= Len(c) /\ 2 <= n + 1 /\ n - 2 + 1 = n - 1
      BY <1>2, <1>3
    <3>2. \A i \in 1..n - 1 : 2 + i - 1 = i + 1
      OBVIOUS
    <3> QED BY <1>2, <1>3, <3>1, <3>2, SeqSub
  <2>4. \A i \in 1..n - 1 : c[i + 1] = b[i + 1]
    BY <1>2, <1>3
  <2> DEFINE t == Tail(b)
             u == SubSeq(c, 2, n)
  <2>5. /\ IsSeq(t) /\ IsSeq(u) /\ Len(t) = Len(u) /\ \A i \in 1..Len(t) : t[i] = u[i]
    BY <2>2, <2>3, <2>4
  <2> HIDE DEF t, u
  <2>6. t = u
    BY <2>5, SeqSame
  <2> QED BY <1>6, <2>1, <2>6 DEF t, u
<1>9. GoodSealed(q, c, log)
  BY <1>4, <1>5, <1>6, <1>7, <1>8 DEF GoodSealed
<1> QED BY <1>9 DEF c, q

\* Manifest m of log s is published.
Publishes(v, m, s, w) ==
    /\ Via(v, ManifestPublish(m) \o CurrentPublish(m.gen), w) /\ Steady(w)
    /\ w = With(v, w.file, w.dirs) /\ KeepsParts(v, w)
    /\ AllLead(w.file, w.dirs, m.gen, s) /\ ManifestAt(w.file, m.gen) = m

\* Publishing a ready manifest is sound: a crash finds the old ledger or the new one.
LEMMA PublishVia ==
    ASSUME NEW v, Steady(v), NEW g0, NEW s0, AllLead(v.file, v.dirs, g0, s0),
           NEW m, m.gen \in Nat, m.gen # 0, m.gen # g0, NEW s, Backs(v, s),
           Ready(v.file, Top(v), m, s)
    PROVE  \E w : Publishes(v, m, s, w)
<1>1. PICK a : Stores(v, g0, s0, m, s, a)
  BY ManifestPublished
<1>2. /\ Via(v, ManifestPublish(m), a) /\ Steady(a)
      /\ a = With(v, a.file, a.dirs) /\ KeepsParts(v, a)
      /\ AllLead(a.file, a.dirs, g0, s0) /\ Stored(a, m, s)
  BY <1>1 DEF Stores
<1>3. Backs(a, s)
  <2>1. Logs(a) = Logs(v)
    BY <1>2, WithIs
  <2> QED BY <2>1 DEF Backs
<1>4. PICK w : Installs(a, m, s, w)
  BY <1>2, <1>3, CurrentPublished
<1>5. /\ Via(a, CurrentPublish(m.gen), w) /\ Steady(w)
      /\ w = With(a, w.file, w.dirs) /\ KeepsParts(a, w)
      /\ AllLead(w.file, w.dirs, m.gen, s) /\ ManifestAt(w.file, m.gen) = m
  BY <1>4 DEF Installs
<1>6. Via(v, ManifestPublish(m) \o CurrentPublish(m.gen), w)
  BY <1>2, <1>5, ViaThen
<1>7. w = With(v, w.file, w.dirs)
  BY <1>2, <1>5, WithIs
<1>8. KeepsParts(v, w)
  BY <1>2, <1>5 DEF KeepsParts
<1> QED BY <1>5, <1>6, <1>7, <1>8 DEF Publishes

\* Parts whose files are kept still hold the log.
LEMMA PartsHoldKept ==
    ASSUME NEW F, NEW d, NEW ps, NEW s, PartsHold(F, d, ps, s), IsSeq(ps), Len(ps) > 0,
           NEW G, NEW e,
           \A i \in 1..Len(ps) : /\ ps[i].id \in e.part /\ Part(ps[i].id) \in DOMAIN G
                                 /\ G[Part(ps[i].id)] = F[Part(ps[i].id)]
    PROVE  PartsHold(G, e, ps, s)
<1>1. Len(ps) \in Nat /\ Len(ps) \in 1..Len(ps) /\ \A i \in 1..Len(ps) - 1 : i \in 1..Len(ps)
  BY SeqIs
<1> QED BY <1>1 DEF PartsHold

\* Every table leads to a manifest that the handle describes.
LEMMA LeadHolds ==
    ASSUME NEW v, Live(v)
    PROVE  PartsHold(v.file, Top(v), v.h.parts, v.cur)
<1>1. Ready(v.file, Top(v), ManOf(v), v.cur)
  BY LiveIs DEF ManOf
<1>2. Describes(ManOf(v), v.h)
  BY DEF Live, ManOf
<1> QED BY <1>1, <1>2, PartsHoldIs
---------------------------------------------------------------------------
(* rotate.                                                                 *)

\* The parts ps of a handle that ends at e, sealed, and a new one.
RotatedParts(ps, e, id) ==
    Append([ps EXCEPT ![Len(ps)].end = e], Desc(id, e, e))

\* The parts after a rotation: the active one sealed, a new one after it.
LEMMA RotatedPartsIs ==
    ASSUME NEW ps, NEW a, Chain(ps, a), Rising(ps), NEW e \in Nat, ps[Len(ps)].first <= e,
           NEW id \in Nat, \A p \in 1..Len(ps) : ps[p].id < id
    PROVE  /\ Chain(RotatedParts(ps, e, id), a) /\ Rising(RotatedParts(ps, e, id))
           /\ Len(RotatedParts(ps, e, id)) = Len(ps) + 1
           /\ \A i \in 1..Len(ps) - 1 : RotatedParts(ps, e, id)[i] = ps[i]
           /\ RotatedParts(ps, e, id)[Len(ps)] = Desc(ps[Len(ps)].id, ps[Len(ps)].first, e)
           /\ RotatedParts(ps, e, id)[Len(ps) + 1] = Desc(id, e, e)
<1>0. SUFFICES ASSUME NEW q, q = RotatedParts(ps, e, id), NEW n, n = Len(ps),
                     NEW x, x = Desc(ps[n].id, ps[n].first, e), NEW y, y = Desc(id, e, e)
              PROVE  /\ Chain(q, a) /\ Rising(q) /\ Len(q) = n + 1
                     /\ \A i \in 1..n - 1 : q[i] = ps[i]
                     /\ q[n] = x /\ q[n + 1] = y
  OBVIOUS
<1>q1. q = RotatedParts(ps, e, id)
  BY <1>0
<1>q2. n = Len(ps)
  BY <1>0
<1>q3. x.id = ps[n].id /\ x.first = ps[n].first /\ x.end = e /\ x = Desc(x.id, x.first, x.end)
  BY <1>0 DEF Desc
<1>q4. y.id = id /\ y.first = e /\ y.end = e /\ y = Desc(y.id, y.first, y.end)
  BY <1>0 DEF Desc
<1>1. /\ IsSeq(ps) /\ n > 0 /\ ps[1].first = a /\ a \in Nat
      /\ \A i \in 1..n : /\ ps[i] = Desc(ps[i].id, ps[i].first, ps[i].end)
                         /\ ps[i].id \in Nat /\ ps[i].first \in Nat /\ ps[i].end \in Nat
      /\ \A i \in 1..n - 1 : ps[i].end = ps[i + 1].first
      /\ \A i, j \in 1..n : ps[i].id = ps[j].id => i = j
  BY <1>q2 DEF Chain
<1>2. n \in Nat \ {0} /\ n \in 1..n /\ 1 \in 1..n
  BY <1>1, <1>q2, SeqIs
<1> DEFINE z == [ps EXCEPT ![n].end = e]
<1>3. /\ IsSeq(z) /\ Len(z) = n /\ z[n] = x /\ \A i \in 1..n - 1 : z[i] = ps[i]
  <2>1. ps = [i \in 1..n |-> ps[i]]
    BY <1>1, <1>q2, SeqIs
  <2>2. z = [i \in 1..n |-> IF i = n THEN [ps[n] EXCEPT !.end = e] ELSE ps[i]]
    BY <1>2, <2>1
  <2>3. [ps[n] EXCEPT !.end = e] = x
    <3>1. ps[n] = Desc(ps[n].id, ps[n].first, ps[n].end)
      BY <1>1, <1>2
    <3> QED BY <1>q3, <3>1 DEF Desc
  <2> HIDE DEF z
  <2>4. z[n] = x /\ \A i \in 1..n - 1 : z[i] = ps[i]
    BY <1>2, <2>2, <2>3
  <2>5. z = [i \in 1..n |-> z[i]]
    BY <2>2
  <2> QED BY <1>2, <2>4, <2>5, SeqIntro
<1>4. q = Append(z, y)
  BY <1>0 DEF RotatedParts
<1> HIDE DEF z
<1>5. /\ IsSeq(q) /\ Len(q) = n + 1 /\ q[n + 1] = y /\ \A i \in 1..n : q[i] = z[i]
  BY <1>3, <1>4, SeqAppend
<1>6. q[n] = x /\ \A i \in 1..n - 1 : q[i] = ps[i]
  BY <1>2, <1>3, <1>5
<1>7. ASSUME NEW i \in 1..n + 1
      PROVE  i \in 1..n - 1 \/ i = n \/ i = n + 1
  BY <1>2
<1>8. \A i \in 1..n : q[i].id = ps[i].id /\ q[i].first = ps[i].first
  <2>1. \A i \in 1..n : i \in 1..n - 1 \/ i = n
    BY <1>2
  <2> QED BY <1>6, <1>q3, <2>1
<1>9. ASSUME NEW i \in 1..n + 1
      PROVE  /\ q[i] = Desc(q[i].id, q[i].first, q[i].end)
             /\ q[i].id \in Nat /\ q[i].first \in Nat /\ q[i].end \in Nat
             /\ q[i].first <= q[i].end
  <2>1. CASE i \in 1..n - 1
    <3>1. i \in 1..n
      BY <1>2, <2>1
    <3> QED BY <1>1, <1>6, <1>q2, <2>1, <3>1 DEF Rising
  <2>2. CASE i = n
    BY <1>1, <1>2, <1>6, <1>q2, <1>q3, <2>2
  <2>3. CASE i = n + 1
    BY <1>5, <1>q4, <2>3
  <2> QED BY <1>7, <2>1, <2>2, <2>3
<1>10. ASSUME NEW i \in 1..n
       PROVE  q[i].end = q[i + 1].first
  <2>1. CASE i = n
    BY <1>5, <1>6, <1>q3, <1>q4, <2>1
  <2>2. CASE i \in 1..n - 1
    <3>1. i + 1 \in 1..n
      BY <1>2, <2>2
    <3> QED BY <1>1, <1>6, <1>8, <2>2, <3>1
  <2>3. i = n \/ i \in 1..n - 1
    BY <1>2
  <2> QED BY <2>1, <2>2, <2>3
<1>11. ASSUME NEW i \in 1..n + 1, NEW j \in 1..n + 1, q[i].id = q[j].id
       PROVE  i = j
  <2>1. \A k \in 1..n : q[k].id < id /\ q[k].id # id
    BY <1>1, <1>8, <1>q2
  <2>2. q[n + 1].id = id
    BY <1>5, <1>q4
  <2>3. (i \in 1..n \/ i = n + 1) /\ (j \in 1..n \/ j = n + 1)
    BY <1>2
  <2> QED BY <1>1, <1>8, <1>11, <2>1, <2>2, <2>3
<1>12. Chain(q, a)
  <2>1. Len(q) > 0 /\ Len(q) - 1 = n /\ q[1].first = a
    BY <1>1, <1>2, <1>5, <1>8
  <2> QED BY <1>1, <1>5, <1>9, <1>10, <1>11, <2>1 DEF Chain
<1>13. Rising(q)
  BY <1>5, <1>9 DEF Rising
<1> QED BY <1>5, <1>6, <1>12, <1>13

---------------------------------------------------------------------------
(* Publishing a handle.                                                    *)

\* A clean handle has nothing to sync.
LEMMA SyncClean ==
    ASSUME NEW v, Good(v), Steady(v), ~v.h.dirty
    PROVE  Syncs(v, v)
<1>1. /\ IsHandle(v.h) /\ IsLog(v.cur) /\ Matches(v.h, v.cur)
  BY DEF Good
<1>2. Synced(v.h) = v.h
  BY <1>1, SyncedHandleIs
<1>3. v.h.stable = v.h.end
  BY <1>1 DEF IsHandle
<1>4. IsSettled(v.cur)
  BY <1>1, <1>3 DEF IsSettled, Matches
<1>5. SyncedLog(v.cur) = v.cur
  <2>1. \A t : t = SyncedLog(v.cur) => t = v.cur
    BY <1>1, <1>4, SyncedIs
  <2> QED BY <2>1
<1>6. SyncPlan(v.h, v.cur) = << >>
  BY DEF SyncPlan
<1> QED BY <1>2, <1>5, <1>6, ViaNone DEF Syncs

\* sync, whatever the handle has written.
LEMMA SyncVia ==
    ASSUME NEW v, Good(v), Steady(v)
    PROVE  \E w : Syncs(v, w)
BY SyncClean, SyncDirty

\* Handle r with log t is ready to take over in v, whose tables all lead to
\* generation g0 and log s0.
Presents(v, g0, s0, r, t) ==
    /\ Steady(v) /\ v.mode = "open"
    /\ AllLead(v.file, v.dirs, g0, s0) /\ r.gen # g0
    /\ IsLog(t) /\ IsHandle(r) /\ Matches(r, t) /\ Backs(v, StableLog(t))
    /\ \A p \in 1..Len(r.parts) : r.parts[p].id < r.next
    /\ PartsHold(v.file, Top(v), r.parts, StableLog(t))
    /\ Finds(v.file, Top(v), r, t.log) /\ Whole(v.file, r, t.log)
    /\ Tells(v, t)

\* It took over in w.
TakesOver(v, m, r, t, w) ==
    /\ Via(v, (ManifestPublish(m) \o CurrentPublish(r.gen)) \o <<Return(r, t)>>, w)
    /\ Good(w) /\ Steady(w) /\ w.h = r /\ w.cur = t

\* A handle with the same parts, as publishing sees it.
PublishedAs(hd, r, m) ==
    /\ hd.parts = r.parts /\ hd.first = r.first
    /\ m = ManifestOf(hd, r.gen, r.rev)

\* A handle that is ready takes over when it is published.
LEMMA HandleTakesOver ==
    ASSUME NEW v, NEW g0, NEW s0, NEW r, NEW t, Presents(v, g0, s0, r, t),
           NEW hd, NEW m, PublishedAs(hd, r, m)
    PROVE  \E w : TakesOver(v, m, r, t, w)
<1>0. SUFFICES ASSUME NEW t1, t1 = StableLog(t)
               PROVE  \E w : TakesOver(v, m, r, t, w)
  OBVIOUS
<1>q1. t1 = StableLog(t)
  BY <1>0
<1>1. /\ Steady(v) /\ v.mode = "open"
      /\ AllLead(v.file, v.dirs, g0, s0) /\ r.gen # g0
      /\ IsLog(t) /\ IsHandle(r) /\ Matches(r, t) /\ Backs(v, t1)
      /\ \A p \in 1..Len(r.parts) : r.parts[p].id < r.next
      /\ PartsHold(v.file, Top(v), r.parts, t1)
      /\ Finds(v.file, Top(v), r, t.log) /\ Whole(v.file, r, t.log)
      /\ Tells(v, t)
  BY <1>q1 DEF Presents
<1>2. hd.parts = r.parts /\ hd.first = r.first
  BY DEF PublishedAs
<1>3. m = ManifestOf(hd, r.gen, r.rev)
  BY DEF PublishedAs
<1>4. /\ IsLog(t1) /\ t1.first = t.first /\ t1.rev = t.rev
  BY <1>1, <1>q1, StableIs
<1>5. /\ r.gen \in Nat \ {0} /\ Chain(r.parts, r.first) /\ r.first = t1.first /\ r.rev = t1.rev
      /\ r.first \in Nat \ {0} /\ r.rev \in Nat
  BY <1>1, <1>4, LogIs DEF IsHandle, Matches
<1>6. Publishable(hd, t1.rev)
  BY <1>2, <1>5 DEF Publishable
<1>7. /\ Ready(v.file, Top(v), m, t1) /\ m.gen = r.gen /\ Describes(m, r)
  <2>1. hd.first = t1.first /\ PartsHold(v.file, Top(v), hd.parts, t1)
    BY <1>1, <1>2, <1>5
  <2>2. m = ManifestOf(hd, r.gen, t1.rev)
    BY <1>3, <1>5
  <2>3. Renders(v.file, Top(v), hd, t1, r.gen, m)
    BY <1>6, <2>1, <2>2 DEF Renders
  <2>4. Ready(v.file, Top(v), m, t1) /\ m.gen = r.gen /\ m.rev = t1.rev /\ Portrays(m, hd)
    BY <2>3, ReadyOf
  <2>5. Describes(m, r)
    BY <1>2, <1>5, <2>4 DEF Portrays
  <2> QED BY <2>4, <2>5
<1>8. PICK a : Publishes(v, m, t1, a)
  BY <1>1, <1>5, <1>7, PublishVia
<1>9. /\ Via(v, ManifestPublish(m) \o CurrentPublish(r.gen), a) /\ Steady(a)
      /\ a = With(v, a.file, a.dirs) /\ KeepsParts(v, a)
      /\ AllLead(a.file, a.dirs, r.gen, t1) /\ ManifestAt(a.file, r.gen) = m
  BY <1>7, <1>8 DEF Publishes
<1>10. \A p \in 1..Len(r.parts) :
          /\ r.parts[p].id \in Top(a).part /\ Part(r.parts[p].id) \in DOMAIN a.file
          /\ a.file[Part(r.parts[p].id)] = v.file[Part(r.parts[p].id)]
  BY <1>1, <1>9 DEF KeepsParts, PartsHold
<1>11. Finds(a.file, Top(a), r, t.log)
  <2>1. Top(v).part \subseteq Top(a).part
    BY <1>9 DEF KeepsParts
  <2> QED BY <1>1, <1>10, <2>1, FindsKept
<1>12. Whole(a.file, r, t.log)
  <2>1. Len(r.parts) \in 1..Len(r.parts)
    BY <1>1, HandleIs
  <2>2. a.file[Part(r.parts[Len(r.parts)].id)] = v.file[Part(r.parts[Len(r.parts)].id)]
    BY <1>10, <2>1
  <2> QED BY <1>1, <2>2 DEF Whole
<1>13. GoodAs(a.file, a.dirs, r, t)
  <2>1. AreFiles(a.file)
    BY <1>9, SteadyIs
  <2>2. Describes(ManifestAt(a.file, r.gen), r)
    BY <1>7, <1>9
  <2> QED BY <1>1, <1>9, <1>11, <1>12, <1>q1, <2>1, <2>2 DEF GoodAs, Top
<1> DEFINE w == World(a.file, a.dirs, "open", r, t, {})
<1>15. Tells(a, t)
  <2>1. a.mode = v.mode /\ a.cur = v.cur /\ a.next = v.next /\ Logs(a) = Logs(v)
    BY <1>9, WithIs
  <2> QED BY <1>1, <2>1 DEF Tells
<1>16. w = World(a.file, a.dirs, "open", r, t, {})
  OBVIOUS
<1> HIDE DEF w
<1>14. Good(w) /\ Steady(w)
  BY <1>13, <1>16, GoodIntro
<1>17. Via(a, <<Return(r, t)>>, w)
  BY <1>14, <1>15, <1>16, StepReturn
<1>18. w.h = r /\ w.cur = t
  BY <1>16, WorldIs
<1>19. Via(v, (ManifestPublish(m) \o CurrentPublish(r.gen)) \o <<Return(r, t)>>, w)
  BY <1>9, <1>17, ViaThen
<1>20. TakesOver(v, m, r, t, w)
  BY <1>14, <1>18, <1>19 DEF TakesOver
<1> QED BY <1>20

\* The handle after rotate.
RotatedAs(hd) ==
    HandleOf(hd.gen + 1, hd.rev, hd.first, hd.end, hd.end, FALSE, hd.next + 1,
             RotatedParts(hd.parts, hd.end, hd.next), Len(hd.parts) + 1, 2, hd.dir)

\* A handle that can be rotated.
Rotatable(hd) ==
    /\ IsHandle(hd) /\ Linked(hd.dir, hd.first, hd.end) /\ hd.end \in Nat
    /\ hd.parts[Len(hd.parts)].first <= hd.end
    /\ \A p \in 1..Len(hd.parts) : hd.parts[p].id < hd.next

\* rotate assigns the fields of the rotated handle.
LEMMA RotatedIs ==
    ASSUME NEW hd, IsHandle(hd)
    PROVE  Rotated(hd) = RotatedAs(hd)
<1> DEFINE g == hd.gen
           r == hd.rev
           a == hd.first
           b == hd.end
           n == hd.next
           ps == hd.parts
           x == hd.active
           l == IF hd.dirty THEN hd.len + 1 ELSE hd.len
           ds == hd.dir
           k == Synced(hd)
           g2 == hd.gen + 1
           n2 == hd.next + 1
           ps2 == RotatedParts(hd.parts, hd.end, hd.next)
           x2 == Len(hd.parts) + 1
<1>1. k = HandleOf(g, r, a, b, b, FALSE, n, ps, x, l, ds)
  BY SyncedHandleIs
<1> HIDE DEF k, l
<1>2. k.gen = hd.gen /\ k.next = hd.next /\ k.parts = hd.parts
  BY <1>1 DEF HandleOf
<1>3. hd.active = Len(hd.parts)
  BY HandleIs
<1>4. Rotated(hd) = [k EXCEPT !.parts = ps2, !.active = x2, !.len = 2, !.next = n2, !.gen = g2]
  BY <1>2, <1>3 DEF Rotated, RotatedParts, k
<1> DEFINE w == [k EXCEPT !.parts = ps2, !.active = x2, !.len = 2, !.next = n2, !.gen = g2]
<1>5. w = [k EXCEPT !.parts = ps2, !.active = x2, !.len = 2, !.next = n2, !.gen = g2]
  OBVIOUS
<1> HIDE DEF g, r, a, b, n, ps, x, ds, g2, n2, ps2, x2, w
<1>6. w = HandleOf(g2, r, a, b, b, FALSE, n2, ps2, x2, 2, ds)
  BY <1>1, <1>5 DEF HandleOf
<1>7. Rotated(hd) = HandleOf(g2, r, a, b, b, FALSE, n2, ps2, x2, 2, ds)
  BY <1>4, <1>5, <1>6
<1> QED BY <1>7 DEF RotatedAs, g2, r, a, b, n2, ps2, x2, ds

\* An entry of the directory stays in the range of its part.
LEMMA WithinRotated ==
    ASSUME NEW ps, NEW q, NEW n \in Nat, n = Len(ps), Len(q) = n + 1, NEW b,
           \A i \in 1..n - 1 : q[i] = ps[i], q[n].first = ps[n].first, q[n].end = b,
           NEW e, Within(ps, e), EndOf(e) <= b
    PROVE  Within(q, e)
<1>1. e.part \in 1..n /\ ps[e.part].first <= e.first
  BY DEF Within
<1>2. e.part < n => EndOf(e) <= ps[e.part].end
  BY DEF Within
<1>3. e.part = n \/ e.part \in 1..n - 1
  BY <1>1
<1>4. CASE e.part = n
  <2>1. q[e.part].first <= e.first
    BY <1>1, <1>4
  <2>2. EndOf(e) <= q[e.part].end
    BY <1>4
  <2>3. e.part \in 1..Len(q)
    BY <1>1
  <2> QED BY <2>1, <2>2, <2>3 DEF Within
<1>5. CASE e.part \in 1..n - 1
  <2>1. q[e.part] = ps[e.part] /\ e.part < n
    BY <1>5
  <2>2. e.part \in 1..Len(q)
    BY <1>1
  <2> QED BY <1>1, <1>2, <2>1, <2>2 DEF Within
<1> QED BY <1>3, <1>4, <1>5

\* It is a handle again.
LEMMA RotatedHandle ==
    ASSUME NEW hd, Rotatable(hd)
    PROVE  IsHandle(RotatedAs(hd))
<1> DEFINE q == RotatedParts(hd.parts, hd.end, hd.next)
           n == Len(hd.parts)
           r == RotatedAs(hd)
<1>1. /\ IsHandle(hd) /\ Linked(hd.dir, hd.first, hd.end) /\ hd.end \in Nat
      /\ hd.parts[n].first <= hd.end /\ \A p \in 1..n : hd.parts[p].id < hd.next
  BY DEF Rotatable
<1>2. /\ Chain(hd.parts, hd.first) /\ Rising(hd.parts) /\ hd.gen \in Nat \ {0} /\ hd.next \in Nat
      /\ \A i \in 1..Len(hd.dir) : Within(hd.parts, hd.dir[i])
  BY <1>1 DEF IsHandle, InRange
<1>3. n \in Nat /\ n > 0
  BY <1>1, HandleIs
<1>4. /\ Chain(q, hd.first) /\ Rising(q) /\ Len(q) = n + 1
      /\ \A i \in 1..n - 1 : q[i] = hd.parts[i]
      /\ q[n] = Desc(hd.parts[n].id, hd.parts[n].first, hd.end)
  <2> DEFINE ps == hd.parts
             a == hd.first
             e == hd.end
             id == hd.next
  <2>1. /\ Chain(ps, a) /\ Rising(ps) /\ e \in Nat /\ ps[Len(ps)].first <= e /\ id \in Nat
        /\ \A p \in 1..Len(ps) : ps[p].id < id
    BY <1>1, <1>2
  <2> HIDE DEF ps, a, e, id
  <2>2. /\ Chain(RotatedParts(ps, e, id), a) /\ Rising(RotatedParts(ps, e, id))
        /\ Len(RotatedParts(ps, e, id)) = Len(ps) + 1
        /\ \A i \in 1..Len(ps) - 1 : RotatedParts(ps, e, id)[i] = ps[i]
        /\ RotatedParts(ps, e, id)[Len(ps)] = Desc(ps[Len(ps)].id, ps[Len(ps)].first, e)
    BY <2>1, RotatedPartsIs
  <2> QED BY <2>2 DEF ps, a, e, id
<1> HIDE DEF q, n, r
<1>5. \A i \in 1..Len(hd.dir) : EndOf(hd.dir[i]) <= hd.end
  BY <1>1, LinkedRange
<1>6. ASSUME NEW i \in 1..Len(hd.dir)
      PROVE  Within(q, hd.dir[i])
  <2> DEFINE e == hd.dir[i]
             ps == hd.parts
             b == hd.end
  <2>1. Within(ps, e) /\ EndOf(e) <= b
    BY <1>2, <1>5
  <2>2. /\ n = Len(ps) /\ Len(q) = n + 1 /\ \A j \in 1..n - 1 : q[j] = ps[j]
        /\ q[n].first = ps[n].first /\ q[n].end = b
    BY <1>4 DEF Desc, n
  <2> HIDE DEF e, ps, b
  <2>3. Within(q, e)
    BY <1>3, <2>1, <2>2, WithinRotated
  <2> QED BY <2>3 DEF e
<1>7. r = HandleOf(hd.gen + 1, hd.rev, hd.first, hd.end, hd.end, FALSE, hd.next + 1,
                   q, n + 1, 2, hd.dir)
  BY DEF r, q, n, RotatedAs
<1>8. r.parts = q /\ r.dir = hd.dir
  BY <1>7 DEF HandleOf
<1>9. InRange(r)
  BY <1>6, <1>8 DEF InRange
<1>10. hd.gen + 1 \in Nat \ {0} /\ hd.next + 1 \in Nat
  BY <1>2
<1>11. IsHandle(r)
  <2> DEFINE A == hd.gen + 1
             B == hd.rev
             C == hd.first
             D == hd.end
             N == hd.next + 1
             X == n + 1
             E == hd.dir
  <2>1. /\ r = HandleOf(A, B, C, D, D, FALSE, N, q, X, 2, E) /\ Chain(q, C) /\ Rising(q)
        /\ X = Len(q) /\ A \in Nat \ {0} /\ N \in Nat
    BY <1>4, <1>7, <1>10
  <2> HIDE DEF A, B, C, D, N, X, E
  <2> QED BY <1>9, <2>1, HandleIntro
<1> QED BY <1>11 DEF r

\* The name of a part that no table refers to is free.
LEMMA FreePart ==
    ASSUME NEW F, NEW ds, NEW g, NEW s, AllLead(F, ds, g, s), NEW n,
           \A id \in Referenced(ManifestAt(F, g)) : id # n
    PROVE  Free(F, ds, Part(n))
<1>1. \A k \in 1..Len(ds) : ds[k].cur = g
  BY DEF AllLead
<1>2. \A x : Part(n) # Cur(x) /\ Part(n) # Man(x)
  BY DEF Part, Cur, Man
<1>3. \A id : Part(n) = Part(id) => n = id
  BY DEF Part
<1> QED BY <1>1, <1>2, <1>3 DEF Free, FreeOf

\* The ids of a handle's parts are those its manifest refers to.
LEMMA IdsAre ==
    ASSUME NEW m, NEW hd, Describes(m, hd), IsSeq(hd.parts)
    PROVE  Referenced(m) = {hd.parts[p].id : p \in 1..Len(hd.parts)}
<1> DEFINE n == Len(hd.parts)
<1>1. /\ IsSeq(m.sealed) /\ n = Len(m.sealed) + 1
      /\ \A i \in 1..Len(m.sealed) : m.sealed[i] = hd.parts[i]
      /\ m.active.id = hd.parts[n].id
  BY DEF Describes
<1>2. Len(m.sealed) \in Nat /\ n \in Nat
  BY <1>1, SeqIs
<1> HIDE DEF n
<1>3. Referenced(m) = {hd.parts[i].id : i \in 1..n - 1} \union {hd.parts[n].id}
  <2>1. Len(m.sealed) = n - 1
    BY <1>1, <1>2
  <2> QED BY <1>1, <2>1 DEF Referenced
<1>4. 1..n = 1..n - 1 \union {n}
  BY <1>1, <1>2
<1>5. Referenced(m) = {hd.parts[p].id : p \in 1..n}
  BY <1>3, <1>4
<1> QED BY <1>5 DEF n

\* A directory that finds the records of the log finds them when parts are added.
PartsAdded(ps, q) ==
    /\ IsSeq(q) /\ Len(ps) <= Len(q)
    /\ \A p \in 1..Len(ps) : q[p].id = ps[p].id

\* Every part of q has its name and its file.
AllNamed(F, d, q) == \A p \in 1..Len(q) : q[p].id \in d.part /\ Part(q[p].id) \in DOMAIN F

\* A handle with a part added still finds its records.
LEMMA FindsAdded ==
    ASSUME NEW F, NEW d, NEW hd, NEW log, Finds(F, d, hd, log),
           NEW r, r.dir = hd.dir, r.first = hd.first, r.end = hd.end,
           PartsAdded(hd.parts, r.parts), AllNamed(F, d, r.parts)
    PROVE  Finds(F, d, r, log)
<1>1. /\ IsSeq(hd.parts) /\ Linked(hd.dir, hd.first, hd.end)
      /\ \A i \in 1..Len(hd.dir) :
            /\ hd.dir[i].part \in 1..Len(hd.parts)
            /\ Locates(F[Part(hd.parts[hd.dir[i].part].id)].live, hd.dir[i], log)
  BY DEF Finds
<1>2. Len(hd.parts) \in Nat /\ Len(r.parts) \in Nat
  BY <1>1, SeqIs DEF PartsAdded
<1>3. \A p \in 1..Len(hd.parts) : p \in 1..Len(r.parts) /\ r.parts[p].id = hd.parts[p].id
  BY <1>2 DEF PartsAdded
<1>4. \A i \in 1..Len(r.dir) :
         /\ r.dir[i].part \in 1..Len(r.parts)
         /\ Locates(F[Part(r.parts[r.dir[i].part].id)].live, r.dir[i], log)
  BY <1>1, <1>3
<1>5. Linked(r.dir, r.first, r.end)
  BY <1>1
<1> QED BY <1>4, <1>5 DEF Finds, PartsAdded, AllNamed

\* The calls that publish a manifest and CURRENT are sequences.
LEMMA PublishSeq ==
    ASSUME NEW m, NEW g, NEW hd, NEW t
    PROVE  /\ IsSeq(ManifestPublish(m)) /\ IsSeq(CurrentPublish(g))
           /\ IsSeq(<<Return(hd, t)>>)
<1>1. \A f, x : IsSeq(WriteNewFile(f, x))
  <2> TAKE f, x
  <2>1. WriteNewFile(f, x) = <<CreateCall(f)>> \o (<<WriteCall(f, x)>> \o <<FsyncCall(f)>>)
    BY Triple DEF WriteNewFile
  <2> QED BY <2>1, SeqOne, SeqCat
<1>2. IsSeq(<<SyncDirCall>>) /\ IsSeq(<<Return(hd, t)>>)
  BY SeqOne
<1>3. IsSeq(<<RenameCall(g), SyncDirCall>>)
  BY Pair, SeqOne, SeqCat
<1>4. IsSeq(ManifestPublish(m))
  BY <1>1, <1>2, SeqCat DEF ManifestPublish
<1>5. IsSeq(CurrentPublish(g))
  BY <1>1, <1>3, SeqCat DEF CurrentPublish
<1> QED BY <1>2, <1>4, <1>5

\* Plans are put together in any order.
Cat(p, q) == p \o q

\* Concatenation of plans is associative.
LEMMA CatAssoc ==
    ASSUME NEW a, NEW b, NEW c, IsSeq(a), IsSeq(b), IsSeq(c)
    PROVE  Cat(Cat(a, b), c) = Cat(a, Cat(b, c)) /\ IsSeq(Cat(a, b)) /\ IsSeq(Cat(b, c))
<1>1. (a \o b) \o c = a \o (b \o c)
  BY SeqAssoc
<1>2. IsSeq(a \o b) /\ IsSeq(b \o c)
  BY SeqCat
<1> QED BY <1>1, <1>2 DEF Cat

\* Publishing at the end of a plan.
LEMMA PlanEnds ==
    ASSUME NEW x, NEW m, NEW k, NEW r, IsSeq(x), IsSeq(m), IsSeq(k), IsSeq(r)
    PROVE  Cat(Cat(Cat(x, m), k), r) = Cat(x, Cat(Cat(m, k), r))
<1>1. Cat(Cat(x, m), k) = Cat(x, Cat(m, k)) /\ IsSeq(Cat(m, k))
  BY CatAssoc
<1>2. Cat(Cat(x, Cat(m, k)), r) = Cat(x, Cat(Cat(m, k), r))
  BY <1>1, CatAssoc
<1> QED BY <1>1, <1>2

\* The next file id is not in use.
LEMMA SpareNext ==
    ASSUME NEW v, Live(v), \A p \in 1..Len(v.h.parts) : v.h.parts[p].id < v.h.next
    PROVE  Spare(v, Part(v.h.next))
<1> DEFINE ps == v.h.parts
           n == v.h.next
           g == v.h.gen
<1>1. /\ AllLead(v.file, v.dirs, g, v.cur) /\ Describes(ManifestAt(v.file, g), v.h)
      /\ IsHandle(v.h)
  BY DEF Live
<1>2. /\ IsSeq(ps) /\ n \in Nat /\ \A p \in 1..Len(ps) : ps[p].id \in Nat
  BY <1>1 DEF IsHandle, Chain
<1>3. \A p \in 1..Len(ps) : ps[p].id # n
  BY <1>2
<1>4. \A id \in Referenced(ManifestAt(v.file, g)) : id # n
  BY <1>1, <1>2, <1>3, IdsAre
<1>5. Free(v.file, v.dirs, Part(n))
  BY <1>1, <1>4, FreePart
<1>6. \A p \in 1..Len(ps) : Part(n) # Part(ps[p].id)
  BY <1>3 DEF Part
<1> QED BY <1>5, <1>6 DEF Spare

\* The part of v that ends at its handle's end is sealed in w, durably.
SealedIn(v, p, w) ==
    /\ Via(v, p, w) /\ Live(w) /\ Alike(v, w) /\ Durable(w) = Content(w)
    /\ GoodSealed([Active(v.h) EXCEPT !.end = v.h.end], Content(w), v.cur.log)

\* The calls that seal the active part.
SealPlan(hd) ==
    <<SealCall([Active(hd) EXCEPT !.end = hd.end]), FsyncCall(Part(Active(hd).id))>>

\* Sealing the active part of a ledger.
LEMMA SealVia ==
    ASSUME NEW v, Good(v), Steady(v), MustRotate(v.h)
    PROVE  \E w : SealedIn(v, SealPlan(v.h), w)
<1>0. SUFFICES ASSUME NEW hd1, hd1 = v.h, NEW s1, s1 = v.cur, NEW m1, m1 = ManOf(v),
                    NEW f1, f1 = FileOf(v), NEW b1, b1 = Content(v),
                    NEW d1, d1 = hd1.parts[Len(hd1.parts)],
                    NEW y1, y1 = [d1 EXCEPT !.end = hd1.end],
                    NEW i1, i1 = Footer(d1.id, d1.first, hd1.end, << >>),
                    NEW x1, x1 = [i1 EXCEPT !.digest = Tail(b1)],
                    NEW p1, p1 = SealCall(y1),
                    NEW c1, c1 = Plus(b1, x1),
                    NEW a1, a1 = With(v, WrittenIn(v.file, f1, x1), v.dirs),
                    NEW z1, z1 = With(a1, FsyncedIn(a1.file, FileOf(a1)), a1.dirs)
             PROVE  SealedIn(v, SealPlan(v.h), z1)
  OBVIOUS
<1>q1. hd1 = v.h /\ s1 = v.cur
  BY <1>0
<1>q2. m1 = ManOf(v) /\ f1 = FileOf(v) /\ b1 = Content(v) /\ d1 = hd1.parts[Len(hd1.parts)]
  BY <1>0
<1>q3. y1 = [d1 EXCEPT !.end = hd1.end]
  BY <1>0
<1>q4. i1 = Footer(d1.id, d1.first, hd1.end, << >>)
  BY <1>0
<1>q5. x1 = [i1 EXCEPT !.digest = Tail(b1)]
  BY <1>0
<1>q6. p1 = SealCall(y1)
  BY <1>0
<1>q7. c1 = Plus(b1, x1)
  BY <1>0
<1>q8. a1 = With(v, WrittenIn(v.file, f1, x1), v.dirs)
  BY <1>0
<1>q9. z1 = With(a1, FsyncedIn(a1.file, FileOf(a1)), a1.dirs)
  BY <1>0
<1>1. /\ Live(v) /\ IsSeq(b1) /\ Len(b1) \in Nat
      /\ GoodPart(d1, b1, Len(b1), s1.log) /\ Expected(d1, b1, Len(b1)) = hd1.end
  BY <1>q1, <1>q2, GoodIs DEF FileOf, Content
<1>2. /\ f1 = Part(m1.active.id) /\ m1.active.id \in Top(v).part
      /\ d1.id = m1.active.id /\ d1.first = m1.active.first /\ m1.active.first \in Nat \ {0}
      /\ Len(s1.log) \in Nat /\ hd1.end = Len(s1.log) + 1
      /\ GoodActive(m1.active, m1.rev, b1, s1)
  BY <1>1, <1>q1, <1>q2, LiveIs DEF ManOf, FileOf, Content
<1>3. IsLog(s1) /\ IsHandle(hd1)
  BY <1>1, <1>q1 DEF Live
<1>4. d1 = Desc(d1.id, d1.first, d1.end) /\ Active(hd1) = d1
  <2>1. Len(hd1.parts) \in 1..Len(hd1.parts) /\ Active(hd1) = d1
    BY <1>3, <1>q2, HandleIs
  <2>2. Chain(hd1.parts, hd1.first)
    BY <1>3 DEF IsHandle
  <2> QED BY <2>1, <2>2, <1>q2 DEF Chain
<1>5. y1 = Desc(d1.id, d1.first, hd1.end) /\ y1.id = d1.id /\ y1.first = d1.first /\ y1.end = hd1.end
  BY <1>4, <1>q3 DEF Desc
<1>6. /\ x1.t = "footer" /\ x1.id = d1.id /\ x1.first = d1.first /\ x1.end = hd1.end
      /\ x1.digest = Tail(b1)
  BY <1>q4, <1>q5 DEF Footer
<1>7. p1.op = "seal" /\ p1.f = f1 /\ p1.item = i1
  BY <1>2, <1>5, <1>q4, <1>q6 DEF SealCall
<1>8. ReadIn(v.file, v.dirs, f1) = b1
  <2>1. HasName(Last(v.dirs), f1)
    BY <1>2, Named DEF Top
  <2> QED BY <2>1, <1>q2 DEF ReadIn, Content
<1>9. PutsIn(v, x1, p1)
  BY <1>7, <1>8, <1>q2, <1>q5 DEF PutsIn
<1>10. GoodActive(m1.active, m1.rev, c1, s1)
  <2> DEFINE a == m1.active
             rev == m1.rev
  <2>1. GoodActive(a, rev, b1, s1) /\ a.first \in Nat /\ Len(s1.log) \in Nat /\ x1.t # "marker"
    BY <1>2, <1>6
  <2> HIDE DEF a, rev
  <2>2. GoodActive(a, rev, Append(b1, x1), s1)
    BY <2>1, ActiveBatch
  <2> QED BY <2>2, <1>q7 DEF a, rev, Plus
<1>11. Writes(v, x1, a1)
  BY <1>1, <1>10, <1>q1, <1>q2, <1>q7, <1>q8 DEF Writes
<1>12. Via(v, <<p1>>, a1)
  BY <1>9, <1>11, WritesStep
<1>13. Live(a1) /\ Alike(v, a1) /\ Content(a1) = c1
  BY <1>11, <1>q2, <1>q7, WritesIs
<1>14. FileOf(a1) = f1
  BY <1>13, <1>q2 DEF Alike
<1>15. Fsyncs(a1, z1)
  BY <1>13, <1>q9 DEF Fsyncs
<1>16. /\ Live(z1) /\ Alike(a1, z1) /\ Content(z1) = c1 /\ Durable(z1) = c1
       /\ Via(a1, <<FsyncCall(f1)>>, z1)
  BY <1>13, <1>14, <1>15, FsyncsIs
<1>17. Alike(v, z1)
  BY <1>13, <1>16 DEF Alike
<1>18. Via(v, <<p1>> \o <<FsyncCall(f1)>>, z1)
  BY <1>12, <1>16, ViaThen
<1>19. SealPlan(v.h) = <<p1>> \o <<FsyncCall(f1)>>
  <2>1. SealPlan(v.h) = <<p1, FsyncCall(f1)>>
    <3>1. Part(Active(hd1).id) = f1 /\ [Active(hd1) EXCEPT !.end = hd1.end] = y1
      BY <1>2, <1>4, <1>q3
    <3> QED BY <3>1, <1>q1, <1>q6 DEF SealPlan
  <2> QED BY ONLY <2>1, Pair
<1>20. GoodSealed(y1, c1, s1.log)
  <2>1. Holds(d1, b1, hd1.end, s1.log)
    BY <1>1 DEF Holds
  <2>2. Seals(d1, b1, hd1.end, x1)
    BY <1>6 DEF Seals
  <2> DEFINE e == hd1.end
             log == s1.log
             a == d1.first
  <2>a. a < e
    <3>1. /\ a \in Nat /\ Len(b1) \in Nat /\ Len(b1) >= 2 /\ \A k \in 2..Len(b1) : Counted(d1, b1, k)
      BY <1>1, <1>2, GoodCounted
    <3>2. Counted(d1, b1, Len(b1)) /\ Len(b1) \in 2..Len(b1)
      BY <3>1
    <3>3. Expected(d1, b1, Len(b1)) \in Nat /\ a <= Expected(d1, b1, Len(b1))
      BY <3>1, <3>2, ExpectedGrows
    <3>4. e # a
      BY <1>4, <1>q1 DEF MustRotate
    <3>5. e \in Nat /\ a <= e /\ e # a /\ a \in Nat
      BY <1>1, <3>1, <3>3, <3>4
    <3> HIDE DEF a, e
    <3> QED BY <3>5
  <2>3. /\ Holds(d1, b1, e, log) /\ Seals(d1, b1, e, x1) /\ d1.first \in Nat /\ Len(log) \in Nat
        /\ e <= Len(log) + 1 /\ y1 = Desc(d1.id, d1.first, e) /\ d1.first < e
    BY <1>2, <1>5, <2>1, <2>2, <2>a
  <2> HIDE DEF e, log
  <2>4. GoodSealed(Desc(d1.id, d1.first, e), Plus(b1, x1), log)
    BY <2>3, SealedFrom
  <2>5. GoodSealed(y1, c1, log)
    BY <2>3, <2>4, <1>q7
  <2> QED BY <2>5 DEF log
<1>21. GoodSealed([Active(v.h) EXCEPT !.end = v.h.end], Content(z1), v.cur.log)
  BY <1>4, <1>16, <1>20, <1>q1, <1>q3
<1> QED BY <1>16, <1>17, <1>18, <1>19, <1>21 DEF SealedIn

\* The ledger is synced and its active part sealed.
SealedUp(v) ==
    /\ Live(v) /\ Durable(v) = Content(v) /\ IsSettled(v.cur)
    /\ GoodSealed([Active(v.h) EXCEPT !.end = v.h.end], Content(v), v.cur.log)
    /\ \A p \in 1..Len(v.h.parts) : v.h.parts[p].id < v.h.next

\* With the new part made, the rotated handle can take over.
LEMMA RotatedPresents ==
    ASSUME NEW v, SealedUp(v), NEW w,
           Makes(v, PartCreate(v.h.next, v.h.end, v.h.rev), Part(v.h.next),
                 Fresh(v.h.next, v.h.rev, v.h.end), w)
    PROVE  Presents(w, v.h.gen, v.cur, RotatedAs(v.h), v.cur)
<1>0. SUFFICES ASSUME NEW hd1, hd1 = v.h, NEW s1, s1 = v.cur, NEW ps1, ps1 = hd1.parts,
                    NEW n1, n1 = Len(ps1), NEW d1, d1 = ps1[n1], NEW e1, e1 = hd1.end,
                    NEW id1, id1 = hd1.next, NEW f1, f1 = Part(id1), NEW r1, r1 = RotatedAs(hd1),
                    NEW q1, q1 = RotatedParts(ps1, e1, id1), NEW c1, c1 = Fresh(id1, hd1.rev, e1),
                    NEW F1, F1 = v.file, NEW G1, G1 = w.file, NEW T1, T1 = Top(w),
                    NEW y1, y1 = [d1 EXCEPT !.end = e1], NEW z1, z1 = Desc(id1, e1, e1)
             PROVE  Presents(w, hd1.gen, s1, r1, s1)
  OBVIOUS
<1>q1. hd1 = v.h /\ s1 = v.cur /\ ps1 = hd1.parts /\ d1 = ps1[n1] /\ e1 = hd1.end /\ id1 = hd1.next
  BY <1>0
<1>q2. n1 = Len(ps1)
  BY <1>0
<1>q3. f1 = Part(id1) /\ r1 = RotatedAs(hd1) /\ q1 = RotatedParts(ps1, e1, id1)
  BY <1>0
<1>q4. c1 = Fresh(id1, hd1.rev, e1)
  BY <1>0
<1>q5. F1 = v.file /\ G1 = w.file /\ T1 = Top(w)
  BY <1>0
<1>q6. y1 = [d1 EXCEPT !.end = e1]
  BY <1>0
<1>q7. z1 = Desc(id1, e1, e1)
  BY <1>0
<1>1. /\ Live(v) /\ Durable(v) = Content(v) /\ IsSettled(s1)
      /\ \A p \in 1..n1 : ps1[p].id < id1
  BY <1>q1, <1>q2 DEF SealedUp
<1>2. /\ v.mode = "open" /\ v.next = {} /\ IsLog(s1) /\ IsHandle(hd1) /\ Matches(hd1, s1)
      /\ AllLead(F1, v.dirs, hd1.gen, s1)
      /\ Finds(F1, Top(v), hd1, s1.log)
  BY <1>1, <1>q1, <1>q5 DEF Live
<1>3. /\ n1 \in Nat /\ n1 > 0 /\ n1 \in 1..n1 /\ IsSeq(ps1) /\ Active(hd1) = d1
      /\ ActiveFile(hd1) = Part(d1.id)
  BY <1>2, <1>q1, <1>q2, HandleIs
<1>4. /\ Chain(ps1, hd1.first) /\ Rising(ps1) /\ hd1.gen \in Nat \ {0} /\ id1 \in Nat
      /\ \A p \in 1..n1 : ps1[p].id \in Nat
      /\ d1 = Desc(d1.id, d1.first, d1.end)
  <2>1. Chain(ps1, hd1.first) /\ Rising(ps1) /\ hd1.gen \in Nat \ {0} /\ id1 \in Nat
    BY <1>2, <1>q1 DEF IsHandle
  <2> QED BY <2>1, <1>3, <1>q1, <1>q2 DEF Chain
<1>5. /\ Len(s1.log) \in Nat /\ e1 = Len(s1.log) + 1 /\ s1.stable = e1 /\ s1.rev = hd1.rev
      /\ s1.first = hd1.first /\ hd1.stable = e1
  BY <1>1, <1>2, <1>q1, LogIs DEF Matches, IsSettled
<1>6. d1.first \in Nat \ {0} /\ d1.first <= e1
  BY <1>1, <1>5, <1>q1, <1>q2, LiveIs
<1>7. e1 \in Nat /\ e1 \in s1.stable..Len(s1.log) + 1
  BY <1>5
<1>8. /\ Chain(q1, hd1.first) /\ Rising(q1) /\ Len(q1) = n1 + 1
      /\ \A i \in 1..n1 - 1 : q1[i] = ps1[i]
      /\ q1[n1] = Desc(d1.id, d1.first, e1) /\ q1[n1 + 1] = z1
  <2> DEFINE a == hd1.first
  <2>1. Chain(ps1, a) /\ ps1[Len(ps1)].first <= e1 /\ \A p \in 1..Len(ps1) : ps1[p].id < id1
    BY <1>1, <1>4, <1>6, <1>q1, <1>q2
  <2> HIDE DEF a
  <2>2. /\ Chain(RotatedParts(ps1, e1, id1), a) /\ Rising(RotatedParts(ps1, e1, id1))
        /\ Len(RotatedParts(ps1, e1, id1)) = Len(ps1) + 1
        /\ \A i \in 1..Len(ps1) - 1 : RotatedParts(ps1, e1, id1)[i] = ps1[i]
        /\ RotatedParts(ps1, e1, id1)[Len(ps1)] = Desc(ps1[Len(ps1)].id, ps1[Len(ps1)].first, e1)
        /\ RotatedParts(ps1, e1, id1)[Len(ps1) + 1] = Desc(id1, e1, e1)
    <3>1. e1 \in Nat /\ id1 \in Nat /\ Rising(ps1)
      BY <1>4, <1>7
    <3> QED BY ONLY <2>1, <3>1, RotatedPartsIs
  <2> QED BY <2>2, <1>q1, <1>q2, <1>q3, <1>q7 DEF a
<1>9. y1 = Desc(d1.id, d1.first, e1)
  BY <1>4, <1>q6 DEF Desc
<1>10. \A i \in 1..n1 : q1[i].id = ps1[i].id
  <2>1. \A i \in 1..n1 : i \in 1..n1 - 1 \/ i = n1
    BY <1>3
  <2>2. q1[n1].id = ps1[n1].id
    BY <1>8, <1>q1 DEF Desc
  <2> QED BY <1>8, <2>1, <2>2
<1>11. z1.id = id1 /\ z1.first = e1 /\ z1.end = e1
  BY <1>q7 DEF Desc
<1>12. /\ Steady(w) /\ KeepsAll(v, w) /\ w = With(v, w.file, w.dirs)
       /\ OffFile(F1, G1, f1) /\ Extends(Top(v), T1)
       /\ f1 \in DOMAIN G1 /\ G1[f1].live = c1 /\ G1[f1].hard = c1
       /\ T1 = AddName(Top(v), f1)
  BY <1>q1, <1>q3, <1>q4, <1>q5 DEF Makes, Fills
<1>13. w.mode = "open" /\ w.next = {} /\ w.cur = s1 /\ w.h = hd1 /\ s1 \in Logs(w)
  BY <1>2, <1>12, <1>q1, WithIs DEF Logs
<1>14. AllLead(G1, w.dirs, hd1.gen, s1)
  BY <1>2, <1>12, <1>q1, <1>q5 DEF KeepsAll
<1>15. PartsHold(F1, Top(v), ps1, s1)
  BY <1>1, <1>q1, <1>q5, LeadHolds
<1>16. id1 \in T1.part
  <2>1. T1 = [Top(v) EXCEPT !.part = @ \union {id1}]
    BY <1>12, <1>q3 DEF AddName, Part
  <2>2. IsTable(Top(v))
    BY <1>1, LiveSteady, SteadyIs
  <2> QED BY <2>1, <2>2 DEF IsTable
<1>17. \A i \in 1..n1 : /\ ps1[i].id \in Top(v).part /\ Part(ps1[i].id) \in DOMAIN F1
                        /\ Part(ps1[i].id) # f1
  <2>1. \A i \in 1..n1 : ps1[i].id # id1
    BY <1>1, <1>4
  <2> QED BY <1>15, <2>1, <1>q2, <1>q3 DEF PartsHold, Part
<1>18. \A i \in 1..n1 : /\ ps1[i].id \in T1.part /\ Part(ps1[i].id) \in DOMAIN G1
                        /\ G1[Part(ps1[i].id)] = F1[Part(ps1[i].id)]
  BY <1>12, <1>17 DEF OffFile, Extends
<1>19. ASSUME NEW i \in 1..n1 + 1
       PROVE  q1[i].id \in T1.part /\ Part(q1[i].id) \in DOMAIN G1
  <2>1. CASE i \in 1..n1
    BY <1>10, <1>18, <2>1
  <2>2. CASE i = n1 + 1
    BY <1>8, <1>11, <1>12, <1>16, <1>q3, <2>2
  <2>3. i \in 1..n1 \/ i = n1 + 1
    BY <1>3
  <2> QED BY <2>1, <2>2, <2>3
<1>20. ASSUME NEW i \in 1..n1
       PROVE  LET f == G1[Part(q1[i].id)]
              IN f.live = f.hard /\ GoodSealed(q1[i], f.live, s1.log)
  <2>1. CASE i \in 1..n1 - 1
    <3>1. F1[Part(ps1[i].id)].live = F1[Part(ps1[i].id)].hard
          /\ GoodSealed(ps1[i], F1[Part(ps1[i].id)].live, s1.log)
      BY <1>15, <1>q2, <2>1 DEF PartsHold
    <3> QED BY <1>8, <1>18, <2>1, <3>1
  <2>2. CASE i = n1
    <3>1. GoodSealed(y1, Content(v), s1.log)
      BY <1>1, <1>3, <1>q1, <1>q6 DEF SealedUp
    <3>2. FileOf(v) = Part(d1.id)
      BY <1>3, <1>q1 DEF FileOf
    <3>3. F1[Part(d1.id)].live = Content(v) /\ F1[Part(d1.id)].hard = Content(v)
      BY <1>1, <1>q5, <3>2 DEF Content, Durable
    <3>4. q1[i] = y1 /\ q1[i].id = d1.id
      BY <1>8, <1>9, <1>10, <1>q1, <2>2
    <3>5. G1[Part(d1.id)] = F1[Part(d1.id)]
      BY <1>3, <1>18, <1>q1
    <3> QED BY <3>1, <3>3, <3>4, <3>5
  <2>3. i = n1 \/ i \in 1..n1 - 1
    BY <1>3
  <2> QED BY <2>1, <2>2, <2>3
<1>21. Base(z1) = z1
  BY <1>11, <1>q7 DEF Base
<1>22. GoodActive(z1, s1.rev, c1, s1)
  <2> DEFINE rev == s1.rev
  <2>1. e1 \in Nat /\ z1.id = id1 /\ z1.first = e1 /\ e1 \in s1.stable..Len(s1.log) + 1
        /\ c1 = Fresh(id1, rev, e1)
    BY <1>5, <1>7, <1>11, <1>q4
  <2> HIDE DEF rev
  <2>2. GoodActive(z1, rev, Fresh(id1, rev, e1), s1)
    BY <2>1, FreshIs
  <2> QED BY <2>1, <2>2 DEF rev
<1>23. /\ Holds(z1, c1, e1, s1.log) /\ Len(c1) = 2 /\ IsSeq(c1)
  <2> DEFINE rev == hd1.rev
  <2>1. e1 \in Nat /\ z1.id = id1 /\ z1.first = e1 /\ c1 = Fresh(id1, rev, e1)
    BY <1>7, <1>11, <1>q4
  <2> HIDE DEF rev
  <2> QED BY <2>1, FreshIs
<1>24. SafeActive(z1, s1.rev, G1[f1], s1)
  BY <1>12, <1>22, SafeHard
<1>25. PartsHold(G1, T1, q1, s1)
  <2>1. Len(q1) = n1 + 1 /\ Len(q1) - 1 = n1
    BY <1>3, <1>8
  <2>2. q1[Len(q1)] = z1 /\ q1[Len(q1)].id = id1
    BY <1>8, <1>11, <2>1
  <2> QED BY <1>19, <1>20, <1>21, <1>24, <1>q3, <2>1, <2>2 DEF PartsHold
<1>26. /\ r1.gen = hd1.gen + 1 /\ r1.rev = hd1.rev /\ r1.first = hd1.first /\ r1.end = e1
       /\ r1.stable = e1 /\ r1.next = id1 + 1 /\ r1.parts = q1 /\ r1.len = 2 /\ r1.dir = hd1.dir
  <2> HIDE DEF RotatedAs
  <2>1. r1 = HandleOf(hd1.gen + 1, hd1.rev, hd1.first, e1, e1, FALSE, id1 + 1,
                      q1, n1 + 1, 2, hd1.dir)
    BY <1>q1, <1>q2, <1>q3 DEF RotatedAs
  <2> QED BY <2>1 DEF HandleOf
<1>27. Rotatable(hd1)
  <2>1. Linked(hd1.dir, hd1.first, hd1.end)
    BY <1>2 DEF Finds
  <2> QED BY <1>1, <1>2, <1>6, <1>7, <1>q1, <1>q2, <2>1 DEF Rotatable
<1>28. IsHandle(r1) /\ Matches(r1, s1)
  BY <1>5, <1>26, <1>27, <1>q3, RotatedHandle DEF Matches
<1>29. \A p \in 1..Len(r1.parts) : r1.parts[p].id < r1.next
  <2> SUFFICES ASSUME NEW i \in 1..n1 + 1
               PROVE  q1[i].id < id1 + 1
    BY <1>8, <1>26
  <2>1. CASE i \in 1..n1
    BY <1>1, <1>4, <1>10, <2>1
  <2>2. CASE i = n1 + 1
    BY <1>4, <1>8, <1>11, <2>2
  <2>3. i \in 1..n1 \/ i = n1 + 1
    BY <1>3
  <2> QED BY <2>1, <2>2, <2>3
<1>30. Finds(G1, T1, r1, s1.log)
  <2>1. Finds(G1, T1, hd1, s1.log)
    <3>1. Top(v).part \subseteq T1.part
      BY <1>12 DEF Extends
    <3>2. \A p \in 1..Len(hd1.parts) :
             /\ Part(hd1.parts[p].id) \in DOMAIN G1
             /\ G1[Part(hd1.parts[p].id)].live = F1[Part(hd1.parts[p].id)].live
      BY <1>18, <1>q1, <1>q2
    <3> QED BY <1>2, <3>1, <3>2, FindsKept
  <2>2. PartsAdded(hd1.parts, r1.parts)
    <3>1. IsSeq(q1) /\ Len(ps1) <= Len(q1)
      BY <1>3, <1>8, <1>q2 DEF Chain
    <3> QED BY <1>10, <1>26, <1>q1, <1>q2, <3>1 DEF PartsAdded
  <2>3. AllNamed(G1, T1, r1.parts)
    BY <1>8, <1>19, <1>26 DEF AllNamed
  <2>4. r1.dir = hd1.dir /\ r1.first = hd1.first /\ r1.end = hd1.end
    BY <1>26, <1>q1
  <2> QED BY <2>1, <2>2, <2>3, <2>4, FindsAdded
<1>31. Whole(G1, r1, s1.log)
  <2>1. r1.parts[Len(r1.parts)] = z1 /\ Part(z1.id) = f1
    BY <1>8, <1>11, <1>26, <1>q3
  <2>2. IsPrefix(c1, c1)
    BY <1>23, PrefixIs, SeqIs
  <2>3. GoodPart(z1, c1, Len(c1), s1.log) /\ Expected(z1, c1, Len(c1)) = r1.end /\ r1.len = Len(c1)
    BY <1>23, <1>26 DEF Holds
  <2> QED BY <1>12, <2>1, <2>2, <2>3 DEF Whole
<1>32. /\ StableLog(s1) = s1 /\ SyncedLog(s1) = s1
  <2>1. \A t : t = SyncedLog(s1) => t = s1
    BY <1>1, <1>2, SyncedIs
  <2>2. \A t : t = StableLog(s1) => t = s1
    BY <1>1, <1>2, StableIs
  <2> QED BY <2>1, <2>2
<1>33. Backs(w, StableLog(s1))
  BY <1>12, <1>13, <1>32, BacksSelf
<1>34. Tells(w, s1)
  BY <1>13, <1>32 DEF Tells
<1>35. r1.gen # hd1.gen
  BY <1>4, <1>26
<1>36. /\ Steady(w) /\ w.mode = "open" /\ AllLead(w.file, w.dirs, hd1.gen, s1)
       /\ PartsHold(w.file, Top(w), r1.parts, StableLog(s1))
       /\ Finds(w.file, Top(w), r1, s1.log) /\ Whole(w.file, r1, s1.log)
  BY <1>12, <1>13, <1>14, <1>25, <1>26, <1>30, <1>31, <1>32, <1>q5
<1> QED BY <1>2, <1>28, <1>29, <1>33, <1>34, <1>35, <1>36 DEF Presents

\* Plan p leads from v to a ledger with handle r and log t.
Does(v, p, r, t, w) == Via(v, p, w) /\ Good(w) /\ Steady(w) /\ w.h = r /\ w.cur = t

\* What rotate does once the ledger is synced and its active part sealed.
RotateRest(hd, r, s) ==
    (((PartCreate(hd.next, hd.end, hd.rev) \o <<Alloc(TRUE)>>)
      \o ManifestPublish(ManifestOf(r, r.gen, r.rev)))
     \o CurrentPublish(r.gen)) \o <<Return(r, s)>>

\* Rotation, once the active part is sealed, is sound to its end.
LEMMA RotateFinishes ==
    ASSUME NEW v, SealedUp(v), NEW r, r = RotatedAs(v.h)
    PROVE  \E w : Does(v, RotateRest(v.h, r, v.cur), r, v.cur, w)
<1>0. SUFFICES ASSUME NEW hd1, hd1 = v.h, NEW s1, s1 = v.cur,
                    NEW p1, p1 = PartCreate(hd1.next, hd1.end, hd1.rev),
                    NEW m1, m1 = ManifestOf(r, r.gen, r.rev), NEW l1, l1 = <<Alloc(TRUE)>>,
                    NEW a1, a1 = ManifestPublish(m1), NEW b1, b1 = CurrentPublish(r.gen),
                    NEW c1, c1 = <<Return(r, s1)>>
             PROVE  \E w : Does(v, RotateRest(v.h, r, v.cur), r, v.cur, w)
  OBVIOUS
<1>q1. hd1 = v.h /\ s1 = v.cur
  BY <1>0
<1>q2. p1 = PartCreate(hd1.next, hd1.end, hd1.rev) /\ m1 = ManifestOf(r, r.gen, r.rev)
  BY <1>0
<1>q3. l1 = <<Alloc(TRUE)>> /\ a1 = ManifestPublish(m1) /\ b1 = CurrentPublish(r.gen)
       /\ c1 = <<Return(r, s1)>>
  BY <1>0
<1>1. Live(v) /\ \A p \in 1..Len(v.h.parts) : v.h.parts[p].id < v.h.next
  BY DEF SealedUp
<1>2. Steady(v) /\ Spare(v, Part(v.h.next))
  BY <1>1, LiveSteady, SpareNext
<1>3. v.h.next \in Nat
  BY <1>1 DEF Live, IsHandle
<1>4. PICK d : Makes(v, p1, Part(hd1.next), Fresh(hd1.next, hd1.rev, hd1.end), d)
  <2> DEFINE id == hd1.next
             e == hd1.end
             rev == hd1.rev
  <2>1. Spare(v, Part(id)) /\ id \in Nat
    BY <1>2, <1>3, <1>q1
  <2> HIDE DEF id, e, rev
  <2>2. \E w : Makes(v, PartCreate(id, e, rev), Part(id),
                     <<Header(id, rev, e), Marker(id, rev, e)>>, w)
    BY <1>2, <2>1, PartMade
  <2>3. \E w : Makes(v, PartCreate(id, e, rev), Part(id), Fresh(id, rev, e), w)
    BY <2>2 DEF Fresh
  <2> QED BY <2>3, <1>q2 DEF id, e, rev
<1>5. Presents(d, v.h.gen, v.cur, r, v.cur)
  BY <1>4, <1>q1, <1>q2, RotatedPresents
<1>6. PublishedAs(r, r, m1)
  BY <1>q2 DEF PublishedAs
<1>7. PICK w : TakesOver(d, m1, r, v.cur, w)
  BY <1>5, <1>6, HandleTakesOver
<1>8. /\ Via(d, (a1 \o b1) \o c1, w) /\ Good(w) /\ Steady(w) /\ w.h = r /\ w.cur = v.cur
  BY <1>7, <1>q1, <1>q3 DEF TakesOver
<1>9. Via(v, p1, d) /\ Steady(d)
  BY <1>4 DEF Makes, Fills
<1>10. Via(d, l1, d)
  <2>1. d.mode = "open"
    <3>1. \E G, es : d = With(v, G, es)
      BY <1>4 DEF Makes, Fills
    <3> QED BY <1>1, <3>1, WithIs DEF Live
  <2> QED BY <1>9, <1>q3, <2>1, StepAlloc
<1>11. Via(v, p1 \o l1, d)
  BY <1>9, <1>10, ViaThen
<1>12. Via(v, (p1 \o l1) \o ((a1 \o b1) \o c1), w)
  BY <1>8, <1>11, ViaThen
<1>13. IsSeq(p1 \o l1) /\ IsSeq(a1) /\ IsSeq(b1) /\ IsSeq(c1)
  <2>1. IsSeq(p1 \o l1)
    BY <1>11 DEF Via
  <2> QED BY <2>1, <1>q3, PublishSeq
<1>14. (((p1 \o l1) \o a1) \o b1) \o c1 = (p1 \o l1) \o ((a1 \o b1) \o c1)
  <2> DEFINE x1 == p1 \o l1
  <2>1. IsSeq(x1) /\ IsSeq(a1) /\ IsSeq(b1) /\ IsSeq(c1)
    BY <1>13
  <2> HIDE DEF x1
  <2>2. Cat(Cat(Cat(x1, a1), b1), c1) = Cat(x1, Cat(Cat(a1, b1), c1))
    BY <2>1, PlanEnds
  <2> QED BY <2>2 DEF Cat, x1
<1>15. RotateRest(v.h, r, v.cur) = (((p1 \o l1) \o a1) \o b1) \o c1
  BY <1>q1, <1>q2, <1>q3 DEF RotateRest
<1>16. Via(v, RotateRest(v.h, r, v.cur), w)
  BY <1>12, <1>14, <1>15
<1> QED BY <1>8, <1>16 DEF Does

\* Putting the parts of a long plan together.
LEMMA PlanJoins ==
    ASSUME NEW x, NEW p, NEW l, NEW m, NEW k, NEW r,
           IsSeq(x), IsSeq(p), IsSeq(l), IsSeq(m), IsSeq(k), IsSeq(r)
    PROVE  Cat(Cat(Cat(Cat(Cat(x, p), l), m), k), r)
             = Cat(x, Cat(Cat(Cat(Cat(p, l), m), k), r))
<1>1. Cat(Cat(x, p), l) = Cat(x, Cat(p, l)) /\ IsSeq(Cat(p, l))
  BY CatAssoc
<1>2. Cat(Cat(Cat(x, Cat(p, l)), m), k) = Cat(x, Cat(Cat(Cat(p, l), m), k))
  <2>1. Cat(Cat(x, Cat(p, l)), m) = Cat(x, Cat(Cat(p, l), m)) /\ IsSeq(Cat(Cat(p, l), m))
    BY <1>1, CatAssoc
  <2>2. Cat(Cat(x, Cat(Cat(p, l), m)), k) = Cat(x, Cat(Cat(Cat(p, l), m), k))
    BY <2>1, CatAssoc
  <2> QED BY <2>1, <2>2
<1>3. IsSeq(Cat(Cat(Cat(p, l), m), k))
  BY <1>1, CatAssoc
<1>4. Cat(Cat(x, Cat(Cat(Cat(p, l), m), k)), r) = Cat(x, Cat(Cat(Cat(Cat(p, l), m), k), r))
  BY <1>3, CatAssoc
<1> QED BY <1>1, <1>2, <1>4

\* Four calls are a sequence.
LEMMA SeqFour ==
    ASSUME NEW a, NEW b, NEW c, NEW d
    PROVE  IsSeq(<<a, b, c, d>>)
<1>1. IsSeq(<<a>>) /\ IsSeq(<<b>>) /\ IsSeq(<<c, d>>)
  BY SeqOne, SeqCat, Pair
<1>2. IsSeq(<<b>> \o <<c, d>>)
  BY <1>1, SeqCat
<1>3. IsSeq(<<b, c, d>>)
  BY ONLY <1>2, PairOnto
<1>4. IsSeq(<<a>> \o <<b, c, d>>)
  BY <1>1, <1>3, SeqCat
<1> QED BY ONLY <1>4, TripleOnto

\* The plan of rotate, in two parts.
LEMMA RotatePlanIs ==
    ASSUME NEW hd, IsHandle(hd), NEW s, NEW k, k = Synced(hd), NEW r, r = Rotated(hd),
           IsSeq(SyncPlan(hd, s)), IsSeq(SealPlan(k))
    PROVE  /\ r = RotatedAs(k)
           /\ IsSeq(RotateRest(k, r, SyncedLog(s))) =>
                 RotatePlan(hd, s) = (SyncPlan(hd, s) \o SealPlan(k)) \o RotateRest(k, r, SyncedLog(s))
<1>1. /\ k.gen = hd.gen /\ k.rev = hd.rev /\ k.first = hd.first /\ k.end = hd.end
      /\ k.next = hd.next /\ k.parts = hd.parts /\ k.dir = hd.dir /\ k.active = hd.active
  <2> DEFINE l == IF hd.dirty THEN hd.len + 1 ELSE hd.len
  <2>1. k = HandleOf(hd.gen, hd.rev, hd.first, hd.end, hd.end, FALSE, hd.next,
                     hd.parts, hd.active, l, hd.dir)
    BY SyncedHandleIs
  <2> HIDE DEF l
  <2> QED BY <2>1 DEF HandleOf
<1>2. r = RotatedAs(k)
  BY <1>1, RotatedIs DEF RotatedAs
<1> DEFINE S == SyncPlan(hd, s)
           A == SealPlan(k)
           P == PartCreate(hd.next, hd.end, hd.rev)
           L == <<Alloc(TRUE)>>
           M == ManifestPublish(ManifestOf(r, r.gen, r.rev))
           C == CurrentPublish(r.gen)
           R == <<Return(r, SyncedLog(s))>>
<1>3. A = <<SealCall([Active(hd) EXCEPT !.end = hd.end]), FsyncCall(Part(Active(hd).id))>>
  BY <1>1 DEF SealPlan, Active
<1>4. RotatePlan(hd, s) = (((((S \o A) \o P) \o L) \o M) \o C) \o R
  BY <1>3 DEF RotatePlan
<1>5. RotateRest(k, r, SyncedLog(s)) = (((P \o L) \o M) \o C) \o R
  BY <1>1 DEF RotateRest
<1>6. IsSeq(P) /\ IsSeq(L) /\ IsSeq(M) /\ IsSeq(C) /\ IsSeq(R) /\ IsSeq(S \o A)
  <2>1. IsSeq(P)
    BY SeqFour DEF PartCreate
  <2>2. IsSeq(L)
    BY SeqOne
  <2>3. IsSeq(S \o A)
    BY SeqCat
  <2> QED BY <2>1, <2>2, <2>3, PublishSeq
<1> HIDE DEF S, A, P, L, M, C, R
<1>7. (((((S \o A) \o P) \o L) \o M) \o C) \o R = (S \o A) \o ((((P \o L) \o M) \o C) \o R)
  <2> DEFINE X == S \o A
  <2>1. IsSeq(X) /\ IsSeq(P) /\ IsSeq(L) /\ IsSeq(M) /\ IsSeq(C) /\ IsSeq(R)
    BY <1>6
  <2> HIDE DEF X
  <2>2. Cat(Cat(Cat(Cat(Cat(X, P), L), M), C), R) = Cat(X, Cat(Cat(Cat(Cat(P, L), M), C), R))
    BY <2>1, PlanJoins
  <2> QED BY <2>2 DEF Cat, X
<1> QED BY <1>2, <1>4, <1>5, <1>7 DEF S, A

\* rotate leads to a ledger with the rotated handle.
LEMMA RotateVia ==
    ASSUME NEW v, Good(v), Steady(v), MustRotate(v.h)
    PROVE  \E w : Does(v, RotatePlan(v.h, v.cur), Rotated(v.h), SyncedLog(v.cur), w)
<1>0. SUFFICES ASSUME NEW hd1, hd1 = v.h, NEW s1, s1 = v.cur, NEW k1, k1 = Synced(hd1),
                     NEW t1, t1 = SyncedLog(s1), NEW r1, r1 = Rotated(hd1)
              PROVE  \E w : Does(v, RotatePlan(hd1, s1), r1, t1, w)
  OBVIOUS
<1>q1. hd1 = v.h /\ s1 = v.cur
  BY <1>0
<1>q2. k1 = Synced(hd1) /\ t1 = SyncedLog(s1) /\ r1 = Rotated(hd1)
  BY <1>0
<1>1. PICK a : Syncs(v, a)
  BY SyncVia
<1>2. /\ Via(v, SyncPlan(hd1, s1), a) /\ Good(a) /\ Steady(a) /\ a.h = k1 /\ a.cur = t1
  BY <1>1, <1>q1, <1>q2 DEF Syncs
<1>3. IsHandle(hd1) /\ IsLog(s1)
  BY <1>q1 DEF Good
<1>a. MustRotate(k1)
  <2>1. MustRotate(hd1)
    BY <1>q1
  <2>2. k1.end = hd1.end /\ k1.parts = hd1.parts /\ k1.active = hd1.active
    BY <1>3, <1>q2 DEF Synced, IsHandle
  <2> QED BY <2>1, <2>2 DEF MustRotate, Active
<1>4. PICK c : SealedIn(a, SealPlan(k1), c)
  BY <1>2, <1>a, SealVia
<1>5. /\ Via(a, SealPlan(k1), c) /\ Live(c) /\ c.h = k1 /\ c.cur = t1
      /\ Durable(c) = Content(c)
      /\ GoodSealed([Active(k1) EXCEPT !.end = k1.end], Content(c), t1.log)
  BY <1>2, <1>4 DEF SealedIn, Alike
<1>6. IsSettled(t1)
  BY <1>3, <1>q2, SyncedIs
<1>7. SealedUp(c)
  <2>1. \A p \in 1..Len(k1.parts) : k1.parts[p].id < k1.next
    BY <1>2 DEF Good
  <2> QED BY <1>5, <1>6, <2>1 DEF SealedUp
<1>8. IsSeq(SyncPlan(hd1, s1)) /\ IsSeq(SealPlan(k1))
  BY <1>2, <1>5 DEF Via
<1>9. r1 = RotatedAs(k1)
  BY <1>3, <1>8, <1>q2, RotatePlanIs
<1>10. PICK w : Does(c, RotateRest(k1, r1, t1), r1, t1, w)
  BY <1>5, <1>7, <1>9, RotateFinishes
<1>11. /\ Via(c, RotateRest(k1, r1, t1), w) /\ Good(w) /\ Steady(w) /\ w.h = r1 /\ w.cur = t1
  BY <1>10 DEF Does
<1>12. RotatePlan(hd1, s1) = (SyncPlan(hd1, s1) \o SealPlan(k1)) \o RotateRest(k1, r1, t1)
  <2>1. IsSeq(RotateRest(k1, r1, t1))
    BY <1>11 DEF Via
  <2> QED BY <1>3, <1>8, <1>q2, <2>1, RotatePlanIs
<1>13. Via(v, SyncPlan(hd1, s1) \o SealPlan(k1), c)
  BY <1>2, <1>5, ViaThen
<1>14. Via(v, (SyncPlan(hd1, s1) \o SealPlan(k1)) \o RotateRest(k1, r1, t1), w)
  BY <1>11, <1>13, ViaThen
<1> QED BY <1>11, <1>12, <1>14 DEF Does

\* Three calls are a sequence.
LEMMA SeqThree ==
    ASSUME NEW a, NEW b, NEW c
    PROVE  IsSeq(<<a, b, c>>)
<1>1. IsSeq(<<a>>) /\ IsSeq(<<b, c>>)
  BY SeqOne, SeqCat, Pair
<1>2. IsSeq(<<a>> \o <<b, c>>)
  BY <1>1, SeqCat
<1> QED BY ONLY <1>2, PairOnto

\* An append is sound, whether or not it starts a new part.
LEMMA AppendPlanSound ==
    ASSUME NEW v, Good(v), Steady(v), NEW recs \in Seq(Value) \ {<< >>}
    PROVE  Sound(v, AppendPlan(v.h, v.cur, recs))
<1>0. SUFFICES ASSUME NEW hd1, hd1 = v.h, NEW s1, s1 = v.cur, NEW r1, r1 = Rotated(hd1),
                     NEW t1, t1 = SyncedLog(s1), NEW p1, p1 = ActiveAppend(r1, t1, recs)
              PROVE  Sound(v, AppendPlan(hd1, s1, recs))
  OBVIOUS
<1>q1. hd1 = v.h /\ s1 = v.cur /\ r1 = Rotated(hd1) /\ t1 = SyncedLog(s1)
  BY <1>0
<1>q2. p1 = ActiveAppend(r1, t1, recs)
  BY <1>0
<1>1. CASE ~PartFull(hd1, recs)
  <2>1. AppendPlan(hd1, s1, recs) = ActiveAppend(hd1, s1, recs)
    BY <1>1 DEF AppendPlan
  <2>2. Sound(v, ActiveAppend(v.h, v.cur, recs))
    BY AppendSound
  <2> QED BY <2>1, <2>2, <1>q1
<1>2. CASE PartFull(hd1, recs)
  <2>0. MustRotate(v.h)
    BY <1>2, <1>q1 DEF PartFull
  <2>1. PICK w : Does(v, RotatePlan(hd1, s1), r1, t1, w)
    BY <1>q1, <2>0, RotateVia
  <2>2. Via(v, RotatePlan(hd1, s1), w) /\ Good(w) /\ Steady(w) /\ w.h = r1 /\ w.cur = t1
    BY <2>1 DEF Does
  <2>3. Sound(w, ActiveAppend(w.h, w.cur, recs))
    BY <2>2, AppendSound
  <2>4. Sound(w, p1)
    BY <2>2, <2>3, <1>q2
  <2>5. IsSeq(p1)
    BY SeqThree, <1>q2 DEF ActiveAppend
  <2>6. Sound(v, RotatePlan(hd1, s1) \o p1)
    BY <2>2, <2>4, <2>5, ViaSound
  <2>7. AppendPlan(hd1, s1, recs) = RotatePlan(hd1, s1) \o p1
    BY <1>2, <1>q1, <1>q2 DEF AppendPlan
  <2> QED BY <2>6, <2>7
<1> QED BY <1>1, <1>2

\* So are sync and rotate.
LEMMA SyncRotateSound ==
    ASSUME NEW v, Good(v), Steady(v)
    PROVE  /\ Sound(v, SyncPlan(v.h, v.cur))
           /\ MustRotate(v.h) => Sound(v, RotatePlan(v.h, v.cur))
<1>1. Sound(v, SyncPlan(v.h, v.cur))
  <2>1. PICK w : Syncs(v, w)
    BY SyncVia
  <2>2. Via(v, SyncPlan(v.h, v.cur), w) /\ Good(w)
    BY <2>1 DEF Syncs
  <2> QED BY <2>2, ViaSound
<1>2. ASSUME MustRotate(v.h)
      PROVE  Sound(v, RotatePlan(v.h, v.cur))
  <2>1. PICK w : Does(v, RotatePlan(v.h, v.cur), Rotated(v.h), SyncedLog(v.cur), w)
    BY <1>2, RotateVia
  <2>2. Via(v, RotatePlan(v.h, v.cur), w) /\ Good(w)
    BY <2>1 DEF Does
  <2> QED BY <2>2, ViaSound
<1> QED BY <1>1, <1>2

---------------------------------------------------------------------------
(* Calls that may fail quietly.                                            *)

\* The last n calls of q, and then rest.
Ending(q, n, rest) == SubSeq(q, Len(q) - n + 1, Len(q)) \o rest

\* Ending counts a plan's remaining calls down to the rest.
LEMMA EndingIs ==
    ASSUME NEW q, IsSeq(q), NEW rest, IsSeq(rest)
    PROVE  /\ Ending(q, 0, rest) = rest /\ Ending(q, Len(q), rest) = q \o rest
           /\ \A n \in 0..Len(q) - 1 :
                 /\ Ending(q, n + 1, rest) # << >>
                 /\ Head(Ending(q, n + 1, rest)) = q[Len(q) - n]
                 /\ Tail(Ending(q, n + 1, rest)) = Ending(q, n, rest)
<1>1. Len(q) \in Nat
  BY SeqIs
<1>2. \A n \in 0..Len(q) :
         /\ IsSeq(SubSeq(q, Len(q) - n + 1, Len(q))) /\ Len(SubSeq(q, Len(q) - n + 1, Len(q))) = n
         /\ \A i \in 1..n : SubSeq(q, Len(q) - n + 1, Len(q))[i] = q[Len(q) - n + i]
  <2> SUFFICES ASSUME NEW n \in 0..Len(q), NEW a, a = Len(q) - n + 1
               PROVE  /\ IsSeq(SubSeq(q, a, Len(q))) /\ Len(SubSeq(q, a, Len(q))) = n
                      /\ \A i \in 1..n : SubSeq(q, a, Len(q))[i] = q[Len(q) - n + i]
    OBVIOUS
  <2>1. a \in Nat \ {0} /\ a <= Len(q) + 1 /\ Len(q) - a + 1 = n
        /\ \A i \in 1..n : a + i - 1 = Len(q) - n + i
    BY <1>1
  <2>2. /\ IsSeq(SubSeq(q, a, Len(q))) /\ Len(SubSeq(q, a, Len(q))) = Len(q) - a + 1
        /\ \A i \in 1..Len(q) - a + 1 : SubSeq(q, a, Len(q))[i] = q[a + i - 1]
    BY <1>1, <2>1, SeqSub
  <2> QED BY <2>1, <2>2
<1> DEFINE e(n) == SubSeq(q, Len(q) - n + 1, Len(q))
<1>3. \A n \in 0..Len(q) : IsSeq(e(n)) /\ Len(e(n)) = n /\ \A i \in 1..n : e(n)[i] = q[Len(q) - n + i]
  BY <1>2
<1>4. \A n : Ending(q, n, rest) = e(n) \o rest
  BY DEF Ending
<1> HIDE DEF e
<1>5. Ending(q, 0, rest) = rest
  <2>1. 0 \in 0..Len(q)
    BY <1>1
  <2>2. e(0) = << >>
    BY <1>3, <2>1, SeqEmpty
  <2> QED BY <1>4, <2>2, CatNone
<1>6. Ending(q, Len(q), rest) = q \o rest
  <2>1. Len(q) \in 0..Len(q) /\ \A i \in 1..Len(q) : Len(q) - Len(q) + i = i
    BY <1>1
  <2>2. IsSeq(e(Len(q))) /\ Len(e(Len(q))) = Len(q) /\ \A i \in 1..Len(q) : e(Len(q))[i] = q[i]
    BY <1>3, <2>1
  <2>3. e(Len(q)) = q
    BY <2>2, SeqSame
  <2> QED BY <1>4, <2>3
<1>7. ASSUME NEW n \in 0..Len(q) - 1
      PROVE  /\ Ending(q, n + 1, rest) # << >>
             /\ Head(Ending(q, n + 1, rest)) = q[Len(q) - n]
             /\ Tail(Ending(q, n + 1, rest)) = Ending(q, n, rest)
  <2> DEFINE x == e(n + 1)
             y == e(n)
             c == q[Len(q) - n]
  <2>1. /\ n \in Nat /\ n \in 0..Len(q) /\ n + 1 \in 0..Len(q) /\ Len(q) - (n + 1) + 1 = Len(q) - n
        /\ \A i \in 1..n : i + 1 \in 1..n + 1 /\ Len(q) - (n + 1) + (i + 1) = Len(q) - n + i
    BY <1>1
  <2>2. /\ IsSeq(x) /\ Len(x) = n + 1 /\ x[1] = c /\ \A i \in 1..n : x[i + 1] = q[Len(q) - n + i]
    <3>1. 1 \in 1..n + 1
      BY <2>1
    <3> QED BY <1>3, <2>1, <3>1
  <2>3. /\ IsSeq(y) /\ Len(y) = n /\ \A i \in 1..n : y[i] = q[Len(q) - n + i]
    BY <1>3, <2>1
  <2> HIDE DEF x, y, c
  <2>4. x = <<c>> \o y
    <3>1. /\ IsSeq(<<c>>) /\ Len(<<c>>) = 1 /\ <<c>>[1] = c
      BY SeqOne
    <3>2. /\ IsSeq(<<c>> \o y) /\ Len(<<c>> \o y) = 1 + n /\ (<<c>> \o y)[1] = c
          /\ \A i \in 1..n : (<<c>> \o y)[1 + i] = y[i]
      <4> HIDE DEF x
      <4>1. 1 \in 1..1
        OBVIOUS
      <4> QED BY <2>3, <3>1, <4>1, SeqCat
    <3> DEFINE z == <<c>> \o y
    <3>3. IsSeq(z) /\ Len(z) = 1 + n /\ z[1] = c /\ \A i \in 1..n : z[1 + i] = y[i]
      BY <3>2
    <3> HIDE DEF z
    <3>4. ASSUME NEW j \in 1..n + 1
          PROVE  x[j] = z[j]
      <4>1. CASE j = 1
        BY <2>2, <3>3, <4>1
      <4>2. CASE j # 1
        <5>1. j - 1 \in 1..n /\ (j - 1) + 1 = j /\ 1 + (j - 1) = j
          BY <2>1, <4>2
        <5>2. x[(j - 1) + 1] = q[Len(q) - n + (j - 1)] /\ y[j - 1] = q[Len(q) - n + (j - 1)]
              /\ z[1 + (j - 1)] = y[j - 1]
          BY <2>2, <2>3, <3>3, <5>1
        <5> QED BY <5>1, <5>2
      <4> QED BY <4>1, <4>2
    <3>5. Len(z) = n + 1
      BY <2>1, <3>3
    <3>6. x = z
      BY <2>2, <3>3, <3>4, <3>5, SeqSame
    <3> QED BY <3>6 DEF z
  <2>5. Ending(q, n + 1, rest) = <<c>> \o Ending(q, n, rest)
    <3>1. Ending(q, n + 1, rest) = x \o rest /\ Ending(q, n, rest) = y \o rest
      BY <1>4 DEF x, y
    <3> DEFINE o == <<c>>
    <3>2. IsSeq(o) /\ IsSeq(y) /\ IsSeq(rest)
      BY <2>3, SeqOne
    <3> HIDE DEF o
    <3>3. (o \o y) \o rest = o \o (y \o rest)
      BY ONLY <3>2, SeqAssoc
    <3> QED BY <2>4, <3>1, <3>3 DEF o
  <2>6. IsSeq(Ending(q, n, rest))
    <3>1. Ending(q, n, rest) = y \o rest
      BY <1>4 DEF y
    <3> QED BY <2>3, <3>1, SeqCat
  <2> DEFINE A == Ending(q, n + 1, rest)
             B == Ending(q, n, rest)
  <2>7. A = <<c>> \o B /\ IsSeq(B)
    BY <2>5, <2>6
  <2> HIDE DEF A, B
  <2>8. A # << >> /\ Head(A) = c /\ Tail(A) = B
    BY <2>7, SeqCons
  <2> QED BY <2>8 DEF A, B, c
<1> QED BY <1>5, <1>6, <1>7

\* Calls each of which leads from one state of T to another can be made, or
\* fail quietly, one after the other.
LEMMA QuietRun ==
    ASSUME NEW q, IsSeq(q), NEW rest, IsSeq(rest), NEW T,
           \A w \in T : Sound(w, rest),
           \A i \in 1..Len(q) : \A w \in T : \E x \in T : StepOK(q[i], w, x)
    PROVE  \A w \in T : Sound(w, q \o rest)
<1> DEFINE S == {n \in 0..Len(q) : \A w \in T : Sound(w, Ending(q, n, rest))}
           L == Len(q)
<1>1. L \in Nat
  BY SeqIs
<1>2. 0 \in S
  BY <1>1, EndingIs
<1>3. ASSUME NEW n \in 0..L, n < L, n \in S
      PROVE  n + 1 \in S
  <2>1. n \in 0..L - 1 /\ L - n \in 1..L /\ n + 1 \in 0..L
    BY <1>1, <1>3
  <2> DEFINE p == Ending(q, n + 1, rest)
  <2>2. p # << >> /\ Head(p) = q[L - n] /\ Tail(p) = Ending(q, n, rest)
    BY <2>1, EndingIs
  <2>3. \A w \in T : Sound(w, Tail(p))
    BY <1>3, <2>2
  <2>4. \A w \in T : \E x \in T : StepOK(Head(p), w, x)
    BY <2>1, <2>2
  <2> HIDE DEF p, S
  <2>5. ASSUME NEW w \in T
        PROVE  Sound(w, p)
    <3>1. PICK x \in T : StepOK(Head(p), w, x)
      BY <2>4
    <3>2. Sound(x, Tail(p)) /\ Sound(w, Tail(p))
      BY <2>3, <2>5
    <3> QED BY <2>2, <3>1, <3>2, SoundStep
  <2> QED BY <2>1, <2>5 DEF S, p
<1> HIDE DEF S
<1>4. \A n \in 0..L : n \in S
  <2>1. 0 \in Nat
    OBVIOUS
  <2> HIDE DEF L
  <2> QED BY <1>1, <1>2, <1>3, <2>1, Induction
<1>5. L \in S
  BY <1>1, <1>4
<1>6. \A w \in T : Sound(w, Ending(q, Len(q), rest))
  BY <1>5 DEF S
<1>7. Ending(q, Len(q), rest) = q \o rest
  BY EndingIs
<1> QED BY <1>6, <1>7

---------------------------------------------------------------------------
(* Removing names.                                                         *)

\* The type of a directory table.
Tables == [part : SUBSET Nat, man : SUBSET Nat, cur : Nat, tmp : Nat]

\* A name that a table whose CURRENT is g does not need.
Needless(F, g, f) ==
    \/ \E n : f = Cur(n)
    \/ \E n : f = Man(n) /\ g = 0
    \/ \E n : f = Part(n) /\ (g # 0 => \A id \in Referenced(ManifestAt(F, g)) : id # n)

\* What unlinking a name takes from a table.
LEMMA UnlinkedIs ==
    ASSUME NEW d, IsTable(d), NEW n
    PROVE  /\ IsTable(Unlinked(d, Cur(n))) /\ Unlinked(d, Cur(n)).part = d.part
           /\ Unlinked(d, Cur(n)).man = d.man /\ Unlinked(d, Cur(n)).cur = d.cur
           /\ IsTable(Unlinked(d, Man(n))) /\ Unlinked(d, Man(n)).part = d.part
           /\ Unlinked(d, Man(n)).cur = d.cur
           /\ IsTable(Unlinked(d, Part(n))) /\ Unlinked(d, Part(n)).part = d.part \ {n}
           /\ Unlinked(d, Part(n)).man = d.man /\ Unlinked(d, Part(n)).cur = d.cur
<1>1. d \in [part : SUBSET Nat, man : SUBSET Nat, cur : Nat, tmp : Nat]
      /\ IsFiniteSet(d.part) /\ IsFiniteSet(d.man)
  BY DEF IsTable
<1>2. IsFiniteSet(d.part \ {n}) /\ IsFiniteSet(d.man \ {n})
  BY <1>1, FS_Difference
<1>3. /\ Unlinked(d, Cur(n)) = [d EXCEPT !.tmp = 0]
      /\ Unlinked(d, Man(n)) = [d EXCEPT !.man = @ \ {n}]
      /\ Unlinked(d, Part(n)) = [d EXCEPT !.part = @ \ {n}]
  BY DEF Unlinked, Cur, Man, Part
<1>4. IsTable([d EXCEPT !.tmp = 0]) /\ [d EXCEPT !.tmp = 0].part = d.part
      /\ [d EXCEPT !.tmp = 0].man = d.man /\ [d EXCEPT !.tmp = 0].cur = d.cur
  BY <1>1 DEF IsTable
<1>5. IsTable([d EXCEPT !.man = @ \ {n}]) /\ [d EXCEPT !.man = @ \ {n}].part = d.part
      /\ [d EXCEPT !.man = @ \ {n}].cur = d.cur
  BY <1>1, <1>2 DEF IsTable
<1>6. IsTable([d EXCEPT !.part = @ \ {n}]) /\ [d EXCEPT !.part = @ \ {n}].part = d.part \ {n}
      /\ [d EXCEPT !.part = @ \ {n}].man = d.man /\ [d EXCEPT !.part = @ \ {n}].cur = d.cur
  BY <1>1, <1>2 DEF IsTable
<1> QED BY <1>3, <1>4, <1>5, <1>6

\* Removing such a name changes no log.
LEMMA UnlinkLeads ==
    ASSUME NEW F, NEW ds, NEW g, NEW s, AllLead(F, ds, g, s), NEW f, Needless(F, g, f),
           NEW es, es = NamedIn(ds, Unlinked(Last(ds), f))
    PROVE  AllLead(F, es, g, s) /\ Last(es) = Unlinked(Last(ds), f)
<1>1. IsSeq(ds) /\ Len(ds) > 0 /\ IsLog(s)
      /\ \A k \in 1..Len(ds) : IsTable(ds[k]) /\ ds[k].cur = g /\ Leads(F, ds[k], s)
  BY DEF AllLead
<1>2. Len(ds) \in 1..Len(ds)
  BY <1>1, SeqIs
<1> DEFINE d == Last(ds)
           e == Unlinked(d, f)
<1>3. IsTable(d) /\ d.cur = g /\ Leads(F, d, s)
  BY <1>1, <1>2 DEF Last
<1>4. IsTable(e) /\ e.cur = g
      /\ (g # 0 => /\ e.man = d.man
                   /\ \A id \in Referenced(ManifestAt(F, g)) : id \in d.part => id \in e.part)
  <2>1. CASE \E n : f = Cur(n)
    BY <1>3, <2>1, UnlinkedIs
  <2>2. CASE \E n : f = Man(n) /\ g = 0
    BY <1>3, <2>2, UnlinkedIs
  <2>3. CASE \E n : f = Part(n) /\ (g # 0 => \A id \in Referenced(ManifestAt(F, g)) : id # n)
    <3>1. PICK n : f = Part(n) /\ (g # 0 => \A id \in Referenced(ManifestAt(F, g)) : id # n)
      BY <2>3
    <3>2. IsTable(e) /\ e.part = d.part \ {n} /\ e.man = d.man /\ e.cur = d.cur
      BY <1>3, <3>1, UnlinkedIs
    <3> QED BY <1>3, <3>1, <3>2
  <2> QED BY <2>1, <2>2, <2>3 DEF Needless
<1> HIDE DEF d, e
<1>5. Leads(F, e, s)
  <2>1. CASE g = 0
    <3>1. s = EmptyLog
      BY <1>3, <2>1 DEF Leads
    <3> QED BY <1>4, <2>1, <3>1 DEF Leads
  <2>2. CASE g # 0
    <3> DEFINE m == ManifestAt(F, g)
    <3>1. LeadsTo(F, d, m, s)
      BY <1>3, <2>2, LeadsIs
    <3>2. /\ Cur(d.cur) \in DOMAIN F /\ Man(d.cur) \in DOMAIN F /\ d.cur \in d.man
          /\ Ready(F, d, m, s)
      BY <3>1 DEF LeadsTo
    <3>3. Referenced(m) \subseteq d.part /\ \A id \in Referenced(m) : Part(id) \in DOMAIN F
      BY <3>2 DEF Ready
    <3>4. Referenced(m) \subseteq e.part
      BY <1>4, <2>2, <3>3
    <3>5. Keeps(F, F, d, e)
      BY <1>3, <1>4, <2>2, <3>2, <3>3, <3>4 DEF Keeps, SameFile
    <3>6. Len(s.log) \in Nat /\ s.stable \in Nat
      BY <1>1, LogIs
    <3> QED BY <1>3, <3>5, <3>6, LeadsKept
  <2> QED BY <2>1, <2>2
<1>6. es = NamedIn(ds, e)
  BY DEF d, e
<1>7. /\ IsSeq(es) /\ Len(es) > 0 /\ Last(es) = e
      /\ \A k \in 1..Len(es) : es[k] = e \/ \E j \in 1..Len(ds) : es[k] = ds[j]
  BY <1>1, <1>6, NamedInIs
<1>8. \A k \in 1..Len(es) : IsTable(es[k]) /\ es[k].cur = g /\ Leads(F, es[k], s)
  BY <1>1, <1>4, <1>5, <1>7
<1> QED BY <1>1, <1>7, <1>8 DEF AllLead, d, e

\* The tables of a ledger are a sequence of tables.
LEMMA TablesAre ==
    ASSUME NEW F, NEW ds, NEW g, NEW s, AllLead(F, ds, g, s)
    PROVE  ds \in Seq(Tables)
<1>1. IsSeq(ds) /\ \A k \in 1..Len(ds) : IsTable(ds[k])
  BY DEF AllLead
<1>2. \A k \in 1..Len(ds) : ds[k] \in Tables
  BY <1>1 DEF IsTable, Tables
<1> QED BY <1>1, <1>2, SeqIn

\* A part that the handle does not refer to, and CURRENT.tmp, can go.
Unused(hd, f) ==
    \/ \E n : f = Cur(n)
    \/ \E n : f = Part(n) /\ \A p \in 1..Len(hd.parts) : hd.parts[p].id # n

\* Unlinking a file the handle does not use leaves the ledger good.
LEMMA UnlinkGoodAs ==
    ASSUME NEW F, NEW ds, NEW hd, NEW s, GoodAs(F, ds, hd, s), NEW f, Unused(hd, f),
           NEW es, es = NamedIn(ds, Unlinked(Last(ds), f))
    PROVE  GoodAs(F, es, hd, s)
<1>1. /\ AreFiles(F) /\ IsLog(s) /\ IsHandle(hd) /\ Matches(hd, s)
      /\ \A p \in 1..Len(hd.parts) : hd.parts[p].id < hd.next
      /\ AllLead(F, ds, hd.gen, StableLog(s))
      /\ Describes(ManifestAt(F, hd.gen), hd)
      /\ Finds(F, Last(ds), hd, s.log)
      /\ Whole(F, hd, s.log)
  BY DEF GoodAs
<1>2. IsSeq(hd.parts)
  BY <1>1, HandleIs
<1>3. Referenced(ManifestAt(F, hd.gen)) = {hd.parts[p].id : p \in 1..Len(hd.parts)}
  BY <1>1, <1>2, IdsAre
<1>4. Needless(F, hd.gen, f)
  BY <1>3 DEF Needless, Unused
<1>5. AllLead(F, es, hd.gen, StableLog(s)) /\ Last(es) = Unlinked(Last(ds), f)
  BY <1>1, <1>4, UnlinkLeads
<1>6. IsTable(Last(ds))
  <2>1. Len(ds) \in 1..Len(ds) /\ \A k \in 1..Len(ds) : IsTable(ds[k])
    BY <1>1, SeqIs DEF AllLead
  <2> QED BY <2>1 DEF Last
<1>7. \A p \in 1..Len(hd.parts) : hd.parts[p].id \in Last(ds).part => hd.parts[p].id \in Last(es).part
  <2> DEFINE d == Last(ds)
  <2>0. IsTable(d) /\ Last(es) = Unlinked(d, f)
    BY <1>5, <1>6
  <2> HIDE DEF d
  <2>1. CASE \E n : f = Cur(n)
    <3>1. Last(es).part = d.part
      BY <2>0, <2>1, UnlinkedIs
    <3> QED BY <3>1 DEF d
  <2>2. CASE \E n : f = Part(n) /\ \A p \in 1..Len(hd.parts) : hd.parts[p].id # n
    <3>1. PICK n : f = Part(n) /\ \A p \in 1..Len(hd.parts) : hd.parts[p].id # n
      BY <2>2
    <3>2. Last(es).part = d.part \ {n}
      BY <2>0, <3>1, UnlinkedIs
    <3> QED BY <3>1, <3>2 DEF d
  <2> QED BY <2>1, <2>2 DEF Unused
<1>8. Finds(F, Last(es), hd, s.log)
  BY <1>1, <1>7 DEF Finds
<1> QED BY <1>1, <1>5, <1>8 DEF GoodAs

\* Removing names one after another.
LEMMA UnlinkRun ==
    ASSUME NEW v, NEW E, \A es \in E : Steady(With(v, v.file, es)),
           NEW q, IsSeq(q), \A i \in 1..Len(q) : q[i] = UnlinkCall(q[i].f),
           \A i \in 1..Len(q) : \A es \in E : NamedIn(es, Unlinked(Last(es), q[i].f)) \in E,
           NEW rest, IsSeq(rest), \A es \in E : Sound(With(v, v.file, es), rest),
           v.dirs \in E, Sound(v, rest)
    PROVE  Sound(v, q \o rest)
<1> DEFINE T == {v} \union {With(v, v.file, es) : es \in E}
<1>1. \A w \in T : Sound(w, rest)
  OBVIOUS
<1>2. ASSUME NEW i \in 1..Len(q), NEW w \in T
      PROVE  \E x \in T : StepOK(q[i], w, x)
  <2>1. PICK es \in E : (w = v /\ es = v.dirs) \/ w = With(v, v.file, es)
    OBVIOUS
  <2> DEFINE fs == NamedIn(es, Unlinked(Last(es), q[i].f))
             x == With(v, v.file, fs)
  <2>2. fs \in E
    BY <2>1
  <2>3. x \in T /\ Steady(x)
    BY <2>2
  <2>a. x = With(v, v.file, fs)
    OBVIOUS
  <2> HIDE DEF x, fs
  <2>b. w.file = v.file /\ w.dirs = es /\ With(w, v.file, fs) = With(v, v.file, fs)
    BY <2>1, WithIs
  <2>c. x.file = v.file /\ x.dirs = fs
    BY <2>a, WithIs
  <2>4. w.file = v.file /\ w.dirs = es /\ x = With(w, v.file, fs) /\ x.file = v.file /\ x.dirs = fs
    BY <2>a, <2>b, <2>c
  <2>5. q[i].op = "unlink"
    <3>1. \A y : UnlinkCall(y).op = "unlink"
      BY DEF UnlinkCall
    <3> HIDE DEF T
    <3>2. q[i] = UnlinkCall(q[i].f)
      OBVIOUS
    <3> QED BY ONLY <3>1, <3>2
  <2>6. x = With(w, x.file, x.dirs)
    BY <2>4
  <2>7. Performed(q[i], w.file, w.dirs, x.file, x.dirs)
    BY <2>4, <2>5 DEF Performed, fs
  <2> HIDE DEF T
  <2>8. StepOK(q[i], w, x)
    BY <2>3, <2>5, <2>6, <2>7 DEF StepOK
  <2> QED BY <2>3, <2>8
<1> HIDE DEF T
<1>3. \A w \in T : Sound(w, q \o rest)
  BY <1>1, <1>2, QuietRun
<1>4. v \in T
  BY DEF T
<1> QED BY <1>3, <1>4

\* Good, spelled out and back.
LEMMA GoodOut ==
    ASSUME NEW v, Good(v), Steady(v)
    PROVE  v.mode = "open" /\ v.next = {} /\ GoodAs(v.file, v.dirs, v.h, v.cur)
<1>1. AreFiles(v.file)
  BY SteadyIs
<1>2. Top(v) = Last(v.dirs)
  BY DEF Top
<1> QED BY <1>1, <1>2 DEF Good, GoodAs

\* A disk that agrees with the world's own handle makes it good again.
LEMMA GoodBack ==
    ASSUME NEW v, v.mode = "open", v.next = {}, NEW F, NEW ds, GoodAs(F, ds, v.h, v.cur),
           NEW w, w = With(v, F, ds)
    PROVE  Good(w) /\ Steady(w)
<1> DEFINE hd == v.h
           s == v.cur
<1>1. w = World(F, ds, "open", hd, s, {})
  BY DEF With
<1>2. GoodAs(F, ds, hd, s)
  OBVIOUS
<1> HIDE DEF hd, s
<1> QED BY <1>1, <1>2, GoodIntro

\* Making the name table durable keeps a ledger as it is.
LEMMA NarrowsGood ==
    ASSUME NEW v, Good(v), Steady(v), NEW w, Narrows(v, w)
    PROVE  Good(w) /\ Steady(w)
<1>1. Steady(w) /\ KeepsAll(v, w) /\ Top(w) = Top(v)
  BY NarrowsSteady
<1>2. /\ w = With(v, w.file, w.dirs)
      /\ \A f \in DOMAIN v.file : HasName(Top(v), f) =>
            f \in DOMAIN w.file /\ w.file[f] = v.file[f]
  BY DEF Narrows
<1>3. w.mode = v.mode /\ w.h = v.h /\ w.cur = v.cur /\ w.next = v.next
  BY <1>2, WithIs
<1>4. /\ v.mode = "open" /\ v.next = {} /\ IsLog(v.cur)
      /\ IsHandle(v.h) /\ Matches(v.h, v.cur)
      /\ \A p \in 1..Len(v.h.parts) : v.h.parts[p].id < v.h.next
      /\ AllLead(v.file, v.dirs, v.h.gen, StableLog(v.cur))
      /\ Describes(ManifestAt(v.file, v.h.gen), v.h)
      /\ Finds(v.file, Top(v), v.h, v.cur.log)
      /\ Whole(v.file, v.h, v.cur.log)
  BY DEF Good
<1>5. v.h.gen # 0
  BY <1>4 DEF IsHandle
<1>6. AllLead(w.file, w.dirs, v.h.gen, StableLog(v.cur))
      /\ ManifestAt(w.file, v.h.gen) = ManifestAt(v.file, v.h.gen)
  BY <1>1, <1>4, <1>5 DEF KeepsAll
<1>7. \A p \in 1..Len(v.h.parts) : /\ Part(v.h.parts[p].id) \in DOMAIN w.file
                                   /\ w.file[Part(v.h.parts[p].id)] = v.file[Part(v.h.parts[p].id)]
  BY <1>2, <1>4, Named DEF Finds
<1>8. Finds(w.file, Top(w), v.h, v.cur.log)
  <2>1. Top(v).part \subseteq Top(v).part
    OBVIOUS
  <2> DEFINE F == v.file
             G == w.file
             hd == v.h
             log == v.cur.log
             d == Top(v)
  <2>2. Finds(F, d, hd, log) /\ d.part \subseteq d.part
        /\ \A p \in 1..Len(hd.parts) : /\ Part(hd.parts[p].id) \in DOMAIN G
                                       /\ G[Part(hd.parts[p].id)].live = F[Part(hd.parts[p].id)].live
    BY <1>4, <1>7
  <2> HIDE DEF F, G, hd, log, d
  <2>3. Finds(G, d, hd, log)
    BY <2>2, FindsKept
  <2> QED BY <1>1, <2>3 DEF G, d, hd, log
<1>9. Whole(w.file, v.h, v.cur.log)
  <2>1. Len(v.h.parts) \in 1..Len(v.h.parts)
    BY <1>4, HandleIs
  <2>2. w.file[Part(v.h.parts[Len(v.h.parts)].id)] = v.file[Part(v.h.parts[Len(v.h.parts)].id)]
    BY <1>7, <2>1
  <2> QED BY <1>4, <2>2 DEF Whole
<1> QED BY <1>1, <1>3, <1>4, <1>6, <1>8, <1>9 DEF Good

\* The removal of parts that are no longer needed is sound.
LEMMA UnlinkPlanSound ==
    ASSUME NEW v, Good(v), Steady(v), NEW ps, IsSeq(ps),
           \A i \in 1..Len(ps) : \A p \in 1..Len(v.h.parts) : v.h.parts[p].id # ps[i].id
    PROVE  Sound(v, UnlinkPlan(ps))
<1> DEFINE F == v.file
           hd == v.h
           s == v.cur
           E == {es \in Seq(Tables) : GoodAs(F, es, hd, s)}
           q == [i \in 1..Len(ps) |-> UnlinkCall(Part(ps[i].id))]
           rest == <<QuietSyncDir>>
<1>1. v.mode = "open" /\ v.next = {} /\ GoodAs(F, v.dirs, hd, s)
  BY GoodOut
<1>2. ASSUME NEW es, GoodAs(F, es, hd, s)
      PROVE  es \in Seq(Tables)
  <2> HIDE DEF F, hd, s
  <2>1. AllLead(F, es, hd.gen, StableLog(s))
    BY <1>2 DEF GoodAs
  <2> QED BY <2>1, TablesAre
<1>3. ASSUME NEW es \in E
      PROVE  Good(With(v, F, es)) /\ Steady(With(v, F, es))
  <2>1. GoodAs(F, es, v.h, v.cur)
    OBVIOUS
  <2> HIDE DEF F
  <2> QED BY <1>1, <2>1, GoodBack
<1>4. Len(ps) \in Nat /\ IsSeq(q) /\ Len(q) = Len(ps)
      /\ \A i \in 1..Len(ps) : q[i] = UnlinkCall(Part(ps[i].id))
  BY SeqIs, SeqIntro
<1> HIDE DEF q
<1>5. \A i \in 1..Len(q) : q[i].f = Part(ps[i].id) /\ q[i] = UnlinkCall(q[i].f)
  <2>1. \A f : UnlinkCall(f).f = f
    BY DEF UnlinkCall
  <2>2. ASSUME NEW i \in 1..Len(q)
        PROVE  q[i].f = Part(ps[i].id) /\ q[i] = UnlinkCall(q[i].f)
    <3> DEFINE f == Part(ps[i].id)
               c == q[i]
    <3>1. c = UnlinkCall(f)
      BY <1>4, <2>2
    <3> HIDE DEF f, c
    <3>2. c.f = f
      BY <2>1, <3>1
    <3>3. c = UnlinkCall(c.f)
      BY ONLY <3>1, <3>2
    <3> QED BY <3>2, <3>3 DEF f, c
  <2> QED BY <2>2
<1>6. ASSUME NEW i \in 1..Len(q), NEW es \in E
      PROVE  NamedIn(es, Unlinked(Last(es), q[i].f)) \in E
  <2> DEFINE f == q[i].f
             fs == NamedIn(es, Unlinked(Last(es), f))
  <2>1. Unused(hd, f)
    BY <1>4, <1>5, <1>6 DEF Unused
  <2>2. GoodAs(F, es, hd, s)
    BY <1>6
  <2> HIDE DEF F, hd, s, f
  <2>3. GoodAs(F, fs, hd, s)
    BY <2>1, <2>2, UnlinkGoodAs
  <2> HIDE DEF fs
  <2>4. fs \in E
    BY <1>2, <2>3
  <2> QED BY <2>4 DEF fs, f
<1>7. IsSeq(rest)
  BY SeqOne
<1>8. ASSUME NEW u, Good(u), Steady(u)
      PROVE  Sound(u, rest)
  <2>1. Good(u) /\ Steady(u)
    BY <1>8
  <2>2. PICK w : Narrows(u, w) /\ StepOK(QuietSyncDir, u, w)
    BY <2>1, DirSynced
  <2>3. Good(w)
    BY <2>1, <2>2, NarrowsGood
  <2> DEFINE c == QuietSyncDir
             e == << >>
             p == <<c>> \o e
  <2> HIDE DEF c
  <2>4. IsSeq(e)
    BY SeqEmpty
  <2> HIDE DEF e
  <2>5. p # << >> /\ Head(p) = c /\ Tail(p) = e
    BY <2>4, SeqCons
  <2>6. Sound(w, Tail(p)) /\ Sound(u, Tail(p))
    BY <2>1, <2>3, <2>5, SoundEnd DEF e
  <2>7. StepOK(Head(p), u, w)
    BY <2>2, <2>5 DEF c
  <2>8. Sound(u, p)
    BY <2>5, <2>6, <2>7, SoundStep
  <2>9. p = rest
    <3>1. IsSeq(<<c>>)
      BY SeqOne
    <3>2. p = <<c>>
      BY <3>1, CatNone DEF e
    <3> QED BY <3>2 DEF c
  <2> QED BY <2>8, <2>9
<1>9. v.dirs \in E
  BY <1>1, <1>2
<1>10. Sound(v, q \o rest)
  <2>1. \A es \in E : Steady(With(v, F, es)) /\ Sound(With(v, F, es), rest)
    BY <1>3, <1>8
  <2>2. Sound(v, rest)
    BY <1>8
  <2> HIDE DEF E, rest
  <2> QED BY <1>4, <1>5, <1>6, <1>7, <1>9, <2>1, <2>2, UnlinkRun
<1>11. UnlinkPlan(ps) = q \o rest
  BY DEF UnlinkPlan, q
<1> QED BY <1>10, <1>11

============================================================================
