--------------------------- MODULE Ledger89Scan ---------------------------
(***************************************************************************)
(* What the files of a ledger say (ledger89_format.c), what recovery makes *)
(* of them (ledger89_recover.c) and how a record is looked up              *)
(* (ledger89_read.c). Checksums are modelled by what they detect: an item  *)
(* is intact or Torn. The uuid of the ledger, the same in all files, is    *)
(* left out.                                                               *)
(***************************************************************************)
EXTENDS Ledger89Disk

Part(id) == <<"part", id>>
Man(g) == <<"man", g>>
Cur(g) == <<"cur", g>>

(***************************************************************************)
(* Encoded structures.                                                     *)
(***************************************************************************)
Header(id, rev, first) == [t |-> "header", id |-> id, rev |-> rev, first |-> first]
Marker(id, rev, end) == [t |-> "marker", id |-> id, rev |-> rev, end |-> end]
Batch(first, recs) == [t |-> "batch", first |-> first, recs |-> recs]
Footer(id, first, end, digest) ==
    [t |-> "footer", id |-> id, first |-> first, end |-> end, digest |-> digest]
Current(g) == [t |-> "current", gen |-> g]
Manifest(g, rev, first, sealed, active) ==
    [t |-> "manifest", gen |-> g, rev |-> rev, first |-> first,
     sealed |-> sealed, active |-> active]

\* A part descriptor, and the place of a batch in a part.
Desc(id, first, end) == [id |-> id, first |-> first, end |-> end]
Entry(first, count, pos, part) ==
    [first |-> first, count |-> count, pos |-> pos, part |-> part]

Corrupt == "ecorrupt"

(***************************************************************************)
(* Scanning a part. Its first item is the header, its second the baseline  *)
(* marker; batches and markers follow up to item lim.                      *)
(***************************************************************************)
\* The index after the last record of the batches up to item lim.
Expected(d, c, lim) ==
    LET After[k \in 2..lim] ==
            IF k = 2 THEN d.first
            ELSE IF c[k].t = "batch" THEN After[k - 1] + Len(c[k].recs)
                 ELSE After[k - 1]
    IN After[lim]

\* led89_scan_header and led89_scan_baseline.
ScanHead(d, c, sealed, rev) ==
    /\ Len(c) >= 2
    /\ c[1].t = "header" /\ c[1].id = d.id /\ c[1].first = d.first
    /\ c[2].t = "marker" /\ c[2].id = d.id /\ c[2].end = d.first
    /\ sealed \/ c[2].rev = rev

ScanBatches(d, c, lim, sealed, rev) ==
    \A k \in 3..lim :
        \/ c[k].t = "batch" /\ c[k].first = Expected(d, c, k - 1)
        \/ /\ c[k].t = "marker" /\ c[k].id = d.id
           /\ c[k].end = Expected(d, c, k - 1)
           /\ sealed \/ c[k].rev = rev

\* led89_part_scan of a sealed part.
ScanSealed(d, c) ==
    LET lim == Len(c) - 1
    IN /\ ScanHead(d, c, TRUE, 0)
       /\ Len(c) >= 3
       /\ c[lim + 1].t = "footer" /\ c[lim + 1].id = d.id
       /\ c[lim + 1].first = d.first /\ c[lim + 1].end = d.end
       /\ ScanBatches(d, c, lim, TRUE, 0)
       /\ Expected(d, c, lim) = d.end

\* The markers that belong to the part and the revision, wherever they are.
MarkersOf(d, c, rev) ==
    {k \in 2..Len(c) : c[k].t = "marker" /\ c[k].id = d.id /\ c[k].rev = rev}

\* led89_find_last_marker: 0 when there is none.
LastMarker(d, c, rev) ==
    LET ms == MarkersOf(d, c, rev) IN IF ms = {} THEN 0 ELSE Max(ms)

\* led89_part_scan of the active part.
ScanActive(d, c, rev) ==
    LET k == LastMarker(d, c, rev)
    IN /\ ScanHead(d, c, FALSE, rev)
       /\ k # 0
       /\ ScanBatches(d, c, k, FALSE, rev)
       /\ c[k].end = Expected(d, c, k)

\* The directory entries of the batches of part number p up to item lim.
Entries(c, lim, p) ==
    LET Dir[k \in 2..lim] ==
            IF k = 2 THEN << >>
            ELSE IF c[k].t = "batch"
                 THEN Append(Dir[k - 1], Entry(c[k].first, Len(c[k].recs), k, p))
                 ELSE Dir[k - 1]
    IN Dir[lim]

(***************************************************************************)
(* led89_recover, up to the changes it makes to the files: the handle that *)
(* CURRENT leads to, or why there is none.                                 *)
(***************************************************************************)
IsCurrent(c) == Len(c) = 1 /\ c[1].t = "current"

\* led89_manifest_decode: the descriptors are contiguous.
Contiguous(m) ==
    LET ends == <<m.first>> \o [i \in 1..Len(m.sealed) |-> m.sealed[i].end]
        firsts == [i \in 1..Len(m.sealed) |-> m.sealed[i].first]
                  \o <<m.active.first>>
    IN ends = firsts

IsManifest(c, g) ==
    /\ Len(c) = 1 /\ c[1].t = "manifest"
    /\ c[1].gen = g /\ Contiguous(c[1])

Recoverable(m) ==
    /\ \A i \in 1..Len(m.sealed) : ScanSealed(m.sealed[i], Read(Part(m.sealed[i].id)))
    /\ ScanActive(m.active, Read(Part(m.active.id)), m.rev)

\* led89_current_read and led89_manifest_read; the manifest CURRENT leads to,
\* in a set that is empty when something is missing or damaged.
Recovered ==
    LET c == Read(Cur(Names.cur))
        m == Read(Man(c[1].gen))
    IN IF IsCurrent(c) /\ IsManifest(m, c[1].gen) /\ Recoverable(m[1])
       THEN {m[1]} ELSE {}

\* The handle of a ledger that recovers to manifest m. len is the length of
\* the active part, parts[Len(parts)]; next_file_id is set later.
RecoveredHandle(m) ==
    LET act == Read(Part(m.active.id))
        k == LastMarker(m.active, act, m.rev)
        end == Expected(m.active, act, k)
        n == Len(m.sealed)
        dirOf(i) == LET c == Read(Part(m.sealed[i].id))
                    IN Entries(c, Len(c) - 1, i)
    IN [gen |-> m.gen, rev |-> m.rev, first |-> m.first,
        end |-> end, stable |-> end, dirty |-> FALSE, next |-> 0,
        parts |-> Append(m.sealed, [m.active EXCEPT !.end = end]),
        active |-> n + 1, len |-> k,
        dir |-> FlattenSeq([i \in 1..n |-> dirOf(i)]) \o Entries(act, k, n + 1)]

\* led89_gc_orphans keeps what the manifest refers to.
Referenced(m) == {m.sealed[i].id : i \in 1..Len(m.sealed)} \union {m.active.id}

(***************************************************************************)
(* Reading. led89_dir_find is a binary search over the directory; the      *)
(* batch it finds is read without looking at its header, and whatever is   *)
(* not a record fails its checksum.                                        *)
(***************************************************************************)
DirFind(dir, i) ==
    LET Half[w \in (1..Len(dir) + 1) \X (1..Len(dir) + 1)] ==
            LET lo == w[1]
                hi == w[2]
                mid == lo + (hi - lo) \div 2
            IN IF lo >= hi THEN 0
               ELSE IF i < dir[mid].first THEN Half[<<lo, mid>>]
               ELSE IF i >= dir[mid].first + dir[mid].count THEN Half[<<mid + 1, hi>>]
               ELSE mid
    IN Half[<<1, Len(dir) + 1>>]

ReadRecord(h, i) ==
    LET e == DirFind(h.dir, i)
    IN IF e = 0 THEN Corrupt
       ELSE LET c == Read(Part(h.parts[h.dir[e].part].id))
                pos == h.dir[e].pos
                k == i - h.dir[e].first + 1
            IN IF /\ pos <= Len(c) /\ c[pos].t = "batch"
                  /\ k <= Len(c[pos].recs)
               THEN c[pos].recs[k] ELSE Corrupt

\* ledger89_verify: the digest of every sealed part, the checksum of every
\* batch in the directory.
VerifyPasses(h) ==
    /\ \A i \in 1..Len(h.parts) - 1 :
          LET c == Read(Part(h.parts[i].id))
          IN /\ Len(c) > 0
             /\ c[Len(c)].t = "footer"
             /\ c[Len(c)].digest = SubSeq(c, 2, Len(c) - 1)
    /\ \A e \in 1..Len(h.dir) :
          LET c == Read(Part(h.parts[h.dir[e].part].id))
          IN h.dir[e].pos <= Len(c) /\ c[h.dir[e].pos].t = "batch"

(***************************************************************************)
(* What recovery relies on. F gives the files, d is a name table and s the *)
(* log that the ledger is to have. Used to state which directories a       *)
(* ledger may start from, and by the invariants of Ledger89Proof.          *)
(***************************************************************************)
IsSeq(c) == c \in Seq(ToSet(c))

\* A part whose items up to lim are what a part is made of, and whose batches
\* hold the records of the log.
GoodPart(d, c, lim, log) ==
    /\ IsSeq(c) /\ lim \in 2..Len(c)
    /\ \A k \in 3..lim : c[k].t = "batch" =>
          /\ Len(c[k].recs) \in Nat \ {0}
          /\ c[k].first \in 1..Len(log) + 1 - Len(c[k].recs)
          /\ \A j \in 1..Len(c[k].recs) : log[c[k].first + j - 1] = c[k].recs[j]
    /\ ScanHead(d, c, TRUE, 0)
    /\ ScanBatches(d, c, lim, TRUE, 0)

\* No sealed part is empty: rotate seals none that is, and truncate copies only
\* what begins below its end.
GoodSealed(d, c, log) ==
    /\ d.first < d.end
    /\ GoodPart(d, c, Len(c) - 1, log)
    /\ ScanSealed(d, c)
    /\ c[Len(c)].digest = SubSeq(c, 2, Len(c) - 1)

\* The active part: its last marker, behind which anything may follow, is one
\* of the revision and ends at or above the stable index.
GoodActive(d, rev, c, s) ==
    \E k \in 2..Len(c) :
        /\ GoodPart(d, c, k, s.log)
        /\ c[k].t = "marker" /\ c[k].end \in s.stable..Len(s.log) + 1
        /\ \A j \in 2..Len(c) : c[j].t = "marker" =>
              j <= k /\ c[j].id = d.id /\ c[j].rev = rev

\* It is so whatever a power loss leaves of it, and nothing marked is rewritten.
SafeActive(d, rev, f, s) ==
    /\ \A c \in Survivors(f) \union {f.live} : GoodActive(d, rev, c, s)
    /\ \A k \in 1..Len(f.hard) : f.hard[k].t = "marker" =>
          IsPrefix(SubSeq(f.hard, 1, k), f.live)

GoodManifest(m) ==
    /\ m.t = "manifest" /\ m.first \in Nat \ {0} /\ m.rev \in Nat
    /\ IsSeq(m.sealed) /\ Contiguous(m)
    /\ \A d \in ToSet(m.sealed) \union {m.active} :
          /\ d = Desc(d.id, d.first, d.end)
          /\ d.id \in Nat /\ d.first \in Nat /\ d.end \in Nat
    /\ m.active.end = m.active.first
    /\ \A i, j \in 1..Len(m.sealed) :
          m.sealed[i].id = m.sealed[j].id => i = j
    /\ \A i \in 1..Len(m.sealed) : m.sealed[i].id # m.active.id

\* The parts that manifest m refers to hold log s.
Ready(F, d, m, s) ==
    /\ GoodManifest(m) /\ m.first = s.first /\ m.rev = s.rev
    /\ Referenced(m) \subseteq d.part
    /\ \A id \in Referenced(m) : Part(id) \in DOMAIN F
    /\ \A i \in 1..Len(m.sealed) :
          LET f == F[Part(m.sealed[i].id)]
          IN f.live = f.hard /\ GoodSealed(m.sealed[i], f.live, s.log)
    /\ SafeActive(m.active, m.rev, F[Part(m.active.id)], s)

\* The table leads to a ledger with log s; without CURRENT there is none.
EmptyLog == [log |-> << >>, first |-> 1, stable |-> 1, rev |-> 0]

ManifestAt(F, g) == F[Man(g)].live[1]

Leads(F, d, s) ==
    IF d.cur = 0 THEN s = EmptyLog
    ELSE LET m == ManifestAt(F, d.cur)
         IN /\ Cur(d.cur) \in DOMAIN F /\ Man(d.cur) \in DOMAIN F
            /\ F[Cur(d.cur)].live = <<Current(d.cur)>>
            /\ F[Cur(d.cur)].hard = <<Current(d.cur)>>
            /\ d.cur \in d.man
            /\ F[Man(d.cur)].live = <<m>> /\ F[Man(d.cur)].hard = <<m>>
            /\ m.gen = d.cur
            /\ Ready(F, d, m, s)

AreFiles(F) == \A f \in DOMAIN F : F[f] = [live |-> F[f].live, hard |-> F[f].hard]

IsTable(d) ==
    /\ d \in [part : SUBSET Nat, man : SUBSET Nat, cur : Nat, tmp : Nat]
    /\ IsFiniteSet(d.part) /\ IsFiniteSet(d.man)
===========================================================================
