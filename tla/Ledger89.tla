----------------------------- MODULE Ledger89 -----------------------------
(***************************************************************************)
(* A ledger handle (ledger89.c, ledger89_segment.c, ledger89_truncate.c,   *)
(* ledger89_manifest.c) over a directory that can lose power.              *)
(*                                                                         *)
(* An operation computes its plan, the file system calls and assignments   *)
(* it makes in order; Io makes the next one. Any call can fail, and the    *)
(* power or the process can fail between two of them.                      *)
(***************************************************************************)
EXTENDS Ledger89Scan

CONSTANTS
    Value,       \* records
    Gone,        \* what an application knows of a pruned record
    Batches,     \* the batches that are appended
    PartTarget,  \* records after which an append starts a new part
    MaxEnd,      \* the last end index the application reaches
    MaxOps,      \* operations of the application
    MaxFails,    \* failures, power losses and reopenings
    Faults,      \* \subseteq {"io", "nomem", "publish", "list", "reopen"}
    Boot         \* the directories, and their logs, that ledgers start from

\* led89_appendv accepts no empty list.
ASSUME BatchesAssumption == Batches \subseteq Seq(Value) \ {<< >>}

ASSUME BoundsAssumption == MaxOps \in Nat /\ MaxFails \in Nat

\* Ledgers that have been closed, all of their records stable.
IsLog(s) ==
    /\ s = [log |-> s.log, first |-> s.first, stable |-> s.stable, rev |-> s.rev]
    /\ s.log \in Seq(Value \union {Gone}) /\ s.rev \in Nat
    /\ s.first \in 1..Len(s.log) + 1 /\ s.stable \in s.first..Len(s.log) + 1
    /\ \A i \in 1..s.first - 1 : s.log[i] = Gone

ASSUME BootAssumption ==
    \A start \in Boot :
        /\ AreFiles(start.file) /\ IsTable(start.names) /\ IsLog(start.log)
        /\ \A f \in DOMAIN start.file :
              IsPrefix(start.file[f].hard, start.file[f].live)
        /\ start.log.stable = Len(start.log.log) + 1
        /\ Leads(start.file, start.names, start.log)

VARIABLES
    mode,   \* "closed", "opening", "open", "readonly", "poisoned",
            \* "failed" when opening failed and freed the handle
    h,      \* the handle
    todo,   \* the rest of the plan of the current operation
    told,   \* what the application was told: a DurableLog
    ops,    \* operations so far
    fails   \* failures so far

vars == <<file, dirs, mode, h, todo, told, ops, fails>>

NoHandle == [gen |-> 0]

(***************************************************************************)
(* Plans.                                                                  *)
(***************************************************************************)
CreateCall(f) == [op |-> "create", f |-> f]
WriteCall(f, item) == [op |-> "write", f |-> f, item |-> item]
SealCall(d) ==
    [op |-> "seal", f |-> Part(d.id), item |-> Footer(d.id, d.first, d.end, << >>)]
TrimCall(f, n) == [op |-> "trim", f |-> f, n |-> n]
FsyncCall(f) == [op |-> "fsync", f |-> f]
SyncDirCall == [op |-> "syncdir", quiet |-> FALSE]
QuietSyncDir == [op |-> "syncdir", quiet |-> TRUE]
RenameCall(g) == [op |-> "rename", g |-> g]
UnlinkCall(f) == [op |-> "unlink", f |-> f]

\* An allocation; when it fails the operation returns ENOMEM, and poisons
\* the handle unless the code forgets to.
Alloc(poisons) == [op |-> "alloc", poisons |-> poisons]

\* Assignments to the handle and, on success, what the application learns.
Set(handle) == [op |-> "set", h |-> handle, told |-> {}]
Return(handle, s) == [op |-> "set", h |-> handle, told |-> {s}]

Quiet(c) == c.op = "unlink" \/ (c.op = "syncdir" /\ c.quiet)

PartCreate(id, first, rev) ==
    <<CreateCall(Part(id)), WriteCall(Part(id), Header(id, rev, first)),
      WriteCall(Part(id), Marker(id, rev, first)), FsyncCall(Part(id))>>

WriteNewFile(f, item) == <<CreateCall(f), WriteCall(f, item), FsyncCall(f)>>

\* Mutant: the manifest is published without syncing its file.
ManifestPublishUnsynced(m) ==
    <<CreateCall(Man(m.gen)), WriteCall(Man(m.gen), m), SyncDirCall>>

ManifestPublish(m) == WriteNewFile(Man(m.gen), m) \o <<SyncDirCall>>

CurrentPublish(g) ==
    WriteNewFile(Cur(g), Current(g)) \o <<RenameCall(g), SyncDirCall>>

\* The manifest of a handle: its last part is the active one.
ManifestOf(hd, g, rev) ==
    LET n == Len(hd.parts)
    IN Manifest(g, rev, hd.first, SubSeq(hd.parts, 1, n - 1),
                [hd.parts[n] EXCEPT !.end = hd.parts[n].first])

(***************************************************************************)
(* sync and rotate.                                                        *)
(***************************************************************************)
Active(hd) == hd.parts[hd.active]

Synced(hd) ==
    [hd EXCEPT !.stable = hd.end, !.dirty = FALSE,
               !.len = IF hd.dirty THEN @ + 1 ELSE @]

SyncedLog(s) == [s EXCEPT !.stable = Len(s.log) + 1]

\* Mutant: sync writes its marker and does not wait for it.
SyncPlanNoFsync(hd, s) ==
    IF ~hd.dirty THEN << >>
    ELSE <<WriteCall(Part(Active(hd).id), Marker(Active(hd).id, hd.rev, hd.end)),
           Return(Synced(hd), SyncedLog(s))>>

SyncPlan(hd, s) ==
    LET f == Part(Active(hd).id)
    IN IF ~hd.dirty THEN << >>
       ELSE <<WriteCall(f, Marker(Active(hd).id, hd.rev, hd.end)), FsyncCall(f),
              Return(Synced(hd), SyncedLog(s))>>

MustRotate(hd) == hd.end # Active(hd).first

Rotated(hd) ==
    [Synced(hd) EXCEPT
        !.parts = Append([@ EXCEPT ![hd.active].end = hd.end],
                         Desc(hd.next, hd.end, hd.end)),
        !.active = Len(hd.parts) + 1, !.len = 2,
        !.next = @ + 1, !.gen = @ + 1]

RotatePlan(hd, s) ==
    LET r == Rotated(hd)
        old == Active(hd)
    IN SyncPlan(hd, s)
       \o <<SealCall([old EXCEPT !.end = hd.end]), FsyncCall(Part(old.id))>>
       \o PartCreate(hd.next, hd.end, hd.rev)
       \o <<Alloc(TRUE)>>
       \o ManifestPublish(ManifestOf(r, r.gen, r.rev))
       \o CurrentPublish(r.gen)
       \o <<Return(r, SyncedLog(s))>>

(***************************************************************************)
(* append.                                                                 *)
(***************************************************************************)
PartFull(hd, recs) ==
    MustRotate(hd) /\ hd.end - Active(hd).first + Len(recs) > PartTarget

Appended(hd, recs) ==
    [hd EXCEPT !.end = @ + Len(recs), !.dirty = TRUE, !.len = @ + 1,
               !.dir = Append(@, Entry(hd.end, Len(recs), hd.len + 1, hd.active))]

ActiveAppend(hd, s, recs) ==
    <<WriteCall(Part(Active(hd).id), Batch(hd.end, recs)), Alloc(TRUE),
      Return(Appended(hd, recs), [s EXCEPT !.log = @ \o recs])>>

AppendPlan(hd, s, recs) ==
    IF PartFull(hd, recs)
    THEN RotatePlan(hd, s) \o ActiveAppend(Rotated(hd), SyncedLog(s), recs)
    ELSE ActiveAppend(hd, s, recs)

(***************************************************************************)
(* truncate_from and prune_before.                                         *)
(***************************************************************************)
\* The number of sealed parts that end at or before i.
PartsUpTo(hd, i) ==
    LET n == Len(hd.parts) - 1
    IN Max({k \in 0..n : \A p \in 1..k : hd.parts[p].end <= i})

\* led89_publish_manifest, which forgets to poison on ENOMEM.
PublishPlan(hd, rev) ==
    (IF Len(hd.parts) > 1 THEN <<Alloc(FALSE)>> ELSE << >>)
    \o <<Alloc(TRUE)>>
    \o ManifestPublish(ManifestOf(hd, hd.gen + 1, rev))
    \o CurrentPublish(hd.gen + 1)

UnlinkPlan(ps) ==
    [i \in 1..Len(ps) |-> UnlinkCall(Part(ps[i].id))] \o <<QuietSyncDir>>

\* led89_copy_entry: a batch below from is copied, a batch across it is split
\* into batches of one record.
CopyEntry(hd, e, from) ==
    LET recs == Read(Part(hd.parts[e.part].id))[e.pos].recs
    IN IF e.first + e.count <= from THEN <<Batch(e.first, recs)>>
       ELSE [k \in 1..from - e.first |-> Batch(e.first + k - 1, <<recs[k]>>)]

\* led89_copy_prefix: the run of entries of the part that begin below from.
Copies(hd, boundary, from) ==
    LET n == Len(hd.dir)
        start == Max({k \in 0..n : \A e \in 1..k : hd.dir[e].part # boundary})
        stop == Max({k \in start..n : \A e \in start + 1..k :
                        hd.dir[e].part = boundary /\ hd.dir[e].first < from})
    IN FlattenSeq([i \in 1..stop - start |-> CopyEntry(hd, hd.dir[start + i], from)])

\* led89_make_copy: the part before from, sealed, as one more part of hd.
WithCopy(hd, boundary, from, cs, n) ==
    LET p == Len(hd.parts) + 1
    IN [hd EXCEPT
           !.parts = Append(@, Desc(hd.next, hd.parts[boundary].first, from)),
           !.next = @ + 1,
           !.dir = @ \o [k \in 1..n |-> Entry(cs[k].first, Len(cs[k].recs), 2 + k, p)]]

\* Mutant: the copy is sealed before its last marker is written.
CopyPlanSealFirst(hd, boundary, from, rev) ==
    LET cs == Copies(hd, boundary, from)
        f == Part(hd.next)
        first == hd.parts[boundary].first
    IN PartCreate(hd.next, first, rev)
       \o FlattenSeq([k \in 1..Len(cs) |->
             <<WriteCall(f, cs[k]), Set(WithCopy(hd, boundary, from, cs, k))>>])
       \o <<SealCall(Desc(hd.next, first, from)),
            WriteCall(f, Marker(hd.next, rev, from)), FsyncCall(f)>>

CopyPlan(hd, boundary, from, rev) ==
    LET cs == Copies(hd, boundary, from)
        f == Part(hd.next)
        first == hd.parts[boundary].first
    IN PartCreate(hd.next, first, rev)
       \o FlattenSeq([k \in 1..Len(cs) |->
             <<WriteCall(f, cs[k]), Set(WithCopy(hd, boundary, from, cs, k))>>])
       \o <<WriteCall(f, Marker(hd.next, rev, from)),
            SealCall(Desc(hd.next, first, from)), FsyncCall(f)>>

\* The new, empty active part as one more part of hd.
WithActive(hd, from) ==
    [hd EXCEPT !.parts = Append(@, Desc(hd.next, from, from)), !.next = @ + 1]

\* led89_kept_entries: the entries before the first one of a part behind p.
EntriesUpTo(dir, p) ==
    Max({k \in 0..Len(dir) : \A e \in 1..k : dir[e].part <= p})

\* Mutant: the entries of the copy keep the number it had in the old list.
MoveDirStale(hd, keep, old) ==
    [hd EXCEPT !.dir = SubSeq(@, 1, EntriesUpTo(@, keep)) \o SubSeq(@, old + 1, Len(@))]

\* led89_move_dir: the entries of the kept parts and, renumbered, of the copy,
\* which follow the old ones.
MoveDir(hd, keep, old) ==
    [hd EXCEPT !.dir =
        SubSeq(@, 1, EntriesUpTo(@, keep))
        \o [k \in 1..Len(hd.dir) - old |->
               [hd.dir[old + k] EXCEPT !.part = keep + 1]]]

DropDir(hd, keep) ==
    [hd EXCEPT !.dir = SubSeq(@, 1, EntriesUpTo(@, keep))]

\* Mutant: the active part is taken to be the one behind the last.
RebuildPartsOff(hd, keep, n) ==
    LET all == Len(hd.parts)
    IN [hd EXCEPT !.parts = SubSeq(@, 1, keep) \o SubSeq(@, all - n + 1, all),
                  !.active = keep + n + 1, !.len = 2]

\* led89_rebuild_parts: the kept parts and the n new ones.
RebuildParts(hd, keep, n) ==
    LET all == Len(hd.parts)
    IN [hd EXCEPT !.parts = SubSeq(@, 1, keep) \o SubSeq(@, all - n + 1, all),
                  !.active = keep + n, !.len = 2]

TruncatedLog(s, from) ==
    [s EXCEPT !.log = SubSeq(@, 1, from - 1), !.stable = from, !.rev = @ + 1]

TruncatePlan(hd, s, from) ==
    LET keep == PartsUpTo(hd, from)
        boundary == keep + 1
        copies == from > hd.parts[boundary].first
        rev == hd.rev + 1
        cs == Copies(hd, boundary, from)
        h1 == IF copies THEN WithCopy(hd, boundary, from, cs, Len(cs)) ELSE hd
        h2 == WithActive(h1, from)
        h3 == IF copies THEN MoveDir(h2, keep, Len(hd.dir)) ELSE DropDir(h2, keep)
        h4 == RebuildParts(h3, keep, IF copies THEN 2 ELSE 1)
        h5 == [h4 EXCEPT !.gen = @ + 1, !.rev = rev, !.end = from,
                         !.stable = from, !.dirty = FALSE]
    IN (IF copies THEN CopyPlan(hd, boundary, from, rev) ELSE << >>)
       \o PartCreate(h1.next, from, rev)
       \o <<Set(h3), Alloc(TRUE), Set(h4)>>
       \o PublishPlan(h4, rev)
       \o <<Return(h5, TruncatedLog(s, from))>>
       \o UnlinkPlan(SubSeq(hd.parts, boundary, Len(hd.parts)))

Shifted(hd, drop) ==
    LET gone == EntriesUpTo(hd.dir, drop)
    IN [hd EXCEPT !.first = hd.parts[drop + 1].first,
                  !.parts = SubSeq(@, drop + 1, Len(@)),
                  !.active = Len(hd.parts) - drop,
                  !.dir = [k \in 1..Len(hd.dir) - gone |->
                              [hd.dir[gone + k] EXCEPT !.part = @ - drop]]]

PrunedLog(s, to) ==
    [s EXCEPT !.first = to,
              !.log = [i \in DOMAIN @ |-> IF i < to THEN Gone ELSE @[i]]]

PrunePlan(hd, s, requested) ==
    LET drop == PartsUpTo(hd, requested)
        h1 == Shifted(hd, drop)
    IN <<Set(h1)>>
       \o PublishPlan(h1, hd.rev)
       \o <<Return([h1 EXCEPT !.gen = @ + 1], PrunedLog(s, h1.first))>>
       \o UnlinkPlan(SubSeq(hd.parts, 1, drop))

(***************************************************************************)
(* Operations of an application on an open handle (led89_check_mutable).   *)
(***************************************************************************)
Idle == todo = << >>

Mutable == Idle /\ mode = "open"

Start(plan, pending) ==
    /\ ops < MaxOps /\ ops' = ops + 1
    /\ todo' = plan
    /\ told' = [told EXCEPT !.next = pending]
    /\ UNCHANGED <<file, dirs, mode, h, fails>>

AppendOp ==
    /\ Mutable
    /\ \E recs \in Batches :
          /\ h.end + Len(recs) <= MaxEnd
          /\ Start(AppendPlan(h, told.cur, recs), {})

SyncOp ==
    /\ Mutable /\ h.dirty
    /\ Start(SyncPlan(h, told.cur), {})

RotateOp ==
    /\ Mutable /\ MustRotate(h)
    /\ Start(RotatePlan(h, told.cur), {})

TruncateOp ==
    /\ Mutable /\ h.end = h.stable
    /\ \E from \in h.first..h.end - 1 :
          Start(TruncatePlan(h, told.cur, from), {TruncatedLog(told.cur, from)})

PruneOp ==
    /\ Mutable
    /\ \E requested \in h.first + 1..h.stable :
          LET drop == PartsUpTo(h, requested)
          IN /\ drop > 0
             /\ Start(PrunePlan(h, told.cur, requested),
                      {PrunedLog(told.cur, h.parts[drop + 1].first)})

(***************************************************************************)
(* led89_open_io. A writer trims the active part behind its last marker    *)
(* and removes what the manifest does not refer to.                        *)
(***************************************************************************)
LogOf(hd) ==
    [log |-> [i \in 1..hd.end - 1 |->
                 IF i < hd.first THEN Gone ELSE ReadRecord(hd, i)],
     first |-> hd.first, stable |-> hd.stable, rev |-> hd.rev]

TmpOrphan == IF Names.tmp = 0 THEN {} ELSE {Cur(Names.tmp)}

UnlinkAll(fs) == LET q == SetToSeq(fs) IN [i \in 1..Len(q) |-> UnlinkCall(q[i])]

\* Mutant: recovery leaves what follows the last marker in the file.
TrimNothing(hd) == << >>

TrimPlan(hd) ==
    LET f == Part(Active(hd).id)
    IN IF hd.len >= Len(Read(f)) THEN << >>
       ELSE <<TrimCall(f, hd.len), FsyncCall(f)>>

GcOrphans(m) ==
    UnlinkAll(TmpOrphan \union {Part(id) : id \in Names.part \ Referenced(m)})

\* Mutant: the largest file id is taken again.
LastFileIds(m) == {Max(Names.part \union {m.active.id})}

\* The next file id; list_open may fail, and then it is left at 0.
NextFileIds(m) ==
    {Max(Names.part \union {m.active.id}) + 1}
    \union (IF "list" \in Faults THEN {0} ELSE {})

NewHandle ==
    [gen |-> 1, rev |-> 0, first |-> 1, end |-> 1, stable |-> 1,
     dirty |-> FALSE, next |-> 2, parts |-> <<Desc(1, 1, 1)>>, active |-> 1,
     len |-> 2, dir |-> << >>]

\* led89_clean_dir_for_create and led89_create_ledger.
CreateLedger ==
    UnlinkAll(TmpOrphan \union {Part(id) : id \in Names.part}
              \union {Man(g) : g \in Names.man})
    \o PartCreate(1, 1, 0)
    \o ManifestPublish(ManifestOf(NewHandle, 1, 0))
    \o CurrentPublish(1)
    \o <<Return(NewHandle, LogOf(NewHandle))>>

OpenPlan(m, id) ==
    LET hd == [RecoveredHandle(m) EXCEPT !.next = id]
    IN TrimPlan(hd)
       \o (IF id = 0 THEN << >> ELSE GcOrphans(m))
       \o <<Return(hd, LogOf(hd))>>

OpenPlans ==
    IF Names.cur = 0 THEN {CreateLedger}
    ELSE UNION {{OpenPlan(m, id) : id \in NextFileIds(m)} : m \in Recovered}

OpenOp ==
    /\ mode = "closed"
    /\ todo' \in OpenPlans
    /\ mode' = "opening"
    /\ UNCHANGED <<file, dirs, h, told, ops, fails>>

OpenReadOnly ==
    /\ mode = "closed" /\ Names.cur # 0
    /\ \E m \in Recovered :
          LET hd == [RecoveredHandle(m) EXCEPT !.next = Max(Referenced(m)) + 1]
          IN h' = hd /\ told' = [cur |-> LogOf(hd), next |-> {}]
    /\ mode' = "readonly"
    /\ UNCHANGED <<file, dirs, todo, ops, fails>>

\* The application closes the ledger, or its process ends: between two
\* operations or, with "reopen", in the middle of one or after a failed one.
Close ==
    /\ \/ Idle /\ mode \in {"open", "readonly"} /\ UNCHANGED fails
       \/ /\ "reopen" \in Faults /\ mode # "closed"
          /\ fails < MaxFails /\ fails' = fails + 1
    /\ mode' = "closed" /\ h' = NoHandle /\ todo' = << >>
    /\ UNCHANGED <<file, dirs, told, ops>>

(***************************************************************************)
(* The steps of a plan and their failures.                                 *)
(***************************************************************************)
\* The assignments of a plan; the last one returns to the application.
Assign ==
    /\ todo # << >> /\ Head(todo).op = "set"
    /\ todo' = Tail(todo)
    /\ h' = Head(todo).h
    /\ IF Head(todo).told = {} THEN UNCHANGED told
       ELSE \E s \in Head(todo).told : told' = [cur |-> s, next |-> {}]
    /\ mode' = IF mode = "opening" THEN "open" ELSE mode
    /\ UNCHANGED <<file, dirs, ops, fails>>

Io ==
    /\ todo # << >> /\ Head(todo).op # "set"
    /\ IF Head(todo).op = "alloc" THEN UNCHANGED disk ELSE Perform(Head(todo))
    /\ todo' = Tail(todo)
    /\ UNCHANGED <<mode, h, told, ops, fails>>

\* A failed call ends the operation; opening frees the handle.
IoFails ==
    /\ "io" \in Faults /\ fails < MaxFails /\ fails' = fails + 1
    /\ todo # << >> /\ Head(todo).op \notin {"set", "alloc"}
    /\ IF Quiet(Head(todo))
       THEN /\ todo' = Tail(todo)
            /\ UNCHANGED <<file, dirs, mode, h>>
       ELSE /\ Misperform(Head(todo))
            /\ todo' = << >>
            /\ mode' = IF mode = "opening" THEN "failed" ELSE "poisoned"
            /\ h' = IF mode = "opening" THEN NoHandle ELSE h
    /\ UNCHANGED <<told, ops>>

AllocFails ==
    /\ fails < MaxFails /\ fails' = fails + 1
    /\ todo # << >> /\ Head(todo).op = "alloc"
    /\ todo' = << >>
    /\ IF Head(todo).poisons
       THEN "nomem" \in Faults /\ mode' = "poisoned" /\ UNCHANGED told
       ELSE /\ "publish" \in Faults
            /\ told' = [told EXCEPT !.next = {}] /\ UNCHANGED mode
    /\ UNCHANGED <<file, dirs, h, ops>>

\* Power fails: the process is gone, and what was not durable may be.
Crash ==
    /\ fails < MaxFails /\ fails' = fails + 1
    /\ PowerLoss
    /\ mode' = "closed" /\ h' = NoHandle /\ todo' = << >>
    /\ UNCHANGED <<told, ops>>

Init ==
    /\ \E start \in Boot :
          /\ file = start.file /\ dirs = <<start.names>>
          /\ told = [cur |-> start.log, next |-> {}]
    /\ mode = "closed" /\ h = NoHandle /\ todo = << >>
    /\ ops = 0 /\ fails = 0

Next ==
    \/ AppendOp \/ SyncOp \/ RotateOp \/ TruncateOp \/ PruneOp
    \/ OpenOp \/ OpenReadOnly \/ Close
    \/ Assign \/ Io \/ IoFails \/ AllocFails \/ Crash

Spec == Init /\ [][Next]_vars

(***************************************************************************)
(* Properties.                                                             *)
(***************************************************************************)
LedgerTypeOK ==
    /\ mode \in {"closed", "opening", "open", "readonly", "poisoned", "failed"}
    /\ mode \in {"open", "readonly"} =>
          /\ h.first <= h.stable /\ h.stable <= h.end
          /\ h.active \in 1..Len(h.parts)
    /\ told.cur.log \in Seq(Value \union {Gone})
    /\ ops \in 0..MaxOps /\ fails \in 0..MaxFails

Log == INSTANCE DurableLog WITH
           cur <- told.cur, next <- told.next, up <- mode \in {"open", "readonly"}

\* Whatever fails and whenever, the application finds its log again: what sync
\* acknowledged, no index twice, a truncation or a pruning entirely or not at
\* all (ledger89.h "never a mixture", ledger89_truncate.c).
ImplementsDurableLog == Log!DurableSpec

\* What an open handle has reported below stable_end is found again by the
\* next one, unless a truncation or a pruning was under way (ledger89.h
\* "Records guaranteed locally durable", led89_recover).
StableSurvives ==
    [][mode \notin {"open", "readonly"} /\ mode' \in {"open", "readonly"}
          /\ told.next = {} =>
              /\ told'.cur.stable >= told.cur.stable
              /\ \A i \in 1..told.cur.stable - 1 :
                    told'.cur.log[i] = told.cur.log[i]]_vars

\* No power loss leaves a directory that opening refuses as corrupt
\* (led89_recover).
AlwaysRecovers == mode = "closed" => OpenPlans # {}

\* Reading returns the record the application appended at that index. A
\* poisoned handle returns it or an error, never another record, unless the
\* truncation or pruning that failed may have left the directory in memory and
\* the parts out of step: ledger89_truncate.c moves the directory entries (504)
\* before it can fail to allocate the list of obsolete parts (510) and renames
\* the parts after that (521) (led89_dir_find, led89_read_body).
ReadsAreExact ==
    /\ Idle
    /\ \/ mode \in {"open", "readonly"}
       \/ mode = "poisoned" /\ told.next = {}
    => \A i \in h.first..h.end - 1 :
          LET r == ReadRecord(h, i)
          IN r = told.cur.log[i] \/ (mode = "poisoned" /\ r = Corrupt)

\* The next batch or marker goes exactly behind what the handle knows of the
\* active part: nothing it does not know of follows (led89_trim_active).
WritesAtEnd ==
    mode = "open" /\ Idle => h.len = Len(Read(Part(Active(h).id)))

\* verify finds nothing to complain of in a ledger that works.
VerifyFindsNothing == mode = "open" /\ Idle => VerifyPasses(h)

\* The parts that the durable CURRENT leads to only grow, and its sealed
\* parts never change, until another CURRENT is durable
\* (ledger89_truncate.c "never destructively modified").
PublishedParts ==
    LET g == dirs[1].cur
        c == file[Cur(g)].hard
    IN IF g = 0 THEN {} ELSE Referenced(file[Man(g)].hard[1])

PublishedImmutable ==
    [][\A id \in PublishedParts :
          id \in PublishedParts' =>
              /\ Part(id) \in DOMAIN file'
              /\ LET c == file[Part(id)].hard
                     m == Max({k \in 1..Len(c) : c[k].t = "marker"})
                 IN IsPrefix(SubSeq(c, 1, m), file'[Part(id)].live)]_vars
===========================================================================
