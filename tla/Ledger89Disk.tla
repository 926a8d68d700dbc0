--------------------------- MODULE Ledger89Disk ---------------------------
(***************************************************************************)
(* The directory of a ledger on a file system that can lose power: the     *)
(* calls of led89_io with which ledger89 changes it, and what survives.    *)
(* The ledger issues the calls one after another; a list of calls still to *)
(* be made is a plan (see Ledger89).                                       *)
(*                                                                         *)
(* A file is named by <<kind, number>>: a part by its file id, a manifest  *)
(* by its generation, the file behind CURRENT or CURRENT.tmp by the        *)
(* generation it was written for. Its content is a sequence of items, each *)
(* standing for the bytes of one encoded structure.                        *)
(***************************************************************************)
EXTENDS Naturals, Sequences, SequencesExt

VARIABLES
    file,  \* file name -> what processes read and what fsync made durable
    dirs   \* the name tables since the last fsync of the directory

disk == <<file, dirs>>

\* An item cut off by a crash or a failed write.
Torn == [t |-> "torn"]

\* The name table that processes see. cur and tmp are the generations that
\* CURRENT and CURRENT.tmp hold, 0 when there is no such name.
Names == Last(dirs)

EmptyTable == [part |-> {}, man |-> {}, cur |-> 0, tmp |-> 0]

HasName(d, f) ==
    CASE f[1] = "part" -> f[2] \in d.part
      [] f[1] = "man" -> f[2] \in d.man
      [] f[1] = "cur" -> f[2] \in {d.cur, d.tmp}

AddName(d, f) ==
    CASE f[1] = "part" -> [d EXCEPT !.part = @ \union {f[2]}]
      [] f[1] = "man" -> [d EXCEPT !.man = @ \union {f[2]}]
      [] f[1] = "cur" -> [d EXCEPT !.tmp = f[2]]

Read(f) == IF HasName(Names, f) THEN file[f].live ELSE << >>

SetNames(d) == dirs' = IF d = Names THEN dirs ELSE Append(dirs, d)

\* open(CREATE) followed by truncate(0).
Create(f) ==
    /\ SetNames(AddName(Names, f))
    /\ file' = [g \in DOMAIN file \union {f} |->
                   IF g # f THEN file[g]
                   ELSE [live |-> << >>,
                         hard |-> IF f \in DOMAIN file THEN file[f].hard
                                  ELSE << >>]]

\* pwrite at the end of the file.
Write(f, item) ==
    /\ file' = [file EXCEPT ![f].live = Append(@, item)]
    /\ UNCHANGED dirs

\* truncate to the first n items.
Trim(f, n) ==
    /\ file' = [file EXCEPT ![f].live = SubSeq(@, 1, n)]
    /\ UNCHANGED dirs

\* fdatasync.
Fsync(f) ==
    /\ file' = [file EXCEPT ![f].hard = file[f].live]
    /\ UNCHANGED dirs

\* The files that some name table still reaches.
Reached(ds) == {f \in DOMAIN file : \E d \in ToSet(ds) : HasName(d, f)}

\* fsync of the directory.
SyncDir ==
    /\ dirs' = <<Names>>
    /\ file' = [f \in Reached(dirs') |-> file[f]]

\* rename of CURRENT.tmp, written for generation g, to CURRENT.
Rename(g) ==
    /\ SetNames([Names EXCEPT !.cur = g, !.tmp = 0])
    /\ UNCHANGED file

Unlink(f) ==
    /\ SetNames(CASE f[1] = "part" -> [Names EXCEPT !.part = @ \ {f[2]}]
                  [] f[1] = "man" -> [Names EXCEPT !.man = @ \ {f[2]}]
                  [] f[1] = "cur" -> [Names EXCEPT !.tmp = 0])
    /\ UNCHANGED file

(***************************************************************************)
(* One call of a plan.                                                     *)
(***************************************************************************)
Perform(c) ==
    \/ c.op = "create" /\ Create(c.f)
    \/ c.op = "write" /\ Write(c.f, c.item)
    \/ c.op = "seal" /\ Write(c.f, [c.item EXCEPT !.digest = Tail(Read(c.f))])
    \/ c.op = "trim" /\ Trim(c.f, c.n)
    \/ c.op = "fsync" /\ Fsync(c.f)
    \/ c.op = "syncdir" /\ SyncDir
    \/ c.op = "rename" /\ Rename(c.g)
    \/ c.op = "unlink" /\ Unlink(c.f)

\* A call that returns an error has had no effect, a part of it or all of it.
Misperform(c) ==
    \/ UNCHANGED disk
    \/ c.op = "create" /\ Create(c.f)
    \/ c.op = "write" /\ Write(c.f, c.item)
    \/ c.op \in {"write", "seal"} /\ Write(c.f, Torn)
    \/ c.op = "trim" /\ Trim(c.f, c.n)

(***************************************************************************)
(* Power loss. Of a file survives what fsync reported, or a longer prefix  *)
(* of what was written after it, its last item perhaps torn, or what was   *)
(* cut off; of the directory, any table since its last fsync.              *)
(***************************************************************************)
Survivors(f) ==
    {f.hard} \union
    {p \in {SubSeq(f.live, 1, n) : n \in 0..Len(f.live)}
           \union {Append(SubSeq(f.live, 1, n), Torn) : n \in 0..Len(f.live) - 1} :
        /\ IsPrefix(f.hard, f.live) => IsPrefix(f.hard, p)
        /\ IsPrefix(f.live, f.hard) => p = f.live}

PowerLoss ==
    \E d \in ToSet(dirs) :
        LET kept == Reached(<<d>>)
            open == {f \in kept : file[f].live # file[f].hard}
        IN \E cut \in [open -> UNION {Survivors(file[f]) : f \in open}] :
              /\ \A f \in open : cut[f] \in Survivors(file[f])
              /\ dirs' = <<d>>
              /\ file' = [f \in kept |->
                             LET c == IF f \in open THEN cut[f]
                                      ELSE file[f].hard
                             IN [live |-> c, hard |-> c]]
===========================================================================
