------------------------------ MODULE FatFsInv ------------------------------
(***************************************************************************)
(* The invariants of FatFs, in layers, each inductive on top of the ones   *)
(* before as long as the commands leave the open log alone and nobody      *)
(* writes on after a short write (TouchesOpenLog, GoesOnWhenFull):         *)
(*   BaseInv   the types, the window, the names, the running call and the  *)
(*             entries of its files;                                       *)
(*   SyncInv   what a sync leaves on the card;                             *)
(*   ChainInv  every chain of the FAT, in memory and on the card, belongs  *)
(*             to one entry, open file or call, and every file is at its   *)
(*             place in its chain;                                         *)
(*   TableInv  the tables of directories are clean;                        *)
(*   LostInv   with SavedInv, every cluster in use is in a chain;          *)
(*   KeptInv   what an entry or a file claims to hold is on the card, or   *)
(*             in the buffer of the file.                                  *)
(* FatFsProofs proves them.                                                *)
(***************************************************************************)
EXTENDS FatFs

FatVal == {0, EOC} \cup Clust
Org    == {0} \cup Clust
Entry  == [name : Name \cup {NoName}, org : Org, size : Nat, isDir : BOOLEAN]
Card   == [fat : [Clust -> FatVal], dir : [Slots -> Entry], data : [DataSects -> Int]]
File   == [open : BOOLEAN, slot : Nat, org : {1} \cup Org, curr : Org, fptr : Nat,
           fsize : Nat, sc : 0 .. 255, sect : Nat, buf : Nat, dirty : BOOLEAN,
           written : BOOLEAN, err : BOOLEAN]
Busy   == {"write", "link", "grown", "sync", "flush"}
Making == {"mkdir", "table", "entry", "made"}

(* The types of the variables. *)
TypeOK ==
  /\ fat \in [Clust -> FatVal] /\ dir \in [Slots -> Entry] /\ card \in Card
  /\ win \in Int /\ winflag \in BOOLEAN /\ last_clust \in Nat
  /\ file \in [{"log", "wr"} -> File]
  /\ pc \in {"idle", "free", "cat"} \cup Busy \cup Making
  /\ fp \in {"log", "wr"} /\ btw \in Nat /\ clust \in FatVal /\ rs \in Org
  /\ after \in {"keep", "open", "unlink", "close"} /\ mishaps \in Nat

(* Only the sector in the window differs from what is on the card. *)
Coherent ==
  /\ \A c \in Clust : card.fat[c] # fat[c] => winflag /\ win = FatSect(c)
  /\ card.dir # dir => winflag /\ win = DirSect

(* Names are unique, and an entry without one is empty. *)
Names(D) ==
  /\ \A s, t \in Slots : D[s].name = D[t].name => s = t \/ D[s].name = NoName
  /\ \A s \in Slots : /\ D[s].name = NoName => D[s] = Empty
                      /\ D[s].isDir => D[s].org \in Clust /\ D[s].size = 0

NamesInv == Names(dir) /\ Names(card.dir)

(* The call that is running, and the files that are open meanwhile. *)
CallInv ==
  /\ pc \in Busy => file[fp].open
  /\ pc \notin Busy \cup {"cat"} => fp = "log"
  /\ pc = "cat" => file["wr"].open
  /\ file["wr"].open => pc = "cat" \/ (fp = "wr" /\ pc \in Busy)
  /\ fp = "wr" /\ pc \in {"sync", "flush"} => after = "close"
  /\ pc = "free" => after \in {"open", "unlink"}
  /\ pc \in {"sync", "flush"} => after \in {"keep", "close"}
  /\ pc \notin {"free", "sync", "flush"} => after = "keep"
  /\ pc \in {"link", "grown", "table", "entry"} => clust \in Clust

(* The position of an open file, and the count of sectors left in its      *)
(* cluster: zero says that the card was full.                              *)
Positioned(r) ==
  r.open => /\ r.org = 1 => r.err /\ ~r.written
            /\ r.fptr = 0 => r.sc <= 1 /\ (r.written => r.sc = 0)
            /\ r.fptr > 0 => r.curr \in Clust

FilesInv ==
  /\ \A f \in {"log", "wr"} : Positioned(file[f])
  /\ file["wr"].open => ~file["wr"].err
  /\ pc \in {"write", "link", "grown"} =>
       /\ ~file[fp].err /\ (file[fp].sc = 0 => btw = 0)
       /\ btw = 0 => file[fp].fptr > 0 \/ file[fp].sc = 0
  /\ pc \in {"link", "grown"} =>
       btw > 0 /\ SectsLeft = 0 /\ file[fp].fptr % SectSize = 0
  /\ pc = "link" => file[fp].fptr > 0

(* A file that is open, or being opened, has an entry of its own. *)
EntryInv ==
  /\ \A f \in {"log", "wr"} : file[f].open =>
       /\ file[f].slot \in Slots
       /\ dir[file[f].slot].name # NoName /\ ~dir[file[f].slot].isDir
  /\ file["log"].open /\ file["wr"].open => file["log"].slot # file["wr"].slot
  /\ pc = "free" /\ after = "open" =>
       /\ ~file["log"].open /\ file["log"].slot \in Slots
       /\ dir[file["log"].slot].name # NoName /\ ~dir[file["log"].slot].isDir
       /\ dir[file["log"].slot].org = 0 /\ dir[file["log"].slot].size = 0
  /\ pc \in {"mkdir", "table", "entry"} => \A s \in Slots : dir[s].name # DirName

BaseInv == TypeOK /\ Coherent /\ NamesInv /\ CallInv /\ FilesInv /\ EntryInv
-----------------------------------------------------------------------------
(* What a sync leaves on the card *)

(* All that was written to the file is in its entry, in memory and on the  *)
(* card.                                                                   *)
Settled(r) ==
  /\ r.fptr = r.fsize /\ ~r.written
  /\ r.fptr > 0 => /\ dir[r.slot].size = r.fptr /\ dir[r.slot].org = r.org
                   /\ card.dir[r.slot] = dir[r.slot]

LogBusy == fp = "log" /\ pc \in Busy

(* The log is settled between two calls, and a call that has written       *)
(* settles it in two steps.                                                *)
SyncInv ==
  mishaps = 0 /\ file["log"].open =>
    /\ ~file["log"].err /\ file["log"].fsize <= file["log"].fptr
    /\ ~LogBusy \/ (pc = "sync" /\ ~file["log"].written) => Settled(file["log"])
    /\ fp = "log" /\ pc \in {"sync", "flush"} => file["log"].fptr = file["log"].fsize
    /\ fp = "log" /\ pc = "flush" =>
         /\ ~file["log"].written
         /\ dir[file["log"].slot].size = file["log"].fptr
         /\ dir[file["log"].slot].org = file["log"].org
-----------------------------------------------------------------------------
(* Chains: each has one owner, and every file is at its place in its own *)

(* Links of the FAT lead to different clusters in use; nothing leads to    *)
(* the first cluster of a chain.                                           *)
Links(F) ==
  /\ \A c, d \in Clust : F[c] \in Clust /\ F[c] = F[d] => c = d
  /\ \A c \in Clust : F[c] \in Clust => F[F[c]] # 0

Root(F, h) == h \in Clust => F[h] # 0 /\ \A c \in Clust : F[c] # h

(* What was in the chain that starts at h is in the same place of it.      *)
Keeps(F, G, h) ==
  \A i \in 0 .. MaxClust : Walk(F, h)[i] \in Clust => Walk(G, h)[i] = Walk(F, h)[i]

(* The chain that starts at h has room for n units. *)
Reaches(F, h, n) ==
  n > 0 => /\ (n - 1) \div ClustSize \in 0 .. MaxClust
           /\ Walk(F, h)[(n - 1) \div ClustSize] \in Clust

(* What makes FAT F and directory D a file system: every entry has a chain *)
(* of its own, with room for the size of the file.                         *)
Sound(F, D) ==
  /\ Links(F)
  /\ \A s \in Slots : Root(F, D[s].org) /\ Reaches(F, D[s].org, D[s].size)
  /\ \A s, t \in Slots : D[s].org = D[t].org => s = t \/ D[s].org = 0

SoundInv == Sound(fat, dir) /\ Sound(card.fat, card.dir)

OpenFiles == {f \in {"log", "wr"} : file[f].open}

(* A call holds the rest of a chain it removes, or a cluster it has        *)
(* allocated and not yet linked or entered.                                *)
Held == pc \in {"free", "link", "table", "entry"} /\ clust \in Clust

(* The chain of an open file belongs to its entry or to none, the one that *)
(* is held to nobody else.                                                 *)
OwnInv ==
  /\ \A f \in OpenFiles :
       /\ Root(fat, file[f].org) /\ dir[file[f].slot].org \in {0, file[f].org}
       /\ \A s \in Slots : dir[s].org = file[f].org => s = file[f].slot \/ dir[s].org = 0
  /\ \A f, g \in OpenFiles : file[f].org = file[g].org => f = g \/ file[f].org = 0
  /\ Held => /\ Root(fat, clust) /\ (pc # "free" => fat[clust] = EOC)
             /\ \A s \in Slots : dir[s].org # clust
             /\ \A f \in OpenFiles : file[f].org # clust

(* The last unit before the position of file r is the u-th one in sector j *)
(* of cluster k of its chain.  The sector counts as long as the buffer may *)
(* have to go there.                                                       *)
Placed(F, r, k, j, u) ==
  /\ r.fptr = k * ClustSize + j * SectSize + u
  /\ Walk(F, r.org)[k] = r.curr
  /\ r.sc # 0 => r.sc = SectsClust - j
  /\ (r.err => r.dirty) => r.sect = clust2sect(r.curr) + j

FilePlaced(F, r) ==
  /\ r.fptr > 0 => \E k \in 0 .. MaxClust, j \in 0 .. SectsClust - 1, u \in 1 .. SectSize :
                     Placed(F, r, k, j, u)
  /\ r.fptr = 0 => ~r.dirty
  /\ Reaches(F, r.org, r.fsize)

PlaceInv ==
  /\ \A f \in OpenFiles : FilePlaced(fat, file[f])
  /\ pc = "link" => fat[file[fp].curr] = EOC
  /\ pc = "grown" => \E k \in 0 .. MaxClust : /\ file[fp].fptr = k * ClustSize
                                              /\ Walk(fat, file[fp].org)[k] = clust

ChainInv == SoundInv /\ OwnInv /\ PlaceInv
-----------------------------------------------------------------------------
(* Tables of directories *)

Clean(k) == \A x \in ClustSects(k) : card.data[x] = Table

(* The tables of directories are clean, those on the card as long as their *)
(* entries are there.                                                      *)
TableInv ==
  /\ \A s \in Slots : dir[s].isDir => Clean(dir[s].org)
  /\ \A s \in Slots : card.dir[s].isDir =>
       /\ Clean(card.dir[s].org) /\ Root(fat, card.dir[s].org)
       /\ \A f \in OpenFiles : file[f].org # card.dir[s].org
       /\ \A t \in Slots : dir[t].org = card.dir[s].org => dir[t].isDir
  /\ pc = "entry" =>
       /\ win = TableSect(clust) /\ winflag
       /\ \A x \in ClustSects(clust) \ {clust2sect(clust)} : card.data[x] = Table
-----------------------------------------------------------------------------
(* No cluster is lost *)

Writing == {"write", "link", "grown"}

(* The entry of file f has its first cluster, or a sync will bring it.     *)
EntryHas(f) == \/ f = fp /\ pc \in Writing
               \/ file[f].written
               \/ dir[file[f].slot].org = file[f].org

SavedInv == /\ mishaps = 0 => \A f \in OpenFiles : EntryHas(f)
            /\ pc = "flush" => ~file[fp].written

(* A chain begins here: that of an entry, of an open file or of a call. *)
Head(h) == \/ \E s \in Slots : dir[s].org = h
           \/ \E f \in OpenFiles : file[f].org = h
           \/ Held /\ clust = h

(* Every cluster in use is in a chain. *)
LostInv ==
  mishaps = 0 => \A c \in Clust : fat[c] # 0 => \E h \in Clust : Head(h) /\ c \in Chain(fat, h)
-----------------------------------------------------------------------------
(* What was written is on the card or in the buffer *)

(* Number of the u-th unit in sector j of cluster k of a chain. *)
Unit(k, j, u) == k * ClustSize + j * SectSize + u

(* The first n units of the chain that starts at h are there. *)
Full(F, h, n, data) ==
  \A k \in 0 .. MaxClust, j \in 0 .. SectsClust - 1, u \in 1 .. SectSize :
    Unit(k, j, u) <= n => data[clust2sect(Walk(F, h)[k]) + j] >= u

(* What card and buffer hold together, when data are the sectors. *)
Buffered(r, data) == IF r.dirty THEN [data EXCEPT ![r.sect] = r.buf] ELSE data

(* How many units of a file have been written. *)
Taken(r) == Greater(r.fsize, r.fptr)

(* What has been written within a sector is in the buffer as well. *)
BufKept(r) ==
  (r.fptr % SectSize) # 0 =>
    \A u \in 1 .. SectSize : (r.fptr - (r.fptr % SectSize)) + u <= Taken(r) => r.buf >= u

FileKept(F, r, data) == Full(F, r.org, Taken(r), Buffered(r, data)) /\ BufKept(r)

(* What the card has of a chain in use begins the one in memory. *)
PrefixInv ==
  /\ \A s \in Slots : Root(fat, card.dir[s].org) /\ Keeps(card.fat, fat, card.dir[s].org)
  /\ pc \in {"link", "table", "entry"} => win # DirSect

(* A table that is in the window belongs to no entry or file yet. *)
AloneInv ==
  \A k \in Clust : winflag /\ win = TableSect(k) =>
    /\ Root(fat, k)
    /\ \A s \in Slots : dir[s].org # k
    /\ \A f \in OpenFiles : file[f].org # k

(* No entry says more than its file, none on the card more than in memory. *)
SizeInv ==
  /\ \A f \in OpenFiles, s \in Slots :
       /\ dir[s].org = file[f].org => dir[s].size <= file[f].fsize
       /\ card.dir[s].org = file[f].org => card.dir[s].size <= file[f].fsize
  /\ \A s, t \in Slots : card.dir[t].org = dir[s].org => card.dir[t].size <= dir[s].size

(* What was written is on the card, or in the buffer of its file. *)
DataInv ==
  /\ \A s \in Slots : /\ Full(fat, dir[s].org, dir[s].size, card.data)
                      /\ Full(fat, card.dir[s].org, card.dir[s].size, card.data)
  /\ \A f \in OpenFiles : FileKept(fat, file[f], card.data)

KeptInv == PrefixInv /\ AloneInv /\ SizeInv /\ DataInv
=============================================================================
