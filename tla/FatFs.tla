------------------------------- MODULE FatFs -------------------------------
(***************************************************************************)
(* Files of the memory card (ff.c) as this program uses them: a log that   *)
(* is open from one command to the next and gets a write and a sync for    *)
(* every datagram, and console commands between them that delete a file,   *)
(* copy one over another, or make a directory.                             *)
(*                                                                         *)
(* FatFs sees FAT and directory through a window of one sector, which is   *)
(* written back when another sector is needed, or at a sync.  `fat' and    *)
(* `dir' are what it sees, `card' is what a reset finds.  A step ends with *)
(* at most one write of the window behind it, so that a reset can come     *)
(* between any two of them.                                                *)
(*                                                                         *)
(* Abstractions: the files are in one directory that fits its sector, and  *)
(* the ones made in it stay empty; the second FAT, which nothing reads;    *)
(* dates; of the data only how much of a sector holds what its file wrote  *)
(* there, or that it is the table of an empty directory.                   *)
(***************************************************************************)
EXTENDS Integers, FiniteSets

CONSTANTS MaxClust,        \* max_clust: last cluster number + 1
          FatSectSize,     \* clusters in a sector of the FAT (128)
          SectsClust,      \* sectors per cluster
          SectSize,        \* S_SIZ, in the unit of data written (512 bytes)
          Slots,           \* entries of the directory
          Name, NoName,
          WriteSizes,      \* bound: units written by one call
          DirName,         \* bound: the name that directories are made with
          MaxMishaps,      \* bound: resets and failed disk accesses
          GoesOnWhenFull,  \* the caller writes on after a short write
          TouchesOpenLog   \* console commands act on the open log as well

ASSUME SizeAssumption ==
  /\ MaxClust \in Nat /\ MaxClust > 2 /\ FatSectSize \in Nat \ {0}
  /\ SectsClust \in 1 .. 255 /\ SectSize \in Nat \ {0}
ASSUME NameAssumption ==
  /\ IsFiniteSet(Name) /\ NoName \notin Name
  /\ Slots \subseteq Nat /\ IsFiniteSet(Slots)
  /\ Cardinality(Slots) >= Cardinality(Name)
ASSUME BoundAssumption ==
  /\ WriteSizes \subseteq Nat \ {0} /\ MaxMishaps \in Nat /\ DirName \in Name
  /\ GoesOnWhenFull \in BOOLEAN /\ TouchesOpenLog \in BOOLEAN

Clust == 2 .. (MaxClust - 1)
EOC   == MaxClust + 1                   \* 0x0FFFFFFF, end of chain
DirSect == -1
NoSect  == -2
TableSect(c) == -1 - c                  \* first sector of a table in cluster c

ClustSize == SectsClust * SectSize
FatSect(c) == c \div FatSectSize
FatSects == {FatSect(c) : c \in Clust}

(* Sectors of the card: 0 is the boot sector, 1 stands for what lies       *)
(* between it and the data area.                                           *)
DataBase == 2
clust2sect(c) == (c - 2) * SectsClust + DataBase
DataSects == clust2sect(2) .. clust2sect(MaxClust) - 1
ClustSects(c) == clust2sect(c) .. clust2sect(c + 1) - 1
Table == -1                             \* data of a sector of an empty table

VARIABLES
  fat, dir,            \* as seen through the window
  win, winflag,        \* winsect, winflag
  last_clust,          \* where the search for a free cluster starts
  card,                \* fat, dir and data on the card
  file,                \* udp_fo, "log", and fileObjectWrite, "wr"
  pc, fp, btw,         \* the running call, its file, units left to write
  clust, rs, after,    \* its locals, and what comes after it
  mishaps

window == <<win, winflag>>
local  == <<fp, btw, clust, rs, after>>
vars   == <<fat, dir, window, last_clust, card, file, pc, local, mishaps>>

Closed == [open |-> FALSE, slot |-> 0, org |-> 0, curr |-> 0, fptr |-> 0,
           fsize |-> 0, sc |-> 1, sect |-> 0, buf |-> 0, dirty |-> FALSE,
           written |-> FALSE, err |-> FALSE]

Empty == [name |-> NoName, org |-> 0, size |-> 0, isDir |-> FALSE]

Init ==
  /\ fat = [c \in Clust |-> 0] /\ dir = [s \in Slots |-> Empty]
  /\ win = NoSect /\ winflag = FALSE /\ last_clust = 0
  /\ card = [fat |-> fat, dir |-> dir, data |-> [s \in DataSects |-> 0]]
  /\ file = [f \in {"log", "wr"} |-> Closed]
  /\ pc = "idle" /\ fp = "log" /\ btw = 0 /\ clust = 0 /\ rs = 0
  /\ after = "keep" /\ mishaps = 0
(* The locals are dead once the call returns. *)
Return == /\ pc' = "idle"
          /\ fp' = "log" /\ btw' = 0 /\ clust' = 0 /\ rs' = 0 /\ after' = "keep"
-----------------------------------------------------------------------------
(* move_window *)

(* Card c once the window has been written back. *)
FlushedTo(c) ==
  [c EXCEPT
    !.fat = [k \in Clust |->
              IF winflag /\ FatSect(k) = win THEN fat[k] ELSE @[k]],
    !.dir = IF winflag /\ win = DirSect THEN dir ELSE @,
    !.data = [s \in DataSects |->
               IF winflag /\ \E k \in Clust : win = TableSect(k) /\ s = clust2sect(k)
               THEN Table ELSE @[s]]]

Flushed == FlushedTo(card)

Moved(s) == IF s = win THEN card ELSE Flushed

ModifyClean(s) ==                            \* mutant: winflag not set
  card' = Moved(s) /\ win' = s /\ winflag' = (winflag /\ s = win)
Look(s)   == card' = Moved(s) /\ win' = s /\ winflag' = (winflag /\ s = win)
Modify(s) == card' = Moved(s) /\ win' = s /\ winflag' = TRUE
-----------------------------------------------------------------------------
(* f_open *)

Opened(f, s, org, size) ==
  file' = [file EXCEPT ![f] = [Closed EXCEPT
             !.open = TRUE, !.slot = s, !.org = org, !.fsize = size]]

FreeSlots == {s \in Slots : dir[s].name = NoName}
FreeSlot  == CHOOSE s \in FreeSlots : \A t \in FreeSlots : s <= t

Create(f, n) ==
  /\ \A s \in Slots : dir[s].name # n
  /\ Modify(DirSect)
  /\ dir' = [dir EXCEPT ![FreeSlot] = [Empty EXCEPT !.name = n]]
  /\ Opened(f, FreeSlot, 0, 0)

(* udplog: FA_CREATE_ALWAYS.  An existing file loses its chain, after its  *)
(* entry has been emptied.                                                 *)
LogOpen(n) ==
  /\ pc = "idle" /\ ~file["log"].open
  /\ \/ Create("log", n) /\ UNCHANGED <<pc, local>>
     \/ \E s \in Slots :
          /\ dir[s].name = n /\ ~dir[s].isDir
          /\ Modify(DirSect)
          /\ dir' = [dir EXCEPT ![s].org = 0, ![s].size = 0]
          /\ file' = [file EXCEPT !["log"].slot = s]
          /\ rs' = dir[s].org /\ clust' = dir[s].org
          /\ pc' = "free" /\ after' = "open"
          /\ UNCHANGED <<fp, btw>>
  /\ UNCHANGED <<fat, last_clust, mishaps>>

MayTouch(n) == \/ TouchesOpenLog
               \/ ~(file["log"].open /\ dir[file["log"].slot].name = n)

(* cat: source and, FA_OPEN_ALWAYS, destination. *)
CatOpen(n) ==
  /\ pc = "idle" /\ MayTouch(n)
  /\ \/ Create("wr", n)
     \/ \E s \in Slots : /\ dir[s].name = n /\ ~dir[s].isDir
                         /\ Look(DirSect)
                         /\ Opened("wr", s, dir[s].org, dir[s].size)
                         /\ UNCHANGED dir
  /\ pc' = "cat"
  /\ UNCHANGED <<fat, last_clust, local, mishaps>>
-----------------------------------------------------------------------------
(* f_unlink, remove_chain *)

(* What is in cluster c belongs to no file. *)
Cleared(data, c) ==
  [s \in DataSects |-> IF s \in ClustSects(c) THEN 0 ELSE data[s]]

(* The table of a directory, always empty here, is looked at on the way.   *)
Unlink(n) ==
  /\ pc = "idle" /\ MayTouch(n)
  /\ \E s \in Slots :
       /\ dir[s].name = n
       /\ IF dir[s].isDir
          THEN card' = Flushed /\ win' = DirSect /\ winflag' = TRUE
          ELSE Modify(DirSect)
       /\ dir' = [dir EXCEPT ![s] = Empty]
       /\ clust' = dir[s].org
  /\ pc' = "free" /\ after' = "unlink"
  /\ UNCHANGED <<fat, last_clust, file, fp, btw, rs, mishaps>>

RemoveFirst ==                               \* mutant: if instead of while
  /\ pc = "free" /\ clust \in Clust
  /\ win' = FatSect(clust) /\ winflag' = TRUE
  /\ card' = [Moved(FatSect(clust)) EXCEPT !.data = Cleared(@, clust)]
  /\ fat' = [fat EXCEPT ![clust] = 0]
  /\ clust' = 0
  /\ UNCHANGED <<dir, last_clust, file, pc, fp, btw, rs, after, mishaps>>

RemoveSame ==                                \* mutant: clust = nxt missing
  /\ pc = "free" /\ clust \in Clust
  /\ win' = FatSect(clust) /\ winflag' = TRUE
  /\ card' = [Moved(FatSect(clust)) EXCEPT !.data = Cleared(@, clust)]
  /\ fat' = [fat EXCEPT ![clust] = 0]
  /\ UNCHANGED <<dir, last_clust, file, pc, local, mishaps>>

RemoveNext ==
  /\ pc = "free" /\ clust \in Clust
  /\ win' = FatSect(clust) /\ winflag' = TRUE
  /\ card' = [Moved(FatSect(clust)) EXCEPT !.data = Cleared(@, clust)]
  /\ fat' = [fat EXCEPT ![clust] = 0]
  /\ clust' = fat[clust]
  /\ UNCHANGED <<dir, last_clust, file, pc, fp, btw, rs, after, mishaps>>

(* f_open ends with the entry in the window again, f_unlink with a sync.   *)
(* The 0xFFFFFFFF that last_clust becomes if rs is 0 is as good as 1.      *)
RemoveEnd ==
  /\ pc = "free" /\ clust \notin Clust
  /\ \/ /\ after = "open"
        /\ Modify(DirSect)
        /\ last_clust' = IF rs = 0 THEN 1 ELSE rs - 1
        /\ Opened("log", file["log"].slot, 0, 0)
     \/ /\ after = "unlink"
        /\ card' = Flushed /\ winflag' = FALSE
        /\ UNCHANGED <<win, last_clust, file>>
  /\ Return
  /\ UNCHANGED <<fat, dir, mishaps>>
-----------------------------------------------------------------------------
(* f_write, of btw units to file[fp] *)

(* udp_rx_process; a file with an error is not written, but synced.        *)
LogWrite(n) ==
  /\ pc = "idle" /\ file["log"].open
  /\ fp' = "log"
  /\ \/ /\ ~file["log"].err /\ (GoesOnWhenFull \/ file["log"].sc # 0)
        /\ pc' = "write" /\ btw' = n
     \/ /\ file["log"].err
        /\ pc' = "sync" /\ btw' = 0
  /\ UNCHANGED <<fat, dir, window, last_clust, card, file, clust, rs, after,
                 mishaps>>

CatWrite(n) ==
  /\ pc = "cat"
  /\ GoesOnWhenFull \/ file["wr"].sc # 0
  /\ pc' = "write" /\ fp' = "wr" /\ btw' = n
  /\ UNCHANGED <<fat, dir, window, last_clust, card, file, clust, rs, after,
                 mishaps>>

(* f_read of the source of a copy: get_cluster moves the window. *)
CatRead(s) ==
  /\ pc = "cat" /\ Look(s)
  /\ UNCHANGED <<fat, dir, last_clust, file, pc, local, mishaps>>

(* Sector of unit i of the file that starts at cluster org, 0 if the FAT   *)
(* has none.                                                               *)
Walk(f, org) == LET w[i \in 0 .. MaxClust] ==
                      IF i = 0 THEN org
                      ELSE IF w[i - 1] \in Clust THEN f[w[i - 1]] ELSE EOC
                IN w
Chain(f, org) == {Walk(f, org)[i] : i \in 0 .. MaxClust} \cap Clust
SectorAt(f, org, i) ==
  LET c == Walk(f, org)[i \div ClustSize] IN
  IF c \in Clust THEN clust2sect(c) + (i % ClustSize) \div SectSize ELSE 0

(* data after units pos .. pos + k - 1 of file r have been written to s:   *)
(* elsewhere than in its place they destroy what is there.                 *)
Written(data, r, pos, s, k) ==
  IF s \notin DataSects THEN data
  ELSE [data EXCEPT ![s] = IF s = SectorAt(fat, r.org, pos) THEN k ELSE 0]

LastSect(r) == ((r.fptr - 1) \div SectSize) * SectSize
BufferOut(r) ==
  IF r.dirty THEN Written(card.data, r, LastSect(r), r.sect, r.buf)
  ELSE card.data

Lesser(a, b)  == IF a < b THEN a ELSE b
Greater(a, b) == IF a > b THEN a ELSE b

(* Within a sector: into the file's buffer. *)
WriteBuffer ==
  /\ pc = "write" /\ btw > 0
  /\ LET r == file[fp]
         k == Lesser(btw, SectSize - (r.fptr % SectSize)) IN
       /\ r.fptr % SectSize # 0
       /\ file' = [file EXCEPT ![fp].fptr = @ + k, ![fp].dirty = TRUE,
                               ![fp].buf = Greater(@, (r.fptr % SectSize) + k)]
       /\ btw' = btw - k
  /\ UNCHANGED <<fat, dir, window, last_clust, card, pc, fp, clust, rs, after,
                 mishaps>>

NoFill(r, data, s) == 0                        \* mutant: sector not read
Fill(r, data, s) == IF r.fptr < r.fsize /\ s \in DataSects THEN data[s] ELSE 0

SectsKept(sc, n) == sc                       \* mutant: not counted
SectsAfter(sc, n) == sc - (n - 1)

(* On to sector s, with r the file as it is then: the buffer goes out,     *)
(* whole sectors are written directly, the rest goes into the buffer.      *)
Put(r, s) ==
  LET out   == BufferOut(file[fp])
      whole == Lesser(btw \div SectSize, r.sc)
      at(i) == r.fptr + (i - s) * SectSize
      run   == [i \in DataSects |->
                  IF i \in s .. s + whole - 1
                  THEN Written(out, r, at(i), i, SectSize)[i]
                  ELSE out[i]] IN
  \/ /\ whole > 0
     /\ card' = [card EXCEPT !.data = run]
     /\ file' = [file EXCEPT ![fp] =
          [r EXCEPT !.fptr = @ + whole * SectSize, !.sc = SectsAfter(@, whole),
                    !.sect = s + whole - 1, !.dirty = FALSE, !.buf = 0]]
     /\ btw' = btw - whole * SectSize
  \/ /\ whole = 0
     /\ card' = [card EXCEPT !.data = out]
     /\ file' = [file EXCEPT ![fp] =
          [r EXCEPT !.fptr = @ + btw, !.sect = s, !.dirty = TRUE,
                    !.buf = Greater(btw, Fill(r, out, s))]]
     /\ btw' = 0

AtBoundary == /\ pc = "write" /\ btw > 0 /\ file[fp].fptr % SectSize = 0
SectsLeft  == (file[fp].sc - 1) % 256

WriteNextSector ==
  /\ AtBoundary /\ SectsLeft # 0
  /\ Put([file[fp] EXCEPT !.sc = SectsLeft], file[fp].sect + 1)
  /\ UNCHANGED <<fat, dir, window, last_clust, pc, fp, clust, rs, after,
                 mishaps>>

(* The next cluster is the first one, or follows in the chain. *)
WriteKnownCluster ==
  /\ AtBoundary /\ SectsLeft = 0
  /\ \/ /\ file[fp].fptr = 0 /\ file[fp].org # 0
        /\ clust' = file[fp].org
        /\ UNCHANGED <<card, window>>
     \/ /\ file[fp].fptr # 0 /\ fat[file[fp].curr] \in Clust
        /\ Look(FatSect(file[fp].curr))
        /\ clust' = fat[file[fp].curr]
  /\ pc' = "grown"
  /\ UNCHANGED <<fat, dir, last_clust, file, fp, btw, rs, after, mishaps>>

(* create_chain: the free cluster that comes first behind the current one, *)
(* or behind last_clust for the first cluster of a file or a directory.    *)
Chained == pc # "mkdir" /\ file[fp].fptr # 0
Start == IF Chained THEN file[fp].curr
         ELSE IF last_clust \in 1 .. (MaxClust - 1) THEN last_clust ELSE 1
Dist(c) == IF c > Start THEN c - Start ELSE c - Start + MaxClust
Free == {c \in Clust : fat[c] = 0}
FirstFree == CHOOSE c \in Free : \A d \in Free : Dist(c) <= Dist(d)
LastSeen == IF Free # {} THEN FirstFree
            ELSE IF Start \in Clust THEN Start ELSE MaxClust - 1
Visited == {c \in Clust : Dist(c) <= Dist(LastSeen)}
           \cup (IF Chained THEN {Start} ELSE {})

Searched == IF \A c \in Visited : FatSect(c) = win THEN card ELSE Flushed

WriteSearch ==
  /\ AtBoundary /\ SectsLeft = 0
  /\ \/ file[fp].fptr = 0 /\ file[fp].org = 0
     \/ Chained /\ fat[file[fp].curr] >= MaxClust
  /\ win' = FatSect(LastSeen)

(* It is marked as an end of chain before it is linked. *)
WriteAllocate ==
  /\ WriteSearch /\ Free # {}
  /\ fat' = [fat EXCEPT ![FirstFree] = EOC]
  /\ winflag' = TRUE
  /\ card' = [Searched EXCEPT !.data = Cleared(@, FirstFree)]
  /\ clust' = FirstFree
  /\ \/ /\ Chained /\ pc' = "link" /\ UNCHANGED <<last_clust, file>>
     \/ /\ ~Chained /\ pc' = "grown"
        /\ last_clust' = FirstFree
        /\ file' = [file EXCEPT ![fp].org = FirstFree]
  /\ UNCHANGED <<dir, fp, btw, rs, after, mishaps>>

WriteLink ==
  /\ pc = "link"
  /\ Modify(FatSect(file[fp].curr))
  /\ fat' = [fat EXCEPT ![file[fp].curr] = clust]
  /\ last_clust' = clust
  /\ pc' = "grown"
  /\ UNCHANGED <<dir, file, local, mishaps>>

WriteGrown ==
  /\ pc = "grown"
  /\ Put([file[fp] EXCEPT !.curr = clust, !.sc = SectsClust], clust2sect(clust))
  /\ pc' = "write" /\ clust' = 0
  /\ UNCHANGED <<fat, dir, window, last_clust, fp, rs, after, mishaps>>

(* Disk full: the loop ends, with the count of sectors left at zero. *)
WriteFull ==
  /\ WriteSearch /\ Free = {}
  /\ card' = Searched
  /\ winflag' = (winflag /\ card' = card)
  /\ file' = [file EXCEPT ![fp].sc = 0]
  /\ btw' = 0
  /\ UNCHANGED <<fat, dir, last_clust, pc, fp, clust, rs, after, mishaps>>

WriteEnd ==
  /\ pc = "write" /\ btw = 0
  /\ file' = [file EXCEPT ![fp].fsize = Greater(@, file[fp].fptr),
                          ![fp].written = TRUE]
  /\ pc' = IF fp = "log" THEN "sync" ELSE "cat"
  /\ after' = "keep"
  /\ UNCHANGED <<fat, dir, window, last_clust, card, fp, btw, clust, rs,
                 mishaps>>
-----------------------------------------------------------------------------
(* f_mkdir *)

Mkdir ==
  /\ pc = "idle"
  /\ \A s \in Slots : dir[s].name # DirName
  /\ Look(DirSect)
  /\ pc' = "mkdir"
  /\ UNCHANGED <<fat, dir, last_clust, file, local, mishaps>>

(* create_chain; a full card denies the directory. *)
MkdirAllocate ==
  /\ pc = "mkdir"
  /\ win' = FatSect(LastSeen)
  /\ \/ /\ Free # {}
        /\ fat' = [fat EXCEPT ![FirstFree] = EOC] /\ winflag' = TRUE
        /\ card' = [Searched EXCEPT !.data = Cleared(@, FirstFree)]
        /\ clust' = FirstFree /\ last_clust' = FirstFree
        /\ pc' = "table"
        /\ UNCHANGED <<fp, btw, rs, after>>
     \/ /\ Free = {}
        /\ card' = Searched /\ winflag' = (winflag /\ card' = card)
        /\ Return
        /\ UNCHANGED <<fat, last_clust>>
  /\ UNCHANGED <<dir, file, mishaps>>

(* All sectors but the first, which is in the window, are written at once. *)
MkdirTable ==
  /\ pc = "table"
  /\ card' = [Flushed EXCEPT !.data = [s \in DataSects |->
               IF s \in ClustSects(clust) \ {clust2sect(clust)} THEN Table ELSE @[s]]]
  /\ win' = TableSect(clust) /\ winflag' = TRUE
  /\ pc' = "entry"
  /\ UNCHANGED <<fat, dir, last_clust, file, local, mishaps>>

MkdirEntry ==
  /\ pc = "entry"
  /\ Modify(DirSect)
  /\ dir' = [dir EXCEPT ![FreeSlot] = [name |-> DirName, org |-> clust, size |-> 0,
                                      isDir |-> TRUE]]
  /\ pc' = "made"
  /\ UNCHANGED <<fat, last_clust, file, local, mishaps>>

MkdirSync ==
  /\ pc = "made"
  /\ card' = Flushed /\ winflag' = FALSE
  /\ Return
  /\ UNCHANGED <<fat, dir, win, last_clust, file, mishaps>>
-----------------------------------------------------------------------------
(* f_sync and f_close *)

LogStop ==
  /\ pc = "idle" /\ file["log"].open
  /\ pc' = "sync" /\ fp' = "log" /\ after' = "close"
  /\ UNCHANGED <<fat, dir, window, last_clust, card, file, btw, clust, rs,
                 mishaps>>

CatClose ==
  /\ pc = "cat"
  /\ pc' = "sync" /\ fp' = "wr" /\ after' = "close"
  /\ UNCHANGED <<fat, dir, window, last_clust, card, file, btw, clust, rs,
                 mishaps>>

(* The file after a call that ends as `after' says. *)
Left(r) == IF after = "close" THEN Closed ELSE r

SyncNothing ==
  /\ pc = "sync" /\ ~file[fp].written
  /\ file' = [file EXCEPT ![fp] = Left(@)]
  /\ Return
  /\ UNCHANGED <<fat, dir, window, last_clust, card, mishaps>>

(* The buffer, then whatever is in the window, then the entry. *)
SyncEntry ==
  /\ pc = "sync" /\ file[fp].written
  /\ LET r == file[fp] IN
       /\ LET c == [card EXCEPT !.data = BufferOut(r)] IN
            card' = IF win = DirSect THEN c ELSE FlushedTo(c)
       /\ dir' = [dir EXCEPT ![r.slot].org = r.org, ![r.slot].size = r.fsize]
       /\ file' = [file EXCEPT ![fp].dirty = FALSE, ![fp].written = FALSE]
  /\ win' = DirSect /\ winflag' = TRUE
  /\ pc' = "flush"
  /\ UNCHANGED <<fat, last_clust, local, mishaps>>

SyncNoFlush ==                               \* mutant: window left dirty
  /\ pc = "flush"
  /\ file' = [file EXCEPT ![fp] = Left(@)]
  /\ Return
  /\ UNCHANGED <<fat, dir, window, last_clust, card, mishaps>>

SyncFlush ==
  /\ pc = "flush"
  /\ card' = Flushed /\ winflag' = FALSE
  /\ file' = [file EXCEPT ![fp] = Left(@)]
  /\ Return
  /\ UNCHANGED <<fat, dir, win, last_clust, mishaps>>
-----------------------------------------------------------------------------
(* Failures *)

(* What a failed access leaves of card and window: the window may have     *)
(* reached the card, and may be clean if only the read behind that failed. *)
Missed(c) == \/ card' = c /\ UNCHANGED winflag
             \/ /\ card' = FlushedTo(c)
                /\ winflag' \in {winflag, FALSE}

(* f_write marks its file, and its caller syncs (the log) or leaves the    *)
(* file (cat).  With r the file as it is then.                             *)
WriteError(r) ==
  IF fp = "log"
  THEN /\ file' = [file EXCEPT !["log"] = [r EXCEPT !.err = TRUE]]
       /\ pc' = "sync" /\ btw' = 0 /\ clust' = 0
       /\ UNCHANGED <<fp, rs, after>>
  ELSE /\ file' = [file EXCEPT !["wr"] = Closed]
       /\ Return

Fails == /\ mishaps < MaxMishaps /\ mishaps' = mishaps + 1
         /\ UNCHANGED <<fat, dir, win, last_clust>>

(* get_cluster or put_cluster in create_chain, which returns 1: that is    *)
(* the first cluster of a file without one.  A cluster already marked      *)
(* stays so.  (It also returns 1 for a current cluster that is free, which *)
(* needs TouchesOpenLog and is left out.)                                  *)
ChainFails ==
  /\ Fails
  /\ \/ pc = "link"
     \/ /\ AtBoundary /\ SectsLeft = 0
        /\ Chained \/ file[fp].org = 0
  /\ Missed(card)
  /\ WriteError([file[fp] EXCEPT !.org = IF Chained THEN @ ELSE 1])

(* The write of the buffer, or what comes after it: whole sectors or the   *)
(* read that fills the buffer.                                             *)
DataFails ==
  /\ Fails
  /\ \/ pc = "grown"
     \/ AtBoundary /\ SectsLeft # 0
  /\ LET s == IF pc = "grown" THEN clust2sect(clust) ELSE file[fp].sect + 1 IN
       \/ file[fp].dirty /\ card' = card /\ WriteError(file[fp])
       \/ /\ card' = [card EXCEPT !.data = BufferOut(file[fp])]
          /\ WriteError([file[fp] EXCEPT !.dirty = FALSE, !.sect = s])
  /\ UNCHANGED winflag

(* In f_sync the buffer comes first, then the window. *)
SyncFails ==
  /\ Fails
  /\ \/ pc = "flush"
     \/ pc = "sync" /\ file[fp].written
  /\ \/ /\ file[fp].dirty /\ UNCHANGED <<card, winflag>>
        /\ file' = [file EXCEPT ![fp] = Left(@)]
     \/ /\ Missed([card EXCEPT !.data = BufferOut(file[fp])])
        /\ file' = [file EXCEPT ![fp] = Left([@ EXCEPT !.dirty = FALSE])]
  /\ Return

(* In remove_chain or behind it: f_unlink and f_open return an error.      *)
RemoveFails ==
  /\ Fails
  /\ pc = "free" /\ Missed(card)
  /\ Return
  /\ file' = IF after = "open" THEN [file EXCEPT !["log"] = Closed] ELSE file

(* In f_mkdir, which leaves the cluster it has taken.  If a sector behind  *)
(* the first cannot be written, the window is at the table already.        *)
MkdirFails ==
  /\ Fails
  /\ pc \in {"mkdir", "table", "entry", "made"} /\ Missed(card)
  /\ Return
  /\ UNCHANGED file

TableFails ==
  /\ mishaps < MaxMishaps /\ mishaps' = mishaps + 1
  /\ pc = "table"
  /\ card' = Flushed /\ win' = TableSect(clust) /\ winflag' = FALSE
  /\ Return
  /\ UNCHANGED <<fat, dir, last_clust, file>>

DiskFails == ChainFails \/ DataFails \/ SyncFails \/ RemoveFails
             \/ MkdirFails \/ TableFails

(* A reset: nothing is left but what is on the card, and clusters that no  *)
(* entry leads to are nobody's.                                            *)
Reset ==
  /\ mishaps < MaxMishaps /\ mishaps' = mishaps + 1
  /\ fat' = card.fat /\ dir' = card.dir
  /\ win' = NoSect /\ winflag' = FALSE /\ last_clust' = 0
  /\ file' = [f \in {"log", "wr"} |-> Closed]
  /\ Return
  /\ LET used == UNION {Chain(card.fat, card.dir[s].org) : s \in Slots} IN
       card' = [card EXCEPT !.data = [x \in DataSects |->
                 IF \E c \in used : x \in ClustSects(c) THEN @[x] ELSE 0]]
-----------------------------------------------------------------------------
Write == \/ WriteBuffer \/ WriteNextSector \/ WriteKnownCluster
         \/ WriteAllocate \/ WriteLink \/ WriteGrown \/ WriteFull \/ WriteEnd
Sync  == SyncNothing \/ SyncEntry \/ SyncFlush
Made  == MkdirAllocate \/ MkdirTable \/ MkdirEntry \/ MkdirSync
Call  == Write \/ Sync \/ Made \/ RemoveNext \/ RemoveEnd

Command == \/ \E n \in Name : LogOpen(n) \/ CatOpen(n) \/ Unlink(n)
           \/ \E k \in WriteSizes : LogWrite(k) \/ CatWrite(k)
           \/ \E s \in FatSects : CatRead(s)
           \/ LogStop \/ CatClose \/ Mkdir

Next == Command \/ Call \/ DiskFails \/ Reset

Spec == Init /\ [][Next]_vars

(* A call goes on until it returns. *)
FairSpec == Spec /\ WF_vars(Call)
-----------------------------------------------------------------------------
(* Properties *)

(* At any moment a reset finds a sound file system: the chain of every     *)
(* file runs over clusters in use to an end, is as long as the size says,  *)
(* and shares no cluster with another, and the table of a directory is     *)
(* clean.  It depends on the order in which f_open, f_unlink, f_mkdir,     *)
(* create_chain and f_sync get to the card.                                *)
CardIsSound ==
  \A s \in Slots : card.dir[s].name # NoName =>
    LET e == card.dir[s] IN
    /\ e.org # 0 \/ e.size > 0 =>
         LET w == Walk(card.fat, e.org) IN
           \E i \in 1 .. MaxClust : /\ w[i] = EOC
                                    /\ \A j \in 0 .. i - 1 : w[j] \in Clust
                                    /\ e.size <= i * ClustSize
    /\ e.isDir => \A x \in ClustSects(e.org) : card.data[x] = Table
    /\ \A t \in Slots \ {s} : card.dir[t].name # NoName =>
         Chain(card.fat, e.org) \cap Chain(card.fat, card.dir[t].org) = {}

(* At any moment every unit of every file on the card is what was written  *)
(* there: f_sync puts the data before the size, and no file writes to a    *)
(* cluster of another.                                                     *)
DataIsKept ==
  \A s \in Slots : card.dir[s].name # NoName =>
    \A i \in 0 .. card.dir[s].size - 1 :
      LET sec == SectorAt(card.fat, card.dir[s].org, i) IN
      sec # 0 /\ card.data[sec] > i % SectSize

(* The current sector of a file is that of the unit written last, and in   *)
(* any case while the buffer has to go there: "Current sector" (ff.h:187). *)
CurrentSector ==
  \A f \in {"log", "wr"} :
    file[f].open /\ file[f].fptr > 0 /\ (file[f].err => file[f].dirty) =>
      file[f].sect = SectorAt(fat, file[f].org, file[f].fptr - 1)

(* When udp_rx_process is done with a datagram, it is in the file after a  *)
(* reset as well (f_sync).                                                 *)
SyncedIsOnCard ==
  pc = "idle" /\ mishaps = 0 /\ file["log"].open =>
    LET r == file["log"] IN
    card.dir[r.slot].name # NoName /\ r.fptr > 0 =>
      card.dir[r.slot].size = r.fptr /\ card.dir[r.slot].org = r.org

(* Without resets and failures no cluster is in use without a file: chains *)
(* are freed whole (remove_chain), and no cluster is taken for nothing.    *)
NothingIsLost ==
  pc = "idle" /\ mishaps = 0 =>
    Clust \ Free = UNION {Chain(fat, dir[s].org) :
                          s \in {t \in Slots : dir[t].name # NoName}}

(* Every call returns: no chain is a circle. *)
CallReturns == pc \notin {"idle", "cat"} ~> pc \in {"idle", "cat"}
=============================================================================
