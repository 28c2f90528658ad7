---------------------------- MODULE FatFsProofs ----------------------------
(***************************************************************************)
(* Proofs about the files of the card, for every size of card, cluster,    *)
(* sector and write, every set of names and every number of resets and     *)
(* failed accesses, as long as the commands leave the open log alone and   *)
(* nobody writes on after a short write (TouchesOpenLog, GoesOnWhenFull).  *)
(*                                                                         *)
(* The invariants are those of FatFsInv, which also says what each is for. *)
(* SyncReachesCard, CurrentSectorIs, CardStaysSound, NothingGetsLost and   *)
(* DataStaysKept follow from them.                                         *)
(***************************************************************************)
EXTENDS FatFsInv, TLAPS, FiniteSetTheorems, NaturalsInduction, WellFoundedInduction

-----------------------------------------------------------------------------
(* Numbers *)

LEMMA Least ==
  ASSUME NEW T \in SUBSET Nat, T # {}
  PROVE  \E n \in T : \A m \in T : n <= m
  <1>1. IsWellFoundedOn(OpToRel(<, Nat), Nat)
    BY NatLessThanWellFounded
  <1>2. PICK n \in T : \A m \in T : ~ (<<m, n>> \in OpToRel(<, Nat))
    BY <1>1, WFMin
  <1>3. \A m \in T : ~ (m < n)
    BY <1>2 DEF OpToRel
  <1> QED BY <1>3

LEMMA DivMod ==
  ASSUME NEW a \in Nat, NEW b \in Nat \ {0}
  PROVE  /\ a \div b \in Nat /\ a % b \in 0 .. b - 1
         /\ a = (a \div b) * b + (a % b)
  OBVIOUS

LEMMA Product ==
  ASSUME NEW b \in Nat, NEW p \in Nat, NEW q \in Nat, p >= q
  PROVE  /\ p * b \in Nat /\ q * b \in Nat /\ p * b >= q * b
         /\ (p - q) * b = p * b - q * b
         /\ p > q => p * b >= q * b + b
  <1>1. p * b \in Nat /\ q * b \in Nat /\ (p - q) * b = p * b - q * b
    OBVIOUS
  <1>2. PICK d \in Nat : d = p - q
    OBVIOUS
  <1>3. d * b \in Nat /\ (d > 0 => d * b >= b)
    OBVIOUS
  <1> QED BY <1>1, <1>2, <1>3

LEMMA DivIs ==
  ASSUME NEW b \in Nat \ {0}, NEW q \in Nat, NEW r \in 0 .. b - 1,
         NEW a \in Int, a = q * b + r
  PROVE  a \in Nat /\ a \div b = q /\ a % b = r
  <1>1. a \in Nat
    OBVIOUS
  <1>2. PICK p \in Nat, m \in 0 .. b - 1 : p = a \div b /\ m = a % b /\ a = p * b + m
    BY <1>1, DivMod
  <1>3. ~(p > q) /\ ~(q > p)
    <2>1. (p > q => p * b >= q * b + b) /\ (q > p => q * b >= p * b + b)
      BY Product
    <2>2. p * b \in Nat /\ q * b \in Nat
      OBVIOUS
    <2> QED BY <1>2, <2>1, <2>2
  <1> QED BY <1>1, <1>2, <1>3
-----------------------------------------------------------------------------
(* Sectors *)

LEMMA Constants ==
  /\ MaxClust \in Nat /\ MaxClust > 2 /\ FatSectSize \in Nat \ {0}
  /\ SectsClust \in Nat \ {0} /\ SectsClust <= 255 /\ SectSize \in Nat \ {0}
  /\ ClustSize \in Nat \ {0} /\ ClustSize = SectsClust * SectSize
  /\ Clust \subseteq Nat /\ EOC \in Nat /\ EOC # 0
  /\ EOC \notin Clust /\ 0 \notin Clust /\ 1 \notin Clust
  /\ IsFiniteSet(Clust)
  <1>1. /\ MaxClust \in Nat /\ MaxClust > 2 /\ FatSectSize \in Nat \ {0}
        /\ SectsClust \in Nat \ {0} /\ SectsClust <= 255 /\ SectSize \in Nat \ {0}
    BY SizeAssumption
  <1>2. ClustSize \in Nat \ {0} /\ ClustSize = SectsClust * SectSize
    BY <1>1 DEF ClustSize
  <1>3. /\ Clust \subseteq Nat /\ EOC \in Nat /\ EOC # 0
        /\ EOC \notin Clust /\ 0 \notin Clust /\ 1 \notin Clust
    BY <1>1 DEF Clust, EOC
  <1>4. IsFiniteSet(Clust)
    BY <1>1, FS_Interval DEF Clust
  <1> QED BY <1>1, <1>2, <1>3, <1>4

LEMMA OrgIsNat == Org \subseteq Nat /\ FatVal \subseteq Nat /\ Org \subseteq FatVal
  BY Constants DEF Org, FatVal

LEMMA FatSectIs ==
  ASSUME NEW c \in Clust
  PROVE  FatSect(c) \in Nat /\ FatSect(c) # DirSect /\ \A k \in Clust : FatSect(c) # TableSect(k)
  <1>1. FatSect(c) \in Nat
    BY Constants, DivMod DEF FatSect
  <1> QED BY <1>1, Constants DEF DirSect, TableSect

LEMMA TableSectIs ==
  ASSUME NEW c \in Clust
  PROVE  TableSect(c) \in Int /\ TableSect(c) # DirSect
  BY Constants DEF DirSect, TableSect

(* The sectors of clusters are their own. *)
LEMMA SectsApart ==
  ASSUME NEW c \in Clust
  PROVE  /\ clust2sect(c) \in Nat \ {0} /\ clust2sect(c + 1) = clust2sect(c) + SectsClust
         /\ ClustSects(c) = clust2sect(c) .. clust2sect(c) + SectsClust - 1
         /\ ClustSects(c) \subseteq DataSects
         /\ \A d \in Clust : d # c => ClustSects(c) \cap ClustSects(d) = {}
  <1> DEFINE at(d) == (d - 2) * SectsClust
  <1>1. \A d \in Clust : /\ at(d) \in Nat /\ clust2sect(d) = at(d) + 2
                         /\ clust2sect(d + 1) = at(d) + SectsClust + 2
    <2> TAKE d \in Clust
    <2>1. d \in Nat /\ d >= 2 /\ SectsClust \in Nat
      BY Constants DEF Clust
    <2>2. (d + 1 - 2) * SectsClust = at(d) + SectsClust /\ at(d) \in Nat
      BY <2>1
    <2> QED BY <2>1, <2>2 DEF clust2sect, DataBase
  <1>2. ClustSects(c) = clust2sect(c) .. clust2sect(c) + SectsClust - 1
    BY <1>1, Constants DEF ClustSects
  <1>3. \A d, e \in Clust : d < e => at(e) >= at(d) + SectsClust
    <2> TAKE d, e \in Clust
    <2>1. d - 2 \in Nat /\ e - 2 \in Nat /\ SectsClust \in Nat
      BY Constants DEF Clust
    <2> QED BY <2>1, Product, Constants
  <1>4. \A d \in Clust : d # c => ClustSects(c) \cap ClustSects(d) = {}
    <2> SUFFICES ASSUME NEW d \in Clust, d # c, NEW s \in ClustSects(c), s \in ClustSects(d)
                 PROVE  FALSE
      OBVIOUS
    <2>1. /\ s \in at(c) + 2 .. at(c) + SectsClust + 1
          /\ s \in at(d) + 2 .. at(d) + SectsClust + 1
      BY <1>1, Constants DEF ClustSects
    <2>2. at(d) >= at(c) + SectsClust \/ at(c) >= at(d) + SectsClust
      BY <1>3, Constants
    <2> HIDE DEF at
    <2> QED BY <2>1, <2>2, <1>1, Constants
  <1>5. ClustSects(c) \subseteq DataSects
    <2>1. clust2sect(2) = 2
      BY Constants DEF clust2sect, DataBase
    <2>2. clust2sect(MaxClust) = (MaxClust - 2) * SectsClust + 2
      BY DEF clust2sect, DataBase
    <2>3. (MaxClust - 2) * SectsClust >= at(c) + SectsClust /\ (MaxClust - 2) * SectsClust \in Nat
      <3>1. c - 2 \in Nat /\ MaxClust - 2 \in Nat /\ MaxClust - 2 > c - 2 /\ SectsClust \in Nat
        BY Constants DEF Clust
      <3> QED BY <3>1, Product, Constants
    <2> HIDE DEF at
    <2> QED BY <1>1, <1>2, <2>1, <2>2, <2>3, Constants DEF DataSects
  <1>6. clust2sect(c) \in Nat \ {0} /\ clust2sect(c + 1) = clust2sect(c) + SectsClust
    <2> HIDE DEF at
    <2> QED BY <1>1, Constants
  <1> QED BY <1>2, <1>4, <1>5, <1>6
-----------------------------------------------------------------------------
(* The window *)

(* Data of the card once a table in the window has reached it. *)
TableOut(data) ==
  [s \in DataSects |->
    IF winflag /\ \E k \in Clust : win = TableSect(k) /\ s = clust2sect(k)
    THEN Table ELSE data[s]]

LEMMA FlushedToIs ==
  ASSUME TypeOK, Coherent, NEW c \in Card, c.fat = card.fat, c.dir = card.dir
  PROVE  /\ FlushedTo(c) \in Card /\ FlushedTo(c).fat = fat /\ FlushedTo(c).dir = dir
         /\ FlushedTo(c).data = TableOut(c.data)
  <1> DEFINE F == [k \in Clust |->
                    IF winflag /\ FatSect(k) = win THEN fat[k] ELSE c.fat[k]]
             D == IF winflag /\ win = DirSect THEN dir ELSE c.dir
             T == TableOut(c.data)
  <1>1. FlushedTo(c) = [c EXCEPT !.fat = F, !.dir = D, !.data = T]
    BY DEF FlushedTo, TableOut
  <1>2. F = fat
    BY DEF TypeOK, Coherent, Card
  <1>3. D = dir
    BY DEF Coherent
  <1>4. T \in [DataSects -> Int]
    BY DEF TableOut, Card, Table
  <1> HIDE DEF F, D, T
  <1>5. [c EXCEPT !.fat = F, !.dir = D, !.data = T] \in Card
    BY <1>2, <1>3, <1>4 DEF Card, TypeOK
  <1>6. FlushedTo(c).fat = F /\ FlushedTo(c).dir = D /\ FlushedTo(c).data = T
    BY <1>1 DEF Card
  <1> QED BY <1>1, <1>2, <1>3, <1>5, <1>6 DEF T

LEMMA FlushedIs ==
  ASSUME TypeOK, Coherent
  PROVE  /\ Flushed \in Card /\ Flushed.fat = fat /\ Flushed.dir = dir
         /\ Flushed.data = TableOut(card.data)
  BY FlushedToIs DEF Flushed, TypeOK

LEMMA WithDataIs ==
  ASSUME NEW c \in Card, NEW data \in [DataSects -> Int]
  PROVE  /\ [c EXCEPT !.data = data] \in Card
         /\ [c EXCEPT !.data = data].fat = c.fat
         /\ [c EXCEPT !.data = data].dir = c.dir
         /\ [c EXCEPT !.data = data].data = data
  BY DEF Card

LEMMA MovedIs ==
  ASSUME TypeOK, Coherent, NEW s
  PROVE  /\ Moved(s) \in Card
         /\ s = win => Moved(s) = card
         /\ s # win => /\ Moved(s).fat = fat /\ Moved(s).dir = dir
                       /\ Moved(s).data = TableOut(card.data)
  BY FlushedIs DEF Moved, TypeOK

LEMMA ClearedIs ==
  ASSUME NEW data \in [DataSects -> Int], NEW c
  PROVE  Cleared(data, c) \in [DataSects -> Int]
  BY DEF Cleared

(* What a step does to the FAT and the directory on the card: nothing, or  *)
(* all that the window holds back gets there.                              *)
CardMoves ==
  /\ card' \in Card
  /\ \/ /\ card'.fat = card.fat /\ card'.dir = card.dir
        /\ win' = win /\ (winflag => winflag')
     \/ card'.fat = fat /\ card'.dir = dir

SetFat(c, v) == /\ fat' = [fat EXCEPT ![c] = v] /\ UNCHANGED dir
                /\ win' = FatSect(c) /\ winflag' = TRUE
SetDir == /\ dir' \in [Slots -> Entry] /\ UNCHANGED fat
          /\ win' = DirSect /\ winflag' = TRUE

WindowStep == /\ CardMoves
              /\ \/ UNCHANGED <<fat, dir>>
                 \/ \E c \in Clust : \E v \in FatVal : SetFat(c, v)
                 \/ SetDir

LEMMA FatSetFlushes ==
  ASSUME TypeOK, Coherent, CardMoves, NEW c \in Clust, NEW v \in FatVal, SetFat(c, v)
  PROVE  Coherent' /\ card'.dir = dir
  <1>1. card'.dir = dir
    BY FatSectIs DEF CardMoves, SetFat, Coherent
  <1>2. \A d \in Clust : card'.fat[d] # fat'[d] => winflag' /\ win' = FatSect(d)
    BY DEF CardMoves, SetFat, Coherent, TypeOK
  <1> QED BY <1>1, <1>2 DEF SetFat, Coherent

LEMMA DirSetFlushes ==
  ASSUME TypeOK, Coherent, CardMoves, SetDir
  PROVE  Coherent' /\ card'.fat = fat
  <1>1. card'.fat = fat
    <2>1. CASE card'.fat = card.fat /\ win' = win
      <3>1. \A c \in Clust : card.fat[c] = fat[c]
        BY <2>1, FatSectIs DEF SetDir, Coherent
      <3> QED BY <2>1, <3>1 DEF TypeOK, Card
    <2> QED BY <2>1 DEF CardMoves
  <1> QED BY <1>1 DEF SetDir, Coherent

LEMMA StaysCoherent ==
  ASSUME TypeOK, Coherent, WindowStep
  PROVE  Coherent'
  <1>1. CASE UNCHANGED <<fat, dir>>
    BY <1>1 DEF WindowStep, CardMoves, Coherent
  <1> QED BY <1>1, FatSetFlushes, DirSetFlushes DEF WindowStep

(* Another sector comes into the window, and may be modified there. *)
LEMMA LookMoves ==
  ASSUME TypeOK, Coherent, NEW s, card' = Moved(s), win' = s, winflag' = (winflag /\ s = win)
  PROVE  CardMoves
  BY MovedIs DEF CardMoves, TypeOK

LEMMA ModifyMoves ==
  ASSUME TypeOK, Coherent, NEW s, card' = Moved(s), win' = s, winflag' = TRUE
  PROVE  CardMoves
  BY MovedIs DEF CardMoves, TypeOK

LEMMA DataMoves ==
  ASSUME TypeOK, Coherent, NEW data \in [DataSects -> Int],
         card' = [card EXCEPT !.data = data], UNCHANGED window
  PROVE  CardMoves
  BY WithDataIs DEF CardMoves, TypeOK, window

LEMMA MissedMoves ==
  ASSUME TypeOK, Coherent, NEW c \in Card, c.fat = card.fat, c.dir = card.dir, Missed(c),
         win' = win
  PROVE  CardMoves
  <1>1. CASE card' = c /\ UNCHANGED winflag
    BY <1>1 DEF CardMoves
  <1>2. CASE card' = FlushedTo(c)
    BY <1>2, FlushedToIs DEF CardMoves
  <1> QED BY <1>1, <1>2 DEF Missed
-----------------------------------------------------------------------------
(* The search for a free cluster *)

LEMMA StartIs ==
  ASSUME TypeOK
  PROVE  Start \in 0 .. MaxClust - 1 /\ \A c \in Clust : Dist(c) \in Nat
  <1>1. Start \in 0 .. MaxClust - 1
    BY Constants DEF Start, TypeOK, File, Org, Clust
  <1> QED BY <1>1, Constants DEF Dist, Clust

LEMMA FirstFreeIs ==
  ASSUME TypeOK, Free # {}
  PROVE  FirstFree \in Clust /\ fat[FirstFree] = 0
  <1> DEFINE T == {Dist(c) : c \in Free}
  <1>1. T \in SUBSET Nat /\ T # {}
    BY StartIs DEF Free
  <1>2. PICK n \in T : \A m \in T : n <= m
    <2> HIDE DEF T
    <2> QED BY <1>1, Least
  <1>3. \E c \in Free : \A d \in Free : Dist(c) <= Dist(d)
    BY <1>2
  <1>4. FirstFree \in Free
    BY <1>3 DEF FirstFree
  <1> QED BY <1>4 DEF Free

LEMMA LastSeenIs ==
  ASSUME TypeOK
  PROVE  LastSeen \in Clust /\ LastSeen \in Visited /\ (Free # {} => LastSeen = FirstFree)
  <1>1. MaxClust - 1 \in Clust
    BY Constants DEF Clust
  <1>2. LastSeen \in Clust
    BY <1>1, FirstFreeIs DEF LastSeen
  <1>3. Dist(LastSeen) <= Dist(LastSeen)
    BY <1>2, StartIs
  <1> QED BY <1>2, <1>3 DEF Visited, LastSeen

LEMMA SearchedIs ==
  ASSUME TypeOK, Coherent
  PROVE  /\ Searched \in Card
         /\ \/ Searched = card /\ FatSect(LastSeen) = win
            \/ Searched = Flushed
  BY LastSeenIs, FlushedIs DEF Searched, TypeOK

LEMMA AllocateMoves ==
  ASSUME TypeOK, Coherent, Free # {}, win' = FatSect(LastSeen), winflag' = TRUE,
         fat' = [fat EXCEPT ![FirstFree] = EOC], UNCHANGED dir,
         card' = [Searched EXCEPT !.data = Cleared(@, FirstFree)]
  PROVE  CardMoves /\ SetFat(FirstFree, EOC)
  <1>1. SetFat(FirstFree, EOC)
    BY LastSeenIs DEF SetFat
  <1>2. Cleared(Searched.data, FirstFree) \in [DataSects -> Int]
    BY SearchedIs, ClearedIs DEF Card
  <1>3. /\ card' \in Card /\ card'.fat = Searched.fat /\ card'.dir = Searched.dir
    BY <1>2, SearchedIs, WithDataIs
  <1> QED BY <1>1, <1>3, SearchedIs, FlushedIs DEF CardMoves

LEMMA FullMoves ==
  ASSUME TypeOK, Coherent, win' = FatSect(LastSeen), card' = Searched,
         winflag' = (winflag /\ card' = card)
  PROVE  CardMoves
  BY SearchedIs, FlushedIs DEF CardMoves
-----------------------------------------------------------------------------
(* Data *)

LEMMA WrittenIs ==
  ASSUME NEW data \in [DataSects -> Int], NEW r, NEW pos, NEW s, NEW k \in Int
  PROVE  Written(data, r, pos, s, k) \in [DataSects -> Int]
  BY DEF Written

LEMMA BufferOutIs ==
  ASSUME NEW r \in File, card.data \in [DataSects -> Int]
  PROVE  BufferOut(r) \in [DataSects -> Int]
  BY WrittenIs DEF BufferOut, File

LEMMA PutData ==
  ASSUME TypeOK, NEW r \in File, NEW s \in Nat, Put(r, s)
  PROVE  \E data \in [DataSects -> Int] : card' = [card EXCEPT !.data = data]
  <1> DEFINE out   == BufferOut(file[fp])
             whole == Lesser(btw \div SectSize, r.sc)
             at(i) == r.fptr + (i - s) * SectSize
             run   == [i \in DataSects |->
                         IF i \in s .. s + whole - 1
                         THEN Written(out, r, at(i), i, SectSize)[i]
                         ELSE out[i]]
  <1>1. out \in [DataSects -> Int]
    BY BufferOutIs DEF TypeOK, Card
  <1>2. SectSize \in Int
    BY Constants
  <1>3. run \in [DataSects -> Int]
    <2> HIDE DEF out, at, whole
    <2>1. \A i \in DataSects : Written(out, r, at(i), i, SectSize) \in [DataSects -> Int]
      BY <1>1, <1>2, WrittenIs
    <2> QED BY <1>1, <2>1
  <1>4. card' = [card EXCEPT !.data = run] \/ card' = [card EXCEPT !.data = out]
    BY DEF Put
  <1> HIDE DEF out, run
  <1> QED BY <1>1, <1>3, <1>4

LEMMA FillIs ==
  ASSUME NEW r \in File, NEW data \in [DataSects -> Int], NEW s
  PROVE  Fill(r, data, s) \in Int
  BY DEF Fill

(* n units have been taken, directly or into the buffer. *)
PutAs(r, s, n, sc, sect, buf, dirty) ==
  /\ btw' = btw - n
  /\ file' = [file EXCEPT ![fp] =
                [r EXCEPT !.fptr = r.fptr + n, !.sc = sc, !.sect = sect,
                          !.buf = buf, !.dirty = dirty]]
  /\ \/ /\ sc = r.sc - (n \div SectSize - 1) /\ n % SectSize = 0
        /\ n \div SectSize \in 1 .. r.sc
        /\ sect = s + n \div SectSize - 1 /\ ~dirty /\ buf = 0
        /\ n = (n \div SectSize) * SectSize
     \/ /\ n = btw /\ n < SectSize /\ sc = r.sc /\ sect = s /\ dirty
        /\ buf = Greater(btw, Fill(r, BufferOut(file[fp]), s))

(* How many units a step of f_write takes, and the file after it. *)
LEMMA PutFile ==
  ASSUME TypeOK, btw > 0, NEW r \in File, r.sc > 0, NEW s \in Nat, Put(r, s)
  PROVE  /\ file' \in [{"log", "wr"} -> File] /\ btw' \in Nat
         /\ \E n \in 1 .. btw, sc \in 1 .. r.sc, sect \in Nat, buf \in Nat, dirty \in BOOLEAN :
              PutAs(r, s, n, sc, sect, buf, dirty)
  <1> DEFINE whole == Lesser(btw \div SectSize, r.sc)
             out   == BufferOut(file[fp])
  <1>1. out \in [DataSects -> Int] /\ Fill(r, out, s) \in Int
    BY BufferOutIs, FillIs DEF TypeOK, Card
  <1>2. /\ btw \div SectSize \in Nat /\ btw % SectSize \in 0 .. SectSize - 1
        /\ btw = (btw \div SectSize) * SectSize + (btw % SectSize) /\ btw \in Nat
        /\ SectSize \in Nat \ {0}
    BY DivMod, Constants DEF TypeOK
  <1>3. whole \in 0 .. r.sc /\ whole <= btw \div SectSize /\ r.sc \in 1 .. 255
        /\ (whole = 0 => btw \div SectSize = 0)
    BY <1>2 DEF Lesser, File
  <1>4. r.fptr \in Nat
    BY DEF File
  <1> DEFINE direct == [r EXCEPT !.fptr = r.fptr + whole * SectSize,
                                 !.sc = r.sc - (whole - 1), !.sect = s + whole - 1,
                                 !.dirty = FALSE, !.buf = 0]
             part   == [r EXCEPT !.fptr = r.fptr + btw, !.sect = s, !.dirty = TRUE,
                                 !.buf = Greater(btw, Fill(r, out, s))]
  <1>5. \/ /\ whole > 0 /\ file' = [file EXCEPT ![fp] = direct]
           /\ btw' = btw - whole * SectSize
        \/ /\ whole = 0 /\ file' = [file EXCEPT ![fp] = part] /\ btw' = 0
    BY DEF Put, SectsAfter, File
  <1> HIDE DEF whole, out
  <1>6. CASE whole > 0 /\ file' = [file EXCEPT ![fp] = direct] /\ btw' = btw - whole * SectSize
    <2> DEFINE n == whole * SectSize
    <2>1. /\ whole \in Nat \ {0} /\ n \in Nat /\ n >= SectSize
          /\ n <= (btw \div SectSize) * SectSize
      <3>1. whole \in Nat /\ whole >= 1 /\ btw \div SectSize \in Nat
        BY <1>2, <1>3, <1>6
      <3>2. 1 * SectSize = SectSize
        BY <1>2
      <3> QED BY <3>1, <3>2, <1>2, <1>3, Product
    <2>2. n \div SectSize = whole /\ n % SectSize = 0
      <3>1. n = whole * SectSize + 0 /\ n \in Int /\ 0 \in 0 .. SectSize - 1
        BY <2>1, <1>2
      <3> HIDE DEF n
      <3>2. whole \in Nat
        BY <1>3
      <3> QED BY <3>1, <3>2, <1>2, DivIs
    <2>3. n \in 1 .. btw
      <3> HIDE DEF n
      <3> QED BY <2>1, <1>2
    <2>4. direct \in File
      <3>1. r.fptr + n \in Nat /\ r.sc - (whole - 1) \in 0 .. 255 /\ s + whole - 1 \in Nat
        <4>1. n \in Nat
          BY <2>1
        <4>2. whole \in 1 .. 255 /\ r.sc \in 1 .. 255 /\ whole <= r.sc
          <5>1. whole \in 0 .. r.sc /\ whole > 0 /\ r.sc \in 1 .. 255
            BY <1>3, <1>6
          <5> QED BY <5>1
        <4> HIDE DEF n
        <4>3. r.fptr + n \in Nat
          BY <4>1, <1>4
        <4>4. r.sc - (whole - 1) \in 0 .. 255
          <5>1. \A a, b \in 1 .. 255 : b <= a => a - (b - 1) \in 0 .. 255
            OBVIOUS
          <5> QED BY <5>1, <4>2
        <4>5. s + whole - 1 \in Nat
          BY <4>2
        <4> QED BY <4>3, <4>4, <4>5
      <3> HIDE DEF n
      <3> QED BY <3>1 DEF File, n
    <2>5. /\ r.sc - (whole - 1) \in 1 .. r.sc /\ s + whole - 1 \in Nat
          /\ n \div SectSize \in 1 .. r.sc
      <3> HIDE DEF n
      <3> QED BY <2>1, <2>2, <1>3, <1>6
    <2>6. file' \in [{"log", "wr"} -> File] /\ btw' \in Nat /\ btw' = btw - n
      <3>1. btw - n \in Nat
        <4> HIDE DEF n
        <4> QED BY <2>3, <1>2
      <3> HIDE DEF direct
      <3> QED BY <3>1, <2>4, <1>6 DEF TypeOK
    <2> HIDE DEF n
    <2>7. file' = [file EXCEPT ![fp] =
                   [r EXCEPT !.fptr = r.fptr + n, !.sc = r.sc - (whole - 1),
                             !.sect = s + whole - 1, !.buf = 0, !.dirty = FALSE]]
      BY <1>6 DEF n
    <2>8. n = (n \div SectSize) * SectSize
      BY <2>2 DEF n
    <2> HIDE DEF direct
    <2>9. r.sc - (whole - 1) = r.sc - (n \div SectSize - 1) /\ s + whole - 1 = s + n \div SectSize - 1
      BY <2>2
    <2>10. 0 \in Nat /\ FALSE \in BOOLEAN
      OBVIOUS
    <2>11. PutAs(r, s, n, r.sc - (whole - 1), s + whole - 1, 0, FALSE)
      BY <2>2, <2>5, <2>6, <2>7, <2>8, <2>9 DEF PutAs
    <2> QED BY <2>3, <2>5, <2>6, <2>10, <2>11
  <1>7. CASE whole = 0 /\ file' = [file EXCEPT ![fp] = part] /\ btw' = 0
    <2>1. btw < SectSize
      BY <1>2, <1>3, <1>7
    <2>2. Greater(btw, Fill(r, out, s)) \in Nat
      BY <1>1, <1>2 DEF Greater
    <2>3. r.fptr + btw \in Nat
      BY <1>2, <1>4
    <2>4. part \in File
      BY <2>2, <2>3 DEF File
    <2>5. file' \in [{"log", "wr"} -> File]
      <3> HIDE DEF part
      <3> QED BY <2>4, <1>7 DEF TypeOK
    <2>6. btw \in 1 .. btw /\ r.sc \in 1 .. r.sc /\ btw' = btw - btw /\ btw' \in Nat
      <3>1. btw \in Nat /\ btw > 0 /\ r.sc \in 1 .. 255 /\ btw' = 0
        BY <1>3, <1>7 DEF TypeOK
      <3> QED BY <3>1
    <2>7. file' = [file EXCEPT ![fp] =
                   [r EXCEPT !.fptr = r.fptr + btw, !.sc = r.sc, !.sect = s,
                             !.buf = Greater(btw, Fill(r, out, s)), !.dirty = TRUE]]
      <3>1. part = [r EXCEPT !.fptr = r.fptr + btw, !.sc = r.sc, !.sect = s,
                             !.buf = Greater(btw, Fill(r, out, s)), !.dirty = TRUE]
        BY DEF File
      <3> QED BY <3>1, <1>7
    <2> HIDE DEF part
    <2>8. PutAs(r, s, btw, r.sc, s, Greater(btw, Fill(r, out, s)), TRUE)
      BY <2>1, <2>6, <2>7 DEF PutAs, out
    <2> QED BY <2>2, <2>5, <2>6, <2>8
  <1> QED BY <1>5, <1>6, <1>7
-----------------------------------------------------------------------------
(* Entries *)

(* Every name finds a slot (NameAssumption). *)
LEMMA FreeSlotIs ==
  ASSUME TypeOK, Names(dir), NEW n \in Name, \A s \in Slots : dir[s].name # n
  PROVE  FreeSlot \in Slots /\ dir[FreeSlot].name = NoName
  <1>1. FreeSlots # {}
    <2> SUFFICES ASSUME FreeSlots = {} PROVE FALSE
      OBVIOUS
    <2> DEFINE g == [s \in Slots |-> dir[s].name]
    <2>1. g \in [Slots -> Name \ {n}]
      BY DEF FreeSlots, TypeOK, Entry
    <2>2. IsFiniteSet(Name \ {n}) /\ Cardinality(Name \ {n}) = Cardinality(Name) - 1
      BY NameAssumption, FS_RemoveElement
    <2>3. Cardinality(Name) \in Nat /\ Cardinality(Slots) \in Nat
      BY NameAssumption, FS_CardinalityType
    <2>4. Cardinality(Name \ {n}) < Cardinality(Slots)
      BY <2>2, <2>3, NameAssumption
    <2> DEFINE N == Name \ {n}
    <2>5. PICK s, t \in Slots : s # t /\ g[s] = g[t]
      <3>1. g \in [Slots -> N] /\ IsFiniteSet(N) /\ IsFiniteSet(Slots)
            /\ Cardinality(N) < Cardinality(Slots)
        BY <2>1, <2>2, <2>4, NameAssumption
      <3> HIDE DEF g, N
      <3> QED BY <3>1, FS_PigeonHole
    <2>6. dir[s].name = dir[t].name /\ dir[s].name # NoName
      BY <2>5 DEF g, FreeSlots
    <2> QED BY <2>5, <2>6 DEF Names
  <1>2. FreeSlots \in SUBSET Nat
    BY NameAssumption DEF FreeSlots
  <1>3. FreeSlot \in FreeSlots
    BY <1>1, <1>2, Least DEF FreeSlot
  <1> QED BY <1>3 DEF FreeSlots

LEMMA OpenedIs ==
  ASSUME TypeOK, NEW f \in {"log", "wr"}, NEW s \in Slots, NEW org \in Org, NEW size \in Nat,
         Opened(f, s, org, size)
  PROVE  /\ file' \in [{"log", "wr"} -> File]
         /\ \A g \in {"log", "wr"} : g # f => file'[g] = file[g]
         /\ file'[f] = [Closed EXCEPT !.open = TRUE, !.slot = s, !.org = org, !.fsize = size]
  <1>1. s \in Nat
    BY NameAssumption
  <1> DEFINE r == [Closed EXCEPT !.open = TRUE, !.slot = s, !.org = org, !.fsize = size]
  <1>2. r \in File
    <2>1. Closed \in File
      BY DEF Closed, File, Org
    <2> QED BY <1>1, <2>1 DEF File
  <1>3. file' = [file EXCEPT ![f] = r]
    BY DEF Opened
  <1> HIDE DEF r
  <1>4. file' \in [{"log", "wr"} -> File] /\ file'[f] = r
        /\ \A g \in {"log", "wr"} : g # f => file'[g] = file[g]
    BY <1>2, <1>3 DEF TypeOK
  <1> QED BY <1>4 DEF r

LEMMA CreateIs ==
  ASSUME TypeOK, Coherent, NamesInv, NEW f \in {"log", "wr"}, NEW n \in Name, Create(f, n),
         UNCHANGED fat
  PROVE  /\ FreeSlot \in Slots /\ dir[FreeSlot].name = NoName
         /\ dir' \in [Slots -> Entry] /\ CardMoves /\ SetDir
         /\ \A s \in Slots : dir'[s] =
              IF s = FreeSlot THEN [Empty EXCEPT !.name = n] ELSE dir[s]
         /\ file' \in [{"log", "wr"} -> File]
         /\ \A g \in {"log", "wr"} : g # f => file'[g] = file[g]
         /\ file'[f] = [Closed EXCEPT !.open = TRUE, !.slot = FreeSlot, !.org = 0, !.fsize = 0]
  <1>1. FreeSlot \in Slots /\ dir[FreeSlot].name = NoName
    BY FreeSlotIs DEF Create, NamesInv
  <1>2. [Empty EXCEPT !.name = n] \in Entry
    BY DEF Empty, Entry, Org
  <1>3. /\ dir' \in [Slots -> Entry]
        /\ \A s \in Slots : dir'[s] =
             IF s = FreeSlot THEN [Empty EXCEPT !.name = n] ELSE dir[s]
    BY <1>1, <1>2 DEF Create, TypeOK
  <1>4. CardMoves /\ SetDir
    BY <1>3, ModifyMoves DEF Create, Modify, SetDir
  <1>5. Opened(f, FreeSlot, 0, 0) /\ 0 \in Org /\ 0 \in Nat
    BY DEF Create, Org
  <1>6. /\ file' \in [{"log", "wr"} -> File]
        /\ \A g \in {"log", "wr"} : g # f => file'[g] = file[g]
        /\ file'[f] = [Closed EXCEPT !.open = TRUE, !.slot = FreeSlot, !.org = 0, !.fsize = 0]
    <2>1. FreeSlot \in Slots /\ 0 \in Org /\ 0 \in Nat /\ Opened(f, FreeSlot, 0, 0)
      BY <1>1, <1>5
    <2>2. /\ file' \in [{"log", "wr"} -> File]
          /\ \A g \in {"log", "wr"} : g # f => file'[g] = file[g]
      BY <2>1, OpenedIs
    <2>3. file'[f] = [Closed EXCEPT !.open = TRUE, !.slot = FreeSlot, !.org = 0, !.fsize = 0]
      BY <2>1 DEF Opened, TypeOK
    <2> QED BY <2>2, <2>3
  <1> QED BY <1>1, <1>3, <1>4, <1>6

(* What the types need beside WindowStep. *)
Rest ==
  /\ win' \in Int /\ winflag' \in BOOLEAN /\ last_clust' \in Nat
  /\ file' \in [{"log", "wr"} -> File]
  /\ pc' \in {"idle", "free", "cat"} \cup Busy \cup Making
  /\ fp' \in {"log", "wr"} /\ btw' \in Nat /\ clust' \in FatVal /\ rs' \in Org
  /\ after' \in {"keep", "open", "unlink", "close"} /\ mishaps' \in Nat

LEMMA TypesStay ==
  ASSUME TypeOK, Coherent, WindowStep, Rest
  PROVE  TypeOK'
  <1>1. fat' \in [Clust -> FatVal] /\ dir' \in [Slots -> Entry]
    BY DEF TypeOK, WindowStep, SetFat, SetDir
  <1> QED BY <1>1 DEF TypeOK, Rest, WindowStep, CardMoves

LEMMA Zero == 0 \in FatVal /\ 0 \in Org /\ 0 \in Nat /\ DirSect \in Int
  BY DEF FatVal, Org, DirSect

LEMMA CommandTypes ==
  ASSUME TypeOK, Coherent, NamesInv, CallInv, Command
  PROVE  WindowStep /\ Rest
  <1>1. ASSUME NEW n \in Name, LogOpen(n) PROVE WindowStep /\ Rest
    <2>1. CASE Create("log", n) /\ UNCHANGED <<pc, local>>
      <3>1. UNCHANGED <<fat, last_clust, mishaps>>
        BY <1>1 DEF LogOpen
      <3>2. CardMoves /\ SetDir /\ file' \in [{"log", "wr"} -> File]
        BY <2>1, <3>1, CreateIs
      <3> QED BY <2>1, <3>1, <3>2, Zero DEF WindowStep, Rest, TypeOK, local, SetDir
    <2>2. ASSUME NEW s \in Slots, dir[s].name = n, Modify(DirSect),
                 dir' = [dir EXCEPT ![s].org = 0, ![s].size = 0],
                 file' = [file EXCEPT !["log"].slot = s],
                 rs' = dir[s].org /\ clust' = dir[s].org,
                 pc' = "free" /\ after' = "open", UNCHANGED <<fp, btw>>
          PROVE  WindowStep /\ Rest
      <3>1. UNCHANGED <<fat, last_clust, mishaps>>
        BY <1>1 DEF LogOpen
      <3>2. dir' \in [Slots -> Entry]
        BY <2>2 DEF TypeOK, Entry, Org
      <3>3. CardMoves /\ SetDir
        BY <2>2, <3>1, <3>2, ModifyMoves DEF Modify, SetDir
      <3>4. s \in Nat /\ dir[s].org \in Org
        BY NameAssumption DEF TypeOK, Entry
      <3>5. file' \in [{"log", "wr"} -> File]
        BY <2>2, <3>4 DEF TypeOK, File
      <3>6. dir[s].org \in FatVal
        BY <3>4 DEF Org, FatVal
      <3> QED BY <2>2, <3>1, <3>3, <3>4, <3>5, <3>6, Zero DEF WindowStep, Rest, TypeOK, SetDir
    <2> QED BY <1>1, <2>1, <2>2 DEF LogOpen
  <1>2. ASSUME NEW n \in Name, CatOpen(n) PROVE WindowStep /\ Rest
    <2>0. UNCHANGED <<fat, last_clust, local, mishaps>> /\ pc' = "cat"
      BY <1>2 DEF CatOpen
    <2>1. CASE Create("wr", n)
      <3>2. CardMoves /\ SetDir /\ file' \in [{"log", "wr"} -> File]
        BY <2>1, <2>0, CreateIs
      <3> QED BY <2>1, <2>0, <3>2, Zero DEF WindowStep, Rest, TypeOK, local, SetDir
    <2>2. ASSUME NEW s \in Slots, Look(DirSect), Opened("wr", s, dir[s].org, dir[s].size),
                 UNCHANGED dir
          PROVE  WindowStep /\ Rest
      <3>1. CardMoves
        BY <2>2, LookMoves DEF Look
      <3>2. dir[s].org \in Org /\ dir[s].size \in Nat
        BY DEF TypeOK, Entry
      <3>3. file' \in [{"log", "wr"} -> File]
        BY <2>2, <3>2, OpenedIs
      <3>4. winflag' \in BOOLEAN /\ win' \in Int
        BY <2>2, Zero DEF Look
      <3> QED BY <2>2, <2>0, <3>1, <3>3, <3>4 DEF WindowStep, Rest, TypeOK, local
    <2> QED BY <1>2, <2>1, <2>2 DEF CatOpen
  <1>3. ASSUME NEW n \in Name, Unlink(n) PROVE WindowStep /\ Rest
    <2>0. UNCHANGED <<fat, last_clust, file, fp, btw, rs, mishaps>>
          /\ pc' = "free" /\ after' = "unlink"
      BY <1>3 DEF Unlink
    <2>1. PICK s \in Slots : /\ dir' = [dir EXCEPT ![s] = Empty] /\ clust' = dir[s].org
                             /\ \/ card' = Flushed /\ win' = DirSect /\ winflag' = TRUE
                                \/ Modify(DirSect)
      BY <1>3 DEF Unlink
    <2>2. dir' \in [Slots -> Entry]
      BY <2>1 DEF TypeOK, Entry, Empty, Org
    <2>3. CardMoves /\ SetDir
      BY <2>0, <2>1, <2>2, ModifyMoves, FlushedIs DEF Modify, SetDir, CardMoves
    <2>4. clust' \in FatVal
      BY <2>1 DEF TypeOK, Entry, Org, FatVal
    <2> QED BY <2>0, <2>3, <2>4, Zero DEF WindowStep, Rest, TypeOK, SetDir
  <1>4. ASSUME NEW k \in WriteSizes, LogWrite(k) \/ CatWrite(k) PROVE WindowStep /\ Rest
    <2>1. k \in Nat
      BY BoundAssumption
    <2>2. UNCHANGED <<fat, dir, window, last_clust, card, file, clust, rs, after, mishaps>>
      BY <1>4 DEF LogWrite, CatWrite
    <2>3. CardMoves
      BY <2>2 DEF CardMoves, TypeOK, window
    <2>4. /\ pc' \in {"write", "sync"} /\ fp' \in {"log", "wr"} /\ btw' \in {0, k}
      BY <1>4 DEF LogWrite, CatWrite
    <2> QED BY <2>1, <2>2, <2>3, <2>4 DEF WindowStep, Rest, TypeOK, window, Busy
  <1>5. ASSUME NEW s \in FatSects, CatRead(s) PROVE WindowStep /\ Rest
    <2>1. s \in Int
      BY FatSectIs DEF FatSects
    <2>2. CardMoves
      BY <1>5, LookMoves DEF CatRead, Look
    <2> QED BY <1>5, <2>1, <2>2 DEF CatRead, Look, WindowStep, Rest, TypeOK, local
  <1>6. ASSUME LogStop \/ CatClose PROVE WindowStep /\ Rest
    <2>1. UNCHANGED <<fat, dir, window, last_clust, card, file, btw, clust, rs, mishaps>>
      BY <1>6 DEF LogStop, CatClose
    <2>2. CardMoves
      BY <2>1 DEF CardMoves, TypeOK, window
    <2>3. pc' = "sync" /\ fp' \in {"log", "wr"} /\ after' = "close"
      BY <1>6 DEF LogStop, CatClose
    <2> QED BY <2>1, <2>2, <2>3 DEF WindowStep, Rest, TypeOK, window, Busy
  <1>7. ASSUME Mkdir PROVE WindowStep /\ Rest
    <2>2. CardMoves
      BY <1>7, LookMoves DEF Mkdir, Look
    <2> QED BY <1>7, <2>2, Zero DEF Mkdir, Look, WindowStep, Rest, TypeOK, local, Making
  <1> QED BY <1>1, <1>2, <1>3, <1>4, <1>5, <1>6, <1>7 DEF Command

LEMMA SectsLeftIs ==
  ASSUME TypeOK
  PROVE  SectsLeft \in 0 .. 255
  <1>1. \A a \in Int : a % 256 \in 0 .. 255
    OBVIOUS
  <1> QED BY <1>1 DEF SectsLeft, TypeOK, File

LEMMA LeftIs ==
  ASSUME NEW r \in File
  PROVE  Left(r) \in File
  BY DEF Left, Closed, File, Org

LEMMA PutMoves ==
  ASSUME TypeOK, Coherent, NEW r \in File, NEW s \in Nat, Put(r, s), UNCHANGED window
  PROVE  CardMoves
  BY PutData, DataMoves

LEMMA WriteTypes ==
  ASSUME TypeOK, Coherent, CallInv, FilesInv, Write
  PROVE  WindowStep /\ Rest
  <1>0. file[fp] \in File /\ file[fp].fptr \in Nat /\ btw \in Nat
    BY DEF TypeOK, File
  <1>1. ASSUME WriteBuffer PROVE WindowStep /\ Rest
    <2> DEFINE r == file[fp]
               off == r.fptr % SectSize
               k == Lesser(btw, SectSize - off)
    <2>1. /\ UNCHANGED <<fat, dir, window, last_clust, card, pc, fp, clust, rs, after, mishaps>>
          /\ file' = [file EXCEPT ![fp].fptr = @ + k, ![fp].dirty = TRUE,
                                  ![fp].buf = Greater(@, off + k)]
          /\ btw' = btw - k
      BY <1>1 DEF WriteBuffer
    <2>2. off \in 0 .. SectSize - 1 /\ SectSize \in Nat
      BY <1>0, DivMod, Constants
    <2>3. k \in Nat /\ k <= btw
      <3> HIDE DEF off
      <3> QED BY <1>0, <2>2 DEF Lesser
    <2>4. r.fptr + k \in Nat /\ Greater(r.buf, off + k) \in Nat /\ btw' \in Nat
      <3> HIDE DEF off, k
      <3> QED BY <1>0, <2>1, <2>2, <2>3 DEF Greater, File
    <2>5. file' \in [{"log", "wr"} -> File]
      <3>1. file' = [file EXCEPT ![fp] = [r EXCEPT !.fptr = r.fptr + k, !.dirty = TRUE,
                                  !.buf = Greater(r.buf, off + k)]]
        BY <2>1 DEF TypeOK, File
      <3> HIDE DEF off, k
      <3> QED BY <3>1, <1>0, <2>4 DEF TypeOK, File
    <2>6. CardMoves
      BY <2>1 DEF CardMoves, TypeOK, window
    <2> QED BY <2>1, <2>4, <2>5, <2>6 DEF WindowStep, Rest, TypeOK, window
  <1>2. ASSUME WriteNextSector PROVE WindowStep /\ Rest
    <2> DEFINE r == [file[fp] EXCEPT !.sc = SectsLeft]
    <2>1. r \in File /\ r.sc > 0 /\ file[fp].sect + 1 \in Nat
      BY <1>0, <1>2, SectsLeftIs DEF File, WriteNextSector
    <2>2. /\ Put(r, file[fp].sect + 1) /\ btw > 0
          /\ UNCHANGED <<fat, dir, window, last_clust, pc, fp, clust, rs, after, mishaps>>
      BY <1>2 DEF WriteNextSector, AtBoundary
    <2> HIDE DEF r
    <2>3. CardMoves
      BY <2>1, <2>2, PutMoves
    <2>4. file' \in [{"log", "wr"} -> File] /\ btw' \in Nat
      BY <2>1, <2>2, PutFile
    <2> QED BY <2>2, <2>3, <2>4 DEF WindowStep, Rest, TypeOK, window
  <1>3. ASSUME WriteKnownCluster PROVE WindowStep /\ Rest
    <2>1. /\ UNCHANGED <<fat, dir, last_clust, file, fp, btw, rs, after, mishaps>>
          /\ pc' = "grown"
      BY <1>3 DEF WriteKnownCluster
    <2>2. CASE clust' = file[fp].org /\ UNCHANGED <<card, window>> /\ file[fp].org # 0
      <3>1. CardMoves
        BY <2>2 DEF CardMoves, TypeOK, window
      <3>2. clust' \in FatVal
        <4>1. file[fp].open /\ ~file[fp].err /\ fp \in {"log", "wr"}
          BY <1>3 DEF FilesInv, Positioned, CallInv, WriteKnownCluster, AtBoundary, Busy, TypeOK
        <4>2. file[fp].org # 1
          BY <4>1 DEF FilesInv, Positioned
        <4> QED BY <1>0, <2>2, <4>2 DEF File, Org, FatVal
      <3> QED BY <2>1, <2>2, <3>1, <3>2 DEF WindowStep, Rest, TypeOK, window, Busy
    <2>3. CASE /\ fat[file[fp].curr] \in Clust
               /\ Look(FatSect(file[fp].curr)) /\ clust' = fat[file[fp].curr]
      <3>1. CardMoves
        BY <2>3, LookMoves DEF Look
      <3>2. FatSect(file[fp].curr) \in Int
        <4>1. file[fp].curr \in Nat
          BY <1>0, OrgIsNat DEF File
        <4>2. \A c \in Nat : FatSect(c) \in Int
          BY DivMod, Constants DEF FatSect
        <4> QED BY <4>1, <4>2
      <3>3. clust' \in FatVal
        BY <2>3 DEF FatVal
      <3> QED BY <2>1, <2>3, <3>1, <3>2, <3>3 DEF WindowStep, Rest, TypeOK, Busy, Look
    <2> QED BY <1>3, <2>2, <2>3 DEF WriteKnownCluster
  <1>4. ASSUME WriteAllocate PROVE WindowStep /\ Rest
    <2>1. /\ Free # {} /\ win' = FatSect(LastSeen) /\ winflag' = TRUE /\ clust' = FirstFree
          /\ fat' = [fat EXCEPT ![FirstFree] = EOC]
          /\ card' = [Searched EXCEPT !.data = Cleared(@, FirstFree)]
          /\ UNCHANGED <<dir, fp, btw, rs, after, mishaps>>
      BY <1>4 DEF WriteAllocate, WriteSearch
    <2>2. \/ pc' = "link" /\ UNCHANGED <<last_clust, file>>
          \/ /\ pc' = "grown" /\ last_clust' = FirstFree
             /\ file' = [file EXCEPT ![fp].org = FirstFree]
      BY <1>4 DEF WriteAllocate
    <2>3. CardMoves /\ SetFat(FirstFree, EOC)
      BY <2>1, AllocateMoves
    <2>4. FirstFree \in Clust /\ FirstFree \in Nat /\ FirstFree \in Org /\ FirstFree \in FatVal
          /\ EOC \in FatVal
      BY <2>1, FirstFreeIs, Constants DEF Org, FatVal
    <2>5. file' \in [{"log", "wr"} -> File] /\ last_clust' \in Nat
      BY <2>2, <2>4 DEF TypeOK, File
    <2>6. WindowStep
      BY <2>3, <2>4 DEF WindowStep
    <2>7. FatSect(FirstFree) \in Int
      BY <2>4, FatSectIs
    <2> QED BY <2>1, <2>2, <2>3, <2>4, <2>5, <2>6, <2>7 DEF Rest, TypeOK, Busy, SetFat
  <1>5. ASSUME WriteLink PROVE WindowStep /\ Rest
    <2>1. /\ Modify(FatSect(file[fp].curr)) /\ fat' = [fat EXCEPT ![file[fp].curr] = clust]
          /\ last_clust' = clust /\ pc' = "grown"
          /\ UNCHANGED <<dir, file, local, mishaps>>
      BY <1>5 DEF WriteLink
    <2>2. clust \in Clust /\ file[fp].curr \in Clust
      BY <1>5, <1>0 DEF WriteLink, CallInv, FilesInv, Positioned, Busy, TypeOK
    <2>3. clust \in Nat /\ clust \in FatVal
      BY <2>2, Constants DEF FatVal
    <2>4. CardMoves /\ SetFat(file[fp].curr, clust)
      BY <2>1, ModifyMoves DEF Modify, SetFat
    <2>5. FatSect(file[fp].curr) \in Int
      BY <2>2, FatSectIs
    <2> QED BY <2>1, <2>2, <2>3, <2>4, <2>5 DEF WindowStep, Rest, TypeOK, Modify, local, Busy
  <1>6. ASSUME WriteGrown PROVE WindowStep /\ Rest
    <2> DEFINE r == [file[fp] EXCEPT !.curr = clust, !.sc = SectsClust]
    <2>1. clust \in Clust /\ btw > 0
      BY <1>6 DEF WriteGrown, CallInv, FilesInv, Positioned
    <2>2. r \in File /\ r.sc > 0 /\ clust2sect(clust) \in Nat
      <3>1. clust \in Org /\ SectsClust \in 0 .. 255 /\ SectsClust > 0
        BY <2>1, Constants DEF Org
      <3> QED BY <1>0, <2>1, <3>1, SectsApart DEF File
    <2>3. /\ Put(r, clust2sect(clust)) /\ pc' = "write" /\ clust' = 0
          /\ UNCHANGED <<fat, dir, window, last_clust, fp, rs, after, mishaps>>
      BY <1>6 DEF WriteGrown
    <2> HIDE DEF r
    <2>4. CardMoves
      BY <2>2, <2>3, PutMoves
    <2>5. file' \in [{"log", "wr"} -> File] /\ btw' \in Nat
      BY <2>1, <2>2, <2>3, PutFile
    <2> QED BY <2>3, <2>4, <2>5, Zero DEF WindowStep, Rest, TypeOK, window, Busy
  <1>7. ASSUME WriteFull PROVE WindowStep /\ Rest
    <2>1. /\ win' = FatSect(LastSeen) /\ card' = Searched /\ winflag' = (winflag /\ card' = card)
          /\ file' = [file EXCEPT ![fp].sc = 0] /\ btw' = 0
          /\ UNCHANGED <<fat, dir, last_clust, pc, fp, clust, rs, after, mishaps>>
      BY <1>7 DEF WriteFull, WriteSearch
    <2>2. CardMoves
      BY <2>1, FullMoves
    <2>3. file' \in [{"log", "wr"} -> File]
      BY <2>1 DEF TypeOK, File
    <2>4. FatSect(LastSeen) \in Int
      BY LastSeenIs, FatSectIs
    <2> QED BY <2>1, <2>2, <2>3, <2>4, Zero DEF WindowStep, Rest, TypeOK
  <1>8. ASSUME WriteEnd PROVE WindowStep /\ Rest
    <2>1. /\ file' = [file EXCEPT ![fp].fsize = Greater(@, file[fp].fptr), ![fp].written = TRUE]
          /\ pc' \in {"sync", "cat"} /\ after' = "keep"
          /\ UNCHANGED <<fat, dir, window, last_clust, card, fp, btw, clust, rs, mishaps>>
      BY <1>8 DEF WriteEnd
    <2>2. CardMoves
      BY <2>1 DEF CardMoves, TypeOK, window
    <2>3. file' \in [{"log", "wr"} -> File]
      <3>1. Greater(file[fp].fsize, file[fp].fptr) \in Nat
        BY <1>0 DEF File, Greater
      <3>2. file' = [file EXCEPT ![fp] = [file[fp] EXCEPT
                       !.fsize = Greater(file[fp].fsize, file[fp].fptr), !.written = TRUE]]
        BY <2>1 DEF TypeOK, File
      <3> QED BY <1>0, <3>1, <3>2 DEF TypeOK, File
    <2> QED BY <2>1, <2>2, <2>3 DEF WindowStep, Rest, TypeOK, window, Busy
  <1> QED BY <1>1, <1>2, <1>3, <1>4, <1>5, <1>6, <1>7, <1>8 DEF Write

LEMMA SyncTypes ==
  ASSUME TypeOK, Coherent, CallInv, FilesInv, Sync
  PROVE  WindowStep /\ Rest
  <1>0. /\ file[fp] \in File /\ fp \in {"log", "wr"} /\ Left(file[fp]) \in File
        /\ card \in Card /\ card.data \in [DataSects -> Int]
    BY LeftIs DEF TypeOK, Card
  <1>1. ASSUME SyncNothing PROVE WindowStep /\ Rest
    <2>1. /\ file' = [file EXCEPT ![fp] = Left(file[fp])] /\ Return
          /\ UNCHANGED <<fat, dir, window, last_clust, card, mishaps>>
      BY <1>1, <1>0 DEF SyncNothing, TypeOK
    <2>2. CardMoves
      BY <2>1 DEF CardMoves, TypeOK, window
    <2>3. file' \in [{"log", "wr"} -> File]
      BY <2>1, <1>0 DEF TypeOK
    <2> QED BY <2>1, <2>2, <2>3, Zero DEF WindowStep, Rest, TypeOK, window, Return
  <1>2. ASSUME SyncEntry PROVE WindowStep /\ Rest
    <2> DEFINE r == file[fp]
               c == [card EXCEPT !.data = BufferOut(r)]
    <2>1. /\ card' = IF win = DirSect THEN c ELSE FlushedTo(c)
          /\ dir' = [dir EXCEPT ![r.slot].org = r.org, ![r.slot].size = r.fsize]
          /\ file' = [file EXCEPT ![fp].dirty = FALSE, ![fp].written = FALSE]
          /\ win' = DirSect /\ winflag' = TRUE /\ pc' = "flush" /\ r.written /\ pc = "sync"
          /\ UNCHANGED <<fat, last_clust, local, mishaps>>
      BY <1>2 DEF SyncEntry
    <2>2. BufferOut(r) \in [DataSects -> Int]
      BY <1>0, BufferOutIs
    <2>3. c \in Card /\ c.fat = card.fat /\ c.dir = card.dir
      BY <1>0, <2>2, WithDataIs
    <2> HIDE DEF c
    <2>4. CardMoves
      BY <2>1, <2>3, FlushedToIs DEF CardMoves
    <2>5. r.org \in Org /\ r.fsize \in Nat
      <3>1. r.open
        BY <2>1 DEF CallInv, Busy
      <3>2. r.org # 1
        BY <2>1, <3>1, <1>0 DEF FilesInv, Positioned
      <3> QED BY <1>0, <3>2 DEF File
    <2>6. dir' \in [Slots -> Entry]
      BY <2>1, <2>5 DEF TypeOK, Entry
    <2>7. file' \in [{"log", "wr"} -> File]
      <3>1. [file[fp] EXCEPT !.dirty = FALSE, !.written = FALSE] \in File
        BY <1>0 DEF File
      <3>2. file' = [file EXCEPT ![fp] = [file[fp] EXCEPT !.dirty = FALSE, !.written = FALSE]]
        BY <2>1, <1>0 DEF TypeOK
      <3> QED BY <3>1, <3>2, <1>0 DEF TypeOK
    <2>8. SetDir
      BY <2>1, <2>6 DEF SetDir
    <2> QED BY <2>1, <2>4, <2>7, <2>8, Zero DEF WindowStep, Rest, TypeOK, local, Busy
  <1>3. ASSUME SyncFlush PROVE WindowStep /\ Rest
    <2>1. /\ file' = [file EXCEPT ![fp] = Left(file[fp])] /\ Return
          /\ card' = Flushed /\ winflag' = FALSE
          /\ UNCHANGED <<fat, dir, win, last_clust, mishaps>>
      BY <1>3, <1>0 DEF SyncFlush, TypeOK
    <2>2. CardMoves
      BY <2>1, FlushedIs DEF CardMoves
    <2>3. file' \in [{"log", "wr"} -> File]
      BY <2>1, <1>0 DEF TypeOK
    <2> QED BY <2>1, <2>2, <2>3, Zero DEF WindowStep, Rest, TypeOK, window, Return
  <1> QED BY <1>1, <1>2, <1>3 DEF Sync

LEMMA MadeTypes ==
  ASSUME TypeOK, Coherent, NamesInv, CallInv, EntryInv, Made
  PROVE  WindowStep /\ Rest
  <1>1. ASSUME MkdirAllocate PROVE WindowStep /\ Rest
    <2>0. win' = FatSect(LastSeen) /\ UNCHANGED <<dir, file, mishaps>> /\ FatSect(LastSeen) \in Int
      BY <1>1, LastSeenIs, FatSectIs DEF MkdirAllocate
    <2>1. CASE /\ Free # {} /\ fat' = [fat EXCEPT ![FirstFree] = EOC] /\ winflag' = TRUE
               /\ card' = [Searched EXCEPT !.data = Cleared(@, FirstFree)]
               /\ clust' = FirstFree /\ last_clust' = FirstFree /\ pc' = "table"
               /\ UNCHANGED <<fp, btw, rs, after>>
      <3>1. CardMoves /\ SetFat(FirstFree, EOC)
        BY <2>0, <2>1, AllocateMoves
      <3>2. FirstFree \in Clust /\ FirstFree \in Nat /\ FirstFree \in FatVal /\ EOC \in FatVal
        BY <2>1, FirstFreeIs, Constants DEF FatVal
      <3>3. WindowStep
        BY <3>1, <3>2 DEF WindowStep
      <3> QED BY <2>0, <2>1, <3>2, <3>3 DEF Rest, TypeOK, Making
    <2>2. CASE /\ card' = Searched /\ winflag' = (winflag /\ card' = card) /\ Return
               /\ UNCHANGED <<fat, last_clust>>
      <3>1. CardMoves
        BY <2>0, <2>2, FullMoves
      <3> QED BY <2>0, <2>2, <3>1, Zero DEF WindowStep, Rest, TypeOK, Return
    <2> QED BY <1>1, <2>1, <2>2 DEF MkdirAllocate
  <1>2. ASSUME MkdirTable PROVE WindowStep /\ Rest
    <2> DEFINE data == [s \in DataSects |->
                         IF s \in ClustSects(clust) \ {clust2sect(clust)}
                         THEN Table ELSE Flushed.data[s]]
    <2>1. /\ card' = [Flushed EXCEPT !.data = data]
          /\ win' = TableSect(clust) /\ winflag' = TRUE /\ pc' = "entry" /\ pc = "table"
          /\ UNCHANGED <<fat, dir, last_clust, file, local, mishaps>>
      BY <1>2 DEF MkdirTable
    <2>2. data \in [DataSects -> Int]
      BY FlushedIs DEF Card, Table
    <2> HIDE DEF data
    <2>3. CardMoves
      BY <2>1, <2>2, FlushedIs, WithDataIs DEF CardMoves
    <2>4. TableSect(clust) \in Int
      BY <2>1, TableSectIs DEF CallInv
    <2> QED BY <2>1, <2>3, <2>4 DEF WindowStep, Rest, TypeOK, local, Making
  <1>3. ASSUME MkdirEntry PROVE WindowStep /\ Rest
    <2> DEFINE e == [name |-> DirName, org |-> clust, size |-> 0, isDir |-> TRUE]
    <2>1. /\ Modify(DirSect) /\ dir' = [dir EXCEPT ![FreeSlot] = e] /\ pc' = "made"
          /\ UNCHANGED <<fat, last_clust, file, local, mishaps>>
      BY <1>3 DEF MkdirEntry
    <2>2. e \in Entry
      BY <1>3, BoundAssumption DEF MkdirEntry, CallInv, Entry, Org
    <2> HIDE DEF e
    <2>3. dir' \in [Slots -> Entry]
      BY <2>1, <2>2 DEF TypeOK
    <2>4. CardMoves /\ SetDir
      BY <2>1, <2>3, ModifyMoves DEF Modify, SetDir
    <2> QED BY <2>1, <2>4, Zero DEF WindowStep, Rest, TypeOK, local, Making, Modify
  <1>4. ASSUME MkdirSync PROVE WindowStep /\ Rest
    <2>1. /\ card' = Flushed /\ winflag' = FALSE /\ Return
          /\ UNCHANGED <<fat, dir, win, last_clust, file, mishaps>>
      BY <1>4 DEF MkdirSync
    <2>2. CardMoves
      BY <2>1, FlushedIs DEF CardMoves
    <2> QED BY <2>1, <2>2, Zero DEF WindowStep, Rest, TypeOK, Return
  <1> QED BY <1>1, <1>2, <1>3, <1>4 DEF Made

LEMMA RemoveTypes ==
  ASSUME TypeOK, Coherent, EntryInv, RemoveNext \/ RemoveEnd
  PROVE  WindowStep /\ Rest
  <1>1. ASSUME RemoveNext PROVE WindowStep /\ Rest
    <2> DEFINE c == Moved(FatSect(clust))
    <2>1. /\ clust \in Clust /\ win' = FatSect(clust) /\ winflag' = TRUE
          /\ card' = [c EXCEPT !.data = Cleared(c.data, clust)]
          /\ fat' = [fat EXCEPT ![clust] = 0] /\ clust' = fat[clust]
          /\ UNCHANGED <<dir, last_clust, file, pc, fp, btw, rs, after, mishaps>>
      BY <1>1 DEF RemoveNext
    <2>2. /\ c \in Card /\ (FatSect(clust) = win => c = card)
          /\ (FatSect(clust) # win => c.fat = fat /\ c.dir = dir)
      BY MovedIs
    <2> HIDE DEF c
    <2>3. Cleared(c.data, clust) \in [DataSects -> Int]
      BY <2>2, ClearedIs DEF Card
    <2>4. card' \in Card /\ card'.fat = c.fat /\ card'.dir = c.dir
      BY <2>1, <2>2, <2>3, WithDataIs
    <2>5. CardMoves /\ SetFat(clust, 0)
      BY <2>1, <2>2, <2>4 DEF CardMoves, SetFat
    <2>6. FatSect(clust) \in Int /\ fat[clust] \in FatVal
      BY <2>1, FatSectIs DEF TypeOK
    <2> QED BY <2>1, <2>5, <2>6, Zero DEF WindowStep, Rest, TypeOK
  <1>2. ASSUME RemoveEnd PROVE WindowStep /\ Rest
    <2>0. Return /\ UNCHANGED <<fat, dir, mishaps>> /\ pc = "free"
      BY <1>2 DEF RemoveEnd
    <2>1. CASE /\ after = "open" /\ Modify(DirSect)
               /\ last_clust' = IF rs = 0 THEN 1 ELSE rs - 1
               /\ Opened("log", file["log"].slot, 0, 0)
      <3>1. CardMoves
        BY <2>1, ModifyMoves DEF Modify
      <3>2. file["log"].slot \in Slots
        BY <2>0, <2>1 DEF EntryInv
      <3>3. file' \in [{"log", "wr"} -> File]
        BY <2>1, <3>2, Zero, OpenedIs
      <3>4. last_clust' \in Nat
        BY <2>1, OrgIsNat DEF TypeOK
      <3> QED BY <2>0, <2>1, <3>1, <3>3, <3>4, Zero
           DEF WindowStep, Rest, TypeOK, Return, Modify
    <2>2. CASE /\ after = "unlink" /\ card' = Flushed /\ winflag' = FALSE
               /\ UNCHANGED <<win, last_clust, file>>
      <3>1. CardMoves
        BY <2>2, FlushedIs DEF CardMoves
      <3> QED BY <2>0, <2>2, <3>1, Zero DEF WindowStep, Rest, TypeOK, Return
    <2> QED BY <1>2, <2>1, <2>2 DEF RemoveEnd
  <1> QED BY <1>1, <1>2

LEMMA WriteErrorTypes ==
  ASSUME TypeOK, NEW r \in File, WriteError(r), Fails
  PROVE  /\ file' \in [{"log", "wr"} -> File] /\ pc' \in {"idle", "sync"} /\ fp' \in {"log", "wr"}
         /\ btw' \in Nat /\ clust' \in FatVal /\ rs' \in Org
         /\ after' \in {"keep", "open", "unlink", "close"} /\ mishaps' \in Nat
         /\ win' = win /\ last_clust' \in Nat
  <1>1. win' = win /\ last_clust' \in Nat /\ mishaps' \in Nat
    BY DEF Fails, TypeOK
  <1>2. CASE fp = "log"
    <2>1. [r EXCEPT !.err = TRUE] \in File
      BY DEF File
    <2> QED BY <1>1, <1>2, <2>1, Zero DEF WriteError, TypeOK
  <1>3. CASE fp # "log"
    <2>1. Closed \in File
      BY Zero DEF Closed, File
    <2> QED BY <1>1, <1>3, <2>1, Zero DEF WriteError, TypeOK, Return
  <1> QED BY <1>2, <1>3

LEMMA MissedFlag ==
  ASSUME TypeOK, NEW c, Missed(c)
  PROVE  winflag' \in BOOLEAN
  <1>1. CASE UNCHANGED winflag
    BY <1>1 DEF TypeOK
  <1>2. CASE winflag' \in {winflag, FALSE}
    BY <1>2 DEF TypeOK
  <1> QED BY <1>1, <1>2 DEF Missed

LEMMA FailTypes ==
  ASSUME TypeOK, Coherent, CallInv, DiskFails
  PROVE  WindowStep /\ Rest
  <1>0. /\ file[fp] \in File /\ fp \in {"log", "wr"} /\ card \in Card
        /\ card.data \in [DataSects -> Int] /\ BufferOut(file[fp]) \in [DataSects -> Int]
    BY BufferOutIs DEF TypeOK, Card
  <1> DEFINE out == [card EXCEPT !.data = BufferOut(file[fp])]
  <1>a. out \in Card /\ out.fat = card.fat /\ out.dir = card.dir
    BY <1>0, WithDataIs
  <1>1. ASSUME ChainFails PROVE WindowStep /\ Rest
    <2> DEFINE r == [file[fp] EXCEPT !.org = IF Chained THEN file[fp].org ELSE 1]
    <2>1. r \in File
      BY <1>0 DEF File
    <2>2. Fails /\ Missed(card) /\ WriteError(r)
      BY <1>0, <1>1 DEF ChainFails, File
    <2> HIDE DEF r
    <2>3. CardMoves
      BY <2>2, MissedMoves, <1>0 DEF Fails
    <2>4. winflag' \in BOOLEAN
      BY <2>2, MissedFlag
    <2>5. UNCHANGED <<fat, dir>>
      BY <2>2 DEF Fails
    <2> QED BY <2>1, <2>2, <2>3, <2>4, <2>5, WriteErrorTypes DEF WindowStep, Rest, TypeOK, Busy
  <1>2. ASSUME DataFails PROVE WindowStep /\ Rest
    <2> DEFINE s == IF pc = "grown" THEN clust2sect(clust) ELSE file[fp].sect + 1
               r == [file[fp] EXCEPT !.dirty = FALSE, !.sect = s]
    <2>1. /\ Fails /\ UNCHANGED winflag
          /\ \/ card' = card /\ WriteError(file[fp])
             \/ card' = out /\ WriteError(r)
      BY <1>2 DEF DataFails
    <2>2. s \in Nat
      BY <1>0, SectsApart DEF CallInv, File
    <2> HIDE DEF s
    <2>3. r \in File
      BY <1>0, <2>2 DEF File
    <2> HIDE DEF r, out
    <2>4. CardMoves
      BY <2>1, <1>0, <1>a DEF CardMoves, Fails
    <2>5. PICK q \in File : WriteError(q)
      BY <2>1, <2>3, <1>0
    <2>6. UNCHANGED <<fat, dir>> /\ Fails
      BY <2>1 DEF Fails
    <2> QED BY <2>1, <2>4, <2>5, <2>6, WriteErrorTypes DEF WindowStep, Rest, TypeOK, Busy
  <1>3. ASSUME SyncFails PROVE WindowStep /\ Rest
    <2> DEFINE r == [file[fp] EXCEPT !.dirty = FALSE]
    <2>1. /\ Fails /\ Return
          /\ \/ UNCHANGED <<card, winflag>> /\ file' = [file EXCEPT ![fp] = Left(file[fp])]
             \/ Missed(out) /\ file' = [file EXCEPT ![fp] = Left(r)]
      BY <1>0, <1>3 DEF SyncFails, TypeOK
    <2>2. r \in File
      BY <1>0 DEF File
    <2> HIDE DEF r, out
    <2>3. CardMoves
      BY <2>1, <1>0, <1>a, MissedMoves DEF CardMoves, Fails
    <2>4. winflag' \in BOOLEAN
      BY <2>1, MissedFlag DEF TypeOK
    <2>5. file' \in [{"log", "wr"} -> File]
      BY <2>1, <2>2, <1>0, LeftIs DEF TypeOK
    <2> QED BY <2>1, <2>3, <2>4, <2>5, Zero DEF WindowStep, Rest, TypeOK, Return, Fails
  <1>4. ASSUME RemoveFails PROVE WindowStep /\ Rest
    <2>1. /\ Fails /\ Missed(card) /\ Return
          /\ file' = IF after = "open" THEN [file EXCEPT !["log"] = Closed] ELSE file
      BY <1>4 DEF RemoveFails
    <2>2. CardMoves /\ winflag' \in BOOLEAN
      BY <2>1, <1>0, MissedMoves, MissedFlag DEF Fails
    <2>3. Closed \in File
      BY Zero DEF Closed, File
    <2> QED BY <2>1, <2>2, <2>3, Zero DEF WindowStep, Rest, TypeOK, Return, Fails
  <1>5. ASSUME MkdirFails PROVE WindowStep /\ Rest
    <2>1. Fails /\ Missed(card) /\ Return /\ UNCHANGED file
      BY <1>5 DEF MkdirFails
    <2>2. CardMoves /\ winflag' \in BOOLEAN
      BY <2>1, <1>0, MissedMoves, MissedFlag DEF Fails
    <2> QED BY <2>1, <2>2, Zero DEF WindowStep, Rest, TypeOK, Return, Fails
  <1>6. ASSUME TableFails PROVE WindowStep /\ Rest
    <2>1. /\ card' = Flushed /\ win' = TableSect(clust) /\ winflag' = FALSE /\ Return
          /\ UNCHANGED <<fat, dir, last_clust, file>> /\ pc = "table" /\ mishaps' = mishaps + 1
      BY <1>6 DEF TableFails
    <2>2. CardMoves
      BY <2>1, FlushedIs DEF CardMoves
    <2>3. TableSect(clust) \in Int
      BY <2>1, TableSectIs DEF CallInv
    <2>4. mishaps' \in Nat
      BY <2>1 DEF TypeOK
    <2>5. WindowStep
      BY <2>1, <2>2 DEF WindowStep
    <2> QED BY <2>1, <2>3, <2>4, <2>5, Zero DEF Rest, TypeOK, Return
  <1> QED BY <1>1, <1>2, <1>3, <1>4, <1>5, <1>6 DEF DiskFails

(* All steps but a reset go through the window. *)
LEMMA StepTypes ==
  ASSUME BaseInv, Command \/ Call \/ DiskFails
  PROVE  TypeOK' /\ Coherent' /\ WindowStep
  <1>1. WindowStep /\ Rest
    BY CommandTypes, WriteTypes, SyncTypes, MadeTypes, RemoveTypes, FailTypes DEF BaseInv, Call
  <1> QED BY <1>1, TypesStay, StaysCoherent DEF BaseInv

LEMMA ResetTypes ==
  ASSUME BaseInv, Reset
  PROVE  TypeOK' /\ Coherent' /\ card'.fat = card.fat /\ card'.dir = card.dir
  <1> DEFINE used == UNION {Chain(card.fat, card.dir[s].org) : s \in Slots}
             data == [x \in DataSects |->
                       IF \E c \in used : x \in ClustSects(c) THEN card.data[x] ELSE 0]
  <1>1. /\ fat' = card.fat /\ dir' = card.dir /\ card' = [card EXCEPT !.data = data]
        /\ win' = NoSect /\ winflag' = FALSE /\ last_clust' = 0 /\ mishaps' = mishaps + 1
        /\ file' = [f \in {"log", "wr"} |-> Closed] /\ Return
    BY DEF Reset
  <1>2. data \in [DataSects -> Int]
    BY DEF BaseInv, TypeOK, Card
  <1> HIDE DEF data
  <1>3. card' \in Card /\ card'.fat = card.fat /\ card'.dir = card.dir
    BY <1>1, <1>2, WithDataIs DEF BaseInv, TypeOK
  <1>4. Closed \in File /\ NoSect \in Int
    BY Zero DEF Closed, File, NoSect
  <1>5. TypeOK'
    <2>1. fat' \in [Clust -> FatVal] /\ dir' \in [Slots -> Entry] /\ mishaps' \in Nat
      BY <1>1 DEF BaseInv, TypeOK, Card
    <2>2. file' \in [{"log", "wr"} -> File]
      BY <1>1, <1>4
    <2> QED BY <1>1, <1>3, <1>4, <2>1, <2>2, Zero DEF TypeOK, Return
  <1> QED BY <1>1, <1>3, <1>5 DEF Coherent
-----------------------------------------------------------------------------
(* Names and entries *)

LEMMA NamesStay ==
  ASSUME BaseInv, Next
  PROVE  NamesInv'
  <1>1. ASSUME Names(dir') PROVE NamesInv'
    <2>1. card'.dir \in {card.dir, dir}
      <3>1. CASE Reset
        BY <3>1, ResetTypes
      <3> QED BY <3>1, StepTypes DEF Next, WindowStep, CardMoves
    <2> QED BY <1>1, <2>1 DEF NamesInv, BaseInv, Names
  <1>2. TypeOK /\ Coherent /\ NamesInv /\ Names(dir) /\ EntryInv /\ CallInv
    BY DEF BaseInv, NamesInv
  <1>3. CASE UNCHANGED dir
    BY <1>1, <1>2, <1>3
  <1>4. ASSUME NEW f \in {"log", "wr"}, NEW n \in Name, Create(f, n), UNCHANGED fat
        PROVE  NamesInv'
    <2>1. /\ FreeSlot \in Slots /\ dir[FreeSlot].name = NoName
          /\ \A s \in Slots : dir'[s] =
               IF s = FreeSlot THEN [Empty EXCEPT !.name = n] ELSE dir[s]
      BY <1>2, <1>4, CreateIs
    <2>2. /\ [Empty EXCEPT !.name = n].name = n /\ ~[Empty EXCEPT !.name = n].isDir
          /\ n # NoName /\ \A s \in Slots : dir[s].name # n
      BY <1>4, NameAssumption DEF Empty, Create
    <2>3. Names(dir')
      <3>1. \A s \in Slots : \/ s = FreeSlot /\ dir'[s].name = n /\ ~dir'[s].isDir
                             \/ s # FreeSlot /\ dir'[s] = dir[s] /\ dir'[s].name # n
        BY <2>1, <2>2
      <3>2. \A s, t \in Slots :
              dir'[s].name = dir'[t].name => s = t \/ dir'[s].name = NoName
        BY <1>2, <3>1 DEF Names
      <3>3. \A s \in Slots : /\ dir'[s].name = NoName => dir'[s] = Empty
                             /\ dir'[s].isDir => dir'[s].org \in Clust /\ dir'[s].size = 0
        BY <1>2, <2>2, <3>1 DEF Names
      <3> QED BY <3>2, <3>3 DEF Names
    <2> QED BY <1>1, <2>3
  <1>5. ASSUME NEW s \in Slots, dir[s].name # NoName, ~dir[s].isDir,
               NEW org \in Org, NEW size \in Nat,
               dir' = [dir EXCEPT ![s].org = org, ![s].size = size]
        PROVE  NamesInv'
    <2>1. /\ \A t \in Slots : t # s => dir'[t] = dir[t]
          /\ dir'[s].name = dir[s].name /\ ~dir'[s].isDir
      BY <1>2, <1>5 DEF TypeOK, Entry
    <2>2. ASSUME NEW t \in Slots, NEW u \in Slots, dir'[t].name = dir'[u].name
          PROVE  t = u \/ dir'[t].name = NoName
      <3>1. dir'[t].name = dir[t].name /\ dir'[u].name = dir[u].name
        BY <2>1
      <3> QED BY <1>2, <2>2, <3>1 DEF Names
    <2>3. ASSUME NEW t \in Slots
          PROVE  /\ dir'[t].name = NoName => dir'[t] = Empty
                 /\ dir'[t].isDir => dir'[t].org \in Clust /\ dir'[t].size = 0
      BY <1>2, <1>5, <2>1 DEF Names
    <2>4. Names(dir')
      BY <2>2, <2>3 DEF Names
    <2> QED BY <1>1, <2>4
  <1>6. ASSUME NEW n \in Name, LogOpen(n) PROVE NamesInv'
    <2>1. ASSUME NEW s \in Slots, dir[s].name = n, ~dir[s].isDir,
                 dir' = [dir EXCEPT ![s].org = 0, ![s].size = 0]
          PROVE  NamesInv'
      BY <1>5, <2>1, Zero, NameAssumption
    <2> QED BY <1>4, <1>6, <2>1 DEF LogOpen
  <1>7. ASSUME NEW n \in Name, CatOpen(n) PROVE NamesInv'
    BY <1>3, <1>4, <1>7 DEF CatOpen
  <1>8. ASSUME NEW n \in Name, Unlink(n) PROVE NamesInv'
    <2>1. PICK s \in Slots : dir' = [dir EXCEPT ![s] = Empty]
      BY <1>8 DEF Unlink
    <2>2. \A t \in Slots : dir'[t] = IF t = s THEN Empty ELSE dir[t]
      BY <1>2, <2>1 DEF TypeOK
    <2>3. Names(dir')
      <3>1. Empty.name = NoName /\ ~Empty.isDir
        BY DEF Empty
      <3> QED BY <1>2, <2>2, <3>1 DEF Names
    <2> QED BY <1>1, <2>3
  <1>9. CASE SyncEntry
    <2>1. /\ file[fp].open /\ file[fp].written /\ fp \in {"log", "wr"}
          /\ dir' = [dir EXCEPT ![file[fp].slot].org = file[fp].org,
                                ![file[fp].slot].size = file[fp].fsize]
      BY <1>2, <1>9 DEF SyncEntry, CallInv, Busy, TypeOK
    <2>2. file[fp].org \in Org /\ file[fp].fsize \in Nat
      BY <2>1 DEF BaseInv, FilesInv, Positioned, TypeOK, File
    <2> QED BY <1>2, <1>5, <2>1, <2>2 DEF EntryInv
  <1>10. CASE MkdirEntry
    <2>1. /\ \A s \in Slots : dir[s].name # DirName
          /\ dir' = [dir EXCEPT ![FreeSlot] = [name |-> DirName, org |-> clust, size |-> 0,
                                               isDir |-> TRUE]]
          /\ clust \in Clust
      BY <1>2, <1>10 DEF MkdirEntry, EntryInv, CallInv
    <2>2. FreeSlot \in Slots /\ DirName \in Name
      BY <1>2, <2>1, FreeSlotIs, BoundAssumption
    <2>3. Names(dir')
      BY <1>2, <2>1, <2>2, NameAssumption DEF Names, TypeOK
    <2> QED BY <1>1, <2>3
  <1>11. CASE Reset
    <2>1. dir' = card.dir
      BY <1>11 DEF Reset
    <2> QED BY <1>1, <2>1 DEF BaseInv, NamesInv
  <1>12. ASSUME NEW k, LogWrite(k) \/ CatWrite(k) \/ CatRead(k) PROVE UNCHANGED dir
    BY <1>12 DEF LogWrite, CatWrite, CatRead
  <1>13. ASSUME LogStop \/ CatClose \/ Mkdir PROVE UNCHANGED dir
    BY <1>13 DEF LogStop, CatClose, Mkdir
  <1>14. ASSUME Write PROVE UNCHANGED dir
    BY <1>14 DEF Write, WriteBuffer, WriteNextSector, WriteKnownCluster,
                 WriteAllocate, WriteLink, WriteGrown, WriteFull, WriteEnd
  <1>15. ASSUME SyncNothing \/ SyncFlush \/ RemoveNext \/ RemoveEnd PROVE UNCHANGED dir
    BY <1>15 DEF SyncNothing, SyncFlush, RemoveNext, RemoveEnd
  <1>16. ASSUME MkdirAllocate \/ MkdirTable \/ MkdirSync PROVE UNCHANGED dir
    BY <1>16 DEF MkdirAllocate, MkdirTable, MkdirSync
  <1>17. ASSUME DiskFails PROVE UNCHANGED dir
    BY <1>17 DEF DiskFails, ChainFails, DataFails, SyncFails, RemoveFails, MkdirFails,
                 TableFails, Fails
  <1> QED BY <1>3, <1>6, <1>7, <1>8, <1>9, <1>10, <1>11, <1>12, <1>13, <1>14, <1>15, <1>16,
             <1>17 DEF Next, Command, Call, Sync, Made
-----------------------------------------------------------------------------
(* The running call *)

LEMMA PutKeeps ==
  ASSUME TypeOK, btw > 0, NEW r \in File, r.sc > 0, NEW s \in Nat, Put(r, s)
  PROVE  /\ \A g \in {"log", "wr"} : g # fp => file'[g] = file[g]
         /\ file'[fp] = [r EXCEPT !.fptr = file'[fp].fptr, !.sc = file'[fp].sc,
                                  !.sect = file'[fp].sect, !.buf = file'[fp].buf,
                                  !.dirty = file'[fp].dirty]
         /\ file'[fp].fptr > 0 /\ file'[fp].sc > 0 /\ file'[fp].open = r.open
         /\ file'[fp].org = r.org /\ file'[fp].err = r.err /\ file'[fp].written = r.written
         /\ file'[fp].curr = r.curr /\ file'[fp].slot = r.slot /\ file'[fp].fsize = r.fsize
  <1>1. PICK n \in 1 .. btw, sc \in 1 .. r.sc, sect \in Nat, buf \in Nat, dirty \in BOOLEAN :
              PutAs(r, s, n, sc, sect, buf, dirty)
    BY PutFile
  <1> DEFINE q == [r EXCEPT !.fptr = r.fptr + n, !.sc = sc, !.sect = sect,
                             !.buf = buf, !.dirty = dirty]
  <1>2. file'[fp] = q /\ \A g \in {"log", "wr"} : g # fp => file'[g] = file[g]
    BY <1>1 DEF TypeOK, PutAs
  <1>3. n > 0 /\ sc > 0 /\ r.fptr \in Nat /\ r.fptr + n > 0
    BY DEF TypeOK, File
  <1>4. /\ q.fptr = r.fptr + n /\ q.sc = sc /\ q.open = r.open /\ q.org = r.org /\ q.err = r.err
        /\ q.sect = sect /\ q.buf = buf /\ q.dirty = dirty
        /\ q.written = r.written /\ q.curr = r.curr /\ q.slot = r.slot /\ q.fsize = r.fsize
    BY DEF File
  <1>5. q = [r EXCEPT !.fptr = q.fptr, !.sc = q.sc, !.sect = q.sect, !.buf = q.buf,
                      !.dirty = q.dirty]
    BY <1>4
  <1> HIDE DEF q
  <1> QED BY <1>2, <1>3, <1>4, <1>5

(* The file after a failure in f_write. *)
LEMMA ErrorIs ==
  ASSUME TypeOK, CallInv, FilesInv, ChainFails \/ DataFails
  PROVE  \E org \in {1} \cup Org, dirty \in BOOLEAN, sect \in Nat :
           /\ WriteError([file[fp] EXCEPT !.org = org, !.dirty = dirty, !.sect = sect])
           /\ pc \in {"write", "link", "grown"}
           /\ \/ org = file[fp].org
              \/ org = 1 /\ file[fp].fptr = 0 /\ file[fp].org = 0 /\ SectsLeft = 0 /\ pc = "write" /\ btw > 0
           /\ dirty => file[fp].dirty /\ sect = file[fp].sect
  <1>0. /\ file[fp] \in File /\ file[fp].org \in {1} \cup Org /\ file[fp].dirty \in BOOLEAN
        /\ file[fp].sect \in Nat /\ file[fp].fptr \in Nat
    BY DEF TypeOK, File
  <1>1. CASE ChainFails
    <2> DEFINE org == IF Chained THEN file[fp].org ELSE 1
    <2>1. WriteError([file[fp] EXCEPT !.org = org])
      BY <1>0, <1>1 DEF ChainFails, File
    <2>2. [file[fp] EXCEPT !.org = org] =
            [file[fp] EXCEPT !.org = org, !.dirty = file[fp].dirty, !.sect = file[fp].sect]
      BY <1>0 DEF File
    <2>3. /\ pc \in {"write", "link", "grown"}
          /\ \/ org = file[fp].org
             \/ org = 1 /\ file[fp].fptr = 0 /\ file[fp].org = 0 /\ SectsLeft = 0 /\ pc = "write" /\ btw > 0
      BY <1>0, <1>1 DEF Chained, ChainFails, AtBoundary, FilesInv, Positioned
    <2>4. org \in {1} \cup Org
      BY <1>0
    <2> HIDE DEF org
    <2>5. WriteError([file[fp] EXCEPT !.org = org, !.dirty = file[fp].dirty, !.sect = file[fp].sect])
      BY <2>1, <2>2
    <2> QED BY <1>0, <2>3, <2>4, <2>5
  <1>2. CASE DataFails
    <2> DEFINE s == IF pc = "grown" THEN clust2sect(clust) ELSE file[fp].sect + 1
    <2>1. /\ \/ WriteError(file[fp])
             \/ WriteError([file[fp] EXCEPT !.dirty = FALSE, !.sect = s])
          /\ pc \in {"write", "link", "grown"}
      BY <1>2 DEF DataFails, AtBoundary
    <2>2. s \in Nat
      BY <1>0, SectsApart DEF CallInv
    <2> HIDE DEF s
    <2>3. /\ file[fp] = [file[fp] EXCEPT !.org = file[fp].org, !.dirty = file[fp].dirty,
                                         !.sect = file[fp].sect]
          /\ [file[fp] EXCEPT !.dirty = FALSE, !.sect = s] =
               [file[fp] EXCEPT !.org = file[fp].org, !.dirty = FALSE, !.sect = s]
      BY <1>0 DEF File
    <2>4. CASE WriteError(file[fp])
      <3>1. WriteError([file[fp] EXCEPT !.org = file[fp].org, !.dirty = file[fp].dirty,
                                         !.sect = file[fp].sect])
        BY <2>3, <2>4
      <3> QED BY <1>0, <2>1, <3>1
    <2>5. CASE WriteError([file[fp] EXCEPT !.dirty = FALSE, !.sect = s])
      <3>1. WriteError([file[fp] EXCEPT !.org = file[fp].org, !.dirty = FALSE, !.sect = s])
        BY <2>3, <2>5
      <3> QED BY <1>0, <2>1, <2>2, <3>1
    <2> QED BY <2>1, <2>4, <2>5
  <1> QED BY <1>1, <1>2

LEMMA CallStays ==
  ASSUME BaseInv, Next
  PROVE  CallInv'
  <1>0. /\ TypeOK /\ Coherent /\ NamesInv /\ CallInv /\ FilesInv /\ EntryInv
        /\ fp \in {"log", "wr"} /\ file[fp] \in File /\ ~Closed.open
    BY DEF BaseInv, TypeOK, Closed
  <1>1. ASSUME NEW n \in Name, LogOpen(n) PROVE CallInv'
    <2>1. CASE Create("log", n) /\ UNCHANGED <<pc, local>>
      <3>1. UNCHANGED fat /\ pc = "idle"
        BY <1>1 DEF LogOpen
      <3>2. file'["wr"] = file["wr"]
        BY <2>1, <3>1, <1>0, CreateIs
      <3> QED BY <1>0, <2>1, <3>1, <3>2 DEF CallInv, Busy, local
    <2>2. CASE pc' = "free" /\ after' = "open" /\ UNCHANGED fp
               /\ file' = [file EXCEPT !["log"].slot = file'["log"].slot]
      <3>1. file'["wr"] = file["wr"] /\ pc = "idle"
        BY <1>0, <1>1, <2>2 DEF TypeOK, LogOpen
      <3> QED BY <1>0, <2>2, <3>1 DEF CallInv, Busy
    <2>3. ASSUME NEW s \in Slots, file' = [file EXCEPT !["log"].slot = s]
          PROVE  file' = [file EXCEPT !["log"].slot = file'["log"].slot]
      BY <1>0, <2>3 DEF TypeOK, File
    <2> QED BY <1>1, <2>1, <2>2, <2>3 DEF LogOpen
  <1>2. ASSUME NEW n \in Name, CatOpen(n) PROVE CallInv'
    <2>1. UNCHANGED <<fat, local>> /\ pc' = "cat" /\ pc = "idle"
      BY <1>2 DEF CatOpen
    <2>2. ASSUME NEW s, NEW org, NEW size, Opened("wr", s, org, size)
          PROVE  file'["log"] = file["log"] /\ file'["wr"].open
      BY <1>0, <2>2 DEF Opened, TypeOK, Closed
    <2>3. file'["log"] = file["log"] /\ file'["wr"].open
      BY <1>2, <2>2 DEF CatOpen, Create
    <2> QED BY <1>0, <2>1, <2>3 DEF CallInv, Busy, local
  <1>3. ASSUME NEW n \in Name, Unlink(n) PROVE CallInv'
    <2>1. UNCHANGED <<file, fp>> /\ pc' = "free" /\ after' = "unlink" /\ pc = "idle"
      BY <1>3 DEF Unlink
    <2> QED BY <1>0, <2>1 DEF CallInv, Busy
  <1>4. ASSUME NEW k \in WriteSizes, LogWrite(k) \/ CatWrite(k) PROVE CallInv'
    BY <1>0, <1>4 DEF LogWrite, CatWrite, CallInv, Busy
  <1>5. ASSUME NEW s, CatRead(s) PROVE CallInv'
    BY <1>0, <1>5 DEF CatRead, CallInv, Busy, local
  <1>6. ASSUME LogStop \/ CatClose PROVE CallInv'
    BY <1>0, <1>6 DEF LogStop, CatClose, CallInv, Busy
  <1>7. ASSUME Mkdir PROVE CallInv'
    BY <1>0, <1>7 DEF Mkdir, CallInv, Busy, local
  <1>8. ASSUME UNCHANGED <<pc, fp, after, clust>>,
               \A g \in {"log", "wr"} : file'[g].open = file[g].open
        PROVE  CallInv'
    BY <1>0, <1>8 DEF CallInv, Busy
  <1>9. ASSUME WriteBuffer PROVE CallInv'
    <2>1. \A g \in {"log", "wr"} : file'[g].open = file[g].open
      BY <1>0, <1>9 DEF WriteBuffer, TypeOK, File
    <2> QED BY <1>8, <1>9, <2>1 DEF WriteBuffer
  <1>10. ASSUME WriteNextSector PROVE CallInv'
    <2> DEFINE r == [file[fp] EXCEPT !.sc = SectsLeft]
    <2>1. /\ r \in File /\ r.sc > 0 /\ file[fp].sect + 1 \in Nat /\ r.open = file[fp].open
          /\ btw > 0
      BY <1>0, <1>10, SectsLeftIs DEF File, WriteNextSector, AtBoundary
    <2>2. Put(r, file[fp].sect + 1) /\ UNCHANGED <<pc, fp, after, clust>>
      BY <1>10 DEF WriteNextSector
    <2> HIDE DEF r
    <2>3. \A g \in {"log", "wr"} : file'[g].open = file[g].open
      BY <1>0, <2>1, <2>2, PutKeeps
    <2> QED BY <1>8, <2>2, <2>3
  <1>11. ASSUME WriteKnownCluster PROVE CallInv'
    <2>1. /\ pc = "write" /\ pc' = "grown" /\ UNCHANGED <<file, fp, after>>
      BY <1>11 DEF WriteKnownCluster, AtBoundary
    <2>2. clust' \in Clust
      <3>1. file[fp].open /\ ~file[fp].err
        BY <1>0, <2>1 DEF CallInv, FilesInv, Positioned, Busy
      <3>2. file[fp].org \in {0} \cup Clust
        BY <1>0, <3>1 DEF FilesInv, Positioned, File, Org
      <3> QED BY <1>11, <3>2 DEF WriteKnownCluster
    <2> QED BY <1>0, <2>1, <2>2 DEF CallInv, Busy
  <1>12. ASSUME WriteAllocate PROVE CallInv'
    <2>1. /\ clust' = FirstFree /\ Free # {} /\ UNCHANGED <<fp, after>> /\ pc = "write"
          /\ pc' \in {"link", "grown"}
          /\ \/ UNCHANGED file
             \/ file' = [file EXCEPT ![fp].org = FirstFree]
      BY <1>12 DEF WriteAllocate, WriteSearch, AtBoundary
    <2>2. \A g \in {"log", "wr"} : file'[g].open = file[g].open
      BY <1>0, <2>1 DEF TypeOK, File
    <2>3. clust' \in Clust
      BY <1>0, <2>1, FirstFreeIs
    <2> QED BY <1>0, <2>1, <2>2, <2>3 DEF CallInv, Busy
  <1>13. ASSUME WriteLink PROVE CallInv'
    BY <1>0, <1>13 DEF WriteLink, CallInv, Busy, local
  <1>14. ASSUME WriteGrown PROVE CallInv'
    <2> DEFINE r == [file[fp] EXCEPT !.curr = clust, !.sc = SectsClust]
    <2>1. clust \in Clust /\ btw > 0 /\ pc = "grown"
      BY <1>0, <1>14 DEF WriteGrown, CallInv, FilesInv, Positioned
    <2>2. r \in File /\ r.sc > 0 /\ clust2sect(clust) \in Nat /\ r.open = file[fp].open
      <3>1. clust \in Org /\ SectsClust \in 0 .. 255 /\ SectsClust > 0
        BY <2>1, Constants DEF Org
      <3> QED BY <1>0, <2>1, <3>1, SectsApart DEF File
    <2>3. Put(r, clust2sect(clust)) /\ pc' = "write" /\ UNCHANGED <<fp, after>>
      BY <1>14 DEF WriteGrown
    <2> HIDE DEF r
    <2>4. \A g \in {"log", "wr"} : file'[g].open = file[g].open
      BY <1>0, <2>1, <2>2, <2>3, PutKeeps
    <2> QED BY <1>0, <2>1, <2>3, <2>4 DEF CallInv, Busy
  <1>15. ASSUME WriteFull PROVE CallInv'
    <2>1. \A g \in {"log", "wr"} : file'[g].open = file[g].open
      BY <1>0, <1>15 DEF WriteFull, TypeOK, File
    <2> QED BY <1>8, <1>15, <2>1 DEF WriteFull
  <1>16. ASSUME WriteEnd PROVE CallInv'
    <2>1. \A g \in {"log", "wr"} : file'[g].open = file[g].open
      BY <1>0, <1>16 DEF WriteEnd, TypeOK, File
    <2> QED BY <1>0, <1>16, <2>1 DEF WriteEnd, CallInv, Busy
  <1>17. ASSUME pc' = "idle", fp' = "log", after' = "keep", ~file'["wr"].open
         PROVE  CallInv'
    BY <1>17 DEF CallInv, Busy
  <1>18. ASSUME SyncNothing \/ SyncFlush \/ SyncFails PROVE CallInv'
    <2>1. /\ pc \in {"sync", "flush"} /\ Return
          /\ \E r : file' = [file EXCEPT ![fp] = Left(r)]
      BY <1>0, <1>18 DEF SyncNothing, SyncFlush, SyncFails, TypeOK
    <2>2. ~file'["wr"].open
      BY <1>0, <2>1 DEF Left, CallInv, Busy, TypeOK
    <2> QED BY <1>17, <2>1, <2>2 DEF Return
  <1>19. ASSUME SyncEntry PROVE CallInv'
    <2>1. \A g \in {"log", "wr"} : file'[g].open = file[g].open
      BY <1>0, <1>19 DEF SyncEntry, TypeOK, File
    <2> QED BY <1>0, <1>19, <2>1 DEF SyncEntry, CallInv, Busy, local
  <1>20. ASSUME pc \notin Busy \cup {"cat"}, Return, file'["wr"] = file["wr"]
         PROVE  CallInv'
    BY <1>0, <1>17, <1>20 DEF Return, CallInv
  <1>21. ASSUME Made PROVE CallInv'
    <2>1. CASE MkdirAllocate
      <3>1. FirstFree \in Clust \/ Free = {}
        BY <1>0, FirstFreeIs
      <3> QED BY <1>0, <1>20, <2>1, <3>1 DEF MkdirAllocate, CallInv, Busy
    <2>2. CASE MkdirTable \/ MkdirEntry
      BY <1>0, <2>2 DEF MkdirTable, MkdirEntry, CallInv, Busy, local
    <2>3. CASE MkdirSync
      BY <1>20, <2>3 DEF MkdirSync, Busy
    <2> QED BY <1>21, <2>1, <2>2, <2>3 DEF Made
  <1>22. ASSUME RemoveNext PROVE CallInv'
    BY <1>0, <1>22 DEF RemoveNext, CallInv, Busy
  <1>23. ASSUME RemoveEnd \/ RemoveFails PROVE CallInv'
    <2>1. pc = "free" /\ Return /\ file'["wr"] = file["wr"]
      BY <1>0, <1>23 DEF RemoveEnd, RemoveFails, Opened, TypeOK
    <2> QED BY <1>20, <2>1 DEF Busy
  <1>24. ASSUME ChainFails \/ DataFails PROVE CallInv'
    <2>1. PICK org \in {1} \cup Org, dirty \in BOOLEAN, sect \in Nat :
           /\ WriteError([file[fp] EXCEPT !.org = org, !.dirty = dirty, !.sect = sect])
           /\ pc \in {"write", "link", "grown"}
      BY <1>0, <1>24, ErrorIs
    <2>2. CASE fp = "log"
      <3>1. file'["wr"] = file["wr"] /\ pc' = "sync" /\ UNCHANGED <<fp, after>>
        BY <1>0, <2>1, <2>2 DEF WriteError, TypeOK
      <3>2. file'["log"].open
        <4>1. file["log"].open
          BY <1>0, <2>1, <2>2 DEF CallInv, Busy
        <4> DEFINE r == [file[fp] EXCEPT !.org = org, !.dirty = dirty, !.sect = sect]
        <4>2. r.open /\ r \in File
          <5>1. file["log"] \in File /\ r = [file["log"] EXCEPT !.org = org, !.dirty = dirty,
                                                                !.sect = sect]
            BY <1>0, <2>2
          <5> QED BY <4>1, <5>1 DEF File
        <4>3. WriteError(r)
          BY <2>1
        <4> HIDE DEF r
        <4>4. file'["log"] = [r EXCEPT !.err = TRUE]
          BY <1>0, <2>2, <4>3 DEF WriteError, TypeOK
        <4> QED BY <4>2, <4>4 DEF File
      <3> QED BY <1>0, <2>1, <2>2, <3>1, <3>2 DEF CallInv, Busy
    <2>3. CASE fp = "wr"
      <3>1. ~file'["wr"].open /\ Return
        BY <1>0, <2>1, <2>3 DEF WriteError, TypeOK
      <3> QED BY <1>17, <3>1 DEF Return
    <2> QED BY <1>0, <2>2, <2>3
  <1>25. ASSUME MkdirFails \/ TableFails PROVE CallInv'
    BY <1>20, <1>25 DEF MkdirFails, TableFails, Busy
  <1>26. ASSUME Reset PROVE CallInv'
    BY <1>0, <1>17, <1>26 DEF Reset, Return
  <1> QED BY <1>1, <1>2, <1>3, <1>4, <1>5, <1>6, <1>7, <1>9, <1>10, <1>11, <1>12, <1>13,
             <1>14, <1>15, <1>16, <1>18, <1>19, <1>21, <1>22, <1>23, <1>24, <1>25, <1>26
          DEF Next, Command, Call, Write, Sync, DiskFails

LEMMA FilesStay ==
  ASSUME BaseInv, ~GoesOnWhenFull, Next
  PROVE  FilesInv'
  <1>0. /\ TypeOK /\ Coherent /\ NamesInv /\ CallInv /\ FilesInv /\ EntryInv
        /\ fp \in {"log", "wr"} /\ file[fp] \in File /\ ~Closed.open
        /\ Positioned(file["log"]) /\ Positioned(file["wr"])
        /\ (file["wr"].open => ~file["wr"].err)
        /\ file["log"] \in File /\ file["wr"] \in File /\ btw \in Nat
    BY DEF BaseInv, TypeOK, FilesInv, Closed
  <1>1. ASSUME \A f \in {"log", "wr"} : Positioned(file'[f]),
               file'["wr"].open => ~file'["wr"].err, pc' \notin {"write", "link", "grown"}
        PROVE  FilesInv'
    BY <1>1 DEF FilesInv, Positioned
  <1>2. Positioned(Closed)
    BY DEF Positioned, Closed
  <1>3. ASSUME NEW f \in {"log", "wr"}, NEW s, NEW org \in Org, NEW size, Opened(f, s, org, size)
        PROVE  Positioned(file'[f]) /\ ~file'[f].err /\ \A g \in {"log", "wr"} \ {f} : file'[g] = file[g]
    <2>1. file'[f] = [Closed EXCEPT !.open = TRUE, !.slot = s, !.org = org, !.fsize = size]
          /\ \A g \in {"log", "wr"} \ {f} : file'[g] = file[g]
      BY <1>0, <1>3 DEF Opened, TypeOK
    <2>2. org # 1
      BY Constants DEF Org
    <2> QED BY <2>1, <2>2 DEF Closed, Positioned
  <1>4. ASSUME NEW n \in Name, LogOpen(n) PROVE FilesInv'
    <2>1. CASE Create("log", n) /\ UNCHANGED pc
      <3>1. Positioned(file'["log"]) /\ file'["wr"] = file["wr"]
        BY <1>3, <2>1, Zero DEF Create
      <3> QED BY <1>0, <1>1, <1>4, <2>1, <3>1 DEF LogOpen
    <2>2. ASSUME NEW s, file' = [file EXCEPT !["log"].slot = s], pc' = "free" PROVE FilesInv'
      <3>1. ~file'["log"].open /\ file'["wr"] = file["wr"]
        BY <1>0, <1>4, <2>2 DEF LogOpen, TypeOK, File
      <3> QED BY <1>0, <1>1, <2>2, <3>1 DEF Positioned
    <2> QED BY <1>4, <2>1, <2>2 DEF LogOpen
  <1>5. ASSUME NEW n \in Name, CatOpen(n) PROVE FilesInv'
    <2>1. CASE Create("wr", n)
      <3>1. Opened("wr", FreeSlot, 0, 0)
        BY <2>1 DEF Create
      <3>2. Positioned(file'["wr"]) /\ ~file'["wr"].err /\ file'["log"] = file["log"]
        BY <1>3, <3>1, Zero
      <3> QED BY <1>0, <1>1, <1>5, <3>2 DEF CatOpen
    <2>2. ASSUME NEW s \in Slots, Opened("wr", s, dir[s].org, dir[s].size) PROVE FilesInv'
      <3>1. dir[s].org \in Org
        BY <1>0 DEF TypeOK, Entry
      <3>2. Positioned(file'["wr"]) /\ ~file'["wr"].err /\ file'["log"] = file["log"]
        BY <1>3, <2>2, <3>1
      <3> QED BY <1>0, <1>1, <1>5, <3>2 DEF CatOpen
    <2> QED BY <1>5, <2>1, <2>2 DEF CatOpen
  <1>6. ASSUME UNCHANGED file, pc' \notin {"write", "link", "grown"} PROVE FilesInv'
    BY <1>0, <1>1, <1>6
  <1>7. ASSUME NEW n \in Name, Unlink(n) PROVE FilesInv'
    BY <1>6, <1>7 DEF Unlink
  <1>8. ASSUME NEW k \in WriteSizes, LogWrite(k) \/ CatWrite(k) PROVE FilesInv'
    <2>1. UNCHANGED file /\ k > 0 /\ k \in Nat
      BY <1>8, BoundAssumption DEF LogWrite, CatWrite
    <2>2. CASE pc' = "write"
      <3>1. btw' = k /\ ~file[fp'].err /\ file[fp'].sc # 0
        <4>1. CASE LogWrite(k)
          BY <2>2, <4>1 DEF LogWrite
        <4>2. CASE CatWrite(k)
          <5>1. ~file["wr"].err
            BY <1>0, <4>2 DEF CatWrite, CallInv
          <5> QED BY <2>2, <4>2, <5>1 DEF CatWrite
        <4> QED BY <1>8, <4>1, <4>2
      <3> QED BY <1>0, <2>1, <2>2, <3>1 DEF FilesInv
    <2>3. CASE pc' # "write"
      <3>1. pc' = "sync"
        BY <1>8, <2>3 DEF LogWrite, CatWrite
      <3> QED BY <1>6, <2>1, <3>1
    <2> QED BY <2>2, <2>3
  <1>9. ASSUME NEW s, CatRead(s) PROVE FilesInv'
    BY <1>6, <1>9 DEF CatRead
  <1>10. ASSUME LogStop \/ CatClose \/ Mkdir PROVE FilesInv'
    BY <1>6, <1>10 DEF LogStop, CatClose, Mkdir
  <1>11. ASSUME pc = "write", UNCHANGED <<pc, fp>>, Positioned(file'[fp]), ~file'[fp].err,
                \A g \in {"log", "wr"} : g # fp => file'[g] = file[g],
                btw' \in Nat, file'[fp].sc = 0 => btw' = 0,
                btw' = 0 => file'[fp].fptr > 0 \/ file'[fp].sc = 0
         PROVE  FilesInv'
    BY <1>0, <1>11 DEF FilesInv, Positioned
  <1>12. ASSUME pc \in {"write", "link", "grown"}
         PROVE  file[fp].open /\ ~file[fp].err /\ (file[fp].sc = 0 => btw = 0)
                /\ file[fp].fptr \in Nat /\ file[fp].sc \in 0 .. 255 /\ file[fp].org \in Org
    BY <1>0, <1>12 DEF FilesInv, Positioned, CallInv, Busy, File
  <1>13. ASSUME WriteBuffer PROVE FilesInv'
    <2> DEFINE off == file[fp].fptr % SectSize
               k == Lesser(btw, SectSize - off)
    <2>1. /\ pc = "write" /\ UNCHANGED <<pc, fp>> /\ off # 0 /\ btw' = btw - k /\ btw > 0
          /\ file' = [file EXCEPT ![fp].fptr = @ + k, ![fp].dirty = TRUE,
                                  ![fp].buf = Greater(@, off + k)]
      BY <1>13 DEF WriteBuffer
    <2>2. off \in 0 .. SectSize - 1 /\ SectSize \in Nat /\ k \in Nat /\ k <= btw /\ k > 0
      <3>1. off \in 0 .. SectSize - 1 /\ SectSize \in Nat
        BY <1>12, <2>1, DivMod, Constants
      <3> HIDE DEF off
      <3> QED BY <1>0, <2>1, <3>1 DEF Lesser
    <2> HIDE DEF off, k
    <2>3. /\ file'[fp].open = file[fp].open /\ file'[fp].err = file[fp].err
          /\ file'[fp].sc = file[fp].sc /\ file'[fp].fptr = file[fp].fptr + k
          /\ file'[fp].org = file[fp].org /\ file'[fp].curr = file[fp].curr
          /\ file'[fp].written = file[fp].written
          /\ \A g \in {"log", "wr"} : g # fp => file'[g] = file[g]
      BY <1>0, <2>1 DEF TypeOK, File
    <2>4. file[fp].fptr > 0
      <3>1. file[fp].fptr # 0
        <4>1. 0 % SectSize = 0
          BY Constants
        <4> QED BY <2>1, <4>1 DEF off
      <3> QED BY <1>12, <2>1, <3>1
    <2>5. Positioned(file'[fp])
      <3>1. Positioned(file[fp])
        BY <1>0
      <3> QED BY <1>12, <2>1, <2>2, <2>3, <2>4, <3>1 DEF Positioned
    <2>6. btw' \in Nat /\ btw' = btw - k /\ file'[fp].fptr > 0
      BY <1>0, <1>12, <2>1, <2>2, <2>3
    <2>7. file[fp].sc # 0
      BY <1>12, <2>1
    <2> QED BY <1>11, <1>12, <2>1, <2>3, <2>5, <2>6, <2>7
  <1>14. ASSUME NEW r \in File, NEW s \in Nat, Put(r, s), r.sc > 0, r.open, ~r.err, r.org # 1,
                r.curr \in Clust, btw > 0, pc' = "write", fp' = fp
         PROVE  FilesInv'
    <2>1. /\ \A g \in {"log", "wr"} : g # fp => file'[g] = file[g]
          /\ file'[fp].fptr > 0 /\ file'[fp].sc > 0
          /\ file'[fp].org = r.org /\ file'[fp].err = r.err
          /\ file'[fp].curr = r.curr
      BY <1>0, <1>14, PutKeeps
    <2>2. Positioned(file'[fp])
      BY <1>14, <2>1 DEF Positioned
    <2> QED BY <1>0, <1>14, <2>1, <2>2 DEF FilesInv
  <1>15. ASSUME WriteNextSector PROVE FilesInv'
    <2> DEFINE r == [file[fp] EXCEPT !.sc = SectsLeft]
    <2>1. pc = "write" /\ btw > 0 /\ SectsLeft # 0 /\ SectsLeft \in 0 .. 255
          /\ Put(r, file[fp].sect + 1) /\ UNCHANGED <<pc, fp>>
      BY <1>0, <1>15, SectsLeftIs DEF WriteNextSector, AtBoundary
    <2>2. file[fp].curr \in Clust
      <3>1. file[fp].sc # 0 /\ file[fp].sc # 1
        BY <1>12, <2>1 DEF SectsLeft
      <3>2. file[fp].fptr # 0 /\ Positioned(file[fp])
        BY <1>0, <1>12, <2>1, <3>1 DEF Positioned
      <3> QED BY <1>12, <2>1, <3>2 DEF Positioned
    <2>3. /\ r \in File /\ r.sc > 0 /\ r.open /\ ~r.err /\ r.org # 1 /\ r.curr \in Clust
          /\ file[fp].sect + 1 \in Nat
      <3>1. file[fp].org # 1
        BY <1>12, <2>1, Constants DEF Org
      <3> QED BY <1>0, <1>12, <2>1, <2>2, <3>1 DEF File
    <2> HIDE DEF r
    <2> QED BY <1>14, <2>1, <2>3
  <1>16. ASSUME WriteKnownCluster PROVE FilesInv'
    <2>1. /\ pc = "write" /\ pc' = "grown" /\ UNCHANGED <<file, fp, btw>> /\ btw > 0
          /\ file[fp].fptr % SectSize = 0 /\ SectsLeft = 0
      BY <1>16 DEF WriteKnownCluster, AtBoundary
    <2>2. SectsLeft' = 0
      BY <2>1 DEF SectsLeft
    <2> QED BY <1>0, <1>12, <2>1, <2>2 DEF FilesInv
  <1>17. ASSUME WriteAllocate PROVE FilesInv'
    <2>1. /\ pc = "write" /\ UNCHANGED <<fp, btw>> /\ btw > 0 /\ Free # {}
          /\ file[fp].fptr % SectSize = 0 /\ SectsLeft = 0
          /\ \/ file[fp].fptr # 0 /\ pc' = "link" /\ UNCHANGED file
             \/ pc' = "grown" /\ file' = [file EXCEPT ![fp].org = FirstFree]
      BY <1>17 DEF WriteAllocate, WriteSearch, AtBoundary, Chained
    <2>2. CASE UNCHANGED file
      <3>1. SectsLeft' = 0
        BY <2>1, <2>2 DEF SectsLeft
      <3> QED BY <1>0, <1>12, <2>1, <2>2, <3>1 DEF FilesInv
    <2>3. CASE pc' = "grown" /\ file' = [file EXCEPT ![fp].org = FirstFree]
      <3>1. /\ file'[fp] = [file[fp] EXCEPT !.org = FirstFree] /\ FirstFree # 1
            /\ \A g \in {"log", "wr"} : g # fp => file'[g] = file[g]
        BY <1>0, <2>1, <2>3, FirstFreeIs, Constants DEF TypeOK
      <3>2. /\ file'[fp].open = file[fp].open /\ file'[fp].err = file[fp].err
            /\ file'[fp].sc = file[fp].sc /\ file'[fp].fptr = file[fp].fptr
            /\ file'[fp].org = FirstFree /\ file'[fp].curr = file[fp].curr
            /\ file'[fp].written = file[fp].written
        BY <1>0, <3>1 DEF File
      <3>3. SectsLeft' = 0
        BY <2>1, <3>2 DEF SectsLeft
      <3>4. Positioned(file'[fp])
        <4>1. Positioned(file[fp])
          BY <1>0
        <4> QED BY <3>1, <3>2, <4>1 DEF Positioned
      <3> QED BY <1>0, <1>12, <2>1, <2>3, <3>1, <3>2, <3>3, <3>4 DEF FilesInv
    <2> QED BY <2>1, <2>2, <2>3
  <1>18. ASSUME WriteLink PROVE FilesInv'
    <2>1. pc = "link" /\ pc' = "grown" /\ UNCHANGED <<file, fp, btw>>
      BY <1>18 DEF WriteLink, local
    <2>2. SectsLeft' = SectsLeft
      BY <2>1 DEF SectsLeft
    <2> QED BY <1>0, <2>1, <2>2 DEF FilesInv
  <1>19. ASSUME WriteGrown PROVE FilesInv'
    <2> DEFINE r == [file[fp] EXCEPT !.curr = clust, !.sc = SectsClust]
    <2>1. clust \in Clust /\ btw > 0 /\ pc = "grown" /\ Put(r, clust2sect(clust))
          /\ pc' = "write" /\ fp' = fp
      BY <1>0, <1>19 DEF WriteGrown, CallInv, FilesInv
    <2>2. r \in File /\ r.sc > 0 /\ clust2sect(clust) \in Nat /\ r.open = file[fp].open
          /\ r.err = file[fp].err /\ r.org = file[fp].org /\ r.curr \in Clust
      <3>1. clust \in Org /\ SectsClust \in 0 .. 255 /\ SectsClust > 0
        <4>1. clust \in Clust
          BY <2>1
        <4> QED BY <4>1, Constants DEF Org
      <3> QED BY <1>0, <2>1, <3>1, SectsApart DEF File
    <2>3. r.org # 1
      BY <1>12, <2>1, <2>2, Constants DEF Org
    <2> HIDE DEF r
    <2> QED BY <1>12, <1>14, <2>1, <2>2, <2>3
  <1>20. ASSUME WriteFull PROVE FilesInv'
    <2>1. /\ pc = "write" /\ UNCHANGED <<pc, fp>> /\ file' = [file EXCEPT ![fp].sc = 0] /\ btw' = 0
      BY <1>20 DEF WriteFull, WriteSearch, AtBoundary
    <2>2. /\ file'[fp].open = file[fp].open /\ file'[fp].err = file[fp].err
          /\ file'[fp].sc = 0 /\ file'[fp].fptr = file[fp].fptr
          /\ file'[fp].org = file[fp].org /\ file'[fp].curr = file[fp].curr
          /\ file'[fp].written = file[fp].written
          /\ \A g \in {"log", "wr"} : g # fp => file'[g] = file[g]
      BY <1>0, <2>1 DEF TypeOK, File
    <2>3. Positioned(file'[fp])
      <3>1. Positioned(file[fp]) /\ 0 <= 1
        BY <1>0
      <3> QED BY <2>2, <3>1 DEF Positioned
    <2> QED BY <1>11, <1>12, <2>1, <2>2, <2>3
  <1>21. ASSUME WriteEnd PROVE FilesInv'
    <2>1. /\ pc = "write" /\ btw = 0 /\ pc' \in {"sync", "cat"}
          /\ file' = [file EXCEPT ![fp].fsize = Greater(@, file[fp].fptr), ![fp].written = TRUE]
      BY <1>21 DEF WriteEnd
    <2>2. /\ file'[fp].open = file[fp].open /\ file'[fp].err = file[fp].err
          /\ file'[fp].sc = file[fp].sc /\ file'[fp].fptr = file[fp].fptr
          /\ file'[fp].org = file[fp].org /\ file'[fp].curr = file[fp].curr
          /\ \A g \in {"log", "wr"} : g # fp => file'[g] = file[g]
      BY <1>0, <2>1 DEF TypeOK, File
    <2>3. Positioned(file'[fp])
      <3>1. file[fp].fptr > 0 \/ file[fp].sc = 0
        BY <1>0, <2>1 DEF FilesInv
      <3>2. file[fp].org # 1
        BY <1>12, <2>1, Constants DEF Org
      <3>3. Positioned(file[fp])
        BY <1>0
      <3> QED BY <1>12, <2>1, <2>2, <3>1, <3>2, <3>3 DEF Positioned
    <2> QED BY <1>0, <1>1, <1>12, <2>1, <2>2, <2>3
  <1>22. ASSUME NEW r, file' = [file EXCEPT ![fp] = Left(r)], pc' = "idle",
                Positioned(r), r.err = file[fp].err, r.open = file[fp].open
         PROVE  FilesInv'
    BY <1>0, <1>1, <1>2, <1>22 DEF TypeOK, Left
  <1>23. ASSUME SyncNothing \/ SyncFlush \/ SyncFails PROVE FilesInv'
    <2>1. pc' = "idle" /\ \/ file' = [file EXCEPT ![fp] = Left(file[fp])]
                          \/ file' = [file EXCEPT ![fp] = Left([file[fp] EXCEPT !.dirty = FALSE])]
      BY <1>0, <1>23 DEF SyncNothing, SyncFlush, SyncFails, TypeOK, Return
    <2>2. /\ Positioned([file[fp] EXCEPT !.dirty = FALSE]) /\ Positioned(file[fp])
          /\ [file[fp] EXCEPT !.dirty = FALSE].open = file[fp].open
          /\ [file[fp] EXCEPT !.dirty = FALSE].err = file[fp].err
      BY <1>0 DEF Positioned, File
    <2> QED BY <1>22, <2>1, <2>2
  <1>24. ASSUME SyncEntry PROVE FilesInv'
    <2>1. pc' = "flush" /\ file' = [file EXCEPT ![fp].dirty = FALSE, ![fp].written = FALSE]
      BY <1>24 DEF SyncEntry
    <2>2. \A f \in {"log", "wr"} : Positioned(file'[f]) /\ file'[f].open = file[f].open
                                   /\ file'[f].err = file[f].err
      BY <1>0, <2>1 DEF Positioned, File, TypeOK
    <2> QED BY <1>0, <1>1, <2>1, <2>2
  <1>25. ASSUME Made \/ RemoveNext \/ MkdirFails \/ TableFails PROVE FilesInv'
    <2>1. UNCHANGED file /\ pc' \notin {"write", "link", "grown"}
      BY <1>25 DEF Made, MkdirAllocate, MkdirTable, MkdirEntry, MkdirSync, RemoveNext,
                   MkdirFails, TableFails, Return
    <2> QED BY <1>6, <2>1
  <1>26. ASSUME RemoveEnd \/ RemoveFails PROVE FilesInv'
    <2>1. pc' = "idle"
      BY <1>26 DEF RemoveEnd, RemoveFails, Return
    <2>2. CASE UNCHANGED file
      BY <1>6, <2>1, <2>2
    <2>3. CASE Opened("log", file["log"].slot, 0, 0)
      BY <1>0, <1>1, <1>3, <2>1, <2>3, Zero
    <2>4. CASE file' = [file EXCEPT !["log"] = Closed]
      BY <1>0, <1>1, <1>2, <2>1, <2>4 DEF TypeOK
    <2> QED BY <1>26, <2>2, <2>3, <2>4 DEF RemoveEnd, RemoveFails
  <1>27. ASSUME ChainFails \/ DataFails PROVE FilesInv'
    <2>1. PICK org \in {1} \cup Org, dirty \in BOOLEAN, sect \in Nat :
           /\ WriteError([file[fp] EXCEPT !.org = org, !.dirty = dirty, !.sect = sect])
           /\ pc \in {"write", "link", "grown"}
           /\ \/ org = file[fp].org
              \/ org = 1 /\ file[fp].fptr = 0 /\ SectsLeft = 0 /\ pc = "write" /\ btw > 0
      BY <1>0, <1>27, ErrorIs
    <2> DEFINE q == [[file[fp] EXCEPT !.org = org, !.dirty = dirty, !.sect = sect]
                      EXCEPT !.err = TRUE]
    <2>2. CASE fp = "log"
      <3>1. file' = [file EXCEPT !["log"] = q] /\ pc' = "sync"
        BY <2>1, <2>2 DEF WriteError
      <3>2. /\ q.open = file[fp].open /\ q.err = TRUE /\ q.sc = file[fp].sc
            /\ q.fptr = file[fp].fptr /\ q.org = org /\ q.curr = file[fp].curr
            /\ q.written = file[fp].written
        BY <1>0 DEF File
      <3> HIDE DEF q
      <3>3. Positioned(q)
        <4>1. Positioned(file[fp])
          BY <1>0
        <4>2. org = 1 => ~file[fp].written
          <5>1. CASE org = file[fp].org
            BY <1>12, <2>1, <5>1, Constants DEF Org
          <5>2. CASE file[fp].fptr = 0 /\ SectsLeft = 0 /\ pc = "write" /\ btw > 0
            <6>1. file[fp].sc # 0
              BY <1>12, <5>2
            <6> QED BY <1>12, <4>1, <5>2, <6>1 DEF Positioned
          <5> QED BY <2>1, <5>1, <5>2
        <4> QED BY <3>2, <4>1, <4>2 DEF Positioned
      <3>4. file'["log"] = q /\ file'["wr"] = file["wr"]
        BY <1>0, <3>1 DEF TypeOK
      <3> QED BY <1>0, <1>1, <3>1, <3>3, <3>4
    <2>3. CASE fp = "wr"
      <3>1. file' = [file EXCEPT !["wr"] = Closed] /\ pc' = "idle"
        BY <2>1, <2>3 DEF WriteError, Return
      <3> QED BY <1>0, <1>1, <1>2, <3>1 DEF TypeOK
    <2> QED BY <1>0, <2>2, <2>3
  <1>28. ASSUME Reset PROVE FilesInv'
    <2>1. file' = [f \in {"log", "wr"} |-> Closed] /\ pc' = "idle"
      BY <1>28 DEF Reset, Return
    <2> QED BY <1>0, <1>1, <1>2, <2>1
  <1> QED BY <1>4, <1>5, <1>7, <1>8, <1>9, <1>10, <1>13, <1>15, <1>16, <1>17, <1>18, <1>19,
             <1>20, <1>21, <1>23, <1>24, <1>25, <1>26, <1>27, <1>28
          DEF Next, Command, Call, Write, Sync, DiskFails
-----------------------------------------------------------------------------
(* The entries of open files *)

LEMMA EntryStays ==
  ASSUME BaseInv, ~TouchesOpenLog, Next
  PROVE  EntryInv'
  <1>0. /\ TypeOK /\ Coherent /\ NamesInv /\ CallInv /\ FilesInv /\ EntryInv /\ Names(dir)
        /\ fp \in {"log", "wr"} /\ file[fp] \in File /\ ~Closed.open
        /\ file \in [{"log", "wr"} -> File] /\ dir \in [Slots -> Entry]
    BY DEF BaseInv, NamesInv, TypeOK, Closed
  (* Steps that leave the entries and open no file. *)
  <1>1. ASSUME UNCHANGED dir,
               \A f \in {"log", "wr"} : file'[f].open => file[f].open /\ file'[f].slot = file[f].slot,
               pc' = "free" => pc = "free" /\ UNCHANGED <<file, after>>,
               pc' \in {"mkdir", "table", "entry"} => pc \in {"mkdir", "table", "entry"}
        PROVE  EntryInv'
    BY <1>0, <1>1 DEF EntryInv
  (* Steps that open no file and change only entries of no open file, or     *)
  (* of one its size and first cluster.                                      *)
  <1>2. ASSUME \A f \in {"log", "wr"} : file[f].open => /\ dir'[file[f].slot].name # NoName
                                                        /\ ~dir'[file[f].slot].isDir,
               \A f \in {"log", "wr"} : file'[f].open => file[f].open /\ file'[f].slot = file[f].slot,
               pc' \notin {"mkdir", "table", "entry"}, ~(pc' = "free" /\ after' = "open")
        PROVE  EntryInv'
    BY <1>0, <1>2 DEF EntryInv
  <1>3. ASSUME pc \notin Busy \cup {"cat"} PROVE ~file["wr"].open
    BY <1>0, <1>3 DEF CallInv
  <1>4. ASSUME NEW f \in {"log", "wr"}, NEW n \in Name, Create(f, n), UNCHANGED fat, pc = "idle",
               pc' \in {"idle", "cat"}, ~file[f].open
        PROVE  EntryInv'
    <2>1. /\ FreeSlot \in Slots /\ dir[FreeSlot].name = NoName
          /\ \A s \in Slots : dir'[s] =
               IF s = FreeSlot THEN [Empty EXCEPT !.name = n] ELSE dir[s]
          /\ \A g \in {"log", "wr"} : g # f => file'[g] = file[g]
          /\ file'[f] = [Closed EXCEPT !.open = TRUE, !.slot = FreeSlot, !.org = 0, !.fsize = 0]
      BY <1>0, <1>4, CreateIs
    <2>2. /\ file'[f].slot = FreeSlot
          /\ dir'[FreeSlot].name # NoName /\ ~dir'[FreeSlot].isDir
      BY <2>1, NameAssumption DEF Closed, Empty
    <2>3. \A g \in {"log", "wr"} : g # f /\ file'[g].open =>
             /\ file'[g].slot \in Slots /\ file'[g].slot # FreeSlot
             /\ dir'[file'[g].slot].name # NoName /\ ~dir'[file'[g].slot].isDir
      BY <1>0, <2>1 DEF EntryInv
    <2> QED BY <1>4, <2>1, <2>2, <2>3 DEF EntryInv
  <1>5. ASSUME NEW n \in Name, LogOpen(n) PROVE EntryInv'
    <2>0. pc = "idle" /\ UNCHANGED fat /\ ~file["log"].open /\ ~file["wr"].open
      BY <1>3, <1>5 DEF LogOpen, Busy
    <2>1. CASE Create("log", n) /\ UNCHANGED pc
      BY <1>4, <2>0, <2>1
    <2>2. ASSUME NEW s \in Slots, dir[s].name = n, ~dir[s].isDir,
                 dir' = [dir EXCEPT ![s].org = 0, ![s].size = 0],
                 file' = [file EXCEPT !["log"].slot = s], pc' = "free"
          PROVE  EntryInv'
      <3>1. /\ ~file'["log"].open /\ ~file'["wr"].open /\ file'["log"].slot = s
        BY <1>0, <2>0, <2>2 DEF File
      <3>2. dir'[s].name # NoName /\ ~dir'[s].isDir /\ dir'[s].org = 0 /\ dir'[s].size = 0
        BY <1>0, <2>2, NameAssumption DEF Entry
      <3> QED BY <2>2, <3>1, <3>2 DEF EntryInv
    <2> QED BY <1>5, <2>1, <2>2 DEF LogOpen
  <1>6. ASSUME NEW n \in Name, CatOpen(n) PROVE EntryInv'
    <2>0. /\ pc = "idle" /\ UNCHANGED fat /\ ~file["wr"].open /\ pc' = "cat"
          /\ ~(file["log"].open /\ dir[file["log"].slot].name = n)
      BY <1>3, <1>6 DEF CatOpen, Busy, MayTouch
    <2>1. CASE Create("wr", n)
      BY <1>4, <2>0, <2>1
    <2>2. ASSUME NEW s \in Slots, dir[s].name = n, ~dir[s].isDir, UNCHANGED dir,
                 Opened("wr", s, dir[s].org, dir[s].size)
          PROVE  EntryInv'
      <3>1. file'["log"] = file["log"] /\ file'["wr"].slot = s
        BY <1>0, <2>2 DEF Opened, Closed
      <3>2. dir[s].name # NoName
        BY <2>2, NameAssumption
      <3> QED BY <1>0, <2>0, <2>2, <3>1, <3>2 DEF EntryInv
    <2> QED BY <1>6, <2>1, <2>2 DEF CatOpen
  <1>7. ASSUME NEW n \in Name, Unlink(n) PROVE EntryInv'
    <2>0. /\ pc = "idle" /\ ~file["wr"].open /\ UNCHANGED file /\ pc' = "free" /\ after' = "unlink"
          /\ ~(file["log"].open /\ dir[file["log"].slot].name = n)
      BY <1>3, <1>7 DEF Unlink, Busy, MayTouch
    <2>1. PICK s \in Slots : dir[s].name = n /\ dir' = [dir EXCEPT ![s] = Empty]
      BY <1>7 DEF Unlink
    <2>2. \A t \in Slots : t # s => dir'[t] = dir[t]
      BY <1>0, <2>1
    <2>3. \A f \in {"log", "wr"} : file[f].open => file[f].slot \in Slots /\ file[f].slot # s
      BY <2>0, <2>1, <1>0 DEF EntryInv
    <2> QED BY <1>0, <1>2, <2>0, <2>2, <2>3 DEF EntryInv
  <1>8. ASSUME NEW k, LogWrite(k) \/ CatWrite(k) \/ CatRead(k) PROVE EntryInv'
    <2>1. UNCHANGED <<dir, file>> /\ pc' \in {"write", "sync", "cat"}
      BY <1>8 DEF LogWrite, CatWrite, CatRead
    <2> QED BY <1>1, <2>1
  <1>9. ASSUME LogStop \/ CatClose PROVE EntryInv'
    <2>1. UNCHANGED <<dir, file>> /\ pc' = "sync"
      BY <1>9 DEF LogStop, CatClose
    <2> QED BY <1>1, <2>1
  <1>10. ASSUME Mkdir PROVE EntryInv'
    <2>1. UNCHANGED <<dir, file>> /\ pc' = "mkdir" /\ \A s \in Slots : dir[s].name # DirName
      BY <1>10 DEF Mkdir
    <2> QED BY <1>0, <2>1 DEF EntryInv
  <1>11. ASSUME WriteBuffer \/ WriteFull \/ WriteEnd PROVE EntryInv'
    <2>1. UNCHANGED dir /\ pc' \in {"write", "sync", "cat"}
      BY <1>11 DEF WriteBuffer, WriteFull, WriteEnd, WriteSearch, AtBoundary
    <2>2. \A f \in {"log", "wr"} : file'[f].open = file[f].open /\ file'[f].slot = file[f].slot
      BY <1>0, <1>11 DEF WriteBuffer, WriteFull, WriteEnd, File
    <2> QED BY <1>1, <2>1, <2>2
  <1>12. ASSUME NEW r \in File, NEW s \in Nat, Put(r, s), r.sc > 0, btw > 0,
                r.open = file[fp].open, r.slot = file[fp].slot, UNCHANGED dir, pc' = "write"
         PROVE  EntryInv'
    <2>1. \A f \in {"log", "wr"} : file'[f].open = file[f].open /\ file'[f].slot = file[f].slot
      <3>1. /\ file'[fp].open = r.open /\ file'[fp].slot = r.slot
            /\ \A g \in {"log", "wr"} : g # fp => file'[g] = file[g]
        BY <1>0, <1>12, PutKeeps
      <3> QED BY <1>12, <3>1
    <2> QED BY <1>1, <1>12, <2>1
  <1>13. ASSUME WriteNextSector PROVE EntryInv'
    <2> DEFINE r == [file[fp] EXCEPT !.sc = SectsLeft]
    <2>1. /\ r \in File /\ r.sc > 0 /\ file[fp].sect + 1 \in Nat /\ r.open = file[fp].open
          /\ r.slot = file[fp].slot /\ btw > 0
      BY <1>0, <1>13, SectsLeftIs DEF File, WriteNextSector, AtBoundary
    <2>2. Put(r, file[fp].sect + 1) /\ UNCHANGED dir /\ pc' = "write"
      BY <1>13 DEF WriteNextSector, AtBoundary
    <2> HIDE DEF r
    <2> QED BY <1>12, <2>1, <2>2
  <1>14. ASSUME WriteGrown PROVE EntryInv'
    <2> DEFINE r == [file[fp] EXCEPT !.curr = clust, !.sc = SectsClust]
    <2>1. clust \in Clust /\ btw > 0
      BY <1>0, <1>14 DEF WriteGrown, CallInv, FilesInv
    <2>2. /\ r \in File /\ r.sc > 0 /\ clust2sect(clust) \in Nat /\ r.open = file[fp].open
          /\ r.slot = file[fp].slot
      <3>1. clust \in Org /\ SectsClust \in 0 .. 255 /\ SectsClust > 0
        BY <2>1, Constants DEF Org
      <3> QED BY <1>0, <2>1, <3>1, SectsApart DEF File
    <2>3. Put(r, clust2sect(clust)) /\ UNCHANGED dir /\ pc' = "write"
      BY <1>14 DEF WriteGrown
    <2> HIDE DEF r
    <2> QED BY <1>12, <2>1, <2>2, <2>3
  <1>15. ASSUME WriteKnownCluster \/ WriteAllocate \/ WriteLink PROVE EntryInv'
    <2>1. UNCHANGED dir /\ pc' \in {"grown", "link"}
          /\ (UNCHANGED file \/ file' = [file EXCEPT ![fp].org = FirstFree])
      BY <1>15 DEF WriteKnownCluster, WriteAllocate, WriteLink
    <2>2. \A f \in {"log", "wr"} : file'[f].open = file[f].open /\ file'[f].slot = file[f].slot
      BY <1>0, <2>1 DEF File
    <2> QED BY <1>1, <2>1, <2>2
  <1>16. ASSUME SyncNothing \/ SyncFlush \/ SyncFails PROVE EntryInv'
    <2>1. /\ UNCHANGED dir /\ pc' = "idle"
          /\ \/ file' = [file EXCEPT ![fp] = Left(file[fp])]
             \/ file' = [file EXCEPT ![fp] = Left([file[fp] EXCEPT !.dirty = FALSE])]
      BY <1>0, <1>16 DEF SyncNothing, SyncFlush, SyncFails, Return, Fails
    <2>2. \A f \in {"log", "wr"} : file'[f].open => file[f].open /\ file'[f].slot = file[f].slot
      <3> DEFINE r == [file[fp] EXCEPT !.dirty = FALSE]
      <3>1. r.open = file[fp].open /\ r.slot = file[fp].slot
        BY <1>0 DEF File
      <3> HIDE DEF r
      <3>2. file'[fp] \in {Closed, file[fp], r} /\ \A g \in {"log", "wr"} : g # fp => file'[g] = file[g]
        BY <1>0, <2>1 DEF Left, r
      <3> QED BY <1>0, <3>1, <3>2
    <2>3. UNCHANGED dir /\ pc' = "idle"
      BY <2>1
    <2> QED BY <1>1, <2>2, <2>3
  <1>17. ASSUME SyncEntry PROVE EntryInv'
    <2>1. /\ dir' = [dir EXCEPT ![file[fp].slot].org = file[fp].org,
                                ![file[fp].slot].size = file[fp].fsize]
          /\ file' = [file EXCEPT ![fp].dirty = FALSE, ![fp].written = FALSE] /\ pc' = "flush"
      BY <1>17 DEF SyncEntry
    <2>2. \A f \in {"log", "wr"} : file'[f].open = file[f].open /\ file'[f].slot = file[f].slot
      BY <1>0, <2>1 DEF File
    <2>3. \A s \in Slots : dir'[s].name = dir[s].name /\ dir'[s].isDir = dir[s].isDir
      <3> DEFINE t == file[fp].slot
                 u == file[fp].org
                 n == file[fp].fsize
      <3>1. dir' = [dir EXCEPT ![t].org = u, ![t].size = n]
        BY <2>1
      <3>2. t \in Slots
        BY <1>0, <1>17 DEF SyncEntry, CallInv, Busy, EntryInv
      <3> HIDE DEF t, u, n
      <3>3. \A s \in Slots : s # t => dir'[s] = dir[s]
        BY <1>0, <3>1, <3>2
      <3>4. dir'[t] = [[dir[t] EXCEPT !.org = u] EXCEPT !.size = n]
        BY <1>0, <3>1, <3>2
      <3>5. dir'[t].name = dir[t].name /\ dir'[t].isDir = dir[t].isDir
        BY <1>0, <3>2, <3>4 DEF Entry
      <3> QED BY <3>3, <3>5
    <2>4. /\ pc' = "flush"
          /\ \A f \in {"log", "wr"} : file[f].open =>
               /\ file[f].slot \in Slots
               /\ dir[file[f].slot].name # NoName /\ ~dir[file[f].slot].isDir
      BY <1>0, <2>1 DEF EntryInv
    <2> QED BY <1>2, <2>2, <2>3, <2>4
  <1>18. ASSUME MkdirAllocate \/ MkdirTable \/ MkdirSync PROVE EntryInv'
    <2>1. /\ UNCHANGED <<dir, file>> /\ pc' \in {"table", "entry", "idle"}
          /\ (pc' # "idle" => pc \in {"mkdir", "table"})
      BY <1>18 DEF MkdirAllocate, MkdirTable, MkdirSync, Return
    <2> QED BY <1>1, <2>1
  <1>19. ASSUME MkdirEntry PROVE EntryInv'
    <2>1. /\ dir' = [dir EXCEPT ![FreeSlot] = [name |-> DirName, org |-> clust, size |-> 0,
                                               isDir |-> TRUE]]
          /\ UNCHANGED file /\ pc' = "made" /\ pc = "entry" /\ ~file["wr"].open
      BY <1>3, <1>19 DEF MkdirEntry, Busy
    <2>2. FreeSlot \in Slots /\ dir[FreeSlot].name = NoName
      BY <1>0, <2>1, FreeSlotIs, BoundAssumption DEF EntryInv
    <2>3. \A f \in {"log", "wr"} : file[f].open =>
            /\ file[f].slot \in Slots /\ file[f].slot # FreeSlot
            /\ dir'[file[f].slot] = dir[file[f].slot]
      BY <1>0, <2>1, <2>2 DEF EntryInv
    <2> QED BY <1>0, <1>2, <2>1, <2>3 DEF EntryInv
  <1>20. ASSUME RemoveNext PROVE EntryInv'
    BY <1>1, <1>20 DEF RemoveNext
  <1>21. ASSUME RemoveEnd PROVE EntryInv'
    <2>1. UNCHANGED dir /\ pc' = "idle" /\ pc = "free" /\ ~file["wr"].open
      BY <1>3, <1>21 DEF RemoveEnd, Return, Busy
    <2>2. CASE UNCHANGED file
      BY <1>1, <2>1, <2>2
    <2>3. CASE after = "open" /\ Opened("log", file["log"].slot, 0, 0)
      <3>1. file'["wr"] = file["wr"] /\ file'["log"].slot = file["log"].slot
        BY <1>0, <2>3 DEF Opened, Closed
      <3> QED BY <1>0, <2>1, <2>3, <3>1 DEF EntryInv
    <2> QED BY <1>21, <2>2, <2>3 DEF RemoveEnd
  <1>22. ASSUME RemoveFails PROVE EntryInv'
    <2>1. UNCHANGED dir /\ pc' = "idle" /\ \A f \in {"log", "wr"} : file'[f].open => file'[f] = file[f]
      BY <1>0, <1>22 DEF RemoveFails, Return, Fails
    <2> QED BY <1>1, <2>1
  <1>23. ASSUME MkdirFails \/ TableFails PROVE EntryInv'
    <2>1. UNCHANGED <<dir, file>> /\ pc' = "idle"
      BY <1>23 DEF MkdirFails, TableFails, Return, Fails
    <2> QED BY <1>1, <2>1
  <1>24. ASSUME ChainFails \/ DataFails PROVE EntryInv'
    <2>1. PICK org \in {1} \cup Org, dirty \in BOOLEAN, sect \in Nat :
           /\ WriteError([file[fp] EXCEPT !.org = org, !.dirty = dirty, !.sect = sect])
           /\ pc \in {"write", "link", "grown"}
      BY <1>0, <1>24, ErrorIs
    <2> DEFINE r == [file[fp] EXCEPT !.org = org, !.dirty = dirty, !.sect = sect]
    <2>2. r.open = file[fp].open /\ r.slot = file[fp].slot /\ r \in File
      BY <1>0 DEF File
    <2>3. WriteError(r)
      BY <2>1
    <2>4. UNCHANGED dir
      BY <1>24 DEF ChainFails, DataFails, Fails
    <2> HIDE DEF r
    <2>5. \A f \in {"log", "wr"} : file'[f].open => file[f].open /\ file'[f].slot = file[f].slot
      BY <1>0, <2>2, <2>3 DEF WriteError, File
    <2>6. pc' \in {"idle", "sync"}
      BY <2>3 DEF WriteError, Return
    <2> QED BY <1>1, <2>4, <2>5, <2>6
  <1>25. ASSUME Reset PROVE EntryInv'
    <2>1. file' = [f \in {"log", "wr"} |-> Closed] /\ pc' = "idle"
      BY <1>25 DEF Reset, Return
    <2> QED BY <1>0, <2>1 DEF EntryInv
  <1> QED BY <1>5, <1>6, <1>7, <1>8, <1>9, <1>10, <1>11, <1>13, <1>14, <1>15, <1>16, <1>17,
             <1>18, <1>19, <1>20, <1>21, <1>22, <1>23, <1>24, <1>25
          DEF Next, Command, Call, Write, Sync, Made, DiskFails

LEMMA InitIsBase == Init => BaseInv
  <1> SUFFICES ASSUME Init PROVE BaseInv
    OBVIOUS
  <1>1. Closed \in File /\ Empty \in Entry /\ ~Closed.open /\ NoSect \in Int
    BY Zero DEF Closed, File, Empty, Entry, NoSect
  <1>2. file \in [{"log", "wr"} -> File] /\ \A f \in {"log", "wr"} : file[f] = Closed
    BY <1>1 DEF Init
  <1>3. TypeOK
    <2>1. card \in Card
      BY <1>1, Zero DEF Init, Card
    <2> QED BY <1>1, <1>2, <2>1, Zero DEF Init, TypeOK
  <1>4. Coherent
    BY DEF Init, Coherent
  <1>5. NamesInv
    <2>1. \A s \in Slots : dir[s] = Empty /\ card.dir[s] = Empty
      BY DEF Init
    <2>2. Empty.name = NoName /\ ~Empty.isDir
      BY DEF Empty
    <2> QED BY <2>1, <2>2 DEF NamesInv, Names
  <1>6. CallInv
    BY <1>1, <1>2 DEF Init, CallInv, Busy
  <1>7. FilesInv
    BY <1>1, <1>2 DEF Init, FilesInv, Positioned
  <1>8. EntryInv
    BY <1>1, <1>2 DEF Init, EntryInv
  <1> QED BY <1>3, <1>4, <1>5, <1>6, <1>7, <1>8 DEF BaseInv

LEMMA BaseStays ==
  ASSUME ~TouchesOpenLog, ~GoesOnWhenFull, BaseInv, [Next]_vars
  PROVE  BaseInv'
  <1>1. CASE Next
    <2>1. TypeOK' /\ Coherent'
      BY <1>1, StepTypes, ResetTypes DEF Next
    <2> QED BY <1>1, <2>1, NamesStay, CallStays, FilesStay, EntryStays DEF BaseInv
  <1>2. CASE UNCHANGED vars
    <2>1. /\ UNCHANGED <<fat, dir, win, winflag, last_clust, card, file, pc, fp, btw, clust, rs,
                         after, mishaps>>
      BY <1>2 DEF vars, window, local
    <2>2. SectsLeft' = SectsLeft
      BY <2>1 DEF SectsLeft
    <2>3. TypeOK' /\ Coherent' /\ NamesInv' /\ CallInv' /\ EntryInv'
      BY <2>1 DEF BaseInv, TypeOK, Coherent, NamesInv, Names, CallInv, EntryInv
    <2>4. FilesInv'
      BY <2>1, <2>2 DEF BaseInv, FilesInv, Positioned
    <2> QED BY <2>3, <2>4 DEF BaseInv
  <1> QED BY <1>1, <1>2

(* Types, window, names and the running call: what FatFs sees differs from *)
(* the card in the sector of the window only (move_window), no two entries *)
(* have a name in common (f_open, f_mkdir), and a file that is open has an *)
(* entry of its own.                                                       *)
THEOREM Base ==
  ASSUME ~TouchesOpenLog, ~GoesOnWhenFull
  PROVE  Spec => []BaseInv
  <1>1. Init => BaseInv
    BY InitIsBase
  <1>2. BaseInv /\ [Next]_vars => BaseInv'
    BY BaseStays
  <1> QED BY <1>1, <1>2, PTL DEF Spec
-----------------------------------------------------------------------------
(* What a sync leaves on the card *)

LEMMA SyncStays ==
  ASSUME BaseInv, SyncInv, ~TouchesOpenLog, Next
  PROVE  SyncInv'
  <1>0. /\ TypeOK /\ Coherent /\ NamesInv /\ CallInv /\ FilesInv /\ EntryInv /\ Names(dir)
        /\ fp \in {"log", "wr"} /\ file[fp] \in File /\ ~Closed.open /\ file["log"] \in File
        /\ file \in [{"log", "wr"} -> File] /\ dir \in [Slots -> Entry] /\ mishaps \in Nat
        /\ card \in Card /\ btw \in Nat
    BY DEF BaseInv, NamesInv, TypeOK, Closed
  <1>1. SUFFICES ASSUME mishaps' = 0, file'["log"].open, mishaps = 0, ~DiskFails, ~Reset
                 PROVE  SyncInv'
    <2>1. ASSUME DiskFails \/ Reset PROVE mishaps' = mishaps + 1
      BY <2>1 DEF DiskFails, Reset, ChainFails, DataFails, SyncFails, RemoveFails,
                  MkdirFails, TableFails, Fails
    <2>2. ASSUME Command \/ Call PROVE mishaps' = mishaps
      BY <2>2 DEF Command, LogOpen, CatOpen, Unlink, LogWrite, CatWrite, CatRead, LogStop,
           CatClose, Mkdir, Call, Write, WriteBuffer, WriteNextSector, WriteKnownCluster,
           WriteAllocate, WriteLink, WriteGrown, WriteFull, WriteEnd, Sync, SyncNothing,
           SyncEntry, SyncFlush, Made, MkdirAllocate, MkdirTable, MkdirEntry, MkdirSync,
           RemoveNext, RemoveEnd
    <2> QED BY <1>0, <2>1, <2>2 DEF Next, SyncInv
  <1>2. card'.dir \in {card.dir, dir} /\ card' \in Card
    BY <1>1, StepTypes DEF Next, WindowStep, CardMoves
  <1>3. ASSUME file'["log"] = file["log"], dir'[file["log"].slot] = dir[file["log"].slot],
               ~LogBusy, ~LogBusy'
        PROVE  SyncInv'
    <2>1. Settled(file["log"])
      BY <1>1, <1>3 DEF SyncInv
    <2>2. Settled(file["log"])'
      BY <1>2, <1>3, <2>1 DEF Settled
    <2> QED BY <1>1, <1>3, <2>2 DEF SyncInv, LogBusy, Busy
  <1>4. ASSUME file'["log"].fptr = 0, file'["log"].fsize = 0, ~file'["log"].written,
               ~file'["log"].err, ~LogBusy'
        PROVE  SyncInv'
    BY <1>4 DEF SyncInv, Settled, LogBusy, Busy
  <1>5. ASSUME NEW n \in Name, LogOpen(n) PROVE SyncInv'
    <2>1. CASE Create("log", n) /\ UNCHANGED <<pc, local>>
      <3>1. pc' = "idle" /\ UNCHANGED fat
        BY <1>5, <2>1 DEF LogOpen
      <3>2. file'["log"] = [Closed EXCEPT !.open = TRUE, !.slot = FreeSlot, !.org = 0, !.fsize = 0]
        BY <1>0, <2>1, <3>1, CreateIs
      <3> QED BY <1>4, <3>1, <3>2 DEF Closed, LogBusy, Busy
    <2>2. ASSUME NEW s \in Slots, file' = [file EXCEPT !["log"].slot = s] PROVE FALSE
      BY <1>0, <1>1, <1>5, <2>2 DEF LogOpen, File
    <2> QED BY <1>5, <2>1, <2>2 DEF LogOpen
  <1>6. ASSUME NEW n \in Name, CatOpen(n) PROVE SyncInv'
    <2>0. pc = "idle" /\ UNCHANGED fat /\ pc' = "cat" /\ ~LogBusy /\ ~LogBusy'
      BY <1>6 DEF CatOpen, LogBusy, Busy
    <2>1. CASE Create("wr", n)
      <3>1. /\ file'["log"] = file["log"] /\ dir[FreeSlot].name = NoName
            /\ \A s \in Slots : s # FreeSlot => dir'[s] = dir[s]
        BY <1>0, <2>0, <2>1, CreateIs
      <3>2. file["log"].slot \in Slots /\ file["log"].slot # FreeSlot
        BY <1>0, <1>1, <3>1 DEF EntryInv
      <3> QED BY <1>3, <2>0, <3>1, <3>2
    <2>2. ASSUME NEW s \in Slots, UNCHANGED dir, Opened("wr", s, dir[s].org, dir[s].size)
          PROVE  SyncInv'
      <3>1. file'["log"] = file["log"]
        BY <1>0, <2>2 DEF Opened
      <3> QED BY <1>3, <2>0, <2>2, <3>1
    <2> QED BY <1>6, <2>1, <2>2 DEF CatOpen
  <1>7. ASSUME NEW n \in Name, Unlink(n) PROVE SyncInv'
    <2>0. /\ pc = "idle" /\ UNCHANGED file /\ pc' = "free" /\ ~LogBusy /\ ~LogBusy'
          /\ ~(file["log"].open /\ dir[file["log"].slot].name = n)
      BY <1>7 DEF Unlink, MayTouch, LogBusy, Busy
    <2>1. PICK s \in Slots : dir[s].name = n /\ dir' = [dir EXCEPT ![s] = Empty]
      BY <1>7 DEF Unlink
    <2>2. file["log"].slot \in Slots /\ file["log"].slot # s
      BY <1>0, <1>1, <2>0, <2>1 DEF EntryInv
    <2> QED BY <1>0, <1>3, <2>0, <2>1, <2>2
  <1>8. ASSUME NEW k, CatWrite(k) \/ CatRead(k) PROVE SyncInv'
    <2>1. UNCHANGED <<dir, file>> /\ ~LogBusy /\ ~LogBusy'
      BY <1>8 DEF CatWrite, CatRead, LogBusy, Busy
    <2> QED BY <1>3, <2>1
  <1>9. ASSUME Mkdir \/ CatClose PROVE SyncInv'
    <2>1. UNCHANGED <<dir, file>> /\ ~LogBusy /\ ~LogBusy'
      BY <1>9 DEF Mkdir, CatClose, LogBusy, Busy
    <2> QED BY <1>3, <2>1
  <1>10. ASSUME NEW k \in WriteSizes, LogWrite(k) PROVE SyncInv'
    <2>1. /\ pc = "idle" /\ UNCHANGED <<file, dir, card>> /\ fp' = "log" /\ file["log"].open
          /\ (pc' = "write" \/ file["log"].err)
      BY <1>10 DEF LogWrite
    <2>2. ~file["log"].err /\ file["log"].fsize <= file["log"].fptr
      BY <1>1, <2>1 DEF SyncInv
    <2> QED BY <2>1, <2>2 DEF SyncInv, LogBusy, Busy
  <1>11. ASSUME LogStop PROVE SyncInv'
    <2>1. /\ pc = "idle" /\ UNCHANGED <<file, dir, card>> /\ fp' = "log" /\ file["log"].open
          /\ pc' = "sync"
      BY <1>11 DEF LogStop
    <2>2. ~file["log"].err /\ file["log"].fsize <= file["log"].fptr /\ Settled(file["log"])
      BY <1>1, <2>1 DEF SyncInv, LogBusy, Busy
    <2>3. Settled(file["log"])' /\ file["log"].fptr = file["log"].fsize
      BY <2>1, <2>2 DEF Settled
    <2> QED BY <2>1, <2>2, <2>3 DEF SyncInv, LogBusy, Busy
  <1>12. ASSUME fp = "wr", UNCHANGED dir, \A g \in {"log", "wr"} : g # fp => file'[g] = file[g],
                fp' = "wr" \/ pc' \notin Busy
         PROVE  SyncInv'
    BY <1>3, <1>12 DEF LogBusy
  (* f_write *)
  <1>13. ASSUME fp = "log", fp' = "log", pc \in Busy, pc' \in {"write", "link", "grown"},
                ~file'["log"].err, file'["log"].fsize <= file'["log"].fptr
         PROVE  SyncInv'
    BY <1>13 DEF SyncInv, LogBusy, Busy
  <1>14. ASSUME fp = "log", pc \in Busy
         PROVE  /\ file["log"].open /\ ~file["log"].err /\ file["log"].fsize <= file["log"].fptr
                /\ file["log"].fptr \in Nat /\ file["log"].fsize \in Nat
    BY <1>0, <1>1, <1>14 DEF CallInv, SyncInv, File
  <1>15. ASSUME WriteBuffer PROVE SyncInv'
    <2> DEFINE off == file[fp].fptr % SectSize
               k == Lesser(btw, SectSize - off)
               b == Greater(file[fp].buf, off + k)
    <2>1. /\ pc = "write" /\ UNCHANGED <<pc, fp, dir>> /\ btw > 0
          /\ file' = [file EXCEPT ![fp].fptr = @ + k, ![fp].dirty = TRUE,
                                  ![fp].buf = Greater(@, off + k)]
      BY <1>15 DEF WriteBuffer
    <2>2. off \in 0 .. SectSize - 1 /\ SectSize \in Nat /\ k \in Nat
      <3>1. off \in 0 .. SectSize - 1 /\ SectSize \in Nat
        BY <1>0, DivMod, Constants DEF File
      <3> HIDE DEF off
      <3> QED BY <1>0, <2>1, <3>1 DEF Lesser
    <2> HIDE DEF off, k
    <2>3. \A g \in {"log", "wr"} : g # fp => file'[g] = file[g]
      BY <1>0, <2>1
    <2>4. CASE fp = "log"
      <3>1. /\ file'["log"].err = file["log"].err /\ file'["log"].fptr = file["log"].fptr + k
            /\ file'["log"].fsize = file["log"].fsize
        BY <1>0, <2>1, <2>4 DEF File
      <3>2. file'["log"].fsize <= file'["log"].fptr
        BY <1>14, <2>1, <2>2, <2>4, <3>1 DEF Busy
      <3> QED BY <1>13, <1>14, <2>1, <2>4, <3>1, <3>2 DEF Busy
    <2> QED BY <1>0, <1>12, <2>1, <2>3, <2>4
  <1>16. ASSUME NEW r \in File, NEW s \in Nat, Put(r, s), r.sc > 0, btw > 0, pc \in Busy,
                r.err = file[fp].err, r.fptr = file[fp].fptr, r.fsize = file[fp].fsize,
                UNCHANGED <<dir, fp>>, pc' = "write"
         PROVE  SyncInv'
    <2>1. \A g \in {"log", "wr"} : g # fp => file'[g] = file[g]
      BY <1>0, <1>16, PutKeeps
    <2>2. file'[fp].err = r.err /\ file'[fp].fsize = r.fsize
      BY <1>0, <1>16, PutKeeps
    <2>3. file'[fp].fptr >= r.fptr
      <3>1. PICK n \in 1 .. btw, sc \in 1 .. r.sc, sect \in Nat, buf \in Nat, dirty \in BOOLEAN :
                   PutAs(r, s, n, sc, sect, buf, dirty)
        BY <1>0, <1>16, PutFile
      <3>2. file'[fp].fptr = r.fptr + n
        BY <1>0, <3>1 DEF PutAs, File
      <3> QED BY <1>0, <1>16, <3>2 DEF File
    <2>4. CASE fp = "log"
      <3>1. file'["log"].fsize <= file'["log"].fptr /\ ~file'["log"].err
        <4>1. file'["log"].fptr \in Int
          BY <1>16, StepTypes, <1>1 DEF Next, TypeOK, File
        <4> QED BY <1>14, <1>16, <2>2, <2>3, <2>4, <4>1
      <3> QED BY <1>13, <1>16, <2>4, <3>1
    <2> QED BY <1>0, <1>12, <1>16, <2>1, <2>4
  <1>17. ASSUME WriteNextSector PROVE SyncInv'
    <2> DEFINE r == [file[fp] EXCEPT !.sc = SectsLeft]
    <2>1. /\ r \in File /\ r.sc > 0 /\ file[fp].sect + 1 \in Nat /\ r.err = file[fp].err
          /\ r.fptr = file[fp].fptr /\ r.fsize = file[fp].fsize /\ btw > 0
      BY <1>0, <1>17, SectsLeftIs DEF File, WriteNextSector, AtBoundary
    <2>2. Put(r, file[fp].sect + 1) /\ UNCHANGED <<dir, fp>> /\ pc' = "write" /\ pc \in Busy
      BY <1>17 DEF WriteNextSector, AtBoundary, Busy
    <2> HIDE DEF r
    <2> QED BY <1>16, <2>1, <2>2
  <1>18. ASSUME WriteGrown PROVE SyncInv'
    <2> DEFINE r == [file[fp] EXCEPT !.curr = clust, !.sc = SectsClust]
    <2>1. clust \in Clust /\ btw > 0
      BY <1>0, <1>18 DEF WriteGrown, CallInv, FilesInv
    <2>2. /\ r \in File /\ r.sc > 0 /\ clust2sect(clust) \in Nat /\ r.err = file[fp].err
          /\ r.fptr = file[fp].fptr /\ r.fsize = file[fp].fsize
      <3>1. clust \in Org /\ SectsClust \in 0 .. 255 /\ SectsClust > 0
        BY <2>1, Constants DEF Org
      <3> QED BY <1>0, <2>1, <3>1, SectsApart DEF File
    <2>3. Put(r, clust2sect(clust)) /\ UNCHANGED <<dir, fp>> /\ pc' = "write" /\ pc \in Busy
      BY <1>18 DEF WriteGrown, Busy
    <2> HIDE DEF r
    <2> QED BY <1>16, <2>1, <2>2, <2>3
  <1>19. ASSUME WriteKnownCluster \/ WriteAllocate \/ WriteLink \/ WriteFull PROVE SyncInv'
    <2>1. /\ UNCHANGED <<dir, fp>> /\ pc' \in {"write", "grown", "link"} /\ pc \in Busy
          /\ \/ UNCHANGED file
             \/ file' = [file EXCEPT ![fp].org = FirstFree]
             \/ file' = [file EXCEPT ![fp].sc = 0]
      BY <1>19 DEF WriteKnownCluster, WriteAllocate, WriteLink, WriteFull, local, AtBoundary,
                   WriteSearch, Busy
    <2>2. /\ \A g \in {"log", "wr"} : g # fp => file'[g] = file[g]
          /\ file'[fp].err = file[fp].err /\ file'[fp].fptr = file[fp].fptr
          /\ file'[fp].fsize = file[fp].fsize
      BY <1>0, <2>1 DEF File
    <2>3. CASE fp = "log"
      BY <1>13, <1>14, <2>1, <2>2, <2>3
    <2> QED BY <1>0, <1>12, <2>1, <2>2, <2>3
  <1>20. ASSUME WriteEnd PROVE SyncInv'
    <2> DEFINE n == Greater(file[fp].fsize, file[fp].fptr)
    <2>1. /\ file' = [file EXCEPT ![fp] = [file[fp] EXCEPT !.fsize = n, !.written = TRUE]]
          /\ UNCHANGED <<dir, fp>> /\ pc = "write"
          /\ pc' = IF fp = "log" THEN "sync" ELSE "cat"
      BY <1>0, <1>20 DEF WriteEnd, File
    <2> HIDE DEF n
    <2>2. /\ \A g \in {"log", "wr"} : g # fp => file'[g] = file[g]
          /\ file'[fp].err = file[fp].err /\ file'[fp].fptr = file[fp].fptr
          /\ file'[fp].fsize = n /\ file'[fp].written
      BY <1>0, <2>1 DEF File
    <2>3. CASE fp = "log"
      <3>1. n = file["log"].fptr /\ n <= n
        BY <1>14, <2>1, <2>3 DEF n, Greater, Busy
      <3> QED BY <1>14, <2>1, <2>2, <2>3, <3>1 DEF SyncInv, LogBusy, Busy
    <2>4. CASE fp = "wr"
      <3>1. pc' \notin Busy
        BY <2>1, <2>4 DEF Busy
      <3> QED BY <1>12, <2>1, <2>2, <2>4, <3>1
    <2> QED BY <1>0, <2>3, <2>4
  (* f_sync *)
  <1>21. ASSUME SyncNothing \/ SyncFlush PROVE SyncInv'
    <2>1. /\ pc' = "idle" /\ fp' = "log" /\ UNCHANGED dir /\ pc \in {"sync", "flush"}
          /\ file' = [file EXCEPT ![fp] = Left(file[fp])]
      BY <1>0, <1>21 DEF SyncNothing, SyncFlush, Return
    <2>2. \A g \in {"log", "wr"} : g # fp => file'[g] = file[g]
      BY <1>0, <2>1
    <2>3. CASE fp = "log"
      <3>1. file'["log"] = file["log"]
        BY <1>0, <1>1, <2>1, <2>3 DEF Left
      <3>2. Settled(file["log"])'
        <4>1. CASE SyncNothing
          <5>1. Settled(file["log"])
            BY <1>1, <2>3, <3>1, <4>1 DEF SyncInv, SyncNothing
          <5> QED BY <1>2, <2>1, <3>1, <5>1 DEF Settled
        <4>2. CASE SyncFlush
          <5>1. card'.dir = dir
            BY <1>0, <4>2, FlushedIs DEF SyncFlush
          <5>2. /\ ~file["log"].written /\ dir[file["log"].slot].size = file["log"].fptr
                /\ dir[file["log"].slot].org = file["log"].org
                /\ file["log"].fptr = file["log"].fsize
            BY <1>1, <2>3, <3>1, <4>2 DEF SyncInv, SyncFlush
          <5> QED BY <2>1, <3>1, <5>1, <5>2 DEF Settled
        <4> QED BY <1>21, <4>1, <4>2
      <3>3. ~file["log"].err /\ file["log"].fsize <= file["log"].fptr
        BY <1>14, <2>1, <2>3 DEF Busy
      <3> QED BY <2>1, <3>1, <3>2, <3>3 DEF SyncInv, LogBusy, Busy
    <2>4. CASE fp = "wr"
      <3>1. pc' \notin Busy
        BY <2>1 DEF Busy
      <3> QED BY <1>12, <2>1, <2>2, <2>4, <3>1
    <2> QED BY <1>0, <2>3, <2>4
  <1>22. ASSUME SyncEntry PROVE SyncInv'
    <2> DEFINE r == file[fp]
    <2>1. /\ dir' = [dir EXCEPT ![r.slot].org = r.org, ![r.slot].size = r.fsize]
          /\ file' = [file EXCEPT ![fp].dirty = FALSE, ![fp].written = FALSE]
          /\ pc = "sync" /\ pc' = "flush" /\ UNCHANGED fp
      BY <1>22 DEF SyncEntry, local
    <2>2. r.slot \in Slots /\ r.open
      BY <1>0, <2>1 DEF CallInv, EntryInv, Busy
    <2>3. \A s \in Slots : s # r.slot => dir'[s] = dir[s]
      BY <1>0, <2>1, <2>2
    <2>4. dir'[r.slot].org = r.org /\ dir'[r.slot].size = r.fsize
      BY <1>0, <2>1, <2>2 DEF Entry
    <2>5. /\ file'[fp].err = r.err /\ file'[fp].fptr = r.fptr /\ file'[fp].fsize = r.fsize
          /\ ~file'[fp].written /\ file'[fp].slot = r.slot /\ file'[fp].org = r.org
          /\ \A g \in {"log", "wr"} : g # fp => file'[g] = file[g]
      BY <1>0, <2>1 DEF File
    <2> HIDE DEF r
    <2>6. CASE fp = "log"
      <3>1. ~r.err /\ r.fsize <= r.fptr /\ r.fptr = r.fsize
        BY <1>1, <2>1, <2>2, <2>6 DEF SyncInv, r
      <3> QED BY <2>1, <2>4, <2>5, <2>6, <3>1 DEF SyncInv, LogBusy, Busy
    <2>7. CASE fp = "wr"
      <3>1. file'["log"] = file["log"]
        BY <2>5, <2>7
      <3>2. file["log"].slot # r.slot /\ file["log"].slot \in Slots
        BY <1>0, <1>1, <2>2, <2>7, <3>1 DEF EntryInv, r
      <3>3. ~LogBusy /\ ~LogBusy'
        BY <2>1, <2>7 DEF LogBusy
      <3> QED BY <1>3, <2>3, <3>1, <3>2, <3>3
    <2> QED BY <1>0, <2>6, <2>7
  (* f_mkdir, remove_chain *)
  <1>23. ASSUME MkdirAllocate \/ MkdirTable \/ MkdirSync \/ RemoveNext PROVE SyncInv'
    <2>1. UNCHANGED <<dir, file>> /\ pc \notin Busy /\ pc' \notin Busy
      BY <1>23 DEF MkdirAllocate, MkdirTable, MkdirSync, RemoveNext, Return, Busy
    <2> QED BY <1>3, <2>1 DEF LogBusy
  <1>24. ASSUME MkdirEntry PROVE SyncInv'
    <2>1. /\ dir' = [dir EXCEPT ![FreeSlot] = [name |-> DirName, org |-> clust, size |-> 0,
                                               isDir |-> TRUE]]
          /\ UNCHANGED file /\ pc' = "made" /\ pc = "entry"
      BY <1>24 DEF MkdirEntry
    <2>2. FreeSlot \in Slots /\ dir[FreeSlot].name = NoName
      BY <1>0, <2>1, FreeSlotIs, BoundAssumption DEF EntryInv
    <2>3. file["log"].slot \in Slots /\ file["log"].slot # FreeSlot
      BY <1>0, <1>1, <2>1, <2>2 DEF EntryInv
    <2>4. dir'[file["log"].slot] = dir[file["log"].slot]
      BY <1>0, <2>1, <2>3
    <2>5. UNCHANGED file /\ ~LogBusy /\ ~LogBusy'
      BY <2>1 DEF LogBusy, Busy
    <2> QED BY <1>3, <2>4, <2>5
  <1>25. ASSUME RemoveEnd PROVE SyncInv'
    <2>1. UNCHANGED dir /\ ~LogBusy /\ ~LogBusy'
      BY <1>25 DEF RemoveEnd, Return, LogBusy, Busy
    <2>2. CASE UNCHANGED file
      BY <1>3, <2>1, <2>2
    <2>3. CASE Opened("log", file["log"].slot, 0, 0)
      <3>1. file'["log"] = [Closed EXCEPT !.open = TRUE, !.slot = file["log"].slot,
                                          !.org = 0, !.fsize = 0]
        BY <1>0, <2>3 DEF Opened
      <3> QED BY <1>4, <2>1, <3>1 DEF Closed
    <2> QED BY <1>25, <2>2, <2>3 DEF RemoveEnd
  <1> QED BY <1>1, <1>5, <1>6, <1>7, <1>8, <1>9, <1>10, <1>11, <1>15, <1>17, <1>18, <1>19,
             <1>20, <1>21, <1>22, <1>23, <1>24, <1>25
          DEF Next, Command, Call, Write, Sync, Made

LEMMA SyncHolds ==
  ASSUME ~TouchesOpenLog, ~GoesOnWhenFull
  PROVE  Spec => [](BaseInv /\ SyncInv)
  <1>1. Init => BaseInv /\ SyncInv
    <2>1. Init => ~file["log"].open
      BY DEF Init, Closed
    <2> QED BY <2>1, InitIsBase DEF SyncInv
  <1>2. BaseInv /\ SyncInv /\ [Next]_vars => BaseInv' /\ SyncInv'
    <2> SUFFICES ASSUME BaseInv, SyncInv, [Next]_vars PROVE BaseInv' /\ SyncInv'
      OBVIOUS
    <2>1. BaseInv'
      BY BaseStays
    <2>2. CASE UNCHANGED vars
      <3>1. UNCHANGED <<dir, card, file, pc, fp, mishaps>>
        BY <2>2 DEF vars, window, local
      <3>2. LogBusy' = LogBusy /\ Settled(file["log"])' = Settled(file["log"])
        BY <3>1 DEF LogBusy, Settled
      <3>3. SyncInv'
        BY <3>1, <3>2 DEF SyncInv
      <3> QED BY <3>3, <2>1
    <2> QED BY <2>1, <2>2, SyncStays
  <1> QED BY <1>1, <1>2, PTL DEF Spec

(* Without resets and failures, what udp_rx_process has written and synced *)
(* is in the entry on the card when it is done (f_sync): for every number  *)
(* and size of datagrams, and whatever the commands do between them.       *)
THEOREM SyncReachesCard ==
  ASSUME ~TouchesOpenLog, ~GoesOnWhenFull
  PROVE  Spec => []SyncedIsOnCard
  <1>1. BaseInv /\ SyncInv => SyncedIsOnCard
    BY DEF SyncInv, SyncedIsOnCard, Settled, LogBusy, Busy
  <1> QED BY <1>1, SyncHolds, PTL
-----------------------------------------------------------------------------
(* Chains.  Walk is defined by recursion; what it does is derived from the *)
(* least number that does not do so.                                       *)

LEMMA WalkIs ==
  ASSUME NEW F, NEW h
  PROVE  /\ Walk(F, h)[0] = h
         /\ \A i \in 1 .. MaxClust :
              Walk(F, h)[i] = IF Walk(F, h)[i - 1] \in Clust THEN F[Walk(F, h)[i - 1]] ELSE EOC
  <1> DEFINE next(w, i) == IF i = 0 THEN h ELSE IF w[i - 1] \in Clust THEN F[w[i - 1]] ELSE EOC
             Goes(n) == \E w : w = [i \in 0 .. n |-> next(w, i)]
             T == {n \in 0 .. MaxClust : ~Goes(n)}
  <1>1. T = {}
    <2> SUFFICES ASSUME T # {} PROVE FALSE
      OBVIOUS
    <2>1. T \in SUBSET Nat
      OBVIOUS
    <2>2. PICK n \in T : \A m \in T : n <= m
      <3> HIDE DEF T
      <3> QED BY <2>1, Least
    <2>3. CASE n = 0
      <3>1. Goes(0)
        <4> DEFINE w == [i \in 0 .. 0 |-> h]
        <4>1. w = [i \in 0 .. 0 |-> next(w, i)]
          OBVIOUS
        <4> HIDE DEF w, next
        <4> QED BY <4>1
      <3> QED BY <2>2, <2>3, <3>1
    <2>4. CASE n # 0
      <3>1. n - 1 \in 0 .. MaxClust /\ n \in Nat /\ n > 0 /\ n \in 0 .. MaxClust
        BY <2>2, <2>4, Constants
      <3>2. Goes(n - 1)
        BY <2>2, <3>1
      <3>3. PICK v : v = [i \in 0 .. n - 1 |-> next(v, i)]
        BY <3>2
      <3> DEFINE w == [i \in 0 .. n |-> IF i = n THEN next(v, n) ELSE v[i]]
      <3>4. \A i \in 0 .. n : w[i] = next(w, i)
        <4> TAKE i \in 0 .. n
        <4>1. \A k \in 0 .. n - 1 : w[k] = v[k]
          BY <3>1
        <4>2. CASE i = 0
          <5>1. w[i] = v[0] /\ 0 \in 0 .. n - 1
            BY <3>1, <4>2
          <5>2. v[0] = h
            BY <3>3, <5>1
          <5> QED BY <4>2, <5>1, <5>2
        <4>3. CASE i # 0
          <5>1. i - 1 \in 0 .. n - 1
            BY <3>1, <4>3
          <5>2. w[i - 1] = v[i - 1]
            BY <4>1, <5>1
          <5>3. next(w, i) = next(v, i)
            BY <4>3, <5>2
          <5>4. i # n => i \in 0 .. n - 1
            BY <3>1
          <5>5. i # n => v[i] = next(v, i)
            BY <3>3, <5>4
          <5> QED BY <5>3, <5>5
        <4> QED BY <4>2, <4>3
      <3>5. w = [i \in 0 .. n |-> next(w, i)]
        <4> HIDE DEF next
        <4> QED BY <3>4
      <3>6. Goes(n)
        <4> HIDE DEF w, next
        <4> QED BY <3>5
      <3> QED BY <2>2, <3>6
    <2> QED BY <2>3, <2>4
  <1>2. MaxClust \in 0 .. MaxClust
    BY Constants
  <1>3. Goes(MaxClust)
    BY <1>1, <1>2
  <1>4. Walk(F, h) = CHOOSE w : w = [i \in 0 .. MaxClust |-> next(w, i)]
    BY DEF Walk
  <1>5. Walk(F, h) = [i \in 0 .. MaxClust |-> next(Walk(F, h), i)]
    <2> HIDE DEF next
    <2> QED BY <1>3, <1>4
  <1> DEFINE w == Walk(F, h)
  <1>6. \A i \in 0 .. MaxClust : w[i] = next(w, i)
    <2> HIDE DEF next, w
    <2> QED BY <1>5 DEF w
  <1> HIDE DEF w
  <1>7. w[0] = h
    BY <1>6, Constants
  <1>8. \A i \in 1 .. MaxClust : w[i] = IF w[i - 1] \in Clust THEN F[w[i - 1]] ELSE EOC
    BY <1>6, Constants
  <1> QED BY <1>7, <1>8 DEF w

LEMMA WalkBack ==
  ASSUME NEW F, NEW h, NEW i \in 1 .. MaxClust, Walk(F, h)[i] \in Clust
  PROVE  i - 1 \in 0 .. MaxClust /\ Walk(F, h)[i - 1] \in Clust /\ F[Walk(F, h)[i - 1]] = Walk(F, h)[i]
  BY WalkIs, Constants

LEMMA WalkDown ==
  ASSUME NEW F, NEW h, NEW i \in 0 .. MaxClust, Walk(F, h)[i] \in Clust, NEW j \in 0 .. i
  PROVE  Walk(F, h)[j] \in Clust
  <1> DEFINE T == {d \in 0 .. i : Walk(F, h)[i - d] \notin Clust}
  <1>1. T = {}
    <2> SUFFICES ASSUME T # {} PROVE FALSE
      OBVIOUS
    <2>1. T \in SUBSET Nat
      BY Constants
    <2>2. PICK d \in T : \A m \in T : d <= m
      <3> HIDE DEF T
      <3> QED BY <2>1, Least
    <2>3. d # 0
      <3>1. i - 0 = i
        BY Constants
      <3> QED BY <2>2, <3>1
    <2>4. d \in 0 .. i /\ Walk(F, h)[i - d] \notin Clust
      BY <2>2
    <2>5. d - 1 \in 0 .. i /\ ~(d <= d - 1) /\ i - (d - 1) \in 1 .. MaxClust
          /\ i - (d - 1) - 1 = i - d
      BY <2>3, <2>4, Constants
    <2>6. Walk(F, h)[i - (d - 1)] \in Clust
      BY <2>2, <2>5
    <2> QED BY <2>4, <2>5, <2>6, WalkBack
  <1>2. i - j \in 0 .. i /\ i - (i - j) = j
    BY Constants
  <1> QED BY <1>1, <1>2

LEMMA WalkKeeps ==
  ASSUME NEW F, NEW G, NEW h, NEW n \in 0 .. MaxClust,
         \A i \in 0 .. n - 1 : Walk(F, h)[i] \in Clust => G[Walk(F, h)[i]] = F[Walk(F, h)[i]]
  PROVE  \A i \in 0 .. n : Walk(G, h)[i] = Walk(F, h)[i]
  <1> DEFINE T == {i \in 0 .. n : Walk(G, h)[i] # Walk(F, h)[i]}
  <1>1. T = {}
    <2> SUFFICES ASSUME T # {} PROVE FALSE
      OBVIOUS
    <2>1. T \in SUBSET Nat
      BY Constants
    <2>2. PICK d \in T : \A m \in T : d <= m
      <3> HIDE DEF T
      <3> QED BY <2>1, Least
    <2>3. d \in 0 .. n /\ Walk(G, h)[d] # Walk(F, h)[d]
      BY <2>2
    <2>4. d # 0
      BY <2>3, WalkIs
    <2>5. d \in 1 .. MaxClust /\ d - 1 \in 0 .. n - 1 /\ d - 1 \in 0 .. n /\ ~(d <= d - 1)
      BY <2>3, <2>4, Constants
    <2>6. Walk(G, h)[d - 1] = Walk(F, h)[d - 1]
      BY <2>2, <2>5
    <2> QED BY <2>3, <2>5, <2>6, WalkIs
  <1> QED BY <1>1

(* Growing chains keep what they had. *)
LEMMA WalkGrows ==
  ASSUME NEW F, NEW G, \A x \in Clust : F[x] \in Clust => G[x] = F[x],
         NEW h, NEW n \in 0 .. MaxClust, Walk(F, h)[n] \in Clust
  PROVE  Walk(G, h)[n] = Walk(F, h)[n]
  <1>1. \A i \in 0 .. n - 1 : Walk(F, h)[i] \in Clust => G[Walk(F, h)[i]] = F[Walk(F, h)[i]]
    <2> TAKE i \in 0 .. n - 1
    <2>1. i + 1 \in 0 .. n /\ i + 1 \in 1 .. MaxClust /\ i + 1 - 1 = i
      BY Constants
    <2>2. Walk(F, h)[i + 1] \in Clust
      BY <2>1, WalkDown
    <2>3. Walk(F, h)[i] \in Clust /\ F[Walk(F, h)[i]] \in Clust
      BY <2>1, <2>2, WalkBack
    <2> QED BY <2>3
  <1>2. n \in 0 .. n
    BY Constants
  <1> QED BY <1>1, <1>2, WalkKeeps

(* A cluster is in one chain, and in one place of it. *)
LEMMA OnePlace ==
  ASSUME NEW F, Links(F), NEW h, NEW g, Root(F, h), Root(F, g),
         NEW i \in 0 .. MaxClust, NEW j \in 0 .. MaxClust,
         Walk(F, h)[i] = Walk(F, g)[j], Walk(F, h)[i] \in Clust
  PROVE  i = j /\ h = g
  <1> DEFINE Bad(a, b) == /\ Walk(F, h)[a] = Walk(F, g)[b] /\ Walk(F, h)[a] \in Clust
                          /\ ~(a = b /\ h = g)
             T == {a \in 0 .. MaxClust : \E b \in 0 .. MaxClust : Bad(a, b)}
  <1>1. T = {}
    <2> SUFFICES ASSUME T # {} PROVE FALSE
      OBVIOUS
    <2>1. T \in SUBSET Nat
      BY Constants
    <2>2. PICK a \in T : \A m \in T : a <= m
      <3> HIDE DEF T
      <3> QED BY <2>1, Least
    <2>3. PICK b \in 0 .. MaxClust : Bad(a, b)
      BY <2>2
    <2>4. a \in 0 .. MaxClust
      BY <2>2
    <2>5. CASE a = 0 /\ b = 0
      BY <2>3, <2>5, WalkIs
    <2>6. CASE a = 0 /\ b # 0
      <3>1. b \in 1 .. MaxClust /\ Walk(F, h)[0] = h
        BY <2>6, WalkIs, Constants
      <3>2. Walk(F, g)[b - 1] \in Clust /\ F[Walk(F, g)[b - 1]] = h /\ h \in Clust
        BY <2>3, <2>6, <3>1, WalkBack
      <3> QED BY <3>2 DEF Root
    <2>7. CASE a # 0 /\ b = 0
      <3>1. a \in 1 .. MaxClust /\ Walk(F, g)[0] = g
        BY <2>4, <2>7, WalkIs, Constants
      <3>2. Walk(F, h)[a - 1] \in Clust /\ F[Walk(F, h)[a - 1]] = g /\ g \in Clust
        BY <2>3, <2>7, <3>1, WalkBack
      <3> QED BY <3>2 DEF Root
    <2>8. CASE a # 0 /\ b # 0
      <3>1. a \in 1 .. MaxClust /\ b \in 1 .. MaxClust
        BY <2>4, <2>8, Constants
      <3>2. /\ Walk(F, h)[a - 1] \in Clust /\ F[Walk(F, h)[a - 1]] = Walk(F, h)[a]
            /\ a - 1 \in 0 .. MaxClust
        BY <2>3, <3>1, WalkBack
      <3>3. /\ Walk(F, g)[b - 1] \in Clust /\ F[Walk(F, g)[b - 1]] = Walk(F, g)[b]
            /\ b - 1 \in 0 .. MaxClust
        BY <2>3, <3>1, WalkBack
      <3>4. Walk(F, h)[a - 1] = Walk(F, g)[b - 1]
        BY <2>3, <3>2, <3>3 DEF Links
      <3>5. (a - 1 = b - 1 => a = b) /\ ~(a <= a - 1)
        BY <3>1
      <3>6. Bad(a - 1, b - 1)
        BY <2>3, <3>2, <3>4, <3>5
      <3>7. a - 1 \in T
        BY <3>2, <3>3, <3>6
      <3> QED BY <2>2, <3>5, <3>7
    <2> QED BY <2>5, <2>6, <2>7, <2>8
  <1> QED BY <1>1

(* A chain ends before it has more clusters than there are. *)
LEMMA ChainEnds ==
  ASSUME NEW F \in [Clust -> FatVal], Links(F), NEW h, Root(F, h),
         NEW i \in 0 .. MaxClust, Walk(F, h)[i] \in Clust
  PROVE  /\ i + 1 \in 1 .. MaxClust /\ Walk(F, h)[i + 1] = F[Walk(F, h)[i]]
         /\ F[Walk(F, h)[i]] \in {EOC} \cup Clust
  <1>1. i < MaxClust
    <2> SUFFICES ASSUME i = MaxClust PROVE FALSE
      BY Constants
    <2> DEFINE w == [k \in 1 .. MaxClust |-> Walk(F, h)[k]]
    <2>1. \A k \in 0 .. MaxClust : Walk(F, h)[k] \in Clust
      BY WalkDown
    <2>2. w \in [1 .. MaxClust -> Clust]
      BY <2>1, Constants
    <2>3. IsFiniteSet(1 .. MaxClust) /\ Cardinality(1 .. MaxClust) = MaxClust
      BY Constants, FS_Interval
    <2>4. Cardinality(Clust) = MaxClust - 2
      BY Constants, FS_Interval DEF Clust
    <2>5. Cardinality(Clust) < Cardinality(1 .. MaxClust)
      BY <2>3, <2>4, Constants
    <2> DEFINE N == 1 .. MaxClust
    <2>6. \E a, b \in N : a # b /\ w[a] = w[b]
      <3>1. w \in [N -> Clust] /\ IsFiniteSet(N) /\ IsFiniteSet(Clust)
            /\ Cardinality(Clust) < Cardinality(N)
        BY <2>2, <2>3, <2>5, Constants
      <3> HIDE DEF w, N
      <3> QED BY <3>1, FS_PigeonHole
    <2>7. PICK a, b \in 1 .. MaxClust : a # b /\ Walk(F, h)[a] = Walk(F, h)[b]
      BY <2>6
    <2>8. a \in 0 .. MaxClust /\ b \in 0 .. MaxClust
      BY Constants
    <2> QED BY <2>1, <2>7, <2>8, OnePlace
  <1>2. i + 1 \in 1 .. MaxClust /\ i + 1 - 1 = i
    BY <1>1, Constants
  <1>3. Walk(F, h)[i + 1] = F[Walk(F, h)[i]]
    BY <1>2, WalkIs
  <1>4. F[Walk(F, h)[i]] # 0
    <2>1. CASE i = 0
      BY <2>1, WalkIs DEF Root
    <2>2. CASE i # 0
      <3>1. i \in 1 .. MaxClust
        BY <2>2, Constants
      <3> QED BY <3>1, WalkBack DEF Links
    <2> QED BY <2>1, <2>2
  <1> QED BY <1>2, <1>3, <1>4 DEF FatVal

LEMMA GrowsKeeps ==
  ASSUME NEW F, NEW G, \A x \in Clust : F[x] \in Clust => G[x] = F[x]
  PROVE  \A h : Keeps(F, G, h)
  <1> TAKE h
  <1>1. ASSUME NEW n \in 0 .. MaxClust, Walk(F, h)[n] \in Clust
        PROVE  Walk(G, h)[n] = Walk(F, h)[n]
    BY <1>1, WalkGrows
  <1> QED BY <1>1 DEF Keeps

(* Only the link of c differs, and the chain from h does not meet it. *)
Differs(F, G, c) == \A x \in Clust : x # c => G[x] = F[x]
Avoids(F, h, c) == \A i \in 0 .. MaxClust : Walk(F, h)[i] \in Clust => Walk(F, h)[i] # c

LEMMA AvoidsKeeps ==
  ASSUME NEW F, NEW G, NEW c, Differs(F, G, c), NEW h, Avoids(F, h, c)
  PROVE  \A n \in 0 .. MaxClust : Walk(G, h)[n] = Walk(F, h)[n]
  <1> TAKE n \in 0 .. MaxClust
  <1>1. \A i \in 0 .. n - 1 : Walk(F, h)[i] \in Clust => G[Walk(F, h)[i]] = F[Walk(F, h)[i]]
    <2>1. \A i \in 0 .. n - 1 : i \in 0 .. MaxClust
      BY Constants
    <2> QED BY <2>1 DEF Differs, Avoids
  <1>2. n \in 0 .. n
    BY Constants
  <1>3. \A i \in 0 .. n : Walk(G, h)[i] = Walk(F, h)[i]
    BY <1>1, WalkKeeps
  <1> QED BY <1>2, <1>3

LEMMA Allocated ==
  ASSUME NEW F, Links(F), NEW c \in Clust, F[c] = 0,
         NEW G, G[c] = EOC,
         \A d \in Clust : d # c => G[d] = F[d]
  PROVE  /\ Links(G) /\ Root(G, c)
         /\ \A h : Root(F, h) => Root(G, h) /\ h # c /\ Keeps(F, G, h)
  <1>1. \A d \in Clust : F[d] # c
    BY DEF Links
  <1>2. \A d \in Clust : G[d] = IF d = c THEN EOC ELSE F[d]
    OBVIOUS
  <1>3. Links(G)
    BY <1>1, <1>2, Constants DEF Links
  <1>4. Root(G, c)
    BY <1>1, <1>2, Constants DEF Root
  <1>5. ASSUME NEW h, Root(F, h) PROVE Root(G, h) /\ h # c /\ Keeps(F, G, h)
    <2>1. Root(G, h) /\ h # c
      BY <1>2, <1>5, Constants DEF Root
    <2>2. \A x \in Clust : F[x] \in Clust => G[x] = F[x]
      BY <1>2, Constants
    <2>3. Keeps(F, G, h)
      BY <2>2, GrowsKeeps
    <2> QED BY <2>1, <2>3
  <1> QED BY <1>3, <1>4, <1>5

LEMMA Linked ==
  ASSUME NEW F, Links(F), NEW c \in Clust, Root(F, c),
         NEW e \in Clust, e # c, F[e] = EOC, NEW G,
         \A d \in Clust : G[d] = IF d = e THEN c ELSE F[d]
  PROVE  /\ Links(G)
         /\ \A h : Root(F, h) /\ h # c => Root(G, h) /\ Keeps(F, G, h)
  <1>1. \A d \in Clust : G[d] = IF d = e THEN c ELSE F[d]
    OBVIOUS
  <1>2. Links(G)
    BY <1>1, Constants DEF Links, Root
  <1>3. ASSUME NEW h, Root(F, h), h # c PROVE Root(G, h) /\ Keeps(F, G, h)
    <2>1. Root(G, h)
      BY <1>1, <1>3, Constants DEF Root
    <2>2. \A x \in Clust : F[x] \in Clust => G[x] = F[x]
      BY <1>1, Constants
    <2>3. Keeps(F, G, h)
      BY <2>2, GrowsKeeps
    <2> QED BY <2>1, <2>3
  <1> QED BY <1>2, <1>3

LEMMA Freed ==
  ASSUME NEW F, Links(F), NEW c \in Clust, Root(F, c),
         NEW G, \A d \in Clust : G[d] = IF d = c THEN 0 ELSE F[d]
  PROVE  /\ Links(G) /\ Root(G, F[c])
         /\ \A h : Root(F, h) /\ h # c => Root(G, h) /\ Keeps(F, G, h)
  <1>1. \A d \in Clust : G[d] = IF d = c THEN 0 ELSE F[d]
    OBVIOUS
  <1>2. Links(G)
    BY <1>1, Constants DEF Links, Root
  <1>3. Root(G, F[c])
    BY <1>1, Constants DEF Links, Root
  <1>4. ASSUME NEW h, Root(F, h), h # c PROVE Root(G, h) /\ Keeps(F, G, h)
    <2>1. Root(G, h)
      BY <1>1, <1>4, Constants DEF Root
    <2>2. ASSUME NEW i \in 0 .. MaxClust, Walk(F, h)[i] \in Clust PROVE Walk(F, h)[i] # c
      <3>1. Walk(F, c)[0] = c /\ 0 \in 0 .. MaxClust
        BY WalkIs, Constants
      <3> QED BY <1>4, <2>2, <3>1, OnePlace
    <2>3. \A n \in 0 .. MaxClust : Walk(G, h)[n] = Walk(F, h)[n]
      <3>1. Differs(F, G, c)
        BY <1>1 DEF Differs
      <3>2. Avoids(F, h, c)
        BY <2>2 DEF Avoids
      <3> QED BY <3>1, <3>2, AvoidsKeeps
    <2> QED BY <2>1, <2>3 DEF Keeps
  <1> QED BY <1>2, <1>3, <1>4

LEMMA ReachesStays ==
  ASSUME NEW F, NEW G, NEW h, Keeps(F, G, h), NEW n, Reaches(F, h, n)
  PROVE  Reaches(G, h, n)
  BY DEF Keeps, Reaches

(* The unit at the end of n is the u-th one in sector j of cluster k.      *)
LEMMA PositionIs ==
  ASSUME NEW k \in Nat, NEW j \in 0 .. SectsClust - 1, NEW u \in 1 .. SectSize,
         NEW n, n = k * ClustSize + j * SectSize + u
  PROVE  /\ n \in Nat /\ n > 0
         /\ (n - 1) \div ClustSize = k /\ ((n - 1) % ClustSize) \div SectSize = j
         /\ (n - 1) % SectSize = u - 1
         /\ (u = SectSize => n % SectSize = 0)
         /\ (u < SectSize => n % SectSize = u)
  <1>0. /\ ClustSize \in Nat \ {0} /\ SectSize \in Nat \ {0} /\ SectsClust \in Nat \ {0}
        /\ ClustSize = SectsClust * SectSize /\ j \in Nat /\ u \in Nat
    BY Constants
  <1> DEFINE v == j * SectSize + (u - 1)
             m == n - 1
  <1>1. j * SectSize \in Nat /\ j * SectSize + SectSize <= ClustSize /\ k * ClustSize \in Nat
    <2>1. SectsClust > j
      BY <1>0
    <2>2. SectsClust * SectSize >= j * SectSize + SectSize /\ j * SectSize \in Nat
      BY <1>0, <2>1, Product
    <2>3. k * ClustSize \in Nat
      BY <1>0
    <2> QED BY <1>0, <2>2, <2>3
  <1>2. v \in 0 .. ClustSize - 1 /\ m = k * ClustSize + v /\ n \in Nat /\ n > 0 /\ m \in Int
    <2> DEFINE a == j * SectSize
               b == k * ClustSize
    <2>1. a \in Nat /\ a + SectSize <= ClustSize /\ b \in Nat /\ n = b + a + u
      BY <1>1
    <2> HIDE DEF a, b
    <2>2. a + (u - 1) \in 0 .. ClustSize - 1 /\ n - 1 = b + (a + (u - 1)) /\ n \in Nat /\ n > 0
      BY <1>0, <2>1
    <2> QED BY <2>2 DEF a, b
  <1>3. m \div ClustSize = k /\ m % ClustSize = v
    <2> HIDE DEF m, v
    <2> QED BY <1>0, <1>2, DivIs
  <1>4. v \div SectSize = j /\ v % SectSize = u - 1
    <2>1. u - 1 \in 0 .. SectSize - 1 /\ v = j * SectSize + (u - 1) /\ v \in Int
      BY <1>0, <1>2
    <2> HIDE DEF v
    <2> QED BY <1>0, <2>1, DivIs
  <1> DEFINE q == k * SectsClust + j
  <1>5. q \in Nat /\ n = q * SectSize + u /\ n = (q + 1) * SectSize + (u - SectSize)
        /\ m = q * SectSize + (u - 1)
    <2>1. k * SectsClust \in Nat
      BY <1>0
    <2>2. k * ClustSize = (k * SectsClust) * SectSize
      BY <1>0
    <2> DEFINE a == k * SectsClust
    <2>3. (a + j) * SectSize = a * SectSize + j * SectSize
          /\ (a + j + 1) * SectSize = a * SectSize + j * SectSize + SectSize
          /\ a * SectSize \in Nat /\ j * SectSize \in Nat /\ a + j \in Nat
      <3>1. a \in Nat
        BY <2>1
      <3> HIDE DEF a
      <3> QED BY <1>0, <3>1
    <2>4. n = a * SectSize + j * SectSize + u
      BY <2>2
    <2> HIDE DEF a
    <2>5. (a + j) * SectSize \in Nat /\ (a + j + 1) * SectSize \in Nat
      BY <1>0, <2>3
    <2>6. n = (a + j) * SectSize + u /\ n = (a + j + 1) * SectSize + (u - SectSize)
          /\ n - 1 = (a + j) * SectSize + (u - 1)
      <3> DEFINE x == (a + j) * SectSize
                 y == (a + j + 1) * SectSize
                 z == a * SectSize + j * SectSize
      <3>1. x = z /\ y = z + SectSize /\ n = z + u /\ x \in Nat /\ y \in Nat
        BY <2>3, <2>4, <2>5
      <3> HIDE DEF x, y, z
      <3>2. n = x + u /\ n = y + (u - SectSize) /\ n - 1 = x + (u - 1)
        BY <1>0, <3>1
      <3> QED BY <3>2 DEF x, y
    <2> QED BY <2>3, <2>6 DEF a
  <1> HIDE DEF q
  <1>6. m % SectSize = u - 1
    <2>1. u - 1 \in 0 .. SectSize - 1
      BY <1>0
    <2>2. m \in Int /\ q \in Nat /\ m = q * SectSize + (u - 1) /\ SectSize \in Nat \ {0}
      BY <1>0, <1>2, <1>5
    <2>3. PICK d \in 0 .. SectSize - 1 : d = u - 1
      BY <2>1
    <2> HIDE DEF m
    <2>4. m = q * SectSize + d
      BY <2>2, <2>3
    <2>5. PICK e \in Int : e = m
      BY <2>2
    <2>6. e = q * SectSize + d
      BY <2>4, <2>5
    <2>7. e % SectSize = d
      BY <2>2, <2>6, DivIs
    <2> QED BY <2>3, <2>5, <2>7
  <1>7. ASSUME u < SectSize PROVE n % SectSize = u
    <2>1. PICK d \in 0 .. SectSize - 1 : d = u
      BY <1>0, <1>7
    <2>2. PICK e \in Int : e = n
      BY <1>5
    <2>3. q \in Nat /\ e = q * SectSize + d /\ SectSize \in Nat \ {0}
      BY <1>0, <1>2, <1>5, <2>1, <2>2
    <2>4. e % SectSize = d
      BY <2>3, DivIs
    <2> QED BY <2>1, <2>2, <2>4
  <1>8. ASSUME u = SectSize PROVE n % SectSize = 0
    <2>1. PICK e \in Int : e = n
      BY <1>5
    <2>2. PICK p \in Nat : p = q + 1
      BY <1>2, <1>5
    <2>3. e = p * SectSize + 0
      BY <1>5, <1>8, <2>1, <2>2
    <2>4. 0 \in 0 .. SectSize - 1 /\ SectSize \in Nat \ {0}
      BY <1>0
    <2>5. e % SectSize = 0
      BY <2>3, <2>4, DivIs
    <2> QED BY <2>1, <2>5
  <1>9. (n - 1) \div ClustSize = k /\ ((n - 1) % ClustSize) \div SectSize = j
        /\ (n - 1) % SectSize = u - 1
    BY <1>3, <1>4, <1>6
  <1> QED BY <1>2, <1>7, <1>8, <1>9
-----------------------------------------------------------------------------
(* Chains and their owners *)

(* What a step that is no reset does to the FAT. *)
FatStep ==
  /\ Links(fat')
  /\ \A h : Root(fat, h) /\ ~(Held /\ h = clust) => Root(fat', h) /\ Keeps(fat, fat', h)

LEMMA FatSame ==
  ASSUME Links(fat), UNCHANGED fat
  PROVE  FatStep
  BY DEF FatStep, Keeps, Links, Root

LEMMA FatChanges ==
  ASSUME Command \/ Call \/ DiskFails
  PROVE  \/ UNCHANGED fat
         \/ RemoveNext \/ WriteAllocate \/ WriteLink \/ (MkdirAllocate /\ Free # {})
  <1>1. ASSUME Command PROVE UNCHANGED fat
    BY <1>1 DEF Command, LogOpen, CatOpen, Unlink, LogWrite, CatWrite, CatRead, LogStop,
                CatClose, Mkdir
  <1>2. ASSUME DiskFails PROVE UNCHANGED fat
    BY <1>2 DEF DiskFails, ChainFails, DataFails, SyncFails, RemoveFails, MkdirFails,
                TableFails, Fails
  <1>3. ASSUME WriteBuffer \/ WriteNextSector \/ WriteKnownCluster \/ WriteGrown \/ WriteFull
               \/ WriteEnd
        PROVE  UNCHANGED fat
    BY <1>3 DEF WriteBuffer, WriteNextSector, WriteKnownCluster, WriteGrown, WriteFull, WriteEnd
  <1>4. ASSUME Sync \/ RemoveEnd \/ MkdirTable \/ MkdirEntry \/ MkdirSync PROVE UNCHANGED fat
    BY <1>4 DEF Sync, SyncNothing, SyncEntry, SyncFlush, RemoveEnd, MkdirTable, MkdirEntry,
                MkdirSync
  <1>5. ASSUME MkdirAllocate PROVE UNCHANGED fat \/ Free # {}
    BY <1>5 DEF MkdirAllocate
  <1> QED BY <1>1, <1>2, <1>3, <1>4, <1>5 DEF Call, Write, Made

LEMMA RemoveNextIs ==
  ASSUME TypeOK, Links(fat), OwnInv, RemoveNext
  PROVE  /\ clust \in Clust /\ Held /\ fat' = [fat EXCEPT ![clust] = 0] /\ clust' = fat[clust]
         /\ FatStep /\ Root(fat', clust')
         /\ UNCHANGED <<dir, file, pc, fp, after>>
  <1>1. /\ clust \in Clust /\ Held /\ fat' = [fat EXCEPT ![clust] = 0] /\ clust' = fat[clust]
        /\ UNCHANGED <<dir, file, pc, fp, after>>
    BY DEF RemoveNext, Held
  <1>2. \A d \in Clust : fat'[d] = IF d = clust THEN 0 ELSE fat[d]
    BY <1>1 DEF TypeOK
  <1>3. Root(fat, clust)
    BY <1>1 DEF OwnInv
  <1>4. /\ Links(fat') /\ Root(fat', fat[clust])
        /\ \A h : Root(fat, h) /\ h # clust => Root(fat', h) /\ Keeps(fat, fat', h)
    BY <1>1, <1>2, <1>3, Freed
  <1> QED BY <1>1, <1>4 DEF FatStep

LEMMA AllocatedIs ==
  ASSUME TypeOK, Links(fat), Free # {}, fat' = [fat EXCEPT ![FirstFree] = EOC]
  PROVE  /\ FatStep /\ Root(fat', FirstFree) /\ FirstFree \in Clust
         /\ fat'[FirstFree] = EOC /\ \A h : Root(fat, h) => h # FirstFree
  <1>1. PICK c \in Clust : c = FirstFree /\ fat[c] = 0
    BY FirstFreeIs
  <1>2. fat' = [fat EXCEPT ![c] = EOC]
    BY <1>1
  <1>3. fat'[c] = EOC /\ \A d \in Clust : d # c => fat'[d] = fat[d]
    BY <1>2 DEF TypeOK
  <1>4. /\ Links(fat') /\ Root(fat', c)
        /\ \A h : Root(fat, h) => Root(fat', h) /\ h # c /\ Keeps(fat, fat', h)
    BY <1>1, <1>3, Allocated
  <1> QED BY <1>1, <1>3, <1>4 DEF FatStep

LEMMA PlaceOf ==
  ASSUME BaseInv, ChainInv, NEW f \in OpenFiles, file[f].fptr > 0
  PROVE  \E k \in 0 .. MaxClust, j \in 0 .. SectsClust - 1, u \in 1 .. SectSize :
           Placed(fat, file[f], k, j, u) /\ file[f].curr \in Clust
  BY DEF ChainInv, PlaceInv, FilePlaced, OpenFiles, BaseInv, FilesInv, Positioned

LEMMA LinkIs ==
  ASSUME BaseInv, ChainInv, WriteLink
  PROVE  /\ fp \in OpenFiles /\ file[fp].curr \in Clust /\ clust \in Clust /\ Held
         /\ file[fp].curr # clust /\ fat[file[fp].curr] = EOC
         /\ fat' = [fat EXCEPT ![file[fp].curr] = clust]
         /\ UNCHANGED <<dir, file, fp, clust, btw>> /\ pc = "link" /\ pc' = "grown"
         /\ FatStep
  <1>1. /\ pc = "link" /\ fat' = [fat EXCEPT ![file[fp].curr] = clust] /\ pc' = "grown"
        /\ UNCHANGED <<dir, file, fp, clust, btw>>
    BY DEF WriteLink, local
  <1>2. /\ fp \in OpenFiles /\ clust \in Clust /\ file[fp].fptr > 0 /\ file[fp].curr \in Clust
    BY <1>1 DEF BaseInv, TypeOK, CallInv, FilesInv, Positioned, OpenFiles, Busy
  <1>3. Held /\ Root(fat, clust) /\ file[fp].org # clust /\ Root(fat, file[fp].org) /\ Links(fat)
    BY <1>1, <1>2 DEF Held, ChainInv, OwnInv, SoundInv, Sound
  <1>4. file[fp].curr # clust
    <2>1. PICK k \in 0 .. MaxClust : Walk(fat, file[fp].org)[k] = file[fp].curr
      BY <1>2, PlaceOf DEF Placed
    <2>2. Walk(fat, clust)[0] = clust /\ 0 \in 0 .. MaxClust
      BY WalkIs, Constants
    <2> QED BY <1>2, <1>3, <2>1, <2>2, OnePlace
  <1>5. fat[file[fp].curr] = EOC
    BY <1>1 DEF ChainInv, PlaceInv
  <1>6. \A d \in Clust : fat'[d] = IF d = file[fp].curr THEN clust ELSE fat[d]
    BY <1>1 DEF BaseInv, TypeOK
  <1>7. /\ Links(fat')
        /\ \A h : Root(fat, h) /\ h # clust => Root(fat', h) /\ Keeps(fat, fat', h)
    BY <1>2, <1>3, <1>4, <1>5, <1>6, Linked
  <1> QED BY <1>1, <1>2, <1>3, <1>4, <1>5, <1>7 DEF FatStep

LEMMA FatSteps ==
  ASSUME BaseInv, ChainInv, Command \/ Call \/ DiskFails
  PROVE  FatStep
  <1>0. TypeOK /\ Links(fat) /\ OwnInv
    BY DEF BaseInv, ChainInv, SoundInv, Sound
  <1>1. CASE UNCHANGED fat
    BY <1>0, <1>1, FatSame
  <1>2. CASE RemoveNext
    BY <1>0, <1>2, RemoveNextIs
  <1>3. CASE WriteAllocate
    BY <1>0, <1>3, AllocatedIs DEF WriteAllocate
  <1>4. CASE WriteLink
    BY <1>4, LinkIs
  <1>5. CASE MkdirAllocate /\ Free # {}
    BY <1>0, <1>5, AllocatedIs DEF MkdirAllocate
  <1> QED BY <1>1, <1>2, <1>3, <1>4, <1>5, FatChanges

LEMMA SoundEntry ==
  ASSUME NEW F, NEW D, NEW E, Sound(F, D), NEW s \in Slots,
         \A t \in Slots : t # s => E[t].org = D[t].org /\ E[t].size = D[t].size,
         Root(F, E[s].org), Reaches(F, E[s].org, E[s].size),
         \A t \in Slots : t # s /\ D[t].org = E[s].org => D[t].org = 0
  PROVE  Sound(F, E)
  <1>1. Links(F)
    BY DEF Sound
  <1>2. \A t \in Slots : Root(F, E[t].org) /\ Reaches(F, E[t].org, E[t].size)
    BY DEF Sound
  <1>3. \A t, u \in Slots : E[t].org = E[u].org => t = u \/ E[t].org = 0
    BY DEF Sound
  <1> QED BY <1>1, <1>2, <1>3 DEF Sound

LEMMA SoundEmptied ==
  ASSUME NEW F, NEW D, NEW E, Sound(F, D), NEW s \in Slots,
         \A t \in Slots : t # s => E[t].org = D[t].org /\ E[t].size = D[t].size,
         E[s].org = 0, E[s].size = 0
  PROVE  Sound(F, E)
  <1>1. Root(F, E[s].org) /\ Reaches(F, E[s].org, E[s].size)
    BY Constants DEF Root, Reaches
  <1>2. \A t \in Slots : t # s /\ D[t].org = E[s].org => D[t].org = 0
    OBVIOUS
  <1> QED BY <1>1, <1>2, SoundEntry

LEMMA SoundFat ==
  ASSUME NEW F, NEW G, NEW D, Sound(F, D), Links(G),
         \A s \in Slots : Root(G, D[s].org) /\ Keeps(F, G, D[s].org)
  PROVE  Sound(G, D)
  <1>1. ASSUME NEW s \in Slots PROVE Reaches(G, D[s].org, D[s].size)
    <2>1. Keeps(F, G, D[s].org) /\ Reaches(F, D[s].org, D[s].size)
      BY DEF Sound
    <2> QED BY <2>1, ReachesStays
  <1> QED BY <1>1 DEF Sound

(* Which steps change an entry, and how. *)
LEMMA DirChanges ==
  ASSUME BaseInv, Command \/ Call \/ DiskFails
  PROVE  \/ UNCHANGED dir
         \/ /\ UNCHANGED fat
            /\ \E s \in Slots :
                 /\ \A t \in Slots : t # s => dir'[t] = dir[t]
                 /\ \/ /\ dir'[s].org = 0 /\ dir'[s].size = 0 /\ dir'[s].isDir = FALSE
                       /\ \A f \in OpenFiles : file[f].slot = s => TouchesOpenLog
                    \/ /\ SyncEntry /\ s = file[fp].slot /\ fp \in OpenFiles
                       /\ dir'[s].org = file[fp].org /\ dir'[s].size = file[fp].fsize
                       /\ dir'[s].isDir = FALSE
                    \/ /\ MkdirEntry /\ Held /\ s = FreeSlot /\ dir[s].name = NoName
                       /\ dir'[s].org = clust /\ dir'[s].size = 0 /\ dir'[s].isDir
  <1>0. /\ TypeOK /\ Coherent /\ NamesInv /\ CallInv /\ FilesInv /\ EntryInv /\ Names(dir)
        /\ fp \in {"log", "wr"} /\ file[fp] \in File
        /\ file \in [{"log", "wr"} -> File] /\ dir \in [Slots -> Entry]
    BY DEF BaseInv, NamesInv, TypeOK
  <1>1. ASSUME NEW f \in {"log", "wr"}, NEW n \in Name, Create(f, n), UNCHANGED fat
        PROVE  \E s \in Slots :
                 /\ \A t \in Slots : t # s => dir'[t] = dir[t]
                 /\ dir'[s].org = 0 /\ dir'[s].size = 0 /\ dir'[s].isDir = FALSE
                 /\ \A g \in OpenFiles : file[g].slot # s
    <2>1. /\ FreeSlot \in Slots /\ dir[FreeSlot].name = NoName
          /\ \A s \in Slots : dir'[s] =
               IF s = FreeSlot THEN [Empty EXCEPT !.name = n] ELSE dir[s]
      BY <1>0, <1>1, CreateIs
    <2>2. dir'[FreeSlot].org = 0 /\ dir'[FreeSlot].size = 0 /\ dir'[FreeSlot].isDir = FALSE
      BY <2>1 DEF Empty
    <2>3. \A g \in OpenFiles : file[g].slot # FreeSlot
      BY <1>0, <2>1 DEF OpenFiles, EntryInv
    <2> QED BY <2>1, <2>2, <2>3
  <1>2. ASSUME pc = "idle" PROVE ~file["wr"].open
    BY <1>0, <1>2 DEF CallInv, Busy
  <1>3. ASSUME NEW n \in Name, LogOpen(n)
        PROVE  /\ UNCHANGED fat
               /\ \E s \in Slots :
                    /\ \A t \in Slots : t # s => dir'[t] = dir[t]
                    /\ dir'[s].org = 0 /\ dir'[s].size = 0 /\ dir'[s].isDir = FALSE
                    /\ \A f \in OpenFiles : file[f].slot # s
    <2>1. pc = "idle" /\ UNCHANGED fat /\ ~file["log"].open /\ ~file["wr"].open
      BY <1>2, <1>3 DEF LogOpen
    <2>2. ASSUME NEW s \in Slots, ~dir[s].isDir, dir' = [dir EXCEPT ![s].org = 0, ![s].size = 0]
          PROVE  /\ \A t \in Slots : t # s => dir'[t] = dir[t]
                 /\ dir'[s].org = 0 /\ dir'[s].size = 0 /\ dir'[s].isDir = FALSE
                 /\ \A f \in OpenFiles : file[f].slot # s
      <3>1. dir[s] \in Entry /\ dir'[s] = [[dir[s] EXCEPT !.org = 0] EXCEPT !.size = 0]
        BY <1>0, <2>2
      <3>2. dir'[s].org = 0 /\ dir'[s].size = 0 /\ dir'[s].isDir = FALSE
        BY <2>2, <3>1 DEF Entry
      <3> QED BY <1>0, <2>1, <2>2, <3>2 DEF OpenFiles
    <2>3. CASE Create("log", n)
      BY <1>1, <2>1, <2>3
    <2> QED BY <1>3, <2>1, <2>2, <2>3 DEF LogOpen
  <1>4. ASSUME NEW n \in Name, CatOpen(n)
        PROVE  /\ UNCHANGED fat
               /\ \/ UNCHANGED dir
                  \/ \E s \in Slots :
                       /\ \A t \in Slots : t # s => dir'[t] = dir[t]
                       /\ dir'[s].org = 0 /\ dir'[s].size = 0 /\ dir'[s].isDir = FALSE
                       /\ \A f \in OpenFiles : file[f].slot # s
    BY <1>1, <1>4 DEF CatOpen
  <1>5. ASSUME NEW n \in Name, Unlink(n)
        PROVE  /\ UNCHANGED fat
               /\ \E s \in Slots :
                    /\ \A t \in Slots : t # s => dir'[t] = dir[t]
                    /\ dir'[s].org = 0 /\ dir'[s].size = 0 /\ dir'[s].isDir = FALSE
                    /\ \A f \in OpenFiles : file[f].slot = s => TouchesOpenLog
    <2>1. PICK s \in Slots : dir[s].name = n /\ dir' = [dir EXCEPT ![s] = Empty]
      BY <1>5 DEF Unlink
    <2>2. \A t \in Slots : dir'[t] = IF t = s THEN Empty ELSE dir[t]
      BY <1>0, <2>1
    <2>3. UNCHANGED fat /\ pc = "idle" /\ MayTouch(n)
      BY <1>5 DEF Unlink
    <2>4. \A f \in OpenFiles : file[f].slot = s => TouchesOpenLog
      BY <1>2, <2>1, <2>3 DEF OpenFiles, MayTouch
    <2>5. dir'[s].org = 0 /\ dir'[s].size = 0 /\ dir'[s].isDir = FALSE
      BY <2>2 DEF Empty
    <2> QED BY <2>2, <2>3, <2>4, <2>5
  <1>6. ASSUME SyncEntry
        PROVE  /\ UNCHANGED fat
               /\ \E s \in Slots :
                    /\ \A t \in Slots : t # s => dir'[t] = dir[t]
                    /\ SyncEntry /\ s = file[fp].slot /\ fp \in OpenFiles
                    /\ dir'[s].org = file[fp].org /\ dir'[s].size = file[fp].fsize
                    /\ dir'[s].isDir = FALSE
    <2> DEFINE s == file[fp].slot
    <2>1. /\ UNCHANGED fat /\ pc = "sync"
          /\ dir' = [dir EXCEPT ![s].org = file[fp].org, ![s].size = file[fp].fsize]
      BY <1>6 DEF SyncEntry
    <2>2. file[fp].open
      BY <1>0, <2>1 DEF CallInv, Busy
    <2>3. fp \in OpenFiles /\ s \in Slots /\ ~dir[s].isDir
      BY <1>0, <2>2 DEF EntryInv, OpenFiles
    <2>4. \A t \in Slots : t # s => dir'[t] = dir[t]
      BY <1>0, <2>1
    <2>5. /\ dir[s] \in Entry
          /\ dir'[s] = [[dir[s] EXCEPT !.org = file[fp].org] EXCEPT !.size = file[fp].fsize]
      BY <1>0, <2>1, <2>3
    <2>6. /\ dir'[s].org = file[fp].org /\ dir'[s].size = file[fp].fsize
          /\ dir'[s].isDir = FALSE
      BY <2>3, <2>5 DEF Entry
    <2> HIDE DEF s
    <2> QED BY <1>6, <2>1, <2>3, <2>4, <2>6 DEF s
  <1>7. ASSUME MkdirEntry
        PROVE  /\ UNCHANGED fat
               /\ \E s \in Slots :
                    /\ \A t \in Slots : t # s => dir'[t] = dir[t]
                    /\ MkdirEntry /\ Held /\ s = FreeSlot /\ dir[s].name = NoName
                    /\ dir'[s].org = clust /\ dir'[s].size = 0 /\ dir'[s].isDir
    <2> DEFINE e == [name |-> DirName, org |-> clust, size |-> 0, isDir |-> TRUE]
    <2>1. /\ UNCHANGED fat /\ pc = "entry" /\ dir' = [dir EXCEPT ![FreeSlot] = e]
      BY <1>7 DEF MkdirEntry
    <2>2. FreeSlot \in Slots /\ dir[FreeSlot].name = NoName
      BY <1>0, <2>1, FreeSlotIs, BoundAssumption DEF EntryInv
    <2>3. Held
      BY <1>0, <2>1 DEF CallInv, Held
    <2>4. e.org = clust /\ e.size = 0 /\ e.isDir
      OBVIOUS
    <2> HIDE DEF e
    <2>5. \A t \in Slots : dir'[t] = IF t = FreeSlot THEN e ELSE dir[t]
      BY <1>0, <2>1, <2>2
    <2> QED BY <1>7, <2>1, <2>2, <2>3, <2>4, <2>5
  <1>8. ASSUME NEW k, LogWrite(k) \/ CatWrite(k) \/ CatRead(k) PROVE UNCHANGED dir
    BY <1>8 DEF LogWrite, CatWrite, CatRead
  <1>9. ASSUME LogStop \/ CatClose \/ Mkdir PROVE UNCHANGED dir
    BY <1>9 DEF LogStop, CatClose, Mkdir
  <1>10. ASSUME Write PROVE UNCHANGED dir
    BY <1>10 DEF Write, WriteBuffer, WriteNextSector, WriteKnownCluster,
                 WriteAllocate, WriteLink, WriteGrown, WriteFull, WriteEnd
  <1>11. ASSUME SyncNothing \/ SyncFlush \/ RemoveNext \/ RemoveEnd PROVE UNCHANGED dir
    BY <1>11 DEF SyncNothing, SyncFlush, RemoveNext, RemoveEnd
  <1>12. ASSUME MkdirAllocate \/ MkdirTable \/ MkdirSync PROVE UNCHANGED dir
    BY <1>12 DEF MkdirAllocate, MkdirTable, MkdirSync
  <1>13. ASSUME DiskFails PROVE UNCHANGED dir
    BY <1>13 DEF DiskFails, ChainFails, DataFails, SyncFails, RemoveFails, MkdirFails,
                 TableFails, Fails
  <1> QED BY <1>3, <1>4, <1>5, <1>6, <1>7, <1>8, <1>9, <1>10, <1>11, <1>12, <1>13
          DEF Command, Call, Sync, Made

LEMMA SoundStays ==
  ASSUME BaseInv, ChainInv, Next
  PROVE  SoundInv'
  <1>0. Sound(fat, dir) /\ Sound(card.fat, card.dir) /\ OwnInv /\ PlaceInv /\ Links(fat)
    BY DEF ChainInv, SoundInv, Sound
  <1>1. CASE Reset
    <2>1. fat' = card.fat /\ dir' = card.dir /\ card'.fat = card.fat /\ card'.dir = card.dir
      BY <1>1, ResetTypes DEF Reset
    <2> QED BY <1>0, <2>1 DEF SoundInv
  <1>2. CASE Command \/ Call \/ DiskFails
    <2>1. Sound(card'.fat, card'.dir)
      <3>1. \/ card'.fat = card.fat /\ card'.dir = card.dir
            \/ card'.fat = fat /\ card'.dir = dir
        BY <1>2, StepTypes DEF WindowStep, CardMoves
      <3> QED BY <1>0, <3>1
    <2>2. CASE UNCHANGED dir
      <3>1. FatStep
        BY <1>2, FatSteps
      <3>2. \A s \in Slots : Root(fat, dir[s].org) /\ ~(Held /\ dir[s].org = clust)
        BY <1>0 DEF Sound, OwnInv
      <3>3. Links(fat') /\ \A s \in Slots : Root(fat', dir[s].org) /\ Keeps(fat, fat', dir[s].org)
        BY <3>1, <3>2 DEF FatStep
      <3>4. Sound(fat', dir)
        BY <1>0, <3>3, SoundFat
      <3> QED BY <2>1, <2>2, <3>4 DEF SoundInv
    <2>3. CASE ~UNCHANGED dir
      <3>1. UNCHANGED fat
        BY <1>2, <2>3, DirChanges
      <3>2. PICK s \in Slots :
                 /\ \A t \in Slots : t # s => dir'[t] = dir[t]
                 /\ \/ /\ dir'[s].org = 0 /\ dir'[s].size = 0
                    \/ /\ s = file[fp].slot /\ fp \in OpenFiles
                       /\ dir'[s].org = file[fp].org /\ dir'[s].size = file[fp].fsize
                    \/ /\ Held /\ dir'[s].org = clust /\ dir'[s].size = 0
        BY <1>2, <2>3, DirChanges
      <3>3. \A t \in Slots : t # s => dir'[t].org = dir[t].org /\ dir'[t].size = dir[t].size
        BY <3>2
      <3>4. CASE dir'[s].org = 0 /\ dir'[s].size = 0
        <4>1. Sound(fat, dir')
          BY <1>0, <3>3, <3>4, SoundEmptied
        <4> QED BY <2>1, <3>1, <4>1 DEF SoundInv
      <3>5. CASE /\ s = file[fp].slot /\ fp \in OpenFiles
                 /\ dir'[s].org = file[fp].org /\ dir'[s].size = file[fp].fsize
        <4>1. Root(fat, dir'[s].org) /\ Reaches(fat, dir'[s].org, dir'[s].size)
          BY <1>0, <3>5 DEF OwnInv, PlaceInv, FilePlaced
        <4>2. \A t \in Slots : t # s /\ dir[t].org = dir'[s].org => dir[t].org = 0
          BY <1>0, <3>5 DEF OwnInv
        <4>3. Sound(fat, dir')
          BY <1>0, <3>3, <4>1, <4>2, SoundEntry
        <4> QED BY <2>1, <3>1, <4>3 DEF SoundInv
      <3>6. CASE Held /\ dir'[s].org = clust /\ dir'[s].size = 0
        <4>1. Root(fat, dir'[s].org) /\ Reaches(fat, dir'[s].org, dir'[s].size)
          BY <1>0, <3>6 DEF OwnInv, Reaches
        <4>2. \A t \in Slots : t # s /\ dir[t].org = dir'[s].org => dir[t].org = 0
          BY <1>0, <3>6 DEF OwnInv
        <4>3. Sound(fat, dir')
          BY <1>0, <3>3, <4>1, <4>2, SoundEntry
        <4> QED BY <2>1, <3>1, <4>3 DEF SoundInv
      <3> QED BY <3>2, <3>4, <3>5, <3>6
    <2> QED BY <2>2, <2>3
  <1> QED BY <1>1, <1>2 DEF Next

(* Most steps open no file and leave the chains of those that are open, or *)
(* mark the one of the log as missing; and they take no cluster.           *)
SameFiles ==
  \A f \in {"log", "wr"} : file'[f].open =>
    /\ file[f].open /\ file'[f].slot = file[f].slot
    /\ file'[f].org = file[f].org \/ (f = "log" /\ file[f].org = 0 /\ file'[f].org = 1)

SameHeld == Held' => Held /\ clust' = clust /\ (pc' # "free" => pc # "free")

LEMMA SameFilesIs ==
  ASSUME BaseInv,
         \/ (\E k : LogWrite(k) \/ CatWrite(k) \/ CatRead(k)) \/ LogStop \/ CatClose \/ Mkdir
         \/ WriteBuffer \/ WriteNextSector \/ WriteKnownCluster \/ WriteGrown \/ WriteFull
         \/ WriteEnd \/ Sync \/ (RemoveEnd /\ after = "unlink")
         \/ (MkdirAllocate /\ Free = {}) \/ MkdirTable \/ MkdirEntry \/ MkdirSync \/ DiskFails
  PROVE  SameFiles /\ SameHeld /\ UNCHANGED fat
  <1>0. /\ TypeOK /\ CallInv /\ FilesInv /\ fp \in {"log", "wr"} /\ file[fp] \in File
        /\ ~Closed.open /\ file \in [{"log", "wr"} -> File]
    BY DEF BaseInv, TypeOK, Closed
  <1>1. ASSUME UNCHANGED file PROVE SameFiles
    BY <1>1 DEF SameFiles
  <1>2. ASSUME \A f \in {"log", "wr"} : /\ file'[f].open = file[f].open
                                        /\ file'[f].slot = file[f].slot
                                        /\ file'[f].org = file[f].org
        PROVE  SameFiles
    BY <1>2 DEF SameFiles
  <1>3. ASSUME pc' \notin {"free", "link", "table", "entry"} PROVE SameHeld
    BY <1>3 DEF SameHeld, Held
  <1>4. ASSUME NEW k, LogWrite(k) \/ CatWrite(k) \/ CatRead(k)
        PROVE  SameFiles /\ SameHeld /\ UNCHANGED fat
    <2>1. UNCHANGED <<fat, file>> /\ pc' \in {"write", "sync", "cat"}
      BY <1>4 DEF LogWrite, CatWrite, CatRead
    <2> QED BY <1>1, <1>3, <2>1
  <1>5. ASSUME LogStop \/ CatClose \/ Mkdir PROVE SameFiles /\ SameHeld /\ UNCHANGED fat
    <2>1. UNCHANGED <<fat, file>> /\ pc' \in {"sync", "mkdir"}
      BY <1>5 DEF LogStop, CatClose, Mkdir
    <2> QED BY <1>1, <1>3, <2>1
  <1>6. ASSUME WriteBuffer \/ WriteFull \/ WriteEnd
        PROVE  SameFiles /\ SameHeld /\ UNCHANGED fat
    <2>1. UNCHANGED fat /\ pc' \in {"write", "sync", "cat"}
      BY <1>6 DEF WriteBuffer, WriteFull, WriteEnd, WriteSearch, AtBoundary
    <2>2. \A f \in {"log", "wr"} : /\ file'[f].open = file[f].open /\ file'[f].slot = file[f].slot
                                   /\ file'[f].org = file[f].org
      BY <1>0, <1>6 DEF WriteBuffer, WriteFull, WriteEnd, File
    <2> QED BY <1>2, <1>3, <2>1, <2>2
  <1>7. ASSUME NEW r \in File, NEW s \in Nat, Put(r, s), r.sc > 0, btw > 0,
               r.open = file[fp].open, r.slot = file[fp].slot, r.org = file[fp].org,
               UNCHANGED fat, pc' = "write"
        PROVE  SameFiles /\ SameHeld /\ UNCHANGED fat
    <2>1. /\ file'[fp].open = r.open /\ file'[fp].slot = r.slot /\ file'[fp].org = r.org
          /\ \A g \in {"log", "wr"} : g # fp => file'[g] = file[g]
      BY <1>0, <1>7, PutKeeps
    <2>2. \A f \in {"log", "wr"} : /\ file'[f].open = file[f].open /\ file'[f].slot = file[f].slot
                                   /\ file'[f].org = file[f].org
      BY <1>7, <2>1
    <2> QED BY <1>2, <1>3, <1>7, <2>2
  <1>8. ASSUME WriteNextSector PROVE SameFiles /\ SameHeld /\ UNCHANGED fat
    <2> DEFINE r == [file[fp] EXCEPT !.sc = SectsLeft]
    <2>1. /\ r \in File /\ r.sc > 0 /\ file[fp].sect + 1 \in Nat /\ r.open = file[fp].open
          /\ r.slot = file[fp].slot /\ r.org = file[fp].org /\ btw > 0
      BY <1>0, <1>8, SectsLeftIs DEF File, WriteNextSector, AtBoundary
    <2>2. Put(r, file[fp].sect + 1) /\ UNCHANGED fat /\ pc' = "write"
      BY <1>8 DEF WriteNextSector, AtBoundary
    <2> HIDE DEF r
    <2> QED BY <1>7, <2>1, <2>2
  <1>9. ASSUME WriteGrown PROVE SameFiles /\ SameHeld /\ UNCHANGED fat
    <2> DEFINE r == [file[fp] EXCEPT !.curr = clust, !.sc = SectsClust]
    <2>1. clust \in Clust /\ btw > 0
      BY <1>0, <1>9 DEF WriteGrown, CallInv, FilesInv
    <2>2. /\ r \in File /\ r.sc > 0 /\ clust2sect(clust) \in Nat /\ r.open = file[fp].open
          /\ r.slot = file[fp].slot /\ r.org = file[fp].org
      <3>1. clust \in Org /\ SectsClust \in 0 .. 255 /\ SectsClust > 0
        BY <2>1, Constants DEF Org
      <3> QED BY <1>0, <2>1, <3>1, SectsApart DEF File
    <2>3. Put(r, clust2sect(clust)) /\ UNCHANGED fat /\ pc' = "write"
      BY <1>9 DEF WriteGrown
    <2> HIDE DEF r
    <2> QED BY <1>7, <2>1, <2>2, <2>3
  <1>10. ASSUME WriteKnownCluster \/ (RemoveEnd /\ after = "unlink") \/ (MkdirAllocate /\ Free = {})
                \/ MkdirEntry \/ MkdirSync
         PROVE  SameFiles /\ SameHeld /\ UNCHANGED fat
    <2>1. UNCHANGED <<fat, file>> /\ pc' \in {"grown", "idle", "made"}
      BY <1>10 DEF WriteKnownCluster, RemoveEnd, MkdirAllocate, MkdirEntry, MkdirSync, Return
    <2> QED BY <1>1, <1>3, <2>1
  <1>11. ASSUME MkdirTable PROVE SameFiles /\ SameHeld /\ UNCHANGED fat
    <2>1. UNCHANGED <<fat, file, clust>> /\ pc' = "entry" /\ pc = "table"
      BY <1>11 DEF MkdirTable, local
    <2>2. SameHeld
      BY <2>1 DEF SameHeld, Held
    <2> QED BY <1>1, <2>1, <2>2
  <1>12. ASSUME SyncNothing \/ SyncFlush \/ SyncFails PROVE SameFiles /\ SameHeld /\ UNCHANGED fat
    <2>1. /\ UNCHANGED fat /\ pc' = "idle"
          /\ \/ file' = [file EXCEPT ![fp] = Left(file[fp])]
             \/ file' = [file EXCEPT ![fp] = Left([file[fp] EXCEPT !.dirty = FALSE])]
      BY <1>0, <1>12 DEF SyncNothing, SyncFlush, SyncFails, Return, Fails
    <2>2. SameFiles
      <3> DEFINE r == [file[fp] EXCEPT !.dirty = FALSE]
      <3>1. r.open = file[fp].open /\ r.slot = file[fp].slot /\ r.org = file[fp].org
        BY <1>0 DEF File
      <3> HIDE DEF r
      <3>2. file'[fp] \in {Closed, file[fp], r} /\ \A g \in {"log", "wr"} : g # fp => file'[g] = file[g]
        BY <1>0, <2>1 DEF Left, r
      <3> QED BY <1>0, <3>1, <3>2 DEF SameFiles
    <2>3. UNCHANGED fat /\ pc' = "idle"
      BY <2>1
    <2> QED BY <1>3, <2>2, <2>3
  <1>13. ASSUME SyncEntry PROVE SameFiles /\ SameHeld /\ UNCHANGED fat
    <2>1. /\ file' = [file EXCEPT ![fp].dirty = FALSE, ![fp].written = FALSE] /\ pc' = "flush"
          /\ UNCHANGED fat
      BY <1>13 DEF SyncEntry
    <2>2. \A f \in {"log", "wr"} : /\ file'[f].open = file[f].open /\ file'[f].slot = file[f].slot
                                   /\ file'[f].org = file[f].org
      BY <1>0, <2>1 DEF File
    <2>3. pc' = "flush" /\ UNCHANGED fat
      BY <2>1
    <2> QED BY <1>2, <1>3, <2>2, <2>3
  <1>14. ASSUME RemoveFails \/ MkdirFails \/ TableFails PROVE SameFiles /\ SameHeld /\ UNCHANGED fat
    <2>1. UNCHANGED fat /\ pc' = "idle" /\ \A f \in {"log", "wr"} : file'[f].open => file'[f] = file[f]
      BY <1>0, <1>14 DEF RemoveFails, MkdirFails, TableFails, Return, Fails
    <2> QED BY <1>3, <2>1 DEF SameFiles
  <1>15. ASSUME ChainFails \/ DataFails PROVE SameFiles /\ SameHeld /\ UNCHANGED fat
    <2>1. PICK org \in {1} \cup Org, dirty \in BOOLEAN, sect \in Nat :
           /\ WriteError([file[fp] EXCEPT !.org = org, !.dirty = dirty, !.sect = sect])
           /\ org = file[fp].org \/ (org = 1 /\ file[fp].org = 0)
      BY <1>0, <1>15, ErrorIs
    <2> DEFINE r == [file[fp] EXCEPT !.org = org, !.dirty = dirty, !.sect = sect]
               q == [r EXCEPT !.err = TRUE]
    <2>2. r.open = file[fp].open /\ r.slot = file[fp].slot /\ r.org = org /\ r \in File
      BY <1>0 DEF File
    <2> HIDE DEF r
    <2>3. q.open = file[fp].open /\ q.slot = file[fp].slot /\ q.org = org
      BY <2>2 DEF File
    <2> HIDE DEF q
    <2>4. \/ fp = "log" /\ file' = [file EXCEPT !["log"] = q] /\ pc' = "sync"
          \/ fp = "wr" /\ file' = [file EXCEPT !["wr"] = Closed] /\ pc' = "idle"
      BY <1>0, <2>1 DEF WriteError, Return, r, q
    <2>5. SameFiles
      BY <1>0, <2>1, <2>3, <2>4 DEF SameFiles
    <2>6. UNCHANGED fat
      BY <1>15 DEF ChainFails, DataFails, Fails
    <2> QED BY <1>3, <2>4, <2>5, <2>6
  <1> QED BY <1>4, <1>5, <1>6, <1>8, <1>9, <1>10, <1>11, <1>12, <1>13, <1>14, <1>15
          DEF Sync, DiskFails

LEMMA OwnStays ==
  ASSUME BaseInv, ChainInv, ~TouchesOpenLog, Next
  PROVE  OwnInv'
  <1>0. /\ TypeOK /\ Coherent /\ NamesInv /\ CallInv /\ FilesInv /\ EntryInv /\ Names(dir)
        /\ fp \in {"log", "wr"} /\ file[fp] \in File /\ ~Closed.open
        /\ file \in [{"log", "wr"} -> File] /\ dir \in [Slots -> Entry]
        /\ OwnInv /\ Sound(fat, dir) /\ Links(fat)
    BY DEF BaseInv, NamesInv, TypeOK, Closed, ChainInv, SoundInv, Sound
  <1>1. /\ Root(fat, 0) /\ Root(fat, 1) /\ Root(fat', 0) /\ Root(fat', 1)
        /\ 0 \notin Clust /\ 1 \notin Clust
    BY Constants DEF Root
  <1>2. ASSUME pc \notin Busy \cup {"cat"} PROVE ~file["wr"].open
    BY <1>0, <1>2 DEF CallInv
  (* Nothing of the files' own changes, nor the directory. *)
  <1>3. ASSUME SameFiles, SameHeld, UNCHANGED <<fat, dir>> PROVE OwnInv'
    <2>1. \A f \in OpenFiles' : /\ Root(fat, file'[f].org)
                                /\ dir[file'[f].slot].org \in {0, file'[f].org}
                                /\ \A s \in Slots : dir[s].org = file'[f].org =>
                                     s = file'[f].slot \/ dir[s].org = 0
      <3> SUFFICES ASSUME NEW f \in OpenFiles'
                   PROVE  /\ Root(fat, file'[f].org)
                          /\ dir[file'[f].slot].org \in {0, file'[f].org}
                          /\ \A s \in Slots : dir[s].org = file'[f].org =>
                               s = file'[f].slot \/ dir[s].org = 0
        OBVIOUS
      <3>1. /\ f \in OpenFiles /\ file'[f].slot = file[f].slot
            /\ \/ file'[f].org = file[f].org
               \/ file[f].org = 0 /\ file'[f].org = 1
        BY <1>3 DEF SameFiles, OpenFiles
      <3>2. \A s \in Slots : dir[s].org # 1
        BY <1>0, <1>1, Constants DEF Entry, Org
      <3> QED BY <1>0, <1>1, <3>1, <3>2 DEF OwnInv
    <2>2. \A f, g \in OpenFiles' : file'[f].org = file'[g].org => f = g \/ file'[f].org = 0
      <3>1. ~file["wr"].open \/ file["wr"].org # 1
        BY <1>0 DEF FilesInv, Positioned
      <3>2. \A f \in OpenFiles' :
              /\ f \in OpenFiles /\ f \in {"log", "wr"}
              /\ file'[f].org = file[f].org \/ (f = "log" /\ file[f].org = 0 /\ file'[f].org = 1)
        BY <1>3 DEF SameFiles, OpenFiles
      <3> QED BY <1>0, <3>1, <3>2 DEF OwnInv, OpenFiles
    <2>3. Held' => /\ Root(fat, clust') /\ (pc' # "free" => fat[clust'] = EOC)
                   /\ \A s \in Slots : dir[s].org # clust'
                   /\ \A f \in OpenFiles' : file'[f].org # clust'
      <3> SUFFICES ASSUME Held'
                   PROVE  /\ Root(fat, clust') /\ (pc' # "free" => fat[clust'] = EOC)
                          /\ \A s \in Slots : dir[s].org # clust'
                          /\ \A f \in OpenFiles' : file'[f].org # clust'
        OBVIOUS
      <3>1. Held /\ clust' = clust /\ (pc' # "free" => pc # "free") /\ clust \in Clust
        BY <1>3 DEF SameHeld, Held
      <3>2. \A f \in OpenFiles' : f \in OpenFiles
                                  /\ (file'[f].org = file[f].org \/ file'[f].org = 1)
        BY <1>3 DEF SameFiles, OpenFiles
      <3>3. clust # 1
        BY <1>1, <3>1
      <3> QED BY <1>0, <3>1, <3>2, <3>3 DEF OwnInv
    <2> QED BY <1>3, <2>1, <2>2, <2>3 DEF OwnInv
  (* A file is opened: it has the chain of its entry. *)
  <1>4. ASSUME NEW f \in {"log", "wr"}, NEW s \in Slots, file'[f].slot = s,
               \A g \in {"log", "wr"} : g # f => file'[g] = file[g],
               \A g \in OpenFiles : g # f => file[g].slot # s,
               file'[f].org = dir'[s].org, dir'[s].org \in {0, dir[s].org},
               \A t \in Slots : t # s => dir'[t] = dir[t], UNCHANGED fat, ~Held'
        PROVE  OwnInv'
    <2>1. \A t \in Slots : dir'[t].org \in {0, dir[t].org}
      BY <1>4
    <2>2. \A t \in Slots \ {s} : dir[t].org = dir[s].org => dir[t].org = 0
      BY <1>0 DEF Sound
    <2>3. \A g \in OpenFiles' : g # f => g \in OpenFiles /\ g \in {"log", "wr"} /\ file'[g] = file[g]
                                         /\ file[g].slot # s /\ file[g].slot \in Slots
      BY <1>0, <1>4 DEF OpenFiles, EntryInv
    <2>4. /\ Root(fat, file'[f].org)
          /\ \A t \in Slots : dir'[t].org = file'[f].org => t = s \/ dir'[t].org = 0
      BY <1>0, <1>1, <1>4, <2>2 DEF Sound
    <2>5. \A g \in OpenFiles' \ {f} : file[g].org = file'[f].org => file[g].org = 0
      BY <1>0, <1>4, <2>3 DEF OwnInv
    <2>6. \A g \in OpenFiles' \ {f} : /\ Root(fat, file'[g].org)
                                      /\ dir'[file'[g].slot].org \in {0, file'[g].org}
                                      /\ \A t \in Slots : dir'[t].org = file'[g].org =>
                                           t = file'[g].slot \/ dir'[t].org = 0
      <3> TAKE g \in OpenFiles' \ {f}
      <3>1. /\ g \in OpenFiles /\ file'[g] = file[g] /\ file[g].slot \in Slots \ {s}
        BY <2>3
      <3>2. dir'[file[g].slot] = dir[file[g].slot]
        BY <1>4, <3>1
      <3> QED BY <1>0, <2>1, <3>1, <3>2 DEF OwnInv
    <2>7. \A g, h \in OpenFiles' : file'[g].org = file'[h].org => g = h \/ file'[g].org = 0
      <3> TAKE g, h \in OpenFiles'
      <3>1. CASE g # f /\ h # f
        BY <1>0, <2>3, <3>1 DEF OwnInv
      <3>2. CASE g = f /\ h # f
        BY <2>3, <2>5, <3>2
      <3>3. CASE g # f /\ h = f
        BY <2>3, <2>5, <3>3
      <3> QED BY <3>1, <3>2, <3>3
    <2> QED BY <1>4, <2>4, <2>6, <2>7 DEF OwnInv
  <1>5. ASSUME NEW f \in {"log", "wr"}, NEW n \in Name, Create(f, n), UNCHANGED fat,
               pc' \in {"idle", "cat"}
        PROVE  OwnInv'
    <2>1. /\ FreeSlot \in Slots /\ dir[FreeSlot].name = NoName
          /\ \A s \in Slots : dir'[s] =
               IF s = FreeSlot THEN [Empty EXCEPT !.name = n] ELSE dir[s]
          /\ \A g \in {"log", "wr"} : g # f => file'[g] = file[g]
          /\ file'[f] = [Closed EXCEPT !.open = TRUE, !.slot = FreeSlot, !.org = 0, !.fsize = 0]
      BY <1>0, <1>5, CreateIs
    <2>2. file'[f].slot = FreeSlot /\ file'[f].org = 0 /\ dir'[FreeSlot].org = 0
      BY <2>1 DEF Closed, Empty
    <2>3. \A g \in OpenFiles : file[g].slot # FreeSlot
      BY <1>0, <2>1 DEF OpenFiles, EntryInv
    <2>4. ~Held'
      BY <1>5 DEF Held
    <2>5. /\ \A t \in Slots : t # FreeSlot => dir'[t] = dir[t]
          /\ \A g \in {"log", "wr"} : g # f => file'[g] = file[g]
          /\ \A g \in OpenFiles : g # f => file[g].slot # FreeSlot
      BY <2>1, <2>3
    <2>6. FreeSlot \in Slots /\ file'[f].org = dir'[FreeSlot].org
          /\ dir'[FreeSlot].org \in {0, dir[FreeSlot].org}
      BY <2>1, <2>2
    <2>7. PICK s \in Slots : s = FreeSlot
      BY <2>6
    <2> HIDE <1>0
    <2> QED BY <1>4, <1>5, <2>2, <2>4, <2>5, <2>6, <2>7
  <1>6. ASSUME NEW s \in Slots, dir'[s].org = 0, \A t \in Slots : t # s => dir'[t] = dir[t],
               \A f \in OpenFiles' : f \in OpenFiles /\ file'[f] = file[f] /\ file[f].slot # s,
               UNCHANGED fat, pc' = "free", clust' = dir[s].org
        PROVE  OwnInv'
    <2>1. \A t \in Slots : dir'[t].org \in {0, dir[t].org}
      BY <1>6
    <2>2. \A f \in OpenFiles' : /\ Root(fat, file'[f].org)
                                /\ dir'[file'[f].slot].org \in {0, file'[f].org}
                                /\ \A t \in Slots : dir'[t].org = file'[f].org =>
                                     t = file'[f].slot \/ dir'[t].org = 0
      <3> TAKE f \in OpenFiles'
      <3>1. f \in OpenFiles /\ file'[f] = file[f] /\ file[f].slot \in Slots \ {s}
        BY <1>0, <1>6 DEF OpenFiles, EntryInv
      <3>2. dir'[file[f].slot] = dir[file[f].slot]
        BY <1>6, <3>1
      <3> QED BY <1>0, <2>1, <3>1, <3>2 DEF OwnInv
    <2>3. \A f, g \in OpenFiles' : file'[f].org = file'[g].org => f = g \/ file'[f].org = 0
      BY <1>0, <1>6 DEF OwnInv
    <2>4. Held' => /\ Root(fat, clust')
                   /\ \A t \in Slots : dir'[t].org # clust'
                   /\ \A f \in OpenFiles' : file'[f].org # clust'
      <3> SUFFICES ASSUME clust' \in Clust
                   PROVE  /\ Root(fat, clust')
                          /\ \A t \in Slots : dir'[t].org # clust'
                          /\ \A f \in OpenFiles' : file'[f].org # clust'
        BY DEF Held
      <3>1. dir[s].org \in Clust /\ clust' = dir[s].org /\ dir[s].org # 0
        BY <1>1, <1>6
      <3>2. Root(fat, clust') /\ \A t \in Slots : dir'[t].org # clust'
        BY <1>0, <1>6, <3>1 DEF Sound
      <3>3. \A f \in OpenFiles' : file[f].org # dir[s].org
        BY <1>0, <1>6, <3>1 DEF OwnInv
      <3> QED BY <1>6, <3>1, <3>2, <3>3
    <2> QED BY <1>6, <2>2, <2>3, <2>4 DEF OwnInv
  <1>7. ASSUME NEW n \in Name, LogOpen(n) PROVE OwnInv'
    <2>0. pc = "idle" /\ UNCHANGED fat /\ ~file["log"].open /\ ~file["wr"].open
      BY <1>2, <1>7 DEF LogOpen, Busy
    <2>1. CASE Create("log", n) /\ UNCHANGED pc
      BY <1>5, <2>0, <2>1
    <2>2. ASSUME NEW s \in Slots, dir' = [dir EXCEPT ![s].org = 0, ![s].size = 0],
                 file' = [file EXCEPT !["log"].slot = s], pc' = "free", clust' = dir[s].org
          PROVE  OwnInv'
      <3>1. ~file'["log"].open /\ ~file'["wr"].open
        BY <1>0, <2>0, <2>2 DEF File
      <3>2. /\ dir[s] \in Entry /\ \A t \in Slots : t # s => dir'[t] = dir[t]
            /\ dir'[s] = [[dir[s] EXCEPT !.org = 0] EXCEPT !.size = 0]
        BY <1>0, <2>2
      <3>3. dir'[s].org = 0
        BY <3>2 DEF Entry
      <3>4. OpenFiles' = {}
        BY <3>1 DEF OpenFiles
      <3> QED BY <1>6, <2>0, <2>2, <3>2, <3>3, <3>4
    <2> QED BY <1>7, <2>1, <2>2 DEF LogOpen
  <1>8. ASSUME NEW n \in Name, CatOpen(n) PROVE OwnInv'
    <2>0. /\ pc = "idle" /\ UNCHANGED fat /\ ~file["wr"].open /\ pc' = "cat"
          /\ ~(file["log"].open /\ dir[file["log"].slot].name = n)
      BY <1>2, <1>8 DEF CatOpen, Busy, MayTouch
    <2>1. CASE Create("wr", n)
      BY <1>5, <2>0, <2>1
    <2>2. ASSUME NEW s \in Slots, dir[s].name = n, UNCHANGED dir,
                 Opened("wr", s, dir[s].org, dir[s].size)
          PROVE  OwnInv'
      <3>1. file'["log"] = file["log"] /\ file'["wr"].slot = s /\ file'["wr"].org = dir[s].org
        BY <1>0, <2>2 DEF Opened, Closed
      <3>2. \A g \in OpenFiles : g # "wr" => file[g].slot # s
        BY <2>0, <2>2 DEF OpenFiles
      <3>3. ~Held'
        BY <2>0 DEF Held
      <3>4. \A g \in {"log", "wr"} : g # "wr" => file'[g] = file[g]
        BY <3>1
      <3> HIDE <1>0
      <3> QED BY <1>4, <2>0, <2>2, <3>1, <3>2, <3>3, <3>4
    <2> QED BY <1>8, <2>1, <2>2 DEF CatOpen
  <1>9. ASSUME NEW n \in Name, Unlink(n) PROVE OwnInv'
    <2>0. /\ pc = "idle" /\ ~file["wr"].open /\ UNCHANGED <<fat, file>> /\ pc' = "free"
          /\ ~(file["log"].open /\ dir[file["log"].slot].name = n)
      BY <1>2, <1>9 DEF Unlink, Busy, MayTouch
    <2>1. PICK s \in Slots : /\ dir[s].name = n /\ dir' = [dir EXCEPT ![s] = Empty]
                             /\ clust' = dir[s].org
      BY <1>9 DEF Unlink
    <2>2. dir'[s].org = 0 /\ \A t \in Slots : t # s => dir'[t] = dir[t]
      BY <1>0, <2>1 DEF Empty
    <2>3. \A f \in OpenFiles' : f \in OpenFiles /\ file'[f] = file[f] /\ file[f].slot # s
      BY <2>0, <2>1 DEF OpenFiles
    <2> QED BY <1>6, <2>0, <2>1, <2>2, <2>3
  <1>10. ASSUME RemoveEnd, after # "unlink" PROVE OwnInv'
    <2>1. /\ UNCHANGED <<fat, dir>> /\ pc' = "idle" /\ pc = "free" /\ ~file["wr"].open
          /\ after = "open" /\ Opened("log", file["log"].slot, 0, 0)
      BY <1>2, <1>10 DEF RemoveEnd, Return, Busy
    <2>2. /\ file["log"].slot \in Slots /\ dir[file["log"].slot].org = 0
      BY <1>0, <2>1 DEF EntryInv
    <2>3. /\ file'["wr"] = file["wr"] /\ file'["log"].slot = file["log"].slot
          /\ file'["log"].org = 0
      BY <1>0, <2>1 DEF Opened, Closed
    <2>4. \A g \in OpenFiles : g # "log" => file[g].slot # file["log"].slot
      BY <2>1 DEF OpenFiles
    <2>5. ~Held'
      BY <2>1 DEF Held
    <2>6. \A g \in {"log", "wr"} : g # "log" => file'[g] = file[g]
      BY <2>3
    <2> QED BY <1>4, <2>1, <2>2, <2>3, <2>4, <2>5, <2>6
  <1>11. ASSUME SyncEntry PROVE OwnInv'
    <2> DEFINE s == file[fp].slot
    <2>1. /\ UNCHANGED fat /\ pc = "sync" /\ pc' = "flush" /\ file[fp].written
          /\ file' = [file EXCEPT ![fp].dirty = FALSE, ![fp].written = FALSE]
          /\ dir' = [dir EXCEPT ![s].org = file[fp].org, ![s].size = file[fp].fsize]
      BY <1>11 DEF SyncEntry
    <2>2. fp \in OpenFiles /\ s \in Slots
      BY <1>0, <2>1 DEF CallInv, Busy, OpenFiles, EntryInv
    <2>3. \A f \in {"log", "wr"} : /\ file'[f].open = file[f].open /\ file'[f].slot = file[f].slot
                                   /\ file'[f].org = file[f].org
      BY <1>0, <2>1 DEF File
    <2>4. \A t \in Slots : t # s => dir'[t] = dir[t]
      BY <1>0, <2>1
    <2>5. /\ dir[s] \in Entry
          /\ dir'[s] = [[dir[s] EXCEPT !.org = file[fp].org] EXCEPT !.size = file[fp].fsize]
      BY <1>0, <2>1, <2>2
    <2>6. dir'[s].org = file[fp].org
      BY <2>5 DEF Entry
    <2>7. OpenFiles' = OpenFiles
      BY <2>3 DEF OpenFiles
    <2>8. \A f \in OpenFiles : f \in {"log", "wr"} /\ file[f].slot \in Slots /\ (f # fp => file[f].slot # s)
      BY <1>0, <2>2 DEF EntryInv, OpenFiles
    <2> HIDE DEF s
    <2>9. ~Held'
      BY <2>1 DEF Held
    <2>10. \A f \in OpenFiles : /\ Root(fat, file[f].org)
                                /\ dir'[file[f].slot].org \in {0, file[f].org}
                                /\ \A t \in Slots : dir'[t].org = file[f].org =>
                                     t = file[f].slot \/ dir'[t].org = 0
      <3> TAKE f \in OpenFiles
      <3>1. CASE f = fp
        BY <1>0, <2>2, <2>4, <2>6, <3>1 DEF OwnInv, s
      <3>2. CASE f # fp
        <4>1. dir'[file[f].slot] = dir[file[f].slot]
          BY <2>4, <2>8, <3>2
        <4>2. file[fp].org = file[f].org => file[fp].org = 0
          BY <1>0, <2>2, <3>2 DEF OwnInv
        <4> QED BY <1>0, <2>2, <2>4, <2>6, <4>1, <4>2 DEF OwnInv
      <3> QED BY <3>1, <3>2
    <2>11. \A f \in OpenFiles : file'[f].org = file[f].org /\ file'[f].slot = file[f].slot
      BY <2>3, <2>8
    <2>12. \A f, g \in OpenFiles : file[f].org = file[g].org => f = g \/ file[f].org = 0
      BY <1>0 DEF OwnInv
    <2>13. \A f \in OpenFiles' : /\ Root(fat, file'[f].org)
                                 /\ dir'[file'[f].slot].org \in {0, file'[f].org}
                                 /\ \A t \in Slots : dir'[t].org = file'[f].org =>
                                      t = file'[f].slot \/ dir'[t].org = 0
      BY <2>7, <2>10, <2>11
    <2>14. \A f, g \in OpenFiles' : file'[f].org = file'[g].org => f = g \/ file'[f].org = 0
      BY <2>7, <2>11, <2>12
    <2>15. UNCHANGED fat
      BY <2>1
    <2> QED BY <2>9, <2>13, <2>14, <2>15 DEF OwnInv
  <1>12. ASSUME MkdirEntry PROVE OwnInv'
    <2> DEFINE e == [name |-> DirName, org |-> clust, size |-> 0, isDir |-> TRUE]
    <2>1. /\ UNCHANGED <<fat, file>> /\ pc = "entry" /\ pc' = "made"
          /\ dir' = [dir EXCEPT ![FreeSlot] = e]
      BY <1>12 DEF MkdirEntry
    <2>2. FreeSlot \in Slots /\ dir[FreeSlot].name = NoName
      BY <1>0, <2>1, FreeSlotIs, BoundAssumption DEF EntryInv
    <2>3. Held /\ ~Held' /\ OpenFiles' = OpenFiles
      BY <1>0, <2>1 DEF CallInv, Held, OpenFiles
    <2>4. e.org = clust
      OBVIOUS
    <2> HIDE DEF e
    <2>5. \A t \in Slots : dir'[t].org = IF t = FreeSlot THEN clust ELSE dir[t].org
      BY <1>0, <2>1, <2>2, <2>4
    <2>6. \A f \in OpenFiles : file[f].slot \in Slots /\ file[f].slot # FreeSlot
      BY <1>0, <2>2 DEF OpenFiles, EntryInv
    <2> QED BY <1>0, <2>1, <2>3, <2>5, <2>6 DEF OwnInv
  (* The FAT changes. *)
  <1>13. ASSUME FatStep, UNCHANGED dir, OpenFiles' = OpenFiles,
                \A f \in OpenFiles : file'[f] = file[f],
                Held' => /\ Root(fat', clust') /\ (pc' # "free" => fat'[clust'] = EOC)
                         /\ \A s \in Slots : dir[s].org # clust'
                         /\ \A f \in OpenFiles : file[f].org # clust'
         PROVE  OwnInv'
    <2>1. \A f \in OpenFiles : Root(fat', file[f].org)
      BY <1>0, <1>13 DEF FatStep, OwnInv
    <2> QED BY <1>0, <1>13, <2>1 DEF OwnInv
  <1>14. ASSUME RemoveNext PROVE OwnInv'
    <2>1. /\ clust \in Clust /\ FatStep /\ Root(fat', clust') /\ clust' = fat[clust]
          /\ UNCHANGED <<dir, file, pc>> /\ pc = "free"
      BY <1>0, <1>14, RemoveNextIs DEF RemoveNext
    <2>2. \A s \in Slots : Root(fat, dir[s].org) /\ \A f \in OpenFiles : Root(fat, file[f].org)
      BY <1>0 DEF Sound, OwnInv
    <2>3. clust' \in Clust => /\ \A s \in Slots : dir[s].org # clust'
                              /\ \A f \in OpenFiles : file[f].org # clust'
      BY <1>0, <2>1, <2>2 DEF Root, Sound, OwnInv
    <2>4. OpenFiles' = OpenFiles /\ \A f \in OpenFiles : file'[f] = file[f]
      BY <2>1 DEF OpenFiles
    <2> QED BY <1>13, <2>1, <2>3, <2>4 DEF Held
  <1>15. ASSUME WriteLink PROVE OwnInv'
    <2>1. FatStep /\ UNCHANGED <<dir, file>> /\ pc' = "grown"
      BY <1>15, LinkIs
    <2>2. OpenFiles' = OpenFiles /\ (\A f \in OpenFiles : file'[f] = file[f]) /\ ~Held'
      BY <2>1 DEF OpenFiles, Held
    <2> QED BY <1>13, <2>1, <2>2
  <1>16. ASSUME Free # {}, fat' = [fat EXCEPT ![FirstFree] = EOC], UNCHANGED <<dir, file>>,
                clust' = FirstFree
         PROVE  OwnInv'
    <2>1. /\ FatStep /\ Root(fat', FirstFree) /\ FirstFree \in Clust
          /\ fat'[FirstFree] = EOC /\ \A h : Root(fat, h) => h # FirstFree
      BY <1>0, <1>16, AllocatedIs
    <2>2. /\ \A s \in Slots : dir[s].org # FirstFree
          /\ \A f \in OpenFiles : file[f].org # FirstFree
      BY <1>0, <2>1 DEF Sound, OwnInv
    <2>3. OpenFiles' = OpenFiles /\ \A f \in OpenFiles : file'[f] = file[f]
      BY <1>16 DEF OpenFiles
    <2> QED BY <1>13, <1>16, <2>1, <2>2, <2>3
  <1>17. ASSUME WriteAllocate PROVE OwnInv'
    <2>1. /\ Free # {} /\ fat' = [fat EXCEPT ![FirstFree] = EOC] /\ UNCHANGED dir
          /\ clust' = FirstFree /\ pc = "write" /\ WriteSearch
      BY <1>17 DEF WriteAllocate, WriteSearch, AtBoundary
    <2>2. CASE UNCHANGED file
      BY <1>16, <2>1, <2>2
    <2>3. CASE ~Chained /\ pc' = "grown" /\ file' = [file EXCEPT ![fp].org = FirstFree]
      <3>1. /\ FatStep /\ Root(fat', FirstFree) /\ FirstFree \in Clust
            /\ \A h : Root(fat, h) => h # FirstFree
        BY <1>0, <2>1, AllocatedIs
      <3>2. fp \in OpenFiles /\ file[fp].org = 0
        BY <1>0, <2>1, <2>3 DEF CallInv, Busy, OpenFiles, WriteSearch
      <3>3. /\ \A f \in {"log", "wr"} : /\ file'[f].open = file[f].open
                                        /\ file'[f].slot = file[f].slot
                                        /\ file'[f].org = IF f = fp THEN FirstFree ELSE file[f].org
            /\ OpenFiles' = OpenFiles
        BY <1>0, <2>3 DEF File, OpenFiles
      <3>4. \A s \in Slots : dir[s].org # FirstFree
        BY <1>0, <3>1 DEF Sound
      <3>5. \A f \in OpenFiles : /\ Root(fat', file[f].org) /\ file[f].org # FirstFree
                                 /\ f \in {"log", "wr"}
        BY <1>0, <3>1 DEF FatStep, OwnInv, OpenFiles
      <3>6. ~Held'
        BY <2>3 DEF Held
      <3>7. \A f \in OpenFiles : /\ Root(fat', file'[f].org)
                                 /\ dir[file'[f].slot].org \in {0, file'[f].org}
                                 /\ \A t \in Slots : dir[t].org = file'[f].org =>
                                      t = file'[f].slot \/ dir[t].org = 0
        <4> TAKE f \in OpenFiles
        <4>1. CASE f = fp
          BY <1>0, <3>1, <3>2, <3>3, <3>4, <4>1 DEF OwnInv
        <4>2. CASE f # fp
          BY <1>0, <3>3, <3>5, <4>2 DEF OwnInv
        <4> QED BY <4>1, <4>2
      <3>8. \A f, g \in OpenFiles : file'[f].org = file'[g].org => f = g \/ file'[f].org = 0
        BY <1>0, <3>3, <3>5 DEF OwnInv
      <3> QED BY <2>1, <3>3, <3>6, <3>7, <3>8 DEF OwnInv
    <2> QED BY <1>17, <2>2, <2>3 DEF WriteAllocate
  <1>18. ASSUME MkdirAllocate, Free # {} PROVE OwnInv'
    BY <1>16, <1>18 DEF MkdirAllocate
  <1>19. ASSUME Reset PROVE OwnInv'
    <2>1. OpenFiles' = {} /\ ~Held'
      BY <1>0, <1>19 DEF Reset, Return, OpenFiles, Held
    <2> QED BY <2>1 DEF OwnInv
  <1>20. ASSUME \/ (\E k : LogWrite(k) \/ CatWrite(k) \/ CatRead(k)) \/ LogStop \/ CatClose \/ Mkdir
                \/ WriteBuffer \/ WriteNextSector \/ WriteKnownCluster \/ WriteGrown \/ WriteFull
                \/ WriteEnd \/ SyncNothing \/ SyncFlush \/ (RemoveEnd /\ after = "unlink")
                \/ (MkdirAllocate /\ Free = {}) \/ MkdirTable \/ MkdirSync \/ DiskFails
         PROVE  OwnInv'
    <2>1. SameFiles /\ SameHeld /\ UNCHANGED fat
      BY <1>20, SameFilesIs DEF Sync
    <2>2. CASE \/ (\E k : LogWrite(k) \/ CatWrite(k) \/ CatRead(k)) \/ LogStop \/ CatClose \/ Mkdir
               \/ WriteBuffer \/ WriteNextSector \/ WriteKnownCluster \/ WriteGrown
      BY <1>3, <2>1, <2>2 DEF LogWrite, CatWrite, CatRead, LogStop, CatClose, Mkdir, WriteBuffer,
                              WriteNextSector, WriteKnownCluster, WriteGrown
    <2>3. CASE \/ WriteFull \/ WriteEnd \/ SyncNothing \/ SyncFlush \/ RemoveEnd
               \/ MkdirAllocate \/ MkdirTable \/ MkdirSync
      BY <1>3, <2>1, <2>3 DEF WriteFull, WriteEnd, SyncNothing, SyncFlush, RemoveEnd,
                              MkdirAllocate, MkdirTable, MkdirSync
    <2>4. CASE DiskFails
      BY <1>3, <2>1, <2>4 DEF DiskFails, ChainFails, DataFails, SyncFails, RemoveFails, MkdirFails,
                              TableFails, Fails
    <2> QED BY <1>20, <2>2, <2>3, <2>4
  <1> QED BY <1>7, <1>8, <1>9, <1>10, <1>11, <1>12, <1>14, <1>15, <1>17, <1>18, <1>19, <1>20
          DEF Next, Command, Call, Write, Sync, Made
-----------------------------------------------------------------------------
(* Positions in files *)

(* Nothing that FilePlaced tells of file r is different in q. *)
SamePlace(r, q) ==
  /\ q.fptr = r.fptr /\ q.org = r.org /\ q.curr = r.curr /\ q.fsize = r.fsize
  /\ q.sc = r.sc \/ q.sc = 0
  /\ q.dirty => r.dirty
  /\ (q.err => q.dirty) => (r.err => r.dirty) /\ q.sect = r.sect

LEMMA PlacedKeeps ==
  ASSUME NEW F, NEW G, NEW r, NEW q, SamePlace(r, q), Keeps(F, G, r.org),
         r.fptr > 0 => r.curr \in Clust, FilePlaced(F, r)
  PROVE  FilePlaced(G, q)
  <1>1. Reaches(G, q.org, q.fsize)
    <2>1. Reaches(F, r.org, r.fsize)
      BY DEF FilePlaced
    <2>2. Reaches(G, r.org, r.fsize)
      BY <2>1, ReachesStays
    <2> QED BY <2>2 DEF SamePlace
  <1>2. ASSUME r.fptr > 0
        PROVE  \E k \in 0 .. MaxClust, j \in 0 .. SectsClust - 1, u \in 1 .. SectSize :
                 Placed(G, q, k, j, u)
    <2>1. PICK k \in 0 .. MaxClust, j \in 0 .. SectsClust - 1, u \in 1 .. SectSize :
            Placed(F, r, k, j, u)
      BY <1>2 DEF FilePlaced
    <2>2. Walk(G, r.org)[k] = r.curr
      BY <1>2, <2>1 DEF Placed, Keeps
    <2>3. Placed(G, q, k, j, u)
      BY <2>1, <2>2 DEF Placed, SamePlace
    <2> QED BY <2>3
  <1> QED BY <1>1, <1>2 DEF FilePlaced, SamePlace

LEMMA NoReach ==
  ASSUME NEW F, NEW h, h \notin Clust, NEW n \in Nat, Reaches(F, h, n)
  PROVE  n = 0
  <1> SUFFICES ASSUME n > 0 PROVE FALSE
    OBVIOUS
  <1> DEFINE i == (n - 1) \div ClustSize
  <1>1. i \in 0 .. MaxClust /\ Walk(F, h)[i] \in Clust
    BY DEF Reaches
  <1> HIDE DEF i
  <1>2. 0 \in 0 .. i
    BY <1>1
  <1>3. Walk(F, h)[0] \in Clust
    BY <1>1, <1>2, WalkDown
  <1> QED BY <1>3, WalkIs

LEMMA NewPlaced ==
  ASSUME NEW F, NEW q, q.fptr = 0, q.fsize = 0, ~q.dirty
  PROVE  FilePlaced(F, q)
  BY DEF FilePlaced, Reaches

(* Units are put from the beginning of sector j of cluster k. *)
LEMMA PutPlaced ==
  ASSUME TypeOK, btw > 0, NEW r \in File, NEW s \in Nat, Put(r, s),
         NEW k \in 0 .. MaxClust, NEW j \in 0 .. SectsClust - 1,
         r.fptr = k * ClustSize + j * SectSize, r.sc = SectsClust - j,
         r.curr \in Clust, Walk(fat, r.org)[k] = r.curr, s = clust2sect(r.curr) + j,
         Reaches(fat, r.org, r.fsize)
  PROVE  FilePlaced(fat, file'[fp])
  <1>0. /\ SectsClust \in Nat \ {0} /\ SectSize \in Nat \ {0} /\ r.sc > 0 /\ j \in Nat /\ k \in Nat
        /\ j + r.sc = SectsClust /\ k * ClustSize \in Nat /\ j * SectSize \in Nat
        /\ clust2sect(r.curr) \in Nat /\ r.fptr \in Nat /\ btw \in Nat
    <2>1. /\ SectsClust \in Nat \ {0} /\ SectSize \in Nat \ {0} /\ ClustSize \in Nat \ {0}
          /\ MaxClust \in Nat
      BY Constants
    <2>2. j \in Nat /\ k \in Nat /\ r.sc > 0 /\ j + r.sc = SectsClust
      BY <2>1
    <2>3. k * ClustSize \in Nat /\ j * SectSize \in Nat
      BY <2>1, <2>2
    <2>4. clust2sect(r.curr) \in Nat
      BY SectsApart
    <2>5. r.fptr \in Nat /\ btw \in Nat
      BY DEF TypeOK, File
    <2> QED BY <2>1, <2>2, <2>3, <2>4, <2>5
  <1>1. PICK n \in 1 .. btw, sc \in 1 .. r.sc, sect \in Nat, buf \in Nat, dirty \in BOOLEAN :
          PutAs(r, s, n, sc, sect, buf, dirty)
    BY <1>0, PutFile
  <1> DEFINE q == [r EXCEPT !.fptr = r.fptr + n, !.sc = sc, !.sect = sect,
                            !.buf = buf, !.dirty = dirty]
  <1>2. file'[fp] = q
    BY <1>1 DEF PutAs, TypeOK
  <1>3. /\ q.fptr = r.fptr + n /\ q.sc = sc /\ q.sect = sect /\ q.org = r.org /\ q.curr = r.curr
        /\ q.fsize = r.fsize
    BY DEF File
  <1> HIDE DEF q
  <1>4. \E i \in 0 .. SectsClust - 1, u \in 1 .. SectSize :
          /\ r.fptr + n = k * ClustSize + i * SectSize + u
          /\ sc = SectsClust - i /\ sect = clust2sect(r.curr) + i
    <2>1. CASE /\ sc = r.sc - (n \div SectSize - 1) /\ n % SectSize = 0
               /\ n \div SectSize \in 1 .. r.sc
               /\ sect = s + n \div SectSize - 1
               /\ n = (n \div SectSize) * SectSize
      <3>1. PICK m \in 1 .. r.sc : m = n \div SectSize
        BY <2>1
      <3>2. n = m * SectSize /\ sc = r.sc - (m - 1) /\ sect = s + m - 1
        BY <2>1, <3>1
      <3>3. m \in Nat /\ m >= 1 /\ j + m - 1 \in 0 .. SectsClust - 1
        BY <1>0, <3>1
      <3>4. /\ (j + m - 1) * SectSize + SectSize = j * SectSize + m * SectSize
            /\ (j + m - 1) * SectSize \in Nat /\ m * SectSize \in Nat
        BY <1>0, <3>3
      <3>5. r.fptr + n = k * ClustSize + (j + m - 1) * SectSize + SectSize
        <4> DEFINE a == k * ClustSize
                   b == j * SectSize
                   c == m * SectSize
                   d == (j + m - 1) * SectSize
        <4>1. a \in Nat /\ b \in Nat /\ c \in Nat /\ d \in Nat /\ d + SectSize = b + c
          BY <1>0, <3>4
        <4>2. r.fptr = a + b /\ n = c
          BY <3>2
        <4> HIDE DEF a, b, c, d
        <4>3. r.fptr + n = a + d + SectSize
          <5>1. SectSize \in Nat
            BY Constants
          <5>2. (a + b) + c = a + d + SectSize
            BY <4>1, <5>1
          <5> QED BY <4>2, <5>2
        <4> QED BY <4>3 DEF a, d
      <3>6. sc = SectsClust - (j + m - 1) /\ sect = clust2sect(r.curr) + (j + m - 1)
        BY <1>0, <3>1, <3>2, <3>3
      <3>7. SectSize \in 1 .. SectSize
        BY <1>0
      <3> QED BY <3>3, <3>5, <3>6, <3>7
    <2>2. CASE n = btw /\ n < SectSize /\ sc = r.sc /\ sect = s
      <3>1. n \in 1 .. SectSize
        BY <1>0, <2>2
      <3>2. r.fptr + n = k * ClustSize + j * SectSize + n
        BY <1>0
      <3> QED BY <2>2, <3>1, <3>2
    <2> QED BY <1>1, <2>1, <2>2 DEF PutAs
  <1>5. PICK i \in 0 .. SectsClust - 1, u \in 1 .. SectSize :
          /\ r.fptr + n = k * ClustSize + i * SectSize + u
          /\ sc = SectsClust - i /\ sect = clust2sect(r.curr) + i
    BY <1>4
  <1>6. Placed(fat, q, k, i, u)
    BY <1>3, <1>5 DEF Placed
  <1>7. q.fptr > 0
    BY <1>0, <1>3
  <1> QED BY <1>2, <1>3, <1>6, <1>7 DEF FilePlaced

(* At the end of a cluster the next one is what the FAT leads to. *)
LEMMA ClusterDone ==
  ASSUME BaseInv, ChainInv, pc \in {"write", "link"}, btw > 0, SectsLeft = 0,
         file[fp].fptr % SectSize = 0, file[fp].fptr > 0
  PROVE  \E k \in 0 .. MaxClust :
           /\ k + 1 \in 0 .. MaxClust /\ file[fp].fptr = (k + 1) * ClustSize
           /\ file[fp].curr \in Clust /\ Walk(fat, file[fp].org)[k] = file[fp].curr
           /\ Walk(fat, file[fp].org)[k + 1] = fat[file[fp].curr]
           /\ fat[file[fp].curr] \in {EOC} \cup Clust
  <1>0. /\ file[fp] \in File /\ fp \in OpenFiles /\ fp \in {"log", "wr"} /\ Links(fat)
        /\ fat \in [Clust -> FatVal] /\ Root(fat, file[fp].org) /\ file[fp].sc # 0
        /\ file[fp].sc \in 0 .. 255
    BY DEF BaseInv, TypeOK, CallInv, Busy, OpenFiles, ChainInv, SoundInv, Sound, OwnInv, FilesInv,
           File
  <1>1. PICK k \in 0 .. MaxClust, j \in 0 .. SectsClust - 1, u \in 1 .. SectSize :
          Placed(fat, file[fp], k, j, u) /\ file[fp].curr \in Clust
    BY <1>0, PlaceOf
  <1>2. file[fp].sc = 1
    BY <1>0 DEF SectsLeft
  <1>3. /\ SectsClust \in Nat \ {0} /\ SectSize \in Nat \ {0} /\ ClustSize \in Nat \ {0}
        /\ MaxClust \in Nat /\ ClustSize = SectsClust * SectSize /\ k \in Nat
    BY Constants
  <1>4. /\ file[fp].fptr = k * ClustSize + j * SectSize + u
        /\ Walk(fat, file[fp].org)[k] = file[fp].curr /\ file[fp].sc = SectsClust - j
    BY <1>0, <1>1 DEF Placed
  <1>5. j = SectsClust - 1
    BY <1>2, <1>3, <1>4
  <1>6. u = SectSize
    <2>1. PICK n \in Nat : n = file[fp].fptr
      BY <1>0 DEF File
    <2>2. n = k * ClustSize + j * SectSize + u /\ (n % SectSize) = 0
      BY <1>4, <2>1
    <2>3. k \in Nat
      BY <1>3
    <2>4. n = k * ClustSize + j * SectSize + u
      BY <2>2
    <2>5. u < SectSize => n % SectSize = u
      BY <2>3, <2>4, PositionIs
    <2>6. u < SectSize => u = 0
      BY <2>2, <2>5
    <2>7. SectSize \in Nat /\ u \in Nat /\ u # 0 /\ u <= SectSize
      BY <1>3, Constants
    <2> QED BY <2>6, <2>7
  <1>7. file[fp].fptr = (k + 1) * ClustSize
    <2>1. (k + 1) * ClustSize = k * ClustSize + ClustSize /\ k * ClustSize \in Nat
      BY <1>3
    <2>2. (SectsClust - 1) * SectSize = ClustSize - SectSize
      BY <1>3
    <2> DEFINE a == k * ClustSize
               b == (SectsClust - 1) * SectSize
    <2>3. file[fp].fptr = a + b + SectSize /\ b = ClustSize - SectSize /\ a \in Nat
      BY <1>4, <1>5, <1>6, <2>1, <2>2
    <2> HIDE DEF a, b
    <2>4. file[fp].fptr = a + ClustSize
      BY <1>3, <2>3
    <2> QED BY <2>1, <2>4 DEF a
  <1>8. /\ k + 1 \in 1 .. MaxClust /\ Walk(fat, file[fp].org)[k + 1] = fat[file[fp].curr]
        /\ fat[file[fp].curr] \in {EOC} \cup Clust
    BY <1>0, <1>1, <1>4, ChainEnds
  <1>9. k + 1 \in 0 .. MaxClust
    BY <1>3, <1>8
  <1> QED BY <1>1, <1>4, <1>7, <1>8, <1>9

(* Units go to sector s, which is sector j of cluster k of the file, with  *)
(* r the file as it is then.                                               *)
PutAt(r, s, k, j) ==
  /\ Put(r, s) /\ btw > 0
  /\ r.fptr = k * ClustSize + j * SectSize /\ r.sc = SectsClust - j
  /\ r.curr \in Clust /\ Walk(fat, r.org)[k] = r.curr /\ s = clust2sect(r.curr) + j
  /\ r.fptr = file[fp].fptr /\ r.org = file[fp].org /\ r.fsize = file[fp].fsize
  /\ r.buf = file[fp].buf /\ r.dirty = file[fp].dirty

LEMMA PutWhere ==
  ASSUME BaseInv, ChainInv, WriteNextSector \/ WriteGrown
  PROVE  \E r \in File, s \in Nat, k \in 0 .. MaxClust, j \in 0 .. SectsClust - 1 :
           PutAt(r, s, k, j)
  <1>0. /\ TypeOK /\ CallInv /\ FilesInv /\ PlaceInv /\ file[fp] \in File
        /\ (pc \in Busy => fp \in OpenFiles)
    BY DEF BaseInv, TypeOK, ChainInv, CallInv, OpenFiles
  <1>1. CASE WriteNextSector
    <2> DEFINE p == file[fp]
               r == [p EXCEPT !.sc = SectsLeft]
    <2>1. /\ pc = "write" /\ btw > 0 /\ SectsLeft # 0
          /\ p.fptr % SectSize = 0 /\ Put(r, p.sect + 1)
      BY <1>1 DEF WriteNextSector, AtBoundary
    <2>2. /\ p \in File /\ p.sc \in 0 .. 255 /\ p.fptr \in Nat /\ p.sect \in Nat
          /\ SectsLeft = (p.sc - 1) % 256 /\ fp \in OpenFiles /\ ~p.err /\ p.sc # 0
      BY <1>0, <2>1 DEF TypeOK, File, SectsLeft, Busy, FilesInv
    <2>3. p.sc >= 2 /\ SectsLeft = p.sc - 1
      BY <2>1, <2>2
    <2>4. p.fptr > 0
      <3>1. p.fptr = 0 => p.sc <= 1
        BY <1>0, <2>2 DEF OpenFiles, FilesInv, Positioned
      <3> QED BY <2>2, <2>3, <3>1
    <2>5. /\ r \in File /\ r.fptr = p.fptr /\ r.org = p.org /\ r.curr = p.curr
          /\ r.fsize = p.fsize /\ r.sc = p.sc - 1 /\ r.buf = p.buf /\ r.dirty = p.dirty
      BY <2>2, <2>3, SectsLeftIs, <1>0 DEF File
    <2> HIDE DEF r
    <2>6. PICK k \in 0 .. MaxClust, j \in 0 .. SectsClust - 1, u \in 1 .. SectSize :
            Placed(fat, p, k, j, u) /\ p.curr \in Clust
      BY <2>2, <2>4, PlaceOf
    <2>7. /\ p.fptr = k * ClustSize + j * SectSize + u /\ k \in Nat
          /\ Walk(fat, p.org)[k] = p.curr /\ p.sc = SectsClust - j
          /\ p.sect = clust2sect(p.curr) + j
      BY <2>2, <2>6, Constants DEF Placed
    <2>8. u = SectSize
      <3>1. u < SectSize => p.fptr % SectSize = u
        BY <2>2, <2>7, PositionIs
      <3> QED BY <2>1, <3>1, Constants
    <2> DEFINE i == j + 1
    <2>9. i \in 0 .. SectsClust - 1 /\ r.sc = SectsClust - i
      BY <2>3, <2>5, <2>7, Constants
    <2>10. r.fptr = k * ClustSize + i * SectSize
      <3>1. i * SectSize = j * SectSize + SectSize /\ j * SectSize \in Nat /\ k * ClustSize \in Nat
        BY <2>7, Constants
      <3> HIDE DEF i
      <3> DEFINE a == k * ClustSize
                 b == j * SectSize
      <3>2. p.fptr = a + b + SectSize /\ a \in Nat /\ b \in Nat /\ SectSize \in Nat
        BY <2>7, <2>8, <3>1, Constants
      <3> HIDE DEF a, b
      <3>3. p.fptr = a + (b + SectSize)
        BY <3>2
      <3> QED BY <2>5, <3>1, <3>3 DEF a, b
    <2>11. p.sect + 1 = clust2sect(r.curr) + i /\ p.sect + 1 \in Nat
      BY <2>2, <2>5, <2>6, <2>7, SectsApart
    <2> HIDE DEF i
    <2>12. PutAt(r, p.sect + 1, k, i)
      BY <2>1, <2>5, <2>6, <2>7, <2>9, <2>10, <2>11 DEF PutAt
    <2> QED BY <2>5, <2>9, <2>11, <2>12
  <1>2. CASE WriteGrown
    <2> DEFINE p == file[fp]
               r == [p EXCEPT !.curr = clust, !.sc = SectsClust]
    <2>1. pc = "grown" /\ Put(r, clust2sect(clust))
      BY <1>2 DEF WriteGrown
    <2>2. /\ p \in File /\ fp \in OpenFiles /\ clust \in Clust /\ btw > 0
      BY <1>0, <2>1 DEF Busy, CallInv, FilesInv
    <2>3. PICK k \in 0 .. MaxClust : p.fptr = k * ClustSize /\ Walk(fat, p.org)[k] = clust
      BY <1>0, <2>1 DEF PlaceInv
    <2>4. /\ r \in File /\ r.fptr = p.fptr /\ r.org = p.org /\ r.curr = clust
          /\ r.fsize = p.fsize /\ r.sc = SectsClust /\ r.buf = p.buf /\ r.dirty = p.dirty
      <3>1. clust \in Org /\ SectsClust \in 0 .. 255
        BY <2>2, Constants DEF Org
      <3> QED BY <2>2, <3>1 DEF File
    <2> HIDE DEF r
    <2> DEFINE j == 0
    <2>5. /\ j \in 0 .. SectsClust - 1 /\ r.sc = SectsClust - j /\ j * SectSize = 0
          /\ clust2sect(r.curr) = clust2sect(r.curr) + j /\ clust2sect(clust) \in Nat
      BY <2>2, <2>4, Constants, SectsApart
    <2>6. r.fptr = k * ClustSize + j * SectSize
      <3>1. k * ClustSize \in Nat
        BY Constants
      <3>2. k * ClustSize + 0 = k * ClustSize
        BY <3>1
      <3> QED BY <2>3, <2>4, <2>5, <3>2
    <2> HIDE DEF j
    <2>7. PutAt(r, clust2sect(clust), k, j)
      BY <2>1, <2>2, <2>3, <2>4, <2>5, <2>6 DEF PutAt
    <2> QED BY <2>3, <2>4, <2>5, <2>7
  <1> QED BY <1>1, <1>2

(* m units go into the buffer behind the u that it has in its sector,      *)
(* which is sector j of cluster k of the file.                             *)
BufferAt(k, j, u, m) ==
  LET r == file[fp]
      q == file'[fp] IN
  /\ Placed(fat, r, k, j, u) /\ r.curr \in Clust /\ ~r.err /\ u < SectSize
  /\ q.fptr = k * ClustSize + j * SectSize + (u + m) /\ u + m \in 1 .. SectSize
  /\ q.fptr > 0 /\ q.fptr = r.fptr + m /\ q.dirty /\ q.buf = Greater(r.buf, u + m)
  /\ q.sc = r.sc /\ q.sect = r.sect /\ q.org = r.org /\ q.curr = r.curr /\ q.fsize = r.fsize

LEMMA BufferWhere ==
  ASSUME BaseInv, ChainInv, WriteBuffer
  PROVE  /\ fp \in OpenFiles /\ \A g \in {"log", "wr"} : g # fp => file'[g] = file[g]
         /\ \E k \in 0 .. MaxClust, j \in 0 .. SectsClust - 1, u \in 1 .. SectSize, m \in Nat :
              BufferAt(k, j, u, m)
  <1> DEFINE r == file[fp]
             m == Lesser(btw, SectSize - (r.fptr % SectSize))
  <1>0. /\ TypeOK /\ fp \in {"log", "wr"} /\ FilesInv /\ file \in [{"log", "wr"} -> File]
        /\ (pc \in Busy => fp \in OpenFiles)
    BY DEF BaseInv, TypeOK, CallInv, OpenFiles
  <1>1. /\ pc = "write" /\ btw > 0 /\ r.fptr % SectSize # 0
        /\ file' = [file EXCEPT ![fp].fptr = @ + m, ![fp].dirty = TRUE,
                                ![fp].buf = Greater(@, (r.fptr % SectSize) + m)]
    BY DEF WriteBuffer
  <1>2. /\ r \in File /\ r.fptr \in Nat /\ btw \in Nat /\ SectSize \in Nat \ {0} /\ r.fptr > 0
    <2>1. r \in File /\ r.fptr \in Nat /\ btw \in Nat /\ SectSize \in Nat \ {0}
      BY <1>0, Constants DEF TypeOK, File
    <2>2. r.fptr = 0 => r.fptr % SectSize = 0
      BY <2>1
    <2> QED BY <1>1, <2>1, <2>2
  <1>3. fp \in OpenFiles /\ ~r.err
    BY <1>0, <1>1 DEF Busy, FilesInv
  <1>4. PICK k \in 0 .. MaxClust, j \in 0 .. SectsClust - 1, u \in 1 .. SectSize :
          Placed(fat, r, k, j, u) /\ r.curr \in Clust
    BY <1>2, <1>3, PlaceOf
  <1>5. r.fptr = k * ClustSize + j * SectSize + u /\ k \in Nat
    BY <1>4, Constants DEF Placed
  <1>6. u < SectSize /\ r.fptr % SectSize = u
    <2>1. /\ (u = SectSize => r.fptr % SectSize = 0)
          /\ (u < SectSize => r.fptr % SectSize = u)
      BY <1>2, <1>5, PositionIs
    <2> QED BY <1>1, <1>2, <2>1
  <1>7. m \in Nat /\ u + m \in 1 .. SectSize
    <2>1. m = Lesser(btw, SectSize - u)
      BY <1>6
    <2>2. btw > 0 /\ btw \in Nat /\ SectSize \in Nat /\ u \in 1 .. SectSize /\ u < SectSize
      BY <1>1, <1>2, <1>6
    <2> HIDE DEF m
    <2> QED BY <2>1, <2>2 DEF Lesser
  <1> HIDE DEF m
  <1>8. file'[fp] = [[[r EXCEPT !.fptr = r.fptr + m] EXCEPT !.dirty = TRUE]
                       EXCEPT !.buf = Greater(r.buf, (r.fptr % SectSize) + m)]
    BY <1>0, <1>1 DEF File
  <1>9. /\ file'[fp].fptr = r.fptr + m /\ file'[fp].dirty = TRUE /\ file'[fp].sc = r.sc
        /\ file'[fp].sect = r.sect /\ file'[fp].org = r.org /\ file'[fp].curr = r.curr
        /\ file'[fp].fsize = r.fsize /\ file'[fp].buf = Greater(r.buf, (r.fptr % SectSize) + m)
    BY <1>2, <1>8 DEF File
  <1>10. \A g \in {"log", "wr"} : g # fp => file'[g] = file[g]
    BY <1>0, <1>1
  <1>11. file'[fp].buf = Greater(r.buf, u + m)
    BY <1>6, <1>9
  <1> HIDE DEF r
  <1>12. r.fptr + m = k * ClustSize + j * SectSize + (u + m)
    <2> DEFINE a == k * ClustSize + j * SectSize
    <2>1. a \in Int
      BY <1>5, Constants
    <2>2. r.fptr = a + u
      BY <1>5
    <2> HIDE DEF a
    <2>3. r.fptr + m = a + (u + m)
      BY <1>2, <1>7, <2>1, <2>2
    <2> QED BY <2>3 DEF a
  <1>13. file'[fp].fptr > 0
    BY <1>2, <1>7, <1>9
  <1>14. BufferAt(k, j, u, m)
    BY <1>3, <1>4, <1>6, <1>7, <1>9, <1>11, <1>12, <1>13 DEF BufferAt, r
  <1> QED BY <1>3, <1>7, <1>10, <1>14

LEMMA PlaceStays ==
  ASSUME BaseInv, ChainInv, ~TouchesOpenLog, Next
  PROVE  PlaceInv'
  <1>0. /\ TypeOK /\ Coherent /\ NamesInv /\ CallInv /\ FilesInv /\ EntryInv /\ Names(dir)
        /\ fp \in {"log", "wr"} /\ file[fp] \in File /\ ~Closed.open
        /\ file \in [{"log", "wr"} -> File] /\ dir \in [Slots -> Entry]
        /\ OwnInv /\ PlaceInv /\ Sound(fat, dir) /\ Links(fat) /\ fat \in [Clust -> FatVal]
    BY DEF BaseInv, NamesInv, TypeOK, Closed, ChainInv, SoundInv, Sound
  <1>1. ASSUME NEW f \in OpenFiles
        PROVE  /\ f \in {"log", "wr"} /\ FilePlaced(fat, file[f]) /\ Root(fat, file[f].org)
               /\ ~(Held /\ file[f].org = clust) /\ (file[f].fptr > 0 => file[f].curr \in Clust)
               /\ file[f] \in File
    BY <1>0, <1>1 DEF PlaceInv, OwnInv, OpenFiles, FilesInv, Positioned
  <1>2. ASSUME FatStep, NEW f \in OpenFiles, NEW q, SamePlace(file[f], q)
        PROVE  FilePlaced(fat', q)
    <2>1. Keeps(fat, fat', file[f].org)
      BY <1>1, <1>2 DEF FatStep
    <2> QED BY <1>1, <1>2, <2>1, PlacedKeeps
  <1>3. ASSUME NEW r \in File PROVE SamePlace(r, r)
    BY DEF SamePlace
  <1>4. ASSUME UNCHANGED fat PROVE FatStep
    BY <1>0, <1>4, FatSame
  (* Steps that leave the positions. *)
  <1>5. ASSUME FatStep, \A f \in {"log", "wr"} :
                          file'[f].open => file[f].open /\ SamePlace(file[f], file'[f]),
               pc' \notin {"link", "grown"}
        PROVE  PlaceInv'
    <2>1. \A f \in OpenFiles' : f \in OpenFiles /\ SamePlace(file[f], file'[f])
      BY <1>5 DEF OpenFiles
    <2>2. \A f \in OpenFiles' : FilePlaced(fat', file'[f])
      BY <1>2, <1>5, <2>1
    <2> QED BY <1>5, <2>2 DEF PlaceInv
  <1>6. ASSUME FatStep, UNCHANGED file
        PROVE  \A f \in OpenFiles' : FilePlaced(fat', file'[f])
    <2>1. \A f \in OpenFiles' : f \in OpenFiles /\ SamePlace(file[f], file'[f])
      BY <1>0, <1>3, <1>6 DEF OpenFiles
    <2> QED BY <1>2, <1>6, <2>1
  <1>7. ASSUME FatStep, UNCHANGED file, pc' \notin {"link", "grown"} PROVE PlaceInv'
    BY <1>6, <1>7 DEF PlaceInv
  <1>8. ASSUME NEW k, LogWrite(k) \/ CatWrite(k) \/ CatRead(k) PROVE PlaceInv'
    <2>1. UNCHANGED <<fat, file>> /\ pc' \in {"write", "sync", "cat"}
      BY <1>8 DEF LogWrite, CatWrite, CatRead
    <2> QED BY <1>4, <1>7, <2>1
  <1>9. ASSUME \/ (\E n \in Name : Unlink(n)) \/ LogStop \/ CatClose \/ Mkdir
               \/ MkdirTable \/ MkdirEntry \/ MkdirSync \/ MkdirFails \/ TableFails
               \/ (MkdirAllocate /\ Free = {}) \/ (RemoveEnd /\ after = "unlink")
        PROVE  PlaceInv'
    <2>1. UNCHANGED <<fat, file>> /\ pc' \in {"free", "sync", "mkdir", "entry", "made", "idle"}
      BY <1>9 DEF Unlink, LogStop, CatClose, Mkdir, MkdirTable, MkdirEntry, MkdirSync, MkdirFails,
                  TableFails, MkdirAllocate, RemoveEnd, Return, Fails
    <2> QED BY <1>4, <1>7, <2>1
  <1>10. ASSUME RemoveNext PROVE PlaceInv'
    <2>1. FatStep /\ UNCHANGED file /\ pc' = "free"
      BY <1>0, <1>10, RemoveNextIs DEF RemoveNext
    <2> QED BY <1>7, <2>1
  <1>11. ASSUME MkdirAllocate, Free # {} PROVE PlaceInv'
    <2>1. FatStep /\ UNCHANGED file /\ pc' = "table"
      BY <1>0, <1>11, AllocatedIs DEF MkdirAllocate
    <2> QED BY <1>7, <2>1
  (* A file is opened. *)
  <1>12. ASSUME NEW f \in {"log", "wr"}, file'[f].fptr = 0, ~file'[f].dirty, UNCHANGED fat,
                \A g \in {"log", "wr"} : g # f => file'[g] = file[g],
                Reaches(fat, file'[f].org, file'[f].fsize), pc' \notin {"link", "grown"}
         PROVE  PlaceInv'
    <2>1. FilePlaced(fat', file'[f])
      BY <1>12 DEF FilePlaced
    <2>2. \A g \in OpenFiles' : g # f => FilePlaced(fat', file'[g])
      <3> SUFFICES ASSUME NEW g \in OpenFiles', g # f PROVE FilePlaced(fat', file'[g])
        OBVIOUS
      <3>1. g \in OpenFiles /\ file'[g] = file[g]
        BY <1>12 DEF OpenFiles
      <3> QED BY <1>1, <1>12, <3>1
    <2> QED BY <1>12, <2>1, <2>2 DEF PlaceInv
  <1>13. ASSUME NEW f \in {"log", "wr"}, NEW n \in Name, Create(f, n), UNCHANGED fat,
                pc' \in {"idle", "cat"}
         PROVE  PlaceInv'
    <2>1. /\ \A g \in {"log", "wr"} : g # f => file'[g] = file[g]
          /\ file'[f] = [Closed EXCEPT !.open = TRUE, !.slot = FreeSlot, !.org = 0, !.fsize = 0]
      BY <1>0, <1>13, CreateIs
    <2>2. file'[f].fptr = 0 /\ file'[f].fsize = 0 /\ ~file'[f].dirty
      BY <2>1 DEF Closed
    <2>3. Reaches(fat, file'[f].org, file'[f].fsize)
      BY <2>2 DEF Reaches
    <2> QED BY <1>12, <1>13, <2>1, <2>2, <2>3
  <1>14. ASSUME NEW n \in Name, LogOpen(n) PROVE PlaceInv'
    <2>0. pc = "idle" /\ UNCHANGED fat /\ ~file["log"].open /\ ~file["wr"].open
      BY <1>0, <1>14 DEF LogOpen, Busy, CallInv
    <2>1. CASE Create("log", n) /\ UNCHANGED pc
      BY <1>13, <2>0, <2>1
    <2>2. ASSUME NEW s \in Slots, file' = [file EXCEPT !["log"].slot = s], pc' = "free"
          PROVE  PlaceInv'
      <3>1. ~file'["log"].open /\ ~file'["wr"].open
        BY <1>0, <2>0, <2>2 DEF File
      <3> QED BY <2>2, <3>1 DEF PlaceInv, OpenFiles
    <2> QED BY <1>14, <2>1, <2>2 DEF LogOpen
  <1>15. ASSUME NEW n \in Name, CatOpen(n) PROVE PlaceInv'
    <2>0. UNCHANGED fat /\ pc' = "cat"
      BY <1>15 DEF CatOpen
    <2>1. CASE Create("wr", n)
      BY <1>13, <2>0, <2>1
    <2>2. ASSUME NEW s \in Slots, Opened("wr", s, dir[s].org, dir[s].size)
          PROVE  PlaceInv'
      <3>1. /\ file'["log"] = file["log"] /\ file'["wr"].fptr = 0 /\ ~file'["wr"].dirty
            /\ file'["wr"].org = dir[s].org /\ file'["wr"].fsize = dir[s].size
        BY <1>0, <2>2 DEF Opened, Closed
      <3>2. Reaches(fat, file'["wr"].org, file'["wr"].fsize)
        BY <1>0, <3>1 DEF Sound
      <3>3. \A g \in {"log", "wr"} : g # "wr" => file'[g] = file[g]
        BY <3>1
      <3> QED BY <1>12, <2>0, <3>1, <3>2, <3>3
    <2> QED BY <1>15, <2>1, <2>2 DEF CatOpen
  <1>16. ASSUME RemoveEnd, after # "unlink" PROVE PlaceInv'
    <2>1. UNCHANGED fat /\ pc' = "idle" /\ Opened("log", file["log"].slot, 0, 0)
      BY <1>16 DEF RemoveEnd, Return
    <2>2. file'["wr"] = file["wr"] /\ file'["log"].fptr = 0 /\ file'["log"].fsize = 0
          /\ ~file'["log"].dirty
      BY <1>0, <2>1 DEF Opened, Closed
    <2>3. Reaches(fat, file'["log"].org, file'["log"].fsize)
      BY <2>2 DEF Reaches
    <2>4. \A g \in {"log", "wr"} : g # "log" => file'[g] = file[g]
      BY <2>2
    <2> QED BY <1>12, <2>1, <2>2, <2>3, <2>4
  (* f_write *)
  <1>17. ASSUME FilePlaced(fat', file'[fp]), FatStep, pc' \notin {"link", "grown"},
                \A g \in {"log", "wr"} : g # fp => file'[g] = file[g]
         PROVE  PlaceInv'
    <2>1. \A g \in OpenFiles' : g # fp => FilePlaced(fat', file'[g])
      <3> SUFFICES ASSUME NEW g \in OpenFiles', g # fp PROVE FilePlaced(fat', file'[g])
        OBVIOUS
      <3>1. g \in OpenFiles /\ file'[g] = file[g]
        BY <1>17 DEF OpenFiles
      <3> QED BY <1>1, <1>2, <1>3, <1>17, <3>1
    <2> QED BY <1>17, <2>1 DEF PlaceInv
  <1>18. ASSUME pc \in Busy PROVE fp \in OpenFiles
    BY <1>0, <1>18 DEF CallInv, OpenFiles
  <1>19. ASSUME WriteBuffer PROVE PlaceInv'
    <2>1. UNCHANGED fat /\ pc' = "write" /\ fp \in OpenFiles
      BY <1>19, BufferWhere DEF WriteBuffer
    <2>2. PICK k \in 0 .. MaxClust, j \in 0 .. SectsClust - 1, u \in 1 .. SectSize, m \in Nat :
            BufferAt(k, j, u, m)
      BY <1>19, BufferWhere
    <2>3. Placed(fat, file'[fp], k, j, u + m) /\ u + m \in 1 .. SectSize /\ file'[fp].fptr > 0
      BY <2>2 DEF BufferAt, Placed
    <2>4. Reaches(fat, file'[fp].org, file'[fp].fsize)
      BY <1>1, <2>1, <2>2 DEF FilePlaced, BufferAt
    <2>5. FilePlaced(fat, file'[fp])
      BY <2>3, <2>4 DEF FilePlaced
    <2>6. \A g \in {"log", "wr"} : g # fp => file'[g] = file[g]
      BY <1>19, BufferWhere
    <2> QED BY <1>4, <1>17, <2>1, <2>5, <2>6
  <1>20. ASSUME WriteNextSector \/ WriteGrown PROVE PlaceInv'
    <2>1. UNCHANGED fat /\ pc' = "write" /\ fp \in OpenFiles
      BY <1>18, <1>20 DEF WriteNextSector, WriteGrown, AtBoundary, Busy
    <2>2. PICK r \in File, s \in Nat, k \in 0 .. MaxClust, j \in 0 .. SectsClust - 1 :
            PutAt(r, s, k, j)
      BY <1>20, PutWhere
    <2>3. Reaches(fat, r.org, r.fsize)
      BY <1>1, <2>1, <2>2 DEF FilePlaced, PutAt
    <2>4. FilePlaced(fat, file'[fp])
      BY <1>0, <2>2, <2>3, PutPlaced DEF PutAt
    <2>5. r.sc > 0
      BY <2>2, Constants DEF PutAt
    <2>6. \A g \in {"log", "wr"} : g # fp => file'[g] = file[g]
      BY <1>0, <2>2, <2>5, PutKeeps DEF PutAt
    <2> QED BY <1>4, <1>17, <2>1, <2>4, <2>6
  <1>23. ASSUME WriteFull PROVE PlaceInv'
    <2>1. UNCHANGED fat /\ file' = [file EXCEPT ![fp].sc = 0] /\ pc' = "write"
      BY <1>23 DEF WriteFull, WriteSearch, AtBoundary
    <2> DEFINE q == [file[fp] EXCEPT !.sc = 0]
    <2>2. file' = [file EXCEPT ![fp] = q]
      BY <2>1
    <2>3. SamePlace(file[fp], q) /\ q.open = file[fp].open
      BY <1>0 DEF SamePlace, File
    <2> HIDE DEF q
    <2>4. \A f \in {"log", "wr"} : file'[f].open => file[f].open /\ SamePlace(file[f], file'[f])
      BY <1>0, <1>3, <2>2, <2>3
    <2> QED BY <1>4, <1>5, <2>1, <2>4
  <1>24. ASSUME WriteEnd PROVE PlaceInv'
    <2> DEFINE r == file[fp]
               q == [[r EXCEPT !.fsize = Greater(r.fsize, r.fptr)] EXCEPT !.written = TRUE]
    <2>1. /\ pc = "write" /\ pc' \in {"sync", "cat"} /\ UNCHANGED fat
          /\ file' = [file EXCEPT ![fp].fsize = Greater(@, r.fptr), ![fp].written = TRUE]
      BY <1>24 DEF WriteEnd
    <2>2. /\ file'[fp] = q /\ \A g \in {"log", "wr"} : g # fp => file'[g] = file[g]
      BY <1>0, <2>1
    <2>3. /\ q.fptr = r.fptr /\ q.org = r.org /\ q.curr = r.curr /\ q.sc = r.sc /\ q.sect = r.sect
          /\ q.err = r.err /\ q.dirty = r.dirty /\ q.fsize = Greater(r.fsize, r.fptr)
      BY <1>0 DEF File
    <2> HIDE DEF q
    <2>4. fp \in OpenFiles /\ r.fptr \in Nat /\ r.fsize \in Nat
      BY <1>0, <1>18, <2>1 DEF Busy, File
    <2>5. r.fptr > 0 => Reaches(fat, r.org, r.fptr)
      <3> SUFFICES ASSUME r.fptr > 0 PROVE Reaches(fat, r.org, r.fptr)
        OBVIOUS
      <3>1. PICK k \in 0 .. MaxClust, j \in 0 .. SectsClust - 1, u \in 1 .. SectSize :
              Placed(fat, r, k, j, u) /\ r.curr \in Clust
        BY <2>4, PlaceOf
      <3>2. /\ r.fptr = k * ClustSize + j * SectSize + u /\ k \in Nat
            /\ Walk(fat, r.org)[k] = r.curr
        BY <3>1, Constants DEF Placed
      <3>3. (r.fptr - 1) \div ClustSize = k
        BY <2>4, <3>2, PositionIs
      <3> QED BY <3>1, <3>2, <3>3 DEF Reaches
    <2>6. FilePlaced(fat, r)
      BY <1>1, <2>4
    <2>7. Reaches(fat, q.org, q.fsize)
      <3>1. q.fsize = r.fsize \/ (q.fsize = r.fptr /\ r.fptr > 0)
        BY <2>3, <2>4 DEF Greater
      <3> QED BY <2>3, <2>5, <2>6, <3>1 DEF FilePlaced
    <2>8. FilePlaced(fat, q)
      BY <2>3, <2>6, <2>7 DEF FilePlaced, Placed
    <2> QED BY <1>4, <1>17, <2>1, <2>2, <2>8
  <1>25. ASSUME WriteKnownCluster PROVE PlaceInv'
    <2>1. /\ pc = "write" /\ pc' = "grown" /\ UNCHANGED <<fat, file, fp>> /\ btw > 0 /\ SectsLeft = 0
          /\ file[fp].fptr % SectSize = 0
          /\ \/ file[fp].fptr = 0 /\ clust' = file[fp].org
             \/ /\ file[fp].fptr # 0 /\ fat[file[fp].curr] \in Clust
                /\ clust' = fat[file[fp].curr]
      BY <1>25 DEF WriteKnownCluster, AtBoundary
    <2>2. \A f \in OpenFiles' : FilePlaced(fat', file'[f])
      BY <1>4, <1>6, <2>1
    <2>3. CASE file[fp].fptr = 0 /\ clust' = file[fp].org
      <3>1. 0 \in 0 .. MaxClust /\ 0 = 0 * ClustSize /\ Walk(fat, file[fp].org)[0] = file[fp].org
        BY Constants, WalkIs
      <3> QED BY <2>1, <2>2, <2>3, <3>1 DEF PlaceInv
    <2>4. CASE file[fp].fptr # 0 /\ clust' = fat[file[fp].curr]
      <3>1. file[fp].fptr > 0
        BY <1>0, <2>4 DEF File
      <3>2. PICK k \in 0 .. MaxClust :
           /\ k + 1 \in 0 .. MaxClust /\ file[fp].fptr = (k + 1) * ClustSize
           /\ Walk(fat, file[fp].org)[k + 1] = fat[file[fp].curr]
        BY <2>1, <3>1, ClusterDone
      <3> QED BY <2>1, <2>2, <2>4, <3>2 DEF PlaceInv
    <2> QED BY <2>1, <2>3, <2>4
  <1>26. ASSUME WriteAllocate PROVE PlaceInv'
    <2>1. /\ Free # {} /\ fat' = [fat EXCEPT ![FirstFree] = EOC] /\ clust' = FirstFree
          /\ pc = "write" /\ btw > 0 /\ SectsLeft = 0 /\ file[fp].fptr % SectSize = 0 /\ fp' = fp
          /\ \/ file[fp].fptr = 0 /\ file[fp].org = 0
             \/ Chained /\ fat[file[fp].curr] >= MaxClust
      BY <1>26 DEF WriteAllocate, WriteSearch, AtBoundary
    <2>2. FatStep /\ FirstFree \in Clust
      BY <1>0, <2>1, AllocatedIs
    <2>3. file[fp].fptr \in Nat /\ fp \in OpenFiles /\ file[fp].fsize \in Nat
      BY <1>0, <1>18, <2>1 DEF File, Busy
    <2>4. CASE Chained /\ pc' = "link" /\ UNCHANGED file
      <3>1. \A f \in OpenFiles' : FilePlaced(fat', file'[f])
        BY <1>6, <2>2, <2>4
      <3>2. file[fp].fptr > 0
        BY <2>3, <2>4 DEF Chained
      <3>3. file[fp].curr \in Clust /\ fat[file[fp].curr] \in {EOC} \cup Clust
        BY <2>1, <3>2, ClusterDone
      <3>4. fat[file[fp].curr] = EOC
        <4>1. fat[file[fp].curr] >= MaxClust
          BY <2>1, <2>3, <3>2
        <4>2. \A c \in Clust : ~(c >= MaxClust)
          BY Constants DEF Clust
        <4> QED BY <3>3, <4>1, <4>2
      <3>5. fat'[file[fp].curr] = EOC
        BY <1>0, <2>1, <3>3, <3>4
      <3> QED BY <2>1, <2>4, <3>1, <3>5 DEF PlaceInv
    <2>5. CASE ~Chained /\ pc' = "grown" /\ file' = [file EXCEPT ![fp].org = FirstFree]
      <3> DEFINE q == [file[fp] EXCEPT !.org = FirstFree]
      <3>1. file[fp].fptr = 0 /\ file[fp].org = 0
        BY <2>1, <2>5
      <3>2. file[fp].fsize = 0
        BY <1>1, <2>3, <3>1, NoReach, Constants DEF FilePlaced
      <3>3. /\ file'[fp] = q /\ \A g \in {"log", "wr"} : g # fp => file'[g] = file[g]
        BY <1>0, <2>5
      <3>4. q.fptr = 0 /\ q.fsize = 0 /\ q.org = FirstFree /\ ~q.dirty
        <4>1. ~file[fp].dirty
          BY <1>1, <2>3, <3>1 DEF FilePlaced
        <4> QED BY <1>0, <3>1, <3>2, <4>1 DEF File
      <3> HIDE DEF q
      <3>5. FilePlaced(fat', file'[fp])
        BY <3>3, <3>4, NewPlaced
      <3>6. \A g \in OpenFiles' : FilePlaced(fat', file'[g])
        <4> SUFFICES ASSUME NEW g \in OpenFiles', g # fp PROVE FilePlaced(fat', file'[g])
          BY <3>5
        <4>1. g \in OpenFiles /\ file'[g] = file[g]
          BY <3>3 DEF OpenFiles
        <4> QED BY <1>1, <1>2, <1>3, <2>2, <4>1
      <3>7. 0 \in 0 .. MaxClust /\ 0 = 0 * ClustSize /\ Walk(fat', FirstFree)[0] = FirstFree
        BY Constants, WalkIs
      <3> QED BY <2>1, <2>5, <3>3, <3>4, <3>6, <3>7 DEF PlaceInv
    <2> QED BY <1>26, <2>4, <2>5 DEF WriteAllocate
  <1>27. ASSUME WriteLink PROVE PlaceInv'
    <2>1. /\ fp \in OpenFiles /\ file[fp].curr \in Clust /\ clust \in Clust /\ Held
          /\ fat' = [fat EXCEPT ![file[fp].curr] = clust]
          /\ UNCHANGED <<file, fp, clust>> /\ pc = "link" /\ pc' = "grown" /\ FatStep
      BY <1>27, LinkIs
    <2>2. \A f \in OpenFiles' : FilePlaced(fat', file'[f])
      BY <1>6, <2>1
    <2>3. btw > 0 /\ SectsLeft = 0 /\ file[fp].fptr % SectSize = 0 /\ file[fp].fptr > 0
      BY <1>0, <2>1 DEF FilesInv
    <2>4. PICK k \in 0 .. MaxClust :
           /\ k + 1 \in 0 .. MaxClust /\ file[fp].fptr = (k + 1) * ClustSize
           /\ Walk(fat, file[fp].org)[k] = file[fp].curr
      BY <2>1, <2>3, ClusterDone
    <2>5. Keeps(fat, fat', file[fp].org)
      BY <1>1, <2>1 DEF FatStep
    <2>6. Walk(fat', file[fp].org)[k] = file[fp].curr
      BY <2>1, <2>4, <2>5 DEF Keeps
    <2>7. fat'[file[fp].curr] = clust
      BY <1>0, <2>1
    <2>8. k + 1 \in 1 .. MaxClust /\ k + 1 - 1 = k
      BY <2>4, Constants
    <2>9. Walk(fat', file[fp].org)[k + 1] = clust
      <3>1. PICK i \in 1 .. MaxClust : i = k + 1 /\ i - 1 = k
        BY <2>8
      <3>2. Walk(fat', file[fp].org)[i] =
              IF Walk(fat', file[fp].org)[i - 1] \in Clust
              THEN fat'[Walk(fat', file[fp].org)[i - 1]] ELSE EOC
        BY WalkIs
      <3> QED BY <2>1, <2>6, <2>7, <3>1, <3>2
    <2> QED BY <2>1, <2>2, <2>4, <2>9 DEF PlaceInv
  (* f_sync and failures *)
  <1>28. ASSUME SyncNothing \/ SyncFlush \/ SyncFails PROVE PlaceInv'
    <2>1. /\ UNCHANGED fat /\ pc' = "idle"
          /\ \/ file' = [file EXCEPT ![fp] = Left(file[fp])]
             \/ file' = [file EXCEPT ![fp] = Left([file[fp] EXCEPT !.dirty = FALSE])]
      BY <1>0, <1>28 DEF SyncNothing, SyncFlush, SyncFails, Return, Fails
    <2> DEFINE q == [file[fp] EXCEPT !.dirty = FALSE]
    <2>2. SamePlace(file[fp], q) /\ q.open = file[fp].open
      BY <1>0 DEF SamePlace, File
    <2> HIDE DEF q
    <2>3. file'[fp] \in {Closed, file[fp], q} /\ \A g \in {"log", "wr"} : g # fp => file'[g] = file[g]
      BY <1>0, <2>1 DEF Left, q
    <2>4. \A f \in {"log", "wr"} : file'[f].open => file[f].open /\ SamePlace(file[f], file'[f])
      BY <1>0, <1>3, <2>2, <2>3
    <2>5. UNCHANGED fat /\ pc' = "idle"
      BY <2>1
    <2> QED BY <1>4, <1>5, <2>4, <2>5
  <1>29. ASSUME SyncEntry PROVE PlaceInv'
    <2> DEFINE q == [[file[fp] EXCEPT !.dirty = FALSE] EXCEPT !.written = FALSE]
    <2>1. /\ UNCHANGED fat /\ pc' = "flush"
          /\ file' = [file EXCEPT ![fp].dirty = FALSE, ![fp].written = FALSE]
      BY <1>29 DEF SyncEntry
    <2>2. /\ file'[fp] = q /\ \A g \in {"log", "wr"} : g # fp => file'[g] = file[g]
      BY <1>0, <2>1
    <2>3. SamePlace(file[fp], q) /\ q.open = file[fp].open
      BY <1>0 DEF SamePlace, File
    <2> HIDE DEF q
    <2>4. \A f \in {"log", "wr"} : file'[f].open => file[f].open /\ SamePlace(file[f], file'[f])
      BY <1>0, <1>3, <2>2, <2>3
    <2> QED BY <1>4, <1>5, <2>1, <2>4
  <1>30. ASSUME RemoveFails PROVE PlaceInv'
    <2>1. /\ UNCHANGED fat /\ pc' = "idle"
          /\ \A f \in {"log", "wr"} : file'[f].open => file'[f] = file[f]
      BY <1>0, <1>30 DEF RemoveFails, Return, Fails
    <2>2. \A f \in {"log", "wr"} : file'[f].open => file[f].open /\ SamePlace(file[f], file'[f])
      BY <1>0, <1>3, <2>1
    <2> QED BY <1>4, <1>5, <2>1, <2>2
  <1>31. ASSUME ChainFails \/ DataFails PROVE PlaceInv'
    <2>1. PICK org \in {1} \cup Org, dirty \in BOOLEAN, sect \in Nat :
           /\ WriteError([file[fp] EXCEPT !.org = org, !.dirty = dirty, !.sect = sect])
           /\ pc \in {"write", "link", "grown"}
           /\ \/ org = file[fp].org
              \/ org = 1 /\ file[fp].fptr = 0 /\ file[fp].org = 0
           /\ dirty => file[fp].dirty /\ sect = file[fp].sect
      BY <1>0, <1>31, ErrorIs
    <2> DEFINE r == [file[fp] EXCEPT !.org = org, !.dirty = dirty, !.sect = sect]
               q == [r EXCEPT !.err = TRUE]
    <2>2. r \in File
      BY <1>0 DEF File
    <2>3. /\ q.org = org /\ q.dirty = dirty /\ q.sect = sect /\ q.err = TRUE
          /\ q.fptr = file[fp].fptr /\ q.curr = file[fp].curr /\ q.fsize = file[fp].fsize
          /\ q.sc = file[fp].sc
      BY <1>0 DEF File
    <2> HIDE DEF q
    <2>4. \/ fp = "log" /\ file' = [file EXCEPT !["log"] = q] /\ pc' = "sync"
          \/ fp = "wr" /\ file' = [file EXCEPT !["wr"] = Closed] /\ pc' = "idle"
      BY <1>0, <2>1 DEF WriteError, Return, q
    <2> HIDE DEF r
    <2>5. UNCHANGED fat
      BY <1>31 DEF ChainFails, DataFails, Fails
    <2>6. fp \in OpenFiles
      BY <1>18, <2>1 DEF Busy
    <2>7. FilePlaced(fat, q)
      <3>1. CASE org = file[fp].org
        <4>1. SamePlace(file[fp], q)
          BY <2>1, <2>3, <3>1 DEF SamePlace
        <4> QED BY <1>2, <1>4, <2>5, <2>6, <4>1
      <3>2. CASE org = 1 /\ file[fp].fptr = 0 /\ file[fp].org = 0
        <4>1. file[fp].fsize = 0
          <5>1. file[fp].fsize \in Nat /\ Reaches(fat, 0, file[fp].fsize) /\ 0 \notin Clust
            BY <1>0, <1>1, <2>6, <3>2, Constants DEF FilePlaced, File
          <5> QED BY <5>1, NoReach
        <4>2. ~q.dirty
          BY <1>1, <2>1, <2>3, <2>6, <3>2 DEF FilePlaced
        <4> QED BY <2>3, <3>2, <4>1, <4>2, NewPlaced
      <3> QED BY <2>1, <3>1, <3>2
    <2>8. CASE fp = "log" /\ file' = [file EXCEPT !["log"] = q] /\ pc' = "sync"
      <3>1. file'[fp] = q /\ \A g \in {"log", "wr"} : g # fp => file'[g] = file[g]
        BY <1>0, <2>8
      <3> QED BY <1>4, <1>17, <2>5, <2>7, <2>8, <3>1
    <2>9. CASE fp = "wr" /\ file' = [file EXCEPT !["wr"] = Closed] /\ pc' = "idle"
      <3>1. \A f \in {"log", "wr"} : file'[f].open => file[f].open /\ SamePlace(file[f], file'[f])
        BY <1>0, <1>3, <2>9
      <3> QED BY <1>4, <1>5, <2>5, <2>9, <3>1
    <2> QED BY <2>4, <2>8, <2>9
  <1>32. ASSUME Reset PROVE PlaceInv'
    <2>1. OpenFiles' = {} /\ pc' = "idle"
      BY <1>0, <1>32 DEF Reset, Return, OpenFiles
    <2> QED BY <2>1 DEF PlaceInv
  <1> QED BY <1>8, <1>9, <1>10, <1>11, <1>14, <1>15, <1>16, <1>19, <1>20, <1>23, <1>24,
             <1>25, <1>26, <1>27, <1>28, <1>29, <1>30, <1>31, <1>32
          DEF Next, Command, Call, Write, Sync, Made, DiskFails
-----------------------------------------------------------------------------
LEMMA InitIsChained == Init => ChainInv
  <1> SUFFICES ASSUME Init PROVE ChainInv
    OBVIOUS
  <1>1. /\ \A c \in Clust : fat[c] = 0
        /\ \A s \in Slots : dir[s].org = 0 /\ dir[s].size = 0
        /\ card.fat = fat /\ card.dir = dir /\ pc = "idle"
        /\ \A f \in {"log", "wr"} : ~file[f].open
    BY DEF Init, Empty, Closed
  <1>2. Sound(fat, dir)
    <2>1. Links(fat)
      BY <1>1, Constants DEF Links
    <2>2. \A s \in Slots : Root(fat, dir[s].org) /\ Reaches(fat, dir[s].org, dir[s].size)
      BY <1>1, Constants DEF Root, Reaches
    <2> QED BY <1>1, <2>1, <2>2 DEF Sound
  <1>3. OpenFiles = {} /\ ~Held
    BY <1>1 DEF OpenFiles, Held
  <1>4. OwnInv /\ PlaceInv
    BY <1>1, <1>3 DEF OwnInv, PlaceInv
  <1> QED BY <1>1, <1>2, <1>4 DEF ChainInv, SoundInv

LEMMA ChainStays ==
  ASSUME ~TouchesOpenLog, BaseInv, ChainInv, [Next]_vars
  PROVE  ChainInv'
  <1>1. CASE Next
    BY <1>1, SoundStays, OwnStays, PlaceStays DEF ChainInv
  <1>2. CASE UNCHANGED vars
    <2>1. UNCHANGED <<fat, dir, card, file, pc, fp, clust>>
      BY <1>2 DEF vars, local
    <2>2. SoundInv'
      BY <2>1 DEF ChainInv, SoundInv
    <2>3. OpenFiles' = OpenFiles /\ Held' = Held
      BY <2>1 DEF OpenFiles, Held
    <2>4. OwnInv' /\ PlaceInv'
      BY <2>1, <2>3 DEF ChainInv, OwnInv, PlaceInv
    <2> QED BY <2>2, <2>4 DEF ChainInv
  <1> QED BY <1>1, <1>2

(* The chains of FAT and card at every step of f_open, f_write, f_sync,    *)
(* f_mkdir and f_unlink, with a reset or a failure between any two of      *)
(* them: no cluster is in two chains or twice in one, none of a chain is   *)
(* free, and every chain has room for the size of its file.                *)
THEOREM Chains ==
  ASSUME ~TouchesOpenLog, ~GoesOnWhenFull
  PROVE  Spec => []ChainInv
  <1>1. BaseInv /\ ChainInv /\ [Next]_vars => ChainInv'
    BY ChainStays
  <1> QED BY <1>1, InitIsChained, Base, PTL DEF Spec

LEMMA SectorIs ==
  ASSUME BaseInv, ChainInv, NEW f \in {"log", "wr"}, file[f].open, file[f].fptr > 0,
         file[f].err => file[f].dirty
  PROVE  file[f].sect = SectorAt(fat, file[f].org, file[f].fptr - 1)
  <1> DEFINE r == file[f]
  <1>1. f \in OpenFiles
    BY DEF OpenFiles
  <1>2. PICK k \in 0 .. MaxClust, j \in 0 .. SectsClust - 1, u \in 1 .. SectSize :
          Placed(fat, r, k, j, u) /\ r.curr \in Clust
    BY <1>1, PlaceOf
  <1>3. /\ r.fptr = k * ClustSize + j * SectSize + u /\ k \in Nat
        /\ Walk(fat, r.org)[k] = r.curr /\ r.sect = clust2sect(r.curr) + j
    BY <1>2, Constants DEF Placed
  <1>4. (r.fptr - 1) \div ClustSize = k /\ ((r.fptr - 1) % ClustSize) \div SectSize = j
    BY <1>3, PositionIs
  <1> HIDE DEF r
  <1>5. SectorAt(fat, r.org, r.fptr - 1) = clust2sect(r.curr) + j
    BY <1>2, <1>3, <1>4 DEF SectorAt
  <1> QED BY <1>3, <1>5 DEF r

(* The current sector of an open file is that of the unit written last, as *)
(* long as the buffer may have to go there (f_write, f_sync).              *)
THEOREM CurrentSectorIs ==
  ASSUME ~TouchesOpenLog, ~GoesOnWhenFull
  PROVE  Spec => []CurrentSector
  <1>1. BaseInv /\ ChainInv => CurrentSector
    BY SectorIs DEF CurrentSector
  <1> QED BY <1>1, Base, Chains, PTL
-----------------------------------------------------------------------------
(* The card *)

(* The chain of an entry ends behind the clusters its size needs. *)
LEMMA ChainHasEnd ==
  ASSUME NEW F \in [Clust -> FatVal], Links(F), NEW h \in Clust, Root(F, h),
         NEW n \in Nat, Reaches(F, h, n)
  PROVE  \E i \in 1 .. MaxClust : /\ Walk(F, h)[i] = EOC
                                  /\ \A j \in 0 .. i - 1 : Walk(F, h)[j] \in Clust
                                  /\ n <= i * ClustSize
  <1> DEFINE T == {i \in 0 .. MaxClust : Walk(F, h)[i] \notin Clust}
  <1>0. MaxClust \in Nat /\ ClustSize \in Nat \ {0} /\ 0 \in 0 .. MaxClust /\ MaxClust \in 0 .. MaxClust
    BY Constants
  <1>1. T \in SUBSET Nat /\ T # {}
    <2>1. Walk(F, h)[MaxClust] \notin Clust
      <3>1. Walk(F, h)[MaxClust] \in Clust => MaxClust + 1 \in 1 .. MaxClust
        BY <1>0, ChainEnds
      <3> QED BY <1>0, <3>1
    <2> QED BY <1>0, <2>1
  <1>2. PICK i \in T : \A m \in T : i <= m
    <2> HIDE DEF T
    <2> QED BY <1>1, Least
  <1>3. i \in 0 .. MaxClust /\ i # 0 /\ Walk(F, h)[i] \notin Clust
    BY <1>2, WalkIs
  <1>4. i \in 1 .. MaxClust /\ i - 1 \in 0 .. MaxClust /\ i - 1 + 1 = i
    BY <1>0, <1>3
  <1>5. \A j \in 0 .. i - 1 : Walk(F, h)[j] \in Clust
    <2> SUFFICES ASSUME NEW j \in 0 .. i - 1, Walk(F, h)[j] \notin Clust PROVE FALSE
      OBVIOUS
    <2>1. j \in 0 .. MaxClust /\ ~(i <= j)
      BY <1>0, <1>4
    <2>2. j \in T
      BY <2>1
    <2> QED BY <1>2, <2>1, <2>2
  <1>6. Walk(F, h)[i] = EOC
    <2>1. i - 1 \in 0 .. i - 1
      BY <1>4
    <2>2. Walk(F, h)[i - 1] \in Clust
      BY <1>5, <2>1
    <2>3. Walk(F, h)[i - 1 + 1] \in {EOC} \cup Clust
      BY <1>4, <2>2, ChainEnds
    <2> QED BY <1>3, <1>4, <2>3
  <1>7. n <= i * ClustSize
    <2>0. i \in Nat /\ i * ClustSize \in Nat
      BY <1>0, <1>4
    <2>1. CASE n = 0
      BY <2>0, <2>1
    <2>2. CASE n > 0
      <3> DEFINE q == (n - 1) \div ClustSize
                 m == (n - 1) % ClustSize
      <3>1. q \in 0 .. MaxClust /\ Walk(F, h)[q] \in Clust
        BY <2>2 DEF Reaches
      <3>2. n - 1 \in Nat
        BY <2>2
      <3>3. n - 1 = q * ClustSize + m /\ m \in 0 .. ClustSize - 1
        BY <1>0, <3>2, DivMod
      <3> HIDE DEF q, m
      <3>4. q < i
        <4> SUFFICES ASSUME ~(q < i) PROVE FALSE
          OBVIOUS
        <4>1. i \in 0 .. q
          BY <1>4, <3>1
        <4> QED BY <1>3, <3>1, <4>1, WalkDown
      <3>5. q \in Nat /\ i > q
        BY <2>0, <3>1, <3>4
      <3>6. i * ClustSize >= q * ClustSize + ClustSize /\ q * ClustSize \in Nat
        BY <1>0, <2>0, <3>5, Product
      <3> DEFINE a == q * ClustSize
                 b == i * ClustSize
      <3>7. a \in Nat /\ b \in Nat /\ b >= a + ClustSize /\ n - 1 = a + m
        BY <2>0, <3>3, <3>6
      <3> HIDE DEF a, b
      <3>8. n <= b
        BY <1>0, <3>3, <3>7
      <3> QED BY <3>8 DEF b
    <2> QED BY <2>1, <2>2
  <1> QED BY <1>4, <1>5, <1>6, <1>7

LEMMA ChainsApart ==
  ASSUME NEW F, Links(F), NEW g, NEW h, Root(F, g), Root(F, h), g # h
  PROVE  Chain(F, g) \cap Chain(F, h) = {}
  <1> SUFFICES ASSUME NEW i \in 0 .. MaxClust, NEW j \in 0 .. MaxClust,
                      Walk(F, g)[i] = Walk(F, h)[j], Walk(F, g)[i] \in Clust
               PROVE  FALSE
    BY DEF Chain
  <1> QED BY OnePlace

LEMMA NoChain ==
  ASSUME NEW F, NEW h, h \notin Clust
  PROVE  Chain(F, h) = {}
  <1> SUFFICES ASSUME NEW i \in 0 .. MaxClust, Walk(F, h)[i] \in Clust PROVE FALSE
    BY DEF Chain
  <1>1. 0 \in 0 .. i
    OBVIOUS
  <1> QED BY <1>1, WalkDown, WalkIs

LEMMA SoundIs ==
  ASSUME NEW F \in [Clust -> FatVal], NEW D \in [Slots -> Entry], Sound(F, D), NEW s \in Slots
  PROVE  /\ D[s].org # 0 \/ D[s].size > 0 =>
              \E i \in 1 .. MaxClust : /\ Walk(F, D[s].org)[i] = EOC
                                       /\ \A j \in 0 .. i - 1 : Walk(F, D[s].org)[j] \in Clust
                                       /\ D[s].size <= i * ClustSize
         /\ \A t \in Slots \ {s} : Chain(F, D[s].org) \cap Chain(F, D[t].org) = {}
  <1>0. /\ D[s].org \in Org /\ D[s].size \in Nat /\ Links(F) /\ 0 \notin Clust
        /\ \A t \in Slots : Root(F, D[t].org)
        /\ Reaches(F, D[s].org, D[s].size)
    BY Constants DEF Entry, Sound
  <1>1. ASSUME D[s].org # 0 \/ D[s].size > 0
        PROVE  D[s].org \in Clust
    <2>1. D[s].org = 0 => D[s].size = 0
      BY <1>0, NoReach
    <2> QED BY <1>0, <1>1, <2>1 DEF Org
  <1>2. D[s].org \in Clust =>
          \E i \in 1 .. MaxClust : /\ Walk(F, D[s].org)[i] = EOC
                                   /\ \A j \in 0 .. i - 1 : Walk(F, D[s].org)[j] \in Clust
                                   /\ D[s].size <= i * ClustSize
    BY <1>0, ChainHasEnd
  <1>3. ASSUME NEW t \in Slots \ {s} PROVE Chain(F, D[s].org) \cap Chain(F, D[t].org) = {}
    <2>1. D[s].org = D[t].org => D[s].org = 0
      BY DEF Sound
    <2>2. CASE D[s].org = 0
      BY <1>0, <2>2, NoChain
    <2>3. CASE D[s].org # D[t].org
      BY <1>0, <2>3, ChainsApart
    <2> QED BY <2>1, <2>2, <2>3
  <1> QED BY <1>1, <1>2, <1>3
-----------------------------------------------------------------------------
(* Data of clusters that no file writes to *)

LEMMA SectorIn ==
  ASSUME NEW d \in Clust, NEW j \in 0 .. SectsClust - 1
  PROVE  clust2sect(d) + j \in ClustSects(d) /\ clust2sect(d) + j \in DataSects
  <1>1. clust2sect(d) \in Nat /\ SectsClust \in Nat \ {0}
    BY SectsApart, Constants
  <1>2. /\ ClustSects(d) = clust2sect(d) .. clust2sect(d) + SectsClust - 1
        /\ ClustSects(d) \subseteq DataSects
    BY SectsApart
  <1> QED BY <1>1, <1>2

LEMMA BufferApart ==
  ASSUME BaseInv, ChainInv, NEW f \in OpenFiles, NEW c \in Clust,
         \A i \in 0 .. MaxClust : Walk(fat, file[f].org)[i] # c
  PROVE  \A x \in ClustSects(c) : BufferOut(file[f])[x] = card.data[x]
  <1> DEFINE r == file[f]
  <1>1. CASE ~r.dirty
    BY <1>1 DEF BufferOut
  <1>2. CASE r.dirty
    <2>1. r.fptr > 0
      <3>1. r.fptr # 0 /\ r.fptr \in Nat
        BY <1>2 DEF ChainInv, PlaceInv, FilePlaced, BaseInv, TypeOK, File, OpenFiles
      <3> QED BY <3>1
    <2>2. PICK k \in 0 .. MaxClust, j \in 0 .. SectsClust - 1, u \in 1 .. SectSize :
            Placed(fat, r, k, j, u) /\ r.curr \in Clust
      BY <2>1, PlaceOf
    <2>3. r.sect = clust2sect(r.curr) + j /\ r.curr # c
      BY <1>2, <2>2 DEF Placed
    <2>4. r.sect \in ClustSects(r.curr)
      BY <2>2, <2>3, SectorIn
    <2>5. r.sect \notin ClustSects(c)
      BY <2>2, <2>3, <2>4, SectsApart
    <2>6. ClustSects(c) \subseteq DataSects /\ card.data \in [DataSects -> Int]
      BY SectsApart DEF BaseInv, TypeOK, Card
    <2> HIDE DEF r
    <2>7. \A x \in DataSects : x # r.sect =>
            Written(card.data, r, LastSect(r), r.sect, r.buf)[x] = card.data[x]
      BY <2>6 DEF Written
    <2>8. BufferOut(r) = Written(card.data, r, LastSect(r), r.sect, r.buf)
      BY <1>2 DEF BufferOut, r
    <2> QED BY <2>5, <2>6, <2>7, <2>8 DEF r
  <1> QED BY <1>1, <1>2

LEMMA PutApart ==
  ASSUME BaseInv, ChainInv, fp \in OpenFiles, NEW c \in Clust,
         \A i \in 0 .. MaxClust : Walk(fat, file[fp].org)[i] # c,
         NEW r \in File, NEW s \in Nat, Put(r, s), NEW j \in 0 .. SectsClust - 1,
         r.sc = SectsClust - j, r.curr \in Clust, r.curr # c, s = clust2sect(r.curr) + j
  PROVE  \A x \in ClustSects(c) : card'.data[x] = card.data[x]
  <1> DEFINE out   == BufferOut(file[fp])
             whole == Lesser(btw \div SectSize, r.sc)
             at(i) == r.fptr + (i - s) * SectSize
             run   == [i \in DataSects |->
                         IF i \in s .. s + whole - 1
                         THEN Written(out, r, at(i), i, SectSize)[i]
                         ELSE out[i]]
  <1>1. \A x \in ClustSects(c) : out[x] = card.data[x]
    BY BufferApart
  <1>2. TypeOK /\ btw \in Nat /\ file[fp] \in File /\ card \in Card
    BY DEF BaseInv, TypeOK, OpenFiles
  <1>3. btw \div SectSize \in Nat
    BY <1>2, DivMod, Constants
  <1>4. whole \in 0 .. r.sc
    BY <1>3, Constants DEF Lesser
  <1>5. out \in [DataSects -> Int]
    BY <1>2, BufferOutIs DEF Card
  <1> HIDE DEF whole, out, at
  <1>6. \A x \in s .. s + whole - 1 : x \in ClustSects(r.curr)
    <2> SUFFICES ASSUME NEW x \in s .. s + whole - 1 PROVE x \in ClustSects(r.curr)
      OBVIOUS
    <2>1. /\ ClustSects(r.curr) = clust2sect(r.curr) .. clust2sect(r.curr) + SectsClust - 1
          /\ clust2sect(r.curr) \in Nat /\ SectsClust \in Nat
      BY SectsApart, Constants
    <2>2. PICK a \in Nat, b \in Nat : a = clust2sect(r.curr) /\ b = SectsClust
      BY <2>1
    <2>3. s = a + j /\ r.sc = b - j /\ j \in 0 .. b - 1 /\ whole \in 0 .. b - j
      BY <1>4, <2>2
    <2>4. x \in a .. a + b - 1
      BY <2>3
    <2> QED BY <2>1, <2>2, <2>4
  <1>7. /\ \A x \in ClustSects(c) : x \notin s .. s + whole - 1
        /\ ClustSects(c) \subseteq DataSects
    BY <1>6, SectsApart
  <1>8. \A x \in ClustSects(c) : run[x] = out[x]
    BY <1>7
  <1>9. card' = [card EXCEPT !.data = run] \/ card' = [card EXCEPT !.data = out]
    BY DEF Put, whole, out, at
  <1> HIDE DEF run
  <1>10. card'.data = run \/ card'.data = out
    BY <1>2, <1>9 DEF Card
  <1> QED BY <1>1, <1>8, <1>10

(* These steps write data of the file of the running call. *)
Puts == WriteNextSector \/ WriteGrown \/ SyncEntry \/ DataFails \/ SyncFails

LEMMA PutsIs ==
  ASSUME BaseInv, Puts
  PROVE  pc \in {"write", "grown", "sync", "flush"} /\ fp \in OpenFiles
  <1>1. pc \in {"write", "grown", "sync", "flush"}
    BY DEF Puts, WriteNextSector, WriteGrown, SyncEntry, DataFails, SyncFails, AtBoundary
  <1> QED BY <1>1 DEF BaseInv, TypeOK, CallInv, Busy, OpenFiles

(* What a step does to a cluster in use that the running call does not     *)
(* write to: nothing, unless it becomes the table of a directory.          *)
LEMMA DataApart ==
  ASSUME BaseInv, ChainInv, Command \/ Call \/ DiskFails, NEW c \in Clust,
         fat[c] # 0, ~(RemoveNext /\ clust = c),
         Puts => \A i \in 0 .. MaxClust : Walk(fat, file[fp].org)[i] # c,
         NEW x \in ClustSects(c)
  PROVE  \/ card'.data[x] = card.data[x]
         \/ /\ card'.data[x] = Table
            /\ \/ winflag /\ win = TableSect(c) /\ x = clust2sect(c)
               \/ pc = "table" /\ clust = c
  <1>0. /\ TypeOK /\ Coherent /\ NamesInv /\ CallInv /\ FilesInv /\ EntryInv
        /\ fp \in {"log", "wr"} /\ file[fp] \in File /\ card \in Card /\ x \in DataSects
        /\ file \in [{"log", "wr"} -> File] /\ card.data \in [DataSects -> Int] /\ PlaceInv
    BY SectsApart DEF BaseInv, TypeOK, ChainInv, Card
  <1> DEFINE Same(data) == \/ data[x] = card.data[x]
                           \/ /\ data[x] = Table
                              /\ winflag /\ win = TableSect(c) /\ x = clust2sect(c)
  <1>1. \A data : data[x] = card.data[x] => Same(data) /\ Same(TableOut(data))
    <2> SUFFICES ASSUME NEW data, data[x] = card.data[x]
                 PROVE  Same(data) /\ Same(TableOut(data))
      OBVIOUS
    <2>1. Same(data)
      OBVIOUS
    <2>2. CASE winflag /\ \E k \in Clust : win = TableSect(k) /\ x = clust2sect(k)
      <3>1. PICK k \in Clust : win = TableSect(k) /\ x = clust2sect(k)
        BY <2>2
      <3>2. x \in ClustSects(k)
        BY <3>1, SectsApart, Constants
      <3>3. k = c
        BY <3>2, SectsApart
      <3>4. TableOut(data)[x] = Table
        BY <1>0, <2>2 DEF TableOut
      <3> QED BY <2>1, <2>2, <3>1, <3>3, <3>4
    <2>3. CASE ~(winflag /\ \E k \in Clust : win = TableSect(k) /\ x = clust2sect(k))
      BY <1>0, <2>1, <2>3 DEF TableOut
    <2> QED BY <2>2, <2>3
  <1>2. Same(card.data) /\ Same(TableOut(card.data))
    BY <1>1
  <1>3. \A s : Same(Moved(s).data)
    BY <1>0, <1>2, MovedIs
  <1>4. Same(Flushed.data)
    BY <1>0, <1>2, FlushedIs
  <1>5. Same(Searched.data)
    BY <1>0, <1>2, <1>4, SearchedIs
  <1>6. ASSUME Puts PROVE BufferOut(file[fp])[x] = card.data[x]
    BY <1>6, PutsIs, BufferApart
  <1>7. ASSUME NEW d \in [DataSects -> Int], d[x] = card.data[x],
               NEW e \in Card, e = [card EXCEPT !.data = d]
        PROVE  Same(e.data) /\ Same(FlushedTo(e).data)
    <2>1. e.data = d /\ e.fat = card.fat /\ e.dir = card.dir
      BY <1>0, <1>7 DEF Card
    <2>2. FlushedTo(e).data = TableOut(d)
      BY <1>0, <2>1, FlushedToIs
    <2> QED BY <1>1, <1>7, <2>1, <2>2
  <1>8. ASSUME pc \in Busy PROVE fp \in OpenFiles
    BY <1>0, <1>8 DEF CallInv, OpenFiles
  <1> HIDE DEF Same
  <1>9. ASSUME Command PROVE Same(card'.data)
    BY <1>2, <1>3, <1>4, <1>9 DEF Command, LogOpen, CatOpen, Unlink, LogWrite, CatWrite, CatRead,
                LogStop, CatClose, Mkdir, Create, Modify, Look
  <1>10. ASSUME NEW k, k # c, NEW e \in Card, Same(e.data),
                card' = [e EXCEPT !.data = Cleared(@, k)], k \in Clust
         PROVE  Same(card'.data)
    <2>1. card'.data = Cleared(e.data, k)
      BY <1>10 DEF Card
    <2>2. x \notin ClustSects(k)
      BY <1>10, SectsApart
    <2>3. card'.data[x] = e.data[x]
      BY <1>0, <2>1, <2>2 DEF Cleared
    <2> QED BY <1>10, <2>3 DEF Same
  <1>11. ASSUME RemoveNext PROVE Same(card'.data)
    <2>1. /\ clust \in Clust /\ clust # c
          /\ card' = [Moved(FatSect(clust)) EXCEPT !.data = Cleared(@, clust)]
      <3>1. /\ clust \in Clust
            /\ card' = [Moved(FatSect(clust)) EXCEPT !.data = Cleared(@, clust)]
        BY <1>11 DEF RemoveNext
      <3> QED BY <1>11, <3>1
    <2>2. Moved(FatSect(clust)) \in Card
      BY <1>0, MovedIs
    <2> QED BY <1>3, <1>10, <2>1, <2>2
  <1>12. ASSUME WriteAllocate \/ (MkdirAllocate /\ Free # {}) PROVE Same(card'.data)
    <2>1. /\ Free # {} /\ card' = [Searched EXCEPT !.data = Cleared(@, FirstFree)]
      BY <1>12 DEF WriteAllocate, MkdirAllocate
    <2>2. FirstFree \in Clust /\ FirstFree # c
      BY <1>0, <2>1, FirstFreeIs
    <2>3. Searched \in Card
      BY <1>0, SearchedIs
    <2> QED BY <1>5, <1>10, <2>1, <2>2, <2>3
  <1>13. ASSUME \/ WriteBuffer \/ WriteKnownCluster \/ WriteLink \/ WriteFull \/ WriteEnd
                \/ SyncNothing \/ SyncFlush \/ RemoveEnd \/ (MkdirAllocate /\ Free = {})
                \/ MkdirEntry \/ MkdirSync
         PROVE  Same(card'.data)
    BY <1>2, <1>3, <1>4, <1>5, <1>13
       DEF WriteBuffer, WriteKnownCluster, WriteLink, WriteFull, WriteEnd, SyncNothing, SyncFlush,
           RemoveEnd, MkdirAllocate, MkdirEntry, MkdirSync, Modify, Look
  <1>14. ASSUME WriteNextSector \/ WriteGrown PROVE Same(card'.data)
    <2>1. PICK r \in File, s \in Nat, k \in 0 .. MaxClust, j \in 0 .. SectsClust - 1 :
            PutAt(r, s, k, j)
      BY <1>14, PutWhere
    <2>2. fp \in OpenFiles /\ \A i \in 0 .. MaxClust : Walk(fat, file[fp].org)[i] # c
      BY <1>14, PutsIs DEF Puts
    <2>3. r.curr # c
      BY <2>1, <2>2 DEF PutAt
    <2>4. card'.data[x] = card.data[x]
      BY <2>1, <2>2, <2>3, PutApart DEF PutAt
    <2> QED BY <2>4 DEF Same
  <1>16. ASSUME Puts
         PROVE  \A e : e = [card EXCEPT !.data = BufferOut(file[fp])] =>
                         Same(e.data) /\ Same(FlushedTo(e).data)
    <2>1. BufferOut(file[fp]) \in [DataSects -> Int]
      BY <1>0, BufferOutIs
    <2>2. [card EXCEPT !.data = BufferOut(file[fp])] \in Card
      BY <1>0, <2>1, WithDataIs
    <2> QED BY <1>6, <1>7, <1>16, <2>1, <2>2
  <1>17. ASSUME SyncEntry PROVE Same(card'.data)
    <2> DEFINE e == [card EXCEPT !.data = BufferOut(file[fp])]
    <2>1. pc = "sync" /\ (card' = e \/ card' = FlushedTo(e))
      BY <1>17 DEF SyncEntry
    <2> HIDE DEF e
    <2>2. Same(e.data) /\ Same(FlushedTo(e).data)
      BY <1>16, <1>17 DEF Puts, e
    <2> QED BY <2>1, <2>2
  <1>18. ASSUME DataFails \/ SyncFails PROVE Same(card'.data)
    <2> DEFINE e == [card EXCEPT !.data = BufferOut(file[fp])]
    <2>1. /\ pc \in {"grown", "write", "flush", "sync"}
          /\ card' = card \/ card' = e \/ card' = FlushedTo(e)
      BY <1>18 DEF DataFails, SyncFails, AtBoundary, Missed
    <2> HIDE DEF e
    <2>2. Same(e.data) /\ Same(FlushedTo(e).data)
      BY <1>16, <1>18 DEF Puts, e
    <2> QED BY <1>2, <2>1, <2>2
  <1>19. ASSUME ChainFails \/ RemoveFails \/ MkdirFails \/ TableFails PROVE Same(card'.data)
    <2>1. card' = card \/ card' = Flushed
      BY <1>19 DEF ChainFails, RemoveFails, MkdirFails, TableFails, Missed, Flushed
    <2> QED BY <1>2, <1>4, <2>1
  <1>20. ASSUME MkdirTable
         PROVE  Same(card'.data) \/ (card'.data[x] = Table /\ pc = "table" /\ clust = c)
    <2>1. /\ pc = "table"
          /\ card' = [Flushed EXCEPT !.data = [s \in DataSects |->
               IF s \in ClustSects(clust) \ {clust2sect(clust)} THEN Table ELSE Flushed.data[s]]]
      BY <1>20 DEF MkdirTable
    <2>2. clust \in Clust /\ Flushed \in Card
      BY <1>0, <2>1, FlushedIs DEF CallInv
    <2>3. card'.data[x] =
            IF x \in ClustSects(clust) \ {clust2sect(clust)} THEN Table ELSE Flushed.data[x]
      BY <1>0, <2>1, <2>2 DEF Card
    <2>4. x \in ClustSects(clust) => clust = c
      BY <2>2, SectsApart
    <2> QED BY <1>4, <2>1, <2>3, <2>4 DEF Same
  <1>21. Same(card'.data) \/ (card'.data[x] = Table /\ pc = "table" /\ clust = c)
    BY <1>9, <1>11, <1>12, <1>13, <1>14, <1>17, <1>18, <1>19, <1>20
       DEF Call, Write, Sync, Made, DiskFails
  <1> QED BY <1>21 DEF Same
-----------------------------------------------------------------------------
(* Tables of directories *)

(* Where the first cluster of an open file comes from. *)
LEMMA OrgChanges ==
  ASSUME BaseInv, Command \/ Call \/ DiskFails, NEW f \in OpenFiles'
  PROVE  \/ f \in OpenFiles /\ file'[f].org = file[f].org
         \/ file'[f].org \in {0, 1}
         \/ \E t \in Slots : ~dir[t].isDir /\ file'[f].org = dir[t].org
         \/ fat[file'[f].org] = 0
  <1> DEFINE Good == \/ f \in OpenFiles /\ file'[f].org = file[f].org
                     \/ file'[f].org \in {0, 1}
                     \/ \E t \in Slots : ~dir[t].isDir /\ file'[f].org = dir[t].org
                     \/ fat[file'[f].org] = 0
  <1>0. /\ TypeOK /\ Coherent /\ NamesInv /\ CallInv /\ fp \in {"log", "wr"}
        /\ file \in [{"log", "wr"} -> File] /\ f \in {"log", "wr"} /\ file'[f].open
    BY DEF BaseInv, TypeOK, OpenFiles
  <1>1. ASSUME \/ (\E k : LogWrite(k) \/ CatWrite(k) \/ CatRead(k)) \/ LogStop \/ CatClose \/ Mkdir
               \/ WriteBuffer \/ WriteNextSector \/ WriteKnownCluster \/ WriteGrown \/ WriteFull
               \/ WriteEnd \/ Sync \/ (RemoveEnd /\ after = "unlink")
               \/ (MkdirAllocate /\ Free = {}) \/ MkdirTable \/ MkdirEntry \/ MkdirSync \/ DiskFails
        PROVE  Good
    <2>1. SameFiles
      BY <1>1, SameFilesIs
    <2> QED BY <1>0, <2>1 DEF SameFiles, OpenFiles
  <1>2. ASSUME UNCHANGED file PROVE Good
    BY <1>0, <1>2 DEF OpenFiles
  <1>3. ASSUME NEW g \in {"log", "wr"}, NEW n \in Name, Create(g, n), UNCHANGED fat PROVE Good
    <2>1. /\ \A h \in {"log", "wr"} : h # g => file'[h] = file[h]
          /\ file'[g] = [Closed EXCEPT !.open = TRUE, !.slot = FreeSlot, !.org = 0, !.fsize = 0]
      BY <1>0, <1>3, CreateIs
    <2>2. file'[g].org = 0
      BY <2>1 DEF Closed
    <2> QED BY <1>0, <2>1, <2>2 DEF OpenFiles
  <1>4. ASSUME NEW n \in Name, LogOpen(n) PROVE Good
    <2>1. CASE Create("log", n) /\ UNCHANGED fat
      BY <1>3, <2>1
    <2>2. ASSUME NEW s \in Slots, file' = [file EXCEPT !["log"].slot = s] PROVE Good
      BY <1>0, <2>2 DEF File, OpenFiles
    <2> QED BY <1>4, <2>1, <2>2 DEF LogOpen
  <1>5. ASSUME NEW n \in Name, CatOpen(n) PROVE Good
    <2>1. CASE Create("wr", n) /\ UNCHANGED fat
      BY <1>3, <2>1
    <2>2. ASSUME NEW s \in Slots, ~dir[s].isDir, Opened("wr", s, dir[s].org, dir[s].size)
          PROVE  Good
      <3>1. file'["log"] = file["log"] /\ file'["wr"].org = dir[s].org
        BY <1>0, <2>2 DEF Opened, Closed
      <3> QED BY <1>0, <2>2, <3>1 DEF OpenFiles
    <2> QED BY <1>5, <2>1, <2>2 DEF CatOpen
  <1>6. ASSUME RemoveEnd, after # "unlink" PROVE Good
    <2>1. Opened("log", file["log"].slot, 0, 0)
      BY <1>6 DEF RemoveEnd
    <2>2. file'["wr"] = file["wr"] /\ file'["log"].org = 0
      BY <1>0, <2>1 DEF Opened, Closed
    <2> QED BY <1>0, <2>2 DEF OpenFiles
  <1>7. ASSUME WriteAllocate PROVE Good
    <2>1. UNCHANGED file \/ (file' = [file EXCEPT ![fp].org = FirstFree] /\ Free # {})
      BY <1>7 DEF WriteAllocate
    <2>2. CASE file' = [file EXCEPT ![fp].org = FirstFree] /\ Free # {}
      <3>1. fat[FirstFree] = 0
        BY <1>0, <2>2, FirstFreeIs
      <3>2. \A g \in {"log", "wr"} : /\ file'[g].open = file[g].open
                                     /\ file'[g].org = IF g = fp THEN FirstFree ELSE file[g].org
        BY <1>0, <2>2 DEF File
      <3> QED BY <1>0, <3>1, <3>2 DEF OpenFiles
    <2> QED BY <1>2, <2>1, <2>2
  <1>8. ASSUME \/ (\E n \in Name : Unlink(n)) \/ WriteLink \/ RemoveNext
               \/ (MkdirAllocate /\ Free # {})
        PROVE  Good
    <2>1. UNCHANGED file
      BY <1>8 DEF Unlink, WriteLink, RemoveNext, MkdirAllocate
    <2> QED BY <1>2, <2>1
  <1> HIDE DEF Good
  <1>9. Good
    BY <1>1, <1>4, <1>5, <1>6, <1>7, <1>8 DEF Command, Call, Write, Sync, Made
  <1> QED BY <1>9 DEF Good

LEMMA OnlyTable ==
  ASSUME Next, pc' = "entry"
  PROVE  MkdirTable
  <1>1. ASSUME Command PROVE FALSE
    BY <1>1 DEF Command, LogOpen, CatOpen, Unlink, LogWrite, CatWrite, CatRead, LogStop,
                CatClose, Mkdir
  <1>2. ASSUME DiskFails \/ Reset PROVE FALSE
    BY <1>2 DEF DiskFails, ChainFails, DataFails, SyncFails, RemoveFails, MkdirFails,
                TableFails, Fails, WriteError, Return, Reset
  <1>3. ASSUME Write PROVE FALSE
    BY <1>3 DEF Write, WriteBuffer, WriteNextSector, WriteKnownCluster, WriteAllocate, WriteLink,
                WriteGrown, WriteFull, WriteEnd, WriteSearch, AtBoundary
  <1>4. ASSUME Sync \/ RemoveNext \/ RemoveEnd \/ MkdirAllocate \/ MkdirEntry \/ MkdirSync PROVE FALSE
    BY <1>4 DEF Sync, SyncNothing, SyncEntry, SyncFlush, RemoveNext, RemoveEnd, MkdirAllocate,
                MkdirEntry, MkdirSync, Return
  <1> QED BY <1>1, <1>2, <1>3, <1>4 DEF Next, Call, Made

(* A cluster that is nobody's but a directory's stays clean. *)
LEMMA CleanStays ==
  ASSUME BaseInv, ChainInv, Command \/ Call \/ DiskFails, NEW c \in Clust, Clean(c), Root(fat, c),
         \A f \in OpenFiles : file[f].org # c, ~(RemoveNext /\ clust = c)
  PROVE  \A x \in ClustSects(c) : card'.data[x] = Table
  <1>1. ASSUME NEW f \in OpenFiles, NEW i \in 0 .. MaxClust PROVE Walk(fat, file[f].org)[i] # c
    <2>1. Walk(fat, c)[0] = c /\ 0 \in 0 .. MaxClust
      BY WalkIs, Constants
    <2>2. Links(fat) /\ Root(fat, file[f].org)
      BY DEF ChainInv, SoundInv, Sound, OwnInv
    <2> QED BY <2>1, <2>2, OnePlace
  <1>2. fat[c] # 0
    BY DEF Root
  <1>3. Puts => \A i \in 0 .. MaxClust : Walk(fat, file[fp].org)[i] # c
    BY <1>1, PutsIs
  <1>4. \A x \in ClustSects(c) : card'.data[x] = card.data[x] \/ card'.data[x] = Table
    BY <1>2, <1>3, DataApart
  <1> QED BY <1>4 DEF Clean

LEMMA TableStays ==
  ASSUME BaseInv, ChainInv, TableInv, BaseInv', ChainInv', ~TouchesOpenLog, Next
  PROVE  TableInv'
  <1>0. /\ TypeOK /\ Coherent /\ Names(dir) /\ Names(card.dir) /\ CallInv /\ EntryInv
        /\ Sound(fat, dir) /\ Sound(card.fat, card.dir) /\ OwnInv /\ dir \in [Slots -> Entry]
        /\ EntryInv' /\ OwnInv' /\ Sound(fat', dir') /\ 0 \notin Clust /\ 1 \notin Clust
    BY Constants DEF BaseInv, NamesInv, ChainInv, SoundInv, TypeOK
  <1>1. CASE Reset
    <2>1. /\ fat' = card.fat /\ dir' = card.dir /\ pc' = "idle" /\ OpenFiles' = {}
          /\ card'.dir = card.dir
      BY <1>0, <1>1, ResetTypes DEF Reset, Return, OpenFiles, Closed
    <2>2. ASSUME NEW s \in Slots, card.dir[s].isDir
          PROVE  \A x \in ClustSects(card.dir[s].org) : card'.data[x] = Table
      <3> DEFINE k == card.dir[s].org
                 used == UNION {Chain(card.fat, card.dir[t].org) : t \in Slots}
      <3>1. k \in Clust /\ Clean(k)
        BY <1>0, <2>2 DEF Names, TableInv
      <3>2. Walk(card.fat, k)[0] = k /\ 0 \in 0 .. MaxClust
        BY WalkIs, Constants
      <3>3. k \in Chain(card.fat, k)
        BY <3>1, <3>2 DEF Chain
      <3>4. k \in used
        BY <3>3
      <3>5. card' = [card EXCEPT !.data = [x \in DataSects |->
                 IF \E c \in used : x \in ClustSects(c) THEN card.data[x] ELSE 0]]
        BY <1>1 DEF Reset
      <3> HIDE DEF used
      <3>6. \A x \in DataSects : card'.data[x] =
                 IF \E c \in used : x \in ClustSects(c) THEN card.data[x] ELSE 0
        BY <1>0, <3>5 DEF TypeOK, Card
      <3> HIDE DEF k
      <3>7. \A x \in ClustSects(k) : x \in DataSects
        BY <3>1, SectsApart
      <3>8. \A x \in ClustSects(k) : card'.data[x] = card.data[x]
        BY <3>4, <3>6, <3>7
      <3> QED BY <3>1, <3>8 DEF Clean, k
    <2>3. \A s \in Slots : card.dir[s].isDir =>
             /\ Root(card.fat, card.dir[s].org)
             /\ \A t \in Slots : card.dir[t].org = card.dir[s].org => card.dir[t].isDir
      BY <1>0 DEF Sound, Names
    <2> QED BY <2>1, <2>2, <2>3 DEF TableInv, Clean
  <1>2. CASE Command \/ Call \/ DiskFails
    <2>1. ASSUME NEW s \in Slots, dir[s].isDir
          PROVE  /\ dir[s].org \in Clust /\ Root(fat, dir[s].org)
                 /\ \A f \in OpenFiles : file[f].org # dir[s].org
                 /\ \A x \in ClustSects(dir[s].org) : card'.data[x] = Table
      <3>1. dir[s].org \in Clust /\ Root(fat, dir[s].org) /\ Clean(dir[s].org)
        BY <1>0, <2>1 DEF Names, Sound, TableInv
      <3>2. \A f \in OpenFiles : file[f].org # dir[s].org
        BY <1>0, <2>1, <3>1 DEF OwnInv, OpenFiles, EntryInv
      <3>3. ~(RemoveNext /\ clust = dir[s].org)
        BY <1>0, <3>1 DEF OwnInv, Held, RemoveNext
      <3> QED BY <1>2, <3>1, <3>2, <3>3, CleanStays
    <2>2. ASSUME NEW s \in Slots, dir'[s].isDir
          PROVE  \A x \in ClustSects(dir'[s].org) : card'.data[x] = Table
      <3>1. CASE dir'[s] = dir[s]
        BY <2>1, <2>2, <3>1
      <3>2. CASE dir'[s] # dir[s]
        <4>1. MkdirEntry /\ dir'[s].org = clust
          BY <1>2, <2>2, <3>2, DirChanges
        <4>2. /\ pc = "entry" /\ clust \in Clust /\ card' = Moved(DirSect)
              /\ win = TableSect(clust) /\ winflag
          BY <1>0, <4>1 DEF MkdirEntry, Modify, CallInv, TableInv
        <4>3. card'.data = TableOut(card.data)
          BY <1>0, <4>2, MovedIs, TableSectIs
        <4>4. ASSUME NEW x \in ClustSects(clust) PROVE card'.data[x] = Table
          <5>1. x \in DataSects
            BY <4>2, <4>4, SectsApart
          <5>2. x # clust2sect(clust) => card.data[x] = Table
            BY <4>2, <4>4 DEF TableInv
          <5> QED BY <4>2, <4>3, <5>1, <5>2 DEF TableOut
        <4> QED BY <4>1, <4>4
      <3> QED BY <3>1, <3>2
    (* What is on the card was there before, or comes from the directory. *)
    <2>3. ASSUME NEW s \in Slots, dir[s].isDir
          PROVE  /\ Root(fat', dir[s].org)
                 /\ \A f \in OpenFiles' : file'[f].org # dir[s].org
                 /\ \A t \in Slots : dir'[t].org = dir[s].org => dir'[t].isDir
      <3>0. dir[s].org \in Clust /\ Root(fat, dir[s].org) /\ fat[dir[s].org] # 0
        BY <2>1, <2>3 DEF Root
      <3>1. \A f \in OpenFiles' : file'[f].org # dir[s].org
        <4> SUFFICES ASSUME NEW f \in OpenFiles', file'[f].org = dir[s].org PROVE FALSE
          OBVIOUS
        <4>1. f \in OpenFiles => file[f].org # dir[s].org
          BY <2>1, <2>3
        <4>2. \A t \in Slots : dir[t].org = dir[s].org => dir[t].isDir
          BY <1>0, <2>3, <3>0 DEF Sound
        <4> QED BY <1>0, <1>2, <3>0, <4>1, <4>2, OrgChanges
      <3>2. CASE dir'[s] = dir[s]
        <4>1. Root(fat', dir'[s].org)
          BY <1>0 DEF Sound
        <4>2. \A t \in Slots : dir'[t].org = dir'[s].org => t = s \/ dir'[t].org = 0
          BY <1>0 DEF Sound
        <4> QED BY <1>0, <2>3, <3>0, <3>1, <3>2, <4>1, <4>2
      <3>3. CASE dir'[s] # dir[s]
        <4>1. UNCHANGED fat
          BY <1>2, <3>3, DirChanges
        <4>2. PICK u \in Slots : /\ \A t \in Slots : t # u => dir'[t] = dir[t]
                                 /\ \/ dir'[u].org = 0
                                    \/ u = file[fp].slot /\ fp \in OpenFiles
                                    \/ dir[u].name = NoName
          BY <1>2, <3>3, DirChanges
        <4>3. u = s
          BY <3>3, <4>2
        <4>4. ~(u = file[fp].slot /\ fp \in OpenFiles)
          BY <1>0, <2>3, <4>3 DEF OpenFiles, EntryInv
        <4>5. dir[u].name # NoName
          BY <1>0, <2>3, <4>3 DEF Names, Empty
        <4>6. dir'[s].org = 0
          BY <4>2, <4>3, <4>4, <4>5
        <4>7. \A t \in Slots : dir'[t].org = dir[s].org => FALSE
          BY <1>0, <3>0, <4>2, <4>3, <4>6 DEF Sound
        <4> QED BY <3>0, <3>1, <4>1, <4>7
      <3> QED BY <3>2, <3>3
    <2>4. ASSUME card'.dir = card.dir, UNCHANGED fat, NEW s \in Slots, card.dir[s].isDir
          PROVE  /\ Root(fat', card.dir[s].org)
                 /\ \A f \in OpenFiles' : file'[f].org # card.dir[s].org
                 /\ \A t \in Slots : dir'[t].org = card.dir[s].org => dir'[t].isDir
                 /\ \A x \in ClustSects(card.dir[s].org) : card'.data[x] = Table
      <3> DEFINE k == card.dir[s].org
      <3>0. /\ k \in Clust /\ Root(fat, k) /\ fat[k] # 0 /\ Clean(k)
            /\ \A f \in OpenFiles : file[f].org # k
            /\ \A t \in Slots : dir[t].org = k => dir[t].isDir
        <4>1. k \in Clust
          BY <1>0, <2>4 DEF Names
        <4>2. /\ Root(fat, k) /\ Clean(k) /\ (\A f \in OpenFiles : file[f].org # k)
              /\ \A t \in Slots : dir[t].org = k => dir[t].isDir
          BY <2>4 DEF TableInv
        <4> QED BY <4>1, <4>2 DEF Root
      <3> HIDE DEF k
      <3>1. \A f \in OpenFiles' : file'[f].org # k
        <4> SUFFICES ASSUME NEW f \in OpenFiles', file'[f].org = k PROVE FALSE
          OBVIOUS
        <4> QED BY <1>0, <1>2, <3>0, OrgChanges
      <3>2. \A t \in Slots : dir'[t].org = k => dir'[t].isDir
        <4> SUFFICES ASSUME NEW t \in Slots, dir'[t].org = k PROVE dir'[t].isDir
          OBVIOUS
        <4>1. CASE dir'[t] = dir[t]
          BY <3>0, <4>1
        <4>2. CASE dir'[t] # dir[t]
          <5>1. \/ dir'[t].org = 0
                \/ dir'[t].org = file[fp].org /\ fp \in OpenFiles
                \/ dir'[t].isDir
            BY <1>2, <4>2, DirChanges
          <5> QED BY <1>0, <3>0, <5>1
        <4> QED BY <4>1, <4>2
      <3>3. ~(RemoveNext /\ clust = k)
        <4> SUFFICES ASSUME RemoveNext, clust = k PROVE FALSE
          OBVIOUS
        <4>1. fat' = [fat EXCEPT ![k] = 0]
          BY DEF RemoveNext
        <4>2. fat'[k] = 0
          BY <1>0, <3>0, <4>1 DEF TypeOK
        <4> QED BY <2>4, <3>0, <4>2
      <3>4. \A x \in ClustSects(k) : card'.data[x] = Table
        BY <1>2, <3>0, <3>3, CleanStays
      <3> QED BY <2>4, <3>0, <3>1, <3>2, <3>4 DEF k
    <2>5. card'.dir = dir \/ (card'.dir = card.dir /\ UNCHANGED fat)
      <3>1. CardMoves /\ (UNCHANGED fat \/ \E c \in Clust : \E v \in FatVal : SetFat(c, v))
        BY <1>2, StepTypes DEF WindowStep, SetDir
      <3> QED BY <1>0, <3>1, FatSetFlushes DEF CardMoves
    <2>6. \A s \in Slots : card'.dir[s].isDir =>
             /\ Root(fat', card'.dir[s].org)
             /\ \A f \in OpenFiles' : file'[f].org # card'.dir[s].org
             /\ \A t \in Slots : dir'[t].org = card'.dir[s].org => dir'[t].isDir
             /\ \A x \in ClustSects(card'.dir[s].org) : card'.data[x] = Table
      <3>1. CASE card'.dir = dir
        BY <2>1, <2>3, <3>1
      <3>2. CASE card'.dir = card.dir /\ UNCHANGED fat
        BY <2>4, <3>2
      <3> QED BY <2>5, <3>1, <3>2
    <2>7. pc' = "entry" =>
            /\ win' = TableSect(clust') /\ winflag'
            /\ \A x \in ClustSects(clust') \ {clust2sect(clust')} : card'.data[x] = Table
      <3> SUFFICES ASSUME pc' = "entry"
                   PROVE  /\ win' = TableSect(clust') /\ winflag'
                          /\ \A x \in ClustSects(clust') \ {clust2sect(clust')} : card'.data[x] = Table
        OBVIOUS
      <3>1. MkdirTable
        BY OnlyTable
      <3>2. /\ pc = "table" /\ clust' = clust /\ win' = TableSect(clust) /\ winflag'
            /\ card' = [Flushed EXCEPT !.data = [s \in DataSects |->
               IF s \in ClustSects(clust) \ {clust2sect(clust)} THEN Table ELSE Flushed.data[s]]]
        BY <3>1 DEF MkdirTable, local
      <3>3. clust \in Clust /\ Flushed \in Card
        BY <1>0, <3>2, FlushedIs DEF CallInv
      <3>4. ClustSects(clust) \subseteq DataSects
        BY <3>3, SectsApart
      <3>5. \A x \in ClustSects(clust) \ {clust2sect(clust)} : card'.data[x] = Table
        BY <3>2, <3>3, <3>4 DEF Card
      <3> QED BY <3>2, <3>5
    <2> QED BY <2>2, <2>6, <2>7 DEF TableInv, Clean
  <1> QED BY <1>1, <1>2 DEF Next
-----------------------------------------------------------------------------
LEMMA InitTables == Init => TableInv
  <1> SUFFICES ASSUME Init PROVE TableInv
    OBVIOUS
  <1>1. /\ \A s \in Slots : ~dir[s].isDir
        /\ card.dir = dir /\ pc = "idle"
    BY DEF Init, Empty
  <1> QED BY <1>1 DEF TableInv

LEMMA TablesStay ==
  ASSUME ~TouchesOpenLog, BaseInv, ChainInv, TableInv, BaseInv', ChainInv', [Next]_vars
  PROVE  TableInv'
  <1>1. CASE Next
    BY <1>1, TableStays
  <1>2. CASE UNCHANGED vars
    <2>1. UNCHANGED <<fat, dir, card, file, pc, clust, win, winflag>>
      BY <1>2 DEF vars, local, window
    <2>2. OpenFiles' = OpenFiles
      BY <2>1 DEF OpenFiles
    <2>3. \A k : Clean(k)' <=> Clean(k)
      BY <2>1 DEF Clean
    <2> QED BY <2>1, <2>2, <2>3 DEF TableInv, Clean
  <1> QED BY <1>1, <1>2

LEMMA CardIs ==
  ASSUME BaseInv, ChainInv, TableInv
  PROVE  CardIsSound
  <1>1. /\ card.fat \in [Clust -> FatVal] /\ card.dir \in [Slots -> Entry]
        /\ Sound(card.fat, card.dir)
    BY DEF BaseInv, TypeOK, Card, ChainInv, SoundInv
  <1>2. ASSUME NEW s \in Slots
        PROVE  /\ card.dir[s].org # 0 \/ card.dir[s].size > 0 =>
                    \E i \in 1 .. MaxClust :
                      /\ Walk(card.fat, card.dir[s].org)[i] = EOC
                      /\ \A j \in 0 .. i - 1 : Walk(card.fat, card.dir[s].org)[j] \in Clust
                      /\ card.dir[s].size <= i * ClustSize
               /\ \A t \in Slots \ {s} :
                    Chain(card.fat, card.dir[s].org) \cap Chain(card.fat, card.dir[t].org) = {}
    BY <1>1, <1>2, SoundIs
  <1>3. ASSUME NEW s \in Slots, card.dir[s].isDir
        PROVE  \A x \in ClustSects(card.dir[s].org) : card.data[x] = Table
    BY <1>3 DEF TableInv, Clean
  <1> QED BY <1>2, <1>3 DEF CardIsSound

(* The table of a directory is written before its entry (f_mkdir) and left *)
(* alone by every write of a file as long as there is an entry for it, in  *)
(* memory or on the card.                                                  *)
THEOREM Tables ==
  ASSUME ~TouchesOpenLog, ~GoesOnWhenFull
  PROVE  Spec => []TableInv
  <1>1. BaseInv /\ ChainInv /\ BaseInv' /\ ChainInv' /\ TableInv /\ [Next]_vars => TableInv'
    BY TablesStay
  <1> QED BY <1>1, InitTables, Base, Chains, PTL DEF Spec

(* Whenever a reset comes, the file system on the card is sound: f_open,   *)
(* f_unlink, f_mkdir, create_chain and f_sync get to the card in an order  *)
(* that leaves every chain ended, long enough and apart from the others,   *)
(* and every directory clean.                                              *)
THEOREM CardStaysSound ==
  ASSUME ~TouchesOpenLog, ~GoesOnWhenFull
  PROVE  Spec => []CardIsSound
  <1>1. BaseInv /\ ChainInv /\ TableInv => CardIsSound
    BY CardIs
  <1> QED BY <1>1, Base, Chains, Tables, PTL
-----------------------------------------------------------------------------
(* Clusters in use, without resets and failures *)

LEMMA NoMishap ==
  ASSUME TypeOK, Next, mishaps' = 0
  PROVE  mishaps = 0 /\ (Command \/ Call)
  <1>1. ASSUME DiskFails \/ Reset PROVE mishaps' = mishaps + 1
    BY <1>1 DEF DiskFails, Reset, ChainFails, DataFails, SyncFails, RemoveFails,
                MkdirFails, TableFails, Fails
  <1>2. ASSUME Command \/ Call PROVE mishaps' = mishaps
    BY <1>2 DEF Command, LogOpen, CatOpen, Unlink, LogWrite, CatWrite, CatRead, LogStop,
         CatClose, Mkdir, Call, Write, WriteBuffer, WriteNextSector, WriteKnownCluster,
         WriteAllocate, WriteLink, WriteGrown, WriteFull, WriteEnd, Sync, SyncNothing,
         SyncEntry, SyncFlush, Made, MkdirAllocate, MkdirTable, MkdirEntry, MkdirSync,
         RemoveNext, RemoveEnd
  <1>3. mishaps \in Nat
    BY DEF TypeOK
  <1> QED BY <1>1, <1>2, <1>3 DEF Next

(* Only f_sync gives an open file's entry another cluster. *)
LEMMA EntryKeeps ==
  ASSUME BaseInv, ~TouchesOpenLog, Command \/ Call, ~SyncEntry, NEW f \in OpenFiles
  PROVE  dir'[file[f].slot].org = dir[file[f].slot].org
  <1>1. /\ file[f].slot \in Slots /\ dir[file[f].slot].name # NoName
    BY DEF BaseInv, EntryInv, OpenFiles
  <1>2. \/ UNCHANGED dir
        \/ \E s \in Slots : /\ \A t \in Slots : t # s => dir'[t] = dir[t]
                            /\ file[f].slot # s
    BY <1>1, DirChanges
  <1> QED BY <1>1, <1>2

LEMMA OnlyFlush ==
  ASSUME Next, pc' = "flush"
  PROVE  SyncEntry
  <1>1. ASSUME NEW n, LogOpen(n) \/ CatOpen(n) \/ Unlink(n) PROVE FALSE
    BY <1>1 DEF LogOpen, CatOpen, Unlink
  <1>2. ASSUME NEW k, LogWrite(k) \/ CatWrite(k) \/ CatRead(k) PROVE FALSE
    BY <1>2 DEF LogWrite, CatWrite, CatRead
  <1>3. ASSUME LogStop \/ CatClose \/ Mkdir \/ Reset PROVE FALSE
    BY <1>3 DEF LogStop, CatClose, Mkdir, Reset, Return
  <1>4. ASSUME DiskFails PROVE FALSE
    BY <1>4 DEF DiskFails, ChainFails, DataFails, SyncFails, RemoveFails, MkdirFails,
                TableFails, Fails, WriteError, Return
  <1>5. ASSUME Write PROVE FALSE
    BY <1>5 DEF Write, WriteBuffer, WriteNextSector, WriteKnownCluster, WriteAllocate, WriteLink,
                WriteGrown, WriteFull, WriteEnd, WriteSearch, AtBoundary
  <1>6. ASSUME SyncNothing \/ SyncFlush \/ RemoveNext \/ RemoveEnd \/ Made PROVE FALSE
    BY <1>6 DEF SyncNothing, SyncFlush, RemoveNext, RemoveEnd, Made, MkdirAllocate, MkdirTable,
                MkdirEntry, MkdirSync, Return
  <1> QED BY <1>1, <1>2, <1>3, <1>4, <1>5, <1>6 DEF Next, Command, Call, Sync

LEMMA SavedStays ==
  ASSUME BaseInv, SavedInv, ~TouchesOpenLog, Next
  PROVE  SavedInv'
  <1>0. /\ TypeOK /\ Coherent /\ NamesInv /\ CallInv /\ FilesInv /\ EntryInv /\ Names(dir)
        /\ fp \in {"log", "wr"} /\ file[fp] \in File /\ ~Closed.open
        /\ file \in [{"log", "wr"} -> File] /\ dir \in [Slots -> Entry] /\ btw \in Nat
    BY DEF BaseInv, NamesInv, TypeOK, Closed
  <1>20. ASSUME pc' = "flush" PROVE ~file'[fp'].written
    <2>1. file' = [file EXCEPT ![fp].dirty = FALSE, ![fp].written = FALSE] /\ UNCHANGED fp
      BY <1>20, OnlyFlush DEF SyncEntry, local
    <2> QED BY <1>0, <2>1 DEF File
  <1>1. SUFFICES ASSUME mishaps = 0, Command \/ Call, NEW f \in {"log", "wr"}, file'[f].open
                 PROVE  EntryHas(f)'
    BY <1>0, <1>20, NoMishap DEF SavedInv, OpenFiles
  (* A file that the step does not touch. *)
  <1>2. ASSUME file[f].open, ~(f = fp /\ pc \in Writing), ~SyncEntry,
               file'[f].slot = file[f].slot, file'[f].org = file[f].org,
               file[f].written => file'[f].written
        PROVE  EntryHas(f)'
    <2>1. f \in OpenFiles
      BY <1>2 DEF OpenFiles
    <2>2. dir'[file[f].slot].org = dir[file[f].slot].org
      BY <1>1, <1>2, <2>1, EntryKeeps
    <2>3. file[f].written \/ dir[file[f].slot].org = file[f].org
      BY <1>1, <1>2, <2>1 DEF SavedInv, EntryHas
    <2> QED BY <1>2, <2>2, <2>3 DEF EntryHas
  <1>3. ASSUME file'[f] = file[f], ~(f = fp /\ pc \in Writing), ~SyncEntry
        PROVE  EntryHas(f)'
    BY <1>1, <1>2, <1>3
  (* f_write *)
  <1>4. ASSUME pc \in Writing, pc' \in Writing, fp' = fp, ~SyncEntry,
               \A g \in {"log", "wr"} : g # fp => file'[g] = file[g]
        PROVE  EntryHas(f)'
    <2>1. CASE f = fp
      BY <1>4, <2>1 DEF EntryHas
    <2>2. CASE f # fp
      BY <1>3, <1>4, <2>2
    <2> QED BY <2>1, <2>2
  <1>5. ASSUME WriteBuffer \/ WriteKnownCluster \/ WriteAllocate \/ WriteLink \/ WriteFull
        PROVE  EntryHas(f)'
    <2>1. pc \in Writing /\ pc' \in Writing /\ fp' = fp
      BY <1>5 DEF WriteBuffer, WriteKnownCluster, WriteAllocate, WriteLink, WriteFull, local,
                  AtBoundary, WriteSearch, Writing
    <2>2. \A g \in {"log", "wr"} : g # fp => file'[g] = file[g]
      BY <1>0, <1>5 DEF WriteBuffer, WriteKnownCluster, WriteAllocate, WriteLink, WriteFull
    <2>3. ~SyncEntry
      BY <2>1 DEF SyncEntry, Writing
    <2> QED BY <1>4, <2>1, <2>2, <2>3
  <1>6. ASSUME WriteNextSector \/ WriteGrown PROVE EntryHas(f)'
    <2>1. pc \in Writing /\ pc' \in Writing /\ fp' = fp
      BY <1>6 DEF WriteNextSector, WriteGrown, AtBoundary, Writing
    <2>2. \A g \in {"log", "wr"} : g # fp => file'[g] = file[g]
      BY <1>0, <1>6 DEF WriteNextSector, WriteGrown, Put
    <2>3. ~SyncEntry
      BY <2>1 DEF SyncEntry, Writing
    <2> QED BY <1>4, <2>1, <2>2, <2>3
  <1>7. ASSUME WriteEnd PROVE EntryHas(f)'
    <2> DEFINE n == Greater(file[fp].fsize, file[fp].fptr)
    <2>1. /\ file' = [file EXCEPT ![fp] = [file[fp] EXCEPT !.fsize = n, !.written = TRUE]]
          /\ pc = "write"
      BY <1>0, <1>7 DEF WriteEnd, File
    <2> HIDE DEF n
    <2>2. file'[fp].written /\ \A g \in {"log", "wr"} : g # fp => file'[g] = file[g]
      BY <1>0, <2>1 DEF File
    <2>3. ~SyncEntry
      BY <2>1 DEF SyncEntry
    <2>4. CASE f = fp
      BY <2>2, <2>4 DEF EntryHas
    <2>5. CASE f # fp
      BY <1>3, <2>2, <2>3, <2>5
    <2> QED BY <2>4, <2>5
  (* f_sync *)
  <1>8. ASSUME SyncNothing \/ SyncFlush PROVE EntryHas(f)'
    <2>1. /\ file' = [file EXCEPT ![fp] = Left(file[fp])] /\ pc \in {"sync", "flush"}
          /\ pc' = "idle"
      BY <1>0, <1>8 DEF SyncNothing, SyncFlush, Return
    <2>2. file'[f] = file[f]
      BY <1>0, <1>1, <2>1 DEF Left
    <2>3. ~SyncEntry /\ pc \notin Writing
      BY <1>8, <2>1 DEF SyncEntry, SyncNothing, SyncFlush, Writing
    <2> QED BY <1>3, <2>2, <2>3
  <1>9. ASSUME SyncEntry PROVE EntryHas(f)'
    <2> DEFINE r == file[fp]
    <2>1. /\ dir' = [dir EXCEPT ![r.slot].org = r.org, ![r.slot].size = r.fsize]
          /\ file' = [file EXCEPT ![fp].dirty = FALSE, ![fp].written = FALSE]
          /\ pc = "sync"
      BY <1>9 DEF SyncEntry
    <2>2. r.slot \in Slots /\ r.open
      BY <1>0, <2>1 DEF CallInv, EntryInv, Busy
    <2>3. \A s \in Slots : s # r.slot => dir'[s] = dir[s]
      BY <1>0, <2>1, <2>2
    <2>4. dir'[r.slot].org = r.org
      BY <1>0, <2>1, <2>2 DEF Entry
    <2>5. /\ file'[fp].slot = r.slot /\ file'[fp].org = r.org
          /\ \A g \in {"log", "wr"} : g # fp => file'[g] = file[g]
      BY <1>0, <2>1 DEF File
    <2> HIDE DEF r
    <2>6. CASE f = fp
      BY <2>4, <2>5, <2>6 DEF EntryHas
    <2>7. CASE f # fp
      <3>1. file'[f] = file[f] /\ file[f].open
        BY <1>1, <2>5, <2>7
      <3>2. file[f].slot # r.slot /\ file[f].slot \in Slots
        BY <1>0, <2>2, <2>7, <3>1 DEF EntryInv, r
      <3>3. file[f].written \/ dir[file[f].slot].org = file[f].org
        BY <1>1, <2>7, <3>1 DEF SavedInv, EntryHas, OpenFiles
      <3> QED BY <2>3, <3>1, <3>2, <3>3 DEF EntryHas
    <2> QED BY <2>6, <2>7
  (* f_mkdir, remove_chain, and calls that begin *)
  <1>10. ASSUME \/ Made \/ RemoveNext \/ (RemoveEnd /\ after = "unlink") \/ LogStop \/ CatClose
                \/ Mkdir \/ (\E k : LogWrite(k) \/ CatWrite(k) \/ CatRead(k))
                \/ \E n \in Name : Unlink(n)
         PROVE  EntryHas(f)'
    <2>1. UNCHANGED file /\ pc \notin Writing \cup {"sync"}
      BY <1>10 DEF Made, MkdirAllocate, MkdirTable, MkdirEntry, MkdirSync, RemoveNext, RemoveEnd,
                   LogStop, CatClose, Mkdir, LogWrite, CatWrite, CatRead, Unlink, Writing
    <2>2. ~SyncEntry
      BY <2>1 DEF SyncEntry
    <2> QED BY <1>3, <2>1, <2>2
  <1>11. ASSUME RemoveEnd, after # "unlink" PROVE EntryHas(f)'
    <2>1. Opened("log", file["log"].slot, 0, 0) /\ UNCHANGED dir /\ pc = "free" /\ after = "open"
      BY <1>11 DEF RemoveEnd
    <2>2. ~SyncEntry /\ pc \notin Writing
      BY <2>1 DEF SyncEntry, Writing
    <2>3. CASE f = "log"
      <3>1. file'[f].slot = file[f].slot /\ file'[f].org = 0
        BY <1>0, <2>1, <2>3 DEF Opened, Closed
      <3>2. dir'[file[f].slot].org = 0
        BY <1>0, <2>1, <2>3 DEF EntryInv
      <3> QED BY <3>1, <3>2 DEF EntryHas
    <2>4. CASE f = "wr"
      <3>1. file'[f] = file[f]
        BY <1>0, <2>1, <2>4 DEF Opened
      <3> QED BY <1>3, <2>2, <3>1
    <2> QED BY <1>0, <1>1, <2>3, <2>4
  (* f_open *)
  <1>12. ASSUME NEW h \in {"log", "wr"}, NEW n \in Name, Create(h, n), UNCHANGED fat, pc = "idle"
         PROVE  EntryHas(f)'
    <2>1. /\ FreeSlot \in Slots
          /\ \A s \in Slots : dir'[s] =
               IF s = FreeSlot THEN [Empty EXCEPT !.name = n] ELSE dir[s]
          /\ \A g \in {"log", "wr"} : g # h => file'[g] = file[g]
          /\ file'[h] = [Closed EXCEPT !.open = TRUE, !.slot = FreeSlot, !.org = 0, !.fsize = 0]
      BY <1>0, <1>12, CreateIs
    <2>2. CASE f = h
      <3>1. file'[f].slot = FreeSlot /\ file'[f].org = 0 /\ dir'[FreeSlot].org = 0
        BY <2>1, <2>2 DEF Closed, Empty
      <3> QED BY <3>1 DEF EntryHas
    <2>3. CASE f # h
      <3>1. ~SyncEntry /\ pc \notin Writing
        BY <1>12 DEF SyncEntry, Writing
      <3> QED BY <1>3, <2>1, <2>3, <3>1
    <2> QED BY <2>2, <2>3
  <1>13. ASSUME NEW n \in Name, LogOpen(n) PROVE EntryHas(f)'
    <2>0. pc = "idle" /\ ~file["log"].open /\ UNCHANGED fat
      BY <1>13 DEF LogOpen
    <2>1. CASE Create("log", n)
      BY <1>12, <2>0, <2>1
    <2>2. ASSUME NEW s \in Slots, file' = [file EXCEPT !["log"].slot = s] PROVE EntryHas(f)'
      <3>1. file'[f] = file[f]
        BY <1>0, <1>1, <2>0, <2>2 DEF File
      <3>2. ~SyncEntry /\ pc \notin Writing
        BY <2>0 DEF SyncEntry, Writing
      <3> QED BY <1>3, <3>1, <3>2
    <2> QED BY <1>13, <2>1, <2>2 DEF LogOpen
  <1>14. ASSUME NEW n \in Name, CatOpen(n) PROVE EntryHas(f)'
    <2>0. pc = "idle" /\ UNCHANGED fat
      BY <1>14 DEF CatOpen
    <2>1. CASE Create("wr", n)
      BY <1>12, <2>0, <2>1
    <2>2. ASSUME NEW s \in Slots, Opened("wr", s, dir[s].org, dir[s].size), UNCHANGED dir
          PROVE  EntryHas(f)'
      <3>1. CASE f = "wr"
        <4>1. file'[f].slot = s /\ file'[f].org = dir[s].org
          BY <1>0, <2>2, <3>1 DEF Opened, Closed
        <4> QED BY <2>2, <4>1 DEF EntryHas
      <3>2. CASE f = "log"
        <4>1. file'[f] = file[f]
          BY <1>0, <2>2, <3>2 DEF Opened
        <4>2. ~SyncEntry /\ pc \notin Writing
          BY <2>0 DEF SyncEntry, Writing
        <4> QED BY <1>3, <4>1, <4>2
      <3> QED BY <1>1, <3>1, <3>2
    <2> QED BY <1>14, <2>1, <2>2 DEF CatOpen
  <1> QED BY <1>1, <1>5, <1>6, <1>7, <1>8, <1>9, <1>10, <1>11, <1>13, <1>14
          DEF Command, Call, Write, Sync

LEMMA WalkShift ==
  ASSUME NEW F, NEW h \in Clust, NEW i \in 1 .. MaxClust
  PROVE  Walk(F, h)[i] = Walk(F, F[h])[i - 1]
  <1> DEFINE T == {n \in 1 .. MaxClust : Walk(F, h)[n] # Walk(F, F[h])[n - 1]}
  <1>1. T = {}
    <2> SUFFICES ASSUME T # {} PROVE FALSE
      OBVIOUS
    <2>1. T \in SUBSET Nat
      BY Constants
    <2>2. PICK n \in T : \A m \in T : n <= m
      <3> HIDE DEF T
      <3> QED BY <2>1, Least
    <2>3. /\ n \in 1 .. MaxClust /\ n - 1 \in 0 .. MaxClust /\ n \in Nat
          /\ Walk(F, h)[n] # Walk(F, F[h])[n - 1]
      BY <2>2, Constants
    <2>4. Walk(F, h)[n] = IF Walk(F, h)[n - 1] \in Clust THEN F[Walk(F, h)[n - 1]] ELSE EOC
      BY <2>3, WalkIs
    <2>5. CASE n = 1
      <3>1. Walk(F, h)[0] = h /\ Walk(F, F[h])[0] = F[h]
        BY WalkIs
      <3> QED BY <2>3, <2>4, <2>5, <3>1
    <2>6. CASE n > 1
      <3>1. n - 1 \in 1 .. MaxClust /\ ~(n <= n - 1)
        BY <2>3, <2>6
      <3>2. Walk(F, h)[n - 1] = Walk(F, F[h])[n - 1 - 1]
        BY <2>2, <3>1
      <3>3. Walk(F, F[h])[n - 1] = IF Walk(F, F[h])[n - 1 - 1] \in Clust
                                   THEN F[Walk(F, F[h])[n - 1 - 1]] ELSE EOC
        BY <3>1, WalkIs
      <3> QED BY <2>3, <2>4, <3>2, <3>3
    <2> QED BY <2>3, <2>5, <2>6
  <1> QED BY <1>1

(* What is behind c in its chain stays when c is freed. *)
LEMMA RestKeeps ==
  ASSUME NEW F \in [Clust -> FatVal], Links(F), NEW c \in Clust, Root(F, c),
         NEW G, Differs(F, G, c)
  PROVE  \A n \in 0 .. MaxClust : Walk(G, F[c])[n] = Walk(F, F[c])[n]
  <1>1. ASSUME NEW i \in 0 .. MaxClust, Walk(F, F[c])[i] = c PROVE FALSE
    <2>1. Walk(F, c)[0] = c /\ 0 \in 0 .. MaxClust
      BY WalkIs, Constants
    <2>2. CASE i = MaxClust
      <3>1. i - 1 \in 0 .. i /\ i \in 1 .. MaxClust
        BY <2>2, Constants
      <3>2. Walk(F, F[c])[i - 1] \in Clust
        BY <1>1, <3>1, WalkDown
      <3>3. Walk(F, c)[i] \in Clust
        BY <3>1, <3>2, WalkShift
      <3>4. i + 1 \in 1 .. MaxClust
        BY <3>3, ChainEnds
      <3> QED BY <2>2, <3>4, Constants
    <2>3. CASE i # MaxClust
      <3>1. i + 1 \in 1 .. MaxClust /\ i + 1 \in 0 .. MaxClust /\ i + 1 - 1 = i /\ i + 1 # 0
        BY <2>3, Constants
      <3>2. Walk(F, c)[i + 1] = c
        BY <1>1, <3>1, WalkShift
      <3>3. i + 1 = 0
        BY <2>1, <3>1, <3>2, OnePlace
      <3> QED BY <3>1, <3>3
    <2> QED BY <2>2, <2>3
  <1>2. Avoids(F, F[c], c)
    BY <1>1 DEF Avoids
  <1> QED BY <1>2, AvoidsKeeps

LEMMA HeadRoot ==
  ASSUME ChainInv, NEW h, Head(h)
  PROVE  Root(fat, h)
  BY DEF Head, ChainInv, SoundInv, Sound, OwnInv

LEMMA HeadsStay ==
  ASSUME BaseInv, ChainInv, SavedInv, mishaps = 0, Command \/ Call,
         ~RemoveNext, ~WriteLink, NEW h \in Clust, Head(h)
  PROVE  Head(h)'
  <1>0. /\ TypeOK /\ Coherent /\ NamesInv /\ CallInv /\ FilesInv /\ EntryInv /\ Names(dir)
        /\ fp \in {"log", "wr"} /\ file[fp] \in File /\ ~Closed.open
        /\ file \in [{"log", "wr"} -> File] /\ dir \in [Slots -> Entry] /\ btw \in Nat
        /\ OwnInv /\ h # 0 /\ h # 1
    BY Constants DEF BaseInv, NamesInv, TypeOK, Closed, ChainInv
  <1>1. ASSUME UNCHANGED dir, Held => Held' /\ clust' = clust,
               \A f \in {"log", "wr"} : file[f].open /\ file[f].org = h =>
                                          file'[f].open /\ file'[f].org = h
        PROVE  Head(h)'
    <2>1. ASSUME NEW s \in Slots, dir[s].org = h PROVE Head(h)'
      BY <1>1, <2>1 DEF Head
    <2>2. ASSUME NEW f \in OpenFiles, file[f].org = h PROVE Head(h)'
      BY <1>1, <2>2 DEF Head, OpenFiles
    <2>3. ASSUME Held, clust = h PROVE Head(h)'
      BY <1>1, <2>3 DEF Head
    <2> QED BY <2>1, <2>2, <2>3 DEF Head
  <1>2. ASSUME pc \notin {"free", "link", "table", "entry"} PROVE ~Held
    BY <1>2 DEF Held
  (* The files and the directory stay. *)
  <1>3. ASSUME \/ (\E k : LogWrite(k) \/ CatWrite(k) \/ CatRead(k)) \/ LogStop \/ CatClose
               \/ Mkdir \/ WriteKnownCluster \/ MkdirAllocate \/ MkdirTable \/ MkdirSync
               \/ (RemoveEnd /\ after = "unlink")
        PROVE  Head(h)'
    <2>1. UNCHANGED <<dir, file>>
      BY <1>3 DEF LogWrite, CatWrite, CatRead, LogStop, CatClose, Mkdir, WriteKnownCluster,
                  MkdirAllocate, MkdirTable, MkdirSync, RemoveEnd
    <2>2. Held => Held' /\ clust' = clust
      BY <1>3 DEF LogWrite, CatWrite, CatRead, LogStop, CatClose, Mkdir, WriteKnownCluster,
                  AtBoundary, MkdirAllocate, MkdirTable, MkdirSync, RemoveEnd, Held, local
    <2> QED BY <1>1, <2>1, <2>2
  (* Of the files only other fields change, or no cluster is missing. *)
  <1>4. ASSUME UNCHANGED dir, pc \in {"write", "grown", "sync", "flush"},
               \A g \in {"log", "wr"} : g # fp => file'[g] = file[g],
               \/ file'[fp].open = file[fp].open /\ file'[fp].org = file[fp].org
               \/ file[fp].org = 0 /\ file'[fp].open = file[fp].open
        PROVE  Head(h)'
    <2>1. ~Held
      BY <1>2, <1>4
    <2>2. ASSUME NEW f \in {"log", "wr"}, file[f].open, file[f].org = h
          PROVE  file'[f].open /\ file'[f].org = h
      <3>1. CASE f = fp
        BY <1>0, <1>4, <2>2, <3>1
      <3>2. CASE f # fp
        BY <1>4, <2>2, <3>2
      <3> QED BY <3>1, <3>2
    <2> QED BY <1>1, <1>4, <2>1, <2>2
  <1>5. ASSUME WriteBuffer \/ WriteAllocate \/ WriteFull \/ WriteEnd PROVE Head(h)'
    <2>1. UNCHANGED dir /\ pc = "write"
      BY <1>5 DEF WriteBuffer, WriteAllocate, WriteFull, WriteEnd, AtBoundary, WriteSearch
    <2>2. \A g \in {"log", "wr"} : g # fp => file'[g] = file[g]
      BY <1>0, <1>5 DEF WriteBuffer, WriteAllocate, WriteFull, WriteEnd
    <2>3. ASSUME WriteBuffer \/ WriteFull \/ WriteEnd
          PROVE  file'[fp].open = file[fp].open /\ file'[fp].org = file[fp].org
      BY <1>0, <2>3 DEF WriteBuffer, WriteFull, WriteEnd, File
    <2>4. ASSUME WriteAllocate
          PROVE  \/ file'[fp] = file[fp]
                 \/ file[fp].org = 0 /\ file'[fp].open = file[fp].open
      <3>1. \/ UNCHANGED file
            \/ file[fp].org = 0 /\ file' = [file EXCEPT ![fp].org = FirstFree]
        BY <2>4 DEF WriteAllocate, WriteSearch, Chained, AtBoundary
      <3> QED BY <1>0, <3>1 DEF File
    <2> QED BY <1>4, <1>5, <2>1, <2>2, <2>3, <2>4
  <1>6. ASSUME WriteNextSector \/ WriteGrown PROVE Head(h)'
    <2>1. UNCHANGED dir /\ pc \in {"write", "grown"}
      BY <1>6 DEF WriteNextSector, WriteGrown, AtBoundary
    <2>2. \A g \in {"log", "wr"} : g # fp => file'[g] = file[g]
      BY <1>0, <1>6 DEF WriteNextSector, WriteGrown, Put
    <2>4. file'[fp].open = file[fp].open /\ file'[fp].org = file[fp].org
      <3>1. CASE WriteNextSector
        <4> DEFINE r == [file[fp] EXCEPT !.sc = SectsLeft]
        <4>1. /\ r \in File /\ r.sc > 0 /\ file[fp].sect + 1 \in Nat /\ r.open = file[fp].open
              /\ r.org = file[fp].org /\ btw > 0
          BY <1>0, <3>1, SectsLeftIs DEF File, WriteNextSector, AtBoundary
        <4>2. Put(r, file[fp].sect + 1)
          BY <3>1 DEF WriteNextSector
        <4> HIDE DEF r
        <4> QED BY <1>0, <4>1, <4>2, PutKeeps
      <3>2. CASE WriteGrown
        <4> DEFINE r == [file[fp] EXCEPT !.curr = clust, !.sc = SectsClust]
        <4>1. clust \in Clust /\ btw > 0
          BY <1>0, <3>2 DEF WriteGrown, CallInv, FilesInv
        <4>2. /\ r \in File /\ r.sc > 0 /\ clust2sect(clust) \in Nat /\ r.open = file[fp].open
              /\ r.org = file[fp].org
          <5>1. clust \in Org /\ SectsClust \in 0 .. 255 /\ SectsClust > 0
            BY <4>1, Constants DEF Org
          <5> QED BY <1>0, <4>1, <5>1, SectsApart DEF File
        <4>3. Put(r, clust2sect(clust))
          BY <3>2 DEF WriteGrown
        <4> HIDE DEF r
        <4> QED BY <1>0, <4>1, <4>2, <4>3, PutKeeps
      <3> QED BY <1>6, <3>1, <3>2
    <2> QED BY <1>4, <2>1, <2>2, <2>4
  (* f_sync: a file is closed when its entry has what it had. *)
  <1>7. ASSUME SyncNothing \/ SyncFlush PROVE Head(h)'
    <2>1. /\ file' = [file EXCEPT ![fp] = Left(file[fp])] /\ pc \in {"sync", "flush"}
          /\ UNCHANGED dir
      BY <1>0, <1>7 DEF SyncNothing, SyncFlush
    <2>2. \A g \in {"log", "wr"} : g # fp => file'[g] = file[g]
      BY <1>0, <2>1
    <2>3. ~file[fp].written /\ file[fp].open
      BY <1>0, <1>7, <2>1 DEF SyncNothing, SyncFlush, SavedInv, CallInv, Busy
    <2>4. file[fp].slot \in Slots /\ dir[file[fp].slot].org = file[fp].org
      <3>1. EntryHas(fp)
        BY <1>0, <2>3 DEF SavedInv, OpenFiles
      <3> QED BY <1>0, <2>1, <2>3, <3>1 DEF EntryHas, Writing, EntryInv
    <2>5. CASE file[fp].org = h
      BY <2>1, <2>4, <2>5 DEF Head
    <2>6. CASE file[fp].org # h
      <3>1. ~Held
        BY <1>2, <2>1
      <3>2. \A f \in {"log", "wr"} : file[f].open /\ file[f].org = h =>
                                       file'[f].open /\ file'[f].org = h
        BY <2>2, <2>6
      <3> QED BY <1>1, <2>1, <3>1, <3>2
    <2> QED BY <2>5, <2>6
  <1>8. ASSUME SyncEntry PROVE Head(h)'
    <2> DEFINE r == file[fp]
    <2>1. /\ dir' = [dir EXCEPT ![r.slot].org = r.org, ![r.slot].size = r.fsize]
          /\ file' = [file EXCEPT ![fp].dirty = FALSE, ![fp].written = FALSE]
          /\ pc = "sync"
      BY <1>8 DEF SyncEntry
    <2>2. r.slot \in Slots /\ r.open
      BY <1>0, <2>1 DEF CallInv, EntryInv, Busy
    <2>3. \A s \in Slots : s # r.slot => dir'[s] = dir[s]
      BY <1>0, <2>1, <2>2
    <2>4. dir'[r.slot].org = r.org
      BY <1>0, <2>1, <2>2 DEF Entry
    <2>5. \A f \in {"log", "wr"} : file'[f].open = file[f].open /\ file'[f].org = file[f].org
      BY <1>0, <2>1 DEF File
    <2>6. dir[r.slot].org \in {0, r.org}
      BY <1>0, <2>2 DEF OwnInv, OpenFiles
    <2>7. ~Held
      BY <1>2, <2>1
    <2> HIDE DEF r
    <2>8. ASSUME NEW s \in Slots, dir[s].org = h PROVE dir'[s].org = h
      BY <1>0, <2>3, <2>4, <2>6, <2>8
    <2>9. ASSUME NEW s \in Slots, dir[s].org = h PROVE Head(h)'
      BY <2>8, <2>9 DEF Head
    <2>10. ASSUME NEW f \in OpenFiles, file[f].org = h PROVE Head(h)'
      BY <2>5, <2>10 DEF Head, OpenFiles
    <2> QED BY <2>7, <2>9, <2>10 DEF Head
  <1>9. ASSUME MkdirEntry PROVE Head(h)'
    <2>1. /\ dir' = [dir EXCEPT ![FreeSlot] = [name |-> DirName, org |-> clust, size |-> 0,
                                               isDir |-> TRUE]]
          /\ UNCHANGED <<file, clust>> /\ pc = "entry"
      BY <1>9 DEF MkdirEntry, local
    <2>2. FreeSlot \in Slots /\ dir[FreeSlot].name = NoName
      BY <1>0, <2>1, FreeSlotIs, BoundAssumption DEF EntryInv
    <2>3. dir[FreeSlot].org = 0
      BY <1>0, <2>2 DEF Names, Empty
    <2>4. dir'[FreeSlot].org = clust /\ \A s \in Slots : s # FreeSlot => dir'[s] = dir[s]
      BY <1>0, <2>1, <2>2
    <2>5. ASSUME NEW s \in Slots, dir[s].org = h PROVE Head(h)'
      BY <1>0, <2>3, <2>4, <2>5 DEF Head
    <2>6. ASSUME NEW f \in OpenFiles, file[f].org = h PROVE Head(h)'
      BY <2>1, <2>6 DEF Head, OpenFiles
    <2>7. ASSUME Held, clust = h PROVE Head(h)'
      BY <2>2, <2>4, <2>7 DEF Head
    <2> QED BY <2>5, <2>6, <2>7 DEF Head
  <1>10. ASSUME RemoveEnd, after # "unlink" PROVE Head(h)'
    <2>1. /\ Opened("log", file["log"].slot, 0, 0) /\ UNCHANGED dir /\ pc = "free"
          /\ after = "open" /\ clust \notin Clust
      BY <1>10 DEF RemoveEnd
    <2>2. ~file["log"].open /\ file'["wr"] = file["wr"]
      BY <1>0, <2>1 DEF Opened, EntryInv
    <2>3. \A f \in {"log", "wr"} : file[f].open /\ file[f].org = h =>
                                     file'[f].open /\ file'[f].org = h
      BY <2>2
    <2>4. ~Held
      BY <2>1 DEF Held
    <2> QED BY <1>1, <2>1, <2>3, <2>4
  (* f_open and f_unlink: the call holds the chain that an entry loses. *)
  <1>11. ASSUME pc = "idle" PROVE ~Held /\ ~file["wr"].open
    BY <1>0, <1>11 DEF Held, CallInv, Busy
  <1>12. ASSUME NEW g \in {"log", "wr"}, NEW n \in Name, Create(g, n), UNCHANGED fat, pc = "idle",
                ~file[g].open
         PROVE  Head(h)'
    <2>1. /\ FreeSlot \in Slots /\ dir[FreeSlot].name = NoName
          /\ \A s \in Slots : dir'[s] =
               IF s = FreeSlot THEN [Empty EXCEPT !.name = n] ELSE dir[s]
          /\ \A f \in {"log", "wr"} : f # g => file'[f] = file[f]
      BY <1>0, <1>12, CreateIs
    <2>2. dir[FreeSlot].org = 0
      BY <1>0, <2>1 DEF Names, Empty
    <2>3. ASSUME NEW s \in Slots, dir[s].org = h PROVE Head(h)'
      BY <1>0, <2>1, <2>2, <2>3 DEF Head
    <2>4. ASSUME NEW f \in OpenFiles, file[f].org = h PROVE Head(h)'
      BY <1>12, <2>1, <2>4 DEF Head, OpenFiles
    <2> QED BY <1>11, <1>12, <2>3, <2>4 DEF Head
  <1>13. ASSUME NEW s \in Slots, clust' = dir[s].org, pc' = "free", pc = "idle",
                \A t \in Slots : t # s => dir'[t] = dir[t],
                \A f \in {"log", "wr"} : file[f].open => file'[f] = file[f]
         PROVE  Head(h)'
    <2>1. ASSUME NEW t \in Slots, dir[t].org = h PROVE Head(h)'
      <3>1. CASE t = s
        BY <1>13, <2>1, <3>1 DEF Head, Held
      <3>2. CASE t # s
        BY <1>13, <2>1, <3>2 DEF Head
      <3> QED BY <3>1, <3>2
    <2>2. ASSUME NEW f \in OpenFiles, file[f].org = h PROVE Head(h)'
      BY <1>13, <2>2 DEF Head, OpenFiles
    <2> QED BY <1>11, <1>13, <2>1, <2>2 DEF Head
  <1>14. ASSUME NEW n \in Name, LogOpen(n) PROVE Head(h)'
    <2>0. pc = "idle" /\ ~file["log"].open /\ UNCHANGED fat
      BY <1>14 DEF LogOpen
    <2>1. CASE Create("log", n)
      BY <1>12, <2>0, <2>1
    <2>2. ASSUME NEW s \in Slots, file' = [file EXCEPT !["log"].slot = s], clust' = dir[s].org,
                 pc' = "free", dir' = [dir EXCEPT ![s].org = 0, ![s].size = 0]
          PROVE  Head(h)'
      <3>1. \A f \in {"log", "wr"} : file[f].open => file'[f] = file[f]
        BY <1>0, <2>0, <2>2
      <3>2. \A t \in Slots : t # s => dir'[t] = dir[t]
        BY <1>0, <2>2
      <3> QED BY <1>13, <2>0, <2>2, <3>1, <3>2
    <2> QED BY <1>14, <2>1, <2>2 DEF LogOpen
  <1>15. ASSUME NEW n \in Name, Unlink(n) PROVE Head(h)'
    <2>0. pc = "idle" /\ pc' = "free" /\ UNCHANGED file
      BY <1>15 DEF Unlink
    <2>1. PICK s \in Slots : dir' = [dir EXCEPT ![s] = Empty] /\ clust' = dir[s].org
      BY <1>15 DEF Unlink
    <2>2. \A t \in Slots : t # s => dir'[t] = dir[t]
      BY <1>0, <2>1
    <2> QED BY <1>13, <2>0, <2>1, <2>2
  <1>16. ASSUME NEW n \in Name, CatOpen(n) PROVE Head(h)'
    <2>0. pc = "idle" /\ UNCHANGED fat
      BY <1>16 DEF CatOpen
    <2>1. CASE Create("wr", n)
      BY <1>11, <1>12, <2>0, <2>1
    <2>2. ASSUME NEW s \in Slots, Opened("wr", s, dir[s].org, dir[s].size), UNCHANGED dir
          PROVE  Head(h)'
      <3>1. file'["log"] = file["log"]
        BY <1>0, <2>2 DEF Opened
      <3>2. \A f \in {"log", "wr"} : file[f].open /\ file[f].org = h =>
                                       file'[f].open /\ file'[f].org = h
        BY <1>11, <2>0, <3>1
      <3> QED BY <1>1, <1>11, <2>0, <2>2, <3>2
    <2> QED BY <1>16, <2>1, <2>2 DEF CatOpen
  <1> QED BY <1>3, <1>5, <1>6, <1>7, <1>8, <1>9, <1>10, <1>14, <1>15, <1>16
          DEF Command, Call, Write, Sync, Made

LEMMA InChain ==
  ASSUME NEW F, NEW h, NEW c, c \in Chain(F, h)
  PROVE  c \in Clust /\ h \in Clust /\ \E i \in 0 .. MaxClust : Walk(F, h)[i] = c
  BY NoChain DEF Chain

LEMMA ChainKeeps ==
  ASSUME NEW F, NEW G, NEW h, Keeps(F, G, h), NEW c \in Chain(F, h)
  PROVE  c \in Chain(G, h)
  <1>1. PICK i \in 0 .. MaxClust : Walk(F, h)[i] = c /\ c \in Clust
    BY DEF Chain
  <1>2. Walk(G, h)[i] = c
    BY <1>1 DEF Keeps
  <1> QED BY <1>1, <1>2 DEF Chain

LEMMA OwnChain ==
  ASSUME NEW F, NEW c \in Clust
  PROVE  c \in Chain(F, c)
  <1>1. Walk(F, c)[0] = c /\ 0 \in 0 .. MaxClust
    BY WalkIs, Constants
  <1> QED BY <1>1 DEF Chain

LEMMA LostStays ==
  ASSUME BaseInv, ChainInv, ChainInv', SavedInv, LostInv, Next
  PROVE  LostInv'
  <1>0. /\ TypeOK /\ CallInv /\ fp \in {"log", "wr"} /\ file[fp] \in File
        /\ file \in [{"log", "wr"} -> File] /\ fat \in [Clust -> FatVal]
        /\ OwnInv /\ Links(fat)
    BY DEF BaseInv, TypeOK, ChainInv, SoundInv, Sound
  <1>1. SUFFICES ASSUME mishaps = 0, Command \/ Call, NEW c \in Clust, fat'[c] # 0
                 PROVE  \E h : Head(h)' /\ c \in Chain(fat', h)
    BY <1>0, NoMishap, InChain DEF LostInv
  <1>2. ASSUME fat[c] # 0
        PROVE  \E h \in Clust : Head(h) /\ c \in Chain(fat, h) /\ Root(fat, h)
    <2>1. PICK h : Head(h) /\ c \in Chain(fat, h)
      BY <1>1, <1>2 DEF LostInv
    <2> QED BY <2>1, InChain, HeadRoot
  <1>3. CASE UNCHANGED fat /\ ~RemoveNext /\ ~WriteLink
    <2>1. PICK h \in Clust : Head(h) /\ c \in Chain(fat, h)
      BY <1>1, <1>2, <1>3
    <2>2. Head(h)'
      BY <1>1, <1>3, <2>1, HeadsStay
    <2>3. c \in Chain(fat', h)
      BY <1>3, <2>1
    <2> QED BY <2>2, <2>3
  (* A cluster that is allocated is held, or the first one of its file. *)
  <1>4. ASSUME WriteAllocate \/ (MkdirAllocate /\ Free # {}) PROVE \E h : Head(h)' /\ c \in Chain(fat', h)
    <2>1. /\ fat' = [fat EXCEPT ![FirstFree] = EOC] /\ Free # {} /\ ~RemoveNext /\ ~WriteLink
          /\ pc \in {"write", "mkdir"}
      BY <1>4 DEF WriteAllocate, MkdirAllocate, RemoveNext, WriteLink, WriteSearch, AtBoundary
    <2>2. FatStep /\ FirstFree \in Clust
      BY <1>0, <2>1, AllocatedIs
    <2>3. CASE c = FirstFree
      <3>1. Head(c)'
        <4>1. CASE pc' \in {"link", "table"} /\ clust' = FirstFree
          BY <2>2, <2>3, <4>1 DEF Head, Held
        <4>2. CASE file' = [file EXCEPT ![fp].org = FirstFree] /\ pc = "write"
          <5>1. file'[fp].org = c /\ file'[fp].open
            BY <1>0, <2>3, <4>2 DEF CallInv, Busy, File
          <5> QED BY <1>0, <5>1 DEF Head, OpenFiles
        <4> QED BY <1>4, <4>1, <4>2 DEF WriteAllocate, MkdirAllocate, WriteSearch, AtBoundary
      <3> QED BY <3>1, OwnChain
    <2>4. CASE c # FirstFree
      <3>1. fat[c] # 0
        BY <1>0, <1>1, <2>1, <2>4
      <3>2. PICK h \in Clust : Head(h) /\ c \in Chain(fat, h) /\ Root(fat, h)
        BY <1>2, <3>1
      <3>3. Keeps(fat, fat', h)
        BY <2>1, <2>2, <3>2 DEF FatStep, Held
      <3>4. Head(h)' /\ c \in Chain(fat', h)
        BY <1>1, <2>1, <3>2, <3>3, HeadsStay, ChainKeeps
      <3> QED BY <3>4
    <2> QED BY <2>3, <2>4
  (* It is then the last one of the chain of its file. *)
  <1>5. ASSUME WriteLink PROVE \E h : Head(h)' /\ c \in Chain(fat', h)
    <2>1. /\ fp \in OpenFiles /\ clust \in Clust /\ Held /\ pc = "link" /\ pc' = "grown" /\ FatStep
          /\ fat' = [fat EXCEPT ![file[fp].curr] = clust] /\ file[fp].curr \in Clust
          /\ UNCHANGED <<dir, file, fp, clust>> /\ fat[file[fp].curr] = EOC
      BY <1>5, LinkIs
    <2>2. /\ \A s \in Slots : Head(dir[s].org)'
          /\ \A f \in OpenFiles : Head(file[f].org)'
      BY <2>1 DEF Head, OpenFiles
    <2>3. CASE c = clust
      <3>1. \E k \in 0 .. MaxClust : Walk(fat', file[fp].org)[k] = clust
        BY <2>1 DEF ChainInv, PlaceInv
      <3>2. c \in Chain(fat', file[fp].org)
        BY <2>3, <3>1 DEF Chain
      <3> QED BY <2>1, <2>2, <3>2
    <2>4. CASE c # clust
      <3>1. fat[c] # 0
        BY <1>0, <1>1, <2>1, Constants
      <3>2. PICK h \in Clust : Head(h) /\ c \in Chain(fat, h) /\ Root(fat, h)
        BY <1>2, <3>1
      <3>3. h # clust
        <4> SUFFICES ASSUME h = clust PROVE FALSE
          OBVIOUS
        <4>1. fat[clust] = EOC /\ EOC \notin Clust
          BY <2>1, Constants DEF ChainInv, OwnInv
        <4>2. PICK i \in 0 .. MaxClust : Walk(fat, clust)[i] = c
          BY <3>2, InChain
        <4>3. i # 0
          BY <2>4, <4>2, WalkIs
        <4>4. i \in 1 .. MaxClust /\ 1 \in 0 .. i /\ 1 \in 1 .. MaxClust /\ 1 - 1 = 0
          BY <4>3, Constants
        <4>5. Walk(fat, clust)[1] \in Clust
          BY <4>2, <4>4, WalkDown
        <4>6. Walk(fat, clust)[1] = fat[clust]
          BY <2>1, <4>4, WalkIs
        <4> QED BY <4>1, <4>5, <4>6
      <3>4. Keeps(fat, fat', h)
        BY <2>1, <3>2, <3>3 DEF FatStep
      <3>5. Head(h)'
        <4>1. ASSUME NEW s \in Slots, dir[s].org = h PROVE Head(h)'
          BY <2>1, <4>1 DEF Head
        <4>2. ASSUME NEW f \in OpenFiles, file[f].org = h PROVE Head(h)'
          BY <2>1, <4>2 DEF Head, OpenFiles
        <4> QED BY <3>2, <3>3, <4>1, <4>2 DEF Head
      <3> QED BY <3>2, <3>4, <3>5, ChainKeeps
    <2> QED BY <2>3, <2>4
  (* The rest of the chain that is removed is held. *)
  <1>6. ASSUME RemoveNext PROVE \E h : Head(h)' /\ c \in Chain(fat', h)
    <2>1. /\ clust \in Clust /\ Held /\ fat' = [fat EXCEPT ![clust] = 0] /\ clust' = fat[clust]
          /\ FatStep /\ UNCHANGED <<dir, file, pc, fp, after>> /\ pc = "free"
      BY <1>0, <1>6, RemoveNextIs DEF RemoveNext
    <2>2. Root(fat, clust) /\ Differs(fat, fat', clust)
      BY <1>0, <2>1 DEF OwnInv, Differs
    <2>3. c # clust /\ fat[c] # 0
      BY <1>0, <1>1, <2>1
    <2>4. PICK h \in Clust : Head(h) /\ c \in Chain(fat, h) /\ Root(fat, h)
      BY <1>2, <2>3
    <2>5. CASE h = clust
      <3>1. PICK i \in 0 .. MaxClust : Walk(fat, clust)[i] = c
        BY <2>4, <2>5, InChain
      <3>2. i # 0
        BY <2>3, <3>1, WalkIs
      <3>3. i \in 1 .. MaxClust /\ i - 1 \in 0 .. MaxClust
        BY <3>2, Constants
      <3>4. Walk(fat, fat[clust])[i - 1] = c
        BY <2>1, <3>1, <3>3, WalkShift
      <3>5. Walk(fat', fat[clust])[i - 1] = c
        BY <1>0, <2>1, <2>2, <3>3, <3>4, RestKeeps
      <3>6. c \in Chain(fat', fat[clust])
        BY <3>3, <3>5 DEF Chain
      <3>7. fat[clust] \in Clust
        BY <3>6, InChain
      <3>8. PICK d \in Clust : d = fat[clust] /\ c \in Chain(fat', d)
        BY <3>6, <3>7
      <3>9. Head(d)'
        BY <2>1, <3>8 DEF Head, Held
      <3> QED BY <3>8, <3>9
    <2>6. CASE h # clust
      <3>1. Keeps(fat, fat', h)
        BY <2>1, <2>4, <2>6 DEF FatStep
      <3>2. Head(h)'
        BY <2>1, <2>4, <2>6 DEF Head, OpenFiles
      <3> QED BY <2>4, <3>1, <3>2, ChainKeeps
    <2> QED BY <2>5, <2>6
  <1> QED BY <1>1, <1>3, <1>4, <1>5, <1>6, FatChanges

LEMMA NothingLost ==
  ASSUME BaseInv, ChainInv, SyncInv, SavedInv, LostInv
  PROVE  NothingIsLost
  <1>0. /\ TypeOK /\ CallInv /\ NamesInv /\ Names(dir) /\ EntryInv /\ 0 \notin Clust
        /\ fat \in [Clust -> FatVal] /\ dir \in [Slots -> Entry] /\ Sound(fat, dir)
    BY Constants DEF BaseInv, NamesInv, TypeOK, ChainInv, SoundInv
  <1>1. SUFFICES ASSUME pc = "idle", mishaps = 0
                 PROVE  Clust \ Free = UNION {Chain(fat, dir[s].org) :
                                              s \in {t \in Slots : dir[t].name # NoName}}
    BY DEF NothingIsLost
  <1>2. ASSUME NEW c \in Clust \ Free
        PROVE  \E s \in Slots : dir[s].name # NoName /\ c \in Chain(fat, dir[s].org)
    <2>1. PICK h : Head(h) /\ c \in Chain(fat, h)
      BY <1>1, <1>2 DEF LostInv, Free
    <2>2. h # 0
      BY <1>0, <2>1, InChain
    <2>3. ~Held
      BY <1>1 DEF Held
    <2>4. ASSUME NEW s \in Slots, dir[s].org = h
          PROVE  dir[s].name # NoName
      BY <1>0, <2>2, <2>4 DEF Names, Empty
    <2>5. ASSUME NEW f \in OpenFiles, file[f].org = h
          PROVE  \E s \in Slots : dir[s].org = h
      <3>1. f = "log" /\ file[f].open
        BY <1>0, <1>1, <2>5 DEF OpenFiles, CallInv, Busy
      <3>2. ~file[f].written
        BY <1>1, <3>1 DEF SyncInv, LogBusy, Busy, Settled
      <3>3. dir[file[f].slot].org = file[f].org
        BY <1>1, <2>5, <3>2 DEF SavedInv, EntryHas, Writing
      <3> QED BY <1>0, <2>5, <3>1, <3>3 DEF EntryInv
    <2>6. \E s \in Slots : dir[s].org = h
      BY <2>1, <2>3, <2>5 DEF Head
    <2> QED BY <2>1, <2>4, <2>6
  <1>3. ASSUME NEW s \in Slots, NEW c \in Chain(fat, dir[s].org)
        PROVE  c \in Clust \ Free
    <2>1. PICK i \in 0 .. MaxClust : Walk(fat, dir[s].org)[i] = c /\ c \in Clust
      BY DEF Chain
    <2>2. Links(fat) /\ Root(fat, dir[s].org)
      BY <1>0 DEF Sound
    <2>3. fat[c] \in {EOC} \cup Clust
      BY <1>0, <2>1, <2>2, ChainEnds
    <2> QED BY <2>1, <2>3, Constants DEF Free
  <1> QED BY <1>2, <1>3

LEMMA InitLost == Init => SavedInv /\ LostInv
  <1> SUFFICES ASSUME Init PROVE SavedInv /\ LostInv
    OBVIOUS
  <1>1. OpenFiles = {} /\ pc = "idle" /\ \A c \in Clust : fat[c] = 0
    BY DEF Init, OpenFiles, Closed
  <1> QED BY <1>1 DEF SavedInv, LostInv

LEMMA LostInvStays ==
  ASSUME ~TouchesOpenLog, BaseInv, ChainInv, ChainInv', SavedInv, LostInv, [Next]_vars
  PROVE  SavedInv' /\ LostInv'
  <1>1. CASE Next
    BY <1>1, SavedStays, LostStays
  <1>2. CASE UNCHANGED vars
    <2>1. UNCHANGED <<fat, dir, file, pc, fp, clust, mishaps>>
      BY <1>2 DEF vars, local
    <2>2. OpenFiles' = OpenFiles /\ Held' = Held
      BY <2>1 DEF OpenFiles, Held
    <2>3. \A f : EntryHas(f)' <=> EntryHas(f)
      BY <2>1 DEF EntryHas
    <2>4. \A h : Head(h)' <=> Head(h)
      BY <2>1, <2>2 DEF Head
    <2>5. SavedInv'
      BY <2>1, <2>2, <2>3 DEF SavedInv
    <2>6. LostInv'
      BY <2>1, <2>4 DEF LostInv
    <2> QED BY <2>5, <2>6
  <1> QED BY <1>1, <1>2

(* Without resets and failures every cluster in use is in the chain of a   *)
(* file or directory whenever no call runs: remove_chain frees chains      *)
(* whole, and what create_chain takes is entered by f_sync or f_mkdir.     *)
THEOREM NothingGetsLost ==
  ASSUME ~TouchesOpenLog, ~GoesOnWhenFull
  PROVE  Spec => []NothingIsLost
  <1>1. BaseInv /\ ChainInv /\ ChainInv' /\ SavedInv /\ LostInv /\ [Next]_vars
          => SavedInv' /\ LostInv'
    BY LostInvStays
  <1>2. BaseInv /\ SyncInv /\ ChainInv /\ SavedInv /\ LostInv => NothingIsLost
    BY NothingLost
  <1> QED BY <1>1, <1>2, InitLost, SyncHolds, Chains, PTL DEF Spec
-----------------------------------------------------------------------------
(* What the sectors of a chain hold *)

(* The data are the same in the sectors of that chain. *)
SameOn(F, h, d, e) ==
  \A k \in 0 .. MaxClust, j \in 0 .. SectsClust - 1 :
    Walk(F, h)[k] \in Clust =>
      e[clust2sect(Walk(F, h)[k]) + j] = d[clust2sect(Walk(F, h)[k]) + j]

LEMMA UnitIs ==
  ASSUME NEW k \in Nat, NEW j \in 0 .. SectsClust - 1, NEW u \in 1 .. SectSize
  PROVE  /\ k * ClustSize \in Nat /\ j * SectSize \in Nat /\ Unit(k, j, u) \in Nat
         /\ j * SectSize + u <= ClustSize /\ j * SectSize + u >= 1
  <1>1. /\ SectsClust \in Nat \ {0} /\ SectSize \in Nat \ {0} /\ ClustSize \in Nat \ {0}
        /\ ClustSize = SectsClust * SectSize /\ j \in Nat /\ u \in Nat
    BY Constants
  <1>2. k * ClustSize \in Nat /\ j * SectSize \in Nat
    BY <1>1
  <1>3. SectsClust > j
    BY <1>1
  <1>4. SectsClust * SectSize >= j * SectSize + SectSize
    BY <1>1, <1>3, Product
  <1> DEFINE a == j * SectSize
             b == k * ClustSize
  <1>5. a \in Nat /\ b \in Nat /\ ClustSize >= a + SectSize
    BY <1>1, <1>2, <1>4
  <1> HIDE DEF a, b
  <1>6. a + u <= ClustSize /\ a + u >= 1 /\ b + a + u \in Nat
    BY <1>1, <1>5
  <1> QED BY <1>2, <1>6 DEF a, b, Unit

LEMMA InReach ==
  ASSUME NEW F, NEW h, NEW n \in Nat, Reaches(F, h, n), NEW k \in 0 .. MaxClust,
         NEW j \in 0 .. SectsClust - 1, NEW u \in 1 .. SectSize, Unit(k, j, u) <= n
  PROVE  Walk(F, h)[k] \in Clust
  <1>0. MaxClust \in Nat /\ ClustSize \in Nat \ {0} /\ k \in Nat
    BY Constants
  <1> DEFINE a == k * ClustSize
             b == j * SectSize
             q == (n - 1) \div ClustSize
             m == (n - 1) % ClustSize
  <1>1. a \in Nat /\ b \in Nat /\ b + u >= 1 /\ a + b + u <= n
    BY <1>0, UnitIs DEF Unit
  <1> HIDE DEF a, b
  <1>2. n > 0 /\ n - 1 \in Nat /\ a <= n - 1
    BY <1>1
  <1>3. q \in 0 .. MaxClust /\ Walk(F, h)[q] \in Clust
    BY <1>2 DEF Reaches
  <1>4. n - 1 = q * ClustSize + m /\ m \in 0 .. ClustSize - 1
    BY <1>0, <1>2, DivMod
  <1> HIDE DEF q, m
  <1>5. k <= q
    <2> SUFFICES ASSUME k > q PROVE FALSE
      BY <1>0, <1>3
    <2>1. k * ClustSize >= q * ClustSize + ClustSize /\ q * ClustSize \in Nat
      BY <1>0, <1>3, Product
    <2> DEFINE c == q * ClustSize
    <2>2. c \in Nat /\ a >= c + ClustSize /\ n - 1 = c + m
      BY <1>4, <2>1 DEF a
    <2> HIDE DEF c
    <2> QED BY <1>0, <1>1, <1>2, <1>4, <2>2
  <1>6. k \in 0 .. q
    BY <1>0, <1>3, <1>5
  <1> QED BY <1>3, <1>6, WalkDown

LEMMA FullStays ==
  ASSUME NEW F, NEW G, NEW h, NEW n \in Nat, NEW d, NEW e, Reaches(F, h, n), Keeps(F, G, h),
         Full(F, h, n, d), SameOn(F, h, d, e)
  PROVE  Full(G, h, n, e)
  <1> SUFFICES ASSUME NEW k \in 0 .. MaxClust, NEW j \in 0 .. SectsClust - 1,
                      NEW u \in 1 .. SectSize, Unit(k, j, u) <= n
               PROVE  e[clust2sect(Walk(G, h)[k]) + j] >= u
    BY DEF Full
  <1>1. Walk(F, h)[k] \in Clust
    BY InReach
  <1>2. Walk(G, h)[k] = Walk(F, h)[k]
    BY <1>1 DEF Keeps
  <1>3. d[clust2sect(Walk(F, h)[k]) + j] >= u
    BY DEF Full
  <1> QED BY <1>1, <1>2, <1>3 DEF SameOn

LEMMA FullLess ==
  ASSUME NEW F, NEW h, NEW n \in Nat, NEW m \in Nat, m <= n, NEW d, Full(F, h, n, d)
  PROVE  Full(F, h, m, d)
  <1> SUFFICES ASSUME NEW k \in 0 .. MaxClust, NEW j \in 0 .. SectsClust - 1,
                      NEW u \in 1 .. SectSize, Unit(k, j, u) <= m
               PROVE  d[clust2sect(Walk(F, h)[k]) + j] >= u
    BY DEF Full
  <1>1. k \in Nat
    BY Constants
  <1>2. Unit(k, j, u) \in Nat
    BY <1>1, UnitIs
  <1>3. Unit(k, j, u) <= n
    BY <1>2
  <1> QED BY <1>3 DEF Full

LEMMA FullNothing ==
  ASSUME NEW F, NEW h, NEW d
  PROVE  Full(F, h, 0, d)
  <1> SUFFICES ASSUME NEW k \in 0 .. MaxClust, NEW j \in 0 .. SectsClust - 1,
                      NEW u \in 1 .. SectSize, Unit(k, j, u) <= 0
               PROVE  FALSE
    BY DEF Full
  <1>1. k \in Nat
    BY Constants
  <1> DEFINE a == k * ClustSize
             b == j * SectSize
  <1>2. a \in Nat /\ b \in Nat /\ b + u >= 1 /\ a + b + u <= 0 /\ u \in Int
    BY <1>1, UnitIs DEF Unit
  <1> HIDE DEF a, b
  <1> QED BY <1>2

(* What is not in the w sectors from sector j of cluster k, and does not   *)
(* lie behind them, lies before them.                                      *)
LEMMA Before ==
  ASSUME NEW k \in Nat, NEW j \in 0 .. SectsClust - 1, NEW w \in Nat, j + w <= SectsClust,
         NEW l \in Nat, NEW i \in 0 .. SectsClust - 1, NEW u \in 1 .. SectSize,
         Unit(l, i, u) <= k * ClustSize + (j + w) * SectSize,
         ~(l = k /\ j <= i /\ i < j + w)
  PROVE  Unit(l, i, u) <= k * ClustSize + j * SectSize
  <1>0. /\ SectsClust \in Nat \ {0} /\ SectSize \in Nat \ {0} /\ ClustSize \in Nat \ {0}
        /\ ClustSize = SectsClust * SectSize /\ j \in Nat /\ i \in Nat /\ u \in Nat
    BY Constants
  <1> DEFINE a == k * ClustSize
             b == j * SectSize
             c == (j + w) * SectSize
             p == l * ClustSize
             q == i * SectSize
  <1>1. a \in Nat /\ b \in Nat /\ p \in Nat /\ q \in Nat /\ q + u <= ClustSize /\ q + u >= 1
    <2>1. p \in Nat /\ q \in Nat /\ q + u <= ClustSize /\ q + u >= 1
      BY UnitIs
    <2> QED BY <1>0, <2>1
  <1>2. c \in Nat /\ c <= ClustSize
    <2>1. SectsClust >= j + w /\ j + w \in Nat
      BY <1>0
    <2> QED BY <1>0, <2>1, Product
  <1>3. p + q + u <= a + c
    BY DEF Unit
  <1>4. CASE l < k
    <2>1. a >= p + ClustSize
      BY <1>0, <1>4, Product
    <2> HIDE DEF a, b, c, p, q
    <2>2. p + q + u <= a + b
      BY <1>0, <1>1, <2>1
    <2> QED BY <2>2 DEF a, b, p, q, Unit
  <1>5. CASE l > k
    <2>1. p >= a + ClustSize
      BY <1>0, <1>5, Product
    <2> HIDE DEF a, b, c, p, q
    <2> QED BY <1>0, <1>1, <1>2, <1>3, <2>1
  <1>6. CASE l = k /\ i < j
    <2>1. b >= q + SectSize
      BY <1>0, <1>6, Product
    <2>2. p = a
      BY <1>6
    <2> HIDE DEF a, b, c, p, q
    <2>3. p + q + u <= a + b
      BY <1>0, <1>1, <2>1, <2>2
    <2> QED BY <2>3 DEF a, b, p, q, Unit
  <1>7. CASE l = k /\ i >= j + w
    <2>1. q >= c
      <3>1. j + w \in Nat
        BY <1>0
      <3> QED BY <1>0, <1>7, <3>1, Product
    <2>2. p = a
      BY <1>7
    <2> HIDE DEF a, b, c, p, q
    <2> QED BY <1>0, <1>1, <1>2, <1>3, <2>1, <2>2
  <1> QED BY <1>0, <1>4, <1>5, <1>6, <1>7

(* A sector is in one place of one chain. *)
LEMMA SectorOnce ==
  ASSUME NEW F, Links(F), NEW h, Root(F, h), NEW k \in 0 .. MaxClust, NEW l \in 0 .. MaxClust,
         NEW j \in 0 .. SectsClust - 1, NEW i \in 0 .. SectsClust - 1,
         Walk(F, h)[k] \in Clust, Walk(F, h)[l] \in Clust,
         clust2sect(Walk(F, h)[k]) + j = clust2sect(Walk(F, h)[l]) + i
  PROVE  k = l /\ j = i
  <1>1. PICK c \in Clust, d \in Clust : c = Walk(F, h)[k] /\ d = Walk(F, h)[l]
    OBVIOUS
  <1>2. clust2sect(c) + j \in ClustSects(c) /\ clust2sect(d) + i \in ClustSects(d)
    BY SectorIn
  <1>3. c = d
    BY <1>1, <1>2, SectsApart
  <1>4. k = l
    BY <1>1, <1>3, OnePlace
  <1>5. clust2sect(c) \in Nat
    BY SectsApart
  <1> QED BY <1>1, <1>3, <1>4, <1>5

LEMMA TakenIs ==
  ASSUME NEW r \in File
  PROVE  /\ r.fsize \in Nat /\ r.fptr \in Nat /\ r.buf \in Nat /\ Taken(r) \in Nat
         /\ r.fsize <= Taken(r) /\ r.fptr <= Taken(r)
         /\ Taken(r) = r.fsize \/ Taken(r) = r.fptr
  <1>1. r.fsize \in Nat /\ r.fptr \in Nat /\ r.buf \in Nat
    BY DEF File
  <1> QED BY <1>1 DEF Taken, Greater

LEMMA LastSectIs ==
  ASSUME NEW k \in Nat, NEW j \in 0 .. SectsClust - 1, NEW u \in 1 .. SectSize,
         NEW r, r.fptr = Unit(k, j, u)
  PROVE  LastSect(r) = k * ClustSize + j * SectSize
  <1>0. SectSize \in Nat \ {0} /\ u \in Nat
    BY Constants
  <1>1. PICK n \in Nat : n = r.fptr
    BY UnitIs
  <1>2. n = k * ClustSize + j * SectSize + u
    BY <1>1 DEF Unit
  <1>3. n > 0 /\ (n - 1) % SectSize = u - 1
    BY <1>2, PositionIs
  <1> DEFINE a == k * ClustSize
             b == j * SectSize
             q == (n - 1) \div SectSize
             m == (n - 1) % SectSize
  <1>4. a \in Nat /\ b \in Nat
    BY UnitIs
  <1>5. n - 1 \in Nat
    BY <1>3
  <1>6. n - 1 = q * SectSize + m /\ q \in Nat
    BY <1>0, <1>5, DivMod
  <1>7. m = u - 1 /\ n = a + b + u
    BY <1>2, <1>3
  <1>8. q * SectSize \in Nat
    BY <1>0, <1>6
  <1> DEFINE c == q * SectSize
  <1>9. LastSect(r) = c
    BY <1>1 DEF LastSect
  <1> HIDE DEF a, b, m, q
  <1>10. c \in Nat /\ n - 1 = c + m
    BY <1>6, <1>8
  <1> HIDE DEF c
  <1>11. c = a + b
    BY <1>0, <1>4, <1>7, <1>10
  <1> QED BY <1>9, <1>11 DEF a, b

(* Sector j of cluster k is that of its units. *)
LEMMA SectorAtIs ==
  ASSUME NEW F, NEW h, NEW k \in 0 .. MaxClust, NEW j \in 0 .. SectsClust - 1,
         Walk(F, h)[k] \in Clust, NEW v \in 0 .. SectSize - 1,
         NEW i, i = k * ClustSize + j * SectSize + v
  PROVE  SectorAt(F, h, i) = clust2sect(Walk(F, h)[k]) + j
  <1>0. k \in Nat /\ v + 1 \in 1 .. SectSize /\ SectSize \in Nat
    BY Constants
  <1> DEFINE a == k * ClustSize
             b == j * SectSize
             n == a + b + (v + 1)
  <1>1. a \in Nat /\ b \in Nat
    BY <1>0, UnitIs
  <1>2. /\ (n - 1) \div ClustSize = k /\ ((n - 1) % ClustSize) \div SectSize = j
    BY <1>0, PositionIs
  <1>3. n - 1 = i
    <2>1. i = a + b + v
      OBVIOUS
    <2> HIDE DEF a, b
    <2> QED BY <1>0, <1>1, <2>1
  <1> HIDE DEF n
  <1>4. i \div ClustSize = k /\ (i % ClustSize) \div SectSize = j
    BY <1>2, <1>3
  <1> QED BY <1>4 DEF SectorAt

(* The buffer goes to its place. *)
LEMMA BufferIs ==
  ASSUME BaseInv, ChainInv, NEW f \in OpenFiles
  PROVE  BufferOut(file[f]) = Buffered(file[f], card.data)
  <1> DEFINE r == file[f]
  <1>1. CASE ~r.dirty
    BY <1>1 DEF BufferOut, Buffered
  <1>2. CASE r.dirty
    <2>0. r \in File /\ r.fptr \in Nat
      BY DEF OpenFiles, BaseInv, TypeOK, File
    <2>1. r.fptr > 0
      <3>1. r.fptr # 0
        BY <1>2 DEF ChainInv, PlaceInv, FilePlaced
      <3> QED BY <2>0, <3>1
    <2>2. PICK k \in 0 .. MaxClust, j \in 0 .. SectsClust - 1, u \in 1 .. SectSize :
            Placed(fat, r, k, j, u) /\ r.curr \in Clust
      BY <2>1, PlaceOf
    <2>3. /\ r.fptr = Unit(k, j, u) /\ Walk(fat, r.org)[k] = r.curr /\ k \in Nat
          /\ r.sect = clust2sect(r.curr) + j
      BY <1>2, <2>2, Constants DEF Placed, Unit
    <2> HIDE DEF r
    <2>4. LastSect(r) = k * ClustSize + j * SectSize
      BY <2>3, LastSectIs
    <2>5. SectorAt(fat, r.org, LastSect(r)) = r.sect
      <3> DEFINE i == LastSect(r)
                 v == 0
      <3>1. k * ClustSize \in Nat /\ j * SectSize \in Nat
        BY <2>3, UnitIs
      <3>2. k * ClustSize + j * SectSize = k * ClustSize + j * SectSize + 0
        BY <3>1
      <3>3. i = k * ClustSize + j * SectSize + v /\ v \in 0 .. SectSize - 1
        BY <2>4, <3>2, Constants
      <3> HIDE DEF i, v
      <3>4. SectorAt(fat, r.org, i) = clust2sect(Walk(fat, r.org)[k]) + j
        BY <2>2, <2>3, <3>3, SectorAtIs
      <3> QED BY <2>3, <3>4 DEF i
    <2>6. r.sect \in DataSects
      BY <2>2, <2>3, SectorIn
    <2> QED BY <1>2, <2>5, <2>6 DEF BufferOut, Buffered, Written, r
  <1> QED BY <1>1, <1>2

LEMMA BufKeptIs ==
  ASSUME NEW k \in Nat, NEW j \in 0 .. SectsClust - 1, NEW v \in 1 .. SectSize,
         NEW r, r.fptr = Unit(k, j, v)
  PROVE  BufKept(r) <=> (v < SectSize => \A u \in 1 .. SectSize :
                                           Unit(k, j, u) <= Taken(r) => r.buf >= u)
  <1>0. SectSize \in Nat \ {0} /\ v \in Nat /\ v > 0
    BY Constants
  <1>1. PICK n \in Nat : n = r.fptr
    BY UnitIs
  <1>2. n = k * ClustSize + j * SectSize + v
    BY <1>1 DEF Unit
  <1>3. /\ v = SectSize => (n % SectSize) = 0
        /\ v < SectSize => (n % SectSize) = v
    BY <1>2, PositionIs
  <1>4. CASE v = SectSize
    BY <1>0, <1>1, <1>3, <1>4 DEF BufKept
  <1>5. CASE v < SectSize
    <2> DEFINE a == k * ClustSize
               b == j * SectSize
    <2>1. a \in Nat /\ b \in Nat /\ n = a + b + v
      BY <1>2, UnitIs
    <2> HIDE DEF a, b
    <2>2. (n % SectSize) = v /\ n - v = a + b
      BY <1>0, <1>3, <1>5, <2>1
    <2>3. \A u \in 1 .. SectSize : Unit(k, j, u) = (n - (n % SectSize)) + u
      BY <2>2 DEF Unit, a, b
    <2> DEFINE All == \A u \in 1 .. SectSize : Unit(k, j, u) <= Taken(r) => r.buf >= u
    <2>4. PICK m \in Nat : m = n % SectSize /\ m = v
      BY <1>0, <2>2
    <2>5. \A u \in 1 .. SectSize : Unit(k, j, u) = (n - m) + u
      BY <2>3, <2>4
    <2>6. BufKept(r) <=>
            (m # 0 => \A u \in 1 .. SectSize : (n - m) + u <= Taken(r) => r.buf >= u)
      BY <1>1, <2>4 DEF BufKept
    <2>7. m # 0
      BY <1>0, <2>4
    <2>8. BufKept(r) <=> All
      BY <2>5, <2>6, <2>7
    <2> QED BY <1>5, <2>8
  <1> QED BY <1>0, <1>4, <1>5

LEMMA PlacedReaches ==
  ASSUME NEW F, NEW r \in File, FilePlaced(F, r), r.fptr > 0 => r.curr \in Clust
  PROVE  Reaches(F, r.org, Taken(r))
  <1>1. CASE Taken(r) = r.fsize
    BY <1>1 DEF FilePlaced
  <1>2. CASE Taken(r) = r.fptr /\ r.fptr > 0
    <2>1. PICK k \in 0 .. MaxClust, j \in 0 .. SectsClust - 1, u \in 1 .. SectSize :
            Placed(F, r, k, j, u)
      BY <1>2 DEF FilePlaced
    <2>2. k \in Nat
      BY Constants
    <2>3. PICK n \in Nat : n = r.fptr
      BY TakenIs
    <2>4. n = k * ClustSize + j * SectSize + u /\ Walk(F, r.org)[k] = r.curr
      BY <2>1, <2>3 DEF Placed
    <2>5. (n - 1) \div ClustSize = k
      BY <2>2, <2>4, PositionIs
    <2> QED BY <1>2, <2>3, <2>4, <2>5 DEF Reaches
  <1>3. CASE Taken(r) = r.fptr /\ ~(r.fptr > 0)
    BY <1>3 DEF Reaches
  <1> QED BY <1>1, <1>2, <1>3, TakenIs

(* In e the w sectors from sector j of cluster c, the k-th of its chain,   *)
(* are full up to unit m, and the others as in d.                          *)
Laid(d, e, c, k, j, w, m) ==
  /\ \A x \in DataSects :
       (\A i \in j .. j + w - 1 : x # clust2sect(c) + i) => e[x] = d[x]
  /\ \A i \in j .. j + w - 1, u \in 1 .. SectSize :
       Unit(k, i, u) <= m => e[clust2sect(c) + i] >= u

(* A chain that was full up to n is full up to m once the w sectors from   *)
(* sector j of cluster k are, as n reaches these and m not behind them.    *)
LEMMA SectorsPut ==
  ASSUME NEW F, Links(F), NEW h, Root(F, h), NEW n \in Nat, NEW m \in Nat,
         NEW k \in 0 .. MaxClust, NEW j \in 0 .. SectsClust - 1, NEW w \in Nat \ {0},
         j + w <= SectsClust, NEW c \in Clust, c = Walk(F, h)[k], Reaches(F, h, m),
         NEW d, NEW e, Full(F, h, n, d),
         Laid(d, e, c, k, j, w, m),
         m <= n \/ m <= k * ClustSize + (j + w) * SectSize,
         k * ClustSize + j * SectSize <= n
  PROVE  Full(F, h, m, e)
  <1> SUFFICES ASSUME NEW l \in 0 .. MaxClust, NEW i \in 0 .. SectsClust - 1,
                      NEW u \in 1 .. SectSize, Unit(l, i, u) <= m
               PROVE  e[clust2sect(Walk(F, h)[l]) + i] >= u
    BY DEF Full
  <1>0. /\ k \in Nat /\ l \in Nat /\ j \in Nat /\ i \in Nat /\ SectsClust \in Nat
        /\ SectSize \in Nat /\ ClustSize \in Nat
    BY Constants
  <1>1. Walk(F, h)[l] \in Clust
    BY InReach
  <1>2. CASE l = k /\ j <= i /\ i < j + w
    <2>1. i \in j .. j + w - 1
      BY <1>0, <1>2
    <2> QED BY <1>2, <2>1 DEF Laid
  <1>3. CASE ~(l = k /\ j <= i /\ i < j + w)
    <2>1. Unit(l, i, u) <= n
      <3>1. Unit(l, i, u) \in Nat
        BY <1>0, UnitIs
      <3>2. k * ClustSize \in Nat /\ j * SectSize \in Nat
        BY <1>0
      <3>3. CASE m <= n
        BY <3>1, <3>3
      <3>4. CASE m <= k * ClustSize + (j + w) * SectSize
        <4>1. (j + w) * SectSize \in Nat
          BY <1>0
        <4>2. Unit(l, i, u) <= k * ClustSize + (j + w) * SectSize
          <5> DEFINE a == k * ClustSize + (j + w) * SectSize
          <5>1. a \in Nat /\ m <= a
            BY <3>2, <3>4, <4>1
          <5> HIDE DEF a
          <5>2. Unit(l, i, u) <= a
            BY <3>1, <5>1
          <5> QED BY <5>2 DEF a
        <4>3. Unit(l, i, u) <= k * ClustSize + j * SectSize
          BY <1>0, <1>3, <4>2, Before
        <4> DEFINE b == k * ClustSize + j * SectSize
        <4>4. b \in Nat /\ b <= n /\ Unit(l, i, u) <= b
          BY <3>2, <4>3
        <4> HIDE DEF b
        <4> QED BY <3>1, <4>4
      <3> QED BY <3>3, <3>4
    <2>2. d[clust2sect(Walk(F, h)[l]) + i] >= u
      BY <2>1 DEF Full
    <2>3. \A g \in j .. j + w - 1 : clust2sect(Walk(F, h)[l]) + i # clust2sect(c) + g
      <3> SUFFICES ASSUME NEW g \in j .. j + w - 1,
                          clust2sect(Walk(F, h)[l]) + i = clust2sect(c) + g
                   PROVE  FALSE
        OBVIOUS
      <3>1. g \in 0 .. SectsClust - 1 /\ j <= g /\ g < j + w
        BY <1>0
      <3>2. l = k /\ i = g
        BY <1>1, <3>1, SectorOnce
      <3> QED BY <1>3, <3>1, <3>2
    <2>4. clust2sect(Walk(F, h)[l]) + i \in DataSects
      BY <1>1, SectorIn
    <2> QED BY <2>2, <2>3, <2>4 DEF Laid
  <1> QED BY <1>2, <1>3
-----------------------------------------------------------------------------
(* Data of files *)

(* A step leaves the data of a chain alone that is not the one it works on.*)
LEMMA DataKeeps ==
  ASSUME BaseInv, ChainInv, AloneInv, Command \/ Call \/ DiskFails, NEW h, Root(fat, h),
         ~(RemoveNext /\ clust = h), ~(pc = "table" /\ clust = h), ~(winflag /\ win = TableSect(h)),
         Puts => h # file[fp].org
  PROVE  SameOn(fat, h, card.data, card'.data)
  <1> SUFFICES ASSUME NEW k \in 0 .. MaxClust, NEW j \in 0 .. SectsClust - 1,
                      Walk(fat, h)[k] \in Clust
               PROVE  card'.data[clust2sect(Walk(fat, h)[k]) + j]
                        = card.data[clust2sect(Walk(fat, h)[k]) + j]
    BY DEF SameOn
  <1>0. Links(fat) /\ fat \in [Clust -> FatVal] /\ TypeOK /\ OwnInv /\ CallInv
    BY DEF BaseInv, TypeOK, ChainInv, SoundInv, Sound
  <1>1. PICK c \in Clust : c = Walk(fat, h)[k]
    OBVIOUS
  <1>2. fat[c] # 0
    <2>1. fat[c] \in {EOC} \cup Clust
      BY <1>0, <1>1, ChainEnds
    <2> QED BY <2>1, Constants
  <1>3. ASSUME NEW g, Root(fat, g), NEW i \in 0 .. MaxClust, Walk(fat, g)[i] = c PROVE g = h
    BY <1>0, <1>1, <1>3, OnePlace
  <1>4. Walk(fat, c)[0] = c /\ 0 \in 0 .. MaxClust
    BY WalkIs, Constants
  <1>5. Root(fat, c) => c = h
    BY <1>3, <1>4
  <1>6. ~(RemoveNext /\ clust = c)
    <2>1. RemoveNext => Held
      BY DEF RemoveNext, Held
    <2> QED BY <1>0, <1>5, <2>1 DEF OwnInv
  <1>7. ~(pc = "table" /\ clust = c)
    BY <1>0, <1>5 DEF OwnInv, Held
  <1>8. ~(winflag /\ win = TableSect(c))
    BY <1>5 DEF AloneInv
  <1>9. Puts => \A i \in 0 .. MaxClust : Walk(fat, file[fp].org)[i] # c
    <2>1. Puts => Root(fat, file[fp].org)
      BY <1>0, PutsIs DEF OwnInv
    <2> QED BY <1>3, <2>1
  <1>10. clust2sect(c) + j \in ClustSects(c)
    BY SectorIn
  <1>11. card'.data[clust2sect(c) + j] = card.data[clust2sect(c) + j]
    BY <1>2, <1>6, <1>7, <1>8, <1>9, <1>10, DataApart
  <1> QED BY <1>1, <1>11

(* The table in the window is not in a chain that starts elsewhere. *)
LEMMA TableSame ==
  ASSUME TypeOK, Links(fat), AloneInv, NEW h, Root(fat, h), ~(winflag /\ win = TableSect(h)), NEW d
  PROVE  SameOn(fat, h, d, TableOut(d))
  <1> SUFFICES ASSUME NEW k \in 0 .. MaxClust, NEW j \in 0 .. SectsClust - 1,
                      Walk(fat, h)[k] \in Clust
               PROVE  TableOut(d)[clust2sect(Walk(fat, h)[k]) + j]
                        = d[clust2sect(Walk(fat, h)[k]) + j]
    BY DEF SameOn
  <1>1. PICK c \in Clust : c = Walk(fat, h)[k]
    OBVIOUS
  <1> DEFINE x == clust2sect(c) + j
  <1>2. x \in ClustSects(c) /\ x \in DataSects
    BY SectorIn
  <1> HIDE DEF x
  <1>3. ~(winflag /\ \E e \in Clust : win = TableSect(e) /\ x = clust2sect(e))
    <2> SUFFICES ASSUME winflag, NEW e \in Clust, win = TableSect(e), x = clust2sect(e)
                 PROVE  FALSE
      OBVIOUS
    <2>1. x \in ClustSects(e)
      BY SectsApart, Constants
    <2>2. e = c
      BY <1>2, <2>1, SectsApart
    <2>3. Root(fat, c)
      BY <2>2 DEF AloneInv
    <2>4. Walk(fat, c)[0] = c /\ 0 \in 0 .. MaxClust
      BY WalkIs, Constants
    <2>5. c = h
      BY <1>1, <2>3, <2>4, OnePlace
    <2> QED BY <2>2, <2>5
  <1>4. TableOut(d)[x] = d[x]
    BY <1>2, <1>3 DEF TableOut
  <1> QED BY <1>1, <1>4 DEF x

LEMMA SameFull ==
  ASSUME NEW F, NEW h, NEW n \in Nat, NEW d, NEW e, Reaches(F, h, n), Full(F, h, n, d),
         SameOn(F, h, d, e)
  PROVE  Full(F, h, n, e)
  <1>1. Keeps(F, F, h)
    BY DEF Keeps
  <1> QED BY <1>1, FullStays

(* A step of f_write writes w sectors directly, or what is left goes into  *)
(* the buffer; what was there before goes out first.                       *)
PutWhole(r, s, w) ==
  LET q == file'[fp]
      out == BufferOut(file[fp]) IN
  /\ q.fptr = r.fptr + w * SectSize /\ ~q.dirty /\ q.buf = 0 /\ q.org = r.org /\ q.fsize = r.fsize
  /\ \A x \in DataSects : card'.data[x] =
       IF x \in s .. s + w - 1
       THEN Written(out, r, r.fptr + (x - s) * SectSize, x, SectSize)[x]
       ELSE out[x]

PutPart(r, s) ==
  LET q == file'[fp]
      out == BufferOut(file[fp]) IN
  /\ q.fptr = r.fptr + btw /\ q.dirty /\ q.buf = Greater(btw, Fill(r, out, s))
  /\ q.sect = s /\ q.org = r.org /\ q.fsize = r.fsize
  /\ btw < SectSize /\ card'.data = out

LEMMA PutCases ==
  ASSUME TypeOK, btw > 0, NEW r \in File, r.sc > 0, NEW s \in Nat, Put(r, s)
  PROVE  PutPart(r, s) \/ \E w \in 1 .. r.sc : PutWhole(r, s, w)
  <1> DEFINE out   == BufferOut(file[fp])
             whole == Lesser(btw \div SectSize, r.sc)
             run(w) == [i \in DataSects |->
                  IF i \in s .. s + w - 1
                  THEN Written(out, r, r.fptr + (i - s) * SectSize, i, SectSize)[i]
                  ELSE out[i]]
             direct(w) == [r EXCEPT !.fptr = r.fptr + w * SectSize, !.sc = SectsAfter(r.sc, w),
                                    !.sect = s + w - 1, !.dirty = FALSE, !.buf = 0]
             part   == [r EXCEPT !.fptr = r.fptr + btw, !.sect = s, !.dirty = TRUE,
                                 !.buf = Greater(btw, Fill(r, out, s))]
  <1>0. btw \in Nat /\ SectSize \in Nat \ {0} /\ r.sc \in Nat /\ card \in Card
    BY Constants DEF TypeOK, File
  <1>1. /\ btw \div SectSize \in Nat /\ btw % SectSize \in 0 .. SectSize - 1
        /\ btw = (btw \div SectSize) * SectSize + (btw % SectSize)
    BY <1>0, DivMod
  <1>2. /\ whole \in 0 .. r.sc
        /\ whole = 0 => btw \div SectSize = 0
    BY <1>0, <1>1 DEF Lesser
  <1>3. \/ /\ whole > 0 /\ file' = [file EXCEPT ![fp] = direct(whole)]
           /\ card' = [card EXCEPT !.data = run(whole)]
        \/ /\ whole = 0 /\ file' = [file EXCEPT ![fp] = part]
           /\ card' = [card EXCEPT !.data = out]
    BY DEF Put
  <1>4. PICK w \in 0 .. r.sc : w = whole
    BY <1>2
  <1> HIDE DEF whole
  <1>5. CASE /\ whole > 0 /\ file' = [file EXCEPT ![fp] = direct(whole)]
             /\ card' = [card EXCEPT !.data = run(whole)]
    <2>1. w \in 1 .. r.sc /\ file'[fp] = direct(w) /\ card'.data = run(w)
      <3>1. w \in 1 .. r.sc
        BY <1>0, <1>4, <1>5
      <3>2. file' = [file EXCEPT ![fp] = direct(w)] /\ card' = [card EXCEPT !.data = run(w)]
        BY <1>4, <1>5
      <3> HIDE DEF direct, run
      <3> QED BY <1>0, <3>1, <3>2 DEF TypeOK, Card
    <2>2. /\ direct(w).fptr = r.fptr + w * SectSize /\ ~direct(w).dirty /\ direct(w).buf = 0
          /\ direct(w).org = r.org /\ direct(w).fsize = r.fsize
      BY DEF File
    <2> HIDE DEF direct
    <2>3. \A x \in DataSects : card'.data[x] =
            IF x \in s .. s + w - 1
            THEN Written(out, r, r.fptr + (x - s) * SectSize, x, SectSize)[x]
            ELSE out[x]
      BY <2>1
    <2> HIDE DEF run
    <2>4. PutWhole(r, s, w)
      BY <2>1, <2>2, <2>3 DEF PutWhole
    <2> QED BY <2>1, <2>4
  <1>6. CASE /\ whole = 0 /\ file' = [file EXCEPT ![fp] = part]
             /\ card' = [card EXCEPT !.data = out]
    <2>1. btw < SectSize
      BY <1>0, <1>1, <1>2, <1>6
    <2>2. /\ part.fptr = r.fptr + btw /\ part.dirty /\ part.buf = Greater(btw, Fill(r, out, s))
          /\ part.sect = s /\ part.org = r.org /\ part.fsize = r.fsize
      BY DEF File
    <2> HIDE DEF part
    <2>3. file'[fp] = part /\ card'.data = out
      BY <1>0, <1>6 DEF TypeOK, Card
    <2>4. PutPart(r, s)
      BY <2>1, <2>2, <2>3 DEF PutPart
    <2> QED BY <2>4
  <1> QED BY <1>3, <1>5, <1>6

(* The buffer of sector j of cluster k has what was written there, up to   *)
(* the position of file q.                                                 *)
LEMMA BufferGrows ==
  ASSUME NEW F, Links(F), NEW p \in File, NEW q \in File, Root(F, p.org),
         q.org = p.org, q.fsize = p.fsize, NEW k \in 0 .. MaxClust, NEW j \in 0 .. SectsClust - 1,
         NEW c \in Clust, c = Walk(F, p.org)[k], NEW v \in 1 .. SectSize, q.fptr = Unit(k, j, v),
         k * ClustSize + j * SectSize <= Taken(p), Reaches(F, p.org, Taken(q)),
         NEW d, NEW e, Full(F, p.org, Taken(p), d), e[clust2sect(c) + j] = q.buf,
         \A x \in DataSects : x # clust2sect(c) + j => e[x] = d[x],
         \A u \in 1 .. SectSize : Unit(k, j, u) <= Taken(q) => q.buf >= u
  PROVE  Full(F, q.org, Taken(q), e) /\ BufKept(q)
  <1>0. /\ k \in Nat /\ j \in Nat /\ v \in Nat /\ SectSize \in Nat /\ ClustSize \in Nat
        /\ SectsClust \in Nat
    BY Constants
  <1>1. BufKept(q)
    BY <1>0, BufKeptIs
  <1>2. PICK n \in Nat, m \in Nat : n = Taken(p) /\ m = Taken(q)
    BY TakenIs
  <1>3. m <= n \/ m <= k * ClustSize + (j + 1) * SectSize
    <2> DEFINE a == k * ClustSize
               b == j * SectSize
    <2>1. (j + 1) * SectSize = b + SectSize /\ a \in Nat /\ b \in Nat
      BY <1>0
    <2>2. m = q.fsize \/ m = q.fptr
      BY <1>2, TakenIs
    <2>3. p.fsize <= n
      BY <1>2, TakenIs
    <2>4. q.fptr = a + b + v
      BY DEF Unit
    <2> HIDE DEF a, b
    <2>5. m <= n \/ m <= a + (b + SectSize)
      BY <1>0, <2>1, <2>2, <2>3, <2>4
    <2> QED BY <2>1, <2>5 DEF a
  <1>4. \A x \in DataSects : (\A i \in j .. j + 1 - 1 : x # clust2sect(c) + i) => e[x] = d[x]
    BY <1>0
  <1>5. \A i \in j .. j + 1 - 1, u \in 1 .. SectSize :
          Unit(k, i, u) <= m => e[clust2sect(c) + i] >= u
    <2>1. \A i \in j .. j + 1 - 1 : i = j
      BY <1>0
    <2> QED BY <1>2, <2>1
  <1>6. 1 \in Nat \ {0} /\ j + 1 <= SectsClust
    BY <1>0
  <1>7. Full(F, p.org, m, e)
    <2>1. Laid(d, e, c, k, j, 1, m)
      BY <1>4, <1>5 DEF Laid
    <2> QED BY <1>2, <1>3, <1>6, <2>1, SectorsPut
  <1> QED BY <1>1, <1>2, <1>7

LEMMA BufferStep ==
  ASSUME BaseInv, ChainInv, FileKept(fat, file[fp], card.data), WriteBuffer,
         FilePlaced(fat, file'[fp]), file'[fp] \in File
  PROVE  FileKept(fat, file'[fp], card'.data)
  <1> DEFINE p == file[fp]
  <1>0. /\ p \in File /\ fp \in OpenFiles /\ Links(fat) /\ Root(fat, p.org) /\ SectSize \in Nat
        /\ card.data \in [DataSects -> Int] /\ UNCHANGED card
    <2>1. fp \in OpenFiles
      BY BufferWhere
    <2> QED BY <2>1, Constants
            DEF BaseInv, TypeOK, ChainInv, SoundInv, Sound, OwnInv, Card, WriteBuffer
  <1>1. PICK k \in 0 .. MaxClust, j \in 0 .. SectsClust - 1, u \in 1 .. SectSize, m \in Nat :
          BufferAt(k, j, u, m)
    BY BufferWhere
  <1>2. PICK q \in File : q = file'[fp]
    OBVIOUS
  <1>3. /\ Placed(fat, p, k, j, u) /\ p.curr \in Clust /\ u < SectSize
        /\ q.fptr = k * ClustSize + j * SectSize + (u + m) /\ u + m \in 1 .. SectSize
        /\ q.dirty /\ q.buf = Greater(p.buf, u + m) /\ ~p.err
        /\ q.sect = p.sect /\ q.org = p.org /\ q.curr = p.curr /\ q.fsize = p.fsize
    BY <1>1, <1>2 DEF BufferAt
  <1> HIDE DEF p
  <1>4. PICK v \in 1 .. SectSize : v = u + m
    BY <1>3
  <1>5. q.fptr = Unit(k, j, v)
    BY <1>3, <1>4 DEF Unit
  <1>6. /\ p.fptr = Unit(k, j, u) /\ Walk(fat, p.org)[k] = p.curr
        /\ p.sect = clust2sect(p.curr) + j
    BY <1>3 DEF Placed, Unit
  <1>7. PICK c \in Clust : c = p.curr
    BY <1>3
  <1>8. k \in Nat /\ k * ClustSize \in Nat /\ j * SectSize \in Nat
    BY Constants
  <1>9. k * ClustSize + j * SectSize <= Taken(p)
    <2> DEFINE a == k * ClustSize + j * SectSize
    <2>1. a \in Nat /\ p.fptr = a + u
      BY <1>6, <1>8 DEF Unit
    <2> HIDE DEF a
    <2>2. a <= Taken(p)
      BY <1>0, <2>1, TakenIs
    <2> QED BY <2>2 DEF a
  <1>10. Reaches(fat, p.org, Taken(q))
    BY <1>2, <1>3, PlacedReaches
  <1>11. Full(fat, p.org, Taken(p), Buffered(p, card.data)) /\ BufKept(p)
    BY DEF FileKept, p
  <1> DEFINE d == Buffered(p, card.data)
             e == Buffered(q, card.data)
  <1>12. e = [card.data EXCEPT ![p.sect] = q.buf]
    BY <1>3 DEF Buffered
  <1>13. \A x \in DataSects : x # clust2sect(c) + j => e[x] = d[x]
    BY <1>0, <1>6, <1>7, <1>12 DEF Buffered
  <1>14. e[clust2sect(c) + j] = q.buf
    <2>1. clust2sect(c) + j \in DataSects
      BY SectorIn
    <2> QED BY <1>0, <1>6, <1>7, <1>12, <2>1
  <1>15. ASSUME NEW w \in 1 .. SectSize, Unit(k, j, w) <= Taken(q) PROVE q.buf >= w
    <2>0. p.buf \in Nat /\ q.buf \in Nat /\ v \in Nat /\ w \in Nat /\ q.buf >= p.buf /\ q.buf >= v
      BY <1>0, <1>3, <1>4, TakenIs DEF Greater
    <2>1. CASE Taken(q) = q.fptr
      <3> DEFINE a == k * ClustSize + j * SectSize
      <3>1. a \in Nat /\ a + w <= a + v
        BY <1>5, <1>8, <1>15, <2>1 DEF Unit
      <3> HIDE DEF a
      <3> QED BY <2>0, <3>1
    <2>2. CASE Taken(q) = q.fsize
      <3>1. Unit(k, j, w) <= Taken(p)
        <4>1. p.fsize <= Taken(p) /\ Taken(p) \in Nat /\ p.fsize \in Nat
          BY <1>0, TakenIs
        <4>2. PICK x \in Nat : x = Unit(k, j, w)
          BY <1>8, UnitIs
        <4>3. x <= p.fsize
          BY <1>3, <1>15, <2>2, <4>2
        <4> QED BY <4>1, <4>2, <4>3
      <3>2. BufKept(p) <=> (u < SectSize => \A y \in 1 .. SectSize :
                                              Unit(k, j, y) <= Taken(p) => p.buf >= y)
        BY <1>6, <1>8, BufKeptIs
      <3>3. p.buf >= w
        BY <1>3, <1>11, <3>1, <3>2
      <3> QED BY <2>0, <3>3
    <2> QED BY <2>1, <2>2, TakenIs
  <1> HIDE DEF d, e
  <1>16. Full(fat, p.org, Taken(p), d)
    BY <1>11 DEF d
  <1>17. Full(fat, q.org, Taken(q), e) /\ BufKept(q)
    BY <1>0, <1>3, <1>5, <1>6, <1>7, <1>9, <1>10, <1>13, <1>14, <1>15, <1>16, BufferGrows
  <1> QED BY <1>0, <1>2, <1>17 DEF FileKept, e

LEMMA PutPartKept ==
  ASSUME BaseInv, ChainInv, fp \in OpenFiles, FileKept(fat, file[fp], card.data),
         NEW r \in File, NEW s \in Nat, NEW k \in 0 .. MaxClust, NEW j \in 0 .. SectsClust - 1,
         PutAt(r, s, k, j), PutPart(r, s), FilePlaced(fat, file'[fp]), file'[fp] \in File,
         file'[fp].curr = r.curr
  PROVE  /\ FileKept(fat, file'[fp], card'.data)
         /\ Full(fat, file[fp].org, Taken(file[fp]), card'.data)
  <1> DEFINE p == file[fp]
             out == BufferOut(p)
  <1>0. /\ p \in File /\ Links(fat) /\ Root(fat, p.org) /\ SectSize \in Nat /\ btw \in Nat
        /\ out \in [DataSects -> Int]
    BY Constants, BufferOutIs
       DEF OpenFiles, BaseInv, TypeOK, ChainInv, SoundInv, Sound, OwnInv, Card
  <1>1. PICK q \in File : q = file'[fp]
    OBVIOUS
  <1>2. /\ btw > 0 /\ r.fptr = k * ClustSize + j * SectSize /\ r.curr \in Clust
        /\ Walk(fat, p.org)[k] = r.curr /\ s = clust2sect(r.curr) + j
        /\ r.fptr = p.fptr /\ r.org = p.org /\ r.fsize = p.fsize
    BY DEF PutAt
  <1>3. /\ q.fptr = r.fptr + btw /\ q.dirty /\ q.buf = Greater(btw, Fill(r, out, s))
        /\ q.sect = s /\ q.org = p.org /\ q.fsize = p.fsize
        /\ btw < SectSize /\ card'.data = out
    BY <1>1, <1>2 DEF PutPart
  <1>4. Full(fat, p.org, Taken(p), out)
    BY BufferIs DEF FileKept
  <1> HIDE DEF p, out
  <1>5. PICK c \in Clust : c = r.curr
    BY <1>2
  <1>6. btw \in 1 .. SectSize /\ k \in Nat /\ k * ClustSize \in Nat /\ j * SectSize \in Nat
    BY <1>0, <1>2, <1>3, Constants
  <1>7. q.fptr = Unit(k, j, btw)
    BY <1>2, <1>3 DEF Unit
  <1>8. k * ClustSize + j * SectSize <= Taken(p)
    BY <1>0, <1>2, TakenIs
  <1>9. Reaches(fat, p.org, Taken(q))
    BY <1>1, <1>2, <1>3, PlacedReaches
  <1> DEFINE e == Buffered(q, out)
  <1>10. e = [out EXCEPT ![s] = q.buf] /\ s \in DataSects
    BY <1>2, <1>3, SectorIn DEF Buffered
  <1>11. \A x \in DataSects : x # clust2sect(c) + j => e[x] = out[x]
    BY <1>0, <1>2, <1>5, <1>10
  <1>12. e[clust2sect(c) + j] = q.buf
    BY <1>0, <1>2, <1>5, <1>10
  <1>13. ASSUME NEW w \in 1 .. SectSize, Unit(k, j, w) <= Taken(q) PROVE q.buf >= w
    <2> DEFINE a == k * ClustSize + j * SectSize
    <2>0. /\ a \in Nat /\ w \in Nat /\ w > 0 /\ r.fptr = a /\ Unit(k, j, w) = a + w
          /\ Unit(k, j, btw) = a + btw
      BY <1>0, <1>2, <1>6 DEF Unit
    <2> HIDE DEF a
    <2>1. Fill(r, out, s) \in Int
      BY <1>0, FillIs
    <2>2. q.buf >= btw /\ q.buf >= Fill(r, out, s) /\ q.buf \in Nat
      BY <1>0, <1>3, <2>1, TakenIs DEF Greater
    <2>3. CASE Taken(q) = q.fptr
      BY <1>0, <1>7, <1>13, <2>0, <2>2, <2>3
    <2>4. CASE Taken(q) = q.fsize
      <3>1. p.fsize <= Taken(p) /\ Taken(p) \in Nat /\ p.fsize \in Nat
        BY <1>0, TakenIs
      <3>2. a + w <= p.fsize
        BY <1>3, <1>13, <2>0, <2>4
      <3>3. Unit(k, j, w) <= Taken(p) /\ r.fptr < r.fsize
        BY <1>2, <2>0, <3>1, <3>2
      <3>4. out[s] >= w
        BY <1>2, <1>4, <3>3 DEF Full
      <3>5. Fill(r, out, s) = out[s]
        BY <1>10, <3>3 DEF Fill
      <3>6. out[s] \in Int
        BY <1>0, <1>10
      <3> QED BY <2>0, <2>2, <3>4, <3>5, <3>6
    <2> QED BY <2>3, <2>4, TakenIs
  <1> HIDE DEF e
  <1>14. Full(fat, q.org, Taken(q), e) /\ BufKept(q)
    BY <1>0, <1>2, <1>3, <1>4, <1>5, <1>6, <1>7, <1>8, <1>9, <1>11, <1>12, <1>13, BufferGrows
  <1> QED BY <1>1, <1>3, <1>4, <1>14 DEF FileKept, e, p

LEMMA PutWholeKept ==
  ASSUME BaseInv, ChainInv, fp \in OpenFiles, FileKept(fat, file[fp], card.data),
         NEW r \in File, NEW s \in Nat, NEW k \in 0 .. MaxClust, NEW j \in 0 .. SectsClust - 1,
         PutAt(r, s, k, j), NEW w \in 1 .. r.sc, PutWhole(r, s, w), FilePlaced(fat, file'[fp]),
         file'[fp] \in File, file'[fp].curr = r.curr
  PROVE  /\ FileKept(fat, file'[fp], card'.data)
         /\ Full(fat, file[fp].org, Taken(file[fp]), card'.data)
  <1> DEFINE p == file[fp]
             out == BufferOut(p)
             e == card'.data
  <1>0. /\ p \in File /\ Links(fat) /\ Root(fat, p.org) /\ SectSize \in Nat \ {0}
        /\ out \in [DataSects -> Int] /\ SectsClust \in Nat /\ ClustSize \in Nat /\ k \in Nat
        /\ j \in Nat
    BY Constants, BufferOutIs
       DEF OpenFiles, BaseInv, TypeOK, ChainInv, SoundInv, Sound, OwnInv, Card
  <1>1. PICK q \in File : q = file'[fp]
    OBVIOUS
  <1>2. /\ r.fptr = k * ClustSize + j * SectSize /\ r.curr \in Clust /\ r.sc = SectsClust - j
        /\ Walk(fat, p.org)[k] = r.curr /\ s = clust2sect(r.curr) + j
        /\ r.fptr = p.fptr /\ r.org = p.org /\ r.fsize = p.fsize
    BY DEF PutAt
  <1>3. /\ q.fptr = r.fptr + w * SectSize /\ ~q.dirty /\ q.org = p.org /\ q.fsize = p.fsize
        /\ \A x \in DataSects : e[x] =
             IF x \in s .. s + w - 1
             THEN Written(out, r, r.fptr + (x - s) * SectSize, x, SectSize)[x]
             ELSE out[x]
    BY <1>1, <1>2 DEF PutWhole
  <1>4. Full(fat, p.org, Taken(p), out)
    BY BufferIs DEF FileKept
  <1> HIDE DEF p, out, e
  <1>5. PICK c \in Clust : c = r.curr
    BY <1>2
  <1>6. w \in Nat \ {0} /\ j + w <= SectsClust /\ clust2sect(c) \in Nat
    BY <1>0, <1>2, SectsApart
  <1>7. ASSUME NEW i \in j .. j + w - 1
        PROVE  e[clust2sect(c) + i] = SectSize
    <2> DEFINE x == clust2sect(c) + i
    <2>1. i \in 0 .. SectsClust - 1 /\ i \in Nat
      BY <1>0, <1>6
    <2>2. x \in s .. s + w - 1 /\ x - s = i - j /\ x \in DataSects
      <3>1. x \in DataSects
        BY <2>1, SectorIn
      <3> QED BY <1>0, <1>2, <1>5, <1>6, <2>1, <3>1
    <2>3. r.fptr + (x - s) * SectSize = k * ClustSize + i * SectSize + 0
      <3>1. /\ (i - j) * SectSize = i * SectSize - j * SectSize /\ j * SectSize \in Nat
            /\ i * SectSize \in Nat /\ k * ClustSize \in Nat
        <4>1. i >= j
          BY <1>0
        <4> QED BY <1>0, <2>1, <4>1, Product
      <3> DEFINE a == k * ClustSize
                 b == j * SectSize
                 f == i * SectSize
                 g == (i - j) * SectSize
      <3>2. r.fptr = a + b /\ g = f - b /\ a \in Nat /\ b \in Nat /\ f \in Nat
        BY <1>2, <3>1
      <3> HIDE DEF a, b, f, g
      <3>3. r.fptr + g = a + f + 0
        BY <3>2
      <3> QED BY <2>2, <3>3 DEF a, f, g
    <2>4. SectorAt(fat, r.org, r.fptr + (x - s) * SectSize) = clust2sect(c) + i
      <3> DEFINE v == 0
                 y == r.fptr + (x - s) * SectSize
      <3>1. v \in 0 .. SectSize - 1 /\ y = k * ClustSize + i * SectSize + v
        BY <1>0, <2>3
      <3>2. Walk(fat, r.org)[k] = c
        BY <1>2, <1>5
      <3> HIDE DEF v, y
      <3>3. SectorAt(fat, r.org, y) = clust2sect(Walk(fat, r.org)[k]) + i
        BY <2>1, <3>1, <3>2, SectorAtIs
      <3> QED BY <3>2, <3>3 DEF y
    <2>5. Written(out, r, r.fptr + (x - s) * SectSize, x, SectSize)[x] = SectSize
      <3> DEFINE y == r.fptr + (x - s) * SectSize
      <3>1. x = SectorAt(fat, r.org, y)
        BY <2>4
      <3> HIDE DEF x, y
      <3>2. Written(out, r, y, x, SectSize)[x] = SectSize
        BY <1>0, <2>2, <3>1 DEF Written
      <3> QED BY <3>2 DEF y
    <2> HIDE DEF x
    <2>6. e[x] = SectSize
      BY <1>3, <2>2, <2>5
    <2> QED BY <2>6 DEF x
  <1>8. \A x \in DataSects : (\A i \in j .. j + w - 1 : x # clust2sect(c) + i) => e[x] = out[x]
    <2> SUFFICES ASSUME NEW x \in DataSects, \A i \in j .. j + w - 1 : x # clust2sect(c) + i
                 PROVE  e[x] = out[x]
      OBVIOUS
    <2>1. x \notin s .. s + w - 1
      <3> SUFFICES ASSUME x \in s .. s + w - 1 PROVE FALSE
        OBVIOUS
      <3>1. x - clust2sect(c) \in j .. j + w - 1 /\ x = clust2sect(c) + (x - clust2sect(c))
        BY <1>0, <1>2, <1>5, <1>6
      <3> QED BY <3>1
    <2> QED BY <1>3, <2>1
  <1>9. PICK n \in Nat, m \in Nat : n = Taken(p) /\ m = Taken(q)
    BY <1>0, TakenIs
  <1>10. \A y \in Nat, i \in j .. j + w - 1, u \in 1 .. SectSize :
           Unit(k, i, u) <= y => e[clust2sect(c) + i] >= u
    BY <1>0, <1>7
  <1>11. q.fptr = k * ClustSize + (j + w) * SectSize
    <2>1. (j + w) * SectSize = j * SectSize + w * SectSize
      BY <1>0, <1>6
    <2>2. k * ClustSize \in Nat /\ j * SectSize \in Nat /\ w * SectSize \in Nat
      BY <1>0, <1>6
    <2> DEFINE a == k * ClustSize
               b == j * SectSize
               f == w * SectSize
    <2>3. q.fptr = (a + b) + f /\ a \in Nat /\ b \in Nat /\ f \in Nat /\ (j + w) * SectSize = b + f
      BY <1>2, <1>3, <2>1, <2>2
    <2> HIDE DEF a, b, f
    <2>4. q.fptr = a + (b + f)
      BY <2>3
    <2> QED BY <2>3, <2>4 DEF a
  <1>12. k * ClustSize + j * SectSize <= n
    BY <1>0, <1>2, <1>9, TakenIs
  <1>13. m <= n \/ m <= k * ClustSize + (j + w) * SectSize
    <2>1. m = q.fsize \/ m = q.fptr
      BY <1>9, TakenIs
    <2>2. p.fsize <= n
      BY <1>0, <1>9, TakenIs
    <2> QED BY <1>3, <1>11, <2>1, <2>2
  <1>14. Reaches(fat, p.org, m)
    BY <1>1, <1>2, <1>3, <1>9, PlacedReaches
  <1>a. Full(fat, p.org, n, out) /\ c = Walk(fat, p.org)[k]
    BY <1>2, <1>4, <1>5, <1>9
  <1>b. ASSUME NEW y \in Nat, Reaches(fat, p.org, y),
               y <= n \/ y <= k * ClustSize + (j + w) * SectSize
        PROVE  Full(fat, p.org, y, e)
    <2>1. Laid(out, e, c, k, j, w, y)
      BY <1>8, <1>10 DEF Laid
    <2>2. Links(fat) /\ Root(fat, p.org) /\ w \in Nat \ {0} /\ j + w <= SectsClust
      BY <1>0, <1>6
    <2> QED BY <1>12, <1>a, <1>b, <2>1, <2>2, SectorsPut
  <1>15. Full(fat, p.org, m, e)
    BY <1>13, <1>14, <1>b
  <1>16. Full(fat, p.org, n, e)
    <2>1. Reaches(fat, p.org, n)
      <3>1. FilePlaced(fat, p) /\ (p.fptr > 0 => p.curr \in Clust)
        BY DEF ChainInv, PlaceInv, OpenFiles, BaseInv, FilesInv, Positioned, p
      <3> QED BY <1>0, <1>9, <3>1, PlacedReaches
    <2>2. n <= n
      OBVIOUS
    <2> QED BY <1>b, <2>1, <2>2
  <1>17. BufKept(q)
    <2> DEFINE i == j + w - 1
    <2>1. i \in 0 .. SectsClust - 1 /\ i \in Nat /\ i + 1 = j + w
      BY <1>0, <1>6
    <2>2. SectSize \in 1 .. SectSize
      BY <1>0
    <2>3. (i + 1) * SectSize = i * SectSize + SectSize /\ i * SectSize \in Nat
      BY <1>0, <2>1
    <2>4. q.fptr = Unit(k, i, SectSize)
      <3> DEFINE a == k * ClustSize
                 b == i * SectSize
      <3>1. a \in Nat /\ b \in Nat /\ q.fptr = a + (b + SectSize)
        BY <1>0, <1>11, <2>1, <2>3
      <3> HIDE DEF a, b
      <3>2. q.fptr = a + b + SectSize
        BY <1>0, <3>1
      <3> QED BY <3>2 DEF Unit, a, b
    <2> HIDE DEF i
    <2>5. BufKept(q) <=> (SectSize < SectSize => \A u \in 1 .. SectSize :
                                           Unit(k, i, u) <= Taken(q) => q.buf >= u)
      BY <1>0, <2>1, <2>2, <2>4, BufKeptIs
    <2> QED BY <1>0, <2>5
  <1>18. Buffered(q, e) = e
    BY <1>3 DEF Buffered
  <1> QED BY <1>1, <1>3, <1>9, <1>15, <1>16, <1>17, <1>18 DEF FileKept, p, e

(* A step of f_write keeps its file, and all that was in it gets out.      *)
LEMMA PutKept ==
  ASSUME BaseInv, ChainInv, WriteNextSector \/ WriteGrown, FileKept(fat, file[fp], card.data)
  PROVE  /\ \A g \in {"log", "wr"} : g # fp => file'[g] = file[g]
         /\ FileKept(fat, file'[fp], card'.data)
         /\ Full(fat, file[fp].org, Taken(file[fp]), card'.data)
  <1>0. fp \in OpenFiles /\ TypeOK
    BY PutsIs DEF Puts, BaseInv
  <1>1. PICK r \in File, s \in Nat, k \in 0 .. MaxClust, j \in 0 .. SectsClust - 1 :
          PutAt(r, s, k, j)
    BY PutWhere
  <1>2. /\ Put(r, s) /\ btw > 0 /\ r.sc = SectsClust - j /\ r.sc > 0
        /\ r.fptr = k * ClustSize + j * SectSize /\ r.org = file[fp].org /\ r.fsize = file[fp].fsize
        /\ r.curr \in Clust /\ Walk(fat, r.org)[k] = r.curr /\ s = clust2sect(r.curr) + j
    BY <1>1, Constants DEF PutAt
  <1>3. /\ \A g \in {"log", "wr"} : g # fp => file'[g] = file[g]
        /\ file'[fp].curr = r.curr
    BY <1>0, <1>2, PutKeeps
  <1>4. file' \in [{"log", "wr"} -> File]
    BY <1>0, <1>2, PutFile
  <1>5. file'[fp] \in File
    BY <1>0, <1>4 DEF OpenFiles
  <1>6. Reaches(fat, r.org, r.fsize)
    BY <1>0, <1>2 DEF ChainInv, PlaceInv, FilePlaced
  <1>7. FilePlaced(fat, file'[fp])
    BY <1>0, <1>2, <1>6, PutPlaced
  <1>8. CASE PutPart(r, s)
    BY <1>0, <1>1, <1>3, <1>5, <1>7, <1>8, PutPartKept
  <1>9. ASSUME NEW w \in 1 .. r.sc, PutWhole(r, s, w)
        PROVE  /\ FileKept(fat, file'[fp], card'.data)
               /\ Full(fat, file[fp].org, Taken(file[fp]), card'.data)
    BY <1>0, <1>1, <1>3, <1>5, <1>7, <1>9, PutWholeKept
  <1>10. PutPart(r, s) \/ \E w \in 1 .. r.sc : PutWhole(r, s, w)
    BY <1>0, <1>2, PutCases
  <1> QED BY <1>3, <1>8, <1>9, <1>10

(* What an open file has on the card once its buffer is out.               *)
LEMMA OutFull ==
  ASSUME BaseInv, ChainInv, AloneInv, fp \in OpenFiles, FileKept(fat, file[fp], card.data),
         NEW c, c = [card EXCEPT !.data = BufferOut(file[fp])]
  PROVE  /\ Full(fat, file[fp].org, Taken(file[fp]), c.data)
         /\ Full(fat, file[fp].org, Taken(file[fp]), FlushedTo(c).data)
         /\ c \in Card /\ c.data = BufferOut(file[fp])
         /\ FlushedTo(c) \in Card /\ FlushedTo(c).data = TableOut(c.data)
  <1>0. /\ TypeOK /\ Coherent /\ Links(fat) /\ file[fp] \in File /\ card \in Card
        /\ Root(fat, file[fp].org) /\ card.data \in [DataSects -> Int]
    BY DEF BaseInv, TypeOK, ChainInv, SoundInv, Sound, OwnInv, OpenFiles, Card
  <1>1. BufferOut(file[fp]) \in [DataSects -> Int]
    BY <1>0, BufferOutIs
  <1>2. c \in Card /\ c.data = BufferOut(file[fp]) /\ c.fat = card.fat /\ c.dir = card.dir
    BY <1>0, <1>1, WithDataIs
  <1>3. FlushedTo(c) \in Card /\ FlushedTo(c).data = TableOut(c.data)
    BY <1>0, <1>2, FlushedToIs
  <1>4. PICK n \in Nat : n = Taken(file[fp])
    BY <1>0, TakenIs
  <1>5. Full(fat, file[fp].org, n, c.data)
    BY <1>2, <1>4, BufferIs DEF FileKept
  <1>6. Reaches(fat, file[fp].org, n)
    <2>1. FilePlaced(fat, file[fp]) /\ (file[fp].fptr > 0 => file[fp].curr \in Clust)
      BY DEF ChainInv, PlaceInv, OpenFiles, BaseInv, FilesInv, Positioned
    <2> QED BY <1>0, <1>4, <2>1, PlacedReaches
  <1>7. SameOn(fat, file[fp].org, c.data, TableOut(c.data))
    <2>1. ~(winflag /\ win = TableSect(file[fp].org)) \/ file[fp].org \notin Clust
      BY DEF AloneInv
    <2>2. CASE ~(winflag /\ win = TableSect(file[fp].org))
      BY <1>0, <2>2, TableSame
    <2>3. CASE file[fp].org \notin Clust
      <3>1. \A k \in 0 .. MaxClust : Walk(fat, file[fp].org)[k] \notin Clust
        BY <2>3, WalkDown, WalkIs, Constants
      <3> QED BY <3>1 DEF SameOn
    <2> QED BY <2>1, <2>2, <2>3
  <1>8. Full(fat, file[fp].org, n, TableOut(c.data))
    BY <1>5, <1>6, <1>7, SameFull
  <1> QED BY <1>2, <1>3, <1>4, <1>5, <1>8

(* A step leaves the data of its file alone, or all that was in it is out. *)
LEMMA OwnFull ==
  ASSUME BaseInv, ChainInv, AloneInv, Puts, FileKept(fat, file[fp], card.data)
  PROVE  /\ \/ card'.data = card.data
            \/ Full(fat, file[fp].org, Taken(file[fp]), card'.data)
         /\ SyncEntry => Full(fat, file[fp].org, Taken(file[fp]), card'.data)
  <1>0. fp \in OpenFiles
    BY PutsIs
  <1> DEFINE c == [card EXCEPT !.data = BufferOut(file[fp])]
             Kept == Full(fat, file[fp].org, Taken(file[fp]), card'.data)
  <1>1. /\ Full(fat, file[fp].org, Taken(file[fp]), c.data)
        /\ Full(fat, file[fp].org, Taken(file[fp]), FlushedTo(c).data)
    BY <1>0, OutFull
  <1>2. CASE WriteNextSector \/ WriteGrown
    <2>1. Kept
      BY <1>2, PutKept
    <2> QED BY <2>1
  <1>3. CASE SyncEntry
    <2>1. card' = c \/ card' = FlushedTo(c)
      BY <1>3 DEF SyncEntry
    <2> HIDE DEF c
    <2>2. Kept
      BY <1>1, <2>1
    <2> QED BY <2>2
  <1>4. CASE DataFails \/ SyncFails
    <2>1. card' = card \/ card' = c \/ card' = FlushedTo(c)
      BY <1>4 DEF DataFails, SyncFails, Missed
    <2>2. ~SyncEntry \/ Kept
      BY <1>3
    <2> HIDE DEF c
    <2>3. card'.data = card.data \/ Kept
      BY <1>1, <2>1
    <2> QED BY <2>2, <2>3
  <1> QED BY <1>2, <1>3, <1>4 DEF Puts
-----------------------------------------------------------------------------
(* The chains of the card, and the table in the window *)

LEMMA KeepsOn ==
  ASSUME NEW F, NEW G, NEW H, NEW h, Keeps(F, G, h), Keeps(G, H, h)
  PROVE  Keeps(F, H, h)
  BY DEF Keeps

(* What the card has of the directory is old, or all there is.             *)
LEMMA CardDir ==
  ASSUME BaseInv, Command \/ Call \/ DiskFails
  PROVE  /\ card'.dir = dir \/ (card'.dir = card.dir /\ UNCHANGED fat)
         /\ (card'.dir = card.dir /\ card'.fat = card.fat) \/ (card'.dir = dir /\ card'.fat = fat)
  <1>1. TypeOK /\ Coherent /\ CardMoves
    BY StepTypes DEF BaseInv, WindowStep
  <1>2. UNCHANGED fat \/ \E c \in Clust : \E v \in FatVal : SetFat(c, v)
    BY StepTypes DEF WindowStep, SetDir
  <1>3. (card'.dir = card.dir /\ card'.fat = card.fat) \/ (card'.dir = dir /\ card'.fat = fat)
    BY <1>1 DEF CardMoves
  <1>4. card'.dir = dir \/ UNCHANGED fat
    BY <1>1, <1>2, FatSetFlushes
  <1> QED BY <1>3, <1>4

LEMMA OnlyFat ==
  ASSUME TypeOK, Next, pc' \in {"link", "table", "entry"}
  PROVE  \/ /\ WriteAllocate \/ MkdirAllocate
            /\ win' = FatSect(LastSeen)
         \/ MkdirTable
  <1>1. ASSUME Command PROVE FALSE
    BY <1>1 DEF Command, LogOpen, CatOpen, Unlink, LogWrite, CatWrite, CatRead, LogStop,
                CatClose, Mkdir
  <1>2. ASSUME DiskFails \/ Reset PROVE FALSE
    BY <1>2 DEF DiskFails, ChainFails, DataFails, SyncFails, RemoveFails, MkdirFails,
                TableFails, Fails, WriteError, Return, Reset
  <1>3. ASSUME Write PROVE WriteAllocate
    BY <1>3 DEF Write, WriteBuffer, WriteNextSector, WriteKnownCluster, WriteLink,
                WriteGrown, WriteFull, WriteEnd, WriteSearch, AtBoundary
  <1>4. ASSUME Sync \/ RemoveNext \/ RemoveEnd \/ MkdirEntry \/ MkdirSync PROVE FALSE
    BY <1>4 DEF Sync, SyncNothing, SyncEntry, SyncFlush, RemoveNext, RemoveEnd,
                MkdirEntry, MkdirSync, Return
  <1>5. WriteAllocate \/ MkdirAllocate => win' = FatSect(LastSeen)
    BY DEF WriteAllocate, WriteSearch, MkdirAllocate
  <1> QED BY <1>1, <1>2, <1>3, <1>4, <1>5 DEF Next, Call, Made

LEMMA PrefixStays ==
  ASSUME BaseInv, ChainInv, PrefixInv, Next
  PROVE  PrefixInv'
  <1>0. /\ TypeOK /\ Coherent /\ Sound(fat, dir) /\ Sound(card.fat, card.dir) /\ OwnInv
    BY DEF BaseInv, ChainInv, SoundInv
  <1>1. pc' \in {"link", "table", "entry"} => win' # DirSect
    <2>1. LastSeen \in Clust
      BY <1>0, LastSeenIs
    <2>2. FatSect(LastSeen) # DirSect
      BY <2>1, FatSectIs
    <2>3. MkdirTable => win' # DirSect
      BY TableSectIs DEF MkdirTable, BaseInv, CallInv
    <2> QED BY <1>0, <2>2, <2>3, OnlyFat
  <1>2. ASSUME NEW s \in Slots
        PROVE  Root(fat', card'.dir[s].org) /\ Keeps(card'.fat, fat', card'.dir[s].org)
    <2>1. CASE Reset
      <3>1. fat' = card.fat /\ card'.fat = card.fat /\ card'.dir = card.dir
        BY <2>1, ResetTypes DEF Reset
      <3> QED BY <1>0, <3>1 DEF Sound, Keeps
    <2>2. CASE Command \/ Call \/ DiskFails
      <3>1. FatStep
        BY <2>2, FatSteps
      <3>2. ASSUME NEW h, h = dir[s].org PROVE Root(fat', h) /\ Keeps(fat, fat', h)
        <4>1. Root(fat, h) /\ ~(Held /\ h = clust)
          BY <1>0, <3>2 DEF Sound, OwnInv
        <4> QED BY <3>1, <4>1 DEF FatStep
      <3>3. ASSUME NEW h, h = card.dir[s].org
            PROVE  Root(fat, h) /\ Keeps(card.fat, fat, h)
        BY <3>3 DEF PrefixInv
      <3>4. CASE card'.dir = dir /\ card'.fat = fat
        BY <3>2, <3>4
      <3>5. CASE card'.dir = card.dir /\ card'.fat = card.fat
        <4>1. CASE UNCHANGED fat
          BY <3>3, <3>5, <4>1
        <4>2. CASE card'.dir = dir
          <5>1. card.dir[s].org = dir[s].org
            BY <3>5, <4>2
          <5>2. PICK h : h = dir[s].org
            OBVIOUS
          <5>3. Root(fat', h) /\ Keeps(fat, fat', h) /\ Keeps(card.fat, fat, h)
            BY <3>2, <3>3, <5>1, <5>2
          <5>4. Keeps(card.fat, fat', h)
            BY <5>3, KeepsOn
          <5> QED BY <3>5, <5>1, <5>2, <5>3, <5>4
        <4> QED BY <2>2, <4>1, <4>2, CardDir
      <3> QED BY <2>2, <3>4, <3>5, CardDir
    <2> QED BY <2>1, <2>2 DEF Next
  <1> QED BY <1>1, <1>2 DEF PrefixInv

(* A table gets into the window while its directory is made.               *)
LEMMA TableWindow ==
  ASSUME BaseInv, Command \/ Call \/ DiskFails, NEW k \in Clust, winflag', win' = TableSect(k)
  PROVE  \/ MkdirTable /\ clust = k
         \/ winflag /\ win = TableSect(k) /\ UNCHANGED <<fat, dir>>
  <1>0. TypeOK /\ Coherent /\ CallInv
    BY DEF BaseInv
  <1>1. WindowStep
    BY StepTypes
  <1>2. UNCHANGED <<fat, dir>>
    BY <1>1, FatSectIs, TableSectIs DEF WindowStep, SetFat, SetDir
  <1>3. ASSUME NEW s, s # TableSect(k) PROVE ~Look(s) /\ ~Modify(s)
    BY <1>3 DEF Look, Modify
  <1>4. ~Look(DirSect) /\ ~Modify(DirSect)
    BY <1>3, TableSectIs
  <1>5. \A c \in Clust : win' # FatSect(c) /\ ~Look(FatSect(c)) /\ ~Modify(FatSect(c))
    BY <1>3, FatSectIs
  <1>6. win' # DirSect
    BY TableSectIs
  <1> DEFINE Was == winflag /\ win = TableSect(k)
  <1>7. ASSUME UNCHANGED <<win, winflag>> PROVE Was
    BY <1>7
  <1>8. ASSUME Command PROVE Was
    BY <1>4, <1>5, <1>6, <1>7, <1>8
       DEF Command, LogOpen, CatOpen, Unlink, LogWrite, CatWrite, CatRead, LogStop, CatClose,
           Mkdir, Create, window, FatSects
  <1>9. LastSeen \in Clust
    BY <1>0, LastSeenIs
  <1>10. ~WriteSearch /\ ~MkdirAllocate
    BY <1>5, <1>9 DEF WriteSearch, MkdirAllocate
  <1>11. ASSUME Write PROVE Was
    <2>1. ~WriteAllocate /\ ~WriteFull
      BY <1>10 DEF WriteAllocate, WriteFull
    <2>2. ~WriteLink
      <3>1. ~Modify(FatSect(file[fp].curr)) \/ file[fp].curr \notin Clust
        BY <1>5
      <3>2. WriteLink => file[fp].curr \in Clust
        BY DEF WriteLink, BaseInv, CallInv, FilesInv, Positioned, TypeOK, Busy
      <3> QED BY <3>1, <3>2 DEF WriteLink
    <2>3. WriteKnownCluster => UNCHANGED <<win, winflag>>
      <3>1. AtBoundary /\ file[fp].fptr # 0 => file[fp].curr \in Clust
        BY DEF AtBoundary, BaseInv, CallInv, FilesInv, Positioned, TypeOK, Busy, File
      <3>2. AtBoundary /\ file[fp].fptr # 0 => ~Look(FatSect(file[fp].curr))
        BY <1>5, <3>1
      <3> QED BY <3>2 DEF WriteKnownCluster, window
    <2> QED BY <1>7, <1>11, <2>1, <2>2, <2>3
          DEF Write, WriteBuffer, WriteNextSector, WriteGrown, WriteEnd, window
  <1>12. ASSUME Sync PROVE Was
    BY <1>6, <1>7, <1>12 DEF Sync, SyncNothing, SyncEntry, SyncFlush, window
  <1>13. ASSUME Made PROVE Was \/ (MkdirTable /\ clust = k)
    <2>1. ~MkdirEntry /\ ~MkdirSync
      BY <1>4 DEF MkdirEntry, MkdirSync
    <2>2. MkdirTable => clust = k
      BY <1>0, Constants DEF MkdirTable, TableSect, CallInv
    <2> QED BY <1>10, <1>13, <2>1, <2>2 DEF Made
  <1>14. ASSUME RemoveNext \/ RemoveEnd PROVE Was
    BY <1>4, <1>5, <1>7, <1>14 DEF RemoveNext, RemoveEnd
  <1>15. ASSUME DiskFails PROVE Was
    BY <1>7, <1>15 DEF DiskFails, ChainFails, DataFails, SyncFails, RemoveFails, MkdirFails,
                TableFails, Fails, Missed, TypeOK
  <1> HIDE DEF Was
  <1>16. Was \/ (MkdirTable /\ clust = k)
    BY <1>8, <1>11, <1>12, <1>13, <1>14, <1>15 DEF Call
  <1> QED BY <1>2, <1>16 DEF Was

LEMMA AloneStays ==
  ASSUME BaseInv, ChainInv, AloneInv, Next
  PROVE  AloneInv'
  <1>1. CASE Reset
    BY <1>1 DEF Reset, AloneInv
  <1>2. CASE Command \/ Call \/ DiskFails
    <2> SUFFICES ASSUME NEW k \in Clust, winflag', win' = TableSect(k)
                 PROVE  /\ Root(fat', k)
                        /\ \A s \in Slots : dir'[s].org # k
                        /\ \A f \in OpenFiles' : file'[f].org # k
      BY DEF AloneInv
    <2>1. CASE MkdirTable /\ clust = k
      <3>1. UNCHANGED <<fat, dir, file>> /\ Held
        BY <2>1 DEF MkdirTable, Held
      <3> QED BY <2>1, <3>1 DEF ChainInv, OwnInv, OpenFiles
    <2>2. CASE winflag /\ win = TableSect(k) /\ UNCHANGED <<fat, dir>>
      <3>1. /\ Root(fat, k)
            /\ \A s \in Slots : dir[s].org # k
            /\ \A f \in OpenFiles : file[f].org # k
        BY <2>2 DEF AloneInv
      <3>2. fat[k] # 0 /\ k \notin {0, 1}
        BY <3>1, Constants DEF Root
      <3>3. ASSUME NEW f \in OpenFiles' PROVE file'[f].org # k
        BY <1>2, <3>1, <3>2, OrgChanges
      <3> QED BY <2>2, <3>1, <3>3
    <2> QED BY <1>2, <2>1, <2>2, TableWindow
  <1> QED BY <1>1, <1>2 DEF Next
-----------------------------------------------------------------------------
(* Where the open files come from *)

(* A file that neither moves nor gets data: its buffer may have gone out.  *)
Quiet(r, q) ==
  /\ q.org = r.org /\ q.fptr = r.fptr /\ q.buf = r.buf /\ q.fsize >= r.fsize
  /\ Taken(q) = Taken(r) /\ (q.dirty => r.dirty /\ q.sect = r.sect)

Fresh(q) == q.fptr = 0 /\ q.fsize = 0 /\ ~q.dirty

FileFrom(f) ==
  LET r == file[f]
      q == file'[f] IN
  \/ /\ f \in OpenFiles /\ Quiet(r, q)
     /\ r.dirty /\ ~q.dirty => f = fp /\ (SyncEntry \/ DataFails \/ SyncFails)
  \/ f \in OpenFiles /\ f = fp /\ (WriteBuffer \/ WriteNextSector \/ WriteGrown)
  \/ Fresh(q) /\ (q.org \in {0, 1} \/ (UNCHANGED dir /\ fat[q.org] = 0))
  \/ /\ UNCHANGED <<dir, fat>> /\ q.fptr = 0 /\ ~q.dirty
     /\ \E t \in Slots : q.org = dir[t].org /\ q.fsize = dir[t].size

LEMMA QuietSame ==
  ASSUME NEW r \in File
  PROVE  Quiet(r, r)
  BY TakenIs DEF Quiet

(* A file without a first cluster is empty. *)
LEMMA NoCluster ==
  ASSUME BaseInv, ChainInv, fp \in OpenFiles, file[fp].org = 0, file[fp].fptr = 0
  PROVE  Fresh(file[fp])
  <1>1. FilePlaced(fat, file[fp]) /\ file[fp] \in File /\ 0 \notin Clust
    BY Constants DEF ChainInv, PlaceInv, BaseInv, TypeOK, OpenFiles
  <1>2. Reaches(fat, file[fp].org, file[fp].fsize) /\ ~file[fp].dirty /\ file[fp].fsize \in Nat
    BY <1>1, TakenIs DEF FilePlaced
  <1> QED BY <1>1, <1>2, NoReach DEF Fresh

LEMMA FilesFrom ==
  ASSUME BaseInv, ChainInv, Command \/ Call \/ DiskFails, NEW f \in OpenFiles'
  PROVE  FileFrom(f)
  <1>0. /\ TypeOK /\ Coherent /\ NamesInv /\ CallInv /\ FilesInv /\ fp \in {"log", "wr"}
        /\ file \in [{"log", "wr"} -> File] /\ f \in {"log", "wr"} /\ file'[f].open
        /\ file[f] \in File /\ file[fp] \in File /\ ~Closed.open
    BY DEF BaseInv, TypeOK, OpenFiles, Closed
  <1>1. ASSUME file'[f] = file[f] PROVE FileFrom(f)
    BY <1>0, <1>1, QuietSame DEF FileFrom, OpenFiles
  <1>2. ASSUME UNCHANGED file PROVE FileFrom(f)
    BY <1>1, <1>2
  <1>3. ASSUME NEW g \in {"log", "wr"}, NEW s \in Slots, Opened(g, s, 0, 0) PROVE FileFrom(f)
    <2>1. \A h \in {"log", "wr"} : h # g => file'[h] = file[h]
      BY <1>0, <1>3 DEF Opened
    <2>2. Fresh(file'[g]) /\ file'[g].org = 0
      BY <1>0, <1>3 DEF Opened, Closed, Fresh
    <2> QED BY <1>0, <1>1, <2>1, <2>2 DEF FileFrom
  <1>4. ASSUME NEW g \in {"log", "wr"}, NEW n \in Name, Create(g, n), UNCHANGED fat PROVE FileFrom(f)
    <2>1. FreeSlot \in Slots /\ Opened(g, FreeSlot, 0, 0)
      BY <1>0, <1>4, CreateIs DEF Create
    <2> QED BY <1>3, <2>1
  <1>5. ASSUME NEW n \in Name, LogOpen(n) PROVE FileFrom(f)
    <2>1. CASE Create("log", n) /\ UNCHANGED fat
      BY <1>4, <2>1
    <2>2. ASSUME NEW s \in Slots, file' = [file EXCEPT !["log"].slot = s], ~file["log"].open
          PROVE  FileFrom(f)
      <3>1. f # "log"
        BY <1>0, <2>2 DEF File
      <3> QED BY <1>0, <1>1, <2>2, <3>1
    <2> QED BY <1>5, <2>1, <2>2 DEF LogOpen
  <1>6. ASSUME NEW n \in Name, CatOpen(n) PROVE FileFrom(f)
    <2>1. CASE Create("wr", n) /\ UNCHANGED fat
      BY <1>4, <2>1
    <2>2. ASSUME NEW s \in Slots, Opened("wr", s, dir[s].org, dir[s].size), UNCHANGED <<dir, fat>>
          PROVE  FileFrom(f)
      <3>1. file'["log"] = file["log"]
        BY <1>0, <2>2 DEF Opened
      <3>2. /\ file'["wr"].org = dir[s].org /\ file'["wr"].fsize = dir[s].size
            /\ file'["wr"].fptr = 0 /\ ~file'["wr"].dirty
        BY <1>0, <2>2 DEF Opened, Closed
      <3> QED BY <1>0, <1>1, <2>2, <3>1, <3>2 DEF FileFrom
    <2> QED BY <1>6, <2>1, <2>2 DEF CatOpen
  <1>7. ASSUME RemoveEnd PROVE FileFrom(f)
    <2>1. CASE after = "open"
      <3>1. Opened("log", file["log"].slot, 0, 0) /\ file["log"].slot \in Slots
        BY <1>7, <2>1 DEF RemoveEnd, BaseInv, EntryInv
      <3> QED BY <1>3, <3>1
    <2> QED BY <1>2, <1>7, <2>1 DEF RemoveEnd
  <1>8. ASSUME WriteAllocate PROVE FileFrom(f)
    <2>1. CASE Chained
      BY <1>2, <1>8, <2>1 DEF WriteAllocate
    <2>2. CASE ~Chained
      <3>1. /\ file' = [file EXCEPT ![fp].org = FirstFree] /\ Free # {} /\ UNCHANGED dir
            /\ file[fp].fptr = 0 /\ file[fp].org = 0 /\ fp \in OpenFiles
        BY <1>0, <1>8, <2>2
           DEF WriteAllocate, WriteSearch, AtBoundary, Chained, CallInv, Busy, OpenFiles
      <3>2. Fresh(file[fp])
        BY <3>1, NoCluster
      <3>3. fat[FirstFree] = 0
        BY <1>0, <3>1, FirstFreeIs
      <3>4. \A g \in {"log", "wr"} : g # fp => file'[g] = file[g]
        BY <1>0, <3>1
      <3>5. Fresh(file'[fp]) /\ file'[fp].org = FirstFree
        BY <1>0, <3>1, <3>2 DEF Fresh, File
      <3> QED BY <1>0, <1>1, <3>1, <3>3, <3>4, <3>5 DEF FileFrom
    <2> QED BY <2>1, <2>2
  <1>9. ASSUME Quiet(file[fp], file'[fp]), fp \in OpenFiles,
               file[fp].dirty /\ ~file'[fp].dirty => SyncEntry \/ DataFails \/ SyncFails,
               \A g \in {"log", "wr"} : g # fp => file'[g] = file[g]
        PROVE  FileFrom(f)
    BY <1>0, <1>1, <1>9 DEF FileFrom
  <1>10. ASSUME WriteFull PROVE FileFrom(f)
    <2>1. file' = [file EXCEPT ![fp].sc = 0] /\ fp \in OpenFiles
      BY <1>0, <1>10 DEF WriteFull, WriteSearch, AtBoundary, CallInv, Busy, OpenFiles
    <2>2. /\ \A g \in {"log", "wr"} : g # fp => file'[g] = file[g]
          /\ file'[fp] = [file[fp] EXCEPT !.sc = 0]
      BY <1>0, <2>1
    <2> DEFINE q == [file[fp] EXCEPT !.sc = 0]
    <2>3. Quiet(file[fp], q) /\ q.dirty = file[fp].dirty
      BY <1>0, TakenIs DEF Quiet, Taken, File
    <2> QED BY <1>9, <2>1, <2>2, <2>3
  <1>11. ASSUME WriteEnd PROVE FileFrom(f)
    <2>1. /\ file' = [file EXCEPT ![fp].fsize = Greater(@, file[fp].fptr), ![fp].written = TRUE]
          /\ fp \in OpenFiles
      BY <1>0, <1>11 DEF WriteEnd, CallInv, Busy, OpenFiles
    <2> DEFINE q == [file[fp] EXCEPT !.fsize = Greater(file[fp].fsize, file[fp].fptr), !.written = TRUE]
    <2>2. /\ \A g \in {"log", "wr"} : g # fp => file'[g] = file[g]
          /\ file'[fp] = q
      BY <1>0, <2>1 DEF File
    <2>3. /\ q.org = file[fp].org /\ q.fptr = file[fp].fptr /\ q.buf = file[fp].buf
          /\ q.fsize = Greater(file[fp].fsize, file[fp].fptr)
          /\ q.dirty = file[fp].dirty /\ q.sect = file[fp].sect
      BY <1>0 DEF File
    <2> HIDE DEF q
    <2>4. Quiet(file[fp], q)
      BY <1>0, <2>3, TakenIs DEF Quiet, Taken, Greater
    <2> QED BY <1>9, <2>1, <2>2, <2>3, <2>4
  <1>12. ASSUME WriteBuffer PROVE FileFrom(f)
    BY <1>0, <1>1, <1>12, BufferWhere DEF FileFrom
  <1>13. ASSUME WriteNextSector \/ WriteGrown PROVE FileFrom(f)
    <2>1. PICK r \in File, s \in Nat, k \in 0 .. MaxClust, j \in 0 .. SectsClust - 1 :
            PutAt(r, s, k, j)
      BY <1>13, PutWhere
    <2>2. Put(r, s) /\ btw > 0 /\ r.sc > 0
      BY <2>1, Constants DEF PutAt
    <2>3. \A g \in {"log", "wr"} : g # fp => file'[g] = file[g]
      BY <1>0, <2>2, PutKeeps
    <2>4. fp \in OpenFiles
      BY <1>13, PutsIs DEF Puts
    <2> QED BY <1>0, <1>1, <1>13, <2>3, <2>4 DEF FileFrom
  <1>14. ASSUME SyncNothing \/ SyncFlush PROVE FileFrom(f)
    <2>1. file' = [file EXCEPT ![fp] = Left(file[fp])]
      BY <1>0, <1>14 DEF SyncNothing, SyncFlush
    <2>2. file'[f] = file[f]
      BY <1>0, <2>1 DEF Left
    <2> QED BY <1>1, <2>2
  <1> DEFINE p == [file[fp] EXCEPT !.dirty = FALSE]
  <1>15. Quiet(file[fp], p)
    <2>1. /\ p.org = file[fp].org /\ p.fptr = file[fp].fptr /\ p.buf = file[fp].buf
          /\ p.fsize = file[fp].fsize /\ ~p.dirty
      BY <1>0 DEF File
    <2> HIDE DEF p
    <2> QED BY <1>0, <2>1, TakenIs DEF Quiet, Taken
  <1>16. ASSUME SyncEntry PROVE FileFrom(f)
    <2>1. /\ file' = [file EXCEPT ![fp].dirty = FALSE, ![fp].written = FALSE] /\ fp \in OpenFiles
      BY <1>0, <1>16 DEF SyncEntry, CallInv, Busy, OpenFiles
    <2> DEFINE q == [file[fp] EXCEPT !.dirty = FALSE, !.written = FALSE]
    <2>2. /\ \A g \in {"log", "wr"} : g # fp => file'[g] = file[g]
          /\ file'[fp] = q
      BY <1>0, <2>1 DEF File
    <2>3. /\ q.org = file[fp].org /\ q.fptr = file[fp].fptr /\ q.buf = file[fp].buf
          /\ q.fsize = file[fp].fsize /\ ~q.dirty
      BY <1>0 DEF File
    <2> HIDE DEF q
    <2>4. Quiet(file[fp], q)
      BY <1>0, <2>3, TakenIs DEF Quiet, Taken
    <2> QED BY <1>9, <1>16, <2>1, <2>2, <2>4
  <1>17. ASSUME SyncFails PROVE FileFrom(f)
    <2>1. /\ \/ file' = [file EXCEPT ![fp] = Left(file[fp])]
             \/ file' = [file EXCEPT ![fp] = Left(p)]
          /\ fp \in OpenFiles
      BY <1>0, <1>17, PutsIs DEF SyncFails, Puts
    <2> HIDE DEF p
    <2>2. \A g \in {"log", "wr"} : g # fp => file'[g] = file[g]
      BY <1>0, <2>1
    <2>3. file'[fp] \in {Closed, file[fp], p}
      BY <1>0, <2>1 DEF Left
    <2> QED BY <1>0, <1>1, <1>9, <1>15, <1>17, <2>1, <2>2, <2>3
  <1>18. ASSUME ChainFails \/ DataFails PROVE FileFrom(f)
    <2>1. PICK org \in {1} \cup Org, dirty \in BOOLEAN, sect \in Nat :
           /\ WriteError([file[fp] EXCEPT !.org = org, !.dirty = dirty, !.sect = sect])
           /\ pc \in {"write", "link", "grown"}
           /\ org = file[fp].org \/ (org = 1 /\ file[fp].fptr = 0 /\ file[fp].org = 0)
           /\ dirty => file[fp].dirty /\ sect = file[fp].sect
      BY <1>0, <1>18, ErrorIs
    <2> DEFINE r == [file[fp] EXCEPT !.org = org, !.dirty = dirty, !.sect = sect]
               q == [r EXCEPT !.err = TRUE]
    <2>2. /\ q.org = org /\ q.fptr = file[fp].fptr /\ q.buf = file[fp].buf
          /\ q.fsize = file[fp].fsize /\ q.dirty = dirty /\ q.sect = sect
      BY <1>0 DEF File
    <2> HIDE DEF q
    <2>3. \/ fp = "log" /\ file' = [file EXCEPT !["log"] = q]
          \/ fp = "wr" /\ file' = [file EXCEPT !["wr"] = Closed]
      BY <1>0, <2>1 DEF WriteError, r, q
    <2>4. /\ \A g \in {"log", "wr"} : g # fp => file'[g] = file[g]
          /\ file'[fp] \in {Closed, q}
      BY <1>0, <2>3
    <2>5. fp \in OpenFiles
      BY <1>0, <2>1 DEF CallInv, Busy, OpenFiles
    <2>6. CASE org = file[fp].org
      <3>1. Quiet(file[fp], q)
        BY <1>0, <2>1, <2>2, <2>6, TakenIs DEF Quiet, Taken
      <3>2. CASE DataFails
        BY <1>0, <1>1, <1>9, <2>4, <2>5, <3>1, <3>2
      <3>3. CASE ChainFails
        <4> DEFINE o == IF Chained THEN file[fp].org ELSE 1
                   m == [[file[fp] EXCEPT !.org = o] EXCEPT !.err = TRUE]
        <4>1. WriteError([file[fp] EXCEPT !.org = o])
          BY <1>0, <3>3 DEF ChainFails
        <4>2. \/ fp = "log" /\ file' = [file EXCEPT !["log"] = m]
              \/ fp = "wr" /\ file' = [file EXCEPT !["wr"] = Closed]
          BY <1>0, <4>1 DEF WriteError
        <4>3. m.dirty = file[fp].dirty
          BY <1>0 DEF File
        <4> HIDE DEF m
        <4>4. file'[fp] = Closed \/ file'[fp].dirty = file[fp].dirty
          BY <1>0, <4>2, <4>3
        <4> QED BY <1>0, <1>1, <1>9, <2>4, <2>5, <3>1, <4>4
      <3> QED BY <1>18, <3>2, <3>3
    <2>7. CASE org = 1 /\ file[fp].fptr = 0 /\ file[fp].org = 0
      <3>1. Fresh(file[fp])
        BY <2>5, <2>7, NoCluster
      <3>2. Fresh(q) /\ q.org = 1
        BY <2>1, <2>2, <2>7, <3>1 DEF Fresh
      <3> QED BY <1>0, <1>1, <2>4, <3>2 DEF FileFrom
    <2> QED BY <2>1, <2>6, <2>7
  <1>19. ASSUME RemoveFails \/ MkdirFails \/ TableFails PROVE FileFrom(f)
    <2>1. \A g \in {"log", "wr"} : file'[g].open => file'[g] = file[g]
      BY <1>0, <1>19 DEF RemoveFails, MkdirFails, TableFails
    <2> QED BY <1>0, <1>1, <2>1
  <1>20. ASSUME \/ (\E n \in Name : Unlink(n)) \/ (\E k : LogWrite(k) \/ CatWrite(k) \/ CatRead(k))
                \/ LogStop \/ CatClose \/ Mkdir \/ WriteKnownCluster \/ WriteLink \/ Made
                \/ RemoveNext
         PROVE  FileFrom(f)
    <2>1. UNCHANGED file
      BY <1>20 DEF Unlink, LogWrite, CatWrite, CatRead, LogStop, CatClose, Mkdir, WriteKnownCluster,
                   WriteLink, Made, MkdirAllocate, MkdirTable, MkdirEntry, MkdirSync, RemoveNext
    <2> QED BY <1>2, <2>1
  <1> QED BY <1>5, <1>6, <1>7, <1>8, <1>10, <1>11, <1>12, <1>13, <1>14, <1>16, <1>17, <1>18,
             <1>19, <1>20 DEF Command, Call, Write, Sync, DiskFails
-----------------------------------------------------------------------------
(* The sizes *)

LEMMA SoundSize ==
  ASSUME NEW F, NEW D \in [Slots -> Entry], Sound(F, D), NEW s \in Slots, D[s].org \notin Clust
  PROVE  D[s].size = 0
  <1>1. D[s].size \in Nat /\ Reaches(F, D[s].org, D[s].size)
    BY DEF Sound, Entry
  <1> QED BY <1>1, NoReach

(* What a step does to the file of a chain that was in use: nothing, or    *)
(* the file gets larger, or is the one the directory knows.                *)
LEMMA SizeFrom ==
  ASSUME BaseInv, ChainInv, Command \/ Call \/ DiskFails, TypeOK', NEW f \in OpenFiles',
         file'[f].org \in Clust, fat[file'[f].org] # 0
  PROVE  \/ /\ f \in OpenFiles /\ file'[f].org = file[f].org
            /\ file'[f].fsize >= file[f].fsize
         \/ /\ UNCHANGED <<dir, fat>>
            /\ \E t \in Slots : file'[f].org = dir[t].org /\ file'[f].fsize = dir[t].size
  <1>0. FileFrom(f) /\ TypeOK /\ 0 \notin Clust /\ 1 \notin Clust
    BY FilesFrom, Constants DEF BaseInv
  <1>1. CASE f \in OpenFiles /\ f = fp /\ (WriteBuffer \/ WriteNextSector \/ WriteGrown)
    <2>1. file[fp] \in File
      BY <1>0, <1>1 DEF TypeOK, OpenFiles
    <2>2. CASE WriteBuffer
      <3>1. PICK k \in 0 .. MaxClust, j \in 0 .. SectsClust - 1, u \in 1 .. SectSize, m \in Nat :
              BufferAt(k, j, u, m)
        BY <2>2, BufferWhere
      <3>2. file'[fp].org = file[fp].org /\ file'[fp].fsize = file[fp].fsize
        BY <3>1 DEF BufferAt
      <3> QED BY <1>1, <2>1, <3>2, TakenIs
    <2>3. CASE WriteNextSector \/ WriteGrown
      <3>1. PICK r \in File, s \in Nat, k \in 0 .. MaxClust, j \in 0 .. SectsClust - 1 :
              PutAt(r, s, k, j)
        BY <2>3, PutWhere
      <3>2. /\ Put(r, s) /\ btw > 0 /\ r.sc > 0 /\ r.org = file[fp].org /\ r.fsize = file[fp].fsize
        BY <3>1, Constants DEF PutAt
      <3>3. file'[fp].org = r.org /\ file'[fp].fsize = r.fsize
        BY <1>0, <3>2, PutKeeps
      <3> QED BY <1>1, <2>1, <3>2, <3>3, TakenIs
    <2> QED BY <1>1, <2>2, <2>3
  <1> QED BY <1>0, <1>1 DEF FileFrom, Quiet

LEMMA SizesStay ==
  ASSUME BaseInv, ChainInv, PrefixInv, SizeInv, TypeOK', ChainInv', Next
  PROVE  SizeInv'
  <1>0. /\ TypeOK /\ Coherent /\ Sound(fat, dir) /\ Sound(card.fat, card.dir) /\ OwnInv
        /\ Sound(fat', dir') /\ Sound(card'.fat, card'.dir) /\ 0 \notin Clust /\ 1 \notin Clust
        /\ dir \in [Slots -> Entry] /\ card.dir \in [Slots -> Entry]
        /\ dir' \in [Slots -> Entry] /\ card'.dir \in [Slots -> Entry]
        /\ file' \in [{"log", "wr"} -> File] /\ file \in [{"log", "wr"} -> File]
    BY Constants DEF BaseInv, ChainInv, SoundInv, TypeOK, Card
  <1>1. \A s \in Slots : /\ dir[s].size \in Nat /\ card.dir[s].size \in Nat
                         /\ dir'[s].size \in Nat /\ card'.dir[s].size \in Nat
                         /\ dir'[s].org \notin Clust => dir'[s].size = 0
                         /\ card'.dir[s].org \notin Clust => card'.dir[s].size = 0
    BY <1>0, SoundSize DEF Entry
  <1>2. \A f \in {"log", "wr"} : file[f].fsize \in Nat /\ file'[f].fsize \in Nat
    BY <1>0 DEF File
  <1>3. CASE Reset
    <2>1. dir' = card.dir /\ card'.dir = card.dir /\ OpenFiles' = {}
      BY <1>3, ResetTypes DEF Reset, OpenFiles, Closed
    <2>2. \A s, t \in Slots : card.dir[s].org = card.dir[t].org => s = t \/ card.dir[t].org \notin Clust
      BY <1>0 DEF Sound
    <2> QED BY <1>1, <2>1, <2>2 DEF SizeInv
  <1>4. CASE Command \/ Call \/ DiskFails
    <2>1. \A s \in Slots : /\ dir[s].org \in Clust => fat[dir[s].org] # 0
                           /\ card.dir[s].org \in Clust => fat[card.dir[s].org] # 0
      BY <1>0 DEF Sound, Root, PrefixInv
    <2>2. \A s, t \in Slots : dir[s].org = dir[t].org => s = t \/ dir[t].org \notin Clust
      BY <1>0 DEF Sound
    <2>3. /\ \A f \in OpenFiles, s \in Slots :
               /\ dir[s].org = file[f].org => dir[s].size <= file[f].fsize
               /\ card.dir[s].org = file[f].org => card.dir[s].size <= file[f].fsize
          /\ \A s, t \in Slots : card.dir[t].org = dir[s].org => card.dir[t].size <= dir[s].size
      BY DEF SizeInv
    <2>4. \A f, g \in OpenFiles : file[f].org = file[g].org => f = g \/ file[f].org \notin Clust
      BY <1>0 DEF OwnInv
    (* The claims of before that are still made. *)
    <2>5. ASSUME NEW f \in OpenFiles', NEW s \in Slots, dir[s].org = file'[f].org
          PROVE  dir[s].size <= file'[f].fsize
      <3>0. f \in {"log", "wr"}
        BY DEF OpenFiles
      <3>1. CASE file'[f].org \notin Clust
        <4>1. dir[s].size = 0
          BY <1>0, <2>5, <3>1, SoundSize
        <4> QED BY <1>2, <3>0, <4>1
      <3>2. CASE file'[f].org \in Clust
        <4>1. fat[file'[f].org] # 0
          BY <2>1, <2>5, <3>2
        <4>2. CASE f \in OpenFiles /\ file'[f].org = file[f].org /\ file'[f].fsize >= file[f].fsize
          BY <1>1, <1>2, <2>3, <2>5, <3>0, <4>2
        <4>3. ASSUME NEW t \in Slots, file'[f].org = dir[t].org, file'[f].fsize = dir[t].size
              PROVE  dir[s].size <= file'[f].fsize
          BY <1>1, <2>2, <2>5, <3>2, <4>3
        <4> QED BY <1>4, <3>2, <4>1, <4>2, <4>3, SizeFrom
      <3> QED BY <3>1, <3>2
    <2>6. ASSUME UNCHANGED fat, NEW f \in OpenFiles', NEW s \in Slots, card.dir[s].org = file'[f].org
          PROVE  card.dir[s].size <= file'[f].fsize
      <3>0. f \in {"log", "wr"}
        BY DEF OpenFiles
      <3>1. CASE file'[f].org \notin Clust
        <4>1. card.dir[s].size = 0
          BY <1>0, <2>6, <3>1, SoundSize
        <4> QED BY <1>2, <3>0, <4>1
      <3>2. CASE file'[f].org \in Clust
        <4>1. fat[file'[f].org] # 0
          BY <2>1, <2>6, <3>2
        <4>2. CASE f \in OpenFiles /\ file'[f].org = file[f].org /\ file'[f].fsize >= file[f].fsize
          BY <1>1, <1>2, <2>3, <2>6, <3>0, <4>2
        <4>3. ASSUME NEW t \in Slots, file'[f].org = dir[t].org, file'[f].fsize = dir[t].size
              PROVE  card.dir[s].size <= file'[f].fsize
          BY <1>1, <2>3, <2>6, <4>3
        <4> QED BY <1>4, <3>2, <4>1, <4>2, <4>3, SizeFrom
      <3> QED BY <3>1, <3>2
    <2>7. card'.dir = dir \/ (card'.dir = card.dir /\ UNCHANGED fat)
      BY <1>4, CardDir
    <2>8. ASSUME NEW f \in OpenFiles', NEW s \in Slots, card'.dir[s].org = file'[f].org
          PROVE  card'.dir[s].size <= file'[f].fsize
      BY <2>5, <2>6, <2>7, <2>8
    (* The entry that a step makes. *)
    <2>9. ASSUME NEW s \in Slots, dir'[s].org \in Clust
          PROVE  \/ dir'[s] = dir[s]
                 \/ /\ SyncEntry /\ fp \in OpenFiles
                    /\ dir'[s].org = file[fp].org /\ dir'[s].size = file[fp].fsize
                 \/ MkdirEntry /\ Held /\ dir'[s].org = clust /\ dir'[s].size = 0
      BY <1>0, <1>4, <2>9, DirChanges
    <2>10. ASSUME NEW f \in OpenFiles', NEW s \in Slots, dir'[s].org = file'[f].org
           PROVE  dir'[s].size <= file'[f].fsize
      <3>0. f \in {"log", "wr"}
        BY DEF OpenFiles
      <3>1. CASE dir'[s].size = 0
        BY <1>2, <3>0, <3>1
      <3>2. CASE dir'[s] = dir[s]
        BY <2>5, <2>10, <3>2
      <3>3. CASE /\ SyncEntry /\ fp \in OpenFiles
                 /\ dir'[s].org = file[fp].org /\ dir'[s].size = file[fp].fsize
                 /\ dir'[s].org \in Clust /\ dir'[s] # dir[s]
        <4>1. fat[file'[f].org] # 0
          BY <1>0, <2>10, <3>3 DEF OwnInv, Root
        <4>2. /\ f \in OpenFiles /\ file'[f].org = file[f].org
              /\ file'[f].fsize >= file[f].fsize
          BY <1>4, <2>10, <3>3, <4>1, SizeFrom
        <4>3. f = fp
          BY <2>4, <2>10, <3>3, <4>2
        <4> QED BY <3>3, <4>2, <4>3
      <3> QED BY <1>1, <2>9, <3>1, <3>2, <3>3
    <2>11. ASSUME NEW s \in Slots, NEW t \in Slots, card'.dir[t].org = dir'[s].org
           PROVE  card'.dir[t].size <= dir'[s].size
      <3>1. CASE dir'[s].org \notin Clust
        BY <1>1, <2>11, <3>1
      <3>2. CASE dir'[s].org \in Clust
        <4>1. CASE dir'[s] = dir[s]
          BY <1>1, <2>2, <2>3, <2>7, <2>11, <3>2, <4>1
        <4>2. CASE /\ SyncEntry /\ fp \in OpenFiles
                   /\ dir'[s].org = file[fp].org /\ dir'[s].size = file[fp].fsize
          BY <2>3, <2>7, <2>11, <4>2
        <4>3. CASE MkdirEntry /\ Held /\ dir'[s].org = clust /\ dir'[s].size = 0
          <5>1. win # DirSect
            BY <4>3 DEF MkdirEntry, PrefixInv
          <5>2. card.dir = dir
            BY <1>0, <5>1 DEF Coherent
          <5>3. card'.dir[t].org # clust
            BY <1>0, <2>7, <4>3, <5>2 DEF OwnInv
          <5> QED BY <2>11, <4>3, <5>3
        <4> QED BY <2>9, <3>2, <4>1, <4>2, <4>3
      <3> QED BY <3>1, <3>2
    <2> QED BY <2>8, <2>10, <2>11 DEF SizeInv
  <1> QED BY <1>3, <1>4 DEF Next
-----------------------------------------------------------------------------
(* The data of entries *)

LEMMA SameOnSelf == ASSUME NEW F, NEW h, NEW d PROVE SameOn(F, h, d, d)
  BY DEF SameOn

(* What is in the chain that an entry claims stays there. *)
LEMMA ClaimStays ==
  ASSUME BaseInv, ChainInv, AloneInv, DataInv, Command \/ Call \/ DiskFails,
         NEW h \in Clust, NEW n \in Nat, Root(fat, h), Reaches(fat, h, n), Keeps(fat, fat', h),
         Full(fat, h, n, card.data),
         ~(RemoveNext /\ clust = h), ~(pc = "table" /\ clust = h), ~(winflag /\ win = TableSect(h)),
         fp \in OpenFiles /\ h = file[fp].org => n <= file[fp].fsize
  PROVE  Full(fat', h, n, card'.data)
  <1>1. Full(fat, h, n, card'.data)
    <2>1. CASE Puts /\ h = file[fp].org
      <3>1. fp \in OpenFiles /\ FileKept(fat, file[fp], card.data)
        BY <2>1, PutsIs DEF DataInv
      <3>2. file[fp] \in File
        BY <3>1 DEF BaseInv, TypeOK, OpenFiles
      <3>3. PICK m \in Nat : m = Taken(file[fp]) /\ n <= m
        <4>1. /\ file[fp].fsize <= Taken(file[fp]) /\ Taken(file[fp]) \in Nat
              /\ file[fp].fsize \in Nat /\ n <= file[fp].fsize
          BY <2>1, <3>1, <3>2, TakenIs
        <4>2. n <= Taken(file[fp])
          BY <4>1
        <4> QED BY <4>1, <4>2
      <3>4. card'.data = card.data \/ Full(fat, h, m, card'.data)
        BY <2>1, <3>1, <3>3, OwnFull
      <3> QED BY <3>3, <3>4, FullLess
    <2>2. CASE ~(Puts /\ h = file[fp].org)
      <3>1. SameOn(fat, h, card.data, card'.data)
        BY <2>2, DataKeeps
      <3> QED BY <3>1, SameFull
    <2> QED BY <2>1, <2>2
  <1> QED BY <1>1, FullStays, SameOnSelf

LEMMA DirClaim ==
  ASSUME BaseInv, ChainInv, AloneInv, SizeInv, DataInv, Command \/ Call \/ DiskFails,
         NEW s \in Slots
  PROVE  Full(fat', dir[s].org, dir[s].size, card'.data)
  <1>0. /\ TypeOK /\ CallInv /\ Sound(fat, dir) /\ OwnInv /\ FatStep /\ dir[s] \in Entry
        /\ dir \in [Slots -> Entry]
    BY FatSteps DEF BaseInv, ChainInv, SoundInv, TypeOK
  <1>1. CASE dir[s].org \notin Clust
    <2>1. dir[s].size = 0
      BY <1>0, <1>1, SoundSize
    <2> QED BY <2>1, FullNothing
  <1>2. CASE dir[s].org \in Clust
    <2>1. PICK h \in Clust, n \in Nat : h = dir[s].org /\ n = dir[s].size
      BY <1>0, <1>2 DEF Entry
    <2>2. Root(fat, h) /\ Reaches(fat, h, n) /\ ~(Held /\ h = clust)
      BY <1>0, <2>1 DEF Sound, OwnInv
    <2>3. Keeps(fat, fat', h)
      BY <1>0, <2>2 DEF FatStep
    <2>4. Full(fat, h, n, card.data)
      BY <2>1 DEF DataInv
    <2>5. ~(RemoveNext /\ clust = h) /\ ~(pc = "table" /\ clust = h)
      BY <2>2 DEF RemoveNext, Held
    <2>6. ~(winflag /\ win = TableSect(h))
      BY <2>1 DEF AloneInv
    <2>7. fp \in OpenFiles /\ h = file[fp].org => n <= file[fp].fsize
      BY <2>1 DEF SizeInv
    <2>8. Full(fat', h, n, card'.data)
      BY <2>2, <2>3, <2>4, <2>5, <2>6, <2>7, ClaimStays
    <2> QED BY <2>1, <2>8
  <1> QED BY <1>1, <1>2

LEMMA CardClaim ==
  ASSUME BaseInv, ChainInv, PrefixInv, AloneInv, SizeInv, DataInv, Command \/ Call \/ DiskFails,
         UNCHANGED fat, NEW s \in Slots
  PROVE  Full(fat', card.dir[s].org, card.dir[s].size, card'.data)
  <1>0. /\ TypeOK /\ Coherent /\ CallInv /\ Sound(card.fat, card.dir) /\ OwnInv
        /\ card.dir[s] \in Entry /\ card.dir \in [Slots -> Entry]
    BY DEF BaseInv, ChainInv, SoundInv, TypeOK, Card
  <1>1. CASE card.dir[s].org \notin Clust
    <2>1. card.dir[s].size = 0
      BY <1>0, <1>1, SoundSize
    <2> QED BY <2>1, FullNothing
  <1>2. CASE card.dir[s].org \in Clust
    <2>1. PICK h \in Clust, n \in Nat : h = card.dir[s].org /\ n = card.dir[s].size
      BY <1>0, <1>2 DEF Entry
    <2>2. Root(fat, h) /\ Keeps(card.fat, fat, h) /\ Reaches(card.fat, h, n)
      BY <1>0, <2>1 DEF Sound, PrefixInv
    <2>3. Reaches(fat, h, n)
      BY <2>2, ReachesStays
    <2>4. Keeps(fat, fat', h)
      BY DEF Keeps
    <2>5. Full(fat, h, n, card.data)
      BY <2>1 DEF DataInv
    <2>6. ~(RemoveNext /\ clust = h)
      <3> SUFFICES ASSUME RemoveNext, clust = h PROVE FALSE
        OBVIOUS
      <3>1. fat' = [fat EXCEPT ![h] = 0] /\ fat[h] # 0
        BY <2>2 DEF RemoveNext, Root
      <3>2. fat'[h] = 0
        BY <1>0, <3>1 DEF TypeOK
      <3> QED BY <3>1, <3>2
    <2>7. win # DirSect => card.dir = dir
      BY <1>0 DEF Coherent
    <2>8. ~(pc = "table" /\ clust = h)
      <3> SUFFICES ASSUME pc = "table", clust = h PROVE FALSE
        OBVIOUS
      <3>1. card.dir = dir /\ Held
        BY <2>7 DEF PrefixInv, Held
      <3> QED BY <1>0, <2>1, <3>1 DEF OwnInv
    <2>9. ~(winflag /\ win = TableSect(h))
      <3> SUFFICES ASSUME winflag, win = TableSect(h) PROVE FALSE
        OBVIOUS
      <3>1. card.dir = dir
        BY <2>7, TableSectIs
      <3> QED BY <2>1, <3>1 DEF AloneInv
    <2>10. fp \in OpenFiles /\ h = file[fp].org => n <= file[fp].fsize
      BY <2>1 DEF SizeInv
    <2>11. Full(fat', h, n, card'.data)
      BY <2>2, <2>3, <2>4, <2>5, <2>6, <2>8, <2>9, <2>10, ClaimStays
    <2> QED BY <2>1, <2>11
  <1> QED BY <1>1, <1>2
-----------------------------------------------------------------------------
(* The data of files *)

(* Once a buffer is out, or as long as it stays what it is. *)
LEMMA OutBuffered ==
  ASSUME NEW F, NEW r, NEW q, NEW n, NEW d \in [DataSects -> Int], NEW e \in [DataSects -> Int],
         q.buf = r.buf, q.dirty => r.dirty /\ q.sect = r.sect, NEW h, Reaches(F, h, n), n \in Nat,
         Full(F, h, n, Buffered(r, d)), Full(F, h, n, e)
  PROVE  Full(F, h, n, Buffered(q, e))
  <1> SUFFICES ASSUME NEW k \in 0 .. MaxClust, NEW j \in 0 .. SectsClust - 1,
                      NEW u \in 1 .. SectSize, Unit(k, j, u) <= n
               PROVE  Buffered(q, e)[clust2sect(Walk(F, h)[k]) + j] >= u
    BY DEF Full
  <1>1. Walk(F, h)[k] \in Clust
    BY InReach
  <1>2. PICK x \in DataSects : x = clust2sect(Walk(F, h)[k]) + j
    BY <1>1, SectorIn
  <1>3. Buffered(r, d)[x] >= u /\ e[x] >= u
    BY <1>2 DEF Full
  <1>4. Buffered(q, e)[x] >= u
    BY <1>3 DEF Buffered
  <1> QED BY <1>2, <1>4

LEMMA SameBuffered ==
  ASSUME NEW F, NEW r, NEW q, NEW n, NEW d \in [DataSects -> Int], NEW e \in [DataSects -> Int],
         q.buf = r.buf, q.dirty <=> r.dirty, q.dirty => q.sect = r.sect, NEW h,
         Reaches(F, h, n), n \in Nat, Full(F, h, n, Buffered(r, d)), SameOn(F, h, d, e)
  PROVE  Full(F, h, n, Buffered(q, e))
  <1> SUFFICES ASSUME NEW k \in 0 .. MaxClust, NEW j \in 0 .. SectsClust - 1,
                      NEW u \in 1 .. SectSize, Unit(k, j, u) <= n
               PROVE  Buffered(q, e)[clust2sect(Walk(F, h)[k]) + j] >= u
    BY DEF Full
  <1>1. Walk(F, h)[k] \in Clust
    BY InReach
  <1>2. PICK x \in DataSects : x = clust2sect(Walk(F, h)[k]) + j
    BY <1>1, SectorIn
  <1>3. Buffered(r, d)[x] >= u /\ e[x] = d[x]
    BY <1>1, <1>2 DEF Full, SameOn
  <1>4. Buffered(q, e)[x] >= u
    BY <1>3 DEF Buffered
  <1> QED BY <1>2, <1>4

(* A buffer that is clean without the file being gone is on the card. *)
LEMMA DirtyOut ==
  ASSUME BaseInv, ChainInv, AloneInv, SyncEntry \/ DataFails \/ SyncFails, fp \in OpenFiles',
         FileKept(fat, file[fp], card.data), file[fp].dirty, ~file'[fp].dirty
  PROVE  Full(fat, file[fp].org, Taken(file[fp]), card'.data)
  <1>0. /\ fp \in OpenFiles /\ file \in [{"log", "wr"} -> File] /\ fp \in {"log", "wr"}
        /\ file[fp] \in File /\ ~Closed.open /\ file'[fp].open
    BY PutsIs DEF Puts, BaseInv, TypeOK, Closed, OpenFiles
  <1> DEFINE c == [card EXCEPT !.data = BufferOut(file[fp])]
             Kept == Full(fat, file[fp].org, Taken(file[fp]), card'.data)
  <1>1. /\ Full(fat, file[fp].org, Taken(file[fp]), c.data)
        /\ Full(fat, file[fp].org, Taken(file[fp]), FlushedTo(c).data)
    BY <1>0, OutFull
  <1>2. CASE SyncEntry
    BY <1>2, OwnFull DEF Puts
  <1>3. ASSUME WriteError(file[fp]) PROVE FALSE
    <2> DEFINE q == [file[fp] EXCEPT !.err = TRUE]
    <2>1. q.dirty = file[fp].dirty
      BY <1>0 DEF File
    <2>2. \/ fp = "log" /\ file' = [file EXCEPT !["log"] = q]
          \/ fp = "wr" /\ file' = [file EXCEPT !["wr"] = Closed]
      BY <1>0, <1>3 DEF WriteError
    <2> HIDE DEF q
    <2> QED BY <1>0, <2>1, <2>2
  <1>4. CASE DataFails
    <2>1. card' = c
      BY <1>3, <1>4 DEF DataFails
    <2> HIDE DEF c
    <2> QED BY <1>1, <2>1
  <1>5. ASSUME file' = [file EXCEPT ![fp] = Left(file[fp])] PROVE FALSE
    <2>1. file'[fp] = Left(file[fp])
      BY <1>0, <1>5
    <2> QED BY <1>0, <2>1 DEF Left
  <1>6. CASE SyncFails
    <2>1. card' = c \/ card' = FlushedTo(c)
      <3>1. file' = [file EXCEPT ![fp] = Left(@)] => file' = [file EXCEPT ![fp] = Left(file[fp])]
        BY <1>0
      <3> QED BY <1>5, <1>6, <3>1 DEF SyncFails, Missed
    <2> HIDE DEF c
    <2> QED BY <1>1, <2>1
  <1> QED BY <1>2, <1>4, <1>6

(* A file that is quiet keeps what it has. *)
LEMMA QuietKept ==
  ASSUME BaseInv, ChainInv, AloneInv, DataInv, Command \/ Call \/ DiskFails, TypeOK',
         NEW f \in OpenFiles', f \in OpenFiles, Quiet(file[f], file'[f]),
         file[f].dirty /\ ~file'[f].dirty => f = fp /\ (SyncEntry \/ DataFails \/ SyncFails)
  PROVE  FileKept(fat', file'[f], card'.data)
  <1>0. /\ TypeOK /\ CallInv /\ Links(fat) /\ OwnInv /\ FatStep /\ file[f] \in File
        /\ card.data \in [DataSects -> Int] /\ card'.data \in [DataSects -> Int]
        /\ file'[f] \in File
    BY FatSteps DEF BaseInv, ChainInv, SoundInv, Sound, TypeOK, Card, OpenFiles
  <1>1. PICK r \in File, q \in File : r = file[f] /\ q = file'[f]
    BY <1>0
  <1>2. PICK n \in Nat : n = Taken(r) /\ n = Taken(q)
    BY <1>0, <1>1, TakenIs DEF Quiet
  <1>3. /\ q.org = r.org /\ q.fptr = r.fptr /\ q.buf = r.buf
        /\ q.dirty => r.dirty /\ q.sect = r.sect
    BY <1>1 DEF Quiet
  <1>4. Full(fat, r.org, n, Buffered(r, card.data)) /\ BufKept(r)
    BY <1>1, <1>2 DEF DataInv, FileKept
  <1>5. BufKept(q)
    BY <1>2, <1>3, <1>4 DEF BufKept
  <1>6. Reaches(fat, r.org, n)
    <2>1. FilePlaced(fat, r) /\ (r.fptr > 0 => r.curr \in Clust)
      BY <1>1 DEF ChainInv, PlaceInv, OpenFiles, BaseInv, FilesInv, Positioned
    <2> QED BY <1>2, <2>1, PlacedReaches
  <1>7. Root(fat, r.org) /\ ~(Held /\ r.org = clust)
    BY <1>0, <1>1 DEF OwnInv
  <1>8. Keeps(fat, fat', r.org)
    BY <1>0, <1>7 DEF FatStep
  <1>9. Full(fat, r.org, n, Buffered(q, card'.data))
    <2>1. CASE Full(fat, r.org, n, card'.data)
      BY <1>0, <1>3, <1>4, <1>6, <2>1, OutBuffered
    <2>2. CASE r.dirty /\ ~q.dirty
      <3>1. f = fp /\ (SyncEntry \/ DataFails \/ SyncFails)
        BY <1>1, <2>2
      <3>2. Full(fat, r.org, n, card'.data)
        BY <1>1, <1>2, <2>2, <3>1, DirtyOut DEF DataInv
      <3> QED BY <2>1, <3>2
    <2>3. CASE SameOn(fat, r.org, card.data, card'.data) /\ ~(r.dirty /\ ~q.dirty)
      <3>1. q.dirty <=> r.dirty
        BY <1>3, <2>3
      <3> QED BY <1>0, <1>3, <1>4, <1>6, <2>3, <3>1, SameBuffered
    <2>4. CASE Puts /\ f = fp
      <3>1. card'.data = card.data \/ Full(fat, r.org, n, card'.data)
        BY <1>1, <1>2, <2>4, OwnFull DEF DataInv
      <3> QED BY <2>1, <2>2, <2>3, <3>1, SameOnSelf
    <2>5. CASE r.org \notin Clust
      <3>1. n = 0
        BY <1>6, <2>5, NoReach
      <3> QED BY <3>1, FullNothing
    <2>6. CASE r.org \in Clust /\ ~(Puts /\ f = fp)
      <3>1. Puts => r.org # file[fp].org
        <4>1. Puts => fp \in OpenFiles
          BY PutsIs
        <4> QED BY <1>0, <1>1, <2>6, <4>1, Constants DEF OwnInv
      <3>2. ~(RemoveNext /\ clust = r.org) /\ ~(pc = "table" /\ clust = r.org)
        BY <1>7, <2>6 DEF RemoveNext, Held
      <3>3. ~(winflag /\ win = TableSect(r.org))
        BY <1>1, <2>6 DEF AloneInv
      <3>4. SameOn(fat, r.org, card.data, card'.data)
        BY <1>7, <3>1, <3>2, <3>3, DataKeeps
      <3> QED BY <2>2, <2>3, <3>4
    <2> QED BY <2>4, <2>5, <2>6
  <1>10. Full(fat', r.org, n, Buffered(q, card'.data))
    BY <1>6, <1>8, <1>9, FullStays, SameOnSelf
  <1> QED BY <1>1, <1>2, <1>3, <1>5, <1>10 DEF FileKept

LEMMA FreshKept ==
  ASSUME NEW F, NEW q \in File, Fresh(q), NEW d
  PROVE  FileKept(F, q, d)
  <1>1. Taken(q) = 0 /\ q.fptr = 0
    BY DEF Fresh, Taken, Greater
  <1>2. BufKept(q)
    BY <1>1, Constants DEF BufKept
  <1> QED BY <1>1, <1>2, FullNothing DEF FileKept

(* After a reset all is there that an entry on the card claims. *)
LEMMA ResetClaim ==
  ASSUME BaseInv, ChainInv, PrefixInv, DataInv, Reset, NEW s \in Slots
  PROVE  Full(card.fat, card.dir[s].org, card.dir[s].size, card'.data)
  <1> DEFINE h == card.dir[s].org
             n == card.dir[s].size
             used == UNION {Chain(card.fat, card.dir[t].org) : t \in Slots}
  <1>0. /\ TypeOK /\ n \in Nat /\ card \in Card /\ card.data \in [DataSects -> Int]
        /\ Reaches(card.fat, h, n) /\ Keeps(card.fat, fat, h) /\ Full(fat, h, n, card.data)
    BY DEF BaseInv, TypeOK, Card, Entry, ChainInv, SoundInv, Sound, PrefixInv, DataInv
  <1>1. card' = [card EXCEPT !.data = [x \in DataSects |->
                   IF \E c \in used : x \in ClustSects(c) THEN card.data[x] ELSE 0]]
    BY DEF Reset
  <1>2. Chain(card.fat, h) \subseteq used
    OBVIOUS
  <1> HIDE DEF used, n
  <1>3. \A x \in DataSects : card'.data[x] =
                   IF \E c \in used : x \in ClustSects(c) THEN card.data[x] ELSE 0
    BY <1>0, <1>1 DEF Card
  <1> HIDE DEF h
  <1> SUFFICES ASSUME NEW k \in 0 .. MaxClust, NEW j \in 0 .. SectsClust - 1,
                      NEW u \in 1 .. SectSize, Unit(k, j, u) <= n
               PROVE  card'.data[clust2sect(Walk(card.fat, h)[k]) + j] >= u
    BY DEF Full, h, n
  <1>4. Walk(card.fat, h)[k] \in Clust
    BY <1>0, InReach
  <1>5. PICK c \in Clust : c = Walk(card.fat, h)[k] /\ c = Walk(fat, h)[k]
    BY <1>0, <1>4 DEF Keeps
  <1>6. c \in used
    BY <1>2, <1>5 DEF Chain
  <1>7. clust2sect(c) + j \in ClustSects(c) /\ clust2sect(c) + j \in DataSects
    BY SectorIn
  <1>8. card'.data[clust2sect(c) + j] = card.data[clust2sect(c) + j]
    BY <1>3, <1>6, <1>7
  <1>9. card.data[clust2sect(c) + j] >= u
    BY <1>0, <1>5 DEF Full
  <1> QED BY <1>5, <1>8, <1>9

LEMMA DataStays ==
  ASSUME BaseInv, ChainInv, PrefixInv, AloneInv, SizeInv, DataInv, TypeOK', ChainInv', Next
  PROVE  DataInv'
  <1>0. /\ TypeOK /\ fp \in {"log", "wr"} /\ file' \in [{"log", "wr"} -> File]
        /\ file \in [{"log", "wr"} -> File]
    BY DEF BaseInv, TypeOK
  <1>1. CASE Reset
    <2>1. fat' = card.fat /\ dir' = card.dir /\ card'.dir = card.dir /\ OpenFiles' = {}
      BY <1>1, ResetTypes DEF Reset, OpenFiles, Closed
    <2>2. \A s \in Slots : Full(card.fat, card.dir[s].org, card.dir[s].size, card'.data)
      BY <1>1, ResetClaim
    <2> QED BY <2>1, <2>2 DEF DataInv
  <1>2. CASE Command \/ Call \/ DiskFails
    <2>1. \A s \in Slots : Full(fat', dir[s].org, dir[s].size, card'.data)
      BY <1>2, DirClaim
    <2>2. ASSUME NEW s \in Slots
          PROVE  Full(fat', card'.dir[s].org, card'.dir[s].size, card'.data)
      <3>1. CASE card'.dir = dir
        BY <2>1, <3>1
      <3>2. CASE card'.dir = card.dir /\ UNCHANGED fat
        <4>1. Full(fat', card.dir[s].org, card.dir[s].size, card'.data)
          BY <1>2, <3>2, CardClaim
        <4> QED BY <3>2, <4>1
      <3> QED BY <1>2, <3>1, <3>2, CardDir
    <2>3. ASSUME NEW s \in Slots PROVE Full(fat', dir'[s].org, dir'[s].size, card'.data)
      <3>1. CASE dir'[s] = dir[s]
        BY <2>1, <3>1
      <3>2. CASE dir'[s].size = 0
        BY <3>2, FullNothing
      <3>3. CASE /\ SyncEntry /\ fp \in OpenFiles /\ UNCHANGED fat
                 /\ dir'[s].org = file[fp].org /\ dir'[s].size = file[fp].fsize
        <4>1. file[fp] \in File
          BY <1>0
        <4>2. PICK m \in Nat, n \in Nat : m = Taken(file[fp]) /\ n = file[fp].fsize /\ n <= m
          BY <4>1, TakenIs
        <4>3. Full(fat, file[fp].org, m, card'.data)
          BY <3>3, <4>2, OwnFull DEF Puts, DataInv
        <4>4. Full(fat, file[fp].org, n, card'.data)
          BY <4>2, <4>3, FullLess
        <4> QED BY <3>3, <4>2, <4>4
      <3> QED BY <1>2, <3>1, <3>2, <3>3, DirChanges
    <2>4. ASSUME NEW f \in OpenFiles' PROVE FileKept(fat', file'[f], card'.data)
      <3>0. /\ f \in {"log", "wr"} /\ file'[f] \in File /\ FileFrom(f)
        BY <1>0, <1>2, FilesFrom DEF OpenFiles
      <3>1. CASE /\ f \in OpenFiles /\ Quiet(file[f], file'[f])
                 /\ file[f].dirty /\ ~file'[f].dirty => f = fp /\ (SyncEntry \/ DataFails \/ SyncFails)
        BY <1>2, <3>1, QuietKept
      <3>2. CASE f \in OpenFiles /\ f = fp /\ WriteBuffer
        <4>1. UNCHANGED fat
          BY <3>2 DEF WriteBuffer
        <4>2. FilePlaced(fat, file'[fp])
          BY <3>2, <4>1 DEF ChainInv, PlaceInv
        <4>3. FileKept(fat, file[fp], card.data)
          BY <3>2 DEF DataInv
        <4>4. FileKept(fat, file'[fp], card'.data)
          BY <3>0, <3>2, <4>2, <4>3, BufferStep
        <4> QED BY <3>2, <4>1, <4>4
      <3>3. CASE f \in OpenFiles /\ f = fp /\ (WriteNextSector \/ WriteGrown)
        <4>1. UNCHANGED fat
          BY <3>3 DEF WriteNextSector, WriteGrown
        <4>2. FileKept(fat, file[fp], card.data)
          BY <3>3 DEF DataInv
        <4>3. FileKept(fat, file'[fp], card'.data)
          BY <3>3, <4>2, PutKept
        <4> QED BY <3>3, <4>1, <4>3
      <3>4. CASE Fresh(file'[f])
        BY <3>0, <3>4, FreshKept
      <3>5. ASSUME file'[f].fptr = 0, ~file'[f].dirty,
                   NEW t \in Slots, file'[f].org = dir[t].org, file'[f].fsize = dir[t].size
            PROVE  FileKept(fat', file'[f], card'.data)
        <4>1. PICK q \in File : q = file'[f]
          BY <3>0
        <4>2. Taken(q) = q.fsize /\ q.fptr = 0 /\ Buffered(q, card'.data) = card'.data
          BY <3>5, <4>1, TakenIs DEF Taken, Greater, Buffered
        <4>3. BufKept(q)
          BY <4>2, Constants DEF BufKept
        <4>4. Full(fat', q.org, Taken(q), Buffered(q, card'.data))
          BY <2>1, <3>5, <4>1, <4>2
        <4> QED BY <4>1, <4>3, <4>4 DEF FileKept
      <3> QED BY <3>0, <3>1, <3>2, <3>3, <3>4, <3>5 DEF FileFrom
    <2> QED BY <2>2, <2>3, <2>4 DEF DataInv
  <1> QED BY <1>1, <1>2 DEF Next
-----------------------------------------------------------------------------
(* What the card keeps *)

LEMMA InitIsKept == Init => KeptInv
  <1> SUFFICES ASSUME Init PROVE KeptInv
    OBVIOUS
  <1>1. /\ fat = card.fat /\ dir = card.dir /\ pc = "idle" /\ ~winflag /\ OpenFiles = {}
        /\ \A s \in Slots : dir[s].org = 0 /\ dir[s].size = 0
    BY DEF Init, Empty, Closed, OpenFiles
  <1>2. PrefixInv
    BY <1>1, Constants DEF PrefixInv, Root, Keeps
  <1>3. AloneInv
    BY <1>1 DEF AloneInv
  <1>4. SizeInv
    BY <1>1 DEF SizeInv
  <1>5. DataInv
    BY <1>1, FullNothing DEF DataInv
  <1> QED BY <1>2, <1>3, <1>4, <1>5 DEF KeptInv

LEMMA KeptStays ==
  ASSUME BaseInv, ChainInv, KeptInv, BaseInv', ChainInv', [Next]_vars
  PROVE  KeptInv'
  <1>1. CASE Next
    <2>1. TypeOK'
      BY DEF BaseInv
    <2> QED BY <1>1, <2>1, PrefixStays, AloneStays, SizesStay, DataStays DEF KeptInv
  <1>2. CASE UNCHANGED vars
    <2>1. UNCHANGED <<fat, dir, win, winflag, card, file, pc>>
      BY <1>2 DEF vars, window
    <2>2. PrefixInv'
      BY <2>1 DEF KeptInv, PrefixInv
    <2>3. AloneInv'
      BY <2>1 DEF KeptInv, AloneInv, OpenFiles
    <2>4. SizeInv'
      BY <2>1 DEF KeptInv, SizeInv, OpenFiles
    <2>5. DataInv'
      BY <2>1 DEF KeptInv, DataInv, OpenFiles
    <2> QED BY <2>2, <2>3, <2>4, <2>5 DEF KeptInv
  <1> QED BY <1>1, <1>2

LEMMA KeptIs ==
  ASSUME BaseInv, ChainInv, KeptInv
  PROVE  DataIsKept
  <1> SUFFICES ASSUME NEW s \in Slots, NEW i \in 0 .. card.dir[s].size - 1
               PROVE  /\ SectorAt(card.fat, card.dir[s].org, i) # 0
                      /\ card.data[SectorAt(card.fat, card.dir[s].org, i)] > i % SectSize
    BY DEF DataIsKept
  <1>0. /\ card.dir[s].size \in Nat /\ card.dir[s].org \in Org /\ card.data \in [DataSects -> Int]
        /\ SectSize \in Nat \ {0} /\ SectsClust \in Nat \ {0} /\ ClustSize \in Nat \ {0}
        /\ ClustSize = SectsClust * SectSize
    BY Constants DEF BaseInv, TypeOK, Card, Entry
  <1>1. PICK h \in Org, n \in Nat : h = card.dir[s].org /\ n = card.dir[s].size
    BY <1>0
  <1>2. /\ Reaches(card.fat, h, n) /\ Keeps(card.fat, fat, h) /\ Full(fat, h, n, card.data)
    BY <1>1 DEF KeptInv, PrefixInv, DataInv, ChainInv, SoundInv, Sound
  <1>3. i \in Nat /\ i < n
    BY <1>1
  (* Unit i is unit v + 1 of sector j of cluster k. *)
  <1>4. PICK b \in Nat, v \in 0 .. SectSize - 1 : i = b * SectSize + v /\ v = i % SectSize
    BY <1>0, <1>3, DivMod
  <1>5. PICK k \in Nat, j \in 0 .. SectsClust - 1 : b = k * SectsClust + j
    BY <1>0, DivMod
  <1>6. b * SectSize = k * ClustSize + j * SectSize /\ k * ClustSize \in Nat /\ j * SectSize \in Nat
    <2>1. (k * SectsClust + j) * SectSize = (k * SectsClust) * SectSize + j * SectSize
      BY <1>0
    <2>2. (k * SectsClust) * SectSize = k * (SectsClust * SectSize)
      BY <1>0
    <2>3. k * ClustSize \in Nat /\ j * SectSize \in Nat
      BY <1>0
    <2> QED BY <1>0, <1>5, <2>1, <2>2, <2>3
  <1>7. v + 1 \in 1 .. SectSize /\ Unit(k, j, v + 1) = i + 1
    <2> DEFINE a == k * ClustSize
               c == j * SectSize
    <2>1. i = a + c + v /\ a \in Nat /\ c \in Nat
      BY <1>4, <1>6
    <2> HIDE DEF a, c
    <2>2. a + c + (v + 1) = i + 1 /\ v + 1 \in 1 .. SectSize
      BY <1>0, <2>1
    <2> QED BY <2>2 DEF a, c, Unit
  <1>8. k \in 0 .. MaxClust
    <2> DEFINE m == i + 1
    <2>1. Unit(k, j, v + 1) <= n
      BY <1>3, <1>7
    <2>2. (n - 1) \div ClustSize \in 0 .. MaxClust
      BY <1>2, <1>3 DEF Reaches
    <2>3. PICK l \in 0 .. MaxClust, w \in 0 .. ClustSize - 1 : n - 1 = l * ClustSize + w
      <3>1. PICK a \in Nat : a = n - 1
        BY <1>3
      <3>2. a \div ClustSize \in 0 .. MaxClust
        BY <2>2, <3>1
      <3>3. a % ClustSize \in 0 .. ClustSize - 1 /\ a = (a \div ClustSize) * ClustSize + (a % ClustSize)
        BY <1>0, DivMod
      <3> QED BY <3>1, <3>2, <3>3
    <2>4. ~(k > l)
      <3> SUFFICES ASSUME k > l PROVE FALSE
        OBVIOUS
      <3>1. l \in Nat /\ k * ClustSize >= l * ClustSize + ClustSize /\ l * ClustSize \in Nat
        BY <1>0, Product
      <3> DEFINE a == k * ClustSize
                 c == l * ClustSize
                 e == j * SectSize
      <3>2. a >= c + ClustSize /\ n - 1 = c + w /\ i = a + e + v /\ a \in Nat /\ c \in Nat /\ e \in Nat
        BY <1>4, <1>6, <2>3, <3>1
      <3> HIDE DEF a, c, e
      <3> QED BY <1>0, <1>3, <2>3, <3>2
    <2> QED BY <2>3, <2>4, Constants
  <1>9. Walk(card.fat, h)[k] \in Clust
    <2>1. Unit(k, j, v + 1) <= n
      BY <1>3, <1>7
    <2> QED BY <1>2, <1>7, <1>8, <2>1, InReach
  <1>10. PICK c \in Clust : c = Walk(card.fat, h)[k] /\ c = Walk(fat, h)[k]
    BY <1>2, <1>8, <1>9 DEF Keeps
  <1>11. SectorAt(card.fat, h, i) = clust2sect(c) + j
    <2>1. i = k * ClustSize + j * SectSize + v
      BY <1>4, <1>6
    <2>2. SectorAt(card.fat, h, i) = clust2sect(Walk(card.fat, h)[k]) + j
      BY <1>8, <1>9, <2>1, SectorAtIs
    <2> QED BY <1>10, <2>2
  <1>12. clust2sect(c) + j # 0
    BY SectsApart, <1>0
  <1>13. card.data[clust2sect(c) + j] >= v + 1
    <2>1. Unit(k, j, v + 1) <= n
      BY <1>3, <1>7
    <2> QED BY <1>2, <1>7, <1>8, <1>10, <2>1 DEF Full
  <1>14. clust2sect(c) + j \in DataSects
    BY SectorIn
  <1>15. card.data[clust2sect(c) + j] > i % SectSize
    BY <1>0, <1>4, <1>13, <1>14
  <1> QED BY <1>1, <1>11, <1>12, <1>15

(* DataIsKept, for every card and every order of calls, failures and       *)
(* resets: whatever an entry on the card claims is on the card, in the     *)
(* place where the FAT on the card has it (f_write, f_sync, move_window).  *)
THEOREM DataStaysKept ==
  ASSUME ~TouchesOpenLog, ~GoesOnWhenFull
  PROVE  Spec => []DataIsKept
  <1>1. Init => KeptInv
    BY InitIsKept
  <1>2. BaseInv /\ ChainInv /\ KeptInv /\ BaseInv' /\ ChainInv' /\ [Next]_vars => KeptInv'
    BY KeptStays
  <1>3. BaseInv /\ ChainInv /\ KeptInv => DataIsKept
    BY KeptIs
  <1>4. Spec => []BaseInv
    BY Base
  <1>5. Spec => []ChainInv
    BY Chains
  <1> QED BY <1>1, <1>2, <1>3, <1>4, <1>5, PTL DEF Spec
=============================================================================
