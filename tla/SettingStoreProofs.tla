------------------------- MODULE SettingStoreProofs -------------------------
(***************************************************************************)
(* For any number of preemption levels, any queue length and any settings: *)
(* when nothing is under way the page is worth the RAM, the queue holds    *)
(* the last records in order, and the address survives a power failure as  *)
(* AddressStore promises.                                                  *)
(*                                                                         *)
(* IdleMeansDurable is not inductive: while a save runs, how far the page  *)
(* agrees with the RAM is known only of the level above which nobody has   *)
(* touched the settings.  Progress says it for that level; a level that    *)
(* finishes leaves a page equal to the RAM, which is Progress for whichever*)
(* level it interrupted, and one that only reads a line leaves both alone. *)
(***************************************************************************)
EXTENDS SettingStore, TLAPS

(* Levels that are not about to change the settings or the page. *)
HarmlessPlaces == {"idle", "octet", "setting"}
Harmless(v) == pc[v] \in HarmlessPlaces
Undisturbed(w) == \A v \in Levels : v > w => Harmless(v)
Quiet == \A v \in Levels : Harmless(v)

(* How far level w's save has come. *)
Progress(w) ==
  \A c \in Cells :
    /\ c < next[w] => flash[c] = Image(SetCurrent)[c]
    /\ c >= next[w] => flash[c] \in {Erased, Image(SetCurrent)[c]}

SavesProgress ==
  \A w \in Levels : Undisturbed(w) /\ pc[w] = "program" => Progress(w)

PageWorth == Quiet => Sanitised(DataBase_read(flash)) = Sanitised(SetCurrent)

(* An address that can be used has the mark beside it. *)
AddressesMarked ==
  /\ IPCHECK(SetCurrent.ip) => SetCurrent.used = "A55A"
  /\ IPCHECK(DataBase_read(flash).ip) => flash[1] = "A55A"
  /\ \A w \in Levels : pc[w] = "settle" => SetCurrent.used = "A55A"

(* When every octet entered has been copied since, the settings are worth  *)
(* the address in use; a copy under way is of that address, so far.        *)
AddressCopied ==
  ~unsaved =>
    /\ (\A w \in Levels : pc[w] # "settle") => Worth(SetCurrent.ip) = Worth(DevIPAddressTab)
    /\ \A w \in Levels : pc[w] = "settle" =>
         /\ carried[w] = DevIPAddressTab
         /\ \A i \in Octets : i < next[w] => SetCurrent.ip[i] = DevIPAddressTab[i]

(* The queue has room for the record being stored, and what is copied is   *)
(* made of octets.                                                         *)
Types ==
  /\ TypeOK
  /\ pc[0] \in {"copy", "advance"} => Len(log) < MaxRecords
  /\ \A w \in Levels : pc[w] = "settle" => carried[w] \in [Octets -> Bytes]

IInv == Types /\ SavesProgress /\ PageWorth /\ AddressesMarked /\ AddressCopied

-----------------------------------------------------------------------------
LEMMA QueueSize == MAXNUM \in Nat /\ 1 <= MAXNUM /\ MAXNUM < Unset /\ Unset = 255
<1>1. MAXNUM \in 1 .. 254
  BY StoreAssumption DEF Unset
<1> QED BY <1>1 DEF Unset

LEMMA CellNumbers ==
  /\ Cells = 1 .. 7 + MAXNUM /\ Slots = 0 .. MAXNUM - 1
  /\ 1..5 \subseteq Cells /\ 6 + MAXNUM \in Cells /\ 7 + MAXNUM \in Cells
  /\ \A i \in Slots : 6 + i \in Cells /\ i \in Nat
<1>1. NCells = 7 + MAXNUM /\ NCells \in Nat
  BY QueueSize DEF NCells
<1> QED BY <1>1, QueueSize DEF Cells, Slots

(* What the image of the settings holds, cell by cell. *)
LEMMA ImageCells ==
  ASSUME NEW s
  PROVE  /\ Image(s) = [c \in Cells |-> Image(s)[c]]
         /\ Image(s)[1] = s.used
         /\ Image(s)[2] = Half(s.ip[1], s.ip[2])
         /\ Image(s)[3] = Half(s.ip[3], s.ip[4])
         /\ Image(s)[4] = s.name
         /\ Image(s)[5] = Half(s.total, s.insrt_pos)
         /\ \A i \in Slots : Image(s)[6 + i] = s.queue[i]
         /\ Image(s)[6 + MAXNUM] = s.link /\ Image(s)[7 + MAXNUM] = s.recv
<1>1. Image(s) = [c \in Cells |-> Image(s)[c]]
  BY DEF Image
<1>2. 1 \in Cells /\ 2 \in Cells /\ 3 \in Cells /\ 4 \in Cells /\ 5 \in Cells
  BY CellNumbers
<1>3. Image(s)[1] = s.used
  BY <1>2, QueueSize DEF Image, CellOf
<1>4. Image(s)[2] = Half(s.ip[1], s.ip[2]) /\ Image(s)[3] = Half(s.ip[3], s.ip[4])
  BY <1>2, QueueSize DEF Image, CellOf
<1>5. Image(s)[4] = s.name
  BY <1>2, QueueSize DEF Image, CellOf
<1>6. Image(s)[5] = Half(s.total, s.insrt_pos)
  BY <1>2, QueueSize DEF Image, CellOf
<1>7. ASSUME NEW i \in Slots PROVE Image(s)[6 + i] = s.queue[i]
  <2>1. 6 + i \in Cells /\ 6 + i \in 6 .. 5 + MAXNUM /\ (6 + i) - 6 = i
    BY CellNumbers, QueueSize
  <2>2. 6 + i \notin 1..5
    BY CellNumbers
  <2>3. 6 + i # 1 /\ 6 + i # 2 /\ 6 + i # 3 /\ 6 + i # 4 /\ 6 + i # 5
    BY <2>2
  <2>4. 6 + i # 6 + MAXNUM /\ 6 + i # 7 + MAXNUM
    BY CellNumbers, QueueSize
  <2> QED BY <2>1, <2>3, <2>4 DEF Image, CellOf
<1>8. Image(s)[6 + MAXNUM] = s.link /\ Image(s)[7 + MAXNUM] = s.recv
  BY CellNumbers, QueueSize DEF Image, CellOf
<1> QED BY <1>1, <1>3, <1>4, <1>5, <1>6, <1>7, <1>8

(* What a cell may hold, cell by cell. *)
LEMMA CellKinds ==
  /\ CellValues(1) = {"A55A", Erased}
  /\ CellValues(2) = Halves /\ CellValues(3) = Halves /\ CellValues(4) = Text
  /\ CellValues(5) = ((0..MAXNUM) \X (Slots \cup {Unset})) \cup {Erased}
  /\ \A i \in Slots : CellValues(6 + i) = (1..MaxRecords) \cup {Erased}
  /\ CellValues(6 + MAXNUM) = Times /\ CellValues(7 + MAXNUM) = Times
<1>1. \A i \in Slots : 6 + i \in 6 .. 5 + MAXNUM /\ 6 + i \notin 1..5
  BY QueueSize, CellNumbers
<1>2. 6 + MAXNUM \notin 1 .. 5 + MAXNUM /\ 7 + MAXNUM \notin 1 .. 5 + MAXNUM
  BY QueueSize
<1>3. \A i \in Slots : CellValues(6 + i) = (1..MaxRecords) \cup {Erased}
  BY <1>1, QueueSize, CellNumbers DEF CellValues
<1>4. CellValues(6 + MAXNUM) = Times /\ CellValues(7 + MAXNUM) = Times
  BY <1>2, QueueSize DEF CellValues
<1>5. CellValues(1) = {"A55A", Erased}
  BY QueueSize DEF CellValues
<1>6. CellValues(2) = Halves /\ CellValues(3) = Halves
  BY QueueSize DEF CellValues
<1>7. CellValues(4) = Text
  BY QueueSize DEF CellValues
<1>8. CellValues(5) = ((0..MAXNUM) \X (Slots \cup {Unset})) \cup {Erased}
  BY QueueSize DEF CellValues
<1> QED BY <1>3, <1>4, <1>5, <1>6, <1>7, <1>8

(* Every cell is one of those. *)
LEMMA CellCases ==
  ASSUME NEW c \in Cells
  PROVE  c \in 1..5 \/ (\E i \in Slots : c = 6 + i) \/ c \in {6 + MAXNUM, 7 + MAXNUM}
<1>1. CASE c \in 6 .. 5 + MAXNUM
  <2>1. c - 6 \in Slots /\ c = 6 + (c - 6)
    BY <1>1, QueueSize, CellNumbers
  <2> QED BY <2>1
<1>2. CASE c \notin 6 .. 5 + MAXNUM
  BY <1>2, QueueSize, CellNumbers
<1> QED BY <1>1, <1>2

(* Two bytes make a half-word that gives them back. *)
LEMMA HalfWord ==
  ASSUME NEW a \in Bytes, NEW b \in Bytes
  PROVE  /\ Half(a, b) \in Halves
         /\ Byte(Half(a, b), 1) = a /\ Byte(Half(a, b), 2) = b
<1>1. a \in 0..Unset /\ b \in 0..Unset /\ <<a, b>> \in Bytes \X Bytes
  BY DEF Bytes
<1>2. <<a, b>> # Erased
  BY <1>1, StoreAssumption
<1> QED BY <1>1, <1>2 DEF Half, Byte, Halves

LEMMA BytesOfHalf ==
  ASSUME NEW h \in Halves
  PROVE  Byte(h, 1) \in Bytes /\ Byte(h, 2) \in Bytes
BY DEF Halves, Byte, Bytes, Unset

LEMMA DefaultAddress == DefaultIP \in [Octets -> Bytes] /\ IPCHECK(DefaultIP)
<1>1. DefaultIP = [i \in 1..4 |-> DefaultIP[i]]
  BY DEF DefaultIP
<1>2. \A i \in 1..4 : DefaultIP[i] \in 0..255 /\ DefaultIP[i] # 255
  <2>1. /\ DefaultIP[1] = 172 /\ DefaultIP[2] = 20 /\ DefaultIP[3] = 100
        /\ DefaultIP[4] = 1
    BY DEF DefaultIP
  <2>2. \A i \in 1..4 : i = 1 \/ i = 2 \/ i = 3 \/ i = 4
    OBVIOUS
  <2> QED BY <2>1, <2>2
<1> QED BY <1>1, <1>2 DEF Octets, Bytes, Unset, IPCHECK

(* What is entered, and what is in use. *)
LEMMA EnteredAddress ==
  Entered \subseteq [Octets -> Nat] /\ [Octets -> Bytes] \subseteq [Octets -> Nat]
<1>1. Bytes \subseteq Nat
  BY DEF Bytes, Unset
<1> QED BY <1>1, StoreAssumption, DefaultAddress DEF Entered

(* The address read back from an image. *)
LEMMA AddressRead ==
  ASSUME NEW s \in Setting
  PROVE  DataBase_read(Image(s)).ip = s.ip
<1> DEFINE r == DataBase_read(Image(s))
<1>1. s.ip \in [Octets -> Bytes]
  BY DEF Setting
<1>2. /\ s.ip[1] \in Bytes /\ s.ip[2] \in Bytes /\ s.ip[3] \in Bytes /\ s.ip[4] \in Bytes
      /\ s.ip = [i \in Octets |-> s.ip[i]]
  BY <1>1 DEF Octets
<1>3. r.ip = [i \in Octets |-> IF i <= 2 THEN Byte(Image(s)[2], i) ELSE Byte(Image(s)[3], i - 2)]
  BY DEF DataBase_read
<1>4. /\ Byte(Image(s)[2], 1) = s.ip[1] /\ Byte(Image(s)[2], 2) = s.ip[2]
      /\ Byte(Image(s)[3], 1) = s.ip[3] /\ Byte(Image(s)[3], 2) = s.ip[4]
  BY <1>2, HalfWord, ImageCells
<1>5. \A i \in Octets : i = 1 \/ i = 2 \/ i = 3 \/ i = 4
  BY DEF Octets
<1>6. \A i \in Octets : r.ip[i] = s.ip[i]
  BY <1>3, <1>4, <1>5
<1> QED BY <1>2, <1>3, <1>6

(* The settings come back from the page they were saved to. *)
LEMMA RoundTrip ==
  ASSUME NEW s \in Setting
  PROVE  DataBase_read(Image(s)) = s
<1> DEFINE r == DataBase_read(Image(s))
<1>1. /\ s.total \in 0..MAXNUM /\ s.insrt_pos \in Slots \cup {Unset}
      /\ s.queue = [i \in Slots |-> s.queue[i]]
  BY DEF Setting
<1>2. Byte(Image(s)[5], 1) = s.total /\ Byte(Image(s)[5], 2) = s.insrt_pos
  <2>1. s.total \in Bytes /\ s.insrt_pos \in Bytes
    <3>1. MAXNUM \in 0..255 /\ MAXNUM - 1 \in 0..255
      BY QueueSize
    <3>2. s.total \in 0..MAXNUM /\ s.insrt_pos \in (0 .. MAXNUM - 1) \cup {255}
      BY <1>1 DEF Slots, Unset
    <3>3. s.total \in 0..255 /\ s.insrt_pos \in 0..255
      BY <3>1, <3>2
    <3> QED BY <3>3 DEF Bytes, Unset
  <2> QED BY <2>1, HalfWord, ImageCells
<1>3. /\ r.used = s.used /\ r.ip = s.ip /\ r.name = s.name
      /\ r.total = s.total /\ r.insrt_pos = s.insrt_pos
      /\ r.queue = s.queue /\ r.link = s.link /\ r.recv = s.recv
  <2>1. r.ip = s.ip
    BY AddressRead
  <2> QED BY <1>1, <1>2, <2>1, ImageCells DEF DataBase_read
<1> QED BY <1>3 DEF DataBase_read, Setting

(* A page of well-typed cells is read as well-typed settings. *)
LEMMA ReadType ==
  ASSUME NEW page, PageOK(page)
  PROVE  Sanitised(DataBase_read(page)) \in Setting
<1> DEFINE r == DataBase_read(page)
<1> USE DEF PageOK
<1>1. /\ page[1] \in {"A55A", Erased} /\ page[2] \in Halves /\ page[3] \in Halves
      /\ page[4] \in Text
      /\ page[5] \in ((0..MAXNUM) \X (Slots \cup {Unset})) \cup {Erased}
  <2>1. 1 \in Cells /\ 2 \in Cells /\ 3 \in Cells /\ 4 \in Cells /\ 5 \in Cells
    BY CellNumbers
  <2> QED BY <2>1, CellKinds
<1>2. ASSUME NEW i \in Slots PROVE page[6 + i] \in (1..MaxRecords) \cup {Erased}
  BY CellNumbers, CellKinds
<1>3. page[6 + MAXNUM] \in Times /\ page[7 + MAXNUM] \in Times
  BY CellNumbers, CellKinds
<1>4. r.ip \in [Octets -> Bytes]
  <2>1. /\ Byte(page[2], 1) \in Bytes /\ Byte(page[2], 2) \in Bytes
        /\ Byte(page[3], 1) \in Bytes /\ Byte(page[3], 2) \in Bytes
    BY <1>1, BytesOfHalf
  <2>2. \A i \in Octets : i = 1 \/ i = 2 \/ i = 3 \/ i = 4
    BY DEF Octets
  <2>3. r.ip = [i \in Octets |-> IF i <= 2 THEN Byte(page[2], i) ELSE Byte(page[3], i - 2)]
    BY DEF DataBase_read
  <2>4. \A i \in Octets :
          (IF i <= 2 THEN Byte(page[2], i) ELSE Byte(page[3], i - 2)) \in Bytes
    BY <2>1, <2>2
  <2> QED BY <2>3, <2>4
<1>5. /\ Byte(page[5], 1) \in (0..MAXNUM) \cup {Unset}
      /\ Byte(page[5], 2) \in Slots \cup {Unset}
  BY <1>1 DEF Byte
<1>6. /\ r.used \in {"A55A", Erased} /\ r.name \in Text
      /\ r.total \in (0..MAXNUM) \cup {Unset} /\ r.insrt_pos \in Slots \cup {Unset}
      /\ r.queue \in [Slots -> (1..MaxRecords) \cup {Erased}]
      /\ r.link \in Times /\ r.recv \in Times
  BY <1>1, <1>2, <1>3, <1>5 DEF DataBase_read
<1>7. DefaultMinutes \in Times /\ Unset > MAXNUM /\ 0 \in 0..MAXNUM
  BY QueueSize DEF Times
<1>8. r = [ used |-> r.used, ip |-> r.ip, name |-> r.name, total |-> r.total,
            insrt_pos |-> r.insrt_pos, queue |-> r.queue,
            link |-> r.link, recv |-> r.recv ]
  BY DEF DataBase_read
<1>9. Sanitised(r).link \in Times /\ Sanitised(r).recv \in Times
  BY <1>6, <1>7, <1>8 DEF Sanitised
<1>10. Sanitised(r).total \in 0..MAXNUM
  BY <1>6, <1>7, <1>8, QueueSize DEF Sanitised
<1> QED BY <1>4, <1>6, <1>8, <1>9, <1>10 DEF Sanitised, Setting

(* The image of well-typed settings is a page of well-typed cells. *)
LEMMA ImageType ==
  ASSUME NEW s \in Setting, NEW c \in Cells
  PROVE  Image(s)[c] \in CellValues(c)
<1>1. /\ s.used \in {"A55A", Erased} /\ s.ip \in [Octets -> Bytes] /\ s.name \in Text
      /\ s.total \in 0..MAXNUM /\ s.insrt_pos \in Slots \cup {Unset}
      /\ s.queue \in [Slots -> (1..MaxRecords) \cup {Erased}]
      /\ s.link \in Times /\ s.recv \in Times
  BY DEF Setting
<1>2. CASE c \in 1..5
  <2>1. c = 1 \/ c = 2 \/ c = 3 \/ c = 4 \/ c = 5
    BY <1>2
  <2>2. CASE c = 1
    BY <1>1, <2>2, ImageCells, CellKinds
  <2>3. CASE c = 2 \/ c = 3
    <3>1. s.ip[1] \in Bytes /\ s.ip[2] \in Bytes /\ s.ip[3] \in Bytes /\ s.ip[4] \in Bytes
      BY <1>1 DEF Octets
    <3>2. Half(s.ip[1], s.ip[2]) \in Halves /\ Half(s.ip[3], s.ip[4]) \in Halves
      BY <3>1, HalfWord
    <3> QED BY <2>3, <3>2, ImageCells, CellKinds
  <2>4. CASE c = 4
    BY <1>1, <2>4, ImageCells, CellKinds
  <2>5. CASE c = 5
    <3>1. Half(s.total, s.insrt_pos) = <<s.total, s.insrt_pos>>
      BY <1>1, QueueSize DEF Half
    <3>2. <<s.total, s.insrt_pos>> \in (0..MAXNUM) \X (Slots \cup {Unset})
      BY <1>1
    <3> QED BY <2>5, <3>1, <3>2, ImageCells, CellKinds
  <2> QED BY <2>1, <2>2, <2>3, <2>4, <2>5
<1>3. CASE \E i \in Slots : c = 6 + i
  <2>1. PICK i \in Slots : c = 6 + i
    BY <1>3
  <2>2. Image(s)[6 + i] = s.queue[i] /\ CellValues(6 + i) = (1..MaxRecords) \cup {Erased}
    BY ImageCells, CellKinds
  <2>3. s.queue[i] \in (1..MaxRecords) \cup {Erased}
    BY <1>1
  <2> QED BY <2>1, <2>2, <2>3
<1>4. CASE c \in {6 + MAXNUM, 7 + MAXNUM}
  BY <1>1, <1>4, ImageCells, CellKinds
<1> QED BY <1>2, <1>3, <1>4, CellCases

-----------------------------------------------------------------------------
(* Any cell may be erased. *)
LEMMA BlankType == \A c \in Cells : Erased \in CellValues(c)
<1> TAKE c \in Cells
<1>1. Erased \in Halves /\ Erased \in Text /\ Erased \in Times
  BY DEF Halves, Text, Times
<1>2. c \in 1..5 => c = 1 \/ c = 2 \/ c = 3 \/ c = 4 \/ c = 5
  OBVIOUS
<1> QED BY <1>1, <1>2, CellCases, CellKinds

(* A page whose address cells are erased has no address. *)
LEMMA BlankAddress ==
  /\ PageOK(BlankPage)
  /\ DataBase_read(BlankPage).used = Erased
  /\ DataBase_read(BlankPage).ip = [i \in Octets |-> Unset]
  /\ ~IPCHECK(DataBase_read(BlankPage).ip)
<1>1. PageOK(BlankPage) /\ \A c \in Cells : BlankPage[c] = Erased
  BY BlankType DEF PageOK, BlankPage
<1>2. BlankPage[1] = Erased /\ BlankPage[2] = Erased /\ BlankPage[3] = Erased
  BY <1>1, CellNumbers
<1>3. DataBase_read(BlankPage).ip = [i \in Octets |-> Unset]
  BY <1>2 DEF DataBase_read, Byte
<1> QED BY <1>1, <1>2, <1>3 DEF DataBase_read, IPCHECK, Octets

(* Making settings sane a second time changes nothing. *)
LEMMA SanitisedOnce ==
  ASSUME NEW r, DOMAIN r = DOMAIN [ used |-> 1, ip |-> 1, name |-> 1, total |-> 1,
                                    insrt_pos |-> 1, queue |-> 1, link |-> 1, recv |-> 1 ],
         r = [x \in DOMAIN r |-> r[x]]
  PROVE  Sanitised(Sanitised(r)) = Sanitised(r)
<1>1. DefaultMinutes # Erased /\ MAXNUM \in Nat
  BY StoreAssumption, QueueSize
<1>2. ~NeverTimed(Sanitised(r)) /\ ~(Sanitised(r).total > MAXNUM)
  BY <1>1 DEF NeverTimed, Sanitised
<1> QED BY <1>2 DEF Sanitised

LEMMA Initially == Init => IInv
<1> SUFFICES ASSUME Init PROVE IInv
  OBVIOUS
<1> USE DEF Init
<1>1. SetCurrent \in Setting
  BY BlankAddress, ReadType
<1>2. DefaultName \in Text /\ 1 \in Cells /\ MaxRecords \in Nat /\ 0 \in Levels
  BY CellNumbers, StoreAssumption DEF Text
<1>3. DefaultIP \in [Octets -> Bytes] /\ DefaultIP \in [Octets -> Nat]
  BY DefaultAddress, EnteredAddress
<1>4. Types
  <2>1. PageOK(flash)
    BY BlankAddress
  <2> QED BY <1>1, <1>2, <1>3, <2>1 DEF Types, TypeOK, Places
<1>5. SetCurrent.ip = [i \in Octets |-> Unset] /\ SetCurrent.used = Erased
  BY BlankAddress DEF Sanitised, DataBase_read
<1>6. AddressesMarked
  BY <1>5, BlankAddress DEF AddressesMarked, IPCHECK, Octets
<1>7. AddressCopied
  BY <1>5, DefaultAddress DEF AddressCopied, Worth, IPCHECK, Octets
<1>8. PageWorth
  <2>1. Sanitised(SetCurrent) = SetCurrent
    BY SanitisedOnce DEF DataBase_read
  <2> QED BY <2>1 DEF PageWorth
<1>9. SavesProgress
  BY DEF SavesProgress
<1> QED BY <1>4, <1>6, <1>7, <1>8, <1>9 DEF IInv

(* Level w had the processor and is at a place where it changes settings   *)
(* or page: what is undisturbed and programs is w itself.                  *)
LEMMA OnlyOneRuns ==
  ASSUME pc \in [Levels -> Places], NEW w \in Levels, Running(w),
         NEW p \in Places \ HarmlessPlaces, pc' = [pc EXCEPT ![w] = p],
         NEW v \in Levels, Undisturbed(v)', pc'[v] = "program"
  PROVE  v = w
<1>1. v \in Nat /\ w \in Nat /\ pc'[w] = p
  BY StoreAssumption
<1>2. CASE v < w
  BY <1>1, <1>2 DEF Undisturbed, Harmless
<1>3. CASE v > w
  BY <1>1, <1>3 DEF Running
<1> QED BY <1>1, <1>2, <1>3

(* While the level that has the processor computes, nothing need be known  *)
(* of the page.                                                            *)
LEMMA Busy ==
  ASSUME pc \in [Levels -> Places], NEW w \in Levels, Running(w),
         NEW p \in Places \ (HarmlessPlaces \cup {"program"}), pc' = [pc EXCEPT ![w] = p]
  PROVE  SavesProgress' /\ PageWorth'
<1>1. pc'[w] = p
  OBVIOUS
<1>2. ~Quiet'
  BY <1>1 DEF Quiet, Harmless
<1>3. ASSUME NEW v \in Levels, Undisturbed(v)' PROVE pc'[v] # "program"
  BY <1>1, <1>3, OnlyOneRuns
<1> QED BY <1>2, <1>3 DEF PageWorth, SavesProgress

(* A level that only reads a line leaves everything as it was. *)
LEMMA Calm ==
  ASSUME pc \in [Levels -> Places], next \in [Levels -> Cells],
         SavesProgress, PageWorth,
         NEW w \in Levels, Running(w), Harmless(w),
         NEW p \in HarmlessPlaces, pc' = [pc EXCEPT ![w] = p],
         NEW n, next' = [next EXCEPT ![w] = n], UNCHANGED <<SetCurrent, flash>>
  PROVE  SavesProgress' /\ PageWorth'
<1>1. /\ pc'[w] = p /\ \A v \in Levels : v # w => pc'[v] = pc[v] /\ next'[v] = next[v]
  OBVIOUS
<1>2. Quiet' => Quiet
  BY <1>1 DEF Quiet, Harmless
<1>3. ASSUME NEW v \in Levels, Undisturbed(v)', pc'[v] = "program" PROVE Progress(v)'
  <2>1. v # w /\ pc[v] = "program"
    BY <1>1, <1>3 DEF HarmlessPlaces
  <2>2. Undisturbed(v)
    BY <1>1, <1>3 DEF Undisturbed, Harmless
  <2>3. Progress(v) /\ next'[v] = next[v]
    BY <1>1, <2>1, <2>2 DEF SavesProgress
  <2> QED BY <2>3 DEF Progress
<1> QED BY <1>2, <1>3 DEF SavesProgress, PageWorth

(* The record actions of the main loop. *)
LEMMA Enqueues ==
  ASSUME IInv, Enqueue
  PROVE  IInv'
<1> USE DEF IInv, Enqueue
<1>1. 0 \in Levels /\ Running(0)
  BY StoreAssumption DEF EnqueueCount, EnqueueCopy, EnqueueAdvance
<1>2. SetCurrent \in Setting
  BY DEF Types, TypeOK
<1>3. /\ SetCurrent' \in Setting
      /\ SetCurrent'.used = SetCurrent.used /\ SetCurrent'.ip = SetCurrent.ip
  <2>1. CASE EnqueueCount
    <3>1. Counted(SetCurrent.total) \in 0..MAXNUM
      BY <1>2, QueueSize DEF Counted, Setting
    <3> QED BY <1>2, <2>1, <3>1 DEF EnqueueCount, Setting
  <2>2. CASE EnqueueCopy
    <3>1. Len(log) + 1 \in 1..MaxRecords
      BY <2>2, StoreAssumption DEF EnqueueCopy, Types, TypeOK
    <3> QED BY <1>2, <2>2, <3>1 DEF EnqueueCopy, Setting
  <2>3. CASE EnqueueAdvance
    <3>1. SetCurrent.insrt_pos \in Nat
      BY <1>2, QueueSize, CellNumbers DEF Setting
    <3>2. Advanced(SetCurrent.insrt_pos) \in Slots
      BY <3>1, QueueSize, CellNumbers DEF Advanced
    <3> QED BY <1>2, <2>3, <3>2 DEF EnqueueAdvance, Setting
  <2> QED BY <2>1, <2>2, <2>3
<1>4. \E p \in {"copy", "advance", "erase"} : pc' = [pc EXCEPT ![0] = p]
  BY DEF EnqueueCount, EnqueueCopy, EnqueueAdvance, Goto
<1>5. UNCHANGED <<flash, DevIPAddressTab, DevNameStr, m_type, next, carried, durable,
                  complete, unsaved>> /\ strayed' \in BOOLEAN
  BY DEF EnqueueCount, EnqueueCopy, EnqueueAdvance, history, inUse, Types, TypeOK
<1>6. /\ pc' \in [Levels -> Places]
      /\ \A w \in Levels \ {0} : pc'[w] = pc[w]
      /\ pc'[0] \in {"copy", "advance", "erase"}
      /\ pc[0] \in {"idle", "copy", "advance"}
  BY <1>1, <1>4 DEF Types, TypeOK, Places, EnqueueCount, EnqueueCopy, EnqueueAdvance
<1>7. AddressesMarked' /\ AddressCopied'
  <2>1. \A w \in Levels : pc'[w] = "settle" <=> pc[w] = "settle"
    BY <1>6
  <2>2. AddressesMarked'
    BY <1>3, <1>5, <2>1 DEF AddressesMarked, IPCHECK
  <2>3. AddressCopied'
    BY <1>3, <1>5, <2>1 DEF AddressCopied, Worth, IPCHECK
  <2> QED BY <2>2, <2>3
<1>8. log' \in Seq(1..MaxRecords) /\ Len(log') <= MaxRecords
  <2>1. CASE UNCHANGED log
    BY <2>1 DEF Types, TypeOK
  <2>2. CASE log' = Append(log, Len(log) + 1) /\ EnqueueAdvance
    <3>1. Len(log) + 1 \in 1..MaxRecords /\ log \in Seq(1..MaxRecords)
      BY <2>2, StoreAssumption DEF EnqueueAdvance, Types, TypeOK
    <3> QED BY <2>2, <3>1
  <2> QED BY <2>1, <2>2 DEF EnqueueCount, EnqueueCopy, EnqueueAdvance, history
<1>9. pc'[0] \in {"copy", "advance"} => Len(log') < MaxRecords
  BY <1>1 DEF EnqueueCount, EnqueueCopy, EnqueueAdvance, Goto, history, Types, TypeOK
<1>10. Types'
  <2>1. PageOK(flash)'
    BY <1>5 DEF Types, TypeOK, PageOK, CellValues, Cells, NCells
  <2>2. \A w \in Levels :
          /\ pc'[w] \in {"octet", "settle"} => next'[w] \in Octets
          /\ pc'[w] = "settle" => carried'[w] \in [Octets -> Bytes]
    BY <1>5, <1>6 DEF Types, TypeOK
  <2>3. \A w \in Levels \ {0} : pc'[w] \notin {"copy", "advance"}
    BY <1>6 DEF Types, TypeOK
  <2> QED BY <1>3, <1>5, <1>6, <1>8, <1>9, <2>1, <2>2, <2>3 DEF Types, TypeOK
<1>11. \E p \in Places \ (HarmlessPlaces \cup {"program"}) : pc' = [pc EXCEPT ![0] = p]
  BY <1>4 DEF Places, HarmlessPlaces
<1>12. SavesProgress' /\ PageWorth'
  BY <1>1, <1>11, Busy DEF Types, TypeOK
<1> QED BY <1>7, <1>10, <1>12

(* What a step of a shell has to keep for the types: where its level goes, *)
(* with which octet or cell and which address.                             *)
LEMMA ShellTypes ==
  ASSUME Types, NEW w \in Levels, pc[w] \notin {"copy", "advance"},
         NEW p \in Places \ {"copy", "advance"}, pc' = [pc EXCEPT ![w] = p],
         NEW n \in Cells, next' = [next EXCEPT ![w] = n],
         NEW a \in [Octets -> Nat], carried' = [carried EXCEPT ![w] = a],
         p \in {"octet", "settle"} => n \in Octets,
         p = "settle" => a \in [Octets -> Bytes],
         SetCurrent' \in Setting, DevIPAddressTab' \in [Octets -> Bytes],
         DevNameStr' \in Text, m_type' \in Commands,
         unsaved' \in BOOLEAN, UNCHANGED <<flash, log, durable, complete, strayed>>
  PROVE  Types'
<1>1. pc \in [Levels -> Places] /\ next \in [Levels -> Cells]
      /\ carried \in [Levels -> [Octets -> Nat]] /\ 0 \in Levels
  BY StoreAssumption DEF Types, TypeOK
<1>2. /\ pc' \in [Levels -> Places] /\ next' \in [Levels -> Cells]
      /\ carried' \in [Levels -> [Octets -> Nat]]
      /\ pc'[w] = p /\ next'[w] = n /\ carried'[w] = a
      /\ \A v \in Levels : v # w => /\ pc'[v] = pc[v] /\ next'[v] = next[v]
                                    /\ carried'[v] = carried[v]
  BY <1>1
<1>3. PageOK(flash)'
  BY DEF Types, TypeOK, PageOK, CellValues, Cells, NCells
<1>4. \A v \in Levels :
        /\ pc'[v] \in {"octet", "settle"} => next'[v] \in Octets
        /\ pc'[v] = "settle" => carried'[v] \in [Octets -> Bytes]
        /\ v # 0 => pc'[v] \notin {"copy", "advance"}
        /\ pc'[v] \in {"copy", "advance"} => pc[v] = pc'[v]
  BY <1>2 DEF Types, TypeOK
<1> QED BY <1>1, <1>2, <1>3, <1>4 DEF Types, TypeOK

LEMMA OctetCells == Octets \subseteq Cells /\ 1 \in Cells /\ 1 \in Octets
BY CellNumbers DEF Octets

(* A shell reads a line: Ask, EnterAddress, EnterOctet, EnterName.  Its     *)
(* level goes on to a harmless place and leaves settings and page alone.   *)
LEMMA OnlyReads ==
  ASSUME IInv, NEW w \in Levels,
         Ask(w) \/ EnterAddress(w) \/ EnterOctet(w) \/ EnterName(w)
  PROVE  \E p \in HarmlessPlaces, n \in Cells, a \in [Octets -> Nat] :
        /\ Running(w) /\ Harmless(w)
        /\ pc' = [pc EXCEPT ![w] = p] /\ next' = [next EXCEPT ![w] = n]
        /\ carried' = [carried EXCEPT ![w] = a]
        /\ p = "octet" => n \in Octets
        /\ m_type' \in Commands
        /\ UNCHANGED <<SetCurrent, flash, log, durable, complete, strayed>>
        /\ DevIPAddressTab' \in [Octets -> Bytes] /\ DevNameStr' \in Text
        /\ unsaved' \in BOOLEAN
        /\ ~unsaved' => ~unsaved /\ UNCHANGED DevIPAddressTab
<1> USE DEF IInv
<1>1. /\ pc = [pc EXCEPT ![w] = pc[w]] /\ next = [next EXCEPT ![w] = next[w]]
      /\ carried = [carried EXCEPT ![w] = carried[w]]
      /\ next[w] \in Cells /\ carried[w] \in [Octets -> Nat]
      /\ DevIPAddressTab \in [Octets -> Bytes] /\ DevNameStr \in Text
      /\ unsaved \in BOOLEAN /\ m_type \in Commands
  BY DEF Types, TypeOK
<1>2. CASE Ask(w)
  <2>1. pc[w] \in HarmlessPlaces /\ Harmless(w) /\ pc[w] # "octet"
    BY <1>2 DEF Ask, Ready, HarmlessPlaces, Harmless
  <2>2. UNCHANGED <<pc, next, carried, DevIPAddressTab, DevNameStr, unsaved>>
    BY <1>2 DEF Ask, inUse, saving
  <2>3. /\ Running(w) /\ m_type' \in Commands
        /\ UNCHANGED <<SetCurrent, flash, log, durable, complete, strayed>>
    BY <1>2 DEF Ask, Ready, store, history
  <2> QED BY <1>1, <2>1, <2>2, <2>3
<1>3. CASE EnterAddress(w)
  <2>1. PICK ip \in Entered : carried' = [carried EXCEPT ![w] = ip]
    BY <1>3 DEF EnterAddress
  <2>2. ip \in [Octets -> Nat] /\ "octet" \in HarmlessPlaces /\ 1 \in Cells /\ 1 \in Octets
    BY EnteredAddress, OctetCells DEF HarmlessPlaces
  <2>3. /\ Running(w) /\ Harmless(w) /\ m_type' \in Commands
        /\ pc' = [pc EXCEPT ![w] = "octet"] /\ next' = [next EXCEPT ![w] = 1]
        /\ UNCHANGED <<SetCurrent, flash, log, durable, complete, strayed,
                       DevIPAddressTab, DevNameStr, unsaved>>
    BY <1>3 DEF EnterAddress, Ready, Goto, Harmless, HarmlessPlaces, store, inUse, history
  <2> QED BY <1>1, <2>1, <2>2, <2>3
<1>4. CASE EnterOctet(w)
  <2>1. next[w] \in Octets /\ pc[w] = "octet" /\ Running(w) /\ Harmless(w)
    BY <1>4 DEF EnterOctet, Types, TypeOK, Harmless, HarmlessPlaces
  <2>2. carried[w][next[w]] \in Nat
    BY <1>1, <2>1
  <2>3. /\ UNCHANGED <<SetCurrent, flash, log, durable, complete, strayed,
                       DevNameStr, m_type>>
    BY <1>4 DEF EnterOctet, store, history
  <2>4. CASE /\ carried[w][next[w]] <= 255 /\ unsaved' = TRUE /\ UNCHANGED carried
             /\ DevIPAddressTab' =
                  [DevIPAddressTab EXCEPT ![next[w]] = carried[w][next[w]]]
             /\ \/ pc' = [pc EXCEPT ![w] = "setting"] /\ UNCHANGED next
                \/ UNCHANGED pc /\ next' = [next EXCEPT ![w] = next[w] + 1] /\ next[w] # 4
    <3>2. DevIPAddressTab' \in [Octets -> Bytes]
      BY <1>1, <2>1, <2>2, <2>4 DEF Bytes, Unset
    <3>4. "setting" \in HarmlessPlaces /\ "octet" \in HarmlessPlaces
      BY DEF HarmlessPlaces
    <3>5. next[w] # 4 => next[w] + 1 \in Octets /\ next[w] + 1 \in Cells
      BY <2>1, OctetCells DEF Octets
    <3>6. CASE next' = next
      BY <1>1, <2>1, <2>3, <2>4, <3>2, <3>4, <3>6
    <3>7. CASE UNCHANGED pc /\ next' = [next EXCEPT ![w] = next[w] + 1] /\ next[w] # 4
      BY <1>1, <2>1, <2>3, <2>4, <3>2, <3>4, <3>5, <3>7
    <3> QED BY <2>4, <3>6, <3>7
  <2>5. CASE /\ pc' = [pc EXCEPT ![w] = "idle"] /\ next' = [next EXCEPT ![w] = 1]
             /\ carried' = [carried EXCEPT ![w] = DefaultIP]
             /\ UNCHANGED <<DevIPAddressTab, unsaved>>
    <3>1. "idle" \in HarmlessPlaces /\ 1 \in Cells /\ DefaultIP \in [Octets -> Nat]
      BY OctetCells, DefaultAddress, EnteredAddress DEF HarmlessPlaces
    <3> QED BY <1>1, <2>1, <2>3, <2>5, <3>1
  <2> QED BY <1>4, <2>4, <2>5 DEF EnterOctet, Goto
<1>5. CASE EnterName(w)
  <2>1. /\ Running(w) /\ Harmless(w) /\ m_type' \in Commands
        /\ pc' = [pc EXCEPT ![w] = "setting"] /\ UNCHANGED <<next, carried>>
        /\ DevNameStr' \in Text
        /\ UNCHANGED <<SetCurrent, flash, log, durable, complete, strayed,
                       DevIPAddressTab, unsaved>>
    BY <1>5 DEF EnterName, Ready, Goto, Harmless, HarmlessPlaces, store, history, Text
  <2>2. "setting" \in HarmlessPlaces
    BY DEF HarmlessPlaces
  <2> QED BY <1>1, <2>1, <2>2
<1> QED BY <1>2, <1>3, <1>4, <1>5

LEMMA ReadsLine ==
  ASSUME IInv, NEW w \in Levels,
         Ask(w) \/ EnterAddress(w) \/ EnterOctet(w) \/ EnterName(w)
  PROVE  IInv'
<1> USE DEF IInv
<1>1. PICK p \in HarmlessPlaces, n \in Cells, a \in [Octets -> Nat] :
        /\ Running(w) /\ Harmless(w)
        /\ pc' = [pc EXCEPT ![w] = p] /\ next' = [next EXCEPT ![w] = n]
        /\ carried' = [carried EXCEPT ![w] = a]
        /\ p = "octet" => n \in Octets
        /\ m_type' \in Commands
        /\ UNCHANGED <<SetCurrent, flash, log, durable, complete, strayed>>
        /\ DevIPAddressTab' \in [Octets -> Bytes] /\ DevNameStr' \in Text
        /\ unsaved' \in BOOLEAN
        /\ ~unsaved' => ~unsaved /\ UNCHANGED DevIPAddressTab
  BY OnlyReads
<1>2. /\ pc \in [Levels -> Places] /\ next \in [Levels -> Cells] /\ SetCurrent \in Setting
      /\ carried \in [Levels -> [Octets -> Nat]]
  BY DEF Types, TypeOK
<1>3. SavesProgress' /\ PageWorth'
  BY <1>1, <1>2, Calm
<1>4. /\ p \in Places \ {"copy", "advance"} /\ p # "settle"
      /\ pc[w] \notin {"copy", "advance", "settle"}
  BY <1>1 DEF HarmlessPlaces, Places, Harmless
<1>5. Types'
  BY <1>1, <1>2, <1>4, ShellTypes
<1>6. \A v \in Levels : /\ pc'[v] = "settle" <=> pc[v] = "settle"
                        /\ pc'[v] = "settle" => next'[v] = next[v] /\ carried'[v] = carried[v]
  BY <1>1, <1>2, <1>4
<1>7. AddressesMarked'
  BY <1>1, <1>6 DEF AddressesMarked, IPCHECK
<1>8. AddressCopied'
  BY <1>1, <1>6 DEF AddressCopied, Worth, IPCHECK
<1> QED BY <1>3, <1>5, <1>7, <1>8

(* CmdSetting: the mark is set and the address loaded, or the name copied, *)
(* or nothing done.                                                        *)
LEMMA Settings ==
  ASSUME IInv, NEW w \in Levels, CmdSetting(w)
  PROVE  IInv'
<1> USE DEF IInv
<1>1. /\ Running(w) /\ pc[w] = "setting" /\ Harmless(w)
      /\ m_type' = "other" /\ next' = [next EXCEPT ![w] = 1]
      /\ UNCHANGED <<flash, DevIPAddressTab, DevNameStr, log, durable, complete, strayed>>
  BY DEF CmdSetting, Harmless, HarmlessPlaces, inUse, history
<1>2. /\ pc \in [Levels -> Places] /\ next \in [Levels -> Cells] /\ SetCurrent \in Setting
      /\ carried \in [Levels -> [Octets -> Nat]] /\ unsaved \in BOOLEAN
      /\ DevIPAddressTab \in [Octets -> Bytes] /\ DevNameStr \in Text
  BY DEF Types, TypeOK
<1>3. /\ 1 \in Cells /\ 1 \in Octets /\ DefaultIP \in [Octets -> Nat]
      /\ DevIPAddressTab \in [Octets -> Nat] /\ "A55A" \in {"A55A", Erased}
  BY <1>2, OctetCells, DefaultAddress, EnteredAddress
<1>4. CASE m_type = "CMD_ADDR"
  <2>1. /\ SetCurrent' = [SetCurrent EXCEPT !.used = "A55A"]
        /\ carried' = [carried EXCEPT ![w] = DevIPAddressTab]
        /\ unsaved' = (unsaved /\ \E v \in Levels : pc[v] = "settle")
        /\ pc' = [pc EXCEPT ![w] = "settle"]
    BY <1>4 DEF CmdSetting, Goto
  <2>2. /\ SetCurrent' \in Setting /\ SetCurrent'.ip = SetCurrent.ip
        /\ SetCurrent'.used = "A55A"
    BY <1>2, <2>1 DEF Setting
  <2>3. unsaved' \in BOOLEAN /\ "settle" \in Places \ (HarmlessPlaces \cup {"program"})
    BY <2>1 DEF Places, HarmlessPlaces
  <2>4. SavesProgress' /\ PageWorth'
    BY <1>1, <1>2, <2>1, <2>3, Busy
  <2>5. Types'
    <3>1. "settle" \in Places \ {"copy", "advance"}
      BY DEF Places
    <3> QED BY <1>1, <1>2, <1>3, <2>1, <2>2, <2>3, <3>1, ShellTypes DEF Commands
  <2>6. AddressesMarked'
    BY <1>1, <2>2 DEF AddressesMarked, IPCHECK
  <2>7. AddressCopied'
    <3>1. /\ pc'[w] = "settle" /\ next'[w] = 1 /\ carried'[w] = DevIPAddressTab
          /\ \A v \in Levels : v # w => /\ pc'[v] = pc[v] /\ next'[v] = next[v]
                                        /\ carried'[v] = carried[v]
      BY <1>1, <1>2, <2>1
    <3> SUFFICES ASSUME ~unsaved', NEW v \in Levels, pc'[v] = "settle"
                 PROVE  /\ carried'[v] = DevIPAddressTab'
                        /\ \A i \in Octets :
                             i < next'[v] => SetCurrent'.ip[i] = DevIPAddressTab'[i]
      BY <3>1 DEF AddressCopied
    <3>2. CASE v = w
      BY <1>1, <3>1, <3>2 DEF Octets
    <3>3. CASE v # w
      <4>1. pc[v] = "settle" /\ ~unsaved
        BY <2>1, <3>1, <3>3
      <4> QED BY <1>1, <2>2, <3>1, <3>3, <4>1 DEF AddressCopied
    <3> QED BY <3>2, <3>3
  <2> QED BY <2>4, <2>5, <2>6, <2>7
<1>5. CASE m_type = "CMD_NAME"
  <2>1. /\ SetCurrent' = [SetCurrent EXCEPT !.used = "A55A", !.name = DevNameStr]
        /\ carried' = [carried EXCEPT ![w] = DefaultIP] /\ UNCHANGED unsaved
        /\ pc' = [pc EXCEPT ![w] = "erase"]
    BY <1>5 DEF CmdSetting, Goto
  <2>2. /\ SetCurrent' \in Setting /\ SetCurrent'.ip = SetCurrent.ip
        /\ SetCurrent'.used = "A55A"
    BY <1>2, <2>1 DEF Setting
  <2>3. "erase" \in Places \ (HarmlessPlaces \cup {"program"})
    BY DEF Places, HarmlessPlaces
  <2>4. SavesProgress' /\ PageWorth'
    BY <1>1, <1>2, <2>1, <2>3, Busy
  <2>5. Types'
    <3>1. "erase" \in Places \ {"copy", "advance"}
      BY DEF Places
    <3> QED BY <1>1, <1>2, <1>3, <2>1, <2>2, <3>1, ShellTypes DEF Commands
  <2>6. \A v \in Levels : /\ pc'[v] = "settle" <=> pc[v] = "settle"
                          /\ pc'[v] = "settle" => next'[v] = next[v] /\ carried'[v] = carried[v]
    BY <1>1, <1>2, <2>1
  <2>7. AddressesMarked'
    BY <1>1, <2>2 DEF AddressesMarked, IPCHECK
  <2>8. AddressCopied'
    BY <1>1, <2>1, <2>2, <2>6 DEF AddressCopied, Worth, IPCHECK
  <2> QED BY <2>4, <2>5, <2>7, <2>8
<1>6. CASE m_type = "other"
  <2>1. /\ UNCHANGED <<SetCurrent, unsaved>>
        /\ carried' = [carried EXCEPT ![w] = DefaultIP]
        /\ pc' = [pc EXCEPT ![w] = "idle"]
    BY <1>6 DEF CmdSetting, Goto
  <2>2. SavesProgress' /\ PageWorth'
    <3>1. "idle" \in HarmlessPlaces
      BY DEF HarmlessPlaces
    <3> QED BY <1>1, <1>2, <2>1, <3>1, Calm
  <2>3. Types'
    <3>1. "idle" \in Places \ {"copy", "advance"}
      BY DEF Places
    <3> QED BY <1>1, <1>2, <1>3, <2>1, <3>1, ShellTypes DEF Commands
  <2>4. \A v \in Levels : /\ pc'[v] = "settle" <=> pc[v] = "settle"
                          /\ pc'[v] = "settle" => next'[v] = next[v] /\ carried'[v] = carried[v]
    BY <1>1, <1>2, <2>1
  <2>5. AddressesMarked'
    BY <1>1, <2>1, <2>4 DEF AddressesMarked, IPCHECK
  <2>6. AddressCopied'
    BY <1>1, <2>1, <2>4 DEF AddressCopied, Worth, IPCHECK
  <2> QED BY <2>2, <2>3, <2>5, <2>6
<1> QED BY <1>4, <1>5, <1>6 DEF CmdSetting

(* One octet of the memcpy. *)
LEMMA Settles ==
  ASSUME IInv, NEW w \in Levels, Settle(w)
  PROVE  IInv'
<1> DEFINE i == next[w]
<1> USE DEF IInv
<1>1. /\ pc \in [Levels -> Places] /\ next \in [Levels -> Cells] /\ SetCurrent \in Setting
      /\ carried \in [Levels -> [Octets -> Nat]] /\ unsaved \in BOOLEAN
      /\ DevIPAddressTab \in [Octets -> Bytes] /\ DevNameStr \in Text
      /\ m_type \in Commands
  BY DEF Types, TypeOK
<1>2. /\ Running(w) /\ pc[w] = "settle" /\ i \in Octets /\ i \in Cells
      /\ carried[w] \in [Octets -> Bytes]
      /\ UNCHANGED <<flash, DevIPAddressTab, DevNameStr, m_type, log, durable, complete,
                     strayed, unsaved>>
  BY OctetCells DEF Settle, Types, TypeOK, inUse, history
<1>3. PICK octet \in {carried[w][i], DevIPAddressTab[i]} :
        SetCurrent' = [SetCurrent EXCEPT !.ip[i] = octet]
  BY DEF Settle
<1>4. octet \in Bytes /\ SetCurrent.ip \in [Octets -> Bytes]
  BY <1>1, <1>2, <1>3 DEF Setting
<1>5. /\ SetCurrent'.ip = [SetCurrent.ip EXCEPT ![i] = octet]
      /\ SetCurrent'.used = SetCurrent.used /\ SetCurrent' \in Setting
  BY <1>1, <1>2, <1>3, <1>4 DEF Setting
<1>6. SetCurrent'.used = "A55A"
  BY <1>2, <1>5 DEF AddressesMarked
<1>7. AddressesMarked'
  BY <1>2, <1>6 DEF AddressesMarked, IPCHECK
<1>8. ASSUME ~unsaved
      PROVE  /\ SetCurrent'.ip[i] = DevIPAddressTab[i]
             /\ \A j \in Octets : j < i => SetCurrent'.ip[j] = DevIPAddressTab[j]
             /\ \A j \in Octets : SetCurrent.ip[j] = DevIPAddressTab[j]
                                    => SetCurrent'.ip[j] = DevIPAddressTab[j]
  <2>1. /\ carried[w] = DevIPAddressTab
        /\ \A j \in Octets : j < i => SetCurrent.ip[j] = DevIPAddressTab[j]
    BY <1>2, <1>8 DEF AddressCopied
  <2> QED BY <1>2, <1>3, <1>4, <1>5, <2>1
<1>9. CASE i = 4
  <2>1. /\ pc' = [pc EXCEPT ![w] = "erase"] /\ next' = [next EXCEPT ![w] = 1]
        /\ carried' = [carried EXCEPT ![w] = DefaultIP]
    BY <1>9 DEF Settle, Goto
  <2>2. SavesProgress' /\ PageWorth'
    <3>1. "erase" \in Places \ (HarmlessPlaces \cup {"program"})
      BY DEF Places, HarmlessPlaces
    <3> QED BY <1>1, <1>2, <2>1, <3>1, Busy
  <2>3. Types'
    <3>1. /\ "erase" \in Places \ {"copy", "advance"} /\ 1 \in Cells
          /\ DefaultIP \in [Octets -> Nat]
      BY OctetCells, DefaultAddress, EnteredAddress DEF Places
    <3> QED BY <1>1, <1>2, <1>5, <2>1, <3>1, ShellTypes
  <2>4. AddressCopied'
    <3> SUFFICES ASSUME ~unsaved' PROVE AddressCopied'
      BY DEF AddressCopied
    <3>1. \A j \in Octets : SetCurrent'.ip[j] = DevIPAddressTab[j]
      BY <1>2, <1>8, <1>9 DEF Octets
    <3>2. SetCurrent'.ip = DevIPAddressTab
      BY <1>1, <1>5, <3>1 DEF Setting
    <3>3. \A v \in Levels : pc'[v] = "settle" => /\ v # w /\ pc[v] = "settle"
                                                 /\ carried'[v] = carried[v]
      BY <1>1, <2>1
    <3> QED BY <1>2, <3>2, <3>3 DEF AddressCopied
  <2> QED BY <1>7, <2>2, <2>3, <2>4
<1>10. CASE i # 4
  <2>1. next' = [next EXCEPT ![w] = i + 1] /\ UNCHANGED <<pc, carried>>
    BY <1>10 DEF Settle
  <2>2. /\ pc' = [pc EXCEPT ![w] = "settle"] /\ carried' = [carried EXCEPT ![w] = carried[w]]
        /\ i + 1 \in Octets /\ i + 1 \in Cells /\ carried[w] \in [Octets -> Nat]
    BY <1>1, <1>2, <1>10, <2>1, OctetCells DEF Octets
  <2>3. SavesProgress' /\ PageWorth'
    <3>1. "settle" \in Places \ (HarmlessPlaces \cup {"program"})
      BY DEF Places, HarmlessPlaces
    <3> QED BY <1>1, <1>2, <2>2, <3>1, Busy
  <2>4. Types'
    <3>1. "settle" \in Places \ {"copy", "advance"}
      BY DEF Places
    <3> QED BY <1>1, <1>2, <1>5, <2>1, <2>2, <3>1, ShellTypes
  <2>5. AddressCopied'
    <3> SUFFICES ASSUME ~unsaved', NEW v \in Levels, pc'[v] = "settle"
                 PROVE  /\ carried'[v] = DevIPAddressTab'
                        /\ \A j \in Octets :
                             j < next'[v] => SetCurrent'.ip[j] = DevIPAddressTab'[j]
      BY <1>2, <2>1 DEF AddressCopied
    <3>1. pc[v] = "settle" /\ carried'[v] = carried[v]
      BY <2>1
    <3>2. /\ carried[v] = DevIPAddressTab
          /\ \A j \in Octets : j < next[v] => SetCurrent.ip[j] = DevIPAddressTab[j]
      BY <1>2, <3>1 DEF AddressCopied
    <3>3. CASE v = w
      <4>1. next'[w] = i + 1
        BY <1>1, <2>1
      <4>2. \A j \in Octets : j < i + 1 => j < i \/ j = i
        BY <1>2 DEF Octets
      <4> QED BY <1>2, <1>8, <3>1, <3>2, <3>3, <4>1, <4>2
    <3>4. CASE v # w
      <4>1. next'[v] = next[v]
        BY <1>1, <2>1, <3>4
      <4> QED BY <1>2, <1>8, <3>1, <3>2, <4>1
    <3> QED BY <3>3, <3>4
  <2> QED BY <1>7, <2>3, <2>4, <2>5
<1> QED BY <1>9, <1>10

(* ShellSetEthTime. *)
LEMMA SetsTimes ==
  ASSUME IInv, NEW w \in Levels, SetEthTime(w)
  PROVE  IInv'
<1> USE DEF IInv
<1>1. /\ pc \in [Levels -> Places] /\ next \in [Levels -> Cells] /\ SetCurrent \in Setting
      /\ carried \in [Levels -> [Octets -> Nat]] /\ unsaved \in BOOLEAN
      /\ DevIPAddressTab \in [Octets -> Bytes] /\ DevNameStr \in Text
  BY DEF Types, TypeOK
<1>2. /\ Running(w) /\ pc[w] = "idle" /\ m_type' = "other"
      /\ pc' = [pc EXCEPT ![w] = "erase"]
      /\ next' = [next EXCEPT ![w] = next[w]] /\ carried' = [carried EXCEPT ![w] = carried[w]]
      /\ UNCHANGED <<flash, DevIPAddressTab, DevNameStr, next, carried, log, durable, complete,
                     strayed, unsaved>>
  BY <1>1 DEF SetEthTime, Ready, Goto, inUse, history
<1>3. /\ SetCurrent' \in Setting /\ SetCurrent'.ip = SetCurrent.ip
      /\ SetCurrent'.used = "A55A"
  <2>1. Minutes \subseteq Times /\ DefaultMinutes \in Times
    BY DEF Times
  <2>2. PICK s : /\ SetCurrent' = [s EXCEPT !.used = "A55A"]
                 /\ \/ \E m \in Minutes : s = [SetCurrent EXCEPT !.link = m]
                    \/ \E m \in Minutes : s = [SetCurrent EXCEPT !.recv = m]
                    \/ s = [SetCurrent EXCEPT !.link = DefaultMinutes,
                                              !.recv = DefaultMinutes]
    BY DEF SetEthTime
  <2>3. s \in Setting /\ s.ip = SetCurrent.ip
    BY <1>1, <2>1, <2>2 DEF Setting
  <2> QED BY <2>2, <2>3 DEF Setting
<1>4. SavesProgress' /\ PageWorth'
  <2>1. "erase" \in Places \ (HarmlessPlaces \cup {"program"})
    BY DEF Places, HarmlessPlaces
  <2> QED BY <1>1, <1>2, <2>1, Busy
<1>5. Types'
  <2>1. /\ next[w] \in Cells /\ carried[w] \in [Octets -> Nat]
        /\ m_type' \in Commands /\ pc[w] \notin {"copy", "advance"}
        /\ DevIPAddressTab' \in [Octets -> Bytes] /\ DevNameStr' \in Text
        /\ unsaved' \in BOOLEAN
    BY <1>1, <1>2 DEF Commands
  <2>2. PICK p \in {"erase"} : p \in Places \ {"copy", "advance"}
    BY DEF Places
  <2>3. PICK n \in Cells, a \in [Octets -> Nat] :
          next' = [next EXCEPT ![w] = n] /\ carried' = [carried EXCEPT ![w] = a]
    BY <1>2, <2>1
  <2>4. /\ pc' = [pc EXCEPT ![w] = p] /\ p \notin {"octet", "settle"}
        /\ UNCHANGED <<flash, log, durable, complete, strayed>>
    BY <1>2, <2>2
  <2> QED BY <1>3, <2>1, <2>2, <2>3, <2>4, ShellTypes
<1>6. \A v \in Levels : pc'[v] = "settle" <=> pc[v] = "settle"
  BY <1>1, <1>2
<1>7. AddressesMarked'
  BY <1>2, <1>3 DEF AddressesMarked, IPCHECK
<1>8. AddressCopied'
  BY <1>2, <1>3, <1>6 DEF AddressCopied, Worth, IPCHECK
<1> QED BY <1>4, <1>5, <1>7, <1>8


(* DataBase_Write opens: the page is blank. *)
LEMMA Erases ==
  ASSUME IInv, NEW w \in Levels, ErasePage(w)
  PROVE  IInv'
<1> USE DEF IInv
<1>1. /\ Running(w) /\ pc[w] = "erase" /\ flash' = BlankPage
      /\ pc' = [pc EXCEPT ![w] = "program"] /\ next' = [next EXCEPT ![w] = 1]
      /\ UNCHANGED <<SetCurrent, DevIPAddressTab, DevNameStr, m_type, carried, log, durable,
                     strayed, unsaved>>
      /\ complete' = FALSE
  BY DEF ErasePage, Goto, inUse
<1>2. /\ pc \in [Levels -> Places] /\ next \in [Levels -> Cells] /\ 1 \in Cells
      /\ pc'[w] = "program" /\ next'[w] = 1
      /\ "program" \in Places \ HarmlessPlaces
      /\ \A v \in Levels : v # w => pc'[v] = pc[v] /\ next'[v] = next[v]
  BY <1>1, CellNumbers DEF Types, TypeOK, Places, HarmlessPlaces
<1>3. PageOK(BlankPage) /\ \A c \in Cells : BlankPage[c] = Erased
  BY BlankAddress DEF BlankPage
<1>4. Types'
  <2>1. PageOK(flash)'
    BY <1>1, <1>3 DEF PageOK, CellValues, Cells, NCells
  <2>2. /\ pc' \in [Levels -> Places] /\ next' \in [Levels -> Cells]
        /\ \A v \in Levels : v # w => pc'[v] = pc[v] /\ next'[v] = next[v]
    BY <1>1, <1>2
  <2>3. \A v \in Levels :
          /\ pc'[v] \in {"octet", "settle"} => next'[v] \in Octets
          /\ pc'[v] = "settle" => carried'[v] \in [Octets -> Bytes]
          /\ v # 0 => pc'[v] \notin {"copy", "advance"}
          /\ pc'[v] \in {"copy", "advance"} => pc[v] = pc'[v]
    BY <1>1, <1>2, <2>2 DEF Types, TypeOK
  <2> QED BY <1>1, <2>1, <2>2, <2>3, StoreAssumption DEF Types, TypeOK
<1>5. SavesProgress'
  <2> SUFFICES ASSUME NEW v \in Levels, Undisturbed(v)', pc'[v] = "program"
               PROVE  Progress(v)'
    BY DEF SavesProgress
  <2>1. v = w
    BY <1>1, <1>2, OnlyOneRuns
  <2> QED BY <1>1, <1>2, <1>3, <2>1 DEF Progress, Cells
<1>6. \A v \in Levels : /\ pc'[v] = "settle" <=> pc[v] = "settle"
                        /\ pc'[v] = "settle" => next'[v] = next[v]
  BY <1>1, <1>2
<1>7. AddressesMarked'
  BY <1>1, <1>6, BlankAddress DEF AddressesMarked, IPCHECK
<1>8. AddressCopied'
  BY <1>1, <1>6 DEF AddressCopied, Worth, IPCHECK
<1>9. PageWorth'
  BY <1>2 DEF PageWorth, Quiet, Harmless
<1> QED BY <1>4, <1>5, <1>7, <1>8, <1>9

(* One more cell: the page agrees with the RAM one cell further, and where *)
(* it does not yet, it is erased.                                          *)
LEMMA OneMoreCell ==
  ASSUME IInv, NEW w \in Levels, ProgramCell(w)
  PROVE  /\ flash' = [c \in Cells |-> flash'[c]] /\ next[w] \in Nat
         /\ Progress(w) /\ flash = [c \in Cells |-> flash[c]]
         /\ flash' = [flash EXCEPT ![next[w]] =
                        IF @ = Erased THEN Image(SetCurrent)[next[w]] ELSE @]
         /\ \A c \in 1 .. next[w] : flash'[c] = Image(SetCurrent)[c]
         /\ \A c \in Cells : flash'[c] \in {Erased, Image(SetCurrent)[c]}
<1> DEFINE n == next[w]
           img == Image(SetCurrent)
<1> USE DEF IInv
<1>1. /\ Running(w) /\ pc[w] = "program" /\ n \in Cells
      /\ flash' = [flash EXCEPT ![n] = IF @ = Erased THEN img[n] ELSE @]
  BY DEF ProgramCell, Types, TypeOK
<1>2. Undisturbed(w)
  BY <1>1 DEF Running, Undisturbed, Harmless, HarmlessPlaces
<1>3. Progress(w) /\ flash = [c \in Cells |-> flash[c]]
  BY <1>1, <1>2 DEF SavesProgress, Types, TypeOK, PageOK
<1>4. /\ flash' = [c \in Cells |-> flash'[c]]
      /\ flash'[n] = IF flash[n] = Erased THEN img[n] ELSE flash[n]
      /\ \A c \in Cells : c # n => flash'[c] = flash[c]
  BY <1>1, <1>3
<1>5. n \in Nat /\ Cells = 1 .. 7 + MAXNUM /\ 1..n \subseteq Cells
  BY <1>1, CellNumbers, QueueSize
<1>6. flash'[n] = img[n]
  <2>1. flash[n] \in {Erased, img[n]}
    BY <1>1, <1>3, <1>5 DEF Progress
  <2> QED BY <1>4, <2>1
<1>7. \A c \in Cells : flash[c] \in {Erased, img[c]}
  BY <1>3, <1>5, QueueSize DEF Progress
<1>8. \A c \in 1..n : c # n => flash[c] = img[c]
  BY <1>3, <1>5 DEF Progress
<1> QED BY <1>1, <1>3, <1>4, <1>5, <1>6, <1>7, <1>8

(* After the last one it agrees everywhere. *)
LEMMA LastOfAll ==
  ASSUME IInv, NEW w \in Levels, ProgramCell(w), LastCell(next[w])
  PROVE  flash' = Image(SetCurrent)
<1>1. Cells = 1 .. next[w]
  BY CellNumbers, QueueSize DEF LastCell, NCells
<1>2. \A c \in Cells : flash'[c] = Image(SetCurrent)[c]
  BY <1>1, OneMoreCell
<1>3. Image(SetCurrent) = [c \in Cells |-> Image(SetCurrent)[c]]
  BY ImageCells
<1> QED BY <1>2, <1>3, OneMoreCell

(* An address that can be used while a page is being programmed is the one *)
(* in the RAM, and its mark is there.                                      *)
LEMMA ProgrammedAddress ==
  ASSUME IInv, NEW page, NEW n \in Cells,
         \A c \in Cells : page[c] \in {Erased, Image(SetCurrent)[c]},
         page[1] = Image(SetCurrent)[1], IPCHECK(DataBase_read(page).ip)
  PROVE  /\ DataBase_read(page).ip = SetCurrent.ip
         /\ IPCHECK(SetCurrent.ip) /\ page[1] = "A55A"
<1> DEFINE img == Image(SetCurrent)
           ip == DataBase_read(page).ip
<1>1. SetCurrent \in Setting
  BY DEF IInv, Types, TypeOK
<1>2. /\ ip = [i \in Octets |-> IF i <= 2 THEN Byte(page[2], i) ELSE Byte(page[3], i - 2)]
      /\ DataBase_read(img).ip =
           [i \in Octets |-> IF i <= 2 THEN Byte(img[2], i) ELSE Byte(img[3], i - 2)]
  BY DEF DataBase_read
<1>3. page[2] # Erased /\ page[3] # Erased
  <2>1. 1 \in Octets /\ 3 \in Octets
    BY DEF Octets
  <2>2. ip[1] = Byte(page[2], 1) /\ ip[3] = Byte(page[3], 1)
    BY <1>2, <2>1
  <2>3. ip[1] # Unset /\ ip[3] # Unset
    BY <2>1 DEF IPCHECK
  <2> QED BY <2>2, <2>3 DEF Byte
<1>4. page[2] = img[2] /\ page[3] = img[3]
  BY <1>3, CellNumbers
<1>5. ip = SetCurrent.ip
  <2>1. ip = DataBase_read(img).ip
    BY <1>2, <1>4
  <2> QED BY <1>1, <2>1, AddressRead
<1>6. img[1] = SetCurrent.used
  BY ImageCells
<1> QED BY <1>5, <1>6 DEF IInv, AddressesMarked

LEMMA Programs ==
  ASSUME IInv, NEW w \in Levels, ProgramCell(w)
  PROVE  IInv'
<1> DEFINE n == next[w]
           img == Image(SetCurrent)
<1> USE DEF IInv
<1>1. /\ Running(w) /\ pc[w] = "program" /\ n \in Cells
      /\ pc \in [Levels -> Places] /\ next \in [Levels -> Cells] /\ SetCurrent \in Setting
      /\ UNCHANGED <<SetCurrent, DevIPAddressTab, DevNameStr, m_type, carried, log, strayed,
                     unsaved>>
  BY DEF ProgramCell, Types, TypeOK, inUse
<1>2. /\ flash' = [c \in Cells |-> flash'[c]] /\ n \in Nat
      /\ \A c \in 1..n : flash'[c] = img[c]
      /\ \A c \in Cells : flash'[c] \in {Erased, img[c]}
  BY OneMoreCell
<1>3. PageOK(flash')
  <2>1. \A c \in Cells : Erased \in CellValues(c) /\ img[c] \in CellValues(c)
    BY <1>1, BlankType, ImageType
  <2> QED BY <1>2, <2>1 DEF PageOK
<1>4. PageOK(flash)'
  BY <1>3 DEF PageOK, CellValues, Cells, NCells
<1>5. IPCHECK(DataBase_read(flash').ip) => flash'[1] = "A55A"
  <2>1. 1 \in 1..n
    BY <1>1, CellNumbers, QueueSize
  <2> QED BY <1>1, <1>2, <2>1, ProgrammedAddress
<1>6. CASE LastCell(n)
  <2>1. /\ pc' = [pc EXCEPT ![w] = "idle"] /\ next' = [next EXCEPT ![w] = 1]
        /\ durable' = log /\ complete' = TRUE
    BY <1>6 DEF ProgramCell, Goto
  <2>2. flash' = img
    BY <1>6, LastOfAll
  <2>3. /\ pc' \in [Levels -> Places] /\ next' \in [Levels -> Cells]
        /\ pc'[w] = "idle"
        /\ \A v \in Levels : v # w => pc'[v] = pc[v] /\ next'[v] = next[v]
    BY <1>1, <2>1, CellNumbers DEF Places
  <2>4. \A v \in Levels :
          /\ pc'[v] = "settle" <=> pc[v] = "settle"
          /\ pc'[v] = "settle" => next'[v] = next[v]
          /\ pc'[v] \in {"octet", "settle"} => next'[v] \in Octets
          /\ pc'[v] = "settle" => carried'[v] \in [Octets -> Bytes]
          /\ v # 0 => pc'[v] \notin {"copy", "advance"}
          /\ pc'[v] \in {"copy", "advance"} => pc[v] = pc'[v]
    BY <1>1, <2>3 DEF Types, TypeOK
  <2>5. Types'
    BY <1>1, <1>4, <2>1, <2>3, <2>4, StoreAssumption DEF Types, TypeOK
  <2>6. SavesProgress'
    BY <1>1, <2>2 DEF SavesProgress, Progress
  <2>7. PageWorth'
    BY <1>1, <2>2, RoundTrip DEF PageWorth
  <2>8. AddressesMarked'
    BY <1>1, <1>5, <2>4 DEF AddressesMarked, IPCHECK
  <2>9. AddressCopied'
    BY <1>1, <2>4 DEF AddressCopied, Worth, IPCHECK
  <2> QED BY <2>5, <2>6, <2>7, <2>8, <2>9
<1>7. CASE ~LastCell(n)
  <2>1. /\ next' = [next EXCEPT ![w] = n + 1] /\ UNCHANGED <<pc, durable, complete>>
    BY <1>7 DEF ProgramCell
  <2>2. n + 1 \in Cells
    BY <1>1, <1>7, CellNumbers, QueueSize DEF LastCell, NCells
  <2>3. /\ next' \in [Levels -> Cells] /\ next'[w] = n + 1
        /\ \A v \in Levels : v # w => next'[v] = next[v]
    BY <1>1, <2>1, <2>2
  <2>4. \A v \in Levels :
          /\ pc'[v] = "settle" <=> pc[v] = "settle"
          /\ pc'[v] = "settle" => next'[v] = next[v]
          /\ pc'[v] \in {"octet", "settle"} => next'[v] \in Octets
          /\ pc'[v] = "settle" => carried'[v] \in [Octets -> Bytes]
    BY <1>1, <2>1, <2>3 DEF Types, TypeOK
  <2>5. Types'
    BY <1>1, <1>4, <2>1, <2>3, <2>4 DEF Types, TypeOK
  <2>6. SavesProgress'
    <3> SUFFICES ASSUME NEW v \in Levels, Undisturbed(v)', pc'[v] = "program"
                 PROVE  Progress(v)'
      BY DEF SavesProgress
    <3>1. pc' = [pc EXCEPT ![w] = "program"] /\ "program" \in Places \ HarmlessPlaces
      BY <1>1, <2>1 DEF Places, HarmlessPlaces
    <3>2. v = w
      BY <1>1, <3>1, OnlyOneRuns
    <3>3. Progress(w)'
      BY <1>1, <1>2, <2>3, CellNumbers, QueueSize DEF Progress
    <3> QED BY <3>2, <3>3
  <2>7. PageWorth'
    BY <1>1, <2>1 DEF PageWorth, Quiet, Harmless, HarmlessPlaces
  <2>8. AddressesMarked'
    BY <1>1, <1>5, <2>4 DEF AddressesMarked, IPCHECK
  <2>9. AddressCopied'
    BY <1>1, <2>4 DEF AddressCopied, Worth, IPCHECK
  <2> QED BY <2>5, <2>6, <2>7, <2>8, <2>9
<1> QED BY <1>6, <1>7

(* Power fails: whatever the page holds is what the board starts from. *)
LEMMA Restarts ==
  ASSUME IInv, PowerCycle
  PROVE  IInv'
<1> DEFINE r == DataBase_read(flash)
<1> USE DEF IInv
<1>1. /\ SetCurrent' = Sanitised(r) /\ DevIPAddressTab' = BootAddress(r)
      /\ DevNameStr' = BootName(r) /\ m_type' = "other" /\ UNCHANGED flash
      /\ pc' = [w \in Levels |-> "idle"] /\ next' = [w \in Levels |-> 1]
      /\ carried' = [w \in Levels |-> DefaultIP]
      /\ log' = (IF complete THEN durable ELSE <<>>) /\ durable' = log'
      /\ complete' = TRUE /\ strayed' = FALSE /\ unsaved' = FALSE
  BY DEF PowerCycle, Boot
<1>2. SetCurrent' \in Setting
  BY <1>1, ReadType DEF Types, TypeOK
<1>3. /\ r.used = flash[1] /\ r.name = flash[4]
      /\ Sanitised(r).used = r.used /\ Sanitised(r).ip = r.ip
  BY DEF DataBase_read, Sanitised
<1>4. \A w \in Levels : pc'[w] = "idle"
  BY <1>1
<1>5. AddressesMarked'
  BY <1>1, <1>3, <1>4 DEF AddressesMarked, IPCHECK
<1>6. DevIPAddressTab' = Worth(r.ip)
  BY <1>1, <1>3 DEF BootAddress, Worth, AddressesMarked
<1>7. AddressCopied'
  BY <1>1, <1>3, <1>4, <1>6, DefaultAddress DEF AddressCopied, Worth, IPCHECK
<1>8. DevIPAddressTab' \in [Octets -> Bytes]
  BY <1>1, <1>2, <1>3, <1>6, DefaultAddress DEF Worth, Setting
<1>9. Types'
  <2>1. PageOK(flash)'
    BY <1>1 DEF Types, TypeOK, PageOK, CellValues, Cells, NCells
  <2>2. flash[4] \in Text /\ 1 \in Cells /\ 0 \in Levels /\ MaxRecords \in Nat
    <3>1. 4 \in Cells /\ 1 \in Cells
      BY CellNumbers
    <3> QED BY <3>1, CellKinds, StoreAssumption DEF Types, TypeOK, PageOK
  <2>3. DevNameStr' \in Text
    BY <1>1, <1>3, <2>2 DEF BootName, Text
  <2>4. log' \in Seq(1..MaxRecords) /\ Len(log') <= MaxRecords
    <3>1. CASE complete
      BY <1>1, <3>1 DEF Types, TypeOK
    <3>2. CASE ~complete
      BY <1>1, <2>2, <3>2
    <3> QED BY <3>1, <3>2
  <2>5. DefaultIP \in [Octets -> Nat]
    BY DefaultAddress, EnteredAddress
  <2> QED BY <1>1, <1>2, <1>4, <1>8, <2>1, <2>2, <2>3, <2>4, <2>5
         DEF Types, TypeOK, Places, Commands
<1>10. PageWorth'
  <2>1. Sanitised(Sanitised(r)) = Sanitised(r)
    BY SanitisedOnce DEF DataBase_read
  <2> QED BY <1>1, <2>1 DEF PageWorth
<1>11. SavesProgress'
  BY <1>4 DEF SavesProgress
<1> QED BY <1>5, <1>7, <1>9, <1>10, <1>11

LEMMA Inductive == IInv /\ [Next]_vars => IInv'
<1> SUFFICES ASSUME IInv, [Next]_vars PROVE IInv'
  OBVIOUS
<1>1. CASE Enqueue
  BY <1>1, Enqueues
<1>2. ASSUME NEW w \in Levels, Shell(w) PROVE IInv'
  BY <1>2, ReadsLine, Settings, Settles, SetsTimes DEF Shell
<1>3. ASSUME NEW w \in Levels, DataBase_Write(w) PROVE IInv'
  BY <1>3, Erases, Programs DEF DataBase_Write
<1>4. CASE PowerCycle
  BY <1>4, Restarts
<1>5. CASE UNCHANGED vars
  BY <1>5 DEF vars, store, inUse, saving, history, IInv, Types, TypeOK, PageOK, SavesProgress,
              Undisturbed, Harmless, Quiet, Progress, PageWorth, AddressesMarked, AddressCopied,
              Worth, IPCHECK
<1> QED BY <1>1, <1>2, <1>3, <1>4, <1>5 DEF Next

LEMMA Invariant == Spec => []IInv
BY Initially, Inductive, PTL DEF Spec

-----------------------------------------------------------------------------
(* The queue length and position stay in the queue, and only the main loop *)
(* enqueues.                                                               *)
THEOREM TypeCorrect == Spec => []TypeOK
<1>1. IInv => TypeOK
  BY DEF IInv, Types
<1> QED BY <1>1, Invariant, PTL

(* However the saves of the levels cut into one another, when none is      *)
(* under way a power failure would bring back the settings, and an address *)
(* in use whose every octet has been copied since it was entered.          *)
THEOREM Durability == Spec => []IdleMeansDurable
<1>1. IInv => IdleMeansDurable
  <2> SUFFICES ASSUME IInv, Idle PROVE IdleMeansDurable
    BY DEF IdleMeansDurable
  <2> DEFINE r == DataBase_read(flash)
  <2>1. Quiet /\ \A w \in Levels : pc[w] # "settle"
    BY DEF Idle, Quiet, Harmless, HarmlessPlaces
  <2>2. Sanitised(r) = Sanitised(SetCurrent)
    BY <2>1 DEF IInv, PageWorth
  <2>3. r.ip = SetCurrent.ip /\ r.used = flash[1]
    <3>1. Sanitised(r).ip = r.ip /\ Sanitised(SetCurrent).ip = SetCurrent.ip
      BY DEF Sanitised, DataBase_read, IInv, Types, TypeOK, Setting
    <3> QED BY <2>2, <3>1 DEF DataBase_read
  <2>4. BootAddress(r) = Worth(SetCurrent.ip)
    BY <2>3 DEF BootAddress, Worth, IInv, AddressesMarked
  <2>5. ~unsaved => Worth(SetCurrent.ip) = Worth(DevIPAddressTab)
    BY <2>1 DEF IInv, AddressCopied
  <2> QED BY <2>2, <2>4, <2>5 DEF IdleMeansDurable
<1> QED BY <1>1, Invariant, PTL

(* Every step of the station is one that AddressStore allows. *)
LEMMA AddressStep ==
  ASSUME IInv, [Next]_vars
  PROVE  [Address!AddressNext]_Address!address_vars
<1> DEFINE kept == BootAddress(DataBase_read(flash))
<1> USE DEF Address!AddressNext, Address!Enter, Address!Copy, Address!Forget, Address!Save,
            Address!PowerFails, Address!address_vars
<1>0. /\ SetCurrent \in Setting /\ DevIPAddressTab \in [Octets -> Bytes]
      /\ \A ip : Address!OrDefault(ip) = Worth(ip)
  BY DEF IInv, Types, TypeOK, Address!OrDefault, Address!Usable, Worth, IPCHECK
<1>1. ASSUME UNCHANGED <<flash, DevIPAddressTab>>, SetCurrent'.ip = SetCurrent.ip
      PROVE  UNCHANGED Address!address_vars
  BY <1>1
<1>2. CASE Enqueue
  <2>1. SetCurrent'.ip = SetCurrent.ip
    BY <1>0, <1>2 DEF Enqueue, EnqueueCount, EnqueueCopy, EnqueueAdvance, Setting
  <2> QED BY <1>1, <1>2, <2>1 DEF Enqueue, EnqueueCount, EnqueueCopy, EnqueueAdvance, inUse
<1>3. CASE UNCHANGED vars
  BY <1>3 DEF vars, store, inUse
<1>4. ASSUME NEW w \in Levels, Ask(w) \/ EnterAddress(w) \/ EnterName(w)
      PROVE  UNCHANGED Address!address_vars
  BY <1>1, <1>4 DEF Ask, EnterAddress, EnterName, store, inUse
<1>5. ASSUME NEW w \in Levels, CmdSetting(w)
      PROVE  UNCHANGED Address!address_vars
  <2>1. SetCurrent'.ip = SetCurrent.ip
    BY <1>0, <1>5 DEF CmdSetting, Setting
  <2> QED BY <1>1, <1>5, <2>1 DEF CmdSetting, inUse
<1>6. ASSUME NEW w \in Levels, SetEthTime(w)
      PROVE  UNCHANGED Address!address_vars
  <2>1. SetCurrent'.ip = SetCurrent.ip
    BY <1>0, <1>6 DEF SetEthTime, Setting
  <2> QED BY <1>1, <1>6, <2>1 DEF SetEthTime, inUse
<1>7. ASSUME NEW w \in Levels, EnterOctet(w)
      PROVE  Address!Enter \/ UNCHANGED Address!address_vars
  <2>1. /\ next[w] \in Octets /\ carried[w][next[w]] \in Nat
        /\ UNCHANGED <<SetCurrent, flash>>
    BY <1>7 DEF EnterOctet, IInv, Types, TypeOK, store
  <2>2. CASE UNCHANGED DevIPAddressTab
    BY <1>1, <2>1, <2>2
  <2>3. CASE /\ carried[w][next[w]] <= 255
             /\ DevIPAddressTab' = [DevIPAddressTab EXCEPT ![next[w]] = carried[w][next[w]]]
    <3>1. carried[w][next[w]] \in Bytes
      BY <2>1, <2>3 DEF Bytes, Unset
    <3> QED BY <2>1, <2>3, <3>1
  <2> QED BY <1>7, <2>2, <2>3 DEF EnterOctet
<1>8. ASSUME NEW w \in Levels, Settle(w)
      PROVE  Address!Copy
  <2>1. /\ next[w] \in Octets /\ carried[w] \in [Octets -> Bytes]
        /\ UNCHANGED <<DevIPAddressTab, flash>>
    BY <1>8 DEF Settle, IInv, Types, TypeOK, inUse
  <2>2. PICK octet \in {carried[w][next[w]], DevIPAddressTab[next[w]]} :
          SetCurrent' = [SetCurrent EXCEPT !.ip[next[w]] = octet]
    BY <1>8 DEF Settle
  <2>3. octet \in Bytes
    BY <1>0, <2>1, <2>2
  <2>4. SetCurrent'.ip = [SetCurrent.ip EXCEPT ![next[w]] = octet]
    BY <1>0, <2>2 DEF Setting
  <2> QED BY <2>1, <2>3, <2>4
<1>9. ASSUME NEW w \in Levels, ErasePage(w)
      PROVE  Address!Forget
  <2>1. flash' = BlankPage /\ UNCHANGED <<DevIPAddressTab, SetCurrent>>
    BY <1>9 DEF ErasePage, inUse
  <2> QED BY <2>1, BlankAddress DEF BootAddress
<1>10. ASSUME NEW w \in Levels, ProgramCell(w)
       PROVE  Address!Save \/ UNCHANGED Address!address_vars
  <2> DEFINE n == next[w]
             img == Image(SetCurrent)
             ip == DataBase_read(flash).ip
             ip2 == DataBase_read(flash').ip
  <2>1. /\ n \in Cells /\ 1 \in 1..n /\ 1 \in Cells
        /\ UNCHANGED <<SetCurrent, DevIPAddressTab>>
    BY <1>10, CellNumbers, QueueSize DEF ProgramCell, IInv, Types, TypeOK, inUse
  <2>2. /\ flash' = [flash EXCEPT ![n] = IF @ = Erased THEN img[n] ELSE @]
        /\ \A c \in 1..n : flash'[c] = img[c]
        /\ \A c \in Cells : flash'[c] \in {Erased, img[c]}
        /\ flash = [c \in Cells |-> flash[c]] /\ Progress(w) /\ n \in Nat
    BY <1>10, OneMoreCell
  <2>3. kept = Worth(ip)
    BY DEF BootAddress, Worth, DataBase_read, IInv, AddressesMarked
  <2>4. kept' = Worth(ip2)
    <3>1. IInv'
      BY <1>10, Programs
    <3> QED BY <3>1 DEF BootAddress, Worth, IPCHECK, DataBase_read, IInv, AddressesMarked
  <2>5. CASE ~IPCHECK(ip2)
    <3>1. kept' = DefaultIP
      BY <2>4, <2>5 DEF Worth
    <3>2. CASE ~IPCHECK(ip)
      BY <2>1, <2>3, <3>1, <3>2 DEF Worth
    <3>3. CASE IPCHECK(ip)
      <4>1. flash[2] # Erased /\ flash[3] # Erased
        <5>1. 1 \in Octets /\ 3 \in Octets
          BY DEF Octets
        <5>2. ip[1] = Byte(flash[2], 1) /\ ip[3] = Byte(flash[3], 1)
          BY <5>1 DEF DataBase_read
        <5>3. ip[1] # Unset /\ ip[3] # Unset
          BY <3>3, <5>1 DEF IPCHECK
        <5> QED BY <5>2, <5>3 DEF Byte
      <4>2. flash'[2] = flash[2] /\ flash'[3] = flash[3]
        BY <2>2, <4>1, CellNumbers
      <4>3. ip2 = ip
        BY <4>2 DEF DataBase_read
      <4> QED BY <2>5, <3>3, <4>3
    <3> QED BY <3>2, <3>3
  <2>6. CASE IPCHECK(ip2)
    <3>1. ip2 = SetCurrent.ip
      BY <2>1, <2>2, <2>6, ProgrammedAddress
    <3>2. kept' = Worth(SetCurrent.ip)
      BY <2>4, <3>1
    <3>3. CASE ~IPCHECK(ip)
      BY <1>0, <2>1, <2>3, <3>2, <3>3 DEF Worth
    <3>4. CASE IPCHECK(ip)
      <4>1. flash[2] # Erased /\ flash[3] # Erased
        <5>1. 1 \in Octets /\ 3 \in Octets
          BY DEF Octets
        <5>2. ip[1] = Byte(flash[2], 1) /\ ip[3] = Byte(flash[3], 1)
          BY <5>1 DEF DataBase_read
        <5>3. ip[1] # Unset /\ ip[3] # Unset
          BY <3>4, <5>1 DEF IPCHECK
        <5> QED BY <5>2, <5>3 DEF Byte
      <4>2. flash'[2] = flash[2] /\ flash'[3] = flash[3]
        BY <2>2, <4>1, CellNumbers
      <4>3. ip2 = ip
        BY <4>2 DEF DataBase_read
      <4> QED BY <2>1, <2>3, <2>4, <4>3
    <3> QED BY <3>3, <3>4
  <2> QED BY <2>5, <2>6
<1>11. CASE PowerCycle
  <2>1. /\ DevIPAddressTab' = kept /\ UNCHANGED flash
        /\ SetCurrent' = Sanitised(DataBase_read(flash))
    BY <1>11 DEF PowerCycle, Boot
  <2>2. SetCurrent'.ip = DataBase_read(flash).ip
    BY <2>1 DEF Sanitised, DataBase_read
  <2>3. Worth(DataBase_read(flash).ip) = kept
    BY DEF BootAddress, Worth, DataBase_read, IInv, AddressesMarked
  <2> QED BY <1>0, <2>1, <2>2, <2>3
<1> QED BY <1>2, <1>3, <1>4, <1>5, <1>6, <1>7, <1>8, <1>9, <1>10, <1>11
        DEF Next, Shell, DataBase_Write

(* The station implements AddressStore: what a power failure would bring   *)
(* back changes only as a whole, although the address in use, the one in   *)
(* the settings and the page all change piece by piece.                    *)
THEOREM AddressRefinement == Spec => AddressKept
<1>1. Init => Address!AddressInit
  <2> SUFFICES ASSUME Init PROVE Address!AddressInit
    OBVIOUS
  <2>1. flash = BlankPage /\ DevIPAddressTab = DefaultIP
        /\ SetCurrent = Sanitised(DataBase_read(BlankPage))
    BY DEF Init
  <2>2. SetCurrent.ip = DataBase_read(BlankPage).ip
    BY <2>1 DEF Sanitised, DataBase_read
  <2> QED BY <2>1, <2>2, BlankAddress
          DEF BootAddress, Address!AddressInit, Address!Usable, IPCHECK
<1> QED BY <1>1, AddressStep, Invariant, PTL DEF Spec, AddressKept, Address!AddressSpec

-----------------------------------------------------------------------------
(* The queue.  QueueHoldsLast is not inductive either: a record is in its  *)
(* slot before the position moves on, and a power failure brings back the  *)
(* queue of the page, which must then be the queue of the records that the *)
(* last finished save had seen.  A page that is complete is not changed by *)
(* an interrupted save that goes on: it equals the RAM already.            *)

(* The slot j places behind position pos. *)
Behind(pos, j) == (pos + MAXNUM - j) % MAXNUM

Recent(queue, pos, n) ==
  \A j \in 1 .. MAXNUM - 1 : j <= n => queue[Behind(pos, j)] = n + 1 - j

(* A queue and position that go with n records. *)
Holds(queue, pos, n) == Recent(queue, pos, n) /\ (pos = Unset => n = 0)

RecordInSlot ==
  pc[0] = "advance" /\ SetCurrent.insrt_pos \in Slots
    => SetCurrent.queue[SetCurrent.insrt_pos] = Len(log) + 1

PageHolds ==
  complete =>
    Holds(DataBase_read(flash).queue, DataBase_read(flash).insrt_pos, Len(durable))

PageSettled ==
  complete =>
    \A w \in Levels : Undisturbed(w) /\ pc[w] = "program" => flash = Image(SetCurrent)

QInv ==
  /\ Holds(SetCurrent.queue, SetCurrent.insrt_pos, Len(log))
  /\ RecordInSlot /\ PageHolds /\ PageSettled

LEMMA Wraps ==
  ASSUME NEW m \in Nat \ {0}, NEW a \in 0 .. m - 1
  PROVE  a % m = a /\ (a + m) % m = a
<1>1. a % m = a
  BY SMT
<1>2. (a + m) % m = a
  BY SMT
<1> QED BY <1>1, <1>2

LEMMA BehindSlot ==
  ASSUME NEW pos \in Slots, NEW j \in 1 .. MAXNUM - 1
  PROVE  Behind(pos, j) = IF j <= pos THEN pos - j ELSE (pos + MAXNUM) - j
<1>1. MAXNUM \in Nat \ {0} /\ pos \in 0 .. MAXNUM - 1
  BY QueueSize, CellNumbers
<1>2. CASE j <= pos
  <2>1. pos - j \in 0 .. MAXNUM - 1 /\ (pos + MAXNUM) - j = (pos - j) + MAXNUM
    BY <1>1, <1>2
  <2> QED BY <1>1, <1>2, <2>1, Wraps DEF Behind
<1>3. CASE ~(j <= pos)
  <2>1. (pos + MAXNUM) - j \in 0 .. MAXNUM - 1
    BY <1>1, <1>3
  <2> QED BY <1>1, <1>3, <2>1, Wraps DEF Behind
<1> QED BY <1>2, <1>3

LEMMA AdvancedSlot ==
  ASSUME NEW pos \in Slots
  PROVE  Advanced(pos) = IF pos = MAXNUM - 1 THEN 0 ELSE pos + 1
<1>1. MAXNUM \in Nat \ {0} /\ pos \in 0 .. MAXNUM - 1
  BY QueueSize, CellNumbers
<1>2. CASE pos = MAXNUM - 1
  <2>1. 0 \in 0 .. MAXNUM - 1 /\ pos + 1 = 0 + MAXNUM
    BY <1>1, <1>2
  <2> QED BY <1>1, <1>2, <2>1, Wraps DEF Advanced
<1>3. CASE pos # MAXNUM - 1
  <2>1. pos + 1 \in 0 .. MAXNUM - 1
    BY <1>1, <1>3
  <2> QED BY <1>1, <1>3, <2>1, Wraps DEF Advanced
<1> QED BY <1>2, <1>3

(* The slot at the position is none of those behind it, so it may be       *)
(* filled; from the next position it is the one just behind.               *)
LEMMA OneMore ==
  ASSUME NEW queue, NEW pos \in Slots, NEW n \in Nat,
         Recent(queue, pos, n), queue[pos] = n + 1
  PROVE  Recent(queue, Advanced(pos), n + 1)
<1> DEFINE new == Advanced(pos)
<1>1. MAXNUM \in Nat \ {0} /\ pos \in 0 .. MAXNUM - 1
  BY QueueSize, CellNumbers
<1>2. new \in Slots /\ new = IF pos = MAXNUM - 1 THEN 0 ELSE pos + 1
  BY <1>1, AdvancedSlot, CellNumbers
<1> SUFFICES ASSUME NEW j \in 1 .. MAXNUM - 1, j <= n + 1
             PROVE  queue[Behind(new, j)] = (n + 1) + 1 - j
  BY DEF Recent
<1> HIDE DEF new
<1>3. CASE j = 1
  <2>1. Behind(new, j) = pos
    BY <1>1, <1>2, <1>3, BehindSlot
  <2> QED BY <1>3, <2>1
<1>4. CASE j # 1
  <2>1. j - 1 \in 1 .. MAXNUM - 1 /\ j - 1 <= n
    BY <1>1, <1>4
  <2>2. Behind(new, j) = Behind(pos, j - 1)
    BY <1>1, <1>2, <1>4, <2>1, BehindSlot
  <2>3. queue[Behind(pos, j - 1)] = n + 1 - (j - 1)
    BY <2>1 DEF Recent
  <2> QED BY <2>2, <2>3, <1>1
<1> QED BY <1>3, <1>4

LEMMA SlotApart ==
  ASSUME NEW queue, NEW pos \in Slots, NEW n \in Nat, NEW x, Recent(queue, pos, n),
         queue = [i \in Slots |-> queue[i]]
  PROVE  Recent([queue EXCEPT ![pos] = x], pos, n)
<1> SUFFICES ASSUME NEW j \in 1 .. MAXNUM - 1, j <= n
             PROVE  [queue EXCEPT ![pos] = x][Behind(pos, j)] = n + 1 - j
  BY DEF Recent
<1>1. Behind(pos, j) \in Slots /\ Behind(pos, j) # pos
  <2>1. MAXNUM \in Nat /\ pos \in 0 .. MAXNUM - 1 /\ Slots = 0 .. MAXNUM - 1
    BY QueueSize, CellNumbers
  <2>2. Behind(pos, j) = IF j <= pos THEN pos - j ELSE (pos + MAXNUM) - j
    BY BehindSlot
  <2> QED BY <2>1, <2>2
<1>2. queue[Behind(pos, j)] = n + 1 - j
  BY DEF Recent
<1> QED BY <1>1, <1>2

LEMMA NoRecords == ASSUME NEW queue, NEW pos PROVE Holds(queue, pos, 0)
BY DEF Holds, Recent

(* The queue comes back from the page. *)
LEMMA QueueRead ==
  ASSUME NEW s \in Setting
  PROVE  /\ DataBase_read(Image(s)).queue = s.queue
         /\ DataBase_read(Image(s)).insrt_pos = s.insrt_pos
BY RoundTrip

LEMMA QueueInit == Init => QInv
<1> SUFFICES ASSUME Init PROVE QInv
  OBVIOUS
<1>1. Len(log) = 0 /\ Len(durable) = 0 /\ \A w \in Levels : pc[w] = "idle"
  BY DEF Init
<1>2. 0 \in Levels
  BY StoreAssumption
<1> QED BY <1>1, <1>2, NoRecords DEF QInv, RecordInSlot, PageHolds, PageSettled

(* While the level that has the processor computes, the page waits. *)
LEMMA BusySettled ==
  ASSUME IInv, NEW w \in Levels, Running(w),
         NEW p \in {"copy", "advance", "settle", "erase"}, pc' = [pc EXCEPT ![w] = p]
  PROVE  PageSettled'
<1>1. p \in Places \ HarmlessPlaces /\ p # "program" /\ pc \in [Levels -> Places]
  BY DEF Places, HarmlessPlaces, IInv, Types, TypeOK
<1>2. ASSUME NEW v \in Levels, Undisturbed(v)', pc'[v] = "program" PROVE FALSE
  <2>1. v = w /\ pc'[w] = p
    BY <1>1, <1>2, OnlyOneRuns
  <2> QED BY <1>1, <1>2, <2>1
<1> QED BY <1>2 DEF PageSettled

(* A level that only reads a line leaves it settled. *)
LEMMA CalmSettled ==
  ASSUME IInv, PageSettled, NEW w \in Levels, Harmless(w),
         NEW p \in HarmlessPlaces, pc' = [pc EXCEPT ![w] = p],
         UNCHANGED <<SetCurrent, flash, complete>>
  PROVE  PageSettled'
<1>1. pc'[w] = p /\ \A v \in Levels : v # w => pc'[v] = pc[v]
  BY DEF IInv, Types, TypeOK
<1> SUFFICES ASSUME complete, NEW v \in Levels, Undisturbed(v)', pc'[v] = "program"
             PROVE  flash = Image(SetCurrent)
  BY DEF PageSettled
<1>2. v # w /\ pc[v] = "program"
  BY <1>1 DEF HarmlessPlaces
<1>3. Undisturbed(v)
  BY <1>1 DEF Undisturbed, Harmless
<1> QED BY <1>2, <1>3 DEF PageSettled

LEMMA QueueEnqueues ==
  ASSUME IInv, QInv, Enqueue
  PROVE  QInv'
<1> USE DEF Enqueue
<1> DEFINE pos == SetCurrent.insrt_pos
           n == Len(log)
<1>1. /\ SetCurrent \in Setting /\ pos \in Slots \cup {Unset} /\ n \in Nat
      /\ SetCurrent.queue = [i \in Slots |-> SetCurrent.queue[i]]
      /\ pc \in [Levels -> Places] /\ 0 \in Levels /\ Unset \notin Slots
      /\ log \in Seq(1..MaxRecords)
  <2>1. /\ SetCurrent \in Setting /\ pc \in [Levels -> Places]
        /\ log \in Seq(1..MaxRecords)
    BY DEF IInv, Types, TypeOK
  <2>2. pos \in Slots \cup {Unset} /\ SetCurrent.queue = [i \in Slots |-> SetCurrent.queue[i]]
    BY <2>1 DEF Setting
  <2>3. n \in Nat
    BY <2>1
  <2>4. Unset \notin Slots
    BY QueueSize, CellNumbers
  <2> QED BY <2>1, <2>2, <2>3, <2>4, StoreAssumption
<1>2. /\ Holds(SetCurrent.queue, pos, n) /\ PageHolds
      /\ Recent(SetCurrent.queue, pos, n) /\ (pos = Unset => n = 0)
  BY DEF QInv, Holds
<1>3. UNCHANGED <<flash, durable, complete>> /\ Running(0)
  BY DEF EnqueueCount, EnqueueCopy, EnqueueAdvance, history
<1>4. PageHolds'
  BY <1>2, <1>3 DEF PageHolds
<1>5. PageSettled'
  <2>1. \E p \in {"copy", "advance", "erase"} : pc' = [pc EXCEPT ![0] = p]
    BY DEF EnqueueCount, EnqueueCopy, EnqueueAdvance, Goto
  <2> QED BY <1>1, <1>3, <2>1, BusySettled
<1>6. CASE EnqueueCount
  <2>1. /\ SetCurrent'.queue = SetCurrent.queue /\ SetCurrent'.insrt_pos = pos
        /\ UNCHANGED log /\ pc'[0] = "copy"
    BY <1>1, <1>6 DEF EnqueueCount, Goto, history, Setting
  <2> QED BY <1>2, <1>4, <1>5, <2>1 DEF QInv, RecordInSlot
<1>7. CASE EnqueueCopy /\ pos \in Slots
  <2>1. /\ SetCurrent' = [SetCurrent EXCEPT !.queue[pos] = n + 1] /\ UNCHANGED log
    BY <1>1, <1>7 DEF EnqueueCopy
  <2>2. /\ SetCurrent'.queue = [SetCurrent.queue EXCEPT ![pos] = n + 1]
        /\ SetCurrent'.insrt_pos = pos
    BY <1>1, <2>1 DEF Setting
  <2>3. Recent(SetCurrent'.queue, pos, n)
    BY <1>1, <1>2, <1>7, <2>2, SlotApart
  <2>4. SetCurrent'.queue[pos] = n + 1
    BY <1>1, <1>7, <2>2
  <2> QED BY <1>1, <1>4, <1>5, <1>7, <2>1, <2>2, <2>3, <2>4 DEF QInv, RecordInSlot, Holds
<1>8. CASE EnqueueCopy /\ pos \notin Slots
  <2>1. UNCHANGED <<SetCurrent, log>>
    BY <1>8 DEF EnqueueCopy
  <2> QED BY <1>2, <1>4, <1>5, <1>8, <2>1 DEF QInv, RecordInSlot
<1>9. CASE EnqueueAdvance
  <2>1. /\ SetCurrent'.queue = SetCurrent.queue
        /\ SetCurrent'.insrt_pos = Advanced(pos) /\ pc'[0] = "erase"
        /\ pc[0] = "advance"
    BY <1>1, <1>9 DEF EnqueueAdvance, Goto, Setting
  <2>2. RecordInSlot'
    BY <2>1 DEF RecordInSlot
  <2>3. Holds(SetCurrent.queue, Advanced(pos), Len(log'))
    <3>1. CASE pos \in Slots
      <4>1. SetCurrent.queue[pos] = n + 1
        BY <2>1, <3>1 DEF QInv, RecordInSlot
      <4>2. Recent(SetCurrent.queue, Advanced(pos), n + 1)
        BY <1>1, <1>2, <3>1, <4>1, OneMore
      <4>3. Len(log') = n + 1
        BY <1>1, <1>9, <3>1 DEF EnqueueAdvance
      <4>4. Advanced(pos) # Unset
        BY <3>1, AdvancedSlot, QueueSize, CellNumbers
      <4> QED BY <4>2, <4>3, <4>4 DEF Holds
    <3>2. CASE pos \notin Slots
      <4>1. Len(log') = 0
        BY <1>1, <1>2, <1>9, <3>2 DEF EnqueueAdvance
      <4> QED BY <4>1, NoRecords
    <3> QED BY <3>1, <3>2
  <2> QED BY <1>4, <1>5, <2>1, <2>2, <2>3 DEF QInv
<1> QED BY <1>6, <1>7, <1>8, <1>9

LEMMA QueueCommands ==
  ASSUME IInv, QInv, NEW w \in Levels, Shell(w)
  PROVE  QInv'
<1>1. /\ SetCurrent \in Setting /\ pc \in [Levels -> Places] /\ 0 \in Levels
      /\ pc[0] \in Places
  BY StoreAssumption DEF IInv, Types, TypeOK
<1>2. ASSUME NEW p \in Places \ {"advance"}, pc' = [pc EXCEPT ![w] = p], PageSettled',
             SetCurrent'.queue = SetCurrent.queue,
             SetCurrent'.insrt_pos = SetCurrent.insrt_pos,
             UNCHANGED <<flash, log, durable, complete>>
      PROVE  QInv'
  <2>1. pc'[0] = "advance" => pc[0] = "advance"
    BY <1>1, <1>2
  <2> QED BY <1>2, <2>1 DEF QInv, RecordInSlot, PageHolds
<1>3. CASE Ask(w) \/ EnterAddress(w) \/ EnterOctet(w) \/ EnterName(w)
  <2>1. PICK p \in HarmlessPlaces :
          /\ Harmless(w) /\ pc' = [pc EXCEPT ![w] = p]
          /\ UNCHANGED <<SetCurrent, flash, log, durable, complete>>
    BY <1>3, OnlyReads
  <2>2. PageSettled' /\ p \in Places \ {"advance"}
    BY <2>1, CalmSettled DEF QInv, Places, HarmlessPlaces
  <2> QED BY <1>2, <2>1, <2>2
<1>4. CASE CmdSetting(w) /\ m_type = "other"
  <2>1. /\ Harmless(w) /\ pc' = [pc EXCEPT ![w] = "idle"]
        /\ UNCHANGED <<SetCurrent, flash, log, durable, complete>>
    BY <1>4 DEF CmdSetting, Goto, Harmless, HarmlessPlaces, history
  <2>2. PageSettled' /\ "idle" \in Places \ {"advance"}
    <3>1. "idle" \in HarmlessPlaces
      BY DEF HarmlessPlaces
    <3> QED BY <2>1, <3>1, CalmSettled DEF QInv, Places
  <2> QED BY <1>2, <2>1, <2>2
<1>5. ASSUME NEW p \in {"settle", "erase"}, Running(w), pc' = [pc EXCEPT ![w] = p],
             SetCurrent'.queue = SetCurrent.queue,
             SetCurrent'.insrt_pos = SetCurrent.insrt_pos,
             UNCHANGED <<flash, log, durable, complete>>
      PROVE  QInv'
  <2>1. PageSettled' /\ p \in Places \ {"advance"}
    BY <1>5, BusySettled DEF Places
  <2> QED BY <1>2, <1>5, <2>1
<1>6. CASE CmdSetting(w) /\ m_type # "other"
  <2>1. /\ Running(w) /\ UNCHANGED <<flash, log, durable, complete>>
        /\ \E p \in {"settle", "erase"} : pc' = [pc EXCEPT ![w] = p]
    BY <1>6 DEF CmdSetting, Goto, history
  <2>2. /\ SetCurrent'.queue = SetCurrent.queue
        /\ SetCurrent'.insrt_pos = SetCurrent.insrt_pos
    BY <1>1, <1>6 DEF CmdSetting, Setting
  <2> QED BY <1>5, <2>1, <2>2
<1>7. CASE Settle(w)
  <2>1. /\ Running(w) /\ UNCHANGED <<flash, log, durable, complete>>
        /\ \E p \in {"settle", "erase"} : pc' = [pc EXCEPT ![w] = p]
    <3>1. pc = [pc EXCEPT ![w] = "settle"]
      BY <1>1, <1>7 DEF Settle
    <3> QED BY <1>7, <3>1 DEF Settle, Goto, history
  <2>2. /\ SetCurrent'.queue = SetCurrent.queue
        /\ SetCurrent'.insrt_pos = SetCurrent.insrt_pos
    BY <1>1, <1>7 DEF Settle, Setting
  <2> QED BY <1>5, <2>1, <2>2
<1>8. CASE SetEthTime(w)
  <2>1. /\ Running(w) /\ UNCHANGED <<flash, log, durable, complete>>
        /\ pc' = [pc EXCEPT ![w] = "erase"]
    BY <1>8 DEF SetEthTime, Ready, Goto, history
  <2>2. /\ SetCurrent'.queue = SetCurrent.queue
        /\ SetCurrent'.insrt_pos = SetCurrent.insrt_pos
    BY <1>1, <1>8 DEF SetEthTime, Setting
  <2> QED BY <1>5, <2>1, <2>2
<1> QED BY <1>3, <1>4, <1>6, <1>7, <1>8 DEF Shell

LEMMA QueuePrograms ==
  ASSUME IInv, QInv, NEW w \in Levels, ProgramCell(w)
  PROVE  QInv'
<1> DEFINE n == next[w]
           img == Image(SetCurrent)
<1>1. /\ Running(w) /\ pc[w] = "program" /\ UNCHANGED <<SetCurrent, log>>
      /\ SetCurrent \in Setting /\ pc \in [Levels -> Places] /\ Undisturbed(w)
  BY DEF ProgramCell, IInv, Types, TypeOK, Running, Undisturbed, Harmless, HarmlessPlaces
<1>2. RecordInSlot'
  <2>1. pc'[0] = "advance" => pc[0] = "advance"
    BY <1>1, StoreAssumption DEF ProgramCell, Goto
  <2> QED BY <1>1, <2>1 DEF QInv, RecordInSlot
<1>3. CASE LastCell(n)
  <2>1. /\ pc' = [pc EXCEPT ![w] = "idle"] /\ durable' = log /\ complete'
    BY <1>3 DEF ProgramCell, Goto
  <2>2. flash' = img
    BY <1>3, LastOfAll
  <2>3. PageHolds'
    <3>1. /\ DataBase_read(img).queue = SetCurrent.queue
          /\ DataBase_read(img).insrt_pos = SetCurrent.insrt_pos
      BY <1>1, QueueRead
    <3> QED BY <2>1, <2>2, <3>1 DEF PageHolds, QInv
  <2>4. PageSettled'
    BY <1>1, <2>2 DEF PageSettled
  <2> QED BY <1>1, <1>2, <2>3, <2>4 DEF QInv
<1>4. CASE ~LastCell(n)
  <2>1. UNCHANGED <<pc, durable, complete>>
    BY <1>4 DEF ProgramCell
  <2>2. complete => flash' = flash /\ flash = img
    <3>1. ASSUME complete PROVE flash = img
      BY <1>1, <3>1 DEF QInv, PageSettled
    <3>2. ASSUME flash = img PROVE flash' = flash
      BY <3>2, OneMoreCell
    <3> QED BY <3>1, <3>2
  <2>3. PageHolds' /\ PageSettled'
    BY <1>1, <2>1, <2>2 DEF QInv, PageHolds, PageSettled
  <2> QED BY <1>1, <1>2, <2>3 DEF QInv
<1> QED BY <1>3, <1>4

LEMMA QueueInductive == IInv /\ QInv /\ [Next]_vars => QInv'
<1> SUFFICES ASSUME IInv, QInv, [Next]_vars PROVE QInv'
  OBVIOUS
<1>1. CASE Enqueue
  BY <1>1, QueueEnqueues
<1>2. ASSUME NEW w \in Levels, Shell(w) PROVE QInv'
  BY <1>2, QueueCommands
<1>3. ASSUME NEW w \in Levels, ErasePage(w) PROVE QInv'
  <2>1. ~complete' /\ UNCHANGED <<SetCurrent, log>> /\ (pc'[0] = "advance" => pc[0] = "advance")
    BY <1>3, StoreAssumption DEF ErasePage, Goto, IInv, Types, TypeOK
  <2> QED BY <2>1 DEF QInv, RecordInSlot, PageHolds, PageSettled
<1>4. ASSUME NEW w \in Levels, ProgramCell(w) PROVE QInv'
  BY <1>4, QueuePrograms
<1>5. CASE PowerCycle
  <2> DEFINE r == DataBase_read(flash)
  <2>1. /\ SetCurrent' = Sanitised(r) /\ UNCHANGED flash
        /\ pc' = [w \in Levels |-> "idle"]
        /\ log' = (IF complete THEN durable ELSE <<>>) /\ durable' = log'
    BY <1>5 DEF PowerCycle, Boot
  <2>2. SetCurrent'.queue = r.queue /\ SetCurrent'.insrt_pos = r.insrt_pos
    BY <2>1 DEF Sanitised, DataBase_read
  <2>3. Holds(r.queue, r.insrt_pos, Len(log'))
    <3>1. CASE complete
      BY <2>1, <3>1 DEF QInv, PageHolds
    <3>2. CASE ~complete
      BY <2>1, <3>2, NoRecords
    <3> QED BY <3>1, <3>2
  <2>4. 0 \in Levels
    BY StoreAssumption
  <2>5. RecordInSlot' /\ PageSettled'
    BY <2>1, <2>4 DEF RecordInSlot, PageSettled
  <2> QED BY <2>1, <2>2, <2>3, <2>5 DEF QInv, PageHolds
<1>6. CASE UNCHANGED vars
  BY <1>6 DEF vars, store, inUse, saving, history, QInv, RecordInSlot, PageHolds, PageSettled,
              Undisturbed, Harmless
<1> QED BY <1>1, <1>2, <1>3, <1>4, <1>5, <1>6 DEF Next, DataBase_Write

(* Going back from the insert position one meets the last records in       *)
(* order, whatever the queue's length, however saves and power failures    *)
(* fall between the steps of Soe_enqueue.                                  *)
THEOREM LastRecords == Spec => []QueueHoldsLast
<1>1. QInv => QueueHoldsLast
  BY DEF QInv, Holds, Recent, Behind, QueueHoldsLast
<1>2. Spec => []QInv
  BY Invariant, QueueInit, QueueInductive, PTL DEF Spec
<1> QED BY <1>1, <1>2, PTL
=============================================================================
