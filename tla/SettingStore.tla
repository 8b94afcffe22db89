---------------------------- MODULE SettingStore ----------------------------
(***************************************************************************)
(* The settings page: user/Realtimedb.c with its writers, the SOE and      *)
(* error queues of user/soe.c and the settings commands of BSP/shellcmd.c. *)
(*                                                                         *)
(* SetCurrent is the RAM image of one flash page.  Every change is saved   *)
(* by DataBase_Write: erase the page, then program it half-word by         *)
(* half-word from SetCurrent as it is at that moment.  The main loop (level*)
(* 0) saves queue records; the UART shell (level 1) and the telnet shell   *)
(* (level 2) run in interrupts, so a save can preempt another one at any   *)
(* point.  Power can fail at any point; DataBase_Init then reads the page. *)
(*                                                                         *)
(* An address is entered into DevIPAddressTab octet by octet, and refused  *)
(* at an octet above 255 with those before it in use; CmdSetting copies it *)
(* into SetCurrent, if the message both shells share still asks for it.    *)
(*                                                                         *)
(* A cell is what is programmed in one go.  The queues of SOE and error    *)
(* records have the same code; one queue stands for either.                *)
(***************************************************************************)
EXTENDS Integers, Sequences, FiniteSets

CONSTANTS
  Levels,      \* preemption levels: 0 main loop, 1 UART shell, 2 telnet shell
  MAXNUM,      \* SOE_FLASH_MAXNUM, ERR_FLASH_MAXNUM
  Addresses,   \* what an address line may yield: four numbers, any above 255
  Names,       \* device names the operator may enter
  Minutes,     \* supervision times the operator may enter; 65535 is Erased
  Erased,      \* a half-word that reads 0xFFFF
  MaxRecords   \* bound: queue records in one behaviour

VARIABLES
  SetCurrent,       \* the settings in RAM
  flash,            \* the settings page, cell by cell
  DevIPAddressTab,  \* the address in use
  DevNameStr,       \* the name in use
  m_type,           \* Shell_Msg.m_type: the command both shells' lines belong to
  pc,               \* per level: what the running handler does next
  next,             \* per level: the next octet, or the next cell to program
  carried,          \* per level: the address typed, then the one being copied
  log,              \* history: records stored in the queue
  durable,          \* history: log at the last finished save
  complete,         \* history: no page erased and not yet rewritten
  strayed,          \* history: a record was written outside the queue
  unsaved           \* history: an octet was entered that no CmdSetting has copied

store == <<SetCurrent, flash>>
inUse == <<DevIPAddressTab, DevNameStr>>
saving == <<pc, next, carried>>
history == <<log, durable, complete, strayed>>
vars == <<store, inUse, m_type, saving, history, unsaved>>

-----------------------------------------------------------------------------
Slots == 0 .. MAXNUM - 1
Unset == 255          \* an erased byte
Octets == 1..4
DefaultIP == <<172, 20, 100, 1>>
DefaultName == "Unnamed Device"
Entered == Addresses \cup {DefaultIP}
DefaultMinutes == 10  \* ETH_LINK_TIME, ETH_RECV_TIME

ASSUME StoreAssumption ==
  /\ 0 \in Levels /\ Levels \subseteq Nat
  /\ MAXNUM \in 1 .. Unset - 1 /\ MaxRecords \in Nat
  /\ Addresses \subseteq [Octets -> Nat]
  /\ Erased # DefaultMinutes /\ Erased # "A55A"
  /\ Erased \notin (0..Unset) \X (0..Unset)

(* A half-word of two bytes, and its bytes. *)
Half(a, b) == IF a = Unset /\ b = Unset THEN Erased ELSE <<a, b>>
Byte(half, i) == IF half = Erased THEN Unset ELSE half[i]

(* The cells in the order of struct tag_SETTING. *)
NCells == 7 + MAXNUM
Cells == 1 .. NCells
CellOf(s, c) ==
  CASE c = 1 -> s.used                       \* Mem_Used_Check
    [] c = 2 -> Half(s.ip[1], s.ip[2])       \* IPaddress
    [] c = 3 -> Half(s.ip[3], s.ip[4])
    [] c = 4 -> s.name                       \* DevNameChar
    [] c = 5 -> Half(s.total, s.insrt_pos)
    [] c \in 6 .. 5 + MAXNUM -> s.queue[c - 6]
    [] c = 6 + MAXNUM -> s.link              \* eth_link_time
    [] c = 7 + MAXNUM -> s.recv              \* eth_recv_time

Image(s) == [c \in Cells |-> CellOf(s, c)]
BlankPage == [c \in Cells |-> Erased]

(* DataBase_read: the image read back. *)
DataBase_read(page) ==
  [ used |-> page[1], name |-> page[4],
    ip |-> [i \in Octets |-> IF i <= 2 THEN Byte(page[2], i) ELSE Byte(page[3], i - 2)],
    total |-> Byte(page[5], 1), insrt_pos |-> Byte(page[5], 2),
    queue |-> [i \in Slots |-> page[6 + i]],
    link  |-> page[6 + MAXNUM], recv |-> page[7 + MAXNUM] ]

(* Mutants used to show that the properties below can fail. *)
CountsOn(n) == n + 1
SkipsOne(pos) == (pos + 2) % MAXNUM
StopsEarly(c) == c + 1 >= NCells
ChecksOne(ip) == ip[1] # Unset

(* No octet is 0xFF; 255 passes when it is entered and fails here. *)
IPCHECK(ip) == \A i \in Octets : ip[i] # Unset
Worth(ip) == IF IPCHECK(ip) THEN ip ELSE DefaultIP

(* Neither time was ever set, or both were set to 65535. *)
NeverTimed(s) == s.link = Erased /\ s.recv = Erased

(* The rest of DataBase_Init: a length out of range is reset, the insert   *)
(* position is not.  MEMCHECK compares 16-bit words with 0xFF, which an    *)
(* erased word is not, so the stored name is always taken.                 *)
Sanitised(s) ==
  [s EXCEPT !.total = IF @ > MAXNUM THEN 0 ELSE @,
            !.link = IF NeverTimed(s) THEN DefaultMinutes ELSE @,
            !.recv = IF NeverTimed(s) THEN DefaultMinutes ELSE @]

BootAddress(s) == IF s.used = "A55A" /\ IPCHECK(s.ip) THEN s.ip ELSE DefaultIP
BootName(s) == IF s.used = "A55A" THEN s.name ELSE DefaultName

Boot(page) ==
  LET s == DataBase_read(page)
  IN /\ SetCurrent' = Sanitised(s)
     /\ DevIPAddressTab' = BootAddress(s)
     /\ DevNameStr' = BootName(s)

-----------------------------------------------------------------------------
(* A new board starts from an erased page. *)
Init ==
  /\ flash = BlankPage
  /\ SetCurrent = Sanitised(DataBase_read(BlankPage))
  /\ DevIPAddressTab = DefaultIP /\ DevNameStr = DefaultName /\ m_type = "other"
  /\ pc = [w \in Levels |-> "idle"] /\ next = [w \in Levels |-> 1]
  /\ carried = [w \in Levels |-> DefaultIP]
  /\ log = <<>> /\ durable = <<>> /\ complete = TRUE /\ strayed = FALSE
  /\ unsaved = FALSE

(* Level w has the processor: nothing above it is running. *)
Running(w) == \A v \in Levels : v > w => pc[v] = "idle"
Goto(w, place) == pc' = [pc EXCEPT ![w] = place]

-----------------------------------------------------------------------------
(* Soe_enqueue and error_enqueue, in the main loop: count, copy, advance,  *)
(* save.  A shell may save SetCurrent between any two of them.             *)
Counted(n) == IF n < MAXNUM THEN n + 1 ELSE MAXNUM
Advanced(pos) == (pos + 1) % MAXNUM

EnqueueCount ==
  /\ Running(0) /\ pc[0] = "idle"
  /\ Len(log) < MaxRecords
  /\ SetCurrent' = [SetCurrent EXCEPT !.total = Counted(@)]
  /\ Goto(0, "copy")
  /\ UNCHANGED <<flash, inUse, m_type, next, carried, history, unsaved>>

(* memcpy to SOE_Queue_Flash + insrt_pos; an erased position points far    *)
(* behind the queue.                                                       *)
EnqueueCopy ==
  /\ Running(0) /\ pc[0] = "copy"
  /\ \/ /\ SetCurrent.insrt_pos \in Slots
        /\ SetCurrent' = [SetCurrent EXCEPT !.queue[SetCurrent.insrt_pos] = Len(log) + 1]
        /\ UNCHANGED strayed
     \/ /\ SetCurrent.insrt_pos \notin Slots
        /\ strayed' = TRUE
        /\ UNCHANGED SetCurrent
  /\ Goto(0, "advance")
  /\ UNCHANGED <<flash, inUse, m_type, next, carried, log, durable, complete, unsaved>>

EnqueueAdvance ==
  /\ Running(0) /\ pc[0] = "advance"
  /\ SetCurrent' = [SetCurrent EXCEPT !.insrt_pos = Advanced(@)]
  /\ log' = IF SetCurrent.insrt_pos \in Slots THEN Append(log, Len(log) + 1) ELSE log
  /\ Goto(0, "erase")
  /\ UNCHANGED <<flash, inUse, m_type, next, carried, durable, complete, strayed, unsaved>>

-----------------------------------------------------------------------------
(* The settings commands of a shell: each with what the message asks for   *)
(* when its line is entered, which the other console may have overwritten  *)
(* since ("other" is every command CmdSetting has no part in; which console*)
(* may give which is in ShellSession).  A line that only asks matters to   *)
(* the handler it cuts into.                                               *)
Commands == {"CMD_ADDR", "CMD_NAME", "other"}
Ready(w) == w # 0 /\ Running(w) /\ pc[w] = "idle"
Reading(v) == pc[v] \in {"octet", "setting"}

Ask(w) ==
  /\ Ready(w) /\ \E v \in Levels : Reading(v)
  /\ m_type' \in Commands \ {m_type}
  /\ UNCHANGED <<store, inUse, saving, history, unsaved>>

(* ShellEtrAddr; CMD_RESTOREIP acts as CMD_ADDR with the default address. *)
EnterAddress(w) ==
  /\ Ready(w) /\ m_type' \in Commands
  /\ \E ip \in Entered : carried' = [carried EXCEPT ![w] = ip]
  /\ Goto(w, "octet") /\ next' = [next EXCEPT ![w] = 1]
  /\ UNCHANGED <<store, inUse, history, unsaved>>

EnterOctet(w) ==
  LET i == next[w]
      octet == carried[w][i]
  IN /\ Running(w) /\ pc[w] = "octet"
     /\ \/ /\ octet <= 255
           /\ DevIPAddressTab' = [DevIPAddressTab EXCEPT ![i] = octet]
           /\ unsaved' = TRUE
           /\ IF i = 4 THEN Goto(w, "setting") /\ UNCHANGED next
                       ELSE UNCHANGED pc /\ next' = [next EXCEPT ![w] = i + 1]
           /\ UNCHANGED carried
        \/ /\ octet > 255                    \* "Enter Address Fault"
           /\ Goto(w, "idle") /\ next' = [next EXCEPT ![w] = 1]
           /\ carried' = [carried EXCEPT ![w] = DefaultIP]
           /\ UNCHANGED <<DevIPAddressTab, unsaved>>
     /\ UNCHANGED <<store, DevNameStr, m_type, history>>

(* ShellEtrStr *)
EnterName(w) ==
  /\ Ready(w) /\ m_type' \in Commands
  /\ DevNameStr' \in Names
  /\ Goto(w, "setting")
  /\ UNCHANGED <<store, DevIPAddressTab, next, carried, history, unsaved>>

(* CmdSetting goes by the message as it is now, which is another command's *)
(* if a higher level's line came in between.  The address is loaded for a  *)
(* memcpy that may be interrupted.                                         *)
CmdSetting(w) ==
  /\ Running(w) /\ pc[w] = "setting"
  /\ \/ /\ m_type = "CMD_ADDR"
        /\ SetCurrent' = [SetCurrent EXCEPT !.used = "A55A"]
        /\ carried' = [carried EXCEPT ![w] = DevIPAddressTab]
        /\ unsaved' = (unsaved /\ \E v \in Levels : pc[v] = "settle")
        /\ Goto(w, "settle")
     \/ /\ m_type = "CMD_NAME"
        /\ SetCurrent' = [SetCurrent EXCEPT !.used = "A55A", !.name = DevNameStr]
        /\ carried' = [carried EXCEPT ![w] = DefaultIP]
        /\ Goto(w, "erase")
        /\ UNCHANGED unsaved
     \/ /\ m_type = "other"
        /\ carried' = [carried EXCEPT ![w] = DefaultIP]
        /\ Goto(w, "idle")
        /\ UNCHANGED <<SetCurrent, unsaved>>
  /\ m_type' = "other" /\ next' = [next EXCEPT ![w] = 1]
  /\ UNCHANGED <<flash, inUse, history>>

(* One octet of the memcpy: loaded at its start or only now. *)
Settle(w) ==
  LET i == next[w]
  IN /\ Running(w) /\ pc[w] = "settle"
     /\ \E octet \in {carried[w][i], DevIPAddressTab[i]} :
          SetCurrent' = [SetCurrent EXCEPT !.ip[i] = octet]
     /\ IF i = 4
        THEN /\ Goto(w, "erase") /\ next' = [next EXCEPT ![w] = 1]
             /\ carried' = [carried EXCEPT ![w] = DefaultIP]
        ELSE next' = [next EXCEPT ![w] = i + 1] /\ UNCHANGED <<pc, carried>>
     /\ UNCHANGED <<flash, inUse, m_type, history, unsaved>>

(* ShellSetEthTime: the link time, the receive time, or both defaults. *)
SetEthTime(w) ==
  /\ Ready(w) /\ m_type' = "other"
  /\ \E s \in {[SetCurrent EXCEPT !.link = m] : m \in Minutes}
              \cup {[SetCurrent EXCEPT !.recv = m] : m \in Minutes}
              \cup {[SetCurrent EXCEPT !.link = DefaultMinutes, !.recv = DefaultMinutes]} :
       SetCurrent' = [s EXCEPT !.used = "A55A"]
  /\ Goto(w, "erase")
  /\ UNCHANGED <<flash, inUse, next, carried, history, unsaved>>

-----------------------------------------------------------------------------
(* DataBase_Write *)
LastCell(c) == c = NCells

ErasePage(w) ==
  /\ Running(w) /\ pc[w] = "erase"
  /\ flash' = BlankPage
  /\ Goto(w, "program") /\ next' = [next EXCEPT ![w] = 1]
  /\ complete' = FALSE
  /\ UNCHANGED <<SetCurrent, inUse, m_type, carried, log, durable, strayed, unsaved>>

(* FLASH_ProgramWord programs an erased cell and fails, leaving it as it   *)
(* is, on one that is not: the loop goes on either way.                    *)
ProgramCell(w) ==
  /\ Running(w) /\ pc[w] = "program"
  /\ flash' = [flash EXCEPT ![next[w]] =
                 IF @ = Erased THEN Image(SetCurrent)[next[w]] ELSE @]
  /\ IF LastCell(next[w])
     THEN /\ Goto(w, "idle") /\ next' = [next EXCEPT ![w] = 1]
          /\ durable' = log /\ complete' = TRUE
     ELSE /\ next' = [next EXCEPT ![w] = @ + 1]
          /\ UNCHANGED <<pc, durable, complete>>
  /\ UNCHANGED <<SetCurrent, inUse, m_type, carried, log, strayed, unsaved>>

(* Power fails, and DataBase_Init runs before any interrupt is enabled. *)
PowerCycle ==
  /\ Boot(flash) /\ m_type' = "other"
  /\ pc' = [w \in Levels |-> "idle"] /\ next' = [w \in Levels |-> 1]
  /\ carried' = [w \in Levels |-> DefaultIP]
  /\ log' = IF complete THEN durable ELSE <<>>
  /\ durable' = log'
  /\ complete' = TRUE /\ strayed' = FALSE /\ unsaved' = FALSE
  /\ UNCHANGED flash

Enqueue == EnqueueCount \/ EnqueueCopy \/ EnqueueAdvance
Shell(w) ==
  \/ Ask(w) \/ EnterAddress(w) \/ EnterOctet(w) \/ EnterName(w)
  \/ CmdSetting(w) \/ Settle(w) \/ SetEthTime(w)
DataBase_Write(w) == ErasePage(w) \/ ProgramCell(w)

Next ==
  \/ Enqueue
  \/ \E w \in Levels : Shell(w) \/ DataBase_Write(w)
  \/ PowerCycle

Spec == Init /\ [][Next]_vars

-----------------------------------------------------------------------------
Text == Names \cup {DefaultName, Erased}
Times == Minutes \cup {DefaultMinutes, Erased}
Bytes == 0..Unset
Halves == (Bytes \X Bytes) \cup {Erased}

Setting ==
  [ used : {"A55A", Erased}, ip : [Octets -> Bytes], name : Text,
    total : 0..MAXNUM, insrt_pos : Slots \cup {Unset},
    queue : [Slots -> (1..MaxRecords) \cup {Erased}], link : Times, recv : Times ]

Places == { "idle", "copy", "advance", "octet", "setting", "settle", "erase", "program" }

CellValues(c) ==
  CASE c = 1 -> {"A55A", Erased}
    [] c \in {2, 3} -> Halves
    [] c = 4 -> Text
    [] c = 5 -> ((0..MAXNUM) \X (Slots \cup {Unset})) \cup {Erased}
    [] c \in 6 .. 5 + MAXNUM -> (1..MaxRecords) \cup {Erased}
    [] OTHER -> Times

PageOK(page) ==
  page = [c \in Cells |-> page[c]] /\ \A c \in Cells : page[c] \in CellValues(c)

(* The queue length and position stay in the queue, the position being     *)
(* 255 only until the first record; only the main loop enqueues.           *)
TypeOK ==
  /\ SetCurrent \in Setting
  /\ PageOK(flash)
  /\ DevIPAddressTab \in [Octets -> Bytes] /\ DevNameStr \in Text
  /\ m_type \in Commands
  /\ pc \in [Levels -> Places] /\ next \in [Levels -> Cells]
  /\ \A w \in Levels : pc[w] \in {"octet", "settle"} => next[w] \in Octets
  /\ carried \in [Levels -> [Octets -> Nat]]
  /\ \A w \in Levels \ {0} : pc[w] \notin {"copy", "advance"}
  /\ log \in Seq(1..MaxRecords) /\ durable \in Seq(1..MaxRecords)
  /\ Len(log) <= MaxRecords /\ Len(durable) <= MaxRecords
  /\ complete \in BOOLEAN /\ strayed \in BOOLEAN /\ unsaved \in BOOLEAN

Idle == \A w \in Levels : pc[w] = "idle"

(* When nothing is under way the page is worth the RAM: a power failure    *)
(* would bring back the same settings, and the address in use too unless   *)
(* an octet of it was entered that CmdSetting has not copied whole since:  *)
(* an entry refused after its first octet, or crossed by the other shell.  *)
(* An address with an octet 255 comes back as the default, and 65535 for   *)
(* both times as 10.  It holds however the saves of the levels cut into    *)
(* one another, although an interrupted save goes on programming a page    *)
(* that is not its own.                                                    *)
IdleMeansDurable ==
  Idle => /\ Sanitised(DataBase_read(flash)) = Sanitised(SetCurrent)
          /\ ~unsaved => BootAddress(DataBase_read(flash)) = Worth(DevIPAddressTab)

(* However saves cut into one another and power failures into saves, the   *)
(* board behaves like AddressStore: the address it would come back with is *)
(* the default one or the one in SetCurrent when its last half-word was    *)
(* programmed, never a half of that and a half of what was there before.   *)
Address == INSTANCE AddressStore WITH
  Places <- Octets, Values <- Bytes, Default <- DefaultIP, Invalid <- Unset,
  used <- DevIPAddressTab, settings <- SetCurrent.ip,
  stored <- BootAddress(DataBase_read(flash))
AddressKept == Address!AddressSpec

(* Going back from the insert position one meets the last records in       *)
(* order, but for the slot being replaced: no record is overwritten early, *)
(* stored twice or skipped, across power failures that spare the page.     *)
QueueHoldsLast ==
  \A j \in 1 .. MAXNUM - 1 :
    j <= Len(log) =>
      SetCurrent.queue[(SetCurrent.insrt_pos + MAXNUM - j) % MAXNUM] = Len(log) + 1 - j

(* "assert whether the setting memory was written" (Realtimedb.c:116): the *)
(* contents of a page never written are not used as a queue position, so   *)
(* every record goes into the queue.                                       *)
RecordsStayInQueue == ~strayed
=============================================================================
