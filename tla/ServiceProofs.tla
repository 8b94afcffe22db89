---------------------------- MODULE ServiceProofs ----------------------------
(***************************************************************************)
(* Proofs about the clock (RtcClock), the CAN link (CanLink), the Modbus   *)
(* server (ModbusServer) and the frames (EthFrames), for any divider and   *)
(* word lengths, any times the clock is set to, and any segments; and,     *)
(* with what is proved of the shell and the connections, about the Station *)
(* made of all six.                                                        *)
(***************************************************************************)
EXTENDS Station, ShellSessionProofs, TcpPcbsProofs, TLAPS

-----------------------------------------------------------------------------
(* The clock.  What the backup registers say is never more than what has   *)
(* been set up; a record read whole is no later than the clock.            *)
RtcTyped ==
  /\ BKP_DR1 \in BOOLEAN /\ clk_source \in Sources /\ BKP_DR2 \in Sources \cup {"none"}
  /\ rtc_source \in Sources \cup {"none"} /\ counter \in Nat /\ divider \in Nat
  /\ rtc_source # "none" => divider <= StartOf(rtc_source)
  /\ low \in Nat /\ timetamp \in Nat /\ recorded \in Nat \X Nat
  /\ whole \in BOOLEAN /\ in_order \in BOOLEAN

SourceInv ==
  /\ BKP_DR2 # "none" => BKP_DR2 = rtc_source
  /\ rtc_pc \in {"select", "mark", "note"} => BKP_DR2 = "none"
  /\ rtc_pc = "note" => BKP_DR1
  /\ rtc_pc = "running" => BKP_DR1 /\ BKP_DR2 = rtc_source

NoLater(stamped, seconds, msec) ==
  stamped[1] < seconds \/ (stamped[1] = seconds /\ stamped[2] <= msec)

OrderInv ==
  /\ soe_pc # "idle" \/ in_order => rtc_pc = "running"
  /\ soe_pc = "high" /\ whole => low = counter % HalfWord
  /\ soe_pc = "msec" /\ whole => timetamp = counter
  /\ in_order /\ rtc_source = "LSE" => NoLater(recorded, counter, Get_Msec)

RtcInv == RtcTyped /\ SourceInv /\ OrderInv

(* Integer division is monotonic. *)
LEMMA DivMono ==
  ASSUME NEW a \in Nat, NEW b \in Nat, NEW c \in Nat \ {0}, a <= b
  PROVE  a \div c <= b \div c
<1> DEFINE p == a \div c
           q == b \div c
<1>1. p \in Nat /\ q \in Nat
  BY SMT
<1>2. c * p <= a /\ b < c * (q + 1)
  BY SMT
<1>3. c * p < c * (q + 1)
  <2>1. c * p \in Int /\ c * (q + 1) \in Int
    BY <1>1
  <2> QED
    BY <1>2, <2>1
<1>4. p < q + 1
  <2> HIDE DEF p, q
  <2> SUFFICES ASSUME p >= q + 1 PROVE FALSE
    BY <1>1
  <2>1. c * p >= c * (q + 1)
    BY <1>1
  <2> QED
    BY <1>1, <1>3, <2>1
<1> QED
  BY <1>1, <1>4

(* With the crystal the milliseconds are what the divider says, ...        *)
LEMMA MsecOfCrystal ==
  ASSUME NEW d \in Nat, d <= Crystal
  PROVE  /\ (((Crystal - d) * 1000) % LongWord) \div Crystal = ((Crystal - d) * 1000) \div Crystal
         /\ ((Crystal - d) * 1000) \div Crystal \in 0..1000
<1> DEFINE e == (Crystal - d) * 1000
<1>1. e \in Nat /\ e <= Crystal * 1000 /\ Crystal \in Nat \ {0}
  BY RtcAssumption
<1>2. LongWord \in Nat /\ e < LongWord
  BY <1>1, RtcAssumption
<1>3. e % LongWord = e
  <2> HIDE DEF e
  <2> QED
    BY <1>1, <1>2
<1>4. e \div Crystal \in Nat
  <2> HIDE DEF e
  <2> QED
    BY <1>1
<1>5. e \div Crystal <= (Crystal * 1000) \div Crystal
  <2> HIDE DEF e
  <2> QED
    BY <1>1, DivMono
<1>6. (Crystal * 1000) \div Crystal = 1000
  BY <1>1
<1> QED
  BY <1>3, <1>4, <1>5, <1>6

(* ... and do not go back while it counts down.                            *)
LEMMA MsecForward ==
  ASSUME NEW d \in Nat, d <= Crystal, NEW f \in Nat, f <= d
  PROVE  (((((Crystal - d) * 1000) % LongWord) \div Crystal) % 65536)
           <= (((((Crystal - f) * 1000) % LongWord) \div Crystal) % 65536)
<1>1. (Crystal - d) * 1000 \in Nat /\ (Crystal - f) * 1000 \in Nat
      /\ (Crystal - d) * 1000 <= (Crystal - f) * 1000
      /\ Crystal \in Nat \ {0} /\ f <= Crystal
  BY RtcAssumption
<1>2. ((Crystal - d) * 1000) \div Crystal <= ((Crystal - f) * 1000) \div Crystal
  BY <1>1, DivMono
<1>3. \A n \in 0..1000 : n % 65536 = n
  OBVIOUS
<1>4. /\ (((Crystal - d) * 1000) % LongWord) \div Crystal = ((Crystal - d) * 1000) \div Crystal
      /\ ((Crystal - d) * 1000) \div Crystal \in 0..1000
  BY MsecOfCrystal
<1>5. /\ (((Crystal - f) * 1000) % LongWord) \div Crystal = ((Crystal - f) * 1000) \div Crystal
      /\ ((Crystal - f) * 1000) \div Crystal \in 0..1000
  BY <1>1, MsecOfCrystal
<1> QED
  BY <1>2, <1>3, <1>4, <1>5

(* The two halves of a counter nobody has changed make the counter.        *)
LEMMA Halves ==
  ASSUME NEW n \in Nat
  PROVE  (n \div HalfWord) * HalfWord + (n % HalfWord) = n /\ n % HalfWord \in Nat
         /\ n \div HalfWord \in Nat /\ (n \div HalfWord) * HalfWord \in Nat
<1>1. HalfWord \in Nat \ {0}
  BY RtcAssumption
<1> DEFINE q == n \div HalfWord
           r == n % HalfWord
<1>2. q \in Nat /\ r \in Nat /\ n = HalfWord * q + r
  BY <1>1
<1>3. q * HalfWord = HalfWord * q /\ q * HalfWord \in Nat
  <2> HIDE DEF q, r
  <2> QED
    BY <1>1, <1>2
<1>4. q * HalfWord + r = n /\ r \in Nat /\ q \in Nat /\ q * HalfWord \in Nat
  <2> HIDE DEF q, r
  <2> QED
    BY <1>1, <1>2, <1>3
<1> QED
  BY <1>4

LEMMA MsecTyped == ASSUME divider \in Nat PROVE Get_Msec \in Nat
<1>1. (Crystal - divider) * 1000 \in Int /\ LongWord \in Nat \ {0} /\ Crystal \in Nat \ {0}
  BY RtcAssumption
<1>2. ((Crystal - divider) * 1000) % LongWord \in Nat
  BY <1>1
<1>3. (((Crystal - divider) * 1000) % LongWord) \div Crystal \in Nat
  BY <1>1, <1>2
<1> QED
  BY <1>3 DEF Get_Msec

(* The invariant holds at the start ...                                    *)
LEMMA RtcInitInv == RtcInit => RtcInv
<1> SUFFICES ASSUME RtcInit PROVE RtcInv
  OBVIOUS
<1>1. RtcTyped
  BY DEF RtcInit, RtcTyped, Sources, StartOf
<1>2. SourceInv
  BY DEF RtcInit, SourceInv
<1>3. OrderInv
  BY DEF RtcInit, OrderInv
<1> QED
  BY <1>1, <1>2, <1>3 DEF RtcInv

(* ... every step keeps the types ...                                      *)
LEMMA RtcTypedStep ==
  ASSUME RtcInv, [RtcNext]_rtc_vars
  PROVE  RtcTyped'
<1> USE RtcAssumption DEF RtcInv, RtcTyped, Sources, StartOf
<1>1. CASE WaitLse
  BY <1>1 DEF WaitLse, backup, clock, stamp
<1>2. CASE BKP_DeInit
  BY <1>2 DEF BKP_DeInit, stamp
<1>3. CASE Select
  BY <1>3 DEF Select, backup, stamp
<1>4. CASE LseNotReady
  BY <1>4 DEF LseNotReady, backup, clock, stamp
<1>5. CASE WriteMark
  BY <1>5 DEF WriteMark, clock, stamp
<1>6. CASE WriteNote
  BY <1>6 DEF WriteNote, clock, stamp
<1>7. CASE BoardReset
  BY <1>7 DEF BoardReset, Start, backup, clock
<1>8. CASE BatteryLost
  BY <1>8 DEF BatteryLost, Start
<1>9. CASE Tick
  BY <1>9 DEF Tick, backup, start, stamp
<1>10. CASE SecondEnds
  <2>1. /\ divider' = StartOf(rtc_source) /\ StartOf(rtc_source) \in Nat
        /\ counter' = counter + 1 /\ whole' = FALSE
    BY <1>10 DEF SecondEnds
  <2>2. UNCHANGED <<BKP_DR1, BKP_DR2, rtc_source, clk_source, low, timetamp, recorded, in_order>>
    BY <1>10 DEF SecondEnds, backup, start
  <2>3. divider' \in Nat /\ (rtc_source' # "none" => divider' <= StartOf(rtc_source'))
    BY <2>1, <2>2
  <2>4. counter' \in Nat
    BY <2>1
  <2> QED
    BY <2>1, <2>2, <2>3, <2>4
<1>11. CASE Time_SetUnixTime
  <2>1. counter' \in Nat
    BY <1>11 DEF Time_SetUnixTime
  <2> QED
    BY <1>11, <2>1 DEF Time_SetUnixTime, backup, start
<1>12. CASE ReadLow
  <2>1. low' \in Nat
    BY <1>12, Halves DEF ReadLow
  <2> QED
    BY <1>12, <2>1 DEF ReadLow, backup, clock, start
<1>13. CASE ReadHigh
  <2>1. timetamp' \in Nat
    BY <1>13, Halves DEF ReadHigh
  <2> QED
    BY <1>13, <2>1 DEF ReadHigh, backup, clock, start
<1>14. CASE Record
  BY <1>14, MsecTyped DEF Record, backup, clock, start
<1>15. CASE UNCHANGED rtc_vars
  BY <1>15 DEF rtc_vars, backup, clock, start, stamp
<1> QED
  BY <1>1, <1>2, <1>3, <1>4, <1>5, <1>6, <1>7, <1>8, <1>9, <1>10, <1>11, <1>12, <1>13,
     <1>14, <1>15 DEF RtcNext

(* ... and what the backup registers say, ...                              *)
LEMMA SourceStep ==
  ASSUME RtcInv, [RtcNext]_rtc_vars
  PROVE  SourceInv'
<1> USE DEF RtcInv, RtcTyped, SourceInv, Sources
<1>1. CASE WaitLse
  BY <1>1 DEF WaitLse, backup, clock
<1>2. CASE BKP_DeInit
  BY <1>2 DEF BKP_DeInit
<1>3. CASE Select
  BY <1>3 DEF Select, backup
<1>4. CASE LseNotReady
  BY <1>4 DEF LseNotReady, backup, clock
<1>5. CASE WriteMark
  BY <1>5 DEF WriteMark, clock
<1>6. CASE WriteNote
  BY <1>6 DEF WriteNote, clock
<1>7. CASE BoardReset
  BY <1>7 DEF BoardReset, Start, backup, clock
<1>8. CASE BatteryLost
  BY <1>8 DEF BatteryLost, Start
<1>9. CASE Tick \/ SecondEnds \/ Time_SetUnixTime
  BY <1>9 DEF Tick, SecondEnds, Time_SetUnixTime, backup, start
<1>10. CASE ReadLow \/ ReadHigh \/ Record
  BY <1>10 DEF ReadLow, ReadHigh, Record, backup, clock, start
<1>11. CASE UNCHANGED rtc_vars
  BY <1>11 DEF rtc_vars, backup, clock, start
<1> QED
  BY <1>1, <1>2, <1>3, <1>4, <1>5, <1>6, <1>7, <1>8, <1>9, <1>10, <1>11 DEF RtcNext

(* ... and the order of the records.                                       *)
LEMMA OrderStep ==
  ASSUME RtcInv, [RtcNext]_rtc_vars
  PROVE  OrderInv'
<1> USE DEF RtcInv, OrderInv
<1>1. CASE WaitLse \/ BKP_DeInit \/ Select \/ LseNotReady \/ WriteMark \/ WriteNote
  BY <1>1 DEF WaitLse, BKP_DeInit, Select, LseNotReady, WriteMark, WriteNote, stamp
<1>2. CASE BoardReset \/ BatteryLost
  BY <1>2 DEF BoardReset, BatteryLost, Start
<1>3. CASE Tick
  <2>1. ASSUME rtc_source = "LSE" PROVE Get_Msec <= Get_Msec'
    BY <1>3, <2>1, MsecForward DEF Tick, Get_Msec, RtcTyped, StartOf
  <2>2. Get_Msec \in Nat /\ Get_Msec' \in Nat
    <3>1. divider' \in Nat
      BY RtcTypedStep DEF RtcTyped
    <3>2. ASSUME NEW d \in Nat
          PROVE  ((((Crystal - d) * 1000) % LongWord) \div Crystal) % 65536 \in Nat
      <4>1. ((Crystal - d) * 1000) \in Int /\ LongWord \in Nat \ {0} /\ Crystal \in Nat \ {0}
        BY RtcAssumption
      <4>2. ((Crystal - d) * 1000) % LongWord \in Nat
        BY <4>1
      <4> QED
        BY <4>1, <4>2
    <3> QED
      BY <3>1, <3>2 DEF Get_Msec, RtcTyped
  <2>3. UNCHANGED <<counter, rtc_source, rtc_pc, soe_pc, low, timetamp, recorded, whole, in_order>>
    BY <1>3 DEF Tick, start, stamp
  <2>4. in_order' /\ rtc_source' = "LSE" => NoLater(recorded', counter', Get_Msec')
    BY <2>1, <2>2, <2>3 DEF NoLater, RtcTyped
  <2> QED
    BY <2>3, <2>4
<1>4. CASE SecondEnds
  <2>1. in_order' /\ rtc_source' = "LSE" => NoLater(recorded', counter', Get_Msec')
    BY <1>4 DEF SecondEnds, backup, start, NoLater, RtcTyped
  <2> QED
    BY <1>4, <2>1 DEF SecondEnds, start
<1>5. CASE Time_SetUnixTime
  BY <1>5 DEF Time_SetUnixTime, start
<1>6. CASE ReadLow
  BY <1>6 DEF ReadLow, clock, start, Get_Msec
<1>7. CASE ReadHigh
  <2>1. counter \in Nat
    BY DEF RtcTyped
  <2>2. timetamp' = (counter \div HalfWord) * HalfWord + low
    BY <1>7 DEF ReadHigh
  <2>3. whole => timetamp' = counter
    <3>1. whole => low = counter % HalfWord
      BY <1>7 DEF ReadHigh
    <3>2. (counter \div HalfWord) * HalfWord + (counter % HalfWord) = counter
      BY <2>1, Halves
    <3> QED
      BY <2>2, <3>1, <3>2
  <2>4. soe_pc' = "msec"
        /\ UNCHANGED <<counter, divider, rtc_source, rtc_pc, recorded, whole, in_order>>
    BY <1>7 DEF ReadHigh, clock, start
  <2>5. Get_Msec' = Get_Msec /\ rtc_pc = "running"
    BY <1>7, <2>4 DEF Get_Msec, ReadHigh
  <2> QED
    BY <2>3, <2>4, <2>5
<1>8. CASE Record
  <2>1. in_order' => recorded' = <<counter', Get_Msec'>>
    BY <1>8 DEF Record, clock, Get_Msec
  <2>2. counter' \in Nat /\ Get_Msec' \in Nat
    BY <1>8, MsecTyped DEF Record, clock, Get_Msec, RtcTyped
  <2> QED
    BY <1>8, <2>1, <2>2 DEF Record, start, NoLater
<1>9. CASE UNCHANGED rtc_vars
  BY <1>9 DEF rtc_vars, clock, start, stamp, Get_Msec
<1> QED
  BY <1>1, <1>2, <1>3, <1>4, <1>5, <1>6, <1>7, <1>8, <1>9 DEF RtcNext

(* The invariant of the clock.                                             *)
THEOREM RtcInvariance == RtcSpec => []RtcInv
<1>1. RtcInit => RtcInv
  BY RtcInitInv
<1>2. RtcInv /\ [RtcNext]_rtc_vars => RtcInv'
  BY RtcTypedStep, SourceStep, OrderStep DEF RtcInv
<1> QED
  BY <1>1, <1>2, PTL DEF RtcSpec

(* Whatever step a reset interrupts and whatever the battery does, a       *)
(* running station has noted the clock it runs from (bsp.c).               *)
THEOREM RtcSource == RtcSpec => []RtcSourceKnown
<1>1. RtcInv => RtcSourceKnown
  BY DEF RtcInv, SourceInv, RtcSourceKnown
<1> QED
  BY <1>1, RtcInvariance, PTL

(* Records that were read whole are stamped in the order in which they are *)
(* made, for any clock rate and any times that are set (soe.c, RTC_Time.c). *)
THEOREM RecordsAlwaysInOrder == RtcSpec => RecordsInOrder
<1>1. RtcInv /\ [RtcNext]_rtc_vars =>
        [Record /\ in_order /\ whole /\ rtc_source = "LSE" =>
           \/ recorded[1] < recorded'[1]
           \/ recorded[1] = recorded'[1] /\ recorded[2] <= recorded'[2]]_rtc_vars
  BY DEF RtcInv, OrderInv, NoLater, Record
<1> QED
  BY <1>1, RtcInvariance, PTL DEF RtcSpec, RecordsInOrder

-----------------------------------------------------------------------------
(* The CAN link.  After one quiet check the copy is the count, so that the *)
(* next check, begun or not, takes the module off line.                    *)
CanInv ==
  /\ Can_OnlineCnt \in Nat /\ quiet \in 0..2
  /\ Can_Online = 1 /\ Can_OnlineCnt < CanByte /\ quiet >= 1 =>
       quiet = 1 /\ Can_Online_Local = Can_OnlineCnt /\ can_pc \in {"idle", "gone"}
  /\ quiet = 0 /\ ~excused => Can_Online = 1

LEMMA CanStep ==
  ASSUME CanInv, [CanNext]_can_vars
  PROVE  CanInv'
<1> USE CanAssumption DEF CanInv
<1>1. CASE TiProcess
  <2>1. Can_OnlineCnt' \in Nat
    BY <1>1 DEF TiProcess
  <2> QED
    BY <1>1, <2>1 DEF TiProcess
<1>2. CASE OtherText
  BY <1>2 DEF OtherText
<1>3. CASE ErrAnswer
  BY <1>3 DEF ErrAnswer
<1>4. CASE Check
  BY <1>4 DEF Check
<1>5. CASE Copy
  <2>1. Can_OnlineCnt < CanByte => Can_OnlineCnt % CanByte = Can_OnlineCnt
    OBVIOUS
  <2> QED
    BY <1>5, <2>1 DEF Copy, Checked
<1>6. CASE Gone
  BY <1>6 DEF Gone, Checked
<1>7. CASE Can_Ticalib
  BY <1>7 DEF Can_Ticalib
<1>8. CASE UNCHANGED can_vars
  BY <1>8 DEF can_vars
<1> QED
  BY <1>1, <1>2, <1>3, <1>4, <1>5, <1>6, <1>7, <1>8 DEF CanNext

(* Up to the 256th measurement the module's silence is noticed, and one    *)
(* that sends is on line (CanBus.c, main.c), for any length of the count.  *)
THEOREM CanOnlineAlwaysTrue == CanSpec => []CanOnlineTrue
<1>1. CanInit => CanInv
  BY DEF CanInit, CanInv
<1>2. CanInv /\ [CanNext]_can_vars => CanInv'
  BY CanStep
<1>3. CanInv => CanOnlineTrue
  BY DEF CanInv, CanOnlineTrue
<1> QED
  BY <1>1, <1>2, <1>3, PTL DEF CanSpec

-----------------------------------------------------------------------------
(* The Modbus server.  As long as all segments were whole requests nothing *)
(* is left in the buffer.                                                  *)
MbusInv ==
  /\ bytes \in Seq(0..255) /\ Len(bytes) <= MAX_BUFF_SIZE
  /\ clean /\ (segment = <<>> \/ Whole(segment)) => bytes = <<>>
  /\ ModbusOutputs /\ ModbusAnswers

(* Segments, their beginnings and what is appended to a buffer.            *)
LEMMA Lengths ==
  ASSUME NEW S, NEW t \in Seq(S)
  PROVE  Len(t) \in Nat
OBVIOUS

LEMMA ElementOf ==
  ASSUME NEW S, NEW t \in Seq(S)
  PROVE  \A i \in 1..Len(t) : t[i] \in S
OBVIOUS

LEMMA Beginning ==
  ASSUME NEW S, NEW t \in Seq(S), NEW n \in Nat, n <= Len(t)
  PROVE  /\ SubSeq(t, 1, n) \in Seq(S) /\ Len(SubSeq(t, 1, n)) = n
         /\ \A i \in 1..n : SubSeq(t, 1, n)[i] = t[i]
OBVIOUS

LEMMA Appended ==
  ASSUME NEW S, NEW t \in Seq(S), NEW u \in Seq(S)
  PROVE  /\ t \o u \in Seq(S) /\ Len(t \o u) = Len(t) + Len(u)
         /\ \A i \in (Len(t) + 1)..(Len(t) + Len(u)) : (t \o u)[i] = u[i - Len(t)]
OBVIOUS

(* What a complete request is read as: its bytes, or, behind what earlier  *)
(* segments have left, something with a byte of the header for a function. *)
LEMMA RequestRead ==
  ASSUME bytes \in Seq(0..255), Len(bytes) <= MAX_BUFF_SIZE,
         NEW c \in Seq(0..255), Done(c)
  PROVE  /\ Request(c)[2] \in 0..255
         /\ Len(bytes) = 0 => \A i \in 1..6 : Request(c)[i] = SubSeq(c, 7, 12)[i]
         /\ Len(bytes) = 0 => Request(c)[2] = c[8]
         /\ Len(bytes) # 0 => ~Operates(Request(c))
<1> DEFINE k == Len(bytes)
           s == SubSeq(c, 1, 12)
<1>1. Len(c) \in Nat /\ Len(c) >= 12 /\ k \in 0..4 /\ Taken(c) = 12
  <2>1. Len(c) \in Nat /\ k \in Nat
    BY Lengths
  <2>2. Whole(c) /\ Len(c) >= 12 /\ Taken(c) = 12
    BY DEF Done, Whole
  <2>3. Taken(c) = IF 12 < 16 - k THEN 12 ELSE 16 - k
    BY <2>2 DEF Taken, Smaller, MAX_BUFF_SIZE
  <2> HIDE DEF k
  <2>4. k <= 4
    BY <2>1, <2>2, <2>3
  <2> QED
    BY <2>1, <2>2, <2>4
<1>2. s \in Seq(0..255) /\ Len(s) = 12 /\ \A i \in 1..12 : s[i] = c[i]
  <2>1. c \in Seq(0..255) /\ 12 \in Nat /\ 12 <= Len(c)
    BY <1>1
  <2> QED
    BY <2>1, Beginning
<1>3. Filled(c) = bytes \o s
  BY <1>1 DEF Filled
<1>4. /\ bytes \o s \in Seq(0..255) /\ Len(bytes \o s) = k + 12
      /\ \A i \in (k + 1)..(k + 12) : (bytes \o s)[i] = s[i - k]
  <2> HIDE DEF s
  <2>1. bytes \in Seq(0..255) /\ s \in Seq(0..255)
    BY <1>2
  <2>2. /\ bytes \o s \in Seq(0..255) /\ Len(bytes \o s) = k + Len(s)
        /\ \A i \in (k + 1)..(k + Len(s)) : (bytes \o s)[i] = s[i - k]
    BY <2>1, Appended
  <2> QED
    BY <1>2, <2>2
<1>5. \A i \in 1..6 : Request(c)[i] = c[6 + i - k]
  <2> SUFFICES ASSUME NEW i \in 1..6 PROVE Request(c)[i] = c[6 + i - k]
    OBVIOUS
  <2> HIDE DEF s, k
  <2>1. Request(c) = SubSeq(bytes \o s, 7, 12)
    BY <1>3 DEF Request
  <2>2. SubSeq(bytes \o s, 7, 12)[i] = (bytes \o s)[6 + i]
    <3> DEFINE w == bytes \o s
    <3>1. w \in Seq(0..255) /\ Len(w) \in Nat /\ Len(w) >= 12
      BY <1>1, <1>4
    <3> HIDE DEF w
    <3>2. SubSeq(w, 7, 12)[i] = w[6 + i]
      BY <3>1
    <3> QED
      BY <3>2 DEF w
  <2>3. (bytes \o s)[6 + i] = s[6 + i - k] /\ 6 + i - k \in 1..12
    BY <1>1, <1>4
  <2> QED
    BY <1>2, <2>1, <2>2, <2>3
<1>6. \A i \in 1..7 : c[i] = <<0, 0, 0, 0, 0, 6, TCPMODBUS_ADDR>>[i]
  <2> SUFFICES ASSUME NEW i \in 1..7
               PROVE  c[i] = <<0, 0, 0, 0, 0, 6, TCPMODBUS_ADDR>>[i]
    OBVIOUS
  <2>1. SubSeq(c, 1, 7)[i] = c[i]
    BY <1>1
  <2> QED
    BY <2>1 DEF Done, Whole
<1>7. k # 0 => Request(c)[2] = c[8 - k] /\ c[8 - k] # 5
  <2> HIDE DEF k
  <2>1. Request(c)[2] = c[8 - k]
    BY <1>1, <1>5
  <2>2. k # 0 => 8 - k \in 4..7
    BY <1>1
  <2>3. c[4] = 0 /\ c[5] = 0 /\ c[6] = 6 /\ c[7] = 1
    BY <1>6 DEF TCPMODBUS_ADDR
  <2> QED
    BY <2>1, <2>2, <2>3
<1>8. \A i \in 1..6 : SubSeq(c, 7, 12)[i] = c[6 + i]
  BY <1>1
<1>9. Request(c)[2] \in 0..255
  <2> HIDE DEF k
  <2>1. Request(c)[2] = c[8 - k] /\ 8 - k \in 1..Len(c)
    BY <1>1, <1>5
  <2>2. \A i \in 1..Len(c) : c[i] \in 0..255
    BY ElementOf
  <2> QED
    BY <2>1, <2>2
<1> QED
  BY <1>1, <1>5, <1>7, <1>8, <1>9 DEF Operates

(* No answer is for function 0: such a request is refused. *)
LEMMA AnswerGiven ==
  ASSUME NEW b, b[2] \in 0..255, NEW success \in BOOLEAN
  PROVE  Answer(b, success) # 0
<1>1. ~Refused(b) => b[2] # 0
  BY DEF Refused
<1>2. b[2] + 128 # 0
  OBVIOUS
<1> QED
  BY <1>1, <1>2 DEF Answer

LEMMA MbusStep ==
  ASSUME MbusInv, [MbusNext]_mbus_vars
  PROVE  MbusInv'
<1> USE DEF MbusInv
<1>1. CASE NothingYet
  BY <1>1 DEF NothingYet, ModbusOutputs, ModbusAnswers, Whole, MAX_BUFF_SIZE
<1>2. CASE TcpModbus_recv_no_arg \/ UNCHANGED mbus_vars
  BY <1>2 DEF TcpModbus_recv_no_arg, mbus_vars, ModbusOutputs, ModbusAnswers, Whole
<1>3. ASSUME NEW c \in Segments, TcpModbus_recv(c) PROVE MbusInv'
  <2>1. c \in Seq(0..255) /\ c # <<>>
    BY ModbusAssumption
  <2>2. segment' = c /\ before' = Len(bytes) /\ bytes' = Left(c)
        /\ clean' = (clean /\ (segment # <<>> => Whole(segment)))
    BY <1>3 DEF TcpModbus_recv
  <2>3. bytes' \in Seq(0..255) /\ Len(bytes') <= MAX_BUFF_SIZE
    <3>1. Len(c) \in Nat /\ Len(bytes) \in Nat /\ Len(bytes) <= 16
      <4>1. Len(c) \in Nat
        BY <2>1, Lengths
      <4>2. Len(bytes) \in Nat
        BY Lengths
      <4>3. Len(bytes) <= 16
        BY DEF MAX_BUFF_SIZE
      <4> QED
        BY ONLY <4>1, <4>2, <4>3
    <3>2. Taken(c) \in Nat /\ Taken(c) <= Len(c) /\ Taken(c) <= 16 - Len(bytes)
      BY <3>1 DEF Taken, Smaller, Whole, MAX_BUFF_SIZE
    <3>3. SubSeq(c, 1, Taken(c)) \in Seq(0..255) /\ Len(SubSeq(c, 1, Taken(c))) = Taken(c)
      BY <2>1, <3>1, <3>2, Beginning
    <3>4. Filled(c) \in Seq(0..255) /\ Len(Filled(c)) <= 16
      BY <3>1, <3>2, <3>3 DEF Filled
    <3> QED
      BY <2>2, <3>4 DEF Left, MAX_BUFF_SIZE
  <2>4. ASSUME clean', Whole(c) PROVE bytes = <<>> /\ Done(c)
    <3>1. bytes = <<>>
      BY <2>2, <2>4
    <3> QED
      BY <2>1, <2>4, <3>1 DEF Done, Whole, Taken, Smaller, MAX_BUFF_SIZE
  <2>5. clean' /\ (segment' = <<>> \/ Whole(segment')) => bytes' = <<>>
    BY <2>1, <2>2, <2>4 DEF Left, Whole
  <2>6. ModbusOutputs'
    <3> SUFFICES ASSUME executed' # 0
                 PROVE  /\ Whole(c) /\ Operates(SubSeq(c, 7, 12))
                        /\ OutputOf(SubSeq(c, 7, 12)) = executed'
      BY <2>2 DEF ModbusOutputs, Whole, Operates, OutputOf
    <3>1. Done(c) /\ Operates(Request(c)) /\ executed' = OutputOf(Request(c))
      BY <1>3 DEF TcpModbus_recv
    <3>2. \A i \in 1..6 : Request(c)[i] = SubSeq(c, 7, 12)[i]
      BY <2>1, <3>1, RequestRead
    <3> QED
      BY <3>1, <3>2 DEF Operates, OutputOf, Done
  <2>7. ModbusAnswers'
    <3> SUFFICES ASSUME Whole(c), ~unwritten'
                 PROVE  /\ clean' => answered' \in {c[8], c[8] + 128}
                        /\ Len(bytes) <= 4 => answered' # 0
      BY <2>2 DEF ModbusAnswers, Whole
    <3>1. ASSUME Done(c) PROVE \E success \in BOOLEAN : answered' = Answer(Request(c), success)
      BY <1>3, <3>1 DEF TcpModbus_recv
    <3>2. ASSUME clean' PROVE answered' \in {c[8], c[8] + 128}
      <4>1. Done(c) /\ Len(bytes) = 0
        BY <2>4, <3>2
      <4>2. Request(c)[2] = c[8]
        BY <2>1, <4>1, RequestRead
      <4> QED
        BY <3>1, <4>1, <4>2 DEF Answer
    <3>3. ASSUME Len(bytes) <= 4 PROVE answered' # 0
      <4>1. Len(bytes) \in Nat /\ Done(c)
        <5>1. Len(bytes) \in Nat
          BY Lengths
        <5> QED BY <3>3, <5>1 DEF Done, Whole, Taken, Smaller, MAX_BUFF_SIZE
      <4>2. Request(c)[2] \in 0..255
        BY <2>1, <4>1, RequestRead
      <4>3. \A success \in BOOLEAN : Answer(Request(c), success) # 0
        BY <4>2, AnswerGiven
      <4> QED
        BY <3>1, <4>1, <4>3
    <3> QED
      BY <3>2, <3>3
  <2> QED
    BY <2>3, <2>5, <2>6, <2>7
<1> QED
  BY <1>1, <1>2, <1>3 DEF MbusNext, TcpModbus_accept, TcpModbus_closed, WatchdogResets

LEMMA MbusInvariance == MbusSpec => []MbusInv
<1>1. MbusInit => MbusInv
  BY DEF MbusInit, MbusInv, ModbusOutputs, ModbusAnswers, Whole, MAX_BUFF_SIZE
<1>2. MbusInv /\ [MbusNext]_mbus_vars => MbusInv'
  BY MbusStep
<1> QED
  BY <1>1, <1>2, PTL DEF MbusSpec

(* No fragments before a segment make it operate an output that it is not  *)
(* the whole request for (tcp_modbus.c, modbus.c), whatever the segments.  *)
THEOREM OutputsOnRequest == MbusSpec => []ModbusOutputs
BY MbusInvariance, PTL DEF MbusInv

(* A master that only sends whole requests has each of them answered for   *)
(* its function, unless tcp_write drops the answer; behind no more than    *)
(* four bytes of fragments a request is answered, whatever it is taken for. *)
THEOREM RequestsAnswered == MbusSpec => []ModbusAnswers
BY MbusInvariance, PTL DEF MbusInv
-----------------------------------------------------------------------------
(* Frames.  At most one level sends unless the interrupt came into the     *)
(* main loop's frame, and the place of a sender that it did not come into  *)
(* says what is in the buffer it writes.                                   *)
OutPlaces == {"idle", "copy", "rest", "check", "give", "advance"}
MaybeFrame == Frames \cup {NoFrame}

FrameTypes ==
  /\ DMATxDescToSet \in {0, 1} /\ tx_dma \in {0, 1}
  /\ tx_own \subseteq {0, 1} /\ spoilt \subseteq {0, 1}
  /\ tx_front \in [{0, 1} -> MaybeFrame] /\ tx_rest \in [{0, 1} -> MaybeFrame]
  /\ tx_len \in [{0, 1} -> MaybeFrame]
  /\ out_pc \in [{0, 1} -> OutPlaces] /\ out_at \in [{0, 1} -> {0, 1}]
  /\ out_frame \in [{0, 1} -> MaybeFrame]
  /\ \A w \in {0, 1} : out_pc[w] # "idle" => out_frame[w] \in Frames
  /\ queue \in Seq(Frames) /\ inside \in BOOLEAN /\ crossed \in BOOLEAN

OneSender ==
  /\ out_pc[1] # "idle" => rx_pc = "input"
  /\ ~inside => out_pc[0] = "idle" \/ out_pc[1] = "idle"
  /\ inside => crossed /\ out_pc[0] # "idle"

(* The one or two descriptors that wait, and the buffer behind them.       *)
Behind == IF Len(queue) = 1 THEN 1 - tx_dma ELSE tx_dma
Holds(d, f) == tx_front[d] = f /\ tx_rest[d] = f

Waiting ==
  /\ Len(queue) \in 0..2
  /\ tx_own = (IF Len(queue) = 0 THEN {} ELSE IF Len(queue) = 1 THEN {tx_dma} ELSE {0, 1})
  /\ Len(queue) >= 1 =>
       tx_len[tx_dma] = queue[1] /\ (tx_dma \notin spoilt => Holds(tx_dma, queue[1]))
  /\ Len(queue) = 2 =>
       tx_len[1 - tx_dma] = queue[2] /\ Holds(1 - tx_dma, queue[2])
  /\ spoilt \subseteq {tx_dma} /\ (spoilt # {} => Len(queue) = 2)

SenderAt(w) ==
  /\ out_pc[w] \in {"copy", "rest", "check", "give", "advance"} => out_at[w] = DMATxDescToSet
  /\ out_pc[w] \in {"rest", "check", "give"} => tx_front[DMATxDescToSet] = out_frame[w]
  /\ out_pc[w] \in {"check", "give"} => tx_rest[DMATxDescToSet] = out_frame[w]
  /\ out_pc[w] = "give" => DMATxDescToSet \notin tx_own

Senders == SenderAt(1) /\ (~inside => SenderAt(0))

TxInv ==
  /\ FrameTypes /\ OneSender /\ Senders /\ TxIsWhole
  /\ ~crossed =>
       /\ Waiting
       /\ \A w \in {0, 1} : out_pc[w] = "advance" => DMATxDescToSet = 1 - Behind
       /\ (\A w \in {0, 1} : out_pc[w] # "advance") => DMATxDescToSet = Behind

LEMMA TwoDescriptors ==
  /\ TxDescriptors = {0, 1} /\ ETH_TXBUFNB = 2
  /\ \A d \in {0, 1} : Following(d) = 1 - d
<1>1. ETH_TXBUFNB = 2
  BY DEF ETH_TXBUFNB
<1>2. TxDescriptors = {0, 1}
  BY <1>1 DEF TxDescriptors
<1>3. (0 + 1) % 2 = 1 /\ (1 + 1) % 2 = 0
  OBVIOUS
<1> QED BY <1>1, <1>2, <1>3 DEF Following

LEMMA FramesInitInv == FramesInit => TxInv
BY TwoDescriptors DEF FramesInit, TxInv, FrameTypes, OneSender, Waiting, SenderAt, Senders,
     TxIsWhole, Behind, OutPlaces, MaybeFrame

LEMMA TypesStep ==
  ASSUME TxInv, [FramesNext]_frame_vars
  PROVE  FrameTypes'
<1> USE DEF TxInv, FrameTypes, OutPlaces, MaybeFrame, tx_vars, rx_vars, frame_vars, AtOut,
        GotoOut, Forget
<1>1. ASSUME NEW w \in {0, 1}, low_level_output(w) PROVE FrameTypes'
  <2>1. ASSUME NEW f \in Frames, ETH_GetCurrentTxBuffer(w, f) PROVE FrameTypes'
    BY <2>1 DEF ETH_GetCurrentTxBuffer
  <2>2. CASE CopyFront(w)
    BY <2>2 DEF CopyFront, Written
  <2>3. CASE CopyRest(w)
    BY <2>3 DEF CopyRest, Written
  <2>4. CASE CheckOwn(w)
    BY <2>4 DEF CheckOwn
  <2>5. CASE GiveToDma(w)
    <3>1. queue' \in Seq(Frames)
      BY <2>5 DEF GiveToDma
    <3> QED BY <2>5, <3>1 DEF GiveToDma, ReadAgain
  <2>6. CASE Advance(w)
    BY <2>6, TwoDescriptors DEF Advance, ReadAgain
  <2> QED BY <1>1, <2>1, <2>2, <2>3, <2>4, <2>5, <2>6 DEF low_level_output
<1>2. CASE Transmit
  <2>1. queue' \in Seq(Frames)
    <3>1. CASE crossed
      BY <1>2, <3>1 DEF Transmit
    <3>2. CASE ~crossed
      <4>1. Len(queue) # 0
        BY <1>2, <3>2 DEF Transmit, Waiting
      <4> QED BY <1>2, <3>2, <4>1 DEF Transmit
    <3> QED BY <3>1, <3>2
  <2> QED BY <1>2, <2>1, TwoDescriptors DEF Transmit
<1>3. ASSUME NEW parts, DmaStores(parts) PROVE FrameTypes'
  BY <1>3 DEF DmaStores
<1>4. CASE HandlerStarts \/ low_level_input \/ Handled \/ LastLook \/ ETH_DMAClearITPendingBit
  <2>1. UNCHANGED tx_vars
    BY <1>4 DEF HandlerStarts, low_level_input, Handled, LastLook, ETH_DMAClearITPendingBit
  <2> QED BY <2>1
<1>5. CASE low_level_init
  <2>1. queue' \in Seq(Frames)
    BY <1>5 DEF low_level_init
  <2>2. UNCHANGED <<tx_front, tx_rest, tx_len, out_pc, out_frame, out_at>>
    BY <1>5 DEF low_level_init
  <2>3. /\ DMATxDescToSet' = 0 /\ tx_dma' = 0 /\ tx_own' = {} /\ spoilt' = {}
        /\ crossed' = FALSE /\ inside' = inside
    BY <1>5 DEF low_level_init
  <2> QED BY <2>1, <2>2, <2>3
<1>6. CASE UNCHANGED frame_vars
  BY <1>6
<1> QED BY <1>1, <1>2, <1>3, <1>4, <1>5, <1>6 DEF FramesNext

(* Only the interrupt's first step lets two levels send. *)
LEMMA SenderStep ==
  ASSUME TxInv, [FramesNext]_frame_vars
  PROVE  OneSender'
<1> USE DEF TxInv, FrameTypes, OneSender, tx_vars, rx_vars, frame_vars, AtOut, MayStep, GotoOut,
        Forget, Sending
<1>1. ASSUME NEW w \in {0, 1}, low_level_output(w) PROVE OneSender'
  <2>1. ASSUME NEW f \in Frames, ETH_GetCurrentTxBuffer(w, f) PROVE OneSender'
    BY <2>1 DEF ETH_GetCurrentTxBuffer
  <2>2. CASE CopyFront(w) \/ CopyRest(w) \/ CheckOwn(w) \/ GiveToDma(w) \/ Advance(w)
    BY <2>2 DEF CopyFront, CopyRest, CheckOwn, GiveToDma, Advance
  <2> QED BY <1>1, <2>1, <2>2 DEF low_level_output
<1>2. CASE Transmit
  BY <1>2 DEF Transmit
<1>3. ASSUME NEW parts, DmaStores(parts) PROVE OneSender'
  BY <1>3 DEF DmaStores
<1>4. CASE HandlerStarts \/ low_level_input \/ Handled \/ LastLook \/ ETH_DMAClearITPendingBit
  BY <1>4 DEF HandlerStarts, low_level_input, Handled, LastLook, ETH_DMAClearITPendingBit,
     LooksAgain
<1>5. CASE low_level_init
  BY <1>5 DEF low_level_init
<1>6. CASE UNCHANGED frame_vars
  BY <1>6
<1> QED BY <1>1, <1>2, <1>3, <1>4, <1>5, <1>6 DEF FramesNext

(* The senders, and the frames that wait, whatever has crossed. *)
LEMMA SendersStep ==
  ASSUME TxInv, [FramesNext]_frame_vars
  PROVE  Senders' /\ TxIsWhole'
<1> USE DEF TxInv, FrameTypes, OneSender, OutPlaces, MaybeFrame
<1>1. ASSUME NEW w \in {0, 1}, low_level_output(w) PROVE Senders' /\ TxIsWhole'
  <2> DEFINE v == 1 - w
  <2>1. v \in {0, 1} /\ v # w /\ (w = 0 => v = 1) /\ (w = 1 => v = 0)
    OBVIOUS
  <2>2. w = 0 => out_pc[1] = "idle"
    BY <1>1 DEF low_level_output, ETH_GetCurrentTxBuffer, CopyFront, CopyRest, CheckOwn, GiveToDma,
       Advance, AtOut, MayStep
  <2>3. w = 0 /\ ~inside => SenderAt(0)
    BY DEF Senders
  <2>4. w = 1 => SenderAt(1)
    BY DEF Senders
  (* The main loop's own frame, once the interrupt came into it. *)
  <2>5. CASE w = 0 /\ inside /\ inside'
    <3>1. SenderAt(1)'
      <4>1. out_pc'[1] = "idle"
        BY <1>1, <2>2, <2>5 DEF low_level_output, ETH_GetCurrentTxBuffer, CopyFront, CopyRest,
           CheckOwn, GiveToDma, Advance, AtOut, GotoOut, Forget
      <4> QED BY <4>1 DEF SenderAt
    <3>2. TxIsWhole'
      <4>1. CASE CopyFront(w) \/ CopyRest(w)
        BY <4>1 DEF CopyFront, CopyRest, Written, TxIsWhole
      <4>2. CASE GiveToDma(w)
        BY <2>5, <4>2 DEF GiveToDma, ReadAgain, TxIsWhole
      <4>3. CASE CheckOwn(w) \/ Advance(w) \/ \E f \in Frames : ETH_GetCurrentTxBuffer(w, f)
        BY <4>3 DEF CheckOwn, Advance, ETH_GetCurrentTxBuffer, TxIsWhole
      <4> QED BY <1>1, <4>1, <4>2, <4>3 DEF low_level_output
    <3> QED BY <2>5, <3>1, <3>2 DEF Senders
  <2>6. CASE w = 0 /\ inside /\ ~inside'
    <3>1. CheckOwn(w) \/ Advance(w)
      BY <1>1, <2>6 DEF low_level_output, ETH_GetCurrentTxBuffer, CopyFront, CopyRest, GiveToDma
    <3>2. /\ out_pc'[0] = "idle" /\ out_pc'[1] = "idle"
          /\ UNCHANGED <<tx_own, tx_front, tx_rest, tx_len, spoilt>>
      BY <2>2, <2>6, <3>1 DEF CheckOwn, Advance, Forget, GotoOut, AtOut
    <3> QED BY <3>2 DEF Senders, SenderAt, TxIsWhole
  <2>7. CASE w = 1 \/ ~inside
    <3>1. SenderAt(w)
      BY <2>3, <2>4, <2>7
    <3>2. ASSUME NEW f \in Frames, ETH_GetCurrentTxBuffer(w, f) PROVE Senders' /\ TxIsWhole'
      <4>1. SenderAt(w)'
        BY <3>2 DEF ETH_GetCurrentTxBuffer, GotoOut, AtOut, SenderAt
      <4>2. TxIsWhole'
        BY <3>2 DEF ETH_GetCurrentTxBuffer, TxIsWhole
      <4>3. w = 0 => out_pc'[1] = "idle"
        BY <2>2, <3>2 DEF ETH_GetCurrentTxBuffer, GotoOut, AtOut
      <4>4. w = 1 /\ ~inside' => out_pc'[0] = "idle"
        <5>1. inside' = (inside \/ (w = 1 /\ Sending(0)))
          BY <3>2 DEF ETH_GetCurrentTxBuffer
        <5>2. w = 1 /\ ~inside' => out_pc[0] = "idle"
          BY <5>1, Zenon DEF Sending
        <5>3. out_pc' = [out_pc EXCEPT ![w] = "copy"]
          BY <3>2 DEF ETH_GetCurrentTxBuffer, GotoOut
        <5>4. w = 1 => out_pc'[0] = out_pc[0]
          BY <5>3
        <5> QED BY <5>2, <5>4
      <4> QED BY <2>1, <4>1, <4>2, <4>3, <4>4 DEF Senders, SenderAt
    <3>3. ASSUME ~\E f \in Frames : ETH_GetCurrentTxBuffer(w, f)
          PROVE ~inside' => out_pc[v] = "idle"
      <4>1. CASE w = 0
        BY <2>1, <2>2, <4>1
      <4>2. CASE w = 1
        BY <1>1, <2>1, <3>3, <4>2 DEF low_level_output, CopyFront, CopyRest, CheckOwn, GiveToDma,
           Advance, AtOut, GotoOut, Forget
      <4> QED BY <4>1, <4>2
    <3>4. ASSUME SenderAt(w)', out_pc' = [out_pc EXCEPT ![w] = out_pc'[w]],
                 ~\E f \in Frames : ETH_GetCurrentTxBuffer(w, f)
          PROVE  Senders'
      <4>1. ~inside' => SenderAt(v)'
        BY <2>1, <3>3, <3>4 DEF SenderAt
      <4>2. w = 0 => SenderAt(v)'
        BY <2>1, <2>2, <3>4 DEF SenderAt
      <4> QED BY <2>1, <3>4, <4>1, <4>2 DEF Senders
    <3>5. CASE CopyFront(w)
      <4>1. SenderAt(w)' /\ TxIsWhole' /\ out_pc' = [out_pc EXCEPT ![w] = "rest"]
        BY <3>1, <3>5 DEF CopyFront, Written, GotoOut, AtOut, SenderAt, TxIsWhole
      <4> QED BY <3>4, <3>5, <4>1 DEF CopyFront, ETH_GetCurrentTxBuffer, AtOut
    <3>6. CASE CopyRest(w)
      <4>1. SenderAt(w)' /\ TxIsWhole' /\ out_pc' = [out_pc EXCEPT ![w] = "check"]
        BY <3>1, <3>6 DEF CopyRest, Written, GotoOut, AtOut, SenderAt, TxIsWhole
      <4> QED BY <3>4, <3>6, <4>1 DEF CopyRest, ETH_GetCurrentTxBuffer, AtOut
    <3>7. CASE CheckOwn(w)
      <4>1. SenderAt(w)' /\ TxIsWhole' /\ out_pc' = [out_pc EXCEPT ![w] = out_pc'[w]]
        BY <3>1, <3>7 DEF CheckOwn, Forget, OwnedByDma, GotoOut, AtOut, SenderAt, TxIsWhole
      <4> QED BY <3>4, <3>7, <4>1 DEF CheckOwn, ETH_GetCurrentTxBuffer, AtOut
    <3>8. CASE GiveToDma(w)
      <4> DEFINE d == DMATxDescToSet
      <4>1. /\ out_pc[w] = "give" /\ out_at[w] = d /\ d \in {0, 1} /\ out_frame[w] \in Frames
            /\ tx_front[d] = out_frame[w] /\ tx_rest[d] = out_frame[w]
        BY <3>1, <3>8 DEF GiveToDma, AtOut, SenderAt
      <4>2. /\ tx_len' = [tx_len EXCEPT ![d] = out_frame[w]] /\ tx_own' = tx_own \cup {d}
            /\ spoilt' = spoilt \ {d} /\ out_at'[w] = d
            /\ UNCHANGED <<DMATxDescToSet, tx_front, tx_rest>>
            /\ out_pc' = [out_pc EXCEPT ![w] = "advance"]
        <5>1. w \in {0, 1} /\ ~(w = 0 /\ inside)
          BY <2>7
        <5>2. ReadAgain(w) = {d}
          BY <4>1 DEF ReadAgain
        <5>3. PICK e \in ReadAgain(w) :
                /\ tx_len' = [tx_len EXCEPT ![e] = out_frame[w]] /\ tx_own' = tx_own \cup {e}
                /\ spoilt' = IF w = 0 /\ inside THEN spoilt \cup {e} ELSE spoilt \ {e}
                /\ out_at' = [out_at EXCEPT ![w] = e]
          BY <3>8, Zenon DEF GiveToDma
        <5>4. e = d
          BY <5>2, <5>3
        <5>5. spoilt' = spoilt \ {d}
          BY <5>1, <5>3, <5>4, Zenon
        <5>6. /\ UNCHANGED <<DMATxDescToSet, tx_front, tx_rest>>
              /\ out_pc' = [out_pc EXCEPT ![w] = "advance"]
          BY <3>8 DEF GiveToDma, GotoOut
        <5> QED BY <5>3, <5>4, <5>5, <5>6
      <4>3. TxIsWhole'
        BY <4>1, <4>2 DEF TxIsWhole
      <4>4. SenderAt(w)'
        BY <4>1, <4>2 DEF SenderAt
      <4> QED BY <3>4, <3>8, <4>2, <4>3, <4>4 DEF GiveToDma, ETH_GetCurrentTxBuffer, AtOut
    <3>9. CASE Advance(w)
      <4>1. SenderAt(w)' /\ TxIsWhole' /\ out_pc' = [out_pc EXCEPT ![w] = "idle"]
        BY <3>9 DEF Advance, Forget, GotoOut, AtOut, SenderAt, TxIsWhole
      <4> QED BY <3>4, <3>9, <4>1 DEF Advance, ETH_GetCurrentTxBuffer, AtOut
    <3> QED BY <1>1, <3>2, <3>5, <3>6, <3>7, <3>8, <3>9 DEF low_level_output
  <2> QED BY <2>5, <2>6, <2>7
<1>2. CASE Transmit
  BY <1>2, TwoDescriptors DEF Transmit, Senders, SenderAt, TxIsWhole
<1>3. CASE UNCHANGED tx_vars
  BY <1>3 DEF tx_vars, Senders, SenderAt, TxIsWhole
<1>4. CASE low_level_init
  <2>1. /\ out_pc[0] = "idle" /\ out_pc[1] = "idle"
        /\ tx_own' = {} /\ UNCHANGED <<out_pc, inside>>
    BY <1>4 DEF low_level_init, Sending
  <2> QED BY <2>1 DEF Senders, SenderAt, TxIsWhole
<1> QED
  BY <1>1, <1>2, <1>3, <1>4 DEF FramesNext, DmaStores, HandlerStarts, low_level_input, Handled,
     LastLook, ETH_DMAClearITPendingBit, frame_vars

(* What is proved of the steps as long as frames are not crossed. *)
Aligned ==
  /\ Waiting
  /\ \A w \in {0, 1} : SenderAt(w) /\ (out_pc[w] = "advance" => DMATxDescToSet = 1 - Behind)
  /\ (\A w \in {0, 1} : out_pc[w] # "advance") => DMATxDescToSet = Behind

LEMMA OutputAligned ==
  ASSUME TxInv, NEW w \in {0, 1}, low_level_output(w), ~crossed'
  PROVE  Aligned'
<1> DEFINE v == 1 - w
<1> USE DEF FrameTypes, OutPlaces, MaybeFrame, AtOut, GotoOut, Forget
<1>0. v \in {0, 1} /\ v # w /\ \A u \in {0, 1} : u = v \/ u = w
  OBVIOUS
<1>1. FrameTypes /\ ~crossed /\ ~inside /\ Aligned
  <2>1. ~crossed
    BY DEF low_level_output, ETH_GetCurrentTxBuffer, CopyFront, CopyRest, CheckOwn, GiveToDma,
       Advance
  <2> QED BY <2>1 DEF TxInv, OneSender, Senders, Aligned
<1>2. ASSUME NEW f \in Frames, ETH_GetCurrentTxBuffer(w, f) PROVE Aligned'
  <2>1. out_pc[v] = "idle"
    <3>1. CASE w = 0
      BY <1>2, <3>1 DEF ETH_GetCurrentTxBuffer, MayStep, TxInv, OneSender
    <3>2. CASE w = 1
      <4> HIDE DEF FrameTypes, OutPlaces, MaybeFrame
      <4>1. crossed' = (crossed \/ inside \/ (w = 1 /\ out_pc[0] # "idle"))
        BY <1>2 DEF ETH_GetCurrentTxBuffer, Sending
      <4>2. out_pc[0] = "idle"
        BY <4>1, <3>2
      <4> QED BY <3>2, <4>2
    <3> QED BY <1>0, <3>1, <3>2
  <2> QED BY <1>0, <1>1, <1>2, <2>1 DEF ETH_GetCurrentTxBuffer, Aligned, Waiting, SenderAt,
          Behind, Holds
<1>3. ASSUME out_pc[w] # "idle" PROVE out_pc[v] = "idle"
  BY <1>1, <1>3 DEF TxInv, OneSender
<1>4. CASE CopyFront(w)
  <2>1. out_pc[v] = "idle" /\ out_pc[w] = "copy" /\ out_at[w] = DMATxDescToSet
    BY <1>0, <1>1, <1>3, <1>4 DEF CopyFront, Aligned, SenderAt
  <2>2. Waiting'
    BY <1>1, <1>4, <2>1 DEF CopyFront, Written, Aligned, Waiting, Holds, Behind
  <2>3. SenderAt(w)' /\ SenderAt(v)'
    BY <1>0, <1>1, <1>4, <2>1 DEF CopyFront, Aligned, SenderAt, Behind
  <2> QED BY <1>0, <1>1, <1>4, <2>1, <2>2, <2>3 DEF CopyFront, Aligned, Behind
<1>5. CASE CopyRest(w)
  <2>1. out_pc[v] = "idle" /\ out_pc[w] = "rest" /\ out_at[w] = DMATxDescToSet
    BY <1>0, <1>1, <1>3, <1>5 DEF CopyRest, Aligned, SenderAt
  <2>2. Waiting'
    BY <1>1, <1>5, <2>1 DEF CopyRest, Written, Aligned, Waiting, Holds, Behind
  <2>3. SenderAt(w)' /\ SenderAt(v)'
    BY <1>0, <1>1, <1>5, <2>1 DEF CopyRest, Aligned, SenderAt, Behind
  <2> QED BY <1>0, <1>1, <1>5, <2>1, <2>2, <2>3 DEF CopyRest, Aligned, Behind
<1>6. CASE CheckOwn(w)
  <2>1. out_pc[v] = "idle" /\ out_pc[w] = "check"
    BY <1>0, <1>1, <1>3, <1>6 DEF CheckOwn
  <2>2. Waiting'
    BY <1>1, <1>6 DEF CheckOwn, Aligned, Waiting, Holds
  <2>3. SenderAt(w)' /\ SenderAt(v)'
    BY <1>0, <1>1, <1>6, <2>1 DEF CheckOwn, Aligned, SenderAt, Behind, OwnedByDma
  <2> QED BY <1>0, <1>1, <1>6, <2>1, <2>2, <2>3 DEF CheckOwn, Aligned, Behind
<1>7. CASE GiveToDma(w)
  <2> DEFINE d == DMATxDescToSet
  <2>1. /\ out_pc[v] = "idle" /\ out_pc[w] = "give" /\ out_at[w] = d /\ d \notin tx_own
        /\ d = Behind /\ Holds(d, out_frame[w]) /\ out_frame[w] \in Frames
    BY <1>0, <1>1, <1>3, <1>7 DEF GiveToDma, Aligned, SenderAt, Holds
  <2>2. /\ queue' = Append(queue, out_frame[w]) /\ tx_len' = [tx_len EXCEPT ![d] = out_frame[w]]
        /\ tx_own' = tx_own \cup {d} /\ spoilt' = spoilt \ {d} /\ out_at'[w] = d
        /\ UNCHANGED <<DMATxDescToSet, tx_dma, tx_front, tx_rest>>
        /\ out_pc' = [out_pc EXCEPT ![w] = "advance"]
    BY <1>1, <1>7, <2>1 DEF GiveToDma, ReadAgain
  <2>3. Len(queue) \in {0, 1}
    BY <1>1, <2>1 DEF Aligned, Waiting
  <2>4. /\ Len(queue') = Len(queue) + 1 /\ queue'[Len(queue) + 1] = out_frame[w]
        /\ Len(queue) = 1 => queue'[1] = queue[1]
    BY <1>1, <2>1, <2>2, <2>3
  <2>5. spoilt = {}
    BY <1>1, <2>3 DEF Aligned, Waiting
  <2>6. Waiting'
    <3>1. CASE Len(queue) = 0
      BY <1>1, <2>1, <2>2, <2>4, <2>5, <3>1 DEF Aligned, Waiting, Holds, Behind
    <3>2. CASE Len(queue) = 1
      BY <1>1, <2>1, <2>2, <2>4, <2>5, <3>2 DEF Aligned, Waiting, Holds, Behind
    <3> QED BY <2>3, <3>1, <3>2
  <2>7. Behind' = 1 - d
    BY <1>1, <2>1, <2>2, <2>3, <2>4 DEF Behind
  <2>8. SenderAt(w)' /\ SenderAt(v)'
    BY <1>0, <1>1, <2>1, <2>2 DEF SenderAt
  <2>9. out_pc'[w] = "advance" /\ out_pc'[v] = "idle" /\ DMATxDescToSet' = 1 - Behind'
    BY <1>0, <1>1, <2>1, <2>2, <2>7
  <2> QED BY <1>0, <2>6, <2>8, <2>9 DEF Aligned
<1>8. CASE Advance(w)
  <2>1. /\ out_pc[v] = "idle" /\ out_pc[w] = "advance" /\ out_at[w] = DMATxDescToSet
        /\ DMATxDescToSet = 1 - Behind
    BY <1>0, <1>1, <1>3, <1>8 DEF Advance, Aligned, SenderAt
  <2>1a. out_pc'[w] = "idle" /\ out_pc'[v] = "idle"
    BY <1>0, <1>1, <1>8, <2>1 DEF Advance
  <2>2. DMATxDescToSet' = 1 - DMATxDescToSet
    BY <1>1, <1>8, <2>1, TwoDescriptors DEF Advance, ReadAgain
  <2>3. DMATxDescToSet' = Behind
    BY <1>1, <2>1, <2>2 DEF Behind
  <2>4. UNCHANGED <<tx_dma, tx_own, tx_front, tx_rest, tx_len, queue, spoilt>>
    BY <1>8 DEF Advance
  <2>5. Waiting' /\ Behind' = Behind
    BY <1>1, <2>4 DEF Aligned, Waiting, Holds, Behind
  <2>6. SenderAt(w)' /\ SenderAt(v)'
    BY <1>0, <1>1, <1>8, <2>1 DEF Advance, SenderAt
  <2> QED BY <1>0, <2>1a, <2>3, <2>5, <2>6 DEF Aligned
<1> QED BY <1>2, <1>4, <1>5, <1>6, <1>7, <1>8 DEF low_level_output

LEMMA TransmitAligned ==
  ASSUME TxInv, Transmit, ~crossed
  PROVE  Aligned'
<1> USE DEF FrameTypes, OutPlaces, MaybeFrame
<1>1. FrameTypes /\ Aligned
  BY DEF TxInv, OneSender, Senders, Aligned
<1>2. Len(queue) \in {1, 2}
  BY <1>1 DEF Transmit, Aligned, Waiting
<1>3. /\ tx_own' = tx_own \ {tx_dma} /\ tx_dma' = 1 - tx_dma /\ spoilt' = {} /\ queue' = Tail(queue)
      /\ UNCHANGED <<DMATxDescToSet, tx_front, tx_rest, tx_len, out_pc, out_frame, out_at>>
  BY <1>1, TwoDescriptors DEF Transmit, Aligned, Waiting
<1>4. Len(queue') = Len(queue) - 1 /\ (Len(queue) = 2 => queue'[1] = queue[2])
  BY <1>1, <1>2, <1>3
<1>5. Waiting'
  <2>1. CASE Len(queue) = 1
    BY <1>1, <1>3, <1>4, <2>1 DEF Aligned, Waiting, Holds
  <2>2. CASE Len(queue) = 2
    <3>1. Len(queue') = 1 /\ queue'[1] = queue[2]
      BY <1>4, <2>2
    <3>2. tx_len[1 - tx_dma] = queue[2] /\ Holds(1 - tx_dma, queue[2]) /\ tx_own = {0, 1}
      BY <1>1, <2>2 DEF Aligned, Waiting
    <3>3. tx_own' = {tx_dma'}
      BY <1>1, <1>3, <3>2
    <3>4. tx_len'[tx_dma'] = queue'[1] /\ Holds(tx_dma, queue[1])'
      BY <1>3, <3>1, <3>2 DEF Holds
    <3> QED BY <1>3, <3>1, <3>3, <3>4 DEF Waiting
  <2> QED BY <1>2, <2>1, <2>2
<1>6. Behind' = Behind
  BY <1>1, <1>2, <1>3, <1>4 DEF Behind
<1>7. ASSUME NEW w \in {0, 1} PROVE SenderAt(w)'
  BY <1>1, <1>3, <1>6 DEF Aligned, SenderAt
<1> QED BY <1>1, <1>3, <1>5, <1>6, <1>7 DEF Aligned

LEMMA TxStep ==
  ASSUME TxInv, [FramesNext]_frame_vars
  PROVE  TxInv'
<1>1. ASSUME NEW w \in {0, 1}, low_level_output(w), ~crossed' PROVE Aligned'
  BY <1>1, OutputAligned
<1>2. ASSUME Transmit, ~crossed' PROVE Aligned'
  <2>1. ~crossed
    BY <1>2 DEF Transmit
  <2> QED BY <1>2, <2>1, TransmitAligned
<1>3. ASSUME UNCHANGED tx_vars, ~crossed' PROVE Aligned'
  BY <1>3 DEF TxInv, OneSender, Senders, Aligned, Waiting, SenderAt, Holds, Behind, tx_vars
<1>4. ASSUME low_level_init PROVE Aligned'
  <2>1. out_pc[0] = "idle" /\ out_pc[1] = "idle"
    BY <1>4 DEF low_level_init, TxInv, OneSender, Sending
  <2> QED BY <1>4, <2>1 DEF low_level_init, Aligned, Waiting, SenderAt, Holds, Behind
<1>5. ~crossed' => Aligned'
  BY <1>1, <1>2, <1>3, <1>4 DEF FramesNext, DmaStores, HandlerStarts, low_level_input, Handled,
     LastLook,
     ETH_DMAClearITPendingBit, frame_vars
<1> QED BY <1>5, TypesStep, SenderStep, SendersStep DEF TxInv, Aligned

(* Whatever is sent from the main loop and the interrupt, the frames that  *)
(* wait are a queue as long as the two do not cross; and a crossing cuts   *)
(* no frame but the one that it comes into, and those that are copied over *)
(* while they wait, although the descriptors are out of step after it.     *)
THEOREM FramesSound == FramesSpec => []TxSound
<1>1. TxInv => TxIsQueue
  <2> SUFFICES ASSUME TxInv, ~crossed PROVE TxIsQueue
    BY DEF TxIsQueue
  <2> DEFINE n == Len(queue)
             Ahead(k) == (tx_dma + k) % ETH_TXBUFNB
  <2>1. Waiting /\ FrameTypes /\ n \in {0, 1, 2}
    BY DEF TxInv, Waiting
  <2>1a. n \in {0, 1, 2}
    BY <2>1
  <2>2. Ahead(0) = tx_dma /\ Ahead(1) = 1 - tx_dma /\ Ahead(2) = tx_dma
    BY <2>1, TwoDescriptors DEF FrameTypes
  <2>3. tx_own = {Ahead(k) : k \in 0 .. n - 1} /\ n <= ETH_TXBUFNB
    <3>1. n = 0 => 0 .. n - 1 = {}
      OBVIOUS
    <3>2. n = 1 => 0 .. n - 1 = {0}
      OBVIOUS
    <3>3. n = 2 => 0 .. n - 1 = {0, 1}
      OBVIOUS
    <3> HIDE DEF Ahead
    <3>4. n = 2 => {Ahead(k) : k \in 0 .. n - 1} = {0, 1}
      BY <2>1, <2>2, <3>3 DEF FrameTypes
    <3>5. n = 0 => {Ahead(k) : k \in 0 .. n - 1} = {}
      BY <3>1
    <3>6. n = 1 => {Ahead(k) : k \in 0 .. n - 1} = {tx_dma}
      BY <2>2, <3>2
    <3>7. tx_own = IF n = 0 THEN {} ELSE IF n = 1 THEN {tx_dma} ELSE {0, 1}
      BY <2>1 DEF Waiting
    <3>8. n <= ETH_TXBUFNB
      <4>1. ETH_TXBUFNB = 2
        BY DEF ETH_TXBUFNB
      <4> HIDE DEF n
      <4> QED BY <2>1a, <4>1
    <3> QED BY <2>1, <3>4, <3>5, <3>6, <3>7, <3>8
  <2>4. (\A w \in {0, 1} : out_pc[w] # "advance") => DMATxDescToSet = Ahead(n)
    BY <2>1, <2>2 DEF TxInv, Behind
  <2>5. \A k \in 1 .. n :
          /\ tx_len[Ahead(k - 1)] = queue[k]
          /\ Ahead(k - 1) \notin spoilt => tx_front[Ahead(k - 1)] = queue[k]
                  /\ tx_rest[Ahead(k - 1)] = queue[k]
    <3> HIDE DEF Ahead
    <3> SUFFICES ASSUME NEW k \in 1 .. n
                 PROVE  /\ tx_len[Ahead(k - 1)] = queue[k]
                        /\ Ahead(k - 1) \notin spoilt =>
                             tx_front[Ahead(k - 1)] = queue[k] /\ tx_rest[Ahead(k - 1)] = queue[k]
      OBVIOUS
    <3>1. n >= 1 /\ (k = 1 \/ (k = 2 /\ n = 2))
      <4> HIDE DEF n
      <4> QED BY <2>1a
    <3>2. CASE k = 1
      <4>1. Ahead(k - 1) = tx_dma
        BY <2>2, <3>2
      <4> QED BY <2>1, <3>1, <3>2, <4>1 DEF Waiting, Holds
    <3>3. CASE k = 2 /\ n = 2
      <4>1. Ahead(k - 1) = 1 - tx_dma
        BY <2>2, <3>3
      <4> QED BY <2>1, <3>3, <4>1 DEF Waiting, Holds
    <3> QED BY <3>1, <3>2, <3>3
  <2>6. spoilt # {} => n = ETH_TXBUFNB
    BY <2>1, TwoDescriptors DEF Waiting
  <2> HIDE DEF Ahead
  <2> QED BY <2>3, <2>4, <2>5, <2>6 DEF TxIsQueue, Ahead
<1>2. TxInv /\ [FramesNext]_frame_vars => TxInv'
  BY TxStep
<1>3. TxInv => TxSound
  BY <1>1 DEF TxInv, TxSound
<1> QED BY <1>2, <1>3, FramesInitInv, PTL DEF FramesSpec

(* Reception.  What waits when the handler ends came after its last look.  *)
RxInv ==
  /\ rx \in Seq({"whole", "first", "last"}) /\ late \in Nat
  /\ rx_pc = "clear" /\ (rx = <<>> \/ SizeIsNot0) => Len(rx) <= late
  /\ RxNoticed

LEMMA RxStep ==
  ASSUME RxInv, [FramesNext]_frame_vars
  PROVE  RxInv'
<1> USE DEF RxInv, RxNoticed, SizeIsNot0, tx_vars, rx_vars, frame_vars
<1>1. ASSUME NEW w \in {0, 1}, low_level_output(w) PROVE RxInv'
  BY <1>1 DEF low_level_output, ETH_GetCurrentTxBuffer, CopyFront, CopyRest, CheckOwn, GiveToDma,
     Advance
<1>2. CASE Transmit
  BY <1>2 DEF Transmit
<1>3. ASSUME NEW parts \in {<<"whole">>, Long}, DmaStores(parts) PROVE RxInv'
  <2>1. parts \in {<<"whole">>, <<"first">>, <<"first", "last">>}
    BY DEF Long
  <2>2. /\ parts \in Seq({"whole", "first", "last"}) /\ Len(parts) \in {1, 2}
        /\ rx' = rx \o parts /\ rx_pending' /\ rx_pc' = rx_pc
        /\ late' = IF rx_pc = "clear" THEN late + Len(parts) ELSE late
    BY <1>3, <2>1 DEF DmaStores
  <2>3. /\ rx' \in Seq({"whole", "first", "last"}) /\ Len(rx') = Len(rx) + Len(parts)
        /\ rx # <<>> => Head(rx') = Head(rx)
    BY <2>2
  <2> QED BY <2>2, <2>3
<1>4. CASE low_level_input
  <2>1. rx' \in Seq({"whole", "first", "last"})
    BY <1>4 DEF low_level_input
  <2> QED BY <1>4, <2>1 DEF low_level_input
<1>5. CASE HandlerStarts \/ Handled \/ LastLook \/ ETH_DMAClearITPendingBit
  BY <1>5 DEF HandlerStarts, Handled, LooksAgain, LastLook, ETH_DMAClearITPendingBit
<1>6. CASE low_level_init
  BY <1>6 DEF low_level_init
<1>7. CASE UNCHANGED frame_vars
  BY <1>7
<1> QED BY <1>1, <1>2, <1>3, <1>4, <1>5, <1>6, <1>7 DEF FramesNext

(* A whole frame that nobody was told of came between the handler's last   *)
(* look and its end, and so did all those behind it.                       *)
THEOREM FramesNoticed == FramesSpec => []RxNoticed
<1>1. FramesInit => RxInv
  BY DEF FramesInit, RxInv, RxNoticed, SizeIsNot0
<1>2. RxInv /\ [FramesNext]_frame_vars => RxInv'
  BY RxStep
<1>3. RxInv => RxNoticed
  BY DEF RxInv
<1> QED BY <1>1, <1>2, <1>3, PTL DEF FramesSpec
-----------------------------------------------------------------------------
(* The station: whichever part runs, the others stand still.               *)

LEMMA PartSteps ==
  ASSUME [StationNext]_station_vars
  PROVE  /\ [ShellNext]_shell_vars /\ [TcpNext]_pcb_vars /\ [FramesNext]_frame_vars
         /\ [MbusNext]_mbus_vars /\ [CanNext]_can_vars /\ [RtcNext]_rtc_vars
<1>1. CASE ShellRuns \/ TcpRuns \/ FramesRun
  BY <1>1 DEF ShellRuns, TcpRuns, FramesRun
<1>2. CASE ModbusRuns \/ CanRuns \/ RtcRuns
  BY <1>2 DEF ModbusRuns, CanRuns, RtcRuns
<1>3. CASE UNCHANGED station_vars
  BY <1>3 DEF station_vars
<1> QED BY <1>1, <1>2, <1>3 DEF StationNext

(* The station's behaviours are behaviours of each of its parts, so that   *)
(* what is proved of a part is proved of the station.                      *)
THEOREM StationParts ==
  StationSpec => /\ ShellSpec /\ TcpSpec /\ FramesSpec
                 /\ MbusSpec /\ CanSpec /\ RtcSpec
<1>1. StationInit => /\ ShellInit /\ TcpInit /\ FramesInit
                     /\ MbusInit /\ CanInit /\ RtcInit
  BY DEF StationInit
<1>2. [StationNext]_station_vars =>
        /\ [ShellNext]_shell_vars /\ [TcpNext]_pcb_vars /\ [FramesNext]_frame_vars
        /\ [MbusNext]_mbus_vars /\ [CanNext]_can_vars /\ [RtcNext]_rtc_vars
  BY PartSteps
<1> QED
  BY <1>1, <1>2, PTL DEF StationSpec, ShellSpec, TcpSpec, FramesSpec, MbusSpec, CanSpec, RtcSpec

(* The shell's variables and the connections' pointers are what they are   *)
(* taken for, in every state of the station.                               *)
THEOREM StationTypes == StationSpec => []StationTypeOK
<1>1. ShellTypeOK /\ TcpTypeOK => StationTypeOK
  BY DEF StationTypeOK
<1> QED BY <1>1, StationParts, ShellTypeCorrect, TcpTypeCorrect, PTL

(* What the run of the station checks on a small instance holds of it for  *)
(* every value of the constants: that the shells' questions are answered   *)
(* for what was asked, the list of connections is sound and the servers    *)
(* hear of each end once, the transmit queue is whole and no frame waits   *)
(* unnoticed, outputs move for whole requests, and CAN and clock tell the  *)
(* truth.                                                                  *)
THEOREM StationSafe ==
  StationSpec =>
    /\ [](DialogueSound /\ ListSound /\ TextsReachSession /\ TxSound /\ RxNoticed)
    /\ [](ModbusOutputs /\ ModbusAnswers /\ CanOnlineTrue /\ RtcSourceKnown)
    /\ OutputAsAsked /\ StoredAsAsked /\ CallbacksAsPromised /\ RecordsInOrder
<1>1. StationSpec => [](DialogueSound /\ ListSound /\ TextsReachSession)
  BY StationParts, DialogueAlwaysSound, ListSoundAlways, TextsAlwaysReach, PTL
<1>2. StationSpec => [](TxSound /\ RxNoticed /\ ModbusOutputs /\ ModbusAnswers)
  BY StationParts, FramesSound, FramesNoticed, OutputsOnRequest, RequestsAnswered, PTL
<1>3. StationSpec => [](CanOnlineTrue /\ RtcSourceKnown)
  BY StationParts, CanOnlineAlwaysTrue, RtcSource, PTL
<1>4. StationSpec => OutputAsAsked /\ StoredAsAsked /\ CallbacksAsPromised /\ RecordsInOrder
  BY StationParts, OutputsAsAsked, SettingsAsAsked, Refinement, RecordsAlwaysInOrder
<1> QED BY <1>1, <1>2, <1>3, <1>4, PTL
=============================================================================
