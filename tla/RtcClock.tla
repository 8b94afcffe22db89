------------------------------ MODULE RtcClock ------------------------------
(***************************************************************************)
(* The real-time clock: RTC_Configuration and RTC_Init at every start      *)
(* (bsp.c), with the registers of the backup domain that outlive a reset,  *)
(* and the stamps that soe_engine and error_engine (soe.c) take from the   *)
(* running clock in three reads: the low half of the counter, the high     *)
(* half, the milliseconds from the divider.                                *)
(***************************************************************************)
EXTENDS Integers

CONSTANTS
  Crystal,   \* 32767: the divider's start with the crystal (LSE)
  Fast,      \* 195312: with the main oscillator (HSE)
  HalfWord,  \* 2^16: the range of a half of the counter
  LongWord,  \* 2^32: the range of the arithmetic of Get_Msec
  Settings   \* the times the clock is set to

ASSUME RtcAssumption ==
  /\ Crystal \in Nat \ {0} /\ Fast \in Nat \ {0} /\ HalfWord \in Nat \ {0}
  /\ LongWord \in Nat /\ Crystal * 1000 < LongWord
  /\ Settings \subseteq 0..(HalfWord * HalfWord - 1)

VARIABLES
  BKP_DR1,       \* the mark 0xA5A5 is set
  BKP_DR2,       \* the clock noted: "LSE", "HSE" or "none" (0)
  rtc_source,    \* the clock and the divider's start in use
  counter, divider,
  rtc_pc,        \* RTC_Configuration, then "running"
  bak_dr,        \* it has found the mark
  clk_source,    \* the clock it has chosen
  soe_pc, low, timetamp,   \* soe_engine's reads
  recorded,      \* the stamp of the last record
  whole,         \* history: no second ended and nobody set the clock during the reads
  in_order       \* history: nor since the last record, itself read whole

backup == <<BKP_DR1, BKP_DR2>>
clock == <<rtc_source, counter, divider>>
start == <<rtc_pc, bak_dr, clk_source>>
stamp == <<soe_pc, low, timetamp, recorded, whole, in_order>>
rtc_vars == <<backup, clock, start, stamp>>

Sources == {"LSE", "HSE"}
StartOf(source) == IF source = "HSE" THEN Fast ELSE Crystal

RtcInit ==
  /\ BKP_DR1 = FALSE /\ BKP_DR2 = "none"
  /\ rtc_source = "none" /\ counter = 0 /\ divider = 0
  /\ rtc_pc = "wait" /\ bak_dr = FALSE /\ clk_source = "LSE"
  /\ soe_pc = "idle" /\ low = 0 /\ timetamp = 0
  /\ recorded = <<0, 0>> /\ whole = TRUE /\ in_order = FALSE

(* Mutants used to show that the properties below can fail: the choice is  *)
(* noted, not the result; the milliseconds are counted down.               *)
ChoiceNoted ==
  /\ rtc_pc = "note"
  /\ BKP_DR2' = clk_source /\ rtc_pc' = "running"
  /\ UNCHANGED <<BKP_DR1, clock, bak_dr, clk_source, stamp>>
CountedDown == (divider * 1000) \div Crystal

-----------------------------------------------------------------------------
(* RTC_Configuration waits for the crystal.                                *)
WaitLse ==
  /\ rtc_pc = "wait"
  /\ clk_source' \in Sources /\ bak_dr' = BKP_DR1
  /\ rtc_pc' = IF BKP_DR1 /\ BKP_DR2 = clk_source' THEN "running" ELSE "init"
  /\ UNCHANGED <<backup, clock, stamp>>

(* RTC_Init resets the whole domain, the counter with it ...               *)
BKP_DeInit ==
  /\ rtc_pc = "init"
  /\ BKP_DR1' = FALSE /\ BKP_DR2' = "none"
  /\ rtc_source' = "none" /\ counter' = 0 /\ divider' = 0
  /\ rtc_pc' = "select"
  /\ UNCHANGED <<bak_dr, clk_source, stamp>>

(* ... and selects the clock.  The crystal, stopped by the reset, may not  *)
(* be ready again: the main oscillator is taken instead, but only by a     *)
(* start that found the mark: otherwise no clock is.                       *)
Select ==
  /\ rtc_pc = "select"
  /\ rtc_source' = clk_source /\ divider' = StartOf(clk_source)
  /\ rtc_pc' = "mark"
  /\ UNCHANGED <<backup, counter, bak_dr, clk_source, stamp>>

LseNotReady ==
  /\ rtc_pc = "select" /\ clk_source = "LSE"
  /\ IF bak_dr THEN rtc_pc' = "init" /\ clk_source' = "HSE"
     ELSE rtc_pc' = "mark" /\ UNCHANGED clk_source
  /\ UNCHANGED <<backup, clock, bak_dr, stamp>>

(* The mark and the note are written one after the other.                  *)
WriteMark ==
  /\ rtc_pc = "mark"
  /\ BKP_DR1' = TRUE /\ rtc_pc' = "note"
  /\ UNCHANGED <<BKP_DR2, clock, bak_dr, clk_source, stamp>>

WriteNote ==
  /\ rtc_pc = "note"
  /\ BKP_DR2' = rtc_source /\ rtc_pc' = "running"
  /\ UNCHANGED <<BKP_DR1, clock, bak_dr, clk_source, stamp>>

(* A reset at any time; the backup domain is lost if the battery is.       *)
Start ==
  /\ rtc_pc' = "wait" /\ UNCHANGED <<bak_dr, clk_source>>
  /\ soe_pc' = "idle" /\ in_order' = FALSE
  /\ UNCHANGED <<low, timetamp, recorded, whole>>

BoardReset == Start /\ UNCHANGED <<backup, clock>>

BatteryLost ==
  /\ Start
  /\ BKP_DR1' = FALSE /\ BKP_DR2' = "none"
  /\ rtc_source' = "none" /\ counter' = 0 /\ divider' = 0

-----------------------------------------------------------------------------
(* The clock runs. *)
Tick ==
  /\ rtc_source # "none" /\ divider > 0
  /\ divider' = divider - 1
  /\ UNCHANGED <<backup, rtc_source, counter, start, stamp>>

SecondEnds ==
  /\ rtc_source # "none" /\ divider = 0 /\ counter < HalfWord * HalfWord - 1
  /\ divider' = StartOf(rtc_source) /\ counter' = counter + 1
  /\ whole' = FALSE
  /\ UNCHANGED <<backup, rtc_source, start, soe_pc, low, timetamp, recorded, in_order>>

(* Time_SetUnixTime: from the shell, the UDP telegram or the 103 master.   *)
Time_SetUnixTime ==
  /\ rtc_pc = "running" /\ rtc_source # "none"
  /\ \E t \in Settings : counter' = t
  /\ whole' = FALSE /\ in_order' = FALSE
  /\ UNCHANGED <<backup, rtc_source, divider, start, soe_pc, low, timetamp, recorded>>

-----------------------------------------------------------------------------
(* soe_engine.  RTC_GetCounter reads the low half and then the high one.   *)
ReadLow ==
  /\ rtc_pc = "running" /\ soe_pc = "idle"
  /\ low' = counter % HalfWord /\ whole' = TRUE /\ soe_pc' = "high"
  /\ UNCHANGED <<backup, clock, start, timetamp, recorded, in_order>>

ReadHigh ==
  /\ soe_pc = "high"
  /\ timetamp' = (counter \div HalfWord) * HalfWord + low /\ soe_pc' = "msec"
  /\ UNCHANGED <<backup, clock, start, low, recorded, whole, in_order>>

(* Get_Msec, whatever the divider's start, in 32 bits, kept in 16.         *)
Get_Msec == ((((Crystal - divider) * 1000) % LongWord) \div Crystal) % 65536

Record ==
  /\ soe_pc = "msec"
  /\ recorded' = <<timetamp, Get_Msec>> /\ in_order' = whole /\ soe_pc' = "idle"
  /\ UNCHANGED <<backup, clock, start, low, timetamp, whole>>

RtcNext ==
  \/ WaitLse \/ BKP_DeInit \/ Select \/ LseNotReady \/ WriteMark \/ WriteNote
  \/ BoardReset \/ BatteryLost
  \/ Tick \/ SecondEnds \/ Time_SetUnixTime
  \/ ReadLow \/ ReadHigh \/ Record

RtcSpec == RtcInit /\ [][RtcNext]_rtc_vars

-----------------------------------------------------------------------------
(* A reset at any step of the set-up is made good by the next start: when  *)
(* the station runs, the mark is set and the note says which clock the RTC *)
(* runs from, and a note is never left for another clock.                  *)
RtcSourceKnown ==
  /\ rtc_pc = "running" => BKP_DR1 /\ BKP_DR2 = rtc_source
  /\ BKP_DR2 # "none" => BKP_DR2 = rtc_source

(* Records are stamped in the order in which they are made, as long as the *)
(* clock is not set, runs from the crystal, and no second ends between the *)
(* reads of either record.  With the main oscillator the milliseconds are  *)
(* no time at all, because Get_Msec counts from the crystal's divider; and *)
(* a second that ends between the reads puts a stamp a second back.        *)
RecordsInOrder ==
  [][Record /\ in_order /\ whole /\ rtc_source = "LSE" =>
       \/ recorded[1] < recorded'[1]
       \/ recorded[1] = recorded'[1] /\ recorded[2] <= recorded'[2]]_rtc_vars
=============================================================================
