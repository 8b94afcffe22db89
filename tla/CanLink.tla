------------------------------ MODULE CanLink ------------------------------
(***************************************************************************)
(* The link to the measuring module: the CAN1 receive interrupt (CanBus.c) *)
(* says that it is there, Task_Periodic_Handle (main.c) looks every 3.5 s  *)
(* whether frames still come and says that it is gone, and the interrupt   *)
(* may come between any two of its steps.  The counter of frames has 32    *)
(* bits, the copy it is compared with has 8.                               *)
(***************************************************************************)
EXTENDS Integers

CONSTANTS
  CanByte,   \* 2^8: the range of Can_Online_Local
  CanWord,   \* 2^32: the range of Can_OnlineCnt
  ErrLimit   \* 7: the errors on end that Can_Ticalib puts up with

ASSUME CanAssumption ==
  /\ CanByte \in Nat \ {0, 1} /\ CanWord \in Nat \ {0} /\ ErrLimit \in Nat
  /\ CanWord % CanByte = 0

VARIABLES
  Can_Online,
  Can_OnlineCnt,
  Can_Online_Local,
  ErrAnswerOdd,     \* ErrAnswerCnt & 1
  errNum,           \* Can_Ticalib's count of errors
  can_pc,           \* the check of Task_Periodic_Handle
  quiet,            \* history: checks since the last measurement, up to 2
  excused           \* history: an error answer, or a measurement during a check,
                    \* may have left the module marked as gone

can_vars == <<Can_Online, Can_OnlineCnt, Can_Online_Local, ErrAnswerOdd, errNum,
              can_pc, quiet, excused>>

CanInit ==
  /\ Can_Online = 0 /\ Can_OnlineCnt = 0 /\ Can_Online_Local = 0
  /\ ErrAnswerOdd = FALSE /\ errNum = 0
  /\ can_pc = "idle" /\ quiet = 2 /\ excused = FALSE

(* Mutant used to show that the property below can fail: the copy is not   *)
(* kept.                                                                   *)
NotCopied ==
  /\ can_pc = "copy"
  /\ can_pc' = "idle" /\ quiet' = IF quiet < 2 THEN quiet + 1 ELSE 2
  /\ UNCHANGED <<Can_Online, Can_OnlineCnt, Can_Online_Local, ErrAnswerOdd, errNum, excused>>

(* TiProcess: a measurement has come. *)
TiProcess ==
  /\ Can_Online' = 1
  /\ Can_OnlineCnt' = (Can_OnlineCnt + 1) % CanWord
  /\ ErrAnswerOdd' = FALSE
  /\ quiet' = 0 /\ excused' = (can_pc # "idle")
  /\ UNCHANGED <<Can_Online_Local, errNum, can_pc>>

(* A frame of another type, or one that is none: every other one of these  *)
(* takes the module off line.                                              *)
OtherText ==
  /\ ErrAnswerOdd' = FALSE
  /\ UNCHANGED <<Can_Online, Can_OnlineCnt, Can_Online_Local, errNum, can_pc, quiet, excused>>

ErrAnswer ==
  /\ ErrAnswerOdd' = ~ErrAnswerOdd
  /\ Can_Online' = IF ErrAnswerOdd THEN Can_Online ELSE 0
  /\ excused' = TRUE
  /\ UNCHANGED <<Can_OnlineCnt, Can_Online_Local, errNum, can_pc, quiet>>

-----------------------------------------------------------------------------
(* The check: is there a difference?  The count is read again for the copy. *)
Check ==
  /\ can_pc = "idle"
  /\ can_pc' = IF Can_OnlineCnt # Can_Online_Local THEN "copy" ELSE "gone"
  /\ UNCHANGED <<Can_Online, Can_OnlineCnt, Can_Online_Local, ErrAnswerOdd, errNum,
                 quiet, excused>>

Checked == can_pc' = "idle" /\ quiet' = IF quiet < 2 THEN quiet + 1 ELSE 2

Copy ==
  /\ can_pc = "copy"
  /\ Can_Online_Local' = Can_OnlineCnt % CanByte
  /\ Checked
  /\ UNCHANGED <<Can_Online, Can_OnlineCnt, ErrAnswerOdd, errNum, excused>>

Gone ==
  /\ can_pc = "gone"
  /\ Can_Online' = 0
  /\ Checked
  /\ UNCHANGED <<Can_OnlineCnt, Can_Online_Local, ErrAnswerOdd, errNum, excused>>

(* Can_Ticalib, from the shell: what could not be sent is counted, and the *)
(* board reset when there were too many on end.                            *)
Can_Ticalib ==
  \/ /\ errNum' = 0
     /\ UNCHANGED <<Can_Online, Can_OnlineCnt, Can_Online_Local, ErrAnswerOdd, can_pc,
                    quiet, excused>>
  \/ /\ errNum <= ErrLimit
     /\ errNum' = errNum + 1
     /\ UNCHANGED <<Can_Online, Can_OnlineCnt, Can_Online_Local, ErrAnswerOdd, can_pc,
                    quiet, excused>>
  \/ /\ errNum > ErrLimit
     /\ Can_Online' = 0 /\ Can_OnlineCnt' = 0 /\ Can_Online_Local' = 0
     /\ ErrAnswerOdd' = FALSE /\ errNum' = 0
     /\ can_pc' = "idle" /\ quiet' = 2 /\ excused' = FALSE

CanNext ==
  \/ TiProcess \/ OtherText \/ ErrAnswer
  \/ Check \/ Copy \/ Gone
  \/ Can_Ticalib

CanSpec == CanInit /\ [][CanNext]_can_vars

-----------------------------------------------------------------------------
(* The silence of the module is noticed at the second check after its last *)
(* measurement, and a module that has just sent one is on line, unless an  *)
(* error answer or a check under way took it off.  The first half holds    *)
(* only until the 256th measurement: from there on the 8-bit copy can no   *)
(* longer be equal to the count, and silence is not noticed any more.      *)
CanOnlineTrue ==
  /\ Can_Online = 1 /\ Can_OnlineCnt < CanByte => quiet <= 1
  /\ quiet = 0 /\ ~excused => Can_Online = 1
=============================================================================
