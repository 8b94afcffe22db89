------------------------------ MODULE Station ------------------------------
(***************************************************************************)
(* The parts of the station that share no state with each other, one of    *)
(* which runs at a time: the connections (TcpPcbs), the frames of the      *)
(* Ethernet driver (EthFrames), the shell behind its two consoles          *)
(* (ShellSession), the Modbus server (ModbusServer), the CAN link          *)
(* (CanLink) and the clock (RtcClock).  It is the sum of their state       *)
(* spaces, not a model of how they interleave: `part' says which one runs. *)
(***************************************************************************)
EXTENDS ShellSession, TcpPcbs, EthFrames, ModbusServer, CanLink, RtcClock

VARIABLE part

station_vars == <<part, shell_vars, pcb_vars, frame_vars, mbus_vars, can_vars, rtc_vars>>

Parts == {"shell", "tcp", "frames", "modbus", "can", "rtc"}

StationInit ==
  /\ part \in Parts
  /\ ShellInit /\ TcpInit /\ FramesInit /\ MbusInit /\ CanInit /\ RtcInit

ShellRuns ==
  /\ part = "shell" /\ ShellNext
  /\ UNCHANGED <<part, pcb_vars, frame_vars, mbus_vars, can_vars, rtc_vars>>
TcpRuns ==
  /\ part = "tcp" /\ TcpNext
  /\ UNCHANGED <<part, shell_vars, frame_vars, mbus_vars, can_vars, rtc_vars>>
FramesRun ==
  /\ part = "frames" /\ FramesNext
  /\ UNCHANGED <<part, shell_vars, pcb_vars, mbus_vars, can_vars, rtc_vars>>
ModbusRuns ==
  /\ part = "modbus" /\ MbusNext
  /\ UNCHANGED <<part, shell_vars, pcb_vars, frame_vars, can_vars, rtc_vars>>
CanRuns ==
  /\ part = "can" /\ CanNext
  /\ UNCHANGED <<part, shell_vars, pcb_vars, frame_vars, mbus_vars, rtc_vars>>
RtcRuns ==
  /\ part = "rtc" /\ RtcNext
  /\ UNCHANGED <<part, shell_vars, pcb_vars, frame_vars, mbus_vars, can_vars>>

StationNext == ShellRuns \/ TcpRuns \/ FramesRun \/ ModbusRuns \/ CanRuns \/ RtcRuns

StationSpec == StationInit /\ [][StationNext]_station_vars

(* Every variable of the shell and of the connections stays in its range:  *)
(* Shell_State is a state of the dialogue, every pcb pointer a block or    *)
(* NULL.                                                                   *)
StationTypeOK == ShellTypeOK /\ TcpTypeOK
=============================================================================
