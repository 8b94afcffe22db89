---------------------------- MODULE ModbusServer ----------------------------
(***************************************************************************)
(* A connection to the Modbus server: the buffer that TcpModbus_recv       *)
(* fills (tcp_modbus.c) and process_rx_data, which reads the request from  *)
(* it (modbus.c).  Whether the request is complete is seen in the segment, *)
(* what it asks for is read from the buffer, where the segment stands      *)
(* behind what earlier segments have left.                                 *)
(***************************************************************************)
EXTENDS Integers, Sequences

CONSTANTS
  Segments,  \* what a master sends in one segment
  Index      \* 2^8: the range of the loop's uint8_t

VARIABLES
  bytes,        \* RxBuffer->bytes, up to length
  mbus_state,   \* comstate[NETMBUS].state
  mbus_arg,     \* "closed"; open, and its argument "allocated" or not, "none"; "endless"
  segment,      \* history: the last segment
  before,       \* history: the bytes in the buffer before it
  answered,     \* history: the answer to it
  unwritten,    \* history: tcp_write had no memory for that
  executed,     \* history: the output that it has operated, or 0
  clean         \* history: all segments before it were whole requests

mbus_vars ==
  <<bytes, mbus_state, mbus_arg, segment, before, answered, unwritten, executed, clean>>

-----------------------------------------------------------------------------
MAX_BUFF_SIZE == 16
TCPMODBUS_ADDR == 1
Functions == {4, 2, 5}   \* measurements, inputs, outputs

ASSUME ModbusAssumption ==
  /\ Segments \subseteq Seq(0..255) \ {<<>>}
  /\ Index \in Nat /\ Index > MAX_BUFF_SIZE

(* done: the header stands at the start of the segment, and its 12 bytes   *)
(* are all there.                                                          *)
Whole(c) == Len(c) >= 12 /\ SubSeq(c, 1, 7) = <<0, 0, 0, 0, 0, 6, TCPMODBUS_ADDR>>

(* The bytes that are taken from a segment: up to the 12th when that makes *)
(* it whole, up to the end of the buffer.                                  *)
Smaller(a, b) == IF a < b THEN a ELSE b
Taken(c) == Smaller(IF Whole(c) THEN 12 ELSE Len(c), MAX_BUFF_SIZE - Len(bytes))
Filled(c) == bytes \o SubSeq(c, 1, Taken(c))

(* Mutants used to show that the properties below can fail: the request is *)
(* complete when the buffer has 12 bytes; the buffer is not emptied.       *)
TwelveBytes(c) == Len(Filled(c)) >= 12
NotEmptied(c) == Filled(c)

Done(c) == Whole(c) /\ Taken(c) = 12

(* The output that a request to operate one names: 0xaa closes, 0xcc opens *)
(* it.                                                                     *)
OutputOf(b) ==
  CASE b[6] = 170 -> 2 * b[4] - 1 [] b[6] = 204 -> 2 * b[4] [] OTHER -> 0
Operates(b) ==
  b[2] = 5 /\ b[3] = 0 /\ b[4] \in 1..4 /\ b[5] = 0 /\ b[6] \in {170, 204}

(* process_rx_data: the function that the answer repeats, with the top bit *)
(* when the request is refused, and the output that is operated.           *)
Refused(b) ==
  CASE b[2] = 4 -> ~(b[4] + b[6] <= 29 /\ b[4] \in 1..28)
    [] b[2] = 2 -> ~(b[4] + b[6] <= 17 /\ b[4] \in 1..16)
    [] b[2] = 5 -> ~Operates(b)
    [] OTHER -> TRUE

Request(c) == SubSeq(Filled(c), 7, 12)

Answer(b, success) ==
  IF Refused(b) \/ (Operates(b) /\ ~success) THEN b[2] + 128 ELSE b[2]

(* The loop's uint8_t never reaches the length of a long segment: only a   *)
(* request that is done ends it.                                           *)
Endless(c) == Len(c) >= Index /\ ~Done(c)

MbusInit ==
  /\ bytes = <<>> /\ mbus_state = 0 /\ mbus_arg = "closed"
  /\ segment = <<>> /\ before = 0 /\ answered = 0 /\ unwritten = FALSE
  /\ executed = 0 /\ clean = TRUE

(* What is left in the buffer. *)
Left(c) == IF Done(c) THEN <<>> ELSE Filled(c)

NothingYet ==
  /\ bytes' = <<>> /\ segment' = <<>> /\ before' = 0 /\ answered' = 0 /\ unwritten' = FALSE
  /\ executed' = 0 /\ clean' = TRUE

TcpModbus_accept ==
  /\ mbus_arg = "closed"
  /\ mbus_arg' \in {"allocated", "none"}
  /\ NothingYet
  /\ UNCHANGED mbus_state

(* DoExecute may fail: the bus is busy, the board does not answer.  So may *)
(* tcp_write, whose result nobody looks at.                                *)
TcpModbus_recv(c) ==
  /\ mbus_arg = "allocated"
  /\ segment' = c /\ before' = Len(bytes)
  /\ clean' = (clean /\ (segment # <<>> => Whole(segment)))
  /\ bytes' = Left(c)
  /\ IF Done(c)
       THEN \E success, written \in BOOLEAN :
              /\ mbus_state' = 2
              /\ executed' = IF Operates(Request(c)) /\ success THEN OutputOf(Request(c)) ELSE 0
              /\ answered' = IF written THEN Answer(Request(c), success) ELSE 0
              /\ unwritten' = ~written
       ELSE executed' = 0 /\ answered' = 0 /\ unwritten' = FALSE /\ UNCHANGED mbus_state
  /\ mbus_arg' = IF Endless(c) THEN "endless" ELSE "allocated"

(* The handler never returns, and the main loop does not feed the watchdog *)
(* (WATCHDOG, in the Keil project), which resets the board.                *)
WatchdogResets ==
  /\ mbus_arg = "endless" /\ mbus_arg' = "closed"
  /\ mbus_state' = 0
  /\ NothingYet

(* Without an argument the segment is dropped.                             *)
TcpModbus_recv_no_arg ==
  /\ mbus_arg = "none"
  /\ UNCHANGED mbus_vars

(* The end of the connection, told by recv(NULL) or by the error callback. *)
TcpModbus_closed ==
  /\ mbus_arg \in {"allocated", "none"} /\ mbus_arg' = "closed"
  /\ mbus_state' \in {0, mbus_state}
  /\ NothingYet

MbusNext ==
  \/ TcpModbus_accept \/ TcpModbus_recv_no_arg \/ TcpModbus_closed \/ WatchdogResets
  \/ \E c \in Segments : TcpModbus_recv(c)

MbusSpec == MbusInit /\ [][MbusNext]_mbus_vars

-----------------------------------------------------------------------------
(* An output is only ever operated by a segment that is itself the whole   *)
(* request for it, whatever earlier segments have left in the buffer.      *)
ModbusOutputs ==
  executed # 0 =>
    /\ Whole(segment)
    /\ Operates(SubSeq(segment, 7, 12)) /\ OutputOf(SubSeq(segment, 7, 12)) = executed

(* A whole request is answered if tcp_write takes the answer: for the      *)
(* function it names as long as all segments before it were whole requests *)
(* too, whether or not their answers were taken, and at all if fragments   *)
(* have left no more than four bytes.  With five or more the code never    *)
(* sees a request again: the buffer is only emptied after one.             *)
ModbusAnswers ==
  Whole(segment) /\ ~unwritten =>
    /\ clean => answered \in {segment[8], segment[8] + 128}
    /\ before <= 4 => answered # 0
=============================================================================
