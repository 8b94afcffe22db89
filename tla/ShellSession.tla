---------------------------- MODULE ShellSession ----------------------------
(***************************************************************************)
(* The shell (BSP/shellcmd.c) and its two consoles: the serial one         *)
(* (UartProcess) and telnet (HelloWorld_recv), in lwip port helloworld.c.  *)
(*                                                                         *)
(* There is one dialogue, Shell_State and Shell_Msg, for both consoles and *)
(* all connections.  A line from the serial port is handled in the USART   *)
(* interrupt (level 1), one from telnet in the Ethernet interrupt (level   *)
(* 2), which preempts it at any step.  A line is a tuple: a row of         *)
(* CmdTable, the password, "Y", or any other text.                         *)
(***************************************************************************)
EXTENDS Integers, FiniteSets

CONSTANTS
  Words,     \* the lines that are typed: a subset of CmdTable and the other lines
  OutputNumbers  \* the outputs of do1..do8

VARIABLES
  Shell_State,  \* what the next line is taken for
  Shell_Msg,    \* m_type and m_intdata[0]
  isCom,        \* the last line came from the serial port
  shell_pc,     \* per level: the next step of the handler
  line,         \* per level: the line being handled
  from,         \* per level: the Shell_State that the switch has read
  request,      \* history: the last command that was carried out or is asking
  mixed         \* history: a telnet event has preempted the serial line's handler

dialogue == <<Shell_State, Shell_Msg, isCom, request>>
consoles == <<shell_pc, line, from>>
shell_vars == <<dialogue, consoles, mixed>>

-----------------------------------------------------------------------------
Consoles == {1, 2}    \* 1: the serial port, 2: telnet

Yes == <<"CMD_NULL", 0, "Y">>
Password == <<"CMD_NULL", 0, "sac">>
Text == <<"CMD_NULL", 0, "text">>
NoCommand == {Yes, Password, Text}

(* The type, the number and the function of each row.                      *)
CmdTable ==
  {<<"CMD_DO", n, "CmdQNA">> : n \in OutputNumbers}
  \cup {<<t, 0, "CmdQNA">> : t \in
          {"CMD_COEF", "CMD_ADDR", "CMD_DATE", "CMD_CALB", "CMD_SET", "CMD_DCCAL",
           "CMD_PROT", "CMD_RESTOREIP", "CMD_RESET_ETH", "CMD_UPDATE_FIRMWARE",
           "CMD_ETH_LINK_TIME", "CMD_ETH_RECV_TIME"}}
  \cup {<<t, 0, "CmdShowData">> : t \in
          {"CMD_AI", "CMD_DI", "CMD_COEF", "CMD_DATE", "CMD_TI", "CMD_NAME", "CMD_NET",
           "CMD_SOE", "CMD_REC", "CMD_SHOWIP", "CMD_AI_RESET_COUNT"}}
  \cup {<<"CMD_REBOOT", 0, "CmdRestart">>}

ASSUME ShellAssumption ==
  /\ Words \subseteq CmdTable \cup NoCommand
  /\ OutputNumbers \subseteq Nat \ {0}

Types == {w[1] : w \in CmdTable} \cup {"CMD_NULL"}
EthTimes == {"CMD_ETH_LINK_TIME", "CMD_ETH_RECV_TIME"}
Coefs == {"CMD_SET", "CMD_COEF"}
AtOnce == {"CMD_CALB", "CMD_DCCAL", "CMD_RESET_ETH", "CMD_UPDATE_FIRMWARE"}
WithPassword ==
  {"CMD_DO", "CMD_ADDR", "CMD_RESTOREIP"} \cup Coefs \cup AtOnce \cup EthTimes
Stored == {"CMD_ADDR", "CMD_NAME", "CMD_PROT", "CMD_RESTOREIP"} \cup Coefs
EmptyMsg == [m_type |-> "CMD_NULL", number |-> 0]

(* ShellCmdMatch: the commands each console may use.                       *)
OnUart == {"CMD_RESTOREIP", "CMD_SHOWIP", "CMD_REBOOT", "CMD_DI", "CMD_RESET_ETH",
           "CMD_UPDATE_FIRMWARE"}
Allowed(t) == IF isCom THEN t \in OnUart ELSE t \notin {"CMD_RESTOREIP", "CMD_RESET_ETH"}

Idle(w) == shell_pc[w] = "idle"
AtStep(w, place) == shell_pc[w] = place /\ (w = 1 => Idle(2))
Go(w, place) == shell_pc' = [shell_pc EXCEPT ![w] = place]
Return(w) ==
  /\ Go(w, "idle")
  /\ line' = [line EXCEPT ![w] = Text] /\ from' = [from EXCEPT ![w] = "INIT"]

(* Mutants used to show that the properties below can fail: a command is   *)
(* taken in every state; telnet has the serial console's missing break;    *)
(* the state stays as it is; a line that is no command is run.             *)
CommandsFirst(w) ==
  /\ AtStep(w, "switch")
  /\ from' = [from EXCEPT ![w] = IF line[w] \in NoCommand THEN Shell_State ELSE "INIT"]
  /\ Go(w, IF line[w] \in NoCommand /\ Shell_State = "PASSWORD_ASSERT"
             THEN "password" ELSE "match")
  /\ UNCHANGED <<dialogue, line, mixed>>
MissingBreak(w) ==
  /\ AtStep(w, "clear")
  /\ Shell_Msg' = EmptyMsg
  /\ IF from[w] = "ENTER_RESTOREADDR"
       THEN /\ Go(w, "ethtime") /\ from' = [from EXCEPT ![w] = "SET_ETH_TIME"]
            /\ UNCHANGED line
       ELSE Return(w)
  /\ UNCHANGED <<Shell_State, isCom, request, mixed>>
KeepsState(w) ==
  /\ AtStep(w, "finish")
  /\ Go(w, "clear")
  /\ UNCHANGED <<dialogue, line, from, mixed>>
AnyLine(w) ==
  /\ AtStep(w, "match")
  /\ Shell_Msg' = [Shell_Msg EXCEPT !.m_type = line[w][1]]
  /\ Go(w, "run")
  /\ UNCHANGED <<Shell_State, isCom, request, line, from, mixed>>

ShellInit ==
  /\ Shell_State = "INIT" /\ Shell_Msg = EmptyMsg /\ isCom = TRUE
  /\ request = EmptyMsg
  /\ shell_pc = [w \in Consoles |-> "idle"]
  /\ line = [w \in Consoles |-> Text] /\ from = [w \in Consoles |-> "INIT"]
  /\ mixed = FALSE

-----------------------------------------------------------------------------
(* A line is complete.                                                     *)
Receive(w, l) ==
  /\ \A v \in Consoles : v >= w => Idle(v)
  /\ Go(w, "switch") /\ line' = [line EXCEPT ![w] = l]
  /\ isCom' = (w = 1)
  /\ mixed' = (~Idle(1) \/ (mixed /\ Shell_State # "INIT"))
  /\ UNCHANGED <<Shell_State, Shell_Msg, request, from>>

(* "$" on the serial port shows the manual and starts afresh.              *)
Manual ==
  /\ Idle(1) /\ Idle(2)
  /\ Go(1, "finish")
  /\ UNCHANGED <<dialogue, line, from, mixed>>

Handler(state) ==
  CASE state = "PASSWORD_ASSERT" -> "password"
    [] state = "ENTER_ADDR" -> "address"
    [] state = "SET_DATE" -> "date"
    [] state = "ENTER_RESTOREADDR" -> "restore"
    [] state = "SET_ETH_TIME" -> "ethtime"
    [] OTHER -> "match"      \* INIT, ENTER_DATA, TI_mA and MODIFY_NAME

Switch(w) ==
  /\ AtStep(w, "switch")
  /\ from' = [from EXCEPT ![w] = Shell_State]
  /\ Go(w, Handler(Shell_State))
  /\ UNCHANGED <<dialogue, line, mixed>>

(* ShellCmdMatch, first half: a command sets the message, before anybody   *)
(* asks whether this console may use it.                                   *)
NotACommand(w) ==
  IF from[w] = "INIT" THEN Return(w) ELSE Go(w, "setting") /\ UNCHANGED <<line, from>>

Match(w) ==
  /\ AtStep(w, "match")
  /\ IF line[w] \in NoCommand
       THEN NotACommand(w) /\ UNCHANGED Shell_Msg
       ELSE /\ Shell_Msg' = [m_type |-> line[w][1],
                             number |-> IF line[w][1] = "CMD_DO" THEN line[w][2]
                                        ELSE Shell_Msg.number]
            /\ Go(w, "run") /\ UNCHANGED <<line, from>>
  /\ UNCHANGED <<Shell_State, isCom, request, mixed>>

(* CmdQNA and CmdShowData: the state in which the next line is awaited.    *)
Asks(function, t) ==
  CASE function = "CmdQNA" /\ t \in WithPassword -> {"PASSWORD_ASSERT"}
    [] function = "CmdQNA" /\ t = "CMD_DATE" -> {"SET_DATE"}
    [] function = "CmdQNA" /\ t = "CMD_PROT" -> {"ENTER_DATA"}
    [] function = "CmdShowData" /\ t = "CMD_TI" -> {"TI_mA", Shell_State} \* Can_Online?
    [] function = "CmdShowData" /\ t = "CMD_NAME" -> {"MODIFY_NAME"}
    [] OTHER -> {Shell_State}

(* The function has written an answer.  CmdQNA has none for other types.   *)
Answers(function, t) ==
  function = "CmdQNA" => t \in WithPassword \cup {"CMD_DATE", "CMD_PROT"}

(* ShellCmdMatch, second half: the command is allowed, and runs.           *)
RunCommand(w) ==
  LET t == Shell_Msg.m_type IN
  /\ AtStep(w, "run") /\ line[w][3] # "CmdRestart"
  /\ Allowed(t) /\ Answers(line[w][3], t)
  /\ Shell_State' \in Asks(line[w][3], t)
  /\ request' = Shell_Msg
  /\ IF from[w] = "INIT" THEN Return(w) ELSE Go(w, "finish") /\ UNCHANGED <<line, from>>
  /\ UNCHANGED <<Shell_Msg, isCom, mixed>>

(* ... it is not, but the message is already set.                          *)
Refuse(w) ==
  /\ AtStep(w, "run")
  /\ ~(Allowed(Shell_Msg.m_type) /\ Answers(line[w][3], Shell_Msg.m_type))
  /\ NotACommand(w)
  /\ UNCHANGED <<dialogue, mixed>>

(* CmdRestart: NVIC_SystemReset. *)
Restart(w) ==
  /\ AtStep(w, "run") /\ line[w][3] = "CmdRestart" /\ Allowed(Shell_Msg.m_type)
  /\ Shell_State' = "INIT" /\ Shell_Msg' = EmptyMsg /\ isCom' = TRUE
  /\ request' = EmptyMsg
  /\ shell_pc' = [v \in Consoles |-> "idle"]
  /\ line' = [v \in Consoles |-> Text] /\ from' = [v \in Consoles |-> "INIT"]
  /\ mixed' = FALSE

(* CmdSetting: the setting that the message names is stored, whatever      *)
(* question the line was the answer to.                                    *)
CmdSetting(w) ==
  /\ AtStep(w, "setting")
  /\ Shell_Msg' = IF Shell_Msg.m_type \in Stored \cup {"CMD_TI"}
                    THEN [Shell_Msg EXCEPT !.m_type = "CMD_NULL"] ELSE Shell_Msg
  /\ Go(w, "finish")
  /\ UNCHANGED <<Shell_State, isCom, request, line, from, mixed>>

(* ShellEtrAddr: an address out of range is not stored; the default one    *)
(* needs no check.                                                         *)
ShellEtrAddr(w) ==
  /\ AtStep(w, "address")
  /\ \/ Go(w, "setting")
     \/ Shell_Msg.m_type # "CMD_RESTOREIP" /\ Go(w, "finish")
  /\ UNCHANGED <<dialogue, line, from, mixed>>

ShellEtrRestoreIP(w) ==
  /\ AtStep(w, "restore")
  /\ Go(w, IF line[w] = Yes THEN "address" ELSE "finish")
  /\ UNCHANGED <<dialogue, line, from, mixed>>

(* The clock is set, or the date refused. *)
ShellEtrDate(w) ==
  /\ AtStep(w, "date")
  /\ Go(w, "finish")
  /\ UNCHANGED <<dialogue, line, from, mixed>>

(* One time is stored, or both defaults.                                   *)
ShellSetEthTime(w) ==
  /\ AtStep(w, "ethtime")
  /\ Shell_Msg' = [Shell_Msg EXCEPT !.m_type = "CMD_NULL"]
  /\ Go(w, "finish")
  /\ UNCHANGED <<Shell_State, isCom, request, line, from, mixed>>

(* ShellPwdMatch and CmdPwdAsserted: what the password was asked for.      *)
WrongPassword(w) ==
  /\ AtStep(w, "password") /\ line[w] # Password
  /\ Shell_State' = "INIT"
  /\ Return(w)
  /\ UNCHANGED <<Shell_Msg, isCom, request, mixed>>

Entry(t) ==
  CASE t \in Coefs -> "ENTER_DATA"
    [] t = "CMD_ADDR" -> "ENTER_ADDR"
    [] t = "CMD_RESTOREIP" -> "ENTER_RESTOREADDR"
    [] t \in EthTimes -> "SET_ETH_TIME"
    [] OTHER -> Shell_State

CmdPwdAsserted(w) ==
  LET t == Shell_Msg.m_type IN
  /\ AtStep(w, "password") /\ line[w] = Password
  /\ IF t \in AtOnce \cup {"CMD_DO"}
       THEN /\ Go(w, IF t = "CMD_DO" THEN "execute" ELSE "finish")
            /\ UNCHANGED <<Shell_State, line, from>>
       ELSE Shell_State' = Entry(t) /\ Return(w)
  /\ UNCHANGED <<Shell_Msg, isCom, request, mixed>>

(* DoExecute of the number that is in the message now.                     *)
CmdDoExecute(w) ==
  /\ AtStep(w, "execute")
  /\ Go(w, "finish")
  /\ UNCHANGED <<dialogue, line, from, mixed>>

(* CmdnShellInit, and the end of CmdPwdAsserted: the state, then the       *)
(* message.                                                                *)
Finish(w) ==
  /\ AtStep(w, "finish")
  /\ Shell_State' = "INIT"
  /\ Go(w, "clear")
  /\ UNCHANGED <<Shell_Msg, isCom, request, line, from, mixed>>

(* After ENTER_RESTOREADDR the serial console goes on into SET_ETH_TIME.   *)
Clear(w) ==
  /\ AtStep(w, "clear")
  /\ Shell_Msg' = IF from[w] = "PASSWORD_ASSERT"
                    THEN [Shell_Msg EXCEPT !.m_type = "CMD_NULL"] ELSE EmptyMsg
  /\ IF w = 1 /\ from[w] = "ENTER_RESTOREADDR"
       THEN /\ Go(w, "ethtime") /\ from' = [from EXCEPT ![w] = "SET_ETH_TIME"]
            /\ UNCHANGED line
       ELSE Return(w)
  /\ UNCHANGED <<Shell_State, isCom, request, mixed>>

-----------------------------------------------------------------------------
(* HelloWorld_accept, for any connection, starts the dialogue afresh.      *)
Accept ==
  /\ Idle(2)
  /\ Shell_State' = "INIT" /\ Shell_Msg' = EmptyMsg
  /\ mixed' = (mixed \/ ~Idle(1))
  /\ UNCHANGED <<isCom, request, consoles>>

Step(w) ==
  \/ Switch(w) \/ Match(w) \/ RunCommand(w) \/ Refuse(w) \/ Restart(w)
  \/ CmdSetting(w) \/ ShellEtrAddr(w) \/ ShellEtrRestoreIP(w) \/ ShellEtrDate(w)
  \/ ShellSetEthTime(w) \/ WrongPassword(w) \/ CmdPwdAsserted(w) \/ CmdDoExecute(w)
  \/ Finish(w) \/ Clear(w)

ShellNext ==
  \/ \E w \in Consoles : Step(w) \/ \E l \in Words : Receive(w, l)
  \/ Manual \/ Accept

ShellSpec == ShellInit /\ [][ShellNext]_shell_vars

-----------------------------------------------------------------------------
States == {"INIT", "PASSWORD_ASSERT", "ENTER_DATA", "ENTER_ADDR", "SET_DATE", "TI_mA",
           "MODIFY_NAME", "ENTER_RESTOREADDR", "SET_ETH_TIME"}
Places == {"idle", "switch", "match", "run", "setting", "address", "restore", "date",
           "ethtime", "password", "execute", "finish", "clear"}
Messages == [m_type : Types, number : {0} \cup OutputNumbers]

(* Every variable of the shell keeps its type, and who is at the step of a *)
(* command has a command in its line.                                      *)
ShellTypeOK ==
  /\ Shell_State \in States /\ Shell_Msg \in Messages /\ request \in Messages
  /\ isCom \in BOOLEAN /\ mixed \in BOOLEAN
  /\ shell_pc \in [Consoles -> Places]
  /\ line \in [Consoles -> CmdTable \cup NoCommand] /\ from \in [Consoles -> States]
  /\ \A w \in Consoles : shell_pc[w] = "run" => line[w] \in CmdTable

(* The message each state goes with. *)
MessageFor(state, t) ==
  CASE state = "PASSWORD_ASSERT" -> t \in WithPassword
    [] state = "ENTER_DATA" -> t \in Coefs \cup {"CMD_PROT"}
    [] state = "ENTER_ADDR" -> t = "CMD_ADDR"
    [] state = "SET_DATE" -> t = "CMD_DATE"
    [] state = "TI_mA" -> t = "CMD_TI"
    [] state = "MODIFY_NAME" -> t = "CMD_NAME"
    [] state = "ENTER_RESTOREADDR" -> t = "CMD_RESTOREIP"
    [] state = "SET_ETH_TIME" -> t \in EthTimes
    [] OTHER -> TRUE

(* Whenever the shell waits for the answer to a question it still knows    *)
(* what it asked, so that the right password always gets ahead.  (When     *)
(* telnet has preempted the serial line it may not: CmdPwdAsserted sets    *)
(* the state and then the message, and a dialogue begun in between is left *)
(* with a question and no message, which only a wrong password ends.)      *)
DialogueSound ==
  Idle(1) /\ Idle(2) /\ ~mixed /\ Shell_State # "INIT" =>
    MessageFor(Shell_State, Shell_Msg.m_type) /\ Shell_Msg = request

(* An output is only ever executed with the number that the command which  *)
(* asked for the password named, although every line on either console may *)
(* overwrite m_intdata[0], unless telnet has preempted the serial line.    *)
OutputAsAsked ==
  [][\A w \in Consoles : CmdDoExecute(w) =>
       mixed \/ (request.m_type = "CMD_DO" /\ Shell_Msg = request)]_shell_vars

(* What is stored is what the dialogue was begun for.  The exceptions are  *)
(* the code's: a command typed where a value was asked for changes the     *)
(* message even when this console may not use it (ShellCmdMatch), the      *)
(* serial console goes on from the default address to the default Ethernet *)
(* times (a missing break), and telnet may have preempted the serial line. *)
StoredAsAsked ==
  [][\A w \in Consoles :
       /\ CmdSetting(w) /\ Shell_Msg.m_type \in Stored =>
            \/ mixed \/ line[w] \notin NoCommand
            \/ request.m_type = Shell_Msg.m_type
       /\ ShellSetEthTime(w) =>
            \/ mixed \/ request.m_type = Shell_Msg.m_type
            \/ w = 1 /\ request.m_type = "CMD_RESTOREIP"]_shell_vars
=============================================================================
