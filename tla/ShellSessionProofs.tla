------------------------- MODULE ShellSessionProofs -------------------------
(***************************************************************************)
(* Proofs about ShellSession, for any set of lines and any outputs.        *)
(*                                                                         *)
(* As long as telnet has not preempted the serial console's handler, one   *)
(* console at most is in a handler, and At says for each of its steps what *)
(* the shared dialogue holds.  The two-step end of a dialogue (Finish,     *)
(* Clear) and the command that is matched before it is refused are the     *)
(* places where this is weaker than one would expect.                      *)
(***************************************************************************)
EXTENDS ShellSession, TLAPS

USE ShellAssumption DEF Consoles

-----------------------------------------------------------------------------
(* The rows of the table. *)
LEMMA Rows ==
  ASSUME NEW c \in CmdTable
  PROVE  /\ c[1] \in Types /\ c[1] # "CMD_NULL"
         /\ c[2] \in {0} \cup OutputNumbers
         /\ c \notin NoCommand
<1>1. CASE c \in {<<"CMD_DO", n, "CmdQNA">> : n \in OutputNumbers}
  <2>1. PICK n \in OutputNumbers : c = <<"CMD_DO", n, "CmdQNA">>
    BY <1>1
  <2>2. c[1] = "CMD_DO" /\ c[2] = n
    BY <2>1
  <2>3. c[1] \in Types
    BY DEF Types
  <2> QED
    BY <2>1, <2>2, <2>3 DEF NoCommand, Yes, Password, Text
<1>2. CASE c \notin {<<"CMD_DO", n, "CmdQNA">> : n \in OutputNumbers}
  <2>1. c[1] # "CMD_NULL" /\ c[2] = 0
    BY <1>2 DEF CmdTable
  <2>2. c[1] \in Types
    BY DEF Types
  <2> QED
    BY <2>1, <2>2 DEF NoCommand, Yes, Password, Text
<1> QED
  BY <1>1, <1>2

-----------------------------------------------------------------------------
LEMMA ShellTypeInit == ShellInit => ShellTypeOK
<1> SUFFICES ASSUME ShellInit PROVE ShellTypeOK
  OBVIOUS
<1>1. Text \in CmdTable \cup NoCommand
  BY DEF NoCommand
<1>2. EmptyMsg \in Messages
  BY DEF EmptyMsg, Messages, Types
<1>3. "INIT" \in States /\ "idle" \in Places /\ "idle" # "run"
  BY DEF States, Places
<1> QED
  BY <1>1, <1>2, <1>3 DEF ShellInit, ShellTypeOK

(* Going to a step, and returning, keep the types of the consoles.         *)
LEMMA GoTyped ==
  ASSUME ShellTypeOK, NEW w \in Consoles, NEW place \in Places, Go(w, place)
  PROVE  /\ shell_pc' \in [Consoles -> Places]
         /\ shell_pc'[w] = place
         /\ \A v \in Consoles \ {w} : shell_pc'[v] = shell_pc[v]
BY DEF ShellTypeOK, Go

LEMMA ReturnTyped ==
  ASSUME ShellTypeOK, NEW w \in Consoles, Return(w)
  PROVE  /\ shell_pc' \in [Consoles -> Places]
         /\ line' \in [Consoles -> CmdTable \cup NoCommand]
         /\ from' \in [Consoles -> States]
         /\ shell_pc'[w] = "idle" /\ from'[w] = "INIT"
         /\ \A v \in Consoles \ {w} :
              shell_pc'[v] = shell_pc[v] /\ line'[v] = line[v] /\ from'[v] = from[v]
BY DEF ShellTypeOK, Return, Go, Places, States, NoCommand

LEMMA HandlerPlaces ==
  ASSUME NEW state
  PROVE  /\ Handler(state) \in Places
         /\ Handler(state) \in {"password", "address", "date", "restore", "ethtime", "match"}
BY DEF Handler, Places

LEMMA AsksStates ==
  ASSUME ShellTypeOK, NEW f, NEW t PROVE Asks(f, t) \subseteq States
BY DEF Asks, States, ShellTypeOK

LEMMA EntryStates == ASSUME ShellTypeOK, NEW t PROVE Entry(t) \in States
BY DEF Entry, States, ShellTypeOK

LEMMA StepTyped ==
  ASSUME ShellTypeOK, NEW w \in Consoles, Step(w) PROVE ShellTypeOK'
<1>1. CASE Switch(w)
  <2>1. shell_pc' \in [Consoles -> Places] /\ shell_pc'[w] # "run"
        /\ \A v \in Consoles \ {w} : shell_pc'[v] = shell_pc[v]
    BY <1>1, HandlerPlaces, GoTyped DEF Switch
  <2> QED
    BY <1>1, <2>1 DEF Switch, dialogue, ShellTypeOK
<1>2. CASE Match(w)
  <2>1. CASE line[w] \in NoCommand /\ from[w] = "INIT"
    BY <1>2, <2>1, ReturnTyped DEF Match, NotACommand, ShellTypeOK
  <2>2. CASE line[w] \in NoCommand /\ from[w] # "INIT"
    BY <1>2, <2>2 DEF Match, NotACommand, Go, Places, ShellTypeOK
  <2>3. CASE line[w] \notin NoCommand
    <3>1. line[w] \in CmdTable
      BY <2>3 DEF ShellTypeOK
    <3>2. Shell_Msg' \in Messages
      BY <1>2, <2>3, <3>1, Rows DEF Match, ShellTypeOK, Messages
    <3> QED
      BY <1>2, <2>3, <3>1, <3>2 DEF Match, Go, Places, ShellTypeOK
  <2> QED
    BY <2>1, <2>2, <2>3
<1>3. CASE RunCommand(w)
  <2>1. Shell_State' \in States
    BY <1>3, AsksStates DEF RunCommand
  <2>2. CASE from[w] = "INIT"
    BY <1>3, <2>1, <2>2, ReturnTyped DEF RunCommand, ShellTypeOK
  <2>3. CASE from[w] # "INIT"
    BY <1>3, <2>1, <2>3 DEF RunCommand, Go, Places, ShellTypeOK
  <2> QED
    BY <2>2, <2>3
<1>4. CASE Refuse(w)
  <2>1. CASE from[w] = "INIT"
    BY <1>4, <2>1, ReturnTyped DEF Refuse, NotACommand, dialogue, ShellTypeOK
  <2>2. CASE from[w] # "INIT"
    BY <1>4, <2>2 DEF Refuse, NotACommand, Go, Places, dialogue, ShellTypeOK
  <2> QED
    BY <2>1, <2>2
<1>5. CASE Restart(w)
  BY <1>5 DEF Restart, ShellTypeOK, EmptyMsg, Messages, States, Places, Types, NoCommand
<1>6. CASE CmdSetting(w)
  <2>1. Shell_Msg' \in Messages
    BY <1>6 DEF CmdSetting, ShellTypeOK, Messages, Types
  <2> QED
    BY <1>6, <2>1 DEF CmdSetting, Go, Places, ShellTypeOK
<1>7. CASE ShellEtrAddr(w) \/ ShellEtrRestoreIP(w) \/ ShellEtrDate(w) \/ CmdDoExecute(w)
  BY <1>7 DEF ShellEtrAddr, ShellEtrRestoreIP, ShellEtrDate, CmdDoExecute, Go, Places,
     dialogue, ShellTypeOK
<1>8. CASE ShellSetEthTime(w)
  <2>1. Shell_Msg' \in Messages
    BY <1>8 DEF ShellSetEthTime, ShellTypeOK, Messages, Types
  <2> QED
    BY <1>8, <2>1 DEF ShellSetEthTime, Go, Places, ShellTypeOK
<1>9. CASE WrongPassword(w)
  BY <1>9, ReturnTyped DEF WrongPassword, ShellTypeOK, States
<1>10. CASE CmdPwdAsserted(w)
  <2>1. CASE Shell_Msg.m_type \in AtOnce \cup {"CMD_DO"}
    BY <1>10, <2>1 DEF CmdPwdAsserted, Go, Places, ShellTypeOK
  <2>2. CASE Shell_Msg.m_type \notin AtOnce \cup {"CMD_DO"}
    BY <1>10, <2>2, ReturnTyped, EntryStates DEF CmdPwdAsserted, ShellTypeOK
  <2> QED
    BY <2>1, <2>2
<1>11. CASE Finish(w)
  BY <1>11 DEF Finish, Go, Places, States, ShellTypeOK
<1>12. CASE Clear(w)
  <2>1. Shell_Msg' \in Messages
    BY <1>12 DEF Clear, ShellTypeOK, Messages, Types, EmptyMsg
  <2>2. CASE w = 1 /\ from[w] = "ENTER_RESTOREADDR"
    BY <1>12, <2>1, <2>2 DEF Clear, Go, Places, States, ShellTypeOK
  <2>3. CASE ~(w = 1 /\ from[w] = "ENTER_RESTOREADDR")
    BY <1>12, <2>1, <2>3, ReturnTyped DEF Clear, ShellTypeOK
  <2> QED
    BY <2>2, <2>3
<1> QED
  BY <1>1, <1>2, <1>3, <1>4, <1>5, <1>6, <1>7, <1>8, <1>9, <1>10, <1>11, <1>12 DEF Step

LEMMA ShellTypeStep == ShellTypeOK /\ [ShellNext]_shell_vars => ShellTypeOK'
<1> SUFFICES ASSUME ShellTypeOK, [ShellNext]_shell_vars PROVE ShellTypeOK'
  OBVIOUS
<1>1. CASE UNCHANGED shell_vars
  BY <1>1 DEF shell_vars, dialogue, consoles, ShellTypeOK
<1>2. ASSUME NEW w \in Consoles, Step(w) PROVE ShellTypeOK'
  BY <1>2, StepTyped
<1>3. ASSUME NEW w \in Consoles, NEW l \in Words, Receive(w, l) PROVE ShellTypeOK'
  <2>1. isCom' \in BOOLEAN /\ mixed' \in BOOLEAN
    BY <1>3 DEF Receive
  <2>2. line' \in [Consoles -> CmdTable \cup NoCommand]
    BY <1>3 DEF Receive, ShellTypeOK
  <2>3. /\ shell_pc' \in [Consoles -> Places] /\ shell_pc'[w] = "switch"
        /\ \A v \in Consoles \ {w} : shell_pc'[v] = shell_pc[v] /\ line'[v] = line[v]
    BY <1>3 DEF Receive, Go, Places, ShellTypeOK
  <2> QED
    BY <1>3, <2>1, <2>2, <2>3 DEF Receive, ShellTypeOK
<1>4. CASE Manual
  BY <1>4 DEF Manual, Go, Places, dialogue, ShellTypeOK
<1>5. CASE Accept
  <2>1. mixed' \in BOOLEAN
    BY <1>5 DEF Accept, ShellTypeOK
  <2> QED
    BY <1>5, <2>1 DEF Accept, consoles, EmptyMsg, Messages, Types, States, ShellTypeOK
<1> QED
  BY <1>1, <1>2, <1>3, <1>4, <1>5 DEF ShellNext

(* Every variable of the shell keeps its type, and who runs a command has  *)
(* a row of the table in its line.                                         *)
THEOREM ShellTypeCorrect == ShellSpec => []ShellTypeOK
<1> QED
  BY ShellTypeInit, ShellTypeStep, PTL DEF ShellSpec

-----------------------------------------------------------------------------
(* The shell knows what it has asked for. *)
Good ==
  Shell_State # "INIT" =>
    MessageFor(Shell_State, Shell_Msg.m_type) /\ Shell_Msg = request

Matching == {"INIT", "ENTER_DATA", "TI_mA", "MODIFY_NAME"}

(* What holds at each step of a handler that nobody has preempted.         *)
At(w) ==
  /\ Idle(w) => from[w] = "INIT"
  /\ shell_pc[w] = "switch" => Good /\ from[w] = "INIT"
  /\ shell_pc[w] = "match" => Good /\ from[w] = Shell_State
  /\ shell_pc[w] = "run" =>
       from[w] = Shell_State /\ Shell_Msg.m_type = line[w][1]
  /\ shell_pc[w] \in {"match", "run"} => Shell_State \in Matching
  /\ shell_pc[w] = "setting" => line[w] \notin NoCommand \/ Shell_Msg = request
  /\ shell_pc[w] \in {"address", "restore", "execute"} => Shell_Msg = request
  /\ shell_pc[w] = "ethtime" =>
       Shell_Msg = request \/ (w = 1 /\ request.m_type = "CMD_RESTOREIP")
  /\ shell_pc[w] = "password" => Shell_State = "PASSWORD_ASSERT" /\ Good
  /\ shell_pc[w] = "execute" => Shell_Msg.m_type = "CMD_DO"
  /\ shell_pc[w] = "clear" => Shell_State = "INIT"
  /\ from[w] = "ENTER_RESTOREADDR" => request.m_type = "CMD_RESTOREIP"

DialogueInv ==
  ~mixed =>
    /\ Idle(1) \/ Idle(2)
    /\ Idle(1) /\ Idle(2) => Good
    /\ \A w \in Consoles : At(w)

ShellInv == ShellTypeOK /\ DialogueInv /\ \A w \in Consoles : Idle(w) => from[w] = "INIT"

(* A step of one console leaves the other one alone.                       *)
LEMMA OthersWait ==
  ASSUME ShellInv, ~mixed, NEW w \in Consoles, ~Idle(w)
  PROVE  At(w) /\ \A v \in Consoles \ {w} : Idle(v) /\ from[v] = "INIT"
BY DEF ShellInv, DialogueInv

(* ... so that only its own step need be looked at.                        *)
LEMMA OneMoves ==
  ASSUME ShellTypeOK', NEW w \in Consoles,
         \A v \in Consoles \ {w} : Idle(v)' /\ from'[v] = "INIT",
         Idle(w)' => Good', At(w)'
  PROVE  ShellInv'
<1>1. \A v \in Consoles \ {w} : At(v)'
  BY DEF At, Idle
<1>2. \A v \in Consoles : At(v)'
  BY <1>1
<1>3. (Idle(1) \/ Idle(2))'
  OBVIOUS
<1>4. (Idle(1) /\ Idle(2))' => Good'
  OBVIOUS
<1>5. \A v \in Consoles : Idle(v)' => from'[v] = "INIT"
  BY <1>2 DEF At, Idle
<1> QED
  BY <1>2, <1>3, <1>4, <1>5 DEF ShellInv, DialogueInv

LEMMA ShellInvInit == ShellInit => ShellInv
<1> SUFFICES ASSUME ShellInit PROVE ShellInv
  OBVIOUS
<1>1. Good /\ \A w \in Consoles : Idle(w) /\ from[w] = "INIT"
  BY DEF ShellInit, Good, Idle
<1>2. \A w \in Consoles : At(w)
  BY <1>1 DEF At, Idle
<1> QED
  BY <1>1, <1>2, ShellTypeInit DEF ShellInv, DialogueInv

(* A console that goes to a step of its handler.                           *)
LEMMA WhereItGoes ==
  ASSUME ShellTypeOK, NEW w \in Consoles, NEW place, Go(w, place)
  PROVE  /\ shell_pc'[w] = place
         /\ Idle(w)' <=> place = "idle"
         /\ \A v \in Consoles \ {w} : shell_pc'[v] = shell_pc[v] /\ (Idle(v)' <=> Idle(v))
BY DEF ShellTypeOK, Go, Idle

(* The other console of a step that is not a restart.                      *)
LEMMA OthersStay ==
  ASSUME ShellTypeOK, NEW w \in Consoles, Step(w), ~Restart(w)
  PROVE  /\ ~Idle(w) /\ mixed' = mixed
         /\ \A v \in Consoles \ {w} :
              shell_pc'[v] = shell_pc[v] /\ from'[v] = from[v] /\ line'[v] = line[v]
<1>1. ~Idle(w) /\ mixed' = mixed
  BY HandlerPlaces DEF Step, Restart, Switch, Match, RunCommand, Refuse, CmdSetting,
     ShellEtrAddr, ShellEtrRestoreIP, ShellEtrDate, ShellSetEthTime, WrongPassword,
     CmdPwdAsserted, CmdDoExecute, Finish, Clear, AtStep, Idle
<1> DEFINE Others ==
      \A v \in Consoles \ {w} :
        shell_pc'[v] = shell_pc[v] /\ from'[v] = from[v] /\ line'[v] = line[v]
<1>2. ASSUME Switch(w) PROVE Others
  BY <1>2 DEF Switch, Go, ShellTypeOK
<1>3. ASSUME Match(w) PROVE Others
  BY <1>3 DEF Match, NotACommand, Return, Go, ShellTypeOK
<1>4. ASSUME RunCommand(w) PROVE Others
  BY <1>4 DEF RunCommand, Return, Go, ShellTypeOK
<1>5. ASSUME Refuse(w) PROVE Others
  BY <1>5 DEF Refuse, NotACommand, Return, Go, ShellTypeOK
<1>6. ASSUME CmdSetting(w) \/ ShellEtrAddr(w) \/ ShellEtrRestoreIP(w) \/ ShellEtrDate(w)
      PROVE  Others
  BY <1>6 DEF CmdSetting, ShellEtrAddr, ShellEtrRestoreIP, ShellEtrDate, Go, ShellTypeOK
<1>7. ASSUME ShellSetEthTime(w) \/ CmdDoExecute(w) \/ Finish(w) PROVE Others
  BY <1>7 DEF ShellSetEthTime, CmdDoExecute, Finish, Go, ShellTypeOK
<1>8. ASSUME WrongPassword(w) PROVE Others
  BY <1>8 DEF WrongPassword, Return, Go, ShellTypeOK
<1>9. ASSUME CmdPwdAsserted(w) PROVE Others
  BY <1>9 DEF CmdPwdAsserted, Return, Go, ShellTypeOK
<1>10. ASSUME Clear(w) PROVE Others
  BY <1>10 DEF Clear, Return, Go, ShellTypeOK
<1>11. Others
  BY <1>2, <1>3, <1>4, <1>5, <1>6, <1>7, <1>8, <1>9, <1>10 DEF Step
<1> QED
  BY <1>1, <1>11

(* Whoever has come to the end of a handler has forgotten its state.       *)
LEMMA IdleForgets ==
  ASSUME ShellInv, NEW w \in Consoles, Step(w), ~Restart(w)
  PROVE  Idle(w)' => from'[w] = "INIT"
<1> SUFFICES ASSUME Idle(w)' PROVE from'[w] = "INIT"
  OBVIOUS
<1> USE DEF ShellInv, ShellTypeOK, Idle
<1>1. CASE Switch(w)
  BY <1>1, HandlerPlaces, WhereItGoes DEF Switch
<1>2. CASE Match(w)
  BY <1>2 DEF Match, NotACommand, Return, Go
<1>3. CASE RunCommand(w)
  BY <1>3 DEF RunCommand, Return, Go
<1>4. CASE Refuse(w)
  BY <1>4 DEF Refuse, NotACommand, Return, Go
<1>5. CASE CmdSetting(w) \/ ShellEtrAddr(w) \/ ShellEtrRestoreIP(w) \/ ShellEtrDate(w)
  BY <1>5 DEF CmdSetting, ShellEtrAddr, ShellEtrRestoreIP, ShellEtrDate, Go
<1>6. CASE ShellSetEthTime(w) \/ CmdDoExecute(w) \/ Finish(w)
  BY <1>6 DEF ShellSetEthTime, CmdDoExecute, Finish, Go
<1>7. CASE WrongPassword(w)
  BY <1>7 DEF WrongPassword, Return, Go
<1>8. CASE CmdPwdAsserted(w)
  BY <1>8 DEF CmdPwdAsserted, Return, Go
<1>9. CASE Clear(w)
  BY <1>9 DEF Clear, Return, Go
<1> QED
  BY <1>1, <1>2, <1>3, <1>4, <1>5, <1>6, <1>7, <1>8, <1>9 DEF Step

(* What the next step of an undisturbed handler finds.                     *)
LEMMA NextFinds ==
  ASSUME ShellInv, ~mixed, NEW w \in Consoles, Step(w), ~Restart(w)
  PROVE  At(w)' /\ (Idle(w)' => Good')
<1>1. At(w)
  BY OthersWait, OthersStay DEF ShellInv
<1> DEFINE Goal == At(w)' /\ (Idle(w)' => Good')
<1>2. CASE Switch(w)
  <2>1. /\ shell_pc'[w] = Handler(Shell_State) /\ from'[w] = Shell_State
        /\ UNCHANGED <<Shell_State, Shell_Msg, request, line>>
    BY <1>2 DEF Switch, Go, ShellInv, ShellTypeOK, dialogue
  <2>2. Good
    BY <1>1, <1>2 DEF Switch, AtStep, At
  <2>3. Good'
    BY <2>1, <2>2 DEF Good
  <2>4. Shell_State \in States
    BY DEF ShellInv, ShellTypeOK
  <2>5. Handler(Shell_State) = "match" => Shell_State \in Matching
    BY <2>4 DEF Handler, States, Matching
  <2>6. Handler(Shell_State) = "password" => Shell_State = "PASSWORD_ASSERT"
    BY DEF Handler
  <2>7. Handler(Shell_State) \in {"address", "restore", "ethtime"} => Shell_Msg = request
    BY <2>2 DEF Handler, Good
  <2>8. Shell_State = "ENTER_RESTOREADDR" => request.m_type = "CMD_RESTOREIP"
    BY <2>2 DEF Good, MessageFor
  <2> QED
    BY <2>1, <2>3, <2>5, <2>6, <2>7, <2>8, HandlerPlaces DEF At, Idle
<1>3. CASE Match(w)
  <2>1. /\ Good /\ from[w] = Shell_State /\ Shell_State \in Matching
        /\ UNCHANGED <<Shell_State, request>>
    BY <1>1, <1>3 DEF Match, AtStep, At
  <2>2. CASE line[w] \in NoCommand /\ from[w] = "INIT"
    <3>1. shell_pc'[w] = "idle" /\ from'[w] = "INIT" /\ Shell_State' = "INIT"
      BY <1>3, <2>1, <2>2, ReturnTyped DEF Match, NotACommand, ShellInv
    <3> QED
      BY <3>1 DEF At, Idle, Good
  <2>3. CASE line[w] \in NoCommand /\ from[w] # "INIT"
    <3>1. /\ shell_pc'[w] = "setting" /\ UNCHANGED <<from, line, Shell_Msg>>
      BY <1>3, <2>3 DEF Match, NotACommand, Go, ShellInv, ShellTypeOK
    <3>2. Shell_Msg = request
      BY <2>1, <2>3 DEF Good
    <3> QED
      BY <1>1, <2>1, <3>1, <3>2 DEF At, Idle
  <2>4. CASE line[w] \notin NoCommand
    <3>1. /\ shell_pc'[w] = "run" /\ UNCHANGED <<from, line>>
          /\ Shell_Msg'.m_type = line[w][1]
      BY <1>3, <2>4 DEF Match, Go, ShellInv, ShellTypeOK
    <3> QED
      BY <2>1, <3>1 DEF At, Idle, Matching
  <2> QED
    BY <2>2, <2>3, <2>4
<1>4. CASE RunCommand(w)
  <2>1. /\ from[w] = Shell_State /\ Shell_State \in Matching
        /\ Shell_Msg.m_type = line[w][1] /\ line[w] \in CmdTable
    BY <1>1, <1>4 DEF RunCommand, AtStep, At, ShellInv, ShellTypeOK
  <2>2. /\ Shell_State' \in Asks(line[w][3], Shell_Msg.m_type)
        /\ Answers(line[w][3], Shell_Msg.m_type)
        /\ request' = Shell_Msg /\ Shell_Msg' = Shell_Msg
    BY <1>4 DEF RunCommand
  <2>3. CASE from[w] = "INIT"
    <3>1. shell_pc'[w] = "idle" /\ from'[w] = "INIT"
      BY <1>4, <2>3, ReturnTyped DEF RunCommand, ShellInv
    <3>2. Good'
      BY <2>1, <2>2, <2>3 DEF Good, Asks, Answers, MessageFor
    <3> QED
      BY <3>1, <3>2 DEF At, Idle
  <2>4. CASE from[w] # "INIT"
    <3>1. shell_pc'[w] = "finish" /\ from'[w] = from[w]
      BY <1>4, <2>4 DEF RunCommand, Go, ShellInv, ShellTypeOK
    <3> QED
      BY <2>1, <3>1 DEF At, Idle, Matching
  <2> QED
    BY <2>3, <2>4
<1>5. CASE Refuse(w)
  <2>1. /\ from[w] = Shell_State /\ Shell_State \in Matching
        /\ line[w] \in CmdTable /\ UNCHANGED <<Shell_State, Shell_Msg, request>>
    BY <1>1, <1>5 DEF Refuse, AtStep, At, ShellInv, ShellTypeOK, dialogue
  <2>2. CASE from[w] = "INIT"
    <3>1. shell_pc'[w] = "idle" /\ from'[w] = "INIT"
      BY <1>5, <2>2, ReturnTyped DEF Refuse, NotACommand, ShellInv
    <3> QED
      BY <2>1, <2>2, <3>1 DEF At, Idle, Good
  <2>3. CASE from[w] # "INIT"
    <3>1. shell_pc'[w] = "setting" /\ UNCHANGED <<line, from>>
      BY <1>5, <2>3 DEF Refuse, NotACommand, Go, ShellInv, ShellTypeOK
    <3>2. line'[w] \notin NoCommand
      BY <2>1, <3>1, Rows
    <3> QED
      BY <2>1, <3>1, <3>2 DEF At, Idle, Matching
  <2> QED
    BY <2>2, <2>3
<1>6. CASE CmdSetting(w) \/ ShellEtrDate(w) \/ CmdDoExecute(w) \/ ShellSetEthTime(w)
  <2>1. shell_pc'[w] = "finish" /\ from'[w] = from[w] /\ request' = request
    BY <1>6 DEF CmdSetting, ShellEtrDate, CmdDoExecute, ShellSetEthTime, Go, dialogue,
       ShellInv, ShellTypeOK
  <2> QED
    BY <1>1, <2>1 DEF At, Idle
<1>7. CASE ShellEtrAddr(w)
  <2>1. /\ shell_pc'[w] \in {"setting", "finish"}
        /\ UNCHANGED <<from, line, Shell_Msg, request>>
    BY <1>7 DEF ShellEtrAddr, Go, dialogue, ShellInv, ShellTypeOK
  <2>2. Shell_Msg = request
    BY <1>1, <1>7 DEF ShellEtrAddr, AtStep, At
  <2> QED
    BY <1>1, <2>1, <2>2 DEF At, Idle
<1>8. CASE ShellEtrRestoreIP(w)
  <2>1. /\ shell_pc'[w] \in {"address", "finish"}
        /\ UNCHANGED <<from, line, Shell_Msg, request>>
    BY <1>8 DEF ShellEtrRestoreIP, Go, dialogue, ShellInv, ShellTypeOK
  <2>2. Shell_Msg = request
    BY <1>1, <1>8 DEF ShellEtrRestoreIP, AtStep, At
  <2> QED
    BY <1>1, <2>1, <2>2 DEF At, Idle
<1>9. CASE WrongPassword(w)
  <2>1. shell_pc'[w] = "idle" /\ from'[w] = "INIT" /\ Shell_State' = "INIT"
    BY <1>9, ReturnTyped DEF WrongPassword, ShellInv
  <2> QED
    BY <2>1 DEF At, Idle, Good
<1>10. CASE CmdPwdAsserted(w)
  <2>1. /\ Shell_State = "PASSWORD_ASSERT" /\ Shell_Msg = request
        /\ Shell_Msg.m_type \in WithPassword
        /\ UNCHANGED <<Shell_Msg, request>>
    BY <1>1, <1>10 DEF CmdPwdAsserted, AtStep, At, Good, MessageFor
  <2>2. CASE Shell_Msg.m_type \in AtOnce \cup {"CMD_DO"}
    <3>1. /\ shell_pc'[w] = IF Shell_Msg.m_type = "CMD_DO" THEN "execute" ELSE "finish"
          /\ UNCHANGED <<from, line>>
      BY <1>10, <2>2 DEF CmdPwdAsserted, Go, ShellInv, ShellTypeOK
    <3> QED
      BY <1>1, <2>1, <3>1 DEF At, Idle
  <2>3. CASE Shell_Msg.m_type \notin AtOnce \cup {"CMD_DO"}
    <3>1. /\ shell_pc'[w] = "idle" /\ from'[w] = "INIT"
          /\ Shell_State' = Entry(Shell_Msg.m_type)
      BY <1>10, <2>3, ReturnTyped DEF CmdPwdAsserted, ShellInv
    <3>2. Good'
      BY <2>1, <2>3, <3>1 DEF Good, Entry, MessageFor, WithPassword, AtOnce, Coefs, EthTimes
    <3> QED
      BY <3>1, <3>2 DEF At, Idle
  <2> QED
    BY <2>2, <2>3
<1>11. CASE Finish(w)
  <2>1. /\ shell_pc'[w] = "clear" /\ Shell_State' = "INIT"
        /\ UNCHANGED <<from, request>>
    BY <1>11 DEF Finish, Go, ShellInv, ShellTypeOK
  <2> QED
    BY <1>1, <2>1 DEF At, Idle
<1>12. CASE Clear(w)
  <2>1. Shell_State' = "INIT" /\ request' = request
    BY <1>1, <1>12 DEF Clear, AtStep, At
  <2>2. CASE w = 1 /\ from[w] = "ENTER_RESTOREADDR"
    <3>1. shell_pc'[w] = "ethtime" /\ from'[w] = "SET_ETH_TIME"
      BY <1>12, <2>2 DEF Clear, Go, ShellInv, ShellTypeOK
    <3> QED
      BY <1>1, <2>1, <2>2, <3>1 DEF At, Idle
  <2>3. CASE ~(w = 1 /\ from[w] = "ENTER_RESTOREADDR")
    <3>1. shell_pc'[w] = "idle" /\ from'[w] = "INIT"
      BY <1>12, <2>3, ReturnTyped DEF Clear, ShellInv
    <3> QED
      BY <2>1, <3>1 DEF At, Idle, Good
  <2> QED
    BY <2>2, <2>3
<1> QED
  BY <1>2, <1>3, <1>4, <1>5, <1>6, <1>7, <1>8, <1>9, <1>10, <1>11, <1>12 DEF Step

LEMMA StepKeeps ==
  ASSUME ShellInv, NEW w \in Consoles, Step(w) PROVE ShellInv'
<1>1. ShellTypeOK'
  BY StepTyped DEF ShellInv
<1>2. CASE Restart(w)
  <2>1. Shell_State' = "INIT" /\ \A v \in Consoles : Idle(v)' /\ from'[v] = "INIT"
    BY <1>2 DEF Restart, Idle
  <2> QED
    BY <1>1, <2>1, OneMoves DEF Good, At, Idle
<1>3. CASE ~Restart(w) /\ mixed
  <2>1. mixed' = mixed
    BY <1>3, OthersStay DEF ShellInv
  <2>2. \A v \in Consoles : Idle(v)' => from'[v] = "INIT"
    BY <1>3, OthersStay, IdleForgets DEF ShellInv, Idle
  <2> QED
    BY <1>1, <1>3, <2>1, <2>2 DEF ShellInv, DialogueInv
<1>4. CASE ~Restart(w) /\ ~mixed
  <2>1. ~Idle(w) /\ \A v \in Consoles \ {w} : Idle(v)' /\ from'[v] = "INIT"
    BY <1>4, OthersStay, OthersWait DEF ShellInv, Idle
  <2> QED
    BY <1>1, <1>4, <2>1, NextFinds, OneMoves
<1> QED
  BY <1>2, <1>3, <1>4

LEMMA ShellInvStep == ShellInv /\ [ShellNext]_shell_vars => ShellInv'
<1> SUFFICES ASSUME ShellInv, [ShellNext]_shell_vars PROVE ShellInv'
  OBVIOUS
<1>1. ShellTypeOK'
  BY ShellTypeStep DEF ShellInv
<1>2. CASE UNCHANGED shell_vars
  BY <1>2 DEF shell_vars, dialogue, consoles, ShellInv, ShellTypeOK, DialogueInv, At, Good, Idle
<1>3. ASSUME NEW w \in Consoles, Step(w) PROVE ShellInv'
  BY <1>3, StepKeeps
<1>4. ASSUME NEW w \in Consoles, NEW l \in Words, Receive(w, l) PROVE ShellInv'
  <2>1. /\ shell_pc'[w] = "switch" /\ from'[w] = from[w] /\ from' = from
        /\ \A v \in Consoles \ {w} : shell_pc'[v] = shell_pc[v]
        /\ UNCHANGED <<Shell_State, Shell_Msg, request>>
        /\ Idle(w)
    BY <1>4 DEF Receive, Go, ShellInv, ShellTypeOK
  <2>2. \A v \in Consoles : from[v] = "INIT" \/ ~Idle(v)
    BY DEF ShellInv
  <2>3. CASE mixed'
    BY <1>1, <2>1, <2>2, <2>3 DEF ShellInv, DialogueInv, Idle
  <2>4. CASE ~mixed'
    <3>1. Idle(1) /\ Idle(2) /\ (~mixed \/ Shell_State = "INIT")
      <4>1. Idle(1) /\ (~mixed \/ Shell_State = "INIT")
        BY <1>4, <2>4 DEF Receive
      <4>2. \A v \in Consoles : v >= w => Idle(v)
        BY <1>4 DEF Receive
      <4>3. Idle(2)
        BY <4>2
      <4> QED
        BY <4>1, <4>3
    <3>2. Good
      BY <3>1 DEF ShellInv, DialogueInv, Good
    <3>3. Good'
      BY <2>1, <3>2 DEF Good
    <3>4. \A v \in Consoles \ {w} : Idle(v)' /\ from'[v] = "INIT"
      BY <2>1, <2>2, <3>1 DEF Idle
    <3>5. At(w)'
      BY <2>1, <2>2, <3>3 DEF At, Idle
    <3> QED
      BY <1>1, <2>1, <3>3, <3>4, <3>5, OneMoves
  <2> QED
    BY <2>3, <2>4
<1>5. CASE Manual
  <2>1. /\ shell_pc'[1] = "finish" /\ shell_pc'[2] = shell_pc[2] /\ Idle(1) /\ Idle(2)
        /\ from' = from /\ from[1] = "INIT" /\ from[2] = "INIT"
    BY <1>5 DEF Manual, Go, ShellInv, ShellTypeOK
  <2>2. At(1)' /\ ~Idle(1)' /\ Idle(2)'
    BY <2>1 DEF At, Idle
  <2> QED
    BY <1>1, <2>1, <2>2, OneMoves
<1>6. CASE Accept
  <2>1. Shell_State' = "INIT" /\ Idle(2) /\ shell_pc' = shell_pc /\ from' = from
    BY <1>6 DEF Accept, consoles
  <2>2. CASE mixed'
    BY <1>1, <2>1, <2>2 DEF ShellInv, DialogueInv, Idle
  <2>3. CASE ~mixed'
    <3>1. Idle(1)
      BY <1>6, <2>3 DEF Accept
    <3>2. \A v \in Consoles : Idle(v)' /\ from'[v] = "INIT"
      BY <2>1, <3>1 DEF ShellInv, Idle
    <3> QED
      BY <1>1, <2>1, <3>2, OneMoves DEF At, Idle, Good
  <2> QED
    BY <2>2, <2>3
<1> QED
  BY <1>2, <1>3, <1>4, <1>5, <1>6 DEF ShellNext

(* The invariant of the dialogue: what the shared state and message hold   *)
(* at every step of a handler that nobody has preempted.                   *)
THEOREM ShellInvariance == ShellSpec => []ShellInv
<1> QED
  BY ShellInvInit, ShellInvStep, PTL DEF ShellSpec

(* A console that waits for an answer still knows the question.            *)
THEOREM DialogueAlwaysSound == ShellSpec => []DialogueSound
<1>1. ShellInv => DialogueSound
  BY DEF ShellInv, DialogueInv, DialogueSound, Good
<1> QED
  BY <1>1, ShellInvariance, PTL

(* DoExecute gets the number of the command that asked for the password.   *)
THEOREM OutputsAsAsked == ShellSpec => OutputAsAsked
<1>1. ASSUME ShellInv, NEW w \in Consoles, CmdDoExecute(w), ~mixed
      PROVE  request.m_type = "CMD_DO" /\ Shell_Msg = request
  BY <1>1, OthersWait DEF CmdDoExecute, AtStep, At, Idle
<1>2. ShellInv /\ [ShellNext]_shell_vars =>
        [\A w \in Consoles : CmdDoExecute(w) =>
           mixed \/ (request.m_type = "CMD_DO" /\ Shell_Msg = request)]_shell_vars
  BY <1>1
<1> QED
  BY <1>2, ShellInvariance, PTL DEF ShellSpec, OutputAsAsked

(* What is stored is what the dialogue was begun for, with the exceptions  *)
(* that StoredAsAsked names.                                               *)
THEOREM SettingsAsAsked == ShellSpec => StoredAsAsked
<1> DEFINE Asked ==
      \A w \in Consoles :
        /\ CmdSetting(w) /\ Shell_Msg.m_type \in Stored =>
             \/ mixed \/ line[w] \notin NoCommand
             \/ request.m_type = Shell_Msg.m_type
        /\ ShellSetEthTime(w) =>
             \/ mixed \/ request.m_type = Shell_Msg.m_type
             \/ w = 1 /\ request.m_type = "CMD_RESTOREIP"
<1>1. ASSUME ShellInv, NEW w \in Consoles, CmdSetting(w), ~mixed
      PROVE  line[w] \notin NoCommand \/ request = Shell_Msg
  BY <1>1, OthersWait DEF CmdSetting, AtStep, At, Idle
<1>2. ASSUME ShellInv, NEW w \in Consoles, ShellSetEthTime(w), ~mixed
      PROVE  request = Shell_Msg \/ (w = 1 /\ request.m_type = "CMD_RESTOREIP")
  BY <1>2, OthersWait DEF ShellSetEthTime, AtStep, At, Idle
<1>3. ShellInv /\ [ShellNext]_shell_vars => [Asked]_shell_vars
  BY <1>1, <1>2
<1> QED
  BY <1>3, ShellInvariance, PTL DEF ShellSpec, StoredAsAsked
=============================================================================
