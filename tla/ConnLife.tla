------------------------------ MODULE ConnLife ------------------------------
(***************************************************************************)
(* What TCP promises the servers about a connection's callbacks, as seen   *)
(* by the argument that accept allocates: it is handed over once, the end  *)
(* of the connection is told by recv(NULL) or by the error callback, and   *)
(* after the end there are no callbacks.  Two exceptions are part of the   *)
(* promise because the code has them: an error after recv(NULL) is told as *)
(* well (the servers free the argument twice), and a reset of the Ethernet *)
(* tells nobody (the argument is never freed) and goes on until there are  *)
(* no connections.                                                         *)
(***************************************************************************)
CONSTANT Conns

VARIABLES
  live,       \* the connections that exist
  arg,        \* per connection: what became of the argument
  resetting,  \* a reset is ending the connections
  sound       \* nothing has broken the list of connections: without it, no promise

life_vars == <<live, arg, resetting, sound>>

LifeInit ==
  live = {} /\ arg = [c \in Conns |-> "none"] /\ resetting = FALSE /\ sound = TRUE

Opened(c) == c \notin live /\ live' = live \cup {c} /\ arg' = [arg EXCEPT ![c] = "none"]
Accepted(c) ==
  /\ c \in live /\ arg[c] = "none"
  /\ arg' = [arg EXCEPT ![c] = "held"] /\ UNCHANGED live
Closing(c) ==
  /\ c \in live /\ arg[c] = "held"
  /\ arg' = [arg EXCEPT ![c] = "released"] /\ UNCHANGED live

AfterError(a) ==
  CASE a = "held" -> "released" [] a = "released" -> "released twice" [] OTHER -> a
Failed(c) ==
  /\ c \in live
  /\ live' = live \ {c} /\ arg' = [arg EXCEPT ![c] = AfterError(arg[c])]
Ended(c) == c \in live /\ arg[c] # "held" /\ live' = live \ {c} /\ UNCHANGED arg

(* A new connection takes the place of one that is told.                   *)
Replaced(c) == c \in live /\ arg' = [arg EXCEPT ![c] = "none"] /\ UNCHANGED live

ResetBegins == ~resetting /\ live # {} /\ resetting' = TRUE /\ UNCHANGED <<live, arg>>
Dropped(c) ==
  /\ resetting /\ c \in live
  /\ live' = live \ {c} /\ resetting' = (live' # {}) /\ UNCHANGED arg
AllReset == live' = {} /\ UNCHANGED arg

LifeNext ==
  \/ /\ sound /\ sound'
     /\ \/ /\ UNCHANGED resetting
           /\ \/ \E c \in Conns :
                   \/ Opened(c) \/ Accepted(c) \/ Closing(c) \/ Failed(c) \/ Ended(c)
                   \/ Replaced(c)
              \/ AllReset
        \/ ResetBegins \/ \E c \in Conns : Dropped(c)
  \/ ~sound'

LifeSpec == LifeInit /\ [][LifeNext]_life_vars
=============================================================================
