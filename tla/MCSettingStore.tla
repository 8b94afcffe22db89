--------------------------- MODULE MCSettingStore ---------------------------
(* SettingStore with the main loop and two shells, a queue of two records  *)
(* (25 and 10 on the board), no name and no time but the default, and      *)
(* address lines that end in 255 or are refused at the third octet.  They  *)
(* change one octet in each half-word, enough to tell an old half from a   *)
(* new.                                                                    *)
EXTENDS SettingStore

Lines == { <<172, 21, 100, 255>>, <<172, 21, 256, 1>> }
OnlyDefault == {DefaultName}

(* Bound: a behaviour has records and one shell, whose message asks for an *)
(* address when CmdSetting reads it, or two shells that cut into one       *)
(* another and no record.                                                  *)
VARIABLE crossed

MCInit == Init /\ crossed \in {"records", "shells"}
MCNext ==
  /\ \/ /\ crossed = "records"
        /\ Enqueue \/ \E w \in {0, 1} : Shell(w) \/ DataBase_Write(w)
        /\ pc'[1] \in {"octet", "setting"} => m_type' = "CMD_ADDR"
     \/ crossed = "shells" /\ \E w \in {1, 2} : Shell(w) \/ DataBase_Write(w)
     \/ PowerCycle
  /\ UNCHANGED crossed
MCSpec == MCInit /\ [][MCNext]_<<vars, crossed>>
=============================================================================
