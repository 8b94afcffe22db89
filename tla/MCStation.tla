--------------------------- MODULE MCStation ---------------------------
EXTENDS Station, TLC
MCWords == {Yes, Password, Text,
  <<"CMD_DO", 1, "CmdQNA">>, <<"CMD_DO", 2, "CmdQNA">>, <<"CMD_ADDR", 0, "CmdQNA">>,
  <<"CMD_RESTOREIP", 0, "CmdQNA">>, <<"CMD_NAME", 0, "CmdShowData">>,
  <<"CMD_ETH_LINK_TIME", 0, "CmdQNA">>, <<"CMD_DATE", 0, "CmdQNA">>,
  <<"CMD_REBOOT", 0, "CmdRestart">>}

(* Requests to operate an output and to read, a request with another       *)
(* header, two requests in one segment, fragments of 1, 4, 5 and 8 bytes,  *)
(* and segments of 32 bytes (Index) with a request in front and without.    *)
Order(f, r, v) == <<0, 0, 0, 0, 0, 6, 1, f, 0, r, 0, v>>
MCSegments == {
  Order(5, 1, 170), Order(5, 2, 204), Order(5, 5, 170), Order(4, 1, 28), Order(2, 1, 17),
  Order(6, 1, 1), <<0, 7, 0, 0, 0, 6, 1, 5, 0, 1, 0, 170>>,
  Order(5, 1, 204) \o Order(5, 1, 170),
  <<5>>, <<0, 0, 0, 0>>, <<6, 1, 5, 0, 1>>,
  <<0, 6, 1, 5, 0, 1, 0, 170>>,
  Order(5, 1, 170) \o [i \in 1..20 |-> 5], [i \in 1..32 |-> 5]}

PartSymmetry == Permutations(Pcbs) \cup Permutations(Frames)
=============================================================================
