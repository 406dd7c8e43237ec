------------------------------ MODULE MCPlanes ------------------------------
(* One instance of the data planes: the handlers of the server's recv        *)
(* threads on the session table, its downlink batch, the segmentation        *)
(* offload of the TUN pump and of the SOCKS client, and the transmit queue   *)
(* and the connection slots of the client's user-space TCP stack.  They      *)
(* share no state; `part' says which one moves, so that their state spaces   *)
(* add up and do not multiply.                                               *)
EXTENDS MCServerSession, DownlinkBatch, PumpGso, SocksTx, LwipBridge

VARIABLE part

MCInit ==
  /\ part \in {"session", "downlink", "pump", "socks", "tx", "stack"}
  /\ Init /\ DlInit /\ PumpInit /\ SocksInit /\ TxInit /\ NsInit

MCNext ==
  /\ UNCHANGED part
  /\ part # "session" => UNCHANGED vars
  /\ part # "downlink" => UNCHANGED dlVars
  /\ part # "pump" => UNCHANGED pumpVars
  /\ part # "socks" => UNCHANGED socksVars
  /\ part # "tx" => UNCHANGED txVars
  /\ part # "stack" => UNCHANGED nsVars
  /\ \/ part = "session" /\ Next
     \/ part = "downlink" /\ DlNext
     \/ part = "pump" /\ PumpNext
     \/ part = "socks" /\ SocksNext
     \/ part = "tx" /\ TxNext
     \/ part = "stack" /\ NsNext

MCSpec ==
  MCInit /\ [][MCNext]_<<vars, dlVars, pumpVars, socksVars, txVars, nsVars, part>>
=============================================================================
