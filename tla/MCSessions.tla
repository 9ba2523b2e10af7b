----------------------------- MODULE MCSessions -----------------------------
(* A lookup from 1 to 2 that 2 may forward to 3, while 1 fetches a file    *)
(* from 2.  The identifiers of the lookup and of the relay are the same.   *)
EXTENDS Sessions

MCNode == {1, 2, 3}
MCRequest == {"lookup", "relay", "file"}
MCClient == [lookup |-> 1, relay |-> 2, file |-> 1]
MCServer == [lookup |-> 2, relay |-> 3, file |-> 2]
MCRelayed == [lookup |-> "relay", relay |-> NoRequest]
=============================================================================
