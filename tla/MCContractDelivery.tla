------------------------- MODULE MCContractDelivery -------------------------
(* Three requests at a time, two versions of the data, as many generation   *)
(* runs as requests and one failure: one run fails while others go on.      *)
EXTENDS ContractDelivery

=============================================================================
