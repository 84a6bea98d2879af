--------------------------- MODULE MCHttpProducer ---------------------------
(* Both adapters, each with two awards after one another and a partner that  *)
(* comes to hold a handful of projects, missions or orders.                  *)
EXTENDS HttpProducer

MCApis == {"DroneDeploy", "Skydio"}
=============================================================================
