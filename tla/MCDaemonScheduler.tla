--------------------------- MODULE MCDaemonScheduler ---------------------------
(* An instance of DaemonScheduler: one proposal of one domain, and one that  *)
(* needs the authorities of both.                                            *)
EXTENDS DaemonScheduler

SomeProposals == {"solo", "dual"}
Required == [solo |-> {}, dual |-> {"education", "agriculture"}]
=============================================================================
