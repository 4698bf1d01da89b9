--------------------------- MODULE MCTicketParser ---------------------------
(* Instances of TicketParser for TLC.                                      *)
EXTENDS TicketParser
=============================================================================
