------------------------------- MODULE MCInbox -------------------------------
(* Model-checking instance of Inbox: one issue of the one repository, whose  *)
(* deliveries meet those of no other issue.                                  *)
EXTENDS Inbox

MCIssue == {1}
=============================================================================
