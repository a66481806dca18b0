---------------------------- MODULE MCMailboxWait ----------------------------
(* A small instance of MailboxWait for TLC.                                 *)
EXTENDS MailboxWait

=============================================================================
