---------------------------- MODULE MCRtpSender ----------------------------
(* Instances of RtpSender for TLC. Constants are given in the .cfg files.   *)
EXTENDS RtpSender
=============================================================================
