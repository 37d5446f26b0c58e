----------------------------- MODULE MCChannel -----------------------------
(* Instances of Channel for TLC. *)
EXTENDS ChannelProps, TLC

CONSTANTS t1, t2, t3, a, b

MCThread == {t1, t2, t3}
MCValue  == {a, b}
=============================================================================
