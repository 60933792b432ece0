------------------------------ MODULE MCFirehose ------------------------------
(* Firehose with two subscribers and channels of one and two frames. *)
EXTENDS Firehose
=============================================================================
