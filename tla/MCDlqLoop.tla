----------------------------- MODULE MCDlqLoop -----------------------------
(* Small instances of DlqLoop: one partition, the records the job writes.     *)
EXTENDS DlqLoop, TLC

CONSTANTS p1, c1, c2

JobRecords == {[json |-> TRUE, header |-> NoHeader]}
=============================================================================
