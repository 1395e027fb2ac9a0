------------------------------ MODULE MCAuditChain ------------------------------
(* Values of the constants of AuditChain for TLC.                          *)
EXTENDS AuditChain
CONSTANTS i1, i2
MCBoth == {i1, i2}
MCFirst == {i1}
MCSecond == {i2}
=============================================================================
