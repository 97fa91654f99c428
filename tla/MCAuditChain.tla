---------------------------- MODULE MCAuditChain ----------------------------
(* A small instance of the audit log.                                      *)
EXTENDS AuditChain, TLC
=============================================================================
