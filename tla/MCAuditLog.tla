------------------------------ MODULE MCAuditLog ----------------------------
(* AuditLog with small batches.                                            *)
EXTENDS AuditLog
=============================================================================
