---------------------------- MODULE MCAuditChain ----------------------------
(* Instances of AuditChain for TLC.                                        *)
EXTENDS AuditChain

\* One crash or one fault, if any.
MCBudgets == {[crash |-> 1, fault |-> 0], [crash |-> 0, fault |-> 1]}
QuietBudgets == {[crash |-> 0, fault |-> 0]}
=============================================================================
