----------------------- MODULE MC_HardwareDiagnostics -----------------------
(* Values for model checking HardwareDiagnostics, and the claim of the       *)
(* design document that it is run against.                                   *)
EXTENDS HardwareDiagnostics

MCMasks == {{"CRTL"}, {"BUSOFF", "CRTL"}}

Levels(message) == <<message.bus, message.motor[0], message.motor[1]>>

\* "A severity change ... publishes immediately" (docs/superpowers/specs/
\* 2026-07-18-engineering-hardening-design.md, line 129): when a read returns
\* without a fault the levels last published are those of this moment, unless
\* the lock was taken and the report is owed.
SeverityChangePublishes ==
    [][pc = "reading" /\ pc' = "idle" /\ ~fault_latched' /\ ~diagnostics_pending'
           => Levels(report') = Levels(NextReport)]_diagnostic_vars
=============================================================================
