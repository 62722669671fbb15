----------------------------- MODULE MCTelemetry -----------------------------
\* An instance of Telemetry for TLC: two addresses, a buffer that a batch and an
\* export overflow.
EXTENDS Telemetry
=============================================================================
