---------------------------- MODULE MCWatchdog ----------------------------
\* Instances of Watchdog for TLC: short limits, in the order of the real ones.
EXTENDS Watchdog
=============================================================================
