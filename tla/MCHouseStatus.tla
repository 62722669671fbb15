---------------------------- MODULE MCHouseStatus ----------------------------
\* Instances of HouseStatus for TLC: a house with two controllers.
EXTENDS HouseStatus, TLC

CONSTANTS d1, d2
=============================================================================
