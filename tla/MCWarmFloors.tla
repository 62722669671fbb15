----------------------------- MODULE MCWarmFloors -----------------------------
\* The two halves of the living room: one air sensor, one floor with two sensors,
\* one priority, and power for one of them at a time; where the air is not known,
\* the colder floor has the greater need.
EXTENDS WarmFloors, TLC

MCRooms == {"living1", "living2"}
MCSensors == {"livingAir"}
MCSensorOf == [r \in MCRooms |-> "livingAir"]
MCOneFloor == [r \in MCRooms |-> MCRooms]
MCSetpoints == {210}
MCExtra == [r \in MCRooms |-> 70]
MCPow == "living1" :> 3 @@ "living2" :> 2
MCPrior == [r \in MCRooms |-> 4]
MCAirs == {200, 210, 220}
MCFloors == {250, 270, 320}
MCLimits == {2, 3}
=============================================================================
