----------------------------- MODULE MCHaRegistry -----------------------------
\* Instances of HaRegistry for TLC: a bedroom that is on one floor, on two, and
\* then on the other; its sensor is replaced, or ends in the hall.
EXTENDS HaRegistry

It(kind, name, area, floor) == [kind |-> kind, name |-> name, area |-> area, floor |-> floor]

Lamp(floor) == It("light", <<"svet", "spalnya">>, "spalnya", floor)
Floor(floor) == It("zone", <<"spalnya">>, "spalnya", floor)
Air(area, floor) == It("air", <<"zb", "spalnya">>, area, floor)
OtherAir == It("air", <<"zb", "mansarda">>, "spalnya", "2")
Kettle == It("kettle", <<"ble", "teapot">>, "kuhnya", Unplaced)
Server == It("humidity", <<"servern">>, Unplaced, "1")

MCSnapshots ==
  { {Lamp("1"), Floor("1"), Air("spalnya", "1"), Kettle, Server},
    {Lamp("1"), Floor("1"), Air("spalnya", "1"), OtherAir, Kettle},
    {Lamp("2"), Floor("2"), OtherAir},
    {Floor("1"), Air("holl", "1"), OtherAir, Kettle, Server} }

MCPlaces == { <<"spalnya", "1">> }
MCUnplaced == { <<"servern", "servernaya">> }
=============================================================================
