------------------------------ MODULE HaProofs ------------------------------
(***************************************************************************)
(* Proofs about the Home Assistant integration.                            *)
(*                                                                         *)
(* HaRegistry: a poll that finds what the last one found only takes away   *)
(* areas, and the next one finds nothing to do.                            *)
(***************************************************************************)
EXTENDS HaEntities, HaRegistry, FiniteSetTheorems, TLAPS

-----------------------------------------------------------------------------
(* Places                                                                  *)

\* AreaNameFor names a floor only where there are two, and what is named so is
\* no leftover of a split (snapshot.py).
LEMMA PlaceIsNoLeftover ==
  ASSUME NEW items, IsFiniteSet(items), NEW i, NEW places
  PROVE  PlaceOf(items, i) \notin LeftoverSplit(places, items)
<1>1. Cardinality(FloorsByArea(items, i.area)) \in Nat
  <2> DEFINE D == {x \in items : x.area = i.area /\ x.area # Unplaced /\ x.floor # Unplaced}
             f == [x \in D |-> x.floor]
  <2>1. IsFiniteSet(D)
    BY FS_Subset
  <2>2. f \in Surjection(D, FloorsByArea(items, i.area))
    BY DEF Surjection, FloorsByArea
  <2> QED
    BY <2>1, <2>2, FS_Surjection, FS_CardinalityType
<1>2. ASSUME NEW p, p = AreaNameFor(items, i.area, i.floor)
      PROVE  p[2] = "" \/ (p[1] = i.area /\ Cardinality(FloorsByArea(items, i.area)) > 1)
  <2>1. CASE i.floor = "outside"
    <3>1. p = <<IF i.area = Unplaced THEN "outside" ELSE i.area, "">>
      BY <1>2, <2>1 DEF AreaNameFor
    <3> QED
      BY <3>1
  <2>2. CASE i.floor # "outside"
    BY <1>2, <2>2 DEF AreaNameFor
  <2> QED
    BY <2>1, <2>2
<1>3. \/ PlaceOf(items, i) = AreaNameFor(items, i.area, i.floor)
      \/ PlaceOf(items, i)[2] = ""
  BY DEF PlaceOf, House
<1>4. \/ PlaceOf(items, i)[2] = ""
      \/ PlaceOf(items, i)[1] = i.area /\ Cardinality(FloorsByArea(items, i.area)) > 1
  BY <1>2, <1>3
<1>5. SUFFICES ASSUME PlaceOf(items, i) \in LeftoverSplit(places, items)
                PROVE  FALSE
  OBVIOUS
<1>6. PlaceOf(items, i)[2] # "" /\ Cardinality(FloorsByArea(items, PlaceOf(items, i)[1])) <= 1
  BY <1>5 DEF LeftoverSplit
<1>7. PlaceOf(items, i)[1] = i.area /\ Cardinality(FloorsByArea(items, i.area)) > 1
  BY <1>4, <1>6
<1>8. Cardinality(FloorsByArea(items, i.area)) <= 1
  BY <1>6, <1>7
<1> QED
  BY <1>1, <1>7, <1>8

LEMMA HouseIsNoLeftover ==
  ASSUME NEW items, NEW places
  PROVE  House \notin LeftoverSplit(places, items)
BY DEF LeftoverSplit, House

-----------------------------------------------------------------------------
(* What a poll does to the registries.                                     *)

Wide(items) == WithAreas(areas, items)
Kept(items) == DOMAIN Wide(items) \ Unused(DOMAIN Wide(items), Moved(ents, items), items)
PlacesOf(items) == {PlaceOf(items, i) : i \in items}
Zoned(items) == {PlaceOf(items, i) : i \in {i \in items : i.kind = "zone"}}

LEMMA PollFact ==
  ASSUME NEW items, Poll(items)
  PROVE  /\ areas' = WithSensors([p \in Kept(items) |-> Wide(items)[p]], items)
         /\ ents' = Reassigned(WithKettleHidden(Moved(ents, items), items), Kept(items), items,
                               Reached(items))
         /\ entities' = [n \in DOMAIN entities |->
                           IF n \in Reached(items)
                           THEN [entities[n] EXCEPT !.home = HomeOf(entities[n], items)]
                           ELSE entities[n]]
         /\ latest' = items
         /\ calm' = IF items = latest THEN Min({calm + 1, 2}) ELSE 1
BY DEF Poll, Kept, Wide

LEMMA WideFact ==
  ASSUME NEW items
  PROVE  /\ DOMAIN Wide(items) = DOMAIN areas \cup {House} \cup PlacesOf(items)
         /\ \A p \in DOMAIN Wide(items) :
              Wide(items)[p] =
                IF p = House \/ FloorsAt(items, p) = {} THEN (IF p \in DOMAIN areas THEN areas[p] ELSE NewArea)
                ELSE [(IF p \in DOMAIN areas THEN areas[p] ELSE NewArea)
                        EXCEPT !.floor = CHOOSE f \in FloorsAt(items, p) : TRUE]
BY DEF Wide, WithAreas, PlacesOf

\* The areas that a poll needs are not taken away.
LEMMA KeptFact ==
  ASSUME NEW items \in Snapshots
  PROVE  /\ Kept(items) \subseteq DOMAIN Wide(items)
         /\ House \in Kept(items) /\ PlacesOf(items) \subseteq Kept(items)
         /\ \A u \in DOMAIN ents : Moved(ents, items)[u].place \in DOMAIN Wide(items)
                                     => Moved(ents, items)[u].place \in Kept(items)
<1>1. IsFiniteSet(items)
  BY RegistryOK
<1>2. PlacesOf(items) \cap Unused(DOMAIN Wide(items), Moved(ents, items), items) = {}
  BY <1>1, PlaceIsNoLeftover DEF PlacesOf, Unused
<1>3. House \notin Unused(DOMAIN Wide(items), Moved(ents, items), items)
  BY HouseIsNoLeftover DEF Unused
<1>4. DOMAIN Moved(ents, items) = DOMAIN ents
  BY DEF Moved
<1>5. \A u \in DOMAIN ents :
        Moved(ents, items)[u].place \notin Unused(DOMAIN Wide(items), Moved(ents, items), items)
  BY <1>4 DEF Unused
<1> QED
  BY <1>2, <1>3, <1>5, WideFact DEF Kept

\* Records of the registries and of the entities.
IsArea(a) == a = [floor |-> a.floor, air |-> a.air, humidity |-> a.humidity]
IsEnt(e) == e = [place |-> e.place, hidden |-> e.hidden]
IsEntity(e) == e = [uid |-> e.uid, kind |-> e.kind, home |-> e.home]

Registered ==
  /\ areas = [p \in DOMAIN areas |-> areas[p]] /\ \A p \in DOMAIN areas : IsArea(areas[p])
  /\ ents = [u \in DOMAIN ents |-> ents[u]] /\ \A u \in DOMAIN ents : IsEnt(ents[u])
  /\ entities = [n \in DOMAIN entities |-> entities[n]] /\ \E k \in Nat : DOMAIN entities = 1..k
  /\ \A n \in DOMAIN entities : IsEntity(entities[n])
  /\ \A n, m \in DOMAIN entities : entities[n].uid = entities[m].uid => n = m

LEMMA MovedFact ==
  ASSUME Registered, NEW items \in Snapshots
  PROVE  /\ DOMAIN Moved(ents, items) = DOMAIN ents
         /\ \A u \in DOMAIN ents :
              /\ IsEnt(Moved(ents, items)[u]) /\ Moved(ents, items)[u].hidden = ents[u].hidden
              /\ \A i \in items : Uid(i) = u => Moved(ents, items)[u].place = PlaceOf(items, i)
              /\ (\A i \in items : Uid(i) # u) => Moved(ents, items)[u] = ents[u]
<1>1. DOMAIN Moved(ents, items) = DOMAIN ents
  BY DEF Moved
<1> SUFFICES ASSUME NEW u \in DOMAIN ents
             PROVE  /\ IsEnt(Moved(ents, items)[u]) /\ Moved(ents, items)[u].hidden = ents[u].hidden
                    /\ \A i \in items : Uid(i) = u => Moved(ents, items)[u].place = PlaceOf(items, i)
                    /\ (\A i \in items : Uid(i) # u) => Moved(ents, items)[u] = ents[u]
  BY <1>1
<1> DEFINE mine == {i \in items : Uid(i) = u}
           there == CHOOSE i \in mine : TRUE
           m == Moved(ents, items)[u]
<1>2. m = IF mine = {} THEN ents[u] ELSE [ents[u] EXCEPT !.place = PlaceOf(items, there)]
  BY DEF Moved
<1>3. IsEnt(ents[u])
  BY DEF Registered
<1>4. \A i \in mine : i = there
  BY RegistryOK
<1> HIDE DEF there, m
<1>5. CASE mine = {}
  BY <1>2, <1>3, <1>5 DEF m
<1>6. CASE mine # {}
  <2>1. m = [place |-> PlaceOf(items, there), hidden |-> ents[u].hidden]
    BY <1>2, <1>3, <1>6 DEF IsEnt
  <2>2. IsEnt(m) /\ m.hidden = ents[u].hidden /\ m.place = PlaceOf(items, there)
    BY <2>1 DEF IsEnt
  <2> QED
    BY <1>4, <1>6, <2>2 DEF m
<1> QED
  BY <1>5, <1>6

LEMMA HiddenFact ==
  ASSUME NEW f, NEW items, \A u \in DOMAIN f : IsEnt(f[u])
  PROVE  /\ DOMAIN WithKettleHidden(f, items) = DOMAIN f
         /\ \A u \in DOMAIN f :
              /\ IsEnt(WithKettleHidden(f, items)[u])
              /\ WithKettleHidden(f, items)[u].place = f[u].place
              /\ WithKettleHidden(f, items)[u].hidden \in {f[u].hidden, "integration"}
              /\ (\E i \in items : i.kind = "kettle" /\ Uid(i) = u)
                   => WithKettleHidden(f, items)[u].hidden # "none"
              /\ ((\E i \in items : i.kind = "kettle" /\ Uid(i) = u) /\ f[u].hidden # "none")
                 \/ ~(\E i \in items : i.kind = "kettle" /\ Uid(i) = u)
                   => WithKettleHidden(f, items)[u] = f[u]
<1>1. DOMAIN WithKettleHidden(f, items) = DOMAIN f
  BY DEF WithKettleHidden
<1> SUFFICES ASSUME NEW u \in DOMAIN f
             PROVE  /\ IsEnt(WithKettleHidden(f, items)[u])
                    /\ WithKettleHidden(f, items)[u].place = f[u].place
                    /\ WithKettleHidden(f, items)[u].hidden \in {f[u].hidden, "integration"}
                    /\ (\E i \in items : i.kind = "kettle" /\ Uid(i) = u)
                         => WithKettleHidden(f, items)[u].hidden # "none"
                    /\ ((\E i \in items : i.kind = "kettle" /\ Uid(i) = u) /\ f[u].hidden # "none")
                       \/ ~(\E i \in items : i.kind = "kettle" /\ Uid(i) = u)
                         => WithKettleHidden(f, items)[u] = f[u]
  BY <1>1
<1> DEFINE h == WithKettleHidden(f, items)[u]
           kettle == \E i \in items : i.kind = "kettle" /\ Uid(i) = u
<1>2. h = IF f[u].hidden = "none" /\ kettle THEN [f[u] EXCEPT !.hidden = "integration"] ELSE f[u]
  BY DEF WithKettleHidden
<1>3. IsEnt(f[u])
  OBVIOUS
<1> HIDE DEF kettle, h
<1>4. CASE f[u].hidden = "none" /\ kettle
  <2>1. h = [place |-> f[u].place, hidden |-> "integration"]
    BY <1>2, <1>3, <1>4 DEF IsEnt
  <2>2. IsEnt(h) /\ h.place = f[u].place /\ h.hidden = "integration"
    BY <2>1 DEF IsEnt
  <2> QED
    BY <1>4, <2>2 DEF h, kettle
<1>5. CASE ~(f[u].hidden = "none" /\ kettle)
  BY <1>2, <1>3, <1>5 DEF h, kettle
<1> QED
  BY <1>4, <1>5

\* The entities that are asked put themselves in their homes, the others stay.
LEMMA ReassignedFact ==
  ASSUME Registered, NEW f, NEW items, NEW places, NEW reached \in SUBSET DOMAIN entities,
         \A u \in DOMAIN f : IsEnt(f[u])
  PROVE  /\ DOMAIN Reassigned(f, places, items, reached) = DOMAIN f
         /\ \A u \in DOMAIN f :
              /\ IsEnt(Reassigned(f, places, items, reached)[u])
              /\ Reassigned(f, places, items, reached)[u].hidden = f[u].hidden
              /\ \A n \in reached : entities[n].uid = u /\ HomeOf(entities[n], items) \in places =>
                   Reassigned(f, places, items, reached)[u].place = HomeOf(entities[n], items)
              /\ \/ Reassigned(f, places, items, reached)[u] = f[u]
                 \/ \E n \in reached :
                      /\ entities[n].uid = u /\ HomeOf(entities[n], items) \in places
                      /\ Reassigned(f, places, items, reached)[u]
                           = [f[u] EXCEPT !.place = HomeOf(entities[n], items)]
<1>1. DOMAIN Reassigned(f, places, items, reached) = DOMAIN f
  BY DEF Reassigned
<1> SUFFICES ASSUME NEW u \in DOMAIN f
             PROVE  /\ IsEnt(Reassigned(f, places, items, reached)[u])
                    /\ Reassigned(f, places, items, reached)[u].hidden = f[u].hidden
                    /\ \A n \in reached : entities[n].uid = u /\ HomeOf(entities[n], items) \in places =>
                         Reassigned(f, places, items, reached)[u].place = HomeOf(entities[n], items)
                    /\ \/ Reassigned(f, places, items, reached)[u] = f[u]
                       \/ \E n \in reached :
                            /\ entities[n].uid = u /\ HomeOf(entities[n], items) \in places
                            /\ Reassigned(f, places, items, reached)[u]
                                 = [f[u] EXCEPT !.place = HomeOf(entities[n], items)]
  BY <1>1
<1> DEFINE mine == {n \in reached : entities[n].uid = u /\ HomeOf(entities[n], items) \in places}
           one == CHOOSE n \in mine : TRUE
           r == Reassigned(f, places, items, reached)[u]
<1>2. r = IF mine = {} THEN f[u] ELSE [f[u] EXCEPT !.place = HomeOf(entities[one], items)]
  BY DEF Reassigned
<1>3. IsEnt(f[u])
  OBVIOUS
<1>4. \A n \in mine : n = one
  BY DEF Registered
<1> HIDE DEF one, r
<1>5. CASE mine = {}
  BY <1>2, <1>3, <1>5 DEF r
<1>6. CASE mine # {}
  <2>1. r = [place |-> HomeOf(entities[one], items), hidden |-> f[u].hidden]
    BY <1>2, <1>3, <1>6 DEF IsEnt
  <2>2. IsEnt(r) /\ r.hidden = f[u].hidden /\ r.place = HomeOf(entities[one], items)
    BY <2>1 DEF IsEnt
  <2>3. one \in mine /\ r = [f[u] EXCEPT !.place = HomeOf(entities[one], items)]
    BY <1>2, <1>4, <1>6
  <2> QED
    BY <1>4, <2>2, <2>3 DEF r
<1> QED
  BY <1>5, <1>6

\* The sensor of an area: picked twice it is the same, and what is picked is
\* known to the entity registry (pick_area_entity).
LEMMA PickTwice ==
  ASSUME NEW c, NEW found
  PROVE  PickSensor(PickSensor(c, found), found) = PickSensor(c, found)
<1> DEFINE d == TakeSensor(found)
           loaded == \E n \in DOMAIN entities : entities[n].uid = d
<1>1. \A x : PickSensor(x, found) = IF d # NoSensor /\ ~loaded THEN x ELSE IF x = Foreign THEN x ELSE d
  BY DEF PickSensor
<1> HIDE DEF d, loaded
<1> QED
  BY <1>1

LEMMA PickKnown ==
  ASSUME RegistryTypeOK, NEW found, NEW c \in {NoSensor, Foreign} \cup DOMAIN ents
  PROVE  PickSensor(c, found) \in {NoSensor, Foreign} \cup DOMAIN ents
BY DEF PickSensor, RegistryTypeOK

\* An entity that took its home has it.
LEMMA SameHome ==
  ASSUME NEW items, NEW e, NEW d, d.uid = e.uid, d.home \in {e.home, HomeOf(e, items)}
  PROVE  HomeOf(d, items) = HomeOf(e, items)
<1> DEFINE mine == {i \in items : Uid(i) = e.uid}
           there == PlaceOf(items, CHOOSE i \in mine : TRUE)
<1>1. HomeOf(e, items) = IF mine = {} THEN e.home ELSE there
  BY DEF HomeOf
<1>2. HomeOf(d, items) = IF mine = {} THEN d.home ELSE there
  BY DEF HomeOf
<1> HIDE DEF mine, there
<1> QED
  BY <1>1, <1>2

\* An entity of an item is at home in the item's place.
LEMMA HomeOfItem ==
  ASSUME NEW items \in Snapshots, NEW e, NEW i \in items, Uid(i) = e.uid
  PROVE  HomeOf(e, items) = PlaceOf(items, i)
<1> DEFINE mine == {j \in items : Uid(j) = e.uid}
           there == CHOOSE j \in mine : TRUE
<1>1. HomeOf(e, items) = IF mine = {} THEN e.home ELSE PlaceOf(items, there)
  BY DEF HomeOf
<1>2. there = i
  BY RegistryOK
<1> HIDE DEF there
<1> QED
  BY <1>1, <1>2

\* The entities after a poll are the same, in the homes that they had or got.
LEMMA EntitiesFact ==
  ASSUME Registered, NEW items, Poll(items)
  PROVE  /\ DOMAIN entities' = DOMAIN entities
         /\ entities' = [n \in DOMAIN entities |-> entities'[n]]
         /\ \A n \in DOMAIN entities :
              /\ IsEntity(entities'[n])
              /\ entities'[n].uid = entities[n].uid /\ entities'[n].kind = entities[n].kind
              /\ HomeOf(entities'[n], items) = HomeOf(entities[n], items)
<1>1. entities' = [n \in DOMAIN entities |->
                     IF n \in Reached(items)
                     THEN [entities[n] EXCEPT !.home = HomeOf(entities[n], items)]
                     ELSE entities[n]]
  BY PollFact
<1>2. ASSUME NEW n \in DOMAIN entities
      PROVE  /\ IsEntity(entities'[n])
             /\ entities'[n].uid = entities[n].uid /\ entities'[n].kind = entities[n].kind
             /\ entities'[n].home \in {entities[n].home, HomeOf(entities[n], items)}
  <2>1. IsEntity(entities[n])
    BY DEF Registered
  <2>2. CASE n \in Reached(items)
    <3> DEFINE h == HomeOf(entities[n], items)
    <3>1. entities'[n] = [entities[n] EXCEPT !.home = h]
      BY <1>1, <2>2
    <3> HIDE DEF h
    <3>2. entities'[n] = [uid |-> entities[n].uid, kind |-> entities[n].kind, home |-> h]
      BY <2>1, <3>1 DEF IsEntity
    <3>3. /\ IsEntity(entities'[n]) /\ entities'[n].home = h
          /\ entities'[n].uid = entities[n].uid /\ entities'[n].kind = entities[n].kind
      BY <3>2 DEF IsEntity
    <3> QED
      BY <3>3 DEF h
  <2>3. CASE n \notin Reached(items)
    <3>1. entities'[n] = entities[n]
      BY <1>1, <2>3
    <3> QED
      BY <2>1, <3>1
  <2> QED
    BY <2>2, <2>3
<1>3. ASSUME NEW n \in DOMAIN entities
      PROVE  HomeOf(entities'[n], items) = HomeOf(entities[n], items)
  BY <1>2, SameHome
<1> QED
  BY <1>1, <1>2, <1>3

LEMMA SameEntities ==
  ASSUME Registered, NEW items, Poll(items)
  PROVE  /\ Reached(items)' = Reached(items)
         /\ \A c, found : PickSensor(c, found)' = PickSensor(c, found)
<1>1. \A n \in DOMAIN entities : Gone(entities'[n], items) <=> Gone(entities[n], items)
  BY EntitiesFact DEF Gone
<1>2. /\ DOMAIN entities' = DOMAIN entities
      /\ \A n \in DOMAIN entities : /\ entities'[n].uid = entities[n].uid
                                    /\ entities'[n].kind = entities[n].kind
  BY EntitiesFact
<1>3. ASSUME NEW n \in DOMAIN entities
      PROVE  n \in Reached(items)' <=> n \in Reached(items)
  <2>1. n \in Reached(items) <=> /\ \A m \in 1..(n - 1) : ~Gone(entities[m], items)
                                 /\ Gone(entities[n], items) => entities[n].kind \notin {"light", "zone"}
    BY DEF Reached
  <2>2. n \in Reached(items)' <=> /\ \A m \in 1..(n - 1) : ~Gone(entities'[m], items)
                                  /\ Gone(entities'[n], items) => entities'[n].kind \notin {"light", "zone"}
    BY <1>2 DEF Reached, Gone
  <2>3. \A m \in 1..(n - 1) : m \in DOMAIN entities
    BY DEF Registered
  <2> QED
    BY <1>1, <1>2, <2>1, <2>2, <2>3
<1>4. Reached(items)' = Reached(items)
  BY <1>2, <1>3 DEF Reached
<1>5. ASSUME NEW c, NEW found
      PROVE  PickSensor(c, found)' = PickSensor(c, found)
  <2>1. \A d : (\A n \in DOMAIN entities' : entities'[n].uid # d)
                 <=> (\A n \in DOMAIN entities : entities[n].uid # d)
    BY <1>2
  <2> QED
    BY <2>1 DEF PickSensor
<1> QED
  BY <1>4, <1>5

\* The areas after a poll.
LEMMA WideIsArea ==
  ASSUME Registered, NEW items
  PROVE  \A p \in DOMAIN Wide(items) :
           /\ IsArea(Wide(items)[p])
           /\ p \in DOMAIN areas => /\ Wide(items)[p].air = areas[p].air
                                    /\ Wide(items)[p].humidity = areas[p].humidity
           /\ p \notin DOMAIN areas => Wide(items)[p].air = NoSensor
           /\ p # House /\ FloorsAt(items, p) # {} =>
                Wide(items)[p].floor = CHOOSE f \in FloorsAt(items, p) : TRUE
           /\ p \in DOMAIN areas /\ (p = House \/ FloorsAt(items, p) = {}
                                     \/ areas[p].floor = CHOOSE f \in FloorsAt(items, p) : TRUE)
                => Wide(items)[p] = areas[p]
<1> SUFFICES ASSUME NEW p \in DOMAIN Wide(items)
             PROVE  /\ IsArea(Wide(items)[p])
                    /\ p \in DOMAIN areas => /\ Wide(items)[p].air = areas[p].air
                                             /\ Wide(items)[p].humidity = areas[p].humidity
                    /\ p \notin DOMAIN areas => Wide(items)[p].air = NoSensor
                    /\ p # House /\ FloorsAt(items, p) # {} =>
                         Wide(items)[p].floor = CHOOSE f \in FloorsAt(items, p) : TRUE
                    /\ p \in DOMAIN areas /\ (p = House \/ FloorsAt(items, p) = {}
                                              \/ areas[p].floor = CHOOSE f \in FloorsAt(items, p) : TRUE)
                         => Wide(items)[p] = areas[p]
  OBVIOUS
<1> DEFINE old == IF p \in DOMAIN areas THEN areas[p] ELSE NewArea
           f == CHOOSE f \in FloorsAt(items, p) : TRUE
           w == Wide(items)[p]
<1>1. w = IF p = House \/ FloorsAt(items, p) = {} THEN old ELSE [old EXCEPT !.floor = f]
  BY WideFact
<1>2. IsArea(old) /\ (p \in DOMAIN areas => old = areas[p]) /\ (p \notin DOMAIN areas => old.air = NoSensor)
  BY DEF Registered, IsArea, NewArea
<1> HIDE DEF f, w, old
<1>3. CASE p = House \/ FloorsAt(items, p) = {}
  BY <1>1, <1>2, <1>3 DEF f, w
<1>4. CASE ~(p = House \/ FloorsAt(items, p) = {})
  <2>1. w = [floor |-> f, air |-> old.air, humidity |-> old.humidity]
    BY <1>1, <1>2, <1>4 DEF IsArea
  <2>2. IsArea(w) /\ w.floor = f /\ w.air = old.air /\ w.humidity = old.humidity
    BY <2>1 DEF IsArea
  <2>3. old.floor = f => w = old
    BY <1>2, <2>1 DEF IsArea
  <2> QED
    BY <1>2, <1>4, <2>2, <2>3 DEF f, w
<1> QED
  BY <1>3, <1>4

LEMMA AreasFact ==
  ASSUME Registered, NEW items, Poll(items)
  PROVE  /\ DOMAIN areas' = Kept(items) /\ areas' = [p \in DOMAIN areas' |-> areas'[p]]
         /\ \A p \in Kept(items) :
              /\ IsArea(areas'[p]) /\ areas'[p].floor = Wide(items)[p].floor
              /\ p \notin Zoned(items) => areas'[p] = Wide(items)[p]
              /\ p \in Zoned(items) =>
                   /\ areas'[p].air = PickSensor(Wide(items)[p].air, Single(items, items, "air", p))
                   /\ areas'[p].humidity
                        = PickSensor(Wide(items)[p].humidity, Single(items, items, "humidity", p))
<1> DEFINE kept == [p \in Kept(items) |-> Wide(items)[p]]
<1>1. areas' = WithSensors(kept, items)
  BY PollFact
<1>2. DOMAIN kept = Kept(items) /\ \A p \in Kept(items) : kept[p] = Wide(items)[p]
  OBVIOUS
<1> HIDE DEF kept
<1>3. areas' = [p \in Kept(items) |->
                  IF p \in Zoned(items)
                  THEN [kept[p] EXCEPT !.air      = PickSensor(@, Single(items, items, "air", p)),
                                       !.humidity = PickSensor(@, Single(items, items, "humidity", p))]
                  ELSE kept[p]]
  BY <1>1, <1>2 DEF WithSensors, Zoned
<1>4. ASSUME NEW p \in Kept(items)
      PROVE  /\ IsArea(areas'[p]) /\ areas'[p].floor = Wide(items)[p].floor
             /\ p \notin Zoned(items) => areas'[p] = Wide(items)[p]
             /\ p \in Zoned(items) =>
                  /\ areas'[p].air = PickSensor(Wide(items)[p].air, Single(items, items, "air", p))
                  /\ areas'[p].humidity
                       = PickSensor(Wide(items)[p].humidity, Single(items, items, "humidity", p))
  <2> DEFINE w == Wide(items)[p]
             x == PickSensor(w.air, Single(items, items, "air", p))
             y == PickSensor(w.humidity, Single(items, items, "humidity", p))
  <2>1. p \in DOMAIN Wide(items)
    BY DEF Kept
  <2>2. IsArea(w)
    BY <2>1, WideIsArea
  <2>3. CASE p \in Zoned(items)
    <3>1. areas'[p] = [w EXCEPT !.air = x, !.humidity = y]
      BY <1>2, <1>3, <2>3
    <3> HIDE DEF w, x, y
    <3>2. areas'[p] = [floor |-> w.floor, air |-> x, humidity |-> y]
      BY <2>2, <3>1 DEF IsArea
    <3>3. IsArea(areas'[p]) /\ areas'[p].floor = w.floor /\ areas'[p].air = x /\ areas'[p].humidity = y
      BY <3>2 DEF IsArea
    <3> QED
      BY <2>3, <3>3 DEF w, x, y
  <2>4. CASE p \notin Zoned(items)
    <3>1. areas'[p] = w
      BY <1>2, <1>3, <2>4
    <3> QED
      BY <2>2, <2>4, <3>1
  <2> QED
    BY <2>3, <2>4
<1> QED
  BY <1>3, <1>4
-----------------------------------------------------------------------------
(* The inductive invariant.                                                *)

\* What a poll leaves behind.
Furnished ==
  /\ latest \in Snapshots /\ House \in DOMAIN areas /\ PlacesOf(latest) \subseteq DOMAIN areas
  /\ \A p \in DOMAIN areas : p # House /\ FloorsAt(latest, p) # {} =>
       areas[p].floor = CHOOSE f \in FloorsAt(latest, p) : TRUE

Shown ==
  \A p \in Zoned(latest) :
    /\ areas[p].air = PickSensor(areas[p].air, Single(latest, latest, "air", p))
    /\ areas[p].humidity = PickSensor(areas[p].humidity, Single(latest, latest, "humidity", p))

InPlace ==
  \A i \in latest : Uid(i) \in DOMAIN ents => ents[Uid(i)].place = PlaceOf(latest, i)

KettleHidden ==
  \A i \in latest : i.kind = "kettle" /\ Uid(i) \in DOMAIN ents => ents[Uid(i)].hidden # "none"

AtHome ==
  \A n \in Reached(latest) :
    HomeOf(entities[n], latest) \in DOMAIN areas
      => ents[entities[n].uid].place = HomeOf(entities[n], latest)

Orderly == Furnished /\ Shown /\ InPlace /\ KettleHidden /\ AtHome

\* What two polls leave behind.
Tidy == Unused(DOMAIN areas, ents, latest) = {}

RegistryInv ==
  /\ RegistryTypeOK
  /\ Registered
  /\ calm > 0 => Orderly
  /\ calm = 2 => Tidy
  /\ OwnAirShown

\* Who is in which place after a poll.
LEMMA EntsFact ==
  ASSUME Registered, RegistryTypeOK, NEW items \in Snapshots, Poll(items)
  PROVE  /\ DOMAIN ents' = DOMAIN ents /\ ents' = [u \in DOMAIN ents |-> ents'[u]]
         /\ \A u \in DOMAIN ents :
              /\ IsEnt(ents'[u])
              /\ ents'[u].hidden \in {ents[u].hidden, "integration"}
              /\ ents'[u].place \in Kept(items) \cup {Nowhere}
              /\ \A i \in items : Uid(i) = u => ents'[u].place = PlaceOf(items, i)
              /\ (\E i \in items : i.kind = "kettle" /\ Uid(i) = u) => ents'[u].hidden # "none"
              /\ \A n \in Reached(items) :
                   entities[n].uid = u /\ HomeOf(entities[n], items) \in Kept(items)
                     => ents'[u].place = HomeOf(entities[n], items)
<1> DEFINE m == Moved(ents, items)
           h == WithKettleHidden(m, items)
           r == Reassigned(h, Kept(items), items, Reached(items))
<1>1. ents' = r
  BY PollFact
<1>2. /\ DOMAIN m = DOMAIN ents
      /\ \A u \in DOMAIN ents :
           /\ IsEnt(m[u]) /\ m[u].hidden = ents[u].hidden
           /\ \A i \in items : Uid(i) = u => m[u].place = PlaceOf(items, i)
           /\ (\A i \in items : Uid(i) # u) => m[u] = ents[u]
  BY MovedFact
<1>3. \A u \in DOMAIN ents : m[u].place \in DOMAIN Wide(items) => m[u].place \in Kept(items)
  BY KeptFact
<1> HIDE DEF m
<1>4. /\ DOMAIN h = DOMAIN ents
      /\ \A u \in DOMAIN ents :
           /\ IsEnt(h[u]) /\ h[u].place = m[u].place /\ h[u].hidden \in {m[u].hidden, "integration"}
           /\ (\E i \in items : i.kind = "kettle" /\ Uid(i) = u) => h[u].hidden # "none"
  BY <1>2, HiddenFact
<1> HIDE DEF h
<1>5. /\ DOMAIN r = DOMAIN ents
      /\ \A u \in DOMAIN ents :
           /\ IsEnt(r[u]) /\ r[u].hidden = h[u].hidden
           /\ \A n \in Reached(items) : entities[n].uid = u /\ HomeOf(entities[n], items) \in Kept(items) =>
                r[u].place = HomeOf(entities[n], items)
           /\ \/ r[u] = h[u]
              \/ \E n \in Reached(items) :
                   /\ entities[n].uid = u /\ HomeOf(entities[n], items) \in Kept(items)
                   /\ r[u] = [h[u] EXCEPT !.place = HomeOf(entities[n], items)]
  <2>1. Reached(items) \in SUBSET DOMAIN entities
    BY DEF Reached
  <2> QED
    BY <1>4, <2>1, ReassignedFact
<1>6. r = [u \in DOMAIN ents |-> r[u]]
  BY <1>4 DEF Reassigned
<1> HIDE DEF r
<1>7. ASSUME NEW u \in DOMAIN ents
      PROVE  /\ r[u].place \in Kept(items) \cup {Nowhere}
             /\ \A i \in items : Uid(i) = u => r[u].place = PlaceOf(items, i)
  <2>1. h[u].place \in Kept(items) \cup {Nowhere}
    <3>1. ents[u].place \in DOMAIN Wide(items) \cup {Nowhere}
      BY WideFact DEF RegistryTypeOK
    <3>2. m[u].place \in DOMAIN Wide(items) \cup {Nowhere}
      <4>1. CASE \E i \in items : Uid(i) = u
        <5>1. PICK i \in items : Uid(i) = u
          BY <4>1
        <5>2. m[u].place = PlaceOf(items, i)
          BY <1>2, <5>1
        <5>3. PlaceOf(items, i) \in PlacesOf(items)
          BY DEF PlacesOf
        <5>4. DOMAIN Wide(items) = DOMAIN areas \cup {House} \cup PlacesOf(items)
          BY WideFact
        <5> QED
          BY <5>2, <5>3, <5>4
      <4>2. CASE \A i \in items : Uid(i) # u
        <5>1. m[u] = ents[u]
          BY <1>2, <4>2
        <5> QED
          BY <3>1, <5>1
      <4> QED
        BY <4>1, <4>2
    <3> QED
      BY <1>3, <1>4, <3>2
  <2>2. CASE r[u] = h[u]
    BY <1>2, <1>4, <2>1, <2>2
  <2>3. CASE r[u] # h[u]
    <3>1. PICK n \in Reached(items) : entities[n].uid = u /\ HomeOf(entities[n], items) \in Kept(items)
      BY <1>5, <2>3
    <3>2. r[u].place = HomeOf(entities[n], items)
      BY <1>5, <3>1
    <3>3. \A i \in items : Uid(i) = u => HomeOf(entities[n], items) = PlaceOf(items, i)
      BY <3>1, HomeOfItem
    <3> QED
      BY <3>1, <3>2, <3>3
  <2> QED
    BY <2>2, <2>3
<1> QED
  BY <1>1, <1>2, <1>4, <1>5, <1>6, <1>7

\* A poll leaves the registries in order, whatever they were before.
LEMMA PollOrders ==
  ASSUME Registered, RegistryTypeOK, NEW items \in Snapshots, Poll(items)
  PROVE  Orderly'
<1>1. latest' = items /\ DOMAIN areas' = Kept(items) /\ DOMAIN ents' = DOMAIN ents
      /\ DOMAIN entities' = DOMAIN entities
  BY PollFact, AreasFact, EntsFact, EntitiesFact
<1>2. Furnished'
  <2>1. \A p \in Kept(items) : areas'[p].floor = Wide(items)[p].floor /\ p \in DOMAIN Wide(items)
    BY AreasFact, KeptFact
  <2>2. \A p \in Kept(items) : p # House /\ FloorsAt(items, p) # {} =>
          Wide(items)[p].floor = CHOOSE f \in FloorsAt(items, p) : TRUE
    BY <2>1, WideIsArea
  <2>3. /\ House \in Kept(items) /\ PlacesOf(items) \subseteq Kept(items)
    BY KeptFact
  <2>4. /\ House \in DOMAIN areas' /\ PlacesOf(latest') \subseteq DOMAIN areas' /\ latest' \in Snapshots
    BY <1>1, <2>3
  <2>5. \A p \in DOMAIN areas' : p # House /\ FloorsAt(latest', p) # {} =>
          areas'[p].floor = CHOOSE f \in FloorsAt(latest', p) : TRUE
    BY <1>1, <2>1, <2>2
  <2> QED
    BY <2>4, <2>5 DEF Furnished, PlacesOf
<1>3. Shown'
  <2>1. Zoned(items) \subseteq Kept(items)
    BY KeptFact DEF Zoned, PlacesOf
  <2>2. \A d : (\A n \in DOMAIN entities' : entities'[n].uid # d) <=> (\A n \in DOMAIN entities : entities[n].uid # d)
    BY EntitiesFact
  <2>3. SUFFICES ASSUME NEW p \in Zoned(items)
                 PROVE  /\ areas'[p].air = PickSensor(areas'[p].air, Single(items, items, "air", p))
                        /\ areas'[p].humidity = PickSensor(areas'[p].humidity, Single(items, items, "humidity", p))
    <3>1. Shown' <=> \A p \in Zoned(items) :
            /\ areas'[p].air = PickSensor(areas[p].air, Single(items, items, "air", p))'
            /\ areas'[p].humidity = PickSensor(areas[p].humidity, Single(items, items, "humidity", p))'
      BY <1>1 DEF Shown, Zoned, PickSensor
    <3>2. ASSUME NEW p \in Zoned(items), NEW found
          PROVE  /\ PickSensor(areas[p].air, found)' = PickSensor(areas'[p].air, found)
                 /\ PickSensor(areas[p].humidity, found)' = PickSensor(areas'[p].humidity, found)
      BY <2>2 DEF PickSensor
    <3> QED
      BY <3>1, <3>2
  <2>4. /\ areas'[p].air = PickSensor(Wide(items)[p].air, Single(items, items, "air", p))
        /\ areas'[p].humidity = PickSensor(Wide(items)[p].humidity, Single(items, items, "humidity", p))
    BY <2>1, AreasFact
  <2> QED
    BY <2>4, PickTwice
<1>4. InPlace'
  BY <1>1, EntsFact DEF InPlace, Uid
<1>5. KettleHidden'
  BY <1>1, EntsFact DEF KettleHidden, Uid
<1>6. AtHome'
  <2>1. \A n \in Reached(items) :
          HomeOf(entities[n], items) \in Kept(items)
            => ents'[entities[n].uid].place = HomeOf(entities[n], items)
    BY EntsFact DEF RegistryTypeOK, Reached
  <2>2. \A n \in Reached(items) : /\ entities'[n].uid = entities[n].uid
                                  /\ HomeOf(entities'[n], items) = HomeOf(entities[n], items)
    BY EntitiesFact DEF Reached
  <2>3. Reached(latest)' = Reached(items)
    <3>1. Reached(items)' = Reached(items)
      BY SameEntities
    <3> QED
      BY <1>1, <3>1 DEF Reached, Gone
  <2>4. SUFFICES ASSUME NEW n \in Reached(items), HomeOf(entities'[n], items) \in Kept(items)
                 PROVE  ents'[entities'[n].uid].place = HomeOf(entities'[n], items)
    BY <1>1, <2>3 DEF AtHome, HomeOf
  <2> QED
    BY <2>1, <2>2, <2>4
<1> QED
  BY <1>2, <1>3, <1>4, <1>5, <1>6 DEF Orderly

\* A poll that finds a house in order moves nothing, and takes away the areas
\* that are left over.
LEMMA PollKeepsOrder ==
  ASSUME Registered, RegistryTypeOK, Orderly, Poll(latest)
  PROVE  /\ ents' = ents
         /\ DOMAIN areas' = DOMAIN areas \ Unused(DOMAIN areas, ents, latest)
         /\ \A p \in DOMAIN areas' : areas'[p] = areas[p]
<1>1. latest \in Snapshots /\ House \in DOMAIN areas /\ PlacesOf(latest) \subseteq DOMAIN areas
  BY DEF Orderly, Furnished
<1>2. DOMAIN Wide(latest) = DOMAIN areas
  BY <1>1, WideFact
<1>3. Moved(ents, latest) = ents
  <2>1. \A u \in DOMAIN ents : Moved(ents, latest)[u] = ents[u]
    <3> SUFFICES ASSUME NEW u \in DOMAIN ents
                 PROVE  Moved(ents, latest)[u] = ents[u]
      OBVIOUS
    <3> DEFINE m == Moved(ents, latest)[u]
    <3>1. /\ IsEnt(m) /\ m.hidden = ents[u].hidden
          /\ \A i \in latest : Uid(i) = u => m.place = PlaceOf(latest, i)
          /\ (\A i \in latest : Uid(i) # u) => m = ents[u]
      BY <1>1, MovedFact
    <3>2. IsEnt(ents[u]) /\ \A i \in latest : Uid(i) = u => ents[u].place = PlaceOf(latest, i)
      BY DEF Registered, Orderly, InPlace
    <3> HIDE DEF m
    <3>3. CASE \E i \in latest : Uid(i) = u
      <4>1. m.place = ents[u].place
        BY <3>1, <3>2, <3>3
      <4> QED
        BY <3>1, <3>2, <4>1 DEF IsEnt, m
    <3> QED
      BY <3>1, <3>3 DEF m
  <2>2. Moved(ents, latest) = [u \in DOMAIN ents |-> Moved(ents, latest)[u]]
    BY DEF Moved
  <2> QED
    BY <2>1, <2>2 DEF Registered
<1>4. WithKettleHidden(ents, latest) = ents
  <2>1. \A u \in DOMAIN ents : IsEnt(ents[u])
    BY DEF Registered
  <2>2. \A u \in DOMAIN ents : WithKettleHidden(ents, latest)[u] = ents[u]
    BY <2>1, HiddenFact DEF Orderly, KettleHidden
  <2>3. WithKettleHidden(ents, latest) = [u \in DOMAIN ents |-> WithKettleHidden(ents, latest)[u]]
    BY DEF WithKettleHidden
  <2> QED
    BY <2>2, <2>3 DEF Registered
<1>5. Kept(latest) = DOMAIN areas \ Unused(DOMAIN areas, ents, latest)
  BY <1>2, <1>3 DEF Kept
<1>6. ents' = ents
  <2> DEFINE r == Reassigned(ents, Kept(latest), latest, Reached(latest))
  <2>1. ents' = r
    BY <1>3, <1>4, PollFact
  <2>2. \A u \in DOMAIN ents : IsEnt(ents[u])
    BY DEF Registered
  <2>3. ASSUME NEW u \in DOMAIN ents
        PROVE  r[u] = ents[u]
    <3>1. \/ r[u] = ents[u]
          \/ \E n \in Reached(latest) :
               /\ entities[n].uid = u /\ HomeOf(entities[n], latest) \in Kept(latest)
               /\ r[u] = [ents[u] EXCEPT !.place = HomeOf(entities[n], latest)]
      <4>1. Reached(latest) \in SUBSET DOMAIN entities
        BY DEF Reached
      <4> QED
        BY <2>2, <4>1, ReassignedFact
    <3>2. \A n \in Reached(latest) : entities[n].uid = u /\ HomeOf(entities[n], latest) \in Kept(latest)
            => ents[u].place = HomeOf(entities[n], latest)
      BY <1>5 DEF Orderly, AtHome
    <3> HIDE DEF r
    <3>3. IsEnt(ents[u])
      BY <2>2
    <3> QED
      BY <3>1, <3>2, <3>3 DEF IsEnt
  <2>4. r = [u \in DOMAIN ents |-> r[u]]
    BY DEF Reassigned
  <2> QED
    BY <2>1, <2>3, <2>4 DEF Registered
<1>7. DOMAIN areas' = Kept(latest)
  BY AreasFact
<1>8. ASSUME NEW p \in Kept(latest)
      PROVE  areas'[p] = areas[p]
  <2>1. p \in DOMAIN areas
    BY <1>5
  <2>2. p # House /\ FloorsAt(latest, p) # {} =>
          areas[p].floor = CHOOSE f \in FloorsAt(latest, p) : TRUE
    BY <2>1 DEF Orderly, Furnished
  <2>3. Wide(latest)[p] = areas[p]
    BY <1>2, <2>1, <2>2, WideIsArea
  <2>4. CASE p \notin Zoned(latest)
    BY <2>3, <2>4, AreasFact
  <2>5. CASE p \in Zoned(latest)
    <3>1. /\ areas'[p].air = areas[p].air /\ areas'[p].humidity = areas[p].humidity
          /\ areas'[p].floor = areas[p].floor /\ IsArea(areas'[p])
      BY <2>3, <2>5, AreasFact DEF Orderly, Shown
    <3>2. IsArea(areas[p])
      BY <2>1 DEF Registered
    <3> QED
      BY <3>1, <3>2 DEF IsArea
  <2> QED
    BY <2>4, <2>5
<1> QED
  BY <1>5, <1>6, <1>7, <1>8

\* After it there is nothing left over.
LEMMA PollTidies ==
  ASSUME Registered, RegistryTypeOK, Orderly, Poll(latest)
  PROVE  Tidy'
<1>1. ents' = ents /\ latest' = latest
      /\ DOMAIN areas' = DOMAIN areas \ Unused(DOMAIN areas, ents, latest)
  BY PollKeepsOrder, PollFact
<1>2. LeftoverSplit(DOMAIN areas', latest) \subseteq LeftoverSplit(DOMAIN areas, latest) \cap DOMAIN areas'
  BY <1>1 DEF LeftoverSplit
<1>3. Unused(DOMAIN areas', ents', latest') \subseteq Unused(DOMAIN areas, ents, latest) \cap DOMAIN areas'
  BY <1>1, <1>2 DEF Unused
<1>4. Unused(DOMAIN areas', ents', latest') = {}
  BY <1>1, <1>3
<1> QED
  BY <1>1, <1>4 DEF Tidy, Unused, LeftoverSplit, FloorsByArea

\* And the next one changes nothing.
LEMMA PollRests ==
  ASSUME Registered, RegistryTypeOK, Orderly, Tidy, Poll(latest)
  PROVE  UNCHANGED registry
<1>1. /\ ents' = ents /\ DOMAIN areas' = DOMAIN areas
      /\ \A p \in DOMAIN areas' : areas'[p] = areas[p]
  BY PollKeepsOrder DEF Tidy
<1>2. areas' = [p \in DOMAIN areas' |-> areas'[p]]
  BY AreasFact
<1> QED
  BY <1>1, <1>2 DEF registry, Registered

\* The areas with a zone show the air that a poll found in them.
LEMMA PollShows ==
  ASSUME Registered, RegistryTypeOK, NEW items \in Snapshots, Poll(items)
  PROVE  OwnAirShown'
<1>1. latest' = items /\ {entities'[n].uid : n \in DOMAIN entities'} = {entities[n].uid : n \in DOMAIN entities}
  <2>1. \A n \in DOMAIN entities : entities'[n].uid = entities[n].uid
    BY EntitiesFact
  <2>2. DOMAIN entities' = DOMAIN entities
    BY EntitiesFact
  <2>3. latest' = items
    BY PollFact
  <2> QED
    BY <2>1, <2>2, <2>3
<1>2. SUFFICES ASSUME NEW z \in items, z.kind = "zone",
                      NEW found, found = Single(items, items, "air", PlaceOf(items, z)),
                      NEW own, own = {Uid(s) : s \in found},
                      own \subseteq {entities[n].uid : n \in DOMAIN entities}
               PROVE  areas'[PlaceOf(items, z)].air \in {Foreign} \cup IF own = {} THEN {NoSensor} ELSE own
  BY <1>1 DEF OwnAirShown, Uid
<1> DEFINE p == PlaceOf(items, z)
           w == Wide(items)[p].air
<1>3. areas'[p].air = PickSensor(w, found)
  <2>1. p \in Zoned(items) /\ p \in PlacesOf(items)
    BY <1>2 DEF Zoned, PlacesOf
  <2>2. p \in Kept(items)
    BY <2>1, KeptFact
  <2> QED
    BY <1>2, <2>1, <2>2, AreasFact
<1> HIDE DEF w, p
<1>4. PickSensor(w, found) \in {Foreign} \cup IF own = {} THEN {NoSensor} ELSE own
  <2>1. CASE found = {}
    <3>1. TakeSensor(found) = NoSensor /\ own = {}
      BY <1>2, <2>1 DEF TakeSensor
    <3> QED
      BY <3>1 DEF PickSensor
  <2>2. CASE found # {}
    <3>1. TakeSensor(found) \in own
      <4>1. (CHOOSE s \in found : TRUE) \in found
        BY <2>2
      <4> QED
        BY <1>2, <2>2, <4>1 DEF TakeSensor
    <3>2. \E n \in DOMAIN entities : entities[n].uid = TakeSensor(found)
      BY <1>2, <3>1
    <3> QED
      BY <3>1, <3>2 DEF PickSensor
  <2> QED
    BY <2>1, <2>2
<1> QED
  BY <1>3, <1>4 DEF p

-----------------------------------------------------------------------------
(* The entities that the platforms make.                                   *)

\* A sequence without an element twice.
Once(q) == \A n, m \in 1..Len(q) : q[n] = q[m] => n = m

\* SetToSeq of a finite set has every element once.
LEMMA InOrderFact ==
  ASSUME NEW S, IsFiniteSet(S)
  PROVE  SetToSeq(S) \in Seq(S) /\ Once(SetToSeq(S))
<1>1. PICK n \in Nat : ExistsBijection(1..n, S)
  BY FS_NatBijection
<1>2. Cardinality(S) = n
  BY <1>1, FS_CountingElements
<1>3. \E f \in [1..n -> S] : IsInjective(f)
  <2>1. PICK f : f \in Bijection(1..n, S)
    BY <1>1 DEF ExistsBijection
  <2> QED
    BY <2>1 DEF Bijection, Injection, IsInjective
<1>4. SetToSeq(S) \in [1..n -> S] /\ IsInjective(SetToSeq(S))
  BY <1>2, <1>3 DEF SetToSeq
<1>5. SetToSeq(S) \in Seq(S) /\ Len(SetToSeq(S)) = n
  BY <1>4
<1> QED
  BY <1>4, <1>5 DEF IsInjective, Once

LEMMA JoinOnce ==
  ASSUME NEW A, NEW B, NEW q \in Seq(A), NEW r \in Seq(B), A \cap B = {}, Once(q), Once(r)
  PROVE  q \o r \in Seq(A \cup B) /\ Once(q \o r)
<1>1. /\ q \o r \in Seq(A \cup B) /\ Len(q \o r) = Len(q) + Len(r)
      /\ \A n \in 1..Len(q \o r) : (q \o r)[n] = IF n <= Len(q) THEN q[n] ELSE r[n - Len(q)]
  OBVIOUS
<1>2. /\ Len(q) \in Nat /\ Len(r) \in Nat
      /\ \A n \in 1..Len(q) : q[n] \in A
      /\ \A n \in 1..Len(r) : r[n] \in B
  OBVIOUS
<1>3. SUFFICES ASSUME NEW n \in 1..Len(q \o r), NEW m \in 1..Len(q \o r), (q \o r)[n] = (q \o r)[m]
               PROVE  n = m
  BY <1>1 DEF Once
<1>4. CASE n <= Len(q) /\ m <= Len(q)
  BY <1>1, <1>2, <1>3, <1>4 DEF Once
<1>5. CASE n > Len(q) /\ m > Len(q)
  <2>1. n - Len(q) \in 1..Len(r) /\ m - Len(q) \in 1..Len(r) /\ r[n - Len(q)] = r[m - Len(q)]
    BY <1>1, <1>2, <1>3, <1>5
  <2>2. n - Len(q) = m - Len(q)
    BY <2>1 DEF Once
  <2> QED
    BY <1>2, <2>2
<1>6. CASE n <= Len(q) /\ m > Len(q)
  BY <1>1, <1>2, <1>3, <1>6
<1>7. CASE n > Len(q) /\ m <= Len(q)
  BY <1>1, <1>2, <1>3, <1>7
<1> QED
  BY <1>1, <1>2, <1>4, <1>5, <1>6, <1>7

\* The definition of FlattenSeq says of a function that it exists.
Flat(s, f) == f = [i \in 1..Len(s) |-> IF i = 1 THEN s[i] ELSE f[i - 1] \o s[i]]

LEMMA FlattenFact ==
  ASSUME NEW s, Len(s) = 7
  PROVE  \E f : Flat(s, f) /\ FlattenSeq(s) = f[7]
<1> DEFINE a1 == s[1]
           a2 == a1 \o s[2]
           a3 == a2 \o s[3]
           a4 == a3 \o s[4]
           a5 == a4 \o s[5]
           a6 == a5 \o s[6]
           a7 == a6 \o s[7]
           g == [i \in 1..7 |-> IF i = 1 THEN a1 ELSE IF i = 2 THEN a2 ELSE IF i = 3 THEN a3
                                ELSE IF i = 4 THEN a4 ELSE IF i = 5 THEN a5 ELSE IF i = 6 THEN a6 ELSE a7]
<1>1. /\ a1 = s[1] /\ a2 = a1 \o s[2] /\ a3 = a2 \o s[3] /\ a4 = a3 \o s[4]
      /\ a5 = a4 \o s[5] /\ a6 = a5 \o s[6] /\ a7 = a6 \o s[7]
  OBVIOUS
<1> HIDE DEF a1, a2, a3, a4, a5, a6, a7
<1>2. /\ g[1] = a1 /\ g[2] = a2 /\ g[3] = a3 /\ g[4] = a4 /\ g[5] = a5 /\ g[6] = a6 /\ g[7] = a7
      /\ g = [i \in 1..7 |-> g[i]]
  OBVIOUS
<1> HIDE DEF g
<1>3. \A i \in 1..7 : g[i] = IF i = 1 THEN s[i] ELSE g[i - 1] \o s[i]
  <2>1. \A i \in 1..7 : i = 1 \/ i = 2 \/ i = 3 \/ i = 4 \/ i = 5 \/ i = 6 \/ i = 7
    OBVIOUS
  <2>2. 2 - 1 = 1 /\ 3 - 1 = 2 /\ 4 - 1 = 3 /\ 5 - 1 = 4 /\ 6 - 1 = 5 /\ 7 - 1 = 6
    OBVIOUS
  <2> QED
    BY <1>1, <1>2, <2>1, <2>2, ZenonT(30)
<1>4. Flat(s, g)
  BY <1>2, <1>3 DEF Flat
<1>5. FlattenSeq(s) = (CHOOSE f : Flat(s, f))[7]
  BY DEF FlattenSeq, Flat
<1>6. Flat(s, CHOOSE f : Flat(s, f))
  BY <1>4
<1> QED
  BY <1>5, <1>6

Made(i, uid, kind) == [uid |-> uid, kind |-> kind, home |-> PlaceOf(latest, i)]
AllMade ==
  {Made(i, Uid(i), i.kind) : i \in latest}
  \cup {Made(i, Relay(i), "relay") : i \in {i \in latest : i.kind = "zone"}}
  \cup {[uid |-> AutoHeat, kind |-> "auto", home |-> House]}

LEMMA AllMadeFact ==
  ASSUME latest \in Snapshots
  PROVE  /\ IsFiniteSet(AllMade)
         /\ \A e \in AllMade : IsEntity(e)
         /\ \A e, d \in AllMade : e.uid = d.uid => e = d
<1>1. /\ IsFiniteSet(latest)
      /\ \A i \in latest : i.kind \in {"light", "zone", "air", "humidity", "kettle"}
      /\ \A i, j \in latest : Uid(i) = Uid(j) => i = j
  BY RegistryOK
<1> DEFINE A == {Made(i, Uid(i), i.kind) : i \in latest}
           Z == {i \in latest : i.kind = "zone"}
           B == {Made(i, Relay(i), "relay") : i \in Z}
           C == {[uid |-> AutoHeat, kind |-> "auto", home |-> House]}
<1>2. IsFiniteSet(A)
  <2> DEFINE f == [i \in latest |-> Made(i, Uid(i), i.kind)]
  <2>1. f \in Surjection(latest, A)
    BY DEF Surjection
  <2> QED
    BY <1>1, <2>1, FS_Surjection
<1>3. IsFiniteSet(B)
  <2> DEFINE f == [i \in Z |-> Made(i, Relay(i), "relay")]
  <2>1. f \in Surjection(Z, B)
    BY DEF Surjection
  <2>2. IsFiniteSet(Z)
    BY <1>1, FS_Subset
  <2> QED
    BY <2>1, <2>2, FS_Surjection
<1>4. IsFiniteSet(C)
  BY FS_Singleton
<1>5. AllMade = (A \cup B) \cup C
  BY DEF AllMade
<1>6. IsFiniteSet(AllMade)
  <2>1. IsFiniteSet(A \cup B)
    BY <1>2, <1>3, FS_Union
  <2> QED
    BY <1>4, <1>5, <2>1, FS_Union
<1>7. \A e \in AllMade : IsEntity(e)
  BY DEF AllMade, Made, IsEntity
<1>8. ASSUME NEW e \in AllMade, NEW d \in AllMade, e.uid = d.uid
      PROVE  e = d
  <2>1. /\ e \in A => e.uid[1] \in {"light", "zone", "air", "humidity", "kettle"}
        /\ e \in B => e.uid[1] = "relay"
        /\ e \in C => e.uid[1] = "auto"
        /\ d \in A => d.uid[1] \in {"light", "zone", "air", "humidity", "kettle"}
        /\ d \in B => d.uid[1] = "relay"
        /\ d \in C => d.uid[1] = "auto"
    BY <1>1 DEF Made, Uid, Relay, AutoHeat
  <2>2. CASE e \in A /\ d \in A
    <3>1. PICK i \in latest : e = Made(i, Uid(i), i.kind)
      BY <2>2
    <3>2. PICK j \in latest : d = Made(j, Uid(j), j.kind)
      BY <2>2
    <3>3. Uid(i) = Uid(j)
      BY <1>8, <3>1, <3>2 DEF Made
    <3> QED
      BY <1>1, <3>1, <3>2, <3>3
  <2>3. CASE e \in B /\ d \in B
    <3>1. PICK i \in Z : e = Made(i, Relay(i), "relay")
      BY <2>3
    <3>2. PICK j \in Z : d = Made(j, Relay(j), "relay")
      BY <2>3
    <3>3. Relay(i) = Relay(j)
      BY <1>8, <3>1, <3>2 DEF Made
    <3>4. Uid(i) = Uid(j)
      BY <3>3 DEF Relay, Uid
    <3> QED
      BY <1>1, <3>1, <3>2, <3>4
  <2>4. CASE e \in C /\ d \in C
    BY <2>4
  <2>5. (e \in A \/ e \in B \/ e \in C) /\ (d \in A \/ d \in B \/ d \in C)
    BY <1>5
  <2> QED
    BY <1>8, <2>1, <2>2, <2>3, <2>4, <2>5
<1> QED
  BY <1>6, <1>7, <1>8

\* The platforms make every entity once (light.py, climate.py, sensor.py,
\* switch.py, water_heater.py: one per thing of the snapshot).
LEMMA NewEntitiesFact ==
  ASSUME latest \in Snapshots
  PROVE  /\ NewEntities \in Seq(AllMade)
         /\ \A n, m \in DOMAIN NewEntities : NewEntities[n].uid = NewEntities[m].uid => n = m
<1> DEFINE K(n) == {e \in AllMade : e.kind = Kinds[n]}
           U(n) == {e \in AllMade : \E j \in 1..n : e.kind = Kinds[j]}
           s == [n \in DOMAIN Kinds |-> SetToSeq(K(n))]
<1>1. DOMAIN Kinds = 1..7 /\ \A n, m \in 1..7 : Kinds[n] = Kinds[m] => n = m
  <2>1. DOMAIN Kinds = 1..7
    BY DEF Kinds
  <2>2. /\ Kinds[1] = "light" /\ Kinds[2] = "zone" /\ Kinds[3] = "air" /\ Kinds[4] = "humidity"
        /\ Kinds[5] = "relay" /\ Kinds[6] = "auto" /\ Kinds[7] = "kettle"
    BY DEF Kinds
  <2>3. \A n \in 1..7 : n = 1 \/ n = 2 \/ n = 3 \/ n = 4 \/ n = 5 \/ n = 6 \/ n = 7
    OBVIOUS
  <2> QED
    BY <2>1, <2>2, <2>3
<1>2. NewEntities = FlattenSeq(s)
  BY DEF NewEntities, AllMade, Made
<1>3. Len(s) = 7 /\ \A n \in 1..7 : s[n] = SetToSeq(K(n))
  BY <1>1
<1>4. \A n \in 1..7 : s[n] \in Seq(K(n)) /\ Once(s[n])
  <2> SUFFICES ASSUME NEW n \in 1..7
               PROVE  s[n] \in Seq(K(n)) /\ Once(s[n])
    OBVIOUS
  <2>1. IsFiniteSet(K(n))
    BY AllMadeFact, FS_Subset
  <2> QED
    BY <1>3, <2>1, InOrderFact
<1> HIDE DEF s
<1>5. PICK f : Flat(s, f) /\ NewEntities = f[7]
  BY <1>2, <1>3, FlattenFact
<1>6. \A n \in 1..7 : f[n] = IF n = 1 THEN s[n] ELSE f[n - 1] \o s[n]
  BY <1>3, <1>5 DEF Flat
<1>7. f[1] \in Seq(U(1)) /\ Once(f[1])
  <2>1. f[1] = s[1]
    BY <1>6
  <2>2. U(1) = K(1)
    OBVIOUS
  <2> QED
    BY <1>4, <2>1, <2>2
<1>8. ASSUME NEW n \in 1..6, f[n] \in Seq(U(n)), Once(f[n])
      PROVE  f[n + 1] \in Seq(U(n + 1)) /\ Once(f[n + 1])
  <2>1. n + 1 \in 1..7 /\ (n + 1) - 1 = n /\ n + 1 # 1
    OBVIOUS
  <2>2. f[n + 1] = f[n] \o s[n + 1]
    BY <1>6, <2>1
  <2>3. U(n + 1) = U(n) \cup K(n + 1)
    <3>1. 1..(n + 1) = 1..n \cup {n + 1}
      OBVIOUS
    <3> QED
      BY <3>1
  <2>4. U(n) \cap K(n + 1) = {}
    <3>1. \A j \in 1..n : j \in 1..7 /\ j # n + 1
      OBVIOUS
    <3> QED
      BY <1>1, <2>1, <3>1
  <2>5. s[n + 1] \in Seq(K(n + 1)) /\ Once(s[n + 1])
    BY <1>4, <2>1
  <2> DEFINE A == U(n)
             B == K(n + 1)
             q == f[n]
             r == s[n + 1]
  <2>6. q \in Seq(A) /\ r \in Seq(B) /\ A \cap B = {} /\ Once(q) /\ Once(r)
    BY <1>8, <2>4, <2>5
  <2>7. f[n + 1] = q \o r /\ U(n + 1) = A \cup B
    BY <2>2, <2>3
  <2> HIDE DEF A, B, q, r
  <2>8. q \o r \in Seq(A \cup B) /\ Once(q \o r)
    BY <2>6, JoinOnce
  <2> HIDE DEF U
  <2> QED
    BY <2>7, <2>8
<1>9. f[7] \in Seq(U(7)) /\ Once(f[7])
  <2> DEFINE P(n) == f[n] \in Seq(U(n)) /\ Once(f[n])
  <2>1. P(1)
    BY <1>7
  <2>2. \A n \in 1..6 : P(n) => P(n + 1)
    BY <1>8
  <2> HIDE DEF P
  <2>3. P(2)
    BY <2>1, <2>2
  <2>4. P(3)
    BY <2>2, <2>3
  <2>5. P(4)
    BY <2>2, <2>4
  <2>6. P(5)
    BY <2>2, <2>5
  <2>7. P(6)
    BY <2>2, <2>6
  <2>8. P(7)
    BY <2>2, <2>7
  <2> QED
    BY <2>8 DEF P
<1>10. NewEntities \in Seq(AllMade) /\ Once(NewEntities)
  <2>1. U(7) \subseteq AllMade
    OBVIOUS
  <2> HIDE DEF U
  <2> QED
    BY <1>5, <1>9, <2>1
<1>11. ASSUME NEW n \in DOMAIN NewEntities, NEW m \in DOMAIN NewEntities,
              NewEntities[n].uid = NewEntities[m].uid
       PROVE  n = m
  <2>1. NewEntities[n] \in AllMade /\ NewEntities[m] \in AllMade
    BY <1>10
  <2>2. NewEntities[n] = NewEntities[m]
    BY <1>11, <2>1, AllMadeFact
  <2> QED
    BY <1>10, <2>2 DEF Once
<1> QED
  BY <1>10, <1>11

-----------------------------------------------------------------------------
(* The invariant, action by action.                                        *)

LEMMA CalmFact ==
  ASSUME calm \in 0..2
  PROVE  Min({calm + 1, 2}) = IF calm = 0 THEN 1 ELSE 2
<1> DEFINE least == IF calm = 0 THEN 1 ELSE 2
<1>1. least \in {calm + 1, 2} /\ \A y \in {calm + 1, 2} : least <= y
  OBVIOUS
<1>2. \A x \in {calm + 1, 2} : (\A y \in {calm + 1, 2} : x <= y) => x = least
  OBVIOUS
<1> HIDE DEF least
<1>3. Min({calm + 1, 2}) = least
  BY <1>1, <1>2 DEF Min
<1> QED
  BY <1>3 DEF least

LEMMA CalmAfterPoll ==
  ASSUME RegistryTypeOK, NEW items, Poll(items)
  PROVE  latest' = items /\ calm' = IF items = latest THEN (IF calm = 0 THEN 1 ELSE 2) ELSE 1
<1>1. calm \in 0..2
  BY DEF RegistryTypeOK
<1>2. latest' = items /\ calm' = IF items = latest THEN Min({calm + 1, 2}) ELSE 1
  BY PollFact
<1> QED
  BY <1>1, <1>2, CalmFact

LEMMA PollInv ==
  ASSUME RegistryInv, NEW items \in Snapshots, Poll(items)
  PROVE  RegistryInv'
<1>1. Registered /\ RegistryTypeOK
  BY DEF RegistryInv
<1>2. Registered'
  <2>1. areas' = [p \in DOMAIN areas' |-> areas'[p]] /\ \A p \in DOMAIN areas' : IsArea(areas'[p])
    BY <1>1, AreasFact
  <2>2. ents' = [u \in DOMAIN ents' |-> ents'[u]] /\ \A u \in DOMAIN ents' : IsEnt(ents'[u])
    BY <1>1, EntsFact
  <2>3. /\ DOMAIN entities' = DOMAIN entities /\ entities' = [n \in DOMAIN entities' |-> entities'[n]]
        /\ \A n \in DOMAIN entities' : IsEntity(entities'[n]) /\ entities'[n].uid = entities[n].uid
    BY <1>1, EntitiesFact
  <2>4. /\ \A n, m \in DOMAIN entities' : entities'[n].uid = entities'[m].uid => n = m
        /\ \E k \in Nat : DOMAIN entities' = 1..k
    BY <1>1, <2>3 DEF Registered
  <2> QED
    BY <2>1, <2>2, <2>3, <2>4 DEF Registered, IsArea, IsEnt, IsEntity
<1>3. RegistryTypeOK'
  <2>1. DOMAIN ents' = DOMAIN ents /\ DOMAIN areas' = Kept(items)
    BY <1>1, EntsFact, AreasFact
  <2>2. ASSUME NEW p \in DOMAIN areas'
        PROVE  areas'[p].air \in {NoSensor, Foreign} \/ areas'[p].air \in DOMAIN ents'
    <3>1. p \in Kept(items) /\ p \in DOMAIN Wide(items)
      BY <2>1, <2>2, KeptFact
    <3>2. Wide(items)[p].air \in {NoSensor, Foreign} \cup DOMAIN ents
      BY <1>1, <3>1, WideIsArea DEF RegistryTypeOK
    <3>3. CASE p \notin Zoned(items)
      <4>1. areas'[p] = Wide(items)[p]
        BY <1>1, <3>1, <3>3, AreasFact
      <4> QED
        BY <2>1, <3>2, <4>1
    <3>4. CASE p \in Zoned(items)
      <4>1. areas'[p].air = PickSensor(Wide(items)[p].air, Single(items, items, "air", p))
        BY <1>1, <3>1, <3>4, AreasFact
      <4> QED
        BY <1>1, <2>1, <3>2, <4>1, PickKnown
    <3> QED
      BY <3>3, <3>4
  <2>3. \A u \in DOMAIN ents' : /\ ents'[u].place \in DOMAIN areas' \cup {Nowhere}
                                /\ ents'[u].hidden \in {"none", "user", "integration"}
    BY <1>1, <2>1, EntsFact DEF RegistryTypeOK
  <2>4. \A n \in DOMAIN entities' : entities'[n].uid \in DOMAIN ents'
    BY <1>1, <2>1, EntitiesFact DEF RegistryTypeOK
  <2>5. latest' \in Snapshots \cup {{}} /\ calm' \in 0..2
    BY <1>1, CalmAfterPoll
  <2> QED
    BY <2>2, <2>3, <2>4, <2>5 DEF RegistryTypeOK
<1>4. Orderly'
  BY <1>1, PollOrders
<1>5. calm' = 2 => Tidy'
  <2> SUFFICES ASSUME calm' = 2
               PROVE  Tidy'
    OBVIOUS
  <2>1. items = latest /\ calm > 0
    <3>1. calm \in 0..2
      BY <1>1 DEF RegistryTypeOK
    <3> QED
      BY <1>1, <3>1, CalmAfterPoll
  <2>2. Orderly
    BY <2>1 DEF RegistryInv
  <2> QED
    BY <1>1, <2>1, <2>2, PollTidies
<1>6. OwnAirShown'
  BY <1>1, PollShows
<1> QED
  BY <1>2, <1>3, <1>4, <1>5, <1>6 DEF RegistryInv

\* Whatever else happens, the next poll starts anew.
LEMMA DisturbedInv ==
  ASSUME Registered', RegistryTypeOK', calm' = 0
  PROVE  RegistryInv'
BY DEF RegistryInv, OwnAirShown

LEMMA LoadInv ==
  ASSUME RegistryInv, Load
  PROVE  RegistryInv'
<1>1. Registered /\ RegistryTypeOK /\ latest \in Snapshots /\ calm' = 0 /\ latest' = latest /\ areas' = areas
  BY DEF RegistryInv, RegistryTypeOK, Load
<1> DEFINE new == NewEntities
           mine(u) == {n \in DOMAIN new : new[n].uid = u}
           made(u) == new[CHOOSE n \in mine(u) : TRUE]
           old(u) == IF u \in DOMAIN ents THEN ents[u]
                     ELSE [place |-> Nowhere, hidden |-> IF made(u).kind = "kettle" THEN "integration" ELSE "none"]
<1>2. /\ new \in Seq(AllMade)
      /\ \A n, m \in DOMAIN new : new[n].uid = new[m].uid => n = m
  BY <1>1, NewEntitiesFact
<1>3. /\ entities' = new
      /\ ents' = [u \in DOMAIN ents \cup {new[n].uid : n \in DOMAIN new} |->
                    IF mine(u) = {} \/ made(u).home \notin DOMAIN areas THEN old(u)
                    ELSE [old(u) EXCEPT !.place = made(u).home]]
  BY DEF Load
<1> HIDE DEF new
<1>4. DOMAIN ents' = DOMAIN ents \cup {new[n].uid : n \in DOMAIN new}
  BY <1>3
<1>5. ASSUME NEW u \in DOMAIN ents'
      PROVE  /\ IsEnt(ents'[u]) /\ ents'[u].place \in DOMAIN areas \cup {Nowhere}
             /\ ents'[u].hidden \in {"none", "user", "integration"}
  <2>1. /\ IsEnt(old(u)) /\ old(u).place \in DOMAIN areas \cup {Nowhere}
        /\ old(u).hidden \in {"none", "user", "integration"}
    <3>1. CASE u \in DOMAIN ents
      BY <1>1, <3>1 DEF Registered, RegistryTypeOK
    <3>2. CASE u \notin DOMAIN ents
      <4>1. PICK h \in {"none", "integration"} : old(u) = [place |-> Nowhere, hidden |-> h]
        BY <3>2
      <4> QED
        BY <4>1 DEF IsEnt
    <3> QED
      BY <3>1, <3>2
  <2> DEFINE o == old(u)
             h == made(u).home
             e == ents'[u]
  <2>2. e = o \/ (h \in DOMAIN areas /\ e = [o EXCEPT !.place = h])
    BY <1>3, <1>4, <1>5
  <2> HIDE DEF o, h, e
  <2>3. IsEnt(o) /\ o.place \in DOMAIN areas \cup {Nowhere} /\ o.hidden \in {"none", "user", "integration"}
    BY <2>1 DEF o
  <2>4. CASE e = o
    BY <2>3, <2>4 DEF e
  <2>5. CASE h \in DOMAIN areas /\ e = [o EXCEPT !.place = h]
    <3>1. e = [place |-> h, hidden |-> o.hidden]
      BY <2>3, <2>5 DEF IsEnt
    <3>2. IsEnt(e) /\ e.place = h /\ e.hidden = o.hidden
      BY <3>1 DEF IsEnt
    <3> QED
      BY <2>3, <2>5, <3>2 DEF e
  <2> QED
    BY <2>2, <2>4, <2>5
<1>6. Registered'
  <2>1. areas' = [p \in DOMAIN areas' |-> areas'[p]] /\ \A p \in DOMAIN areas' : IsArea(areas'[p])
    BY <1>1 DEF Registered
  <2>2. ents' = [u \in DOMAIN ents' |-> ents'[u]]
    BY <1>3
  <2>3. /\ DOMAIN new = 1..Len(new) /\ Len(new) \in Nat
        /\ new = [n \in DOMAIN new |-> new[n]] /\ \A n \in DOMAIN new : IsEntity(new[n])
    BY <1>1, <1>2, AllMadeFact
  <2>4. /\ entities' = [n \in DOMAIN entities' |-> entities'[n]] /\ \E k \in Nat : DOMAIN entities' = 1..k
        /\ \A n \in DOMAIN entities' : IsEntity(entities'[n])
        /\ \A n, m \in DOMAIN entities' : entities'[n].uid = entities'[m].uid => n = m
    BY <1>2, <1>3, <2>3
  <2> QED
    BY <1>5, <2>1, <2>2, <2>4 DEF Registered, IsArea, IsEnt, IsEntity
<1>7. RegistryTypeOK'
  <2>1. \A p \in DOMAIN areas' : areas'[p].air \in {NoSensor, Foreign} \/ areas'[p].air \in DOMAIN ents'
    BY <1>1, <1>4 DEF RegistryTypeOK
  <2>2. \A n \in DOMAIN entities' : entities'[n].uid \in DOMAIN ents'
    BY <1>3, <1>4
  <2> QED
    BY <1>1, <1>5, <2>1, <2>2 DEF RegistryTypeOK
<1> QED
  BY <1>1, <1>6, <1>7, DisturbedInv

\* What a change of one record of the entity registry keeps.
LEMMA PlacedFact ==
  ASSUME NEW e, IsEnt(e), NEW p
  PROVE  /\ IsEnt([e EXCEPT !.place = p])
         /\ [e EXCEPT !.place = p].place = p /\ [e EXCEPT !.place = p].hidden = e.hidden
<1>1. [e EXCEPT !.place = p] = [place |-> p, hidden |-> e.hidden]
  BY DEF IsEnt
<1> QED
  BY <1>1 DEF IsEnt

LEMMA PeopleInv ==
  ASSUME RegistryInv, Act,
         /\ areas' = [p \in DOMAIN areas' |-> areas'[p]] /\ \A p \in DOMAIN areas' : IsArea(areas'[p])
         /\ \A p \in DOMAIN areas' : areas'[p].air \in {NoSensor, Foreign} \cup DOMAIN ents
         /\ DOMAIN ents' = DOMAIN ents /\ ents' = [u \in DOMAIN ents |-> ents'[u]]
         /\ \A u \in DOMAIN ents : /\ IsEnt(ents'[u])
                                   /\ ents'[u].place \in DOMAIN areas' \cup {Nowhere}
                                   /\ ents'[u].hidden \in {"none", "user", "integration"}
  PROVE  RegistryInv'
<1>1. Registered /\ RegistryTypeOK
  BY DEF RegistryInv
<1>2. entities' = entities /\ latest' = latest /\ calm' = 0
  BY DEF Act
<1>3. Registered'
  BY <1>1, <1>2 DEF Registered, IsArea, IsEnt, IsEntity
<1>4. RegistryTypeOK'
  BY <1>1, <1>2 DEF RegistryTypeOK
<1> QED
  BY <1>2, <1>3, <1>4, DisturbedInv

LEMMA RegistryStep ==
  ASSUME RegistryInv, RegistryNext
  PROVE  RegistryInv'
<1>1. Registered /\ RegistryTypeOK
  BY DEF RegistryInv
<1>2. /\ areas = [p \in DOMAIN areas |-> areas[p]] /\ \A p \in DOMAIN areas : IsArea(areas[p])
      /\ ents = [u \in DOMAIN ents |-> ents[u]] /\ \A u \in DOMAIN ents : IsEnt(ents[u])
      /\ \A p \in DOMAIN areas : areas[p].air \in {NoSensor, Foreign} \cup DOMAIN ents
      /\ \A u \in DOMAIN ents : /\ ents[u].place \in DOMAIN areas \cup {Nowhere}
                                /\ ents[u].hidden \in {"none", "user", "integration"}
  BY <1>1 DEF Registered, RegistryTypeOK
<1>3. ASSUME NEW items \in Snapshots, Poll(items)
      PROVE  RegistryInv'
  BY <1>3, PollInv
<1>4. CASE Load
  BY <1>4, LoadInv
<1>5. CASE Restart
  <2>1. areas' = areas /\ ents' = ents /\ entities' = <<>> /\ latest' = {} /\ calm' = 0
    BY <1>5 DEF Restart, registry
  <2>2. DOMAIN entities' = {} /\ entities' = [n \in DOMAIN entities' |-> entities'[n]] /\ DOMAIN entities' = 1..0
    BY <2>1
  <2>3. Registered'
    <3>1. areas' = [p \in DOMAIN areas' |-> areas'[p]] /\ \A p \in DOMAIN areas' : IsArea(areas'[p])
      BY <1>2, <2>1
    <3>2. ents' = [u \in DOMAIN ents' |-> ents'[u]] /\ \A u \in DOMAIN ents' : IsEnt(ents'[u])
      BY <1>2, <2>1
    <3> QED
      BY <2>2, <3>1, <3>2 DEF Registered, IsArea, IsEnt, IsEntity
  <2>4. RegistryTypeOK'
    BY <1>1, <2>1, <2>2 DEF RegistryTypeOK
  <2> QED
    BY <2>1, <2>3, <2>4, DisturbedInv
<1>6. ASSUME NEW u \in DOMAIN ents, NEW p \in DOMAIN areas, MoveEntity(u, p)
      PROVE  RegistryInv'
  <2>1. Act /\ areas' = areas /\ ents' = [ents EXCEPT ![u].place = p]
    BY <1>6 DEF MoveEntity
  <2>2. ents' = [v \in DOMAIN ents |-> IF v = u THEN [ents[u] EXCEPT !.place = p] ELSE ents[v]]
    BY <1>2, <2>1
  <2>3. \A v \in DOMAIN ents : /\ IsEnt(ents'[v])
                               /\ ents'[v].place \in DOMAIN areas' \cup {Nowhere}
                               /\ ents'[v].hidden \in {"none", "user", "integration"}
    <3> SUFFICES ASSUME NEW v \in DOMAIN ents
                 PROVE  /\ IsEnt(ents'[v])
                        /\ ents'[v].place \in DOMAIN areas' \cup {Nowhere}
                        /\ ents'[v].hidden \in {"none", "user", "integration"}
      OBVIOUS
    <3>1. ents'[v] = IF v = u THEN [ents[u] EXCEPT !.place = p] ELSE ents[v]
      BY <2>2
    <3>2. /\ IsEnt([ents[u] EXCEPT !.place = p])
          /\ [ents[u] EXCEPT !.place = p].place = p /\ [ents[u] EXCEPT !.place = p].hidden = ents[u].hidden
      BY <1>2, <1>6, PlacedFact
    <3> QED
      BY <1>2, <1>6, <2>1, <3>1, <3>2
  <2>4. /\ areas' = [q \in DOMAIN areas' |-> areas'[q]] /\ \A q \in DOMAIN areas' : IsArea(areas'[q])
        /\ \A q \in DOMAIN areas' : areas'[q].air \in {NoSensor, Foreign} \cup DOMAIN ents
    BY <1>2, <2>1
  <2>5. DOMAIN ents' = DOMAIN ents /\ ents' = [v \in DOMAIN ents |-> ents'[v]]
    BY <2>2
  <2> QED
    BY <2>1, <2>3, <2>4, <2>5, PeopleInv
<1>7. ASSUME NEW p \in DOMAIN areas, DeleteArea(p)
      PROVE  RegistryInv'
  <2>1. /\ Act /\ areas' = [q \in DOMAIN areas \ {p} |-> areas[q]]
        /\ ents' = [u \in DOMAIN ents |-> IF ents[u].place = p THEN [ents[u] EXCEPT !.place = Nowhere] ELSE ents[u]]
    BY <1>7 DEF DeleteArea
  <2>2. \A v \in DOMAIN ents : /\ IsEnt(ents'[v])
                               /\ ents'[v].place \in DOMAIN areas' \cup {Nowhere}
                               /\ ents'[v].hidden \in {"none", "user", "integration"}
    <3> SUFFICES ASSUME NEW v \in DOMAIN ents
                 PROVE  /\ IsEnt(ents'[v])
                        /\ ents'[v].place \in DOMAIN areas' \cup {Nowhere}
                        /\ ents'[v].hidden \in {"none", "user", "integration"}
      OBVIOUS
    <3>1. ents'[v] = IF ents[v].place = p THEN [ents[v] EXCEPT !.place = Nowhere] ELSE ents[v]
      BY <2>1
    <3>2. /\ IsEnt([ents[v] EXCEPT !.place = Nowhere])
          /\ [ents[v] EXCEPT !.place = Nowhere].place = Nowhere
          /\ [ents[v] EXCEPT !.place = Nowhere].hidden = ents[v].hidden
      BY <1>2, PlacedFact
    <3>3. DOMAIN areas' = DOMAIN areas \ {p}
      BY <2>1
    <3> QED
      BY <1>2, <3>1, <3>2, <3>3
  <2>3. /\ areas' = [q \in DOMAIN areas' |-> areas'[q]] /\ \A q \in DOMAIN areas' : IsArea(areas'[q])
        /\ \A q \in DOMAIN areas' : areas'[q].air \in {NoSensor, Foreign} \cup DOMAIN ents
    BY <1>2, <2>1
  <2> QED
    BY <1>2, <2>1, <2>2, <2>3, PeopleInv
<1>8. ASSUME NEW p \in DOMAIN areas, ChooseSensor(p)
      PROVE  RegistryInv'
  <2>1. Act /\ ents' = ents /\ areas' = [areas EXCEPT ![p].air = Foreign]
    BY <1>8 DEF ChooseSensor
  <2> DEFINE a == [areas[p] EXCEPT !.air = Foreign]
  <2>2. areas' = [q \in DOMAIN areas |-> IF q = p THEN a ELSE areas[q]]
    BY <1>2, <2>1
  <2>3. a = [floor |-> areas[p].floor, air |-> Foreign, humidity |-> areas[p].humidity]
    BY <1>2 DEF IsArea
  <2>4. IsArea(a) /\ a.air = Foreign
    BY <2>3 DEF IsArea
  <2> HIDE DEF a
  <2>5. /\ areas' = [q \in DOMAIN areas' |-> areas'[q]] /\ \A q \in DOMAIN areas' : IsArea(areas'[q])
        /\ \A q \in DOMAIN areas' : areas'[q].air \in {NoSensor, Foreign} \cup DOMAIN ents
        /\ DOMAIN areas' = DOMAIN areas
    BY <1>2, <2>2, <2>4
  <2> QED
    BY <1>2, <2>1, <2>5, PeopleInv
<1>9. ASSUME NEW p \in Places, CreateArea(p)
      PROVE  RegistryInv'
  <2>1. Act /\ ents' = ents /\ areas' = [q \in DOMAIN areas \cup {p} |-> IF q = p THEN NewArea ELSE areas[q]]
    BY <1>9 DEF CreateArea
  <2>2. IsArea(NewArea) /\ NewArea.air = NoSensor
    BY DEF IsArea, NewArea
  <2>3. /\ areas' = [q \in DOMAIN areas' |-> areas'[q]] /\ \A q \in DOMAIN areas' : IsArea(areas'[q])
        /\ \A q \in DOMAIN areas' : areas'[q].air \in {NoSensor, Foreign} \cup DOMAIN ents
        /\ DOMAIN areas \subseteq DOMAIN areas'
    BY <1>2, <2>1, <2>2
  <2> QED
    BY <1>2, <2>1, <2>3, PeopleInv
<1>10. ASSUME NEW u \in DOMAIN ents, NEW by \in {"none", "user"}, Hide(u, by)
       PROVE  RegistryInv'
  <2>1. Act /\ areas' = areas /\ ents' = [ents EXCEPT ![u].hidden = by]
    BY <1>10 DEF Hide
  <2> DEFINE e == [ents[u] EXCEPT !.hidden = by]
  <2>2. ents' = [v \in DOMAIN ents |-> IF v = u THEN e ELSE ents[v]]
    BY <1>2, <2>1
  <2>3. e = [place |-> ents[u].place, hidden |-> by]
    BY <1>2 DEF IsEnt
  <2>4. IsEnt(e) /\ e.place = ents[u].place /\ e.hidden = by
    BY <2>3 DEF IsEnt
  <2> HIDE DEF e
  <2>5. \A v \in DOMAIN ents : /\ IsEnt(ents'[v])
                               /\ ents'[v].place \in DOMAIN areas' \cup {Nowhere}
                               /\ ents'[v].hidden \in {"none", "user", "integration"}
    BY <1>2, <1>10, <2>1, <2>2, <2>4
  <2>6. /\ areas' = [q \in DOMAIN areas' |-> areas'[q]] /\ \A q \in DOMAIN areas' : IsArea(areas'[q])
        /\ \A q \in DOMAIN areas' : areas'[q].air \in {NoSensor, Foreign} \cup DOMAIN ents
    BY <1>2, <2>1
  <2>7. DOMAIN ents' = DOMAIN ents /\ ents' = [v \in DOMAIN ents |-> ents'[v]]
    BY <2>2
  <2> QED
    BY <2>1, <2>5, <2>6, <2>7, PeopleInv
<1> QED
  BY <1>3, <1>4, <1>5, <1>6, <1>7, <1>8, <1>9, <1>10 DEF RegistryNext

LEMMA RegistryStutters ==
  ASSUME RegistryInv, UNCHANGED registryVars
  PROVE  RegistryInv'
<1>1. /\ areas' = areas /\ ents' = ents /\ entities' = entities /\ latest' = latest /\ calm' = calm
  BY DEF registryVars, registry
<1>2. Registered' <=> Registered
  BY <1>1 DEF Registered, IsArea, IsEnt, IsEntity
<1>3. RegistryTypeOK' <=> RegistryTypeOK
  BY <1>1 DEF RegistryTypeOK
<1>4. Furnished' <=> Furnished
  BY <1>1 DEF Furnished, PlacesOf, FloorsAt
<1>5. Shown' <=> Shown
  BY <1>1 DEF Shown, Zoned, PickSensor
<1>6. InPlace' <=> InPlace
  BY <1>1 DEF InPlace
<1>7. KettleHidden' <=> KettleHidden
  BY <1>1 DEF KettleHidden
<1>8. AtHome' <=> AtHome
  BY <1>1 DEF AtHome, Reached, Gone, HomeOf
<1>9. Tidy' <=> Tidy
  BY <1>1 DEF Tidy, Unused
<1>10. OwnAirShown' <=> OwnAirShown
  BY <1>1 DEF OwnAirShown
<1> QED
  BY <1>1, <1>2, <1>3, <1>4, <1>5, <1>6, <1>7, <1>8, <1>9, <1>10 DEF RegistryInv, Orderly

LEMMA RegistryStart ==
  ASSUME RegistryInit
  PROVE  RegistryInv
<1>1. DOMAIN areas = {} /\ DOMAIN ents = {} /\ entities = <<>> /\ latest = {} /\ calm = 0
  BY DEF RegistryInit
<1>2. areas = [p \in DOMAIN areas |-> areas[p]]
  BY DEF RegistryInit
<1>3. ents = [u \in DOMAIN ents |-> ents[u]]
  BY DEF RegistryInit
<1>4. DOMAIN entities = {} /\ entities = [n \in DOMAIN entities |-> entities[n]] /\ 1..0 = {} /\ 0 \in Nat
  BY <1>1
<1>5. Registered
  BY <1>1, <1>2, <1>3, <1>4 DEF Registered
<1>6. RegistryTypeOK
  BY <1>1, <1>4 DEF RegistryTypeOK
<1> QED
  BY <1>1, <1>5, <1>6 DEF RegistryInv, OwnAirShown

LEMMA RegistryInvariant == RegistrySpec => []RegistryInv
<1>1. RegistryInit => RegistryInv
  BY RegistryStart
<1>2. RegistryInv /\ [RegistryNext]_registryVars => RegistryInv'
  BY RegistryStep, RegistryStutters
<1> QED
  BY <1>1, <1>2, PTL DEF RegistrySpec

\* The registries are consistent: what an area shows is known, a thing is in an
\* area there is, every entity object is registered (registry.py, entity.py).
THEOREM RegistryTypeCorrect == RegistrySpec => []RegistryTypeOK
<1>1. RegistryInv => RegistryTypeOK
  BY DEF RegistryInv
<1> QED
  BY <1>1, RegistryInvariant, PTL

\* An area with a zone shows the air of that area, or what somebody chose, as
\* soon as the sensor's entity is loaded (registry.py, pick_area_entity).
THEOREM OwnAirAlwaysShown == RegistrySpec => []OwnAirShown
<1>1. RegistryInv => OwnAirShown
  BY DEF RegistryInv
<1> QED
  BY <1>1, RegistryInvariant, PTL

\* Two polls that find the same take away every room left over from a split
\* that nothing is in (registry.py, sync_floors_areas).
THEOREM LeftoversGo == RegistrySpec => []NoEmptyLeftover
<1>1. RegistryInv => NoEmptyLeftover
  BY DEF RegistryInv, Tidy, Unused, NoEmptyLeftover
<1> QED
  BY <1>1, RegistryInvariant, PTL

\* A poll puts every entity of an item in the item's place, whatever people did
\* before it and whichever listener raised (registry.py, entity.py).
THEOREM PollPutsInPlace == RegistrySpec => InPlaceAfterPoll
<1>1. RegistryInv /\ RegistryInv' /\ [RegistryNext]_registryVars
        => [calm' > 0 => \A i \in latest' : Uid(i) \in DOMAIN ents'
                           => ents'[Uid(i)].place = PlaceOf(latest', i)]_registryVars
  BY DEF RegistryInv, Orderly, InPlace, Uid
<1> QED
  BY <1>1, RegistryInvariant, PTL DEF RegistrySpec, InPlaceAfterPoll

\* A third poll that finds the same changes nothing in the registries
\* (registry.py, sync_floors_areas).
THEOREM PollsComeToRest == RegistrySpec => ComesToRest
<1>1. RegistryInv /\ [RegistryNext]_registryVars
        => [calm = 2 /\ latest' = latest /\ calm' = 2 => UNCHANGED registry]_registryVars
  <2> SUFFICES ASSUME RegistryInv, RegistryNext, calm = 2, latest' = latest, calm' = 2
               PROVE  UNCHANGED registry
    BY DEF registryVars
  <2>1. PICK items \in Snapshots : Poll(items)
    BY DEF RegistryNext, Load, Restart, MoveEntity, DeleteArea, ChooseSensor, CreateArea, Hide, Act
  <2>2. items = latest
    BY <2>1, PollFact
  <2>3. Registered /\ RegistryTypeOK /\ Orderly /\ Tidy
    BY DEF RegistryInv
  <2> QED
    BY <2>1, <2>2, <2>3, PollRests
<1> QED
  BY <1>1, RegistryInvariant, PTL DEF RegistrySpec, ComesToRest

-----------------------------------------------------------------------------
(* HaEntities: what a poll reads.                                          *)

SensorRole(kind) ==
  CASE kind = "air" -> "room_temp" [] kind = "floor" -> "floor_temp"
    [] kind = "outdoor" -> "weather" [] kind = "humidity" -> "room_humidity"

\* One floor sensor of the house has this name.
OneFloor(name) ==
  \A o, p \in Objects : ClassifyObject(o) = "floor_temp" /\ ClassifyObject(p) = "floor_temp"
                        /\ o.name = name /\ p.name = name => o = p

IsSnapSet(g) == g = [lights |-> g.lights, zones |-> g.zones, auto |-> g.auto,
                     sensors |-> g.sensors, kettle |-> g.kettle]

\* The answers are those of the objects of the house.
GotOK(g) ==
  /\ IsSnapSet(g)
  /\ IsFiniteSet(g.lights) /\ IsFiniteSet(g.zones) /\ IsFiniteSet(g.kettle)
  /\ \A z \in g.zones : \E o \in Objects : ClassifyObject(o) = "climate_setpoint" /\ z.room = RoomOf(o)
  /\ \A s \in g.sensors : s.kind \in {"air", "floor", "outdoor", "humidity"}
                          /\ \E o \in Objects : ClassifyObject(o) = SensorRole(s.kind) /\ s.name = o.name
  /\ \A s, t \in g.sensors : s.kind = "floor" /\ t.kind = "floor" /\ s.name = t.name /\ OneFloor(s.name)
                             => s = t

LEMMA ResolveFact ==
  ASSUME NEW all, NEW q, NEW kind, NEW role
  PROVE  /\ Resolve(all, q, kind, role) \subseteq all
         /\ role # "any" => \A o \in Resolve(all, q, kind, role) : ClassifyObject(o) = role
<1>1. /\ Candidates(all, q, kind, role) \subseteq all
      /\ role # "any" => \A o \in Candidates(all, q, kind, role) : ClassifyObject(o) = role
  BY DEF Candidates
<1>2. \A f : PreferExact(q, f) \subseteq f
  BY DEF PreferExact
<1>3. \A f : PreferControl(q, kind, role, f) \subseteq f
  BY DEF PreferControl
<1> QED
  BY <1>1, <1>2, <1>3 DEF Resolve

\* What one operation makes of finitely many objects is finite.
LEMMA ListLightsFinite ==
  ASSUME NEW all, IsFiniteSet(all), NEW states, NEW q
  PROVE  IsFiniteSet(ListLights(all, states, q))
<1> DEFINE S == Lights(all, q)
           f == [o \in S |-> [name |-> o.name, on |-> LightStatus(all, states, o),
                              area |-> AreaOf(o), floor |-> FloorOf(o)]]
<1>1. IsFiniteSet(S)
  BY ResolveFact, FS_Subset DEF Lights
<1>2. f \in Surjection(S, ListLights(all, states, q))
  BY DEF Surjection, ListLights
<1> QED
  BY <1>1, <1>2, FS_Surjection

LEMMA ZonesFact ==
  ASSUME NEW all \in SUBSET Objects, NEW states, NEW q
  PROVE  /\ IsFiniteSet(Zones(all, states, q))
         /\ \A z \in Zones(all, states, q) :
              \E o \in Objects : ClassifyObject(o) = "climate_setpoint" /\ z.room = RoomOf(o)
<1> DEFINE S == Resolve(all, q, "all", "climate_setpoint")
           of(o, role) == AnyOf(states, Resolve(all, RoomOf(o), "all", role))
           f == [o \in S |->
                   [room |-> RoomOf(o), setpoint |-> states[o.ga], area |-> AreaOf(o), floor |-> FloorOf(o),
                    floor_temp |-> of(o, "floor_temp"), room_temp |-> of(o, "room_temp"),
                    relay_on |-> of(o, "heat_relay_status")]]
<1>1. IsFiniteSet(S) /\ S \subseteq all /\ \A o \in S : ClassifyObject(o) = "climate_setpoint"
  BY HaOK, ResolveFact, FS_Subset
<1>2. Zones(all, states, q) = {f[o] : o \in S}
  BY DEF Zones
<1>3. f \in Surjection(S, Zones(all, states, q))
  BY <1>2 DEF Surjection
<1>4. \A o \in S : f[o].room = RoomOf(o)
  OBVIOUS
<1> HIDE DEF f, S
<1> QED
  BY <1>1, <1>2, <1>3, <1>4, FS_Surjection

LEMMA ReadingFact ==
  ASSUME NEW states, NEW o, NEW kind
  PROVE  Reading(states, o, kind).name = o.name /\ Reading(states, o, kind).kind = kind
BY DEF Reading

LEMMA TemperaturesFact ==
  ASSUME NEW all \in SUBSET Objects, NEW states, NEW s \in Temperatures(all, states, <<>>)
  PROVE  \E kind \in {"air", "floor", "outdoor"} : \E o \in Objects :
           ClassifyObject(o) = SensorRole(kind) /\ s = Reading(states, o, kind)
<1>1. PICK source \in {<<"room_temp", "air">>, <<"floor_temp", "floor">>, <<"weather", "outdoor">>} :
        s \in {Reading(states, o, source[2]) : o \in Resolve(all, <<>>, "all", source[1])}
  BY DEF Temperatures
<1>2. PICK o \in Resolve(all, <<>>, "all", source[1]) : s = Reading(states, o, source[2])
  BY <1>1
<1>3. source[1] # "any" /\ source[2] \in {"air", "floor", "outdoor"} /\ source[1] = SensorRole(source[2])
  BY <1>1 DEF SensorRole
<1>4. o \in Objects /\ ClassifyObject(o) = source[1]
  BY <1>2, <1>3, ResolveFact
<1> QED
  BY <1>2, <1>3, <1>4

LEMMA HumidityFact ==
  ASSUME NEW all \in SUBSET Objects, NEW states, NEW s \in Sensors(all, states, <<>>, "humidity")
  PROVE  \E o \in Objects : ClassifyObject(o) = SensorRole("humidity") /\ s = Reading(states, o, "humidity")
<1>1. PICK o \in Resolve(all, <<>>, "sensor", "room_humidity") : s = Reading(states, o, "humidity")
  BY DEF Sensors
<1>2. o \in Objects /\ ClassifyObject(o) = "room_humidity"
  BY ResolveFact
<1> QED
  BY <1>1, <1>2 DEF SensorRole

LEMMA AppliancesFinite ==
  ASSUME NEW found, IsFiniteSet(found), NEW states
  PROVE  IsFiniteSet(Appliances(found, states))
<1> DEFINE names == {ApplianceOf(o) : o \in found}
           f == [o \in found |-> ApplianceOf(o)]
           value(name, p) == AnyOf(states, {o \in found : ApplianceOf(o) = name /\ PartOf(o) = p})
           g == [name \in names |->
                   [name |-> name,
                    on |-> IF value(name, "state") # Unknown THEN value(name, "state") ELSE value(name, "cmd"),
                    setpoint |-> value(name, "setpoint")]]
<1>1. f \in Surjection(found, names)
  BY DEF Surjection
<1>2. IsFiniteSet(names)
  BY <1>1, FS_Surjection
<1>3. Appliances(found, states) = {g[name] : name \in names}
  BY DEF Appliances
<1>4. g \in Surjection(names, Appliances(found, states))
  BY <1>3 DEF Surjection
<1> QED
  BY <1>2, <1>4, FS_Surjection

LEMMA KettleShownFact ==
  ASSUME NEW all, IsFiniteSet(all)
  PROVE  IsFiniteSet(KettleShown(all))
<1> DEFINE queries == <<<<"teapot">>, <<"chainik">>, <<"kettle">>, <<"ble", "teapot">>>>
<1>1. FirstFound(all, queries) \subseteq all
  BY ResolveFact DEF FirstFound
<1> QED
  BY <1>1, FS_Subset DEF KettleShown

\* Every operation of a poll answers with what the house has, whenever it is
\* called (agent_actions.py: the read handlers).
LEMMA WithAnswerFact ==
  ASSUME catalog \subseteq Objects, GotOK(got),
         NEW op \in {"list_lights", "get_climate", "get_temperature", "get_sensors", "get_kettle"}
  PROVE  GotOK(WithAnswer(op))
<1> DEFINE w == WithAnswer(op)
<1>0. IsFiniteSet(catalog) /\ catalog \in SUBSET Objects /\ IsSnapSet(got)
  BY HaOK, FS_Subset DEF GotOK
<1>1. CASE op = "list_lights"
  <2> DEFINE l == ListLights(catalog, seen, <<>>)
  <2>1. w = [got EXCEPT !.lights = l]
    BY <1>1 DEF WithAnswer
  <2>2. IsFiniteSet(l)
    BY <1>0, ListLightsFinite
  <2> HIDE DEF w, l
  <2>3. w = [lights |-> l, zones |-> got.zones, auto |-> got.auto, sensors |-> got.sensors, kettle |-> got.kettle]
    BY <1>0, <2>1 DEF IsSnapSet
  <2>4. /\ IsSnapSet(w) /\ w.lights = l /\ w.zones = got.zones /\ w.sensors = got.sensors /\ w.kettle = got.kettle
    BY <2>3 DEF IsSnapSet
  <2>5. GotOK(w)
    BY <2>2, <2>4 DEF GotOK
  <2> QED
    BY <2>5 DEF w
<1>2. CASE op = "get_climate"
  <2> DEFINE z == Zones(catalog, seen, <<>>)
             a == IF AutoHeatingGA \in DOMAIN seen THEN seen[AutoHeatingGA] ELSE Unknown
  <2>1. w = [got EXCEPT !.zones = z, !.auto = a]
    BY <1>2 DEF WithAnswer
  <2>2. IsFiniteSet(z) /\ \A x \in z : \E o \in Objects : ClassifyObject(o) = "climate_setpoint" /\ x.room = RoomOf(o)
    BY <1>0, ZonesFact
  <2> HIDE DEF w, z, a
  <2>3. w = [lights |-> got.lights, zones |-> z, auto |-> a, sensors |-> got.sensors, kettle |-> got.kettle]
    BY <1>0, <2>1 DEF IsSnapSet
  <2>4. /\ IsSnapSet(w) /\ w.lights = got.lights /\ w.zones = z /\ w.sensors = got.sensors /\ w.kettle = got.kettle
    BY <2>3 DEF IsSnapSet
  <2>5. GotOK(w)
    BY <2>2, <2>4 DEF GotOK
  <2> QED
    BY <2>5 DEF w
<1>3. CASE op = "get_temperature"
  <2> DEFINE t == Temperatures(catalog, seen, <<>>)
  <2>1. w = [got EXCEPT !.sensors = t]
    BY <1>3 DEF WithAnswer
  <2>2. \A s \in t : \E kind \in {"air", "floor", "outdoor"} : \E o \in Objects :
           ClassifyObject(o) = SensorRole(kind) /\ s = Reading(seen, o, kind)
    BY <1>0, TemperaturesFact
  <2> HIDE DEF w, t
  <2>3. w = [lights |-> got.lights, zones |-> got.zones, auto |-> got.auto, sensors |-> t, kettle |-> got.kettle]
    BY <1>0, <2>1 DEF IsSnapSet
  <2>4. /\ IsSnapSet(w) /\ w.lights = got.lights /\ w.zones = got.zones /\ w.sensors = t /\ w.kettle = got.kettle
    BY <2>3 DEF IsSnapSet
  <2>5. \A s \in t : s.kind \in {"air", "floor", "outdoor", "humidity"}
                     /\ \E o \in Objects : ClassifyObject(o) = SensorRole(s.kind) /\ s.name = o.name
    BY <2>2, ReadingFact
  <2>6. ASSUME NEW s \in t, NEW r \in t, s.kind = "floor", r.kind = "floor", s.name = r.name, OneFloor(s.name)
        PROVE  s = r
    <3>1. PICK o \in Objects : ClassifyObject(o) = "floor_temp" /\ s = Reading(seen, o, "floor")
      BY <2>2, <2>6, ReadingFact DEF SensorRole
    <3>2. PICK p \in Objects : ClassifyObject(p) = "floor_temp" /\ r = Reading(seen, p, "floor")
      BY <2>2, <2>6, ReadingFact DEF SensorRole
    <3>3. o.name = s.name /\ p.name = s.name
      BY <2>6, <3>1, <3>2, ReadingFact
    <3>4. o = p
      BY <2>6, <3>1, <3>2, <3>3 DEF OneFloor
    <3> QED
      BY <3>1, <3>2, <3>4
  <2>7. GotOK(w)
    BY <2>4, <2>5, <2>6 DEF GotOK
  <2> QED
    BY <2>7 DEF w
<1>4. CASE op = "get_sensors"
  <2> DEFINE h == Sensors(catalog, seen, <<>>, "humidity")
             t == got.sensors \cup h
  <2>1. w = [got EXCEPT !.sensors = t]
    BY <1>4 DEF WithAnswer
  <2>2. \A s \in h : \E o \in Objects : ClassifyObject(o) = SensorRole("humidity") /\ s = Reading(seen, o, "humidity")
    BY <1>0, HumidityFact
  <2>3. \A s \in t : s \in got.sensors \/ s \in h
    OBVIOUS
  <2>4. \A s \in h : s.kind = "humidity" /\ \E o \in Objects : ClassifyObject(o) = SensorRole(s.kind) /\ s.name = o.name
    BY <2>2, ReadingFact
  <2> HIDE DEF w, t, h
  <2>5. w = [lights |-> got.lights, zones |-> got.zones, auto |-> got.auto, sensors |-> t, kettle |-> got.kettle]
    BY <1>0, <2>1 DEF IsSnapSet
  <2>6. /\ IsSnapSet(w) /\ w.lights = got.lights /\ w.zones = got.zones /\ w.sensors = t /\ w.kettle = got.kettle
    BY <2>5 DEF IsSnapSet
  <2>7. GotOK(w)
    BY <2>3, <2>4, <2>6 DEF GotOK
  <2> QED
    BY <2>7 DEF w
<1>5. CASE op = "get_kettle"
  <2> DEFINE kettles == Appliances(KettleShown(catalog), seen)
             K == {[name |-> k.name, on |-> k.on, area |-> Unplaced, floor |-> Unplaced] : k \in kettles}
             kettle == IF Cardinality(kettles) = 1 THEN K ELSE {}
  <2>1. w = [got EXCEPT !.kettle = kettle]
    BY <1>5 DEF WithAnswer
  <2>2. IsFiniteSet(kettle)
    <3> DEFINE f == [k \in kettles |-> [name |-> k.name, on |-> k.on, area |-> Unplaced, floor |-> Unplaced]]
    <3>1. IsFiniteSet(kettles)
      BY <1>0, KettleShownFact, AppliancesFinite
    <3>2. f \in Surjection(kettles, K)
      BY DEF Surjection
    <3> HIDE DEF kettles, K, f
    <3>3. IsFiniteSet(K)
      BY <3>1, <3>2, FS_Surjection
    <3> QED
      BY <3>3, FS_EmptySet
  <2> HIDE DEF w, kettle
  <2>3. w = [lights |-> got.lights, zones |-> got.zones, auto |-> got.auto, sensors |-> got.sensors, kettle |-> kettle]
    BY <1>0, <2>1 DEF IsSnapSet
  <2>4. /\ IsSnapSet(w) /\ w.lights = got.lights /\ w.zones = got.zones /\ w.sensors = got.sensors /\ w.kettle = kettle
    BY <2>3 DEF IsSnapSet
  <2>5. GotOK(w)
    BY <2>2, <2>4 DEF GotOK
  <2> QED
    BY <2>5 DEF w
<1> QED
  BY <1>1, <1>2, <1>3, <1>4, <1>5

LEMMA FloorLabelFact ==
  ASSUME NEW room \in Seq(Word)
  PROVE  FloorLabel(<<"temp">> \o room) = room
<1>1. <<"temp">> \o room # <<>> /\ Head(<<"temp">> \o room) = "temp" /\ Tail(<<"temp">> \o room) = room
  <2> DEFINE q == <<"temp">> \o room
  <2>1. Len(q) = 1 + Len(room) /\ q[1] = "temp" /\ \A n \in 1..Len(room) : q[n + 1] = room[n]
    OBVIOUS
  <2>2. q \in Seq(Word \cup {"temp"}) /\ Len(room) \in Nat
    OBVIOUS
  <2>3. q # <<>> /\ Head(q) = "temp"
    BY <2>1, <2>2
  <2>4. Tail(q) \in Seq(Word \cup {"temp"}) /\ Len(Tail(q)) = Len(room)
    BY <2>1, <2>2
  <2>5. \A n \in 1..Len(room) : Tail(q)[n] = q[n + 1]
    BY <2>1, <2>2
  <2>6. Tail(q) = room
    <3>1. room = [n \in 1..Len(room) |-> room[n]] /\ Tail(q) = [n \in 1..Len(room) |-> Tail(q)[n]]
      BY <2>4
    <3>2. \A n \in 1..Len(room) : Tail(q)[n] = room[n]
      BY <2>1, <2>5
    <3> QED
      BY <3>1, <3>2
  <2> QED
    BY <2>3, <2>6
<1> QED
  BY <1>1 DEF FloorLabel

LEMMA RoomFact ==
  ASSUME NEW o \in Objects
  PROVE  RoomOf(o) \in Seq(Word)
<1>1. o.name \in Seq(Word)
  BY HaOK
<1>2. ASSUME Len(o.name) > 2
      PROVE  SubSeq(o.name, 3, Len(o.name)) \in Seq(Word)
  BY <1>1, <1>2
<1> QED
  BY <1>1, <1>2 DEF RoomOf

\* What a snapshot is made of.
LEMMA FromOpsFact ==
  ASSUME NEW g, GotOK(g)
  PROVE  /\ IsFiniteSet(FromOps(g).lights) /\ IsFiniteSet(FromOps(g).climates) /\ IsFiniteSet(FromOps(g).kettle)
         /\ FromOps(g).sensors = g.sensors
         /\ \A c \in FromOps(g).climates : \E z \in g.zones : \E placed :
              /\ c.room = z.room
              /\ c.floor_temp = ValueOr(ZoneFloorSensor(Placed(z, z.room), g.sensors, placed), z.floor_temp)
<1> DEFINE placed == {Placed(r, r.name) : r \in g.lights \cup g.sensors}
                     \cup {Placed(z, z.room) : z \in g.zones}
           reading(z, kind) == Single(g.sensors, placed, kind, PlaceOf(placed, Placed(z, z.room)))
           climate(z) ==
             [room |-> z.room, area |-> z.area, floor |-> z.floor, setpoint |-> z.setpoint,
              floor_temp |-> ValueOr(ZoneFloorSensor(Placed(z, z.room), g.sensors, placed), z.floor_temp),
              room_temp |-> IF z.room_temp # Unplaced THEN z.room_temp
                            ELSE ValueOr(reading(z, "air"), Unplaced),
              humidity |-> ValueOr(reading(z, "humidity"), Unplaced),
              relay_on |-> z.relay_on]
           L == {[r EXCEPT !.on = AsOn(@)] : r \in g.lights}
           C == {climate(z) : z \in g.zones}
           K == {[k EXCEPT !.area = IF @ = Unplaced THEN "kitchen" ELSE @] : k \in g.kettle}
<1>1. /\ FromOps(g).lights = L /\ FromOps(g).climates = C /\ FromOps(g).kettle = K
      /\ FromOps(g).sensors = g.sensors
  BY DEF FromOps
<1>2. IsFiniteSet(L)
  <2> DEFINE f == [r \in g.lights |-> [r EXCEPT !.on = AsOn(@)]]
  <2>1. f \in Surjection(g.lights, L)
    BY DEF Surjection
  <2> QED
    BY <2>1, FS_Surjection DEF GotOK
<1>3. IsFiniteSet(C)
  <2> HIDE DEF climate
  <2> DEFINE f == [z \in g.zones |-> climate(z)]
  <2>1. f \in Surjection(g.zones, C)
    BY DEF Surjection
  <2> QED
    BY <2>1, FS_Surjection DEF GotOK
<1>4. IsFiniteSet(K)
  <2> DEFINE f == [k \in g.kettle |-> [k EXCEPT !.area = IF @ = Unplaced THEN "kitchen" ELSE @]]
  <2>1. f \in Surjection(g.kettle, K)
    BY DEF Surjection
  <2> QED
    BY <2>1, FS_Surjection DEF GotOK
<1>5. \A z \in g.zones :
        /\ climate(z).room = z.room
        /\ climate(z).floor_temp = ValueOr(ZoneFloorSensor(Placed(z, z.room), g.sensors, placed), z.floor_temp)
  OBVIOUS
<1> HIDE DEF climate
<1>6. \A c \in C : \E z \in g.zones :
        /\ c.room = z.room
        /\ c.floor_temp = ValueOr(ZoneFloorSensor(Placed(z, z.room), g.sensors, placed), z.floor_temp)
  BY <1>5
<1> HIDE DEF placed, L, C, K
<1> QED
  BY <1>1, <1>2, <1>3, <1>4, <1>6

\* The floor sensor with a zone's own name is that zone's (snapshot.py,
\* _zone_floor_sensor).
LEMMA OwnFloorFact ==
  ASSUME FloorsNamedApart, NEW g, GotOK(g),
         NEW c \in FromOps(g).climates, NEW s \in FromOps(g).sensors, s.name = <<"temp">> \o c.room
  PROVE  c.floor_temp = s.value
<1>1. s \in g.sensors
  BY FromOpsFact
<1>2. PICK z \in g.zones : \E placed :
        /\ c.room = z.room
        /\ c.floor_temp = ValueOr(ZoneFloorSensor(Placed(z, z.room), g.sensors, placed), z.floor_temp)
  BY FromOpsFact
<1>3. PICK placed :
        /\ c.room = z.room
        /\ c.floor_temp = ValueOr(ZoneFloorSensor(Placed(z, z.room), g.sensors, placed), z.floor_temp)
  BY <1>2
<1>4. PICK o \in Objects : ClassifyObject(o) = "climate_setpoint" /\ z.room = RoomOf(o)
  BY DEF GotOK
<1> DEFINE room == RoomOf(o)
<1>5. room \in Seq(Word) /\ s.name = <<"temp">> \o room
  BY <1>3, <1>4, RoomFact
<1>6. FloorLabel(s.name) = room /\ FloorLabel(room) = room
  BY <1>4, <1>5, FloorLabelFact DEF FloorsNamedApart, SensorRoles
<1>7. \A p, r \in Objects : /\ ClassifyObject(p) = "floor_temp" /\ ClassifyObject(r) = "floor_temp"
                            /\ FloorLabel(p.name) = room /\ FloorLabel(r.name) = room
                            => p = r
  BY <1>4 DEF FloorsNamedApart, SensorRoles
<1>8. s.kind = "floor"
  <2>1. PICK p \in Objects : ClassifyObject(p) = SensorRole(s.kind) /\ s.name = p.name
    BY <1>1 DEF GotOK
  <2>2. s.kind \in {"air", "floor", "outdoor", "humidity"}
    BY <1>1 DEF GotOK
  <2>3. ClassifyObject(p) \in {"room_temp", "weather", "room_humidity", "floor_temp"}
    BY <2>1, <2>2 DEF SensorRole
  <2>4. ClassifyObject(p) = "floor_temp"
    BY <1>4, <1>5, <2>1, <2>3 DEF FloorsNamedApart, SensorRoles
  <2> QED
    BY <2>1, <2>2, <2>4 DEF SensorRole
<1> DEFINE named == {t \in g.sensors : t.kind = "floor" /\ FloorLabel(t.name) = FloorLabel(z.room)}
<1>9. \A t \in g.sensors : t.kind = "floor" =>
        \E p \in Objects : ClassifyObject(p) = "floor_temp" /\ t.name = p.name
  BY DEF GotOK, SensorRole
<1>10. PICK own \in Objects : ClassifyObject(own) = "floor_temp" /\ s.name = own.name
  BY <1>1, <1>8, <1>9
<1>11. OneFloor(s.name)
  BY <1>6, <1>7 DEF OneFloor
<1>12. named = {s}
  <2>1. s \in named
    BY <1>1, <1>4, <1>6, <1>8
  <2>2. ASSUME NEW t \in named
        PROVE  t = s
    <3>1. t \in g.sensors /\ t.kind = "floor" /\ FloorLabel(t.name) = room
      BY <1>4, <1>6, <2>2
    <3>2. PICK p \in Objects : ClassifyObject(p) = "floor_temp" /\ t.name = p.name
      BY <1>9, <3>1
    <3>3. p = own
      BY <1>6, <1>7, <1>10, <3>1, <3>2
    <3>4. t.name = s.name
      BY <1>10, <3>2, <3>3
    <3> QED
      BY <1>1, <1>8, <1>11, <3>1, <3>4 DEF GotOK
  <2> QED
    BY <2>1, <2>2
<1>13. Placed(z, z.room).name = z.room
  BY DEF Placed
<1>14. ZoneFloorSensor(Placed(z, z.room), g.sensors, placed) = {s}
  <2>1. Cardinality(named) = 1
    BY <1>12, FS_Singleton
  <2> QED
    BY <1>12, <1>13, <2>1 DEF ZoneFloorSensor
<1> QED
  BY <1>3, <1>14 DEF ValueOr

-----------------------------------------------------------------------------
(* HaEntities: the cards.                                                  *)

IsCard(c) == c = [kind |-> c.kind, name |-> c.name, pending |-> c.pending, gas |-> c.gas, shown |-> c.shown]

CardsOK ==
  /\ cards = [i \in DOMAIN cards |-> cards[i]] /\ \E n \in Nat : DOMAIN cards = 1..n
  /\ \A i \in DOMAIN cards : IsCard(cards[i])

EntitiesInv ==
  /\ catalog \subseteq Objects
  /\ stage \in 0..5
  /\ GotOK(got)
  /\ data = {} \/ \E snap : data = {snap}
  /\ data = {} => cards = <<>>
  /\ CardsOK
  /\ UnavailableTogether
  /\ FloorsNamedApart => ZoneShowsOwnFloor

LEMMA WiderSeq ==
  ASSUME NEW B, NEW A \in SUBSET B, NEW q \in Seq(A)
  PROVE  q \in Seq(B)
OBVIOUS

\* The cards that the platforms create are a finite list.
LEMMA NewCardsFact ==
  ASSUME NEW g, GotOK(g), cards' = NewCards(FromOps(g))
  PROVE  CardsOK'
<1> DEFINE snap == FromOps(g)
           new == CardsOf(snap)
           rooms == {z.room : z \in snap.climates}
           of(kind, names) == SetToSeq({[kind |-> kind, name |-> name] : name \in names})
<1>1. ASSUME NEW kind, NEW names, IsFiniteSet(names)
      PROVE  of(kind, names) \in Seq({[kind |-> kind, name |-> name] : name \in names})
  <2> DEFINE S == {[kind |-> kind, name |-> name] : name \in names}
             f == [name \in names |-> [kind |-> kind, name |-> name]]
  <2>1. f \in Surjection(names, S)
    BY DEF Surjection
  <2>2. IsFiniteSet(S)
    BY <1>1, <2>1, FS_Surjection
  <2> HIDE DEF S
  <2>3. SetToSeq(S) \in Seq(S)
    BY <2>2, InOrderFact
  <2> QED
    BY <2>3 DEF S
<1> DEFINE A(kind, names) == {[kind |-> kind, name |-> name] : name \in names}
           lights == {l.name : l \in snap.lights}
           kettles == {k.name : k \in snap.kettle}
           sensors == {s.name : s \in snap.sensors}
<1>2. IsFiniteSet(lights)
  <2> DEFINE f == [l \in snap.lights |-> l.name]
  <2>1. f \in Surjection(snap.lights, lights)
    BY DEF Surjection
  <2> QED
    BY <2>1, FS_Surjection, FromOpsFact
<1>3. IsFiniteSet(rooms)
  <2> DEFINE f == [z \in snap.climates |-> z.room]
  <2>1. f \in Surjection(snap.climates, rooms)
    BY DEF Surjection
  <2> QED
    BY <2>1, FS_Surjection, FromOpsFact
<1>4. IsFiniteSet(kettles)
  <2> DEFINE f == [k \in snap.kettle |-> k.name]
  <2>1. f \in Surjection(snap.kettle, kettles)
    BY DEF Surjection
  <2> QED
    BY <2>1, FS_Surjection, FromOpsFact
<1>4a. IsFiniteSet(sensors)
  <2> DEFINE names == {o.name : o \in Objects}
             f == [o \in Objects |-> o.name]
  <2>1. f \in Surjection(Objects, names)
    BY DEF Surjection
  <2>2. IsFiniteSet(names)
    BY <2>1, HaOK, FS_Surjection
  <2>3. \A s \in g.sensors : \E o \in Objects : s.name = o.name
    BY DEF GotOK
  <2>4. sensors \subseteq names
    BY <2>3, FromOpsFact
  <2> QED
    BY <2>2, <2>4, FS_Subset
<1>5. IsFiniteSet({<<>>})
  BY FS_Singleton
<1> DEFINE s1 == of("light", lights)
           s2 == of("zone", rooms)
           s3 == of("heat", rooms)
           s4 == of("auto", {<<>>})
           s5 == of("kettle", kettles)
           s6 == of("sensor", sensors)
           All == A("light", lights) \cup A("zone", rooms) \cup A("sensor", sensors) \cup A("heat", rooms)
                  \cup A("auto", {<<>>}) \cup A("kettle", kettles)
<1>6. s1 \in Seq(A("light", lights)) /\ s2 \in Seq(A("zone", rooms)) /\ s3 \in Seq(A("heat", rooms))
      /\ s4 \in Seq(A("auto", {<<>>})) /\ s5 \in Seq(A("kettle", kettles))
      /\ s6 \in Seq(A("sensor", sensors))
  <2> HIDE DEF lights, rooms, kettles, sensors
  <2>1. \A kind : \A names : IsFiniteSet(names) => of(kind, names) \in Seq(A(kind, names))
    BY <1>1
  <2> HIDE DEF of, A
  <2>2. s1 \in Seq(A("light", lights))
    BY <1>2, <2>1
  <2>3. s2 \in Seq(A("zone", rooms))
    BY <1>3, <2>1
  <2>4. s3 \in Seq(A("heat", rooms))
    BY <1>3, <2>1
  <2>5. s4 \in Seq(A("auto", {<<>>}))
    BY <1>5, <2>1
  <2>6. s5 \in Seq(A("kettle", kettles))
    BY <1>4, <2>1
  <2>7. s6 \in Seq(A("sensor", sensors))
    BY <1>4a, <2>1
  <2> QED
    BY <2>2, <2>3, <2>4, <2>5, <2>6, <2>7
<1>7. new = s1 \o s2 \o s6 \o s3 \o s4 \o s5
  BY DEF CardsOf
<1> HIDE DEF new, s1, s2, s3, s4, s5, s6, A
<1>8. new \in Seq(All)
  <2>1. s1 \in Seq(All) /\ s2 \in Seq(All) /\ s3 \in Seq(All) /\ s4 \in Seq(All) /\ s5 \in Seq(All)
        /\ s6 \in Seq(All)
    <3>2. /\ A("light", lights) \in SUBSET All /\ A("zone", rooms) \in SUBSET All
          /\ A("heat", rooms) \in SUBSET All /\ A("auto", {<<>>}) \in SUBSET All
          /\ A("kettle", kettles) \in SUBSET All /\ A("sensor", sensors) \in SUBSET All
      OBVIOUS
    <3> HIDE DEF All
    <3> QED
      BY <1>6, <3>2, WiderSeq
  <2> HIDE DEF All
  <2> QED
    BY <1>7, <2>1
<1>9. Len(new) \in Nat /\ DOMAIN new = 1..Len(new)
  <2> HIDE DEF All
  <2> QED
    BY <1>8
<1>10. cards' = [i \in DOMAIN new |->
                   [kind |-> new[i].kind, name |-> new[i].name, pending |-> "none",
                    gas |-> {o.ga : o \in ShownObject(new[i])},
                    shown |-> Written(snap, TRUE, new[i], "none")]]
  BY DEF NewCards, new
<1>11. ASSUME NEW i \in DOMAIN new
       PROVE  IsCard(cards'[i])
  <2> DEFINE g1 == {o.ga : o \in ShownObject(new[i])}
             w1 == Written(snap, TRUE, new[i], "none")
             k1 == new[i].kind
             n1 == new[i].name
  <2>1. cards'[i] = [kind |-> k1, name |-> n1, pending |-> "none", gas |-> g1, shown |-> w1]
    BY <1>10
  <2> HIDE DEF g1, w1, k1, n1
  <2> QED
    BY <2>1 DEF IsCard
<1> QED
  BY <1>9, <1>10, <1>11 DEF CardsOK, IsCard

LEMMA SameRaises ==
  ASSUME NEW snap, NEW ok, NEW c, NEW d, c.kind = d.kind, c.name = d.name
  PROVE  Raises(snap, ok, c) <=> Raises(snap, ok, d)
BY DEF Raises, ItemOf

\* A card that raises while the server does not answer raises when it does.
LEMMA RaisesAnyway ==
  ASSUME NEW snap, NEW c, Raises(snap, FALSE, c)
  PROVE  Raises(snap, TRUE, c)
BY DEF Raises

\* The cards after a call of the coordinator: those before the first that
\* raises have written their state (entity.py, _handle_coordinator_update).
LEMMA HandledFact ==
  ASSUME CardsOK, NEW snap, NEW ok
  PROVE  /\ DOMAIN Handled(snap, ok) = DOMAIN cards
         /\ Handled(snap, ok) = [i \in DOMAIN cards |-> Handled(snap, ok)[i]]
         /\ \A i \in DOMAIN cards :
              /\ IsCard(Handled(snap, ok)[i])
              /\ Handled(snap, ok)[i].kind = cards[i].kind /\ Handled(snap, ok)[i].name = cards[i].name
              /\ \/ Handled(snap, ok)[i].shown = Written(snap, ok, cards[i], Settled(snap, cards[i]))
                 \/ \E j \in DOMAIN cards : j <= i /\ Raises(snap, ok, cards[j])
<1> DEFINE h == Handled(snap, ok)
           stop == {i \in DOMAIN cards : Raises(snap, ok, cards[i])}
<1>1. h = [i \in DOMAIN cards |->
             IF \E j \in stop : j <= i THEN cards[i]
             ELSE [cards[i] EXCEPT !.pending = Settled(snap, cards[i]),
                                   !.shown = Written(snap, ok, cards[i], Settled(snap, cards[i]))]]
  BY DEF Handled
<1>2. ASSUME NEW i \in DOMAIN cards
      PROVE  /\ IsCard(h[i])
             /\ h[i].kind = cards[i].kind /\ h[i].name = cards[i].name
             /\ \/ h[i].shown = Written(snap, ok, cards[i], Settled(snap, cards[i]))
                \/ \E j \in DOMAIN cards : j <= i /\ Raises(snap, ok, cards[j])
  <2> DEFINE p == Settled(snap, cards[i])
             w == Written(snap, ok, cards[i], p)
             c == cards[i]
             d == h[i]
  <2>1. IsCard(c)
    BY DEF CardsOK
  <2>2. CASE \E j \in stop : j <= i
    BY <1>1, <2>1, <2>2
  <2>3. CASE ~\E j \in stop : j <= i
    <3>1. d = [c EXCEPT !.pending = p, !.shown = w]
      BY <1>1, <2>3
    <3> HIDE DEF p, w, c, d
    <3>2. d = [kind |-> c.kind, name |-> c.name, pending |-> p, gas |-> c.gas, shown |-> w]
      BY <2>1, <3>1 DEF IsCard
    <3>3. IsCard(d) /\ d.kind = c.kind /\ d.name = c.name /\ d.shown = w
      BY <3>2 DEF IsCard
    <3> QED
      BY <3>3 DEF p, w, c, d
  <2> QED
    BY <2>2, <2>3
<1> QED
  BY <1>1, <1>2

LEMMA CardsHandled ==
  ASSUME CardsOK, NEW snap, NEW ok, cards' = Handled(snap, ok)
  PROVE  CardsOK' /\ (cards = <<>> => cards' = <<>>)
<1>1. /\ DOMAIN cards' = DOMAIN cards /\ cards' = [i \in DOMAIN cards |-> cards'[i]]
      /\ \A i \in DOMAIN cards : IsCard(cards'[i])
  BY HandledFact
<1>2. CardsOK'
  BY <1>1 DEF CardsOK, IsCard
<1>3. ASSUME cards = <<>>
      PROVE  cards' = <<>>
  <2>1. DOMAIN cards' = {}
    BY <1>1, <1>3
  <2> QED
    BY <1>1, <2>1
<1> QED
  BY <1>2, <1>3

\* When the server stops answering, the cards go down together.
LEMMA DownTogether ==
  ASSUME CardsOK, NEW snap, data = {snap}, data' = data, cards' = Handled(snap, FALSE)
  PROVE  UnavailableTogether'
<1>1. SUFFICES ASSUME NEW i \in DOMAIN cards'
               PROVE  cards'[i].shown = "unavailable"
                      \/ \E j \in 1..i : Raises(snap, TRUE, cards'[j])
  BY DEF UnavailableTogether, Broken
<1>2. /\ DOMAIN cards' = DOMAIN cards
      /\ \A j \in DOMAIN cards : cards'[j].kind = cards[j].kind /\ cards'[j].name = cards[j].name
      /\ \/ cards'[i].shown = Written(snap, FALSE, cards[i], Settled(snap, cards[i]))
         \/ \E j \in DOMAIN cards : j <= i /\ Raises(snap, FALSE, cards[j])
  <2> DEFINE h == Handled(snap, FALSE)
  <2>1. /\ DOMAIN h = DOMAIN cards
        /\ \A k \in DOMAIN cards :
             /\ h[k].kind = cards[k].kind /\ h[k].name = cards[k].name
             /\ \/ h[k].shown = Written(snap, FALSE, cards[k], Settled(snap, cards[k]))
                \/ \E j \in DOMAIN cards : j <= k /\ Raises(snap, FALSE, cards[j])
    BY HandledFact, ZenonT(30)
  <2>2. cards' = h
    OBVIOUS
  <2> HIDE DEF h
  <2> QED
    BY <1>1, <2>1, <2>2
<1>3. CASE cards'[i].shown = Written(snap, FALSE, cards[i], Settled(snap, cards[i]))
  BY <1>3 DEF Written
<1>4. CASE \E j \in DOMAIN cards : j <= i /\ Raises(snap, FALSE, cards[j])
  <2>1. PICK j \in DOMAIN cards : j <= i /\ Raises(snap, FALSE, cards[j])
    BY <1>4
  <2>2. j \in 1..i
    BY <1>1, <1>2, <2>1 DEF CardsOK
  <2>3. Raises(snap, TRUE, cards[j])
    BY <2>1, RaisesAnyway
  <2>4. Raises(snap, TRUE, cards'[j])
    BY <1>2, <2>1, <2>3, SameRaises
  <2> QED
    BY <2>2, <2>4
<1> QED
  BY <1>2, <1>3, <1>4

LEMMA PollOpFact ==
  ASSUME stage \in 1..5
  PROVE  PollOps[stage] \in {"list_lights", "get_climate", "get_temperature", "get_sensors", "get_kettle"}
<1>1. stage = 1 \/ stage = 2 \/ stage = 3 \/ stage = 4 \/ stage = 5
  OBVIOUS
<1>2. /\ PollOps[1] = "list_lights" /\ PollOps[2] = "get_climate" /\ PollOps[3] = "get_temperature"
      /\ PollOps[4] = "get_sensors" /\ PollOps[5] = "get_kettle"
  BY DEF PollOps
<1> QED
  BY <1>1, <1>2

LEMMA NothingReadOK == GotOK(NothingRead)
<1>1. IsSnapSet(NothingRead) /\ NothingRead.lights = {} /\ NothingRead.zones = {}
      /\ NothingRead.kettle = {} /\ NothingRead.sensors = {}
  BY DEF NothingRead, IsSnapSet
<1> QED
  BY <1>1, FS_EmptySet DEF GotOK

\* What does not touch the cards keeps what they show.
LEMMA CardsStay ==
  ASSUME EntitiesInv, cards' = cards, data' = data, healthy' = healthy
  PROVE  /\ data' = {} \/ \E snap : data' = {snap}
         /\ data' = {} => cards' = <<>>
         /\ CardsOK' /\ UnavailableTogether' /\ (FloorsNamedApart => ZoneShowsOwnFloor')
<1>1. CardsOK'
  BY DEF EntitiesInv, CardsOK, IsCard
<1>2. UnavailableTogether'
  BY DEF EntitiesInv, UnavailableTogether, Broken
<1>3. FloorsNamedApart => ZoneShowsOwnFloor'
  BY DEF EntitiesInv, ZoneShowsOwnFloor
<1> QED
  BY <1>1, <1>2, <1>3 DEF EntitiesInv

LEMMA PollEndsInv ==
  ASSUME EntitiesInv, PollEnds
  PROVE  EntitiesInv'
<1> DEFINE g == WithAnswer(PollOps[stage])
           snap == FromOps(g)
<1>1. stage \in 1..5
  BY DEF PollEnds, PollOps
<1>2. GotOK(g)
  BY <1>1, PollOpFact, WithAnswerFact DEF EntitiesInv
<1> HIDE DEF g
<1>3. /\ data' = {snap} /\ cards' = (IF data = {} THEN NewCards(snap) ELSE Handled(snap, TRUE))
      /\ healthy' = TRUE /\ stage' = 0 /\ got' = NothingRead /\ catalog' = catalog
  BY DEF PollEnds, g, server
<1>4. CardsOK'
  <2>1. CASE data = {}
    BY <1>2, <1>3, <2>1, NewCardsFact
  <2>2. CASE data # {}
    BY <1>3, <2>2, CardsHandled DEF EntitiesInv
  <2> QED
    BY <2>1, <2>2
<1>5. UnavailableTogether'
  BY <1>3 DEF UnavailableTogether
<1>6. FloorsNamedApart => ZoneShowsOwnFloor'
  <2> SUFFICES ASSUME FloorsNamedApart, NEW z \in snap.climates, NEW s \in snap.sensors,
                      s.name = <<"temp">> \o z.room
               PROVE  z.floor_temp = s.value
    BY <1>3 DEF ZoneShowsOwnFloor
  <2> QED
    BY <1>2, OwnFloorFact
<1>7. GotOK(got')
  BY <1>3, NothingReadOK
<1>8. /\ catalog' \subseteq Objects /\ stage' \in 0..5 /\ (data' = {} \/ \E d : data' = {d})
      /\ (data' = {} => cards' = <<>>)
  <2> HIDE DEF snap
  <2>1. data' # {} /\ stage' \in 0..5 /\ \E d : data' = {d}
    BY <1>3
  <2>2. catalog' \subseteq Objects
    BY <1>3 DEF EntitiesInv
  <2> QED
    BY <2>1, <2>2
<1> QED
  BY <1>4, <1>5, <1>6, <1>7, <1>8 DEF EntitiesInv, GotOK, IsSnapSet

LEMMA PollFailsInv ==
  ASSUME EntitiesInv, PollFails
  PROVE  EntitiesInv'
<1>1. /\ healthy' = FALSE /\ data' = data /\ stage' = 0 /\ got' = NothingRead /\ catalog' = catalog
      /\ cards' = IF healthy /\ data # {} THEN Handled(CHOOSE d \in data : TRUE, FALSE) ELSE cards
  BY DEF PollFails, server
<1>2. CardsOK' /\ (data' = {} => cards' = <<>>) /\ UnavailableTogether'
  <2>1. CASE healthy /\ data # {}
    <3>1. PICK snap : data = {snap}
      BY <2>1 DEF EntitiesInv
    <3>2. cards' = Handled(snap, FALSE)
      BY <1>1, <2>1, <3>1
    <3>3. CardsOK /\ data' # {}
      BY <1>1, <2>1 DEF EntitiesInv
    <3>4. CardsOK'
      BY <3>2, <3>3, CardsHandled
    <3>5. UnavailableTogether'
      BY <1>1, <3>1, <3>2, <3>3, DownTogether
    <3> QED
      BY <3>3, <3>4, <3>5
  <2>2. CASE data = {}
    <3>1. cards' = <<>> /\ cards = <<>>
      BY <1>1, <2>2 DEF EntitiesInv
    <3>2. CardsOK'
      BY <3>1 DEF EntitiesInv, CardsOK, IsCard
    <3>3. UnavailableTogether'
      <4>1. DOMAIN cards' = {}
        BY <3>1
      <4> QED
        BY <4>1 DEF UnavailableTogether
    <3> QED
      BY <3>1, <3>2, <3>3
  <2>3. CASE ~healthy /\ data # {}
    <3>1. cards' = cards
      BY <1>1, <2>3
    <3>2. CardsOK'
      BY <3>1 DEF EntitiesInv, CardsOK, IsCard
    <3>3. UnavailableTogether'
      BY <1>1, <2>3, <3>1 DEF EntitiesInv, UnavailableTogether, Broken
    <3> QED
      BY <1>1, <2>3, <3>2, <3>3
  <2> QED
    BY <2>1, <2>2, <2>3
<1>3. FloorsNamedApart => ZoneShowsOwnFloor'
  BY <1>1 DEF EntitiesInv, ZoneShowsOwnFloor
<1>4. GotOK(got') /\ catalog' \subseteq Objects /\ stage' \in 0..5 /\ (data' = {} \/ \E d : data' = {d})
  <2>1. GotOK(got')
    BY <1>1, NothingReadOK
  <2>2. catalog' \subseteq Objects /\ (data' = {} \/ \E d : data' = {d})
    BY <1>1 DEF EntitiesInv
  <2>3. stage' \in 0..5
    BY <1>1
  <2> QED
    BY <2>1, <2>2, <2>3
<1> QED
  BY <1>2, <1>3, <1>4 DEF EntitiesInv, GotOK, IsSnapSet

LEMMA AskInv ==
  ASSUME EntitiesInv, NEW i \in DOMAIN cards, NEW value, Ask(i, value)
  PROVE  EntitiesInv'
<1>1. /\ healthy /\ healthy' = healthy /\ data' = data /\ stage' = stage /\ got' = got /\ catalog' = catalog
      /\ \E s : cards' = [cards EXCEPT ![i].pending = value, ![i].shown = s]
  <2>1. cards' = [cards EXCEPT ![i].pending = value,
                               ![i].shown = IF cards[i].kind = "zone" /\ ItemOf(CHOOSE d \in data : TRUE, cards[i]) = {}
                                            THEN cards[i].shown ELSE value]
    BY DEF Ask
  <2> QED
    BY <2>1 DEF Ask, server
<1>2. PICK s : cards' = [cards EXCEPT ![i].pending = value, ![i].shown = s]
  BY <1>1
<1> DEFINE c == cards[i]
           d == [c EXCEPT !.pending = value, !.shown = s]
<1>3. cards' = [j \in DOMAIN cards |-> IF j = i THEN d ELSE cards[j]]
  BY <1>2 DEF EntitiesInv, CardsOK
<1>4. IsCard(d)
  <2>1. IsCard(c)
    BY DEF EntitiesInv, CardsOK
  <2>2. d = [c EXCEPT !.pending = value, !.shown = s]
    OBVIOUS
  <2> HIDE DEF c, d
  <2>3. d = [kind |-> c.kind, name |-> c.name, pending |-> value, gas |-> c.gas, shown |-> s]
    BY <2>1, <2>2 DEF IsCard
  <2> QED
    BY <2>3 DEF IsCard
<1> HIDE DEF d
<1>5. CardsOK'
  BY <1>3, <1>4 DEF EntitiesInv, CardsOK, IsCard
<1>6. data # {}
  BY DEF EntitiesInv
<1>7. FloorsNamedApart => ZoneShowsOwnFloor'
  BY <1>1 DEF EntitiesInv, ZoneShowsOwnFloor
<1>8. UnavailableTogether'
  BY <1>1 DEF UnavailableTogether
<1> QED
  BY <1>1, <1>5, <1>6, <1>7, <1>8 DEF EntitiesInv, GotOK, IsSnapSet

LEMMA EntitiesStep ==
  ASSUME EntitiesInv, [Next]_vars
  PROVE  EntitiesInv'
<1>1. ASSUME cards' = cards, data' = data, healthy' = healthy, got' = got, stage' \in 0..5,
             catalog' \subseteq catalog
      PROVE  EntitiesInv'
  BY <1>1, CardsStay DEF EntitiesInv, GotOK, IsSnapSet
<1>2. CASE PollStarts
  BY <1>1, <1>2 DEF PollStarts, server
<1>3. CASE PollReads
  <2>1. /\ stage \in 1..4 /\ stage' = stage + 1 /\ got' = WithAnswer(PollOps[stage])
        /\ cards' = cards /\ data' = data /\ healthy' = healthy /\ catalog' = catalog
    BY <1>3 DEF PollReads, PollOps, server
  <2>2. GotOK(got')
    BY <2>1, PollOpFact, WithAnswerFact DEF EntitiesInv
  <2>3. stage' \in 0..5 /\ catalog' \subseteq Objects
    BY <2>1 DEF EntitiesInv
  <2> QED
    BY <2>1, <2>2, <2>3, CardsStay DEF EntitiesInv, GotOK, IsSnapSet
<1>4. CASE PollEnds
  BY <1>4, PollEndsInv
<1>5. CASE PollFails
  BY <1>5, PollFailsInv
<1>6. ASSUME NEW i \in DOMAIN cards, NEW value, Ask(i, value)
      PROVE  EntitiesInv'
  BY <1>6, AskInv
<1>7. ASSUME NEW i \in DOMAIN cards, NEW value, Rival(i, value)
      PROVE  EntitiesInv'
  BY <1>1, <1>7 DEF Rival, EntitiesInv
<1>8. ASSUME NEW n \in calls, NEW fails \in BOOLEAN, Serve(n, fails)
      PROVE  EntitiesInv'
  <2>1. /\ catalog' = catalog /\ stage' = stage /\ got' = got /\ data' = data /\ healthy' = healthy
        /\ cards' = cards
    BY <1>8 DEF Serve
  <2> QED
    BY <1>1, <2>1 DEF EntitiesInv
<1>9. CASE Report
  BY <1>1, <1>9 DEF Report, EntitiesInv
<1>10. ASSUME NEW o \in Objects, Lose(o)
       PROVE  EntitiesInv'
  BY <1>1, <1>10 DEF Lose, EntitiesInv
<1>11. CASE UNCHANGED vars
  BY <1>1, <1>11 DEF vars, server, EntitiesInv
<1> QED
  BY <1>2, <1>3, <1>4, <1>5, <1>6, <1>7, <1>8, <1>9, <1>10, <1>11 DEF Next

LEMMA EntitiesInvariant == Spec => []EntitiesInv
<1>1. Init => EntitiesInv
  <2> SUFFICES ASSUME Init
               PROVE  EntitiesInv
    OBVIOUS
  <2>1. /\ catalog = Objects /\ stage = 1 /\ got = NothingRead /\ data = {} /\ healthy = TRUE /\ cards = <<>>
    BY DEF Init
  <2>2. CardsOK
    BY <2>1 DEF CardsOK
  <2> QED
    BY <2>1, <2>2, NothingReadOK DEF EntitiesInv, UnavailableTogether, ZoneShowsOwnFloor
<1>2. EntitiesInv /\ [Next]_vars => EntitiesInv'
  BY EntitiesStep
<1> QED
  BY <1>1, <1>2, PTL DEF Spec

\* While the server does not answer, all cards are unavailable, but for those
\* behind a card whose item is gone (entity.py, coordinator.py).
THEOREM CardsGoDownTogether == Spec => []UnavailableTogether
<1>1. EntitiesInv => UnavailableTogether
  BY DEF EntitiesInv
<1> QED
  BY <1>1, EntitiesInvariant, PTL

\* Where floor sensors are named apart, a zone shows the one of its own name,
\* whatever the resolver takes for the zone's (snapshot.py, _zone_floor_sensor).
THEOREM OwnFloorShown == FloorsNamedApart => (Spec => []ZoneShowsOwnFloor)
<1> SUFFICES ASSUME FloorsNamedApart
             PROVE  Spec => []ZoneShowsOwnFloor
  OBVIOUS
<1>1. EntitiesInv => ZoneShowsOwnFloor
  BY DEF EntitiesInv
<1> QED
  BY <1>1, EntitiesInvariant, PTL
-----------------------------------------------------------------------------
(* HaEntities: what was asked and what was read.                           *)

AsksOK == \E S : asks \in Seq(S)

LEMMA AskedMore ==
  ASSUME NEW S, NEW s \in Seq(S), NEW x
  PROVE  /\ Append(s, x) \in Seq(S \cup {x}) /\ DOMAIN Append(s, x) = 1..(Len(s) + 1)
         /\ DOMAIN s = 1..Len(s) /\ Len(s) \in Nat
         /\ Append(s, x)[Len(s) + 1] = x /\ \A k \in 1..Len(s) : Append(s, x)[k] = s[k]
<1>1. s \in Seq(S \cup {x}) /\ x \in S \cup {x}
  OBVIOUS
<1> QED
  BY <1>1

\* What a card knows depends on its kind and name only.
LEMMA SameActual ==
  ASSUME NEW snap, NEW c, NEW d, c.kind = d.kind, c.name = d.name
  PROVE  Actual(snap, c) = Actual(snap, d)
<1>1. ItemOf(snap, c) = ItemOf(snap, d)
  BY DEF ItemOf
<1> QED
  BY <1>1 DEF Actual

LEMMA HandledShows ==
  ASSUME CardsOK, NEW snap, NEW ok, NEW i \in DOMAIN cards
  PROVE  /\ Handled(snap, ok)[i].pending \in {cards[i].pending, "none"}
         /\ \/ Handled(snap, ok)[i].shown = Written(snap, ok, cards[i], Handled(snap, ok)[i].pending)
            \/ \E j \in DOMAIN cards : j <= i /\ Raises(snap, ok, cards[j])
<1> DEFINE stop == {j \in DOMAIN cards : Raises(snap, ok, cards[j])}
           p == Settled(snap, cards[i])
           w == Written(snap, ok, cards[i], p)
           c == cards[i]
           d == Handled(snap, ok)[i]
<1>1. d = IF \E j \in stop : j <= i THEN c ELSE [c EXCEPT !.pending = p, !.shown = w]
  BY DEF Handled
<1>2. IsCard(c)
  BY DEF CardsOK
<1>3. p \in {c.pending, "none"}
  BY DEF Settled
<1>4. CASE \E j \in stop : j <= i
  BY <1>1, <1>4
<1>5. CASE ~\E j \in stop : j <= i
  <2>1. d = [c EXCEPT !.pending = p, !.shown = w]
    BY <1>1, <1>5
  <2> HIDE DEF p, w, c, d
  <2>2. d = [kind |-> c.kind, name |-> c.name, pending |-> p, gas |-> c.gas, shown |-> w]
    BY <1>2, <2>1 DEF IsCard
  <2>3. d.pending = p /\ d.shown = w
    BY <2>2
  <2>4. d.pending \in {c.pending, "none"} /\ d.shown = Written(snap, ok, c, d.pending)
    BY <1>3, <2>3 DEF w, c
  <2> QED
    BY <2>4 DEF c, d
<1> QED
  BY <1>4, <1>5

\* A card that the coordinator could not tell is behind one that raised.
LEMMA BehindBroken ==
  ASSUME CardsOK, NEW snap, data' = {snap}, DOMAIN cards' = DOMAIN cards,
         \A j \in DOMAIN cards : cards'[j].kind = cards[j].kind /\ cards'[j].name = cards[j].name,
         NEW i \in DOMAIN cards, NEW j \in DOMAIN cards, j <= i, Raises(snap, TRUE, cards[j])
  PROVE  Broken(i)'
<1>1. Raises(snap, TRUE, cards'[j])
  BY SameRaises
<1>2. j \in 1..i
  BY DEF CardsOK
<1> QED
  BY <1>1, <1>2 DEF Broken

LEMMA BrokenStays ==
  ASSUME data' = data, DOMAIN cards' = DOMAIN cards, CardsOK,
         \A j \in DOMAIN cards : cards'[j].kind = cards[j].kind /\ cards'[j].name = cards[j].name,
         NEW i \in DOMAIN cards, Broken(i)
  PROVE  Broken(i)'
<1>1. PICK snap \in data, j \in 1..i : Raises(snap, TRUE, cards[j])
  BY DEF Broken
<1>2. j \in DOMAIN cards
  <2>1. PICK n \in Nat : DOMAIN cards = 1..n
    BY DEF CardsOK
  <2> QED
    BY <2>1
<1>3. Raises(snap, TRUE, cards'[j])
  BY <1>1, <1>2, SameRaises
<1> QED
  BY <1>1, <1>3 DEF Broken

\* A poll that ends.
LEMMA PollEndsShows ==
  ASSUME EntitiesInv, ShowsAskedOrRead, PollEnds
  PROVE  ShowsAskedOrRead'
<1> DEFINE snap == FromOps(WithAnswer(PollOps[stage]))
<1>1. /\ data' = {snap} /\ asks' = asks
      /\ cards' = (IF data = {} THEN NewCards(snap) ELSE Handled(snap, TRUE))
  BY DEF PollEnds
<1> HIDE DEF snap
<1>2. CASE data = {}
  <2> DEFINE new == CardsOf(snap)
  <2>1. cards' = [i \in DOMAIN new |->
                    [kind |-> new[i].kind, name |-> new[i].name, pending |-> "none",
                     gas |-> {o.ga : o \in ShownObject(new[i])},
                     shown |-> Written(snap, TRUE, new[i], "none")]]
    BY <1>1, <1>2 DEF NewCards
  <2> HIDE DEF new
  <2>2. ASSUME NEW i \in DOMAIN cards'
        PROVE  /\ cards'[i].pending = "none"
               /\ cards'[i].shown = Written(snap, TRUE, cards'[i], cards'[i].pending)
    <3> DEFINE c == cards'[i]
               e == new[i]
    <3>1. /\ c.kind = e.kind /\ c.name = e.name /\ c.pending = "none"
          /\ c.shown = Written(snap, TRUE, e, "none")
      BY <2>1
    <3> HIDE DEF c, e
    <3>2. Actual(snap, e) = Actual(snap, c)
      BY <3>1, SameActual
    <3>3. Written(snap, TRUE, e, "none") = Written(snap, TRUE, c, "none")
      BY <3>1, <3>2 DEF Written
    <3>4. c.pending = "none" /\ c.shown = Written(snap, TRUE, c, c.pending)
      BY <3>1, <3>3
    <3> QED
      BY <3>4 DEF c
  <2>3. WaitsForLastAsk'
    BY <2>2 DEF WaitsForLastAsk
  <2>4. ShowsWhatItKnows'
    BY <1>1, <2>2 DEF ShowsWhatItKnows
  <2> QED
    BY <2>3, <2>4 DEF ShowsAskedOrRead
<1>3. CASE data # {}
  <2> DEFINE h == Handled(snap, TRUE)
  <2>1. CardsOK /\ cards' = h
    BY <1>1, <1>3 DEF EntitiesInv
  <2>2. DOMAIN h = DOMAIN cards /\ \A i \in DOMAIN cards : h[i].kind = cards[i].kind /\ h[i].name = cards[i].name
    BY <2>1, HandledFact, ZenonT(30)
  <2>3. ASSUME NEW i \in DOMAIN cards
        PROVE  /\ h[i].pending \in {cards[i].pending, "none"}
               /\ \/ h[i].shown = Written(snap, TRUE, cards[i], h[i].pending)
                  \/ \E j \in DOMAIN cards : j <= i /\ Raises(snap, TRUE, cards[j])
    BY <2>1, HandledShows
  <2> HIDE DEF h
  <2>4. ASSUME NEW i \in DOMAIN cards'
        PROVE  Broken(i)' \/ cards'[i].shown = Written(snap, TRUE, cards'[i], cards'[i].pending)
    <3>1. i \in DOMAIN cards
      BY <2>1, <2>2
    <3>2. CASE h[i].shown = Written(snap, TRUE, cards[i], h[i].pending)
      <4> DEFINE a == cards[i]
                 b == h[i]
                 p == b.pending
      <4>1. a.kind = b.kind /\ a.name = b.name
        BY <2>2, <3>1
      <4> HIDE DEF a, b, p
      <4>2. Actual(snap, a) = Actual(snap, b)
        BY <4>1, SameActual
      <4>3. Written(snap, TRUE, a, p) = Written(snap, TRUE, b, p)
        BY <4>1, <4>2 DEF Written
      <4> QED
        BY <2>1, <3>2, <4>3 DEF a, b, p
    <3>3. CASE \E j \in DOMAIN cards : j <= i /\ Raises(snap, TRUE, cards[j])
      BY <1>1, <2>1, <2>2, <3>1, <3>3, BehindBroken
    <3> QED
      BY <2>3, <3>1, <3>2, <3>3
  <2>5. ASSUME NEW i \in DOMAIN cards', cards'[i].pending # "none"
        PROVE  \E k \in DOMAIN asks : LastAsk(k) /\ asks[k].card = i /\ asks[k].value = cards'[i].pending
    <3>1. i \in DOMAIN cards /\ cards'[i].pending = cards[i].pending
      BY <2>1, <2>2, <2>3, <2>5
    <3>2. cards[i].pending # "none"
      BY <2>5, <3>1
    <3> QED
      BY <3>1, <3>2 DEF ShowsAskedOrRead, WaitsForLastAsk
  <2>6. ASSUME NEW i \in DOMAIN cards', cards'[i].pending # "none"
        PROVE  \E k \in DOMAIN asks' : LastAsk(k)' /\ asks'[k].card = i /\ asks'[k].value = cards'[i].pending
    BY <1>1, <2>5, <2>6 DEF LastAsk
  <2>7. ASSUME NEW i \in DOMAIN cards', NEW t \in data', healthy'
        PROVE  Broken(i)' \/ cards'[i].shown = Written(t, TRUE, cards'[i], cards'[i].pending)
    BY <1>1, <2>4, <2>7
  <2> QED
    BY <2>6, <2>7 DEF ShowsAskedOrRead, WaitsForLastAsk, ShowsWhatItKnows
<1> QED
  BY <1>2, <1>3

\* A poll that fails.
LEMMA PollFailsShows ==
  ASSUME EntitiesInv, ShowsAskedOrRead, PollFails
  PROVE  ShowsAskedOrRead'
<1>1. /\ healthy' = FALSE /\ asks' = asks
      /\ cards' = IF healthy /\ data # {} THEN Handled(CHOOSE d \in data : TRUE, FALSE) ELSE cards
  BY DEF PollFails
<1>2. DOMAIN cards' = DOMAIN cards /\ \A i \in DOMAIN cards : cards'[i].pending \in {cards[i].pending, "none"}
  <2> DEFINE d == CHOOSE d \in data : TRUE
             h == Handled(d, FALSE)
  <2>1. CardsOK
    BY DEF EntitiesInv
  <2>2. DOMAIN h = DOMAIN cards
    BY <2>1, HandledFact, ZenonT(30)
  <2>3. ASSUME NEW i \in DOMAIN cards
        PROVE  h[i].pending \in {cards[i].pending, "none"}
    BY <2>1, HandledShows
  <2>4. cards' = h \/ cards' = cards
    BY <1>1
  <2> HIDE DEF h
  <2> QED
    BY <2>2, <2>3, <2>4
<1>3. ASSUME NEW i \in DOMAIN cards', cards'[i].pending # "none"
      PROVE  \E k \in DOMAIN asks : LastAsk(k) /\ asks[k].card = i /\ asks[k].value = cards'[i].pending
  <2>1. i \in DOMAIN cards /\ cards'[i].pending = cards[i].pending
    BY <1>2, <1>3
  <2>2. cards[i].pending # "none"
    BY <1>3, <2>1
  <2> QED
    BY <2>1, <2>2 DEF ShowsAskedOrRead, WaitsForLastAsk
<1> QED
  <2>1. WaitsForLastAsk'
    BY <1>1, <1>3 DEF WaitsForLastAsk, LastAsk
  <2>2. ShowsWhatItKnows'
    BY <1>1 DEF ShowsWhatItKnows
  <2> QED
    BY <2>1, <2>2 DEF ShowsAskedOrRead

\* A person asks (entity.py, async_call_op: the card first shows what was asked).
LEMMA AskShows ==
  ASSUME EntitiesInv, AsksOK, ShowsAskedOrRead,
         NEW i \in DOMAIN cards, NEW value \in Degrees \cup {"on", "off"}, Ask(i, value)
  PROVE  AsksOK' /\ ShowsAskedOrRead'
<1>1. PICK S : asks \in Seq(S)
  BY DEF AsksOK
<1> DEFINE x == [card |-> i, value |-> value]
<1>0. PICK n : n = Len(asks) + 1
  OBVIOUS
<1>2. x.card = i /\ x.value = value
  OBVIOUS
<1>3. asks' = Append(asks, x)
  BY DEF Ask
<1> HIDE DEF x
<1>4. /\ asks' \in Seq(S \cup {x}) /\ DOMAIN asks' = 1..n
      /\ DOMAIN asks = 1..Len(asks) /\ Len(asks) \in Nat /\ n = Len(asks) + 1
      /\ asks'[n] = x /\ \A k \in 1..Len(asks) : asks'[k] = asks[k]
  BY <1>0, <1>1, <1>3, AskedMore
<1>5. PICK snap : data = {snap}
  BY DEF EntitiesInv
<1> DEFINE raises == cards[i].kind = "zone" /\ ItemOf(snap, cards[i]) = {}
           c == cards[i]
           s == IF raises THEN c.shown ELSE value
<1>6. data' = data /\ cards' = [cards EXCEPT ![i].pending = value, ![i].shown = s]
  <2>1. (CHOOSE d \in data : TRUE) = snap
    BY <1>5
  <2>2. cards' = [cards EXCEPT ![i].pending = value,
                    ![i].shown = IF cards[i].kind = "zone" /\ ItemOf(CHOOSE d \in data : TRUE, cards[i]) = {}
                                 THEN cards[i].shown ELSE value]
    BY DEF Ask
  <2> QED
    BY <2>1, <2>2 DEF Ask
<1> DEFINE e == [c EXCEPT !.pending = value, !.shown = s]
<1>7. cards' = [j \in DOMAIN cards |-> IF j = i THEN e ELSE cards[j]]
  BY <1>6 DEF EntitiesInv, CardsOK
<1>8. /\ e.kind = c.kind /\ e.name = c.name /\ e.pending = value /\ e.shown = s
  <2>1. IsCard(c)
    BY DEF EntitiesInv, CardsOK
  <2>2. e = [c EXCEPT !.pending = value, !.shown = s]
    OBVIOUS
  <2> HIDE DEF e, c, s
  <2>3. e = [kind |-> c.kind, name |-> c.name, pending |-> value, gas |-> c.gas, shown |-> s]
    BY <2>1, <2>2 DEF IsCard
  <2> QED
    BY <2>3
<1> HIDE DEF e
<1>9. /\ DOMAIN cards' = DOMAIN cards /\ cards'[i] = e
      /\ \A j \in DOMAIN cards : cards'[j].kind = cards[j].kind /\ cards'[j].name = cards[j].name
  BY <1>7, <1>8
<1>10. \A j \in DOMAIN cards : j # i => cards'[j] = cards[j]
  BY <1>7
<1>11. value # "none"
  BY HaOK
<1>12. ASSUME NEW j \in DOMAIN cards, j # i, cards[j].pending # "none"
       PROVE  \E k \in DOMAIN asks' : LastAsk(k)' /\ asks'[k].card = j /\ asks'[k].value = cards'[j].pending
  <2>1. PICK k \in DOMAIN asks : LastAsk(k) /\ asks[k].card = j /\ asks[k].value = cards[j].pending
    BY <1>12 DEF ShowsAskedOrRead, WaitsForLastAsk
  <2>2. k \in DOMAIN asks' /\ asks'[k] = asks[k]
    BY <1>4
  <2>3. ASSUME NEW l \in DOMAIN asks', asks'[l].card = asks'[k].card
        PROVE  l <= k
    <3>1. l # n
      BY <1>2, <1>4, <1>12, <2>1, <2>2, <2>3
    <3>2. l \in DOMAIN asks /\ asks'[l] = asks[l]
      BY <1>4, <3>1
    <3> QED
      BY <2>1, <2>2, <2>3, <3>2 DEF LastAsk
  <2>4. LastAsk(k)'
    BY <2>3 DEF LastAsk
  <2> QED
    BY <1>10, <1>12, <2>1, <2>2, <2>4
<1>13. LastAsk(n)' /\ n \in DOMAIN asks' /\ asks'[n].card = i /\ asks'[n].value = value
  BY <1>2, <1>4 DEF LastAsk
<1>14. ASSUME NEW j \in DOMAIN cards'
       PROVE  Broken(j)' \/ cards'[j].shown = Written(snap, TRUE, cards'[j], cards'[j].pending)
  <2>1. CardsOK /\ data' = {snap} /\ j \in DOMAIN cards
    BY <1>5, <1>6, <1>9 DEF EntitiesInv
  <2>2. CASE j = i /\ raises
    <3>1. Raises(snap, TRUE, cards[i]) /\ i <= i
      BY <2>1, <2>2 DEF Raises, CardsOK
    <3> QED
      BY <1>9, <2>1, <2>2, <3>1, BehindBroken
  <2>3. CASE j = i /\ ~raises
    BY <1>8, <1>9, <1>11, <2>3 DEF Written
  <2>4. CASE j # i
    <3>1. healthy
      BY DEF Ask
    <3>2. Broken(j) \/ cards[j].shown = Written(snap, TRUE, cards[j], cards[j].pending)
      BY <1>5, <2>1, <3>1 DEF ShowsAskedOrRead, ShowsWhatItKnows
    <3>3. ASSUME Broken(j)
          PROVE  Broken(j)'
      BY <1>5, <1>9, <2>1, <3>3, BrokenStays
    <3> QED
      BY <1>10, <2>1, <2>4, <3>2, <3>3
  <2> QED
    BY <2>2, <2>3, <2>4
<1>15. AsksOK'
  BY <1>4 DEF AsksOK
<1>16. ASSUME NEW j \in DOMAIN cards', cards'[j].pending # "none"
       PROVE  \E k \in DOMAIN asks' : LastAsk(k)' /\ asks'[k].card = j /\ asks'[k].value = cards'[j].pending
  <2>1. CASE j = i
    <3>1. cards'[j].pending = value
      BY <1>8, <1>9, <2>1
    <3> QED
      BY <1>13, <2>1, <3>1
  <2>2. CASE j # i
    BY <1>9, <1>10, <1>12, <1>16, <2>2
  <2> QED
    BY <2>1, <2>2
<1> QED
  <2>1. data' = {snap}
    BY <1>5, <1>6
  <2>2. WaitsForLastAsk'
    BY <1>16 DEF WaitsForLastAsk
  <2>3. ShowsWhatItKnows'
    BY <1>14, <2>1 DEF ShowsWhatItKnows
  <2> QED
    BY <1>15, <2>2, <2>3 DEF ShowsAskedOrRead

LEMMA ShowsStep ==
  ASSUME EntitiesInv, AsksOK, ShowsAskedOrRead, [Next]_vars
  PROVE  AsksOK' /\ ShowsAskedOrRead'
<1>1. ASSUME UNCHANGED <<cards, data, healthy, asks>>
      PROVE  AsksOK' /\ ShowsAskedOrRead'
  BY <1>1 DEF AsksOK, ShowsAskedOrRead, WaitsForLastAsk, ShowsWhatItKnows, LastAsk, Broken
<1>2. CASE PollStarts \/ PollReads \/ Report \/ UNCHANGED vars
  BY <1>1, <1>2 DEF PollStarts, PollReads, Report, vars
<1>3. CASE PollEnds
  <2>1. asks' = asks
    BY <1>3 DEF PollEnds
  <2> QED
    BY <1>3, <2>1, PollEndsShows DEF AsksOK
<1>4. CASE PollFails
  <2>1. asks' = asks
    BY <1>4 DEF PollFails
  <2> QED
    BY <1>4, <2>1, PollFailsShows DEF AsksOK
<1>5. ASSUME NEW i \in DOMAIN cards, NEW value \in Degrees \cup {"on", "off"}, Ask(i, value)
      PROVE  AsksOK' /\ ShowsAskedOrRead'
  BY <1>5, AskShows
<1>6. ASSUME NEW i \in DOMAIN cards, NEW value, Rival(i, value)
      PROVE  AsksOK' /\ ShowsAskedOrRead'
  BY <1>1, <1>6 DEF Rival
<1>7. ASSUME NEW n \in calls, NEW fails \in BOOLEAN, Serve(n, fails)
      PROVE  AsksOK' /\ ShowsAskedOrRead'
  <2>1. UNCHANGED <<cards, data, healthy, asks>>
    BY <1>7 DEF Serve
  <2> QED
    BY <1>1, <2>1
<1>8. ASSUME NEW o \in Objects, Lose(o)
      PROVE  AsksOK' /\ ShowsAskedOrRead'
  BY <1>1, <1>8 DEF Lose
<1> QED
  BY <1>2, <1>3, <1>4, <1>5, <1>6, <1>7, <1>8 DEF Next

\* A card waits for what was last asked of it, and shows that or what the last
\* poll found (entity.py: _pending_on, _settle_pending, async_call_op), for any
\* number of requests, polls, failures and changes by others in any order.
THEOREM CardsShowAskedOrRead == Spec => []ShowsAskedOrRead
<1>1. Init => AsksOK /\ ShowsAskedOrRead
  <2> SUFFICES ASSUME Init
               PROVE  AsksOK /\ ShowsAskedOrRead
    OBVIOUS
  <2>1. asks = <<>> /\ cards = <<>>
    BY DEF Init
  <2>2. asks \in Seq({}) /\ DOMAIN cards = {}
    BY <2>1
  <2> QED
    BY <2>1, <2>2 DEF AsksOK, ShowsAskedOrRead, WaitsForLastAsk, ShowsWhatItKnows
<1>2. EntitiesInv /\ AsksOK /\ ShowsAskedOrRead /\ [Next]_vars => (AsksOK /\ ShowsAskedOrRead)'
  BY ShowsStep
<1> QED
  BY <1>1, <1>2, EntitiesInvariant, PTL DEF Spec
=============================================================================
