---------------------------- MODULE ObjectResolver ----------------------------
(***************************************************************************)
(* services/object_resolver.py: from what a person calls a thing to the    *)
(* group addresses of a house.  Pure operators; AgentActions uses them.    *)
(*                                                                         *)
(* A text is a sequence of words: the substring tests of the code become   *)
(* tests for words in a row, and what pymorphy and the synonym table make  *)
(* of a word is the constant Canon.  A group address is <<main, middle,    *)
(* sub>>.                                                                  *)
(***************************************************************************)
EXTENDS Integers, FiniteSets, Sequences

CONSTANTS
  Word,          \* the words of names and queries
  Tag,           \* the tags of objects; "1floor" and so on are both
  Canon,         \* _normalized_lemmas of one word: itself, lemma, synonyms
  StopLemmas,    \* _STOP_LEMMAS and words shorter than three letters
  Ordinal,       \* floor tag named by a word that stands before "etazh"
  OutsideWords,  \* words that _query_matches expands to the tag "outside"
  ZoneWords      \* words that make _is_zone_query true by themselves

ASSUME WordsOK ==
  /\ Canon \in [Word -> SUBSET Word]
  /\ StopLemmas \subseteq Word
  /\ DOMAIN Ordinal \subseteq Word /\ \A w \in DOMAIN Ordinal : Ordinal[w] \in Tag
  /\ OutsideWords \subseteq Word /\ ZoneWords \subseteq Word

Words(text) == {text[i] : i \in 1..Len(text)}

\* The words of part stand in text in a row.
InARow(text, part) ==
  \E i \in 0..(Len(text) - Len(part)) : SubSeq(text, i + 1, i + Len(part)) = part

LastWord(text) == IF text = <<>> THEN "" ELSE text[Len(text)]

-----------------------------------------------------------------------------
(* What an object is                                                       *)

AutoHeatingGA == <<1, 7, 1>>
MasterGA      == <<1, 6, 1>>
KettleGA      == <<33, 1, 39>>

Roles == {"light_control", "light_status", "floor_temp", "room_temp",
          "room_humidity", "room_battery", "climate_setpoint",
          "heat_relay_control", "heat_relay_status", "auto_heating", "energy",
          "heating_diag", "weather", "zigbee_appliance", "sensor", "other"}

IsAppliance(o) ==
  \/ "teapot" \in o.tags
  \/ Words(o.name) \cap {"chainik", "kettle", "teapot"} # {}
  \/ {"zigbee", "zigbee_send"} \subseteq o.tags
  \/ "ble" \in o.tags /\ o.tags \cap {"zigbee_send", "control"} # {}

\* The rules in the order of the code, each with the role it gives.
ClassRules(o) ==
  LET has(tags) == tags \subseteq o.tags
  IN << <<"auto_heating", o.ga = AutoHeatingGA \/ has({"auto", "heat"})>>,
        <<"heating_diag", o.ga[1] = 34 /\ o.ga[2] = 1 /\ has({"monitoring"})>>,
        <<"light_control", has({"control", "light"})>>,
        <<"light_status", has({"status", "light"})>>,
        <<"climate_setpoint", has({"setpoint", "heat"})>>,
        <<"heat_relay_control", has({"control", "heat"})>>,
        <<"heat_relay_status", has({"status", "heat"})>>,
        <<"floor_temp", o.ga[1] = 1 /\ o.ga[2] = 3 /\ has({"temp", "heat"})>>,
        <<"room_temp", has({"temperature", "zb_sensor"})>>,
        <<"room_humidity", has({"humidity", "zb_sensor"})>>,
        <<"room_battery", has({"zb_sensor"})
                          /\ (has({"battery"}) \/ LastWord(o.name) = "battery")>>,
        <<"weather", has({"weather"})>>,
        <<"energy", has({"meter"})>>,
        <<"zigbee_appliance", IsAppliance(o)>>,
        <<"sensor", o.tags \cap {"temp", "humidity", "occupancy", "illuminance", "battery"} # {}>>,
        <<"other", TRUE>> >>

\* What the first rule that applies says; the last one always does.
FirstRule(rules) ==
  rules[CHOOSE i \in 1..Len(rules) : rules[i][2] /\ \A j \in 1..(i - 1) : ~rules[j][2]][1]

ClassifyObject(o) == FirstRule(ClassRules(o))

RolesForKind(kind) ==
  CASE kind = "all"       -> Roles
    [] kind = "light"     -> {"light_control", "light_status"}
    [] kind = "temp"      -> {"floor_temp", "room_temp", "weather"}
    [] kind = "climate"   -> {"climate_setpoint", "heat_relay_control", "heat_relay_status",
                              "floor_temp", "room_temp", "auto_heating"}
    [] kind = "sensor"    -> {"room_temp", "room_humidity", "room_battery", "floor_temp",
                              "weather", "sensor"}
    [] kind = "energy"    -> {"energy"}
    [] kind = "heating"   -> {"heating_diag", "auto_heating", "climate_setpoint",
                              "heat_relay_status", "floor_temp"}
    [] kind = "appliance" -> {"zigbee_appliance"}

-----------------------------------------------------------------------------
(* What a query names                                                      *)

\* The floor that a query names first, by an ordinal before the word "etazh":
\* {} or one tag.
FloorsNamed(q) ==
  LET at == {i \in 1..(Len(q) - 1) : q[i] \in DOMAIN Ordinal /\ q[i + 1] = "etazh"}
  IN {Ordinal[q[i]] : i \in {i \in at : \A j \in at : i <= j}}

IsZoneQuery(q) == FloorsNamed(q) # {} \/ Words(q) \cap ZoneWords # {}

Significant(text) == UNION {Canon[w] : w \in Words(text)} \ StopLemmas

\* Tags that the query stands for besides its own words.
TagsNamed(q) ==
  FloorsNamed(q) \cup IF Words(q) \cap OutsideWords # {} THEN {"outside"} ELSE {}

\* The empty query is every object's.
QueryMatches(q, o) ==
  \/ q = <<>>
  \/ InARow(o.name, q)
  \/ Len(q) = 1 /\ q[1] \in o.tags
  \/ TagsNamed(q) \cap (o.tags \cup Words(o.name)) # {}
  \/ Significant(q) \cap (Significant(o.name) \cup UNION {Canon[t] \ StopLemmas : t \in o.tags \cap Word})
       # {}

\* The switch for the whole house answers only to its name.
ExcludedMaster(q, o) ==
  /\ "master" \in Words(o.name) \/ o.ga = MasterGA
  /\ "master" \notin Words(q)

-----------------------------------------------------------------------------
(* resolve_objects.  catalog: the rows of the house; role "any" is None.   *)

Candidates(catalog, q, kind, role) ==
  {o \in catalog :
     /\ o.active
     /\ o.name # <<>>
     /\ ~ExcludedMaster(q, o)
     /\ QueryMatches(q, o)
     /\ ClassifyObject(o) \in RolesForKind(kind) \cap (IF role = "any" THEN Roles ELSE {role})}

\* An object that is called exactly what was asked for hides the others.
PreferExact(q, found) ==
  LET exact == {o \in found : o.name = q}
  IN IF exact # {} THEN exact ELSE found

\* A light asked for without a role means its control.
PreferControl(q, kind, role, found) ==
  LET controls == {o \in found : ClassifyObject(o) = "light_control"}
  IN IF role = "any" /\ kind = "light" /\ q # <<>> /\ Cardinality(controls) = 1
     THEN controls
     ELSE found

Resolve(catalog, q, kind, role) ==
  PreferControl(q, kind, role, PreferExact(q, Candidates(catalog, q, kind, role)))

ResolveFirst(found) == IF found = {} THEN "not_found" ELSE "ok"

ResolveStatus(found) ==
  CASE found = {}              -> "not_found"
    [] Cardinality(found) = 1  -> "ok"
    [] Cardinality(found) > 1  -> "ambiguous"
=============================================================================
