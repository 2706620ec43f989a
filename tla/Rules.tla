------------------------------- MODULE Rules -------------------------------
(***************************************************************************)
(* The tables of app/rules: which objects exist, what is rated for which   *)
(* animal in which space, what costs how much, and how dangerous an object *)
(* is.  A penalty is a percentage; a class code stands for its Korean      *)
(* name.                                                                   *)
(***************************************************************************)
EXTENDS Integers

\* OBJECT_NAMES, in the order of the Korean names.
Names == <<"stairs", "water_dispenser", "feeder", "pet_bed", "sofa", "chair",
           "cable", "window", "bed", "carpet", "cat_tower", "table">>

Classes == {Names[k] : k \in DOMAIN Names}

NameOrder(class) == CHOOSE k \in DOMAIN Names : Names[k] = class

Primary == Classes \ {"chair", "table"}

Groups == {"small_dog", "large_dog", "cat"}
ReservedGroups == {"small_animal", "bird", "reptile"}
Spaces == {"living_room", "bedroom", "kitchen", "balcony"}

Categories == {"safety", "activity", "rest", "environment"}

\* Of the total, in percent.
Share == [safety |-> 40, activity |-> 25, rest |-> 20, environment |-> 15]

CategoryOf == [
    CABLE_EXPOSURE |-> "safety",   SLIP_RISK |-> "safety",
    STAIRS_RISK |-> "safety",      WINDOW_SAFETY |-> "safety",
    ACTIVITY_SPACE |-> "activity", VERTICAL_SPACE |-> "activity",
    REST_SPACE |-> "rest",         HIDING_SPACE |-> "rest",
    FEEDING_ENV |-> "environment"]

Items == DOMAIN CategoryOf

For(small_dog, large_dog, cat) ==
    [small_dog |-> small_dog, large_dog |-> large_dog, cat |-> cat]

Weight == [
    CABLE_EXPOSURE |-> For(3, 3, 2), ACTIVITY_SPACE |-> For(2, 3, 2),
    SLIP_RISK |-> For(2, 3, 1),      REST_SPACE |-> For(2, 2, 2),
    WINDOW_SAFETY |-> For(1, 1, 3),  VERTICAL_SPACE |-> For(1, 1, 3),
    STAIRS_RISK |-> For(2, 3, 1),    HIDING_SPACE |-> For(1, 1, 3),
    FEEDING_ENV |-> For(2, 2, 2)]

Unmeasurable == {"HIDING_SPACE"}

\* A hazard is rated everywhere, what should be there only where it belongs.
Hazards == {"CABLE_EXPOSURE", "STAIRS_RISK", "WINDOW_SAFETY"}

Applicable == [
    living_room |-> Items \ Unmeasurable,
    bedroom |-> Items \ (Unmeasurable \cup {"FEEDING_ENV"}),
    kitchen |-> Hazards \cup {"FEEDING_ENV"},
    balcony |-> Hazards]

\* occupancy in units of the fourth decimal.
OccupancyPenalty(occupancy) ==
    CASE occupancy <= 4000 -> 0
      [] occupancy > 4000 /\ occupancy <= 6000 -> 40
      [] occupancy > 6000 /\ occupancy <= 7500 -> 70
      [] OTHER -> 100

\* penalty_of each item it can rate.
Penalty(names, occupancy) ==
    LET Unless(good, percent) == IF good THEN 0 ELSE percent
        fed == names \cap {"feeder", "water_dispenser"}
    IN [CABLE_EXPOSURE |-> Unless("cable" \notin names, 100),
        STAIRS_RISK |-> Unless("stairs" \notin names, 100),
        WINDOW_SAFETY |-> Unless("window" \notin names, 100),
        SLIP_RISK |-> Unless("carpet" \in names, 50),
        VERTICAL_SPACE |-> Unless("cat_tower" \in names, 100),
        REST_SPACE |-> Unless("pet_bed" \in names,
                              IF {"sofa", "bed"} \cap names # {} THEN 40 ELSE 100),
        FEEDING_ENV |-> Unless(fed = {"feeder", "water_dispenser"},
                               IF fed # {} THEN 50 ELSE 100),
        ACTIVITY_SPACE |-> OccupancyPenalty(occupancy)]

Rank == [HIGH |-> 3, MEDIUM |-> 2, LOW |-> 1, SAFE |-> 0]

\* Mutant: the stairs are forgotten.
RiskItemForgotten == [cable |-> "CABLE_EXPOSURE", window |-> "WINDOW_SAFETY"]

RiskItemOf == [cable |-> "CABLE_EXPOSURE", stairs |-> "STAIRS_RISK", window |-> "WINDOW_SAFETY"]

MinimumRisk == [cable |-> "HIGH"]

\* The risk of an object for an animal, SAFE when nothing rates it.
Classify(class, group) ==
    IF class \notin DOMAIN RiskItemOf THEN "SAFE"
    ELSE LET derived == <<"LOW", "MEDIUM", "HIGH">>[Weight[RiskItemOf[class]][group]]
         IN IF class \in DOMAIN MinimumRisk /\ Rank[derived] < Rank[MinimumRisk[class]]
            THEN MinimumRisk[class] ELSE derived
=============================================================================
