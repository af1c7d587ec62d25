----------------------------- MODULE BrewPlant -----------------------------
(***************************************************************************)
(* examples/brewApp: the plant that the brewing steps drive, and the three *)
(* threads that work on it.  The loop of the BrewingPage starts, works on  *)
(* and finishes one step at a time (which one is next, the recipe and its  *)
(* users decide); the ValveController takes operations from a queue and    *)
(* moves the valves, which takes seconds; the HLTController heats the      *)
(* boiler as long as it is active.                                         *)
(*                                                                         *)
(* What the sensors and the clock say, and parameters that users may       *)
(* change at any time, is chosen freely.  The valve thread has queued its  *)
(* first operation, which closes the valves, before a step is played.      *)
(***************************************************************************)
EXTENDS Integers, Sequences

CONSTANTS
  None,         \* no step, or no operation
  MaxSwitches   \* bound: how often a step is started or stopped

Pumping == {"fillMashTun", "fillHLT", "whirlpooling", "pumpTheWort", "returnTheWort",
            "sparging"}
Kinds == Pumping \union {"mashing", "boiling", "waiting", "chilling", "draining", "resting"}

Motors == {"pumpToBoiler", "pumpToMashTun", "mashTunToPump", "boilerToPump"}
Solenoids == {"waterToCFC", "waterToPump", "barrelToPump"}

\* what each operation opens; it closes the others
Opens(op) ==
  CASE op = "feedWaterToMashTun" -> {"waterToPump", "pumpToMashTun"}
    [] op = "feedWaterToBoiler" -> {"waterToPump", "pumpToBoiler"}
    [] op = "feedSpargeToMashTun" -> {"boilerToPump", "pumpToMashTun"}
    [] op = "feedWortToBoiler" -> {"barrelToPump", "pumpToBoiler"}
    [] op = "preChilling" -> {"waterToCFC", "barrelToPump"}
    [] op = "startChilling" -> {"waterToCFC", "barrelToPump", "boilerToPump"}
    [] op = "preDraining" -> {"barrelToPump"}
    [] op = "startDraining" -> {"barrelToPump", "mashTunToPump"}
    [] op = "startWhirlpooling" -> {"boilerToPump", "pumpToBoiler"}
    [] op = "startWhirlpoolingWithCooling" -> {"waterToCFC", "boilerToPump", "pumpToBoiler"}
    [] op = "startReturningWortToMashTun" -> {"barrelToPump", "pumpToMashTun"}
    [] op = "closeValves" -> {}

Operations == {"feedWaterToMashTun", "feedWaterToBoiler", "feedSpargeToMashTun",
               "feedWortToBoiler", "preChilling", "startChilling", "preDraining",
               "startDraining", "startWhirlpooling", "startWhirlpoolingWithCooling",
               "startReturningWortToMashTun", "closeValves"}

\* an operation, and whether the motors get the full time they need
Timed == [op : Operations, full : BOOLEAN]

ASSUME ConstantsAssumption == /\ None \notin Kinds /\ None \notin Timed
                              /\ MaxSwitches \in Nat

VARIABLES
  \* the BrewingPage
  active,     \* the kind of the active step
  sparging,   \* SpargingStep: _step and _wasHLTActive
  switches,   \* bound
  \* the ValveController
  queue,      \* _valveActions: operations, and whether they get their full time
  pending,    \* the operation behind _operationPending
  position,   \* position[v]: where the motor valve v stands
  powered,    \* the solenoids that are open
  \* the HLTController
  hltActive,  \* _active
  regulating, \* its loop has seen _active, and will switch the heater
  late,       \* history: it has switched the heater on after deactivate()
  \* the other outputs
  pump, stirrer, mashHeater, heater

valveVars == <<queue, pending, position, powered>>
outputVars == <<pump, stirrer, mashHeater>>
heatVars == <<hltActive, regulating, late, heater>>
vars == <<active, sparging, switches, valveVars, heatVars, outputVars>>

Full(op) == [op |-> op, full |-> TRUE]

Init ==
  /\ active = None
  /\ sparging = [step |-> 0, wasActive |-> FALSE]
  /\ switches = 0
  /\ queue = <<Full("closeValves")>>
  /\ pending = None
  /\ position = [v \in Motors |-> "between"]
  /\ powered = {}
  /\ hltActive = FALSE /\ regulating = FALSE /\ late = FALSE
  /\ pump = FALSE /\ stirrer = FALSE /\ mashHeater = FALSE /\ heater = FALSE

(***************************************************************************)
(* ValveController                                                         *)
(***************************************************************************)
\* The queue of operations is not cleared.
Closed_Append(q) == Append(q, Full("closeValves"))

\* addAction(closeValves): nothing that waits makes sense any more.
Closed(q) == <<Full("closeValves")>>

\* Operations that are under way are not counted.
areValvesStabilized_QueueOnly == queue = <<>>

areValvesStabilized == queue = <<>> /\ pending = None

\* The operation is called with the lock held: the solenoids switch at once,
\* the motors begin to turn.
BeginOperation ==
  /\ pending = None /\ queue # <<>>
  /\ pending' = Head(queue)
  /\ queue' = Tail(queue)
  /\ powered' = Opens(pending'.op) \intersect Solenoids
  /\ UNCHANGED <<active, sparging, switches, position, heatVars, outputVars>>

\* _operationPending is not reset.
EndOperation_KeepPending ==
  /\ pending # None
  /\ position' = [v \in Motors |->
       LET goal == IF v \in Opens(pending.op) THEN "open" ELSE "closed"
       IN  IF pending.full \/ position[v] = goal THEN goal ELSE "between"]
  /\ UNCHANGED <<active, sparging, switches, queue, pending, powered, heatVars, outputVars>>

\* The motors are switched off when their time is over: a valve that did not
\* get its full time and was not there before stands in between.
EndOperation ==
  /\ pending # None
  /\ position' = [v \in Motors |->
       LET goal == IF v \in Opens(pending.op) THEN "open" ELSE "closed"
       IN  IF pending.full \/ position[v] = goal THEN goal ELSE "between"]
  /\ pending' = None
  /\ UNCHANGED <<active, sparging, switches, queue, powered, heatVars, outputVars>>

(***************************************************************************)
(* HLTController                                                           *)
(***************************************************************************)
LookActive ==
  /\ ~regulating /\ hltActive
  /\ regulating' = TRUE
  /\ UNCHANGED <<active, sparging, switches, valveVars, hltActive, late, heater, outputVars>>

\* heatBoiler() or noHeatBoiler(), by the volume and the temperature
Regulate ==
  /\ regulating
  /\ regulating' = FALSE
  /\ heater' \in BOOLEAN
  /\ late' = (late \/ (heater' /\ ~hltActive))
  /\ UNCHANGED <<active, sparging, switches, valveVars, hltActive, outputVars>>

(***************************************************************************)
(* start() and finish() of the steps                                       *)
(***************************************************************************)
\* The operations that start() of a step may add.  The valves that let the
\* wort out in chilling and draining open by a percentage of their time.
Adds(k) ==
  CASE k = "fillMashTun" -> {<<Full("feedWaterToMashTun")>>}
    [] k = "fillHLT" -> {<<Full("feedWaterToBoiler")>>}
    [] k = "whirlpooling" -> {<<Full("startWhirlpooling")>>,
                              <<Full("startWhirlpoolingWithCooling")>>}
    [] k = "pumpTheWort" -> {<<Full("feedWortToBoiler")>>}
    [] k = "returnTheWort" -> {<<Full("startReturningWortToMashTun")>>}
    [] k = "sparging" -> {<<Full("feedSpargeToMashTun")>>}
    [] k = "chilling" -> {<<Full("preChilling"), [op |-> "startChilling", full |-> f]>> :
                           f \in BOOLEAN}
    [] k = "draining" -> {<<Full("preDraining"), [op |-> "startDraining", full |-> f]>> :
                           f \in BOOLEAN}
    [] OTHER -> {<<>>}

\* The steps whose finish() closes the valves
UsesValves == Pumping \union {"chilling", "draining", "resting"}

\* Mashing does not stop the stirrer.
FinishStirrer_Keep(j) == stirrer /\ j # "draining"

FinishStirrer(j) == stirrer /\ j \notin {"mashing", "draining"}

\* finish() of the active step j, if there is one, and start() of k, if a
\* step follows.  What finish() switches off, start() may switch on again.
\* Boiling and Resting have no operation of the recipe's plumbing: the one
\* takes the heater over, the other closes the valves.
Switch(j, k) ==
  /\ switches < MaxSwitches /\ switches' = switches + 1
  /\ active' = k
  /\ LET closed == IF j \in UsesValves THEN Closed(queue) ELSE queue
     IN  IF k = "resting" THEN queue' = Closed(closed)
         ELSE \E ops \in Adds(k) : queue' = closed \o ops
  /\ pump' = (pump /\ j \notin Pumping)
  /\ mashHeater' = (mashHeater /\ j # "mashing")
  /\ stirrer' = (FinishStirrer(j) \/ k = "mashing")
  /\ LET resumed == hltActive \/ (j = "sparging" /\ sparging.wasActive)
     IN  /\ hltActive' = (resumed /\ k # "boiling")
         /\ heater' = (heater /\ j # "boiling" /\ k # "boiling")
         /\ sparging' = IF k = "sparging" THEN [step |-> 0, wasActive |-> resumed]
                                          ELSE sparging
  /\ UNCHANGED <<pending, position, powered, regulating, late>>

\* play_step, and the step after one that is finished
Play(k) == Switch(active, k)

\* stop_step, remove_step, load_recipe, and the end of the recipe
Stop == active # None /\ Switch(active, None)

(***************************************************************************)
(* step(): what the steps do every 100 ms                                  *)
(***************************************************************************)
Mash ==
  /\ active = "mashing"
  /\ mashHeater' \in BOOLEAN
  /\ UNCHANGED <<active, sparging, switches, valveVars, heatVars, pump, stirrer>>

Boil ==
  /\ active = "boiling"
  /\ heater' \in BOOLEAN
  /\ UNCHANGED <<active, sparging, switches, valveVars, hltActive, regulating, late, outputVars>>

\* The steps that pump wait for the valves; whirlpooling waits for the
\* level of the water, too.
Pump ==
  /\ active \in Pumping \ {"fillHLT", "sparging"}
  /\ areValvesStabilized
  /\ pump' = TRUE
  /\ UNCHANGED <<active, sparging, switches, valveVars, heatVars, stirrer, mashHeater>>

\* When there is enough water the HLT starts to heat.
FillHLT ==
  /\ active = "fillHLT"
  /\ areValvesStabilized
  /\ pump' = TRUE
  /\ hltActive' \in {hltActive, TRUE}
  /\ UNCHANGED <<active, sparging, switches, valveVars, regulating, late, heater,
                 stirrer, mashHeater>>

Drain ==
  /\ active = "draining"
  /\ areValvesStabilized
  /\ stirrer' \in BOOLEAN
  /\ UNCHANGED <<active, sparging, switches, valveVars, heatVars, pump, mashHeater>>

AtSpargingStep(n) == active = "sparging" /\ areValvesStabilized /\ sparging.step = n

\* There is enough water in the HLT.
SpargeVolume ==
  /\ AtSpargingStep(0)
  /\ sparging' = [sparging EXCEPT !.step = 1]
  /\ UNCHANGED <<active, switches, valveVars, heatVars, outputVars>>

\* The water is not hot enough: activate()
SpargeWait ==
  /\ AtSpargingStep(1)
  /\ hltActive' = TRUE
  /\ UNCHANGED <<active, sparging, switches, valveVars, regulating, late, heater, outputVars>>

\* The controller is no longer active, but the heater stays as it is.
SpargeReady_KeepHeater ==
  /\ AtSpargingStep(1)
  /\ sparging' = [sparging EXCEPT !.step = 2]
  /\ hltActive' = FALSE
  /\ UNCHANGED <<active, switches, valveVars, heater, regulating, late, outputVars>>

\* The water is hot enough: deactivate()
SpargeReady ==
  /\ AtSpargingStep(1)
  /\ sparging' = [sparging EXCEPT !.step = 2]
  /\ hltActive' = FALSE /\ heater' = FALSE
  /\ UNCHANGED <<active, switches, valveVars, regulating, late, outputVars>>

\* Pumps, unless the mash tun is full.
Sparge ==
  /\ AtSpargingStep(2) \/ AtSpargingStep(3)
  /\ sparging' = [sparging EXCEPT !.step = 3]
  /\ pump' \in {pump, TRUE}
  /\ UNCHANGED <<active, switches, valveVars, heatVars, stirrer, mashHeater>>

(***************************************************************************)
(* The specification                                                       *)
(***************************************************************************)
Valves == BeginOperation \/ EndOperation

HLT == LookActive \/ Regulate

Work == \/ Mash \/ Boil \/ Pump \/ FillHLT \/ Drain
        \/ SpargeVolume \/ SpargeWait \/ SpargeReady \/ Sparge

Next == Valves \/ HLT \/ Work \/ Stop \/ \E k \in Kinds : Play(k)

Spec == Init /\ [][Next]_vars

\* The valve thread is scheduled, and its waits end; users may do nothing.
FairSpec == Spec /\ WF_vars(Valves)

(***************************************************************************)
(* Properties                                                              *)
(***************************************************************************)
TypeOK ==
  /\ active \in Kinds \union {None}
  /\ sparging \in [step : 0..3, wasActive : BOOLEAN]
  /\ queue \in Seq(Timed) /\ Len(queue) <= 3
  /\ pending \in Timed \union {None}
  /\ position \in [Motors -> {"open", "closed", "between"}]
  /\ powered \subseteq Solenoids
  /\ {hltActive, regulating, late, pump, stirrer, mashHeater, heater} \subseteq BOOLEAN

Settled == queue = <<>> /\ pending = None

\* Exactly the valves of set are open.
OpenExactly(set) ==
  /\ \A v \in Motors : position[v] = IF v \in set THEN "open" ELSE "closed"
  /\ powered = set \intersect Solenoids

\* where a step pumps from and to
Route(k) == CASE k = "fillMashTun" -> {"waterToPump", "pumpToMashTun"}
              [] k = "fillHLT" -> {"waterToPump", "pumpToBoiler"}
              [] k = "whirlpooling" -> {"boilerToPump", "pumpToBoiler"}
              [] k = "pumpTheWort" -> {"barrelToPump", "pumpToBoiler"}
              [] k = "returnTheWort" -> {"barrelToPump", "pumpToMashTun"}
              [] k = "sparging" -> {"boilerToPump", "pumpToMashTun"}

Routed(k) == \/ OpenExactly(Route(k))
             \/ k = "whirlpooling" /\ OpenExactly(Route(k) \union {"waterToCFC"})

\* "pump only after the valves have stabilized" (userpages.cpp:1696): while
\* the pump runs no valve moves or will move, and exactly the valves between
\* the vessels of the active step are open.
PumpHasRoute ==
  pump => active \in Pumping /\ Settled /\ Routed(active)

\* When no step is active the outputs are off, and as soon as the valves
\* have stabilized all are closed.
QuietWhenIdle ==
  active = None => /\ ~pump /\ ~stirrer /\ ~mashHeater
                   /\ Settled => OpenExactly({})

\* A valve stands half open only to let the wort out in chilling and
\* draining; every other valve has got the time it needs.
HalfOpen ==
  Settled => \A v \in Motors :
    position[v] = "between" => \/ active = "chilling" /\ v = "boilerToPump"
                               \/ active = "draining" /\ v = "mashTunToPump"

\* The boiler is heated by boiling, or by the HLT controller while it is
\* active, and never by both, unless the controller was late.
HeaterHasOneOwner ==
  /\ active = "boiling" => ~hltActive
  /\ heater /\ ~late => hltActive \/ active = "boiling"

\* "the HLT might be emptied so we should not heat it during pumping"
\* (userpages.cpp:1963)
NoHeatWhenEmptied == pump /\ active = "sparging" => ~heater

\* A step that pumps gets its route, and after the last step the valves are
\* closed, whatever has been played and stopped before.
ValvesSettle ==
  /\ \A k \in Pumping : active = k ~> active # k \/ (Settled /\ Routed(k))
  /\ active = None ~> active # None \/ OpenExactly({})
=============================================================================
