-------------------------- MODULE BrewPlantProofs --------------------------
(***************************************************************************)
(* Proofs about BrewPlant, for recipes of any length.                      *)
(*                                                                         *)
(* The argument: whatever has been played and stopped before, the last     *)
(* operation in the queue is one the active step wants to end with; when   *)
(* the queue is empty it is the one under way, and when none is under way  *)
(* its valves are where it has put them.  A pump runs only then.           *)
(***************************************************************************)
EXTENDS BrewPlant, TLAPS

\* Operation t may be the last one of step k.
Ends(k, t) ==
  \/ k = "fillMashTun" /\ t = Full("feedWaterToMashTun")
  \/ k = "fillHLT" /\ t = Full("feedWaterToBoiler")
  \/ k = "whirlpooling" /\ t = Full("startWhirlpooling")
  \/ k = "whirlpooling" /\ t = Full("startWhirlpoolingWithCooling")
  \/ k = "pumpTheWort" /\ t = Full("feedWortToBoiler")
  \/ k = "returnTheWort" /\ t = Full("startReturningWortToMashTun")
  \/ k = "sparging" /\ t = Full("feedSpargeToMashTun")
  \/ k = "chilling" /\ t.op = "startChilling"
  \/ k = "draining" /\ t.op = "startDraining"
  \/ k \notin Pumping \union {"chilling", "draining"} /\ t = Full("closeValves")

Finals(k) == {t \in Timed : Ends(k, t)}

\* The valve that the wort runs out of, which a last operation may turn by a
\* part only; the operation before that one has closed it.
HalfValve(op) == IF op = "startChilling" THEN "boilerToPump" ELSE "mashTunToPump"

Half(t) == t.op \in {"startChilling", "startDraining"} /\ ~t.full

Before == {Full("preChilling"), Full("preDraining")}

Shut == \A v \in Motors : position[v] = "closed"

\* Operation t is over, and nothing has moved since.
Reached(t) ==
  /\ powered = Opens(t.op) \intersect Solenoids
  /\ \A v \in Motors : t.full \/ v # HalfValve(t.op)
       => position[v] = IF v \in Opens(t.op) THEN "open" ELSE "closed"

QueueInv == queue # <<>> => queue[Len(queue)] \in Finals(active)

ShortInv == active \notin UsesValves => Len(queue) <= 1

PendingInv == pending # None =>
  /\ powered = Opens(pending.op) \intersect Solenoids
  /\ queue = <<>> => pending \in Finals(active)

HalfInv ==
  /\ pending # None => pending.full \/ (Half(pending) /\ Shut)
  /\ \A i \in 1..Len(queue) :
       ~queue[i].full => Half(queue[i]) /\ (i > 1 => queue[i - 1] \in Before)
  /\ queue # <<>> /\ ~queue[1].full => IF pending = None THEN Shut ELSE pending \in Before

RestInv == Settled => \E t \in Finals(active) : Reached(t)

OutputInv ==
  /\ pump => active \in Pumping /\ Settled
  /\ stirrer => active \in {"mashing", "draining"}
  /\ mashHeater => active = "mashing"

ValveInv == QueueInv /\ ShortInv /\ PendingInv /\ HalfInv /\ RestInv

IInv == TypeOK /\ ValveInv /\ OutputInv /\ HeaterHasOneOwner

Steps == Kinds \union {None}

(***************************************************************************)
(* Operations                                                              *)
(***************************************************************************)
LEMMA FullIsTimed == ASSUME NEW op \in Operations PROVE Full(op) \in Timed
  BY DEF Full, Timed

LEMMA OneOperation ==
  ASSUME NEW t \in Timed, NEW ops, ops = <<t>>
  PROVE  ops \in Seq(Timed) /\ Len(ops) = 1 /\ ops # <<>> /\ ops[Len(ops)] = t
  OBVIOUS

\* What start() adds ends with a final operation, and has at most two.
LEMMA AddsEndWell ==
  ASSUME NEW k \in Steps, NEW ops \in Adds(k)
  PROVE  /\ ops \in Seq(Timed) /\ Len(ops) <= 2
         /\ ops # <<>> => ops[Len(ops)] \in Finals(k) /\ k \in UsesValves
         /\ ops = <<>> => k \notin UsesValves \/ k = "resting"
         /\ \A i \in 1..Len(ops) : ~ops[i].full => Half(ops[i]) /\ i = 2 /\ ops[1] \in Before
<1>1. CASE k \in Pumping
  <2>1. PICK t \in Finals(k) : ops = <<t>>
    BY <1>1 DEF Adds, Finals, Ends, Full, Timed, Operations, Pumping
  <2> QED
    <3>1. t.full
      BY <1>1 DEF Finals, Ends, Full, Pumping
    <3> QED
      BY <1>1, <2>1, <3>1, OneOperation DEF UsesValves, Finals
<1>2. CASE k = "chilling" \/ k = "draining"
  <2>1. PICK s \in Before, t \in Finals(k) :
          ops = <<s, t>> /\ s \in Timed /\ s.full /\ (t.full \/ Half(t))
    <3>1. CASE k = "chilling"
      <4>1. PICK f \in BOOLEAN : ops = <<Full("preChilling"), [op |-> "startChilling", full |-> f]>>
        BY <3>1 DEF Adds
      <4>2. [op |-> "startChilling", full |-> f] \in Finals(k)
        BY <3>1 DEF Finals, Ends, Timed, Operations
      <4> QED
        BY <4>1, <4>2 DEF Full, Timed, Operations, Before, Half
    <3>2. CASE k = "draining"
      <4>1. PICK f \in BOOLEAN : ops = <<Full("preDraining"), [op |-> "startDraining", full |-> f]>>
        BY <3>2 DEF Adds
      <4>2. [op |-> "startDraining", full |-> f] \in Finals(k)
        BY <3>2 DEF Finals, Ends, Timed, Operations
      <4> QED
        BY <4>1, <4>2 DEF Full, Timed, Operations, Before, Half
    <3> QED
      BY <1>2, <3>1, <3>2
  <2>2. t \in Timed
    BY DEF Finals
  <2> QED
    BY <1>2, <2>1, <2>2 DEF UsesValves
<1>3. CASE k \notin Pumping \union {"chilling", "draining"}
  <2>1. ops = <<>>
    BY <1>3, ConstantsAssumption DEF Adds, Pumping
  <2> QED
    BY <1>3, <2>1 DEF UsesValves
<1> QED
  BY <1>1, <1>2, <1>3

LEMMA OthersClose ==
  ASSUME NEW k \in Steps, k \notin UsesValves \/ k = "resting"
  PROVE  Finals(k) = {Full("closeValves")}
<1>1. k \notin Pumping \union {"chilling", "draining"}
  BY DEF UsesValves, Pumping
<1>2. Full("closeValves") \in Timed
  BY FullIsTimed DEF Operations
<1>3. \A t \in Timed : Ends(k, t) <=> t = Full("closeValves")
  BY <1>1 DEF Ends, Pumping
<1> QED
  BY <1>2, <1>3 DEF Finals

(***************************************************************************)
(* The invariant                                                           *)
(***************************************************************************)
LEMMA InitIInv == Init => IInv
<1> SUFFICES ASSUME Init PROVE IInv
  OBVIOUS
<1> USE DEF Init
<1>1. Full("closeValves") \in Timed
  BY FullIsTimed DEF Operations
<1>2. active = None /\ None \in Steps /\ None \notin UsesValves
  BY ConstantsAssumption DEF Steps, UsesValves, Kinds
<1>3. TypeOK
  <2>1. queue \in Seq(Timed) /\ Len(queue) = 1
    BY <1>1
  <2>2. position \in [Motors -> {"open", "closed", "between"}]
    OBVIOUS
  <2>3. sparging \in [step : 0..3, wasActive : BOOLEAN]
    OBVIOUS
  <2>4. {hltActive, regulating, late, pump, stirrer, mashHeater, heater} \subseteq BOOLEAN
    OBVIOUS
  <2> QED
    BY <1>2, <2>1, <2>2, <2>3, <2>4 DEF TypeOK, Steps
<1>4. ValveInv
  <2>1. QueueInv
    BY <1>2, OthersClose DEF QueueInv
  <2> QED
    BY <2>1 DEF ValveInv, ShortInv, PendingInv, HalfInv, RestInv, Settled, Full
<1>5. OutputInv /\ HeaterHasOneOwner
  BY <1>2, ConstantsAssumption DEF OutputInv, HeaterHasOneOwner, Kinds
<1> QED
  BY <1>3, <1>4, <1>5 DEF IInv

\* The valve thread
LEMMA BeginPreserves == ASSUME IInv, BeginOperation PROVE IInv'
<1> USE DEF IInv
<1>1. pending' \in Timed /\ queue' \in Seq(Timed) /\ Len(queue') = Len(queue) - 1
  BY DEF TypeOK, BeginOperation
<1>2. TypeOK'
  BY <1>1 DEF TypeOK, BeginOperation, valveVars, heatVars, outputVars
<1>3. pending' # None
  BY <1>1, ConstantsAssumption
<1>4. QueueInv' /\ ShortInv'
  <2>1. queue' # <<>> => queue'[Len(queue')] = queue[Len(queue)]
    BY DEF TypeOK, BeginOperation
  <2> QED
    BY <1>1, <2>1 DEF TypeOK, ValveInv, QueueInv, ShortInv, BeginOperation
<1>5. PendingInv'
  <2>1. queue' = <<>> => pending' = queue[Len(queue)]
    BY DEF TypeOK, BeginOperation
  <2> QED
    BY <2>1 DEF ValveInv, QueueInv, PendingInv, BeginOperation
<1>6. RestInv'
  BY <1>3 DEF RestInv, Settled
<1>7. HalfInv'
  <2>1. queue # <<>> /\ pending' = queue[1] /\ pending = None /\ position' = position
    BY DEF BeginOperation
  <2>2. pending'.full \/ (Half(pending') /\ Shut')
    BY <2>1 DEF TypeOK, ValveInv, HalfInv, Shut
  <2>3. \A i \in 1..Len(queue') : queue'[i] = queue[i + 1] /\ i + 1 \in 1..Len(queue)
    BY <1>1 DEF TypeOK, BeginOperation
  <2>4. ASSUME NEW i \in 1..Len(queue')
        PROVE  ~queue'[i].full => Half(queue'[i]) /\ (i > 1 => queue'[i - 1] \in Before)
    BY <1>1, <2>3, <2>4 DEF TypeOK, ValveInv, HalfInv
  <2>5. queue' # <<>> /\ ~queue'[1].full => pending' \in Before
    BY <1>1, <2>1, <2>3 DEF TypeOK, ValveInv, HalfInv
  <2> QED
    BY <1>3, <2>2, <2>4, <2>5 DEF HalfInv, Half
<1>8. OutputInv' /\ HeaterHasOneOwner'
  BY DEF OutputInv, Settled, HeaterHasOneOwner, BeginOperation, heatVars, outputVars
<1> QED
  BY <1>2, <1>4, <1>5, <1>6, <1>7, <1>8 DEF ValveInv

LEMMA EndPreserves == ASSUME IInv, EndOperation PROVE IInv'
<1> USE DEF IInv
<1>1. TypeOK'
  BY DEF TypeOK, EndOperation, heatVars, outputVars
<1>2. QueueInv' /\ ShortInv' /\ PendingInv'
  BY DEF ValveInv, QueueInv, ShortInv, PendingInv, EndOperation
<1>3. RestInv'
  <2> SUFFICES ASSUME queue = <<>>, NEW t, t = pending
               PROVE  t \in Finals(active) /\ Reached(t)'
    BY DEF RestInv, Settled, EndOperation
  <2>1. t \in Finals(active)
    BY DEF ValveInv, PendingInv, EndOperation
  <2>2. t.full \/ (Half(t) /\ Shut)
    BY DEF ValveInv, HalfInv, EndOperation
  <2>3. ASSUME NEW v \in Motors, t.full \/ v # HalfValve(t.op)
        PROVE  position'[v] = IF v \in Opens(t.op) THEN "open" ELSE "closed"
    <3>1. CASE t.full
      BY <3>1 DEF EndOperation
    <3>2. CASE Half(t) /\ Shut
      <4>1. v \notin Opens(t.op) /\ position[v] = "closed"
        BY <2>3, <3>2 DEF Half, Shut, HalfValve, Opens, Motors
      <4> QED
        BY <4>1 DEF EndOperation
    <3> QED
      BY <2>2, <3>1, <3>2
  <2>4. Reached(t)'
    BY <2>3 DEF Reached, ValveInv, PendingInv, EndOperation
  <2> QED
    BY <2>1, <2>4
<1>4. HalfInv'
  <2>1. pending \in Before => Shut'
    BY DEF Before, Full, Opens, Motors, Shut, EndOperation
  <2> QED
    BY <2>1 DEF ValveInv, HalfInv, EndOperation
<1>5. OutputInv' /\ HeaterHasOneOwner'
  BY DEF OutputInv, Settled, HeaterHasOneOwner, EndOperation, heatVars, outputVars
<1> QED
  BY <1>1, <1>2, <1>3, <1>4, <1>5 DEF ValveInv

\* The HLT thread, and the work of the steps
LEMMA ValvesUnchanged ==
  ASSUME IInv, UNCHANGED <<active, valveVars>> PROVE ValveInv' /\ (Settled' <=> Settled)
<1> USE DEF valveVars
<1>1. QueueInv' /\ ShortInv' /\ PendingInv' /\ HalfInv'
  BY DEF IInv, ValveInv, QueueInv, ShortInv, PendingInv, HalfInv, Shut
<1>2. Settled' <=> Settled
  BY DEF Settled
<1>3. \A t : Reached(t) => Reached(t)'
  BY DEF Reached
<1>4. RestInv'
  BY <1>2, <1>3 DEF IInv, ValveInv, RestInv
<1> QED
  BY <1>1, <1>2, <1>4 DEF ValveInv

LEMMA HLTPreserves == ASSUME IInv, HLT PROVE IInv'
<1>1. UNCHANGED <<active, valveVars, outputVars>>
  BY DEF HLT, LookActive, Regulate
<1>2. ValveInv' /\ (Settled' <=> Settled)
  BY <1>1, ValvesUnchanged
<1>3. OutputInv'
  BY <1>1, <1>2 DEF IInv, OutputInv, outputVars
<1>4. TypeOK'
  BY DEF IInv, TypeOK, HLT, LookActive, Regulate, valveVars, outputVars
<1>5. HeaterHasOneOwner'
  BY DEF IInv, TypeOK, HeaterHasOneOwner, HLT, LookActive, Regulate
<1> QED
  BY <1>2, <1>3, <1>4, <1>5 DEF IInv

LEMMA WorkPreserves == ASSUME IInv, Work PROVE IInv'
<1>1. UNCHANGED <<active, valveVars, regulating, late>>
  BY DEF Work, Mash, Boil, Pump, FillHLT, Drain, SpargeVolume, SpargeWait, SpargeReady,
         Sparge, heatVars
<1>2. ValveInv' /\ (Settled' <=> Settled)
  BY <1>1, ValvesUnchanged
<1> USE DEF IInv
<1> DEFINE Booleans == {hltActive, regulating, late, pump, stirrer, mashHeater, heater}
<1>3. TypeOK'
  <2>1. sparging' \in [step : 0..3, wasActive : BOOLEAN]
    <3>1. CASE SpargeVolume \/ SpargeReady \/ Sparge
      <4>1. \/ sparging' = [sparging EXCEPT !.step = 1]
            \/ sparging' = [sparging EXCEPT !.step = 2]
            \/ sparging' = [sparging EXCEPT !.step = 3]
        BY <3>1 DEF SpargeVolume, SpargeReady, Sparge
      <4> QED
        BY <4>1 DEF TypeOK
    <3>2. CASE Mash \/ Boil \/ Pump \/ FillHLT \/ Drain \/ SpargeWait
      <4>1. sparging' = sparging
        BY <3>2 DEF Mash, Boil, Pump, FillHLT, Drain, SpargeWait
      <4> QED
        BY <4>1 DEF TypeOK
    <3> QED
      BY <3>1, <3>2 DEF Work
  <2>2. Booleans' \subseteq BOOLEAN
    <3>1. Booleans \subseteq BOOLEAN
      BY DEF TypeOK
    <3>2. CASE Mash
      BY <3>1, <3>2 DEF Mash, heatVars
    <3>6. CASE Boil
      BY <3>1, <3>6 DEF Boil, outputVars
    <3>7. CASE Drain
      BY <3>1, <3>7 DEF Drain, heatVars
    <3>3. CASE Pump \/ SpargeVolume \/ Sparge
      BY <3>1, <3>3 DEF Pump, SpargeVolume, Sparge, heatVars, outputVars
    <3>4. CASE FillHLT
      BY <3>1, <3>4 DEF FillHLT
    <3>5. CASE SpargeWait \/ SpargeReady
      BY <3>1, <3>5 DEF SpargeWait, SpargeReady, outputVars
    <3> QED
      BY <3>2, <3>3, <3>4, <3>5, <3>6, <3>7 DEF Work
  <2> QED
    BY <1>1, <2>1, <2>2 DEF TypeOK, valveVars
<1>4. OutputInv'
  <2>1. CASE Mash \/ Drain
    BY <1>1, <1>2, <2>1 DEF Mash, Drain, OutputInv
  <2>2. CASE Boil \/ SpargeVolume \/ SpargeWait \/ SpargeReady
    BY <1>1, <1>2, <2>2 DEF Boil, SpargeVolume, SpargeWait, SpargeReady, OutputInv, outputVars
  <2>3. CASE Pump \/ FillHLT \/ Sparge
    <3>1. active \in Pumping /\ Settled
      BY <2>3 DEF Pump, FillHLT, Sparge, AtSpargingStep, areValvesStabilized, Settled, Pumping
    <3>2. UNCHANGED <<stirrer, mashHeater>>
      BY <2>3 DEF Pump, FillHLT, Sparge
    <3> QED
      BY <1>1, <1>2, <3>1, <3>2 DEF OutputInv
  <2> QED
    BY <2>1, <2>2, <2>3 DEF Work
<1>5. HeaterHasOneOwner'
  <2>1. CASE Boil
    BY <1>1, <2>1 DEF Boil, HeaterHasOneOwner
  <2>2. CASE Mash \/ Pump \/ Drain \/ SpargeVolume \/ Sparge
    <3>1. UNCHANGED heatVars
      BY <2>2 DEF Mash, Pump, Drain, SpargeVolume, Sparge
    <3> QED
      BY <1>1, <3>1 DEF HeaterHasOneOwner, heatVars
  <2>3. CASE FillHLT
    <3>1. active # "boiling" /\ heater' = heater
      BY <2>3 DEF FillHLT
    <3>2. hltActive => hltActive'
      BY <2>3 DEF FillHLT, TypeOK
    <3> QED
      BY <1>1, <3>1, <3>2 DEF HeaterHasOneOwner
  <2>4. CASE SpargeWait \/ SpargeReady
    BY <1>1, <2>4 DEF SpargeWait, SpargeReady, AtSpargingStep, HeaterHasOneOwner
  <2> QED
    BY <2>1, <2>2, <2>3, <2>4 DEF Work
<1> QED
  BY <1>2, <1>3, <1>4, <1>5

\* finish() and start(): the queue
LEMMA SwitchQueue ==
  ASSUME IInv, NEW k \in Steps, Switch(active, k)
  PROVE  /\ queue' \in Seq(Timed) /\ Len(queue') <= 3
         /\ k \notin UsesValves => Len(queue') <= 1
         /\ queue' # <<>> => queue'[Len(queue')] \in Finals(k)
         /\ queue' = <<>> => queue = <<>> /\ Finals(active) = Finals(k)
         /\ \A i \in 1..Len(queue') :
              ~queue'[i].full => Half(queue'[i]) /\ i > 1 /\ queue'[i - 1] \in Before
<1>0. Full("closeValves") \in Timed /\ active \in Steps
  BY FullIsTimed DEF Operations, IInv, TypeOK, Steps
<1>1. CASE k = "resting"
  <2>1. queue' = <<Full("closeValves")>>
    BY <1>1 DEF Switch, Closed
  <2>2. Full("closeValves") \in Finals(k)
    BY <1>1, OthersClose
  <2> QED
    BY <1>0, <2>1, <2>2 DEF Full
<1>2. CASE k # "resting"
  <2> DEFINE closed == IF active \in UsesValves THEN Closed(queue) ELSE queue
  <2>1. PICK ops \in Adds(k) : queue' = closed \o ops
    BY <1>2 DEF Switch
  <2>2. closed \in Seq(Timed) /\ Len(closed) <= 1
    BY <1>0 DEF Closed, IInv, TypeOK, ValveInv, ShortInv
  <2>3. closed # <<>> => closed[Len(closed)] = Full("closeValves")
    <3>1. CASE active \in UsesValves
      BY <1>0, <3>1 DEF Closed
    <3>2. CASE active \notin UsesValves
      BY <1>0, <3>2, OthersClose DEF IInv, ValveInv, QueueInv
    <3> QED
      BY <3>1, <3>2
  <2>4. closed = <<>> => queue = <<>> /\ active \notin UsesValves
    BY DEF Closed
  <2>7. \A i \in 1..Len(closed) : closed[i].full
    BY <2>2, <2>3 DEF Full
  <2> HIDE DEF closed
  <2>5. CASE ops = <<>>
    <3>1. queue' = closed
      BY <2>1, <2>2, <2>5
    <3>2. Finals(k) = {Full("closeValves")}
      BY <2>5, AddsEndWell, OthersClose
    <3>3. closed = <<>> => Finals(active) = Finals(k)
      BY <1>0, <2>4, <3>2, OthersClose
    <3> QED
      BY <2>2, <2>3, <2>4, <2>7, <3>1, <3>2, <3>3
  <2>6. CASE ops # <<>>
    <3>1. /\ ops \in Seq(Timed) /\ Len(ops) <= 2 /\ Len(ops) > 0
          /\ ops[Len(ops)] \in Finals(k) /\ k \in UsesValves
      BY <2>6, AddsEndWell
    <3>2. /\ queue' \in Seq(Timed) /\ Len(queue') = Len(closed) + Len(ops)
          /\ queue'[Len(queue')] = ops[Len(ops)] /\ queue' # <<>>
      BY <2>1, <2>2, <3>1
    <3>3. ASSUME NEW i \in 1..Len(queue'), ~queue'[i].full
          PROVE  Half(queue'[i]) /\ i > 1 /\ queue'[i - 1] \in Before
      <4>1. CASE i <= Len(closed)
        BY <2>1, <2>2, <2>7, <3>1, <3>3, <4>1
      <4>2. CASE i > Len(closed)
        <5>1. i - Len(closed) \in 1..Len(ops) /\ queue'[i] = ops[i - Len(closed)]
          BY <2>1, <2>2, <3>1, <3>2, <4>2
        <5>2. Half(ops[i - Len(closed)]) /\ i - Len(closed) = 2 /\ ops[1] \in Before
          BY <3>3, <5>1, AddsEndWell
        <5>3. i - 1 \in 1..Len(queue') /\ queue'[i - 1] = ops[1]
          BY <2>1, <2>2, <3>1, <3>2, <5>1, <5>2
        <5> QED
          BY <2>2, <5>1, <5>2, <5>3
      <4> QED
        BY <2>2, <4>1, <4>2
    <3> QED
      BY <2>2, <3>1, <3>2, <3>3
  <2> QED
    BY <2>5, <2>6
<1> QED
  BY <1>1, <1>2

LEMMA SwitchPreserves ==
  ASSUME IInv, NEW k \in Steps, Switch(active, k) PROVE IInv'
<1>1. /\ queue' \in Seq(Timed) /\ Len(queue') <= 3
      /\ k \notin UsesValves => Len(queue') <= 1
      /\ queue' # <<>> => queue'[Len(queue')] \in Finals(k)
      /\ queue' = <<>> => queue = <<>> /\ Finals(active) = Finals(k)
      /\ \A i \in 1..Len(queue') :
           ~queue'[i].full => Half(queue'[i]) /\ i > 1 /\ queue'[i - 1] \in Before
  BY SwitchQueue
<1>2. active' = k /\ UNCHANGED <<pending, position, powered, late>>
  BY DEF Switch
<1>3. TypeOK'
  <2>1. sparging' \in [step : 0..3, wasActive : BOOLEAN]
    BY DEF IInv, TypeOK, Switch
  <2>2. {hltActive', regulating', late', pump', stirrer', mashHeater', heater'} \subseteq BOOLEAN
    BY DEF IInv, TypeOK, Switch, FinishStirrer
  <2> QED
    BY <1>1, <1>2, <2>1, <2>2 DEF IInv, TypeOK, Steps
<1>4. QueueInv' /\ ShortInv' /\ PendingInv'
  BY <1>1, <1>2 DEF IInv, ValveInv, QueueInv, ShortInv, PendingInv
<1>5. RestInv'
  <2>1. \A t : Reached(t) => Reached(t)'
    BY <1>2 DEF Reached
  <2> QED
    BY <1>1, <1>2, <2>1 DEF IInv, ValveInv, RestInv, Settled
<1>6. HalfInv'
  <2>1. queue' # <<>> => queue'[1].full
    BY <1>1
  <2>2. pending' # None => pending'.full \/ (Half(pending') /\ Shut')
    BY <1>2 DEF IInv, ValveInv, HalfInv, Shut
  <2> QED
    BY <1>1, <2>1, <2>2 DEF HalfInv, Half
<1>7. OutputInv'
  BY <1>2 DEF IInv, TypeOK, OutputInv, Switch, FinishStirrer
<1>8. HeaterHasOneOwner'
  <2>1. k = "boiling" => ~hltActive' /\ ~heater'
    BY DEF Switch
  <2>2. heater' => heater /\ active # "boiling"
    BY DEF Switch
  <2>3. k # "boiling" /\ hltActive => hltActive'
    BY DEF Switch
  <2> QED
    BY <1>2, <2>1, <2>2, <2>3 DEF IInv, HeaterHasOneOwner
<1> QED
  BY <1>3, <1>4, <1>5, <1>6, <1>7, <1>8 DEF IInv, ValveInv

LEMMA NextPreserves == ASSUME IInv, [Next]_vars PROVE IInv'
<1>1. CASE Valves
  BY <1>1, BeginPreserves, EndPreserves DEF Valves
<1>2. CASE HLT
  BY <1>2, HLTPreserves
<1>3. CASE Work
  BY <1>3, WorkPreserves
<1>4. CASE Stop
  BY <1>4, SwitchPreserves DEF Stop, Steps
<1>5. CASE \E k \in Kinds : Play(k)
  BY <1>5, SwitchPreserves DEF Play, Steps
<1>6. CASE UNCHANGED vars
  <2>1. ValveInv' /\ (Settled' <=> Settled)
    BY <1>6, ValvesUnchanged DEF vars
  <2> QED
    BY <1>6, <2>1
    DEF IInv, TypeOK, OutputInv, HeaterHasOneOwner, vars, valveVars, heatVars, outputVars
<1> QED
  BY <1>1, <1>2, <1>3, <1>4, <1>5, <1>6 DEF Next

LEMMA Inductive == Spec => []IInv
<1>1. Init => IInv
  BY InitIInv
<1>2. IInv /\ [Next]_vars => IInv'
  BY NextPreserves
<1> QED
  BY <1>1, <1>2, PTL DEF Spec

(***************************************************************************)
(* The theorems                                                            *)
(***************************************************************************)
\* The plant's variables keep their types, and no more than three valve
\* operations ever wait, however long the recipe and however it is played.
THEOREM TypeCorrect == Spec => []TypeOK
<1>1. IInv => TypeOK
  BY DEF IInv
<1> QED
  BY <1>1, Inductive, PTL

\* The boiler is heated by boiling or by the HLT controller, never by both,
\* unless the controller was late (userpages.cpp:1244, 1440, 1963).
THEOREM HeaterOwned == Spec => []HeaterHasOneOwner
<1>1. IInv => HeaterHasOneOwner
  BY DEF IInv
<1> QED
  BY <1>1, Inductive, PTL

\* "pump only after the valves have stabilized" (userpages.cpp:1696): the
\* pump runs only on the route of the active step, with all valves at rest.
THEOREM PumpingIsRouted == Spec => []PumpHasRoute
<1>1. IInv => PumpHasRoute
  <2> SUFFICES ASSUME IInv, pump PROVE active \in Pumping /\ Settled /\ Routed(active)
    BY DEF PumpHasRoute
  <2>1. active \in Pumping /\ Settled
    BY DEF IInv, OutputInv
  <2>2. PICK t \in Finals(active) : Reached(t)
    BY <2>1 DEF IInv, ValveInv, RestInv
  <2>3. t.full /\ (\/ Opens(t.op) = Route(active)
                   \/ active = "whirlpooling" /\ Opens(t.op) = Route(active) \union {"waterToCFC"})
    BY <2>1 DEF Finals, Ends, Full, Opens, Route, Pumping
  <2>4. OpenExactly(Opens(t.op))
    BY <2>2, <2>3 DEF Reached, OpenExactly
  <2> QED
    BY <2>1, <2>3, <2>4 DEF Routed
<1> QED
  BY <1>1, Inductive, PTL

\* When no step is active, nothing is switched on, and once the valve thread
\* has nothing to do all valves are closed (finish() of the steps).
THEOREM IdleIsQuiet == Spec => []QuietWhenIdle
<1>1. IInv => QuietWhenIdle
  <2> SUFFICES ASSUME IInv, active = None
               PROVE  /\ ~pump /\ ~stirrer /\ ~mashHeater
                      /\ Settled => OpenExactly({})
    BY DEF QuietWhenIdle
  <2>1. None \in Steps /\ None \notin UsesValves
    BY ConstantsAssumption DEF Steps, Kinds, UsesValves
  <2>2. ~pump /\ ~stirrer /\ ~mashHeater
    BY ConstantsAssumption DEF IInv, OutputInv, Kinds
  <2>3. ASSUME Settled PROVE OpenExactly({})
    <3>1. Reached(Full("closeValves"))
      BY <2>1, <2>3, OthersClose DEF IInv, ValveInv, RestInv
    <3> QED
      BY <3>1 DEF Reached, Full, Opens, OpenExactly
  <2> QED
    BY <2>2, <2>3
<1> QED
  BY <1>1, Inductive, PTL

\* Only the valve that lets the wort out may stand half open, and only in the
\* step that wants it so (userpages.cpp:1612, 1752): interrupted operations
\* leave no valve between its positions.
THEOREM OnlyTheOutletIsHalfOpen == Spec => []HalfOpen
<1>1. IInv => HalfOpen
  <2> SUFFICES ASSUME IInv, Settled, NEW v \in Motors, position[v] = "between"
               PROVE  \/ active = "chilling" /\ v = "boilerToPump"
                      \/ active = "draining" /\ v = "mashTunToPump"
    BY DEF HalfOpen
  <2>1. PICK t \in Finals(active) : Reached(t)
    BY DEF IInv, ValveInv, RestInv
  <2>2. ~t.full /\ v = HalfValve(t.op)
    BY <2>1 DEF Reached
  <2>3. \/ active = "chilling" /\ t.op = "startChilling"
        \/ active = "draining" /\ t.op = "startDraining"
    BY <2>2 DEF Finals, Ends, Full
  <2> QED
    BY <2>2, <2>3 DEF HalfValve
<1> QED
  BY <1>1, Inductive, PTL
=============================================================================
