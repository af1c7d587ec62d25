------------------------------ MODULE Recipe ------------------------------
(***************************************************************************)
(* examples/brewApp: the recipe of the BrewingPage, a list of brewing      *)
(* steps that users edit while its control loop runs one of them.          *)
(*                                                                         *)
(* Callbacks and drops only append a command to _actions; the control loop *)
(* wakes up every 100 ms, locks _steps and _actions, performs all commands *)
(* and then lets the active step do a part of its work.  Commands name a   *)
(* step by its position, as it was on some page shown before.              *)
(*                                                                         *)
(* A recipe file has a line for every step: what the step is, and a word   *)
(* for every parameter.  A value is one word, or empty.                    *)
(***************************************************************************)
EXTENDS Integers, FiniteSets, SequencesExt, FiniteSetsExt

CONSTANTS
  Kinds,        \* what a step can be: mashing, boiling...
  NrParameters, \* how many parameters a step has
  Words,        \* values of parameters that are not empty
  Empty,        \* the value of a text field that has been cleared
  Star,         \* "*", which stands in a file for a parameter never set
  Default,      \* the setting a new step has
  Refused,      \* values that setParameter ignores: kind, index and value
  Recipes,      \* files that users have
  MaxSteps,     \* bound: steps created
  MaxCommands,  \* bound: commands sent
  MaxQueue      \* bound: commands in the queue

Values == Words \union {Empty}
Indices == 1..NrParameters
Ids == 1..MaxSteps

\* A line of a recipe file: what the step is, the words, and whether it ends
\* with a blank
RecipeLine == [kind : Kinds, words : Seq(Words \union {Star}), blank : BOOLEAN]

ASSUME ConstantsAssumption ==
  /\ MaxSteps \in Nat /\ MaxCommands \in Nat /\ MaxQueue \in Nat
  /\ NrParameters \in Nat
  /\ {Empty, Star, Default} \intersect Words = {} /\ Empty # Star
  /\ Refused \subseteq Kinds \X Indices \X Values
  /\ Recipes \subseteq Seq(RecipeLine)

VARIABLES
  steps,       \* _steps: id, kind, parameters and settings of each step
  activeStep,  \* the position of the active step; 0 stands for -1
  starts,      \* starts[x]: calls of start() less calls of finish() of step x
  nextId,      \* what the next step created is called
  actions,     \* _actions
  loop,        \* "sleep", or "process" while the loop holds the locks
  recipeSaved, manualMode,
  toggling,    \* threads that have toggled the mode and wait for the lock
  file,        \* recipe.txt
  longest,     \* how long a list of steps has been shown on a page
  commands     \* bound

vars == <<steps, activeStep, starts, nextId, actions, loop, recipeSaved,
          manualMode, toggling, file, longest, commands>>

Init ==
  /\ steps = <<>> /\ activeStep = 0
  /\ starts = [x \in Ids |-> 0]
  /\ nextId = 1
  /\ actions = <<>> /\ loop = "sleep"
  /\ recipeSaved = FALSE /\ manualMode = FALSE
  /\ file = <<>>
  /\ toggling = 0 /\ longest = 0 /\ commands = 0

(***************************************************************************)
(* Steps and recipe files                                                  *)
(***************************************************************************)
NewStep(k) == [id |-> nextId, kind |-> k, parameters |-> <<>>,
               settings |-> [i \in Indices |-> Default]]

\* callbackParameter(): the value is registered, and set unless the step
\* finds it out of range.
SetParameter(s, i, v) ==
  [s EXCEPT !.parameters = [j \in DOMAIN @ \union {i} |-> IF j = i THEN v ELSE @[j]],
            !.settings = IF <<s.kind, i, v>> \in Refused THEN @ ELSE [@ EXCEPT ![i] = v]]

\* Nothing is written for a parameter that was never set.
Export_SkipUnset(s) ==
  LET last == Max(DOMAIN s.parameters \union {0})
      Word(i) == IF i \notin DOMAIN s.parameters \/ s.parameters[i] = Empty THEN <<>>
                 ELSE <<s.parameters[i]>>
  IN  [kind |-> s.kind,
       words |-> FlattenSeq([i \in 1..last |-> Word(i)]),
       blank |-> last # 0 /\ s.parameters[last] = Empty]

\* exportStep(): the parameters up to the last that is registered.  An empty
\* value leaves no word, only a blank, which matters at the end of the line.
Export(s) ==
  LET last == Max(DOMAIN s.parameters \union {0})
      Word(i) == IF i \notin DOMAIN s.parameters THEN <<Star>>
                 ELSE IF s.parameters[i] = Empty THEN <<>> ELSE <<s.parameters[i]>>
  IN  [kind |-> s.kind,
       words |-> FlattenSeq([i \in 1..last |-> Word(i)]),
       blank |-> last # 0 /\ s.parameters[last] = Empty]

ExportAll == [k \in DOMAIN steps |-> Export(steps[k])]

Command(name, index) ==
  [name |-> name, index |-> index, destination |-> 0, value |-> Empty, recipe |-> <<>>]

Initialize(i, v) == [Command("initialize_parameter", i) EXCEPT !.value = v]

\* The commands that a line of a file stands for.  The words are numbered as
\* they come; a line that ends with a blank has one more value, an empty one.
Import(line) ==
  LET values == IF line.blank THEN Append(line.words, Empty) ELSE line.words
      Set(i) == IF values[i] = Star \/ i \notin Indices THEN <<>>
                ELSE <<Initialize(i, values[i])>>
  IN  <<[Command("add", 0) EXCEPT !.value = line.kind]>>
      \o FlattenSeq([i \in DOMAIN values |-> Set(i)])

ImportAll(recipe) == FlattenSeq([k \in DOMAIN recipe |-> Import(recipe[k])])

(***************************************************************************)
(* The threads that serve the browsers: callback and drop                  *)
(***************************************************************************)
\* How many steps the commands will create
Creates(queue) == FoldLeft(LAMBDA n, c : n + IF c.name = "add" THEN 1 ELSE Len(c.recipe),
                           0, queue)

\* The rest of callback() and drop(): _actions is locked and the command put last.
Enqueue(c) ==
  /\ loop = "sleep"
  /\ nextId + Creates(Append(actions, c)) <= MaxSteps + 1
  /\ Len(actions) < MaxQueue
  /\ actions' = Append(actions, c)
  /\ UNCHANGED <<steps, activeStep, starts, nextId, loop, recipeSaved, manualMode,
                 file, longest>>

Send(c) ==
  /\ commands < MaxCommands /\ commands' = commands + 1
  /\ Enqueue(c)
  /\ UNCHANGED toggling

Positions == 1..longest

Callback ==
  \/ Send(Command("save_recipe", 1)) \/ Send(Command("stop_step", 1))
  \/ \E r \in Recipes \union {file} : Send([Command("load_recipe", 1) EXCEPT !.recipe = r])
  \/ \E k \in Kinds : Send([Command("add", 1) EXCEPT !.value = k])
  \/ \E n \in {"play_step", "remove_step", "move_up_step", "move_down_step"}, i \in Positions :
       Send(Command(n, i))
  \/ \E x \in 1..(nextId - 1), i \in Indices, v \in Values :
       Send([name |-> "parameter", index |-> i, destination |-> x, value |-> v,
             recipe |-> <<>>])

Drop == \E i, j \in Positions : Send([Command("swap_steps", i) EXCEPT !.destination = j])

\* toggle_mode takes effect at once, whoever holds the locks...
ToggleMode ==
  /\ commands < MaxCommands /\ commands' = commands + 1
  /\ manualMode' = ~manualMode
  /\ toggling' = toggling + 1
  /\ UNCHANGED <<steps, activeStep, starts, nextId, actions, loop, recipeSaved, file, longest>>

\* ...and is put into the queue all the same.
QueueToggle ==
  /\ toggling > 0 /\ toggling' = toggling - 1
  /\ Enqueue(Command("toggle_mode", 1))
  /\ UNCHANGED commands

(***************************************************************************)
(* The control loop                                                        *)
(***************************************************************************)
Wake ==
  /\ loop = "sleep"
  /\ loop' = "process"
  /\ UNCHANGED <<steps, activeStep, starts, nextId, actions, recipeSaved, manualMode,
                 toggling, file, longest, commands>>

\* The flag stays set although the command may change the recipe.
Take_KeepSaved(name) ==
  /\ loop = "process" /\ actions # <<>> /\ Head(actions).name = name
  /\ actions' = Tail(actions)
  /\ UNCHANGED <<recipeSaved, loop, manualMode, toggling, file, longest, commands>>

\* The loop takes the first command; all but save_recipe reset _recipeSaved.
Take(name) ==
  /\ loop = "process" /\ actions # <<>> /\ Head(actions).name = name
  /\ actions' = Tail(actions)
  /\ recipeSaved' = FALSE
  /\ UNCHANGED <<loop, manualMode, toggling, file, longest, commands>>

Index == Head(actions).index
Destination == Head(actions).destination

\* finish() of the step at position i and start() of the one at position j,
\* 0 for none
Switch(i, j) ==
  LET finished == IF i = 0 THEN starts ELSE [starts EXCEPT ![steps[i].id] = @ - 1]
  IN  starts' = IF j = 0 THEN finished ELSE [finished EXCEPT ![steps[j].id] = @ + 1]

Save ==
  /\ loop = "process" /\ actions # <<>> /\ Head(actions).name = "save_recipe"
  /\ actions' = Tail(actions)
  /\ recipeSaved' = TRUE
  /\ file' = ExportAll
  /\ UNCHANGED <<steps, activeStep, starts, nextId, loop, manualMode, toggling, longest,
                 commands>>

\* The steps are deleted, the commands that wait are forgotten, and those of
\* the file take their place.
Load ==
  /\ loop = "process" /\ actions # <<>> /\ Head(actions).name = "load_recipe"
  /\ Switch(activeStep, 0)
  /\ activeStep' = 0 /\ steps' = <<>>
  /\ recipeSaved' = FALSE
  /\ actions' = ImportAll(Head(actions).recipe)
  /\ UNCHANGED <<nextId, loop, manualMode, toggling, file, longest, commands>>

Add ==
  /\ Take("add")
  /\ steps' = Append(steps, NewStep(Head(actions).value))
  /\ nextId' = nextId + 1
  /\ UNCHANGED <<activeStep, starts>>

Play ==
  /\ Take("play_step")
  /\ IF Index \in DOMAIN steps
     THEN Switch(activeStep, Index) /\ activeStep' = Index
     ELSE UNCHANGED <<starts, activeStep>>
  /\ UNCHANGED <<steps, nextId>>

Stop ==
  /\ Take("stop_step")
  /\ Switch(activeStep, 0)
  /\ activeStep' = 0
  /\ UNCHANGED <<steps, nextId>>

\* The active step moves up in the list, but its position does not.
RemoveStep_KeepActive ==
  /\ Take("remove_step")
  /\ IF Index \in DOMAIN steps
     THEN /\ Switch(IF activeStep = Index THEN Index ELSE 0, 0)
          /\ activeStep' = IF activeStep = Index THEN 0 ELSE activeStep
          /\ steps' = RemoveAt(steps, Index)
     ELSE UNCHANGED <<starts, activeStep, steps>>
  /\ UNCHANGED nextId

RemoveStep ==
  /\ Take("remove_step")
  /\ IF Index \in DOMAIN steps
     THEN /\ Switch(IF activeStep = Index THEN Index ELSE 0, 0)
          /\ activeStep' = IF activeStep = Index THEN 0
                           ELSE IF activeStep > Index THEN activeStep - 1 ELSE activeStep
          /\ steps' = RemoveAt(steps, Index)
     ELSE UNCHANGED <<starts, activeStep, steps>>
  /\ UNCHANGED nextId

\* Two neighbours change places, and the active step may be one of them.
Exchange(i, j) ==
  /\ steps' = [steps EXCEPT ![i] = steps[j], ![j] = steps[i]]
  /\ activeStep' = IF activeStep = i THEN j ELSE IF activeStep = j THEN i ELSE activeStep

MoveDown ==
  /\ Take("move_down_step")
  /\ IF Index + 1 \in DOMAIN steps THEN Exchange(Index, Index + 1)
                                   ELSE UNCHANGED <<steps, activeStep>>
  /\ UNCHANGED <<starts, nextId>>

MoveUp ==
  /\ Take("move_up_step")
  /\ IF Index \in DOMAIN steps /\ Index > 1 THEN Exchange(Index, Index - 1)
                                            ELSE UNCHANGED <<steps, activeStep>>
  /\ UNCHANGED <<starts, nextId>>

\* The step is inserted before the one it is dropped on, wherever it comes from.
Moved_Before(i, j) ==
  InsertAt(RemoveAt(steps, i), IF i < j THEN j - 1 ELSE j, steps[i])

\* _steps with the step at position i erased and inserted at position j
Moved(i, j) == InsertAt(RemoveAt(steps, i), j, steps[i])

Swap ==
  /\ Take("swap_steps")
  /\ IF Index \in DOMAIN steps /\ Destination \in DOMAIN steps /\ Index # Destination
     THEN /\ steps' = Moved(Index, Destination)
          /\ activeStep' =
               IF activeStep = 0 THEN 0
               ELSE IF activeStep = Index THEN Destination
               ELSE LET closed == IF activeStep > Index THEN activeStep - 1 ELSE activeStep
                    IN  IF closed >= Destination THEN closed + 1 ELSE closed
     ELSE UNCHANGED <<steps, activeStep>>
  /\ UNCHANGED <<starts, nextId>>

\* A command with the name of a step sets a parameter of that step.
Parameter ==
  /\ Take("parameter")
  /\ steps' = [k \in DOMAIN steps |->
                 IF steps[k].id = Destination
                 THEN SetParameter(steps[k], Index, Head(actions).value) ELSE steps[k]]
  /\ UNCHANGED <<activeStep, starts, nextId>>

\* A parameter of the line of a file is one of the step created last.
InitializeParameter ==
  /\ Take("initialize_parameter")
  /\ steps' = IF steps = <<>> THEN steps
              ELSE [steps EXCEPT ![Len(steps)] =
                      SetParameter(@, Index, Head(actions).value)]
  /\ UNCHANGED <<activeStep, starts, nextId>>

\* No command of the loop, but the recipe does not count as saved any more.
IgnoreToggle ==
  /\ Take("toggle_mode")
  /\ UNCHANGED <<steps, activeStep, starts, nextId>>

\* The commands are done, and the active step does a part of its work; when
\* it is finished and the mode is automatic, the next one is started.
Perform ==
  /\ loop = "process" /\ actions = <<>>
  /\ loop' = "sleep"
  /\ longest' = Max({longest, Len(steps)})
  /\ \/ UNCHANGED <<activeStep, starts>>
     \/ /\ activeStep # 0 /\ ~manualMode
        /\ activeStep' = IF activeStep < Len(steps) THEN activeStep + 1 ELSE 0
        /\ Switch(activeStep, activeStep')
  /\ UNCHANGED <<steps, nextId, actions, recipeSaved, manualMode, toggling, file, commands>>

(***************************************************************************)
(* The specification                                                       *)
(***************************************************************************)
Process == \/ Save \/ Load \/ Add \/ Play \/ Stop \/ RemoveStep \/ MoveDown \/ MoveUp
           \/ Swap \/ Parameter \/ InitializeParameter \/ IgnoreToggle

Next == Callback \/ Drop \/ ToggleMode \/ QueueToggle \/ Wake \/ Process \/ Perform

Spec == Init /\ [][Next]_vars

(***************************************************************************)
(* Properties                                                              *)
(***************************************************************************)
Step == [id : Ids, kind : Kinds,
         parameters : UNION {[S -> Values] : S \in SUBSET Indices},
         settings : [Indices -> Values \union {Default}]]

Names == {"save_recipe", "load_recipe", "add", "parameter", "initialize_parameter",
          "play_step", "stop_step", "remove_step", "move_up_step", "move_down_step",
          "swap_steps", "toggle_mode"}

\* Every page shows a command with a position from 1 on.
QueuedCommand ==
  {c \in [name : Names, index : Nat, destination : Nat, value : Values \union Kinds,
          recipe : Seq(RecipeLine)] :
     /\ c.name = "add" => c.value \in Kinds
     /\ c.name \in {"parameter", "initialize_parameter"}
        => c.index \in Indices /\ c.value \in Values
     /\ c.name = "move_down_step" => c.index # 0}

TypeOK ==
  /\ steps \in Seq(Step)
  /\ actions \in Seq(QueuedCommand) /\ file \in Seq(RecipeLine)
  /\ activeStep \in 0..Len(steps)
  /\ starts \in [Ids -> {0, 1}]
  /\ nextId \in 1..(MaxSteps + 1)
  /\ loop \in {"sleep", "process"}
  /\ recipeSaved \in BOOLEAN /\ manualMode \in BOOLEAN
  /\ toggling \in 0..MaxCommands /\ longest \in 0..MaxSteps /\ commands \in 0..MaxCommands

\* A step has been started and not finished if and only if it is the active
\* one, however the list is edited meanwhile: never are two steps running,
\* none is started or finished twice, and none is deleted while it runs.
OnlyActiveRuns ==
  \A x \in Ids :
    starts[x] = IF activeStep \in DOMAIN steps /\ steps[activeStep].id = x THEN 1 ELSE 0

\* The recipe that is offered for download is the one on the page.
SavedIsCurrent == recipeSaved => file = ExportAll

\* A drop moves one step to the place of the one it is dropped on, and the
\* others keep their order, each as it was.
Before(s, t, list) == \E i, j \in DOMAIN list : i < j /\ list[i] = s /\ list[j] = t

DropMovesOne == [][
  (/\ loop = "process" /\ actions # <<>> /\ Head(actions).name = "swap_steps"
   /\ actions' = Tail(actions)
   /\ {Index, Destination} \subseteq DOMAIN steps)
  => /\ Len(steps') = Len(steps)
     /\ steps'[Destination] = steps[Index]
     /\ \A i, j \in DOMAIN steps \ {Index} : i < j => Before(steps[i], steps[j], steps')]_vars

\* What a line of a file makes of a new step
Restored(line) ==
  FoldLeft(LAMBDA s, c : SetParameter(s, c.index, c.value), NewStep(line.kind),
           Tail(Import(line)))

\* The parameters of a step "are used to import/export the recipe"
\* (userpages.h:82): loading a file restores the steps that were saved, unless
\* a value was empty or refused.  (callbackParameter registers a value before
\* setParameter refuses it, and an empty value leaves no word in its line.)
Plain(s) == \A i \in DOMAIN s.parameters :
              /\ s.parameters[i] # Empty
              /\ <<s.kind, i, s.parameters[i]>> \notin Refused

PlainStepsRestored == \A k \in DOMAIN steps :
  Plain(steps[k]) => Restored(Export(steps[k])).settings = steps[k].settings
=============================================================================
