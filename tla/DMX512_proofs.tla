---------------------------- MODULE DMX512_proofs ----------------------------
(***************************************************************************)
(* Proofs about the DMX512 devices, for every set of nodes, every width of *)
(* their values and every number of queued updates.                        *)
(***************************************************************************)
EXTENDS DMX512, TLAPS

-----------------------------------------------------------------------------
(* NodeData *)

\* What a byte can hold.
LEMMA ClipType == ASSUME NEW v \in Int PROVE Clip(v) \in Value
BY LevelAssumption DEF LevelAssumption, Clip, Value

\* A node stays a node through every step of a fade ...
LEMMA AdjustedType ==
    ASSUME NEW d \in NodeData
    PROVE  Adjusted(d) \in NodeData
<1>1. d.value \in Int /\ Goal(d) \in Int /\ Step(d) \in Int
  BY LevelAssumption DEF NodeData, Value, Goal, Step, LevelAssumption
<1>2. d.value + (IF d.value < Goal(d) THEN Step(d) ELSE -Step(d)) \in Int
  BY <1>1
<1>3. Stepped(d) \in Value
  BY <1>2, ClipType DEF Stepped
<1> QED
  BY <1>3 DEF Adjusted, Finished, NodeData

\* ... and through every command.
LEMMA EffectType ==
    ASSUME NEW c \in Commands, NEW d \in NodeData
    PROVE  Effect(c, d) \in NodeData
<1>1. /\ DefaultLevel \in Value /\ Levels \subseteq Int /\ MaxValue \in Nat
      /\ 0 \in Value
  BY LevelAssumption DEF LevelAssumption, Value
<1>2. c[1] \in {"off", "on", "other", "adjust", "set"}
  BY DEF Commands
<1>21. c[2] \in Int
  <2>1. CASE c \in {"off", "on", "other"} \X {0}
    BY <2>1
  <2>2. CASE c \in {"adjust", "set"} \X Levels
    BY <1>1, <2>2
  <2> QED
    BY <2>1, <2>2 DEF Commands
<1>3. d.target \in Value /\ d.target + c[2] \in Int
  BY <1>1, <1>21 DEF NodeData, Value
<1>4. Clip(d.target + c[2]) \in Value
  BY <1>3, ClipType
<1>5. c[2] % (MaxValue + 1) \in Value
  BY <1>1, <1>21 DEF Value
<1>6. CASE c[1] = "off"
  BY <1>6 DEF Effect, Disable, NodeData
<1>7. CASE c[1] = "on"
  BY <1>1, <1>7 DEF Effect, Enable, NodeData
<1>8. CASE c[1] = "adjust"
  BY <1>4, <1>8 DEF Effect, Enable, NodeData
<1>9. CASE c[1] = "set"
  BY <1>5, <1>9 DEF Effect, SetValue, NodeData
<1>10. CASE c[1] = "other"
  BY <1>10 DEF Effect
<1> QED
  BY <1>2, <1>6, <1>7, <1>8, <1>9, <1>10

\* Device.h 93: what a step of a fade does not move has nowhere to go.
LEMMA FinishedRests ==
    ASSUME NEW d \in NodeData, ~Moves(d)
    PROVE  /\ ~Moves(Adjusted(d))
           /\ Adjusted(d).value = d.value
BY DEF Adjusted, Finished, Moves, Goal, NodeData

\* Neither a command nor a step of a fade leaves a light on behind `disabled'.
LEMMA StaysDark ==
    ASSUME NEW d \in NodeData, d.state = "disabled" => d.value = 0
    PROVE  /\ Adjusted(d).state = "disabled" => Adjusted(d).value = 0
           /\ \A c \in Commands :
                 Effect(c, d).state = "disabled" => Effect(c, d).value = 0
<1>1. Adjusted(d).state = "disabled" => Adjusted(d).value = 0
  BY DEF Adjusted, Finished, Moves, Goal, NodeData
<1>2. ASSUME NEW c \in Commands
      PROVE  Effect(c, d).state = "disabled" => Effect(c, d).value = 0
  <2>1. c[1] \in {"off", "on", "other", "adjust", "set"}
    BY DEF Commands
  <2> QED
    BY <2>1 DEF Effect, Disable, Enable, SetValue, NodeData
<1> QED
  BY <1>1, <1>2

-----------------------------------------------------------------------------
(* Types *)

\* Sending leaves every node a node and puts a byte of each into the frame.
LEMMA SendType ==
    ASSUME NEW d \in [Node -> NodeData], SendSlaves(d)
    PROVE  /\ node' \in [Node -> NodeData]
           /\ sent' \in [Node -> Value]
           /\ updating' = TRUE
<1>1. ASSUME NEW n \in Node
      PROVE  Adjusted(d[n]) \in NodeData /\ Adjusted(d[n]).value \in Value
  <2>1. Adjusted(d[n]) \in NodeData
    BY AdjustedType
  <2> QED
    BY <2>1 DEF NodeData
<1> QED
  BY <1>1 DEF SendSlaves

\* What the nodes are once command c has been carried out for those of S.
Commanded(S, c) == [n \in Node |-> IF n \in S THEN Effect(c, node[n]) ELSE node[n]]

\* They are nodes.
LEMMA CommandedType ==
    ASSUME NEW S, NEW c \in Commands, node \in [Node -> NodeData]
    PROVE  Commanded(S, c) \in [Node -> NodeData]
<1>1. ASSUME NEW n \in Node
      PROVE  (IF n \in S THEN Effect(c, node[n]) ELSE node[n]) \in NodeData
  <2>1. node[n] \in NodeData
    OBVIOUS
  <2> QED
    BY <2>1, EffectType
<1> QED
  BY <1>1 DEF Commanded

\* An update that holds the bus has been queued and has sent.
BusBusy == onBus => updating /\ updates > 0

\* Every step leaves each variable its type.
LEMMA TypeStep ==
    ASSUME TypeOK, BusBusy, [Next]_vars
    PROVE  TypeOK'
<1> USE DEF TypeOK
<1>1. ASSUME NEW S \in Selection, NEW c \in Commands, Command(S, c)
      PROVE  TypeOK'
  <2> DEFINE d == Commanded(S, c)
  <2>1. d \in [Node -> NodeData]
    BY CommandedType
  <2>2. /\ NotifyChange
        /\ dataChanged' = TRUE
        /\ IF onBus THEN SendSlaves(d) ELSE node' = d /\ UNCHANGED <<updating, sent>>
        /\ UNCHANGED <<updates, onBus>>
    BY <1>1 DEF Command, Commanded
  <2> HIDE DEF d
  <2>3. /\ node' \in [Node -> NodeData]
        /\ sent' \in [Node -> Value]
        /\ updating' \in BOOLEAN
    BY <2>1, <2>2, SendType
  <2> QED
    BY <2>2, <2>3 DEF NotifyChange
<1>2. CASE TimerFires
  BY <1>2, UpdateAssumption DEF TimerFires, UpdateAssumption
<1>3. CASE Execute
  <2>1. /\ node' \in [Node -> NodeData]
        /\ sent' \in [Node -> Value]
        /\ updating' = TRUE
    BY <1>3, SendType DEF Execute
  <2>2. dataChanged' \in BOOLEAN
    BY <1>3 DEF Execute, AfterAdjusting
  <2> QED
    BY <1>3, <2>1, <2>2 DEF Execute
<1>4. CASE TransmitComplete
  <2>1. updates' \in 0 .. MaxUpdates /\ onBus' = FALSE
    BY <1>4, UpdateAssumption DEF BusBusy, TransmitComplete, Complete, UpdateAssumption
  <2>2. timer' \in {"changed", "periodic"}
    BY <1>4 DEF TransmitComplete, ScheduleNext
  <2> QED
    BY <1>4, <2>1, <2>2 DEF TransmitComplete
<1>5. CASE Timeout
  <2>1. updates' \in 0 .. MaxUpdates /\ onBus' = FALSE
    BY <1>5, UpdateAssumption DEF BusBusy, Timeout, Complete, UpdateAssumption
  <2> QED
    BY <1>5, <2>1 DEF Timeout
<1>6. CASE Reload
  <2>1. Blank \in NodeData
    BY LevelAssumption DEF LevelAssumption, Blank, NodeData, Value
  <2> QED
    BY <1>6, <2>1 DEF Reload
<1>7. CASE UNCHANGED vars
  BY <1>7 DEF vars, cycleVars
<1> QED
  BY <1>1, <1>2, <1>3, <1>4, <1>5, <1>6, <1>7 DEF Next, SomeCommand

-----------------------------------------------------------------------------
(* The cycle *)

\* What ChangesGoOut promises of a change: an update will read it.
Soon ==
    \/ timer = "changed"
    \/ updates > 0 /\ ~onBus
    \/ updates > 1
    \/ onBus /\ dataChanged
    \/ Failed

\* A change has been made that no frame has sent.
Pending == dataChanged \/ \E n \in Node : Unsent(n)

\* The inductive invariant.  The flag counts as a change of its own, because
\* it keeps a command from starting the timer, and what is changed during an
\* update is flagged, because the end of the update looks at nothing else.
Cycle ==
    /\ TypeOK
    /\ BusBusy
    /\ Pending => Soon
    /\ onBus /\ (\E n \in Node : Unsent(n)) => dataChanged
    /\ StopsOnFailure
    /\ DisabledDark

\* It holds when the devices have been initialised.
LEMMA CycleInit == Init => Cycle
<1> SUFFICES ASSUME Init PROVE Cycle
  OBVIOUS
<1>1. 0 \in Value /\ Blank \in NodeData
  BY LevelAssumption DEF LevelAssumption, Blank, NodeData, Value
<1>2. TypeOK
  <2>1. node \in [Node -> NodeData] /\ sent \in [Node -> Value]
    BY <1>1 DEF Init
  <2>2. 0 \in 0 .. MaxUpdates
    BY UpdateAssumption DEF UpdateAssumption
  <2> QED
    BY <2>1, <2>2 DEF Init, TypeOK
<1>3. BusBusy /\ Soon /\ ~onBus /\ StopsOnFailure
  BY DEF Init, BusBusy, Soon, StopsOnFailure, KeepsPumping
<1>4. DisabledDark
  BY DEF Init, DisabledDark, Blank
<1> QED
  BY <1>2, <1>3, <1>4 DEF Cycle

\* What a frame just sent leaves unsaid is the next step of some fade, and then
\* there was one to make before.
LEMMA SentAll ==
    ASSUME NEW d \in [Node -> NodeData], SendSlaves(d),
           NEW n \in Node, Unsent(n)'
    PROVE  Moves(d[n])
<1>1. node'[n] = Adjusted(d[n]) /\ sent'[n] = Adjusted(d[n]).value
  BY DEF SendSlaves
<1>2. Moves(Adjusted(d[n]))
  BY <1>1 DEF Unsent
<1> QED
  BY <1>2, FinishedRests

\* Sending keeps dark what is disabled.
LEMMA SendDark ==
    ASSUME NEW d \in [Node -> NodeData], SendSlaves(d),
           \A n \in Node : d[n].state = "disabled" => d[n].value = 0
    PROVE  DisabledDark'
<1> SUFFICES ASSUME NEW n \in Node, node'[n].state = "disabled"
             PROVE  node'[n].value = 0
  BY DEF DisabledDark
<1>1. node'[n] = Adjusted(d[n])
  BY DEF SendSlaves
<1>2. d[n] \in NodeData /\ (d[n].state = "disabled" => d[n].value = 0)
  OBVIOUS
<1> QED
  BY <1>1, <1>2, StaysDark

\* Every step keeps the invariant.
LEMMA CycleStep ==
    ASSUME Cycle, [Next]_vars
    PROVE  Cycle'
<1> USE DEF Cycle
<1>0. TypeOK' /\ node \in [Node -> NodeData] /\ updates \in Nat
  BY TypeStep DEF TypeOK
<1>1. ASSUME NEW S \in Selection, NEW c \in Commands, Command(S, c)
      PROVE  Cycle'
  <2> DEFINE d == Commanded(S, c)
  <2>1. d \in [Node -> NodeData]
    BY <1>0, CommandedType
  <2>2. /\ NotifyChange
        /\ dataChanged' = TRUE
        /\ IF onBus THEN SendSlaves(d) ELSE node' = d /\ UNCHANGED <<updating, sent>>
        /\ UNCHANGED <<updates, onBus>>
    BY <1>1 DEF Command, Commanded
  <2>3. ASSUME NEW n \in Node
        PROVE  d[n].state = "disabled" => d[n].value = 0
    <3>1. node[n] \in NodeData /\ (node[n].state = "disabled" => node[n].value = 0)
      BY <1>0 DEF DisabledDark
    <3>2. d[n] = IF n \in S THEN Effect(c, node[n]) ELSE node[n]
      BY DEF Commanded
    <3> QED
      BY <3>1, <3>2, StaysDark
  <2> HIDE DEF d
  <2>4. DisabledDark'
    <3>1. CASE onBus
      BY <2>1, <2>2, <2>3, <3>1, SendDark
    <3>2. CASE ~onBus
      BY <2>2, <2>3, <3>2 DEF DisabledDark
    <3> QED
      BY <3>1, <3>2
  <2>5. updating' = updating \/ updating' = TRUE
    BY <2>2 DEF SendSlaves
  <2>6. Failed => Failed'
    BY <2>2, <2>5 DEF Failed
  <2>7. BusBusy'
    BY <2>2, <2>5 DEF BusBusy
  <2>8. Soon'
    BY <2>2, <2>6 DEF NotifyChange, Pending, Soon
  <2>9. StopsOnFailure'
    BY <2>2, <2>6 DEF NotifyChange, StopsOnFailure, KeepsPumping
  <2> QED
    BY <1>0, <2>2, <2>4, <2>7, <2>8, <2>9
<1>2. CASE TimerFires
  <2>1. UNCHANGED <<node, dataChanged, updating, onBus, sent>> /\ updates' = updates + 1
    BY <1>2 DEF TimerFires
  <2>2. BusBusy' /\ StopsOnFailure' /\ Soon'
    BY <1>0, <2>1 DEF BusBusy, StopsOnFailure, KeepsPumping, Soon
  <2>3. DisabledDark' /\ (\A n \in Node : Unsent(n)' <=> Unsent(n))
    BY <2>1 DEF DisabledDark, Unsent
  <2> QED
    BY <1>0, <2>1, <2>2, <2>3
<1>3. CASE Execute
  <2>1. /\ updates > 0 /\ onBus' = TRUE /\ dataChanged' = AfterAdjusting
        /\ SendSlaves(node) /\ updating' = TRUE /\ updates' = updates
    BY <1>3 DEF Execute, SendSlaves
  <2>2. BusBusy' /\ StopsOnFailure'
    BY <2>1 DEF BusBusy, StopsOnFailure, KeepsPumping
  <2>3. DisabledDark'
    BY <1>0, <2>1, SendDark DEF DisabledDark
  <2>4. (\E n \in Node : Unsent(n)') => dataChanged'
    BY <1>0, <2>1, SentAll DEF AfterAdjusting
  <2>5. Pending' => Soon'
    BY <2>1, <2>4 DEF Pending, Soon
  <2> QED
    BY <1>0, <2>2, <2>3, <2>4, <2>5
<1>4. CASE TransmitComplete
  <2>1. /\ onBus /\ onBus' = FALSE /\ dataChanged' = FALSE
        /\ timer' = IF dataChanged THEN "changed" ELSE "periodic"
        /\ UNCHANGED <<node, sent>>
    BY <1>4 DEF TransmitComplete, ScheduleNext, Complete
  <2>2. DisabledDark' /\ (\A n \in Node : Unsent(n)' <=> Unsent(n))
    BY <2>1 DEF DisabledDark, Unsent
  <2>3. Pending' => Soon'
    BY <2>1, <2>2 DEF Pending, Soon
  <2> QED
    BY <1>0, <2>1, <2>2, <2>3 DEF BusBusy, StopsOnFailure, KeepsPumping
<1>5. CASE Timeout
  <2>1. /\ onBus /\ onBus' = FALSE /\ updating' = updating
        /\ UNCHANGED <<node, sent>>
    BY <1>5 DEF Timeout, Complete
  <2>2. DisabledDark'
    BY <2>1 DEF DisabledDark
  <2>3. Failed'
    BY <2>1 DEF BusBusy, Failed
  <2> QED
    BY <1>0, <2>1, <2>2, <2>3 DEF BusBusy, StopsOnFailure, Soon
<1>6. CASE Reload
  <2>1. /\ node' = [n \in Node |-> Blank] /\ timer' = "changed"
        /\ updates = 0 /\ onBus' = onBus
    BY <1>6 DEF Reload
  <2>2. DisabledDark'
    BY <2>1 DEF DisabledDark, Blank
  <2>3. ~onBus'
    BY <2>1 DEF BusBusy
  <2> QED
    BY <1>0, <2>1, <2>2, <2>3 DEF BusBusy, StopsOnFailure, KeepsPumping, Soon
<1>7. CASE UNCHANGED vars
  BY <1>0, <1>7 DEF vars, cycleVars, BusBusy, Pending, Soon, Unsent, Failed,
                    StopsOnFailure, KeepsPumping, DisabledDark
<1> QED
  BY <1>1, <1>2, <1>3, <1>4, <1>5, <1>6, <1>7 DEF Next, SomeCommand

-----------------------------------------------------------------------------
(* Theorems *)

\* The invariant holds throughout.
LEMMA CycleInvariant == Spec => []Cycle
BY CycleInit, CycleStep, PTL DEF Spec

\* Device.h 59-130, Device.cpp: every node stays a node, every byte sent a byte,
\* and no more updates are queued than there is room for.
THEOREM TypeCorrect == Spec => []TypeOK
<1>1. Cycle => TypeOK
  BY DEF Cycle
<1> QED
  BY <1>1, CycleInvariant, PTL

\* Device.cpp 199-213: as long as updates end with TransmitComplete the cycle
\* goes on, whichever way commands, updates and reloads overlap.
THEOREM FailureOnly == Spec => []StopsOnFailure
<1>1. Cycle => StopsOnFailure
  BY DEF Cycle
<1> QED
  BY <1>1, CycleInvariant, PTL

\* Device.cpp 64-66: a change is never stranded: an update that will read it is
\* due after the short interval, is queued, or is followed by one; or an update
\* has failed.
THEOREM NoLostChange == Spec => []ChangesGoOut
<1>1. Cycle => ChangesGoOut
  BY DEF Cycle, ChangesGoOut, Pending, Soon
<1> QED
  BY <1>1, CycleInvariant, PTL

\* Device.h 76-91: a light that updates no longer look at is out.
THEOREM DarkWhenDisabled == Spec => []DisabledDark
<1>1. Cycle => DisabledDark
  BY DEF Cycle
<1> QED
  BY <1>1, CycleInvariant, PTL
=============================================================================
