------------------------------- MODULE Manager -------------------------------
(***************************************************************************)
(* The device manager (src/src/DeviceManager.cpp) over the controllers'    *)
(* device lists and queues: the devices a configuration creates, and the   *)
(* messages to one device or to a group of them that become requests.      *)
(*                                                                         *)
(* A message is handled without interruption, in the steps of its loops.   *)
(* Relay boards (R421A) queue their requests and answer later; lights      *)
(* (DMX512) complete theirs inside submit().  How a queue executes is the  *)
(* business of Controller, how a board switches of R421A: here a request   *)
(* at the head of a queue succeeds or fails in one step.                   *)
(***************************************************************************)
EXTENDS Integers, Sequences, FiniteSets, SequencesExt, Functions

CONSTANTS
    Order,          \* the device ids, in the order of the configuration
    Controller,     \* the registered controllers
    ClassOf,        \* classname() of each
    Configs,        \* the configurations begin() is given: device id -> entry
    Messages,       \* the messages handleMessage() is given
    MaxChannels,    \* R421A_MAX_CHANNELS
    MaxRequests     \* requests the heap can hold

Device  == Range(Order)
Command == {"undefined", "query", "off", "on", "toggle"}

\* What a configuration says of a device.
Entry == [controller : Controller \cup {"unknown"}, class : {"relay", "light", "unknown"},
          address : Nat, baudrate : Nat, count : Nat]

\* What a message says of one device: all of its nodes, or those listed.
Element == [device : Device \cup {"unknown"}, command : Command \cup {"bad"},
            all : BOOLEAN, nodes : Seq(Nat)]

\* A list of "devices" has their ids and no more; without a list there is one
\* element, and the command is its own.
Message == {m \in [form : {"devices", "devnodes", "single"}, command : Command,
                   elements : Seq(Element)] :
    /\ m.form = "devices" => \A e \in Range(m.elements) : e.command = "undefined" /\ e.all
    /\ m.form = "single"  => m.command = "undefined" /\ Len(m.elements) = 1}

ASSUME OrderAssumption   == Order \in Seq(Range(Order)) /\ IsInjective(Order)
ASSUME ClassAssumption   == ClassOf \in [Controller -> {"rs485", "rfswitch"}]
ASSUME ConfigAssumption  == \A f \in Configs : DOMAIN f \subseteq Device
                                               /\ \A d \in DOMAIN f : f[d] \in Entry
ASSUME MessageAssumption == Messages \subseteq Message
ASSUME HeapAssumption    == MaxChannels \in Nat /\ MaxRequests \in Nat

VARIABLES
    devices,     \* Controller::devices: the objects, by device id
    queue,       \* Controller::queue
    restart,     \* Controller::deviceCheckTimer is armed
    phase,       \* of handleMessage()
    message,     \* what it has not yet read of its message
    built,       \* its local list of requests
    allocated,   \* request objects on the heap
    output,      \* the nodes of each device that are really on
    epoch,       \* tells the objects of one begin() from the last one's
    toggled      \* history: the group toggle nothing has interfered with

objectVars  == <<devices, restart, epoch>>
messageVars == <<phase, message, built>>
vars        == <<objectVars, messageVars, queue, allocated, output, toggled>>

NoToggle == [nodes |-> {}, to |-> "either"]

Object == [controller : Controller, class : {"relay", "light"}, nodes : SUBSET Nat,
           state : {"stopped", "starting", "fault", "normal"},
           known : SUBSET Nat, states : SUBSET Nat, epoch : 0 .. 1]

Idle  == phase = "idle"
Quiet == Idle /\ \A c \in Controller : queue[c] = <<>>

Requests == Range(built) \cup UNION {Range(queue[c]) : c \in Controller}

TypeOK ==
    /\ DOMAIN devices \subseteq Device
    /\ \A d \in DOMAIN devices : LET o == devices[d] IN
          /\ o.controller \in Controller
          /\ o.state \in {"stopped", "starting", "fault", "normal"}
          /\ o.known \subseteq o.nodes /\ o.states \subseteq o.nodes
    /\ DOMAIN queue = Controller
    /\ \A r \in Requests : r.command \in Command /\ r.nodes \subseteq devices[r.device].nodes
    /\ restart \in [Controller -> BOOLEAN]
    /\ phase \in {"idle", "building", "submitting"}
    /\ allocated \in 0 .. MaxRequests
    /\ DOMAIN output = Device
    /\ epoch \in 0 .. 1

Init ==
    /\ devices = [d \in {} |-> 0]
    /\ queue = [c \in Controller |-> <<>>]
    /\ restart = [c \in Controller |-> FALSE]
    /\ phase = "idle"
    /\ message = <<>>
    /\ built = <<>>
    /\ allocated = 0
    /\ output = [d \in Device |-> {}]
    /\ epoch = 0
    /\ toggled = NoToggle

-----------------------------------------------------------------------------
(* Configuration *)

\* findController(), findDeviceClass(), constructDevice()
Constructed(e) == /\ e.controller \in Controller
                  /\ e.class # "unknown"
                  /\ ClassOf[e.controller] = "rs485"

\* The init() of both classes: only a DMX512 device has defaults.
Initialised(e) == e.class = "light" \/ (e.address # 0 /\ e.baudrate # 0)

\* nodeIdMin() .. nodeIdMax()
NodesOf(e) ==
    IF e.class = "relay" THEN 1 .. (IF e.count < MaxChannels THEN e.count ELSE MaxChannels)
                         ELSE 0 .. (IF e.count = 0 THEN 0 ELSE e.count - 1)

NewObject(e, n) ==
    [controller |-> e.controller, class |-> e.class, nodes |-> NodesOf(e),
     state |-> "stopped", known |-> {}, states |-> {}, epoch |-> n]

\* A device that cannot be created is left out; the others are.
Created(f, n) ==
    [d \in {d \in DOMAIN f : Constructed(f[d]) /\ Initialised(f[d])} |-> NewObject(f[d], n)]

Query(d, objects) ==
    [device |-> d, epoch |-> objects[d].epoch, command |-> "query", nodes |-> objects[d].nodes]

\* The positions, in Order, of the devices of c that Device::start() makes a
\* request for.
Due(c, objects) == {i \in DOMAIN Order :
    /\ Order[i] \in DOMAIN objects
    /\ LET o == objects[Order[i]]
       IN o.controller = c /\ o.class = "relay" /\ o.state \notin {"normal", "starting"}}

\* These devices in order: the k-th one is due and the last of k that are.
ToStart(c, objects) ==
    LET due     == Due(c, objects)
        Rank(i) == Cardinality({j \in due : j <= i})
    IN [k \in 1 .. Cardinality(due) |-> Order[CHOOSE i \in due : Rank(i) = k]]

\* startDevices() of c, with room for n requests: who gets a query.
Started(c, objects, n) ==
    LET due == ToStart(c, objects)
    IN SubSeq(due, 1, IF Len(due) < n THEN Len(due) ELSE n)

Starting(S, objects) ==
    [d \in DOMAIN objects |->
        IF d \in S THEN [objects[d] EXCEPT !.state = "starting"] ELSE objects[d]]

\* The places of the lists q, a list for every controller.
Places(q) == UNION {{c} \X DOMAIN q[c] : c \in Controller}

Queries(ds, objects) == [i \in DOMAIN ds |-> Query(ds[i], objects)]

\* begin(), when end() did not find a controller busy; devices that light up
\* do so from nothing, a board's relays are as they were.  Each controller in
\* turn finds room for so many queries: the heap also holds the configuration.
BeginWith(f) ==
    LET n   == 1 - epoch
        new == Created(f, n) IN
    \E room \in [Controller -> 0 .. MaxRequests] :
        LET begun == [c \in Controller |-> Started(c, new, room[c])] IN
        /\ allocated + Cardinality(Places(begun)) <= MaxRequests
        /\ epoch' = n
        /\ devices' = Starting(UNION {Range(begun[c]) : c \in Controller}, new)
        /\ queue' = [c \in Controller |-> queue[c] \o Queries(begun[c], new)]
        /\ allocated' = allocated + Cardinality(Places(begun))
        /\ restart' = [c \in Controller |-> Len(begun[c]) < Len(ToStart(c, new))]
        /\ output' = [d \in Device |->
              IF d \in DOMAIN new /\ new[d].class = "relay" THEN output[d] ELSE {}]
        /\ toggled' = NoToggle

CanStopSome == \E c \in Controller : queue[c] = <<>>

CanStop == \A c \in Controller : queue[c] = <<>>

Begin(f) ==
    /\ Idle
    /\ CanStop
    /\ BeginWith(f)
    /\ UNCHANGED messageVars

\* stop(): the objects stay, but their restart timers do not.
Stop ==
    /\ Idle
    /\ CanStop
    /\ restart' = [c \in Controller |-> FALSE]
    /\ UNCHANGED <<devices, epoch, messageVars, queue, allocated, output, toggled>>

\* end()
End ==
    /\ Idle
    /\ CanStop
    /\ restart' = [c \in Controller |-> FALSE]
    /\ devices' = [d \in {} |-> 0]
    /\ toggled' = NoToggle
    /\ UNCHANGED <<epoch, messageVars, queue, allocated, output>>

\* The restart timer of c: startDevices().
Restart(c) ==
    LET due     == ToStart(c, devices)
        started == Started(c, devices, MaxRequests - allocated) IN
    /\ Idle
    /\ restart[c]
    /\ restart' = [restart EXCEPT ![c] = Len(started) < Len(due)]
    /\ devices' = Starting(Range(started), devices)
    /\ queue' = [queue EXCEPT ![c] = @ \o Queries(started, devices)]
    /\ allocated' = allocated + Len(started)
    /\ UNCHANGED <<epoch, messageVars, output, toggled>>

-----------------------------------------------------------------------------
(* Messages *)

\* handleMessage(): a group whose command is unknown is not read at all.
Handle(m) ==
    /\ Idle
    /\ phase' = "building"
    /\ message' = m
    /\ toggled' = NoToggle
    /\ UNCHANGED <<objectVars, built, queue, allocated, output>>

\* setNode() collects the relays asked for, but keeps one node of a light.
Selected(e) ==
    LET o == devices[e.device] IN
    CASE e.all                                                -> o.nodes
      [] ~e.all /\ o.class = "relay"                          -> Range(e.nodes)
      [] ~e.all /\ o.class = "light" /\ Len(e.nodes) > 0      -> {Last(e.nodes)}
      [] ~e.all /\ o.class = "light" /\ Len(e.nodes) = 0      -> {0}

CommandFor(e) == IF e.command = "undefined" THEN message.command ELSE e.command

\* createRequest()
CanCreate(e) == e.device \in DOMAIN devices /\ allocated < MaxRequests

AcceptsAny(e) == CanCreate(e) /\ (message.form = "devices" \/ e.command # "bad")

\* parseJson() accepts the element; the "devices" form does without it.
Accepts(e) ==
    /\ CanCreate(e)
    /\ \/ message.form = "devices"
       \/ /\ e.command # "bad"
          /\ e.all \/ Range(e.nodes) \subseteq devices[e.device].nodes

NewRequest(e) ==
    [device  |-> e.device, epoch |-> devices[e.device].epoch, command |-> CommandFor(e),
     nodes   |-> Selected(e)]

BuildLeaking ==
    /\ phase = "building"
    /\ message.elements # <<>>
    /\ LET e == Head(message.elements) IN
       \/ /\ Accepts(e)
          /\ built' = Append(built, NewRequest(e))
          /\ allocated' = allocated + 1
          /\ message' = [message EXCEPT !.elements = Tail(@)]
          /\ UNCHANGED phase
       \/ /\ ~Accepts(e)
          /\ phase' = "submitting"
          /\ allocated' = IF CanCreate(e) THEN allocated + 1 ELSE allocated
          /\ UNCHANGED <<message, built>>
    /\ UNCHANGED <<objectVars, queue, output, toggled>>

\* The next device of the message.  One that cannot be given its request ends
\* the loop, and its request is deleted.
Build ==
    /\ phase = "building"
    /\ message.elements # <<>>
    /\ LET e == Head(message.elements) IN
       \/ /\ Accepts(e)
          /\ built' = Append(built, NewRequest(e))
          /\ allocated' = allocated + 1
          /\ message' = [message EXCEPT !.elements = Tail(@)]
          /\ UNCHANGED phase
       \/ /\ ~Accepts(e)
          /\ phase' = "submitting"
          /\ UNCHANGED <<message, built, allocated>>
    /\ UNCHANGED <<objectVars, queue, output, toggled>>

\* getNodeStates(DevNode_ALL): a light tells no state.
TellsOn(r) == LET o == devices[r.device] IN
    o.class = "relay" /\ r.nodes \cap o.known \cap o.states # {}

Group == message.form # "single" /\ message.command = "toggle"

ExplicitEach == [i \in DOMAIN built |->
    [built[i] EXCEPT !.command = IF TellsOn(built[i]) THEN "off" ELSE "on"]]

Explicit == [i \in DOMAIN built |->
    [built[i] EXCEPT !.command = IF \E r \in Range(built) : TellsOn(r) THEN "off" ELSE "on"]]

\* History: the relays that are really on are to go off, or all nodes on.
Wanted ==
    LET rs    == Range(built)
        works == \A r \in rs : devices[r.device].class = "relay"
                               => devices[r.device].state = "normal"
        on    == \E r \in rs : devices[r.device].class = "relay"
                               /\ r.nodes \cap output[r.device] # {}
    IN [nodes |-> UNION {{<<r.device, n>> : n \in r.nodes} : r \in rs},
        to    |-> CASE ~works \/ ~CanStop -> "either"
                    [] works /\ CanStop   -> IF on THEN "off" ELSE "on"]

\* All requests are built: a toggle of a group becomes on or off.
Resolve ==
    /\ phase = "building"
    /\ message.elements = <<>>
    /\ phase' = "submitting"
    /\ IF Group THEN built' = Explicit /\ toggled' = Wanted ELSE UNCHANGED <<built, toggled>>
    /\ UNCHANGED <<objectVars, message, queue, allocated, output>>

Apply(r) == CASE r.command = "on"     -> output[r.device] \cup r.nodes
              [] r.command = "off"    -> output[r.device] \ r.nodes
              [] r.command = "toggle" -> SymDiff(output[r.device], r.nodes)
              [] OTHER                -> output[r.device]

Fault(d) ==
    /\ devices' = [devices EXCEPT ![d].state = "fault"]
    /\ restart' = [restart EXCEPT ![devices[d].controller] = TRUE]

\* A light does what it is told at once, or its request completes with an error.
SubmitLight(r) ==
    /\ allocated' = allocated - 1
    /\ \/ /\ r.command \in {"on", "off"}
          /\ output' = [output EXCEPT ![r.device] = Apply(r)]
          /\ UNCHANGED <<devices, restart>>
       \/ /\ r.command \notin {"on", "off"}
          /\ Fault(r.device)
          /\ UNCHANGED output
    /\ UNCHANGED queue

SubmitRelay(r) ==
    /\ queue' = [queue EXCEPT ![devices[r.device].controller] = Append(@, r)]
    /\ UNCHANGED <<devices, restart, allocated, output>>

\* The requests built are submitted, also when the loop has ended early.
SubmitNext ==
    /\ phase = "submitting"
    /\ built # <<>>
    /\ built' = Tail(built)
    /\ LET r == Head(built) IN
       \/ devices[r.device].class = "light" /\ SubmitLight(r)
       \/ devices[r.device].class = "relay" /\ SubmitRelay(r)
    /\ UNCHANGED <<epoch, phase, message, toggled>>

Return ==
    /\ phase = "submitting"
    /\ built = <<>>
    /\ phase' = "idle"
    /\ message' = <<>>
    /\ UNCHANGED <<objectVars, built, queue, allocated, output, toggled>>

-----------------------------------------------------------------------------
(* Execution *)

\* What a board that answered r has told of its relays.
Learnt(r, o) ==
    CASE r.command = "query"  -> [o EXCEPT !.known = o.nodes,
                                           !.states = output[r.device] \cap o.nodes]
      [] r.command = "on"     -> [o EXCEPT !.known = @ \cup r.nodes, !.states = @ \cup r.nodes]
      [] r.command = "off"    -> [o EXCEPT !.known = @ \cup r.nodes, !.states = @ \ r.nodes]
      [] r.command = "toggle" -> [o EXCEPT !.known = @ \cup r.nodes,
                                           !.states = SymDiff(@, r.nodes)]

\* The request at the head of c's queue completes.  No board can answer one
\* that selects no relay or has no command.
Succeed(c) ==
    /\ Idle
    /\ queue[c] # <<>>
    /\ LET r == Head(queue[c])
           o == Learnt(r, devices[r.device]) IN
       /\ r.command # "undefined" /\ (r.nodes # {} \/ r.command = "query")
       /\ output' = [output EXCEPT ![r.device] = Apply(r)]
       /\ devices' = [devices EXCEPT ![r.device] =
             [o EXCEPT !.state = IF @ = "starting" THEN "normal" ELSE @]]
    /\ queue' = [queue EXCEPT ![c] = Tail(@)]
    /\ allocated' = allocated - 1
    /\ UNCHANGED <<restart, epoch, messageVars, toggled>>

\* It fails, when the board has switched some of its relays.
Fail(c) ==
    /\ Idle
    /\ queue[c] # <<>>
    /\ LET r == Head(queue[c]) IN
       /\ \E S \in SUBSET r.nodes :
             output' = [output EXCEPT ![r.device] = Apply([r EXCEPT !.nodes = S])]
       /\ Fault(r.device)
    /\ queue' = [queue EXCEPT ![c] = Tail(@)]
    /\ allocated' = allocated - 1
    /\ toggled' = NoToggle
    /\ UNCHANGED <<epoch, messageVars>>

-----------------------------------------------------------------------------
Next ==
    \/ \E f \in Configs : Begin(f)
    \/ Stop
    \/ End
    \/ \E m \in Messages : Handle(m)
    \/ Build
    \/ Resolve
    \/ SubmitNext
    \/ Return
    \/ \E c \in Controller : Succeed(c)
    \/ \E c \in Controller : Fail(c)
    \/ \E c \in Controller : Restart(c)

Spec == Init /\ [][Next]_vars

-----------------------------------------------------------------------------
(* Properties *)

\* Request.h 64-73: a request is the user's until it is submitted, then a
\* queue's.  Every request object on the heap is owned by exactly one list,
\* whichever element of a message failed and however.
Owned == allocated = Len(built) + Cardinality(Places(queue))

\* Controller.h 143: "MUST call canStop() first".  A request that waits in any
\* list is for a device object that exists, of the configuration it was made
\* under, and is in the queue of that device's controller.
DevicesLive ==
    /\ \A r \in Requests : r.device \in DOMAIN devices /\ devices[r.device].epoch = r.epoch
    /\ \A c \in Controller : \A r \in Range(queue[c]) : devices[r.device].controller = c

\* DeviceManager.cpp 207-220: once the requests of a group toggle have all
\* succeeded, every node it selected is in the same state; if its relays were at
\* rest and known, off if any of them was on and on otherwise.  So the code has
\* it; its comment at line 210, "For toggle command, first node gives state", asks
\* for another state of the group when the first relay is off and a later one on.
Toggled == Quiet /\ toggled.nodes # {} =>
    \E to \in {"on", "off"} :
        /\ toggled.to \in {to, "either"}
        /\ \A p \in toggled.nodes : (p[2] \in output[p[1]]) <=> (to = "on")
=============================================================================
