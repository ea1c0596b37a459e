# A verification of IOControl

IOControl drives devices on a bus from a microcontroller: relay boards (Modbus
over RS485), lighting (DMX512 over the same RS485) and 433 MHz switches. The
application makes *requests*, hands them to a *device*, and the device's
*controller* executes them one after the other. Everything runs in one thread, in
tasks that run to their end, except the handlers of the UART and of a hardware
timer, which interrupt it anywhere.

This directory holds TLA+ modules translated from the source, the
configurations that check them with TLC on small instances, and theorems about
them that TLAPS checks for instances of any size. Paths are relative to the
repository.

## 1. Inventory

| Part | Source | State | Operations | Met by |
|---|---|---|---|---|
| Controller | `src/Controller.cpp`, `Device.cpp`, `Request.cpp` | `queue`; `Device::state`; `deviceCheckTimer`; `Request::errorCode` | `submit`, `executeNext`, `handleEvent`, `complete`, `startDevices`, `deviceError`, `start`, `stop` | virtual calls up and down the stack request → device → controller; callbacks of the application; timer |
| RS485 controller | `src/RS485/*` | `request`, `transmitCompleteRequest`, `timer`, `segment`, `savedConfig`, UART | `handleEvent`, `uartCallback`, `receiveComplete`, `send`, `setDirection` | UART interrupt → `System.queueCallback` → task; timer |
| Modbus device | `src/Modbus/Device.cpp` | `requestFunction` | `execute`, `readResponse` | the RS485 controller |
| Modbus frames | `src/Modbus/ADU.cpp`, `PDU.cpp`, `Slave.cpp`, `include/IO/Modbus/PDU.h` | one buffer per exchange | `setCount`, `getSize`, `swap`, `prepare`, `parse`, for requests and responses | Modbus device; the application when it is a slave |
| R421A board | `src/Modbus/R421A/*` | `commandData`, `response`; `Device::states` | `fillRequestData`, `callback`, `handleEvent` | a request submits itself again, once per channel |
| DMX512 | `src/DMX512/*` | `NodeData` per node; static `timer`, `dataChanged`, `updating` | commands (at once), `update` (on the bus), the update cycle | the RS485 controller; its own timer |
| RF switch | `src/RFSwitch/*` | `activeRequest`, `transmitState`, `transmitMask`, `repeatsRemaining` | `execute`, `transmitInterruptHandler` | hardware timer interrupt → task |
| Device manager | `src/DeviceManager.cpp` | the controllers | `begin`, `start`, `stop`, `end`, `handleMessage` | the application, JSON |
| Serial, names, errors, events | `src/Serial.cpp`, `Strings.cpp`, ... | UART configuration | thin wrappers, text | all |

What is hard, and what each part must therefore guarantee:

- **Controller.** Completion is re-entrant: `complete()` calls the controller,
  which executes the next request, which may complete at once, and so on; any
  of them calls the application, which may submit. Requests must be executed
  one at a time and in order, and nothing but an exchange on the bus moves the
  queue, so it may never be non-empty with no exchange under way. Devices that
  fail must be started again, though the loop that starts them deletes the timer
  that would do so and the queries it submits may fail before it goes on.
- **RS485.** The transmit interrupt captures the request for a callback that
  runs later; the receive interrupt stops the only timer; the timer may expire
  between an interrupt and its callback; and interrupts come in the middle of all
  this. No captured pointer may outlive its request, each request that holds the
  port must be ended by something, and the drivers and the UART must be handed back.
- **R421A.** One request makes an exchange per channel. Any of them can fail,
  or succeed without its answer arriving. A device that works must know what the
  relays are.
- **DMX512.** Commands change the data while an update is queued, on the bus
  or about to be scheduled. The cycle must not stop, no change may wait for the
  long interval, every fade must arrive.
- **Modbus frames.** What is sent is a C structure, swapped in place; every
  function is in several switches that must agree, for two directions. How much
  of a received frame is to be checked is computed from octets not yet checked.
- **RF switch.** A timer interrupt sends a code pulse by pulse, from state it
  shares with the task that executes, refuses and completes requests; its last
  edge ends the request.
- **Device manager.** A group message creates several requests, decides from what
  the devices are believed to be, and may fail half way; `begin()` and `end()`
  free what queues and timers may still refer to.

`PROJECT.json` lists each hazard at its line with the properties that would
catch it going wrong.

## 2. Modules

| Module | Models | Extends or instantiates |
|---|---|---|
| `RequestQueue` | what a controller promises: a line of requests, served from the front, one at a time, that never stops | |
| `Controller` | queue, completion, device start and restart | `RequestQueue` (refinement) |
| `MCController` | small controllers | `Controller` |
| `Controller_proofs` | theorems | `Controller` |
| `RS485` | the port, its interrupts, Modbus and DMX512 exchanges | `RequestQueue` (refinement) |
| `MCRS485` | small buses | `RS485` |
| `RS485_proofs` | theorems | `RS485` |
| `R421A`, `MCR421A` | the relay board, its device and requests | |
| `R421A_proofs` | theorems | `R421A` |
| `DMX512`, `MCDMX512` | nodes, fades, the update cycle | |
| `DMX512_proofs` | theorems | `DMX512` |
| `RFSwitch` | the RF controller: queue, interrupt, pulses | `RequestQueue` (refinement) |
| `MCRFSwitch` | two RF devices of different timing | `RFSwitch` |
| `RFSwitch_proofs` | theorems | `RFSwitch` |
| `ModbusPDU` | the structures of all functions: layout, byte counts, sizes, swapping | |
| `ModbusADU` | frames: checksum, preparation, parsing | `ModbusPDU` |
| `ModbusLink` | a master and a slave over a line with faults | `ModbusADU` |
| `MCModbusLink` | every function, small and largest messages | `ModbusLink` |
| `ModbusADU_proofs` | octets, sequences, function codes; theorems on the checksum | `ModbusADU` |
| `ModbusLink_proofs` | theorems | `ModbusLink`, `ModbusADU_proofs` |
| `Manager`, `MCManager` | configuration, groups, messages | |
| `Manager_proofs` | theorems | `Manager` |

`MC` modules give constants their values; TLC runs them. Operators named for a
plausible slip (`AlwaysExecute`, `KeepSegment`, `EagerAdjust`, ...) stand before
the definition they are an alternative of; the specifications do not use them.
With one of them in place of the definition the property named in
`PROJECT.json` is violated.

### Controller

The C++ stack is state: `calls` holds the pending calls, innermost first.
`Execute`, `Succeed`, `Fail` and `Dispose` are the calls that matter
(`executeNext()` or a re-submission; `complete()` with either result; the end of
`Controller::handleEvent(RequestComplete)`). A call that ends in another is
replaced by it; a call that goes on afterwards stays below it. `startDevices()`
is a loop interrupted by such calls: `toStart`, `current` and `startFailed` are
its locals. Callbacks are not calls of their own: wherever a call is pending, the
application may submit (`Reentrant`), which covers the moments its callbacks run.
The hardware is abstract: a request in flight is answered, answered with
another exchange to make, or fails. `Immediate` names the commands
that complete inside `submit()` (DMX512), `Rejected` those that `execute()` may
refuse at once (Modbus: bad size; RF: unknown command), `Nodeless` the devices
that cannot be queried, `Passive` those whose `start()` does nothing.

### RS485

Here the stack is shallow and the interrupts are what counts. A task is cut into
steps, and `todo` says which is next: to execute the head of the queue, to send it, to
acquire the port again, to read a response, to end what has timed out, to release
the port. `TransmitInterrupt` and `ReceiveInterrupt` may come between any two of them.
The cuts are where the code sets, captures and clears a pointer to a request and an
interrupt can tell: `Timeout` and `ReceiveComplete` clear `transmitCompleteRequest`,
what follows ends the request (`TimeoutFails`, `ResponseCompletes`: timer and driver
off), and only `Release` clears `request`, deletes it and executes the next.
`tasks` is the queue of callbacks that the interrupts post. `direction` is what each
segment's driver was last told. The bus is `sending`, `replies` under way and
`received`, the receive buffer. A frame is known by who sent it.
`Modbus::Device::handleEvent(Execute)` runs the base class's part twice, before and
after sending, and so does the model (`AcquireModbus`, `SendModbus`,
`AcquireAgain`); if `execute()` refuses, `RefuseModbus` comes instead of the last two.

### R421A

The relays, the frame the board is working on and the answers under way are the
environment (marked external); the frame, the answer or both get lost. Requests
carry the three masks of the code. `Fitted` may be less than `Channel`: then
queries read nonsense for the rest and writes are refused.

### DMX512

Node data, the static timer with its two intervals and the two static flags.
Other traffic on the bus shows only as delay between an update being queued and
executed. A command completes inside `submit()`, which has the controller execute
its head again: an update on the bus is sent a second time, and `Command` models
that too. Bytes have `MaxValue + 1` values: `setValue` wraps, `setTarget` clips.

### RFSwitch

`Submit` in its three forms (`Send`, `Parse`, `Group`) says with which repeats and
code a request may come. `executing` stands for the call of `execute()` that a
submission or a completion makes; `Refuse` and `Execute` are its two ends. Each
disjunct of `Interrupt` is a case of `transmitInterruptHandler()`, `SendBit` and
`EndOfFrame` its two helpers; the timer is `armed`, and the callback that the last
interrupt queues is `posted`. A code is the set of its bits that are 1, and
`transmitMask` the number of the bit to send next instead of a bit shifted right.
Widths keep their type: `lowDuration` is a `uint16_t`, `repeatsRemaining` a
`uint8_t`, with any bound. `air` is history: the level and the timer interval of
each pulse of the active request. There is one controller, because the hardware
has one timer; what two would do to each other is a hazard without a property.

### ModbusPDU, ModbusADU, ModbusLink

`ModbusPDU` describes each function's structures by what the code distinguishes:
words before the byte count, whether there is one, words after it, and an array of
octets or words. `Image` is the structure in (little-endian) memory, and `Swapped`
the swapping in place, which takes its counts from the image it is changing.
`ModbusADU` has the checksum bit by bit, `Prepare...` and `Parse...`; a receive
buffer is what came in, and after it whatever was there before (`Fill`). The loops
of `crc16_update()` are eight rounds written out, and a function that goes through the
octets from the first to the last, halving its range each time: TLC's stack would not
last for 256 octets one by one, and a RECURSIVE operator would keep the provers out.
`ModbusLink` sends messages through them: `Execute` and `ReadResponse` are the
master's (`Modbus::Device`), `SlaveAnswers` and `SlaveIgnores` the application's in
the sample, through `Slave.cpp`. The line loses, damages, truncates and delays
frames and adds noise. Answers may come so late that the next request takes them.
An exception with code 0 counts as success, as in the code (`Exception`, `Told`).

A frame that `parsePacket()` refuses is swapped as well (`ADU.cpp:97` and `104`). Nobody
reads what that makes of it, and the model keeps only how far into the buffer it
reaches: `RequestSwapEnd` and `ResponseSwapEnd`. With a byte count nobody has checked
that may be behind its end, see `SwapsInside` in §3.

Restrictions, each for a reason: the slave does not implement `GetComEventLog`,
whose `setEventCount()` (`PDU.h:254`) sets a byte count one larger than what
follows, contrary to `PDU.h:44`; and `MaskWriteRegister`, so that exceptions occur.
Reads ask for no more than a frame can hold, as `setCount()` of their answers does
not clip. A fault damages one bit of the first 14 octets, and there is one fault per
exchange: a CRC detects that, not everything.

### Manager

`handleMessage()` runs without interruption, in the steps of its loops: `Handle`,
`Build` once per device of the message, `Resolve`, `SubmitNext` once per request,
`Return`. `Build` ends at the first device that cannot be given its request, and,
as in the code, what has been built is submitted all the same and a toggle is then
not resolved. `Begin`, `Stop`, `End` and `Restart` are the calls that create, free
and start devices, `CanStop` their guard over all controllers. Devices carry the
`epoch` of the configuration that made them, so that a request for one that has
been freed can be told. Execution is abstract (`Succeed`, `Fail`; how it goes on
is in `Controller` and `R421A`). Faithful to the code where that may surprise: a
light tells no state, so that a group of lights is always turned on; a group is
turned off if *any* node is on, where the comment at `DeviceManager.cpp:210` speaks
of the first (§3); of the nodes listed for a light the last remains; `begin()`
ignores devices that cannot be created, and arms the restart timer where the heap has
no room for all queries. Callbacks make no calls of their own here.

## 3. Runs

Deadlock is checked in every run.

| Run | Instance | Shows |
|---|---|---|
| `MCController` | 2 devices (one `Nodeless`), 3 requests, one extra exchange, 2 ticks | all safety properties, `Serialises`, `RestartAttempted` |
| `MCControllerShared` | a relay board and a DMX512 device, 3 requests | with commands that complete in `submit()`: `NoStall`, `NoOrphanFault` |
| `MCRS485` | 2 Modbus devices on 2 segments, 3 requests, 3 callbacks, 2 frames of buffer, noise, no timing assumption | all RS485 properties and `Serialises` |
| `MCRS485Shared` | Modbus and DMX512 on one segment, 4 requests; frames, answers and callbacks beat the timer | `Watched`, `PortReleased`, `Serialises` for mixed traffic |
| `MCDMX512` | 2 nodes, bytes of 3 bits, a level that `set` wraps and `adjust` clips, 2 updates queued | the update cycle and fades |
| `MCR421A` | a board of 2 relays configured as 3, 2 queued requests | `Faithful`, `Recovers` |
| `MCRFSwitch` | 2 devices of different timing, 3 requests, codes of 2 bits, 0 to 2 repeats with a counter that wraps at 2 | `Asserted`, `OnAir`, `QuietWhenIdle`, `Serialises` |
| `MCModbusLink` | all functions, quantities 0, 3 and too many, reads of 2 or 9 and of the most a frame holds, a slave and an address nobody has, one fault per exchange | `Conforms`, `Understood`, `Answered` |
| `MCManager` | 2 boards of one relay on two buses, a light of 2 nodes, an RF controller; 2 configurations, 7 messages, 3 request objects | `Owned`, `DevicesLive`, `Toggled` |

What the properties say:

- `SerialExecution`, `NoStall`: at most one request on the bus, and exactly the
  head of the queue whenever the stack is empty and the queue is not.
- `NoOrphanFault`: a device in fault has the restart timer, or the loop, to wait
  for. `RestartAttempted`: the restart comes, unless requests fail for ever.
- `StartingHasQuery`: a device that is starting, which `start()` skips, has a
  query under way that will end it.
- `Serialises` (in `Controller` and in `RS485`): the module implements
  `RequestQueue`, liveness included.
- `PointersLive`, `Watched`: while a request has the port, what timer and queued
  callbacks refer to is that request; and it has the timer or a callback to end it.
  (`CapturedLive`: what they refer to is never a request that is gone.)
- `Listening`, `PortReleased`, `IdleUart`: the drivers and the UART are what the
  bus needs during, and the application between, requests.
- `StopsOnFailure`, `ChangesGoOut`, `DisabledDark`, `FadesArrive`: nothing but an
  update that fails stops the update cycle; until one does, a change goes out
  after the short interval; a disabled node is dark; fades come within a step of
  their goal, about which `enabling` may then swing for ever
  (`DMX512/Device.h:93`). (`KeepsPumping`: the cycle never stops.)
- `Faithful`: an idle device that is not in fault knows its relays. `Recovers`:
  if failures and commands cease, the queue empties and the device works.
- `Asserted`, `QuietWhenIdle`: when a request is executed the transmitter is at
  rest, as the code asserts; it is keyed only for the head of the queue, and
  released after. `OnAir`: the pulses are those of the request's code, bit by bit
  with the timing of its device, gap and all, as often as it asks, and completion
  comes after the last. That 0 repeats are `MaxRepeats + 1`, as the counter wraps, is
  taken for what is asked.
- `Conforms`: what goes out is the Modbus encoding, stated independently, of the
  fields the application set. `Understood`: a slave that accepts a frame has
  read what was asked. `Answered`: a request that succeeds has been told what
  the slave answered to it, and every error has its cause; of an answer that is
  late, only that it is the same slave's to the same function.
- `Owned`: no request object is leaked or owned twice, wherever a message fails.
  `DevicesLive`: every queued request is for a device that exists, of the same
  configuration, in the queue of its controller. `Toggled`: when a group toggle
  has been executed without failures its nodes are all in the same state; if its
  relays were at rest and known, off if any of them was on.

Runs that find what a comment or document of the repository says violated:

| Run | Property | What happens |
|---|---|---|
| `MCControllerOverlap` | `SerialExecution` | a DMX512 command completes while a Modbus request is on the bus; `executeNext()` (`Controller.cpp:214`) executes that request again |
| `MCRS485Unwatched` | `WatchedOnceSent` | while a DMX512 update is being sent, a late answer stops the timer and queues `receiveComplete()`; the frame is out before that runs and the interrupt captures the update; `receiveComplete()` then clears the pointer, the update ignores it, and `TransmitComplete` finds nothing: the bus hangs |
| `MCDMX512Stopped` | `KeepsPumping` | an update that times out is the last one |

(`Watched` itself fails on that bus earlier, while the frame is still being sent and
the interrupt that captures it is to come; that may yet end well.)

Three findings have no run of their own. They name the passing run with whose
constants they were made.

- `CapturedLive` is what `Controller.cpp:74` asks for, "Guard against timeout firing before
  this callback". On `MCRS485`, with Modbus devices only, TLC refutes it in ten states. A
  request times out while its frame is still being sent; the timer's callback clears
  `transmitCompleteRequest` (line 111); the transmit interrupt comes before
  `request` is cleared as well (line 122), captures the request and posts its
  callback; the request is deleted, and with nothing else queued the callback
  runs for it. After line 146 the same can happen. `PointersLive` is what remains: the
  next execution clears the pointer, so that while a request has the port nothing stale
  is used.
- `SwapsInside`, that no swap of a received frame leaves the buffer of `ADU::MaxSize`
  octets, is refuted on `MCModbusLink` in three states: a damaged function code makes
  the slave take an octet behind the frame for a byte count of 255, and swap
  what is not there, although `parsePacket()` has refused the frame.
- `Toggled` is what the code does, and not what its comment says: "For toggle command,
  first node gives state". With the first relay of a group off and another on, that
  asks for on, and the group goes off.

Two more counterexamples are a matter of other constants, and are described with
their hazards. `StartingHasQuery` fails if a query is in `Rejected`, as those of
RF devices are: the query fails inside `submit()`, `Device.cpp:71` overwrites
`fault` with `starting`, and the device is never started again. `PortReleased`
fails with two segments: a DMX512 update transmits on the segment of the request
before it, and releases its own.

**Bounds.** Three requests are one on the bus, one behind it and one that a
callback or `start()` submits meanwhile; with all three taken `createRequest()`
fails, so that case is met too. One extra exchange per request is enough to see a
re-submission and its end. Two ticks tell a timer that is due from one that
was restarted. Three callbacks hold a stale one, the current one and one from
noise; interrupts wait for room, so a full task queue is *not* covered. Two frames
of buffer tell a clean answer from a mixed one. Three-bit bytes leave room for
fades in steps of 4 that overshoot in both directions. Two queued updates
are one on the bus and one that the timer queued meanwhile; the code can queue
more (see the hazard at `DMX512/Device.cpp:266`). Codes of two bits have a first
bit that is not the last, which gets the gap; repeats of 0, 1 and 2 are the wrap,
the single frame and the repetition; the timings leave room for every pulse, as
`OnAir` needs (`Fitting`, §4). The octets of a Modbus frame from the 15th on are data
like those before; answers that come late are short ones (`MaxLate`). Three request
objects let a group of two fail for want of the second behind one that is queued;
boards of one relay and a light of two nodes have groups within a device and
across devices.

**Fairness.** `WF` on calls, loops and tasks: the one thread runs them to their
end. `WF` or `SF` on timers and on answers-or-timeouts: the transaction timer
(800 ms) answers for hardware that does not, and the task loop serves every
expired timer, in whatever company, hence `SF` where other tasks can come first.
No fairness for the application, for noise, nor for answers, but for `Reply`
when a bus is assumed timely. In `RFSwitch`, `WF` on the ends of `execute()`, on the
interrupt while its timer is armed, and on the callback it has queued. `ModbusLink`
and `Manager` make no liveness claim: that exchanges end and queues empty is shown
where the timers are, in `RS485` and `Controller`.

## 4. Proofs

TLAPS checks the theorems for any sets of devices, requests, nodes and messages and any
values of the other constants that satisfy the modules' assumptions. Where a theorem has
a hypothesis, TLC has a counterexample without it, and the theorem says that nothing
else can go wrong; what the theorems on `ModbusLink` assume is explained there. Every inductive invariant
was checked by TLC on the instances of §3 before it was proved.

### `Controller_proofs`

| Theorem | Hypothesis | Conclusion of `Spec` |
|---|---|---|
| `TypeCorrect` | | `[]TypeOK` |
| `Recovery` | | `[]NoOrphanFault` |
| `NeverStalled` | `Reentrant \cap Immediate = {}` | `[]NoStall` |
| `Serial` | `Immediate = {}` | `[]SerialExecution /\ []NoStall` |
| `Starting` | `Immediate = {}`, no query in `Rejected` | `[]StartingHasQuery` |
| `Implements` | `Immediate = {}` | every step is a step of `RequestQueue` or leaves its variables alone |

`Recovery` is inductive together with the types and the shape of the start loop: each
action that sets `fault` arms the timer in the same step, each that clears the
timer enters the loop with every device still to visit, or stops the controller.

`SerialExecution` alone is not inductive. `SerialInv` adds what the argument is
about: a queued request occurs once and is allocated (`QueueInv`); with no
pending call, exactly the head is in flight (`RestInv`); with a pending one, what
it is about to do accounts for the head and nothing is in flight while it is
`Execute` (`CallInv`). `StartInv` adds that while the loop waits for
`submit()`, the query of the device it is starting has not completed.

With commands that complete inside `submit()` serial execution is lost
(`MCControllerOverlap`), but not progress. `StackInv` bounds the call stack instead: at
most one call for the head of the queue, above at most one that completes a
request which never entered the queue; when the last call is gone, the head is in
flight, once or twice. The hypothesis excludes such commands only from callbacks, where
a third level appears and `NoStall` fails.

### `RS485_proofs`

| Theorem | Hypothesis | Conclusion of `Spec` |
|---|---|---|
| `TypeCorrect` | | `[]TypeOK` |
| `UartRestored` | | `[]IdleUart` |
| `AnswerHeard` | | `[]Listening` |
| `Serialised` | | every step is a step of `RequestQueue` or leaves its variables alone |
| `DriversReleased` | `Dmx = {}`, or one segment | `[]PortReleased` |
| `NoStalePointer` | | `[]PointersLive` |
| `NothingCapturedLate` | `Orderly` | `[]CapturedLive` |
| `AlwaysWatched` | `Dmx = {}`, or `Orderly` | `[]Watched` |

`Orderly` is `Timely /\ ~Noise /\ ~MidTransfer`. `CapturedLive` needs all three parts, and
so does `Watched` on a bus that DMX512 shares. On a bus of Modbus devices alone `Watched`
needs none: late answers, noise and callbacks overtaken by the timer leave no request
without something to end it. `CapturedLive` fails there too (§3).

`Bus` carries the unconditional theorems: which request has the port (`Ownership`: it is
the head of the queue, `todo` says how far its execution or its end is, and while it has
the port at rest nothing but it has been captured), what the UART is to be set back to
(`Restored`), and which way the driver of its segment points (`Receiving`). `OneDriver`
adds that no other segment's driver transmits. `Separate` says that no callback but its
own waits during a DMX512 update; that is trivial without DMX512. With it, it follows
from `OneExchange`, an invariant of orderly buses: whatever is under way, a frame, a
reply, a posted callback, belongs to the request on the port, and nothing is when there
is none.

### `DMX512_proofs`

`TypeCorrect`, `FailureOnly`, `NoLostChange` and `DarkWhenDisabled` state `[]TypeOK`,
`[]StopsOnFailure`, `[]ChangesGoOut` and `[]DisabledDark`, without hypotheses. They
follow from one invariant, `Cycle`. Besides those properties it has: what is on the
bus is an update still queued (`BusBusy`); a change not yet sent (`Pending`) has the short
timer, or an update that will read it (`Soon`); and what is changed while an update is on
the bus sets `dataChanged`, which is all that the end of that update looks at.

### `R421A_proofs`

`TypeCorrect` is unconditional. `RelaysKnown` is `[]Faithful`, for `~Late` and commands
among query, on, off, toggle and momentary (`Tellable`). With late answers, or with
`latch`, which the code reports as off (`Request.cpp:137`), TLC finds a device that
is wrong. `Faithful` speaks of idle devices; the invariant must speak of busy ones.
`Doubt` says that the device will be restarted or has a query to make, `Tracks` that
what it believes and what the request at the head has learnt are together what the
relays are, except while an answer is missing, and `Exchange` that the frame or answer
on the wire is that of the head of the queue, with nothing else beside it.

### `Manager_proofs`

`TypeCorrect` (`[]TypeOK`), `NoRequestLost` (`[]Owned`), `NoStaleDevice`
(`[]DevicesLive`) and `GroupToggle` (`[]Toggled`) have no hypotheses. The first three
come from `Base`: the types in full, how far a message has been read (`Reading`),
objects of the present epoch (`Current`), requests in the queue of their device's
controller (`Owners`), and the number of requests on the heap as the number of places in
queues and list (`Heap`). `GroupToggle` is about a later moment than the
one at which the command is chosen. It needs, first, that what a board at rest is
believed to be is true unless a query is still to be answered (`Knows`); and then, for
a toggle in progress, that every node of the group is either still to be submitted, or the last request for it
in its queue asks for the common end, or it has got there (`Resolved`).

### `RFSwitch_proofs`

- `TypeCorrect`, `AssertionsHold`, `Quiet`: `[]TypeOK`, `[]Asserted`,
  `[]QuietWhenIdle`. All from `Inv`: the types, and `Handover`, which says what task
  and interrupt leave for each other: whenever `execute()` is not pending the
  head of a queue that is not empty is the active request, and either the timer
  is armed or the completion is posted.
- `Transmission`: if every bit fits into its period and what is left, with the
  gap, into `lowDuration` (`Fitting`), `[]OnAir`. The invariant (`Signal`) computes
  from `transmitState`, `transmitMask` and `repeatsRemaining` how many pulses are on
  the air: so many whole frames and `Position` in the present one. Without `Fitting`
  TLC finds a counterexample, as a configuration without timings would.
- `Implements`: every step is one of `RequestQueue` or leaves its variables alone.

### `ModbusADU_proofs` and `ModbusLink_proofs`

| Theorem | Hypotheses | Conclusion |
|---|---|---|
| `Residue` | | the checksum of a packet and of the checksum appended to it is zero |
| `OneOctetWrong` | | sequences that differ in one octet have different checksums |
| `AcceptedInside` | | swapping a frame that is accepted stays inside the buffer, for requests and for responses |
| `FramesConform` | `ReadLimits` | `Spec => []Conforms` |
| `RequestsUnderstood` | `ReadLimits` | `Spec => [](Undisturbed => Understood)` |
| `AnswersReported` | `ReadLimits` | `Spec => [](Undisturbed => Answered)` |
| `FaultsNoticed` | `ReadLimits`, `OneFault` | `Spec => []Understood` |
| `FaultsReported` | `ReadLimits`, `OneFault` | `Spec => [](Answered \/ (outcome.error = "bad_param" /\ faults > 0))` |
| `TypeCorrect` | `ReadLimits`, `OneFault` | `Spec => []TypeOK` |

They hold for every function, message, address and seed and every content of the receive
buffers; the first three theorems of the exchange for every number of faults as well.
`Undisturbed` excludes a fault in this exchange, and an answer to an earlier one.

*What they assume.* `ReadLimits` says that a read asks for no more than 2000 bits or 125
holding registers, and that the slave has no event log: `setCount()` of those responses does
not clip, and `setEventCount()` sets a byte count that is one too large (§2). `MCModbusLink`
satisfies it. Without it the byte count of 2041 coils wraps, and TLC refutes `Conforms` and
`Answered`; with 126 registers, or an event log, the byte count points behind what was
filled in, and TLC stops there because the model says nothing of those octets.

`OneFault` says what the checksum is good for: at most one fault in an exchange (`MaxFaults
<= 1`); an octet received wrong is none of those the size is read from, which are the
function code and the byte counts (`Lengths`, octets 2, 3, 7 and 11); and noise does not
consist of addresses (`Stray`). Where a frame is cut off (`Cuts`), which of the other octets is
damaged and how, what stands in the buffer behind what came in (`Fill`) and how many octets of an
answer are late are any. The restrictions are no accident of the proof: a wrong function
code or byte count makes the receiver take the checksum of some other number of octets, with
whatever the buffer held, and noise in front shifts the frame; that either gives zero is
unlikely, but nothing in the code rules it out. `MCModbusLink` damages those octets too, one
bit each, and finds no such case among its messages; the theorems exclude what TLC has only
sampled. For the same reason `FaultsReported` leaves one error open: noise in front of a
frame may happen to have a checksum that fits, and is then reported as from another address.

*The checksum.* A register is a set of bits. A round can be undone, as its highest bit tells
whether the polynomial was added (`RoundOneToOne`); so an octet can neither change the
register in the same way as another, nor bring two registers together (`UpdateOneToOne`).
And a register whose low octet is empty is only shifted (`EightShift`), so that its own two
octets, low one first, clear it (`Cleared`). `Trace` is the register before and after each
octet; that `Crc`, which halves its range, is where the trace ends takes two inductions, one
over the length of the range and one over the positions (`SolutionExists`, `SolutionEnds`,
`CrcEnds`): the function is chosen, so that first one has to be shown to exist. The
induction theorems of the library cannot be used, as they take a predicate; `SetInduction`
is induction over a set, from the well-foundedness of the naturals. Then `Residue` is the
end of a trace, and `OneOctetWrong` compares two: equal before the octet, different from
there on.

*The encoding.* A word's octets lie next to each other in memory as they do on the line, in
the other order (`HostOctets`, `NetOctets`), so that swapping in place turns one into the
other wherever it stands (`Swaps`, with `LowHigh` and `Pairs`). A structure is its words,
its byte count and its array; what `SwapRequest` and `SwapResponse` do to each is
established layout by layout (`RequestSwapped`, `ResponseSwapped`): forwards it gives the
encoding, backwards the image, whatever lies behind in the buffer, and the fields read from
the image are the message (`FieldsRead`). `setCount()` leaves a byte count that is the size
of the array (`RequestSet`, `ResponseSet`), so that a message as the applications make them
is `Proper`, and its frame has a checksum that fits (`FrameIs`).

*The line.* What one fault leaves of a frame arrives `Whole`, perhaps with more behind it,
or `Cut` off, or with one octet `Wrong`, or `Shifted` behind an octet that is no address
(`FaultLeaves`). A receiver takes the first for what was sent and refuses the next two
(`RequestParsed`, `ResponseParsed`). That needs an argument for frames that are cut off,
whose size may be read where nothing came in: if the octet with the byte count is missing,
then so is more than the smallest size that could be read there (`RequestSizes`,
`ResponseSizes`).

*The invariant* (`Linked`) says what has `Arrived` on the bus: of the frame of the request,
or of the answer to what the slave understood, or of an answer that is late; and that with
nothing on it there was a fault, or the request is nobody's. `Understood` is kept along with
it; `Reported` adds how the last request completed, and `Typed` the types of the rest, of
which the frame's follows from `Linked`. TLC has checked `Linked`, `Reported` and `Typed` on
`MCModbusLink` with the octets of `Lengths` left undamaged, which meets both hypotheses.

### Checked by TLC only

Liveness under fairness is beyond the prover: `Serialises` in its temporal part,
`RestartAttempted`, `FadesArrive`, `Recovers`. Nor are `Understood`, `Answered` and
`TypeOK` of `ModbusLink` proved for a damaged function code or byte count (above), where
they depend on the values in the frame: TLC checks them for the messages of the run.

## 5. Not modelled

- JSON, names, error texts and what is printed: no control depends on them but
  which command, nodes and repeats a message asks for, and those are inputs.
- Hexadecimal RF codes; the R421A `delay` command; `getState()` of node sets, which
  has no caller.
- Lifetimes of controllers; failed allocation of the restart timer; a full task
  queue. Devices that are freed are in `Manager`, without what interrupts and
  timers still hold of them.
- A completed request that is passed on to `RS485::Device::handleEvent` after it has
  been deleted (`Modbus/Device.cpp:73`), and what a callback does with one that is gone:
  undefined in C++, and no step of the models.
- The order and number of the application's callbacks; calls of the device manager
  from callbacks.
- A controller that is started while it executes a request.
- Two RF controllers, or DMX512 devices on two controllers: their state is static.
- Late answers to R421A requests, beyond those the next execution clears:
  `Late = TRUE` lets them in, and `Faithful` does not hold then, because an
  answer is tied to its request by no more than address and function (what that
  does guarantee is `Answered`).
- DMX512 commands during an exchange in `RS485` (`MidTransfer = TRUE`), for the
  reason `MCControllerOverlap` shows.

## 6. Plan

1. Proofs: how far a late answer can mislead an R421A device; faults that a checksum
   notices beyond one octet (two that are adjacent), several of them in an exchange.
2. Callbacks as history in `Controller`: how often and in which order the
   application hears of a request.
3. `R421A` with `delay`, and with answers tied to requests as `ModbusLink` has it.
4. `RS485` composed with the cycle of `DMX512`, to bound the queued updates.
