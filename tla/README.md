# TLA+ verification of the vcan diff-drive motor demo

The repository drives a two-wheel robot over CAN: a ros2_control hardware plugin
sends velocity commands and reads ACKs and feedback, a second process simulates
the two motors. This directory models both programs, the wire between them and
their composition, model-checks the models with TLC and proves theorems about
them with TLAPS. Paths below are relative to `src/src/vcan_diffbot_demo/`.

## Inventory

| Part | State it keeps | Operations | What is hard about it |
| --- | --- | --- | --- |
| Hardware plugin, `src/can_motor_hardware.cpp` | commands, wheel state, sequence numbers, health record, fault latch and stop-attempt flags, stop reason, diagnostic state, two sockets, last CAN error | `on_init`, `on_activate`, `on_deactivate`, `on_shutdown`, `read`, `write`, reports to `/diagnostics` | each call makes several sends of which any may fail; nine places enter or leave the fault state; `trylock` may lose a report; reads drain a bounded batch of frames |
| ACK and feedback health, `hardware_health.hpp` | pending ACKs per motor, one ignored ACK per motor, time of last feedback, fault flag | `command_sent`, `safe_stop_sent`, `ack_received`, `feedback_received`, timeouts | only the front of the queue is looked at; `uint8_t` sequence numbers wrap |
| Simulated motors, `src/virtual_motor_node.cpp` | two motors, time of the last command, delayed feedback, fault-injection counters | receiver thread; update and feedback timers | two threads and a lock; the clock is read outside the lock; the ACK is sent outside it; an exception ends the receiver thread |
| Motor, `motor_state.hpp` | target, velocity, position, watchdog, status bits | `accept_command`, `disable`, `update` | watchdog against late commands; large time steps; encoder limits |
| Error policy, `can_error_policy.hpp` | none | classify and describe an error mask | several bits at once |
| Codec, `can_protocol.hpp` | none | encode and decode commands, feedback, ACKs | byte order, sign, reserved bytes |
| Filters, `can_filters.hpp` | none | list of identifiers each socket accepts | extended and remote frames, node ranges that meet |
| The running system | two receive queues and everything above | the control cycle, two timers, a receiver thread, the clock | a late ACK meets a new activation; old frames look new; a fault stop is lost |
| Sender template `can_sender.hpp`, launch, URDF, YAML, scripts | parameters | process start-up | - |

The controller manager calls the plugin from one thread. The plugin and the
motors share nothing but the bus: commands one way, ACKs, feedback and error
frames the other. Each side has its own last resort: the plugin stops both
motors when a motor is silent, late or wrong, and a motor stops itself when
commands stop.

What makes each part correct:

- plugin: one stop per fault, nothing after a stop, no stale command, a latch
  that only activation opens, a reported cause that is true and not lost, a
  release that succeeds only if both motors were stopped, silence detected;
- health: the queue is the gap-free tail of what was sent, oldest first;
- reports: what the operator was last told is what is the case, or a report is owed;
- motors: no target without permission, the watchdog fires neither early nor
  never, an ACK is about the command in force, delayed frames leave in time;
- wire: what one side sends the other side reads with the same meaning, and
  everything else on the bus is ignored;
- system: no fault without a cause, no loss without a fault, an answered command
  is an obeyed one, a latched fault brings the motors to rest.

## Modules

| Module | Models | Correspondence |
| --- | --- | --- |
| `HardwareHealth` | class `HardwareHealth` | the record is the object, one operator per member function; a stored time point is its age |
| `CanMotorHardware` | class `CanMotorHardware` | one variable per data member, one action per callback, `read()` split per frame |
| `HardwareDiagnostics` | `publish_diagnostics`, `last_can_error_`, `last_ack_status_` | the actions of `CanMotorHardware`, each with what it notes and publishes |
| `DriveContract` | - | abstract: what the plugin promises the motors |
| `MotorState` | class `MotorState`, and the frames a motor takes and gives | the record is the object, one operator per member function |
| `VirtualMotor` | class `VirtualMotorNode` | receiver thread and executor with program counters; a critical section is one action |
| `MotorContract` | - | abstract: what the motor node promises the bus, without threads |
| `CanProtocol` | `can_protocol.hpp`, `can_filters.hpp` | one operator per function; a byte is a number below 256, a shift is a division |
| `CanWire` | parameter checks, senders, filters and dispatch of both programs | one frame from the value in one program to the value in the other |
| `VcanSystem` | the robot | `CanMotorHardware` and `MotorContract` over two bounded queues, with one clock |
| `CanMotorHardware_proofs`, `_safety` | - | theorems about the plugin |
| `CanMotorHardware_contract` | - | the plugin implements `DriveContract` |
| `HardwareDiagnostics_proofs` | - | theorems about the reports |
| `VirtualMotor_proofs` | - | theorems about the motor and the motor node, which implements `MotorContract` |
| `CanWire_proofs` | - | theorems about the codec and the wire |
| `VcanSystem_proofs` | - | theorems about the robot, whoever is late and whatever is lost |
| `VcanSystem_timing` | - | theorems about the robot when everybody is on time |
| `MC_...` | - | values for TLC, and the documents' claims that the code contradicts |

`VcanSystem` extends `CanMotorHardware` (which uses `HardwareHealth`) and
instantiates `MotorContract` (which uses `MotorState`); `VirtualMotor` is shown to
implement `MotorContract` and `CanMotorHardware` to implement `DriveContract`, so
the threads of the motor node need not be in the composition. `HardwareDiagnostics`
extends `CanMotorHardware`; `CanWire` extends `CanProtocol`.

`CanMotorHardware` and `VirtualMotor` are open: the bus, failing sends, the
controllers and the clock are nondeterministic, so what is shown holds on any bus
and against any peer. Both leave in `sent` what their last step put on the bus.

**Plugin.** `ReadStart`, `Receive...` and `ReadFinish` are the steps of `read()`;
`pc` says whether it runs, because the other callbacks never overlap with it. The
sends of one callback are chained through a *link* record (`Link`, `SendCommand`,
`SafeStop`), so that the second send sees the sequence numbers and the health
record that the first one left, and each send fails or not on its own. A sequence
number is used up also when the send fails, as in the code. `trail`, `updated` and
`bad_ack` are history variables: what a motor was sent since activation, which wheels a
controller has commanded since, and the first ACK since that fits no command (whose it
was, and whether it refused the command awaited or answered none). `bad_ack` is worked
out from the queues, not from the code's classification of the ACK, so the two can be
compared. `unreported` says that the reported state is
behind the real one; `Tick` is the clock and is not modelled while a fault is
latched, when no decision looks at a deadline before the next activation resets them.
`Returned` is the controller manager: a success moves the component on, an error
may finalize it. The retries of `flush_pending_diagnostics` have the outcomes of
one publication: the lock was got in time or it was not.

**Reports.** `HardwareDiagnostics` conjoins each action of the plugin with what it
does to `last_can_error_`, `last_ack_status_` and the last published message
(`report`). `NextReport` is the message the code would build now: a level for the
bus and for each motor, the stop reason, the CAN error and the ACK status. The
forced, throttled and failed publications are those that `CanMotorHardware` already
decides. Numbers in a message are left out, words are model values.

**Contracts.** `DriveContract` has three phases (released, operating, stopped) and the
commands the controllers want: while it operates it sends pairs of enabled frames
with those commands, a fault or a release sends one pair of disabled frames of which
any may be missing, and a release from the stopped phase sends nothing.
`CanMotorHardware` implements it with the latch and the socket as the phase
(`KeepsDriveContract`). `MotorContract` says of the motor node: a command is adopted
at once and answered before the next is taken, an update judges the watchdog by a
clock value at most `MaxLag` old, feedback leaves in the order it was sampled,
perhaps cut, late or not at all. `VirtualMotor` implements it (`KeepsContract`):
the command in `Apply`'s hands is the one owed an ACK, the readings that the
publisher and the delay queue hold are the reports.

**Motors.** `Receive`, `Apply` and `SendAck` are the receiver thread; `Apply` is
the critical section. `UpdateStart` reads the clock, `UpdateApply` is the critical
section of `update()`, `Deliver` and `UpdateFinish` its loop over delayed frames.
`PublishStart` reads both motors under the lock, `PublishWheel` is one iteration
over the wheels. `elapsed` is the age of the clock value that `update()` has read.

**Wire.** A behaviour of `CanWire` is short: both programs accept their parameters,
then a command, a feedback, an ACK or a frame of a stranger is sent, and `Deliver`
passes it through the kernel filters and decodes it as the receive loops do. The
state space is wide instead: identifiers at both ends of the range, every field at
the limits of its width, velocities beyond what 16 bits can say.

**System.** `to_motors` and `to_plugin` are the receive queues of the two sockets,
first in first out, full at `QueueMax`; the plugin's queue exists while its receiver
does. A control cycle is `BeginRead`, `ReadFrame`s, `EndRead`, any number of `Control`
(controllers), `WriteCommands`; lifecycle callbacks come between two cycles. `Pass`
is the clock of both programs. In a run without `"late"` time waits until everybody
has done what one tick allows for (`Duties`) and no command is unanswered; with it,
time passes at any moment. `suspects` and `lost` remember which wheels lost a command
or an ACK, `shown_age` how old at its source the feedback is that `velocities_` shows.

## Runs

| Run | What it shows |
| --- | --- |
| `hardware_faults` | `TypeOK`, `StopReasonIsTrue`, `StopProtocol`, `FaultIsReported`, `DiagnosticsNotLost`, `FaultSticky`, `StopResultHonest` through every way into and out of a fault, two frames in a read, so that a second one can follow a bad ACK; `SilenceIsDetected` (liveness) |
| `hardware_commands` | `FreshCommands` and `KeepsDriveContract` with controllers that command motion at any time |
| `hardware_reactivation` | *violated*: `on_activate` leaves the old wheel state in place, the design document says it is zeroed |
| `diagnostics_reports` | `OperatorIsInformed`: after each callback the last message says what is the case or a report is owed; `AckFaultStops`: a bad ACK never ends in a good read |
| `diagnostics_severity` | *violated*: a motor reported late in the middle of a read stays at ERROR after the read that found it well again, the design document says that a severity change publishes at once |
| `motor_watchdog` | `TypeOK`, `TargetNeedsPermission`, `WatchdogNeverEarly`, `AckTellsTruth` in every interleaving of the two threads; `SilenceStopsMotors` (liveness); `KeepsContract` |
| `motor_faults` | `OverdueFeedbackLeaves` and `KeepsContract` with delayed feedback and all fault-injection counters |
| `can_wire` | `CommandArrives`, `FeedbackArrives`, `OthersIgnored` |
| `system_nominal` | `NoSpuriousFault` and `ShownFeedbackIsRecent`: the two programs keep step; with error frames and cut feedback of one motor a tick brings as many frames as one `read()` may take |
| `system_acks` | `AckMeansObeyed`, `UnexpectedAckHasCause`, `LossStaysAwaited`, `PendingContiguous` and `GoodReadIsHealthy` with up to two pending ACKs per motor, the older one overdue while the younger is in time and feedback is not late, with lost commands, lost and late ACKs and reactivation with frames on their way |
| `system_stop` | `FaultStopsMotors` (liveness) and `SystemTypeOK` with moving motors, sends that throw, lost commands and lost stop frames; the end of the motor node's receiver thread is in `motor_watchdog` |
| `system_stale` | *violated*: after a late control cycle `read()` shows old feedback as new, the design document says old feedback is an error |

The three violated runs show disagreements of the code with its design documents, not
with the properties above: `ShownFeedbackIsRecent` is what holds of the age of feedback
when everybody is on time, `OperatorIsInformed` what holds of the reports.
`LossStaysAwaited` together with `GoodReadIsHealthy` says that a lost command or ACK is
followed by a fault: the wheel stays awaited, and no successful read leaves an overdue
ACK behind.

**Bounds of the plugin's runs.** Two sequence numbers stand for 256 where one
ACK may be pending (`SeqMod`, `MaxPending`): what matters is that numbers repeat.
Queues of two are in `system_acks`, longer ones in the proofs. A timeout of 0 ticks means
that a tick is longer than the timeout: an age is then in time or late, which is all the
code asks. `MaxFramesPerRead` (64 in the code) is 1 or 2: enough for a frame that
aborts a read after another one; `diagnostics_severity` needs three. The error masks of
the diagnostics runs are one warning, and a fatal bit together with a warning. Runs of
the plugin stop in states where the component is finalized, so deadlock is not checked
there; in `can_wire` every behaviour ends.

**Bounds of the motors' runs.** `MaxAge` lies above every watchdog plus the lag, so that
a larger age changes no comparison; `MaxLag` bounds how long one `update()` takes,
`MaxDelayed` the delayed queue. Commands reach the left motor only: motors are updated
together but never read one another, so the right one at rest is enough; the feedback of
both goes through the delay queue. `motor_faults` has one kind of command and a counter
cycle of 6, a multiple of every injection interval.

**Bounds of the system's runs.** Frames are lost on one wheel only (`LossyWheels`), which
lets the properties tell a wheel with a cause from one without. `system_acks` has five
sequence numbers for at most two pending ACKs, as the code has 256 for a handful: the ACK
timeout, one tick, stops a robot before it writes a third time without an answer
(`MaxPending` cuts nothing there), and the feedback timeout is longer, so that an overdue
ACK is not hidden by it. With no more numbers than pending ACKs an old ACK could pass for
a new one. `system_stop` has
one, since no property of it looks at sequence numbers and `NextSequence` is as often
called as in the code. Queues hold 8 frames (10 in `system_nominal`), and `Room` lets the plugin act only when
the motor node's queue can take what it sends (kernel queues are far larger than four
frames); the plugin's own queue may overflow, and a frame that does not fit is a lost
one. `MaxFramesPerRead` is 7 where a tick may bring as many frames, 2 in `system_acks`,
where a backlog is the point. Ages of frames are kept up to `MaxStale`, above the
largest that a property compares with. `system_nominal` has two sequence numbers and one
pending ACK: with everybody on time a command is answered before the next is written. Its
constants are the smallest that meet the hypotheses of the theorems of `VcanSystem_timing`:
the queue of 10 holds the frames of two ticks and the frame budget those of one. Each
system run lets everybody do what its
properties need: `system_acks` sends no feedback, so an activation lasts until the
feedback timeout, `system_stop` needs no feedback after the fault.

**Fairness.** `hardware_faults`: the control loop calls `read()` in every cycle, a
socket poll returns within its timeout with a frame or without one (`ReadStep`), and
time passes. Nothing is assumed of the bus: it may have another frame whenever it is
polled, so that a `read()` only ends because its loop is bounded. `motor_watchdog`: the
executor runs, time passes, and an update timer that expires again and again is served
in spite of the feedback timer (strong fairness: a single-threaded executor serves all
expired timers before it waits again). The receiver thread is assumed to do nothing.
`system_stop`: the control loop, the motor node's thread and timers go on, and the clock
is strongly fair, because no number of lifecycle or controller callbacks makes time
stand still; nothing is assumed of those callbacks or of frames that get lost.

## Proofs

Eight modules hold theorems. TLAPS checks them for every value of the constants that
satisfies the modules' assumptions. For the plugin (`HealthAssumption`,
`HardwareAssumption`) that is any number of sequence numbers (256 included), any
timeouts, any batch size, any set of velocities that contains 0; for the motor node
(`MotorAssumption`, `VirtualMotorAssumption`) any targets, watchdogs and acceleration,
any fault injection and any feedback delay; for the wire (`CanWireAssumption`,
`StrangersAssumption`) any node identifiers, watchdogs, velocities, positions and
foreign frames; for the robot (`SystemAssumption`) any faults, duties, queue sizes and
ages. Every safety property that the runs check is proved, of the plugin, of the motor
node, of the reports, of the wire and of the robot, and both refinements are.

- `TypeCorrect` (`CanMotorHardware_proofs`). `TypeOK` is inductive. The lemmas go from
  the health record to one send, to the pair of sends of a stop, to each action.
- `CanMotorHardware_safety` first states what one send (`SendEffect`), a stop
  (`StopEffect`) and the two sends of `write()` do to a link. Then, one section each:
  - `FaultReported` from `FaultInv`, which adds that an open latch between two
    callbacks means that no ACK fault is pending, and that inside `read()` a cause is
    recorded exactly when there is one;
  - `ReasonCorrect` from `ReasonInv`: the fault flag of the health record is set exactly
    when the history `bad_ack` has an entry (`BadAckKnown`), so with `FaultInv` the first
    bad ACK meets an empty cause and later ones, deadlines and errors meet one that stays;
    with the latch open no deadline is recorded as a cause, so time and new commands, which
    change the deadlines, cannot make a recorded cause wrong;
  - `StopsOnce` and `StopHonest` from `TrailInv`: while the plugin operates both motors
    can still be stopped once (`Stoppable`); a latch over an open socket has used its
    attempt; a stop recorded as successful stopped both motors;
  - `NothingUnreported` from `DiagnosticsInv`: only a bad ACK changes the reported state
    without a forced report, and the `read()` that took it ends with one;
  - `FaultStays` and `CommandsAreFresh` from which frames a callback can send (`Within`).
  - `QueueOrdered` and `GoodReadHealthy` from `QueueInv`: `QueueOK` says of one queue that
    its numbers are contiguous and that ages fall along the *whole* queue, not only from
    one entry to the next. That strengthening lets the front entry be compared with any
    other without an induction over the queue. It is kept by append, removal of the front
    and a tick. `QueueInv` adds that a `read()` that goes on has open sockets.
- `VirtualMotor_proofs` goes from one motor to the node. `ApproachType` is the lemma
  about `MotorState::update`: a step towards the target, clamped to what the acceleration
  allows in `dt`, ends between the two, whatever `dt` is. Then:
  - `MotorTypeCorrect`: `TypeOK` is inductive;
  - `PermissionNeeded`, `WatchdogPatient` and `AckTruthful` from `MotorInv`, which adds
    `Agreement`: the watchdog's age is the true age of the last valid command, and a
    good command waiting for its ACK is the one its motor obeys. Only `update()` can run
    between the command and the ACK, and it leaves both the sequence number and the
    protocol fault alone (`UpdatePermission`);
  - `OverdueLeaves` from `QueueInv`: the delay queue is in the order of its due times.
    Append keeps it because no frame waits longer than a new one, a tick because ageing
    is monotone, also at its bound.
- The refinement of `MotorContract` (`MotorContractKept`, in `VirtualMotor_proofs`)
  maps the command in the receiver thread's hands to the one owed an ACK, and what the
  delay queue and the publisher hold, one behind the other, to the reports. `Apply` maps
  to the contract's `Obey`, `SendAck` to `Acknowledge`, `UpdateApply` to `Advance` with the
  lag of the clock value, each frame delivered or published to `Emit`, each frame dropped to
  `Discard`. `BusInv` is `TypeOK`
  and the fact that without a delay nothing is ever queued, so that a published frame
  overtakes none.
- `CanMotorHardware_contract`: `ContractKept`, the refinement of `DriveContract`. The
  mapping hides sequence numbers, sockets and the record of the stop attempt;
  `ContractInv` says what is needed of them: no activation starts over an open socket
  (`InactiveIsClosed`), and a latch over an open socket has used its one attempt, so that
  a release from the stopped phase sends nothing. One lemma per kind of callback says which
  frames it sends (`StopsAre`, `StepFault`, `StepRelease`, `StepDrive`).
- `HardwareDiagnostics_proofs`. A plugin with reports is still the plugin
  (`DiagnosticsIsPlugin`), so `ContractInv` is available. `OperatorInformed` from
  `ReportInv`: when no report is owed, the last one shows the state and the CAN error as
  they are also in the middle of a `read()`; the stop reason only between two callbacks or
  before a bad ACK has put a cause ahead of the report. `BadAckStops` from `WarningInv`: an
  ACK warning means, inside `read()`, that the record has an ACK fault, and between two
  callbacks that a fault is latched or the receiver is closed.
- `CanWire_proofs`: `CommandRoundTrip`, `FeedbackRoundTrip` and `AckRoundTrip`, decoding
  inverts encoding for every value in range. The argument is about digits: a number below
  2^16 or 2^32 is the sum of its bytes at their weights, and the signed reading takes back
  what the unsigned writing added. `CommandsArrive`, `FeedbackIsRight` and
  `StrangersIgnored` add the filters and the dispatch: `WireInv` follows a frame from its
  sender to both receivers, and rests on the node identifiers that the parameter checks
  admit (1 to 127, not equal), for which the three bases are never confused.
- `VcanSystem_proofs`, in two parts.
  - `SystemTypeCorrect` from `SystemInv`: the plugin in the robot takes only steps of
    `CanMotorHardware` (`PluginMoves`), so `TypeOK` and `QueueInv` carry over; every frame
    in the queues is one that its reader decodes, and every ACK in them accepts.
  - `AcksHaveCause`, `AckIsObedience` and `LossAwaited` from `TrackInv`. What travels about
    a wheel goes one way: a command waits in `to_motors`, is obeyed and owed an ACK, and
    the ACK waits in `to_plugin`. `Flies` numbers these places, and `Tracked` says of a
    wheel that what is ahead was sent earlier (`InOrder`), that the pending ACKs are those
    of the latest commands (`Counted`), that what flies is one of these or the stop frame
    (`Recent`), that a command that is answered was adopted or overtaken by a later one
    (`Adopting`), that without a loss every awaited ACK is on its way (`Complete`), and that
    after one some awaited ACK is not (`Missed`). None of the parts is inductive alone: the
    front of the queue answers a command only because the order and the completeness say so,
    and a loss stays noticed only because an ACK from behind the gap cannot answer the
    front. Sequence numbers are compared by how many commands ago they were used (`Back`),
    which is where their width enters. Most steps move frames without changing the books;
    `TrackedMoves` and `TrackedLoses` deal with those once for all. `Backlog` is what an
    activation needs that finds commands still on their way: they are in order and close
    to the last number used. Frames are sent in pairs, one for each motor, so that of what
    is behind a command in the queue not more than half is for its motor.
- `VcanSystem_timing`, in two parts, for a robot where everybody is on time.
  - `ShownIsRecent` from `StepInv`. The plugin counts the age of feedback from the moment
    it takes the frame from its queue, the property from the moment the frame was sent; the
    two differ by how long frames wait. `InStep` says how long: what is left over from the
    last tick is at the front of the queue, one tick old, and not more than what the `read()`
    of this tick may take; what is new is not more than the reports and ACKs of one tick
    (`Budget`, with what is still to come counted in). So each `read()` takes all that the
    last tick left, no frame in the queue is older than a tick (`Shown`), and what
    `velocities_` shows is at most one tick older than the plugin counts.
  - `OnlySilenceStops` from `NominalInv`, one part for each thing the robot might be stopped
    for. `Clean` and `Acks`: a command is answered in the tick in which it was written and its ACK
    is taken by the next `read()`, so that no ACK is late or unexpected (`TrackInv` is used
    here: it says that an awaited ACK is on its way and answers the front of the queue).
    `Feedback`: a wheel without noise is heard in every cycle, because a reading of this
    tick is taken, queued or still to come (`Coming`), and was taken or is left over in the next
    (`Heard`). `Really`: the plugin never counts more than the true age, so a wheel reported
    silent is. `Spare`, `ActiveOK` and `Named`: no send or socket fails here, so the
    reported cause is that one. `DrivenOK`: an enabled motor obeyed a command in this tick or
    in the one before, so its watchdog never fires; `EndedOK`: what a stopped or released robot
    told each motor last is to stop, so that a motor without commands is not an enabled one.

`AcksHaveCause`, `AckIsObedience` and `LossAwaited` have hypotheses of their own.
`FewPending`: a motor has fewer pending ACKs than there are sequence numbers, which in the
code is a handful (the ACK timeout in control cycles) against 256. `NumbersLast`, for the
latter two: either no activation finds frames on their way, or no send fails and the
numbers outlast the pending ACKs and one motor's half of the queue of the motor node. A
hypothesis of this kind is needed: an ACK carries eight bits, so one from 256 commands ago
cannot be told from a new one; failing sends use up numbers without a frame, and an
activation resets the record but not the frames. The 256 numbers suffice for a queue of
almost 500 frames; a receive queue of the kernel holds a few hundred. `system_acks` checks
both properties with fewer numbers than that. `AcksHaveCause` does not need `NumbersLast`,
because an activation that finds frames on their way makes the wheel a suspect.

The theorems of `VcanSystem_timing` are about a robot where everybody is on time, which
their hypotheses say in terms of the constants. `InTime`: no `"late"`, no activation over
frames on their way, a control cycle in every tick, and a batch that holds what a tick
brings: at most two frames for each report and four ACKs, two for the commands of `write()`
and two for the stop frames of an activation. That is eight frames, the code's
`kMaxFramesPerRead` is 64. `Nominal` adds that only feedback gets lost, that a report is due in
every tick, and that the command watchdog and the feedback timeout are at least one tick: the
URDF has 200 ms and 500 ms, a control cycle takes 20 ms (`config/controllers.yaml`), the
motors run at 100 Hz (`config/virtual_motor.yaml`). A receive queue must hold the frames
of two ticks, twelve at most. `FeedbackTimeout < MaxStale` is about the model's bound on
ages only. Nothing is assumed of the ACK timeout, nor of the speed of one process against
the other within a tick. `OnlySilenceStops` also needs `FewPending`.

The inductive invariants were first checked with TLC: `FaultInv`, `ReasonInv`, `TrailInv`,
`DiagnosticsInv` and `ContractInv` under the bounds of the plugin's runs, `ReportInv` and
`WarningInv` under those of `diagnostics_reports`, `WireInv` under those of `can_wire`, and
`TrackInv` under those of `system_acks`, without `"restless"`, and with four sequence
numbers, one pending ACK, queues of four and a feedback timeout of one tick, where
`NumbersLast` holds, and the parts of
`StepInv` and `NominalInv` under those of `system_nominal`.

Model-checked only: `SilenceIsDetected`, `SilenceStopsMotors` and `FaultStopsMotors`.
Liveness under fairness is beyond TLAPS.

## Not modelled

- The position of a motor between two encoder counts, and every other floating-point
  value: velocities are integers. The conversion to 16 bits, the limits of the encoder
  count and what a NaN command may become on the wire are in `CanWire`; in the other
  modules a controller gives no NaN. No property covers it: the code leaves open what such
  a command does.
- The checks of joints, interfaces and numeric formats in `on_init` and in the motor
  node's constructor, which end in a refused start; the ranges that decide what goes
  over the wire are in `CanWire`.
- `stop_sent_`, which only selects a log line; numbers and units in a report; the
  text of the controller state that is appended to an error.
- Several reads of the clock within one callback: one value per callback, the clock
  moves between callbacks. In `VirtualMotor`, where a stale clock value matters, it does
  move inside. In `VcanSystem` deadlines of the plugin stand still while a fault is
  latched: only `publish_diagnostics` reads them then, for the text of a message.
- Start and end of the two processes, `can_sender.hpp` (a template that selects one of
  two constructors; that every socket of the interface sees a frame is an assumption of
  `CanWire` and `VcanSystem`), launch files, URDF, YAML and scripts.
