# Verification of the ProtoThrottle X firmware

The firmware (`src/src/`) runs on an ATmega1284P: one endless main loop in
`mrbw-cst.c`, a 100 Hz timer interrupt, a quadrature interrupt for the throttle
knob, an ADC interrupt chain, and two UART interrupts under an XBee/MRBus packet
queue. Nothing is scheduled: everything the throttle does happens in a fixed
order inside one pass of the loop, on state that several screens, the interrupts
and the network all change. The specifications here model that state machine part
by part.

## 1. Inventory

| Part (source) | State it keeps | Operations | Interacts with |
|---|---|---|---|
| Brake lever (`mrbw-cst.c` 2410-2613, `evaluateStackBrake`) | `brakeState`, `controls`, `currentStackBand`, `brakeCounter` | one machine step per pass | ADC (lever), committed settings, function mask, air-brake model |
| Reverser, throttle, engine (2615-2686) | `activeReverserSetting`, `activeThrottleSetting`, `throttleQuadrature`, `engineState` | lock in neutral, engine start/stop | quadrature ISR, function mask, status packet |
| Screens and buttons (2688-6244) | `screenState`, `subscreenState`, `button`, `previousButton`, hold counters, OPS MODE flags | a press, a long press, a release on each screen | configuration, sleep, function mask |
| Configuration (`readConfig`, `copyConfig`, `resetConfig`, `cst-eeprom.c`) | live settings, their committed copies, EEPROM | edit live, SELECT saves, long MENU reloads, LOAD/SAVE, migrations | every part |
| Shared slots (`cst-sync.c`) | client state machine, retry counter, timer, last reply | push (BEGIN, DATA.., COMMIT), pull, query | node over the air, LOAD/SAVE screens |
| Function mask, lights (6317-6532) | `functionMask`, lag masks, light positions | rebuild every pass | everything that asserts a function |
| Alerter, e-stop, sleep, transmit (6534-6840) | `alerterTimeout`, `sleepTimeout`, `throttleStatus`, `estopStatus`, `lastStatus*`, TX queue | activity, expiry, penalty, sleep, wake, status packet | timer ISR, radio |
| Radio (`PktHandler`, queues) | RX/TX queues, `pktTimeout`, `txHoldoff` | receive version/time/CNF packets, transmit | fast clock, shared slots |
| Air brake (`cst-pressure.c`) | pipe, reservoir, governor and compressor state | 10 Hz update | brake lever, function mask |
| Speed simulation (`cst-speed.c`) | simulated speed, stop and hold watches | 10 Hz update | brake, throttle, engine, functions |
| Battery (`cst-battery.c`) | filtered voltage, state with hysteresis | one sample | ADC, status LED, packet |
| Engine labels (`cst-engine.c`) | engine-state queue per address | add, look up | engine screen |
| ADC scan (`cst-hardware.c`) | `adcState`, accumulators | 12-state conversion chain | sleep, lever, reverser, lights |
| Fast clock (`cst-time.c`) | real and fast time, scale, status | 10 Hz tick, time packet | radio, main screen |
| Functions (`cst-functions.c`) | function-to-F-number table | masks, latching, specials | configuration |
| LCD (`cst-lcd.c`, `lcd.c`) | display contents | rendering | output only |
| PC tools (`cst-cfgtransfer`, `cst-cfgnetwork`, `cst-fastclock`) | files, a network node | backup, restore, serve shared slots, time source | EEPROM image, radio |

The behaviours that make this code hard: interrupts between any two statements of
a pass; settings that are live on one screen and committed elsewhere; one button
press that means different things when it is pressed, held and released, with a
sleep between; a transmit queue that can be full; a lossy radio under the
shared-slot protocol; a base station shared with other throttles of other
firmware versions; sleep, which stops the timer in the middle of what it counted.
`PROJECT.json` lists each hazard at its line, with the properties that watch it.

What makes each part correct:

| Part | Correct when |
|---|---|
| Brake lever | brake-on and brake-off are never asserted together, a lever at rest ends released, nothing a type asserted survives a change of type, bands do not chatter |
| Handles, alerter, sleep, packets | a penalty, a slam and the direction interlock hold through queue-full and interrupts, nothing but the crew acknowledges a warning, the air catches up with the handles |
| Screens and softkeys | no press acts on a screen it was not made on, no flag outlives its screen, MENU reaches every screen that is shown, uncommitted edits do not escape |
| Shared configurations | the table and the throttles only ever hold whole profiles of the right layout, SAVED! is true, every sync ends |
| Configuration store | a cancelled edit leaves nothing behind, a migration keeps what each profile meant, a power loss harms no slot but those being written |
| Air brake, speed simulation | the simulated pressures and speed stay in range and converge to what the lever and throttle ask |
| Engine states per locomotive | each locomotive comes back in the state it was left in, while the queue has room for it; address 0 only once the queue has filled up |
| ADC scan, lights, horn, battery | a reading cut short by sleep or a knob on its way moves no light, a crossfade has no gap before the timer strikes, every output ends with what its control says |
| Fast clock | time wraps at midnight and follows the packets (not modelled) |

## 2. Modules

| Part | Modules | Checked | Proved |
|---|---|---|---|
| Brake lever | `BrakeLever`, `BrakeHistory`, `MCBrakeHistory` | `brake_types`, `brake_stuck`, `parts` | `BrakeProofs` |
| Screens and softkeys | `MenuNav`, `MenuHistory`, `MCMenu` | `menu`, `menu_blank` | `MenuNavProofs` |
| Handles, alerter, sleep, packets | `ThrottleTx`, `ThrottleHistory`, `MCThrottle` | `throttle_driving`, `throttle_resting`, `throttle_muted` | `ThrottleProofs` |
| Shared configurations | `SharedStore`, `CnfBase`, `CnfSync`, `CnfHistory`, `MCCnf` | `cnf_table`, `cnf_alone` | `CnfProofs`, `CnfTableProofs` |
| Configuration store | `ConfigStore`, `ConfigHistory` | `parts` | `StoreProofs` |
| Air brake | `AirBrake`, `AirBrakeHistory` | `parts` | `SimulationProofs` |
| Speed simulation | `SpeedSim`, `SpeedHistory`, `MCSpeed` | `parts`, `speed_snap` | `SimulationProofs` |
| SPEED CFG, decoder families, LOAD button | `SpeedScreen` | `parts` | `SimulationProofs` |
| Engine states per locomotive | `LocoEngine`, `LocoEngineHistory` | `parts`, `engine_swap` | `StoreProofs` |
| LOCO digits | `LocoEditor` | `parts` | `StoreProofs` |
| ADC scan, light knobs, horn, battery | `CabScan`, `CabHistory` | `parts` | `CabProofs` |

A `...History` module EXTENDS a component with history variables and states the
properties that need the past; an `MC...` module EXTENDS that with the small
instance; a `...Proofs` module EXTENDS the component and TLAPS. `CnfSync` EXTENDS
`CnfBase` (the throttles and the base station they share). `SharedStore` is the
abstract specification of the shared table: `CnfHistory` instantiates it with a
refinement mapping and the run `cnf_table` checks that the protocol implements it.
The history variable `book` of `ConfigHistory` plays the same part for the
configuration store: it says what each profile means to the user, in terms of the
layouts' definitions and not of the migrations.

`MCParts` puts ten parts that do not act on each other beside one another: the
variable `part` says which one moves, the others keep their initial state. Its state
space is the sum of the parts', not their product, and each of its properties speaks
of one part. The parts with theorems of their own names are extended (`SpeedScreen`,
`AirBrakeHistory`, `SpeedHistory`, `LocoEditor`, `ConfigHistory`), so that the run and the
theorem speak of the same property; the lever and the controls, of which there are several
instances, are instantiated.

No module uses a RECURSIVE operator. Names of the code are kept where TLA+ allows;
`PROJECT.json` maps each definition to its lines. Definitions marked "Mutant" in a
comment are not part of any specification: each is a plausible slip in the code
that a property must notice.

## 3. How state and actions correspond to the code

**BrakeLever.** One action per moment the brake state can change: `Dispatch` is
lines 2410-2613 of a pass (read the lever, run the committed type's machine,
clear STACK bits), `BuildMask` the point where the mask is built from `controls`,
`ReadConfig` a screen committing another BRK TYPE in between, `Tick` the 10 Hz
interrupt. Percentages are the code's own `uint8_t` arithmetic and wrap with it.

**MenuNav.** A pass is three steps, at `keys`, `screen` and `menu`: the softkeys are read,
the handler of the screen runs, then the global MENU handling, `previousButton` and sleep.
The five one-shot flags are one set. Settings are reduced to those that steer the
menus; an item edited on a configuration screen, the DIAGS pages, and the 700 ms
pages are abstracted. Hold counters count units of 500 ms; the screen byte is 0-18 or
255. `Disturbances` chooses what may interfere: a key pressed before
the last is released, a spell of critical battery, a reset.

`MenuHistory` remembers where the key now down was pressed (`edge`), whether presses overlapped,
whether a key that was latched on has been given a momentary function (`relatched`), and which
system bits the user agreed to by SELECT (`agreed`, and `arrived` for what that was when MENU came
to SYSTEM). Keys pressed one at a time, `MomentaryReleased` says of every screen that a momentary
function is on only while its key is down, unless `relatched`; such a function stays on until
the main screen or OPS MODE lets go of it, and the property says where all of them have been let go.
`NothingUncommittedOutside` compares the settings in use with EEPROM, and `systemBits`, which
EEPROM does not hold, with `agreed`.

**ThrottleTx.** A pass is seven steps, `begin` (handles) to `transmit`, each
named for its stretch of the loop; `Turn` is the quadrature interrupt and `Tick` a
decisecond of the timer interrupt, enabled at those steps where their order with
the pass can be told apart. What the screens and the packet handler can do to this
state is the step `screens`. Speeds are the packet's byte. The compressor is whatever its
own simulation says (any value at each 10 Hz tick).

`ThrottleHistory` remembers the last status packet queued and whether the last one on the
air has the compressor on (`hums`). Its variable `hush` follows the quiet before sleep: when
the mask is first built with the compressor silent, `WaitBehind(Len(queue))` says how many
deciseconds pass at most before a packet queued now goes out, and the quiet is timely or late by
that. It becomes late when a pass takes more than one tick, or when a screen pushes a packet before the
one with the compressor off is queued.

**CnfBase and CnfSync.** A sync blocks the main loop, so a throttle has at most one;
the record `op` is its place in `syncPushSharedCnf`, `syncPullSharedCnf`,
`syncQuerySharedCnf` or the peek of SAVE. `Attempt` is one send of
`cnfSendAndWait`, `TimeOut` its expiry, `Discard` a reply that does not match;
`Begun`, `Peeked`, `Chunked`, `Committed` and `Done` are what the callers make of the
reply; `Show` the result page. `FromPicker`, `ConfirmUpgrade`, `ConfirmWipe`,
`Leave` and `Edit` are the crew; `QueueStatus`, `LoopTransmit`, `LoopReceive` the main
loop in between. A packet on the air is lost or served at once; a reply is lost or
queued, and may be found late. The base station's code lives elsewhere: `CnfBase`
follows the stand-in of `src/src/cst-cfgnetwork/tests/test_cnf_radio_io.py` and, where
that one is silent (two throttles, a forgotten transfer), the comments of `cst-sync.c`;
those definitions are marked external. The CRC-16 is taken to tell buffers apart.

**ConfigStore.** A profile slot is one byte of each kind that the migrations treat
differently, and a byte is the default, a value of the user's, or erased. An
operation (boot with its stamp and migrations, LOAD, SAVE, a pulled profile, reset, the
save of a screen) is a list of single EEPROM writes; `Write` does one, `PowerLoss` drops
the rest and the RAM, `Finish` is the `readConfig()` every operation ends in. `Edit` and
`Dismiss` are the live edit and the long MENU.

**AirBrake.** `Tick` is `updateBrake10Hz()` whole, in its order: target of the handle,
vent or recharge of the pipe, credit of the draw, leak, compressor, pump. `Edit` changes
the settings under the running model (UP and DOWN in AIRBRAKE CFG), `Reseed` is
`initAirBrake()`. Pressures are integers in units of 1/`Psi` PSI; every division truncates
where the code's does.

**SpeedSim.** `Tick` is `updateSpeed10Hz()` whole: one disjunct per way through it (stop,
hold, ramp going on, standing, delay, departure, moving), each ending in `Drive`, the second
half. The arithmetic is the code's, at the scale of `Steps`, `Unit` and `Word` (126, 256
and 65536 there).

**SpeedScreen.** The table of decoder families, `speedResetModel()`, `speedApplyTypeInert()`,
which bytes `readConfig()` heals, and the three screens whose live edits the LOAD button could
take notice of. A run of presses of one arrow on a value is one step.

**LocoEngine, LocoEditor.** The queue of `cst-engine.c` with the places that use it, and the
ENGINE screen with its timer; the digits of LOCO, press by press.

**CabScan.** The chain of `processADC()` with the interrupt that ends each conversion, and the
three stretches of the pass that use its readings: the critical battery, the horn, and the light
functions of each side. `Channels` is the order of the chain, `Samples` the conversions of a
reading. `Sleep` turns the converter off wherever it is, so that whatever has been summed up is
read after `Wake`. A side's change of position is captured in one step (`CaptureLag`) and its lag
looked at in the next (`AssertLights`), because the timer interrupt may strike in between.

## 4. Runs

| Run | Instance and bounds | Shows |
|---|---|---|
| `brake_types` | eight lever readings on both sides of every threshold and band, all four types and both STACK variants, committed at any pass, one pulse width | the air-brake model is told the truth about a settled lever, the band does not chatter; while BRK TYPE has been left alone brake-on and brake-off stay apart and Step in step with the decoder |
| `brake_stuck` | PULSE and STACK, changed freely | finding: BRAKE stays on for good |
| `menu` | two profiles that differ in every setting that shapes the menu and in what two of the keys do; all disturbances (overlapping keys, critical battery, reset) | flags fit their screens, no press acts elsewhere, no momentary function stays on without its key, nothing uncommitted escapes, system bits included, MENU lands on the next screen shown |
| `menu_blank` | one profile, no disturbance | finding: asleep on the power-down screen, woken by MENU |
| `throttle_driving` | one notch, alerter of 3 deciseconds with 1 of warning, queue of 1, five readings of the handles | penalty, acknowledgement, slam, direction, wake |
| `throttle_resting` | queue of 2, sleep after 5, quiet at 3 left, compressor free | sleep, silence, and the air catching up |
| `throttle_muted` | the alerter's function forced off | finding: the alerter acknowledges itself |
| `cnf_table` | throttles of layouts 2 and 3, two entries, four profiles of two chunks and layouts 1 to 3, one attempt; the newer one saves, the older one loads | the protocol implements `SharedStore`; no silent wipe, no foreign layout |
| `cnf_alone` | one throttle, two entries, two chunks, three attempts, a transmit queue that starts with up to 3 packets, two replies on their way | SAVED! is true, no self-made failure, every sync ends |
| `parts` | see below | settling, marking, starting, correcting, returning engines, editing, storing, no flicker |
| `speed_snap` | a decoder without acceleration momentum | finding: the demanded speed is not reached |
| `engine_swap` | three locomotives, a queue of two | finding: setting the locomotive one has brings back an old engine state |

What `parts` says of each part. The lever with a type left alone ends released when
at rest and applied when hard over, with two pulse widths, the one committed while the counter
runs for the other (`LeverSettles`). A recharge completes, the governor
always cycles, whatever the settings, and the speed simulation arrives at the demand
(`SimulationsSettle`). The run of the compressor that a deep recharge causes is marked
(`DeepRunsMarked`). The speed simulation starts only after the Start Delay (`NoEarlyStart`), and
corrects only under the brakes a correction was taken under (`CorrectionMatchesRegime`). An engine
comes back in the state it was left in, address 0 excepted until the queue has filled up, and
the address shown is the one set (`LocoFollows`). A
light changes only after as many readings in a row as the debouncing asks for, and no light
function drops before the timer has struck since its knob last moved (`NoFlicker`); left alone,
lights, horn and battery end with what their controls say, whatever sleep has cut short before
(`KnobsSettle`). What
SPEED CFG saves stays (`EditsStick`), no parameter of another decoder family acts
(`ForeignInert`), and the LOAD button follows the stored profile (`LoadFollowsStore`). Each
profile means what the user last put there, and the settings in use are the stored ones
(`StoreKept`), but for profiles a power loss tore. `PartsTypeOK` is the parts' types; for the
air brake that includes that no pressure underflows.

Why the bounds are enough to be interesting. Lever readings: one in each
interval the code distinguishes, and pairs closer than the hysteresis. Menus: the
whole enum of screens is kept; only the kinds of functions and the settings are
sampled. Throttle: one notch tells moving from idle; an alerter of 3 with a warning
at 1 has every phase (quiet, warned, expired), and a queue of one is full
after every packet. Shared configurations: two chunks have a first and a last, so a torn
profile has one of each; two throttles are a holder and an intruder; a queue of three holds
two leftovers and a status packet, so every request of a three-attempt sync may be
pushed behind or dropped. Air brake: a pipe of 5 PSI in halves, handles at rest, in the
minimum reduction, in emergency's hysteresis and above, one governor with its band
inverted and a pump no stronger than the leak. Speed: two steps of six units with
rates above and below one unit a tick, a ramp, a fade, a wrap of the ramp's length, and the
brakes in three strengths. Store: one local profile and the working one, from every layout,
old bytes of two kinds, and two operations or power losses in any order after the first boot.
Queue: three locomotives and address 0 for two places. Controls: a light whose reading has two conversions, so
that one cut short falls into a third position between those of the knob, with a debounce of 1;
a horn with both stages, exclusive, and lever positions below, between and above them; a supply
below the critical level and above the highest. Bounds in guards: `steady`, `ratchet`, `stood` and the
hold counters stop at the value beyond which nothing changes; `decisecs` stops at its
threshold; `MaxDelay` is the longest Start Delay of an instance, and `stood` stops past it; `Backlog` bounds the status packets a loop leaves queued; `RxDepth` the
replies on their way; `MaxJobs` the operations begun, edits and power losses.

Deadlock is checked in every run but two: `engine_swap` and `parts`, where the queue
or a store that has used up `MaxJobs` has nothing more to do. Everywhere else the main loop never stops.

### Fairness

The loop is endless and waits for nothing but sleep, so a pass that can go on does: weak fairness
of the pass (`Pass`, `ObservedDispatch`, `BuildMask`). The timer interrupt
is enabled whenever the throttle is awake: weak fairness of `Tick` in `BrakeLever`,
strong fairness in `ThrottleTx`, where `Tick` is only taken at some of the steps of
a pass and so is enabled again and again rather than always. A sync in progress
runs in its own blocking loop with a timeout: weak fairness of `Syncing(t)`. There is no
fairness of the crew, the radio, the base station or the knob: `SyncEnds` holds with
every packet lost.

In `MCParts` the same is said by way of variables that the fair steps change: every 100 ms
tick of the simulations flips `beat`, every pass of the lever moves `loopAt`, every timer
interrupt moves `brakeCounter`; a pass of the cab's controls moves `cabAt`, a conversion `adcCount`
and a decisecond that counts `lag`. The 10 Hz slot of the main loop comes again and again while the throttle is
awake, whatever the crew does in between.

### Findings

* `brake_stuck`: leaving STACK clears BK2 and BK3 only and hands `brakeState` on; PULSE
  takes the state 20PCNT to mean that BRAKE is already off, so a BRAKE that a combo
  asserted stays on with the lever at rest (`mrbw-cst.c` 2607).
* `menu_blank`: the power-down screen does `screenState--` while MENU is down and relies
  on the press edge of the same pass to undo it; woken by MENU there is no edge and the byte
  is 255, which no screen draws (2825).
* `throttle_muted`: `lastFunctionMask` is given the alerter's function before the forced-off
  functions are removed from `functionMask`; with that function forced off the difference
  counts as activity and the alerter never expires (6546).
* `speed_snap`: with ACCEL 0 the largest step, 0xFFFF, is added to the speed in 16 bits and
  wraps; a moving train asked for more speed creeps down by one unit a tick instead of snapping
  up (`cst-speed.c` 815).
* `engine_swap`: SELECT in LOCO with the address unchanged looks the locomotive under
  control up in the queue before it is stored there, and so exchanges its engine state for an old
  one (`mrbw-cst.c` 3813).

### Observations

Met while modelling, each what the code does and not against any statement in it:

* The compressor's release pulse (BRK REL) can go on when the brake is applied again
  during a recharge at a lesser reduction; RECHARGE 0 recharges at once; a compressor run that ends
  in mid-recharge resets the credit of the draw.
* The compressor's last off reaches the radio only if what waits before it goes out within
  AIRBRAKE_SLEEP_QUIET_DECISECS, 0.3 s (6364-6367): TX HLDOF goes up to 2.54 s, and a screen
  that blocks through the quiet leaves one pass of it. `QuietAsleep` excepts these (`hush = "late"`);
  at a holdoff of one tick and a queue of two, as in `throttle_resting`, no throttle that the
  timer puts to sleep meets the exception.
* A stored TYPE above the known ones, browsed down to V4, is not re-initialised until it is
  saved; no editor stores such a TYPE, and `SpeedScreenAssumption` leaves it out. A
  stored profile keeps its LOAD button when the display option it needs is turned off by another.
* `readConfig()` answers an invalid short address with the *long* address 127 (1406-1411).
* The long address 0, which the digits of LOCO can be turned to, is also that of an unused entry of
  the queue. Until every entry has been used, address 0 is therefore kept in the next entry to be
  used, and the next newcomer takes it: the engine state of 0 is forgotten, no other is.
  `EngineComesBack` excepts address 0 until then, and holds it to its state afterwards. The queue is
  first in, first out by insertion, not by use.
* Saving SYSTEM takes no new snapshot of `systemBits` (5424-5437), and the page stays on SYSTEM.
  Entered again from there and cancelled, it goes back to the bits from before the save
  (6211-6225). `agreed` takes that for the cancel of the whole visit.
* A key whose function is on and latched may be given a momentary one: it stays on with no key down
  until the main screen, for UP and DOWN, or OPS MODE runs without it. Given AIRBRAKE, and the other
  arrow key pressed before that, AIRBRAKE opens with the other key's momentary function on,
  and keeps it on until it is dismissed (2775-2798).
* The layout version is stamped before the migrations, so an interrupted migration is never
  resumed (`cst-eeprom.c` 47): `StoreKept` shows that nothing but the slots being
  written is affected.
* The horn lets go only at its threshold less the hysteresis, which no lever position reaches with
  a threshold below 5 (2377): such a calibration takes a horn set with the lever nearly released,
  and `CabAssumption` leaves it out. A narrow brake calibration wraps `brakePcnt` in its byte
  (2417), which the model keeps and the types survive.
* A reading cut short by sleep is short: after waking, one scan may find the horn lever fully
  pulled, the reverser in REVERSE or the battery lower than it is (`cst-hardware.c` 323). A
  light needs several in a row; the horn sounds, the reverser is read so until the next scan.
* The lag of a light function may be shorter than 100 ms, and none at all when the
  timer strikes between setting it and looking at it (6482-6486).

## 5. Proofs

All are checked by TLAPS from the named assumptions on the constants, for
every lever, calibration, set of settings, number of throttles, entries, chunks, retries
and queue depths.

**BrakeProofs**, one pass (`TypeCorrect`, `NeverBothAsserted`, `OneChangePerPass`, `NoStaleCombo`,
`BandAlwaysFits`). Each is inductive together with the type invariant, and
`NeverBothAsserted` together with what each state of a machine says of the bits it
owns. The band needs the most: `BandAlwaysFits` follows the band through a change
between three and five steps, where the number of bands shrinks under it.

**BrakeProofs**, several passes (`HistoryTypes`, `RestIsTold`, `ApartWhileKept`, `StepKeepsCount`,
`BandNeverChatters`, `OneChangeWhileKept`): every property of `brake_types`, for any calibration.
Those that hold while BRK TYPE is kept follow from the lever's own invariant under `KeptInv`.
`StepCounts` says how far the decoder's count may differ from the throttle's level in each
state of the Step machine, while a pulse is out. For a lever at rest `StepSettles` and
`StackSettles` say what one and two still passes have brought the machine to, and
`RestTold` what that tells the air brake. For the band, `ChatterInv` relates the position at
the band's last change to the boundaries of the band: these rise with the band
(`BoundariesRise`), so a lever within the hysteresis crosses none of them back.

**MenuNavProofs** (`TypeCorrect`, `FlagsNeverStranded`, `NeverSteppedPastLast`,
`SystemOnTheWay`, `HistoryTypes`, `NothingEscapes`, `AlwaysLandsOnNextShown`,
`EntryHoldAlwaysStays`, `AdvanceAlwaysHasPress`, `MomentaryAlwaysReleased`): every property of
`menu`, under every disturbance and for any settings. `FlagsFitScreen` is not inductive: whether a flag fits depends on
the key that is down and on whether the pass will sleep. The strengthening adds where
a deferred press may wait (`PendingFits`), which key an ignored MENU is (`IgnoreFits`)
and that a throttle told to sleep does so at the end of the pass (`PowerFits`). The
arithmetic part is `LandingFits`: whatever is hidden, the chain of skips lands on a screen;
`LandingIsNext` says on which. The properties of the past each have an invariant of their own
over this one: `SavedFits` (the settings differ from the stored ones only inside the screen that
edits them), `EntryFits` (the hold that entered OPS MODE is still known for it), `PendingSeen` (a
deferred press was seen being made), `HeldFits` (a momentary function that is on has its key
down, and is on only on a screen that lets go of it) and `FreeFits` (where UP and DOWN, or all four,
have been let go whatever was edited). The last three hold with keys pressed one at a time,
as do the properties; `HeldFits` also needs that no latched key was given a momentary function.
`AgreedFits` is what `SavedFits` is, for the system bits and the snapshot a cancel restores.

**CnfProofs** (`TypeCorrect`, `OnlyOwnLayout`). That the table and the working
configurations are of the right layout is not inductive: a profile is on its way in
requests, replies and buffers before it is stored. `IInv` says of which layout it
is at each station: a queued COMMIT of its sender's; a reply to a pull's BEGIN of the
layout the reply reports; the buffer of a push of the pusher's; what a pull expects of
the puller's, once it has passed the version check; a verified pull equal to what it expects; and
a push that does not move the pin is by a throttle of the pinned layout. There is one lemma
per action. The theorem does not assume fairness, reliability or any bound on
the queues; it assumes that the CRC tells buffers apart.

**CnfProofs**, the wipes (`WipesAreConfirmed`). Between the check that leads to the two
confirmations and the push that wipes lie a status packet, other transfers and the
leftovers of earlier ones. The invariant `WInv` adds to `IInv` that the pinned layout only
rises, so that each version a reply or a peek has reported is a lower bound of it
(`RepliesReport`, `PeeksReport`); hence a throttle that pushes, or has a push left in its
queue, either confirmed it or finds a table that needs no upgrade (`PushesHarmless`), and
a transfer that will upgrade was confirmed (`AdvanceConfirmed`).

**CnfTableProofs** (`SavedMeansStored`, `Refinement`, `OutcomesAreTrue`): the table of whole
profiles and the truth of what the crew reads, for any number of throttles, entries, chunks
and retries, any backlog, and packets lost, late and repeated. Three invariants, each on
the one before:

* `Order` says where packets of a finished sync can still be. A send transmits the head of
  the queue, not the request that is waited for, so a COMMIT of an earlier push may be served
  and answered during a later sync. It is never taken for one of a later push, because SAVE
  peeks first: the peek ends only when its BEGIN was answered, hence sent, and what is behind
  that BEGIN in the queue is counted (`Deep`, `Since`). This needs the queue to be too short for
  a BEGIN, its DONE, and the DATA packets and the COMMIT of a push behind them: `QueueAssumption`,
  `QueueDepth <= Chunks + 3`, which the code meets with 16 packets and 13 chunks and not one
  packet to spare.
* `Seen` says of each request, reply, checksum and buffer of a transfer what the entry has
  held since it began: a COMMIT about carries the buffer of its push, what a BEGIN told
  was in the table at that time, a verified buffer equals it. This gives `SavedMeansStored`, and
  `Refinement`: every step is a Put, a Load, an Open, an upgrade or a stutter of
  `SharedStore`, and a Load returns what the entry held while it ran.
* `Told` says of a transfer that nothing disturbs what it finds: each chunk that was acknowledged
  is in the base station's buffer (a push) or in the throttle's (a pull), each reply
  waiting is of a chunk not passed yet or carries that chunk's data, so the checksum agrees.
  It gives the second half of `OutcomesAreTrue`.

What counts as undisturbed is part of the property and had to be found. `disturbed` is also set by
a push that begins with packets of the throttle's own earlier pushes unsent, or answered and
not read. At the bounds of `cnf_alone` TLC finds nothing without it; with nine chunks, a queue of
twelve and a full backlog it finds an 84-step run in which BEGIN and DATA packets of pushes
given up are still in the queue, their replies come late, and a push nobody else
touched ends in "BAD ENTRY". The proof attempt led there: `Told` is not inductive without it.

**ThrottleProofs** (`TypeCorrect`, `LastAlwaysQueued`, `PenaltyAlwaysHolds`,
`SlamAlwaysHolds`, `DirectionLocked`, `WakesInIdle`, `WarningsNeedCrew`, `HandlesAlwaysSent`,
`SleepsQuiet`). Only the step at `packet`
queues a status packet, so the invariant `IInv` carries, from the step that computes it to that
one, what the penalty has done to throttle and functions, what a slam has done to the e-stop, and
which direction the knob was last at idle with, while `Turn` and `Tick` fall anywhere between.

For waking, `WakeInv` says that under strict sleep a pass off neutral ends with the timer full, less
the one tick that can fall after the reset (`sleep_tmr_reset_value > 1` is needed here): so a
throttle asleep by itself is in neutral, where the lock keeps it. What frees the throttle in
neutral is the mask of the pass before, so the property's exception is the history variable `unlocked`,
taken where the throttle is settled, and the theorem holds for any table of functions.

`WarningsNeedCrew` supposes `FunctionsApart`: the alerter's function is not forced off, which
`throttle_muted` shows to be needed, and the function that swaps the reverser is none of those that
come and go without the crew. Its invariant `AckInv` follows a touch to the packets: one packet later the
swap in the mask is the controls' (`SwapSettled`) and the next pass finds the reverser in its place
(`ReverserSettled`); two packets later `last` is what the controls ask for, but for the alerter's
function and those of the compressor (`LastAsked`). `WarningEntered` closes the gap: what the
alerter adds to the mask it has added to `last` as well, so the comparison finds nothing.
`HandlesAlwaysSent` says the same of the packets themselves: two packets after the crew has let
go, off neutral and without the penalty, the last one queued has the speed, direction and functions
that the handles ask for (`HandlesSent`). It is what `CatchesUp` promises of the packets queued,
without the fairness that makes them go out.

`SleepsQuiet` supposes `CompressorApart`: no option forces the compressor's function on and no
other role shares it; else the function stays in the mask and there is no quiet. `QuietInv` has two
halves. Outside the quiet, a pass that may sound the compressor leaves the timer above zero even with the
one tick that can follow (`LoudAwake`), so the throttle does not fall asleep by itself. In the quiet
the mask has no compressor, and if the last packet queued has it then the mask has changed since
(`LastIsQueued`), so one is due as soon as the queue has room (`Hushed`). From there `InTime` follows
that packet to the air by its place in the queue: a tick shortens its wait and the sleep timer by one
each, a packet sent brings it one place and at most one holdoff nearer (`ReadySent`), and what is pushed
behind does not delay it. Asleep the timer is at zero and any wait is at least one, so the packet is out.

**StoreProofs**, the configuration store (`StoreTypeCorrect`, `StoreKeepsBook`), for any number of
slots, any profiles an older firmware may have left and any sequence of operations, edits
and power losses, from `ConfigAssumption`. The invariant `StoreInv` has three phases. Until the
stamp is written the store is the old firmware's and the job is exactly the migrations of its
layout (`OldStore`); from then on what is still to be written *reaches* a store that means what
`book` says in every slot that is not torn (`AtWork`); at rest the store is that one (`AtRest`). What
carries the proof is `Reaches`, which says what a list of writes makes of a slot without
executing it: the list is `Ordered` (no two of its writes touch the same byte in an order that
matters), so each write can be taken from its front. That the migrations of each
layout, over all slots one after another, reach the profile `Migrated` and that this one means now
what the old one meant then (`MigratedMeans`) is a case for each field and layout, as in the
code: a migration gated on the wrong version fails there.

**StoreProofs**, engines (`EngineTypeCorrect`, `EnginesComeBack`), for any size of the queue and
any locomotives. `QueueHolds` relates the ring with its wrapping `next` to the account `left` of
who was left in which order: the ring holds these and nothing else, each at the place its age
gives it (`Spot`), and no locomotive twice. Before the ring is full, the places behind them are
those of address 0 (`SpareIsFirst`), and writing its state there touches no note (`QueueSpares`).
The theorem excepts address 0 for that long, and no address after that.

**StoreProofs**, LOCO (`EditorSetsShown`, `LocoAlwaysFollows`): every turn of a digit, of the
first one between short and long addresses included, keeps a short address below 128
(`EditorInv`), and `DigitsOf` returns the digits a number was made of (`FourDigits`), so SELECT
leaves address and screen alike. `LocoFollows` is this and the queue together.

**SimulationProofs**, SPEED CFG (`ScreenTypes`, `ForeignAlwaysInert`, `SavedIsInForce`,
`LoadAlwaysFollowsStore`), from `SpeedScreenAssumption`: no stored profile has a TYPE that no
firmware stored. The inductive invariant `SInv` adds to the types that the foreign parameters
are inert in the settings being edited, that no byte which heals is erased in either
copy, and that the committed copies are those of the stored profile.

**SimulationProofs**, air brake (`AirTypes`, `DeepAlwaysMarked`), from `AirAssumption` on the ranges of
the settings. That pressures do not underflow needs the order of the floors in `AirTick`; that the
credit is bounded needs the widest governor band. For the marking the invariant `AirInv` says what
`owed` stands for: as long as a deep recharge goes on and the compressor has not stopped, the credit
is still deep.

**SimulationProofs**, speed (`SpeedTypes`, `StartsServed`, `CorrectionsMatch`), from
`SpeedHistoryAssumption`: the settings are bytes, the load scale, fade and span have the signs the code
gives them, and no Start Delay is longer than `MaxDelay`. The types are the arithmetic of the
tick: every denominator is positive where it is used (the load and fade scales, the span, the
ticks of a climb, `tau (T - tau)^2` of its slope), a climb never rises above the
demand, and the sum that wraps at 16 bits and the step that is larger than the speed both end
between standstill and full speed. `DelayInStep` says of a train that has
come to a genuine stop that its delay is yet to begin, or runs in step with the time it has
stood with a demand, or is served; edits of the delay end the claim, since a new delay is not
applied to a wait in progress. `CaptureInStep` ties a correction that is kept to the brakes of the
last tick: only a tick that slows captures, and one with other brakes drops it. Why a climb
cannot keep a correction from other brakes is the lemma `RampsTyped`: it never slows the train.

**CabProofs** (`ControlTypes`, `NeverFlickers`), from `CabAssumption`, which the theorems name as their
hypothesis: `MCParts` only instantiates `CabHistory`, and evaluates the assumption for its
instances. For the debouncing `DebounceInv` says that the last position read is the candidate
and has been read in a row at least once more than it was counted. For the lag `LagInv` says that
a side asserts no more than its last noticed position and what lags; that between `CaptureLag` and
`AssertLights` all that is about to drop lags; and that what lags has a timeout that, with the
deciseconds struck so far, makes up the hold. `NoFlicker` is the two together.

**Model-checked only.** Liveness under fairness: `LeverSettles`, `SimulationsSettle`, `KnobsSettle`,
`CatchesUp`, `NodsOff`, `SyncEnds`. `PartsTypeOK` as a
whole, which puts the types of ten parts together: those of the air brake, the speed, the screen,
the store, the engines and the cab are theorems of their own.
No model has RECURSIVE operators or induction over data.

## 6. Not modelled, and why

* `setBatteryLevels()` and the drawing of the battery; the switches that power the
  potentiometers, which have no effect the converter would see late; `adcLoopCount` is in
  `ThrottleTx`, where what waits for it is.
* The fast clock and its PC source: a display that packets set.
* In the receive path, pings, time packets and remote writes into RAM or EEPROM; `pktTimeout` is
  refreshed before the checksum is looked at (`mrbw-cst.c` 954), which no property here covers.
* In the function mask, the plain buttons, the bell and the assignment of functions: they map an
  input to a bit.
* The device-wide bytes of EEPROM outside the profiles, and the clamping of each field.
* Settings screens that step one value between two bounds: `MenuNav` models their keys.
* Rendering (`cst-lcd.c`, `lcd.c`, the drawing in every screen), the diagnostic pages, AVR
  registers, board files, housings, fuses and generated images carry no protocol of their own.
* The PC tools are sequential scripts a person watches; the protocol they share with the
  throttle is modelled from the throttle's side.
* The XBee framing and the UART interrupts are an external library (its directory
  is a submodule, empty here): the models take it as queues that may be full and a radio
  that may lose.
