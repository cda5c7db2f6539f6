# batteryd in TLA+

Specifications of `com.webos.service.battery` (batteryd), the webOS daemon that
watches the battery and the charger through nyx, decides whether to charge,
powers the device off when it must, and tells the Luna bus about both.  Line
numbers refer to the sources beside this directory, under `src/`.

## The system

One process, one thread, one glib main loop.  Nothing runs concurrently with a
callback, yet every callback asks nyx several times, and what nyx answers can
change between two questions.  The state below survives from one callback to
the next, and several modules read each other's.

| Component | Source | State | Operations |
|---|---|---|---|
| battery poll | `batteryd/charging/batterypoll.c` | state of the presence machine, count of bad samples, last significant sample | `battery_state_iterate()` and its five state handlers; `BatteryIsPresent()`, `BatteryIsAuthentic()` |
| charge decision | `batteryd/charging/charging_logic.c`, `critical_eval.h` | state of the charging machine, what was last asked of nyx, reason for a shutdown, overcharge count, row of critical samples | `handle_charger_event()`, `ChargingLogicUpdate()`, `BatteryLevelCheck()`, `ChargeStateIterate()` and its six handlers |
| charger broadcasts | `batteryd/charging/charger.c`, `charger_eval.h` | last status read, last view broadcast, whether the battery is full | nyx callbacks, two bus queries, the 30-second resync, `ChargerNoteBattery()`, enabling and disabling charging |
| battery broadcasts, wakeups | `batteryd/charging/battery.c` | nyx handle, CTIA limits | `battery_read()`, `battery_authenticate()`, `sendBatteryStatus()`, `battery_set_wakeup_percentage()` |
| suspend and resume | `batteryd/charging/suspend.c` | none of its own | `resumeSignal()`, `suspendedSignal()` |
| time saver | `batteryd/timesaver.c.in` | a file and its temporary | `timesaver_save()`, `timesaver_init()` |
| initialization | `batteryd/utils/init.c`, `main.c`, `config.c.in` | hook list, configuration | `TheOneInit()`, `config_init()`, `main()` |
| timer source | `batteryd/utils/timersource.c` | expiration of a timer | glib source callbacks |
| client library | `libbatteryd/` | handle with client name and id, main loop, bus handle, wait objects | `BatterydClientInit()`, `BatterydClientDeinit()`, callbacks on an IPC thread |
| bus tables, sysfs, logging | `com_webos_service_battery_lunabus.c`, `utils/` | none | |

How they interact:

* nyx calls `notifyStateChange()` (charger, `charger.c:368`), which reads the
  charger and calls `handle_charger_event()` (charge decision).  That runs a
  pass of the battery poll on a present or absent event, jumps to shutdown on a
  critical voltage or temperature, and goes on to `ChargingLogicUpdate()`: a
  pass of the charging machine, a check of the critical levels, and another
  pass if that one decided to shut down.
* nyx calls `notifyBatteryStatus()` (`battery.c:427`): broadcast the battery,
  `BatteryLevelCheck()`, then `ChargerResync()`.
* nyx calls `notifyChargerStatus()`, clients send or call `chargerStatusQuery`,
  and a timer fires: each reads the charger and broadcasts it if it differs
  from what was last broadcast.
* The charging machine asks `ChargerIsConnected()` and `ChargerIsCharging()`
  (the last read, by whomever) and `BatteryIsPresent()` and
  `BatteryIsAuthentic()` (the battery poll's state).  It drives nyx's charging
  switch and sends sleepd one `machineOff` call.
* sleepd's signals: a suspend and a resume each tell nyx anew what percentage to
  wake the device at, and a resume may queue a check that the main loop runs
  later: `getNewEvent()` and a pass of the battery poll
  (`charging_logic.c:711-712`).

What is hard in it:

* passes that chase their own tail, because a handler hands over to one that
  hands back (both machines carry a guard against it);
* shutdown: several causes, several paths, a reset of the reason on the way,
  and one request that must be made once;
* reads that fail, and zeroed structures that look like readings;
* rows of samples ("three in a row") kept in statics across callbacks;
* a record of what the bus was told, compared with reads made for other
  purposes, and sends that fail halfway;
* the order of initialization hooks, and a client library with a thread.

What makes each component correct is listed with its module below; what this
code is exposed to, line by line, is in `PROJECT.json` under `hazards`.

## Modules

| Module | What it is |
|---|---|
| `Eval` | the pure evaluations: `charger_view()` and its companions, `critical_percent_eval()` |
| `BatteryPoll` | the battery poll |
| `BatteryReport` | the battery poll with what becomes of its reports |
| `ChargingLogic` | the charge decision |
| `PowerOff` | abstract: what sleepd may rely on about being asked to power off |
| `Charger` | the charger broadcasts |
| `Battery` | the evaluations of a percentage: what is shown of it, and the level to wake at |
| `Batteryd` | the daemon at run time: `BatteryPoll` and `ChargingLogic` composed, with the callbacks that drive them, the charger's status, the wakeups, suspend and resume |
| `Startup` | from the constructors to the main loop: hooks, options, configuration |
| `TimeSaver` | saving and restoring the time, over crashes and power cuts |
| `LibClient` | the client library: its sessions, its threads, its calls |
| `Clock` | the client library's arithmetic of times |
| `WaitObject` | its wait object: timed waits, signals and broadcasts of several threads |
| `TimerSource` | the daemon's timer source between GLib's loop and another thread |
| `LevelCheck` | `ChargingLogic` with a history of what its level checks were shown |
| `MCBatteryPoll`, `MCChargingLogic`, `MCLevelCheck`, `MCCharger`, `MCBatteryd`, `MCStartup`, `MCTimeSaver`, `MCLibClient`, `MCClock` | small instances for TLC |
| `BatteryPoll_proof`, `ChargingLogic_proof` (with `LevelCheck`), `Charger_proof`, `Batteryd_proof`, `Startup_proof`, `TimeSaver_proof`, `LibClient_proof`, `Clock_proof` (with `WaitObject` and `TimerSource`) | theorems and proofs |

Some modules hold definitions marked *Fault*: a form of the definition after
them with a plausible mistake in it.  Nothing uses them; each is there so that
one can see, by putting it in the definition's place, that a property notices.

### BatteryPoll

One step per handler call.  `state_node`, `debounce_bad` and `last` are the
variables (statics) of the C code; `iterating` and `entered` are the locals of
`battery_state_iterate()`; `searching` is the content of the w1 master's search
file; `battery` is what the next `battery_read()` will answer, and may change
before any step.  A reading
that fails has `ok = FALSE` and zeroes, as `battery_read()` leaves it.
`debounce_bad` stops one above the threshold, the value beyond which the code
no longer tells counts apart.  `discharge_count` only reaches the log and is
left out.  `Return` and `ReturnLast` are what `battery_state_iterate()` does
with a handler's answer, the re-entry guard included.

* `HandlerRunsOncePerPass`, `EveryPassEnds`: no handler runs twice in a pass,
  so no pass blocks the main loop, however the battery flaps.
* `SearchFollowsRemoval`: the search is on in removed and off once a battery
  has been authenticated or refused.
* `RemovalIsSeen`: failed reads never add up to a removal (`battery.c:51-61`).

`BatteryReport` adds the `batteryStatus` signal.  `sendBatteryStatus()` does not
send the reading that `sample_is_new()` compared: it queries nyx again
(`battery.c:295`), which may answer something else or not at all, and the send
may fail.  Others send the same signal and leave `last` alone
(`battery.c:143`, `:429`, `:443`).  So what the bus was told cannot be tied to
`last`; what can is when a signal must come.  `silent` is a history of the
samples the handlers have looked at since the last signal, `lost` of whether a
report has failed since.

* `NoChangeGoesUnreported`: a battery that creeps by one degree at a time, each
  step within tolerance of the one before, is not let go by without a signal:
  the samples looked at in silence never differ in percentage or by more than
  the tolerance to either side.  A failed report is excepted, since nothing
  repeats it.

### ChargingLogic

One step per part of a call: `handle_charger_event` begins one, `CheckVoltage`,
`CheckTemperature` and `ChargingLogicUpdate` are its parts up to the first pass,
`StateHandler` is one handler of a pass, `CheckCriticalLevels` the check after
it.  `BatteryLevelCheck` begins the short call that only checks.  `pc` says
where the running call is: `iterate` is the first pass of
`ChargingLogicUpdate()`, `final` the pass that follows a decision to shut down
(of either caller).  `battery` may change before any step, since every
`battery_read()` asks anew.  `charger` and `pack`, the answers of the other two
modules, change only at `pc = "mainloop"` (`ViewsChange`) and on the poll pass
that a present or absent event runs (`BatteryStateIterate`): both are daemon
state that only other callbacks write.  `nyx_charging` is the hardware's switch
and `machineOff` the calls made to sleepd.  The event is consumed by the first
handler of a pass (`Edge`), and `ChargingLogicUpdate()` gives its second pass
the same event again, as the code does (`charging_logic.c:688`).

The comparison of doubles in `BatteryOverchargeFault()` is multiplied out to
integers.  `overcharge_count` stops one above the retries.  Wakeup percentages,
currents and logs are left out.

* `OneShutdownRequest`, `ReasonIsGiven`: one decision, one request, with a
  reason, whatever critical conditions meet or repeat.
* `PowersOff`: the same as an implementation of `PowerOff`.  It implies
  `ShutdownIsFinal`, which is only proved.
* `ChargingFollowsState`: between calls the hardware charges as the state says.
  It assumes that nyx does stop charging when told to; where it fails,
  `TurnChargingOff()` records `disabled` all the same (`charging_logic.c:128`).
* `LevelShutdownIsConfirmed` (in `LevelCheck`): the level powers the device off
  only after three believable critical samples in a row
  (`charging_logic.c:386-391`).
* `HandlerRunsOncePerPass`, `EveryCallReturns`: no call blocks the main loop.

### Charger

Every callback runs to its end without asking nyx twice, so each is one step.
`currStatus`, `lastBroadcast`, `lastBroadcastValid` and `batteryFull` are the
statics; `bus` holds the last message of each of the four topics a broadcast
goes to (a message carries the view's fields, or the type, that the C code
prints); `status` and `readable` are what is plugged in and whether nyx
answers; `down` is the set of topics that cannot be sent on.  A broadcast sends
what it can and keeps the record only if all of it was sent, as the code does.

`torn` is a history: some topic has missed a broadcast, and no broadcast has
reached all of them since.

* `RecordIsWhatBusWasTold`: unless `torn`, every topic was last told the one
  recorded view (the reason `charger_eval.h` exists, and the comment at
  `charger.c:57-62`).
* `StableChargerIsTold`: a charger that stays as it is ends up on every topic,
  even if nyx never calls, because the timer reads it; again unless `torn`.
* `NoPhantomUnplug`: a query that nyx does not answer is never told as an
  unplug, outages or not.

### Batteryd

`BatteryPoll` and `ChargingLogic` are instantiated on shared variables; each
sees the other, and the charger, through an expression in place of its variable
(`PackAnswer`, `ChargerAnswer`).  `calls` is what the running callback has still
to call, in the order of the C code: `notifyStateChange` leaves
`handle_charger_event`, preceded by a pass of the poll if the event is about the
battery (`charging_logic.c:781`); `notifyBatteryStatus` leaves the level check
and then `ChargerResync`; the helper that a resume queues leaves
`getNewEvent()`'s call and then a pass.  `decide` stands for the steps that
`ChargingLogic` still has to make.  A callback begins only when `calls` is
empty.  The battery and the plug may change before any step; the daemon's
`currStatus` only by a read.

Of `Charger` only the read is here: what is sent to the bus disturbs nothing
else, and `ChargerNoteBattery()` only writes what a broadcast says.  `wakeup` is
the percentage nyx was last told, `weighed` the one it was worked out from;
`seen` and `missed` are histories.

* `ChargeDecisionIsComposed`: `ChargingLogic` supposes that what it asks of the
  charger and the poll stands still while a call of its own runs, except for
  the pass an event brings.  With the callbacks as they are chained that is so,
  and so everything shown of `ChargingLogic` holds of the daemon.
* `DecidesOnFreshCharger`: a pass that nyx's event drives does not stay in
  charging on a read older than the event (`charger.c:382-389`).  It does for
  the event that a resume fetches, which is why the property leaves that out.
* `WakeupIsArmed`: turning charging on takes the wakeup away, and what turns it
  off must put it back.  It does, except out of a failed read, whose percentage
  is zero and below every level.
* `RemovalWasRead`: "battery removed." reaches sleepd only after a reading
  without a battery, however passes of the poll interleave with decisions.
* `RemovedBatteryPowersOff`: if the battery is gone for good and nyx goes on
  reporting that, the device is asked off.

### Startup

One step per constructor and per hook.  `NamedInitFuncAdd` inserts as
`g_hook_insert_sorted()` does with `GPrioritizedHookCompare()`: before the first
hook that does not come earlier, so among equals the one registered last runs
first.  Constructors run in the order in which the objects were linked, which is
a parameter, `LinkedBefore`.  `main` takes the options; each hook is an action
that records what later behaviour depends on: the configuration, which devices
were found, what was subscribed to, which callbacks nyx was given.  `given` is
what this start found: options, file, kernel command line.  A file that is
missing or whose values do not parse is a function without those keys.

* `EventsFollowConfiguration`, `LimitsBeforePoll`: each hook finds what it needs
  whatever the link order, because the priorities differ.
* `FakeBatteryIsHeard`: `BatteryInit()` reads a setting that `config_init()`
  writes, at the same priority.  It holds because CMake appends the sources it
  configures to those it globs, so that `config_init()` is registered later and
  runs first (`MCConfigLast`); with `LinkedBefore` empty TLC finds it violated.
* `PrecedenceIsKept`: defaults, options, file, command line.

### TimeSaver

One step per system call of `timesaver_save()`.  `dir` and `data` are what
programs see, `diskDir` and `diskData` what a power cut would leave.  Names and
contents get to the disk in any order (`WriteBackNames`, `WriteBackContent`)
unless `fsync()` forces a content, and a rename is atomic.  A content is the
number it holds and its length: since `open()` does not truncate, writing over a
longer file leaves the end of that (`WrittenOver`).  `write()` and `fsync()` may
fail, and nobody looks at what they return (`timesaver.c.in:144-145`); a
`write()` of so few bytes is made whole or not at all.  `latest` is a history of
what the clock has shown, `failing` of whether one of the two has failed in the
save under way, `unsafe` of whether one had in the save last renamed into place.

* `NoInventedTime`: what is restored was once the time.
* `SavedTimeIsNotLost`: once there is a time on the disk no step, kill or power
  cut leaves the device without one, except while the file last renamed into
  place is one whose `write()` or `fsync()` failed: that one may be empty, or
  become so.  The next save in which neither fails ends the exception.

### LibClient

The application's calls go through `pc` in the order of the C code, one step for
what it does between two points at which another thread can see a difference.
Sessions number the loops, threads and handles that the library makes;
`App` stands for the application's.  `ThreadStarts` is the thread's reading of
the global `gMainLoop`, which happens when the thread is scheduled, not when it
is created; `ThreadRuns` and `ThreadEnds` are the two ends of
`g_main_loop_run()`.  A loop whose last reference is gone may, when run, return
or run.

What comes in on a handle is dispatched by whoever runs the loop it is attached
to: the application, between two of its calls, or a thread of the library's, at
any time and while the application is within deinit.  There `ServerUpBegins`,
`LookUpHandle` and `SendIdentify` are the points of `_batteryd_server_up()` at
which the application can come in between; `target` is the handle it has looked
up.  The bus may announce batteryd at any time to a handle that asked.

Every call on the bus may fail (`CallsMayFail`), and what the code does then is
to print it: a cancel that fails leaves its subscription, whose token is
forgotten (marked `stray`), an `LSUnregister()` that fails leaves its handle with
all calls, and a thread that could not be created is not missed.  `left` is a
history of the handles that `LSUnregister()` failed on or that a callback in
progress made a call on after it, which is undefined behaviour: in the model it
may leave a call or do nothing.

* `OwnershipIsKnown`: however sessions with and without the application's loop
  and handle follow one another, what is the application's is not quit or
  unregistered, and what is the library's is.
* `OneStatusSubscription`, `OwnCallsEnd`: on the library's own handles, one
  subscription at a time, stray ones aside, and no call after deinit on any
  that is not in `left`.  Without either exception TLC finds the property
  violated.
* `ClientIsServed`: a late thread of an earlier session may take over the loop
  of a later one, but some thread runs it, provided that the handle could be
  attached and a thread created for its loop (neither is tried again).

The application is taken to keep to the documented order: its own loop and its
own handle come before it becomes a client (`init.c:90-96`, `commands.c:57`).

### Clock, WaitObject, TimerSource

`Clock` translates `clock.c`: times are pairs, `/` and `%` round towards zero,
`ClockAccum`'s loop carries and does not borrow.  `now` counts nanoseconds.  The
sizes of the units are parameters, so that TLC can have short seconds.

`WaitObject` is the mutex, the condition variable and any number of threads that
use them as `wait.c` asks ("must be locked before use").  A woken or timed-out
thread needs the mutex again before its wait returns.  The `int` in
`WaitObjectWait()` wraps: `(ms % 1000) * 1000000000` is nanoseconds a thousand
times too many, and overflows from 3 ms on (`wait.c:99`).

* `WaitsAreKept`: a wait that times out has lasted as long as was asked, and
  asking has not ended the process in `g_error()`, for whole seconds and for
  normalised times.  Of other milliseconds it is false.

`TimerSource` has one timer in GLib's loop (prepare, poll, check, dispatch) and
another thread that sets its interval without a lock.  While it does, `stores`
holds what the fields of the expiration may be read as.

* `LoopDoesNotOversleep`: once the call that set the interval has returned, the
  loop does not sleep beyond the expiration: `g_main_context_wakeup()` comes
  after the last store.
* `TimerIsNotEarly`: by no more than a quarter of the granularity and the
  millisecond that is cut off.

`PollReturns` has the timeout and the wakeup; a poll that another source ends
only brings the next iteration earlier.

Nothing in the repository calls either at present.  The wait object and the
clock are in the client library, for whoever links against it.  The timer source
is compiled into the batteryd executable, which has one thread and makes no such
timer: its properties are what the functions promise a caller to come, not
something that can happen in the daemon as it is.

## Runs

| Run | Module | What it asks | Distinct states |
|---|---|---|---|
| `BatteryPoll` | `MCBatteryPoll` | all properties of `BatteryPoll` and `BatteryReport` | 47,000 |
| `BatteryPollDebounce` | `MCBatteryPoll` | is a missing battery always debounced? **no** | |
| `ChargingLogic` | `MCChargingLogic` | safety of the charge decision, refinement of `PowerOff`, return of every call | 1.2 million |
| `LevelCheck` | `MCLevelCheck` | is a shutdown for the level confirmed? | 167,000 |
| `ShutdownRequested` | `MCChargingLogic` | is a decided shutdown always asked for? **no** | |
| `Charger` | `MCCharger` | agreement of the topics, convergence, no phantom unplug, with and without outages | 228,000 |
| `Batteryd` | `MCBatteryd` | the composition: does it drive the charge decision as that supposes, with fresh reads, a level to wake at, and from a battery pulled to the request to sleepd? | 1.4 million |
| `Startup` | `MCStartup` | precedence of settings, hooks find what they need, in any link order | 56,000 |
| `TimeSaver` | `MCTimeSaver` | is no time invented and none lost, whatever is cut short, but for a save that failed? | 667,000 |
| `TimeSaverShort` | `MCTimeSaver` | the first with times of two lengths: **no** | |
| `LibClient` | `MCLibClient` | ownership, subscriptions and service over sessions of both kinds, with failing calls and callbacks in progress | 1.7 million |
| `Clock` | `MCClock` | is a timer neither early nor overslept, is no timed wait cut short? | 3.6 million |

The three runs answered *no* each check one statement of a comment in the code
against what the code does; TLC's counterexample shows how they part
(`PROJECT.json`, `findings`):

* **Debounce.** `debounce_bad` is reset only by a present battery seen *in
  debounce*.  Once a battery has been removed and another inserted it is still
  above the threshold, so one later reading without a battery goes from
  authentic through debounce to removed in a single pass.
* **Shutdown requested.** An event that reports a critical voltage together with
  a temperature limit makes the machine jump to shutdown; if the temperature
  then cannot be read, `handle_charger_event()` returns (`charging_logic.c:793`)
  and the shutdown state's handler waits for whatever nyx reports next.
* **Short time.** A save that is cut short leaves its temporary; the next save
  opens it without truncating, so that the end of a longer number sticks out
  behind a shorter one and is renamed and restored with it.

Other statements of the sources part from the code so plainly that no run is
spent on them:

* no timer polls the battery "once every second" (`batterypoll.c:39`), which is
  why `RemovedBatteryPowersOff` has to ask for reports that go on;
* the way into charging looks at no temperature (`charging_logic.c:467`);
* a read that finds the charger gone runs no pass, so charging goes on until
  the next event (`charging_logic.c:546`);
* with `disable_charging` a resume can still deliver a critical event, and the
  shutdown it decides on is never asked for (`charging_logic.c:670`);
* the level check that should only apply "while nothing is charging" runs
  before the resync that would notice a new charger (`charging_logic.c:389`,
  `battery.c:433`);
* a failed broadcast is retried only while the charger differs from the record:
  if it goes back first, the topics that were told are never corrected
  (`charger.c:310`);
* `sample_is_new()` remembers the last significant sample, not what was sent,
  and a report that fails is not made again (`batterypoll.c:338`,
  `battery.c:405-420`);
* a subscription that cannot be cancelled is forgotten and the new one made
  beside it (`commands.c:83-90`), a handle that cannot be unregistered is
  forgotten with its calls (`commands.c:425-432`), and a callback in progress on
  the library's thread calls on whatever handle there was or is
  (`commands.c:130`, `:335`), though a client that stopped being one should hear
  no more (`init.c:139-143`);
* clients call `identify`, a method batteryd does not register (`commands.c:310`,
  `com_webos_service_battery_lunabus.c:33-40`);
* deinit does not cancel the calls that the library made on the application's
  handle (`init.c:140-142`), and a library thread told to quit before it has
  entered `g_main_loop_run()` runs for good (`commands.c:403`);
* "Wait up to ms milliseconds" waits a thousand times longer, shorter or not at
  all (`wait.c:77`), and a timer that "can be forced to expire" has no function
  that does (`timersource.c`).

### Bounds

* `BatteryPoll`: a failed, an absent and five present readings, four
  temperatures so that a creep passes the tolerance of one degree in steps that
  do not, and a second percentage.  The threshold is the code's, 3.  Signals
  may fail (`SendOutcomes`).
* `ChargingLogic`: readings that differ in everything a decision looks at (a
  normal one, a failed one, flat, overcharged, at the upper charge limit, at the
  critical temperature); fourteen
  combinations of event bits; the configurations that switch a path on or off.
  `OVERCHARGE_RETRIES` and `CRITICAL_PERCENT_SAMPLES`, 3 in the code, are 2 here,
  enough for a row to be begun, broken and completed.  `LevelCheck` has the
  code's 3 samples, and a flat reading that the voltage belies.  The lower
  temperature limit is 1, since 0 means no limit to the code.
* `Charger`: six statuses (nothing, a port of a computer charging and not, a
  mains supply that only shows in its power slot, a dock, a supply that nyx
  cannot classify); at most one topic fails at a time, one of those every
  broadcast goes to or one of those that only hear of a change.
* `Batteryd`: three readings (a battery, none, no answer), a charger and none,
  three events one at a time, queries and switches that may fail.  One sample and
  one bad reading are enough for each row (`ChargingLogic` and `BatteryPoll` have
  longer ones on their own), no overcharge is retried, and one check of a resume
  may wait (`MAX_CHECKS`): a second would only come after the first, at the main
  loop.
* `Clock`: a second is 4 ms, a millisecond 2 us, a microsecond a nanosecond; the
  clock stops at 12 (`MAX_NOW`), a second and a half, so that intervals begin at
  every offset within a second and cross its end; a `guint` has 24 values and an
  `int` 32, so that an interval is no `gint` and a product wraps.  Two threads
  wait.  The timer and the wait object share the clock only, so a behaviour has
  one of them.  It may deadlock: the clock stops, and `g_error()` ends the
  process.
* `Startup`: every order of the eight constructors with `config_init()` after
  `BatteryInit()`; six
  sets of options, four files (none, the one shipped, one that disables
  charging, one that turns the options round), the command line with and
  without the switch.
* `TimeSaver`: base 10, two times of equal length, of which the earlier is what
  a power cut may set the clock to (or 2 and 11, the shortest that differ in
  length), and four inodes: the two names in memory and the two on the disk hold
  at most that many.  A clock that is reset to before 2001, and so to fewer
  digits, is the case of `TimeSaverShort`.
* `LibClient`: two sessions, the least that lets one's thread meet the other's
  loop, and two tokens, one more than a subscription needs; a third subscription
  beside two strays finds no token and fails.

No state constraint is used: all state spaces are finite as they are.

### Fairness

* `WF(Handler)` in `BatteryPoll`, `WF(Step)` in `ChargingLogic`: a call that has
  begun goes on, as C code on the only thread does.  Nothing makes a call begin:
  nyx may stay silent.
* `WF(ChargerResync)` in `Charger`: the timer at `charger.c:504` fires for ever.
  No fairness for nyx's callbacks or for clients.
* `LibClient`: a call that the application has made goes on, and created threads
  are scheduled, within a callback too.  No fairness for the application's calls,
  for batteryd's coming up or for a callback's beginning.
* `WF(Call)` in `Batteryd`: a callback runs to its end.  That reports of an
  absent battery go on is a premise of `RemovedBatteryPowersOff`, not of `Spec`.
* `Startup`, `TimeSaver`, `Clock`, `WaitObject` and `TimerSource` state safety
  only.

## Proofs

The theorems hold for every set of readings, statuses, events and
configurations of the declared types, and for every value of the limits, from
the named assumptions in the modules (sets of the right type, limits natural
numbers, the row of critical samples at least one long).  Two need more of the
world and say so: `HardwareFollowsState` (and what is made of it in the daemon)
and `FakeBatteryFollows`; the proofs about saved times assume `EqualWidths`.

* `BatteryPoll_proof`: `IInv` is `TypeOK`, the pass guard, the search invariant
  and `EnteredOnlyInPass`.  The last is the strengthening: between passes
  nothing is recorded as entered, without which a new pass could begin in a
  state it takes for visited.  One lemma per handler; two lemmas about `Return`
  and `ReturnLast` carry the bookkeeping of the pass for all of them.
  `CreepIsReported` has `SilentIsNear`: unless a report was lost, every sample
  looked at since the last signal is within tolerance of the last significant
  one, and so all are of one another.  It needs nothing of the query or of the
  bus: a signal that fails is what `lost` records.
  Theorems: `IInvInvariant`, `TypeCorrect`, `PassIsGuarded`, `SearchIsRight`,
  `RemovalNeedsReading`, `CreepIsReported`.
* `ChargingLogic_proof`: `IInv` is `TypeOK`, `EnteredOnlyInPass`,
  `FinalPassShutsDown` (the second pass only runs in a shutdown state, so its
  replay of the event reaches no handler that acts on it), the pass guard,
  `OneShutdownRequest` and `ReasonIsGiven`.  `OneShutdownRequest` is inductive
  because only `StateShutdown` asks, and what it leaves is never left.
  Theorems: `TypeCorrect`, `PassIsGuarded`, `ShutdownAskedOnce`,
  `ShutdownHasReason`, `ShutdownStays` and `Implements`, which maps every step
  to one of `PowerOff` or to none.
  `HardwareFollowsState` has an invariant of its own, `HInv`, which says what
  the switch is at every point of a call, and assumes
  `DisableOutcomes = {TRUE}`.  `LevelShutdownConfirmed` relates the count kept by
  `critical_percent_eval()` to the history: `RowInv` says that so many of the
  last checks were all shown a believable critical level, until the device is
  to be powered off anyway.
* `Charger_proof`: a view of a status has the shape that `View` demands (dock,
  wired and charging all imply any), a broadcast keeps the bus's type, and one
  that does not leave the bus `torn` leaves every topic with the recorded view,
  including the two that it did not send on.
  Theorems: `TypeCorrect`, `TopicsAgree`, `UnplugIsReal`.
* `Batteryd_proof`: `ComposedInv` is `CallInv` (a decision runs just when the
  first call to make is `decide`, and no later one is) and the types of what the
  expressions between the components read.  From it `DaemonDecides` and
  `DaemonPolls`: every action is a step of `ChargingLogic` (of `BatteryPoll`) or
  leaves its variables and what it sees alone.  `Decision` and `Polling` are the
  components once more, with their proofs, and constants that
  `DecisionAssumption` and `PollAssumption` make ones they allow; so their
  invariants are the daemon's, and with them what follows: `ComponentsHold`,
  `DaemonPowersOff` (the refinement of `PowerOff`), `DaemonHardwareFollows`.
  `DaemonTypes` adds what neither component holds (`OwnTypes`).
  `SeenInv` says that what was seen is still what the daemon
  believes until the decision has run (`DecisionIsFresh`).  `RemovalInv` follows
  an absence from the poll's count through its state and the reason of the
  decision to sleepd (`RemovalAlwaysRead`).  `WakeupAlwaysArmed` needs to know at
  which points of a call the switch and the wakeup may differ, and that a level
  is left at every percentage above one (`NextLevelIsAhead`).  One theorem is
  about an evaluation of `Battery`: `ShownPercentFollows`.
* `Startup_proof`, for every order in which the objects may be linked: inserting
  keeps the list sorted (`InsertKeepsOrder`), so that what has been run is no
  less urgent than what is pending (`ListInv`, `OrderInv`).  `DataInv` says of
  each hook what it left or has yet to find: `ConfigInv` the configuration before
  and after `config_init()`, `ChargerInv` nothing asked of nyx or the bus before
  `ChargerInit()` and by the final configuration after it, `LimitsInv` the limits
  asked for before the poll.  Theorems: `StartupInvHolds`, `StartupTypes`,
  `PrecedenceHolds`, `EventsFollow`, `LimitsAreAskedFirst`.  Among hooks of one
  priority the list turns the order of registration round (`TieInv`); from that,
  and `config_init()` being linked after `BatteryInit()` (`ConfigIsLast`),
  `FakeBatteryFollows`.
* `TimeSaver_proof`: from `EqualWidths`, that all times are printed with the same
  number of digits (true of seconds since 2001 for centuries).  `IInv` adds to
  `TypeOK` that every file, in memory or on the disk, is empty or holds a time
  that a clock has shown; `WrittenOver` keeps that because with equal widths it
  leaves the new content.  `KInv` follows the content of one save through its
  calls: unless it is `failing`, the temporary is whole in memory once written
  and on the disk once synced, so that unless the save last renamed is `unsafe`
  whatever the disk may come to call the saved time is whole there.
  Theorems: `TypeCorrect`, `TimeIsNotInvented`, `TimeIsKept`.
* `LibClient_proof`, for any number of sessions and of tokens: `SessionInv` says
  what the application's call has made by the point it has got to, `LoopInv`
  that a loop whose reference was dropped is none that is still to come,
  `CallsInv` that what is on the library's handles, those in `left` aside, is on
  the one in use and that the subscription there that is not stray is the one
  whose token the library has, `DroppingInv` that nothing is on that one either
  once it was unregistered, wherever in a callback a thread is.  One lemma per
  action.  Theorems: `ClientInvHolds`, `ClientTypes`, `OwnershipHolds`,
  `OwnCallsHaveEnded`, `StatusComesOnce`.
* `Clock_proof`: the operators of `Clock` against the number of nanoseconds a
  time is worth (`ClockAccumAdds`, `ClockAccumMsAdds`, `ClockDiffSubtracts`,
  `ClockGetMsTruncates`, `ClockTimeIsGreaterCompares`), and out of those
  `NoWaitIsCutShort`, for every size of the units and any number of threads: a
  deadline is worth the time the wait began plus what was asked.  For the timer
  source, bounds of the rounding (`ArmedTimerIsNotOver`: no
  interval of at least a quarter of the granularity spins), and invariants that
  tie the expiration to the interval asked for, and the loop's sleep to an
  expiration it has read or to a wakeup that is coming
  (`LoopNeverOversleeps`, `NoTimerIsEarly`).

Every invariant and every safety property of an action that a passing run checks
is stated by a theorem.  Only model-checked are the properties under fairness,
which are beyond the prover (`EveryPassEnds`, `EveryCallReturns`,
`StableChargerIsTold`, `ClientIsServed`, `RemovedBatteryPowersOff`), and the
counterexamples of the three runs answered *no*.

## Not modelled

* Payloads beyond what a property is about: the battery's health, currents, the
  names of chargers, what is written back to a fake battery.
* `ChargerNoteBattery()` inside `Batteryd`; `Charger` has it as an action that
  any reading may bring.  A battery device that could not be opened, whose reads
  are the failed reads of the model.
* Sysfs access and logging, the canned replies of `lunaservice_utils.c` and the
  printing of times and hooks: they hold no state that a decision depends on.
* Spurious wakeups of a condition variable, which a caller cannot tell from a
  signal; `WaitObjectIsLocked()`, which only the assertions use, and which cannot
  tell who has the mutex; times changed by the fallback to `gettimeofday()` (`clock.c:56-63`).
* `ChargingLogicResetError()` and `battery_present_sample()` are called by
  nothing.
* The client library's lock and client id are one variable: the id set or not.

## Plan

1. More of the components carried over to the daemon: `RemovalIsSeen` and
   `NoChangeGoesUnreported` of the poll, and `LevelShutdownIsConfirmed` with its
   history.
2. `Charger` in `Batteryd`, with the fullness that a battery broadcast notes.
3. What is guaranteed of charging after a battery has been authenticated late
   (`charging_logic.c:486`).
