# sensors_miscdevice in TLA+

This directory specifies `sensors_miscdevice`: the system ability that lets several
applications share the motors and the lights of a device, the libraries through which
they do, and the way a custom vibration takes from a file to the driver. It holds TLA+
modules translated from the C++ source, the TLC configurations that check small
instances of them, and proofs, checked by TLAPS, of invariants for every instance.

All paths below are relative to `src/`; `service` stands for
`services/miscdevice_service`.

## 1. The system

### 1.1 Parts, their state and their operations

| Part | State | Operations |
|---|---|---|
| `MiscdeviceService` (`service/src/miscdevice_service.cpp`) | `devicesManageMap_` (per device its vibrators, each with a `VibratorThread`), `clientPidMap_`, `disablePids_` (in the manager), `lightInfos_`, the locks `devicesManageMutex_`, `vibratorThreadMutex_`, `clientPidMapMutex_` | `Vibrate`, `PlayVibratorEffect`, `PlayVibratorCustom`, `PlayPattern`, `PlayPackageBySessionId`, `PlayPrimitiveEffect`; `StopVibrator`, `StopVibratorByMode`, `StopVibrateBySessionId`; `DisableVibratorByPid`, `EnableVibratorByPid`; `ParameterCallback` (mute), `SendMsgToClient` (plug events), `TransferClientRemoteObject`, `ProcessDeathObserver`; `GetLightList`, `TurnOn`, `TurnOff`; queries and dump; call statistics |
| `VibratorThread` (`service/src/vibrator_thread.cpp`) | `exitFlag_`, `currentVibration_`, the `running_` of its base class, `vibrateMutex_` and its condition variable | `Run` and the `Play...` functions; `NotifyExit`, `NotifyExitSync`, `SetExitStatus`, `UpdateVibratorEffect`, `ResetVibrateInfo` |
| `VibrationPriorityManager` (`service/src/vibration_priority_manager.cpp`) | its copies of the settings: mute, do-not-disturb and its white list, ringer mode, the two vibration switches, input methods; their observers; the current user | `ShouldIgnoreVibrate`; `Init`, the observers' update functions, `ReregisterCurrentUserObserver` |
| `VibratorHdiConnection`, `HdiConnection`, `CompatibleConnection` (`service/hdi_connection`) | the driver's proxy, the plug callback; in the compatible one a thread that simulates a device | `StartOnce`, `Start`, `StartByIntensity`, `EnableCompositeEffect`, `PlayPattern`, `Stop`, `IsVibratorRunning`; reconnection after the driver's death |
| `LightHdiConnection`, `HdiLightConnection`, `CompatibleLightConnection` | the light driver's proxy and its lights, or the mock's | the choice between them, turning on and off, reconnection |
| `CustomVibrationMatcher` (`service/haptic_matcher`) | none | makes a custom vibration into the composite effects the device can play |
| `VibratorServiceClient`, `vibrator_agent.cpp` (`frameworks/native/vibrator`) | the service's proxy, the remote object it registers, subscriptions to plug events, `vibratorEffectMap_` (the parameters set per vibrator) | connects, forwards the calls, handles the service's death and plug events; seek and modulation of patterns |
| `LightClient` (`frameworks/native/light`) | the service's proxy, a copy of the list of lights, the array given to applications | connects and fills the list; list, turn on, turn off |
| Bindings for scripts and ETS (`frameworks/js`, `frameworks/ets`) | the listeners of plug events, the work waiting for a worker or for the script's thread | starting and stopping; promises; `on` and `off` |
| Decoders (`utils/haptic_decoder`), structures (`utils/common`) | none | read haptic files; write to and read from parcels |
| C and Cangjie bindings, command-line tools | none worth a model | conversion |

### 1.2 How they interact

Every client call arrives on one of the service's IPC threads; the mute parameter, the
HDI's plug reports and the deaths of clients arrive as callbacks on other threads.
All of them work on the same map of motors. A start or a stop takes
`devicesManageMutex_` and then `vibratorThreadMutex_` and keeps both through the whole
loop over the motors concerned, in which it may stop the device, raise a motor
thread's exit flag, *join that thread*, and start it again. The thread itself takes
only `vibrateMutex_`, around everything it does to the device, and gives it up while it
waits. The mute callback takes `vibratorThreadMutex_` only. `PlayPattern` on a device
with HD haptics makes its device call after it has released both locks.

The calls also go the other way. A plug event is handed to every client while the
service keeps `devicesManageMutex_` and `clientPidMapMutex_`; the client runs its
subscribers' callbacks with `subscribeMutex_` held, and its own calls to the service hold
`clientMutex_`. A binding's callback writes the event into each of its listeners and
posts a task to the script's thread. Every process is told of the death of those it
depends on: the service of its clients' (it stops their vibrations) and the drivers' (it
connects again), a client of the service's (it connects again).

What decides whether a vibration is admitted comes from data share: the manager copies
the settings it needs, and observers read them again, each on a thread of data share,
when a setting changes or another user becomes active.

An application says what it wants in several calls: usage, loop count and parameters
are set in `vibratorEffectMap_`, and the function that plays reads them there, calls
the service and sets them back. A script's preset effect is set on the script's thread
and played by a worker, whose answer settles a promise on the script's thread.

### 1.3 What is hard

- A thread is joined with two service locks held: a notification lost or a flag left up
  blocks every later vibration, or kills the next one in its first wait.
- `currentVibration_` is reset only by a stop that found the thread running. What a
  vibration that ended by itself left there is still read by the priority decision, by
  the stop by mode and by the death handler.
- `StopVibratorService` stops the device, then the thread; between the two the thread
  may make another device call.
- The handlers of plug and death events call `StopVibratorService` motor by motor and
  give `vibratorThreadMutex_` up in between.
- The mute callback shares the map with handlers whose lock it does not take.
- Locks of several processes are held across calls between them, in both directions.
- A proxy is checked and used with no mutex while the death of its process replaces it;
  connecting is a sequence of steps, and the other side may die between any two.
- The order of the rules in the priority decision, and which of them a system caller is
  exempt from.
- A copy of a setting is stored after the mutex under which nothing was read: an answer
  that was overtaken may be stored last. The manager may be initialised from two sides,
  while the user changes.
- A call is several accesses to a shared map, some on other threads.
- Events are overwritten before they are delivered; a subscription is dropped after the
  mutex under which that was decided.
- Patterns are cut, sought, modulated, serialised, merged and made into delays: each
  with limits of its own, boundaries between half-open intervals, and times that count
  from different origins.

Each of these is an entry of `hazards` in `PROJECT.json`, with the line where it bites.

### 1.4 What makes each part correct

- *Service*: a stop leaves nothing running; a motor is taken over only by a request the
  decision admits; mute silences whatever was being admitted; a dead client's
  vibrations end and nobody else's; no thread outlives its device's entry; the lock
  that everything needs is always given up again.
- *VibratorThread*: started only when it has ended and its flag is down; plays what its
  record says; a vibration makes no more device calls than it consists of.
- *Decision*: an alarm holds its motor; a stricter setting never admits more; no two
  uses shut each other out.
- *HDI connections*: the interface of a dead driver is always going to be replaced, by one
  thread at a time.
- *Client registry and plug events*: no threads wait for each other across processes;
  every registered client takes every event, in order; the dead leave the registry.
- *Native client*: whoever is served is registered; a stale proxy is noticed.
- *Settings*: when everything has been announced and read, the copies are the settings
  of the active user, and every group of settings has its observer, once.
- *Agent and bindings*: what is played is what this call asked for; nothing of it is
  left to the next call; what was stopped does not begin again; promises are settled.
- *Listeners*: the last event is seen; an `off` leaves the subscription to those that stay.
- *Patterns*: no event is lost, doubled or shifted on the way; what a decoder makes is not
  refused later; delays add up to the times of the events.
- *Lights*: only lights the living service told of are switched; nobody keeps the proxy
  of a service, or the interface of a driver, that has died.

## 2. The modules

| Module | What it is |
|---|---|
| `VibrationPriority` | `ShouldIgnoreVibrate` and all it consults, as operators |
| `VibratorThread` | one motor thread per motor and the motor's device |
| `MiscdeviceService` | the handlers, interleaved, on top of `VibratorThread`; the properties |
| `MotorPlayback` | abstract: what a motor plays is what was admitted to it last |
| `ServiceInvariant` | the inductive invariant `IInv` of `MiscdeviceService`, and what is added to it about the devices |
| `SettingsObserver` | the copies of the settings and their observers |
| `ClientConnection` | clients and service across their deaths: connecting, the registry, plug events, and the mutexes of all these processes |
| `DriverConnection` | the service and the driver across the driver's deaths |
| `VibratorAgent`, `PlugListeners`, `ClientLibrary` | an application's process: its calls, its listeners, and both on the same threads |
| `LightHdiConnection`, `LightClient` | the service's side of the lights and, on top of it, a client's |
| `VibrationPattern` | the shape and the limits of custom vibrations |
| `HapticDecoder`, `PatternTransform`, `VibratorInfos`, `PatternMatcher` | the algorithms on them: decoding, seeking and modulating, parcels, composite effects |
| `PatternPipeline` | the way of a custom vibration through all of these |
| `VibrationPriorityProofs`, `MiscdeviceServiceProofs`, `ClientConnectionProofs`, `DriverConnectionProofs`, `SettingsProofs`, `ClientLibraryProofs`, `PatternPipelineProofs`, `LightClientProofs` | the theorems |
| `MC...` | instances for TLC |

`MiscdeviceService` EXTENDS `VibratorThread`, which EXTENDS `VibrationPriority`: they
share their state as the classes share the `VibratorThread` objects. `ClientLibrary`
composes `VibratorAgent` and `PlugListeners`, `LightClient` extends `LightHdiConnection`,
and `PatternPipeline` extends the algorithms. The others stand by themselves and meet
`MiscdeviceService` in what it assumes: that a process that calls has handed over its
remote object (`ServedIsRegistered`), that deaths are announced (`DeadAreReaped`), that
the interface of the driver is there, that settings may change at any time and the mute
parameter is watched (`CopiesFollow`), and that a pattern is so many device calls.

### 2.1 VibrationPriority

`SettingsVerdict` is the part of `ShouldIgnoreVibrate` before the motor is looked at,
`CurrentVerdict` the part after; the names of the verdicts are the source's. The string
comparisons of packages are set membership. `isVibrationPriorityReady_` is taken to be
TRUE: the manager has been initialised (`SettingsObserver`).

### 2.2 VibratorThread

| TLA+ | Code |
|---|---|
| `running`, `tpc` | `running_` of the `Thread` base class; where `Run` is |
| `exitFlag`, `current` | `exitFlag_`, `currentVibration_` |
| `local` | the copy `Run` takes with `GetCurrentVibration` |
| `step` | the loop counter of the `Play...` function |
| `hdi`, `attached` | the device behind the HDI: what it plays, whether it is there |

`tpc = "play"` and `"quiet"` are the places where the thread holds `vibrateMutex_`;
`"wait"` is inside `cv_.wait_for`. `NotifyExit` needs the mutex and so is enabled only
outside them. One `play` is one device call; the modes differ in whether they quiet the
device before the next one (`HandleMultipleVibrations`), whether they look at the exit
flag first, and when they stop counting. `Stop` is given a kind and ends a vibration of
that kind only (`AfterStop`), which is what makes the wrong kind a real mistake.

A vibration is a record of the fields that a decision reads. The contents of a pattern
are one number, its device calls.

### 2.3 MiscdeviceService

A `Caller` is a thread that serves one handler at a time. `pc` says where the handler
is, `op` which call it serves, `todo` the motors the loop of the handler has left,
`outer` the motors of the loop around `StopVibratorService` in the plug and death
handlers. `manageLock` and `threadLock` hold the owner of the two mutexes.

| Actions | Code |
|---|---|
| `ClientCall` and the sets of calls | the IPC entry points |
| `QueryCapacity`, `Admit`, `Decide`, `QuietDevice`, `Launch`, `StartDone`, `DirectPlay` | `StartVibrateThreadControl`, `StartVibrateThread`, and what `PlayVibratorCustom` and `PlayPattern` do before and after it |
| `NotifyThread`, `SyncThread` | `StopVibrateThread` |
| `StopScan`, `StopDevice`, `StopCheck`, `StopDone` | `StopVibratorService` |
| `ModeLock`, `ModeNext`, `ModeQuiet`, `ModeDone` | `StopVibratorByMode` |
| `SessionLock`, `SessionNext`, `SessionDone` | `StopVibrateBySessionId` |
| `MuteCallback`, `UnmuteCallback` | `ParameterCallback` |
| `PlugEvent`, `PlugLock` ... `PlugNotify` | the HDI's report and `SendMsgToClient` |
| `TransferClientRemoteObject`, `DeathNotice`, `DeathLock`, `DeathNext`, `DeathDone` | registration and death of a client |
| `DisableOrEnableVibratorByPid` | the two calls of that name |

A handler's step runs up to the next lock, device call or hand-shake with a thread.
Where the code reads a setting the model takes any value in `SettingsChoices`, except
for mute, which is a variable. `ResetVibrateInfo` leaves the package name in the
record; with the mode reset nothing reads it, and the model resets it too.

What is left out inside these handlers: permission and parameter checks that return
before any state changes; logging and reporting; the contents of events; session
identifiers (a session is any pattern sent to a HD device); the mutexes that guard one
access each (`pidMutex_`, `clientPidMapMutex_`, `currentVibrationMutex_`), whose
critical sections are within one action. The build is the default one
(`VIBRATOR_CUSTOM` and `INPUT_METHOD` on, `PRESET_INFO` and `CROWN` off).

### 2.4 ClientConnection

A call over binder is synchronous, so a `Thread` of the model is a logical one: it goes
on in the other process until the reply. `owner` maps each mutex of each process to the
thread that holds it; `Needs(t)` is the mutex thread `t` must get for its next step.

| TLA+ | Code |
|---|---|
| `proxy`, `deathLinks`, `subscribeSet` | `miscdeviceProxy_`; the death recipients added to it; `subscribeSet_` |
| `told` | the number of the last plug event that reached `HandleVibratorData` |
| `clientPidMap`, `watched`, `notices` | `clientPidMap_`; the death recipients added to clients; the deaths still to be announced |
| `InitFound`, `InitConnect`, `InitFails`, `TransferFails` | `InitServiceClient` |
| `RegisterClientDeathRecipient`, `SaveClientPid` | the functions of that name, in the service |
| `AppCall`, `CallLock`, `CallReturns` | every call that keeps `clientMutex_` while the service serves it; `Vibrate` stands for them |
| `ListCheck`, `ListUse`, `NullDereference` | `GetVibratorList`, `GetEffectInfo`, `DisableVibratorByPid`, `EnableVibratorByPid` |
| `DeathNotice`, `ForgetProxy` | `ProcessDeathObserver` of the client |
| `PlugEvent` ... `PlugDone`, `HandleVibratorData`, `CallbackCalls`, `CallbackReturns` | `SendMsgToClient`, `VibratorClientStub`, `HandleVibratorData`, and a callback |
| `ReapNotice` ... `DestroyClientPid` | `ProcessDeathObserver` of the service and the functions it calls |
| `ClientDies`, `ServiceDies`, `ServiceStarts` | the processes |

The service has *lives*, and a proxy or death recipient belongs to one of them. A served
`Vibrate` needs `devicesManageMutex_` and returns; what it does to the motors is in
`MiscdeviceService`. The parameters of effects (`vibratorEffectMap_`) are in `VibratorAgent`; left out are
the mutex of the decoder, under which nothing is called, and failure of `new`.

Assumed: a binder call has no timeout, fails when the callee has died, and does not fail
otherwise; a death is announced once, to a recipient added before or after it;
`GetSystemAbility` finds nothing while the service is down. One thing is left out of
`PlugEvents`: a client that dies between the two lines of `RegisterClientDeathRecipient`
(`DieWhileRegistering = FALSE`). Its death is handled before its pid is saved, and its entry
stays for ever; with `TRUE`, TLC finds `DeadAreReaped` violated.

### 2.5 DriverConnection

| TLA+ | Code |
|---|---|
| `vibratorInterface`, `eventCallback` | `vibratorInterface_`, `g_eventCallback`; the first as the driver's life it is for, 0 if null |
| `deathLinks`, `plugCallback` | `AddDeathRecipient` and `RegVibratorPlugCallback`, by life |
| `stage` | `state_`, with `"new"` before the first `OnStart` and `"crashed"` |
| `GetInterface`, `GetInterfaceFails`, `RegisterHdiDeathRecipient` | `ConnectHdi`, one action per try |
| `OnStart`, `PlugCheck`, `RegisterVibratorPlugCallback` | `OnStart`: connect, publish, register the plug callback |
| `OnStop`, `DestroyHdiConnection`, `UnregisterHdiDeathRecipient` | `OnStop` |
| `ProcessDeathObserver` | `ProcessDeathObserver` and `Reconnect` |
| `DeviceCheck`, `DeviceUse`, `Crash` | any device call: `CHKPR`, then the use |

The ability starts once per process: a second `OnStart` would assign to the reporting
thread that still runs. Reading the interface while it is assigned is a data race; of its
outcomes the model has the two that differ in what they find, a null and an interface.
The death recipient is taken to be added, and the death of a driver that has died already
to be announced at once; the code does not look at the result of `AddDeathRecipient`.

### 2.6 SettingsObserver

The settings are those of four groups: ringer mode and feedback switch, do-not-disturb
with its white list, vibration when ringing, input methods. Which groups are built in is
chosen at the start (`Builds`), because they are build options.

| TLA+ | Code |
|---|---|
| `external` | the settings data of each user, the active user, the mute parameter |
| `copies` | the cached members of `VibrationPriorityManager` and `currentUserId_` |
| `watching` | the observer pointers, and the observers data share has |
| `startup`, `muting` | what `OnAddSystemAbility` and `OnReceiveEvent` have come to; `RegisterDeviceMuteObserver` |
| `Change`, `SwitchUser`, `ChangeMute` | data share, the account manager, the parameter service (external) |
| `NotifyObserver`, `ExecRegisterCb`, `UpdateStatus` | the three ways in which an update function begins: told of a change, after a registration on a thread of its own, and by a decision that finds a copy unknown |
| `ReadSetting`, `StoreSetting`, `InitDoNotDisturbData` | the steps of an update function: a read and, later, a store |
| `Unregister`, `QueryUserId`, `StoreUserId`, `Register` | `ReregisterCurrentUserObserver`, observer by observer: `pc` counts its steps, one per group that is built in and two for the account |
| `InitBegin` (with `OnAddSystemAbility`, `OnReceiveEvent`), `InitEnd` | the start, on either thread |
| `ShouldIgnoreVibrate` | the first decision once the manager is ready, which uses the once-flag `isRegistered_` up unless `OnReceiveEvent` has |
| `RegisterDeviceMuteObserver`, `WatchParameter` | the read of the mute parameter, which both of these begin, and the watch, which may fail |
| `ParameterCallback`, `OnReceiveUserSwitchEvent` | the functions of that name |

A read and the store that follows are two actions: no mutex covers them. History variables
record what the code cannot know: `doubtful` holds the copies whose read failed or was
overtaken by a newer one (the updates are kept in the order of their latest reads; who
stores a setting marks the earlier reads of it that wait, `Overtaken`), `muteMissed` is a change of the mute parameter between its read and
its watch, or after the watch has failed, `unwatched` the groups whose last registration failed.

`isVibrationPriorityReadyMutex_` is held by a loader or by the first decision while it reads
and watches the mute parameter. Later decisions hold it too; they exclude each other by
the guard of `UpdateStatus`, and nobody else asks for the mutex once the manager is ready.
A decision before that returns at once and changes nothing.

Abstractions: putting a URI together and the query are one step; several notifications
that wait for one observer are one; a list is present or not; the malformed list of input
methods is left out; `USER_SWITCHED` is subscribed to from the start.

### 2.7 VibratorAgent, PlugListeners, ClientLibrary

One process of an application, with scripts, threads of the ETS binding, threads that use
the C functions, and the workers of napi. A value that a call sets is named by the number
of the call, so that an entry of the map says whose it is.

| TLA+ | Code |
|---|---|
| `effects` | `vibratorEffectMap_`; an entry is usage (with the system flag), loop count, intensity (with frequency), session |
| `Ask`, `Arrive`, `Refuse` | a call's arguments are taken and checked; a script's preset is queued for a worker |
| `SetOne` | `SetUsage`, `SetLoopCount`, `SetParameters` through the agent |
| `ReadEntry`, `CallService`, `ResetOne` | the function of `vibrator_agent.cpp` that plays: reads the entry, calls, sets it back |
| `ExecuteCallBack`, `CompleteCallback` | napi's work on the worker, and its completion on the script's thread |
| `Stop` | the stops of the binding, with the promise they answer |
| `EraseEntries`, `CallUsers` | `HandleVibratorData` of the client library: erases the entries of a device that is gone, then tells the subscribers |
| `On`, `Off` with `UpdateCallbackInfos`, `RemoveCallback`, `RemoveAllCallback`, `UnSubscribeVibratorPlug` | the functions of that name in `vibrator_js.cpp` |
| `TellUsers`, `RunTask` | `DataCallbackImpl`, which writes the event into each listener and posts a task, and the task |
| `onVibratorStateChange`, `offVibratorStateChange`, `EtsUpdateCallbackInfos` ... | the same of `ohos.vibrator.impl.cpp`, which calls its listeners at once |

`AllRoutines` lists, for every kind of call, which fields it sets, which function plays
and which fields that function sets back; the lists are read off the code, function by
function, and are where a forgotten reset would be. `disturbed` (history) marks a
vibrator that another call set, read or reset while a call was between its settings and
its end, `mixed` an `on` or `off` that ran beside another or named another event type. The
lists of listeners are sets: each listener has a number of its own, and nothing depends on
the order of a list.

Abstractions: a stop is for one identifier; what plays is the last call the service
accepted for that identifier; an ETS callback does not call the binding again (its
mutex is held); `napi_send_event` succeeds; a denied permission and an unsupported
effect are answers like a parameter error.

### 2.8 The way of a custom vibration

`PatternPipeline` is sequential: one vibration goes from its source to the driver, and TLC
tries every source and every way. `HapticDecoder`, `PatternTransform`, `VibratorInfos` and
`PatternMatcher` are the algorithms, written as operators with folds over sequences;
`VibrationPattern` has their common data and limits. The properties compare them with
references that are written differently: filters over all events instead of loops with
counters, the governing point instead of a binary search, sums of delays instead of times.
The structures are sets of records of integers (`PointSet` to `PackageSet`); whatever is in
them is a possible input, and the bounds of the code are constants whose relations
`LimitsAssumption` states.

| TLA+ | Code |
|---|---|
| `PreProcess`, `PlayVibratorCustom` | decoding for the application, and decoding and playing at once |
| `ScriptPattern` | a pattern made by the script's builder, or written down by the script, through either binding |
| `NativePackage` | a package a native application fills (external) |
| `Seek`, `Modulate` | `SeekTimeOnPackage`, `ModulatePackage` |
| `PlayPattern`, `PlayPackageBySessionId` | one pattern of the package, or all of it, to the service |
| `Receive` | unmarshalling, `CheckVibratorParmeters`, `MergeVibratorParmeters` in the service |
| `PlayHd`, `PlayEffects`, `PlayTimes` | what the vibrator's thread makes of it, by the capacity of the device |

`before`, `edit` and `sent` are history: the package before its last edit, the edits, and
the call as it was made.

Abstractions: a number of JSON is a number, and `Missing` one that is not there;
intensities are scaled in integers where the code uses `float`, exact for the multiples of
25 that the instance uses; the haptic files' parsing and their first keys are left out.

### 2.9 LightHdiConnection, LightClient

| TLA+ | Code |
|---|---|
| `kind`, `lightInterface`, `hdiLinks` | what `iLightHdiConnection_` is; the driver's interface, as its life; the death recipients |
| `lightInfoList`, `lightInfos` | the lists of `LightHdiConnection` and of `MiscdeviceService` |
| `GetLightInterface`, `GetLightInterfaceFails`, `FallBack`, `RegisterHdiDeathRecipient`, `ReadLights`, `ReadFails` | `ConnectHdi` and `ConnectHdiService`, one action per try |
| `ProcessDriverDeath`, `ProcessDeathDestroyed` | the driver's death, told to the connection or to one that the fall-back has destroyed |
| `Call`, `InitLightClient`, `Fill` | a call of the agent; the proxy and death recipient; the list, whose failure is not looked at |
| `Check`, `Send`, `Use`, `Crash` | the light is looked up without a mutex; the call under `clientMutex_`; the driver or the mock; a null interface |
| `Show` | `GetLightList`, which converts the list once |
| `DeathNotice`, `ProcessDeathObserver` | the service's death |

One client process. A reader of a list that another thread fills sees the old list, a
part or the new one (`SeenKnown`). The destroyed connection is undefined behaviour: the
process ends or nothing is noticed. A call of `GetLightList` may be lost, and so may its
answer, when the service has taken over its list (`Fill`). Result codes, the cut at 255 lights and which of the
driver's lights are lit are left out.

### 2.10 Assumptions about what is around the service and its threads

- The device obeys a `Stop` of its kind and plays what it was told last. A device call
  may fail at any time; the thread then ends (`PlayFails`).
- `PlayOnce` waits for as long as it told the device to vibrate, so the device has
  finished. For preset and composite effects the wait is for the *nominal* duration.
  `Overrun` says whether a device may still play then. With `Overrun = TRUE`,
  `StopIsEffective`, `MutedAudioSilent`, `DeathCleansUp`, `RecordDescribesDevice` and
  `PlaybackSpec` do not hold: the thread ends by timeout with its device still busy,
  between the stop of the device and the look at the thread. They, and the properties
  that compare the device with the record, are checked with `Overrun = FALSE`; the runs
  whose properties do not need the assumption use `TRUE`.
- Plug reports come one at a time; a device that is unplugged stops playing at once.
- A process that calls has handed over its remote object before, as
  `VibratorServiceClient::InitServiceClient` does (`ServedIsRegistered`).
- The mute parameter is watched, and the settings the decision reads may be any
  (`SettingsObserver` says when they are right).
- `PositionOf` gives each motor a position, and `Hotplug` two motors different ones, so that
  there is something to route. In this version of the code `ConvertToServerInfos`
  (`miscdevice_service.cpp:1677`) does not copy the position the driver reports, so that it is
  0 for every vibrator: the routing is checked as it is written (section 5).

## 3. The runs

The `.cfg` files of `MCMiscdeviceService` use up to two clients (`p1`, `p2`), one package,
at most two device calls per vibration (`MaxCount`), which is enough for a first, a last
and a single one. Callers are symmetric except in `Playback`, which checks liveness.
States are about what TLC finds.

| Run | Instance | Checks | States |
|---|---|---|---|
| `Contention` | three handlers, one motor, a mapping device; an alarm, a ring tone, a repeated touch effect, a composite pattern; start, stop, stop by mode, mute, deaths; the ringer may be silent | `TypeOK`, `RecordDescribesDevice`, `StopIsEffective`, `AlarmShielded`, `ModeIsSelective`, `MutedAudioSilent`, `DeathStopsOnlyItsOwn`, `DeathCleansUp` | 622 000 |
| `Hotplug` | two handlers, a local device that can only be switched on and off, and a HD device that is not local; a pattern for both and a custom vibration that names the second; stops, sessions, plug events, disabled pids | `UnpluggedMotorQuiet`, `LaunchIsClean`, `ThreadPlaysRecord`, `PlaysWhereAsked` | 1 338 000 |
| `Playback` | two handlers, all kinds of event on one mapping device, room for one client, `FairSpec` | `PlaybackSpec` (refinement), `ThreadLockReleased` (liveness) | 433 000 |
| `Verdicts` | every request, settings record and current vibration | `OneOfTwoWins`, `SilencingNeverAdmits` | 359 000 |
| `PlugEvents` | two clients of one thread each, one mortal; two plug events on two threads; no deaths of the service | `NoMutualWait`, `AllTold`, `DeadAreReaped`, `PlugOrder` | 645 000 |
| `Reconnection` | one client with two threads and callbacks that vibrate; two plug events; three lives of the service; the client may die anywhere | `ServedIsRegistered`, `StaleProxyIsNoticed` | 714 000 |
| `Driver` | two device calls at a time, two threads for notices, four lives of the driver, three tries | `StaleInterfaceIsNoticed`, `OneConnection` | 2 800 |
| `Settings` | each group of settings by itself; two users; a change of a setting or of the mute parameter, a switch of user, a call that fails (`WatchParameter` among them); decisions from the moment the manager is ready; two update functions at a time | `CopiesFollow`, `SettingsAreObserved` | 1 722 000 |
| `Agents` | two scripts, an ETS thread, a native thread, a worker; two calls and a stop on the default vibrator and one that can be unplugged; or four `on` and `off` with two events | `PlayedAsAsked`, `NothingLingers`, `StopIsFinal`, `PromisesAreKept`, `LatestIsSeen`, `ListenersAreSubscribed` | 906 000 |
| `Patterns` | OH files of up to three events, right and wrong ones, HE files of up to two patterns, two scripts, three written patterns, five native packages; up to two edits out of three seek times and three curves; four sets of parameters; every capacity and position | `SplitIsLossless`, `SeekKeepsRest`, `ModulatedPointwise`, `ArrivesUnchanged`, `EffectsFollowEvents` | 564 000 |
| `Lights` | two threads and an observer; one light of the driver and one of the mock; two lives of each; one lost call or answer; `FairSpec` | `OnlyTheirLights`, `StaleIsNoticed`, `ServedAgain` (liveness) | 757 000 |
| `LockCycle` | the smallest instance | a statement of the repository's documents that the code violates (section 5) | - |

Type invariants are stated in every module. `Contention` checks that of the service; it and
that of the driver connection are proved as they stand, and the proofs about the other
components state and prove the types they need.

### Bounds

Two handlers are one that holds the locks and one that wants them; the third in
`Contention` lets a request arrive *between* two others. One motor is enough where
handlers contend; two where a loop visits several, one to be left alone. One requested
vibration of each interesting shape (single, repeated, composite, for sound, for touch) is
there; two of the same shape differ in nothing a guard reads. For the properties proved in
section 6 the bounds do not matter.

In `PlugEvents` one thread per client is the bound that matters: with two, or with
callbacks that vibrate, `NoMutualWait` fails (`LockCycle`, section 5). Two events
are what can be out of order; a second client is one that still has to be told when the
first has failed. Three lives of the service are a first one, one that dies while the
client is still dealing with the first death, and one that is connected to in the end.
`MaxTries` is 10 in the code; two or three tries are a first, a last and one between.

In `Settings` the groups do not touch each other, so each is built in alone; one change and
one switch of user meet in every order, each with one failure, on two update functions that
overtake one another. In `Agents`, two calls are one that sets and one that comes between;
the scenarios keep callers of the same kind apart, because a third kind adds no order. In
`Patterns` the limits of the source (16 events in a pattern, 128 in a file, 1000 patterns in
a package, 4 to 16 points in a curve) are scaled down with their relations kept, so that files of three
events meet every limit: a pattern is cut after two events. Times are chosen so that
events touch, overlap, leave a gap shorter and longer than the motor's rest, and so that
seeks and curves meet their ends. In `Lights` two lives are one to die and one to be found.

Some systems may really stop, and their runs do not check deadlock: `Verdicts` when
nothing can become stricter; `Reconnection` when its only client is dead, or its threads
wait for each other as in `LockCycle`; `Driver` and `Lights` when the processes have
stopped or crashed and their lives are used up; `Settings`, `Agents` and `Patterns` when
everything that was to change has changed, every call was made, the vibration has been
played. All others check it.

### What the runs show

The record that the service consults is the vibration that plays (`ThreadPlaysRecord`,
`RecordDescribesDevice`); a motor that a stop is done with is quiet for as long as the
stop holds the lock; an alarm is taken over by a repeated effect only, although the
alarm may start while the decision is being made; the two critical sections of the death
handler do no harm, because `devicesManageMutex_` keeps everyone else from starting; and a
stop by mode, which decides by the record what it does to the thread and then to the
device, hits vibrations of its mode only.

`Playback` shows that on a device without HD haptics the service implements
`MotorPlayback`, with `hdi` for `playing` and `current` for `admitted`. It is stated per
step: requests are admitted to quiet motors only, and a motor plays what was admitted
last.

`PlugEvents` shows that for clients with one thread the nesting of locks across
processes is safe: neither the registration, which holds `clientMutex_` in the client while
it takes two mutexes of the service, nor the death handler closes a cycle. `Reconnection`
shows that a client is never served unregistered, though connecting is three steps in two
processes and either may die between any two. `Driver` shows that `ConnectHdi` needs no
mutex against itself, only against the device calls.

`Settings` shows that when every announcement has been dealt with the copies are the
settings of the active user, whichever thread initialised the manager and wherever the
user changed in between, but for copies whose read failed or was overtaken; and that every
group has its observer, for the right user. From its first read on, be it at the start or at
the first decision, the copy of the mute parameter is right whenever no callback is due, but
for a change that nobody watched. `Agents` shows that a vibrator used by one
call at a time is played as that call asked and left as it was found; that a promise is
settled once the answer is there; and that listeners see the last event and keep their
subscription, but for overlapping calls of `on` and `off`. What those exclusions hide is
in section 5. `Patterns` shows that the cut into patterns, the seek, the modulation, the
parcel and the matcher neither lose nor displace an event. `Lights` shows that the list
read without a mutex does no harm, because the service looks again, and that a client
that goes on calling is served by every service that stays.

### Fairness

`FairSpec` of `Playback` has weak fairness of every motor's thread and of every handler:
the operating system schedules threads, and a thread in `wait_for` is woken by the flag or
by the clock. Calls and events need not arrive, a device need not end what it plays, and
weak fairness gives no handler a lock that others keep taking: `ThreadLockReleased` says
that the lock is given up, not that everyone gets it.

`FairSpec` of `Lights` has weak fairness of every thread of the client and the service,
which includes that deaths are announced. Nobody has to call, and a process that has died
may stay away: `ServedAgain` is about a service that stays and an application that goes on
calling.

### Mutants

Every property has a mutant in `PROJECT.json`, and those with several parts have several:
an operator beside the definition it changes (an exit flag that is not set or not
lowered, a join that does not wait, a lock that is not taken, a stop of the wrong kind, a
rule dropped or moved, a recipient registered once, a cut one event too late, a delay
from the wrong origin). TLC finds each property violated by its mutant.

## 4. What is not modelled

- *`CompatibleConnection`*, the simulated vibrator of ENG builds: `GetVibratorInfo` tells of
  no device, so `devicesManageMap_` stays empty and no handler ever plays on it; only its own
  unit tests call it.
- *Call statistics*: five counters that are reported once a day. Nothing depends on them.
  `ReportCallTimes` (`miscdevice_service.cpp:959`) loads and resets a counter in two steps,
  and the destructor (`:112`) notifies the reporting thread without its mutex.
- *Queries and the dump* change nothing that another call reads.
- *Cangjie binding and C API* check arguments and call the agent in the order the ETS
  binding does.
- *Parcels of fixed shape* (`VibratorInfoIPC`, `EffectInfoIPC`, `PrimitiveEffectIPC`, lights)
  are written and read field by field; `VibratorInfoIPC` leaves its position out.
- *Permissions, JSON text, files, command-line tools*: wrappers of the platform.
- *Build options*: `FastVibratorEffect` (`miscdevice_service.cpp:577`), the crown's feedback.

## 5. Disagreements found while modelling

`LockCycle` is a run: subscribing takes `clientMutex_` with `subscribeMutex_` held. Together
with a vibration on another thread of the client (`clientMutex_`, waiting for
`devicesManageMutex_`) and a plug event (`devicesManageMutex_`, waiting for
`subscribeMutex_`) three threads wait for each other, against the order of locks and
the ban on IPC with a lock held in `docs/constraints.md`. `NobodyWaitsForEver` (section 6)
says that without such a second thread, and without callbacks that vibrate, nobody waits
for ever.

The properties of section 3 exclude what does not hold. The following were found by TLC,
or are stated by a definition of a module; the project keeps no run for them.

| Where | What happens |
|---|---|
| `StopIsEffective` with a HD device (`miscdevice_service.cpp:469`) | a pattern that the thread sends after the service stopped the device, and before it joined the thread, plays on after `StopVibrator` returned 0 |
| `LaterInterruptsEarlier` (`:1056`) | `PlayPattern` on a HD device sends the pattern with no lock held; it can replace a vibration that was admitted after it (`docs/constraints.md:37`) |
| `MapAccessExclusive` (`:705`) | the mute callback walks `devicesManageMap_` while a plug event changes it |
| `NoMutualWait` with `CallbackVibrates` | a plug callback that vibrates waits for the mutex under which the service calls it |
| `ProxyStaysForUse`, `ReconnectsAfterDeath` of `ClientConnection` | four calls of the client use `miscdeviceProxy_` with no mutex; after a death the client tries once to connect |
| `InterfaceStaysForUse`, `ReconnectsAfterDeath` of `DriverConnection` | device calls use `vibratorInterface_` with no mutex; after ten tries nobody connects to the driver any more (`docs/constraints.md:49`), and after a reconnection the plug callback is not registered |
| `SameUsageInterrupts` | an alarm is ignored while an alarm plays; `docs/constraints.md` says uses of the same level may interrupt each other |
| settings, an overtaken read | an older answer is stored last; the copy is wrong until the next change |
| settings, two switches of user at a time (`vibration_priority_manager.cpp:255`) | both store their observer in the same member; the first can never be unregistered |
| settings, the KV service first (`miscdevice_service.cpp:184`) | the mute parameter is not read, and not watched, before the first decision on a vibration (`:384`); when it is read at the start depends on who came first |
| settings, `WatchParameter` fails (`miscdevice_service.cpp:718`) | the once-flag is used up: the parameter is never watched, and its copy stays as it was read |
| settings, the mute parameter changes between its read and the watch (`miscdevice_service.cpp:716`) | its copy is wrong until the next change |
| routing by index (`miscdevice_service.cpp:1807`, `:1677`) | every position is 0: a custom vibration all of whose events name an index other than 0 plays nowhere |
| settings, a failed read | stores "unknown" over a known value; a failed registration leaves the group unwatched until the next switch of user |
| agent, two calls for one vibrator (`vibrator_agent.cpp:88`, `vibrator_js.cpp:501`) | one goes out with the other's usage, or resets it |
| agent, a refused call (`vibrator_js.cpp:461`) | its usage and loop count stay for the next call |
| agent, a pattern after one by session (`vibrator_agent.cpp:501`) | carries the old session; a refused `PlayPackageBySessionId` (`:530`) leaves its settings |
| binding, a stop before the worker of a start has run | does not stop it |
| listeners (`vibrator_js.cpp:1058`, `:1031`, `:963`) | an overlapping `on`, or `off` of another type, leaves listeners without subscription; `RemoveCallback` loops for ever behind a listener of another environment; of two events the first is overwritten and the last delivered twice; a removed listener is still called |
| patterns | a HE file may hold more patterns than the structures take: seeking then keeps none of them, and the parcel is refused (`he_vibrator_decoder.cpp`, `ParsePatternList`); the binary search of a modulation relies on points in order, which nothing checks (`vibrator_service_client.cpp:1269`); a native event may begin before its pattern, and a seek to that pattern's start keeps it whole; HE files may hold overlapping patterns, whose delays are negative; frequencies of HE files and of modulation reach the driver unclamped if no parameter was set; a package sent by session plays nothing on a composite device (`miscdevice_service.cpp:1103`); a script's pattern may have 128 events and the parcel takes 16; modulation by a curve without an interval reads an empty vector (`vibrator_service_client.cpp:1259`); the events kept for a position are ignored on a device that can only be switched on and off (`vibrator_thread.cpp:228`) |
| lights | the list shown to the application is that of the first service (`light_client.cpp:136`); the driver's interface is checked and then used (`hdi_light_connection.cpp:85`); after the fall-back the destroyed connection is still a death recipient (`light_hdi_connection.cpp:42`); a client whose one call for the list was lost knows no light until the service dies (`light_client.cpp:69`); a driver that stays away longer than the tries is never found again |

## 6. The proofs

`VibrationPriorityProofs` proves of the decision, for every set of applications and every
history of the settings:

| Theorem | Says |
|---|---|
| `OneWins` | `OneOfTwoWins` |
| `NeverAdmits` | `SilencingNeverAdmits` |

Both are about operators. `RefusedOnBusyMotor` lists the three reasons for which a
vibration that the settings allow loses against the one that plays, and no two vibrations
have them against each other. For the second, `VerdictIsRefused` turns the chain of early
returns into a disjunction of rules, and `StricterRefuses` shows each rule monotone in each
switch; the one that is not by itself, vibration when ringing, is refused by the ringer
rule instead once the ringer is silent.

`MiscdeviceServiceProofs` proves, for every set of motors, devices, callers, clients and
requests that satisfies `ThreadAssumption` and `ServiceAssumption` (the motors are
numbers, motors belong to devices, the null values are nobody's, requests are
well-formed):

| Theorem | Says |
|---|---|
| `ServiceInv` | `Spec => []IInv` |
| `TypeCorrect` | `TypeOK` always holds |
| `CleanLaunch` | `LaunchIsClean`: a thread is started ended, and with its flag down |
| `RecordIsPlayed` | `ThreadPlaysRecord` |
| `UnpluggedIsQuiet` | `UnpluggedMotorQuiet` |
| `DeathIsSelective` | `DeathStopsOnlyItsOwn` |

None of these properties is inductive. `IInv` adds what the code relies on silently:

- `LockInv`: at which places a handler holds which lock. `vibratorThreadMutex_` is the
  same from the decision to the launch; the mute callback is the one that stops without
  `devicesManageMutex_`.
- `KindInv`: which kinds of call get to a place, so that an action shared by handlers
  is read as the one at hand.
- `TodoInv`: the loop has a motor at the places that use one, and a start's motors are
  in the map while it holds `devicesManageMutex_`.
- `ExitInv`: an exit flag is up only while the handler that raised it waits in
  `NotifyExitSync` for that motor. With `LockInv` there is no such handler while
  another one launches: this is `LaunchIsClean`.
- `QuietInv`: the thread a handler has joined, or found ended, has not been started
  again. It is what `vibratorThreadMutex_` buys.
- `ThreadInv`: the thread's place, its copy of the record and its counter. The bound on
  the counter is what keeps `step` in its type.
- `PlugInv`: how far a plug-out has come: the motors it has done are quiet, and the one
  it is at is still in the loop or quiet already. Nobody launches, because it holds
  `devicesManageMutex_`.
- `DeathInv`: the motor a death handler is stopping belongs to its client or was reset;
  again because a launch needs the lock it holds.

The argument for a step is the same throughout. `OtherCallers` says that a handler's
step leaves the others where they are, `ThreadEffects` that only five actions touch the
threads or the map, `RunningOnlyByLaunch` and `NoLaunch` that no thread starts while
another handler holds either lock. Each part of `IInv` has a lemma with a step per
group of actions, and `StepIInv` puts them together.

The second part of `MiscdeviceServiceProofs` is about what the devices play. Two kinds of
vibration can outlive the thread that started them: a pattern for a device with HD haptics,
and, where `Overrun` is TRUE, what a device goes on with after its nominal time (sections
2.10 and 5). All others are `Waited`,
and `Heard(m)` is what motor `m` plays if it is waited for. The first theorems assume nothing
about the devices and speak of what is heard:

| Theorem | Says |
|---|---|
| `PlayedInPlace` | `PlaysWhereAsked` |
| `WaitedRecorded` | `WaitedIsRecorded`: what is heard is the record of a thread that runs |
| `StopEndsWhatIsWaited` | `StopEndsWaited`: a stop leaves no thread and nothing to hear |
| `WaitedAlarmKept` | `WaitedAlarmShielded`: no alarm that is heard is cut off |
| `ModeSparesWhatIsWaited` | `ModeSparesWaited`: a stop by mode ends its mode only |
| `MutedWhatIsWaited` | `MutedWaitedSilent`: nothing for sound is heard after the mute callback |
| `DeathEndsWhatIsWaited` | `DeathEndsWaited`: nothing of a dead client is heard, if the registry has room for every process (`Room`) |

Without HD haptics and with `Overrun = FALSE` (`Nominal`) everything is waited for, and the
properties of the runs follow:

| Theorem | Says |
|---|---|
| `RecordTrue` | `RecordDescribesDevice` |
| `StopEffective` | `StopIsEffective` |
| `AlarmKept` | `AlarmShielded` |
| `ModeSelective` | `ModeIsSelective` |
| `MutedSilent` | `MutedAudioSilent` |
| `DeathCleans` | `DeathCleansUp`, if the registry has room for every process (`Room`) |
| `ImplementsPlayback` | `Spec => PlaybackSpec`: the service implements `MotorPlayback` |

They rest on parts that are inductive together with `IInv`:

- `WaitedInv`: what is waited for is played only while the motor's thread waits, and it is
  what the thread has copied; with `ThreadInv` that is the record. So whatever is known of
  threads is known of what is heard, and the other parts speak of `running` and `current` only.
  A pattern that `PlayPattern` sends may replace it on the device, but brings nothing that is
  waited for. With `Nominal` and `PlainInv` (no HD mode gets into a request, a record, a thread
  or a device) it becomes `DeviceInv`, the same of everything a device plays.
- `PlaceInv`: what reaches a record, a thread or a device has passed `ShouldProcess`.
- `StopInv`: the threads of the motors that a stop is done with have ended. It holds also for
  the mute callback, under which the map may change: a device that comes in has no threads.
- `AlarmInv`, `ModeInv`: what a decision, or the stop by mode, saw of a motor is still so when
  its thread is notified.
- `MuteInv`: with the switch set and its callback done, no thread plays for sound and
  nothing for sound has been admitted. The step that ends the callback is the difficult one: every
  local motor has been stopped (`StopInv`), and nobody else is between its decision and
  its launch, because the callback holds `vibratorThreadMutex_` (`LockInv`).
- `ClientInv`, `CleanInv`: a dead client is in the registry until its handler is done, and the
  motors the handler is done with run nothing of that client.

`RecordsKept` says that only a launch gives a running thread a new record, `HeldRecords` and
`OwnRecords` that there is none while a handler holds either lock, `WhoMoves` what a step
does to a handler: each step lemma has one case where the handler stays, one for its own
steps, and one where it begins. For the refinement, `PlaybackStep` maps `Launch` to
`AdmitTo`, `PlayDevice` to `PlayAdmitted`, a join or a plug event to `Forget`, a stop or an end
to `FallSilent` (or to nothing, when the device was quiet), and the rest to stutters.

`DriverConnectionProofs` proves of the connection to the driver, for any number of threads,
tries and lives (`DriverAssumption`: the kinds of thread differ, there is a try):

| Theorem | Says |
|---|---|
| `ConnectionInv` | `Spec => []IInv` |
| `TypeCorrect` | `TypeOK` always holds |
| `ConnectsAlone` | `OneConnection` |
| `StaleIsNoticed` | `StaleInterfaceIsNoticed` |

`RecipientInv` is the core: while a thread is connecting no death recipient is left, so no
second death can be announced and no second thread starts to connect; when it is done
the interface has its recipient. `StageInv` adds that `OnStart` connects before there is
anything to be told of, and that only a stopping service takes a recipient away.

`LightClientProofs` proves of the lights, for any number of threads, lives, tries and lights
(`LightDriverAssumption`, `ClientAssumption`):

| Theorem | Says |
|---|---|
| `LightsInv` | `Spec => []IInv` |
| `LightsAreTheirs` | `OnlyTheirLights` |
| `LightsStaleIsNoticed` | `StaleIsNoticed` |

Its `IInv` says how far the start of the service, a connection of the client and a
death have come (`StageInv`), that a proxy and an interface have their recipients
(`RecipientInv`), that who is between two steps under `clientMutex_` holds it
(`OwnerInv`), and that a light a thread has found in the client's list is one that some
service told of (`KnownInv`); the service looks again, which is what makes
`OnlyTheirLights` hold across lives. The type of `turnOnLights` is left to TLC.

`ClientConnectionProofs` proves of the connection between clients and service, for any
number of clients, threads, lives and events (`ConnectionAssumption`):

| Theorem | Says |
|---|---|
| `ConnectionsInv` | `Spec => []CoreInv` |
| `StaleProxyNoticed` | `StaleProxyIsNoticed` |
| `ServedRegistered` | `ServedIsRegistered`, if the registry has room for every client (`Room`) |
| `LocksInv` | `Spec => []LockInv`: who holds which mutex, and where |
| `NobodyWaitsForEver` | `NoMutualWait`, if plug callbacks do not vibrate and, where clients subscribe, a client has one thread and the service one life (`OneCallAtATime`) |
| `TheDeadAreReaped` | `DeadAreReaped`, if no client dies while the service registers it (`~DieWhileRegistering`) |
| `EverybodyIsTold` | `AllTold`, for one life of the service (`OneLife`) |
| `EventsInOrder` | `PlugOrder`, for one life of the service (`OneLife`) |

The hypotheses are the ones without which the properties fail: section 5 shows the cycles
that `OneCallAtATime` excludes, section 2.4 what happens to a client that dies between the
two lines of its registration, and after a restart a thread that the dead service
left in a client may deliver its event after one of the new service.

- `ConnectionTypes`: what each variable holds, and which thread is at which place.
- `LifeInv`: only a dead client is reaped, nobody runs in a dead client, and a proxy or
  a recipient is never of a life to come.
- `HolderInv`: a thread that connects, or calls under `clientMutex_`, holds that mutex;
  so at most one thread of a client is between two steps of a connection.
- `NoticedInv`: the proxy of a service that died is about to be forgotten: its recipient
  is linked, or the thread of the notice is on its way.
- `RegisteredInv`: whoever holds a proxy of the living service, or is past the
  registration, is in `clientPidMap_`, and stays there while it lives. It needs `Room`,
  because `SaveClientPid` turns a client away when the registry is full.

About twenty of the actions leave everything alone that these parts speak of; `Quiet`
gathers them, so that each part has one step for all of them and one for every action
that matters (`StepCases`).

- `OwnedInv` says of each mutex at which places its owner can be; a step takes only what is
  free and gives back only its own (`StepOf`), so each thread can be looked at by itself.
- Nobody waits in a circle, because the mutexes have an order: who waits for one in the
  service that is owned waits for a thread that is further on in the service or in another
  client, and `NeedsOf` shows that this thread needs a mutex of a client that only a
  second thread of that client could own. `NobodyWaits` follows such a chain to its end.
- `ReapInv`: the death recipient is added before the pid is saved, so a living client of
  the registry has one, and a dead one of the registry has its notice or its handler. That
  a registering client keeps its proxy is again `HolderInv`.
- `EventInv` and `ToldInv`: one event is under way at a time, since `SendMsgToClient` keeps
  both of its mutexes; each living client of the registry is still to be called, is being
  called or has taken the event, and nobody enters the registry meanwhile.

`SettingsProofs` proves of the copies of the settings, for any users, groups, numbers of
updates, changes, switches and faults (`SettingsAssumption`):

| Theorem | Says |
|---|---|
| `ObserversStayRight` | `Spec => []ObservedInv` |
| `EverySettingIsObserved` | `SettingsAreObserved` |
| `CopiesStayRight` | `Spec => []CopiesInv` |
| `CopiesFollowSettings` | `CopiesFollow` |

Both properties speak of states in which nothing is under way, and the invariants say what
is still to come in all others. `AccountInv`: the account stored, or about to be stored
under `g_settingMutex`, is the active one, or a loader has still to ask for it.
`ObserversInv`: a group is observed in the table of the current user, or a loader has still
to reach its registration; `StartInv` keeps the shared settings to one observer, and says
that nobody has begun with the mute parameter before the manager is ready, which is why
the once-flag is unused when `OnReceiveEvent` comes to it. `MuteInv` is about the copy of that
parameter: once read, whoever read it, it is right or a callback is due, or a change was missed.

`CopiesInv` starts from `Coming`: a group whose settings have changed, or whose table is
another one, has an announcement, a thread of `ExecRegisterCb`, a failed registration or a
loader on its way (`LoadersMakeRead`, `ChangeFollows`; the latter needs `SettingsAreObserved`'s
invariant, because a change nobody observes is announced to nobody). For all other groups
`FollowInv` holds: some update has still to read the setting, or, of those that are to store
it, the last in the order of reads has read what is there now (`Latest`), and if there is
none the copy is right (`Kept`). `OneIsStored` is the step in which all of it meets: whoever
stores either was the last to read, and then the copy is right, or leaves the last one in
place and those before it marked. The white list is special, because it is
not read when the switch is off: `UpdatesInv` says that whoever holds `whiteListMutex_` has
seen the switch on, or an update that has changed it since waits for the mutex.

`ClientLibraryProofs` proves of one application's process, for any scripts, threads, workers,
vibrators and numbers of calls and listeners (`AgentAssumption`, `LibraryAssumption`):

| Theorem | Says |
|---|---|
| `ListenersInv` | `Spec => []PlugInv` |
| `ListedAreSubscribed` | `ListenersAreSubscribed` |
| `LatestEventIsSeen` | `LatestIsSeen` |
| `CallsAreInOrder` | `Spec => []LibraryInv` |
| `StoppedStaysStopped` | `StopIsFinal` |
| `NoPromiseIsForgotten` | `PromisesAreKept` |
| `PlayedAsItWasAsked` | `PlayedAsAsked` |
| `NoValueLingers` | `NothingLingers` |

- `TogetherInv`: what the half of an `on` or `off` that is done has changed, while it is
  alone; `SeenInv`: a number names one listener, and its `AsyncCallbackInfo` holds the event
  it is due, which the next of its tasks will show it.
- `CallsInv`: a call is with the thread that works on it, in the pool's queue, in its script's
  queue or answered, and in one of these places only (`PlacesInv`). What a step does to a call
  is then one of two things, it stays with its thread or it lets go (`Goes`), and the other
  parts have one case for each.
- `StopInv`: what a vibrator plays is a call for it, and none that was stopped; a number that
  is answered is never played again.
- `OwnValues`: the entry holds what a call has set so far, unless another call was at the
  vibrator meanwhile (`disturbed`); a thread that has read the entry has read that.
- `LeftOver`: a field that is set has a call that is to set it back, or a refused call left it.
  `RoutineFacts` goes through `AllRoutines` and is the one place where the lists of fields
  matter: whatever a kind of call sets, its function sets back.

`PatternPipelineProofs` proves what the algorithms on custom vibrations compute, for files,
scripts, packages and curves of any length and content (`PipelineAssumption`), for all limits
with the relations of the code's (`LimitsAssumption`), and for any number of edits:

| Theorem | Says |
|---|---|
| `HistoryHolds` | `HistoryInvariant`: what the application has comes of its source and its edits |
| `Lossless` | `SplitIsLossless` |
| `SeekPlaysOn` | `SeekKeepsRest` |
| `ModulatesPointwise` | `ModulatedPointwise` |
| `CallsArrive` | `ArrivesUnchanged` |
| `EffectsFollowTheirEvents` | `EffectsFollowEvents` |

The state is simple and the algorithms are not, so the invariants are few and most of the
module is about operators:

- `HistoryInvariant` has four parts: everything is of its type (`HistoryFits`); the last edit
  made this package of the one before (`EditMadeIt`); what comes of a file fits into the IPC
  structures and, for an OH file, says how long it takes (`FileFits`); and what is fresh from
  an OH file plays it without a loss (`FreshPlaysAll`). The third makes it inductive: seeking
  and modulation are exact only on what is within the limits, and keep it there.
- `TransitInvariant`: the parcel is the call written down, and a call with what a file gave is
  refused for its parameters only. It is proved with `HistoryInvariant`, which says what the
  call may carry.
- `EffectsInvariant`: what the service keeps is a package, and what a thread played was made
  of one.

The provers cannot instantiate the library's induction theorems, whose parameter is an
operator. The module avoids that: `UpTo` is induction over a *set* of numbers, `SeqInduction`
over a set of sequences, and a recursive function is described by the equations that its
values satisfy (`IsRun`, `Concats`, `Sums`), of which `RunExists` and the like show
that they have a solution. From there:

- *Sequences.* `Bind(g, s)` applies `g` to each element and concatenates. Its laws
  (associativity, agreement, length, order) carry `FlattenSeq`, `Only` and `Map` through
  decoding, seeking and the parcel.
- *Split.* A cut of the events into slices loses nothing (`SlicesFlatten`), each slice is at
  most a pattern's capacity, and writing times relative to the slice's start and back is the
  identity (`ShiftBack`). The sorting of the decoder permutes, so every event occurs as often.
- *Seek.* Event by event it is `RestAt`, and the durations subtracted one after another,
  with a floor of zero, are those of what is lost, because the total is never below them.
- *Modulation.* Each round of the binary search keeps its interval (`HalfWith`) and
  halves it; after as many rounds as there are intervals nothing is between head and tail,
  and the interval that is left is that of the governing point (`SearchGoverns`). It needs the
  curve's points in order.
- *Parcel.* `Held(parcel, a, s)` says that `s` is written from `a` on. Reading one element from
  where it is held gives it and the place behind it, or refuses; `ReadsTo` does the same
  for any number of elements, and is used for points, events and patterns in turn.
- *Effects.* `LineOf(line, events, k)` is the invariant of the matcher's loop after `k` events:
  the line is in order, every event so far is heard in it to its end but for the motor's rest,
  and there is rest, or an empty effect, behind every continuous one. `MixCases` has the three
  ways in which one event changes the line, `LineStep` keeps the invariant on each. The delays
  are differences of times, so their sums are the times (`StartsWithEvents`).

What the theorems exclude is in the statements: of a HE file too many patterns (its decoder
counts them nowhere), of a native package what is beyond the client's limits or begins before
its pattern, and curves or packages that are not in order.

Only model-checked are the liveness properties `ThreadLockReleased` and `ServedAgain`, because
liveness under fairness is outside what TLAPS proves here.

## 7. The plan

Done: the decision, the motor threads, the handlers, the abstract `MotorPlayback`; the
connections between clients, service and driver; the settings and their observers; the
client library with its bindings; the way of a custom vibration; the lights; and proofs
of every safety property that a run checks, the refinement of `MotorPlayback` among them.

Left: the counters of calls and their daily report, should anything come to depend on them;
the shut-down of the ability; and the build option `FastVibratorEffect`, which plays a preset
effect without a thread.
