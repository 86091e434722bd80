--------------------------- MODULE SettingsObserver ---------------------------
(***************************************************************************)
(* VibrationPriorityManager's copies of the settings that decide whether a *)
(* vibration is admitted, and how they follow the settings data: an        *)
(* observer for each group of settings re-reads its group when data share  *)
(* announces a change, a thread of its own reads the group once after each *)
(* registration, a decision reads what is still unknown, and the switch to *)
(* another user registers the user's observers anew.  No mutex covers a    *)
(* read and the store that follows it.                                     *)
(*                                                                         *)
(* The start of the service is here as well: whoever comes first of the    *)
(* key-value service and the event DATA_SHARE_READY calls Init, and the    *)
(* event, or else the first decision on a vibration, has the mute parameter*)
(* read and watched.                                                       *)
(***************************************************************************)
EXTENDS Naturals, Integers, Sequences, SequencesExt

CONSTANTS
  Users,        \* the accounts of the device
  FirstUser,    \* INVALID_USERID, the account assumed until it is asked for
  Builds,       \* the groups of settings that may be built in
  MaxUpdates,   \* update functions that run at a time
  MaxChanges,   \* changes of the settings data and of the mute parameter
  MaxSwitches,  \* switches to another user
  MaxFaults     \* calls to data share and the account manager that fail

Groups == {"misc", "disturb", "ring", "inputMethod"}

ASSUME SettingsAssumption ==
  /\ FirstUser \in Users
  /\ Builds \subseteq SUBSET Groups
  /\ MaxUpdates \in Nat \ {0} /\ MaxChanges \in Nat /\ MaxSwitches \in Nat /\ MaxFaults \in Nat

INVALID == -1
OFF == 0
ON == 1

\* The settings a group's update function reads, in its order.
KeysOf == [g \in Groups |->
  CASE g = "misc"        -> <<"feedback", "ringer">>
    [] g = "disturb"     -> <<"switch", "whiteList">>
    [] g = "ring"        -> <<"whenRing">>
    [] g = "inputMethod" -> <<"inputMethods">>]

Keys == UNION {Range(KeysOf[g]) : g \in Groups}
GroupOf == [k \in Keys |-> CHOOSE g \in Groups : k \in Range(KeysOf[g])]

\* The users' tables, and the one of the settings all users share.
Tables == Users \cup {"proxy"}

\* Of the white list and the input methods only this matters: ON is a list
\* with entries, OFF an empty one, INVALID one that was never read.
Settings == [Keys -> {OFF, ON}]

Loaders == {"kv", "share", "switch"}

VARIABLES
  groups,      \* the groups of settings that are built in
  data,        \* the settings data, by table
  active,      \* the active account
  mute,        \* the parameter DEVICE_MUTE_FLAG
  remoteObj,   \* whether remoteObj_ is there
  userId,      \* g_currentUserId
  cache,       \* miscFeedback_, miscAudioRingerMode_, doNotDisturbSwitch_, ...
  doubtful,    \* history: the settings whose copy comes from a failed or an
               \* overtaken read
  observer,    \* the number of each group's latest observer, and whether the
               \* pointer to it is there
  registered,  \* who is told of a change in which table: observers of data share
  announced,   \* the observers data share has yet to call
  updates,     \* the update functions that run, by their latest read
  spawned,     \* the threads of ExecRegisterCb that have yet to begin
  whiteListMutex,
  ready,       \* isVibrationPriorityReady_
  readyMutex,
  settingMutex,
  pc, queried, \* the loaders, and the account each was told
  watch,       \* the mute parameter: not asked for, read, watched, announced
               \* as changed, or not to be watched
  isVibratorMute,
  muteMissed,  \* history: it changed after the read with nobody watching
  unwatched,   \* history: the groups whose latest registration failed
  switchEvent, \* USER_SWITCHED is on its way
  changes, switches, faults

external == <<groups, data, active, mute, changes, switches>>
copies   == <<cache, doubtful, updates, spawned, whiteListMutex>>
watching == <<observer, registered, announced, unwatched>>
startup  == <<ready, readyMutex, settingMutex, pc, queried>>
muting   == <<watch, isVibratorMute, muteMissed>>
vars == <<external, remoteObj, userId, copies, watching, startup, muting,
          switchEvent, faults>>

\* On which thread an update function runs: an observer's, by its number, the
\* thread of ExecRegisterCb, or the one of a decision.
ByRegistration == 0
ByDecision == -1

Update == [group : Groups, by : Nat \cup {ByDecision}, at : 1 .. 2,
           step : {"read", "store", "lock"}, value : {INVALID, OFF, ON},
           sound : BOOLEAN]

TypeOK ==
  /\ groups \in Builds
  /\ data \in [Tables -> Settings] /\ active \in Users /\ mute \in BOOLEAN
  /\ remoteObj \in BOOLEAN /\ userId \in Users
  /\ cache \in [Keys -> {INVALID, OFF, ON}] /\ doubtful \subseteq Keys
  /\ observer \in [Groups -> [number : Nat, held : BOOLEAN]]
  /\ \A r \in registered : r.table \in Tables /\ r.group \in Groups
                           /\ r.number \in 1 .. observer[r.group].number
  /\ \A a \in announced : a.group \in Groups /\ a.number \in 1 .. observer[a.group].number
  /\ \A i \in DOMAIN updates : updates[i] \in Update
  /\ \A i, j \in DOMAIN updates :
       updates[i].group = "disturb" /\ updates[i].at = 2 /\ updates[i].step # "lock"
         => whiteListMutex /\ (updates[j].group = "disturb" /\ updates[j].at = 2
                                 /\ updates[j].step # "lock" => i = j)
  /\ spawned \in [Groups -> Nat]
  /\ whiteListMutex \in BOOLEAN /\ ready \in BOOLEAN
  /\ readyMutex \in Loaders \cup {"decision", "none"} /\ settingMutex \in Loaders \cup {"none"}
  /\ pc \in [Loaders -> Nat] /\ queried \in [Loaders -> Users]
  /\ watch \in {"off", "reading", "on", "told", "failed"} /\ isVibratorMute \in BOOLEAN
  /\ muteMissed \in BOOLEAN /\ unwatched \subseteq Groups /\ switchEvent \in BOOLEAN
  /\ changes \in 0 .. MaxChanges /\ switches \in 0 .. MaxSwitches
  /\ faults \in 0 .. MaxFaults

Init ==
  /\ groups \in Builds
  /\ data = [t \in Tables |-> [k \in Keys |-> OFF]]
  /\ active = FirstUser /\ mute = FALSE
  /\ remoteObj = FALSE /\ userId = FirstUser
  /\ cache = [k \in Keys |-> INVALID] /\ doubtful = {}
  /\ observer = [g \in Groups |-> [number |-> 0, held |-> FALSE]]
  /\ registered = {} /\ announced = {} /\ updates = <<>>
  /\ spawned = [g \in Groups |-> 0] /\ whiteListMutex = FALSE
  /\ ready = FALSE /\ readyMutex = "none" /\ settingMutex = "none"
  /\ pc = [t \in Loaders |-> 0] /\ queried = [t \in Loaders |-> FirstUser]
  /\ watch = "off" /\ isVibratorMute = FALSE /\ muteMissed = FALSE
  /\ unwatched = {} /\ switchEvent = FALSE
  /\ changes = 0 /\ switches = 0 /\ faults = 0

-------------------------------------------------------------------------------
\* CreateDataShareHelper and the call it is for: it fails without remoteObj_,
\* and may fail otherwise.
DataShareAnswers(answers) ==
  \/ ~answers /\ ~remoteObj /\ UNCHANGED faults
  \/ ~answers /\ remoteObj /\ faults < MaxFaults /\ faults' = faults + 1
  \/ answers /\ remoteObj /\ UNCHANGED faults

\* AssembleUri, DoNotDisturbAssembleUri: the table a group is in now.
TableOf(g) == IF g = "misc" THEN "proxy" ELSE userId

Observing(table, g) == {r \in registered : r.table = table /\ r.group = g}
Told(observers) == {[group |-> r.group, number |-> r.number] : r \in observers}

\* Mutant: nobody reads the settings after a registration.
RegisterAtUnread(g, table, number) ==
  LET new == [table |-> table, group |-> g, number |-> number]
  IN /\ registered' = registered \cup {new}
     /\ UNCHANGED announced
     /\ UNCHANGED spawned

\* A new observer is registered for the settings of g.  NotifyChange tells all
\* who observe them, and a thread of its own reads them.
RegisterAt(g, table, number) ==
  LET new == [table |-> table, group |-> g, number |-> number]
  IN /\ registered' = registered \cup {new}
     /\ announced' = announced \cup Told(Observing(table, g) \cup {new})
     /\ spawned' = [spawned EXCEPT ![g] = @ + 1]

-------------------------------------------------------------------------------
(***************************************************************************)
(* The world around: settings, users and the mute parameter change.        *)
(***************************************************************************)
Change(table, k) ==
  /\ changes < MaxChanges /\ changes' = changes + 1
  /\ GroupOf[k] \in groups /\ (GroupOf[k] = "misc" <=> table = "proxy")
  /\ data' = [data EXCEPT ![table][k] = 1 - @]
  /\ announced' = announced \cup Told(Observing(table, GroupOf[k]))
  /\ UNCHANGED <<groups, active, mute, switches, remoteObj, userId, copies, observer,
                 registered, unwatched, startup, muting, switchEvent, faults>>

SwitchUser ==
  /\ switches < MaxSwitches /\ switches' = switches + 1
  /\ active' \in Users \ {active}
  /\ switchEvent' = TRUE
  /\ UNCHANGED <<groups, data, mute, changes, remoteObj, userId, copies, watching,
                 startup, muting, faults>>

ChangeMute ==
  /\ changes < MaxChanges /\ changes' = changes + 1
  /\ mute' = ~mute
  /\ watch' = IF watch = "on" THEN "told" ELSE watch
  /\ muteMissed' = (muteMissed \/ watch \in {"reading", "failed"})
  /\ UNCHANGED <<groups, data, active, switches, remoteObj, userId, copies, watching,
                 startup, isVibratorMute, switchEvent, faults>>

-------------------------------------------------------------------------------
(***************************************************************************)
(* The update functions.  A setting is read and stored in two steps; the   *)
(* updates are kept in the order of their latest read.                     *)
(***************************************************************************)
\* What is stored when a setting cannot be read.
OnFailure(u, k) ==
  CASE k = "switch"   -> OFF
    [] k = "whenRing" -> ON
    [] OTHER          -> IF u.by = ByDecision THEN ON ELSE cache[k]

\* What becomes of the update v when the setting that u is at is stored, or
\* given up: a read of v that waits to be stored is overtaken.
Overtaken(u, v) ==
  IF v.step = "store" /\ v.group = u.group /\ v.at = u.at
    THEN [v EXCEPT !.sound = FALSE] ELSE v

\* GetIntValue up to the store, by the update u beside the others.  What cannot
\* be read is stored as something else.
GetIntValue(u, others, answers) ==
  LET k == KeysOf[u.group][u.at]
  IN /\ answers \/ k \notin {"whiteList", "inputMethods"}
     /\ updates' = Append(others, [u EXCEPT
          !.step = "store", !.sound = answers,
          !.value = IF answers THEN data[TableOf(u.group)][k] ELSE OnFailure(u, k)])
     /\ UNCHANGED <<cache, doubtful, whiteListMutex>>

\* Without the white list the switch counts as off.
GetWhiteListValueFails(u, others, answers) ==
  /\ ~answers /\ KeysOf[u.group][u.at] = "whiteList"
  /\ updates' = others
  /\ cache' = [cache EXCEPT !["switch"] = OFF]
  /\ doubtful' = doubtful \cup {"switch"}
  /\ whiteListMutex' = FALSE

InitInputMethodDataFails(u, others, answers) ==
  /\ ~answers /\ KeysOf[u.group][u.at] = "inputMethods"
  /\ updates' = [j \in DOMAIN others |-> Overtaken(u, others[j])]
  /\ doubtful' = doubtful \cup {"inputMethods"}
  /\ UNCHANGED <<cache, whiteListMutex>>

Read(u, others) ==
  \E answers \in BOOLEAN :
    /\ DataShareAnswers(answers)
    /\ \/ GetIntValue(u, others, answers)
       \/ GetWhiteListValueFails(u, others, answers)
       \/ InitInputMethodDataFails(u, others, answers)

\* An update function begins with its first read.
BeginUpdate(g, by, at) ==
  /\ Len(updates) < MaxUpdates
  /\ Read([group |-> g, by |-> by, at |-> at, step |-> "read", value |-> INVALID,
           sound |-> TRUE], updates)

\* OnChange on the thread on which data share calls the observer: one at a time.
NotifyObserver(a) ==
  /\ \A i \in DOMAIN updates : ~(updates[i].group = a.group /\ updates[i].by = a.number)
  /\ announced' = announced \ {a}
  /\ BeginUpdate(a.group, a.number, 1)
  /\ UNCHANGED <<external, remoteObj, userId, spawned, observer, registered, unwatched,
                 startup, muting, switchEvent>>

ExecRegisterCb(g) ==
  /\ spawned[g] > 0
  /\ spawned' = [spawned EXCEPT ![g] = @ - 1]
  /\ BeginUpdate(g, ByRegistration, 1)
  /\ UNCHANGED <<external, remoteObj, userId, watching, startup, muting, switchEvent>>

\* A decision, once the manager is ready, reads the settings that are still
\* unknown, one after the other.  Decisions exclude one another by
\* isVibrationPriorityReadyMutex_, and the first of them has dealt with the
\* mute parameter before (ShouldIgnoreVibrate).
UpdateStatus(g) ==
  /\ ready /\ readyMutex = "none" /\ watch # "off"
  /\ \A i \in DOMAIN updates : updates[i].by # ByDecision
  /\ \E at \in DOMAIN KeysOf[g] :
       /\ cache[KeysOf[g][at]] = INVALID
       /\ g = "disturb" => at = 1
       /\ BeginUpdate(g, ByDecision, at)
  /\ UNCHANGED <<external, remoteObj, userId, spawned, watching, startup, muting,
                 switchEvent>>

ReadSetting(i) ==
  /\ updates[i].step = "read"
  /\ Read(updates[i], RemoveAt(updates, i))
  /\ UNCHANGED <<external, remoteObj, userId, spawned, watching, startup, muting,
                 switchEvent>>

\* The update goes on with its next setting; the white list is guarded.
StoreSetting(i) ==
  LET u == updates[i]
      k == KeysOf[u.group][u.at]
      more == u.at < Len(KeysOf[u.group]) /\ (u.by = ByDecision =>
                u.group = "disturb")
      next == [u EXCEPT !.at = 2, !.sound = TRUE, !.value = INVALID,
                        !.step = IF u.group = "disturb" THEN "lock" ELSE "read"]
  IN /\ u.step = "store"
     /\ cache' = [cache EXCEPT ![k] = u.value]
     /\ doubtful' = IF u.sound THEN doubtful \ {k} ELSE doubtful \cup {k}
     /\ LET stored == [j \in DOMAIN updates |->
                         IF j < i THEN Overtaken(u, updates[j]) ELSE updates[j]]
        IN updates' = IF more THEN [stored EXCEPT ![i] = next] ELSE RemoveAt(stored, i)
     /\ whiteListMutex' = (whiteListMutex /\ k # "whiteList")
     /\ UNCHANGED <<external, remoteObj, userId, spawned, watching, startup,
                    muting, switchEvent, faults>>

\* Mutant: the white list outlives the switch.
InitDoNotDisturbDataKept(i) ==
  LET u == updates[i]
  IN /\ u.step = "lock" /\ ~whiteListMutex
     /\ \/ /\ cache["switch"] = ON
           /\ whiteListMutex' = TRUE
           /\ updates' = [updates EXCEPT ![i].step = "read"]
           /\ UNCHANGED cache
        \/ /\ cache["switch"] = OFF
           /\ UNCHANGED cache
           /\ updates' = RemoveAt(updates, i)
           /\ UNCHANGED whiteListMutex
     /\ UNCHANGED <<external, remoteObj, userId, doubtful, spawned, watching,
                    startup, muting, switchEvent, faults>>

\* The second half of InitDoNotDisturbData, which goes by the copy of the switch.
InitDoNotDisturbData(i) ==
  LET u == updates[i]
  IN /\ u.step = "lock" /\ ~whiteListMutex
     /\ \/ /\ cache["switch"] = ON
           /\ whiteListMutex' = TRUE
           /\ updates' = [updates EXCEPT ![i].step = "read"]
           /\ UNCHANGED cache
        \/ /\ cache["switch"] = OFF
           /\ cache' = [cache EXCEPT !["whiteList"] = OFF]
           /\ updates' = RemoveAt(updates, i)
           /\ UNCHANGED whiteListMutex
     /\ UNCHANGED <<external, remoteObj, userId, doubtful, spawned, watching,
                    startup, muting, switchEvent, faults>>

-------------------------------------------------------------------------------
(***************************************************************************)
(* Registering the observers: Init, once for all users' settings and then  *)
(* ReregisterCurrentUserObserver, which the switch to another user repeats.*)
(***************************************************************************)
\* ReregisterCurrentUserObserver in its order, with a step for each group that
\* is built in; a thread that is at step 0 is elsewhere.
One(g) == IF g \in groups THEN 1 ELSE 0
UserGroups == One("disturb") + One("ring") + One("inputMethod")

UnregisterStep(g) ==
  CASE g = "disturb"     -> 1
    [] g = "ring"        -> One("disturb") + 1
    [] g = "inputMethod" -> UserGroups
QueryStep == UserGroups + 1
StoreStep == QueryStep + 1
RegisterStep(g) ==
  CASE g = "inputMethod" -> StoreStep + 1
    [] g = "ring"        -> StoreStep + One("inputMethod") + 1
    [] g = "disturb"     -> StoreStep + UserGroups
LastStep  == StoreStep + UserGroups

ToUnregister(t, g) == g \in groups /\ pc[t] = UnregisterStep(g)
ToRegister(t, g)   == g \in groups /\ pc[t] = RegisterStep(g)

Advance(t) == pc' = [pc EXCEPT ![t] = @ + 1]

\* The pointer goes even when the observer could not be unregistered.
Unregister(t, g) ==
  /\ ToUnregister(t, g) /\ Advance(t)
  /\ IF ~observer[g].held
       THEN UNCHANGED <<observer, registered, faults>>
       ELSE /\ observer' = [observer EXCEPT ![g].held = FALSE]
            /\ \/ /\ DataShareAnswers(TRUE)
                  /\ registered' = registered \
                       {r \in Observing(userId, g) : r.number = observer[g].number}
               \/ DataShareAnswers(FALSE) /\ UNCHANGED registered
  /\ UNCHANGED <<external, remoteObj, userId, copies, announced, unwatched, ready,
                 readyMutex, settingMutex, queried, muting, switchEvent>>

UnregisterUserObserver(t)    == Unregister(t, "disturb")
UnregisterUser100Observer(t) == Unregister(t, "ring")
UnregisterUserImfObserver(t) == Unregister(t, "inputMethod")

\* Mutant: the account is asked for outside g_settingMutex.
QueryUserIdUnlocked(t) ==
  /\ pc[t] = QueryStep
  /\ \/ /\ queried' = [queried EXCEPT ![t] = active]
        /\ settingMutex' = t /\ Advance(t)
        /\ UNCHANGED faults
     \/ /\ faults < MaxFaults /\ faults' = faults + 1
        /\ pc' = [pc EXCEPT ![t] = StoreStep + 1]
        /\ UNCHANGED <<queried, settingMutex>>
  /\ UNCHANGED <<external, remoteObj, userId, copies, watching, ready, readyMutex,
                 muting, switchEvent>>

\* UpdateCurrentUserId: the account manager is asked under g_settingMutex.
QueryUserId(t) ==
  /\ pc[t] = QueryStep /\ settingMutex = "none"
  /\ \/ /\ queried' = [queried EXCEPT ![t] = active]
        /\ settingMutex' = t /\ Advance(t)
        /\ UNCHANGED faults
     \/ /\ faults < MaxFaults /\ faults' = faults + 1
        /\ pc' = [pc EXCEPT ![t] = StoreStep + 1]
        /\ UNCHANGED <<queried, settingMutex>>
  /\ UNCHANGED <<external, remoteObj, userId, copies, watching, ready, readyMutex,
                 muting, switchEvent>>

StoreUserId(t) ==
  /\ pc[t] = StoreStep /\ Advance(t)
  /\ userId' = queried[t]
  /\ settingMutex' = "none" /\ queried' = [queried EXCEPT ![t] = FirstUser]
  /\ UNCHANGED <<external, remoteObj, copies, watching, ready, readyMutex, muting,
                 switchEvent, faults>>

\* Mutant: an observer that is there is left as it is.
RegisterOnce(t, g) ==
  /\ ToRegister(t, g) /\ Advance(t)
  /\ LET n == observer[g].number + 1
     IN IF observer[g].held
        THEN UNCHANGED <<observer, registered, announced, spawned, unwatched, faults>>
        ELSE
        /\ observer' = [observer EXCEPT ![g] = [number |-> n, held |-> TRUE]]
        /\ \/ DataShareAnswers(TRUE) /\ RegisterAt(g, userId, n) /\ unwatched' = unwatched \ {g}
           \/ /\ DataShareAnswers(FALSE)
              /\ unwatched' = unwatched \cup {g}
              /\ UNCHANGED <<registered, announced, spawned>>
  /\ UNCHANGED <<external, remoteObj, userId, cache, doubtful, updates, whiteListMutex,
                 ready, readyMutex, settingMutex, queried, muting, switchEvent>>

\* The new observer replaces the pointer to the old one, registered or not.
Register(t, g) ==
  /\ ToRegister(t, g) /\ Advance(t)
  /\ LET n == observer[g].number + 1
     IN /\ observer' = [observer EXCEPT ![g] = [number |-> n, held |-> TRUE]]
        /\ \/ DataShareAnswers(TRUE) /\ RegisterAt(g, userId, n) /\ unwatched' = unwatched \ {g}
           \/ /\ DataShareAnswers(FALSE)
              /\ unwatched' = unwatched \cup {g}
              /\ UNCHANGED <<registered, announced, spawned>>
  /\ UNCHANGED <<external, remoteObj, userId, cache, doubtful, updates, whiteListMutex,
                 ready, readyMutex, settingMutex, queried, muting, switchEvent>>

RegisterUserObserver(t)    == Register(t, "disturb")
RegisterUser100Observer(t) == Register(t, "ring")
RegisterUserImfObserver(t) == Register(t, "inputMethod")

\* Mutant: isVibrationPriorityReadyMutex_ is not taken.
InitBeginUnlocked(t) ==
  /\ pc[t] = 0 /\ ~ready
  /\ LET g == "misc"
     IN \/ /\ remoteObj' = TRUE
           /\ readyMutex' = t /\ Advance(t)
           /\ IF g \in groups
                THEN /\ observer' = [observer EXCEPT ![g].number = @ + 1]
                     /\ RegisterAt(g, "proxy", observer[g].number + 1)
                ELSE UNCHANGED <<observer, registered, announced, spawned>>
           /\ UNCHANGED faults
        \/ /\ faults < MaxFaults /\ faults' = faults + 1
           /\ remoteObj' \in BOOLEAN
           /\ UNCHANGED <<observer, registered, announced, spawned, readyMutex, pc>>
  /\ UNCHANGED <<external, userId, cache, doubtful, updates, whiteListMutex, unwatched,
                 ready, settingMutex, queried, muting, switchEvent>>

\* The whole of Init is under isVibrationPriorityReadyMutex_.  Its first half:
\* without the service's own object or a registration it fails.
InitBegin(t) ==
  /\ pc[t] = 0 /\ readyMutex = "none" /\ ~ready
  /\ LET g == "misc"
     IN \/ /\ remoteObj' = TRUE
           /\ readyMutex' = t /\ Advance(t)
           /\ IF g \in groups
                THEN /\ observer' = [observer EXCEPT ![g].number = @ + 1]
                     /\ RegisterAt(g, "proxy", observer[g].number + 1)
                ELSE UNCHANGED <<observer, registered, announced, spawned>>
           /\ UNCHANGED faults
        \/ /\ faults < MaxFaults /\ faults' = faults + 1
           /\ remoteObj' \in BOOLEAN
           /\ UNCHANGED <<observer, registered, announced, spawned, readyMutex, pc>>
  /\ UNCHANGED <<external, userId, cache, doubtful, updates, whiteListMutex, unwatched,
                 ready, settingMutex, queried, muting, switchEvent>>

\* The key-value service has come; DATA_SHARE_READY has come.
OnAddSystemAbility == InitBegin("kv")
OnReceiveEvent     == InitBegin("share")

\* Mutant: the mute parameter is watched and not read.
RegisterDeviceMuteObserverUnread ==
  /\ watch' = "reading" /\ UNCHANGED <<isVibratorMute, muteMissed>>

\* The mute parameter is read; WatchParameter follows.
RegisterDeviceMuteObserver ==
  /\ watch' = "reading" /\ isVibratorMute' = mute
  /\ UNCHANGED muteMissed

\* Init has succeeded.  OnReceiveEvent goes on to the mute parameter, with the
\* once-flag isRegistered_ unused: no decision was made before ready.
InitEnd(t) ==
  /\ pc[t] = LastStep + 1
  /\ pc' = [pc EXCEPT ![t] = 0]
  /\ \/ t = "switch" /\ UNCHANGED <<ready, readyMutex, muting>>
     \/ t = "kv" /\ ready' = TRUE /\ readyMutex' = "none" /\ UNCHANGED muting
     \/ t = "share" /\ ready' = TRUE /\ RegisterDeviceMuteObserver /\ UNCHANGED readyMutex
  /\ UNCHANGED <<external, remoteObj, userId, copies, watching, settingMutex, queried,
                 switchEvent, faults>>

\* The first decision of a manager that is ready, unless OnReceiveEvent has used
\* isRegistered_ up; it holds isVibrationPriorityReadyMutex_.
ShouldIgnoreVibrate ==
  /\ ready /\ readyMutex = "none" /\ watch = "off"
  /\ readyMutex' = "decision"
  /\ RegisterDeviceMuteObserver
  /\ UNCHANGED <<external, remoteObj, userId, copies, watching, ready, settingMutex,
                 pc, queried, switchEvent, faults>>

\* The second half of RegisterDeviceMuteObserver, which only logs a failure: the
\* once-flag is used up, and the parameter is never watched.
WatchParameter ==
  /\ watch = "reading"
  /\ \/ watch' = "on" /\ UNCHANGED faults
     \/ faults < MaxFaults /\ faults' = faults + 1 /\ watch' = "failed"
  /\ readyMutex' = "none"
  /\ UNCHANGED <<external, remoteObj, userId, copies, watching, ready, settingMutex,
                 pc, queried, isVibratorMute, muteMissed, switchEvent>>

\* The service then stops every device: StopVibratorService in MiscdeviceService.
ParameterCallback ==
  /\ watch = "told" /\ watch' = "on"
  /\ isVibratorMute' = mute /\ muteMissed' = FALSE
  /\ UNCHANGED <<external, remoteObj, userId, copies, watching, startup, switchEvent,
                 faults>>

OnReceiveUserSwitchEvent ==
  /\ switchEvent /\ pc["switch"] = 0
  /\ switchEvent' = FALSE /\ Advance("switch")
  /\ UNCHANGED <<external, remoteObj, userId, copies, watching, ready, readyMutex,
                 settingMutex, queried, muting, faults>>

Next ==
  \/ \E table \in Tables, k \in Keys : Change(table, k)
  \/ SwitchUser \/ ChangeMute
  \/ \E a \in announced : NotifyObserver(a)
  \/ \E g \in groups : ExecRegisterCb(g) \/ UpdateStatus(g)
  \/ \E i \in DOMAIN updates : ReadSetting(i) \/ StoreSetting(i) \/ InitDoNotDisturbData(i)
  \/ \E t \in Loaders :
       \/ UnregisterUserObserver(t) \/ UnregisterUser100Observer(t) \/ UnregisterUserImfObserver(t)
       \/ QueryUserId(t) \/ StoreUserId(t)
       \/ RegisterUserImfObserver(t) \/ RegisterUser100Observer(t) \/ RegisterUserObserver(t)
       \/ InitEnd(t)
  \/ OnAddSystemAbility \/ OnReceiveEvent
  \/ ShouldIgnoreVibrate \/ WatchParameter \/ ParameterCallback \/ OnReceiveUserSwitchEvent

Spec == Init /\ [][Next]_vars

-------------------------------------------------------------------------------
LoadersIdle == ~switchEvent /\ \A t \in Loaders : pc[t] = 0

\* Nothing is under way for the settings of g.
Settled(g) ==
  /\ LoadersIdle /\ ready /\ g \notin unwatched
  /\ spawned[g] = 0 /\ \A a \in announced : a.group # g
  /\ \A i \in DOMAIN updates : updates[i].group # g

\* The copy of a setting is the current user's once nothing is under way,
\* unless its latest read failed or was stored after a later one: no change,
\* and no switch of user, is lost between registering, reading and the
\* notifications (Init, ReregisterCurrentUserObserver, InitDoNotDisturbData).
\* A do-not-disturb switch that is off goes with no white list, although
\* InitDoNotDisturbData stores the switch before it takes whiteListMutex_; and
\* from the first read of the mute parameter on, by OnReceiveEvent or by the
\* first decision (ShouldIgnoreVibrate), its copy is right whenever no callback
\* is due, unless it changed before WatchParameter or WatchParameter failed
\* (RegisterDeviceMuteObserver, ParameterCallback).
CopiesFollow ==
  /\ \A k \in Keys :
       LET g == GroupOf[k]
       IN g \in groups /\ Settled(g) /\ k \notin doubtful
            /\ (k = "whiteList" => cache["switch"] = ON /\ "switch" \notin doubtful)
          => cache[k] = data[TableOf(g)][k]
  /\ "disturb" \in groups /\ Settled("disturb") /\ cache["switch"] = OFF
       /\ "switch" \notin doubtful
     => cache["whiteList"] = OFF
  /\ watch \in {"reading", "on", "failed"} /\ ~muteMissed => isVibratorMute = mute

\* However two threads start the manager and follow a switch of the user, the
\* settings of all users have one observer, the account is the active one once
\* both are done, and the observer each pointer is to observes that user's
\* table (Init, UpdateCurrentUserId, ReregisterCurrentUserObserver).
SettingsAreObserved ==
  /\ \A r, s \in Observing("proxy", "misc") : r = s
  /\ LoadersIdle /\ ready =>
       /\ faults = 0 => userId = active
       /\ \A g \in groups \ ({"misc"} \cup unwatched) :
            /\ observer[g].held
            /\ \E r \in Observing(userId, g) : r.number = observer[g].number
===============================================================================
