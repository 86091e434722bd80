---------------------------- MODULE DriverConnection ---------------------------
(***************************************************************************)
(* The service's connection to the vibrator driver: HdiConnection, which   *)
(* finds the driver when the service starts, registers a callback for plug *)
(* events, and connects again when it is told that the driver has died.    *)
(* No mutex guards vibratorInterface_: the threads that call the device    *)
(* read it while the thread of a death notice replaces it.                 *)
(*                                                                         *)
(* The driver is a process with lives: it dies and is started again.       *)
(***************************************************************************)
EXTENDS Naturals

CONSTANTS
  Users,       \* the threads that call the device
  Observers,   \* the threads on which the driver's death is announced
  Main,        \* the thread of OnStart and OnStop
  MaxTries,    \* GET_HDI_SERVICE_COUNT
  MaxLives     \* how often the driver is started

Connectors == Observers \cup {Main}
Threads    == Users \cup Connectors

ASSUME DriverAssumption ==
  /\ Users \cap Connectors = {} /\ Main \notin Observers
  /\ MaxTries \in Nat \ {0} /\ MaxLives \in Nat \ {0}

VARIABLES
  up, life,           \* whether the driver runs, and in which life
  vibratorInterface,  \* vibratorInterface_: the life it is for, 0 if null
  eventCallback,      \* whether g_eventCallback is there
  deathLinks,         \* the lives with a death recipient not yet called
  plugCallback,       \* the lives that were given the plug callback
  stage,              \* how far the service's ability has come; state_
  pc,                 \* where each thread is
  retry               \* retry of a thread's ConnectHdi

driverVars  == <<up, life>>
hdiVars     == <<vibratorInterface, eventCallback, deathLinks, plugCallback>>
vars == <<driverVars, stage, hdiVars, pc, retry>>

Alive(n) == up /\ n = life

TypeOK ==
  /\ up \in BOOLEAN /\ life \in 0 .. MaxLives
  /\ vibratorInterface \in 0 .. life
  /\ eventCallback \in BOOLEAN
  /\ deathLinks \subseteq 1 .. life
  /\ plugCallback \subseteq 1 .. life
  /\ stage \in {"new", "running", "stopped", "crashed"}
  /\ pc \in [Threads -> {"idle", "connect", "recipient", "plug", "plugUse",
                         "unregister", "unlink", "use", "gone"}]
  /\ \A t \in Threads : pc[t] = "connect" <=> retry[t] < MaxTries
  /\ retry \in [Threads -> 0 .. MaxTries]

\* The driver may be late.
Init ==
  /\ up \in BOOLEAN /\ life = (IF up THEN 1 ELSE 0)
  /\ vibratorInterface = 0 /\ eventCallback = FALSE
  /\ deathLinks = {} /\ plugCallback = {}
  /\ stage = "new"
  /\ pc = [t \in Threads |-> "idle"]
  /\ retry = [t \in Threads |-> MaxTries]

Goto(t, place) == pc' = [pc EXCEPT ![t] = place]

\* OnStart goes on with RegisterVibratorPlugCb whether or not it could connect.
AfterConnect(t) == IF t = Main THEN "plug" ELSE "idle"

-------------------------------------------------------------------------------
\* The first half of OnStart, up to Publish.
OnStart ==
  /\ pc[Main] = "idle" /\ stage = "new"
  /\ retry' = [retry EXCEPT ![Main] = 0]
  /\ Goto(Main, "connect")
  /\ UNCHANGED <<driverVars, stage, hdiVars>>

\* The loop of ConnectHdi; it waits before it tries again.
GetInterface(t) ==
  /\ pc[t] = "connect" /\ up
  /\ vibratorInterface' = life
  /\ eventCallback' = TRUE
  /\ retry' = [retry EXCEPT ![t] = MaxTries]
  /\ Goto(t, "recipient")
  /\ UNCHANGED <<driverVars, stage, deathLinks, plugCallback>>

GetInterfaceFails(t) ==
  /\ pc[t] = "connect" /\ ~up
  /\ vibratorInterface' = 0
  /\ retry' = [retry EXCEPT ![t] = @ + 1]
  /\ Goto(t, IF retry[t] + 1 < MaxTries THEN "connect" ELSE AfterConnect(t))
  /\ UNCHANGED <<driverVars, stage, eventCallback, deathLinks, plugCallback>>

\* Mutant: reconnecting leaves the death recipient to the first connection.
RegisterRecipientAtStart(t) ==
  /\ pc[t] = "recipient"
  /\ deathLinks' = IF t = Main /\ vibratorInterface # 0
                   THEN deathLinks \cup {vibratorInterface} ELSE deathLinks
  /\ Goto(t, AfterConnect(t))
  /\ UNCHANGED <<driverVars, stage, vibratorInterface, eventCallback,
                 plugCallback, retry>>

\* It takes the interface that is there now.  The death of a driver that is dead
\* already is announced at once.
RegisterHdiDeathRecipient(t) ==
  /\ pc[t] = "recipient"
  /\ deathLinks' = IF vibratorInterface # 0
                   THEN deathLinks \cup {vibratorInterface} ELSE deathLinks
  /\ Goto(t, AfterConnect(t))
  /\ UNCHANGED <<driverVars, stage, vibratorInterface, eventCallback,
                 plugCallback, retry>>

\* The second half of OnStart: RegisterVibratorPlugCallback checks, then calls.
PlugCheck ==
  /\ pc[Main] = "plug"
  /\ Goto(Main, IF vibratorInterface # 0 /\ eventCallback THEN "plugUse" ELSE "idle")
  /\ stage' = "running"
  /\ UNCHANGED <<driverVars, hdiVars, retry>>

RegisterVibratorPlugCallback ==
  /\ pc[Main] = "plugUse" /\ vibratorInterface # 0
  /\ plugCallback' = IF Alive(vibratorInterface)
                     THEN plugCallback \cup {life} ELSE plugCallback
  /\ Goto(Main, "idle")
  /\ UNCHANGED <<driverVars, stage, vibratorInterface, eventCallback,
                 deathLinks, retry>>

-------------------------------------------------------------------------------
\* OnStop and DestroyHdiConnection, which checks the interface and then calls.
OnStop ==
  /\ pc[Main] = "idle" /\ stage = "running"
  /\ stage' = "stopped"
  /\ Goto(Main, IF vibratorInterface # 0 THEN "unregister" ELSE "idle")
  /\ UNCHANGED <<driverVars, hdiVars, retry>>

DestroyHdiConnection ==
  /\ pc[Main] = "unregister" /\ vibratorInterface # 0
  /\ IF Alive(vibratorInterface)
     THEN /\ plugCallback' = plugCallback \ {life}
          /\ eventCallback' = FALSE
          /\ Goto(Main, "unlink")
     ELSE Goto(Main, "idle") /\ UNCHANGED <<plugCallback, eventCallback>>
  /\ UNCHANGED <<driverVars, stage, vibratorInterface, deathLinks, retry>>

UnregisterHdiDeathRecipient ==
  /\ pc[Main] = "unlink"
  /\ deathLinks' = deathLinks \ {vibratorInterface}
  /\ Goto(Main, "idle")
  /\ UNCHANGED <<driverVars, stage, vibratorInterface, eventCallback,
                 plugCallback, retry>>

-------------------------------------------------------------------------------
\* Mutant: the recipient of the dead driver stays.
ProcessDeathKeepsRecipient(t) ==
  /\ pc[t] = "idle"
  /\ \E n \in deathLinks : ~Alive(n)
  /\ retry' = [retry EXCEPT ![t] = 0]
  /\ Goto(t, "connect")
  /\ UNCHANGED <<driverVars, stage, hdiVars>>

\* ProcessDeathObserver and Reconnect, up to the loop of ConnectHdi.
ProcessDeathObserver(t) ==
  /\ pc[t] = "idle"
  /\ \E n \in deathLinks : ~Alive(n) /\ deathLinks' = deathLinks \ {n}
  /\ retry' = [retry EXCEPT ![t] = 0]
  /\ Goto(t, "connect")
  /\ UNCHANGED <<driverVars, stage, vibratorInterface, eventCallback,
                 plugCallback>>

\* The service is published before its state is RUNNING, and a stopped one can
\* still be called.
Published == stage \in {"running", "stopped"} \/ pc[Main] \in {"plug", "plugUse"}

\* A device call, StartOnce for one, checks the interface and then uses it.
DeviceCheck(t) ==
  /\ pc[t] = "idle" /\ Published /\ vibratorInterface # 0
  /\ Goto(t, "use")
  /\ UNCHANGED <<driverVars, stage, hdiVars, retry>>

DeviceUse(t) ==
  /\ pc[t] = "use" /\ vibratorInterface # 0
  /\ Goto(t, "idle")
  /\ UNCHANGED <<driverVars, stage, hdiVars, retry>>

\* Using an interface that has become null in between ends the process.
Crash(t) ==
  /\ pc[t] \in {"use", "plugUse", "unregister"} /\ vibratorInterface = 0
  /\ stage' = "crashed"
  /\ pc' = [u \in Threads |-> "gone"]
  /\ retry' = [u \in Threads |-> MaxTries]
  /\ UNCHANGED <<driverVars, hdiVars>>

-------------------------------------------------------------------------------
DriverDies ==
  /\ up /\ life < MaxLives
  /\ up' = FALSE
  /\ UNCHANGED <<life, stage, hdiVars, pc, retry>>

DriverStarts ==
  /\ ~up /\ life < MaxLives
  /\ up' = TRUE /\ life' = life + 1
  /\ UNCHANGED <<stage, hdiVars, pc, retry>>

ConnectStep(t) ==
  GetInterface(t) \/ GetInterfaceFails(t) \/ RegisterHdiDeathRecipient(t)

MainStep == ConnectStep(Main) \/ PlugCheck \/ RegisterVibratorPlugCallback
              \/ DestroyHdiConnection \/ UnregisterHdiDeathRecipient

Next ==
  \/ OnStart \/ OnStop \/ MainStep
  \/ \E t \in Observers : ProcessDeathObserver(t) \/ ConnectStep(t)
  \/ \E t \in Users : DeviceCheck(t) \/ DeviceUse(t)
  \/ \E t \in Threads : Crash(t)
  \/ DriverDies \/ DriverStarts

Spec == Init /\ [][Next]_vars

\* The service's threads are scheduled, deaths are announced, and a driver that
\* died is started again.  Nobody has to start the ability or to call it.
FairSpec ==
  /\ Spec
  /\ WF_vars(MainStep)
  /\ \A t \in Observers : WF_vars(ProcessDeathObserver(t) \/ ConnectStep(t))
  /\ WF_vars(DriverStarts)

-------------------------------------------------------------------------------
\* Properties.

Connecting(t) == pc[t] \in {"connect", "recipient"}

\* The interface of a driver that has died is going to be replaced, until the
\* service stops: its death is still to be announced, or a thread is connecting.
\* (ConnectHdi gives every connection a death recipient after Get.)
StaleInterfaceIsNoticed ==
  stage \in {"new", "running"} /\ vibratorInterface # 0 /\ ~Alive(vibratorInterface)
    => vibratorInterface \in deathLinks \/ \E t \in Connectors : Connecting(t)

\* ConnectHdi needs no mutex against itself: however often the driver dies, one
\* thread at most is connecting, and the only death that can be announced is
\* that of the driver connected to last.
OneConnection ==
  /\ \A t, u \in Connectors : Connecting(t) /\ Connecting(u) => t = u
  /\ deathLinks \subseteq {vibratorInterface}

\* A device call that has found an interface (CHKPR(vibratorInterface_, ...))
\* finds it there when it uses it.
InterfaceStaysForUse ==
  \A t \in Threads :
    pc[t] \in {"use", "plugUse", "unregister"} => vibratorInterface # 0

\* A service that is told of the driver's death is connected to a driver again
\* (Reconnect), unless it ends first.
ReconnectsAfterDeath ==
  (\E n \in deathLinks : ~Alive(n))
     ~> Alive(vibratorInterface) \/ stage \in {"stopped", "crashed"}

\* The inductive invariant behind OneConnection and StaleInterfaceIsNoticed: until
\* the service stops, an interface
\* has its death recipient unless a thread is connecting, and while a thread is
\* connecting there is none.
RecipientInv ==
  /\ OneConnection
  /\ \A t \in Connectors : Connecting(t) => deathLinks = {}
  /\ stage \in {"new", "running"} /\ vibratorInterface # 0
       => vibratorInterface \in deathLinks \/ \E t \in Connectors : Connecting(t)

\* Where OnStart and OnStop are.
StageInv ==
  /\ stage = "new" /\ pc[Main] = "idle" => vibratorInterface = 0
  /\ \A t \in Observers : stage = "new" /\ pc[Main] = "idle" => ~Connecting(t)
  /\ pc[Main] \in {"unregister", "unlink"} => stage = "stopped"
  /\ pc[Main] \in {"connect", "recipient", "plug"} => stage = "new"
  /\ pc[Main] = "plugUse" => stage = "running"

IInv == TypeOK /\ RecipientInv /\ StageInv
================================================================================
