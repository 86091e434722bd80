----------------------------- MODULE SettingsProofs -----------------------------
(***************************************************************************)
(* Proofs about the observers of the settings that decide whether a        *)
(* vibration is admitted, and about the copies they keep.                  *)
(*                                                                         *)
(* SettingsAreObserved speaks of the states in which no loader is under    *)
(* way.  In between a loader has still a step to come that makes it true:  *)
(* the account is asked for once more (AccountInv), or the observer of a   *)
(* group is registered anew (ObserversInv).                                *)
(*                                                                         *)
(* CopiesFollow speaks of the states in which nothing is under way for a   *)
(* group.  In between its settings are going to be read (Coming), or of    *)
(* the updates that are to store a setting the one that has read it last   *)
(* has read what is there (FollowInv).                                     *)
(***************************************************************************)
EXTENDS SettingsObserver, SequenceTheorems, TLAPS

-------------------------------------------------------------------------------
(* The inductive invariant. *)

Types ==
  /\ groups \subseteq Groups
  /\ observer \in [Groups -> [number : Nat, held : BOOLEAN]]
  /\ pc \in [Loaders -> Nat]
  /\ DOMAIN queried = Loaders
  /\ faults \in Nat

\* Init is under isVibrationPriorityReadyMutex_ until ready is set.
StartInv ==
  /\ watch # "off" => ready
  /\ Observing("proxy", "misc") # {} => ready \/ readyMutex # "none"
  /\ \A r, s \in Observing("proxy", "misc") : r = s

\* A loader that has still to ask for the account.
ToQuery == \E t \in Loaders : pc[t] \in 1 .. QueryStep

\* The account a loader stores, or the one that is stored, is the active one,
\* unless a loader has still to ask.
AccountInv ==
  /\ \A t \in Loaders : pc[t] = StoreStep <=> settingMutex = t
  /\ faults = 0 =>
       \/ switchEvent \/ ToQuery
       \/ settingMutex \in Loaders /\ queried[settingMutex] = active
       \/ settingMutex \notin Loaders /\ userId = active

\* The observer of g that the pointer is to observes the table that is read.
Observed(g) ==
  /\ observer[g].held
  /\ \E r \in Observing(userId, g) : r.number = observer[g].number

\* Unless it is observed, or its latest registration failed, a loader has still
\* to register an observer for g, or Init has not begun.
ObserversInv ==
  \A g \in groups \ ({"misc"} \cup unwatched) :
    \/ Observed(g)
    \/ \E t \in Loaders : pc[t] \in 1 .. RegisterStep(g)
    \/ ~ready /\ pc["kv"] = 0 /\ pc["share"] = 0

ObservedInv == Types /\ StartInv /\ AccountInv /\ ObserversInv

-------------------------------------------------------------------------------
(* The steps of a loader. *)

\* ReregisterCurrentUserObserver unregisters, asks for the account, stores it
\* and registers, each group in a step of its own.
LEMMA StepFacts ==
  ASSUME groups \subseteq Groups
  PROVE  /\ UserGroups \in 0 .. 3 /\ QueryStep = UserGroups + 1
         /\ StoreStep = QueryStep + 1 /\ LastStep = StoreStep + UserGroups
         /\ \A g \in groups \ {"misc"} :
              /\ UnregisterStep(g) \in 1 .. UserGroups
              /\ RegisterStep(g) \in StoreStep + 1 .. LastStep
              /\ \A h \in groups \ {"misc"} : RegisterStep(g) = RegisterStep(h) => g = h
<1>1. \A g : One(g) \in {0, 1} /\ (g \in groups => One(g) = 1) BY DEF One
<1>2. UserGroups \in 0 .. 3 BY <1>1 DEF UserGroups
<1>3. \A g \in groups \ {"misc"} : g \in {"disturb", "ring", "inputMethod"} BY DEF Groups
<1>4. /\ QueryStep = UserGroups + 1 /\ StoreStep = QueryStep + 1
      /\ LastStep = StoreStep + UserGroups
  BY DEF QueryStep, StoreStep, LastStep
<1>5. StoreStep \in Nat BY <1>2, <1>4
<1>6. ASSUME NEW g \in groups \ {"misc"}
      PROVE  /\ UnregisterStep(g) \in 1 .. UserGroups
             /\ RegisterStep(g) \in StoreStep + 1 .. LastStep
  <2>1. CASE g = "disturb"
    BY <1>1, <1>2, <1>4, <1>5, <2>1 DEF UnregisterStep, RegisterStep, UserGroups
  <2>2. CASE g = "ring"
    BY <1>1, <1>2, <1>4, <1>5, <2>2 DEF UnregisterStep, RegisterStep, UserGroups
  <2>3. CASE g = "inputMethod"
    BY <1>1, <1>2, <1>4, <1>5, <2>3 DEF UnregisterStep, RegisterStep, UserGroups
  <2> QED BY <1>3, <2>1, <2>2, <2>3
<1>7. ASSUME NEW g \in groups \ {"misc"}, NEW h \in groups \ {"misc"},
             RegisterStep(g) = RegisterStep(h)
      PROVE  g = h
  <2>1. "inputMethod" \in groups => RegisterStep("inputMethod") = StoreStep + 1
    BY DEF RegisterStep
  <2>2. "ring" \in groups => RegisterStep("ring") = StoreStep + One("inputMethod") + 1
    BY DEF RegisterStep
  <2>3. "disturb" \in groups =>
          RegisterStep("disturb") = StoreStep + (1 + One("ring") + One("inputMethod"))
    BY <1>1 DEF RegisterStep, UserGroups
  <2> QED BY <1>1, <1>3, <1>5, <1>7, <2>1, <2>2, <2>3
<1> QED BY <1>2, <1>4, <1>6, <1>7

\* A call to data share or the account manager that fails is counted.
LEMMA FaultsGrow ==
  ASSUME faults \in Nat, NEW answers \in BOOLEAN, DataShareAnswers(answers)
  PROVE  faults' \in Nat /\ (faults' = 0 => faults = 0)
BY DEF DataShareAnswers

-------------------------------------------------------------------------------
(* Steps that leave the observers and the accounts alone. *)

\* A step that changes no observer, no account and no lock of the loaders.
Bystander ==
  /\ UNCHANGED <<groups, active, userId, observer, registered, unwatched, startup,
                 switchEvent>>
  /\ faults' \in Nat /\ (faults' = 0 => faults = 0)
  /\ (watch' # "off" => watch # "off")

\* Such a step keeps the invariant.
LEMMA BystanderKeeps ==
  ASSUME ObservedInv, Bystander
  PROVE  ObservedInv'
<1> USE DEF Bystander, startup
<1>1. Types' BY DEF ObservedInv, Types
<1>2. StartInv' BY DEF ObservedInv, StartInv, Observing
<1>3. AccountInv'
  BY DEF ObservedInv, AccountInv, ToQuery, QueryStep, StoreStep, UserGroups, One
<1>4. ObserversInv'
  <2>1. \A g : RegisterStep(g)' = RegisterStep(g)
    BY DEF RegisterStep, StoreStep, QueryStep, UserGroups, One
  <2>2. \A g : Observed(g)' <=> Observed(g) BY DEF Observed, Observing
  <2> QED BY <2>1, <2>2 DEF ObservedInv, ObserversInv
<1> QED BY <1>1, <1>2, <1>3, <1>4 DEF ObservedInv

\* The updates of the copies, and what changes in the settings data and in the
\* mute parameter, are such steps.
LEMMA UpdatesStandBy ==
  ASSUME ObservedInv,
         \/ \E table \in Tables, k \in Keys : Change(table, k)
         \/ ChangeMute \/ ParameterCallback
         \/ \E a \in announced : NotifyObserver(a)
         \/ \E g \in groups : ExecRegisterCb(g) \/ UpdateStatus(g)
         \/ \E i \in DOMAIN updates :
              ReadSetting(i) \/ StoreSetting(i) \/ InitDoNotDisturbData(i)
  PROVE  Bystander
<1> USE DEF external, startup, watching, muting
<1>0. faults \in Nat BY DEF ObservedInv, Types
<1>r. ASSUME NEW u, NEW others, Read(u, others)
      PROVE  faults' \in Nat /\ (faults' = 0 => faults = 0)
  BY <1>0, <1>r, FaultsGrow DEF Read
<1>1. CASE \E table \in Tables, k \in Keys : Change(table, k)
  BY <1>0, <1>1 DEF Change, Bystander
<1>2. CASE ChangeMute \/ ParameterCallback
  BY <1>0, <1>2 DEF ChangeMute, ParameterCallback, Bystander
<1>3. CASE \E a \in announced : NotifyObserver(a)
  BY <1>r, <1>3 DEF NotifyObserver, BeginUpdate, Bystander
<1>4. CASE \E g \in groups : ExecRegisterCb(g) \/ UpdateStatus(g)
  BY <1>r, <1>4 DEF ExecRegisterCb, UpdateStatus, BeginUpdate, Bystander
<1>5. CASE \E i \in DOMAIN updates : ReadSetting(i)
  BY <1>r, <1>5 DEF ReadSetting, Bystander
<1>6. CASE \E i \in DOMAIN updates : StoreSetting(i) \/ InitDoNotDisturbData(i)
  BY <1>0, <1>6 DEF StoreSetting, InitDoNotDisturbData, Bystander
<1> QED BY <1>1, <1>2, <1>3, <1>4, <1>5, <1>6

-------------------------------------------------------------------------------
(* The steps of the loaders, and a switch to another user. *)

\* A new user makes the event due; the event makes a loader begin.
LEMMA SwitchKeeps ==
  ASSUME ObservedInv, SwitchUser \/ OnReceiveUserSwitchEvent
  PROVE  ObservedInv'
<1> USE DEF external, startup, watching, muting
<1>0. Types /\ StartInv /\ AccountInv /\ ObserversInv BY DEF ObservedInv
<1>s. UserGroups \in 0 .. 3 /\ QueryStep = UserGroups + 1 /\ StoreStep = QueryStep + 1
  BY <1>0, StepFacts DEF Types
<1>g. groups' = groups BY DEF SwitchUser, OnReceiveUserSwitchEvent
<1>c. /\ UNCHANGED <<UserGroups, QueryStep, StoreStep>>
      /\ \A g : RegisterStep(g)' = RegisterStep(g)
  BY <1>g DEF RegisterStep, StoreStep, QueryStep, UserGroups, One
<1>1. CASE SwitchUser
  <2>1. /\ UNCHANGED <<groups, userId, observer, registered, unwatched, ready, readyMutex,
                       settingMutex, pc, queried, watch, faults>>
        /\ switchEvent' = TRUE
    BY <1>1 DEF SwitchUser
  <2>2. Types' /\ StartInv' BY <1>0, <2>1 DEF Types, StartInv, Observing
  <2>3. AccountInv' BY <1>0, <1>c, <2>1 DEF AccountInv
  <2>4. ObserversInv' BY <1>0, <1>c, <2>1 DEF ObserversInv, Observed, Observing
  <2> QED BY <2>2, <2>3, <2>4 DEF ObservedInv
<1>2. CASE OnReceiveUserSwitchEvent
  <2>1. /\ UNCHANGED <<groups, userId, observer, registered, unwatched, ready, readyMutex,
                       settingMutex, queried, watch, faults, active>>
        /\ pc["switch"] = 0 /\ pc' = [pc EXCEPT !["switch"] = @ + 1]
    BY <1>2 DEF OnReceiveUserSwitchEvent, Advance
  <2>2. \A t \in Loaders : pc'[t] = IF t = "switch" THEN 1 ELSE pc[t]
    BY <1>0, <2>1 DEF Types, Loaders
  <2>3. Types' /\ StartInv'
    <3>1. pc' \in [Loaders -> Nat] BY <1>0, <2>1 DEF Types, Loaders
    <3> QED BY <1>0, <2>1, <3>1 DEF Types, StartInv, Observing
  <2>4. AccountInv'
    <3>1. ToQuery' BY <1>s, <1>c, <2>2 DEF ToQuery, Loaders
    <3>2. \A t \in Loaders : pc'[t] = StoreStep <=> settingMutex = t
      BY <1>0, <1>s, <2>1, <2>2 DEF AccountInv
    <3> QED BY <1>c, <2>1, <3>1, <3>2 DEF AccountInv
  <2>5. ObserversInv'
    <3>1. \A g, t : t \in Loaders /\ pc[t] \in 1 .. RegisterStep(g) => pc'[t] = pc[t]
      BY <2>1, <2>2
    <3>2. \A g : Observed(g)' <=> Observed(g) BY <2>1 DEF Observed, Observing
    <3> QED BY <1>0, <1>c, <2>1, <2>2, <3>1, <3>2 DEF ObserversInv, Loaders
  <2> QED BY <2>3, <2>4, <2>5 DEF ObservedInv
<1> QED BY <1>1, <1>2

\* An observer that is unregistered is to be registered by the same loader.
LEMMA UnregisterKeeps ==
  ASSUME ObservedInv, NEW t \in Loaders, NEW h \in {"disturb", "ring", "inputMethod"},
         Unregister(t, h)
  PROVE  ObservedInv'
<1> USE DEF external, startup, watching, muting
<1>0. Types /\ StartInv /\ AccountInv /\ ObserversInv BY DEF ObservedInv
<1>s. /\ UserGroups \in 0 .. 3 /\ QueryStep = UserGroups + 1 /\ StoreStep = QueryStep + 1
      /\ h \in groups /\ pc[t] \in 1 .. UserGroups
      /\ \A g \in groups \ {"misc"} : RegisterStep(g) \in StoreStep + 1 .. LastStep
  BY <1>0, StepFacts DEF Types, Unregister, ToUnregister
<1>1. /\ UNCHANGED <<groups, userId, unwatched, ready, readyMutex, active, switchEvent,
                     settingMutex, queried, watch>>
      /\ pc' = [pc EXCEPT ![t] = @ + 1]
      /\ observer' \in {observer, [observer EXCEPT ![h].held = FALSE]}
      /\ registered' \subseteq registered
      /\ \A r \in registered : r.group # h => r \in registered'
  BY DEF Unregister, Advance, Observing
<1>2. faults' \in Nat /\ (faults' = 0 => faults = 0)
  BY <1>0, FaultsGrow DEF Unregister, Types
<1>c. /\ UNCHANGED <<UserGroups, QueryStep, StoreStep>>
      /\ \A g : RegisterStep(g)' = RegisterStep(g)
  BY <1>1 DEF RegisterStep, StoreStep, QueryStep, UserGroups, One
<1>3. \A u \in Loaders : pc'[u] = IF u = t THEN pc[t] + 1 ELSE pc[u]
  BY <1>0, <1>1 DEF Types
<1>4. Types'
  <2>1. h \in Groups BY DEF Groups
  <2>2. observer' \in [Groups -> [number : Nat, held : BOOLEAN]]
    <3>1. CASE observer' = observer BY <1>0, <3>1 DEF Types
    <3>2. CASE observer' = [observer EXCEPT ![h].held = FALSE]
      <4>1. [observer[h] EXCEPT !.held = FALSE] \in [number : Nat, held : BOOLEAN]
        BY <1>0, <2>1 DEF Types
      <4> QED BY <1>0, <2>1, <3>2, <4>1 DEF Types
    <3> QED BY <1>1, <3>1, <3>2
  <2>3. pc' \in [Loaders -> Nat] BY <1>0, <1>1 DEF Types
  <2> QED BY <1>0, <1>1, <1>2, <2>2, <2>3 DEF Types
<1>5. StartInv' BY <1>0, <1>1 DEF StartInv, Observing
<1>6. AccountInv'
  <2>1. ToQuery' BY <1>c, <1>s, <1>3 DEF ToQuery
  <2>2. \A u \in Loaders : pc'[u] = StoreStep <=> settingMutex = u
    BY <1>0, <1>s, <1>3 DEF AccountInv
  <2> QED BY <1>c, <1>1, <2>1, <2>2 DEF AccountInv
<1>7. ObserversInv'
  <2> SUFFICES ASSUME NEW g \in groups \ ({"misc"} \cup unwatched)
               PROVE  \E u \in Loaders : pc'[u] \in 1 .. RegisterStep(g)
    BY <1>c, <1>1 DEF ObserversInv
  <2>1. pc'[t] = pc[t] + 1 /\ pc'[t] <= StoreStep BY <1>s, <1>3
  <2> QED BY <1>s, <2>1
<1> QED BY <1>4, <1>5, <1>6, <1>7 DEF ObservedInv

\* The account is asked for and stored under g_settingMutex.
LEMMA AccountKeeps ==
  ASSUME ObservedInv, NEW t \in Loaders, QueryUserId(t) \/ StoreUserId(t)
  PROVE  ObservedInv'
<1> USE DEF external, startup, watching, muting
<1>0. Types /\ StartInv /\ AccountInv /\ ObserversInv BY DEF ObservedInv
<1>s. /\ UserGroups \in 0 .. 3 /\ QueryStep = UserGroups + 1 /\ StoreStep = QueryStep + 1
      /\ \A g \in groups \ {"misc"} : RegisterStep(g) \in StoreStep + 1 .. LastStep
  BY <1>0, StepFacts DEF Types
<1>n. "none" \notin Loaders BY DEF Loaders
<1>1. /\ UNCHANGED <<groups, observer, registered, unwatched, ready, readyMutex, active,
                     switchEvent, watch>>
      /\ pc[t] \in {QueryStep, StoreStep}
      /\ pc' \in {[pc EXCEPT ![t] = @ + 1], [pc EXCEPT ![t] = StoreStep + 1]}
  BY DEF QueryUserId, StoreUserId, Advance
<1>c. /\ UNCHANGED <<UserGroups, QueryStep, StoreStep>>
      /\ \A g : RegisterStep(g)' = RegisterStep(g)
  BY <1>1 DEF RegisterStep, StoreStep, QueryStep, UserGroups, One
<1>2. \A u \in Loaders : u # t => pc'[u] = pc[u] BY <1>0, <1>1 DEF Types
<1>3. pc'[t] \in 1 .. StoreStep + 1 BY <1>0, <1>s, <1>1 DEF Types
<1>4. faults' \in Nat /\ (faults' = 0 => faults = 0)
  BY <1>0 DEF QueryUserId, StoreUserId, Types
<1>5. Types'
  <2>1. pc' \in [Loaders -> Nat] BY <1>0, <1>s, <1>1 DEF Types
  <2>2. DOMAIN queried' = Loaders BY <1>0 DEF QueryUserId, StoreUserId, Types
  <2> QED BY <1>0, <1>1, <1>4, <2>1, <2>2 DEF Types
<1>6. StartInv' BY <1>0, <1>1 DEF StartInv, Observing
<1>7. ObserversInv'
  <2> SUFFICES ASSUME NEW g \in groups \ ({"misc"} \cup unwatched)
               PROVE  \E u \in Loaders : pc'[u] \in 1 .. RegisterStep(g)
    BY <1>c, <1>1 DEF ObserversInv
  <2> QED BY <1>s, <1>3
<1>8. CASE QueryUserId(t) /\ faults' = faults
  <2>1. /\ pc[t] = QueryStep /\ settingMutex = "none" /\ userId' = userId
        /\ queried' = [queried EXCEPT ![t] = active] /\ settingMutex' = t
        /\ pc' = [pc EXCEPT ![t] = @ + 1]
    BY <1>0, <1>8 DEF QueryUserId, Advance, Types
  <2>2. pc'[t] = StoreStep BY <1>0, <1>s, <2>1 DEF Types
  <2>3. \A u \in Loaders : pc'[u] = StoreStep <=> settingMutex' = u
    BY <1>0, <1>2, <1>n, <2>1, <2>2 DEF AccountInv
  <2>4. queried'[settingMutex'] = active' BY <1>0, <1>1, <2>1 DEF Types
  <2> QED BY <1>c, <1>5, <1>6, <1>7, <2>1, <2>3, <2>4 DEF AccountInv, ObservedInv
<1>9. CASE QueryUserId(t) /\ faults' # faults
  <2>1. /\ settingMutex = "none" /\ settingMutex' = "none" /\ faults' # 0
        /\ pc' = [pc EXCEPT ![t] = StoreStep + 1]
    BY <1>0, <1>9 DEF QueryUserId, Types
  <2>2. pc'[t] # StoreStep BY <1>0, <1>s, <2>1 DEF Types
  <2>3. \A u \in Loaders : pc'[u] = StoreStep <=> settingMutex' = u
    BY <1>0, <1>2, <1>n, <2>1, <2>2 DEF AccountInv
  <2> QED BY <1>c, <1>5, <1>6, <1>7, <2>1, <2>3 DEF AccountInv, ObservedInv
<1>10. CASE StoreUserId(t)
  <2>1. /\ pc[t] = StoreStep /\ userId' = queried[t] /\ settingMutex' = "none"
        /\ pc' = [pc EXCEPT ![t] = @ + 1] /\ faults' = faults
    BY <1>10 DEF StoreUserId, Advance
  <2>2. settingMutex = t BY <1>0, <2>1 DEF AccountInv
  <2>3. pc'[t] = StoreStep + 1 BY <1>0, <2>1 DEF Types
  <2>4. \A u \in Loaders : pc'[u] = StoreStep <=> settingMutex' = u
    BY <1>0, <1>2, <1>s, <1>n, <2>1, <2>2, <2>3 DEF AccountInv
  <2>5. ToQuery => ToQuery' BY <1>c, <1>s, <1>2, <2>1 DEF ToQuery
  <2>6. faults' = 0 => switchEvent' \/ ToQuery' \/ userId' = active'
    BY <1>0, <1>1, <2>1, <2>2, <2>5 DEF AccountInv
  <2> QED BY <1>c, <1>n, <1>5, <1>6, <1>7, <2>1, <2>4, <2>6 DEF AccountInv, ObservedInv
<1> QED BY <1>8, <1>9, <1>10

\* A registration that succeeds is for the account stored, and under the number
\* of the observer the pointer is to.
LEMMA RegisterKeeps ==
  ASSUME ObservedInv, NEW t \in Loaders, NEW h \in {"disturb", "ring", "inputMethod"},
         Register(t, h)
  PROVE  ObservedInv'
<1> USE DEF external, startup, watching, muting
<1>0. Types /\ StartInv /\ AccountInv /\ ObserversInv BY DEF ObservedInv
<1>s. /\ UserGroups \in 0 .. 3 /\ QueryStep = UserGroups + 1 /\ StoreStep = QueryStep + 1
      /\ h \in groups /\ pc[t] = RegisterStep(h)
      /\ \A g \in groups \ {"misc"} : /\ RegisterStep(g) \in StoreStep + 1 .. LastStep
                                      /\ RegisterStep(g) = RegisterStep(h) => g = h
  BY <1>0, StepFacts DEF Types, Register, ToRegister
<1> DEFINE n   == observer[h].number + 1
           new == [table |-> userId, group |-> h, number |-> n]
<1>1. /\ UNCHANGED <<groups, userId, ready, readyMutex, active, switchEvent, settingMutex,
                     queried, watch>>
      /\ pc' = [pc EXCEPT ![t] = @ + 1]
      /\ observer' = [observer EXCEPT ![h] = [number |-> n, held |-> TRUE]]
      /\ \/ registered' = registered \cup {new} /\ unwatched' = unwatched \ {h}
         \/ registered' = registered /\ unwatched' = unwatched \cup {h}
  BY DEF Register, RegisterAt, Advance
<1>2. faults' \in Nat /\ (faults' = 0 => faults = 0)
  BY <1>0, FaultsGrow DEF Register, Types
<1>c. /\ UNCHANGED <<UserGroups, QueryStep, StoreStep>>
      /\ \A g : RegisterStep(g)' = RegisterStep(g)
  BY <1>1 DEF RegisterStep, StoreStep, QueryStep, UserGroups, One
<1>3. \A u \in Loaders : pc'[u] = IF u = t THEN RegisterStep(h) + 1 ELSE pc[u]
  BY <1>0, <1>s, <1>1 DEF Types
<1>h. h \in Groups /\ observer[h].number \in Nat BY <1>0 DEF Groups, Types
<1>4. Types' BY <1>0, <1>1, <1>2, <1>h DEF Types
<1>5. StartInv'
  <2>1. Observing("proxy", "misc")' = Observing("proxy", "misc")
    BY <1>1 DEF Observing
  <2> QED BY <1>0, <1>1, <2>1 DEF StartInv
<1>6. AccountInv'
  <2>1. ToQuery => ToQuery' BY <1>c, <1>s, <1>3 DEF ToQuery
  <2>2. \A u \in Loaders : pc'[u] = StoreStep <=> settingMutex = u
    BY <1>0, <1>s, <1>3 DEF AccountInv
  <2> QED BY <1>0, <1>c, <1>1, <1>2, <2>1, <2>2 DEF AccountInv
<1>7. ObserversInv'
  <2> SUFFICES ASSUME NEW g \in groups \ ({"misc"} \cup unwatched')
               PROVE  \/ Observed(g)'
                      \/ \E u \in Loaders : pc'[u] \in 1 .. RegisterStep(g)
                      \/ ~ready /\ pc'["kv"] = 0 /\ pc'["share"] = 0
    BY <1>c, <1>1 DEF ObserversInv
  <2>1. CASE g = h
    <3>1. new \in registered' BY <1>1, <2>1
    <3>2. observer'[g] = [number |-> n, held |-> TRUE]
      BY <1>0, <1>1, <1>h, <2>1 DEF Types
    <3>3. new \in Observing(userId, g)' BY <1>1, <2>1, <3>1 DEF Observing
    <3> QED BY <3>2, <3>3 DEF Observed
  <2>2. CASE g # h
    <3>1. g \notin unwatched BY <1>1, <2>2
    <3>2. Observed(g) => Observed(g)'
      BY <1>0, <1>1, <2>2 DEF Observed, Observing, Types
    <3>3. ASSUME NEW u \in Loaders, pc[u] \in 1 .. RegisterStep(g)
          PROVE  pc'[u] \in 1 .. RegisterStep(g)
      <4>1. u = t => RegisterStep(h) # RegisterStep(g) BY <1>s, <2>2
      <4> QED BY <1>s, <1>3, <3>3, <4>1
    <3>4. pc["kv"] = 0 /\ pc["share"] = 0 => pc'["kv"] = 0 /\ pc'["share"] = 0
      <4>1. pc[t] # 0 BY <1>s
      <4> QED BY <1>3, <4>1 DEF Loaders
    <3> QED BY <1>0, <3>1, <3>2, <3>3, <3>4 DEF ObserversInv
  <2> QED BY <2>1, <2>2
<1> QED BY <1>4, <1>5, <1>6, <1>7 DEF ObservedInv

\* Init begins once, for whichever of its callers comes first.
LEMMA InitBeginKeeps ==
  ASSUME ObservedInv, NEW t \in {"kv", "share"}, InitBegin(t)
  PROVE  ObservedInv'
<1> USE DEF external, startup, watching, muting
<1>0. Types /\ StartInv /\ AccountInv /\ ObserversInv BY DEF ObservedInv
<1>s. /\ UserGroups \in 0 .. 3 /\ QueryStep = UserGroups + 1 /\ StoreStep = QueryStep + 1
      /\ \A g \in groups \ {"misc"} : RegisterStep(g) \in StoreStep + 1 .. LastStep
  BY <1>0, StepFacts DEF Types
<1>l. t \in Loaders BY DEF Loaders
<1>1. /\ UNCHANGED <<groups, userId, ready, active, switchEvent, settingMutex, unwatched,
                     queried, watch>>
      /\ pc[t] = 0 /\ ~ready /\ readyMutex = "none"
  BY DEF InitBegin
<1>c. /\ UNCHANGED <<UserGroups, QueryStep, StoreStep>>
      /\ \A g : RegisterStep(g)' = RegisterStep(g)
  BY <1>1 DEF RegisterStep, StoreStep, QueryStep, UserGroups, One
<1>2. CASE UNCHANGED <<observer, registered, readyMutex, pc>> /\ faults' = faults + 1
  <2>1. Bystander BY <1>0, <1>1, <1>2 DEF Bystander, Types
  <2> QED BY <2>1, BystanderKeeps
<1>3. CASE /\ readyMutex' = t /\ pc' = [pc EXCEPT ![t] = @ + 1] /\ faults' = faults
           /\ \/ UNCHANGED <<observer, registered>>
              \/ /\ observer' = [observer EXCEPT !["misc"].number = @ + 1]
                 /\ registered' = registered \cup
                      {[table |-> "proxy", group |-> "misc",
                        number |-> observer["misc"].number + 1]}
  <2> DEFINE new == [table |-> "proxy", group |-> "misc",
                     number |-> observer["misc"].number + 1]
  <2>1. \A u \in Loaders : pc'[u] = IF u = t THEN 1 ELSE pc[u]
    BY <1>0, <1>l, <1>1, <1>3 DEF Types
  <2>2. Types'
    <3>1. "misc" \in Groups BY DEF Groups
    <3> QED BY <1>0, <1>l, <1>1, <1>3, <3>1 DEF Types
  <2>3. StartInv'
    <3>1. Observing("proxy", "misc") = {} BY <1>0, <1>1 DEF StartInv
    <3>2. \A r \in Observing("proxy", "misc")' : r = new BY <1>3, <3>1 DEF Observing
    <3>3. readyMutex' # "none" BY <1>3
    <3> QED BY <1>0, <1>1, <3>2, <3>3 DEF StartInv
  <2>4. AccountInv'
    <3>1. ToQuery' BY <1>c, <1>s, <1>l, <2>1 DEF ToQuery
    <3>2. \A u \in Loaders : pc'[u] = StoreStep <=> settingMutex = u
      BY <1>0, <1>l, <1>s, <1>1, <2>1 DEF AccountInv
    <3> QED BY <1>c, <1>1, <3>1, <3>2 DEF AccountInv
  <2>5. ObserversInv'
    <3> SUFFICES ASSUME NEW g \in groups \ ({"misc"} \cup unwatched)
                 PROVE  \E u \in Loaders : pc'[u] \in 1 .. RegisterStep(g)
      BY <1>c, <1>1 DEF ObserversInv
    <3> QED BY <1>l, <1>s, <2>1
  <2> QED BY <2>2, <2>3, <2>4, <2>5 DEF ObservedInv
<1> QED BY <1>2, <1>3 DEF InitBegin, Advance, RegisterAt

\* A loader that ends has registered for every group.
LEMMA InitEndKeeps ==
  ASSUME ObservedInv, NEW t \in Loaders, InitEnd(t)
  PROVE  ObservedInv'
<1> USE DEF external, startup, watching, muting
<1>0. Types /\ StartInv /\ AccountInv /\ ObserversInv BY DEF ObservedInv
<1>s. /\ UserGroups \in 0 .. 3 /\ QueryStep = UserGroups + 1 /\ StoreStep = QueryStep + 1
      /\ LastStep = StoreStep + UserGroups
      /\ \A g \in groups \ {"misc"} : RegisterStep(g) \in StoreStep + 1 .. LastStep
  BY <1>0, StepFacts DEF Types
<1>1. /\ UNCHANGED <<groups, userId, active, switchEvent, settingMutex, unwatched, observer,
                     registered, queried, faults>>
      /\ pc[t] = LastStep + 1 /\ pc' = [pc EXCEPT ![t] = 0]
      /\ \/ t = "switch" /\ UNCHANGED <<ready, readyMutex, watch>>
         \/ ready' = TRUE /\ t \in {"kv", "share"}
  BY DEF InitEnd
<1>c. /\ UNCHANGED <<UserGroups, QueryStep, StoreStep>>
      /\ \A g : RegisterStep(g)' = RegisterStep(g)
  BY <1>1 DEF RegisterStep, StoreStep, QueryStep, UserGroups, One
<1>2. \A u \in Loaders : pc'[u] = IF u = t THEN 0 ELSE pc[u] BY <1>0, <1>1 DEF Types
<1>3. Types' BY <1>0, <1>1 DEF Types
<1>4. StartInv'
  <2>1. Observing("proxy", "misc")' = Observing("proxy", "misc") BY <1>1 DEF Observing
  <2> QED BY <1>0, <1>1, <2>1 DEF StartInv
<1>5. AccountInv'
  <2>1. ToQuery => ToQuery' BY <1>c, <1>s, <1>1, <1>2 DEF ToQuery
  <2>2. \A u \in Loaders : pc'[u] = StoreStep <=> settingMutex = u
    BY <1>0, <1>s, <1>1, <1>2 DEF AccountInv
  <2> QED BY <1>0, <1>c, <1>1, <2>1, <2>2 DEF AccountInv
<1>6. ObserversInv'
  <2> SUFFICES ASSUME NEW g \in groups \ ({"misc"} \cup unwatched)
               PROVE  \/ Observed(g)'
                      \/ \E u \in Loaders : pc'[u] \in 1 .. RegisterStep(g)
                      \/ ~ready' /\ pc'["kv"] = 0 /\ pc'["share"] = 0
    BY <1>c, <1>1 DEF ObserversInv
  <2>1. Observed(g) => Observed(g)' BY <1>1 DEF Observed, Observing
  <2>2. \A u \in Loaders : pc[u] \in 1 .. RegisterStep(g) => pc'[u] = pc[u]
    BY <1>s, <1>1, <1>2
  <2>3. ~ready /\ pc["kv"] = 0 /\ pc["share"] = 0 =>
          ~ready' /\ pc'["kv"] = 0 /\ pc'["share"] = 0
    BY <1>s, <1>1, <1>2 DEF Loaders
  <2> QED BY <1>0, <2>1, <2>2, <2>3 DEF ObserversInv
<1> QED BY <1>3, <1>4, <1>5, <1>6 DEF ObservedInv

\* RegisterDeviceMuteObserver, by OnReceiveEvent or by the first decision, has the
\* mutex of a manager that is ready.
LEMMA WatchKeeps ==
  ASSUME ObservedInv, ShouldIgnoreVibrate \/ WatchParameter
  PROVE  ObservedInv'
<1> USE DEF external, startup, watching, muting, copies
<1>1. /\ UNCHANGED <<groups, userId, active, switchEvent, settingMutex, unwatched, observer,
                     registered, queried, pc, ready>>
      /\ faults' \in Nat /\ (faults' = 0 => faults = 0)
  BY DEF ShouldIgnoreVibrate, WatchParameter, ObservedInv, Types
<1>2. ready BY DEF ObservedInv, StartInv, ShouldIgnoreVibrate, WatchParameter
<1>3. StartInv' BY <1>1, <1>2 DEF ObservedInv, StartInv, Observing
<1>4. Types' BY <1>1 DEF ObservedInv, Types
<1>5. AccountInv'
  BY <1>1 DEF ObservedInv, AccountInv, ToQuery, QueryStep, StoreStep, UserGroups, One
<1>6. ObserversInv'
  <2>1. \A g : RegisterStep(g)' = RegisterStep(g)
    BY <1>1 DEF RegisterStep, StoreStep, QueryStep, UserGroups, One
  <2>2. \A g : Observed(g)' <=> Observed(g) BY <1>1 DEF Observed, Observing
  <2> QED BY <1>1, <2>1, <2>2 DEF ObservedInv, ObserversInv
<1> QED BY <1>3, <1>4, <1>5, <1>6 DEF ObservedInv

-------------------------------------------------------------------------------
(* The theorems. *)

\* ObservedInv holds in every state, whatever the users, the builds and the
\* settings that change.
THEOREM ObserversStayRight == Spec => []ObservedInv
<1>1. Init => ObservedInv
  <2> SUFFICES ASSUME Init PROVE ObservedInv OBVIOUS
  <2>1. Types BY SettingsAssumption DEF Init, Types
  <2>2. StartInv BY DEF Init, StartInv, Observing
  <2>3. AccountInv
    <3>1. StoreStep # 0 BY <2>1, StepFacts DEF Types
    <3> QED BY <3>1 DEF Init, AccountInv, Loaders
  <2>4. ObserversInv BY DEF Init, ObserversInv, Loaders
  <2> QED BY <2>1, <2>2, <2>3, <2>4 DEF ObservedInv
<1>2. ObservedInv /\ [Next]_vars => ObservedInv'
  <2> SUFFICES ASSUME ObservedInv, [Next]_vars PROVE ObservedInv' OBVIOUS
  <2>1. ASSUME NEW t \in Loaders,
               \/ UnregisterUserObserver(t) \/ UnregisterUser100Observer(t)
               \/ UnregisterUserImfObserver(t)
        PROVE  ObservedInv'
    BY <2>1, UnregisterKeeps DEF UnregisterUserObserver, UnregisterUser100Observer,
      UnregisterUserImfObserver
  <2>2. ASSUME NEW t \in Loaders,
               \/ RegisterUserImfObserver(t) \/ RegisterUser100Observer(t)
               \/ RegisterUserObserver(t)
        PROVE  ObservedInv'
    BY <2>2, RegisterKeeps DEF RegisterUserObserver, RegisterUser100Observer,
      RegisterUserImfObserver
  <2>3. ASSUME NEW t \in Loaders, QueryUserId(t) \/ StoreUserId(t) \/ InitEnd(t)
        PROVE  ObservedInv'
    BY <2>3, AccountKeeps, InitEndKeeps
  <2>4. CASE OnAddSystemAbility \/ OnReceiveEvent
    BY <2>4, InitBeginKeeps DEF OnAddSystemAbility, OnReceiveEvent
  <2>5. CASE SwitchUser \/ OnReceiveUserSwitchEvent \/ ShouldIgnoreVibrate \/ WatchParameter
    BY <2>5, SwitchKeeps, WatchKeeps
  <2>6. CASE \/ \E table \in Tables, k \in Keys : Change(table, k)
             \/ ChangeMute \/ ParameterCallback
             \/ \E a \in announced : NotifyObserver(a)
             \/ \E g \in groups : ExecRegisterCb(g) \/ UpdateStatus(g)
             \/ \E i \in DOMAIN updates :
                  ReadSetting(i) \/ StoreSetting(i) \/ InitDoNotDisturbData(i)
    BY <2>6, UpdatesStandBy, BystanderKeeps
  <2>7. CASE UNCHANGED vars
    <3>1. Bystander
      BY <2>7 DEF vars, external, copies, watching, startup, muting, Bystander, ObservedInv,
        Types
    <3> QED BY <3>1, BystanderKeeps
  <2> QED BY <2>1, <2>2, <2>3, <2>4, <2>5, <2>6, <2>7 DEF Next
<1> QED BY <1>1, <1>2, PTL DEF Spec

\* However the threads that start the manager and the one that follows a switch
\* of the user alternate: the settings of all users have one observer, the
\* account is the active one once they are done, and each pointer is to the
\* observer of that user's table.
THEOREM EverySettingIsObserved == Spec => []SettingsAreObserved
<1>1. ObservedInv => SettingsAreObserved
  <2> SUFFICES ASSUME ObservedInv PROVE SettingsAreObserved OBVIOUS
  <2>0. Types /\ StartInv /\ AccountInv /\ ObserversInv BY DEF ObservedInv
  <2>s. StoreStep \in Nat \ {0} BY <2>0, StepFacts DEF Types
  <2>1. \A r, s \in Observing("proxy", "misc") : r = s BY <2>0 DEF StartInv
  <2>2. ASSUME LoadersIdle, faults = 0 PROVE userId = active
    <3>1. \A t \in Loaders : pc[t] = 0 /\ ~switchEvent BY <2>2 DEF LoadersIdle
    <3>2. ~ToQuery BY <3>1 DEF ToQuery
    <3>3. settingMutex \notin Loaders BY <2>0, <2>s, <3>1 DEF AccountInv
    <3> QED BY <2>0, <2>2, <3>1, <3>2, <3>3 DEF AccountInv, Loaders
  <2>3. ASSUME LoadersIdle, ready, NEW g \in groups \ ({"misc"} \cup unwatched)
        PROVE  Observed(g)
    <3>1. \A t \in Loaders : pc[t] = 0 BY <2>3 DEF LoadersIdle
    <3> QED BY <2>0, <2>3, <3>1 DEF ObserversInv
  <2> QED BY <2>1, <2>2, <2>3 DEF SettingsAreObserved, Observed
<1> QED BY <1>1, ObserversStayRight, PTL

-------------------------------------------------------------------------------
(***************************************************************************)
(* The copies follow the settings data.  A group whose settings have       *)
(* changed, or whose table is another one, is going to be read again       *)
(* (Coming).  Otherwise, of the updates that are to store a setting, the   *)
(* one that has read it last has read what is there now; and if there is   *)
(* none the copy is right (FollowInv).                                     *)
(***************************************************************************)

\* Init has not begun.
Fresh == ~ready /\ pc["kv"] = 0 /\ pc["share"] = 0

\* The settings of all users are observed from the beginning of Init.
MiscInv == "misc" \in groups => Observing("proxy", "misc") # {} \/ Fresh

\* Once the mute parameter was read its copy is right until a callback is due,
\* unless a change was missed.
MuteInv == watch \in {"reading", "on", "failed"} /\ ~muteMissed => isVibratorMute = mute

\* The settings of g are going to be read, unless no observer of them could be
\* registered.
Coming(g) ==
  \/ g \in unwatched \/ spawned[g] > 0 \/ \E a \in announced : a.group = g
  \/ g # "misc" /\ \E t \in Loaders : pc[t] \in 1 .. RegisterStep(g)
  \/ Fresh

\* The place of a setting in its group.
Place(k) == IF k \in {"ringer", "whiteList"} THEN 2 ELSE 1

\* Update u has read k and is to store it.
Stores(u, k) == u.step = "store" /\ u.group = GroupOf[k] /\ u.at = Place(k)

\* Update u has still to read k, or to look whether it need be read.
StillToRead(u, k) ==
  /\ u.group = GroupOf[k] /\ Place(k) = 2
  /\ \/ u.step # "store"
     \/ u.at = 1 /\ (u.by = ByDecision => u.group = "disturb")

\* Update u holds whiteListMutex_.
Holds(u) == u.group = "disturb" /\ u.at = 2 /\ u.step # "lock"

DataInv ==
  /\ data \in [Tables -> Settings] /\ active \in Users /\ userId \in Users
  /\ queried \in [Loaders -> Users]
  /\ cache \in [Keys -> {INVALID, OFF, ON}]
  /\ spawned \in [Groups -> Nat]
  /\ \A r \in registered \cup announced : r.group \in Groups /\ r.number \in Nat

\* Where the updates in s are, with whiteListMutex_ taken or not; and whoever holds
\* it has seen the switch on, unless an update that has changed it since waits
\* for the mutex.
Placed(u, taken) ==
  /\ u.at = 2 => u.group \in {"misc", "disturb"}
  /\ u.step = "lock" => u.group = "disturb"
  /\ u.step # "store" => u.at = 2
  /\ Holds(u) => taken

InPlace(s, taken, on) ==
  /\ s \in Seq(Update)
  /\ \A i \in DOMAIN s : Placed(s[i], taken)
  /\ \A i, j \in DOMAIN s : Holds(s[i]) /\ Holds(s[j]) => i = j
  /\ (\E i \in DOMAIN s : Holds(s[i])) => on \/ \E j \in DOMAIN s : s[j].step = "lock"

UpdatesInv == InPlace(updates, whiteListMutex, cache["switch"] = ON)

Current(k) == data[TableOf(GroupOf[k])][k]

\* Of the updates in s that are to store k the last one is to store v.
Latest(s, k, v) ==
  \A i \in DOMAIN s :
    Stores(s[i], k) /\ s[i].sound /\ (\A j \in DOMAIN s : Stores(s[j], k) => j <= i)
      => s[i].value = v

\* The copy of k is right, or it was not read in order.
Kept(k) ==
  IF k # "whiteList"
  THEN k \in doubtful \/ cache[k] = Current(k)
  ELSE /\ cache["switch"] = ON /\ "switch" \notin doubtful /\ k \notin doubtful
            => cache[k] = Current(k)
       /\ cache["switch"] = OFF /\ "switch" \notin doubtful => cache[k] = OFF

\* With the updates in s, k is or becomes v; kept says whether it is already.
BecomesRight(s, k, v, kept) ==
  \/ \E i \in DOMAIN s : StillToRead(s[i], k)
  \/ Latest(s, k, v) /\ ((\A i \in DOMAIN s : ~Stores(s[i], k)) => kept)

Follows(k) == BecomesRight(updates, k, Current(k), Kept(k))

FollowInv ==
  \A k \in Keys : GroupOf[k] \in groups /\ ~Coming(GroupOf[k]) => Follows(k)

CopiesInv == DataInv /\ MiscInv /\ MuteInv /\ UpdatesInv /\ FollowInv

-------------------------------------------------------------------------------
(* The updates as a sequence. *)

\* What is left of a sequence without its i-th element.
LEMMA RemoveFacts ==
  ASSUME NEW S, NEW s \in Seq(S), NEW i \in DOMAIN s
  PROVE  /\ RemoveAt(s, i) \in Seq(S) /\ DOMAIN RemoveAt(s, i) = 1 .. Len(s) - 1
         /\ \A j \in 1 .. Len(s) - 1 :
              RemoveAt(s, i)[j] = s[IF j < i THEN j ELSE j + 1]
<1>1. i \in 1 .. Len(s) /\ Len(s) \in Nat OBVIOUS
<1>2. /\ SubSeq(s, 1, i - 1) \in Seq(S) /\ Len(SubSeq(s, 1, i - 1)) = i - 1
      /\ \A j \in 1 .. i - 1 : SubSeq(s, 1, i - 1)[j] = s[j]
  BY <1>1
<1>3. /\ SubSeq(s, i + 1, Len(s)) \in Seq(S) /\ Len(SubSeq(s, i + 1, Len(s))) = Len(s) - i
      /\ \A j \in 1 .. Len(s) - i : SubSeq(s, i + 1, Len(s))[j] = s[i + j]
  BY <1>1
<1> DEFINE a == SubSeq(s, 1, i - 1)
           b == SubSeq(s, i + 1, Len(s))
<1> HIDE DEF a, b
<1>4. /\ a \in Seq(S) /\ Len(a) = i - 1 /\ \A j \in 1 .. i - 1 : a[j] = s[j]
      /\ b \in Seq(S) /\ Len(b) = Len(s) - i /\ \A j \in 1 .. Len(s) - i : b[j] = s[i + j]
  BY <1>2, <1>3 DEF a, b
<1> DEFINE c == a \o b
<1>5. a \in Seq(S) /\ b \in Seq(S) BY <1>4
<1>6. /\ c \in Seq(S) /\ Len(c) = Len(a) + Len(b)
      /\ \A j \in 1 .. Len(a) + Len(b) : c[j] = IF j <= Len(a) THEN a[j] ELSE b[j - Len(a)]
  BY <1>5, ConcatProperties, Zenon
<1> HIDE DEF c
<1>7. c \in Seq(S) /\ Len(c) = Len(s) - 1 BY <1>1, <1>4, <1>6
<1>8. ASSUME NEW j \in 1 .. Len(s) - 1
      PROVE  c[j] = s[IF j < i THEN j ELSE j + 1]
  <2>1. CASE j < i BY <1>1, <1>4, <1>6, <2>1
  <2>2. CASE j >= i
    <3>1. c[j] = b[j - (i - 1)] BY <1>1, <1>4, <1>6, <2>2
    <3>2. j - (i - 1) \in 1 .. Len(s) - i /\ i + (j - (i - 1)) = j + 1 BY <1>1, <2>2
    <3>3. b[j - (i - 1)] = s[j + 1] BY <1>4, <3>2
    <3> QED BY <1>1, <2>2, <3>1, <3>3
  <2>3. j \in Int /\ i \in Int BY <1>1
  <2> QED BY <2>1, <2>2, <2>3
<1>9. RemoveAt(s, i) = c BY DEF RemoveAt, a, b, c
<1> QED BY <1>1, <1>7, <1>8, <1>9

\* The others stay, in their order.
LEMMA OthersStay ==
  ASSUME NEW S, NEW s \in Seq(S), NEW i \in DOMAIN s, NEW r, r = RemoveAt(s, i)
  PROVE  \E from \in [DOMAIN r -> DOMAIN s \ {i}] :
           /\ \A j \in DOMAIN r : r[j] = s[from[j]]
           /\ \A n \in DOMAIN s \ {i} : \E j \in DOMAIN r : from[j] = n
           /\ \A j, l \in DOMAIN r : j <= l <=> from[j] <= from[l]
<1> DEFINE from == [j \in 1 .. Len(s) - 1 |-> IF j < i THEN j ELSE j + 1]
<1>1. /\ Len(s) \in Nat /\ DOMAIN s = 1 .. Len(s) /\ i \in 1 .. Len(s)
      /\ DOMAIN r = 1 .. Len(s) - 1
  BY RemoveFacts
<1>2. from \in [DOMAIN r -> DOMAIN s \ {i}] BY <1>1
<1>3. \A j \in DOMAIN r : r[j] = s[from[j]] BY <1>1, RemoveFacts
<1>4. ASSUME NEW n \in DOMAIN s \ {i} PROVE \E j \in DOMAIN r : from[j] = n
  <2>1. CASE n < i BY <1>1, <2>1
  <2>2. CASE n > i
    <3>1. n - 1 \in DOMAIN r /\ from[n - 1] = n BY <1>1, <2>2
    <3> QED BY <3>1
  <2> QED BY <1>1, <2>1, <2>2
<1>5. \A j, l \in DOMAIN r : j <= l <=> from[j] <= from[l] BY <1>1
<1> HIDE DEF from
<1> QED BY <1>2, <1>3, <1>4, <1>5

\* Where each setting is read.
LEMMA KeyFacts ==
  /\ DOMAIN KeysOf = Groups
  /\ \A g \in Groups : DOMAIN KeysOf[g] = 1 .. Len(KeysOf[g])
  /\ \A g \in Groups : Len(KeysOf[g]) = IF g \in {"misc", "disturb"} THEN 2 ELSE 1
  /\ \A k \in Keys :
       GroupOf[k] \in Groups /\ Place(k) \in DOMAIN KeysOf[GroupOf[k]]
         /\ KeysOf[GroupOf[k]][Place(k)] = k
  /\ \A g \in Groups : \A at \in DOMAIN KeysOf[g] :
       LET k == KeysOf[g][at] IN k \in Keys /\ GroupOf[k] = g /\ Place(k) = at
<1>1. /\ KeysOf["misc"] = <<"feedback", "ringer">> /\ KeysOf["disturb"] = <<"switch", "whiteList">>
      /\ KeysOf["ring"] = <<"whenRing">> /\ KeysOf["inputMethod"] = <<"inputMethods">>
  BY DEF KeysOf, Groups
<1>2. /\ DOMAIN KeysOf = Groups
      /\ \A g \in Groups : DOMAIN KeysOf[g] = 1 .. Len(KeysOf[g])
      /\ \A g \in Groups : Len(KeysOf[g]) = IF g \in {"misc", "disturb"} THEN 2 ELSE 1
  <2>1. DOMAIN KeysOf = Groups BY DEF KeysOf
  <2>2. /\ DOMAIN KeysOf["misc"] = 1 .. Len(KeysOf["misc"]) /\ Len(KeysOf["misc"]) = 2
        /\ DOMAIN KeysOf["disturb"] = 1 .. Len(KeysOf["disturb"]) /\ Len(KeysOf["disturb"]) = 2
    BY <1>1
  <2>3. /\ DOMAIN KeysOf["ring"] = 1 .. Len(KeysOf["ring"]) /\ Len(KeysOf["ring"]) = 1
        /\ DOMAIN KeysOf["inputMethod"] = 1 .. Len(KeysOf["inputMethod"])
        /\ Len(KeysOf["inputMethod"]) = 1
    BY <1>1
  <2> QED BY <2>1, <2>2, <2>3 DEF Groups
<1>3. /\ Range(KeysOf["misc"]) = {"feedback", "ringer"}
      /\ Range(KeysOf["disturb"]) = {"switch", "whiteList"}
      /\ Range(KeysOf["ring"]) = {"whenRing"}
      /\ Range(KeysOf["inputMethod"]) = {"inputMethods"}
  BY <1>1 DEF Range
<1>4. Keys = {"feedback", "ringer", "switch", "whiteList", "whenRing", "inputMethods"}
  BY <1>3 DEF Keys, Groups
<1>5. /\ GroupOf["feedback"] = "misc" /\ GroupOf["ringer"] = "misc"
      /\ GroupOf["switch"] = "disturb" /\ GroupOf["whiteList"] = "disturb"
      /\ GroupOf["whenRing"] = "ring" /\ GroupOf["inputMethods"] = "inputMethod"
  BY <1>3, <1>4 DEF GroupOf, Groups
<1>6. \A k \in Keys :
       GroupOf[k] \in Groups /\ Place(k) \in DOMAIN KeysOf[GroupOf[k]]
         /\ KeysOf[GroupOf[k]][Place(k)] = k
  BY <1>1, <1>4, <1>5 DEF Groups, Place
<1>7. \A g \in Groups : \A at \in DOMAIN KeysOf[g] :
       LET k == KeysOf[g][at] IN k \in Keys /\ GroupOf[k] = g /\ Place(k) = at
  BY <1>1, <1>4, <1>5 DEF Groups, Place
<1> QED BY <1>2, <1>6, <1>7

\* The settings of do-not-disturb.
LEMMA WhereSettingsAre ==
  /\ GroupOf["whiteList"] = "disturb" /\ GroupOf["switch"] = "disturb"
  /\ "whiteList" \in Keys /\ "switch" \in Keys
<1>1. "disturb" \in Groups /\ 1 \in DOMAIN KeysOf["disturb"] /\ 2 \in DOMAIN KeysOf["disturb"]
  BY KeyFacts DEF Groups
<1>2. KeysOf["disturb"] = <<"switch", "whiteList">> BY <1>1 DEF KeysOf
<1>3. KeysOf["disturb"][1] = "switch" /\ KeysOf["disturb"][2] = "whiteList" BY <1>2
<1> QED BY <1>1, <1>3, KeyFacts

\* An update that has nothing to do with k any more may go.
LEMMA WithoutOne ==
  ASSUME NEW s \in Seq(Update), NEW i \in DOMAIN s, NEW k, NEW v, NEW kept,
         ~Stores(s[i], k), ~StillToRead(s[i], k), BecomesRight(s, k, v, kept)
  PROVE  BecomesRight(RemoveAt(s, i), k, v, kept)
<1> DEFINE r == RemoveAt(s, i)
<1>1. PICK from \in [DOMAIN r -> DOMAIN s \ {i}] :
        /\ \A j \in DOMAIN r : r[j] = s[from[j]]
        /\ \A n \in DOMAIN s \ {i} : \E j \in DOMAIN r : from[j] = n
        /\ \A j, l \in DOMAIN r : j <= l <=> from[j] <= from[l]
  BY OthersStay
<1> HIDE DEF r
<1>2. CASE \E n \in DOMAIN s : StillToRead(s[n], k)
  <2>1. PICK n \in DOMAIN s \ {i} : StillToRead(s[n], k) BY <1>2
  <2>2. PICK j \in DOMAIN r : from[j] = n BY <1>1
  <2> QED BY <1>1, <2>1, <2>2 DEF BecomesRight, r
<1>3. CASE Latest(s, k, v) /\ ((\A n \in DOMAIN s : ~Stores(s[n], k)) => kept)
  <2>1. ASSUME NEW j \in DOMAIN r, Stores(r[j], k), r[j].sound,
               \A l \in DOMAIN r : Stores(r[l], k) => l <= j
        PROVE  r[j].value = v
    <3>1. from[j] \in DOMAIN s /\ r[j] = s[from[j]] BY <1>1
    <3>2. ASSUME NEW n \in DOMAIN s, Stores(s[n], k) PROVE n <= from[j]
      <4>1. PICK l \in DOMAIN r : from[l] = n BY <1>1, <3>2
      <4>2. l <= j BY <1>1, <2>1, <3>2, <4>1
      <4> QED BY <1>1, <4>1, <4>2
    <3> QED BY <1>3, <2>1, <3>1, <3>2 DEF Latest
  <2>2. ASSUME \A j \in DOMAIN r : ~Stores(r[j], k)
        PROVE  \A n \in DOMAIN s : ~Stores(s[n], k)
    <3> SUFFICES ASSUME NEW n \in DOMAIN s \ {i} PROVE ~Stores(s[n], k) OBVIOUS
    <3>1. PICK j \in DOMAIN r : from[j] = n BY <1>1
    <3> QED BY <1>1, <2>2, <3>1
  <2>3. Latest(r, k, v) BY <2>1 DEF Latest
  <2> QED BY <1>3, <2>2, <2>3 DEF BecomesRight, r
<1> QED BY <1>2, <1>3 DEF BecomesRight

\* An update that comes last and has nothing to do with k, or has still to read
\* it, or has read it just now.
LEMMA WithAnother ==
  ASSUME NEW s \in Seq(Update), NEW x, NEW k, NEW v, NEW kept,
         \/ ~Stores(x, k) /\ BecomesRight(s, k, v, kept)
         \/ StillToRead(x, k)
         \/ Stores(x, k) /\ (x.sound => x.value = v)
  PROVE  BecomesRight(Append(s, x), k, v, kept)
<1> DEFINE r == Append(s, x)
<1>1. /\ Len(s) \in Nat /\ DOMAIN s = 1 .. Len(s)
      /\ DOMAIN r = 1 .. Len(s) + 1 /\ r[Len(s) + 1] = x
      /\ \A i \in DOMAIN s : r[i] = s[i]
  OBVIOUS
<1> HIDE DEF r
<1>2. CASE StillToRead(x, k) BY <1>1, <1>2 DEF BecomesRight, r
<1>3. CASE Stores(x, k) /\ (x.sound => x.value = v)
  <2>1. Latest(r, k, v)
    <3> SUFFICES ASSUME NEW i \in DOMAIN r, Stores(r[i], k), r[i].sound,
                        \A j \in DOMAIN r : Stores(r[j], k) => j <= i
                 PROVE  r[i].value = v
      BY DEF Latest
    <3>1. i = Len(s) + 1 BY <1>1, <1>3
    <3> QED BY <1>1, <1>3, <3>1
  <2> QED BY <1>1, <1>3, <2>1 DEF BecomesRight, r
<1>4. CASE ~Stores(x, k) /\ BecomesRight(s, k, v, kept)
  <2>1. CASE \E i \in DOMAIN s : StillToRead(s[i], k)
    BY <1>1, <2>1 DEF BecomesRight, r
  <2>2. CASE Latest(s, k, v) /\ ((\A i \in DOMAIN s : ~Stores(s[i], k)) => kept)
    <3>1. Latest(r, k, v)
      <4> SUFFICES ASSUME NEW i \in DOMAIN r, Stores(r[i], k), r[i].sound,
                          \A j \in DOMAIN r : Stores(r[j], k) => j <= i
                   PROVE  r[i].value = v
        BY DEF Latest
      <4>1. i \in DOMAIN s BY <1>1, <1>4
      <4>2. \A j \in DOMAIN s : Stores(s[j], k) => j <= i BY <1>1
      <4> QED BY <1>1, <2>2, <4>1, <4>2 DEF Latest
    <3>2. (\A i \in DOMAIN r : ~Stores(r[i], k)) => \A i \in DOMAIN s : ~Stores(s[i], k)
      BY <1>1
    <3> QED BY <2>2, <3>1, <3>2 DEF BecomesRight, r
  <2> QED BY <1>4, <2>1, <2>2 DEF BecomesRight
<1> QED BY <1>2, <1>3, <1>4

\* An update that is overtaken.
LEMMA OvertakenFacts ==
  ASSUME NEW u \in Update, NEW w \in Update
  PROVE  /\ Overtaken(u, w) \in Update
         /\ Overtaken(u, w) = [w EXCEPT !.sound = Overtaken(u, w).sound]
         /\ Overtaken(u, w).sound => w.sound
         /\ \A k : Stores(Overtaken(u, w), k) <=> Stores(w, k)
         /\ \A k : StillToRead(Overtaken(u, w), k) <=> StillToRead(w, k)
         /\ Holds(Overtaken(u, w)) <=> Holds(w)
         /\ \A k : u.group = GroupOf[k] /\ u.at = Place(k) /\ Stores(w, k)
                     => ~Overtaken(u, w).sound
BY DEF Overtaken, Update, Stores, StillToRead, Holds

\* Some updates are overtaken.
LEMMA SomeOvertaken ==
  ASSUME NEW s \in Seq(Update), NEW u \in Update, NEW r, DOMAIN r = DOMAIN s,
         \A i \in DOMAIN s : r[i] = s[i] \/ r[i] = Overtaken(u, s[i]),
         NEW k, NEW v, NEW kept, BecomesRight(s, k, v, kept)
  PROVE  BecomesRight(r, k, v, kept)
<1>1. \A i \in DOMAIN s : s[i] \in Update OBVIOUS
<1>2. ASSUME NEW i \in DOMAIN s
      PROVE  /\ Stores(r[i], k) <=> Stores(s[i], k)
             /\ StillToRead(r[i], k) <=> StillToRead(s[i], k)
             /\ r[i].sound => s[i].sound /\ r[i].value = s[i].value
  BY <1>1, OvertakenFacts DEF Update
<1> QED BY <1>2 DEF BecomesRight, Latest

-------------------------------------------------------------------------------
(* The loaders. *)

\* Nothing becomes of the updates and of the copies, and a group that is not
\* going to be read was not before, and has kept its settings.
LEMMA FollowAgain ==
  ASSUME FollowInv, UNCHANGED <<groups, cache, doubtful, updates>>,
         \A g \in groups : ~Coming(g)' =>
           ~Coming(g) /\ \A k \in Keys : GroupOf[k] = g => Current(k)' = Current(k)
  PROVE  FollowInv'
<1> SUFFICES ASSUME NEW k \in Keys, GroupOf[k] \in groups, ~Coming(GroupOf[k])'
             PROVE  Follows(k)'
  BY DEF FollowInv
<1>1. Follows(k) /\ Current(k)' = Current(k) BY DEF FollowInv
<1>2. Kept(k)' <=> Kept(k) BY <1>1 DEF Kept
<1> QED BY <1>1, <1>2 DEF Follows, BecomesRight, Latest

\* The steps of the loaders, and those around them.
LoaderStep ==
  \/ \E t \in Loaders :
       \/ \E h \in {"disturb", "ring", "inputMethod"} : Unregister(t, h) \/ Register(t, h)
       \/ QueryUserId(t) \/ StoreUserId(t) \/ InitEnd(t)
  \/ InitBegin("kv") \/ InitBegin("share")
  \/ SwitchUser \/ OnReceiveUserSwitchEvent
  \/ ChangeMute \/ ShouldIgnoreVibrate \/ WatchParameter \/ ParameterCallback
  \/ UNCHANGED vars

\* A loader that changes the table of a group is going to register its
\* observer, and one that has registered it makes it read.
LEMMA LoadersMakeRead ==
  ASSUME ObservedInv, DataInv, LoaderStep, NEW g \in groups, ~Coming(g)'
  PROVE  ~Coming(g) /\ TableOf(g)' = TableOf(g)
<1> USE DEF external, copies, startup, watching, muting
<1>0. Types BY DEF ObservedInv
<1>s. /\ UserGroups \in 0 .. 3 /\ QueryStep = UserGroups + 1 /\ StoreStep = QueryStep + 1
      /\ LastStep = StoreStep + UserGroups
      /\ \A h \in groups \ {"misc"} :
           /\ UnregisterStep(h) \in 1 .. UserGroups
           /\ RegisterStep(h) \in StoreStep + 1 .. LastStep
           /\ \A f \in groups \ {"misc"} : RegisterStep(f) = RegisterStep(h) => f = h
  BY <1>0, StepFacts DEF Types
<1>g. groups' = groups
  BY DEF LoaderStep, Unregister, Register, QueryUserId, StoreUserId, InitEnd, InitBegin,
    SwitchUser, OnReceiveUserSwitchEvent, ChangeMute, ShouldIgnoreVibrate, WatchParameter,
    ParameterCallback, vars
<1>c. \A h : RegisterStep(h)' = RegisterStep(h)
  BY <1>g DEF RegisterStep, StoreStep, QueryStep, UserGroups, One
<1>n. g # "misc" => \A t \in Loaders : pc'[t] \notin 1 .. RegisterStep(g)
  BY <1>c DEF Coming
<1>f. ~Fresh' BY DEF Coming
<1>a. /\ g \notin unwatched' /\ ~(spawned'[g] > 0) /\ \A a \in announced' : a.group # g
  BY DEF Coming
<1>1. CASE \E t \in Loaders : \E h \in {"disturb", "ring", "inputMethod"} : Unregister(t, h)
  <2>1. PICK t \in Loaders, h \in {"disturb", "ring", "inputMethod"} : Unregister(t, h)
    BY <1>1
  <2>2. /\ h \in groups /\ pc[t] \in 1 .. UserGroups /\ pc' = [pc EXCEPT ![t] = @ + 1]
        /\ UNCHANGED <<unwatched, spawned, announced, ready, userId>>
    BY <1>s, <2>1 DEF Unregister, ToUnregister, Advance
  <2>3. pc'[t] = pc[t] + 1 /\ \A u \in Loaders \ {t} : pc'[u] = pc[u]
    BY <1>0, <2>2 DEF Types
  <2>4. g = "misc" BY <1>s, <1>n, <2>2, <2>3
  <2>5. Fresh' <=> Fresh BY <2>2, <2>3 DEF Fresh, Loaders
  <2> QED BY <1>f, <1>a, <2>2, <2>4, <2>5 DEF Coming, TableOf
<1>2. CASE \E t \in Loaders : QueryUserId(t) \/ StoreUserId(t)
  <2>1. PICK t \in Loaders : QueryUserId(t) \/ StoreUserId(t) BY <1>2
  <2>2. /\ pc[t] \in QueryStep .. StoreStep /\ pc'[t] \in StoreStep .. StoreStep + 1
        /\ \A u \in Loaders \ {t} : pc'[u] = pc[u]
        /\ UNCHANGED <<unwatched, spawned, announced, ready>>
    BY <1>0, <1>s, <2>1 DEF QueryUserId, StoreUserId, Advance, Types
  <2>4. g = "misc" BY <1>s, <1>n, <2>2
  <2>5. Fresh' <=> Fresh BY <1>s, <2>2 DEF Fresh, Loaders
  <2> QED BY <1>f, <1>a, <2>2, <2>4, <2>5 DEF Coming, TableOf
<1>3. CASE \E t \in Loaders : \E h \in {"disturb", "ring", "inputMethod"} : Register(t, h)
  <2>1. PICK t \in Loaders, h \in {"disturb", "ring", "inputMethod"} : Register(t, h)
    BY <1>3
  <2>2. /\ h \in groups /\ pc[t] = RegisterStep(h) /\ pc' = [pc EXCEPT ![t] = @ + 1]
        /\ UNCHANGED <<ready, userId>>
    BY <2>1 DEF Register, ToRegister, Advance
  <2>3. pc'[t] = pc[t] + 1 /\ \A u \in Loaders \ {t} : pc'[u] = pc[u]
    BY <1>0, <2>2 DEF Types
  <2>4. \/ /\ unwatched' = unwatched \ {h} /\ spawned' = [spawned EXCEPT ![h] = @ + 1]
           /\ announced \subseteq announced'
        \/ unwatched' = unwatched \cup {h} /\ UNCHANGED <<announced, spawned>>
    BY <2>1 DEF Register, RegisterAt
  <2>5. g # h
    <3>1. h \in Groups /\ spawned[h] \in Nat BY <1>0, <2>2 DEF Types, DataInv
    <3> QED BY <1>a, <2>4, <3>1 DEF DataInv
  <2>6. g # "misc" => \A u \in Loaders : pc[u] \notin 1 .. RegisterStep(g)
    BY <1>s, <1>n, <2>2, <2>3, <2>5
  <2>7. Fresh' <=> Fresh BY <1>s, <2>2, <2>3 DEF Fresh, Loaders
  <2>8. g \notin unwatched /\ ~(spawned[g] > 0) /\ \A a \in announced : a.group # g
    <3>1. spawned'[g] = spawned[g]
      <4>1. g \in Groups /\ DOMAIN spawned = Groups BY <1>0 DEF Types, DataInv
      <4> QED BY <2>4, <2>5, <4>1
    <3> QED BY <1>a, <2>4, <2>5, <3>1
  <2> QED BY <1>f, <2>2, <2>6, <2>7, <2>8 DEF Coming, TableOf
<1>4. CASE \E t \in Loaders : InitEnd(t)
  <2>1. PICK t \in Loaders : InitEnd(t) BY <1>4
  <2>2. /\ pc[t] = LastStep + 1 /\ pc' = [pc EXCEPT ![t] = 0]
        /\ UNCHANGED <<unwatched, spawned, announced, userId>>
        /\ t = "switch" \/ ~Fresh
    BY <1>s, <2>1 DEF InitEnd, Fresh
  <2>3. pc'[t] = 0 /\ \A u \in Loaders \ {t} : pc'[u] = pc[u]
    BY <1>0, <2>2 DEF Types
  <2>4. g # "misc" => \A u \in Loaders : pc[u] \notin 1 .. RegisterStep(g)
    BY <1>s, <1>n, <2>2, <2>3
  <2>5. t = "switch" => UNCHANGED ready BY <2>1 DEF InitEnd
  <2>6. ~Fresh BY <1>f, <2>2, <2>3, <2>5 DEF Fresh, Loaders
  <2> QED BY <1>a, <2>2, <2>4, <2>6 DEF Coming, TableOf
<1>5. CASE InitBegin("kv") \/ InitBegin("share")
  <2>1. PICK t \in {"kv", "share"} : InitBegin(t) BY <1>5
  <2>2. CASE Advance(t)
    <3>1. pc'[t] = 1
      BY <1>0, <2>1, <2>2 DEF Types, Loaders, InitBegin, Advance
    <3>2. g = "misc" BY <1>s, <1>n, <3>1 DEF Loaders
    <3>3. spawned' = [spawned EXCEPT !["misc"] = @ + 1] \/ pc' = pc
      BY <2>1, <3>2 DEF InitBegin, RegisterAt
    <3>4. pc' # pc BY <2>1, <3>1 DEF InitBegin
    <3> QED BY <1>0, <1>a, <3>2, <3>3, <3>4 DEF Types, DataInv
  <2>3. CASE ~Advance(t)
    <3>1. UNCHANGED <<unwatched, spawned, announced, userId, ready, pc>>
      BY <2>1, <2>3 DEF InitBegin
    <3> QED BY <1>f, <1>n, <1>a, <3>1 DEF Coming, TableOf, Fresh
  <2> QED BY <2>2, <2>3
<1>6. CASE OnReceiveUserSwitchEvent
  <2>1. /\ pc["switch"] = 0 /\ pc' = [pc EXCEPT !["switch"] = @ + 1]
        /\ UNCHANGED <<unwatched, spawned, announced, userId, ready>>
    BY <1>6 DEF OnReceiveUserSwitchEvent, Advance
  <2>2. pc'["switch"] = 1 /\ \A u \in Loaders \ {"switch"} : pc'[u] = pc[u]
    BY <1>0, <2>1 DEF Types, Loaders
  <2>3. g = "misc" BY <1>s, <1>n, <2>2 DEF Loaders
  <2>4. Fresh' <=> Fresh BY <2>1, <2>2 DEF Fresh, Loaders
  <2> QED BY <1>f, <1>a, <2>1, <2>3, <2>4 DEF Coming, TableOf
<1>7. CASE \/ SwitchUser \/ ChangeMute \/ ShouldIgnoreVibrate \/ WatchParameter
           \/ ParameterCallback \/ UNCHANGED vars
  <2>1. UNCHANGED <<unwatched, spawned, announced, userId, ready, pc>>
    BY <1>7 DEF SwitchUser, ChangeMute, ShouldIgnoreVibrate, WatchParameter, ParameterCallback,
      vars
  <2> QED BY <1>f, <1>n, <1>a, <2>1 DEF Coming, TableOf, Fresh
<1> QED BY <1>1, <1>2, <1>3, <1>4, <1>5, <1>6, <1>7 DEF LoaderStep

\* So the loaders keep what is said of the updates.
LEMMA LoadersFollow ==
  ASSUME ObservedInv, DataInv, UpdatesInv, FollowInv, LoaderStep
  PROVE  UpdatesInv' /\ FollowInv'
<1>1. UNCHANGED <<groups, data, cache, doubtful, updates, whiteListMutex>>
  BY DEF LoaderStep, Unregister, Register, QueryUserId, StoreUserId, InitEnd, InitBegin,
    SwitchUser, OnReceiveUserSwitchEvent, ChangeMute, ShouldIgnoreVibrate, WatchParameter,
    ParameterCallback, vars,
    external, copies, startup, watching, muting
<1>2. UpdatesInv' BY <1>1 DEF UpdatesInv, InPlace
<1>3. \A g \in groups : ~Coming(g)' =>
        ~Coming(g) /\ \A k \in Keys : GroupOf[k] = g => Current(k)' = Current(k)
  BY <1>1, LoadersMakeRead DEF Current
<1> QED BY <1>1, <1>2, <1>3, FollowAgain

\* An observer that is told of a change is one of data share's.
LEMMA ToldFacts ==
  ASSUME NEW R, \A r \in R : r.group \in Groups /\ r.number \in Nat
  PROVE  \A a \in Told(R) : a.group \in Groups /\ a.number \in Nat
BY DEF Told

\* A registration.
LEMMA RegisterAtData ==
  ASSUME DataInv, NEW g \in Groups, NEW table, NEW n \in Nat, RegisterAt(g, table, n)
  PROVE  /\ spawned' \in [Groups -> Nat]
         /\ \A r \in registered' \cup announced' : r.group \in Groups /\ r.number \in Nat
<1> DEFINE new == [table |-> table, group |-> g, number |-> n]
<1>1. /\ registered' = registered \cup {new}
      /\ announced' = announced \cup Told(Observing(table, g) \cup {new})
      /\ spawned' = [spawned EXCEPT ![g] = @ + 1]
  BY DEF RegisterAt
<1>2. new.group = g /\ new.number = n OBVIOUS
<1>3. \A r \in Observing(table, g) \cup {new} : r.group \in Groups /\ r.number \in Nat
  BY <1>2 DEF DataInv, Observing
<1>4. \A r \in registered' : r.group \in Groups /\ r.number \in Nat
  BY <1>1, <1>2 DEF DataInv
<1> HIDE DEF new
<1>5. \A a \in announced' : a.group \in Groups /\ a.number \in Nat
  <2>1. \A a \in Told(Observing(table, g) \cup {new}) : a.group \in Groups /\ a.number \in Nat
    BY <1>3, ToldFacts
  <2> QED BY <1>1, <2>1 DEF DataInv
<1>6. spawned' \in [Groups -> Nat] BY <1>1 DEF DataInv
<1> QED BY <1>4, <1>5, <1>6

\* The loaders keep the types.
LEMMA LoadersData ==
  ASSUME ObservedInv, DataInv, LoaderStep
  PROVE  DataInv'
<1> USE DEF external, copies, startup, watching, muting
<1>0. Types BY DEF ObservedInv
<1>1. UNCHANGED <<data, cache>>
  BY DEF LoaderStep, Unregister, Register, QueryUserId, StoreUserId, InitEnd, InitBegin,
    SwitchUser, OnReceiveUserSwitchEvent, ChangeMute, ShouldIgnoreVibrate, WatchParameter,
    ParameterCallback, vars
<1>2. ASSUME NEW t \in Loaders, NEW h \in {"disturb", "ring", "inputMethod"}, Unregister(t, h)
      PROVE  DataInv'
  <2>1. UNCHANGED <<active, userId, queried, spawned, announced>> /\ registered' \subseteq registered
    BY <1>2 DEF Unregister, Observing
  <2> QED BY <1>1, <2>1 DEF DataInv
<1>3. ASSUME NEW t \in Loaders, NEW h \in {"disturb", "ring", "inputMethod"}, Register(t, h)
      PROVE  DataInv'
  <2>1. UNCHANGED <<active, userId, queried>> BY <1>3 DEF Register
  <2>2. h \in Groups /\ observer[h].number + 1 \in Nat BY <1>0 DEF Types, Groups
  <2>3. CASE UNCHANGED <<registered, announced, spawned>> BY <1>1, <2>1, <2>3 DEF DataInv
  <2>4. CASE RegisterAt(h, userId, observer[h].number + 1)
    BY <1>1, <2>1, <2>2, <2>4, RegisterAtData DEF DataInv
  <2> QED BY <1>3, <2>3, <2>4 DEF Register
<1>4. ASSUME NEW t \in Loaders, QueryUserId(t) \/ StoreUserId(t) \/ InitEnd(t)
      PROVE  DataInv'
  <2>1. UNCHANGED <<active, registered, announced, spawned>>
    BY <1>4 DEF QueryUserId, StoreUserId, InitEnd
  <2>2. /\ userId' \in {userId, queried[t]}
        /\ \/ queried' = queried
           \/ queried' = [queried EXCEPT ![t] = active]
           \/ queried' = [queried EXCEPT ![t] = FirstUser]
    BY <1>4 DEF QueryUserId, StoreUserId, InitEnd
  <2>3. userId' \in Users BY <2>2 DEF DataInv
  <2>4. queried' \in [Loaders -> Users] BY <2>2, SettingsAssumption DEF DataInv
  <2> QED BY <1>1, <2>1, <2>3, <2>4 DEF DataInv
<1>5. ASSUME NEW t \in Loaders, InitBegin(t)
      PROVE  DataInv'
  <2>1. UNCHANGED <<active, userId, queried>> BY <1>5 DEF InitBegin
  <2>2. "misc" \in Groups /\ observer["misc"].number + 1 \in Nat BY <1>0 DEF Types, Groups
  <2>3. CASE UNCHANGED <<registered, announced, spawned>> BY <1>1, <2>1, <2>3 DEF DataInv
  <2>4. CASE RegisterAt("misc", "proxy", observer["misc"].number + 1)
    BY <1>1, <2>1, <2>2, <2>4, RegisterAtData DEF DataInv
  <2> QED BY <1>5, <2>3, <2>4 DEF InitBegin
<1>6. CASE \/ SwitchUser \/ OnReceiveUserSwitchEvent \/ ChangeMute \/ ShouldIgnoreVibrate
           \/ WatchParameter \/ ParameterCallback \/ UNCHANGED vars
  <2>1. UNCHANGED <<userId, queried, spawned, registered, announced>>
        /\ active' \in Users \cup {active}
    BY <1>6 DEF SwitchUser, OnReceiveUserSwitchEvent, ChangeMute, ShouldIgnoreVibrate,
      WatchParameter, ParameterCallback, vars
  <2> QED BY <1>1, <2>1 DEF DataInv
<1> QED BY <1>2, <1>3, <1>4, <1>5, <1>6 DEF LoaderStep, Loaders

\* Whoever begins Init has the settings of all users observed.
LEMMA LoadersMisc ==
  ASSUME ObservedInv, MiscInv, LoaderStep
  PROVE  MiscInv'
<1> USE DEF external, copies, startup, watching, muting
<1>0. Types BY DEF ObservedInv
<1>s. /\ UserGroups \in 0 .. 3 /\ QueryStep = UserGroups + 1 /\ StoreStep = QueryStep + 1
      /\ LastStep = StoreStep + UserGroups
      /\ \A h \in groups \ {"misc"} :
           /\ UnregisterStep(h) \in 1 .. UserGroups
           /\ RegisterStep(h) \in StoreStep + 1 .. LastStep
  BY <1>0, StepFacts DEF Types
<1>g. groups' = groups
  BY DEF LoaderStep, Unregister, Register, QueryUserId, StoreUserId, InitEnd, InitBegin,
    SwitchUser, OnReceiveUserSwitchEvent, ChangeMute, ShouldIgnoreVibrate, WatchParameter,
    ParameterCallback, vars
<1>1. ASSUME NEW t \in Loaders,
             \/ \E h \in {"disturb", "ring", "inputMethod"} : Unregister(t, h) \/ Register(t, h)
             \/ QueryUserId(t) \/ StoreUserId(t)
      PROVE  MiscInv'
  <2>1. pc[t] # 0 /\ UNCHANGED ready /\ \A u \in Loaders \ {t} : pc'[u] = pc[u]
    <3>1. CASE \E h \in {"disturb", "ring", "inputMethod"} : Unregister(t, h) \/ Register(t, h)
      <4>1. PICK h \in {"disturb", "ring", "inputMethod"} : Unregister(t, h) \/ Register(t, h)
        BY <3>1
      <4>2. /\ h \in groups \ {"misc"} /\ pc[t] \in {UnregisterStep(h), RegisterStep(h)}
            /\ UNCHANGED ready /\ pc' = [pc EXCEPT ![t] = @ + 1]
        BY <4>1 DEF Unregister, ToUnregister, Register, ToRegister, Advance
      <4>3. pc[t] # 0 BY <1>s, <4>2
      <4> QED BY <1>0, <4>2, <4>3 DEF Types
    <3>2. CASE QueryUserId(t) \/ StoreUserId(t)
      BY <1>0, <1>s, <3>2 DEF QueryUserId, StoreUserId, Advance, Types
    <3> QED BY <1>1, <3>1, <3>2
  <2>2. pc'[t] # 0
    <3>1. pc'[t] \in {pc[t] + 1, StoreStep + 1}
      BY <1>0, <1>1 DEF Unregister, Register, QueryUserId, StoreUserId, Advance, Types
    <3> QED BY <1>0, <1>s, <3>1 DEF Types
  <2>3. Fresh' <=> Fresh BY <2>1, <2>2 DEF Fresh, Loaders
  <2>4. Observing("proxy", "misc") \subseteq Observing("proxy", "misc")'
    BY <1>1 DEF Unregister, Register, RegisterAt, QueryUserId, StoreUserId, Observing
  <2> QED BY <1>g, <2>3, <2>4 DEF MiscInv
<1>2. ASSUME NEW t \in Loaders, InitEnd(t)
      PROVE  MiscInv'
  <2>1. UNCHANGED registered /\ pc[t] # 0 /\ pc' = [pc EXCEPT ![t] = 0]
    BY <1>s, <1>2 DEF InitEnd
  <2>2. t = "switch" => UNCHANGED ready BY <1>2 DEF InitEnd
  <2>3. Fresh => Fresh' BY <1>0, <2>1, <2>2 DEF Fresh, Loaders, Types
  <2> QED BY <1>g, <2>1, <2>3 DEF MiscInv, Observing
<1>3. ASSUME NEW t \in Loaders, InitBegin(t)
      PROVE  MiscInv'
  <2>1. CASE UNCHANGED <<registered, pc>>
    <3>1. UNCHANGED ready BY <1>3 DEF InitBegin
    <3> QED BY <1>g, <2>1, <3>1 DEF MiscInv, Observing, Fresh
  <2>2. CASE RegisterAt("misc", "proxy", observer["misc"].number + 1)
    <3> DEFINE new == [table |-> "proxy", group |-> "misc",
                       number |-> observer["misc"].number + 1]
    <3>1. new \in registered' BY <2>2 DEF RegisterAt
    <3>2. new.table = "proxy" /\ new.group = "misc" OBVIOUS
    <3> HIDE DEF new
    <3> QED BY <3>1, <3>2 DEF MiscInv, Observing
  <2>3. CASE "misc" \notin groups BY <1>g, <2>3 DEF MiscInv
  <2> QED BY <1>3, <2>1, <2>2, <2>3 DEF InitBegin
<1>4. CASE OnReceiveUserSwitchEvent
  <2>1. /\ UNCHANGED <<registered, ready>>
        /\ pc'["kv"] = pc["kv"] /\ pc'["share"] = pc["share"]
    BY <1>0, <1>4 DEF OnReceiveUserSwitchEvent, Advance, Types, Loaders
  <2> QED BY <1>g, <2>1 DEF MiscInv, Observing, Fresh
<1>5. CASE \/ SwitchUser \/ ChangeMute \/ ShouldIgnoreVibrate \/ WatchParameter
           \/ ParameterCallback \/ UNCHANGED vars
  <2>1. UNCHANGED <<registered, ready, pc>>
    BY <1>5 DEF SwitchUser, ChangeMute, ShouldIgnoreVibrate, WatchParameter, ParameterCallback,
      vars
  <2> QED BY <1>g, <2>1 DEF MiscInv, Observing, Fresh
<1> QED BY <1>1, <1>2, <1>3, <1>4, <1>5 DEF LoaderStep, Loaders

\* What is said of the mute parameter.
LEMMA MuteKeeps ==
  ASSUME MuteInv,
         \/ LoaderStep
         \/ UNCHANGED <<mute, muting>>
  PROVE  MuteInv'
<1> USE DEF external, copies, startup, watching, muting
<1>1. CASE UNCHANGED <<mute, muting>> BY <1>1 DEF MuteInv
<1>2. ASSUME NEW t \in Loaders, InitEnd(t) PROVE MuteInv'
  BY <1>2 DEF InitEnd, RegisterDeviceMuteObserver, MuteInv
<1>3. CASE ChangeMute \/ ShouldIgnoreVibrate \/ WatchParameter \/ ParameterCallback
  BY <1>3 DEF MuteInv, ChangeMute, ShouldIgnoreVibrate, RegisterDeviceMuteObserver,
    WatchParameter, ParameterCallback
<1>4. CASE LoaderStep
  <2>1. ASSUME NEW t \in Loaders,
               \/ \E h \in {"disturb", "ring", "inputMethod"} : Unregister(t, h) \/ Register(t, h)
               \/ QueryUserId(t) \/ StoreUserId(t) \/ InitBegin(t)
        PROVE  UNCHANGED <<mute, muting>>
    BY <2>1 DEF Unregister, Register, QueryUserId, StoreUserId, InitBegin
  <2>2. CASE SwitchUser \/ OnReceiveUserSwitchEvent \/ UNCHANGED vars
    <3>1. UNCHANGED <<mute, muting>>
      BY <2>2 DEF SwitchUser, OnReceiveUserSwitchEvent, vars
    <3> QED BY <1>1, <3>1
  <2> QED BY <1>1, <1>2, <1>3, <1>4, <2>1, <2>2 DEF LoaderStep, Loaders
<1> QED BY <1>1, <1>4

-------------------------------------------------------------------------------
(* A change of the settings data. *)

\* Somebody is told of a change in a table that is read, unless it is going to be
\* read anyway.
LEMMA SomebodyObserves ==
  ASSUME ObservedInv, MiscInv, NEW g \in groups, ~Coming(g)
  PROVE  Observing(TableOf(g), g) # {}
<1>1. ~Fresh /\ g \notin unwatched BY DEF Coming
<1>2. CASE g = "misc" BY <1>1, <1>2 DEF MiscInv, TableOf
<1>3. CASE g # "misc"
  <2>1. Observed(g)
    BY <1>1, <1>3 DEF ObservedInv, ObserversInv, Coming, Fresh
  <2> QED BY <1>3, <2>1 DEF Observed, TableOf
<1> QED BY <1>2, <1>3

\* A change makes its group be read.
LEMMA ChangeFollows ==
  ASSUME ObservedInv, DataInv, MiscInv, FollowInv,
         NEW table \in Tables, NEW k \in Keys, Change(table, k)
  PROVE  FollowInv'
<1> USE DEF external, copies, startup, watching, muting
<1>1. /\ UNCHANGED <<groups, cache, doubtful, updates, unwatched, spawned, ready, pc, userId>>
      /\ data' = [data EXCEPT ![table][k] = 1 - @]
      /\ announced' = announced \cup Told(Observing(table, GroupOf[k]))
  BY DEF Change
<1>c. \A h : RegisterStep(h)' = RegisterStep(h)
  BY <1>1 DEF RegisterStep, StoreStep, QueryStep, UserGroups, One
<1>2. ASSUME NEW g \in groups, ~Coming(g)'
      PROVE  ~Coming(g) /\ \A m \in Keys : GroupOf[m] = g => Current(m)' = Current(m)
  <2>1. ~Coming(g) BY <1>1, <1>c, <1>2 DEF Coming, Fresh
  <2>2. \A m \in Keys : TableOf(GroupOf[m])' = TableOf(GroupOf[m]) BY <1>1 DEF TableOf
  <2>3. TableOf(g) \in Tables BY DEF TableOf, Tables, DataInv
  <2>4. \A m \in Keys : m # k \/ TableOf(g) # table => data'[TableOf(g)][m] = data[TableOf(g)][m]
    BY <1>1, <2>3 DEF DataInv, Settings
  <2>5. ~(g = GroupOf[k] /\ TableOf(g) = table)
    <3> SUFFICES ASSUME g = GroupOf[k], TableOf(g) = table PROVE FALSE OBVIOUS
    <3>1. PICK r \in Observing(table, g) : TRUE BY <2>1, SomebodyObserves
    <3> DEFINE a == [group |-> r.group, number |-> r.number]
    <3>2. a \in announced' BY <1>1, <3>1 DEF Told
    <3>3. a.group = g BY <3>1 DEF Observing
    <3> HIDE DEF a
    <3> QED BY <1>2, <3>2, <3>3 DEF Coming
  <2> QED BY <2>1, <2>2, <2>4, <2>5 DEF Current
<1> QED BY <1>1, <1>2, FollowAgain

\* ... and keeps the rest.
LEMMA ChangeKeeps ==
  ASSUME ObservedInv, CopiesInv, NEW table \in Tables, NEW k \in Keys, Change(table, k)
  PROVE  CopiesInv'
<1> USE DEF CopiesInv, external, copies, startup, watching, muting
<1>1. FollowInv' BY ChangeFollows
<1>2. DataInv'
  <2>1. /\ UNCHANGED <<active, userId, queried, cache, spawned, registered>>
        /\ data' = [data EXCEPT ![table][k] = 1 - @]
        /\ announced' = announced \cup Told(Observing(table, GroupOf[k]))
    BY DEF Change
  <2>2. data' \in [Tables -> Settings]
    <3>1. data[table] \in Settings /\ data[table][k] \in {OFF, ON} BY DEF DataInv, Settings
    <3>2. 1 - data[table][k] \in {OFF, ON} BY <3>1 DEF OFF, ON
    <3>3. [data[table] EXCEPT ![k] = 1 - data[table][k]] \in Settings
      BY <3>1, <3>2 DEF Settings
    <3> QED BY <2>1, <3>3 DEF DataInv
  <2>3. \A a \in Told(Observing(table, GroupOf[k])) : a.group \in Groups /\ a.number \in Nat
    <3>1. \A r \in Observing(table, GroupOf[k]) : r.group \in Groups /\ r.number \in Nat
      BY DEF DataInv, Observing
    <3> QED BY <3>1, ToldFacts
  <2> QED BY <2>1, <2>2, <2>3 DEF DataInv
<1>3. MiscInv'
  <2>1. UNCHANGED <<groups, registered, ready, pc>> BY DEF Change
  <2> QED BY <2>1 DEF MiscInv, Observing, Fresh
<1>4. MuteInv' BY MuteKeeps DEF Change
<1>5. UpdatesInv' BY DEF Change, UpdatesInv, InPlace
<1> QED BY <1>1, <1>2, <1>3, <1>4, <1>5

-------------------------------------------------------------------------------
(* The updates stay in place. *)

\* An update goes that does not wait for the mutex, or while nobody holds it.
LEMMA PlacedWithoutOne ==
  ASSUME NEW s, NEW taken, NEW on, InPlace(s, taken, on), NEW i \in DOMAIN s,
         s[i].step = "lock" => \A j \in DOMAIN s : ~Holds(s[j])
  PROVE  /\ InPlace(RemoveAt(s, i), taken, on)
         /\ Holds(s[i]) => \A j \in DOMAIN RemoveAt(s, i) : ~Holds(RemoveAt(s, i)[j])
         /\ s[i].step # "lock" /\ (\E j \in DOMAIN s : s[j].step = "lock") =>
              \E j \in DOMAIN RemoveAt(s, i) : RemoveAt(s, i)[j].step = "lock"
<1> DEFINE r == RemoveAt(s, i)
<1>0. s \in Seq(Update) BY DEF InPlace
<1>1. r \in Seq(Update) BY <1>0, RemoveFacts
<1>2. PICK from \in [DOMAIN r -> DOMAIN s \ {i}] :
        /\ \A j \in DOMAIN r : r[j] = s[from[j]]
        /\ \A n \in DOMAIN s \ {i} : \E j \in DOMAIN r : from[j] = n
        /\ \A j, l \in DOMAIN r : j <= l <=> from[j] <= from[l]
  BY <1>0, OthersStay
<1>d. \A j, l \in DOMAIN r : from[j] = from[l] => j = l
  <2> SUFFICES ASSUME NEW j \in DOMAIN r, NEW l \in DOMAIN r, from[j] = from[l]
               PROVE  j = l
    OBVIOUS
  <2>1. j \in Nat /\ l \in Nat BY <1>1
  <2>2. from[j] \in Nat BY <1>0, <1>2
  <2> QED BY <1>2, <2>1, <2>2
<1> HIDE DEF r
<1>3. \A j \in DOMAIN r : Placed(r[j], taken) BY <1>2 DEF InPlace
<1>4. \A j, l \in DOMAIN r : Holds(r[j]) /\ Holds(r[l]) => j = l
  BY <1>2, <1>d DEF InPlace
<1>5. s[i].step # "lock" /\ (\E j \in DOMAIN s : s[j].step = "lock") =>
        \E j \in DOMAIN r : r[j].step = "lock"
  BY <1>2
<1>6. (\E j \in DOMAIN r : Holds(r[j])) => on \/ \E j \in DOMAIN r : r[j].step = "lock"
  BY <1>2, <1>5 DEF InPlace
<1>7. Holds(s[i]) => \A j \in DOMAIN r : ~Holds(r[j]) BY <1>2 DEF InPlace
<1>8. InPlace(r, taken, on) BY <1>1, <1>3, <1>4, <1>6 DEF InPlace
<1> QED BY <1>5, <1>7, <1>8 DEF r

\* An update comes, alone with the mutex if it has it.
LEMMA PlacedWithAnother ==
  ASSUME NEW s, NEW taken, NEW on, InPlace(s, taken, on), NEW x \in Update,
         Placed(x, taken),
         Holds(x) => /\ \A j \in DOMAIN s : ~Holds(s[j])
                     /\ on \/ \E j \in DOMAIN s : s[j].step = "lock"
  PROVE  InPlace(Append(s, x), taken, on)
<1> DEFINE r == Append(s, x)
<1>0. s \in Seq(Update) BY DEF InPlace
<1>1. /\ Len(s) \in Nat /\ DOMAIN s = 1 .. Len(s)
      /\ DOMAIN r = 1 .. Len(s) + 1 /\ r[Len(s) + 1] = x
      /\ \A i \in DOMAIN s : r[i] = s[i]
      /\ r \in Seq(Update)
  BY <1>0
<1> HIDE DEF r
<1>2. \A i \in DOMAIN r : i \in DOMAIN s \/ i = Len(s) + 1 BY <1>1
<1>3. \A i \in DOMAIN s : i \in DOMAIN r BY <1>1
<1>4. \A i \in DOMAIN r : Placed(r[i], taken) BY <1>1, <1>2 DEF InPlace
<1>5. \A i, j \in DOMAIN r : Holds(r[i]) /\ Holds(r[j]) => i = j
  BY <1>1, <1>2 DEF InPlace
<1>6. (\E i \in DOMAIN r : Holds(r[i])) => on \/ \E j \in DOMAIN r : r[j].step = "lock"
  BY <1>1, <1>2, <1>3 DEF InPlace
<1> QED BY <1>1, <1>4, <1>5, <1>6 DEF InPlace, r

\* Some are overtaken.
LEMMA PlacedOvertaken ==
  ASSUME NEW s, NEW taken, NEW on, InPlace(s, taken, on), NEW u \in Update,
         NEW r, DOMAIN r = DOMAIN s, r = [j \in DOMAIN r |-> r[j]],
         \A j \in DOMAIN s : r[j] = s[j] \/ r[j] = Overtaken(u, s[j])
  PROVE  InPlace(r, taken, on)
<1>0. s \in Seq(Update) /\ \A i \in DOMAIN s : s[i] \in Update BY DEF InPlace
<1>1. DOMAIN s = 1 .. Len(s) /\ Len(s) \in Nat BY <1>0
<1>2. ASSUME NEW i \in DOMAIN s
      PROVE  /\ r[i] \in Update /\ r[i].step = s[i].step /\ r[i].group = s[i].group
             /\ r[i].at = s[i].at /\ (Holds(r[i]) <=> Holds(s[i]))
  BY <1>0, <1>1, OvertakenFacts DEF Update
<1>3. r \in Seq(Update)
  <2>1. r \in [1 .. Len(s) -> Update] BY <1>1, <1>2
  <2> QED BY <1>1, <2>1, SeqDef
<1> QED BY <1>1, <1>2, <1>3 DEF InPlace, Placed

-------------------------------------------------------------------------------
(* A setting is read. *)

\* An update that is to read a setting of its group.
AtSetting(u) ==
  /\ u \in Update /\ u.step = "read" /\ u.at \in DOMAIN KeysOf[u.group]
  /\ u.at = 2 => u.group \in {"misc", "disturb"}

\* What is read and what becomes of it, for the setting that is read and for
\* every other.
LEMMA ReadFollows ==
  ASSUME DataInv, NEW u, AtSetting(u), NEW others, Read(u, others),
         InPlace(others, whiteListMutex, cache["switch"] = ON),
         UNCHANGED <<data, userId>>,
         Holds(u) => \A j \in DOMAIN others : ~Holds(others[j])
  PROVE  \A k \in Keys :
           (u.group = GroupOf[k] /\ u.at = Place(k))
               \/ BecomesRight(others, k, Current(k), Kept(k))
             => Follows(k)'
<1> DEFINE key == KeysOf[u.group][u.at]
<1>0. others \in Seq(Update) /\ u \in Update BY DEF InPlace, AtSetting
<1>1. /\ u.group \in Groups /\ key \in Keys /\ GroupOf[key] = u.group /\ Place(key) = u.at
      /\ \A k \in Keys : u.group = GroupOf[k] /\ u.at = Place(k) => k = key
  BY <1>0, KeyFacts DEF AtSetting, Update
<1>2. \A k : Current(k)' = Current(k) BY DEF Current, TableOf
<1> SUFFICES ASSUME NEW k \in Keys, k = key \/ BecomesRight(others, k, Current(k), Kept(k))
             PROVE  Follows(k)'
  BY <1>1
<1> HIDE DEF key
<1>3. ASSUME NEW answers \in BOOLEAN, GetIntValue(u, others, answers)
      PROVE  Follows(k)'
  <2> DEFINE x == [u EXCEPT !.step = "store", !.sound = answers,
                     !.value = IF answers THEN data[TableOf(u.group)][key]
                                          ELSE OnFailure(u, key)]
  <2>1. updates' = Append(others, x) /\ UNCHANGED <<cache, doubtful>>
    BY <1>3 DEF GetIntValue, key
  <2>2. /\ x.step = "store" /\ x.group = u.group /\ x.at = u.at
        /\ x.sound = answers /\ (answers => x.value = data[TableOf(u.group)][key])
    BY <1>0 DEF Update
  <2> HIDE DEF x
  <2>3. Kept(k)' <=> Kept(k) BY <1>2, <2>1 DEF Kept
  <2>4. CASE k = key
    <3>1. Stores(x, k) /\ (x.sound => x.value = Current(k))
      BY <1>1, <2>2, <2>4 DEF Stores, Current
    <3>2. BecomesRight(Append(others, x), k, Current(k), Kept(k)) BY <1>0, <3>1, WithAnother
    <3> QED BY <1>2, <2>1, <2>3, <3>2 DEF Follows, BecomesRight
  <2>5. CASE k # key
    <3>1. ~Stores(x, k) BY <1>1, <2>2, <2>5 DEF Stores
    <3>2. BecomesRight(Append(others, x), k, Current(k), Kept(k))
      BY <1>0, <2>5, <3>1, WithAnother
    <3> QED BY <1>2, <2>1, <2>3, <3>2 DEF Follows, BecomesRight
  <2> QED BY <2>4, <2>5
<1>4. ASSUME NEW answers \in BOOLEAN, GetWhiteListValueFails(u, others, answers)
      PROVE  Follows(k)'
  <2>1. /\ key = "whiteList" /\ updates' = others
        /\ cache' = [cache EXCEPT !["switch"] = OFF] /\ doubtful' = doubtful \cup {"switch"}
    BY <1>4 DEF GetWhiteListValueFails, key
  <2>2. GroupOf["whiteList"] = "disturb" BY WhereSettingsAre
  <2>3. CASE k = "whiteList"
    <3>1. u.group = "disturb" /\ u.at = 2 BY <1>1, <2>1, <2>2 DEF Place
    <3>2. \A i \in DOMAIN others : ~Stores(others[i], k)
      <4>1. ASSUME NEW i \in DOMAIN others, Stores(others[i], k) PROVE FALSE
        <5>1. others[i].step = "store" /\ others[i].group = "disturb" /\ others[i].at = 2
          BY <2>2, <2>3, <4>1 DEF Stores, Place
        <5>2. Holds(others[i]) BY <5>1 DEF Holds
        <5>3. Holds(u) BY <3>1 DEF Holds, AtSetting
        <5> QED BY <4>1, <5>2, <5>3
      <4> QED BY <4>1
    <3>3. Kept(k)' BY <2>1, <2>3 DEF Kept
    <3> QED BY <2>1, <3>2, <3>3 DEF Follows, BecomesRight, Latest
  <2>4. CASE k # "whiteList"
    <3>1. Kept(k) => Kept(k)'
      <4>1. k # "switch" => cache'[k] = cache[k] BY <2>1 DEF DataInv
      <4> QED BY <1>2, <2>1, <2>4, <4>1 DEF Kept
    <3> QED BY <1>2, <2>1, <2>4, <3>1 DEF Follows, BecomesRight
  <2> QED BY <2>3, <2>4
<1>5. ASSUME NEW answers \in BOOLEAN, InitInputMethodDataFails(u, others, answers)
      PROVE  Follows(k)'
  <2>1. /\ key = "inputMethods" /\ updates' = [j \in DOMAIN others |-> Overtaken(u, others[j])]
        /\ UNCHANGED cache /\ doubtful' = doubtful \cup {"inputMethods"}
    BY <1>5 DEF InitInputMethodDataFails, key
  <2>2. DOMAIN updates' = DOMAIN others /\ \A i \in DOMAIN others : updates'[i] = Overtaken(u, others[i])
    BY <2>1
  <2>3. CASE k = "inputMethods"
    <3>1. Kept(k)' BY <2>1, <2>3 DEF Kept
    <3>2. \A i \in DOMAIN others : Stores(updates'[i], k) => ~updates'[i].sound
      <4>1. \A i \in DOMAIN others : others[i] \in Update BY <1>0
      <4> QED BY <1>0, <1>1, <2>1, <2>2, <2>3, <4>1, OvertakenFacts
    <3> QED BY <2>2, <3>1, <3>2 DEF Follows, BecomesRight, Latest
  <2>4. CASE k # "inputMethods"
    <3>1. Kept(k) => Kept(k)' BY <1>2, <2>1, <2>4 DEF Kept
    <3>2. BecomesRight(updates', k, Current(k), Kept(k))
      BY <1>0, <2>1, <2>2, <2>4, SomeOvertaken
    <3> QED BY <1>2, <3>1, <3>2 DEF Follows, BecomesRight
  <2> QED BY <2>3, <2>4
<1> QED BY <1>3, <1>4, <1>5 DEF Read

\* The updates are in place after a read.
LEMMA ReadPlaced ==
  ASSUME DataInv, NEW u, AtSetting(u), NEW others, Read(u, others),
         InPlace(others, whiteListMutex, cache["switch"] = ON),
         Holds(u) => /\ whiteListMutex
                     /\ \A j \in DOMAIN others : ~Holds(others[j])
                     /\ cache["switch"] = ON \/ \E j \in DOMAIN others : others[j].step = "lock",
         data[TableOf(u.group)] \in Settings
  PROVE  UpdatesInv' /\ cache' \in [Keys -> {INVALID, OFF, ON}]
<1> DEFINE key == KeysOf[u.group][u.at]
<1>0. others \in Seq(Update) /\ u \in Update BY DEF InPlace, AtSetting
<1>1. u.group \in Groups /\ key \in Keys /\ GroupOf[key] = u.group /\ Place(key) = u.at
  BY <1>0, KeyFacts DEF AtSetting, Update
<1> HIDE DEF key
<1>3. ASSUME NEW answers \in BOOLEAN, GetIntValue(u, others, answers)
      PROVE  UpdatesInv' /\ cache' \in [Keys -> {INVALID, OFF, ON}]
  <2> DEFINE w == IF answers THEN data[TableOf(u.group)][key] ELSE OnFailure(u, key)
             x == [u EXCEPT !.step = "store", !.sound = answers, !.value = w]
  <2>1. updates' = Append(others, x) /\ UNCHANGED <<cache, whiteListMutex>>
    BY <1>3 DEF GetIntValue, key
  <2>2. w \in {INVALID, OFF, ON}
    <3>1. answers => w \in {OFF, ON} BY <1>1 DEF Settings
    <3>2. ~answers => w \in {INVALID, OFF, ON} BY <1>1 DEF OnFailure, DataInv
    <3> QED BY <3>1, <3>2
  <2> HIDE DEF w
  <2>3. x \in Update BY <1>0, <2>2 DEF Update
  <2>4. x.step = "store" /\ x.group = u.group /\ x.at = u.at BY <1>0 DEF Update
  <2> HIDE DEF x
  <2>5. Holds(x) => Holds(u) BY <2>4 DEF Holds, AtSetting
  <2>6. Placed(x, whiteListMutex) BY <2>4, <2>5 DEF Placed, AtSetting
  <2>7. InPlace(Append(others, x), whiteListMutex, cache["switch"] = ON)
    BY <2>3, <2>5, <2>6, PlacedWithAnother
  <2> QED BY <2>1, <2>7 DEF UpdatesInv, DataInv
<1>4. ASSUME NEW answers \in BOOLEAN, GetWhiteListValueFails(u, others, answers)
      PROVE  UpdatesInv' /\ cache' \in [Keys -> {INVALID, OFF, ON}]
  <2>1. /\ key = "whiteList" /\ updates' = others
        /\ cache' = [cache EXCEPT !["switch"] = OFF]
    BY <1>4 DEF GetWhiteListValueFails, key
  <2>2. Holds(u) BY <1>1, <2>1, WhereSettingsAre DEF Place, Holds, AtSetting
  <2>3. \A j \in DOMAIN others : ~Holds(others[j]) BY <2>2
  <2>4. InPlace(updates', whiteListMutex', cache'["switch"] = ON)
    BY <2>1, <2>3 DEF InPlace, Placed
  <2> QED BY <2>1, <2>4 DEF UpdatesInv, DataInv
<1>5. ASSUME NEW answers \in BOOLEAN, InitInputMethodDataFails(u, others, answers)
      PROVE  UpdatesInv' /\ cache' \in [Keys -> {INVALID, OFF, ON}]
  <2>1. /\ updates' = [j \in DOMAIN others |-> Overtaken(u, others[j])]
        /\ UNCHANGED <<cache, whiteListMutex>>
    BY <1>5 DEF InitInputMethodDataFails
  <2>2. InPlace(updates', whiteListMutex, cache["switch"] = ON) 
    <3>1. /\ DOMAIN updates' = DOMAIN others
          /\ \A j \in DOMAIN others : updates'[j] = Overtaken(u, others[j])
          /\ updates' = [j \in DOMAIN updates' |-> updates'[j]]
      BY <2>1
    <3> QED BY <1>0, <3>1, PlacedOvertaken
  <2> QED BY <2>1, <2>2 DEF UpdatesInv, DataInv
<1> QED BY <1>3, <1>4, <1>5 DEF Read

-------------------------------------------------------------------------------
(* A setting is stored. *)

\* An update goes on: it has still to read k then, or has nothing to do with k.
LEMMA WithOneChanged ==
  ASSUME NEW s \in Seq(Update), NEW i \in DOMAIN s, NEW x, NEW k, NEW v, NEW kept,
         NEW r, r = [s EXCEPT ![i] = x],
         \/ StillToRead(x, k)
         \/ ~Stores(s[i], k) /\ ~StillToRead(s[i], k) /\ ~Stores(x, k)
              /\ BecomesRight(s, k, v, kept)
  PROVE  BecomesRight(r, k, v, kept)
<1>1. DOMAIN r = DOMAIN s /\ r[i] = x /\ \A j \in DOMAIN s : j # i => r[j] = s[j] OBVIOUS
<1>2. CASE StillToRead(x, k) BY <1>1, <1>2 DEF BecomesRight
<1>3. CASE ~Stores(s[i], k) /\ ~StillToRead(s[i], k) /\ ~Stores(x, k)
              /\ BecomesRight(s, k, v, kept)
  <2>1. \A j \in DOMAIN s : Stores(r[j], k) <=> Stores(s[j], k) BY <1>1, <1>3
  <2>2. \A j \in DOMAIN s : Stores(s[j], k) => r[j] = s[j] BY <1>1, <1>3
  <2>3. \A j \in DOMAIN s : StillToRead(s[j], k) => r[j] = s[j] BY <1>1, <1>3
  <2>4. Latest(s, k, v) => Latest(r, k, v) BY <1>1, <2>1, <2>2 DEF Latest
  <2> QED BY <1>1, <1>3, <2>1, <2>3, <2>4 DEF BecomesRight
<1> QED BY <1>2, <1>3

\* Update i has stored k and goes on or ends: those that have read k before it are
\* overtaken, and if none has read it after, the copy is what has been stored.
LEMMA OneIsStored ==
  ASSUME NEW s \in Seq(Update), NEW i \in DOMAIN s, NEW k, NEW v, NEW kept, NEW stored,
         s[i] \in Update, Stores(s[i], k), BecomesRight(s, k, v, kept),
         (s[i].sound => s[i].value = v) /\ (\A j \in DOMAIN s : ~StillToRead(s[j], k))
           => stored,
         NEW r, NEW from \in [DOMAIN r -> DOMAIN s], DOMAIN r \subseteq Nat,
         \A n \in DOMAIN s \ {i} : \E j \in DOMAIN r : from[j] = n,
         \A j, l \in DOMAIN r : (j <= l <=> from[j] <= from[l]),
         \A j \in DOMAIN r :
           /\ from[j] = i => ~Stores(r[j], k)
           /\ from[j] < i => r[j] = Overtaken(s[i], s[from[j]])
           /\ from[j] > i => r[j] = s[from[j]]
  PROVE  BecomesRight(r, k, v, stored)
<1>0. /\ \A n \in DOMAIN s : s[n] \in Update
      /\ \A n \in DOMAIN s : n \in Nat
      /\ \A j \in DOMAIN r : from[j] \in DOMAIN s
  OBVIOUS
<1>u. s[i].step = "store" /\ s[i].group = GroupOf[k] /\ s[i].at = Place(k) BY DEF Stores
<1>1. ASSUME NEW j \in DOMAIN r, from[j] < i
      PROVE  /\ Stores(r[j], k) => ~r[j].sound
             /\ StillToRead(r[j], k) <=> StillToRead(s[from[j]], k)
             /\ Stores(r[j], k) <=> Stores(s[from[j]], k)
  <2>1. r[j] = Overtaken(s[i], s[from[j]]) BY <1>1
  <2> QED BY <1>0, <1>u, <2>1, OvertakenFacts
<1>2. CASE \E n \in DOMAIN s : StillToRead(s[n], k)
  <2>1. PICK n \in DOMAIN s : StillToRead(s[n], k) BY <1>2
  <2>2. n # i BY <2>1, <1>u DEF StillToRead
  <2>3. PICK j \in DOMAIN r : from[j] = n BY <2>2
  <2>4. StillToRead(r[j], k) BY <1>0, <1>1, <2>1, <2>2, <2>3
  <2> QED BY <2>4 DEF BecomesRight
<1>3. CASE /\ \A n \in DOMAIN s : ~StillToRead(s[n], k)
           /\ Latest(s, k, v)
  <2>1. ASSUME NEW j \in DOMAIN r, Stores(r[j], k), r[j].sound,
               \A l \in DOMAIN r : Stores(r[l], k) => l <= j
        PROVE  r[j].value = v
    <3>1. from[j] > i /\ r[j] = s[from[j]] BY <1>0, <1>1, <2>1
    <3>2. ASSUME NEW n \in DOMAIN s, Stores(s[n], k), n > from[j] PROVE FALSE
      <4>1. n # i /\ n > i BY <1>0, <3>1, <3>2
      <4>2. PICK l \in DOMAIN r : from[l] = n BY <4>1
      <4>3. Stores(r[l], k) BY <3>2, <4>1, <4>2
      <4>4. l <= j BY <2>1, <4>3
      <4> QED BY <1>0, <3>2, <4>2, <4>4
    <3>3. \A n \in DOMAIN s : Stores(s[n], k) => n <= from[j] BY <1>0, <3>2
    <3> QED BY <1>0, <1>3, <2>1, <3>1, <3>3 DEF Latest
  <2>2. ASSUME \A j \in DOMAIN r : ~Stores(r[j], k)
        PROVE  stored
    <3>1. ASSUME NEW n \in DOMAIN s, Stores(s[n], k), n # i PROVE FALSE
      <4>1. PICK j \in DOMAIN r : from[j] = n BY <3>1
      <4>2. Stores(r[j], k) BY <1>0, <1>1, <3>1, <4>1
      <4> QED BY <2>2, <4>2
    <3>2. \A n \in DOMAIN s : Stores(s[n], k) => n <= i BY <1>0, <3>1
    <3>3. s[i].sound => s[i].value = v BY <1>3, <3>2 DEF Latest
    <3> QED BY <1>3, <3>3
  <2>3. Latest(r, k, v) BY <2>1 DEF Latest
  <2> QED BY <2>2, <2>3 DEF BecomesRight
<1> QED BY <1>2, <1>3 DEF BecomesRight

\* A group that is not going to be read was not before.
LEMMA ComingAgain ==
  ASSUME UNCHANGED <<groups, unwatched, pc, ready>>, NEW g,
         spawned[g] > 0 => spawned'[g] > 0,
         (\E a \in announced : a.group = g) => \E a \in announced' : a.group = g
  PROVE  Coming(g) => Coming(g)'
<1>1. RegisterStep(g)' = RegisterStep(g)
  BY DEF RegisterStep, StoreStep, QueryStep, UserGroups, One
<1>2. Fresh' <=> Fresh BY DEF Fresh
<1> QED BY <1>1, <1>2 DEF Coming

\* An update that goes on with its second setting.
LEMMA GoesOn ==
  ASSUME NEW u \in Update, NEW to \in {"lock", "read"}
  PROVE  [u EXCEPT !.at = 2, !.sound = TRUE, !.value = INVALID, !.step = to] \in Update
<1> DEFINE a == [u EXCEPT !.at = 2]
           b == [a EXCEPT !.sound = TRUE]
           c == [b EXCEPT !.value = INVALID]
<1>1. a \in Update
  <2>1. 2 \in 1 .. 2 OBVIOUS
  <2> QED BY <2>1 DEF Update
<1> HIDE DEF a
<1>2. b \in Update BY <1>1 DEF Update
<1> HIDE DEF b
<1>3. c \in Update BY <1>2 DEF Update
<1> HIDE DEF c
<1>4. [c EXCEPT !.step = to] \in Update BY <1>3 DEF Update
<1> QED BY <1>4 DEF a, b, c

\* The order of the updates when one has stored a setting.
LEMMA StoredFollows ==
  ASSUME DataInv, UpdatesInv, NEW i \in DOMAIN updates, StoreSetting(i),
         NEW k \in Keys, Follows(k)
  PROVE  Follows(k)'
<1> DEFINE u == updates[i]
           key == KeysOf[u.group][u.at]
           stored == [j \in DOMAIN updates |->
                        IF j < i THEN Overtaken(u, updates[j]) ELSE updates[j]]
           next == [u EXCEPT !.at = 2, !.sound = TRUE, !.value = INVALID,
                             !.step = IF u.group = "disturb" THEN "lock" ELSE "read"]
           more == u.at < Len(KeysOf[u.group]) /\ (u.by = ByDecision => u.group = "disturb")
<1>0. /\ updates \in Seq(Update) /\ \A j \in DOMAIN updates : updates[j] \in Update
      /\ \A j \in DOMAIN updates : Placed(updates[j], whiteListMutex)
      /\ DOMAIN updates = 1 .. Len(updates) /\ Len(updates) \in Nat
  BY DEF UpdatesInv, InPlace
<1>u. u \in Update /\ Placed(u, whiteListMutex) BY <1>0
<1>1. /\ u.step = "store" /\ cache' = [cache EXCEPT ![key] = u.value]
      /\ doubtful' = (IF u.sound THEN doubtful \ {key} ELSE doubtful \cup {key})
      /\ updates' = (IF more THEN [stored EXCEPT ![i] = next] ELSE RemoveAt(stored, i))
      /\ UNCHANGED <<data, userId>>
  BY DEF StoreSetting, external
<1>n. /\ next.group = u.group /\ next.at = 2 /\ next.step # "store"
      /\ next \in Update
  <2> DEFINE to == IF u.group = "disturb" THEN "lock" ELSE "read"
  <2>1. to \in {"lock", "read"} OBVIOUS
  <2> HIDE DEF to
  <2>2. next = [u EXCEPT !.at = 2, !.sound = TRUE, !.value = INVALID, !.step = to] BY DEF to
  <2> HIDE DEF next
  <2>3. u \in Update BY <1>u
  <2>4. next \in Update BY <2>1, <2>2, <2>3, GoesOn
  <2>5. next.group = u.group /\ next.at = 2 /\ next.step = to BY <2>2, <2>3 DEF Update
  <2> QED BY <2>1, <2>4, <2>5
<1>s. /\ DOMAIN stored = DOMAIN updates /\ stored[i] = u
      /\ \A j \in DOMAIN updates :
           stored[j] = IF j < i THEN Overtaken(u, updates[j]) ELSE updates[j]
  BY <1>0
<1>t. stored \in Seq(Update)
  <2>1. \A j \in DOMAIN updates : stored[j] \in Update BY <1>0, <1>u, <1>s, OvertakenFacts
  <2> HIDE DEF stored
  <2>2. \E n \in Nat : stored \in [1 .. n -> Update]
    <3>1. stored \in [1 .. Len(updates) -> Update]
      <4>1. stored = [j \in DOMAIN updates |-> stored[j]] BY DEF stored
      <4> QED BY <1>0, <2>1, <4>1
    <3> QED BY <1>0, <3>1
  <2> QED BY <2>2, SeqDef
<1> HIDE DEF stored, next
<1>k. /\ u.group \in Groups /\ u.at \in DOMAIN KeysOf[u.group]
      /\ key \in Keys /\ GroupOf[key] = u.group /\ Place(key) = u.at
      /\ \A m \in Keys : u.group = GroupOf[m] /\ u.at = Place(m) => m = key
      /\ more <=> u.at = 1 /\ u.group \in {"misc", "disturb"}
                   /\ (u.by = ByDecision => u.group = "disturb")
  <2>1. u.at \in DOMAIN KeysOf[u.group]
    BY <1>u, KeyFacts DEF Update, Placed
  <2>2. u.group \in Groups /\ u.at \in 1 .. 2 BY <1>u DEF Update
  <2>3. /\ key \in Keys /\ GroupOf[key] = u.group /\ Place(key) = u.at
        /\ Len(KeysOf[u.group]) = IF u.group \in {"misc", "disturb"} THEN 2 ELSE 1
    BY <2>1, <2>2, KeyFacts
  <2>4. \A m \in Keys : u.group = GroupOf[m] /\ u.at = Place(m) => m = key
    BY KeyFacts
  <2>5. u.at < Len(KeysOf[u.group]) <=> u.at = 1 /\ u.group \in {"misc", "disturb"}
    BY <2>2, <2>3
  <2> QED BY <2>1, <2>2, <2>3, <2>4, <2>5
<1> HIDE DEF key, more
<1>c. Current(k)' = Current(k) BY <1>1 DEF Current, TableOf
<1>f. BecomesRight(updates, k, Current(k), Kept(k)) BY DEF Follows
<1> DEFINE now == Kept(k)'
<1> HIDE DEF now
<1>g. SUFFICES BecomesRight(updates', k, Current(k), now)
  BY <1>c DEF Follows, BecomesRight, now
<1>2. CASE k = key
  <2>1. Stores(u, k) BY <1>1, <1>k, <1>2 DEF Stores
  <2>2. ASSUME u.sound => u.value = Current(k),
               \A j \in DOMAIN updates : ~StillToRead(updates[j], k)
        PROVE  Kept(k)'
    <3>1. cache'[k] = u.value BY <1>1, <1>2 DEF DataInv
    <3>2. CASE k # "whiteList" BY <1>1, <1>2, <1>c, <2>2, <3>1, <3>2 DEF Kept
    <3>3. CASE k = "whiteList"
      <4>1. Holds(u) BY <2>1, <3>3, WhereSettingsAre DEF Stores, Holds, Place
      <4>2. cache["switch"] = ON \/ \E j \in DOMAIN updates : updates[j].step = "lock"
        BY <4>1 DEF UpdatesInv, InPlace
      <4>3. \A j \in DOMAIN updates : updates[j].step # "lock"
        <5>1. ASSUME NEW j \in DOMAIN updates, updates[j].step = "lock" PROVE FALSE
          <6>1. updates[j].group = "disturb" BY <1>0, <5>1 DEF Placed
          <6>2. StillToRead(updates[j], k)
            BY <3>3, <5>1, <6>1, WhereSettingsAre DEF StillToRead, Place
          <6> QED BY <2>2, <6>2
        <5> QED BY <5>1
      <4>4. cache'["switch"] = ON BY <1>1, <1>2, <3>3, <4>2, <4>3 DEF DataInv
      <4> QED BY <1>1, <1>2, <1>c, <2>2, <3>1, <3>3, <4>4 DEF Kept, ON, OFF
    <3> QED BY <3>2, <3>3
  <2>6. (u.sound => u.value = Current(k)) /\ (\A j \in DOMAIN updates : ~StillToRead(updates[j], k))
          => now
    BY <2>2 DEF now
  <2>3. CASE more
    <3> DEFINE r == updates'
               from == [j \in DOMAIN updates |-> j]
    <3>1. /\ DOMAIN r = DOMAIN updates /\ r[i] = next
          /\ \A j \in DOMAIN updates \ {i} : r[j] = stored[j]
      BY <1>1, <1>s, <2>3
    <3>2. /\ from \in [DOMAIN r -> DOMAIN updates] /\ DOMAIN r \subseteq Nat
          /\ \A j \in DOMAIN r : from[j] = j
      BY <1>0, <3>1
    <3> HIDE DEF r, from
    <3>3. \A n \in DOMAIN updates \ {i} : \E j \in DOMAIN r : from[j] = n BY <3>1, <3>2
    <3>4. \A j, l \in DOMAIN r : (j <= l <=> from[j] <= from[l]) BY <3>2
    <3>5. ASSUME NEW j \in DOMAIN r
          PROVE  /\ from[j] = i => ~Stores(r[j], k)
                 /\ from[j] < i => r[j] = Overtaken(updates[i], updates[from[j]])
                 /\ from[j] > i => r[j] = updates[from[j]]
      <4>1. j \in DOMAIN updates /\ from[j] = j /\ j \in Nat /\ i \in Nat BY <1>0, <3>1, <3>2
      <4>2. CASE j = i BY <1>n, <3>1, <4>1, <4>2 DEF Stores
      <4>3. CASE j # i BY <1>s, <3>1, <4>1, <4>3
      <4> QED BY <4>2, <4>3
    <3>6. BecomesRight(r, k, Current(k), now)
      <4>1. from \in [DOMAIN r -> DOMAIN updates] BY <3>2
      <4>2. DOMAIN r \subseteq Nat BY <3>2
      <4> QED BY <1>0, <1>f, <2>1, <2>6, <3>3, <3>4, <3>5, <4>1, <4>2, OneIsStored
    <3> QED BY <3>6 DEF r
  <2>4. CASE ~more
    <3> DEFINE r == RemoveAt(stored, i)
    <3>i. i \in DOMAIN stored BY <1>s
    <3>1. DOMAIN r = 1 .. Len(stored) - 1 BY <3>i, <1>t, RemoveFacts
    <3>3. DOMAIN r \subseteq Nat BY <1>t, <3>1
    <3>e. r = RemoveAt(stored, i) OBVIOUS
    <3> HIDE DEF r
    <3>2. PICK from \in [DOMAIN r -> DOMAIN stored \ {i}] :
            /\ \A j \in DOMAIN r : r[j] = stored[from[j]]
            /\ \A n \in DOMAIN stored \ {i} : \E j \in DOMAIN r : from[j] = n
            /\ \A j, l \in DOMAIN r : j <= l <=> from[j] <= from[l]
      BY <1>t, <3>i, <3>e, OthersStay
    <3>4. from \in [DOMAIN r -> DOMAIN updates] BY <1>s, <3>2
    <3>5. ASSUME NEW j \in DOMAIN r
          PROVE  /\ from[j] = i => ~Stores(r[j], k)
                 /\ from[j] < i => r[j] = Overtaken(updates[i], updates[from[j]])
                 /\ from[j] > i => r[j] = updates[from[j]]
      <4>1. from[j] \in DOMAIN updates /\ from[j] # i /\ r[j] = stored[from[j]]
        BY <1>s, <3>2
      <4>2. from[j] \in Nat /\ i \in Nat BY <1>0, <4>1
      <4> QED BY <1>s, <4>1, <4>2
    <3>6. BecomesRight(r, k, Current(k), now)
      <4>1. \A n \in DOMAIN updates \ {i} : \E j \in DOMAIN r : from[j] = n BY <1>s, <3>2
      <4>2. \A j, l \in DOMAIN r : (j <= l <=> from[j] <= from[l]) BY <3>2
      <4> QED BY <1>0, <1>f, <2>1, <2>6, <3>3, <3>4, <3>5, <4>1, <4>2, OneIsStored
    <3> QED BY <1>1, <2>4, <3>6 DEF r
  <2> QED BY <2>3, <2>4
<1>3. CASE k # key
  <2>1. ~Stores(u, k) BY <1>1, <1>k, <1>3 DEF Stores
  <2>2. BecomesRight(stored, k, Current(k), Kept(k))
    BY <1>0, <1>u, <1>s, <1>f, SomeOvertaken
  <2>3. k # "whiteList" \/ key # "switch" => (now <=> Kept(k))
    <3>1. cache'[k] = cache[k] /\ (k \in doubtful' <=> k \in doubtful)
      BY <1>1, <1>3 DEF DataInv
    <3>2. key # "switch" => cache'["switch"] = cache["switch"]
                              /\ ("switch" \in doubtful' <=> "switch" \in doubtful)
      BY <1>1, WhereSettingsAre DEF DataInv
    <3> QED BY <1>c, <3>1, <3>2 DEF Kept, now
  <2>4. CASE more
    <3>1. updates' = [stored EXCEPT ![i] = next] BY <1>1, <2>4
    <3>2. CASE GroupOf[k] = u.group
      <4>1. Place(k) = 2 BY <1>k, <1>3, <2>4, <3>2 DEF Place
      <4>2. StillToRead(next, k) BY <1>n, <3>2, <4>1 DEF StillToRead
      <4> QED BY <1>s, <1>t, <3>1, <4>2, WithOneChanged
    <3>3. CASE GroupOf[k] # u.group
      <4>1. now <=> Kept(k) BY <1>k, <2>3, <3>3, WhereSettingsAre
      <4>2. ~StillToRead(u, k) /\ ~Stores(next, k)
        BY <1>n, <3>3 DEF StillToRead, Stores
      <4>3. BecomesRight(updates', k, Current(k), Kept(k))
        BY <1>s, <1>t, <2>1, <2>2, <3>1, <4>2, WithOneChanged
      <4> QED BY <4>1, <4>3 DEF BecomesRight
    <3> QED BY <3>2, <3>3
  <2>5. CASE ~more
    <3>1. updates' = RemoveAt(stored, i) BY <1>1, <2>5
    <3>2. ~StillToRead(u, k)
      <4>1. CASE u.at = 2 BY <1>1, <4>1 DEF StillToRead
      <4>2. CASE u.at = 1
        <5>1. GroupOf[k] = u.group /\ Place(k) = 2 => u.group \in {"misc", "disturb"}
          BY KeyFacts
        <5> QED BY <1>1, <1>k, <2>5, <4>2, <5>1 DEF StillToRead
      <4> QED BY <1>u, <4>1, <4>2 DEF Update
    <3>3. BecomesRight(updates', k, Current(k), Kept(k))
      BY <1>s, <1>t, <2>1, <2>2, <3>1, <3>2, WithoutOne
    <3>4. key # "switch"
      BY <1>k, <2>5, WhereSettingsAre DEF Place
    <3> QED BY <2>3, <3>3, <3>4 DEF BecomesRight
  <2> QED BY <2>4, <2>5
<1> QED BY <1>2, <1>3

\* The updates are in place when one has stored a setting.
LEMMA StoredPlaced ==
  ASSUME DataInv, UpdatesInv, NEW i \in DOMAIN updates, StoreSetting(i)
  PROVE  UpdatesInv' /\ cache' \in [Keys -> {INVALID, OFF, ON}]
<1> DEFINE u == updates[i]
           key == KeysOf[u.group][u.at]
           stored == [j \in DOMAIN updates |->
                        IF j < i THEN Overtaken(u, updates[j]) ELSE updates[j]]
           to == IF u.group = "disturb" THEN "lock" ELSE "read"
           next == [u EXCEPT !.at = 2, !.sound = TRUE, !.value = INVALID, !.step = to]
           more == u.at < Len(KeysOf[u.group]) /\ (u.by = ByDecision => u.group = "disturb")
           on == cache["switch"] = ON
<1>0. /\ updates \in Seq(Update) /\ \A j \in DOMAIN updates : updates[j] \in Update
      /\ \A j \in DOMAIN updates : Placed(updates[j], whiteListMutex)
      /\ DOMAIN updates = 1 .. Len(updates) /\ Len(updates) \in Nat
      /\ InPlace(updates, whiteListMutex, on)
  BY DEF UpdatesInv, InPlace
<1>u. u \in Update /\ Placed(u, whiteListMutex) BY <1>0
<1>1. /\ u.step = "store" /\ cache' = [cache EXCEPT ![key] = u.value]
      /\ updates' = (IF more THEN [stored EXCEPT ![i] = next] ELSE RemoveAt(stored, i))
      /\ whiteListMutex' = (whiteListMutex /\ key # "whiteList")
  BY DEF StoreSetting
<1>n. next \in Update /\ next.group = u.group /\ next.at = 2 /\ next.step = to
  BY <1>u, GoesOn DEF Update
<1>s. /\ DOMAIN stored = DOMAIN updates /\ stored[i] = u
      /\ \A j \in DOMAIN updates : stored[j] = updates[j] \/ stored[j] = Overtaken(u, updates[j])
  BY <1>0
<1> HIDE DEF stored, next
<1>k. /\ u.group \in Groups /\ u.at \in DOMAIN KeysOf[u.group]
      /\ key \in Keys /\ GroupOf[key] = u.group /\ Place(key) = u.at
      /\ (more <=> u.at = 1 /\ u.group \in {"misc", "disturb"}
                   /\ (u.by = ByDecision => u.group = "disturb"))
  <2>1. u.at \in DOMAIN KeysOf[u.group]
    BY <1>u, KeyFacts DEF Update, Placed
  <2>2. u.group \in Groups /\ u.at \in 1 .. 2 BY <1>u DEF Update
  <2>3. /\ key \in Keys /\ GroupOf[key] = u.group /\ Place(key) = u.at
        /\ Len(KeysOf[u.group]) = IF u.group \in {"misc", "disturb"} THEN 2 ELSE 1
    BY <2>1, <2>2, KeyFacts
  <2>5. u.at < Len(KeysOf[u.group]) <=> u.at = 1 /\ u.group \in {"misc", "disturb"}
    BY <2>2, <2>3
  <2> QED BY <2>1, <2>2, <2>3, <2>5
<1> HIDE DEF key, more
<1>c. cache' \in [Keys -> {INVALID, OFF, ON}]
  <2>1. u.value \in {INVALID, OFF, ON} BY <1>u DEF Update
  <2> QED BY <1>1, <2>1 DEF DataInv
<1>p. InPlace(stored, whiteListMutex, on) 
  <2>1. stored = [j \in DOMAIN stored |-> stored[j]] BY DEF stored
  <2> QED BY <1>0, <1>u, <1>s, <2>1, PlacedOvertaken
<1> HIDE DEF u
<1>2. CASE more
  <2>1. u.at = 1 /\ u.group \in {"misc", "disturb"} BY <1>k, <1>2
  <2>2. /\ DOMAIN updates' = DOMAIN stored /\ updates'[i] = next
        /\ \A j \in DOMAIN stored : j # i => updates'[j] = stored[j]
    BY <1>1, <1>s, <1>2
  <2>3. whiteListMutex' <=> whiteListMutex
    <3>1. key # "whiteList" BY <1>k, <2>1 DEF Place
    <3> QED BY <1>1, <3>1
  <2>4. Placed(next, whiteListMutex) /\ ~Holds(next) /\ ~Holds(stored[i])
    <3>1. ~Holds(next) BY <1>n, <2>1 DEF Holds
    <3>2. ~Holds(stored[i]) BY <1>s, <2>1 DEF Holds
    <3> QED BY <1>n, <2>1, <3>1, <3>2 DEF Placed
  <2>5. updates' \in Seq(Update)
    <3>1. stored \in Seq(Update) BY <1>p DEF InPlace
    <3>2. next \in Update /\ i \in DOMAIN stored BY <1>n, <1>s
    <3>3. [stored EXCEPT ![i] = next] \in Seq(Update) BY <3>1, <3>2
    <3> QED BY <1>1, <1>2, <3>3
  <2>6. \A j \in DOMAIN updates' : Placed(updates'[j], whiteListMutex)
    BY <1>p, <2>2, <2>4 DEF InPlace
  <2>7. \A j, l \in DOMAIN updates' : Holds(updates'[j]) /\ Holds(updates'[l]) => j = l
    BY <1>p, <2>2, <2>4 DEF InPlace
  <2>8. (\E j \in DOMAIN updates' : Holds(updates'[j])) =>
          cache'["switch"] = ON \/ \E j \in DOMAIN updates' : updates'[j].step = "lock"
    <3>1. CASE u.group = "disturb"
      <4>1. i \in DOMAIN updates' /\ updates'[i].step = "lock" BY <1>s, <1>n, <2>2, <3>1
      <4> QED BY <4>1
    <3>2. CASE u.group # "disturb"
      <4>1. key # "switch" BY <1>k, <3>2, WhereSettingsAre
      <4>2. cache'["switch"] = cache["switch"] BY <1>1, <4>1, WhereSettingsAre DEF DataInv
      <4>3. stored[i].step # "lock" BY <1>1, <1>s
      <4> QED BY <1>p, <2>2, <2>4, <4>2, <4>3 DEF InPlace
    <3> QED BY <3>1, <3>2
  <2>9. \A j \in DOMAIN updates' : Placed(updates'[j], whiteListMutex')
    BY <2>3, <2>6 DEF Placed
  <2> QED BY <1>c, <2>5, <2>7, <2>8, <2>9 DEF UpdatesInv, InPlace
<1>3. CASE ~more
  <2>1. i \in DOMAIN stored /\ stored[i].step # "lock" BY <1>1, <1>s
  <2>2. /\ InPlace(updates', whiteListMutex, on)
        /\ Holds(stored[i]) => \A j \in DOMAIN updates' : ~Holds(updates'[j])
    BY <1>1, <1>3, <1>p, <2>1, PlacedWithoutOne
  <2>3. key # "switch" BY <1>k, <1>3, WhereSettingsAre DEF Place
  <2>4. cache'["switch"] = cache["switch"] BY <1>1, <2>3, WhereSettingsAre DEF DataInv
  <2>5. CASE key = "whiteList"
    <3>1. Holds(stored[i])
      BY <1>1, <1>k, <1>s, <2>5, WhereSettingsAre DEF Holds, Place
    <3>2. \A j \in DOMAIN updates' : ~Holds(updates'[j]) BY <2>2, <3>1
    <3> QED BY <1>c, <2>2, <3>2 DEF UpdatesInv, InPlace, Placed
  <2>6. CASE key # "whiteList"
    <3>1. whiteListMutex' <=> whiteListMutex BY <1>1, <2>6
    <3>2. InPlace(updates', whiteListMutex', on) BY <2>2, <3>1 DEF InPlace, Placed
    <3> QED BY <1>c, <2>4, <3>2 DEF UpdatesInv
  <2> QED BY <2>5, <2>6
<1> QED BY <1>2, <1>3

\* An update that looks at the copy of the switch, and what it does then.
LEMMA LooksAtSwitch ==
  ASSUME DataInv, UpdatesInv, NEW i \in DOMAIN updates, InitDoNotDisturbData(i)
  PROVE  /\ UpdatesInv' /\ cache' \in [Keys -> {INVALID, OFF, ON}]
         /\ \A k \in Keys : Follows(k) => Follows(k)'
<1> DEFINE u == updates[i]
           on == cache["switch"] = ON
<1>0. /\ updates \in Seq(Update) /\ \A j \in DOMAIN updates : updates[j] \in Update
      /\ \A j \in DOMAIN updates : Placed(updates[j], whiteListMutex)
      /\ InPlace(updates, whiteListMutex, on)
  BY DEF UpdatesInv, InPlace
<1>1. /\ u \in Update /\ u.group = "disturb" /\ u.at = 2 /\ u.step = "lock"
      /\ UNCHANGED <<data, userId, doubtful>> /\ ~whiteListMutex
  BY <1>0 DEF InitDoNotDisturbData, Placed, external
<1>2. \A j \in DOMAIN updates : ~Holds(updates[j]) BY <1>0, <1>1 DEF Placed
<1>c. \A k : Current(k)' = Current(k) BY <1>1 DEF Current, TableOf
<1>w. StillToRead(u, "whiteList") /\ \A k : ~Stores(u, k)
  BY <1>1, WhereSettingsAre DEF StillToRead, Stores, Place
<1>3. CASE /\ cache["switch"] = ON /\ whiteListMutex' = TRUE
           /\ updates' = [updates EXCEPT ![i].step = "read"] /\ UNCHANGED cache
  <2> DEFINE x == [u EXCEPT !.step = "read"]
  <2>1. updates' = [updates EXCEPT ![i] = x] BY <1>3
  <2>2. x \in Update /\ x.group = "disturb" /\ x.at = 2 /\ x.step = "read" BY <1>1 DEF Update
  <2> HIDE DEF x
  <2>3. /\ DOMAIN updates' = DOMAIN updates /\ updates'[i] = x
        /\ \A j \in DOMAIN updates : j # i => updates'[j] = updates[j]
    BY <2>1
  <2>4. updates' \in Seq(Update)
    <3>1. [updates EXCEPT ![i] = x] \in Seq(Update) BY <1>0, <2>2
    <3> QED BY <2>1, <3>1
  <2>5. Placed(x, TRUE) BY <2>2 DEF Placed
  <2>6. \A j \in DOMAIN updates' : Placed(updates'[j], TRUE)
    BY <1>0, <2>3, <2>5 DEF Placed
  <2>7. \A j, l \in DOMAIN updates' : Holds(updates'[j]) /\ Holds(updates'[l]) => j = l
    BY <1>2, <2>3
  <2>8. UpdatesInv' BY <1>3, <2>4, <2>6, <2>7 DEF UpdatesInv, InPlace
  <2>9. ASSUME NEW k \in Keys, Follows(k)
        PROVE  Follows(k)'
    <3>1. Kept(k)' <=> Kept(k) BY <1>1, <1>3, <1>c DEF Kept
    <3>2. StillToRead(u, k) => StillToRead(x, k) BY <1>1, <2>2 DEF StillToRead
    <3>3. ~Stores(x, k) BY <2>2 DEF Stores
    <3>4. BecomesRight(updates', k, Current(k), Kept(k))
      BY <1>0, <1>w, <2>1, <2>9, <3>2, <3>3, WithOneChanged DEF Follows
    <3> QED BY <1>c, <3>1, <3>4 DEF Follows, BecomesRight
  <2> QED BY <1>3, <2>8, <2>9 DEF DataInv
<1>4. CASE /\ cache["switch"] = OFF /\ cache' = [cache EXCEPT !["whiteList"] = OFF]
           /\ updates' = RemoveAt(updates, i) /\ UNCHANGED whiteListMutex
  <2>1. cache'["switch"] = cache["switch"] /\ cache'["whiteList"] = OFF
    BY <1>4, WhereSettingsAre DEF DataInv
  <2>2. InPlace(RemoveAt(updates, i), whiteListMutex, on)
    BY <1>0, <1>2, PlacedWithoutOne
  <2>3. UpdatesInv' BY <1>4, <2>1, <2>2 DEF UpdatesInv
  <2>4. ASSUME NEW k \in Keys, Follows(k)
        PROVE  Follows(k)'
    <3>1. CASE k # "whiteList"
      <4>1. ~StillToRead(u, k)
        BY <1>1, <3>1, KeyFacts, WhereSettingsAre DEF StillToRead, Place
      <4>2. BecomesRight(updates', k, Current(k), Kept(k))
        BY <1>0, <1>4, <1>w, <2>4, <4>1, WithoutOne DEF Follows
      <4>3. Kept(k)' <=> Kept(k)
        <5>1. cache'[k] = cache[k] BY <1>4, <3>1 DEF DataInv
        <5> QED BY <1>1, <1>c, <3>1, <5>1 DEF Kept
      <4> QED BY <1>c, <4>2, <4>3 DEF Follows, BecomesRight
    <3>2. CASE k = "whiteList"
      <4>1. Kept(k)' BY <1>4, <2>1, <3>2 DEF Kept, ON, OFF
      <4>2. \A j \in DOMAIN updates' : ~Stores(updates'[j], k)
        <5>1. ASSUME NEW j \in DOMAIN updates', Stores(updates'[j], k) PROVE FALSE
          <6>1. Holds(updates'[j])
            BY <3>2, <5>1, WhereSettingsAre DEF Stores, Holds, Place
          <6>2. whiteListMutex BY <2>2, <1>4, <5>1, <6>1 DEF InPlace, Placed
          <6> QED BY <1>1, <6>2
        <5> QED BY <5>1
      <4> QED BY <4>1, <4>2 DEF Follows, BecomesRight, Latest
    <3> QED BY <3>1, <3>2
  <2>5. cache' \in [Keys -> {INVALID, OFF, ON}] BY <1>4 DEF DataInv
  <2> QED BY <2>3, <2>4, <2>5
<1> QED BY <1>3, <1>4 DEF InitDoNotDisturbData

\* An update that goes on with a setting of its group.
LEMMA ReadsOn ==
  ASSUME DataInv, UpdatesInv, NEW i \in DOMAIN updates, ReadSetting(i)
  PROVE  /\ UpdatesInv' /\ cache' \in [Keys -> {INVALID, OFF, ON}]
         /\ \A k \in Keys : Follows(k) => Follows(k)'
<1> DEFINE u == updates[i]
           others == RemoveAt(updates, i)
           on == cache["switch"] = ON
<1>0. /\ updates \in Seq(Update) /\ \A j \in DOMAIN updates : updates[j] \in Update
      /\ \A j \in DOMAIN updates : Placed(updates[j], whiteListMutex)
      /\ InPlace(updates, whiteListMutex, on)
  BY DEF UpdatesInv, InPlace
<1>1. u.step = "read" /\ Read(u, others) /\ UNCHANGED <<data, userId>>
  BY DEF ReadSetting, external
<1>2. u \in Update /\ u.at = 2 /\ u.group \in {"misc", "disturb"} /\ u.group \in Groups
  BY <1>0, <1>1 DEF Placed, Update
<1>3. AtSetting(u)
  <2>1. 2 \in DOMAIN KeysOf[u.group] BY <1>2, KeyFacts
  <2> QED BY <1>1, <1>2, <2>1 DEF AtSetting
<1>4. /\ InPlace(others, whiteListMutex, on)
      /\ Holds(u) => \A j \in DOMAIN others : ~Holds(others[j])
      /\ (\E j \in DOMAIN updates : updates[j].step = "lock") =>
           \E j \in DOMAIN others : others[j].step = "lock"
  BY <1>0, <1>1, PlacedWithoutOne
<1>5. Holds(u) => whiteListMutex /\ (on \/ \E j \in DOMAIN others : others[j].step = "lock")
  BY <1>0, <1>4 DEF Placed, InPlace
<1>6. data[TableOf(u.group)] \in Settings BY DEF DataInv, TableOf, Tables
<1> HIDE DEF u, others
<1>7. UpdatesInv' /\ cache' \in [Keys -> {INVALID, OFF, ON}]
  BY <1>1, <1>3, <1>4, <1>5, <1>6, ReadPlaced
<1>8. ASSUME NEW k \in Keys, Follows(k)
      PROVE  Follows(k)'
  <2>1. CASE u.group = GroupOf[k] /\ u.at = Place(k)
    BY <1>1, <1>3, <1>4, <2>1, ReadFollows
  <2>2. CASE ~(u.group = GroupOf[k] /\ u.at = Place(k))
    <3>1. ~Stores(u, k) /\ ~StillToRead(u, k) BY <1>2, <2>2 DEF Stores, StillToRead
    <3>2. BecomesRight(others, k, Current(k), Kept(k))
      BY <1>0, <1>8, <3>1, WithoutOne DEF Follows, u, others
    <3> QED BY <1>1, <1>3, <1>4, <3>2, ReadFollows
  <2> QED BY <2>1, <2>2
<1> QED BY <1>7, <1>8

\* An update function begins: its group is read, and the others are as they were.
LEMMA BeginsToRead ==
  ASSUME DataInv, UpdatesInv, NEW g \in Groups, NEW by \in Nat \cup {ByDecision},
         NEW at \in DOMAIN KeysOf[g], BeginUpdate(g, by, at), UNCHANGED <<data, userId>>,
         at = 2 => g = "misc"
  PROVE  /\ UpdatesInv' /\ cache' \in [Keys -> {INVALID, OFF, ON}]
         /\ \A k \in Keys : Follows(k) => Follows(k)'
         /\ by # ByDecision /\ at = 1 => \A k \in Keys : GroupOf[k] = g => Follows(k)'
<1> DEFINE u == [group |-> g, by |-> by, at |-> at, step |-> "read", value |-> INVALID,
                 sound |-> TRUE]
<1>1. Read(u, updates) BY DEF BeginUpdate
<1>2. /\ u.group = g /\ u.by = by /\ u.at = at /\ u.step = "read" OBVIOUS
<1>3. at \in 1 .. 2 BY KeyFacts
<1>4. u \in Update BY <1>3 DEF Update
<1> HIDE DEF u
<1>5. AtSetting(u) BY <1>2, <1>4 DEF AtSetting
<1>6. ~Holds(u) BY <1>2 DEF Holds
<1>7. data[TableOf(u.group)] \in Settings BY DEF DataInv, TableOf, Tables
<1>8. InPlace(updates, whiteListMutex, cache["switch"] = ON) BY DEF UpdatesInv
<1>9. UpdatesInv' /\ cache' \in [Keys -> {INVALID, OFF, ON}]
  BY <1>1, <1>5, <1>6, <1>7, <1>8, ReadPlaced
<1>10. \A k \in Keys :
         (u.group = GroupOf[k] /\ u.at = Place(k))
             \/ BecomesRight(updates, k, Current(k), Kept(k))
           => Follows(k)'
  BY <1>1, <1>5, <1>6, <1>8, ReadFollows
<1>11. ASSUME by # ByDecision, NEW k \in Keys, GroupOf[k] = g, at = 1
       PROVE  Follows(k)'
  <2>1. CASE Place(k) = 1 BY <1>2, <1>10, <1>11, <2>1
  <2>2. CASE Place(k) = 2
    <3>1. g \in {"misc", "disturb"} BY <1>11, <2>2, KeyFacts
    <3>2. KeysOf[g][at] \notin {"whiteList", "inputMethods"}
      <4>1. GroupOf[KeysOf[g][at]] = g /\ Place(KeysOf[g][at]) = 1 BY <1>11, KeyFacts
      <4>2. GroupOf["inputMethods"] = "inputMethod"
        <5>1. "inputMethod" \in Groups /\ 1 \in DOMAIN KeysOf["inputMethod"]
          BY KeyFacts DEF Groups
        <5>2. KeysOf["inputMethod"][1] = "inputMethods" BY DEF KeysOf, Groups
        <5> QED BY <5>1, <5>2, KeyFacts
      <4> QED BY <3>1, <4>1, <4>2 DEF Place
    <3>3. PICK answers \in BOOLEAN : GetIntValue(u, updates, answers)
      BY <1>1, <1>2, <3>2 DEF Read, GetWhiteListValueFails, InitInputMethodDataFails
    <3> DEFINE w == IF answers THEN data[TableOf(u.group)][KeysOf[u.group][u.at]]
                               ELSE OnFailure(u, KeysOf[u.group][u.at])
               x == [u EXCEPT !.step = "store", !.sound = answers, !.value = w]
    <3>4. updates' = Append(updates, x) BY <3>3 DEF GetIntValue
    <3> HIDE DEF w
    <3>5. x.group = g /\ x.by = by /\ x.at = at BY <1>2, <1>4 DEF Update
    <3> HIDE DEF x
    <3>6. StillToRead(x, k) BY <1>11, <2>2, <3>5 DEF StillToRead
    <3>7. updates \in Seq(Update) BY DEF UpdatesInv, InPlace
    <3>8. BecomesRight(Append(updates, x), k, Current(k)', Kept(k)')
      <4>1. /\ Len(updates) + 1 \in DOMAIN Append(updates, x)
            /\ Append(updates, x)[Len(updates) + 1] = x
        BY <3>7
      <4> QED BY <3>6, <4>1 DEF BecomesRight
    <3> QED BY <3>4, <3>8 DEF Follows, BecomesRight
  <2> QED BY <2>1, <2>2 DEF Place
<1> QED BY <1>9, <1>10, <1>11 DEF Follows

-------------------------------------------------------------------------------
(* The invariant. *)

\* What an update function does.
UpdateStep ==
  \/ \E a \in announced : NotifyObserver(a)
  \/ \E g \in groups : ExecRegisterCb(g) \/ UpdateStatus(g)
  \/ \E i \in DOMAIN updates : ReadSetting(i) \/ StoreSetting(i) \/ InitDoNotDisturbData(i)

\* An update function keeps what is said of the copies: it reads the group whose
\* announcement or whose thread it takes.
LEMMA UpdatesFollow ==
  ASSUME ObservedInv, DataInv, UpdatesInv, FollowInv, UpdateStep
  PROVE  UpdatesInv' /\ cache' \in [Keys -> {INVALID, OFF, ON}] /\ FollowInv'
<1> USE DEF external, startup, watching, muting
<1>0. groups \subseteq Groups BY DEF ObservedInv, Types
<1>1. ASSUME NEW a \in announced, NotifyObserver(a)
      PROVE  UpdatesInv' /\ cache' \in [Keys -> {INVALID, OFF, ON}] /\ FollowInv'
  <2>1. /\ UNCHANGED <<groups, data, userId, unwatched, pc, ready, spawned>>
        /\ announced' = announced \ {a} /\ BeginUpdate(a.group, a.number, 1)
    BY <1>1 DEF NotifyObserver
  <2>2. a.group \in Groups /\ a.number \in Nat /\ a.number # ByDecision
    BY DEF DataInv, ByDecision
  <2>3. 1 \in DOMAIN KeysOf[a.group] BY <2>2, KeyFacts
  <2>4. /\ UpdatesInv' /\ cache' \in [Keys -> {INVALID, OFF, ON}]
        /\ \A k \in Keys : Follows(k) => Follows(k)'
        /\ \A k \in Keys : GroupOf[k] = a.group => Follows(k)'
    BY <2>1, <2>2, <2>3, BeginsToRead
  <2>5. ASSUME NEW k \in Keys, GroupOf[k] \in groups, ~Coming(GroupOf[k])',
               GroupOf[k] # a.group
        PROVE  Follows(k)'
    <3>1. ~Coming(GroupOf[k]) BY <2>1, <2>5, ComingAgain
    <3> QED BY <2>4, <2>5, <3>1 DEF FollowInv
  <2> QED BY <2>1, <2>4, <2>5 DEF FollowInv
<1>2. ASSUME NEW g \in groups, ExecRegisterCb(g)
      PROVE  UpdatesInv' /\ cache' \in [Keys -> {INVALID, OFF, ON}] /\ FollowInv'
  <2>1. /\ UNCHANGED <<groups, data, userId, unwatched, pc, ready, announced>>
        /\ spawned' = [spawned EXCEPT ![g] = @ - 1] /\ BeginUpdate(g, ByRegistration, 1)
    BY <1>2 DEF ExecRegisterCb
  <2>2. g \in Groups /\ ByRegistration \in Nat /\ ByRegistration # ByDecision
    BY <1>0 DEF ByRegistration, ByDecision
  <2>3. 1 \in DOMAIN KeysOf[g] BY <2>2, KeyFacts
  <2>4. /\ UpdatesInv' /\ cache' \in [Keys -> {INVALID, OFF, ON}]
        /\ \A k \in Keys : Follows(k) => Follows(k)'
        /\ \A k \in Keys : GroupOf[k] = g => Follows(k)'
    BY <2>1, <2>2, <2>3, BeginsToRead
  <2>5. ASSUME NEW k \in Keys, GroupOf[k] \in groups, ~Coming(GroupOf[k])', GroupOf[k] # g
        PROVE  Follows(k)'
    <3>1. spawned'[GroupOf[k]] = spawned[GroupOf[k]]
      BY <2>1, <2>5, KeyFacts DEF DataInv
    <3>2. ~Coming(GroupOf[k]) BY <2>1, <2>5, <3>1, ComingAgain
    <3> QED BY <2>4, <2>5, <3>2 DEF FollowInv
  <2> QED BY <2>1, <2>4, <2>5 DEF FollowInv
<1>3. ASSUME \A k \in Keys : Follows(k) => Follows(k)',
             UNCHANGED <<groups, unwatched, pc, ready, spawned, announced>>
      PROVE  FollowInv'
  <2>1. \A g : Coming(g) => Coming(g)' BY <1>3, ComingAgain
  <2> QED BY <1>3, <2>1 DEF FollowInv
<1>4. ASSUME NEW g \in groups, UpdateStatus(g)
      PROVE  UpdatesInv' /\ cache' \in [Keys -> {INVALID, OFF, ON}] /\ FollowInv'
  <2>1. UNCHANGED <<groups, data, userId, unwatched, pc, ready, spawned, announced>>
    BY <1>4 DEF UpdateStatus
  <2>2. PICK at \in DOMAIN KeysOf[g] :
          (g = "disturb" => at = 1) /\ BeginUpdate(g, ByDecision, at)
    BY <1>4 DEF UpdateStatus
  <2>3. g \in Groups /\ ByDecision \in Nat \cup {ByDecision} BY <1>0
  <2>4. at = 2 => g = "misc" BY <2>2, <2>3, KeyFacts
  <2>5. /\ UpdatesInv' /\ cache' \in [Keys -> {INVALID, OFF, ON}]
        /\ \A k \in Keys : Follows(k) => Follows(k)'
    BY <2>1, <2>2, <2>3, <2>4, BeginsToRead
  <2> QED BY <1>3, <2>1, <2>5
<1>5. ASSUME NEW i \in DOMAIN updates,
             ReadSetting(i) \/ StoreSetting(i) \/ InitDoNotDisturbData(i)
      PROVE  UpdatesInv' /\ cache' \in [Keys -> {INVALID, OFF, ON}] /\ FollowInv'
  <2>1. UNCHANGED <<groups, unwatched, pc, ready, spawned, announced>>
    BY <1>5 DEF ReadSetting, StoreSetting, InitDoNotDisturbData
  <2>2. /\ UpdatesInv' /\ cache' \in [Keys -> {INVALID, OFF, ON}]
        /\ \A k \in Keys : Follows(k) => Follows(k)'
    BY <1>5, ReadsOn, StoredPlaced, StoredFollows, LooksAtSwitch
  <2> QED BY <1>3, <2>1, <2>2
<1> QED BY <1>1, <1>2, <1>4, <1>5 DEF UpdateStep

\* ... and the rest of the invariant.
LEMMA UpdatesKeep ==
  ASSUME ObservedInv, CopiesInv, UpdateStep
  PROVE  CopiesInv'
<1> USE DEF CopiesInv, external, startup, watching, muting
<1>1. UpdatesInv' /\ cache' \in [Keys -> {INVALID, OFF, ON}] /\ FollowInv' BY UpdatesFollow
<1>2. /\ UNCHANGED <<groups, data, active, userId, queried, registered, ready, pc, mute,
                     watch, isVibratorMute, muteMissed>>
      /\ announced' \subseteq announced
      /\ spawned' = spawned
           \/ \E g \in groups : spawned[g] > 0 /\ spawned' = [spawned EXCEPT ![g] = @ - 1]
  BY DEF UpdateStep, NotifyObserver, ExecRegisterCb, UpdateStatus, ReadSetting, StoreSetting,
    InitDoNotDisturbData
<1>3. spawned' \in [Groups -> Nat]
  <2>1. CASE spawned' = spawned BY <2>1 DEF DataInv
  <2>2. ASSUME NEW g \in groups, spawned[g] > 0, spawned' = [spawned EXCEPT ![g] = @ - 1]
        PROVE  spawned' \in [Groups -> Nat]
    <3>1. g \in Groups BY DEF ObservedInv, Types
    <3>2. spawned[g] - 1 \in Nat BY <2>2, <3>1 DEF DataInv
    <3> QED BY <2>2, <3>2 DEF DataInv
  <2> QED BY <1>2, <2>1, <2>2
<1>4. DataInv' BY <1>1, <1>2, <1>3 DEF DataInv
<1>5. MiscInv' BY <1>2 DEF MiscInv, Observing, Fresh
<1>6. MuteInv' BY <1>2, MuteKeeps
<1> QED BY <1>1, <1>4, <1>5, <1>6

\* At first nothing is registered, and everything is going to be read.
LEMMA NothingIsCopied ==
  ASSUME Init
  PROVE  CopiesInv
<1> USE DEF Init
<1>1. DataInv
  <2>1. \A t \in Tables : data[t] \in Settings BY DEF Settings
  <2> QED BY <2>1, SettingsAssumption DEF DataInv, Settings
<1>2. Fresh BY DEF Fresh, Loaders
<1>3. MiscInv BY <1>2 DEF MiscInv
<1>4. MuteInv BY DEF MuteInv
<1>5. UpdatesInv BY DEF UpdatesInv, InPlace
<1>6. FollowInv BY <1>2 DEF FollowInv, Coming
<1> QED BY <1>1, <1>3, <1>4, <1>5, <1>6 DEF CopiesInv

\* In every state a setting that is not going to be read has been read in order:
\* of the updates that are to store it the last has read what is there, and if
\* there is none the copy is right.
THEOREM CopiesStayRight == Spec => []CopiesInv
<1>1. ASSUME ObservedInv, CopiesInv, [Next]_vars
      PROVE  CopiesInv'
  <2>1. ASSUME NEW table \in Tables, NEW k \in Keys, Change(table, k)
        PROVE  CopiesInv'
    BY <1>1, <2>1, ChangeKeeps
  <2>2. CASE UpdateStep BY <1>1, <2>2, UpdatesKeep
  <2>3. CASE LoaderStep
    <3>1. DataInv' BY <1>1, <2>3, LoadersData DEF CopiesInv
    <3>2. MiscInv' BY <1>1, <2>3, LoadersMisc DEF CopiesInv
    <3>3. MuteInv' BY <1>1, <2>3, MuteKeeps DEF CopiesInv
    <3>4. UpdatesInv' /\ FollowInv' BY <1>1, <2>3, LoadersFollow DEF CopiesInv
    <3> QED BY <3>1, <3>2, <3>3, <3>4 DEF CopiesInv
  <2>4. \/ \E table \in Tables, k \in Keys : Change(table, k)
        \/ UpdateStep \/ LoaderStep
    BY <1>1 DEF Next, UpdateStep, LoaderStep, OnAddSystemAbility, OnReceiveEvent,
      UnregisterUserObserver, UnregisterUser100Observer, UnregisterUserImfObserver,
      RegisterUserImfObserver, RegisterUser100Observer, RegisterUserObserver
  <2> QED BY <2>1, <2>2, <2>3, <2>4
<1>2. Init => CopiesInv BY NothingIsCopied
<1> QED BY <1>1, <1>2, ObserversStayRight, PTL DEF Spec

\* The copy of a setting is the current user's once nothing is under way, unless
\* its latest read failed or was stored after a later one; a do-not-disturb
\* switch that is off goes with no white list; and from the first read of the mute
\* parameter on, at the start or at the first decision, its copy is right whenever
\* no callback is due, unless it changed with nobody watching (UpdateStatus,
\* InitDoNotDisturbData, ReregisterCurrentUserObserver, ShouldIgnoreVibrate,
\* RegisterDeviceMuteObserver, ParameterCallback).
THEOREM CopiesFollowSettings == Spec => []CopiesFollow
<1>1. ASSUME ObservedInv, CopiesInv
      PROVE  CopiesFollow
  <2>0. groups \subseteq Groups /\ pc \in [Loaders -> Nat] BY <1>1 DEF ObservedInv, Types
  <2>1. ASSUME NEW k \in Keys, GroupOf[k] \in groups, Settled(GroupOf[k])
        PROVE  Kept(k)
    <3>1. ~Coming(GroupOf[k])
      <4>1. \A t \in Loaders : pc[t] \notin 1 .. RegisterStep(GroupOf[k])
        BY <2>1 DEF Settled, LoadersIdle
      <4>2. ~(spawned[GroupOf[k]] > 0) BY <2>1 DEF Settled
      <4> QED BY <2>1, <4>1, <4>2 DEF Coming, Settled, Fresh
    <3>2. Follows(k) BY <1>1, <2>1, <3>1 DEF CopiesInv, FollowInv
    <3>3. \A i \in DOMAIN updates : updates[i].group # GroupOf[k] BY <2>1 DEF Settled
    <3> QED BY <3>2, <3>3 DEF Follows, BecomesRight, StillToRead, Stores
  <2>2. \A k \in Keys :
          LET g == GroupOf[k]
          IN g \in groups /\ Settled(g) /\ k \notin doubtful
               /\ (k = "whiteList" => cache["switch"] = ON /\ "switch" \notin doubtful)
             => cache[k] = data[TableOf(g)][k]
    BY <2>1 DEF Kept, Current
  <2>3. "disturb" \in groups /\ Settled("disturb") /\ cache["switch"] = OFF
          /\ "switch" \notin doubtful
        => cache["whiteList"] = OFF
    BY <2>1, WhereSettingsAre DEF Kept
  <2>4. watch \in {"reading", "on", "failed"} /\ ~muteMissed => isVibratorMute = mute
    BY <1>1 DEF CopiesInv, MuteInv
  <2> QED BY <2>2, <2>3, <2>4 DEF CopiesFollow
<1> QED BY <1>1, ObserversStayRight, CopiesStayRight, PTL
================================================================================
