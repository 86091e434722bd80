----------------------------- MODULE PatternPipeline ---------------------------
(***************************************************************************)
(* The way of a custom vibration, from a haptic file or a script to what   *)
(* the driver is told:                                                     *)
(*                                                                         *)
(*   the client decodes the file and hands the application its package, or *)
(*   plays it at once (PlayVibratorCustom); a script builds a pattern;     *)
(*   the application seeks in the package and modulates it, and plays one  *)
(*   of its patterns or all of it;                                         *)
(*   the structures cross to the service, which checks and adjusts them;   *)
(*   the vibrator's thread, or the service for a HD device, plays them.    *)
(*                                                                         *)
(* before and edit are history: the application's package before its last  *)
(* edit, and that edit.  sent is history too: the call as it was made.     *)
(***************************************************************************)
EXTENDS HapticDecoder, PatternTransform, VibratorInfos, PatternMatcher

CONSTANTS
  Files,           \* haptic files
  Scripts,         \* what scripts ask the builder to add, one after the other
  Objects,         \* patterns that scripts write down themselves
  Natives,         \* packages native applications make themselves
  SeekTimes,       \* the times applications seek
  Curves,          \* the curves they modulate by: [time, duration, points]
  Infos,           \* usage, session and parameters of a call
  Positions,       \* the positions of vibrators in their device
  Waves,           \* the transient effects a driver has
  MaxEdits         \* how often an application edits a package

InfoSet == [usage : Int, systemUsage : BOOLEAN, sessionId : Int,
            intensity : Int, frequency : Int]

CurveSet == [time : Int, duration : Int, points : Seq(PointSet)]

ASSUME PipelineAssumption ==
  /\ Files \subseteq OhFileSet \cup HeFileSet
  /\ Scripts \subseteq Seq(EventSet) /\ Objects \subseteq PatternSet
  /\ Natives \subseteq PackageSet
  /\ SeekTimes \subseteq Int
  /\ Curves \subseteq CurveSet
  /\ Infos \subseteq InfoSet

VARIABLES
  stage,           \* how far the vibration is
  source,          \* what it is from, and the file if it is from one
  package,         \* the application's package, or a script's pattern in one
  before, edit,    \* the package before the last edit; all edits so far
  sent,            \* the call made to the service
  parcel,          \* what of it crosses the border
  received,        \* what the service keeps of it
  played           \* what the driver is told

pipelineVars == <<stage, source, package, before, edit, sent, parcel, received, played>>

NoPackage == Package(0, <<>>)

NoCall == [call |-> "none", effect |-> NoPackage,
           info |-> [usage |-> 0, systemUsage |-> FALSE, sessionId |-> 0,
                     intensity |-> 100, frequency |-> 0]]

NoSource == [kind |-> "none", file |-> <<>>]

FromFile(file) == [kind |-> "file", file |-> file]

FromNative == [kind |-> "native", file |-> <<>>]

FromScript == [kind |-> "script", file |-> <<>>]

NoParcel == [effect |-> <<>>, info |-> <<>>]

NothingPlayed == [how |-> "none", position |-> 0, package |-> NoPackage, effects |-> <<>>]

PipelineInit ==
  /\ stage = "idle" /\ source = NoSource
  /\ package = NoPackage /\ before = NoPackage /\ edit = <<>>
  /\ sent = NoCall /\ parcel = NoParcel
  /\ received = NoPackage /\ played = NothingPlayed

-----------------------------------------------------------------------------
(* The client and the application.                                           *)

Fail(how) == /\ stage' = how
             /\ UNCHANGED <<package, before, edit, sent, parcel, received, played>>

\* PreProcess: the application gets the decoded package.
PreProcess(file) ==
  /\ stage = "idle"
  /\ source' = FromFile(file)
  /\ \/ /\ DecodeEffect(file) = Refused
        /\ Fail("refused")
     \/ /\ \E p \in DecodeEffect(file) : package' = ToApplication(p)
        /\ stage' = "held"
        /\ UNCHANGED <<before, edit, sent, parcel, received, played>>

\* A call leaves the client.
Send(call, effect, info) ==
  /\ stage' = "sent"
  /\ sent' = [call |-> call, effect |-> effect, info |-> info]
  /\ parcel' = [effect |-> IF call = "PlayPattern"
                           THEN PatternMarshalling(Head(effect.patterns))
                           ELSE PackageMarshalling(effect),
                info   |-> CustomHapticInfoMarshalling(info)]
  /\ UNCHANGED <<before, edit, received, played>>

\* PlayVibratorCustom: the client decodes the file and plays it; there are
\* no sessions in this call.
PlayVibratorCustom(file, info) ==
  /\ stage = "idle"
  /\ source' = FromFile(file)
  /\ \/ /\ DecodeEffect(file) = Refused
        /\ Fail("refused")
     \/ \E p \in DecodeEffect(file) :
          /\ package' = p
          /\ Send("PlayVibratorCustom", p, [info EXCEPT !.sessionId = 0])

\* The builder of scripts, and the patterns they write down.
ScriptPattern(patterns) ==
  /\ stage = "idle"
  /\ source' = FromScript
  /\ \/ /\ patterns = Refused
        /\ Fail("refused")
     \/ /\ \E p \in patterns : package' = Package(0, <<p>>)
        /\ stage' = "held"
        /\ UNCHANGED <<before, edit, sent, parcel, received, played>>

\* A native application fills the structures as it likes.
NativePackage(p) ==
  /\ stage = "idle"
  /\ source' = FromNative
  /\ package' = p
  /\ stage' = "held"
  /\ UNCHANGED <<before, edit, sent, parcel, received, played>>

\* An edit gives the application another package, or an error.
Edit(how, results) ==
  /\ stage = "held" /\ source.kind # "script" /\ Len(edit) < MaxEdits
  /\ \/ /\ results = {}
        /\ Fail("refused")
     \/ /\ package' \in results
        /\ before' = package
        /\ edit' = Append(edit, how)
        /\ UNCHANGED <<stage, sent, parcel, received, played>>
  /\ UNCHANGED source

Seek(seekTime) ==
  Edit([op |-> "seek", seekTime |-> seekTime, curve |-> <<>>],
       {SeekTimeOnPackage(package, seekTime)})

\* Modulating an event's curve by a curve that has points but no interval
\* reads from an empty vector, which ends the application.
Modulate(curve) ==
  IF ModulationUndefined(curve, package)
  THEN /\ stage = "held" /\ source.kind # "script" /\ Len(edit) < MaxEdits
       /\ Fail("crashed")
       /\ UNCHANGED source
  ELSE Edit([op |-> "modulate", seekTime |-> 0, curve |-> curve],
            ModulatePackage(curve, package))

PlayPattern(i, info) ==
  /\ stage = "held"
  /\ i \in DOMAIN package.patterns
  /\ UNCHANGED <<source, package>>
  /\ \/ /\ InitPlayPattern(package.patterns[i]) = {}
        /\ stage' = "refused"
        /\ UNCHANGED <<before, edit, sent, parcel, received, played>>
     \/ \E p \in InitPlayPattern(package.patterns[i]) :
          Send("PlayPattern", Package(0, <<p>>), info)

PlayPackageBySessionId(info) ==
  /\ stage = "held"
  /\ info.sessionId > 0
  /\ UNCHANGED <<source, package>>
  /\ Send("PlayPackageBySessionId", package, info)

-----------------------------------------------------------------------------
(* The service.                                                              *)

\* The stub reads the structures and the handler checks the parameters; what
\* it keeps has the parameters in it, those of PlayPackageBySessionId apart.
Receive ==
  /\ stage = "sent"
  /\ LET info    == CustomHapticInfoUnmarshalling(parcel.info)
         effects == IF sent.call = "PlayPattern" THEN PatternUnmarshalling(parcel.effect)
                                                 ELSE PackageUnmarshalling(parcel.effect)
         Kept(e) == CASE sent.call = "PlayPattern" ->
                           MergeVibratorParmeters(info, PatternToPlay(e, info.sessionId))
                      [] sent.call = "PlayVibratorCustom" -> MergeVibratorParmeters(info, e)
                      [] sent.call = "PlayPackageBySessionId" -> e
     IN  \/ /\ effects = {} \/ ~CheckVibratorParmeters(info)
            /\ stage' = "refused"
            /\ UNCHANGED received
         \/ /\ CheckVibratorParmeters(info)
            /\ \E e \in effects : received' = Kept(e)
            /\ stage' = "received"
  /\ UNCHANGED <<source, package, before, edit, sent, parcel, played>>

\* A driver with HD haptics is given the patterns as they are.
PlayHd ==
  /\ stage = "received"
  /\ stage' = "played"
  /\ played' = [NothingPlayed EXCEPT !.how = "hd", !.package = received]
  /\ UNCHANGED <<source, package, before, edit, sent, parcel, received>>

\* What the thread of a vibrator without HD haptics is given to play: of a
\* package by session the service keeps a copy the thread does not look at.
ForThread == IF sent.call = "PlayPackageBySessionId" THEN NoPackage ELSE received

PlayComposite(how, position, taken, effects) ==
  /\ stage = "received"
  /\ \/ /\ effects = {}
        /\ stage' = "failed"
        /\ UNCHANGED played
     \/ \E es \in effects :
          /\ stage' = "played"
          /\ played' = [how |-> how, position |-> position, package |-> taken, effects |-> es]
  /\ UNCHANGED <<source, package, before, edit, sent, parcel, received>>

\* A driver of preset effects is given those of the vibrator's position, one
\* of times all of them.
PlayEffects(position) ==
  LET taken == CopyInfoWithIndexEvents(ForThread, position)
  IN  PlayComposite("effect", position, taken, TransformEffect(taken, Waves))

PlayTimes(position) == PlayComposite("time", position, ForThread, TransformTime(ForThread))

PipelineNext ==
  \/ \E file \in Files : PreProcess(file)
  \/ \E file \in Files, info \in Infos : PlayVibratorCustom(file, info)
  \/ \E calls \in Scripts : ScriptPattern(Build(calls))
  \/ \E object \in Objects : \/ ScriptPattern(CheckVibratorPatternParameter(object))
                            \/ ScriptPattern(EtsCheckVibratorPatternParameter(object))
  \/ \E p \in Natives : NativePackage(p)
  \/ \E seekTime \in SeekTimes : Seek(seekTime)
  \/ \E curve \in Curves : Modulate(curve)
  \/ \E info \in Infos, i \in DOMAIN package.patterns : PlayPattern(i, info)
  \/ \E info \in Infos : PlayPackageBySessionId(info)
  \/ Receive
  \/ PlayHd
  \/ \E position \in Positions : PlayEffects(position) \/ PlayTimes(position)

PipelineSpec == PipelineInit /\ [][PipelineNext]_pipelineVars

-----------------------------------------------------------------------------
(* Properties.                                                               *)

IsFresh == source.kind = "file" /\ stage = "held" /\ edit = <<>>

IsOh == source.kind = "file" /\ "channels" \in DOMAIN source.file

LastEdit(op) == stage = "held" /\ edit # <<>> /\ Last(edit).op = op

InOrder(events) == \A i \in 2 .. Len(events) : events[i - 1].time <= events[i].time

\* The parts of an event that decoding leaves alone.
Sketch(e) == <<e.tag, e.time, e.intensity, e.frequency,
               IF e.tag = EVENT_TAG_TRANSIENT THEN 0 ELSE Len(e.points)>>

HowMany(x, s) == Cardinality({i \in DOMAIN s : s[i] = x})

\* However the decoder sorts and splits the events of an OH file's channels
\* (PatternSplit, default_vibrator_decoder.cpp), the package plays each of
\* them once at its own time, in the order of time, in patterns that the IPC
\* structures take, the points of a curve are in order too, and the package
\* says how long its events take.
SplitIsLossless ==
  (IsFresh /\ IsOh) =>
    LET items  == Map(Sketch, FlattenSeq(Map(LAMBDA c : c.pattern, source.file.channels)))
        events == Flattened(package)
    IN  /\ Len(items) = Len(events)
        /\ \A x \in Range(items) : HowMany(x, items) = HowMany(x, Map(Sketch, events))
        /\ InOrder(events)
        /\ \A i \in DOMAIN package.patterns :
             Len(package.patterns[i].events) \in 1 .. MaxEventSize
        /\ \A i \in DOMAIN events :
             \A j \in 2 .. Len(events[i].points) :
               events[i].points[j - 1].time <= events[i].points[j].time
        /\ package.packageDuration = TotalDuration(events)

\* What is left of an event at a time, both counted from the package's start.
RestAt(event, time) ==
  CASE event.time >= time -> <<event>>
    [] event.time < time /\ event.tag = EVENT_TAG_CONTINUOUS
         /\ EndOf(event) - time >= MIN_VIBRATOR_EVENT_TIME ->
         <<[event EXCEPT !.time = time, !.duration = EndOf(event) - time, !.points = <<>>]>>
    [] OTHER -> <<>>

\* The patterns and curves the client takes whole; no event begins before
\* its pattern.
WithinLimits(p) ==
  \A i \in DOMAIN p.patterns :
    LET events == p.patterns[i].events
    IN  /\ Len(events) <= EventNumMax
        /\ \A j \in DOMAIN events :
             /\ events[j].time >= 0
             /\ events[j].points # <<>> => IsCurve(events[j].points)

\* Seeking (SeekTimeOnPackage, vibrator_service_client.cpp) plays on: every
\* event that is to begin later does so at its time, a long one that is
\* being played goes on to its end, and nothing else is heard.  What the
\* decoders make is within the limits of patterns and curves, and of an OH
\* file the service is told the time that what is left takes.  Nothing limits
\* the number of a HE file's patterns: of too many seeking keeps none.
SeekKeepsRest ==
  /\ LastEdit("seek")
  /\ IsOh \/ Len(before.patterns) <= MaxPatternNum
  /\ source.kind = "file" \/ WithinLimits(before)
  =>
    /\ Flattened(package) =
         FlattenSeq(Map(LAMBDA e : RestAt(e, Last(edit).seekTime), Flattened(before)))
    /\ IsOh => package.packageDuration = TotalDuration(Flattened(package))

\* The point of a modulation curve that governs a time: the last one before
\* it, or the first.  Its points' times count from the curve's own.
Governing(curve, time) ==
  LET points == curve.points
      since  == time - curve.time
      governs(i) == /\ \/ points[i].time < since
                       \/ i = 1 /\ points[1].time = since
                    /\ points[i].time < curve.duration
  IN  IF since > curve.duration THEN {}
      ELSE {points[i] : i \in {i \in DOMAIN points :
              governs(i) /\ \A j \in DOMAIN points : governs(j) => j <= i}}

IsModulated(old, new, curve, time) ==
  LET by == Governing(curve, time)
  IN  \/ by = {} /\ new.intensity = old.intensity /\ new.frequency = old.frequency
      \/ \E m \in by :
           /\ new.intensity = Clamp((old.intensity * m.intensity) \div 100, 0, 100)
           /\ new.frequency = Clamp(old.frequency + m.frequency, -100, 100)

\* Modulation (ModulatePackage and its binary search) changes every event,
\* or every point of its curve, by the point of the modulation curve that
\* governs its time, and changes no time.  The search relies on the points
\* being in the order of their times, which nothing checks.
ModulatedPointwise ==
  (LastEdit("modulate") /\ InOrder(Last(edit).curve.points)) =>
    LET curve == Last(edit).curve
        old   == Flattened(before)
        new   == Flattened(package)
    IN  /\ Len(old) = Len(new)
        /\ \A i \in DOMAIN old :
             /\ old[i].time = new[i].time /\ old[i].duration = new[i].duration
             /\ IF HasCurve(old[i])
                THEN /\ Len(old[i].points) = Len(new[i].points)
                     /\ \A j \in DOMAIN old[i].points :
                          /\ old[i].points[j].time = new[i].points[j].time
                          /\ IsModulated(old[i].points[j], new[i].points[j], curve,
                                         old[i].time + old[i].points[j].time)
                ELSE IsModulated(old[i], new[i], curve, old[i].time)

\* What the service reads from the parcel is what the client wrote
\* (vibrator_infos.cpp): the same call and the same package or pattern.  And
\* what a decoder makes of a file, and the application of that by seeking and
\* modulating, is never refused on the way but for parameters out of range:
\* the limits of the decoders are within those of the structures, all but the
\* number of a HE file's patterns, which its decoder does not limit.
ArrivesUnchanged ==
  /\ stage = "sent" =>
       /\ CustomHapticInfoUnmarshalling(parcel.info) = sent.info
       /\ IF sent.call = "PlayPattern"
          THEN PatternUnmarshalling(parcel.effect) \subseteq {Head(sent.effect.patterns)}
          ELSE PackageUnmarshalling(parcel.effect) \subseteq {sent.effect}
  /\ /\ stage = "refused" /\ source.kind = "file" /\ sent.call # "none"
     /\ IsOh \/ Len(sent.effect.patterns) <= MaxPatternNum
     => ~CheckVibratorParmeters(sent.info)

IsComposite == stage = "played" /\ played.how \in {"effect", "time"}

\* The time from the start of the effects to the i-th of them.
StartOf(i) == SumOf(Map(LAMBDA e : e.delay, SubSeq(played.effects, 1, i)))

\* The composite effects made of events in order, none of which begins before
\* the package (TransformTime, TransformEffect, MixedWaveProcess).  Delays are
\* not negative and add up: each effect begins when the event it is made of
\* does, and the thread waits until the last has ended.  Every event is heard
\* to its end, on its own or within the one it was merged with, but for the
\* motor's rest; and between a continuous effect and the next the motor rests,
\* or the effect is empty.
EffectsFollowEvents ==
  /\ IsComposite
  /\ InOrder(Flattened(played.package))
  /\ \A i \in DOMAIN Flattened(played.package) : Flattened(played.package)[i].time >= 0
  =>
    LET events == Flattened(played.package)
        mixed  == MixedWaveProcess(played.package)
        n      == Len(played.effects)
    IN  /\ n = Len(mixed) + 1
        /\ \A i \in 1 .. n : played.effects[i].delay >= 0
        /\ \A i \in DOMAIN mixed : StartOf(i) = mixed[i].time
        /\ StartOf(n) = EndOf(Last(mixed))
        /\ \A i \in DOMAIN events :
             \E j \in DOMAIN mixed :
               /\ mixed[j].time <= events[i].time
               /\ EndOf(events[i]) <= EndOf(mixed[j]) + VIBRATOR_DELAY
        /\ \A i \in 2 .. Len(mixed) :
             mixed[i - 1].tag = EVENT_TAG_CONTINUOUS =>
               \/ mixed[i].time - EndOf(mixed[i - 1]) >= VIBRATOR_DELAY
               \/ mixed[i - 1].duration = 0
================================================================================
