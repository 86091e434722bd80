----------------------------- MODULE PatternMatcher ----------------------------
(***************************************************************************)
(* What the service makes of the package it was handed: the adjustment by  *)
(* the caller's parameters, the events a vibrator takes of it, and         *)
(* CustomVibrationMatcher, which makes a package into the composite        *)
(* effects a driver without HD haptics plays.                              *)
(*                                                                         *)
(* The curves do not reach composite effects: what the code computes of    *)
(* them (MergeCurve, ProcessContinuousEvent) is left out.                  *)
(***************************************************************************)
EXTENDS VibrationPattern

VIBRATOR_DELAY                    == 20
CONTINUOUS_VIBRATION_DURATION_MIN == 15
INTENSITY_MAX                     == 100

-----------------------------------------------------------------------------
(* The caller's parameters: intensity in percent, frequency as an offset.    *)

CheckVibratorParmeters(parameter) ==
  parameter.intensity \in 0 .. 100 /\ parameter.frequency \in -100 .. 100

\* The product is exact for the intensities 0, 25, 50 and 75; for others
\* the float arithmetic of the code may give one less.
Adjusted(x, parameter, lowest) ==
  [x EXCEPT !.intensity = Clamp((@ * parameter.intensity) \div 100, 0, 100),
            !.frequency = Clamp(@ + parameter.frequency, lowest, 100)]

AdjustedEvent(event, parameter) ==
  IF event.tag = EVENT_TAG_TRANSIENT \/ event.points = <<>>
  THEN Adjusted(event, parameter, 0)
  ELSE [event EXCEPT !.points = Map(LAMBDA p : Adjusted(p, parameter, -100), @)]

MergeVibratorParmeters(parameter, package) ==
  IF parameter.intensity = 100 /\ parameter.frequency = 0 THEN package
  ELSE [package EXCEPT !.patterns =
          Map(LAMBDA p : [p EXCEPT !.events = Map(LAMBDA e : AdjustedEvent(e, parameter), @)], @)]

\* The pattern alone, as a package that names no duration; where its start
\* matters only in a session.
PatternToPlay(pattern, sessionId) ==
  Package(0, <<Pattern(IF sessionId > 0 THEN pattern.startTime ELSE 0, 0, pattern.events)>>)

-----------------------------------------------------------------------------
(* The events for one vibrator: those for its position and those for all.    *)

CopyInfoWithIndexEvents(package, position) ==
  LET Taken(p) == [p EXCEPT !.events = Only(LAMBDA e : e.index \in {0, position}, @)]
      patterns == Only(LAMBDA p : p.events # <<>>, Map(Taken, package.patterns))
  IN  Package(IF patterns = <<>> THEN 0 ELSE Last(Last(patterns).events).duration, patterns)

-----------------------------------------------------------------------------
(* MixedWaveProcess: one line of events.  A continuous event that ends just  *)
(* before the next begins is cut for the motor to rest; events that overlap  *)
(* become one.                                                               *)

PreProcessEvent(event, startTime) ==
  [event EXCEPT !.time = @ + startTime,
                !.duration = IF @ < CONTINUOUS_VIBRATION_DURATION_MIN
                             THEN CONTINUOUS_VIBRATION_DURATION_MIN ELSE @]

\* Mutant: the rest is not taken from the event.
RestedNever(last, time) == last

\* The last event, rested before an event at time.
Rested(last, time) ==
  LET gap == time - EndOf(last)
      cut == last.duration + gap - VIBRATOR_DELAY
  IN  IF gap >= VIBRATOR_DELAY THEN last
      ELSE [last EXCEPT !.duration = IF cut < 0 THEN 0 ELSE cut]

\* Mutant: the merged event ends with the later of the two.
MergedToLater(last, event) == [last EXCEPT !.duration = EndOf(event) - last.time]

Merged(last, event) ==
  LET end == IF EndOf(last) > EndOf(event) THEN EndOf(last) ELSE EndOf(event)
  IN  [last EXCEPT !.duration = end - last.time]

MixOne(events, event) ==
  IF events = <<>> \/ Last(events).tag = EVENT_TAG_TRANSIENT THEN Append(events, event)
  ELSE IF event.time >= EndOf(Last(events))
       THEN Append(Front(events), Rested(Last(events), event.time)) \o <<event>>
       ELSE Append(Front(events), Merged(Last(events), event))

MixedWaveProcess(package) ==
  LET events == FlattenSeq(Map(LAMBDA p : Map(LAMBDA e : PreProcessEvent(e, p.startTime),
                                              p.events),
                               package.patterns))
      Mixed[i \in 0 .. Len(events)] == IF i = 0 THEN <<>> ELSE MixOne(Mixed[i - 1], events[i])
  IN  Mixed[Len(events)]

-----------------------------------------------------------------------------
(* The composite effects.  waves are the transient effects of the driver,    *)
(* their intensity and frequency in the driver's units; without a range of   *)
(* both none can be told from another, and there are none.                   *)

NormalizedWaveInfo(waves) ==
  LET Of(field) == {waves[id][field] : id \in DOMAIN waves}
      high == Max(Of("intensity"))
      low  == Min(Of("frequency"))
      span == Max(Of("frequency")) - low
  IN  IF waves = <<>> \/ high = 0 \/ span = 0 THEN <<>>
      ELSE [id \in DOMAIN waves |->
              [intensity |-> (waves[id].intensity * 100) \div high,
               frequency |-> ((waves[id].frequency - low) * 100) \div span]]

Distance(m, n) == IF m < n THEN n - m ELSE m - n

\* The nearest wave, the lower of equals; 0 when all are too far.
MatchTransient(event, waves) ==
  LET weight(id) == Distance(event.intensity, waves[id].intensity)
                      + Distance(event.frequency, waves[id].frequency)
      near == {id \in DOMAIN waves : weight(id) < 200}
  IN  IF near = {} THEN 0
      ELSE Min({id \in near : \A other \in near : weight(id) <= weight(other)})

\* Mutant: it is the time since the one before ended.
DelayFromEnd(events, i) == events[i].time - (IF i = 1 THEN 0 ELSE EndOf(events[i - 1]))

\* The delay of each event is the time since the one before began.
Delay(events, i) == events[i].time - (IF i = 1 THEN 0 ELSE events[i - 1].time)

\* A continuous event is played by its duration, a transient one by the
\* number of its wave; the last delay lets the last event end.
TransformEffect(package, waveInfos) ==
  LET events == MixedWaveProcess(package)
      waves  == NormalizedWaveInfo(waveInfos)
      Effect(i) ==
        LET event == events[i]
        IN  IF event.tag = EVENT_TAG_CONTINUOUS \/ waves = <<>>
            THEN [delay |-> Delay(events, i), effectId |-> event.duration,
                  intensity |-> event.intensity]
            ELSE [delay |-> Delay(events, i), effectId |-> -MatchTransient(event, waves),
                  intensity |-> INTENSITY_MAX]
  IN  IF events = <<>> THEN {}
      ELSE {Append([i \in DOMAIN events |-> Effect(i)],
                   [delay |-> Last(events).duration, effectId |-> 0, intensity |-> 0])}

TransformTime(package) ==
  LET events == MixedWaveProcess(package)
  IN  IF events = <<>> THEN {}
      ELSE {Append([i \in DOMAIN events |->
                      [delay |-> Delay(events, i), time |-> events[i].duration,
                       intensity |-> events[i].intensity, frequency |-> events[i].frequency]],
                   [delay |-> Last(events).duration, time |-> 0, intensity |-> 0,
                    frequency |-> 0])}
================================================================================
