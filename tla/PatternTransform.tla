---------------------------- MODULE PatternTransform ---------------------------
(***************************************************************************)
(* What the client does to custom vibrations before it hands them to the   *)
(* service: it copies packages between the application's structures and    *)
(* its own, plays on from a time within a package, and modulates a package *)
(* by a curve.  As the decoders', a result is a set, empty when the call   *)
(* returns an error.                                                       *)
(***************************************************************************)
EXTENDS VibrationPattern

MIN_VIBRATOR_EVENT_TIME == 100

-----------------------------------------------------------------------------
(* Copies.                                                                   *)

\* To the application's structures: a pattern's duration becomes the end of
\* its last event; without events it keeps the one of the pattern before.
ToApplication(package) ==
  LET patterns == package.patterns
      Duration[i \in 0 .. Len(patterns)] ==
        IF i = 0 THEN 0
        ELSE IF patterns[i].events = <<>> THEN Duration[i - 1]
        ELSE EndOf(Last(patterns[i].events))
  IN  [package EXCEPT !.patterns =
         [i \in DOMAIN patterns |-> [patterns[i] EXCEPT !.patternDuration = Duration[i]]]]

\* A curve that is too short or too long is left out, its event stays.
WithCurveOrNone(event) == IF IsCurve(event.points) THEN event ELSE [event EXCEPT !.points = <<>>]

\* InitPlayPattern; the structure for no events names no duration.
InitPlayPattern(pattern) ==
  IF Len(pattern.events) > MaxPatternEventNum THEN {}
  ELSE {[pattern EXCEPT !.events = Map(WithCurveOrNone, @),
                        !.patternDuration = IF pattern.events = <<>> THEN 0 ELSE @]}

-----------------------------------------------------------------------------
(* SeekTimeOnPackage.                                                        *)

\* A pattern that starts later is taken as it is.
ConvertVibratorPattern(pattern) ==
  IF Len(pattern.events) > MaxPatternEventNum THEN [pattern EXCEPT !.events = <<>>] ELSE pattern

\* Mutant: the rest of an event is played as long as the event.
RestOfEventUncut(event, start, seekTime) ==
  LET rest == start + event.duration - seekTime
  IN  IF event.tag = EVENT_TAG_CONTINUOUS /\ rest >= MIN_VIBRATOR_EVENT_TIME
      THEN <<[event EXCEPT !.time = 0, !.points = <<>>]>>
      ELSE <<>>

\* What is left of an event that began before: the rest of a continuous
\* event when it is long enough, its curve left out.
RestOfEvent(event, start, seekTime) ==
  LET rest == start + event.duration - seekTime
  IN  IF event.tag = EVENT_TAG_CONTINUOUS /\ rest >= MIN_VIBRATOR_EVENT_TIME
      THEN <<[event EXCEPT !.time = 0, !.duration = rest, !.points = <<>>]>>
      ELSE <<>>

\* One event of a pattern that starts before the seek time.
SeekEvent(event, patternTime, seekTime) ==
  LET start == event.time + patternTime
  IN  IF seekTime > start THEN RestOfEvent(event, start, seekTime)
      ELSE <<WithCurveOrNone([event EXCEPT !.time = start - seekTime])>>

\* A pattern the seek time falls into or that is over; its duration is the
\* sum of what is left until it is copied back.
SeekPattern(pattern, seekTime) ==
  LET events == IF Len(pattern.events) > EventNumMax THEN <<>>
                ELSE FlattenSeq(Map(LAMBDA e : SeekEvent(e, pattern.startTime, seekTime),
                                    pattern.events))
  IN  IF events = <<>> THEN <<>> ELSE <<Pattern(seekTime, TotalDuration(events), events)>>

\* Mutant: the package keeps its duration.
SeekDurationKept(package, seekTime) == package.packageDuration

\* What the events of a pattern that began before lose.
Losses(pattern, seekTime) ==
  LET Lost(e) == IF seekTime > e.time + pattern.startTime
                 THEN <<e.duration
                        - TotalDuration(RestOfEvent(e, e.time + pattern.startTime, seekTime))>>
                 ELSE <<>>
  IN  IF pattern.startTime >= seekTime \/ Len(pattern.events) > EventNumMax THEN <<>>
      ELSE FlattenSeq(Map(Lost, pattern.events))

\* The package's duration loses what the cut events lose, never below zero.
SeekDuration(package, seekTime) ==
  LET losses == FlattenSeq(Map(LAMBDA p : Losses(p, seekTime), package.patterns))
      Left[i \in 0 .. Len(losses)] ==
        IF i = 0 THEN package.packageDuration
        ELSE IF Left[i - 1] < losses[i] THEN 0
        ELSE Left[i - 1] - losses[i]
  IN  Left[Len(losses)]

ConvertSeekVibratorPackage(package, seekTime) ==
  IF Len(package.patterns) > MaxPatternNum THEN Package(package.packageDuration, <<>>)
  ELSE Package(SeekDuration(package, seekTime),
               FlattenSeq(Map(LAMBDA p : IF p.startTime >= seekTime
                                         THEN <<ConvertVibratorPattern(p)>>
                                         ELSE SeekPattern(p, seekTime), package.patterns)))

SeekTimeOnPackage(package, seekTime) == ToApplication(ConvertSeekVibratorPackage(package, seekTime))

-----------------------------------------------------------------------------
(* ModulatePackage: the intensity of an event, or of each point of its       *)
(* curve, is scaled and its frequency moved by what the modulation curve     *)
(* says at that time of the package.                                         *)

RestrictIntensityRange(intensity) == Clamp(intensity, 0, 100)

RestrictFrequencyRange(frequency) == Clamp(frequency, -100, 100)

\* The stretches of time between a curve's points, up to its duration.
ConvertVibratorEventsToCurveIntervals(curve) ==
  LET points == curve.points
      inside == {n \in 0 .. Len(points) : \A i \in 1 .. n : points[i].time < curve.duration}
      EndTime(i) == IF i < Len(points) /\ points[i + 1].time < curve.duration
                    THEN points[i + 1].time
                    ELSE curve.duration
  IN  [i \in 1 .. CHOOSE n \in inside : \A m \in inside : m <= n |->
        [beginTime |-> curve.time + points[i].time, endTime |-> curve.time + EndTime(i),
         intensity |-> points[i].intensity, frequency |-> points[i].frequency]]

\* Mutant: a time at the border of two intervals is given to the later.
HalfWithLater(interval, val, part) ==
  LET middle == part.head + (part.tail - part.head) \div 2
  IN  IF part.tail - part.head <= 1 THEN part
      ELSE IF interval[middle].endTime <= val THEN [part EXCEPT !.head = middle]
      ELSE [part EXCEPT !.tail = middle]

\* A round of the binary search: the half of a part that holds val, until
\* there is nothing between its head and its tail.
HalfWith(interval, val, part) ==
  LET middle == part.head + (part.tail - part.head) \div 2
  IN  IF part.tail - part.head <= 1 THEN part
      ELSE IF interval[middle].endTime < val THEN [part EXCEPT !.head = middle]
      ELSE [part EXCEPT !.tail = middle]

\* The interval that holds val, 0 when none does.
BinarySearchInterval(interval, val) ==
  LET Halved[n \in 0 .. Len(interval)] ==
        IF n = 0 THEN [head |-> 1, tail |-> Len(interval)]
        ELSE HalfWith(interval, val, Halved[n - 1])
  IN  IF val < interval[1].beginTime \/ val > Last(interval).endTime THEN 0
      ELSE IF val <= interval[1].endTime THEN 1
      ELSE Halved[Len(interval)].tail

\* Mutant: the intensity is not restricted.
ModulatedUnrestricted(x, interval, at) ==
  LET idx == BinarySearchInterval(interval, at)
  IN  IF idx = 0 THEN x
      ELSE [x EXCEPT !.intensity = (@ * interval[idx].intensity) \div 100,
                     !.frequency = RestrictFrequencyRange(@ + interval[idx].frequency)]

\* Of an event or of a point, by the interval of its time.
Modulated(x, interval, at) ==
  LET idx == BinarySearchInterval(interval, at)
  IN  IF idx = 0 THEN x
      ELSE [x EXCEPT
              !.intensity = RestrictIntensityRange((@ * interval[idx].intensity) \div 100),
              !.frequency = RestrictFrequencyRange(@ + interval[idx].frequency)]

ModulateEventWithoutCurvePoints(interval, start, event) ==
  IF interval = <<>> THEN {}
  ELSE {Modulated([event EXCEPT !.points = <<>>], interval, start)}

GetCurveListAfterModulation(interval, event, start) ==
  Map(LAMBDA p : Modulated(p, interval, start + p.time), event.points)

\* Without an interval the code's behaviour is undefined: see below.
ModulateEventWithCurvePoints(interval, start, event) ==
  IF ~IsCurve(event.points) \/ interval = <<>> THEN {}
  ELSE {[event EXCEPT !.points = GetCurveListAfterModulation(interval, event, start)]}

HasCurve(event) == event.tag = EVENT_TAG_CONTINUOUS /\ event.points # <<>>

ModulateVibratorEvent(curve, patternTime, event) ==
  LET interval == ConvertVibratorEventsToCurveIntervals(curve)
      start    == patternTime + event.time
  IN  IF HasCurve(event) THEN ModulateEventWithCurvePoints(interval, start, event)
      ELSE ModulateEventWithoutCurvePoints(interval, start, event)

ModulateVibratorPattern(curve, pattern) ==
  IF pattern.events = <<>> THEN {}
  ELSE {[pattern EXCEPT !.events = events] :
          events \in ChoicesOf(Map(LAMBDA e : ModulateVibratorEvent(curve, pattern.startTime, e),
                                   pattern.events))}

\* The curve is one the application names: its time and duration are at
\* least 0 and it has points, or the call returns an error.
ModulatePackage(curve, package) ==
  IF package.patterns = <<>> \/ curve.time < 0 \/ curve.duration < 0 \/ curve.points = <<>>
  THEN {}
  ELSE {[package EXCEPT !.patterns = patterns] :
          patterns \in ChoicesOf(Map(LAMBDA p : ModulateVibratorPattern(curve, p),
                                     package.patterns))}

\* The first event with a curve reads the intervals of a modulation curve
\* that has none: undefined, unless an event before it was refused.
ModulationUndefined(curve, package) ==
  /\ package.patterns # <<>> /\ curve.points # <<>>
  /\ ConvertVibratorEventsToCurveIntervals(curve) = <<>>
  /\ LET first == Head(package.patterns)
     IN  /\ first.events # <<>>
         /\ HasCurve(Head(first.events))
         /\ IsCurve(Head(first.events).points)
================================================================================
