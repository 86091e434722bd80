------------------------------ MODULE HapticDecoder ----------------------------
(***************************************************************************)
(* Where custom vibrations come from: haptic files in the two formats the  *)
(* decoders read, and the patterns scripts build.                          *)
(*                                                                         *)
(* A file is given as the values its JSON holds.  A value that is missing  *)
(* or of the wrong type is Missing: the decoders refuse it as they refuse  *)
(* a value out of range, the script builder puts a default in its place.   *)
(* What a decoder makes of a file is a set: empty when the file is         *)
(* refused, with more than one element where std::sort has a choice.       *)
(***************************************************************************)
EXTENDS VibrationPattern

Missing == -1000

Refused == {}

\* Files of both formats; the tag of an OH file's event is of the three.
OhFileSet ==
  [descriptor : BOOLEAN, version : Int, channelNumber : Int,
   channels : Seq([index : Int,
                   pattern : Seq({e \in EventSet :
                     e.tag \in {EVENT_TAG_UNKNOWN, EVENT_TAG_CONTINUOUS, EVENT_TAG_TRANSIENT}})])]

HeFileSet ==
  [version : {1}, pattern : Seq(EventSet)]
    \cup [version : Int \ {1}, patternList : Seq([time : Int, pattern : Seq(EventSet)])]

-----------------------------------------------------------------------------
(* DefaultVibratorDecoder: files of the OpenHarmony format.                  *)

OhCheckEventParameters(event) ==
  /\ event.time \in 0 .. EVENT_START_TIME_MAX
  /\ event.duration \in 0 .. CONTINUOUS_DURATION_MAX
  /\ event.intensity \in 0 .. 100
  /\ event.frequency \in 0 .. 100

OhParseCurve(event) ==
  IF IsCurve(event.points) /\ PointsInRange(event)
  THEN {[event EXCEPT !.points = sorted] : sorted \in SortsByTime(event.points)}
  ELSE Refused

\* A transient event has its fixed duration and its curve is not looked at.
OhParseEvent(item) ==
  LET transient == item.tag = EVENT_TAG_TRANSIENT
      event == IF transient
               THEN [item EXCEPT !.duration = TRANSIENT_VIBRATION_DURATION, !.points = <<>>]
               ELSE item
  IN  IF item.tag = EVENT_TAG_UNKNOWN \/ ~OhCheckEventParameters(event) THEN Refused
      ELSE IF event.points = <<>> THEN {event}
      ELSE OhParseCurve(event)

OhParsePattern(items) ==
  IF Len(items) > OhEventMax THEN Refused
  ELSE ChoicesOf(Map(OhParseEvent, items))

\* The events of all channels in the order of their times, the channel they
\* are for forgotten.
OhParseChannel(file) ==
  IF \/ Len(file.channels) # file.channelNumber
     \/ \E i \in DOMAIN file.channels : file.channels[i].index \notin 0 .. 2
  THEN Refused
  ELSE UNION {SortsByTime(FlattenSeq(parsed)) :
                parsed \in ChoicesOf(Map(LAMBDA c : OhParsePattern(c.pattern), file.channels))}

\* Mutant: the slice that is not full at the end is forgotten.
PatternSplitFullOnly(events) ==
  [k \in 1 .. Len(events) \div PatternCapacity |->
    LET slice == SubSeq(events, (k - 1) * PatternCapacity + 1, k * PatternCapacity)
    IN  Pattern(slice[1].time, 0,
                Map(LAMBDA e : [e EXCEPT !.time = @ - slice[1].time], slice))]

\* Mutant: the patterns take one event more.
PatternSplitOneMore(events) ==
  LET width == PatternCapacity + 1
  IN  [k \in 1 .. (Len(events) + width - 1) \div width |->
        LET slice == SubSeq(events, (k - 1) * width + 1,
                            IF k * width < Len(events) THEN k * width ELSE Len(events))
        IN  Pattern(slice[1].time, 0,
                    Map(LAMBDA e : [e EXCEPT !.time = @ - slice[1].time], slice))]

\* Slices of PatternCapacity events, each a pattern that starts with its
\* first event.
PatternSplit(events) ==
  [k \in 1 .. (Len(events) + PatternCapacity - 1) \div PatternCapacity |->
    LET last  == k * PatternCapacity
        slice == SubSeq(events, last - PatternCapacity + 1,
                        IF last < Len(events) THEN last ELSE Len(events))
    IN  Pattern(slice[1].time, 0,
                Map(LAMBDA e : [e EXCEPT !.time = @ - slice[1].time], slice))]

OhDecodeEffect(file) ==
  IF ~file.descriptor \/ file.version # 1 \/ file.channelNumber \notin 1 .. 2
  THEN Refused
  ELSE {Package(TotalDuration(events), PatternSplit(events)) : events \in OhParseChannel(file)}

-----------------------------------------------------------------------------
(* HEVibratorDecoder: files of the HE format.                                *)

HeParseCurve(event) ==
  /\ IsCurve(event.points)
  /\ PointsInRange(event)
  /\ \A i \in 2 .. Len(event.points) : event.points[i].time > event.points[i - 1].time

HeCheckTransientParameters(event) == event.frequency \in -50 .. 150

\* A curve begins and ends in silence, with its event.
HeCheckContinuousParameters(event) ==
  /\ event.frequency \in 0 .. 100
  /\ event.duration \in 1 .. CONTINUOUS_DURATION_MAX
  /\ LET first == Head(event.points)
         last  == Last(event.points)
     IN  /\ first.time = 0 /\ first.intensity = 0
         /\ last.time = event.duration /\ last.intensity = 0

HeCheckEventParameters(event) ==
  /\ event.time >= 0
  /\ event.index \in 0 .. 2
  /\ event.intensity \in 0 .. 100
  /\ \/ event.tag = EVENT_TAG_TRANSIENT /\ HeCheckTransientParameters(event)
     \/ event.tag = EVENT_TAG_CONTINUOUS /\ HeCheckContinuousParameters(event)

HeParseEvent(item) ==
  LET transient == item.tag = EVENT_TAG_TRANSIENT
      event == IF transient
               THEN [item EXCEPT !.duration = TRANSIENT_VIBRATION_DURATION, !.points = <<>>]
               ELSE item
  IN  {e \in {event} : /\ e.tag # EVENT_TAG_UNKNOWN
                       /\ transient \/ HeParseCurve(e)
                       /\ HeCheckEventParameters(e)}

\* The events are in the order of their times already, or they are refused.
HeParsePattern(items) ==
  IF Len(items) \notin 1 .. HeEventMax THEN Refused
  ELSE {events \in ChoicesOf(Map(HeParseEvent, items)) :
          \A i \in 2 .. Len(events) : events[i].time >= events[i - 1].time}

HeParsePatternList(list) ==
  IF \/ list = <<>>
     \/ Head(list).time < 0
     \/ \E i \in 2 .. Len(list) : list[i].time <= list[i - 1].time
  THEN Refused
  ELSE ChoicesOf(Map(LAMBDA item : {Pattern(item.time, 0, events) :
                                      events \in HeParsePattern(item.pattern)}, list))

\* Version 1 holds one pattern, version 2 a list; neither names a duration.
HeDecodeEffect(file) ==
  CASE file.version = 1 ->
         {Package(0, <<Pattern(0, 0, events)>>) : events \in HeParsePattern(file.pattern)}
    [] file.version = 2 ->
         {Package(0, patterns) : patterns \in HeParsePatternList(file.patternList)}
    [] OTHER -> Refused

\* VibratorDecoderCreator: the format is told from what the file has.
DecodeEffect(file) ==
  IF "channels" \in DOMAIN file THEN OhDecodeEffect(file) ELSE HeDecodeEffect(file)

-----------------------------------------------------------------------------
(* Patterns of scripts: VibratorPatternBuilder, and the check the binding    *)
(* makes of the pattern a script hands it.                                   *)

\* ParseOptions and ParseTransientOptions.
WithDefaults(options) ==
  LET Default(n, d) == IF n = Missing THEN d ELSE n
      points == Map(LAMBDA p : [p EXCEPT !.intensity = Default(@, 100),
                                         !.frequency = Default(@, 0)], options.points)
  IN  [options EXCEPT !.intensity = Default(@, 100), !.frequency = Default(@, 50),
                      !.index = Default(@, 0), !.points = points]

CheckCurvePoints(event) == IsCurve(event.points) /\ PointsInRange(event)

CheckParameters(event) ==
  /\ event.time \in 0 .. EVENT_START_TIME_MAX
  /\ event.frequency \in 0 .. 100
  /\ event.intensity \in 0 .. 100
  /\ event.duration \in 1 .. CONTINUOUS_DURATION_MAX
  /\ event.index \in 0 .. 2
  /\ (event.tag = EVENT_TAG_CONTINUOUS /\ event.points # <<>>) => CheckCurvePoints(event)

AddContinuousEvent(events, options) ==
  LET event == WithDefaults(options)
  IN  IF CheckParameters(event) THEN Append(events, event) ELSE events

AddTransientEvent(events, options) ==
  LET event == [WithDefaults(options) EXCEPT !.duration = TRANSIENT_VIBRATION_DURATION,
                                             !.points = <<>>]
  IN  IF CheckParameters(event) THEN Append(events, event) ELSE events

\* A script that goes on when an event is refused with an error.
Build(calls) ==
  LET Built[i \in 0 .. Len(calls)] ==
        IF i = 0 THEN <<>>
        ELSE IF calls[i].tag = EVENT_TAG_TRANSIENT
             THEN AddTransientEvent(Built[i - 1], calls[i])
             ELSE AddContinuousEvent(Built[i - 1], calls[i])
      events == Built[Len(calls)]
  IN  IF Len(events) \in 1 .. OhEventMax THEN {Pattern(0, 0, events)} ELSE Refused

\* A pattern a script writes down itself: every value must be there.  The
\* points are counted here and looked at when they are checked.
ParseVibratorCurvePointArray(points) ==
  /\ Len(points) <= CurveMax
  /\ \A i \in DOMAIN points : Missing \notin Range(points[i])

ParseVibrateEvent(event) ==
  /\ Missing \notin {event.tag, event.time, event.duration, event.intensity,
                     event.frequency, event.index}
  /\ ParseVibratorCurvePointArray(event.points)

ParseVibratorPattern(pattern) ==
  {p \in {pattern} : /\ Len(p.events) \in 1 .. OhEventMax
                     /\ \A i \in DOMAIN p.events : ParseVibrateEvent(p.events[i])}

\* The binding checks an event as the builder does.
CheckVibratorEvent(event) == CheckParameters(event)

CheckVibratorPatternParameter(pattern) ==
  {p \in ParseVibratorPattern(pattern) :
     \A i \in DOMAIN p.events : CheckVibratorEvent(p.events[i])}

\* The ETS binding puts 0 for what is missing.
EtsParseVibrateEvent(event) ==
  LET Given(n) == IF n = Missing THEN 0 ELSE n
  IN  [event EXCEPT !.duration = Given(@), !.intensity = Given(@), !.frequency = Given(@),
                    !.index = Given(@),
                    !.points = Map(LAMBDA p : [p EXCEPT !.intensity = Given(@),
                                                        !.frequency = Given(@)], @)]

EtsParseVibratorPattern(pattern) ==
  {[p EXCEPT !.events = Map(EtsParseVibrateEvent, @)] :
     p \in {p \in {pattern} :
              /\ Len(p.events) \in 1 .. OhEventMax
              /\ \A i \in DOMAIN p.events : Len(p.events[i].points) <= CurveMax}}

EtsCheckVibratorPatternParameter(pattern) ==
  {p \in EtsParseVibratorPattern(pattern) :
     \A i \in DOMAIN p.events : CheckVibratorEvent(p.events[i])}
================================================================================
