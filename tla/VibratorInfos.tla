----------------------------- MODULE VibratorInfos -----------------------------
(***************************************************************************)
(* The structures that cross the process border, as they are written to    *)
(* and read from a parcel.  A parcel is the sequence of the integers,      *)
(* booleans and names written to it.  Reading gives what was read and      *)
(* where reading goes on; the parcel is refused (ok is FALSE) when it      *)
(* ends too early or a size or tag is out of range.                        *)
(***************************************************************************)
EXTENDS VibrationPattern

-----------------------------------------------------------------------------
(* Lists within a parcel.                                                    *)

Read(parcel, at, value) == [ok |-> TRUE, at |-> at, value |-> value]

ReadRefused == [ok |-> FALSE, at |-> 0, value |-> <<>>]

\* count values one after the other, each by the given operator.
ReadMany(ReadOne(_, _), parcel, at, count) ==
  LET Sofar[i \in 0 .. count] ==
        IF i = 0 THEN Read(parcel, at, <<>>)
        ELSE IF ~Sofar[i - 1].ok THEN ReadRefused
        ELSE LET one == ReadOne(parcel, Sofar[i - 1].at)
             IN  IF one.ok THEN Read(parcel, one.at, Append(Sofar[i - 1].value, one.value))
                 ELSE ReadRefused
  IN  IF count <= 0 THEN Read(parcel, at, <<>>) ELSE Sofar[count]

-----------------------------------------------------------------------------
(* VibratePattern and VibratePackage.                                        *)

WritePoint(point) == <<point.time, point.intensity, point.frequency>>

WriteEvent(event) ==
  <<event.tag, event.time, event.duration, event.intensity, event.frequency, event.index,
    Len(event.points)>> \o FlattenSeq(Map(WritePoint, event.points))

PatternMarshalling(pattern) ==
  <<pattern.startTime, pattern.patternDuration, Len(pattern.events)>>
    \o FlattenSeq(Map(WriteEvent, pattern.events))

PackageMarshalling(package) ==
  <<package.packageDuration, Len(package.patterns)>>
    \o FlattenSeq(Map(PatternMarshalling, package.patterns))

ReadPoint(parcel, at) ==
  IF at + 2 > Len(parcel) THEN ReadRefused
  ELSE Read(parcel, at + 3, Point(parcel[at], parcel[at + 1], parcel[at + 2]))

ReadEvent(parcel, at) ==
  IF \/ at + 6 > Len(parcel)
     \/ parcel[at] \notin {EVENT_TAG_CONTINUOUS, EVENT_TAG_TRANSIENT}
     \/ parcel[at + 6] > MaxPointSize
  THEN ReadRefused
  ELSE LET points == ReadMany(ReadPoint, parcel, at + 7, parcel[at + 6])
       IN  IF ~points.ok THEN ReadRefused
           ELSE Read(parcel, points.at,
                     [Event(parcel[at], parcel[at + 1], parcel[at + 2], parcel[at + 3],
                            parcel[at + 4], points.value) EXCEPT !.index = parcel[at + 5]])

\* Mutant: the limit on the events is one too low.
ReadPatternTooStrict(parcel, at) ==
  IF at + 2 > Len(parcel) \/ parcel[at + 2] > MaxEventSize - 1 THEN ReadRefused
  ELSE LET events == ReadMany(ReadEvent, parcel, at + 3, parcel[at + 2])
       IN  IF ~events.ok THEN ReadRefused
           ELSE Read(parcel, events.at, Pattern(parcel[at], parcel[at + 1], events.value))

ReadPattern(parcel, at) ==
  IF at + 2 > Len(parcel) \/ parcel[at + 2] > MaxEventSize THEN ReadRefused
  ELSE LET events == ReadMany(ReadEvent, parcel, at + 3, parcel[at + 2])
       IN  IF ~events.ok THEN ReadRefused
           ELSE Read(parcel, events.at, Pattern(parcel[at], parcel[at + 1], events.value))

ReadPackage(parcel, at) ==
  IF at + 1 > Len(parcel) \/ parcel[at + 1] \notin 0 .. MaxPatternNum THEN ReadRefused
  ELSE LET patterns == ReadMany(ReadPattern, parcel, at + 2, parcel[at + 1])
       IN  IF ~patterns.ok THEN ReadRefused
           ELSE Read(parcel, patterns.at, Package(parcel[at], patterns.value))

PatternUnmarshalling(parcel) ==
  LET read == ReadPattern(parcel, 1) IN IF read.ok THEN {read.value} ELSE {}

PackageUnmarshalling(parcel) ==
  LET read == ReadPackage(parcel, 1) IN IF read.ok THEN {read.value} ELSE {}

-----------------------------------------------------------------------------
(* The structures without lists: the fields in the order they are written    *)
(* and read in.  What a structure has beside them does not cross the border. *)

CapacityMarshalling(c) ==
  <<c.isSupportHdHaptic, c.isSupportPresetMapping, c.isSupportTimeDelay>>

CapacityUnmarshalling(parcel) ==
  [isSupportHdHaptic |-> parcel[1], isSupportPresetMapping |-> parcel[2],
   isSupportTimeDelay |-> parcel[3]]

VIBRATE_MODE_HD      == 0
VIBRATE_MODE_MAPPING == 1
VIBRATE_MODE_TIMES   == 2

GetVibrateMode(capacity) ==
  IF capacity.isSupportHdHaptic THEN VIBRATE_MODE_HD
  ELSE IF capacity.isSupportPresetMapping THEN VIBRATE_MODE_MAPPING
  ELSE IF capacity.isSupportTimeDelay THEN VIBRATE_MODE_TIMES
  ELSE -1

VibratorIdentifierMarshalling(identifier) == <<identifier.deviceId, identifier.vibratorId>>

VibratorIdentifierUnmarshalling(parcel) == [deviceId |-> parcel[1], vibratorId |-> parcel[2]]

\* Mutant: the session is forgotten.
CustomHapticInfoMarshallingNoSession(info) ==
  <<info.usage, info.systemUsage, 0, info.intensity, info.frequency>>

CustomHapticInfoMarshalling(info) ==
  <<info.usage, info.systemUsage, info.sessionId, info.intensity, info.frequency>>

CustomHapticInfoUnmarshalling(parcel) ==
  [usage |-> parcel[1], systemUsage |-> parcel[2], sessionId |-> parcel[3],
   intensity |-> parcel[4], frequency |-> parcel[5]]
================================================================================
