---------------------------- MODULE VibrationPattern ---------------------------
(***************************************************************************)
(* Custom vibrations: packages of patterns of events, and the limits the   *)
(* decoders, the client and the IPC structures set to them.                *)
(*                                                                         *)
(* The times of a point count from its event, those of an event from its   *)
(* pattern, those of a pattern from the start of the package.  Intensities *)
(* are integers of 0 .. 100; the code that reads a curve's intensity as a  *)
(* fraction multiplies it by 100 at once.  An event without a curve has no *)
(* points.                                                                 *)
(***************************************************************************)
EXTENDS Integers, FiniteSets, SequencesExt

CONSTANTS
  PatternCapacity,         \* events the OH decoder puts into one pattern
  OhEventMax,              \* events of a channel of an OH file, and of a script's pattern
  HeEventMax,              \* events of a pattern of a HE file
  CurveMin, CurveMax,      \* points of a curve
  MaxPatternEventNum,      \* events of a pattern the client converts
  EventNumMax,             \* events of a pattern the client cuts at a time
  MaxEventSize,            \* events of a pattern the IPC structures take
  MaxPointSize,            \* points of a curve they take
  MaxPatternNum            \* patterns of a package they take

\* The limits of the code, and how they are to each other: all the events of
\* the two channels of an OH file make no more patterns than a package takes.
ASSUME LimitsAssumption ==
  /\ PatternCapacity \in 1 .. MaxEventSize
  /\ HeEventMax \in 1 .. MaxEventSize
  /\ EventNumMax = MaxEventSize
  /\ OhEventMax \in Nat
  /\ MaxPatternEventNum \in Nat /\ EventNumMax <= MaxPatternEventNum
  /\ CurveMin \in 1 .. CurveMax
  /\ CurveMax \in 1 .. MaxPointSize
  /\ MaxEventSize \in Nat /\ MaxPointSize \in Nat /\ MaxPatternNum \in Nat
  /\ 2 * OhEventMax <= PatternCapacity * MaxPatternNum

EVENT_TAG_UNKNOWN    == -1
EVENT_TAG_CONTINUOUS == 0
EVENT_TAG_TRANSIENT  == 1

TRANSIENT_VIBRATION_DURATION == 48
EVENT_START_TIME_MAX         == 1800000
CONTINUOUS_DURATION_MAX      == 5000

Point(time, intensity, frequency) ==
  [time |-> time, intensity |-> intensity, frequency |-> frequency]

Event(tag, time, duration, intensity, frequency, points) ==
  [tag |-> tag, time |-> time, duration |-> duration, intensity |-> intensity,
   frequency |-> frequency, index |-> 0, points |-> points]

Pattern(startTime, patternDuration, events) ==
  [startTime |-> startTime, patternDuration |-> patternDuration, events |-> events]

Package(packageDuration, patterns) ==
  [packageDuration |-> packageDuration, patterns |-> patterns]

\* The structures: every field is an integer.  An event's tag is one of the
\* three above when the code makes it; a native application may put another.
PointSet == [time : Int, intensity : Int, frequency : Int]

EventSet == [tag : Int, time : Int, duration : Int, intensity : Int, frequency : Int,
             index : Int, points : Seq(PointSet)]

PatternSet == [startTime : Int, patternDuration : Int, events : Seq(EventSet)]

PackageSet == [packageDuration : Int, patterns : Seq(PatternSet)]

Clamp(n, low, high) == IF n < low THEN low ELSE IF n > high THEN high ELSE n

IsCurve(points) == Len(points) \in CurveMin .. CurveMax

PointsInRange(event) ==
  \A i \in DOMAIN event.points :
    /\ event.points[i].time \in 0 .. event.duration
    /\ event.points[i].intensity \in 0 .. 100
    /\ event.points[i].frequency \in -100 .. 100

EndOf(event) == event.time + event.duration

Map(f(_), s) == [i \in DOMAIN s |-> f(s[i])]

\* The elements that pass the test, in their order.
Only(Test(_), s) == FlattenSeq(Map(LAMBDA x : IF Test(x) THEN <<x>> ELSE <<>>, s))

SumOf(s) ==
  LET Sum[i \in 0 .. Len(s)] == IF i = 0 THEN 0 ELSE Sum[i - 1] + s[i]
  IN  Sum[Len(s)]

TotalDuration(events) == SumOf(Map(LAMBDA e : e.duration, events))

\* The events of a package in order, at their times from its start.
Flattened(package) ==
  FlattenSeq(Map(LAMBDA p : Map(LAMBDA e : [e EXCEPT !.time = @ + p.startTime], p.events),
                 package.patterns))

\* The results std::sort may leave of a sequence that it sorts by time: it
\* does not keep the order of equals.
SortsByTime(s) ==
  {[i \in DOMAIN s |-> s[p[i]]] :
     p \in {p \in Bijection(DOMAIN s, DOMAIN s) :
              \A i \in 1 .. Len(s) - 1 : s[p[i]].time <= s[p[i + 1]].time}}

\* One element of each set of a sequence of sets.
ChoicesOf(sets) ==
  {c \in [DOMAIN sets -> UNION Range(sets)] : \A i \in DOMAIN sets : c[i] \in sets[i]}
================================================================================
