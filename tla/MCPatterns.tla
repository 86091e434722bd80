------------------------------ MODULE MCPatterns -------------------------------
(***************************************************************************)
(* Small instances of PatternPipeline for TLC: the limits are scaled down, *)
(* with their relations kept, so that files of a few events meet them.     *)
(***************************************************************************)
EXTENDS PatternPipeline

Continuous(time, duration, intensity, frequency, points) ==
  Event(EVENT_TAG_CONTINUOUS, time, duration, intensity, frequency, points)

Transient(time, intensity, frequency) ==
  Event(EVENT_TAG_TRANSIENT, time, 0, intensity, frequency, <<>>)

\* The points of OH files may be out of order.
ShortCurve(duration) == <<Point(duration, 40, 60), Point(0, 100, -10)>>

HeCurve(duration) == <<Point(0, 0, 0), Point(50, 80, -100), Point(duration, 0, 30)>>

OhEvents ==
  {Transient(0, 100, 50), Transient(210, 60, 0),
   Continuous(0, 150, 80, 100, <<>>), Continuous(140, 130, 100, 20, <<>>),
   Continuous(100, 110, 50, 30, ShortCurve(110)), Continuous(290, 10, 30, 90, <<>>)}

\* One value out of range each, or a curve that is too short.
BadEvents ==
  {Transient(-1, 100, 50), Transient(0, 101, 0), Continuous(0, 150, 80, -1, <<>>),
   Continuous(0, CONTINUOUS_DURATION_MAX + 1, 80, 0, <<>>),
   Continuous(0, 150, Missing, 0, <<>>), Continuous(0, 100, 80, 0, <<Point(0, 1, 1)>>),
   Continuous(0, 100, 80, 0, ShortCurve(101))}

OhFile(channels) ==
  [descriptor |-> TRUE, version |-> 1, channelNumber |-> Len(channels),
   channels |-> [i \in DOMAIN channels |-> [index |-> i - 1, pattern |-> channels[i]]]]

\* Too many of them.
LongFile == OhFile(<<[i \in 1 .. OhEventMax + 1 |-> Transient(i, 1, 1)]>>)

OhFiles ==
  {OhFile(<<s>>) : s \in {<<x>> : x \in OhEvents \cup BadEvents}
                         \cup {<<x, y>> : x, y \in OhEvents}
                         \cup {<<x, y, z>> : x, y, z \in OhEvents}}
  \cup {OhFile(<<<<x, y>>, <<z>>>>) :
          x \in {Transient(0, 100, 50), Continuous(0, 150, 80, 100, <<>>)},
          y \in {Transient(210, 60, 0), Continuous(140, 130, 100, 20, <<>>)},
          z \in OhEvents}
  \cup {[OhFile(<<<<>>>>) EXCEPT !.version = 2], [OhFile(<<<<>>>>) EXCEPT !.channelNumber = 2],
        OhFile(<<<<>>>>), LongFile}

HePattern(n) ==
  CASE n = 1 -> <<Transient(0, 100, -50), Transient(60, 20, 150)>>
    [] n = 2 -> <<[Continuous(0, 200, 100, 40, HeCurve(200)) EXCEPT !.index = 1],
                  [Transient(120, 70, 60) EXCEPT !.index = 2]>>
    [] n = 3 -> <<Continuous(30, 160, 90, 100, HeCurve(159))>>

HeFiles ==
  {[version |-> 1, pattern |-> HePattern(n)] : n \in 1 .. 3}
  \cup {[version |-> 2, patternList |-> <<[time |-> 0, pattern |-> HePattern(m)],
                                          [time |-> t, pattern |-> HePattern(n)]>>] :
          m, n \in 1 .. 2, t \in {0, 150, 250}}
  \cup {[version |-> 2, patternList |-> [i \in 1 .. 4 |-> [time |-> 100 * i,
                                                          pattern |-> HePattern(1)]]]}

MCFiles == OhFiles \cup HeFiles

MCScripts ==
  {<<Transient(0, Missing, Missing), Continuous(100, 110, 101, 0, <<>>)>>,
   <<Continuous(0, 110, Missing, 30, ShortCurve(110)), Transient(110, 50, 50),
     Transient(200, 20, 20)>>}

MCObjects ==
  {Pattern(0, 0, <<Continuous(0, 110, 40, 30, <<Point(0, 1, 1)>>)>>),
   Pattern(0, 0, <<[Transient(0, 50, 50) EXCEPT !.duration = 48],
                   Continuous(30, 70, 90, 100, <<>>)>>),
   Pattern(20, 0, <<Continuous(0, 90, Missing, 30, <<Point(0, Missing, 1), Point(90, 3, 1)>>)>>)}

\* More patterns, events or points than the client, or the structures, take,
\* and an event before its pattern.
MCNatives ==
  LET t(time) == Transient(time, 50, 50)
      c(points) == Continuous(0, 200, 70, 20, points)
  IN  {Package(0, <<Pattern(0, 5, <<t(0), t(100), t(200)>>)>>),
       Package(9, <<Pattern(50, 0, <<t(0), t(0), t(0), t(0), t(0), t(0)>>)>>),
       Package(300, <<Pattern(0, 0, <<c(<<Point(0, 10, 0)>>)>>), Pattern(0, 0, <<>>)>>),
       Package(0, <<Pattern(0, 0, <<c([i \in 1 .. 4 |-> Point(i, 10 * i, 0)])>>)>>),
       Package(0, [i \in 1 .. 4 |-> Pattern(100 * i, 0, <<t(0)>>)]),
       Package(0, <<Pattern(100, 0, <<t(-110), t(20)>>)>>)}

\* Intervals that meet where events begin, a curve that ends before them all,
\* one without an interval and one that begins late, its points out of order.
MCCurves ==
  {[time |-> 0, duration |-> 400,
    points |-> <<Point(0, 50, 10), Point(100, 120, -30), Point(210, 80, 70)>>],
   [time |-> 20, duration |-> 120, points |-> <<Point(30, 20, -100), Point(120, 100, 0)>>],
   [time |-> 90, duration |-> 200,
    points |-> <<Point(50, 20, 0), Point(0, 60, 10), Point(120, 80, 0)>>],
   [time |-> 0, duration |-> 0, points |-> <<Point(0, 50, 0)>>]}

MCInfos ==
  {[usage |-> 1, systemUsage |-> FALSE, sessionId |-> s, intensity |-> i, frequency |-> f] :
     <<s, i, f>> \in {<<0, 100, 0>>, <<7, 50, 40>>, <<7, 25, -70>>, <<0, 101, 0>>}}

MCWaves == [id \in 1 .. 3 |-> CASE id = 1 -> [intensity |-> 20, frequency |-> 100]
                                [] id = 2 -> [intensity |-> 10, frequency |-> 200]
                                [] id = 3 -> [intensity |-> 15, frequency |-> 150]]
================================================================================
