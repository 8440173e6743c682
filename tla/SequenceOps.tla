----------------------------- MODULE SequenceOps -----------------------------
(***************************************************************************)
(* engine/sequence_ops.cpp: transforms of the notes of a sequence layer.   *)
(* A note is [pitch, start, dur, vel], start and dur in ticks. Apart from  *)
(* Arpeggiate, a transform gives a note for each note, in their order,     *)
(* which need not be the order of time any more.                           *)
(***************************************************************************)
EXTENDS Integers, FiniteSets, FiniteSetsExt, Lists

MaxPitch == 127
MaxVelocity == 127

Clamp(x, low, high) == Max({low, Min({x, high})})
AtLeast(low, x) == Max({low, x})

\* lround of n / d: the nearest integer, halves away from zero.
Round(n, d) == IF n >= 0 THEN (2 * n + d) \div (2 * d) ELSE -((d - 2 * n) \div (2 * d))

SeqNote(pitch, start, dur, vel) == [pitch |-> pitch, start |-> start, dur |-> dur, vel |-> vel]

\* time_order: the place of a note in time, from 0; notes that start together follow as
\* they are given.
Rank(notes, i) ==
    Cardinality({j \in DOMAIN notes : \/ notes[j].start < notes[i].start
                                      \/ notes[j].start = notes[i].start /\ j < i})

\* span_of
SpanBegin(notes) == Min({notes[i].start : i \in DOMAIN notes})
SpanEnd(notes) == Max({notes[i].start + notes[i].dur : i \in DOMAIN notes} \cup {SpanBegin(notes)})

Each(notes, Op(_)) == [i \in DOMAIN notes |-> Op(notes[i])]

\* quantize: strength is how far, in percent, a note moves to the grid.
Grid(speed, division) == AtLeast(1, speed \div AtLeast(1, division))
Towards(from, to, strength) == Round(100 * from + (to - from) * Clamp(strength, 0, 100), 100)
Quantize(notes, speed, division, strength, durations) ==
    LET grid == Grid(speed, division)
        Start(t) == AtLeast(0, Towards(t, Round(t, grid) * grid, strength))
        Dur(t) == AtLeast(1, Towards(t, AtLeast(grid, Round(t, grid) * grid), strength))
    IN  Each(notes, LAMBDA n : [n EXCEPT !.start = Start(@), !.dur = IF durations THEN Dur(@) ELSE @])

\* humanize, for the draws t, v and d of a note.
Humanize(notes, t, v, d) ==
    Each(notes, LAMBDA n : [n EXCEPT !.start = AtLeast(0, @ + t),
                                     !.vel = Clamp(@ + v, 1, MaxVelocity),
                                     !.dur = AtLeast(1, @ + d)])

\* transpose
Transpose(notes, semitones) == Each(notes, LAMBDA n : [n EXCEPT !.pitch = Clamp(@ + semitones, 0, MaxPitch)])

\* reverse: a mirror in time.
Backwards(notes) ==
    IF Len(notes) <= 1 THEN notes
    ELSE Each(notes, LAMBDA n : [n EXCEPT !.start = SpanEnd(notes) - (n.start - SpanBegin(notes)) - n.dur])

\* invert: a mirror about the middle of the pitches.
Upturned(notes) ==
    LET pitches == {notes[i].pitch : i \in DOMAIN notes}
        twice == 2 * Round(Min(pitches) + Max(pitches), 2)
    IN  IF Len(notes) <= 1 THEN notes
        ELSE Each(notes, LAMBDA n : [n EXCEPT !.pitch = Clamp(twice - @, 0, MaxPitch)])

\* arpeggiate: the pitches, in each of the octaves they reach, as a run over the span.
Ascending(set) == [r \in 1..Cardinality(set) |-> CHOOSE p \in set : Cardinality({q \in set : q < p}) = r - 1]
Fanned(notes, octaves) ==
    LET pitches == Ascending({notes[i].pitch : i \in DOMAIN notes})
        n == Len(pitches)
    IN  Within([i \in 1..(AtLeast(1, octaves) * n) |-> pitches[((i - 1) % n) + 1] + 12 * ((i - 1) \div n)], 0..MaxPitch)
Cycles(pitches, direction) ==
    CASE direction = "up" -> {pitches}
      [] direction = "down" -> {Reverse(pitches)}
      [] direction = "updown" -> {pitches \o Reverse(SubSeq(pitches, 2, Len(pitches) - 1))}
      [] direction = "random" -> {[i \in DOMAIN pitches |-> pitches[p[i]]] :
                                      p \in {q \in [DOMAIN pitches -> DOMAIN pitches] : IsInjective(q)}}
MeanVelocity(notes) == Round(FoldLeft(LAMBDA sum, n : sum + n.vel, 0, notes), Len(notes))
Arpeggio(notes, cycle, step, gate) ==
    LET begin == SpanBegin(notes)
        end == SpanEnd(notes)
    IN  [i \in 1..((end - begin + step - 1) \div step) |->
            LET tick == begin + (i - 1) * step
            IN  SeqNote(cycle[((i - 1) % Len(cycle)) + 1], tick, Min({gate, end - tick}), MeanVelocity(notes))]
\* Nothing in, nothing out.
Arpeggiate(notes, speed, cycle, rate, gatePercent) ==
    LET step == AtLeast(1, speed \div AtLeast(1, rate))
    IN  Arpeggio(notes, cycle, step, AtLeast(1, (step * gatePercent) \div 100))

\* velocity_curve, by the place of a note in time.
CurveAt(shape, rank, last, low, high) ==
    CASE shape = "crescendo" -> IF last = 0 THEN Round(low + high, 2) ELSE Round(low * last + rank * (high - low), last)
      [] shape = "decrescendo" -> IF last = 0 THEN Round(low + high, 2) ELSE Round(high * last - rank * (high - low), last)
      [] shape = "accent" -> IF rank % 4 = 0 THEN high ELSE low
      [] shape = "flat" -> Round(low + high, 2)
VelocityCurve(notes, shape, low, high) ==
    [i \in DOMAIN notes |->
        [notes[i] EXCEPT !.vel = Clamp(CurveAt(shape, Rank(notes, i), Len(notes) - 1, low, high), 1, MaxVelocity)]]

\* gate_length: under 100 percent a note is shortened; from there on it reaches to the
\* next later start.
GateLength(notes, percent) ==
    LET later(i) == {notes[j].start : j \in {k \in DOMAIN notes : notes[k].start > notes[i].start}}
        reach(i) == IF percent < 100 \/ later(i) = {} THEN notes[i].dur ELSE Min(later(i)) - notes[i].start
    IN  [i \in DOMAIN notes |-> [notes[i] EXCEPT !.dur = AtLeast(1, Round(reach(i) * percent, 100))]]
=============================================================================
