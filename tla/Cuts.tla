-------------------------------- MODULE Cuts --------------------------------
(***************************************************************************)
(* Cutting silences out of a video: silence.go, and the checks of          *)
(* remove_segments.go (what an edit then does to the row and to the object *)
(* is module EditJobs).                                                    *)
(*                                                                         *)
(* DetectSilence reads the row, has ffmpeg listen to the object, and       *)
(* answers with segments; the client sends those it keeps back to          *)
(* RemoveSegments, which checks them against the row of that moment.       *)
(* Edits and a probe change row and object in between.                     *)
(***************************************************************************)
EXTENDS Integers, FiniteSets, Sequences, SequencesExt

CONSTANTS Second,       \* a second, in the shortest length DetectSilence returns
          MaxDuration,  \* of the video, in seconds (bounds the model)
          MaxSegments   \* maxSegments

ASSUME CutsAssumption == Second \in Nat \ {0} /\ MaxDuration \in Nat /\ MaxSegments \in Nat

VARIABLES duration,   \* videos.duration, in whole seconds
          length,     \* of the object
          busy,       \* videos.status = 'processing'
          detection   \* the last DetectSilence

cutVars == <<duration, length, busy, detection>>

Times == 0 .. (MaxDuration + 1) * Second
Segment == [start : Times, end : Times]

\* since: history, that the row's duration is still the one read.
NoDetection == [pc |-> "none", duration |-> 0, found |-> <<>>, since |-> FALSE]

\* The client's duration is rounded either way.
Rounded(d, l) == d * Second < l + Second /\ l < (d + 1) * Second

CutsInit ==
  /\ duration \in 1 .. MaxDuration /\ length \in {l \in Times : Rounded(duration, l)}
  /\ busy = FALSE /\ detection = NoDetection

(***************************************************************************)
(* ffmpeg's log: a line for the start and one for the end of each silence. *)
(* A start a little before zero is printed with a sign the pattern does    *)
(* not match, so that its end comes first; the last may have no end.       *)
(***************************************************************************)
Nth(T, i) == CHOOSE t \in T : Cardinality({u \in T : u < t}) = i - 1

Logs(l) ==
  LET lines(T, first) ==
        [i \in 1 .. Cardinality(T) |->
           [what |-> IF i % 2 = 1 THEN first ELSE IF first = "start" THEN "end" ELSE "start",
            at |-> Nth(T, i)]]
  IN {lines(T, first) : T \in SUBSET (0 .. l), first \in {"start", "end"}}

ReadLine(was, line) ==
  IF line.what = "start" THEN [was EXCEPT !.pending = line.at]
  ELSE IF was.pending = -1 THEN was
  ELSE [pending |-> -1,
        found |-> Append(was.found, [start |-> was.pending, end |-> line.at])]

ReadLines(log) ==
  LET read[i \in 0 .. Len(log)] ==
        IF i = 0 THEN [pending |-> -1, found |-> <<>>] ELSE ReadLine(read[i-1], log[i])
  IN read

parseSilenceDetectOutput(log) == ReadLines(log)[Len(log)].found

\* A plausible mistake, to test the properties: what lies beyond the row's duration is
\* left out, an end beyond it is not moved.
Unclamped(found, d) == SelectSeq(found, LAMBDA s : s.start < d * Second /\ s.end - s.start >= 1)

Cut(s, d) == [s EXCEPT !.end = IF @ > d * Second THEN d * Second ELSE @]

Keep(kept, s, d) ==
  IF s.start < d * Second /\ Cut(s, d).end - s.start >= 1 THEN Append(kept, Cut(s, d)) ELSE kept

KeepEach(found, d) ==
  LET kept[i \in 0 .. Len(found)] == IF i = 0 THEN <<>> ELSE Keep(kept[i-1], found[i], d)
  IN kept

Clamped(found, d) == KeepEach(found, d)[Len(found)]

(***************************************************************************)
(* DetectSilence.                                                          *)
(***************************************************************************)
StartDetection ==
  /\ ~busy
  /\ detection' = [NoDetection EXCEPT !.pc = "listen", !.duration = duration, !.since = TRUE]
  /\ UNCHANGED <<duration, length, busy>>

FinishDetection(log) ==
  /\ detection.pc = "listen"
  /\ detection' = [detection EXCEPT !.pc = "answered",
                     !.found = Clamped(parseSilenceDetectOutput(log), detection.duration)]
  /\ UNCHANGED <<duration, length, busy>>

(***************************************************************************)
(* RemoveSegments: what it checks of the request, and of the row.          *)
(***************************************************************************)
WellFormed(segments) ==
  /\ \A i \in DOMAIN segments : 0 <= segments[i].start /\ segments[i].start < segments[i].end
  /\ \A i \in DOMAIN segments \ {1} : /\ segments[i].start >= segments[i-1].start
                                      /\ segments[i].start >= segments[i-1].end

Fits(segments, d) == \A i \in DOMAIN segments : segments[i].end <= d * Second

LeavesASecond(segments, d) ==
  d * Second - FoldLeft(LAMBDA sum, s : sum + s.end - s.start, 0, segments) >= Second

Accepts(segments) ==
  /\ segments # <<>> /\ Len(segments) <= MaxSegments /\ WellFormed(segments)
  /\ ~busy /\ Fits(segments, duration) /\ LeavesASecond(segments, duration)

RemoveSegments ==
  /\ detection.pc = "answered" /\ Accepts(detection.found)
  /\ busy' = TRUE /\ UNCHANGED <<duration, length, detection>>

\* The edit that runs ends, this one or another: the object and then the row change, or
\* neither.  A probe corrects the duration at any time.
EditEnds ==
  /\ busy /\ busy' = FALSE
  /\ \/ \E d \in 1 .. duration, l \in {k \in Times : k <= length} :
          /\ Rounded(d, l) /\ duration' = d /\ length' = l
          /\ detection' = [detection EXCEPT !.since = @ /\ d = duration]
     \/ UNCHANGED <<duration, length, detection>>

\* The whole seconds of the object; less than one is not written.
Probe ==
  LET d == length \div Second IN
    /\ d > 0 /\ d # duration /\ duration' = d
    /\ detection' = [detection EXCEPT !.since = FALSE] /\ UNCHANGED <<length, busy>>

Trim == ~busy /\ busy' = TRUE /\ UNCHANGED <<duration, length, detection>>

CutsNext ==
  \/ StartDetection \/ RemoveSegments \/ Trim \/ EditEnds \/ Probe
  \/ \E log \in Logs(length) : FinishDetection(log)

CutsSpec == CutsInit /\ [][CutsNext]_cutVars

-----------------------------------------------------------------------------
CutsTypeOK ==
  /\ duration \in 1 .. MaxDuration /\ length \in Times /\ busy \in BOOLEAN
  /\ detection \in [pc : {"none", "listen", "answered"}, duration : 0 .. MaxDuration,
                     found : Seq(Segment), since : BOOLEAN]

\* What DetectSilence answers, RemoveSegments takes: while the video's duration is the one
\* it read, no check of order, overlap or end refuses the segments (the comment at
\* silence.go:87), whatever ffmpeg wrote, though the object may be longer than the row says.
\* There may still be too many of them, none, or too little left.
DetectedAreCuttable ==
  detection.pc = "answered" /\ detection.since =>
    WellFormed(detection.found) /\ Fits(detection.found, duration)
=============================================================================
