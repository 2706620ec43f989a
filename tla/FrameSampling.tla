--------------------------- MODULE FrameSampling ---------------------------
(***************************************************************************)
(* Stages 1 to 3 (app/ai/vision/frames.py): which frames of a video are    *)
(* analysed.  A video is its duration and the times of the frames its      *)
(* decoder yields, in milliseconds and in order.                           *)
(***************************************************************************)
EXTENDS Rounding, SequencesExt, FiniteSetsExt

CONSTANTS
    FrameRate,           \* frames per second of video
    FrameMin, FrameMax   \* fewest and most frames of an analysis

ASSUME SamplingAssumption ==
    /\ FrameRate \in Nat \ {0}
    /\ FrameMin \in Nat \ {0}
    /\ FrameMax \in Nat
    /\ FrameMin <= FrameMax

TargetFrameCount(duration) ==
    Least(Greatest(RoundHalfEven(duration * FrameRate, 1000), FrameMin), FrameMax)

\* Moment i of count, the middle of its interval, has come at a time.
Reached(i, duration, count, time) == 2 * count * time >= (2 * i - 1) * duration

\* Mutant: a frame is picked for each moment that has come.
CollectAgain(video, count) ==
    LET At(i) == {k \in DOMAIN video.times : Reached(i, video.duration, count, video.times[k])}
    IN FoldLeft(LAMBDA s, i : IF At(i) = {} THEN s ELSE Append(s, Min(At(i))),
                <<>>, [i \in 1..count |-> i])

\* Each decoded frame uses up every moment that has come, and is picked if there is one.
\* The k-th picked frame has the number k; here it is the index of the decoded frame.
Collect(video, count) ==
    LET Step(s, k) ==
            LET passed == Cardinality({i \in 1..count :
                                        Reached(i, video.duration, count, video.times[k])})
            IN IF passed > s.passed
               THEN [passed |-> passed, picked |-> Append(s.picked, k)] ELSE s
    IN FoldLeft(Step, [passed |-> 0, picked |-> <<>>], [k \in DOMAIN video.times |-> k]).picked

Extract(video) == Collect(video, TargetFrameCount(video.duration))

TooFew(frames) == Len(frames) < FrameMin
=============================================================================
