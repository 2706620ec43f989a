------------------------------ MODULE Tracking ------------------------------
(***************************************************************************)
(* Stages 4 to 6 (app/ai/vision/yolo_detector.py, occupancy.py and         *)
(* tracking.py): from what the detector returns for each frame to the      *)
(* objects of the video.                                                   *)
(*                                                                         *)
(* The detections of a video are a row of detections per frame, frames     *)
(* numbered from 1.  A confidence has five decimals, so that rounding to   *)
(* four matters; the detector and the trackers its library offers are      *)
(* external.                                                               *)
(***************************************************************************)
EXTENDS Boxes, Rules

DetectionConfidence == 25000
AdoptionConfidence == 4000    \* four decimals
MinDetectionFrames == 2
TrackingIouThreshold == 3000  \* four decimals

Aliases == [couch |-> "sofa", dining_table |-> "table"]

ToClassCode(raw) == IF raw \in DOMAIN Aliases THEN Aliases[raw] ELSE raw

\* What is kept of a result of the model: raw is None for an index without a name.
Kept(result) ==
    /\ result.confidence >= DetectionConfidence
    /\ result.raw # None
    /\ ToClassCode(result.raw) \in Classes
    /\ Area(ClampBox(result.box)) > 0

ToDetections(results, frame) ==
    LET kept == Filter(results, Kept)
    IN [k \in DOMAIN kept |->
            [class |-> ToClassCode(kept[k].raw), confidence |-> kept[k].confidence,
             frame |-> frame, box |-> ClampBox(kept[k].box), id |-> kept[k].id]]

Detect(scene) == [f \in DOMAIN scene |-> ToDetections(scene[f], f)]
-----------------------------------------------------------------------------
\* The share of the frame that is covered; a frame without detections counts as 0.
FrameArea(row) == Least(UnionArea({d.box : d \in ToSet(row)}), Grid * Grid)

\* The median over the frames, in units of the fourth decimal.
OccupancyRatio(rows) ==
    LET areas == SortedBy([f \in DOMAIN rows |-> FrameArea(rows[f])], LAMBDA a : <<a>>)
        n == Len(areas)
        upper == areas[(n \div 2) + 1]
        lower == IF n % 2 = 1 THEN upper ELSE areas[n \div 2]
    IN IF n = 0 THEN 0 ELSE Normalize(Ratio(lower + upper, 2 * Grid * Grid))
-----------------------------------------------------------------------------
LastBox(track) == Last(track.detections).box

\* The most confident detection represents the object, then the largest, then the earliest.
Finalize(track) ==
    LET Key(d) == <<-d.confidence, -Area(d.box), d.frame>>
        best == Best(track.detections, LAMBDA a, b : Precedes(Key(a), Key(b)))
    IN [class |-> track.class, confidence |-> best.confidence, frame |-> best.frame,
        box |-> best.box,
        frames |-> Cardinality({d.frame : d \in ToSet(track.detections)})]

FinalizeAll(tracks) == [k \in DOMAIN tracks |-> Finalize(tracks[k])]

\* A pair is a track and a detection; closeness is their overlap.
Closeness(tracks, row, p) == Iou(LastBox(tracks[p[1]]), row[p[2]].box)

\* The code takes the classes one by one, which comes to the same as no pair is of two.
Pairs(tracks, row) ==
    {p \in (DOMAIN tracks) \X (DOMAIN row) :
        /\ tracks[p[1]].class = row[p[2]].class
        /\ Normalize(Closeness(tracks, row, p)) >= TrackingIouThreshold}

\* Mutant: in the order of the lists.
InListOrder(tracks, row, p, q) == Precedes(p, q)

\* The closest pair first.
CloserPair(tracks, row, p, q) ==
    LET r == Closeness(tracks, row, p)
        s == Closeness(tracks, row, q)
    IN Greater(r, s) \/ (~Greater(s, r) /\ Precedes(p, q))

\* Mutant: a track may be continued twice.
DetectionFree(taken, p) == \A q \in taken : q[2] # p[2]

BothFree(taken, p) == \A q \in taken : q[1] # p[1] /\ q[2] # p[2]

Assigned(tracks, row) ==
    LET Before(p, q) == CloserPair(tracks, row, p, q)
        Take(taken, p) == IF BothFree(taken, p) THEN taken \cup {p} ELSE taken
    IN FoldLeft(Take, {}, Arranged(Pairs(tracks, row), Before))

\* _assign: a detection that continues no track begins one.
Assign(tracks, row) ==
    LET assigned == Assigned(tracks, row)
        Continued(t) ==
            IF \E p \in assigned : p[1] = t
            THEN LET p == CHOOSE p \in assigned : p[1] = t
                 IN [tracks[t] EXCEPT !.detections = Append(@, row[p[2]])]
            ELSE tracks[t]
        New(d) == [class |-> row[d].class, detections |-> <<row[d]>>]
        fresh == Ascending({d \in DOMAIN row : \A p \in assigned : p[2] # d})
    IN [t \in DOMAIN tracks |-> Continued(t)] \o [k \in DOMAIN fresh |-> New(fresh[k])]

IouTracks(rows) == FoldLeft(Assign, <<>>, rows)

\* tracks_by_class: the classes in the order of their first appearance.
ByClass(tracks) ==
    LET First(class) == CHOOSE t \in DOMAIN tracks :
                            /\ tracks[t].class = class
                            /\ \A u \in 1..(t - 1) : tracks[u].class # class
    IN SortedBy(tracks, LAMBDA t : <<First(t.class)>>)

IouTrack(rows) == FinalizeAll(ByClass(IouTracks(rows)))

\* Detections of one class with one identifier.
IdTracks(rows) ==
    LET identified == Filter(FlattenSeq(rows), LAMBDA d : d.id # None)
        Key(d) == <<d.class, d.id>>
        first == FirstOfEach(identified, Key)
    IN [k \in DOMAIN first |->
            [class |-> first[k].class,
             detections |-> Filter(identified, LAMBDA d : Key(d) = Key(first[k]))]]

Untracked(rows) == [f \in DOMAIN rows |-> Filter(rows[f], LAMBDA d : d.id = None)]

\* Detections without an identifier are left to the overlap.
TrackIdTrack(rows) == FinalizeAll(IdTracks(rows)) \o IouTrack(Untracked(rows))

Adopted(object) ==
    /\ RoundHalfUp(object.confidence, 10) >= AdoptionConfidence
    /\ object.frames >= MinDetectionFrames

Adopt(objects) == Filter(objects, Adopted)
=============================================================================
