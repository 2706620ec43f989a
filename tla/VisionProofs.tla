---------------------------- MODULE VisionProofs ----------------------------
(***************************************************************************)
(* What vision makes of the frames of a video, for every grid, threshold,  *)
(* video and set of detections: which pairs the greedy assignment takes,   *)
(* that every track has its detections in frames that were sampled, that   *)
(* every finalised object has a box in the frame, and that the thumbnail   *)
(* and the frames of the detections to look at again are among those that  *)
(* are kept, so that the text model sees exactly what is then stored.      *)
(* What follows from the objects: that every score is a percentage and     *)
(* grows by the removal of a dangerous object, that what is saved fits the *)
(* tables but for two cases of a box, and that what is shown as dangerous  *)
(* is what the score of safety counts.  That each detection is in one      *)
(* track, once; that the order in which the detections of a frame are      *)
(* listed makes no difference where no two overlaps are equal; and that    *)
(* the area of the union of any number of boxes is the number of units of  *)
(* the grid that they cover.                                               *)
(***************************************************************************)
EXTENDS AnalysisDataProofs

-----------------------------------------------------------------------------
\* A box that is kept: within the frame, and not empty.
FrameBox ==
    {b \in [x : Frame, y : Frame, width : Frame, height : Frame] :
        Right(b) <= Grid /\ Bottom(b) <= Grid /\ b.width > 0 /\ b.height > 0}

\* A detection in one of n frames.
IsDetection(d, n) ==
    /\ d.class \in Classes /\ d.confidence \in DetectionConfidence..Certain
    /\ d.frame \in 1..n /\ d.box \in FrameBox

\* What the detections of n frames are: D holds them.
AreRows(rows, n, D) ==
    /\ rows \in [1..n -> Seq(D)]
    /\ \A d \in D : IsDetection(d, n)
    /\ \A f \in 1..n : \A d \in ToSet(rows[f]) : d.frame = f

(* clamp_box: whatever the detector returns, the box is in the frame.      *)
LEMMA ClampedBox ==
    ASSUME NEW b, {b.x, b.y, b.width, b.height} \subseteq Int
    PROVE  /\ ClampBox(b) \in [x : Frame, y : Frame, width : Frame, height : Frame]
           /\ Right(ClampBox(b)) <= Grid /\ Bottom(ClampBox(b)) <= Grid
<1>1. Grid \in Nat \ {0}
    BY GridAssumption
<1>2. ASSUME NEW v \in Int, NEW w \in Int
      PROVE  /\ InFrame(v) \in Frame
             /\ Greatest(InFrame(v + w) - InFrame(v), 0) \in Frame
             /\ InFrame(v) + Greatest(InFrame(v + w) - InFrame(v), 0) <= Grid
    BY <1>1 DEF InFrame, Least, Greatest, Frame
<1>3. PICK x, y, width, height :
        x = b.x /\ y = b.y /\ width = b.width /\ height = b.height
    OBVIOUS
<1>4. x \in Int /\ y \in Int /\ width \in Int /\ height \in Int
    BY <1>3
<1>5. PICK left, top, across, down :
        /\ left = InFrame(x) /\ top = InFrame(y)
        /\ across = Greatest(InFrame(x + width) - InFrame(x), 0)
        /\ down = Greatest(InFrame(y + height) - InFrame(y), 0)
    OBVIOUS
<1>6. ClampBox(b) = [x |-> left, y |-> top, width |-> across, height |-> down]
    BY <1>3, <1>5 DEF ClampBox, Right, Bottom
<1>7. /\ left \in Frame /\ top \in Frame /\ across \in Frame /\ down \in Frame
      /\ left + across <= Grid /\ top + down <= Grid
    BY <1>2, <1>4, <1>5
<1> QED
    BY <1>6, <1>7 DEF Right, Bottom

LEMMA KeptBox ==
    ASSUME NEW result, IsResult(result), Kept(result)
    PROVE  /\ ClampBox(result.box) \in FrameBox
           /\ result.confidence \in DetectionConfidence..Certain
           /\ ToClassCode(result.raw) \in Classes
<1>1. PICK b : b = ClampBox(result.box)
    OBVIOUS
<1>2. /\ b \in [x : Frame, y : Frame, width : Frame, height : Frame]
      /\ Right(b) <= Grid /\ Bottom(b) <= Grid
    <2>1. PICK c : c = result.box
        OBVIOUS
    <2>2. {c.x, c.y, c.width, c.height} \subseteq Int
        BY <2>1 DEF IsResult
    <2>3. b = ClampBox(c)
        BY <1>1, <2>1
    <2> QED
        BY <2>2, <2>3, ClampedBox
<1>3. Area(b) > 0
    BY <1>1 DEF Kept
<1>4. b.width \in Nat /\ b.height \in Nat
    BY <1>2, GridAssumption DEF Frame
<1>5. b.width > 0 /\ b.height > 0
    <2>1. PICK w \in Nat, h \in Nat : w = b.width /\ h = b.height
        BY <1>4
    <2>2. w * h > 0
        BY <1>3, <2>1 DEF Area
    <2>3. w # 0 /\ h # 0
        BY <2>2
    <2> QED
        BY <2>1, <2>3
<1>6. b \in FrameBox
    BY <1>2, <1>5 DEF FrameBox
<1>7. result.confidence \in DetectionConfidence..Certain
    <2>1. DetectionConfidence \in Nat /\ Certain \in Nat
        BY SMT DEF DetectionConfidence, Certain
    <2>2. PICK c : c = result.confidence
        OBVIOUS
    <2>3. c \in 0..Certain /\ c >= DetectionConfidence
        BY <2>2 DEF IsResult, Kept
    <2>4. c \in DetectionConfidence..Certain
        BY <2>1, <2>3
    <2> QED
        BY <2>2, <2>4
<1> QED
    BY <1>1, <1>6, <1>7 DEF Kept

(* to_detections: what is kept of the results for a frame.                 *)
LEMMA FrameDetections ==
    ASSUME NEW results, IsList(results), \A r \in ToSet(results) : IsResult(r),
           NEW n \in Nat, NEW f \in 1..n
    PROVE  \E X : /\ ToDetections(results, f) \in Seq(X)
                  /\ \A d \in X : IsDetection(d, n) /\ d.frame = f
<1>1. PICK Y : Y = ToSet(results)
    OBVIOUS
<1>2. PICK m \in Nat : /\ m = Len(results) /\ DOMAIN results = 1..m
                       /\ \A k \in 1..m : results[k] \in Y
    <2>1. results \in Seq(Y)
        BY <1>1 DEF IsList
    <2> QED
        BY <2>1, ListElements
<1> DEFINE T == {k \in DOMAIN results : Kept(results[k])}
           Z == {r \in Y : Kept(r)}
           Of(r) == [class |-> ToClassCode(r.raw), confidence |-> r.confidence, frame |-> f,
                     box |-> ClampBox(r.box), id |-> r.id]
           X == {Of(r) : r \in Z}
<1>3. PICK kept : kept = Filter(results, Kept)
    OBVIOUS
<1>4. kept = Chosen(results, T)
    BY <1>3, Zenon DEF Filter
<1>5. T \subseteq 1..m /\ \A t \in T : results[t] \in Z
    BY <1>2
<1>6. kept \in Seq(Z)
    <2> HIDE DEF T, Z
    <2> QED
        BY <1>2, <1>4, <1>5, ChosenElements
<1>7. PICK l \in Nat : l = Len(kept) /\ DOMAIN kept = 1..l /\ kept \in [1..l -> Z]
    BY <1>6, ListElements
<1>8. PICK s : s = ToDetections(results, f)
    OBVIOUS
<1>9. s = [k \in DOMAIN kept |-> Of(kept[k])]
    BY <1>3, <1>8, Zenon DEF ToDetections
<1>10. s \in [1..l -> X]
    <2> HIDE DEF Of, Z
    <2>1. \A k \in 1..l : Of(kept[k]) \in X
        BY <1>7
    <2> HIDE DEF X
    <2> QED
        BY <1>7, <1>9, <2>1
<1>11. s \in Seq(X)
    BY <1>10, FunctionList
<1>12. ASSUME NEW r \in Z PROVE IsDetection(Of(r), n) /\ Of(r).frame = f
    <2>1. IsResult(r) /\ Kept(r)
        BY <1>1
    <2>2. PICK d : d = Of(r)
        OBVIOUS
    <2>3. /\ d.class = ToClassCode(r.raw) /\ d.confidence = r.confidence /\ d.frame = f
          /\ d.box = ClampBox(r.box)
        BY <2>2
    <2>4. IsDetection(d, n)
        BY <2>1, <2>3, KeptBox DEF IsDetection
    <2> HIDE DEF Of
    <2> QED
        BY <2>2, <2>3, <2>4
<1>13. \A d \in X : IsDetection(d, n) /\ d.frame = f
    <2> HIDE DEF Of, Z
    <2> QED
        BY <1>12
<1> QED
    BY <1>8, <1>11, <1>13

LEMMA DetectedRows ==
    ASSUME NEW scene, IsScene(scene)
    PROVE  /\ Len(scene) \in Nat /\ Len(Detect(scene)) = Len(scene)
           /\ \E D : AreRows(Detect(scene), Len(scene), D)
<1>1. PICK Y : Y = ToSet(scene)
    OBVIOUS
<1>2. PICK n \in Nat : n = Len(scene) /\ DOMAIN scene = 1..n
    <2>1. scene \in Seq(Y)
        BY <1>1 DEF IsScene, IsList
    <2> QED
        BY <2>1, ListElements
<1>3. PICK rows : rows = Detect(scene)
    OBVIOUS
<1>4. rows = [f \in 1..n |-> ToDetections(scene[f], f)]
    BY <1>2, <1>3 DEF Detect
<1> DEFINE D == UNION {ToSet(rows[f]) : f \in 1..n}
<1>5. ASSUME NEW f \in 1..n
      PROVE  /\ rows[f] \in Seq(D)
             /\ \A d \in ToSet(rows[f]) : IsDetection(d, n) /\ d.frame = f
    <2>1. PICK results : results = scene[f]
        OBVIOUS
    <2>2. IsList(results) /\ \A r \in ToSet(results) : IsResult(r)
        BY <1>2, <2>1 DEF IsScene
    <2>3. PICK found : found = ToDetections(results, f)
        OBVIOUS
    <2>4. PICK X : found \in Seq(X) /\ \A d \in X : IsDetection(d, n) /\ d.frame = f
        BY <2>2, <2>3, FrameDetections
    <2>5. rows[f] = found
        BY <1>4, <2>1, <2>3
    <2>6. /\ Len(found) \in Nat /\ found \in [1..Len(found) -> X] /\ ToSet(found) \subseteq X
          /\ \A k \in 1..Len(found) : found[k] \in ToSet(found)
        BY <2>4, ListElements
    <2>7. ToSet(found) \subseteq D
        BY <2>5
    <2>8. found \in [1..Len(found) -> D]
        <3> HIDE DEF D
        <3> QED
            BY <2>6, <2>7
    <2>9. found \in Seq(D)
        <3> HIDE DEF D
        <3> QED
            BY <2>6, <2>8, FunctionList
    <2> QED
        BY <2>4, <2>5, <2>6, <2>9
<1>6. \A d \in D : IsDetection(d, n)
    BY <1>5
<1> HIDE DEF D
<1>7. rows \in [1..n -> Seq(D)]
    <2>1. rows = [f \in 1..n |-> rows[f]]
        BY <1>4
    <2> QED
        BY <1>5, <2>1
<1>8. AreRows(rows, n, D)
    BY <1>5, <1>6, <1>7 DEF AreRows
<1>9. Len(rows) = n
    BY <1>7, FunctionList
<1> QED
    BY <1>2, <1>3, <1>8, <1>9

-----------------------------------------------------------------------------
(* Quotients are compared crosswise, without rounding.                     *)
IsRatio(r) == r.num \in Nat /\ r.den \in Nat \ {0}

LEMMA CrosswiseTransitive ==
    ASSUME NEW a \in Nat, NEW b \in Nat \ {0}, NEW c \in Nat, NEW d \in Nat \ {0},
           NEW e \in Nat, NEW f \in Nat \ {0}, a * d <= c * b, c * f <= e * d
    PROVE  a * f <= e * b
<1>1. a * d \in Nat /\ c * b \in Nat /\ c * f \in Nat /\ e * d \in Nat /\ a * f \in Nat
      /\ e * b \in Nat
    BY Z3
<1>2. (a * d) * f <= (c * b) * f
    BY <1>1, Z3
<1>3. (c * f) * b <= (e * d) * b
    BY <1>1, Z3
<1>4. (a * d) * f = (a * f) * d /\ (e * d) * b = (e * b) * d /\ (c * b) * f = (c * f) * b
    BY Z3
<1>5. (a * f) * d <= (e * b) * d
    BY <1>2, <1>3, <1>4, Z3
<1> QED
    BY <1>1, <1>5, Z3

LEMMA GreaterOrders ==
    ASSUME NEW r, IsRatio(r), NEW s, IsRatio(s), NEW t, IsRatio(t)
    PROVE  /\ ~Greater(r, r)
           /\ ~(Greater(r, s) /\ Greater(s, r))
           /\ ~Greater(r, s) /\ ~Greater(s, t) => ~Greater(r, t)
<1>1. PICK a \in Nat, b \in Nat \ {0} : a = r.num /\ b = r.den
    BY DEF IsRatio
<1>2. PICK c \in Nat, d \in Nat \ {0} : c = s.num /\ d = s.den
    BY DEF IsRatio
<1>3. PICK e \in Nat, f \in Nat \ {0} : e = t.num /\ f = t.den
    BY DEF IsRatio
<1>4. /\ Greater(r, r) <=> a * b > a * b
      /\ Greater(r, s) <=> a * d > c * b
      /\ Greater(s, r) <=> c * b > a * d
      /\ Greater(s, t) <=> c * f > e * d
      /\ Greater(r, t) <=> a * f > e * b
    BY <1>1, <1>2, <1>3 DEF Greater
<1>5. /\ a * b \in Nat /\ a * d \in Nat /\ c * b \in Nat /\ c * f \in Nat /\ e * d \in Nat
      /\ a * f \in Nat /\ e * b \in Nat
    BY Z3
<1>6. a * d <= c * b /\ c * f <= e * d => a * f <= e * b
    BY CrosswiseTransitive
<1> QED
    BY <1>4, <1>5, <1>6

LEMMA OverlapRatio ==
    ASSUME NEW a \in FrameBox, NEW b \in FrameBox
    PROVE  IsRatio(Iou(a, b))
<1>1. ASSUME NEW c \in FrameBox PROVE c \in BoxType /\ Area(c) \in Nat /\ Area(c) > 0
    <2>1. PICK x \in Nat, y \in Nat, w \in Nat, h \in Nat :
            c = [x |-> x, y |-> y, width |-> w, height |-> h] /\ w > 0 /\ h > 0
        BY GridAssumption DEF FrameBox, Frame
    <2>2. w * h \in Nat /\ w * h > 0
        BY <2>1, Z3
    <2> QED
        BY <2>1, <2>2 DEF BoxType, Area
<1>2. PICK overlap : overlap = IntersectionArea(a, b)
    OBVIOUS
<1>3. overlap \in Nat /\ overlap <= Area(a) /\ overlap <= Area(b)
    BY <1>1, <1>2, IntersectionWithin
<1>4. PICK union : union = Area(a) + Area(b) - overlap
    OBVIOUS
<1>5. union \in Nat \ {0}
    BY <1>1, <1>3, <1>4
<1>6. Iou(a, b) = IF overlap = 0 THEN Ratio(0, 1) ELSE Ratio(overlap, union)
    BY <1>2, <1>4 DEF Iou
<1>7. IsRatio(Ratio(0, 1)) /\ IsRatio(Ratio(overlap, union))
    BY <1>3, <1>5 DEF Ratio, IsRatio
<1> QED
    BY <1>6, <1>7

\* A track that a detection has begun, of detections in D.
Tracks(D) == {t \in [class : Classes, detections : Seq(D)] : t.detections # <<>>}

LEMMA LastOfTrack ==
    ASSUME NEW n, NEW D, \A d \in D : IsDetection(d, n), NEW t \in Tracks(D)
    PROVE  /\ Len(t.detections) \in Nat \ {0} /\ Last(t.detections) \in D
           /\ LastBox(t) \in FrameBox
<1>1. PICK s : s = t.detections
    OBVIOUS
<1>2. s \in Seq(D) /\ s # <<>>
    BY <1>1 DEF Tracks
<1>3. Len(s) \in Nat /\ Len(s) # 0 /\ \A k \in 1..Len(s) : s[k] \in D
    BY <1>2, EmptySeq, ListElements
<1>4. Len(s) \in 1..Len(s) /\ Last(s) = s[Len(s)]
    BY <1>3 DEF Last
<1>5. s[Len(s)] \in D
    BY <1>3, <1>4
<1>6. LastBox(t) = Last(s).box
    BY <1>1 DEF LastBox
<1> QED
    BY <1>1, <1>3, <1>4, <1>5, <1>6 DEF IsDetection

\* The pairs, ordered as _assign takes them.
CloserPairs(tracks, found) ==
    {e \in Pairs(tracks, found) \X Pairs(tracks, found) : CloserPair(tracks, found, e[1], e[2])}

AreTracks(tracks, found, n, D) ==
    /\ tracks \in Seq(Tracks(D)) /\ found \in Seq(D)
    /\ \A d \in D : IsDetection(d, n)

LEMMA PairsAreOrdered ==
    ASSUME NEW n, NEW D, NEW tracks, NEW found, AreTracks(tracks, found, n, D)
    PROVE  /\ IsFiniteSet(Pairs(tracks, found))
           /\ Pairs(tracks, found) \subseteq (1..Len(tracks)) \X (1..Len(found))
           /\ Orders(Pairs(tracks, found), CloserPairs(tracks, found))
<1>1. PICK l \in Nat : l = Len(tracks) /\ DOMAIN tracks = 1..l
                       /\ \A t \in 1..l : tracks[t] \in Tracks(D)
    BY ListElements DEF AreTracks
<1>2. PICK m \in Nat : m = Len(found) /\ DOMAIN found = 1..m /\ \A k \in 1..m : found[k] \in D
    BY ListElements DEF AreTracks
<1>3. PICK S : S = Pairs(tracks, found)
    OBVIOUS
<1>4. S \subseteq (1..l) \X (1..m)
    BY <1>1, <1>2, <1>3 DEF Pairs
<1>5. IsFiniteSet(S)
    <2>1. IsFiniteSet(1..l) /\ IsFiniteSet(1..m)
        BY Segments
    <2>2. IsFiniteSet((1..l) \X (1..m))
        BY <2>1, FS_Product
    <2> QED
        BY <1>4, <2>2, FS_Subset
<1> DEFINE R(p) == Closeness(tracks, found, p)
<1>6. ASSUME NEW p \in S PROVE IsRatio(R(p))
    <2>1. p[1] \in 1..l /\ p[2] \in 1..m
        BY <1>4
    <2>2. PICK a, b : a = LastBox(tracks[p[1]]) /\ b = found[p[2]].box
        OBVIOUS
    <2>3. a \in FrameBox
        BY <1>1, <2>1, <2>2, LastOfTrack DEF AreTracks
    <2>4. b \in FrameBox
        BY <1>2, <2>1, <2>2 DEF AreTracks, IsDetection
    <2>5. R(p) = Iou(a, b)
        BY <2>2 DEF Closeness
    <2> QED
        BY <2>3, <2>4, <2>5, OverlapRatio
<1>7. ASSUME NEW p \in S PROVE p \in [1..2 -> Int] /\ p = <<p[1], p[2]>>
    BY <1>4
<1>8. PICK E : E = CloserPairs(tracks, found)
    OBVIOUS
<1>9. \A p, q \in S : <<p, q>> \in E <=>
            \/ Greater(R(p), R(q))
            \/ ~Greater(R(q), R(p)) /\ Precedes(p, q)
    BY <1>3, <1>8 DEF CloserPairs, CloserPair
<1> HIDE DEF R
<1>10. \A p \in S : <<p, p>> \notin E
    BY <1>6, <1>7, <1>9, GreaterOrders, PrecedesIrreflexive
<1>11. ASSUME NEW p \in S, NEW q \in S, NEW r \in S, <<p, q>> \in E, <<q, r>> \in E
       PROVE  <<p, r>> \in E
    <2>1. IsRatio(R(p)) /\ IsRatio(R(q)) /\ IsRatio(R(r))
        BY <1>6
    <2>2. PICK x, y, z : x = R(p) /\ y = R(q) /\ z = R(r)
        OBVIOUS
    <2>3. /\ ~(Greater(x, y) /\ Greater(y, x)) /\ ~(Greater(y, z) /\ Greater(z, y))
          /\ ~Greater(z, y) /\ ~Greater(y, x) => ~Greater(z, x)
          /\ ~Greater(x, z) /\ ~Greater(z, y) => ~Greater(x, y)
          /\ ~Greater(y, x) /\ ~Greater(x, z) => ~Greater(y, z)
        BY <2>1, <2>2, GreaterOrders
    <2>4. /\ Greater(x, y) \/ (~Greater(y, x) /\ Precedes(p, q))
          /\ Greater(y, z) \/ (~Greater(z, y) /\ Precedes(q, r))
        BY <1>9, <1>11, <2>2
    <2>5. Precedes(p, q) /\ Precedes(q, r) => Precedes(p, r)
        <3>1. p \in [1..2 -> Int] /\ q \in [1..2 -> Int] /\ r \in [1..2 -> Int] /\ 2 \in Nat
            BY <1>7
        <3> QED
            BY <3>1, PrecedesTransitive
    <2>6. Greater(x, z) \/ (~Greater(z, x) /\ Precedes(p, r))
        BY <2>3, <2>4, <2>5
    <2> QED
        BY <1>9, <2>2, <2>6
<1>12. ASSUME NEW p \in S, NEW q \in S, p # q PROVE <<p, q>> \in E \/ <<q, p>> \in E
    <2>1. p \in [1..2 -> Int] /\ q \in [1..2 -> Int] /\ 2 \in Nat
        BY <1>7
    <2>2. Precedes(p, q) \/ Precedes(q, p)
        BY <1>12, <2>1, PrecedesTotal
    <2> QED
        BY <1>9, <2>2
<1>13. Orders(S, E)
    BY <1>10, <1>11, <1>12 DEF Orders
<1> QED
    BY <1>1, <1>2, <1>3, <1>4, <1>5, <1>8, <1>13

-----------------------------------------------------------------------------
(* _assign takes the closest pair first: a pair is left only when a closer *)
(* one has taken its track or its detection.                               *)
Meet(p, q) == p[1] = q[1] \/ p[2] = q[2]

IsGreedy(A, tracks, found) ==
    /\ A \subseteq Pairs(tracks, found)
    /\ \A p, q \in A : Meet(p, q) => p = q
    /\ \A p \in Pairs(tracks, found) \ A :
            \E q \in A : Meet(q, p) /\ <<q, p>> \in CloserPairs(tracks, found)

Taking(taken, p) == IF BothFree(taken, p) THEN taken \cup {p} ELSE taken

Turns(S, tracks, found) ==
    [k \in 1..Cardinality(S) |->
        CHOOSE x \in S : Cardinality({y \in S : CloserPair(tracks, found, y, x)}) = k - 1]

LEMMA AssignedFold ==
    ASSUME NEW tracks, NEW found
    PROVE  LET c == Turns(Pairs(tracks, found), tracks, found)
               f == CHOOSE f : f = [s \in SUBSET DOMAIN c |->
                        IF s = {} THEN {} ELSE Taking(f[s \ {Max(s)}], c[Max(s)])]
           IN  Assigned(tracks, found) = f[DOMAIN c]
BY Zenon DEF Assigned, FoldLeft, MapThenFoldSet, Taking, Turns, Arranged

THEOREM GreedyAssignment ==
    ASSUME NEW n, NEW D, NEW tracks, NEW found, AreTracks(tracks, found, n, D)
    PROVE  IsGreedy(Assigned(tracks, found), tracks, found)
<1>1. PICK S, E : S = Pairs(tracks, found) /\ E = CloserPairs(tracks, found)
    OBVIOUS
<1>2. /\ IsFiniteSet(S) /\ S \subseteq (1..Len(tracks)) \X (1..Len(found)) /\ Orders(S, E)
    BY <1>1, PairsAreOrdered
<1>3. PICK c : c = Turns(S, tracks, found)
    OBVIOUS
<1>4. CountsBefore(c, S, E)
    <2> DEFINE N(x) == Cardinality({y \in S : CloserPair(tracks, found, y, x)})
    <2>1. ASSUME NEW x \in S PROVE Cardinality(Before(S, E, x)) = N(x)
        <3>1. Before(S, E, x) = {y \in S : CloserPair(tracks, found, y, x)}
            BY <1>1 DEF Before, CloserPairs
        <3> QED
            BY <3>1
    <2>2. c = [k \in 1..Cardinality(S) |-> CHOOSE x \in S : N(x) = k - 1]
        BY <1>3, Zenon DEF Turns
    <2> HIDE DEF N
    <2> QED
        BY <2>1, <2>2 DEF CountsBefore
<1>5. PICK N \in Nat :
        /\ N = Cardinality(S) /\ c \in [1..N -> S]
        /\ \A x \in S : \E k \in 1..N : c[k] = x
        /\ \A j, k \in 1..N : j < k => <<c[j], c[k]>> \in E
    <2>1. PICK N \in Nat : N = Cardinality(S)
        BY <1>2, FS_CardinalityType
    <2>2. LinesUp(c, S, E)
        BY <1>2, <1>4, ArrangedBy, Zenon
    <2> QED
        BY <2>1, <2>2 DEF LinesUp
<1>6. DOMAIN c = 1..N /\ \A k \in 1..N : c[k] \in S
    BY <1>5
<1> DEFINE Rec(f, s) == IF s = {} THEN {} ELSE Taking(f[s \ {Max(s)}], c[Max(s)])
           Solves(f) == f = [s \in SUBSET (1..N) |-> Rec(f, s)]
           iter == CHOOSE f : Solves(f)
           X == SUBSET S
           next == [k \in 1..N |-> [a \in X |-> Taking(a, c[k])]]
<1>7. Assigned(tracks, found) = iter[1..N]
    <2>1. c = Turns(Pairs(tracks, found), tracks, found)
        BY <1>1, <1>3
    <2> QED
        BY <1>6, <2>1, AssignedFold, Zenon
<1>8. \A k \in 1..N : \A a \in X : next[k][a] = Taking(a, c[k]) /\ Taking(a, c[k]) \in X
    BY <1>6 DEF Taking
<1>9. {} \in X
    OBVIOUS
<1> HIDE DEF next, X
<1>10. PICK f : FoldsLeft(f, N, X, {}, next)
    BY <1>8, <1>9, LeftFold
<1>11. Solves(f)
    <2>1. f \in [SUBSET (1..N) -> X]
        BY <1>10 DEF FoldsLeft
    <2>2. ASSUME NEW s \in SUBSET (1..N) PROVE f[s] = Rec(f, s)
        <3>1. CASE s = {}
            BY <1>10, <3>1 DEF FoldsLeft
        <3>2. CASE s # {}
            <4>1. /\ Max(s) \in 1..N /\ f[s \ {Max(s)}] \in X
                  /\ f[s] = next[Max(s)][f[s \ {Max(s)}]]
                BY <1>10, <3>2 DEF FoldsLeft
            <4>2. next[Max(s)][f[s \ {Max(s)}]] = Taking(f[s \ {Max(s)}], c[Max(s)])
                BY <1>8, <4>1
            <4> QED
                BY <3>2, <4>1, <4>2
        <3> QED
            BY <3>1, <3>2
    <2> HIDE DEF Rec
    <2> QED
        BY <2>1, <2>2
<1>12. Solves(iter)
    BY <1>11
<1>13. \A s \in SUBSET (1..N) : iter[s] = Rec(iter, s)
    <2> HIDE DEF Rec, iter
    <2> QED
        BY <1>12
<1> HIDE DEF iter, Solves
<1> DEFINE h == [k \in 0..N |-> iter[1..k]]
<1>14. h[0] = {}
    <2>1. 1..0 = {} /\ {} \in SUBSET (1..N) /\ 0 \in 0..N
        OBVIOUS
    <2> QED
        BY <1>13, <2>1
<1>15. ASSUME NEW k \in 1..N PROVE h[k] = Taking(h[k - 1], c[k])
    <2>1. 1..k \in SUBSET (1..N) /\ 1..k # {} /\ Max(1..k) = k /\ (1..k) \ {k} = 1..(k - 1)
        BY Segments
    <2>2. iter[1..k] = Taking(iter[1..(k - 1)], c[k])
        BY <1>13, <2>1
    <2>3. k \in 0..N /\ k - 1 \in 0..N
        OBVIOUS
    <2> QED
        BY <2>2, <2>3
<1>16. Assigned(tracks, found) = h[N]
    BY <1>7
<1> HIDE DEF h
<1> DEFINE Good(k) ==
                /\ \A p \in h[k] : \E j \in 1..k : p = c[j]
                /\ \A p, q \in h[k] : Meet(p, q) => p = q
                /\ \A j \in 1..k : c[j] \in h[k]
                        \/ \E q \in h[k] : Meet(q, c[j]) /\ <<q, c[j]>> \in E
           P == {k \in 0..N : Good(k)}
<1>17. Good(0)
    BY <1>14
<1>18. ASSUME NEW k \in 1..N, Good(k - 1) PROVE Good(k)
    <2>1. PICK a, b, p : a = h[k - 1] /\ b = h[k] /\ p = c[k]
        OBVIOUS
    <2>2. b = IF BothFree(a, p) THEN a \cup {p} ELSE a
        BY <1>15, <2>1 DEF Taking
    <2>3. /\ \A q \in a : \E j \in 1..(k - 1) : q = c[j]
          /\ \A q, r \in a : Meet(q, r) => q = r
          /\ \A j \in 1..(k - 1) : c[j] \in a \/ \E q \in a : Meet(q, c[j]) /\ <<q, c[j]>> \in E
        BY <1>18, <2>1
    <2>4. \A q \in a : \E j \in 1..k : q = c[j]
        BY <2>3
    <2>5. k \in 1..k /\ \A j \in 1..k : j \in 1..(k - 1) \/ j = k
        OBVIOUS
    <2>6. CASE BothFree(a, p)
        <3>1. b = a \cup {p} /\ \A q \in a : ~Meet(q, p) /\ ~Meet(p, q)
            BY <2>2, <2>6 DEF BothFree, Meet
        <3>2. \A q \in b : \E j \in 1..k : q = c[j]
            BY <2>1, <2>4, <2>5, <3>1
        <3>3. \A q, r \in b : Meet(q, r) => q = r
            BY <2>3, <3>1
        <3>4. \A j \in 1..k : c[j] \in b \/ \E q \in b : Meet(q, c[j]) /\ <<q, c[j]>> \in E
            BY <2>1, <2>3, <2>5, <3>1
        <3> QED
            BY <2>1, <3>2, <3>3, <3>4
    <2>7. CASE ~BothFree(a, p)
        <3>1. b = a
            BY <2>2, <2>7
        <3>2. PICK q \in a : Meet(q, p)
            BY <2>7 DEF BothFree, Meet
        <3>3. PICK j \in 1..(k - 1) : q = c[j]
            BY <2>3
        <3>4. <<q, p>> \in E
            <4>1. j \in 1..N /\ k \in 1..N /\ j < k
                OBVIOUS
            <4> QED
                BY <1>5, <2>1, <3>3, <4>1
        <3>5. \A i \in 1..k : c[i] \in b \/ \E r \in b : Meet(r, c[i]) /\ <<r, c[i]>> \in E
            BY <2>1, <2>3, <2>5, <3>1, <3>2, <3>4
        <3> QED
            BY <2>1, <2>3, <2>4, <3>1, <3>5
    <2> QED
        BY <2>6, <2>7
<1> HIDE DEF Good
<1>19. Good(N)
    <2>1. 0 \in P /\ \A k \in 1..N : k - 1 \in P => k \in P
        BY <1>17, <1>18
    <2> HIDE DEF P
    <2>2. N \in P
        BY <2>1, StepByStep
    <2> QED
        BY <2>2 DEF P
<1>20. PICK A : A = h[N]
    OBVIOUS
<1>21. /\ \A p \in A : \E j \in 1..N : p = c[j]
       /\ \A p, q \in A : Meet(p, q) => p = q
       /\ \A j \in 1..N : c[j] \in A \/ \E q \in A : Meet(q, c[j]) /\ <<q, c[j]>> \in E
    BY <1>19, <1>20 DEF Good
<1>22. A \subseteq S
    BY <1>6, <1>21
<1>23. ASSUME NEW p \in S \ A PROVE \E q \in A : Meet(q, p) /\ <<q, p>> \in E
    <2>1. PICK j \in 1..N : c[j] = p
        BY <1>5
    <2> QED
        BY <1>21, <2>1
<1> QED
    BY <1>1, <1>16, <1>20, <1>21, <1>22, <1>23 DEF IsGreedy

Fresh(tracks, found) ==
    {d \in DOMAIN found : \A p \in Assigned(tracks, found) : p[2] # d}

Begun(d) == [class |-> d.class, detections |-> <<d>>]

\* r is what _assign makes of the tracks and what is found in the next frame.
GoesOn(r, tracks, found) ==
    /\ Len(r) = Len(tracks) + Cardinality(Fresh(tracks, found))
    /\ \A t \in 1..Len(tracks) :
        \/ \E p \in Assigned(tracks, found) :
            /\ p[1] = t
            /\ r[t] = [tracks[t] EXCEPT !.detections = Append(@, found[p[2]])]
        \/ (\A p \in Assigned(tracks, found) : p[1] # t) /\ r[t] = tracks[t]
    /\ \A k \in 1..Cardinality(Fresh(tracks, found)) :
        r[Len(tracks) + k] = Begun(found[Ascending(Fresh(tracks, found))[k]])
    /\ InOrder(Ascending(Fresh(tracks, found)), Cardinality(Fresh(tracks, found)),
               Fresh(tracks, found))

LEMMA GrownTrack ==
    ASSUME NEW D, NEW t \in Tracks(D), NEW d \in D
    PROVE  /\ [t EXCEPT !.detections = Append(@, d)] \in Tracks(D)
           /\ [t EXCEPT !.detections = Append(@, d)].class = t.class
           /\ [t EXCEPT !.detections = Append(@, d)].detections = Append(t.detections, d)
<1>1. PICK c, s : t = [class |-> c, detections |-> s] /\ c \in Classes /\ s \in Seq(D)
    BY DEF Tracks
<1>2. PICK r : r = Append(s, d)
    OBVIOUS
<1>3. r \in Seq(D) /\ Len(r) = Len(s) + 1 /\ Len(s) \in Nat
    BY <1>1, <1>2, AppendProperties, LenProperties
<1>4. r # <<>>
    BY <1>3, EmptySeq
<1>5. [t EXCEPT !.detections = Append(@, d)] = [class |-> c, detections |-> r]
    <2>1. t.detections = s
        BY <1>1
    <2>2. [t EXCEPT !.detections = Append(@, d)] = [t EXCEPT !.detections = r]
        BY <1>2, <2>1
    <2>3. [t EXCEPT !.detections = r] = [class |-> c, detections |-> r]
        BY <1>1
    <2> QED
        BY <2>2, <2>3
<1> QED
    BY <1>1, <1>2, <1>3, <1>4, <1>5 DEF Tracks

LEMMA BegunTrack ==
    ASSUME NEW n, NEW D, NEW d \in D, IsDetection(d, n)
    PROVE  Begun(d) \in Tracks(D)
<1>1. <<d>> \in Seq(D) /\ <<d>> # <<>>
    OBVIOUS
<1>2. d.class \in Classes
    BY DEF IsDetection
<1> QED
    BY <1>1, <1>2 DEF Begun, Tracks

LEMMA AssignGoesOn ==
    ASSUME NEW n, NEW D, NEW tracks, NEW found, AreTracks(tracks, found, n, D)
    PROVE  /\ Assign(tracks, found) \in Seq(Tracks(D))
           /\ GoesOn(Assign(tracks, found), tracks, found)
<1>1. PICK A : A = Assigned(tracks, found)
    OBVIOUS
<1>2. /\ A \subseteq Pairs(tracks, found) /\ \A p, q \in A : Meet(p, q) => p = q
    BY <1>1, GreedyAssignment DEF IsGreedy
<1>3. PICK l \in Nat : l = Len(tracks) /\ DOMAIN tracks = 1..l
                       /\ \A t \in 1..l : tracks[t] \in Tracks(D)
    BY ListElements DEF AreTracks
<1>4. PICK m \in Nat : m = Len(found) /\ DOMAIN found = 1..m /\ \A k \in 1..m : found[k] \in D
    BY ListElements DEF AreTracks
<1>5. \A p \in A : p[1] \in 1..l /\ p[2] \in 1..m
    BY <1>2, <1>3, <1>4, PairsAreOrdered
<1> DEFINE F == {d \in DOMAIN found : \A p \in A : p[2] # d}
           Grow(t, d) == [tracks[t] EXCEPT !.detections = Append(@, found[d])]
           Continued(t) == IF \E p \in A : p[1] = t
                           THEN LET p == CHOOSE p \in A : p[1] = t IN Grow(t, p[2])
                           ELSE tracks[t]
           a == [t \in DOMAIN tracks |-> Continued(t)]
           New(d) == [class |-> found[d].class, detections |-> <<found[d]>>]
           c == Ascending(F)
           b == [k \in DOMAIN c |-> New(c[k])]
<1>6. Assign(tracks, found) = a \o b
    BY <1>1, Zenon DEF Assign
<1>7. F = Fresh(tracks, found) /\ F \subseteq 1..m
    BY <1>1, <1>4 DEF Fresh
<1>8. ASSUME NEW t \in 1..l
      PROVE  /\ a[t] \in Tracks(D)
             /\ \/ \E p \in A : p[1] = t /\ a[t] = Grow(t, p[2])
                \/ (\A p \in A : p[1] # t) /\ a[t] = tracks[t]
    <2>1. a[t] = Continued(t)
        BY <1>3
    <2>2. CASE \E p \in A : p[1] = t
        <3>1. PICK p \in A : p[1] = t /\ p = CHOOSE q \in A : q[1] = t
            BY <2>2
        <3>2. Continued(t) = Grow(t, p[2])
            BY <2>2, <3>1
        <3>3. Grow(t, p[2]) \in Tracks(D)
            <4>1. PICK s, d : s = tracks[t] /\ d = found[p[2]] /\ s \in Tracks(D) /\ d \in D
                BY <1>3, <1>4, <1>5, <3>1
            <4>2. [s EXCEPT !.detections = Append(@, d)] \in Tracks(D)
                BY <4>1, GrownTrack
            <4> QED
                BY <4>1, <4>2
        <3> HIDE DEF Grow, Continued, a
        <3> QED
            BY <2>1, <3>1, <3>2, <3>3
    <2>3. CASE ~\E p \in A : p[1] = t
        <3>1. Continued(t) = tracks[t]
            BY <2>3
        <3> HIDE DEF Grow, Continued, a
        <3> QED
            BY <1>3, <2>1, <2>3, <3>1
    <2> QED
        BY <2>2, <2>3
<1>9. a \in [1..l -> Tracks(D)]
    <2>1. a = [t \in 1..l |-> a[t]]
        BY <1>3
    <2> HIDE DEF a
    <2> QED
        BY <1>8, <2>1
<1>10. PICK f \in Nat : f = Cardinality(F) /\ InOrder(c, f, F)
    <2> HIDE DEF F
    <2>1. Cardinality(F) \in 0..m /\ InOrder(Ascending(F), Cardinality(F), F)
        BY <1>7, ArrangedNumbers
    <2> QED
        BY <2>1
<1>11. DOMAIN c = 1..f /\ \A k \in 1..f : c[k] \in F
    <2> HIDE DEF F, c
    <2> QED
        BY <1>10 DEF InOrder
<1>12. \A k \in 1..f : b[k] = Begun(found[c[k]]) /\ b[k] \in Tracks(D)
    <2> SUFFICES ASSUME NEW k \in 1..f PROVE b[k] = Begun(found[c[k]]) /\ b[k] \in Tracks(D)
        OBVIOUS
    <2>1. b[k] = New(c[k])
        BY <1>11
    <2>2. New(c[k]) = Begun(found[c[k]])
        BY Zenon DEF Begun
    <2>3. c[k] \in 1..m
        BY <1>7, <1>11
    <2>4. found[c[k]] \in D /\ IsDetection(found[c[k]], n)
        BY <1>4, <2>3 DEF AreTracks
    <2>5. Begun(found[c[k]]) \in Tracks(D)
        <3> HIDE DEF c
        <3> QED
            BY <2>4, BegunTrack
    <2> HIDE DEF b, New, c
    <2> QED
        BY <2>1, <2>2, <2>5
<1>13. b \in [1..f -> Tracks(D)]
    <2>1. b = [k \in 1..f |-> b[k]]
        BY <1>11
    <2> HIDE DEF b
    <2> QED
        BY <1>12, <2>1
<1> HIDE DEF a, b, c, F
<1>14. PICK r : r = a \o b
    OBVIOUS
<1>15. a \in Seq(Tracks(D)) /\ Len(a) = l /\ b \in Seq(Tracks(D)) /\ Len(b) = f
    BY <1>9, <1>13, FunctionList
<1>16. /\ r \in Seq(Tracks(D)) /\ Len(r) = l + f
       /\ \A i \in 1..(l + f) : r[i] = IF i <= l THEN a[i] ELSE b[i - l]
    BY <1>14, <1>15, ConcatProperties
<1>17. \A t \in 1..l : r[t] = a[t]
    BY <1>16
<1>18. ASSUME NEW k \in 1..f PROVE r[l + k] = b[k]
    <2>1. l + k \in 1..(l + f) /\ ~(l + k <= l) /\ (l + k) - l = k
        OBVIOUS
    <2> QED
        BY <1>16, <2>1
<1>19. GoesOn(r, tracks, found)
    <2>1. Len(r) = Len(tracks) + Cardinality(Fresh(tracks, found))
        BY <1>3, <1>7, <1>10, <1>16
    <2>2. ASSUME NEW t \in 1..Len(tracks)
          PROVE  \/ \E p \in Assigned(tracks, found) :
                    /\ p[1] = t
                    /\ r[t] = [tracks[t] EXCEPT !.detections = Append(@, found[p[2]])]
                 \/ (\A p \in Assigned(tracks, found) : p[1] # t) /\ r[t] = tracks[t]
        <3>1. t \in 1..l
            BY <1>3
        <3>2. r[t] = a[t]
            BY <1>17, <3>1
        <3>3. CASE \E p \in A : p[1] = t /\ a[t] = Grow(t, p[2])
            <4>1. PICK p \in A : p[1] = t /\ r[t] = Grow(t, p[2])
                BY <3>2, <3>3
            <4> QED
                BY <1>1, <4>1
        <3>4. CASE (\A p \in A : p[1] # t) /\ a[t] = tracks[t]
            BY <1>1, <3>2, <3>4
        <3> QED
            BY <1>8, <3>1, <3>3, <3>4
    <2>3. ASSUME NEW k \in 1..Cardinality(Fresh(tracks, found))
          PROVE  r[Len(tracks) + k] = Begun(found[Ascending(Fresh(tracks, found))[k]])
        <3>1. k \in 1..f
            BY <1>7, <1>10
        <3>2. r[l + k] = Begun(found[c[k]])
            BY <1>12, <1>18, <3>1
        <3> QED
            BY <1>3, <1>7, <3>2 DEF c
    <2>4. InOrder(Ascending(Fresh(tracks, found)), Cardinality(Fresh(tracks, found)),
                  Fresh(tracks, found))
        BY <1>7, <1>10 DEF c
    <2> QED
        BY <2>1, <2>2, <2>3, <2>4 DEF GoesOn
<1> QED
    BY <1>6, <1>14, <1>16, <1>19

\* The tracks after each frame.
RunsThrough(h, rows, m, X) ==
    /\ h \in [0..m -> X] /\ h[0] = <<>>
    /\ \A k \in 1..m : h[k] = Assign(h[k - 1], rows[k])

LEMMA TracksFold ==
    ASSUME NEW rows
    PROVE  LET f == CHOOSE f : f = [s \in SUBSET DOMAIN rows |->
                        IF s = {} THEN <<>> ELSE Assign(f[s \ {Max(s)}], rows[Max(s)])]
           IN  IouTracks(rows) = f[DOMAIN rows]
BY Zenon DEF IouTracks, FoldLeft, MapThenFoldSet

LEMMA TracksSoFar ==
    ASSUME NEW m \in Nat, NEW n, NEW D, \A d \in D : IsDetection(d, n),
           NEW rows \in [1..m -> Seq(D)]
    PROVE  \E h : RunsThrough(h, rows, m, Seq(Tracks(D))) /\ IouTracks(rows) = h[m]
<1>1. DOMAIN rows = 1..m /\ \A k \in 1..m : rows[k] \in Seq(D)
    OBVIOUS
<1> DEFINE X == Seq(Tracks(D))
           Rec(f, s) == IF s = {} THEN <<>> ELSE Assign(f[s \ {Max(s)}], rows[Max(s)])
           Solves(f) == f = [s \in SUBSET (1..m) |-> Rec(f, s)]
           iter == CHOOSE f : Solves(f)
           next == [k \in 1..m |-> [a \in X |-> Assign(a, rows[k])]]
<1>2. IouTracks(rows) = iter[1..m]
    BY <1>1, TracksFold, Zenon
<1>3. ASSUME NEW k \in 1..m, NEW a \in X
      PROVE  next[k][a] = Assign(a, rows[k]) /\ Assign(a, rows[k]) \in X
    <2>1. next[k][a] = Assign(a, rows[k])
        OBVIOUS
    <2>2. AreTracks(a, rows[k], n, D)
        BY <1>1, <1>3 DEF AreTracks
    <2>3. Assign(a, rows[k]) \in X
        BY <2>2, AssignGoesOn
    <2> QED
        BY <2>1, <2>3
<1>4. <<>> \in X
    OBVIOUS
<1> HIDE DEF next, X
<1>5. PICK f : FoldsLeft(f, m, X, <<>>, next)
    BY <1>3, <1>4, LeftFold
<1>6. Solves(f)
    <2>1. f \in [SUBSET (1..m) -> X]
        BY <1>5 DEF FoldsLeft
    <2>2. ASSUME NEW s \in SUBSET (1..m) PROVE f[s] = Rec(f, s)
        <3>1. CASE s = {}
            BY <1>5, <3>1 DEF FoldsLeft
        <3>2. CASE s # {}
            <4>1. /\ Max(s) \in 1..m /\ f[s \ {Max(s)}] \in X
                  /\ f[s] = next[Max(s)][f[s \ {Max(s)}]]
                BY <1>5, <3>2 DEF FoldsLeft
            <4>2. next[Max(s)][f[s \ {Max(s)}]] = Assign(f[s \ {Max(s)}], rows[Max(s)])
                BY <1>3, <4>1
            <4> QED
                BY <3>2, <4>1, <4>2
        <3> QED
            BY <3>1, <3>2
    <2> HIDE DEF Rec
    <2> QED
        BY <2>1, <2>2
<1>7. Solves(iter)
    BY <1>6
<1>8. \A s \in SUBSET (1..m) : iter[s] = Rec(iter, s)
    <2> HIDE DEF Rec, iter
    <2> QED
        BY <1>7
<1> HIDE DEF iter, Solves
<1> DEFINE h == [k \in 0..m |-> iter[1..k]]
<1>9. h[0] = <<>>
    <2>1. 1..0 = {} /\ {} \in SUBSET (1..m) /\ 0 \in 0..m
        OBVIOUS
    <2> QED
        BY <1>8, <2>1
<1>10. ASSUME NEW k \in 1..m PROVE h[k] = Assign(h[k - 1], rows[k])
    <2>1. 1..k \in SUBSET (1..m) /\ 1..k # {} /\ Max(1..k) = k /\ (1..k) \ {k} = 1..(k - 1)
        BY Segments
    <2>2. iter[1..k] = Assign(iter[1..(k - 1)], rows[k])
        BY <1>8, <2>1
    <2>3. k \in 0..m /\ k - 1 \in 0..m
        OBVIOUS
    <2> QED
        BY <2>2, <2>3
<1>11. IouTracks(rows) = h[m]
    BY <1>2
<1>12. h = [k \in 0..m |-> h[k]]
    OBVIOUS
<1> HIDE DEF h
<1> DEFINE P == {k \in 0..m : h[k] \in X}
<1>13. 0 \in P /\ \A k \in 1..m : k - 1 \in P => k \in P
    <2>1. 0 \in P
        BY <1>4, <1>9
    <2>2. ASSUME NEW k \in 1..m, h[k - 1] \in X PROVE h[k] \in X
        BY <1>3, <1>10, <2>2
    <2> QED
        BY <2>1, <2>2
<1>14. \A k \in 0..m : k \in P
    <2> HIDE DEF P
    <2> QED
        BY <1>13, StepByStep
<1>15. h \in [0..m -> X]
    BY <1>12, <1>14
<1>16. RunsThrough(h, rows, m, X)
    BY <1>9, <1>10, <1>15 DEF RunsThrough
<1> QED
    BY <1>11, <1>16 DEF X

-----------------------------------------------------------------------------
LEMMA FrameBoxArea ==
    ASSUME NEW b \in FrameBox
    PROVE  /\ b.x \in Nat /\ b.y \in Nat /\ b.width \in Nat \ {0} /\ b.height \in Nat \ {0}
           /\ Area(b) \in Nat \ {0}
<1>1. PICK x \in Nat, y \in Nat, w \in Nat, h \in Nat :
        b = [x |-> x, y |-> y, width |-> w, height |-> h] /\ w > 0 /\ h > 0
    BY GridAssumption DEF FrameBox, Frame
<1>2. w * h \in Nat /\ w * h > 0
    BY <1>1, Z3
<1> QED
    BY <1>1, <1>2 DEF Area

\* An object seen in n frames.
IsObject(o, n) ==
    /\ o.class \in Classes /\ o.confidence \in DetectionConfidence..Certain
    /\ o.frame \in 1..n /\ o.box \in FrameBox /\ o.frames \in Nat \ {0}

(* _finalize: a track makes an object.                                     *)
LEMMA FinalizedTrack ==
    ASSUME NEW n \in Nat, NEW D, \A d \in D : IsDetection(d, n), NEW t \in Tracks(D)
    PROVE  IsObject(Finalize(t), n)
<1>1. PICK s : s = t.detections
    OBVIOUS
<1>2. s \in Seq(D) /\ s # <<>> /\ t.class \in Classes
    BY <1>1 DEF Tracks
<1>3. PICK N \in Nat \ {0} :
        /\ N = Len(s) /\ DOMAIN s = 1..N /\ \A k \in 1..N : s[k] \in D /\ s[k] \in ToSet(s)
        /\ ToSet(s) \subseteq D
    BY <1>2, EmptySeq, ListElements
<1>4. DetectionConfidence \in Nat /\ Certain \in Nat
    BY SMT DEF DetectionConfidence, Certain
<1> DEFINE Key(d) == <<-d.confidence, -Area(d.box), d.frame>>
           key == [k \in 1..N |-> Key(s[k])]
           At(k) == /\ \A j \in DOMAIN s : ~Precedes(Key(s[j]), Key(s[k]))
                    /\ \A j \in 1..(k - 1) : Precedes(Key(s[k]), Key(s[j]))
           c == CHOOSE k \in DOMAIN s : At(k)
           frames == {d.frame : d \in ToSet(s)}
<1>5. Finalize(t) = [class |-> t.class, confidence |-> s[c].confidence, frame |-> s[c].frame,
                     box |-> s[c].box, frames |-> Cardinality(frames)]
    BY <1>1, Zenon DEF Finalize, Best
<1>6. ASSUME NEW k \in 1..N PROVE key[k] = Key(s[k]) /\ key[k] \in [1..3 -> Int]
    <2>1. PICK d : d = s[k] /\ IsDetection(d, n)
        BY <1>3
    <2>2. -d.confidence \in Int
        BY <1>4, <2>1 DEF IsDetection
    <2>3. -Area(d.box) \in Int
        BY <2>1, FrameBoxArea DEF IsDetection
    <2>4. d.frame \in Int
        BY <2>1 DEF IsDetection
    <2>5. Key(d) \in [1..3 -> Int]
        BY <2>2, <2>3, <2>4, ThreeNumbers
    <2> QED
        BY <2>1, <2>5
<1> HIDE DEF Key
<1>7. key \in Keys(N, 3)
    BY <1>6 DEF Keys
<1> HIDE DEF key
<1>8. WeaklyOrders(1..N, KeyOrder(N, key))
    BY <1>7, KeysOrder
<1>9. PICK b \in 1..N : /\ \A j \in 1..N : <<j, b>> \notin KeyOrder(N, key)
                        /\ \A j \in 1..(b - 1) : <<b, j>> \in KeyOrder(N, key)
    BY <1>8, FirstGreatest
<1>10. At(b)
    <2>1. ASSUME NEW j \in 1..N PROVE ~Precedes(Key(s[j]), Key(s[b]))
        BY <1>6, <1>9 DEF KeyOrder
    <2>2. ASSUME NEW j \in 1..(b - 1) PROVE Precedes(Key(s[b]), Key(s[j]))
        <3>1. j \in 1..N
            OBVIOUS
        <3> QED
            BY <1>6, <1>9, <3>1 DEF KeyOrder
    <2> QED
        BY <1>3, <2>1, <2>2
<1>11. c \in 1..N
    <2> HIDE DEF At
    <2> QED
        BY <1>3, <1>10
<1> HIDE DEF c
<1>12. PICK d : d = s[c] /\ IsDetection(d, n)
    BY <1>3, <1>11
<1>13. Cardinality(frames) \in Nat \ {0}
    <2>1. frames \subseteq 1..n
        BY <1>3 DEF IsDetection
    <2>2. s[1] \in ToSet(s)
        BY <1>3
    <2>3. frames # {}
        BY <2>2
    <2> HIDE DEF frames
    <2>4. IsFiniteSet(1..n)
        BY Segments
    <2>5. IsFiniteSet(frames)
        BY <2>1, <2>4, FS_Subset
    <2> QED
        BY <2>3, <2>5, FS_CardinalityType, FS_EmptySet
<1> HIDE DEF frames
<1>14. PICK o : o = Finalize(t)
    OBVIOUS
<1>15. /\ o.class = t.class /\ o.confidence = d.confidence /\ o.frame = d.frame
       /\ o.box = d.box /\ o.frames = Cardinality(frames)
    BY <1>5, <1>12, <1>14
<1> QED
    BY <1>2, <1>12, <1>13, <1>14, <1>15 DEF IsObject, IsDetection

\* A list of objects.
AreObjects(s, n) == IsList(s) /\ \A o \in ToSet(s) : IsObject(o, n)

LEMMA FinalizedTracks ==
    ASSUME NEW n \in Nat, NEW D, \A d \in D : IsDetection(d, n), NEW s \in Seq(Tracks(D))
    PROVE  AreObjects(FinalizeAll(s), n)
<1>1. PICK N \in Nat : N = Len(s) /\ DOMAIN s = 1..N /\ \A k \in 1..N : s[k] \in Tracks(D)
    BY ListElements
<1>2. PICK r : r = FinalizeAll(s)
    OBVIOUS
<1>3. r = [k \in 1..N |-> Finalize(s[k])]
    BY <1>1, <1>2 DEF FinalizeAll
<1> DEFINE X == {r[k] : k \in 1..N}
<1>4. r \in [1..N -> X]
    BY <1>3
<1>5. DOMAIN r = 1..N /\ ToSet(r) = X
    BY <1>3 DEF ToSet
<1>6. \A k \in 1..N : IsObject(r[k], n)
    BY <1>1, <1>3, FinalizedTrack
<1> HIDE DEF X
<1>7. r \in Seq(X)
    BY <1>4, FunctionList
<1>8. IsList(r)
    BY <1>5, <1>7 DEF IsList
<1> QED
    BY <1>2, <1>5, <1>6, <1>8 DEF AreObjects, X

(* tracks_by_class keeps every track.                                      *)
LEMMA TracksByClass ==
    ASSUME NEW D, NEW s \in Seq(Tracks(D))
    PROVE  ByClass(s) \in Seq(Tracks(D)) /\ Len(ByClass(s)) = Len(s) /\ ToSet(ByClass(s)) = ToSet(s)
<1>1. PICK N \in Nat : /\ N = Len(s) /\ DOMAIN s = 1..N /\ s \in [1..N -> Tracks(D)]
    BY ListElements
<1> DEFINE IsFirst(t, class) == /\ s[t].class = class
                                /\ \A u \in 1..(t - 1) : s[u].class # class
           First(class) == CHOOSE t \in DOMAIN s : IsFirst(t, class)
           key == [k \in 1..N |-> <<First(s[k].class)>>]
<1>2. ByClass(s) = Sorted(s, key)
    BY <1>1, Zenon DEF ByClass, SortedBy
<1>3. ASSUME NEW k \in 1..N PROVE <<First(s[k].class)>> \in [1..1 -> Int]
    <2>1. PICK class : class = s[k].class
        OBVIOUS
    <2> DEFINE T == {t \in 1..N : s[t].class = class}
    <2>2. T \in SUBSET Nat /\ T # {}
        BY <2>1
    <2>3. PICK t \in T : \A u \in T : t <= u
        BY <2>2, LeastNatural
    <2>4. ASSUME NEW u \in 1..(t - 1) PROVE s[u].class # class
        <3>1. u \in 1..N /\ ~(t <= u)
            BY <2>3
        <3> QED
            BY <2>3, <3>1
    <2>5. t \in DOMAIN s /\ IsFirst(t, class)
        BY <1>1, <2>3, <2>4
    <2>6. First(class) \in DOMAIN s
        <3> HIDE DEF IsFirst
        <3> QED
            BY <2>5
    <2> HIDE DEF First
    <2>7. First(class) \in Int
        BY <1>1, <2>6
    <2> QED
        BY <2>1, <2>7, OneNumber
<1>4. key \in Keys(N, 1)
    <2> HIDE DEF First
    <2> QED
        BY <1>3 DEF Keys
<1> HIDE DEF key
<1>5. SortsTo(Sorted(s, key), s, N, Tracks(D))
    BY <1>1, <1>4, SortedElements, Zenon
<1>6. PICK r : r = ByClass(s)
    OBVIOUS
<1>7. r \in [1..N -> Tracks(D)] /\ ToSet(r) = ToSet(s)
    BY <1>2, <1>5, <1>6 DEF SortsTo
<1>8. r \in Seq(Tracks(D)) /\ Len(r) = N
    BY <1>7, FunctionList
<1> QED
    BY <1>1, <1>6, <1>7, <1>8

LEMMA IouObjects ==
    ASSUME NEW n \in Nat, NEW D, \A d \in D : IsDetection(d, n), NEW rows \in [1..n -> Seq(D)]
    PROVE  AreObjects(IouTrack(rows), n)
<1>1. PICK h : RunsThrough(h, rows, n, Seq(Tracks(D))) /\ IouTracks(rows) = h[n]
    BY TracksSoFar
<1>2. IouTracks(rows) \in Seq(Tracks(D))
    BY <1>1 DEF RunsThrough
<1>3. ByClass(IouTracks(rows)) \in Seq(Tracks(D))
    BY <1>2, TracksByClass
<1> QED
    BY <1>3, FinalizedTracks DEF IouTrack

(* Detections with an identifier make tracks, those without are left over. *)
LEMMA IdentifiedTracks ==
    ASSUME NEW n \in Nat, NEW D, \A d \in D : IsDetection(d, n), NEW rows \in [1..n -> Seq(D)]
    PROVE  IdTracks(rows) \in Seq(Tracks(D))
<1> DEFINE Key(d) == <<d.class, d.id>>
<1> DEFINE all == FlattenSeq(rows)
           identified == Chosen(all, {k \in DOMAIN all : all[k].id # None})
           first == Chosen(identified,
                        {k \in DOMAIN identified :
                            \A j \in 1..(k - 1) : Key(identified[j]) # Key(identified[k])})
           With(d) == Chosen(identified, {k \in DOMAIN identified : Key(identified[k]) = Key(d)})
<1>1. all \in Seq(D)
    BY FlattenedList
<1>2. identified = Chosen(all, {k \in DOMAIN all : all[k].id # None})
    BY Zenon
<1>3. first = Chosen(identified,
            {k \in DOMAIN identified :
                \A j \in 1..(k - 1) : Key(identified[j]) # Key(identified[k])})
    BY Zenon
<1>4. IdTracks(rows) = [k \in DOMAIN first |->
            [class |-> first[k].class, detections |-> With(first[k])]]
    BY Zenon DEF IdTracks, Filter, FirstOfEach
<1> HIDE DEF all, identified, first
<1>5. identified \in Seq(D)
    BY <1>1, <1>2, FilteredList
<1> HIDE DEF Key
<1>6. first \in Seq(D) /\ \A d \in ToSet(first) : d \in D /\ \E k \in DOMAIN identified : identified[k] = d
    <2> DEFINE T == {k \in DOMAIN identified :
                        \A j \in 1..(k - 1) : Key(identified[j]) # Key(identified[k])}
    <2>1. T \subseteq DOMAIN identified /\ first = Chosen(identified, T)
        BY <1>3
    <2>2. DOMAIN identified = 1..Len(identified) /\ \A k \in 1..Len(identified) : identified[k] \in D
        BY <1>5, ListElements
    <2> HIDE DEF T
    <2>3. first \in Seq(D) /\ ToSet(first) = {identified[t] : t \in T}
        BY <1>5, <2>1, FilteredList
    <2> QED
        BY <2>1, <2>2, <2>3
<1>7. ASSUME NEW d \in ToSet(first)
      PROVE  d.class \in Classes /\ With(d) \in Seq(D) /\ With(d) # <<>>
    <2> DEFINE T == {k \in DOMAIN identified : Key(identified[k]) = Key(d)}
    <2>1. T \subseteq DOMAIN identified /\ T # {}
        BY <1>6
    <2>2. With(d) = Chosen(identified, T)
        BY Zenon
    <2> HIDE DEF T, With
    <2>3. With(d) \in Seq(D) /\ With(d) # <<>>
        BY <1>5, <2>1, <2>2, FilteredList
    <2>4. IsDetection(d, n)
        BY <1>6
    <2> QED
        BY <2>3, <2>4 DEF IsDetection
<1> HIDE DEF With
<1>8. PICK m \in Nat : m = Len(first) /\ DOMAIN first = 1..m /\ \A k \in 1..m : first[k] \in ToSet(first)
    BY <1>6, ListElements
<1>9. PICK r : r = IdTracks(rows)
    OBVIOUS
<1>10. r = [k \in 1..m |-> [class |-> first[k].class, detections |-> With(first[k])]]
    BY <1>4, <1>8, <1>9
<1>11. \A k \in 1..m :
            [class |-> first[k].class, detections |-> With(first[k])] \in Tracks(D)
    BY <1>7, <1>8 DEF Tracks
<1>12. r \in [1..m -> Tracks(D)]
    BY <1>10, <1>11
<1> QED
    BY <1>9, <1>12, FunctionList

LEMMA UntrackedRows ==
    ASSUME NEW n \in Nat, NEW D, NEW rows \in [1..n -> Seq(D)]
    PROVE  Untracked(rows) \in [1..n -> Seq(D)]
<1> DEFINE T(f) == {k \in DOMAIN rows[f] : rows[f][k].id = None}
<1>1. Untracked(rows) = [f \in DOMAIN rows |-> Chosen(rows[f], T(f))]
    BY Zenon DEF Untracked, Filter
<1>2. PICK r : r = Untracked(rows)
    OBVIOUS
<1>3. r = [f \in 1..n |-> Chosen(rows[f], T(f))]
    BY <1>1, <1>2
<1>4. \A f \in 1..n : rows[f] \in Seq(D) /\ T(f) \subseteq DOMAIN rows[f]
    OBVIOUS
<1> HIDE DEF T
<1>5. \A f \in 1..n : Chosen(rows[f], T(f)) \in Seq(D)
    BY <1>4, FilteredList
<1> QED
    BY <1>2, <1>3, <1>5

LEMMA TrackIdObjects ==
    ASSUME NEW n \in Nat, NEW D, \A d \in D : IsDetection(d, n), NEW rows \in [1..n -> Seq(D)]
    PROVE  AreObjects(TrackIdTrack(rows), n)
<1>1. PICK a : a = FinalizeAll(IdTracks(rows)) /\ AreObjects(a, n)
    BY IdentifiedTracks, FinalizedTracks
<1>2. PICK b : b = IouTrack(Untracked(rows)) /\ AreObjects(b, n)
    BY UntrackedRows, IouObjects
<1>3. TrackIdTrack(rows) = a \o b
    BY <1>1, <1>2 DEF TrackIdTrack
<1>4. PICK X : X = ToSet(a) \cup ToSet(b)
    OBVIOUS
<1>5. a \in Seq(X) /\ b \in Seq(X)
    <2>1. a \in Seq(ToSet(a)) /\ b \in Seq(ToSet(b))
        BY <1>1, <1>2 DEF AreObjects, IsList
    <2> QED
        BY <1>4, <2>1
<1>6. PICK r : r = a \o b
    OBVIOUS
<1>7. r \in Seq(X) /\ ToSet(r) = X
    BY <1>4, <1>5, <1>6, ConcatElements
<1>8. \A o \in X : IsObject(o, n)
    BY <1>1, <1>2, <1>4 DEF AreObjects
<1> QED
    BY <1>3, <1>6, <1>7, <1>8 DEF AreObjects, IsList

LEMMA AdoptedObjects ==
    ASSUME NEW n, NEW s, AreObjects(s, n)
    PROVE  AreObjects(Adopt(s), n)
<1> DEFINE T == {k \in DOMAIN s : Adopted(s[k])}
<1>1. PICK r : r = Adopt(s)
    OBVIOUS
<1>2. r = Chosen(s, T)
    BY <1>1, Zenon DEF Adopt, Filter
<1>3. PICK X : X = ToSet(s) /\ s \in Seq(X)
    BY DEF AreObjects, IsList
<1>4. T \subseteq DOMAIN s
    OBVIOUS
<1> HIDE DEF T
<1>5. r \in Seq(X) /\ ToSet(r) = {s[t] : t \in T}
    BY <1>2, <1>3, <1>4, FilteredList
<1>6. ToSet(r) \subseteq X
    BY <1>5, ListElements
<1>7. r \in Seq(ToSet(r))
    <2>1. Len(r) \in Nat /\ r \in [1..Len(r) -> X] /\ \A k \in 1..Len(r) : r[k] \in ToSet(r)
        BY <1>5, ListElements
    <2>2. r \in [1..Len(r) -> ToSet(r)]
        BY <2>1
    <2> QED
        BY <2>1, <2>2, FunctionList
<1> QED
    BY <1>1, <1>3, <1>6, <1>7 DEF AreObjects, IsList

-----------------------------------------------------------------------------
LEMMA FiniteClasses == IsFiniteSet(Classes) /\ IsFiniteSet(Primary) /\ Primary \subseteq Classes
<1>1. PICK a, b, c, d :
        /\ a = {"stairs", "water_dispenser", "feeder"} /\ b = {"pet_bed", "sofa", "chair"}
        /\ c = {"cable", "window", "bed"} /\ d = {"carpet", "cat_tower", "table"}
    OBVIOUS
<1>2. Classes = (a \cup b) \cup (c \cup d)
    BY <1>1 DEF Classes, Names
<1>3. IsFiniteSet(a) /\ IsFiniteSet(b) /\ IsFiniteSet(c) /\ IsFiniteSet(d)
    BY <1>1, ThreeElements
<1>4. IsFiniteSet(a \cup b) /\ IsFiniteSet(c \cup d)
    BY <1>3, FS_Union
<1>5. IsFiniteSet(Classes)
    BY <1>2, <1>4, FS_Union
<1>6. Primary \subseteq Classes
    BY DEF Primary
<1> QED
    BY <1>5, <1>6, FS_Subset

(* select_analysis_frame returns one of the frames.                        *)
LEMMA SelectedFrame ==
    ASSUME NEW n \in Nat \ {0}, NEW D, \A d \in D : IsDetection(d, n),
           NEW rows \in [1..n -> Seq(D)], NEW adopted
    PROVE  SelectAnalysisFrame(rows, adopted) \in 1..n
<1>1. DOMAIN rows = 1..n
    OBVIOUS
<1> DEFINE kept == [f \in DOMAIN rows |->
                        Chosen(rows[f], {k \in DOMAIN rows[f] : rows[f][k].class \in adopted})]
           primary == [f \in DOMAIN rows |->
                        Cardinality({d.class : d \in ToSet(kept[f])} \cap Primary)]
           confidences(f) == [k \in DOMAIN kept[f] |-> kept[f][k].confidence]
           mean == [f \in DOMAIN rows |-> Ratio(SumFunction(confidences(f)), Greatest(Len(kept[f]), 1))]
           Better(f, g) == \/ primary[f] > primary[g]
                           \/ primary[f] = primary[g] /\ Greater(mean[f], mean[g])
           all == [f \in DOMAIN rows |-> f]
           At(k) == /\ \A j \in DOMAIN all : ~Better(all[j], all[k])
                    /\ \A j \in 1..(k - 1) : Better(all[k], all[j])
           c == CHOOSE k \in DOMAIN all : At(k)
<1>2. SelectAnalysisFrame(rows, adopted) = all[c]
    BY <1>1, Zenon DEF SelectAnalysisFrame, Best, Filter
<1>3. ASSUME NEW f \in 1..n
      PROVE  primary[f] \in Nat /\ IsRatio(mean[f])
    <2> DEFINE T == {k \in DOMAIN rows[f] : rows[f][k].class \in adopted}
    <2>1. rows[f] \in Seq(D) /\ T \subseteq DOMAIN rows[f]
        OBVIOUS
    <2>2. kept[f] = Chosen(rows[f], T)
        BY Zenon
    <2> HIDE DEF T
    <2>3. PICK s : s = kept[f]
        OBVIOUS
    <2>4. s \in Seq(D)
        BY <2>1, <2>2, <2>3, FilteredList
    <2>5. PICK m \in Nat : m = Len(s) /\ DOMAIN s = 1..m /\ \A k \in 1..m : s[k] \in D
        BY <2>4, ListElements
    <2>6. DetectionConfidence \in Nat /\ Certain \in Nat
        BY SMT DEF DetectionConfidence, Certain
    <2>7. \A k \in 1..m : s[k].confidence \in Nat
        <3>1. ASSUME NEW k \in 1..m PROVE s[k].confidence \in Nat
            <4>1. IsDetection(s[k], n)
                BY <2>5
            <4> QED
                BY <2>6, <4>1 DEF IsDetection
        <3> QED
            BY <3>1
    <2>8. confidences(f) \in [1..m -> Nat]
        <3>1. confidences(f) = [k \in 1..m |-> s[k].confidence]
            BY <2>3, <2>5
        <3> QED
            BY <2>7, <3>1
    <2>9. IsFiniteSet(1..m)
        BY Segments
    <2>10. SumFunction(confidences(f)) \in Nat
        <3> HIDE DEF confidences
        <3> QED
            BY <2>8, <2>9, SumOfNaturals
    <2>11. Greatest(Len(s), 1) \in Nat \ {0}
        BY <2>5 DEF Greatest
    <2>12. mean[f] = Ratio(SumFunction(confidences(f)), Greatest(Len(s), 1))
        BY <2>3
    <2>13. IsRatio(mean[f])
        <3> HIDE DEF mean, confidences
        <3> QED
            BY <2>10, <2>11, <2>12 DEF Ratio, IsRatio
    <2>14. PICK P : P = {d.class : d \in ToSet(kept[f])} \cap Primary
        OBVIOUS
    <2>15. Cardinality(P) \in Nat
        <3>1. P \subseteq Primary
            BY <2>14
        <3> QED
            BY <3>1, FiniteClasses, FS_Subset, FS_CardinalityType
    <2>16. primary[f] = Cardinality(P)
        BY <2>14
    <2> HIDE DEF primary, mean
    <2> QED
        BY <2>13, <2>15, <2>16
<1>4. DOMAIN all = 1..n /\ \A k \in 1..n : all[k] = k
    OBVIOUS
<1> HIDE DEF kept, primary, mean, all
<1> DEFINE E == {e \in (1..n) \X (1..n) : Better(e[1], e[2])}
<1>5. \A f, g \in 1..n : <<f, g>> \in E <=> Better(f, g)
    OBVIOUS
<1>6. ASSUME NEW x \in 1..n, NEW y \in 1..n, Better(x, y), Better(y, x) PROVE FALSE
    <2>1. PICK a \in Nat, b \in Nat : a = primary[x] /\ b = primary[y]
        BY <1>3
    <2>2. a > b \/ (a = b /\ Greater(mean[x], mean[y]))
        BY <1>6, <2>1
    <2>3. b > a \/ (b = a /\ Greater(mean[y], mean[x]))
        BY <1>6, <2>1
    <2>4. ~(Greater(mean[x], mean[y]) /\ Greater(mean[y], mean[x]))
        BY <1>3, GreaterOrders
    <2> QED
        BY <2>1, <2>2, <2>3, <2>4
<1>7. ASSUME NEW x \in 1..n, NEW y \in 1..n, NEW z \in 1..n, Better(x, y)
      PROVE  Better(x, z) \/ Better(z, y)
    <2>1. PICK a \in Nat, b \in Nat, d \in Nat : a = primary[x] /\ b = primary[y] /\ d = primary[z]
        BY <1>3
    <2>2. a > b \/ (a = b /\ Greater(mean[x], mean[y]))
        BY <1>7, <2>1
    <2>3. ~Greater(mean[x], mean[z]) /\ ~Greater(mean[z], mean[y]) => ~Greater(mean[x], mean[y])
        BY <1>3, GreaterOrders
    <2>4. Better(x, z) <=> a > d \/ (a = d /\ Greater(mean[x], mean[z]))
        BY <2>1
    <2>5. Better(z, y) <=> d > b \/ (d = b /\ Greater(mean[z], mean[y]))
        BY <2>1
    <2> HIDE DEF Better
    <2> QED
        BY <2>1, <2>2, <2>3, <2>4, <2>5
<1>8. WeaklyOrders(1..n, E)
    <2> HIDE DEF Better, E
    <2> QED
        BY <1>5, <1>6, <1>7 DEF WeaklyOrders
<1>9. PICK b \in 1..n : /\ \A j \in 1..n : <<j, b>> \notin E
                        /\ \A j \in 1..(b - 1) : <<b, j>> \in E
    <2> HIDE DEF E
    <2> QED
        BY <1>8, FirstGreatest
<1>10. At(b)
    <2>1. \A j \in 1..(b - 1) : j \in 1..n
        OBVIOUS
    <2> HIDE DEF Better, E
    <2>2. ASSUME NEW j \in DOMAIN all PROVE ~Better(all[j], all[b])
        <3>1. all[j] = j /\ all[b] = b /\ j \in 1..n
            BY <1>4
        <3>2. ~Better(j, b)
            BY <1>5, <1>9, <3>1
        <3> QED
            BY <3>1, <3>2
    <2>3. ASSUME NEW j \in 1..(b - 1) PROVE Better(all[b], all[j])
        <3>1. all[j] = j /\ all[b] = b /\ j \in 1..n
            BY <1>4, <2>1
        <3>2. Better(b, j)
            BY <1>5, <1>9, <3>1
        <3> QED
            BY <3>1, <3>2
    <2> QED
        BY <2>2, <2>3
<1>11. c \in 1..n
    <2> HIDE DEF At
    <2> QED
        BY <1>4, <1>10
<1> HIDE DEF c
<1> QED
    BY <1>2, <1>4, <1>11

Risks == {"HIGH", "MEDIUM", "LOW", "SAFE"}

(* classify: only what the table names is a risk.                          *)
LEMMA Classified ==
    ASSUME NEW class, NEW group \in Groups
    PROVE  /\ Classify(class, group) \in Risks /\ Rank[Classify(class, group)] \in Nat
           /\ Classify(class, group) # "SAFE" <=> class \in {"cable", "stairs", "window"}
<1>1. DOMAIN RiskItemOf = {"cable", "stairs", "window"} /\ DOMAIN MinimumRisk = {"cable"}
    BY DEF RiskItemOf, MinimumRisk
<1>2. \A risk \in Risks : Rank[risk] \in Nat
    BY DEF Rank, Risks
<1>3. CASE class \notin DOMAIN RiskItemOf
    <2>1. Classify(class, group) = "SAFE"
        BY <1>3 DEF Classify
    <2> QED
        BY <1>1, <1>2, <1>3, <2>1 DEF Risks
<1>4. CASE class \in DOMAIN RiskItemOf
    <2>1. PICK w : w = Weight[RiskItemOf[class]][group]
        OBVIOUS
    <2>2. w \in 1..3
        BY <1>1, <1>4, <2>1 DEF RiskItemOf, Weight, For, Groups
    <2>3. PICK derived : derived = <<"LOW", "MEDIUM", "HIGH">>[w]
        OBVIOUS
    <2>4. derived \in {"LOW", "MEDIUM", "HIGH"}
        BY <2>2, <2>3
    <2>5. MinimumRisk[class] = "HIGH" \/ class \notin DOMAIN MinimumRisk
        BY DEF MinimumRisk
    <2>6. Classify(class, group) \in {"LOW", "MEDIUM", "HIGH"}
        <3>1. \/ Classify(class, group) = derived
              \/ class \in DOMAIN MinimumRisk /\ Classify(class, group) = MinimumRisk[class]
            BY <1>4, <2>1, <2>3 DEF Classify
        <3> QED
            BY <2>4, <2>5, <3>1
    <2>7. Classify(class, group) \in Risks /\ Classify(class, group) # "SAFE"
        BY <2>6 DEF Risks
    <2> QED
        BY <1>1, <1>2, <1>4, <2>7
<1> QED
    BY <1>3, <1>4

\* An object of a result, seen in n frames.
IsMarked(o, n, group) ==
    /\ DOMAIN o = {"name", "risk", "confidence", "frames", "frame", "box", "marked"}
    /\ o.name \in Classes /\ o.risk = Classify(o.name, group)
    /\ o.confidence \in DetectionConfidence..Certain
    /\ o.frame \in 1..n /\ o.box \in FrameBox /\ o.frames \in Nat \ {0}
    /\ o.marked <=> o.risk # "SAFE"

AreMarked(s, n, group) == IsList(s) /\ \A o \in ToSet(s) : IsMarked(o, n, group)

(* mark: every object that is adopted is classified, and drawn if it is a  *)
(* risk.                                                                   *)
LEMMA MarkedObjects ==
    ASSUME NEW n \in Nat, NEW group \in Groups, NEW s, AreObjects(s, n)
    PROVE  AreMarked(Mark(s, group, 1..n), n, group)
<1>1. PICK X : X = ToSet(s)
    OBVIOUS
<1>2. PICK N \in Nat : N = Len(s) /\ DOMAIN s = 1..N /\ s \in [1..N -> X]
    <2>1. s \in Seq(X)
        BY <1>1 DEF AreObjects, IsList
    <2> QED
        BY <2>1, ListElements
<1>3. \A k \in 1..N : IsObject(s[k], n)
    BY <1>1, <1>2 DEF AreObjects
<1> DEFINE key == [k \in DOMAIN s |->
                    <<-Rank[Classify(s[k].class, group)], -s[k].confidence, s[k].frame>>]
<1>4. InDisplayOrder(s, group) = Sorted(s, key)
    BY Zenon DEF InDisplayOrder, SortedBy
<1>5. key \in Keys(N, 3)
    <2>1. DetectionConfidence \in Nat /\ Certain \in Nat
        BY SMT DEF DetectionConfidence, Certain
    <2>2. ASSUME NEW k \in 1..N
          PROVE  <<-Rank[Classify(s[k].class, group)], -s[k].confidence, s[k].frame>> \in [1..3 -> Int]
        <3>1. IsObject(s[k], n)
            BY <1>3
        <3>2. PICK a, b, c : a = Rank[Classify(s[k].class, group)] /\ b = s[k].confidence /\ c = s[k].frame
            OBVIOUS
        <3>3. a \in Nat
            BY <3>2, Classified
        <3>4. b \in Int /\ c \in Int
            BY <2>1, <3>1, <3>2 DEF IsObject
        <3>5. -a \in Int /\ -b \in Int
            BY <3>3, <3>4
        <3> QED
            BY <3>2, <3>4, <3>5, ThreeNumbers
    <2> QED
        BY <1>2, <2>2 DEF Keys
<1> HIDE DEF key
<1>6. SortsTo(Sorted(s, key), s, N, X)
    BY <1>2, <1>5, SortedElements, Zenon
<1>7. PICK sorted : sorted = InDisplayOrder(s, group)
    OBVIOUS
<1>8. sorted \in [1..N -> X]
    BY <1>4, <1>6, <1>7 DEF SortsTo
<1>9. sorted \in Seq(X)
    BY <1>8, FunctionList
<1>10. PICK ordered : ordered = Chosen(sorted, {k \in DOMAIN sorted : sorted[k].class \in Classes})
    OBVIOUS
<1>11. ordered \in Seq(X)
    <2> DEFINE T == {k \in DOMAIN sorted : sorted[k].class \in Classes}
    <2>1. T \subseteq DOMAIN sorted
        OBVIOUS
    <2>2. ordered = Chosen(sorted, T)
        BY <1>10
    <2> HIDE DEF T
    <2> QED
        BY <1>9, <2>1, <2>2, FilteredList
<1>12. PICK m \in Nat : m = Len(ordered) /\ DOMAIN ordered = 1..m /\ \A k \in 1..m : ordered[k] \in X
    BY <1>11, ListElements
<1>13. PICK r : r = Mark(s, group, 1..n)
    OBVIOUS
<1>14. r = [k \in DOMAIN ordered |-> Marked(ordered[k], group, 1..n)]
    <2> DEFINE found == InDisplayOrder(s, group)
               chosen == Chosen(found, {k \in DOMAIN found : found[k].class \in Classes})
    <2>1. Mark(s, group, 1..n) = [k \in DOMAIN chosen |-> Marked(chosen[k], group, 1..n)]
        BY Zenon DEF Mark, Filter
    <2>2. chosen = ordered
        BY <1>7, <1>10
    <2> HIDE DEF chosen
    <2> QED
        BY <1>13, <2>1, <2>2
<1>15. ASSUME NEW k \in 1..m PROVE IsMarked(r[k], n, group)
    <2>1. PICK o : o = ordered[k] /\ IsObject(o, n)
        BY <1>1, <1>12 DEF AreObjects
    <2>2. r[k] = Marked(o, group, 1..n)
        BY <1>12, <1>14, <2>1
    <2>3. PICK p : p = Marked(o, group, 1..n)
        OBVIOUS
    <2>4. /\ p.name = o.class /\ p.risk = Classify(o.class, group)
          /\ p.confidence = o.confidence /\ p.frames = o.frames /\ p.frame = o.frame
          /\ p.box = o.box
          /\ p.marked = (Classify(o.class, group) # "SAFE" /\ o.frame \in 1..n)
          /\ DOMAIN p = {"name", "risk", "confidence", "frames", "frame", "box", "marked"}
        BY <2>3 DEF Marked
    <2>5. p.marked <=> p.risk # "SAFE"
        BY <2>1, <2>4 DEF IsObject
    <2>6. IsMarked(p, n, group)
        BY <2>1, <2>4, <2>5 DEF IsMarked, IsObject
    <2> QED
        BY <2>2, <2>3, <2>6
<1> DEFINE Y == {r[k] : k \in 1..m}
<1>16. r \in [1..m -> Y] /\ ToSet(r) = Y
    <2>1. DOMAIN r = 1..m /\ r = [k \in 1..m |-> r[k]]
        BY <1>12, <1>14
    <2> QED
        BY <2>1 DEF ToSet
<1> HIDE DEF Y
<1>17. r \in Seq(Y)
    BY <1>16, FunctionList
<1> QED
    BY <1>13, <1>15, <1>16, <1>17 DEF AreMarked, IsList, Y

(* select_analysis_frames: the thumbnail's frame comes first, none comes   *)
(* twice, and there are not too many.                                      *)
AreFramesToSend(frames, thumbnail, n) ==
    /\ frames \in Seq(1..n) /\ Len(frames) \in 1..LlmMaxImages
    /\ frames[1] = thumbnail /\ IsInjective(frames)

LEMMA FirstOfNumbers ==
    ASSUME NEW n \in Nat, NEW N \in Nat \ {0}, NEW wanted \in [1..N -> 1..n],
           NEW numbers, numbers = Chosen(wanted, {k \in 1..N :
                                    \A j \in 1..(k - 1) : wanted[j] # wanted[k]})
    PROVE  /\ numbers \in Seq(1..n) /\ Len(numbers) \in Nat \ {0}
           /\ numbers[1] = wanted[1] /\ IsInjective(numbers)
<1> DEFINE T == {k \in 1..N : \A j \in 1..(k - 1) : wanted[j] # wanted[k]}
<1>1. T \subseteq 1..N /\ 1 \in T /\ DOMAIN wanted = 1..N /\ wanted \in Seq(1..n)
    OBVIOUS
<1>2. \A k \in T : \A j \in 1..(k - 1) : wanted[j] # wanted[k]
    OBVIOUS
<1>3. numbers = Chosen(wanted, T)
    OBVIOUS
<1> HIDE DEF T
<1> DEFINE c == Ascending(T)
           m == Cardinality(T)
<1>N. N \in Nat
    OBVIOUS
<1>4. m \in 0..N /\ InOrder(c, m, T) /\ numbers = [k \in 1..m |-> wanted[c[k]]]
    <2>1. DOMAIN wanted = 1..N /\ T \subseteq 1..N
        BY <1>1
    <2>2. /\ m \in 0..N /\ InOrder(c, m, T)
          /\ Chosen(wanted, T) = [k \in 1..m |-> wanted[c[k]]]
          /\ T = 1..N => m = N /\ \A k \in 1..N : c[k] = k
        BY <1>N, <2>1, ChosenPlaces
    <2> QED
        BY <1>3, <2>2
<1> HIDE DEF c, m
<1>5. /\ m \in Nat
      /\ \A k \in 1..m : c[k] \in T
      /\ \A j, k \in 1..m : j < k => c[j] < c[k]
      /\ \A t \in T : \E k \in 1..m : c[k] = t
    BY <1>4 DEF InOrder
<1>6. numbers \in [1..m -> 1..n] /\ \A k \in 1..m : numbers[k] = wanted[c[k]]
    BY <1>1, <1>4, <1>5
<1>7. m # 0 /\ c[1] = 1
    <2>1. PICK k \in 1..m : c[k] = 1
        BY <1>1, <1>5
    <2>2. CASE k = 1
        BY <2>1, <2>2
    <2>3. CASE k # 1
        <3>1. 1 \in 1..m /\ 1 < k
            BY <1>5, <2>3
        <3>2. c[1] < 1 /\ c[1] \in 1..N
            BY <1>1, <1>5, <2>1, <3>1
        <3> QED
            BY <3>2
    <2> QED
        BY <2>2, <2>3
<1>8. IsInjective(numbers)
    <2>1. ASSUME NEW j \in 1..m, NEW k \in 1..m, j < k PROVE numbers[j] # numbers[k]
        <3>1. c[j] \in 1..N /\ c[k] \in 1..N /\ c[j] < c[k]
            BY <1>1, <1>5, <2>1
        <3>2. c[j] \in 1..(c[k] - 1)
            BY <3>1
        <3>3. wanted[c[j]] # wanted[c[k]]
            BY <1>2, <1>5, <3>2
        <3> QED
            BY <1>6, <3>3
    <2>2. ASSUME NEW j \in 1..m, NEW k \in 1..m, numbers[j] = numbers[k] PROVE j = k
        <3>1. j < k \/ k < j \/ j = k
            OBVIOUS
        <3> QED
            BY <2>1, <2>2, <3>1
    <2>3. DOMAIN numbers = 1..m
        BY <1>6
    <2> QED
        BY <2>2, <2>3 DEF IsInjective
<1>9. numbers \in Seq(1..n) /\ Len(numbers) = m
    BY <1>5, <1>6, FunctionList
<1>10. numbers[1] = wanted[1]
    <2>1. 1 \in 1..m
        BY <1>5, <1>7
    <2> QED
        BY <1>6, <1>7, <2>1
<1> QED
    BY <1>5, <1>7, <1>8, <1>9, <1>10

LEMMA FramesToSend ==
    ASSUME NEW n \in Nat, NEW group \in Groups, NEW thumbnail \in 1..n,
           NEW detected, AreMarked(detected, n, group)
    PROVE  AreFramesToSend(SelectAnalysisFrames(thumbnail, detected), thumbnail, n)
<1>1. PICK X : X = ToSet(detected) /\ detected \in Seq(X)
    BY DEF AreMarked, IsList
<1>2. \A o \in X : IsMarked(o, n, group)
    BY <1>1 DEF AreMarked
<1> DEFINE some == Chosen(detected, {k \in DOMAIN detected : detected[k].risk # "SAFE"})
           key == [k \in DOMAIN some |-> <<-Rank[some[k].risk], -some[k].confidence, some[k].frame>>]
           risky == Sorted(some, key)
           marks == [k \in DOMAIN risky |-> risky[k].frame]
           wanted == <<thumbnail>> \o marks
           numbers == Chosen(wanted, {k \in DOMAIN wanted :
                                \A j \in 1..(k - 1) : wanted[j] # wanted[k]})
<1>3. SelectAnalysisFrames(thumbnail, detected)
            = SubSeq(numbers, 1, Least(Len(numbers), LlmMaxImages))
    BY Zenon DEF SelectAnalysisFrames, Filter, SortedBy, FirstOfEach
<1>4. some \in Seq(X)
    <2> DEFINE T == {k \in DOMAIN detected : detected[k].risk # "SAFE"}
    <2>1. T \subseteq DOMAIN detected
        OBVIOUS
    <2>2. some = Chosen(detected, T)
        BY Zenon
    <2> HIDE DEF T, some
    <2> QED
        BY <1>1, <2>1, <2>2, FilteredList
<1> HIDE DEF some
<1>5. PICK N \in Nat : N = Len(some) /\ DOMAIN some = 1..N /\ some \in [1..N -> X]
    BY <1>4, ListElements
<1>6. key \in Keys(N, 3)
    <2>1. DetectionConfidence \in Nat /\ Certain \in Nat
        BY SMT DEF DetectionConfidence, Certain
    <2>2. ASSUME NEW k \in 1..N
          PROVE  <<-Rank[some[k].risk], -some[k].confidence, some[k].frame>> \in [1..3 -> Int]
        <3>1. IsMarked(some[k], n, group)
            BY <1>2, <1>5
        <3>2. PICK a, b, c : a = Rank[some[k].risk] /\ b = some[k].confidence /\ c = some[k].frame
            OBVIOUS
        <3>3. a \in Nat
            BY <3>1, <3>2, Classified DEF IsMarked
        <3>4. b \in Int /\ c \in Int
            BY <2>1, <3>1, <3>2 DEF IsMarked
        <3>5. -a \in Int /\ -b \in Int
            BY <3>3, <3>4
        <3> QED
            BY <3>2, <3>4, <3>5, ThreeNumbers
    <2> QED
        BY <1>5, <2>2 DEF Keys
<1> HIDE DEF key
<1>7. SortsTo(risky, some, N, X)
    BY <1>5, <1>6, SortedElements, Zenon
<1> HIDE DEF risky
<1>8. DOMAIN risky = 1..N /\ \A k \in 1..N : risky[k] \in X
    BY <1>7 DEF SortsTo
<1>9. marks \in [1..N -> 1..n]
    <2>1. \A k \in 1..N : risky[k].frame \in 1..n
        BY <1>2, <1>8 DEF IsMarked
    <2> QED
        BY <1>8, <2>1
<1> HIDE DEF marks
<1>10. marks \in Seq(1..n) /\ Len(marks) = N /\ <<thumbnail>> \in Seq(1..n)
    BY <1>9, FunctionList
<1>11. wanted \in Seq(1..n) /\ Len(wanted) = N + 1 /\ wanted[1] = thumbnail
    BY <1>10, ConcatProperties
<1> HIDE DEF wanted
<1>12. N + 1 \in Nat \ {0} /\ wanted \in [1..(N + 1) -> 1..n] /\ DOMAIN wanted = 1..(N + 1)
    BY <1>11, ListElements
<1>13. /\ numbers \in Seq(1..n) /\ Len(numbers) \in Nat \ {0}
       /\ numbers[1] = wanted[1] /\ IsInjective(numbers)
    <2>1. PICK M \in Nat \ {0} : M = N + 1
        BY <1>12
    <2>2. wanted \in [1..M -> 1..n]
        BY <1>12, <2>1
    <2>3. numbers = Chosen(wanted, {k \in 1..M : \A j \in 1..(k - 1) : wanted[j] # wanted[k]})
        BY <1>12, <2>1
    <2> HIDE DEF numbers
    <2> QED
        BY <2>2, <2>3, FirstOfNumbers
<1> HIDE DEF numbers
<1>14. PICK m \in Nat \ {0} : m = Len(numbers)
    BY <1>13
<1>15. PICK l : l = Least(m, LlmMaxImages)
    OBVIOUS
<1>16. l \in 1..m /\ l <= LlmMaxImages /\ l \in 1..LlmMaxImages
    BY <1>14, <1>15, ImagesAssumption DEF Least
<1>17. PICK frames : frames = SubSeq(numbers, 1, l)
    OBVIOUS
<1>18. /\ frames \in Seq(1..n) /\ Len(frames) = l
       /\ \A k \in 1..l : frames[k] = numbers[k]
    BY <1>13, <1>14, <1>16, <1>17, SubSeqProperties
<1>19. DOMAIN frames = 1..l /\ DOMAIN numbers = 1..m
    BY <1>13, <1>14, <1>18, ListElements
<1>20. IsInjective(frames)
    <2>1. \A j, k \in 1..m : numbers[j] = numbers[k] => j = k
        BY <1>13, <1>19 DEF IsInjective
    <2>2. \A k \in 1..l : k \in 1..m /\ frames[k] = numbers[k]
        BY <1>16, <1>18
    <2>3. \A j, k \in 1..l : frames[j] = frames[k] => j = k
        BY <2>1, <2>2
    <2> QED
        BY <1>19, <2>3 DEF IsInjective
<1>21. frames[1] = thumbnail
    BY <1>11, <1>13, <1>16, <1>18
<1>22. SelectAnalysisFrames(thumbnail, detected) = frames
    BY <1>3, <1>14, <1>15, <1>17
<1> QED
    BY <1>16, <1>18, <1>20, <1>21, <1>22 DEF AreFramesToSend

-----------------------------------------------------------------------------
-----------------------------------------------------------------------------
(* What the stages of Vision hand on, each to the ones after it.           *)
WithDetected == {"score_calculation"} \cup Rating
WithThumbnail == {"risk_marking"} \cup WithDetected
WithObjects == {"frame_selection"} \cup WithThumbnail
WithRows == {"object_tracking"} \cup WithObjects
WithFrames == {"object_detection"} \cup WithRows

Parts == {"frames", "rows", "tracker", "occupancy", "objects", "thumbnail", "detected", "kept"}

LegalRequest(request) ==
    /\ request.form.group \in Groups /\ request.form.space \in Spaces
    /\ request.video.duration \in VideoMin..VideoMax

AreFrames(frames) == Len(frames) \in Nat \ {0} /\ DOMAIN frames = 1..Len(frames)

VisionInv ==
    /\ DOMAIN vision = Parts
    /\ stage \notin {"request", "rejected"} => LegalRequest(input)
    /\ stage \in WithFrames => AreFrames(vision.frames)
    /\ stage \in WithRows => \E D : AreRows(vision.rows, Len(vision.frames), D)
    /\ stage \in WithObjects => AreObjects(vision.objects, Len(vision.frames))
    /\ stage \in WithThumbnail => vision.thumbnail \in 1..Len(vision.frames)
    /\ stage \in WithDetected =>
        /\ AreMarked(vision.detected, Len(vision.frames), input.form.group)
        /\ vision.kept = FramesForAnalysis(vision.thumbnail, vision.detected,
                                           1..Len(vision.frames))

LEMMA LegalRequests ==
    ASSUME NEW device, NEW form, NEW video, RequestError(device, form, video) = None
    PROVE  /\ form.group \in Groups /\ form.space \in Spaces
           /\ video.duration \in VideoMin..VideoMax
<1>1. PICK a, b, c : /\ a = DeviceError(device) /\ b = FormError(form)
                     /\ c = IF video.duration \in VideoMin..VideoMax THEN None
                            ELSE "VIDEO_DURATION_INVALID"
    OBVIOUS
<1>2. PICK faults : faults = <<a, b, c>>
    OBVIOUS
<1>3. FirstOf(faults) = None
    BY <1>1, <1>2 DEF RequestError
<1>4. DOMAIN faults = 1..3 /\ 3 \in Nat /\ 2 \in 1..3 /\ 3 \in 1..3
    BY <1>2
<1>5. faults[2] = None /\ faults[3] = None
    BY <1>3, <1>4, NoFaultFound
<1>6. b = None /\ c = None
    BY <1>2, <1>5
<1>7. video.duration \in VideoMin..VideoMax
    BY <1>1, <1>6, RequestAssumption
<1>8. form.group \in Groups /\ form.space \in Spaces
    BY <1>1, <1>6, RequestAssumption DEF FormError
<1> QED
    BY <1>7, <1>8

LEMMA VisionInitInv == Init => VisionInv
BY DEF Init, VisionInv, WithFrames, WithRows, WithObjects, WithThumbnail, WithDetected, Rating,
       Parts

LEMMA EnoughFrames ==
    ASSUME SamplingInv, stage \in {"frame_extraction"}, ExtractFrames, stage' # "failed"
    PROVE  AreFrames(vision'.frames)
<1>1. PICK frames : frames = Extract(input.video)
    OBVIOUS
<1>2. IsVideo(input.video)
    BY DEF SamplingInv
<1>3. frames \in Seq(Nat)
    BY <1>1, <1>2, ExtractServes
<1>4. vision'.frames = frames
    BY <1>1 DEF ExtractFrames, SamplingInv
<1>5. ~TooFew(frames)
    BY <1>4 DEF ExtractFrames
<1>6. PICK n \in Nat : n = Len(frames) /\ DOMAIN frames = 1..n
    BY <1>3, LenProperties
<1>7. n \in Nat \ {0}
    BY <1>5, <1>6, SamplingAssumption DEF TooFew
<1> QED
    BY <1>4, <1>6, <1>7 DEF AreFrames

LEMMA VisionNextInv == SamplingInv /\ VisionInv /\ [Next]_vars => VisionInv'
<1> SUFFICES ASSUME SamplingInv, VisionInv, [Next]_vars PROVE VisionInv'
    OBVIOUS
<1> USE DEF VisionInv, WithFrames, WithRows, WithObjects, WithThumbnail, WithDetected, Rating
<1>1. CASE Request
    <2>1. PICK device, form, video :
            input' = [form |-> form, video |-> video, error |-> RequestError(device, form, video)]
        BY <1>1 DEF Request
    <2>2. /\ stage' = IF input'.error = None THEN "frame_extraction" ELSE "rejected"
          /\ UNCHANGED vision
        BY <1>1 DEF Request
    <2>3. /\ input'.form = form /\ input'.video = video
          /\ input'.error = RequestError(device, form, video)
        BY <2>1
    <2>4. stage' # "rejected" => LegalRequest(input')
        <3> SUFFICES ASSUME stage' # "rejected" PROVE LegalRequest(input')
            OBVIOUS
        <3>1. RequestError(device, form, video) = None
            BY <2>2, <2>3
        <3>2. /\ form.group \in Groups /\ form.space \in Spaces
              /\ video.duration \in VideoMin..VideoMax
            BY <3>1, LegalRequests
        <3> QED
            BY <2>3, <3>2 DEF LegalRequest
    <2> QED
        BY <2>2, <2>4
<1>2. CASE ExtractFrames
    <2>1. /\ DOMAIN vision' = Parts /\ UNCHANGED input
          /\ stage = "frame_extraction" /\ stage' \in {"failed", "object_detection"}
        BY <1>2 DEF ExtractFrames
    <2>2. stage' # "failed" => AreFrames(vision'.frames)
        BY <1>2, <2>1, EnoughFrames
    <2> QED
        BY <2>1, <2>2
<1>3. CASE DetectObjects
    <2>1. PICK scene \in Here.scenes :
            /\ vision' = [vision EXCEPT !.rows = Detect(scene)]
            /\ stage' = IF Len(scene) = Len(vision.frames) THEN "object_tracking" ELSE "failed"
        BY <1>3 DEF DetectObjects
    <2>2. /\ DOMAIN vision' = Parts /\ vision'.frames = vision.frames
          /\ vision'.rows = Detect(scene) /\ UNCHANGED input /\ stage = "object_detection"
        BY <1>3, <2>1 DEF DetectObjects, Parts
    <2>3. \E D : AreRows(Detect(scene), Len(scene), D)
        <3>1. IsScene(scene)
            BY VideoAssumption DEF Here, SamplingInv
        <3> QED
            BY <3>1, DetectedRows
    <2> QED
        BY <2>1, <2>2, <2>3
<1>4. CASE TrackObjects
    <2>1. PICK tracker, occupancy, objects :
            /\ vision' = [vision EXCEPT !.tracker = tracker, !.occupancy = occupancy,
                                        !.objects = Adopt(objects)]
            /\ objects \in {IouTrack(vision.rows), TrackIdTrack(vision.rows)}
        BY <1>4 DEF TrackObjects
    <2>2. /\ DOMAIN vision' = Parts /\ vision'.frames = vision.frames
          /\ vision'.rows = vision.rows /\ vision'.objects = Adopt(objects)
          /\ UNCHANGED input /\ stage = "object_tracking" /\ stage' = "frame_selection"
        BY <1>4, <2>1 DEF TrackObjects, Parts
    <2>3. PICK n \in Nat : n = Len(vision.frames)
        BY <2>2 DEF AreFrames
    <2>4. PICK D : AreRows(vision.rows, n, D)
        BY <2>2, <2>3
    <2>5. vision.rows \in [1..n -> Seq(D)] /\ \A d \in D : IsDetection(d, n)
        BY <2>4 DEF AreRows
    <2>6. AreObjects(IouTrack(vision.rows), n) /\ AreObjects(TrackIdTrack(vision.rows), n)
        BY <2>5, IouObjects, TrackIdObjects
    <2>7. AreObjects(objects, n)
        BY <2>1, <2>6
    <2>8. AreObjects(Adopt(objects), n)
        BY <2>7, AdoptedObjects
    <2> QED
        BY <2>2, <2>3, <2>8
<1>5. CASE SelectFrame
    <2>1. PICK adopted :
            vision' = [vision EXCEPT !.thumbnail = SelectAnalysisFrame(vision.rows, adopted)]
        BY <1>5 DEF SelectFrame
    <2>2. /\ DOMAIN vision' = Parts /\ vision'.frames = vision.frames
          /\ vision'.rows = vision.rows /\ vision'.objects = vision.objects
          /\ vision'.thumbnail = SelectAnalysisFrame(vision.rows, adopted)
          /\ UNCHANGED input /\ stage = "frame_selection" /\ stage' = "risk_marking"
        BY <1>5, <2>1 DEF SelectFrame, Parts
    <2>3. PICK n \in Nat \ {0} : n = Len(vision.frames)
        BY <2>2 DEF AreFrames
    <2>4. PICK D : AreRows(vision.rows, n, D)
        BY <2>2, <2>3
    <2>5. vision.rows \in [1..n -> Seq(D)] /\ \A d \in D : IsDetection(d, n)
        BY <2>4 DEF AreRows
    <2>6. SelectAnalysisFrame(vision.rows, adopted) \in 1..n
        BY <2>5, SelectedFrame
    <2> QED
        BY <2>2, <2>3, <2>6
<1>6. CASE MarkRisks
    <2>1. PICK frames, detected, kept :
            /\ frames = DOMAIN vision.frames
            /\ detected = Mark(vision.objects, input.form.group, frames)
            /\ kept = FramesForAnalysis(vision.thumbnail, detected, frames)
            /\ vision' = [vision EXCEPT !.detected = detected, !.kept = kept]
        BY <1>6 DEF MarkRisks
    <2>2. /\ DOMAIN vision' = Parts /\ vision'.frames = vision.frames
          /\ vision'.rows = vision.rows /\ vision'.objects = vision.objects
          /\ vision'.thumbnail = vision.thumbnail
          /\ vision'.detected = detected /\ vision'.kept = kept
          /\ UNCHANGED input /\ stage = "risk_marking" /\ stage' = "score_calculation"
        BY <1>6, <2>1 DEF MarkRisks, Parts
    <2>3. PICK n \in Nat : n = Len(vision.frames) /\ frames = 1..n
        BY <2>1, <2>2 DEF AreFrames
    <2>4. PICK group \in Groups : group = input.form.group
        BY <2>2 DEF LegalRequest
    <2>5. AreMarked(detected, n, group)
        BY <2>1, <2>2, <2>3, <2>4, MarkedObjects
    <2> QED
        BY <2>1, <2>2, <2>3, <2>4, <2>5
<1>7. CASE CalculateScore \/ AskModel \/ ModelAnswers \/ SaveResult
    <2>1. /\ UNCHANGED <<input, vision>>
          /\ stage \in {"score_calculation", "environment_analysis", "saving"}
          /\ stage' \in {"environment_analysis", "saving", "completed", "refused"}
        BY <1>7 DEF CalculateScore, AskModel, ModelAnswers, SaveResult
    <2> QED
        BY <2>1
<1>8. CASE GiveUp
    <2>1. /\ UNCHANGED <<input, vision>> /\ stage = "environment_analysis" /\ stage' = "failed"
        BY <1>8 DEF GiveUp
    <2> QED
        BY <2>1
<1>9. CASE ShowResult \/ OpenHistory \/ NextPage \/ UNCHANGED vars
    <2>1. UNCHANGED <<input, vision, stage>>
        BY <1>9 DEF ShowResult, OpenHistory, NextPage, vars
    <2> QED
        BY <2>1
<1> QED
    BY <1>1, <1>2, <1>3, <1>4, <1>5, <1>6, <1>7, <1>8, <1>9 DEF Next

LEMMA OrderOfNames ==
    ASSUME NEW class \in Classes
    PROVE  NameOrder(class) \in Int
<1>1. \E k \in DOMAIN Names : Names[k] = class
    BY DEF Classes
<1>2. NameOrder(class) \in DOMAIN Names
    BY <1>1, Zenon DEF NameOrder
<1>3. DOMAIN Names \subseteq Int
    BY DEF Names
<1> QED
    BY <1>2, <1>3

(* _ordered: what the prompt says of an object is what the rules say.      *)
AreTold(objects, group, names) ==
    \A o \in ToSet(objects) : o.name \in names /\ o.risk = Classify(o.name, group)

LEMMA ObjectsAreTold ==
    ASSUME NEW n \in Nat, NEW group \in Groups, NEW s, AreMarked(s, n, group)
    PROVE  AreTold(PromptObjects(s), group, {o.name : o \in ToSet(s)})
<1>1. PICK X : X = ToSet(s)
    OBVIOUS
<1>2. PICK N \in Nat : N = Len(s) /\ DOMAIN s = 1..N /\ s \in [1..N -> X]
    <2>1. s \in Seq(X)
        BY <1>1 DEF AreMarked, IsList
    <2> QED
        BY <2>1, ListElements
<1>3. \A o \in X : IsMarked(o, n, group)
    BY <1>1 DEF AreMarked
<1> DEFINE key == [k \in DOMAIN s |->
                    <<-Rank[s[k].risk], -s[k].confidence, NameOrder(s[k].name), s[k].frame>>]
           told == [k \in DOMAIN Sorted(s, key) |->
                        [name |-> Sorted(s, key)[k].name, risk |-> Sorted(s, key)[k].risk]]
<1>4. PromptObjects(s) = told
    BY Zenon DEF PromptObjects, SortedBy
<1>5. key \in Keys(N, 4)
    <2>1. DetectionConfidence \in Nat /\ Certain \in Nat
        BY SMT DEF DetectionConfidence, Certain
    <2>2. ASSUME NEW k \in 1..N
          PROVE  <<-Rank[s[k].risk], -s[k].confidence, NameOrder(s[k].name), s[k].frame>>
                    \in [1..4 -> Int]
        <3>1. PICK o : o = s[k] /\ IsMarked(o, n, group)
            BY <1>2, <1>3
        <3>2. PICK a, b, c, d :
                a = Rank[o.risk] /\ b = o.confidence /\ c = NameOrder(o.name) /\ d = o.frame
            OBVIOUS
        <3>3. a \in Nat
            BY <3>1, <3>2, Classified DEF IsMarked
        <3>4. b \in Int /\ d \in Int
            BY <2>1, <3>1, <3>2 DEF IsMarked
        <3>5. c \in Int
            BY <3>1, <3>2, OrderOfNames DEF IsMarked
        <3>6. -a \in Int /\ -b \in Int
            BY <3>3, <3>4
        <3>7. PICK e \in Int, f \in Int : e = -a /\ f = -b
            BY <3>6
        <3>8. <<e, f, c, d>> \in [1..4 -> Int]
            BY <3>4, <3>5
        <3> QED
            BY <3>1, <3>2, <3>7, <3>8
    <2> QED
        BY <1>2, <2>2 DEF Keys
<1> HIDE DEF key
<1>6. SortsTo(Sorted(s, key), s, N, X)
    BY <1>2, <1>5, SortedElements, Zenon
<1>7. PICK sorted : sorted = Sorted(s, key) /\ sorted \in [1..N -> X]
    BY <1>6 DEF SortsTo
<1>8. told = [k \in 1..N |-> [name |-> sorted[k].name, risk |-> sorted[k].risk]]
    BY <1>7
<1>9. ASSUME NEW k \in 1..N
      PROVE  /\ sorted[k].risk = Classify(sorted[k].name, group)
             /\ sorted[k].name \in {o.name : o \in ToSet(s)}
    <2>1. sorted[k] \in X
        BY <1>7
    <2> QED
        BY <1>1, <1>3, <2>1 DEF IsMarked
<1> HIDE DEF told
<1>10. PICK objects : objects = told
    OBVIOUS
<1>11. ASSUME NEW o \in ToSet(objects)
       PROVE  o.name \in {d.name : d \in ToSet(s)} /\ o.risk = Classify(o.name, group)
    <2>1. PICK k \in 1..N : o = [name |-> sorted[k].name, risk |-> sorted[k].risk]
        BY <1>8, <1>10 DEF ToSet
    <2> QED
        BY <1>9, <2>1
<1> QED
    BY <1>4, <1>10, <1>11 DEF AreTold

(* What build asks for is what Vision has kept.                            *)
Shows(prompt) ==
    /\ {"frames", "images", "observing", "objects", "score", "retry"} \subseteq DOMAIN prompt
    /\ prompt.score = Score
    /\ AreTold(prompt.objects, input.form.group, DetectedNames)
    /\ ToSet(prompt.frames) \subseteq ToSet(vision.kept)
    /\ ToSet(vision.kept) \subseteq DOMAIN vision.frames
    /\ prompt.frames[1] = vision.thumbnail
    /\ Len(prompt.frames) <= LlmMaxImages /\ IsInjective(prompt.frames)
    /\ prompt.observing <=> prompt.images # <<>>

PromptInv == report.prompt # None => Shows(report.prompt)

LEMMA PromptShows ==
    ASSUME VisionInv, stage \in WithDetected, report.score = Score, NEW encoded, NEW retry
    PROVE  Shows(PromptFor(encoded, retry))
<1>1. PICK n \in Nat : n = Len(vision.frames) /\ DOMAIN vision.frames = 1..n
    BY DEF VisionInv, AreFrames, WithFrames, WithRows, WithObjects, WithThumbnail
<1>2. PICK group \in Groups : group = input.form.group
    BY DEF VisionInv, LegalRequest, WithDetected, Rating
<1>3. vision.thumbnail \in 1..n /\ AreMarked(vision.detected, n, group)
      /\ vision.kept = FramesForAnalysis(vision.thumbnail, vision.detected, 1..n)
    BY <1>1, <1>2 DEF VisionInv, WithThumbnail
<1>4. PICK frames : frames = SelectAnalysisFrames(vision.thumbnail, vision.detected)
    OBVIOUS
<1>5. /\ frames \in Seq(1..n) /\ Len(frames) \in 1..LlmMaxImages
      /\ frames[1] = vision.thumbnail /\ IsInjective(frames)
    BY <1>3, <1>4, FramesToSend DEF AreFramesToSend
<1>6. PICK m \in Nat : m = Len(frames) /\ DOMAIN frames = 1..m /\ ToSet(frames) = {frames[k] : k \in 1..m}
                       /\ ToSet(frames) \subseteq 1..n
    BY <1>5, ListElements
<1>7. ToSet(vision.kept) = ToSet(frames)
    <2> DEFINE T == {k \in DOMAIN frames : frames[k] \in 1..n}
    <2>1. vision.kept = Chosen(frames, T)
        <3>1. FramesForAnalysis(vision.thumbnail, vision.detected, 1..n)
                = LET f == SelectAnalysisFrames(vision.thumbnail, vision.detected)
                  IN  Chosen(f, {k \in DOMAIN f : f[k] \in 1..n})
            BY Zenon DEF FramesForAnalysis, Filter
        <3> QED
            BY <1>3, <1>4, <3>1
    <2>2. T = 1..m /\ T \subseteq DOMAIN frames
        BY <1>6
    <2> HIDE DEF T
    <2>3. PICK X : X = 1..n
        OBVIOUS
    <2>4. frames \in Seq(X)
        BY <1>5, <2>3
    <2>5. ToSet(Chosen(frames, T)) = {frames[t] : t \in T}
        BY <2>2, <2>4, FilteredList
    <2>6. ToSet(vision.kept) = {frames[t] : t \in T}
        BY <2>1, <2>5
    <2> QED
        BY <1>6, <2>2, <2>6
<1> DEFINE T == {k \in DOMAIN frames : frames[k] \in encoded}
           images == Chosen(frames, T)
<1>8. /\ PromptFor(encoded, retry).frames = frames
      /\ PromptFor(encoded, retry).images = images
      /\ PromptFor(encoded, retry).observing = (ToSet(frames) \cap encoded # {})
      /\ PromptFor(encoded, retry).objects = PromptObjects(vision.detected)
      /\ PromptFor(encoded, retry).score = report.score
      /\ {"frames", "images", "observing", "objects", "score", "retry"}
            \subseteq DOMAIN PromptFor(encoded, retry)
    <2> DEFINE f == SelectAnalysisFrames(vision.thumbnail, vision.detected)
               chosen == Chosen(f, {k \in DOMAIN f : f[k] \in encoded})
    <2>1. PromptFor(encoded, retry) =
            [objects |-> PromptObjects(vision.detected), occupancy |-> vision.occupancy,
             score |-> report.score, frames |-> f, images |-> chosen,
             observing |-> ToSet(f) \cap encoded # {}, retry |-> retry]
        BY Zenon DEF PromptFor, Filter
    <2>2. chosen = images
        BY <1>4
    <2>3. f = frames
        BY <1>4
    <2> HIDE DEF f, chosen, images
    <2> QED
        BY <2>1, <2>2, <2>3
<1>9. ToSet(frames) \cap encoded # {} <=> T # {}
    BY <1>6
<1>10. T \subseteq DOMAIN frames
    OBVIOUS
<1> HIDE DEF T
<1>11. T = {} <=> images = <<>>
    BY <1>5, <1>10, FilteredList
<1> HIDE DEF images
<1>12. PICK prompt : prompt = PromptFor(encoded, retry)
    OBVIOUS
<1>13. prompt.observing <=> prompt.images # <<>>
    BY <1>8, <1>9, <1>11, <1>12
<1>14. Len(frames) <= LlmMaxImages
    BY <1>5, ImagesAssumption
<1>15. AreTold(prompt.objects, input.form.group, DetectedNames)
    BY <1>1, <1>2, <1>3, <1>8, <1>12, ObjectsAreTold DEF DetectedNames
<1>16. Shows(prompt)
    BY <1>1, <1>5, <1>6, <1>7, <1>8, <1>12, <1>13, <1>14, <1>15 DEF Shows
<1> QED
    BY <1>12, <1>16

LEMMA PromptInitInv == Init => PromptInv
BY DEF Init, PromptInv

LEMMA PromptNextInv == ScoreInv /\ VisionInv /\ PromptInv /\ [Next]_vars => PromptInv'
<1> SUFFICES ASSUME ScoreInv, VisionInv, PromptInv, [Next]_vars PROVE PromptInv'
    OBVIOUS
<1>S. ASSUME NEW prompt, Shows(prompt), UNCHANGED <<input, vision>> PROVE Shows(prompt)'
    BY <1>S DEF Shows, DetectedNames, Score
<1>1. CASE Request \/ ExtractFrames \/ DetectObjects \/ TrackObjects \/ SelectFrame \/ MarkRisks
    <2>1. UNCHANGED report
          /\ stage \in {"request", "frame_extraction", "object_detection", "object_tracking",
                        "frame_selection", "risk_marking"}
        BY <1>1 DEF Request, ExtractFrames, DetectObjects, TrackObjects, SelectFrame, MarkRisks
    <2>2. report.prompt = None
        BY <2>1 DEF ScoreInv, Rating
    <2> QED
        BY <2>1, <2>2 DEF PromptInv
<1>2. CASE CalculateScore
    <2>1. stage = "score_calculation" /\ report'.prompt = report.prompt
        BY <1>2 DEF CalculateScore, ScoreInv
    <2>2. report.prompt = None
        BY <2>1 DEF ScoreInv, Rating
    <2> QED
        BY <2>1, <2>2 DEF PromptInv
<1>3. CASE AskModel
    <2>1. PICK encoded : report' = [report EXCEPT !.prompt = PromptFor(encoded, None)]
        BY <1>3 DEF AskModel
    <2>2. /\ UNCHANGED <<input, vision>> /\ stage \in WithDetected
          /\ report'.prompt = PromptFor(encoded, None)
        BY <1>3, <2>1 DEF AskModel, ScoreInv, WithDetected, Rating
    <2>3. Shows(PromptFor(encoded, None))
        <3>1. report.score = Score
            BY <1>3 DEF AskModel, ScoreInv, Rating
        <3> QED
            BY <2>2, <3>1, PromptShows
    <2>4. PICK prompt : prompt = PromptFor(encoded, None)
        OBVIOUS
    <2>5. Shows(prompt)'
        BY <1>S, <2>2, <2>3, <2>4
    <2>6. report'.prompt = prompt
        BY <2>2, <2>4
    <2> QED
        BY <2>5, <2>6 DEF PromptInv, Shows
<1>4. CASE ModelAnswers
    <2>1. UNCHANGED <<input, vision>> /\ report.prompt # None /\ Shows(report.prompt)
        BY <1>4 DEF ModelAnswers, PromptInv
    <2>2. PICK answer, output :
            \/ report' = [report EXCEPT !.answer = answer, !.output = output]
            \/ report' = [report EXCEPT !.prompt.retry = output.rejection]
        BY <1>4 DEF ModelAnswers
    <2>3. CASE report' = [report EXCEPT !.answer = answer, !.output = output]
        <3>1. report'.prompt = report.prompt
            BY <2>3 DEF ScoreInv
        <3> QED
            BY <2>1, <3>1 DEF PromptInv, Shows, DetectedNames, Score
    <2>4. CASE report' = [report EXCEPT !.prompt.retry = output.rejection]
        <3>1. report'.prompt = [report.prompt EXCEPT !.retry = output.rejection]
            BY <2>4 DEF ScoreInv
        <3>2. PICK p, q : p = report.prompt /\ q = [p EXCEPT !.retry = output.rejection]
            OBVIOUS
        <3>3. {"frames", "images", "observing", "objects", "score", "retry"} \subseteq DOMAIN p
            BY <2>1, <3>2 DEF Shows
        <3>4. /\ DOMAIN q = DOMAIN p /\ q.frames = p.frames /\ q.images = p.images
              /\ q.observing = p.observing /\ q.objects = p.objects /\ q.score = p.score
            BY <3>2, <3>3
        <3>5. Shows(q)
            BY <2>1, <3>2, <3>4 DEF Shows
        <3>6. Shows(q)'
            BY <1>S, <2>1, <3>5
        <3>7. report'.prompt = q
            BY <3>1, <3>2
        <3> QED
            BY <3>6, <3>7 DEF PromptInv, Shows
    <2> QED
        BY <2>2, <2>3, <2>4
<1>5. CASE GiveUp \/ SaveResult \/ ShowResult \/ OpenHistory \/ NextPage \/ UNCHANGED vars
    <2>1. UNCHANGED <<report, input, vision>>
        BY <1>5 DEF GiveUp, SaveResult, ShowResult, OpenHistory, NextPage, vars
    <2> QED
        BY <2>1 DEF PromptInv, Shows, DetectedNames, Score
<1> QED
    BY <1>1, <1>2, <1>3, <1>4, <1>5 DEF Next

(* prompts.py, pipeline.py: every frame the prompt speaks of is one Vision *)
(* has kept, the thumbnail's first, none twice and no more than the limit, *)
(* and the score that is stored is the one the prompt told, whatever the   *)
(* video, the detections and the answers are.                              *)
THEOREM PromptSeesTheResult == Spec => []ModelSeesTheResult
<1>1. ScoreInv /\ PromptInv => ModelSeesTheResult
    <2> SUFFICES ASSUME ScoreInv, PromptInv, report.prompt # None
                 PROVE  ModelSeesTheResult
        BY DEF ModelSeesTheResult
    <2>1. Shows(report.prompt)
        BY DEF PromptInv
    <2>2. row # None => row.score = report.prompt.score
        BY DEF ScoreInv
    <2> QED
        BY <2>1, <2>2 DEF ModelSeesTheResult, Shows
<1> QED
    BY <1>1, SamplingInitInv, SamplingNextInv, ScoreInitInv, ScoreNextInv, VisionInitInv,
       VisionNextInv, PromptInitInv, PromptNextInv, PTL DEF Spec

-----------------------------------------------------------------------------
(* Scores.  The mean of penalties that are percentages is one.             *)
LEMMA RoundedWithin ==
    ASSUME NEW num \in Nat, NEW den \in Nat \ {0}, NEW scale \in Nat, num <= scale * den
    PROVE  RoundHalfUp(num, den) \in 0..scale
<1> DEFINE r == RoundHalfUp(num, den)
<1>1. r \in Nat /\ 2 * den * r <= 2 * num + den
    BY RoundHalfUpNearest
<1> HIDE DEF r
<1>2. 2 * den * r <= 2 * (scale * den) + den
    BY <1>1, Z3
<1>3. r <= scale
    <2>1. SUFFICES ASSUME r >= scale + 1 PROVE FALSE
        BY <1>1
    <2>2. 2 * den * r >= 2 * den * (scale + 1)
        BY <1>1, <2>1, Z3
    <2> QED
        BY <1>1, <1>2, <2>2, Z3
<1> QED
    BY <1>1, <1>3 DEF r

LEMMA FourElements ==
    ASSUME NEW a, NEW b, NEW c, NEW d
    PROVE  IsFiniteSet({a, b, c, d})
<1>1. IsFiniteSet({a, b, c}) /\ IsFiniteSet({d})
    BY ThreeElements, FS_Singleton
<1>2. IsFiniteSet({a, b, c} \cup {d})
    BY <1>1, FS_Union
<1> QED
    BY <1>2

LEMMA FiniteItems == IsFiniteSet(Items) /\ IsFiniteSet(Categories)
<1>1. PICK a, b, c :
        /\ a = {"CABLE_EXPOSURE", "SLIP_RISK", "STAIRS_RISK", "WINDOW_SAFETY"}
        /\ b = {"ACTIVITY_SPACE", "VERTICAL_SPACE", "REST_SPACE", "HIDING_SPACE"}
        /\ c = {"FEEDING_ENV"}
    OBVIOUS
<1>2. Items = (a \cup b) \cup c
    BY <1>1 DEF Items, CategoryOf
<1>3. IsFiniteSet(a) /\ IsFiniteSet(b) /\ IsFiniteSet(c)
    BY <1>1, FourElements, FS_Singleton
<1>4. IsFiniteSet(Items)
    BY <1>2, <1>3, FS_Union
<1>5. IsFiniteSet(Categories)
    BY FourElements DEF Categories
<1> QED
    BY <1>4, <1>5

Measured == Items \ Unmeasurable

LEMMA Percentages ==
    ASSUME NEW names, NEW occupancy
    PROVE  /\ DOMAIN Penalty(names, occupancy) = Measured
           /\ \A i \in Measured : Penalty(names, occupancy)[i] \in 0..100
<1>1. PICK activity : activity = OccupancyPenalty(occupancy) /\ activity \in 0..100
    BY DEF OccupancyPenalty
<1>2. PICK rest \in 0..100 : rest = IF "pet_bed" \in names THEN 0
                                    ELSE IF {"sofa", "bed"} \cap names # {} THEN 40 ELSE 100
    OBVIOUS
<1> QED
    BY <1>1 DEF Penalty, Measured, Items, CategoryOf, Unmeasurable

LEMMA Weights ==
    ASSUME NEW i \in Items, NEW group \in Groups
    PROVE  Weight[i][group] \in 1..3
BY DEF Weight, For, Items, CategoryOf, Groups

LEMMA RoundingGrows ==
    ASSUME NEW a \in Nat, NEW b \in Nat, NEW den \in Nat \ {0}, a <= b
    PROVE  /\ RoundHalfUp(a, den) <= RoundHalfUp(b, den)
           /\ a + den <= b => RoundHalfUp(a, den) < RoundHalfUp(b, den)
<1> DEFINE r == RoundHalfUp(a, den)
           s == RoundHalfUp(b, den)
<1>1. /\ r \in Nat /\ 2 * den * r <= 2 * a + den
      /\ s \in Nat /\ 2 * b + den < 2 * den * s + 2 * den
    BY RoundHalfUpNearest
<1> HIDE DEF r, s
<1>2. \A t \in Nat : t >= s => 2 * den * t >= 2 * den * s
    BY <1>1, Z3
<1>3. r <= s
    <2>1. SUFFICES ASSUME r >= s + 1 PROVE FALSE
        BY <1>1
    <2>2. 2 * den * r >= 2 * den * s + 2 * den
        <3>1. 2 * den * r = 2 * den * (r - 1) + 2 * den
            BY <1>1, Z3
        <3>2. r - 1 \in Nat /\ r - 1 >= s
            BY <1>1, <2>1
        <3> QED
            BY <1>1, <1>2, <3>1, <3>2, Z3
    <2> QED
        BY <1>1, <2>2, Z3
<1>4. ASSUME a + den <= b
      PROVE  r < s
    <2>1. SUFFICES ASSUME r >= s PROVE FALSE
        BY <1>1
    <2>2. 2 * den * r >= 2 * den * s
        BY <1>1, <1>2, <2>1
    <2> QED
        BY <1>1, <1>4, <2>2, Z3
<1> QED
    BY <1>3, <1>4 DEF r, s

TakenOut(x, s, t, D) == x \in s /\ s \subseteq D /\ t = s \ {x}

Adds(F, f, x, s, t) == F[s] = f[x] + F[t] /\ F[t] \in Int /\ f[x] \in Int

LEMMA SumStep ==
    ASSUME NEW D, NEW f \in [D -> Int], NEW F, Sums(F, f, D),
           NEW s, NEW t, NEW x, TakenOut(x, s, t, D)
    PROVE  Adds(F, f, x, s, t)
<1>1. s \in SUBSET D /\ t \in SUBSET D /\ x \in D /\ x \in s /\ t = s \ {x}
    BY DEF TakenOut
<1>2. F[s] = f[x] + F[s \ {x}] /\ F[t] \in Int
    BY <1>1 DEF Sums
<1> QED
    BY <1>1, <1>2 DEF Adds

LEMMA SumOfOne ==
    ASSUME NEW a, NEW f, f[a] \in Int,
           NEW D, D = {a}
    PROVE  SumFunction(Restrict(f, D)) = f[a]
<1>1. IsFiniteSet(D)
    BY FS_Singleton
<1>2. PICK g : g = Restrict(f, D) /\ g = [i \in D |-> f[i]]
    BY DEF Restrict
<1>3. g \in [D -> Int] /\ g[a] = f[a]
    BY <1>2
<1>4. PICK F : Sums(F, g, D) /\ SumFunction(g) = F[D] /\ F[D] \in Int
    BY <1>1, <1>3, SumRules
<1>5. F[{a}] = g[a] + F[{}] /\ F[{}] \in Int /\ g[a] \in Int
    <2>1. TakenOut(a, {a}, {}, D)
        BY DEF TakenOut
    <2>2. Adds(F, g, a, {a}, {})
        BY <1>1, <1>3, <1>4, <2>1, SumStep, Zenon
    <2> QED
        BY <2>2 DEF Adds
<1>6. F[{}] = 0
    BY <1>4 DEF Sums
<1>7. SumFunction(g) = f[a]
    BY <1>3, <1>4, <1>5, <1>6
<1> QED
    BY <1>2, <1>7

LEMMA SumOfTwo ==
    ASSUME NEW a, NEW b, NEW f, a # b,
           f[a] \in Int, f[b] \in Int,
           NEW D, D = {a, b}
    PROVE  SumFunction(Restrict(f, D)) = f[a] + f[b]
<1>1. IsFiniteSet(D)
    <2>1. IsFiniteSet({a, b, b})
        BY ThreeElements, Zenon
    <2>2. D = {a, b, b}
        OBVIOUS
    <2> QED
        BY <2>1, <2>2
<1>2. PICK g : g = Restrict(f, D) /\ g = [i \in D |-> f[i]]
    BY DEF Restrict
<1>3. g \in [D -> Int] /\ g[a] = f[a] /\ g[b] = f[b]
    BY <1>2
<1>4. PICK F : Sums(F, g, D) /\ SumFunction(g) = F[D] /\ F[D] \in Int
    BY <1>1, <1>3, SumRules
<1>5. F[{a, b}] = g[a] + F[{b}] /\ F[{b}] \in Int /\ g[a] \in Int
    <2>1. TakenOut(a, {a, b}, {b}, D)
        BY DEF TakenOut
    <2>2. Adds(F, g, a, {a, b}, {b})
        BY <1>1, <1>3, <1>4, <2>1, SumStep, Zenon
    <2> QED
        BY <2>2 DEF Adds
<1>6. F[{b}] = g[b] + F[{}] /\ F[{}] \in Int /\ g[b] \in Int
    <2>1. TakenOut(b, {b}, {}, D)
        BY DEF TakenOut
    <2>2. Adds(F, g, b, {b}, {})
        BY <1>1, <1>3, <1>4, <2>1, SumStep, Zenon
    <2> QED
        BY <2>2 DEF Adds
<1>7. F[{}] = 0
    BY <1>4 DEF Sums
<1>8. SumFunction(g) = f[a] + f[b]
    BY <1>3, <1>4, <1>5, <1>6, <1>7
<1> QED
    BY <1>2, <1>8

LEMMA SumOfThree ==
    ASSUME NEW a, NEW b, NEW c, NEW f, a # b, a # c, b # c,
           f[a] \in Int, f[b] \in Int, f[c] \in Int,
           NEW D, D = {a, b, c}
    PROVE  SumFunction(Restrict(f, D)) = f[a] + f[b] + f[c]
<1>1. IsFiniteSet(D)
    BY ThreeElements
<1>2. PICK g : g = Restrict(f, D) /\ g = [i \in D |-> f[i]]
    BY DEF Restrict
<1>3. g \in [D -> Int] /\ g[a] = f[a] /\ g[b] = f[b] /\ g[c] = f[c]
    BY <1>2
<1>4. PICK F : Sums(F, g, D) /\ SumFunction(g) = F[D] /\ F[D] \in Int
    BY <1>1, <1>3, SumRules
<1>5. F[{a, b, c}] = g[a] + F[{b, c}] /\ F[{b, c}] \in Int /\ g[a] \in Int
    <2>1. TakenOut(a, {a, b, c}, {b, c}, D)
        BY DEF TakenOut
    <2>2. Adds(F, g, a, {a, b, c}, {b, c})
        BY <1>1, <1>3, <1>4, <2>1, SumStep, Zenon
    <2> QED
        BY <2>2 DEF Adds
<1>6. F[{b, c}] = g[b] + F[{c}] /\ F[{c}] \in Int /\ g[b] \in Int
    <2>1. TakenOut(b, {b, c}, {c}, D)
        BY DEF TakenOut
    <2>2. Adds(F, g, b, {b, c}, {c})
        BY <1>1, <1>3, <1>4, <2>1, SumStep, Zenon
    <2> QED
        BY <2>2 DEF Adds
<1>7. F[{c}] = g[c] + F[{}] /\ F[{}] \in Int /\ g[c] \in Int
    <2>1. TakenOut(c, {c}, {}, D)
        BY DEF TakenOut
    <2>2. Adds(F, g, c, {c}, {})
        BY <1>1, <1>3, <1>4, <2>1, SumStep, Zenon
    <2> QED
        BY <2>2 DEF Adds
<1>8. F[{}] = 0
    BY <1>4 DEF Sums
<1>9. SumFunction(g) = f[a] + f[b] + f[c]
    BY <1>3, <1>4, <1>5, <1>6, <1>7, <1>8
<1> QED
    BY <1>2, <1>9

FourTerms(D, a, b, c, d, f) ==
    /\ D = {a, b, c, d} /\ a # b /\ a # c /\ a # d /\ b # c /\ b # d /\ c # d
    /\ f[a] \in Int /\ f[b] \in Int /\ f[c] \in Int /\ f[d] \in Int

LEMMA SumOfFour ==
    ASSUME NEW a, NEW b, NEW c, NEW d, NEW f, NEW D, FourTerms(D, a, b, c, d, f)
    PROVE  SumFunction(Restrict(f, D)) = f[a] + f[b] + f[c] + f[d]
<1>0. /\ D = {a, b, c, d} /\ a # b /\ a # c /\ a # d /\ b # c /\ b # d /\ c # d
      /\ f[a] \in Int /\ f[b] \in Int /\ f[c] \in Int /\ f[d] \in Int
    BY DEF FourTerms
<1>1. IsFiniteSet(D)
    BY <1>0, FourElements
<1>2. PICK g : g = Restrict(f, D) /\ g = [i \in D |-> f[i]]
    BY DEF Restrict
<1>3. g \in [D -> Int] /\ g[a] = f[a] /\ g[b] = f[b] /\ g[c] = f[c] /\ g[d] = f[d]
    BY <1>0, <1>2
<1>4. PICK F : Sums(F, g, D) /\ SumFunction(g) = F[D] /\ F[D] \in Int
    BY <1>1, <1>3, SumRules
<1>5. F[{a, b, c, d}] = g[a] + F[{b, c, d}] /\ F[{b, c, d}] \in Int /\ g[a] \in Int
    <2>1. TakenOut(a, {a, b, c, d}, {b, c, d}, D)
        BY <1>0 DEF TakenOut
    <2>2. Adds(F, g, a, {a, b, c, d}, {b, c, d})
        BY <1>1, <1>3, <1>4, <2>1, SumStep, Zenon
    <2> QED
        BY <2>2 DEF Adds
<1>6. F[{b, c, d}] = g[b] + F[{c, d}] /\ F[{c, d}] \in Int /\ g[b] \in Int
    <2>1. TakenOut(b, {b, c, d}, {c, d}, D)
        BY <1>0 DEF TakenOut
    <2>2. Adds(F, g, b, {b, c, d}, {c, d})
        BY <1>1, <1>3, <1>4, <2>1, SumStep, Zenon
    <2> QED
        BY <2>2 DEF Adds
<1>7. F[{c, d}] = g[c] + F[{d}] /\ F[{d}] \in Int /\ g[c] \in Int
    <2>1. TakenOut(c, {c, d}, {d}, D)
        BY <1>0 DEF TakenOut
    <2>2. Adds(F, g, c, {c, d}, {d})
        BY <1>1, <1>3, <1>4, <2>1, SumStep, Zenon
    <2> QED
        BY <2>2 DEF Adds
<1>8. F[{d}] = g[d] + F[{}] /\ F[{}] \in Int /\ g[d] \in Int
    <2>1. TakenOut(d, {d}, {}, D)
        BY <1>0 DEF TakenOut
    <2>2. Adds(F, g, d, {d}, {})
        BY <1>1, <1>3, <1>4, <2>1, SumStep, Zenon
    <2> QED
        BY <2>2 DEF Adds
<1>9. F[{}] = 0
    BY <1>4 DEF Sums
<1>10. SumFunction(g) = f[a] + f[b] + f[c] + f[d]
    BY <1>0, <1>3, <1>4, <1>5, <1>6, <1>7, <1>8, <1>9
<1> QED
    BY <1>2, <1>10

(* What is rated where.                                                    *)
Dangers == {"CABLE_EXPOSURE", "STAIRS_RISK", "WINDOW_SAFETY"}

SafetyItems(space) ==
    IF space \in {"living_room", "bedroom"} THEN Dangers \cup {"SLIP_RISK"} ELSE Dangers

LEMMA RatedItems ==
    ASSUME NEW names, NEW occupancy, NEW space \in Spaces
    PROVE  LET penalty == Penalty(names, occupancy)
           IN /\ Rated("safety", space, penalty) = SafetyItems(space)
              /\ Rated("activity", space, penalty) =
                    IF space \in {"living_room", "bedroom"}
                    THEN {"ACTIVITY_SPACE", "VERTICAL_SPACE"} ELSE {}
              /\ Rated("rest", space, penalty) =
                    IF space \in {"living_room", "bedroom"} THEN {"REST_SPACE"} ELSE {}
              /\ Rated("environment", space, penalty) =
                    IF space \in {"living_room", "kitchen"} THEN {"FEEDING_ENV"} ELSE {}
<1> DEFINE penalty == Penalty(names, occupancy)
<1>1. DOMAIN penalty = Measured
    BY Percentages
<1> HIDE DEF penalty
<1>2. Rated("safety", space, penalty) = SafetyItems(space)
    BY <1>1 DEF Rated, Applicable, CategoryOf, Items, Hazards, Unmeasurable, Measured, Spaces,
                SafetyItems, Dangers
<1>3. Rated("activity", space, penalty) =
        IF space \in {"living_room", "bedroom"} THEN {"ACTIVITY_SPACE", "VERTICAL_SPACE"} ELSE {}
    BY <1>1 DEF Rated, Applicable, CategoryOf, Items, Hazards, Unmeasurable, Measured, Spaces
<1>4. Rated("rest", space, penalty) =
        IF space \in {"living_room", "bedroom"} THEN {"REST_SPACE"} ELSE {}
    BY <1>1 DEF Rated, Applicable, CategoryOf, Items, Hazards, Unmeasurable, Measured, Spaces
<1>5. Rated("environment", space, penalty) =
        IF space \in {"living_room", "kitchen"} THEN {"FEEDING_ENV"} ELSE {}
    BY <1>1 DEF Rated, Applicable, CategoryOf, Items, Hazards, Unmeasurable, Measured, Spaces
<1> QED
    BY <1>2, <1>3, <1>4, <1>5 DEF penalty

\* What a category weighs, and what it loses: the sums of CategoryScore, written out.
SafetyTerms(slips, f) ==
    f["CABLE_EXPOSURE"] + f["STAIRS_RISK"] + f["WINDOW_SAFETY"]
        + (IF slips THEN f["SLIP_RISK"] ELSE 0)

IsHome(space) == space \in {"living_room", "bedroom"}

\* The weights of an animal, and the penalties of a room times these.
WeightsOf(group) == [i \in Measured |-> Weight[i][group]]

LossesOf(group, names, occupancy) ==
    [i \in Measured |-> Weight[i][group] * Penalty(names, occupancy)[i]]

LEMMA WeightsAndLosses ==
    ASSUME NEW group \in Groups, NEW names, NEW occupancy
    PROVE  /\ WeightsOf(group) \in [Measured -> 1..3]
           /\ LossesOf(group, names, occupancy) \in [Measured -> Nat]
           /\ \A i \in Measured : LossesOf(group, names, occupancy)[i] <= 100 * WeightsOf(group)[i]
<1>1. ASSUME NEW i \in Measured
      PROVE  /\ Weight[i][group] \in 1..3 /\ Penalty(names, occupancy)[i] \in 0..100
             /\ Weight[i][group] * Penalty(names, occupancy)[i] \in Nat
             /\ Weight[i][group] * Penalty(names, occupancy)[i] <= 100 * Weight[i][group]
    <2>1. PICK w, p : w = Weight[i][group] /\ p = Penalty(names, occupancy)[i]
        OBVIOUS
    <2>2. w \in 1..3 /\ p \in 0..100
        BY <2>1, Weights, Percentages DEF Measured
    <2>3. w * p \in Nat /\ w * p <= 100 * w
        <3>1. CASE w = 1
            BY <2>2, <3>1
        <3>2. CASE w = 2
            BY <2>2, <3>2
        <3>3. CASE w = 3
            BY <2>2, <3>3
        <3> QED
            BY <2>2, <3>1, <3>2, <3>3
    <2> QED
        BY <2>1, <2>2, <2>3
<1> QED
    BY <1>1 DEF WeightsOf, LossesOf

\* The score of what is rated, given the two sums.
ScoreOver(weights, losses, rows) ==
    RoundHalfUp(100 * SumFunction(Restrict(weights, rows))
                    - SumFunction(Restrict(losses, rows)),
                SumFunction(Restrict(weights, rows)))

LEMMA ScoreOfRows ==
    ASSUME NEW category, NEW group, NEW space, NEW names, NEW occupancy,
           NEW rows, rows = Rated(category, space, Penalty(names, occupancy)),
           rows \subseteq Measured
    PROVE  CategoryScore(category, group, space, names, occupancy) =
                IF rows = {} THEN 100
                ELSE ScoreOver(WeightsOf(group), LossesOf(group, names, occupancy), rows)
<1> DEFINE penalty == Penalty(names, occupancy)
           v == [i \in rows |-> Weight[i][group]]
           l == [i \in rows |-> Weight[i][group] * penalty[i]]
<1>1. v = Restrict(WeightsOf(group), rows)
    BY DEF WeightsOf, Restrict
<1>2. l = Restrict(LossesOf(group, names, occupancy), rows)
    BY DEF LossesOf, Restrict
<1>3. ScoreOver(WeightsOf(group), LossesOf(group, names, occupancy), rows) =
        RoundHalfUp(100 * SumFunction(v) - SumFunction(l), SumFunction(v))
    BY <1>1, <1>2 DEF ScoreOver
<1>4. CategoryScore(category, group, space, names, occupancy) =
        IF rows = {} THEN 100
        ELSE RoundHalfUp(100 * SumFunction(v) - SumFunction(l), SumFunction(v))
    BY Zenon DEF CategoryScore
<1> QED
    BY <1>3, <1>4

\* The sums of a category are those of its items.
LEMMA TermsOfSafety ==
    ASSUME NEW space, NEW f, \A i \in Measured : f[i] \in Int
    PROVE  /\ SumFunction(Restrict(f, SafetyItems(space))) = SafetyTerms(IsHome(space), f)
           /\ SafetyTerms(IsHome(space), f) \in Int
<1>1. PICK a, b, c, d :
        /\ a = "CABLE_EXPOSURE" /\ b = "STAIRS_RISK" /\ c = "WINDOW_SAFETY" /\ d = "SLIP_RISK"
    OBVIOUS
<1>2. a # b /\ a # c /\ a # d /\ b # c /\ b # d /\ c # d
    BY <1>1
<1>3. f[a] \in Int /\ f[b] \in Int /\ f[c] \in Int /\ f[d] \in Int
    <2>1. {a, b, c, d} \subseteq Measured
        BY <1>1 DEF Measured, Items, CategoryOf, Unmeasurable
    <2> QED
        BY <2>1
<1>4. CASE IsHome(space)
    <2>1. PICK D : D = {a, b, c, d}
        OBVIOUS
    <2>2. SumFunction(Restrict(f, D)) = f[a] + f[b] + f[c] + f[d]
        <3>1. FourTerms(D, a, b, c, d, f)
            BY <1>2, <1>3, <2>1 DEF FourTerms
        <3> QED
            BY <3>1, SumOfFour
    <2>3. SafetyItems(space) = {a, b, c, d}
        BY <1>1, <1>4 DEF SafetyItems, Dangers, IsHome
    <2> QED
        BY <1>1, <1>3, <1>4, <2>1, <2>2, <2>3 DEF SafetyTerms
<1>5. CASE ~IsHome(space)
    <2>1. PICK D : D = {a, b, c}
        OBVIOUS
    <2>2. SumFunction(Restrict(f, D)) = f[a] + f[b] + f[c]
        BY <1>2, <1>3, <2>1, SumOfThree
    <2>3. SafetyItems(space) = {a, b, c}
        BY <1>1, <1>5 DEF SafetyItems, Dangers, IsHome
    <2> QED
        BY <1>1, <1>3, <1>5, <2>1, <2>2, <2>3 DEF SafetyTerms
<1> QED
    BY <1>4, <1>5

IsFed(space) == space \in {"living_room", "kitchen"}

\* A mean of percentages; what weighs nothing loses nothing.
Mean(weight, loss) == IF weight = 0 THEN 100 ELSE RoundHalfUp(100 * weight - loss, weight)

\* The weight or the loss of a category, with f either.
Terms(category, space, f) ==
    CASE category = "safety" -> SafetyTerms(IsHome(space), f)
      [] category = "activity" ->
            IF IsHome(space) THEN f["ACTIVITY_SPACE"] + f["VERTICAL_SPACE"] ELSE 0
      [] category = "rest" -> IF IsHome(space) THEN f["REST_SPACE"] ELSE 0
      [] category = "environment" -> IF IsFed(space) THEN f["FEEDING_ENV"] ELSE 0

AreWhole(f) == \A i \in Measured : f[i] \in Int

SumsTerms(category, space, f, rows) ==
    /\ rows \subseteq Measured
    /\ rows # {} => SumFunction(Restrict(f, rows)) = Terms(category, space, f)
    /\ rows = {} => Terms(category, space, f) = 0

LEMMA TermsOfCategory ==
    ASSUME NEW category \in Categories, NEW space \in Spaces, NEW names, NEW occupancy,
           NEW f, AreWhole(f),
           NEW rows, rows = Rated(category, space, Penalty(names, occupancy))
    PROVE  SumsTerms(category, space, f, rows)
<1>W. \A i \in Measured : f[i] \in Int
    BY DEF AreWhole
<1> USE DEF SumsTerms
<1>1. CASE category = "safety"
    <2>1. rows = SafetyItems(space)
        BY <1>1, RatedItems
    <2>2. SumFunction(Restrict(f, rows)) = Terms(category, space, f)
        BY <1>W, <1>1, <2>1, TermsOfSafety DEF Terms
    <2>3. rows \subseteq Measured /\ rows # {}
        BY <2>1 DEF SafetyItems, Dangers, Measured, Items, CategoryOf, Unmeasurable
    <2> QED
        BY <2>2, <2>3
<1>2. CASE category = "activity"
    <2>1. rows = IF IsHome(space) THEN {"ACTIVITY_SPACE", "VERTICAL_SPACE"} ELSE {}
        BY <1>2, RatedItems DEF IsHome
    <2>2. PICK a, b : a = "ACTIVITY_SPACE" /\ b = "VERTICAL_SPACE"
        OBVIOUS
    <2>3. a # b /\ a \in Measured /\ b \in Measured
        BY <2>2 DEF Measured, Items, CategoryOf, Unmeasurable
    <2>4. PICK D : D = {a, b}
        OBVIOUS
    <2>5. SumFunction(Restrict(f, D)) = f[a] + f[b]
        BY <1>W, <2>3, <2>4, SumOfTwo
    <2>6. Terms(category, space, f) = IF IsHome(space) THEN f[a] + f[b] ELSE 0
        BY <1>2, <2>2 DEF Terms
    <2>7. rows = IF IsHome(space) THEN D ELSE {}
        BY <2>1, <2>2, <2>4
    <2> QED
        BY <2>3, <2>4, <2>5, <2>6, <2>7
<1>3. CASE category = "rest"
    <2>1. rows = IF IsHome(space) THEN {"REST_SPACE"} ELSE {}
        BY <1>3, RatedItems DEF IsHome
    <2>2. PICK a : a = "REST_SPACE"
        OBVIOUS
    <2>3. a \in Measured
        BY <2>2 DEF Measured, Items, CategoryOf, Unmeasurable
    <2>4. PICK D : D = {a}
        OBVIOUS
    <2>5. SumFunction(Restrict(f, D)) = f[a]
        BY <1>W, <2>3, <2>4, SumOfOne
    <2>6. Terms(category, space, f) = IF IsHome(space) THEN f[a] ELSE 0
        BY <1>3, <2>2 DEF Terms
    <2>7. rows = IF IsHome(space) THEN D ELSE {}
        BY <2>1, <2>2, <2>4
    <2> QED
        BY <2>3, <2>4, <2>5, <2>6, <2>7
<1>4. CASE category = "environment"
    <2>1. rows = IF IsFed(space) THEN {"FEEDING_ENV"} ELSE {}
        BY <1>4, RatedItems DEF IsFed
    <2>2. PICK a : a = "FEEDING_ENV"
        OBVIOUS
    <2>3. a \in Measured
        BY <2>2 DEF Measured, Items, CategoryOf, Unmeasurable
    <2>4. PICK D : D = {a}
        OBVIOUS
    <2>5. SumFunction(Restrict(f, D)) = f[a]
        BY <1>W, <2>3, <2>4, SumOfOne
    <2>6. Terms(category, space, f) = IF IsFed(space) THEN f[a] ELSE 0
        BY <1>4, <2>2 DEF Terms
    <2>7. rows = IF IsFed(space) THEN D ELSE {}
        BY <2>1, <2>2, <2>4
    <2> QED
        BY <2>3, <2>4, <2>5, <2>6, <2>7
<1> QED
    BY <1>1, <1>2, <1>3, <1>4 DEF Categories

\* The weights are at most twelve together, a loss is at most all of its weight.
LEMMA TermsBounded ==
    ASSUME NEW category \in Categories, NEW space, NEW w, NEW l,
           \A i \in Measured : w[i] \in 1..3 /\ l[i] \in Nat /\ l[i] <= 100 * w[i]
    PROVE  /\ Terms(category, space, w) \in 0..12 /\ Terms(category, space, l) \in Nat
           /\ Terms(category, space, l) <= 100 * Terms(category, space, w)
           /\ category = "safety" => Terms(category, space, w) # 0
<1>1. {"CABLE_EXPOSURE", "STAIRS_RISK", "WINDOW_SAFETY", "SLIP_RISK", "ACTIVITY_SPACE",
       "VERTICAL_SPACE", "REST_SPACE", "FEEDING_ENV"} \subseteq Measured
    BY DEF Measured, Items, CategoryOf, Unmeasurable
<1>2. CASE category = "safety"
    <2>1. PICK a, b, c, d :
            /\ a = w["CABLE_EXPOSURE"] /\ b = w["STAIRS_RISK"]
            /\ c = w["WINDOW_SAFETY"] /\ d = w["SLIP_RISK"]
        OBVIOUS
    <2>2. PICK p, q, r, s :
            /\ p = l["CABLE_EXPOSURE"] /\ q = l["STAIRS_RISK"]
            /\ r = l["WINDOW_SAFETY"] /\ s = l["SLIP_RISK"]
        OBVIOUS
    <2>3. /\ a \in 1..3 /\ b \in 1..3 /\ c \in 1..3 /\ d \in 1..3
          /\ p \in Nat /\ q \in Nat /\ r \in Nat /\ s \in Nat
          /\ p <= 100 * a /\ q <= 100 * b /\ r <= 100 * c /\ s <= 100 * d
        BY <1>1, <2>1, <2>2
    <2>4. /\ Terms(category, space, w) = a + b + c + (IF IsHome(space) THEN d ELSE 0)
          /\ Terms(category, space, l) = p + q + r + (IF IsHome(space) THEN s ELSE 0)
        BY <1>2, <2>1, <2>2 DEF Terms, SafetyTerms
    <2> QED
        BY <2>3, <2>4
<1>3. CASE category = "activity"
    BY <1>1, <1>3 DEF Terms
<1>4. CASE category = "rest"
    BY <1>1, <1>4 DEF Terms
<1>5. CASE category = "environment"
    BY <1>1, <1>5 DEF Terms
<1> QED
    BY <1>2, <1>3, <1>4, <1>5 DEF Categories

LEMMA CategoryMean ==
    ASSUME NEW category \in Categories, NEW group \in Groups, NEW space \in Spaces,
           NEW names, NEW occupancy
    PROVE  /\ CategoryScore(category, group, space, names, occupancy) =
                Mean(Terms(category, space, WeightsOf(group)),
                     Terms(category, space, LossesOf(group, names, occupancy)))
           /\ CategoryScore(category, group, space, names, occupancy) \in 0..100
<1>1. PICK w, l : w = WeightsOf(group) /\ l = LossesOf(group, names, occupancy)
    OBVIOUS
<1>2. \A i \in Measured : w[i] \in 1..3 /\ l[i] \in Nat /\ l[i] <= 100 * w[i]
    BY <1>1, WeightsAndLosses
<1>3. PICK rows : rows = Rated(category, space, Penalty(names, occupancy))
    OBVIOUS
<1>4. AreWhole(w) /\ AreWhole(l)
    BY <1>2 DEF AreWhole
<1>5. /\ rows \subseteq Measured
      /\ rows # {} => SumFunction(Restrict(w, rows)) = Terms(category, space, w)
      /\ rows = {} => Terms(category, space, w) = 0
    <2>1. SumsTerms(category, space, w, rows)
        BY <1>3, <1>4, TermsOfCategory
    <2> QED
        BY <2>1 DEF SumsTerms
<1>6. rows # {} => SumFunction(Restrict(l, rows)) = Terms(category, space, l)
    <2>1. SumsTerms(category, space, l, rows)
        BY <1>3, <1>4, TermsOfCategory
    <2> QED
        BY <2>1 DEF SumsTerms
<1>7. PICK W, L : W = Terms(category, space, w) /\ L = Terms(category, space, l)
    OBVIOUS
<1>8. W \in 0..12 /\ L \in Nat /\ L <= 100 * W
    BY <1>2, <1>7, TermsBounded
<1>9. rows # {} => W # 0
    <2>1. SUFFICES ASSUME rows # {} PROVE W # 0
        OBVIOUS
    <2>2. IsFiniteSet(rows)
        BY <1>5, FiniteItems, FS_Subset DEF Measured
    <2>3. PICK g : g = Restrict(w, rows) /\ g = [i \in rows |-> w[i]]
        BY DEF Restrict
    <2>4. PICK z : z = [i \in rows |-> 0]
        OBVIOUS
    <2>5. /\ g \in [rows -> Int] /\ \A i \in rows : g[i] >= 1
          /\ z \in [rows -> Int] /\ \A i \in rows : z[i] = 0
        BY <1>2, <1>5, <2>3, <2>4
    <2>6. PICK x \in rows : TRUE
        BY <2>1
    <2>7. \A i \in rows : z[i] <= g[i]
        BY <2>5
    <2>8. /\ SumFunction(z) \in Int /\ SumFunction(g) \in Int
          /\ SumFunction(z) + (g[x] - z[x]) <= SumFunction(g)
        BY <2>2, <2>5, <2>6, <2>7, SumGrows
    <2>9. z \in [rows -> Nat]
        BY <2>4
    <2>10. SumFunction(z) \in Nat
        BY <2>2, <2>9, SumOfNaturals
    <2>11. SumFunction(g) >= 1
        BY <2>5, <2>8, <2>10
    <2> QED
        BY <1>5, <1>7, <2>1, <2>3, <2>11
<1>10. CategoryScore(category, group, space, names, occupancy) = Mean(W, L)
    <2>1. CategoryScore(category, group, space, names, occupancy) =
            IF rows = {} THEN 100 ELSE ScoreOver(w, l, rows)
        BY <1>1, <1>3, <1>5, ScoreOfRows
    <2>2. rows # {} => ScoreOver(w, l, rows) = RoundHalfUp(100 * W - L, W)
        BY <1>5, <1>6, <1>7 DEF ScoreOver
    <2>3. rows = {} => W = 0
        BY <1>5, <1>7
    <2> QED
        BY <1>9, <2>1, <2>2, <2>3 DEF Mean
<1>11. Mean(W, L) \in 0..100
    <2>1. CASE W = 0
        BY <2>1 DEF Mean
    <2>2. CASE W # 0
        <3>1. 100 * W - L \in Nat /\ 100 * W - L <= 100 * W /\ W \in Nat \ {0}
            BY <1>8, <2>2
        <3>2. RoundHalfUp(100 * W - L, W) \in 0..100
            BY <3>1, RoundedWithin
        <3> QED
            BY <2>2, <3>2 DEF Mean
    <2> QED
        BY <2>1, <2>2
<1> QED
    BY <1>1, <1>7, <1>10, <1>11

LEMMA ScoresInRange ==
    ASSUME NEW group \in Groups, NEW space \in Spaces, NEW names, NEW occupancy,
           NEW score, score = Generate(group, space, names, occupancy)
    PROVE  /\ DOMAIN score = Categories \cup {"total"}
           /\ \A c \in DOMAIN score : score[c] \in 0..100
           /\ \A c \in Categories : score[c] = CategoryScore(c, group, space, names, occupancy)
<1> DEFINE f == [c \in Categories |->
                    CategoryScore(c, group, space, names, occupancy) * Share[c]]
           total == RoundHalfUp(SumFunction(f), 100)
<1>1. PICK a, b, c, d :
        /\ a = CategoryScore("safety", group, space, names, occupancy)
        /\ b = CategoryScore("activity", group, space, names, occupancy)
        /\ c = CategoryScore("rest", group, space, names, occupancy)
        /\ d = CategoryScore("environment", group, space, names, occupancy)
    OBVIOUS
<1>2. {"safety", "activity", "rest", "environment"} = Categories
    BY DEF Categories
<1>3. a \in 0..100 /\ b \in 0..100 /\ c \in 0..100 /\ d \in 0..100
    BY <1>1, <1>2, CategoryMean
<1>4. score = [total |-> total, safety |-> a, activity |-> b, rest |-> c, environment |-> d]
    BY <1>1 DEF Generate
<1>5. total \in 0..100
    <2>1. PICK p, q, r, s : p = "safety" /\ q = "activity" /\ r = "rest" /\ s = "environment"
        OBVIOUS
    <2>2. /\ f["safety"] = a * 40 /\ f["activity"] = b * 25
          /\ f["rest"] = c * 20 /\ f["environment"] = d * 15
        BY <1>1, <1>2 DEF Share
    <2>3. PICK g : g = f /\ f = Restrict(f, Categories)
        BY DEF Restrict
    <2>4. /\ g[p] = a * 40 /\ g[q] = b * 25 /\ g[r] = c * 20 /\ g[s] = d * 15
          /\ g = Restrict(g, Categories)
        BY <2>1, <2>2, <2>3
    <2>5. FourTerms(Categories, p, q, r, s, g)
        BY <1>2, <1>3, <2>1, <2>4 DEF FourTerms
    <2>6. SumFunction(Restrict(g, Categories)) = g[p] + g[q] + g[r] + g[s]
        BY <2>5, SumOfFour
    <2>7. PICK t : t = SumFunction(f) /\ t = a * 40 + b * 25 + c * 20 + d * 15
        BY <2>3, <2>4, <2>6
    <2>8. t \in Nat /\ t <= 100 * 100
        BY <1>3, <2>7
    <2>9. RoundHalfUp(t, 100) \in 0..100
        <3>1. PICK h \in Nat \ {0} : h = 100
            OBVIOUS
        <3>2. h \in Nat /\ t <= h * h
            BY <2>8, <3>1
        <3>3. RoundHalfUp(t, h) \in 0..h
            BY <2>8, <3>2, RoundedWithin
        <3> QED
            BY <3>1, <3>3
    <2> QED
        BY <2>7, <2>9
<1> HIDE DEF f, total
<1>6. /\ DOMAIN score = {"safety", "activity", "rest", "environment"} \cup {"total"}
      /\ score["safety"] = a /\ score["activity"] = b /\ score["rest"] = c
      /\ score["environment"] = d /\ score["total"] = total
    BY <1>4
<1> QED
    BY <1>1, <1>2, <1>3, <1>5, <1>6



LEMMA PenaltiesSpelledOut ==
    ASSUME NEW names, NEW occupancy, NEW p, p = Penalty(names, occupancy)
    PROVE  /\ p["CABLE_EXPOSURE"] = IF "cable" \in names THEN 100 ELSE 0
           /\ p["STAIRS_RISK"] = IF "stairs" \in names THEN 100 ELSE 0
           /\ p["WINDOW_SAFETY"] = IF "window" \in names THEN 100 ELSE 0
           /\ p["SLIP_RISK"] = IF "carpet" \in names THEN 0 ELSE 50
           /\ p["VERTICAL_SPACE"] = IF "cat_tower" \in names THEN 0 ELSE 100
           /\ p["REST_SPACE"] = IF "pet_bed" \in names THEN 0
                                ELSE IF "sofa" \in names \/ "bed" \in names THEN 40 ELSE 100
           /\ p["FEEDING_ENV"] =
                IF "feeder" \in names /\ "water_dispenser" \in names THEN 0
                ELSE IF "feeder" \in names \/ "water_dispenser" \in names THEN 50 ELSE 100
           /\ p["ACTIVITY_SPACE"] = OccupancyPenalty(occupancy)
<1>1. {"sofa", "bed"} \cap names # {} <=> "sofa" \in names \/ "bed" \in names
    OBVIOUS
<1>2. PICK fed : fed = names \cap {"feeder", "water_dispenser"}
    OBVIOUS
<1>3. /\ fed = {"feeder", "water_dispenser"} <=> "feeder" \in names /\ "water_dispenser" \in names
      /\ fed # {} <=> "feeder" \in names \/ "water_dispenser" \in names
    <2>1. "feeder" \in fed <=> "feeder" \in names
        BY <1>2
    <2>2. "water_dispenser" \in fed <=> "water_dispenser" \in names
        BY <1>2
    <2>3. fed \subseteq {"feeder", "water_dispenser"}
        BY <1>2
    <2> QED
        BY <2>1, <2>2, <2>3
<1>4. PICK activity : activity = OccupancyPenalty(occupancy)
    OBVIOUS
<1> QED
    BY <1>1, <1>2, <1>3, <1>4 DEF Penalty

\* Nothing but the dangers costs less when an object is gone.
LEMMA PenaltiesWithout ==
    ASSUME NEW names, NEW occupancy, NEW x, NEW p, p = Penalty(names, occupancy),
           NEW rest, rest = names \ {x}, NEW q, q = Penalty(rest, occupancy)
    PROVE  /\ \A i \in Measured \ Dangers : p[i] <= q[i]
           /\ x \notin {"cable", "stairs", "window"} => \A i \in Dangers : p[i] = q[i]
           /\ x = "cable" /\ x \in names => p["CABLE_EXPOSURE"] = 100 /\ q["CABLE_EXPOSURE"] = 0
           /\ x = "stairs" /\ x \in names => p["STAIRS_RISK"] = 100 /\ q["STAIRS_RISK"] = 0
           /\ x = "window" /\ x \in names => p["WINDOW_SAFETY"] = 100 /\ q["WINDOW_SAFETY"] = 0
           /\ x # "cable" => p["CABLE_EXPOSURE"] = q["CABLE_EXPOSURE"]
           /\ x # "stairs" => p["STAIRS_RISK"] = q["STAIRS_RISK"]
           /\ x # "window" => p["WINDOW_SAFETY"] = q["WINDOW_SAFETY"]
           /\ x # "carpet" => p["SLIP_RISK"] = q["SLIP_RISK"]
<1>1. \A y : y \in rest <=> y \in names /\ y # x
    OBVIOUS
<1>2. PICK activity : activity = OccupancyPenalty(occupancy) /\ activity \in 0..100
    BY DEF OccupancyPenalty
<1>3. /\ p["CABLE_EXPOSURE"] = IF "cable" \in names THEN 100 ELSE 0
      /\ p["STAIRS_RISK"] = IF "stairs" \in names THEN 100 ELSE 0
      /\ p["WINDOW_SAFETY"] = IF "window" \in names THEN 100 ELSE 0
      /\ p["SLIP_RISK"] = IF "carpet" \in names THEN 0 ELSE 50
      /\ p["VERTICAL_SPACE"] = IF "cat_tower" \in names THEN 0 ELSE 100
      /\ p["REST_SPACE"] = IF "pet_bed" \in names THEN 0
                           ELSE IF "sofa" \in names \/ "bed" \in names THEN 40 ELSE 100
      /\ p["FEEDING_ENV"] =
           IF "feeder" \in names /\ "water_dispenser" \in names THEN 0
           ELSE IF "feeder" \in names \/ "water_dispenser" \in names THEN 50 ELSE 100
      /\ p["ACTIVITY_SPACE"] = activity
    BY <1>2, PenaltiesSpelledOut
<1>4. /\ q["CABLE_EXPOSURE"] = IF "cable" \in rest THEN 100 ELSE 0
      /\ q["STAIRS_RISK"] = IF "stairs" \in rest THEN 100 ELSE 0
      /\ q["WINDOW_SAFETY"] = IF "window" \in rest THEN 100 ELSE 0
      /\ q["SLIP_RISK"] = IF "carpet" \in rest THEN 0 ELSE 50
      /\ q["VERTICAL_SPACE"] = IF "cat_tower" \in rest THEN 0 ELSE 100
      /\ q["REST_SPACE"] = IF "pet_bed" \in rest THEN 0
                           ELSE IF "sofa" \in rest \/ "bed" \in rest THEN 40 ELSE 100
      /\ q["FEEDING_ENV"] =
           IF "feeder" \in rest /\ "water_dispenser" \in rest THEN 0
           ELSE IF "feeder" \in rest \/ "water_dispenser" \in rest THEN 50 ELSE 100
      /\ q["ACTIVITY_SPACE"] = activity
    BY <1>1, <1>2, PenaltiesSpelledOut
<1>5. Measured \ Dangers =
        {"ACTIVITY_SPACE", "SLIP_RISK", "REST_SPACE", "VERTICAL_SPACE", "FEEDING_ENV"}
    BY DEF Measured, Items, CategoryOf, Unmeasurable, Dangers
<1>6. /\ p["SLIP_RISK"] <= q["SLIP_RISK"] /\ p["VERTICAL_SPACE"] <= q["VERTICAL_SPACE"]
      /\ p["ACTIVITY_SPACE"] <= q["ACTIVITY_SPACE"]
    BY <1>1, <1>2, <1>3, <1>4
<1>7. p["REST_SPACE"] <= q["REST_SPACE"]
    BY <1>1, <1>3, <1>4
<1>8. p["FEEDING_ENV"] <= q["FEEDING_ENV"]
    BY <1>1, <1>3, <1>4
<1>9. \A i \in Measured \ Dangers : p[i] <= q[i]
    BY <1>5, <1>6, <1>7, <1>8
<1>10. /\ x # "cable" => p["CABLE_EXPOSURE"] = q["CABLE_EXPOSURE"]
       /\ x # "stairs" => p["STAIRS_RISK"] = q["STAIRS_RISK"]
       /\ x # "window" => p["WINDOW_SAFETY"] = q["WINDOW_SAFETY"]
       /\ x # "carpet" => p["SLIP_RISK"] = q["SLIP_RISK"]
    BY <1>1, <1>3, <1>4
<1>11. /\ x = "cable" /\ x \in names => p["CABLE_EXPOSURE"] = 100 /\ q["CABLE_EXPOSURE"] = 0
       /\ x = "stairs" /\ x \in names => p["STAIRS_RISK"] = 100 /\ q["STAIRS_RISK"] = 0
       /\ x = "window" /\ x \in names => p["WINDOW_SAFETY"] = 100 /\ q["WINDOW_SAFETY"] = 0
    BY <1>1, <1>3, <1>4
<1>12. x \notin {"cable", "stairs", "window"} => \A i \in Dangers : p[i] = q[i]
    BY <1>10 DEF Dangers
<1> QED
    BY <1>9, <1>10, <1>11, <1>12

\* The losses of a room, and of the room without an object, as far as they differ.
LossesDiffer(l, m, x, names) ==
    /\ \A i \in Measured : l[i] \in Nat /\ m[i] \in Nat
    /\ \A i \in Measured \ Dangers : l[i] <= m[i]
    /\ x \notin {"cable", "stairs", "window"} => \A i \in Dangers : l[i] = m[i]
    /\ x \in {"cable", "stairs", "window"} /\ x \in names =>
         /\ l["SLIP_RISK"] = m["SLIP_RISK"]
         /\ \E i \in Dangers : l[i] >= m[i] + 100 /\ \A j \in Dangers \ {i} : l[j] = m[j]

LEMMA LossesWithout ==
    ASSUME NEW group \in Groups, NEW names, NEW occupancy, NEW x,
           NEW rest, rest = names \ {x}, NEW l, l = LossesOf(group, names, occupancy),
           NEW m, m = LossesOf(group, rest, occupancy)
    PROVE  LossesDiffer(l, m, x, names)
<1>1. PICK p, q : p = Penalty(names, occupancy) /\ q = Penalty(rest, occupancy)
    OBVIOUS
<1>2. ASSUME NEW i \in Measured
      PROVE  \E w \in 1..3 : /\ l[i] = w * p[i] /\ m[i] = w * q[i]
                             /\ p[i] \in 0..100 /\ q[i] \in 0..100
    <2>1. PICK w : w = Weight[i][group]
        OBVIOUS
    <2>2. w \in 1..3 /\ p[i] \in 0..100 /\ q[i] \in 0..100
        BY <1>1, <2>1, Weights, Percentages DEF Measured
    <2>3. l[i] = w * p[i] /\ m[i] = w * q[i]
        BY <1>1, <2>1 DEF LossesOf
    <2> QED
        BY <2>2, <2>3
<1>3. ASSUME NEW i \in Measured
      PROVE  /\ l[i] \in Nat /\ m[i] \in Nat
             /\ p[i] <= q[i] => l[i] <= m[i]
             /\ p[i] = q[i] => l[i] = m[i]
             /\ p[i] = 100 /\ q[i] = 0 => l[i] >= m[i] + 100
    <2>1. PICK w \in 1..3 : /\ l[i] = w * p[i] /\ m[i] = w * q[i]
                            /\ p[i] \in 0..100 /\ q[i] \in 0..100
        BY <1>2
    <2>2. PICK a, b : a = p[i] /\ b = q[i]
        OBVIOUS
    <2>3. w = 1 \/ w = 2 \/ w = 3
        BY <2>1
    <2>4. /\ w * a \in Nat /\ w * b \in Nat /\ (a <= b => w * a <= w * b)
          /\ (a = 100 /\ b = 0 => w * a >= w * b + 100)
        <3>1. a \in 0..100 /\ b \in 0..100
            BY <2>1, <2>2
        <3>2. CASE w = 1
            BY <3>1, <3>2
        <3>3. CASE w = 2
            BY <3>1, <3>3
        <3>4. CASE w = 3
            BY <3>1, <3>4
        <3> QED
            BY <2>3, <3>2, <3>3, <3>4
    <2> QED
        BY <2>1, <2>2, <2>4
<1>4. /\ \A i \in Measured \ Dangers : p[i] <= q[i]
      /\ x \notin {"cable", "stairs", "window"} => \A i \in Dangers : p[i] = q[i]
      /\ x = "cable" /\ x \in names => p["CABLE_EXPOSURE"] = 100 /\ q["CABLE_EXPOSURE"] = 0
      /\ x = "stairs" /\ x \in names => p["STAIRS_RISK"] = 100 /\ q["STAIRS_RISK"] = 0
      /\ x = "window" /\ x \in names => p["WINDOW_SAFETY"] = 100 /\ q["WINDOW_SAFETY"] = 0
      /\ x # "cable" => p["CABLE_EXPOSURE"] = q["CABLE_EXPOSURE"]
      /\ x # "stairs" => p["STAIRS_RISK"] = q["STAIRS_RISK"]
      /\ x # "window" => p["WINDOW_SAFETY"] = q["WINDOW_SAFETY"]
      /\ x # "carpet" => p["SLIP_RISK"] = q["SLIP_RISK"]
    BY <1>1, PenaltiesWithout
<1>5. Dangers \subseteq Measured /\ "SLIP_RISK" \in Measured
    BY DEF Measured, Items, CategoryOf, Unmeasurable, Dangers
<1>6. x \notin {"cable", "stairs", "window"} => \A i \in Dangers : l[i] = m[i]
    BY <1>3, <1>4, <1>5
<1>7. ASSUME x \in {"cable", "stairs", "window"}, x \in names
      PROVE  \E i \in Dangers : l[i] >= m[i] + 100 /\ \A j \in Dangers \ {i} : l[j] = m[j]
    <2>1. CASE x = "cable"
        <3>1. /\ l["CABLE_EXPOSURE"] >= m["CABLE_EXPOSURE"] + 100
              /\ l["STAIRS_RISK"] = m["STAIRS_RISK"] /\ l["WINDOW_SAFETY"] = m["WINDOW_SAFETY"]
            BY <1>3, <1>4, <1>5, <1>7, <2>1 DEF Dangers
        <3> QED
            BY <3>1 DEF Dangers
    <2>2. CASE x = "stairs"
        <3>1. /\ l["STAIRS_RISK"] >= m["STAIRS_RISK"] + 100
              /\ l["CABLE_EXPOSURE"] = m["CABLE_EXPOSURE"]
              /\ l["WINDOW_SAFETY"] = m["WINDOW_SAFETY"]
            BY <1>3, <1>4, <1>5, <1>7, <2>2 DEF Dangers
        <3> QED
            BY <3>1 DEF Dangers
    <2>3. CASE x = "window"
        <3>1. /\ l["WINDOW_SAFETY"] >= m["WINDOW_SAFETY"] + 100
              /\ l["CABLE_EXPOSURE"] = m["CABLE_EXPOSURE"] /\ l["STAIRS_RISK"] = m["STAIRS_RISK"]
            BY <1>3, <1>4, <1>5, <1>7, <2>3 DEF Dangers
        <3> QED
            BY <3>1 DEF Dangers
    <2> QED
        BY <1>7, <2>1, <2>2, <2>3
<1>8. x \in {"cable", "stairs", "window"} => l["SLIP_RISK"] = m["SLIP_RISK"]
    BY <1>3, <1>4, <1>5
<1>9. \A i \in Measured : l[i] \in Nat /\ m[i] \in Nat
    BY <1>3
<1>10. \A i \in Measured \ Dangers : l[i] <= m[i]
    BY <1>3, <1>4
<1> QED
    BY <1>6, <1>7, <1>8, <1>9, <1>10 DEF LossesDiffer

\* A category that loses no less has no more of its score; one that loses as much as a danger
\* costs has less.
LEMMA MeansCompared ==
    ASSUME NEW weight \in 0..12, NEW loss \in Nat, NEW more \in Nat,
           loss <= 100 * weight, more <= 100 * weight
    PROVE  /\ loss <= more => Mean(weight, loss) >= Mean(weight, more)
           /\ loss + 100 <= more => Mean(weight, loss) > Mean(weight, more)
<1>1. CASE weight = 0
    BY <1>1 DEF Mean
<1>2. CASE weight # 0
    <2>1. PICK a, b : /\ a = 100 * weight - more /\ b = 100 * weight - loss
                      /\ a \in Nat /\ b \in Nat
        OBVIOUS
    <2>2. weight \in Nat \ {0}
        BY <1>2
    <2>3. Mean(weight, loss) = RoundHalfUp(b, weight) /\ Mean(weight, more) = RoundHalfUp(a, weight)
        BY <1>2, <2>1 DEF Mean
    <2>4. RoundHalfUp(a, weight) \in Nat /\ RoundHalfUp(b, weight) \in Nat
        BY <2>1, <2>2, RoundHalfUpNearest
    <2>5. ASSUME loss <= more
          PROVE  RoundHalfUp(a, weight) <= RoundHalfUp(b, weight)
        <3>1. a <= b
            BY <2>1, <2>5
        <3> QED
            BY <2>1, <2>2, <3>1, RoundingGrows
    <2>6. ASSUME loss + 100 <= more
          PROVE  RoundHalfUp(a, weight) < RoundHalfUp(b, weight)
        <3>1. a <= b /\ a + weight <= b
            BY <2>1, <2>6
        <3> QED
            BY <2>1, <2>2, <3>1, RoundingGrows
    <2> QED
        BY <2>3, <2>4, <2>5, <2>6
<1> QED
    BY <1>1, <1>2

LEMMA TermsCompared ==
    ASSUME NEW space, NEW l, NEW m, \A i \in Measured : l[i] \in Nat /\ m[i] \in Nat,
           \A i \in Measured \ Dangers : l[i] <= m[i]
    PROVE  /\ \A c \in Categories \ {"safety"} : Terms(c, space, l) <= Terms(c, space, m)
           /\ (\A i \in Dangers : l[i] = m[i]) => Terms("safety", space, l) <= Terms("safety", space, m)
           /\ (/\ l["SLIP_RISK"] = m["SLIP_RISK"]
               /\ \E i \in Dangers : l[i] >= m[i] + 100 /\ \A j \in Dangers \ {i} : l[j] = m[j])
                => Terms("safety", space, m) + 100 <= Terms("safety", space, l)
<1>1. {"SLIP_RISK", "ACTIVITY_SPACE", "VERTICAL_SPACE", "REST_SPACE", "FEEDING_ENV"}
        \subseteq Measured \ Dangers
    BY DEF Measured, Items, CategoryOf, Unmeasurable, Dangers
<1>2. {"CABLE_EXPOSURE", "STAIRS_RISK", "WINDOW_SAFETY"} = Dangers /\ Dangers \subseteq Measured
    BY DEF Measured, Items, CategoryOf, Unmeasurable, Dangers
<1>3. ASSUME NEW c \in Categories \ {"safety"}
      PROVE  Terms(c, space, l) <= Terms(c, space, m)
    <2>1. c = "activity" \/ c = "rest" \/ c = "environment"
        BY DEF Categories
    <2>2. CASE c = "activity"
        BY <1>1, <2>2 DEF Terms
    <2>3. CASE c = "rest"
        BY <1>1, <2>3 DEF Terms
    <2>4. CASE c = "environment"
        BY <1>1, <2>4 DEF Terms
    <2> QED
        BY <2>1, <2>2, <2>3, <2>4
<1>4. PICK a, b, c, d :
        /\ a = l["CABLE_EXPOSURE"] /\ b = l["STAIRS_RISK"]
        /\ c = l["WINDOW_SAFETY"] /\ d = l["SLIP_RISK"]
    OBVIOUS
<1>5. PICK p, q, r, s :
        /\ p = m["CABLE_EXPOSURE"] /\ q = m["STAIRS_RISK"]
        /\ r = m["WINDOW_SAFETY"] /\ s = m["SLIP_RISK"]
    OBVIOUS
<1>6. /\ a \in Nat /\ b \in Nat /\ c \in Nat /\ d \in Nat
      /\ p \in Nat /\ q \in Nat /\ r \in Nat /\ s \in Nat /\ d <= s
    BY <1>1, <1>2, <1>4, <1>5
<1>7. /\ Terms("safety", space, l) = a + b + c + (IF IsHome(space) THEN d ELSE 0)
      /\ Terms("safety", space, m) = p + q + r + (IF IsHome(space) THEN s ELSE 0)
    BY <1>4, <1>5 DEF Terms, SafetyTerms
<1>8. ASSUME \A i \in Dangers : l[i] = m[i]
      PROVE  Terms("safety", space, l) <= Terms("safety", space, m)
    <2>1. a = p /\ b = q /\ c = r
        BY <1>2, <1>4, <1>5, <1>8
    <2> QED
        BY <1>6, <1>7, <2>1
<1>9. ASSUME l["SLIP_RISK"] = m["SLIP_RISK"],
             NEW i \in Dangers, l[i] >= m[i] + 100, \A j \in Dangers \ {i} : l[j] = m[j]
      PROVE  Terms("safety", space, m) + 100 <= Terms("safety", space, l)
    <2>1. d = s
        BY <1>4, <1>5, <1>9
    <2>2. \/ a >= p + 100 /\ b = q /\ c = r
          \/ a = p /\ b >= q + 100 /\ c = r
          \/ a = p /\ b = q /\ c >= r + 100
        <3>1. CASE i = "CABLE_EXPOSURE"
            BY <1>2, <1>4, <1>5, <1>9, <3>1
        <3>2. CASE i = "STAIRS_RISK"
            BY <1>2, <1>4, <1>5, <1>9, <3>2
        <3>3. CASE i = "WINDOW_SAFETY"
            BY <1>2, <1>4, <1>5, <1>9, <3>3
        <3> QED
            BY <1>2, <3>1, <3>2, <3>3
    <2> QED
        BY <1>6, <1>7, <2>1, <2>2
<1> QED
    BY <1>3, <1>8, <1>9

\* What taking an object out of a room does to its scores.
LEMMA ScoresWithout ==
    ASSUME NEW group \in Groups, NEW space \in Spaces, NEW names, NEW occupancy, NEW x,
           NEW with, with = Generate(group, space, names, occupancy),
           NEW rest, rest = names \ {x},
           NEW without, without = Generate(group, space, rest, occupancy)
    PROVE  /\ \A c \in Categories : with[c] \in 0..100 /\ without[c] \in 0..100
           /\ \A c \in Categories \ {"safety"} : with[c] >= without[c]
           /\ x \notin {"cable", "stairs", "window"} => with["safety"] >= without["safety"]
           /\ x \in {"cable", "stairs", "window"} /\ x \in names =>
                with["safety"] < without["safety"]
<1>1. PICK w, l, m : /\ w = WeightsOf(group) /\ l = LossesOf(group, names, occupancy)
                     /\ m = LossesOf(group, rest, occupancy)
    OBVIOUS
<1>3. /\ \A i \in Measured : w[i] \in 1..3 /\ l[i] \in Nat /\ l[i] <= 100 * w[i]
      /\ \A i \in Measured : w[i] \in 1..3 /\ m[i] \in Nat /\ m[i] <= 100 * w[i]
    BY <1>1, WeightsAndLosses
<1>4. ASSUME NEW c \in Categories
      PROVE  /\ Terms(c, space, w) \in 0..12
             /\ Terms(c, space, l) \in Nat /\ Terms(c, space, l) <= 100 * Terms(c, space, w)
             /\ Terms(c, space, m) \in Nat /\ Terms(c, space, m) <= 100 * Terms(c, space, w)
             /\ with[c] = Mean(Terms(c, space, w), Terms(c, space, l))
             /\ without[c] = Mean(Terms(c, space, w), Terms(c, space, m))
    <2>1. /\ Terms(c, space, w) \in 0..12
          /\ Terms(c, space, l) \in Nat /\ Terms(c, space, l) <= 100 * Terms(c, space, w)
        BY <1>3, TermsBounded
    <2>2. Terms(c, space, m) \in Nat /\ Terms(c, space, m) <= 100 * Terms(c, space, w)
        BY <1>3, TermsBounded
    <2>3. with[c] = CategoryScore(c, group, space, names, occupancy)
        BY ScoresInRange
    <2>4. without[c] = CategoryScore(c, group, space, rest, occupancy)
        BY ScoresInRange
    <2>5. CategoryScore(c, group, space, names, occupancy) =
            Mean(Terms(c, space, w), Terms(c, space, l))
        BY <1>1, CategoryMean
    <2>6. CategoryScore(c, group, space, rest, occupancy) =
            Mean(Terms(c, space, w), Terms(c, space, m))
        BY <1>1, CategoryMean
    <2> QED
        BY <2>1, <2>2, <2>3, <2>4, <2>5, <2>6
<1>5. ASSUME NEW c \in Categories
      PROVE  /\ Terms(c, space, l) <= Terms(c, space, m) => with[c] >= without[c]
             /\ Terms(c, space, m) + 100 <= Terms(c, space, l) => with[c] < without[c]
    <2>1. PICK W, L, M : /\ W = Terms(c, space, w) /\ L = Terms(c, space, l)
                         /\ M = Terms(c, space, m)
        OBVIOUS
    <2>2. /\ W \in 0..12 /\ L \in Nat /\ M \in Nat /\ L <= 100 * W /\ M <= 100 * W
          /\ with[c] = Mean(W, L) /\ without[c] = Mean(W, M)
        BY <1>4, <2>1
    <2>3. L <= M => Mean(W, L) >= Mean(W, M)
        BY <2>2, MeansCompared
    <2>4. M + 100 <= L => Mean(W, M) > Mean(W, L)
        BY <2>2, MeansCompared
    <2>5. Mean(W, M) \in 0..100 /\ Mean(W, L) \in 0..100
        <3>1. with[c] \in 0..100 /\ without[c] \in 0..100
            BY ScoresInRange
        <3> QED
            BY <2>2, <3>1
    <2> QED
        BY <2>1, <2>2, <2>3, <2>4, <2>5
<1>6. /\ \A i \in Measured : l[i] \in Nat /\ m[i] \in Nat
      /\ \A i \in Measured \ Dangers : l[i] <= m[i]
      /\ x \notin {"cable", "stairs", "window"} => \A i \in Dangers : l[i] = m[i]
      /\ x \in {"cable", "stairs", "window"} /\ x \in names =>
            /\ l["SLIP_RISK"] = m["SLIP_RISK"]
            /\ \E i \in Dangers : l[i] >= m[i] + 100 /\ \A j \in Dangers \ {i} : l[j] = m[j]
    <2>1. LossesDiffer(l, m, x, names)
        BY <1>1, LossesWithout
    <2> QED
        BY <2>1 DEF LossesDiffer
<1>7. \A c \in Categories \ {"safety"} : Terms(c, space, l) <= Terms(c, space, m)
    BY <1>6, TermsCompared
<1>8. x \notin {"cable", "stairs", "window"} =>
        Terms("safety", space, l) <= Terms("safety", space, m)
    BY <1>6, TermsCompared
<1>9. x \in {"cable", "stairs", "window"} /\ x \in names =>
        Terms("safety", space, m) + 100 <= Terms("safety", space, l)
    BY <1>6, TermsCompared
<1>10. "safety" \in Categories
    BY DEF Categories
<1>11. \A c \in Categories : with[c] \in 0..100 /\ without[c] \in 0..100
    BY ScoresInRange
<1> QED
    BY <1>5, <1>7, <1>8, <1>9, <1>10, <1>11

-----------------------------------------------------------------------------
(* The edges of boxes cut a side of the frame into strips: a number lies   *)
(* in one strip, and a box reaches over the whole of a strip or over none. *)
IsCut(c, n, T) == n \in Nat /\ T \subseteq Int /\ InOrder(c, n, T)

InStrip(p, c, i) == c[i] <= p /\ p < c[i + 1]

LEMMA CutNumbers ==
    ASSUME NEW c, NEW n, NEW T, IsCut(c, n, T)
    PROVE  /\ n \in Nat /\ \A k \in 1..n : c[k] \in Int /\ c[k] \in T
           /\ \A j, k \in 1..n : (j < k => c[j] < c[k]) /\ (j <= k => c[j] <= c[k])
           /\ \A e \in T : e \in Int /\ \E k \in 1..n : c[k] = e
<1>1. n \in Nat /\ \A k \in 1..n : c[k] \in Int /\ c[k] \in T
    BY DEF IsCut, InOrder
<1>2. \A j, k \in 1..n : j < k => c[j] < c[k]
    BY DEF IsCut, InOrder
<1>3. ASSUME NEW j \in 1..n, NEW k \in 1..n, j <= k PROVE c[j] <= c[k]
    <2>1. j < k \/ j = k
        BY <1>1, <1>3
    <2> QED
        BY <1>1, <1>2, <2>1
<1>4. \A e \in T : e \in Int /\ \E k \in 1..n : c[k] = e
    BY DEF IsCut, InOrder
<1> QED
    BY <1>1, <1>2, <1>3, <1>4

LEMMA StripOfNumber ==
    ASSUME NEW c, NEW n, NEW T, IsCut(c, n, T), NEW p \in Int, NEW lo \in T, NEW hi \in T,
           lo <= p, p < hi
    PROVE  \E i \in 1..(n - 1) : InStrip(p, c, i)
<1>1. n \in Nat /\ \A k \in 1..n : c[k] \in Int
    BY CutNumbers
<1> DEFINE S == {k \in 1..n : p < c[k]}
<1>2. S \in SUBSET Nat /\ S # {}
    <2>1. PICK k \in 1..n : c[k] = hi
        BY CutNumbers
    <2>2. k \in S
        BY <2>1
    <2> QED
        BY <2>2
<1>3. PICK k \in S : \A j \in S : k <= j
    <2> HIDE DEF S
    <2> QED
        BY <1>2, LeastNatural
<1>4. k # 1
    <2> SUFFICES ASSUME k = 1 PROVE FALSE
        OBVIOUS
    <2>1. PICK a \in 1..n : c[a] = lo
        BY CutNumbers
    <2>2. 1 \in 1..n /\ 1 <= a
        BY <1>3
    <2>3. c[1] <= c[a]
        BY <2>1, <2>2, CutNumbers
    <2>4. p < c[1] /\ c[1] \in Int /\ c[a] \in Int
        BY <1>1, <1>3, <2>2
    <2> QED
        BY <2>1, <2>3, <2>4
<1>5. PICK i : i = k - 1 /\ i \in 1..(n - 1) /\ i \in 1..n /\ i + 1 = k /\ ~(k <= i)
    BY <1>1, <1>3, <1>4
<1>6. i \notin S
    BY <1>3, <1>5
<1>7. c[i] <= p /\ p < c[i + 1]
    BY <1>1, <1>3, <1>5, <1>6
<1> QED
    BY <1>5, <1>7 DEF InStrip

LEMMA OneStrip ==
    ASSUME NEW c, NEW n, NEW T, IsCut(c, n, T), NEW p \in Int,
           NEW i \in 1..(n - 1), NEW j \in 1..(n - 1), InStrip(p, c, i), InStrip(p, c, j)
    PROVE  i = j
<1>1. n \in Nat /\ \A k \in 1..n : c[k] \in Int
    BY CutNumbers
<1>2. ASSUME NEW a \in 1..(n - 1), NEW b \in 1..(n - 1), InStrip(p, c, a), InStrip(p, c, b), a < b
      PROVE  FALSE
    <2>1. a + 1 \in 1..n /\ b \in 1..n /\ a + 1 <= b
        BY <1>1, <1>2
    <2>2. c[a + 1] <= c[b]
        BY <2>1, CutNumbers
    <2>3. p < c[a + 1] /\ c[b] <= p
        BY <1>2 DEF InStrip
    <2>4. c[a + 1] \in Int /\ c[b] \in Int
        BY <1>1, <2>1
    <2> QED
        BY <2>2, <2>3, <2>4
<1> QED
    BY <1>1, <1>2

LEMMA StripCovered ==
    ASSUME NEW c, NEW n, NEW T, IsCut(c, n, T), NEW p \in Int, NEW i \in 1..(n - 1),
           InStrip(p, c, i), NEW lo \in T, NEW hi \in T
    PROVE  2 * lo <= c[i] + c[i + 1] /\ c[i] + c[i + 1] < 2 * hi <=> lo <= p /\ p < hi
<1>1. n \in Nat /\ i \in 1..n /\ i + 1 \in 1..n
    BY CutNumbers
<1>2. PICK a, b : a = c[i] /\ b = c[i + 1]
    OBVIOUS
<1>3. a \in Int /\ b \in Int /\ a <= p /\ p < b
    BY <1>1, <1>2, CutNumbers DEF InStrip
<1>4. ASSUME NEW e \in T PROVE e \in Int /\ (e <= a \/ b <= e)
    <2>1. e \in Int
        BY CutNumbers
    <2>2. PICK k \in 1..n : c[k] = e
        BY CutNumbers
    <2>3. CASE k <= i
        <3>1. c[k] <= c[i]
            BY <1>1, <2>3, CutNumbers
        <3> QED
            BY <1>2, <2>1, <2>2, <3>1
    <2>4. CASE i + 1 <= k
        <3>1. c[i + 1] <= c[k]
            BY <1>1, <2>4, CutNumbers
        <3> QED
            BY <1>2, <2>1, <2>2, <3>1
    <2> QED
        BY <1>1, <2>3, <2>4
<1>5. lo \in Int /\ hi \in Int /\ (lo <= a \/ b <= lo) /\ (hi <= a \/ b <= hi)
    BY <1>4
<1>6. 2 * lo <= a + b /\ a + b < 2 * hi <=> lo <= p /\ p < hi
    BY <1>3, <1>5
<1> QED
    BY <1>2, <1>6

Strip(c, i) == c[i]..(c[i + 1] - 1)

LEMMA StripIsInterval ==
    ASSUME NEW c, NEW n, NEW T, IsCut(c, n, T), NEW i \in 1..(n - 1)
    PROVE  /\ IsFiniteSet(Strip(c, i)) /\ Cardinality(Strip(c, i)) = c[i + 1] - c[i]
           /\ c[i + 1] - c[i] \in Nat /\ \A p : p \in Strip(c, i) <=> p \in Int /\ InStrip(p, c, i)
<1>1. n \in Nat /\ i \in 1..n /\ i + 1 \in 1..n /\ i < i + 1
    BY CutNumbers
<1>2. PICK a, b : a = c[i] /\ b = c[i + 1]
    OBVIOUS
<1>3. a \in Int /\ b \in Int /\ a < b
    BY <1>1, <1>2, CutNumbers
<1>4. IsFiniteSet(a..(b - 1)) /\ Cardinality(a..(b - 1)) = b - a /\ b - a \in Nat
    <2>1. b - 1 \in Int /\ ~(a > b - 1) /\ (b - 1) - a + 1 = b - a
        BY <1>3
    <2>2. Cardinality(a..(b - 1)) = IF a > b - 1 THEN 0 ELSE (b - 1) - a + 1
        BY <1>3, <2>1, FS_Interval
    <2>3. IsFiniteSet(a..(b - 1))
        BY <1>3, <2>1, FS_Interval
    <2> QED
        BY <1>3, <2>1, <2>2, <2>3
<1>5. \A p : p \in a..(b - 1) <=> p \in Int /\ a <= p /\ p < b
    BY <1>3
<1> QED
    BY <1>2, <1>4, <1>5 DEF Strip, InStrip

(* The cells between the edges of the columns and of the lines.            *)
Block(xs, ys, c) == Strip(xs, c[1]) \X Strip(ys, c[2])

Size(xs, ys, c) == (xs[c[1] + 1] - xs[c[1]]) * (ys[c[2] + 1] - ys[c[2]])

Together(xs, ys, s) == UNION {Block(xs, ys, c) : c \in s}

AreCells(C, xs, ys) ==
    \E m, n, S, T : /\ IsCut(xs, m, S) /\ IsCut(ys, n, T)
                    /\ C \subseteq (1..(m - 1)) \X (1..(n - 1))

LEMMA CellsApart ==
    ASSUME NEW C, NEW xs, NEW ys, AreCells(C, xs, ys)
    PROVE  /\ IsFiniteSet(C)
           /\ \A c \in C : /\ IsFiniteSet(Block(xs, ys, c))
                           /\ Cardinality(Block(xs, ys, c)) = Size(xs, ys, c)
                           /\ Size(xs, ys, c) \in Nat
           /\ \A c, d \in C : c # d => Block(xs, ys, c) \cap Block(xs, ys, d) = {}
<1>1. PICK m, n, S, T : /\ IsCut(xs, m, S) /\ IsCut(ys, n, T)
                        /\ C \subseteq (1..(m - 1)) \X (1..(n - 1))
    BY DEF AreCells
<1>2. IsFiniteSet(C)
    <2>1. m \in Nat /\ n \in Nat
        BY <1>1, CutNumbers
    <2>2. IsFiniteSet(1..(m - 1)) /\ IsFiniteSet(1..(n - 1))
        BY <2>1, FS_Interval
    <2>3. IsFiniteSet((1..(m - 1)) \X (1..(n - 1)))
        BY <2>2, FS_Product
    <2> QED
        BY <1>1, <2>3, FS_Subset
<1>3. \A c \in C : c[1] \in 1..(m - 1) /\ c[2] \in 1..(n - 1) /\ c = <<c[1], c[2]>>
    BY <1>1
<1>4. ASSUME NEW c \in C
      PROVE  /\ IsFiniteSet(Block(xs, ys, c)) /\ Cardinality(Block(xs, ys, c)) = Size(xs, ys, c)
             /\ Size(xs, ys, c) \in Nat
    <2>1. PICK i \in 1..(m - 1), j \in 1..(n - 1) : i = c[1] /\ j = c[2]
        BY <1>3
    <2>2. PICK A, B : A = Strip(xs, i) /\ B = Strip(ys, j)
        OBVIOUS
    <2>3. PICK a \in Nat, b \in Nat : a = xs[i + 1] - xs[i] /\ b = ys[j + 1] - ys[j]
        BY <1>1, StripIsInterval
    <2>4. IsFiniteSet(A) /\ Cardinality(A) = a
        BY <1>1, <2>2, <2>3, StripIsInterval
    <2>5. IsFiniteSet(B) /\ Cardinality(B) = b
        BY <1>1, <2>2, <2>3, StripIsInterval
    <2>6. IsFiniteSet(A \X B) /\ Cardinality(A \X B) = Cardinality(A) * Cardinality(B)
        BY <2>4, <2>5, FS_Product
    <2>7. a * b \in Nat
        OBVIOUS
    <2>8. Block(xs, ys, c) = A \X B
        BY <2>1, <2>2 DEF Block
    <2>9. Size(xs, ys, c) = a * b
        BY <2>1, <2>3 DEF Size
    <2> QED
        BY <2>4, <2>5, <2>6, <2>7, <2>8, <2>9
<1>5. ASSUME NEW c \in C, NEW d \in C, NEW p, p \in Block(xs, ys, c), p \in Block(xs, ys, d)
      PROVE  c = d
    <2>1. PICK x, y : x = p[1] /\ y = p[2]
        OBVIOUS
    <2>2. /\ x \in Strip(xs, c[1]) /\ x \in Strip(xs, d[1])
          /\ y \in Strip(ys, c[2]) /\ y \in Strip(ys, d[2])
        BY <1>5, <2>1 DEF Block
    <2>3. x \in Int /\ InStrip(x, xs, c[1]) /\ InStrip(x, xs, d[1])
        BY <1>1, <1>3, <2>2, StripIsInterval
    <2>4. y \in Int /\ InStrip(y, ys, c[2]) /\ InStrip(y, ys, d[2])
        BY <1>1, <1>3, <2>2, StripIsInterval
    <2>5. c[1] = d[1]
        BY <1>1, <1>3, <2>3, OneStrip
    <2>6. c[2] = d[2]
        BY <1>1, <1>3, <2>4, OneStrip
    <2> QED
        BY <1>3, <2>5, <2>6
<1> QED
    BY <1>2, <1>4, <1>5

(* The sum of the sizes of cells is the number of units in them.           *)
LEMMA CellsTogether ==
    ASSUME NEW C, NEW xs, NEW ys, AreCells(C, xs, ys), NEW f,
           f = [c \in C |-> Size(xs, ys, c)]
    PROVE  SumFunction(f) = Cardinality(Together(xs, ys, C))
<1>1. /\ IsFiniteSet(C)
      /\ \A c \in C : /\ IsFiniteSet(Block(xs, ys, c))
                      /\ Cardinality(Block(xs, ys, c)) = Size(xs, ys, c)
                      /\ Size(xs, ys, c) \in Nat
      /\ \A c, d \in C : c # d => Block(xs, ys, c) \cap Block(xs, ys, d) = {}
    BY CellsApart
<1>2. f \in [C -> Int] /\ \A c \in C : f[c] = Size(xs, ys, c)
    BY <1>1
<1> DEFINE F == [s \in SUBSET C |-> Cardinality(Together(xs, ys, s))]
           P == {s \in SUBSET C : IsFiniteSet(Together(xs, ys, s))}
<1>3. Together(xs, ys, {}) = {}
    BY DEF Together
<1>4. ASSUME NEW s \in SUBSET C, NEW x \in s
      PROVE  /\ Together(xs, ys, s) = Block(xs, ys, x) \cup Together(xs, ys, s \ {x})
             /\ Block(xs, ys, x) \cap Together(xs, ys, s \ {x}) = {}
    <2>1. Together(xs, ys, s) = Block(xs, ys, x) \cup Together(xs, ys, s \ {x})
        BY DEF Together
    <2>2. \A c \in s \ {x} : Block(xs, ys, x) \cap Block(xs, ys, c) = {}
        BY <1>1
    <2> QED
        BY <2>1, <2>2 DEF Together
<1>5. ASSUME NEW s \in SUBSET C PROVE IsFiniteSet(Together(xs, ys, s))
    <2>1. {} \in P
        BY <1>3, FS_EmptySet
    <2>2. ASSUME NEW t \in SUBSET C, NEW x \in t, t \ {x} \in P PROVE t \in P
        <3>1. IsFiniteSet(Block(xs, ys, x)) /\ IsFiniteSet(Together(xs, ys, t \ {x}))
            BY <1>1, <2>2
        <3>2. IsFiniteSet(Block(xs, ys, x) \cup Together(xs, ys, t \ {x}))
            BY <3>1, FS_Union
        <3> QED
            BY <1>4, <3>2
    <2> HIDE DEF P
    <2>3. \A t \in SUBSET C : t \in P
        BY <1>1, <2>1, <2>2, SubsetInduction
    <2> QED
        BY <2>3 DEF P
<1>6. ASSUME NEW s \in SUBSET C, NEW x \in s PROVE F[s] = f[x] + F[s \ {x}]
    <2>1. s \ {x} \in SUBSET C /\ x \in C
        OBVIOUS
    <2>2. PICK A, B : A = Block(xs, ys, x) /\ B = Together(xs, ys, s \ {x})
        OBVIOUS
    <2>3. IsFiniteSet(A) /\ IsFiniteSet(B) /\ A \cap B = {} /\ Together(xs, ys, s) = A \cup B
        BY <1>1, <1>4, <1>5, <2>1, <2>2
    <2>4. Cardinality(A \cup B) = Cardinality(A) + Cardinality(B)
        <3>1. Cardinality(A \cup B) = Cardinality(A) + Cardinality(B) - Cardinality(A \cap B)
            BY <2>3, FS_Union
        <3>2. Cardinality(A) \in Nat /\ Cardinality(B) \in Nat
            BY <2>3, FS_CardinalityType
        <3>3. Cardinality(A \cap B) = 0
            BY <2>3, FS_EmptySet
        <3> QED
            BY <3>1, <3>2, <3>3
    <2>5. f[x] = Cardinality(A)
        BY <1>1, <1>2, <2>1, <2>2
    <2>6. F[s] = Cardinality(A \cup B) /\ F[s \ {x}] = Cardinality(B)
        BY <2>1, <2>2, <2>3
    <2> HIDE DEF F
    <2> QED
        BY <2>4, <2>5, <2>6
<1>7. F[{}] = 0
    BY <1>3, FS_EmptySet
<1>8. F \in [SUBSET C -> Int]
    <2>1. \A s \in SUBSET C : Cardinality(Together(xs, ys, s)) \in Int
        BY <1>5, FS_CardinalityType
    <2> QED
        BY <2>1
<1>9. F[C] = Cardinality(Together(xs, ys, C))
    OBVIOUS
<1> HIDE DEF F
<1>10. Sums(F, f, C)
    BY <1>6, <1>7, <1>8 DEF Sums
<1>11. SumFunctionOnSet(f, C) = F[C]
    BY <1>1, <1>2, <1>10, SumIsFold
<1>12. SumFunction(f) = SumFunctionOnSet(f, C)
    <2>1. DOMAIN f = C
        BY <1>2
    <2> QED
        BY <2>1, Zenon DEF SumFunction
<1> QED
    BY <1>9, <1>11, <1>12

\* Boxes in the frame, flat ones among them.
BoxesInFrame ==
    {b \in [x : Frame, y : Frame, width : Frame, height : Frame] :
        Right(b) <= Grid /\ Bottom(b) <= Grid}

Edges(boxes, edges) ==
    LET solid == {b \in boxes : b.width > 0 /\ b.height > 0}
    IN IF edges = "columns" THEN {b.x : b \in solid} \cup {Right(b) : b \in solid}
       ELSE {b.y : b \in solid} \cup {Bottom(b) : b \in solid}

LEMMA EdgesCut ==
    ASSUME NEW boxes, boxes \subseteq BoxesInFrame, NEW edges
    PROVE  /\ IsCut(Ascending(Edges(boxes, edges)), Cardinality(Edges(boxes, edges)),
                    Edges(boxes, edges))
           /\ Len(Ascending(Edges(boxes, edges))) = Cardinality(Edges(boxes, edges))
<1>1. PICK E : E = Edges(boxes, edges)
    OBVIOUS
<1>2. E \subseteq 0..Grid
    BY <1>1, GridAssumption DEF Edges, BoxesInFrame, Frame, Right, Bottom
<1>3. IsFiniteSet(E) /\ E \subseteq Int
    <2>1. IsFiniteSet(0..Grid) /\ 0..Grid \subseteq Int
        BY GridAssumption, FS_Interval
    <2>2. IsFiniteSet(E)
        BY <1>2, <2>1, FS_Subset
    <2> QED
        BY <1>2, <2>1, <2>2
<1>4. PICK m, c : m \in Nat /\ m = Cardinality(E) /\ c = Ascending(E) /\ InOrder(c, m, E)
    BY <1>3, AscendingNumbers
<1>5. IsCut(c, m, E)
    BY <1>3, <1>4 DEF IsCut
<1>6. Len(c) = m
    <2>1. c \in [1..m -> E]
        BY <1>4 DEF InOrder
    <2> QED
        BY <1>4, <2>1, FunctionList
<1> QED
    BY <1>1, <1>4, <1>5, <1>6

(* union_area is the number of units that a box covers, whatever boxes     *)
(* there are in the frame.                                                 *)
THEOREM UnionCountsUnits ==
    ASSUME NEW boxes, boxes \subseteq BoxesInFrame
    PROVE  UnionArea(boxes) = Cardinality(CoveredUnits(boxes))
<1> DEFINE solid == {b \in boxes : b.width > 0 /\ b.height > 0}
           columns == {b.x : b \in solid} \cup {Right(b) : b \in solid}
           lines == {b.y : b \in solid} \cup {Bottom(b) : b \in solid}
           xs == Ascending(columns)
           ys == Ascending(lines)
           cells == {c \in (1..(Len(xs) - 1)) \X (1..(Len(ys) - 1)) :
                        \E b \in solid : Covers(b, xs[c[1]] + xs[c[1] + 1], ys[c[2]] + ys[c[2] + 1])}
           f == [c \in cells |-> (xs[c[1] + 1] - xs[c[1]]) * (ys[c[2] + 1] - ys[c[2]])]
<1>1. UnionArea(boxes) = IF solid = {} THEN 0 ELSE SumFunction(f)
    BY Zenon DEF UnionArea
<1>2. PICK m, S : IsCut(xs, m, S) /\ Len(xs) = m /\ S = columns
    <2>1. Edges(boxes, "columns") = columns
        BY DEF Edges
    <2> HIDE DEF columns
    <2> QED
        BY <2>1, EdgesCut
<1>3. PICK n, T : IsCut(ys, n, T) /\ Len(ys) = n /\ T = lines
    <2>1. Edges(boxes, "lines") = lines
        BY DEF Edges
    <2> HIDE DEF lines
    <2> QED
        BY <2>1, EdgesCut
<1>4. \A b \in solid : /\ b.x \in S /\ Right(b) \in S /\ b.y \in T /\ Bottom(b) \in T
                       /\ b \in boxes /\ b \in BoxesInFrame
    BY <1>2, <1>3
<1> HIDE DEF xs, ys
<1>5. \A c : c \in cells <=> /\ c \in (1..(m - 1)) \X (1..(n - 1))
                             /\ \E b \in solid : Covers(b, xs[c[1]] + xs[c[1] + 1],
                                                        ys[c[2]] + ys[c[2] + 1])
    BY <1>2, <1>3
<1>6. f = [c \in cells |-> Size(xs, ys, c)]
    BY DEF Size
<1> HIDE DEF cells, f
<1>7. AreCells(cells, xs, ys)
    BY <1>2, <1>3, <1>5 DEF AreCells
<1>8. SumFunction(f) = Cardinality(Together(xs, ys, cells))
    BY <1>6, <1>7, CellsTogether
<1>9. PICK U : U = CoveredUnits(boxes)
    OBVIOUS
<1>10. ASSUME NEW p
       PROVE  p \in U <=> /\ p = <<p[1], p[2]>> /\ p[1] \in Int /\ p[2] \in Int
                          /\ \E b \in solid : /\ b.x <= p[1] /\ p[1] < Right(b)
                                              /\ b.y <= p[2] /\ p[2] < Bottom(b)
    <2>1. ASSUME p \in U
          PROVE  /\ p = <<p[1], p[2]>> /\ p[1] \in Int /\ p[2] \in Int
                 /\ \E b \in solid : /\ b.x <= p[1] /\ p[1] < Right(b)
                                     /\ b.y <= p[2] /\ p[2] < Bottom(b)
        <3>1. p = <<p[1], p[2]>> /\ p[1] \in Int /\ p[2] \in Int
            BY <1>9, <2>1 DEF CoveredUnits
        <3>2. PICK b \in boxes : /\ b.x <= p[1] /\ p[1] < Right(b)
                                 /\ b.y <= p[2] /\ p[2] < Bottom(b)
            BY <1>9, <2>1 DEF CoveredUnits
        <3>3. b.x \in Int /\ b.y \in Int /\ b.width \in Int /\ b.height \in Int
            BY GridAssumption DEF BoxesInFrame, Frame
        <3>4. b.width > 0 /\ b.height > 0
            BY <3>1, <3>2, <3>3 DEF Right, Bottom
        <3> QED
            BY <3>1, <3>2, <3>4
    <2>2. ASSUME p = <<p[1], p[2]>>, p[1] \in Int, p[2] \in Int,
                 NEW b \in solid, b.x <= p[1], p[1] < Right(b), b.y <= p[2], p[2] < Bottom(b)
          PROVE  p \in U
        <3>1. b.x \in Nat /\ b.y \in Nat /\ Right(b) \in Int /\ Bottom(b) \in Int
              /\ Right(b) <= Grid /\ Bottom(b) <= Grid
            BY <1>4, GridAssumption DEF BoxesInFrame, Frame, Right, Bottom
        <3>2. p[1] \in 0..(Grid - 1) /\ p[2] \in 0..(Grid - 1)
            BY <2>2, <3>1, GridAssumption
        <3>3. p \in (0..(Grid - 1)) \X (0..(Grid - 1))
            BY <2>2, <3>2
        <3>4. b \in boxes
            BY <1>4
        <3> QED
            BY <1>9, <2>2, <3>3, <3>4 DEF CoveredUnits
    <2> QED
        BY <2>1, <2>2
<1>11. ASSUME NEW x \in Int, NEW y \in Int, NEW i \in 1..(m - 1), NEW j \in 1..(n - 1),
              InStrip(x, xs, i), InStrip(y, ys, j), NEW b \in solid
       PROVE  Covers(b, xs[i] + xs[i + 1], ys[j] + ys[j + 1]) <=>
                    b.x <= x /\ x < Right(b) /\ b.y <= y /\ y < Bottom(b)
    <2>1. b.x \in S /\ Right(b) \in S /\ b.y \in T /\ Bottom(b) \in T
        BY <1>4
    <2>2. IsCut(xs, m, S) /\ InStrip(x, xs, i) /\ IsCut(ys, n, T) /\ InStrip(y, ys, j)
        BY <1>2, <1>3, <1>11
    <2>3. PICK left \in S, right \in S, top \in T, bottom \in T :
            left = b.x /\ right = Right(b) /\ top = b.y /\ bottom = Bottom(b)
        BY <2>1
    <2> HIDE DEF solid, columns, lines, xs, ys
    <2>4. 2 * left <= xs[i] + xs[i + 1] /\ xs[i] + xs[i + 1] < 2 * right <=>
            left <= x /\ x < right
        BY <2>2, StripCovered
    <2>5. 2 * top <= ys[j] + ys[j + 1] /\ ys[j] + ys[j + 1] < 2 * bottom <=>
            top <= y /\ y < bottom
        BY <2>2, StripCovered
    <2> QED
        BY <2>3, <2>4, <2>5 DEF Covers
<1>12. ASSUME NEW p \in Together(xs, ys, cells) PROVE p \in U
    <2>1. PICK c \in cells : p \in Block(xs, ys, c)
        BY DEF Together
    <2>2. PICK i \in 1..(m - 1), j \in 1..(n - 1) : i = c[1] /\ j = c[2]
        BY <1>5
    <2>3. PICK x, y : p = <<x, y>> /\ x \in Strip(xs, i) /\ y \in Strip(ys, j)
        BY <2>1, <2>2 DEF Block
    <2>4. x \in Int /\ InStrip(x, xs, i) /\ y \in Int /\ InStrip(y, ys, j)
        BY <1>2, <1>3, <2>3, StripIsInterval
    <2>5. PICK b \in solid : Covers(b, xs[i] + xs[i + 1], ys[j] + ys[j + 1])
        BY <1>5, <2>2
    <2>6. b.x <= x /\ x < Right(b) /\ b.y <= y /\ y < Bottom(b)
        BY <1>11, <2>4, <2>5
    <2>7. p[1] = x /\ p[2] = y
        BY <2>3
    <2> QED
        BY <1>10, <2>3, <2>4, <2>6, <2>7
<1>13. ASSUME NEW p \in U PROVE p \in Together(xs, ys, cells)
    <2>1. PICK x \in Int, y \in Int, b \in solid :
            /\ p = <<x, y>> /\ b.x <= x /\ x < Right(b) /\ b.y <= y /\ y < Bottom(b)
        BY <1>10
    <2>2. b.x \in S /\ Right(b) \in S /\ b.y \in T /\ Bottom(b) \in T
        BY <1>4
    <2>3. PICK i \in 1..(m - 1) : InStrip(x, xs, i)
        BY <1>2, <2>1, <2>2, StripOfNumber
    <2>4. PICK j \in 1..(n - 1) : InStrip(y, ys, j)
        BY <1>3, <2>1, <2>2, StripOfNumber
    <2>5. Covers(b, xs[i] + xs[i + 1], ys[j] + ys[j + 1])
        BY <1>11, <2>1, <2>3, <2>4
    <2>6. PICK c : c = <<i, j>> /\ c[1] = i /\ c[2] = j
        <3>1. <<i, j>>[1] = i /\ <<i, j>>[2] = j
            OBVIOUS
        <3> QED
            BY <3>1, Zenon
    <2>7. c \in cells
        BY <1>5, <2>5, <2>6
    <2>8. x \in Strip(xs, i) /\ y \in Strip(ys, j)
        BY <1>2, <1>3, <2>3, <2>4, StripIsInterval
    <2>9. p \in Block(xs, ys, c)
        BY <2>1, <2>6, <2>8 DEF Block
    <2> QED
        BY <2>7, <2>9 DEF Together
<1>14. Together(xs, ys, cells) = U
    BY <1>12, <1>13
<1>15. CASE solid = {}
    <2>1. U = {}
        BY <1>10, <1>15
    <2> QED
        BY <1>1, <1>9, <1>15, <2>1, FS_EmptySet
<1>16. CASE solid # {}
    BY <1>1, <1>8, <1>9, <1>14, <1>16
<1> QED
    BY <1>15, <1>16

LEMMA UnionWithinFrame ==
    ASSUME NEW boxes, boxes \subseteq BoxesInFrame
    PROVE  UnionArea(boxes) \in 0..(Grid * Grid)
<1>1. PICK U, A : U = CoveredUnits(boxes) /\ A = 0..(Grid - 1)
    OBVIOUS
<1>2. U \subseteq A \X A
    BY <1>1 DEF CoveredUnits
<1>3. IsFiniteSet(A) /\ Cardinality(A) = Grid
    <2>1. Grid \in Int /\ Grid - 1 \in Int /\ ~(0 > Grid - 1) /\ (Grid - 1) - 0 + 1 = Grid
        BY GridAssumption
    <2>2. /\ IsFiniteSet(0..(Grid - 1))
          /\ Cardinality(0..(Grid - 1)) = IF 0 > Grid - 1 THEN 0 ELSE (Grid - 1) - 0 + 1
        BY <2>1, FS_Interval
    <2> QED
        BY <1>1, <2>1, <2>2
<1>4. IsFiniteSet(A \X A) /\ Cardinality(A \X A) = Grid * Grid
    BY <1>3, FS_Product
<1>5. Cardinality(U) \in Nat /\ Cardinality(U) <= Grid * Grid
    BY <1>2, <1>4, FS_Subset, FS_CardinalityType
<1>6. UnionArea(boxes) = Cardinality(U)
    BY <1>1, UnionCountsUnits
<1>7. Grid * Grid \in Nat
    BY GridAssumption
<1> QED
    BY <1>5, <1>6, <1>7

-----------------------------------------------------------------------------
(* The floor that the boxes of a frame cover.                              *)
LEMMA FloorOfFrame ==
    ASSUME NEW n, NEW D, \A d \in D : IsDetection(d, n), NEW found, found \in Seq(D)
    PROVE  FrameArea(found) \in 0..(Grid * Grid) /\ Grid * Grid \in Nat \ {0}
<1>1. ToSet(found) \subseteq D
    BY ListElements
<1>2. {d.box : d \in ToSet(found)} \subseteq FrameBox
    BY <1>1 DEF IsDetection
<1>3. PICK a \in Nat : a = UnionArea({d.box : d \in ToSet(found)})
    <2>1. PICK boxes : boxes = {d.box : d \in ToSet(found)}
        OBVIOUS
    <2>2. boxes \subseteq BoxesInFrame
        BY <1>2, <2>1 DEF FrameBox, BoxesInFrame
    <2>3. UnionArea(boxes) \in 0..(Grid * Grid)
        BY <2>2, UnionWithinFrame
    <2>4. Grid * Grid \in Nat
        BY GridAssumption
    <2>5. UnionArea(boxes) \in Nat
        BY <2>3, <2>4
    <2> QED
        BY <2>1, <2>5, Zenon
<1>4. PICK g \in Nat \ {0} : g = Grid * Grid
    BY GridAssumption
<1> QED
    BY <1>3, <1>4 DEF FrameArea, Least

\* One, in units of the fourth decimal.
Whole == 10000

LEMMA WholeNumber == Whole \in Nat
BY DEF Whole

(* The share of the floor that is stored is a share.                       *)
LEMMA OccupancyIsShare ==
    ASSUME NEW m \in Nat, NEW D, NEW rows, AreRows(rows, m, D)
    PROVE  OccupancyRatio(rows) \in 0..Whole
<1> DEFINE s == [f \in DOMAIN rows |-> FrameArea(rows[f])]
           key == [f \in DOMAIN s |-> <<s[f]>>]
           areas == Sorted(s, key)
           upper == areas[(Len(areas) \div 2) + 1]
           lower == IF Len(areas) % 2 = 1 THEN upper ELSE areas[Len(areas) \div 2]
<1>1. DOMAIN rows = 1..m /\ \A f \in 1..m : rows[f] \in Seq(D)
    BY DEF AreRows
<1>2. PICK g \in Nat \ {0} : g = Grid * Grid
    BY GridAssumption
<1>3. \A f \in 1..m : FrameArea(rows[f]) \in 0..g
    BY <1>1, <1>2, FloorOfFrame DEF AreRows
<1>4. s \in [1..m -> 0..g] /\ DOMAIN s = 1..m
    BY <1>1, <1>3
<1>5. OccupancyRatio(rows) =
        IF Len(areas) = 0 THEN 0 ELSE Normalize(Ratio(lower + upper, 2 * Grid * Grid))
    BY Zenon DEF OccupancyRatio, SortedBy
<1> HIDE DEF s
<1>6. key \in Keys(m, 1)
    <2>1. \A f \in 1..m : <<s[f]>> \in [1..1 -> Int]
        BY <1>4, OneNumber
    <2> QED
        BY <1>4, <2>1 DEF Keys
<1> HIDE DEF key
<1>7. areas \in [1..m -> 0..g]
    BY <1>4, <1>6, SortedElements DEF SortsTo
<1> HIDE DEF areas
<1>8. Len(areas) = m
    BY <1>7, FunctionList
<1>9. CASE m = 0
    BY <1>5, <1>8, <1>9, WholeNumber
<1>10. CASE m # 0
    <2>1. (m \div 2) + 1 \in 1..m /\ (m % 2 # 1 => m \div 2 \in 1..m)
        BY <1>10
    <2>2. PICK u \in 0..g : u = upper
        BY <1>7, <1>8, <2>1
    <2>3. PICK l \in 0..g : l = lower
        BY <1>7, <1>8, <2>1
    <2>4. l + u \in Nat /\ 2 * g \in Nat \ {0} /\ l + u <= 2 * g /\ 2 * Grid * Grid = 2 * g
        BY <1>2, GridAssumption
    <2>5. PICK a \in Nat, b \in Nat \ {0} :
            a = lower + upper /\ b = 2 * Grid * Grid /\ a <= b
        BY <2>2, <2>3, <2>4
    <2>6. PICK scale \in Nat : scale = Whole
        BY WholeNumber
    <2>7. RoundHalfUp(scale * a, b) \in 0..scale
        BY <2>5, RoundedShare
    <2>8. Normalize(Ratio(a, b)) = RoundHalfUp(scale * a, b)
        BY <2>6 DEF Normalize, Ratio, Whole
    <2>9. OccupancyRatio(rows) = Normalize(Ratio(a, b))
        BY <1>5, <1>8, <1>10, <2>5
    <2> QED
        BY <2>6, <2>7, <2>8, <2>9
<1> QED
    BY <1>9, <1>10

ChecksUpTo(o, most) ==
    /\ o.risk \in DOMAIN Rank
    /\ o.confidence \in 0..most
    /\ o.frames >= 1 /\ o.frame >= 1
    /\ {o.box.x, o.box.y} \subseteq 0..most
    /\ {o.box.width, o.box.height} \subseteq 1..most
    /\ o.risk = "SAFE" => ~o.marked

LEMMA ChecksOfWhole ==
    ASSUME NEW o, ChecksUpTo(o, Whole)
    PROVE  ObjectChecks(o)
<1>1. ChecksUpTo(o, 10000) <=> ObjectChecks(o)
    BY DEF ChecksUpTo, ObjectChecks
<1>2. ChecksUpTo(o, 10000)
    BY DEF Whole
<1> QED
    BY <1>1, <1>2

(* The columns of what is stored of an object.                             *)
LEMMA ColumnOfSide ==
    ASSUME NEW side \in Nat, side <= Grid
    PROVE  Column(side) \in Nat /\ Column(side) <= 10000
<1>1. Grid \in Nat \ {0} /\ side <= Grid
    BY GridAssumption
<1>2. Column(side) = Scaled(side, Grid)
    BY DEF Column, Scaled
<1> QED
    <2>1. Scaled(side, Grid) \in Nat /\ Scaled(side, Grid) <= 10000
        BY <1>1, NormalizedShare
    <2> QED
        BY <1>2, <2>1

LEMMA ConfidenceColumn ==
    ASSUME NEW c, c \in DetectionConfidence..Certain
    PROVE  RoundHalfUp(c, 10) \in 0..Whole
<1>1. PICK scale \in Nat, ten \in Nat \ {0} : scale = Whole /\ ten = 10
    BY WholeNumber
<1>2. Certain = scale * ten /\ DetectionConfidence \in Nat /\ Certain \in Nat
    <2>1. Certain = 10000 * 10 /\ Certain \in Nat
        BY DEF Certain
    <2>2. scale = 10000 /\ ten = 10
        BY <1>1 DEF Whole
    <2>3. Certain = scale * ten
        BY <2>1, <2>2, SMT
    <2>4. DetectionConfidence \in Nat
        BY DEF DetectionConfidence
    <2> QED
        BY <2>1, <2>3, <2>4
<1>3. c \in Nat /\ c <= scale * ten
    BY <1>2
<1>4. RoundHalfUp(c, ten) \in 0..scale
    BY <1>3, RoundedWithin
<1> QED
    BY <1>1, <1>4

\* What is stored of an object whose box is b.
BoxOfRow(r, b) ==
    /\ r.box.x = Column(b.x) /\ r.box.y = Column(b.y)
    /\ r.box.width = Column(b.width) /\ r.box.height = Column(b.height)

LEMMA StoredRow ==
    ASSUME NEW o, NEW n, NEW group, IsMarked(o, n, group),
           NEW r, r = ObjectRow(o)
    PROVE  /\ BoxOfRow(r, o.box)
           /\ r.confidence = RoundHalfUp(o.confidence, 10)
           /\ r.name = o.name /\ r.risk = o.risk /\ r.marked = o.marked
           /\ r.frame = o.frame /\ r.frames = o.frames
<1>1. PICK box : box = [x |-> Column(o.box.x), y |-> Column(o.box.y),
                        width |-> Column(o.box.width), height |-> Column(o.box.height)]
    OBVIOUS
<1>2. r = [o EXCEPT !.confidence = RoundHalfUp(o.confidence, 10), !.box = box]
    BY <1>1 DEF ObjectRow, Column
<1>3. DOMAIN o = {"name", "risk", "confidence", "frames", "frame", "box", "marked"}
    BY DEF IsMarked
<1> QED
    BY <1>1, <1>2, <1>3 DEF BoxOfRow

(* What an object becomes in the table: it passes every check, but for a   *)
(* side that is rounded to nothing, or one unit too many at the edge.      *)
LEMMA StoredObject ==
    ASSUME NEW o, NEW n \in Nat, NEW group \in Groups, IsMarked(o, n, group)
    PROVE  /\ ObjectChecks(ObjectRow(o)) \/ Vanishes(o.box.width) \/ Vanishes(o.box.height)
           /\ ~InBounds(ObjectRow(o)) =>
                Overruns(o.box.x, o.box.width) \/ Overruns(o.box.y, o.box.height)
<1>1. PICK r : r = ObjectRow(o)
    OBVIOUS
<1>2. /\ BoxOfRow(r, o.box)
      /\ r.confidence = RoundHalfUp(o.confidence, 10)
      /\ r.name = o.name /\ r.risk = o.risk /\ r.marked = o.marked
      /\ r.frame = o.frame /\ r.frames = o.frames
    BY <1>1, StoredRow
<1>3. PICK x \in Nat, y \in Nat, w \in Nat, h \in Nat :
        /\ o.box.x = x /\ o.box.y = y /\ o.box.width = w /\ o.box.height = h
        /\ x + w <= Grid /\ y + h <= Grid
    BY GridAssumption DEF IsMarked, FrameBox, Frame, Right, Bottom
<1>4. PICK cx \in Nat, cy \in Nat, cw \in Nat, ch \in Nat :
        cx = Column(x) /\ cy = Column(y) /\ cw = Column(w) /\ ch = Column(h)
    <2>1. Column(x) \in Nat /\ Column(y) \in Nat /\ Column(w) \in Nat /\ Column(h) \in Nat
        BY ColumnWithin
    <2> QED
        BY <2>1
<1>5. cx <= 10000 /\ cy <= 10000 /\ cw <= 10000 /\ ch <= 10000
    <2>1. x <= Grid /\ y <= Grid /\ w <= Grid /\ h <= Grid
        BY <1>3, GridAssumption
    <2> QED
        BY <1>4, <2>1, ColumnOfSide
<1>6. r.box.x = cx /\ r.box.y = cy /\ r.box.width = cw /\ r.box.height = ch
    BY <1>2, <1>3, <1>4 DEF BoxOfRow
<1>7. ASSUME ~Vanishes(o.box.width), ~Vanishes(o.box.height) PROVE ObjectChecks(r)
    <2>1. cw # 0 /\ ch # 0
        BY <1>3, <1>4, <1>7 DEF Vanishes, Column
    <2>2. {r.box.x, r.box.y} \subseteq 0..Whole /\ {r.box.width, r.box.height} \subseteq 1..Whole
        <3>1. cx <= Whole /\ cy <= Whole /\ cw <= Whole /\ ch <= Whole
            BY <1>5 DEF Whole
        <3>2. cx \in 0..Whole /\ cy \in 0..Whole /\ cw \in 1..Whole /\ ch \in 1..Whole
            BY <2>1, <3>1, WholeNumber
        <3> QED
            BY <1>6, <3>2
    <2>3. r.confidence \in 0..Whole
        <3>1. o.confidence \in DetectionConfidence..Certain
            BY DEF IsMarked
        <3>2. RoundHalfUp(o.confidence, 10) \in 0..Whole
            BY <3>1, ConfidenceColumn
        <3> QED
            BY <1>2, <3>2
    <2>4. r.risk \in DOMAIN Rank
        BY <1>2, Classified DEF IsMarked, Rank, Risks
    <2>5. r.frames >= 1 /\ r.frame >= 1
        BY <1>2 DEF IsMarked
    <2>6. r.risk = "SAFE" => ~r.marked
        BY <1>2 DEF IsMarked
    <2>7. ChecksUpTo(r, Whole)
        BY <2>2, <2>3, <2>4, <2>5, <2>6 DEF ChecksUpTo
    <2> QED
        BY <2>7, ChecksOfWhole
<1>8. ASSUME ~InBounds(r)
      PROVE  Overruns(o.box.x, o.box.width) \/ Overruns(o.box.y, o.box.height)
    <2>1. Right(r.box) = cx + cw /\ Bottom(r.box) = cy + ch
        BY <1>6 DEF Right, Bottom
    <2>2. ~(cx + cw <= 10000) \/ ~(cy + ch <= 10000)
        BY <1>8, <2>1 DEF InBounds
    <2>3. ASSUME ~(cx + cw <= 10000) PROVE Overruns(x, w)
        <3>1. cx + cw <= 10001 /\ (x + w < Grid => cx + cw <= 10000)
            BY <1>3, <1>4, OverrunOfOneUnit
        <3>2. x + w = Grid /\ cx + cw = 10001
            BY <1>3, <2>3, <3>1, GridAssumption
        <3> QED
            BY <1>4, <3>2 DEF Overruns, Column
    <2>4. ASSUME ~(cy + ch <= 10000) PROVE Overruns(y, h)
        <3>1. cy + ch <= 10001 /\ (y + h < Grid => cy + ch <= 10000)
            BY <1>3, <1>4, OverrunOfOneUnit
        <3>2. y + h = Grid /\ cy + ch = 10001
            BY <1>3, <2>4, <3>1, GridAssumption
        <3> QED
            BY <1>4, <3>2 DEF Overruns, Column
    <2> QED
        BY <1>3, <2>2, <2>3, <2>4
<1> QED
    BY <1>1, <1>7, <1>8

-----------------------------------------------------------------------------
(* What is saved is what the stages have left, what is shown is what is    *)
(* saved.                                                                  *)
Ended == {"completed", "refused"}

IsAccepted(answer, output) ==
    /\ answer \in Here.answers /\ output.ok
    /\ output = Validate(answer, DetectedNames)

SavedInv ==
    /\ world \in DOMAIN Worlds
    /\ {"answer", "output", "prompt"} \subseteq DOMAIN report
    /\ stage \in Ended => row = ResultRow
    /\ shown # None => stage = "completed" /\ shown = Detail(row)
    /\ stage \in {"saving"} \cup Ended => IsAccepted(report.answer, report.output)
    /\ stage \in WithObjects => vision.occupancy \in 0..Whole

LEMMA SavedInitInv == Init => SavedInv
BY DEF Init, SavedInv, Ended, WithObjects, WithThumbnail, WithDetected, Rating

\* The floor of the frames that were sampled.
LEMMA TrackedShare ==
    ASSUME VisionInv, TrackObjects
    PROVE  vision'.occupancy \in 0..Whole
<1>1. PICK tracker, objects :
        vision' = [vision EXCEPT !.tracker = tracker, !.occupancy = OccupancyRatio(vision.rows),
                                 !.objects = objects]
    BY DEF TrackObjects
<1>2. DOMAIN vision = Parts /\ stage = "object_tracking"
    BY DEF VisionInv, TrackObjects
<1>3. vision'.occupancy = OccupancyRatio(vision.rows)
    BY <1>1, <1>2 DEF Parts
<1>4. PICK m \in Nat : m = Len(vision.frames)
    BY <1>2 DEF VisionInv, AreFrames, WithFrames, WithRows
<1>5. PICK D : AreRows(vision.rows, m, D)
    BY <1>2, <1>4 DEF VisionInv, WithRows
<1>6. OccupancyRatio(vision.rows) \in 0..Whole
    BY <1>5, OccupancyIsShare
<1> QED
    BY <1>3, <1>6

LEMMA SavedNextInv == VisionInv /\ SavedInv /\ [Next]_vars => SavedInv'
<1> SUFFICES ASSUME VisionInv, SavedInv, [Next]_vars PROVE SavedInv'
    OBVIOUS
<1> USE DEF SavedInv, Ended
<1>0. shown # None => stage \in Ended
    OBVIOUS
<1>1. CASE Request \/ ExtractFrames \/ DetectObjects
    <2>1. /\ UNCHANGED <<world, report, row, shown>>
          /\ stage \in {"request", "frame_extraction", "object_detection"}
          /\ stage' \in {"frame_extraction", "rejected", "failed", "object_detection",
                         "object_tracking"}
        BY <1>1 DEF Request, ExtractFrames, DetectObjects
    <2> QED
        BY <2>1 DEF WithObjects, WithThumbnail, WithDetected, Rating
<1>2. CASE TrackObjects
    <2>1. /\ UNCHANGED <<world, report, row, shown>>
          /\ stage = "object_tracking" /\ stage' = "frame_selection"
        BY <1>2 DEF TrackObjects
    <2>2. vision'.occupancy \in 0..Whole
        BY <1>2, TrackedShare
    <2> QED
        BY <2>1, <2>2
<1>3. CASE SelectFrame \/ MarkRisks
    <2>1. /\ UNCHANGED <<world, report, row, shown>> /\ stage \in WithObjects
          /\ stage \in {"frame_selection", "risk_marking"}
          /\ stage' \in {"risk_marking", "score_calculation"}
        BY <1>3 DEF SelectFrame, MarkRisks, WithObjects, WithThumbnail
    <2>2. PICK thumbnail, detected, kept :
            \/ vision' = [vision EXCEPT !.thumbnail = thumbnail]
            \/ vision' = [vision EXCEPT !.detected = detected, !.kept = kept]
        BY <1>3 DEF SelectFrame, MarkRisks
    <2>3. vision'.occupancy = vision.occupancy
        BY <2>2 DEF VisionInv, Parts
    <2> QED
        BY <2>1, <2>3
<1>4. CASE CalculateScore \/ AskModel \/ GiveUp
    <2>1. /\ UNCHANGED <<world, vision, row, shown>> /\ stage \in WithObjects
          /\ stage \in {"score_calculation", "environment_analysis"}
          /\ stage' \in {"environment_analysis", "failed"}
        BY <1>4 DEF CalculateScore, AskModel, GiveUp, WithObjects, WithThumbnail, WithDetected, Rating
    <2>2. DOMAIN report' = DOMAIN report
        BY <1>4 DEF CalculateScore, AskModel, GiveUp
    <2> QED
        BY <2>1, <2>2
<1>5. CASE ModelAnswers
    <2>1. /\ UNCHANGED <<world, vision, row, shown>> /\ stage = "environment_analysis"
          /\ stage \in WithObjects
        BY <1>5 DEF ModelAnswers, WithObjects, WithThumbnail, WithDetected, Rating
    <2>2. PICK answer \in Here.answers :
            LET output == Validate(answer, DetectedNames)
            IN IF output.ok
               THEN /\ report' = [report EXCEPT !.answer = answer, !.output = output]
                    /\ stage' = "saving"
               ELSE /\ report' = [report EXCEPT !.prompt.retry = output.rejection]
                    /\ stage' = stage
        BY <1>5 DEF ModelAnswers
    <2>3. PICK output : output = Validate(answer, DetectedNames)
        OBVIOUS
    <2>4. DetectedNames' = DetectedNames /\ Here' = Here
        BY <2>1 DEF DetectedNames, Here
    <2>5. CASE output.ok
        <3>1. report' = [report EXCEPT !.answer = answer, !.output = output] /\ stage' = "saving"
            BY <2>2, <2>3, <2>5
        <3>2. /\ DOMAIN report' = DOMAIN report /\ report'.answer = answer
              /\ report'.output = output
            BY <3>1
        <3>3. IsAccepted(report.answer, report.output)'
            BY <2>3, <2>4, <2>5, <3>2 DEF IsAccepted
        <3> QED
            BY <2>1, <3>1, <3>2, <3>3
    <2>6. CASE ~output.ok
        <3>1. DOMAIN report' = DOMAIN report /\ stage' = stage
            BY <2>2, <2>3, <2>6
        <3> QED
            BY <2>1, <3>1
    <2> QED
        BY <2>5, <2>6
<1>6. CASE SaveResult
    <2>1. /\ UNCHANGED <<world, input, vision, report, shown>> /\ stage = "saving"
          /\ stage' \in Ended /\ row' = ResultRow
        BY <1>6 DEF SaveResult
    <2>2. DetectedNames' = DetectedNames /\ Here' = Here
        BY <2>1 DEF DetectedNames, Here
    <2>3. ResultRow' = ResultRow
        BY <2>1 DEF ResultRow, Score, DetectedNames
    <2>4. IsAccepted(report.answer, report.output)'
        BY <2>1, <2>2 DEF IsAccepted
    <2>5. stage \in WithObjects
        BY <2>1 DEF WithObjects, WithThumbnail, WithDetected, Rating
    <2> QED
        BY <2>1, <2>3, <2>4, <2>5
<1>7. CASE ShowResult \/ OpenHistory \/ NextPage \/ UNCHANGED vars
    <2>1. UNCHANGED <<world, input, vision, report, row, stage>>
        BY <1>7 DEF ShowResult, OpenHistory, NextPage, vars
    <2>2. DetectedNames' = DetectedNames /\ Here' = Here
        BY <2>1 DEF DetectedNames, Here
    <2>3. ResultRow' = ResultRow
        BY <2>1 DEF ResultRow, Score, DetectedNames
    <2>4. IsAccepted(report.answer, report.output)' <=> IsAccepted(report.answer, report.output)
        BY <2>1, <2>2 DEF IsAccepted
    <2>5. UNCHANGED shown \/ (stage = "completed" /\ shown' = Detail(row))
        BY <1>7 DEF ShowResult, OpenHistory, NextPage, vars
    <2> QED
        BY <2>1, <2>3, <2>4, <2>5
<1> QED
    BY <1>1, <1>2, <1>3, <1>4, <1>5, <1>6, <1>7 DEF Next

ResultUpTo(r, most, full) ==
    /\ r.duration \in VideoMin..VideoMax
    /\ r.frames \in FrameMin..FrameMax
    /\ r.occupancy \in 0..most
    /\ \A c \in DOMAIN r.score : r.score[c] \in 0..full

LEMMA ResultOfWhole ==
    ASSUME NEW r, ResultUpTo(r, Whole, 100)
    PROVE  ResultChecks(r)
<1>1. ResultUpTo(r, 10000, 100) <=> ResultChecks(r)
    BY DEF ResultUpTo, ResultChecks
<1>2. ResultUpTo(r, 10000, 100)
    BY DEF Whole
<1> QED
    BY <1>1, <1>2

(* What was computed of the video fits the columns of analysis.            *)
LEMMA SavedResult ==
    ASSUME SamplingInv, VisionInv, SavedInv, stage \in Ended
    PROVE  ResultChecks(ResultRow)
<1>1. /\ stage \notin {"request", "rejected", "frame_extraction", "failed"}
      /\ stage \in WithObjects
    BY DEF Ended, WithObjects, WithThumbnail, WithDetected, Rating
<1>2. PICK r : r = ResultRow
    OBVIOUS
<1>3. /\ r.score = Score /\ r.occupancy = vision.occupancy /\ r.frames = Len(vision.frames)
      /\ r.duration = input.video.duration
    BY <1>2 DEF ResultRow
<1>4. r.duration \in VideoMin..VideoMax
    BY <1>1, <1>3 DEF VisionInv, LegalRequest
<1>5. r.frames \in FrameMin..FrameMax
    <2>1. PICK frames : frames = vision.frames /\ frames = Extract(input.video)
        BY <1>1 DEF SamplingInv
    <2>2. IsVideo(input.video) /\ ~(Len(frames) < FrameMin)
        BY <1>1, <2>1 DEF SamplingInv, TooFew
    <2>3. frames \in Seq(Nat) /\ Len(frames) <= FrameMax
        BY <2>1, <2>2, ExtractServes
    <2>4. Len(frames) \in Nat
        BY <2>3, LenProperties
    <2> QED
        BY <1>3, <2>1, <2>2, <2>3, <2>4, SamplingAssumption
<1>6. r.occupancy \in 0..Whole
    BY <1>1, <1>3 DEF SavedInv
<1>7. \A c \in DOMAIN r.score : r.score[c] \in 0..100
    <2>1. PICK group \in Groups, space \in Spaces : group = input.form.group /\ space = input.form.space
        BY <1>1 DEF VisionInv, LegalRequest
    <2>2. PICK score : score = Generate(group, space, DetectedNames, vision.occupancy)
        OBVIOUS
    <2>3. \A c \in DOMAIN score : score[c] \in 0..100
        BY <2>1, <2>2, ScoresInRange
    <2>4. r.score = score
        BY <1>3, <2>1, <2>2 DEF Score
    <2> QED
        BY <2>3, <2>4
<1>8. ResultUpTo(r, Whole, 100)
    BY <1>4, <1>5, <1>6, <1>7 DEF ResultUpTo
<1> QED
    BY <1>2, <1>8, ResultOfWhole

(* What is recommended has priorities from 1, none twice, and sources.     *)
LEMMA SavedAdvice ==
    ASSUME SavedInv, stage \in Ended
    PROVE  RecommendationChecks(ResultRow.recommendations)
<1>1. PICK answer : answer = report.answer /\ answer \in Here.answers
                    /\ Validate(answer, DetectedNames).ok
                    /\ report.output = Validate(answer, DetectedNames)
    BY DEF SavedInv, IsAccepted
<1>2. IsAnswer(answer)
    BY <1>1, AnswerAssumption DEF SavedInv, Here
<1>3. Rejection(answer) = None
    <2> SUFFICES ASSUME Rejection(answer) # None PROVE FALSE
        OBVIOUS
    <2>1. Validate(answer, DetectedNames) = [ok |-> FALSE, rejection |-> Rejection(answer)]
        BY DEF Validate
    <2> QED
        BY <1>1, <2>1
<1>4. PICK given, items : given = answer.recommendations /\ items = Recommendations(given)
    OBVIOUS
<1>5. ResultRow.recommendations = items
    <2>1. Validate(answer, DetectedNames).recommendations = Recommendations(answer.recommendations)
        BY <1>3 DEF Validate
    <2> QED
        BY <1>1, <1>4, <2>1 DEF ResultRow
<1>6. IsList(given) /\ \A r \in ToSet(given) : IsAdvice(r)
    BY <1>2, <1>4 DEF IsAnswer, IsAdvice
<1>7. \A r \in ToSet(given) : r.source \in {"DETECTED", "OBSERVED"}
    BY <1>2, <1>3, <1>4, AcceptedAnswer
<1>8. PICK m : /\ m = Len(items) /\ DOMAIN items = 1..m
               /\ \A k \in 1..m : \E r \in ToSet(given) :
                    items[k].priority = k /\ items[k].source = r.source
    BY <1>4, <1>6, RecommendationsKept
<1>9. \A k \in DOMAIN items :
        /\ items[k].priority = k /\ k >= 1
        /\ items[k].source \in {"DETECTED", "OBSERVED"}
    BY <1>7, <1>8
<1>10. ToSet(items) = {items[k] : k \in DOMAIN items}
    BY DEF ToSet
<1> QED
    BY <1>5, <1>9, <1>10 DEF RecommendationChecks

(* The constraints of the three tables, for every video, detections and    *)
(* answers: what is saved passes them but in the two cases of a box.       *)
THEOREM SavedResultFits == Spec => []ResultFitsTables
<1>1. SamplingInv /\ ScoreInv /\ VisionInv /\ SavedInv => ResultFitsTables
    <2> SUFFICES ASSUME SamplingInv, ScoreInv, VisionInv, SavedInv, row # None
                 PROVE  ResultFitsTables
        BY DEF ResultFitsTables
    <2>1. stage \in Ended /\ row = ResultRow /\ stage \in WithDetected
        BY DEF ScoreInv, SavedInv, Ended, WithDetected, Rating
    <2>2. ResultChecks(row)
        BY <2>1, SavedResult
    <2>3. RecommendationChecks(row.recommendations)
        BY <2>1, SavedAdvice
    <2>4. ASSUME NEW k \in DOMAIN row.objects
          PROVE  LET box == vision.detected[k].box
                 IN /\ ObjectChecks(row.objects[k]) \/ Vanishes(box.width) \/ Vanishes(box.height)
                    /\ ~InBounds(row.objects[k]) =>
                         Overruns(box.x, box.width) \/ Overruns(box.y, box.height)
        <3>1. /\ DOMAIN row.objects = DOMAIN vision.detected
              /\ row.objects[k] = ObjectRow(vision.detected[k])
            BY <2>1 DEF ResultRow
        <3>2. PICK n \in Nat : n = Len(vision.frames)
            BY <2>1 DEF VisionInv, AreFrames, WithFrames, WithRows, WithObjects, WithThumbnail
        <3>3. PICK group \in Groups : group = input.form.group
            BY <2>1 DEF VisionInv, LegalRequest, Ended
        <3>4. PICK o : o = vision.detected[k] /\ o \in ToSet(vision.detected)
            BY <3>1 DEF ToSet
        <3>5. IsMarked(o, n, group)
            BY <2>1, <3>2, <3>3, <3>4 DEF VisionInv, AreMarked
        <3> QED
            BY <3>1, <3>4, <3>5, StoredObject
    <2> QED
        BY <2>2, <2>3, <2>4 DEF ResultFitsTables
<1> QED
    BY <1>1, SamplingInitInv, SamplingNextInv, ScoreInitInv, ScoreNextInv, VisionInitInv,
       VisionNextInv, SavedInitInv, SavedNextInv, PTL DEF Spec

-----------------------------------------------------------------------------
LEMMA FirstComponent ==
    ASSUME NEW a \in [1..3 -> Int], NEW b \in [1..3 -> Int], Precedes(a, b) \/ a = b
    PROVE  a[1] <= b[1]
<1>1. CASE Precedes(a, b)
    <2>1. PICK i \in 1..3 : a[i] < b[i] /\ \A j \in 1..(i - 1) : a[j] = b[j]
        BY <1>1 DEF Precedes
    <2> QED
        BY <2>1
<1> QED
    BY <1>1

(* sort_detected_objects: a permutation, the most dangerous first.         *)
ShownAs(objects, rows, m, at) ==
    /\ at \in [1..m -> 1..m] /\ DOMAIN objects = 1..m
    /\ \A i \in 1..m : objects[i] = rows[at[i]]
    /\ \A i, j \in 1..m : i < j => Rank[objects[i].risk] >= Rank[objects[j].risk]

AreSaved(rows, m) ==
    /\ DOMAIN rows = 1..m
    /\ \A k \in 1..m :
        /\ Rank[rows[k].risk] \in Nat /\ rows[k].confidence \in Nat /\ rows[k].name \in Classes

LEMMA DangerousFirst ==
    ASSUME NEW m \in Nat, NEW rows, AreSaved(rows, m),
           NEW objects, objects = SortDetectedObjects(rows)
    PROVE  \E at : ShownAs(objects, rows, m, at)
<1> DEFINE key == [k \in DOMAIN rows |->
                    <<-Rank[rows[k].risk], -rows[k].confidence, NameOrder(rows[k].name)>>]
<1>1. objects = Sorted(rows, key)
    BY Zenon DEF SortDetectedObjects, SortedBy
<1>2. DOMAIN rows = 1..m
    BY DEF AreSaved
<1>3. ASSUME NEW k \in 1..m
      PROVE  /\ <<-Rank[rows[k].risk], -rows[k].confidence, NameOrder(rows[k].name)>> \in [1..3 -> Int]
             /\ Rank[rows[k].risk] \in Nat /\ key[k][1] = -Rank[rows[k].risk]
    <2>1. PICK a \in Nat, b \in Nat, c \in Int :
            a = Rank[rows[k].risk] /\ b = rows[k].confidence /\ c = NameOrder(rows[k].name)
        BY OrderOfNames DEF AreSaved
    <2>2. -a \in Int /\ -b \in Int
        OBVIOUS
    <2>3. <<-a, -b, c>> \in [1..3 -> Int]
        BY <2>2, ThreeNumbers
    <2>4. key[k] = <<-a, -b, c>>
        BY <1>2, <2>1
    <2> HIDE DEF key
    <2> QED
        BY <2>1, <2>3, <2>4
<1>4. key \in [1..m -> [1..3 -> Int]]
    BY <1>2, <1>3
<1>5. \A k \in 1..m : Rank[rows[k].risk] \in Nat /\ key[k][1] = -Rank[rows[k].risk]
    BY <1>3
<1> HIDE DEF key
<1>6. PICK at : SortsBy(at, key, m) /\ objects = Reordered(rows, at, m)
    BY <1>1, <1>2, <1>4, SortedPlaces
<1>7. /\ at \in [1..m -> 1..m] /\ DOMAIN objects = 1..m
      /\ \A i \in 1..m : objects[i] = rows[at[i]]
    BY <1>6 DEF SortsBy, Reordered
<1>8. ASSUME NEW i \in 1..m, NEW j \in 1..m, i < j
      PROVE  Rank[objects[i].risk] >= Rank[objects[j].risk]
    <2>1. PICK p \in 1..m, q \in 1..m : p = at[i] /\ q = at[j]
        BY <1>7
    <2>2. Precedes(key[p], key[q]) \/ key[p] = key[q]
        BY <1>6, <1>8, <2>1 DEF SortsBy
    <2>3. key[p] \in [1..3 -> Int] /\ key[q] \in [1..3 -> Int]
        BY <1>4
    <2>4. key[p][1] <= key[q][1]
        BY <2>2, <2>3, FirstComponent
    <2>5. Rank[rows[p].risk] >= Rank[rows[q].risk]
        BY <1>5, <2>4
    <2> QED
        BY <1>7, <2>1, <2>5
<1> QED
    BY <1>7, <1>8 DEF ShownAs

(* What is drawn is what the score counts.                                 *)
LEMMA CostOfObject ==
    ASSUME NEW group \in Groups, NEW space \in Spaces, NEW names, NEW occupancy,
           NEW o, o.name \in names, o.risk = Classify(o.name, group),
           o.marked <=> o.risk # "SAFE"
    PROVE  Consistent(o, Generate(group, space, names, occupancy),
                         Generate(group, space, names \ {o.name}, occupancy))
<1>1. PICK x, rest : x = o.name /\ rest = names \ {x}
    OBVIOUS
<1>2. PICK with, without : with = Generate(group, space, names, occupancy)
                           /\ without = Generate(group, space, rest, occupancy)
    OBVIOUS
<1>3. /\ \A c \in Categories : with[c] \in 0..100 /\ without[c] \in 0..100
      /\ \A c \in Categories \ {"safety"} : with[c] >= without[c]
      /\ x \notin {"cable", "stairs", "window"} => with["safety"] >= without["safety"]
      /\ x \in {"cable", "stairs", "window"} /\ x \in names => with["safety"] < without["safety"]
    BY <1>1, <1>2, ScoresWithout
<1>4. with["safety"] \in 0..100 /\ without["safety"] \in 0..100
    BY <1>3 DEF Categories
<1>5. o.risk # "SAFE" <=> x \in {"cable", "stairs", "window"}
    BY <1>1, Classified
<1>6. Consistent(o, with, without)
    BY <1>1, <1>3, <1>4, <1>5 DEF Consistent
<1> QED
    BY <1>1, <1>2, <1>6

(* The rows of detected_object have the order the response gives them.     *)
LEMMA SavedObjects ==
    ASSUME NEW group \in Groups, NEW n, NEW detected, AreMarked(detected, n, group),
           NEW rows, rows = [k \in DOMAIN detected |-> ObjectRow(detected[k])],
           NEW m \in Nat, DOMAIN detected = 1..m
    PROVE  AreSaved(rows, m)
<1>1. ASSUME NEW k \in 1..m
      PROVE  /\ Rank[rows[k].risk] \in Nat /\ rows[k].confidence \in Nat /\ rows[k].name \in Classes
    <2>1. PICK o : o = detected[k] /\ IsMarked(o, n, group)
        BY DEF AreMarked, ToSet
    <2>2. PICK r : r = rows[k] /\ r = ObjectRow(o)
        BY <2>1
    <2>3. r.name = o.name /\ r.risk = o.risk /\ r.confidence = RoundHalfUp(o.confidence, 10)
        BY <2>1, <2>2, StoredRow
    <2>4. Rank[o.risk] \in Nat /\ o.name \in Classes
        BY <2>1, Classified DEF IsMarked
    <2>5. RoundHalfUp(o.confidence, 10) \in Nat
        <3>1. o.confidence \in DetectionConfidence..Certain
            BY <2>1 DEF IsMarked
        <3>2. RoundHalfUp(o.confidence, 10) \in 0..Whole
            BY <3>1, ConfidenceColumn
        <3> QED
            BY <3>2, WholeNumber
    <2> QED
        BY <2>2, <2>3, <2>4, <2>5
<1> QED
    BY <1>1 DEF AreSaved

(* What is shown as dangerous, and drawn, is what lowers the score of      *)
(* safety, for every video, detections and answers; the list is shown with *)
(* the most dangerous first.                                               *)
THEOREM MarkedIsCostly == Spec => []MarkedIffCostly
<1>1. SamplingInv /\ ScoreInv /\ VisionInv /\ SavedInv => MarkedIffCostly
    <2> SUFFICES ASSUME VisionInv, SavedInv, shown # None
                 PROVE  MarkedIffCostly
        BY DEF MarkedIffCostly
    <2>1. /\ stage = "completed" /\ row = ResultRow /\ shown = Detail(row)
          /\ stage \in WithDetected
        BY DEF SavedInv, Ended, WithDetected, Rating
    <2>2. PICK group \in Groups, space \in Spaces :
            group = input.form.group /\ space = input.form.space
        BY <2>1 DEF VisionInv, LegalRequest
    <2>3. PICK n, detected : detected = vision.detected /\ AreMarked(detected, n, group)
        BY <2>1, <2>2 DEF VisionInv
    <2>4. PICK m \in Nat : m = Len(detected) /\ DOMAIN detected = 1..m
        BY <2>3, LenProperties DEF AreMarked, IsList
    <2>5. PICK rows : rows = row.objects /\ rows = [k \in DOMAIN detected |-> ObjectRow(detected[k])]
        BY <2>1, <2>3 DEF ResultRow
    <2>6. AreSaved(rows, m)
        BY <2>3, <2>4, <2>5, SavedObjects
    <2>7. PICK objects : objects = shown.objects /\ objects = SortDetectedObjects(rows)
        BY <2>1, <2>5 DEF Detail
    <2>8. PICK at : ShownAs(objects, rows, m, at)
        BY <2>6, <2>7, DangerousFirst
    <2>9. ASSUME NEW o \in ToSet(objects)
          PROVE  Consistent(o, Generate(group, space, DetectedNames, row.occupancy),
                               Generate(group, space, DetectedNames \ {o.name}, row.occupancy))
        <3>1. PICK k \in 1..m : o = rows[k]
            BY <2>8 DEF ToSet, ShownAs
        <3>2. PICK d : d = detected[k] /\ d \in ToSet(detected)
            BY <2>4 DEF ToSet
        <3>3. IsMarked(d, n, group) /\ o = ObjectRow(d)
            BY <2>3, <2>4, <2>5, <3>1, <3>2 DEF AreMarked
        <3>4. o.name = d.name /\ o.risk = d.risk /\ o.marked = d.marked
            BY <3>3, StoredRow
        <3>5. o.name \in DetectedNames
            BY <2>3, <3>2, <3>4 DEF DetectedNames
        <3>6. o.risk = Classify(o.name, group) /\ (o.marked <=> o.risk # "SAFE")
            BY <3>3, <3>4 DEF IsMarked
        <3> QED
            BY <3>5, <3>6, CostOfObject
    <2>10. ASSUME NEW j \in DOMAIN objects, NEW k \in DOMAIN objects, j < k
           PROVE  Rank[objects[j].risk] >= Rank[objects[k].risk]
        BY <2>8, <2>10 DEF ShownAs
    <2> QED
        BY <2>2, <2>7, <2>9, <2>10 DEF MarkedIffCostly
<1> QED
    BY <1>1, SamplingInitInv, SamplingNextInv, ScoreInitInv, ScoreNextInv, VisionInitInv,
       VisionNextInv, SavedInitInv, SavedNextInv, PTL DEF Spec

-----------------------------------------------------------------------------
(* The rooms that come with a score: the examples of prompts.py and the    *)
(* fixture of stub.py.                                                     *)
ScoreOf(a, b, c, d) ==
    [total |-> RoundHalfUp(40 * a + 25 * b + 20 * c + 15 * d, 100),
     safety |-> a, activity |-> b, rest |-> c, environment |-> d]

MeansOf(w, l, a, b, c, d) ==
    /\ a = Mean(w["CABLE_EXPOSURE"] + w["STAIRS_RISK"] + w["WINDOW_SAFETY"] + w["SLIP_RISK"],
                l["CABLE_EXPOSURE"] + l["STAIRS_RISK"] + l["WINDOW_SAFETY"] + l["SLIP_RISK"])
    /\ b = Mean(w["ACTIVITY_SPACE"] + w["VERTICAL_SPACE"],
                l["ACTIVITY_SPACE"] + l["VERTICAL_SPACE"])
    /\ c = Mean(w["REST_SPACE"], l["REST_SPACE"])
    /\ d = Mean(w["FEEDING_ENV"], l["FEEDING_ENV"])

\* Generate, with the sum written out.
LEMMA TotalOfScores ==
    ASSUME NEW group \in Groups, NEW space \in Spaces, NEW names, NEW occupancy,
           NEW a, a = CategoryScore("safety", group, space, names, occupancy),
           NEW b, b = CategoryScore("activity", group, space, names, occupancy),
           NEW c, c = CategoryScore("rest", group, space, names, occupancy),
           NEW d, d = CategoryScore("environment", group, space, names, occupancy)
    PROVE  Generate(group, space, names, occupancy) = ScoreOf(a, b, c, d)
<1> DEFINE f == [k \in Categories |->
                    CategoryScore(k, group, space, names, occupancy) * Share[k]]
           total == RoundHalfUp(SumFunction(f), 100)
<1>1. {"safety", "activity", "rest", "environment"} = Categories
    BY DEF Categories
<1>2. a \in 0..100 /\ b \in 0..100 /\ c \in 0..100 /\ d \in 0..100
    BY <1>1, CategoryMean
<1>3. Generate(group, space, names, occupancy)
        = [total |-> total, safety |-> a, activity |-> b, rest |-> c, environment |-> d]
    BY DEF Generate
<1>4. PICK p, q, r, s : p = "safety" /\ q = "activity" /\ r = "rest" /\ s = "environment"
    OBVIOUS
<1>5. /\ f["safety"] = a * 40 /\ f["activity"] = b * 25
      /\ f["rest"] = c * 20 /\ f["environment"] = d * 15
    BY <1>1 DEF Share
<1>6. PICK g : g = f /\ f = Restrict(f, Categories)
    BY DEF Restrict
<1>7. /\ g[p] = a * 40 /\ g[q] = b * 25 /\ g[r] = c * 20 /\ g[s] = d * 15
      /\ g = Restrict(g, Categories)
    BY <1>4, <1>5, <1>6
<1>8. FourTerms(Categories, p, q, r, s, g)
    BY <1>1, <1>2, <1>4, <1>7 DEF FourTerms
<1>9. SumFunction(Restrict(g, Categories)) = g[p] + g[q] + g[r] + g[s]
    BY <1>8, SumOfFour
<1>10. SumFunction(f) = 40 * a + 25 * b + 20 * c + 15 * d
    BY <1>2, <1>6, <1>7, <1>9
<1> HIDE DEF f
<1> QED
    BY <1>3, <1>10 DEF ScoreOf

\* The score of a room, with the terms of each category.
LEMMA ScoreOfRoom ==
    ASSUME NEW group \in Groups, NEW space \in Spaces, NEW names, NEW occupancy,
           NEW w, w = WeightsOf(group), NEW l, l = LossesOf(group, names, occupancy)
    PROVE  Generate(group, space, names, occupancy) =
             ScoreOf(Mean(Terms("safety", space, w), Terms("safety", space, l)),
                             Mean(Terms("activity", space, w), Terms("activity", space, l)),
                             Mean(Terms("rest", space, w), Terms("rest", space, l)),
                             Mean(Terms("environment", space, w), Terms("environment", space, l)))
<1>1. "safety" \in Categories /\ "activity" \in Categories /\ "rest" \in Categories
      /\ "environment" \in Categories
    BY DEF Categories
<1>2. \A category \in Categories :
        CategoryScore(category, group, space, names, occupancy) =
            Mean(Terms(category, space, w), Terms(category, space, l))
    BY CategoryMean
<1>3. PICK a, b, c, d :
        /\ a = Mean(Terms("safety", space, w), Terms("safety", space, l))
        /\ b = Mean(Terms("activity", space, w), Terms("activity", space, l))
        /\ c = Mean(Terms("rest", space, w), Terms("rest", space, l))
        /\ d = Mean(Terms("environment", space, w), Terms("environment", space, l))
    OBVIOUS
<1>4. /\ a = CategoryScore("safety", group, space, names, occupancy)
      /\ b = CategoryScore("activity", group, space, names, occupancy)
      /\ c = CategoryScore("rest", group, space, names, occupancy)
      /\ d = CategoryScore("environment", group, space, names, occupancy)
    BY <1>1, <1>2, <1>3
<1>5. PICK score : score = Generate(group, space, names, occupancy)
    OBVIOUS
<1>6. score = ScoreOf(a, b, c, d)
    BY <1>4, <1>5, TotalOfScores
<1> QED
    BY <1>3, <1>5, <1>6

\* The score of a living room, written out.
LEMMA ScoreOfLivingRoom ==
    ASSUME NEW group \in Groups, NEW names, NEW occupancy,
           NEW a, NEW b, NEW c, NEW d,
           MeansOf(WeightsOf(group), LossesOf(group, names, occupancy), a, b, c, d)
    PROVE  Generate(group, "living_room", names, occupancy) = ScoreOf(a, b, c, d)
<1>1. PICK space \in Spaces : space = "living_room"
    BY DEF Spaces
<1>2. PICK w, l : w = WeightsOf(group) /\ l = LossesOf(group, names, occupancy)
    OBVIOUS
<1>3. IsHome(space) /\ IsFed(space)
    BY <1>1 DEF IsHome, IsFed
<1>4. /\ Terms("safety", space, w) = w["CABLE_EXPOSURE"] + w["STAIRS_RISK"] + w["WINDOW_SAFETY"]
                                        + w["SLIP_RISK"]
      /\ Terms("safety", space, l) = l["CABLE_EXPOSURE"] + l["STAIRS_RISK"] + l["WINDOW_SAFETY"]
                                        + l["SLIP_RISK"]
    BY <1>3 DEF Terms, SafetyTerms
<1>5. /\ Terms("activity", space, w) = w["ACTIVITY_SPACE"] + w["VERTICAL_SPACE"]
      /\ Terms("activity", space, l) = l["ACTIVITY_SPACE"] + l["VERTICAL_SPACE"]
    BY <1>3 DEF Terms
<1>6. Terms("rest", space, w) = w["REST_SPACE"] /\ Terms("rest", space, l) = l["REST_SPACE"]
    BY <1>3 DEF Terms
<1>7. /\ Terms("environment", space, w) = w["FEEDING_ENV"]
      /\ Terms("environment", space, l) = l["FEEDING_ENV"]
    BY <1>3 DEF Terms
<1>8. /\ a = Mean(Terms("safety", space, w), Terms("safety", space, l))
      /\ b = Mean(Terms("activity", space, w), Terms("activity", space, l))
      /\ c = Mean(Terms("rest", space, w), Terms("rest", space, l))
      /\ d = Mean(Terms("environment", space, w), Terms("environment", space, l))
    BY <1>2, <1>4, <1>5, <1>6, <1>7 DEF MeansOf
<1>9. PICK score : score = Generate(group, space, names, occupancy)
    OBVIOUS
<1>10. score = ScoreOf(a, b, c, d)
    BY <1>2, <1>8, <1>9, ScoreOfRoom
<1> QED
    BY <1>1, <1>9, <1>10

\* The losses of a room, item by item.
LEMMA LossesSpelledOut ==
    ASSUME NEW group \in Groups, NEW names, NEW occupancy,
           NEW l, l = LossesOf(group, names, occupancy),
           NEW p, p = Penalty(names, occupancy), NEW w, w = WeightsOf(group)
    PROVE  /\ l["CABLE_EXPOSURE"] = w["CABLE_EXPOSURE"] * p["CABLE_EXPOSURE"]
           /\ l["STAIRS_RISK"] = w["STAIRS_RISK"] * p["STAIRS_RISK"]
           /\ l["WINDOW_SAFETY"] = w["WINDOW_SAFETY"] * p["WINDOW_SAFETY"]
           /\ l["SLIP_RISK"] = w["SLIP_RISK"] * p["SLIP_RISK"]
           /\ l["ACTIVITY_SPACE"] = w["ACTIVITY_SPACE"] * p["ACTIVITY_SPACE"]
           /\ l["VERTICAL_SPACE"] = w["VERTICAL_SPACE"] * p["VERTICAL_SPACE"]
           /\ l["REST_SPACE"] = w["REST_SPACE"] * p["REST_SPACE"]
           /\ l["FEEDING_ENV"] = w["FEEDING_ENV"] * p["FEEDING_ENV"]
           /\ w["CABLE_EXPOSURE"] = Weight["CABLE_EXPOSURE"][group]
           /\ w["STAIRS_RISK"] = Weight["STAIRS_RISK"][group]
           /\ w["WINDOW_SAFETY"] = Weight["WINDOW_SAFETY"][group]
           /\ w["SLIP_RISK"] = Weight["SLIP_RISK"][group]
           /\ w["ACTIVITY_SPACE"] = Weight["ACTIVITY_SPACE"][group]
           /\ w["VERTICAL_SPACE"] = Weight["VERTICAL_SPACE"][group]
           /\ w["REST_SPACE"] = Weight["REST_SPACE"][group]
           /\ w["FEEDING_ENV"] = Weight["FEEDING_ENV"][group]
<1>1. {"CABLE_EXPOSURE", "STAIRS_RISK", "WINDOW_SAFETY", "SLIP_RISK", "ACTIVITY_SPACE",
       "VERTICAL_SPACE", "REST_SPACE", "FEEDING_ENV"} \subseteq Measured
    BY DEF Measured, Items, CategoryOf, Unmeasurable
<1>2. \A i \in Measured : w[i] = Weight[i][group] /\ l[i] = w[i] * p[i]
    BY DEF WeightsOf, LossesOf
<1> QED
    BY <1>1, <1>2

\* A cat's room with a window and all a cat wants but a bed of its own.
LEMMA ExampleOfCat ==
    ASSUME NEW names, NEW occupancy, OccupancyPenalty(occupancy) = 0,
           names = {"window", "cat_tower", "sofa", "carpet", "feeder", "water_dispenser"}
    PROVE  Generate("cat", "living_room", names, occupancy)
             = [total |-> 75, safety |-> 57, activity |-> 100, rest |-> 60, environment |-> 100]
<1>1. PICK group \in Groups : group = "cat"
    BY DEF Groups
<1>2. PICK w, l, p : w = WeightsOf(group) /\ l = LossesOf(group, names, occupancy)
                     /\ p = Penalty(names, occupancy)
    OBVIOUS
<1>3. /\ p["CABLE_EXPOSURE"] = 0 /\ p["STAIRS_RISK"] = 0 /\ p["WINDOW_SAFETY"] = 100
      /\ p["SLIP_RISK"] = 0 /\ p["VERTICAL_SPACE"] = 0 /\ p["REST_SPACE"] = 40
      /\ p["FEEDING_ENV"] = 0 /\ p["ACTIVITY_SPACE"] = 0
    <2>1. /\ "cable" \notin names /\ "stairs" \notin names /\ "window" \in names
          /\ "carpet" \in names /\ "cat_tower" \in names /\ "pet_bed" \notin names
          /\ "sofa" \in names /\ "feeder" \in names /\ "water_dispenser" \in names
        OBVIOUS
    <2> QED
        BY <1>2, <2>1, PenaltiesSpelledOut
<1>4. /\ w["CABLE_EXPOSURE"] = 2 /\ w["STAIRS_RISK"] = 1 /\ w["WINDOW_SAFETY"] = 3
      /\ w["SLIP_RISK"] = 1 /\ w["VERTICAL_SPACE"] = 3 /\ w["REST_SPACE"] = 2
      /\ w["FEEDING_ENV"] = 2 /\ w["ACTIVITY_SPACE"] = 2
    BY <1>1, <1>2, LossesSpelledOut DEF Weight, For
<1>5. /\ l["CABLE_EXPOSURE"] = 0 /\ l["STAIRS_RISK"] = 0 /\ l["WINDOW_SAFETY"] = 300
      /\ l["SLIP_RISK"] = 0 /\ l["VERTICAL_SPACE"] = 0 /\ l["REST_SPACE"] = 80
      /\ l["FEEDING_ENV"] = 0 /\ l["ACTIVITY_SPACE"] = 0
    BY <1>2, <1>3, <1>4, LossesSpelledOut
<1>6. MeansOf(w, l, 57, 100, 60, 100)
    BY <1>4, <1>5 DEF MeansOf, Mean, RoundHalfUp
<1>7. Generate(group, "living_room", names, occupancy) = ScoreOf(57, 100, 60, 100)
    BY <1>2, <1>6, ScoreOfLivingRoom
<1>8. RoundHalfUp(40 * 57 + 25 * 100 + 20 * 60 + 15 * 100, 100) = 75
    BY DEF RoundHalfUp
<1> QED
    BY <1>1, <1>7, <1>8 DEF ScoreOf

\* A small dog's room with a cable.
LEMMA ExampleOfSmallDog ==
    ASSUME NEW names, NEW occupancy, OccupancyPenalty(occupancy) = 40,
           names = {"cable", "sofa", "water_dispenser"}
    PROVE  Generate("small_dog", "living_room", names, occupancy)
             = [total |-> 50, safety |-> 50, activity |-> 40, rest |-> 60, environment |-> 50]
<1>1. PICK group \in Groups : group = "small_dog"
    BY DEF Groups
<1>2. PICK w, l, p : w = WeightsOf(group) /\ l = LossesOf(group, names, occupancy)
                     /\ p = Penalty(names, occupancy)
    OBVIOUS
<1>3. /\ p["CABLE_EXPOSURE"] = 100 /\ p["STAIRS_RISK"] = 0 /\ p["WINDOW_SAFETY"] = 0
      /\ p["SLIP_RISK"] = 50 /\ p["VERTICAL_SPACE"] = 100 /\ p["REST_SPACE"] = 40
      /\ p["FEEDING_ENV"] = 50 /\ p["ACTIVITY_SPACE"] = 40
    <2>1. /\ "cable" \in names /\ "stairs" \notin names /\ "window" \notin names
          /\ "carpet" \notin names /\ "cat_tower" \notin names /\ "pet_bed" \notin names
          /\ "sofa" \in names /\ "feeder" \notin names /\ "water_dispenser" \in names
        OBVIOUS
    <2> QED
        BY <1>2, <2>1, PenaltiesSpelledOut
<1>4. /\ w["CABLE_EXPOSURE"] = 3 /\ w["STAIRS_RISK"] = 2 /\ w["WINDOW_SAFETY"] = 1
      /\ w["SLIP_RISK"] = 2 /\ w["VERTICAL_SPACE"] = 1 /\ w["REST_SPACE"] = 2
      /\ w["FEEDING_ENV"] = 2 /\ w["ACTIVITY_SPACE"] = 2
    BY <1>1, <1>2, LossesSpelledOut DEF Weight, For
<1>5. /\ l["CABLE_EXPOSURE"] = 300 /\ l["STAIRS_RISK"] = 0 /\ l["WINDOW_SAFETY"] = 0
      /\ l["SLIP_RISK"] = 100 /\ l["VERTICAL_SPACE"] = 100 /\ l["REST_SPACE"] = 80
      /\ l["FEEDING_ENV"] = 100 /\ l["ACTIVITY_SPACE"] = 80
    BY <1>2, <1>3, <1>4, LossesSpelledOut
<1>6. MeansOf(w, l, 50, 40, 60, 50)
    BY <1>4, <1>5 DEF MeansOf, Mean, RoundHalfUp
<1>7. Generate(group, "living_room", names, occupancy) = ScoreOf(50, 40, 60, 50)
    BY <1>2, <1>6, ScoreOfLivingRoom
<1>8. RoundHalfUp(40 * 50 + 25 * 40 + 20 * 60 + 15 * 50, 100) = 50
    BY DEF RoundHalfUp
<1> QED
    BY <1>1, <1>7, <1>8 DEF ScoreOf

\* A large dog's room without a danger.
LEMMA ExampleOfLargeDog ==
    ASSUME NEW names, NEW occupancy, OccupancyPenalty(occupancy) = 0,
           names = {"sofa", "carpet", "feeder"}
    PROVE  Generate("large_dog", "living_room", names, occupancy)
             = [total |-> 78, safety |-> 100, activity |-> 75, rest |-> 60, environment |-> 50]
<1>1. PICK group \in Groups : group = "large_dog"
    BY DEF Groups
<1>2. PICK w, l, p : w = WeightsOf(group) /\ l = LossesOf(group, names, occupancy)
                     /\ p = Penalty(names, occupancy)
    OBVIOUS
<1>3. /\ p["CABLE_EXPOSURE"] = 0 /\ p["STAIRS_RISK"] = 0 /\ p["WINDOW_SAFETY"] = 0
      /\ p["SLIP_RISK"] = 0 /\ p["VERTICAL_SPACE"] = 100 /\ p["REST_SPACE"] = 40
      /\ p["FEEDING_ENV"] = 50 /\ p["ACTIVITY_SPACE"] = 0
    <2>1. /\ "cable" \notin names /\ "stairs" \notin names /\ "window" \notin names
          /\ "carpet" \in names /\ "cat_tower" \notin names /\ "pet_bed" \notin names
          /\ "sofa" \in names /\ "feeder" \in names /\ "water_dispenser" \notin names
        OBVIOUS
    <2> QED
        BY <1>2, <2>1, PenaltiesSpelledOut
<1>4. /\ w["CABLE_EXPOSURE"] = 3 /\ w["STAIRS_RISK"] = 3 /\ w["WINDOW_SAFETY"] = 1
      /\ w["SLIP_RISK"] = 3 /\ w["VERTICAL_SPACE"] = 1 /\ w["REST_SPACE"] = 2
      /\ w["FEEDING_ENV"] = 2 /\ w["ACTIVITY_SPACE"] = 3
    BY <1>1, <1>2, LossesSpelledOut DEF Weight, For
<1>5. /\ l["CABLE_EXPOSURE"] = 0 /\ l["STAIRS_RISK"] = 0 /\ l["WINDOW_SAFETY"] = 0
      /\ l["SLIP_RISK"] = 0 /\ l["VERTICAL_SPACE"] = 100 /\ l["REST_SPACE"] = 80
      /\ l["FEEDING_ENV"] = 100 /\ l["ACTIVITY_SPACE"] = 0
    BY <1>2, <1>3, <1>4, LossesSpelledOut
<1>6. MeansOf(w, l, 100, 75, 60, 50)
    BY <1>4, <1>5 DEF MeansOf, Mean, RoundHalfUp
<1>7. Generate(group, "living_room", names, occupancy) = ScoreOf(100, 75, 60, 50)
    BY <1>2, <1>6, ScoreOfLivingRoom
<1>8. RoundHalfUp(40 * 100 + 25 * 75 + 20 * 60 + 15 * 50, 100) = 78
    BY DEF RoundHalfUp
<1> QED
    BY <1>1, <1>7, <1>8 DEF ScoreOf

\* The stub's room, for a small dog where it lives, sleeps or only looks out.
StubScore(space) ==
    CASE space = "living_room" -> ScoreOf(50, 67, 60, 50)
      [] space = "bedroom" -> ScoreOf(50, 67, 60, 100)
      [] space = "balcony" -> ScoreOf(33, 100, 100, 100)

LEMMA ExampleOfStub ==
    ASSUME NEW space \in {"living_room", "bedroom", "balcony"},
           NEW names, NEW occupancy, OccupancyPenalty(occupancy) = 0,
           names = {"cable", "window", "carpet", "sofa", "water_dispenser"}
    PROVE  Generate("small_dog", space, names, occupancy) = StubScore(space)
<1>1. PICK group \in Groups : group = "small_dog"
    BY DEF Groups
<1>2. PICK w, l, p : w = WeightsOf(group) /\ l = LossesOf(group, names, occupancy)
                     /\ p = Penalty(names, occupancy)
    OBVIOUS
<1>3. /\ p["CABLE_EXPOSURE"] = 100 /\ p["STAIRS_RISK"] = 0 /\ p["WINDOW_SAFETY"] = 100
      /\ p["SLIP_RISK"] = 0 /\ p["VERTICAL_SPACE"] = 100 /\ p["REST_SPACE"] = 40
      /\ p["FEEDING_ENV"] = 50 /\ p["ACTIVITY_SPACE"] = 0
    <2>1. /\ "cable" \in names /\ "stairs" \notin names /\ "window" \in names
          /\ "carpet" \in names /\ "cat_tower" \notin names /\ "pet_bed" \notin names
          /\ "sofa" \in names /\ "feeder" \notin names /\ "water_dispenser" \in names
        OBVIOUS
    <2> QED
        BY <1>2, <2>1, PenaltiesSpelledOut
<1>4. /\ w["CABLE_EXPOSURE"] = 3 /\ w["STAIRS_RISK"] = 2 /\ w["WINDOW_SAFETY"] = 1
      /\ w["SLIP_RISK"] = 2 /\ w["VERTICAL_SPACE"] = 1 /\ w["REST_SPACE"] = 2
      /\ w["FEEDING_ENV"] = 2 /\ w["ACTIVITY_SPACE"] = 2
    BY <1>1, <1>2, LossesSpelledOut DEF Weight, For
<1>5. /\ l["CABLE_EXPOSURE"] = 300 /\ l["STAIRS_RISK"] = 0 /\ l["WINDOW_SAFETY"] = 100
      /\ l["SLIP_RISK"] = 0 /\ l["VERTICAL_SPACE"] = 100 /\ l["REST_SPACE"] = 80
      /\ l["FEEDING_ENV"] = 100 /\ l["ACTIVITY_SPACE"] = 0
    BY <1>2, <1>3, <1>4, LossesSpelledOut
<1>6. space \in Spaces
    BY DEF Spaces
<1>7. PICK home, fed : home = IsHome(space) /\ fed = IsFed(space)
    OBVIOUS
<1>8. /\ Terms("safety", space, w) = IF home THEN 8 ELSE 6
      /\ Terms("safety", space, l) = 400
      /\ Terms("activity", space, w) = IF home THEN 3 ELSE 0
      /\ Terms("activity", space, l) = IF home THEN 100 ELSE 0
      /\ Terms("rest", space, w) = IF home THEN 2 ELSE 0
      /\ Terms("rest", space, l) = IF home THEN 80 ELSE 0
      /\ Terms("environment", space, w) = IF fed THEN 2 ELSE 0
      /\ Terms("environment", space, l) = IF fed THEN 100 ELSE 0
    BY <1>4, <1>5, <1>7 DEF Terms, SafetyTerms
<1>9. /\ Mean(8, 400) = 50 /\ Mean(6, 400) = 33 /\ Mean(3, 100) = 67 /\ Mean(2, 80) = 60
      /\ Mean(2, 100) = 50 /\ Mean(0, 0) = 100
    BY DEF Mean, RoundHalfUp
<1>10. PICK score : score = Generate(group, space, names, occupancy)
    OBVIOUS
<1>11. score = ScoreOf(Mean(Terms("safety", space, w), Terms("safety", space, l)),
                       Mean(Terms("activity", space, w), Terms("activity", space, l)),
                       Mean(Terms("rest", space, w), Terms("rest", space, l)),
                       Mean(Terms("environment", space, w), Terms("environment", space, l)))
    BY <1>2, <1>6, <1>10, ScoreOfRoom
<1>12. CASE space = "living_room"
    <2>1. home /\ fed
        BY <1>7, <1>12 DEF IsHome, IsFed
    <2>2. score = ScoreOf(50, 67, 60, 50)
        BY <1>8, <1>9, <1>11, <2>1
    <2> QED
        BY <1>1, <1>10, <1>12, <2>2 DEF StubScore
<1>13. CASE space = "bedroom"
    <2>1. home /\ ~fed
        BY <1>7, <1>13 DEF IsHome, IsFed
    <2>2. score = ScoreOf(50, 67, 60, 100)
        BY <1>8, <1>9, <1>11, <2>1
    <2> QED
        BY <1>1, <1>10, <1>13, <2>2 DEF StubScore
<1>14. CASE space = "balcony"
    <2>1. ~home /\ ~fed
        BY <1>7, <1>14 DEF IsHome, IsFed
    <2>2. score = ScoreOf(33, 100, 100, 100)
        BY <1>8, <1>9, <1>11, <2>1
    <2> QED
        BY <1>1, <1>10, <1>14, <2>2 DEF StubScore
<1> QED
    BY <1>12, <1>13, <1>14

\* A room like an example.
Resembles(e, group, space, names, occupancy) ==
    /\ group = e.group /\ space = e.space /\ names = e.names
    /\ OccupancyPenalty(occupancy) = OccupancyPenalty(e.occupancy)

LEMMA ExamplesAreComputed ==
    ASSUME NEW e \in Examples, NEW group, NEW space, NEW names, NEW occupancy,
           Resembles(e, group, space, names, occupancy)
    PROVE  /\ Generate(group, space, names, occupancy) = e.score
           /\ \A class \in names :
                Classify(class, group) =
                    IF class \in DOMAIN e.risky THEN e.risky[class] ELSE "SAFE"
<1>1. CASE e = Example("cat", "living_room",
            {"window", "cat_tower", "sofa", "carpet", "feeder", "water_dispenser"},
            [window |-> "HIGH"], 3500,
            [total |-> 75, safety |-> 57, activity |-> 100, rest |-> 60, environment |-> 100])
    <2>1. /\ group = "cat" /\ space = "living_room"
          /\ names = {"window", "cat_tower", "sofa", "carpet", "feeder", "water_dispenser"}
          /\ e.risky = [window |-> "HIGH"] /\ e.occupancy = 3500
          /\ e.score = [total |-> 75, safety |-> 57, activity |-> 100, rest |-> 60,
                        environment |-> 100]
        BY <1>1 DEF Example, Resembles
    <2>2. OccupancyPenalty(occupancy) = 0
        BY <2>1 DEF Resembles, OccupancyPenalty
    <2>3. Generate(group, space, names, occupancy) = e.score
        BY <2>1, <2>2, ExampleOfCat
    <2>4. ASSUME NEW class \in names
          PROVE  Classify(class, group) =
                    IF class \in DOMAIN e.risky THEN e.risky[class] ELSE "SAFE"
        BY <2>1 DEF Classify, RiskItemOf, MinimumRisk, Weight, For
    <2> QED
        BY <2>3, <2>4
<1>2. CASE e = Example("small_dog", "living_room", {"cable", "sofa", "water_dispenser"},
            [cable |-> "HIGH"], 4500,
            [total |-> 50, safety |-> 50, activity |-> 40, rest |-> 60, environment |-> 50])
    <2>1. /\ group = "small_dog" /\ space = "living_room"
          /\ names = {"cable", "sofa", "water_dispenser"}
          /\ e.risky = [cable |-> "HIGH"] /\ e.occupancy = 4500
          /\ e.score = [total |-> 50, safety |-> 50, activity |-> 40, rest |-> 60,
                        environment |-> 50]
        BY <1>2 DEF Example, Resembles
    <2>2. OccupancyPenalty(occupancy) = 40
        BY <2>1 DEF Resembles, OccupancyPenalty
    <2>3. Generate(group, space, names, occupancy) = e.score
        BY <2>1, <2>2, ExampleOfSmallDog
    <2>4. ASSUME NEW class \in names
          PROVE  Classify(class, group) =
                    IF class \in DOMAIN e.risky THEN e.risky[class] ELSE "SAFE"
        BY <2>1 DEF Classify, RiskItemOf, MinimumRisk, Weight, For, Rank
    <2> QED
        BY <2>3, <2>4
<1>3. CASE e = Example("large_dog", "living_room", {"sofa", "carpet", "feeder"}, <<>>, 3000,
            [total |-> 78, safety |-> 100, activity |-> 75, rest |-> 60, environment |-> 50])
    <2>1. /\ group = "large_dog" /\ space = "living_room"
          /\ names = {"sofa", "carpet", "feeder"}
          /\ e.risky = <<>> /\ e.occupancy = 3000
          /\ e.score = [total |-> 78, safety |-> 100, activity |-> 75, rest |-> 60,
                        environment |-> 50]
        BY <1>3 DEF Example, Resembles
    <2>2. OccupancyPenalty(occupancy) = 0
        BY <2>1 DEF Resembles, OccupancyPenalty
    <2>3. Generate(group, space, names, occupancy) = e.score
        BY <2>1, <2>2, ExampleOfLargeDog
    <2>4. ASSUME NEW class \in names
          PROVE  Classify(class, group) =
                    IF class \in DOMAIN e.risky THEN e.risky[class] ELSE "SAFE"
        <3>1. class \notin DOMAIN RiskItemOf
            BY <2>1 DEF RiskItemOf
        <3>2. DOMAIN e.risky = {}
            BY <2>1
        <3> QED
            BY <3>1, <3>2 DEF Classify
    <2> QED
        BY <2>3, <2>4
<1>4. ASSUME NEW home \in {"living_room", "bedroom", "balcony"}, e = StubRoom(home, StubScore(home))
      PROVE  /\ Generate(group, space, names, occupancy) = e.score
             /\ \A class \in names :
                  Classify(class, group) =
                      IF class \in DOMAIN e.risky THEN e.risky[class] ELSE "SAFE"
    <2>1. PICK score : score = StubScore(home)
        OBVIOUS
    <2>2. /\ group = "small_dog" /\ space = home
          /\ names = {"cable", "window", "carpet", "sofa", "water_dispenser"}
          /\ e.risky = [cable |-> "HIGH", window |-> "LOW"] /\ e.occupancy = 3500
          /\ e.score = score
        BY <1>4, <2>1 DEF StubRoom, Example, Resembles
    <2>3. OccupancyPenalty(occupancy) = 0
        BY <2>2 DEF Resembles, OccupancyPenalty
    <2>4. Generate(group, space, names, occupancy) = e.score
        BY <2>1, <2>2, <2>3, ExampleOfStub
    <2>5. ASSUME NEW class \in names
          PROVE  Classify(class, group) =
                    IF class \in DOMAIN e.risky THEN e.risky[class] ELSE "SAFE"
        BY <2>2 DEF Classify, RiskItemOf, MinimumRisk, Weight, For, Rank
    <2> QED
        BY <2>4, <2>5
<1>5. e \in FewShots \/ e \in StubRooms
    BY DEF Examples
<1>6. CASE e \in FewShots
    BY <1>1, <1>2, <1>3, <1>6 DEF FewShots
<1>7. CASE e \in StubRooms
    <2>1. StubScore("living_room") =
            [total |-> 56, safety |-> 50, activity |-> 67, rest |-> 60, environment |-> 50]
        BY DEF StubScore, ScoreOf, RoundHalfUp
    <2>2. StubScore("bedroom") =
            [total |-> 64, safety |-> 50, activity |-> 67, rest |-> 60, environment |-> 100]
        BY DEF StubScore, ScoreOf, RoundHalfUp
    <2>3. StubScore("balcony") =
            [total |-> 73, safety |-> 33, activity |-> 100, rest |-> 100, environment |-> 100]
        BY DEF StubScore, ScoreOf, RoundHalfUp
    <2>4. \E home \in {"living_room", "bedroom", "balcony"} : e = StubRoom(home, StubScore(home))
        BY <1>7, <2>1, <2>2, <2>3 DEF StubRooms
    <2> QED
        BY <1>4, <2>4
<1> QED
    BY <1>5, <1>6, <1>7

(* The scores and risks that FEW_SHOTS of prompts.py shows the model, and  *)
(* those that the tests expect of the room of stub.py in three spaces, are *)
(* the ones the rules give such a room, whatever the video is.             *)
THEOREM ExamplesAreTrue == Spec => []ExamplesFollowRules
<1>1. PromptInv => ExamplesFollowRules
    <2> SUFFICES ASSUME PromptInv, report.prompt # None,
                        NEW e \in Examples,
                        input.form = [group |-> e.group, space |-> e.space],
                        DetectedNames = e.names,
                        OccupancyPenalty(vision.occupancy) = OccupancyPenalty(e.occupancy)
                 PROVE  /\ report.prompt.score = e.score
                        /\ \A o \in ToSet(report.prompt.objects) :
                            o.risk = IF o.name \in DOMAIN e.risky THEN e.risky[o.name] ELSE "SAFE"
        BY DEF ExamplesFollowRules
    <2>1. PICK group, space : group = input.form.group /\ space = input.form.space
        OBVIOUS
    <2>2. Resembles(e, group, space, DetectedNames, vision.occupancy)
        BY <2>1 DEF Resembles
    <2>3. report.prompt.score = Generate(group, space, DetectedNames, vision.occupancy)
        BY <2>1 DEF PromptInv, Shows, Score
    <2>4. AreTold(report.prompt.objects, group, DetectedNames)
        BY <2>1 DEF PromptInv, Shows
    <2> QED
        BY <2>2, <2>3, <2>4, ExamplesAreComputed DEF AreTold
<1> QED
    BY <1>1, SamplingInitInv, SamplingNextInv, ScoreInitInv, ScoreNextInv, VisionInitInv,
       VisionNextInv, PromptInitInv, PromptNextInv, PTL DEF Spec

-----------------------------------------------------------------------------
(* How often an element occurs in a list.                                  *)
Times(d, s) == Cardinality({k \in DOMAIN s : s[k] = d})

LEMMA TimesIsNumber ==
    ASSUME NEW X, NEW s, s \in Seq(X), NEW d
    PROVE  Times(d, s) \in Nat /\ IsFiniteSet({k \in DOMAIN s : s[k] = d})
<1>1. PICK n \in Nat : DOMAIN s = 1..n
    BY ListElements
<1>2. PICK K : K = {k \in DOMAIN s : s[k] = d}
    OBVIOUS
<1>3. K \subseteq 1..n
    BY <1>1, <1>2
<1>4. IsFiniteSet(K) /\ Cardinality(K) \in Nat
    <2>1. IsFiniteSet(1..n)
        BY FS_Interval
    <2>2. IsFiniteSet(K)
        BY <1>3, <2>1, FS_Subset
    <2> QED
        BY <2>2, FS_CardinalityType
<1> QED
    BY <1>2, <1>4 DEF Times

Joins(r, s, t, X) == s \in Seq(X) /\ t \in Seq(X) /\ r = s \o t

LEMMA TimesOfConcat ==
    ASSUME NEW X, NEW s, NEW t, NEW d, NEW r, Joins(r, s, t, X)
    PROVE  Times(d, r) = Times(d, s) + Times(d, t)
<1> USE DEF Joins
<1>2. PICK n \in Nat, m \in Nat : n = Len(s) /\ m = Len(t) /\ DOMAIN s = 1..n /\ DOMAIN t = 1..m
    BY ListElements
<1>3. /\ r \in Seq(X) /\ DOMAIN r = 1..(n + m)
      /\ \A i \in 1..(n + m) : r[i] = IF i <= n THEN s[i] ELSE t[i - n]
    <2>1. /\ r \in Seq(X) /\ Len(r) = n + m
          /\ \A i \in 1..(n + m) : r[i] = IF i <= n THEN s[i] ELSE t[i - n]
        BY <1>2, ConcatProperties
    <2> QED
        BY <2>1, ListElements
<1>4. PICK I, J, K : /\ I = {k \in DOMAIN s : s[k] = d} /\ J = {k \in DOMAIN t : t[k] = d}
                     /\ K = {k \in DOMAIN r : r[k] = d}
    OBVIOUS
<1> DEFINE f == [j \in J |-> n + j]
           L == {n + j : j \in J}
<1>5. IsFiniteSet(I) /\ IsFiniteSet(J) /\ I \subseteq 1..n /\ J \subseteq 1..m
    <2>1. IsFiniteSet(I) /\ IsFiniteSet(J)
        BY <1>4, TimesIsNumber
    <2> QED
        BY <1>2, <1>4, <2>1
<1>6. f \in Bijection(J, L)
    <2>1. f \in [J -> L] /\ \A i, j \in J : f[i] = f[j] => i = j
        BY <1>5
    <2>2. \A x \in L : \E j \in J : f[j] = x
        OBVIOUS
    <2> QED
        BY <2>1, <2>2 DEF Bijection, Injection, Surjection, IsInjective
<1>7. IsFiniteSet(L) /\ Cardinality(L) = Cardinality(J)
    <2> HIDE DEF f, L
    <2> QED
        BY <1>5, <1>6, FS_Bijection DEF ExistsBijection
<1>8. K = I \cup L
    <2>1. ASSUME NEW k \in K PROVE k \in I \cup L
        <3>1. k \in 1..(n + m) /\ r[k] = d
            BY <1>3, <1>4
        <3>2. CASE k <= n
            BY <1>2, <1>3, <1>4, <3>1, <3>2
        <3>3. CASE ~(k <= n)
            <4>1. k - n \in 1..m /\ n + (k - n) = k
                BY <3>1, <3>3
            <4>2. t[k - n] = d
                BY <1>3, <3>1, <3>3
            <4>3. k - n \in J
                BY <1>2, <1>4, <4>1, <4>2
            <4> QED
                BY <4>1, <4>3
        <3> QED
            BY <3>2, <3>3
    <2>2. ASSUME NEW k \in I PROVE k \in K
        <3>1. k \in 1..n /\ s[k] = d
            BY <1>4, <1>5
        <3>2. k \in 1..(n + m) /\ k <= n
            BY <3>1
        <3> QED
            BY <1>3, <1>4, <3>1, <3>2
    <2>3. ASSUME NEW k \in L PROVE k \in K
        <3>1. PICK j \in J : k = n + j
            OBVIOUS
        <3>2. j \in 1..m /\ t[j] = d
            BY <1>4, <1>5
        <3>3. k \in 1..(n + m) /\ ~(k <= n) /\ k - n = j
            BY <3>1, <3>2
        <3> QED
            BY <1>3, <1>4, <3>2, <3>3
    <2> QED
        BY <2>1, <2>2, <2>3
<1>9. I \cap L = {}
    BY <1>5
<1> HIDE DEF f, L
<1>10. Cardinality(K) = Cardinality(I) + Cardinality(L)
    <2>1. Cardinality(I) \in Nat /\ Cardinality(L) \in Nat
        BY <1>5, <1>7, FS_CardinalityType
    <2>2. Cardinality(I \cup L) = Cardinality(I) + Cardinality(L) - Cardinality(I \cap L)
        BY <1>5, <1>7, FS_Union
    <2>3. Cardinality(I \cap L) = 0
        BY <1>9, FS_EmptySet
    <2> QED
        BY <1>8, <2>1, <2>2, <2>3
<1> QED
    BY <1>4, <1>7, <1>10 DEF Times

\* v has the lists of u, those in I with one more occurrence of d, and more lists.
Grown(u, v, l, n, d, I) ==
    /\ l <= n /\ I \subseteq 1..n
    /\ \A t \in 1..l : Times(d, v[t]) = Times(d, u[t]) + (IF t \in I THEN 1 ELSE 0)
    /\ \A t \in (l + 1)..n : Times(d, v[t]) = IF t \in I THEN 1 ELSE 0

LEMMA SizeOfSegments ==
    ASSUME NEW n \in Nat, NEW I, I \subseteq 1..n
    PROVE  /\ \A k \in 0..n : Cardinality(I \cap (1..k)) \in Nat
           /\ Cardinality(I \cap (1..0)) = 0 /\ I \cap (1..n) = I
           /\ \A k \in 1..n :
                Cardinality(I \cap (1..k)) = Cardinality(I \cap (1..(k - 1)))
                                                + (IF k \in I THEN 1 ELSE 0)
<1>1. ASSUME NEW k \in 0..n
      PROVE  IsFiniteSet(I \cap (1..k)) /\ Cardinality(I \cap (1..k)) \in Nat
    <2>1. IsFiniteSet(1..k) /\ I \cap (1..k) \subseteq 1..k
        BY FS_Interval
    <2>2. IsFiniteSet(I \cap (1..k))
        BY <2>1, FS_Subset
    <2> QED
        BY <2>2, FS_CardinalityType
<1>2. Cardinality(I \cap (1..0)) = 0
    <2>1. I \cap (1..0) = {}
        OBVIOUS
    <2> QED
        BY <2>1, FS_EmptySet
<1>3. ASSUME NEW k \in 1..n
      PROVE  Cardinality(I \cap (1..k)) = Cardinality(I \cap (1..(k - 1)))
                                            + (IF k \in I THEN 1 ELSE 0)
    <2> DEFINE A == I \cap (1..(k - 1))
               B == I \cap (1..k)
    <2>1. A = I \cap (1..(k - 1)) /\ B = I \cap (1..k)
        OBVIOUS
    <2> HIDE DEF A, B
    <2>2. k - 1 \in 0..n
        OBVIOUS
    <2>3. IsFiniteSet(A) /\ k \notin A
        BY <1>1, <2>1, <2>2
    <2>4. CASE k \in I
        <3>1. B = A \cup {k}
            BY <2>1, <2>4
        <3>2. Cardinality(B) = Cardinality(A) + 1 /\ Cardinality(A) \in Nat
            BY <2>3, <3>1, FS_AddElement, FS_CardinalityType
        <3>3. (IF k \in I THEN 1 ELSE 0) = 1
            BY <2>4
        <3>4. Cardinality(B) = Cardinality(A) + (IF k \in I THEN 1 ELSE 0)
            BY <3>2, <3>3, Zenon
        <3> QED
            BY <3>4 DEF A, B
    <2>5. CASE k \notin I
        <3>1. B = A
            BY <2>1, <2>5
        <3>2. Cardinality(A) \in Nat /\ (IF k \in I THEN 1 ELSE 0) = 0
            BY <2>3, <2>5, FS_CardinalityType
        <3>3. Cardinality(B) = Cardinality(A) + (IF k \in I THEN 1 ELSE 0)
            BY <3>1, <3>2
        <3> QED
            BY <3>3 DEF A, B
    <2> QED
        BY <2>4, <2>5
<1> QED
    BY <1>1, <1>2, <1>3

AreLists(u, l, X) == l \in Nat /\ u \in [1..l -> Seq(X)]

LEMMA TimesOfGrown ==
    ASSUME NEW X, NEW l, NEW n, NEW u, NEW v, AreLists(u, l, X), AreLists(v, n, X),
           NEW d, NEW I, Grown(u, v, l, n, d, I)
    PROVE  Times(d, FlattenSeq(v)) = Times(d, FlattenSeq(u)) + Cardinality(I)
<1> USE DEF AreLists
<1>1. PICK g : FlattensTo(g, u, l, X) /\ FlattenSeq(u) = g[l]
    BY FlattenedSteps
<1>2. PICK h : FlattensTo(h, v, n, X) /\ FlattenSeq(v) = h[n]
    BY FlattenedSteps
<1>3. /\ g[0] = <<>> /\ h[0] = <<>>
      /\ \A k \in 0..l : g[k] \in Seq(X)
      /\ \A k \in 0..n : h[k] \in Seq(X)
    BY <1>1, <1>2 DEF FlattensTo
<1> DEFINE a == [k \in 0..n |-> Times(d, h[k])]
           b == [k \in 0..n |-> Times(d, g[IF k <= l THEN k ELSE l])]
           c == [k \in 0..n |-> Cardinality(I \cap (1..k))]
           P == {k \in 0..n : a[k] = b[k] + c[k]}
<1>4. \A k \in 0..n : a[k] = Times(d, h[k]) /\ b[k] = Times(d, g[IF k <= l THEN k ELSE l])
    OBVIOUS
<1>5. \A k \in 0..n : a[k] \in Nat /\ b[k] \in Nat
    <2> SUFFICES ASSUME NEW k \in 0..n PROVE a[k] \in Nat /\ b[k] \in Nat
        OBVIOUS
    <2>1. PICK j \in 0..l : j = IF k <= l THEN k ELSE l
        BY DEF Grown
    <2>2. Times(d, h[k]) \in Nat /\ Times(d, g[j]) \in Nat
        BY <1>3, TimesIsNumber
    <2> HIDE DEF a, b
    <2> QED
        BY <1>4, <2>1, <2>2
<1>6. /\ \A k \in 0..n : c[k] \in Nat
      /\ c[0] = 0 /\ c[n] = Cardinality(I)
      /\ \A k \in 1..n : c[k] = c[k - 1] + (IF k \in I THEN 1 ELSE 0)
    <2>1. I \subseteq 1..n
        BY DEF Grown
    <2>2. 0 \in 0..n /\ n \in 0..n /\ \A k \in 1..n : k \in 0..n /\ k - 1 \in 0..n
        OBVIOUS
    <2>3. \A k \in 0..n : c[k] = Cardinality(I \cap (1..k))
        OBVIOUS
    <2> HIDE DEF c
    <2>4. /\ \A k \in 0..n : Cardinality(I \cap (1..k)) \in Nat
          /\ Cardinality(I \cap (1..0)) = 0 /\ I \cap (1..n) = I
        BY <2>1, SizeOfSegments
    <2>5. ASSUME NEW k \in 1..n PROVE c[k] = c[k - 1] + (IF k \in I THEN 1 ELSE 0)
        <3>1. Cardinality(I \cap (1..k)) = Cardinality(I \cap (1..(k - 1)))
                                              + (IF k \in I THEN 1 ELSE 0)
            BY <2>1, SizeOfSegments
        <3>2. c[k] = Cardinality(I \cap (1..k)) /\ c[k - 1] = Cardinality(I \cap (1..(k - 1)))
            BY <2>2, <2>3
        <3> QED
            BY <3>1, <3>2
    <2> QED
        BY <2>2, <2>3, <2>4, <2>5
<1> HIDE DEF a, b, c
<1>7. a[0] = 0 /\ b[0] = 0
    <2>1. 0 \in 0..n /\ 0 <= l
        OBVIOUS
    <2>2. a[0] = Times(d, <<>>) /\ b[0] = Times(d, <<>>)
        BY <1>3, <1>4, <2>1
    <2>3. {k \in DOMAIN <<>> : <<>>[k] = d} = {}
        OBVIOUS
    <2> QED
        BY <2>2, <2>3, FS_EmptySet DEF Times
<1>8. ASSUME NEW k \in 1..n
      PROVE  a[k] = a[k - 1] + Times(d, v[k]) /\ Times(d, v[k]) \in Nat
    <2>1. k \in 0..n /\ k - 1 \in 0..n
        OBVIOUS
    <2>2. h[k - 1] \in Seq(X) /\ v[k] \in Seq(X) /\ h[k] = h[k - 1] \o v[k]
        BY <1>2, <1>3, <2>1 DEF FlattensTo
    <2>3. Times(d, h[k]) = Times(d, h[k - 1]) + Times(d, v[k]) /\ Times(d, v[k]) \in Nat
        <3>1. PICK r, s, t : r = h[k] /\ s = h[k - 1] /\ t = v[k]
            OBVIOUS
        <3>2. s \in Seq(X) /\ t \in Seq(X) /\ r = s \o t
            BY <2>2, <3>1
        <3>3. Times(d, r) = Times(d, s) + Times(d, t)
            <4>1. Joins(r, s, t, X)
                BY <3>2 DEF Joins
            <4> QED
                BY <4>1, TimesOfConcat
        <3>4. Times(d, t) \in Nat
            BY <3>2, TimesIsNumber
        <3> QED
            BY <3>1, <3>3, <3>4
    <2> QED
        BY <1>4, <2>1, <2>3
<1>9. ASSUME NEW k \in 1..n, k <= l
      PROVE  b[k] = b[k - 1] + Times(d, u[k]) /\ Times(d, u[k]) \in Nat
    <2>1. k \in 0..n /\ k - 1 \in 0..n /\ k \in 1..l /\ k \in 0..l /\ k - 1 \in 0..l /\ k - 1 <= l
        BY <1>9
    <2>2. g[k - 1] \in Seq(X) /\ u[k] \in Seq(X) /\ g[k] = g[k - 1] \o u[k]
        BY <1>1, <1>3, <2>1 DEF FlattensTo
    <2>3. Times(d, g[k]) = Times(d, g[k - 1]) + Times(d, u[k]) /\ Times(d, u[k]) \in Nat
        <3>1. PICK r, s, t : r = g[k] /\ s = g[k - 1] /\ t = u[k]
            OBVIOUS
        <3>2. s \in Seq(X) /\ t \in Seq(X) /\ r = s \o t
            BY <2>2, <3>1
        <3>3. Times(d, r) = Times(d, s) + Times(d, t)
            <4>1. Joins(r, s, t, X)
                BY <3>2 DEF Joins
            <4> QED
                BY <4>1, TimesOfConcat
        <3>4. Times(d, t) \in Nat
            BY <3>2, TimesIsNumber
        <3> QED
            BY <3>1, <3>3, <3>4
    <2> QED
        BY <1>4, <1>9, <2>1, <2>3
<1>10. ASSUME NEW k \in 1..n, ~(k <= l)
       PROVE  b[k] = b[k - 1]
    <2>1. k \in 0..n /\ k - 1 \in 0..n /\ (k - 1 <= l => k - 1 = l)
        BY <1>10
    <2> QED
        BY <1>4, <1>10, <2>1
<1>11. ASSUME NEW k \in 1..n, a[k - 1] = b[k - 1] + c[k - 1] PROVE a[k] = b[k] + c[k]
    <2>1. k \in 0..n /\ k - 1 \in 0..n
        OBVIOUS
    <2>2. PICK one \in 0..1 : one = IF k \in I THEN 1 ELSE 0
        OBVIOUS
    <2>3. c[k] = c[k - 1] + one
        BY <1>6, <2>2
    <2>4. PICK p \in Nat, q \in Nat, r \in Nat : p = a[k - 1] /\ q = b[k - 1] /\ r = c[k - 1]
        BY <1>5, <1>6, <2>1
    <2>5. CASE k <= l
        <3>1. k \in 1..l
            BY <2>5
        <3>2. Times(d, v[k]) = Times(d, u[k]) + one
            BY <2>2, <3>1 DEF Grown
        <3>3. PICK x \in Nat : x = Times(d, u[k]) /\ b[k] = q + x
            BY <1>9, <2>4, <2>5
        <3>4. a[k] = p + (x + one)
            BY <1>8, <2>4, <3>2, <3>3
        <3>5. p = q + r /\ c[k] = r + one
            BY <1>11, <2>3, <2>4
        <3> QED
            BY <3>3, <3>4, <3>5
    <2>6. CASE ~(k <= l)
        <3>1. k \in (l + 1)..n
            BY <2>6
        <3>2. Times(d, v[k]) = one
            BY <2>2, <3>1 DEF Grown
        <3>3. a[k] = p + one /\ b[k] = q
            BY <1>8, <1>10, <2>4, <2>6, <3>2
        <3>4. p = q + r /\ c[k] = r + one
            BY <1>11, <2>3, <2>4
        <3> QED
            BY <3>3, <3>4
    <2> QED
        BY <2>5, <2>6
<1>12. 0 \in P /\ \A k \in 1..n : k - 1 \in P => k \in P
    BY <1>6, <1>7, <1>11
<1>13. n \in P
    <2> HIDE DEF P
    <2>1. \A k \in 0..n : k \in P
        BY <1>12, StepByStep, Zenon
    <2> QED
        BY <2>1
<1>14. a[n] = Times(d, FlattenSeq(v)) /\ b[n] = Times(d, FlattenSeq(u))
    <2>1. n \in 0..n /\ (n <= l => n = l)
        BY DEF Grown
    <2> QED
        BY <1>1, <1>2, <1>4, <2>1
<1> QED
    BY <1>6, <1>13, <1>14

-----------------------------------------------------------------------------
(* Where each detection of a frame goes: to the end of a track of its      *)
(* class, or to a new track, no two to the same.                           *)
PutIn(at, r, tracks, found, l, m, n) ==
    /\ l = Len(tracks) /\ m = Len(found) /\ n = Len(r) /\ l <= n
    /\ at \in [1..m -> 1..n]
    /\ \A i, j \in 1..m : at[i] = at[j] => i = j
    /\ \A j \in 1..m : at[j] <= l =>
        /\ tracks[at[j]].class = found[j].class
        /\ r[at[j]] = [tracks[at[j]] EXCEPT !.detections = Append(@, found[j])]
    /\ \A j \in 1..m : at[j] > l => r[at[j]] = Begun(found[j])
    /\ \A t \in 1..l : (\A j \in 1..m : at[j] # t) => r[t] = tracks[t]
    /\ \A t \in (l + 1)..n : \E j \in 1..m : at[j] = t
    /\ \A j \in 1..m : at[j] <= l => <<at[j], j>> \in Assigned(tracks, found)
    /\ \A p \in Assigned(tracks, found) : p[2] \in 1..m /\ at[p[2]] = p[1] /\ p[1] \in 1..l

LEMMA DetectionsPlaced ==
    ASSUME NEW N, NEW D, NEW tracks, NEW found, AreTracks(tracks, found, N, D),
           NEW r, r = Assign(tracks, found)
    PROVE  \E at : \E l, m, n \in Nat : PutIn(at, r, tracks, found, l, m, n)
<1>1. PICK A, F, c : A = Assigned(tracks, found) /\ F = Fresh(tracks, found) /\ c = Ascending(F)
    OBVIOUS
<1>2. A \subseteq Pairs(tracks, found) /\ \A p, q \in A : Meet(p, q) => p = q
    BY <1>1, GreedyAssignment DEF IsGreedy
<1>3. r \in Seq(Tracks(D)) /\ GoesOn(r, tracks, found)
    BY AssignGoesOn
<1>4. PICK l \in Nat, m \in Nat : l = Len(tracks) /\ m = Len(found) /\ DOMAIN found = 1..m
    BY ListElements DEF AreTracks
<1>5. \A p \in A : /\ p[1] \in 1..l /\ p[2] \in 1..m /\ p = <<p[1], p[2]>>
                   /\ tracks[p[1]].class = found[p[2]].class
    <2>1. Pairs(tracks, found) \subseteq (1..l) \X (1..m)
        BY <1>4, PairsAreOrdered
    <2> QED
        BY <1>2, <2>1 DEF Pairs
<1>6. F = {d \in 1..m : \A p \in A : p[2] # d}
    BY <1>1, <1>4 DEF Fresh
<1>7. PICK f \in Nat : f = Cardinality(F) /\ InOrder(c, f, F)
    <2>1. F \subseteq 1..m
        BY <1>6
    <2>2. Cardinality(F) \in 0..m
        BY <2>1, ArrangedNumbers
    <2>3. InOrder(c, Cardinality(F), F)
        BY <1>1, <1>3 DEF GoesOn
    <2> QED
        BY <2>2, <2>3
<1>8. /\ \A k \in 1..f : c[k] \in F
      /\ \A j, k \in 1..f : c[j] = c[k] => j = k
      /\ \A d \in F : \E k \in 1..f : c[k] = d
    <2>1. \A k \in 1..f : c[k] \in F /\ c[k] \in 1..m
        BY <1>6, <1>7 DEF InOrder
    <2>2. ASSUME NEW j \in 1..f, NEW k \in 1..f, c[j] = c[k] PROVE j = k
        <3>1. ~(j < k) /\ ~(k < j)
            BY <1>7, <2>1, <2>2 DEF InOrder
        <3> QED
            BY <3>1
    <2> QED
        BY <1>7, <2>1, <2>2 DEF InOrder
<1>9. PICK n \in Nat : n = l + f
    OBVIOUS
<1>10. Len(r) = n
    BY <1>1, <1>3, <1>4, <1>7, <1>9 DEF GoesOn
<1>11. \A k \in 1..f : r[l + k] = Begun(found[c[k]])
    BY <1>1, <1>3, <1>4, <1>7 DEF GoesOn
<1>12. \A t \in 1..l :
            \/ \E p \in A : p[1] = t
                    /\ r[t] = [tracks[t] EXCEPT !.detections = Append(@, found[p[2]])]
            \/ (\A p \in A : p[1] # t) /\ r[t] = tracks[t]
    BY <1>1, <1>3, <1>4 DEF GoesOn
<1> DEFINE Goes(i, j) == <<i, j>> \in A \/ \E k \in 1..f : i = l + k /\ c[k] = j
<1>13. ASSUME NEW j \in 1..m PROVE \E i \in 1..n : Goes(i, j)
    <2>1. CASE j \in F
        <3>1. PICK k \in 1..f : c[k] = j
            BY <1>8, <2>1
        <3>2. l + k \in 1..n
            BY <1>9
        <3> QED
            BY <3>1, <3>2
    <2>2. CASE j \notin F
        <3>1. PICK p \in A : p[2] = j
            BY <1>6, <2>2
        <3>2. p[1] \in 1..n /\ <<p[1], j>> \in A
            BY <1>5, <1>9, <3>1
        <3> QED
            BY <3>2
    <2> QED
        BY <2>1, <2>2
<1>14. ASSUME NEW i \in 1..n, NEW j \in 1..m, Goes(i, j)
       PROVE  \/ i <= l /\ <<i, j>> \in A
              \/ i > l /\ j \in F /\ i - l \in 1..f /\ c[i - l] = j
    <2>1. CASE <<i, j>> \in A
        <3>1. PICK p : p = <<i, j>>
            OBVIOUS
        <3>2. p[1] \in 1..l /\ p[1] = i
            BY <1>5, <2>1, <3>1
        <3> QED
            BY <2>1, <3>1, <3>2
    <2>2. CASE \E k \in 1..f : i = l + k /\ c[k] = j
        <3>1. PICK k \in 1..f : i = l + k /\ c[k] = j
            BY <2>2
        <3>2. i > l /\ i - l = k
            BY <3>1
        <3>3. j \in F
            BY <1>8, <3>1
        <3> QED
            BY <3>1, <3>2, <3>3
    <2> QED
        BY <1>14, <2>1, <2>2
<1>15. ASSUME NEW h \in 1..n, NEW i \in 1..m, NEW j \in 1..m, Goes(h, i), Goes(h, j)
       PROVE  i = j
    <2>1. CASE h <= l
        <3>1. PICK p, q : p = <<h, i>> /\ q = <<h, j>> /\ p \in A /\ q \in A
            BY <1>14, <1>15, <2>1
        <3>2. Meet(p, q)
            BY <3>1 DEF Meet
        <3>3. p = q
            BY <1>2, <3>1, <3>2
        <3> QED
            BY <3>1, <3>3
    <2>2. CASE ~(h <= l)
        <3>1. c[h - l] = i /\ c[h - l] = j
            BY <1>14, <1>15, <2>2
        <3> QED
            BY <3>1
    <2> QED
        BY <2>1, <2>2
<1>16. ASSUME NEW h \in 1..n, NEW i \in 1..n, NEW j \in 1..m, Goes(h, j), Goes(i, j)
       PROVE  h = i
    <2>1. CASE \E k \in {h, i} : k <= l
        <3>1. j \notin F
            <4>1. PICK k \in {h, i} : k <= l
                BY <2>1
            <4>2. <<k, j>> \in A
                BY <1>14, <1>16, <4>1
            <4>3. PICK p \in A : p = <<k, j>> /\ p[2] = j
                BY <4>2
            <4> QED
                BY <1>6, <4>3
        <3>2. PICK p, q : p = <<h, j>> /\ q = <<i, j>> /\ p \in A /\ q \in A
            BY <1>14, <1>16, <3>1
        <3>3. Meet(p, q)
            BY <3>2 DEF Meet
        <3>4. p = q
            BY <1>2, <3>2, <3>3
        <3> QED
            BY <3>2, <3>4
    <2>2. CASE ~(h <= l) /\ ~(i <= l)
        <3>1. /\ h - l \in 1..f /\ c[h - l] = j
              /\ i - l \in 1..f /\ c[i - l] = j
            BY <1>14, <1>16, <2>2
        <3>2. h - l = i - l
            BY <1>8, <3>1
        <3> QED
            BY <3>2
    <2> QED
        BY <2>1, <2>2
<1> HIDE DEF Goes
<1> DEFINE at == [j \in 1..m |-> CHOOSE i \in 1..n : Goes(i, j)]
<1>17. ASSUME NEW j \in 1..m PROVE at[j] \in 1..n /\ Goes(at[j], j)
    <2>1. at[j] = CHOOSE i \in 1..n : Goes(i, j)
        OBVIOUS
    <2> HIDE DEF at
    <2> QED
        BY <1>13, <2>1
<1>18. at \in [1..m -> 1..n]
    <2>1. \A j \in 1..m : (CHOOSE i \in 1..n : Goes(i, j)) \in 1..n
        BY <1>13
    <2> QED
        BY <2>1
<1> HIDE DEF at
<1>19. \A i, j \in 1..m : at[i] = at[j] => i = j
    BY <1>15, <1>17
<1>20. ASSUME NEW j \in 1..m, at[j] <= l
       PROVE  /\ tracks[at[j]].class = found[j].class
              /\ r[at[j]] = [tracks[at[j]] EXCEPT !.detections = Append(@, found[j])]
    <2>1. PICK t \in 1..l : t = at[j]
        BY <1>17, <1>20
    <2>2. PICK p \in A : p = <<t, j>> /\ p[1] = t /\ p[2] = j
        <3>1. t \in 1..n /\ t <= l /\ Goes(t, j)
            BY <1>17, <2>1
        <3>2. <<t, j>> \in A
            BY <1>14, <3>1
        <3> QED
            BY <3>2
    <2>3. PICK q \in A : q[1] = t
                /\ r[t] = [tracks[t] EXCEPT !.detections = Append(@, found[q[2]])]
        BY <1>12, <2>2
    <2>4. p = q
        BY <1>2, <2>2, <2>3 DEF Meet
    <2> QED
        BY <1>5, <2>1, <2>2, <2>3, <2>4
<1>21. ASSUME NEW j \in 1..m, at[j] > l
       PROVE  r[at[j]] = Begun(found[j])
    <2>0. PICK t \in 1..n : t = at[j] /\ t > l /\ Goes(t, j)
        BY <1>17, <1>21
    <2>3. ~(t <= l) /\ t \in 1..n /\ j \in 1..m /\ Goes(t, j)
        BY <2>0
    <2>4. t - l \in 1..f /\ c[t - l] = j
        BY <1>14, <2>3
    <2>1. PICK k \in 1..f : k = t - l /\ c[k] = j
        BY <2>4
    <2>2. at[j] = l + k
        BY <2>0, <2>1
    <2> QED
        BY <1>11, <2>1, <2>2
<1>22. ASSUME NEW t \in 1..l, \A j \in 1..m : at[j] # t
       PROVE  r[t] = tracks[t]
    <2>1. ASSUME NEW p \in A PROVE p[1] # t
        <3> SUFFICES ASSUME p[1] = t PROVE FALSE
            OBVIOUS
        <3>1. PICK j \in 1..m : j = p[2] /\ <<t, j>> \in A
            BY <1>5
        <3>2. t \in 1..n /\ Goes(t, j)
            BY <1>9, <3>1 DEF Goes
        <3>3. at[j] = t
            BY <1>16, <1>17, <3>2
        <3> QED
            BY <1>22, <3>3
    <2> QED
        BY <1>12, <2>1
<1>23. ASSUME NEW t \in (l + 1)..n
       PROVE  \E j \in 1..m : at[j] = t
    <2>1. PICK k \in 1..f : k = t - l /\ t = l + k
        BY <1>9
    <2>2. PICK j \in 1..m : j = c[k]
        BY <1>6, <1>8
    <2>3. t \in 1..n /\ Goes(t, j)
        BY <1>9, <2>1, <2>2 DEF Goes
    <2>4. at[j] = t
        BY <1>16, <1>17, <2>3
    <2> QED
        BY <2>4
<1>25. ASSUME NEW j \in 1..m, at[j] <= l PROVE <<at[j], j>> \in A
    <2>1. PICK t \in 1..n : t = at[j] /\ t <= l /\ Goes(t, j)
        BY <1>17, <1>25
    <2>2. <<t, j>> \in A
        BY <1>14, <2>1
    <2> QED
        BY <2>1, <2>2
<1>26. ASSUME NEW p \in A PROVE p[2] \in 1..m /\ at[p[2]] = p[1] /\ p[1] \in 1..l
    <2>1. PICK t \in 1..l, j \in 1..m : t = p[1] /\ j = p[2] /\ <<t, j>> \in A
        BY <1>5
    <2>2. t \in 1..n /\ Goes(t, j)
        BY <1>9, <2>1 DEF Goes
    <2>3. at[j] = t
        BY <1>16, <1>17, <2>2
    <2> QED
        BY <2>1, <2>3
<1>24. PutIn(at, r, tracks, found, l, m, n)
    <2>1. l <= n
        BY <1>9
    <2> QED
        BY <1>1, <1>4, <1>10, <1>18, <1>19, <1>20, <1>21, <1>22, <1>23, <1>25, <1>26, <2>1, Zenon
        DEF PutIn
<1> QED
    BY <1>24

(* A detection begins a track only where every track that it overlaps has  *)
(* taken a closer one.                                                     *)
LEMMA StartsWhereTaken ==
    ASSUME NEW N, NEW D, NEW tracks, NEW found, AreTracks(tracks, found, N, D)
    PROVE  StartsOnlyWhereTaken(tracks, Assign(tracks, found))
<1>1. PICK A, r, F, c : /\ A = Assigned(tracks, found) /\ r = Assign(tracks, found)
                        /\ F = Fresh(tracks, found) /\ c = Ascending(F)
    OBVIOUS
<1>2. /\ A \subseteq Pairs(tracks, found)
      /\ \A p, q \in A : Meet(p, q) => p = q
      /\ \A p \in Pairs(tracks, found) \ A :
            \E q \in A : Meet(q, p) /\ CloserPair(tracks, found, q, p)
    <2>1. IsGreedy(A, tracks, found)
        BY <1>1, GreedyAssignment
    <2>2. \A p, q : <<q, p>> \in CloserPairs(tracks, found) => CloserPair(tracks, found, q, p)
        BY DEF CloserPairs
    <2> QED
        BY <2>1, <2>2 DEF IsGreedy
<1>3. r \in Seq(Tracks(D)) /\ GoesOn(r, tracks, found)
    BY <1>1, AssignGoesOn
<1>4. PICK l \in Nat : l = Len(tracks) /\ DOMAIN tracks = 1..l
                       /\ \A t \in 1..l : tracks[t] \in Tracks(D)
    BY ListElements DEF AreTracks
<1>5. PICK m \in Nat : m = Len(found) /\ DOMAIN found = 1..m /\ \A k \in 1..m : found[k] \in D
    BY ListElements DEF AreTracks
<1>6. F = {d \in 1..m : \A p \in A : p[2] # d}
    BY <1>1, <1>5 DEF Fresh
<1>7. PICK f \in Nat : f = Cardinality(F) /\ InOrder(c, f, F)
    <2>1. F \subseteq 1..m
        BY <1>6
    <2>2. Cardinality(F) \in 0..m
        BY <2>1, ArrangedNumbers
    <2>3. InOrder(c, Cardinality(F), F)
        BY <1>1, <1>3 DEF GoesOn
    <2> QED
        BY <2>2, <2>3
<1>8. DOMAIN r = 1..(l + f)
    <2>1. Len(r) = l + f
        BY <1>1, <1>3, <1>4, <1>7 DEF GoesOn
    <2> QED
        BY <1>3, <2>1, ListElements
<1>9. ASSUME NEW k \in DOMAIN r \ DOMAIN tracks
      PROVE  \E j \in F : r[k] = Begun(found[j]) /\ LastBox(r[k]) = found[j].box
    <2>1. PICK i \in 1..f : k = l + i
        <3>1. k - l \in 1..f /\ k = l + (k - l)
            BY <1>4, <1>8
        <3> QED
            BY <3>1
    <2>2. PICK j : j = c[i] /\ j \in F
        BY <1>7 DEF InOrder
    <2>3. r[k] = Begun(found[j])
        BY <1>1, <1>3, <1>4, <1>7, <2>1, <2>2 DEF GoesOn
    <2>4. LastBox(Begun(found[j])) = found[j].box
        BY DEF LastBox, Last, Begun
    <2> QED
        BY <2>2, <2>3, <2>4
<1>10. ASSUME NEW k \in DOMAIN r \ DOMAIN tracks, NEW t \in DOMAIN tracks,
              tracks[t].class = r[k].class,
              Normalize(Iou(LastBox(tracks[t]), LastBox(r[k]))) >= TrackingIouThreshold
       PROVE  WentOnCloser(tracks[t], r[t], LastBox(r[k]))
    <2>1. PICK j \in F : r[k] = Begun(found[j]) /\ LastBox(r[k]) = found[j].box
        BY <1>9
    <2>2. j \in 1..m /\ \A q \in A : q[2] # j
        BY <1>6
    <2>3. PICK p : p = <<t, j>> /\ p[1] = t /\ p[2] = j
        <3>1. <<t, j>>[1] = t /\ <<t, j>>[2] = j
            OBVIOUS
        <3> QED
            BY <3>1, Zenon
    <2>4. r[k].class = found[j].class
        BY <2>1 DEF Begun
    <2>5. p \in Pairs(tracks, found) \ A
        <3>1. p \in (DOMAIN tracks) \X (DOMAIN found)
            BY <1>5, <2>2, <2>3
        <3>2. Closeness(tracks, found, p) = Iou(LastBox(tracks[t]), found[j].box)
            BY <2>3 DEF Closeness
        <3>3. tracks[p[1]].class = found[p[2]].class
            BY <1>10, <2>3, <2>4
        <3>4. Normalize(Closeness(tracks, found, p)) >= TrackingIouThreshold
            BY <1>10, <2>1, <3>2
        <3>5. p \notin A
            BY <2>2, <2>3
        <3> QED
            BY <3>1, <3>3, <3>4, <3>5 DEF Pairs
    <2>6. PICK q \in A : Meet(q, p) /\ CloserPair(tracks, found, q, p)
        BY <1>2, <2>5
    <2>7. q[1] = t /\ q[2] \in 1..m
        <3>1. q[2] # p[2]
            BY <2>2, <2>3
        <3>2. q[1] = t
            BY <2>3, <2>6, <3>1 DEF Meet
        <3>3. q \in Pairs(tracks, found)
            BY <1>2
        <3> QED
            BY <1>5, <3>2, <3>3 DEF Pairs
    <2>8. PICK i \in 1..m : i = q[2]
        BY <2>7
    <2>9. r[t] = [tracks[t] EXCEPT !.detections = Append(@, found[i])]
        <3>1. t \in 1..Len(tracks)
            BY <1>4
        <3>2. PICK s \in A : s[1] = t
                /\ r[t] = [tracks[t] EXCEPT !.detections = Append(@, found[s[2]])]
            BY <1>1, <1>3, <2>7, <3>1 DEF GoesOn
        <3>3. s = q
            BY <1>2, <2>7, <3>2 DEF Meet
        <3> QED
            BY <2>8, <3>2, <3>3
    <2>10. PICK u : u = tracks[t] /\ u \in Tracks(D)
        BY <1>4
    <2>11. PICK s, e : s = u.detections /\ e = Append(s, found[i]) /\ s \in Seq(D) /\ found[i] \in D
        BY <1>5, <2>10 DEF Tracks
    <2>12. r[t].detections = e
        BY <2>9, <2>10, <2>11, GrownTrack
    <2>13. Len(e) = Len(s) + 1 /\ Len(s) \in Nat /\ Last(e) = found[i]
        <3>1. Len(e) = Len(s) + 1 /\ Len(s) \in Nat /\ e[Len(s) + 1] = found[i]
            BY <2>11, AppendProperties, LenProperties
        <3> QED
            BY <3>1 DEF Last
    <2>14. LastBox(r[t]) = found[i].box
        BY <2>12, <2>13 DEF LastBox
    <2>15. Len(r[t].detections) > Len(tracks[t].detections)
        BY <2>10, <2>11, <2>12, <2>13
    <2>16. PICK x, y : x = Iou(LastBox(tracks[t]), found[j].box)
                       /\ y = Iou(LastBox(tracks[t]), found[i].box)
        OBVIOUS
    <2>17. IsRatio(x) /\ IsRatio(y)
        <3>1. LastBox(u) \in FrameBox
            BY <2>10, LastOfTrack DEF AreTracks
        <3>2. found[i].box \in FrameBox /\ found[j].box \in FrameBox
            BY <1>5, <2>2 DEF AreTracks, IsDetection
        <3> QED
            BY <2>10, <2>16, <3>1, <3>2, OverlapRatio
    <2>18. Greater(y, x) \/ ~Greater(x, y)
        BY <2>3, <2>6, <2>7, <2>8, <2>16 DEF CloserPair, Closeness
    <2>19. ~Greater(x, y)
        BY <2>17, <2>18, GreaterOrders
    <2> QED
        BY <2>1, <2>14, <2>15, <2>16, <2>19 DEF WentOnCloser
<1> QED
    BY <1>1, <1>10 DEF StartsOnlyWhereTaken

LEMMA TimesOfOne ==
    ASSUME NEW d, NEW x
    PROVE  Times(d, <<x>>) = IF x = d THEN 1 ELSE 0
<1>1. PICK K : K = {k \in DOMAIN <<x>> : <<x>>[k] = d}
    OBVIOUS
<1>2. K = IF x = d THEN {1} ELSE {}
    BY <1>1
<1>3. Cardinality({1}) = 1 /\ Cardinality({}) = 0
    BY FS_Singleton, FS_EmptySet
<1> QED
    BY <1>1, <1>2, <1>3 DEF Times

LEMMA TimesOfAppend ==
    ASSUME NEW X, NEW s, s \in Seq(X), NEW x, x \in X, NEW d
    PROVE  Times(d, Append(s, x)) = Times(d, s) + (IF x = d THEN 1 ELSE 0)
<1>1. PICK t, r : t = <<x>> /\ r = Append(s, x)
    OBVIOUS
<1>2. t \in Seq(X)
    BY <1>1
<1>3. r = s \o t
    BY <1>1, <1>2
<1>4. Joins(r, s, t, X)
    BY <1>2, <1>3 DEF Joins
<1>5. Times(d, r) = Times(d, s) + Times(d, t)
    BY <1>4, TimesOfConcat
<1> QED
    BY <1>1, <1>5, TimesOfOne

\* I are the tracks to which the detections d of a frame go, each to another.
GoTo(I, at, m, n, found, d) ==
    /\ m \in Nat /\ DOMAIN found = 1..m /\ at \in [1..m -> 1..n]
    /\ \A i, j \in 1..m : at[i] = at[j] => i = j
    /\ I = {at[j] : j \in {k \in 1..m : found[k] = d}}

LEMMA TimesPutIn ==
    ASSUME NEW I, NEW at, NEW m, NEW n, NEW found, NEW d, GoTo(I, at, m, n, found, d)
    PROVE  Cardinality(I) = Times(d, found)
<1> USE DEF GoTo
<1>1. PICK J : J = {k \in 1..m : found[k] = d} /\ I = {at[j] : j \in J}
    OBVIOUS
<1> DEFINE f == [j \in J |-> at[j]]
<1>2. IsFiniteSet(J)
    <2>1. IsFiniteSet(1..m) /\ J \subseteq 1..m
        BY <1>1, FS_Interval
    <2> QED
        BY <2>1, FS_Subset
<1>3. f \in Bijection(J, I)
    <2>1. f \in [J -> I] /\ \A i, j \in J : f[i] = f[j] => i = j
        BY <1>1
    <2>2. \A x \in I : \E j \in J : f[j] = x
        BY <1>1
    <2> QED
        BY <2>1, <2>2 DEF Bijection, Injection, Surjection, IsInjective
<1>4. Cardinality(I) = Cardinality(J)
    <2> HIDE DEF f
    <2> QED
        BY <1>2, <1>3, FS_Bijection DEF ExistsBijection
<1>5. Times(d, found) = Cardinality(J)
    BY <1>1 DEF Times
<1> QED
    BY <1>1, <1>4, <1>5

\* The detections of the tracks, track by track.
Lists(tracks) == [t \in DOMAIN tracks |-> tracks[t].detections]

LEMMA TrackLists ==
    ASSUME NEW D, NEW s, s \in Seq(Tracks(D))
    PROVE  /\ Len(s) \in Nat /\ DOMAIN s = 1..Len(s)
           /\ Lists(s) \in [1..Len(s) -> Seq(D)]
           /\ \A t \in 1..Len(s) : Lists(s)[t] = s[t].detections
<1>1. Len(s) \in Nat /\ DOMAIN s = 1..Len(s) /\ \A t \in 1..Len(s) : s[t] \in Tracks(D)
    BY ListElements
<1>2. \A t \in 1..Len(s) : s[t].detections \in Seq(D)
    BY <1>1 DEF Tracks
<1>3. Lists(s) = [t \in 1..Len(s) |-> s[t].detections]
    BY <1>1 DEF Lists
<1> QED
    BY <1>1, <1>2, <1>3

(* What a frame adds to the tracks is what is found in it.                 *)
LEMMA TimesOfAssign ==
    ASSUME NEW N, NEW D, NEW tracks, NEW found, AreTracks(tracks, found, N, D), NEW d
    PROVE  Times(d, FlattenSeq(Lists(Assign(tracks, found)))) =
                Times(d, FlattenSeq(Lists(tracks))) + Times(d, found)
<1>1. PICK r : r = Assign(tracks, found) /\ r \in Seq(Tracks(D))
    BY AssignGoesOn
<1>2. PICK at : \E l, m, n \in Nat : PutIn(at, r, tracks, found, l, m, n)
    BY <1>1, DetectionsPlaced
<1>3. PICK l \in Nat, m \in Nat, n \in Nat : PutIn(at, r, tracks, found, l, m, n)
    BY <1>2
<1>4. /\ l = Len(tracks) /\ m = Len(found) /\ n = Len(r) /\ l <= n
      /\ at \in [1..m -> 1..n]
      /\ \A i, j \in 1..m : at[i] = at[j] => i = j
    BY <1>3 DEF PutIn
<1>5. PICK u, v : u = Lists(tracks) /\ v = Lists(r)
    OBVIOUS
<1>6. /\ u \in [1..l -> Seq(D)] /\ \A t \in 1..l : u[t] = tracks[t].detections
      /\ v \in [1..n -> Seq(D)] /\ \A t \in 1..n : v[t] = r[t].detections
    BY <1>1, <1>4, <1>5, TrackLists DEF AreTracks
<1>7. DOMAIN found = 1..m /\ \A j \in 1..m : found[j] \in D
    BY <1>4, ListElements DEF AreTracks
<1>8. \A t \in 1..l : tracks[t] \in Tracks(D)
    BY <1>4, ListElements DEF AreTracks
<1>9. PICK I : I = {at[j] : j \in {k \in 1..m : found[k] = d}}
    OBVIOUS
<1>10. I \subseteq 1..n /\ \A j \in 1..m : at[j] \in I <=> found[j] = d
    BY <1>4, <1>9
<1>11. ASSUME NEW t \in 1..l
       PROVE  Times(d, v[t]) = Times(d, u[t]) + (IF t \in I THEN 1 ELSE 0)
    <2>0. t \in 1..n
        BY <1>4
    <2>1. CASE \E j \in 1..m : at[j] = t
        <3>1. PICK j \in 1..m : at[j] = t
            BY <2>1
        <3>2. at[j] <= l
            BY <3>1
        <3>3. r[t] = [tracks[t] EXCEPT !.detections = Append(@, found[j])]
            BY <1>3, <3>1, <3>2 DEF PutIn
        <3>4. PICK x, s : x = found[j] /\ s = u[t] /\ x \in D /\ s \in Seq(D)
            BY <1>6, <1>7
        <3>8. PICK b : b = tracks[t] /\ b \in Tracks(D) /\ b.detections = s
            BY <1>6, <1>8, <3>4
        <3>9. r[t] = [b EXCEPT !.detections = Append(@, x)]
            BY <3>3, <3>4, <3>8
        <3>10. r[t].detections = Append(b.detections, x)
            BY <3>4, <3>8, <3>9, GrownTrack
        <3>5. v[t] = Append(s, x)
            BY <1>6, <2>0, <3>8, <3>10
        <3>6. Times(d, Append(s, x)) = Times(d, s) + (IF x = d THEN 1 ELSE 0)
            BY <3>4, TimesOfAppend
        <3>7. t \in I <=> x = d
            BY <1>10, <3>1, <3>4
        <3> QED
            BY <3>4, <3>5, <3>6, <3>7
    <2>2. CASE \A j \in 1..m : at[j] # t
        <3>1. r[t] = tracks[t]
            BY <1>3, <2>2 DEF PutIn
        <3>2. v[t] = u[t]
            BY <1>6, <2>0, <3>1
        <3>3. t \notin I
            BY <1>9, <2>2
        <3>4. Times(d, u[t]) \in Nat
            BY <1>6, TimesIsNumber
        <3> QED
            BY <3>2, <3>3, <3>4
    <2> QED
        BY <2>1, <2>2
<1>12. ASSUME NEW t \in (l + 1)..n
       PROVE  Times(d, v[t]) = IF t \in I THEN 1 ELSE 0
    <2>1. PICK j \in 1..m : at[j] = t
        BY <1>3 DEF PutIn
    <2>2. t \in 1..n /\ t > l
        BY <1>4
    <2>3. r[t] = Begun(found[j])
        BY <1>3, <2>1, <2>2 DEF PutIn
    <2>4. PICK x : x = found[j]
        OBVIOUS
    <2>5. v[t] = <<x>>
        BY <1>6, <2>2, <2>3, <2>4 DEF Begun
    <2>6. t \in I <=> x = d
        BY <1>10, <2>1, <2>4
    <2> QED
        BY <2>5, <2>6, TimesOfOne
<1>13. Grown(u, v, l, n, d, I)
    BY <1>4, <1>10, <1>11, <1>12 DEF Grown
<1>14. Times(d, FlattenSeq(v)) = Times(d, FlattenSeq(u)) + Cardinality(I)
    <2>1. AreLists(u, l, D) /\ AreLists(v, n, D)
        BY <1>6 DEF AreLists
    <2> QED
        BY <1>13, <2>1, TimesOfGrown
<1>15. Cardinality(I) = Times(d, found)
    <2>1. GoTo(I, at, m, n, found, d)
        BY <1>4, <1>7, <1>9 DEF GoTo
    <2> QED
        BY <2>1, TimesPutIn
<1> QED
    BY <1>1, <1>5, <1>14, <1>15

\* The detections of a track are of its class, in the order of their frames, none after f.
IsRun(track, f) ==
    \A j, k \in DOMAIN track.detections :
        /\ track.detections[j].class = track.class
        /\ track.detections[j].frame <= f
        /\ j < k => track.detections[j].frame < track.detections[k].frame

AreRuns(tracks, f) == \A t \in DOMAIN tracks : IsRun(tracks[t], f)

OfFrame(found, f) == \A j \in DOMAIN found : found[j].frame = f

LEMMA RunContinued ==
    ASSUME NEW N \in Nat, NEW D, \A d \in D : IsDetection(d, N), NEW track, track \in Tracks(D),
           NEW d, d \in D, NEW f \in Nat, IsRun(track, f - 1), d.frame = f, d.class = track.class
    PROVE  IsRun([track EXCEPT !.detections = Append(@, d)], f)
<1>1. PICK s, e, r : /\ s = track.detections /\ e = Append(s, d)
                     /\ r = [track EXCEPT !.detections = Append(@, d)]
    OBVIOUS
<1>2. s \in Seq(D)
    BY <1>1 DEF Tracks
<1>3. r.class = track.class /\ r.detections = e
    BY <1>1, GrownTrack
<1>4. PICK m \in Nat : m = Len(s) /\ DOMAIN s = 1..m /\ \A j \in 1..m : s[j] \in D
    BY <1>2, ListElements
<1>5. DOMAIN e = 1..(m + 1) /\ e[m + 1] = d /\ \A j \in 1..m : e[j] = s[j]
    <2>1. e \in Seq(D) /\ Len(e) = m + 1 /\ e[m + 1] = d /\ \A j \in 1..m : e[j] = s[j]
        BY <1>1, <1>2, <1>4, AppendProperties
    <2> QED
        BY <2>1, ListElements
<1>6. \A j \in 1..m : s[j].frame \in Int
    <2>1. \A j \in 1..m : IsDetection(s[j], N)
        BY <1>4
    <2> QED
        BY <2>1 DEF IsDetection
<1>7. \A j, k \in 1..m : /\ s[j].class = track.class /\ s[j].frame <= f - 1
                         /\ j < k => s[j].frame < s[k].frame
    BY <1>1, <1>4 DEF IsRun
<1>8. ASSUME NEW j \in 1..(m + 1), NEW k \in 1..(m + 1)
      PROVE  /\ e[j].class = r.class
             /\ e[j].frame <= f
             /\ j < k => e[j].frame < e[k].frame
    <2>1. CASE j = m + 1
        <3>1. e[j] = d /\ ~(j < k)
            BY <1>5, <2>1
        <3> QED
            BY <1>3, <3>1
    <2>2. CASE j \in 1..m
        <3>1. PICK x \in Int : x = s[j].frame
            BY <1>6, <2>2
        <3>2. e[j] = s[j] /\ s[j].class = track.class /\ x <= f - 1
            BY <1>5, <1>7, <2>2, <3>1
        <3>3. CASE k = m + 1
            <4>1. e[k].frame = f
                BY <1>5, <3>3
            <4> QED
                BY <1>3, <3>1, <3>2, <4>1
        <3>4. CASE k \in 1..m
            <4>1. e[k] = s[k] /\ (j < k => s[j].frame < s[k].frame)
                BY <1>5, <1>7, <2>2, <3>4
            <4> QED
                BY <1>3, <3>1, <3>2, <4>1
        <3> QED
            BY <3>3, <3>4
    <2> QED
        BY <2>1, <2>2
<1>9. IsRun(r, f)
    BY <1>3, <1>5, <1>8 DEF IsRun
<1> QED
    BY <1>1, <1>9

LEMMA RunsGoOn ==
    ASSUME NEW N \in Nat, NEW D, NEW tracks, NEW found, AreTracks(tracks, found, N, D),
           NEW f \in Nat, AreRuns(tracks, f - 1), OfFrame(found, f)
    PROVE  AreRuns(Assign(tracks, found), f)
<1>1. PICK r : r = Assign(tracks, found) /\ r \in Seq(Tracks(D))
    BY AssignGoesOn
<1>2. PICK at : \E l, m, n \in Nat : PutIn(at, r, tracks, found, l, m, n)
    BY <1>1, DetectionsPlaced
<1>3. PICK l \in Nat, m \in Nat, n \in Nat : PutIn(at, r, tracks, found, l, m, n)
    BY <1>2
<1>4. /\ l = Len(tracks) /\ m = Len(found) /\ n = Len(r) /\ l <= n
      /\ at \in [1..m -> 1..n]
    BY <1>3 DEF PutIn
<1>5. DOMAIN found = 1..m /\ \A j \in 1..m : found[j] \in D
    BY <1>4, ListElements DEF AreTracks
<1>6. DOMAIN tracks = 1..l /\ \A t \in 1..l : tracks[t] \in Tracks(D)
    BY <1>4, ListElements DEF AreTracks
<1>7. DOMAIN r = 1..n
    BY <1>1, <1>4, ListElements
<1>8. \A d \in D : IsDetection(d, N)
    BY DEF AreTracks
<1>9. ASSUME NEW t \in 1..n PROVE IsRun(r[t], f)
    <2>1. CASE t <= l /\ \E j \in 1..m : at[j] = t
        <3>1. t \in 1..l
            BY <2>1
        <3>2. PICK j \in 1..m : at[j] = t
            BY <2>1
        <3>3. /\ tracks[t].class = found[j].class
              /\ r[t] = [tracks[t] EXCEPT !.detections = Append(@, found[j])]
            BY <1>3, <2>1, <3>2 DEF PutIn
        <3>4. PICK b, x : b = tracks[t] /\ x = found[j] /\ b \in Tracks(D) /\ x \in D
            BY <1>5, <1>6, <3>1
        <3>5. IsRun(b, f - 1) /\ x.frame = f /\ x.class = b.class
            BY <1>5, <1>6, <3>1, <3>3, <3>4 DEF AreRuns, OfFrame
        <3>6. IsRun([b EXCEPT !.detections = Append(@, x)], f)
            BY <1>8, <3>4, <3>5, RunContinued
        <3> QED
            BY <3>3, <3>4, <3>6
    <2>2. CASE t <= l /\ \A j \in 1..m : at[j] # t
        <3>1. t \in 1..l
            BY <2>2
        <3>2. r[t] = tracks[t]
            BY <1>3, <2>2, <3>1 DEF PutIn
        <3>3. PICK b, s : b = tracks[t] /\ b \in Tracks(D) /\ s = b.detections /\ IsRun(b, f - 1)
            BY <1>6, <3>1 DEF AreRuns
        <3>4. \A j \in DOMAIN s : s[j].frame \in Int
            <4>1. s \in Seq(D)
                BY <3>3 DEF Tracks
            <4>2. \A j \in DOMAIN s : IsDetection(s[j], N)
                BY <1>8, <4>1, ListElements
            <4> QED
                BY <4>2 DEF IsDetection
        <3>5. ASSUME NEW j \in DOMAIN s PROVE s[j].frame <= f
            <4>1. PICK x \in Int : x = s[j].frame /\ x <= f - 1
                BY <3>3, <3>4 DEF IsRun
            <4> QED
                BY <4>1
        <3>6. IsRun(b, f)
            BY <3>3, <3>5 DEF IsRun
        <3> QED
            BY <3>2, <3>3, <3>6
    <2>3. CASE ~(t <= l)
        <3>1. t \in (l + 1)..n
            BY <2>3
        <3>2. PICK j \in 1..m : at[j] = t
            BY <1>3, <3>1 DEF PutIn
        <3>3. r[t] = Begun(found[j])
            BY <1>3, <3>1, <3>2 DEF PutIn
        <3>4. PICK x : x = found[j] /\ x.frame = f
            BY <1>5 DEF OfFrame
        <3>5. r[t].class = x.class /\ r[t].detections = <<x>>
            BY <3>3, <3>4 DEF Begun
        <3>6. \A j_1, k \in DOMAIN <<x>> : <<x>>[j_1] = x /\ ~(j_1 < k)
            OBVIOUS
        <3> QED
            BY <3>4, <3>5, <3>6 DEF IsRun
    <2> QED
        BY <2>1, <2>2, <2>3
<1> QED
    BY <1>1, <1>7, <1>9 DEF AreRuns

\* h are the tracks after each of n frames, for whatever is found in them.
TrackedThrough(h, rows, n, D) ==
    /\ n \in Nat /\ AreRows(rows, n, D)
    /\ RunsThrough(h, rows, n, Seq(Tracks(D)))

LEMMA TrackedSoFar ==
    ASSUME NEW n \in Nat, NEW rows, NEW D, AreRows(rows, n, D)
    PROVE  \E h : TrackedThrough(h, rows, n, D) /\ IouTracks(rows) = h[n]
<1>1. rows \in [1..n -> Seq(D)] /\ \A d \in D : IsDetection(d, n)
    BY DEF AreRows
<1>2. PICK h : RunsThrough(h, rows, n, Seq(Tracks(D))) /\ IouTracks(rows) = h[n]
    BY <1>1, TracksSoFar
<1> QED
    BY <1>2 DEF TrackedThrough

LEMMA TrackedFrame ==
    ASSUME NEW h, NEW rows, NEW n, NEW D, TrackedThrough(h, rows, n, D), NEW k \in 1..n
    PROVE  /\ AreTracks(h[k - 1], rows[k], n, D) /\ h[k] = Assign(h[k - 1], rows[k])
           /\ OfFrame(rows[k], k)
<1>1. n \in Nat /\ rows[k] \in Seq(D) /\ \A d \in D : IsDetection(d, n)
    BY DEF TrackedThrough, AreRows
<1>2. h \in [0..n -> Seq(Tracks(D))] /\ h[k] = Assign(h[k - 1], rows[k])
    BY DEF TrackedThrough, RunsThrough
<1>3. h[k - 1] \in Seq(Tracks(D))
    <2>1. k - 1 \in 0..n
        BY <1>1
    <2> QED
        BY <1>2, <2>1
<1>4. \A d \in ToSet(rows[k]) : d.frame = k
    BY DEF TrackedThrough, AreRows
<1>5. \A j \in DOMAIN rows[k] : rows[k][j] \in ToSet(rows[k])
    BY DEF ToSet
<1> QED
    BY <1>1, <1>2, <1>3, <1>4, <1>5 DEF AreTracks, OfFrame

LEMMA TrackedRuns ==
    ASSUME NEW h, NEW rows, NEW n, NEW D, TrackedThrough(h, rows, n, D)
    PROVE  AreRuns(h[n], n)
<1>1. n \in Nat /\ h[0] = <<>>
    BY DEF TrackedThrough, RunsThrough
<1> DEFINE P == {k \in 0..n : AreRuns(h[k], k)}
<1>2. AreRuns(h[0], 0)
    BY <1>1 DEF AreRuns
<1>3. ASSUME NEW k \in 1..n, AreRuns(h[k - 1], k - 1) PROVE AreRuns(h[k], k)
    <2>1. k \in Nat
        BY <1>1
    <2>2. PICK a, b : a = h[k - 1] /\ b = rows[k]
        OBVIOUS
    <2>3. AreTracks(a, b, n, D) /\ h[k] = Assign(a, b) /\ OfFrame(b, k)
        BY <2>2, TrackedFrame
    <2>4. AreRuns(Assign(a, b), k)
        BY <1>1, <1>3, <2>1, <2>2, <2>3, RunsGoOn
    <2> QED
        BY <2>3, <2>4
<1>4. 0 \in P /\ \A k \in 1..n : k - 1 \in P => k \in P
    <2>1. 0 \in 0..n /\ \A k \in 1..n : k \in 0..n
        BY <1>1
    <2> QED
        BY <1>2, <1>3, <2>1
<1>5. n \in P
    <2> HIDE DEF P
    <2>1. \A k \in 0..n : k \in P
        BY <1>1, <1>4, StepByStep, Zenon
    <2> QED
        BY <1>1, <2>1
<1> QED
    BY <1>5

LEMMA TrackedTimes ==
    ASSUME NEW h, NEW rows, NEW n, NEW D, TrackedThrough(h, rows, n, D), NEW d
    PROVE  Times(d, FlattenSeq(Lists(h[n]))) = Times(d, FlattenSeq(rows))
<1>1. /\ n \in Nat /\ h[0] = <<>> /\ rows \in [1..n -> Seq(D)]
    BY DEF TrackedThrough, RunsThrough, AreRows
<1>2. PICK g : FlattensTo(g, rows, n, D) /\ FlattenSeq(rows) = g[n]
    BY <1>1, FlattenedSteps
<1>3. g[0] = <<>> /\ \A k \in 0..n : g[k] \in Seq(D)
    BY <1>2 DEF FlattensTo
<1> DEFINE u == [k \in 0..n |-> Times(d, FlattenSeq(Lists(h[k])))]
           v == [k \in 0..n |-> Times(d, g[k])]
           P == {k \in 0..n : u[k] = v[k]}
<1>4. \A k \in 0..n : u[k] = Times(d, FlattenSeq(Lists(h[k]))) /\ v[k] = Times(d, g[k])
    OBVIOUS
<1> HIDE DEF u, v
<1>5. 0 \in P
    <2>1. Lists(<<>>) \in [1..0 -> Seq(D)]
        BY DEF Lists
    <2>2. PICK s : s = Lists(<<>>)
        OBVIOUS
    <2>3. PICK f : FlattensTo(f, s, 0, D) /\ FlattenSeq(s) = f[0]
        <3>1. s \in [1..0 -> Seq(D)] /\ 0 \in Nat
            BY <2>1, <2>2
        <3> QED
            BY <3>1, FlattenedSteps
    <2>4. FlattenSeq(s) = <<>>
        BY <2>3 DEF FlattensTo
    <2>5. 0 \in 0..n
        BY <1>1
    <2> QED
        BY <1>1, <1>3, <1>4, <2>2, <2>4, <2>5
<1>6. ASSUME NEW k \in 1..n, u[k - 1] = v[k - 1] PROVE u[k] = v[k]
    <2>0. k \in 0..n /\ k - 1 \in 0..n
        BY <1>1
    <2>1. PICK a, b : a = h[k - 1] /\ b = rows[k]
        OBVIOUS
    <2>2. AreTracks(a, b, n, D) /\ h[k] = Assign(a, b)
        BY <2>1, TrackedFrame
    <2>3. Times(d, FlattenSeq(Lists(h[k]))) = Times(d, FlattenSeq(Lists(a))) + Times(d, b)
        BY <2>2, TimesOfAssign
    <2>4. PICK r, s : r = g[k] /\ s = g[k - 1]
        OBVIOUS
    <2>5. Joins(r, s, b, D)
        BY <1>1, <1>2, <1>3, <2>0, <2>1, <2>4 DEF FlattensTo, Joins
    <2>6. Times(d, r) = Times(d, s) + Times(d, b)
        BY <2>5, TimesOfConcat
    <2> QED
        BY <1>4, <1>6, <2>0, <2>1, <2>3, <2>4, <2>6
<1>7. n \in P
    <2>1. \A k \in 1..n : k - 1 \in P => k \in P
        <3>1. \A k \in 1..n : k \in 0..n
            BY <1>1
        <3> QED
            BY <1>6, <3>1
    <2> HIDE DEF P
    <2>2. \A k \in 0..n : k \in P
        BY <1>1, <1>5, <2>1, StepByStep, Zenon
    <2> QED
        BY <1>1, <2>2
<1>8. n \in 0..n
    BY <1>1
<1> QED
    BY <1>2, <1>4, <1>7, <1>8

\* What is tracked through the first frames is the beginning of the whole.
LEMMA TrackedBeginning ==
    ASSUME NEW h, NEW rows, NEW n, NEW D, TrackedThrough(h, rows, n, D), NEW f \in 0..n
    PROVE  IouTracks(SubSeq(rows, 1, f)) = h[f]
<1>1. /\ n \in Nat /\ h[0] = <<>> /\ rows \in [1..n -> Seq(D)]
      /\ \A d \in D : IsDetection(d, n)
      /\ \A k \in 1..n : h[k] = Assign(h[k - 1], rows[k])
    BY DEF TrackedThrough, RunsThrough, AreRows
<1>2. f \in Nat /\ f <= n
    BY <1>1
<1>3. PICK some : some = SubSeq(rows, 1, f)
    OBVIOUS
<1>4. some = [k \in 1..f |-> rows[k]]
    BY <1>2, <1>3
<1>5. \A k \in 1..f : k \in 1..n /\ some[k] = rows[k]
    BY <1>1, <1>2, <1>4
<1>6. some \in [1..f -> Seq(D)]
    BY <1>1, <1>4, <1>5
<1>7. PICK g : RunsThrough(g, some, f, Seq(Tracks(D))) /\ IouTracks(some) = g[f]
    BY <1>1, <1>2, <1>6, TracksSoFar
<1>8. g[0] = <<>> /\ \A k \in 1..f : g[k] = Assign(g[k - 1], some[k])
    BY <1>7 DEF RunsThrough
<1> DEFINE P == {k \in 0..f : g[k] = h[k]}
<1>9. 0 \in P
    BY <1>1, <1>2, <1>8
<1>10. ASSUME NEW k \in 1..f, g[k - 1] = h[k - 1] PROVE g[k] = h[k]
    BY <1>1, <1>5, <1>8, <1>10
<1>11. f \in P
    <2>1. \A k \in 1..f : k - 1 \in P => k \in P
        <3>1. \A k \in 1..f : k \in 0..f
            BY <1>2
        <3> QED
            BY <1>10, <3>1
    <2> HIDE DEF P
    <2>2. \A k \in 0..f : k \in P
        BY <1>2, <1>9, <2>1, StepByStep, Zenon
    <2> QED
        BY <1>2, <2>2
<1> QED
    BY <1>3, <1>7, <1>11

LEMMA TrackedOnce ==
    ASSUME NEW h, NEW rows, NEW n, NEW D, TrackedThrough(h, rows, n, D)
    PROVE  EachInOne(rows, h[n])
<1>1. PICK tracks : tracks = h[n]
    OBVIOUS
<1>2. \A d : Times(d, FlattenSeq(Lists(tracks))) = Times(d, FlattenSeq(rows))
    BY <1>1, TrackedTimes
<1>3. AreRuns(tracks, n)
    BY <1>1, TrackedRuns
<1>4. \A d : Cardinality({k \in DOMAIN FlattenSeq(Lists(tracks)) : FlattenSeq(Lists(tracks))[k] = d})
                = Cardinality({k \in DOMAIN FlattenSeq(rows) : FlattenSeq(rows)[k] = d})
    BY <1>2, Zenon DEF Times
<1>5. ASSUME NEW track \in ToSet(tracks)
      PROVE  \A j, k \in DOMAIN track.detections :
                /\ track.detections[j].class = track.class
                /\ j < k => track.detections[j].frame < track.detections[k].frame
    <2>1. PICK t \in DOMAIN tracks : track = tracks[t]
        BY DEF ToSet
    <2>2. IsRun(track, n)
        BY <1>3, <2>1 DEF AreRuns
    <2> QED
        BY <2>2 DEF IsRun
<1>6. EachInOne(rows, tracks)
    <2>1. PICK found, seen :
            /\ found = FlattenSeq([t \in DOMAIN tracks |-> tracks[t].detections])
            /\ seen = FlattenSeq(rows)
        OBVIOUS
    <2>2. \A d : Cardinality({k \in DOMAIN found : found[k] = d})
                    = Cardinality({k \in DOMAIN seen : seen[k] = d})
        BY <1>4, <2>1, Zenon DEF Lists
    <2>3. EachInOne(rows, tracks) <=>
            /\ \A d \in ToSet(found) \cup ToSet(seen) :
                Cardinality({k \in DOMAIN found : found[k] = d})
                    = Cardinality({k \in DOMAIN seen : seen[k] = d})
            /\ \A track \in ToSet(tracks) : \A j, k \in DOMAIN track.detections :
                /\ track.detections[j].class = track.class
                /\ j < k => track.detections[j].frame < track.detections[k].frame
        BY <2>1, Zenon DEF EachInOne
    <2> QED
        BY <1>5, <2>2, <2>3, Zenon
<1> QED
    BY <1>1, <1>6

(* Each detection of the frames is in one track, once, and begins one only *)
(* where the tracks that it overlaps have taken closer ones.               *)
LEMMA OnceInv == VisionInv => EachDetectionOnce
<1> SUFFICES ASSUME VisionInv, stage = "frame_selection" /\ vision.tracker = "iou"
             PROVE  /\ EachInOne(vision.rows, IouTracks(vision.rows))
                    /\ \A f \in DOMAIN vision.rows :
                        StartsOnlyWhereTaken(IouTracks(SubSeq(vision.rows, 1, f - 1)),
                                             IouTracks(SubSeq(vision.rows, 1, f)))
    BY DEF EachDetectionOnce
<1>1. stage \in WithRows /\ stage \in WithFrames
    BY DEF WithRows, WithObjects, WithFrames
<1>2. PICK rows, n : rows = vision.rows /\ n = Len(vision.frames)
    OBVIOUS
<1>3. n \in Nat
    BY <1>1, <1>2 DEF VisionInv, AreFrames
<1>4. PICK D : AreRows(rows, n, D)
    BY <1>1, <1>2 DEF VisionInv
<1>5. PICK h : TrackedThrough(h, rows, n, D) /\ IouTracks(rows) = h[n]
    BY <1>3, <1>4, TrackedSoFar
<1>6. EachInOne(rows, IouTracks(rows))
    <2>1. EachInOne(rows, h[n])
        BY <1>5, TrackedOnce
    <2> QED
        BY <1>5, <2>1
<1>7. ASSUME NEW f \in DOMAIN rows
      PROVE  StartsOnlyWhereTaken(IouTracks(SubSeq(rows, 1, f - 1)), IouTracks(SubSeq(rows, 1, f)))
    <2>1. f \in 1..n
        BY <1>4 DEF AreRows
    <2>2. f \in 0..n /\ f - 1 \in 0..n
        BY <1>3, <2>1
    <2>3. PICK e : e = f - 1 /\ e \in 0..n
        BY <2>2
    <2>4. IouTracks(SubSeq(rows, 1, e)) = h[e] /\ IouTracks(SubSeq(rows, 1, f)) = h[f]
        BY <1>5, <2>2, <2>3, TrackedBeginning
    <2>5. PICK a, b : a = h[f - 1] /\ b = rows[f]
        OBVIOUS
    <2>6. AreTracks(a, b, n, D) /\ h[f] = Assign(a, b)
        BY <1>5, <2>1, <2>5, TrackedFrame
    <2>7. StartsOnlyWhereTaken(a, Assign(a, b))
        BY <2>6, StartsWhereTaken
    <2> QED
        BY <2>3, <2>4, <2>5, <2>6, <2>7
<1> QED
    BY <1>2, <1>6, <1>7

(* EachDetectionOnce (tracking.py:155, _assign).                           *)
THEOREM DetectionsTrackedOnce == Spec => []EachDetectionOnce
<1>1. Init => VisionInv
    BY VisionInitInv
<1>2. Init => SamplingInv
    BY SamplingInitInv
<1>3. SamplingInv /\ VisionInv /\ [Next]_vars => SamplingInv' /\ VisionInv'
    BY VisionNextInv, SamplingNextInv
<1>4. VisionInv => EachDetectionOnce
    BY OnceInv
<1> QED
    BY <1>1, <1>2, <1>3, <1>4, PTL DEF Spec

-----------------------------------------------------------------------------
UnionsUpTo(most) ==
    stage = "frame_selection" =>
        /\ \A f \in DOMAIN vision.rows :
            LET boxes == {d.box : d \in ToSet(vision.rows[f])}
            IN /\ UnionArea(boxes) = Cardinality(CoveredUnits(boxes))
               /\ FrameArea(vision.rows[f]) = UnionArea(boxes)
        /\ vision.occupancy \in 0..most

LEMMA UnionsOfWhole == UnionsUpTo(Whole) => UnionAreaExact
<1>1. UnionsUpTo(10000) <=> UnionAreaExact
    BY DEF UnionsUpTo, UnionAreaExact
<1>2. UnionsUpTo(Whole) => UnionsUpTo(10000)
    BY DEF Whole
<1> QED
    BY <1>1, <1>2

(* UnionAreaExact (geometry.py:49, union_area).                            *)
THEOREM UnionIsExact == Spec => []UnionAreaExact
<1>1. ASSUME VisionInv, stage = "frame_selection", NEW f \in DOMAIN vision.rows,
             NEW boxes, boxes = {d.box : d \in ToSet(vision.rows[f])}
      PROVE  /\ UnionArea(boxes) = Cardinality(CoveredUnits(boxes))
             /\ FrameArea(vision.rows[f]) = UnionArea(boxes)
    <2>1. stage \in WithRows
        BY <1>1 DEF WithRows, WithObjects
    <2>2. PICK D : AreRows(vision.rows, Len(vision.frames), D)
        BY <1>1, <2>1 DEF VisionInv
    <2>3. PICK found : found = vision.rows[f] /\ found \in Seq(D)
        BY <1>1, <2>2 DEF AreRows
    <2>4. ToSet(found) \subseteq D
        BY <2>3, ListElements
    <2>5. boxes \subseteq FrameBox
        BY <1>1, <2>2, <2>3, <2>4 DEF AreRows, IsDetection
    <2>6. boxes \subseteq BoxesInFrame
        BY <2>5 DEF FrameBox, BoxesInFrame
    <2>7. UnionArea(boxes) = Cardinality(CoveredUnits(boxes)) /\ UnionArea(boxes) \in 0..(Grid * Grid)
        BY <2>6, UnionCountsUnits, UnionWithinFrame
    <2>8. FrameArea(found) = Least(UnionArea(boxes), Grid * Grid)
        BY <1>1, <2>3 DEF FrameArea
    <2>9. UnionArea(boxes) <= Grid * Grid
        BY <2>7
    <2> QED
        BY <2>3, <2>7, <2>8, <2>9 DEF Least
<1>2. ASSUME VisionInv, SavedInv PROVE UnionsUpTo(Whole)
    <2> SUFFICES ASSUME stage = "frame_selection" PROVE UnionsUpTo(Whole)
        BY DEF UnionsUpTo
    <2>1. vision.occupancy \in 0..Whole
        BY <1>2 DEF SavedInv, WithObjects
    <2> QED
        BY <1>1, <1>2, <2>1 DEF UnionsUpTo
<1>3. VisionInv /\ SavedInv => UnionAreaExact
    BY <1>2, UnionsOfWhole
<1> QED
    BY <1>3, SamplingInitInv, SamplingNextInv, ScoreInitInv, ScoreNextInv, VisionInitInv,
       VisionNextInv, SavedInitInv, SavedNextInv, PTL DEF Spec

-----------------------------------------------------------------------------
(* A greedy choice is determined by the order: what is left has met        *)
(* something that was taken before.                                        *)
TakesFirst(A, S, E) ==
    /\ A \subseteq S
    /\ \A p, q \in A : Meet(p, q) => p = q
    /\ \A p \in S \ A : \E q \in A : Meet(q, p) /\ <<q, p>> \in E

LEMMA FirstTakenOnce ==
    ASSUME NEW S, IsFiniteSet(S), NEW E, Orders(S, E),
           NEW A, TakesFirst(A, S, E), NEW B, TakesFirst(B, S, E)
    PROVE  A = B
<1> DEFINE Differ(p) == (p \in A /\ p \notin B) \/ (p \in B /\ p \notin A)
           Place(p) == Cardinality(Before(S, E, p))
           T == {Place(p) : p \in {q \in S : Differ(q)}}
<1>1. A \subseteq S /\ B \subseteq S
    BY DEF TakesFirst
<1> SUFFICES ASSUME NEW x \in S, Differ(x) PROVE FALSE
    BY <1>1
<1>2. ASSUME NEW p \in S PROVE Place(p) \in Nat
    <2>1. IsFiniteSet(Before(S, E, p))
        BY FS_Subset DEF Before
    <2> QED
        BY <2>1, FS_CardinalityType
<1>3. PICK p \in S : Differ(p) /\ \A q \in S : Differ(q) => Place(p) <= Place(q)
    <2>1. T \in SUBSET Nat /\ T # {}
        BY <1>2
    <2> HIDE DEF Place
    <2>2. PICK m \in T : \A n \in T : m <= n
        BY <2>1, LeastNatural
    <2> QED
        BY <2>2
<1>4. ASSUME NEW q \in S, <<q, p>> \in E PROVE ~Differ(q)
    <2>1. Place(q) \in Nat /\ Place(p) \in Nat /\ Place(q) < Place(p)
        BY <1>4, MoreBefore
    <2> HIDE DEF Place
    <2>2. ~(Place(p) <= Place(q))
        BY <2>1
    <2> QED
        BY <1>3, <2>2
<1>5. <<p, p>> \notin E
    BY DEF Orders
<1> HIDE DEF Place
<1>6. CASE p \in A /\ p \notin B
    <2>1. PICK q \in B : Meet(q, p) /\ <<q, p>> \in E
        BY <1>6 DEF TakesFirst
    <2>2. q \in A
        BY <1>1, <1>4, <2>1
    <2>3. q = p
        BY <1>6, <2>1, <2>2 DEF TakesFirst
    <2> QED
        BY <1>5, <2>1, <2>3
<1>7. CASE p \in B /\ p \notin A
    <2>1. PICK q \in A : Meet(q, p) /\ <<q, p>> \in E
        BY <1>7 DEF TakesFirst
    <2>2. q \in B
        BY <1>1, <1>4, <2>1
    <2>3. q = p
        BY <1>7, <2>1, <2>2 DEF TakesFirst
    <2> QED
        BY <1>5, <2>1, <2>3
<1> QED
    BY <1>3, <1>6, <1>7

\* The t-th of the first list is the at[t]-th of the second.
SameInOrder(at, a, b, l, k) ==
    /\ l \in Nat /\ k \in Nat /\ DOMAIN a = 1..l /\ DOMAIN b = 1..k
    /\ at \in [1..l -> 1..k]
    /\ \A s, t \in 1..l : at[s] = at[t] => s = t
    /\ \A u \in 1..k : \E t \in 1..l : at[t] = u
    /\ \A t \in 1..l : b[at[t]] = a[t]

\* No two pairs are as close as each other.
Untied(tracks, found) ==
    \A p, q \in Pairs(tracks, found) :
        p # q => \/ Greater(Closeness(tracks, found, p), Closeness(tracks, found, q))
                 \/ Greater(Closeness(tracks, found, q), Closeness(tracks, found, p))

(* The pairs of two lists in another order are the same pairs.             *)
LEMMA MovedPair ==
    ASSUME NEW at, NEW a, NEW b, NEW l, NEW k, SameInOrder(at, a, b, l, k),
           NEW turn, NEW c, NEW d, NEW m, NEW n, SameInOrder(turn, c, d, m, n),
           NEW t \in 1..l, NEW j \in 1..m, NEW p, p = <<t, j>>, NEW q, q = <<at[t], turn[j]>>
    PROVE  /\ p \in Pairs(a, c) <=> q \in Pairs(b, d)
           /\ Closeness(b, d, q) = Closeness(a, c, p)
<1>1. b[at[t]] = a[t] /\ d[turn[j]] = c[j]
    BY DEF SameInOrder
<1>2. p[1] = t /\ p[2] = j /\ q[1] = at[t] /\ q[2] = turn[j]
    <2>1. \A x, y : <<x, y>>[1] = x /\ <<x, y>>[2] = y
        OBVIOUS
    <2> QED
        BY <2>1, Zenon
<1>3. Closeness(b, d, q) = Closeness(a, c, p)
    BY <1>1, <1>2 DEF Closeness
<1>4. p \in (DOMAIN a) \X (DOMAIN c) /\ q \in (DOMAIN b) \X (DOMAIN d)
    BY DEF SameInOrder
<1>5. a[p[1]].class = c[p[2]].class <=> b[q[1]].class = d[q[2]].class
    BY <1>1, <1>2
<1> QED
    BY <1>3, <1>4, <1>5 DEF Pairs

\* The tracks a and what is found next c, and the same in another order, b and d.
Reorders(at, a, b, l, k, turn, c, d, m, n) ==
    /\ SameInOrder(at, a, b, l, k) /\ SameInOrder(turn, c, d, m, n)
    /\ Untied(a, c)

(* Where no two pairs are as close as each other, the same pairs are taken *)
(* whatever the order of the tracks and of what is found.                  *)
LEMMA SameAssigned ==
    ASSUME NEW N, NEW D, NEW a, NEW c, AreTracks(a, c, N, D), NEW b, NEW d, AreTracks(b, d, N, D),
           NEW at, NEW l, NEW k, NEW turn, NEW m, NEW n, Reorders(at, a, b, l, k, turn, c, d, m, n),
           NEW t \in 1..l, NEW j \in 1..m
    PROVE  <<t, j>> \in Assigned(a, c) <=> <<at[t], turn[j]>> \in Assigned(b, d)
<1>1. SameInOrder(at, a, b, l, k) /\ SameInOrder(turn, c, d, m, n) /\ Untied(a, c)
    BY DEF Reorders
<1>2. PICK S, E, A : S = Pairs(a, c) /\ E = CloserPairs(a, c) /\ A = Assigned(a, c)
    OBVIOUS
<1>3. PICK U, F, B : U = Pairs(b, d) /\ F = CloserPairs(b, d) /\ B = Assigned(b, d)
    OBVIOUS
<1>4. /\ IsFiniteSet(S) /\ Orders(S, E) /\ TakesFirst(A, S, E)
    BY <1>2, PairsAreOrdered, GreedyAssignment DEF IsGreedy, TakesFirst
<1>5. TakesFirst(B, U, F)
    BY <1>3, GreedyAssignment DEF IsGreedy, TakesFirst
<1>6. S \subseteq (1..l) \X (1..m) /\ U \subseteq (1..k) \X (1..n)
    BY <1>1, <1>2, <1>3 DEF SameInOrder, Pairs
<1> DEFINE M(p) == <<at[p[1]], turn[p[2]]>>
           C == {p \in S : M(p) \in B}
<1>7. ASSUME NEW p \in (1..l) \X (1..m)
      PROVE  /\ p \in S <=> M(p) \in U
             /\ Closeness(b, d, M(p)) = Closeness(a, c, p)
    <2>1. PICK u \in 1..l, i \in 1..m : p = <<u, i>>
        OBVIOUS
    <2>2. p[1] = u /\ p[2] = i
        BY <2>1
    <2>3. PICK q : q = M(p)
        OBVIOUS
    <2>4. q = <<at[u], turn[i]>>
        BY <2>2, <2>3
    <2>5. (p \in S <=> q \in U) /\ Closeness(b, d, q) = Closeness(a, c, p)
        BY <1>1, <1>2, <1>3, <2>1, <2>4, MovedPair
    <2> QED
        BY <2>3, <2>5
<1>8. ASSUME NEW p \in (1..l) \X (1..m), NEW q \in (1..l) \X (1..m)
      PROVE  Meet(M(p), M(q)) <=> Meet(p, q)
    <2>1. PICK f \in 1..l, g \in 1..l, h \in 1..m, i \in 1..m :
                f = p[1] /\ g = q[1] /\ h = p[2] /\ i = q[2]
        OBVIOUS
    <2>4. (at[f] = at[g] <=> f = g) /\ (turn[h] = turn[i] <=> h = i)
        BY <1>1 DEF SameInOrder
    <2>2. (at[p[1]] = at[q[1]] <=> p[1] = q[1]) /\ (turn[p[2]] = turn[q[2]] <=> p[2] = q[2])
        BY <2>1, <2>4
    <2>3. M(p)[1] = at[p[1]] /\ M(p)[2] = turn[p[2]] /\ M(q)[1] = at[q[1]] /\ M(q)[2] = turn[q[2]]
        OBVIOUS
    <2> QED
        BY <2>2, <2>3 DEF Meet
<1>9. ASSUME NEW q \in U PROVE \E p \in S : M(p) = q
    <2>1. PICK u \in 1..k, i \in 1..n : q = <<u, i>>
        BY <1>6
    <2>2. PICK v \in 1..l : at[v] = u
        BY <1>1 DEF SameInOrder
    <2>3. PICK h \in 1..m : turn[h] = i
        BY <1>1 DEF SameInOrder
    <2>6. <<v, h>> \in (1..l) \X (1..m) /\ <<v, h>>[1] = v /\ <<v, h>>[2] = h
        OBVIOUS
    <2>4. PICK p \in (1..l) \X (1..m) : p = <<v, h>> /\ p[1] = v /\ p[2] = h
        BY <2>6, Zenon
    <2>5. M(p) = q
        BY <2>1, <2>2, <2>3, <2>4
    <2> QED
        BY <1>7, <2>4, <2>5
<1>10. ASSUME NEW p \in S, NEW q \in S, p # q, <<M(p), M(q)>> \in F PROVE <<p, q>> \in E
    <2>1. p \in (1..l) \X (1..m) /\ q \in (1..l) \X (1..m)
        BY <1>6
    <2>2. PICK x, y : x = Closeness(a, c, p) /\ y = Closeness(a, c, q)
        OBVIOUS
    <2>3. PICK v, w : v = M(p) /\ w = M(q)
        OBVIOUS
    <2>4. Closeness(b, d, v) = x /\ Closeness(b, d, w) = y
        BY <1>7, <2>1, <2>2, <2>3
    <2>5. CloserPair(b, d, v, w)
        BY <1>3, <1>10, <2>3 DEF CloserPairs
    <2>6. ~Greater(y, x) \/ Greater(x, y)
        BY <2>4, <2>5 DEF CloserPair
    <2>7. Greater(x, y) \/ Greater(y, x)
        BY <1>1, <1>2, <1>10, <2>2 DEF Untied
    <2>8. CloserPair(a, c, p, q)
        BY <2>2, <2>6, <2>7 DEF CloserPair
    <2> QED
        BY <1>2, <2>8 DEF CloserPairs
<1> HIDE DEF M
<1>11. TakesFirst(C, S, E)
    <2>1. ASSUME NEW p \in C, NEW q \in C, Meet(p, q) PROVE p = q
        <3>1. p \in S /\ q \in S /\ M(p) \in B /\ M(q) \in B
            OBVIOUS
        <3>2. p \in (1..l) \X (1..m) /\ q \in (1..l) \X (1..m)
            BY <1>6, <3>1
        <3>3. Meet(M(p), M(q))
            BY <1>8, <2>1, <3>2
        <3>4. M(p) = M(q)
            BY <1>5, <3>1, <3>3 DEF TakesFirst
        <3>5. p[1] \in 1..l /\ q[1] \in 1..l /\ p[2] \in 1..m /\ q[2] \in 1..m
              /\ p = <<p[1], p[2]>> /\ q = <<q[1], q[2]>>
            BY <3>2
        <3>6. at[p[1]] = at[q[1]] /\ turn[p[2]] = turn[q[2]]
            BY <3>4 DEF M
        <3>7. p[1] = q[1] /\ p[2] = q[2]
            BY <1>1, <3>5, <3>6 DEF SameInOrder
        <3> QED
            BY <3>5, <3>7
    <2>2. ASSUME NEW p \in S \ C PROVE \E q \in C : Meet(q, p) /\ <<q, p>> \in E
        <3>1. p \in (1..l) \X (1..m) /\ M(p) \in U \ B
            BY <1>6, <1>7
        <3>2. PICK r \in B : Meet(r, M(p)) /\ <<r, M(p)>> \in F
            BY <1>5, <3>1 DEF TakesFirst
        <3>3. PICK q \in S : M(q) = r
            BY <1>5, <1>9 DEF TakesFirst
        <3>4. q \in C /\ q \in (1..l) \X (1..m) /\ q # p
            BY <1>6, <3>2, <3>3
        <3>5. Meet(q, p)
            BY <1>8, <3>1, <3>2, <3>3, <3>4
        <3>6. <<q, p>> \in E
            BY <1>10, <3>2, <3>3, <3>4
        <3> QED
            BY <3>4, <3>5, <3>6
    <2>3. C \subseteq S
        OBVIOUS
    <2> HIDE DEF C
    <2> QED
        BY <2>1, <2>2, <2>3 DEF TakesFirst
<1>12. A = C
    <2> HIDE DEF C
    <2> QED
        BY <1>4, <1>11, FirstTakenOnce
<1>13. PICK p \in (1..l) \X (1..m) : p = <<t, j>> /\ p[1] = t /\ p[2] = j
    <2>1. <<t, j>> \in (1..l) \X (1..m) /\ <<t, j>>[1] = t /\ <<t, j>>[2] = j
        OBVIOUS
    <2> QED
        BY <2>1, Zenon
<1>14. M(p) = <<at[t], turn[j]>>
    BY <1>13 DEF M
<1>15. p \in A <=> M(p) \in B
    <2>1. B \subseteq U
        BY <1>5 DEF TakesFirst
    <2> QED
        BY <1>7, <1>12, <2>1
<1> QED
    BY <1>2, <1>3, <1>13, <1>14, <1>15

(* ... and so do the tracks that the frame makes of them.                  *)
LEMMA SameAfterFrame ==
    ASSUME NEW N, NEW D, NEW a, NEW c, AreTracks(a, c, N, D), NEW b, NEW d, AreTracks(b, d, N, D),
           NEW at, NEW l \in Nat, NEW k \in Nat, NEW turn, NEW m \in Nat, NEW n \in Nat,
           Reorders(at, a, b, l, k, turn, c, d, m, n)
    PROVE  \E to : \E v, w \in Nat : SameInOrder(to, Assign(a, c), Assign(b, d), v, w)
<1>1. SameInOrder(at, a, b, l, k) /\ SameInOrder(turn, c, d, m, n)
    BY DEF Reorders
<1>2. /\ DOMAIN a = 1..l /\ DOMAIN b = 1..k /\ at \in [1..l -> 1..k]
      /\ DOMAIN c = 1..m /\ DOMAIN d = 1..n /\ turn \in [1..m -> 1..n]
    BY <1>1 DEF SameInOrder
<1>3. PICK r, s : r = Assign(a, c) /\ s = Assign(b, d) /\ r \in Seq(Tracks(D)) /\ s \in Seq(Tracks(D))
    BY AssignGoesOn
<1>4. Len(a) = l /\ Len(c) = m /\ Len(b) = k /\ Len(d) = n
    BY <1>2, ListElements DEF AreTracks
<1>5. PICK put : \E e, f, v \in Nat : PutIn(put, r, a, c, e, f, v)
    BY <1>3, DetectionsPlaced
<1>6. PICK v \in Nat : PutIn(put, r, a, c, l, m, v)
    <2>1. PICK e, f, v \in Nat : PutIn(put, r, a, c, e, f, v)
        BY <1>5
    <2>2. e = l /\ f = m
        BY <1>4, <2>1 DEF PutIn
    <2> QED
        BY <2>1, <2>2
<1>7. PICK set : \E e, f, w \in Nat : PutIn(set, s, b, d, e, f, w)
    BY <1>3, DetectionsPlaced
<1>8. PICK w \in Nat : PutIn(set, s, b, d, k, n, w)
    <2>1. PICK e, f, w \in Nat : PutIn(set, s, b, d, e, f, w)
        BY <1>7
    <2>2. e = k /\ f = n
        BY <1>4, <2>1 DEF PutIn
    <2> QED
        BY <2>1, <2>2
<1>9. l <= v /\ k <= w /\ put \in [1..m -> 1..v] /\ set \in [1..n -> 1..w]
    BY <1>6, <1>8 DEF PutIn
<1>10. DOMAIN r = 1..v /\ DOMAIN s = 1..w
    BY <1>3, <1>6, <1>8, ListElements DEF PutIn
\* A detection goes on a track in the one where it does in the other.
<1>11. ASSUME NEW j \in 1..m, NEW t \in 1..l
       PROVE  put[j] = t <=> set[turn[j]] = at[t]
    <2>1. PICK i \in 1..n, u \in 1..k : i = turn[j] /\ u = at[t]
        BY <1>2
    <2>2. <<t, j>> \in Assigned(a, c) <=> <<u, i>> \in Assigned(b, d)
        BY <2>1, SameAssigned
    <2>3. put[j] = t <=> <<t, j>> \in Assigned(a, c)
        <3>1. ASSUME <<t, j>> \in Assigned(a, c) PROVE put[j] = t
            <4>1. PICK p : p = <<t, j>> /\ p[1] = t /\ p[2] = j
                <5>1. <<t, j>>[1] = t /\ <<t, j>>[2] = j
                    OBVIOUS
                <5> QED
                    BY <5>1, Zenon
            <4> QED
                BY <1>6, <3>1, <4>1 DEF PutIn
        <3>2. ASSUME put[j] = t PROVE <<t, j>> \in Assigned(a, c)
            <4>1. put[j] <= l
                BY <3>2
            <4> QED
                BY <1>6, <3>2, <4>1 DEF PutIn
        <3> QED
            BY <3>1, <3>2
    <2>4. set[i] = u <=> <<u, i>> \in Assigned(b, d)
        <3>1. ASSUME <<u, i>> \in Assigned(b, d) PROVE set[i] = u
            <4>1. PICK p : p = <<u, i>> /\ p[1] = u /\ p[2] = i
                <5>1. <<u, i>>[1] = u /\ <<u, i>>[2] = i
                    OBVIOUS
                <5> QED
                    BY <5>1, Zenon
            <4> QED
                BY <1>8, <3>1, <4>1 DEF PutIn
        <3>2. ASSUME set[i] = u PROVE <<u, i>> \in Assigned(b, d)
            <4>1. set[i] <= k
                BY <3>2
            <4> QED
                BY <1>8, <3>2, <4>1 DEF PutIn
        <3> QED
            BY <3>1, <3>2
    <2> QED
        BY <2>1, <2>2, <2>3, <2>4
<1>12. ASSUME NEW j \in 1..m
       PROVE  put[j] > l <=> set[turn[j]] > k
    <2>1. PICK i \in 1..n, t \in 1..v, u \in 1..w : i = turn[j] /\ t = put[j] /\ u = set[i]
        BY <1>2, <1>9
    <2>2. ASSUME t <= l PROVE u <= k
        <3>1. t \in 1..l
            BY <2>2
        <3>2. set[turn[j]] = at[t] /\ at[t] \in 1..k
            BY <1>2, <1>11, <2>1, <3>1
        <3> QED
            BY <2>1, <3>2
    <2>3. ASSUME u <= k PROVE t <= l
        <3>1. u \in 1..k
            BY <2>3
        <3>2. PICK e \in 1..l : at[e] = u
            BY <1>1, <3>1 DEF SameInOrder
        <3>3. put[j] = e
            BY <1>11, <2>1, <3>2
        <3> QED
            BY <2>1, <3>3
    <2> QED
        BY <2>1, <2>2, <2>3
<1>13. \A t \in (l + 1)..v : \E j \in 1..m : put[j] = t
    BY <1>6 DEF PutIn
<1>14. \A i, j \in 1..m : put[i] = put[j] => i = j
    BY <1>6 DEF PutIn
<1> DEFINE Of(t) == CHOOSE j \in 1..m : put[j] = t
           to == [t \in 1..v |-> IF t <= l THEN at[t] ELSE set[turn[Of(t)]]]
<1>15. ASSUME NEW t \in 1..v, t > l
       PROVE  \E j \in 1..m : put[j] = t /\ to[t] = set[turn[j]] /\ to[t] \in 1..w /\ to[t] > k
    <2>1. t \in (l + 1)..v /\ ~(t <= l)
        BY <1>15
    <2>2. PICK j : j = Of(t)
        OBVIOUS
    <2>3. j \in 1..m /\ put[j] = t
        BY <1>13, <2>1, <2>2
    <2>4. to[t] = set[turn[j]]
        BY <2>1, <2>2
    <2>5. PICK i \in 1..n : i = turn[j]
        BY <1>2, <2>3
    <2>6. set[i] \in 1..w /\ set[i] > k
        BY <1>9, <1>12, <1>15, <2>3, <2>5
    <2> QED
        BY <2>3, <2>4, <2>5, <2>6
<1>16. ASSUME NEW t \in 1..v, t <= l
       PROVE  to[t] = at[t] /\ t \in 1..l /\ to[t] \in 1..k /\ to[t] \in 1..w
    <2>1. to[t] = at[t] /\ t \in 1..l
        BY <1>16
    <2>2. at[t] \in 1..k
        BY <1>2, <2>1
    <2>3. at[t] \in 1..w
        BY <1>9, <2>2
    <2> QED
        BY <2>1, <2>2, <2>3
<1>22. ASSUME NEW t \in 1..v
       PROVE  (t <= l => to[t] <= k) /\ (t > l => to[t] > k)
    <2>1. ASSUME t <= l PROVE to[t] <= k
        <3>1. to[t] \in 1..k
            BY <1>16, <2>1
        <3> QED
            BY <3>1
    <2>2. ASSUME t > l PROVE to[t] > k
        BY <1>15, <2>2
    <2> QED
        BY <2>1, <2>2
<1>17. to \in [1..v -> 1..w]
    <2>1. to = [t \in 1..v |-> to[t]]
        OBVIOUS
    <2>2. \A t \in 1..v : to[t] \in 1..w
        BY <1>15, <1>16
    <2> HIDE DEF to
    <2> QED
        BY <2>1, <2>2
<1> HIDE DEF to, Of
<1>18. ASSUME NEW t \in 1..v, NEW u \in 1..v, to[t] = to[u] PROVE t = u
    <2>1. PICK x \in 1..w : x = to[t] /\ x = to[u]
        BY <1>17, <1>18
    <2>4. (t <= l => x <= k) /\ (t > l => x > k) /\ (u <= l => x <= k) /\ (u > l => x > k)
        BY <1>22, <2>1
    <2>2. CASE x <= k
        <3>1. t <= l /\ u <= l
            BY <2>2, <2>4
        <3>2. at[t] = at[u] /\ t \in 1..l /\ u \in 1..l
            BY <1>16, <2>1, <3>1
        <3> QED
            BY <1>1, <3>2 DEF SameInOrder
    <2>3. CASE ~(x <= k)
        <3>1. t > l /\ u > l
            BY <2>3, <2>4
        <3>2. PICK i \in 1..m : put[i] = t /\ x = set[turn[i]]
            BY <1>15, <2>1, <3>1
        <3>3. PICK j \in 1..m : put[j] = u /\ x = set[turn[j]]
            BY <1>15, <2>1, <3>1
        <3>4. PICK e \in 1..n, f \in 1..n : e = turn[i] /\ f = turn[j]
            BY <1>2
        <3>7. \A e_1, f_1 \in 1..n : set[e_1] = set[f_1] => e_1 = f_1
            BY <1>8 DEF PutIn
        <3>5. e = f
            BY <3>2, <3>3, <3>4, <3>7
        <3>6. i = j
            BY <1>1, <3>4, <3>5 DEF SameInOrder
        <3> QED
            BY <3>2, <3>3, <3>6
    <2> QED
        BY <2>2, <2>3
<1>19. ASSUME NEW x \in 1..w PROVE \E t \in 1..v : to[t] = x
    <2>1. CASE x <= k
        <3>1. PICK t \in 1..l : at[t] = x
            BY <1>1, <2>1 DEF SameInOrder
        <3>2. t \in 1..v /\ t <= l
            BY <1>9
        <3> QED
            BY <1>16, <3>1, <3>2
    <2>2. CASE ~(x <= k)
        <3>1. x \in (k + 1)..w
            BY <2>2
        <3>2. PICK i \in 1..n : set[i] = x
            BY <1>8, <3>1 DEF PutIn
        <3>3. PICK j \in 1..m : turn[j] = i
            BY <1>1 DEF SameInOrder
        <3>4. PICK t \in 1..v : t = put[j]
            BY <1>9
        <3>5. t > l
            BY <1>12, <2>2, <3>2, <3>3, <3>4
        <3>6. PICK e \in 1..m : put[e] = t /\ to[t] = set[turn[e]]
            BY <1>15, <3>5
        <3>7. e = j
            BY <1>14, <3>4, <3>6
        <3> QED
            BY <3>2, <3>3, <3>6, <3>7
    <2> QED
        BY <2>1, <2>2
<1>20. ASSUME NEW t \in 1..v PROVE s[to[t]] = r[t]
    <2>1. CASE t > l
        <3>1. PICK j \in 1..m : put[j] = t /\ to[t] = set[turn[j]] /\ to[t] > k
            BY <1>15, <2>1
        <3>2. PICK i \in 1..n : i = turn[j]
            BY <1>2
        <3>3. r[t] = Begun(c[j])
            BY <1>6, <2>1, <3>1 DEF PutIn
        <3>4. s[to[t]] = Begun(d[i])
            BY <1>8, <3>1, <3>2 DEF PutIn
        <3>5. d[i] = c[j]
            BY <1>1, <3>2 DEF SameInOrder
        <3> QED
            BY <3>3, <3>4, <3>5
    <2>2. CASE t <= l
        <3>1. PICK u : u = at[t] /\ to[t] = u /\ t \in 1..l /\ u \in 1..k
            BY <1>16, <2>2
        <3>2. b[u] = a[t]
            BY <1>1, <3>1 DEF SameInOrder
        <3>3. CASE \E j \in 1..m : put[j] = t
            <4>1. PICK j \in 1..m, i \in 1..n : put[j] = t /\ i = turn[j]
                BY <1>2, <3>3
            <4>2. set[i] = u /\ set[i] <= k
                BY <1>11, <3>1, <4>1
            <4>3. r[t] = [a[t] EXCEPT !.detections = Append(@, c[j])]
                BY <1>6, <2>2, <4>1 DEF PutIn
            <4>4. s[u] = [b[u] EXCEPT !.detections = Append(@, d[i])]
                BY <1>8, <4>2 DEF PutIn
            <4>5. d[i] = c[j]
                BY <1>1, <4>1 DEF SameInOrder
            <4> QED
                BY <3>1, <3>2, <4>3, <4>4, <4>5
        <3>4. CASE \A j \in 1..m : put[j] # t
            <4>1. r[t] = a[t]
                BY <1>6, <3>1, <3>4 DEF PutIn
            <4>2. ASSUME NEW i \in 1..n PROVE set[i] # u
                <5>1. PICK j \in 1..m : turn[j] = i
                    BY <1>1 DEF SameInOrder
                <5> QED
                    BY <1>11, <3>1, <3>4, <5>1
            <4>3. s[u] = b[u]
                BY <1>8, <3>1, <4>2 DEF PutIn
            <4> QED
                BY <3>1, <3>2, <4>1, <4>3
        <3> QED
            BY <3>3, <3>4
    <2> QED
        BY <2>1, <2>2
<1>21. SameInOrder(to, r, s, v, w)
    BY <1>10, <1>17, <1>18, <1>19, <1>20 DEF SameInOrder
<1> QED
    BY <1>3, <1>21

\* The frames of other have what those of rows have, in another order.
Turned(rows, other, n) ==
    \A f \in 1..n : \E turn : \E m, k \in Nat : SameInOrder(turn, rows[f], other[f], m, k)

UntiedThrough(h, rows, n) == \A f \in 1..n : Untied(h[f - 1], rows[f])

Same(a, b) == \E at : \E l, k \in Nat : SameInOrder(at, a, b, l, k)

LEMMA SameThrough ==
    ASSUME NEW rows, NEW other, NEW h, NEW g, NEW n, NEW D, TrackedThrough(h, rows, n, D),
           TrackedThrough(g, other, n, D), Turned(rows, other, n), UntiedThrough(h, rows, n)
    PROVE  Same(h[n], g[n])
<1>1. n \in Nat /\ h[0] = <<>> /\ g[0] = <<>>
    BY DEF TrackedThrough, RunsThrough
<1> DEFINE P == {f \in 0..n : Same(h[f], g[f])}
<1>2. Same(h[0], g[0])
    <2>1. PICK a : a = <<>>
        OBVIOUS
    <2>2. SameInOrder(a, a, a, 0, 0)
        BY <2>1 DEF SameInOrder
    <2>3. Same(a, a)
        BY <2>2 DEF Same
    <2> QED
        BY <1>1, <2>1, <2>3
<1>3. ASSUME NEW f \in 1..n, Same(h[f - 1], g[f - 1]) PROVE Same(h[f], g[f])
    <2>1. PICK a, b, c, d : a = h[f - 1] /\ b = g[f - 1] /\ c = rows[f] /\ d = other[f]
        OBVIOUS
    <2>2. /\ AreTracks(a, c, n, D) /\ h[f] = Assign(a, c)
          /\ AreTracks(b, d, n, D) /\ g[f] = Assign(b, d)
        BY <2>1, TrackedFrame
    <2>3. PICK at : \E l, k \in Nat : SameInOrder(at, a, b, l, k)
        BY <1>3, <2>1 DEF Same
    <2>4. PICK l, k \in Nat : SameInOrder(at, a, b, l, k)
        BY <2>3
    <2>5. PICK turn : \E m, i \in Nat : SameInOrder(turn, c, d, m, i)
        BY <2>1 DEF Turned
    <2>6. PICK m, i \in Nat : SameInOrder(turn, c, d, m, i)
        BY <2>5
    <2>7. Untied(a, c)
        BY <2>1 DEF UntiedThrough
    <2>8. Reorders(at, a, b, l, k, turn, c, d, m, i)
        BY <2>4, <2>6, <2>7 DEF Reorders
    <2>9. \E to : \E v, w \in Nat : SameInOrder(to, Assign(a, c), Assign(b, d), v, w)
        BY <2>2, <2>8, SameAfterFrame
    <2> QED
        BY <2>2, <2>9 DEF Same
<1>4. n \in P
    <2>1. 0 \in P /\ \A f \in 1..n : f - 1 \in P => f \in P
        <3>1. 0 \in 0..n /\ \A f \in 1..n : f \in 0..n
            BY <1>1
        <3> QED
            BY <1>2, <1>3, <3>1
    <2> HIDE DEF P
    <2>2. \A f \in 0..n : f \in P
        BY <1>1, <2>1, StepByStep, Zenon
    <2> QED
        BY <1>1, <2>2
<1> QED
    BY <1>4

LEMMA SameElements ==
    ASSUME NEW a, NEW b, Same(a, b)
    PROVE  ToSet(a) = ToSet(b)
<1>1. PICK at : \E l, k \in Nat : SameInOrder(at, a, b, l, k)
    BY DEF Same
<1>2. PICK l, k \in Nat : SameInOrder(at, a, b, l, k)
    BY <1>1
<1>3. ASSUME NEW t \in DOMAIN a PROVE \E u \in DOMAIN b : a[t] = b[u]
    BY <1>2 DEF SameInOrder
<1>4. ASSUME NEW u \in DOMAIN b PROVE \E t \in DOMAIN a : a[t] = b[u]
    BY <1>2 DEF SameInOrder
<1> QED
    BY <1>3, <1>4 DEF ToSet

(* What is finalised depends on which tracks there are.                    *)
LEMMA SameObjects ==
    ASSUME NEW D, NEW rows, NEW other, IouTracks(rows) \in Seq(Tracks(D)),
           IouTracks(other) \in Seq(Tracks(D)), ToSet(IouTracks(rows)) = ToSet(IouTracks(other))
    PROVE  ToSet(IouTrack(rows)) = ToSet(IouTrack(other))
<1>1. PICK s, t : s = IouTracks(rows) /\ t = IouTracks(other)
    OBVIOUS
<1>2. ToSet(ByClass(s)) = ToSet(ByClass(t))
    BY <1>1, TracksByClass
<1>3. ASSUME NEW a PROVE ToSet(FinalizeAll(a)) = {Finalize(track) : track \in ToSet(a)}
    BY DEF FinalizeAll, ToSet
<1>4. ToSet(FinalizeAll(ByClass(s))) = ToSet(FinalizeAll(ByClass(t)))
    BY <1>2, <1>3
<1> QED
    BY <1>1, <1>4 DEF IouTrack

-----------------------------------------------------------------------------
Reversed(rows) == [f \in DOMAIN rows |-> Reverse(rows[f])]

LEMMA ReversedList ==
    ASSUME NEW X, NEW s, s \in Seq(X)
    PROVE  /\ Reverse(s) \in Seq(X) /\ ToSet(Reverse(s)) \subseteq ToSet(s)
           /\ Same(s, Reverse(s))
<1>1. PICK m \in Nat : m = Len(s) /\ DOMAIN s = 1..m /\ \A j \in 1..m : s[j] \in X
    BY ListElements
<1>2. PICK r : r = Reverse(s)
    OBVIOUS
<1>3. r = [j \in 1..m |-> s[(m - j) + 1]]
    BY <1>1, <1>2 DEF Reverse
<1>4. \A j \in 1..m : (m - j) + 1 \in 1..m
    OBVIOUS
<1>5. r \in [1..m -> X]
    BY <1>1, <1>3, <1>4
<1>6. r \in Seq(X)
    BY <1>5, FunctionList
<1>7. ToSet(r) \subseteq ToSet(s)
    <2>1. \A j \in DOMAIN r : r[j] = s[(m - j) + 1] /\ (m - j) + 1 \in DOMAIN s
        BY <1>1, <1>3, <1>4
    <2> QED
        BY <2>1 DEF ToSet
<1> DEFINE at == [j \in 1..m |-> (m - j) + 1]
<1>8. SameInOrder(at, s, r, m, m)
    <2>1. at \in [1..m -> 1..m]
        BY <1>4
    <2>2. ASSUME NEW i \in 1..m, NEW j \in 1..m, at[i] = at[j] PROVE i = j
        BY <2>2
    <2>3. ASSUME NEW i \in 1..m PROVE at[at[i]] = i /\ at[i] \in 1..m
        BY <1>4
    <2>4. ASSUME NEW j \in 1..m PROVE r[at[j]] = s[j]
        <3>1. PICK i \in 1..m : i = at[j] /\ (m - i) + 1 = j
            BY <1>4
        <3> QED
            BY <1>3, <3>1
    <2>5. \A i \in 1..m : \E j \in 1..m : at[j] = i
        BY <2>3
    <2>6. DOMAIN r = 1..m
        BY <1>3
    <2> HIDE DEF at
    <2> QED
        BY <1>1, <2>1, <2>2, <2>4, <2>5, <2>6 DEF SameInOrder
<1> HIDE DEF at
<1>9. Same(s, r)
    BY <1>8 DEF Same
<1> QED
    BY <1>2, <1>6, <1>7, <1>9

LEMMA ReversedRows ==
    ASSUME NEW rows, NEW n \in Nat, NEW D, AreRows(rows, n, D)
    PROVE  AreRows(Reversed(rows), n, D) /\ Turned(rows, Reversed(rows), n)
<1>1. /\ rows \in [1..n -> Seq(D)]
      /\ \A d \in D : IsDetection(d, n)
      /\ \A f \in 1..n : \A d \in ToSet(rows[f]) : d.frame = f
    BY DEF AreRows
<1>2. PICK other : other = Reversed(rows)
    OBVIOUS
<1>3. other = [f \in 1..n |-> Reverse(rows[f])]
    BY <1>1, <1>2 DEF Reversed
<1>4. ASSUME NEW f \in 1..n
      PROVE  other[f] \in Seq(D) /\ ToSet(other[f]) \subseteq ToSet(rows[f]) /\ Same(rows[f], other[f])
    <2>1. PICK s, r : s = rows[f] /\ r = other[f] /\ s \in Seq(D)
        BY <1>1
    <2>2. r = Reverse(s)
        BY <1>3, <2>1
    <2>3. r \in Seq(D) /\ ToSet(r) \subseteq ToSet(s) /\ Same(s, r)
        BY <2>1, <2>2, ReversedList
    <2> QED
        BY <2>1, <2>3
<1>5. other \in [1..n -> Seq(D)]
    <2>1. other = [f \in 1..n |-> other[f]]
        BY <1>3
    <2> QED
        BY <1>4, <2>1
<1>6. AreRows(other, n, D)
    BY <1>1, <1>4, <1>5 DEF AreRows
<1>7. Turned(rows, other, n)
    BY <1>4 DEF Turned, Same
<1> QED
    BY <1>2, <1>6, <1>7

\* There are tracks only after the first frame.
Tied(rows) ==
    \E f \in 2..Len(rows) : \E p, q \in (DOMAIN IouTracks(SubSeq(rows, 1, f - 1))) \X (DOMAIN rows[f]) :
        /\ p # q /\ Closeness(IouTracks(SubSeq(rows, 1, f - 1)), rows[f], p).num > 0
        /\ ~Greater(Closeness(IouTracks(SubSeq(rows, 1, f - 1)), rows[f], p),
                    Closeness(IouTracks(SubSeq(rows, 1, f - 1)), rows[f], q))
        /\ ~Greater(Closeness(IouTracks(SubSeq(rows, 1, f - 1)), rows[f], q),
                    Closeness(IouTracks(SubSeq(rows, 1, f - 1)), rows[f], p))

LEMMA PairsOverlap ==
    ASSUME NEW N, NEW D, NEW tracks, NEW found, AreTracks(tracks, found, N, D),
           NEW p \in Pairs(tracks, found)
    PROVE  Closeness(tracks, found, p).num > 0
<1>1. PICK r : r = Closeness(tracks, found, p)
    OBVIOUS
<1>2. IsRatio(r)
    <2>1. p \in (1..Len(tracks)) \X (1..Len(found))
        BY PairsAreOrdered
    <2>2. PICK t \in 1..Len(tracks), j \in 1..Len(found) : t = p[1] /\ j = p[2]
        BY <2>1
    <2>3. LastBox(tracks[t]) \in FrameBox
        <3>1. tracks[t] \in Tracks(D)
            BY ListElements DEF AreTracks
        <3> QED
            BY <3>1, LastOfTrack DEF AreTracks
    <2>4. found[j].box \in FrameBox
        <3>1. found[j] \in D
            BY ListElements DEF AreTracks
        <3> QED
            BY <3>1 DEF AreTracks, IsDetection
    <2> QED
        BY <1>1, <2>2, <2>3, <2>4, OverlapRatio DEF Closeness
<1>3. PICK a \in Nat, b \in Nat \ {0} : a = r.num /\ b = r.den
    BY <1>2 DEF IsRatio
<1>4. Normalize(r) >= TrackingIouThreshold
    BY <1>1 DEF Pairs
<1>5. PICK scale \in Nat : scale = Whole
    BY WholeNumber
<1>6. Normalize(r) = RoundHalfUp(scale * a, b)
    BY <1>3, <1>5 DEF Normalize, Whole
<1>7. ASSUME a = 0 PROVE FALSE
    <2>1. scale * a = 0
        BY <1>5, <1>7
    <2>2. PICK v : v = RoundHalfUp(0, b)
        OBVIOUS
    <2>3. v \in Nat /\ 2 * b * v <= 2 * 0 + b
        BY <2>2, RoundHalfUpNearest
    <2>4. v = 0
        <3>1. v >= 1 => 2 * b * v >= 2 * b
            BY <2>3, Z3
        <3> QED
            BY <2>3, <3>1
    <2>5. TrackingIouThreshold > 0
        BY DEF TrackingIouThreshold
    <2>6. TrackingIouThreshold \in Nat
        BY DEF TrackingIouThreshold
    <2>7. Normalize(r) = 0
        BY <1>6, <2>1, <2>2, <2>4
    <2> QED
        BY <1>4, <2>5, <2>6, <2>7
<1> QED
    BY <1>1, <1>3, <1>7

LEMMA NoTies ==
    ASSUME NEW h, NEW rows, NEW n, NEW D, TrackedThrough(h, rows, n, D), ~Tied(rows)
    PROVE  UntiedThrough(h, rows, n)
<1>1. n \in Nat /\ h[0] = <<>> /\ Len(rows) = n
    <2>1. rows \in [1..n -> Seq(D)] /\ n \in Nat /\ h[0] = <<>>
        BY DEF TrackedThrough, RunsThrough, AreRows
    <2>2. Len(rows) = n
        BY <2>1, FunctionList
    <2> QED
        BY <2>1, <2>2
<1>2. ASSUME NEW f \in 1..n PROVE Untied(h[f - 1], rows[f])
    <2>1. PICK a, c : a = h[f - 1] /\ c = rows[f]
        OBVIOUS
    <2>2. AreTracks(a, c, n, D)
        BY <2>1, TrackedFrame
    <2>3. CASE f = 1
        <3>1. a = <<>>
            BY <1>1, <2>1, <2>3
        <3>2. Pairs(a, c) = {}
            BY <3>1 DEF Pairs
        <3> QED
            BY <2>1, <3>2 DEF Untied
    <2>4. CASE f # 1
        <3>1. PICK e : e = f - 1 /\ e \in 0..n
            BY <1>1
        <3>2. IouTracks(SubSeq(rows, 1, f - 1)) = a
            BY <2>1, <3>1, TrackedBeginning
        <3>3. f \in 2..Len(rows)
            BY <1>1, <2>4
        <3>4. \A p, q \in (DOMAIN a) \X (DOMAIN c) :
                ~(/\ p # q /\ Closeness(a, c, p).num > 0
                  /\ ~Greater(Closeness(a, c, p), Closeness(a, c, q))
                  /\ ~Greater(Closeness(a, c, q), Closeness(a, c, p)))
            BY <2>1, <3>2, <3>3, Zenon DEF Tied
        <3>5. \A p \in Pairs(a, c) : p \in (DOMAIN a) \X (DOMAIN c) /\ Closeness(a, c, p).num > 0
            BY <2>2, PairsOverlap DEF Pairs
        <3>6. Untied(a, c)
            BY <3>4, <3>5, Zenon DEF Untied
        <3> QED
            BY <2>1, <3>6
    <2> QED
        BY <2>3, <2>4
<1> QED
    BY <1>2 DEF UntiedThrough

(* The objects of a video without ties are the same in whatever order the  *)
(* detections of a frame are listed.                                       *)
LEMMA SameWhenReversed ==
    ASSUME NEW rows, NEW n \in Nat, NEW D, AreRows(rows, n, D), ~Tied(rows)
    PROVE  ToSet(IouTrack(rows)) = ToSet(IouTrack(Reversed(rows)))
<1>1. PICK other : other = Reversed(rows)
    OBVIOUS
<1>2. AreRows(other, n, D) /\ Turned(rows, other, n)
    BY <1>1, ReversedRows
<1>3. PICK h : TrackedThrough(h, rows, n, D) /\ IouTracks(rows) = h[n]
    BY TrackedSoFar
<1>4. PICK g : TrackedThrough(g, other, n, D) /\ IouTracks(other) = g[n]
    BY <1>2, TrackedSoFar
<1>5. Same(h[n], g[n])
    <2>1. UntiedThrough(h, rows, n)
        BY <1>3, NoTies
    <2> QED
        BY <1>2, <1>3, <1>4, <2>1, SameThrough
<1>6. ToSet(IouTracks(rows)) = ToSet(IouTracks(other))
    BY <1>3, <1>4, <1>5, SameElements
<1>7. h[n] \in Seq(Tracks(D)) /\ g[n] \in Seq(Tracks(D))
    BY <1>3, <1>4 DEF TrackedThrough, RunsThrough
<1> QED
    BY <1>1, <1>3, <1>4, <1>6, <1>7, SameObjects

LEMMA OrderInv == VisionInv => OrderIrrelevant
<1> SUFFICES ASSUME VisionInv, stage = "frame_selection", vision.tracker = "iou",
                    ~Tied(vision.rows)
             PROVE  ToSet(IouTrack(vision.rows)) = ToSet(IouTrack(Reversed(vision.rows)))
    BY Zenon DEF OrderIrrelevant, Tied, Reversed, Closeness
<1>1. stage \in WithRows /\ stage \in WithFrames
    BY DEF WithRows, WithObjects, WithFrames
<1>2. PICK rows, n : rows = vision.rows /\ n = Len(vision.frames)
    OBVIOUS
<1>3. n \in Nat
    BY <1>1, <1>2 DEF VisionInv, AreFrames
<1>4. PICK D : AreRows(rows, n, D)
    BY <1>1, <1>2 DEF VisionInv
<1> QED
    BY <1>2, <1>3, <1>4, SameWhenReversed

(* OrderIrrelevant (tracking.py:155, _assign).                             *)
THEOREM OrderDoesNotMatter == Spec => []OrderIrrelevant
<1>1. Init => VisionInv
    BY VisionInitInv
<1>2. Init => SamplingInv
    BY SamplingInitInv
<1>3. SamplingInv /\ VisionInv /\ [Next]_vars => SamplingInv' /\ VisionInv'
    BY VisionNextInv, SamplingNextInv
<1>4. VisionInv => OrderIrrelevant
    BY OrderInv
<1> QED
    BY <1>1, <1>2, <1>3, <1>4, PTL DEF Spec
=============================================================================
