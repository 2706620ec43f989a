------------------------- MODULE AnalysisDataProofs -------------------------
(***************************************************************************)
(* The score that is stored is the one the text model was told, and a      *)
(* client that follows hasNext reads a history once, in every world; the   *)
(* frames taken from a video are the first ones for its moments; what      *)
(* validate changes in an answer is listed as a repair, for answers of any *)
(* length; and the arithmetic of the data path, for all numbers: what      *)
(* rounding keeps, that a clamped box lies in the frame, by how much the   *)
(* rounded columns of a box can leave it, how much of two boxes is common, *)
(* and which pages of a history have a next one.                           *)
(***************************************************************************)
EXTENDS AnalysisData, ListsProofs

(* RoundHalfUp is the nearest integer, the upper one of two.               *)
LEMMA RoundHalfUpNearest ==
    ASSUME NEW num \in Nat, NEW den \in Nat \ {0}
    PROVE  /\ RoundHalfUp(num, den) \in Nat
           /\ 2 * den * RoundHalfUp(num, den) <= 2 * num + den
           /\ 2 * num + den < 2 * den * RoundHalfUp(num, den) + 2 * den
<1> DEFINE a == 2 * num + den
           b == 2 * den
<1>1. a \in Nat /\ b \in Nat \ {0}
    OBVIOUS
<1> HIDE DEF a, b
<1>2. a \div b \in Nat /\ b * (a \div b) <= a /\ a < b * (a \div b) + b
    BY <1>1, Z3
<1> QED
    BY <1>2 DEF a, b, RoundHalfUp

(* A share of a whole is rounded to a share of the scale: a score of 100,  *)
(* a column of 10000 units.                                                *)
LEMMA RoundedShare ==
    ASSUME NEW num \in Nat, NEW den \in Nat \ {0}, NEW scale \in Nat,
           num <= den
    PROVE  RoundHalfUp(scale * num, den) \in 0..scale
<1> DEFINE r == RoundHalfUp(scale * num, den)
<1>1. scale * num \in Nat /\ scale * num <= scale * den
    BY Z3
<1>2. r \in Nat /\ 2 * den * r <= 2 * (scale * num) + den
    BY <1>1, RoundHalfUpNearest
<1> HIDE DEF r
<1>3. 2 * den * r <= 2 * (scale * den) + den
    BY <1>1, <1>2, Z3
<1>4. r <= scale
    <2>1. SUFFICES ASSUME r >= scale + 1 PROVE FALSE
        BY <1>2
    <2>2. 2 * den * r >= 2 * den * (scale + 1)
        BY <1>2, <2>1, Z3
    <2> QED
        BY <1>2, <1>3, <2>2, Z3
<1> QED
    BY <1>2, <1>4 DEF r

Frame == 0..Grid
BoxType == [x : Nat, y : Nat, width : Nat, height : Nat]

(* clamp_box: whatever the detector returns, the box lies in the frame,    *)
(* and a box that lies there is not changed (detector.py).                 *)
THEOREM ClampedBoxInFrame ==
    ASSUME NEW b \in [x : Int, y : Int, width : Nat, height : Nat]
    PROVE  /\ ClampBox(b) \in [x : Frame, y : Frame, width : Frame, height : Frame]
           /\ Right(ClampBox(b)) \in Frame /\ Bottom(ClampBox(b)) \in Frame
           /\ b.x >= 0 /\ b.y >= 0 /\ Right(b) <= Grid /\ Bottom(b) <= Grid
                => ClampBox(b) = b
<1>1. Grid \in Nat \ {0}
    BY GridAssumption DEF GridAssumption
<1>2. b.x \in Int /\ b.y \in Int /\ b.width \in Nat /\ b.height \in Nat
    OBVIOUS
<1>3. ASSUME NEW v \in Int, NEW w \in Nat
      PROVE  /\ InFrame(v) \in Frame
             /\ Greatest(InFrame(v + w) - InFrame(v), 0) \in Frame
             /\ InFrame(v) + Greatest(InFrame(v + w) - InFrame(v), 0) \in Frame
             /\ v >= 0 /\ v + w <= Grid =>
                    InFrame(v) = v /\ Greatest(InFrame(v + w) - InFrame(v), 0) = w
    BY <1>1 DEF InFrame, Least, Greatest, Frame
<1> DEFINE width == Greatest(InFrame(b.x + b.width) - InFrame(b.x), 0)
           height == Greatest(InFrame(b.y + b.height) - InFrame(b.y), 0)
<1>4. ClampBox(b) = [x |-> InFrame(b.x), y |-> InFrame(b.y), width |-> width, height |-> height]
    BY DEF ClampBox, Right, Bottom
<1>5. /\ InFrame(b.x) \in Frame /\ width \in Frame /\ InFrame(b.x) + width \in Frame
      /\ b.x >= 0 /\ b.x + b.width <= Grid => InFrame(b.x) = b.x /\ width = b.width
    BY <1>2, <1>3
<1>6. /\ InFrame(b.y) \in Frame /\ height \in Frame /\ InFrame(b.y) + height \in Frame
      /\ b.y >= 0 /\ b.y + b.height <= Grid => InFrame(b.y) = b.y /\ height = b.height
    BY <1>2, <1>3
<1> HIDE DEF width, height
<1>7. b = [x |-> b.x, y |-> b.y, width |-> b.width, height |-> b.height]
    OBVIOUS
<1> QED
    BY <1>4, <1>5, <1>6, <1>7 DEF Right, Bottom

(* A column of NUMERIC(5,4) for a side of a box, in units of its last digit. *)
Column(side) == Normalize(Ratio(side, Grid))

LEMMA ColumnWithin ==
    ASSUME NEW side \in Nat
    PROVE  Column(side) \in Nat /\ 2 * (Grid * Column(side)) <= 20000 * side + Grid
<1> DEFINE part == 10000 * side
           column == RoundHalfUp(part, Grid)
<1>1. part \in Nat /\ Grid \in Nat \ {0}
    BY GridAssumption DEF GridAssumption
<1>2. Column(side) = column
    BY DEF Column, Normalize, Ratio
<1> HIDE DEF part
<1>3. column \in Nat /\ 2 * Grid * column <= 2 * part + Grid
    BY <1>1, RoundHalfUpNearest
<1> HIDE DEF column
<1>4. 2 * Grid * column = 2 * (Grid * column)
    BY <1>1, <1>3, Z3
<1> QED
    BY <1>1, <1>2, <1>3, <1>4 DEF part

(* ck_detected_object_bounds: the rounded columns of a box in the frame    *)
(* leave it by one unit at most, and only when the box ends at the edge,   *)
(* however fine the grid is.                                               *)
THEOREM OverrunOfOneUnit ==
    ASSUME NEW start \in Nat, NEW size \in Nat, start + size <= Grid
    PROVE  /\ Column(start) + Column(size) <= 10001
           /\ start + size < Grid => Column(start) + Column(size) <= 10000
<1> DEFINE sum == Column(start) + Column(size)
<1>1. Grid \in Nat \ {0}
    BY GridAssumption DEF GridAssumption
<1>2. /\ Column(start) \in Nat /\ 2 * (Grid * Column(start)) <= 20000 * start + Grid
      /\ Column(size) \in Nat /\ 2 * (Grid * Column(size)) <= 20000 * size + Grid
    BY ColumnWithin
<1>3. Grid * sum = Grid * Column(start) + Grid * Column(size)
    BY <1>1, <1>2, Z3
<1>4. sum \in Nat /\ Grid * sum <= 10000 * (start + size) + Grid
    BY <1>1, <1>2, <1>3, Z3
<1> HIDE DEF sum
<1>5. ASSUME NEW most \in Nat, sum > most
      PROVE  most * Grid + Grid <= 10000 * (start + size) + Grid
    <2>1. Grid * sum >= Grid * (most + 1)
        BY <1>1, <1>4, <1>5, Z3
    <2> QED
        BY <1>1, <1>4, <2>1, Z3
<1>6. sum <= 10001
    <2>1. SUFFICES ASSUME sum > 10001 PROVE FALSE
        BY <1>4
    <2>2. 10001 * Grid + Grid <= 10000 * (start + size) + Grid
        BY <1>5, <2>1
    <2> QED
        BY <1>1, <2>2
<1>7. ASSUME start + size < Grid PROVE sum <= 10000
    <2>1. SUFFICES ASSUME sum > 10000 PROVE FALSE
        BY <1>4
    <2>2. 10000 * Grid + Grid <= 10000 * (start + size) + Grid
        BY <1>5, <2>1
    <2> QED
        BY <1>1, <1>7, <2>2
<1> QED
    BY <1>6, <1>7 DEF sum

(* A share of a whole in the units of the threshold it is compared with.   *)
Scaled(num, den) == Normalize(Ratio(num, den))

LEMMA NormalizedShare ==
    ASSUME NEW num \in Nat, NEW den \in Nat \ {0}, num <= den
    PROVE  Scaled(num, den) \in Nat /\ Scaled(num, den) <= 10000
<1> DEFINE scale == 10000
<1>1. scale \in Nat
    OBVIOUS
<1> HIDE DEF scale
<1>2. RoundHalfUp(scale * num, den) \in 0..scale
    BY <1>1, RoundedShare
<1>3. RoundHalfUp(scale * num, den) \in Nat /\ RoundHalfUp(scale * num, den) <= scale
    BY <1>1, <1>2
<1> QED
    BY <1>3 DEF scale, Scaled, Normalize, Ratio

(* What two boxes have in common does not depend on which is which, and is *)
(* no more than either of them (geometry.py, intersection_area).           *)
LEMMA IntersectionWithin ==
    ASSUME NEW a \in BoxType, NEW b \in BoxType
    PROVE  /\ Area(a) \in Nat /\ Area(b) \in Nat
           /\ IntersectionArea(a, b) \in Nat
           /\ IntersectionArea(a, b) = IntersectionArea(b, a)
           /\ IntersectionArea(a, b) <= Area(a) /\ IntersectionArea(a, b) <= Area(b)
<1> DEFINE width == Least(Right(a), Right(b)) - Greatest(a.x, b.x)
           height == Least(Bottom(a), Bottom(b)) - Greatest(a.y, b.y)
<1>1. /\ a.width \in Nat /\ b.width \in Nat /\ width \in Int
      /\ width <= a.width /\ width <= b.width
      /\ width = Least(Right(b), Right(a)) - Greatest(b.x, a.x)
    BY DEF BoxType, Least, Greatest, Right
<1>2. /\ a.height \in Nat /\ b.height \in Nat /\ height \in Int
      /\ height <= a.height /\ height <= b.height
      /\ height = Least(Bottom(b), Bottom(a)) - Greatest(b.y, a.y)
    BY DEF BoxType, Least, Greatest, Bottom
<1>3. Area(a) \in Nat /\ Area(b) \in Nat
    BY <1>1, <1>2, Z3 DEF Area
<1>4. IntersectionArea(a, b) = IF width <= 0 \/ height <= 0 THEN 0 ELSE width * height
    BY DEF IntersectionArea
<1>5. IntersectionArea(b, a) = IF width <= 0 \/ height <= 0 THEN 0 ELSE width * height
    BY <1>1, <1>2 DEF IntersectionArea
<1> HIDE DEF width, height
<1>6. CASE width <= 0 \/ height <= 0
    BY <1>3, <1>4, <1>5, <1>6
<1>7. CASE width > 0 /\ height > 0
    <2>1. width * height \in Nat
        BY <1>1, <1>2, <1>7, Z3
    <2>2. width * height <= a.width * a.height /\ width * height <= b.width * b.height
        BY <1>1, <1>2, <1>7, Z3
    <2>3. ~(width <= 0 \/ height <= 0)
        BY <1>1, <1>2, <1>7
    <2> QED
        BY <1>3, <1>4, <1>5, <2>1, <2>2, <2>3 DEF Area
<1> QED
    BY <1>1, <1>2, <1>6, <1>7

(* iou: the overlap of two boxes is a share of their union, on the scale   *)
(* of the threshold it is compared with, and the same for either order.    *)
THEOREM OverlapIsShare ==
    ASSUME NEW a \in BoxType, NEW b \in BoxType, Area(a) > 0, Area(b) > 0
    PROVE  /\ Iou(a, b) = Iou(b, a)
           /\ Normalize(Iou(a, b)) \in Nat /\ Normalize(Iou(a, b)) <= 10000
<1> DEFINE overlap == IntersectionArea(a, b)
           union == Area(a) + Area(b) - overlap
<1>1. /\ Area(a) \in Nat /\ Area(b) \in Nat
      /\ overlap \in Nat /\ overlap = IntersectionArea(b, a)
      /\ overlap <= Area(a) /\ overlap <= Area(b)
    BY IntersectionWithin
<1> HIDE DEF overlap
<1>2. union \in Nat \ {0} /\ overlap <= union /\ union = Area(b) + Area(a) - overlap
    BY <1>1
<1>3. Iou(a, b) = IF overlap = 0 THEN Ratio(0, 1) ELSE Ratio(overlap, union)
    BY DEF Iou, overlap
<1>4. Iou(b, a) = IF overlap = 0 THEN Ratio(0, 1) ELSE Ratio(overlap, union)
    BY <1>1, <1>2 DEF Iou
<1> HIDE DEF union
<1>5. Scaled(overlap, union) \in Nat /\ Scaled(overlap, union) <= 10000
    BY <1>1, <1>2, NormalizedShare
<1>6. Scaled(0, 1) \in Nat /\ Scaled(0, 1) <= 10000
    BY NormalizedShare
<1> QED
    BY <1>3, <1>4, <1>5, <1>6 DEF Scaled

(* Pagination.build: a page has a next one exactly when analyses are left  *)
(* after it, so that a client that follows hasNext gets no empty page but  *)
(* the first and misses none (schemas/analysis.py, repository.py).         *)
THEOREM NextPageIffLeft ==
    ASSUME NEW page \in Nat \ {0}, NEW size \in Nat \ {0}, NEW total \in Nat
    PROVE  Pagination(page, size, total).hasNext <=> page * size < total
<1> DEFINE a == total + size - 1
           pages == a \div size
<1>1. a \in Nat
    OBVIOUS
<1> HIDE DEF a
<1>2. pages \in Nat /\ size * pages <= a /\ a < size * pages + size
    BY <1>1, Z3
<1>3. Pagination(page, size, total).hasNext <=> page < pages
    BY DEF Pagination, a
<1> HIDE DEF pages
<1>4. ASSUME page < pages PROVE page * size < total
    <2>1. size * (page + 1) <= size * pages
        BY <1>2, <1>4, Z3
    <2> QED
        BY <1>2, <2>1, Z3 DEF a
<1>5. ASSUME page >= pages PROVE ~(page * size < total)
    <2>1. size * pages <= page * size
        BY <1>2, <1>5, Z3
    <2> QED
        BY <1>2, <2>1, Z3 DEF a
<1> QED
    BY <1>2, <1>3, <1>4, <1>5

-----------------------------------------------------------------------------
(* The score is computed for the prompt and once more for the row.  What   *)
(* it is computed from must not change in between, whatever the detector   *)
(* finds, the model answers and the tables and limits are.                 *)
Rating == {"environment_analysis", "saving", "completed", "refused"}

ScoreInv ==
    /\ DOMAIN report = {"score", "prompt", "answer", "output"}
    /\ stage \in Rating => report.score = Score
    /\ stage \notin Rating \cup {"failed"} => report.prompt = None
    /\ stage \notin {"completed", "refused"} => row = None
    /\ stage \in {"saving", "completed", "refused"} => report.prompt # None
    /\ report.prompt # None =>
        {"score", "retry"} \subseteq DOMAIN report.prompt /\ report.prompt.score = report.score
    /\ row # None => row.score = report.score

ScoreIsTold == row # None => report.prompt # None /\ row.score = report.prompt.score

LEMMA ScoreInitInv == Init => ScoreInv
BY DEF Init, ScoreInv, Rating

LEMMA ScoreNextInv == ScoreInv /\ [Next]_vars => ScoreInv'
<1> SUFFICES ASSUME ScoreInv, [Next]_vars PROVE ScoreInv'
    OBVIOUS
<1> USE DEF ScoreInv, Rating
<1>1. ASSUME UNCHANGED <<input, vision>> PROVE Score' = Score
    BY <1>1 DEF Score, DetectedNames
<1>2. CASE Request
    BY <1>2 DEF Request
<1>3. CASE ExtractFrames \/ DetectObjects \/ TrackObjects \/ SelectFrame \/ MarkRisks
    BY <1>3 DEF ExtractFrames, DetectObjects, TrackObjects, SelectFrame, MarkRisks
<1>4. CASE CalculateScore
    BY <1>1, <1>4 DEF CalculateScore
<1>5. CASE AskModel
    <2>1. PICK encoded : report' = [report EXCEPT !.prompt = PromptFor(encoded, None)]
        BY <1>5 DEF AskModel
    <2>2. /\ PromptFor(encoded, None).score = report.score
          /\ {"score", "retry"} \subseteq DOMAIN PromptFor(encoded, None)
        BY DEF PromptFor
    <2>3. /\ report'.prompt = PromptFor(encoded, None) /\ report'.score = report.score
          /\ DOMAIN report' = DOMAIN report
        BY <2>1
    <2>4. UNCHANGED <<stage, input, vision, row>> /\ stage = "environment_analysis"
        BY <1>5 DEF AskModel
    <2> QED
        BY <1>1, <2>2, <2>3, <2>4
<1>6. CASE ModelAnswers
    <2>1. /\ UNCHANGED <<input, vision, row>> /\ report.prompt # None
          /\ stage = "environment_analysis"
        BY <1>6 DEF ModelAnswers
    <2>2. PICK answer, output :
            \/ /\ report' = [report EXCEPT !.answer = answer, !.output = output]
               /\ stage' = "saving"
            \/ /\ report' = [report EXCEPT !.prompt.retry = output.rejection]
               /\ stage' = stage
        BY <1>6 DEF ModelAnswers
    <2>3. CASE report' = [report EXCEPT !.answer = answer, !.output = output] /\ stage' = "saving"
        BY <1>1, <2>1, <2>3
    <2>4. CASE report' = [report EXCEPT !.prompt.retry = output.rejection] /\ stage' = stage
        <3>1. /\ report'.prompt = [report.prompt EXCEPT !.retry = output.rejection]
              /\ report'.score = report.score /\ DOMAIN report' = DOMAIN report
            BY <2>4
        <3>2. DOMAIN report'.prompt = DOMAIN report.prompt /\ report'.prompt.score = report.prompt.score
            BY <2>1, <3>1
        <3> QED
            BY <1>1, <2>1, <2>4, <3>1, <3>2
    <2> QED
        BY <2>2, <2>3, <2>4
<1>7. CASE GiveUp
    BY <1>7 DEF GiveUp
<1>8. CASE SaveResult
    <2>1. ResultRow.score = Score
        BY DEF ResultRow
    <2> QED
        BY <1>1, <1>8, <2>1 DEF SaveResult
<1>9. CASE ShowResult \/ OpenHistory \/ NextPage \/ UNCHANGED vars
    BY <1>1, <1>9 DEF ShowResult, OpenHistory, NextPage, vars
<1> QED
    BY <1>2, <1>3, <1>4, <1>5, <1>6, <1>7, <1>8, <1>9 DEF Next

(* mark_completed stores the score the text of the analysis was written    *)
(* for (analysis_service.py, prompts.py).                                  *)
THEOREM StoredScoreIsTold == Spec => []ScoreIsTold
<1>1. ScoreInv => ScoreIsTold
    BY DEF ScoreInv, ScoreIsTold
<1> QED
    BY <1>1, ScoreInitInv, ScoreNextInv, PTL DEF Spec
-----------------------------------------------------------------------------
(* A history is the rows of a query, numbered by the rows that come       *)
(* before each.                                                            *)

Mine(table, query) ==
    {id \in DOMAIN table :
        /\ table[id].device = query.device
        /\ query.status \in {None, table[id].status}}

NewerOf(table) ==
    {p \in (DOMAIN table) \X (DOMAIN table) :
        \/ table[p[1]].created > table[p[2]].created
        \/ table[p[1]].created = table[p[2]].created /\ p[1] > p[2]}

LEMMA PrecedesPair ==
    ASSUME NEW p \in Int, NEW q \in Int, NEW r \in Int, NEW s \in Int
    PROVE  Precedes(<<p, q>>, <<r, s>>) <=> p < r \/ (p = r /\ q < s)
<1> DEFINE a == <<p, q>>
           b == <<r, s>>
<1>1. DOMAIN a = {1, 2} /\ a[1] = p /\ a[2] = q /\ b[1] = r /\ b[2] = s
    OBVIOUS
<1>2. 1..(1 - 1) = {} /\ 1..(2 - 1) = {1}
    OBVIOUS
<1> HIDE DEF a, b
<1>3. Precedes(a, b) <=> a[1] < b[1] \/ (a[1] = b[1] /\ a[2] < b[2])
    BY <1>1, <1>2 DEF Precedes
<1> QED
    BY <1>1, <1>3 DEF a, b

LEMMA NewerOrders ==
    ASSUME NEW table, IsTable(table), NEW S \in SUBSET DOMAIN table
    PROVE  Orders(S, NewerOf(table)) /\ IsFiniteSet(S)
<1>1. IsFiniteSet(S)
    BY FS_Subset DEF IsTable
<1>2. \A x \in S : x \in Int /\ table[x].created \in Int
    BY DEF IsTable
<1>3. \A x, y \in S : <<x, y>> \in NewerOf(table) <=>
            \/ table[x].created > table[y].created
            \/ table[x].created = table[y].created /\ x > y
    BY DEF NewerOf
<1> QED
    BY <1>1, <1>2, <1>3 DEF Orders

\* A history lists what matches the query once, newest first.
ListsNewestFirst(h, S, table) ==
    /\ h \in Seq(S)
    /\ Len(h) = Cardinality(S)
    /\ \A x \in S : \E k \in DOMAIN h : h[k] = x
    /\ \A j, k \in DOMAIN h : h[j] = h[k] => j = k
    /\ \A j, k \in DOMAIN h : j < k => table[h[j]].created >= table[h[k]].created

LEMMA HistoryLists ==
    ASSUME NEW table, IsTable(table), NEW query
    PROVE  /\ Cardinality(Mine(table, query)) \in Nat
           /\ ListsNewestFirst(History(table, query), Mine(table, query), table)
<1> DEFINE S == Mine(table, query)
           E == NewerOf(table)
           h == History(table, query)
<1>1. S \subseteq DOMAIN table
    BY DEF Mine
<1>2. Orders(S, E) /\ IsFiniteSet(S)
    BY <1>1, NewerOrders
<1>3. /\ Cardinality(S) \in Nat
      /\ \A k \in 1..Cardinality(S) : \E x \in S : Cardinality(Before(S, E, x)) = k - 1
      /\ \A x \in S : Cardinality(Before(S, E, x)) \in 0..(Cardinality(S) - 1)
      /\ \A x, y \in S :
            Cardinality(Before(S, E, x)) = Cardinality(Before(S, E, y)) => x = y
      /\ \A x, y \in S :
            Cardinality(Before(S, E, x)) < Cardinality(Before(S, E, y)) => <<x, y>> \in E
    <2> HIDE DEF S, E
    <2> QED
        BY <1>2, CountingNumbers
<1>4. ASSUME NEW x \in S
      PROVE  Before(S, E, x) =
                {y \in S : Precedes(<<-table[y].created, -y>>, <<-table[x].created, -x>>)}
    <2>1. ASSUME NEW y \in S
          PROVE  <<y, x>> \in E <=>
                    Precedes(<<-table[y].created, -y>>, <<-table[x].created, -x>>)
        <3>1. /\ x \in Int /\ y \in Int /\ table[x].created \in Int /\ table[y].created \in Int
              /\ x \in DOMAIN table /\ y \in DOMAIN table
            BY <1>1 DEF IsTable
        <3>2. Precedes(<<-table[y].created, -y>>, <<-table[x].created, -x>>) <=>
                \/ -table[y].created < -table[x].created
                \/ -table[y].created = -table[x].created /\ -y < -x
            BY <3>1, PrecedesPair
        <3> QED
            BY <3>1, <3>2 DEF NewerOf
    <2> HIDE DEF S, E
    <2> QED
        BY <2>1 DEF Before
<1>5. h = [k \in 1..Cardinality(S) |->
            CHOOSE x \in S : Cardinality({y \in S :
                Precedes(<<-table[y].created, -y>>, <<-table[x].created, -x>>)}) = k - 1]
    BY DEF History, Arranged, Mine
<1> HIDE DEF h, S, E
<1>6. ASSUME NEW k \in 1..Cardinality(S)
      PROVE  h[k] \in S /\ Cardinality(Before(S, E, h[k])) = k - 1
    <2>1. \E x \in S : Cardinality({y \in S :
                Precedes(<<-table[y].created, -y>>, <<-table[x].created, -x>>)}) = k - 1
        BY <1>3, <1>4
    <2>2. h[k] \in S /\ Cardinality({y \in S :
                Precedes(<<-table[y].created, -y>>, <<-table[h[k]].created, -h[k]>>)}) = k - 1
        BY <1>5, <2>1
    <2> QED
        BY <1>4, <2>2
<1>7. h \in Seq(S) /\ Len(h) = Cardinality(S) /\ DOMAIN h = 1..Cardinality(S)
    <2>1. h \in [1..Cardinality(S) -> S]
        BY <1>5, <1>6
    <2>2. h \in Seq(S)
        BY <1>3, <2>1, SeqDef
    <2> QED
        BY <1>3, <2>1, <2>2, LenProperties
<1>8. ASSUME NEW x \in S PROVE \E k \in DOMAIN h : h[k] = x
    <2>1. PICK k \in 1..Cardinality(S) : k - 1 = Cardinality(Before(S, E, x))
        BY <1>3
    <2>2. Cardinality(Before(S, E, h[k])) = Cardinality(Before(S, E, x))
        BY <1>6, <2>1
    <2> QED
        BY <1>3, <1>6, <1>7, <2>2
<1>9. ASSUME NEW j \in DOMAIN h, NEW k \in DOMAIN h, h[j] = h[k] PROVE j = k
    BY <1>3, <1>6, <1>7, <1>9
<1>10. ASSUME NEW j \in DOMAIN h, NEW k \in DOMAIN h, j < k
       PROVE  table[h[j]].created >= table[h[k]].created
    <2>1. <<h[j], h[k]>> \in E
        BY <1>3, <1>6, <1>7, <1>10
    <2> QED
        BY <1>1, <1>6, <1>7, <2>1 DEF E, NewerOf, IsTable
<1> QED
    BY <1>3, <1>7, <1>8, <1>9, <1>10 DEF ListsNewestFirst, S, h

-----------------------------------------------------------------------------
(* The pages that have been read.                                          *)

LEMMA HistoryOfPages ==
    ASSUME NEW table, NEW query, NEW p
    PROVE  /\ History(table, AtPage(query, p)) = History(table, query)
           /\ Mine(table, AtPage(query, p)) = Mine(table, query)
<1>1. AtPage(query, p).device = query.device /\ AtPage(query, p).status = query.status
    BY DEF AtPage
<1> QED
    BY <1>1 DEF History, Mine

\* The identifiers on a page.
Entries(page) == [j \in DOMAIN page.analyses |-> page.analyses[j].id]

LEMMA OnePageMore ==
    ASSUME NEW k \in Nat \ {0}, NEW size \in Nat
    PROVE  /\ (k - 1) * size \in Nat /\ k * size \in Nat
           /\ k * size = (k - 1) * size + size
BY Z3

LEMMA PageEntries ==
    ASSUME NEW table, IsTable(table), NEW query, IsQuery(query),
           NEW p \in Nat \ {0}, query.size \in Nat \ {0}
    PROVE  LET h == History(table, query)
               page == AnalysisList(table, AtPage(query, p))
               end == Least(Len(h), p * query.size)
           IN  /\ Entries(page) = SubSeq(h, (p - 1) * query.size + 1, end)
               /\ DOMAIN page.analyses = DOMAIN Entries(page)
               /\ page.pagination.totalCount = Len(h)
               /\ page.pagination.hasNext <=> p * query.size < Len(h)
<1> DEFINE S == Mine(table, query)
           h == History(table, query)
           q == AtPage(query, p)
           page == AnalysisList(table, q)
           list == ListPage(table, q)
<1>1. h \in Seq(S) /\ Len(h) \in Nat
    BY HistoryLists, LenProperties DEF ListsNewestFirst
<1>2. q.page = p /\ q.size = query.size
    BY DEF AtPage
<1>3. History(table, q) = h
    BY HistoryOfPages
<1>4. PICK skip \in Nat, end \in Nat :
        /\ skip = (p - 1) * query.size
        /\ end = p * query.size
        /\ end = skip + query.size
    BY OnePageMore
<1>5. list = SubSeq(h, skip + 1, Least(Len(h), end))
    <2>1. list = SubSeq(h, skip + 1, IF Len(h) < end THEN Len(h) ELSE end)
        BY <1>2, <1>3, <1>4 DEF ListPage
    <2>2. (IF Len(h) < end THEN Len(h) ELSE end) = Least(Len(h), end)
        BY <1>1 DEF Least
    <2> QED
        BY <2>1, <2>2
<1>6. list \in Seq(S)
    <2>1. \A i \in (skip + 1)..Least(Len(h), end) : h[i] \in S
        BY <1>1 DEF Least
    <2>2. Least(Len(h), end) \in Int
        BY <1>1 DEF Least
    <2> HIDE DEF h, S, list
    <2> QED
        BY <1>5, <2>1, <2>2, SubSeqProperties
<1>7. /\ page.analyses = [k \in DOMAIN list |-> Summary(table, list[k])]
      /\ page.pagination = Pagination(p, query.size, Len(h))
    BY <1>2, <1>3 DEF AnalysisList
<1>8. DOMAIN page.analyses = DOMAIN list /\ \A k \in DOMAIN list : page.analyses[k].id = list[k]
    BY <1>7 DEF Summary
<1>9. Entries(page) = list
    <2>1. list = [k \in DOMAIN list |-> list[k]]
        BY <1>6
    <2> HIDE DEF list, page
    <2> QED
        BY <1>8, <2>1 DEF Entries
<1>10. page.pagination.totalCount = Len(h)
    BY <1>7 DEF Pagination
<1>11. page.pagination.hasNext <=> p * query.size < Len(h)
    <2> HIDE DEF h, page
    <2> QED
        BY <1>1, <1>7, NextPageIffLeft
<1> QED
    BY <1>4, <1>5, <1>8, <1>9, <1>10, <1>11

(* The first pages of a history, one after the other, are its beginning. *)
LEMMA PagesAreBeginning ==
    ASSUME NEW table, IsTable(table), NEW query, IsQuery(query), query.size \in Nat \ {0},
           NEW n \in Nat \ {0}, NEW pages, Len(pages) = n, DOMAIN pages = 1..n,
           \A k \in 1..n : pages[k] = AnalysisList(table, AtPage(query, k)),
           \A k \in 1..(n - 1) : pages[k].pagination.hasNext
    PROVE  LET h == History(table, query)
           IN  /\ FlattenSeq([k \in DOMAIN pages |-> Entries(pages[k])]) =
                    SubSeq(h, 1, Least(Len(h), n * query.size))
               /\ (n - 1) * query.size < Len(h) \/ n = 1
<1> DEFINE S == Mine(table, query)
           h == History(table, query)
           size == query.size
           ids == [k \in DOMAIN pages |-> Entries(pages[k])]
           g == [k \in 1..n |-> SubSeq(h, 1, Least(Len(h), k * size))]
<1>1. h \in Seq(S) /\ Len(h) \in Nat
    BY HistoryLists, LenProperties DEF ListsNewestFirst
<1>2. ASSUME NEW k \in 1..n
      PROVE  /\ ids[k] = SubSeq(h, (k - 1) * size + 1, Least(Len(h), k * size))
             /\ pages[k].pagination.hasNext <=> k * size < Len(h)
    <2>1. k \in Nat \ {0} /\ pages[k] = AnalysisList(table, AtPage(query, k))
        OBVIOUS
    <2>2. ids[k] = Entries(pages[k])
        OBVIOUS
    <2>3. /\ Entries(AnalysisList(table, AtPage(query, k))) =
                SubSeq(History(table, query), (k - 1) * query.size + 1,
                       Least(Len(History(table, query)), k * query.size))
          /\ AnalysisList(table, AtPage(query, k)).pagination.hasNext
                <=> k * query.size < Len(History(table, query))
        <3>1. k \in Nat \ {0}
            OBVIOUS
        <3> QED
            BY <3>1, PageEntries, Zenon
    <2> HIDE DEF ids
    <2> QED
        BY <2>1, <2>2, <2>3, Zenon
<1> HIDE DEF h, S
<1>3. Len(ids) = n
    OBVIOUS
<1> HIDE DEF ids
<1>4. ASSUME NEW k \in 1..n, NEW i \in 1..Least(Len(h), k * size)
      PROVE  h[i] \in S
    <2>1. k * size \in Nat
        BY Z3
    <2>2. i \in 1..Len(h)
        BY <1>1, <2>1 DEF Least
    <2> QED
        BY <1>1, <2>2, ElementOfSeq
<1>5. g \in [1..n -> Seq(S)]
    <2>1. ASSUME NEW k \in 1..n PROVE SubSeq(h, 1, Least(Len(h), k * size)) \in Seq(S)
        <3>1. k * size \in Nat
            BY Z3
        <3>2. Least(Len(h), k * size) \in Int
            BY <1>1, <3>1 DEF Least
        <3> QED
            BY <1>4, <3>2, SubSeqProperties
    <2> QED
        BY <2>1
<1>6. g[1] = ids[1]
    <2>1. ids[1] = SubSeq(h, (1 - 1) * size + 1, Least(Len(h), 1 * size))
        BY <1>2
    <2>2. (1 - 1) * size + 1 = 1 /\ 1 \in 1..n
        OBVIOUS
    <2> QED
        BY <2>1, <2>2
<1>7. ASSUME NEW k \in 2..n
      PROVE  g[k] = g[k - 1] \o ids[k]
    <2>1. PICK skip \in Nat, end \in Nat :
            skip = (k - 1) * size /\ end = k * size /\ end = skip + size
        <3>1. k \in Nat \ {0}
            OBVIOUS
        <3>2. size \in Nat
            OBVIOUS
        <3> HIDE DEF size
        <3> QED
            BY <3>1, <3>2, OnePageMore
    <2>2. k - 1 \in 1..n /\ k - 1 \in 1..(n - 1) /\ k \in 1..n
        OBVIOUS
    <2>3. skip < Len(h)
        BY <1>2, <2>1, <2>2
    <2>4. g[k - 1] = SubSeq(h, 1, skip)
        BY <1>1, <2>1, <2>2, <2>3 DEF Least
    <2>5. PICK last \in Nat : last = Least(Len(h), end)
        BY <1>1, <2>1 DEF Least
    <2>6. last \in skip..Len(h) /\ skip \in (1 - 1)..Len(h) /\ 1 \in 1..(Len(h) + 1)
        BY <1>1, <2>1, <2>3, <2>5 DEF Least
    <2>7. ids[k] = SubSeq(h, skip + 1, last)
        BY <1>2, <2>1, <2>2, <2>5
    <2>8. g[k] = SubSeq(h, 1, last)
        BY <2>1, <2>2, <2>5
    <2>9. SubSeq(h, 1, skip) \o SubSeq(h, skip + 1, last) = SubSeq(h, 1, last)
        BY <1>1, <2>6, ConcatAdjacentSubSeq
    <2> QED
        BY <2>4, <2>7, <2>8, <2>9
<1>8. FlattenSeq(ids) = g[n]
    <2> HIDE DEF g
    <2>1. Flattens(g, ids, n)
        BY <1>6, <1>7 DEF Flattens
    <2>2. n \in Nat /\ n # 0
        OBVIOUS
    <2> QED
        BY <1>3, <1>5, <2>1, <2>2, Flattened
<1>9. (n - 1) * size < Len(h) \/ n = 1
    <2>1. n # 1 => n - 1 \in 1..n /\ n - 1 \in 1..(n - 1)
        OBVIOUS
    <2> QED
        BY <1>2, <2>1
<1>10. FlattenSeq(ids) = SubSeq(h, 1, Least(Len(h), n * size))
    <2>1. n \in 1..n
        OBVIOUS
    <2>2. g[n] = SubSeq(h, 1, Least(Len(h), n * size))
        BY <2>1, Zenon
    <2> QED
        BY <1>8, <2>2, Zenon
<1> QED
    BY <1>9, <1>10 DEF ids, h

(* What a client has read when it started on the first page: every analysis at most once,    *)
(* newest first, all of them when no page is left, and no page beyond the last.              *)
LEMMA PagesReadOnce ==
    ASSUME NEW table, IsTable(table), NEW query, IsQuery(query), query.size \in Nat \ {0},
           NEW n \in Nat \ {0}, NEW pages, Len(pages) = n, DOMAIN pages = 1..n,
           \A k \in 1..n : pages[k] = AnalysisList(table, AtPage(query, k)),
           \A k \in 1..(n - 1) : pages[k].pagination.hasNext
    PROVE  LET read == FlattenSeq([k \in DOMAIN pages |-> Entries(pages[k])])
               wanted == Mine(table, query)
           IN  /\ IsInjective(read) /\ ToSet(read) \subseteq wanted
               /\ ~Last(pages).pagination.hasNext => ToSet(read) = wanted
               /\ \A j, k \in DOMAIN read :
                    j < k => table[read[j]].created >= table[read[k]].created
               /\ Len(pages) > 1 => Last(pages).analyses # <<>>
               /\ \A k \in DOMAIN pages : pages[k].pagination.totalCount = Cardinality(wanted)
<1>0. LET f == History(table, query)
      IN  /\ FlattenSeq([k \in DOMAIN pages |-> Entries(pages[k])]) =
                SubSeq(f, 1, Least(Len(f), n * query.size))
          /\ (n - 1) * query.size < Len(f) \/ n = 1
    BY PagesAreBeginning, ZenonT(60)
<1> DEFINE S == Mine(table, query)
           h == History(table, query)
           read == FlattenSeq([k \in DOMAIN pages |-> Entries(pages[k])])
<1>1. ListsNewestFirst(h, S, table) /\ Cardinality(S) \in Nat
    BY HistoryLists
<1>2. h \in Seq(S) /\ Len(h) = Cardinality(S) /\ DOMAIN h = 1..Len(h)
    BY <1>1, LenProperties DEF ListsNewestFirst
<1>3. PICK skip \in Nat, last \in Nat :
        skip = (n - 1) * query.size /\ last = n * query.size /\ last = skip + query.size
    <2>1. query.size \in Nat
        OBVIOUS
    <2>2. /\ (n - 1) * query.size \in Nat /\ n * query.size \in Nat
          /\ n * query.size = (n - 1) * query.size + query.size
        BY <2>1, OnePageMore, Zenon
    <2> QED
        BY <2>2, Zenon
<1>4. PICK end \in Nat : end = Least(Len(h), last)
    BY <1>1, <1>2, <1>3 DEF Least
<1>5. read = SubSeq(h, 1, end) /\ (skip < Len(h) \/ n = 1)
    <2>1. /\ read = SubSeq(h, 1, Least(Len(h), n * query.size))
          /\ (n - 1) * query.size < Len(h) \/ n = 1
        BY <1>0, Zenon
    <2> HIDE DEF read, h
    <2>2. read = SubSeq(h, 1, Least(Len(h), last))
        BY <1>3, <2>1
    <2>3. skip < Len(h) \/ n = 1
        BY <1>3, <2>1
    <2> QED
        BY <1>4, <2>2, <2>3
<1>6. end <= Len(h) /\ (last >= Len(h) => end = Len(h))
    BY <1>1, <1>2, <1>3, <1>4 DEF Least
<1> HIDE DEF h, S, read
<1>7. DOMAIN read = 1..end /\ \A k \in 1..end : read[k] = h[k] /\ k \in DOMAIN h
    BY <1>1, <1>2, <1>5, <1>6
<1>8. IsInjective(read)
    BY <1>1, <1>7 DEF IsInjective, ListsNewestFirst
<1>9. ToSet(read) \subseteq S
    <2>1. \A k \in DOMAIN h : h[k] \in S
        BY <1>2, ElementOfSeq
    <2> QED
        BY <1>7, <2>1 DEF ToSet
<1>10. \A j, k \in DOMAIN read : j < k => table[read[j]].created >= table[read[k]].created
    BY <1>1, <1>7 DEF ListsNewestFirst
<1>11. ASSUME NEW k \in 1..n
       PROVE  /\ Entries(pages[k]) =
                    SubSeq(h, (k - 1) * query.size + 1, Least(Len(h), k * query.size))
              /\ DOMAIN pages[k].analyses = DOMAIN Entries(pages[k])
              /\ pages[k].pagination.totalCount = Len(h)
              /\ pages[k].pagination.hasNext <=> k * query.size < Len(h)
    <2>1. k \in Nat \ {0} /\ pages[k] = AnalysisList(table, AtPage(query, k))
        OBVIOUS
    <2>2. LET f == History(table, query)
              page == AnalysisList(table, AtPage(query, k))
          IN  /\ Entries(page) =
                    SubSeq(f, (k - 1) * query.size + 1, Least(Len(f), k * query.size))
              /\ DOMAIN page.analyses = DOMAIN Entries(page)
              /\ page.pagination.totalCount = Len(f)
              /\ page.pagination.hasNext <=> k * query.size < Len(f)
        BY <2>1, PageEntries, Zenon
    <2> QED
        BY <2>1, <2>2, Zenon DEF h
<1>12. Last(pages) = pages[n] /\ n \in 1..n
    BY DEF Last
<1>13. ~Last(pages).pagination.hasNext => ToSet(read) = S
    <2>1. SUFFICES ASSUME ~Last(pages).pagination.hasNext PROVE S \subseteq ToSet(read)
        BY <1>9
    <2>2. end = Len(h)
        BY <1>1, <1>2, <1>3, <1>6, <1>11, <1>12, <2>1
    <2>3. \A x \in S : \E k \in DOMAIN h : h[k] = x
        BY <1>1 DEF ListsNewestFirst
    <2> QED
        BY <1>2, <1>7, <2>2, <2>3 DEF ToSet
<1>14. ASSUME n > 1 PROVE Last(pages).analyses # <<>>
    <2>1. Entries(pages[n]) = SubSeq(h, skip + 1, end)
        BY <1>3, <1>4, <1>11, <1>12
    <2>2. skip < end
        BY <1>1, <1>2, <1>3, <1>4, <1>5, <1>14 DEF Least
    <2>3. 1 \in DOMAIN Entries(pages[n])
        BY <1>2, <2>1, <2>2
    <2> QED
        BY <1>11, <1>12, <2>3
<1> QED
    BY <1>2, <1>8, <1>9, <1>10, <1>11, <1>13, <1>14 DEF read, S

(* What a client has been shown: the pages up to the one it asked for last, and all but that *)
(* one promise a next page.                                                                  *)
ReadSoFar(l) ==
    /\ DOMAIN l = {"table", "query", "error", "pages"}
    /\ IsTable(l.table) /\ IsQuery(l.query)
    /\ l.error = None =>
        /\ l.query.size \in Nat \ {0}
        /\ \E n \in Nat \ {0} :
            /\ Len(l.pages) = n /\ l.pages = [k \in 1..n |-> l.pages[k]]
            /\ n <= l.query.page
            /\ \A k \in 1..n :
                l.pages[k] = AnalysisList(l.table, AtPage(l.query, l.query.page - n + k))
            /\ \A k \in 1..(n - 1) : l.pages[k].pagination.hasNext

ListingInv ==
    /\ world \in DOMAIN Worlds
    /\ listing # None => ReadSoFar(listing)

LEMMA LegalQuery ==
    ASSUME NEW query, IsQuery(query), QueryError(query) = None
    PROVE  query.page \in Nat \ {0} /\ query.size \in Nat \ {0}
<1>1. /\ None # "PAGE_INVALID" /\ None # "SIZE_INVALID"
      /\ PageSizeMax \in Nat \ {0}
    BY HistoryAssumption, PageAssumption
<1>2. query.page \in Int /\ query.size \in Int
    BY DEF IsQuery
<1>3. query.page >= 1
    BY <1>1, <1>2 DEF QueryError
<1>4. query.size \in 1..PageSizeMax
    BY <1>1, <1>2, <1>3 DEF QueryError
<1> QED
    BY <1>1, <1>2, <1>3, <1>4

LEMMA OpeningReads ==
    ASSUME ListingInv, OpenHistory
    PROVE  ReadSoFar(listing')
<1>1. PICK table, query, pages :
        /\ table \in Here.tables /\ query \in Here.queries
        /\ listing' = [table |-> table, query |-> query, error |-> QueryError(query),
                       pages |-> pages]
        /\ QueryError(query) = None => pages = <<AnalysisList(table, query)>>
    BY DEF OpenHistory
<1>2. IsTable(table) /\ IsQuery(query)
    BY <1>1, HistoryAssumption DEF ListingInv, Here
<1>3. ASSUME QueryError(query) = None
      PROVE  /\ query.size \in Nat \ {0} /\ query.page \in Nat \ {0}
             /\ Len(pages) = 1 /\ pages = [k \in 1..1 |-> pages[k]]
             /\ pages[1] = AnalysisList(table, AtPage(query, query.page - 1 + 1))
    <2>1. query.size \in Nat \ {0} /\ query.page \in Nat \ {0}
        BY <1>2, <1>3, LegalQuery
    <2>2. query.page - 1 + 1 = query.page /\ query = AtPage(query, query.page)
        BY <1>2, <2>1 DEF IsQuery
    <2>3. AnalysisList(table, query) = AnalysisList(table, AtPage(query, query.page - 1 + 1))
        BY <2>2, Zenon
    <2> QED
        BY <1>1, <1>3, <2>1, <2>3
<1>4. PICK l : l = listing'
    OBVIOUS
<1>5. /\ DOMAIN l = {"table", "query", "error", "pages"} /\ l.table = table
      /\ l.query = query /\ l.error = QueryError(query) /\ l.pages = pages
    BY <1>1, <1>4
<1>6. ASSUME l.error = None
      PROVE  /\ l.query.size \in Nat \ {0}
             /\ \E n \in Nat \ {0} :
                /\ Len(l.pages) = n /\ l.pages = [k \in 1..n |-> l.pages[k]]
                /\ n <= l.query.page
                /\ \A k \in 1..n :
                    l.pages[k] = AnalysisList(l.table, AtPage(l.query, l.query.page - n + k))
                /\ \A k \in 1..(n - 1) : l.pages[k].pagination.hasNext
    <2>1. PICK n \in Nat \ {0} : n = 1
        OBVIOUS
    <2>2. /\ query.size \in Nat \ {0} /\ query.page \in Nat \ {0}
          /\ Len(pages) = n /\ pages = [k \in 1..n |-> pages[k]]
          /\ pages[1] = AnalysisList(table, AtPage(query, query.page - n + 1))
        BY <1>3, <1>5, <1>6, <2>1
    <2>3. \A k \in 1..n : k = 1
        BY <2>1
    <2>4. \A k \in 1..n : pages[k] = AnalysisList(table, AtPage(query, query.page - n + k))
        BY <2>2, <2>3, Zenon
    <2>5. n <= query.page /\ \A k \in 1..(n - 1) : pages[k].pagination.hasNext
        BY <2>1, <2>2
    <2> QED
        BY <1>5, <2>2, <2>4, <2>5, Zenon
<1>7. ReadSoFar(l)
    BY <1>2, <1>5, <1>6, Zenon DEF ReadSoFar
<1> QED
    BY <1>4, <1>7

LEMMA NextReads ==
    ASSUME ListingInv, NextPage
    PROVE  ReadSoFar(listing')
<1>1. PICK old, new : old = listing /\ new = listing'
    OBVIOUS
<1>2. ReadSoFar(old) /\ old.pages # <<>> /\ Last(old.pages).pagination.hasNext
    BY <1>1 DEF ListingInv, NextPage, HasNext
<1>3. PICK query, pages :
        /\ query = [old.query EXCEPT !.page = @ + 1]
        /\ pages = Append(old.pages, AnalysisList(old.table, query))
        /\ new = [old EXCEPT !.query = query, !.pages = pages]
    BY <1>1 DEF NextPage
<1>4. /\ DOMAIN new = {"table", "query", "error", "pages"} /\ new.table = old.table
      /\ new.query = query /\ new.error = old.error /\ new.pages = pages
    BY <1>2, <1>3 DEF ReadSoFar
<1>5. IsTable(old.table) /\ IsQuery(old.query) /\ old.query.page \in Int
    BY <1>2 DEF ReadSoFar, IsQuery
<1>6. query = AtPage(old.query, old.query.page + 1)
    BY <1>3, <1>5 DEF IsQuery, AtPage
<1>7. /\ \A p : AtPage(query, p) = AtPage(old.query, p)
      /\ query.page = old.query.page + 1 /\ query.size = old.query.size
    BY <1>6 DEF AtPage
<1>8. IsQuery(query)
    BY <1>5, <1>6, <1>7 DEF IsQuery
<1>9. ASSUME old.error = None
      PROVE  /\ query.size \in Nat \ {0}
             /\ \E n \in Nat \ {0} :
                /\ Len(pages) = n /\ pages = [k \in 1..n |-> pages[k]] /\ n <= query.page
                /\ \A k \in 1..n :
                    pages[k] = AnalysisList(old.table, AtPage(query, query.page - n + k))
                /\ \A k \in 1..(n - 1) : pages[k].pagination.hasNext
    <2>1. PICK n \in Nat \ {0} :
            /\ Len(old.pages) = n /\ old.pages = [k \in 1..n |-> old.pages[k]]
            /\ n <= old.query.page
            /\ \A k \in 1..n :
                old.pages[k] = AnalysisList(old.table, AtPage(old.query, old.query.page - n + k))
            /\ \A k \in 1..(n - 1) : old.pages[k].pagination.hasNext
        BY <1>2, <1>9 DEF ReadSoFar
    <2> DEFINE e == AnalysisList(old.table, query)
               X == {AnalysisList(old.table, AtPage(old.query, p)) : p \in Int}
    <2>2. ASSUME NEW k \in 1..n PROVE old.pages[k] \in X
        <3>1. old.query.page - n + k \in Int
            BY <1>5
        <3> QED
            BY <2>1, <3>1
    <2>3. old.pages \in [1..n -> X]
        <3> HIDE DEF X
        <3> QED
            BY <2>1, <2>2
    <2>4. old.pages[n].pagination.hasNext
        BY <1>2, <2>1 DEF Last
    <2> HIDE DEF X
    <2>5. /\ Len(pages) = n + 1 /\ pages = [k \in 1..(n + 1) |-> pages[k]]
          /\ pages[n + 1] = e
          /\ \A k \in 1..n : pages[k] = old.pages[k]
        BY <1>3, <2>3, AppendedOne
    <2> HIDE DEF e
    <2>6. ASSUME NEW k \in 1..(n + 1)
          PROVE  pages[k] = AnalysisList(old.table, AtPage(query, query.page - (n + 1) + k))
        <3>1. CASE k = n + 1
            <4>1. query.page - (n + 1) + k = query.page
                BY <1>5, <1>7, <3>1
            <4>2. AtPage(query, query.page) = query
                BY <1>8 DEF IsQuery
            <4> QED
                BY <2>5, <3>1, <4>1, <4>2, Zenon DEF e
        <3>2. CASE k \in 1..n
            <4>1. query.page - (n + 1) + k = old.query.page - n + k
                BY <1>5, <1>7, <3>2
            <4>2. /\ pages[k] = old.pages[k]
                  /\ old.pages[k] =
                        AnalysisList(old.table, AtPage(old.query, old.query.page - n + k))
                BY <2>1, <2>5, <3>2
            <4>3. AtPage(query, query.page - (n + 1) + k) =
                        AtPage(old.query, old.query.page - n + k)
                BY <1>7, <4>1, Zenon
            <4> QED
                BY <4>2, <4>3, Zenon
        <3> QED
            BY <3>1, <3>2
    <2>7. ASSUME NEW k \in 1..n PROVE pages[k].pagination.hasNext
        <3>1. CASE k = n
            BY <2>4, <2>5, <3>1
        <3>2. CASE k \in 1..(n - 1)
            BY <2>1, <2>5, <3>2
        <3> QED
            BY <3>1, <3>2
    <2>8. n + 1 \in Nat \ {0} /\ n + 1 <= query.page /\ (n + 1) - 1 = n
        BY <1>5, <1>7, <2>1
    <2>9. query.size \in Nat \ {0}
        BY <1>2, <1>7, <1>9 DEF ReadSoFar
    <2> QED
        BY <2>5, <2>6, <2>7, <2>8, <2>9, Zenon
<1>10. ReadSoFar(new)
    BY <1>4, <1>5, <1>8, <1>9 DEF ReadSoFar
<1> QED
    BY <1>1, <1>10

LEMMA ListingInitInv == Init => ListingInv
BY DEF Init, ListingInv

LEMMA ListingNextInv == ListingInv /\ [Next]_vars => ListingInv'
<1> SUFFICES ASSUME ListingInv, [Next]_vars PROVE ListingInv'
    OBVIOUS
<1>1. CASE OpenHistory
    <2>1. world' \in DOMAIN Worlds
        BY <1>1 DEF OpenHistory, ListingInv
    <2> QED
        BY <1>1, <2>1, OpeningReads DEF ListingInv
<1>2. CASE NextPage
    <2>1. world' \in DOMAIN Worlds
        BY <1>2 DEF NextPage, ListingInv
    <2> QED
        BY <1>2, <2>1, NextReads DEF ListingInv
<1>3. CASE UNCHANGED <<world, listing>>
    BY <1>3 DEF ListingInv
<1> QED
    BY <1>1, <1>2, <1>3 DEF Next, vars, Request, ExtractFrames, DetectObjects, TrackObjects,
        SelectFrame, MarkRisks, CalculateScore, AskModel, ModelAnswers, GiveUp, SaveResult,
        ShowResult

LEMMA ReadPagesPartition == ListingInv => PagesPartition
<1> SUFFICES ASSUME ListingInv, listing # None, listing.error = None,
                    listing.query.page = Len(listing.pages)
             PROVE  LET pages == listing.pages
                        read == FlattenSeq([k \in DOMAIN pages |-> Entries(pages[k])])
                        table == listing.table
                        wanted == Mine(table, listing.query)
                    IN  /\ IsInjective(read) /\ ToSet(read) \subseteq wanted
                        /\ ~HasNext => ToSet(read) = wanted
                        /\ \A j, k \in DOMAIN read :
                                j < k => table[read[j]].created >= table[read[k]].created
                        /\ Len(pages) > 1 => Last(pages).analyses # <<>>
                        /\ \A k \in DOMAIN pages :
                                pages[k].pagination.totalCount = Cardinality(wanted)
    BY Zenon DEF PagesPartition, Entries, Mine
<1>1. ReadSoFar(listing)
    BY DEF ListingInv
<1>2. PICK table, query, pages :
        table = listing.table /\ query = listing.query /\ pages = listing.pages
    OBVIOUS
<1>3. IsTable(table) /\ IsQuery(query) /\ query.size \in Nat \ {0}
    BY <1>1, <1>2 DEF ReadSoFar
<1>4. PICK n \in Nat \ {0} :
        /\ Len(pages) = n /\ pages = [k \in 1..n |-> pages[k]]
        /\ \A k \in 1..n : pages[k] = AnalysisList(table, AtPage(query, query.page - n + k))
        /\ \A k \in 1..(n - 1) : pages[k].pagination.hasNext
    BY <1>1, <1>2 DEF ReadSoFar
<1>5. \A k \in 1..n : pages[k] = AnalysisList(table, AtPage(query, k))
    <2>1. ASSUME NEW k \in 1..n PROVE query.page - n + k = k
        BY <1>2, <1>4
    <2> QED
        BY <1>4, <2>1, Zenon
<1>6. Last(pages).pagination.hasNext => HasNext
    <2>1. pages # <<>>
        BY <1>4
    <2> QED
        BY <1>2, <2>1 DEF HasNext
<1>7. LET read == FlattenSeq([k \in DOMAIN pages |-> Entries(pages[k])])
          wanted == Mine(table, query)
      IN  /\ IsInjective(read) /\ ToSet(read) \subseteq wanted
          /\ ~Last(pages).pagination.hasNext => ToSet(read) = wanted
          /\ \A j, k \in DOMAIN read :
                j < k => table[read[j]].created >= table[read[k]].created
          /\ Len(pages) > 1 => Last(pages).analyses # <<>>
          /\ \A k \in DOMAIN pages : pages[k].pagination.totalCount = Cardinality(wanted)
    <2>1. /\ Len(pages) = n /\ DOMAIN pages = 1..n
          /\ \A k \in 1..(n - 1) : pages[k].pagination.hasNext
        BY <1>4
    <2> QED
        BY <1>3, <1>5, <2>1, PagesReadOnce, Zenon
<1> QED
    BY <1>2, <1>6, <1>7, Zenon

(* GET /analyses: a client that follows hasNext from the first page reads every analysis that *)
(* matches its query once, newest first (analysis_service.py, repository.py, Pagination).     *)
THEOREM HistoryReadOnce == Spec => []PagesPartition
BY ListingInitInv, ListingNextInv, ReadPagesPartition, PTL DEF Spec

-----------------------------------------------------------------------------
(* The frames of a video.  Collect is a fold, which the community modules  *)
(* define by a recursive function over sets: there is one, and it takes    *)
(* the decoded frames one after the other.                                 *)
Passed(video, count, k) ==
    Cardinality({i \in 1..count : Reached(i, video.duration, count, video.times[k])})

Picking(video, count, s, k) ==
    IF Passed(video, count, k) > s.passed
    THEN [passed |-> Passed(video, count, k), picked |-> Append(s.picked, k)] ELSE s

NonePicked == [passed |-> 0, picked |-> <<>>]

LEMMA CollectFold ==
    ASSUME NEW video, NEW count
    PROVE  LET ids == [k \in DOMAIN video.times |-> k]
               f == CHOOSE f : f = [s \in SUBSET DOMAIN ids |->
                        IF s = {} THEN NonePicked
                        ELSE Picking(video, count, f[s \ {Max(s)}], ids[Max(s)])]
           IN  Collect(video, count) = f[DOMAIN ids].picked
BY Zenon DEF Collect, FoldLeft, MapThenFoldSet, Picking, Passed, NonePicked

(* A decoded frame has passed the moments up to some one. *)
LEMMA PassedMoments ==
    ASSUME NEW video, NEW count \in Nat, NEW k, video.duration \in Nat, video.times[k] \in Int
    PROVE  /\ Passed(video, count, k) \in 0..count
           /\ \A i \in 1..count :
                Reached(i, video.duration, count, video.times[k]) <=> i <= Passed(video, count, k)
<1>1. PICK duration, time : duration = video.duration /\ time = video.times[k]
    OBVIOUS
<1> DEFINE T == {i \in 1..count : Reached(i, duration, count, time)}
<1>2. ASSUME NEW i \in 1..count, NEW j \in 1..i, Reached(i, duration, count, time)
      PROVE  Reached(j, duration, count, time)
    <2>1. duration \in Nat /\ time \in Int
        BY <1>1
    <2>2. (2 * j - 1) * duration <= (2 * i - 1) * duration
        BY <2>1, Z3
    <2>3. (2 * j - 1) * duration \in Int /\ (2 * i - 1) * duration \in Int
          /\ 2 * count * time \in Int
        BY <2>1, Z3
    <2> QED
        BY <1>2, <2>2, <2>3 DEF Reached
<1>3. Cardinality(T) \in 0..count /\ T = 1..Cardinality(T)
    <2>1. T \in SUBSET (1..count)
        OBVIOUS
    <2>2. \A i \in T : \A j \in 1..i : j \in T
        BY <1>2
    <2> HIDE DEF T
    <2> QED
        BY <2>1, <2>2, InitialSegment
<1>4. Passed(video, count, k) = Cardinality(T)
    BY <1>1 DEF Passed
<1>5. \A i \in 1..count : Reached(i, duration, count, time) <=> i <= Cardinality(T)
    <2>1. \A i \in 1..count : Reached(i, duration, count, time) <=> i \in T
        OBVIOUS
    <2> HIDE DEF T
    <2> QED
        BY <1>3, <2>1
<1> QED
    BY <1>1, <1>3, <1>4, <1>5, Zenon

LEMMA CollectSteps ==
    ASSUME NEW video, NEW count \in Nat, NEW N \in Nat, DOMAIN video.times = 1..N,
           \A k \in 1..N : Passed(video, count, k) \in Nat
    PROVE  \E f : /\ f[1..0] = NonePicked
                  /\ \A k \in 1..N : f[1..k] = Picking(video, count, f[1..(k - 1)], k)
                  /\ Collect(video, count) = f[1..N].picked
<1> DEFINE D == 1..N
           ids == [k \in DOMAIN video.times |-> k]
           Rec(f, s) == IF s = {} THEN NonePicked
                        ELSE Picking(video, count, f[s \ {Max(s)}], ids[Max(s)])
           Solves(f) == f = [s \in SUBSET DOMAIN ids |-> Rec(f, s)]
           iter == CHOOSE f : Solves(f)
           X == [passed : Nat, picked : Seq(D)]
           pick == [s \in SUBSET D |-> Max(s)]
           next == [k \in D |-> [s \in X |-> Picking(video, count, s, k)]]
<1>1. Collect(video, count) = iter[DOMAIN ids].picked
    BY CollectFold, Zenon
<1>2. DOMAIN ids = D /\ \A k \in D : ids[k] = k
    OBVIOUS
<1>3. ASSUME NEW s \in SUBSET D, s # {} PROVE Max(s) \in s
    BY <1>3, MaxOfNumbers
<1>4. ASSUME NEW k \in D, NEW s \in X PROVE Picking(video, count, s, k) \in X
    <2>1. Append(s.picked, k) \in Seq(D)
        OBVIOUS
    <2> QED
        BY <2>1 DEF Picking
<1>5. NonePicked \in X
    BY DEF NonePicked
<1>6. PICK f : IsFold(f, D, X, NonePicked, pick, next)
    <2>1. IsFiniteSet(D)
        <3>1. 1 \in Int /\ N \in Int
            OBVIOUS
        <3> QED
            BY <3>1, FS_Interval
    <2>2. \A s \in SUBSET D : s # {} => pick[s] \in s
        BY <1>3
    <2>3. \A k \in D : \A s \in X : next[k][s] \in X
        BY <1>4
    <2> HIDE DEF X, D, pick, next
    <2>4. Foldable(D, X, NonePicked, pick, next)
        BY <1>5, <2>1, <2>2, <2>3 DEF Foldable
    <2> QED
        BY <2>4, SetFold, Zenon
<1>13. /\ f \in [SUBSET D -> X]
      /\ \A s \in SUBSET D :
            f[s] = IF s = {} THEN NonePicked ELSE next[pick[s]][f[s \ {pick[s]}]]
    BY <1>6, Zenon DEF IsFold
<1>7. ASSUME NEW s \in SUBSET D PROVE f[s] = Rec(f, s)
    <2>1. CASE s = {}
        BY <1>13, <2>1
    <2>2. CASE s # {}
        <3>1. Max(s) \in D /\ s \ {Max(s)} \in SUBSET D /\ pick[s] = Max(s)
            BY <1>3, <2>2
        <3>2. f[s \ {Max(s)}] \in X
            BY <1>13, <3>1
        <3>3. next[Max(s)][f[s \ {Max(s)}]] = Picking(video, count, f[s \ {Max(s)}], Max(s))
            BY <3>1, <3>2
        <3>4. f[s] = next[Max(s)][f[s \ {Max(s)}]]
            BY <1>13, <2>2, <3>1
        <3> QED
            BY <1>2, <2>2, <3>1, <3>3, <3>4, Zenon
    <2> QED
        BY <2>1, <2>2
<1>8. Solves(f)
    <2>1. f = [s \in SUBSET D |-> f[s]]
        BY <1>13
    <2>2. f = [s \in SUBSET D |-> Rec(f, s)]
        <3> HIDE DEF Rec, D, X
        <3> QED
            BY <1>7, <2>1
    <2> QED
        BY <1>2, <2>2, Zenon
<1>9. Solves(iter)
    BY <1>8
<1>10. \A s \in SUBSET D : iter[s] = Rec(iter, s)
    <2> HIDE DEF Rec, iter
    <2> QED
        BY <1>2, <1>9
<1> HIDE DEF iter, Solves
<1>11. iter[1..0] = NonePicked
    <2>1. 1..0 = {} /\ {} \in SUBSET D
        OBVIOUS
    <2> QED
        BY <1>10, <2>1
<1>12. ASSUME NEW k \in 1..N
       PROVE  iter[1..k] = Picking(video, count, iter[1..(k - 1)], k)
    <2>1. 1..k \in SUBSET D /\ 1..k # {} /\ k \in 1..k
        OBVIOUS
    <2>2. Max(1..k) = k
        <3>1. PICK m : m = Max(1..k)
            OBVIOUS
        <3>2. m \in 1..k /\ m >= k
            BY <2>1, <3>1, MaxOfNumbers
        <3> QED
            BY <3>1, <3>2
    <2>3. (1..k) \ {k} = 1..(k - 1)
        OBVIOUS
    <2> HIDE DEF ids
    <2> QED
        BY <1>2, <1>10, <2>1, <2>2, <2>3
<1> QED
    BY <1>1, <1>2, <1>11, <1>12

(* The frames that come after more moments than any frame before them. *)
FirstFor(r, n) == {k \in 1..n : r[k] > 0 /\ \A j \in 1..(k - 1) : r[j] < r[k]}

PicksSoFar(s, r, n) ==
    /\ s.passed \in Nat
    /\ \A k \in 1..n : r[k] <= s.passed
    /\ s.passed > 0 => \E k \in 1..n : r[k] = s.passed
    /\ s.picked \in Seq(Nat)
    /\ ToSet(s.picked) = FirstFor(r, n)
    /\ \A j, k \in DOMAIN s.picked : j < k => s.picked[j] < s.picked[k]

LEMMA PickingStep ==
    ASSUME NEW video, NEW count, NEW n \in Nat \ {0}, NEW r, NEW s,
           \A k \in 1..n : r[k] \in Nat, r[n] = Passed(video, count, n),
           PicksSoFar(s, r, n - 1)
    PROVE  PicksSoFar(Picking(video, count, s, n), r, n)
<1> USE DEF PicksSoFar
<1>1. /\ n \in 1..n /\ r[n] \in Nat /\ \A k \in 1..n : k = n \/ k \in 1..(n - 1)
      /\ \A k \in 1..(n - 1) : k \in 1..n /\ r[k] <= s.passed
    OBVIOUS
<1>2. CASE r[n] > s.passed
    <2>1. PICK t : t = Picking(video, count, s, n)
        OBVIOUS
    <2>2. t.passed = r[n] /\ t.picked = Append(s.picked, n)
        BY <1>2, <2>1 DEF Picking
    <2>3. FirstFor(r, n) = FirstFor(r, n - 1) \cup {n}
        <3>1. n \in FirstFor(r, n)
            BY <1>1, <1>2 DEF FirstFor
        <3> QED
            BY <1>1, <3>1 DEF FirstFor
    <2>4. \A k \in DOMAIN s.picked : s.picked[k] \in 1..(n - 1)
        BY DEF ToSet, FirstFor
    <2>5. /\ t.picked \in Seq(Nat) /\ ToSet(t.picked) = ToSet(s.picked) \cup {n}
          /\ \A j, k \in DOMAIN t.picked : j < k => t.picked[j] < t.picked[k]
        <3>1. \A k \in DOMAIN s.picked : s.picked[k] < n
            BY <2>4
        <3> QED
            BY <2>2, <3>1, AppendedAbove
    <2>6. PicksSoFar(t, r, n)
        <3>1. \A k \in 1..n : r[k] <= r[n]
            BY <1>1, <1>2
        <3>2. \E k \in 1..n : r[k] = r[n]
            BY <1>1
        <3> QED
            BY <1>1, <2>2, <2>3, <2>5, <3>1, <3>2
    <2> QED
        BY <2>1, <2>6
<1>3. CASE ~(r[n] > s.passed)
    <2>1. Picking(video, count, s, n) = s
        BY <1>3 DEF Picking
    <2>2. n \notin FirstFor(r, n)
        <3>1. CASE s.passed > 0
            <4>1. PICK k \in 1..(n - 1) : r[k] = s.passed
                BY <3>1
            <4> QED
                BY <1>1, <1>3, <4>1 DEF FirstFor
        <3>2. CASE ~(s.passed > 0)
            BY <1>1, <1>3, <3>2 DEF FirstFor
        <3> QED
            BY <3>1, <3>2
    <2>3. FirstFor(r, n) = FirstFor(r, n - 1)
        BY <1>1, <2>2 DEF FirstFor
    <2>4. \A k \in 1..n : r[k] <= s.passed
        BY <1>1, <1>3
    <2>5. s.passed > 0 => \E k \in 1..n : r[k] = s.passed
        BY <1>1
    <2> QED
        BY <2>1, <2>3, <2>4, <2>5
<1> QED
    BY <1>2, <1>3

LEMMA CollectPicks ==
    ASSUME NEW video, NEW count \in Nat, NEW N \in Nat, DOMAIN video.times = 1..N,
           NEW r, \A k \in 1..N : r[k] \in Nat /\ r[k] = Passed(video, count, k)
    PROVE  /\ Collect(video, count) \in Seq(Nat)
           /\ ToSet(Collect(video, count)) = FirstFor(r, N)
           /\ \A j, k \in DOMAIN Collect(video, count) :
                j < k => Collect(video, count)[j] < Collect(video, count)[k]
<1>1. PICK f :
        /\ f[1..0] = NonePicked
        /\ \A k \in 1..N : f[1..k] = Picking(video, count, f[1..(k - 1)], k)
        /\ Collect(video, count) = f[1..N].picked
    BY CollectSteps
<1> DEFINE Wrong == {n \in 0..N : ~PicksSoFar(f[1..n], r, n)}
<1>2. PicksSoFar(NonePicked, r, 0)
    <2>1. NonePicked.passed = 0 /\ NonePicked.picked = <<>> /\ 1..0 = {}
        BY DEF NonePicked
    <2>2. /\ ToSet(<<>>) = {} /\ FirstFor(r, 0) = {} /\ <<>> \in Seq(Nat)
          /\ DOMAIN <<>> = {}
        BY <2>1 DEF ToSet, FirstFor
    <2>3. PICK s : s = NonePicked
        OBVIOUS
    <2>4. s.passed = 0 /\ s.picked = <<>>
        BY <2>1, <2>3
    <2>5. s.passed \in Nat /\ ~(s.passed > 0)
        BY <2>4
    <2>6. \A j, k \in DOMAIN s.picked : j < k => s.picked[j] < s.picked[k]
        BY <2>2, <2>4
    <2>7. PicksSoFar(s, r, 0)
        BY <2>1, <2>2, <2>4, <2>5, <2>6 DEF PicksSoFar
    <2> QED
        BY <2>3, <2>7
<1>3. ASSUME Wrong # {} PROVE FALSE
    <2> Wrong \in SUBSET Nat
        OBVIOUS
    <2> HIDE DEF Wrong
    <2>1. PICK n \in Wrong : \A m \in Wrong : n <= m
        BY <1>3, LeastNatural
    <2> USE DEF Wrong
    <2>2. n # 0
        BY <1>1, <1>2, <2>1
    <2>3. n \in Nat \ {0} /\ n \in 1..N /\ n - 1 \in 0..N /\ n - 1 \notin Wrong
        BY <2>1, <2>2
    <2>4. PicksSoFar(f[1..(n - 1)], r, n - 1)
        BY <2>3
    <2>5. f[1..n] = Picking(video, count, f[1..(n - 1)], n)
        BY <1>1, <2>3
    <2>6. (\A k \in 1..n : r[k] \in Nat) /\ r[n] = Passed(video, count, n)
        BY <2>3
    <2> HIDE DEF Wrong
    <2>7. PicksSoFar(f[1..n], r, n)
        <3>1. PICK s : s = f[1..(n - 1)]
            OBVIOUS
        <3>2. PicksSoFar(s, r, n - 1)
            BY <2>4, <3>1
        <3>3. PicksSoFar(Picking(video, count, s, n), r, n)
            BY <2>3, <2>6, <3>2, PickingStep
        <3> QED
            BY <2>5, <3>1, <3>3, Zenon
    <2> USE DEF Wrong
    <2> QED
        BY <2>1, <2>7
<1>4. PicksSoFar(f[1..N], r, N)
    BY <1>3
<1> QED
    BY <1>1, <1>4 DEF PicksSoFar

(* The first frames for the moments, by the definition. *)
Served(video, count) ==
    LET At(i) == {k \in DOMAIN video.times : Reached(i, video.duration, count, video.times[k])}
    IN {Min(At(i)) : i \in {j \in 1..count : At(j) # {}}}

LEMMA ServedFirst ==
    ASSUME NEW video, NEW count \in Nat, NEW N \in Nat, DOMAIN video.times = 1..N, NEW r,
           \A k \in 1..N :
                /\ r[k] \in 0..count
                /\ \A i \in 1..count :
                    Reached(i, video.duration, count, video.times[k]) <=> i <= r[k]
    PROVE  Served(video, count) = FirstFor(r, N)
<1> DEFINE At(i) == {k \in DOMAIN video.times :
                        Reached(i, video.duration, count, video.times[k])}
<1>1. ASSUME NEW i \in 1..count
      PROVE  At(i) = {k \in 1..N : i <= r[k]}
    OBVIOUS
<1>2. Served(video, count) = {Min(At(i)) : i \in {j \in 1..count : At(j) # {}}}
    BY DEF Served
<1>3. ASSUME NEW i \in 1..count, At(i) # {}
      PROVE  Min(At(i)) \in At(i) /\ \A k \in At(i) : Min(At(i)) <= k
    <2>1. At(i) \in SUBSET Nat
        BY <1>1
    <2> HIDE DEF At
    <2> QED
        BY <1>3, <2>1, MinOfNumbers
<1> HIDE DEF At
<1>4. ASSUME NEW i \in 1..count, At(i) # {} PROVE Min(At(i)) \in FirstFor(r, N)
    <2>1. PICK m : m = Min(At(i))
        OBVIOUS
    <2>2. m \in 1..N /\ i <= r[m] /\ \A k \in 1..N : i <= r[k] => m <= k
        BY <1>1, <1>3, <1>4, <2>1
    <2>3. \A k \in 1..(m - 1) : r[k] < r[m]
        BY <2>2
    <2> QED
        BY <2>1, <2>2, <2>3 DEF FirstFor
<1>5. ASSUME NEW m \in FirstFor(r, N)
      PROVE  \E i \in 1..count : At(i) # {} /\ m = Min(At(i))
    <2>1. m \in 1..N /\ r[m] \in 1..count /\ \A k \in 1..(m - 1) : r[k] < r[m]
        BY DEF FirstFor
    <2>2. PICK i \in 1..count : i = r[m]
        BY <2>1
    <2>3. m \in At(i)
        BY <1>1, <2>1, <2>2
    <2>4. PICK k : k = Min(At(i))
        OBVIOUS
    <2>5. k \in 1..N /\ i <= r[k] /\ k <= m
        BY <1>1, <1>3, <2>3, <2>4
    <2>6. ~(k < m)
        BY <2>1, <2>2, <2>5
    <2> QED
        BY <2>1, <2>3, <2>4, <2>5, <2>6
<1> QED
    BY <1>2, <1>4, <1>5

LEMMA ExtractServes ==
    ASSUME NEW video, IsVideo(video)
    PROVE  LET frames == Extract(video)
               served == Served(video, TargetFrameCount(video.duration))
           IN  /\ frames \in Seq(Nat)
               /\ ToSet(frames) = served
               /\ \A j, k \in DOMAIN frames : j < k => frames[j] < frames[k]
               /\ Len(frames) <= FrameMax
               /\ IsFiniteSet(served) /\ Cardinality(served) <= Len(frames)
<1>1. PICK count : count = TargetFrameCount(video.duration)
    OBVIOUS
<1>2. count \in 1..FrameMax
    <2>1. RoundHalfEven(video.duration * FrameRate, 1000) \in Int
        <3>1. PICK num : num = video.duration * FrameRate
            OBVIOUS
        <3>2. num \in Nat
            BY <3>1, SamplingAssumption, Z3 DEF IsVideo
        <3>3. num \div 1000 \in Int
            BY <3>2
        <3> QED
            BY <3>1, <3>3 DEF RoundHalfEven
    <2> QED
        BY <1>1, <2>1, SamplingAssumption DEF TargetFrameCount, Least, Greatest
<1>3. PICK N \in Nat : DOMAIN video.times = 1..N /\ \A k \in 1..N : video.times[k] \in Int
    BY DEF IsVideo
<1>4. PICK r : r = [k \in 1..N |-> Passed(video, count, k)]
    OBVIOUS
<1>5. ASSUME NEW k \in 1..N
      PROVE  /\ r[k] \in 0..count /\ r[k] \in Nat /\ r[k] = Passed(video, count, k)
             /\ \A i \in 1..count :
                    Reached(i, video.duration, count, video.times[k]) <=> i <= r[k]
    <2>1. r[k] = Passed(video, count, k)
        BY <1>4
    <2>2. count \in Nat /\ video.duration \in Nat /\ video.times[k] \in Int
        BY <1>2, <1>3 DEF IsVideo
    <2>3. \A j \in 1..count :
            Reached(j, video.duration, count, video.times[k]) <=> j <= Passed(video, count, k)
        BY <2>2, PassedMoments
    <2>4. Passed(video, count, k) \in 0..count
        BY <2>2, PassedMoments
    <2>5. r[k] \in 0..count /\ r[k] \in Nat
        BY <2>1, <2>2, <2>4
    <2> QED
        BY <2>1, <2>3, <2>5, Zenon
<1>6. PICK frames : frames = Extract(video)
    OBVIOUS
<1>7. /\ frames \in Seq(Nat) /\ ToSet(frames) = FirstFor(r, N)
      /\ \A j, k \in DOMAIN frames : j < k => frames[j] < frames[k]
    <2>1. frames = Collect(video, count)
        BY <1>1, <1>6 DEF Extract
    <2>2. count \in Nat
        BY <1>2
    <2> QED
        BY <1>3, <1>5, <2>1, <2>2, CollectPicks
<1>8. Served(video, count) = FirstFor(r, N)
    BY <1>2, <1>3, <1>5, ServedFirst
<1>9. PICK m \in Nat : m = Len(frames) /\ DOMAIN frames = 1..m
    BY <1>7, LenProperties
<1>10. IsFiniteSet(1..m) /\ Cardinality(1..m) = m
       /\ IsFiniteSet(1..count) /\ Cardinality(1..count) = count
    BY <1>2, FS_Interval
<1>11. m <= count
    <2> DEFINE h == [k \in 1..m |-> r[frames[k]]]
    <2>1. ASSUME NEW k \in 1..m
          PROVE  frames[k] \in FirstFor(r, N)
        BY <1>7, <1>9 DEF ToSet
    <2>2. ASSUME NEW k \in 1..m
          PROVE  h[k] \in 1..count
        <3>1. frames[k] \in 1..N /\ r[frames[k]] > 0
            BY <2>1 DEF FirstFor
        <3> QED
            BY <1>2, <1>5, <3>1
    <2>3. ASSUME NEW j \in 1..m, NEW k \in 1..m, j < k PROVE h[j] < h[k]
        <3>1. frames[j] \in 1..(frames[k] - 1)
            <4>1. frames[j] \in 1..N /\ frames[k] \in 1..N
                BY <2>1 DEF FirstFor
            <4>2. frames[j] < frames[k]
                BY <1>7, <1>9, <2>3
            <4> QED
                BY <4>1, <4>2
        <3>2. r[frames[j]] < r[frames[k]]
            BY <2>1, <3>1 DEF FirstFor
        <3> QED
            BY <3>2
    <2>4. h \in Injection(1..m, 1..count)
        <3>1. h \in [1..m -> 1..count]
            BY <2>2
        <3>2. ASSUME NEW j \in 1..m, NEW k \in 1..m, h[j] = h[k] PROVE j = k
            <4>1. h[j] \in Int /\ h[k] \in Int
                BY <2>2
            <4> HIDE DEF h
            <4> QED
                BY <2>3, <3>2, <4>1
        <3> HIDE DEF h
        <3> QED
            BY <3>1, <3>2 DEF Injection, IsInjective
    <2> QED
        BY <1>10, <2>4, FS_Injection
<1>12. IsFiniteSet(FirstFor(r, N)) /\ Cardinality(FirstFor(r, N)) <= m
    <2>1. frames \in Surjection(1..m, FirstFor(r, N))
        <3>1. frames = [k \in 1..m |-> frames[k]]
            BY <1>7, <1>9
        <3> QED
            BY <1>7, <1>9, <3>1 DEF ToSet, Surjection
    <2> QED
        BY <1>10, <2>1, FS_Surjection
<1>13. Len(frames) <= FrameMax
    BY <1>2, <1>9, <1>11, SamplingAssumption
<1> QED
    BY <1>1, <1>6, <1>7, <1>8, <1>9, <1>12, <1>13

-----------------------------------------------------------------------------
(* What the stages keep of the frames: those of the video, and enough of   *)
(* them unless the analysis has failed for their want.                     *)
SamplingInv ==
    /\ world \in DOMAIN Worlds
    /\ {"frames", "rows"} \subseteq DOMAIN vision
    /\ stage \notin {"request", "rejected"} => IsVideo(input.video)
    /\ stage \notin {"request", "rejected", "frame_extraction"} =>
        /\ vision.frames = Extract(input.video)
        /\ stage # "failed" => ~TooFew(vision.frames)
        /\ stage = "failed" /\ ~TooFew(vision.frames) =>
                Len(vision.rows) # Len(vision.frames) \/ report.prompt # None

LEMMA SamplingInitInv == Init => SamplingInv
BY DEF Init, SamplingInv

LEMMA SamplingNextInv == SamplingInv /\ [Next]_vars => SamplingInv'
<1> SUFFICES ASSUME SamplingInv, [Next]_vars PROVE SamplingInv'
    OBVIOUS
<1> USE DEF SamplingInv
<1>1. CASE Request
    <2>1. PICK video \in Here.videos : input'.video = video
        BY <1>1 DEF Request
    <2>2. IsVideo(video)
        BY VideoAssumption DEF Here
    <2>3. stage' \in {"frame_extraction", "rejected"} /\ UNCHANGED <<world, vision>>
        BY <1>1 DEF Request
    <2> QED
        BY <2>1, <2>2, <2>3
<1>2. CASE ExtractFrames
    <2>1. /\ DOMAIN vision' = DOMAIN vision /\ vision'.frames = Extract(input.video)
          /\ stage' = IF TooFew(vision'.frames) THEN "failed" ELSE "object_detection"
          /\ UNCHANGED <<world, input>> /\ stage = "frame_extraction"
        BY <1>2 DEF ExtractFrames
    <2> QED
        BY <2>1
<1>3. CASE DetectObjects
    <2>1. PICK scene \in Here.scenes :
            /\ vision' = [vision EXCEPT !.rows = Detect(scene)]
            /\ stage' = IF Len(scene) = Len(vision.frames) THEN "object_tracking" ELSE "failed"
        BY <1>3 DEF DetectObjects
    <2>2. Len(Detect(scene)) = Len(scene)
        <3>1. IsList(scene)
            BY VideoAssumption DEF Here, IsScene
        <3>2. PICK X : scene \in Seq(X)
            BY <3>1 DEF IsList
        <3>3. PICK n \in Nat : n = Len(scene) /\ DOMAIN scene = 1..n
            BY <3>2, LenProperties
        <3>4. PICK r : r = Detect(scene)
            OBVIOUS
        <3>5. r = [f \in 1..n |-> ToDetections(scene[f], f)]
            BY <3>3, <3>4 DEF Detect
        <3>6. r \in [1..n -> {r[f] : f \in 1..n}]
            BY <3>5
        <3>7. PICK Y : r \in [1..n -> Y]
            BY <3>6
        <3> QED
            BY <3>3, <3>4, <3>7, SeqDef, LenProperties
    <2>3. /\ DOMAIN vision' = DOMAIN vision /\ vision'.frames = vision.frames
          /\ vision'.rows = Detect(scene)
        BY <2>1
    <2>4. UNCHANGED <<world, input, report>> /\ stage = "object_detection"
        BY <1>3 DEF DetectObjects
    <2> QED
        BY <2>1, <2>2, <2>3, <2>4
<1>4. CASE TrackObjects \/ SelectFrame \/ MarkRisks
    <2>1. /\ DOMAIN vision' = DOMAIN vision /\ vision'.frames = vision.frames
          /\ UNCHANGED <<world, input, report>>
          /\ stage \in {"object_tracking", "frame_selection", "risk_marking"}
          /\ stage' \in {"frame_selection", "risk_marking", "score_calculation"}
        BY <1>4 DEF TrackObjects, SelectFrame, MarkRisks
    <2> QED
        BY <2>1
<1>5. CASE GiveUp
    BY <1>5 DEF GiveUp
<1>6. CASE CalculateScore \/ AskModel \/ ModelAnswers \/ SaveResult
    <2>1. /\ UNCHANGED <<world, input, vision>>
          /\ stage \in {"score_calculation", "environment_analysis", "saving"}
          /\ stage' \in {"environment_analysis", "saving", "completed", "refused"}
        BY <1>6 DEF CalculateScore, AskModel, ModelAnswers, SaveResult
    <2> QED
        BY <2>1
<1>7. CASE ShowResult \/ OpenHistory \/ NextPage \/ UNCHANGED vars
    BY <1>7 DEF ShowResult, OpenHistory, NextPage, vars
<1> QED
    BY <1>1, <1>2, <1>3, <1>4, <1>5, <1>6, <1>7 DEF Next

LEMMA SampledFramesUsedOnce == SamplingInv => FramesUsedOnce
<1> SUFFICES ASSUME SamplingInv, stage \notin {"request", "rejected", "frame_extraction"}
             PROVE  LET served == Served(input.video, TargetFrameCount(input.video.duration))
                    IN  /\ ToSet(vision.frames) = served
                        /\ \A j, k \in DOMAIN vision.frames :
                                j < k => vision.frames[j] < vision.frames[k]
                        /\ Len(vision.frames) <= FrameMax
                        /\ stage # "failed" => Len(vision.frames) >= FrameMin
                        /\ Cardinality(served) >= FrameMin /\ stage = "failed" =>
                                Len(vision.rows) # Len(vision.frames) \/ report.prompt # None
    BY Zenon DEF FramesUsedOnce, Served
<1>1. PICK video, frames, served :
        /\ video = input.video /\ frames = vision.frames
        /\ served = Served(video, TargetFrameCount(video.duration))
    OBVIOUS
<1>2. IsVideo(video) /\ frames = Extract(video)
    BY <1>1 DEF SamplingInv
<1>3. /\ frames \in Seq(Nat) /\ ToSet(frames) = served
      /\ \A j, k \in DOMAIN frames : j < k => frames[j] < frames[k]
      /\ Len(frames) <= FrameMax
      /\ IsFiniteSet(served) /\ Cardinality(served) <= Len(frames)
    BY <1>1, <1>2, ExtractServes
<1>4. Len(frames) \in Nat /\ FrameMin \in Nat
    BY <1>3, LenProperties, SamplingAssumption
<1>5. stage # "failed" => Len(frames) >= FrameMin
    BY <1>1, <1>4 DEF SamplingInv, TooFew
<1>6. ASSUME Cardinality(served) >= FrameMin, stage = "failed"
      PROVE  Len(vision.rows) # Len(frames) \/ report.prompt # None
    <2>1. Cardinality(served) \in Nat
        BY <1>3, FS_CardinalityType
    <2>2. ~TooFew(frames)
        BY <1>3, <1>4, <1>6, <2>1 DEF TooFew
    <2> QED
        BY <1>1, <1>6, <2>2 DEF SamplingInv
<1> QED
    BY <1>1, <1>3, <1>5, <1>6

(* _collect and extract: a frame is used once, each moment gets the first  *)
(* frame that has reached it, and only analyses with FrameMin..FrameMax    *)
(* frames go on (frames.py), whatever the times of the decoded frames.     *)
THEOREM MomentsServedOnce == Spec => []FramesUsedOnce
BY SamplingInitInv, SamplingNextInv, SampledFramesUsedOnce, PTL DEF Spec

-----------------------------------------------------------------------------
(* A list that is read as JSON. *)
LEMMA ListForm ==
    ASSUME NEW s, IsList(s)
    PROVE  \E n \in Nat : /\ n = Len(s) /\ DOMAIN s = 1..n /\ s \in [1..n -> ToSet(s)]
                          /\ \A k \in 1..n : s[k] \in ToSet(s)
<1>1. s \in Seq(ToSet(s))
    BY DEF IsList
<1>2. PICK X : X = ToSet(s)
    OBVIOUS
<1>3. s \in Seq(X)
    BY <1>1, <1>2
<1>4. Len(s) \in Nat /\ DOMAIN s = 1..Len(s) /\ s \in [1..Len(s) -> X]
    BY <1>3, LenProperties
<1> QED
    BY <1>2, <1>4

LEMMA CutList ==
    ASSUME NEW X, NEW s \in Seq(X), NEW n \in Nat
    PROVE  /\ Cut(s, n) \in Seq(X)
           /\ Len(s) <= n => Cut(s, n) = s
           /\ Len(Cut(s, n)) = IF Len(s) <= n THEN Len(s) ELSE n
           /\ Len(Cut(s, n)) <= n /\ Len(Cut(s, n)) <= Len(s)
           /\ \A k \in 1..Len(Cut(s, n)) : Cut(s, n)[k] = s[k]
<1>1. Len(s) \in Nat /\ DOMAIN s = 1..Len(s) /\ s \in [1..Len(s) -> X]
    BY LenProperties
<1> DEFINE m == IF Len(s) <= n THEN Len(s) ELSE n
<1>2. m \in Nat /\ m <= Len(s) /\ m <= n
    BY <1>1
<1>3. Cut(s, n) = SubSeq(s, 1, m)
    BY DEF Cut
<1> HIDE DEF m
<1>4. PICK r : r = Cut(s, n)
    OBVIOUS
<1>5. /\ r \in Seq(X) /\ Len(r) = m
      /\ \A k \in 1..m : r[k] = s[k]
    <2>1. r = SubSeq(s, 1, m)
        BY <1>3, <1>4
    <2> QED
        BY <1>1, <1>2, <2>1, SubSeqProperties
<1>6. Len(s) <= n => r = s
    <2> SUFFICES ASSUME Len(s) <= n PROVE r = s
        OBVIOUS
    <2>1. m = Len(s)
        BY DEF m
    <2>2. r \in [1..m -> X] /\ s \in [1..m -> X]
        BY <1>1, <1>5, <2>1, LenProperties
    <2> QED
        BY <1>5, <2>2
<1> QED
    BY <1>1, <1>2, <1>4, <1>5, <1>6 DEF m

(* Without a rejection no element of an answer has a fault. *)
LEMMA NoFaultFound ==
    ASSUME NEW n \in Nat, NEW faults, DOMAIN faults = 1..n, FirstOf(faults) = None
    PROVE  \A k \in 1..n : faults[k] = None
<1> DEFINE T == {k \in 1..n : faults[k] # None}
           Z == {faults[k] : k \in T}
<1>1. FirstOf(faults) = LET found == Chosen(faults, T)
                        IN  IF found = <<>> THEN None ELSE found[1]
    BY DEF FirstOf, Filter
<1>2. T \subseteq 1..n /\ \A t \in T : faults[t] \in Z
    OBVIOUS
<1>3. PICK found : found = Chosen(faults, T)
    OBVIOUS
<1> HIDE DEF T, Z
<1>4. found \in Seq(Z) /\ Len(found) = Cardinality(T) /\ Cardinality(T) \in 0..n
    BY <1>2, <1>3, ChosenElements
<1>5. ASSUME Cardinality(T) # 0 PROVE FALSE
    <2>1. 1 \in 1..Len(found)
        BY <1>4, <1>5
    <2>2. found[1] \in Z /\ found # <<>>
        BY <1>4, <2>1, LenProperties, ElementOfSeq
    <2>3. found[1] # None
        BY <2>2 DEF Z, T
    <2> QED
        BY <1>1, <1>3, <2>2, <2>3
<1>6. T = {}
    <2>1. IsFiniteSet(1..n)
        BY FS_Interval
    <2>2. IsFiniteSet(T)
        BY <1>2, <2>1, FS_Subset
    <2> QED
        BY <1>5, <2>2, FS_EmptySet
<1> QED
    BY <1>6 DEF T

LEMMA AcceptedAnswer ==
    ASSUME NEW answer, IsAnswer(answer), Rejection(answer) = None
    PROVE  /\ Len(answer.analysis) >= MinAnalysis
           /\ Len(answer.recommendations) >= MinRecommendations
           /\ \A r \in ToSet(answer.recommendations) : r.source \in {"DETECTED", "OBSERVED"}
<1> DEFINE Because(fault, reason) == IF fault THEN reason ELSE None
           readable == answer.form # "broken"
           complete == readable /\ Fields \subseteq answer.fields
           listed == complete /\ answer.lists
           first == <<Because(~readable, "NOT_JSON"), Because(~complete, "MISSING_FIELD"),
                      "BAD_SHAPE">>
           second == <<FaultIn(answer.riskFactors, FactorFault),
                       FaultIn(answer.analysis, SentenceFault),
                       FaultIn(answer.recommendations, RecommendationFault),
                       Because(Len(answer.analysis) < MinAnalysis, "TOO_FEW_ANALYSIS"),
                       Because(Len(answer.recommendations) < MinRecommendations,
                               "NO_RECOMMENDATION")>>
<1>1. Rejection(answer) = IF ~listed THEN FirstOf(first) ELSE FirstOf(second)
    BY DEF Rejection
<1>2. DOMAIN first = 1..3 /\ first[3] = "BAD_SHAPE"
    OBVIOUS
<1>3. /\ DOMAIN second = 1..5
      /\ second[3] = FaultIn(answer.recommendations, RecommendationFault)
      /\ second[4] = Because(Len(answer.analysis) < MinAnalysis, "TOO_FEW_ANALYSIS")
      /\ second[5] = Because(Len(answer.recommendations) < MinRecommendations,
                             "NO_RECOMMENDATION")
    OBVIOUS
<1> HIDE DEF first, second, listed, complete
<1>4. FirstOf(first) # None
    <2> SUFFICES ASSUME FirstOf(first) = None PROVE FALSE
        OBVIOUS
    <2>1. \A k \in 1..3 : first[k] = None
        BY <1>2, NoFaultFound
    <2>2. first[3] = None
        BY <2>1
    <2> QED
        BY <1>2, <2>2, AnswerAssumption
<1>5. \A k \in 1..5 : second[k] = None
    BY <1>1, <1>3, <1>4, NoFaultFound
<1>6. second[3] = None /\ second[4] = None /\ second[5] = None
    BY <1>5
<1>7. ~(Len(answer.analysis) < MinAnalysis)
    BY <1>3, <1>6, AnswerAssumption
<1>8. ~(Len(answer.recommendations) < MinRecommendations)
    BY <1>3, <1>6, AnswerAssumption
<1>9. /\ IsList(answer.analysis) /\ IsList(answer.recommendations)
      /\ \A r \in ToSet(answer.recommendations) : r.source \in {None, "DETECTED", "OBSERVED"}
    BY DEF IsAnswer
<1>10. Len(answer.analysis) \in Nat /\ Len(answer.recommendations) \in Nat
    BY <1>9, ListForm
<1>11. ASSUME NEW r \in ToSet(answer.recommendations) PROVE r.source \in {"DETECTED", "OBSERVED"}
    <2>1. PICK items : items = answer.recommendations
        OBVIOUS
    <2>2. PICK n \in Nat : n = Len(items) /\ DOMAIN items = 1..n
        BY <1>9, <2>1, ListForm
    <2>3. PICK k \in 1..n : items[k] = r
        BY <2>1, <2>2 DEF ToSet
    <2> DEFINE faults == [j \in DOMAIN items |-> RecommendationFault(items[j])]
    <2>4. FirstOf(faults) = None
        BY <1>3, <1>6, <2>1 DEF FaultIn
    <2>5. faults[k] = None
        <3>1. DOMAIN faults = 1..n
            BY <2>2
        <3> HIDE DEF faults
        <3> QED
            BY <2>4, <3>1, NoFaultFound
    <2>6. RecommendationFault(r) = None
        BY <2>2, <2>3, <2>5
    <2>7. r.source # None
        BY <2>6, AnswerAssumption DEF RecommendationFault
    <2> QED
        BY <1>9, <2>7
<1> QED
    BY <1>7, <1>8, <1>10, <1>11, LimitsAssumption

(* The first place of each key: every key has one. *)
FirstPlaces(n, key) == {k \in 1..n : \A j \in 1..(k - 1) : key[j] # key[k]}

LEMMA FirstOfKey ==
    ASSUME NEW n \in Nat, NEW key, NEW k \in 1..n
    PROVE  \E t \in FirstPlaces(n, key) : t <= k /\ key[t] = key[k]
<1> DEFINE S == {j \in 1..n : key[j] = key[k]}
<1>1. S \in SUBSET Nat /\ k \in S
    OBVIOUS
<1>2. PICK t \in S : \A j \in S : t <= j
    BY <1>1, LeastNatural
<1>3. t \in 1..n /\ key[t] = key[k] /\ t <= k
    BY <1>1, <1>2
<1>4. \A j \in 1..(t - 1) : key[j] # key[t]
    BY <1>2, <1>3
<1> QED
    BY <1>3, <1>4 DEF FirstPlaces

\* What is left of factors that differ in their words.
WordsOf(factors) == {f.text.words : f \in ToSet(factors)}

LEMMA UniqueFactors ==
    ASSUME NEW n \in Nat, NEW X, NEW s \in [1..n -> X]
    PROVE  /\ Unique(s) \in Seq(X) /\ Len(Unique(s)) \in 0..n
           /\ Len(Unique(s)) = Cardinality(FirstPlaces(n, [k \in 1..n |-> s[k].text.words]))
           /\ ToSet(Unique(s)) \subseteq ToSet(s)
           /\ WordsOf(Unique(s)) = WordsOf(s)
           /\ Len(Unique(s)) = n => Unique(s) = s
<1> DEFINE key == [k \in 1..n |-> s[k].text.words]
           T == FirstPlaces(n, key)
<1>1. Unique(s) = Chosen(s, T)
    <2>1. Unique(s) = Chosen(s, {k \in 1..n :
                        \A j \in 1..(k - 1) : s[j].text.words # s[k].text.words})
        BY DEF Unique, FirstOfEach
    <2>2. T = {k \in 1..n : \A j \in 1..(k - 1) : s[j].text.words # s[k].text.words}
        <3>1. \A k \in 1..n : key[k] = s[k].text.words /\ \A j \in 1..(k - 1) : j \in 1..n
            OBVIOUS
        <3>2. T = {k \in 1..n : \A j \in 1..(k - 1) : key[j] # key[k]}
            BY DEF FirstPlaces
        <3> HIDE DEF key
        <3>3. \A k \in 1..n : (\A j \in 1..(k - 1) : key[j] # key[k])
                        <=> (\A j \in 1..(k - 1) : s[j].text.words # s[k].text.words)
            BY <3>1
        <3> QED
            BY <3>2, <3>3
    <2> QED
        BY <2>1, <2>2
<1>2. T \subseteq 1..n
    BY DEF FirstPlaces
<1> HIDE DEF T
<1> DEFINE u == Chosen(s, T)
<1>3. u = Unique(s)
    BY <1>1
<1>4. /\ u \in Seq(X) /\ Len(u) = Cardinality(T) /\ Cardinality(T) \in 0..n
      /\ ToSet(u) = {s[t] : t \in T}
      /\ Cardinality(T) = n => T = 1..n
      /\ T = 1..n => u = s
    <2>1. \A t \in T : s[t] \in X
        BY <1>2
    <2>2. DOMAIN s = 1..n
        OBVIOUS
    <2> QED
        BY <1>2, <2>1, <2>2, ChosenElements
<1> HIDE DEF u
<1>5. ToSet(s) = {s[k] : k \in 1..n}
    BY DEF ToSet
<1>6. ToSet(u) \subseteq ToSet(s)
    BY <1>2, <1>4, <1>5
<1>7. ASSUME NEW f \in ToSet(s) PROVE f.text.words \in WordsOf(u)
    <2>1. PICK k \in 1..n : s[k] = f
        BY <1>5
    <2>2. PICK t \in T : key[t] = key[k]
        BY FirstOfKey DEF T
    <2>3. s[t].text.words = f.text.words /\ s[t] \in ToSet(u)
        BY <1>2, <1>4, <2>1, <2>2
    <2> QED
        BY <2>3 DEF WordsOf
<1>8. WordsOf(u) = WordsOf(s)
    BY <1>6, <1>7 DEF WordsOf
<1> QED
    BY <1>3, <1>4, <1>6, <1>8 DEF T

IsFactors(factors) ==
    IsList(factors) /\ \A f \in ToSet(factors) : f = [text |-> f.text, source |-> f.source]

LEMMA VerifiedFactors ==
    ASSUME NEW n \in Nat, NEW X, NEW factors \in [1..n -> X], NEW names,
           \A k \in 1..n : factors[k] = [text |-> factors[k].text, source |-> factors[k].source]
    PROVE  /\ DOMAIN Verified(factors, names) = 1..n
           /\ Verified(factors, names) = [k \in 1..n |-> Verified(factors, names)[k]]
           /\ \A k \in 1..n :
                /\ Verified(factors, names)[k].text = factors[k].text
                /\ Verified(factors, names)[k].source = "DETECTED" =>
                        Verified(factors, names)[k].text.names \cap names # {}
           /\ (\A k \in 1..n : ~Ungrounded(factors[k], names)) => Verified(factors, names) = factors
<1>1. PICK v : v = Verified(factors, names)
    OBVIOUS
<1>2. v = [k \in 1..n |-> IF Ungrounded(factors[k], names)
                          THEN [factors[k] EXCEPT !.source = "OBSERVED"] ELSE factors[k]]
    BY <1>1 DEF Verified
<1>3. ASSUME NEW k \in 1..n
      PROVE  /\ v[k].text = factors[k].text
             /\ v[k].source = "DETECTED" => v[k].text.names \cap names # {}
    <2>1. CASE Ungrounded(factors[k], names)
        <3>1. v[k] = [factors[k] EXCEPT !.source = "OBSERVED"]
            BY <1>2, <2>1
        <3>2. v[k] = [text |-> factors[k].text, source |-> "OBSERVED"]
            BY <3>1
        <3> QED
            BY <3>2
    <2>2. CASE ~Ungrounded(factors[k], names)
        <3>1. v[k] = factors[k]
            BY <1>2, <2>2
        <3> QED
            BY <2>2, <3>1 DEF Ungrounded
    <2> QED
        BY <2>1, <2>2
<1>4. v = [k \in 1..n |-> v[k]]
    BY <1>2
<1>5. (\A k \in 1..n : ~Ungrounded(factors[k], names)) => v = factors
    BY <1>2
<1> QED
    BY <1>1, <1>2, <1>3, <1>4, <1>5

(* _verify_detected, _normalize_risk_factors: what happens to the factors. *)
LEMMA RiskFactorsKept ==
    ASSUME NEW factors, IsFactors(factors), NEW names
    PROVE  /\ \E X : RiskFactors(factors, names) \in Seq(X)
           /\ Len(RiskFactors(factors, names)) <= MaxRiskFactors
           /\ \A f \in ToSet(RiskFactors(factors, names)) :
                f.source = "DETECTED" => f.text.names \cap names # {}
           /\ Len(Unique(factors)) <= MaxRiskFactors =>
                WordsOf(RiskFactors(factors, names)) = WordsOf(factors)
           /\ (/\ \A k \in DOMAIN factors : ~Ungrounded(factors[k], names)
               /\ Len(Unique(factors)) >= Len(factors)
               /\ Len(Unique(factors)) <= MaxRiskFactors)
                => RiskFactors(factors, names) = factors
<1>1. PICK n \in Nat : /\ n = Len(factors) /\ DOMAIN factors = 1..n
                       /\ factors \in [1..n -> ToSet(factors)]
                       /\ \A k \in 1..n : factors[k] \in ToSet(factors)
    BY ListForm DEF IsFactors
<1>2. \A k \in 1..n : factors[k] = [text |-> factors[k].text, source |-> factors[k].source]
    BY <1>1 DEF IsFactors
<1> DEFINE v == Verified(factors, names)
<1>3. v = Verified(factors, names)
    OBVIOUS
<1>4. /\ v = [k \in 1..n |-> v[k]]
      /\ \A k \in 1..n :
            /\ v[k].text = factors[k].text
            /\ v[k].source = "DETECTED" => v[k].text.names \cap names # {}
      /\ (\A k \in 1..n : ~Ungrounded(factors[k], names)) => v = factors
    <2>1. PICK Y : Y = ToSet(factors)
        OBVIOUS
    <2>2. factors \in [1..n -> Y]
        BY <1>1, <2>1
    <2> HIDE DEF v
    <2>3. /\ DOMAIN Verified(factors, names) = 1..n
          /\ Verified(factors, names) = [k \in 1..n |-> Verified(factors, names)[k]]
          /\ \A k \in 1..n :
                /\ Verified(factors, names)[k].text = factors[k].text
                /\ Verified(factors, names)[k].source = "DETECTED" =>
                        Verified(factors, names)[k].text.names \cap names # {}
          /\ (\A k \in 1..n : ~Ungrounded(factors[k], names)) => Verified(factors, names) = factors
        BY <1>2, <2>2, VerifiedFactors
    <2> QED
        BY <1>3, <2>3
<1> HIDE DEF v
<1>5. PICK X : v \in [1..n -> X]
    <2>1. v \in [1..n -> {v[k] : k \in 1..n}]
        BY <1>4
    <2> QED
        BY <2>1
<1>6. PICK u : u = Unique(v)
    OBVIOUS
<1> DEFINE key == [k \in 1..n |-> factors[k].text.words]
<1>7. /\ u \in Seq(X) /\ Len(u) \in 0..n /\ Len(u) = Cardinality(FirstPlaces(n, key))
      /\ ToSet(u) \subseteq ToSet(v) /\ WordsOf(u) = WordsOf(v)
      /\ Len(u) = n => u = v
    <2>1. [k \in 1..n |-> v[k].text.words] = key
        BY <1>4
    <2> HIDE DEF key
    <2> QED
        BY <1>5, <1>6, <2>1, UniqueFactors
<1>8. Len(Unique(factors)) = Len(u)
    <2>1. Len(Unique(factors)) = Cardinality(FirstPlaces(n, key))
        BY <1>1, UniqueFactors
    <2> QED
        BY <1>7, <2>1
<1>9. WordsOf(v) = WordsOf(factors)
    <2>1. ToSet(v) = {v[k] : k \in 1..n} /\ ToSet(factors) = {factors[k] : k \in 1..n}
        <3>1. DOMAIN v = 1..n
            BY <1>4
        <3> QED
            BY <1>1, <3>1 DEF ToSet
    <2>2. \A k \in 1..n : v[k].text.words = factors[k].text.words
        BY <1>4
    <2>3. WordsOf(v) = {v[k].text.words : k \in 1..n}
        BY <2>1 DEF WordsOf
    <2>4. WordsOf(factors) = {factors[k].text.words : k \in 1..n}
        BY <2>1 DEF WordsOf
    <2> QED
        BY <2>2, <2>3, <2>4
<1>10. PICK r : r = RiskFactors(factors, names)
    OBVIOUS
<1>11. r = Cut(u, MaxRiskFactors)
    BY <1>3, <1>6, <1>10 DEF RiskFactors
<1>12. MaxRiskFactors \in Nat
    BY LimitsAssumption
<1>13. /\ r \in Seq(X)
       /\ Len(u) <= MaxRiskFactors => r = u
       /\ Len(r) <= MaxRiskFactors /\ Len(r) <= Len(u)
       /\ \A k \in 1..Len(r) : r[k] = u[k]
    BY <1>7, <1>11, <1>12, CutList
<1>14. ToSet(r) \subseteq ToSet(u)
    <2>1. DOMAIN r = 1..Len(r) /\ DOMAIN u = 1..Len(u) /\ Len(r) \in Nat /\ Len(u) \in Nat
        BY <1>7, <1>13, LenProperties
    <2> QED
        BY <1>13, <2>1 DEF ToSet
<1>15. ASSUME NEW f \in ToSet(r), f.source = "DETECTED" PROVE f.text.names \cap names # {}
    <2>1. f \in ToSet(v)
        BY <1>7, <1>14
    <2>2. DOMAIN v = 1..n
        BY <1>4
    <2>3. PICK k \in 1..n : f = v[k]
        BY <2>1, <2>2 DEF ToSet
    <2> QED
        BY <1>4, <1>15, <2>3
<1>16. Len(u) <= MaxRiskFactors => WordsOf(r) = WordsOf(factors)
    BY <1>7, <1>9, <1>13
<1>17. ASSUME \A k \in DOMAIN factors : ~Ungrounded(factors[k], names),
              Len(u) >= Len(factors), Len(u) <= MaxRiskFactors
       PROVE  r = factors
    <2>1. Len(u) = n
        BY <1>1, <1>7, <1>17
    <2> QED
        BY <1>1, <1>4, <1>7, <1>13, <1>17, <2>1
<1> QED
    BY <1>8, <1>10, <1>13, <1>15, <1>16, <1>17

IsAdvice(r) ==
    /\ r = [text |-> r.text, type |-> r.type, priority |-> r.priority, source |-> r.source]
    /\ r.priority \in Nat

(* _build_recommendations, _normalize_recommendations: what is recommended, *)
(* and in which order.                                                      *)
LEMMA OrderedAdvice ==
    ASSUME NEW items, IsList(items), \A r \in ToSet(items) : IsAdvice(r)
    PROVE  /\ \E X : Ordered(items) \in Seq(X)
           /\ Len(Ordered(items)) =
                IF Len(items) <= MaxRecommendations THEN Len(items) ELSE MaxRecommendations
           /\ \A k \in 1..Len(Ordered(items)) : \E r \in ToSet(items) :
                /\ IsAdvice(Ordered(items)[k])
                /\ Ordered(items)[k].text = r.text /\ Ordered(items)[k].source = r.source
           /\ Len(items) <= MaxRecommendations /\ (\A r \in ToSet(items) : r.priority >= 1)
                => ToSet(Ordered(items)) = ToSet(items)
<1>1. PICK Y : Y = ToSet(items)
    OBVIOUS
<1>2. PICK n \in Nat : /\ n = Len(items) /\ DOMAIN items = 1..n
                       /\ items \in [1..n -> Y]
                       /\ \A k \in 1..n : items[k] \in Y
    BY <1>1, ListForm
<1>3. PICK p : p = Placed(items)
    OBVIOUS
<1>4. p = [k \in 1..n |-> [items[k] EXCEPT !.priority = IF @ >= 1 THEN @ ELSE k]]
    BY <1>2, <1>3 DEF Placed
<1>5. ASSUME NEW k \in 1..n
      PROVE  /\ IsAdvice(p[k]) /\ p[k].text = items[k].text /\ p[k].source = items[k].source
             /\ items[k].priority >= 1 => p[k] = items[k]
    <2>1. IsAdvice(items[k])
        BY <1>1, <1>2
    <2>2. PICK a : a = items[k]
        OBVIOUS
    <2>3. a = [text |-> a.text, type |-> a.type, priority |-> a.priority, source |-> a.source]
        BY <2>1, <2>2 DEF IsAdvice
    <2>4. a.priority \in Nat
        BY <2>1, <2>2 DEF IsAdvice
    <2>5. PICK q : q = IF a.priority >= 1 THEN a.priority ELSE k
        OBVIOUS
    <2>6. p[k] = [a EXCEPT !.priority = q]
        BY <1>4, <2>2, <2>5
    <2>7. p[k] = [text |-> a.text, type |-> a.type, priority |-> q, source |-> a.source]
        BY <2>3, <2>6
    <2>8. q \in Nat
        BY <2>4, <2>5
    <2>9. a.priority >= 1 => q = a.priority
        BY <2>5
    <2>10. /\ p[k].text = a.text /\ p[k].type = a.type /\ p[k].priority = q
           /\ p[k].source = a.source
        BY <2>7
    <2>11. a.priority >= 1 => p[k] = a
        BY <2>3, <2>7, <2>9
    <2> QED
        BY <2>2, <2>7, <2>8, <2>10, <2>11 DEF IsAdvice
<1> DEFINE key == [k \in DOMAIN p |-> <<p[k].priority>>]
           Z == {p[k] : k \in 1..n}
           s == Sorted(p, key)
<1>6. DOMAIN p = 1..n /\ p \in [1..n -> Z] /\ ToSet(p) = Z
    <2>1. DOMAIN p = 1..n
        BY <1>4
    <2>2. p \in [1..n -> Z]
        BY <1>4
    <2>3. ToSet(p) = Z
        BY <2>1 DEF ToSet
    <2> QED
        BY <2>1, <2>2, <2>3
<1>7. key \in [1..n -> [1..1 -> Int]]
    <2>1. ASSUME NEW k \in 1..n PROVE <<p[k].priority>> \in [1..1 -> Int]
        <3>1. IsAdvice(p[k])
            BY <1>5
        <3>2. PICK a : a = p[k].priority
            OBVIOUS
        <3>3. a \in Nat
            BY <3>1, <3>2 DEF IsAdvice
        <3> QED
            BY <3>2, <3>3, OneNumber
    <2> QED
        BY <1>6, <2>1
<1>8. s \in [1..n -> Z] /\ ToSet(s) = Z
    <2> HIDE DEF key, Z
    <2>1. 1 \in Nat /\ key \in Keys(n, 1)
        BY <1>7 DEF Keys
    <2>2. SortsTo(s, p, n, Z)
        BY <1>6, <2>1, SortedElements, Zenon
    <2> QED
        BY <1>6, <2>2 DEF SortsTo
<1>9. PICK r : r = Ordered(items)
    OBVIOUS
<1>10. r = Cut(s, MaxRecommendations)
    BY <1>3, <1>9, Zenon DEF Ordered, SortedBy
<1> HIDE DEF s, key
<1>11. MaxRecommendations \in Nat
    BY LimitsAssumption
<1>12. s \in Seq(Z) /\ Len(s) = n
    <2> HIDE DEF Z
    <2> QED
        BY <1>8, SeqDef, LenProperties
<1>13. /\ r \in Seq(Z)
       /\ Len(s) <= MaxRecommendations => r = s
       /\ Len(r) = IF Len(s) <= MaxRecommendations THEN Len(s) ELSE MaxRecommendations
       /\ Len(r) <= Len(s)
       /\ \A k \in 1..Len(r) : r[k] = s[k]
    <2> HIDE DEF Z
    <2> QED
        BY <1>10, <1>11, <1>12, CutList
<1>14. ASSUME NEW k \in 1..Len(r)
       PROVE  \E a \in ToSet(items) :
                IsAdvice(r[k]) /\ r[k].text = a.text /\ r[k].source = a.source
    <2>1. r[k] \in Z
        <3> HIDE DEF Z
        <3> QED
            BY <1>13, ElementOfSeq
    <2>2. PICK j \in 1..n : r[k] = p[j]
        BY <2>1
    <2>3. items[j] \in ToSet(items)
        BY <1>1, <1>2
    <2>4. IsAdvice(p[j]) /\ p[j].text = items[j].text /\ p[j].source = items[j].source
        BY <1>5
    <2> QED
        BY <2>2, <2>3, <2>4
<1>15. ASSUME Len(items) <= MaxRecommendations, \A a \in ToSet(items) : a.priority >= 1
       PROVE  ToSet(r) = ToSet(items)
    <2>1. r = s
        BY <1>2, <1>12, <1>13, <1>15
    <2>2. \A k \in 1..n : p[k] = items[k]
        BY <1>1, <1>2, <1>5, <1>15
    <2>3. ToSet(items) = {items[k] : k \in 1..n}
        BY <1>2 DEF ToSet
    <2>4. Z = ToSet(items)
        BY <2>2, <2>3
    <2> QED
        BY <1>8, <2>1, <2>4
<1> QED
    BY <1>2, <1>9, <1>12, <1>13, <1>14, <1>15

LEMMA RecommendationsKept ==
    ASSUME NEW items, IsList(items), \A r \in ToSet(items) : IsAdvice(r)
    PROVE  /\ Len(Recommendations(items)) =
                IF Len(items) <= MaxRecommendations THEN Len(items) ELSE MaxRecommendations
           /\ DOMAIN Recommendations(items) = 1..Len(Recommendations(items))
           /\ \A k \in DOMAIN Recommendations(items) : \E r \in ToSet(items) :
                /\ Recommendations(items)[k].priority = k
                /\ Recommendations(items)[k].text = r.text
                /\ Recommendations(items)[k].source = r.source
           /\ (/\ Len(items) <= MaxRecommendations
               /\ \A r \in ToSet(items) : r.priority >= 1
               /\ \A k \in DOMAIN Ordered(items) : Ordered(items)[k].priority = k)
                => ToSet(Recommendations(items)) = ToSet(items)
<1>1. PICK o : o = Ordered(items)
    OBVIOUS
<1>2. PICK X : o \in Seq(X)
    BY <1>1, OrderedAdvice
<1>3. /\ Len(o) = IF Len(items) <= MaxRecommendations THEN Len(items) ELSE MaxRecommendations
      /\ \A k \in 1..Len(o) : \E r \in ToSet(items) :
            IsAdvice(o[k]) /\ o[k].text = r.text /\ o[k].source = r.source
      /\ Len(items) <= MaxRecommendations /\ (\A r \in ToSet(items) : r.priority >= 1)
            => ToSet(o) = ToSet(items)
    BY <1>1, OrderedAdvice
<1>4. Len(o) \in Nat /\ DOMAIN o = 1..Len(o)
    BY <1>2, LenProperties
<1>5. PICK c : c = Recommendations(items)
    OBVIOUS
<1>6. c = [k \in DOMAIN o |-> [o[k] EXCEPT !.priority = k]]
    BY <1>1, <1>5 DEF Recommendations
<1>7. DOMAIN c = 1..Len(o)
    BY <1>4, <1>6
<1>8. Len(c) = Len(o)
    <2>1. c \in [1..Len(o) -> {c[k] : k \in 1..Len(o)}]
        BY <1>4, <1>6, <1>7
    <2>2. PICK Y : c \in [1..Len(o) -> Y]
        BY <2>1
    <2>3. c \in Seq(Y)
        BY <1>4, <2>2, SeqDef
    <2>4. Len(c) \in Nat /\ DOMAIN c = 1..Len(c)
        BY <2>3, LenProperties
    <2> QED
        BY <1>4, <1>7, <2>4
<1>9. ASSUME NEW k \in 1..Len(o)
      PROVE  /\ c[k].priority = k /\ c[k].text = o[k].text /\ c[k].source = o[k].source
             /\ o[k].priority = k => c[k] = o[k]
    <2>1. IsAdvice(o[k])
        BY <1>3
    <2>2. PICK a : a = o[k]
        OBVIOUS
    <2>3. a = [text |-> a.text, type |-> a.type, priority |-> a.priority, source |-> a.source]
        BY <2>1, <2>2 DEF IsAdvice
    <2>4. c[k] = [a EXCEPT !.priority = k]
        BY <1>4, <1>6, <2>2
    <2>5. c[k] = [text |-> a.text, type |-> a.type, priority |-> k, source |-> a.source]
        BY <2>3, <2>4
    <2>6. a.priority = k => c[k] = a
        BY <2>3, <2>5
    <2> QED
        BY <2>2, <2>5, <2>6
<1>10. ASSUME NEW k \in DOMAIN c
       PROVE  \E r \in ToSet(items) :
                c[k].priority = k /\ c[k].text = r.text /\ c[k].source = r.source
    <2>1. k \in 1..Len(o)
        BY <1>7
    <2>2. PICK r \in ToSet(items) : o[k].text = r.text /\ o[k].source = r.source
        BY <1>3, <2>1
    <2> QED
        BY <1>9, <2>1, <2>2
<1>11. ASSUME Len(items) <= MaxRecommendations, \A r \in ToSet(items) : r.priority >= 1,
              \A k \in DOMAIN o : o[k].priority = k
       PROVE  ToSet(c) = ToSet(items)
    <2>1. \A k \in DOMAIN c : c[k] = o[k]
        BY <1>4, <1>7, <1>9, <1>11
    <2>2. ToSet(c) = ToSet(o)
        BY <1>4, <1>7, <2>1 DEF ToSet
    <2> QED
        BY <1>3, <1>11, <2>2
<1> QED
    BY <1>1, <1>3, <1>5, <1>7, <1>8, <1>10, <1>11

(* What RepairsAccountForChanges says of an accepted answer. *)
TextsOf(s) == {item.text : item \in ToSet(s)}

Accounted(answer, output, names) ==
    /\ output.repairs \cap {"DEMOTED_TO_OBSERVED", "DEDUPED_RISK_FACTORS",
                            "TRUNCATED_RISK_FACTORS"} = {}
        => output.riskFactors = answer.riskFactors
    /\ "TRUNCATED_RISK_FACTORS" \notin output.repairs
        => WordsOf(output.riskFactors) = WordsOf(answer.riskFactors)
    /\ \A f \in ToSet(output.riskFactors) :
        f.source = "DETECTED" => f.text.names \cap names # {}
    /\ "TRUNCATED_ANALYSIS" \notin output.repairs => output.analysis = answer.analysis
    /\ output.repairs \cap {"TRUNCATED_RECOMMENDATIONS", "RENUMBERED_PRIORITY"} = {}
        => ToSet(output.recommendations) = ToSet(answer.recommendations)
    /\ TextsOf(output.recommendations) \subseteq TextsOf(answer.recommendations)
    /\ Len(output.riskFactors) <= MaxRiskFactors
    /\ Len(output.analysis) \in MinAnalysis..MaxAnalysis
    /\ Len(output.recommendations) \in MinRecommendations..MaxRecommendations

(* Which repairs validate lists. *)
LEMMA ListedRepairs ==
    ASSUME NEW answer, NEW names
    PROVE  /\ "DEMOTED_TO_OBSERVED" \notin Repairs(answer, names) =>
                \A k \in DOMAIN answer.riskFactors : ~Ungrounded(answer.riskFactors[k], names)
           /\ "DEDUPED_RISK_FACTORS" \notin Repairs(answer, names) =>
                ~(Len(Unique(answer.riskFactors)) < Len(answer.riskFactors))
           /\ "TRUNCATED_RISK_FACTORS" \notin Repairs(answer, names) =>
                ~(Len(Unique(answer.riskFactors)) > MaxRiskFactors)
           /\ "TRUNCATED_ANALYSIS" \notin Repairs(answer, names) =>
                ~(Len(answer.analysis) > MaxAnalysis)
           /\ "TRUNCATED_RECOMMENDATIONS" \notin Repairs(answer, names) =>
                ~(Len(answer.recommendations) > MaxRecommendations)
           /\ "RENUMBERED_PRIORITY" \notin Repairs(answer, names) =>
                /\ \A k \in DOMAIN answer.recommendations :
                        ~(answer.recommendations[k].priority < 1)
                /\ \A k \in DOMAIN Ordered(answer.recommendations) :
                        Ordered(answer.recommendations)[k].priority = k
<1> DEFINE When(fault, repair) == IF fault THEN {repair} ELSE {}
           A == \E k \in DOMAIN answer.riskFactors : Ungrounded(answer.riskFactors[k], names)
           B == Len(Unique(answer.riskFactors)) < Len(answer.riskFactors)
           C == Len(Unique(answer.riskFactors)) > MaxRiskFactors
           D == Len(answer.analysis) > MaxAnalysis
           E == Len(answer.recommendations) > MaxRecommendations
           F == \/ \E k \in DOMAIN answer.recommendations :
                        answer.recommendations[k].priority < 1
                \/ \E k \in DOMAIN Ordered(answer.recommendations) :
                        Ordered(answer.recommendations)[k].priority # k
<1>1. Repairs(answer, names) =
        ParseRepairs(answer)
        \cup When("petFitScore" \in answer.fields, "IGNORED_SCORE")
        \cup When(A, "DEMOTED_TO_OBSERVED")
        \cup When(B, "DEDUPED_RISK_FACTORS")
        \cup When(C, "TRUNCATED_RISK_FACTORS")
        \cup When(D, "TRUNCATED_ANALYSIS")
        \cup When(E, "TRUNCATED_RECOMMENDATIONS")
        \cup When(F, "RENUMBERED_PRIORITY")
    BY DEF Repairs
<1> HIDE DEF A, B, C, D, E, F
<1>2. /\ A => "DEMOTED_TO_OBSERVED" \in Repairs(answer, names)
      /\ B => "DEDUPED_RISK_FACTORS" \in Repairs(answer, names)
      /\ C => "TRUNCATED_RISK_FACTORS" \in Repairs(answer, names)
      /\ D => "TRUNCATED_ANALYSIS" \in Repairs(answer, names)
      /\ E => "TRUNCATED_RECOMMENDATIONS" \in Repairs(answer, names)
      /\ F => "RENUMBERED_PRIORITY" \in Repairs(answer, names)
    BY <1>1
<1> QED
    BY <1>2, Zenon DEF A, B, C, D, E, F

LEMMA AcceptedAccounted ==
    ASSUME NEW answer, IsAnswer(answer), NEW names, Validate(answer, names).ok
    PROVE  Accounted(answer, Validate(answer, names), names)
<1>1. PICK output : output = Validate(answer, names)
    OBVIOUS
<1>2. PICK factors, sentences, items, repairs :
        /\ factors = answer.riskFactors /\ sentences = answer.analysis
        /\ items = answer.recommendations /\ repairs = Repairs(answer, names)
    OBVIOUS
<1>3. Rejection(answer) = None
    <2> SUFFICES ASSUME Rejection(answer) # None PROVE FALSE
        OBVIOUS
    <2>1. Validate(answer, names) = [ok |-> FALSE, rejection |-> Rejection(answer)]
        BY DEF Validate
    <2> QED
        BY <2>1
<1>4. /\ output.riskFactors = RiskFactors(factors, names)
      /\ output.analysis = Cut(sentences, MaxAnalysis)
      /\ output.recommendations = Recommendations(items)
      /\ output.repairs = repairs
    <2>1. output = [ok |-> TRUE, riskFactors |-> RiskFactors(factors, names),
                    analysis |-> Cut(sentences, MaxAnalysis),
                    recommendations |-> Recommendations(items), repairs |-> repairs]
        BY <1>1, <1>2, <1>3 DEF Validate
    <2> QED
        BY <2>1
<1>5. PICK cutFactors, cutSentences, cutItems :
        /\ cutFactors = RiskFactors(factors, names)
        /\ cutSentences = Cut(sentences, MaxAnalysis)
        /\ cutItems = Recommendations(items)
    OBVIOUS
<1>6. IsFactors(factors) /\ IsList(sentences) /\ IsList(items)
    BY <1>2 DEF IsAnswer, IsFactors
<1>7. \A r \in ToSet(items) : IsAdvice(r)
    BY <1>2 DEF IsAnswer, IsAdvice
<1>8. PICK n \in Nat : n = Len(factors) /\ DOMAIN factors = 1..n
    BY <1>6, ListForm DEF IsFactors
<1>Y. PICK Y : sentences \in Seq(Y)
    BY <1>6 DEF IsList
<1>9. PICK m \in Nat : m = Len(sentences)
    BY <1>Y, LenProperties
<1>10. PICK l \in Nat : l = Len(items) /\ DOMAIN items = 1..l
    BY <1>6, ListForm
<1>11. /\ MaxRiskFactors \in Nat /\ MinAnalysis \in Nat /\ MaxAnalysis \in Nat
       /\ MinRecommendations \in Nat /\ MaxRecommendations \in Nat
       /\ MinAnalysis <= MaxAnalysis /\ MinRecommendations <= MaxRecommendations
    BY LimitsAssumption
<1>12. m >= MinAnalysis /\ l >= MinRecommendations
    BY <1>2, <1>3, <1>9, <1>10, AcceptedAnswer
<1>13. /\ \E X : cutFactors \in Seq(X)
       /\ Len(cutFactors) <= MaxRiskFactors
       /\ \A f \in ToSet(cutFactors) : f.source = "DETECTED" => f.text.names \cap names # {}
       /\ Len(Unique(factors)) <= MaxRiskFactors => WordsOf(cutFactors) = WordsOf(factors)
       /\ (/\ \A k \in DOMAIN factors : ~Ungrounded(factors[k], names)
           /\ Len(Unique(factors)) >= Len(factors)
           /\ Len(Unique(factors)) <= MaxRiskFactors)
            => cutFactors = factors
    BY <1>5, <1>6, RiskFactorsKept
<1>14. Len(Unique(factors)) \in Nat
    <2>1. PICK Z : Z = ToSet(factors)
        OBVIOUS
    <2>2. factors \in [1..n -> Z]
        BY <1>6, <1>8, <2>1, ListForm DEF IsFactors
    <2> QED
        BY <2>2, UniqueFactors
<1>15. /\ m <= MaxAnalysis => cutSentences = sentences
       /\ Len(cutSentences) = IF m <= MaxAnalysis THEN m ELSE MaxAnalysis
    BY <1>5, <1>9, <1>11, <1>Y, CutList
<1>16. /\ Len(cutItems) = IF l <= MaxRecommendations THEN l ELSE MaxRecommendations
       /\ DOMAIN cutItems = 1..Len(cutItems)
       /\ \A k \in DOMAIN cutItems : \E r \in ToSet(items) : cutItems[k].text = r.text
       /\ (/\ l <= MaxRecommendations
           /\ \A r \in ToSet(items) : r.priority >= 1
           /\ \A k \in DOMAIN Ordered(items) : Ordered(items)[k].priority = k)
            => ToSet(cutItems) = ToSet(items)
    BY <1>5, <1>6, <1>7, <1>10, RecommendationsKept
<1>17. /\ "DEMOTED_TO_OBSERVED" \notin repairs =>
                \A k \in DOMAIN factors : ~Ungrounded(factors[k], names)
       /\ "DEDUPED_RISK_FACTORS" \notin repairs => Len(Unique(factors)) >= Len(factors)
       /\ "TRUNCATED_RISK_FACTORS" \notin repairs => Len(Unique(factors)) <= MaxRiskFactors
       /\ "TRUNCATED_ANALYSIS" \notin repairs => m <= MaxAnalysis
       /\ "TRUNCATED_RECOMMENDATIONS" \notin repairs => l <= MaxRecommendations
       /\ "RENUMBERED_PRIORITY" \notin repairs =>
                /\ \A k \in DOMAIN items : ~(items[k].priority < 1)
                /\ \A k \in DOMAIN Ordered(items) : Ordered(items)[k].priority = k
    <2>1. /\ "DEMOTED_TO_OBSERVED" \notin repairs =>
                \A k \in DOMAIN factors : ~Ungrounded(factors[k], names)
          /\ "DEDUPED_RISK_FACTORS" \notin repairs => ~(Len(Unique(factors)) < Len(factors))
          /\ "TRUNCATED_RISK_FACTORS" \notin repairs => ~(Len(Unique(factors)) > MaxRiskFactors)
          /\ "TRUNCATED_ANALYSIS" \notin repairs => ~(Len(sentences) > MaxAnalysis)
          /\ "TRUNCATED_RECOMMENDATIONS" \notin repairs => ~(Len(items) > MaxRecommendations)
          /\ "RENUMBERED_PRIORITY" \notin repairs =>
                /\ \A k \in DOMAIN items : ~(items[k].priority < 1)
                /\ \A k \in DOMAIN Ordered(items) : Ordered(items)[k].priority = k
        BY <1>2, ListedRepairs, Zenon
    <2>2. /\ ~(Len(Unique(factors)) < Len(factors)) => Len(Unique(factors)) >= Len(factors)
          /\ ~(Len(Unique(factors)) > MaxRiskFactors) => Len(Unique(factors)) <= MaxRiskFactors
          /\ ~(Len(sentences) > MaxAnalysis) => m <= MaxAnalysis
          /\ ~(Len(items) > MaxRecommendations) => l <= MaxRecommendations
        BY <1>8, <1>9, <1>10, <1>11, <1>14
    <2> QED
        BY <2>1, <2>2, Zenon
<1>18. "RENUMBERED_PRIORITY" \notin repairs => \A r \in ToSet(items) : r.priority >= 1
    <2> SUFFICES ASSUME "RENUMBERED_PRIORITY" \notin repairs, NEW r \in ToSet(items)
                 PROVE  r.priority >= 1
        OBVIOUS
    <2>1. PICK k \in 1..l : r = items[k]
        BY <1>10 DEF ToSet
    <2>2. ~(r.priority < 1)
        BY <1>10, <1>17, <2>1
    <2>3. PICK p : p = r.priority
        OBVIOUS
    <2>4. p \in Nat
        BY <1>7, <2>3 DEF IsAdvice
    <2> QED
        BY <2>2, <2>3, <2>4
<1>19. TextsOf(cutItems) \subseteq TextsOf(items)
    <2>1. ASSUME NEW t \in TextsOf(cutItems) PROVE t \in TextsOf(items)
        <3>1. PICK k \in DOMAIN cutItems : t = cutItems[k].text
            BY DEF TextsOf, ToSet
        <3>2. PICK r \in ToSet(items) : cutItems[k].text = r.text
            BY <1>16
        <3> QED
            BY <3>1, <3>2 DEF TextsOf
    <2> QED
        BY <2>1
<1>20. repairs \cap {"DEMOTED_TO_OBSERVED", "DEDUPED_RISK_FACTORS",
                     "TRUNCATED_RISK_FACTORS"} = {} => cutFactors = factors
    BY <1>13, <1>17
<1>21. "TRUNCATED_RISK_FACTORS" \notin repairs => WordsOf(cutFactors) = WordsOf(factors)
    BY <1>13, <1>17
<1>22. "TRUNCATED_ANALYSIS" \notin repairs => cutSentences = sentences
    BY <1>15, <1>17
<1>23. repairs \cap {"TRUNCATED_RECOMMENDATIONS", "RENUMBERED_PRIORITY"} = {}
            => ToSet(cutItems) = ToSet(items)
    BY <1>16, <1>17, <1>18
<1>24. Len(cutSentences) \in MinAnalysis..MaxAnalysis
    BY <1>11, <1>12, <1>15
<1>25. Len(cutItems) \in MinRecommendations..MaxRecommendations
    BY <1>11, <1>12, <1>16
<1>26. Accounted(answer, output, names)
    <2>1. /\ output.riskFactors = cutFactors /\ output.analysis = cutSentences
          /\ output.recommendations = cutItems /\ output.repairs = repairs
        BY <1>4, <1>5
    <2> QED
        BY <1>2, <1>13, <1>19, <1>20, <1>21, <1>22, <1>23, <1>24, <1>25, <2>1 DEF Accounted
<1> QED
    BY <1>1, <1>26

-----------------------------------------------------------------------------
(* The text that is kept is what validate makes of one of the answers.     *)
AnswerInv ==
    /\ world \in DOMAIN Worlds
    /\ {"answer", "output", "prompt"} \subseteq DOMAIN report
    /\ report.output # None =>
        /\ stage \in {"saving", "completed", "refused"}
        /\ report.answer \in Here.answers
        /\ report.output = Validate(report.answer, DetectedNames)
        /\ report.output.ok

LEMMA AnswerInitInv == Init => AnswerInv
BY DEF Init, AnswerInv

LEMMA AnswerNextInv == AnswerInv /\ [Next]_vars => AnswerInv'
<1> SUFFICES ASSUME AnswerInv, [Next]_vars PROVE AnswerInv'
    OBVIOUS
<1> USE DEF AnswerInv
<1>1. CASE Request \/ ExtractFrames \/ DetectObjects \/ TrackObjects \/ SelectFrame \/ MarkRisks
           \/ GiveUp
    <2>1. /\ UNCHANGED <<world, report>>
          /\ stage \notin {"saving", "completed", "refused"}
        BY <1>1 DEF Request, ExtractFrames, DetectObjects, TrackObjects, SelectFrame, MarkRisks,
                    GiveUp
    <2>2. report.output = None
        BY <2>1
    <2> QED
        BY <2>1, <2>2
<1>2. CASE CalculateScore
    <2>1. /\ UNCHANGED world /\ DOMAIN report' = DOMAIN report
          /\ report'.output = report.output /\ stage = "score_calculation"
          /\ stage' = "environment_analysis"
        BY <1>2 DEF CalculateScore
    <2> QED
        BY <2>1
<1>3. CASE AskModel
    <2>1. PICK prompt : report' = [report EXCEPT !.prompt = prompt]
        BY <1>3 DEF AskModel
    <2>2. /\ UNCHANGED <<world, stage>> /\ DOMAIN report' = DOMAIN report
          /\ report'.output = report.output /\ stage = "environment_analysis"
        BY <1>3, <2>1 DEF AskModel
    <2> QED
        BY <2>2
<1>4. CASE ModelAnswers
    <2>1. /\ UNCHANGED <<world, vision>> /\ stage = "environment_analysis"
          /\ report.output = None
        BY <1>4 DEF ModelAnswers
    <2>2. PICK answer \in Here.answers :
            LET output == Validate(answer, DetectedNames)
            IN IF output.ok
               THEN /\ report' = [report EXCEPT !.answer = answer, !.output = output]
                    /\ stage' = "saving"
               ELSE /\ report' = [report EXCEPT !.prompt.retry = output.rejection]
                    /\ stage' = stage
        BY <1>4 DEF ModelAnswers
    <2>3. PICK output : output = Validate(answer, DetectedNames)
        OBVIOUS
    <2>4. DetectedNames' = DetectedNames /\ Here' = Here
        BY <2>1 DEF DetectedNames, Here
    <2>5. CASE output.ok
        <3>1. report' = [report EXCEPT !.answer = answer, !.output = output] /\ stage' = "saving"
            BY <2>2, <2>3, <2>5
        <3>2. /\ DOMAIN report' = DOMAIN report /\ report'.answer = answer
              /\ report'.output = output
            BY <3>1
        <3> QED
            BY <2>1, <2>3, <2>4, <2>5, <3>1, <3>2
    <2>6. CASE ~output.ok
        <3>1. report' = [report EXCEPT !.prompt.retry = output.rejection] /\ stage' = stage
            BY <2>2, <2>3, <2>6
        <3>2. DOMAIN report' = DOMAIN report /\ report'.output = report.output
            BY <3>1
        <3> QED
            BY <2>1, <3>1, <3>2
    <2> QED
        BY <2>5, <2>6
<1>5. CASE SaveResult
    <2>1. UNCHANGED <<world, vision, report>> /\ stage' \in {"completed", "refused"}
        BY <1>5 DEF SaveResult
    <2>2. DetectedNames' = DetectedNames /\ Here' = Here
        BY <2>1 DEF DetectedNames, Here
    <2> QED
        BY <2>1, <2>2
<1>6. CASE ShowResult \/ OpenHistory \/ NextPage \/ UNCHANGED vars
    <2>1. UNCHANGED <<world, vision, report, stage>>
        BY <1>6 DEF ShowResult, OpenHistory, NextPage, vars
    <2>2. DetectedNames' = DetectedNames /\ Here' = Here
        BY <2>1 DEF DetectedNames, Here
    <2> QED
        BY <2>1, <2>2
<1> QED
    BY <1>1, <1>2, <1>3, <1>4, <1>5, <1>6 DEF Next

LEMMA AnswerIsAccounted == AnswerInv => RepairsAccountForChanges
<1> SUFFICES ASSUME AnswerInv, report.output # None
             PROVE  Accounted(report.answer, report.output, DetectedNames)
    BY Zenon DEF RepairsAccountForChanges, Accounted, WordsOf, TextsOf
<1>1. IsAnswer(report.answer)
    BY AnswerAssumption DEF AnswerInv, Here
<1> QED
    BY <1>1, AcceptedAccounted DEF AnswerInv

(* validate: what is changed in an answer is listed as a repair, and what  *)
(* is kept is within the limits, for every answer, limits and objects.     *)
THEOREM ChangesAreRepairs == Spec => []RepairsAccountForChanges
BY AnswerInitInv, AnswerNextInv, AnswerIsAccounted, PTL DEF Spec
=============================================================================
