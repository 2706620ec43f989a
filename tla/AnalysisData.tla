---------------------------- MODULE AnalysisData ----------------------------
(***************************************************************************)
(* One analysis from the request to the response, as the data that is      *)
(* handed on: AnalysisPipeline.run with VisionPipeline.run inside, the     *)
(* save of mark_completed, the two responses.                              *)
(*                                                                         *)
(* What the program does not decide (the video, what the detector finds,   *)
(* what the model answers, the table) comes from a world, one of Worlds;   *)
(* a world varies one of these and keeps the others few.                   *)
(***************************************************************************)
EXTENDS Imaging, Scoring, FrameSampling, ResponseValidation, Responses

CONSTANTS
    VideoMin, VideoMax,   \* legal duration of a video, in milliseconds
    Worlds                \* by name: what each input may be

\* Of an analysis a list needs when it was created; rows are numbered, some may have been
\* deleted.
IsTable(table) ==
    /\ IsFiniteSet(DOMAIN table)
    /\ \A id \in DOMAIN table : id \in Int /\ table[id].created \in Int

AtPage(query, p) ==
    [device |-> query.device, page |-> p, size |-> query.size, status |-> query.status]

IsQuery(query) ==
    /\ query = AtPage(query, query.page)
    /\ query.page \in Int /\ query.size \in Int

\* A decoder yields frames with a time each, in whatever order; a detector a row for each.
IsVideo(video) == video.duration \in Nat /\ video.times \in Seq(Int)

IsList(s) == s \in Seq(ToSet(s))

\* The corners of a box may lie anywhere; a confidence is a probability, of five decimals.
Certain == 100000

IsResult(result) ==
    /\ result.confidence \in 0..Certain
    /\ {result.box.x, result.box.y, result.box.width, result.box.height} \subseteq Int

IsScene(scene) ==
    /\ IsList(scene)
    /\ \A f \in DOMAIN scene : IsList(scene[f]) /\ \A r \in ToSet(scene[f]) : IsResult(r)

\* What the JSON of an answer is read as; a priority that cannot be used is 0.
IsAnswer(answer) ==
    /\ IsList(answer.riskFactors) /\ IsList(answer.analysis) /\ IsList(answer.recommendations)
    /\ \A f \in ToSet(answer.riskFactors) : f = [text |-> f.text, source |-> f.source]
    /\ \A r \in ToSet(answer.recommendations) :
        /\ r = [text |-> r.text, type |-> r.type, priority |-> r.priority, source |-> r.source]
        /\ r.priority \in Nat
        /\ r.source \in {None, "DETECTED", "OBSERVED"}

ASSUME AnswerAssumption ==
    /\ None \notin {"NOT_JSON", "MISSING_FIELD", "BAD_SHAPE", "BAD_SOURCE", "BAD_TYPE",
                    "TOO_FEW_ANALYSIS", "NO_RECOMMENDATION"}
    /\ \A name \in DOMAIN Worlds : \A answer \in Worlds[name].answers : IsAnswer(answer)

ASSUME VideoAssumption ==
    \A name \in DOMAIN Worlds :
        /\ \A video \in Worlds[name].videos : IsVideo(video)
        /\ \A scene \in Worlds[name].scenes : IsScene(scene)

\* An error has a code.
ASSUME RequestAssumption ==
    None \notin {"DEVICE_ID_REQUIRED", "DEVICE_ID_INVALID", "ANIMAL_GROUP_REQUIRED",
                 "ANIMAL_GROUP_UNSUPPORTED", "SPACE_TYPE_REQUIRED", "SPACE_TYPE_INVALID",
                 "VIDEO_DURATION_INVALID"}

\* FastAPI has parsed page and size to integers, whatever they are; a date is comparable.
ASSUME HistoryAssumption ==
    /\ None \notin {"PAGE_INVALID", "SIZE_INVALID", "STATUS_INVALID"}
    /\ \A name \in DOMAIN Worlds :
        /\ \A table \in Worlds[name].tables : IsTable(table)
        /\ \A query \in Worlds[name].queries : IsQuery(query)

VARIABLES
    world,     \* the name of the world
    stage,     \* what happens next to the analysis, or how it has ended
    input,     \* the request
    vision,    \* what stages 1 to 10 have found
    report,    \* the score, what the text model was asked and what came of it
    row,       \* what is saved, None before
    shown,     \* the response with the result
    listing    \* the pages of a history a client has read, and its query

vars == <<world, stage, input, vision, report, row, shown, listing>>

Here == Worlds[world]

Init ==
    /\ world \in DOMAIN Worlds
    /\ stage = "request"
    /\ input = [form |-> None, video |-> None, error |-> None]
    /\ vision = [frames |-> <<>>, rows |-> <<>>, tracker |-> None, occupancy |-> 0,
                 objects |-> <<>>, thumbnail |-> None, detected |-> <<>>, kept |-> <<>>]
    /\ report = [score |-> None, prompt |-> None, answer |-> None, output |-> None]
    /\ row = None
    /\ shown = None
    /\ listing = None

\* The header is checked before the form, the form before the video is stored and measured.
RequestError(device, form, video) ==
    FirstOf(<<DeviceError(device), FormError(form),
              IF video.duration \in VideoMin..VideoMax THEN None
              ELSE "VIDEO_DURATION_INVALID">>)

Request ==
    /\ stage = "request" /\ listing = None
    /\ \E device \in Here.devices, form \in Here.forms, video \in Here.videos :
        /\ input' = [form |-> form, video |-> video,
                     error |-> RequestError(device, form, video)]
        /\ stage' = IF input'.error = None THEN "frame_extraction" ELSE "rejected"
    /\ UNCHANGED <<world, vision, report, row, shown, listing>>
-----------------------------------------------------------------------------
ExtractFrames ==
    /\ stage = "frame_extraction"
    /\ vision' = [vision EXCEPT !.frames = Extract(input.video)]
    /\ stage' = IF TooFew(vision'.frames) THEN "failed" ELSE "object_detection"
    /\ UNCHANGED <<world, input, report, row, shown, listing>>

\* _detect and _check_alignment: the detector must return a row for each frame.
DetectObjects ==
    /\ stage = "object_detection"
    /\ \E scene \in Here.scenes :
        /\ vision' = [vision EXCEPT !.rows = Detect(scene)]
        /\ stage' = IF Len(scene) = Len(vision.frames) THEN "object_tracking" ELSE "failed"
    /\ UNCHANGED <<world, input, report, row, shown, listing>>

\* The share of the floor is taken before tracking gives up the frames.
TrackObjects ==
    /\ stage = "object_tracking"
    /\ \E tracker \in Here.trackers :
        vision' = [vision EXCEPT
            !.tracker = tracker,
            !.occupancy = OccupancyRatio(vision.rows),
            !.objects = Adopt(IF tracker = "iou" THEN IouTrack(vision.rows)
                              ELSE TrackIdTrack(vision.rows))]
    /\ stage' = "frame_selection"
    /\ UNCHANGED <<world, input, report, row, shown, listing>>

SelectFrame ==
    /\ stage = "frame_selection"
    /\ vision' = [vision EXCEPT !.thumbnail =
            SelectAnalysisFrame(vision.rows, {o.class : o \in ToSet(vision.objects)})]
    /\ stage' = "risk_marking"
    /\ UNCHANGED <<world, input, report, row, shown, listing>>

MarkRisks ==
    /\ stage = "risk_marking"
    /\ LET frames == DOMAIN vision.frames
           detected == Mark(vision.objects, input.form.group, frames)
       IN vision' = [vision EXCEPT
            !.detected = detected,
            !.kept = FramesForAnalysis(vision.thumbnail, detected, frames)]
    /\ stage' = "score_calculation"
    /\ UNCHANGED <<world, input, report, row, shown, listing>>

DetectedNames == {o.name : o \in ToSet(vision.detected)}

Score == Generate(input.form.group, input.form.space, DetectedNames, vision.occupancy)

CalculateScore ==
    /\ stage = "score_calculation"
    /\ report' = [report EXCEPT !.score = Score]
    /\ stage' = "environment_analysis"
    /\ UNCHANGED <<world, input, vision, row, shown, listing>>
-----------------------------------------------------------------------------
\* _ordered: the objects as the text model is told of them.
PromptObjects(detected) ==
    LET ordered == SortedBy(detected, LAMBDA o :
                        <<-Rank[o.risk], -o.confidence, NameOrder(o.name), o.frame>>)
    IN [k \in DOMAIN ordered |-> [name |-> ordered[k].name, risk |-> ordered[k].risk]]

\* build, with the images that could be encoded; without any, nothing can be observed.
PromptFor(encoded, retry) ==
    LET frames == SelectAnalysisFrames(vision.thumbnail, vision.detected)
    IN [objects |-> PromptObjects(vision.detected), occupancy |-> vision.occupancy,
        score |-> report.score, frames |-> frames,
        images |-> Filter(frames, LAMBDA n : n \in encoded),
        observing |-> ToSet(frames) \cap encoded # {}, retry |-> retry]

AskModel ==
    /\ stage = "environment_analysis" /\ report.prompt = None
    /\ \E works \in Here.encodes :
        report' = [report EXCEPT
            !.prompt = PromptFor(IF works THEN ToSet(vision.kept) ELSE {}, None)]
    /\ UNCHANGED <<world, stage, input, vision, row, shown, listing>>

\* An answer that is rejected is asked for again, with the reason.
ModelAnswers ==
    /\ stage = "environment_analysis" /\ report.prompt # None
    /\ \E answer \in Here.answers :
        LET output == Validate(answer, DetectedNames)
        IN IF output.ok
           THEN /\ report' = [report EXCEPT !.answer = answer, !.output = output]
                /\ stage' = "saving"
           ELSE /\ report' = [report EXCEPT !.prompt.retry = output.rejection]
                /\ stage' = stage
    /\ UNCHANGED <<world, input, vision, row, shown, listing>>

\* When and how often is EnvironmentAnalysis.
GiveUp ==
    /\ stage = "environment_analysis" /\ report.prompt # None
    /\ report.prompt.retry # None
    /\ stage' = "failed"
    /\ UNCHANGED <<world, input, vision, report, row, shown, listing>>
-----------------------------------------------------------------------------
\* The columns of NUMERIC(5,4) are rounded one by one.
ObjectRow(o) ==
    LET Column(side) == Normalize(Ratio(side, Grid))
    IN [o EXCEPT !.confidence = RoundHalfUp(@, 10),
                 !.box = [x |-> Column(@.x), y |-> Column(@.y),
                          width |-> Column(@.width), height |-> Column(@.height)]]

ResultRow ==
    [score |-> Score, occupancy |-> vision.occupancy, frames |-> Len(vision.frames),
     duration |-> input.video.duration,
     objects |-> [k \in DOMAIN vision.detected |-> ObjectRow(vision.detected[k])],
     riskFactors |-> report.output.riskFactors, analysis |-> report.output.analysis,
     recommendations |-> report.output.recommendations]

\* ck_detected_object_bounds is about the rounded columns.
InBounds(o) == Right(o.box) <= 10000 /\ Bottom(o.box) <= 10000

\* The other constraints of detected_object.
ObjectChecks(o) ==
    /\ o.risk \in DOMAIN Rank
    /\ o.confidence \in 0..10000
    /\ o.frames >= 1 /\ o.frame >= 1
    /\ {o.box.x, o.box.y} \subseteq 0..10000
    /\ {o.box.width, o.box.height} \subseteq 1..10000
    /\ o.risk = "SAFE" => ~o.marked

RecommendationChecks(items) ==
    /\ \A r \in ToSet(items) : r.priority >= 1 /\ r.source \in {"DETECTED", "OBSERVED"}
    /\ \A j, k \in DOMAIN items : items[j].priority = items[k].priority => j = k

\* The constraints of analysis over the columns of a result.
ResultChecks(r) ==
    /\ r.duration \in VideoMin..VideoMax
    /\ r.frames \in FrameMin..FrameMax
    /\ r.occupancy \in 0..10000
    /\ \A c \in DOMAIN r.score : r.score[c] \in 0..100

Accepted(r) ==
    /\ ResultChecks(r)
    /\ RecommendationChecks(r.recommendations)
    /\ \A o \in ToSet(r.objects) : ObjectChecks(o) /\ InBounds(o)

\* A refused save loses the whole result.
SaveResult ==
    /\ stage = "saving"
    /\ row' = ResultRow
    /\ stage' = IF Accepted(ResultRow) THEN "completed" ELSE "refused"
    /\ UNCHANGED <<world, input, vision, report, shown, listing>>

ShowResult ==
    /\ stage = "completed" /\ shown = None
    /\ shown' = Detail(row)
    /\ UNCHANGED <<world, stage, input, vision, report, row, listing>>
-----------------------------------------------------------------------------
OpenHistory ==
    /\ stage = "request" /\ listing = None
    /\ \E table \in Here.tables, query \in Here.queries :
        LET error == QueryError(query)
        IN listing' = [table |-> table, query |-> query, error |-> error,
                       pages |-> IF error = None THEN <<AnalysisList(table, query)>> ELSE <<>>]
    /\ UNCHANGED <<world, stage, input, vision, report, row, shown>>

HasNext == listing # None /\ listing.pages # <<>> /\ Last(listing.pages).pagination.hasNext

\* The client asks for the page after the one it has; the table does not change meanwhile.
NextPage ==
    /\ HasNext
    /\ LET query == [listing.query EXCEPT !.page = @ + 1]
       IN listing' = [listing EXCEPT !.query = query,
                                     !.pages = Append(@, AnalysisList(listing.table, query))]
    /\ UNCHANGED <<world, stage, input, vision, report, row, shown>>

Next ==
    \/ Request \/ ExtractFrames \/ DetectObjects \/ TrackObjects \/ SelectFrame
    \/ MarkRisks \/ CalculateScore \/ AskModel \/ ModelAnswers \/ GiveUp
    \/ SaveResult \/ ShowResult \/ OpenHistory \/ NextPage

Spec == Init /\ [][Next]_vars
-----------------------------------------------------------------------------
\* Each moment is served by the first decoded frame at or after it, a frame that serves
\* several counts once (_collect); an analysis goes on with FrameMin..FrameMax frames, and
\* no other has been cut off (extract).
FramesUsedOnce ==
    stage \notin {"request", "rejected", "frame_extraction"} =>
        LET video == input.video
            count == TargetFrameCount(video.duration)
            At(i) == {k \in DOMAIN video.times : Reached(i, video.duration, count, video.times[k])}
            served == {Min(At(i)) : i \in {j \in 1..count : At(j) # {}}}
        IN /\ ToSet(vision.frames) = served
           /\ \A j, k \in DOMAIN vision.frames : j < k => vision.frames[j] < vision.frames[k]
           /\ Len(vision.frames) <= FrameMax
           /\ stage # "failed" => Len(vision.frames) >= FrameMin
           /\ Cardinality(served) >= FrameMin /\ stage = "failed" =>
                Len(vision.rows) # Len(vision.frames) \/ report.prompt # None

\* The units of the frame that some box covers.
CoveredUnits(boxes) ==
    {p \in (0..(Grid - 1)) \X (0..(Grid - 1)) :
        \E b \in boxes : b.x <= p[1] /\ p[1] < Right(b) /\ b.y <= p[2] /\ p[2] < Bottom(b)}

\* The area of a union is the number of units that are covered: the grid of union_area counts
\* overlapping boxes once and gaps between them never, and the occupancy is a share.
UnionAreaExact ==
    stage = "frame_selection" =>
        /\ \A f \in DOMAIN vision.rows :
            LET boxes == {d.box : d \in ToSet(vision.rows[f])}
            IN /\ UnionArea(boxes) = Cardinality(CoveredUnits(boxes))
               /\ FrameArea(vision.rows[f]) = UnionArea(boxes)
        /\ vision.occupancy \in 0..10000

\* Of the tracks after each frame: each detection is in one of the last.
EachInOne(rows, tracks) ==
    LET found == FlattenSeq([t \in DOMAIN tracks |-> tracks[t].detections])
        seen == FlattenSeq(rows)
        Count(d, s) == Cardinality({k \in DOMAIN s : s[k] = d})
    IN /\ \A d \in ToSet(found) \cup ToSet(seen) : Count(d, found) = Count(d, seen)
       /\ \A track \in ToSet(tracks) : \A j, k \in DOMAIN track.detections :
            /\ track.detections[j].class = track.class
            /\ j < k => track.detections[j].frame < track.detections[k].frame

\* A track that a box overlaps has gone on, and no further away than to the box.
WentOnCloser(before, after, box) ==
    /\ Len(after.detections) > Len(before.detections)
    /\ ~Greater(Iou(LastBox(before), box), Iou(LastBox(before), LastBox(after)))

StartsOnlyWhereTaken(before, after) ==
    \A k \in DOMAIN after \ DOMAIN before, t \in DOMAIN before :
        /\ before[t].class = after[k].class
        /\ Normalize(Iou(LastBox(before[t]), LastBox(after[k]))) >= TrackingIouThreshold
        => WentOnCloser(before[t], after[t], LastBox(after[k]))

\* IouTracker: each detection is in one track, a track has one detection of a frame, and a
\* detection starts a track only where every track it overlaps went to a closer one.
EachDetectionOnce ==
    stage = "frame_selection" /\ vision.tracker = "iou" =>
        /\ EachInOne(vision.rows, IouTracks(vision.rows))
        /\ \A f \in DOMAIN vision.rows :
            StartsOnlyWhereTaken(IouTracks(SubSeq(vision.rows, 1, f - 1)),
                                 IouTracks(SubSeq(vision.rows, 1, f)))

\* _assign takes the closest pairs first: where no two overlaps are equal, the order in which
\* the detector lists what it sees in a frame makes no difference to the objects.
OrderIrrelevant ==
    stage = "frame_selection" /\ vision.tracker = "iou" =>
        LET rows == vision.rows
            reversed == [f \in DOMAIN rows |-> Reverse(rows[f])]
            boxes(f) == [k \in DOMAIN rows[f] |-> rows[f][k].box]
            tied == \E f \in 2..Len(rows) :
                        LET tracks == IouTracks(SubSeq(rows, 1, f - 1))
                            pairs == (DOMAIN tracks) \X (DOMAIN rows[f])
                            Overlap(p) == Iou(LastBox(tracks[p[1]]), rows[f][p[2]].box)
                        IN \E p, q \in pairs :
                            /\ p # q /\ Overlap(p).num > 0
                            /\ ~Greater(Overlap(p), Overlap(q)) /\ ~Greater(Overlap(q), Overlap(p))
        IN ~tied => ToSet(IouTrack(rows)) = ToSet(IouTrack(reversed))
-----------------------------------------------------------------------------
\* The frames that build asks for are among those Vision has kept, the thumbnail's first, so
\* that no image is missing in silence; the score that is stored is the one the text was
\* written for, though mark_completed computes it again.
ModelSeesTheResult ==
    report.prompt # None =>
        LET frames == report.prompt.frames
        IN /\ ToSet(frames) \subseteq ToSet(vision.kept)
           /\ ToSet(vision.kept) \subseteq DOMAIN vision.frames
           /\ frames[1] = vision.thumbnail
           /\ Len(frames) <= LlmMaxImages /\ IsInjective(frames)
           /\ report.prompt.observing <=> report.prompt.images # <<>>
           /\ row # None => row.score = report.prompt.score

\* How an object is shown against the scores of the room with and without it.
Consistent(o, with, without) ==
    /\ o.marked <=> o.risk # "SAFE"
    /\ o.marked <=> with.safety < without.safety
    /\ \A c \in Categories \ {"safety"} : with[c] >= without[c]

\* What is shown as dangerous, and drawn, is what the score counts against the room: without
\* it the room would be safer, while nothing else costs a point by being there.
MarkedIffCostly ==
    shown # None =>
        LET objects == shown.objects
            Rating(names) ==
                Generate(input.form.group, input.form.space, names, row.occupancy)
        IN /\ \A o \in ToSet(objects) :
                Consistent(o, Rating(DetectedNames), Rating(DetectedNames \ {o.name}))
           /\ \A j, k \in DOMAIN objects : j < k => Rank[objects[j].risk] >= Rank[objects[k].risk]

\* A room that the code or its tests describe together with its score.
Example(group, space, names, risky, occupancy, score) ==
    [group |-> group, space |-> space, names |-> names, risky |-> risky,
     occupancy |-> occupancy, score |-> score]

\* FEW_SHOTS in prompts.py.
FewShots == {
    Example("cat", "living_room",
            {"window", "cat_tower", "sofa", "carpet", "feeder", "water_dispenser"},
            [window |-> "HIGH"], 3500,
            [total |-> 75, safety |-> 57, activity |-> 100, rest |-> 60, environment |-> 100]),
    Example("small_dog", "living_room", {"cable", "sofa", "water_dispenser"},
            [cable |-> "HIGH"], 4500,
            [total |-> 50, safety |-> 50, activity |-> 40, rest |-> 60, environment |-> 50]),
    Example("large_dog", "living_room", {"sofa", "carpet", "feeder"},
            <<>>, 3000,
            [total |-> 78, safety |-> 100, activity |-> 75, rest |-> 60, environment |-> 50])}

\* The fixture of stub.py, scored for a small dog in a space.
StubRoom(space, score) ==
    Example("small_dog", space, {"cable", "window", "carpet", "sofa", "water_dispenser"},
            [cable |-> "HIGH", window |-> "LOW"], 3500, score)

\* The scores its tests expect of it.
StubRooms == {
    StubRoom("living_room",
        [total |-> 56, safety |-> 50, activity |-> 67, rest |-> 60, environment |-> 50]),
    StubRoom("bedroom",
        [total |-> 64, safety |-> 50, activity |-> 67, rest |-> 60, environment |-> 100]),
    StubRoom("balcony",
        [total |-> 73, safety |-> 33, activity |-> 100, rest |-> 100, environment |-> 100])}

Examples == FewShots \cup StubRooms

\* The scores that FEW_SHOTS tells the text model, and those that the comment and the tests
\* expect of the stub's room, are computed by the rules: a room like an example has the
\* example's score and risks.
ExamplesFollowRules ==
    report.prompt # None =>
        \A e \in Examples :
            /\ input.form = [group |-> e.group, space |-> e.space]
            /\ DetectedNames = e.names
            /\ OccupancyPenalty(vision.occupancy) = OccupancyPenalty(e.occupancy)
            => /\ report.prompt.score = e.score
               /\ \A o \in ToSet(report.prompt.objects) :
                    o.risk = IF o.name \in DOMAIN e.risky THEN e.risky[o.name] ELSE "SAFE"
-----------------------------------------------------------------------------
\* The two columns of a side that ends at the edge are both rounded up.
Overruns(start, size) ==
    start + size = Grid /\ Normalize(Ratio(start, Grid)) + Normalize(Ratio(size, Grid)) = 10001

\* clamp_box keeps a side, however short, that is rounded to nothing.
Vanishes(size) == Normalize(Ratio(size, Grid)) = 0

\* What is saved fits the tables, but for two cases in which the save is refused: a box is one
\* unit too long at the right or the lower edge, or it has no width or no height.
ResultFitsTables ==
    row # None =>
        /\ ResultChecks(row)
        /\ RecommendationChecks(row.recommendations)
        /\ \A k \in DOMAIN row.objects :
            LET box == vision.detected[k].box
            IN /\ ObjectChecks(row.objects[k]) \/ Vanishes(box.width) \/ Vanishes(box.height)
               /\ ~InBounds(row.objects[k]) =>
                    Overruns(box.x, box.width) \/ Overruns(box.y, box.height)

\* validate changes nothing it does not list as a repair: without one, the factors and the
\* sentences are the model's own and the recommendations stand in their priorities; only a
\* listed truncation loses a risk, and what is left as detected names something detected.
RepairsAccountForChanges ==
    report.output # None =>
        LET answer == report.answer
            output == report.output
            Words(factors) == {f.text.words : f \in ToSet(factors)}
            Texts(s) == {item.text : item \in ToSet(s)}
        IN /\ output.repairs \cap {"DEMOTED_TO_OBSERVED", "DEDUPED_RISK_FACTORS",
                                   "TRUNCATED_RISK_FACTORS"} = {}
                => output.riskFactors = answer.riskFactors
           /\ "TRUNCATED_RISK_FACTORS" \notin output.repairs
                => Words(output.riskFactors) = Words(answer.riskFactors)
           /\ \A f \in ToSet(output.riskFactors) :
                f.source = "DETECTED" => f.text.names \cap DetectedNames # {}
           /\ "TRUNCATED_ANALYSIS" \notin output.repairs => output.analysis = answer.analysis
           /\ output.repairs \cap {"TRUNCATED_RECOMMENDATIONS", "RENUMBERED_PRIORITY"} = {}
                => ToSet(output.recommendations) = ToSet(answer.recommendations)
           /\ Texts(output.recommendations) \subseteq Texts(answer.recommendations)
           /\ Len(output.riskFactors) <= MaxRiskFactors
           /\ Len(output.analysis) \in MinAnalysis..MaxAnalysis
           /\ Len(output.recommendations) \in MinRecommendations..MaxRecommendations

\* A client that follows hasNext from the first page reads every analysis that matches its
\* query once, newest first, and no page beyond the last.
PagesPartition ==
    listing # None /\ listing.error = None =>
        LET pages == listing.pages
            read == FlattenSeq([k \in DOMAIN pages |->
                        [j \in DOMAIN pages[k].analyses |-> pages[k].analyses[j].id]])
            table == listing.table
            wanted == {id \in DOMAIN table :
                        /\ table[id].device = listing.query.device
                        /\ listing.query.status \in {None, table[id].status}}
        IN listing.query.page = Len(pages) =>
            /\ IsInjective(read) /\ ToSet(read) \subseteq wanted
            /\ ~HasNext => ToSet(read) = wanted
            /\ \A j, k \in DOMAIN read : j < k => table[read[j]].created >= table[read[k]].created
            /\ Len(pages) > 1 => Last(pages).analyses # <<>>
            /\ \A k \in DOMAIN pages : pages[k].pagination.totalCount = Cardinality(wanted)
=============================================================================
