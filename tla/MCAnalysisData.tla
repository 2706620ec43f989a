--------------------------- MODULE MCAnalysisData ---------------------------
(***************************************************************************)
(* The worlds of AnalysisData that TLC checks.  Each varies one input.     *)
(***************************************************************************)
EXTENDS AnalysisData

Form(group, space) == [group |-> group, space |-> space]
Box(x, y, width, height) == [x |-> x, y |-> y, width |-> width, height |-> height]
Result(raw, confidence, box, id) ==
    [raw |-> raw, confidence |-> confidence, box |-> box, id |-> id]
UpTo(n, set) == UNION {[1..k -> set] : k \in 0..n}

Text(words, spacing, names) == [words |-> words, spacing |-> spacing, names |-> names]
Factor(text, source) == [text |-> text, source |-> source]
Advice(text, type, priority, source) ==
    [text |-> text, type |-> type, priority |-> priority, source |-> source]
Answer(form, fields, lists, factors, analysis, recommendations) ==
    [form |-> form, fields |-> fields, lists |-> lists, riskFactors |-> factors,
     analysis |-> analysis, recommendations |-> recommendations]

Tidy == Text("tidy", 1, {})
CableText == Text("cable", 1, {"cable"})
SpacedCableText == Text("cable", 2, {"cable"})
Plant == Text("plant", 1, {})
TidyAdvice == Advice(Tidy, "SAFETY", 1, "DETECTED")
Plain(factors, analysis, recommendations) ==
    Answer("plain", Fields, TRUE, factors, analysis, recommendations)
Fine == Plain(<<>>, <<Tidy>>, <<TidyAdvice>>)

\* One video of three frames, at every second moment a frame, and one of two.
ThreeFrames == [duration |-> 1000, times |-> <<200, 500, 900>>]
TwoFrames == [duration |-> 400, times |-> <<100, 300>>]

\* What a world has unless it says otherwise.
Usual == [forms |-> {Form("cat", "living_room")}, devices |-> {"mine"}, videos |-> {TwoFrames},
          scenes |-> {<< <<>>, <<>> >>}, trackers |-> {"iou"}, encodes |-> {TRUE}, answers |-> {},
          tables |-> {}, queries |-> {}]
-----------------------------------------------------------------------------
Requests == [Usual EXCEPT
    !.forms = {Form(g, s) : g \in Groups \cup ReservedGroups \cup {None, Malformed},
                            s \in Spaces \cup {None, Malformed}},
    !.devices = {"mine", None, Malformed}]

Videos == [Usual EXCEPT
    !.videos = {[duration |-> d, times |-> Ascending(times)] :
                    d \in {200, 300, 500, 1000, 1500, 1600}, times \in SUBSET {100 + 200 * k : k \in 0..7}},
    !.scenes = {<<>>, << <<>>, <<>> >>, << <<>>, <<>>, <<>> >>}]

\* Up to two sofas in each of three frames: two boxes that move, one apart, one unsure.
Moving == [Usual EXCEPT
    !.videos = {ThreeFrames},
    !.scenes = LET sofas == {Result("couch", 90000, Box(4, 4, 12, 12), None),
                             Result("sofa", 80000, Box(8, 4, 12, 12), None),
                             Result("couch", 39996, Box(11, 4, 12, 12), None),
                             Result("sofa", 39994, Box(6, 7, 12, 12), None)}
                   rows == {r \in UpTo(2, sofas) : IsInjective(r)}
                   lone == UpTo(1, sofas)
               IN {<<a, b, c>> : a \in lone, b \in rows, c \in rows}
                  \cup {<<a, b, c>> : a \in rows, b \in rows, c \in lone}]

\* Up to four boxes that overlap, touch or lie within each other.
Overlapping == [Usual EXCEPT
    !.scenes =
        LET shapes == <<Box(4, 4, 8, 8), Box(8, 8, 8, 8), Box(4, 8, 12, 4), Box(12, 4, 8, 8),
                        Box(6, 6, 2, 2), Box(0, 0, 32, 5), Box(8, 4, 4, 16), Box(20, 20, 12, 12)>>
            Sight(chosen) ==
                LET order == Ascending(chosen)
                IN [k \in DOMAIN order |-> Result("sofa", 60000, shapes[order[k]], None)]
            few == {s \in SUBSET DOMAIN shapes : Cardinality(s) <= 4}
        IN {<<Sight(s), <<>> >> : s \in few}]

\* The identifiers of the library's tracker.
Identified == [Usual EXCEPT
    !.trackers = {"id"},
    !.scenes = LET results == {Result(raw, 60000, box, id) :
                                raw \in {"sofa", "bed"}, id \in {None, 1, 2},
                                box \in {Box(4, 4, 12, 12), Box(8, 4, 12, 12)}}
               IN [1..2 -> UpTo(1, results)]
                  \cup [1..2 -> {r \in [1..2 -> {x \in results : x.raw = "sofa"}] : r[1] # r[2]}]]

\* Rooms: every choice of objects for every animal in every space, and the examples' rooms
\* with more and with less furniture than the others.
Placeable == <<"cable", "window", "stairs", "carpet", "cat_tower", "sofa", "pet_bed",
               "feeder", "water_dispenser">>
RoomOf(objects, width) ==
    LET chosen == Ascending(objects)
        sight == [k \in DOMAIN chosen |->
                    Result(Placeable[chosen[k]], 50000 + 1000 * chosen[k],
                           Box(3 * chosen[k], 1, width, 30), k)]
    IN <<sight, sight>>
Rooms == [Usual EXCEPT
    !.forms = {Form(g, s) : g \in Groups, s \in Spaces},
    !.trackers = {"id"},
    !.scenes = {RoomOf(objects, 3) : objects \in SUBSET DOMAIN Placeable}
               \cup {RoomOf({k \in DOMAIN Placeable : Placeable[k] \in e.names}, width) :
                        e \in Examples, width \in {1, 5}},
    !.answers = {Fine}]

\* Boxes within, across and beyond the edges of the frame; results that are not kept.
Edges == [Usual EXCEPT
    !.scenes = LET Row(raw, confidence, box) == <<Result(raw, confidence, box, None)>>
               IN {<<sight, sight>> : sight \in
                    {Row("cable", 70000, Box(x, y, w, h)) :
                        x \in {-2, 0, 1, 5, 32}, y \in {0, 3}, w \in {2, 27, 31, 40}, h \in {4, 29}}
                    \cup {Row(raw, c, Box(1, 1, 8, 8)) :
                        raw \in {"person", None, "chair"}, c \in {24999, 25000, 39994, 39995}}},
    !.answers = {Fine}]

\* Whose images the text model is shown: objects in different frames, some of them dangerous.
Images == [Usual EXCEPT
    !.videos = {ThreeFrames},
    !.forms = {Form("cat", "living_room"), Form("small_dog", "living_room")},
    !.scenes = LET Seen(raw, at, sure, box) ==
                    [f \in 1..3 |-> <<Result(raw, IF f = at THEN sure ELSE 50000, box, None)>>]
                   Together(a, b, c) == [f \in 1..3 |-> a[f] \o b[f] \o c[f]]
               IN {Together(Seen("cable", i, p, Box(0, 0, 4, 4)),
                            Seen("window", j, 70000, Box(8, 0, 4, 4)),
                            Seen(third, k, q, Box(16, 0, 4, 4))) :
                        i, j, k \in 1..3, p, q \in {60000, 70000, 80000},
                        third \in {"sofa", "stairs", "window"}},
    !.encodes = BOOLEAN,
    !.answers = {Fine}]

\* Answers of the model about a room with a cable.
Answers == [Usual EXCEPT
    !.scenes = {RoomOf({1}, 3)},
    !.answers =
        LET factors == {Factor(t, s) : t \in {CableText, SpacedCableText, Plant},
                                       s \in {"DETECTED", "OBSERVED"}}
                       \cup {Factor(None, "DETECTED"), Factor(Plant, None)}
            items == {Advice(Tidy, "SAFETY", p, "DETECTED") : p \in 0..3}
                     \cup {Advice(Plant, "REST", p, "OBSERVED") : p \in 1..2}
                     \cup {Advice(None, "SAFETY", 1, "DETECTED"), Advice(Tidy, None, 1, "DETECTED"),
                           Advice(Tidy, "SAFETY", 1, None)}
        IN {Plain(f, <<Tidy>>, <<TidyAdvice>>) : f \in UpTo(3, factors)}
           \cup {Plain(<<>>, <<Tidy>>, r) : r \in UpTo(3, items)}
           \cup {Plain(<<>>, a, <<TidyAdvice>>) : a \in UpTo(3, {Tidy, Plant, None})}
           \cup {Answer(form, fields, lists, <<>>, <<Tidy>>, <<TidyAdvice>>) :
                    form \in {"plain", "fenced", "embedded", "broken"},
                    fields \in SUBSET (Fields \cup {"petFitScore"}), lists \in BOOLEAN}]

\* Histories of up to four analyses.
Histories == [Usual EXCEPT
    !.forms = {},
    !.tables = UpTo(4, {[device |-> d, status |-> s, created |-> t, score |-> 50] :
                            d \in {"mine"}, s \in {"COMPLETED", "FAILED"}, t \in 1..2})
               \cup UpTo(2, {[device |-> d, status |-> "COMPLETED", created |-> t, score |-> 50] :
                            d \in {"mine", "yours"}, t \in 1..2}),
    !.queries = {[device |-> "mine", page |-> p, size |-> n, status |-> s] :
                    p \in 0..2, n \in 0..3, s \in {None, "COMPLETED", Malformed}}]

MCWorlds == [
    requests |-> Requests, videos |-> Videos, moving |-> Moving, overlapping |-> Overlapping,
    identified |-> Identified,
    rooms |-> Rooms, edges |-> Edges, images |-> Images, answers |-> Answers,
    histories |-> Histories]
=============================================================================
