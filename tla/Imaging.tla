------------------------------ MODULE Imaging ------------------------------
(***************************************************************************)
(* Stages 8 to 10 (app/ai/vision/imaging.py) and the choice of the frames  *)
(* the text model is shown (select_analysis_frames in app/ai/pipeline.py). *)
(* An image is whether it was made; where files live is ImageFiles.        *)
(***************************************************************************)
EXTENDS Tracking

CONSTANT LlmMaxImages

ASSUME ImagesAssumption == LlmMaxImages \in Nat \ {0}

\* The frame with most kinds of primary objects, then the highest mean confidence.
SelectAnalysisFrame(rows, adopted) ==
    LET kept == [f \in DOMAIN rows |-> Filter(rows[f], LAMBDA d : d.class \in adopted)]
        primary == [f \in DOMAIN rows |->
                        Cardinality({d.class : d \in ToSet(kept[f])} \cap Primary)]
        confidence(f) == SumFunction([k \in DOMAIN kept[f] |-> kept[f][k].confidence])
        mean == [f \in DOMAIN rows |-> Ratio(confidence(f), Greatest(Len(kept[f]), 1))]
        Better(f, g) == \/ primary[f] > primary[g]
                        \/ primary[f] = primary[g] /\ Greater(mean[f], mean[g])
    IN Best([f \in DOMAIN rows |-> f], Better)

InDisplayOrder(objects, group) ==
    SortedBy(objects, LAMBDA o : <<-Rank[Classify(o.class, group)], -o.confidence, o.frame>>)

\* An object that is not safe is drawn into a copy of its frame.
Marked(object, group, frames) ==
    [name |-> object.class, risk |-> Classify(object.class, group),
     confidence |-> object.confidence, frames |-> object.frames, frame |-> object.frame,
     box |-> object.box,
     marked |-> Classify(object.class, group) # "SAFE" /\ object.frame \in frames]

Mark(objects, group, frames) ==
    LET ordered == Filter(InDisplayOrder(objects, group), LAMBDA o : o.class \in Classes)
    IN [k \in DOMAIN ordered |-> Marked(ordered[k], group, frames)]

\* The thumbnail's frame, then those of the dangerous objects, none twice.
SelectAnalysisFrames(thumbnail, detected) ==
    LET risky == SortedBy(Filter(detected, LAMBDA o : o.risk # "SAFE"),
                          LAMBDA o : <<-Rank[o.risk], -o.confidence, o.frame>>)
        wanted == <<thumbnail>> \o [k \in DOMAIN risky |-> risky[k].frame]
        numbers == FirstOfEach(wanted, LAMBDA n : n)
    IN SubSeq(numbers, 1, Least(Len(numbers), LlmMaxImages))

\* Mutant: Vision chooses for itself, and forgets the thumbnail.
FramesOfRisks(thumbnail, detected, frames) ==
    LET risky == Filter(detected, LAMBDA o : o.risk # "SAFE" /\ o.frame \in frames)
        numbers == [k \in DOMAIN risky |-> risky[k].frame]
    IN SubSeq(numbers, 1, Least(Len(numbers), LlmMaxImages))

\* The frames Vision hands on; the others are gone with the video.
FramesForAnalysis(thumbnail, detected, frames) ==
    Filter(SelectAnalysisFrames(thumbnail, detected), LAMBDA n : n \in frames)
=============================================================================
