------------------------- MODULE AnalysisLifecycle -------------------------
(***************************************************************************)
(* What the API promises about an analysis, with no queue, no handler, no  *)
(* session and no crash: the life it has in the eyes of the device that    *)
(* owns it.  A device has at most one analysis under way; an analysis that *)
(* is under way ends; it ends completed, for good, or failed, and then its *)
(* owner may have it run again a limited number of times; only one that is *)
(* not under way can be removed, and a removed one does not come back.     *)
(***************************************************************************)
EXTENDS Naturals

CONSTANTS Ids, Devices, MaxRetryCount

VARIABLE life

UnderWay == {"PENDING", "PROCESSING"}

Phases == {"unborn", "removed", "COMPLETED", "FAILED"} \cup UnderWay

Life == [phase: Phases, device: Devices \cup {"nobody"}, retries: 0..MaxRetryCount]

Unborn == [phase |-> "unborn", device |-> "nobody", retries |-> 0]
Removed == [phase |-> "removed", device |-> "nobody", retries |-> 0]

Busy(d) == \E i \in Ids : life[i].device = d /\ life[i].phase \in UnderWay

LifeInit == life = [i \in Ids |-> Unborn]

Accept(i, d) ==
    /\ life[i] = Unborn
    /\ ~Busy(d)
    /\ life' = [life EXCEPT ![i] = [phase |-> "PENDING", device |-> d, retries |-> 0]]

Start(i) ==
    /\ life[i].phase = "PENDING"
    /\ life' = [life EXCEPT ![i].phase = "PROCESSING"]

Complete(i) ==
    /\ life[i].phase = "PROCESSING"
    /\ life' = [life EXCEPT ![i].phase = "COMPLETED"]

\* Several at once when the process is restarted.
Fail(S) ==
    /\ \A i \in S : life[i].phase \in UnderWay
    /\ life' = [i \in Ids |-> IF i \in S THEN [life[i] EXCEPT !.phase = "FAILED"]
                              ELSE life[i]]

Retry(i) ==
    /\ life[i].phase = "FAILED"
    /\ life[i].retries < MaxRetryCount
    /\ ~Busy(life[i].device)
    /\ life' = [life EXCEPT ![i].phase = "PENDING", ![i].retries = @ + 1]

Remove(i) ==
    /\ life[i].phase \in {"COMPLETED", "FAILED"}
    /\ life' = [life EXCEPT ![i] = Removed]

LifeNext ==
    \/ \E i \in Ids : \/ \E d \in Devices : Accept(i, d)
                      \/ Start(i) \/ Complete(i) \/ Retry(i) \/ Remove(i)
    \/ \E S \in SUBSET Ids : Fail(S)

LifeSafety == LifeInit /\ [][LifeNext]_life

\* Whatever is under way ends, by itself or because the process is restarted.
Ends(i) == life[i].phase \in UnderWay ~> life[i].phase \notin UnderWay

LifeSpec == LifeSafety /\ \A i \in Ids : Ends(i)
=============================================================================
