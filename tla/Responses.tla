----------------------------- MODULE Responses -----------------------------
(***************************************************************************)
(* Requests and responses of the API (app/schemas/analysis.py) with the    *)
(* queries behind them (app/services/repository.py).  A table is a         *)
(* sequence of analyses whose index is their identifier.                   *)
(***************************************************************************)
EXTENDS Lists, Rules

CONSTANTS
    PageSizeMax,
    Malformed    \* a value that is there and that nothing defines

ASSUME PageAssumption == PageSizeMax \in Nat \ {0}

Statuses == {"PENDING", "PROCESSING", "COMPLETED", "FAILED"}

\* validate_device_id and AnalysisCreateForm.validated: the code of the error, or None.
DeviceError(device) ==
    CASE device = None -> "DEVICE_ID_REQUIRED"
      [] device = Malformed -> "DEVICE_ID_INVALID"
      [] OTHER -> None

FormError(form) ==
    CASE form.group = None -> "ANIMAL_GROUP_REQUIRED"
      [] form.group # None /\ form.group \notin Groups -> "ANIMAL_GROUP_UNSUPPORTED"
      [] form.group \in Groups /\ form.space = None -> "SPACE_TYPE_REQUIRED"
      [] form.group \in Groups /\ form.space # None /\ form.space \notin Spaces
            -> "SPACE_TYPE_INVALID"
      [] OTHER -> None

\* AnalysisListQuery.validated: the code of the error, or None.
QueryError(query) ==
    CASE query.page < 1 -> "PAGE_INVALID"
      [] query.page >= 1 /\ query.size \notin 1..PageSizeMax -> "SIZE_INVALID"
      [] query.page >= 1 /\ query.size \in 1..PageSizeMax
            /\ query.status \notin Statuses \cup {None} -> "STATUS_INVALID"
      [] OTHER -> None
-----------------------------------------------------------------------------
\* The analyses of the device that pass the filter, newest first.
History(table, query) ==
    LET mine == {id \in DOMAIN table :
                    /\ table[id].device = query.device
                    /\ query.status \in {None, table[id].status}}
        Newer(a, b) == Precedes(<<-table[a].created, -a>>, <<-table[b].created, -b>>)
    IN Arranged(mine, Newer)

\* OFFSET and LIMIT.
ListPage(table, query) ==
    LET history == History(table, query)
        skip == (query.page - 1) * query.size
        end == skip + query.size
    IN SubSeq(history, skip + 1, IF Len(history) < end THEN Len(history) ELSE end)

\* Mutant: the last page is forgotten when it is not full.
PaginationOfFullPages(page, size, total) ==
    LET pages == total \div size
    IN [page |-> page, size |-> size, totalCount |-> total, totalPages |-> pages,
        hasNext |-> page < pages]

\* Pagination.build; the quotient is rounded up.
Pagination(page, size, total) ==
    LET pages == (total + size - 1) \div size
    IN [page |-> page, size |-> size, totalCount |-> total, totalPages |-> pages,
        hasNext |-> page < pages]

\* Only a completed analysis shows its score and its thumbnail.
Summary(table, id) ==
    [id |-> id, status |-> table[id].status,
     score |-> IF table[id].status = "COMPLETED" THEN table[id].score ELSE None]

\* The response to GET /analyses.
AnalysisList(table, query) ==
    LET page == ListPage(table, query)
    IN [analyses |-> [k \in DOMAIN page |-> Summary(table, page[k])],
        pagination |-> Pagination(query.page, query.size, Len(History(table, query)))]
-----------------------------------------------------------------------------
\* Objects in the order of their identifiers, as they were inserted.
SortDetectedObjects(objects) ==
    SortedBy(objects, LAMBDA o : <<-Rank[o.risk], -o.confidence, NameOrder(o.name)>>)

SortRiskFactors(factors) ==
    SortedBy(factors, LAMBDA f : <<IF f.source = "DETECTED" THEN 0 ELSE 1>>)

SortRecommendations(items) == SortedBy(items, LAMBDA r : <<r.priority>>)

\* The response to GET /analyses/{id} for a completed analysis.
Detail(row) ==
    [score |-> row.score,
     objects |-> SortDetectedObjects(row.objects),
     riskFactors |-> SortRiskFactors(row.riskFactors),
     analysis |-> row.analysis,
     recommendations |-> SortRecommendations(row.recommendations)]
=============================================================================
