-------------------------- MODULE MixtureAllocation --------------------------
(***************************************************************************)
(* Quotas and group selection of a token-budget mixture                    *)
(* (mixture_allocate.py, and the grouping in mixture_compose.py).          *)
(*                                                                         *)
(* Sources are numbers, because ties are broken by their order.  A record  *)
(* is a member of SplitAssignment with its source, its tokens and whether  *)
(* it is truncated; a group is [anchor, records, tokens, truncated], and   *)
(* SelectionDigest gives the pseudo-random place of an anchor.             *)
(***************************************************************************)
EXTENDS SplitAssignment

CONSTANT SelectionDigest(_, _, _)   \* of a salt, a source and an anchor

-----------------------------------------------------------------------------
(* Hamilton quotas *)

TotalWeight(weights) == SumFunction(weights)
FloorQuota(budget, weights, s) == (budget * weights[s]) \div TotalWeight(weights)
Remainder(budget, weights, s) == (budget * weights[s]) % TotalWeight(weights)

Allocatable(budget, weights) ==
    budget >= 1 /\ \A s \in DOMAIN weights : weights[s] > 0

\* The sources that come before one by falling remainder, then by id.
Ahead(budget, weights, source) ==
    {s \in DOMAIN weights :
        \/ Remainder(budget, weights, s) > Remainder(budget, weights, source)
        \/ Remainder(budget, weights, s) = Remainder(budget, weights, source) /\ s < source}

\* What the floors leave of the budget.
Leftover(budget, weights) ==
    budget - SumFunction([s \in DOMAIN weights |-> FloorQuota(budget, weights, s)])

\* allocate_token_quotas: each its floor, and one more for the first sources in
\* that order while tokens are left.
AllocateTokenQuotas(budget, weights) ==
    [s \in DOMAIN weights |->
        FloorQuota(budget, weights, s)
            + (IF Cardinality(Ahead(budget, weights, s)) < Leftover(budget, weights) THEN 1 ELSE 0)]

-----------------------------------------------------------------------------
(* Groups *)

SumOfTokens(records) == SumFunction([k \in 1..Len(records) |-> records[k].tokens])

\* Mutation: records are grouped by lineage alone.
GroupsByLineage(records) ==
    LET group(lineage) ==
            LET own == SelectSeq(records, LAMBDA r : r.lineage = lineage)
            IN  [anchor |-> <<"lineage", lineage>>, records |-> own, tokens |-> SumOfTokens(own),
                 truncated |-> \E k \in 1..Len(own) : own[k].truncated]
    IN  {group(records[k].lineage) : k \in 1..Len(records)}

\* The records at some indexes, in the order of the list.
InIndexOrder(records, indexes) ==
    LET order == InOrder(indexes, [k \in indexes |-> k])
    IN  [p \in DOMAIN order |-> records[order[p]]]

\* _atomic_groups: a component with a truncated record counts for nothing.
AtomicGroups(records) ==
    LET group(component) ==
            LET own == InIndexOrder(records, component)
                truncated == \E k \in 1..Len(own) : own[k].truncated
            IN  [anchor |-> ComponentAnchor(records, component), records |-> own,
                 truncated |-> truncated, tokens |-> IF truncated THEN 0 ELSE SumOfTokens(own)]
    IN  {group(component) : component \in AtomicComponents(records)}

\* The order groups are offered in.
InDigestOrder(groups, salt, source) ==
    InOrder(groups, [group \in groups |-> SelectionDigest(salt, source, group.anchor)])

ExclusionsOf(group, source, reason) ==
    {[source |-> source, id |-> group.records[k].id, reason |-> reason] :
        k \in 1..Len(group.records)}

\* Mutation: selection ends at the first group that does not fit.
StopsAtFirstMisfit(selection, group, quota) ==
    CASE group.tokens > quota -> "exceeds-source-quota"
      [] group.tokens <= quota /\
            (group.tokens > selection.remaining \/ \E e \in selection.exclusions : e.reason = "quota-remainder")
         -> "quota-remainder"
      [] OTHER -> "fits"

\* _quota_exclusion_reason.
QuotaReason(selection, group, quota) ==
    CASE group.tokens > quota -> "exceeds-source-quota"
      [] group.tokens <= quota /\ group.tokens > selection.remaining -> "quota-remainder"
      [] OTHER -> "fits"

\* One turn of the selection loop.
Offered(selection, group, quota, source) ==
    IF group.truncated
    THEN [selection EXCEPT !.exclusions = @ \cup ExclusionsOf(group, source, "truncated")]
    ELSE LET counted == [selection EXCEPT !.available = @ + group.tokens]
             reason == QuotaReason(selection, group, quota)
         IN  IF reason = "fits"
             THEN [counted EXCEPT !.records = @ \o group.records, !.remaining = @ - group.tokens]
             ELSE [counted EXCEPT !.exclusions = @ \cup ExclusionsOf(group, source, reason)]

\* select_groups_for_quota: first fit in digest order.
SelectGroups(groups, quota, salt, source) ==
    FoldLeft(LAMBDA selection, group : Offered(selection, group, quota, source),
             [records |-> <<>>, exclusions |-> {}, remaining |-> quota, available |-> 0],
             InDigestOrder(groups, salt, source))
=============================================================================
