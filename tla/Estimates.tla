------------------------------ MODULE Estimates ------------------------------
(***************************************************************************)
(* Package domain's estimates and diffs, and the rounding of money, which  *)
(* is an integer of a unit small enough to make rounding visible.          *)
(***************************************************************************)
EXTENDS Integers, SequencesExt

CONSTANT CentGrain      \* 0.01, in units of money

ASSUME CentAssumption == CentGrain \in Nat \ {0}

\* decimal.Round: to the nearest multiple, halves away from zero.
Rounded(x, grain) ==
    LET up(y) == ((2 * y + grain) \div (2 * grain)) * grain
    IN  IF x < 0 THEN -up(-x) ELSE up(x)

Total(amounts) == FoldLeft(+, 0, amounts)

Subtotals(costs) == [i \in DOMAIN costs |-> costs[i].subtotal]

\* What is to be removed is not in the project's total.
NewEstimate(costs, skipped) ==
    [costs |-> costs, skipped |-> skipped,
     total |-> Rounded(Total([i \in DOMAIN costs |->
                                IF costs[i].action = "delete" THEN 0 ELSE costs[i].subtotal]),
                       CentGrain)]

\* The first cost of that reference, or 0.
CostFor(estimate, ref) ==
    SelectInSeq(estimate.costs, LAMBDA c : c.ref = ref)

Row(ref, before, after, kind) ==
    [ref |-> ref, before |-> before, after |-> after, delta |-> after - before,
     kind |-> kind]

\* A resource of the current estimate, beside its baseline.
CurrentRow(baseline, c) ==
    LET b == CostFor(baseline, c.ref)
        before == baseline.costs[b].subtotal
    IN  IF b = 0 THEN Row(c.ref, 0, c.subtotal, "added")
        ELSE Row(c.ref, before, c.subtotal,
                 IF before = c.subtotal THEN "unchanged" ELSE "modified")

CurrentRows(baseline, current) ==
    [i \in DOMAIN current.costs |-> CurrentRow(baseline, current.costs[i])]

\* Faulty ComputeDiff: the loop over the baseline is missing.
ComputeDiffCurrent(baseline, current) ==
    [rows |-> CurrentRows(baseline, current), delta |-> current.total - baseline.total]

\* The rows after the first k costs of the baseline: those that are gone follow.
DiffRows(baseline, current) ==
    LET rows[k \in 0 .. Len(baseline.costs)] ==
            IF k = 0 THEN CurrentRows(baseline, current)
            ELSE LET c == baseline.costs[k]
                 IN  IF CostFor(current, c.ref) # 0 THEN rows[k - 1]
                     ELSE Append(rows[k - 1], Row(c.ref, c.subtotal, 0, "removed"))
    IN  rows

ComputeDiff(baseline, current) ==
    [rows |-> DiffRows(baseline, current)[Len(baseline.costs)],
     delta |-> current.total - baseline.total]

Deltas(rows) == [i \in DOMAIN rows |-> rows[i].delta]

\* RenderJSON and back: actions and skipped resources are not in the file.
Saved(estimate) ==
    [costs |-> [i \in DOMAIN estimate.costs |->
                  [estimate.costs[i] EXCEPT !.action = "none"]],
     skipped |-> <<>>, total |-> estimate.total]

UniqueRefs(estimate) ==
    \A i, k \in DOMAIN estimate.costs :
        estimate.costs[i].ref = estimate.costs[k].ref => i = k

\* Nothing that costs money is scheduled for removal.
CountsAll(estimate) == Total(Subtotals(estimate.costs)) = estimate.total
=============================================================================
