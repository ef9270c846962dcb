----------------------------- MODULE PolicyOrder -----------------------------
(***************************************************************************)
(* The order of proposals by the risk their signals, level and data carry, *)
(* and what it has to do with the verdicts of PolicyEngine.  The module is *)
(* constant.                                                               *)
(***************************************************************************)
EXTENDS PolicyEngine

RiskRank == [LOW |-> 0, MEDIUM |-> 1, HIGH |-> 2]
DataRank == [PUBLIC |-> 0, INTERNAL |-> 1, CONFIDENTIAL |-> 2]

\* The signals that speak for a proposal.
Favourable == {"reuse_existing", "project_scoped"}

\* q is p with more risk, or with less that speaks for it; both are on the
\* allowlist or neither is.
Riskier(p, q) ==
    /\ p.kind = q.kind
    /\ \A s \in Signals \ (Favourable \cup {"in_allowlist"}) : s \in p.signals => s \in q.signals
    /\ \A s \in Favourable : s \in q.signals => s \in p.signals
    /\ "in_allowlist" \in p.signals <=> "in_allowlist" \in q.signals
    /\ RiskRank[p.risk] <= RiskRank[q.risk]
    /\ DataRank[p.data] <= DataRank[q.data]

\* What gains risk, or loses what speaks for it, is never judged more leniently:
\* no signal hides a stricter rule behind a milder one (engine.py, the most
\* restrictive rule first).
JudgedMonotonely(p, q) == Riskier(p, q) => Severity[Decide(q)] >= Severity[Decide(p)]
=============================================================================
