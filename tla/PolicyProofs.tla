---------------------------- MODULE PolicyProofs ----------------------------
(***************************************************************************)
(* The policy engine is monotone: for every pair of proposals, not only    *)
(* for those that TLC compares, more risk is never judged more leniently.  *)
(***************************************************************************)
EXTENDS PolicyOrder, TLAPS

\* A signal that speaks against a proposal stays with the riskier one.
LEMMA RiskySignalsStay ==
    ASSUME NEW p \in Proposals, NEW q \in Proposals, Riskier(p, q),
           NEW s \in Signals \ (Favourable \cup {"in_allowlist"}), s \in p.signals
    PROVE  s \in q.signals
BY DEF Riskier

\* The signals the rules name, and none of them speaks for a proposal.
LEMMA NamedSignals ==
    /\ BlockingSignals \cup ExpertSignals \cup {"write_access", "is_new_external_connection",
            "accesses_secret", "permission_escalation"}
          \subseteq Signals \ (Favourable \cup {"in_allowlist"})
    /\ Favourable \subseteq Signals
BY DEF Signals, BlockingSignals, ExpertSignals, OtherSignals, Favourable

\* A confidential or high-risk proposal stays so, and one that is of low risk
\* or not confidential was so before.
LEMMA LevelsStay ==
    ASSUME NEW p \in Proposals, NEW q \in Proposals, Riskier(p, q)
    PROVE  /\ p.risk = "HIGH" => q.risk = "HIGH"
           /\ p.data = "CONFIDENTIAL" => q.data = "CONFIDENTIAL"
           /\ q.risk = "LOW" => p.risk = "LOW"
<1>1. /\ p.risk \in RiskLevels /\ q.risk \in RiskLevels
      /\ p.data \in DataClasses /\ q.data \in DataClasses
  BY DEF Proposals
<1>2. RiskRank[p.risk] <= RiskRank[q.risk] /\ DataRank[p.data] <= DataRank[q.data]
  BY DEF Riskier
<1>3. QED
  BY <1>1, <1>2 DEF RiskLevels, DataClasses, RiskRank, DataRank

\* Each rule that restricts goes on applying to the riskier proposal, and the
\* rules that approve applied to the less risky one already.
LEMMA RulesAreMonotone ==
    ASSUME NEW p \in Proposals, NEW q \in Proposals, Riskier(p, q)
    PROVE  /\ Blocks(p) => Blocks(q)
           /\ NeedsExpert(p) => NeedsExpert(q)
           /\ NeedsUser(p) => NeedsUser(q)
           /\ AutoApproves(q) => AutoApproves(p)
<1>1. \A s \in BlockingSignals \cup ExpertSignals \cup {"write_access",
            "is_new_external_connection", "accesses_secret", "permission_escalation"} :
        s \in p.signals => s \in q.signals
  BY RiskySignalsStay, NamedSignals
<1>2. "in_allowlist" \in p.signals <=> "in_allowlist" \in q.signals
  BY DEF Riskier
<1>3. NewAndUnlisted(p) => NewAndUnlisted(q)
  BY <1>1, <1>2 DEF NewAndUnlisted
<1>4. Blocks(p) => Blocks(q)
  BY <1>1, <1>3, LevelsStay DEF Blocks
<1>5. NeedsExpert(p) => NeedsExpert(q)
  BY <1>1, <1>3 DEF NeedsExpert
<1>6. NeedsUser(p) => NeedsUser(q)
  BY <1>1, <1>2 DEF NeedsUser
<1>7. AutoApproves(q) => AutoApproves(p)
  <2>1. \A s \in Favourable : s \in q.signals => s \in p.signals
    BY DEF Riskier
  <2>2. HarmlessTool(q) => HarmlessTool(p)
    BY <1>1, <1>2, LevelsStay DEF HarmlessTool
  <2>3. ProjectAgent(q) => ProjectAgent(p)
    BY <1>1, <2>1 DEF ProjectAgent, Riskier, Favourable
  <2>4. QED
    BY <2>1, <2>2, <2>3 DEF AutoApproves, Favourable
<1>8. QED
  BY <1>4, <1>5, <1>6, <1>7

\* However many signals two proposals differ in, PolicyEngine.decide judges the
\* riskier one at least as strictly: there is no rule among those of engine.py
\* that more risk could hide behind a milder one.
THEOREM DecideIsMonotone ==
    ASSUME NEW p \in Proposals, NEW q \in Proposals
    PROVE  JudgedMonotonely(p, q)
BY RulesAreMonotone DEF JudgedMonotonely, Decide, Severity
=============================================================================
