------------------------- MODULE VapmProgram_proofs -------------------------
(***************************************************************************)
(* Theorems of VapmProgram, for every set of wallets, limits and hashes    *)
(* and every width of the counters.                                        *)
(***************************************************************************)
EXTENDS VapmProgram, FiniteSetTheorems, TLAPS

(* finalize_trade with risk_passed true, for a dWallet of the caller's     *)
ApproveSome(k) == \E dwallet \in DWallets : ApproveTrade(k, dwallet)

(* TakeIndex keeps the agents and their types.                             *)
LEMMA TakeIndexType ==
    ASSUME TypeOK, NEW a \in DOMAIN agents, TakeIndex(a)
    PROVE  /\ DOMAIN agents' = DOMAIN agents
           /\ agents' \in [DOMAIN agents' -> AgentState]
           /\ agents'[a].count = agents[a].count + 1
           /\ \A b \in DOMAIN agents : agents'[b].limits = agents[b].limits
           /\ \A b \in DOMAIN agents : b # a => agents'[b] = agents[b]
<1> DEFINE new == [agents[a] EXCEPT !.count = @ + 1]
<1>1. agents[a] \in AgentState /\ agents \in [DOMAIN agents -> AgentState]
  BY DEF TypeOK
<1>2. /\ new \in AgentState
      /\ new.count = agents[a].count + 1
      /\ new.limits = agents[a].limits
  BY <1>1 DEF AgentState
<1>3. agents' = [agents EXCEPT ![a] = new]
  BY DEF TakeIndex
<1> HIDE DEF new
<1> QED
  BY <1>1, <1>2, <1>3

(* Every account belongs to an agent and has its type, and what was        *)
(* compared was compared for a proposal that is there (TypeOK).            *)
THEOREM TypeCorrect == Spec => []TypeOK
<1>1. Init => TypeOK
  BY DEF Init, TypeOK
<1>2. TypeOK /\ [Next]_vars => TypeOK'
  <2> SUFFICES ASSUME TypeOK, [Next]_vars PROVE TypeOK'
    OBVIOUS
  <2> USE ProgramAssumption
  <2>0. /\ agents \in [DOMAIN agents -> AgentState]
        /\ proposals \in [DOMAIN proposals -> TradeProposal]
        /\ decisions \in [DOMAIN decisions -> DecisionRecord]
        /\ computed \in Seq(Comparison)
    BY DEF TypeOK
  <2>1. ASSUME NEW a \in Authorities, NEW limits \in Limits,
               InitializeAgent(a, limits)
        PROVE  TypeOK'
    <3> DEFINE new == [count |-> 0, limits |-> limits,
                       approved |-> 0, rejected |-> 0]
    <3>1. new \in AgentState /\ agents' = With(agents, a, new)
      BY <2>1 DEF AgentState, InitializeAgent
    <3> HIDE DEF new
    <3>2. /\ DOMAIN agents' = DOMAIN agents \cup {a}
          /\ agents' \in [DOMAIN agents' -> AgentState]
      BY <2>0, <3>1 DEF With
    <3> QED
      BY <2>1, <3>2 DEF InitializeAgent, TypeOK
  <2>2. ASSUME NEW a \in DOMAIN agents, NEW hash \in Hashes,
               NEW params \in Params, SubmitTrade(a, params, hash)
        PROVE  TypeOK'
    <3> DEFINE k == <<a, agents[a].count>>
               new == [params |-> params, fhe |-> [c \in Checks |-> Default],
                       verdict |-> Pending, hash |-> hash]
    <3>1. /\ new \in TradeProposal
          /\ proposals' = With(proposals, k, new)
      BY <2>2 DEF TradeProposal, Pending, SubmitTrade
    <3>2. k \in (DOMAIN agents) \X Nat
      BY <2>0 DEF AgentState
    <3> HIDE DEF new, k
    <3>3. /\ DOMAIN proposals' = DOMAIN proposals \cup {k}
          /\ proposals' \in [DOMAIN proposals' -> TradeProposal]
      BY <2>0, <3>1 DEF With
    <3>5. /\ DOMAIN agents' = DOMAIN agents
          /\ agents' \in [DOMAIN agents' -> AgentState]
      BY <2>2, TakeIndexType DEF SubmitTrade
    <3> QED
      BY <2>2, <3>2, <3>3, <3>5 DEF SubmitTrade, TypeOK
  <2>3. ASSUME NEW a \in DOMAIN agents, NEW hash \in Hashes,
               LogDecision(a, hash)
        PROVE  TypeOK'
    <3> DEFINE k == <<a, agents[a].count>>
               new == [hash |-> hash, executed |-> FALSE]
    <3>1. new \in DecisionRecord /\ decisions' = With(decisions, k, new)
      BY <2>3 DEF DecisionRecord, LogDecision
    <3>2. k \in (DOMAIN agents) \X Nat
      BY <2>0 DEF AgentState
    <3> HIDE DEF new, k
    <3>3. /\ DOMAIN decisions' = DOMAIN decisions \cup {k}
          /\ decisions' \in [DOMAIN decisions' -> DecisionRecord]
      BY <2>0, <3>1 DEF With
    <3>4. /\ DOMAIN agents' = DOMAIN agents
          /\ agents' \in [DOMAIN agents' -> AgentState]
      BY <2>3, TakeIndexType DEF LogDecision
    <3> QED
      BY <2>3, <3>2, <3>3, <3>4 DEF LogDecision, TypeOK
  <2>4. ASSUME NEW k \in DOMAIN proposals, NEW c \in Checks,
               NEW left \in Ciphertexts, NEW right \in Ciphertexts,
               NEW out \in Outputs, ExecuteRiskCheck(k, c, left, right, out)
        PROVE  TypeOK'
    <3> DEFINE call == [proposal |-> k, check |-> c, left |-> left,
                        right |-> right, out |-> out]
               new == [proposals[k] EXCEPT !.fhe[c] = out]
    <3>1. /\ call \in Comparison /\ call.proposal = k
          /\ computed' = Append(computed, call)
      BY <2>4 DEF Comparison, Compares, ExecuteRiskCheck, TypeOK
    <3>2. new \in TradeProposal
      BY <2>0 DEF TradeProposal
    <3>3. proposals' = [proposals EXCEPT ![k] = new]
      BY <2>4 DEF ExecuteRiskCheck
    <3> HIDE DEF new, call
    <3>4. /\ DOMAIN proposals' = DOMAIN proposals
          /\ proposals' \in [DOMAIN proposals' -> TradeProposal]
      BY <2>0, <3>2, <3>3
    <3>5. /\ computed' \in Seq(Comparison)
          /\ \A i \in DOMAIN computed' :
               \/ computed'[i] = call
               \/ i \in DOMAIN computed /\ computed'[i] = computed[i]
      BY <2>0, <3>1
    <3>6. \A i \in DOMAIN computed' : computed'[i].proposal \in DOMAIN proposals
      BY <3>1, <3>5 DEF TypeOK
    <3> QED
      BY <2>4, <3>4, <3>5, <3>6 DEF ExecuteRiskCheck, TypeOK
  <2>5. ASSUME NEW k \in DOMAIN proposals,
               RejectTrade(k) \/ ApproveSome(k)
        PROVE  TypeOK'
    <3>1. PICK verdict \in {Approved, Rejected} :
            proposals' = [proposals EXCEPT ![k].verdict = verdict]
      BY <2>5 DEF RejectTrade, ApproveTrade, ApproveSome
    <3> DEFINE new == [proposals[k] EXCEPT !.verdict = verdict]
    <3>2. new \in TradeProposal /\ new.fhe = proposals[k].fhe
      BY <2>0 DEF TradeProposal
    <3>3. proposals' = [proposals EXCEPT ![k] = new]
      BY <3>1
    <3> HIDE DEF new
    <3>4. /\ DOMAIN proposals' = DOMAIN proposals
          /\ proposals' \in [DOMAIN proposals' -> TradeProposal]
          /\ \A x \in DOMAIN proposals : proposals'[x].fhe = proposals[x].fhe
      BY <2>0, <3>2, <3>3
    <3>5. PICK agent \in AgentState : agents' = [agents EXCEPT ![k[1]] = agent]
      <4>1. agents[k[1]] \in AgentState
        BY <2>0 DEF TypeOK
      <4>2. CASE RejectTrade(k)
        <5>1. [agents[k[1]] EXCEPT !.rejected = @ + 1] \in AgentState
          BY <4>1 DEF AgentState
        <5> QED BY <4>2, <5>1 DEF RejectTrade
      <4>3. CASE ApproveSome(k)
        <5>1. [agents[k[1]] EXCEPT !.approved = @ + 1] \in AgentState
          BY <4>1 DEF AgentState
        <5> QED BY <4>3, <5>1 DEF ApproveTrade, ApproveSome
      <4> QED BY <2>5, <4>2, <4>3
    <3>6. /\ DOMAIN agents' = DOMAIN agents
          /\ agents' \in [DOMAIN agents' -> AgentState]
      BY <2>0, <3>5
    <3>7. signable' \subseteq DWallets \X Hashes
      <4>1. proposals[k].hash \in Hashes
        BY <2>0 DEF TradeProposal
      <4> QED
        BY <2>5, <4>1 DEF RejectTrade, ApproveTrade, ApproveSome, TypeOK
    <3>8. UNCHANGED <<decisions, computed>>
      BY <2>5 DEF RejectTrade, ApproveTrade, ApproveSome
    <3> QED
      BY <3>4, <3>6, <3>7, <3>8 DEF TypeOK
  <2>6. ASSUME NEW k \in DOMAIN decisions, MarkExecuted(k) PROVE TypeOK'
    <3> DEFINE new == [decisions[k] EXCEPT !.executed = TRUE]
    <3>1. new \in DecisionRecord /\ decisions' = [decisions EXCEPT ![k] = new]
      BY <2>0, <2>6 DEF DecisionRecord, MarkExecuted
    <3> HIDE DEF new
    <3>2. /\ DOMAIN decisions' = DOMAIN decisions
          /\ decisions' \in [DOMAIN decisions' -> DecisionRecord]
      BY <2>0, <3>1
    <3> QED
      BY <2>6, <3>2 DEF MarkExecuted, TypeOK
  <2>7. CASE UNCHANGED vars
    BY <2>7 DEF vars, TypeOK
  <2> QED
    BY <2>1, <2>2, <2>3, <2>4, <2>5, <2>6, <2>7 DEF Next, ApproveSome
<1> QED
  BY <1>1, <1>2, PTL DEF Spec

-----------------------------------------------------------------------------
(* What each kind of step does to the proposals and to the agents' limits  *)

LEMMA SubmitTradeEffect ==
    ASSUME TypeOK, NEW a \in DOMAIN agents, NEW hash \in Hashes,
           NEW params \in Params, SubmitTrade(a, params, hash)
    PROVE  \E k :
             /\ k = <<a, agents[a].count>>
             /\ DOMAIN proposals' = DOMAIN proposals \cup {k}
             /\ \A x \in DOMAIN proposals : proposals'[x] = proposals[x]
             /\ proposals'[k].verdict = Pending
             /\ \A c \in Checks : proposals'[k].fhe[c] = Default
             /\ UNCHANGED <<decisions, computed, signable>>
    BY DEF SubmitTrade, With

LEMMA CheckEffect ==
    ASSUME TypeOK, NEW k \in DOMAIN proposals, NEW c \in Checks,
           NEW left \in Ciphertexts, NEW right \in Ciphertexts,
           NEW out \in Outputs, ExecuteRiskCheck(k, c, left, right, out)
    PROVE  /\ DOMAIN proposals' = DOMAIN proposals
           /\ \A x \in DOMAIN proposals :
                /\ proposals'[x].params = proposals[x].params
                /\ proposals'[x].hash = proposals[x].hash
                /\ proposals'[x].verdict = proposals[x].verdict
                /\ \A d \in Checks :
                     proposals'[x].fhe[d] =
                       IF x = k /\ d = c THEN out ELSE proposals[x].fhe[d]
           /\ computed' = Append(computed,
                [proposal |-> k, check |-> c, left |-> proposals[k].params[c],
                 right |-> agents[k[1]].limits[c], out |-> out])
           /\ UNCHANGED <<agents, decisions, signable>>
<1> DEFINE fhe == [proposals[k].fhe EXCEPT ![c] = out]
           new == [proposals[k] EXCEPT !.fhe = fhe]
<1>2. proposals' = [proposals EXCEPT ![k] = new]
  BY DEF ExecuteRiskCheck
<1>3. /\ proposals[k] \in TradeProposal
      /\ DOMAIN proposals[k].fhe = Checks
  BY DEF TypeOK, TradeProposal
<1>4. \A d \in Checks : fhe[d] = IF d = c THEN out ELSE proposals[k].fhe[d]
  BY <1>3
<1> HIDE DEF fhe
<1>5. /\ new.params = proposals[k].params
      /\ new.hash = proposals[k].hash
      /\ new.verdict = proposals[k].verdict
      /\ new.fhe = fhe
  BY <1>3 DEF TradeProposal
<1> HIDE DEF new
<1>6. \A x \in DOMAIN proposals :
        proposals'[x] = IF x = k THEN new ELSE proposals[x]
  BY <1>2
<1>7. DOMAIN proposals' = DOMAIN proposals
  BY <1>2
<1>8. /\ computed' = Append(computed,
             [proposal |-> k, check |-> c, left |-> proposals[k].params[c],
              right |-> agents[k[1]].limits[c], out |-> out])
      /\ UNCHANGED <<agents, decisions, signable>>
  BY DEF ExecuteRiskCheck, Compares
<1> QED
  BY <1>4, <1>5, <1>6, <1>7, <1>8

LEMMA FinalizeEffect ==
    ASSUME TypeOK, NEW k \in DOMAIN proposals,
           RejectTrade(k) \/ ApproveSome(k)
    PROVE  /\ DOMAIN proposals' = DOMAIN proposals
           /\ \A x \in DOMAIN proposals :
                /\ proposals'[x].params = proposals[x].params
                /\ proposals'[x].hash = proposals[x].hash
                /\ proposals'[x].fhe = proposals[x].fhe
                /\ x # k => proposals'[x].verdict = proposals[x].verdict
           /\ proposals'[k].verdict =
                IF ApproveSome(k) THEN Approved ELSE Rejected
           /\ DOMAIN agents' = DOMAIN agents
           /\ \A a \in DOMAIN agents :
                /\ agents'[a].limits = agents[a].limits
                /\ agents'[a].count = agents[a].count
           /\ signable \subseteq signable'
           /\ ApproveSome(k) => \E d \in DWallets : <<d, proposals[k].hash>> \in signable'
           /\ UNCHANGED <<decisions, computed>>
<1>1. PICK verdict :
        /\ proposals' = [proposals EXCEPT ![k].verdict = verdict]
        /\ verdict = IF ApproveSome(k) THEN Approved ELSE Rejected
  BY DEF RejectTrade, ApproveTrade, ApproveSome
<1>2. proposals[k] \in TradeProposal
  BY DEF TypeOK
<1>3. /\ DOMAIN proposals' = DOMAIN proposals
      /\ \A x \in DOMAIN proposals :
           /\ proposals'[x].params = proposals[x].params
           /\ proposals'[x].hash = proposals[x].hash
           /\ proposals'[x].fhe = proposals[x].fhe
           /\ x # k => proposals'[x].verdict = proposals[x].verdict
      /\ proposals'[k].verdict = verdict
  BY <1>1, <1>2 DEF TradeProposal
<1>4. agents[k[1]] \in AgentState /\ k[1] \in DOMAIN agents
  BY DEF TypeOK
<1>5. /\ DOMAIN agents' = DOMAIN agents
      /\ \A a \in DOMAIN agents :
           /\ agents'[a].limits = agents[a].limits
           /\ agents'[a].count = agents[a].count
  BY <1>4 DEF RejectTrade, ApproveTrade, ApproveSome, AgentState
<1>6. /\ signable \subseteq signable'
      /\ ApproveSome(k) => \E d \in DWallets : <<d, proposals[k].hash>> \in signable'
      /\ UNCHANGED <<decisions, computed>>
  BY DEF RejectTrade, ApproveTrade, ApproveSome
<1> QED
  BY <1>1, <1>3, <1>5, <1>6

-----------------------------------------------------------------------------
(* Safety                                                                  *)

(* However trades are finalized, again and in which order, a proposal that *)
(* reads Approved has its message approved for signing, by a dWallet that  *)
(* its caller named (finalize_trade sets the verdict after the call to Ika *)
(* succeeded).  Whether that is the agent's dWallet, nothing checks.       *)
THEOREM ApprovedSignable == Spec => []ApprovedIsSignable
<1>1. Init => ApprovedIsSignable
  BY DEF Init, ApprovedIsSignable
<1>2. TypeOK /\ ApprovedIsSignable /\ [Next]_vars => ApprovedIsSignable'
  <2> SUFFICES ASSUME TypeOK, ApprovedIsSignable, [Next]_vars
               PROVE  ApprovedIsSignable'
    OBVIOUS
  <2> USE DEF ApprovedIsSignable
  <2>1. ASSUME NEW a \in DOMAIN agents, NEW hash \in Hashes,
               NEW params \in Params, SubmitTrade(a, params, hash)
        PROVE  ApprovedIsSignable'
    <3>1. PICK k :
             /\ DOMAIN proposals' = DOMAIN proposals \cup {k}
             /\ \A x \in DOMAIN proposals : proposals'[x] = proposals[x]
             /\ proposals'[k].verdict = Pending
             /\ UNCHANGED <<decisions, computed, signable>>
      BY <2>1, SubmitTradeEffect
    <3> QED
      BY <3>1 DEF Approved, Pending
  <2>2. ASSUME NEW k \in DOMAIN proposals, NEW c \in Checks,
               NEW left \in Ciphertexts, NEW right \in Ciphertexts,
               NEW out \in Outputs, ExecuteRiskCheck(k, c, left, right, out)
        PROVE  ApprovedIsSignable'
    <3>1. /\ DOMAIN proposals' = DOMAIN proposals
          /\ signable' = signable
          /\ \A x \in DOMAIN proposals :
               /\ proposals'[x].hash = proposals[x].hash
               /\ proposals'[x].verdict = proposals[x].verdict
      BY <2>2, CheckEffect
    <3> QED
      BY <3>1
  <2>3. ASSUME NEW k \in DOMAIN proposals, RejectTrade(k) \/ ApproveSome(k)
        PROVE  ApprovedIsSignable'
    BY <2>3, FinalizeEffect DEF Approved, Rejected
  <2>4. CASE UNCHANGED <<proposals, signable>>
    BY <2>4
  <2> QED
    BY <2>1, <2>2, <2>3, <2>4 DEF Next, vars, InitializeAgent, LogDecision,
       MarkExecuted, ApproveSome
<1> QED
  BY <1>1, <1>2, TypeCorrect, PTL DEF Spec

(* Nothing that a comparison was made from changes: a proposal keeps its   *)
(* parameters, and an agent its limits.                                    *)
InputsStay ==
    /\ \A k \in DOMAIN proposals :
         k \in DOMAIN proposals' /\ proposals'[k].params = proposals[k].params
    /\ \A a \in DOMAIN agents :
         a \in DOMAIN agents' /\ agents'[a].limits = agents[a].limits

LEMMA StepsKeepInputs == TypeOK /\ [Next]_vars => InputsStay
<1> SUFFICES ASSUME TypeOK, [Next]_vars PROVE InputsStay
  OBVIOUS
<1> USE DEF InputsStay
<1>1. ASSUME NEW a \in Authorities, NEW limits \in Limits,
             InitializeAgent(a, limits)
      PROVE  InputsStay
  BY <1>1 DEF InitializeAgent, With
<1>2. ASSUME NEW a \in DOMAIN agents, NEW hash \in Hashes,
             NEW params \in Params, SubmitTrade(a, params, hash)
      PROVE  InputsStay
  <2>1. \A b \in DOMAIN agents :
          b \in DOMAIN agents' /\ agents'[b].limits = agents[b].limits
    BY <1>2, TakeIndexType DEF SubmitTrade
  <2>2. \A x \in DOMAIN proposals :
          x \in DOMAIN proposals' /\ proposals'[x] = proposals[x]
    BY <1>2, SubmitTradeEffect
  <2> QED BY <2>1, <2>2
<1>3. ASSUME NEW a \in DOMAIN agents, NEW hash \in Hashes,
             LogDecision(a, hash)
      PROVE  InputsStay
  BY <1>3, TakeIndexType DEF LogDecision
<1>4. ASSUME NEW k \in DOMAIN proposals, NEW c \in Checks,
             NEW left \in Ciphertexts, NEW right \in Ciphertexts,
             NEW out \in Outputs, ExecuteRiskCheck(k, c, left, right, out)
      PROVE  InputsStay
  BY <1>4, CheckEffect
<1>5. ASSUME NEW k \in DOMAIN proposals, RejectTrade(k) \/ ApproveSome(k)
      PROVE  InputsStay
  BY <1>5, FinalizeEffect
<1>6. CASE (\E k \in DOMAIN decisions : MarkExecuted(k)) \/ UNCHANGED vars
  BY <1>6 DEF MarkExecuted, vars
<1> QED
  BY <1>1, <1>2, <1>3, <1>4, <1>5, <1>6 DEF Next, ApproveSome

(* A comparison is of a parameter of the proposal it was asked for and the *)
(* limit of that proposal's agent, for the same check.                     *)
OwnInputs(e) ==
    /\ e.left = proposals[e.proposal].params[e.check]
    /\ e.right = agents[e.proposal[1]].limits[e.check]

(* Proposal k keeps what its latest comparison for check c was written to. *)
KeepsLatest(k, c) ==
    LET kept == proposals[k].fhe[c]
    IN  \/ MadeFor(k, c) = {} /\ kept = Default
        \/ \E i \in MadeFor(k, c) :
             kept = computed[i].out /\ \A j \in MadeFor(k, c) : j <= i

LEMMA ResultsParts ==
    ResultsCompareOwnLimits <=>
        /\ \A i \in DOMAIN computed : OwnInputs(computed[i])
        /\ \A k \in DOMAIN proposals, c \in Checks : KeepsLatest(k, c)
  BY DEF ResultsCompareOwnLimits, OwnInputs, KeepsLatest

(* A step that makes no comparison keeps both parts, but for new proposals *)
LEMMA NoComparison ==
    ASSUME TypeOK, InputsStay, ResultsCompareOwnLimits, computed' = computed,
           \A k \in DOMAIN proposals, c \in Checks :
             proposals'[k].fhe[c] = proposals[k].fhe[c],
           \A k \in DOMAIN proposals' \ DOMAIN proposals, c \in Checks :
             proposals'[k].fhe[c] = Default
    PROVE  ResultsCompareOwnLimits'
<1>1. ASSUME NEW i \in DOMAIN computed' PROVE OwnInputs(computed[i])'
  <2>1. /\ computed[i] = computed'[i]
        /\ computed[i].proposal \in DOMAIN proposals
        /\ computed[i].proposal[1] \in DOMAIN agents
    BY <1>1 DEF TypeOK
  <2>2. OwnInputs(computed[i])
    BY <1>1, ResultsParts
  <2> QED
    BY <2>1, <2>2 DEF OwnInputs, InputsStay
<1>2. ASSUME NEW k \in DOMAIN proposals', NEW c \in Checks
      PROVE  KeepsLatest(k, c)'
  <2>1. MadeFor(k, c)' = MadeFor(k, c)
    BY DEF MadeFor
  <2>2. CASE k \in DOMAIN proposals
    <3>1. KeepsLatest(k, c)
      BY <2>2, ResultsParts
    <3> QED
      BY <2>1, <2>2, <3>1 DEF KeepsLatest
  <2>3. CASE k \notin DOMAIN proposals
    <3>1. MadeFor(k, c) = {}
      BY <2>3 DEF MadeFor, TypeOK
    <3> QED
      BY <1>2, <2>1, <2>3, <3>1 DEF KeepsLatest
  <2> QED BY <2>2, <2>3
<1> QED
  BY <1>1, <1>2 DEF ResultsCompareOwnLimits, OwnInputs, KeepsLatest

(* Whatever accounts callers pass to execute_risk_check, an output used    *)
(* before included, and however checks are repeated: every comparison has  *)
(* its own proposal's parameter and its own agent's limit as inputs, and a *)
(* proposal keeps the account of its latest comparison for each check.     *)
THEOREM ResultsCompare == Spec => []ResultsCompareOwnLimits
<1>1. Init => ResultsCompareOwnLimits
  BY DEF Init, ResultsCompareOwnLimits
<1>2. TypeOK /\ ResultsCompareOwnLimits /\ [Next]_vars
        => ResultsCompareOwnLimits'
  <2> SUFFICES ASSUME TypeOK, ResultsCompareOwnLimits, [Next]_vars
               PROVE  ResultsCompareOwnLimits'
    OBVIOUS
  <2>0. InputsStay
    BY StepsKeepInputs
  <2>1. ASSUME NEW a \in DOMAIN agents, NEW hash \in Hashes,
               NEW params \in Params, SubmitTrade(a, params, hash)
        PROVE  ResultsCompareOwnLimits'
    <3>1. PICK k :
             /\ DOMAIN proposals' = DOMAIN proposals \cup {k}
             /\ \A x \in DOMAIN proposals : proposals'[x] = proposals[x]
             /\ \A c \in Checks : proposals'[k].fhe[c] = Default
             /\ computed' = computed
      BY <2>1, SubmitTradeEffect
    <3> QED
      BY <2>0, <3>1, NoComparison
  <2>2. ASSUME NEW k \in DOMAIN proposals, NEW c \in Checks,
               NEW left \in Ciphertexts, NEW right \in Ciphertexts,
               NEW out \in Outputs, ExecuteRiskCheck(k, c, left, right, out)
        PROVE  ResultsCompareOwnLimits'
    <3> DEFINE n == Len(computed) + 1
               call == [proposal |-> k, check |-> c,
                        left |-> proposals[k].params[c],
                        right |-> agents[k[1]].limits[c], out |-> out]
    <3>1. /\ computed' = Append(computed, call)
          /\ agents' = agents
          /\ DOMAIN proposals' = DOMAIN proposals
          /\ \A x \in DOMAIN proposals : \A d \in Checks :
               proposals'[x].fhe[d] =
                 IF x = k /\ d = c THEN out ELSE proposals[x].fhe[d]
      BY <2>2, CheckEffect
    <3>2. /\ call.proposal = k /\ call.check = c /\ call.out = out
          /\ call.left = proposals[k].params[c]
          /\ call.right = agents[k[1]].limits[c]
      OBVIOUS
    <3>3. /\ computed \in Seq(Comparison)
          /\ Len(computed) \in Nat
          /\ k[1] \in DOMAIN agents
      BY DEF TypeOK
    <3> HIDE DEF call
    <3>4. /\ DOMAIN computed = 1..Len(computed)
          /\ DOMAIN computed' = 1..n
          /\ computed'[n] = call
          /\ \A i \in 1..Len(computed) : computed'[i] = computed[i]
      BY <3>1, <3>3
    <3>5. /\ 1..n = 1..Len(computed) \cup {n}
          /\ n \notin 1..Len(computed)
          /\ n <= n /\ \A i \in 1..Len(computed) : i <= n
      BY <3>3
    <3> HIDE DEF n
    <3>6. ASSUME NEW i \in DOMAIN computed' PROVE OwnInputs(computed[i])'
      <4>1. CASE i = n
        BY <2>0, <3>1, <3>2, <3>4, <4>1 DEF OwnInputs, InputsStay
      <4>2. CASE i # n
        <5>1. /\ i \in DOMAIN computed /\ computed'[i] = computed[i]
              /\ computed[i].proposal \in DOMAIN proposals
              /\ computed[i].proposal[1] \in DOMAIN agents
          BY <3>4, <3>5, <3>6, <4>2 DEF TypeOK
        <5>2. OwnInputs(computed[i])
          BY <5>1, ResultsParts
        <5> QED
          BY <2>0, <5>1, <5>2 DEF OwnInputs, InputsStay
      <4> QED BY <4>1, <4>2
    <3>7. \A x, d : MadeFor(x, d)' = MadeFor(x, d)
                                       \cup (IF x = k /\ d = c THEN {n} ELSE {})
      BY <3>2, <3>4, <3>5 DEF MadeFor
    <3>8. \A x, d : MadeFor(x, d) \subseteq 1..Len(computed)
      BY <3>4 DEF MadeFor
    <3>9. ASSUME NEW x \in DOMAIN proposals', NEW d \in Checks
          PROVE  KeepsLatest(x, d)'
      <4>1. CASE x = k /\ d = c
        <5>1. /\ n \in MadeFor(x, d)'
              /\ \A j \in MadeFor(x, d)' : j <= n
          BY <3>5, <3>7, <3>8, <4>1
        <5>2. proposals'[x].fhe[d] = computed'[n].out
          BY <3>1, <3>2, <3>4, <4>1
        <5> QED
          BY <5>1, <5>2 DEF KeepsLatest
      <4>2. CASE ~(x = k /\ d = c)
        <5>1. KeepsLatest(x, d)
          BY <3>1, <3>9, ResultsParts
        <5>2. /\ MadeFor(x, d)' = MadeFor(x, d)
              /\ \A i \in MadeFor(x, d) : computed'[i] = computed[i]
              /\ proposals'[x].fhe[d] = proposals[x].fhe[d]
          BY <3>1, <3>4, <3>7, <3>8, <3>9, <4>2
        <5> QED
          BY <5>1, <5>2 DEF KeepsLatest
      <4> QED BY <4>1, <4>2
    <3> QED
      BY <3>6, <3>9 DEF ResultsCompareOwnLimits, OwnInputs, KeepsLatest
  <2>3. ASSUME NEW k \in DOMAIN proposals, RejectTrade(k) \/ ApproveSome(k)
        PROVE  ResultsCompareOwnLimits'
    <3>1. /\ DOMAIN proposals' = DOMAIN proposals
          /\ \A x \in DOMAIN proposals : proposals'[x].fhe = proposals[x].fhe
          /\ computed' = computed
      BY <2>3, FinalizeEffect
    <3> QED
      BY <2>0, <3>1, NoComparison
  <2>4. CASE UNCHANGED <<proposals, computed>>
    BY <2>0, <2>4, NoComparison
  <2> QED
    BY <2>1, <2>2, <2>3, <2>4 DEF Next, vars, InitializeAgent, LogDecision,
       MarkExecuted, ApproveSome
<1> QED
  BY <1>1, <1>2, TypeCorrect, PTL DEF Spec

LEMMA SlotsWith ==
    ASSUME NEW f, NEW a, NEW i, NEW v, NEW b
    PROVE  Slots(With(f, <<a, i>>, v), b) =
             IF b = a THEN Slots(f, b) \cup {i} ELSE Slots(f, b)
<1>1. DOMAIN With(f, <<a, i>>, v) = DOMAIN f \cup {<<a, i>>}
  BY DEF With
<1> QED
  BY <1>1 DEF Slots

(* Proposals and decisions of an agent together use each index below its   *)
(* decision_count once, and none above (submit_trade and log_decision      *)
(* share the count).                                                       *)
THEOREM SlotsPartitioned == Spec => []SlotsPartition
<1>1. Init => SlotsPartition
  BY DEF Init, SlotsPartition
<1>2. TypeOK /\ SlotsPartition /\ [Next]_vars => SlotsPartition'
  <2> SUFFICES ASSUME TypeOK, SlotsPartition, [Next]_vars
               PROVE  SlotsPartition'
    OBVIOUS
  <2>0. \A a \in DOMAIN agents : agents[a].count \in Nat
    BY DEF TypeOK, AgentState
  <2>1. ASSUME NEW a \in Authorities, NEW limits \in Limits,
               InitializeAgent(a, limits)
        PROVE  SlotsPartition'
    <3>1. Slots(proposals, a) = {} /\ Slots(decisions, a) = {}
      BY <2>1 DEF InitializeAgent, TypeOK, Slots
    <3>2. /\ DOMAIN agents' = DOMAIN agents \cup {a}
          /\ agents'[a].count = 0
          /\ \A b \in DOMAIN agents : agents'[b] = agents[b]
          /\ UNCHANGED <<proposals, decisions>>
      BY <2>1 DEF InitializeAgent, With
    <3>3. 0..(0 - 1) = {}
      OBVIOUS
    <3> QED
      BY <3>1, <3>2, <3>3 DEF SlotsPartition
  <2>2. ASSUME NEW a \in DOMAIN agents, NEW hash \in Hashes,
               \/ \E params \in Params : SubmitTrade(a, params, hash)
               \/ LogDecision(a, hash)
        PROVE  SlotsPartition'
    <3> DEFINE n == agents[a].count
               Added(f, g, b) == Slots(g, b) = IF b = a
                                                 THEN Slots(f, b) \cup {n}
                                                 ELSE Slots(f, b)
    <3>1. \/ /\ decisions' = decisions
             /\ \A b : Added(proposals, proposals', b)
          \/ /\ proposals' = proposals
             /\ \A b : Added(decisions, decisions', b)
      <4>1. CASE \E params \in Params : SubmitTrade(a, params, hash)
        <5>1. PICK v : /\ proposals' = With(proposals, <<a, n>>, v)
                       /\ decisions' = decisions
          BY <4>1 DEF SubmitTrade
        <5>2. \A b : Added(proposals, With(proposals, <<a, n>>, v), b)
          BY SlotsWith
        <5> QED BY <5>1, <5>2
      <4>2. CASE LogDecision(a, hash)
        <5>1. PICK v : /\ decisions' = With(decisions, <<a, n>>, v)
                       /\ proposals' = proposals
          BY <4>2 DEF LogDecision
        <5>2. \A b : Added(decisions, With(decisions, <<a, n>>, v), b)
          BY SlotsWith
        <5> QED BY <5>1, <5>2
      <4> QED BY <2>2, <4>1, <4>2
    <3>2. /\ DOMAIN agents' = DOMAIN agents
          /\ agents'[a].count = n + 1
          /\ \A b \in DOMAIN agents : b # a => agents'[b] = agents[b]
      BY <2>2, TakeIndexType DEF SubmitTrade, LogDecision
    <3>3. n \in Nat /\ n \notin 0..(n - 1) /\ 0..n = 0..(n - 1) \cup {n}
      BY <2>0
    <3>4. (n + 1) - 1 = n
      BY <3>3
    <3> HIDE DEF n
    <3> SUFFICES ASSUME NEW b \in DOMAIN agents
                 PROVE  /\ Slots(proposals', b) \cap Slots(decisions', b) = {}
                        /\ Slots(proposals', b) \cup Slots(decisions', b)
                             = 0..(agents'[b].count - 1)
      BY <3>2 DEF SlotsPartition
    <3>5. /\ Slots(proposals, b) \cap Slots(decisions, b) = {}
          /\ Slots(proposals, b) \cup Slots(decisions, b)
               = 0..(agents[b].count - 1)
      BY DEF SlotsPartition
    <3>6. CASE b = a
      <4>1. agents'[b].count - 1 = n
        BY <3>2, <3>4, <3>6
      <4>2. Slots(proposals, b) \cup Slots(decisions, b) = 0..(n - 1)
        BY <3>5, <3>6 DEF n
      <4>3. /\ Slots(proposals', b) \cap Slots(decisions', b) = {}
            /\ Slots(proposals', b) \cup Slots(decisions', b)
                 = 0..(n - 1) \cup {n}
        BY <3>1, <3>3, <3>5, <3>6, <4>2
      <4> QED
        BY <3>3, <4>1, <4>3
    <3>7. CASE b # a
      BY <3>1, <3>2, <3>5, <3>7
    <3> QED BY <3>6, <3>7
  <2>3. CASE UNCHANGED <<agents, DOMAIN proposals, DOMAIN decisions>>
    BY <2>3 DEF SlotsPartition, Slots
  <2>4. ASSUME NEW k \in DOMAIN proposals, RejectTrade(k) \/ ApproveSome(k)
        PROVE  SlotsPartition'
    <3>1. /\ DOMAIN proposals' = DOMAIN proposals
          /\ DOMAIN agents' = DOMAIN agents
          /\ \A a \in DOMAIN agents : agents'[a].count = agents[a].count
          /\ decisions' = decisions
      BY <2>4, FinalizeEffect
    <3> QED
      BY <3>1 DEF SlotsPartition, Slots
  <2> QED
    <3>1. ASSUME NEW k \in DOMAIN proposals, NEW c \in Checks,
                 NEW left \in Ciphertexts, NEW right \in Ciphertexts,
                 NEW out \in Outputs, ExecuteRiskCheck(k, c, left, right, out)
          PROVE  SlotsPartition'
      BY <2>3, <3>1 DEF ExecuteRiskCheck
    <3>2. ASSUME NEW k \in DOMAIN decisions, MarkExecuted(k)
          PROVE  SlotsPartition'
      BY <2>3, <3>2 DEF MarkExecuted
    <3>3. CASE UNCHANGED vars
      BY <2>3, <3>3 DEF vars
    <3> QED
      BY <2>1, <2>2, <2>4, <3>1, <3>2, <3>3 DEF Next, ApproveSome
<1> QED
  BY <1>1, <1>2, TypeCorrect, PTL DEF Spec

(* The account that SubmitTrade or LogDecision creates next is never taken, *)
(* so neither ever fails for its address: an agent is stopped by its       *)
(* counter's limit alone (the seeds of both take decision_count).          *)
NextAccountIsFree ==
    \A a \in DOMAIN agents :
        <<a, agents[a].count>> \notin DOMAIN proposals \cup DOMAIN decisions

THEOREM NextAccountsFree == Spec => []NextAccountIsFree
<1>1. SlotsPartition => NextAccountIsFree
  <2> SUFFICES ASSUME SlotsPartition, NEW a \in DOMAIN agents,
                      <<a, agents[a].count>> \in DOMAIN proposals \cup DOMAIN decisions
               PROVE  FALSE
    BY DEF NextAccountIsFree
  <2> DEFINE c == agents[a].count
             k == <<a, c>>
  <2>1. k[1] = a /\ k[2] = c
    OBVIOUS
  <2> HIDE DEF k
  <2>2. c \in Slots(proposals, a) \cup Slots(decisions, a)
    <3>1. CASE k \in DOMAIN proposals
      BY <2>1, <3>1 DEF Slots
    <3>2. CASE k \in DOMAIN decisions
      BY <2>1, <3>2 DEF Slots
    <3> QED
      BY <3>1, <3>2 DEF k
  <2>3. Slots(proposals, a) \cup Slots(decisions, a) = 0..(c - 1)
    BY DEF SlotsPartition
  <2> HIDE DEF c
  <2> QED
    BY <2>2, <2>3
<1> QED
  BY SlotsPartitioned, <1>1, PTL

-----------------------------------------------------------------------------
(* Counting                                                                *)

LEMMA OneMore ==
    ASSUME NEW S, IsFiniteSet(S), NEW x, NEW T, T \subseteq S \cup {x}
    PROVE  /\ Cardinality(S) \in Nat /\ Cardinality(T) \in Nat
           /\ Cardinality(T) <= Cardinality(S) + 1
<1>1. /\ IsFiniteSet(S \cup {x})
      /\ Cardinality(S \cup {x}) <= Cardinality(S) + 1
      /\ Cardinality(S) \in Nat /\ Cardinality(S \cup {x}) \in Nat
  BY FS_AddElement, FS_CardinalityType
<1>2. IsFiniteSet(T) /\ Cardinality(T) <= Cardinality(S \cup {x})
  BY <1>1, FS_Subset
<1>3. Cardinality(T) \in Nat
  BY <1>2, FS_CardinalityType
<1> QED
  BY <1>1, <1>2, <1>3

LEMMA NoMore ==
    ASSUME NEW S, IsFiniteSet(S), NEW T, T \subseteq S
    PROVE  /\ Cardinality(S) \in Nat /\ Cardinality(T) \in Nat
           /\ Cardinality(T) <= Cardinality(S)
  BY FS_Subset, FS_CardinalityType

(* There are finitely many proposals.                                      *)
THEOREM FinitelyMany == Spec => []IsFiniteSet(DOMAIN proposals)
<1>1. Init => IsFiniteSet(DOMAIN proposals)
  BY FS_EmptySet DEF Init
<1>2. TypeOK /\ IsFiniteSet(DOMAIN proposals) /\ [Next]_vars
        => IsFiniteSet(DOMAIN proposals)'
  <2> SUFFICES ASSUME TypeOK, IsFiniteSet(DOMAIN proposals), [Next]_vars
               PROVE  IsFiniteSet(DOMAIN proposals)'
    OBVIOUS
  <2>1. ASSUME NEW a \in DOMAIN agents, NEW hash \in Hashes,
               NEW params \in Params, SubmitTrade(a, params, hash)
        PROVE  IsFiniteSet(DOMAIN proposals)'
    <3>1. PICK k : DOMAIN proposals' = DOMAIN proposals \cup {k}
      BY <2>1, SubmitTradeEffect
    <3> QED
      BY <3>1, FS_AddElement
  <2>2. ASSUME NEW k \in DOMAIN proposals, NEW c \in Checks,
               NEW left \in Ciphertexts, NEW right \in Ciphertexts,
               NEW out \in Outputs, ExecuteRiskCheck(k, c, left, right, out)
        PROVE  IsFiniteSet(DOMAIN proposals)'
    BY <2>2, CheckEffect
  <2>3. ASSUME NEW k \in DOMAIN proposals, RejectTrade(k) \/ ApproveSome(k)
        PROVE  IsFiniteSet(DOMAIN proposals)'
    BY <2>3, FinalizeEffect
  <2>4. CASE UNCHANGED proposals
    BY <2>4
  <2> QED
    BY <2>1, <2>2, <2>3, <2>4 DEF Next, vars, InitializeAgent, LogDecision,
       MarkExecuted, ApproveSome
<1> QED
  BY <1>1, <1>2, TypeCorrect, PTL DEF Spec

(* The counters of an agent are at least the numbers of its proposals that *)
(* read Approved and Rejected: no verdict is shown that was not counted    *)
(* (finalize_trade, trades_approved and trades_rejected).                  *)
THEOREM VerdictsCounted == Spec => []VerdictsAreCounted
<1>1. Init => VerdictsAreCounted
  BY DEF Init, VerdictsAreCounted
<1>2. /\ TypeOK /\ IsFiniteSet(DOMAIN proposals) /\ VerdictsAreCounted
      /\ [Next]_vars
      => VerdictsAreCounted'
  <2> SUFFICES ASSUME TypeOK, IsFiniteSet(DOMAIN proposals),
                      VerdictsAreCounted, [Next]_vars
               PROVE  VerdictsAreCounted'
    OBVIOUS
  <2> DEFINE Was(a, v) == Having(proposals, a, v)
             Is(a, v) == Having(proposals', a, v)
  <2>0. \A a \in DOMAIN agents :
          agents[a].approved \in Nat /\ agents[a].rejected \in Nat
    BY DEF TypeOK, AgentState
  <2>Fin. \A a, v : IsFiniteSet(Was(a, v))
    BY FS_Subset DEF Having
  <2>1. ASSUME NEW a \in Authorities, NEW limits \in Limits,
               InitializeAgent(a, limits)
        PROVE  VerdictsAreCounted'
    <3>1. /\ DOMAIN agents' = DOMAIN agents \cup {a}
          /\ agents'[a].approved = 0 /\ agents'[a].rejected = 0
          /\ \A b \in DOMAIN agents : agents'[b] = agents[b]
          /\ UNCHANGED proposals
      BY <2>1 DEF InitializeAgent, With
    <3>2. \A v : Was(a, v) = {}
      BY <2>1 DEF InitializeAgent, TypeOK, Having
    <3>3. Cardinality({}) = 0
      BY FS_EmptySet
    <3>4. \A b, v : Is(b, v) = Was(b, v)
      BY <3>1 DEF Having
    <3> QED
      BY <3>1, <3>2, <3>3, <3>4 DEF VerdictsAreCounted
  <2>2. ASSUME \A a \in DOMAIN agents :
                 /\ agents'[a].approved = agents[a].approved
                 /\ agents'[a].rejected = agents[a].rejected,
               DOMAIN agents' = DOMAIN agents,
               \A a \in DOMAIN agents, v \in {Approved, Rejected} :
                 Is(a, v) = Was(a, v)
        PROVE  VerdictsAreCounted'
    BY <2>2 DEF VerdictsAreCounted
  <2>3. ASSUME NEW a \in DOMAIN agents, NEW hash \in Hashes,
               NEW params \in Params, SubmitTrade(a, params, hash)
        PROVE  VerdictsAreCounted'
    <3>1. PICK k :
             /\ DOMAIN proposals' = DOMAIN proposals \cup {k}
             /\ \A x \in DOMAIN proposals : proposals'[x] = proposals[x]
             /\ proposals'[k].verdict = Pending
      BY <2>3, SubmitTradeEffect
    <3>2. \A b, v : v \in {Approved, Rejected} => Is(b, v) = Was(b, v)
      BY <3>1 DEF Having, Approved, Rejected, Pending
    <3>3. /\ DOMAIN agents' = DOMAIN agents
          /\ \A b \in DOMAIN agents :
               /\ agents'[b].approved = agents[b].approved
               /\ agents'[b].rejected = agents[b].rejected
      <4>1. agents[a] \in AgentState
        BY DEF TypeOK
      <4> QED
        BY <2>3, <4>1 DEF SubmitTrade, TakeIndex, AgentState
    <3> QED
      BY <2>2, <3>2, <3>3
  <2>4. ASSUME NEW k \in DOMAIN proposals, NEW c \in Checks,
               NEW left \in Ciphertexts, NEW right \in Ciphertexts,
               NEW out \in Outputs, ExecuteRiskCheck(k, c, left, right, out)
        PROVE  VerdictsAreCounted'
    <3>1. /\ DOMAIN proposals' = DOMAIN proposals
          /\ \A x \in DOMAIN proposals :
               proposals'[x].verdict = proposals[x].verdict
          /\ agents' = agents
      BY <2>4, CheckEffect
    <3>2. \A b, v : Is(b, v) = Was(b, v)
      BY <3>1 DEF Having
    <3> QED
      BY <2>2, <3>1, <3>2
  <2>5. ASSUME NEW k \in DOMAIN proposals, RejectTrade(k) \/ ApproveSome(k)
        PROVE  VerdictsAreCounted'
    <3> DEFINE a == k[1]
    <3>0. PICK v : v = IF ApproveSome(k) THEN Approved ELSE Rejected
      OBVIOUS
    <3>1. /\ DOMAIN proposals' = DOMAIN proposals
          /\ \A x \in DOMAIN proposals :
               x # k => proposals'[x].verdict = proposals[x].verdict
          /\ proposals'[k].verdict = v
          /\ DOMAIN agents' = DOMAIN agents
      BY <2>5, <3>0, FinalizeEffect
    <3>2. /\ a \in DOMAIN agents
          /\ agents[a] \in AgentState
      BY DEF TypeOK
    <3>3. /\ \A b \in DOMAIN agents : b # a => agents'[b] = agents[b]
          /\ agents'[a].approved =
               agents[a].approved + (IF ApproveSome(k) THEN 1 ELSE 0)
          /\ agents'[a].rejected =
               agents[a].rejected + (IF ApproveSome(k) THEN 0 ELSE 1)
      <4>1. CASE ApproveSome(k)
        BY <3>2, <4>1 DEF ApproveTrade, ApproveSome, AgentState
      <4>2. CASE ~ApproveSome(k)
        BY <2>5, <3>2, <4>2 DEF RejectTrade, AgentState
      <4> QED BY <4>1, <4>2
    <3>4. /\ \A b, w : b # a => Is(b, w) \subseteq Was(b, w)
          /\ \A w : w # v => Is(a, w) \subseteq Was(a, w)
          /\ Is(a, v) \subseteq Was(a, v) \cup {k}
      <4>1. \A b, w : \A x \in Is(b, w) :
              x = k \/ x \in Was(b, w)
        BY <3>1 DEF Having
      <4>2. \A b, w : k \in Is(b, w) => b = a /\ w = v
        BY <3>1 DEF Having
      <4> QED BY <4>1, <4>2
    <3> HIDE DEF a
    <3>5. \A b, w : (b # a \/ w # v) =>
            /\ Cardinality(Is(b, w)) <= Cardinality(Was(b, w))
            /\ Cardinality(Was(b, w)) \in Nat
            /\ Cardinality(Is(b, w)) \in Nat
      <4> SUFFICES ASSUME NEW b, NEW w, b # a \/ w # v
                   PROVE  /\ Cardinality(Is(b, w))
                               <= Cardinality(Was(b, w))
                          /\ Cardinality(Was(b, w)) \in Nat
                          /\ Cardinality(Is(b, w)) \in Nat
        OBVIOUS
      <4>1. Is(b, w) \subseteq Was(b, w) /\ IsFiniteSet(Was(b, w))
        BY <2>Fin, <3>4
      <4> QED BY <4>1, NoMore
    <3>6. /\ Cardinality(Is(a, v)) <= Cardinality(Was(a, v)) + 1
          /\ Cardinality(Was(a, v)) \in Nat
          /\ Cardinality(Is(a, v)) \in Nat
      BY <2>Fin, <3>4, OneMore
    <3>7. /\ ApproveSome(k) => v = Approved /\ v # Rejected
          /\ ~ApproveSome(k) => v = Rejected /\ v # Approved
      BY <3>0 DEF Approved, Rejected
    <3> SUFFICES ASSUME NEW b \in DOMAIN agents
                 PROVE  /\ Cardinality(Is(b, Approved))
                             <= agents'[b].approved
                        /\ Cardinality(Is(b, Rejected))
                             <= agents'[b].rejected
      BY <3>1 DEF VerdictsAreCounted
    <3>8. /\ Cardinality(Was(b, Approved)) <= agents[b].approved
          /\ Cardinality(Was(b, Rejected)) <= agents[b].rejected
          /\ agents[b].approved \in Nat /\ agents[b].rejected \in Nat
      BY <2>0 DEF VerdictsAreCounted
    <3>9. CASE b # a
      <4>1. agents'[b] = agents[b]
        BY <3>3, <3>9
      <4>2. /\ Cardinality(Is(b, Approved)) <= Cardinality(Was(b, Approved))
            /\ Cardinality(Was(b, Approved)) \in Nat
            /\ Cardinality(Is(b, Approved)) \in Nat
        BY <3>5, <3>9
      <4>3. /\ Cardinality(Is(b, Rejected)) <= Cardinality(Was(b, Rejected))
            /\ Cardinality(Was(b, Rejected)) \in Nat
            /\ Cardinality(Is(b, Rejected)) \in Nat
        BY <3>5, <3>9
      <4> QED
        BY <3>8, <4>1, <4>2, <4>3
    <3>10. CASE b = a /\ ApproveSome(k)
      <4>1. v = Approved /\ v # Rejected
        BY <3>7, <3>10
      <4>2. /\ Cardinality(Is(b, Approved)) <= Cardinality(Was(b, Approved)) + 1
            /\ Cardinality(Was(b, Approved)) \in Nat
            /\ Cardinality(Is(b, Approved)) \in Nat
        BY <3>6, <3>10, <4>1
      <4>3. /\ Cardinality(Is(b, Rejected)) <= Cardinality(Was(b, Rejected))
            /\ Cardinality(Was(b, Rejected)) \in Nat
            /\ Cardinality(Is(b, Rejected)) \in Nat
        BY <3>5, <4>1
      <4>4. /\ agents'[b].approved = agents[b].approved + 1
            /\ agents'[b].rejected = agents[b].rejected
        BY <3>3, <3>8, <3>10
      <4> QED
        BY <3>8, <4>2, <4>3, <4>4
    <3>11. CASE b = a /\ ~ApproveSome(k)
      <4>1. v = Rejected /\ v # Approved
        BY <3>7, <3>11
      <4>2. /\ Cardinality(Is(b, Rejected)) <= Cardinality(Was(b, Rejected)) + 1
            /\ Cardinality(Was(b, Rejected)) \in Nat
            /\ Cardinality(Is(b, Rejected)) \in Nat
        BY <3>6, <3>11, <4>1
      <4>3. /\ Cardinality(Is(b, Approved)) <= Cardinality(Was(b, Approved))
            /\ Cardinality(Was(b, Approved)) \in Nat
            /\ Cardinality(Is(b, Approved)) \in Nat
        BY <3>5, <4>1
      <4>4. /\ agents'[b].rejected = agents[b].rejected + 1
            /\ agents'[b].approved = agents[b].approved
        BY <3>3, <3>8, <3>11
      <4> QED
        BY <3>8, <4>2, <4>3, <4>4
    <3> QED BY <3>9, <3>10, <3>11
  <2>6. ASSUME NEW a \in DOMAIN agents, NEW hash \in Hashes,
               LogDecision(a, hash)
        PROVE  VerdictsAreCounted'
    <3>1. agents[a] \in AgentState /\ UNCHANGED proposals
      BY <2>6 DEF TypeOK, LogDecision
    <3>2. /\ DOMAIN agents' = DOMAIN agents
          /\ \A b \in DOMAIN agents :
               /\ agents'[b].approved = agents[b].approved
               /\ agents'[b].rejected = agents[b].rejected
      BY <2>6, <3>1 DEF LogDecision, TakeIndex, AgentState
    <3> QED
      BY <2>2, <3>1, <3>2 DEF Having
  <2>7. CASE UNCHANGED <<agents, proposals>>
    BY <2>2, <2>7 DEF Having
  <2> QED
    BY <2>1, <2>3, <2>4, <2>5, <2>6, <2>7 DEF Next, vars, MarkExecuted, ApproveSome
<1> QED
  BY <1>1, <1>2, TypeCorrect, FinitelyMany, PTL DEF Spec

-----------------------------------------------------------------------------
(* What a step may never do                                                *)

(* The account of an agent and of a proposal stays, the proposal with its  *)
(* hash; the counters do not go back, nor is a message made unsignable.    *)
AccountsGrow ==
    /\ \A k \in DOMAIN proposals :
         k \in DOMAIN proposals' /\ proposals'[k].hash = proposals[k].hash
    /\ signable \subseteq signable'
    /\ \A a \in DOMAIN agents :
         /\ a \in DOMAIN agents'
         /\ agents'[a].count >= agents[a].count
         /\ agents'[a].approved >= agents[a].approved
         /\ agents'[a].rejected >= agents[a].rejected

LEMMA StepsGrow == TypeOK /\ [Next]_vars => AccountsGrow
<1> SUFFICES ASSUME TypeOK, [Next]_vars PROVE AccountsGrow
  OBVIOUS
<1>0. \A a \in DOMAIN agents :
        /\ agents[a] \in AgentState
        /\ agents[a].count \in Nat
        /\ agents[a].approved \in Nat
        /\ agents[a].rejected \in Nat
  BY DEF TypeOK, AgentState
<1>1. ASSUME NEW a \in Authorities, NEW limits \in Limits,
             InitializeAgent(a, limits)
      PROVE  AccountsGrow
  BY <1>0, <1>1 DEF InitializeAgent, With, AccountsGrow
<1>2. ASSUME NEW a \in DOMAIN agents, TakeIndex(a)
      PROVE  \A b \in DOMAIN agents :
               /\ b \in DOMAIN agents'
               /\ agents'[b].count >= agents[b].count
               /\ agents'[b].approved >= agents[b].approved
               /\ agents'[b].rejected >= agents[b].rejected
  <2> DEFINE new == [agents[a] EXCEPT !.count = @ + 1]
  <2>1. /\ new.count = agents[a].count + 1
        /\ new.approved = agents[a].approved
        /\ new.rejected = agents[a].rejected
    BY <1>0 DEF AgentState
  <2>2. agents' = [agents EXCEPT ![a] = new]
    BY <1>2 DEF TakeIndex
  <2> HIDE DEF new
  <2> QED
    BY <1>0, <2>1, <2>2
<1>3. ASSUME NEW a \in DOMAIN agents, NEW hash \in Hashes,
             NEW params \in Params, SubmitTrade(a, params, hash)
      PROVE  AccountsGrow
  <2>1. /\ DOMAIN proposals \subseteq DOMAIN proposals'
        /\ \A x \in DOMAIN proposals : proposals'[x] = proposals[x]
        /\ signable' = signable
    BY <1>3, SubmitTradeEffect
  <2> QED
    BY <1>2, <1>3, <2>1 DEF SubmitTrade, AccountsGrow
<1>4. ASSUME NEW a \in DOMAIN agents, NEW hash \in Hashes,
             LogDecision(a, hash)
      PROVE  AccountsGrow
  BY <1>2, <1>4 DEF LogDecision, AccountsGrow
<1>5. ASSUME NEW k \in DOMAIN proposals, NEW c \in Checks,
             NEW left \in Ciphertexts, NEW right \in Ciphertexts,
             NEW out \in Outputs, ExecuteRiskCheck(k, c, left, right, out)
      PROVE  AccountsGrow
  <2>1. /\ DOMAIN proposals' = DOMAIN proposals
        /\ UNCHANGED <<agents, signable>>
        /\ \A x \in DOMAIN proposals : proposals'[x].hash = proposals[x].hash
    BY <1>5, CheckEffect
  <2> QED
    BY <1>0, <2>1 DEF AccountsGrow
<1>6. ASSUME NEW k \in DOMAIN proposals, RejectTrade(k) \/ ApproveSome(k)
      PROVE  AccountsGrow
  <2>1. k[1] \in DOMAIN agents
    BY DEF TypeOK
  <2>3. /\ agents[k[1]].count \in Nat /\ agents[k[1]].approved \in Nat
        /\ agents[k[1]].rejected \in Nat
    BY <1>0, <2>1
  <2>2. ASSUME NEW new, agents' = [agents EXCEPT ![k[1]] = new],
               new.count = agents[k[1]].count,
               new.approved >= agents[k[1]].approved,
               new.rejected >= agents[k[1]].rejected
        PROVE  AccountsGrow
    BY <1>0, <1>6, <2>2, FinalizeEffect DEF AccountsGrow
  <2>4. CASE RejectTrade(k)
    <3> DEFINE r == [agents[k[1]] EXCEPT !.rejected = @ + 1]
    <3>1. /\ r.count = agents[k[1]].count
          /\ r.approved = agents[k[1]].approved
          /\ r.rejected = agents[k[1]].rejected + 1
      BY <1>0, <2>1 DEF AgentState
    <3>2. agents' = [agents EXCEPT ![k[1]] = r]
      BY <2>4 DEF RejectTrade
    <3> HIDE DEF r
    <3>3. r.approved >= agents[k[1]].approved
          /\ r.rejected >= agents[k[1]].rejected
      BY <2>3, <3>1
    <3> QED
      BY <2>2, <3>1, <3>2, <3>3
  <2>5. CASE ApproveSome(k)
    <3> DEFINE r == [agents[k[1]] EXCEPT !.approved = @ + 1]
    <3>1. /\ r.count = agents[k[1]].count
          /\ r.approved = agents[k[1]].approved + 1
          /\ r.rejected = agents[k[1]].rejected
      BY <1>0, <2>1 DEF AgentState
    <3>2. agents' = [agents EXCEPT ![k[1]] = r]
      BY <2>5 DEF ApproveTrade, ApproveSome
    <3> HIDE DEF r
    <3>3. r.approved >= agents[k[1]].approved
          /\ r.rejected >= agents[k[1]].rejected
      BY <2>3, <3>1
    <3> QED
      BY <2>2, <3>1, <3>2, <3>3
  <2> QED
    BY <1>6, <2>4, <2>5
<1>7. CASE (\E k \in DOMAIN decisions : MarkExecuted(k)) \/ UNCHANGED vars
  BY <1>0, <1>7 DEF MarkExecuted, vars, AccountsGrow
<1> QED
  BY <1>1, <1>3, <1>4, <1>5, <1>6, <1>7 DEF Next, ApproveSome

(* No transaction takes back what an earlier one showed: the accounts of   *)
(* agents and proposals stay, a proposal keeps its hash, no counter of an  *)
(* agent decreases, and a message stays signable (there is no close in     *)
(* lib.rs, and finalize_trade may be repeated).                            *)
THEOREM AccountsOnlyGrow == Spec => [][AccountsGrow]_vars
  BY StepsGrow, TypeCorrect, PTL DEF Spec
=============================================================================
