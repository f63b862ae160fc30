---------------------------- MODULE VapmProgram ----------------------------
(***************************************************************************)
(* programs/vapm_decisions/src/lib.rs: the on-chain program.  An action is *)
(* one transaction; Solana runs it atomically, and one that fails (a       *)
(* require!, a constraint on an account, an arithmetic overflow, an error  *)
(* of a program it calls) changes nothing and is no step.                  *)
(*                                                                         *)
(* Accounts at addresses derived from seeds are functions: the agents by   *)
(* authority, the proposals and the decisions by authority and index.  A   *)
(* check compares a parameter of a proposal with a limit of its agent;     *)
(* ciphertexts are references and are never opened here.                   *)
(*                                                                         *)
(* Two programs are called and are not part of the repository.  Encrypt    *)
(* runs a graph on two ciphertexts and writes the result to an output      *)
(* account; Ika keeps a MessageApproval account for each dWallet and       *)
(* message it may sign.  Either may refuse any call.  The output account   *)
(* and the dWallet are the caller's choice, and nothing in the program     *)
(* compares them with anything: an output may be used again, and the       *)
(* dWallet may be another than the one the agent was registered with.      *)
(* That field of AgentState is written once and read by no instruction;    *)
(* it is left out, as is the graph, which is the caller's too.             *)
(***************************************************************************)
EXTENDS Integers, Sequences, FiniteSets

CONSTANTS
    Authorities,        \* wallets that may run an agent
    Ciphertexts,        \* references to encrypted values
    Limits, Params,     \* limits an agent may be given, parameters of trades
    Hashes,             \* message and decision hashes
    Outputs,            \* accounts a caller may name for a result
    DWallets,           \* dWallets a caller may name for an approval
    U64Max, U32Max,     \* the largest values of the program's counters
    MaxComputations     \* bound of the exploration: calls to Encrypt

VARIABLES
    agents,     \* AgentState accounts
    proposals,  \* TradeProposal accounts
    decisions,  \* DecisionRecord accounts
    computed,   \* Encrypt: the comparisons the program asked for, in order
    signable    \* Ika: the dWallets and messages with a MessageApproval

vars == <<agents, proposals, decisions, computed, signable>>

(* check_type                                                              *)
Checks == {"position", "pnl", "drawdown"}

(* Pubkey::default(), in a field whose check was not executed.  It is the  *)
(* address of the System Program, to which no result can be written.       *)
Default == 0

Pending == 0
Approved == 1
Rejected == 2

ASSUME ProgramAssumption ==
    /\ Limits \subseteq [Checks -> Ciphertexts]
    /\ Params \subseteq [Checks -> Ciphertexts]
    /\ Default \notin Outputs
    /\ {U64Max, U32Max, MaxComputations} \subseteq Nat

AgentState == [count : Nat, limits : [Checks -> Ciphertexts],
               approved : Nat, rejected : Nat]

TradeProposal == [params : [Checks -> Ciphertexts],
                  fhe : [Checks -> Outputs \cup {Default}],
                  verdict : {Pending, Approved, Rejected}, hash : Hashes]

DecisionRecord == [hash : Hashes, executed : BOOLEAN]

(* A call of execute_graph: for which check of which proposal (a history), *)
(* the two inputs, and the account of the result                           *)
Comparison == [proposal : Authorities \X Nat, check : Checks,
               left : Ciphertexts, right : Ciphertexts, out : Outputs]

(* f with v at k, where k may be new                                       *)
With(f, k, v) ==
    [x \in DOMAIN f \cup {k} |-> IF x = k THEN v ELSE f[x]]

Init ==
    /\ agents = [a \in {} |-> 0]
    /\ proposals = [k \in {} |-> 0]
    /\ decisions = [k \in {} |-> 0]
    /\ computed = <<>>
    /\ signable = {}

(* Account init fails for an account that exists.                          *)
InitializeAgent(a, limits) ==
    /\ a \notin DOMAIN agents
    /\ agents' = With(agents, a, [count |-> 0, limits |-> limits,
                                  approved |-> 0, rejected |-> 0])
    /\ UNCHANGED <<proposals, decisions, computed, signable>>

(* Mutant: proposals do not advance the index.                             *)
TakeNoIndex(a) ==
    /\ agents[a].count < U64Max
    /\ UNCHANGED agents

(* The next free index of agent a is taken by one more account.            *)
TakeIndex(a) ==
    /\ agents[a].count < U64Max
    /\ agents' = [agents EXCEPT ![a].count = @ + 1]

SubmitTrade(a, params, hash) ==
    LET k == <<a, agents[a].count>>
    IN  /\ k \notin DOMAIN proposals
        /\ proposals' = With(proposals, k,
                [params |-> params, fhe |-> [c \in Checks |-> Default],
                 verdict |-> Pending, hash |-> hash])
        /\ TakeIndex(a)
        /\ UNCHANGED <<decisions, computed, signable>>

Compares(k, c, left, right, out) ==
    /\ Len(computed) < MaxComputations
    /\ computed' = Append(computed, [proposal |-> k, check |-> c,
                                     left |-> left, right |-> right, out |-> out])

(* Mutant: the input accounts are not compared with the stored references. *)
ExecuteAnyCheck(k, c, left, right, out) ==
    /\ Compares(k, c, left, right, out)
    /\ proposals' = [proposals EXCEPT ![k].fhe[c] = out]
    /\ UNCHANGED <<agents, decisions, signable>>

(* Mutant: the reference kept is that of an input account.                 *)
ExecuteCheckInput(k, c, left, right, out) ==
    /\ left = proposals[k].params[c]
    /\ right = agents[k[1]].limits[c]
    /\ Compares(k, c, left, right, out)
    /\ proposals' = [proposals EXCEPT ![k].fhe[c] = right]
    /\ UNCHANGED <<agents, decisions, signable>>

(* The caller passes the two input accounts, left and right, and the       *)
(* output account, in which an earlier result may be.                      *)
ExecuteRiskCheck(k, c, left, right, out) ==
    /\ left = proposals[k].params[c]
    /\ right = agents[k[1]].limits[c]
    /\ Compares(k, c, left, right, out)
    /\ proposals' = [proposals EXCEPT ![k].fhe[c] = out]
    /\ UNCHANGED <<agents, decisions, signable>>

(* Mutant: the release build wraps instead of failing on overflow.         *)
RejectTradeWrapping(k) ==
    /\ proposals' = [proposals EXCEPT ![k].verdict = Rejected]
    /\ agents' = [agents EXCEPT ![k[1]].rejected = (@ + 1) % (U32Max + 1)]
    /\ UNCHANGED <<decisions, computed, signable>>

(* finalize_trade, with risk_passed false                                  *)
RejectTrade(k) ==
    /\ agents[k[1]].rejected < U32Max
    /\ proposals' = [proposals EXCEPT ![k].verdict = Rejected]
    /\ agents' = [agents EXCEPT ![k[1]].rejected = @ + 1]
    /\ UNCHANGED <<decisions, computed, signable>>

(* Mutant: an error of approve_message is ignored.                         *)
ApproveTradeIgnoring(k, dwallet) ==
    /\ agents[k[1]].approved < U32Max
    /\ \/ signable' = signable \cup {<<dwallet, proposals[k].hash>>}
       \/ UNCHANGED signable
    /\ proposals' = [proposals EXCEPT ![k].verdict = Approved]
    /\ agents' = [agents EXCEPT ![k[1]].approved = @ + 1]
    /\ UNCHANGED <<decisions, computed>>

(* finalize_trade, with risk_passed true and approve_message succeeding.   *)
(* risk_passed and the dWallet are the caller's; the fhe fields are not    *)
(* read.                                                                   *)
ApproveTrade(k, dwallet) ==
    /\ agents[k[1]].approved < U32Max
    /\ signable' = signable \cup {<<dwallet, proposals[k].hash>>}
    /\ proposals' = [proposals EXCEPT ![k].verdict = Approved]
    /\ agents' = [agents EXCEPT ![k[1]].approved = @ + 1]
    /\ UNCHANGED <<decisions, computed>>

LogDecision(a, hash) ==
    LET k == <<a, agents[a].count>>
    IN  /\ k \notin DOMAIN decisions
        /\ decisions' = With(decisions, k, [hash |-> hash, executed |-> FALSE])
        /\ TakeIndex(a)
        /\ UNCHANGED <<proposals, computed, signable>>

(* The index is an argument of 32 bits, though the count has 64.           *)
MarkExecuted(k) ==
    /\ k[2] <= U32Max
    /\ ~decisions[k].executed
    /\ decisions' = [decisions EXCEPT ![k].executed = TRUE]
    /\ UNCHANGED <<agents, proposals, computed, signable>>

Next ==
    \/ \E a \in Authorities, limits \in Limits : InitializeAgent(a, limits)
    \/ \E a \in DOMAIN agents, hash \in Hashes :
          \/ \E params \in Params : SubmitTrade(a, params, hash)
          \/ LogDecision(a, hash)
    \/ \E k \in DOMAIN proposals :
          \/ \E c \in Checks, left, right \in Ciphertexts, out \in Outputs :
                ExecuteRiskCheck(k, c, left, right, out)
          \/ RejectTrade(k)
          \/ \E dwallet \in DWallets : ApproveTrade(k, dwallet)
    \/ \E k \in DOMAIN decisions : MarkExecuted(k)

Spec == Init /\ [][Next]_vars

-----------------------------------------------------------------------------
(* Every account belongs to an agent and has its type, and what was        *)
(* compared was compared for a proposal that is there.                     *)
TypeOK ==
    /\ DOMAIN agents \subseteq Authorities
    /\ agents \in [DOMAIN agents -> AgentState]
    /\ DOMAIN proposals \subseteq (DOMAIN agents) \X Nat
    /\ proposals \in [DOMAIN proposals -> TradeProposal]
    /\ DOMAIN decisions \subseteq (DOMAIN agents) \X Nat
    /\ decisions \in [DOMAIN decisions -> DecisionRecord]
    /\ computed \in Seq(Comparison)
    /\ \A i \in DOMAIN computed : computed[i].proposal \in DOMAIN proposals
    /\ signable \subseteq DWallets \X Hashes

(* The indexes of the accounts of agent a in f                             *)
Slots(f, a) == {k[2] : k \in {x \in DOMAIN f : x[1] = a}}

(* Proposals and decisions share decision_count: each index below it is    *)
(* the address of exactly one account, either a proposal or a decision,    *)
(* and there is no account at or above it (the seeds of SubmitTrade and    *)
(* LogDecision).  An account of either kind left at the present count      *)
(* would make every further one of its kind fail until the other kind has  *)
(* moved the count on.                                                     *)
SlotsPartition ==
    \A a \in DOMAIN agents :
        /\ Slots(proposals, a) \cap Slots(decisions, a) = {}
        /\ Slots(proposals, a) \cup Slots(decisions, a)
             = 0..(agents[a].count - 1)

(* A proposal that reads Approved has its message approved for signing, by *)
(* a dWallet its caller named, even if it was rejected before              *)
(* (finalize_trade sets the verdict after the call to Ika).  That it is    *)
(* the agent's dWallet is not claimed: the program does not check it.      *)
ApprovedIsSignable ==
    \A k \in DOMAIN proposals :
        proposals[k].verdict = Approved =>
            \E d \in DWallets : <<d, proposals[k].hash>> \in signable

(* The comparisons that were asked for check c of proposal k               *)
MadeFor(k, c) ==
    {i \in DOMAIN computed : computed[i].proposal = k /\ computed[i].check = c}

(* Whatever accounts callers pass, and however checks are repeated and     *)
(* mixed with those of others (execute_risk_check): every comparison the   *)
(* program asked for has as inputs a parameter of the proposal it was made *)
(* for and the limit of that proposal's own agent for the same check; and  *)
(* a proposal keeps the account its latest comparison for that check was   *)
(* written to, or none if there was none.  Not claimed is that the account *)
(* still holds that result: a later check may name it as its output too.   *)
ResultsCompareOwnLimits ==
    /\ \A i \in DOMAIN computed :
         LET e == computed[i]
         IN  /\ e.left = proposals[e.proposal].params[e.check]
             /\ e.right = agents[e.proposal[1]].limits[e.check]
    /\ \A k \in DOMAIN proposals, c \in Checks :
         LET kept == proposals[k].fhe[c]
         IN  \/ MadeFor(k, c) = {} /\ kept = Default
             \/ \E i \in MadeFor(k, c) :
                  kept = computed[i].out /\ \A j \in MadeFor(k, c) : j <= i

(* The proposals of agent a in f that show verdict v                       *)
Having(f, a, v) == {k \in DOMAIN f : k[1] = a /\ f[k].verdict = v}

(* The counters of an agent cover the verdicts its proposals show, though  *)
(* a verdict may be given again and be overwritten (finalize_trade).       *)
VerdictsAreCounted ==
    \A a \in DOMAIN agents :
        /\ Cardinality(Having(proposals, a, Approved)) <= agents[a].approved
        /\ Cardinality(Having(proposals, a, Rejected)) <= agents[a].rejected

(* "the program will not approve without passing encrypted risk checks"    *)
(* (README.md): an approved proposal has the results of all three.         *)
NoApprovalWithoutChecks ==
    \A k \in DOMAIN proposals :
        proposals[k].verdict = Approved =>
            \A c \in Checks : proposals[k].fhe[c] # Default
=============================================================================
