--------------------------- MODULE AgentEndpoints ---------------------------
(***************************************************************************)
(* The clients of the chain in backend/services, the endpoints of          *)
(* backend/main.py that use them, and the program on the chain             *)
(* (VapmProgram), which moves on while they wait.                          *)
(*                                                                         *)
(* A request is a task; pc[t] is the await it is suspended at, "done" when *)
(* its response is in loc[t].  A call of an RPC node is two steps: the     *)
(* node answers, or the call raises, and later the task goes on with       *)
(* answer[t].  _send_and_confirm_tx, execute_swap and                      *)
(* poll_message_approval have no endpoint; they are requests of their own. *)
(***************************************************************************)
EXTENDS OnchainReader, BlockchainClient, EncryptClient, DWalletClient,
        FiniteSetsExt

CONSTANTS
    Authorities, Ciphertexts, Limits, Params, Hashes,   \* of VapmProgram
    Outputs, DWallets, U64Max, U32Max, MaxComputations,
    Agent,              \* the wallet of this process
    Message,            \* the dWallet and hash whose signature is polled for
    InFlight, Raised,   \* a call that has no answer yet, or never had one
    Requests,           \* numbers of the requests that may be served at a time
    Setups,             \* the settings and outcomes of initialize explored
    Polls,              \* 30, the polls for a confirmation
    MaxClock,           \* bounds of the exploration: time,
    MaxRequests,        \* requests served (one without live data counts two),
    MaxFaults           \* calls that raise

VARIABLES
    agents, proposals, decisions, computed, signable,   \* VapmProgram
    signed,     \* Ika: the approvals the network has signed
    tx,         \* Solana: what became of the transaction each task sent
    clock,
    pc, loc, answer,    \* where each request is suspended, its locals
    requests, faults

chainVars == <<agents, proposals, decisions, computed, signable>>
networkVars == <<chainVars, signed, tx, clock>>
serviceVars == <<readerVars, clientVars, encryptVars, session>>
taskVars == <<pc, loc, answer, requests, faults>>
vars == <<networkVars, serviceVars, taskVars>>

(* What may have become of a transaction                                   *)
Statuses == {"none", "sent", "processed", "confirmed", "failed", "lost"}

(* What a response may say                                                 *)
Outcomes == {"error", "registered", "success", "failure", "executed",
             "signature"}

Chain == INSTANCE VapmProgram

ASSUME EndpointsAssumption ==
    /\ {InFlight, Raised, None} \cap (Statuses \cup Outcomes) = {}
    /\ None \notin {InFlight, Raised}
    /\ None \notin Chain!AgentState
    /\ None \notin [count : Nat, approved : Nat, rejected : Nat]
    /\ Agent \in Authorities
    /\ Message \in DWallets \X Hashes
    /\ Requests \subseteq Nat
    /\ Polls \in Nat \ {0}
    /\ {MaxClock, MaxRequests, MaxFaults} \subseteq Nat

(* VapmProgram's                                                           *)
ASSUME ChainAssumption ==
    /\ Limits \subseteq [Chain!Checks -> Ciphertexts]
    /\ Params \subseteq [Chain!Checks -> Ciphertexts]
    /\ Chain!Default \notin Outputs
    /\ {U64Max, U32Max, MaxComputations} \subseteq Nat

(* Where a task waits for a call                                           *)
AccountCalls == {"live.agent", "live.trade", "info", "count", "register"}
TxCalls == {"send", "status", "order", "execute"}
Calls == AccountCalls \cup TxCalls \cup {"poll"}

(* The locals of a request.  shown is the count in an AgentInfo.           *)
NoLocals == [start |-> 0, view |-> EmptyView, index |-> 0, shown |-> None,
             count |-> None, wake |-> 0, polls |-> 0, result |-> None]

Init ==
    /\ Chain!Init
    /\ signed = {}
    /\ tx = [t \in Requests |-> "none"]
    /\ clock = 0
    /\ ReaderInit
    /\ ClientInit
    /\ EncryptInit
    /\ DWalletInit
    /\ [deployed |-> deployed, client |-> client, session |-> session,
        encrypting |-> encrypting, nameLength |-> nameLength] \in Setups
    /\ pc = [t \in Requests |-> "idle"]
    /\ loc = [t \in Requests |-> NoLocals]
    /\ answer = [t \in Requests |-> None]
    /\ requests = 0
    /\ faults = 0

(***************************************************************************)
(* The networks                                                            *)
(***************************************************************************)

(* Anybody's transaction, if there is a program                            *)
ChainMoves ==
    /\ deployed
    /\ Chain!Next
    /\ UNCHANGED <<signed, tx, clock, serviceVars, taskVars>>

NetworkSigns(approval) ==
    /\ approval \in signable \ signed
    /\ signed' = signed \cup {approval}
    /\ UNCHANGED <<chainVars, tx, clock, serviceVars, taskVars>>

(* A transaction that was accepted is processed by some node or lost; one  *)
(* that was processed is confirmed, or lost with its fork.                 *)
TxMoves(t) ==
    /\ \/ tx[t] = "sent" /\ tx' \in {[tx EXCEPT ![t] = s] :
                                        s \in {"processed", "failed", "lost"}}
       \/ tx[t] = "processed" /\ tx' \in {[tx EXCEPT ![t] = s] :
                                            s \in {"confirmed", "lost"}}
    /\ UNCHANGED <<chainVars, signed, clock, serviceVars, taskVars>>

Tick ==
    /\ clock < MaxClock
    /\ clock' = clock + 1
    /\ UNCHANGED <<chainVars, signed, tx, serviceVars, taskVars>>

(***************************************************************************)
(* Calls                                                                   *)
(***************************************************************************)

(* Task t goes on to its next await, with locals l.                        *)
Await(t, label, l) ==
    /\ pc' = [pc EXCEPT ![t] = label]
    /\ loc' = [loc EXCEPT ![t] = l]
    /\ answer' = [answer EXCEPT ![t] = IF label \in Calls THEN InFlight ELSE None]

Respond(t, l) == Await(t, "done", l)

CallOutstanding(t, calls) == pc[t] \in calls /\ answer[t] = InFlight

Answers(t, a) ==
    /\ answer' = [answer EXCEPT ![t] = a]
    /\ UNCHANGED <<chainVars, signed, clock, serviceVars, pc, requests>>

(* getAccountInfo, of the agent or of one proposal                         *)
AccountRead(t) ==
    LET k == <<Agent, loc[t].index>>
        found == IF pc[t] = "live.trade"
                   THEN IF k \in DOMAIN proposals THEN proposals[k] ELSE None
                   ELSE IF Agent \in DOMAIN agents THEN agents[Agent] ELSE None
    IN  /\ CallOutstanding(t, AccountCalls)
        /\ Answers(t, found)
        /\ loc' = IF pc[t] = "live.agent"
                    THEN [loc EXCEPT ![t].view.asOf = clock] ELSE loc
        /\ UNCHANGED <<tx, faults>>

(* The MessageApproval: missing, pending or signed                         *)
ApprovalRead(t) ==
    /\ CallOutstanding(t, {"poll"})
    /\ Answers(t, IF Message \in signed THEN "signed"
                  ELSE IF Message \in signable THEN "pending" ELSE None)
    /\ UNCHANGED <<loc, tx, faults>>

TxAccepted(t) ==
    /\ CallOutstanding(t, {"send", "execute"})
    /\ tx' = [tx EXCEPT ![t] = "sent"]
    /\ Answers(t, "signature")
    /\ UNCHANGED <<loc, faults>>

(* getSignatureStatuses knows a transaction that a node has processed; and *)
(* Jupiter has a transaction for an order, or none.                        *)
TxAnswered(t) ==
    /\ \/ /\ CallOutstanding(t, {"status"})
          /\ Answers(t, tx[t])
       \/ /\ CallOutstanding(t, {"order"})
          /\ \E found \in {"transaction", None} : Answers(t, found)
    /\ UNCHANGED <<loc, tx, faults>>

(* The call raises, or answers with an error; the reader takes an error of *)
(* the node for an account that is not there.  What a call asked for may   *)
(* have happened.                                                          *)
CallRaises(t) ==
    /\ CallOutstanding(t, Calls)
    /\ faults < MaxFaults
    /\ faults' = faults + 1
    /\ \/ Answers(t, Raised)
       \/ pc[t] \in {"live.agent", "live.trade"} /\ Answers(t, None)
    /\ \/ UNCHANGED tx
       \/ pc[t] \in {"send", "execute"} /\ tx' = [tx EXCEPT ![t] = "sent"]
    /\ UNCHANGED loc

(***************************************************************************)
(* Requests                                                                *)
(***************************************************************************)

(* Task t takes up a request.  Tasks are alike, and the first idle one     *)
(* does; only requests for live data share state of the process, and the   *)
(* others, which show nothing beside each other, use up more of the bound. *)
Begins(t, cost) ==
    /\ pc[t] = "idle"
    /\ \A u \in Requests : pc[u] = "idle" => t <= u
    /\ requests + cost <= MaxRequests
    /\ requests' = requests + cost
    /\ UNCHANGED <<networkVars, faults>>

(* Task t has the answer it waits for at label.                            *)
Answered(t, label) ==
    /\ pc[t] = label
    /\ answer[t] # InFlight
    /\ UNCHANGED <<networkVars, requests, faults>>

Result(t, result) == [loc[t] EXCEPT !.result = result]

(* The response is sent.  What becomes of a transaction after that is not  *)
(* followed.                                                               *)
ResponseSent(t) ==
    /\ pc[t] = "done"
    /\ Await(t, "idle", NoLocals)
    /\ tx' = [tx EXCEPT ![t] = "none"]
    /\ UNCHANGED <<chainVars, signed, clock, serviceVars, requests, faults>>

(* GET /agent/live: get_live_data, for the address of the client           *)
LiveData(t) ==
    LET begun == [NoLocals EXCEPT !.start = clock]
    IN  /\ Begins(t, 1)
        /\ \/ CacheHit(clock) /\ Respond(t, [begun EXCEPT !.view = cache.view])
           \/ /\ ~CacheHit(clock)
              /\ IF deployed /\ HasKey THEN Await(t, "live.agent", begun)
                                       ELSE Respond(t, begun)
        /\ UNCHANGED serviceVars

(* Mutant: the view is as old as its last account.                         *)
LiveKeptLate(t, view) ==
    /\ KeepView(clock, view)
    /\ Respond(t, [loc[t] EXCEPT !.view = view])
    /\ UNCHANGED <<clientVars, encryptVars, session>>

(* The view is kept and returned, whole or cut short by an error.          *)
LiveKept(t, view) ==
    /\ KeepView(loc[t].start, view)
    /\ Respond(t, [loc[t] EXCEPT !.view = view])
    /\ UNCHANGED <<clientVars, encryptVars, session>>

(* On to the trade at index, if it is to be read                           *)
LiveGoesOn(t, view, index) ==
    IF index < TradesToRead(view.agent)
      THEN /\ Await(t, "live.trade",
                    [loc[t] EXCEPT !.view = view, !.index = index])
           /\ UNCHANGED serviceVars
      ELSE LiveKept(t, view)

LiveAgent(t) ==
    /\ Answered(t, "live.agent")
    /\ IF answer[t] \in {Raised, None}
         THEN LiveKept(t, loc[t].view)
         ELSE \E agent \in ParsedAgents(answer[t]) :
                LiveGoesOn(t, [loc[t].view EXCEPT !.agent = agent], 0)

LiveTrade(t) ==
    LET i == loc[t].index
        view == loc[t].view
    IN  /\ Answered(t, "live.trade")
        /\ CASE answer[t] = Raised -> LiveKept(t, view)
             [] answer[t] = None -> LiveGoesOn(t, view, i + 1)
             [] OTHER -> LiveGoesOn(t, [view EXCEPT
                            !.trades = Append(@, ParseTrade(i, answer[t]))], i + 1)

(* GET /agent/onchain: get_status, get_agent_info, then get_decision_count *)
OnchainStatus(t) ==
    /\ Begins(t, 2)
    /\ CASE ~Initialized -> Respond(t, NoLocals)
         [] Initialized /\ ~deployed ->
                Respond(t, [NoLocals EXCEPT !.shown = decisionCount,
                                            !.count = decisionCount])
         [] OTHER -> Await(t, "info", NoLocals)
    /\ UNCHANGED serviceVars

InfoAnswered(t) ==
    /\ Answered(t, "info")
    /\ CASE answer[t] = Raised -> Respond(t, Result(t, "error"))
         [] answer[t] = None -> Await(t, "count", loc[t])
         [] OTHER -> Await(t, "count", [loc[t] EXCEPT !.shown = answer[t].count])
    /\ UNCHANGED serviceVars

(* GET /decisions/onchain: get_decision_count only                         *)
DecisionsOnchain(t) ==
    /\ Begins(t, 2)
    /\ CASE ~IsEnabled -> Respond(t, [NoLocals EXCEPT !.result = "error"])
         [] IsEnabled /\ ~Initialized -> Respond(t, [NoLocals EXCEPT !.count = 0])
         [] Initialized /\ ~deployed ->
                Respond(t, [NoLocals EXCEPT !.count = decisionCount])
         [] OTHER -> Await(t, "count", NoLocals)
    /\ UNCHANGED serviceVars

(* Mutant: the count is the one kept in memory.                            *)
CountFromMemory(t) ==
    /\ Answered(t, "count")
    /\ Respond(t, [loc[t] EXCEPT !.count = decisionCount])
    /\ UNCHANGED serviceVars

CountAnswered(t) ==
    /\ Answered(t, "count")
    /\ CASE answer[t] = Raised -> Respond(t, Result(t, "error"))
         [] answer[t] = None -> Respond(t, [loc[t] EXCEPT !.count = 0])
         [] OTHER -> Respond(t, [loc[t] EXCEPT !.count = answer[t].count])
    /\ UNCHANGED serviceVars

(* POST /agent/register: register_agent looks for the account and sends    *)
(* nothing, whether it is there or not.                                    *)
Register(t) ==
    /\ Begins(t, 2)
    /\ CASE ~Initialized -> Respond(t, [NoLocals EXCEPT !.result = "error"])
         [] Initialized /\ ~deployed ->
                Respond(t, [NoLocals EXCEPT !.result = "registered"])
         [] OTHER -> Await(t, "register", NoLocals)
    /\ UNCHANGED serviceVars

RegisterAnswered(t) ==
    /\ Answered(t, "register")
    /\ Respond(t, Result(t, IF answer[t] = Raised THEN "error" ELSE "registered"))
    /\ UNCHANGED serviceVars

(* A decision of the executor: its metadata is encrypted, then it is       *)
(* logged.                                                                 *)
Decides ==
    /\ requests + 2 <= MaxRequests
    /\ requests' = requests + 2
    /\ EncryptDecision("confidence", "risk_score")
    /\ LogDecisionLocally
    /\ UNCHANGED <<networkVars, readerVars, session, pc, loc, answer, faults>>

(* POST /trade/submit-demo, after its features: the decision is logged and *)
(* nothing is encrypted or sent.                                           *)
SubmitsDemo ==
    /\ requests + 2 <= MaxRequests
    /\ requests' = requests + 2
    /\ LogDecisionLocally
    /\ UNCHANGED encryptVars
    /\ UNCHANGED <<networkVars, readerVars, session, pc, loc, answer, faults>>

(* _send_and_confirm_tx, which needs the HTTP session                      *)
SendTx(t) ==
    /\ Begins(t, 2)
    /\ IF HasKey THEN Await(t, "send", NoLocals)
                 ELSE Respond(t, [NoLocals EXCEPT !.result = "failure"])
    /\ UNCHANGED serviceVars

SendAnswered(t) ==
    /\ Answered(t, "send")
    /\ IF answer[t] = Raised THEN Respond(t, Result(t, "failure"))
                             ELSE Await(t, "status", loc[t])
    /\ UNCHANGED serviceVars

(* An error of the call is a failure, whatever becomes of the transaction. *)
StatusAnswered(t) ==
    LET confirmed == IF answer[t] = Raised THEN "failure" ELSE Confirmed(answer[t])
    IN  /\ Answered(t, "status")
        /\ IF confirmed = "unknown"
             THEN Await(t, "pause", [loc[t] EXCEPT !.polls = @ + 1])
             ELSE Respond(t, Result(t, confirmed))
        /\ UNCHANGED serviceVars

(* After the last poll, the result is a failure too.                       *)
PauseEnds(t) ==
    /\ Answered(t, "pause")
    /\ IF loc[t].polls < Polls THEN Await(t, "status", loc[t])
                               ELSE Respond(t, Result(t, "failure"))
    /\ UNCHANGED serviceVars

(* execute_swap: an order of Jupiter's, signed, and executed by Jupiter    *)
ExecuteSwap(t) ==
    /\ Begins(t, 2)
    /\ IF Initialized THEN Await(t, "order", NoLocals)
                      ELSE Respond(t, [NoLocals EXCEPT !.result = "failure"])
    /\ UNCHANGED serviceVars

OrderAnswered(t) ==
    /\ Answered(t, "order")
    /\ IF answer[t] \in {Raised, None} THEN Respond(t, Result(t, "failure"))
                                       ELSE Await(t, "execute", loc[t])
    /\ UNCHANGED serviceVars

ExecuteAnswered(t) ==
    /\ Answered(t, "execute")
    /\ Respond(t, Result(t, IF answer[t] = Raised THEN "failure" ELSE "executed"))
    /\ UNCHANGED serviceVars

(* poll_message_approval.  The exploration starts it only when there is    *)
(* time for it to end, and lets no sleep outlast the time it has.          *)
PollApproval(t) ==
    /\ Begins(t, 2)
    /\ clock + Timeout <= MaxClock
    /\ IF session THEN Await(t, "poll", [NoLocals EXCEPT !.start = clock])
                  ELSE Respond(t, NoLocals)
    /\ UNCHANGED serviceVars

PollAnswered(t) ==
    /\ Answered(t, "poll")
    /\ IF answer[t] = "signed"
         THEN Respond(t, Result(t, "signature"))
         ELSE Await(t, "sleep", [loc[t] EXCEPT !.wake = Min({clock + Interval, MaxClock})])
    /\ UNCHANGED serviceVars

PollWakes(t) ==
    /\ Answered(t, "sleep")
    /\ clock >= loc[t].wake
    /\ IF PollsOn(loc[t].start, clock) THEN Await(t, "poll", loc[t])
                                       ELSE Respond(t, loc[t])
    /\ UNCHANGED serviceVars

Request(t) ==
    \/ LiveData(t) \/ OnchainStatus(t) \/ DecisionsOnchain(t) \/ Register(t)
    \/ SendTx(t) \/ ExecuteSwap(t) \/ PollApproval(t)

(* A call ends, or the task goes on after one.                             *)
Proceeds(t) ==
    \/ AccountRead(t) \/ ApprovalRead(t) \/ TxAccepted(t) \/ TxAnswered(t)
    \/ CallRaises(t)
    \/ LiveAgent(t) \/ LiveTrade(t) \/ InfoAnswered(t) \/ CountAnswered(t)
    \/ RegisterAnswered(t) \/ SendAnswered(t) \/ StatusAnswered(t)
    \/ PauseEnds(t) \/ OrderAnswered(t) \/ ExecuteAnswered(t)
    \/ PollAnswered(t) \/ PollWakes(t)

Next ==
    \/ ChainMoves \/ Tick \/ Decides \/ SubmitsDemo
    \/ \E approval \in DWallets \X Hashes : NetworkSigns(approval)
    \/ \E t \in Requests :
        TxMoves(t) \/ Request(t) \/ Proceeds(t) \/ ResponseSent(t)

Spec == Init /\ [][Next]_vars

(* Time passes, every call is answered or raises (the HTTP client gives up *)
(* on one at last), and the event loop runs what is ready.  The networks   *)
(* need do nothing.                                                        *)
FairSpec == Spec /\ WF_vars(Tick) /\ \A t \in Requests : WF_vars(Proceeds(t))

(***************************************************************************)
(* Properties                                                              *)
(***************************************************************************)

Views == {loc[t].view : t \in Requests}
            \cup IF cache = None THEN {} ELSE {cache.view}

ShownAgents == [count : Nat, approved : Nat, rejected : Nat] \cup {None}
ShownTrades == [index : Nat, hash : Hashes,
                verdict : {VerdictLabels[i] : i \in 1..3}]

(* Types.  A call is outstanding only where a task waits for one, the      *)
(* values of a decision are decrypted from accounts of their own, and a    *)
(* view has no more trades than may be read.                               *)
TypeOK ==
    /\ Chain!TypeOK
    /\ signed \subseteq signable
    /\ tx \in [Requests -> Statuses]
    /\ nameLength \in NameLengths
    /\ client \in ClientStates
    /\ decisionCount \in Nat
    /\ \A n \in DOMAIN encryptedValues :
         Decryption(n) = IF n % 2 = 1 THEN "confidence" ELSE "risk_score"
    /\ ~encrypting => encryptedValues = <<>>
    /\ clock \in 0..MaxClock
    /\ \A v \in Views :
         /\ v.agent \in ShownAgents
         /\ v.trades \in Seq(ShownTrades)
         /\ Len(v.trades) <= MaxShown
         /\ v.trades # <<>> => v.agent # None /\ v.asOf \in 0..clock
    /\ \A t \in Requests :
         /\ pc[t] \in Calls \cup {"idle", "pause", "sleep", "done"}
         /\ answer[t] = InFlight => pc[t] \in Calls
         /\ loc[t].polls \in 0..Polls
         /\ loc[t].result \in Outcomes \cup {None}

(* Live data was read less than TTL before it was asked for, however long  *)
(* it took to read and whichever of several readers wrote the cache last:  *)
(* it is cached under the time at which its reading began (get_live_data). *)
LiveDataIsFresh ==
    \A t \in Requests :
        pc[t] = "done" /\ loc[t].view.asOf # None =>
            loc[t].view.asOf > loc[t].start - TTL

(* The agent that a view shows is there, and no counter is ahead of the    *)
(* program's.                                                              *)
AgentIsReal(v) ==
    v.agent # None =>
        /\ Agent \in DOMAIN agents
        /\ v.agent.count <= agents[Agent].count
        /\ v.agent.approved <= agents[Agent].approved
        /\ v.agent.rejected <= agents[Agent].rejected

(* What a view shows, cached or not, the chain has or has had: a trade is  *)
(* at its index under its hash, one shown as approved can be signed by     *)
(* some dWallet, and the agent is there.  With a name of 32 bytes its      *)
(* counters are not ahead of the program's either; with a shorter one they *)
(* may be (CountersAreReal).                                               *)
ViewIsOfChain(v) ==
    /\ \A i \in DOMAIN v.trades :
         LET trade == v.trades[i]
             k == <<Agent, trade.index>>
         IN  /\ k \in DOMAIN proposals
             /\ proposals[k].hash = trade.hash
             /\ trade.verdict = "Approved" =>
                  \E d \in DWallets : <<d, trade.hash>> \in signable
    /\ v.agent # None => Agent \in DOMAIN agents
    /\ nameLength = NameFits => AgentIsReal(v)

(* The agent and the trades in live data are on the chain, and with a name *)
(* of 32 bytes its counters are the program's, although accounts are read  *)
(* one after the other while transactions run, are read by several         *)
(* requests at once and are cached (get_live_data, _parse_trade_proposal). *)
(* Of the two counts in one status, the later one is not the smaller       *)
(* (get_onchain_status).                                                   *)
ShownIsOnChain ==
    /\ \A v \in Views : ViewIsOfChain(v)
    /\ \A t \in Requests :
         pc[t] = "done" /\ loc[t].shown # None /\ loc[t].result # "error" =>
            loc[t].shown <= loc[t].count

(* "Parses AgentState and TradeProposal PDAs using exact byte offsets from *)
(* the deployed Anchor program" (onchain_reader.py): the counters in live  *)
(* data are the program's, whatever the length of the agent's name.        *)
CountersAreReal == \A v \in Views : AgentIsReal(v)

(* A transaction reported as a success has landed, without an error: what  *)
(* was only processed can still be lost.  A failure may have landed        *)
(* (_send_and_confirm_tx).                                                 *)
SuccessIsReal ==
    \A t \in Requests :
        pc[t] = "done" /\ loc[t].result = "success" => tx[t] = "confirmed"

(* Every request is answered, whatever the networks do: the polls for a    *)
(* confirmation and for a signature end (_send_and_confirm_tx,             *)
(* poll_message_approval).                                                 *)
RequestsEnd ==
    \A t \in Requests :
        pc[t] \notin {"idle", "done"} ~> pc[t] = "done"
=============================================================================
