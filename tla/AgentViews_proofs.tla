-------------------------- MODULE AgentViews_proofs --------------------------
(***************************************************************************)
(* What the endpoints show of the chain: TypeOK and ShownIsOnChain of      *)
(* AgentEndpoints, from the theorems of the program, which here runs among *)
(* the requests.  For any number of requests that read at once, any calls  *)
(* that raise, and any transactions between two reads.                     *)
(***************************************************************************)
EXTENDS AgentEndpoints_proofs

Program == INSTANCE VapmProgram_proofs

-----------------------------------------------------------------------------
(* The program among the requests                                          *)

LEMMA ProgramConstants == Program!ProgramAssumption
BY ChainAssumption DEF Program!ProgramAssumption, Chain!Checks, Program!Checks,
                       Chain!Default, Program!Default

LEMMA SameInit == Chain!Init <=> Program!Init
BY DEF Chain!Init, Program!Init

LEMMA SameNext == Chain!Next <=> Program!Next
BY DEF Chain!Next, Program!Next,
       Chain!InitializeAgent, Program!InitializeAgent,
       Chain!SubmitTrade, Program!SubmitTrade,
       Chain!LogDecision, Program!LogDecision,
       Chain!ExecuteRiskCheck, Program!ExecuteRiskCheck,
       Chain!Compares, Program!Compares,
       Chain!RejectTrade, Program!RejectTrade,
       Chain!ApproveTrade, Program!ApproveTrade,
       Chain!MarkExecuted, Program!MarkExecuted,
       Chain!TakeIndex, Program!TakeIndex, Chain!With, Program!With,
       Chain!Checks, Program!Checks, Chain!Default, Program!Default,
       Chain!Pending, Program!Pending, Chain!Approved, Program!Approved,
       Chain!Rejected, Program!Rejected

LEMMA SameTypes == /\ Chain!TypeOK <=> Program!TypeOK
                   /\ Chain!ApprovedIsSignable <=> Program!ApprovedIsSignable
BY DEF Chain!TypeOK, Program!TypeOK,
       Chain!AgentState, Program!AgentState,
       Chain!TradeProposal, Program!TradeProposal,
       Chain!DecisionRecord, Program!DecisionRecord,
       Chain!Comparison, Program!Comparison,
       Chain!Default, Program!Default,
       Chain!ApprovedIsSignable, Program!ApprovedIsSignable,
       Chain!Checks, Program!Checks,
       Chain!Pending, Program!Pending, Chain!Approved, Program!Approved,
       Chain!Rejected, Program!Rejected

(* Only ChainMoves changes the accounts.                                   *)
LEMMA ProgramSteps == [Next]_vars => [Program!Next]_(Program!vars)
<1> SUFFICES ASSUME [Next]_vars
             PROVE  Program!Next \/ UNCHANGED Program!vars
  OBVIOUS
<1>1. CASE ChainMoves
  BY <1>1, SameNext DEF ChainMoves
<1>2. ASSUME UNCHANGED chainVars PROVE UNCHANGED Program!vars
  BY <1>2 DEF chainVars, Program!vars
<1>3. CASE Tick \/ Decides \/ SubmitsDemo
  BY <1>2, <1>3 DEF Tick, Decides, SubmitsDemo, networkVars
<1>4. CASE \E approval \in DWallets \X Hashes : NetworkSigns(approval)
  BY <1>2, <1>4 DEF NetworkSigns
<1>5. ASSUME NEW t \in Requests, TxMoves(t) \/ ResponseSent(t)
      PROVE  UNCHANGED Program!vars
  BY <1>2, <1>5 DEF TxMoves, ResponseSent
<1>6. ASSUME NEW t \in Requests, Request(t) PROVE UNCHANGED Program!vars
  <2>1. \E cost : Begins(t, cost)
    BY <1>6 DEF Request, LiveData, OnchainStatus, DecisionsOnchain, Register,
                SendTx, ExecuteSwap, PollApproval
  <2>2. QED
    BY <2>1, <1>2 DEF Begins, networkVars
<1>7. ASSUME NEW t \in Requests, Proceeds(t) PROVE UNCHANGED Program!vars
  <2>1. CASE \E a : Answers(t, a)
    BY <2>1, <1>2 DEF Answers
  <2>2. CASE \E label : Answered(t, label)
    BY <2>2, <1>2 DEF Answered, networkVars
  <2>3. \/ \E a : Answers(t, a)
        \/ \E label : Answered(t, label)
    BY <1>7 DEF Proceeds, AccountRead, ApprovalRead, TxAccepted, TxAnswered,
                CallRaises, LiveAgent, LiveTrade, InfoAnswered, CountAnswered,
                RegisterAnswered, SendAnswered, StatusAnswered, PauseEnds,
                OrderAnswered, ExecuteAnswered, PollAnswered, PollWakes
  <2>4. QED
    BY <2>1, <2>2, <2>3
<1>8. CASE UNCHANGED vars
  BY <1>2, <1>8 DEF vars, networkVars
<1>9. QED
  BY <1>1, <1>3, <1>4, <1>5, <1>6, <1>7, <1>8 DEF Next

(* The chain under the requests is a run of the program (ChainMoves).      *)
THEOREM ChainIsProgram == Spec => Program!Spec
<1>1. Init => Program!Init
  BY SameInit DEF Init
<1>2. QED
  BY <1>1, ProgramSteps, PTL DEF Spec, Program!Spec

(* What the proofs below need of the program                               *)
ChainInv == Chain!TypeOK /\ Chain!ApprovedIsSignable

LEMMA ChainInvHolds == Spec => []ChainInv
<1>1. Program!Spec => []Program!TypeOK
  BY ProgramConstants, Program!TypeCorrect
<1>2. Program!Spec => []Program!ApprovedIsSignable
  BY ProgramConstants, Program!ApprovedSignable
<1>3. Program!TypeOK /\ Program!ApprovedIsSignable => ChainInv
  BY SameTypes DEF ChainInv
<1>4. QED
  BY <1>1, <1>2, <1>3, ChainIsProgram, PTL

-----------------------------------------------------------------------------
(* The inductive invariant                                                 *)

(* What the agent's account, its proposals, the approvals to sign, the     *)
(* name and the time are                                                   *)
World == [agents |-> agents, proposals |-> proposals, signable |-> signable,
          name |-> nameLength, now |-> clock]

(* World w2 may come after world w.                                        *)
Grown(w, w2) ==
    /\ w.name = w2.name
    /\ w.now \in Nat /\ w2.now \in Nat /\ w.now <= w2.now
    /\ w.signable \subseteq w2.signable
    /\ \A k \in DOMAIN w.proposals :
         k \in DOMAIN w2.proposals /\ w2.proposals[k].hash = w.proposals[k].hash
    /\ Agent \in DOMAIN w.agents =>
         /\ Agent \in DOMAIN w2.agents
         /\ w.agents[Agent] \in Chain!AgentState
         /\ w2.agents[Agent] \in Chain!AgentState
         /\ w.agents[Agent].count <= w2.agents[Agent].count
         /\ w.agents[Agent].approved <= w2.agents[Agent].approved
         /\ w.agents[Agent].rejected <= w2.agents[Agent].rejected

(* The account a of the agent, or what is shown of it, is not ahead.       *)
Behind(a, w) ==
    /\ Agent \in DOMAIN w.agents
    /\ a.count <= w.agents[Agent].count
    /\ a.approved <= w.agents[Agent].approved
    /\ a.rejected <= w.agents[Agent].rejected

AgentSeen(a, w) == a \in Chain!AgentState /\ Behind(a, w)

(* Proposal p was at index i of the agent.                                 *)
TradeSeen(i, p, w) ==
    /\ <<Agent, i>> \in DOMAIN w.proposals
    /\ w.proposals[<<Agent, i>>].hash = p.hash
    /\ p.hash \in Hashes
    /\ p.verdict \in 0..2
    /\ p.verdict = 1 => \E d \in DWallets : <<d, p.hash>> \in w.signable

(* What ViewIsOfChain says of a trade, in world w                          *)
TradeShown(trade, w) ==
    LET k == <<Agent, trade.index>>
    IN  /\ k \in DOMAIN w.proposals
        /\ w.proposals[k].hash = trade.hash
        /\ trade.verdict = "Approved" =>
             \E d \in DWallets : <<d, trade.hash>> \in w.signable

(* What TypeOK and ViewIsOfChain say of a view, in world w                 *)
ViewSound(v, w) ==
    /\ v.agent \in ShownAgents
    /\ v.trades \in Seq(ShownTrades)
    /\ Len(v.trades) <= MaxShown
    /\ v.trades # <<>> => v.agent # None /\ v.asOf \in 0..w.now
    /\ \A i \in DOMAIN v.trades : TradeShown(v.trades[i], w)
    /\ v.agent # None => Agent \in DOMAIN w.agents
    /\ v.agent # None /\ w.name = NameFits => Behind(v.agent, w)

(* A task with locals l at label, with answer a, that reads live data      *)
ReadsSoundly(label, l, a, w) ==
    /\ ViewSound(l.view, w)
    /\ label = "live.agent" =>
         /\ l.view.trades = <<>>
         /\ a \in {InFlight, Raised, None} \/ AgentSeen(a, w)
         /\ a \notin {InFlight, Raised, None} => l.view.asOf \in 0..w.now
    /\ label = "live.trade" =>
         /\ l.view.agent # None
         /\ l.view.asOf \in 0..w.now
         /\ l.index \in Nat
         /\ Len(l.view.trades) <= l.index
         /\ l.index < TradesToRead(l.view.agent)
         /\ a \in {InFlight, Raised, None} \/ TradeSeen(l.index, a, w)

(* The two counts of a status: the second account is read after the first, *)
(* and is there if the first was.                                          *)
CountsSoundly(label, l, a, w) ==
    /\ label \in {"info", "count"} =>
         a \in {InFlight, Raised, None} \/ AgentSeen(a, w)
    /\ label = "count" /\ l.shown # None =>
         /\ Agent \in DOMAIN w.agents
         /\ l.shown \in Nat /\ l.shown <= w.agents[Agent].count
         /\ \/ a \in {InFlight, Raised}
            \/ a \in Chain!AgentState /\ l.shown <= a.count
    /\ label \notin {"count", "done"} => l.shown = None
    /\ label = "done" /\ l.shown # None /\ l.result # "error" =>
         l.shown <= l.count

(* What TypeOK says of a task.  A poll for a confirmation is one of Polls. *)
WaitsSoundly(label, l, a) ==
    /\ label \in Calls \cup {"idle", "pause", "sleep", "done"}
    /\ a = InFlight => label \in Calls
    /\ l.polls \in 0..Polls
    /\ label \in {"send", "status"} => l.polls < Polls
    /\ l.result \in Outcomes \cup {None}

TaskSound(label, l, a, w) ==
    /\ ReadsSoundly(label, l, a, w)
    /\ CountsSoundly(label, l, a, w)
    /\ WaitsSoundly(label, l, a)

(* What the rest of the process keeps.  Values are kept in pairs.          *)
ProcessInv ==
    /\ signed \subseteq signable
    /\ tx \in [Requests -> Statuses]
    /\ nameLength \in NameLengths
    /\ client \in ClientStates
    /\ decisionCount \in Nat
    /\ encryptedValues \in Seq({"confidence", "risk_score"})
    /\ Len(encryptedValues) % 2 = 0
    /\ \A n \in DOMAIN encryptedValues :
         encryptedValues[n] = IF n % 2 = 1 THEN "confidence" ELSE "risk_score"
    /\ ~encrypting => encryptedValues = <<>>
    /\ clock \in 0..MaxClock

CacheSound == cache # None => ViewSound(cache.view, World)

(* The inductive invariant, beside that of the program                     *)
ViewsInv ==
    /\ ProcessInv
    /\ CacheSound
    /\ \A t \in Requests : TaskSound(pc[t], loc[t], answer[t], World)

-----------------------------------------------------------------------------
(* What was seen stays true                                                *)

(* Time goes on, and the name is never another.                            *)
LEMMA TimeAndName ==
    ASSUME clock \in Nat, [Next]_vars
    PROVE  clock' \in Nat /\ clock <= clock' /\ nameLength' = nameLength
<1>1. ASSUME UNCHANGED clock, UNCHANGED nameLength
      PROVE  clock' \in Nat /\ clock <= clock' /\ nameLength' = nameLength
  BY <1>1
<1>2. CASE Tick
  BY <1>2 DEF Tick, serviceVars, readerVars
<1>3. CASE ChainMoves \/ \E approval \in DWallets \X Hashes : NetworkSigns(approval)
  BY <1>1, <1>3 DEF ChainMoves, NetworkSigns, serviceVars, readerVars
<1>4. CASE Decides \/ SubmitsDemo
  BY <1>1, <1>4 DEF Decides, SubmitsDemo, networkVars, readerVars
<1>5. ASSUME NEW t \in Requests, TxMoves(t) \/ ResponseSent(t)
      PROVE  UNCHANGED clock /\ UNCHANGED nameLength
  BY <1>5 DEF TxMoves, ResponseSent, serviceVars, readerVars
<1>6. ASSUME NEW t \in Requests, Request(t)
      PROVE  UNCHANGED clock /\ UNCHANGED nameLength
  <2>1. UNCHANGED serviceVars /\ \E cost : Begins(t, cost)
    BY <1>6 DEF Request, LiveData, OnchainStatus, DecisionsOnchain, Register,
                SendTx, ExecuteSwap, PollApproval
  <2>2. QED
    BY <2>1 DEF Begins, networkVars, serviceVars, readerVars
<1>7. ASSUME NEW t \in Requests, Proceeds(t)
      PROVE  UNCHANGED clock /\ UNCHANGED nameLength
  <2>1. CASE \E a : Answers(t, a)
    BY <2>1 DEF Answers, serviceVars, readerVars
  <2>2. ASSUME NEW label, Answered(t, label), UNCHANGED serviceVars
        PROVE  UNCHANGED clock /\ UNCHANGED nameLength
    BY <2>2 DEF Answered, networkVars, serviceVars, readerVars
  <2>3. ASSUME NEW label, Answered(t, label), NEW view, LiveKept(t, view)
        PROVE  UNCHANGED clock /\ UNCHANGED nameLength
    BY <2>3 DEF Answered, networkVars, LiveKept, KeepView
  <2>4. \/ \E a : Answers(t, a)
        \/ \E label : Answered(t, label) /\ UNCHANGED serviceVars
        \/ LiveAgent(t) \/ LiveTrade(t)
    BY <1>7 DEF Proceeds, AccountRead, ApprovalRead, TxAccepted, TxAnswered,
                CallRaises, InfoAnswered, CountAnswered, RegisterAnswered,
                SendAnswered, StatusAnswered, PauseEnds, OrderAnswered,
                ExecuteAnswered, PollAnswered, PollWakes
  <2>5. CASE LiveAgent(t) \/ LiveTrade(t)
    <3>1. /\ \E label : Answered(t, label)
          /\ \/ UNCHANGED serviceVars
             \/ \E view : LiveKept(t, view)
      BY <2>5 DEF LiveAgent, LiveTrade, LiveGoesOn
    <3>2. QED
      BY <3>1, <2>2, <2>3
  <2>6. QED
    BY <2>1, <2>2, <2>4, <2>5
<1>8. CASE UNCHANGED vars
  BY <1>1, <1>8 DEF vars, networkVars, serviceVars, readerVars
<1>9. QED
  BY <1>1, <1>2, <1>3, <1>4, <1>5, <1>6, <1>7, <1>8 DEF Next

LEMMA WorldGrows ==
    ASSUME ChainInv, ChainInv', clock \in Nat, [Next]_vars
    PROVE  Grown(World, World')
<1>1. Program!AccountsGrow
  BY ProgramConstants, SameTypes, ProgramSteps, Program!StepsGrow DEF ChainInv
<1>2. /\ \A a \in DOMAIN agents : agents[a] \in Chain!AgentState
      /\ \A a \in DOMAIN agents' : agents'[a] \in Chain!AgentState
  BY DEF ChainInv, Chain!TypeOK
<1>3. \A a \in Chain!AgentState :
        a.count \in Nat /\ a.approved \in Nat /\ a.rejected \in Nat
  BY DEF Chain!AgentState
<1>4. QED
  BY <1>1, <1>2, <1>3, TimeAndName DEF Program!AccountsGrow, Grown, World

LEMMA SeenStays ==
    ASSUME NEW w, NEW w2, Grown(w, w2)
    PROVE  /\ \A a : AgentSeen(a, w) => AgentSeen(a, w2)
           /\ \A i, p : TradeSeen(i, p, w) => TradeSeen(i, p, w2)
           /\ \A trade : TradeShown(trade, w) => TradeShown(trade, w2)
           /\ \A a \in ShownAgents \ {None} : Behind(a, w) => Behind(a, w2)
<1>1. /\ \A a \in Chain!AgentState :
           a.count \in Nat /\ a.approved \in Nat /\ a.rejected \in Nat
      /\ \A a \in ShownAgents \ {None} :
           a.count \in Nat /\ a.approved \in Nat /\ a.rejected \in Nat
  BY DEF Chain!AgentState, ShownAgents
<1>2. ASSUME NEW a \in Chain!AgentState \cup (ShownAgents \ {None}), Behind(a, w)
      PROVE  Behind(a, w2)
  BY <1>1, <1>2 DEF Behind, Grown
<1>3. \A trade : TradeShown(trade, w) => TradeShown(trade, w2)
  BY DEF TradeShown, Grown
<1>4. \A i, p : TradeSeen(i, p, w) => TradeSeen(i, p, w2)
  BY DEF TradeSeen, Grown
<1>5. QED
  BY <1>2, <1>3, <1>4 DEF AgentSeen

LEMMA ViewStays ==
    ASSUME NEW w, NEW w2, Grown(w, w2), NEW v, ViewSound(v, w)
    PROVE  ViewSound(v, w2)
<1>1. \A i \in DOMAIN v.trades : TradeShown(v.trades[i], w2)
  BY SeenStays DEF ViewSound
<1>2. v.agent # None /\ w2.name = NameFits => Behind(v.agent, w2)
  BY SeenStays DEF ViewSound, Grown
<1>3. 0..w.now \subseteq 0..w2.now
  BY DEF Grown
<1>4. /\ w.name = w2.name
      /\ Agent \in DOMAIN w.agents => Agent \in DOMAIN w2.agents
  BY DEF Grown
<1>5. QED
  BY <1>1, <1>2, <1>3, <1>4 DEF ViewSound

LEMMA TaskStays ==
    ASSUME NEW w, NEW w2, Grown(w, w2),
           NEW label, NEW l, NEW a, TaskSound(label, l, a, w)
    PROVE  TaskSound(label, l, a, w2)
<1>1. 0..w.now \subseteq 0..w2.now
  BY DEF Grown
<1>2. ReadsSoundly(label, l, a, w2)
  BY <1>1, SeenStays, ViewStays DEF TaskSound, ReadsSoundly
<1>3. \A c \in Nat : Agent \in DOMAIN w.agents /\ c <= w.agents[Agent].count =>
        Agent \in DOMAIN w2.agents /\ c <= w2.agents[Agent].count
  BY DEF Grown, Chain!AgentState
<1>4. CountsSoundly(label, l, a, w2)
  BY <1>3, SeenStays DEF TaskSound, CountsSoundly
<1>5. QED
  BY <1>2, <1>4 DEF TaskSound

-----------------------------------------------------------------------------
(* One task at a time                                                      *)

(* What the steps below assume                                             *)
Known == EndpointsInv /\ ChainInv /\ ViewsInv

TasksInv ==
    /\ CacheSound
    /\ \A t \in Requests : TaskSound(pc[t], loc[t], answer[t], World)

(* What a task that comes to label is answered at first                    *)
Awaited(label) == IF label \in Calls THEN InFlight ELSE None

LEMMA CacheStaysSound ==
    ASSUME Known, Grown(World, World'), cache' = cache
    PROVE  CacheSound'
BY ViewStays DEF Known, ViewsInv, CacheSound

LEMMA NoTaskMoves ==
    ASSUME Known, Grown(World, World'), UNCHANGED <<pc, loc, answer, cache>>
    PROVE  TasksInv'
<1>1. ASSUME NEW t \in Requests
      PROVE  TaskSound(pc[t], loc[t], answer[t], World')
  BY TaskStays DEF Known, ViewsInv
<1>2. QED
  BY <1>1, CacheStaysSound DEF TasksInv

LEMMA OneTaskMoves ==
    ASSUME Known, Grown(World, World'), NEW t \in Requests,
           \A u \in Requests \ {t} :
             pc'[u] = pc[u] /\ loc'[u] = loc[u] /\ answer'[u] = answer[u],
           TaskSound(pc'[t], loc'[t], answer'[t], World'), CacheSound'
    PROVE  TasksInv'
<1>1. ASSUME NEW u \in Requests, u # t
      PROVE  TaskSound(pc'[u], loc'[u], answer'[u], World')
  BY <1>1, TaskStays DEF Known, ViewsInv
<1>2. QED
  BY <1>1 DEF TasksInv

LEMMA AwaitSound ==
    ASSUME Known, Grown(World, World'), NEW t \in Requests, NEW label, NEW l,
           Await(t, label, l), TaskSound(label, l, Awaited(label), World'),
           CacheSound'
    PROVE  TasksInv'
<1>1. /\ pc'[t] = label /\ loc'[t] = l /\ answer'[t] = Awaited(label)
      /\ \A u \in Requests \ {t} :
           pc'[u] = pc[u] /\ loc'[u] = loc[u] /\ answer'[u] = answer[u]
  BY DEF Await, Awaited, Known, EndpointsInv
<1>2. QED
  BY <1>1, OneTaskMoves

(* The world while a task takes a step of its own                          *)
LEMMA SameWorld ==
    ASSUME Known, UNCHANGED <<chainVars, clock, nameLength>>
    PROVE  World' = World /\ Grown(World, World')
<1>1. World' = World
  BY DEF chainVars, World
<1>2. Agent \in DOMAIN agents => agents[Agent] \in Chain!AgentState
  BY DEF Known, ChainInv, Chain!TypeOK
<1>3. \A a \in Chain!AgentState :
        a.count \in Nat /\ a.approved \in Nat /\ a.rejected \in Nat
  BY DEF Chain!AgentState
<1>4. clock \in Nat
  BY DEF Known, EndpointsInv
<1>5. Grown(World, World)
  BY <1>2, <1>3, <1>4 DEF Grown, World
<1>6. QED
  BY <1>1, <1>5

(* An empty view is sound, and so is what a request begins with.           *)
LEMMA BegunSound ==
    ASSUME NEW w, NEW l, l.view = EmptyView,
           NEW label \in Calls \cup {"idle", "done"}, label # "live.trade",
           l.shown = None \/ (label = "done" /\ l.shown <= l.count),
           l.polls = 0, l.result \in Outcomes \cup {None}
    PROVE  TaskSound(label, l, Awaited(label), w)
<1>1. ViewSound(EmptyView, w)
  <2>1. /\ EmptyView.agent = None /\ EmptyView.trades = <<>>
    BY DEF EmptyView
  <2>2. None \in ShownAgents /\ <<>> \in Seq(ShownTrades) /\ Len(<<>>) = 0
    BY DEF ShownAgents
  <2>3. QED
    BY <2>1, <2>2, ReaderAssumption DEF ViewSound
<1>2. EmptyView.trades = <<>>
  BY DEF EmptyView
<1>3. ReadsSoundly(label, l, Awaited(label), w)
  BY <1>1, <1>2 DEF ReadsSoundly, Awaited, Calls, AccountCalls
<1>4. CountsSoundly(label, l, Awaited(label), w)
  BY DEF CountsSoundly, Awaited, Calls, AccountCalls
<1>5. WaitsSoundly(label, l, Awaited(label))
  BY EndpointsAssumption DEF WaitsSoundly, Awaited
<1>6. QED
  BY <1>3, <1>4, <1>5 DEF TaskSound

(* What becomes of each local                                              *)
LEMMA Fields ==
    ASSUME NEW l, DOMAIN l = DOMAIN NoLocals, NEW v
    PROVE  /\ LET m == [l EXCEPT !.result = v]
              IN  /\ m.view = l.view /\ m.shown = l.shown /\ m.count = l.count
                  /\ m.polls = l.polls /\ m.result = v
           /\ LET m == [l EXCEPT !.shown = v]
              IN  /\ m.view = l.view /\ m.shown = v /\ m.count = l.count
                  /\ m.polls = l.polls /\ m.result = l.result
           /\ LET m == [l EXCEPT !.count = v]
              IN  /\ m.view = l.view /\ m.shown = l.shown /\ m.count = v
                  /\ m.polls = l.polls /\ m.result = l.result
           /\ LET m == [l EXCEPT !.polls = v]
              IN  /\ m.view = l.view /\ m.shown = l.shown /\ m.count = l.count
                  /\ m.polls = v /\ m.result = l.result
           /\ LET m == [l EXCEPT !.wake = v]
              IN  /\ m.view = l.view /\ m.shown = l.shown /\ m.count = l.count
                  /\ m.polls = l.polls /\ m.result = l.result
           /\ LET m == [l EXCEPT !.start = v]
              IN  /\ m.view = l.view /\ m.shown = l.shown /\ m.count = l.count
                  /\ m.polls = l.polls /\ m.result = l.result
           /\ LET m == [l EXCEPT !.view = v]
              IN  /\ m.view = v /\ m.shown = l.shown /\ m.count = l.count
                  /\ m.polls = l.polls /\ m.result = l.result
<1>1. {"view", "shown", "count", "polls", "result", "wake", "start"}
        \subseteq DOMAIN l
  BY DEF NoLocals
<1>2. QED
  BY <1>1

LEMMA NoLocalsFields ==
    /\ DOMAIN NoLocals = DOMAIN NoLocals
    /\ NoLocals.view = EmptyView /\ NoLocals.shown = None
    /\ NoLocals.polls = 0 /\ NoLocals.result = None
BY DEF NoLocals

(* A request is taken up.                                                  *)
LEMMA RequestSound ==
    ASSUME Known, NEW t \in Requests, Request(t)
    PROVE  TasksInv'
<1>1. UNCHANGED networkVars /\ UNCHANGED serviceVars
  BY DEF Request, LiveData, OnchainStatus, DecisionsOnchain, Register,
         SendTx, ExecuteSwap, PollApproval, Begins
<1>2. cache' = cache /\ World' = World /\ Grown(World, World')
  BY <1>1, SameWorld DEF networkVars, serviceVars, readerVars
<1>3. CacheSound'
  BY <1>2, CacheStaysSound
<1>4. ASSUME NEW label \in Calls \cup {"done"}, label # "live.trade",
             NEW l, Await(t, label, l), l.view = EmptyView,
             l.shown = None \/ (label = "done" /\ l.shown <= l.count),
             l.polls = 0, l.result \in Outcomes \cup {None}
      PROVE  TasksInv'
  BY <1>2, <1>3, <1>4, BegunSound, AwaitSound
<1>5. {"live.agent", "info", "count", "register", "send", "order", "poll"}
        \subseteq Calls
  BY DEF Calls, AccountCalls, TxCalls
<1>6. {"error", "failure", "registered"} \subseteq Outcomes
  BY DEF Outcomes
<1>7. decisionCount \in Nat
  BY DEF Known, ViewsInv, ProcessInv
<1>8. CASE LiveData(t)
  <2> DEFINE begun == [NoLocals EXCEPT !.start = clock]
             hit == [begun EXCEPT !.view = cache.view]
  <2>1. /\ begun.view = EmptyView /\ begun.shown = None
        /\ begun.polls = 0 /\ begun.result = None
        /\ DOMAIN begun = DOMAIN NoLocals
    BY Fields, NoLocalsFields
  <2>2. /\ hit.view = cache.view /\ hit.shown = None
        /\ hit.polls = 0 /\ hit.result = None
    <3> HIDE DEF begun
    <3> QED
      BY <2>1, Fields
  <2>3. \/ CacheHit(clock) /\ Await(t, "done", hit)
        \/ Await(t, "live.agent", begun) \/ Await(t, "done", begun)
    BY <1>8 DEF LiveData, Respond
  <2> HIDE DEF begun, hit
  <2>4. CASE CacheHit(clock) /\ Await(t, "done", hit)
    <3>1. ViewSound(hit.view, World)
      BY <2>2, <2>4 DEF CacheHit, Known, ViewsInv, CacheSound
    <3>2. /\ ReadsSoundly("done", hit, Awaited("done"), World)
          /\ CountsSoundly("done", hit, Awaited("done"), World)
      BY <3>1, <2>2 DEF ReadsSoundly, CountsSoundly
    <3>3. "done" \notin Calls /\ None # InFlight
      BY EndpointsAssumption DEF Calls, AccountCalls, TxCalls
    <3>4. WaitsSoundly("done", hit, Awaited("done"))
      BY <2>2, <3>3, EndpointsAssumption DEF WaitsSoundly, Awaited
    <3>5. QED
      BY <3>2, <3>4, <2>4, <1>2, <1>3, AwaitSound DEF TaskSound
  <2>5. QED
    BY <2>1, <2>3, <2>4, <1>4, <1>5
<1>9. CASE OnchainStatus(t)
  <2> DEFINE some == [NoLocals EXCEPT !.shown = decisionCount]
             both == [some EXCEPT !.count = decisionCount]
  <2>1. /\ some.view = EmptyView /\ some.shown = decisionCount
        /\ some.polls = 0 /\ some.result = None
        /\ DOMAIN some = DOMAIN NoLocals
    BY Fields, NoLocalsFields
  <2>2. /\ both.view = EmptyView /\ both.shown <= both.count
        /\ both.polls = 0 /\ both.result = None
    <3> HIDE DEF some
    <3> QED
      BY <2>1, <1>7, Fields
  <2>3. \/ Await(t, "done", NoLocals) \/ Await(t, "done", both)
        \/ Await(t, "info", NoLocals)
    BY <1>9 DEF OnchainStatus, Respond
  <2> HIDE DEF both
  <2>4. QED
    BY <2>2, <2>3, <1>4, <1>5, NoLocalsFields
<1>10. ASSUME NEW l, NEW label \in Calls \cup {"done"}, label # "live.trade",
              Await(t, label, l),
              \/ l = NoLocals
              \/ \E r \in Outcomes : l = [NoLocals EXCEPT !.result = r]
              \/ \E n : l = [NoLocals EXCEPT !.count = n]
              \/ \E n : l = [NoLocals EXCEPT !.start = n]
       PROVE  TasksInv'
  <2> DEFINE Fresh == /\ l.view = EmptyView /\ l.shown = None
                     /\ l.polls = 0 /\ l.result \in Outcomes \cup {None}
  <2>1. ASSUME l = NoLocals PROVE Fresh
    BY <2>1, NoLocalsFields
  <2>2. ASSUME NEW r \in Outcomes, l = [NoLocals EXCEPT !.result = r]
        PROVE  Fresh
    BY <2>2, Fields, NoLocalsFields
  <2>3. ASSUME NEW n, l = [NoLocals EXCEPT !.count = n] PROVE Fresh
    BY <2>3, Fields, NoLocalsFields
  <2>4. ASSUME NEW n, l = [NoLocals EXCEPT !.start = n] PROVE Fresh
    BY <2>4, Fields, NoLocalsFields
  <2>5. Fresh
    BY <1>10, <2>1, <2>2, <2>3, <2>4
  <2>6. Await(t, label, l) /\ label # "live.trade"
    BY <1>10
  <2>7. QED
    BY <2>5, <2>6, <1>4
<1>11. CASE DecisionsOnchain(t)
  BY <1>5, <1>6, <1>10, <1>11 DEF DecisionsOnchain, Respond
<1>12. CASE Register(t)
  BY <1>5, <1>6, <1>10, <1>12 DEF Register, Respond
<1>13. CASE SendTx(t) \/ ExecuteSwap(t) \/ PollApproval(t)
  BY <1>5, <1>6, <1>10, <1>13 DEF SendTx, ExecuteSwap, PollApproval, Respond
<1>14. QED
  BY <1>8, <1>9, <1>11, <1>12, <1>13 DEF Request

-----------------------------------------------------------------------------
(* A call ends                                                             *)

(* Task t gets the answer a.                                               *)
LEMMA AnswerSound ==
    ASSUME Known, NEW t \in Requests, NEW a, Answers(t, a),
           \A u \in Requests \ {t} : loc'[u] = loc[u],
           TaskSound(pc[t], loc'[t], a, World)
    PROVE  TasksInv'
<1>1. UNCHANGED <<pc, cache, chainVars, clock, nameLength>>
  BY DEF Answers, serviceVars, readerVars
<1>2. World' = World /\ Grown(World, World') /\ CacheSound'
  BY <1>1, SameWorld, CacheStaysSound
<1>3. /\ pc'[t] = pc[t] /\ answer'[t] = a
      /\ \A u \in Requests \ {t} : pc'[u] = pc[u] /\ answer'[u] = answer[u]
  BY <1>1 DEF Answers, Known, EndpointsInv
<1>4. QED
  BY <1>2, <1>3, OneTaskMoves

(* Where no account is awaited, any answer will do; a call may raise       *)
(* anywhere, and the reader may find nothing.                              *)
LEMMA OtherAnswers ==
    ASSUME NEW label \in Calls, NEW l, NEW w, TaskSound(label, l, InFlight, w)
    PROVE  /\ TaskSound(label, l, Raised, w)
           /\ label \in {"live.agent", "live.trade"} =>
                TaskSound(label, l, None, w)
           /\ label \notin {"live.agent", "live.trade", "info", "count"} =>
                \A a : TaskSound(label, l, a, w)
<1>1. ReadsSoundly(label, l, Raised, w) /\ CountsSoundly(label, l, Raised, w)
  BY DEF TaskSound, ReadsSoundly, CountsSoundly
<1>2. \A a : WaitsSoundly(label, l, a)
  BY DEF TaskSound, WaitsSoundly
<1>3. ASSUME label \notin {"live.agent", "live.trade", "info", "count"}, NEW a
      PROVE  ReadsSoundly(label, l, a, w) /\ CountsSoundly(label, l, a, w)
  BY <1>3 DEF TaskSound, ReadsSoundly, CountsSoundly
<1>4. ASSUME label \in {"live.agent", "live.trade"}
      PROVE  ReadsSoundly(label, l, None, w) /\ CountsSoundly(label, l, None, w)
  BY <1>4 DEF TaskSound, ReadsSoundly, CountsSoundly
<1>5. WaitsSoundly(label, l, None)
  BY <1>2
<1>6. QED
  BY <1>1, <1>2, <1>3, <1>4, <1>5 DEF TaskSound

(* What getAccountInfo finds is on the chain.                              *)
LEMMA FoundIsThere ==
    ASSUME Known
    PROVE  /\ Agent \in DOMAIN agents => AgentSeen(agents[Agent], World)
           /\ \A i : <<Agent, i>> \in DOMAIN proposals =>
                TradeSeen(i, proposals[<<Agent, i>>], World)
<1>1. Agent \in DOMAIN agents => AgentSeen(agents[Agent], World)
  BY DEF Known, ChainInv, Chain!TypeOK, Chain!AgentState, AgentSeen, Behind,
         World
<1>2. ASSUME NEW i, <<Agent, i>> \in DOMAIN proposals
      PROVE  TradeSeen(i, proposals[<<Agent, i>>], World)
  <2>1. proposals[<<Agent, i>>] \in Chain!TradeProposal
    BY <1>2 DEF Known, ChainInv, Chain!TypeOK
  <2>2. proposals[<<Agent, i>>].verdict = 1 =>
          \E d \in DWallets : <<d, proposals[<<Agent, i>>].hash>> \in signable
    BY <1>2 DEF Known, ChainInv, Chain!ApprovedIsSignable, Chain!Approved
  <2>3. QED
    BY <1>2, <2>1, <2>2 DEF Chain!TradeProposal, Chain!Pending,
         Chain!Approved, Chain!Rejected, TradeSeen, World
<1>3. QED
  BY <1>1, <1>2

LEMMA AccountReadSound ==
    ASSUME Known, NEW t \in Requests, AccountRead(t)
    PROVE  TasksInv'
<1> DEFINE l == loc[t]
           k == <<Agent, l.index>>
           account == IF Agent \in DOMAIN agents THEN agents[Agent] ELSE None
           trade == IF k \in DOMAIN proposals THEN proposals[k] ELSE None
<1>1. /\ pc[t] \in AccountCalls /\ TaskSound(pc[t], l, InFlight, World)
      /\ Answers(t, IF pc[t] = "live.trade" THEN trade ELSE account)
  BY DEF AccountRead, CallOutstanding, Known, ViewsInv
<1>2. /\ account = None \/ AgentSeen(account, World)
      /\ trade = None \/ TradeSeen(l.index, trade, World)
  BY FoundIsThere
<1>3. pc[t] \in Calls /\ InFlight # None
  BY <1>1, EndpointsAssumption DEF Calls
<1> HIDE DEF account, trade
<1>4. CASE pc[t] = "live.agent"
  <2> DEFINE view == [l.view EXCEPT !.asOf = clock]
             m == [l EXCEPT !.view = view]
  <2>1. loc'[t] = m /\ \A u \in Requests \ {t} : loc'[u] = loc[u]
    BY <1>4 DEF AccountRead, Known, EndpointsInv
  <2>2. DOMAIN l = DOMAIN NoLocals /\ DOMAIN l.view = DOMAIN EmptyView
    BY DEF Known, EndpointsInv, TaskOk, LocalsOk, ReadSince
  <2>3. /\ view.agent = l.view.agent /\ view.trades = l.view.trades
        /\ view.asOf = clock
    BY <2>2 DEF EmptyView
  <2> HIDE DEF view
  <2>4. /\ m.view = view /\ m.shown = l.shown /\ m.polls = l.polls
        /\ m.result = l.result
    BY <2>2, Fields
  <2> HIDE DEF m
  <2>5. clock \in 0..World.now
    BY DEF Known, EndpointsInv, World
  <2>6. l.view.trades = <<>>
    BY <1>1, <1>4 DEF TaskSound, ReadsSoundly
  <2>7. ViewSound(view, World)
    BY <1>1, <2>3, <2>6 DEF TaskSound, ReadsSoundly, ViewSound
  <2>8. ReadsSoundly("live.agent", m, account, World)
    BY <1>2, <2>3, <2>4, <2>5, <2>6, <2>7 DEF ReadsSoundly
  <2>9. /\ CountsSoundly("live.agent", m, account, World)
        /\ WaitsSoundly("live.agent", m, account)
    BY <1>1, <1>3, <1>4, <2>4 DEF TaskSound, CountsSoundly, WaitsSoundly
  <2>10. QED
    BY <1>1, <1>4, <2>1, <2>8, <2>9, AnswerSound DEF TaskSound
<1>5. CASE pc[t] = "live.trade"
  <2>1. ReadsSoundly("live.trade", l, trade, World)
    BY <1>1, <1>2, <1>5 DEF TaskSound, ReadsSoundly
  <2>2. /\ CountsSoundly("live.trade", l, trade, World)
        /\ WaitsSoundly("live.trade", l, trade)
    BY <1>1, <1>3, <1>5 DEF TaskSound, CountsSoundly, WaitsSoundly
  <2>3. loc' = loc
    BY <1>5 DEF AccountRead
  <2>4. QED
    BY <1>1, <1>5, <2>1, <2>2, <2>3, AnswerSound DEF TaskSound
<1>6. CASE pc[t] \in {"info", "count", "register"}
  <2>1. /\ ReadsSoundly(pc[t], l, account, World)
        /\ WaitsSoundly(pc[t], l, account)
    BY <1>1, <1>3, <1>6 DEF TaskSound, ReadsSoundly, WaitsSoundly
  <2>2. pc[t] = "count" /\ l.shown # None =>
          account \in Chain!AgentState /\ l.shown <= account.count
    BY <1>1, FoundIsThere DEF TaskSound, CountsSoundly, AgentSeen, World,
                              account
  <2>3. CountsSoundly(pc[t], l, account, World)
    BY <1>1, <1>2, <1>6, <2>2 DEF TaskSound, CountsSoundly
  <2>4. loc' = loc
    BY <1>6 DEF AccountRead
  <2>5. QED
    BY <1>1, <1>6, <2>1, <2>3, <2>4, AnswerSound DEF TaskSound
<1>7. QED
  BY <1>1, <1>4, <1>5, <1>6 DEF AccountCalls

LEMMA CallSound ==
    ASSUME Known, NEW t \in Requests,
           \/ AccountRead(t) \/ ApprovalRead(t) \/ TxAccepted(t)
           \/ TxAnswered(t) \/ CallRaises(t)
    PROVE  TasksInv'
<1>1. TaskSound(pc[t], loc[t], answer[t], World)
  BY DEF Known, ViewsInv
<1>2. ASSUME NEW calls, CallOutstanding(t, calls), NEW a, Answers(t, a),
             loc' = loc, calls \subseteq {"poll", "send", "execute", "status",
                                         "order"}
      PROVE  TasksInv'
  <2>1. /\ pc[t] \in Calls /\ answer[t] = InFlight
        /\ pc[t] \notin {"live.agent", "live.trade", "info", "count"}
    BY <1>2 DEF CallOutstanding, Calls, TxCalls
  <2>2. QED
    BY <1>1, <1>2, <2>1, OtherAnswers, AnswerSound
<1>3. CASE AccountRead(t)
  BY <1>3, AccountReadSound
<1>4. CASE ApprovalRead(t)
  BY <1>2, <1>4 DEF ApprovalRead
<1>5. CASE TxAccepted(t)
  BY <1>2, <1>5 DEF TxAccepted
<1>6. CASE TxAnswered(t)
  BY <1>2, <1>6 DEF TxAnswered
<1>7. CASE CallRaises(t)
  <2>1. /\ pc[t] \in Calls /\ answer[t] = InFlight
        /\ \/ Answers(t, Raised)
           \/ pc[t] \in {"live.agent", "live.trade"} /\ Answers(t, None)
        /\ loc' = loc
    BY <1>7 DEF CallRaises, CallOutstanding
  <2>2. QED
    BY <1>1, <2>1, OtherAnswers, AnswerSound
<1>8. QED
  BY <1>3, <1>4, <1>5, <1>6, <1>7

-----------------------------------------------------------------------------
(* A task goes on                                                          *)

(* Nothing but the task moves.                                             *)
LEMMA AnsweredWorld ==
    ASSUME Known, NEW t \in Requests, NEW label, Answered(t, label),
           nameLength' = nameLength
    PROVE  /\ World' = World /\ Grown(World, World')
           /\ pc[t] = label /\ answer[t] # InFlight
           /\ TaskSound(label, loc[t], answer[t], World)
           /\ DOMAIN loc[t] = DOMAIN NoLocals
BY SameWorld DEF Answered, networkVars, Known, ViewsInv, EndpointsInv, TaskOk,
                 LocalsOk

(* A step after a call that is not one of live data                        *)
LEMMA GoesOnSound ==
    ASSUME Known, NEW t \in Requests, NEW from, Answered(t, from),
           NEW to \in Calls \cup {"pause", "sleep", "done"}, NEW l,
           to \notin {"live.agent", "live.trade"},
           Await(t, to, l), UNCHANGED serviceVars,
           l.view = loc[t].view,
           CountsSoundly(to, l, Awaited(to), World),
           l.polls \in 0..Polls, to \in {"send", "status"} => l.polls < Polls,
           l.result \in Outcomes \cup {None}
    PROVE  TasksInv'
<1>1. nameLength' = nameLength /\ cache' = cache
  BY DEF serviceVars, readerVars
<1>2. /\ World' = World /\ Grown(World, World')
      /\ ViewSound(l.view, World) /\ CacheSound'
  BY <1>1, AnsweredWorld, CacheStaysSound DEF TaskSound, ReadsSoundly
<1>3. ReadsSoundly(to, l, Awaited(to), World)
  BY <1>2 DEF ReadsSoundly
<1>4. WaitsSoundly(to, l, Awaited(to))
  BY EndpointsAssumption DEF WaitsSoundly, Awaited
<1>5. QED
  BY <1>2, <1>3, <1>4, AwaitSound DEF TaskSound

(* The same, of a request that shows no counts: its polls alone matter.    *)
LEMMA GoesOnUncounted ==
    ASSUME Known, NEW t \in Requests, NEW from, Answered(t, from),
           from \notin {"count", "done"},
           NEW to \in Calls \cup {"pause", "sleep", "done"}, NEW l,
           to \notin {"live.agent", "live.trade", "info", "count"},
           Await(t, to, l), UNCHANGED serviceVars,
           l.view = loc[t].view, l.shown = loc[t].shown,
           l.polls \in 0..Polls, to \in {"send", "status"} => l.polls < Polls,
           l.result \in Outcomes \cup {None}
    PROVE  TasksInv'
<1>1. loc[t].shown = None
  BY AnsweredWorld DEF serviceVars, readerVars, TaskSound, CountsSoundly
<1>2. CountsSoundly(to, l, Awaited(to), World)
  BY <1>1 DEF CountsSoundly
<1>3. QED
  BY <1>2, GoesOnSound

(* A result of its own ends a request that shows no counts.                *)
LEMMA ResultSound ==
    ASSUME Known, NEW t \in Requests, NEW from, Answered(t, from),
           from \notin {"count", "done"}, NEW r \in Outcomes,
           Respond(t, Result(t, r)), UNCHANGED serviceVars
    PROVE  TasksInv'
<1>1. /\ TaskSound(from, loc[t], answer[t], World)
      /\ DOMAIN loc[t] = DOMAIN NoLocals
  BY AnsweredWorld DEF serviceVars, readerVars
<1> DEFINE l == [loc[t] EXCEPT !.result = r]
<1>2. /\ l.view = loc[t].view /\ l.shown = loc[t].shown
      /\ l.polls = loc[t].polls /\ l.result = r
  BY <1>1, Fields
<1>3. Await(t, "done", l)
  BY DEF Respond, Result
<1> HIDE DEF l
<1>4. loc[t].polls \in 0..Polls
  BY <1>1 DEF TaskSound, WaitsSoundly
<1>5. QED
  BY <1>2, <1>3, <1>4, GoesOnUncounted

LEMMA InfoSound ==
    ASSUME Known, NEW t \in Requests, InfoAnswered(t)
    PROVE  TasksInv'
<1>1. Answered(t, "info") /\ UNCHANGED serviceVars
  BY DEF InfoAnswered
<1>2. /\ TaskSound("info", loc[t], answer[t], World)
      /\ answer[t] # InFlight /\ DOMAIN loc[t] = DOMAIN NoLocals
  BY <1>1, AnsweredWorld DEF serviceVars, readerVars
<1>3. /\ loc[t].shown = None /\ loc[t].polls \in 0..Polls
      /\ loc[t].result \in Outcomes \cup {None}
      /\ answer[t] \in {Raised, None} \/ AgentSeen(answer[t], World)
  BY <1>2 DEF TaskSound, CountsSoundly, WaitsSoundly
<1>4. "count" \in Calls /\ "error" \in Outcomes
  BY DEF Calls, AccountCalls, Outcomes
<1>5. CASE Respond(t, Result(t, "error"))
  BY <1>1, <1>4, <1>5, ResultSound
<1>6. CASE Await(t, "count", loc[t])
  <2>1. CountsSoundly("count", loc[t], Awaited("count"), World)
    BY <1>3, <1>4 DEF CountsSoundly, Awaited
  <2>2. QED
    BY <1>1, <1>3, <1>4, <1>6, <2>1, GoesOnSound
<1>7. CASE /\ AgentSeen(answer[t], World)
           /\ Await(t, "count", [loc[t] EXCEPT !.shown = answer[t].count])
  <2> DEFINE l == [loc[t] EXCEPT !.shown = answer[t].count]
  <2>1. /\ l.view = loc[t].view /\ l.shown = answer[t].count
        /\ l.polls = loc[t].polls /\ l.result = loc[t].result
    BY <1>2, Fields
  <2>2. Await(t, "count", l)
    BY <1>7
  <2> HIDE DEF l
  <2>3. CountsSoundly("count", l, Awaited("count"), World)
    BY <1>4, <1>7, <2>1 DEF CountsSoundly, Awaited, AgentSeen, Behind,
                            Chain!AgentState
  <2>4. QED
    BY <1>1, <1>3, <1>4, <2>1, <2>2, <2>3, GoesOnSound
<1>8. QED
  BY <1>3, <1>5, <1>6, <1>7 DEF InfoAnswered

(* The count of the account that is read second is not the smaller.        *)
LEMMA CountSound ==
    ASSUME Known, NEW t \in Requests, CountAnswered(t)
    PROVE  TasksInv'
<1>1. Answered(t, "count") /\ UNCHANGED serviceVars
  BY DEF CountAnswered
<1>2. /\ TaskSound("count", loc[t], answer[t], World)
      /\ answer[t] # InFlight /\ DOMAIN loc[t] = DOMAIN NoLocals
  BY <1>1, AnsweredWorld DEF serviceVars, readerVars
<1>3. /\ loc[t].polls \in 0..Polls /\ loc[t].result \in Outcomes \cup {None}
      /\ loc[t].shown # None /\ answer[t] # Raised =>
           answer[t] \in Chain!AgentState /\ loc[t].shown <= answer[t].count
  BY <1>2 DEF TaskSound, CountsSoundly, WaitsSoundly
<1>4. None \notin Chain!AgentState /\ "error" \in Outcomes /\ Raised # None
  BY EndpointsAssumption DEF Outcomes
<1>5. ASSUME NEW l, Await(t, "done", l), l.view = loc[t].view,
             l.shown = loc[t].shown, l.polls = loc[t].polls,
             l.result \in Outcomes \cup {None},
             l.shown # None /\ l.result # "error" => l.shown <= l.count
      PROVE  TasksInv'
  <2>1. CountsSoundly("done", l, Awaited("done"), World)
    BY <1>5 DEF CountsSoundly
  <2>2. QED
    BY <1>1, <1>3, <1>5, <2>1, GoesOnSound
<1>6. CASE answer[t] = Raised
  <2> DEFINE l == [loc[t] EXCEPT !.result = "error"]
  <2>1. /\ l.view = loc[t].view /\ l.shown = loc[t].shown
        /\ l.polls = loc[t].polls /\ l.result = "error"
    BY <1>2, Fields
  <2>2. Respond(t, Result(t, "error"))
    BY <1>4, <1>6 DEF CountAnswered
  <2>3. Await(t, "done", l)
    BY <2>2 DEF Respond, Result
  <2> HIDE DEF l
  <2>4. QED
    BY <1>4, <1>5, <2>1, <2>3
<1>7. ASSUME answer[t] # Raised, NEW n,
             Await(t, "done", [loc[t] EXCEPT !.count = n]),
             loc[t].shown # None => loc[t].shown <= n
      PROVE  TasksInv'
  <2> DEFINE l == [loc[t] EXCEPT !.count = n]
  <2>1. /\ l.view = loc[t].view /\ l.shown = loc[t].shown /\ l.count = n
        /\ l.polls = loc[t].polls /\ l.result = loc[t].result
    BY <1>2, Fields
  <2>2. Await(t, "done", l)
    BY <1>7
  <2> HIDE DEF l
  <2>3. QED
    BY <1>3, <1>5, <1>7, <2>1, <2>2
<1>8. CASE answer[t] # Raised
  BY <1>3, <1>4, <1>7, <1>8 DEF CountAnswered, Respond
<1>9. QED
  BY <1>6, <1>8
(* The other handlers: each ends its request with a result, or goes on     *)
(* with the same locals but for the polls or the time to wake.             *)
LEMMA HandlerSound ==
    ASSUME Known, NEW t \in Requests,
           \/ RegisterAnswered(t) \/ SendAnswered(t) \/ StatusAnswered(t)
           \/ PauseEnds(t) \/ OrderAnswered(t) \/ ExecuteAnswered(t)
           \/ PollAnswered(t) \/ PollWakes(t)
    PROVE  TasksInv'
<1> DEFINE Other == {"register", "send", "status", "pause", "order", "execute",
                     "poll", "sleep"}
<1>1. UNCHANGED serviceVars
  BY DEF RegisterAnswered, SendAnswered, StatusAnswered, PauseEnds,
         OrderAnswered, ExecuteAnswered, PollAnswered, PollWakes
<1>2. /\ Outcomes = {"error", "registered", "success", "failure", "executed",
                     "signature"}
      /\ {"status", "execute", "poll"} \subseteq Calls
  BY DEF Outcomes, Calls, TxCalls
<1>3. \A from \in Other : from \notin {"count", "done"}
  OBVIOUS
<1>4. ASSUME NEW from \in Other, Answered(t, from), NEW r \in Outcomes,
             Respond(t, Result(t, r))
      PROVE  TasksInv'
  BY <1>1, <1>3, <1>4, ResultSound
<1>5. ASSUME NEW from \in Other, Answered(t, from),
             NEW to \in {"status", "execute", "poll", "done"},
             Await(t, to, loc[t]), to = "status" => loc[t].polls < Polls
      PROVE  TasksInv'
  <2>1. TaskSound(from, loc[t], answer[t], World)
    BY <1>1, <1>5, AnsweredWorld DEF serviceVars, readerVars
  <2>2. loc[t].polls \in 0..Polls /\ loc[t].result \in Outcomes \cup {None}
    BY <2>1 DEF TaskSound, WaitsSoundly
  <2>3. to \in Calls \cup {"pause", "sleep", "done"}
    BY <1>2
  <2>4. to \notin {"live.agent", "live.trade", "info", "count", "send"}
    OBVIOUS
  <2>5. QED
    BY <1>1, <1>3, <1>5, <2>2, <2>3, <2>4, GoesOnUncounted
<1>6. ASSUME NEW from \in Other, Answered(t, from),
             NEW to \in {"pause", "sleep"}, NEW l, Await(t, to, l),
             l.view = loc[t].view, l.shown = loc[t].shown,
             l.polls \in 0..Polls, l.result = loc[t].result
      PROVE  TasksInv'
  <2>1. TaskSound(from, loc[t], answer[t], World)
    BY <1>1, <1>6, AnsweredWorld DEF serviceVars, readerVars
  <2>2. loc[t].result \in Outcomes \cup {None}
    BY <2>1 DEF TaskSound, WaitsSoundly
  <2>3. /\ to \in Calls \cup {"pause", "sleep", "done"}
        /\ to \notin {"live.agent", "live.trade", "info", "count", "send",
                      "status"}
    OBVIOUS
  <2>4. QED
    BY <1>1, <1>3, <1>6, <2>2, <2>3, GoesOnUncounted
<1>7. ASSUME NEW from \in Other, Answered(t, from)
      PROVE  /\ TaskSound(from, loc[t], answer[t], World)
             /\ DOMAIN loc[t] = DOMAIN NoLocals
  BY <1>1, <1>7, AnsweredWorld DEF serviceVars, readerVars
<1>8. /\ Answered(t, "register") => TaskSound("register", loc[t], answer[t], World)
      /\ Answered(t, "send") => TaskSound("send", loc[t], answer[t], World)
      /\ Answered(t, "status") => TaskSound("status", loc[t], answer[t], World)
      /\ Answered(t, "poll") => TaskSound("poll", loc[t], answer[t], World)
  BY <1>7
<1>9. CASE RegisterAnswered(t)
  BY <1>2, <1>4, <1>9 DEF RegisterAnswered
<1>10. CASE SendAnswered(t)
  <2>1. Answered(t, "send") => loc[t].polls < Polls
    BY <1>8 DEF TaskSound, WaitsSoundly
  <2>2. QED
    BY <2>1, <1>2, <1>4, <1>5, <1>10 DEF SendAnswered
<1>11. CASE StatusAnswered(t)
  <2> DEFINE l == [loc[t] EXCEPT !.polls = loc[t].polls + 1]
             confirmed == IF answer[t] = Raised THEN "failure"
                                                ELSE Confirmed(answer[t])
  <2>1. Answered(t, "status")
    BY <1>11 DEF StatusAnswered
  <2>2. confirmed \in {"success", "failure", "unknown"}
    BY DEF Confirmed
  <2>3. \/ confirmed = "unknown" /\ Await(t, "pause", l)
        \/ confirmed # "unknown" /\ Respond(t, Result(t, confirmed))
    BY <1>11 DEF StatusAnswered
  <2> HIDE DEF confirmed
  <2>4. /\ l.view = loc[t].view /\ l.shown = loc[t].shown
        /\ l.polls = loc[t].polls + 1 /\ l.result = loc[t].result
    BY <2>1, <1>7, Fields
  <2>5. loc[t].polls + 1 \in 0..Polls
    BY <2>1, <1>8, EndpointsAssumption DEF TaskSound, WaitsSoundly
  <2> HIDE DEF l
  <2>6. QED
    BY <2>1, <2>2, <2>3, <2>4, <2>5, <1>2, <1>4, <1>6
<1>12. CASE PauseEnds(t)
  BY <1>2, <1>4, <1>5, <1>12 DEF PauseEnds
<1>13. CASE OrderAnswered(t)
  BY <1>2, <1>4, <1>5, <1>13 DEF OrderAnswered
<1>14. CASE ExecuteAnswered(t)
  BY <1>2, <1>4, <1>14 DEF ExecuteAnswered
<1>15. CASE PollAnswered(t)
  <2>1. Answered(t, "poll")
    BY <1>15 DEF PollAnswered
  <2>2. CASE Respond(t, Result(t, "signature"))
    BY <2>1, <2>2, <1>2, <1>4
  <2>3. ASSUME NEW n, Await(t, "sleep", [loc[t] EXCEPT !.wake = n])
        PROVE  TasksInv'
    <3> DEFINE l == [loc[t] EXCEPT !.wake = n]
    <3>1. /\ l.view = loc[t].view /\ l.shown = loc[t].shown
          /\ l.polls = loc[t].polls /\ l.result = loc[t].result
      BY <2>1, <1>7, Fields
    <3>2. loc[t].polls \in 0..Polls
      BY <2>1, <1>8 DEF TaskSound, WaitsSoundly
    <3>3. Await(t, "sleep", l)
      BY <2>3
    <3> HIDE DEF l
    <3>4. QED
      BY <2>1, <3>1, <3>2, <3>3, <1>6
  <2>4. QED
    BY <2>2, <2>3, <1>15 DEF PollAnswered
<1>16. CASE PollWakes(t)
  BY <1>5, <1>16 DEF PollWakes, Respond
<1>17. QED
  BY <1>9, <1>10, <1>11, <1>12, <1>13, <1>14, <1>15, <1>16
-----------------------------------------------------------------------------
(* Live data is read                                                       *)

(* The locals of a task that reads, with another view and index            *)
LEMMA ViewFields ==
    ASSUME NEW l, DOMAIN l = DOMAIN NoLocals, NEW v, NEW i
    PROVE  LET m == [l EXCEPT !.view = v, !.index = i]
           IN  /\ m.view = v /\ m.index = i /\ m.shown = l.shown
               /\ m.polls = l.polls /\ m.result = l.result
BY DEF NoLocals

LEMMA LiveKeptSound ==
    ASSUME Known, NEW t \in Requests,
           NEW label \in {"live.agent", "live.trade"}, Answered(t, label),
           NEW view, LiveKept(t, view), ViewSound(view, World)
    PROVE  TasksInv'
<1>1. nameLength' = nameLength /\ cache' = [ts |-> loc[t].start, view |-> view]
  BY DEF LiveKept, KeepView
<1>2. /\ World' = World /\ Grown(World, World')
      /\ TaskSound(label, loc[t], answer[t], World)
      /\ DOMAIN loc[t] = DOMAIN NoLocals
  BY <1>1, AnsweredWorld
<1>3. CacheSound'
  BY <1>1, <1>2 DEF CacheSound
<1> DEFINE l == [loc[t] EXCEPT !.view = view]
<1>4. /\ l.view = view /\ l.shown = loc[t].shown
      /\ l.polls = loc[t].polls /\ l.result = loc[t].result
  BY <1>2, Fields
<1>5. Await(t, "done", l)
  BY DEF LiveKept, Respond
<1> HIDE DEF l
<1>6. l.shown = None
  BY <1>2, <1>4 DEF TaskSound, CountsSoundly
<1>7. ReadsSoundly("done", l, Awaited("done"), World)
  BY <1>4 DEF ReadsSoundly
<1>8. CountsSoundly("done", l, Awaited("done"), World)
  BY <1>6 DEF CountsSoundly
<1>9. WaitsSoundly("done", l, Awaited("done"))
  <2>1. "done" \notin Calls
    BY DEF Calls, AccountCalls, TxCalls
  <2>2. QED
    BY <2>1, <1>2, <1>4, EndpointsAssumption DEF TaskSound, WaitsSoundly, Awaited
<1>10. QED
  BY <1>2, <1>3, <1>5, <1>7, <1>8, <1>9, AwaitSound DEF TaskSound

(* A view with the agent in it, and no more trades than index              *)
LEMMA LiveGoesOnSound ==
    ASSUME Known, NEW t \in Requests,
           NEW label \in {"live.agent", "live.trade"}, Answered(t, label),
           NEW view, NEW index \in Nat, LiveGoesOn(t, view, index),
           ViewSound(view, World), view.agent # None,
           view.asOf \in 0..World.now, Len(view.trades) <= index
    PROVE  TasksInv'
<1>1. CASE LiveKept(t, view)
  BY <1>1, LiveKeptSound
<1> DEFINE l == [loc[t] EXCEPT !.view = view, !.index = index]
<1>2. CASE /\ index < TradesToRead(view.agent)
           /\ Await(t, "live.trade", l) /\ UNCHANGED serviceVars
  <2>1. nameLength' = nameLength /\ cache' = cache
    BY <1>2 DEF serviceVars, readerVars
  <2>2. /\ World' = World /\ Grown(World, World') /\ CacheSound'
        /\ TaskSound(label, loc[t], answer[t], World)
        /\ DOMAIN loc[t] = DOMAIN NoLocals
    BY <2>1, AnsweredWorld, CacheStaysSound
  <2>3. /\ l.view = view /\ l.index = index /\ l.shown = loc[t].shown
        /\ l.polls = loc[t].polls /\ l.result = loc[t].result
    BY <2>2, ViewFields
  <2>4. Await(t, "live.trade", l)
    BY <1>2
  <2> HIDE DEF l
  <2>5. "live.trade" \in Calls
    BY DEF Calls, AccountCalls
  <2>6. ReadsSoundly("live.trade", l, Awaited("live.trade"), World)
    BY <1>2, <2>3, <2>5 DEF ReadsSoundly, Awaited
  <2>7. l.shown = None
    BY <2>2, <2>3 DEF TaskSound, CountsSoundly
  <2>8. CountsSoundly("live.trade", l, Awaited("live.trade"), World)
    BY <2>7 DEF CountsSoundly
  <2>9. WaitsSoundly("live.trade", l, Awaited("live.trade"))
    BY <2>2, <2>3, <2>5 DEF TaskSound, WaitsSoundly
  <2>10. QED
    BY <2>2, <2>4, <2>6, <2>8, <2>9, AwaitSound DEF TaskSound
<1>3. QED
  BY <1>1, <1>2 DEF LiveGoesOn

(* What is shown of an account is behind it as the account was, or says    *)
(* nothing, under a name that does not fit.                                *)
LEMMA ParsedAgent ==
    ASSUME NEW a, AgentSeen(a, World), NEW agent \in ParsedAgents(a)
    PROVE  /\ agent \in ShownAgents \ {None}
           /\ Agent \in DOMAIN agents
           /\ World.name = NameFits => Behind(agent, World)
<1> DEFINE Shown == [count : Nat, approved : Nat, rejected : Nat]
<1>1. a.count \in Nat /\ a.approved \in Nat /\ a.rejected \in Nat
  BY DEF AgentSeen, Chain!AgentState
<1>2. agent \in Shown
  BY <1>1, ReaderAssumption DEF ParsedAgents
<1>3. None \notin Shown
  BY EndpointsAssumption
<1>4. /\ Agent \in DOMAIN agents
      /\ nameLength = NameFits => Behind(agent, World)
  BY DEF AgentSeen, Behind, ParsedAgents, World
<1>5. QED
  BY <1>2, <1>3, <1>4 DEF ShownAgents, World

LEMMA ParsedTrade ==
    ASSUME NEW i \in Nat, NEW p, NEW w, TradeSeen(i, p, w)
    PROVE  /\ ParseTrade(i, p) \in ShownTrades
           /\ TradeShown(ParseTrade(i, p), w)
<1>1. p.hash \in Hashes /\ p.verdict \in 0..2
  BY DEF TradeSeen
<1>2. /\ VerdictLabels[1] = "Pending" /\ VerdictLabels[2] = "Approved"
      /\ VerdictLabels[3] = "Rejected"
  BY DEF VerdictLabels
<1>3. VerdictLabels[p.verdict + 1] \in {VerdictLabels[j] : j \in 1..3}
  BY <1>1
<1>4. VerdictLabels[p.verdict + 1] = "Approved" => p.verdict = 1
  <2>1. p.verdict = 0 \/ p.verdict = 1 \/ p.verdict = 2
    BY <1>1
  <2>2. QED
    BY <2>1, <1>2
<1>5. ParseTrade(i, p) \in ShownTrades
  BY <1>1, <1>3 DEF ParseTrade, ShownTrades
<1>6. TradeShown(ParseTrade(i, p), w)
  BY <1>4 DEF ParseTrade, TradeShown, TradeSeen
<1>7. QED
  BY <1>5, <1>6

LEMMA LiveAgentSound ==
    ASSUME Known, NEW t \in Requests, LiveAgent(t)
    PROVE  TasksInv'
<1>1. Answered(t, "live.agent") /\ nameLength' = nameLength
  BY DEF LiveAgent, LiveKept, LiveGoesOn, KeepView, serviceVars, readerVars
<1>2. /\ TaskSound("live.agent", loc[t], answer[t], World)
      /\ answer[t] # InFlight
  BY <1>1, AnsweredWorld
<1> DEFINE v == loc[t].view
<1>3. /\ ViewSound(v, World) /\ v.trades = <<>>
      /\ answer[t] \in {Raised, None} \/ AgentSeen(answer[t], World)
      /\ answer[t] \notin {Raised, None} => v.asOf \in 0..World.now
  BY <1>2 DEF TaskSound, ReadsSoundly
<1>4. CASE answer[t] \in {Raised, None}
  <2>1. LiveKept(t, v)
    BY <1>4 DEF LiveAgent
  <2>2. QED
    BY <1>1, <1>3, <2>1, LiveKeptSound
<1>5. CASE answer[t] \notin {Raised, None}
  <2>0. PICK agent \in ParsedAgents(answer[t]) :
          LiveGoesOn(t, [v EXCEPT !.agent = agent], 0)
    BY <1>5 DEF LiveAgent
  <2> DEFINE view == [v EXCEPT !.agent = agent]
  <2>1. DOMAIN v = DOMAIN EmptyView
    BY DEF Known, EndpointsInv, TaskOk, LocalsOk, ReadSince
  <2>2. /\ view.agent = agent
        /\ view.trades = <<>> /\ view.asOf = v.asOf
    BY <2>1, <1>3 DEF EmptyView
  <2>3. LiveGoesOn(t, view, 0)
    BY <2>0
  <2> HIDE DEF view, v
  <2>4. /\ view.agent \in ShownAgents \ {None}
        /\ Agent \in DOMAIN World.agents
        /\ World.name = NameFits => Behind(view.agent, World)
    BY <1>3, <1>5, <2>2, ParsedAgent DEF World
  <2>5. ViewSound(view, World)
    <3>1. <<>> \in Seq(ShownTrades) /\ Len(<<>>) = 0
      OBVIOUS
    <3>2. QED
      BY <2>2, <2>4, <3>1, ReaderAssumption DEF ViewSound
  <2>6. view.asOf \in 0..World.now /\ Len(view.trades) <= 0
    BY <1>3, <1>5, <2>2
  <2>7. QED
    BY <1>1, <2>3, <2>4, <2>5, <2>6, LiveGoesOnSound
<1>6. QED
  BY <1>4, <1>5

LEMMA LiveTradeSound ==
    ASSUME Known, NEW t \in Requests, LiveTrade(t)
    PROVE  TasksInv'
<1> DEFINE i == loc[t].index
           v == loc[t].view
           a == answer[t]
<1>1. Answered(t, "live.trade")
  BY DEF LiveTrade
<1>2. ReadsSoundly("live.trade", loc[t], a, World) /\ a # InFlight
  BY <1>1 DEF Answered, Known, ViewsInv, TaskSound
<1>3. /\ ViewSound(v, World) /\ v.agent # None /\ v.asOf \in 0..World.now
      /\ i \in Nat /\ Len(v.trades) <= i /\ i < TradesToRead(v.agent)
      /\ a \in {Raised, None} \/ TradeSeen(i, a, World)
  BY <1>2 DEF ReadsSoundly
<1>4. i + 1 \in Nat /\ i + 1 <= MaxShown /\ v.trades \in Seq(ShownTrades)
  <2>1. v.agent \in ShownAgents \ {None} /\ v.trades \in Seq(ShownTrades)
    BY <1>3 DEF ViewSound
  <2>2. v.agent.count \in Nat /\ MaxShown \in Nat
    BY <2>1, ReaderAssumption DEF ShownAgents
  <2>3. QED
    BY <1>3, <2>1, <2>2 DEF TradesToRead
<1>5. Len(v.trades) \in Nat
  BY <1>4
<1>6. Raised # None
  BY EndpointsAssumption
<1>7. CASE a = Raised
  <2>1. LiveKept(t, v)
    BY <1>6, <1>7 DEF LiveTrade
  <2>2. QED
    BY <1>1, <1>3, <2>1, LiveKeptSound
<1>8. CASE a = None
  <2>1. LiveGoesOn(t, v, i + 1)
    BY <1>6, <1>8 DEF LiveTrade
  <2>2. Len(v.trades) <= i + 1
    BY <1>3, <1>5
  <2>3. QED
    BY <1>1, <1>3, <1>4, <2>1, <2>2, LiveGoesOnSound
<1>9. CASE a \notin {Raised, None}
  <2> DEFINE trade == ParseTrade(i, a)
             view == [v EXCEPT !.trades = Append(v.trades, trade)]
  <2>1. LiveGoesOn(t, view, i + 1)
    BY <1>9 DEF LiveTrade
  <2>2. DOMAIN v = DOMAIN EmptyView
    BY DEF Known, EndpointsInv, TaskOk, LocalsOk, ReadSince
  <2>3. /\ view.agent = v.agent /\ view.asOf = v.asOf
        /\ view.trades = Append(v.trades, trade)
    BY <2>2 DEF EmptyView
  <2>4. trade \in ShownTrades /\ TradeShown(trade, World)
    BY <1>3, <1>9, ParsedTrade
  <2> HIDE DEF trade, view, v, a, i
  <2>5. /\ view.trades \in Seq(ShownTrades)
        /\ Len(view.trades) = Len(v.trades) + 1
    BY <1>4, <2>3, <2>4
  <2>6. \A n \in DOMAIN view.trades : TradeShown(view.trades[n], World)
    <3>1. ASSUME NEW n \in DOMAIN view.trades
          PROVE  view.trades[n] = trade \/ (/\ n \in DOMAIN v.trades
                                            /\ view.trades[n] = v.trades[n])
      BY <1>4, <2>3, <2>4, <2>5
    <3>2. QED
      BY <3>1, <2>4, <1>3 DEF ViewSound
  <2>7. Len(view.trades) <= i + 1
    BY <1>3, <1>5, <2>5
  <2>8. MaxShown \in Nat
    BY ReaderAssumption
  <2>9. ViewSound(view, World)
    BY <1>3, <1>4, <1>5, <2>3, <2>5, <2>6, <2>7, <2>8 DEF ViewSound
  <2>10. QED
    BY <1>1, <1>3, <1>4, <2>1, <2>3, <2>7, <2>9, LiveGoesOnSound
<1>10. QED
  BY <1>7, <1>8, <1>9
-----------------------------------------------------------------------------
(* Every step                                                              *)

LEMMA TasksStep ==
    ASSUME Known, ChainInv', [Next]_vars
    PROVE  TasksInv'
<1>1. Grown(World, World')
  BY WorldGrows DEF Known, EndpointsInv
<1>2. ASSUME UNCHANGED <<pc, loc, answer, cache>> PROVE TasksInv'
  BY <1>1, <1>2, NoTaskMoves
<1>3. CASE ChainMoves \/ Tick \/ \E approval \in DWallets \X Hashes : NetworkSigns(approval)
  BY <1>2, <1>3 DEF ChainMoves, Tick, NetworkSigns, serviceVars, readerVars,
                    taskVars
<1>4. CASE Decides \/ SubmitsDemo
  BY <1>2, <1>4 DEF Decides, SubmitsDemo, readerVars
<1>5. ASSUME NEW t \in Requests, TxMoves(t) PROVE TasksInv'
  BY <1>2, <1>5 DEF TxMoves, serviceVars, readerVars, taskVars
<1>6. ASSUME NEW t \in Requests, Request(t) PROVE TasksInv'
  BY <1>6, RequestSound
<1>7. ASSUME NEW t \in Requests, Proceeds(t) PROVE TasksInv'
  <2>1. CASE \/ AccountRead(t) \/ ApprovalRead(t) \/ TxAccepted(t)
             \/ TxAnswered(t) \/ CallRaises(t)
    BY <2>1, CallSound
  <2>2. CASE LiveAgent(t) \/ LiveTrade(t)
    BY <2>2, LiveAgentSound, LiveTradeSound
  <2>3. CASE InfoAnswered(t) \/ CountAnswered(t)
    BY <2>3, InfoSound, CountSound
  <2>4. CASE \/ RegisterAnswered(t) \/ SendAnswered(t) \/ StatusAnswered(t)
             \/ PauseEnds(t) \/ OrderAnswered(t) \/ ExecuteAnswered(t)
             \/ PollAnswered(t) \/ PollWakes(t)
    BY <2>4, HandlerSound
  <2>5. QED
    BY <1>7, <2>1, <2>2, <2>3, <2>4 DEF Proceeds
<1>8. ASSUME NEW t \in Requests, ResponseSent(t) PROVE TasksInv'
  <2>1. Await(t, "idle", NoLocals) /\ cache' = cache
    BY <1>8 DEF ResponseSent, serviceVars, readerVars
  <2>2. TaskSound("idle", NoLocals, Awaited("idle"), World')
    BY NoLocalsFields, BegunSound
  <2>3. QED
    BY <1>1, <2>1, <2>2, CacheStaysSound, AwaitSound
<1>9. CASE UNCHANGED vars
  BY <1>2, <1>9 DEF vars, serviceVars, readerVars, taskVars
<1>10. QED
  BY <1>3, <1>4, <1>5, <1>6, <1>7, <1>8, <1>9 DEF Next

LEMMA AfterEven ==
    ASSUME NEW m \in Nat, m % 2 = 0
    PROVE  (m + 1) % 2 = 1 /\ (m + 2) % 2 = 0
OBVIOUS

(* Two more values, and each is still at the place of its kind.            *)
LEMMA PairKept ==
    ASSUME NEW s \in Seq({"confidence", "risk_score"}), Len(s) % 2 = 0,
           \A n \in DOMAIN s :
             s[n] = IF n % 2 = 1 THEN "confidence" ELSE "risk_score",
           NEW s2, s2 = s \o <<"confidence", "risk_score">>
    PROVE  /\ s2 \in Seq({"confidence", "risk_score"})
           /\ Len(s2) % 2 = 0
           /\ \A n \in DOMAIN s2 :
                s2[n] = IF n % 2 = 1 THEN "confidence" ELSE "risk_score"
<1>1. /\ s2 \in Seq({"confidence", "risk_score"})
      /\ Len(s2) = Len(s) + 2 /\ Len(s) \in Nat
      /\ \A n \in 1..Len(s) : s2[n] = s[n]
      /\ s2[Len(s) + 1] = "confidence" /\ s2[Len(s) + 2] = "risk_score"
  OBVIOUS
<1>2. (Len(s) + 1) % 2 = 1 /\ (Len(s) + 2) % 2 = 0
  BY Zenon, <1>1, AfterEven
<1>3. ASSUME NEW n \in DOMAIN s2
      PROVE  s2[n] = IF n % 2 = 1 THEN "confidence" ELSE "risk_score"
  <2>1. n \in 1..Len(s) \/ n = Len(s) + 1 \/ n = Len(s) + 2
    BY <1>1
  <2>2. CASE n \in 1..Len(s)
    BY <1>1, <2>2
  <2>3. CASE n = Len(s) + 1
    BY Zenon, <1>1, <1>2, <2>3
  <2>4. CASE n = Len(s) + 2
    <3>1. n % 2 # 1
      BY <1>2, <2>4
    <3>2. QED
      BY Zenon, <1>1, <2>4, <3>1
  <2>5. QED
    BY <2>1, <2>2, <2>3, <2>4
<1>4. QED
  BY <1>1, <1>2, <1>3

(* Each part of ProcessInv has its own steps.                              *)
LEMMA ProcessStep ==
    ASSUME Known, ChainInv', [Next]_vars
    PROVE  ProcessInv'
<1> USE DEF Known, ViewsInv
<1>1. Grown(World, World')
  BY WorldGrows DEF EndpointsInv
<1>2. nameLength' \in NameLengths
  BY TimeAndName DEF EndpointsInv, ProcessInv
<1>3. ASSUME NEW t \in Requests, Request(t)
      PROVE  UNCHANGED <<signed, tx, clock, clientVars, encryptVars>>
  <2>1. UNCHANGED serviceVars /\ \E cost : Begins(t, cost)
    BY <1>3 DEF Request, LiveData, OnchainStatus, DecisionsOnchain, Register,
                SendTx, ExecuteSwap, PollApproval
  <2>2. QED
    BY <2>1 DEF Begins, networkVars, serviceVars
<1>4. ASSUME NEW t \in Requests, Proceeds(t)
      PROVE  /\ UNCHANGED <<signed, clock, clientVars, encryptVars>>
             /\ tx' = tx \/ tx' = [tx EXCEPT ![t] = "sent"]
  <2>1. CASE \/ AccountRead(t) \/ ApprovalRead(t) \/ TxAccepted(t)
             \/ TxAnswered(t) \/ CallRaises(t)
    <3>1. \E a : Answers(t, a)
      BY <2>1 DEF AccountRead, ApprovalRead, TxAccepted, TxAnswered, CallRaises
    <3>2. tx' = tx \/ tx' = [tx EXCEPT ![t] = "sent"]
      BY <2>1 DEF AccountRead, ApprovalRead, TxAccepted, TxAnswered, CallRaises
    <3>3. QED
      BY <3>1, <3>2 DEF Answers, serviceVars
  <2>2. CASE LiveAgent(t) \/ LiveTrade(t)
    <3>1. /\ \E label : Answered(t, label)
          /\ \/ UNCHANGED serviceVars
             \/ \E view : LiveKept(t, view)
      BY <2>2 DEF LiveAgent, LiveTrade, LiveGoesOn
    <3>2. QED
      BY <3>1 DEF Answered, networkVars, serviceVars, LiveKept
  <2>3. CASE \E label : Answered(t, label) /\ UNCHANGED serviceVars
    BY <2>3 DEF Answered, networkVars, serviceVars
  <2>4. QED
    BY <1>4, <2>1, <2>2, <2>3
       DEF Proceeds, InfoAnswered, CountAnswered, RegisterAnswered,
           SendAnswered, StatusAnswered, PauseEnds, OrderAnswered,
           ExecuteAnswered, PollAnswered, PollWakes
<1>5. signed' \subseteq signable'
  <2>1. signable \subseteq signable' /\ signed \subseteq signable
    BY <1>1 DEF Grown, World, ProcessInv
  <2>2. CASE \E approval \in DWallets \X Hashes : NetworkSigns(approval)
    BY <2>1, <2>2 DEF NetworkSigns
  <2>3. CASE signed' = signed
    BY <2>1, <2>3
  <2>4. QED
    BY <1>3, <1>4, <2>2, <2>3
       DEF Next, ChainMoves, Tick, Decides, SubmitsDemo, TxMoves, ResponseSent,
           vars, networkVars
<1>6. tx' \in [Requests -> Statuses]
  <2>1. tx \in [Requests -> Statuses]
    BY DEF ProcessInv
  <2>2. ASSUME NEW t \in Requests, TxMoves(t) PROVE tx' \in [Requests -> Statuses]
    BY <2>1, <2>2 DEF TxMoves, Statuses
  <2>3. ASSUME NEW t \in Requests, NEW s \in {"sent", "none"},
               tx' = [tx EXCEPT ![t] = s]
        PROVE  tx' \in [Requests -> Statuses]
    BY <2>1, <2>3 DEF Statuses
  <2>4. QED
    BY <1>3, <1>4, <2>1, <2>2, <2>3
       DEF Next, ChainMoves, Tick, Decides, SubmitsDemo, NetworkSigns,
           ResponseSent, vars, networkVars
<1>7. client' \in ClientStates /\ decisionCount' \in Nat
  <2>1. client \in ClientStates /\ decisionCount \in Nat
    BY DEF ProcessInv
  <2>2. CASE UNCHANGED clientVars
    BY <2>1, <2>2 DEF clientVars
  <2>3. CASE LogDecisionLocally
    BY <2>1, <2>3 DEF LogDecisionLocally
  <2>4. QED
    BY <1>3, <1>4, <2>2, <2>3
       DEF Next, ChainMoves, Tick, Decides, SubmitsDemo, NetworkSigns, TxMoves,
           ResponseSent, vars, serviceVars
<1> DEFINE Kept == /\ encryptedValues \in Seq({"confidence", "risk_score"})
                   /\ Len(encryptedValues) % 2 = 0
                   /\ \A n \in DOMAIN encryptedValues :
                        encryptedValues[n]
                          = IF n % 2 = 1 THEN "confidence" ELSE "risk_score"
                   /\ ~encrypting => encryptedValues = <<>>
<1>8. Kept'
  <2>1. Kept
    BY DEF ProcessInv
  <2>2. CASE UNCHANGED encryptVars
    BY <2>1, <2>2 DEF encryptVars
  <2>3. CASE Decides
    <3>1. /\ encrypting' = encrypting
          /\ \/ ~encrypting /\ encryptedValues' = encryptedValues
             \/ /\ encrypting
                /\ encryptedValues'
                     = encryptedValues \o <<"confidence", "risk_score">>
      BY <2>3 DEF Decides, EncryptDecision
    <3>2. QED
      BY <2>1, <3>1, PairKept
  <2>4. QED
    BY <1>3, <1>4, <2>2, <2>3
       DEF Next, ChainMoves, Tick, SubmitsDemo, NetworkSigns, TxMoves,
           ResponseSent, vars, serviceVars
<1>9. clock' \in 0..MaxClock
  <2>1. clock \in 0..MaxClock /\ MaxClock \in Nat
    BY EndpointsAssumption DEF ProcessInv
  <2>2. CASE Tick
    BY <2>1, <2>2 DEF Tick
  <2>3. CASE clock' = clock
    BY <2>1, <2>3
  <2>4. QED
    BY <1>3, <1>4, <2>2, <2>3
       DEF Next, ChainMoves, Decides, SubmitsDemo, NetworkSigns, TxMoves,
           ResponseSent, vars, networkVars
<1>10. QED
  BY <1>2, <1>5, <1>6, <1>7, <1>8, <1>9 DEF ProcessInv

LEMMA ViewsStart == Init => ViewsInv
<1> SUFFICES ASSUME Init PROVE ViewsInv
  OBVIOUS
<1>1. /\ pc = [t \in Requests |-> "idle"]
      /\ loc = [t \in Requests |-> NoLocals]
      /\ answer = [t \in Requests |-> None] /\ cache = None
  BY DEF Init, ReaderInit
<1>2. Awaited("idle") = None
  BY DEF Awaited, Calls, AccountCalls, TxCalls
<1>3. \A t \in Requests : TaskSound(pc[t], loc[t], answer[t], World)
  BY <1>1, <1>2, NoLocalsFields, BegunSound
<1>4. ProcessInv
  <2>1. /\ signed = {} /\ tx = [t \in Requests |-> "none"] /\ clock = 0
        /\ nameLength \in NameLengths /\ client \in ClientStates
        /\ decisionCount = 0 /\ encryptedValues = <<>>
    BY DEF Init, ReaderInit, ClientInit, EncryptInit
  <2>2. QED
    BY <2>1, EndpointsAssumption DEF ProcessInv, Statuses
<1>5. QED
  BY <1>1, <1>3, <1>4 DEF ViewsInv, CacheSound

THEOREM ViewsInvHolds == Spec => []ViewsInv
<1>1. EndpointsInv /\ ChainInv /\ ViewsInv /\ ChainInv' /\ [Next]_vars => ViewsInv'
  BY TasksStep, ProcessStep DEF Known, ViewsInv, TasksInv
<1>2. QED
  BY <1>1, ViewsStart, EndpointsInvHolds, ChainInvHolds, PTL DEF Spec

-----------------------------------------------------------------------------

(* The types of the accounts, of what the process keeps of them, and of    *)
(* every view and request; a call is outstanding only where one is awaited *)
(* (TypeOK of AgentEndpoints).                                             *)
THEOREM EndpointsTyped == Spec => []TypeOK
<1>1. ChainInv /\ ViewsInv => TypeOK
  <2> SUFFICES ASSUME ChainInv, ViewsInv PROVE TypeOK
    OBVIOUS
  <2>1. \A v \in Views : ViewSound(v, World)
    BY DEF Views, ViewsInv, CacheSound, TaskSound, ReadsSoundly
  <2>2. \A v \in Views :
          /\ v.agent \in ShownAgents
          /\ v.trades \in Seq(ShownTrades)
          /\ Len(v.trades) <= MaxShown
          /\ v.trades # <<>> => v.agent # None /\ v.asOf \in 0..clock
    BY <2>1 DEF ViewSound, World
  <2>3. \A t \in Requests :
          /\ pc[t] \in Calls \cup {"idle", "pause", "sleep", "done"}
          /\ answer[t] = InFlight => pc[t] \in Calls
          /\ loc[t].polls \in 0..Polls
          /\ loc[t].result \in Outcomes \cup {None}
    BY DEF ViewsInv, TaskSound, WaitsSoundly
  <2>4. QED
    BY <2>2, <2>3 DEF TypeOK, ChainInv, ViewsInv, ProcessInv, Decryption
<1>2. QED
  BY <1>1, ChainInvHolds, ViewsInvHolds, PTL

(* For any number of requests that read at once, any transactions between  *)
(* two of their reads, any calls that raise or are answered with an error, *)
(* and whatever the name: the agent that live data shows is there, a trade *)
(* is at its index under its hash, one shown as approved can be signed by  *)
(* some dWallet, and the second count of a status is not behind the first. *)
(* The counters in live data are not ahead of the program's with a name of *)
(* 32 bytes; with a shorter one, as the default name is, that is false     *)
(* (CountersAreReal) and not claimed (get_live_data,                       *)
(* _parse_trade_proposal, get_onchain_status).                             *)
THEOREM ShownOnChain == Spec => []ShownIsOnChain
<1>1. ViewsInv => ShownIsOnChain
  <2> SUFFICES ASSUME ViewsInv PROVE ShownIsOnChain
    OBVIOUS
  <2>1. \A v \in Views : ViewSound(v, World)
    BY DEF Views, ViewsInv, CacheSound, TaskSound, ReadsSoundly
  <2>2. \A v \in Views : ViewIsOfChain(v)
    BY <2>1 DEF ViewSound, TradeShown, Behind, World, ViewIsOfChain, AgentIsReal
  <2>3. \A t \in Requests :
          pc[t] = "done" /\ loc[t].shown # None /\ loc[t].result # "error" =>
            loc[t].shown <= loc[t].count
    BY DEF ViewsInv, TaskSound, CountsSoundly
  <2>4. QED
    BY <2>2, <2>3 DEF ShownIsOnChain
<1>2. QED
  BY <1>1, ViewsInvHolds, PTL
=============================================================================
