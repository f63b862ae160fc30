------------------------ MODULE AgentEndpoints_proofs ------------------------
(***************************************************************************)
(* Theorems of AgentEndpoints, for any program, any time to live, any      *)
(* number of requests and polls, and any calls that raise.                 *)
(***************************************************************************)
EXTENDS AgentEndpoints, TLAPS

(* What is in the view, if anything is, was read at since or later.        *)
ReadSince(view, since) ==
    /\ DOMAIN view = DOMAIN EmptyView
    /\ view.asOf # None => view.asOf \in Nat /\ view.asOf >= since

(* The locals l of a task at label, at this time, whose transaction has    *)
(* this status: its view was read less than TTL before the request began,  *)
(* and after it began while accounts are being read; and only a response   *)
(* can be a success.                                                       *)
LocalsOk(label, l, status, now) ==
    /\ DOMAIN l = DOMAIN NoLocals
    /\ l.start \in Nat /\ l.start <= now
    /\ ReadSince(l.view, l.start - TTL + 1)
    /\ label \in {"live.agent", "live.trade"} => ReadSince(l.view, l.start)
    /\ l.result = "success" => label = "done" /\ status = "confirmed"

(* What is cached was read no earlier than it is dated.                    *)
CacheOk ==
    cache # None => cache.ts \in Nat /\ ReadSince(cache.view, cache.ts)

(* Of task t: its locals, and an answer "confirmed", which stays true.     *)
TaskOk(t) ==
    /\ LocalsOk(pc[t], loc[t], tx[t], clock)
    /\ pc[t] = "status" /\ answer[t] = "confirmed" => tx[t] = "confirmed"

(* The inductive invariant                                                 *)
EndpointsInv ==
    /\ clock \in Nat
    /\ DOMAIN pc = Requests /\ DOMAIN loc = Requests
    /\ DOMAIN answer = Requests /\ DOMAIN tx = Requests
    /\ \A t \in Requests : TaskOk(t)
    /\ CacheOk

LEMMA ConstantsOk == /\ TTL \in Nat /\ TTL > 0 /\ MaxClock \in Nat
                     /\ InFlight # "confirmed" /\ Raised # "confirmed"
                     /\ None # "confirmed" /\ None # "success"
<1>1. "confirmed" \in Statuses /\ "success" \in Outcomes
  BY Zenon DEF Statuses, Outcomes
<1>2. \A s \in Statuses \cup Outcomes : s # InFlight /\ s # Raised /\ s # None
  BY Zenon, EndpointsAssumption
<1>3. MaxClock \in Nat
  BY Zenon, EndpointsAssumption
<1>4. QED
  BY <1>1, <1>2, <1>3, ReaderAssumption

(* What a request begins with                                              *)
LEMMA NoLocalsOk ==
    ASSUME NEW label, NEW status, NEW now \in Nat
    PROVE  LocalsOk(label, NoLocals, status, now)
BY ConstantsOk DEF LocalsOk, NoLocals, EmptyView, ReadSince

(* A result of a task's own that is not a success                          *)
LEMMA LocalsStay ==
    ASSUME NEW label, NEW to, NEW l, NEW l2, NEW status, NEW now \in Nat,
           LocalsOk(label, l, status, now),
           DOMAIN l2 = DOMAIN l, l2.start = l.start, l2.view = l.view,
           to \notin {"live.agent", "live.trade"},
           l2.result = "success" => to = "done" /\ status = "confirmed"
    PROVE  LocalsOk(to, l2, status, now)
BY DEF LocalsOk

(* A step of task t alone                                                  *)
LEMMA TaskKeeps ==
    ASSUME EndpointsInv, NEW t \in Requests,
           clock' = clock,
           DOMAIN pc' = Requests, DOMAIN loc' = Requests,
           DOMAIN answer' = Requests, DOMAIN tx' = Requests,
           \A u \in Requests \ {t} :
             /\ pc'[u] = pc[u] /\ loc'[u] = loc[u]
             /\ answer'[u] = answer[u] /\ tx'[u] = tx[u],
           TaskOk(t)', CacheOk'
    PROVE  EndpointsInv'
<1>1. ASSUME NEW u \in Requests, u # t PROVE TaskOk(u)'
  BY <1>1 DEF EndpointsInv, TaskOk, LocalsOk, ReadSince
<1>2. QED
  BY <1>1 DEF EndpointsInv

(* Task t goes on to its next await, or to its response.                   *)
LEMMA AwaitKeeps ==
    ASSUME EndpointsInv, NEW t \in Requests, NEW label, NEW l,
           Await(t, label, l), clock' = clock,
           \/ tx' = tx
           \/ tx' = [tx EXCEPT ![t] = "none"] /\ label # "status",
           LocalsOk(label, l, tx'[t], clock), CacheOk'
    PROVE  EndpointsInv'
<1>1. /\ DOMAIN pc' = Requests /\ DOMAIN loc' = Requests
      /\ DOMAIN answer' = Requests /\ DOMAIN tx' = Requests
  BY DEF Await, EndpointsInv
<1>2. \A u \in Requests \ {t} :
        /\ pc'[u] = pc[u] /\ loc'[u] = loc[u]
        /\ answer'[u] = answer[u] /\ tx'[u] = tx[u]
  BY DEF Await, EndpointsInv
<1>3. pc'[t] = label /\ loc'[t] = l /\ answer'[t] \in {InFlight, None}
  BY DEF Await, EndpointsInv
<1>4. TaskOk(t)'
  BY <1>3, ConstantsOk DEF TaskOk, LocalsOk, ReadSince
<1>5. QED
  BY <1>1, <1>2, <1>4, TaskKeeps

(* A step of the networks, or of the executor: no request moves.           *)
LEMMA NetworkKeeps ==
    ASSUME EndpointsInv, clock' \in Nat, clock' >= clock,
           UNCHANGED <<pc, loc, answer, cache>>, DOMAIN tx' = Requests,
           \A t \in Requests : tx[t] = "confirmed" => tx'[t] = "confirmed"
    PROVE  EndpointsInv'
<1>1. ASSUME NEW t \in Requests PROVE TaskOk(t)'
  BY <1>1 DEF EndpointsInv, TaskOk, LocalsOk, ReadSince
<1>2. QED
  BY <1>1 DEF EndpointsInv, CacheOk, ReadSince

(* The call that task t waits for ends with the answer a.                  *)
LEMMA AnswerKeeps ==
    ASSUME EndpointsInv, NEW t \in Requests, NEW calls, NEW a,
           CallOutstanding(t, calls), Answers(t, a),
           \/ tx' = tx
           \/ pc[t] \in {"send", "execute"} /\ tx' = [tx EXCEPT ![t] = "sent"],
           \/ loc' = loc
           \/ pc[t] = "live.agent" /\ loc' = [loc EXCEPT ![t].view.asOf = clock],
           pc[t] = "status" /\ a = "confirmed" => tx[t] = "confirmed"
    PROVE  EndpointsInv'
<1>1. /\ UNCHANGED <<clock, pc, cache>>
      /\ answer' = [answer EXCEPT ![t] = a]
  BY DEF Answers, serviceVars, readerVars
<1>2. /\ DOMAIN pc' = Requests /\ DOMAIN loc' = Requests
      /\ DOMAIN answer' = Requests /\ DOMAIN tx' = Requests
  BY <1>1 DEF EndpointsInv
<1>3. \A u \in Requests \ {t} :
        /\ pc'[u] = pc[u] /\ loc'[u] = loc[u]
        /\ answer'[u] = answer[u] /\ tx'[u] = tx[u]
  BY <1>1 DEF EndpointsInv
<1>4. LocalsOk(pc[t], loc[t], tx[t], clock)
  BY DEF EndpointsInv, TaskOk
<1>5. LocalsOk(pc[t], loc'[t], tx[t], clock)
  <2>1. CASE loc' = loc
    BY <2>1, <1>4
  <2>2. CASE /\ pc[t] = "live.agent"
             /\ loc' = [loc EXCEPT ![t].view.asOf = clock]
    <3>1. loc'[t] = [loc[t] EXCEPT !.view = [@ EXCEPT !.asOf = clock]]
      BY <2>2 DEF EndpointsInv
    <3>2. ReadSince(loc'[t].view, loc[t].start)
      BY <3>1, <1>4 DEF LocalsOk, ReadSince, EmptyView, NoLocals, EndpointsInv
    <3>3. /\ DOMAIN loc'[t] = DOMAIN NoLocals /\ loc'[t].start = loc[t].start
          /\ loc'[t].result = loc[t].result
      BY <3>1, <1>4 DEF LocalsOk, NoLocals
    <3>4. QED
      BY <3>2, <3>3, <1>4, ConstantsOk DEF LocalsOk, ReadSince
  <2>3. QED
    BY <2>1, <2>2
<1>6. TaskOk(t)'
  <2>1. LocalsOk(pc[t], loc[t], tx[t], clock)'
    BY <1>1, <1>5 DEF LocalsOk, ReadSince
  <2>2. answer'[t] = a
    BY <1>1 DEF EndpointsInv
  <2>3. QED
    BY <1>1, <2>1, <2>2 DEF TaskOk, EndpointsInv
<1>7. CacheOk'
  BY <1>1 DEF EndpointsInv, CacheOk, ReadSince
<1>8. QED
  BY <1>1, <1>2, <1>3, <1>6, <1>7, TaskKeeps

-----------------------------------------------------------------------------
(* The steps of a task                                                     *)

(* Every step of Answered leaves the networks alone.                       *)
LEMMA AnsweredFacts ==
    ASSUME EndpointsInv, NEW t \in Requests, NEW label, Answered(t, label)
    PROVE  /\ clock \in Nat /\ clock' = clock /\ tx' = tx
           /\ TaskOk(t) /\ pc[t] = label
           /\ LocalsOk(label, loc[t], tx[t], clock)
BY DEF Answered, EndpointsInv, TaskOk, networkVars

LEMMA CacheStays ==
    ASSUME EndpointsInv, UNCHANGED serviceVars
    PROVE  CacheOk'
BY DEF EndpointsInv, CacheOk, ReadSince, serviceVars, readerVars

(* A request is taken up without live data, or answered at once.           *)
LEMMA BeginsKeeps ==
    ASSUME EndpointsInv, NEW t \in Requests, NEW cost, Begins(t, cost),
           NEW label, NEW l, Await(t, label, l), UNCHANGED serviceVars,
           LocalsOk(label, l, tx[t], clock)
    PROVE  EndpointsInv'
<1>1. clock' = clock /\ tx' = tx
  BY DEF Begins, networkVars
<1>2. QED
  BY <1>1, CacheStays, AwaitKeeps

(* A request without live data goes on, with no success of its own.        *)
LEMMA AnsweredKeeps ==
    ASSUME EndpointsInv, NEW t \in Requests, NEW from, Answered(t, from),
           NEW label, NEW l, Await(t, label, l), UNCHANGED serviceVars,
           label \notin {"live.agent", "live.trade"},
           DOMAIN l = DOMAIN loc[t], l.start = loc[t].start,
           l.view = loc[t].view,
           l.result = "success" => label = "done" /\ tx[t] = "confirmed"
    PROVE  EndpointsInv'
<1>1. /\ clock \in Nat /\ clock' = clock /\ tx' = tx
      /\ LocalsOk(from, loc[t], tx[t], clock)
  BY AnsweredFacts
<1>2. LocalsOk(label, l, tx[t], clock)
  BY <1>1, LocalsStay
<1>3. QED
  BY <1>1, <1>2, CacheStays, AwaitKeeps

(* The view that LiveKept keeps was read since its request began.          *)
LEMMA LiveKeptKeeps ==
    ASSUME EndpointsInv, NEW t \in Requests, NEW label, Answered(t, label),
           NEW view, LiveKept(t, view), ReadSince(view, loc[t].start),
           loc[t].result # "success"
    PROVE  EndpointsInv'
<1>1. /\ clock \in Nat /\ clock' = clock /\ tx' = tx
      /\ LocalsOk(label, loc[t], tx[t], clock)
  BY AnsweredFacts
<1>2. CacheOk'
  BY <1>1 DEF LiveKept, KeepView, CacheOk, LocalsOk, ReadSince
<1> DEFINE l == [loc[t] EXCEPT !.view = view]
<1>3. /\ DOMAIN l = DOMAIN NoLocals /\ l.start = loc[t].start
      /\ l.view = view /\ l.result = loc[t].result
  BY <1>1 DEF LocalsOk, NoLocals
<1>4. LocalsOk("done", l, tx[t], clock)
  <2> HIDE DEF l
  <2> QED
    BY <1>1, <1>3, ConstantsOk DEF LocalsOk, ReadSince
<1>5. Await(t, "done", l)
  BY DEF LiveKept, Respond
<1>6. QED
  <2> HIDE DEF l
  <2> QED
    BY <1>1, <1>2, <1>4, <1>5, AwaitKeeps

LEMMA LiveGoesOnKeeps ==
    ASSUME EndpointsInv, NEW t \in Requests, NEW label, Answered(t, label),
           NEW view, NEW index, LiveGoesOn(t, view, index),
           ReadSince(view, loc[t].start), loc[t].result # "success"
    PROVE  EndpointsInv'
<1>1. /\ clock \in Nat /\ clock' = clock /\ tx' = tx
      /\ LocalsOk(label, loc[t], tx[t], clock)
  BY AnsweredFacts
<1> DEFINE l == [loc[t] EXCEPT !.view = view, !.index = index]
<1>2. CASE Await(t, "live.trade", l) /\ UNCHANGED serviceVars
  <2>1. /\ DOMAIN l = DOMAIN NoLocals /\ l.start = loc[t].start
        /\ l.view = view /\ l.result = loc[t].result
    BY <1>1 DEF LocalsOk, NoLocals
  <2>2. Await(t, "live.trade", l) /\ CacheOk'
    BY <1>2, CacheStays
  <2> HIDE DEF l
  <2>3. LocalsOk("live.trade", l, tx[t], clock)
    BY <1>1, <2>1, ConstantsOk DEF LocalsOk, ReadSince
  <2>4. QED
    BY <1>1, <2>2, <2>3, AwaitKeeps
<1>3. CASE LiveKept(t, view)
  BY <1>3, LiveKeptKeeps
<1>4. QED
  BY <1>2, <1>3 DEF LiveGoesOn

(* A view that is being read was read since its request began, and its     *)
(* request has no result yet.                                              *)
LEMMA LiveFacts ==
    ASSUME EndpointsInv, NEW t \in Requests,
           NEW label \in {"live.agent", "live.trade"}, Answered(t, label)
    PROVE  /\ ReadSince(loc[t].view, loc[t].start)
           /\ loc[t].result # "success"
BY AnsweredFacts DEF LocalsOk

LEMMA LiveDataKeeps ==
    ASSUME EndpointsInv, NEW t \in Requests, LiveData(t)
    PROVE  EndpointsInv'
<1> DEFINE begun == [NoLocals EXCEPT !.start = clock]
           hit == [begun EXCEPT !.view = cache.view]
<1>1. /\ Begins(t, 1) /\ UNCHANGED serviceVars /\ clock \in Nat
      /\ clock' = clock /\ tx' = tx
  BY DEF LiveData, Begins, networkVars, EndpointsInv
<1>2. \A label : LocalsOk(label, begun, tx[t], clock)
  BY <1>1, ConstantsOk DEF LocalsOk, NoLocals, EmptyView, ReadSince
<1>3. CASE CacheHit(clock) /\ Await(t, "done", hit)
  <2>1. /\ cache # None /\ cache.ts \in Nat /\ clock - cache.ts < TTL
        /\ ReadSince(cache.view, cache.ts)
    BY <1>3 DEF CacheHit, EndpointsInv, CacheOk
  <2>2. /\ DOMAIN hit = DOMAIN NoLocals /\ hit.start = clock
        /\ hit.view = cache.view /\ hit.result = None
    BY DEF NoLocals
  <2>3. Await(t, "done", hit)
    BY <1>3
  <2> HIDE DEF hit
  <2>4. LocalsOk("done", hit, tx[t], clock)
    BY <1>1, <2>1, <2>2, ConstantsOk DEF LocalsOk, ReadSince
  <2>5. QED
    BY <1>1, <2>3, <2>4, BeginsKeeps
<1>4. ASSUME NEW label, Await(t, label, begun) PROVE EndpointsInv'
  <2> HIDE DEF begun
  <2> QED
    BY <1>1, <1>2, <1>4, BeginsKeeps
<1>5. QED
  BY <1>3, <1>4 DEF LiveData, Respond

(* Any request that is taken up                                            *)
LEMMA RequestKeeps ==
    ASSUME EndpointsInv, NEW t \in Requests, Request(t)
    PROVE  EndpointsInv'
<1> DEFINE
      error == [NoLocals EXCEPT !.result = "error"]
      failure == [NoLocals EXCEPT !.result = "failure"]
      registered == [NoLocals EXCEPT !.result = "registered"]
      zero == [NoLocals EXCEPT !.count = 0]
      local == [NoLocals EXCEPT !.count = decisionCount]
      both == [NoLocals EXCEPT !.shown = decisionCount, !.count = decisionCount]
      begun == [NoLocals EXCEPT !.start = clock]
      Begun == {NoLocals, error, failure, registered, zero, local, both, begun}
<1>1. clock \in Nat
  BY DEF EndpointsInv
<1>2. ASSUME NEW l \in Begun, NEW label, label \notin {"live.agent", "live.trade"}
      PROVE  LocalsOk(label, l, tx[t], clock)
  <2>1. CASE l = NoLocals
    BY <2>1, <1>1, NoLocalsOk
  <2>2. CASE l = begun
    BY <2>2, <1>1, ConstantsOk DEF LocalsOk, NoLocals, EmptyView, ReadSince
  <2>3. CASE l \in {error, failure, registered}
    BY <2>3, <1>1, ConstantsOk DEF LocalsOk, NoLocals, EmptyView, ReadSince
  <2>4. CASE l \in {zero, local, both}
    <3>1. LocalsOk("idle", NoLocals, tx[t], clock)
      BY <1>1, NoLocalsOk
    <3>2. DOMAIN l = DOMAIN NoLocals /\ l.start = NoLocals.start
      BY <2>4 DEF NoLocals
    <3>3. l.view = NoLocals.view /\ l.result = None
      BY <2>4 DEF NoLocals
    <3> HIDE DEF Begun
    <3>4. QED
      BY <3>1, <3>2, <3>3, <1>1, <1>2, ConstantsOk, LocalsStay
  <2>5. QED
    BY <1>2, <2>1, <2>2, <2>3, <2>4
<1>3. ASSUME NEW l \in Begun, NEW label, NEW cost,
             label \notin {"live.agent", "live.trade"},
             Begins(t, cost), Await(t, label, l), UNCHANGED serviceVars
      PROVE  EndpointsInv'
  <2> HIDE DEF Begun
  <2> QED
    BY <1>2, <1>3, BeginsKeeps
<1>4. CASE LiveData(t)
  BY <1>4, LiveDataKeeps
<1>5. CASE OnchainStatus(t)
  BY <1>5, <1>3 DEF OnchainStatus, Respond
<1>6. CASE DecisionsOnchain(t)
  BY <1>6, <1>3 DEF DecisionsOnchain, Respond
<1>7. CASE Register(t)
  BY <1>7, <1>3 DEF Register, Respond
<1>8. CASE SendTx(t)
  BY <1>8, <1>3 DEF SendTx, Respond
<1>9. CASE ExecuteSwap(t)
  BY <1>9, <1>3 DEF ExecuteSwap, Respond
<1>10. CASE PollApproval(t)
  BY <1>10, <1>3 DEF PollApproval, Respond
<1>11. QED
  BY <1>4, <1>5, <1>6, <1>7, <1>8, <1>9, <1>10 DEF Request

(* The calls: one for each of the two ends it may have                     *)
LEMMA CallKeeps ==
    ASSUME EndpointsInv, NEW t \in Requests,
           \/ AccountRead(t) \/ ApprovalRead(t) \/ TxAccepted(t)
           \/ TxAnswered(t) \/ CallRaises(t)
    PROVE  EndpointsInv'
<1>1. CASE AccountRead(t)
  <2>1. PICK a : Answers(t, a)
    BY <1>1 DEF AccountRead
  <2>2. /\ CallOutstanding(t, AccountCalls) /\ tx' = tx
        /\ \/ loc' = loc
           \/ pc[t] = "live.agent" /\ loc' = [loc EXCEPT ![t].view.asOf = clock]
    BY <1>1 DEF AccountRead
  <2>3. pc[t] # "status"
    BY <2>2 DEF CallOutstanding, AccountCalls
  <2>4. QED
    BY <2>1, <2>2, <2>3, AnswerKeeps
<1>2. CASE ApprovalRead(t)
  <2>1. PICK a : Answers(t, a)
    BY <1>2 DEF ApprovalRead
  <2>2. CallOutstanding(t, {"poll"}) /\ tx' = tx /\ loc' = loc
    BY <1>2 DEF ApprovalRead
  <2>3. pc[t] # "status"
    BY <2>2 DEF CallOutstanding
  <2>4. QED
    BY <2>1, <2>2, <2>3, AnswerKeeps
<1>3. CASE TxAccepted(t)
  <2>1. /\ CallOutstanding(t, {"send", "execute"}) /\ Answers(t, "signature")
        /\ tx' = [tx EXCEPT ![t] = "sent"] /\ loc' = loc
    BY <1>3 DEF TxAccepted
  <2>2. pc[t] \in {"send", "execute"}
    BY <2>1 DEF CallOutstanding
  <2>3. QED
    BY <2>1, <2>2, AnswerKeeps
<1>4. CASE TxAnswered(t)
  <2>1. tx' = tx /\ loc' = loc
    BY <1>4 DEF TxAnswered
  <2>2. CASE CallOutstanding(t, {"status"}) /\ Answers(t, tx[t])
    BY <2>1, <2>2, AnswerKeeps
  <2>3. ASSUME NEW found, CallOutstanding(t, {"order"}), Answers(t, found)
        PROVE  EndpointsInv'
    <3>1. pc[t] # "status"
      BY <2>3 DEF CallOutstanding
    <3>2. QED
      BY <2>1, <2>3, <3>1, AnswerKeeps
  <2>4. QED
    BY <1>4, <2>2, <2>3 DEF TxAnswered
<1>5. CASE CallRaises(t)
  <2>1. /\ CallOutstanding(t, Calls) /\ loc' = loc
        /\ \E a \in {Raised, None} : Answers(t, a)
        /\ \/ tx' = tx
           \/ pc[t] \in {"send", "execute"} /\ tx' = [tx EXCEPT ![t] = "sent"]
    BY <1>5 DEF CallRaises
  <2>2. QED
    BY <2>1, AnswerKeeps, ConstantsOk
<1>6. QED
  BY <1>1, <1>2, <1>3, <1>4, <1>5

(* The handlers that read live data                                        *)
LEMMA LiveKeeps ==
    ASSUME EndpointsInv, NEW t \in Requests, LiveAgent(t) \/ LiveTrade(t)
    PROVE  EndpointsInv'
<1>1. CASE LiveAgent(t)
  <2>1. Answered(t, "live.agent")
    BY <1>1 DEF LiveAgent
  <2>2. ReadSince(loc[t].view, loc[t].start) /\ loc[t].result # "success"
    BY <2>1, LiveFacts
  <2>3. \A agent : ReadSince([loc[t].view EXCEPT !.agent = agent], loc[t].start)
    BY <2>2 DEF ReadSince, EmptyView
  <2>4. PICK view : /\ ReadSince(view, loc[t].start)
                    /\ LiveKept(t, view) \/ LiveGoesOn(t, view, 0)
    <3>1. \/ LiveKept(t, loc[t].view)
          \/ \E agent : LiveGoesOn(t, [loc[t].view EXCEPT !.agent = agent], 0)
      BY <1>1 DEF LiveAgent
    <3>2. QED
      BY <2>2, <2>3, <3>1
  <2>5. QED
    BY <2>1, <2>2, <2>4, LiveKeptKeeps, LiveGoesOnKeeps
<1>2. CASE LiveTrade(t)
  <2>1. Answered(t, "live.trade")
    BY <1>2 DEF LiveTrade
  <2>2. ReadSince(loc[t].view, loc[t].start) /\ loc[t].result # "success"
    BY <2>1, LiveFacts
  <2>3. \A trades : ReadSince([loc[t].view EXCEPT !.trades = trades], loc[t].start)
    BY <2>2 DEF ReadSince, EmptyView
  <2>4. \A trade : LET view == [loc[t].view EXCEPT !.trades = Append(@, trade)]
                   IN  ReadSince(view, loc[t].start)
    BY <2>3
  <2>5. PICK view : /\ ReadSince(view, loc[t].start)
                    /\ \/ LiveKept(t, view)
                       \/ LiveGoesOn(t, view, loc[t].index + 1)
    BY <1>2, <2>2, <2>4 DEF LiveTrade
  <2>6. QED
    BY <2>1, <2>2, <2>5, LiveKeptKeeps, LiveGoesOnKeeps
<1>3. QED
  BY <1>1, <1>2

(* Changes of a task's locals that leave its view and its beginning alone  *)
Leaves(t, l) ==
    /\ DOMAIN l = DOMAIN loc[t]
    /\ l.start = loc[t].start /\ l.view = loc[t].view

LEMMA LocalChanges ==
    ASSUME NEW t, DOMAIN loc[t] = DOMAIN NoLocals
    PROVE  /\ Leaves(t, loc[t])
           /\ \A r : Leaves(t, Result(t, r)) /\ Result(t, r).result = r
           /\ \A n : /\ Leaves(t, [loc[t] EXCEPT !.shown = n])
                     /\ [loc[t] EXCEPT !.shown = n].result = loc[t].result
           /\ \A n : /\ Leaves(t, [loc[t] EXCEPT !.count = n])
                     /\ [loc[t] EXCEPT !.count = n].result = loc[t].result
           /\ \A n : /\ Leaves(t, [loc[t] EXCEPT !.polls = n])
                     /\ [loc[t] EXCEPT !.polls = n].result = loc[t].result
           /\ \A n : /\ Leaves(t, [loc[t] EXCEPT !.wake = n])
                     /\ [loc[t] EXCEPT !.wake = n].result = loc[t].result
<1>1. Leaves(t, loc[t])
  BY DEF Leaves
<1>2. ASSUME NEW r PROVE Leaves(t, Result(t, r)) /\ Result(t, r).result = r
  BY DEF Leaves, Result, NoLocals
<1>3. ASSUME NEW n
      PROVE  /\ Leaves(t, [loc[t] EXCEPT !.shown = n])
             /\ [loc[t] EXCEPT !.shown = n].result = loc[t].result
  BY DEF Leaves, NoLocals
<1>4. ASSUME NEW n
      PROVE  /\ Leaves(t, [loc[t] EXCEPT !.count = n])
             /\ [loc[t] EXCEPT !.count = n].result = loc[t].result
  BY DEF Leaves, NoLocals
<1>5. ASSUME NEW n
      PROVE  /\ Leaves(t, [loc[t] EXCEPT !.polls = n])
             /\ [loc[t] EXCEPT !.polls = n].result = loc[t].result
  BY DEF Leaves, NoLocals
<1>6. ASSUME NEW n
      PROVE  /\ Leaves(t, [loc[t] EXCEPT !.wake = n])
             /\ [loc[t] EXCEPT !.wake = n].result = loc[t].result
  BY DEF Leaves, NoLocals
<1>7. QED
  BY <1>1, <1>2, <1>3, <1>4, <1>5, <1>6

(* The handlers of the other calls, one for each                           *)
LEMMA HandlerKeeps ==
    ASSUME EndpointsInv, NEW t \in Requests,
           \/ InfoAnswered(t) \/ CountAnswered(t) \/ RegisterAnswered(t)
           \/ SendAnswered(t) \/ StatusAnswered(t) \/ PauseEnds(t)
           \/ OrderAnswered(t) \/ ExecuteAnswered(t) \/ PollAnswered(t)
           \/ PollWakes(t)
    PROVE  EndpointsInv'
<1> DEFINE Other == {"info", "count", "register", "send", "status", "pause",
                     "order", "execute", "poll", "sleep"}
<1>1. LocalsOk(pc[t], loc[t], tx[t], clock)
  BY DEF EndpointsInv, TaskOk
<1>2. ASSUME NEW from \in Other, Answered(t, from),
             NEW to \in Other \cup {"done"}, NEW l, Await(t, to, l),
             UNCHANGED serviceVars, Leaves(t, l),
             l.result = loc[t].result \/ l.result # "success"
                \/ (to = "done" /\ tx[t] = "confirmed")
      PROVE  EndpointsInv'
  <2>1. pc[t] \in Other /\ pc[t] # "done"
    BY <1>2 DEF Answered
  <2>2. l.result = "success" => to = "done" /\ tx[t] = "confirmed"
    BY <2>1, <1>1, <1>2 DEF LocalsOk
  <2>3. QED
    BY <2>2, <1>2, AnsweredKeeps DEF Leaves
<1>3. DOMAIN loc[t] = DOMAIN NoLocals
  BY <1>1 DEF LocalsOk
<1> HIDE DEF Other
<1> USE <1>2, <1>3, LocalChanges DEF Respond
<1>4. {"info", "count", "register", "send", "status", "pause", "order",
       "execute", "poll", "sleep"} = Other
  BY DEF Other
<1>5. CASE InfoAnswered(t)
  BY <1>4, <1>5 DEF InfoAnswered
<1>6. CASE CountAnswered(t)
  BY <1>4, <1>6 DEF CountAnswered
<1>7. CASE RegisterAnswered(t)
  BY <1>4, <1>7 DEF RegisterAnswered
<1>8. CASE SendAnswered(t)
  BY <1>4, <1>8 DEF SendAnswered
<1>9. CASE StatusAnswered(t)
  <2>1. answer[t] = "confirmed" => tx[t] = "confirmed"
    BY <1>9 DEF StatusAnswered, Answered, EndpointsInv, TaskOk
  <2>2. QED
    BY <2>1, <1>4, <1>9 DEF StatusAnswered, Confirmed
<1>10. CASE PauseEnds(t)
  BY <1>4, <1>10 DEF PauseEnds
<1>11. CASE OrderAnswered(t)
  BY <1>4, <1>11 DEF OrderAnswered
<1>12. CASE ExecuteAnswered(t)
  BY <1>4, <1>12 DEF ExecuteAnswered
<1>13. CASE PollAnswered(t)
  BY <1>4, <1>13 DEF PollAnswered
<1>14. CASE PollWakes(t)
  BY <1>4, <1>14 DEF PollWakes
<1>15. QED
  BY <1>5, <1>6, <1>7, <1>8, <1>9, <1>10, <1>11, <1>12, <1>13, <1>14

-----------------------------------------------------------------------------

LEMMA InitHolds == Init => EndpointsInv
<1> SUFFICES ASSUME Init PROVE EndpointsInv
  OBVIOUS
<1>1. /\ clock = 0 /\ cache = None
      /\ pc = [t \in Requests |-> "idle"] /\ loc = [t \in Requests |-> NoLocals]
      /\ tx = [t \in Requests |-> "none"]
      /\ answer = [t \in Requests |-> None]
  BY DEF Init, ReaderInit
<1>2. ASSUME NEW t \in Requests PROVE TaskOk(t)
  BY <1>1, NoLocalsOk DEF TaskOk
<1>3. QED
  BY <1>1, <1>2 DEF EndpointsInv, CacheOk

LEMMA StepKeeps == EndpointsInv /\ [Next]_vars => EndpointsInv'
<1> SUFFICES ASSUME EndpointsInv, [Next]_vars PROVE EndpointsInv'
  OBVIOUS
<1>1. ASSUME clock' \in Nat, clock' >= clock,
             UNCHANGED <<pc, loc, answer, cache, tx>>
      PROVE  EndpointsInv'
  BY <1>1, NetworkKeeps DEF EndpointsInv
<1>2. CASE ChainMoves
  BY <1>1, <1>2 DEF ChainMoves, serviceVars, readerVars, taskVars, EndpointsInv
<1>3. CASE Tick
  BY <1>1, <1>3 DEF Tick, serviceVars, readerVars, taskVars, EndpointsInv
<1>4. CASE Decides \/ SubmitsDemo
  BY <1>1, <1>4 DEF Decides, SubmitsDemo, networkVars, readerVars, EndpointsInv
<1>5. CASE \E approval \in DWallets \X Hashes : NetworkSigns(approval)
  BY <1>1, <1>5 DEF NetworkSigns, serviceVars, readerVars, taskVars, EndpointsInv
<1>6. ASSUME NEW t \in Requests, TxMoves(t) PROVE EndpointsInv'
  <2>1. DOMAIN tx' = Requests
    BY <1>6 DEF TxMoves, EndpointsInv
  <2>2. \A u \in Requests : tx[u] = "confirmed" => tx'[u] = "confirmed"
    BY <1>6 DEF TxMoves, EndpointsInv
  <2>3. UNCHANGED <<clock, pc, loc, answer, cache>>
    BY <1>6 DEF TxMoves, serviceVars, readerVars, taskVars
  <2>4. QED
    BY <2>1, <2>2, <2>3, NetworkKeeps DEF EndpointsInv
<1>7. ASSUME NEW t \in Requests, Request(t) PROVE EndpointsInv'
  BY <1>7, RequestKeeps
<1>8. ASSUME NEW t \in Requests, Proceeds(t) PROVE EndpointsInv'
  BY <1>8, CallKeeps, LiveKeeps, HandlerKeeps DEF Proceeds
<1>9. ASSUME NEW t \in Requests, ResponseSent(t) PROVE EndpointsInv'
  <2>1. /\ Await(t, "idle", NoLocals) /\ tx' = [tx EXCEPT ![t] = "none"]
        /\ clock' = clock /\ UNCHANGED serviceVars
    BY <1>9 DEF ResponseSent
  <2>2. LocalsOk("idle", NoLocals, tx'[t], clock)
    BY NoLocalsOk DEF EndpointsInv
  <2>3. QED
    BY <2>1, <2>2, CacheStays, AwaitKeeps
<1>10. CASE UNCHANGED vars
  BY <1>1, <1>10 DEF vars, networkVars, serviceVars, readerVars, taskVars,
                     EndpointsInv
<1>11. QED
  BY <1>2, <1>3, <1>4, <1>5, <1>6, <1>7, <1>8, <1>9, <1>10 DEF Next

THEOREM EndpointsInvHolds == Spec => []EndpointsInv
BY InitHolds, StepKeeps, PTL DEF Spec

(* What GET /agent/live answers was read less than the time to live before *)
(* the request, for any number of requests that read and write the cache   *)
(* at once, and however long their reads take (get_live_data).             *)
THEOREM LiveDataFresh == Spec => []LiveDataIsFresh
<1>1. EndpointsInv => LiveDataIsFresh
  BY ConstantsOk DEF EndpointsInv, TaskOk, LocalsOk, ReadSince, LiveDataIsFresh
<1>2. QED
  BY <1>1, EndpointsInvHolds, PTL

(* A transaction that is reported as a success has been confirmed, for any *)
(* number of polls, and whatever is lost or raised (_send_and_confirm_tx). *)
THEOREM SuccessesAreReal == Spec => []SuccessIsReal
<1>1. EndpointsInv => SuccessIsReal
  BY DEF EndpointsInv, TaskOk, LocalsOk, SuccessIsReal
<1>2. QED
  BY <1>1, EndpointsInvHolds, PTL
=============================================================================
