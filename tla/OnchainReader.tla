---------------------------- MODULE OnchainReader ----------------------------
(***************************************************************************)
(* backend/services/onchain_reader.py: what it makes of the bytes of an    *)
(* account, and its cache for the one agent it is asked for.  An account   *)
(* is a record of VapmProgram, or None.                                    *)
(*                                                                         *)
(* The program stores a name with its length; _parse_agent_state skips 32  *)
(* bytes whatever the length.  With a shorter name it takes the count from *)
(* bytes of the dWallet's address, and the counters of the verdicts from   *)
(* the unused end of the account, which is zero up to length 23, or, from  *)
(* 24 on, from other fields.                                               *)
(***************************************************************************)
EXTENDS Integers, Sequences

CONSTANTS
    NameLengths,    \* bytes the agent's name may have
    Misreadings,    \* what the bytes of other fields may be taken for
    TTL,            \* _cache_ttl
    MaxShown,       \* 5, the trades that are read
    None

VARIABLES
    nameLength,     \* of the name the agent is registered with
    cache           \* _cache: when its view was begun, and the view

readerVars == <<nameLength, cache>>

NameFits == 32

ASSUME ReaderAssumption ==
    /\ NameLengths \subseteq 0..NameFits
    /\ Misreadings \subseteq [count : Nat, approved : Nat, rejected : Nat]
    /\ TTL \in Nat \ {0}
    /\ MaxShown \in Nat

ReaderInit ==
    /\ nameLength \in NameLengths
    /\ cache = None

(* result, before anything is read.  asOf is a history: when the first     *)
(* account in it was read.                                                 *)
EmptyView == [agent |-> None, trades |-> <<>>, asOf |-> None]

(* The least length of a name with which the counters of the verdicts are  *)
(* taken from a field that is in use                                       *)
NameReaches == 24

(* What _parse_agent_state may make of the agent's account                 *)
ParsedAgents(account) ==
    IF nameLength = NameFits
      THEN {[count |-> account.count, approved |-> account.approved,
             rejected |-> account.rejected]}
      ELSE {m \in Misreadings :
              nameLength < NameReaches => m.approved = 0 /\ m.rejected = 0}

VerdictLabels == <<"Pending", "Approved", "Rejected">>

(* Mutant: the labels are one verdict late.                                *)
ParseTradeShifted(index, account) ==
    [index |-> index, verdict |-> VerdictLabels[1 + ((account.verdict + 1) % 3)],
     hash |-> account.hash]

ParseTrade(index, account) ==
    [index |-> index, verdict |-> VerdictLabels[account.verdict + 1],
     hash |-> account.hash]

(* The trades are read from index 0, not the last ones.                    *)
TradesToRead(agent) == IF agent.count < MaxShown THEN agent.count ELSE MaxShown

CacheHit(now) == cache # None /\ now - cache.ts < TTL

KeepView(now, view) ==
    /\ cache' = [ts |-> now, view |-> view]
    /\ UNCHANGED nameLength
=============================================================================
