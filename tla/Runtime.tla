------------------------------ MODULE Runtime ------------------------------
(***************************************************************************)
(* What the trading process runs on.  The process is a single asyncio      *)
(* event loop, so its tasks interleave only where a task awaits something  *)
(* that really waits; for the trading code that is a command sent to Redis *)
(* through backend/events/publisher.py.                                    *)
(*                                                                         *)
(* A command is sent, takes effect in Redis, and is answered: three        *)
(* moments, and other tasks may run between any two of them.  The value of *)
(* a command is fixed when it is sent (set_json serialises before it       *)
(* awaits).  Each task waits for at most one command; commands of          *)
(* different tasks use different pooled connections and are not ordered.   *)
(***************************************************************************)
EXTENDS Integers, Sequences

CONSTANTS
    Tasks,      \* the coroutines that can be inside the trading code
    None,       \* Python's None: no command, no stored value, no timestamp
    Ttl         \* expire_seconds of the daily keys, in clock ticks

VARIABLES
    now,        \* the wall clock
    store,      \* Redis: the value of each key
    stream,     \* Redis: stream:positions, the log of opens and closes
    io          \* the command each task is waiting for

runtimeVars == <<now, store, stream, io>>

ASSUME RuntimeAssumption == Ttl \in Nat

DailyKeys == {"daily_pnl", "trades_today", "last_trade"}
Keys == {"position", "risk"} \cup DailyKeys

(* A value as Redis keeps it: SETEX attaches an expiry, SET does not.      *)
Stored(key, value) ==
    IF key \in DailyKeys THEN [value |-> value, expires |-> now + Ttl]
                         ELSE value

(* set_json and add_to_stream: the task sends the command and suspends.    *)
Send(t, key, value) ==
    io' = [io EXCEPT ![t] = [key |-> key, value |-> value, landed |-> FALSE]]

(* The command of task t takes effect in Redis; t has not seen the answer. *)
Land(t) ==
    /\ io[t] # None
    /\ ~io[t].landed
    /\ io' = [io EXCEPT ![t].landed = TRUE]
    /\ IF io[t].key = "stream"
         THEN /\ stream' = Append(stream, io[t].value)
              /\ store' = store
         ELSE /\ store' = [store EXCEPT ![io[t].key] =
                                Stored(io[t].key, io[t].value)]
              /\ stream' = stream
    /\ UNCHANGED now

(* The answer has reached task t: its await returns.                       *)
Answered(t) == io[t] # None /\ io[t].landed

(* get_json on a key that expires: an expired key is gone.                 *)
Live(key) == store[key] # None /\ now < store[key].expires
=============================================================================
