----------------------------- MODULE RateLimiter -----------------------------
(***************************************************************************)
(* The rate limiter (internal/ratelimit/limiter.go) as the middleware of   *)
(* internal/middleware/ratelimit.go calls it: a table of token buckets,    *)
(* one for each tracked address, that request goroutines look up under a   *)
(* mutex and ask for a token after they have released it, and a goroutine  *)
(* that removes full buckets every minute.                                 *)
(*                                                                         *)
(* The unit of time is what a bucket takes to gain one token (a second     *)
(* divided by the rate); the buckets are those of golang.org/x/time/rate,  *)
(* with whole tokens.                                                      *)
(***************************************************************************)
EXTENDS Integers, FiniteSets

CONSTANTS
  IPs,          \* client addresses
  Calls,        \* goroutines that call Allow
  Buckets,      \* the rate.Limiter values there can be
  NoBucket,     \* nil
  Burst,        \* burst: the size of a bucket
  MaxTracked    \* maxTrackedIPs

ASSUME LimitsAssumption ==
  /\ Burst \in Nat \ {0} /\ MaxTracked \in Nat
  /\ NoBucket \notin Buckets
  /\ IsFiniteSet(IPs)

VARIABLES
  table,      \* limiters: the bucket of each address, NoBucket when untracked
  tokens,     \* the tokens of each bucket
  pc,         \* where each call of Allow is: "idle", "lookup" or "decide"
  ip,         \* the address each call is about
  hand,       \* the bucket each call has looked up
  cleaner,    \* cleanupRoutine: "waiting", "sweeping" (holds mu) or "exited"
  toSweep,    \* the addresses the sweep has not come to
  due,        \* the ticker's channel holds a tick
  stopped,    \* stopChan is closed
  spent,      \* history: tokens handed out for each address in this unit of time
  late        \* history: those of them from a bucket that had left the table

callVars  == <<pc, ip, hand>>
cleanVars == <<cleaner, toSweep, due, stopped>>
vars      == <<table, tokens, callVars, cleanVars, spent, late>>

Tracked == {i \in IPs : table[i] # NoBucket}

\* rate.NewLimiter makes a bucket that nobody else has.
Fresh ==
  {b \in Buckets : (\A i \in IPs : table[i] # b) /\ (\A c \in Calls : hand[c] # b)}

-----------------------------------------------------------------------------
Init ==
  /\ table = [i \in IPs |-> NoBucket]
  /\ tokens = [b \in Buckets |-> Burst]
  /\ pc = [c \in Calls |-> "idle"]
  /\ ip \in [Calls -> IPs]
  /\ hand = [c \in Calls |-> NoBucket]
  /\ cleaner = "waiting" /\ toSweep = {} /\ due = FALSE
  /\ stopped = FALSE
  /\ spent = [i \in IPs |-> 0]
  /\ late = [i \in IPs |-> 0]

Arrive(c, i) ==
  /\ pc[c] = "idle" /\ ~stopped
  /\ pc' = [pc EXCEPT ![c] = "lookup"]
  /\ ip' = [ip EXCEPT ![c] = i]
  /\ UNCHANGED <<table, tokens, hand, cleanVars, spent, late>>

\* The part of Allow under mu.  A sweep holds mu from beginning to end.
Found(c) ==
  /\ table[ip[c]] # NoBucket
  /\ hand' = [hand EXCEPT ![c] = table[ip[c]]]
  /\ pc' = [pc EXCEPT ![c] = "decide"]
  /\ UNCHANGED <<table, tokens>>

\* Mutation: the capacity test is off by one.
TrackOneMore(c) ==
  /\ table[ip[c]] = NoBucket
  /\ Cardinality(Tracked) <= MaxTracked
  /\ Fresh # {}
  /\ LET b == CHOOSE b \in Fresh : TRUE IN
       /\ table' = [table EXCEPT ![ip[c]] = b]
       /\ tokens' = [tokens EXCEPT ![b] = Burst]
       /\ hand' = [hand EXCEPT ![c] = b]
  /\ pc' = [pc EXCEPT ![c] = "decide"]

Track(c) ==
  /\ table[ip[c]] = NoBucket
  /\ Cardinality(Tracked) < MaxTracked
  /\ Fresh # {}
  /\ LET b == CHOOSE b \in Fresh : TRUE IN
       /\ table' = [table EXCEPT ![ip[c]] = b]
       /\ tokens' = [tokens EXCEPT ![b] = Burst]
       /\ hand' = [hand EXCEPT ![c] = b]
  /\ pc' = [pc EXCEPT ![c] = "decide"]

AtCapacity(c) ==
  /\ table[ip[c]] = NoBucket
  /\ Cardinality(Tracked) >= MaxTracked
  /\ pc' = [pc EXCEPT ![c] = "idle"]
  /\ UNCHANGED <<table, tokens, hand>>

Lookup(c) ==
  /\ pc[c] = "lookup"
  /\ cleaner # "sweeping"
  /\ Found(c) \/ Track(c) \/ AtCapacity(c)
  /\ UNCHANGED <<ip, cleanVars, spent, late>>

\* Mutation: the token is taken without asking whether there is one.
DecideOverdraws(c) ==
  /\ pc[c] = "decide"
  /\ tokens' = [tokens EXCEPT ![hand[c]] = @ - 1]
  /\ spent' = [spent EXCEPT ![ip[c]] = @ + 1]
  /\ late' = IF table[ip[c]] = hand[c] THEN late ELSE [late EXCEPT ![ip[c]] = @ + 1]
  /\ pc' = [pc EXCEPT ![c] = "idle"]
  /\ hand' = [hand EXCEPT ![c] = NoBucket]
  /\ UNCHANGED <<table, ip, cleanVars>>

\* limiter.Allow() outside the mutex: the request is served if the bucket that
\* was looked up has a token, and gets 429 otherwise.
Decide(c) ==
  /\ pc[c] = "decide"
  /\ \/ /\ tokens[hand[c]] >= 1
        /\ tokens' = [tokens EXCEPT ![hand[c]] = @ - 1]
        /\ spent' = [spent EXCEPT ![ip[c]] = @ + 1]
        /\ late' = IF table[ip[c]] = hand[c] THEN late ELSE [late EXCEPT ![ip[c]] = @ + 1]
     \/ /\ tokens[hand[c]] < 1
        /\ UNCHANGED <<tokens, spent, late>>
  /\ pc' = [pc EXCEPT ![c] = "idle"]
  /\ hand' = [hand EXCEPT ![c] = NoBucket]
  /\ UNCHANGED <<table, ip, cleanVars>>

\* A unit of time passes; the minute of the ticker may end with it.  A tick
\* that the channel has no room for is dropped.
Refill(minute) ==
  /\ tokens' = [b \in Buckets |-> IF tokens[b] < Burst THEN tokens[b] + 1 ELSE Burst]
  /\ spent' = [i \in IPs |-> 0]
  /\ late' = [i \in IPs |-> 0]
  /\ due' = (due \/ (minute /\ ~stopped))
  /\ UNCHANGED <<table, callVars, cleaner, toSweep, stopped>>

StartSweep ==
  /\ cleaner = "waiting" /\ due
  /\ due' = FALSE
  /\ cleaner' = "sweeping"
  /\ toSweep' = Tracked
  /\ UNCHANGED <<table, tokens, callVars, stopped, spent, late>>

\* Mutation: the sweep takes any bucket that can serve a request.
SweepUsed(i) ==
  /\ cleaner = "sweeping" /\ i \in toSweep
  /\ toSweep' = toSweep \ {i}
  /\ table' = IF tokens[table[i]] >= 1 THEN [table EXCEPT ![i] = NoBucket] ELSE table
  /\ UNCHANGED <<tokens, callVars, cleaner, due, stopped, spent, late>>

\* Mutation: a full bucket is not full enough.
SweepNone(i) ==
  /\ cleaner = "sweeping" /\ i \in toSweep
  /\ toSweep' = toSweep \ {i}
  /\ table' = IF tokens[table[i]] > Burst THEN [table EXCEPT ![i] = NoBucket] ELSE table
  /\ UNCHANGED <<tokens, callVars, cleaner, due, stopped, spent, late>>

\* One turn of the loop of cleanupOldEntries, in the map's order.
Sweep(i) ==
  /\ cleaner = "sweeping" /\ i \in toSweep
  /\ toSweep' = toSweep \ {i}
  /\ table' = IF tokens[table[i]] >= Burst THEN [table EXCEPT ![i] = NoBucket] ELSE table
  /\ UNCHANGED <<tokens, callVars, cleaner, due, stopped, spent, late>>

\* Mutation: cleanupOldEntries returns without its Unlock.
EndSweepLocked ==
  /\ cleaner = "sweeping" /\ toSweep = {}
  /\ UNCHANGED vars

EndSweep ==
  /\ cleaner = "sweeping" /\ toSweep = {}
  /\ cleaner' = "waiting"
  /\ UNCHANGED <<table, tokens, callVars, toSweep, due, stopped, spent, late>>

\* main's deferred Stop, after Shutdown has waited for the handlers.  A stopped
\* ticker delivers nothing more, not even a tick that was ready.
Stop ==
  /\ ~stopped
  /\ \A c \in Calls : pc[c] = "idle"
  /\ stopped' = TRUE
  /\ due' = FALSE
  /\ UNCHANGED <<table, tokens, callVars, cleaner, toSweep, spent, late>>

\* Mutation: stopChan is looked at after a tick only.
ExitOnTick ==
  /\ cleaner = "waiting" /\ stopped /\ due
  /\ cleaner' = "exited"
  /\ UNCHANGED <<table, tokens, callVars, toSweep, due, stopped, spent, late>>

Exit ==
  /\ cleaner = "waiting" /\ stopped
  /\ cleaner' = "exited"
  /\ UNCHANGED <<table, tokens, callVars, toSweep, due, stopped, spent, late>>

Clean == StartSweep \/ (\E i \in IPs : Sweep(i)) \/ EndSweep \/ Exit

Next ==
  \/ \E c \in Calls : (\E i \in IPs : Arrive(c, i)) \/ Lookup(c) \/ Decide(c)
  \/ \E minute \in BOOLEAN : Refill(minute)
  \/ Clean
  \/ Stop

Spec == Init /\ [][Next]_vars

\* Time passes, with its minutes; the scheduler runs the goroutines that can
\* run, and the mutex serves in the end whoever waits for it.  Nothing makes a
\* client call or the server stop.
Fairness ==
  /\ WF_vars(Refill(TRUE))
  /\ WF_vars(Clean)
  /\ \A c \in Calls : SF_vars(Lookup(c)) /\ WF_vars(Decide(c))

FairSpec == Spec /\ Fairness

-----------------------------------------------------------------------------
(* Properties *)

\* Types of the variables.
TypeOK ==
  /\ table \in [IPs -> Buckets \cup {NoBucket}]
  /\ tokens \in [Buckets -> 0 .. Burst]
  /\ pc \in [Calls -> {"idle", "lookup", "decide"}]
  /\ ip \in [Calls -> IPs]
  /\ hand \in [Calls -> Buckets \cup {NoBucket}]
  /\ cleaner \in {"waiting", "sweeping", "exited"}
  /\ toSweep \subseteq IPs
  /\ due \in BOOLEAN /\ stopped \in BOOLEAN
  /\ spent \in [IPs -> Nat] /\ late \in [IPs -> Nat]

\* The tokens an address has: those of its bucket, a full one if it has none.
Level(i) == IF table[i] = NoBucket THEN Burst ELSE tokens[table[i]]

\* The table stays within its capacity, whatever lookups and sweeps interleave
\* (the capacity test of Allow).
WithinCapacity == Cardinality(Tracked) <= MaxTracked

\* Between two refills the tokens handed out for an address and those it still
\* has make at most one burst, not counting the late ones: neither a sweep nor
\* a new bucket gives tokens away (cleanupOldEntries against Allow).
Accounted == \A i \in IPs : Level(i) + spent[i] - late[i] <= Burst

\* The limiter implements one ideal bucket for each address, but for the late
\* tokens: tracking, forgetting and refusing at capacity cannot be seen.
Ideal == INSTANCE TokenBuckets WITH
  level   <- [i \in IPs |-> Level(i)],
  charged <- [i \in IPs |-> spent[i] - late[i]]

ImplementsBuckets == Ideal!Spec

\* Every call of Allow returns.
AllowReturns == \A c \in Calls : pc[c] # "idle" ~> pc[c] = "idle"

\* An address that sends nothing more leaves the table, so that a refused one
\* can have its place.
QuietForgotten ==
  \A i \in IPs :
    <>[](~stopped /\ \A c \in Calls : ip[c] = i => pc[c] = "idle")
      => <>[](table[i] = NoBucket)

\* The cleanup goroutine does not outlive Stop.
CleanerExits == stopped ~> cleaner = "exited"

\* limiter.go:30, of NewLimiter: "burst: maximum burst size per IP".
BurstPerIP == \A i \in IPs : spent[i] <= Burst

=============================================================================
