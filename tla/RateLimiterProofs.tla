-------------------------- MODULE RateLimiterProofs --------------------------
(***************************************************************************)
(* Theorems about RateLimiter, for every set of addresses, calls and       *)
(* buckets, every burst and every capacity.                                *)
(***************************************************************************)
EXTENDS RateLimiter, FiniteSetTheorems, TLAPS

-----------------------------------------------------------------------------
(* The inductive invariant *)

\* No two addresses share a bucket, and a call that has one in hand has that
\* of its own address or one that nobody can find any more.
BucketsApart ==
  /\ \A i, j \in IPs : i # j /\ table[i] # NoBucket => table[i] # table[j]
  /\ \A c \in Calls :
       /\ pc[c] = "decide" =>
            /\ hand[c] \in Buckets
            /\ \A i \in IPs \ {ip[c]} : table[i] # hand[c]

\* What the sweep still has to visit is in the table: mu keeps lookups away.
SweepOK == toSweep \subseteq Tracked

LateSpent == \A i \in IPs : late[i] <= spent[i]

Inv == TypeOK /\ BucketsApart /\ SweepOK /\ LateSpent /\ Accounted

-----------------------------------------------------------------------------
LEMMA LevelTyped ==
  ASSUME TypeOK, NEW i \in IPs
  PROVE  Level(i) \in 0 .. Burst
  BY LimitsAssumption DEF TypeOK, Level

LEMMA FreshBucket ==
  ASSUME TypeOK, NEW c \in Calls, Track(c)
  PROVE  \E b \in Fresh :
           /\ table' = [table EXCEPT ![ip[c]] = b]
           /\ tokens' = [tokens EXCEPT ![b] = Burst]
           /\ hand' = [hand EXCEPT ![c] = b]
<1> DEFINE b == CHOOSE b \in Fresh : TRUE
<1>1. b \in Fresh
  BY DEF Track
<1> QED
  BY <1>1 DEF Track

LEMMA InvInit == Init => Inv
<1> SUFFICES ASSUME Init PROVE Inv
  OBVIOUS
<1>1. TypeOK
  <2>1. Burst \in 0 .. Burst
    BY LimitsAssumption
  <2>2. tokens \in [Buckets -> 0 .. Burst] /\ spent \in [IPs -> Nat] /\ late \in [IPs -> Nat]
    BY <2>1 DEF Init
  <2> QED
    BY <2>2 DEF Init, TypeOK
<1>2. BucketsApart /\ SweepOK /\ LateSpent
  BY DEF Init, BucketsApart, SweepOK, LateSpent
<1>3. Accounted
  BY LimitsAssumption DEF Init, Accounted, Level
<1> QED
  BY <1>1, <1>2, <1>3 DEF Inv

LEMMA ArriveInv == ASSUME Inv, NEW c \in Calls, NEW i \in IPs, Arrive(c, i) PROVE Inv'
<1> USE DEF Inv, Arrive, cleanVars
<1>1. TypeOK'
  BY DEF TypeOK
<1>2. BucketsApart'
  BY DEF BucketsApart, TypeOK
<1>3. SweepOK' /\ LateSpent' /\ Accounted'
  BY DEF SweepOK, Tracked, LateSpent, Accounted, Level
<1> QED
  BY <1>1, <1>2, <1>3

LEMMA LookupInv == ASSUME Inv, NEW c \in Calls, Lookup(c) PROVE Inv'
<1> USE DEF Inv, Lookup, cleanVars
<1>1. CASE Found(c)
  <2>1. TypeOK'
    BY <1>1 DEF Found, TypeOK
  <2>2. BucketsApart'
    BY <1>1 DEF Found, BucketsApart, TypeOK
  <2>3. SweepOK' /\ LateSpent' /\ Accounted'
    BY <1>1 DEF Found, SweepOK, Tracked, LateSpent, Accounted, Level
  <2> QED
    BY <2>1, <2>2, <2>3
<1>2. CASE Track(c)
  <2>1. PICK b \in Fresh :
          /\ table' = [table EXCEPT ![ip[c]] = b]
          /\ tokens' = [tokens EXCEPT ![b] = Burst]
          /\ hand' = [hand EXCEPT ![c] = b]
    BY <1>2, FreshBucket
  <2>2. /\ b \in Buckets /\ b # NoBucket
        /\ \A i \in IPs : table[i] # b
        /\ \A d \in Calls : hand[d] # b
        /\ table[ip[c]] = NoBucket /\ ip[c] \in IPs
        /\ pc' = [pc EXCEPT ![c] = "decide"]
    BY <1>2, LimitsAssumption DEF Fresh, Track, TypeOK
  <2>3. TypeOK'
    BY <2>1, <2>2, LimitsAssumption DEF TypeOK
  <2>4. BucketsApart'
    BY <2>1, <2>2 DEF BucketsApart, TypeOK
  <2>5. SweepOK' /\ LateSpent'
    BY <2>1, <2>2 DEF SweepOK, Tracked, LateSpent, TypeOK
  <2>6. Accounted'
    BY <2>1, <2>2 DEF Accounted, Level, TypeOK
  <2> QED
    BY <2>3, <2>4, <2>5, <2>6
<1>3. CASE AtCapacity(c)
  <2>1. TypeOK'
    BY <1>3 DEF AtCapacity, TypeOK
  <2>2. BucketsApart'
    BY <1>3 DEF AtCapacity, BucketsApart, TypeOK
  <2>3. SweepOK' /\ LateSpent' /\ Accounted'
    BY <1>3 DEF AtCapacity, SweepOK, Tracked, LateSpent, Accounted, Level
  <2> QED
    BY <2>1, <2>2, <2>3
<1> QED
  BY <1>1, <1>2, <1>3

LEMMA DecideInv == ASSUME Inv, NEW c \in Calls, Decide(c) PROVE Inv'
<1> USE DEF Inv, Decide, cleanVars
<1> DEFINE b == hand[c]
<1>0. b \in Buckets /\ ip[c] \in IPs /\ tokens[b] \in Nat
  BY LimitsAssumption DEF BucketsApart, TypeOK
<1>1. TypeOK'
  BY <1>0, LimitsAssumption DEF TypeOK
<1>2. BucketsApart'
  BY DEF BucketsApart, TypeOK
<1>3. SweepOK'
  BY DEF SweepOK, Tracked
<1>4. LateSpent'
  BY <1>0 DEF LateSpent, TypeOK
<1>5. Accounted'
  <2> SUFFICES ASSUME NEW i \in IPs PROVE (Level(i) + spent[i] - late[i] <= Burst)'
    BY DEF Accounted
  <2>1. /\ Level(i) + spent[i] - late[i] <= Burst
        /\ spent[i] \in Nat /\ late[i] \in Nat /\ Level(i) \in Nat
    BY LevelTyped, LimitsAssumption DEF Accounted, TypeOK
  <2>2. CASE i = ip[c] /\ table[i] = b
    BY <1>0, <2>1, <2>2, LimitsAssumption DEF Level, TypeOK
  <2>3. CASE i = ip[c] /\ table[i] # b
    BY <1>0, <2>1, <2>3, LimitsAssumption DEF Level, TypeOK
  <2>4. CASE i # ip[c]
    <3>1. table[i] # b
      BY <2>4 DEF BucketsApart
    <3> QED
      BY <1>0, <2>1, <2>4, <3>1, LimitsAssumption DEF Level, TypeOK
  <2> QED
    BY <2>2, <2>3, <2>4
<1> QED
  BY <1>1, <1>2, <1>3, <1>4, <1>5

LEMMA RefillInv == ASSUME Inv, NEW minute \in BOOLEAN, Refill(minute) PROVE Inv'
<1> USE DEF Inv, Refill, callVars
<1>1. TypeOK'
  BY LimitsAssumption DEF TypeOK
<1>2. BucketsApart' /\ SweepOK' /\ LateSpent'
  BY DEF BucketsApart, SweepOK, Tracked, LateSpent
<1>3. Accounted'
  BY <1>1, LimitsAssumption DEF Accounted, Level, TypeOK
<1> QED
  BY <1>1, <1>2, <1>3

LEMMA CleanInv == ASSUME Inv, Clean PROVE Inv'
<1> USE DEF Inv, callVars
<1>1. CASE StartSweep
  BY <1>1 DEF StartSweep, TypeOK, BucketsApart, SweepOK, Tracked, LateSpent,
              Accounted, Level
<1>2. ASSUME NEW i \in IPs, Sweep(i) PROVE Inv'
  <2>1. TypeOK'
    BY <1>2 DEF Sweep, TypeOK
  <2>2. BucketsApart'
    BY <1>2, LimitsAssumption DEF Sweep, BucketsApart, TypeOK
  <2>3. SweepOK' /\ LateSpent'
    BY <1>2 DEF Sweep, SweepOK, Tracked, LateSpent, TypeOK
  <2>4. Accounted'
    <3>1. tokens[table[i]] \in 0 .. Burst
      BY <1>2 DEF Sweep, SweepOK, Tracked, TypeOK
    <3>2. ASSUME NEW j \in IPs PROVE Level(j)' = Level(j)
      BY <1>2, <3>1, LimitsAssumption DEF Sweep, SweepOK, Tracked, Level, TypeOK
    <3> QED
      BY <1>2, <3>2 DEF Sweep, Accounted
  <2> QED
    BY <2>1, <2>2, <2>3, <2>4
<1>3. CASE EndSweep \/ Exit
  BY <1>3 DEF EndSweep, Exit, TypeOK, BucketsApart, SweepOK, Tracked, LateSpent,
              Accounted, Level
<1> QED
  BY <1>1, <1>2, <1>3 DEF Clean

LEMMA InvStep == Inv /\ [Next]_vars => Inv'
<1> SUFFICES ASSUME Inv, [Next]_vars PROVE Inv'
  OBVIOUS
<1>1. CASE Stop
  BY <1>1 DEF Stop, callVars, Inv, TypeOK, BucketsApart, SweepOK, Tracked, LateSpent,
              Accounted, Level
<1>2. CASE UNCHANGED vars
  BY <1>2 DEF vars, callVars, cleanVars, Inv, TypeOK, BucketsApart, SweepOK, Tracked,
              LateSpent, Accounted, Level
<1> QED
  BY <1>1, <1>2, ArriveInv, LookupInv, DecideInv, RefillInv, CleanInv DEF Next

LEMMA InvAlways == Spec => []Inv
  BY InvInit, InvStep, PTL DEF Spec

\* The types of the state, for every burst and capacity.
THEOREM TypeCorrect == Spec => []TypeOK
<1>1. Inv => TypeOK
  BY DEF Inv
<1> QED
  BY <1>1, InvAlways, PTL

\* Between two refills an address gets no more than its burst, late tokens
\* apart: sweeps and new buckets give nothing away.
THEOREM TokensAccounted == Spec => []Accounted
<1>1. Inv => Accounted
  BY DEF Inv
<1> QED
  BY <1>1, InvAlways, PTL

-----------------------------------------------------------------------------
(* Capacity *)

LEMMA TrackedFinite == IsFiniteSet(Tracked) /\ Cardinality(Tracked) \in Nat
<1>1. Tracked \subseteq IPs
  BY DEF Tracked
<1> QED
  BY <1>1, LimitsAssumption, FS_Subset, FS_CardinalityType

LEMMA CapacityStep == Inv /\ WithinCapacity /\ [Next]_vars => WithinCapacity'
<1> SUFFICES ASSUME Inv, WithinCapacity, [Next]_vars PROVE Cardinality(Tracked') <= MaxTracked
  BY DEF WithinCapacity
<1>1. ASSUME Tracked' \subseteq Tracked PROVE Cardinality(Tracked') <= MaxTracked
  <2>1. Cardinality(Tracked') <= Cardinality(Tracked) /\ Cardinality(Tracked') \in Nat
    BY <1>1, TrackedFinite, FS_Subset, FS_CardinalityType
  <2> QED
    BY <2>1, TrackedFinite, LimitsAssumption DEF WithinCapacity
<1>2. CASE table' = table
  BY <1>1, <1>2 DEF Tracked
<1>3. ASSUME NEW i \in IPs, Sweep(i) PROVE Tracked' \subseteq Tracked
  BY <1>3 DEF Sweep, Tracked, Inv, TypeOK
<1>4. ASSUME NEW c \in Calls, Lookup(c), Track(c) PROVE Cardinality(Tracked') <= MaxTracked
  <2>1. PICK b \in Fresh : table' = [table EXCEPT ![ip[c]] = b]
    BY <1>4, FreshBucket DEF Inv
  <2>2. Tracked' \subseteq Tracked \cup {ip[c]}
    BY <2>1 DEF Tracked, Inv, TypeOK
  <2>3. IsFiniteSet(Tracked \cup {ip[c]}) /\ Cardinality(Tracked \cup {ip[c]}) <= Cardinality(Tracked) + 1
    BY TrackedFinite, FS_AddElement
  <2>4. Cardinality(Tracked') <= Cardinality(Tracked \cup {ip[c]}) /\ Cardinality(Tracked') \in Nat
    BY <2>2, <2>3, FS_Subset, FS_CardinalityType
  <2>5. Cardinality(Tracked) + 1 <= MaxTracked
    BY <1>4, TrackedFinite, LimitsAssumption DEF Track
  <2>6. Cardinality(Tracked \cup {ip[c]}) \in Nat
    BY <2>3, FS_CardinalityType
  <2> QED
    BY <2>3, <2>4, <2>5, <2>6, TrackedFinite, LimitsAssumption
<1>5. table' = table \/ (\E i \in IPs : Sweep(i)) \/ (\E c \in Calls : Lookup(c) /\ Track(c))
  <2>1. ASSUME NEW c \in Calls, Lookup(c) PROVE table' = table \/ Track(c)
    BY <2>1 DEF Lookup, Found, AtCapacity
  <2>2. ASSUME NEW c \in Calls, NEW i \in IPs, Arrive(c, i) PROVE table' = table
    BY <2>2 DEF Arrive
  <2>3. ASSUME NEW c \in Calls, Decide(c) PROVE table' = table
    BY <2>3 DEF Decide
  <2>4. ASSUME NEW minute \in BOOLEAN, Refill(minute) PROVE table' = table
    BY <2>4 DEF Refill
  <2>5. Stop \/ StartSweep \/ EndSweep \/ Exit \/ UNCHANGED vars => table' = table
    BY DEF Stop, StartSweep, EndSweep, Exit, vars
  <2> QED
    BY <2>1, <2>2, <2>3, <2>4, <2>5 DEF Next, Clean
<1> QED
  BY <1>1, <1>2, <1>3, <1>4, <1>5

\* The limiter never tracks more than maxTrackedIPs addresses.
THEOREM CapacityKept == Spec => []WithinCapacity
<1>1. Init => WithinCapacity
  <2> SUFFICES ASSUME Init PROVE WithinCapacity
    OBVIOUS
  <2>1. Tracked = {}
    BY DEF Init, Tracked
  <2> QED
    BY <2>1, FS_EmptySet, LimitsAssumption DEF WithinCapacity
<1> QED
  BY <1>1, CapacityStep, InvAlways, PTL DEF Spec

-----------------------------------------------------------------------------
(* The limiter implements ideal buckets *)

Levels == [i \in IPs |-> Level(i)]
Charges == [i \in IPs |-> spent[i] - late[i]]

LEMMA IdealStep == Inv /\ [Next]_vars => [Ideal!Next]_(Ideal!bucketVars)
<1> SUFFICES ASSUME Inv, [Next]_vars
             PROVE  Ideal!Next \/ UNCHANGED <<Levels, Charges>>
  BY DEF Ideal!bucketVars, Levels, Charges
<1>a. Levels' = [i \in IPs |-> Level(i)'] /\ Charges' = [i \in IPs |-> spent'[i] - late'[i]]
  BY DEF Levels, Charges
<1>1. CASE UNCHANGED <<table, tokens, spent, late>>
  BY <1>1 DEF Levels, Charges, Level
<1>2. ASSUME NEW c \in Calls, Lookup(c), Track(c) PROVE UNCHANGED <<Levels, Charges>>
  <2>1. PICK b \in Fresh :
          table' = [table EXCEPT ![ip[c]] = b] /\ tokens' = [tokens EXCEPT ![b] = Burst]
    BY <1>2, FreshBucket DEF Inv
  <2>2. /\ b \in Buckets /\ b # NoBucket /\ \A i \in IPs : table[i] # b
        /\ table[ip[c]] = NoBucket
    BY <1>2, LimitsAssumption DEF Fresh, Track
  <2>3. \A i \in IPs : Level(i)' = Level(i)
    BY <2>1, <2>2 DEF Level, Inv, TypeOK
  <2> QED
    BY <1>2, <2>3, <1>a DEF Levels, Charges, Lookup
<1>3. ASSUME NEW c \in Calls, Decide(c) PROVE Ideal!Next \/ UNCHANGED <<Levels, Charges>>
  <2> DEFINE b == hand[c]
  <2>0. PICK i \in IPs : i = ip[c]
    BY DEF Inv, TypeOK
  <2>1. b \in Buckets /\ b # NoBucket /\ \A j \in IPs \ {i} : table[j] # b
    BY <1>3, <2>0, LimitsAssumption DEF Decide, Inv, BucketsApart, TypeOK
  <2>2. /\ \A j \in IPs : spent[j] \in Nat /\ late[j] \in Nat
        /\ \A j \in IPs : Level(j) \in Nat
        /\ table \in [IPs -> Buckets \cup {NoBucket}]
        /\ tokens \in [Buckets -> 0 .. Burst]
        /\ spent \in [IPs -> Nat] /\ late \in [IPs -> Nat]
    BY LevelTyped, LimitsAssumption DEF Inv, TypeOK
  <2>3. CASE tokens[b] >= 1 /\ table[i] = b
    <3>1. /\ tokens' = [tokens EXCEPT ![b] = @ - 1] /\ table' = table
          /\ spent' = [spent EXCEPT ![i] = @ + 1] /\ late' = late
      BY <1>3, <2>0, <2>1, <2>2, <2>3, LimitsAssumption DEF Decide
    <3>2. Level(i) > 0 /\ Level(i)' = Level(i) - 1
      BY <2>1, <2>2, <2>3, <3>1, LimitsAssumption DEF Level
    <3>3. \A j \in IPs \ {i} : Level(j)' = Level(j)
      BY <2>1, <2>2, <3>1, LimitsAssumption DEF Level
    <3>4. Levels' = [Levels EXCEPT ![i] = @ - 1]
      BY <1>a, <2>1, <3>2, <3>3 DEF Levels
    <3>5. Charges' = [Charges EXCEPT ![i] = @ + 1]
      <4>1. \A j \in IPs : spent'[j] - late'[j] =
              (IF j = i THEN spent[j] - late[j] + 1 ELSE spent[j] - late[j])
        BY <2>0, <2>2, <3>1
      <4> QED
        BY <1>a, <2>0, <4>1 DEF Charges
    <3>6. Ideal!Spend(i)
      BY <2>1, <3>2, <3>4, <3>5 DEF Ideal!Spend, Levels, Charges
    <3> QED
      BY <2>1, <3>6 DEF Ideal!Next
  <2>4. CASE tokens[b] >= 1 /\ table[i] # b
    <3>1. /\ tokens' = [tokens EXCEPT ![b] = @ - 1] /\ table' = table
          /\ spent' = [spent EXCEPT ![i] = @ + 1] /\ late' = [late EXCEPT ![i] = @ + 1]
      BY <1>3, <2>0, <2>1, <2>2, <2>4, LimitsAssumption DEF Decide
    <3>2. \A j \in IPs : Level(j)' = Level(j)
      BY <2>1, <2>2, <2>4, <3>1 DEF Level
    <3>3. \A j \in IPs : spent'[j] - late'[j] = spent[j] - late[j]
      BY <2>1, <2>2, <3>1
    <3> QED
      BY <1>a, <3>2, <3>3 DEF Levels, Charges
  <2>5. CASE ~(tokens[b] >= 1)
    BY <1>1, <1>3, <2>2, <2>5 DEF Decide
  <2> QED
    BY <2>3, <2>4, <2>5
<1>4. ASSUME NEW minute \in BOOLEAN, Refill(minute) PROVE Ideal!Next
  <2>1. \A i \in IPs : Level(i)' = (IF Level(i) < Burst THEN Level(i) + 1 ELSE Burst)
    BY <1>4, LimitsAssumption DEF Refill, Level, Inv, TypeOK
  <2>2. Levels' = [i \in IPs |-> IF Levels[i] < Burst THEN Levels[i] + 1 ELSE Burst]
    BY <1>a, <2>1 DEF Levels
  <2>3. Charges' = [i \in IPs |-> 0]
    BY <1>4, <1>a DEF Refill, Charges
  <2>4. Ideal!Refill
    BY <2>2, <2>3 DEF Ideal!Refill, Levels, Charges
  <2> QED
    BY <2>4 DEF Ideal!Next
<1>5. ASSUME NEW i \in IPs, Sweep(i) PROVE UNCHANGED <<Levels, Charges>>
  <2>1. tokens[table[i]] \in 0 .. Burst /\ table[i] # NoBucket
    BY <1>5 DEF Sweep, Inv, SweepOK, Tracked, TypeOK
  <2>2. ASSUME NEW j \in IPs PROVE Level(j)' = Level(j)
    BY <1>5, <2>1, LimitsAssumption DEF Sweep, Level, Inv, TypeOK
  <2> QED
    BY <1>5, <1>a, <2>2 DEF Sweep, Levels, Charges
<1>6. \/ UNCHANGED <<table, tokens, spent, late>>
      \/ \E c \in Calls : Decide(c) \/ (Lookup(c) /\ Track(c))
      \/ \E minute \in BOOLEAN : Refill(minute)
      \/ \E i \in IPs : Sweep(i)
  <2>1. ASSUME NEW c \in Calls, Lookup(c)
        PROVE  UNCHANGED <<table, tokens, spent, late>> \/ Track(c)
    BY <2>1 DEF Lookup, Found, AtCapacity
  <2>2. ASSUME NEW c \in Calls, NEW i \in IPs, Arrive(c, i)
        PROVE  UNCHANGED <<table, tokens, spent, late>>
    BY <2>2 DEF Arrive
  <2>3. Stop \/ StartSweep \/ EndSweep \/ Exit \/ UNCHANGED vars
          => UNCHANGED <<table, tokens, spent, late>>
    BY DEF Stop, StartSweep, EndSweep, Exit, vars
  <2> QED
    BY <2>1, <2>2, <2>3 DEF Next, Clean
<1> QED
  BY <1>1, <1>2, <1>3, <1>4, <1>5, <1>6

\* Each address sees a bucket of its own that is never forgotten, whatever
\* the table does; only late tokens come on top.
THEOREM LimiterImplementsBuckets == Spec => ImplementsBuckets
<1>1. Init => Ideal!Init
  BY LimitsAssumption DEF Init, Ideal!Init, Level
<1>2. Inv /\ [Next]_vars => [Ideal!Next]_(Ideal!bucketVars)
  BY IdealStep
<1> QED
  BY <1>1, <1>2, InvAlways, PTL DEF Spec, ImplementsBuckets, Ideal!Spec

=============================================================================
