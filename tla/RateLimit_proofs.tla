-------------------------- MODULE RateLimit_proofs --------------------------
(***************************************************************************)
(* Proofs about the rate limiter, for every limit, window and number of    *)
(* requests at once: its state stays well typed, a key that counts has, or *)
(* is about to get, a time to live unless its EXPIRE, or the reply of the  *)
(* INCR that made it, was lost, and a window serves at most twice the      *)
(* limit.                                                                  *)
(***************************************************************************)
EXTENDS RateLimit, SumTheorems

(* A count that saturates stays a count (INCR, ratelimit.go:16).           *)
LEMMA CountUpType ==
    ASSUME count \in 0..MaxCount
    PROVE  CountUp \in 1..MaxCount
  BY RateAssumption DEF CountUp

(* Every step keeps the state well typed.                                  *)
LEMMA TypeStep == TypeOK /\ [Next]_vars => TypeOK'
<1> SUFFICES ASSUME TypeOK, [Next]_vars PROVE TypeOK'
  OBVIOUS
<1> USE RateAssumption DEF TypeOK, At, Idle, Age
<1>1. ASSUME NEW r \in Request, Count(r) PROVE TypeOK'
  BY <1>1, CountUpType DEF Count
<1>2. ASSUME NEW r \in Request, Bypass(r) PROVE TypeOK'
  BY <1>2 DEF Bypass
<1>3. ASSUME NEW r \in Request, SetExpiry(r) PROVE TypeOK'
  <2>1. ttl' \in 0..Window /\ (count' = 0 => ttl' = 0) /\ UNCHANGED <<count, served, lost>>
    BY <1>3 DEF SetExpiry
  <2>2. req' = [req EXCEPT ![r].pc = "judge"]
    BY <1>3 DEF SetExpiry
  <2> QED
    BY <2>1, <2>2
<1>4. ASSUME NEW r \in Request, ExpiryFails(r) PROVE TypeOK'
  BY <1>4 DEF ExpiryFails
<1>5. ASSUME NEW r \in Request, Judge(r) PROVE TypeOK'
  BY <1>5 DEF Judge
<1>6. CASE Tick
  <2>1. count \in 0..MaxCount /\ ttl \in 0..Window /\ (count = 0 => ttl = 0)
    OBVIOUS
  <2>2. req \in [Request -> [pc: {"idle", "expire", "judge"}, n: 0..MaxCount, age: 0..Window]]
    OBVIOUS
  <2>3. served \in [Age -> Nat] /\ lost' \in BOOLEAN
    BY <1>6 DEF Tick
  <2> HIDE DEF TypeOK
  <2>4. count' \in 0..MaxCount /\ ttl' \in 0..Window /\ (count' = 0 => ttl' = 0)
    BY <1>6, <2>1 DEF Tick
  <2>5. req' \in [Request -> [pc: {"idle", "expire", "judge"}, n: 0..MaxCount, age: 0..Window]]
    <3>1. req' = [r \in Request |-> IF At(r, "idle") \/ req[r].age = Window THEN req[r]
                                   ELSE [req[r] EXCEPT !.age = @ + 1]]
      BY <1>6 DEF Tick
    <3>2. ASSUME NEW r \in Request, req[r].age # Window
          PROVE  [req[r] EXCEPT !.age = @ + 1] \in
                     [pc: {"idle", "expire", "judge"}, n: 0..MaxCount, age: 0..Window]
      <4>1. req[r].age + 1 \in 0..Window
        BY <2>2, <3>2
      <4> QED
        BY <2>2, <4>1
    <3> QED
      BY <2>2, <3>1, <3>2
  <2>6. served' \in [Age -> Nat]
    BY <1>6, <2>3 DEF Tick
  <2> QED
    BY <2>3, <2>4, <2>5, <2>6 DEF TypeOK
<1>7. CASE UNCHANGED vars
  BY <1>7 DEF vars
<1>8. ASSUME NEW r \in Request, LoseReply(r) PROVE TypeOK'
  <2>1. count' \in 1..MaxCount /\ lost' \in BOOLEAN /\ UNCHANGED <<ttl, req, served>>
    BY <1>8, CountUpType DEF LoseReply
  <2> QED BY <2>1
<1> QED
  BY <1>1, <1>2, <1>3, <1>4, <1>5, <1>6, <1>7, <1>8 DEF Next

LEMMA TypeInit == Init => TypeOK
<1> SUFFICES ASSUME Init PROVE TypeOK
  OBVIOUS
<1>1. lost \in BOOLEAN
  BY DEF Init
<1>2. /\ count \in 0..MaxCount /\ ttl \in 0..Window /\ (count = 0 => ttl = 0)
      /\ served \in [Age -> Nat]
      /\ req \in [Request -> [pc: {"idle", "expire", "judge"}, n: 0..MaxCount, age: 0..Window]]
  BY RateAssumption DEF Init, Idle, Age
<1> QED
  BY <1>1, <1>2 DEF TypeOK

(* The counter, its time to live and the requests are well typed in every  *)
(* reachable state (ratelimit.go:11-34).                                   *)
THEOREM TypeCorrect == Spec => []TypeOK
  BY TypeInit, TypeStep, PTL DEF Spec

(* A key that counts has a time to live or a request about to give it one, *)
(* unless its EXPIRE or the reply of the INCR that made it was lost,       *)
(* however many requests there are and however they interleave             *)
(* (ratelimit.go:16-23).                                                   *)
THEOREM KeysExpire == Spec => []EveryKeyExpires
<1>1. Init => EveryKeyExpires
  BY DEF Init, EveryKeyExpires
<1>2. TypeOK /\ EveryKeyExpires /\ [Next]_vars => EveryKeyExpires'
  <2> SUFFICES ASSUME TypeOK, EveryKeyExpires, [Next]_vars,
                      count' > 0, ttl' = 0, ~lost'
               PROVE  \E q \in Request : At(q, "expire")'
    BY DEF EveryKeyExpires
  <2> USE RateAssumption DEF TypeOK, At
  <2>1. ASSUME NEW r \in Request, Count(r) PROVE \E q \in Request : At(q, "expire")'
    <3>1. CASE count = 0
      BY <2>1, <3>1 DEF Count
    <3>2. CASE count # 0
      <4>1. PICK q \in Request : At(q, "expire")
        BY <2>1, <3>2 DEF Count, EveryKeyExpires
      <4>2. q # r
        BY <2>1, <4>1 DEF Count
      <4> QED
        BY <2>1, <4>1, <4>2 DEF Count
    <3> QED
      BY <3>1, <3>2
  <2>2. ASSUME NEW r \in Request, Bypass(r) PROVE \E q \in Request : At(q, "expire")'
    BY <2>2 DEF Bypass, EveryKeyExpires
  <2>3. ASSUME NEW r \in Request, SetExpiry(r) PROVE \E q \in Request : At(q, "expire")'
    BY <2>3 DEF SetExpiry
  <2>4. ASSUME NEW r \in Request, ExpiryFails(r) PROVE \E q \in Request : At(q, "expire")'
    BY <2>4 DEF ExpiryFails
  <2>5. ASSUME NEW r \in Request, Judge(r) PROVE \E q \in Request : At(q, "expire")'
    BY <2>5 DEF Judge, EveryKeyExpires
  <2>6. CASE Tick
    <3>1. count > 0 /\ ttl # 1
      BY <2>6 DEF Tick
    <3>3. ttl = 0 /\ ~lost
      BY <2>6, <3>1 DEF Tick
    <3>2. PICK q \in Request : At(q, "expire")
      BY <3>1, <3>3 DEF EveryKeyExpires
    <3> QED
      BY <2>6, <3>2 DEF Tick
  <2>7. CASE UNCHANGED vars
    BY <2>7 DEF vars, EveryKeyExpires
  <2>8. ASSUME NEW r \in Request, LoseReply(r) PROVE \E q \in Request : At(q, "expire")'
    <3>1. count # 0 /\ ttl = 0 /\ ~lost
      BY <2>8 DEF LoseReply
    <3>2. PICK q \in Request : At(q, "expire")
      BY <3>1 DEF EveryKeyExpires
    <3> QED
      BY <2>8, <3>2 DEF LoseReply
  <2> QED
    BY <2>1, <2>2, <2>3, <2>4, <2>5, <2>6, <2>7, <2>8 DEF Next
<1> QED
  BY <1>1, <1>2, TypeCorrect, PTL DEF Spec

-----------------------------------------------------------------------------
(***************************************************************************)
(* The burst.  BurstBounded is not inductive: how many of the requests in  *)
(* the window belong to the present life of the key is what matters.  Some *)
(* e parts them: what was counted at most e ticks ago was counted in this  *)
(* life, and all the rest of the window in the life before.                *)
(***************************************************************************)
Accepted(r) == ~At(r, "idle") /\ req[r].n \in 1..Limit
Waiting(S) == {r \in Request : Accepted(r) /\ req[r].age \in S}
Load(S) == SumFunctionOnSet(served, S) + Cardinality(Waiting(S))
Lives(e) ==
    /\ Load(0..e) <= count /\ Load(0..e) <= Limit
    /\ Load((e + 1)..(Window - 1)) <= Limit
    /\ count = 0 <=> e = -1
    /\ count = 0 => Load({0}) = 0
    /\ ttl > 0 => e + ttl >= Window
LivesInv == TypeOK /\ \E e \in -1..(Window - 1) : Lives(e)

(* The window is finite, and a load is a number.                           *)
LEMMA LoadType ==
    ASSUME TypeOK, NEW S \in SUBSET Age
    PROVE  /\ IsFiniteSet(S) /\ \A a \in S : served[a] \in Nat
           /\ IsFiniteSet(Waiting(S)) /\ Cardinality(Waiting(S)) \in Nat
           /\ SumFunctionOnSet(served, S) \in Nat /\ Load(S) \in Nat
<1>1. IsFiniteSet(S)
  <2>1. IsFiniteSet(Age)
    <3>1. 0 \in Int /\ Window - 1 \in Int
      BY RateAssumption
    <3> QED BY <3>1, FS_Interval DEF Age
  <2> QED BY <2>1, FS_Subset
<1>2. \A a \in S : served[a] \in Nat
  BY DEF TypeOK
<1>3. IsFiniteSet(Waiting(S)) /\ Cardinality(Waiting(S)) \in Nat
  BY FS_Subset, FS_CardinalityType, RateAssumption DEF Waiting
<1> QED BY <1>1, <1>2, <1>3, SumType DEF Load

(* The same of the state after a step.                                     *)
LEMMA NextLoadType ==
    ASSUME TypeOK', NEW S \in SUBSET Age
    PROVE  Load(S)' \in Nat /\ (S = {} => Load(S)' = 0)
<1>1. IsFiniteSet(S) /\ \A a \in S : served'[a] \in Nat
  <2>1. IsFiniteSet(Age)
    <3>1. 0 \in Int /\ Window - 1 \in Int
      BY RateAssumption
    <3> QED BY <3>1, FS_Interval DEF Age
  <2> QED BY <2>1, FS_Subset DEF TypeOK
<1>2. SumFunctionOnSet(served', S) \in Nat
  BY <1>1, SumType
<1>3. Cardinality(Waiting(S)') \in Nat
  BY FS_Subset, FS_CardinalityType, RateAssumption DEF Waiting
<1>4. ASSUME S = {} PROVE SumFunctionOnSet(served', S) = 0 /\ Cardinality(Waiting(S)') = 0
  BY <1>1, <1>4, SumRecurs, FS_EmptySet DEF Waiting
<1> QED BY <1>2, <1>3, <1>4 DEF Load

(* A load grows no more than its served and its waiting requests.          *)
LEMMA LoadOfSubset ==
    ASSUME TypeOK, TypeOK', NEW S \in SUBSET Age, UNCHANGED served, Waiting(S)' \subseteq Waiting(S)
    PROVE  Load(S)' <= Load(S)
<1>1. Cardinality(Waiting(S)') <= Cardinality(Waiting(S)) /\ Cardinality(Waiting(S)') \in Nat
  BY LoadType, FS_Subset, FS_CardinalityType
<1>2. SumFunctionOnSet(served, S) \in Nat /\ Cardinality(Waiting(S)) \in Nat
  BY LoadType
<1> QED BY <1>1, <1>2 DEF Load

(* INCR puts one more request where the count is within the limit.         *)
LEMMA CountLoad ==
    ASSUME TypeOK, TypeOK', NEW r \in Request, Count(r), NEW S \in SUBSET Age
    PROVE  /\ Load(S)' <= Load(S) + 1
           /\ 0 \notin S \/ CountUp > Limit => Load(S)' <= Load(S)
<1>1. UNCHANGED served /\ req[r].pc = "idle"
  BY DEF Count, At
<1>2. /\ \A q \in Request \ {r} : req'[q] = req[q]
      /\ req'[r].n = CountUp /\ req'[r].age = 0
  BY DEF Count, TypeOK
<1>3. Waiting(S)' \subseteq Waiting(S) \cup {r}
  BY <1>2 DEF Waiting, Accepted, At
<1>4. 0 \notin S \/ CountUp > Limit => Waiting(S)' \subseteq Waiting(S)
  <2> SUFFICES ASSUME 0 \notin S \/ CountUp > Limit PROVE r \notin Waiting(S)'
    BY <1>3
  <2>1. CountUp \in Int
    BY CountUpType DEF TypeOK
  <2> QED BY <1>2, <2>1, RateAssumption DEF Waiting, Accepted
<1>5. r \notin Waiting(S)
  BY <1>1 DEF Waiting, Accepted, At
<1>6. IsFiniteSet(Waiting(S)) /\ Cardinality(Waiting(S)) \in Nat /\ SumFunctionOnSet(served, S) \in Nat
  BY LoadType
<1>7. /\ IsFiniteSet(Waiting(S) \cup {r})
      /\ Cardinality(Waiting(S) \cup {r}) = Cardinality(Waiting(S)) + 1
  BY <1>5, <1>6, FS_AddElement
<1>8. Cardinality(Waiting(S)') <= Cardinality(Waiting(S)) + 1 /\ Cardinality(Waiting(S)') \in Nat
  BY <1>3, <1>7, FS_Subset, FS_CardinalityType
<1>9. Load(S)' <= Load(S) + 1
  BY <1>1, <1>6, <1>8 DEF Load
<1> QED BY <1>1, <1>4, <1>9, LoadOfSubset

(* An answer moves a request from those that wait to those that were served.*)
LEMMA JudgeLoad ==
    ASSUME TypeOK, TypeOK', NEW r \in Request, Judge(r), NEW S \in SUBSET Age
    PROVE  Load(S)' <= Load(S)
<1>1. /\ \A q \in Request \ {r} : req'[q] = req[q]
      /\ req'[r] = Idle /\ req[r].pc = "judge"
  BY DEF Judge, TypeOK, At
<1>2. Waiting(S)' \subseteq Waiting(S) \ {r}
  BY <1>1 DEF Waiting, Accepted, At, Idle
<1>3. IsFiniteSet(Waiting(S)) /\ Cardinality(Waiting(S)) \in Nat /\ SumFunctionOnSet(served, S) \in Nat
  BY LoadType
<1>4. SumFunctionOnSet(served', S) \in Nat
  <2>1. IsFiniteSet(S) /\ \A a \in S : served'[a] \in Nat
    BY LoadType DEF TypeOK
  <2> QED BY <2>1, SumType
<1>5. CASE r \in Waiting(S)
  <2>1. req[r].age \in S /\ req[r].n \in 1..Limit
    BY <1>5 DEF Waiting, Accepted
  <2>2. served' = [served EXCEPT ![req[r].age] = @ + 1]
    BY <2>1, RateAssumption DEF Judge, Refused
  <2>3. /\ served'[req[r].age] = served[req[r].age] + 1 /\ \A a \in S \ {req[r].age} : served[a] = served'[a]
        /\ \A a \in S : served[a] \in Nat /\ served'[a] \in Nat
    BY <2>1, <2>2 DEF TypeOK
  <2>4. SumFunctionOnSet(served', S) + served[req[r].age] = SumFunctionOnSet(served, S) + served'[req[r].age]
    BY <2>1, <2>3, LoadType, SumChangeOn
  <2>5. IsFiniteSet(Waiting(S) \ {r}) /\ Cardinality(Waiting(S) \ {r}) = Cardinality(Waiting(S)) - 1
    BY <1>3, <1>5, FS_RemoveElement
  <2>6. Cardinality(Waiting(S)') <= Cardinality(Waiting(S)) - 1 /\ Cardinality(Waiting(S)') \in Nat
    BY <1>2, <2>5, FS_Subset, FS_CardinalityType
  <2>7. served[req[r].age] \in Nat
    BY <2>1, <2>3
  <2> QED BY <1>3, <1>4, <2>3, <2>4, <2>6, <2>7 DEF Load
<1>6. CASE r \notin Waiting(S)
  <2>1. \A a \in S : served'[a] = served[a]
    <3>1. CASE req[r].n \in 1..Limit
      <4>1. req[r].age \notin S
        BY <1>1, <1>6, <3>1 DEF Waiting, Accepted, At
      <4> QED BY <4>1 DEF Judge, TypeOK
    <3>2. CASE req[r].n \notin 1..Limit
      <4>1. req[r].n \in Nat
        BY DEF TypeOK
      <4>2. req[r].n = 0 \/ Refused(req[r].n)
        BY <3>2, <4>1, RateAssumption DEF Refused
      <4> QED BY <4>2 DEF Judge
    <3> QED BY <3>1, <3>2
  <2>2. SumFunctionOnSet(served', S) = SumFunctionOnSet(served, S)
    BY <2>1, LoadType, SumSame
  <2>3. Cardinality(Waiting(S)') <= Cardinality(Waiting(S)) /\ Cardinality(Waiting(S)') \in Nat
    BY <1>2, <1>3, FS_Subset, FS_CardinalityType
  <2> QED BY <1>3, <2>2, <2>3 DEF Load
<1> QED BY <1>5, <1>6

(* The other calls to Redis count nothing and answer nothing.              *)
LEMMA OtherLoad ==
    ASSUME TypeOK, TypeOK', NEW r \in Request, Bypass(r) \/ SetExpiry(r) \/ ExpiryFails(r), NEW S \in SUBSET Age
    PROVE  Load(S)' <= Load(S)
<1>1. UNCHANGED served
  BY DEF Bypass, SetExpiry, ExpiryFails
<1>2. /\ \A q \in Request \ {r} : req'[q] = req[q]
      /\ req'[r].n = 0 \/ (req[r].pc # "idle" /\ req'[r].n = req[r].n /\ req'[r].age = req[r].age)
  BY DEF Bypass, SetExpiry, ExpiryFails, TypeOK, At
<1>3. Waiting(S)' \subseteq Waiting(S)
  BY <1>2 DEF Waiting, Accepted, At
<1> QED BY <1>1, <1>3, LoadOfSubset

(* A tick makes everything one tick older; what gets older than the window *)
(* falls out of it.                                                        *)
LEMMA TickLoad ==
    ASSUME TypeOK, TypeOK', Tick, NEW S \in SUBSET Age, NEW T \in SUBSET Age,
           \A a \in T : a = 0 \/ a - 1 \in S
    PROVE  Load(T)' <= Load(S)
<1>1. Waiting(T)' \subseteq Waiting(S)
  <2> SUFFICES ASSUME NEW r \in Request, Accepted(r)', req'[r].age \in T
               PROVE  Accepted(r) /\ req[r].age \in S
    BY DEF Waiting
  <2>1. req'[r] = IF At(r, "idle") \/ req[r].age = Window THEN req[r] ELSE [req[r] EXCEPT !.age = @ + 1]
    BY DEF Tick
  <2>2. req[r] \in [pc: {"idle", "expire", "judge"}, n: 0..MaxCount, age: 0..Window]
    BY DEF TypeOK
  <2>3. ~At(r, "idle") /\ req[r].age # Window
    BY <2>1, RateAssumption DEF Accepted, At, Age
  <2>4. req'[r].pc = req[r].pc /\ req'[r].n = req[r].n /\ req'[r].age = req[r].age + 1
    BY <2>1, <2>2, <2>3
  <2> QED BY <2>2, <2>3, <2>4 DEF Accepted, At
<1>2. SumFunctionOnSet(served', T) <= SumFunctionOnSet(served, S)
  <2> DEFINE from == [a \in T |-> a - 1]
  <2>1. \A a \in T : served'[a] = 0 \/ (from[a] \in S /\ served'[a] = served[from[a]])
    <3> SUFFICES ASSUME NEW a \in T PROVE served'[a] = 0 \/ (a - 1 \in S /\ served'[a] = served[a - 1])
      OBVIOUS
    <3>1. served'[a] = IF a = 0 THEN 0 ELSE served[a - 1]
      BY DEF Tick
    <3> QED BY <3>1
  <2>2. \A a, b \in T : from[a] = from[b] => a = b
    BY DEF Age
  <2>3. IsFiniteSet(S) /\ IsFiniteSet(T) /\ \A a \in S : served[a] \in Nat
    BY LoadType
  <2> HIDE DEF from
  <2> QED BY <2>1, <2>2, <2>3, SumMoved
<1>3. Cardinality(Waiting(T)') <= Cardinality(Waiting(S)) /\ Cardinality(Waiting(T)') \in Nat
  BY <1>1, LoadType, FS_Subset, FS_CardinalityType
<1>4. SumFunctionOnSet(served', T) \in Nat
  <2>1. IsFiniteSet(T) /\ \A a \in T : served'[a] \in Nat
    BY LoadType DEF TypeOK
  <2> QED BY <2>1, SumType
<1>5. SumFunctionOnSet(served, S) \in Nat /\ Cardinality(Waiting(S)) \in Nat
  BY LoadType
<1> QED BY <1>2, <1>3, <1>4, <1>5 DEF Load

(* Of fewer ages the load is smaller, and of none it is 0.                 *)
LEMMA LoadMonotone ==
    ASSUME TypeOK, NEW T \in SUBSET Age, NEW S \in SUBSET T
    PROVE  Load(S) <= Load(T) /\ (S = {} => Load(S) = 0)
<1>1. SumFunctionOnSet(served, S) <= SumFunctionOnSet(served, T)
  <2> DEFINE same == [a \in S |-> a]
  <2>1. \A a \in S : same[a] \in T /\ served[a] = served[same[a]]
    OBVIOUS
  <2>2. \A a, b \in S : same[a] = same[b] => a = b
    OBVIOUS
  <2>3. IsFiniteSet(S) /\ IsFiniteSet(T) /\ \A a \in T : served[a] \in Nat
    BY LoadType
  <2> HIDE DEF same
  <2> QED BY <2>1, <2>2, <2>3, SumMoved
<1>2. Waiting(S) \subseteq Waiting(T)
  BY DEF Waiting
<1>3. Cardinality(Waiting(S)) <= Cardinality(Waiting(T))
  BY <1>2, LoadType, FS_Subset
<1>4. ASSUME S = {} PROVE Load(S) = 0
  <2>1. SumFunctionOnSet(served, S) = 0
    BY <1>4, SumRecurs, FS_EmptySet
  <2>2. Cardinality(Waiting(S)) = 0
    BY <1>4, FS_EmptySet DEF Waiting
  <2> QED BY <2>1, <2>2 DEF Load
<1>5. /\ SumFunctionOnSet(served, S) \in Nat /\ SumFunctionOnSet(served, T) \in Nat
      /\ Cardinality(Waiting(S)) \in Nat /\ Cardinality(Waiting(T)) \in Nat
  BY LoadType
<1> QED BY <1>1, <1>3, <1>4, <1>5 DEF Load

LEMMA LivesStep == ASSUME LivesInv, TypeOK', [Next]_vars PROVE LivesInv'
<1> USE RateAssumption
<1>1. PICK e \in -1..(Window - 1) : Lives(e)
  BY DEF LivesInv
<1> DEFINE Now == 0..e
           Before == (e + 1)..(Window - 1)
<1>2. TypeOK /\ Now \in SUBSET Age /\ Before \in SUBSET Age /\ {0} \in SUBSET Age /\ {} \in SUBSET Age
  BY DEF LivesInv, Age
<1>3. /\ Load(Now) <= count /\ Load(Now) <= Limit /\ Load(Before) <= Limit
      /\ count = 0 <=> e = -1
      /\ count = 0 => Load({0}) = 0
      /\ ttl > 0 => e + ttl >= Window
  BY <1>1 DEF Lives
<1>4. /\ Load(Now) \in Nat /\ Load(Before) \in Nat /\ Load({0}) \in Nat
      /\ count \in 0..MaxCount /\ ttl \in 0..Window /\ (count = 0 => ttl = 0)
  BY <1>2, LoadType DEF TypeOK
<1>5. Load(Now)' \in Nat /\ Load(Before)' \in Nat /\ Load({0})' \in Nat
  BY <1>2, NextLoadType
<1>6. ASSUME Load(Now)' <= Load(Now), Load(Before)' <= Load(Before), Load({0})' <= Load({0}),
             UNCHANGED count, ttl' > 0 => e + ttl' >= Window
      PROVE  LivesInv'
  <2>1. Lives(e)'
    <3>1. /\ Load(Now)' <= count' /\ Load(Now)' <= Limit /\ Load(Before)' <= Limit
          /\ count' = 0 <=> e = -1
          /\ count' = 0 => Load({0})' = 0
      <4> HIDE DEF Now, Before
      <4> QED BY <1>3, <1>4, <1>5, <1>6
    <3> QED BY <1>6, <3>1 DEF Lives
  <2> QED BY <2>1 DEF LivesInv
\* A request that is counted: the first of a life, or one more of it.
<1>7. ASSUME NEW r \in Request, Count(r) PROVE LivesInv'
  <2>1. count' = CountUp /\ UNCHANGED ttl
    BY <1>7 DEF Count
  <2>2. CASE count = 0
    <3>1. e = -1 /\ Before = Age /\ count' = 1 /\ ttl' = 0
      BY <1>3, <1>4, <2>1, <2>2 DEF CountUp, Age
    <3>2. Load({0})' <= 1 /\ Load({0})' \in Nat
      BY <1>2, <1>3, <1>5, <1>7, <2>2, CountLoad
    <3>3. 1..(Window - 1) \in SUBSET Age /\ 0 \notin 1..(Window - 1)
      BY DEF Age
    <3>4. Load(1..(Window - 1))' <= Load(1..(Window - 1))
      BY <1>2, <1>7, <3>3, CountLoad
    <3>5. Load(1..(Window - 1)) <= Load(Before)
      BY <1>2, <3>1, <3>3, LoadMonotone
    <3>6. Load(1..(Window - 1)) \in Nat /\ Load(1..(Window - 1))' \in Nat
      BY <1>2, <3>3, LoadType, NextLoadType
    <3>7. Load(1..(Window - 1))' <= Limit
      <4> HIDE DEF Before
      <4> QED BY <1>3, <1>4, <3>4, <3>5, <3>6
    <3>8. 0..0 = {0} /\ (0 + 1)..(Window - 1) = 1..(Window - 1)
      OBVIOUS
    <3>9. Lives(0)'
      BY <3>1, <3>2, <3>7, <3>8 DEF Lives
    <3>10. 0 \in -1..(Window - 1)
      OBVIOUS
    <3> QED BY <3>9, <3>10 DEF LivesInv
  <2>3. CASE count > 0
    <3>1. e >= 0 /\ 0 \notin Before
      BY <1>3, <1>4, <2>3
    <3>2. Load(Before)' <= Load(Before)
      BY <1>2, <1>7, <3>1, CountLoad
    <3>3. Load(Now)' <= Load(Now) + 1 /\ (CountUp > Limit => Load(Now)' <= Load(Now))
      BY <1>2, <1>7, CountLoad
    <3>4. CountUp \in 1..MaxCount /\ CountUp >= count /\ (CountUp <= Limit => CountUp = count + 1)
      BY <1>4 DEF CountUp
    <3>5. /\ Load(Now)' <= count' /\ Load(Now)' <= Limit /\ Load(Before)' <= Limit
          /\ count' # 0 /\ e # -1 /\ (ttl' > 0 => e + ttl' >= Window)
      <4> HIDE DEF Now, Before
      <4> QED BY <1>3, <1>4, <1>5, <2>1, <3>1, <3>2, <3>3, <3>4
    <3>6. Lives(e)'
      BY <3>5 DEF Lives
    <3> QED BY <3>6 DEF LivesInv
  <2> QED BY <1>4, <2>2, <2>3
\* An INCR whose reply is lost: the count is ahead of the requests.
<1>12. ASSUME NEW r \in Request, LoseReply(r) PROVE LivesInv'
  <2>1. count' = CountUp /\ UNCHANGED <<ttl, req, served>>
    BY <1>12 DEF LoseReply
  <2>2. ASSUME NEW S \in SUBSET Age PROVE Load(S)' = Load(S)
    BY <2>1 DEF Load, Waiting, Accepted, At
  <2>3. CASE count = 0
    <3>1. e = -1 /\ Before = Age /\ count' = 1 /\ ttl' = 0
      BY <1>3, <1>4, <2>1, <2>3 DEF CountUp, Age
    <3>2. 1..(Window - 1) \in SUBSET Before
      BY <3>1 DEF Age
    <3>3. Load(1..(Window - 1))' <= Limit
      <4>1. Load(1..(Window - 1)) <= Load(Before) /\ 1..(Window - 1) \in SUBSET Age
        BY <1>2, <3>2, LoadMonotone
      <4>2. Load(1..(Window - 1))' = Load(1..(Window - 1)) /\ Load(1..(Window - 1)) \in Nat
        BY <1>2, <2>2, <4>1, LoadType
      <4> HIDE DEF Before
      <4> QED BY <1>3, <1>4, <4>1, <4>2
    <3>4. Load({0})' = 0
      BY <1>2, <1>3, <2>2, <2>3
    <3>5. 0..0 = {0} /\ (0 + 1)..(Window - 1) = 1..(Window - 1)
      OBVIOUS
    <3>6. Lives(0)'
      BY <3>1, <3>3, <3>4, <3>5 DEF Lives
    <3>7. 0 \in -1..(Window - 1)
      OBVIOUS
    <3> QED BY <3>6, <3>7 DEF LivesInv
  <2>4. CASE count > 0
    <3>1. CountUp >= count /\ CountUp # 0
      BY <1>4, <2>4 DEF CountUp
    <3>2. /\ Load(Now)' <= count' /\ Load(Now)' <= Limit /\ Load(Before)' <= Limit
          /\ count' # 0 /\ e # -1 /\ (ttl' > 0 => e + ttl' >= Window)
      <4>1. Load(Now)' = Load(Now) /\ Load(Before)' = Load(Before)
        BY <1>2, <2>2
      <4>2. count' \in Nat
        BY <1>4, <2>1, CountUpType
      <4> HIDE DEF Now, Before
      <4> QED BY <1>3, <1>4, <2>1, <2>4, <3>1, <4>1, <4>2
    <3>3. Lives(e)'
      BY <3>2 DEF Lives
    <3> QED BY <3>3 DEF LivesInv
  <2> QED BY <1>4, <2>3, <2>4
<1>8. ASSUME NEW r \in Request, Bypass(r) \/ SetExpiry(r) \/ ExpiryFails(r) PROVE LivesInv'
  <2>1. Load(Now)' <= Load(Now) /\ Load(Before)' <= Load(Before) /\ Load({0})' <= Load({0})
    BY <1>2, <1>8, OtherLoad
  <2>2. UNCHANGED count /\ (ttl' = ttl \/ (count > 0 /\ ttl' = Window) \/ ttl' = 0)
    BY <1>4, <1>8 DEF Bypass, SetExpiry, ExpiryFails
  <2>3. ttl' > 0 => e + ttl' >= Window
    BY <1>3, <1>4, <2>2
  <2> QED BY <1>6, <2>1, <2>2, <2>3
<1>9. ASSUME NEW r \in Request, Judge(r) PROVE LivesInv'
  <2>1. Load(Now)' <= Load(Now) /\ Load(Before)' <= Load(Before) /\ Load({0})' <= Load({0})
    BY <1>2, <1>9, JudgeLoad
  <2>2. UNCHANGED <<count, ttl>>
    BY <1>9 DEF Judge
  <2> QED BY <1>3, <1>6, <2>1, <2>2
<1>10. CASE Tick
  <2>1. ttl' = (IF ttl > 0 THEN ttl - 1 ELSE 0) /\ count' = IF ttl = 1 THEN 0 ELSE count
    BY <1>10 DEF Tick
  <2>2. Load({}) = 0 /\ Load({})' = 0
    BY <1>2, LoadMonotone, NextLoadType
  <2>3. Load({0})' = 0
    <3>1. Load({0})' <= Load({})
      BY <1>2, <1>10, TickLoad
    <3> QED BY <1>5, <2>2, <3>1
  <2>4. Age \in SUBSET Age /\ 0..(Window - 1) = Age /\ 0..-1 = {} /\ Window..(Window - 1) = {}
    BY DEF Age
  \* The key dies: what was counted in its life fills the window at most.
  <2>5. CASE ttl = 1
    <3>1. e = Window - 1 /\ Now = Age
      BY <1>3, <2>5 DEF Age
    <3>2. Load(Age)' <= Load(Now)
      <4>1. \A a \in Age : a = 0 \/ a - 1 \in Now
        BY <3>1 DEF Age
      <4> QED BY <1>2, <1>10, <2>4, <4>1, TickLoad
    <3>3. Load(Age)' <= Limit
      <4>1. Load(Age)' \in Nat
        BY <1>5, <3>1
      <4> HIDE DEF Now
      <4> QED BY <1>3, <1>4, <3>2, <4>1
    <3>4. Lives(-1)'
      <4>1. -1 + 1 = 0 /\ count' = 0 /\ ttl' = 0
        BY <2>1, <2>5
      <4> QED BY <2>2, <2>3, <2>4, <3>3, <4>1 DEF Lives
    <3>5. -1 \in -1..(Window - 1)
      OBVIOUS
    <3> QED BY <3>4, <3>5 DEF LivesInv
  <2>6. CASE count = 0
    <3>1. e = -1 /\ Before = Age /\ Now = {} /\ ttl = 0
      BY <1>3, <1>4, <2>6 DEF Age
    <3>2. Load(Before)' <= Load(Before)
      <4>1. \A a \in Before : a = 0 \/ a - 1 \in Before
        BY <3>1 DEF Age
      <4> QED BY <1>2, <1>10, <4>1, TickLoad
    <3>3. UNCHANGED <<count, ttl>>
      BY <2>1, <3>1
    <3> QED BY <1>3, <1>4, <1>6, <2>2, <2>3, <3>1, <3>2, <3>3
  <2>7. CASE count > 0 /\ ttl # 1 /\ e < Window - 1
    <3> DEFINE d == e + 1
               NowD == 0..d
               BeforeD == (d + 1)..(Window - 1)
    <3>1. d \in 0..(Window - 1) /\ NowD \in SUBSET Age /\ BeforeD \in SUBSET Age
      BY <1>3, <2>7 DEF Age
    <3>2. Load(NowD)' <= Load(Now)
      <4>1. \A a \in NowD : a = 0 \/ a - 1 \in Now
        OBVIOUS
      <4> QED BY <1>2, <1>10, <3>1, <4>1, TickLoad
    <3>3. Load(BeforeD)' <= Load(Before)
      <4>1. \A a \in BeforeD : a = 0 \/ a - 1 \in Before
        OBVIOUS
      <4> QED BY <1>2, <1>10, <3>1, <4>1, TickLoad
    <3>4. Load(NowD)' \in Nat /\ Load(BeforeD)' \in Nat
      BY <1>2, <3>1, NextLoadType
    <3>5. count' = count /\ count \in Nat /\ (ttl' > 0 => d + ttl' >= Window) /\ d # -1
      BY <1>3, <1>4, <2>1, <2>7
    <3>6. Load(NowD)' <= count' /\ Load(NowD)' <= Limit /\ Load(BeforeD)' <= Limit
      <4> HIDE DEF Now, Before, NowD, BeforeD
      <4> QED BY <1>3, <1>4, <3>2, <3>3, <3>4, <3>5
    <3>7. Lives(d)'
      BY <2>7, <3>5, <3>6 DEF Lives
    <3>8. d \in -1..(Window - 1)
      BY <3>1
    <3> QED BY <3>7, <3>8 DEF LivesInv
  <2>8. CASE count > 0 /\ ttl # 1 /\ e = Window - 1
    <3>1. Now = Age /\ Before = {}
      BY <2>8 DEF Age
    <3>2. Load(Now)' <= Load(Now)
      <4>1. \A a \in Now : a = 0 \/ a - 1 \in Now
        OBVIOUS
      <4> QED BY <1>2, <1>10, <4>1, TickLoad
    <3>3. UNCHANGED count /\ (ttl' > 0 => e + ttl' >= Window)
      BY <1>4, <2>1, <2>8
    <3>4. Load(Before)' <= Load(Before)
      BY <2>2, <3>1
    <3> QED BY <1>4, <1>6, <2>3, <3>2, <3>3, <3>4
  <2> QED BY <1>4, <2>5, <2>6, <2>7, <2>8
<1>11. CASE UNCHANGED vars
  <2>1. Load(Now)' = Load(Now) /\ Load(Before)' = Load(Before) /\ Load({0})' = Load({0})
    BY <1>11 DEF vars, Load, Waiting, Accepted, At
  <2>2. UNCHANGED <<count, ttl>>
    BY <1>11 DEF vars
  <2> QED BY <1>3, <1>4, <1>6, <2>1, <2>2
<1> QED BY <1>7, <1>8, <1>9, <1>10, <1>11, <1>12 DEF Next

LEMMA LivesInit == Init => LivesInv
<1> SUFFICES ASSUME Init PROVE LivesInv
  OBVIOUS
<1> USE RateAssumption
<1>1. TypeOK
  BY TypeInit
<1>2. ASSUME NEW S \in SUBSET Age PROVE Load(S) = 0
  <2>1. IsFiniteSet(S) /\ \A a \in S : served[a] = 0
    BY <1>1, LoadType DEF Init
  <2>2. [a \in S |-> 0] \in [S -> Nat]
    OBVIOUS
  <2>3. SumFunctionOnSet([a \in S |-> 0], S) = 0
    BY <2>1, <2>2, SumOfZeros, SumFunctionIs
  <2>4. SumFunctionOnSet(served, S) = SumFunctionOnSet([a \in S |-> 0], S)
    BY <2>1, SumSame
  <2>5. Waiting(S) = {}
    BY DEF Init, Idle, Waiting, Accepted, At
  <2> QED BY <2>3, <2>4, <2>5, FS_EmptySet DEF Load
<1>3. Load(0..-1) = 0 /\ Load((-1 + 1)..(Window - 1)) = 0 /\ Load({0}) = 0
  <2>1. 0..-1 \in SUBSET Age /\ (-1 + 1)..(Window - 1) \in SUBSET Age /\ {0} \in SUBSET Age
    BY DEF Age
  <2> QED BY <1>2, <2>1
<1>4. Lives(-1)
  BY <1>3 DEF Lives, Init
<1>5. -1 \in -1..(Window - 1)
  OBVIOUS
<1> QED BY <1>1, <1>4, <1>5 DEF LivesInv

(* BurstBounded: whatever the limit, the window, the number of requests at *)
(* once and the calls that fail, a window serves at most twice the limit   *)
(* (ratelimit.go:16-33).                                                   *)
THEOREM BurstsBounded == Spec => []BurstBounded
<1>1. Init => LivesInv
  BY LivesInit
<1>2. LivesInv /\ [Next]_vars => LivesInv'
  BY TypeStep, LivesStep DEF LivesInv
<1>3. LivesInv => BurstBounded
  <2> SUFFICES ASSUME LivesInv PROVE InWindow <= 2 * Limit
    BY DEF BurstBounded, LivesInv
  <2> USE RateAssumption
  <2>1. PICK e \in -1..(Window - 1) : Lives(e)
    BY DEF LivesInv
  <2> DEFINE Now == 0..e
             Before == (e + 1)..(Window - 1)
             Sum(S) == SumFunctionOnSet(served, S)
  <2>2. TypeOK /\ Now \in SUBSET Age /\ Before \in SUBSET Age
    BY DEF LivesInv, Age
  <2>3. Now \cap Before = {} /\ Now \cup Before = Age
    BY DEF Age
  <2>4. /\ IsFiniteSet(Now) /\ IsFiniteSet(Before) /\ \A a \in Now \cup Before : served[a] \in Nat
        /\ Sum(Now) \in Nat /\ Sum(Before) \in Nat
        /\ Cardinality(Waiting(Now)) \in Nat /\ Cardinality(Waiting(Before)) \in Nat
    BY <2>2, LoadType
  <2>5. Sum(Now) <= Limit /\ Sum(Before) <= Limit
    <3>1. Load(Now) <= Limit /\ Load(Before) <= Limit
      BY <2>1 DEF Lives
    <3>2. /\ Load(Now) = Sum(Now) + Cardinality(Waiting(Now))
          /\ Load(Before) = Sum(Before) + Cardinality(Waiting(Before))
      BY DEF Load
    <3> HIDE DEF Now, Before, Sum
    <3> QED BY <2>4, <3>1, <3>2
  <2>6. InWindow = Sum(Age)
    BY <2>2, SumFunctionIs DEF InWindow, TypeOK
  <2>7. Sum(Age) = Sum(Now) + Sum(Before)
    <3>1. Sum(Now \cup Before) = Sum(Now) + Sum(Before)
      <4> HIDE DEF Now, Before
      <4> QED BY <2>3, <2>4, SumSplit
    <3> QED BY <2>3, <3>1
  <2> HIDE DEF Now, Before, Sum
  <2> QED BY <2>4, <2>5, <2>6, <2>7
<1> QED BY <1>1, <1>2, <1>3, PTL DEF Spec
=============================================================================
