----------------------------- MODULE RateLimit ------------------------------
(***************************************************************************)
(* The rate limiter in front of register, login and upload: a counter in   *)
(* Redis for one route and one client address, counted up by every request *)
(* and given a time to live by the request that found it absent.  The two  *)
(* calls are separate, so a request may be cut off between them; and a     *)
(* call may take effect although its reply never comes.                    *)
(*                                                                         *)
(* One key is modelled: keys do not meet.  A definition Name_Variant is    *)
(* Name with a plausible bug in it.                                        *)
(***************************************************************************)
EXTENDS Integers, FiniteSets, Functions

CONSTANTS
    Request,   \* requests that may be under way at one time
    Limit,     \* requests a window serves
    Window,    \* its length, in ticks
    MaxCount,  \* the count stops there: beyond Limit its value tells nothing apart
    Faults     \* subset of {"down", "lostreply", "noexpiry"}: calls to Redis that fail

ASSUME RateAssumption ==
    /\ IsFiniteSet(Request)
    /\ Limit \in Nat \ {0} /\ Window \in Nat \ {0}
    /\ MaxCount \in Nat /\ MaxCount > Limit
    /\ Faults \subseteq {"down", "lostreply", "noexpiry"}

VARIABLES
    count,   \* the key: requests counted, 0 when the key is absent
    ttl,     \* ticks it has to live, 0 when it never expires
    req,     \* the requests
    served,  \* history: requests counted and let through, by the age of their count
    lost     \* history: an EXPIRE was lost in this life of the key, or the reply that
             \* would have told a request to send it

vars == <<count, ttl, req, served, lost>>

Idle == [pc |-> "idle", n |-> 0, age |-> 0]
Age == 0..(Window - 1)
TypeOK ==
    /\ count \in 0..MaxCount /\ ttl \in 0..Window
    /\ req \in [Request -> [pc: {"idle", "expire", "judge"}, n: 0..MaxCount, age: 0..Window]]
    /\ served \in [Age -> Nat] /\ lost \in BOOLEAN
    /\ count = 0 => ttl = 0

Init ==
    /\ count = 0 /\ ttl = 0
    /\ req = [r \in Request |-> Idle]
    /\ served = [a \in Age |-> 0] /\ lost = FALSE

At(r, pc) == req[r].pc = pc

CountUp == IF count = MaxCount THEN MaxCount ELSE count + 1

Count_ExpiryAtLimit(r) ==
    /\ At(r, "idle")
    /\ count' = CountUp
    /\ req' = [req EXCEPT ![r] = [pc |-> IF CountUp = Limit THEN "expire" ELSE "judge",
                                  n |-> CountUp, age |-> 0]]
    /\ UNCHANGED <<ttl, served, lost>>

Count_ExpiryEachTime(r) ==
    /\ At(r, "idle")
    /\ count' = CountUp
    /\ req' = [req EXCEPT ![r] = [pc |-> "expire", n |-> CountUp, age |-> 0]]
    /\ UNCHANGED <<ttl, served, lost>>

\* INCR.  Only the request that finds the key absent sets its time to live.
Count(r) ==
    /\ At(r, "idle")
    /\ count' = CountUp
    /\ req' = [req EXCEPT ![r] = [pc |-> IF count = 0 THEN "expire" ELSE "judge",
                                  n |-> CountUp, age |-> 0]]
    /\ UNCHANGED <<ttl, served, lost>>

\* INCR takes effect and its reply is lost.  The client library sends it again
\* (Count) or gives up (Bypass): neither sees the 1 of a key that was absent.
LoseReply(r) ==
    /\ At(r, "idle") /\ "lostreply" \in Faults
    /\ count' = CountUp
    /\ lost' = (lost \/ count = 0)
    /\ UNCHANGED <<ttl, req, served>>

\* INCR fails: the request is served uncounted.
Bypass(r) ==
    /\ At(r, "idle") /\ "down" \in Faults
    /\ req' = [req EXCEPT ![r] = [pc |-> "judge", n |-> 0, age |-> 0]]
    /\ UNCHANGED <<count, ttl, served, lost>>

SetExpiry_RoundedUp(r) ==
    /\ At(r, "expire")
    /\ ttl' = Window + 1
    /\ req' = [req EXCEPT ![r].pc = "judge"]
    /\ UNCHANGED <<count, served, lost>>

\* EXPIRE.  Its error is not looked at, and the context of the request, with
\* which it is sent, ends when the client hangs up.
SetExpiry(r) ==
    /\ At(r, "expire")
    /\ ttl' = IF count > 0 THEN Window ELSE 0
    /\ req' = [req EXCEPT ![r].pc = "judge"]
    /\ UNCHANGED <<count, served, lost>>

ExpiryFails(r) ==
    /\ At(r, "expire") /\ "noexpiry" \in Faults
    /\ req' = [req EXCEPT ![r].pc = "judge"] /\ lost' = TRUE
    /\ UNCHANGED <<count, ttl, served>>

Refused_OneMore(n) == n > Limit + 1

Refused(n) == n > Limit

\* 429, or on to the handler.
Judge(r) ==
    /\ At(r, "judge")
    /\ served' = IF req[r].n = 0 \/ Refused(req[r].n) \/ req[r].age \notin Age
                 THEN served
                 ELSE [served EXCEPT ![req[r].age] = @ + 1]
    /\ req' = [req EXCEPT ![r] = Idle]
    /\ UNCHANGED <<count, ttl, lost>>

\* Time passes; a key whose time to live is over is gone.
Tick ==
    /\ ttl' = IF ttl > 0 THEN ttl - 1 ELSE 0
    /\ count' = IF ttl = 1 THEN 0 ELSE count
    /\ lost' = (lost /\ ttl # 1)
    /\ served' = [a \in Age |-> IF a = 0 THEN 0 ELSE served[a - 1]]
    /\ req' = [r \in Request |-> IF At(r, "idle") \/ req[r].age = Window THEN req[r]
                                 ELSE [req[r] EXCEPT !.age = @ + 1]]

Next ==
    \/ Tick
    \/ \E r \in Request :
        \/ Count(r) \/ LoseReply(r) \/ Bypass(r) \/ SetExpiry(r) \/ ExpiryFails(r) \/ Judge(r)

Spec == Init /\ [][Next]_vars
\* Time passes, and a request that was counted is answered.
FairSpec == /\ Spec /\ WF_vars(Tick)
            /\ \A r \in Request : WF_vars(SetExpiry(r)) /\ WF_vars(Judge(r))

InWindow == SumFunction(served)

(* A window that begins anywhere meets at most two lives of the key, so it *)
(* serves at most twice the limit, however the requests interleave         *)
(* (ratelimit.go:16-33); and the state is of its type.                     *)
BurstBounded == TypeOK /\ InWindow <= 2 * Limit

(* A key that counts has a time to live, or a request is about to give it  *)
(* one, unless its EXPIRE or the reply of the INCR that made it was lost:  *)
(* nothing else can shut an address out for good, no interleaving of       *)
(* requests, no INCR that fails without effect and no late EXPIRE of an    *)
(* earlier life (ratelimit.go:16-23).                                      *)
EveryKeyExpires == count > 0 /\ ttl = 0 => lost \/ \E r \in Request : At(r, "expire")

(* A client that is refused is served again, however many requests it goes *)
(* on sending, unless an EXPIRE or the reply of the first INCR was lost    *)
(* (ratelimit.go:21-32).                                                   *)
RefusalEnds == (count > Limit) ~> (count <= Limit \/ lost)
=============================================================================
