---------------------------- MODULE ImageCatalog ----------------------------
(***************************************************************************)
(* What the image service promises, without requests or failures: an image *)
(* is published once, by one owner, when its bytes are stored; it is then  *)
(* erased or hidden for good; and bytes are dropped only when no image of  *)
(* the catalogue needs them.                                               *)
(***************************************************************************)
CONSTANTS Image, User, NoUser

VARIABLES
    state,   \* what users see of each image
    owner,   \* who may erase it
    bytes    \* images whose file is in the store

catalogVars == <<state, owner, bytes>>

Init ==
    /\ state = [i \in Image |-> "absent"]
    /\ owner = [i \in Image |-> NoUser]
    /\ bytes = {}

Store(i) ==
    /\ state[i] = "absent"
    /\ bytes' = bytes \cup {i}
    /\ UNCHANGED <<state, owner>>

Drop(i) ==
    /\ state[i] \in {"absent", "erased"}
    /\ bytes' = bytes \ {i}
    /\ UNCHANGED <<state, owner>>

Publish(i) ==
    /\ state[i] = "absent" /\ i \in bytes
    /\ state' = [state EXCEPT ![i] = "shown"]
    /\ \E u \in User : owner' = [owner EXCEPT ![i] = u]
    /\ UNCHANGED bytes

Erase(i) ==
    /\ state[i] = "shown"
    /\ state' = [state EXCEPT ![i] = "erased"]
    /\ owner' = [owner EXCEPT ![i] = NoUser]
    /\ UNCHANGED bytes

Hide(i) ==
    /\ state[i] = "shown"
    /\ state' = [state EXCEPT ![i] = "hidden"]
    /\ UNCHANGED <<owner, bytes>>

Next == \E i \in Image : Store(i) \/ Drop(i) \/ Publish(i) \/ Erase(i) \/ Hide(i)

Spec == Init /\ [][Next]_catalogVars

=============================================================================
