----------------------------- MODULE MarkBoard ------------------------------
(***************************************************************************)
(* What the tags promise: a user's mark on an image is flipped by one      *)
(* toggle at a time and the server tells which way; a mark hangs on an     *)
(* image and a tag that exist and goes with either of them.                *)
(***************************************************************************)
EXTENDS Integers

CONSTANTS Image, User, TagId

VARIABLES
    images, \* images that exist
    tags,   \* tags that exist
    marks,  \* who has marked what
    told    \* answers "added" less answers "removed" since the mark was cleared

Mark == Image \X TagId \X User

Init == images = Image /\ tags = {} /\ marks = {} /\ told = [m \in Mark |-> 0]

Clear(gone) ==
    /\ marks' = marks \ gone
    /\ told' = [m \in Mark |-> IF m \in gone THEN 0 ELSE told[m]]

Add(m) ==
    /\ m \notin marks /\ m[1] \in images /\ m[2] \in tags
    /\ marks' = marks \cup {m} /\ told' = [told EXCEPT ![m] = @ + 1]
    /\ UNCHANGED <<images, tags>>
Take(m) ==
    /\ m \in marks
    /\ marks' = marks \ {m} /\ told' = [told EXCEPT ![m] = @ - 1]
    /\ UNCHANGED <<images, tags>>
\* Whoever may see an image may clear a tag of it, for all users.
Untag(i, t) == Clear({m \in Mark : m[1] = i /\ m[2] = t}) /\ UNCHANGED <<images, tags>>
NewTag(t) == t \notin tags /\ tags' = tags \cup {t} /\ UNCHANGED <<images, marks, told>>
DropTag(t) ==
    /\ tags' = tags \ {t}
    /\ Clear({m \in Mark : m[2] = t})
    /\ UNCHANGED images
DropImage(i) ==
    /\ images' = images \ {i}
    /\ Clear({m \in Mark : m[1] = i})
    /\ UNCHANGED tags

Next ==
    \/ \E m \in Mark : Add(m) \/ Take(m)
    \/ \E i \in Image, t \in TagId : Untag(i, t)
    \/ \E t \in TagId : NewTag(t) \/ DropTag(t)
    \/ \E i \in Image : DropImage(i)

Spec == Init /\ [][Next]_<<images, tags, marks, told>>

=============================================================================
