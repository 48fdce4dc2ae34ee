--------------------------- MODULE AbstractAccess ---------------------------
(***************************************************************************)
(* What require_permission promises, whatever caches lie in between: a     *)
(* request that comes while every change is in force is granted only to a  *)
(* user who was active and who held the permission, each at some moment    *)
(* since the request came.                                                 *)
(***************************************************************************)
CONSTANTS
    Requests,  \* requests that can be in progress at the same time
    Users      \* those who ask

VARIABLES
    active,   \* the users who are active
    holders,  \* the users who hold the permission
    inForce,  \* every change has been announced
    asks      \* request: who asks, what has been true of them, the answer

guardVars == <<active, holders, inForce, asks>>

Facts == {"active", "holds"}

NoAsk == [user |-> "none", seen |-> {}, answer |-> "none"]

\* What is true of user u now.
TrueOf(u, act, hold) ==
    {f \in Facts : \/ f = "active" /\ u \in act
                   \/ f = "holds" /\ u \in hold}

Init ==
    /\ active \subseteq Users /\ holders \subseteq Users
    /\ inForce \in BOOLEAN
    /\ asks = [q \in Requests |-> NoAsk]

\* Users and roles change; those who are asking are seen with what is true now.
Change ==
    /\ active' \in SUBSET Users /\ holders' \in SUBSET Users
    /\ inForce' \in BOOLEAN
    /\ asks' = [q \in Requests |->
                   IF asks[q].user = "none" THEN asks[q]
                   ELSE [asks[q] EXCEPT !.seen = @ \cup TrueOf(asks[q].user, active', holders')]]

\* While a change is not in force yet, the permission is excused.
Ask(q) ==
    /\ asks[q] = NoAsk
    /\ \E u \in Users :
         asks' = [asks EXCEPT ![q] =
                     [user |-> u, answer |-> "open",
                      seen |-> TrueOf(u, active, holders) \cup IF inForce THEN {} ELSE {"holds"}]]
    /\ UNCHANGED <<active, holders, inForce>>

Answer(q) ==
    /\ asks[q].answer = "open"
    /\ \E answer \in {"granted", "denied"} :
         /\ answer = "granted" => asks[q].seen = Facts
         /\ asks' = [asks EXCEPT ![q].answer = answer]
    /\ UNCHANGED <<active, holders, inForce>>

Leave(q) ==
    /\ asks[q] # NoAsk
    /\ asks' = [asks EXCEPT ![q] = NoAsk]
    /\ UNCHANGED <<active, holders, inForce>>

Next == Change \/ \E q \in Requests : Ask(q) \/ Answer(q) \/ Leave(q)

Spec == Init /\ [][Next]_guardVars
=============================================================================
