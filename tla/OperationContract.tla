-------------------------- MODULE OperationContract --------------------------
(***************************************************************************)
(* What a connection promises its client about every request it reads,     *)
(* without queue, workers, registry or phases: a request is open from the  *)
(* moment it is registered until it is retired; it takes effect here at    *)
(* most once and only while open and unanswered; it may be handed to       *)
(* another server, again only while open and unanswered, which carries it  *)
(* out or not in its own time, after the answer too, and more than once if *)
(* it was handed over again; it is answered at most once and only while    *)
(* open, with its result or with "canceled", and never with "canceled"     *)
(* once it has taken effect or been handed over; and a Cancel is           *)
(* acknowledged only for a request that was answered "canceled" and has no *)
(* effect anywhere, then or later.                                         *)
(***************************************************************************)
EXTENDS FiniteSets

CONSTANT Ops

VARIABLES
    life,     \* "unread", "open" or "retired"
    answer,   \* "none", "result" or "canceled"
    effect,   \* the requests that have taken effect, here or elsewhere
    elsewhere,\* the requests another server may still carry out
    granted   \* the requests a Cancel of which was acknowledged with success

contractVars == <<life, answer, effect, elsewhere, granted>>

ContractInit ==
    /\ life = [o \in Ops |-> "unread"]
    /\ answer = [o \in Ops |-> "none"]
    /\ effect = {}
    /\ elsewhere = {}
    /\ granted = {}

Read(o) ==
    /\ life[o] = "unread"
    /\ life' = [life EXCEPT ![o] = "open"]
    /\ UNCHANGED <<answer, effect, elsewhere, granted>>

TakeEffect(o) ==
    /\ life[o] = "open" /\ answer[o] = "none" /\ o \notin effect
    /\ effect' = effect \cup {o}
    /\ UNCHANGED <<life, answer, elsewhere, granted>>

Delegate(o) ==
    /\ life[o] = "open" /\ answer[o] = "none"
    /\ elsewhere' = elsewhere \cup {o}
    /\ UNCHANGED <<life, answer, effect, granted>>

\* Open, answered or retired: the other server does not know.
Decide(o) ==
    /\ o \in elsewhere
    /\ elsewhere' = elsewhere \ {o}
    /\ effect' \in {effect, effect \cup {o}}
    /\ UNCHANGED <<life, answer, granted>>

Answer(o) ==
    /\ life[o] = "open" /\ answer[o] = "none"
    /\ answer' = [answer EXCEPT ![o] = "result"]
    /\ UNCHANGED <<life, effect, elsewhere, granted>>

AnswerCanceled(o) ==
    /\ life[o] = "open" /\ answer[o] = "none" /\ o \notin effect \cup elsewhere
    /\ answer' = [answer EXCEPT ![o] = "canceled"]
    /\ UNCHANGED <<life, effect, elsewhere, granted>>

\* A Bind, a drain or the end of the connection may retire several at once.
Retire(Q) ==
    /\ \A o \in Q : life[o] = "open"
    /\ life' = [o \in Ops |-> IF o \in Q THEN "retired" ELSE life[o]]
    /\ UNCHANGED <<answer, effect, elsewhere, granted>>

\* A request that is refused admission is read and retired in one go.
Refuse(o) ==
    /\ life[o] = "unread"
    /\ life' = [life EXCEPT ![o] = "retired"]
    /\ UNCHANGED <<answer, effect, elsewhere, granted>>

GrantCancel(o) ==
    /\ answer[o] = "canceled" /\ o \notin effect \cup elsewhere
    /\ granted' = granted \cup {o}
    /\ UNCHANGED <<life, answer, effect, elsewhere>>

ContractNext ==
    \/ \E o \in Ops : \/ Read(o) \/ TakeEffect(o) \/ Delegate(o) \/ Decide(o)
                      \/ Answer(o) \/ AnswerCanceled(o) \/ Refuse(o) \/ GrantCancel(o)
    \/ \E Q \in SUBSET Ops : Retire(Q)

ContractSpec == ContractInit /\ [][ContractNext]_contractVars

=============================================================================
