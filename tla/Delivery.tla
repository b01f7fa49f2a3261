------------------------------ MODULE Delivery ------------------------------
(***************************************************************************)
(* What becomes of a write: what Prometheus may conclude from an answer,   *)
(* whatever the goroutines and slices between the handler and the table    *)
(* do.  A sample comes into the adapter's hands with the answer to its     *)
(* request and leaves them stored or lost; nothing that is not in its      *)
(* hands is stored, and nothing comes back but with a request.             *)
(*                                                                         *)
(* MetricWriter implements this specification.                             *)
(***************************************************************************)
CONSTANTS
    Requests,     \* write requests
    SamplesIn     \* the samples of each

Samples == UNION {SamplesIn[r] : r \in Requests}

VARIABLES
    waiting,      \* requests posted and not answered
    answered,     \* requests answered, in this life of the process or another
    held,         \* samples in memory
    stored        \* samples in the table

vars == <<waiting, answered, held, stored>>

Init == waiting = {} /\ answered = {} /\ held = {} /\ stored = {}

Post(r) == waiting' = waiting \cup {r} /\ UNCHANGED <<answered, held, stored>>

\* The answer to a request, posted once or several times.
Answer(r) ==
    /\ r \in waiting
    /\ waiting' \in {waiting, waiting \ {r}}
    /\ answered' = answered \cup {r}
    /\ held' = held \cup SamplesIn[r]
    /\ UNCHANGED stored

\* A save stores some of what is held; another goroutine may go on holding it.
Store ==
    /\ stored \subseteq stored' /\ stored' \subseteq stored \cup held
    /\ held' \subseteq held /\ held \ held' \subseteq stored'
    /\ UNCHANGED <<waiting, answered>>

Lose == held' \subseteq held /\ UNCHANGED <<waiting, answered, stored>>

\* The process ends: clients get no answer, and what was held is lost.
Down == waiting' = {} /\ held' = {} /\ UNCHANGED <<answered, stored>>

Next ==
    \/ \E r \in Requests : Post(r) \/ Answer(r)
    \/ Store \/ Lose \/ Down

Spec == Init /\ [][Next]_vars

-----------------------------------------------------------------------------
\* Only what was answered is held or stored: an answer may promise too much, but
\* never too little.
OnlyAnswered == held \cup stored \subseteq UNION {SamplesIn[r] : r \in answered}
=============================================================================
