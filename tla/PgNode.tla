------------------------------- MODULE PgNode -------------------------------
(***************************************************************************)
(* What a client sees of one regular PostgreSQL node, and is promised to   *)
(* see of pgrouter ("clients never know that they aren't just talking to a *)
(* regular PostgreSQL database node", README.md): requests are answered    *)
(* one at a time, in the order in which they were sent; every message of   *)
(* an answer belongs to the request being answered; nothing arrives that   *)
(* no request asked for; and only a node that does not take writes ever    *)
(* says 25006, which this one does.                                        *)
(***************************************************************************)
EXTENDS Naturals, Sequences

CONSTANTS Kinds, MaxReqs

VARIABLES reqs,   \* the kinds of the requests sent so far
          zs,     \* how many of them have been answered completely
          ans,    \* the distinct messages of each answer
          noise   \* has a message arrived that answers no request?

vars == <<reqs, zs, ans, noise>>

Codes == {"ok", "other"}

Init ==
    /\ reqs = <<>> /\ zs = 0
    /\ ans = [n \in 1..MaxReqs |-> {}]
    /\ noise = FALSE

\* The client issues a request.
Ask(k) ==
    /\ Len(reqs) < MaxReqs
    /\ reqs' = Append(reqs, k)
    /\ UNCHANGED <<zs, ans, noise>>

\* A message of the answer to the oldest unanswered request arrives; the last
\* one completes the answer.
Answer(c, last) ==
    LET n == zs + 1
    IN /\ n <= Len(reqs)
       /\ ans' = [ans EXCEPT ![n] = @ \union {[id |-> n, k |-> c]}]
       /\ zs' = IF last THEN n ELSE zs
       /\ UNCHANGED <<reqs, noise>>

Next ==
    \/ \E k \in Kinds : Ask(k)
    \/ \E c \in Codes, last \in BOOLEAN : Answer(c, last)

Spec == Init /\ [][Next]_vars
=============================================================================
