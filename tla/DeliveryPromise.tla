--------------------------- MODULE DeliveryPromise --------------------------
(***************************************************************************)
(* What the outbox promises of each alert and recipient, without saying    *)
(* how: once it is on the books it is sent until Telegram has taken it or  *)
(* has refused it for good, and then the book is closed.                   *)
(***************************************************************************)
CONSTANT Jobs

VARIABLES
  book,     \* "absent", "pending", "delivered" or "dead"
  taken,    \* jobs whose message Telegram has taken at least once
  turned    \* jobs Telegram has refused for good at least once

promiseVars == <<book, taken, turned>>

Init ==
  /\ book = [j \in Jobs |-> "absent"]
  /\ taken = {}
  /\ turned = {}

\* One post brings several jobs onto the books at once.
Book(J) ==
  /\ \A j \in J : book[j] = "absent"
  /\ book' = [j \in Jobs |-> IF j \in J THEN "pending" ELSE book[j]]
  /\ UNCHANGED <<taken, turned>>

\* Telegram takes the message; it may do so again while the outbox does not
\* know, or even afterwards.
Take(j) ==
  /\ book[j] # "absent"
  /\ taken' = taken \union {j}
  /\ UNCHANGED <<book, turned>>

Refuse(j) ==
  /\ book[j] # "absent"
  /\ turned' = turned \union {j}
  /\ UNCHANGED <<book, taken>>

\* The book is closed on the evidence.
Close(j) ==
  /\ book[j] = "pending"
  /\ \/ j \in taken  /\ book' = [book EXCEPT ![j] = "delivered"]
     \/ j \in turned /\ book' = [book EXCEPT ![j] = "dead"]
  /\ UNCHANGED <<taken, turned>>

Next ==
  \/ \E J \in SUBSET Jobs : Book(J)
  \/ \E j \in Jobs : Take(j) \/ Refuse(j) \/ Close(j)

Spec == Init /\ [][Next]_promiseVars

\* Every job on the books is closed in the end.
Closed == \A j \in Jobs : book[j] = "pending" ~> book[j] \in {"delivered", "dead"}

Promise == Spec /\ Closed

=============================================================================
