--------------------------- MODULE ClientPromise ---------------------------
(***************************************************************************)
(* What a client of a daemon is promised, whatever the daemon does and     *)
(* wherever it dies: its request is acted on at most once, and it is told  *)
(* one thing, once.  Told that it was done, it was; told that it was       *)
(* refused, it was not, and never is afterwards; only a client that was    *)
(* told nothing, or that nobody knows, may yet see its request acted on.   *)
(***************************************************************************)
CONSTANT Client

VARIABLES acted,  \* how often the request of each was acted on
          told    \* what each client was told

Word == {"nothing", "done", "refused", "unknown"}

Init ==
  /\ acted = [c \in Client |-> 0]
  /\ told = [c \in Client |-> "nothing"]

Act(c) ==
  /\ acted[c] = 0 /\ told[c] \in {"nothing", "unknown"}
  /\ acted' = [acted EXCEPT ![c] = 1]
  /\ UNCHANGED told

\* What may be said to a client that has heard nothing.
MaySay(c, word) ==
  /\ told[c] = "nothing"
  /\ word = "done" => acted[c] = 1
  /\ word = "refused" => acted[c] = 0

\* One client is told, or all whom a daemon leaves behind when it dies.
Tell ==
  /\ told' \in [Client -> Word]
  /\ \A c \in Client : told'[c] # told[c] => MaySay(c, told'[c])
  /\ UNCHANGED acted

Next == Tell \/ \E c \in Client : Act(c)

Spec == Init /\ [][Next]_<<acted, told>>
=============================================================================
