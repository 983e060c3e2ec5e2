----------------------------- MODULE LockService -----------------------------
(***************************************************************************)
(* What the mutexes promise their callers, with no scheduler in sight: a   *)
(* client asks for one lock at a time, is granted it at a moment when      *)
(* nobody holds it, and gives it back only itself.                         *)
(***************************************************************************)
CONSTANTS Clients, Locks, NoLock

VARIABLES
  asked,     \* the lock each client waits for
  held       \* the locks each client has

Init ==
  /\ asked = [c \in Clients |-> NoLock]
  /\ held = [c \in Clients |-> {}]

Ask(c, l) ==
  /\ asked[c] = NoLock
  /\ l \notin held[c]
  /\ asked' = [asked EXCEPT ![c] = l]
  /\ UNCHANGED held

Grant(c, l) ==
  /\ asked[c] = l
  /\ \A d \in Clients : l \notin held[d]
  /\ asked' = [asked EXCEPT ![c] = NoLock]
  /\ held' = [held EXCEPT ![c] = @ \cup {l}]

GiveBack(c, l) ==
  /\ asked[c] = NoLock
  /\ l \in held[c]
  /\ held' = [held EXCEPT ![c] = @ \ {l}]
  /\ UNCHANGED asked

Next == \E c \in Clients, l \in Locks : Ask(c, l) \/ Grant(c, l) \/ GiveBack(c, l)

Spec == Init /\ [][Next]_<<asked, held>>

=============================================================================
