----------------------------- MODULE ActorQueue -----------------------------
(***************************************************************************)
(* What a JobQueue promises to the code that posts to it (Room::DoAsync,   *)
(* Room::DoTimer): every queue is a FIFO mailbox, its jobs are taken out   *)
(* one at a time, in the order they went in, and each of them exactly      *)
(* once.  Which thread runs a job, and through which path the queue got    *)
(* scheduled, is not visible here.  JobQueue.tla implements this module.   *)
(***************************************************************************)
EXTENDS Sequences

CONSTANTS Queue,  \* the job queues (one per Room)
          Job     \* the jobs that are ever posted, each of them once

VARIABLES unsent,   \* jobs nobody has posted yet
          mailbox,  \* mailbox[q]: jobs posted to q and not completed
          ran       \* ran[q]: jobs completed on behalf of q, oldest first

vars == <<unsent, mailbox, ran>>

Init ==
  /\ unsent = Job
  /\ mailbox = [q \in Queue |-> <<>>]
  /\ ran = [q \in Queue |-> <<>>]

Send(q, j) ==
  /\ j \in unsent
  /\ unsent' = unsent \ {j}
  /\ mailbox' = [mailbox EXCEPT ![q] = Append(@, j)]
  /\ UNCHANGED ran

Run(q) ==
  /\ mailbox[q] # <<>>
  /\ mailbox' = [mailbox EXCEPT ![q] = Tail(@)]
  /\ ran' = [ran EXCEPT ![q] = Append(@, Head(mailbox[q]))]
  /\ UNCHANGED unsent

Next == \E q \in Queue : Run(q) \/ \E j \in Job : Send(q, j)

Spec == Init /\ [][Next]_vars

(* A queue that has jobs is eventually served. *)
FairSpec == Spec /\ \A q \in Queue : WF_vars(Run(q))

=============================================================================
