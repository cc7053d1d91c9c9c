----------------------------- MODULE CmdService -----------------------------
(***************************************************************************)
(* What __lbs_cmd (cmd.c) promises to its callers, with the command        *)
(* buffers, the threads and the card abstracted away: the requests are     *)
(* served one at a time, in the order they were queued, and each call      *)
(* returns what its own request was answered with, or that it was refused. *)
(* A request the firmware does not answer in time goes back to the head of *)
(* the queue; one that is given up is answered like any other.             *)
(*                                                                         *)
(* The queue is a set with its order, not a sequence: in the driver other  *)
(* commands stand between the requests.                                    *)
(***************************************************************************)
CONSTANTS Clients,   \* the processes that make synchronous calls
          Nobody,    \* not a client
          Answers,   \* what a request can be answered with
          Refusals   \* what a call that was not accepted returns

VARIABLES
    queue,     \* the clients whose requests wait
    before,    \* the pairs of them whose first is served before the second
    serving,   \* the client whose request is with the firmware, or Nobody
    answer,    \* per client: the set of answers not yet returned
    returned   \* per client: what its last call returned

svars == <<queue, before, serving, answer, returned>>

SInit ==
    /\ queue = {} /\ before = {}
    /\ serving = Nobody
    /\ answer = [c \in Clients |-> {}]
    /\ returned \in [Clients -> Answers]

Waiting(c) == c \in queue \/ c = serving \/ answer[c] # {}

Request(c) ==
    /\ ~Waiting(c)
    /\ queue' = queue \cup {c}
    /\ before' = before \cup (queue \X {c})
    /\ UNCHANGED <<serving, answer, returned>>

Refuse(c) ==
    /\ ~Waiting(c)
    /\ \E r \in Refusals : returned' = [returned EXCEPT ![c] = r]
    /\ UNCHANGED <<queue, before, serving, answer>>

Serve(c) ==
    /\ serving = Nobody
    /\ c \in queue /\ \A d \in queue \ {c} : <<c, d>> \in before
    /\ serving' = c
    /\ queue' = queue \ {c}
    /\ before' = before \ ({c} \X queue)
    /\ UNCHANGED <<answer, returned>>

PutBack ==
    /\ serving # Nobody
    /\ queue' = queue \cup {serving}
    /\ before' = before \cup ({serving} \X queue)
    /\ serving' = Nobody
    /\ UNCHANGED <<answer, returned>>

Answer ==
    /\ serving # Nobody
    /\ \E r \in Answers : answer' = [answer EXCEPT ![serving] = {r}]
    /\ serving' = Nobody
    /\ UNCHANGED <<queue, before, returned>>

Return(c) ==
    /\ \E r \in answer[c] : returned' = [returned EXCEPT ![c] = r]
    /\ answer' = [answer EXCEPT ![c] = {}]
    /\ UNCHANGED <<queue, before, serving>>

SNext ==
    \/ \E c \in Clients : Request(c) \/ Refuse(c) \/ Serve(c) \/ Return(c)
    \/ PutBack \/ Answer

SSpec == SInit /\ [][SNext]_svars
=============================================================================
