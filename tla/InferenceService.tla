-------------------------- MODULE InferenceService --------------------------
(***************************************************************************)
(* What the gRPC front end promises its clients, with no completion queue, *)
(* pool or request object in sight: a call that the open service accepts   *)
(* is executed at most once, by one worker that is doing nothing else; it  *)
(* is answered only after it was executed; and the service does not stop   *)
(* while a call it accepted is still waiting for its answer.               *)
(***************************************************************************)
CONSTANTS Calls,      \* the calls the clients make
          Workers,    \* the threads that execute them
          CanServe,   \* the pairs <<worker, call>> the service may combine
          NoCall      \* what an idle worker executes

VARIABLES phase,      \* "down", "up", "closed", "stopped"
          status,     \* of a call: "idle", "sent", "open", "ok", "failed"
          accepted,   \* the calls accepted that no worker has begun
          busy        \* the call each worker executes

svars == <<phase, status, accepted, busy>>

Init == /\ phase = "down"
        /\ status = [c \in Calls |-> "idle"]
        /\ accepted = {}
        /\ busy = [w \in Workers |-> NoCall]

Open == /\ phase = "down"
        /\ phase' = "up"
        /\ UNCHANGED <<status, accepted, busy>>

(* A call to a service that is not up fails at once. *)
Send(c) == /\ status[c] = "idle"
           /\ status' = [status EXCEPT ![c] = IF phase = "up" THEN "sent" ELSE "failed"]
           /\ UNCHANGED <<phase, accepted, busy>>

Accept(c) == /\ phase = "up"
             /\ status[c] = "sent"
             /\ status' = [status EXCEPT ![c] = "open"]
             /\ accepted' = accepted \cup {c}
             /\ UNCHANGED <<phase, busy>>

Begin(c, w) == /\ c \in accepted
               /\ busy[w] = NoCall
               /\ <<w, c>> \in CanServe
               /\ accepted' = accepted \ {c}
               /\ busy' = [busy EXCEPT ![w] = c]
               /\ UNCHANGED <<phase, status>>

(* The answer of a call whose client has gone is dropped. *)
Answer(w) == /\ busy[w] # NoCall
             /\ status' = [status EXCEPT ![busy[w]] = IF @ = "open" THEN "ok" ELSE @]
             /\ busy' = [busy EXCEPT ![w] = NoCall]
             /\ UNCHANGED <<phase, accepted>>

(* The client or its connection disappears. *)
Lose(c) == /\ status[c] \in {"sent", "open"}
           /\ status' = [status EXCEPT ![c] = "failed"]
           /\ UNCHANGED <<phase, accepted, busy>>

(* The service stops accepting: calls not yet accepted are refused. *)
Close == /\ phase = "up"
         /\ phase' = "closed"
         /\ status' = [c \in Calls |-> IF status[c] = "sent" THEN "failed" ELSE status[c]]
         /\ UNCHANGED <<accepted, busy>>

(* After the close, a call nobody waits for may be discarded unexecuted. *)
Drop(c) == /\ phase = "closed"
           /\ c \in accepted
           /\ status[c] # "open"
           /\ accepted' = accepted \ {c}
           /\ UNCHANGED <<phase, status, busy>>

Stop == /\ phase = "closed"
        /\ \A c \in Calls : status[c] # "open"
        /\ accepted = {}
        /\ \A w \in Workers : busy[w] = NoCall
        /\ phase' = "stopped"
        /\ UNCHANGED <<status, accepted, busy>>

Next == \/ Open \/ Close \/ Stop
        \/ \E c \in Calls : Send(c) \/ Accept(c) \/ Lose(c) \/ Drop(c)
        \/ \E w \in Workers : Answer(w) \/ \E c \in Calls : Begin(c, w)

Spec == Init /\ [][Next]_svars

(* A call is in one place at a time, accepted or with one worker, and only *)
(* while it waits for its answer or its client has gone: it is executed    *)
(* once and answered once.                                                 *)
OnePlace ==
    /\ \A c \in accepted : /\ c \in Calls /\ status[c] \in {"open", "failed"}
                           /\ \A w \in Workers : busy[w] # c
    /\ \A w \in Workers : busy[w] # NoCall =>
          /\ busy[w] \in Calls /\ status[busy[w]] \in {"open", "failed"}
          /\ \A v \in Workers : busy[v] = busy[w] => v = w

(* A call that waits for its answer is in such a place: none is forgotten. *)
Remembered == \A c \in Calls :
    status[c] = "open" => c \in accepted \/ \E w \in Workers : busy[w] = c
=============================================================================
