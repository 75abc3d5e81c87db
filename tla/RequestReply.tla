---------------------------- MODULE RequestReply ----------------------------
(***************************************************************************)
(* What a Client promises the callers of its methods, without goroutines,  *)
(* queues, message IDs or a network: a call is accepted at most once, only *)
(* while the link is open, never once the message that closes it has been  *)
(* accepted; an answer comes only to an accepted call and while the link   *)
(* lasts; a call fails only because the Client was closed, its own         *)
(* deadline passed or it did not like the answer.                          *)
(***************************************************************************)
CONSTANTS Senders, Deadlines

VARIABLES
  link,    \* "new", "open", "closing" or "down"
  closed,  \* whether the Client has been closed
  call     \* how far each sender's call has come

vars == <<link, closed, call>>

Links == {"new", "open", "closing", "down"}
Stages == {"idle", "waiting", "closing", "sent", "answered", "done", "failed"}

TypeOK ==
  /\ link \in Links
  /\ closed \in BOOLEAN
  /\ call \in [Senders -> Stages]

Init ==
  /\ link = "new" /\ closed = FALSE
  /\ call = [p \in Senders |-> "idle"]

Moves(p, from, to) ==
  /\ call[p] \in from
  /\ call' = [call EXCEPT ![p] = to]

(* A caller asks for something to be sent, or for the Client to be closed. *)
Invoke(p) == Moves(p, {"idle"}, "waiting") /\ UNCHANGED <<link, closed>>
InvokeClose(p) == Moves(p, {"idle"}, "closing") /\ UNCHANGED <<link, closed>>

(* The link takes a request, one nobody waits for, or its last one. *)
Accept(p) ==
  link = "open" /\ Moves(p, {"waiting"}, "sent") /\ UNCHANGED <<link, closed>>
AcceptUnawaited(p) ==
  link = "open" /\ Moves(p, {"waiting"}, "done") /\ UNCHANGED <<link, closed>>
AcceptLast(p) ==
  /\ link = "open" /\ link' = "closing"
  /\ Moves(p, {"waiting"}, "sent") /\ UNCHANGED closed

Answer(p) ==
  link \in {"open", "closing"} /\ Moves(p, {"sent"}, "answered") /\ UNCHANGED <<link, closed>>

Return(p) == Moves(p, {"answered"}, "done") /\ UNCHANGED <<link, closed>>

Fail(p) ==
  /\ Moves(p, {"waiting", "closing", "sent", "answered"}, "failed")
  /\ closed \/ p \in Deadlines \/ call[p] = "answered"
  /\ UNCHANGED <<link, closed>>

(* Only one Close succeeds. *)
Close(p) ==
  /\ ~closed /\ closed' = TRUE
  /\ Moves(p, {"closing", "answered"}, "done") /\ UNCHANGED link

(* The link opens, is given up, and goes down; a link that is down is closed. *)
OpenLink == link = "new" /\ link' = "open" /\ UNCHANGED <<closed, call>>
GiveUpLink == ~closed /\ closed' = TRUE /\ UNCHANGED <<link, call>>
LinkGoesDown ==
  link # "down" /\ link' = "down" /\ closed' = TRUE /\ UNCHANGED call

Next ==
  \/ \E p \in Senders :
       \/ Invoke(p) \/ InvokeClose(p)
       \/ Accept(p) \/ AcceptUnawaited(p) \/ AcceptLast(p)
       \/ Answer(p) \/ Return(p) \/ Fail(p) \/ Close(p)
  \/ OpenLink \/ GiveUpLink \/ LinkGoesDown

Spec == Init /\ [][Next]_vars

=============================================================================
