---------------------------- MODULE MessageQueue ----------------------------
(***************************************************************************)
(* What the connection between a Client and a reader is to everything      *)
(* above it, and what LLRPSession takes it for: a queue of whole messages. *)
(* They are handed over in the order they were put in, each at most once   *)
(* and nothing else; somebody who waits for a reply gets the whole of its  *)
(* payload, a handler as much as it reads.                                 *)
(***************************************************************************)
EXTENDS Naturals, Sequences

CONSTANTS
  Messages,       \* what is sent
  Header(_)       \* what the receiver learns of a message besides its payload

VARIABLES
  queue,          \* the messages on their way
  handed          \* what was handed over last

vars == <<queue, handed>>

NothingYet == [nothing |-> TRUE]

Init == queue = <<>> /\ handed = NothingYet

Put == \E m \in Messages : queue' = Append(queue, m) /\ UNCHANGED handed

HandOver(header, data, whole) ==
  handed' = [header |-> header, data |-> data, whole |-> whole]

(* A reply goes to who waits for it. *)
Reply ==
  /\ queue # <<>>
  /\ queue' = Tail(queue)
  /\ HandOver(Header(Head(queue)), Head(queue).payload, TRUE)

(* A handler gets a message. *)
Handle ==
  /\ queue # <<>>
  /\ queue' = Tail(queue)
  /\ \E n \in 0 .. Len(Head(queue).payload) :
       HandOver(Header(Head(queue)), SubSeq(Head(queue).payload, 1, n), FALSE)

(* Nobody wants a message. *)
Skip == queue # <<>> /\ queue' = Tail(queue) /\ UNCHANGED handed

Next == Put \/ Reply \/ Handle \/ Skip

Spec == Init /\ [][Next]_vars

=============================================================================
