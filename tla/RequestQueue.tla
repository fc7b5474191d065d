---------------------------- MODULE RequestQueue ----------------------------
(***************************************************************************)
(* What ProtocolHandler promises to the application that queues messages   *)
(* with send_message and send_message_without_answer, with time, frames    *)
(* and handlers left out:                                                  *)
(*                                                                         *)
(*   - messages are taken in the order in which they were handed over;     *)
(*   - at most one request is on the line waiting for its answer, and it   *)
(*     is the oldest one;                                                  *)
(*   - every try of a message uses up one of the tries it was granted;     *)
(*   - a message leaves the queue in one of four ways, each told once      *)
(*     (`ended`), and a request expires only when no try is left.          *)
(*                                                                         *)
(* ProtocolHandler implements this module (property ImplementsQueue).      *)
(***************************************************************************)
EXTENDS Naturals, Sequences

CONSTANTS Message,      \* the messages an application may hand over
          MaxTries      \* the most tries a message can be granted, at least 1

VARIABLES pending,      \* the queue: records [msg, wants_answer, left]
          awaiting,     \* a request is on the line, its answer is awaited
          ended         \* the messages that left in the last step, and how

vars == <<pending, awaiting, ended>>

Ends == [op: {"answered", "expire", "notify", "drop"}, msg: Message]
Entry == [msg: Message, wants_answer: BOOLEAN, left: 0..MaxTries]

TypeOK == /\ pending \in Seq(Entry)
          /\ awaiting \in BOOLEAN
          /\ ended \in SUBSET Ends

Init == pending = <<>> /\ awaiting = FALSE /\ ended = {}

\* What a step may hand over: nothing, or a message with a try, not queued now.
Batches ==
  LET queued == {pending[i].msg : i \in DOMAIN pending}
  IN  {<<>>} \cup {<<e>> : e \in {f \in Entry : f.left > 0 /\ f.msg \notin queued}}

\* The oldest message of q leaves the queue in the way op tells.
End(q, op) ==
  /\ pending' = Tail(q)
  /\ awaiting' = FALSE
  /\ ended' = {[op |-> op, msg |-> Head(q).msg]}

\* A try of the oldest message of q is used up, its answer awaited if b.
UseTry(q, b) ==
  /\ pending' = [q EXCEPT ![1].left = @ - 1]
  /\ awaiting' = b
  /\ ended' = {}

-----------------------------------------------------------------------------
(* Every step hands over a batch, often empty, and does at most one thing. *)

Submit(batch) ==
  /\ pending' = pending \o batch
  /\ ended' = {}
  /\ UNCHANGED awaiting

\* One try of the oldest message: its answer is awaited, or the message is done
\* because it wants none, or the try failed.
Try(batch) ==
  LET q == pending \o batch
  IN  /\ ~awaiting /\ q # <<>> /\ Head(q).left > 0
      /\ \/ Head(q).wants_answer /\ UseTry(q, TRUE)
         \/ ~Head(q).wants_answer /\ End(q, "notify")
         \/ UseTry(q, FALSE)

\* The answer to the oldest message arrived.
Answer(batch) == awaiting /\ End(pending \o batch, "answered")

\* No answer arrived: the request expires if that was its last try.
GiveUp(batch) ==
  /\ awaiting
  /\ \/ Head(pending).left = 0 /\ End(pending \o batch, "expire")
     \/ Head(pending).left > 0 /\ awaiting' = FALSE /\ ended' = {}
        /\ UNCHANGED pending

\* A message that has no try left is dropped.
Drop(batch) ==
  LET q == pending \o batch
  IN  ~awaiting /\ q # <<>> /\ Head(q).left = 0 /\ End(q, "drop")

Next == \E batch \in Batches :
          Submit(batch) \/ Try(batch) \/ Answer(batch) \/ GiveUp(batch) \/ Drop(batch)

Spec == Init /\ [][Next]_vars
=============================================================================
