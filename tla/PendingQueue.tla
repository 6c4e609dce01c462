---------------------------- MODULE PendingQueue ----------------------------
(***************************************************************************)
(* The Redis list dispatch:pending of dispatch/queue.py: a hint about work *)
(* to do, lost without notice when Redis is.                               *)
(***************************************************************************)
EXTENDS Sequences

VARIABLE queue      \* trip ids, oldest first

Push(t) == queue' = Append(queue, t)

(* BLPOP with an item waiting.  A timeout returns None and changes nothing. *)
Pop(t) ==
    /\ queue # <<>>
    /\ t = Head(queue)
    /\ queue' = Tail(queue)
=============================================================================
