-------------------------- MODULE MCRabbitDelivery ---------------------------
(* Small instances of RabbitDelivery. *)
EXTENDS RabbitDelivery, TLC

CONSTANTS m1, m2, q1, q2, t1, t2

\* One message, sent to an exchange two queues are bound to.
FanOut == m1 :> {q1, q2}

\* One message, sent to one queue.
OneQueue == m1 :> {q1}
=============================================================================
