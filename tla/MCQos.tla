------------------------------- MODULE MCQos -------------------------------
(* Instances of Qos: a thread that adds messages, and one that hears of the *)
(* acknowledgments.                                                         *)
EXTENDS Qos

MCCalls == {"app"} \X {"add", "notify_all", "remove_all", "timer_reset"} \cup {<<"ack", "remove">>}
=============================================================================
