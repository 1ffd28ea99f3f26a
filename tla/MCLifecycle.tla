----------------------------- MODULE MCLifecycle -----------------------------
(* Instances of Lifecycle for TLC: pids of one and of two digits. *)
EXTENDS Lifecycle

CONSTANTS p1, p2, p3

MCDigits == [p \in Pids |->
                CASE p = p1 -> <<1, 0>> [] p = p2 -> <<7>> [] OTHER -> <<8>>]
=============================================================================
