---------------------------- MODULE MCPassTimers ----------------------------
(* Settings for PassTimers: each of the three is switched on and off by edits. *)
EXTENDS PassTimers

SomeSettings == {[delay |-> 2, wake |-> 2, audit |-> 0],
                 [delay |-> 2, wake |-> 0, audit |-> 2],
                 [delay |-> 0, wake |-> 2, audit |-> 2]}
=============================================================================
