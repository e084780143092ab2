--------------------------- MODULE MCUDPReceiver ---------------------------
(* UDPReceiver for TLC.                                                     *)
EXTENDS UDPReceiver

\* Queued or synchronous, dropping or blocking; and dropping without a callback.
MCModes == [size : {0, 1}, blocking : BOOLEAN, callback : {TRUE}]
           \union {[size |-> 1, blocking |-> FALSE, callback |-> FALSE]}
============================================================================
