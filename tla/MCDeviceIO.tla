----------------------------- MODULE MCDeviceIO -----------------------------
(* DeviceIO for TLC: a program with one port for both devices and another    *)
(* for its timeouts.                                                       *)
EXTENDS DeviceIO

CONSTANTS c1, p1, q1, u1, u2, t1, t2

TaskOfPort == [p \in Ports |-> c1]

PortOfRequest == [r \in Requests |-> IF r \in Timeouts THEN q1 ELSE p1]
=============================================================================
