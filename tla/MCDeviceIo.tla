----------------------------- MODULE MCDeviceIo -----------------------------
(***************************************************************************)
(* The instances of DeviceIo for TLC.                                      *)
(***************************************************************************)
EXTENDS DeviceIo, TLC

\* Two programs that use the device in every way and exchange no messages.  The second
\* may exit with a request going on and leave its slot to another.
DeviceUsers ==
    0 :> {"spawn", "exit", "dev_submit_async", "dev_wait", "dev_event_wait"}
    @@ 1 :> {"exit", "dev_submit", "dev_submit_async"}

\* A client that lends memory to a driver and waits for its answer.
ClientAndDriver ==
    0 :> {"spawn", "send_cap", "recv", "recv_wait"}
    @@ 1 :> {"exit", "send", "dev_submit", "dev_submit_async", "cap_drop"}

\* A client that waits for its driver or for the device, and a driver that uses the
\* client's memory and may die while it does.
Waiters ==
    0 :> {"spawn", "send_cap", "recv_wait", "dev_event_wait"}
    @@ 1 :> {"exit", "dev_submit", "dev_submit_async", "dev_wait"}

\* A client that waits for its driver, and a third process that can put another in the
\* dead driver's slot while the client waits.
WaiterAndSpawner ==
    0 :> {"spawn", "recv_wait"} @@ 1 :> {"exit"} @@ 2 :> {"spawn"}
=============================================================================
