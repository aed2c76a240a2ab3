-------------------------- MODULE MCDeviceReports --------------------------
(* Small instance of DeviceReports: what is sent, and which requests may   *)
(* be under way at the same time.                                          *)
EXTENDS DeviceReports

CONSTANTS d1, d2, k1, k2

R(kind, device, key) == [kind |-> kind, device |-> device, key |-> key]

(* One device with two heartbeats, two events and reminders, and another.  *)
SomeRequests ==
  {R("heartbeat", d1, k1), R("heartbeat", d1, k2), R("event", d1, k1), R("event", d1, k2),
   R("heartbeat", d2, k1), R("reminder", d1, None)}

(* A device sends one heartbeat and one event at a time; everything else   *)
(* overlaps, two reminders included.                                       *)
OneReportAtATime ==
  {p \in SomeRequests \X SomeRequests :
     p[1].kind = "reminder" \/ p[1].kind # p[2].kind \/ p[1].device # p[2].device}

ThreadSymmetry == Permutations(Threads)
=============================================================================
