---------------------------- MODULE RealtimeGate ----------------------------
(***************************************************************************)
(* core/realtime_gate.py: the process-wide gate that background work waits  *)
(* on while a voice turn is latency critical.  One instance serves every    *)
(* session; a turn is known to it by its key.                               *)
(*                                                                          *)
(* The asyncio.Event `_idle` is set exactly while `_active` is empty (begin *)
(* clears it, end sets it when the last key goes), so it is not a variable: *)
(* it is GateIdle.  What the Event adds, a waiter that resumes later than   *)
(* the set() that woke it, belongs to the waiter and is modelled there.     *)
(***************************************************************************)

VARIABLE gateActive     \* the set _active of keys of latency-critical turns

GateInit == gateActive = {}

GateIdle == gateActive = {}

GateBegin(key) == gateActive' = gateActive \cup {key}

\* Ending a key that is not active changes nothing (set.discard).
GateEnd(key) == gateActive' = gateActive \ {key}
=============================================================================
