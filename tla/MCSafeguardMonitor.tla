------------------------- MODULE MCSafeguardMonitor -------------------------
(* Two safeguards that are due at different rates, or one safeguard alone. *)
EXTENDS SafeguardMonitor

MCInterval == <<1, 2>>
MCOneInterval == <<1>>
=============================================================================
