------------------------------ MODULE MCStation ------------------------------
(* A small station: three vehicles, three connectors, and room for    *)
(* two bookings of one tier.                                                 *)
EXTENDS Station

CONSTANTS v1, v2, v3

MCVehicles == {v1, v2, v3}
MCTiers == <<0, 1, 2>>
=============================================================================
