------------------------ MODULE MCParticleInjection ------------------------
(* Small instances of ParticleInjection for TLC.                             *)
EXTENDS ParticleInjection

\* No inflow, less than a parcel, one and a half parcels, three parcels.
MCInflows == {0, 1, 3, 6}
=============================================================================
