------------------------- MODULE MCPersistentQueue -------------------------
(* Small instances of PersistentQueue for TLC.                               *)
EXTENDS PersistentQueue

\* The operation rejects as many tasks as there are workers, and one of the
\* others has nothing to do.
MCRejected == {0, 2}
MCIdle == {1}
=============================================================================
