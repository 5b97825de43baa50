----------------------- MODULE MCAttributionWorkerPool -----------------------
(* The worker pool on small bounds.                                        *)
EXTENDS AttributionWorkerPool
=============================================================================
