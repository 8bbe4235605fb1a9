---------------------------- MODULE MCIngestRun ----------------------------
(* Two competitions and a team that plays in both. *)
EXTENDS IngestRun

MCCodes == <<"PL", "CL">>
MCEntrants == [c \in {"PL", "CL"} |-> IF c = "PL" THEN {"A"} ELSE {"A", "B"}]

MCBackfills == {<<1, 2>>}

=============================================================================
