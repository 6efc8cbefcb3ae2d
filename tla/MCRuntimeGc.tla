---------------------------- MODULE MCRuntimeGc ----------------------------
(* Small instances of RuntimeGc for TLC. *)
EXTENDS RuntimeGc, TLC

\* The collector's clock is behind by more than the margin, or ahead by it.
MCSkews == {-2, 1}

\* The payload of a request that has ended is not part of any state: its handle
\* is gone, and so is its entry unless it is still in active/.
LiveView ==
    <<now, store, coord, locks, retired, active, reader, gcVars,
      [r \in Readers |->
         IF r \in active \/ reader[r] \in Acquiring \cup Holding
         THEN <<leased[r], acquired[r], expires[r],
                IF reader[r] = "reading" THEN lastRenew[r] ELSE 0>>
         ELSE <<>>]>>
=============================================================================
