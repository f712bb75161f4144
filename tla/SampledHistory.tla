--------------------------- MODULE SampledHistory ---------------------------
(***************************************************************************)
(* SampledCache with a history variable, which no action reads: the pcs    *)
(* whose blocks have fallen out of the sampler.                            *)
(***************************************************************************)
EXTENDS SampledCache

VARIABLE evicted

\* The pcs of the blocks that a step takes out of the sampler.
Evictions == {q \in PC : \E s \in Sampled :
                \E v \in DOMAIN samplerblocks[s] :
                    /\ samplerblocks[s][v].partialPC = q
                    /\ \A w \in DOMAIN samplerblocks'[s] :
                        samplerblocks'[s][w].block # samplerblocks[s][v].block}

HistoryInit == Init /\ evicted = {}
HistoryNext == Next /\ evicted' = evicted \cup Evictions
HistorySpec == HistoryInit /\ [][HistoryNext]_<<vars, evicted>>

\* A pc is found dead only because of blocks that fell out of the sampler:
\* each of its three counters was raised by a pc that lost one.  Two pcs of
\* the code share at most one counter, so that is the pc itself or three
\* others.
DeadOnesWereEvicted ==
    \A p \in PC : predictor(predictionTable, p) =>
        \A t \in Table : \E q \in evicted : Index(t, q) = Index(t, p)
=============================================================================
