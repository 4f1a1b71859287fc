----------------------------- MODULE MCPipeline -----------------------------
EXTENDS RequestPipeline, TLC
CONSTANTS j1, j2, h1, h2
SymJobsHandlers == Permutations({j1, j2}) \cup Permutations({h1, h2})
SymJobs == Permutations({j1, j2})
=============================================================================
