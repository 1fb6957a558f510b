--------------------------- MODULE SessionScoring ---------------------------
(***************************************************************************)
(* The sessions of the core service scored by its engine: what Scoring     *)
(* makes of the report a session holds.                                    *)
(***************************************************************************)
EXTENDS SessionCore, Scoring

\* The signal a handler mints under each id.
Minted(id) ==
  CASE id \in {"l5.rit.ok", "l5.rit.bootstrap", Upgrade, "l7.pass.solved"} -> NewSignal(id, "OK", 100)
    [] id \in {"l5.rit.stale_replay", "l5.header.proxy_hop"} -> NewSignal(id, "SUSPICIOUS", 100)
    [] id = "l3.guard.csp_violation" -> NewSignal(id, "SUSPICIOUS", 70)
    [] OTHER -> NewSignal(id, "BOT", 100)

\* ScoreReport of every report a session can hold, by its client part and the
\* server signals that count: the reports of the clients and the configuration
\* of the engine are given.
EngineScores(reports, config) ==
  [key \in (DOMAIN reports) \X (SUBSET ScoredIds) |->
     ScoreReport([reports[key[1]] EXCEPT !.net = {Minted(id) : id \in key[2]}], config)]

=============================================================================
