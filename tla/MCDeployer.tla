----------------------------- MODULE MCDeployer -----------------------------
(* Small instances of Deployer for TLC; the configurations choose the source  *)
(* of the app, the operations and whether they overlap.                       *)
EXTENDS Deployer

SerialOps == AllOps \ {"stale"}
RacingOps == AllOps \ {"restart", "bare"}
StormOps == {"deploy", "stale"}
RollbackOps == {"deploy", "rollback", "stale"}
SweepOps == {"deploy", "exit", "recover", "stale"}
ReplayOps == {"deploy", "upload", "rollback"}
=============================================================================
