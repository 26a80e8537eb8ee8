--------------------------- MODULE MCPushDeploys ---------------------------
\* Instances of PushDeploys for TLC; the constants are given in the cfgs.
EXTENDS PushDeploys
=============================================================================
