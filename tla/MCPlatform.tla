---------------------------- MODULE MCPlatform ----------------------------
(* Small instances of Platform for TLC: see the .cfg file.                 *)
EXTENDS Platform
=============================================================================
