------------------------ MODULE MCSandboxLifecycle ------------------------
(* The bounded instance of SandboxLifecycle.                               *)
EXTENDS SandboxLifecycle
=============================================================================
