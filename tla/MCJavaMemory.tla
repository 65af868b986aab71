---------------------------- MODULE MCJavaMemory ----------------------------
(* Two threads of the application on two buffers and two pools.            *)
EXTENDS JavaMemory

=============================================================================
