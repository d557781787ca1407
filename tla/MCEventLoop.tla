---------------------------- MODULE MCEventLoop ----------------------------
(* One task priority above and one below the default; the call stack is     *)
(* deep enough for a loop run by an asyncio callback of another loop.       *)
EXTENDS EventLoop
MCPrio == {-1, 1}
=============================================================================
