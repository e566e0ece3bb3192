--------------------------- MODULE AnthropicStream ---------------------------
(***************************************************************************)
(* What a client of the proxy may rely on when it reads a streamed reply:  *)
(* the grammar of Anthropic server-sent events, independent of how the     *)
(* bridge produces them.                                                   *)
(*                                                                         *)
(*   message_start                                                         *)
(*   (content_block_start | content_block_delta)*                          *)
(*   content_block_stop*          one per block, in the order they started *)
(*   message_delta message_stop                                            *)
(*                                                                         *)
(* Blocks are numbered 0, 1, 2, ... in the order they start, a delta names *)
(* a block that has started and not stopped, and its type is the one of    *)
(* its block.  A stream may be cut at any point; nothing follows the cut.  *)
(***************************************************************************)
EXTENDS Naturals, Sequences

VARIABLES
  phase,    \* how far the message has come
  kinds,    \* the kind of every block started so far; block i is kinds[i+1]
  stopped,  \* how many blocks have been stopped
  ev        \* the event sent last

vars == <<phase, kinds, stopped, ev>>

Kind  == {"text", "tool_use"}
Phase == {"idle", "content", "ended", "done", "cut"}

NoEvent == [type |-> "none"]

(***************************************************************************)
(* The delta type each kind of block carries.                              *)
(***************************************************************************)
DeltaOf(k) == IF k = "text" THEN "text_delta" ELSE "input_json_delta"

Init ==
  /\ phase = "idle"
  /\ kinds = <<>>
  /\ stopped = 0
  /\ ev = NoEvent

MessageStart ==
  /\ phase = "idle"
  /\ phase' = "content"
  /\ ev' = [type |-> "message_start"]
  /\ UNCHANGED <<kinds, stopped>>

BlockStart(k) ==
  /\ phase = "content"
  /\ stopped = 0
  /\ kinds' = Append(kinds, k)
  /\ ev' = [type |-> "content_block_start", index |-> Len(kinds), kind |-> k]
  /\ UNCHANGED <<phase, stopped>>

BlockDelta ==
  /\ phase = "content"
  /\ stopped = 0
  /\ \E i \in DOMAIN kinds :
       ev' = [type |-> "content_block_delta", index |-> i - 1, delta |-> DeltaOf(kinds[i])]
  /\ UNCHANGED <<phase, kinds, stopped>>

BlockStop ==
  /\ phase = "content"
  /\ stopped < Len(kinds)
  /\ stopped' = stopped + 1
  /\ ev' = [type |-> "content_block_stop", index |-> stopped]
  /\ UNCHANGED <<phase, kinds>>

MessageDelta ==
  /\ phase = "content"
  /\ stopped = Len(kinds)
  /\ phase' = "ended"
  /\ ev' = [type |-> "message_delta"]
  /\ UNCHANGED <<kinds, stopped>>

MessageStop ==
  /\ phase = "ended"
  /\ phase' = "done"
  /\ ev' = [type |-> "message_stop"]
  /\ UNCHANGED <<kinds, stopped>>

(***************************************************************************)
(* The backend failed or the client went away.                             *)
(***************************************************************************)
Cut ==
  /\ phase \notin {"done", "cut"}
  /\ phase' = "cut"
  /\ UNCHANGED <<kinds, stopped, ev>>

Next ==
  \/ MessageStart
  \/ \E k \in Kind : BlockStart(k)
  \/ BlockDelta
  \/ BlockStop
  \/ MessageDelta
  \/ MessageStop
  \/ Cut

Spec == Init /\ [][Next]_vars

=============================================================================
